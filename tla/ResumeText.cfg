SPECIFICATION Spec
CONSTANTS
    Lines <- MCLines
    Headers <- MCHeaders
    Bulleted = {"* z"}
    Long = {"wide"}
    Linked = {"x@y"}
    Tailored <- MCTailored
    Edited <- MCEdited
    Listed = {"x|y, go, R"}
    Wide = {"wide"}
    Letters = {"R"}
    Blank = ""
    Binary = "NUL"
    MaxLines = 6
    Room = 5
    Absent = Absent
INVARIANTS LinesAccountedFor TailoredSkillsReachEditor
CHECK_DEADLOCK FALSE
