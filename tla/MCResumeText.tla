---------------------------- MODULE MCResumeText ----------------------------
(* An instance of ResumeText for TLC: two headers for one field, headers of *)
(* two other fields, and one without a field; a line with two delimiters    *)
(* and a skill of one letter, a wide line, a bullet and a link.             *)
EXTENDS ResumeText

MCHeaders == [skills |-> "skills", technical |-> "technical skills",
              experience |-> "experience", education |-> "education", awards |-> "awards"]
MCLines == DOMAIN MCHeaders \cup {"x|y, go, R", "wide", "* z", "x@y", ""}
MCTailored == [l \in MCLines \cup {"NUL"} |-> IF l = "x|y, go, R" THEN {"x", "y", "go", "R"} ELSE {l} \ {""}]
MCEdited == [l \in MCLines \cup {"NUL"} |->
                CASE l = "x|y, go, R" -> {"x|y", "go", "R"} [] l = "* z" -> {"z"} [] OTHER -> {l} \ {""}]
=============================================================================
