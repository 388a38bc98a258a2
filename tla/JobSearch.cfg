SPECIFICATION Spec
CONSTANTS
    s1 = s1
    s2 = s2
    Searches = {s1, s2}
    Sites <- MCSites
    Scraped <- MCScraped
    Semantic <- MCSemantic
    Limit = 2
    Known <- MCKnown
    Doomed <- MCDoomed
    First = First
    None = None
INVARIANTS DistinctListingsKept ConflictsAreRaces
CHECK_DEADLOCK FALSE
