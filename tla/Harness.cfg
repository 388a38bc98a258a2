SPECIFICATION FairSpec
CONSTANTS
    r1 = r1
    r2 = r2
    c1 = c1
    c2 = c2
    pii = pii
    None = None
    Runs = {r1, r2}
    Contents = {c1, c2, pii}
    Personal = {pii}
    Known <- KnownSkills
    SkillLimit = 2
    VersionRetries = 2
    MaxTries = 2
INVARIANTS TypeOK ScoreWithinSignals SignalsPerTry FileRemoved
PROPERTIES RetiredForGood GivesUpOnlyWhenBeaten ReviewEnds
CHECK_DEADLOCK FALSE
