SPECIFICATION Spec
CONSTANTS
    Terms <- MCTerms
    Canonical <- MCCanonical
    WordBounded = {"python", "py3", "sql"}
    Alike <- MCAlike
    Similar <- MCSimilar
    Phrases = {"code review"}
    Industry <- MCIndustry
    Levels <- MCLevels
    Likeness <- MCLikeness
    Resumes <- MCResumes
    Jobs <- MCJobs
    Models <- MCModels
    None = None
INVARIANTS MoreTermsNeverHurt EveryModelIsTried
CHECK_DEADLOCK FALSE
