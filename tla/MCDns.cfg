CONSTANTS
    Labels <- MCLabels
    Candidates <- MCCandidates
    Domains <- MCDomains
    Questions <- MCQuestions
    MaxEdits = 2
SPECIFICATION Spec
INVARIANTS
    TypeOK
    StableAnswered
    Provenance
    ClosestFirst
    ZoneNotDenied
    SoaOfClosestZone
    ResolvesSnapshot
PROPERTY Terminates
