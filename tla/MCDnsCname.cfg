CONSTANTS
    Labels <- MCLabels
    Candidates <- AliasCandidates
    Domains <- MCDomains
    Questions <- MCQuestions
    MaxEdits = 0
SPECIFICATION Spec
INVARIANT CnameFirst
