CONSTANTS
    Turns = {t1, t2}
    Past <- Asked
    QuestionSize = 2
    MaxRounds = 1
    MaxCalls = 1
    MaxFaults = 1
    Trigger = 4
    RecentKept = 2
SPECIFICATION Spec
VIEW Relevant
SYMMETRY Symmetry
INVARIANTS
    TypeOK
    SummaryMatchesCount
    
    DoneMeansStored
PROPERTY RefreshShrinks
CHECK_DEADLOCK FALSE
