CONSTANTS
    Width = 8
    MaxDelay = 50
    Trigger = 4
    RecentKept = 2
    None = None
    Class <- Classes
    Others <- Members
    BackOffice <- SchoolAdmins
    MaxBackoff = 60
    LastAttempt = 14
    MaxMessages = 5
    MaxRules = 2
SPECIFICATION Spec
INVARIANTS
    DelayDoublesToTheCap
    TailIsUsable
    TenantKept
PROPERTIES
    OneMoreYes
    DenialIsForHolders
CHECK_DEADLOCK FALSE
