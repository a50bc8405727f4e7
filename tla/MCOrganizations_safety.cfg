CONSTANTS
    r0 = r0
    eve = eve
    People = {ann, bob, eve}
    Requests = {r0, r1, r2, r3}
    Admins = {ann, bob}
    Plain = {}
    Standing <- OneLink
    Offered = {"invite", "accept", "add", "grant", "revoke", "register", "found", "leave", "drop", "setRole", "regrant", "ungrant"}
    Given = {"member"}
    MaxFaults = 1
VIEW Relevant
SYMMETRY Symmetry
SPECIFICATION Spec
INVARIANTS
    TypeOK
    
    OneLiveLink
    LinkAdmitsOnce
    
    EmptyPlaceIsExplained
 
CHECK_DEADLOCK FALSE
