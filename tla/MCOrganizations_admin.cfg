CONSTANTS
    r0 = r0
    eve = eve
    People = {ann, bob, eve}
    Requests = {r0, r1, r2}
    Admins = {ann, bob}
    Plain = {}
    Standing <- OneLink
    Offered = {"drop", "setRole", "grant", "ungrant", "regrant"}
    Given = {"member"}
    MaxFaults = 0
SPECIFICATION Spec
INVARIANT AlwaysAnAdmin
CHECK_DEADLOCK FALSE
