CONSTANTS
    kit = kit
    e2 = e2
    e3 = e3
    google = google
    github = github
    g1 = g1
    h1 = h1
    f1 = f1
    f2 = f2
    Requests = {f1, f2, r1, r2}
    People = {kit}
    Keyless = {kit}
    Addresses = {e2, e3}
    AddressOf <- Registered
    Profiles = {g1, h1}
    ProviderOf <- Provided
    Claims <- Said
    Linked <- Kits
    Begun <- UnderWay
    Offered = {"callback"}
    RequireVerified = TRUE
    MaxFaults = 0
SYMMETRY Symmetry
VIEW Relevant
SPECIFICATION Spec
INVARIANT LoserLeavesNothing
CHECK_DEADLOCK FALSE
