CONSTANTS
    c1 = c1
    c2 = c2
    session = session
    subscription = subscription
    invoice = invoice
    charge = charge
    e1 = e1
    e2 = e2
    e3 = e3
    e4 = e4
    Customers = {c1}
    Objects = {session, subscription, charge}
    Kind <- Kinds2
    PaysFor <- Pays2
    Events = {e1, e2, e3}
    Object <- About2
    Version <- Place2
    Payer <- Payer2
    Tagged = {e1, e3}
    Buyers = {b1}
    Handlers = {h1, h2}
    MaxDuplicates = 1
    MaxFaults = 1
CHECK_DEADLOCK FALSE
SPECIFICATION Spec
INVARIANTS
    TypeOK
    
    ProcessedIsWritten
PROPERTIES
    LinksAreKept
    
