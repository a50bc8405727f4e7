CONSTANTS
    c1 = c1
    c2 = c2
    session = session
    subscription = subscription
    invoice = invoice
    charge = charge
    e1 = e1
    e2 = e2
    e3 = e3
    e4 = e4
    Customers = {c1}
    Objects = {session, subscription, invoice}
    Kind <- Kinds1
    PaysFor <- Pays1
    Events = {e1, e2, e3, e4}
    Object <- About1
    Version <- Place1
    Payer <- Payer1
    Tagged = {e1, e2, e3, e4}
    Buyers = {b1}
    Handlers = {h1}
    MaxDuplicates = 1
    MaxFaults = 0
SYMMETRY HandlerSymmetry
CHECK_DEADLOCK FALSE
SPECIFICATION Spec
INVARIANTS
    InvoiceIsWrittenOnce
