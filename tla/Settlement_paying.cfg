SPECIFICATION MCSpec
CONSTANTS
    q1 = q1
    q2 = q2
    h1 = h1
    h2 = h2
    i1 = i1
    i2 = i2
    Req <- MCReqs
    Fare <- MCFares
    Handle <- MCHandles
    Invoice <- MCInvoices
    MaxLedger = 2
    lnaddress = lnaddress
    tando = tando
    Rail <- MCRails
    Absent = Absent
SYMMETRY
    MCSymmetry
CHECK_DEADLOCK FALSE
INVARIANTS
    OneInvoicePerPrice
PROPERTIES
    VerifiedCoversFare
    ProofIsRecognised
