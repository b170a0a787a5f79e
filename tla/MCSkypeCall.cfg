SPECIFICATION FairCallSpec
CONSTANTS
    phone = phone
    k1 = k1  k2 = k2
    Contacts = {phone}
    Listed = {}
    Calls = {k1, k2}
    Incoming = {k2}
    Partner <- MCPartner
    MaxThreads = 4
    MaxDialogs = 2
    NoCall = NoCall  Nobody = Nobody
    NoThread = NoThread
INVARIANTS CallTypeOK EndedStaysEnded
PROPERTIES CallIdKept OnlySkypeHoldsUp
CHECK_DEADLOCK FALSE
