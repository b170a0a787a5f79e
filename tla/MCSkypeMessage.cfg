CONSTANTS
    in1 = in1
    own1 = own1
    other1 = other1
    f1 = f1
    f2 = f2
    f3 = f3
    None = None
    Incoming = {in1}
    Own = {own1}
    Other = {other1}
    Fetcher = {f1, f2, f3}
    MaxEdits = 1
SPECIFICATION FairSpec
INVARIANTS MessageTypeOK StoredOnce
PROPERTIES ReceivedStored EditShown
CHECK_DEADLOCK FALSE
