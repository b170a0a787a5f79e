SPECIFICATION FairYamnSpec
CONSTANTS
    a = a  c1 = c1  c2 = c2  w1 = w1  w2 = w2  main = main  hotkey = hotkey
    Account = {a}
    Checker = {c1}
    Window = {w1, w2}
    Main = main  HotKey = hotkey
    None = None
INVARIANTS YamnTypeOK AccountKept
PROPERTIES DeletedFreed ShutdownEnds
CHECK_DEADLOCK FALSE
