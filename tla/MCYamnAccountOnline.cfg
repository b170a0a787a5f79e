SPECIFICATION YamnSpec
CONSTANTS
    a = a  c1 = c1  c2 = c2  w1 = w1  w2 = w2  main = main  hotkey = hotkey
    Account = {a}
    Checker = {c1, c2}
    Window = {w1}
    Main = main  HotKey = hotkey
    None = None
INVARIANTS OneOnline
CHECK_DEADLOCK FALSE
