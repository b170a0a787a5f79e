CONSTANTS
    anna = anna
    bob = bob
    u1 = u1
    u2 = u2
    u3 = u3
    f1 = f1
    None = None
    Main = Main
    Member = {anna, bob}
    Updater = {u1, u2, u3}
    Fetcher = {f1}
SPECIFICATION Spec
PROPERTIES QuitGone
CHECK_DEADLOCK FALSE
