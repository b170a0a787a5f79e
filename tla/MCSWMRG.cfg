SPECIFICATION FairSWMRGSpec
CONSTANTS
    a = a  b = b  c = c  browser = browser
    Thread = {a, b, c, browser}
    Impatient = {browser}
INVARIANTS SWMRGTypeOK
PROPERTIES Refines AllReturn
CHECK_DEADLOCK FALSE
