SPECIFICATION FairSWMRGSpec
CONSTANTS
    a = a  b = b  c = c  browser = browser
    Thread = {a, b, c, browser}
    Impatient = {browser}
PROPERTIES StopReturns
CHECK_DEADLOCK FALSE
