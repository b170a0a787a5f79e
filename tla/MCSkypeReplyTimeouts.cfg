SPECIFICATION RunningSpec
CONSTANTS
    a = a  b = b  c = c  main = main
    Main = main
    Req = {a, b, c, main}
    Timed = {b, c, main}
    WithId = {}
    MayFail = {}
    Silent = {b, c}
    MaxPermits = 3
    MaxAge = 1
    MaxOthers = 0
    Nothing = Nothing
PROPERTIES Answered
CHECK_DEADLOCK FALSE
