SPECIFICATION RunningSpec
CONSTANTS
    a = a  b = b  c = c  main = main
    Main = main
    Req = {a, b, main}
    Timed = {main}
    WithId = {b}
    MayFail = {}
    Silent = {}
    MaxPermits = 8
    MaxAge = 1
    MaxOthers = 0
    Nothing = Nothing
PROPERTIES Answered
CHECK_DEADLOCK FALSE
