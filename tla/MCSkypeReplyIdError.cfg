SPECIFICATION RunningSpec
CONSTANTS
    a = a  b = b  c = c  main = main
    Main = main
    Req = {a, main}
    Timed = {main}
    WithId = {a}
    MayFail = {a}
    Silent = {}
    MaxPermits = 3
    MaxAge = 1
    MaxOthers = 0
    Nothing = Nothing
PROPERTIES Answered
CHECK_DEADLOCK FALSE
