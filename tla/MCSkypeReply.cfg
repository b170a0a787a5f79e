SPECIFICATION FairReplySpec
CONSTANTS
    a = a  b = b  c = c  main = main
    Main = main
    Req = {a, c, main}
    Timed = {c, main}
    WithId = {a}
    MayFail = {c}
    Silent = {c}
    MaxPermits = 4
    MaxAge = 1
    MaxOthers = 1
    Nothing = Nothing
INVARIANTS ReplyTypeOK ReceiversCount InfiniteWaits
PROPERTIES WaitersAnswered
CHECK_DEADLOCK FALSE
