CONSTANTS
    anna = anna
    nick = nick
    status = status
    message = message
    v1 = v1
    v2 = v2
    None = None
    Contact = {anna}
    Delay = {1, 2}
    Idle = 3
    Patience = 2
    MaxAdded = 3
    Type = {status, message, nick}
    SubOf <- MCSubOf
    Wait <- MCWait
    Value = {nothing, v1, v2}
    nothing = nothing
    Nothing = nothing
    Default <- MCDefault
    AtLoad <- MCAtLoad
    Same <- MCSame
    TracksRemoves = {message}
SPECIFICATION FairKeeperSpec
INVARIANTS NoOversleep ChangeCovered OneNotice
PROPERTIES AllRecorded
CHECK_DEADLOCK FALSE
