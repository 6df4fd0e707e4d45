SPECIFICATION FairSpec
CONSTANTS
    Addresses = {a1}
    Localhost = {local}
    MaxConnections = 2
    RequestsPerMin = 2
    Minute = 2
    Requests = {r1, r2, r3}
    MaxClock = 7
INVARIANTS
    TypeOK
    AtMostTwicePerMinute
PROPERTIES
    RoomAgain
\* The server has nothing to do after it was stopped.
CHECK_DEADLOCK FALSE
