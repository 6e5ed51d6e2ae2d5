SPECIFICATION FairSpec
CONSTANTS
    Clients = {c1, c2}
    Capacity = 2
INVARIANTS
    TypeOK
    OpenNeedsMissedDown
    StreamIsOneSession
PROPERTIES
    DownEndsStream
