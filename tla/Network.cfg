CONSTANTS
    A = A
    B = B
    Hosts <- MCHosts
    NoHost = NoHost
    MaxSockets <- MCSockets
    MaxConnections = 2
    Servers = {A}
    Clients = {B}
    ServerPort = 1
    FirstPort = 2
    LastPort = 3
    MaxData <- MCData
    FinFlags <- MCFinFlags
    NoConnection = NoConnection
    ByteValues = 16
    FirstIds = {0, 119, 195, 254}
    SourceAddress = 65259
    Destinations = {43263, 3000, 65535}
    LocalAddresses = {43263}
    SentPorts = {18, 33}
    BoundPorts = {18}
    MaxDatagrams = 1
SPECIFICATION MCSpec
INVARIANTS NetworkTypeOK StatesAgree OneOwner StaleCannotSend HeadersArriveWhole
CHECK_DEADLOCK FALSE
