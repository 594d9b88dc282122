CONSTANTS
    Poster = poster
    Asker = asker
    Clients <- MCClients
    Requests <- MCRequests
    Tokens <- MCTokens
    Lengths <- MCLengths
    Leavers <- MCLeavers
    MAX_LIFETIME_SEC = 1
    MAX_IDLE_SEC = 0
    MaxSignals = 2
SPECIFICATION Spec
INVARIANTS
    TypeOK
    ResponsesAreSent
    DispatchedAsSent
PROPERTIES
    ConnectionsEnd
    QuitEnds
