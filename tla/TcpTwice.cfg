CONSTANTS
    Poster = poster
    Asker = asker
    Clients <- MCClients
    Requests <- MCRequests
    Tokens <- MCTokens
    Lengths <- MCLengths
    Leavers <- MCLeavers
    MAX_LIFETIME_SEC = 1
    MAX_IDLE_SEC = 0
    MaxSignals = 0
SPECIFICATION Spec
INVARIANT RequestsHandledOnce
