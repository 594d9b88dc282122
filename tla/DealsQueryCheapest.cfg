CONSTANTS
    Iata <- MCIata
    Country <- MCCountry
    DateOf <- MCDateOf
    NumberOf <- MCNumberOf
    Uninitialized <- MCUninitialized
    AddRequests <- MCPriced
    TopRequests <- MCCheapestRequests
    LocaleTops <- MCLocaleTops
    Stray = {2, 6}
    Horizons = {0, 4}
    DEALS_EXPIRES = 2
    MaxTime = 3
    MaxDeals = 3
SPECIFICATION Spec
INVARIANTS
    RightByOneRule
