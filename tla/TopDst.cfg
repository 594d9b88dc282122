CONSTANTS
    Iata <- MCIata
    Country <- MCCountry
    DateOf <- MCDateOf
    NumberOf <- MCNumberOf
    Uninitialized <- MCUninitialized
    Cells = {c1, c2}
    DstInfos <- MCDstInfos
    None = None
    Requests <- MCRequests
    CacheTime = 1
    ScanTime = 1
    MaxTime = 3
    MaxFacts = 5
SYMMETRY MCSymmetry
SPECIFICATION Spec
INVARIANTS
    TypeOK
PROPERTIES
    AnswersAreRecent
