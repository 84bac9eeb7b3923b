SPECIFICATION Spec
CONSTANTS
    Chunks <- MCChunks
    CardOf <- MCCardOf
    SectionOf <- MCSectionOf
    Distances <- MCDistances
    Requests <- MCRequests
    Settings <- MCSettings
INVARIANTS
    TypeOK
    KeepsContract
    CutoffsHold
    CapYieldsLast
    SignalFirst
