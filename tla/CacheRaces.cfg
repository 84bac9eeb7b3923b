SPECIFICATION Spec
CONSTANTS
    Threads = {"t1", "t2"}
    Keys = {"rewrite", "route", "route again"}
    MaxEntries = 2
INVARIANT
    NeverRaises
