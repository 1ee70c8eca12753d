\* A provider that ends every session it is asked to end.
SPECIFICATION SessionSpec
CONSTANTS
    c1 = c1
    c2 = c2
    h1 = h1
    h2 = h2
    r1 = r1
    r2 = r2
    r3 = r3
    s1 = s1
    s2 = s2
    Runtime <- TwoRuntimes
    Session <- Sessions
    None = None
    Socket <- OneSocket
    Handler <- TwoHandlers
    Refuses = FALSE
SYMMETRY Symmetry
INVARIANT NoSessionLeak
CHECK_DEADLOCK FALSE
