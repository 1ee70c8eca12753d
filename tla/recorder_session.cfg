\* Two sockets of one client, two handlers at once, a provider that may refuse.
SPECIFICATION SessionSpec
CONSTANTS
    c1 = c1
    c2 = c2
    h1 = h1
    h2 = h2
    r1 = r1
    r2 = r2
    r3 = r3
    s1 = s1
    s2 = s2
    Runtime <- TwoRuntimes
    Session <- OneSession
    None = None
    Socket <- TwoSockets
    Handler <- TwoHandlers
    Refuses = TRUE
SYMMETRY Symmetry
INVARIANTS SessionsAreUndisturbed ReleasedIsForgotten
CHECK_DEADLOCK FALSE
