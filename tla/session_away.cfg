\* One socket and one command at a time, and the provider ends what it is asked to.
SPECIFICATION FairSpec
CONSTANTS
    c1 = c1
    c2 = c2
    h1 = h1
    h2 = h2
    r1 = r1
    r2 = r2
    r3 = r3
    s1 = s1
    s2 = s2
    Runtime <- TwoRuntimes
    Session <- Sessions
    None = None
    Socket <- OneSocket
    Handler <- OneHandler
    Refuses = FALSE
PROPERTY AwayMeansReleased
CHECK_DEADLOCK FALSE
