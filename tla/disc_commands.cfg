\* Each of the four commands, with three endpoints that come and go, one of them twice.
SPECIFICATION FairSpec
CONSTANTS
    ta = ta
    tb = tb
    ya = ya
    yb = yb
    g1 = g1
    g2 = g2
    g3 = g3
    None = None
    Endpoints <- ThreeEndpoints
    Late <- LateEndpoints
    InternalTopics <- NoTopics
    MaxSamples = 1
    MaxChanges = 2
    Commands <- AllCommands
    Wanted = ta
    Tracked <- OneThenBoth
INVARIANTS
    TablesInv
    ClientInv
    EchoDecodesItsOwnType
PROPERTIES
    RemovalIsComplete
    CommandEnds
    AliveIsDiscovered
