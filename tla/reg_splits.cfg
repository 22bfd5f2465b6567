\* Two splits, with discoveries at any moment.
SPECIFICATION Spec
CONSTANTS
    ta = ta
    tb = tb
    ya = ya
    yb = yb
    NoType = NoType
    Topics <- TwoTopics
    Types <- TwoTypes
    Endpoints <- ThreeEndpoints
    MaxSplits = 2
INVARIANTS
    RegistrationInv
    RecordedAsReceived
