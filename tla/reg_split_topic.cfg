\* A split while an endpoint is being discovered.
SPECIFICATION Spec
CONSTANTS
    ta = ta
    tb = tb
    ya = ya
    yb = yb
    NoType = NoType
    Topics <- TwoTopics
    Types <- TwoTypes
    Endpoints <- TwoEndpoints
    MaxSplits = 1
INVARIANT
    RecordedUnderItsTopic
