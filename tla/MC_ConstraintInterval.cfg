SPECIFICATION Spec
CONSTANTS
    NULL = NULL
    Datums <- MC_Datums
    Points <- MC_Points
    Opaque <- MC_Opaque
    MaxArgs = 3
INVARIANT IntervalInv
INVARIANT IntervalExact
INVARIANT ContainmentExact
INVARIANT ScalarRoundTrip
