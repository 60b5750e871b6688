SPECIFICATION Spec
CONSTANTS
    Words = {"a", "b"}
    Ports = {"443", "8888"}
    MaxPieces = 3
    MaxSegments = 2
INVARIANTS
    ParseIsRight
    RoundTrip
