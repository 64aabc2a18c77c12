CONSTANTS
    Slots = {0, 1, 2}
    Within <- MCWithin
    Requests <- MCRequests
    Bases = {0, 1}
    Chunks = {0, 1, 2, 3, 4, 5}
    MinChunk = 4
    MaxSpare = 1
    MaxChunk = 8
    MaxCalls = 2
    MaxLive = 3
SPECIFICATION Spec
INVARIANTS
    LiveApart
    LiveInPlace
    ChunksOnce
    Bounded
