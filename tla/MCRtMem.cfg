\* A heap of thirteen units: room for four blocks, with blocks that are too small
\* to be cut and requests below the smallest size.
CONSTANTS
    Header = 1
    MinSize = 2
    MemSize = 13
    Sizes = {1, 2, 3, 5}
SPECIFICATION Spec
INVARIANTS ChainConsistent HolesJoined AllocationsIntact NothingLost StatsExact
