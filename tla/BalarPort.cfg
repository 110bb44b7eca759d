SPECIFICATION Spec
CONSTANTS
    Vcpus = {v0, v1}
    HasMem = {v0}
    PacketLines = {0, 2}
    Depth = 3
    MaxOps = 4
    None = None
INVARIANTS
    PacketInMemory
    Accounting
    Awaited
    JoinMeansDone
    HeldOpen
\* A guest that breaks the rules of the aperture ends the simulation.
CHECK_DEADLOCK FALSE
