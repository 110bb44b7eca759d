SPECIFICATION FairSpec
CONSTANTS
    NumSlots = 4
    NumLines = 2
    MaxOut = 2
    SeqMod = 4
INVARIANTS NoLostChange
PROPERTIES EventuallyApplied
