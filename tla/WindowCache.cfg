SPECIFICATION Spec
CONSTANTS
    NumLines = 3
    LineWords = 2
    Sets = 1
    Ways = 2
    Controls <- MCControls
    NumAcrs = 1
    Matches <- MCMatches
    MaxWrites = 2
INVARIANTS TypeOK ReadsLatest NothingMissing
PROPERTIES LockedStay TransactionShrinks
