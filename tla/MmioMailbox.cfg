SPECIFICATION FairSpec
CONSTANTS
    Producers = {p1, p2}
    Slots = {v1, v2}
    MaxCalls = 2
    None = None
INVARIANTS ExclusiveSlot OwnAnswer ExactlyOnce RaceFree MailboxFree
PROPERTIES ImplementsService CallReturns
