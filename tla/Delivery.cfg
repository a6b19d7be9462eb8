CONSTANTS
    Webhook = {w1, w2}
    Event = {e1, e2}
    Update = {u1}
    Subscriptions <- AllTypes
    MaxAttempts = 2
    None = None
SYMMETRY Symmetry
SPECIFICATION MCSpec
INVARIANTS
    QueuedEventsOnFile
    DeletedStaysDeleted
    AuthorKeepsRecords
PROPERTIES
    ImplementsAtLeastOnce
CHECK_DEADLOCK FALSE
