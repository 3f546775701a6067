SPECIFICATION Spec
CONSTANTS
    Intents <- OneIntent
    Foreign <- None
    Requests <- TwoSessions
    Deliveries <- SucceededOnce
    Viewers <- None
    Serial = FALSE
INVARIANTS OneSessionPerIntent
CHECK_DEADLOCK FALSE
