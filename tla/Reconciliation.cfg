SPECIFICATION ReconciliationSpec
CONSTANTS
    Intents <- BothIntents
    Foreign <- ForeignIntent
    Requests <- Refunded
    Deliveries <- SucceededOnce
    Viewers <- None
    Serial = FALSE
    LastDay = 2
    MaxRuns = 1
INVARIANTS TotalsExplained UnbookedIsReported NoFalseDrift
PROPERTIES MismatchExplained
CHECK_DEADLOCK FALSE
