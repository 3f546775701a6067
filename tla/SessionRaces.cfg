SPECIFICATION Spec
CONSTANTS
    Intents <- OneIntent
    Foreign <- None
    Requests <- SessionRaces
    Deliveries <- SucceededTwice
    Viewers <- OneViewer
    Serial = FALSE
INVARIANTS AccruedOnce CapturedOnce CompletedIsBooked AckedIsBooked
PROPERTIES SucceededIsFinal PaidSessionCompleted
CHECK_DEADLOCK FALSE
