SPECIFICATION Spec
CONSTANTS
    Intents <- OneIntent
    Foreign <- None
    Requests <- Confirmed
    Deliveries <- SucceededOnce
    Viewers <- None
    Serial = TRUE
INVARIANTS AckedIsBooked
CHECK_DEADLOCK FALSE
