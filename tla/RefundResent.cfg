SPECIFICATION Spec
CONSTANTS
    Intents <- OneIntent
    Foreign <- None
    Requests <- ResentRefund
    Deliveries <- SucceededOnce
    Viewers <- None
    Serial = TRUE
INVARIANTS RefundsBookedAreReal
CHECK_DEADLOCK FALSE
