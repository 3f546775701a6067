SPECIFICATION Spec
CONSTANTS
    Intents <- OneIntent
    Foreign <- None
    Requests <- OneSession
    Deliveries <- SucceededOnce
    Viewers <- OneViewer
    Serial = TRUE
PROPERTIES CompletedIsFinal
CHECK_DEADLOCK FALSE
