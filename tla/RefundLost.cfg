SPECIFICATION Spec
CONSTANTS
    Intents <- OneIntent
    Foreign <- None
    Requests <- TwoRefunds
    Deliveries <- SucceededOnce
    Viewers <- None
    Serial = FALSE
INVARIANTS BooksMatchRow
CHECK_DEADLOCK FALSE
