SPECIFICATION FairSpec
CONSTANTS
    Intents <- OneIntent
    Foreign <- None
    Requests <- Retries
    Deliveries <- OwnEvents
    Viewers <- None
    Serial = TRUE
INVARIANTS BooksMatchRow OneSessionPerIntent
PROPERTIES ImplementsPayments PaidIsBooked
CHECK_DEADLOCK FALSE
