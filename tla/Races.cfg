SPECIFICATION Spec
CONSTANTS
    Intents <- BothIntents
    Foreign <- ForeignIntent
    Requests <- Races
    Deliveries <- ForeignToo
    Viewers <- None
    Serial = FALSE
INVARIANTS TypeOK IInv TerminalAgrees SameAmount RefundWithinReceived RefundsBooked RefundsBookedAreReal
PROPERTIES ImplementsPostings
CHECK_DEADLOCK FALSE
