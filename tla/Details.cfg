SPECIFICATION Spec
CONSTANTS
    Handlers = {h1, h2}
    Intents <- OnePayment
    Amounts = {2}
    Adjustments <- UsdAdjustments
    Filters <- NoFilters
    MaxTransactions = 5
    MaxAdjustments = 0
    PageSize = 1
INVARIANTS TypeOK DetailCoversRow
PROPERTIES ImplementsPostings
CHECK_DEADLOCK FALSE
