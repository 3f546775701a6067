SPECIFICATION Spec
CONSTANTS
    Handlers = {h1}
    Intents <- Payments
    Amounts = {2}
    Adjustments <- UsdAdjustments
    Filters <- ThreeFilters
    MaxTransactions = 4
    MaxAdjustments = 1
    PageSize = 1
INVARIANTS ViewsNetToZero ListMissesNothing
CHECK_DEADLOCK FALSE
