SPECIFICATION Spec
CONSTANTS
    Onboardings <- Merchants
    Issues <- Keys
    ApiCalls = {a1, a2}
    ann = ann
    bob = bob
    prefix1 = prefix1
    prefix2 = prefix2
INVARIANTS IInv TakenForOwner ShutOutStaysOut
PROPERTIES RevocationIsFinal
CHECK_DEADLOCK FALSE
