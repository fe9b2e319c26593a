SPECIFICATION ContractEventsSpec
CONSTANTS
    EventDelivery = {e1, e2}
INVARIANTS
    EventProcessedOnce
CHECK_DEADLOCK FALSE
