SPECIFICATION OrdersSpec
CONSTANTS
    OrderService = {o1, o2}
INVARIANT ReleasedOrderAdvances
CHECK_DEADLOCK FALSE
