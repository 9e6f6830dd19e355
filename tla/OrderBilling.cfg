\* Two requests in flight, staff edits anything at any time.
SPECIFICATION Spec
CONSTANTS
    Orders = {o1, o2}
    Tables = {t1}
    Bills = {b1, b2}
    Reqs = {r1, r2}
    Amounts = {1}
    None = None
SYMMETRY OrderSymmetry
INVARIANTS TypeOK BilledWasServed SubtotalIsOrders
PROPERTIES BilledOnce OnlyDeliveredBilled
CHECK_DEADLOCK FALSE
