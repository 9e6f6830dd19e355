\* Two handlers in flight over one bill, two payments, one failure.
SPECIFICATION Spec
CONSTANTS
    Bills = {b1}
    Tables = {t1}
    TableOf <- MCTableOf
    Pays = {1, 2}
    Reqs = {r1, r2}
    MaxFailures = 1
    None = None
SYMMETRY ReqSymmetry
CONSTRAINT RaceBound
INVARIANTS TypeOK PaidIsBacked CancelledPaymentIsDead
PROPERTY KeepsTheLedger
CHECK_DEADLOCK FALSE
