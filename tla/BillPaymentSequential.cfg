\* One handler at a time, none fails: two bills, two payments.
SPECIFICATION Spec
CONSTANTS
    Bills = {b1, b2}
    Tables = {t1}
    TableOf <- MCTableOf
    Pays = {1, 2}
    Reqs = {r1}
    MaxFailures = 0
    None = None
INVARIANTS SettledAtRest
PROPERTIES PaidStaysPaid OccupiedTableClearedOnce
CHECK_DEADLOCK FALSE
