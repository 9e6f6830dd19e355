\* Three rows for two numbers, two orders on their way, requests one at a time; staff
\* deletes no table with guests.
SPECIFICATION Spec
CONSTANTS
    Rows = {t1, t2, t3}
    Numbers = {n1, n2}
    Orders = {o1, o2}
    Reqs = {r1}
    RetiresInUse = FALSE
    None = None
SYMMETRY Symmetry
INVARIANTS TypeOK OneTablePerNumber CountedOnce
CHECK_DEADLOCK FALSE
