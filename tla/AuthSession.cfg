\* Two logins, their tokens refreshed and logged out by two requests at a time.
SPECIFICATION Spec
CONSTANTS
    Devices = {d1, d2}
    Tokens = {t1, t2, t3, t4}
    Reqs = {r1, r2}
    None = None
SYMMETRY SessionSymmetry
INVARIANTS TypeOK OneLiveTokenPerDevice ExchangedOnce LoggedOutIsOut
CHECK_DEADLOCK FALSE
