\* One handler at a time, one stops between its two writes.
SPECIFICATION FairSpec
CONSTANTS
    Bills = {b1}
    Tables = {t1}
    TableOf <- MCTableOf
    Pays = {1}
    Reqs = {r1}
    MaxFailures = 1
    None = None
PROPERTIES RetryReachesBill
CHECK_DEADLOCK FALSE
