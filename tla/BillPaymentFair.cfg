\* Two handlers race and one may fail; PayOS repeats the webhook of a paid link.
SPECIFICATION FairSpec
CONSTANTS
    Bills = {b1}
    Tables = {t1}
    TableOf <- MCTableOf
    Pays = {1}
    Reqs = {r1, r2}
    MaxFailures = 1
    None = None
PROPERTIES PaidLinkIsRecorded PaidLinkReachesBill
CHECK_DEADLOCK FALSE
