\* Two orders at two tables, up to three writes in all; two tasks at a time.
SPECIFICATION Spec
CONSTANTS
    Orders = {o1, o2}
    Tables = {t1, t2}
    Tasks = {k1, k2}
    None = None
    Asked = {"PENDING", "SHIPPED", "DELIVERED"}
    MaxWrites = 3
SYMMETRY FeedSymmetry
INVARIANTS TypeOK ChangeIsAnnounced ShippedIsReady ScreenShowsTheList
CHECK_DEADLOCK FALSE
