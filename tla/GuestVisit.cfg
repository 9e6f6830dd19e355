\* A guest, two dishes, orders of up to two items; two requests at a time.
SPECIFICATION VisitSpec
CONSTANTS
    Guests = {g1}
    Dishes = {d1, d2}
    Categories = {c1}
    Prices = {1}
    Reqs = {r1, r2}
    OrderReqs = {r1}
    MaxItems = 2
    MaxTokens = 3
    NoId = NoId
SYMMETRY Symmetry
CONSTRAINT OrdersBeforeLastToken
INVARIANTS OrdersAreOffered RowTokenIsCurrent
CHECK_DEADLOCK FALSE
