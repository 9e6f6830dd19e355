\* Three bills around the end of a month, reports while they are made and paid.
SPECIFICATION Spec
CONSTANTS
    Bills = {b1, b2, b3}
    Subtotals = {49}
    Discounts = {0, 27}
    Received = {100}
    Moments <- MCMoments
    Dates <- MCDates
    Day = 2
    MonthStarts <- MCMonthStarts
    YearAgo <- MCYearAgo
    None = None
SYMMETRY Symmetry
INVARIANTS AmountsAreFair SummaryAddsUp CountedOnOneSide TrendsAgree
CHECK_DEADLOCK FALSE
