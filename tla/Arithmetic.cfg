SPECIFICATION Spec
CONSTANTS
    MaxInput = 2600
    Amounts = {1, 2, 3, 7, 10, 99, 100, 1000}
    Thresholds = {1, 3333, 5000, 5100, 6667, 10000}
    Rates = {0, 1, 500, 1333, 2000, 10000}
INVARIANTS
    RootExact
    BoostCurve
    BarIsLeast
    QuoteFavoursTreasury
CHECK_DEADLOCK FALSE
