\* One rollup at a time, of one day: the oldest day of its window is cut.
SPECIFICATION ReportsSpec
CONSTANTS
    None = None
    Orders = {1, 2}
    Customers = {ann}
    Price <- MCPrice
    DayLen = 2
    LastTick = 4
    Rollups = {r1}
    RollupDays = {1}
    KpiDays = 1
    ReportDays = 1
    ChurnDays = 1
CHECK_DEADLOCK FALSE
PROPERTY RightRowsStay
