\* A login that overlaps a suspension.
SPECIFICATION SessionSpec
CONSTANTS
    laptop = laptop  phone = phone  tab1 = tab1  tab2 = tab2  None = None
    Browsers = {laptop}
    Tabs = {tab1}
    BrowserOf <- MCOneTab
    Sessions = {s1}
    Tokens = {k1, k2}
    Faults = FALSE
    Suspends = TRUE
    MaxChanges = 1
CHECK_DEADLOCK FALSE
INVARIANT SuspendedHasNoSession
