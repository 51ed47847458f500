\* Two browsers with one tab each; calls may be cut off.
SPECIFICATION SessionSpec
CONSTANTS
    laptop = laptop  phone = phone  tab1 = tab1  tab2 = tab2  None = None
    Browsers = {laptop, phone}
    Tabs = {tab1, tab2}
    BrowserOf <- MCOneTabEach
    Sessions = {s1, s2}
    Tokens = {k1, k2, k3, k4}
    Faults = TRUE
    Suspends = TRUE
    MaxChanges = 2
CHECK_DEADLOCK FALSE
SYMMETRY MCSymmetry
INVARIANTS SessionTypeOK  ActiveHasToken ReuseWasLost
PROPERTY KeepsLedger
