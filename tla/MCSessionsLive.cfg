\* One browser; stale claims are renewed.
SPECIFICATION FairSessionSpec
CONSTANTS
    laptop = laptop  phone = phone  tab1 = tab1  tab2 = tab2  None = None
    Browsers = {laptop}
    Tabs = {tab1}
    BrowserOf <- MCOneTab
    Sessions = {s1, s2}
    Tokens = {k1, k2, k3, k4, k5}
    Faults = FALSE
    Suspends = TRUE
    MaxChanges = 3
CHECK_DEADLOCK FALSE
PROPERTY StaleRecovers
