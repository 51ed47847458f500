\* Each service alone, on the smallest instance that has its overlaps.
SPECIFICATION Spec
CONSTANTS
    \* Two and a half days of two ticks, two orders of one customer or of a guest, two
    \* rollups that may overlap, of one day and of three.
    None = None
    Orders = {1, 2}
    Customers = {ann}
    Price <- MCPrice
    DayLen = 2
    LastTick = 4
    Rollups = {r1, r2}
    RollupDays = {1, 3}
    KpiDays = 1
    ReportDays = 1
    ChurnDays = 1
    \* One file, two requests at once: files share nothing.
    FileIds = {f1}
    FileCalls = {c1, c2}
    \* Units of 30 s: a margin of 60 s, a listing of at most 30 s.
    Listings = {l1, l2}
    Lifetimes = {2, 5}
    TokenMargin = 2
    ListingLimit = 1
    ShopClock = 8
    \* Two products with two texts, two embed jobs.
    Products = {p1, p2}
    Texts = {old, new}
    NoText = NoText
    EmbedJobs = {j1, j2}
    \* Three products, a limit of two, two runs.
    Items = {p1, p2, p3}
    RecRuns = {q1, q2}
    RecLimit = 2
    \* A value from either side of the bounds of the rules.
    Recencies = {7, 60, 999}
    Frequencies = {3, 7}
    Spends = {0, 1, 9}
    MostCustomers = 5
    \* Three orders of two customers or guests, four lines.
    Baskets = {b1, b2, b3}
    Goods = {g1, g2}
    Shoppers = {ann, bob}
    Guest = Guest
    MostLines = 4
    \* Up to five days, three days ahead.
    DaySales = {0, 1, 2, 5}
    MostDays = 5
    Horizon = 3
    \* Two tenants, two users, one connection: connections share nothing.
    Tenants = {t1, t2}
    Members = {u1, u2}
    Conns = {k1}
    Null = Null
    Empty = Empty
    \* Three orders of two customers.
    ShopOrders = {s1, s2, s3}
    ShopCustomers = {ann, bob}
    NoCustomer = NoCustomer
    \* Two logins at once, a lock after two wrong passwords for two ticks.
    Logins = {g1, g2}
    MaxFailedLogins = 2
    LockTicks = 2
    MostWrong = 4
    LoginClock = 6
    \* Three invitations of one address, three links, two requests at once.
    InvitationRows = {v1, v2, v3}
    InviteCalls = {c1, c2}
    MostLinks = 3
    \* Two stores, two requests at once, jobs of two attempts.
    RunStores = {n1, n2}
    AnyStore = AnyStore
    RunCalls = {c1, c2}
    RunAttempts = 2
    MostRuns = 2
CHECK_DEADLOCK FALSE
INVARIANTS
    ServicesTypeOK
     ReportsAgree 
    OfferedWasUploaded NoOrphanWithoutCause
    
    AloneJobIsExact ListsAreWhole
    SegmentsFollowSpending  
    NoRowOfOthers PoliciesHideNothing
    RecencyIsRight
    LockIsEarned
    PendingIsReachable
    RunsAreFound
