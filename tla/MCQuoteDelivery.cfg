SPECIFICATION FairQuoteSpec
CONSTANTS
    t1 = t1
    t2 = t2
    a = a
    b = b
    None = None
    Tabs = {t1, t2}
    Contents = {a, b}
    Invalid = {b}
    MaxSaves = 2
    MaxShared = 1
    MaxSessions = 2
    MaxFailures = 1
INVARIANTS
    WakesCoalesce
PROPERTIES
    ImplementsBook
    SavedQuotesSettle
CHECK_DEADLOCK FALSE
