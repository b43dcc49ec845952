\* OfflinePage with two tabs.
SPECIFICATION PageSpec
CONSTANTS
    p1 = p1  p2 = p2  p3 = p3  i1 = i1  i2 = i2  None = None
    Patrons = {p1, p2, p3}
    Items = {i1, i2}
    Bad = {i1, p1}
    Files <- MCFiles
    ChunkSize = 2
    Manners <- MCManners
    MaxAdds = 3  MaxBuilds = 2
    Tabs = {"t1", "t2"}
    Schemas = {"cache", "offline"}
    Jobs = {1}
    MayFail = TRUE
CONSTRAINT Small
\* The bounds come to an end.
CHECK_DEADLOCK FALSE
INVARIANTS PageInv Recorded
PROPERTIES BlockedAreFound DownloadsEnd RequestsEnd
