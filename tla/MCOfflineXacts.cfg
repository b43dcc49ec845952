\* OfflineXacts with every way of working.
SPECIFICATION Spec
CONSTANTS
    x1 = x1  x2 = x2  x3 = x3  s1 = s1  s2 = s2  u1 = u1  u2 = u2
    t1 = t1  t2 = t2
    EntryTabs = {t1}  SessionTabs = {t2}
    Xacts = {x1, x2, x3}  Registrations = {x3}
    Sessions = {s1, s2}  Uploads = {u1, u2}  None = None
    Ways <- MCWays
    MaxSaves = 2  MaxImports = 1
\* The staff may be done.
CHECK_DEADLOCK FALSE
CONSTRAINT Small
SYMMETRY Alike
INVARIANTS OfflineInv DateTells
PROPERTIES KeepsLedger
