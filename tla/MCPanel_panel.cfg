CONSTANTS
    Users = {u1, u2, u3}
    Removals = {c1, c2}
    Members = {m1, m2}
    Permissions = {p1, p2}
    Roles = {r1}
    Tries = {t1, t2, t3}
    Limit = 2
    Cap = 1
    Operators = {o1, o2, o3}
    Redemptions = {d1, d2}
    Codes = {k1, k2, k3}
    Unpaired = Unpaired
    Submits = {s1, s2, s3}
    Receipts = {x1, x2}
    MaxRestarts = 1
    LastHour = 3
    MaxRows = 2
    Late = 1
    Reroll = 2
    MaxSamples = 4
    Assets = {a1, f1}
    Fonts = {f1}
    Callers = {b1, b2}
    Caps = {1, 3}
    MaxFaces = 1
    MaxWrites = 2
    MaxClock = 2
SPECIFICATION Spec
SYMMETRY Symmetry
INVARIANTS  SignInIsBounded CodeIsSpentOnce OneReceiptPerKey  CachedDotsAreCurrent
PROPERTIES GrantsStayWithinAuthority
CHECK_DEADLOCK FALSE
