SPECIFICATION SceneSpec
CONSTANTS
    Scenes = {"edits", "cites", "limit"}
    Titles = {t1, t2}
    Models = {m1, m2}
    Names = {n1, n2}
    Procs = {p1, p2}
    Ops = {"createTitle", "renameTitle", "deleteTitle", "restoreTitle", "createModel", "deleteModel", "restoreModel"}
    MaxRequests = 6
    Slugs = {bcd, fgh}
    Users = {alice, bob}
    Loader = Loader
    MaxAttempts = 2
    MaxMints = 3
    Limit = 2
    Window = 3
    Fudge = 1
    Culling = TRUE
    MaxTime = 6
    MaxGrants = 5
SYMMETRY RequestSymmetry
CHECK_DEADLOCK FALSE
INVARIANTS CheckedNamesAreDistinct SavedCitesResolve AtMostLimit
PROPERTIES TreesStayWhole RetryAfterIsHonoured
