SPECIFICATION SceneSpec
CONSTANTS
    Scenes = {"titles", "rules", "places", "schemas"}
    Graphs <- MCGraphs
    Slugs <- MCSlugs
    Divisions <- MCDivisions
    Entities = {"entity"}
    Manufacturers = {"first", "second"}
    MaxRows = 3
    MaxDepth = 3
    MaxEdits = 4
    FaultSets <- MCFaultSets
    None = None
    alice = alice
    bob = bob
    opdb = opdb
    medieval = medieval
    attack = attack
    pro = pro
    le = le
    topper = topper
    status = status
    title = title
    variantOf = variantOf
    live = live
    deleted = deleted
    none = none
    Users = {alice, bob}
    Sources = {opdb}
    Loader = opdb
    Titles = {medieval, attack}
    Models = {pro, le, topper}
    Subjects = {medieval, attack, pro, le, topper}
    Keys = {status, title, variantOf}
    Values = {live, deleted, none, medieval, attack, pro, le, topper}
    Priority <- UsersOutrank
    Catalog <- PairAndVariant
    PatchBodies <- DeleteMoveJoin
    MinEdits = 2
    MaxChangesets = 7
SYMMETRY UserSymmetry
CHECK_DEADLOCK FALSE
INVARIANTS RowsFollowLog NothingDangles
PROPERTIES DeleteLeavesNoReferrer WritesMakeNoChain WritesKeepTheRules
