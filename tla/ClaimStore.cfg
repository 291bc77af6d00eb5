SPECIFICATION SceneSpec
CONSTANTS
    alice = alice
    bob = bob
    opdb = opdb
    e1 = e1
    e2 = e2
    slug = slug
    year = year
    tag = tag
    v1 = v1
    v2 = v2
    Cleared = Cleared
    Blank = Blank
    Users = {alice, bob}
    Sources = {opdb}
    CreateKeys = {slug}
    PreserveKeys = {slug}
    UniqueKeys = {slug}
    Subjects = {e1, e2}
    Keys = {slug, tag}
    Values = {v1, v2, Cleared}
    Priority <- EqualRank
    ScalarKeys = {slug}
    Switchable = {}
    MinEdits = 2
    MaxChangesets = 5
    Scenes = {"fields", "records"}
SYMMETRY UserSymmetry
CHECK_DEADLOCK FALSE
INVARIANT RowIsResolution
PROPERTY ImplementsEditStacks
