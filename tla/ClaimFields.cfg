SPECIFICATION FieldsSpec
CONSTANTS
    alice = alice
    bob = bob
    opdb = opdb
    e1 = e1
    e2 = e2
    slug = slug
    year = year
    tag = tag
    v1 = v1
    v2 = v2
    Cleared = Cleared
    Blank = Blank
    Users = {alice, bob}
    Sources = {opdb}
    CreateKeys = {slug}
    PreserveKeys = {slug}
    UniqueKeys = {slug}
    Subjects = {e1}
    Keys = {slug, year, tag}
    Values = {v1, Cleared}
    Priority <- EqualRank
    ScalarKeys = {slug, year}
    Switchable = {opdb}
    MinEdits = 2
    MaxChangesets = 4
    Scenes = {"fields"}
SYMMETRY UserSymmetry
CHECK_DEADLOCK FALSE
INVARIANT HistoryIsWhole
PROPERTY WriterResolvesColumns
