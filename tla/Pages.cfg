SPECIFICATION SceneSpec
CONSTANTS
    Scenes = {"cache", "games", "makers"}
    Sidebars <- MCSidebars
    Register <- MCRegister
    MaxEdits = 2
    MaxSelections = 2
    None = None
    public = public
    kiosk = kiosk
    v1 = v1
    v2 = v2
    m1 = m1
    m2 = m2
    m3 = m3
    t1 = t1
    t2 = t2
    e1 = e1
    e2 = e2
    Slots = {public, kiosk}
    KioskSlots = {kiosk}
    Readers = {r1}
    Writers = {v1, v2}
    Patches = {1}
    Mortal = {"edit", "ingest"}
    MaxChanges = 2
SYMMETRY PagesSymmetry
CHECK_DEADLOCK FALSE
INVARIANTS UnovertakenIsFresh GamesMatchTheSidebar MakersMatchTheSidebar
