SPECIFICATION SceneSpec
CONSTANTS
    Scenes = {"ledger", "plans", "members"}
    Worlds <- MCWorlds
    Families <- MCFamilies
    Nothing = Nothing
    c1 = c1
    c2 = c2
    v1 = v1
    v2 = v2
    Patches = {1, 2}
    Contents = {v1, v2}
    Procs = {c1, c2}
    Shelves <- OneOrTwoPatches
    MaxCommands = 3
CHECK_DEADLOCK FALSE
INVARIANTS AppliedOnce LedgerIsTruth MembersStandAlone
PROPERTIES PlansTakeEffect
