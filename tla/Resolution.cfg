SPECIFICATION SceneSpec
CONSTANTS
    Scenes = {"claims", "txn", "saves", "bulk"}
    Users = {"alice", "bob"}
    Keys = {"year", "maker"}
    Workers = {w1, w2}
    History <- MCHistory
    MaxTxns = 3
    Bindings <- MCBindings
    Offered <- MCOffered
    Tables <- MCTables
    Ladder <- MCLadder
    Uniques <- MCUniques
    Authors = {"user"}
    Source = "source"
    MaxClaims = 2
    Kinds <- MCKinds
    MaxSaves = 2
    None = None
    Missing = Missing
    Absent = Absent
    Cleared = Cleared
    Count = 3
    Slugs = {"a", "b", "c", "d"}
    ExternalIds = {"x", "y"}
SYMMETRY WorkerSymmetry
CHECK_DEADLOCK FALSE
INVARIANTS AcceptedClaimsResolve SlotsStayStacks BatchesKeepOwners
PROPERTIES UndisturbedWriteRepairs SavesConverge
