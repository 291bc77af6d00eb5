SPECIFICATION SceneSpec
CONSTANTS
    Scenes = {"storage", "tabs", "uploaders", "kiosks", "links", "addresses"}
    Assets = {a1, a2}
    Parts <- MCParts
    Workers = {w1, w2}
    AfterCommitFails = FALSE
    \* Shared with Assets, which another scene uses: the symmetry group stays small
    Users = {a1, a2}
    Categories = {c1, c2}
    MaxAssets = 3
    MaxClaims = 5
    Configs = {"lobby"}
    Titles = {"t1", "t2"}
    Positions = {1, 2}
    Headings = {"hA", "hB"}
    IdleSeconds = {"n1"}
    None = None
    Lists <- MCLists
    Records = {r1, r2, r3}
    Old = {r1, r2}
    Pages = {r1}
    PublicIds = {k1, k2, k3}
SYMMETRY SiteSymmetry
CHECK_DEADLOCK FALSE
INVARIANTS StoreFollowsRows OneList EdgesMatchText AddressesHaveOneSite
PROPERTIES GalleriesObeyTheLastEdit
