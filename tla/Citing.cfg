SPECIFICATION CitingSpec
CONSTANTS
    CitingScenes = {"grammar", "forms", "videos", "mints", "seeds", "lookups"}
    None = None
    spoken = spoken
    URLs = {"rules", "wayback"}
    Sites = {"acme", "archive"}
    SiteOf <- HostsOf
    Records = {"ipdb4443"}
    Workers = {w1, w2}
    MaxMinted = 4
    Addresses = {"page", "store", "shop"}
    Numbers = {"isbn"}
    Requests = {r1, r2}
    Deliverer = {"store", "shop"}
    Embedded <- InTheUrl
    Bookish = {"shop"}
    Timeout = 2
    MaxRedirects = 1
    MaxReads = 2
    MaxStarts = 1
SYMMETRY CitingSymmetry
CHECK_DEADLOCK FALSE
INVARIANTS NothingAuthoredIsLost CitesLandOnce SourcesStayOne NoSourceIsForked
PROPERTIES CitesFindTheirSources
