\* Publishing: three sources, three versions of which two are listed, two
\* sites, one without node.  History: two nodes of two sites, three snapshots and one to
\* come, one on a page.  Toasts: five notices kept of six.  Overview: four
\* connection snapshots in two minutes.  Quality: three outbounds, three samples.
\* Login: two IT codes, both with an account or none, one challenge, three calls.
\* Proxies: two nodes of a site, a first report and one more of three
\* kinds, a first release and two more.
CONSTANTS
    Sites = {a, b}
    Deployable = {a}
    Unparsed = {2}
    Listed = 2
    MaxSources = 3
    MaxVersions = 3
    SiteOf <- MCSiteOf
    Owner <- MCOwner
    All = "all"
    Initial = 3
    Limit = 1
    MaxOffset = 3
    MaxFetches = 1
    MaxMoves = 4
    Capacity = 5
    Ids = {1, 2}
    Drifts = {0, 1, 2}
    MaxNotices = 6
    Agents = {"n", "m"}
    Times = {0, 1, 2, 3}
    Minute = 2
    Rates = {1, 2}
    MaxEntries = 4
    Tags = {1, 2, 3}
    Delays = {1, 2, 3}
    Typed = {0, 1, 2, 3, 99}
    NotANumber = 99
    MaxBoundary = 2
    MaxSamples = 3
    Itcodes = {"x", "y"}
    Blank = ""
    Accounts <- MCAccounts
    MaxAttempts = 2
    MaxChallenges = 1
    MaxHandlers = 2
    MaxCalls = 3
    ProxyNodes = {"n", "m"}
    Outbounds = {"a", "b"}
    Reports <- MCReports
    FirstReports <- MCFirstReports
    MaxReports = 1
    MaxReleases = 3
SPECIFICATION PagesSpec
INVARIANTS
    SelectionNotCarried PageInv HistoryInv NoticeInv OverviewInv  
    PanelInv 
\* The operator may rest, and every part stops at its bounds.
CHECK_DEADLOCK FALSE
