\* One node, two requests that overlap in every way, a policy edit; one fault.
CONSTANTS
    n1 = n1  n2 = n2  r1 = r1  r2 = r2  k1 = k1  k2 = k2
    Node = {n1}
    Release <- MCReleases
    Key = {k1, k2}
    KeyOf <- SameKey
    NoRelease = NoRelease
    MaxRevision = 1
    MaxFaults = 1
SPECIFICATION FairSpec
INVARIANTS BundleNeverOlder ReleaseHasBundles
PROPERTIES AppliedNeverRegresses NodesConverge NodeDocConverges
