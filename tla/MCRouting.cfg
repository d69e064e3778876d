\* Two sites, two saves in all, one save or publication under way at a time.
CONSTANTS
    Sites = {a, b}
    NoSite = NoSite
    Rules = {r}
    OtherPolicies = {{r}}
    MaxRevision = 2
    MaxCalls = 1
SYMMETRY Symmetry
SPECIFICATION Spec
INVARIANTS  ReleasesShownPolicy
PROPERTIES SaveReplacesShown
