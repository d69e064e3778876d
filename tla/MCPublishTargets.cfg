\* Two sources, two sites of which one has a node.
CONSTANTS
    Sites = {a, b}
    Deployable = {a}
    Unparsed = {2}
    Listed = 2
    MaxSources = 2
    MaxVersions = 3
SPECIFICATION Spec
INVARIANT TargetsChosen
