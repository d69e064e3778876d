\* Two nodes share one release; two faults.
CONSTANTS
    n1 = n1  n2 = n2  r1 = r1  r2 = r2  k1 = k1  k2 = k2
    Node <- MCNodes
    Release = {r1}
    Key = {k1, k2}
    KeyOf <- OneKey
    NoRelease = NoRelease
    MaxRevision = 0
    MaxFaults = 2
SPECIFICATION Spec
INVARIANTS SucceededMeansApplied IInv
