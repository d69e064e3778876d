\* Two objects, two writes, two calls in progress; every mutation and key.
CONSTANTS
    Targets = {x, y}
    NoTarget = none
    MaxWrites = 2
    MaxCalls = 2
SPECIFICATION FairSpec
INVARIANTS  SuccessShown
PROPERTIES PolledPagesCatchUp BusyEnds
