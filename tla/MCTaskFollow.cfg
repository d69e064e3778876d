\* Two nodes and a source, two tasks, two requests at a time.
CONSTANTS
    Nodes = {a, b}
    Source = s
    Outcomes = {"succeeded", "dead_letter"}
    MaxTasks = 2
    MaxRequests = 2
SPECIFICATION FairFollowSpec
INVARIANT FollowInv
PROPERTIES ProbeAnnounced ButtonComesBack
