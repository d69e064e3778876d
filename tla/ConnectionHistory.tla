------------------------- MODULE ConnectionHistory -------------------------
(***************************************************************************)
(* The connections page: the filters, the live and history views, and the  *)
(* offset pagination of the history while snapshots arrive and expire on   *)
(* the server.                                                             *)
(*                                                                         *)
(* A snapshot is a number, newer ones are larger.  The site and the node   *)
(* filter stand for themselves; the text, protocol and time filters reset  *)
(* the offset like the node filter does and are left out.  The server      *)
(* counts the matches and reads the rows in two queries, so that a         *)
(* snapshot can arrive or expire between them.                             *)
(***************************************************************************)
EXTENDS Integers, FiniteSets, FiniteSetsExt, Sequences

CONSTANTS
    SiteOf,       \* the nodes, each with its site
    All,          \* the empty filter
    Owner,        \* the node of each snapshot that can exist
    Initial,      \* snapshots stored at the start: 1..Initial
    Limit,        \* rows of a page (100 in the code)
    MaxOffset,    \* bound: the largest offset the operator walks to
    MaxFetches,   \* bound: fetches in progress
    MaxMoves      \* bound: changes of a filter, of the view or of the page

VARIABLES
    viewMode, siteId, nodeId, historyOffset,
    cache,      \* answers by query key
    failed,     \* the keys whose last fetch ended with an error
    fetches,    \* fetches in progress by query key
    lastKey,    \* the key whose data the page showed last
    stored,     \* the snapshots on the server
    newest,     \* the newest snapshot so far
    seen,       \* history: the snapshots the page has shown
    moves

pageVars == <<viewMode, siteId, nodeId, historyOffset>>
queryVars == <<cache, failed, fetches>>
serverVars == <<stored, newest>>
historyVars == <<pageVars, queryVars, lastKey, serverVars, seen, moves>>

Nodes == DOMAIN SiteOf
SitesOfNodes == {SiteOf[n] : n \in Nodes}
Snapshots == DOMAIN Owner
Offsets == {o \in 0..MaxOffset : \E page \in 0..o : o = page * Limit}
Keys == [site : SitesOfNodes \cup {All}, node : Nodes \cup {All}, offset : Offsets]
NoKey == [site |-> All, node |-> All, offset |-> -1]

ASSUME HistoryAssumption ==
    /\ Limit \in Nat \ {0} /\ MaxOffset \in Nat /\ MaxFetches \in Nat /\ MaxMoves \in Nat
    /\ Owner \in Seq(Nodes) /\ Initial \in Snapshots

(* exact: no snapshot came or went between the count and the rows.         *)
PageAnswers == [items : SUBSET Snapshots, total : 0..Cardinality(Snapshots),
            more : BOOLEAN, exact : BOOLEAN]
Fetches == [counted : BOOLEAN, total : 0..Cardinality(Snapshots), exact : BOOLEAN]

HistoryTypeOK ==
    /\ viewMode \in {"live", "history"}
    /\ siteId \in SitesOfNodes \cup {All} /\ nodeId \in Nodes \cup {All}
    /\ historyOffset \in Offsets
    /\ DOMAIN cache \subseteq Keys /\ \A k \in DOMAIN cache : cache[k] \in PageAnswers
    /\ failed \subseteq Keys
    /\ DOMAIN fetches \subseteq Keys /\ \A k \in DOMAIN fetches : fetches[k] \in Fetches
    /\ lastKey \in DOMAIN cache \cup {NoKey}
    /\ stored \subseteq Snapshots /\ newest \in Snapshots
    /\ seen \subseteq Snapshots
    /\ moves \in 0..MaxMoves

HistoryInit ==
    /\ viewMode = "live" /\ siteId = All /\ nodeId = All /\ historyOffset = 0
    /\ cache = <<>> /\ failed = {} /\ fetches = <<>>
    /\ lastKey = NoKey
    /\ stored = 1..Initial /\ newest = Initial
    /\ seen = {} /\ moves = 0

-----------------------------------------------------------------------------
(* What the page shows.                                                    *)

QueryKey(site, node, offset) == [site |-> site, node |-> node, offset |-> offset]

Key == QueryKey(siteId, nodeId, historyOffset)

(* keepPreviousData: while a key has no data the last data stand in.       *)
Shown == IF Key \in DOMAIN cache THEN cache[Key] ELSE cache[lastKey]
HasData == Key \in DOMAIN cache \/ lastKey # NoKey
IsFetching == Key \in DOMAIN fetches
IsError == viewMode = "history" /\ Key \in failed

(* The page renders after every change of its state or of its queries.     *)
Render ==
    /\ lastKey' = IF Key' \in DOMAIN cache' THEN Key' ELSE lastKey
    /\ seen' = IF viewMode' = "history" /\ Key' \in DOMAIN cache' /\ ~IsError'
                 THEN seen \cup cache'[Key'].items ELSE seen

-----------------------------------------------------------------------------
(* The query.                                                              *)

Put(f, key, value) == [k \in DOMAIN f \cup {key} |-> IF k = key THEN value ELSE f[k]]

Begun == [counted |-> FALSE, total |-> 0, exact |-> TRUE]

(* A fetch of a key that has no data yet clears its error.                 *)
StartFetch(key) ==
    IF key \in DOMAIN fetches
      THEN UNCHANGED queryVars
      ELSE /\ Cardinality(DOMAIN fetches) < MaxFetches
           /\ fetches' = Put(fetches, key, Begun)
           /\ failed' = IF key \in DOMAIN cache THEN failed ELSE failed \ {key}
           /\ UNCHANGED cache

(* The observer comes to a key: it fetches unless the answer it has is     *)
(* younger than staleTime, and not at all while the live view disables it. *)
Observe(key, enabled) ==
    \/ enabled /\ StartFetch(key)
    \/ /\ ~enabled \/ (key \in DOMAIN cache /\ key \notin failed)
       /\ UNCHANGED queryVars

Matching(key) ==
    {s \in stored : /\ key.site \in {All, SiteOf[Owner[s]]}
                    /\ key.node \in {All, Owner[s]}}

(* The backend counts the matches.                                         *)
Count(key) ==
    /\ key \in DOMAIN fetches /\ ~fetches[key].counted
    /\ fetches' = [fetches EXCEPT ![key] =
                     [counted |-> TRUE, total |-> Cardinality(Matching(key)), exact |-> TRUE]]
    /\ UNCHANGED <<pageVars, cache, failed, serverVars, moves>>
    /\ Render

(* It sorts them newest first, skips and limits, and the answer arrives.   *)
Rank(key, s) == Cardinality({r \in Matching(key) : r >= s})
Rows(key) == {s \in Matching(key) : Rank(key, s) \in key.offset + 1 .. key.offset + Limit}

Drop(key) == [k \in DOMAIN fetches \ {key} |-> fetches[k]]

Answer(key) ==
    /\ key \in DOMAIN fetches /\ fetches[key].counted
    /\ LET f == fetches[key]
           answer == [items |-> Rows(key), total |-> f.total, exact |-> f.exact,
                      more |-> key.offset + Cardinality(Rows(key)) < f.total]
       IN  cache' = Put(cache, key, answer)
    /\ failed' = failed \ {key}
    /\ fetches' = Drop(key)
    /\ UNCHANGED <<pageVars, serverVars, moves>>
    /\ Render

FetchFails(key) ==
    /\ key \in DOMAIN fetches
    /\ failed' = failed \cup {key}
    /\ fetches' = Drop(key)
    /\ UNCHANGED <<pageVars, cache, serverVars, moves>>
    /\ Render

(* refetchInterval, the refresh button and the retry of the error page.    *)
PollHistory ==
    /\ viewMode = "history" /\ ~IsFetching
    /\ StartFetch(Key)
    /\ UNCHANGED <<pageVars, serverVars, moves>>
    /\ Render

-----------------------------------------------------------------------------
(* The operator.                                                           *)

Moved(mode, site, node, offset) ==
    /\ ~IsError
    /\ moves < MaxMoves /\ moves' = moves + 1
    /\ viewMode' = mode /\ siteId' = site /\ nodeId' = node /\ historyOffset' = offset
    /\ Observe(QueryKey(site, node, offset), mode = "history")
    /\ UNCHANGED serverVars
    /\ Render

changeView == Moved(IF viewMode = "live" THEN "history" ELSE "live", siteId, nodeId, historyOffset)

changeSite(site) ==
    /\ site # siteId
    /\ Moved(viewMode, site, All, 0)

nodeOptions == {All} \cup {n \in Nodes : siteId \in {All, SiteOf[n]}}

Bug_changeNode(node) ==
    /\ node \in nodeOptions \ {nodeId}
    /\ Moved(viewMode, siteId, node, historyOffset)

changeNode(node) ==
    /\ node \in nodeOptions \ {nodeId}
    /\ Moved(viewMode, siteId, node, 0)

Previous ==
    /\ viewMode = "history" /\ historyOffset # 0 /\ ~IsFetching
    /\ Moved(viewMode, siteId, nodeId, Max({0, historyOffset - Limit}))

Forward ==
    /\ viewMode = "history" /\ HasData /\ Shown.more /\ ~IsFetching
    /\ historyOffset + Limit <= MaxOffset
    /\ Moved(viewMode, siteId, nodeId, historyOffset + Limit)

-----------------------------------------------------------------------------
(* The server's collection.                                                *)

Torn == [k \in DOMAIN fetches |-> [fetches[k] EXCEPT !.exact = ~fetches[k].counted]]

Arrive ==
    /\ newest + 1 \in Snapshots
    /\ newest' = newest + 1 /\ stored' = stored \cup {newest + 1}
    /\ fetches' = Torn
    /\ UNCHANGED <<pageVars, cache, failed, moves>>
    /\ Render

(* The retention index removes the oldest.                                 *)
Expire ==
    /\ Cardinality(stored) >= Initial
    /\ stored' = stored \ {CHOOSE s \in stored : \A r \in stored : s <= r}
    /\ fetches' = Torn
    /\ UNCHANGED <<pageVars, cache, failed, newest, moves>>
    /\ Render

HistoryNext ==
    \/ changeView
    \/ \E site \in SitesOfNodes \cup {All} : changeSite(site)
    \/ \E node \in Nodes \cup {All} : changeNode(node)
    \/ Previous
    \/ Forward
    \/ PollHistory
    \/ \E key \in DOMAIN fetches : Count(key) \/ Answer(key) \/ FetchFails(key)
    \/ Arrive
    \/ Expire

HistorySpec == HistoryInit /\ [][HistoryNext]_historyVars

-----------------------------------------------------------------------------
Idle == viewMode = "history" /\ Key \in DOMAIN cache /\ ~IsFetching /\ ~IsError

(* Pagination by offset under arrivals and expiry skips nothing: when the  *)
(* page has come to rest where Next is disabled, every snapshot that was   *)
(* there from the start, still is and passes the filters has been shown.   *)
(* The exception is an answer whose count is older than its rows (exact is *)
(* FALSE): it may disable Next one page early, until the next poll.        *)
NextSkipsNothing ==
    Idle /\ ~cache[Key].more /\ cache[Key].exact
      => {s \in Matching([site |-> siteId, node |-> nodeId, offset |-> 0]) : s <= Initial} \subseteq seen

(* At rest the rows under the filters are rows the filters ask for, never  *)
(* the stand-in of another query.                                          *)
RowsFitFilters ==
    Idle => \A s \in Shown.items : /\ siteId \in {All, SiteOf[Owner[s]]}
                                   /\ nodeId \in {All, Owner[s]}

(* The invariant of the history: at rest its rows are the ones asked for,  *)
(* and going through the pages skipped none.                               *)
HistoryInv == HistoryTypeOK /\ NextSkipsNothing /\ RowsFitFilters
=============================================================================
