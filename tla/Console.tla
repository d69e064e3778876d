------------------------------ MODULE Console ------------------------------
(***************************************************************************)
(* One browser tab of the dashboard: the operator moves between pages,     *)
(* opens dialogs and confirms mutations; the query cache polls, is         *)
(* invalidated and is read again.  A behaviour follows one mutation of the *)
(* table in ConsolePages and one query key whose contents it changes.      *)
(*                                                                         *)
(* The contents of the key are a version: the number of writes the backend *)
(* had done when it read them.  The query cache is TanStack Query with the *)
(* options of providers.tsx: one retry, staleTime, and an invalidation     *)
(* that drops a fetch in progress only when the key has data already.      *)
(***************************************************************************)
EXTENDS ConsolePages, Integers

CONSTANTS
    Targets,    \* the objects a dialog can be opened for
    NoTarget,
    MaxWrites,  \* bound: writes to the contents of the key
    MaxCalls    \* bound: calls of the mutation in progress

ASSUME BoundsAssumption == MaxWrites \in Nat \ {0} /\ MaxCalls \in Nat \ {0}
ASSUME TargetAssumption == NoTarget \notin Targets

VARIABLES
    effect,    \* the mutation and the key of this behaviour
    page,      \* the page that is mounted
    dialog,    \* the target its dialog is open for
    calls,     \* calls of the mutation in progress
    server,    \* writes the backend has done
    data,      \* the version in the cache
    fetching,  \* a fetch of the key is in progress
    got,       \* the version it has read on the server
    invalid,   \* isInvalidated
    failed,    \* the last fetch ended with an error
    acked      \* history: the latest write whose onSuccess ran on its page

queryVars == <<data, fetching, got, invalid, failed>>
vars == <<effect, page, dialog, calls, server, queryVars, acked>>

NoData == -1

(* own: the page that made the call is still mounted (a call without a     *)
(* page needs no target); form: so is the form inside the dialog; waits:   *)
(* onSuccess waits for the fetch in progress.                              *)
Call == [id : 1..MaxCalls, target : Targets \cup {NoTarget}, wrote : 0..MaxWrites,
         phase : {"sent", "applied", "refetching"},
         own : BOOLEAN, form : BOOLEAN, waits : BOOLEAN]

TypeOK ==
    /\ effect \in Effects
    /\ page \in Pages
    /\ dialog \in Targets \cup {NoTarget}
    /\ calls \subseteq Call
    /\ server \in 0..MaxWrites
    /\ data \in {NoData} \cup 0..server
    /\ fetching \in BOOLEAN
    /\ got \in {NoData} \cup 0..server
    /\ invalid \in BOOLEAN /\ failed \in BOOLEAN
    /\ acked \in 0..server

mutation == effect.mutation
key == effect.key

Mounted == key \in page.reads
Polled == key \in page.polls

(* Pages that treat the key alike are alike in a behaviour.  So are effects *)
(* that differ in names only; the dialog does not matter to a key that its *)
(* page does not read, and is examined with those it does.                 *)
Profile(p, k) == <<k \in p.reads, k \in p.polls>>

Representatives ==
    {mutation.page} \cup
    {CHOOSE p \in Pages : Profile(p, key) = q : q \in {Profile(p, key) : p \in Pages}}

Kind(e) ==
    LET here == e.key \in e.mutation.page.reads
    IN  <<e.key \in e.mutation.invalidates, {Profile(p, e.key) : p \in Pages},
          IF here THEN <<e.mutation.dialog, e.mutation.closes,
                         e.key \in e.mutation.page.gates,
                         e.key \in e.mutation.page.polls>>
                  ELSE <<>> >>

Kinds == {CHOOSE e \in Effects : Kind(e) = q : q \in {Kind(e) : e \in Effects}}

Init ==
    /\ effect \in Kinds
    /\ page = mutation.page
    /\ dialog = NoTarget /\ calls = {}
    /\ server = 0
    /\ data = NoData
    /\ fetching = (key \in mutation.page.reads)
    /\ got = NoData
    /\ invalid = FALSE /\ failed = FALSE
    /\ acked = 0

(* The page itself is on the screen, not its loading or error state.       *)
Ready == key \in page.gates => data # NoData /\ ~failed

OnPage == page = mutation.page /\ Ready

(* isPending, as the observer of the mounted page or form sees it          *)
Busy ==
    \E c \in calls : c.own /\ (mutation.dialog = "form" => c.form)

NoWaits(cs) == {[c EXCEPT !.waits = FALSE] : c \in cs}
NoForms(cs) == {[c EXCEPT !.form = FALSE] : c \in cs}

-----------------------------------------------------------------------------
(* The query cache                                                         *)

StartFetch == fetching' = TRUE /\ got' = NoData

Bug_PollUntilError ==
    /\ Polled /\ ~fetching /\ ~failed
    /\ StartFetch
    /\ UNCHANGED <<effect, page, dialog, calls, server, data, invalid, failed,
                   acked>>

(* refetchInterval: a tick during a fetch changes nothing.                 *)
Poll ==
    /\ Polled /\ ~fetching
    /\ StartFetch
    /\ UNCHANGED <<effect, page, dialog, calls, server, data, invalid, failed,
                   acked>>

(* The backend reads what the request asks for.                            *)
ServeRead ==
    /\ fetching /\ got = NoData
    /\ got' = server
    /\ UNCHANGED <<effect, page, dialog, calls, server, data, fetching, invalid,
                   failed, acked>>

FetchOk ==
    /\ fetching /\ got # NoData
    /\ data' = got
    /\ fetching' = FALSE /\ got' = NoData
    /\ invalid' = FALSE /\ failed' = FALSE
    /\ calls' = NoWaits(calls)
    /\ UNCHANGED <<effect, page, dialog, server, acked>>

Bug_FetchFailsUnnoticed ==
    /\ fetching
    /\ fetching' = FALSE /\ got' = NoData
    /\ failed' = TRUE
    /\ UNCHANGED <<effect, page, dialog, calls, server, data, invalid, acked>>

(* The retry has failed too.  When the page depends on the key, its error  *)
(* state replaces the page and with it the form inside a dialog.           *)
FetchFails ==
    /\ fetching
    /\ fetching' = FALSE /\ got' = NoData
    /\ failed' = TRUE
    /\ calls' = IF key \in page.gates THEN NoForms(NoWaits(calls)) ELSE NoWaits(calls)
    /\ UNCHANGED <<effect, page, dialog, server, data, invalid, acked>>

(* gcTime: five minutes without an observer, longer than any call takes.   *)
Collect ==
    /\ ~Mounted /\ ~fetching /\ calls = {} /\ data # NoData
    /\ data' = NoData
    /\ invalid' = FALSE /\ failed' = FALSE
    /\ UNCHANGED <<effect, page, dialog, calls, server, fetching, got, acked>>

(* invalidateQueries for the key: a mounted key is read again; a fetch in  *)
(* progress is dropped for that, unless it is the first one.               *)
Bug_InvalidateDedupes ==
    /\ invalid' = TRUE
    /\ fetching' = (fetching \/ Mounted)
    /\ got' = got

Invalidate ==
    /\ invalid' = TRUE
    /\ fetching' = (fetching \/ Mounted)
    /\ got' = IF Mounted /\ data # NoData THEN NoData ELSE got

(* The refresh buttons: invalidateQueries() for everything, or refetch().  *)
Refresh ==
    /\ Mounted
    /\ Invalidate
    /\ calls' = NoWaits(calls)
    /\ UNCHANGED <<effect, page, dialog, server, data, failed, acked>>

-----------------------------------------------------------------------------
(* The operator                                                            *)

(* A client-side navigation: the page's state is gone, its calls go on.    *)
(* The key is read when the new page needs it and it is missing, invalid,  *)
(* or older than staleTime, which at this moment it may or may not be.     *)
Visit(p) ==
    /\ p # page
    /\ page' = p
    /\ dialog' = NoTarget
    /\ calls' = {[c EXCEPT !.own = FALSE, !.form = FALSE, !.waits = FALSE,
                           !.target = NoTarget] : c \in calls}
    /\ \/ key \in p.reads /\ ~fetching /\ StartFetch
       \/ /\ key \in p.reads => fetching \/ (data # NoData /\ ~invalid)
          /\ UNCHANGED <<fetching, got>>
    /\ UNCHANGED <<effect, server, data, invalid, failed, acked>>

OpenDialog(x) ==
    /\ OnPage
    /\ mutation.dialog # "none"
    /\ dialog = NoTarget
    /\ dialog' = x
    /\ UNCHANGED <<effect, page, calls, server, queryVars, acked>>

(* A guarded dialog ignores its close button while the call is pending.    *)
CloseAllowed == mutation.dialog = "guarded" => ~Busy

CloseDialog ==
    /\ OnPage
    /\ dialog # NoTarget
    /\ CloseAllowed
    /\ dialog' = NoTarget
    /\ calls' = NoForms(calls)
    /\ UNCHANGED <<effect, page, server, queryVars, acked>>

FreeIds == 1..MaxCalls \ {c.id : c \in calls}

Bug_ConfirmTwice(x) ==
    /\ OnPage
    /\ dialog = x \/ (mutation.dialog = "none" /\ x = CHOOSE y \in Targets : TRUE)
    /\ FreeIds # {}
    /\ calls' = calls \cup {[id |-> CHOOSE i \in FreeIds : TRUE, target |-> x, wrote |-> 0, phase |-> "sent",
                           own |-> TRUE, form |-> TRUE, waits |-> FALSE]}
    /\ UNCHANGED <<effect, page, dialog, server, queryVars, acked>>

Confirm(x) ==
    /\ OnPage
    /\ dialog = x \/ (mutation.dialog = "none" /\ x = CHOOSE y \in Targets : TRUE)
    /\ ~Busy
    /\ FreeIds # {}
    /\ calls' = calls \cup {[id |-> CHOOSE i \in FreeIds : TRUE, target |-> x, wrote |-> 0, phase |-> "sent",
                           own |-> TRUE, form |-> TRUE, waits |-> FALSE]}
    /\ UNCHANGED <<effect, page, dialog, server, queryVars, acked>>

-----------------------------------------------------------------------------
(* The calls                                                               *)

Replace(c, d) == calls' = (calls \ {c}) \cup {d}

(* The backend does what the call asks for.                                *)
Apply(c) ==
    /\ c.phase = "sent"
    /\ server < MaxWrites
    /\ server' = server + 1
    /\ Replace(c, [c EXCEPT !.phase = "applied", !.wrote = server + 1])
    /\ UNCHANGED <<effect, page, dialog, queryVars, acked>>

(* onSuccess up to its await: close the dialog, invalidate.                *)
Succeed(c) ==
    /\ c.phase = "applied"
    /\ dialog' = IF c.own /\ mutation.closes = "before" THEN NoTarget ELSE dialog
    /\ acked' = IF c.own /\ c.wrote > acked THEN c.wrote ELSE acked
    /\ IF key \in mutation.invalidates
       THEN Invalidate
       ELSE UNCHANGED <<invalid, fetching, got>>
    /\ LET rest == IF key \in mutation.invalidates THEN NoWaits(calls) ELSE calls
           done == IF c.own
                   THEN {[c EXCEPT !.phase = "refetching",
                             !.waits = key \in mutation.invalidates /\ Mounted]}
                   ELSE {}
           left == done \cup {d \in rest : d.id # c.id}
       IN  calls' = IF dialog' # dialog THEN NoForms(left) ELSE left
    /\ UNCHANGED <<effect, page, server, data, failed>>

(* The invalidated queries have been read, or could not be.                *)
Settle(c) ==
    /\ c.phase = "refetching" /\ ~c.waits
    /\ calls' = calls \ {c}
    /\ dialog' = IF c.own /\ mutation.closes = "after" THEN NoTarget ELSE dialog
    /\ UNCHANGED <<effect, page, server, queryVars, acked>>

(* Refused by the backend, or the request or its answer is lost: a toast.  *)
Fail(c) ==
    /\ c.phase # "refetching"
    /\ calls' = calls \ {c}
    /\ UNCHANGED <<effect, page, dialog, server, queryVars, acked>>

(* Another operator, or the backend itself, changes the contents.          *)
OtherWrite ==
    /\ server < MaxWrites
    /\ server' = server + 1
    /\ UNCHANGED <<effect, page, dialog, calls, queryVars, acked>>

-----------------------------------------------------------------------------
Operator ==
    \/ \E p \in Representatives : Visit(p)
    \/ \E x \in Targets : OpenDialog(x) \/ Confirm(x)
    \/ CloseDialog \/ Refresh

Cache == Poll \/ FetchOk \/ FetchFails \/ Collect

Backend == ServeRead \/ OtherWrite \/ \E c \in calls : Apply(c)

Answers == \E c \in calls : Succeed(c) \/ Settle(c) \/ Fail(c)

Next == Operator \/ Cache \/ Backend \/ Answers

Spec == Init /\ [][Next]_vars

(* Intervals tick; a fetch that is tried again and again reaches the       *)
(* backend and succeeds in the end; every call is answered or fails.       *)
(* Nobody makes the operator do anything.                                  *)
FairSpec ==
    /\ Spec
    /\ WF_vars(Poll) /\ SF_vars(ServeRead) /\ SF_vars(FetchOk)
    /\ WF_vars(\E c \in calls : Apply(c) \/ Succeed(c) \/ Fail(c))
    /\ WF_vars(\E c \in calls : Settle(c))

-----------------------------------------------------------------------------
(* Dialogs outside the access-control forms: a page never has two calls of *)
(* its mutation in progress, whatever was closed, reopened or failed.      *)
OneCallPerPage ==
    mutation.dialog # "form" =>
        \A c, d \in calls : c.own /\ d.own => c = d

(* While a guarded dialog is waiting for its answer it stays open for the  *)
(* target that was confirmed; answers of other calls do not close it.      *)
GuardedDialogStays ==
    mutation.dialog = "guarded" =>
        \A c \in calls : c.own /\ c.phase # "refetching" => dialog = c.target

(* A key the page was loaded with holds the write of a call whose success  *)
(* the operator has seen, or it is being read again, or its last reading   *)
(* failed and shows an error.  Fetches that read before the write and are  *)
(* answered after it do not count as the reading.                          *)
SuccessShown ==
    key \in mutation.invalidates \cap mutation.page.gates =>
        data = NoData \/ data >= acked \/ (invalid /\ (fetching \/ failed))

(* A page that polls the key shows every write in the end, also a write    *)
(* whose answer was lost, if the operator stays.                           *)
PolledPagesCatchUp ==
    \A v \in 1..MaxWrites :
        (server >= v /\ Polled) ~> (data >= v \/ ~Polled)

(* A confirmed call keeps its page busy only for a time.                   *)
BusyEnds == Busy ~> ~Busy

(* The invariant of the dialogs: however they are confirmed, closed and    *)
(* reopened under a call, one call at a time and the guarded one stays.    *)
ConsoleInv == TypeOK /\ OneCallPerPage /\ GuardedDialogStays
=============================================================================
