------------------------------- MODULE Toasts -------------------------------
(***************************************************************************)
(* The notices of the dashboard: the queue of toast.tsx in front of the    *)
(* toast provider, the list the provider shows, and the overview page that *)
(* announces drifted nodes through it.                                     *)
(*                                                                         *)
(* Effects of pages run before the effect of the provider above them, so a *)
(* page can announce before anyone listens; in development React runs the  *)
(* effects twice, so the listener can go away and come back while the list *)
(* stays.  The identifier of a toast is the time plus a random number:     *)
(* two toasts can have the same one.                                       *)
(***************************************************************************)
EXTENDS Integers, Sequences, Ranks

CONSTANTS
    Capacity,     \* notices kept while nobody listens, and shown (5)
    Ids,          \* identifiers of toasts
    Drifts,       \* the drifted nodes the overview can report
    MaxNotices    \* bound: notices

ASSUME ToastAssumption ==
    Capacity \in Nat \ {0} /\ Drifts \subseteq Nat /\ MaxNotices \in Nat

VARIABLES
    listening,          \* toastListeners holds the provider's function
    pendingToasts,
    items,              \* the toasts of the provider, newest last
    sent,               \* notices so far
    closed,             \* history: the notices whose toast was closed
    drift,              \* drifted_nodes of the overview shown, or NotShown
    lastReportedDrift,
    since,              \* history: notices sent when drift last changed
    driftNotice         \* history: the last notice about drift

toastVars == <<listening, pendingToasts, items, sent, closed,
               drift, lastReportedDrift, since, driftNotice>>

NotShown == -1
Notices == 1..MaxNotices
Toast == [notice : Notices, id : Ids]

ToastTypeOK ==
    /\ listening \in BOOLEAN
    /\ pendingToasts \in Seq(Notices) /\ Len(pendingToasts) <= Capacity
    /\ items \in Seq(Toast) /\ Len(items) <= Capacity
    /\ sent \in 0..MaxNotices
    /\ closed \subseteq Notices
    /\ drift \in Drifts \cup {NotShown}
    /\ lastReportedDrift \in Drifts \cup {NotShown}
    /\ since \in 0..MaxNotices /\ driftNotice \in 0..MaxNotices

ToastInit ==
    /\ listening = FALSE
    /\ pendingToasts = <<>> /\ items = <<>>
    /\ sent = 0 /\ closed = {}
    /\ drift = NotShown /\ lastReportedDrift = NotShown
    /\ since = 0 /\ driftNotice = 0

-----------------------------------------------------------------------------
LastOf(s, n) == SubSeq(s, IF Len(s) > n THEN Len(s) - n + 1 ELSE 1, Len(s))

(* toast: setItems((current) => [...current.slice(-4), item]).             *)
Show(s, toast) == Append(LastOf(s, Capacity - 1), toast)

Bug_Queue(s, notice) == IF Len(s) = Capacity THEN s ELSE Append(s, notice)

Queue(s, notice) == LastOf(Append(s, notice), Capacity)

notifyToast ==
    /\ sent < MaxNotices /\ sent' = sent + 1
    /\ IF listening
         THEN /\ \E id \in Ids : items' = Show(items, [notice |-> sent + 1, id |-> id])
              /\ UNCHANGED pendingToasts
         ELSE /\ pendingToasts' = Queue(pendingToasts, sent + 1)
              /\ UNCHANGED items

(* A mutation, a probe or a form announces something.                      *)
Announce ==
    /\ notifyToast
    /\ UNCHANGED <<listening, closed, drift, lastReportedDrift, since, driftNotice>>

(* The provider's effect: it listens and takes over what is pending.       *)
ShowAll(s, toasts) ==
    LET shown[n \in 0..Len(toasts)] == IF n = 0 THEN s ELSE Show(shown[n - 1], toasts[n])
    IN  shown[Len(toasts)]

Listen ==
    /\ ~listening /\ listening' = TRUE
    /\ pendingToasts' = <<>>
    /\ \E id \in [DOMAIN pendingToasts -> Ids] :
         items' = ShowAll(items, [n \in DOMAIN pendingToasts |->
                                    [notice |-> pendingToasts[n], id |-> id[n]]])
    /\ UNCHANGED <<sent, closed, drift, lastReportedDrift, since, driftNotice>>

(* The cleanup of that effect.                                             *)
Leave ==
    /\ listening /\ listening' = FALSE
    /\ UNCHANGED <<pendingToasts, items, sent, closed, drift, lastReportedDrift, since, driftNotice>>

(* onOpenChange: the operator or the timer closes a toast; every toast of  *)
(* its identifier goes.                                                    *)
Others(k) == {j \in DOMAIN items : items[j].id # items[k].id}

Close(k) ==
    /\ k \in DOMAIN items
    /\ items' = [n \in DOMAIN Ascending(Others(k)) |-> items[Ascending(Others(k))[n]]]
    /\ closed' = closed \cup {items[j].notice : j \in DOMAIN items \ Others(k)}
    /\ UNCHANGED <<listening, pendingToasts, sent, drift, lastReportedDrift, since, driftNotice>>

-----------------------------------------------------------------------------
(* The overview.                                                           *)

MustReport(d) == d > 0 /\ lastReportedDrift # d

(* The overview answers d drifted nodes (the first answer mounts it) and   *)
(* its effect runs when the number is not the one shown before.            *)
OverviewAnswers(d) ==
    /\ d # drift
    /\ IF MustReport(d)
         THEN notifyToast /\ driftNotice' = sent + 1
         ELSE UNCHANGED <<sent, pendingToasts, items, driftNotice>>
    /\ drift' = d /\ lastReportedDrift' = d /\ since' = sent
    /\ UNCHANGED <<listening, closed>>

(* The page goes, and its ref with it.                                     *)
LeaveOverview ==
    /\ drift # NotShown
    /\ drift' = NotShown /\ lastReportedDrift' = NotShown
    /\ UNCHANGED <<listening, pendingToasts, items, sent, closed, since, driftNotice>>

ToastNext ==
    \/ Announce
    \/ Listen
    \/ Leave
    \/ \E k \in DOMAIN items : Close(k)
    \/ \E d \in Drifts : OverviewAnswers(d)
    \/ LeaveOverview

ToastSpec == ToastInit /\ [][ToastNext]_toastVars

-----------------------------------------------------------------------------
NoticesOf(s) == [k \in DOMAIN s |-> s[k].notice]
Known == NoticesOf(items) \o pendingToasts

(* A notice is lost to no other cause than five newer ones: each of the    *)
(* last five is on the screen, waiting for the provider, or was closed,    *)
(* whichever way the notices fell between mounting and unmounting.         *)
RecentKept ==
    \A n \in (sent - Capacity + 1)..sent :
      n > 0 => n \in closed \/ \E k \in DOMAIN Known : Known[k] = n

(* No notice is shown twice, and the waiting ones come after the shown.    *)
ShownOnceInOrder ==
    \A j, k \in DOMAIN Known : j < k => Known[j] < Known[k]

(* The overview announces every change of a positive drift count that it   *)
(* shows, the return to an earlier value and the return to the page too.   *)
DriftAnnounced == drift > 0 => driftNotice > since

(* The invariant of the notices: none is lost, repeated or out of order,   *)
(* and every drift is announced.                                           *)
NoticeInv == ToastTypeOK /\ RecentKept /\ ShownOnceInOrder /\ DriftAnnounced
=============================================================================
