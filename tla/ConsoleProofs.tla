--------------------------- MODULE ConsoleProofs ----------------------------
(***************************************************************************)
(* ConsoleInv and SuccessShown for any objects, writes and calls, and for  *)
(* every mutation and key of the tables of ConsolePages.  That an old      *)
(* answer does not end the reading of a written key rests on what a call   *)
(* of the page implies: the page is mounted and was loaded with the key,   *)
(* so the cache keeps its data as long as the call is out and an           *)
(* invalidation drops whatever fetch is in progress.                       *)
(***************************************************************************)
EXTENDS Console, TLAPS

(* A call of the mounted page has an object and a loaded page; no call has *)
(* written what the backend has not.                                       *)
OwnInv ==
    \A c \in calls :
        /\ c.wrote <= server
        /\ c.own => /\ page = mutation.page /\ c.target \in Targets
                    /\ key \in page.gates => data # NoData

(* An answer on its way was read after the write the operator was told of. *)
AnswerNew ==
    key \in mutation.invalidates \cap mutation.page.gates => got = NoData \/ got >= acked

(* What the tables say of the page of the behaviour's mutation.            *)
OwnPage == mutation.page \in Pages /\ mutation.page.gates \subseteq mutation.page.reads

IInv == ConsoleInv /\ SuccessShown /\ OwnInv /\ AnswerNew /\ OwnPage

-----------------------------------------------------------------------------
(* A page reads what it cannot be shown without.                           *)
LEMMA GatesAreRead == \A p \in Pages : p.gates \subseteq p.reads
<1>1. \A n, r, p, g : Page(n, r, p, g).gates = g /\ Page(n, r, p, g).reads = r
  BY DEF Page
<1>2. /\ OverviewPage.gates \subseteq OverviewPage.reads /\ SitesPage.gates \subseteq SitesPage.reads
      /\ NodesPage.gates \subseteq NodesPage.reads /\ TasksPage.gates \subseteq TasksPage.reads
      /\ BackupsPage.gates \subseteq BackupsPage.reads
      /\ EmployeesPage.gates \subseteq EmployeesPage.reads
      /\ SettingsPage.gates \subseteq SettingsPage.reads
  BY <1>1 DEF OverviewPage, SitesPage, NodesPage, TasksPage, BackupsPage, EmployeesPage, SettingsPage
<1>3. /\ ReleasesPage.gates \subseteq ReleasesPage.reads
      /\ SubscriptionsPage.gates \subseteq SubscriptionsPage.reads
      /\ ProxiesPage.gates \subseteq ProxiesPage.reads /\ RulesPage.gates \subseteq RulesPage.reads
      /\ GroupsPage.gates \subseteq GroupsPage.reads /\ RoutingPage.gates \subseteq RoutingPage.reads
  BY <1>1 DEF ReleasesPage, SubscriptionsPage, ProxiesPage, RulesPage, GroupsPage, RoutingPage
<1>4. /\ ProbesPage.gates \subseteq ProbesPage.reads /\ AuditPage.gates \subseteq AuditPage.reads
      /\ LogsPage.gates \subseteq LogsPage.reads /\ AlertsPage.gates \subseteq AlertsPage.reads
      /\ ConnectionsPage.gates \subseteq ConnectionsPage.reads
      /\ ServiceQualityPage.gates \subseteq ServiceQualityPage.reads
  BY <1>1 DEF ProbesPage, AuditPage, LogsPage, AlertsPage, ConnectionsPage, ServiceQualityPage
<1>. QED
  BY <1>2, <1>3, <1>4 DEF Pages

(* Every mutation belongs to a page of the dashboard.                      *)
LEMMA MutationsHavePages == \A m \in Mutations : m.page \in Pages
<1>1. \A n, p, i, d, c : Mutation(n, p, i, d, c).page = p
  BY DEF Mutation
<1>2. \A m \in SitesMutations \cup NodesMutations \cup TasksMutations \cup BackupsMutations :
         m.page \in {SitesPage, NodesPage, TasksPage, BackupsPage}
  BY <1>1 DEF SitesMutations, NodesMutations, TasksMutations, BackupsMutations
<1>3. \A m \in EmployeesMutations \cup SettingsMutations \cup ReleasesMutations \cup SubscriptionsMutations :
         m.page \in {EmployeesPage, SettingsPage, ReleasesPage, SubscriptionsPage}
  BY <1>1 DEF EmployeesMutations, SettingsMutations, ReleasesMutations, SubscriptionsMutations
<1>4. \A m \in ProxiesMutations \cup RulesMutations \cup RuleFormMutations \cup GroupsMutations
                 \cup GroupFormMutations :
         m.page \in {ProxiesPage, RulesPage, GroupsPage}
  BY <1>1 DEF ProxiesMutations, RulesMutations, RuleFormMutations, GroupsMutations, GroupFormMutations
<1>. QED
  BY <1>2, <1>3, <1>4 DEF Mutations, Pages

LEMMA EffectHasPage == \A e \in Effects : e.mutation.page \in Pages
BY MutationsHavePages DEF Effects

LEMMA KindsAreEffects == Kinds \subseteq Effects
<1>. SUFFICES ASSUME NEW e \in Effects PROVE (CHOOSE d \in Effects : Kind(d) = Kind(e)) \in Effects
  BY DEF Kinds
<1>. QED
  OBVIOUS

LEMMA RepresentativesArePages ==
    ASSUME mutation.page \in Pages
    PROVE  Representatives \subseteq Pages
<1>. SUFFICES ASSUME NEW r \in Pages
              PROVE  (CHOOSE p \in Pages : Profile(p, key) = Profile(r, key)) \in Pages
  BY DEF Representatives
<1>. QED
  OBVIOUS

(* NoWaits and NoForms change one flag of every call.                      *)
LEMMA NoWaitsIs ==
    ASSUME NEW cs, cs \subseteq Call, NEW d \in NoWaits(cs)
    PROVE  d \in Call /\ \E c \in cs : /\ d.id = c.id /\ d.target = c.target /\ d.wrote = c.wrote
                                       /\ d.phase = c.phase /\ d.own = c.own /\ d = [c EXCEPT !.waits = FALSE]
<1>1. PICK c \in cs : d = [c EXCEPT !.waits = FALSE]
  BY DEF NoWaits
<1>2. c \in Call
  OBVIOUS
<1>. QED
  BY <1>1, <1>2 DEF Call

LEMMA NoFormsIs ==
    ASSUME NEW cs, cs \subseteq Call, NEW d \in NoForms(cs)
    PROVE  d \in Call /\ \E c \in cs : /\ d.id = c.id /\ d.target = c.target /\ d.wrote = c.wrote
                                       /\ d.phase = c.phase /\ d.own = c.own /\ d = [c EXCEPT !.form = FALSE]
<1>1. PICK c \in cs : d = [c EXCEPT !.form = FALSE]
  BY DEF NoForms
<1>2. c \in Call
  OBVIOUS
<1>. QED
  BY <1>1, <1>2 DEF Call

(* The calls ds are calls of cs but for the flags form and waits.          *)
OneOwn(cs) == \A c, d \in cs : c.own /\ d.own => c = d
Copies(ds, cs) ==
    /\ ds \subseteq Call
    /\ \A d \in ds : \E c \in cs : /\ d.target = c.target /\ d.wrote = c.wrote
                                   /\ d.phase = c.phase /\ d.own = c.own
    /\ OneOwn(cs) => OneOwn(ds)

LEMMA SameCopies ==
    ASSUME NEW cs, cs \subseteq Call
    PROVE  Copies(cs, cs)
BY DEF Copies

LEMMA NoWaitsCopies ==
    ASSUME NEW cs, cs \subseteq Call
    PROVE  Copies(NoWaits(cs), cs)
<1>1. NoWaits(cs) \subseteq Call
  BY NoWaitsIs
<1>2. \A d \in NoWaits(cs) : \E c \in cs : /\ d.target = c.target /\ d.wrote = c.wrote
                                           /\ d.phase = c.phase /\ d.own = c.own
  BY NoWaitsIs
<1>3. ASSUME OneOwn(cs), NEW d \in NoWaits(cs), NEW e \in NoWaits(cs), d.own, e.own PROVE d = e
  <2>1. PICK c \in cs : d.own = c.own /\ d = [c EXCEPT !.waits = FALSE]
    BY NoWaitsIs
  <2>2. PICK b \in cs : e.own = b.own /\ e = [b EXCEPT !.waits = FALSE]
    BY NoWaitsIs
  <2>. QED
    BY <1>3, <2>1, <2>2 DEF OneOwn
<1>. QED
  BY <1>1, <1>2, <1>3 DEF Copies, OneOwn

LEMMA NoFormsCopies ==
    ASSUME NEW cs, cs \subseteq Call
    PROVE  Copies(NoForms(cs), cs)
<1>1. NoForms(cs) \subseteq Call
  BY NoFormsIs
<1>2. \A d \in NoForms(cs) : \E c \in cs : /\ d.target = c.target /\ d.wrote = c.wrote
                                           /\ d.phase = c.phase /\ d.own = c.own
  BY NoFormsIs
<1>3. ASSUME OneOwn(cs), NEW d \in NoForms(cs), NEW e \in NoForms(cs), d.own, e.own PROVE d = e
  <2>1. PICK c \in cs : d.own = c.own /\ d = [c EXCEPT !.form = FALSE]
    BY NoFormsIs
  <2>2. PICK b \in cs : e.own = b.own /\ e = [b EXCEPT !.form = FALSE]
    BY NoFormsIs
  <2>. QED
    BY <1>3, <2>1, <2>2 DEF OneOwn
<1>. QED
  BY <1>1, <1>2, <1>3 DEF Copies, OneOwn

LEMMA CopiesOfCopies ==
    ASSUME NEW bs, NEW cs, NEW ds, Copies(bs, cs), Copies(ds, bs)
    PROVE  Copies(ds, cs)
BY DEF Copies

(* A step that touches no call but its flags, leaves the dialog open and   *)
(* keeps the data of the key keeps what is said of calls.                  *)
LEMMA FlagsStep ==
    ASSUME IInv, Copies(calls', calls), UNCHANGED <<effect, page, dialog, server>>,
           data # NoData => data' # NoData
    PROVE  OneCallPerPage' /\ GuardedDialogStays' /\ OwnInv'
<1>. ConsoleInv /\ OwnInv /\ calls \subseteq Call
  BY DEF IInv, ConsoleInv, TypeOK
<1>1. mutation' = mutation /\ key' = key
  BY DEF mutation, key
<1>2. OneCallPerPage'
  BY <1>1 DEF ConsoleInv, OneCallPerPage, Copies, OneOwn
<1>3. GuardedDialogStays'
  BY <1>1 DEF ConsoleInv, GuardedDialogStays, Copies
<1>4. OwnInv'
  BY <1>1 DEF OwnInv, Copies
<1>. QED
  BY <1>2, <1>3, <1>4

(* A step of the query cache.                                              *)
LEMMA CacheStep == ASSUME IInv, Cache PROVE IInv'
<1>. TypeOK /\ SuccessShown /\ OwnInv /\ AnswerNew /\ OwnPage /\ calls \subseteq Call
  BY DEF IInv, ConsoleInv, TypeOK
<1>1. UNCHANGED <<effect, page, dialog, server, acked>> /\ mutation' = mutation /\ key' = key
  BY DEF Cache, Poll, FetchOk, FetchFails, Collect, mutation, key
<1>2. OwnPage'
  BY <1>1 DEF OwnPage
<1>3. Copies(calls', calls)
  <2>1. Copies(NoWaits(calls), calls) /\ Copies(NoForms(NoWaits(calls)), NoWaits(calls))
    BY NoWaitsCopies, NoFormsCopies DEF Copies
  <2>2. Copies(NoForms(NoWaits(calls)), calls)
    BY <2>1, CopiesOfCopies
  <2>. QED
    BY <2>1, <2>2, SameCopies DEF Cache, Poll, FetchOk, FetchFails, Collect
<1>4. calls' \subseteq Call
  BY <1>3 DEF Copies
<1>5. CASE Poll
  <2>1. data' = data /\ invalid' = invalid /\ failed' = failed /\ fetching' = TRUE /\ got' = NoData
    BY <1>5 DEF Poll, StartFetch
  <2>2. OneCallPerPage' /\ GuardedDialogStays' /\ OwnInv'
    BY <1>1, <1>3, <2>1, FlagsStep
  <2>3. TypeOK'
    BY <1>1, <1>4, <2>1 DEF TypeOK
  <2>4. SuccessShown' /\ AnswerNew'
    BY <1>1, <2>1 DEF SuccessShown, AnswerNew
  <2>. QED
    BY <1>2, <2>2, <2>3, <2>4 DEF IInv, ConsoleInv
<1>6. CASE FetchOk
  <2>1. data' = got /\ got # NoData /\ invalid' = FALSE /\ failed' = FALSE /\ fetching' = FALSE /\ got' = NoData
    BY <1>6 DEF FetchOk
  <2>2. OneCallPerPage' /\ GuardedDialogStays' /\ OwnInv'
    BY <1>1, <1>3, <2>1, FlagsStep
  <2>3. TypeOK'
    BY <1>1, <1>4, <2>1 DEF TypeOK
  <2>4. SuccessShown' /\ AnswerNew'
    BY <1>1, <2>1 DEF SuccessShown, AnswerNew
  <2>. QED
    BY <1>2, <2>2, <2>3, <2>4 DEF IInv, ConsoleInv
<1>7. CASE FetchFails
  <2>1. data' = data /\ invalid' = invalid /\ failed' = TRUE /\ fetching' = FALSE /\ got' = NoData
    BY <1>7 DEF FetchFails
  <2>2. OneCallPerPage' /\ GuardedDialogStays' /\ OwnInv'
    BY <1>1, <1>3, <2>1, FlagsStep
  <2>3. TypeOK'
    BY <1>1, <1>4, <2>1 DEF TypeOK
  <2>4. SuccessShown' /\ AnswerNew'
    BY <1>1, <2>1 DEF SuccessShown, AnswerNew
  <2>. QED
    BY <1>2, <2>2, <2>3, <2>4 DEF IInv, ConsoleInv
<1>8. CASE Collect
  <2>1. /\ calls = {} /\ calls' = {} /\ data' = NoData /\ invalid' = FALSE /\ failed' = FALSE
        /\ fetching' = fetching /\ got' = got
    BY <1>8 DEF Collect
  <2>2. OneCallPerPage' /\ GuardedDialogStays' /\ OwnInv'
    BY <2>1 DEF OneCallPerPage, GuardedDialogStays, OwnInv
  <2>3. TypeOK'
    BY <1>1, <1>4, <2>1 DEF TypeOK
  <2>4. SuccessShown' /\ AnswerNew'
    BY <1>1, <2>1 DEF SuccessShown, AnswerNew
  <2>. QED
    BY <1>2, <2>2, <2>3, <2>4 DEF IInv, ConsoleInv
<1>. QED
  BY <1>5, <1>6, <1>7, <1>8 DEF Cache

LEMMA VisitStep == ASSUME IInv, NEW p \in Representatives, Visit(p) PROVE IInv'
<1>. TypeOK /\ SuccessShown /\ AnswerNew /\ OwnInv /\ OwnPage
  BY DEF IInv, ConsoleInv
<1>1. /\ UNCHANGED <<effect, server, data, invalid, failed, acked>> /\ page' = p
      /\ dialog' = NoTarget /\ mutation' = mutation /\ key' = key
  BY Zenon DEF Visit, mutation, key
<1>2. ASSUME NEW d \in calls' PROVE d \in Call /\ d.own = FALSE /\ d.wrote <= server
  <2>1. PICK c \in calls : d = [c EXCEPT !.own = FALSE, !.form = FALSE, !.waits = FALSE, !.target = NoTarget]
    BY <1>2, Zenon DEF Visit
  <2>2. c \in Call /\ c.wrote <= server
    BY DEF TypeOK, OwnInv
  <2>3. PICK b1 : b1 = [c EXCEPT !.own = FALSE]
    OBVIOUS
  <2>4. b1 \in Call /\ b1.own = FALSE /\ b1.wrote = c.wrote
    BY <2>2, <2>3 DEF Call
  <2>5. PICK b2 : b2 = [b1 EXCEPT !.form = FALSE]
    OBVIOUS
  <2>6. b2 \in Call /\ b2.own = FALSE /\ b2.wrote = c.wrote
    BY <2>4, <2>5 DEF Call
  <2>7. PICK b3 : b3 = [b2 EXCEPT !.waits = FALSE]
    OBVIOUS
  <2>8. b3 \in Call /\ b3.own = FALSE /\ b3.wrote = c.wrote
    BY <2>6, <2>7 DEF Call
  <2>9. d = [b3 EXCEPT !.target = NoTarget]
    BY <2>1, <2>3, <2>5, <2>7
  <2>10. d \in Call /\ d.own = FALSE /\ d.wrote = c.wrote
    BY <2>8, <2>9 DEF Call
  <2>. QED
    BY <2>2, <2>10
<1>3. OneCallPerPage' /\ GuardedDialogStays' /\ OwnInv'
  BY <1>1, <1>2 DEF OneCallPerPage, GuardedDialogStays, OwnInv
<1>4. \/ fetching' = TRUE /\ got' = NoData
      \/ fetching' = fetching /\ got' = got
  BY Zenon DEF Visit, StartFetch
<1>5. TypeOK'
  <2>1. p \in Pages
    BY RepresentativesArePages DEF OwnPage
  <2>. QED
    BY <1>1, <1>2, <1>4, <2>1 DEF TypeOK
<1>6. SuccessShown' /\ AnswerNew' /\ OwnPage'
  BY <1>1, <1>4 DEF SuccessShown, AnswerNew, OwnPage
<1>. QED
  BY <1>3, <1>5, <1>6 DEF IInv, ConsoleInv

LEMMA RefreshStep == ASSUME IInv, Refresh PROVE IInv'
<1>. TypeOK /\ SuccessShown /\ AnswerNew /\ OwnPage /\ calls \subseteq Call
  BY DEF IInv, ConsoleInv, TypeOK
<1>1. /\ UNCHANGED <<effect, page, dialog, server, data, failed, acked>> /\ mutation' = mutation
      /\ key' = key /\ invalid' = TRUE /\ fetching' = TRUE /\ got' \in {NoData, got}
  BY DEF Refresh, Invalidate, mutation, key
<1>2. Copies(calls', calls)
  BY NoWaitsCopies DEF Refresh
<1>3. OneCallPerPage' /\ GuardedDialogStays' /\ OwnInv'
  BY <1>1, <1>2, FlagsStep
<1>4. TypeOK'
  BY <1>1, <1>2 DEF TypeOK, Copies
<1>5. SuccessShown' /\ AnswerNew' /\ OwnPage'
  BY <1>1 DEF SuccessShown, AnswerNew, OwnPage
<1>. QED
  BY <1>3, <1>4, <1>5 DEF IInv, ConsoleInv

LEMMA OpenStep == ASSUME IInv, NEW x \in Targets, OpenDialog(x) PROVE IInv'
<1>. /\ TypeOK /\ SuccessShown /\ OwnInv /\ AnswerNew /\ OwnPage
     /\ OneCallPerPage /\ GuardedDialogStays
  BY DEF IInv, ConsoleInv
<1>1. /\ UNCHANGED <<effect, page, calls, server, data, fetching, got, invalid, failed, acked>>
      /\ mutation' = mutation /\ key' = key /\ dialog = NoTarget /\ dialog' = x
  BY DEF OpenDialog, queryVars, mutation, key
<1>2. GuardedDialogStays'
  BY <1>1, TargetAssumption DEF GuardedDialogStays, OwnInv
<1>3. TypeOK'
  BY <1>1 DEF TypeOK
<1>4. OneCallPerPage' /\ OwnInv'
  BY <1>1 DEF OneCallPerPage, OwnInv
<1>5. SuccessShown' /\ AnswerNew' /\ OwnPage'
  BY <1>1 DEF SuccessShown, AnswerNew, OwnPage
<1>. QED
  BY <1>2, <1>3, <1>4, <1>5 DEF IInv, ConsoleInv

LEMMA CloseStep == ASSUME IInv, CloseDialog PROVE IInv'
<1>. /\ TypeOK /\ SuccessShown /\ OwnInv /\ AnswerNew /\ OwnPage /\ OneCallPerPage
     /\ calls \subseteq Call
  BY DEF IInv, ConsoleInv, TypeOK
<1>1. /\ UNCHANGED <<effect, page, server, data, fetching, got, invalid, failed, acked>>
      /\ mutation' = mutation /\ key' = key /\ dialog' = NoTarget
  BY DEF CloseDialog, queryVars, mutation, key
<1>2. Copies(calls', calls)
  BY NoFormsCopies DEF CloseDialog
<1>3. OneCallPerPage' /\ OwnInv'
  BY <1>1, <1>2 DEF OneCallPerPage, OneOwn, OwnInv, Copies
<1>4. GuardedDialogStays'
  <2>1. mutation.dialog = "guarded" => \A c \in calls : ~c.own
    BY DEF CloseDialog, CloseAllowed, Busy
  <2>. QED
    BY <1>1, <1>2, <2>1 DEF GuardedDialogStays, Copies
<1>5. TypeOK'
  BY <1>1, <1>2 DEF TypeOK, Copies
<1>6. SuccessShown' /\ AnswerNew' /\ OwnPage'
  BY <1>1 DEF SuccessShown, AnswerNew, OwnPage
<1>. QED
  BY <1>3, <1>4, <1>5, <1>6 DEF IInv, ConsoleInv

LEMMA ConfirmStep == ASSUME IInv, NEW x \in Targets, Confirm(x) PROVE IInv'
<1>. /\ TypeOK /\ SuccessShown /\ OwnInv /\ AnswerNew /\ OwnPage
     /\ OneCallPerPage /\ GuardedDialogStays /\ calls \subseteq Call
  BY DEF IInv, ConsoleInv, TypeOK
<1>1. /\ UNCHANGED <<effect, page, dialog, server, data, fetching, got, invalid, failed, acked>>
      /\ mutation' = mutation /\ key' = key
  BY DEF Confirm, queryVars, mutation, key
<1>2. PICK i \in 1..MaxCalls : i = CHOOSE j \in FreeIds : TRUE
  BY DEF Confirm, FreeIds
<1>3. PICK n : n = [id |-> i, target |-> x, wrote |-> 0, phase |-> "sent",
                    own |-> TRUE, form |-> TRUE, waits |-> FALSE]
  OBVIOUS
<1>4. n \in Call /\ n.target = x /\ n.wrote = 0 /\ n.own
  <2>1. 0 \in 0..MaxWrites
    BY BoundsAssumption
  <2>. QED
    BY <1>3, <2>1 DEF Call
<1>5. calls' = calls \cup {n}
  BY <1>2, <1>3 DEF Confirm
<1>6. mutation.dialog # "form" => \A c \in calls : ~c.own
  BY DEF Confirm, Busy
<1>7. OneCallPerPage'
  BY <1>1, <1>5, <1>6 DEF OneCallPerPage
<1>8. GuardedDialogStays'
  <2>1. mutation.dialog = "guarded" => dialog = x
    BY DEF Confirm
  <2>. QED
    BY <1>1, <1>4, <1>5, <2>1 DEF GuardedDialogStays
<1>9. OwnInv'
  <2>1. page = mutation.page /\ (key \in page.gates => data # NoData)
    BY DEF Confirm, OnPage, Ready
  <2>2. 0 <= server
    BY DEF TypeOK
  <2>. QED
    BY <1>1, <1>4, <1>5, <2>1, <2>2 DEF OwnInv
<1>10. TypeOK'
  BY <1>1, <1>4, <1>5 DEF TypeOK
<1>11. SuccessShown' /\ AnswerNew' /\ OwnPage'
  BY <1>1 DEF SuccessShown, AnswerNew, OwnPage
<1>. QED
  BY <1>7, <1>8, <1>9, <1>10, <1>11 DEF IInv, ConsoleInv

LEMMA BackendStep == ASSUME IInv, Backend PROVE IInv'
<1>. /\ TypeOK /\ SuccessShown /\ OwnInv /\ AnswerNew /\ OwnPage
     /\ OneCallPerPage /\ GuardedDialogStays /\ calls \subseteq Call
  BY DEF IInv, ConsoleInv, TypeOK
<1>1. server \in Nat /\ acked \in Nat /\ acked <= server /\ MaxWrites \in Nat
  BY BoundsAssumption DEF TypeOK
<1>2. CASE ServeRead
  <2>1. /\ UNCHANGED <<effect, page, dialog, calls, server, data, fetching, invalid, failed, acked>>
        /\ mutation' = mutation /\ key' = key /\ got' = server
    BY <1>2 DEF ServeRead, mutation, key
  <2>2. OneCallPerPage' /\ GuardedDialogStays' /\ OwnInv'
    BY <2>1 DEF OneCallPerPage, GuardedDialogStays, OwnInv
  <2>3. TypeOK'
    BY <2>1 DEF TypeOK
  <2>4. SuccessShown' /\ AnswerNew' /\ OwnPage'
    BY <1>1, <2>1 DEF SuccessShown, AnswerNew, OwnPage
  <2>. QED
    BY <2>2, <2>3, <2>4 DEF IInv, ConsoleInv
<1>3. CASE OtherWrite
  <2>1. /\ UNCHANGED <<effect, page, dialog, calls, data, fetching, got, invalid, failed, acked>>
        /\ mutation' = mutation /\ key' = key /\ server < MaxWrites /\ server' = server + 1
    BY <1>3 DEF OtherWrite, queryVars, mutation, key
  <2>2. \A c \in calls : c.wrote <= server'
    <3>1. \A c \in calls : c.wrote \in Nat /\ c.wrote <= server
      BY DEF OwnInv, Call
    <3>. QED
      BY <1>1, <2>1, <3>1
  <2>3. OneCallPerPage' /\ GuardedDialogStays' /\ OwnInv'
    BY <2>1, <2>2 DEF OneCallPerPage, GuardedDialogStays, OwnInv
  <2>4. TypeOK'
    BY <1>1, <2>1 DEF TypeOK, NoData
  <2>5. SuccessShown' /\ AnswerNew' /\ OwnPage'
    BY <2>1 DEF SuccessShown, AnswerNew, OwnPage
  <2>. QED
    BY <2>3, <2>4, <2>5 DEF IInv, ConsoleInv
<1>4. ASSUME NEW c \in calls, Apply(c) PROVE IInv'
  <2>1. /\ UNCHANGED <<effect, page, dialog, data, fetching, got, invalid, failed, acked>>
        /\ mutation' = mutation /\ key' = key /\ server < MaxWrites /\ server' = server + 1
        /\ c.phase = "sent"
    BY <1>4 DEF Apply, queryVars, mutation, key
  <2>2. PICK b : b = [c EXCEPT !.phase = "applied"]
    OBVIOUS
  <2>3. b \in Call /\ b.target = c.target /\ b.own = c.own /\ b.phase = "applied"
    BY <2>2 DEF Call
  <2>4. PICK n : n = [b EXCEPT !.wrote = server + 1]
    OBVIOUS
  <2>5. /\ n \in Call /\ n.target = c.target /\ n.own = c.own /\ n.phase = "applied"
        /\ n.wrote = server'
    <3>1. server + 1 \in 0..MaxWrites
      BY <1>1, <2>1
    <3>. QED
      BY <2>1, <2>3, <2>4, <3>1 DEF Call
  <2>6. calls' = (calls \ {c}) \cup {n}
    BY <1>4, <2>2, <2>4 DEF Apply, Replace
  <2>7. \A d \in calls : d.wrote <= server'
    <3>1. \A d \in calls : d.wrote \in Nat /\ d.wrote <= server
      BY DEF OwnInv, Call
    <3>. QED
      BY <1>1, <2>1, <3>1
  <2>8. server' <= server'
    BY <1>1, <2>1
  <2>9. OneCallPerPage'
    BY <1>4, <2>1, <2>5, <2>6 DEF OneCallPerPage
  <2>10. GuardedDialogStays'
    BY <1>4, <2>1, <2>5, <2>6 DEF GuardedDialogStays
  <2>11. OwnInv'
    BY <1>4, <2>1, <2>5, <2>6, <2>7, <2>8 DEF OwnInv
  <2>12. TypeOK'
    BY <1>1, <2>1, <2>5, <2>6 DEF TypeOK, NoData
  <2>13. SuccessShown' /\ AnswerNew' /\ OwnPage'
    BY <2>1 DEF SuccessShown, AnswerNew, OwnPage
  <2>. QED
    BY <2>9, <2>10, <2>11, <2>12, <2>13 DEF IInv, ConsoleInv
<1>. QED
  BY <1>2, <1>3, <1>4 DEF Backend

(* onSuccess up to its await.  The call of a mounted page invalidates a    *)
(* key the cache has, so the answer on its way is dropped.                 *)
LEMMA SucceedStep == ASSUME IInv, NEW c \in calls, Succeed(c) PROVE IInv'
<1>. /\ TypeOK /\ SuccessShown /\ OwnInv /\ AnswerNew /\ OwnPage
     /\ OneCallPerPage /\ GuardedDialogStays /\ calls \subseteq Call
  BY DEF IInv, ConsoleInv, TypeOK
<1>1. /\ UNCHANGED <<effect, page, server, data, failed>> /\ mutation' = mutation /\ key' = key
      /\ dialog' \in {dialog, NoTarget}
      /\ ~c.own => dialog' = dialog
  BY DEF Succeed, mutation, key
<1>2. c \in Call /\ c.wrote \in Nat /\ c.wrote <= server /\ c.own \in BOOLEAN
  BY DEF Call, OwnInv
<1>3. server \in Nat /\ acked \in Nat /\ acked <= server
  BY DEF TypeOK
<1>4. acked' \in Nat /\ acked' <= server /\ (~c.own => acked' = acked)
  BY <1>2, <1>3 DEF Succeed
<1>5. \/ invalid' = TRUE /\ fetching' = (fetching \/ Mounted)
         /\ got' = (IF Mounted /\ data # NoData THEN NoData ELSE got)
      \/ key \notin mutation.invalidates /\ UNCHANGED <<invalid, fetching, got>>
  BY DEF Succeed, Invalidate
<1>6. fetching' \in BOOLEAN /\ invalid' \in BOOLEAN /\ got' \in {NoData, got}
  BY <1>5 DEF TypeOK
<1>. DEFINE rest == IF key \in mutation.invalidates THEN NoWaits(calls) ELSE calls
            n == [c EXCEPT !.phase = "refetching", !.waits = key \in mutation.invalidates /\ Mounted]
            done == IF c.own THEN {n} ELSE {}
            left == done \cup {d \in rest : d.id # c.id}
<1>7. calls' = IF dialog' # dialog THEN NoForms(left) ELSE left
  BY DEF Succeed
<1>8. n \in Call /\ n.target = c.target /\ n.wrote = c.wrote /\ n.own = c.own /\ n.phase = "refetching"
  <2>1. PICK b : b = [c EXCEPT !.phase = "refetching"]
    OBVIOUS
  <2>2. /\ b \in Call /\ b.target = c.target /\ b.wrote = c.wrote /\ b.own = c.own
        /\ b.phase = "refetching"
    BY <1>2, <2>1 DEF Call
  <2>3. PICK w \in BOOLEAN : w = (key \in mutation.invalidates /\ Mounted)
    OBVIOUS
  <2>4. n = [b EXCEPT !.waits = w]
    BY <2>1, <2>3
  <2>. HIDE DEF n
  <2>. QED
    BY <2>2, <2>4 DEF Call
<1>9. Copies(rest, calls)
  BY NoWaitsCopies, SameCopies
<1>. HIDE DEF rest, n
<1>10. /\ left \subseteq Call
       /\ \A d \in left : \/ c.own /\ d = n
                          \/ \E b \in calls : /\ d.target = b.target /\ d.wrote = b.wrote
                                              /\ d.phase = b.phase /\ d.own = b.own
  BY <1>8, <1>9 DEF Copies
<1>11. OneOwn(calls) => OneOwn(left)
  <2>. SUFFICES ASSUME OneOwn(calls), NEW d \in left, NEW e \in left, d.own, e.own PROVE d = e
    BY DEF OneOwn
  <2>1. OneOwn(rest)
    BY <1>9 DEF Copies
  <2>2. CASE c.own
    <3>1. ASSUME NEW f \in rest, f.own, f.id # c.id PROVE FALSE
      <4>1. key \in mutation.invalidates => \E b \in calls : f.id = b.id /\ f.own = b.own
        BY <3>1, NoWaitsIs DEF rest
      <4>2. \E b \in calls : f.id = b.id /\ b.own
        BY <3>1, <4>1 DEF rest
      <4>. QED
        BY <2>2, <3>1, <4>2 DEF OneOwn
    <3>. QED
      BY <3>1
  <2>3. CASE ~c.own
    BY <2>1, <2>3 DEF OneOwn
  <2>. QED
    BY <2>2, <2>3
<1>. HIDE DEF left
<1>12. /\ calls' \subseteq Call
       /\ \A d \in calls' : \/ /\ c.own /\ d.target = c.target /\ d.wrote = c.wrote
                               /\ d.own /\ d.phase = "refetching"
                            \/ \E b \in calls : /\ d.target = b.target /\ d.wrote = b.wrote
                                                /\ d.phase = b.phase /\ d.own = b.own
       /\ OneOwn(calls) => OneOwn(calls')
  <2>1. Copies(calls', left)
    BY <1>7, <1>10, SameCopies, NoFormsCopies
  <2>2. \A d \in left : \/ /\ c.own /\ d.target = c.target /\ d.wrote = c.wrote
                           /\ d.own /\ d.phase = "refetching"
                        \/ \E b \in calls : /\ d.target = b.target /\ d.wrote = b.wrote
                                            /\ d.phase = b.phase /\ d.own = b.own
    BY <1>8, <1>10
  <2>. QED
    BY <1>11, <2>1, <2>2 DEF Copies
<1>13. OneCallPerPage'
  BY <1>1, <1>12 DEF OneCallPerPage, OneOwn
<1>14. GuardedDialogStays'
  <2>. SUFFICES ASSUME mutation.dialog = "guarded", NEW d \in calls', d.own, d.phase # "refetching"
                PROVE  dialog' = d.target
    BY <1>1 DEF GuardedDialogStays
  <2>1. PICK b \in calls : d.target = b.target /\ d.phase = b.phase /\ d.own = b.own
    BY <1>12
  <2>2. CASE c.own
    <3>1. b = c
      BY <2>1, <2>2 DEF OneCallPerPage
    <3>2. \A f \in calls' : f.own => f.phase = "refetching"
      <4>1. n \in left /\ n.own
        BY <1>8, <2>2 DEF left
      <4>2. \A e \in left : e.own => e = n
        BY <1>11, <4>1 DEF OneOwn, OneCallPerPage
      <4>3. Copies(calls', left)
        BY <1>7, <1>10, SameCopies, NoFormsCopies
      <4>. QED
        BY <1>8, <4>2, <4>3 DEF Copies
    <3>. QED
      BY <3>2
  <2>3. CASE ~c.own
    BY <1>1, <2>1, <2>3 DEF GuardedDialogStays
  <2>. QED
    BY <2>2, <2>3
<1>15. OwnInv'
  BY <1>1, <1>12 DEF OwnInv
<1>16. TypeOK'
  BY <1>1, <1>3, <1>4, <1>6, <1>12 DEF TypeOK
<1>17. SuccessShown' /\ AnswerNew'
  <2>. SUFFICES ASSUME key \in mutation.invalidates \cap mutation.page.gates
                PROVE  /\ data = NoData \/ data >= acked' \/ (invalid' /\ (fetching' \/ failed'))
                       /\ got' = NoData \/ got' >= acked'
    BY <1>1 DEF SuccessShown, AnswerNew
  <2>1. CASE c.own
    <3>1. Mounted /\ data # NoData
      BY <2>1 DEF Mounted, OwnInv, OwnPage
    <3>2. invalid' = TRUE /\ fetching' = TRUE /\ got' = NoData
      BY <1>5, <3>1
    <3>. QED
      BY <3>2
  <2>2. CASE ~c.own
    <3>1. acked' = acked /\ invalid' = TRUE /\ (fetching => fetching') /\ got' \in {NoData, got}
      BY <1>4, <1>5, <1>6, <2>2
    <3>. QED
      BY <1>1, <3>1 DEF SuccessShown, AnswerNew
  <2>. QED
    BY <2>1, <2>2
<1>18. OwnPage'
  BY <1>1 DEF OwnPage
<1>. QED
  BY <1>13, <1>14, <1>15, <1>16, <1>17, <1>18 DEF IInv, ConsoleInv

(* A call ends: the page has no other one whose dialog it could close.     *)
LEMMA EndStep == ASSUME IInv, NEW c \in calls, Settle(c) \/ Fail(c) PROVE IInv'
<1>. /\ TypeOK /\ SuccessShown /\ OwnInv /\ AnswerNew /\ OwnPage
     /\ OneCallPerPage /\ GuardedDialogStays
  BY DEF IInv, ConsoleInv
<1>1. /\ UNCHANGED <<effect, page, server, data, fetching, got, invalid, failed, acked>>
      /\ mutation' = mutation /\ key' = key /\ calls' = calls \ {c}
      /\ dialog' \in {dialog, NoTarget} /\ (~c.own => dialog' = dialog)
  BY DEF Settle, Fail, queryVars, mutation, key
<1>2. GuardedDialogStays'
  BY <1>1 DEF GuardedDialogStays, OneCallPerPage
<1>3. TypeOK'
  BY <1>1 DEF TypeOK
<1>4. OneCallPerPage' /\ OwnInv'
  BY <1>1 DEF OneCallPerPage, OwnInv
<1>5. SuccessShown' /\ AnswerNew' /\ OwnPage'
  BY <1>1 DEF SuccessShown, AnswerNew, OwnPage
<1>. QED
  BY <1>2, <1>3, <1>4, <1>5 DEF IInv, ConsoleInv

LEMMA InitHolds == Init => IInv
<1>. SUFFICES ASSUME Init PROVE IInv
  OBVIOUS
<1>1. effect \in Effects /\ mutation.page \in Pages
  BY KindsAreEffects, EffectHasPage DEF Init, mutation
<1>2. OwnPage
  BY <1>1, GatesAreRead DEF OwnPage
<1>3. /\ calls = {} /\ dialog = NoTarget /\ server = 0 /\ data = NoData /\ got = NoData /\ acked = 0
      /\ fetching \in BOOLEAN /\ invalid = FALSE /\ failed = FALSE /\ page = mutation.page
  BY DEF Init
<1>4. TypeOK
  <2>1. server \in 0..MaxWrites /\ acked \in 0..server
    BY <1>3, BoundsAssumption
  <2>2. /\ data \in {NoData} \cup 0..server /\ got \in {NoData} \cup 0..server
        /\ calls \subseteq Call /\ invalid \in BOOLEAN /\ failed \in BOOLEAN
        /\ dialog \in Targets \cup {NoTarget} /\ page \in Pages
    BY <1>1, <1>3
  <2>. QED
    BY <1>1, <1>3, <2>1, <2>2 DEF TypeOK
<1>5. OneCallPerPage /\ GuardedDialogStays /\ OwnInv
  BY <1>3 DEF OneCallPerPage, GuardedDialogStays, OwnInv
<1>6. SuccessShown /\ AnswerNew
  BY <1>3 DEF SuccessShown, AnswerNew
<1>. QED
  BY <1>2, <1>4, <1>5, <1>6 DEF IInv, ConsoleInv

LEMMA StepHolds == IInv /\ [Next]_vars => IInv'
<1>. SUFFICES ASSUME IInv, [Next]_vars PROVE IInv'
  OBVIOUS
<1>1. CASE Operator
  BY <1>1, VisitStep, OpenStep, ConfirmStep, CloseStep, RefreshStep DEF Operator
<1>2. CASE Cache
  BY <1>2, CacheStep
<1>3. CASE Backend
  BY <1>3, BackendStep
<1>4. CASE Answers
  BY <1>4, SucceedStep, EndStep DEF Answers
<1>5. CASE UNCHANGED vars
  BY <1>5 DEF vars, queryVars, IInv, ConsoleInv, TypeOK, OneCallPerPage, GuardedDialogStays,
              SuccessShown, OwnInv, AnswerNew, OwnPage, mutation, key
<1>. QED
  BY <1>1, <1>2, <1>3, <1>4, <1>5 DEF Next

(* However dialogs are confirmed, closed and reopened under a call, and    *)
(* whatever is polled, refused or left meanwhile, a page has one call of   *)
(* its mutation and a guarded dialog stays open for it.                    *)
THEOREM DialogsKeepTheirCall == Spec => []ConsoleInv
<1>1. IInv => ConsoleInv
  BY DEF IInv
<1>. QED
  BY <1>1, InitHolds, StepHolds, PTL DEF Spec

(* After the success of its mutation a page that was loaded with an        *)
(* invalidated key shows the write, reads it again or shows an error: an   *)
(* answer that was read before the write never counts as the reading.      *)
THEOREM SuccessIsShown == Spec => []SuccessShown
<1>1. IInv => SuccessShown
  BY DEF IInv
<1>. QED
  BY <1>1, InitHolds, StepHolds, PTL DEF Spec
=============================================================================
