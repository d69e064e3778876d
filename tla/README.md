# Grouproxy: specifications, model checking and proofs

Grouproxy manages a fleet of HTTP proxy nodes. A **backend** (FastAPI, MongoDB)
holds the configuration, turns it into signed bundles and collects telemetry. A
**monitor** (Go) on every node polls the backend, puts the bundle into sing-box
and nftables, watches it for a health window, rolls back if it fails and
acknowledges the result. A **dashboard** (Next.js) drives the backend.

The modules in this directory are TLA+ translations of that code. TLC checks
them on small instances; TLAPS proves the theorems for every instance.
`PROJECT.json` holds the machine-readable side: which definition stands for
which lines, the runs, the mutants that show each property can fail, the
findings, the hazards and the theorems.

    tlc -workers 2 -config MCRolloutFleet.cfg MCRollout
    tlapm RolloutProofs.tla

## 1. Inventory

| Component | State it keeps | Operations | What is hard about it |
|---|---|---|---|
| Release pipeline (`backend/main.py`, `services/bundles.py`) | `ConfigDraft`, `DesiredRelease`, `ConfigRelease`, `Site.config_revision`, the `config.publish` task | create a release from a draft, publish, roll back | many awaits between look-up and insert; no unique index; requests die half-way |
| Agent API (`backend/main.py`) | `Node`, `AgentAckDocument`, the release status | desired, ack, heartbeat, blobs | late, lost, repeated and concurrent acks |
| Monitor core (`monitor/cmd/monitor/main.go`) | `agent.state`, `monitor-state.json`, five last-good files | sync, applyBundle, rollback, restoreLastGood, heartbeat | a crash or a full disk between any two writes |
| Process manager, nftables (`monitor/internal/runtime`, `internal/firewall`) | the sing-box child, `activePath`, the nft table | Apply, Close, Health | a start that fails after the old process was stopped |
| Task queue, refresh worker (`services/tasks.py`, `subscription_worker.py`) | `Task` | enqueue, claim, heartbeat, complete, fail, reclaim, cancel | whole-document saves of stale copies; leases; several backends |
| Telemetry (`main.go` spool, `_accept_telemetry_batch`) | spool files, sequence, `TelemetryCursor`, `TelemetryBatch` | enqueue, trim, replay, accept, purge | replay, repetition, sequence restart, size limit |
| Probes (`services/probes.py`) | `ProbeCircuit`, probe tasks | schedule, claim, record | automatic and manual probes share one circuit |
| Alerts, liveness (`services/alerts.py`) | `Alert`, node status | set, resolve, refresh_liveness | stale node saves |
| Audit (`services/audit.py`) | hash chain, chain head | append, verify | concurrent appends; expiry of old entries |
| Accounts (`services/auth.py`, `gquan.py`) | users, sessions, verification codes | register, login, logout, change password and role | check-then-act on codes and sessions |
| Access control (`backend/main.py`, `cidr.py`) | groups, rules, source blacklist | create, update, delete, distribute | a rule is stored before its release is accepted |
| Subscriptions (`services/subscriptions.py`) | sources, versions, site bindings | refresh, upload, publish, roll back | several sites in one publication |
| Backups (`services/backups.py`, `backup_worker.py`) | backup files, restore tasks | create, retain, restore | a restore replaces collections one by one |
| Connection archive, rate limiter, routing policy | archive files, counters, site policy | archive, admit, update | boundaries |
| Dashboard: session, login (`lib/api.ts`, `session-gate.tsx`, `app-shell.tsx`, `login/page.tsx`) | token in localStorage, form state, challenge | sign in and out, send and submit a code | calls of older sessions still in flight, several tabs, fields edited while a call is out |
| Dashboard: query cache and pages (`providers.tsx`, `ui.tsx`, 19 pages) | cached answers by key, dialogs, mutations | fetch, poll, invalidate, confirm | an answer older than a write; dialogs closed and reopened under a call |
| Dashboard: pages with logic of their own (subscriptions, routing, probes, connections, outbound services, overview, service quality, settings) | selection, editor, offset, followed task | select, edit, import, save, publish, page, follow | data of another key stands in (`keepPreviousData`); effects that run on every answer |
| Dashboard: notices (`toast.tsx`) | queue, list on the screen | notify, show, close | limits of five in two places |
| Dashboard: texts and formats; deployment scripts | locale, theme | translate, format; install, upgrade | - |

Interactions: the dashboard and the monitors call the backend over HTTP; the
backend never calls a monitor. The backend's request handlers and workers share
nothing but MongoDB, so every `await` on it is a point where another handler
may run. In the monitor, polling, heartbeats and telemetry share one goroutine;
what can interleave with it is a crash and a probe, which has its own goroutine
and spools its results itself. A page of the dashboard is one thread, but every
call it makes is answered later, when the operator may have edited the form,
closed the dialog, selected something else or left; pages share the query cache,
and tabs share the stored session.

What makes the parts correct: a release that the control plane calls succeeded
is in force on every node (SucceededMeansApplied); a node never goes back
(AppliedNeverRegresses, BundleNeverOlder); a node that fails falls back to
something that worked (LastGoodProven, KeepsLastGood, RollbackRestoresPolicy);
everything settles (NodesConverge, Converges, TasksFinish); the queue never
blocks a source nor runs it without end (ActiveMatchesStatus, AttemptsBounded);
telemetry is neither lost nor counted twice (NoBatchLost, RetriesStoreOnce) and
does not fill the disk (SpoolBounded). On the dashboard: what the operator
confirmed is what happens, to the object that was shown (SelectionNotCarried,
SaveReplacesShown, ReleasesShownPolicy, EditsKept, NoUnseenRelease,
RetriesReleaseOnce, AcceptedOwnCode); what a page shows after a write is the
write (SuccessShown, PolledPagesCatchUp, AddedSourceShown) and fits its filters
(RowsFitFilters, NextSkipsNothing); nothing is left of a session that ended
(SignOutForgets) and nothing live is thrown away (LiveSessionKept); ends and
warnings are announced (ProbeAnnounced, AnnouncedOnce, WarningAnnounced,
DriftAnnounced, RecentKept), and buttons come back (BusyEnds, ButtonComesBack).

## 2. Modules

| Module | Models | Extends |
|---|---|---|
| `Fleet` | names shared by backend and monitors: bundles and acks | |
| `ControlPlane` | `_create_release_from_draft`, `create_desired_release`, `agent_desired`, `agent_ack`, `agent_heartbeat` | Fleet |
| `NodeAgent` | a monitor as the control plane sees it: the state in memory and on disk | Fleet |
| `Rollout` | both, with a network that loses, delays, reorders and repeats acks | ControlPlane, NodeAgent |
| `MonitorApply` | `applyBundle`, `rollback`, `restoreLastGood`, `runtime.Manager`, nftables; shown to implement `NodeAgent` | |
| `TaskQueue` | `tasks.py`, `subscription_worker.py`, `cancel_task` | |
| `Telemetry` | `nextTelemetrySequence`, `enqueueSpool`, `trimSpool`, `replaySpool`, `collectLogs`, the end of `executeProbe`, `_accept_telemetry_batch` | |
| `Session` | the stored session, its expiry, redirects, 401 and 403 answers, sign-in and sign-out, in several tabs | |
| `LoginForm` | the login page; `request_verification_code`, `consume_verification_code` and what they allow | |
| `ConsolePages` | a table: each page's queries, polls and gates, each mutation's dialog, effects and invalidations | |
| `Console` | one query key and one mutation of that table at a time: cache, fetches, dialogs, calls | ConsolePages |
| `SubscriptionPublish` | the subscriptions page, listing, adding and publishing | |
| `RoutingEditor` | the routing page with import, save and release, and their handlers | |
| `TaskFollow` | the probes page and the refresh button, `create_node_probe`, `enqueue_refresh_task` | |
| `ConnectionHistory` | the history view of the connections page, `list_connection_history` | |
| `ProxySelection` | the outbound services page, `select_node_proxy` | |
| `Toasts` | `toast.tsx` and the drift notice of the overview | Ranks |
| `Overview` | traffic series and state of a site | Ranks |
| `Ranks` | a finite set of numbers as a sequence in order: the filter of the toasts, the sort of the minutes | |
| `ServiceQuality` | status, colour and order of outbounds; the boundaries of the settings page | |
| `RolloutProofs`, `MonitorProofs`, `TelemetryProofs`, `SessionProofs`, `ConsoleProofs`, `RoutingProofs` | theorems about the module of that name | Rollout, MonitorApply, Telemetry, Session, Console, RoutingEditor |
| `TaskProofs` | theorems about the two sides of a task | TaskQueue, TaskFollow |
| `PagesProofs` | theorems about seven parts of the dashboard | SubscriptionPublish, ProxySelection, LoginForm, ServiceQuality, ConnectionHistory, Toasts, Overview |
| `MCRollout`, `MCTaskQueue`, `MCRouting`, `MCPages` | instances for TLC | |

**ControlPlane.** `request[r]` is the local state of one POST /config/releases
call, which moves through `Admit` (idempotency and active-release checks),
`ComputeVersion`, `SetRevision`, `InsertDesired` (one per node), `CreateTask`,
`InsertRelease`; between any two another request may run, and `AbortRequest`
ends one that raises. `handler` holds agent_ack calls between their awaits:
`StoreAck` inserts the ack and saves the node record, `ReadAcks` computes the
verdict, `SaveVerdict` saves it. `LatestFor` may hold several documents of equal
version; which one MongoDB returns is an unspecified but fixed choice. A bundle
hash is the identity of the bundle (release, node, version).

**NodeAgent.** `mem` is `agent.state`, `disk` is `monitor-state.json`, `pending`
is the bundle that sync received. The sequence number counts acks only:
heartbeats and telemetry take numbers of the same counter, which only leaves
gaps.

**MonitorApply.** `pc` names the place in applyBundle, rollback or
restoreLastGood. The files of the state directory are variables; a sing-box
configuration is the pair of the bundle its outbounds come from and the bundle
whose policy it enforces, which is exactly what `ensureLastGoodConfig` can mix.
`ApplyOutcomes` and `FirewallOutcomes` list how `Manager.Apply` and the
firewall restore can end and how many faults each ending costs. `View` maps the
state to NodeAgent's; `ImplementsAgent` says that applying, rolling back and
rebooting are invisible except for the steps that NodeAgent allows.

**TaskQueue.** `task` is the collection; workers and cancel requests carry the
copy of the document they read (`held`, `batch`, `cancel[t].doc`) and `Save`
overwrites with it. `IndexAllows` is the partial unique index. Time is two
predicates: `due` (next_run_at) and `lease`. `Die` is what the missing import
of `logging` does to every unexpected exception.

**Telemetry.** Two actors, the main loop and the probe goroutine, number their
batches, send them and spool what fails; `EnqueueSpool` is three steps (trim,
check, write) because the other actor may write in between. `handler` holds the
ingestion calls, split at every await of `_accept_telemetry_batch`; `since` is 0
while the sender waits and otherwise tells apart the calls it gave up on. Batches
have one size, so the limit is a number of batches. `overlapped` and `happened`
are history: they say which of the conditions of NoBatchLost and
RetriesStoreOnce still hold.

**Session.** `stored` is the token in localStorage, which all tabs share;
`path`, `shell` and `cache` are a tab's. A call keeps the token it was sent with
and `dropped` once whoever asked for it is gone. `Redirect` is
redirectForAuthenticationFailure, `Verdict` what require_authenticated and
require_management answer.

**LoginForm.** Two forms (login and the account dialog) with the fields that
decide something, `handlers` for the calls under way, `challenges` for the
collection. `LookUp`, `InsertChallenge` and `Deliver` are the awaits of
request_verification_code, `ReadChallenge` and `SaveChallenge` those of
consume_verification_code, whose save writes the copy it read. Time is two
flags of a challenge, `waiting` (resend) and `valid`.

**ConsolePages, Console.** ConsolePages is read off the pages: the query keys,
which of them are polled, which of them must be loaded before anything is
shown (`gates`), and for every mutation its page, its kind of dialog, what it
changes on the server and which keys it invalidates. Console runs one pair of
key and mutation of that table, chosen initially. `server` is the number of
writes, `data` the number that the cached answer contains, `got` what a fetch in
flight has read. `Invalidate` drops that fetch and starts another, as TanStack
Query does for a key that has data. Pairs that differ in names only behave
alike, so one of each kind is examined (`Kinds`).

**SubscriptionPublish.** The catalogue the page holds is a prefix of what the
server has, so that it is two numbers. `Rendered` is what the page's effects do
after every render. `picked` and `added` are history: what the operator ticked
for this version in this opening of the dialog, and the last source added.

**RoutingEditor.** A document is site, revision and policy; the page shows
`Shown`, which is the previous site's while the selected one is being fetched
for the first time. The editor is remounted when its key (site, revision)
changes. `wanted` is history: the policy the operator's edits add up to.

**TaskFollow.** `requests` are calls that create a task, between the statements
of the handler (look up, insert against the unique index, look again). The end
of a task is one step here; TaskQueue has its details.

**ConnectionHistory.** Snapshots are numbered by age; `cache` has an answer per
key, `Count` and `Rows` are the two reads of the handler; a page is told by the
rank of its rows among those that pass the filters, newest first. `seen` is history.

**ProxySelection.** Releases are a sequence and a version is a position in it;
`nodeVersion` is Node.desired_version, which follows heartbeats and acks.
`configsShown` and the version a node was shown with are what the page read last.

**Toasts, Overview, ServiceQuality.** Small state machines around pure
functions (`Queue`, `buildSiteTrafficSeries`, `siteState`, `compareValues`,
`qualityStatus`, `latencyBand`); a time is cut into minutes of `Minute` units. The
loops of the code (`ShowAll` over the pending toasts, `KeepAll` over the answer)
are recursive functions of how far the loop has come.

Operators named `Bug_...` are plausible faults. They are not part of any
specification; each replaces one definition to show that a property notices.

## 3. What the runs show

| Run | Instance | Shows |
|---|---|---|
| rollout_fleet | 2 nodes, 1 release, 2 faults | SucceededMeansApplied; the inductive invariant |
| rollout_race | 1 node, 2 overlapping requests with one key, a policy edit, 1 fault, fair | BundleNeverOlder, ReleaseHasBundles, AppliedNeverRegresses; NodesConverge, NodeDocConverges |
| monitor_apply | 3 bundles, 3 faults, fair | MonitorInv (LastGoodProven, KeepsLastGood), RollbackRestoresPolicy, ImplementsAgent; Converges |
| task_queue | 2 tasks of one source, 1 worker, 1 cancellation, 2 faults, fair | ActiveMatchesStatus, AttemptsBounded; TasksFinish |
| telemetry_spool | 3 batches of logs and probes, room for 1, 2 outages, deaths or full disks, fair | SpoolInv (SpoolBounded); SpoolDrains |
| telemetry_restart | 4 batches of logs, room for 2, 2 faults of any kind | NoBatchLost, RetriesStoreOnce |
| session | 2 tabs, 2 sign-ins (the second of an employee), 2 calls at a time | SessionInv (SignOutForgets); LiveSessionKept |
| console | every mutation with every key, 2 objects, 2 writes, 2 calls, fair | ConsoleInv (OneCallPerPage, GuardedDialogStays), SuccessShown; PolledPagesCatchUp, BusyEnds |
| routing | 2 sites, 2 saves in all, another operator, 1 save or release at a time | EditorInv (EditsKept, EditorsOwnSite), ReleasesShownPolicy; SaveReplacesShown |
| task_follow | 2 nodes, 1 source, 2 tasks, 2 requests at a time, fair | FollowInv (OneActiveTask, LockHasCall, AnnouncedOnce); ProbeAnnounced, ButtonComesBack |
| pages | seven parts that share no state; a behaviour moves one of them, so their states add up | see below |
| publish_targets | 2 sources, 2 sites | **violated** TargetsChosen |

An invariant named `...Inv` is the conjunction of the module's type invariant and
the named parts in parentheses. The parts that pages checks:

| Invariant | Part | Says |
|---|---|---|
| SelectionNotCarried | | a publication names only sites ticked for its version in this opening of the dialog |
| PageInv | AddedSourceShown | a source just added is the one shown once it is listed |
| HistoryInv | NextSkipsNothing, RowsFitFilters | pages by offset skip nothing while snapshots come and go; at rest the rows fit the filters |
| NoticeInv | RecentKept, ShownOnceInOrder, DriftAnnounced | the last five notices are not lost, repeated or reordered; every drift is announced |
| OverviewInv | SeriesCountsLatest, WorstNodeShows | the traffic series does not depend on the order of the reports; no good node hides a bad one |
| QualityInv | StatusMatchesBand, RankingIsOrder | badge and colour agree; the comparison is an order, with missing values and ties |
| LoginInv | ChallengeFitsDialog, AcceptedOwnCode, SingleUse | a code serves the IT code and purpose it was sent for, once |
| PanelInv | BadgeFitsList, WarningAnnounced | badge and filtered list agree; the warning of the shown snapshot was announced |
| SelectionInv | NoUnseenRelease, RetriesReleaseOnce | a selection replaces no release it has not seen; a retry makes no second one |

publish_targets: the operator ticks a site, continues to the confirmation, and a
refetch replaces the version the page shows. The effect that must not carry a
selection over empties it under the open confirmation, Confirm sends no sites,
and the backend takes an empty list as all sites. The comment at
`subscriptions/page.tsx:209` says "Site targets are an explicit operator choice".

The models also contain behaviours that no property forbids, because nothing in
the repository promises otherwise. Properties that look weaker than expected are
so because of them.

- *Rollout.* Two releases for one idempotency key and two bundles of the same
  version for one node. A success ack is sent once (`main.go:1925`): when it is
  lost, the release stays `applying` and blocks the site (`main.py:3331`).
  Overlapping agent_ack handlers save their verdicts in any order
  (`main.py:5025`).
- *MonitorApply.* Files of the next bundle beside a state that still names the
  last one; a rollback after an interrupted commit that runs a mixture of two
  bundles and reports rollback_ok (`main.go:1791`); a rollback that falls back
  to the failed candidate through `activePath`.
- *TaskQueue.* Two backends that run the same reclaimed task; a cancellation
  overwritten by the worker's older copy (`tasks.py:140`); a worker ended by the
  missing import of `logging` (`subscription_worker.py:100`).
- *Telemetry.* Replaying an older batch purges the marker of a newer one
  (`main.py:1434`); a probe batch answered as a duplicate because two calls
  raced for the first cursor; a batch lost because the backend died after the
  cursor moved; a deny batch evicted to make room for a sampled one.
- *Session.* A late 401 of an older token clears a newer session. After another
  tab's sign-out a console tab keeps what it has cached until a query fails; a
  logout that fails leaves the server's session active.
- *Console.* When the page is left before the answer, an in-flight fetch may
  store what it read before the write. Form dialogs can have two calls, and a
  late success closes another editor. Saving a group does not invalidate
  `access-control`; the audit page is neither polled nor invalidated. A refetch
  of the settings overwrites edits.
- *RoutingEditor.* Two sites of equal revision share an editor, which then keeps
  the other site's policy; a save during a stand-in goes to the site whose
  document it is; an older fetch may overwrite the answer of a save.
- *TaskFollow.* Selecting another node while a probe is being started leaves
  that node following the first one's task; selecting another node after the end
  repeats the notice when the first is selected again.
- *ConnectionHistory.* Next may be disabled one page early when the count is
  older than the rows; the offset may lie beyond the total after expiry.
- *LoginForm.* An IT code edited while its code is sent stands beside the
  challenge of the old one, and the submission is refused. After a submission
  that the page gave up, two handlers may both accept a challenge, although
  `models.py:68` calls it single-use. Two requests can pass the rate limit
  together; a registration can consume the code and then be refused.
- *ProxySelection.* The page sends the node's version and the backend compares
  it with the site's latest one, so after a release for one node a selection on
  another is refused until that node has caught up with a release of its own. An
  old idempotency key is answered with its old release although another outbound
  was selected since. Endpoints in state "attention" match no filter.
- *ServiceQuality, Overview.* Descending order puts unmeasured outbounds first;
  a site in "attention" has the badge of a warning and the colour of a danger.

**Bounds.** `MaxFaults` limits failures in a behaviour, not where they fall: two
faults reach every pair of a failure and a second one during its repair, and
the mixtures of MonitorApply need two, so it has three. Two releases are enough
for every race of two requests; three bundles let a mixture of two meet a
third. The purge in the collision branch of ingestion needs four batches, and an
excess of the spool that could add up needs three. `MaxRevision` bounds policy edits, `MaxRetries` is the code's own
`max_retries`. On the dashboard a race needs a call in flight and a second
event, which is a second call, another operator or an answer of an earlier
fetch: two calls, two objects (or sites, nodes, tabs) and two writes reach it,
and three sources or versions are needed for one to be replaced while another is
chosen. Pages of one row and a list of four snapshots let an offset point
before, at and past the end; six notices overflow a list of five. Deadlock is
checked wherever the system cannot stop; the queue may, because a dead worker is
not restarted, and the parts of MCPages stop at their bounds.

**Fairness.** Weak fairness of a monitor's polls, commits and heartbeats (two
tickers in one loop), of the steps of a request or handler that has started (the
event loop), of delivery of an ack that is not lost, of the worker loop, of the
restart of a backend (systemd `Restart=`), of the end of an outage, and of time.
On the dashboard, weak fairness of polls (`refetchInterval` and the loop of
waitForRefreshTask), of the answer to a call, good or bad (a call ends or the
browser ends it), and of the end of a task (TasksFinish); strong fairness of a
read that is served and answered, since a poll repeats after a failure and the
server is assumed not to fail it every time. Faults, rejections, cancellations,
operators and new requests are never fair, and the fault budget makes faults
finite.

## 4. What is proved

Every safety property that a passing run checks, invariant or action property,
is a theorem for all values of the constants. So is the refinement: MonitorApply
implements NodeAgent.

| Module | Theorem | States |
|---|---|---|
| RolloutProofs | RolloutTypeCorrect, RolloutInvariant | TypeOK, IInv |
| | SucceededReleaseIsApplied, BundlesAreNeverOlder, ReleasesHaveBundles | SucceededMeansApplied, BundleNeverOlder, ReleaseHasBundles |
| | AppliedIsMonotonic | AppliedNeverRegresses (action) |
| MonitorProofs | MonitorTypeCorrect, LastGoodIsKept | TypeOK, MonitorInv |
| | RollbackAckIsTrue | RollbackRestoresPolicy (action) |
| | MonitorImplementsAgent | ImplementsAgent (refinement) |
| TaskProofs | TaskQueueTypeCorrect, ActiveAlwaysMatches, AttemptsAreBounded | TypeOK, ActiveMatchesStatus, AttemptsBounded |
| | FollowedOnce | FollowInv |
| TelemetryProofs | SpoolIsBounded, NoBatchIsLost, RetriesAreStoredOnce | SpoolInv, NoBatchLost, RetriesStoreOnce |
| SessionProofs | SignOutIsForgotten | SessionInv |
| | LiveSessionIsKept | LiveSessionKept (action) |
| ConsoleProofs | DialogsKeepTheirCall, SuccessIsShown | ConsoleInv, SuccessShown |
| RoutingProofs | EditorHoldsEdits, ReleasesAreShown | EditorInv, ReleasesShownPolicy |
| | SavesReplaceShown | SaveReplacesShown (action) |
| PagesProofs | SelectionIsNeverCarried, PageShowsAdded | SelectionNotCarried, PageInv |
| | SelectionsReleaseOnce, PanelTellsTruth | SelectionInv, PanelInv |
| | CodesServeOnce | LoginInv |
| | QualityIsConsistent | QualityInv |
| | HistorySkipsNothing | HistoryInv |
| | NoticesAreKept | NoticeInv |
| | OverviewShowsLatestAndWorst | OverviewInv |

**Assumptions.** Only those on the constants, each an ASSUME that TLC evaluates
on every run: names that stand for nothing are none of the things
(`NoReleaseAssumption`, `TargetAssumption`, `NamesAssumption`,
`TargetsAssumption`), bounds are natural numbers (`BoundsAssumption`,
`MaxFaultsAssumption`, `MaxRetriesAssumption`, `MaxRevisionAssumption`,
`ToastAssumption`, `HistoryAssumption` with a page of at least one row), sets of
inputs contain inputs (`KeyOfAssumption`, `CancellableAssumption`,
`OutcomesAssumption`, `OtherPoliciesAssumption`, `DeployableAssumption`,
`ProxyAssumption`, `LoginAssumption`, `QualityAssumption`, `OverviewAssumption`
with a minute of at least one unit), and what is counted is
finite (`WorkerAssumption`, `SitesAssumption`, the outbounds of
`QualityAssumption`).

**Why the invariants had to be strengthened.**

- *Rollout.* A verdict is saved long after the acks were read. `IInv` says of
  each stage what the next needs: bundles carry the version their request
  computed (BundlesOfRequests), a stored release is that of a finished request
  (ReleasesOfRequests), a monitor's memory, disk and pending bundle were desired
  and are ordered (MonitorsFollow), and a positive ack in flight, stored or
  already turned into a verdict is covered by the node's disk (AcksAreTrue). The
  last part rests on applyBundle saving the state before it sends the ack, and on
  disk versions never going down.
- *MonitorApply.* KeepsLastGood is about the moment after a failure; what the
  rollback finds depends on every write before it. `CleanInv` says, place by
  place, which bundle is in sing-box, in nftables and in each file as long as
  nothing but the bundle at hand failed. `ProvenInv` adds that files are written
  from a candidate only after its window, and `RollbackInv` what rollback has
  restored so far, which is what its ack reports. For the refinement,
  `CandidateInv` says that a candidate was desired and is no older than the
  applied bundle; each step is then a step of NodeAgent or a stutter.
- *TaskQueue.* ActiveMatchesStatus must also hold of every copy that somebody may
  still save (`Agrees` of tasks, cancel copies, batches and held copies).
  AttemptsBounded needs the same of retry_count: with one backend, the attempts of
  a task are at most the retries in its document, plus one for the execution that
  holds it, and no older copy can be saved (`TriedInv`).
- *TaskFollow.* A second call may join the task that is followed already, so an
  answer can bring a task whose end was announced. `AnnouncedInv` says that it
  then finds that task completed and polled to its end.
- *Telemetry.* SpoolBounded counts an actor that has found room and has not
  written yet as written (`SpoolLimit`). For NoBatchLost, a cursor stands at a
  batch that was stored or is about to be (`CursorInv`), a marker names such a
  batch (`MarkerInv`), and a handler that is alone with its kind finds cursor and
  markers as it left them (`PlaceInv`). RetriesStoreOnce adds that sequences,
  cursors and batches are in one order (`OrderInv`), and that a batch is stored with
  its marker in place or its first call is under way, ahead of the cursor (`CalmInv`).
- *Session.* A sign-out forgets only if no query under way can still fill the
  cache (`ForgetInv`), and a session that a login was answered with is in no other
  place until the answer is taken (`FreshInv`).
- *Console.* That an answer read before the write does not count rests on what a
  call of the page implies: the page is mounted and was loaded with the key, so
  the cache has data, and the invalidation drops whatever fetch is in progress
  (`OwnInv`, `AnswerNew`). The table is used through two lemmas that are proved by
  going through it: every page reads its gates (GatesAreRead), every mutation has
  a page (MutationsHavePages).
- *RoutingEditor.* A document that anybody holds (cache, answer, call) is no newer
  than the stored one and equal to it if the revisions are equal
  (`DocumentsKnown`): the check of the revision is a check of the document.
- *SubscriptionPublish.* The call takes the selection of the page as it is at that
  moment, so `TickedInv` says of every moment that the page has no more sites
  selected than were ticked since the dialog was opened. AddedSourceShown needs
  that the added source stays the selected one (`AddedInv`). TargetsChosen, which
  publish_targets refutes, does not follow: an empty selection satisfies
  SelectionNotCarried.
- *ProxySelection.* A node's version is of a release that covers the node
  (`CoveredInv`); the key of the last warning is that of the snapshot on the
  screen (`WarningInv`).
- *LoginForm.* A form is busy exactly while one call of it is awaited
  (`OneAwaited`, `CallsOk`); a challenge that was used is consumed and no handler
  holds a copy from before, unless the page gave up (`UsedInv`).
- *ServiceQuality.* An outbound whose last sample succeeded has an average
  (`RowsInv`). The comparison is shown antisymmetric and transitive; a strict
  order of n rows is an injection into 0..n-1, hence a bijection.
- *ConnectionHistory.* That the last page has skipped nothing is a claim about the
  whole walk. `WalkInv` splits it over the pages: whenever a page is asked for, the
  old snapshots of a rank up to its offset were shown (`EarlierShown`), and each
  cached answer holds the old snapshots of its own page that were not
  (`FaithfulAnswer`). Both survive arrivals and expiry because the rank of a stored
  snapshot never falls: newer ones come before it, and only older ones go
  (RanksOnlyGrow). A count that is still exact is that of the collection
  (`FreshCount`); it is what disables Next.
- *Toasts.* `NoticesInv` has the shown and the waiting notices apart
  (`InOrderUpTo`): each list is in order, the shown ones come first, and together
  they lack of the last five only closed ones. In an increasing sequence the
  element d places before the end is at least d smaller (GapsAdd), so that cutting
  the list to five drops none of the last five numbers. The loop that hands the
  waiting notices over equals one cut of the two lists in a row (ShowAllIsLast).
- *Overview.* The type invariant suffices, the rest is about the functions. The
  loop has kept after each snapshot the latest readings so far, and every reading
  has one of its node and minute there that is not older (`Dominated`), which is
  what makes comparing with the kept one as good as comparing with all
  (KeepAllIsLatest). `Total` is not looked into: the series and the definition
  add up the same set of readings.

Loops are shown equal to a closed form by the least counterexample: the closed
form satisfies the recursion, so there is a solution, and a second solution
would differ at a least place.

**Written so that they can be proved about.** `Pick` (the spool files that are
kept or evicted, in their order) and `Writes` (stored revisions) are explicit
functions and cardinalities instead of library folds; `samples` in ServiceQuality
counts what was measured; TaskFollow's specification is `FollowSpec` so that it
can stand beside TaskQueue's in one proof module. `Ascending` (Ranks) and `Rank`
(ConnectionHistory) say by cardinalities what a sort would return, `KeepAll` and
`ShowAll` are recursive functions instead of folds, and `Put` extends a cache by a
key without the operators of TLC.

**Only model-checked.** Liveness and fairness (NodesConverge, NodeDocConverges,
Converges, TasksFinish, SpoolDrains, PolledPagesCatchUp, BusyEnds, ProbeAnnounced,
ButtonComesBack), which are out of the prover's reach, and what the library's
`MapThenSumSet` returns, which needs induction over a set.

## 5. Not modelled

- `repair_stale_proxy_selection` in `agent_desired`, which rewrites the newest
  bundle of a node in place.
- Contents: canonical JSON, hashes and signatures, rendering of sing-box and nft
  configurations, subscription parsing, CIDR arithmetic. They decide *whether*
  a step succeeds, which the models leave open.
- Telemetry: parsing of log lines, the log offset (a crash before it is saved
  collects lines again under a new batch), files of unequal size, connections
  and proxy_config, which use the same code with cursors of their own.
- Heartbeats that are delayed or reordered; `-once` mode; firewall mode other
  than `apply`; migrations of retired policies and of the database.
- Dashboard: `lib/preferences.tsx` (a catalogue of translations; its mount
  effects write the default locale over the saved one until the next render),
  formatters, topology drawing, layout, the access page, clipboard, the detail
  dialogs that only read, and the scripts under `frontend/scripts`. Of TanStack
  Query only what the pages use is modelled, as external definitions.
- Backend: probes and circuit breaker, alerts and liveness, the audit chain,
  access control, backups and restore, the connection archive, the rate limiter;
  for subscriptions the bindings and releases of each site.
- Deployment scripts.

## 6. Plan

Done: Fleet, ControlPlane, NodeAgent, Rollout, MonitorApply as a refinement of
NodeAgent, TaskQueue, Telemetry, the dashboard with the handlers it races (Session
to ServiceQuality), and the proofs of section 4. Next, in order:

1. Audit chain, probes and circuit breaker, alerts and liveness.
2. Access-control distribution, the sites of a publication, backups and restore,
   connection archive.
