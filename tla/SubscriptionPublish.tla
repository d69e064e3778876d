------------------------ MODULE SubscriptionPublish ------------------------
(***************************************************************************)
(* The subscriptions page (app/subscriptions/page.tsx): which source and   *)
(* version it shows, adding a source, and publishing a version to sites.   *)
(*                                                                         *)
(* The page keeps the ids the operator selected and resolves them in the   *)
(* cached catalogue each time it renders.  The catalogue changes under     *)
(* open dialogs: the page polls it and reads it again after mutations.     *)
(*                                                                         *)
(* Sources and versions are numbered by creation and never deleted, so a   *)
(* catalogue is how many of each the backend had when it was read.  One    *)
(* reading is under way at a time and an invalidation drops it, hence no   *)
(* reading is older than the one before: reading is a single step here.    *)
(* A reading that fails leaves the state alone.                            *)
(***************************************************************************)
EXTENDS Naturals, FiniteSets

CONSTANTS
    Sites,
    Deployable,   \* the sites that have an edge node
    Unparsed,     \* the versions that could not be parsed
    Listed,       \* versions in a catalogue, 500 in the code
    MaxSources,   \* bound: sources created
    MaxVersions   \* bound: versions created

ASSUME BoundsAssumption ==
    Listed \in Nat \ {0} /\ MaxSources \in Nat \ {0} /\ MaxVersions \in Nat \ {0}
ASSUME DeployableAssumption == Deployable \subseteq Sites

VARIABLES
    refreshable,  \* backend: for every source, whether a worker refreshes it
    origin,       \* backend: for every version, its source
    published,    \* backend: the last publication, a version and where it went
    catalog,      \* the cached catalogue
    form,         \* the Add source dialog is open
    adding,       \* the call that adds a source
    selectedSourceId,
    selectedVersionId,
    selectedSiteIds,
    previousVersionId,
    publishTarget,
    confirmTarget,
    publishing,   \* the call that publishes
    picked,       \* history: the sites ticked since the dialog was opened
    added         \* history: the source added last, unless another was chosen

backend == <<refreshable, origin, published>>
selection == <<selectedSourceId, selectedVersionId, selectedSiteIds, previousVersionId>>
dialogs == <<form, publishTarget, confirmTarget>>
vars == <<backend, catalog, adding, selection, dialogs, publishing, picked, added>>

None == 0
Sources == 1..MaxSources
Versions == 1..MaxVersions

NoCall == [phase |-> "none"]

AddCall == [phase : {"sent"}, kind : {"http", "import"}]
           \cup [phase : {"applied"}, source : Sources, version : {None} \cup Versions]

PublishCall == [phase : {"sent", "applied", "refetching"}, version : Versions,
                sites : SUBSET Sites, picked : SUBSET Sites]

TypeOK ==
    /\ \E n \in 0..MaxSources : refreshable \in [1..n -> BOOLEAN]
    /\ \E n \in 0..MaxVersions : origin \in [1..n -> DOMAIN refreshable]
    /\ published \in {NoCall} \cup [version : DOMAIN origin, sites : SUBSET Sites,
                                    picked : SUBSET Sites]
    /\ catalog \in [sources : {0} \cup DOMAIN refreshable, versions : {0} \cup DOMAIN origin]
    /\ form \in BOOLEAN
    /\ adding \in {NoCall} \cup AddCall
    /\ selectedSourceId \in {None} \cup DOMAIN refreshable
    /\ selectedVersionId \in {None} \cup DOMAIN origin
    /\ previousVersionId \in {None} \cup DOMAIN origin
    /\ {publishTarget, confirmTarget} \subseteq {None} \cup DOMAIN origin
    /\ selectedSiteIds \subseteq Deployable
    /\ publishing \in {NoCall} \cup PublishCall
    /\ picked \subseteq Deployable
    /\ added \in {None} \cup Sources

Size(f) == Cardinality(DOMAIN f)
Extend(f, x) == [i \in 1..(Size(f) + 1) |-> IF i \in DOMAIN f THEN f[i] ELSE x]

-----------------------------------------------------------------------------
(* What the page shows                                                     *)

(* currentSource: the selected one, or the newest while that is not listed *)
SourceIn(c, s) == IF s \in 1..c.sources THEN s ELSE c.sources

(* currentVersions: the source's versions among those listed               *)
VersionsIn(c, s) ==
    {v \in 1..c.versions : v + Listed > c.versions /\ s # None /\ origin[v] = s}

Newest(vs) == IF vs = {} THEN None ELSE CHOOSE v \in vs : \A w \in vs : w <= v

(* currentVersion                                                          *)
VersionIn(c, s, v) ==
    LET vs == VersionsIn(c, SourceIn(c, s)) IN IF v \in vs THEN v ELSE Newest(vs)

CurrentSource == SourceIn(catalog, selectedSourceId)
CurrentVersion == VersionIn(catalog, selectedSourceId, selectedVersionId)

Bug_Rendered(c, s, v, sites) ==
    LET shown == VersionIn(c, s, v)
    IN  /\ selectedSourceId' = SourceIn(c, s)
        /\ selectedVersionId' = IF shown = None THEN v ELSE shown
        /\ previousVersionId' = IF shown = None THEN previousVersionId ELSE shown
        /\ selectedSiteIds' = IF shown \in {None, previousVersionId} THEN sites ELSE {}

(* A rendering with catalogue c and its effects: the first source is       *)
(* selected when none was, the version shown becomes the selected one, and *)
(* when it is another one than before the site selection is cleared.       *)
Rendered(c, s, v, sites) ==
    LET shown == VersionIn(c, s, v)
    IN  /\ selectedSourceId' = IF s = None THEN c.sources ELSE s
        /\ selectedVersionId' = IF shown = None THEN v ELSE shown
        /\ previousVersionId' = IF shown = None THEN previousVersionId ELSE shown
        /\ selectedSiteIds' = IF shown \in {None, previousVersionId} THEN sites ELSE {}

ServerCatalog == [sources |-> Size(refreshable), versions |-> Size(origin)]

(* The page has loaded and there was nothing yet.                          *)
Init ==
    /\ refreshable = <<>> /\ origin = <<>> /\ published = NoCall
    /\ catalog = [sources |-> 0, versions |-> 0]
    /\ form = FALSE /\ adding = NoCall /\ publishing = NoCall
    /\ selectedSourceId = None /\ selectedVersionId = None
    /\ selectedSiteIds = {} /\ previousVersionId = None
    /\ publishTarget = None /\ confirmTarget = None
    /\ picked = {} /\ added = None

(* The poll, or the reading an invalidation asked for                      *)
Refetch ==
    /\ catalog' = ServerCatalog
    /\ Rendered(catalog', selectedSourceId, selectedVersionId, selectedSiteIds)
    /\ UNCHANGED <<backend, adding, dialogs, publishing, picked, added>>

NoDialog == ~form /\ publishTarget = None /\ confirmTarget = None

(* A click on a source of the list                                         *)
SelectSource(s) ==
    /\ NoDialog
    /\ s \in 1..catalog.sources
    /\ Rendered(catalog, s, None, selectedSiteIds)
    /\ added' = None
    /\ UNCHANGED <<backend, catalog, adding, dialogs, publishing, picked>>

-----------------------------------------------------------------------------
(* Adding a source                                                         *)

OpenForm ==
    /\ NoDialog
    /\ form' = TRUE
    /\ UNCHANGED <<backend, catalog, adding, selection, publishTarget, confirmTarget,
                   publishing, picked, added>>

(* Not while sourcePending                                                 *)
CloseForm ==
    /\ form /\ adding = NoCall
    /\ form' = FALSE
    /\ UNCHANGED <<backend, catalog, adding, selection, publishTarget, confirmTarget,
                   publishing, picked, added>>

(* submitSource: a subscription site, or a single node or a file           *)
SubmitSource(kind) ==
    /\ form /\ adding = NoCall
    /\ adding' = [phase |-> "sent", kind |-> kind]
    /\ UNCHANGED <<backend, catalog, selection, dialogs, publishing, picked, added>>

(* The backend creates the source; an import comes with its only version.  *)
CreateSource(kind) ==
    /\ Size(refreshable) < MaxSources
    /\ refreshable' = Extend(refreshable, kind = "http")
    /\ \/ kind = "http" /\ origin' = origin
       \/ /\ kind = "import" /\ Size(origin) < MaxVersions
          /\ origin' = Extend(origin, Size(refreshable'))
    /\ UNCHANGED published

AddApplies ==
    /\ adding.phase = "sent"
    /\ CreateSource(adding.kind)
    /\ adding' = [phase |-> "applied", source |-> Size(refreshable'),
                  version |-> IF adding.kind = "http" THEN None ELSE Size(origin')]
    /\ UNCHANGED <<catalog, selection, dialogs, publishing, picked, added>>

(* onSuccess: the new source is selected before the catalogue lists it.    *)
AddSucceeds ==
    /\ adding.phase = "applied"
    /\ Rendered(catalog, adding.source,
                IF adding.version = None THEN selectedVersionId ELSE adding.version,
                selectedSiteIds)
    /\ form' = FALSE /\ adding' = NoCall
    /\ added' = adding.source
    /\ UNCHANGED <<backend, catalog, publishTarget, confirmTarget, publishing, picked>>

AddFails ==
    /\ adding # NoCall
    /\ adding' = NoCall
    /\ UNCHANGED <<backend, catalog, selection, dialogs, publishing, picked, added>>

(* Another operator adds a source; a worker refreshes one.                 *)
OtherAdds(kind) ==
    /\ CreateSource(kind)
    /\ UNCHANGED <<catalog, adding, selection, dialogs, publishing, picked, added>>

WorkerFinds(s) ==
    /\ s \in DOMAIN refreshable /\ refreshable[s]
    /\ Size(origin) < MaxVersions
    /\ origin' = Extend(origin, s)
    /\ UNCHANGED <<refreshable, published, catalog, adding, selection, dialogs,
                   publishing, picked, added>>

-----------------------------------------------------------------------------
(* Publishing                                                              *)

Bug_OpenPublish ==
    /\ NoDialog
    /\ CurrentVersion \notin Unparsed \cup {None}
    /\ publishTarget' = CurrentVersion
    /\ picked' = {}
    /\ UNCHANGED <<backend, catalog, form, adding, selection, confirmTarget,
                   publishing, added>>

(* The Publish button                                                      *)
OpenPublish ==
    /\ NoDialog
    /\ CurrentVersion \notin Unparsed \cup {None}
    /\ selectedSiteIds' = {}
    /\ publishTarget' = CurrentVersion
    /\ picked' = {}
    /\ UNCHANGED <<backend, catalog, form, adding, selectedSourceId, selectedVersionId,
                   previousVersionId, confirmTarget, publishing, added>>

ToggleSite(x) ==
    /\ publishTarget # None /\ x \in Deployable
    /\ selectedSiteIds' = IF x \in selectedSiteIds THEN selectedSiteIds \ {x}
                                                   ELSE selectedSiteIds \cup {x}
    /\ picked' = IF x \in selectedSiteIds THEN picked \ {x} ELSE picked \cup {x}
    /\ UNCHANGED <<backend, catalog, adding, selectedSourceId, selectedVersionId,
                   previousVersionId, dialogs, publishing, added>>

(* The button of the site dialog is disabled while nothing is ticked.      *)
Continue ==
    /\ publishTarget # None /\ selectedSiteIds # {}
    /\ confirmTarget' = publishTarget
    /\ publishTarget' = None
    /\ UNCHANGED <<backend, catalog, form, adding, selection, publishing, picked, added>>

(* Both dialogs can be closed at any time.                                 *)
ClosePublish ==
    /\ publishTarget # None \/ confirmTarget # None
    /\ publishTarget' = None /\ confirmTarget' = None
    /\ UNCHANGED <<backend, catalog, form, adding, selection, publishing, picked, added>>

Confirm ==
    /\ confirmTarget # None /\ publishing = NoCall
    /\ publishing' = [phase |-> "sent", version |-> confirmTarget,
                      sites |-> selectedSiteIds, picked |-> picked]
    /\ UNCHANGED <<backend, catalog, adding, selection, dialogs, picked, added>>

(* publish_subscription_version: no site_ids are all sites.                *)
PublishApplies ==
    /\ publishing.phase = "sent"
    /\ published' = [version |-> publishing.version, picked |-> publishing.picked,
                     sites |-> IF publishing.sites = {} THEN Sites ELSE publishing.sites]
    /\ publishing' = [publishing EXCEPT !.phase = "applied"]
    /\ UNCHANGED <<refreshable, origin, catalog, adding, selection, dialogs, picked, added>>

(* onSuccess closes whatever dialog of the two is open by then.            *)
PublishSucceeds ==
    /\ publishing.phase = "applied"
    /\ publishTarget' = None /\ confirmTarget' = None
    /\ publishing' = [publishing EXCEPT !.phase = "refetching"]
    /\ UNCHANGED <<backend, catalog, form, adding, selection, picked, added>>

(* Everything was read again: router.push to the first of the releases.    *)
(* The page is a new one when the operator comes back.                     *)
PublishLeaves ==
    /\ publishing.phase = "refetching"
    /\ publishing' = NoCall
    /\ adding' = NoCall /\ form' = FALSE
    /\ publishTarget' = None /\ confirmTarget' = None
    /\ catalog' = ServerCatalog
    /\ LET shown == VersionIn(catalog', None, None)
       IN  /\ selectedSourceId' = SourceIn(catalog', None)
           /\ selectedVersionId' = shown /\ previousVersionId' = shown
    /\ selectedSiteIds' = {}
    /\ picked' = {} /\ added' = None
    /\ UNCHANGED backend

(* Refused or lost: the confirmation stays open.                           *)
PublishFails ==
    /\ publishing.phase \in {"sent", "applied"}
    /\ publishing' = NoCall
    /\ UNCHANGED <<backend, catalog, adding, selection, dialogs, picked, added>>

-----------------------------------------------------------------------------
Operator ==
    \/ \E s \in Sources : SelectSource(s)
    \/ \E kind \in {"http", "import"} : SubmitSource(kind)
    \/ \E x \in Sites : ToggleSite(x)
    \/ OpenForm \/ CloseForm \/ OpenPublish \/ Continue \/ ClosePublish \/ Confirm

Answers == AddSucceeds \/ AddFails \/ PublishSucceeds \/ PublishLeaves \/ PublishFails

Backend ==
    \/ \E kind \in {"http", "import"} : OtherAdds(kind)
    \/ \E s \in Sources : WorkerFinds(s)
    \/ AddApplies \/ PublishApplies

Next == Refetch \/ Operator \/ Answers \/ Backend

Spec == Init /\ [][Next]_vars

-----------------------------------------------------------------------------
(* A call to publish names no site that the operator did not tick for this *)
(* version, in this opening of the dialog: nothing is carried over from    *)
(* another version or from a dialog that was cancelled.                    *)
SelectionNotCarried ==
    publishing # NoCall => publishing.sites \subseteq publishing.picked

(* A source the operator added is the one shown as soon as the catalogue   *)
(* lists it, whatever others were added and found meanwhile.               *)
AddedSourceShown ==
    added \in 1..catalog.sources => CurrentSource = added

(* "Site targets are an explicit operator choice": a version goes only to  *)
(* sites the operator ticked for it.                                       *)
TargetsChosen == published # NoCall => published.sites \subseteq published.picked

(* The invariant of the page: its types, and it shows what was added.      *)
PageInv == TypeOK /\ AddedSourceShown
=============================================================================
