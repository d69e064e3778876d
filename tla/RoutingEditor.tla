--------------------------- MODULE RoutingEditor ---------------------------
(***************************************************************************)
(* The routing page (app/routing): one editor for the routing policy of    *)
(* the selected site, importing rules into it, saving with a revision      *)
(* check and publishing the saved revision.                                *)
(*                                                                         *)
(* React mounts a new editor when its key, the selected site and the       *)
(* revision of the data shown, changes.  While a site is read for the      *)
(* first time the data of the site before stands in (keepPreviousData).    *)
(***************************************************************************)
EXTENDS Naturals, FiniteSets

CONSTANTS
    Sites,
    NoSite,
    Rules,        \* what an import can bring
    MaxRevision,  \* bound: revisions of all sites together
    OtherPolicies,  \* what another operator saves
    MaxCalls      \* bound: calls under way

ASSUME BoundsAssumption == MaxRevision \in Nat \ {0} /\ MaxCalls \in Nat \ {0}
ASSUME SitesAssumption == IsFiniteSet(Sites)
ASSUME NamesAssumption == NoSite \notin Sites /\ "cn_direct" \notin Rules

VARIABLES
    server,    \* backend: the document of every site
    cache,     \* query cache: the documents read
    fetch,     \* readings under way
    selected,  \* the selected site
    before,    \* the last site that was shown with its own data
    policy,    \* the editor's policy
    base,      \* history: site and revision of what it was mounted with
    wanted,    \* history: the operator's edits, one by one, on that document
    confirm,   \* the confirmation to publish is open
    preview,   \* the import's preview
    calls      \* saves and publications under way

queries == <<cache, fetch>>
editor == <<policy, base, wanted, confirm, preview>>
vars == <<server, queries, selected, before, editor, calls>>

(* private_direct and final are edited as cn_direct is.                    *)
Policies == SUBSET (Rules \cup {"cn_direct"})
ASSUME OtherPoliciesAssumption == OtherPolicies \subseteq Policies

Document == [site : Sites, revision : 0..MaxRevision, policy : Policies]
NoData == [site |-> NoSite, revision |-> 0, policy |-> {}]
NoBase == <<NoSite, 0>>
NoPreview == [phase |-> "none"]
Modes == {"append", "replace"}

Preview == [phase : {"pending", "ready"}, mode : Modes, rule : Rules, policy : Policies]

(* policy: what a save stores, or what a publication found stored; at: the *)
(* site under whose key the answer of a save will be stored        *)
Call == [kind : {"save", "publish"}, phase : {"sent", "applied"}, doc : Document,
         policy : Policies, own : BOOLEAN, at : Sites]

TypeOK ==
    /\ server \in [Sites -> Document]
    /\ \A s \in Sites : server[s].site = s
    /\ cache \in [Sites -> Document \cup {NoData}]
    /\ fetch \in [Sites -> [phase : {"none", "sent", "read"}, doc : Document \cup {NoData}]]
    /\ selected \in Sites /\ before \in Sites \cup {NoSite}
    /\ policy \in Policies /\ wanted \in Policies
    /\ base \in {NoBase} \cup (Sites \X (0..MaxRevision))
    /\ confirm \in BOOLEAN
    /\ preview \in {NoPreview} \cup Preview
    /\ calls \subseteq Call

NoFetch == [phase |-> "none", doc |-> NoData]
Sent == [phase |-> "sent", doc |-> NoData]

(* routing.data: the document of the selected site, or the one before      *)
ShownOf(c, s, b) ==
    IF c[s] # NoData THEN c[s] ELSE IF b # NoSite THEN c[b] ELSE NoData

Shown == ShownOf(cache, selected, before)

Init ==
    /\ server = [s \in Sites |-> [site |-> s, revision |-> 0, policy |-> {}]]
    /\ cache = [s \in Sites |-> NoData]
    /\ selected \in Sites /\ before = NoSite
    /\ fetch = [s \in Sites |-> IF s = selected THEN Sent ELSE NoFetch]
    /\ policy = {} /\ base = NoBase /\ wanted = {}
    /\ confirm = FALSE /\ preview = NoPreview /\ calls = {}

-----------------------------------------------------------------------------

(* The key of the editor is what it was.                                   *)
SameEditor(c, s, b) ==
    base # NoBase /\ s = selected /\ ShownOf(c, s, b).revision = Shown.revision

(* A rendering with cache c, site s and the site before, b, in which the   *)
(* operator and the answers have left rest of the calls.  The options of a *)
(* call under way follow the renderings of its editor; those of an editor  *)
(* that is gone stay.                                                      *)
Rendered(c, s, b, rest) ==
    LET doc == ShownOf(c, s, b)
    IN  /\ cache' = c /\ selected' = s
        /\ before' = IF c[s] # NoData THEN s ELSE b
        /\ IF SameEditor(c, s, b)
           THEN /\ calls' = {IF x.own THEN [x EXCEPT !.at = doc.site] ELSE x : x \in rest}
                /\ UNCHANGED <<policy, base, wanted, preview>>
           ELSE /\ calls' = {[x EXCEPT !.own = FALSE] : x \in rest}
                /\ policy' = doc.policy /\ base' = <<doc.site, doc.revision>> /\ wanted' = doc.policy
                /\ preview' = NoPreview
        /\ confirm' = (confirm /\ SameEditor(c, s, b))

(* A site is selected.  It is read when it never was or is out of date.    *)
SelectSite(s) ==
    /\ s # selected /\ ~confirm
    /\ Rendered(cache, s, before, calls)
    /\ \/ fetch[s].phase = "none" /\ fetch' = [fetch EXCEPT ![s] = Sent]
       \/ /\ cache[s] # NoData \/ fetch[s].phase # "none"
          /\ UNCHANGED fetch
    /\ UNCHANGED server

(* Refresh workspace: a reading under way is dropped, except the first.    *)
Refresh ==
    /\ ~confirm /\ cache[selected] # NoData
    /\ fetch' = [fetch EXCEPT ![selected] = Sent]
    /\ UNCHANGED <<server, cache, selected, before, editor, calls>>

(* get_site_routing                                                        *)
ServeRead(s) ==
    /\ fetch[s].phase = "sent"
    /\ fetch' = [fetch EXCEPT ![s] = [phase |-> "read", doc |-> server[s]]]
    /\ UNCHANGED <<server, cache, selected, before, editor, calls>>

FetchOk(s) ==
    /\ fetch[s].phase = "read"
    /\ fetch' = [fetch EXCEPT ![s] = NoFetch]
    /\ Rendered([cache EXCEPT ![s] = fetch[s].doc], selected, before, calls)
    /\ UNCHANGED server

-----------------------------------------------------------------------------
(* The editor                                                              *)

Mounted == Shown # NoData
Busy == \E c \in calls : c.own
Dirty == policy # Shown.policy
Pending == preview.phase = "pending"

Toggle(p) == IF "cn_direct" \in p THEN p \ {"cn_direct"} ELSE p \cup {"cn_direct"}

Edit ==
    /\ Mounted /\ ~Busy /\ ~confirm
    /\ policy' = Toggle(policy) /\ wanted' = Toggle(wanted)
    /\ UNCHANGED <<server, queries, selected, before, base, confirm, preview, calls>>

(* import_singbox_routing: the settings stay, the rules are added or       *)
(* replaced.                                                               *)
Imported(mode, rule, p) ==
    {rule} \cup (IF mode = "append" THEN p ELSE p \cap {"cn_direct"})

(* Validate and preview; the fingerprint is taken when the call is made.   *)
AskPreview(mode, rule) ==
    /\ Mounted /\ ~Busy /\ ~confirm /\ ~Pending
    /\ preview' = [phase |-> "pending", mode |-> mode, rule |-> rule, policy |-> policy]
    /\ UNCHANGED <<server, queries, selected, before, policy, base, wanted,
                   confirm, calls>>

PreviewOk ==
    /\ Pending
    /\ preview' = [preview EXCEPT !.phase = "ready"]
    /\ UNCHANGED <<server, queries, selected, before, policy, base, wanted,
                   confirm, calls>>

(* The call fails, or the operator changes the text or the mode.           *)
PreviewGone ==
    /\ preview # NoPreview
    /\ preview' = NoPreview
    /\ UNCHANGED <<server, queries, selected, before, policy, base, wanted,
                   confirm, calls>>

Bug_ApplyImport ==
    /\ preview.phase = "ready" /\ ~Busy /\ ~confirm
    /\ policy' = Imported(preview.mode, preview.rule, preview.policy)
    /\ wanted' = Imported(preview.mode, preview.rule, wanted)
    /\ preview' = NoPreview
    /\ UNCHANGED <<server, queries, selected, before, base, confirm, calls>>

(* Apply: only a result whose fingerprint is that of the editor now        *)
ApplyImport ==
    /\ preview.phase = "ready" /\ ~Busy /\ ~confirm
    /\ preview.policy = policy
    /\ policy' = Imported(preview.mode, preview.rule, preview.policy)
    /\ wanted' = Imported(preview.mode, preview.rule, wanted)
    /\ preview' = NoPreview
    /\ UNCHANGED <<server, queries, selected, before, base, confirm, calls>>

NewCall(kind) ==
    [kind |-> kind, phase |-> "sent", doc |-> Shown, policy |-> policy,
     own |-> TRUE, at |-> Shown.site]

(* The save button: the site and the revision are those of the data shown. *)
Save ==
    /\ Mounted /\ ~Busy /\ ~confirm
    /\ Dirty \/ Shown.revision = 0
    /\ Cardinality(calls) < MaxCalls
    /\ calls' = calls \cup {NewCall("save")}
    /\ UNCHANGED <<server, queries, selected, before, editor>>

OpenConfirm ==
    /\ Mounted /\ ~Busy /\ ~confirm
    /\ ~Dirty /\ Shown.revision > 0
    /\ confirm' = TRUE
    /\ UNCHANGED <<server, queries, selected, before, policy, base, wanted,
                   preview, calls>>

CloseConfirm ==
    /\ confirm
    /\ confirm' = FALSE
    /\ UNCHANGED <<server, queries, selected, before, policy, base, wanted,
                   preview, calls>>

Publish ==
    /\ confirm /\ ~Busy
    /\ Cardinality(calls) < MaxCalls
    /\ calls' = calls \cup {NewCall("publish")}
    /\ UNCHANGED <<server, queries, selected, before, editor>>

-----------------------------------------------------------------------------
(* The calls                                                               *)

(* The revisions of all sites together                                     *)
Writes == Cardinality({w \in Sites \X (1..MaxRevision) : w[2] <= server[w[1]].revision})

NextDocument(c) == [site |-> c.doc.site, revision |-> c.doc.revision + 1, policy |-> c.policy]

Bug_ApplySave(c) ==
    /\ c.kind = "save" /\ c.phase = "sent"
    /\ Writes < MaxRevision
    /\ server' = [server EXCEPT ![c.doc.site] = NextDocument(c)]
    /\ calls' = (calls \ {c}) \cup {[c EXCEPT !.phase = "applied"]}
    /\ UNCHANGED <<queries, selected, before, editor>>

(* update_site_routing: a conditional update on the expected revision      *)
ApplySave(c) ==
    /\ c.kind = "save" /\ c.phase = "sent"
    /\ server[c.doc.site].revision = c.doc.revision
    /\ Writes < MaxRevision
    /\ server' = [server EXCEPT ![c.doc.site] = NextDocument(c)]
    /\ calls' = (calls \ {c}) \cup {[c EXCEPT !.phase = "applied"]}
    /\ UNCHANGED <<queries, selected, before, editor>>

(* onSuccess: the answer becomes the data of the query, without a reading. *)
SaveOk(c) ==
    /\ c.kind = "save" /\ c.phase = "applied"
    /\ Rendered([cache EXCEPT ![c.at] = NextDocument(c)], selected, before, calls \ {c})
    /\ UNCHANGED <<server, fetch>>

Bug_ApplyPublish(c) ==
    /\ c.kind = "publish" /\ c.phase = "sent"
    /\ calls' = (calls \ {c}) \cup
                {[c EXCEPT !.phase = "applied", !.policy = server[c.doc.site].policy]}
    /\ UNCHANGED <<server, queries, selected, before, editor>>

(* publish_site_routing: what is stored now, at the expected revision      *)
ApplyPublish(c) ==
    /\ c.kind = "publish" /\ c.phase = "sent"
    /\ server[c.doc.site].revision = c.doc.revision
    /\ calls' = (calls \ {c}) \cup
                {[c EXCEPT !.phase = "applied", !.policy = server[c.doc.site].policy]}
    /\ UNCHANGED <<server, queries, selected, before, editor>>

PublishOk(c) ==
    /\ c.kind = "publish" /\ c.phase = "applied"
    /\ confirm' = (confirm /\ ~c.own)
    /\ calls' = calls \ {c}
    /\ UNCHANGED <<server, queries, selected, before, policy, base, wanted, preview>>

(* A revision conflict, another refusal, or a lost request or answer       *)
CallFails(c) ==
    /\ calls' = calls \ {c}
    /\ UNCHANGED <<server, queries, selected, before, editor>>

(* Another operator saves.                                                 *)
OtherSave(s, p) ==
    /\ Writes < MaxRevision
    /\ server' = [server EXCEPT ![s] = [site |-> s, revision |-> @.revision + 1, policy |-> p]]
    /\ UNCHANGED <<queries, selected, before, editor, calls>>

-----------------------------------------------------------------------------
Operator ==
    \/ \E s \in Sites : SelectSite(s)
    \/ \E mode \in Modes, rule \in Rules : AskPreview(mode, rule)
    \/ Refresh \/ Edit \/ ApplyImport \/ PreviewGone
    \/ Save \/ OpenConfirm \/ CloseConfirm \/ Publish

Answers ==
    \/ \E s \in Sites : FetchOk(s)
    \/ \E c \in calls : SaveOk(c) \/ PublishOk(c) \/ CallFails(c)
    \/ PreviewOk

Backend ==
    \/ \E s \in Sites : ServeRead(s) \/ \E p \in OtherPolicies : OtherSave(s, p)
    \/ \E c \in calls : ApplySave(c) \/ ApplyPublish(c)

Next == Operator \/ Answers \/ Backend

Spec == Init /\ [][Next]_vars

-----------------------------------------------------------------------------
(* A save that is accepted replaces exactly the document its editor showed *)
(* as saved: an edit of another operator, or of this one in a call that    *)
(* was thought to have failed, is never overwritten unseen.                *)
SaveReplacesShown ==
    [][\A s \in Sites : \A c \in calls :
          c.kind = "save" /\ c.doc.site = s /\ server'[s] # server[s] /\ c \notin calls' =>
              server[s] = c.doc]_vars

(* A release carries the policy that the page showed as saved when it was  *)
(* confirmed, whatever was stored between the click and the publication.   *)
ReleasesShownPolicy ==
    \A c \in calls : c.kind = "publish" /\ c.phase = "applied" => c.policy = c.doc.policy

(* An import is applied to what is in the editor: edits made while the     *)
(* preview was computed are neither lost nor mixed up.                     *)
EditsKept == Mounted => policy = wanted

(* An editor holds another site's policy, and would save it, only while    *)
(* that site stands in or when both sites have the same revision.          *)
EditorsOwnSite ==
    Mounted => base[1] = Shown.site \/ base[2] = Shown.revision

(* The invariant of the editor: what it holds is what the operator put     *)
(* there, on the policy of its own site.                                   *)
EditorInv == TypeOK /\ EditsKept /\ EditorsOwnSite
=============================================================================
