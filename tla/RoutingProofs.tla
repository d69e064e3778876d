--------------------------- MODULE RoutingProofs ---------------------------
(***************************************************************************)
(* The routing page for any sites, rules, revisions and calls under way.   *)
(*                                                                         *)
(* A document that anybody holds, in the cache, in an answer or in a call, *)
(* is no newer than the stored one, and is the stored one if the revisions *)
(* are the same: the check of the revision is a check of the document.     *)
(***************************************************************************)
EXTENDS RoutingEditor, FiniteSetTheorems, TLAPS

Known(doc) ==
    /\ doc.revision <= server[doc.site].revision
    /\ doc.revision = server[doc.site].revision => doc = server[doc.site]

CallKnown(c) ==
    /\ Known(c.doc)
    /\ c.kind = "save" /\ c.phase = "applied" => Known(NextDocument(c))
    /\ c.kind = "publish" /\ c.phase = "applied" => c.policy = c.doc.policy

DocumentsKnown ==
    /\ \A s \in Sites : cache[s] # NoData => Known(cache[s])
    /\ \A s \in Sites : fetch[s].phase = "read" => fetch[s].doc # NoData /\ Known(fetch[s].doc)
    /\ \A c \in calls : CallKnown(c)

(* The editor is mounted when there is data, for the revision of the data. *)
EditorShown ==
    /\ before # NoSite => cache[before] # NoData
    /\ base = NoBase <=> Shown = NoData
    /\ base[2] = Shown.revision
    /\ confirm => base # NoBase
    /\ policy = wanted

IInv == TypeOK /\ DocumentsKnown /\ EditorShown

-----------------------------------------------------------------------------
(* Types                                                                   *)

LEMMA NoDataType ==
    /\ NoData \notin Document /\ NoData.revision = 0 /\ NoData.site = NoSite
    /\ NoBase[2] = 0
    /\ \A doc \in Document : /\ doc.site \in Sites /\ doc.site # NoSite
                             /\ doc.revision \in 0..MaxRevision /\ doc.revision \in Nat
                             /\ doc.policy \in Policies
  BY NamesAssumption, BoundsAssumption DEF NoData, NoBase, Document

(* A revision that may be written once more stays within the bound.        *)
LEMMA WritesBound ==
    ASSUME TypeOK, Writes < MaxRevision, NEW s \in Sites
    PROVE  server[s].revision + 1 \in 0..MaxRevision
<1> DEFINE W == {w \in Sites \X (1..MaxRevision) : w[2] <= server[w[1]].revision}
           r == server[s].revision
           f == [i \in 1..r |-> <<s, i>>]
<1>1. MaxRevision \in Nat /\ r \in Nat /\ r <= MaxRevision
  BY BoundsAssumption DEF TypeOK, Document
<1>2. IsFiniteSet(1..MaxRevision)
  BY <1>1, FS_Interval
<1>3. IsFiniteSet(Sites \X (1..MaxRevision))
  BY <1>2, SitesAssumption, FS_Product
<1>4. IsFiniteSet(W)
  BY <1>3, FS_Subset
<1>5. f \in Injection(1..r, W)
  <2>1. \A i \in 1..r : <<s, i>> \in W
    BY <1>1
  <2>. QED
    BY <2>1 DEF Injection, IsInjective
<1>6. Cardinality(1..r) = r
  BY <1>1, FS_Interval
<1>7. Cardinality(W) \in Nat
  BY <1>4, FS_CardinalityType
<1>. HIDE DEF W, f
<1>8. Cardinality(1..r) <= Cardinality(W)
  BY <1>4, <1>5, FS_Injection
<1>9. Cardinality(W) < MaxRevision
  BY DEF Writes, W
<1>. QED
  BY <1>1, <1>6, <1>7, <1>8, <1>9

LEMMA ShownType ==
    ASSUME TypeOK, EditorShown
    PROVE  /\ Shown \in Document \cup {NoData}
           /\ Shown # NoData => Shown \in Document /\ \E s \in Sites : Shown = cache[s]
  BY DEF TypeOK, EditorShown, Shown, ShownOf

(* What was known stays known when a newer document is stored.             *)
LEMMA KnownKept ==
    ASSUME TypeOK, NEW doc \in Document, Known(doc), NEW s \in Sites,
           NEW new \in Document, new.revision = server[s].revision + 1,
           server' = [server EXCEPT ![s] = new]
    PROVE  Known(doc)'
<1>1. doc.revision \in Nat /\ server[doc.site].revision \in Nat /\ doc.site \in Sites
  BY NoDataType DEF TypeOK
<1>2. server'[doc.site] = IF doc.site = s THEN new ELSE server[doc.site]
  BY <1>1 DEF TypeOK
<1>. QED
  BY <1>1, <1>2 DEF Known

LEMMA ImportedType ==
    ASSUME NEW mode, NEW rule \in Rules, NEW p \in Policies
    PROVE  Imported(mode, rule, p) \in Policies
  BY DEF Imported, Policies

LEMMA NextDocumentType ==
    ASSUME TypeOK, NEW c \in Call, CallKnown(c), c.kind = "save", c.phase = "applied"
    PROVE  NextDocument(c) \in Document
<1>1. c.doc.site \in Sites /\ c.doc.revision \in Nat /\ c.policy \in Policies
  BY NoDataType DEF Call
<1>2. NextDocument(c).revision <= server[NextDocument(c).site].revision
  BY DEF CallKnown, Known
<1>3. c.doc.revision + 1 <= server[c.doc.site].revision
  BY <1>2 DEF NextDocument
<1>4. server[c.doc.site].revision \in Nat /\ server[c.doc.site].revision <= MaxRevision
  BY <1>1, BoundsAssumption DEF TypeOK, Document
<1>5. c.doc.revision + 1 \in 0..MaxRevision
  BY <1>1, <1>3, <1>4, BoundsAssumption
<1>. QED
  BY <1>1, <1>5 DEF NextDocument, Document

-----------------------------------------------------------------------------
(* A rendering                                                             *)

LEMMA CallRecord ==
    ASSUME NEW x \in Call, NEW own \in BOOLEAN, NEW site \in Sites
    PROVE  /\ [x EXCEPT !.own = own] \in Call
           /\ [x EXCEPT !.own = own].kind = x.kind /\ [x EXCEPT !.own = own].phase = x.phase
           /\ [x EXCEPT !.own = own].doc = x.doc /\ [x EXCEPT !.own = own].policy = x.policy
           /\ [x EXCEPT !.at = site] \in Call
           /\ [x EXCEPT !.at = site].kind = x.kind /\ [x EXCEPT !.at = site].phase = x.phase
           /\ [x EXCEPT !.at = site].doc = x.doc /\ [x EXCEPT !.at = site].policy = x.policy
<1>1. [x EXCEPT !.own = own] = [kind |-> x.kind, phase |-> x.phase, doc |-> x.doc,
                                policy |-> x.policy, own |-> own, at |-> x.at]
  BY DEF Call
<1>2. [x EXCEPT !.at = site] = [kind |-> x.kind, phase |-> x.phase, doc |-> x.doc,
                                policy |-> x.policy, own |-> x.own, at |-> site]
  BY DEF Call
<1>3. [kind |-> x.kind, phase |-> x.phase, doc |-> x.doc,
       policy |-> x.policy, own |-> own, at |-> x.at] \in Call
  BY DEF Call
<1>4. [kind |-> x.kind, phase |-> x.phase, doc |-> x.doc,
       policy |-> x.policy, own |-> x.own, at |-> site] \in Call
  BY DEF Call
<1>. QED
  BY <1>1, <1>2, <1>3, <1>4

LEMMA CallKnownSame ==
    ASSUME NEW x, NEW y, x.kind = y.kind, x.phase = y.phase, x.doc = y.doc, x.policy = y.policy,
           CallKnown(x)
    PROVE  CallKnown(y)
  BY DEF CallKnown, NextDocument, Known

LEMMA RenderedStep ==
    ASSUME IInv, NEW c \in [Sites -> Document \cup {NoData}], NEW s \in Sites,
           NEW rest \in SUBSET calls,
           \A t \in Sites : cache[t] # NoData => c[t] # NoData,
           \A t \in Sites : c[t] # NoData => Known(c[t]),
           Rendered(c, s, before, rest), UNCHANGED server,
           fetch' \in [Sites -> [phase : {"none", "sent", "read"}, doc : Document \cup {NoData}]],
           \A t \in Sites : fetch'[t].phase = "read" =>
               fetch'[t].phase = fetch[t].phase /\ fetch'[t].doc = fetch[t].doc
    PROVE  IInv'
<1>. TypeOK /\ DocumentsKnown /\ EditorShown
  BY DEF IInv
<1> DEFINE doc == ShownOf(c, s, before)
           same == SameEditor(c, s, before)
<1>1. /\ cache' = c /\ selected' = s /\ before' = (IF c[s] # NoData THEN s ELSE before)
      /\ same => /\ calls' = {IF x.own THEN [x EXCEPT !.at = doc.site] ELSE x : x \in rest}
                 /\ UNCHANGED <<policy, base, wanted, preview>>
      /\ ~same => /\ calls' = {[x EXCEPT !.own = FALSE] : x \in rest}
                  /\ policy' = doc.policy /\ base' = <<doc.site, doc.revision>>
                  /\ wanted' = doc.policy /\ preview' = NoPreview
      /\ confirm' = (confirm /\ same)
  BY DEF Rendered
<1>2. before \in Sites \cup {NoSite} /\ calls \subseteq Call /\ selected \in Sites
  BY DEF TypeOK
<1>3. before # NoSite => c[before] # NoData
  BY <1>2 DEF EditorShown
<1>4. doc \in Document \cup {NoData} /\ (doc = NoData => c[s] = NoData /\ before = NoSite)
  BY <1>2, <1>3 DEF ShownOf
<1>5. Shown' = doc
  BY <1>1, <1>2, <1>3 DEF Shown, ShownOf
<1>6. same => doc # NoData /\ doc.revision = Shown.revision /\ base # NoBase
  BY <1>2, <1>3 DEF SameEditor, EditorShown, Shown, ShownOf
<1>7. NoData.policy \in Policies /\ doc.policy \in Policies
  BY <1>4, NoDataType DEF NoData, Policies
<1>8. EditorShown'
  <2>1. before' # NoSite => cache'[before'] # NoData
    BY <1>1, <1>3
  <2>2. CASE same
    BY <1>1, <1>5, <1>6, <2>1, <2>2 DEF EditorShown
  <2>3. CASE ~same
    <3>1. base' = <<doc.site, doc.revision>> /\ policy' = wanted' /\ ~confirm'
      BY <1>1, <2>3
    <3>2. base' = NoBase <=> doc = NoData
      BY <1>4, <3>1, NoDataType DEF NoBase
    <3>. QED
      BY <1>5, <2>1, <3>1, <3>2 DEF EditorShown
  <2>. QED
    BY <2>2, <2>3
<1>9. \A y \in calls' : \E x \in rest : /\ y \in Call /\ y.kind = x.kind /\ y.phase = x.phase
                                        /\ y.doc = x.doc /\ y.policy = x.policy
  <2> SUFFICES ASSUME NEW y \in calls'
               PROVE  \E x \in rest : /\ y \in Call /\ y.kind = x.kind /\ y.phase = x.phase
                                      /\ y.doc = x.doc /\ y.policy = x.policy
    OBVIOUS
  <2>1. CASE same
    <3>1. PICK x \in rest : y = IF x.own THEN [x EXCEPT !.at = doc.site] ELSE x
      BY <1>1, <2>1
    <3>2. x \in Call /\ doc.site \in Sites
      BY <1>2, <1>4, <1>6, <2>1, NoDataType
    <3>3. CASE x.own
      <4>1. PICK site \in Sites : site = doc.site
        BY <3>2
      <4>2. y = [x EXCEPT !.at = site]
        BY <3>1, <3>3, <4>1
      <4>3. /\ [x EXCEPT !.at = site] \in Call
            /\ [x EXCEPT !.at = site].kind = x.kind /\ [x EXCEPT !.at = site].phase = x.phase
            /\ [x EXCEPT !.at = site].doc = x.doc /\ [x EXCEPT !.at = site].policy = x.policy
        BY <3>2, CallRecord
      <4>. QED
        BY <4>2, <4>3
    <3>4. CASE ~x.own
      BY <3>1, <3>2, <3>4
    <3>. QED
      BY <3>3, <3>4
  <2>2. CASE ~same
    <3>1. PICK x \in rest : y = [x EXCEPT !.own = FALSE]
      BY <1>1, <2>2
    <3>. QED
      BY <1>2, <3>1, CallRecord
  <2>. QED
    BY <2>1, <2>2
<1>10. DocumentsKnown'
  <2>1. \A t \in Sites : cache'[t] # NoData => Known(cache[t])'
    BY <1>1 DEF Known
  <2>2. \A t \in Sites : fetch'[t].phase = "read" => fetch'[t].doc # NoData /\ Known(fetch[t].doc)'
    BY DEF DocumentsKnown, Known
  <2>3. \A y \in calls' : CallKnown(y)
    BY <1>9, CallKnownSame DEF DocumentsKnown
  <2>4. \A y \in calls' : CallKnown(y)'
    BY <2>3 DEF CallKnown, Known
  <2>. QED
    BY <2>1, <2>2, <2>4 DEF DocumentsKnown
<1>11. TypeOK'
  <2>1. calls' \subseteq Call
    BY <1>9
  <2>2. base' \in {NoBase} \cup (Sites \X (0..MaxRevision))
    <3>1. CASE same
      BY <1>1, <3>1 DEF TypeOK
    <3>2. CASE ~same
      <4>1. base' = <<doc.site, doc.revision>>
        BY <1>1, <3>2
      <4>2. CASE doc = NoData
        BY <4>1, <4>2, NoDataType DEF NoBase
      <4>3. CASE doc \in Document
        BY <4>1, <4>3, NoDataType
      <4>. QED
        BY <1>4, <4>2, <4>3
    <3>. QED
      BY <3>1, <3>2
  <2>3. confirm' \in BOOLEAN
    BY <1>1 DEF TypeOK
  <2>4. policy' \in Policies /\ wanted' \in Policies /\ preview' \in {NoPreview} \cup Preview
    BY <1>1, <1>7 DEF TypeOK
  <2>5. before' \in Sites \cup {NoSite}
    BY <1>1, <1>2
  <2>. QED
    BY <1>1, <2>1, <2>2, <2>3, <2>4, <2>5 DEF TypeOK
<1>. QED
  BY <1>8, <1>10, <1>11 DEF IInv

-----------------------------------------------------------------------------
(* The steps                                                               *)

LEMMA InitHolds == Init => IInv
<1> SUFFICES ASSUME Init PROVE IInv
  OBVIOUS
<1>1. 0 \in 0..MaxRevision /\ {} \in Policies
  BY BoundsAssumption DEF Policies
<1>2. server \in [Sites -> Document] /\ \A s \in Sites : server[s].site = s
  BY <1>1 DEF Init, Document
<1>3. cache \in [Sites -> Document \cup {NoData}] /\ \A s \in Sites : cache[s] = NoData
  BY DEF Init
<1>4. /\ fetch \in [Sites -> [phase : {"none", "sent", "read"}, doc : Document \cup {NoData}]]
      /\ \A s \in Sites : fetch[s].phase # "read"
  BY DEF Init, Sent, NoFetch
<1>5. TypeOK
  BY <1>1, <1>2, <1>3, <1>4 DEF Init, TypeOK
<1>6. DocumentsKnown
  BY <1>3, <1>4 DEF Init, DocumentsKnown
<1>7. Shown = NoData
  BY <1>3 DEF Init, Shown, ShownOf
<1>8. EditorShown
  BY <1>7, NoDataType DEF Init, EditorShown
<1>. QED
  BY <1>5, <1>6, <1>8 DEF IInv

(* Only the readings change.                                               *)
LEMMA FetchStep ==
    ASSUME IInv, NEW s \in Sites, NEW f, fetch' = [fetch EXCEPT ![s] = f],
           f = Sent \/ f = [phase |-> "read", doc |-> server[s]],
           UNCHANGED <<server, cache, selected, before, editor, calls>>
    PROVE  IInv'
<1>. TypeOK /\ DocumentsKnown /\ EditorShown
  BY DEF IInv
<1>1. f \in [phase : {"none", "sent", "read"}, doc : Document \cup {NoData}]
  BY DEF Sent, TypeOK
<1>2. f.phase = "read" => f.doc # NoData /\ Known(f.doc)
  <2>1. server[s] \in Document /\ server[s].site = s
    BY DEF TypeOK
  <2>. QED
    BY <2>1, NoDataType DEF Sent, Known
<1>3. \A t \in Sites : fetch'[t] = IF t = s THEN f ELSE fetch[t]
  BY DEF TypeOK
<1>4. fetch' \in [Sites -> [phase : {"none", "sent", "read"}, doc : Document \cup {NoData}]]
  BY <1>1 DEF TypeOK
<1>5. TypeOK'
  BY <1>4 DEF TypeOK, editor
<1>6. \A t \in Sites : fetch'[t].phase = "read" => fetch'[t].doc # NoData /\ Known(fetch'[t].doc)
  BY <1>2, <1>3 DEF DocumentsKnown
<1>7. DocumentsKnown'
  BY <1>6 DEF DocumentsKnown, CallKnown, Known
<1>8. EditorShown'
  BY DEF EditorShown, editor, Shown
<1>. QED
  BY <1>5, <1>7, <1>8 DEF IInv

LEMMA SelectSiteStep ==
    ASSUME IInv, NEW s \in Sites, SelectSite(s)
    PROVE  IInv'
<1>. TypeOK /\ DocumentsKnown
  BY DEF IInv
<1>1. Rendered(cache, s, before, calls) /\ UNCHANGED server
  BY DEF SelectSite
<1>2. fetch' = fetch \/ fetch' = [fetch EXCEPT ![s] = Sent]
  BY DEF SelectSite
<1>3. fetch' \in [Sites -> [phase : {"none", "sent", "read"}, doc : Document \cup {NoData}]]
  BY <1>2 DEF TypeOK, Sent
<1>4. \A t \in Sites : fetch'[t].phase = "read" =>
          fetch'[t].phase = fetch[t].phase /\ fetch'[t].doc = fetch[t].doc
  BY <1>2 DEF TypeOK, Sent
<1>5. cache \in [Sites -> Document \cup {NoData}]
  BY DEF TypeOK
<1>6. \A t \in Sites : cache[t] # NoData => Known(cache[t])
  BY DEF DocumentsKnown
<1>. QED
  BY <1>1, <1>3, <1>4, <1>5, <1>6, RenderedStep

LEMMA FetchOkStep ==
    ASSUME IInv, NEW s \in Sites, FetchOk(s)
    PROVE  IInv'
<1>. TypeOK /\ DocumentsKnown
  BY DEF IInv
<1> DEFINE c == [cache EXCEPT ![s] = fetch[s].doc]
<1>1. Rendered(c, selected, before, calls) /\ UNCHANGED server /\ selected \in Sites
  BY DEF FetchOk, TypeOK
<1>2. fetch[s].phase = "read" /\ fetch' = [fetch EXCEPT ![s] = NoFetch]
  BY DEF FetchOk
<1>3. fetch' \in [Sites -> [phase : {"none", "sent", "read"}, doc : Document \cup {NoData}]]
  BY <1>2 DEF TypeOK, NoFetch
<1>4. \A t \in Sites : fetch'[t].phase = "read" =>
          fetch'[t].phase = fetch[t].phase /\ fetch'[t].doc = fetch[t].doc
  BY <1>2 DEF TypeOK, NoFetch
<1>5. fetch[s].doc # NoData /\ Known(fetch[s].doc) /\ fetch[s].doc \in Document \cup {NoData}
  BY <1>2 DEF TypeOK, DocumentsKnown
<1>6. c \in [Sites -> Document \cup {NoData}]
  BY <1>5 DEF TypeOK
<1>7. \A t \in Sites : c[t] = IF t = s THEN fetch[s].doc ELSE cache[t]
  BY DEF TypeOK
<1>. HIDE DEF c
<1>8. \A t \in Sites : /\ cache[t] # NoData => c[t] # NoData
                       /\ c[t] # NoData => Known(c[t])
  BY <1>5, <1>7 DEF DocumentsKnown
<1>. QED
  BY <1>1, <1>3, <1>4, <1>6, <1>8, RenderedStep

LEMMA SaveOkStep ==
    ASSUME IInv, NEW x \in calls, SaveOk(x)
    PROVE  IInv'
<1>. TypeOK /\ DocumentsKnown
  BY DEF IInv
<1> DEFINE c == [cache EXCEPT ![x.at] = NextDocument(x)]
<1>1. Rendered(c, selected, before, calls \ {x}) /\ UNCHANGED <<server, fetch>> /\ selected \in Sites
  BY DEF SaveOk, TypeOK
<1>2. x.kind = "save" /\ x.phase = "applied" /\ x \in Call /\ x.at \in Sites
  BY DEF SaveOk, TypeOK, Call
<1>3. fetch' \in [Sites -> [phase : {"none", "sent", "read"}, doc : Document \cup {NoData}]]
  BY <1>1 DEF TypeOK
<1>4. \A t \in Sites : fetch'[t].phase = "read" =>
          fetch'[t].phase = fetch[t].phase /\ fetch'[t].doc = fetch[t].doc
  BY <1>1
<1>5. NextDocument(x) \in Document /\ Known(NextDocument(x)) /\ NextDocument(x) # NoData
  BY <1>2, NextDocumentType, NoDataType DEF DocumentsKnown, CallKnown
<1>6. c \in [Sites -> Document \cup {NoData}]
  BY <1>5 DEF TypeOK
<1>7. \A t \in Sites : c[t] = IF t = x.at THEN NextDocument(x) ELSE cache[t]
  BY DEF TypeOK
<1>. HIDE DEF c
<1>8. \A t \in Sites : /\ cache[t] # NoData => c[t] # NoData
                       /\ c[t] # NoData => Known(c[t])
  BY <1>5, <1>7 DEF DocumentsKnown
<1>. QED
  BY <1>1, <1>3, <1>4, <1>6, <1>8, RenderedStep

(* The editor's own steps: what is stored and what was read stay.          *)
LEMMA EditorStep ==
    ASSUME IInv, UNCHANGED <<server, cache, fetch, selected, before, base>>,
           policy' \in Policies, wanted' = policy',
           confirm' \in BOOLEAN, confirm' => base # NoBase,
           preview' \in {NoPreview} \cup Preview,
           calls' \subseteq Call, \A c \in calls' : CallKnown(c)
    PROVE  IInv'
<1>. TypeOK /\ DocumentsKnown /\ EditorShown
  BY DEF IInv
<1>1. TypeOK'
  BY DEF TypeOK
<1>2. DocumentsKnown'
  BY DEF DocumentsKnown, CallKnown, Known
<1>3. EditorShown'
  BY DEF EditorShown, Shown
<1>. QED
  BY <1>1, <1>2, <1>3 DEF IInv

(* The same where the calls are as they were.                              *)
LEMMA EditorOnlyStep ==
    ASSUME IInv, UNCHANGED <<server, cache, fetch, selected, before, base, calls>>,
           policy' \in Policies, wanted' = policy',
           confirm' \in BOOLEAN, confirm' => base # NoBase,
           preview' \in {NoPreview} \cup Preview
    PROVE  IInv'
<1>1. calls' \subseteq Call /\ \A c \in calls' : CallKnown(c)
  BY DEF IInv, TypeOK, DocumentsKnown
<1>. QED
  BY <1>1, EditorStep

LEMMA ReadyPreview ==
    ASSUME TypeOK, preview.phase \in {"pending", "ready"}
    PROVE  preview \in Preview /\ preview.rule \in Rules
<1>1. preview # NoPreview
  BY DEF NoPreview
<1>2. preview \in Preview
  BY <1>1 DEF TypeOK
<1>. QED
  BY <1>2 DEF Preview

LEMMA EditStep ==
    ASSUME IInv, Edit \/ ApplyImport
    PROVE  IInv'
<1>. TypeOK /\ EditorShown
  BY DEF IInv
<1>1. policy \in Policies /\ policy = wanted
  BY DEF TypeOK, EditorShown
<1>2. UNCHANGED <<server, cache, fetch, selected, before, base, calls>> /\ confirm' = confirm
  BY DEF Edit, ApplyImport, queries
<1>3. confirm' \in BOOLEAN /\ (confirm' => base # NoBase)
  BY <1>2 DEF TypeOK, EditorShown
<1>4. policy' \in Policies /\ wanted' = policy'
  <2>1. CASE Edit
    BY <1>1, <2>1 DEF Edit, Toggle, Policies
  <2>2. CASE ApplyImport
    <3>1. preview.policy = policy /\ preview.rule \in Rules
      BY <2>2, ReadyPreview DEF ApplyImport
    <3>2. policy' = Imported(preview.mode, preview.rule, policy) /\ wanted' = policy'
      BY <1>1, <2>2, <3>1 DEF ApplyImport
    <3>. QED
      BY <1>1, <3>1, <3>2, ImportedType
  <2>. QED
    BY <2>1, <2>2
<1>5. preview' \in {NoPreview} \cup Preview
  BY DEF TypeOK, Edit, ApplyImport
<1>. QED
  BY <1>2, <1>3, <1>4, <1>5, EditorOnlyStep

LEMMA PreviewStep ==
    ASSUME IInv, \/ \E mode \in Modes, rule \in Rules : AskPreview(mode, rule)
                 \/ PreviewOk \/ PreviewGone
    PROVE  IInv'
<1>. TypeOK /\ EditorShown
  BY DEF IInv
<1>1. UNCHANGED <<server, cache, fetch, selected, before, base, calls>>
      /\ confirm' = confirm /\ policy' = policy /\ wanted' = wanted
  BY DEF AskPreview, PreviewOk, PreviewGone, queries
<1>2. confirm' \in BOOLEAN /\ (confirm' => base # NoBase) /\ policy' \in Policies /\ wanted' = policy'
  BY <1>1 DEF TypeOK, EditorShown
<1>3. preview' \in {NoPreview} \cup Preview
  <2>1. CASE \E mode \in Modes, rule \in Rules : AskPreview(mode, rule)
    BY <2>1 DEF AskPreview, Preview, TypeOK
  <2>2. CASE PreviewOk
    <3>1. preview \in Preview /\ preview' = [preview EXCEPT !.phase = "ready"]
      BY <2>2, ReadyPreview DEF PreviewOk, Pending
    <3>2. preview' = [phase |-> "ready", mode |-> preview.mode, rule |-> preview.rule,
                      policy |-> preview.policy]
      BY <3>1 DEF Preview
    <3>. QED
      BY <3>1, <3>2 DEF Preview
  <2>3. CASE PreviewGone
    BY <2>3 DEF PreviewGone
  <2>. QED
    BY <2>1, <2>2, <2>3
<1>. QED
  BY <1>1, <1>2, <1>3, EditorOnlyStep

LEMMA ConfirmStep ==
    ASSUME IInv, OpenConfirm \/ CloseConfirm
    PROVE  IInv'
<1>. TypeOK /\ EditorShown
  BY DEF IInv
<1>1. UNCHANGED <<server, cache, fetch, selected, before, base, calls>>
      /\ policy' = policy /\ wanted' = wanted /\ preview' = preview
  BY DEF OpenConfirm, CloseConfirm, queries
<1>2. preview' \in {NoPreview} \cup Preview /\ policy' \in Policies /\ wanted' = policy'
  BY <1>1 DEF TypeOK, EditorShown
<1>3. confirm' \in BOOLEAN /\ (confirm' => base # NoBase)
  BY DEF OpenConfirm, CloseConfirm, Mounted, EditorShown
<1>. QED
  BY <1>1, <1>2, <1>3, EditorOnlyStep

(* Only the calls, and the confirmation, change.                           *)
LEMMA CallsStep ==
    ASSUME IInv, UNCHANGED <<server, queries, selected, before, policy, base, wanted, preview>>,
           confirm' \in BOOLEAN, confirm' => confirm,
           calls' \subseteq Call, \A c \in calls' : CallKnown(c)
    PROVE  IInv'
<1>. TypeOK /\ EditorShown
  BY DEF IInv
<1>1. preview' \in {NoPreview} \cup Preview /\ policy' \in Policies /\ wanted' = policy'
  BY DEF TypeOK, EditorShown
<1>2. UNCHANGED <<server, cache, fetch, selected, before, base>>
  BY DEF queries
<1>3. confirm' => base # NoBase
  BY DEF EditorShown
<1>. QED
  BY <1>1, <1>2, <1>3, EditorStep

LEMMA NewCallStep ==
    ASSUME IInv, Save \/ Publish
    PROVE  IInv'
<1>. TypeOK /\ DocumentsKnown /\ EditorShown
  BY DEF IInv
<1>1. PICK kind \in {"save", "publish"} : calls' = calls \cup {NewCall(kind)}
  BY DEF Save, Publish
<1>2. Shown \in Document /\ Known(Shown)
  <2>1. Shown # NoData
    BY DEF Save, Publish, Mounted, EditorShown
  <2>. QED
    BY <2>1, ShownType DEF DocumentsKnown
<1>3. NewCall(kind) \in Call
  BY <1>2, NoDataType DEF NewCall, Call, TypeOK
<1>4. CallKnown(NewCall(kind))
  BY <1>2 DEF CallKnown, NewCall
<1>5. calls' \subseteq Call /\ \A c \in calls' : CallKnown(c)
  BY <1>1, <1>3, <1>4 DEF TypeOK, DocumentsKnown
<1>6. UNCHANGED <<server, queries, selected, before, policy, base, wanted, preview>> /\ confirm' = confirm
  BY DEF Save, Publish, editor
<1>7. confirm' \in BOOLEAN
  BY <1>6 DEF TypeOK
<1>. QED
  BY <1>5, <1>6, <1>7, CallsStep

LEMMA CallEndsStep ==
    ASSUME IInv, NEW c \in calls, PublishOk(c) \/ CallFails(c)
    PROVE  IInv'
<1>. TypeOK /\ DocumentsKnown
  BY DEF IInv
<1>1. calls' \subseteq Call /\ \A x \in calls' : CallKnown(x)
  BY DEF TypeOK, DocumentsKnown, PublishOk, CallFails
<1>2. UNCHANGED <<server, queries, selected, before, policy, base, wanted, preview>>
  BY DEF PublishOk, CallFails, editor
<1>3. confirm' \in BOOLEAN /\ (confirm' => confirm)
  <2>1. CASE PublishOk(c)
    <3>1. confirm' = (confirm /\ ~c.own)
      BY <2>1 DEF PublishOk
    <3>. QED
      BY <3>1
  <2>2. CASE CallFails(c)
    BY <2>2 DEF CallFails, editor, TypeOK
  <2>. QED
    BY <2>1, <2>2
<1>. QED
  BY <1>1, <1>2, <1>3, CallsStep

(* The revision that is expected is the stored one, so the policy that is  *)
(* stored is the one that was shown.                                       *)
LEMMA ApplyPublishStep ==
    ASSUME IInv, NEW c \in calls, ApplyPublish(c)
    PROVE  IInv'
<1>. TypeOK /\ DocumentsKnown
  BY DEF IInv
<1> DEFINE p == server[c.doc.site].policy
           x == [c EXCEPT !.phase = "applied", !.policy = p]
<1>1. c \in Call /\ c.kind = "publish" /\ c.doc \in Document /\ c.doc.site \in Sites
  BY NoDataType DEF TypeOK, ApplyPublish, Call
<1>2. p = c.doc.policy /\ p \in Policies
  BY <1>1 DEF ApplyPublish, DocumentsKnown, CallKnown, Known, Document
<1>. HIDE DEF p
<1>3. x = [kind |-> c.kind, phase |-> "applied", doc |-> c.doc, policy |-> p,
           own |-> c.own, at |-> c.at]
  <2> DEFINE q == [c EXCEPT !.phase = "applied"]
  <2>1. x = [q EXCEPT !.policy = p]
    OBVIOUS
  <2>2. q = [kind |-> c.kind, phase |-> "applied", doc |-> c.doc, policy |-> c.policy,
             own |-> c.own, at |-> c.at]
    BY <1>1 DEF Call
  <2>. HIDE DEF q
  <2>3. q \in Call
    BY <1>1, <2>2 DEF Call
  <2>4. [q EXCEPT !.policy = p] = [kind |-> q.kind, phase |-> q.phase, doc |-> q.doc, policy |-> p,
                                   own |-> q.own, at |-> q.at]
    BY <2>3 DEF Call
  <2>5. q.kind = c.kind /\ q.phase = "applied" /\ q.doc = c.doc /\ q.own = c.own /\ q.at = c.at
    BY <2>2
  <2>. QED
    BY <2>1, <2>4, <2>5
<1>4. x \in Call
  BY <1>1, <1>2, <1>3 DEF Call
<1>. HIDE DEF x
<1>5. CallKnown(x)
  BY <1>1, <1>2, <1>3 DEF CallKnown, DocumentsKnown
<1>6. calls' = (calls \ {c}) \cup {x}
  BY DEF ApplyPublish, x, p
<1>7. calls' \subseteq Call /\ \A y \in calls' : CallKnown(y)
  BY <1>4, <1>5, <1>6 DEF TypeOK, DocumentsKnown
<1>8. UNCHANGED <<server, queries, selected, before, policy, base, wanted, preview>> /\ confirm' = confirm
  BY DEF ApplyPublish, editor
<1>9. confirm' \in BOOLEAN
  BY <1>8 DEF TypeOK
<1>. QED
  BY <1>7, <1>8, <1>9, CallsStep

-----------------------------------------------------------------------------
(* A newer document is stored.                                             *)
LEMMA StoredStep ==
    ASSUME IInv, NEW s \in Sites, NEW new \in Document, new.site = s,
           new.revision = server[s].revision + 1, server' = [server EXCEPT ![s] = new],
           UNCHANGED <<queries, selected, before, editor>>,
           calls' \subseteq Call, \A c \in calls' : c \in calls \/ CallKnown(c)'
    PROVE  IInv'
<1>. TypeOK /\ DocumentsKnown /\ EditorShown
  BY DEF IInv
<1>1. server' \in [Sites -> Document] /\ \A t \in Sites : server'[t].site = t
  BY DEF TypeOK
<1>2. TypeOK'
  BY <1>1 DEF TypeOK, queries, editor
<1>3. \A doc \in Document : Known(doc) => Known(doc)'
  BY KnownKept
<1>4. ASSUME NEW c \in calls PROVE CallKnown(c)'
  <2>1. c \in Call /\ CallKnown(c) /\ c.doc \in Document
    BY DEF TypeOK, DocumentsKnown, Call
  <2>2. c.kind = "save" /\ c.phase = "applied" => NextDocument(c) \in Document
    BY <2>1, NextDocumentType
  <2>. QED
    BY <1>3, <2>1, <2>2 DEF CallKnown
<1>5. DocumentsKnown'
  <2>1. \A t \in Sites : cache[t] # NoData => Known(cache[t])'
    BY <1>3 DEF TypeOK, DocumentsKnown, queries
  <2>2. \A t \in Sites : fetch[t].phase = "read" => fetch[t].doc # NoData /\ Known(fetch[t].doc)'
    BY <1>3 DEF TypeOK, DocumentsKnown, queries
  <2>. QED
    BY <1>4, <2>1, <2>2 DEF DocumentsKnown, queries
<1>6. EditorShown'
  BY DEF EditorShown, Shown, queries, editor
<1>. QED
  BY <1>2, <1>5, <1>6 DEF IInv

LEMMA ApplySaveStep ==
    ASSUME IInv, NEW c \in calls, ApplySave(c)
    PROVE  IInv'
<1>. TypeOK /\ DocumentsKnown
  BY DEF IInv
<1> DEFINE s == c.doc.site
           new == NextDocument(c)
           x == [c EXCEPT !.phase = "applied"]
<1>1. c \in Call /\ c.doc \in Document /\ s \in Sites /\ c.policy \in Policies
  BY NoDataType DEF TypeOK, Call
<1>2. /\ c.kind = "save" /\ server[s].revision = c.doc.revision /\ Writes < MaxRevision
      /\ server' = [server EXCEPT ![s] = new] /\ calls' = (calls \ {c}) \cup {x}
      /\ UNCHANGED <<queries, selected, before, editor>>
  BY DEF ApplySave
<1>3. server[s].revision + 1 \in 0..MaxRevision
  BY <1>1, <1>2, WritesBound
<1>4. new = [site |-> s, revision |-> server[s].revision + 1, policy |-> c.policy]
  BY <1>2 DEF NextDocument
<1>5. new \in Document /\ new.site = s /\ new.revision = server[s].revision + 1
  BY <1>1, <1>3, <1>4 DEF Document
<1>6. x = [kind |-> c.kind, phase |-> "applied", doc |-> c.doc, policy |-> c.policy,
           own |-> c.own, at |-> c.at]
  BY <1>1 DEF Call
<1>7. x \in Call
  BY <1>1, <1>6 DEF Call
<1>8. NextDocument(x) = new
  BY <1>6 DEF NextDocument
<1>. HIDE DEF x, new
<1>9. server'[s] = new
  BY <1>1, <1>2 DEF TypeOK
<1>10. Known(new)'
  BY <1>5, <1>9, NoDataType DEF Known
<1>11. Known(c.doc)'
  <2>1. Known(c.doc)
    BY DEF DocumentsKnown, CallKnown
  <2>. QED
    BY <1>1, <1>2, <1>5, <2>1, KnownKept
<1>12. CallKnown(x)'
  BY <1>2, <1>6, <1>8, <1>10, <1>11 DEF CallKnown
<1>13. calls' \subseteq Call /\ \A y \in calls' : y \in calls \/ CallKnown(y)'
  BY <1>2, <1>7, <1>12 DEF TypeOK
<1>. QED
  BY <1>1, <1>2, <1>5, <1>13, StoredStep

LEMMA OtherSaveStep ==
    ASSUME IInv, NEW s \in Sites, NEW p \in OtherPolicies, OtherSave(s, p)
    PROVE  IInv'
<1>. TypeOK
  BY DEF IInv
<1> DEFINE new == [site |-> s, revision |-> server[s].revision + 1, policy |-> p]
<1>1. Writes < MaxRevision /\ server' = [server EXCEPT ![s] = new]
      /\ UNCHANGED <<queries, selected, before, editor>> /\ UNCHANGED calls
  BY DEF OtherSave
<1>2. server[s].revision + 1 \in 0..MaxRevision
  BY <1>1, WritesBound
<1>3. new \in Document /\ new.site = s /\ new.revision = server[s].revision + 1
  BY <1>2, OtherPoliciesAssumption DEF Document
<1>4. calls' \subseteq Call /\ \A y \in calls' : y \in calls \/ CallKnown(y)'
  BY <1>1 DEF TypeOK
<1>. HIDE DEF new
<1>. QED
  BY <1>1, <1>3, <1>4, StoredStep

-----------------------------------------------------------------------------
LEMMA StepHolds ==
    ASSUME IInv, [Next]_vars
    PROVE  IInv'
<1>1. CASE UNCHANGED vars
  <2>1. UNCHANGED <<server, queries, selected, before, policy, base, wanted, confirm, preview, calls>>
    BY <1>1 DEF vars, editor
  <2>2. calls' \subseteq Call /\ \A c \in calls' : CallKnown(c)
    BY <2>1 DEF IInv, TypeOK, DocumentsKnown
  <2>3. confirm' \in BOOLEAN /\ (confirm' => confirm)
    BY <2>1 DEF IInv, TypeOK
  <2>. QED
    BY <2>1, <2>2, <2>3, CallsStep
<1>2. CASE Operator
  <2>1. CASE Refresh
    <3>1. fetch' = [fetch EXCEPT ![selected] = Sent] /\ selected \in Sites
          /\ UNCHANGED <<server, cache, selected, before, editor, calls>>
      BY <2>1 DEF Refresh, IInv, TypeOK
    <3>. QED
      BY <3>1, FetchStep
  <2>. QED
    BY <1>2, <2>1, SelectSiteStep, PreviewStep, EditStep, NewCallStep, ConfirmStep DEF Operator
<1>3. CASE Answers
  BY <1>3, FetchOkStep, SaveOkStep, CallEndsStep, PreviewStep DEF Answers
<1>4. CASE Backend
  <2>1. ASSUME NEW s \in Sites, ServeRead(s) PROVE IInv'
    <3>1. fetch' = [fetch EXCEPT ![s] = [phase |-> "read", doc |-> server[s]]]
          /\ UNCHANGED <<server, cache, selected, before, editor, calls>>
      BY <2>1 DEF ServeRead
    <3>. QED
      BY <3>1, FetchStep
  <2>. QED
    BY <1>4, <2>1, OtherSaveStep, ApplySaveStep, ApplyPublishStep DEF Backend
<1>. QED
  BY <1>1, <1>2, <1>3, <1>4 DEF Next

LEMMA Inductive == Spec => []IInv
<1>1. Init => IInv
  BY InitHolds
<1>2. IInv /\ [Next]_vars => IInv'
  BY StepHolds
<1>. QED
  BY <1>1, <1>2, PTL DEF Spec

(* Whatever is read, saved or published meanwhile, the editor holds what   *)
(* the operator put there, on the document of its own site unless the site *)
(* has the same revision as the one before it.                             *)
THEOREM EditorHoldsEdits == Spec => []EditorInv
<1>1. IInv => EditorInv
  BY DEF IInv, EditorShown, EditorInv, EditsKept, EditorsOwnSite
<1>. QED
  BY <1>1, Inductive, PTL

(* publish_site_routing releases the policy that was shown when the        *)
(* operator confirmed: the revision check is enough for that.              *)
THEOREM ReleasesAreShown == Spec => []ReleasesShownPolicy
<1>1. IInv => ReleasesShownPolicy
  BY DEF IInv, DocumentsKnown, CallKnown, ReleasesShownPolicy
<1>. QED
  BY <1>1, Inductive, PTL

(* update_site_routing never overwrites a document the editor did not show *)
(* as saved, although it compares revisions only.                          *)
THEOREM SavesReplaceShown == Spec => SaveReplacesShown
<1>1. IInv /\ [Next]_vars =>
        [\A s \in Sites : \A c \in calls :
            c.kind = "save" /\ c.doc.site = s /\ server'[s] # server[s] /\ c \notin calls' =>
                server[s] = c.doc]_vars
  <2> SUFFICES ASSUME IInv, Next, NEW s \in Sites, NEW c \in calls,
                      c.kind = "save", c.doc.site = s, server'[s] # server[s], c \notin calls'
               PROVE  server[s] = c.doc
    OBVIOUS
  <2>1. PICK x \in calls : ApplySave(x)
    <3>1. \A t \in Sites, p \in OtherPolicies : ~OtherSave(t, p)
      BY DEF OtherSave
    <3>. QED
      BY <3>1 DEF Next, Operator, Answers, Backend, SelectSite, AskPreview, Refresh, Edit,
                  ApplyImport, PreviewGone, Save, OpenConfirm, CloseConfirm, Publish, FetchOk,
                  SaveOk, PublishOk, CallFails, PreviewOk, ServeRead, ApplyPublish
  <2>2. x = c
    BY <2>1 DEF ApplySave
  <2>3. server[c.doc.site].revision = c.doc.revision
    BY <2>1, <2>2 DEF ApplySave
  <2>. QED
    BY <2>3 DEF IInv, DocumentsKnown, CallKnown, Known
<1>. QED
  BY <1>1, Inductive, PTL DEF Spec, SaveReplacesShown
=============================================================================
