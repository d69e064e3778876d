--------------------------- MODULE PagesProofs ----------------------------
(***************************************************************************)
(* What seven parts of the dashboard guarantee for every value of their    *)
(* constants.                                                              *)
(*                                                                         *)
(*  - SubscriptionPublish: SelectionNotCarried is about a call; its sites  *)
(*    come from the page, so the invariant says that the page never has    *)
(*    more sites selected than were ticked since the dialog was opened,    *)
(*    whichever effects ran in between.  PageInv adds the added source.    *)
(*  - ProxySelection: what was announced and released.                     *)
(*  - LoginForm: a code is used once, because the forms have one call each *)
(*    and a challenge that was used is pending nowhere.                    *)
(*  - ServiceQuality: the comparison of rows is an order; a strict order   *)
(*    of n rows gives them the ranks 0 to n - 1.                           *)
(*  - Toasts: what is shown, then what waits, is in order, and lacks of    *)
(*    the notices sent only closed ones and ones five newer have followed. *)
(*  - ConnectionHistory: the rank of a stored snapshot never falls, so     *)
(*    that each answer holds what the pages before it have not shown.      *)
(*  - Overview: one pass in any order keeps the latest reading of each     *)
(*    node and minute.                                                     *)
(***************************************************************************)
EXTENDS SubscriptionPublish, ProxySelection, LoginForm, ServiceQuality,
        ConnectionHistory, Toasts, Overview,
        FiniteSetTheorems, WellFoundedInduction, SequenceTheorems, TLAPS

-----------------------------------------------------------------------------
(* Finite sets and numbers.                                                *)
(* A proper subset of a finite set has fewer members.                      *)
LEMMA ProperSubsetIsSmaller ==
    ASSUME NEW S, IsFiniteSet(S), NEW T, T \subseteq S, T # S
    PROVE  IsFiniteSet(T) /\ Cardinality(T) < Cardinality(S)
<1>1. IsFiniteSet(T)
  BY FS_Subset
<1>2. Cardinality(T) <= Cardinality(S)
  BY FS_Subset
<1>3. Cardinality(T) # Cardinality(S)
  BY FS_Subset
<1>4. Cardinality(T) \in Nat /\ Cardinality(S) \in Nat
  BY <1>1, FS_CardinalityType
<1>. QED
  BY <1>1, <1>2, <1>3, <1>4

(* Every set of natural numbers has a least one, the base of the           *)
(* inductions below: a claim that fails, fails at a least number.          *)
LEMMA HasSmallest ==
    ASSUME NEW S \in SUBSET Nat, S # {}
    PROVE  \E m \in S : \A x \in S : m <= x
<1>1. PICK R : R = {ss \in Nat \X Nat : ss[1] < ss[2]}
  OBVIOUS
<1>2. IsWellFoundedOn(R, Nat)
  BY <1>1, NatLessThanWellFounded DEF OpToRel
<1>3. PICK m \in S : \A z \in S : ~(<<z, m>> \in R)
  BY <1>2, WFMin
<1>4. ASSUME NEW x \in S PROVE m <= x
  <2>1. x \in Nat /\ m \in Nat
    OBVIOUS
  <2>2. x < m => <<x, m>> \in R
    BY <1>1, <2>1
  <2>. QED
    BY <1>3, <2>1, <2>2
<1>. QED
  BY <1>4

Increasing(s) == \A j, k \in DOMAIN s : j < k => s[j] < s[k]

(* Ascending lists the numbers of a finite set, each of them once and in   *)
(* order: a number of n has a rank from 1 to n of its own.                 *)
LEMMA AscendingProperties ==
    ASSUME NEW S \in SUBSET Int, IsFiniteSet(S)
    PROVE  /\ Cardinality(S) \in Nat /\ DOMAIN Ascending(S) = 1..Cardinality(S)
           /\ \A i \in DOMAIN Ascending(S) : Ascending(S)[i] \in S
           /\ \A x \in S : \E i \in DOMAIN Ascending(S) : Ascending(S)[i] = x
           /\ Increasing(Ascending(S))
<1> DEFINE n == Cardinality(S)
           upto(x) == {y \in S : y <= x}
           f == [x \in S |-> Cardinality(upto(x))]
           nth(i) == CHOOSE x \in S : Cardinality(upto(x)) = i
<1>1. n \in Nat
  BY FS_CardinalityType
<1>2. \A x \in S : IsFiniteSet(upto(x)) /\ Cardinality(upto(x)) \in Nat /\ Cardinality(upto(x)) <= n
  BY FS_Subset, FS_CardinalityType
<1>3. \A x \in S : Cardinality(upto(x)) # 0
  <2> SUFFICES ASSUME NEW x \in S PROVE Cardinality(upto(x)) # 0
    OBVIOUS
  <2>1. x \in upto(x)
    OBVIOUS
  <2>. QED
    BY <1>2, <2>1, FS_EmptySet
<1>4. \A x, y \in S : x < y => Cardinality(upto(x)) < Cardinality(upto(y))
  <2> SUFFICES ASSUME NEW x \in S, NEW y \in S, x < y
               PROVE  Cardinality(upto(x)) < Cardinality(upto(y))
    OBVIOUS
  <2>1. upto(x) \subseteq upto(y) /\ upto(x) # upto(y)
    <3>1. y \in upto(y) /\ y \notin upto(x)
      OBVIOUS
    <3>2. \A z \in S : z <= x => z <= y
      OBVIOUS
    <3>. QED
      BY <3>1, <3>2
  <2>. QED
    BY <1>2, <2>1, ProperSubsetIsSmaller
<1>5. \A x, y \in S : x < y \/ y < x \/ x = y
  OBVIOUS
<1>. HIDE DEF upto, n
<1>6. \A x \in S : Cardinality(upto(x)) \in 1..n
  BY <1>1, <1>2, <1>3
<1>7. \A x, y \in S : Cardinality(upto(x)) = Cardinality(upto(y)) => x = y
  <2> SUFFICES ASSUME NEW x \in S, NEW y \in S, Cardinality(upto(x)) = Cardinality(upto(y))
               PROVE  x = y
    OBVIOUS
  <2>1. Cardinality(upto(x)) \in Nat /\ Cardinality(upto(y)) \in Nat
    BY <1>2
  <2>2. ~(x < y) /\ ~(y < x)
    BY <1>4, <2>1
  <2>. QED
    BY <1>5, <2>2
<1>8. f \in Injection(S, 1..n)
  BY <1>6, <1>7 DEF Injection, IsInjective
<1>9. IsFiniteSet(1..n) /\ Cardinality(1..n) = n
  BY <1>1, FS_Interval
<1>10. f \in Surjection(S, 1..n)
  <2>. HIDE DEF f
  <2>. QED
    BY <1>8, <1>9, FS_Injection DEF n
<1>11. \A i \in 1..n : \E x \in S : Cardinality(upto(x)) = i
  BY <1>10 DEF Surjection
<1>12. \A i \in 1..n : nth(i) \in S /\ Cardinality(upto(nth(i))) = i
  BY <1>11
<1>13. \A x \in S : nth(Cardinality(upto(x))) = x
  BY <1>6, <1>7, <1>12
<1>14. Ascending(S) = [i \in 1..n |-> nth(i)]
  BY DEF Ascending, n, upto
<1>. HIDE DEF nth
<1>15. DOMAIN Ascending(S) = 1..n /\ \A i \in 1..n : Ascending(S)[i] = nth(i)
  BY <1>14
<1>16. \A x \in S : \E i \in 1..n : Ascending(S)[i] = x
  BY <1>6, <1>13, <1>15
<1>17. ASSUME NEW i \in 1..n, NEW j \in 1..n, i < j PROVE Ascending(S)[i] < Ascending(S)[j]
  <2>1. PICK x \in S : x = Ascending(S)[i] /\ Cardinality(upto(x)) = i
    BY <1>12, <1>15
  <2>2. PICK y \in S : y = Ascending(S)[j] /\ Cardinality(upto(y)) = j
    BY <1>12, <1>15
  <2>3. y < x => j < i
    BY <1>4, <2>1, <2>2
  <2>4. x # y
    BY <1>17, <2>1, <2>2
  <2>. QED
    BY <1>5, <1>17, <2>1, <2>2, <2>3, <2>4
<1>18. Increasing(Ascending(S))
  BY <1>15, <1>17 DEF Increasing
<1>. QED
  BY <1>1, <1>12, <1>15, <1>16, <1>18 DEF n

(* What a finite set is mapped onto is finite.                             *)
LEMMA ImageIsFinite ==
    ASSUME NEW S, IsFiniteSet(S), NEW f, DOMAIN f = S
    PROVE  IsFiniteSet({f[x] : x \in S})
<1>1. PICK T : T = {f[x] : x \in S}
  OBVIOUS
<1>2. PICK h : h = [x \in S |-> f[x]]
  OBVIOUS
<1>3. h \in Surjection(S, T)
  BY <1>1, <1>2 DEF Surjection
<1>. QED
  BY <1>1, <1>3, FS_Surjection

(* The largest is the one that no other exceeds.                           *)
LEMMA MaxIs ==
    ASSUME NEW S \in SUBSET Int, NEW m \in S, \A x \in S : x <= m
    PROVE  Max(S) = m
<1>1. \A x \in S : m >= x
  OBVIOUS
<1>2. \A a \in S, b \in S : a >= b /\ b >= a => a = b
  OBVIOUS
<1>3. Max(S) \in S /\ \A x \in S : Max(S) >= x
  BY <1>1 DEF Max
<1>. QED
  BY <1>1, <1>2, <1>3

-----------------------------------------------------------------------------
(* Publishing a subscription.                                              *)
CallFields == {"phase", "version", "sites", "picked"}

(* The inductive invariant: the selection is what was ticked, and a call   *)
(* is a record that carries the selection and the ticks of its time.       *)
TickedInv ==
    /\ selectedSiteIds \subseteq picked
    /\ publishing # NoCall => /\ DOMAIN publishing = CallFields
                              /\ publishing.sites \subseteq publishing.picked

-----------------------------------------------------------------------------
(* The effects of a rendering (the one that clears the selection for       *)
(* another version among them) keep selected sites within the given ones.  *)
LEMMA RenderedKeepsTicked ==
    ASSUME NEW c, NEW s, NEW v, NEW sites, NEW ticked,
           sites \subseteq ticked, Rendered(c, s, v, sites)
    PROVE  selectedSiteIds' \subseteq ticked
BY DEF Rendered

(* A step that changes no more than the phase of the call keeps its sites. *)
LEMMA PhaseKeepsSites ==
    ASSUME publishing # NoCall, TickedInv, NEW p,
           publishing' = [publishing EXCEPT !.phase = p]
    PROVE  /\ DOMAIN publishing' = CallFields
           /\ publishing'.sites \subseteq publishing'.picked
<1>1. DOMAIN publishing = CallFields /\ publishing.sites \subseteq publishing.picked
  BY DEF TickedInv
<1>2. DOMAIN publishing' = CallFields
  BY <1>1
<1>3. publishing'.sites = publishing.sites /\ publishing'.picked = publishing.picked
  BY <1>1 DEF CallFields
<1> QED
  BY <1>1, <1>2, <1>3

(* No phase of a call is that of NoCall.                                   *)
LEMMA PhaseIsCall ==
    ASSUME publishing.phase \in {"sent", "applied", "refetching"}
    PROVE  publishing # NoCall
BY DEF NoCall

LEMMA TickedInit == Init => TickedInv
BY DEF Init, TickedInv, NoCall

LEMMA TickedStep == TickedInv /\ [Next]_vars => TickedInv'
<1> SUFFICES ASSUME TickedInv, [Next]_vars PROVE TickedInv'
  OBVIOUS
<1>1. CASE UNCHANGED vars
  BY <1>1 DEF TickedInv, vars, selection
<1>2. CASE Refetch
  <2>1. Rendered(catalog', selectedSourceId, selectedVersionId, selectedSiteIds)
    BY <1>2 DEF Refetch
  <2>2. selectedSiteIds' \subseteq picked
    BY <2>1, RenderedKeepsTicked DEF TickedInv
  <2> QED
    BY <1>2, <2>2 DEF TickedInv, Refetch
<1>3. ASSUME NEW s \in Sources, SelectSource(s) PROVE TickedInv'
  <2>1. Rendered(catalog, s, None, selectedSiteIds)
    BY <1>3 DEF SelectSource
  <2>2. selectedSiteIds' \subseteq picked
    BY <2>1, RenderedKeepsTicked DEF TickedInv
  <2> QED
    BY <1>3, <2>2 DEF TickedInv, SelectSource
<1>4. ASSUME NEW kind, SubmitSource(kind) PROVE TickedInv'
  BY <1>4 DEF TickedInv, SubmitSource, selection
<1>5. CASE OpenForm \/ CloseForm \/ Continue \/ ClosePublish
  BY <1>5 DEF TickedInv, OpenForm, CloseForm, Continue, ClosePublish, selection
<1>6. ASSUME NEW x \in Sites, ToggleSite(x) PROVE TickedInv'
  BY <1>6 DEF TickedInv, ToggleSite
<1>7. CASE OpenPublish
  BY <1>7 DEF TickedInv, OpenPublish
<1>8. CASE Confirm
  BY <1>8 DEF TickedInv, Confirm, CallFields, selection
<1>9. CASE AddSucceeds
  <2>1. PICK v : Rendered(catalog, adding.source, v, selectedSiteIds)
    BY <1>9 DEF AddSucceeds
  <2>2. selectedSiteIds' \subseteq picked
    BY <2>1, RenderedKeepsTicked DEF TickedInv
  <2> QED
    BY <1>9, <2>2 DEF TickedInv, AddSucceeds
<1>10. CASE AddFails \/ AddApplies
  BY <1>10 DEF TickedInv, AddFails, AddApplies, selection
<1>11. ASSUME NEW kind, OtherAdds(kind) PROVE TickedInv'
  BY <1>11 DEF TickedInv, OtherAdds, selection
<1>12. ASSUME NEW s, WorkerFinds(s) PROVE TickedInv'
  BY <1>12 DEF TickedInv, WorkerFinds, selection
<1>13. CASE PublishApplies
  <2>1. publishing # NoCall
    BY <1>13, PhaseIsCall DEF PublishApplies
  <2>2. publishing' = [publishing EXCEPT !.phase = "applied"]
    BY <1>13 DEF PublishApplies
  <2>3. DOMAIN publishing' = CallFields /\ publishing'.sites \subseteq publishing'.picked
    BY <2>1, <2>2, PhaseKeepsSites
  <2> QED
    BY <1>13, <2>3 DEF TickedInv, PublishApplies, selection
<1>14. CASE PublishSucceeds
  <2>1. publishing # NoCall
    BY <1>14, PhaseIsCall DEF PublishSucceeds
  <2>2. publishing' = [publishing EXCEPT !.phase = "refetching"]
    BY <1>14 DEF PublishSucceeds
  <2>3. DOMAIN publishing' = CallFields /\ publishing'.sites \subseteq publishing'.picked
    BY <2>1, <2>2, PhaseKeepsSites
  <2> QED
    BY <1>14, <2>3 DEF TickedInv, PublishSucceeds, selection
<1>15. CASE PublishLeaves
  BY <1>15 DEF TickedInv, PublishLeaves
<1>16. CASE PublishFails
  BY <1>16 DEF TickedInv, PublishFails, selection
<1> QED
  BY <1>1, <1>2, <1>3, <1>4, <1>5, <1>6, <1>7, <1>8, <1>9, <1>10, <1>11, <1>12,
     <1>13, <1>14, <1>15, <1>16 DEF Next, Operator, Answers, Backend

(* However catalogues, versions and dialogs change between the tick and    *)
(* the confirmation, publishSubscriptionVersion is called with no site     *)
(* that was not ticked for it (SubscriptionsPage).                         *)
THEOREM SelectionIsNeverCarried == Spec => []SelectionNotCarried
<1>1. TickedInv => SelectionNotCarried
  BY DEF TickedInv, SelectionNotCarried
<1> QED
  BY <1>1, TickedInit, TickedStep, PTL DEF Spec

-----------------------------------------------------------------------------
(* A set of numbers with a bound has a largest one.                        *)
LEMMA HasLargest ==
    ASSUME NEW n \in Nat, NEW S \in SUBSET (0..n), S # {}
    PROVE  \E m \in S : \A x \in S : x <= m
<1> DEFINE T == {n - x : x \in S}
<1>0. \A x \in S : x \in Nat /\ n - x \in Nat
  OBVIOUS
<1>1. T \in SUBSET Nat /\ T # {}
  BY <1>0
<1>2. PICK R : R = {ss \in Nat \X Nat : ss[1] < ss[2]}
  OBVIOUS
<1>3. IsWellFoundedOn(R, Nat)
  BY <1>2, NatLessThanWellFounded DEF OpToRel
<1>. HIDE DEF T
<1>4. PICK y \in T : \A z \in T : ~(<<z, y>> \in R)
  BY <1>1, <1>3, WFMin
<1>5. ASSUME NEW z \in T PROVE y <= z
  <2>1. y \in Nat /\ z \in Nat
    BY <1>1
  <2>2. z < y => <<z, y>> \in R
    BY <1>2, <2>1
  <2>. QED
    BY <1>4, <2>1, <2>2
<1>6. PICK m \in S : y = n - m
  BY DEF T
<1>7. \A x \in S : n - m <= n - x
  BY <1>5, <1>6 DEF T
<1>. QED
  BY <1>0, <1>7

-----------------------------------------------------------------------------
(* The outbound services page.  A node's version is that of a release that *)
(* covers the node, hence never newer than the latest one of the node; the *)
(* warning key of a mounted panel is that of what it shows, and was        *)
(* announced.                                                              *)
CoveredInv == \A n \in ProxyNodes : nodeVersion[n] # 0 => n \in releases[nodeVersion[n]].nodes

WarningInv ==
    mounted => /\ warningKey = KeyOf(selectedNode, configsShown[selectedNode])
               /\ warningKey # NoWarning => warned = warningKey

ServerInv == ProxyTypeOK /\ CoveredInv /\ SelectionInv

LEMMA LatestIsLatest ==
    ASSUME ServerInv, NEW n \in ProxyNodes
    PROVE  /\ LatestOf(n) \in 0..Len(releases) /\ nodeVersion[n] <= LatestOf(n)
           /\ LatestOf(n) # 0 => n \in releases[LatestOf(n)].nodes
<1> DEFINE covering == {v \in DOMAIN releases : n \in releases[v].nodes}
<1>1. /\ releases \in Seq(Release) /\ Len(releases) \in Nat /\ DOMAIN releases = 1..Len(releases)
      /\ nodeVersion[n] \in 0..Len(releases)
  BY DEF ServerInv, ProxyTypeOK
<1>2. nodeVersion[n] # 0 => nodeVersion[n] \in covering
  BY <1>1 DEF ServerInv, CoveredInv
<1>3. CASE covering = {}
  BY <1>1, <1>2, <1>3 DEF LatestOf
<1>4. CASE covering # {}
  <2>1. covering \in SUBSET (0..Len(releases))
    BY <1>1
  <2>2. \E m \in covering : \A x \in covering : x <= m
    <3>. HIDE DEF covering
    <3>. QED
      BY <1>1, <1>4, <2>1, HasLargest
  <2>3. PICK m : m = CHOOSE v \in covering : \A w \in covering : w <= v
    OBVIOUS
  <2>4. m \in covering /\ \A w \in covering : w <= m
    BY <2>2, <2>3
  <2>5. LatestOf(n) = m
    BY <1>4, <2>3 DEF LatestOf
  <2>. QED
    BY <1>1, <1>2, <2>4, <2>5
<1>. QED
  BY <1>3, <1>4

(* A step that leaves the releases alone                                   *)
LEMMA SameReleases ==
    ASSUME ServerInv, releases' = releases, ProxyTypeOK', CoveredInv'
    PROVE  ServerInv'
BY DEF ServerInv, SelectionInv, NoUnseenRelease, RetriesReleaseOnce

(* A release is made with a new key, on the version it expects.            *)
LEMMA ReleaseMade ==
    ASSUME ServerInv, NEW covered \in SUBSET ProxyNodes, NEW key \in Selection \cup {Nothing},
           Len(releases) < MaxReleases, Creates(covered, key), nodeVersion' = nodeVersion,
           key # Nothing => /\ \A v \in DOMAIN releases : releases[v].key # key
                            /\ key.expected # 0 => key.expected = Len(releases)
    PROVE  /\ releases' \in Seq(Release) /\ Len(releases') <= MaxReleases
           /\ Len(releases) <= Len(releases')
           /\ CoveredInv' /\ SelectionInv'
<1>1. releases \in Seq(Release) /\ Len(releases) \in Nat /\ DOMAIN releases = 1..Len(releases)
  BY DEF ServerInv, ProxyTypeOK
<1>2. PICK r : r = [nodes |-> covered, key |-> key, active |-> TRUE]
  OBVIOUS
<1>3. r \in Release /\ r.key = key
  BY <1>2 DEF Release
<1>4. releases' = Append(releases, r)
  BY <1>2 DEF Creates
<1>5. /\ releases' \in Seq(Release) /\ Len(releases') = Len(releases) + 1
      /\ DOMAIN releases' = 1..(Len(releases) + 1)
      /\ \A v \in 1..Len(releases) : releases'[v] = releases[v]
      /\ releases'[Len(releases) + 1] = r
  BY <1>1, <1>3, <1>4
<1>6. \A n \in ProxyNodes : nodeVersion[n] # 0 => nodeVersion[n] \in 1..Len(releases)
  BY <1>1 DEF ServerInv, ProxyTypeOK
<1>7. CoveredInv'
  BY <1>5, <1>6 DEF CoveredInv, ServerInv
<1>8. \A v \in DOMAIN releases' : v \in DOMAIN releases \/ v = Len(releases) + 1
  BY <1>1, <1>5
<1>9. NoUnseenRelease'
  <2> SUFFICES ASSUME NEW v \in DOMAIN releases',
                      releases'[v].key # Nothing, releases'[v].key.expected # 0
               PROVE  releases'[v].key.expected = v - 1
    BY DEF NoUnseenRelease
  <2>1. CASE v \in DOMAIN releases
    BY <1>1, <1>5, <2>1 DEF ServerInv, SelectionInv, NoUnseenRelease
  <2>2. CASE v = Len(releases) + 1
    BY <1>1, <1>3, <1>5, <2>2
  <2>. QED
    BY <1>8, <2>1, <2>2
<1>10. RetriesReleaseOnce'
  <2> SUFFICES ASSUME NEW v \in DOMAIN releases', NEW w \in DOMAIN releases',
                      releases'[v].key = releases'[w].key, releases'[v].key # Nothing
               PROVE  v = w
    BY DEF RetriesReleaseOnce
  <2>1. CASE v \in DOMAIN releases /\ w \in DOMAIN releases
    BY <1>1, <1>5, <2>1 DEF ServerInv, SelectionInv, RetriesReleaseOnce
  <2>2. CASE v = Len(releases) + 1 /\ w \in DOMAIN releases
    BY <1>1, <1>3, <1>5, <2>2
  <2>3. CASE v \in DOMAIN releases /\ w = Len(releases) + 1
    BY <1>1, <1>3, <1>5, <2>3
  <2>. QED
    BY <1>8, <2>1, <2>2, <2>3
<1>. QED
  BY <1>1, <1>5, <1>7, <1>9, <1>10, ProxyAssumption DEF SelectionInv

LEMMA ServerInit == ProxyInit => ServerInv
<1> SUFFICES ASSUME ProxyInit PROVE ServerInv
  OBVIOUS
<1>1. PICK r : r = [nodes |-> ProxyNodes, key |-> Nothing, active |-> FALSE]
  OBVIOUS
<1>2. r \in Release /\ r.nodes = ProxyNodes /\ r.key = Nothing
  BY <1>1 DEF Release
<1>3. releases = <<r>>
  BY <1>1 DEF ProxyInit
<1>4. /\ releases \in Seq(Release) /\ Len(releases) = 1 /\ DOMAIN releases = {1}
      /\ releases[1] = r
  BY <1>2, <1>3
<1>5. NoSnapshot \in ReportedGroup
  BY DEF NoSnapshot, ReportedGroup
<1>6. selectedNode \in ProxyNodes
  BY ProxyAssumption DEF ProxyInit, FirstNode
<1>7. snapshots \in [ProxyNodes -> ReportedGroup] /\ configsShown \in [ProxyNodes -> ReportedGroup]
  BY <1>5, ProxyAssumption DEF ProxyInit
<1>8. PICK v \in {0, 1} : nodeVersion = [n \in ProxyNodes |-> v]
  BY DEF ProxyInit
<1>9. nodeVersion \in [ProxyNodes -> 0..Len(releases)] /\ nodesShown = nodeVersion
  BY <1>4, <1>8 DEF ProxyInit
<1>10. \A n \in ProxyNodes : nodesShown[n] \in 0..nodeVersion[n]
  BY <1>4, <1>9
<1>11. ProxyTypeOK
  BY <1>4, <1>6, <1>7, <1>9, <1>10, ProxyAssumption DEF ProxyInit, ProxyTypeOK
<1>12. CoveredInv
  BY <1>2, <1>4, <1>8 DEF CoveredInv
<1>13. SelectionInv
  BY <1>2, <1>4 DEF SelectionInv, NoUnseenRelease, RetriesReleaseOnce
<1>. QED
  BY <1>11, <1>12, <1>13 DEF ServerInv

LEMMA ServerStep == ServerInv /\ [ProxyNext]_proxyVars => ServerInv'
<1> SUFFICES ASSUME ServerInv, [ProxyNext]_proxyVars PROVE ServerInv'
  OBVIOUS
<1>. ProxyTypeOK /\ CoveredInv
  BY DEF ServerInv
<1>a. releases \in Seq(Release) /\ Len(releases) \in Nat /\ DOMAIN releases = 1..Len(releases)
  BY DEF ProxyTypeOK
<1>1. CASE UNCHANGED proxyVars
  BY <1>1 DEF proxyVars, server, panel, dialog, ServerInv, ProxyTypeOK, CoveredInv, SelectionInv,
              NoUnseenRelease, RetriesReleaseOnce
<1>2. ASSUME NEW n \in ProxyNodes, NEW report \in Reports, agent_proxy_config(n, report)
      PROVE  ServerInv'
  <2>1. PICK s : s = IF report.available THEN report ELSE [report EXCEPT !.group = snapshots[n].group]
    OBVIOUS
  <2>2. report \in ReportedGroup /\ snapshots[n] \in ReportedGroup
    BY ProxyAssumption DEF ProxyTypeOK
  <2>3. [report EXCEPT !.group = snapshots[n].group] \in ReportedGroup
    <3>1. \E G, E : ReportedGroup = [available : BOOLEAN, group : G, error : E]
      BY Zenon DEF ReportedGroup
    <3>2. PICK G, E : ReportedGroup = [available : BOOLEAN, group : G, error : E]
      BY <3>1
    <3>3. snapshots[n].group \in G
      BY <2>2, <3>2
    <3>. QED
      BY <2>2, <3>2, <3>3
  <2>4. s \in ReportedGroup
    BY <2>1, <2>2, <2>3
  <2>5. /\ snapshots' = [snapshots EXCEPT ![n] = s] /\ reported' \in 0..MaxReports
        /\ UNCHANGED <<releases, nodeVersion, panel, dialog>>
    BY <1>2, <2>1, ProxyAssumption DEF agent_proxy_config, ProxyTypeOK
  <2>6. ProxyTypeOK' /\ CoveredInv'
    BY <2>4, <2>5 DEF ProxyTypeOK, CoveredInv, panel, dialog
  <2>. QED
    BY <2>5, <2>6, SameReleases
<1>3. ASSUME NEW n \in ProxyNodes, NodeCalls(n) PROVE ServerInv'
  <2>1. PICK l : l = LatestOf(n)
    OBVIOUS
  <2>2. /\ l \in 0..Len(releases) /\ nodeVersion[n] <= l /\ (l # 0 => n \in releases[l].nodes)
    BY <2>1, LatestIsLatest
  <2>3. /\ nodeVersion' = [nodeVersion EXCEPT ![n] = l]
        /\ UNCHANGED <<snapshots, reported, releases, panel, dialog>>
    BY <1>3, <2>1 DEF NodeCalls
  <2>4. nodeVersion' \in [ProxyNodes -> 0..Len(releases)] /\ CoveredInv'
    BY <2>2, <2>3 DEF ProxyTypeOK, CoveredInv
  <2>5. \A m \in ProxyNodes : nodeVersion[m] \in Nat /\ nodeVersion'[m] \in Nat /\ nodeVersion[m] <= nodeVersion'[m]
    BY <1>a, <2>2, <2>3 DEF ProxyTypeOK
  <2>6. \A m \in ProxyNodes : nodesShown'[m] \in 0..nodeVersion'[m]
    BY <2>3, <2>5 DEF ProxyTypeOK, panel
  <2>7. ProxyTypeOK'
    BY <2>3, <2>4, <2>6 DEF ProxyTypeOK, panel, dialog
  <2>. QED
    BY <2>3, <2>4, <2>7, SameReleases
<1>4. ASSUME NEW v \in 1..MaxReleases, ReleaseEnds(v) PROVE ServerInv'
  <2>1. v \in DOMAIN releases /\ UNCHANGED <<snapshots, reported, nodeVersion, panel, dialog>>
    BY <1>4 DEF ReleaseEnds
  <2>2. PICK r : r = [releases[v] EXCEPT !.active = FALSE]
    OBVIOUS
  <2>3. releases[v] \in Release
    BY <1>a, <2>1
  <2>4. r \in Release /\ r.nodes = releases[v].nodes /\ r.key = releases[v].key
    BY <2>2, <2>3 DEF Release
  <2>5. releases' = [releases EXCEPT ![v] = r]
    BY <1>4, <2>2 DEF ReleaseEnds
  <2>6. /\ releases' \in Seq(Release) /\ Len(releases') = Len(releases)
        /\ DOMAIN releases' = DOMAIN releases
    BY <1>a, <2>1, <2>4, <2>5
  <2>7. \A w \in DOMAIN releases :
           releases'[w].nodes = releases[w].nodes /\ releases'[w].key = releases[w].key
    BY <1>a, <2>4, <2>5
  <2>8. \A m \in ProxyNodes : nodeVersion[m] # 0 => nodeVersion[m] \in DOMAIN releases
    BY <1>a DEF ProxyTypeOK
  <2>9. ProxyTypeOK'
    BY <2>1, <2>6 DEF ProxyTypeOK, panel, dialog
  <2>10. CoveredInv'
    BY <2>1, <2>7, <2>8 DEF CoveredInv
  <2>11. SelectionInv'
    BY <2>6, <2>7 DEF ServerInv, SelectionInv, NoUnseenRelease, RetriesReleaseOnce
  <2>. QED
    BY <2>9, <2>10, <2>11 DEF ServerInv
<1>5. CASE OtherRelease
  <2>1. /\ Len(releases) < MaxReleases /\ Creates(ProxyNodes, Nothing)
        /\ UNCHANGED <<snapshots, reported, nodeVersion, panel, dialog>>
    BY <1>5 DEF OtherRelease
  <2>2. /\ releases' \in Seq(Release) /\ Len(releases') <= MaxReleases
        /\ Len(releases) <= Len(releases') /\ CoveredInv' /\ SelectionInv'
    BY <2>1, ReleaseMade
  <2>3. nodeVersion' \in [ProxyNodes -> 0..Len(releases')]
    BY <1>a, <2>1, <2>2 DEF ProxyTypeOK
  <2>4. ProxyTypeOK'
    BY <2>1, <2>2, <2>3 DEF ProxyTypeOK, panel, dialog
  <2>. QED
    BY <2>2, <2>4 DEF ServerInv
<1>6. CASE select_node_proxy
  <2>1. /\ UNCHANGED <<snapshots, reported, nodeVersion, panel, pending>>
        /\ request = "sent" /\ request' \in {"ok", "refused"} /\ pending # Nothing
    BY <1>6 DEF select_node_proxy, ProxyTypeOK
  <2>2. CASE releases' = releases
    <3>1. ProxyTypeOK' /\ CoveredInv'
      BY <2>1, <2>2 DEF ProxyTypeOK, CoveredInv, panel
    <3>. QED
      BY <2>2, <3>1, SameReleases
  <2>3. CASE releases' # releases
    <3>1. /\ ~SameRequest /\ ExpectedCurrent /\ Len(releases) < MaxReleases
          /\ Creates({pending.node}, pending)
      BY <1>6, <2>3 DEF select_node_proxy, Answered
    <3>2. pending \in Selection /\ {pending.node} \in SUBSET ProxyNodes
      BY <2>1 DEF ProxyTypeOK, Selection
    <3>3. /\ \A v \in DOMAIN releases : releases[v].key # pending
          /\ pending.expected # 0 => pending.expected = Len(releases)
      BY <3>1 DEF SameRequest, ExpectedCurrent
    <3>4. PICK key, covered : key = pending /\ covered = {pending.node}
      OBVIOUS
    <3>5. /\ key \in Selection \cup {Nothing} /\ covered \in SUBSET ProxyNodes
          /\ Creates(covered, key) /\ nodeVersion' = nodeVersion
          /\ \A v \in DOMAIN releases : releases[v].key # key
          /\ key.expected # 0 => key.expected = Len(releases)
      BY <2>1, <3>1, <3>2, <3>3, <3>4
    <3>6. /\ releases' \in Seq(Release) /\ Len(releases') <= MaxReleases
          /\ Len(releases) <= Len(releases') /\ CoveredInv' /\ SelectionInv'
      BY <3>1, <3>5, ReleaseMade
    <3>7. nodeVersion' \in [ProxyNodes -> 0..Len(releases')]
      BY <1>a, <2>1, <3>6 DEF ProxyTypeOK
    <3>8. ProxyTypeOK'
      BY <2>1, <3>6, <3>7 DEF ProxyTypeOK, panel
    <3>. QED
      BY <3>6, <3>8 DEF ServerInv
  <2>. QED
    BY <2>2, <2>3
<1>7. CASE PollConfigs \/ RefreshNodes \/ QueryFails \/ \E n \in ProxyNodes : SelectNode(n)
  <2>1. UNCHANGED server /\ UNCHANGED dialog
    BY <1>7 DEF PollConfigs, RefreshNodes, QueryFails, SelectNode
  <2>2. /\ configsShown' \in {snapshots, configsShown} /\ nodesShown' \in {nodeVersion, nodesShown}
        /\ mounted' \in BOOLEAN /\ selectedNode' \in ProxyNodes
    BY <1>7 DEF PollConfigs, RefreshNodes, QueryFails, SelectNode, ProxyTypeOK
  <2>3. \A n \in ProxyNodes : nodesShown'[n] \in 0..nodeVersion[n]
    BY <1>a, <2>2 DEF ProxyTypeOK
  <2>4. ProxyTypeOK' /\ CoveredInv'
    BY <2>1, <2>2, <2>3 DEF ProxyTypeOK, CoveredInv, server, dialog
  <2>. QED
    BY <2>1, <2>4, SameReleases DEF server
<1>8. ASSUME NEW outbound \in Outbounds, SelectEndpoint(outbound) PROVE ServerInv'
  <2>1. /\ UNCHANGED <<server, panel, request>>
        /\ pending' = [node |-> selectedNode, outbound |-> outbound, expected |-> nodesShown[selectedNode]]
    BY <1>8 DEF SelectEndpoint
  <2>2. selectedNode \in ProxyNodes /\ nodesShown[selectedNode] \in 0..MaxReleases
    <3>1. selectedNode \in ProxyNodes
      BY DEF ProxyTypeOK
    <3>2. nodeVersion[selectedNode] \in 0..Len(releases) /\ Len(releases) <= MaxReleases
      BY <3>1 DEF ProxyTypeOK
    <3>3. nodesShown[selectedNode] \in 0..nodeVersion[selectedNode]
      BY <3>1 DEF ProxyTypeOK
    <3>. QED
      BY <1>a, <3>1, <3>2, <3>3, ProxyAssumption
  <2>3. pending' \in Selection
    BY <2>1, <2>2 DEF Selection
  <2>4. pending = Nothing
    BY <1>8 DEF SelectEndpoint
  <2>5. ProxyTypeOK' /\ CoveredInv'
    BY <2>1, <2>3, <2>4 DEF ProxyTypeOK, CoveredInv, server, panel
  <2>. QED
    BY <2>1, <2>5, SameReleases DEF server
<1>9. CASE CloseDialog \/ ConfirmSelection \/ SelectionFails
  <2>1. UNCHANGED <<server, panel>>
    BY <1>9 DEF CloseDialog, ConfirmSelection, SelectionFails
  <2>2. /\ pending' \in Selection \cup {Nothing} /\ request' \in {"no", "sent", "ok", "refused"}
        /\ pending' = Nothing => request' = "no"
    BY <1>9 DEF CloseDialog, ConfirmSelection, SelectionFails, ProxyTypeOK
  <2>3. ProxyTypeOK' /\ CoveredInv'
    BY <2>1, <2>2 DEF ProxyTypeOK, CoveredInv, server, panel
  <2>. QED
    BY <2>1, <2>3, SameReleases DEF server
<1>10. CASE SelectionMade
  <2>1. /\ UNCHANGED <<server, mounted, selectedNode>> /\ request' = "no" /\ pending' = Nothing
        /\ nodesShown' = nodeVersion /\ configsShown' = snapshots
    BY <1>10 DEF SelectionMade
  <2>2. \A n \in ProxyNodes : nodesShown'[n] \in 0..nodeVersion[n]
    BY <1>a, <2>1 DEF ProxyTypeOK
  <2>3. ProxyTypeOK' /\ CoveredInv'
    BY <2>1, <2>2 DEF ProxyTypeOK, CoveredInv, server
  <2>. QED
    BY <2>1, <2>3, SameReleases DEF server
<1>. QED
  BY <1>1, <1>2, <1>3, <1>4, <1>5, <1>6, <1>7, <1>8, <1>9, <1>10 DEF ProxyNext

(* However reports, releases, polls, lost answers and confirmations        *)
(* interleave, a selection replaces no release its page had not seen, and  *)
(* confirming it again makes no second release (select_node_proxy).        *)
THEOREM SelectionsReleaseOnce == ProxySpec => []SelectionInv
<1>1. ServerInv => SelectionInv
  BY DEF ServerInv
<1>. QED
  BY <1>1, ServerInit, ServerStep, PTL DEF ProxySpec

LEMMA KeyIsWarning ==
    ASSUME NEW n, NEW snapshot
    PROVE  /\ KeyOf(n, snapshot) # NoWarning => KeyOf(n, snapshot) = <<n, snapshot.error>>
           /\ snapshot.error # "" => KeyOf(n, snapshot) # NoWarning
           /\ snapshot.error = "" => KeyOf(n, snapshot) = NoWarning
<1>1. <<n, snapshot.error>> # NoWarning
  BY DEF NoWarning
<1>2. CASE snapshot.error = ""
  BY <1>2, Zenon DEF KeyOf
<1>3. CASE snapshot.error # ""
  BY <1>1, <1>3, Zenon DEF KeyOf
<1>. QED
  BY <1>2, <1>3, Zenon

LEMMA RenderedWarns ==
    ASSUME WarningInv, PanelRendered
    PROVE  WarningInv'
<1> SUFFICES ASSUME mounted'
             PROVE  /\ warningKey' = KeyOf(selectedNode', configsShown'[selectedNode'])
                    /\ warningKey' # NoWarning => warned' = warningKey'
  BY Zenon DEF WarningInv
<1>1. PICK n, shown : n = selectedNode' /\ shown = configsShown'[selectedNode']
  OBVIOUS
<1>2. PICK key, last : key = KeyOf(n, shown) /\ last = IF mounted THEN warningKey ELSE NoWarning
  OBVIOUS
<1>3. KeyOf(selectedNode', configsShown'[selectedNode']) = key
  BY <1>1, <1>2, Zenon
<1>4. /\ warningKey' = key
      /\ warned' = IF key \in {NoWarning, last} THEN warned ELSE <<n, shown.error>>
  BY <1>1, <1>2, <1>3, Zenon DEF PanelRendered
<1>5. key # NoWarning => key = <<n, shown.error>>
  BY <1>2, KeyIsWarning, Zenon
<1>6. key # NoWarning /\ key = last => warned = key
  BY <1>2, Zenon DEF WarningInv
<1>7. warningKey' # NoWarning => warned' = warningKey'
  <2>1. CASE key \in {NoWarning, last}
    BY <1>4, <1>6, <2>1, Zenon
  <2>2. CASE key \notin {NoWarning, last}
    BY <1>4, <1>5, <2>2, Zenon
  <2>. QED
    BY <2>1, <2>2
<1>. QED
  BY <1>3, <1>4, <1>7, Zenon

LEMMA WarningStep == WarningInv /\ [ProxyNext]_proxyVars => WarningInv'
<1> SUFFICES ASSUME WarningInv, [ProxyNext]_proxyVars PROVE WarningInv'
  OBVIOUS
<1>1. CASE PanelRendered
  BY <1>1, RenderedWarns
<1>2. CASE UNCHANGED <<configsShown, mounted, selectedNode, warningKey, warned>>
  BY <1>2, Zenon DEF WarningInv
<1>. QED
  BY <1>1, <1>2 DEF ProxyNext, proxyVars, panel, agent_proxy_config, NodeCalls, SelectNode, ReleaseEnds,
     OtherRelease, select_node_proxy, PollConfigs, RefreshNodes, QueryFails, SelectEndpoint,
     CloseDialog, ConfirmSelection, SelectionMade, SelectionFails

LEMMA WarningInit == ProxyInit => WarningInv
<1> SUFFICES ASSUME ProxyInit PROVE WarningInv
  OBVIOUS
<1>1. selectedNode \in ProxyNodes /\ warningKey = NoWarning
  BY ProxyAssumption DEF ProxyInit, FirstNode
<1>2. configsShown[selectedNode] = NoSnapshot
  BY <1>1 DEF ProxyInit
<1>3. NoSnapshot.error = ""
  BY Zenon DEF NoSnapshot
<1>4. KeyOf(selectedNode, configsShown[selectedNode]) = NoWarning
  <2>1. PICK n, shown : n = selectedNode /\ shown = configsShown[selectedNode]
    OBVIOUS
  <2>2. KeyOf(n, shown) = NoWarning
    BY <1>2, <1>3, <2>1, KeyIsWarning, Zenon
  <2>. QED
    BY <2>1, <2>2, Zenon
<1>. QED
  BY <1>1, <1>4, Zenon DEF WarningInv

(* Whatever is reported, polled and selected, the badge of the panel fits  *)
(* the endpoints it lists, and the warning of the snapshot it shows is the *)
(* last one announced (warningKey in the effect of the panel).             *)
THEOREM PanelTellsTruth == ProxySpec => []PanelInv
<1>1. ASSUME ServerInv, WarningInv PROVE PanelInv
  <2>1. BadgeFitsList
    <3>1. PICK group : group = configsShown[selectedNode].group
      OBVIOUS
    <3>2. ASSUME DOMAIN group # {}
          PROVE  /\ groupStatus(group) = "online" <=> filteredEndpoints(group, "online") # {}
                 /\ groupStatus(group) = "offline"
                      <=> filteredEndpoints(group, "offline") = filteredEndpoints(group, "")
      BY <3>2 DEF groupStatus, filteredEndpoints
    <3>. QED
      BY <3>1, <3>2, Zenon DEF BadgeFitsList
  <2>2. WarningAnnounced
    <3>1. PICK n, shown : n = selectedNode /\ shown = configsShown[selectedNode]
      OBVIOUS
    <3>2. mounted => warningKey = KeyOf(n, shown) /\ (warningKey # NoWarning => warned = warningKey)
      BY <1>1, <3>1, Zenon DEF WarningInv
    <3>3. mounted /\ shown.error # "" => warned = <<n, shown.error>>
      BY <3>2, KeyIsWarning, Zenon
    <3>. QED
      BY <3>1, <3>3, Zenon DEF WarningAnnounced
  <2>. QED
    BY <1>1, <2>1, <2>2 DEF ServerInv, PanelInv
<1>. QED
  BY <1>1, ServerInit, ServerStep, WarningInit, WarningStep, PTL DEF ProxySpec

-----------------------------------------------------------------------------
(* The subscriptions page.  What calls under way name exists, and the      *)
(* source added last stays the selected one.                               *)
KnownSources == {None} \cup DOMAIN refreshable
KnownVersions == {None} \cup DOMAIN origin

CallsInv ==
    /\ adding.phase = "applied" => /\ adding.source \in DOMAIN refreshable
                                   /\ adding.version \in KnownVersions
    /\ publishing # NoCall => publishing.version \in DOMAIN origin

AddedInv == added # None => selectedSourceId = added

ShownInv == TypeOK /\ CallsInv /\ AddedInv

LEMMA SizeIs ==
    ASSUME NEW n \in Nat, NEW S, NEW f \in [1..n -> S]
    PROVE  Size(f) = n /\ DOMAIN f = 1..n
<1>1. Cardinality(1..n) = IF 1 > n THEN 0 ELSE n - 1 + 1
  BY FS_Interval
<1>2. DOMAIN f = 1..n
  OBVIOUS
<1>. QED
  BY <1>1, <1>2 DEF Size

LEMMA ExtendIs ==
    ASSUME NEW n \in Nat, NEW S, NEW f \in [1..n -> S], NEW T, S \subseteq T, NEW x \in T
    PROVE  /\ Extend(f, x) \in [1..(n + 1) -> T] /\ Size(Extend(f, x)) = n + 1
           /\ n + 1 \in DOMAIN Extend(f, x) /\ DOMAIN f \subseteq DOMAIN Extend(f, x)
<1>1. Size(f) = n /\ DOMAIN f = 1..n
  BY SizeIs
<1>2. PICK g : g = Extend(f, x)
  OBVIOUS
<1>3. g = [i \in 1..(n + 1) |-> IF i \in 1..n THEN f[i] ELSE x]
  BY <1>1, <1>2 DEF Extend
<1>4. g \in [1..(n + 1) -> T]
  BY <1>3
<1>5. Size(g) = n + 1 /\ DOMAIN g = 1..(n + 1)
  <2>1. n + 1 \in Nat
    OBVIOUS
  <2>. QED
    BY <1>4, <2>1, SizeIs
<1>. QED
  BY <1>1, <1>2, <1>4, <1>5

LEMMA NewestIs ==
    ASSUME NEW n \in Nat, NEW vs \in SUBSET (1..n)
    PROVE  Newest(vs) \in {None} \cup 1..n
<1>1. CASE vs = {}
  BY <1>1 DEF Newest
<1>2. CASE vs # {}
  <2>1. vs \in SUBSET (0..n)
    OBVIOUS
  <2>2. \E m \in vs : \A x \in vs : x <= m
    BY <1>2, <2>1, HasLargest
  <2>. QED
    BY <1>2, <2>2 DEF Newest
<1>. QED
  BY <1>1, <1>2

LEMMA VersionIs ==
    ASSUME NEW c, c.versions \in Nat, NEW s, NEW v
    PROVE  VersionIn(c, s, v) \in {None} \cup 1..c.versions
<1>1. PICK vs, n : vs = VersionsIn(c, SourceIn(c, s)) /\ n = c.versions
  OBVIOUS
<1>2. n \in Nat /\ vs \in SUBSET (1..n)
  BY <1>1 DEF VersionsIn
<1>3. Newest(vs) \in {None} \cup 1..n
  BY <1>2, NewestIs
<1>4. VersionIn(c, s, v) = IF v \in vs THEN v ELSE Newest(vs)
  BY <1>1 DEF VersionIn
<1>. QED
  BY <1>1, <1>2, <1>3, <1>4

BackendTyped ==
    /\ \E n \in 0..MaxSources : refreshable \in [1..n -> BOOLEAN]
    /\ \E n \in 0..MaxVersions : origin \in [1..n -> DOMAIN refreshable]

LEMMA CatalogIs ==
    ASSUME BackendTyped
    PROVE  /\ ServerCatalog \in [sources : KnownSources, versions : KnownVersions]
           /\ \A j \in KnownVersions : j \in Nat /\ 1..j \subseteq DOMAIN origin
           /\ KnownSources \subseteq Nat
<1>1. PICK n \in 0..MaxSources : refreshable \in [1..n -> BOOLEAN]
  BY DEF BackendTyped
<1>2. PICK m \in 0..MaxVersions : origin \in [1..m -> DOMAIN refreshable]
  BY DEF BackendTyped
<1>3. n \in Nat /\ m \in Nat
  BY BoundsAssumption
<1>4. Size(refreshable) = n /\ DOMAIN refreshable = 1..n
  BY <1>1, <1>3, SizeIs
<1>5. Size(origin) = m /\ DOMAIN origin = 1..m
  BY <1>2, <1>3, SizeIs
<1>6. n \in KnownSources /\ m \in KnownVersions
  BY <1>3, <1>4, <1>5 DEF KnownSources, KnownVersions, None
<1>. QED
  BY <1>3, <1>4, <1>5, <1>6 DEF ServerCatalog, KnownSources, KnownVersions, None

LEMMA RenderedTyped ==
    ASSUME ShownInv, NEW c \in [sources : KnownSources, versions : KnownVersions],
           NEW s \in KnownSources, NEW v \in KnownVersions, NEW sites \in SUBSET Deployable,
           Rendered(c, s, v, sites)
    PROVE  /\ selectedSourceId' \in KnownSources /\ selectedVersionId' \in KnownVersions
           /\ previousVersionId' \in KnownVersions /\ selectedSiteIds' \subseteq Deployable
           /\ s # None => selectedSourceId' = s
<1>1. BackendTyped /\ previousVersionId \in KnownVersions
  BY DEF ShownInv, TypeOK, BackendTyped, KnownVersions
<1>2. c.sources \in KnownSources /\ c.versions \in KnownVersions /\ c.versions \in Nat
  BY <1>1, CatalogIs
<1>3. PICK shown : shown = VersionIn(c, s, v)
  OBVIOUS
<1>4. shown \in {None} \cup 1..c.versions
  BY <1>2, <1>3, VersionIs
<1>5. shown \in KnownVersions
  BY <1>1, <1>2, <1>4, CatalogIs DEF KnownVersions
<1>6. /\ selectedSourceId' = IF s = None THEN c.sources ELSE s
      /\ selectedVersionId' = IF shown = None THEN v ELSE shown
      /\ previousVersionId' = IF shown = None THEN previousVersionId ELSE shown
      /\ selectedSiteIds' = IF shown \in {None, previousVersionId} THEN sites ELSE {}
  BY <1>3 DEF Rendered
<1>. QED
  BY <1>1, <1>2, <1>5, <1>6

(* A rendering, with the dialogs and the calls typed                       *)
LEMMA RenderStep ==
    ASSUME ShownInv, UNCHANGED backend, NEW c \in [sources : KnownSources, versions : KnownVersions],
           NEW s \in KnownSources, NEW v \in KnownVersions, Rendered(c, s, v, selectedSiteIds),
           catalog' = c, adding' \in {NoCall, adding}, form' \in BOOLEAN,
           UNCHANGED <<publishTarget, confirmTarget, publishing, picked>>,
           added' \in {None} \cup Sources, added' # None => added' = s
    PROVE  ShownInv'
<1>. TypeOK /\ CallsInv
  BY DEF ShownInv
<1>1. UNCHANGED <<refreshable, origin, published>> /\ KnownSources' = KnownSources /\ KnownVersions' = KnownVersions
  BY DEF backend, KnownSources, KnownVersions
<1>2. selectedSiteIds \in SUBSET Deployable
  BY DEF TypeOK
<1>3. /\ selectedSourceId' \in KnownSources /\ selectedVersionId' \in KnownVersions
      /\ previousVersionId' \in KnownVersions /\ selectedSiteIds' \subseteq Deployable
      /\ s # None => selectedSourceId' = s
  BY <1>2, RenderedTyped
<1>4. adding' \in {NoCall} \cup AddCall
  BY DEF TypeOK
<1>5. TypeOK'
  <2>1. catalog' \in [sources : {0} \cup DOMAIN refreshable', versions : {0} \cup DOMAIN origin']
    BY <1>1 DEF KnownSources, KnownVersions, None
  <2>2. /\ selectedSourceId' \in {None} \cup DOMAIN refreshable'
        /\ selectedVersionId' \in {None} \cup DOMAIN origin'
        /\ previousVersionId' \in {None} \cup DOMAIN origin'
    BY <1>1, <1>3 DEF KnownSources, KnownVersions
  <2>. QED
    BY <1>1, <1>3, <1>4, <2>1, <2>2 DEF TypeOK
<1>6. CallsInv'
  <2>1. NoCall.phase # "applied"
    BY DEF NoCall
  <2>. QED
    BY <1>1, <2>1 DEF CallsInv
<1>7. AddedInv'
  BY <1>3 DEF AddedInv
<1>. QED
  BY <1>5, <1>6, <1>7 DEF ShownInv

(* A step that leaves the selection alone, while the backend may grow      *)
LEMMA QuietPageStep ==
    ASSUME ShownInv, BackendTyped', DOMAIN refreshable \subseteq DOMAIN refreshable',
           DOMAIN origin \subseteq DOMAIN origin',
           UNCHANGED <<catalog, selectedSourceId, selectedVersionId, previousVersionId, added>>,
           published' \in {NoCall} \cup [version : DOMAIN origin', sites : SUBSET Sites, picked : SUBSET Sites],
           form' \in BOOLEAN, {publishTarget', confirmTarget'} \subseteq KnownVersions,
           selectedSiteIds' \subseteq Deployable, picked' \subseteq Deployable,
           adding' \in {NoCall} \cup AddCall, publishing' \in {NoCall} \cup PublishCall,
           adding'.phase = "applied" => /\ adding'.source \in DOMAIN refreshable'
                                        /\ adding'.version \in {None} \cup DOMAIN origin',
           publishing' # NoCall => publishing'.version \in DOMAIN origin'
    PROVE  ShownInv'
<1>1. catalog' \in [sources : {0} \cup DOMAIN refreshable', versions : {0} \cup DOMAIN origin']
  BY DEF ShownInv, TypeOK
<1>2. /\ selectedSourceId' \in {None} \cup DOMAIN refreshable'
      /\ selectedVersionId' \in {None} \cup DOMAIN origin'
      /\ previousVersionId' \in {None} \cup DOMAIN origin'
      /\ added' \in {None} \cup Sources
      /\ {publishTarget', confirmTarget'} \subseteq {None} \cup DOMAIN origin'
  BY DEF ShownInv, TypeOK, KnownVersions
<1>3. TypeOK'
  BY <1>1, <1>2 DEF TypeOK, BackendTyped
<1>4. CallsInv'
  BY DEF CallsInv, KnownVersions
<1>5. AddedInv'
  BY DEF ShownInv, AddedInv
<1>. QED
  BY <1>3, <1>4, <1>5 DEF ShownInv

(* The backend creates a source, with a version when it is an import.      *)
LEMMA CreateGrows ==
    ASSUME ShownInv, NEW kind \in {"http", "import"}, CreateSource(kind)
    PROVE  /\ BackendTyped' /\ DOMAIN refreshable \subseteq DOMAIN refreshable'
           /\ DOMAIN origin \subseteq DOMAIN origin'
           /\ Size(refreshable') \in DOMAIN refreshable' /\ Size(refreshable') \in Sources
           /\ kind = "import" => Size(origin') \in DOMAIN origin' /\ Size(origin') \in Versions
<1>1. PICK n \in 0..MaxSources : refreshable \in [1..n -> BOOLEAN]
  BY DEF ShownInv, TypeOK
<1>2. PICK m \in 0..MaxVersions : origin \in [1..m -> DOMAIN refreshable]
  BY DEF ShownInv, TypeOK
<1>3. n \in Nat /\ m \in Nat /\ n + 1 \in Nat /\ m + 1 \in Nat
  BY BoundsAssumption
<1>4. Size(refreshable) = n /\ DOMAIN refreshable = 1..n
  BY <1>1, <1>3, SizeIs
<1>5. Size(origin) = m /\ DOMAIN origin = 1..m
  BY <1>2, <1>3, SizeIs
<1>6. PICK x \in BOOLEAN : refreshable' = Extend(refreshable, x)
  BY DEF CreateSource
<1>7. /\ refreshable' \in [1..(n + 1) -> BOOLEAN] /\ Size(refreshable') = n + 1
      /\ n + 1 \in DOMAIN refreshable' /\ DOMAIN refreshable \subseteq DOMAIN refreshable'
  <2>1. PICK f, B, y : f = refreshable /\ B = BOOLEAN /\ y = x
    OBVIOUS
  <2>2. f \in [1..n -> B] /\ y \in B
    BY <1>1, <2>1
  <2>3. /\ Extend(f, y) \in [1..(n + 1) -> B] /\ Size(Extend(f, y)) = n + 1
        /\ n + 1 \in DOMAIN Extend(f, y) /\ DOMAIN f \subseteq DOMAIN Extend(f, y)
    BY <1>3, <2>2, ExtendIs
  <2>4. PICK g : g = Extend(f, y) /\ refreshable' = g
    BY <1>6, <2>1, Zenon
  <2>5. Size(refreshable') = Size(g)
    BY <2>4, Zenon
  <2>. QED
    BY <2>1, <2>3, <2>4, <2>5
<1>8. n + 1 \in 0..MaxSources /\ n + 1 \in Sources
  BY <1>3, <1>4, BoundsAssumption DEF CreateSource, Sources
<1>9. CASE kind = "http"
  <2>1. origin' = origin
    BY <1>9 DEF CreateSource
  <2>2. origin' \in [1..m -> DOMAIN refreshable']
    BY <1>2, <1>7, <2>1
  <2>. QED
    BY <1>7, <1>8, <1>9, <2>1, <2>2 DEF BackendTyped
<1>10. CASE kind = "import"
  <2>1. m < MaxVersions /\ origin' = Extend(origin, Size(refreshable'))
    BY <1>5, <1>10 DEF CreateSource
  <2>2. PICK f, y, S, T : f = origin /\ y = n + 1 /\ S = DOMAIN refreshable /\ T = DOMAIN refreshable'
    OBVIOUS
  <2>3. f \in [1..m -> S] /\ S \subseteq T /\ y \in T
    BY <1>2, <1>7, <2>2
  <2>4. /\ Extend(f, y) \in [1..(m + 1) -> T] /\ Size(Extend(f, y)) = m + 1
        /\ m + 1 \in DOMAIN Extend(f, y) /\ DOMAIN f \subseteq DOMAIN Extend(f, y)
    BY <1>3, <2>3, ExtendIs
  <2>5. PICK g : g = Extend(f, y) /\ origin' = g
    BY <1>7, <2>1, <2>2, Zenon
  <2>6. Size(origin') = Size(g)
    BY <2>5, Zenon
  <2>7. /\ origin' \in [1..(m + 1) -> DOMAIN refreshable'] /\ Size(origin') = m + 1
        /\ m + 1 \in DOMAIN origin' /\ DOMAIN origin \subseteq DOMAIN origin'
    BY <2>2, <2>4, <2>5, <2>6
  <2>8. m + 1 \in 0..MaxVersions /\ m + 1 \in Versions
    BY <1>3, <2>1, BoundsAssumption DEF Versions
  <2>. QED
    BY <1>7, <1>8, <2>7, <2>8 DEF BackendTyped
<1>. QED
  BY <1>9, <1>10

LEMMA FindGrows ==
    ASSUME ShownInv, NEW s \in Sources, WorkerFinds(s)
    PROVE  BackendTyped' /\ DOMAIN origin \subseteq DOMAIN origin'
<1>1. PICK n \in 0..MaxSources : refreshable \in [1..n -> BOOLEAN]
  BY DEF ShownInv, TypeOK
<1>2. PICK m \in 0..MaxVersions : origin \in [1..m -> DOMAIN refreshable]
  BY DEF ShownInv, TypeOK
<1>3. m \in Nat /\ m + 1 \in Nat
  BY BoundsAssumption
<1>4. Size(origin) = m /\ DOMAIN origin = 1..m
  BY <1>2, <1>3, SizeIs
<1>5. /\ m < MaxVersions /\ s \in DOMAIN refreshable
      /\ origin' = Extend(origin, s) /\ refreshable' = refreshable
  BY <1>4 DEF WorkerFinds
<1>6. PICK f, S : f = origin /\ S = DOMAIN refreshable
  OBVIOUS
<1>7. f \in [1..m -> S] /\ s \in S
  BY <1>2, <1>5, <1>6
<1>8. /\ Extend(f, s) \in [1..(m + 1) -> S] /\ Size(Extend(f, s)) = m + 1
      /\ m + 1 \in DOMAIN Extend(f, s) /\ DOMAIN f \subseteq DOMAIN Extend(f, s)
  BY <1>3, <1>7, ExtendIs
<1>9. PICK g : g = Extend(f, s) /\ origin' = g
  BY <1>5, <1>6, Zenon
<1>10. origin' \in [1..(m + 1) -> DOMAIN refreshable'] /\ DOMAIN origin \subseteq DOMAIN origin'
  BY <1>5, <1>6, <1>8, <1>9
<1>11. m + 1 \in 0..MaxVersions
  BY <1>3, <1>5, BoundsAssumption
<1>. QED
  BY <1>1, <1>5, <1>10, <1>11 DEF BackendTyped

LEMMA ShownInit == Init => ShownInv
<1> SUFFICES ASSUME Init PROVE ShownInv
  OBVIOUS
<1>1. refreshable \in [1..0 -> BOOLEAN] /\ origin \in [1..0 -> DOMAIN refreshable] /\ 0 \in 0..MaxSources /\ 0 \in 0..MaxVersions
  BY BoundsAssumption DEF Init
<1>2. TypeOK
  BY <1>1 DEF Init, TypeOK, None
<1>3. CallsInv /\ AddedInv
  BY DEF Init, CallsInv, AddedInv, NoCall
<1>. QED
  BY <1>2, <1>3 DEF ShownInv

(* The steps in which only a dialog or a call changes                      *)
LEMMA DialogStep ==
    ASSUME ShownInv,
           \/ OpenForm \/ CloseForm \/ Continue \/ ClosePublish \/ Confirm
           \/ AddFails \/ PublishSucceeds \/ PublishFails
           \/ OpenPublish \/ \E x \in Sites : ToggleSite(x)
           \/ \E kind \in {"http", "import"} : SubmitSource(kind)
    PROVE  ShownInv'
<1>. TypeOK /\ CallsInv
  BY DEF ShownInv
<1>1. /\ UNCHANGED <<refreshable, origin, published, catalog, selectedSourceId, selectedVersionId,
                      previousVersionId, added>>
      /\ form' \in BOOLEAN
  BY DEF OpenForm, CloseForm, Continue, ClosePublish, Confirm, AddFails, PublishSucceeds, PublishFails,
         OpenPublish, ToggleSite, SubmitSource, backend, selection, dialogs, TypeOK
<1>2. BackendTyped /\ BackendTyped'
  BY <1>1 DEF TypeOK, BackendTyped
<1>3. selectedSiteIds' \subseteq Deployable /\ picked' \subseteq Deployable
  BY DEF OpenForm, CloseForm, Continue, ClosePublish, Confirm, AddFails, PublishSucceeds, PublishFails,
         OpenPublish, ToggleSite, SubmitSource, selection, TypeOK
<1>4. CurrentVersion \in KnownVersions
  <2>1. PICK c, s, v : c = catalog /\ s = selectedSourceId /\ v = selectedVersionId
    OBVIOUS
  <2>2. c.versions \in KnownVersions
    BY <2>1 DEF TypeOK, KnownVersions, None
  <2>3. c.versions \in Nat /\ 1..c.versions \subseteq DOMAIN origin
    BY <1>2, <2>2, CatalogIs
  <2>4. VersionIn(c, s, v) \in {None} \cup 1..c.versions
    BY <2>3, VersionIs
  <2>. QED
    BY <2>1, <2>3, <2>4 DEF CurrentVersion, KnownVersions
<1>5. {publishTarget', confirmTarget'} \subseteq KnownVersions
  BY <1>4 DEF OpenForm, CloseForm, Continue, ClosePublish, Confirm, AddFails, PublishSucceeds, PublishFails,
         OpenPublish, ToggleSite, SubmitSource, dialogs, TypeOK, KnownVersions
<1>6. /\ adding' \in {NoCall} \cup AddCall
      /\ adding'.phase = "applied" => adding' = adding
  <2>1. CASE adding' = adding
    BY <2>1 DEF TypeOK
  <2>2. CASE AddFails
    BY <2>2 DEF AddFails, NoCall
  <2>3. CASE \E kind \in {"http", "import"} : SubmitSource(kind)
    BY <2>3 DEF SubmitSource, AddCall
  <2>. QED
    BY <2>1, <2>2, <2>3 DEF OpenForm, CloseForm, Continue, ClosePublish, Confirm, PublishSucceeds,
       PublishFails, OpenPublish, ToggleSite
<1>7. /\ publishing' \in {NoCall} \cup PublishCall
      /\ publishing' # NoCall => publishing'.version \in DOMAIN origin
  <2>1. CASE publishing' = publishing
    BY <2>1 DEF TypeOK, CallsInv
  <2>2. CASE PublishFails
    BY <2>2 DEF PublishFails
  <2>3. CASE PublishSucceeds
    <3>1. publishing # NoCall /\ publishing' = [publishing EXCEPT !.phase = "refetching"]
      BY <2>3, PhaseIsCall DEF PublishSucceeds
    <3>2. publishing \in PublishCall /\ publishing.version \in DOMAIN origin
      BY <3>1 DEF TypeOK, CallsInv
    <3>. QED
      BY <3>1, <3>2 DEF PublishCall
  <2>4. CASE Confirm
    <3>1. confirmTarget \in DOMAIN origin
      BY <2>4 DEF Confirm, TypeOK
    <3>2. DOMAIN origin \subseteq Versions
      <4>1. PICK m \in 0..MaxVersions : origin \in [1..m -> DOMAIN refreshable]
        BY DEF TypeOK
      <4>2. DOMAIN origin = 1..m
        BY <4>1
      <4>. QED
        BY <4>2, BoundsAssumption DEF Versions
    <3>3. selectedSiteIds \in SUBSET Sites /\ picked \in SUBSET Sites
      BY DeployableAssumption DEF TypeOK
    <3>4. publishing' = [phase |-> "sent", version |-> confirmTarget, sites |-> selectedSiteIds, picked |-> picked]
      BY <2>4 DEF Confirm
    <3>. QED
      BY <3>1, <3>2, <3>3, <3>4 DEF PublishCall
  <2>. QED
    BY <2>1, <2>2, <2>3, <2>4 DEF OpenForm, CloseForm, Continue, ClosePublish, AddFails,
       OpenPublish, ToggleSite, SubmitSource
<1>8. published' \in {NoCall} \cup [version : DOMAIN origin', sites : SUBSET Sites, picked : SUBSET Sites]
  BY <1>1 DEF TypeOK
<1>9. adding'.phase = "applied" => /\ adding'.source \in DOMAIN refreshable'
                                   /\ adding'.version \in {None} \cup DOMAIN origin'
  BY <1>1, <1>6 DEF CallsInv, KnownVersions
<1>. QED
  BY <1>1, <1>2, <1>3, <1>5, <1>6, <1>7, <1>8, <1>9, QuietPageStep

LEMMA BackendStep ==
    ASSUME ShownInv, Backend
    PROVE  ShownInv'
<1>. TypeOK /\ CallsInv
  BY DEF ShownInv
<1>a. /\ UNCHANGED <<catalog, selectedSourceId, selectedVersionId, previousVersionId, added,
                      form, publishTarget, confirmTarget, selectedSiteIds, picked>>
      /\ form' \in BOOLEAN /\ {publishTarget', confirmTarget'} \subseteq KnownVersions
      /\ selectedSiteIds' \subseteq Deployable /\ picked' \subseteq Deployable
  BY DEF Backend, OtherAdds, WorkerFinds, AddApplies, PublishApplies, selection, dialogs, TypeOK, KnownVersions
<1>1. ASSUME NEW kind \in {"http", "import"}, OtherAdds(kind) PROVE ShownInv'
  <2>1. CreateSource(kind) /\ UNCHANGED <<adding, publishing, published>>
    BY <1>1 DEF OtherAdds, CreateSource
  <2>2. /\ BackendTyped' /\ DOMAIN refreshable \subseteq DOMAIN refreshable'
        /\ DOMAIN origin \subseteq DOMAIN origin'
    BY <2>1, CreateGrows
  <2>3. published' \in {NoCall} \cup [version : DOMAIN origin', sites : SUBSET Sites, picked : SUBSET Sites]
    BY <2>1, <2>2 DEF TypeOK
  <2>4. /\ adding' \in {NoCall} \cup AddCall /\ publishing' \in {NoCall} \cup PublishCall
        /\ adding'.phase = "applied" => /\ adding'.source \in DOMAIN refreshable'
                                        /\ adding'.version \in {None} \cup DOMAIN origin'
        /\ publishing' # NoCall => publishing'.version \in DOMAIN origin'
    BY <2>1, <2>2 DEF TypeOK, CallsInv, KnownVersions
  <2>. QED
    BY <1>a, <2>2, <2>3, <2>4, QuietPageStep
<1>2. ASSUME NEW s \in Sources, WorkerFinds(s) PROVE ShownInv'
  <2>1. UNCHANGED <<adding, publishing, published, refreshable>>
    BY <1>2 DEF WorkerFinds
  <2>2. BackendTyped' /\ DOMAIN origin \subseteq DOMAIN origin'
    BY <1>2, FindGrows
  <2>3. published' \in {NoCall} \cup [version : DOMAIN origin', sites : SUBSET Sites, picked : SUBSET Sites]
    BY <2>1, <2>2 DEF TypeOK
  <2>4. /\ adding' \in {NoCall} \cup AddCall /\ publishing' \in {NoCall} \cup PublishCall
        /\ adding'.phase = "applied" => /\ adding'.source \in DOMAIN refreshable'
                                        /\ adding'.version \in {None} \cup DOMAIN origin'
        /\ publishing' # NoCall => publishing'.version \in DOMAIN origin'
    BY <2>1, <2>2 DEF TypeOK, CallsInv, KnownVersions
  <2>. QED
    BY <1>a, <2>1, <2>2, <2>3, <2>4, QuietPageStep
<1>3. CASE AddApplies
  <2>1. adding.kind \in {"http", "import"}
    <3>1. adding.phase = "sent"
      BY <1>3 DEF AddApplies
    <3>2. adding \in [phase : {"sent"}, kind : {"http", "import"}]
      BY <3>1 DEF TypeOK, AddCall, NoCall
    <3>. QED
      BY <3>2
  <2>2. PICK kind \in {"http", "import"} : kind = adding.kind
    BY <2>1
  <2>3. CreateSource(kind) /\ UNCHANGED <<publishing, published>>
    BY <1>3, <2>2 DEF AddApplies, CreateSource
  <2>4. /\ BackendTyped' /\ DOMAIN refreshable \subseteq DOMAIN refreshable'
        /\ DOMAIN origin \subseteq DOMAIN origin'
        /\ Size(refreshable') \in DOMAIN refreshable' /\ Size(refreshable') \in Sources
        /\ kind = "import" => Size(origin') \in DOMAIN origin' /\ Size(origin') \in Versions
    BY <2>3, CreateGrows
  <2>5. PICK x, v : /\ x = Size(refreshable') /\ v = IF kind = "http" THEN None ELSE Size(origin')
                    /\ adding' = [phase |-> "applied", source |-> x, version |-> v]
    BY <1>3, <2>2 DEF AddApplies
  <2>6. /\ x \in DOMAIN refreshable' /\ x \in Sources /\ v \in {None} \cup DOMAIN origin'
        /\ v \in {None} \cup Versions
    BY <2>4, <2>5
  <2>7. adding' \in AddCall /\ adding'.source = x /\ adding'.version = v
    BY <2>5, <2>6 DEF AddCall
  <2>8. published' \in {NoCall} \cup [version : DOMAIN origin', sites : SUBSET Sites, picked : SUBSET Sites]
    BY <2>3, <2>4 DEF TypeOK
  <2>9. /\ publishing' \in {NoCall} \cup PublishCall
        /\ publishing' # NoCall => publishing'.version \in DOMAIN origin'
    BY <2>3, <2>4 DEF TypeOK, CallsInv
  <2>. QED
    BY <1>a, <2>4, <2>6, <2>7, <2>8, <2>9, QuietPageStep
<1>4. CASE PublishApplies
  <2>1. UNCHANGED <<adding, refreshable, origin>> /\ publishing # NoCall
    BY <1>4, PhaseIsCall DEF PublishApplies
  <2>2. /\ publishing' = [publishing EXCEPT !.phase = "applied"]
        /\ publishing \in PublishCall /\ publishing.version \in DOMAIN origin
    BY <1>4, <2>1 DEF PublishApplies, TypeOK, CallsInv
  <2>3. publishing' \in PublishCall /\ publishing'.version \in DOMAIN origin
    BY <2>2 DEF PublishCall
  <2>4. PICK x \in SUBSET Sites :
          published' = [version |-> publishing.version, picked |-> publishing.picked, sites |-> x]
    BY <1>4, <2>2 DEF PublishApplies, PublishCall
  <2>5. publishing.picked \in SUBSET Sites
    BY <2>2 DEF PublishCall
  <2>6. published' \in [version : DOMAIN origin, sites : SUBSET Sites, picked : SUBSET Sites]
    BY <2>2, <2>4, <2>5
  <2>7. BackendTyped'
    BY <2>1 DEF TypeOK, BackendTyped
  <2>8. /\ adding' \in {NoCall} \cup AddCall
        /\ adding'.phase = "applied" => /\ adding'.source \in DOMAIN refreshable'
                                        /\ adding'.version \in {None} \cup DOMAIN origin'
    BY <2>1 DEF TypeOK, CallsInv, KnownVersions
  <2>. QED
    BY <1>a, <2>1, <2>3, <2>6, <2>7, <2>8, QuietPageStep
<1>. QED
  BY <1>1, <1>2, <1>3, <1>4 DEF Backend

LEMMA ShownStep == ShownInv /\ [Next]_vars => ShownInv'
<1> SUFFICES ASSUME ShownInv, [Next]_vars PROVE ShownInv'
  OBVIOUS
<1>. TypeOK /\ CallsInv /\ AddedInv
  BY DEF ShownInv
<1>a. BackendTyped /\ catalog \in [sources : KnownSources, versions : KnownVersions]
  BY DEF TypeOK, BackendTyped, KnownSources, KnownVersions, None
<1>b. None \in KnownVersions /\ selectedSourceId \in KnownSources /\ selectedVersionId \in KnownVersions
  BY DEF TypeOK, KnownSources, KnownVersions
<1>1. CASE UNCHANGED vars
  <2>1. TypeOK'
    BY <1>1 DEF vars, backend, selection, dialogs, TypeOK
  <2>2. CallsInv' /\ AddedInv'
    BY <1>1 DEF vars, backend, selection, CallsInv, AddedInv, KnownVersions
  <2>. QED
    BY <2>1, <2>2 DEF ShownInv
<1>2. CASE Refetch
  <2>1. PICK c, s, v : c = ServerCatalog /\ s = selectedSourceId /\ v = selectedVersionId
    OBVIOUS
  <2>2. c \in [sources : KnownSources, versions : KnownVersions]
    BY <1>a, <2>1, CatalogIs
  <2>3. catalog' = c /\ UNCHANGED <<backend, adding, dialogs, publishing, picked, added>>
    BY <1>2, <2>1 DEF Refetch
  <2>4. Rendered(c, s, v, selectedSiteIds)
    BY <1>2, <2>1, <2>3, Zenon DEF Refetch
  <2>5. /\ s \in KnownSources /\ v \in KnownVersions /\ form' \in BOOLEAN
        /\ added' \in {None} \cup Sources /\ (added' # None => added' = s)
        /\ UNCHANGED <<publishTarget, confirmTarget>>
    BY <1>b, <2>1, <2>3 DEF TypeOK, AddedInv, dialogs
  <2>. QED
    BY <2>2, <2>3, <2>4, <2>5, RenderStep
<1>3. ASSUME NEW s \in Sources, SelectSource(s) PROVE ShownInv'
  <2>1. PICK c, v : c = catalog /\ v = None
    OBVIOUS
  <2>2. /\ Rendered(c, s, v, selectedSiteIds) /\ s \in 1..c.sources /\ added' = None
        /\ UNCHANGED <<backend, catalog, adding, dialogs, publishing, picked>>
    BY <1>3, <2>1, Zenon DEF SelectSource
  <2>3. s \in KnownSources
    <3>1. PICK n \in 0..MaxSources : refreshable \in [1..n -> BOOLEAN]
      BY DEF TypeOK
    <3>2. DOMAIN refreshable = 1..n /\ c.sources \in 0..n
      BY <1>a, <2>1, <3>1 DEF KnownSources, None
    <3>. QED
      BY <2>2, <3>2 DEF KnownSources
  <2>4. form' \in BOOLEAN /\ UNCHANGED <<publishTarget, confirmTarget>>
    BY <2>2 DEF dialogs, TypeOK
  <2>. QED
    BY <1>a, <1>b, <2>1, <2>2, <2>3, <2>4, RenderStep
<1>4. CASE AddSucceeds
  <2>1. adding.source \in DOMAIN refreshable /\ adding.version \in KnownVersions
    BY <1>4 DEF AddSucceeds, CallsInv
  <2>2. PICK c, s, v : /\ c = catalog /\ s = adding.source
                       /\ v = IF adding.version = None THEN selectedVersionId ELSE adding.version
    OBVIOUS
  <2>3. /\ Rendered(c, s, v, selectedSiteIds) /\ form' = FALSE /\ adding' = NoCall /\ added' = s
        /\ UNCHANGED <<backend, catalog, publishTarget, confirmTarget, publishing, picked>>
    BY <1>4, <2>2, Zenon DEF AddSucceeds
  <2>4. s \in KnownSources /\ v \in KnownVersions
    BY <1>b, <2>1, <2>2 DEF KnownSources
  <2>5. s \in Sources
    <3>1. PICK n \in 0..MaxSources : refreshable \in [1..n -> BOOLEAN]
      BY DEF TypeOK
    <3>2. s \in 1..n
      BY <2>1, <2>2, <3>1
    <3>. QED
      BY <3>2, BoundsAssumption DEF Sources
  <2>. QED
    BY <1>a, <2>2, <2>3, <2>4, <2>5, RenderStep
<1>5. CASE PublishLeaves
  <2>1. PICK c : c = ServerCatalog
    OBVIOUS
  <2>2. PICK x, y : x = VersionIn(c, None, None) /\ y = SourceIn(c, None)
    OBVIOUS
  <2>3. /\ UNCHANGED <<refreshable, origin, published>> /\ catalog' = c
        /\ publishing' = NoCall /\ adding' = NoCall /\ form' = FALSE /\ picked' = {} /\ added' = None
        /\ publishTarget' = None /\ confirmTarget' = None /\ selectedSiteIds' = {}
    BY <1>5, <2>1 DEF PublishLeaves, backend
  <2>4. selectedSourceId' = y /\ selectedVersionId' = x /\ previousVersionId' = x
    BY <1>5, <2>2, <2>3, Zenon DEF PublishLeaves
  <2>5. c \in [sources : KnownSources, versions : KnownVersions]
    BY <1>a, <2>1, CatalogIs
  <2>6. c.versions \in Nat /\ 1..c.versions \subseteq DOMAIN origin
    BY <1>a, <2>5, CatalogIs
  <2>7. x \in KnownVersions
    BY <2>2, <2>6, VersionIs DEF KnownVersions
  <2>8. y \in KnownSources
    BY <2>2, <2>5 DEF SourceIn, KnownSources
  <2>9. catalog' \in [sources : {0} \cup DOMAIN refreshable', versions : {0} \cup DOMAIN origin']
    BY <2>3, <2>5 DEF KnownSources, KnownVersions, None
  <2>10. TypeOK'
    BY <2>3, <2>4, <2>7, <2>8, <2>9 DEF TypeOK, KnownSources, KnownVersions
  <2>11. CallsInv' /\ AddedInv'
    BY <2>3 DEF CallsInv, AddedInv, NoCall
  <2>. QED
    BY <2>10, <2>11 DEF ShownInv
<1>. QED
  BY <1>1, <1>2, <1>3, <1>4, <1>5, DialogStep, BackendStep DEF Next, Operator, Answers

(* However catalogues are read and others add and find, the page shows a   *)
(* source the operator added once it is listed, and its state keeps its    *)
(* types: what is selected, offered and called exists in the backend.      *)
THEOREM PageShowsAdded == Spec => []PageInv
<1>1. ASSUME ShownInv PROVE PageInv
  <2>1. AddedSourceShown
    BY <1>1 DEF ShownInv, AddedInv, AddedSourceShown, CurrentSource, SourceIn, None
  <2>. QED
    BY <1>1, <2>1 DEF ShownInv, PageInv
<1>. QED
  BY <1>1, ShownInit, ShownStep, PTL DEF Spec

-----------------------------------------------------------------------------
(* The login page.  A form is busy while a call of it is awaited, and then *)
(* there is one; a challenge that was not delivered yet is known to nobody *)
(* but the handler that inserted it; a handler past its look at a          *)
(* challenge carries the IT code and the purpose of that challenge.        *)
Names(c) == c.challenge \in 1..Len(challenges) /\ challenges[c.challenge].status # "pending"
Owns(c) ==
    /\ challenges[c.challenge].itcode = c.itcode
    /\ challenges[c.challenge].purpose = c.purpose

SendOk(c) ==
    /\ c.purpose # "password" /\ c.state \in {"arrived", "looked", "inserted", "ok", "refused"}
    /\ c.state = "inserted" => /\ c.challenge \in 1..Len(challenges) /\ Owns(c)
                               /\ challenges[c.challenge].status = "pending"
    /\ c.state = "ok" => Names(c) /\ Owns(c)

SubmitOk(c) ==
    /\ c.state \in {"arrived", "read", "consumed", "ok", "refused"}
    /\ c.purpose = "password" => c.state \in {"arrived", "ok", "refused"}
    /\ c.purpose # "password" => Names(c) /\ (~c.awaited => c.challenge \in abandoned)
    /\ c.state \in {"read", "consumed"} => Owns(c)

AwaitOk(c) ==
    /\ c.form = "login" <=> c.purpose \in {"gquan_login", "password"}
    /\ c.state \in {"ok", "refused"} => c.awaited
    /\ c.awaited /\ c.form = "login" => login.busy = c.kind
    /\ c.awaited /\ c.form = "account" =>
          account.busy = c.kind /\ account.action # "none" /\ c.purpose = accountPurpose

CallOk(c) == (c.kind = "send" => SendOk(c)) /\ (c.kind = "submit" => SubmitOk(c)) /\ AwaitOk(c)

CallsOk == \A h \in 1..MaxHandlers : handlers[h] # Free => CallOk(handlers[h])

Awaited(c) == c # Free /\ c.awaited

OneAwaited ==
    \A g, h \in 1..MaxHandlers :
        Awaited(handlers[g]) /\ Awaited(handlers[h]) /\ handlers[g].form = handlers[h].form => g = h

OneInserted ==
    \A g, h \in 1..MaxHandlers :
        handlers[g].state = "inserted" /\ handlers[h].state = "inserted"
          /\ handlers[g].challenge = handlers[h].challenge => g = h

FormsInv ==
    /\ account.action = "none" => account.busy = "no" /\ account.challenge = NoChallenge
    /\ account.action # "none" => login.busy = "no"
    /\ login.challenge # NoChallenge => Names(login)
    /\ account.challenge # NoChallenge => Names(account) /\ challenges[account.challenge].purpose = accountPurpose

UsedInv ==
    /\ \A x \in used :
         /\ x \in 1..Len(challenges) /\ challenges[x].status # "pending"
         /\ x \notin abandoned =>
               /\ challenges[x].status = "consumed"
               /\ \A h \in 1..MaxHandlers : handlers[h].state = "read" => handlers[h].challenge # x
    /\ \A e \in effects : e.challenge \in 1..Len(challenges)

CodeInv ==
    /\ LoginTypeOK /\ CallsOk /\ OneAwaited /\ OneInserted /\ FormsInv /\ UsedInv
    /\ AcceptedOwnCode /\ SingleUse

LoginFields == [mode : {"password", "gquan"}, itcode : Itcodes \cup {Blank},
                challenge : 0..MaxChallenges, busy : AuthBusy]
AccountFields == [action : {"none", "register", "password-change"}, itcode : Itcodes \cup {Blank},
                  challenge : 0..MaxChallenges, busy : AuthBusy]

LEMMA CallIs ==
    ASSUME LoginTypeOK, CallsOk, NEW h \in 1..MaxHandlers, handlers[h] # Free
    PROVE  handlers[h] \in Handler /\ CallOk(handlers[h])
BY DEF LoginTypeOK, CallsOk

LEMMA StateIsCall ==
    ASSUME NEW c, c.state # "idle"
    PROVE  c # Free
BY DEF Free

(* The operator edits, opens and closes: no call is touched.               *)
LEMMA FormStep ==
    ASSUME CodeInv, UNCHANGED <<users, challenges, handlers, made, histories>>,
           login' \in LoginFields, account' \in AccountFields,
           login'.busy = login.busy, account'.busy = account.busy,
           account.busy # "no" => account'.action = account.action,
           login'.challenge \in {NoChallenge, login.challenge},
           account'.challenge = NoChallenge,
           account'.action = "none" => account.busy = "no",
           account'.action # "none" => login.busy = "no"
    PROVE  CodeInv'
<1>. LoginTypeOK /\ CallsOk /\ OneAwaited /\ OneInserted /\ FormsInv /\ UsedInv /\ AcceptedOwnCode /\ SingleUse
  BY DEF CodeInv
<1>1. UNCHANGED <<users, challenges, handlers, made, effects, used, reused, abandoned>>
  BY DEF histories
<1>2. LoginTypeOK'
  BY <1>1 DEF LoginTypeOK, LoginFields, AccountFields
<1>3. CallsOk'
  <2> SUFFICES ASSUME NEW h \in 1..MaxHandlers, handlers[h] # Free PROVE CallOk(handlers[h])'
    BY <1>1 DEF CallsOk
  <2>1. handlers[h] \in Handler /\ CallOk(handlers[h])
    BY CallIs
  <2>2. handlers[h].kind # "no"
    BY <2>1 DEF Handler
  <2>3. handlers[h].awaited /\ handlers[h].form = "account" => account.busy # "no"
    BY <2>1, <2>2 DEF CallOk, AwaitOk
  <2>. QED
    BY <1>1, <2>1, <2>3 DEF CallOk, SendOk, SubmitOk, AwaitOk, Names, Owns, accountPurpose
<1>4. OneAwaited' /\ OneInserted'
  BY <1>1 DEF OneAwaited, OneInserted, Awaited
<1>5. FormsInv'
  BY <1>1 DEF FormsInv, Names, NoChallenge
<1>6. UsedInv' /\ AcceptedOwnCode' /\ SingleUse'
  BY <1>1 DEF UsedInv, AcceptedOwnCode, SingleUse
<1>. QED
  BY <1>2, <1>3, <1>4, <1>5, <1>6 DEF CodeInv

(* A form that is not busy makes a call.                                   *)
LEMMA StartStep ==
    ASSUME CodeInv, NEW owner \in {"login", "account"}, NEW kind \in {"send", "submit"},
           NEW purpose \in Purposes \cup {"password"}, NEW itcode \in Itcodes,
           NEW challenge \in 0..MaxChallenges, Starts(owner, kind, purpose, itcode, challenge),
           login' \in LoginFields, account' \in AccountFields,
           login'.challenge = login.challenge, account'.challenge = account.challenge,
           account'.action = account.action,
           owner = "login" => /\ account.action = "none" /\ login.busy = "no" /\ login'.busy = kind
                              /\ account'.busy = account.busy /\ purpose \in {"gquan_login", "password"},
           owner = "account" => /\ account.action # "none" /\ account.busy = "no" /\ account'.busy = kind
                                /\ login'.busy = login.busy /\ purpose = accountPurpose,
           kind = "send" => purpose # "password",
           kind = "submit" /\ purpose # "password" =>
              challenge \in 1..Len(challenges) /\ challenges[challenge].status # "pending"
    PROVE  CodeInv'
<1>. LoginTypeOK /\ CallsOk /\ OneAwaited /\ OneInserted /\ FormsInv /\ UsedInv /\ AcceptedOwnCode /\ SingleUse
  BY DEF CodeInv
<1>1. /\ UNCHANGED <<users, challenges, effects, used, reused, abandoned>>
      /\ made' \in 0..MaxCalls
  <2>1. made \in 0..MaxCalls /\ made < MaxCalls /\ made' = made + 1 /\ MaxCalls \in Nat
    BY LoginAssumption DEF Starts, LoginTypeOK
  <2>. QED
    BY <2>1 DEF Starts, histories
<1>2. PICK n : n = [form |-> owner, kind |-> kind, purpose |-> purpose, itcode |-> itcode,
                    challenge |-> challenge, awaited |-> TRUE, state |-> "arrived", failed |-> 0]
  OBVIOUS
<1>3. /\ n \in Handler /\ n.form = owner /\ n.kind = kind /\ n.purpose = purpose /\ n.itcode = itcode
      /\ n.challenge = challenge /\ n.awaited = TRUE /\ n.state = "arrived" /\ n # Free
  <2>1. 0 \in 0..MaxAttempts
    BY LoginAssumption
  <2>2. n \in Handler
    BY <1>2, <2>1 DEF Handler
  <2>3. n.state = "arrived"
    BY <1>2
  <2>. QED
    BY <1>2, <2>2, <2>3, StateIsCall
<1>4. PICK h \in 1..MaxHandlers : handlers[h] = Free /\ handlers' = [handlers EXCEPT ![h] = n]
  BY <1>2 DEF Starts, LoginTypeOK
<1>5. /\ handlers' \in [1..MaxHandlers -> Handler \cup {Free}] /\ handlers'[h] = n
      /\ \A g \in 1..MaxHandlers : g # h => handlers'[g] = handlers[g]
  BY <1>3, <1>4 DEF LoginTypeOK
<1>6. LoginTypeOK'
  BY <1>1, <1>5 DEF LoginTypeOK, LoginFields, AccountFields
<1>7. accountPurpose' = accountPurpose
  BY DEF accountPurpose
<1>8. ASSUME NEW g \in 1..MaxHandlers, Awaited(handlers[g]) PROVE handlers[g].form # owner
  <2>1. handlers[g] \in Handler /\ CallOk(handlers[g]) /\ handlers[g].awaited
    BY <1>8, CallIs DEF Awaited
  <2>2. handlers[g].kind # "no"
    BY <2>1 DEF Handler
  <2>. QED
    BY <2>1, <2>2 DEF CallOk, AwaitOk
<1>9. CallsOk'
  <2>1. CallOk(n)'
    BY <1>1, <1>3, <1>7 DEF CallOk, SendOk, SubmitOk, AwaitOk, Names, accountPurpose
  <2>2. ASSUME NEW g \in 1..MaxHandlers, g # h, handlers[g] # Free PROVE CallOk(handlers[g])'
    <3>1. handlers[g] \in Handler /\ CallOk(handlers[g]) /\ handlers'[g] = handlers[g]
      BY <1>5, <2>2, CallIs
    <3>2. handlers[g].awaited => handlers[g].form # owner
      BY <1>8, <2>2 DEF Awaited
    <3>3. PICK c : c = handlers[g]
      OBVIOUS
    <3>4. CallOk(c) /\ (c.awaited => c.form # owner) /\ c.form \in {"login", "account"}
      BY <3>1, <3>2, <3>3 DEF Handler
    <3>5. CallOk(c)'
      BY <1>1, <1>7, <3>4 DEF CallOk, SendOk, SubmitOk, AwaitOk, Names, Owns, accountPurpose
    <3>. QED
      BY <3>1, <3>3, <3>5 DEF CallOk, SendOk, SubmitOk, AwaitOk, Names, Owns
  <2>. QED
    BY <1>5, <2>1, <2>2 DEF CallsOk, CallOk, SendOk, SubmitOk, AwaitOk, Names, Owns
<1>10. OneAwaited'
  <2> SUFFICES ASSUME NEW f \in 1..MaxHandlers, NEW g \in 1..MaxHandlers, Awaited(handlers'[f]),
                      Awaited(handlers'[g]), handlers'[f].form = handlers'[g].form
               PROVE  f = g
    BY DEF OneAwaited, Awaited
  <2>1. CASE f # h /\ g # h
    BY <1>5, <2>1 DEF OneAwaited
  <2>2. CASE f = h /\ g # h
    BY <1>3, <1>5, <1>8, <2>2
  <2>3. CASE f # h /\ g = h
    BY <1>3, <1>5, <1>8, <2>3
  <2>. QED
    BY <2>1, <2>2, <2>3
<1>11. OneInserted'
  BY <1>3, <1>5 DEF OneInserted
<1>12. FormsInv'
  BY <1>1, <1>7 DEF FormsInv, Names
<1>13. UsedInv' /\ AcceptedOwnCode' /\ SingleUse'
  <2>1. \A g \in 1..MaxHandlers : handlers'[g].state = "read" => handlers'[g] = handlers[g]
    BY <1>3, <1>5
  <2>. QED
    BY <1>1, <2>1 DEF UsedInv, AcceptedOwnCode, SingleUse
<1>. QED
  BY <1>6, <1>9, <1>10, <1>11, <1>12, <1>13 DEF CodeInv

(* A handler moves on: what the call is stays.                             *)
HandlerMoved(d, c) ==
    /\ d \in Handler /\ d.form = c.form /\ d.kind = c.kind /\ d.purpose = c.purpose
    /\ d.itcode = c.itcode /\ d.awaited = c.awaited

LEMMA ReachesIs ==
    ASSUME LoginTypeOK, NEW h \in 1..MaxHandlers, handlers[h] \in Handler,
           NEW state \in {"looked", "consumed"}, Reaches(h, state)
    PROVE  \E d : /\ handlers' = [handlers EXCEPT ![h] = d] /\ HandlerMoved(d, handlers[h])
                  /\ d.challenge = handlers[h].challenge /\ d.state = state
<1>1. PICK d : d = [handlers[h] EXCEPT !.state = state]
  OBVIOUS
<1>2. /\ HandlerMoved(d, handlers[h]) /\ d.challenge = handlers[h].challenge /\ d.state = state
  BY <1>1 DEF Handler, HandlerMoved
<1>3. handlers' = [handlers EXCEPT ![h] = d]
  BY <1>1 DEF Reaches, LoginTypeOK
<1>. QED
  BY <1>2, <1>3

LEMMA EndsIs ==
    ASSUME LoginTypeOK, NEW h \in 1..MaxHandlers, handlers[h] \in Handler,
           NEW outcome \in {"ok", "refused"}, Ends(h, outcome)
    PROVE  \E d : /\ handlers' = [handlers EXCEPT ![h] = d]
                  /\ \/ d = Free
                     \/ /\ HandlerMoved(d, handlers[h]) /\ d.awaited
                        /\ d.challenge = handlers[h].challenge /\ d.state = outcome
<1>1. CASE handlers[h].awaited
  <2>1. PICK d : d = [handlers[h] EXCEPT !.state = outcome]
    OBVIOUS
  <2>2. HandlerMoved(d, handlers[h]) /\ d.awaited /\ d.challenge = handlers[h].challenge /\ d.state = outcome
    BY <1>1, <2>1 DEF Handler, HandlerMoved
  <2>3. handlers' = [handlers EXCEPT ![h] = d]
    BY <1>1, <2>1 DEF Ends, LoginTypeOK
  <2>. QED
    BY <2>2, <2>3
<1>2. CASE ~handlers[h].awaited
  <2>1. handlers' = [handlers EXCEPT ![h] = Free]
    BY <1>2 DEF Ends, LoginTypeOK
  <2>. QED
    BY <2>1
<1>. QED
  BY <1>1, <1>2

(* What a step of the handler h may do to the challenges: they keep their  *)
(* IT code and purpose, and only the handler that inserted one delivers it.*)
ChallengesGrow(h) ==
    /\ challenges' \in Seq(AuthVerificationChallenge) /\ Len(challenges') <= MaxChallenges
    /\ Len(challenges) <= Len(challenges')
    /\ \A x \in 1..Len(challenges) :
         /\ challenges'[x].itcode = challenges[x].itcode
         /\ challenges'[x].purpose = challenges[x].purpose
         /\ challenges[x].status # "pending" => challenges'[x].status # "pending"
         /\ challenges[x].status = "pending" /\ challenges'[x].status # "pending" =>
               handlers[h].state = "inserted" /\ handlers[h].challenge = x

LEMMA SameGrow ==
    ASSUME LoginTypeOK, NEW h, challenges' = challenges
    PROVE  ChallengesGrow(h)
BY DEF LoginTypeOK, ChallengesGrow

(* A step of the handler h disturbs no other call and no form.             *)
LEMMA ServeCalls ==
    ASSUME CodeInv, NEW h \in 1..MaxHandlers, handlers[h] # Free, NEW d,
           handlers' = [handlers EXCEPT ![h] = d],
           d = Free \/ (HandlerMoved(d, handlers[h]) /\ CallOk(d)'),
           d.state = "inserted" => d.challenge = Len(challenges) + 1,
           ChallengesGrow(h), UNCHANGED <<login, account, abandoned>>
    PROVE  /\ handlers' \in [1..MaxHandlers -> Handler \cup {Free}] /\ handlers'[h] = d
           /\ \A g \in 1..MaxHandlers : g # h => handlers'[g] = handlers[g]
           /\ CallsOk' /\ OneAwaited' /\ OneInserted' /\ FormsInv'
<1>. LoginTypeOK /\ CallsOk /\ OneAwaited /\ OneInserted /\ FormsInv
  BY DEF CodeInv
<1>1. /\ handlers' \in [1..MaxHandlers -> Handler \cup {Free}] /\ handlers'[h] = d
      /\ \A g \in 1..MaxHandlers : g # h => handlers'[g] = handlers[g]
  BY DEF LoginTypeOK, HandlerMoved
<1>2. accountPurpose' = accountPurpose
  BY DEF accountPurpose
<1>3. Len(challenges) \in Nat /\ Len(challenges') \in Nat /\ Len(challenges) <= Len(challenges')
  BY DEF LoginTypeOK, ChallengesGrow
<1>4. ASSUME NEW c, Names(c) PROVE Names(c)'
  BY <1>3, <1>4 DEF Names, ChallengesGrow
<1>5. ASSUME NEW c, c.challenge \in 1..Len(challenges), Owns(c) PROVE Owns(c)'
  BY <1>5 DEF Owns, ChallengesGrow
<1>6. CallsOk'
  <2>1. ASSUME NEW g \in 1..MaxHandlers, g # h, handlers[g] # Free PROVE CallOk(handlers[g])'
    <3>1. handlers[g] \in Handler /\ CallOk(handlers[g]) /\ handlers'[g] = handlers[g]
      BY <1>1, <2>1, CallIs
    <3>2. PICK c : c = handlers[g]
      OBVIOUS
    <3>3. CallOk(c) /\ c \in Handler
      BY <3>1, <3>2
    <3>4. c.state = "inserted" /\ c.kind = "send" =>
             /\ c.challenge \in 1..Len(challenges) /\ challenges[c.challenge].status = "pending"
             /\ ~(handlers[h].state = "inserted" /\ handlers[h].challenge = c.challenge)
      BY <2>1, <3>2, <3>3 DEF CallOk, SendOk, OneInserted
    <3>5. c.kind = "send" => SendOk(c)'
      <4>1. c.kind = "send" /\ c.state = "inserted" =>
               /\ c.challenge \in 1..Len(challenges') /\ challenges'[c.challenge].status = "pending"
        BY <1>3, <3>4 DEF ChallengesGrow
      <4>. QED
        BY <1>4, <1>5, <3>3, <4>1 DEF CallOk, SendOk, Names
    <3>6. c.kind = "submit" => SubmitOk(c)'
      BY <1>4, <1>5, <3>3 DEF CallOk, SubmitOk, Names
    <3>7. AwaitOk(c)'
      BY <1>2, <3>3 DEF CallOk, AwaitOk, accountPurpose
    <3>. QED
      BY <3>1, <3>2, <3>5, <3>6, <3>7 DEF CallOk, SendOk, SubmitOk, AwaitOk, Names, Owns
  <2>2. ASSUME NEW g \in 1..MaxHandlers, g = h, handlers'[g] # Free PROVE CallOk(handlers[g])'
    <3>1. handlers'[g] = d /\ CallOk(d)'
      BY <1>1, <2>2
    <3>. QED
      BY <3>1 DEF CallOk, SendOk, SubmitOk, AwaitOk, Names, Owns
  <2>3. ASSUME NEW g \in 1..MaxHandlers, handlers'[g] # Free PROVE CallOk(handlers[g])'
    BY <1>1, <2>1, <2>2, <2>3
  <2>. QED
    BY <2>3 DEF CallsOk
<1>7. \A g \in 1..MaxHandlers : Awaited(handlers'[g]) =>
         Awaited(handlers[g]) /\ handlers'[g].form = handlers[g].form
  BY <1>1 DEF Awaited, HandlerMoved
<1>8. OneAwaited'
  BY <1>7 DEF OneAwaited, Awaited
<1>9. OneInserted'
  <2>1. ASSUME NEW g \in 1..MaxHandlers, g # h, handlers'[g].state = "inserted"
        PROVE  handlers'[g].challenge <= Len(challenges) /\ handlers'[g].challenge \in Nat
    <3>1. handlers[g].state = "inserted" /\ handlers'[g] = handlers[g] /\ handlers[g] # Free
      BY <1>1, <2>1 DEF Free
    <3>2. handlers[g] \in Handler /\ CallOk(handlers[g])
      BY <3>1, CallIs
    <3>. QED
      BY <1>3, <3>1, <3>2 DEF CallOk, SendOk, SubmitOk, Handler
  <2>2. d.state = "inserted" => \A g \in 1..MaxHandlers : g # h /\ handlers'[g].state = "inserted" =>
           handlers'[g].challenge # d.challenge
    BY <1>3, <2>1
  <2>. QED
    BY <1>1, <2>2 DEF OneInserted
<1>10. FormsInv'
  <2>1. login.challenge # NoChallenge => Names(login)'
    BY <1>3 DEF FormsInv, Names, ChallengesGrow
  <2>2. account.challenge # NoChallenge =>
           Names(account)' /\ challenges'[account.challenge].purpose = accountPurpose
    BY <1>3 DEF FormsInv, Names, ChallengesGrow
  <2>. QED
    BY <1>2, <2>1, <2>2 DEF FormsInv, Names
<1>. QED
  BY <1>1, <1>6, <1>8, <1>9, <1>10

(* A step that accepts no code keeps the histories.                        *)
LEMMA ServeKept ==
    ASSUME CodeInv, NEW h \in 1..MaxHandlers, handlers[h] # Free, NEW d,
           handlers' = [handlers EXCEPT ![h] = d],
           d = Free \/ (HandlerMoved(d, handlers[h]) /\ CallOk(d)'),
           d.state = "inserted" => d.challenge = Len(challenges) + 1,
           ChallengesGrow(h), UNCHANGED <<login, account, abandoned, made, used, reused>>,
           users' \in [Itcodes -> {"none", "active", "inactive"}],
           \A x \in 1..Len(challenges) :
              challenges[x].status = "consumed" => challenges'[x].status = "consumed",
           d.state = "read" => challenges[d.challenge].status = "delivered",
           \A e \in effects' : e \in effects \/
              /\ e \in [itcode : Itcodes, purpose : Purposes, challenge : 1..MaxChallenges]
              /\ e.challenge \in 1..Len(challenges') /\ Owns(e)'
    PROVE  CodeInv'
<1>. LoginTypeOK /\ UsedInv /\ AcceptedOwnCode /\ SingleUse
  BY DEF CodeInv
<1>1. /\ handlers' \in [1..MaxHandlers -> Handler \cup {Free}] /\ handlers'[h] = d
      /\ \A g \in 1..MaxHandlers : g # h => handlers'[g] = handlers[g]
      /\ CallsOk' /\ OneAwaited' /\ OneInserted' /\ FormsInv'
  BY ServeCalls
<1>2. Len(challenges) \in Nat /\ Len(challenges') \in Nat /\ Len(challenges) <= Len(challenges')
  BY DEF LoginTypeOK, ChallengesGrow
<1>3. LoginTypeOK'
  <2>1. challenges' \in Seq(AuthVerificationChallenge) /\ Len(challenges') <= MaxChallenges
    BY DEF ChallengesGrow
  <2>2. effects' \subseteq [itcode : Itcodes, purpose : Purposes, challenge : 1..MaxChallenges]
    BY DEF LoginTypeOK
  <2>. QED
    BY <1>1, <2>1, <2>2 DEF LoginTypeOK
<1>4. AcceptedOwnCode' /\ \A e \in effects' : e.challenge \in 1..Len(challenges')
  <2>1. ASSUME NEW e \in effects' PROVE e.challenge \in 1..Len(challenges') /\ Owns(e)'
    <3>1. CASE e \in effects
      <4>1. e.challenge \in 1..Len(challenges) /\ Owns(e)
        BY <3>1 DEF UsedInv, AcceptedOwnCode, Owns
      <4>. QED
        BY <1>2, <4>1 DEF Owns, ChallengesGrow
    <3>. QED
      BY <2>1, <3>1
  <2>. QED
    BY <2>1 DEF AcceptedOwnCode, Owns
<1>5. UsedInv'
  <2>1. ASSUME NEW x \in used
        PROVE  x \in 1..Len(challenges') /\ challenges'[x].status # "pending"
    BY <1>2, <2>1 DEF UsedInv, ChallengesGrow
  <2>2. ASSUME NEW x \in used, x \notin abandoned
        PROVE  /\ challenges'[x].status = "consumed"
               /\ \A g \in 1..MaxHandlers : handlers'[g].state = "read" => handlers'[g].challenge # x
    <3>1. /\ x \in 1..Len(challenges) /\ challenges[x].status = "consumed"
          /\ \A g \in 1..MaxHandlers : handlers[g].state = "read" => handlers[g].challenge # x
      BY <2>2 DEF UsedInv
    <3>. QED
      BY <1>1, <3>1
  <2>. QED
    BY <1>4, <2>1, <2>2 DEF UsedInv
<1>6. SingleUse'
  BY DEF SingleUse
<1>. QED
  BY <1>1, <1>3, <1>4, <1>5, <1>6 DEF CodeInv

(* What a call that moved on still is, when the forms did not change.      *)
LEMMA MovedAwaits ==
    ASSUME NEW c, NEW d, CallOk(c), HandlerMoved(d, c), d.state \in {"ok", "refused"} => d.awaited,
           UNCHANGED <<login, account>>
    PROVE  AwaitOk(d)'
BY DEF CallOk, AwaitOk, HandlerMoved, accountPurpose

LEMMA LookUpStep ==
    ASSUME CodeInv, NEW h \in 1..MaxHandlers, LookUp(h)
    PROVE  CodeInv'
<1>. LoginTypeOK /\ CallsOk
  BY DEF CodeInv
<1>1. handlers[h].state = "arrived" /\ handlers[h].kind = "send" /\ handlers[h] # Free
  BY StateIsCall DEF LookUp
<1>2. handlers[h] \in Handler /\ CallOk(handlers[h])
  BY <1>1, CallIs
<1>3. UNCHANGED <<login, account, users, challenges, made, effects, used, reused, abandoned>>
  BY DEF LookUp, forms, histories
<1>4. PICK d : /\ handlers' = [handlers EXCEPT ![h] = d]
               /\ \/ d = Free
                  \/ /\ HandlerMoved(d, handlers[h]) /\ d.state \in {"looked", "refused"}
                     /\ d.state = "refused" => d.awaited
  <2>1. CASE Reaches(h, "looked")
    BY <1>2, <2>1, ReachesIs
  <2>2. CASE Ends(h, "refused")
    BY <1>2, <2>2, EndsIs
  <2>. QED
    BY <2>1, <2>2 DEF LookUp
<1>5. d = Free \/ (HandlerMoved(d, handlers[h]) /\ CallOk(d)')
  <2>1. ASSUME d # Free PROVE CallOk(d)'
    <3>1. HandlerMoved(d, handlers[h]) /\ d.state \in {"looked", "refused"} /\ (d.state = "refused" => d.awaited)
      BY <1>4, <2>1
    <3>2. AwaitOk(d)'
      BY <1>2, <1>3, <3>1, MovedAwaits
    <3>3. d.kind = "send" /\ d.purpose # "password"
      BY <1>1, <1>2, <3>1 DEF HandlerMoved, CallOk, SendOk
    <3>. QED
      BY <3>1, <3>2, <3>3 DEF CallOk, SendOk
  <2>. QED
    BY <1>4, <2>1
<1>6. d.state \notin {"inserted", "read"}
  BY <1>4 DEF Free
<1>7. ChallengesGrow(h)
  BY <1>3, SameGrow
<1>8. users' \in [Itcodes -> {"none", "active", "inactive"}]
  BY <1>3 DEF LoginTypeOK
<1>. QED
  BY <1>1, <1>3, <1>4, <1>5, <1>6, <1>7, <1>8, ServeKept

LEMMA InsertStep ==
    ASSUME CodeInv, NEW h \in 1..MaxHandlers, InsertChallenge(h)
    PROVE  CodeInv'
<1>. LoginTypeOK /\ CallsOk
  BY DEF CodeInv
<1>1. handlers[h].state = "looked" /\ Len(challenges) < MaxChallenges /\ handlers[h] # Free
  BY StateIsCall DEF InsertChallenge
<1>2. handlers[h] \in Handler /\ CallOk(handlers[h])
  BY <1>1, CallIs
<1>3. UNCHANGED <<login, account, users, made, effects, used, reused, abandoned>>
  BY DEF InsertChallenge, forms, histories
<1>4. handlers[h].kind = "send" /\ handlers[h].purpose # "password"
  BY <1>1, <1>2 DEF CallOk, SendOk, SubmitOk, Handler
<1>5. PICK n : n = [itcode |-> handlers[h].itcode, purpose |-> handlers[h].purpose, failed |-> 0,
                    status |-> "pending", waiting |-> TRUE, valid |-> TRUE]
  OBVIOUS
<1>6. /\ n \in AuthVerificationChallenge /\ n.itcode = handlers[h].itcode
      /\ n.purpose = handlers[h].purpose /\ n.status = "pending"
  <2>1. 0 \in 0..MaxAttempts
    BY LoginAssumption
  <2>2. handlers[h].itcode \in Itcodes /\ handlers[h].purpose \in Purposes
    BY <1>2, <1>4 DEF Handler
  <2>. QED
    BY <1>5, <2>1, <2>2 DEF AuthVerificationChallenge, Statuses
<1>7. challenges' = Append(challenges, n)
  BY <1>5 DEF InsertChallenge
<1>8. /\ challenges' \in Seq(AuthVerificationChallenge) /\ Len(challenges') = Len(challenges) + 1
      /\ challenges'[Len(challenges) + 1] = n /\ Len(challenges) \in Nat
      /\ \A x \in 1..Len(challenges) : challenges'[x] = challenges[x]
  BY <1>6, <1>7 DEF LoginTypeOK
<1>9. ChallengesGrow(h)
  <2>1. Len(challenges') <= MaxChallenges /\ Len(challenges) <= Len(challenges')
    BY <1>1, <1>8, LoginAssumption
  <2>. QED
    BY <1>8, <2>1 DEF ChallengesGrow
<1>10. PICK b : b = [handlers[h] EXCEPT !.state = "inserted"]
  OBVIOUS
<1>11. PICK d : d = [b EXCEPT !.challenge = Len(challenges) + 1]
  OBVIOUS
<1>12. HandlerMoved(b, handlers[h]) /\ b.state = "inserted"
  BY <1>2, <1>10 DEF Handler, HandlerMoved
<1>13. HandlerMoved(d, handlers[h]) /\ d.state = "inserted" /\ d.challenge = Len(challenges) + 1
  <2>1. Len(challenges) + 1 \in 0..MaxChallenges
    BY <1>1, <1>8, LoginAssumption
  <2>2. b \in Handler
    BY <1>12 DEF HandlerMoved
  <2>3. /\ d \in Handler /\ d.form = b.form /\ d.kind = b.kind /\ d.purpose = b.purpose
        /\ d.itcode = b.itcode /\ d.awaited = b.awaited /\ d.state = b.state
        /\ d.challenge = Len(challenges) + 1
    BY <1>11, <2>1, <2>2 DEF Handler
  <2>. QED
    BY <1>12, <2>3 DEF HandlerMoved
<1>14. handlers' = [handlers EXCEPT ![h] = d]
  BY <1>8, <1>10, <1>11 DEF InsertChallenge, LoginTypeOK
<1>15. CallOk(d)'
  <2>1. AwaitOk(d)'
    BY <1>2, <1>3, <1>13, MovedAwaits
  <2>2. d.kind = "send" /\ d.purpose # "password" /\ d.purpose = n.purpose /\ d.itcode = n.itcode
    BY <1>4, <1>6, <1>13 DEF HandlerMoved
  <2>3. d.challenge \in 1..Len(challenges') /\ challenges'[d.challenge] = n
    BY <1>8, <1>13
  <2>. QED
    BY <1>6, <1>13, <2>1, <2>2, <2>3 DEF CallOk, SendOk, Owns
<1>16. users' \in [Itcodes -> {"none", "active", "inactive"}]
  BY <1>3 DEF LoginTypeOK
<1>17. \A x \in 1..Len(challenges) :
          challenges[x].status = "consumed" => challenges'[x].status = "consumed"
  BY <1>8
<1>. QED
  BY <1>1, <1>3, <1>9, <1>13, <1>14, <1>15, <1>16, <1>17, ServeKept

(* A challenge another status is stored in.                                *)
LEMMA StatusStored ==
    ASSUME LoginTypeOK, NEW x \in 1..Len(challenges), NEW status \in Statuses,
           challenges' = [challenges EXCEPT ![x].status = status]
    PROVE  /\ challenges' \in Seq(AuthVerificationChallenge) /\ Len(challenges') = Len(challenges)
           /\ challenges'[x].status = status /\ challenges'[x].itcode = challenges[x].itcode
           /\ challenges'[x].purpose = challenges[x].purpose
           /\ \A y \in 1..Len(challenges) : y # x => challenges'[y] = challenges[y]
<1>1. challenges[x] \in AuthVerificationChallenge
  BY DEF LoginTypeOK
<1>2. PICK n : n = [challenges[x] EXCEPT !.status = status]
  OBVIOUS
<1>3. /\ n \in AuthVerificationChallenge /\ n.status = status /\ n.itcode = challenges[x].itcode
      /\ n.purpose = challenges[x].purpose
  BY <1>1, <1>2 DEF AuthVerificationChallenge
<1>4. challenges' = [challenges EXCEPT ![x] = n]
  BY <1>2 DEF LoginTypeOK
<1>. QED
  BY <1>3, <1>4 DEF LoginTypeOK

LEMMA DeliverStep ==
    ASSUME CodeInv, NEW h \in 1..MaxHandlers, Deliver(h)
    PROVE  CodeInv'
<1>. LoginTypeOK /\ CallsOk
  BY DEF CodeInv
<1>1. handlers[h].state = "inserted" /\ handlers[h] # Free
  BY StateIsCall DEF Deliver
<1>2. handlers[h] \in Handler /\ CallOk(handlers[h])
  BY <1>1, CallIs
<1>3. UNCHANGED <<login, account, users, made, effects, used, reused, abandoned>>
  BY DEF Deliver, forms, histories
<1>4. /\ handlers[h].kind = "send" /\ handlers[h].purpose # "password" /\ Owns(handlers[h])
      /\ handlers[h].challenge \in 1..Len(challenges)
      /\ challenges[handlers[h].challenge].status = "pending"
  BY <1>1, <1>2 DEF CallOk, SendOk, SubmitOk, Handler
<1>5. PICK status \in {"delivered", "delivery_failed"}, outcome \in {"ok", "refused"} :
         /\ challenges' = [challenges EXCEPT ![handlers[h].challenge].status = status]
         /\ Ends(h, outcome)
  <2>1. PICK ok \in BOOLEAN :
           /\ challenges' = [challenges EXCEPT ![handlers[h].challenge].status =
                                IF ok THEN "delivered" ELSE "delivery_failed"]
           /\ Ends(h, IF ok THEN "ok" ELSE "refused")
    BY DEF Deliver
  <2>2. CASE ok = TRUE
    BY <2>1, <2>2
  <2>3. CASE ok = FALSE
    BY <2>1, <2>3
  <2>. QED
    BY <2>2, <2>3
<1>6. PICK d : /\ handlers' = [handlers EXCEPT ![h] = d]
               /\ \/ d = Free
                  \/ /\ HandlerMoved(d, handlers[h]) /\ d.awaited
                     /\ d.challenge = handlers[h].challenge /\ d.state = outcome
  BY <1>2, <1>5, EndsIs
<1>7. PICK x : x = handlers[h].challenge
  OBVIOUS
<1>8. /\ challenges' \in Seq(AuthVerificationChallenge) /\ Len(challenges') = Len(challenges)
      /\ challenges'[x].status = status /\ challenges'[x].itcode = challenges[x].itcode
      /\ challenges'[x].purpose = challenges[x].purpose
      /\ \A y \in 1..Len(challenges) : y # x => challenges'[y] = challenges[y]
  BY <1>4, <1>5, <1>7, StatusStored DEF Statuses
<1>9. Len(challenges) \in Nat /\ x \in 1..Len(challenges) /\ challenges[x].status = "pending"
  BY <1>4, <1>7 DEF LoginTypeOK
<1>10. ChallengesGrow(h)
  <2>1. Len(challenges') <= MaxChallenges /\ Len(challenges) <= Len(challenges')
    BY <1>8, <1>9 DEF LoginTypeOK
  <2>. QED
    BY <1>1, <1>7, <1>8, <1>9, <2>1 DEF ChallengesGrow
<1>11. d = Free \/ (HandlerMoved(d, handlers[h]) /\ CallOk(d)')
  <2>1. ASSUME d # Free PROVE CallOk(d)'
    <3>1. HandlerMoved(d, handlers[h]) /\ d.awaited /\ d.challenge = x /\ d.state \in {"ok", "refused"}
      BY <1>5, <1>6, <1>7, <2>1
    <3>2. AwaitOk(d)'
      BY <1>2, <1>3, <3>1, MovedAwaits
    <3>3. /\ d.kind = "send" /\ d.purpose # "password"
          /\ d.itcode = challenges[x].itcode /\ d.purpose = challenges[x].purpose
      BY <1>4, <1>7, <3>1 DEF HandlerMoved, Owns
    <3>4. x \in 1..Len(challenges') /\ challenges'[x].status # "pending"
      BY <1>5, <1>8, <1>9
    <3>. QED
      BY <1>8, <3>1, <3>2, <3>3, <3>4 DEF CallOk, SendOk, Names, Owns
  <2>. QED
    BY <1>6, <2>1
<1>12. d.state \notin {"inserted", "read"}
  BY <1>5, <1>6 DEF Free
<1>13. users' \in [Itcodes -> {"none", "active", "inactive"}]
  BY <1>3 DEF LoginTypeOK
<1>14. \A y \in 1..Len(challenges) :
          challenges[y].status = "consumed" => challenges'[y].status = "consumed"
  BY <1>8, <1>9
<1>. QED
  BY <1>1, <1>3, <1>6, <1>10, <1>11, <1>12, <1>13, <1>14, ServeKept

LEMMA ReadStep ==
    ASSUME CodeInv, NEW h \in 1..MaxHandlers, ReadChallenge(h)
    PROVE  CodeInv'
<1>. LoginTypeOK /\ CallsOk
  BY DEF CodeInv
<1>1. /\ handlers[h].state = "arrived" /\ handlers[h].kind = "submit"
      /\ handlers[h].purpose # "password" /\ handlers[h] # Free
  BY StateIsCall DEF ReadChallenge
<1>2. handlers[h] \in Handler /\ CallOk(handlers[h])
  BY <1>1, CallIs
<1>3. UNCHANGED <<login, account, users, challenges, made, effects, used, reused, abandoned>>
  BY DEF ReadChallenge, forms, histories
<1>4. /\ handlers[h].challenge \in 1..Len(challenges)
      /\ challenges[handlers[h].challenge].status # "pending"
      /\ ~handlers[h].awaited => handlers[h].challenge \in abandoned
  BY <1>1, <1>2 DEF CallOk, SubmitOk, Names
<1>5. PICK d : /\ handlers' = [handlers EXCEPT ![h] = d]
               /\ \/ d = Free
                  \/ /\ HandlerMoved(d, handlers[h]) /\ d.challenge = handlers[h].challenge
                     /\ \/ d.state = "refused" /\ d.awaited
                        \/ d.state = "read" /\ Usable(handlers[h])
  <2>1. CASE Usable(handlers[h]) /\ handlers' = [handlers EXCEPT ![h].state = "read",
                ![h].failed = challenges[handlers[h].challenge].failed]
    <3>1. challenges[handlers[h].challenge].failed \in 0..MaxAttempts
      <4>1. challenges[handlers[h].challenge] \in AuthVerificationChallenge
        BY <1>4 DEF LoginTypeOK
      <4>. QED
        BY <4>1 DEF AuthVerificationChallenge
    <3>2. PICK n \in 0..MaxAttempts : n = challenges[handlers[h].challenge].failed
      BY <3>1
    <3>3. PICK b : b = [handlers[h] EXCEPT !.state = "read"]
      OBVIOUS
    <3>4. PICK d : d = [b EXCEPT !.failed = n]
      OBVIOUS
    <3>5. HandlerMoved(b, handlers[h]) /\ b.state = "read" /\ b.challenge = handlers[h].challenge
      BY <1>2, <3>3 DEF Handler, HandlerMoved
    <3>6. /\ d \in Handler /\ d.form = b.form /\ d.kind = b.kind /\ d.purpose = b.purpose
          /\ d.itcode = b.itcode /\ d.awaited = b.awaited /\ d.state = b.state
          /\ d.challenge = b.challenge
      <4>1. b \in Handler
        BY <3>5 DEF HandlerMoved
      <4>. QED
        BY <3>4, <4>1 DEF Handler
    <3>7. HandlerMoved(d, handlers[h]) /\ d.state = "read" /\ d.challenge = handlers[h].challenge
      BY <3>5, <3>6 DEF HandlerMoved
    <3>8. handlers' = [handlers EXCEPT ![h] = d]
      BY <2>1, <3>2, <3>3, <3>4 DEF LoginTypeOK
    <3>. QED
      BY <2>1, <3>7, <3>8
  <2>2. CASE Ends(h, "refused")
    BY <1>2, <2>2, EndsIs
  <2>. QED
    BY <2>1, <2>2 DEF ReadChallenge
<1>6. d = Free \/ (HandlerMoved(d, handlers[h]) /\ CallOk(d)')
  <2>1. ASSUME d # Free PROVE CallOk(d)'
    <3>1. /\ HandlerMoved(d, handlers[h]) /\ d.challenge = handlers[h].challenge
          /\ d.state \in {"read", "refused"} /\ (d.state = "refused" => d.awaited)
          /\ d.state = "read" => Usable(handlers[h])
      BY <1>5, <2>1
    <3>2. AwaitOk(d)'
      BY <1>2, <1>3, <3>1, MovedAwaits
    <3>3. d.kind = "submit" /\ d.purpose # "password" /\ (~d.awaited => d.challenge \in abandoned)
      BY <1>1, <1>4, <3>1 DEF HandlerMoved
    <3>4. Names(d)'
      BY <1>3, <1>4, <3>1 DEF Names
    <3>5. d.state = "read" => Owns(d)'
      BY <1>3, <3>1 DEF Usable, Owns, HandlerMoved
    <3>. QED
      BY <1>3, <3>1, <3>2, <3>3, <3>4, <3>5 DEF CallOk, SubmitOk
  <2>. QED
    BY <1>5, <2>1
<1>7. d.state # "inserted"
  BY <1>5 DEF Free
<1>8. d.state = "read" => challenges[d.challenge].status = "delivered"
  BY <1>5 DEF Free, Usable
<1>9. ChallengesGrow(h)
  BY <1>3, SameGrow
<1>10. users' \in [Itcodes -> {"none", "active", "inactive"}]
  BY <1>3 DEF LoginTypeOK
<1>. QED
  BY <1>1, <1>3, <1>5, <1>6, <1>7, <1>8, <1>9, <1>10, ServeKept

LEMMA PasswordStep ==
    ASSUME CodeInv, NEW h \in 1..MaxHandlers, PasswordLogin(h)
    PROVE  CodeInv'
<1>. LoginTypeOK /\ CallsOk
  BY DEF CodeInv
<1>1. handlers[h].state = "arrived" /\ handlers[h].purpose = "password" /\ handlers[h] # Free
  BY StateIsCall DEF PasswordLogin
<1>2. handlers[h] \in Handler /\ CallOk(handlers[h])
  BY <1>1, CallIs
<1>3. UNCHANGED <<login, account, users, challenges, made, effects, used, reused, abandoned>>
  BY DEF PasswordLogin, forms, histories
<1>4. PICK outcome \in {"ok", "refused"} : Ends(h, outcome)
  <2>1. \E right \in BOOLEAN :
           Ends(h, IF right /\ users[handlers[h].itcode] = "active" THEN "ok" ELSE "refused")
    BY DEF PasswordLogin
  <2>. QED
    BY <2>1
<1>5. PICK d : /\ handlers' = [handlers EXCEPT ![h] = d]
               /\ \/ d = Free
                  \/ HandlerMoved(d, handlers[h]) /\ d.awaited /\ d.state = outcome
  BY <1>2, <1>4, EndsIs
<1>6. d = Free \/ (HandlerMoved(d, handlers[h]) /\ CallOk(d)')
  <2>1. ASSUME d # Free PROVE CallOk(d)'
    <3>1. HandlerMoved(d, handlers[h]) /\ d.awaited /\ d.state \in {"ok", "refused"}
      BY <1>4, <1>5, <2>1
    <3>2. AwaitOk(d)'
      BY <1>2, <1>3, <3>1, MovedAwaits
    <3>3. d.kind = "submit" /\ d.purpose = "password"
      BY <1>1, <1>2, <3>1 DEF HandlerMoved, CallOk, SendOk, Handler
    <3>. QED
      BY <3>1, <3>2, <3>3 DEF CallOk, SubmitOk
  <2>. QED
    BY <1>5, <2>1
<1>7. d.state \notin {"inserted", "read"}
  BY <1>4, <1>5 DEF Free
<1>8. ChallengesGrow(h)
  BY <1>3, SameGrow
<1>9. users' \in [Itcodes -> {"none", "active", "inactive"}]
  BY <1>3 DEF LoginTypeOK
<1>. QED
  BY <1>1, <1>3, <1>5, <1>6, <1>7, <1>8, <1>9, ServeKept

LEMMA EffectStep ==
    ASSUME CodeInv, NEW h \in 1..MaxHandlers, TakeEffect(h)
    PROVE  CodeInv'
<1>. LoginTypeOK /\ CallsOk
  BY DEF CodeInv
<1>1. handlers[h].state = "consumed" /\ handlers[h] # Free
  BY StateIsCall DEF TakeEffect
<1>2. handlers[h] \in Handler /\ CallOk(handlers[h])
  BY <1>1, CallIs
<1>3. UNCHANGED <<login, account, challenges, made, used, reused, abandoned>>
  BY DEF TakeEffect, forms
<1>4. /\ handlers[h].kind = "submit" /\ handlers[h].purpose # "password"
      /\ Names(handlers[h]) /\ Owns(handlers[h])
      /\ ~handlers[h].awaited => handlers[h].challenge \in abandoned
  BY <1>1, <1>2 DEF CallOk, SendOk, SubmitOk, Handler
<1>5. PICK outcome \in {"ok", "refused"} : Ends(h, outcome)
  BY DEF TakeEffect
<1>6. PICK d : /\ handlers' = [handlers EXCEPT ![h] = d]
               /\ \/ d = Free
                  \/ /\ HandlerMoved(d, handlers[h]) /\ d.awaited
                     /\ d.challenge = handlers[h].challenge /\ d.state = outcome
  BY <1>2, <1>5, EndsIs
<1>7. d = Free \/ (HandlerMoved(d, handlers[h]) /\ CallOk(d)')
  <2>1. ASSUME d # Free PROVE CallOk(d)'
    <3>1. /\ HandlerMoved(d, handlers[h]) /\ d.awaited /\ d.state \in {"ok", "refused"}
          /\ d.challenge = handlers[h].challenge
      BY <1>5, <1>6, <2>1
    <3>2. AwaitOk(d)'
      BY <1>2, <1>3, <3>1, MovedAwaits
    <3>3. d.kind = "submit" /\ d.purpose # "password"
      BY <1>4, <3>1 DEF HandlerMoved
    <3>4. Names(d)'
      BY <1>3, <1>4, <3>1 DEF Names
    <3>. QED
      BY <3>1, <3>2, <3>3, <3>4 DEF CallOk, SubmitOk
  <2>. QED
    BY <1>6, <2>1
<1>8. d.state \notin {"inserted", "read"}
  BY <1>5, <1>6 DEF Free
<1>9. ChallengesGrow(h)
  BY <1>3, SameGrow
<1>10. users' \in [Itcodes -> {"none", "active", "inactive"}]
  <2>1. handlers[h].itcode \in Itcodes
    BY <1>2 DEF Handler
  <2>. QED
    BY <2>1 DEF TakeEffect, LoginTypeOK
<1>11. \A e \in effects' : e \in effects \/
          /\ e \in [itcode : Itcodes, purpose : Purposes, challenge : 1..MaxChallenges]
          /\ e.challenge \in 1..Len(challenges') /\ Owns(e)'
  <2>1. PICK n : n = [itcode |-> handlers[h].itcode, purpose |-> handlers[h].purpose,
                      challenge |-> handlers[h].challenge]
    OBVIOUS
  <2>2. /\ n.itcode = handlers[h].itcode /\ n.purpose = handlers[h].purpose
        /\ n.challenge = handlers[h].challenge
    BY <2>1
  <2>3. handlers[h].challenge \in 1..MaxChallenges
    BY <1>2, <1>4 DEF Names, Handler
  <2>4. n \in [itcode : Itcodes, purpose : Purposes, challenge : 1..MaxChallenges]
    BY <1>2, <1>4, <2>1, <2>3 DEF Handler
  <2>5. n.challenge \in 1..Len(challenges') /\ Owns(n)'
    BY <1>3, <1>4, <2>2 DEF Names, Owns
  <2>6. effects' = effects \/ effects' = effects \cup {n}
    BY <2>1 DEF TakeEffect
  <2>7. ASSUME NEW e \in effects', e \notin effects PROVE e = n
    BY <2>6, <2>7
  <2>. QED
    BY <2>4, <2>5, <2>7 DEF Owns
<1>. QED
  BY <1>1, <1>3, <1>6, <1>7, <1>8, <1>9, <1>10, <1>11, ServeKept

(* The only step that accepts a code.  A challenge that was accepted       *)
(* before and that no given-up submission names has no reader left; two    *)
(* readers of one challenge are two calls of one form.                     *)
LEMMA SaveStep ==
    ASSUME CodeInv, NEW h \in 1..MaxHandlers, SaveChallenge(h)
    PROVE  CodeInv'
<1>. /\ LoginTypeOK /\ CallsOk /\ OneAwaited /\ UsedInv /\ AcceptedOwnCode /\ SingleUse
  BY DEF CodeInv
<1>1. handlers[h].state = "read" /\ handlers[h] # Free
  BY StateIsCall DEF SaveChallenge
<1>2. handlers[h] \in Handler /\ CallOk(handlers[h])
  BY <1>1, CallIs
<1>3. UNCHANGED <<login, account, users, made, effects, abandoned>>
  BY DEF SaveChallenge, forms
<1>4. /\ handlers[h].kind = "submit" /\ handlers[h].purpose # "password"
      /\ Names(handlers[h]) /\ Owns(handlers[h])
      /\ ~handlers[h].awaited => handlers[h].challenge \in abandoned
  BY <1>1, <1>2 DEF CallOk, SendOk, SubmitOk, Handler
<1>5. PICK x : x = handlers[h].challenge
  OBVIOUS
<1>6. /\ x \in 1..Len(challenges) /\ challenges[x].status # "pending" /\ x \in 1..MaxChallenges
      /\ Len(challenges) \in Nat
  BY <1>2, <1>4, <1>5 DEF Names, Handler, LoginTypeOK
<1>7. PICK v \in {"expired", "locked", "consumed", "delivered"}, f \in 0..MaxAttempts :
         /\ challenges' = [challenges EXCEPT ![x].status = v, ![x].failed = f]
         /\ IF v = "consumed" THEN Reaches(h, "consumed") ELSE Ends(h, "refused")
         /\ used' = used \cup (IF v = "consumed" THEN {x} ELSE {})
         /\ reused' = reused \cup (used \cap (IF v = "consumed" THEN {x} ELSE {}))
  <2>. DEFINE wrong(right) == ~right /\ challenges[handlers[h].challenge].valid
                              /\ handlers[h].failed < MaxAttempts
              spent(right) == IF Verdict(handlers[h], right) = "consumed"
                              THEN {handlers[h].challenge} ELSE {}
              count(right) == IF wrong(right) THEN handlers[h].failed + 1 ELSE handlers[h].failed
  <2>1. PICK right \in BOOLEAN :
           /\ challenges' = [challenges EXCEPT
                 ![handlers[h].challenge].status = Verdict(handlers[h], right),
                 ![handlers[h].challenge].failed = count(right)]
           /\ IF spent(right) # {} THEN Reaches(h, "consumed") ELSE Ends(h, "refused")
           /\ used' = used \cup spent(right)
           /\ reused' = reused \cup (used \cap spent(right))
    BY DEF SaveChallenge
  <2>2. handlers[h].failed \in 0..MaxAttempts /\ MaxAttempts \in Nat
    BY <1>2, LoginAssumption DEF Handler
  <2>3. count(right) \in 0..MaxAttempts
    BY <2>2
  <2>4. Verdict(handlers[h], right) \in {"expired", "locked", "consumed", "delivered"}
    BY DEF Verdict
  <2>. HIDE DEF count
  <2>5. spent(right) # {} <=> Verdict(handlers[h], right) = "consumed"
    OBVIOUS
  <2>. QED
    BY <1>5, <2>1, <2>3, <2>4, <2>5
<1>8. /\ challenges' \in Seq(AuthVerificationChallenge) /\ Len(challenges') = Len(challenges)
      /\ challenges'[x].status = v /\ challenges'[x].itcode = challenges[x].itcode
      /\ challenges'[x].purpose = challenges[x].purpose
      /\ \A y \in 1..Len(challenges) : y # x => challenges'[y] = challenges[y]
  <2>1. challenges[x] \in AuthVerificationChallenge
    BY <1>6 DEF LoginTypeOK
  <2>2. PICK b : b = [challenges[x] EXCEPT !.status = v]
    OBVIOUS
  <2>3. /\ b \in AuthVerificationChallenge /\ b.status = v /\ b.itcode = challenges[x].itcode
        /\ b.purpose = challenges[x].purpose
    BY <2>1, <2>2 DEF AuthVerificationChallenge, Statuses
  <2>4. PICK n : n = [b EXCEPT !.failed = f]
    OBVIOUS
  <2>5. /\ n \in AuthVerificationChallenge /\ n.status = v /\ n.itcode = challenges[x].itcode
        /\ n.purpose = challenges[x].purpose
    BY <2>3, <2>4 DEF AuthVerificationChallenge
  <2>6. challenges' = [challenges EXCEPT ![x] = n]
    BY <1>6, <1>7, <2>2, <2>4 DEF LoginTypeOK
  <2>. QED
    BY <1>6, <2>5, <2>6 DEF LoginTypeOK
<1>9. ChallengesGrow(h)
  <2>1. Len(challenges') <= MaxChallenges /\ Len(challenges) <= Len(challenges')
    BY <1>6, <1>8 DEF LoginTypeOK
  <2>. QED
    BY <1>6, <1>7, <1>8, <2>1 DEF ChallengesGrow
<1>10. PICK d : /\ handlers' = [handlers EXCEPT ![h] = d]
                /\ \/ d = Free
                   \/ /\ HandlerMoved(d, handlers[h]) /\ d.challenge = handlers[h].challenge
                      /\ d.state = "consumed" \/ (d.state = "refused" /\ d.awaited)
  <2>1. CASE v = "consumed"
    BY <1>2, <1>7, <2>1, ReachesIs
  <2>2. CASE v # "consumed"
    BY <1>2, <1>7, <2>2, EndsIs
  <2>. QED
    BY <2>1, <2>2
<1>11. d = Free \/ (HandlerMoved(d, handlers[h]) /\ CallOk(d)')
  <2>1. ASSUME d # Free PROVE CallOk(d)'
    <3>1. /\ HandlerMoved(d, handlers[h]) /\ d.challenge = x /\ d.state \in {"consumed", "refused"}
          /\ d.state = "refused" => d.awaited
      BY <1>5, <1>10, <2>1
    <3>2. AwaitOk(d)'
      BY <1>2, <1>3, <3>1, MovedAwaits
    <3>3. d.kind = "submit" /\ d.purpose # "password" /\ (~d.awaited => d.challenge \in abandoned)
      BY <1>4, <1>5, <3>1 DEF HandlerMoved
    <3>4. Names(d)'
      BY <1>6, <1>7, <1>8, <3>1 DEF Names
    <3>5. Owns(d)'
      BY <1>4, <1>5, <1>8, <3>1 DEF Owns, HandlerMoved
    <3>. QED
      BY <1>3, <3>1, <3>2, <3>3, <3>4, <3>5 DEF CallOk, SubmitOk
  <2>. QED
    BY <1>10, <2>1
<1>12. d.state \notin {"inserted", "read"}
  BY <1>10 DEF Free
<1>13. /\ handlers' \in [1..MaxHandlers -> Handler \cup {Free}] /\ handlers'[h] = d
       /\ \A g \in 1..MaxHandlers : g # h => handlers'[g] = handlers[g]
       /\ CallsOk' /\ OneAwaited' /\ OneInserted' /\ FormsInv'
  BY <1>1, <1>3, <1>9, <1>10, <1>11, <1>12, ServeCalls
<1>14. x \notin abandoned => x \notin used
  BY <1>1, <1>5 DEF UsedInv
<1>15. LoginTypeOK'
  <2>1. used' \subseteq 1..MaxChallenges /\ reused' \subseteq used'
    BY <1>6, <1>7 DEF LoginTypeOK
  <2>2. challenges' \in Seq(AuthVerificationChallenge) /\ Len(challenges') <= MaxChallenges
    BY <1>9 DEF ChallengesGrow
  <2>. QED
    BY <1>3, <1>13, <2>1, <2>2 DEF LoginTypeOK
<1>16. ASSUME NEW g \in 1..MaxHandlers, g # h, handlers[g].state = "read", handlers[g].challenge = x
       PROVE  x \in abandoned
  <2>1. handlers[g] # Free
    BY <1>16, StateIsCall
  <2>2. handlers[g] \in Handler /\ CallOk(handlers[g])
    BY <2>1, CallIs
  <2>3. /\ handlers[g].purpose # "password" /\ Owns(handlers[g])
        /\ ~handlers[g].awaited => handlers[g].challenge \in abandoned
    BY <1>16, <2>2 DEF CallOk, SendOk, SubmitOk, Handler
  <2>4. handlers[g].purpose = handlers[h].purpose
    BY <1>4, <1>5, <1>16, <2>3 DEF Owns
  <2>5. handlers[g].form = handlers[h].form
    <3>1. /\ handlers[g].form \in {"login", "account"} /\ handlers[h].form \in {"login", "account"}
      BY <1>2, <2>2 DEF Handler
    <3>. QED
      BY <1>2, <2>2, <2>4, <3>1 DEF CallOk, AwaitOk
  <2>6. ~(handlers[g].awaited /\ handlers[h].awaited)
    BY <1>1, <1>16, <2>1, <2>5 DEF OneAwaited, Awaited
  <2>. QED
    BY <1>4, <1>5, <1>16, <2>3, <2>6
<1>17. UsedInv'
  <2>1. ASSUME NEW y \in used'
        PROVE  y \in 1..Len(challenges') /\ challenges'[y].status # "pending"
    <3>1. CASE y = x
      BY <1>6, <1>7, <1>8, <3>1
    <3>2. CASE y # x
      <4>1. y \in used
        BY <1>7, <2>1, <3>2
      <4>. QED
        BY <1>8, <3>2, <4>1 DEF UsedInv
    <3>. QED
      BY <3>1, <3>2
  <2>2. ASSUME NEW y \in used', y \notin abandoned
        PROVE  /\ challenges'[y].status = "consumed"
               /\ \A g \in 1..MaxHandlers : handlers'[g].state = "read" => handlers'[g].challenge # y
    <3>1. CASE y = x
      <4>1. v = "consumed"
        BY <1>7, <1>14, <2>2, <3>1
      <4>. QED
        BY <1>8, <1>12, <1>13, <1>16, <2>2, <3>1, <4>1
    <3>2. CASE y # x
      <4>1. y \in used
        BY <1>7, <2>2, <3>2
      <4>2. /\ y \in 1..Len(challenges) /\ challenges[y].status = "consumed"
            /\ \A g \in 1..MaxHandlers : handlers[g].state = "read" => handlers[g].challenge # y
        BY <2>2, <4>1 DEF UsedInv
      <4>. QED
        BY <1>8, <1>12, <1>13, <3>2, <4>2
    <3>. QED
      BY <3>1, <3>2
  <2>3. \A e \in effects' : e.challenge \in 1..Len(challenges')
    BY <1>3, <1>8 DEF UsedInv
  <2>. QED
    BY <1>3, <2>1, <2>2, <2>3 DEF UsedInv
<1>18. AcceptedOwnCode'
  BY <1>3, <1>8 DEF AcceptedOwnCode, UsedInv
<1>19. SingleUse'
  BY <1>3, <1>7, <1>14 DEF SingleUse
<1>. QED
  BY <1>13, <1>15, <1>17, <1>18, <1>19 DEF CodeInv

(* Time passes for a challenge: nothing the invariant speaks of changes.   *)
LEMMA ClockStep ==
    ASSUME CodeInv, NEW i \in 1..MaxChallenges, ClockPasses(i)
    PROVE  CodeInv'
<1>. /\ LoginTypeOK /\ CallsOk /\ OneAwaited /\ OneInserted /\ FormsInv /\ UsedInv
     /\ AcceptedOwnCode /\ SingleUse
  BY DEF CodeInv
<1>1. UNCHANGED <<login, account, users, handlers, made, effects, used, reused, abandoned>>
  BY DEF ClockPasses, forms, histories
<1>2. i \in 1..Len(challenges) /\ challenges[i] \in AuthVerificationChallenge
  BY DEF ClockPasses, LoginTypeOK
<1>3. PICK n \in AuthVerificationChallenge :
         /\ challenges' = [challenges EXCEPT ![i] = n] /\ n.itcode = challenges[i].itcode
         /\ n.purpose = challenges[i].purpose /\ n.status = challenges[i].status
  <2>1. CASE challenges' = [challenges EXCEPT ![i].waiting = FALSE]
    <3>1. PICK n : n = [challenges[i] EXCEPT !.waiting = FALSE]
      OBVIOUS
    <3>2. /\ n \in AuthVerificationChallenge /\ n.itcode = challenges[i].itcode
          /\ n.purpose = challenges[i].purpose /\ n.status = challenges[i].status
      BY <1>2, <3>1 DEF AuthVerificationChallenge
    <3>. QED
      BY <1>2, <2>1, <3>1, <3>2 DEF LoginTypeOK
  <2>2. CASE challenges' = [challenges EXCEPT ![i].valid = FALSE]
    <3>1. PICK n : n = [challenges[i] EXCEPT !.valid = FALSE]
      OBVIOUS
    <3>2. /\ n \in AuthVerificationChallenge /\ n.itcode = challenges[i].itcode
          /\ n.purpose = challenges[i].purpose /\ n.status = challenges[i].status
      BY <1>2, <3>1 DEF AuthVerificationChallenge
    <3>. QED
      BY <1>2, <2>2, <3>1, <3>2 DEF LoginTypeOK
  <2>. QED
    BY <2>1, <2>2 DEF ClockPasses
<1>4. /\ challenges' \in Seq(AuthVerificationChallenge) /\ Len(challenges') = Len(challenges)
      /\ \A x \in 1..Len(challenges) : /\ challenges'[x].itcode = challenges[x].itcode
                                       /\ challenges'[x].purpose = challenges[x].purpose
                                       /\ challenges'[x].status = challenges[x].status
  BY <1>2, <1>3 DEF LoginTypeOK
<1>5. LoginTypeOK'
  BY <1>1, <1>4 DEF LoginTypeOK
<1>6. CallsOk'
  <2> SUFFICES ASSUME NEW h \in 1..MaxHandlers, handlers[h] # Free PROVE CallOk(handlers[h])'
    BY <1>1 DEF CallsOk
  <2>1. PICK c : c = handlers[h]
    OBVIOUS
  <2>2. c \in Handler /\ CallOk(c)
    BY <2>1, CallIs
  <2>3. CallOk(c)'
    BY <1>1, <1>4, <2>2 DEF CallOk, SendOk, SubmitOk, AwaitOk, Names, Owns, accountPurpose
  <2>. QED
    BY <1>1, <2>1, <2>3 DEF CallOk, SendOk, SubmitOk, AwaitOk, Names, Owns
<1>7. OneAwaited' /\ OneInserted'
  BY <1>1 DEF OneAwaited, OneInserted, Awaited
<1>8. FormsInv'
  BY <1>1, <1>4 DEF FormsInv, Names, accountPurpose
<1>9. UsedInv' /\ AcceptedOwnCode' /\ SingleUse'
  BY <1>1, <1>4 DEF UsedInv, AcceptedOwnCode, SingleUse
<1>. QED
  BY <1>5, <1>6, <1>7, <1>8, <1>9 DEF CodeInv

(* The page waits for one call: the dialog opens over an idle login form   *)
(* and is modal.                                                           *)
LEMMA OnlyAwaited ==
    ASSUME CodeInv, NEW g \in 1..MaxHandlers, NEW h \in 1..MaxHandlers, g # h,
           Awaited(handlers[h])
    PROVE  ~Awaited(handlers[g])
<1>. LoginTypeOK /\ CallsOk /\ OneAwaited /\ FormsInv
  BY DEF CodeInv
<1>. SUFFICES ASSUME Awaited(handlers[g]) PROVE FALSE
  OBVIOUS
<1>1. handlers[g] \in Handler /\ CallOk(handlers[g]) /\ handlers[g].awaited
  BY CallIs DEF Awaited
<1>2. handlers[h] \in Handler /\ CallOk(handlers[h]) /\ handlers[h].awaited
  BY CallIs DEF Awaited
<1>3. handlers[g].form # handlers[h].form
  BY DEF OneAwaited
<1>4. /\ handlers[g].kind # "no" /\ handlers[g].form \in {"login", "account"}
      /\ handlers[h].kind # "no" /\ handlers[h].form \in {"login", "account"}
  BY <1>1, <1>2 DEF Handler
<1>. QED
  BY <1>1, <1>2, <1>3, <1>4 DEF CallOk, AwaitOk, FormsInv

(* The awaited call is answered or given up, and its form settles.         *)
LEMMA AnswerStep ==
    ASSUME CodeInv, NEW h \in 1..MaxHandlers, Awaited(handlers[h]), NEW d,
           handlers' = [handlers EXCEPT ![h] = d],
           \/ d = Free
           \/ /\ d \in Handler /\ ~d.awaited /\ d.form = handlers[h].form
              /\ d.kind = handlers[h].kind /\ d.purpose = handlers[h].purpose
              /\ d.itcode = handlers[h].itcode /\ d.challenge = handlers[h].challenge
              /\ d.state = handlers[h].state /\ d.state \notin {"ok", "refused"}
              /\ d.kind = "submit" /\ d.purpose # "password" => d.challenge \in abandoned',
           UNCHANGED <<users, challenges, made, effects, used, reused>>,
           abandoned \subseteq abandoned', abandoned' \subseteq 1..MaxChallenges,
           login' \in LoginFields, account' \in AccountFields, FormsInv'
    PROVE  CodeInv'
<1>. /\ LoginTypeOK /\ CallsOk /\ OneAwaited /\ OneInserted /\ UsedInv
     /\ AcceptedOwnCode /\ SingleUse
  BY DEF CodeInv
<1>1. /\ handlers' \in [1..MaxHandlers -> Handler \cup {Free}] /\ handlers'[h] = d
      /\ \A g \in 1..MaxHandlers : g # h => handlers'[g] = handlers[g]
  BY DEF LoginTypeOK
<1>2. handlers[h] # Free /\ handlers[h] \in Handler /\ CallOk(handlers[h])
  BY CallIs DEF Awaited
<1>3. LoginTypeOK'
  BY <1>1 DEF LoginTypeOK, LoginFields, AccountFields
<1>4. CallsOk'
  <2>1. ASSUME NEW g \in 1..MaxHandlers, g # h, handlers[g] # Free PROVE CallOk(handlers[g])'
    <3>1. /\ handlers[g] \in Handler /\ CallOk(handlers[g]) /\ handlers'[g] = handlers[g]
          /\ ~handlers[g].awaited
      BY <1>1, <2>1, CallIs, OnlyAwaited DEF Awaited
    <3>2. PICK c : c = handlers[g]
      OBVIOUS
    <3>3. c \in Handler /\ CallOk(c) /\ ~c.awaited
      BY <3>1, <3>2
    <3>4. CallOk(c)'
      BY <3>3 DEF CallOk, SendOk, SubmitOk, AwaitOk, Names, Owns
    <3>. QED
      BY <3>1, <3>2, <3>4 DEF CallOk, SendOk, SubmitOk, AwaitOk, Names, Owns
  <2>2. ASSUME d # Free PROVE CallOk(d)'
    <3>1. PICK c : c = handlers[h]
      OBVIOUS
    <3>2. c \in Handler /\ CallOk(c)
      BY <1>2, <3>1
    <3>3. /\ d \in Handler /\ ~d.awaited /\ d.form = c.form /\ d.kind = c.kind
          /\ d.purpose = c.purpose /\ d.itcode = c.itcode /\ d.challenge = c.challenge
          /\ d.state = c.state /\ d.state \notin {"ok", "refused"}
          /\ d.kind = "submit" /\ d.purpose # "password" => d.challenge \in abandoned'
      BY <2>2, <3>1
    <3>. QED
      BY <3>2, <3>3 DEF CallOk, SendOk, SubmitOk, AwaitOk, Names, Owns
  <2>. QED
    BY <1>1, <2>1, <2>2 DEF CallsOk, CallOk, SendOk, SubmitOk, AwaitOk, Names, Owns
<1>5. OneAwaited'
  <2>1. \A g \in 1..MaxHandlers : ~Awaited(handlers'[g])
    BY <1>1, OnlyAwaited DEF Awaited
  <2>. QED
    BY <2>1 DEF OneAwaited, Awaited
<1>6. \A g \in 1..MaxHandlers : handlers'[g].state \in {"inserted", "read"} =>
         handlers'[g].state = handlers[g].state /\ handlers'[g].challenge = handlers[g].challenge
  BY <1>1 DEF Free
<1>7. OneInserted'
  BY <1>6 DEF OneInserted
<1>8. UsedInv' /\ AcceptedOwnCode' /\ SingleUse'
  BY <1>6 DEF UsedInv, AcceptedOwnCode, SingleUse
<1>. QED
  BY <1>3, <1>4, <1>5, <1>7, <1>8 DEF CodeInv

LEMMA ArriveStep ==
    ASSUME CodeInv, NEW h \in 1..MaxHandlers, ChallengeArrives(h)
    PROVE  CodeInv'
<1>. LoginTypeOK /\ CallsOk /\ FormsInv
  BY DEF CodeInv
<1>1. handlers[h].state = "ok" /\ handlers[h].kind = "send" /\ handlers[h] # Free
  BY StateIsCall DEF ChallengeArrives
<1>2. handlers[h] \in Handler /\ CallOk(handlers[h])
  BY <1>1, CallIs
<1>3. Awaited(handlers[h]) /\ Names(handlers[h]) /\ Owns(handlers[h])
  BY <1>1, <1>2 DEF Awaited, CallOk, AwaitOk, SendOk
<1>4. UNCHANGED <<users, challenges, made, effects, used, reused, abandoned>>
  BY DEF ChallengeArrives, histories
<1>5. handlers' = [handlers EXCEPT ![h] = Free]
  BY DEF ChallengeArrives
<1>6. PICK x \in 0..MaxChallenges : x = handlers[h].challenge
  BY <1>2 DEF Handler
<1>7. /\ x \in 1..Len(challenges) /\ challenges[x].status # "pending"
      /\ challenges[x].purpose = handlers[h].purpose
  BY <1>3, <1>6 DEF Names, Owns
<1>8. login \in LoginFields /\ account \in AccountFields
  BY DEF LoginTypeOK, LoginFields, AccountFields
<1>9. abandoned' \subseteq 1..MaxChallenges
  BY <1>4 DEF LoginTypeOK
<1>10. CASE handlers[h].form = "login"
  <2>1. account' = account /\ login' = [login EXCEPT !.challenge = x, !.busy = "no"]
    BY <1>6, <1>10 DEF ChallengeArrives
  <2>2. PICK b : b = [login EXCEPT !.challenge = x]
    OBVIOUS
  <2>3. b \in LoginFields /\ b.challenge = x
    BY <1>8, <2>2 DEF LoginFields
  <2>4. login' = [b EXCEPT !.busy = "no"]
    BY <2>1, <2>2
  <2>5. login' \in LoginFields /\ login'.challenge = x /\ login'.busy = "no"
    BY <2>3, <2>4 DEF LoginFields, AuthBusy
  <2>6. FormsInv'
    BY <1>4, <1>7, <2>1, <2>5 DEF FormsInv, Names, accountPurpose
  <2>. QED
    BY <1>3, <1>4, <1>5, <1>8, <1>9, <2>1, <2>5, <2>6, AnswerStep
<1>11. CASE handlers[h].form = "account"
  <2>1. login' = login /\ account' = [account EXCEPT !.challenge = x, !.busy = "no"]
    BY <1>6, <1>11 DEF ChallengeArrives
  <2>2. PICK b : b = [account EXCEPT !.challenge = x]
    OBVIOUS
  <2>3. b \in AccountFields /\ b.challenge = x /\ b.action = account.action
    BY <1>8, <2>2 DEF AccountFields
  <2>4. account' = [b EXCEPT !.busy = "no"]
    BY <2>1, <2>2
  <2>5. /\ account' \in AccountFields /\ account'.challenge = x /\ account'.busy = "no"
        /\ account'.action = account.action
    BY <2>3, <2>4 DEF AccountFields, AuthBusy
  <2>6. account.action # "none" /\ challenges[x].purpose = accountPurpose
    BY <1>2, <1>3, <1>7, <1>11 DEF CallOk, AwaitOk, Awaited
  <2>7. FormsInv'
    BY <1>4, <1>7, <2>1, <2>5, <2>6 DEF FormsInv, Names, accountPurpose
  <2>. QED
    BY <1>3, <1>4, <1>5, <1>8, <1>9, <2>1, <2>5, <2>7, AnswerStep
<1>. QED
  BY <1>2, <1>10, <1>11 DEF Handler

LEMMA EmptyForms == EmptyLogin \in LoginFields /\ EmptyAccount \in AccountFields
<1>1. 0 \in 0..MaxChallenges
  BY LoginAssumption
<1>. QED
  BY <1>1 DEF EmptyLogin, EmptyAccount, LoginFields, AccountFields, AuthBusy, NoChallenge

LEMMA AcceptedStep ==
    ASSUME CodeInv, NEW h \in 1..MaxHandlers, Accepted(h)
    PROVE  CodeInv'
<1>. LoginTypeOK /\ CallsOk /\ FormsInv
  BY DEF CodeInv
<1>1. handlers[h].state = "ok" /\ handlers[h] # Free
  BY StateIsCall DEF Accepted
<1>2. handlers[h] \in Handler /\ CallOk(handlers[h])
  BY <1>1, CallIs
<1>3. Awaited(handlers[h])
  BY <1>1, <1>2 DEF Awaited, CallOk, AwaitOk
<1>4. UNCHANGED <<users, challenges, made, effects, used, reused, abandoned>>
  BY DEF Accepted, histories
<1>5. handlers' = [handlers EXCEPT ![h] = Free] /\ account' = EmptyAccount
  BY DEF Accepted
<1>6. /\ account' \in AccountFields /\ account'.action = "none" /\ account'.busy = "no"
      /\ account'.challenge = NoChallenge
  BY <1>5, EmptyForms DEF EmptyAccount
<1>7. abandoned' \subseteq 1..MaxChallenges
  BY <1>4 DEF LoginTypeOK
<1>8. login' \in LoginFields /\ login'.challenge \in {NoChallenge, login.challenge}
  <2>1. CASE login' = EmptyLogin
    BY <2>1, EmptyForms DEF EmptyLogin
  <2>2. CASE login' = [login EXCEPT !.itcode = handlers[h].itcode, !.mode = "password"]
    <3>1. PICK i \in Itcodes : i = handlers[h].itcode
      BY <1>2 DEF Handler
    <3>2. PICK b : b = [login EXCEPT !.itcode = i]
      OBVIOUS
    <3>3. b \in LoginFields /\ b.challenge = login.challenge
      BY <3>2 DEF LoginFields, LoginTypeOK
    <3>4. login' = [b EXCEPT !.mode = "password"]
      BY <2>2, <3>1, <3>2
    <3>. QED
      BY <3>3, <3>4 DEF LoginFields
  <2>. QED
    BY <2>1, <2>2 DEF Accepted
<1>9. FormsInv'
  BY <1>4, <1>6, <1>8 DEF FormsInv, Names, NoChallenge
<1>. QED
  BY <1>3, <1>4, <1>5, <1>6, <1>7, <1>8, <1>9, AnswerStep

(* A form that settles keeps all but its busy flag.                        *)
LEMMA SettlesIs ==
    ASSUME LoginTypeOK, FormsInv, NEW owner, Settles(owner), challenges' = challenges
    PROVE  login' \in LoginFields /\ account' \in AccountFields /\ FormsInv'
<1>1. login \in LoginFields /\ account \in AccountFields
  BY DEF LoginTypeOK, LoginFields, AccountFields
<1>2. /\ login' \in LoginFields /\ login'.challenge = login.challenge
      /\ login'.busy \in {"no", login.busy}
      /\ account' \in AccountFields /\ account'.challenge = account.challenge
      /\ account'.action = account.action /\ account'.busy \in {"no", account.busy}
  <2>1. CASE login' = [login EXCEPT !.busy = "no"] /\ account' = account
    BY <1>1, <2>1 DEF LoginFields, AuthBusy
  <2>2. CASE account' = [account EXCEPT !.busy = "no"] /\ login' = login
    BY <1>1, <2>2 DEF AccountFields, AuthBusy
  <2>. QED
    BY <2>1, <2>2 DEF Settles
<1>3. FormsInv'
  BY <1>2 DEF FormsInv, Names, accountPurpose
<1>. QED
  BY <1>2, <1>3

LEMMA RefusedStep ==
    ASSUME CodeInv, NEW h \in 1..MaxHandlers, Refused(h)
    PROVE  CodeInv'
<1>. LoginTypeOK /\ CallsOk /\ FormsInv
  BY DEF CodeInv
<1>1. handlers[h].state = "refused" /\ handlers[h] # Free
  BY StateIsCall DEF Refused
<1>2. Awaited(handlers[h])
  BY <1>1, CallIs DEF Awaited, CallOk, AwaitOk
<1>3. /\ UNCHANGED <<users, challenges, made, effects, used, reused, abandoned>>
      /\ handlers' = [handlers EXCEPT ![h] = Free] /\ abandoned' \subseteq 1..MaxChallenges
  BY DEF Refused, histories, LoginTypeOK
<1>4. login' \in LoginFields /\ account' \in AccountFields /\ FormsInv'
  BY <1>3, SettlesIs DEF Refused
<1>. QED
  BY <1>2, <1>3, <1>4, AnswerStep

LEMMA LostStep ==
    ASSUME CodeInv, NEW h \in 1..MaxHandlers, ConnectionLost(h)
    PROVE  CodeInv'
<1>. LoginTypeOK /\ CallsOk /\ FormsInv
  BY DEF CodeInv
<1>1. handlers[h] # Free /\ Awaited(handlers[h])
  BY DEF ConnectionLost, Awaited
<1>2. handlers[h] \in Handler /\ CallOk(handlers[h])
  BY <1>1, CallIs
<1>3. UNCHANGED <<users, challenges, made, effects, used, reused>>
  BY DEF ConnectionLost
<1>4. login' \in LoginFields /\ account' \in AccountFields /\ FormsInv'
  BY <1>3, SettlesIs DEF ConnectionLost
<1>5. /\ abandoned \subseteq abandoned' /\ abandoned' \subseteq 1..MaxChallenges
      /\ handlers[h].kind = "submit" /\ handlers[h].challenge # NoChallenge =>
            handlers[h].challenge \in abandoned'
  <2>1. handlers[h].challenge \in 0..MaxChallenges
    BY <1>2 DEF Handler
  <2>2. handlers[h].challenge # 0 => handlers[h].challenge \in 1..MaxChallenges
    BY <2>1
  <2>. QED
    BY <2>2 DEF ConnectionLost, LoginTypeOK, NoChallenge
<1>6. CASE handlers[h].state \in {"ok", "refused"}
  <2>1. handlers' = [handlers EXCEPT ![h] = Free]
    BY <1>6 DEF ConnectionLost
  <2>. QED
    BY <1>1, <1>3, <1>4, <1>5, <2>1, AnswerStep
<1>7. CASE handlers[h].state \notin {"ok", "refused"}
  <2>1. PICK d : d = [handlers[h] EXCEPT !.awaited = FALSE]
    OBVIOUS
  <2>2. handlers' = [handlers EXCEPT ![h] = d]
    BY <1>7, <2>1 DEF ConnectionLost
  <2>3. /\ d \in Handler /\ ~d.awaited /\ d.form = handlers[h].form
        /\ d.kind = handlers[h].kind /\ d.purpose = handlers[h].purpose
        /\ d.itcode = handlers[h].itcode /\ d.challenge = handlers[h].challenge
        /\ d.state = handlers[h].state
    BY <1>2, <2>1 DEF Handler
  <2>4. d.kind = "submit" /\ d.purpose # "password" => d.challenge \in abandoned'
    <3>1. d.kind = "submit" /\ d.purpose # "password" => handlers[h].challenge # NoChallenge
      BY <1>2, <2>3 DEF CallOk, SubmitOk, Names, NoChallenge
    <3>. QED
      BY <1>5, <2>3, <3>1
  <2>. QED
    BY <1>1, <1>3, <1>4, <1>5, <1>7, <2>2, <2>3, <2>4, AnswerStep
<1>. QED
  BY <1>6, <1>7

LEMMA TypingStep == ASSUME CodeInv, Typing PROVE CodeInv'
<1>. LoginTypeOK /\ FormsInv
  BY DEF CodeInv
<1>1. login \in LoginFields /\ account \in AccountFields
  BY DEF LoginTypeOK, LoginFields, AccountFields
<1>2. 0 \in 0..MaxChallenges
  BY LoginAssumption
<1>3. ASSUME NEW mode \in {"password", "gquan"}, selectLoginMode(mode) PROVE CodeInv'
  <2>1. UNCHANGED <<account, users, challenges, handlers, made, histories>>
    BY <1>3 DEF selectLoginMode, onlyLogin
  <2>2. PICK b : b = [login EXCEPT !.mode = mode]
    OBVIOUS
  <2>3. b \in LoginFields /\ b.busy = login.busy
    BY <1>1, <2>2 DEF LoginFields
  <2>4. login' = [b EXCEPT !.challenge = NoChallenge]
    BY <1>3, <2>2 DEF selectLoginMode
  <2>5. login' \in LoginFields /\ login'.busy = login.busy /\ login'.challenge = NoChallenge
    BY <1>2, <2>3, <2>4 DEF LoginFields, NoChallenge
  <2>6. account.action = "none" /\ account.busy = "no" /\ account.challenge = NoChallenge
    BY <1>3 DEF selectLoginMode, FormsInv
  <2>. QED
    BY <1>1, <2>1, <2>5, <2>6, FormStep
<1>4. ASSUME NEW itcode \in Itcodes, updateLoginItcode(itcode) PROVE CodeInv'
  <2>1. UNCHANGED <<account, users, challenges, handlers, made, histories>>
    BY <1>4 DEF updateLoginItcode, onlyLogin
  <2>2. PICK b : b = [login EXCEPT !.itcode = itcode]
    OBVIOUS
  <2>3. b \in LoginFields /\ b.busy = login.busy
    BY <1>1, <2>2 DEF LoginFields
  <2>4. login' = [b EXCEPT !.challenge = NoChallenge]
    BY <1>4, <2>2 DEF updateLoginItcode
  <2>5. login' \in LoginFields /\ login'.busy = login.busy /\ login'.challenge = NoChallenge
    BY <1>2, <2>3, <2>4 DEF LoginFields, NoChallenge
  <2>6. account.action = "none" /\ account.busy = "no" /\ account.challenge = NoChallenge
    BY <1>4 DEF updateLoginItcode, FormsInv
  <2>. QED
    BY <1>1, <2>1, <2>5, <2>6, FormStep
<1>5. ASSUME NEW itcode \in Itcodes, updateAccountItcode(itcode) PROVE CodeInv'
  <2>1. UNCHANGED <<login, users, challenges, handlers, made, histories>>
    BY <1>5 DEF updateAccountItcode, onlyAccount
  <2>2. PICK b : b = [account EXCEPT !.itcode = itcode]
    OBVIOUS
  <2>3. b \in AccountFields /\ b.busy = account.busy /\ b.action = account.action
    BY <1>1, <2>2 DEF AccountFields
  <2>4. account' = [b EXCEPT !.challenge = NoChallenge]
    BY <1>5, <2>2 DEF updateAccountItcode
  <2>5. /\ account' \in AccountFields /\ account'.busy = account.busy
        /\ account'.action = account.action /\ account'.challenge = NoChallenge
    BY <1>2, <2>3, <2>4 DEF AccountFields, NoChallenge
  <2>6. account.action # "none" /\ login.busy = "no"
    BY <1>5 DEF updateAccountItcode, FormsInv
  <2>. QED
    BY <1>1, <2>1, <2>5, <2>6, FormStep
<1>6. ASSUME NEW action \in {"register", "password-change"}, openAccountAction(action) PROVE CodeInv'
  <2>1. UNCHANGED <<login, users, challenges, handlers, made, histories>>
    BY <1>6 DEF openAccountAction, onlyAccount
  <2>2. PICK a : a = [account EXCEPT !.action = action]
    OBVIOUS
  <2>3. a \in AccountFields /\ a.busy = account.busy /\ a.action = action
    BY <1>1, <2>2 DEF AccountFields
  <2>4. PICK i \in Itcodes \cup {Blank} : i = login.itcode
    BY <1>1 DEF LoginFields
  <2>5. PICK b : b = [a EXCEPT !.itcode = i]
    OBVIOUS
  <2>6. b \in AccountFields /\ b.busy = account.busy /\ b.action = action
    BY <2>3, <2>4, <2>5 DEF AccountFields
  <2>7. account' = [b EXCEPT !.challenge = NoChallenge]
    BY <1>6, <2>2, <2>4, <2>5 DEF openAccountAction
  <2>8. /\ account' \in AccountFields /\ account'.busy = account.busy
        /\ account'.action = action /\ account'.challenge = NoChallenge
    BY <1>2, <2>6, <2>7 DEF AccountFields, NoChallenge
  <2>9. account.busy = "no" /\ login.busy = "no"
    BY <1>6 DEF openAccountAction, FormsInv
  <2>. QED
    BY <1>1, <2>1, <2>8, <2>9, FormStep
<1>7. ASSUME closeAccountAction PROVE CodeInv'
  <2>1. UNCHANGED <<login, users, challenges, handlers, made, histories>> /\ account.busy = "no"
    BY <1>7 DEF closeAccountAction, onlyAccount
  <2>2. /\ account' \in AccountFields /\ account'.busy = "no" /\ account'.action = "none"
        /\ account'.challenge = NoChallenge
    BY <1>7, EmptyForms DEF closeAccountAction, EmptyAccount
  <2>. QED
    BY <1>1, <2>1, <2>2, FormStep
<1>. QED
  BY <1>3, <1>4, <1>5, <1>6, <1>7 DEF Typing

LEMMA SubmittingStep ==
    ASSUME CodeInv, sendLoginCode \/ sendAccountCode \/ submitLogin \/ submitAccountAction
    PROVE  CodeInv'
<1>. LoginTypeOK /\ FormsInv
  BY DEF CodeInv
<1>1. login \in LoginFields /\ account \in AccountFields
  BY DEF LoginTypeOK, LoginFields, AccountFields
<1>2. 0 \in 0..MaxChallenges
  BY LoginAssumption
<1>3. ASSUME NEW kind \in {"send", "submit"}, login' = [login EXCEPT !.busy = kind]
      PROVE  /\ login' \in LoginFields /\ login'.challenge = login.challenge /\ login'.busy = kind
  BY <1>1, <1>3 DEF LoginFields, AuthBusy
<1>4. ASSUME NEW kind \in {"send", "submit"}, account' = [account EXCEPT !.busy = kind]
      PROVE  /\ account' \in AccountFields /\ account'.challenge = account.challenge
             /\ account'.busy = kind /\ account'.action = account.action
  BY <1>1, <1>4 DEF AccountFields, AuthBusy
<1>5. login.itcode # Blank => login.itcode \in Itcodes
  BY <1>1 DEF LoginFields
<1>6. account.itcode # Blank => account.itcode \in Itcodes
  BY <1>1 DEF AccountFields
<1>7. accountPurpose \in Purposes /\ "gquan_login" \in Purposes
  BY DEF accountPurpose, Purposes
<1>8. ASSUME sendLoginCode PROVE CodeInv'
  <2>1. /\ account.action = "none" /\ login.itcode # Blank /\ login.busy = "no" /\ account' = account
        /\ login' = [login EXCEPT !.busy = "send"]
        /\ Starts("login", "send", "gquan_login", login.itcode, NoChallenge)
    BY <1>8 DEF sendLoginCode, VerificationCodeField
  <2>2. PICK i \in Itcodes : i = login.itcode
    BY <1>5, <2>1
  <2>3. PICK x \in 0..MaxChallenges : x = NoChallenge
    BY <1>2 DEF NoChallenge
  <2>4. Starts("login", "send", "gquan_login", i, x)
    BY <2>1, <2>2, <2>3
  <2>5. login' \in LoginFields /\ login'.challenge = login.challenge /\ login'.busy = "send"
    BY <1>3, <2>1
  <2>. QED
    BY <1>1, <1>7, <2>1, <2>4, <2>5, StartStep
<1>9. ASSUME sendAccountCode PROVE CodeInv'
  <2>1. /\ account.action # "none" /\ account.itcode # Blank /\ account.busy = "no" /\ login' = login
        /\ account' = [account EXCEPT !.busy = "send"]
        /\ Starts("account", "send", accountPurpose, account.itcode, NoChallenge)
    BY <1>9 DEF sendAccountCode, VerificationCodeField
  <2>2. PICK i \in Itcodes : i = account.itcode
    BY <1>6, <2>1
  <2>3. PICK x \in 0..MaxChallenges : x = NoChallenge
    BY <1>2 DEF NoChallenge
  <2>4. PICK p \in Purposes : p = accountPurpose
    BY <1>7
  <2>5. Starts("account", "send", p, i, x) /\ p # "password"
    BY <2>1, <2>2, <2>3, <2>4 DEF Purposes
  <2>6. /\ account' \in AccountFields /\ account'.challenge = account.challenge
        /\ account'.busy = "send" /\ account'.action = account.action
    BY <1>4, <2>1
  <2>. QED
    BY <1>1, <2>1, <2>4, <2>5, <2>6, StartStep
<1>10. ASSUME submitLogin PROVE CodeInv'
  <2>1. /\ account.action = "none" /\ login.itcode # Blank /\ login.busy = "no" /\ account' = account
        /\ login' = [login EXCEPT !.busy = "submit"]
    BY <1>10 DEF submitLogin
  <2>2. PICK i \in Itcodes : i = login.itcode
    BY <1>5, <2>1
  <2>3. login' \in LoginFields /\ login'.challenge = login.challenge /\ login'.busy = "submit"
    BY <1>3, <2>1
  <2>4. CASE login.mode = "password"
    <3>1. PICK x \in 0..MaxChallenges : x = NoChallenge
      BY <1>2 DEF NoChallenge
    <3>2. Starts("login", "submit", "password", i, x)
      BY <1>10, <2>2, <2>4, <3>1 DEF submitLogin
    <3>. QED
      BY <1>1, <2>1, <2>3, <3>2, StartStep
  <2>5. CASE login.mode # "password"
    <3>1. login.mode = "gquan" /\ login.challenge # NoChallenge
      BY <1>1, <1>10, <2>5 DEF LoginFields, submitLogin
    <3>2. PICK x \in 0..MaxChallenges : x = login.challenge
      BY <1>1 DEF LoginFields
    <3>3. x \in 1..Len(challenges) /\ challenges[x].status # "pending"
      BY <3>1, <3>2 DEF FormsInv, Names
    <3>4. Starts("login", "submit", "gquan_login", i, x)
      BY <1>10, <2>2, <2>5, <3>2 DEF submitLogin
    <3>. QED
      BY <1>1, <1>7, <2>1, <2>3, <3>3, <3>4, StartStep
  <2>. QED
    BY <2>4, <2>5
<1>11. ASSUME submitAccountAction PROVE CodeInv'
  <2>1. /\ account.action # "none" /\ account.itcode # Blank /\ account.busy = "no" /\ login' = login
        /\ account' = [account EXCEPT !.busy = "submit"] /\ account.challenge # NoChallenge
        /\ Starts("account", "submit", accountPurpose, account.itcode, account.challenge)
    BY <1>11 DEF submitAccountAction
  <2>2. PICK i \in Itcodes : i = account.itcode
    BY <1>6, <2>1
  <2>3. PICK x \in 0..MaxChallenges : x = account.challenge
    BY <1>1 DEF AccountFields
  <2>4. PICK p \in Purposes : p = accountPurpose
    BY <1>7
  <2>5. Starts("account", "submit", p, i, x)
    BY <2>1, <2>2, <2>3, <2>4
  <2>6. /\ account' \in AccountFields /\ account'.challenge = account.challenge
        /\ account'.busy = "submit" /\ account'.action = account.action
    BY <1>4, <2>1
  <2>7. x \in 1..Len(challenges) /\ challenges[x].status # "pending"
    BY <2>1, <2>3 DEF FormsInv, Names
  <2>. QED
    BY <1>1, <2>1, <2>4, <2>5, <2>6, <2>7, StartStep
<1>. QED
  BY <1>8, <1>9, <1>10, <1>11

LEMMA CodeInit == LoginInit => CodeInv
<1>. SUFFICES ASSUME LoginInit PROVE CodeInv
  OBVIOUS
<1>1. /\ login = EmptyLogin /\ account = EmptyAccount /\ challenges = <<>>
      /\ handlers = [h \in 1..MaxHandlers |-> Free]
      /\ effects = {} /\ used = {} /\ reused = {} /\ abandoned = {}
  BY DEF LoginInit
<1>2. LoginTypeOK
  <2>1. login \in LoginFields /\ account \in AccountFields
    BY <1>1, EmptyForms
  <2>2. /\ users \in [Itcodes -> {"none", "active", "inactive"}] /\ made \in 0..MaxCalls
        /\ Len(challenges) <= MaxChallenges /\ challenges \in Seq(AuthVerificationChallenge)
    BY <1>1, LoginAssumption DEF LoginInit
  <2>. QED
    BY <1>1, <2>1, <2>2 DEF LoginTypeOK, LoginFields, AccountFields
<1>3. \A h \in 1..MaxHandlers : handlers[h] = Free /\ handlers[h].state = "idle"
  BY <1>1 DEF Free
<1>4. CallsOk /\ OneAwaited /\ OneInserted
  BY <1>3 DEF CallsOk, OneAwaited, OneInserted, Awaited
<1>5. FormsInv
  BY <1>1 DEF FormsInv, EmptyLogin, EmptyAccount, NoChallenge
<1>6. UsedInv /\ AcceptedOwnCode /\ SingleUse
  BY <1>1 DEF UsedInv, AcceptedOwnCode, SingleUse
<1>. QED
  BY <1>2, <1>4, <1>5, <1>6 DEF CodeInv

LEMMA CodeStep == CodeInv /\ [LoginNext]_loginVars => CodeInv'
<1>. SUFFICES ASSUME CodeInv, [LoginNext]_loginVars PROVE CodeInv'
  OBVIOUS
<1>1. CASE Typing
  BY <1>1, TypingStep
<1>2. CASE sendLoginCode \/ sendAccountCode \/ submitLogin \/ submitAccountAction
  BY <1>2, SubmittingStep
<1>3. ASSUME NEW h \in 1..MaxHandlers, Serves(h) PROVE CodeInv'
  BY <1>3, LookUpStep, InsertStep, DeliverStep, ReadStep, SaveStep, EffectStep, PasswordStep DEF Serves
<1>4. ASSUME NEW h \in 1..MaxHandlers,
             ChallengeArrives(h) \/ Accepted(h) \/ Refused(h) \/ ConnectionLost(h)
      PROVE  CodeInv'
  BY <1>4, ArriveStep, AcceptedStep, RefusedStep, LostStep
<1>5. ASSUME NEW i \in 1..MaxChallenges, ClockPasses(i) PROVE CodeInv'
  BY <1>5, ClockStep
<1>6. CASE UNCHANGED loginVars
  <2>1. /\ UNCHANGED <<login, account, users, challenges, handlers, made, effects>>
        /\ UNCHANGED <<used, reused, abandoned>>
    BY <1>6 DEF loginVars, forms, histories
  <2>. QED
    BY <2>1 DEF CodeInv, LoginTypeOK, CallsOk, CallOk, SendOk, SubmitOk, AwaitOk, Names, Owns,
                Awaited, OneAwaited, OneInserted, FormsInv, UsedInv, AcceptedOwnCode, SingleUse,
                accountPurpose
<1>7. DOMAIN handlers = 1..MaxHandlers
  BY DEF CodeInv, LoginTypeOK
<1>. QED
  BY <1>1, <1>2, <1>3, <1>4, <1>5, <1>6, <1>7 DEF LoginNext

(* Whatever is edited while calls are out, given up or answered late, a    *)
(* code serves the IT code and the purpose it was sent for, the dialog     *)
(* keeps only a challenge of its own action, and a code is accepted a      *)
(* second time only when the page gave up a submission of it.              *)
THEOREM CodesServeOnce == LoginSpec => []LoginInv
<1>1. CodeInv => LoginInv
  <2>1. CodeInv => ChallengeFitsDialog
    BY DEF CodeInv, FormsInv, ChallengeFitsDialog
  <2>. QED
    BY <2>1 DEF CodeInv, LoginInv
<1>. QED
  BY <1>1, CodeInit, CodeStep, PTL DEF LoginSpec

-----------------------------------------------------------------------------
(* Service quality.  A row that is not pending has samples, and one whose  *)
(* last sample succeeded has an average.                                   *)
RowOk(row) ==
    /\ row.measured <= row.count /\ row.count <= samples
    /\ row.last = "none" <=> row.count = 0
    /\ row.last = "succeeded" => row.measured > 0

RowsInv == QualityTypeOK /\ \A t \in Tags : RowOk(rows[t])

LEMMA RowsInit == QualityInit => RowsInv
<1>. SUFFICES ASSUME QualityInit PROVE RowsInv
  OBVIOUS
<1>1. PICK n : n = [count |-> 0, measured |-> 0, sum |-> 0, last |-> "none"]
  OBVIOUS
<1>2. /\ n \in Stat /\ n.count = 0 /\ n.measured = 0 /\ n.last = "none"
  BY <1>1, QualityAssumption DEF Stat
<1>3. rows = [t \in Tags |-> n] /\ samples = 0
  BY <1>1 DEF QualityInit
<1>4. RowOk(n)
  BY <1>2, <1>3 DEF RowOk
<1>5. definition \in Definitions
  BY QualityAssumption DEF QualityInit, Definitions
<1>6. QualityTypeOK
  BY <1>2, <1>3, <1>5, QualityAssumption DEF QualityInit, QualityTypeOK
<1>. QED
  BY <1>3, <1>4, <1>6 DEF RowsInv, RowOk

LEMMA SampleStep ==
    ASSUME RowsInv, NEW t \in Tags, NEW success \in BOOLEAN, NEW delay \in Nat,
           Sample(t, success, delay)
    PROVE  RowsInv'
<1>. QualityTypeOK
  BY DEF RowsInv
<1>1. /\ samples \in Nat /\ samples < MaxSamples /\ samples' = samples + 1 /\ MaxSamples \in Nat
      /\ UNCHANGED <<definition, greenMax, yellowMax, formError>>
  BY QualityAssumption DEF Sample, QualityTypeOK
<1>2. \A u \in Tags : rows[u] \in Stat /\ RowOk(rows[u])
  BY DEF RowsInv, QualityTypeOK
<1>3. PICK n : n = [count |-> rows[t].count + 1, last |-> IF success THEN "succeeded" ELSE "failed",
                    measured |-> IF success THEN rows[t].measured + 1 ELSE rows[t].measured,
                    sum |-> IF success THEN rows[t].sum + delay ELSE rows[t].sum]
  OBVIOUS
<1>4. rows' = [rows EXCEPT ![t] = n]
  BY <1>3 DEF Sample, QualityTypeOK
<1>5. /\ rows[t].count \in Nat /\ rows[t].measured \in Nat /\ rows[t].sum \in Nat
      /\ rows[t].measured <= rows[t].count /\ rows[t].count <= samples
  BY <1>2 DEF Stat, RowOk
<1>6. /\ n \in Stat /\ n.count = rows[t].count + 1 /\ n.measured <= n.count /\ n.last # "none"
      /\ n.last = "succeeded" => n.measured > 0
  <2>1. CASE success = TRUE
    <3>1. n = [count |-> rows[t].count + 1, last |-> "succeeded",
               measured |-> rows[t].measured + 1, sum |-> rows[t].sum + delay]
      BY <1>3, <2>1
    <3>2. /\ rows[t].count + 1 \in 0..MaxSamples /\ rows[t].measured + 1 \in 0..MaxSamples
          /\ rows[t].sum + delay \in Nat /\ rows[t].measured + 1 > 0
          /\ rows[t].measured + 1 <= rows[t].count + 1
      BY <1>1, <1>5
    <3>. QED
      BY <3>1, <3>2 DEF Stat
  <2>2. CASE success = FALSE
    <3>1. n = [count |-> rows[t].count + 1, last |-> "failed",
               measured |-> rows[t].measured, sum |-> rows[t].sum]
      BY <1>3, <2>2
    <3>2. /\ rows[t].count + 1 \in 0..MaxSamples /\ rows[t].measured \in 0..MaxSamples
          /\ rows[t].measured <= rows[t].count + 1
      BY <1>1, <1>5
    <3>. QED
      BY <1>5, <3>1, <3>2 DEF Stat
  <2>. QED
    BY <2>1, <2>2
<1>7. RowOk(n)'
  BY <1>1, <1>5, <1>6 DEF RowOk
<1>8. \A u \in Tags : RowOk(rows[u]) => RowOk(rows[u])'
  <2>. SUFFICES ASSUME NEW u \in Tags, u # t, RowOk(rows[u]) PROVE RowOk(rows[u])'
    BY <1>4, <1>6, <1>7 DEF RowOk, QualityTypeOK
  <2>1. rows'[u] = rows[u] /\ rows[u].count \in Nat
    BY <1>2, <1>4 DEF QualityTypeOK, Stat
  <2>. QED
    BY <1>1, <2>1 DEF RowOk
<1>9. QualityTypeOK'
  BY <1>1, <1>4, <1>6 DEF QualityTypeOK
<1>. QED
  BY <1>2, <1>8, <1>9 DEF RowsInv

LEMMA RowsStep == RowsInv /\ [QualityNext]_qualityVars => RowsInv'
<1>. SUFFICES ASSUME RowsInv, [QualityNext]_qualityVars PROVE RowsInv'
  OBVIOUS
<1>. QualityTypeOK
  BY DEF RowsInv
<1>1. ASSUME NEW green \in Typed, NEW yellow \in Typed, Type(green, yellow) PROVE RowsInv'
  BY <1>1 DEF Type, RowsInv, QualityTypeOK, RowOk
<1>2. CASE submit
  <2>1. UNCHANGED <<greenMax, yellowMax, rows, samples>>
    BY <1>2 DEF submit
  <2>2. definition' \in Definitions /\ formError' \in {"none", "number", "order"}
    <3>1. /\ parseBoundary(greenMax) # NoNumber => parseBoundary(greenMax) \in 0..MaxBoundary
          /\ parseBoundary(yellowMax) # NoNumber => parseBoundary(yellowMax) \in 0..MaxBoundary
      BY QualityAssumption DEF parseBoundary, QualityTypeOK
    <3>2. CASE parseBoundary(greenMax) = NoNumber \/ parseBoundary(yellowMax) = NoNumber
      BY <1>2, <3>2 DEF submit, QualityTypeOK
    <3>3. CASE /\ parseBoundary(greenMax) # NoNumber /\ parseBoundary(yellowMax) # NoNumber
               /\ parseBoundary(yellowMax) <= parseBoundary(greenMax)
      BY <1>2, <3>3 DEF submit, QualityTypeOK
    <3>4. CASE /\ parseBoundary(greenMax) # NoNumber /\ parseBoundary(yellowMax) # NoNumber
               /\ ~(parseBoundary(yellowMax) <= parseBoundary(greenMax))
      <4>1. PICK g \in 0..MaxBoundary, y \in 0..MaxBoundary :
               g = parseBoundary(greenMax) /\ y = parseBoundary(yellowMax)
        BY <3>1, <3>4
      <4>2. g < y
        BY <3>4, <4>1, QualityAssumption
      <4>3. definition' = [green |-> g, yellow |-> y] /\ formError' = "none"
        BY <1>2, <3>4, <4>1 DEF submit
      <4>. QED
        BY <4>2, <4>3 DEF Definitions
    <3>. QED
      BY <3>2, <3>3, <3>4
  <2>. QED
    BY <2>1, <2>2 DEF RowsInv, QualityTypeOK, RowOk
<1>3. ASSUME NEW t \in Tags, NEW delay \in Delays, Sample(t, TRUE, delay) PROVE RowsInv'
  BY <1>3, SampleStep, QualityAssumption
<1>4. ASSUME NEW t \in Tags, Sample(t, FALSE, 0) PROVE RowsInv'
  BY <1>4, SampleStep
<1>5. CASE UNCHANGED qualityVars
  BY <1>5 DEF qualityVars, RowsInv, QualityTypeOK, RowOk
<1>. QED
  BY <1>1, <1>2, <1>3, <1>4, <1>5 DEF QualityNext

(* The order of two products with a common factor is that of the others.   *)
LEMMA ProductOrder ==
    ASSUME NEW x \in Nat, NEW y \in Nat, NEW k \in Nat \ {0}
    PROVE  (x <= y <=> k * x <= k * y) /\ (x = y <=> k * x = k * y)
OBVIOUS

(* Averages are compared as fractions, crosswise: the comparison is        *)
(* transitive, and strict when one of its parts is.                        *)
LEMMA CrossProducts ==
    ASSUME NEW a \in Nat, NEW b \in Nat, NEW c \in Nat,
           NEW m \in Nat \ {0}, NEW n \in Nat \ {0}, NEW p \in Nat \ {0},
           a * n <= b * m, b * p <= c * n
    PROVE  a * p <= c * m /\ (a * p = c * m => a * n = b * m /\ b * p = c * n)
<1>1. /\ a * n \in Nat /\ b * m \in Nat /\ b * p \in Nat /\ c * n \in Nat /\ a * p \in Nat
      /\ c * m \in Nat
  OBVIOUS
<1>2. p * (a * n) <= p * (b * m) /\ (p * (a * n) = p * (b * m) => a * n = b * m)
  BY <1>1, ProductOrder
<1>3. m * (b * p) <= m * (c * n) /\ (m * (b * p) = m * (c * n) => b * p = c * n)
  BY <1>1, ProductOrder
<1>4. /\ p * (a * n) = n * (a * p) /\ p * (b * m) = m * (b * p)
      /\ m * (c * n) = n * (c * m)
  OBVIOUS
<1>5. /\ a * p <= c * m <=> n * (a * p) <= n * (c * m)
      /\ a * p = c * m <=> n * (a * p) = n * (c * m)
  BY <1>1, ProductOrder
<1>6. /\ p * (a * n) \in Nat /\ p * (b * m) \in Nat /\ m * (b * p) \in Nat
      /\ m * (c * n) \in Nat /\ n * (a * p) \in Nat /\ n * (c * m) \in Nat
  BY <1>1
<1>. QED
  BY <1>2, <1>3, <1>4, <1>5, <1>6

LEMMA ComparedIs ==
    ASSUME QualityTypeOK, NEW a \in Tags, NEW b \in Tags
    PROVE  /\ compareValues(a, b) \in Int
           /\ compareValues(b, a) = -compareValues(a, b)
<1>1. /\ rows[a].sum \in Nat /\ rows[a].measured \in Nat
      /\ rows[b].sum \in Nat /\ rows[b].measured \in Nat
  BY DEF QualityTypeOK, Stat
<1>2. rows[a].sum * rows[b].measured \in Int /\ rows[b].sum * rows[a].measured \in Int
  BY <1>1
<1>3. PICK x \in Int, y \in Int :
         x = rows[a].sum * rows[b].measured /\ y = rows[b].sum * rows[a].measured
  BY <1>2
<1>4. /\ compareValues(a, b) = IF Unmeasured(rows[a]) /\ Unmeasured(rows[b]) THEN 0
                               ELSE IF Unmeasured(rows[a]) THEN 1
                               ELSE IF Unmeasured(rows[b]) THEN -1 ELSE x - y
      /\ compareValues(b, a) = IF Unmeasured(rows[b]) /\ Unmeasured(rows[a]) THEN 0
                               ELSE IF Unmeasured(rows[b]) THEN 1
                               ELSE IF Unmeasured(rows[a]) THEN -1 ELSE y - x
  BY <1>3 DEF compareValues
<1>. QED
  BY <1>4

(* The averages themselves are in a weak order, rows without one last.     *)
LEMMA ComparedTransitive ==
    ASSUME QualityTypeOK, NEW a \in Tags, NEW b \in Tags, NEW c \in Tags,
           compareValues(a, b) <= 0, compareValues(b, c) <= 0
    PROVE  /\ compareValues(a, c) <= 0
           /\ compareValues(a, c) = 0 => compareValues(a, b) = 0 /\ compareValues(b, c) = 0
<1>1. /\ rows[a].sum \in Nat /\ rows[a].measured \in Nat
      /\ rows[b].sum \in Nat /\ rows[b].measured \in Nat
      /\ rows[c].sum \in Nat /\ rows[c].measured \in Nat
  BY DEF QualityTypeOK, Stat
<1>2. CASE Unmeasured(rows[a]) \/ Unmeasured(rows[b]) \/ Unmeasured(rows[c])
  <2>1. Unmeasured(rows[a]) => Unmeasured(rows[b])
    BY DEF compareValues
  <2>2. Unmeasured(rows[b]) => Unmeasured(rows[c])
    BY DEF compareValues
  <2>3. Unmeasured(rows[c])
    BY <1>2, <2>1, <2>2
  <2>4. CASE Unmeasured(rows[a])
    BY <2>1, <2>3, <2>4 DEF compareValues
  <2>5. CASE ~Unmeasured(rows[a])
    BY <2>3, <2>5 DEF compareValues
  <2>. QED
    BY <2>4, <2>5
<1>3. CASE ~Unmeasured(rows[a]) /\ ~Unmeasured(rows[b]) /\ ~Unmeasured(rows[c])
  <2>1. PICK u \in Nat, v \in Nat, w \in Nat :
           u = rows[a].sum /\ v = rows[b].sum /\ w = rows[c].sum
    BY <1>1
  <2>2. PICK m \in Nat \ {0}, n \in Nat \ {0}, p \in Nat \ {0} :
           m = rows[a].measured /\ n = rows[b].measured /\ p = rows[c].measured
    BY <1>1, <1>3 DEF Unmeasured
  <2>3. /\ compareValues(a, b) = u * n - v * m /\ compareValues(b, c) = v * p - w * n
        /\ compareValues(a, c) = u * p - w * m
    BY <1>3, <2>1, <2>2 DEF compareValues
  <2>4. /\ u * n \in Nat /\ v * m \in Nat /\ v * p \in Nat /\ w * n \in Nat /\ u * p \in Nat
        /\ w * m \in Nat
    OBVIOUS
  <2>5. u * n <= v * m /\ v * p <= w * n
    BY <2>3, <2>4
  <2>6. u * p <= w * m /\ (u * p = w * m => u * n = v * m /\ v * p = w * n)
    BY <2>5, CrossProducts
  <2>. QED
    BY <2>3, <2>4, <2>6
<1>. QED
  BY <1>2, <1>3

LEMMA CompareIs ==
    ASSUME QualityTypeOK, NEW a \in Tags, NEW b \in Tags, NEW direction \in {"asc", "desc"}
    PROVE  /\ Compare(a, b, direction) \in Int
           /\ Compare(b, a, direction) = -Compare(a, b, direction)
           /\ a # b => Compare(a, b, direction) # 0
<1>1. a \in Int /\ b \in Int
  BY QualityAssumption
<1>2. PICK r \in Int : r = compareValues(a, b) /\ compareValues(b, a) = -r
  BY ComparedIs
<1>3. /\ Compare(a, b, direction) =
            IF r = 0 THEN a - b ELSE IF direction = "asc" THEN r ELSE -r
      /\ Compare(b, a, direction) =
            IF -r = 0 THEN b - a ELSE IF direction = "asc" THEN -r ELSE -(-r)
  BY <1>2 DEF Compare
<1>. QED
  BY <1>1, <1>3

LEMMA CompareTransitive ==
    ASSUME QualityTypeOK, NEW a \in Tags, NEW b \in Tags, NEW c \in Tags,
           NEW direction \in {"asc", "desc"},
           Compare(a, b, direction) < 0, Compare(b, c, direction) < 0
    PROVE  Compare(a, c, direction) < 0
<1>1. a \in Int /\ b \in Int /\ c \in Int
  BY QualityAssumption
<1>2. PICK r \in Int : r = compareValues(a, b) /\ compareValues(b, a) = -r
  BY ComparedIs
<1>3. PICK s \in Int : s = compareValues(b, c) /\ compareValues(c, b) = -s
  BY ComparedIs
<1>4. PICK t \in Int : t = compareValues(a, c) /\ compareValues(c, a) = -t
  BY ComparedIs
<1>5. r <= 0 /\ s <= 0 => t <= 0 /\ (t = 0 => r = 0 /\ s = 0)
  BY <1>2, <1>3, <1>4, ComparedTransitive
<1>6. -s <= 0 /\ -r <= 0 => -t <= 0 /\ (-t = 0 => -s = 0 /\ -r = 0)
  BY <1>2, <1>3, <1>4, ComparedTransitive
<1>7. /\ Compare(a, b, direction) = IF r = 0 THEN a - b ELSE IF direction = "asc" THEN r ELSE -r
      /\ Compare(b, c, direction) = IF s = 0 THEN b - c ELSE IF direction = "asc" THEN s ELSE -s
      /\ Compare(a, c, direction) = IF t = 0 THEN a - c ELSE IF direction = "asc" THEN t ELSE -t
  BY <1>2, <1>3, <1>4 DEF Compare
<1>8. CASE direction = "asc"
  BY <1>1, <1>5, <1>6, <1>7, <1>8
<1>9. CASE direction = "desc"
  BY <1>1, <1>5, <1>6, <1>7, <1>9
<1>. QED
  BY <1>8, <1>9

(* The ranks of n rows are n numbers.                                      *)
LEMMA RanksOfRows ==
    ASSUME NEW n \in Nat
    PROVE  IsFiniteSet(0..n - 1) /\ Cardinality(0..n - 1) = n
<1>1. PICK b \in Int : b = n - 1
  OBVIOUS
<1>2. IsFiniteSet(0..b) /\ Cardinality(0..b) = IF 0 > b THEN 0 ELSE b - 0 + 1
  BY FS_Interval
<1>3. (IF 0 > b THEN 0 ELSE b - 0 + 1) = n
  BY <1>1
<1>. QED
  BY <1>1, <1>2, <1>3

(* A strict order of a finite set gives every row a rank of its own.       *)
LEMMA RanksAreDistinct ==
    ASSUME QualityTypeOK, NEW direction \in {"asc", "desc"}
    PROVE  {Cardinality({b \in Tags : Compare(b, a, direction) < 0}) : a \in Tags}
             = 0..Cardinality(Tags) - 1
<1>. DEFINE Before(a) == {b \in Tags : Compare(b, a, direction) < 0}
            rank == [a \in Tags |-> Cardinality(Before(a))]
            N == Cardinality(Tags)
<1>1. IsFiniteSet(Tags) /\ N \in Nat
  BY QualityAssumption, FS_CardinalityType
<1>2. \A a \in Tags : a \notin Before(a)
  <2>. SUFFICES ASSUME NEW a \in Tags, Compare(a, a, direction) < 0 PROVE FALSE
    OBVIOUS
  <2>1. PICK x \in Int : x = Compare(a, a, direction) /\ x = -x
    BY CompareIs
  <2>. QED
    BY <2>1
<1>3. \A a \in Tags : IsFiniteSet(Before(a)) /\ rank[a] \in 0..N - 1
  <2>. SUFFICES ASSUME NEW a \in Tags PROVE IsFiniteSet(Before(a)) /\ rank[a] \in 0..N - 1
    OBVIOUS
  <2>1. Before(a) \subseteq Tags /\ Before(a) # Tags
    BY <1>2
  <2>. HIDE DEF Before
  <2>2. IsFiniteSet(Before(a)) /\ Cardinality(Before(a)) < Cardinality(Tags)
    BY <1>1, <2>1, ProperSubsetIsSmaller
  <2>3. Cardinality(Before(a)) \in Nat
    BY <2>2, FS_CardinalityType
  <2>. QED
    BY <1>1, <2>2, <2>3
<1>4. ASSUME NEW a \in Tags, NEW b \in Tags, Compare(a, b, direction) < 0
      PROVE  rank[a] # rank[b]
  <2>1. Before(a) \subseteq Before(b)
    BY <1>4, CompareTransitive
  <2>2. a \in Before(b) /\ a \notin Before(a)
    BY <1>2, <1>4
  <2>3. IsFiniteSet(Before(b)) /\ IsFiniteSet(Before(a))
    BY <1>3
  <2>. HIDE DEF Before
  <2>4. Cardinality(Before(a)) < Cardinality(Before(b))
    BY <2>1, <2>2, <2>3, ProperSubsetIsSmaller
  <2>5. Cardinality(Before(a)) \in Nat /\ Cardinality(Before(b)) \in Nat
    BY <2>3, FS_CardinalityType
  <2>. QED
    BY <2>4, <2>5
<1>5. ASSUME NEW a \in Tags, NEW b \in Tags, a # b PROVE rank[a] # rank[b]
  <2>1. PICK x \in Int : x = Compare(a, b, direction) /\ Compare(b, a, direction) = -x /\ x # 0
    BY <1>5, CompareIs
  <2>2. x < 0 \/ -x < 0
    BY <2>1
  <2>. HIDE DEF rank
  <2>. QED
    BY <1>4, <2>1, <2>2
<1>6. rank \in Injection(Tags, 0..N - 1)
  <2>1. rank \in [Tags -> 0..N - 1]
    BY <1>3
  <2>. HIDE DEF rank
  <2>. QED
    BY <1>5, <2>1 DEF Injection, IsInjective
<1>7. IsFiniteSet(0..N - 1) /\ Cardinality(0..N - 1) = N
  <2>. HIDE DEF N
  <2>. QED
    BY <1>1, RanksOfRows
<1>8. rank \in Surjection(Tags, 0..N - 1)
  BY <1>6, <1>7, FS_Injection
<1>9. {rank[a] : a \in Tags} = 0..N - 1
  <2>. HIDE DEF rank, N
  <2>. QED
    BY <1>8 DEF Surjection
<1>. QED
  BY <1>9

LEMMA RankingHolds == ASSUME QualityTypeOK PROVE RankingIsOrder
<1>. SUFFICES ASSUME NEW direction \in {"asc", "desc"}
              PROVE  /\ \A a, b \in Tags :
                          a < b => Compare(a, b, direction) * Compare(b, a, direction) < 0
                     /\ {Cardinality({b \in Tags : Compare(b, a, direction) < 0}) : a \in Tags}
                          = 0..Cardinality(Tags) - 1
  BY DEF RankingIsOrder
<1>1. ASSUME NEW a \in Tags, NEW b \in Tags, a < b
      PROVE  Compare(a, b, direction) * Compare(b, a, direction) < 0
  <2>1. a # b
    BY <1>1, QualityAssumption
  <2>2. PICK x \in Int : x = Compare(a, b, direction) /\ Compare(b, a, direction) = -x /\ x # 0
    BY <2>1, CompareIs
  <2>3. x * (-x) < 0
    BY <2>2
  <2>. QED
    BY <2>2, <2>3
<1>. QED
  BY <1>1, RanksAreDistinct

LEMMA BandsMatch == ASSUME RowsInv PROVE StatusMatchesBand
<1>. SUFFICES ASSUME NEW t \in Tags
              PROVE  LET band == latencyBand(rows[t])
                     IN  CASE qualityStatus(rows[t]) = "pending" -> band = "unknown"
                           [] qualityStatus(rows[t]) = "offline" -> band \in {"high", "unknown"}
                           [] qualityStatus(rows[t]) = "attention" -> band = "high"
                           [] qualityStatus(rows[t]) = "degraded" -> band = "acceptable"
                           [] qualityStatus(rows[t]) = "healthy" -> band = "good"
  BY DEF StatusMatchesBand
<1>1. PICK row \in Stat : row = rows[t] /\ RowOk(row)
  BY DEF RowsInv, QualityTypeOK
<1>2. /\ row.measured \in Nat /\ row.count \in Nat /\ row.sum \in Nat
      /\ row.last \in {"none", "failed", "succeeded"}
  BY DEF Stat
<1>3. definition.green \in Nat /\ definition.yellow \in Nat /\ definition.green < definition.yellow
  BY QualityAssumption DEF RowsInv, QualityTypeOK, Definitions
<1>4. AverageAtMost(row, definition.green) => AverageAtMost(row, definition.yellow)
  <2>1. PICK g \in Nat, y \in Nat, m \in Nat, s \in Nat :
           /\ g = definition.green /\ y = definition.yellow /\ m = row.measured /\ s = row.sum
           /\ g <= y
    BY <1>2, <1>3
  <2>2. g * m <= y * m /\ g * m \in Nat /\ y * m \in Nat
    BY <2>1
  <2>3. s <= g * m => s <= y * m
    BY <2>2
  <2>. QED
    BY <2>1, <2>3 DEF AverageAtMost
<1>5. /\ row.last = "none" <=> row.count = 0
      /\ row.count = 0 => Unmeasured(row)
      /\ row.last = "succeeded" => ~Unmeasured(row)
  BY <1>1, <1>2 DEF RowOk, Unmeasured
<1>6. \/ qualityStatus(row) = "pending" /\ latencyBand(row) = "unknown"
      \/ qualityStatus(row) = "offline" /\ latencyBand(row) \in {"high", "unknown"}
      \/ qualityStatus(row) = "attention" /\ latencyBand(row) = "high"
      \/ qualityStatus(row) = "degraded" /\ latencyBand(row) = "acceptable"
      \/ qualityStatus(row) = "healthy" /\ latencyBand(row) = "good"
  BY <1>2, <1>4, <1>5 DEF qualityStatus, latencyBand
<1>. QED
  BY <1>1, <1>6

(* Whatever boundaries are saved and however samples fall, the badge and   *)
(* the colour of an outbound agree, and the comparison the table is sorted *)
(* with is a strict order that gives every row a place of its own.         *)
THEOREM QualityIsConsistent == QualitySpec => []QualityInv
<1>1. RowsInv => QualityInv
  BY RankingHolds, BandsMatch DEF RowsInv, QualityInv
<1>. QED
  BY <1>1, RowsInit, RowsStep, PTL DEF QualitySpec

-----------------------------------------------------------------------------
(* The notices.  What is shown and what waits are both the last toasts of  *)
(* a list, LastOf: first what the last of a sequence keep of it.           *)
LEMMA LastOfProperties ==
    ASSUME NEW S, NEW s \in Seq(S), NEW n \in Nat
    PROVE  /\ LastOf(s, n) \in Seq(S)
           /\ Len(LastOf(s, n)) = IF Len(s) > n THEN n ELSE Len(s)
           /\ DOMAIN LastOf(s, n) = 1..Len(LastOf(s, n))
           /\ \A i \in DOMAIN LastOf(s, n) :
                /\ i + (Len(s) - Len(LastOf(s, n))) \in DOMAIN s
                /\ LastOf(s, n)[i] = s[i + (Len(s) - Len(LastOf(s, n)))]
<1>1. Len(s) \in Nat /\ DOMAIN s = 1..Len(s)
  OBVIOUS
<1>2. CASE Len(s) > n
  <2>1. PICK m \in Int : m = Len(s) - n + 1
    BY <1>1
  <2>2. LastOf(s, n) = SubSeq(s, m, Len(s))
    BY <1>2, <2>1 DEF LastOf
  <2>3. \A i \in m..Len(s) : s[i] \in S
    BY <1>1, <1>2, <2>1
  <2>4. /\ SubSeq(s, m, Len(s)) \in Seq(S)
        /\ Len(SubSeq(s, m, Len(s))) = IF m <= Len(s) THEN Len(s) - m + 1 ELSE 0
        /\ \A i \in 1..Len(s) - m + 1 : SubSeq(s, m, Len(s))[i] = s[m + i - 1]
    BY <1>1, <2>1, <2>3, SubSeqProperties
  <2>5. Len(LastOf(s, n)) = n
    BY <1>1, <1>2, <2>1, <2>2, <2>4
  <2>6. PICK t \in Seq(S) : t = LastOf(s, n)
    BY <2>2, <2>4
  <2>7. PICK l \in Nat : l = Len(s) /\ DOMAIN s = 1..l
    BY <1>1
  <2>8. Len(t) = n /\ DOMAIN t = 1..n
    BY <2>5, <2>6
  <2>9. ASSUME NEW i \in 1..n PROVE i + (l - n) \in 1..l /\ t[i] = s[i + (l - n)]
    <3>1. m + i - 1 = i + (l - n) /\ i \in 1..l - m + 1
      BY <1>2, <2>1, <2>7
    <3>2. t[i] = s[m + i - 1]
      BY <2>2, <2>4, <2>6, <2>7, <3>1
    <3>. QED
      BY <1>2, <2>7, <3>1, <3>2
  <2>. QED
    BY <1>2, <2>6, <2>7, <2>8, <2>9
<1>3. CASE ~(Len(s) > n)
  <2>1. LastOf(s, n) = SubSeq(s, 1, Len(s))
    BY <1>3 DEF LastOf
  <2>2. LastOf(s, n) = s
    BY <2>1, SubSeqFull
  <2>. QED
    BY <1>1, <1>3, <2>2
<1>. QED
  BY <1>2, <1>3

(* A sequence is determined by its length and elements.                    *)
LEMMA LastOfUnique ==
    ASSUME NEW S, NEW s \in Seq(S), NEW n \in Nat, NEW t \in Seq(S),
           Len(t) = IF Len(s) > n THEN n ELSE Len(s),
           \A i \in 1..Len(t) : t[i] = s[i + (Len(s) - Len(t))]
    PROVE  t = LastOf(s, n)
<1>1. PICK u : u = LastOf(s, n)
  OBVIOUS
<1>2. /\ u \in Seq(S) /\ Len(u) = Len(t) /\ DOMAIN u = 1..Len(u)
      /\ \A i \in DOMAIN u : u[i] = s[i + (Len(s) - Len(u))]
  BY <1>1, LastOfProperties
<1>3. \A i \in 1..Len(t) : t[i] = u[i]
  BY <1>2
<1>. QED
  BY <1>1, <1>2, <1>3, SeqEqual

(* A short sequence is its own end.                                        *)
LEMMA LastOfShort ==
    ASSUME NEW S, NEW s \in Seq(S), NEW n \in Nat, Len(s) <= n
    PROVE  LastOf(s, n) = s
<1>1. Len(s) \in Nat
  OBVIOUS
<1>. QED
  BY <1>1, LastOfUnique

LEMMA LastOfIncreasing ==
    ASSUME NEW s \in Seq(Nat), Increasing(s), NEW n \in Nat
    PROVE  Increasing(LastOf(s, n))
<1> DEFINE t == LastOf(s, n)
<1>1. /\ Len(s) \in Nat /\ Len(t) \in Nat /\ DOMAIN t = 1..Len(t)
      /\ \A i \in DOMAIN t : i + (Len(s) - Len(t)) \in DOMAIN s /\ t[i] = s[i + (Len(s) - Len(t))]
  BY LastOfProperties
<1>. HIDE DEF t
<1>2. ASSUME NEW j \in DOMAIN t, NEW k \in DOMAIN t, j < k PROVE t[j] < t[k]
  <2>1. PICK a \in DOMAIN s : a = j + (Len(s) - Len(t)) /\ t[j] = s[a]
    BY <1>1
  <2>2. PICK b \in DOMAIN s : b = k + (Len(s) - Len(t)) /\ t[k] = s[b]
    BY <1>1
  <2>3. a < b
    BY <1>1, <1>2, <2>1, <2>2
  <2>. QED
    BY <2>1, <2>2, <2>3 DEF Increasing
<1>3. Increasing(t)
  BY <1>2 DEF Increasing
<1>. QED
  BY <1>3 DEF t

(* In an increasing sequence of numbers the element that is d places       *)
(* before the last is at least d smaller.                                  *)
LEMMA GapsAdd ==
    ASSUME NEW s \in Seq(Nat), Increasing(s), NEW k \in DOMAIN s
    PROVE  s[k] + (Len(s) - k) <= s[Len(s)]
<1>1. Len(s) \in Nat /\ DOMAIN s = 1..Len(s) /\ \A i \in 1..Len(s) : s[i] \in Nat
  OBVIOUS
<1> DEFINE B == {d \in 0..Len(s) - 1 : s[Len(s) - d] + d > s[Len(s)]}
<1>2. \A d : d \in B <=> d \in Nat /\ d < Len(s) /\ s[Len(s) - d] + d > s[Len(s)]
  BY <1>1
<1>. HIDE DEF B
<1>3. CASE B = {}
  <2>1. PICK d \in Nat : d = Len(s) - k /\ d < Len(s) /\ Len(s) - d = k
    BY <1>1
  <2>2. ~(s[k] + d > s[Len(s)])
    BY <1>2, <1>3, <2>1
  <2>3. s[k] \in Nat /\ s[Len(s)] \in Nat
    BY <1>1
  <2>. QED
    BY <2>1, <2>2, <2>3
<1>4. CASE B # {}
  <2>1. B \in SUBSET Nat
    BY <1>2
  <2>2. PICK d \in B : \A x \in B : d <= x
    BY <1>4, <2>1, HasSmallest
  <2>3. d \in Nat /\ d < Len(s) /\ s[Len(s) - d] + d > s[Len(s)]
    BY <1>2
  <2>4. d # 0
    <3>1. s[Len(s)] \in Nat /\ Len(s) - 0 = Len(s)
      BY <1>1
    <3>. QED
      BY <2>3, <3>1
  <2>5. PICK e \in Nat : e = d - 1
    BY <2>3, <2>4
  <2>6. e < Len(s) /\ e \notin B
    BY <1>1, <2>2, <2>3, <2>5
  <2>7. ~(s[Len(s) - e] + e > s[Len(s)])
    BY <1>2, <2>5, <2>6
  <2>a. PICK l \in Nat : l = Len(s)
    BY <1>1
  <2>8. PICK a \in Int : a = l - d
    BY <2>3
  <2>9. PICK b \in Int : b = l - e
    BY <2>5
  <2>b. a \in 1..l /\ b \in 1..l
    BY <2>3, <2>5, <2>8, <2>9, <2>a
  <2>10. a < b
    BY <2>3, <2>5, <2>8, <2>9
  <2>11. s[a] < s[b]
    BY <1>1, <2>10, <2>a, <2>b DEF Increasing
  <2>12. s[a] \in Nat /\ s[b] \in Nat /\ s[Len(s)] \in Nat
    BY <1>1, <2>3, <2>a, <2>b
  <2>13. s[a] + d > s[Len(s)] /\ ~(s[b] + e > s[Len(s)])
    BY <2>3, <2>7, <2>8, <2>9, <2>a
  <2>14. PICK x \in Nat, y \in Nat, z \in Nat : x = s[a] /\ y = s[b] /\ z = s[Len(s)]
    BY <2>12
  <2>15. x + d > z /\ ~(y + e > z) /\ x < y
    BY <2>11, <2>13, <2>14
  <2>. QED
    BY <2>3, <2>5, <2>15
<1>. QED
  BY <1>3, <1>4

(* The last n of an increasing sequence that ends at m or before contain   *)
(* each of its elements among the last n numbers up to m.                  *)
LEMMA RecentSurvives ==
    ASSUME NEW s \in Seq(Nat), Increasing(s), NEW n \in Nat, NEW m \in Nat,
           \A i \in DOMAIN s : s[i] <= m,
           NEW k \in DOMAIN s, s[k] > m - n
    PROVE  \E j \in DOMAIN LastOf(s, n) : LastOf(s, n)[j] = s[k]
<1>1. Len(s) \in Nat /\ DOMAIN s = 1..Len(s) /\ \A i \in 1..Len(s) : s[i] \in Nat
  OBVIOUS
<1>2. s[k] + (Len(s) - k) <= s[Len(s)]
  BY GapsAdd
<1>a. s[Len(s)] <= m
  BY <1>1
<1>3. k > Len(s) - n
  <2>1. s[k] \in Nat /\ s[Len(s)] \in Nat /\ k \in Nat
    BY <1>1
  <2>. QED
    BY <1>1, <1>2, <1>a, <2>1
<1> DEFINE t == LastOf(s, n)
<1>4. /\ Len(t) = (IF Len(s) > n THEN n ELSE Len(s)) /\ DOMAIN t = 1..Len(t)
      /\ \A i \in DOMAIN t : t[i] = s[i + (Len(s) - Len(t))]
  BY LastOfProperties
<1>. HIDE DEF t
<1>5. PICK j \in Int : j = k - (Len(s) - Len(t))
  BY <1>1, <1>4
<1>6. j \in 1..Len(t) /\ j + (Len(s) - Len(t)) = k
  <2>1. k \in Int /\ 1 <= k /\ k <= Len(s)
    BY <1>1
  <2>2. Len(t) = n \/ Len(t) = Len(s)
    BY <1>4
  <2>3. Len(t) \in Int
    BY <1>1, <2>2
  <2>4. 1 <= j /\ j <= Len(t)
    BY <1>1, <1>3, <1>4, <1>5, <2>1, <2>3
  <2>. QED
    BY <1>1, <1>5, <2>1, <2>3, <2>4
<1>7. t[j] = s[k]
  BY <1>4, <1>6
<1>. QED
  BY <1>6, <1>7 DEF t

(* What a toast shows, of the last toasts and of toasts in a row           *)
LEMMA NoticesProperties ==
    ASSUME NEW s \in Seq(Toast)
    PROVE  /\ NoticesOf(s) \in Seq(Notices) /\ Len(NoticesOf(s)) = Len(s)
           /\ DOMAIN NoticesOf(s) = DOMAIN s
           /\ \A k \in DOMAIN s : NoticesOf(s)[k] = s[k].notice
<1>1. \A k \in DOMAIN s : s[k].notice \in Notices
  <2>1. \A k \in DOMAIN s : s[k] \in Toast
    OBVIOUS
  <2>. QED
    BY <2>1 DEF Toast
<1>. QED
  BY <1>1 DEF NoticesOf

LEMMA NoticesOfLast ==
    ASSUME NEW s \in Seq(Toast), NEW n \in Nat
    PROVE  NoticesOf(LastOf(s, n)) = LastOf(NoticesOf(s), n)
<1>1. PICK t : t = LastOf(s, n)
  OBVIOUS
<1>2. /\ t \in Seq(Toast) /\ Len(t) = (IF Len(s) > n THEN n ELSE Len(s)) /\ DOMAIN t = 1..Len(t)
      /\ \A i \in DOMAIN t : /\ i + (Len(s) - Len(t)) \in DOMAIN s
                             /\ t[i] = s[i + (Len(s) - Len(t))]
  BY <1>1, LastOfProperties
<1>3. /\ NoticesOf(s) \in Seq(Notices) /\ Len(NoticesOf(s)) = Len(s)
      /\ \A k \in DOMAIN s : NoticesOf(s)[k] = s[k].notice
  BY NoticesProperties
<1>4. /\ NoticesOf(t) \in Seq(Notices) /\ Len(NoticesOf(t)) = Len(t)
      /\ \A k \in DOMAIN t : NoticesOf(t)[k] = t[k].notice
  BY <1>2, NoticesProperties
<1>5. \A i \in 1..Len(NoticesOf(t)) :
         NoticesOf(t)[i] = NoticesOf(s)[i + (Len(NoticesOf(s)) - Len(NoticesOf(t)))]
  BY <1>2, <1>3, <1>4
<1>6. Len(NoticesOf(t)) = IF Len(NoticesOf(s)) > n THEN n ELSE Len(NoticesOf(s))
  BY <1>2, <1>3, <1>4
<1>. QED
  BY <1>1, <1>3, <1>4, <1>5, <1>6, LastOfUnique

LEMMA NoticesOfConcat ==
    ASSUME NEW s \in Seq(Toast), NEW t \in Seq(Toast)
    PROVE  NoticesOf(s \o t) = NoticesOf(s) \o NoticesOf(t)
<1>1. s \o t \in Seq(Toast)
  OBVIOUS
<1>2. /\ NoticesOf(s) \in Seq(Notices) /\ Len(NoticesOf(s)) = Len(s)
      /\ NoticesOf(t) \in Seq(Notices) /\ Len(NoticesOf(t)) = Len(t)
      /\ NoticesOf(s \o t) \in Seq(Notices) /\ Len(NoticesOf(s \o t)) = Len(s \o t)
  BY <1>1, NoticesProperties
<1>3. /\ \A k \in 1..Len(s) : NoticesOf(s)[k] = s[k].notice
      /\ \A k \in 1..Len(t) : NoticesOf(t)[k] = t[k].notice
  BY NoticesProperties
<1>a. \A k \in 1..Len(s \o t) : NoticesOf(s \o t)[k] = (s \o t)[k].notice
  <2>1. PICK u \in Seq(Toast) : u = s \o t
    BY <1>1
  <2>2. DOMAIN u = 1..Len(u) /\ \A k \in DOMAIN u : NoticesOf(u)[k] = u[k].notice
    BY NoticesProperties
  <2>. QED
    BY <2>1, <2>2
<1>4. /\ Len(s \o t) = Len(s) + Len(t)
      /\ \A k \in 1..Len(s) + Len(t) : (s \o t)[k] = IF k <= Len(s) THEN s[k] ELSE t[k - Len(s)]
  BY ConcatProperties
<1>5. /\ NoticesOf(s) \o NoticesOf(t) \in Seq(Notices)
      /\ Len(NoticesOf(s) \o NoticesOf(t)) = Len(s) + Len(t)
      /\ \A k \in 1..Len(s) + Len(t) : (NoticesOf(s) \o NoticesOf(t))[k] =
            IF k <= Len(s) THEN NoticesOf(s)[k] ELSE NoticesOf(t)[k - Len(s)]
  BY <1>2, ConcatProperties
<1>6. ASSUME NEW k \in 1..Len(s) + Len(t)
      PROVE  NoticesOf(s \o t)[k] = (NoticesOf(s) \o NoticesOf(t))[k]
  <2>1. Len(s) \in Nat /\ Len(t) \in Nat
    OBVIOUS
  <2>2. CASE k <= Len(s)
    BY <1>3, <1>4, <1>5, <1>a, <2>1, <2>2
  <2>3. CASE ~(k <= Len(s))
    <3>1. k - Len(s) \in 1..Len(t)
      BY <2>1, <2>3
    <3>. QED
      BY <1>3, <1>4, <1>5, <1>a, <2>3, <3>1
  <2>. QED
    BY <2>2, <2>3
<1>. QED
  BY <1>2, <1>4, <1>5, <1>6, SeqEqual

(* The provider drops all but the last four before it adds one: what it    *)
(* shows is the last five with the new one.                                *)
LEMMA ShowIsLast ==
    ASSUME NEW T, NEW s \in Seq(T), NEW t \in T
    PROVE  Show(s, t) = LastOf(Append(s, t), Capacity)
<1>1. PICK c \in Nat : c = Capacity - 1
  BY ToastAssumption
<1>2. PICK u : u = LastOf(s, c)
  OBVIOUS
<1>3. /\ u \in Seq(T) /\ Len(u) = (IF Len(s) > c THEN c ELSE Len(s)) /\ Len(u) \in Nat
      /\ \A i \in 1..Len(u) : u[i] = s[i + (Len(s) - Len(u))] /\ i + (Len(s) - Len(u)) \in DOMAIN s
  BY <1>2, LastOfProperties
<1>4. PICK w : w = Append(u, t)
  OBVIOUS
<1>5. /\ w \in Seq(T) /\ Len(w) = Len(u) + 1
      /\ \A i \in 1..Len(u) : w[i] = u[i]
      /\ w[Len(u) + 1] = t
  BY <1>3, <1>4
<1>6. PICK a : a = Append(s, t)
  OBVIOUS
<1>7. /\ a \in Seq(T) /\ Len(a) = Len(s) + 1 /\ Len(s) \in Nat
      /\ \A i \in 1..Len(s) : a[i] = s[i]
      /\ a[Len(s) + 1] = t
  BY <1>6
<1>8. Capacity \in Nat /\ Len(w) = IF Len(a) > Capacity THEN Capacity ELSE Len(a)
  BY <1>1, <1>3, <1>5, <1>7, ToastAssumption
<1>9. ASSUME NEW i \in 1..Len(w) PROVE w[i] = a[i + (Len(a) - Len(w))]
  <2>1. CASE i = Len(u) + 1
    <3>1. i + (Len(a) - Len(w)) = Len(s) + 1
      <4>1. Len(u) \in Nat /\ Len(w) = Len(u) + 1 /\ Len(s) \in Nat /\ Len(a) = Len(s) + 1
        BY <1>3, <1>5, <1>7
      <4>. QED
        BY <2>1, <4>1
    <3>. QED
      BY <1>5, <1>7, <2>1, <3>1
  <2>2. CASE i # Len(u) + 1
    <3>1. i \in 1..Len(u) /\ i + (Len(a) - Len(w)) = i + (Len(s) - Len(u))
      BY <1>3, <1>5, <1>7, <2>2
    <3>2. i + (Len(s) - Len(u)) \in 1..Len(s)
      BY <1>3, <3>1
    <3>3. w[i] = s[i + (Len(s) - Len(u))]
      BY <1>3, <1>5, <3>1
    <3>. QED
      BY <1>7, <3>1, <3>2, <3>3
  <2>. QED
    BY <2>1, <2>2
<1>10. w = LastOf(a, Capacity)
  BY <1>5, <1>7, <1>8, <1>9, LastOfUnique
<1>. QED
  BY <1>1, <1>2, <1>4, <1>6, <1>10 DEF Show

(* Dropping before adding one more changes nothing of the last n.          *)
LEMMA LastOfTwice ==
    ASSUME NEW T, NEW s \in Seq(T), NEW t \in T, NEW n \in Nat \ {0}
    PROVE  LastOf(Append(LastOf(s, n), t), n) = LastOf(Append(s, t), n)
<1>1. PICK u : u = LastOf(s, n)
  OBVIOUS
<1>2. /\ u \in Seq(T) /\ Len(u) = (IF Len(s) > n THEN n ELSE Len(s)) /\ Len(u) \in Nat
      /\ \A i \in 1..Len(u) : u[i] = s[i + (Len(s) - Len(u))] /\ i + (Len(s) - Len(u)) \in 1..Len(s)
  BY <1>1, LastOfProperties
<1>3. PICK a : a = Append(u, t)
  OBVIOUS
<1>4. /\ a \in Seq(T) /\ Len(a) = Len(u) + 1 /\ a[Len(u) + 1] = t
      /\ \A i \in 1..Len(u) : a[i] = u[i]
  BY <1>2, <1>3
<1>5. PICK b : b = Append(s, t)
  OBVIOUS
<1>6. /\ b \in Seq(T) /\ Len(b) = Len(s) + 1 /\ Len(s) \in Nat /\ b[Len(s) + 1] = t
      /\ \A i \in 1..Len(s) : b[i] = s[i]
  BY <1>5
<1>7. PICK w : w = LastOf(a, n)
  OBVIOUS
<1>8. /\ w \in Seq(T) /\ Len(w) = (IF Len(a) > n THEN n ELSE Len(a)) /\ Len(w) \in Nat
      /\ \A i \in 1..Len(w) : w[i] = a[i + (Len(a) - Len(w))] /\ i + (Len(a) - Len(w)) \in 1..Len(a)
  <2>1. DOMAIN a = 1..Len(a) /\ DOMAIN w = 1..Len(w)
    BY <1>4, <1>7, LastOfProperties
  <2>2. w \in Seq(T) /\ Len(w) = (IF Len(a) > n THEN n ELSE Len(a))
    BY <1>4, <1>7, LastOfProperties
  <2>3. \A i \in DOMAIN w : /\ i + (Len(a) - Len(w)) \in DOMAIN a
                            /\ w[i] = a[i + (Len(a) - Len(w))]
    BY <1>4, <1>7, LastOfProperties
  <2>4. Len(w) \in Nat
    BY <2>2
  <2>5. \A i \in 1..Len(w) : w[i] = a[i + (Len(a) - Len(w))] /\ i + (Len(a) - Len(w)) \in 1..Len(a)
    BY <2>1, <2>3
  <2>. QED
    BY <2>2, <2>4, <2>5
<1>9. Len(w) = IF Len(b) > n THEN n ELSE Len(b)
  BY <1>2, <1>4, <1>6, <1>8
<1>10. ASSUME NEW i \in 1..Len(w) PROVE w[i] = b[i + (Len(b) - Len(w))]
  <2>a. /\ Len(u) \in Nat /\ Len(s) \in Nat /\ Len(w) \in Nat /\ i \in Nat
        /\ Len(a) = Len(u) + 1 /\ Len(b) = Len(s) + 1
    BY <1>2, <1>4, <1>6, <1>8
  <2>1. PICK j \in 1..Len(a) : j = i + (Len(a) - Len(w)) /\ w[i] = a[j]
    BY <1>8
  <2>2. CASE j = Len(u) + 1
    <3>1. i + (Len(b) - Len(w)) = Len(s) + 1
      BY <2>1, <2>2, <2>a
    <3>. QED
      BY <1>4, <1>6, <2>1, <2>2, <3>1
  <2>3. CASE j # Len(u) + 1
    <3>1. j \in 1..Len(u)
      BY <1>2, <1>4, <2>3
    <3>2. PICK k \in 1..Len(s) : k = j + (Len(s) - Len(u)) /\ u[j] = s[k]
      BY <1>2, <3>1
    <3>3. i + (Len(b) - Len(w)) = k
      <4>1. j \in Int /\ k \in Int /\ j = i + (Len(a) - Len(w)) /\ k = j + (Len(s) - Len(u))
        BY <2>1, <3>2
      <4>. QED
        BY <2>a, <4>1
    <3>. QED
      BY <1>4, <1>6, <2>1, <3>1, <3>2, <3>3
  <2>. QED
    BY <2>2, <2>3
<1>11. w = LastOf(b, n)
  BY <1>6, <1>8, <1>9, <1>10, LastOfUnique
<1>. QED
  BY <1>1, <1>3, <1>5, <1>7, <1>11

(* The loop over the pending toasts leaves the last five of the shown and  *)
(* the pending ones: the recursion is unfolded from this closed form, and  *)
(* has no other solution.                                                  *)
LEMMA ShowAllIsLast ==
    ASSUME NEW T, NEW s \in Seq(T), Len(s) <= Capacity, NEW toasts \in Seq(T)
    PROVE  ShowAll(s, toasts) = LastOf(s \o toasts, Capacity)
<1>1. PICK N \in Nat : N = Len(toasts)
  OBVIOUS
<1>a. DOMAIN toasts = 1..N /\ Capacity \in Nat \ {0}
  BY <1>1, ToastAssumption
<1> DEFINE body(h) == [n \in 0..Len(toasts) |-> IF n = 0 THEN s ELSE Show(h[n - 1], toasts[n])]
           f == CHOOSE h : h = body(h)
           upto(n) == s \o SubSeq(toasts, 1, n)
           g == [n \in 0..Len(toasts) |-> LastOf(upto(n), Capacity)]
<1>2. ShowAll(s, toasts) = f[N]
  BY <1>1 DEF ShowAll
<1>3. \A n \in 0..N : SubSeq(toasts, 1, n) \in Seq(T) /\ upto(n) \in Seq(T)
  <2> SUFFICES ASSUME NEW n \in 0..N PROVE SubSeq(toasts, 1, n) \in Seq(T)
    BY ConcatProperties
  <2>1. \A i \in 1..n : toasts[i] \in T
    BY <1>a
  <2>. QED
    BY <2>1, SubSeqProperties
<1>4. upto(0) = s /\ upto(N) = s \o toasts
  <2>1. SubSeq(toasts, 1, 0) = <<>>
    BY SubSeqEmpty
  <2>2. SubSeq(toasts, 1, N) = toasts
    BY <1>1, SubSeqFull
  <2>. QED
    BY <2>1, <2>2, ConcatEmptySeq
<1>5. ASSUME NEW n \in 1..N PROVE upto(n) = Append(upto(n - 1), toasts[n])
  <2>1. SubSeq(toasts, 1, n) = SubSeq(toasts, 1, n - 1) \o <<toasts[n]>>
    BY <1>1, <1>a, SubSeqRecursiveSecond
  <2>a. n - 1 \in 0..N
    BY <1>1
  <2>2. PICK r \in Seq(T) : r = SubSeq(toasts, 1, n - 1)
    BY <1>3, <2>a
  <2>3. toasts[n] \in T /\ <<toasts[n]>> \in Seq(T)
    BY <1>a
  <2>4. upto(n) = s \o (r \o <<toasts[n]>>) /\ upto(n - 1) = s \o r
    BY <2>1, <2>2
  <2>5. upto(n) = (s \o r) \o <<toasts[n]>>
    <3>1. PICK e \in Seq(T) : e = <<toasts[n]>>
      BY <2>3
    <3>2. (s \o r) \o e = s \o (r \o e)
      BY ConcatAssociative
    <3>. QED
      BY <2>4, <3>1, <3>2
  <2>6. s \o r \in Seq(T)
    BY ConcatProperties
  <2>. QED
    BY <2>3, <2>4, <2>5, <2>6, AppendIsConcat
<1>. HIDE DEF upto
<1>6. ASSUME NEW n \in 1..N
      PROVE  Show(LastOf(upto(n - 1), Capacity), toasts[n]) = LastOf(upto(n), Capacity)
  <2>1. PICK v \in Seq(T) : v = upto(n - 1)
    BY <1>3
  <2>2. LastOf(v, Capacity) \in Seq(T)
    BY <1>a, LastOfProperties
  <2>3. toasts[n] \in T
    BY <1>a
  <2>4. Show(LastOf(v, Capacity), toasts[n]) = LastOf(Append(LastOf(v, Capacity), toasts[n]), Capacity)
    BY <2>2, <2>3, ShowIsLast
  <2>5. LastOf(Append(LastOf(v, Capacity), toasts[n]), Capacity) = LastOf(Append(v, toasts[n]), Capacity)
    BY <1>a, <2>3, LastOfTwice
  <2>. QED
    BY <1>5, <2>1, <2>4, <2>5
<1>7. LastOf(upto(0), Capacity) = s
  BY <1>4, <1>a, LastOfShort
<1>8. g = body(g)
  <2>1. ASSUME NEW n \in 0..N
        PROVE  g[n] = IF n = 0 THEN s ELSE Show(g[n - 1], toasts[n])
    <3>1. g[n] = LastOf(upto(n), Capacity)
      BY <1>1
    <3>2. CASE n = 0
      BY <1>7, <3>1, <3>2
    <3>3. CASE n # 0
      <4>1. n \in 1..N /\ n - 1 \in 0..N
        BY <1>1, <3>3
      <4>2. g[n - 1] = LastOf(upto(n - 1), Capacity)
        BY <1>1, <4>1
      <4>. QED
        BY <1>6, <3>1, <3>3, <4>1, <4>2
    <3>. QED
      BY <3>2, <3>3
  <2>. QED
    BY <1>1, <2>1
<1>9. f = body(f)
  <2>1. \E h : h = body(h)
    <3>. HIDE DEF g, body
    <3>. QED
      BY <1>8
  <2>. HIDE DEF body
  <2>. QED
    BY <2>1
<1>. HIDE DEF f
<1>10. \A n \in 0..N : f[n] = IF n = 0 THEN s ELSE Show(f[n - 1], toasts[n])
  <2>1. PICK h : h = f
    OBVIOUS
  <2>2. h = [n \in 0..N |-> IF n = 0 THEN s ELSE Show(h[n - 1], toasts[n])]
    BY <1>1, <1>9, <2>1
  <2>. QED
    BY <2>1, <2>2
<1> DEFINE B == {n \in 0..N : f[n] # LastOf(upto(n), Capacity)}
<1>11. \A n : n \in B <=> n \in 0..N /\ f[n] # LastOf(upto(n), Capacity)
  OBVIOUS
<1>. HIDE DEF B
<1>12. B = {}
  <2> SUFFICES ASSUME B # {} PROVE FALSE
    OBVIOUS
  <2>1. B \in SUBSET Nat
    BY <1>11
  <2>2. PICK n \in B : \A x \in B : n <= x
    BY <2>1, HasSmallest
  <2>3. n \in 0..N /\ n # 0
    BY <1>7, <1>10, <1>11, <2>2
  <2>4. n \in 1..N /\ n - 1 \in 0..N /\ n - 1 \notin B
    BY <2>2, <2>3
  <2>5. f[n - 1] = LastOf(upto(n - 1), Capacity)
    BY <1>11, <2>4
  <2>6. f[n] = LastOf(upto(n), Capacity)
    BY <1>6, <1>10, <2>3, <2>4, <2>5
  <2>. QED
    BY <1>11, <2>2, <2>6
<1>13. f[N] = LastOf(upto(N), Capacity)
  BY <1>11, <1>12
<1>. QED
  BY <1>2, <1>4, <1>13

(* The two halves of a sequence                                            *)
LEMMA Halves ==
    ASSUME NEW s \in Seq(Nat), NEW w \in Seq(Nat)
    PROVE  /\ Increasing(s \o w) <=> /\ Increasing(s) /\ Increasing(w)
                                     /\ \A j \in DOMAIN s, k \in DOMAIN w : s[j] < w[k]
           /\ \A n : (\E k \in DOMAIN (s \o w) : (s \o w)[k] = n)
                       <=> (\E k \in DOMAIN s : s[k] = n) \/ (\E k \in DOMAIN w : w[k] = n)
<1>1. PICK a \in Nat, b \in Nat : a = Len(s) /\ b = Len(w)
  OBVIOUS
<1>2. PICK u \in Seq(Nat) : u = s \o w
  BY ConcatProperties
<1>3. /\ DOMAIN s = 1..a /\ DOMAIN w = 1..b /\ DOMAIN u = 1..a + b
      /\ \A i \in 1..a + b : u[i] = IF i <= a THEN s[i] ELSE w[i - a]
  BY <1>1, <1>2, ConcatProperties
<1>4. \A i \in 1..a : i \in 1..a + b /\ u[i] = s[i]
  BY <1>3
<1>5. \A i \in 1..b : a + i \in 1..a + b /\ u[a + i] = w[i]
  <2> SUFFICES ASSUME NEW i \in 1..b PROVE a + i \in 1..a + b /\ u[a + i] = w[i]
    OBVIOUS
  <2>1. a + i \in 1..a + b /\ ~(a + i <= a) /\ a + i - a = i
    OBVIOUS
  <2>. QED
    BY <1>3, <2>1
<1>6. \A i \in 1..a + b : i \in 1..a \/ \E k \in 1..b : i = a + k
  <2> SUFFICES ASSUME NEW i \in 1..a + b, i \notin 1..a PROVE \E k \in 1..b : i = a + k
    OBVIOUS
  <2>1. i - a \in 1..b /\ i = a + (i - a)
    OBVIOUS
  <2>. QED
    BY <2>1
<1>7. ASSUME Increasing(u)
      PROVE  Increasing(s) /\ Increasing(w) /\ \A j \in 1..a, k \in 1..b : s[j] < w[k]
  <2>1. Increasing(s)
    BY <1>3, <1>4, <1>7 DEF Increasing
  <2>2. ASSUME NEW j \in 1..b, NEW k \in 1..b, j < k PROVE w[j] < w[k]
    <3>1. a + j < a + k
      BY <2>2
    <3>. QED
      BY <1>3, <1>5, <1>7, <3>1 DEF Increasing
  <2>3. ASSUME NEW j \in 1..a, NEW k \in 1..b PROVE s[j] < w[k]
    <3>1. j < a + k
      OBVIOUS
    <3>. QED
      BY <1>3, <1>4, <1>5, <1>7, <3>1 DEF Increasing
  <2>4. Increasing(w)
    BY <1>3, <2>2 DEF Increasing
  <2>. QED
    BY <2>1, <2>3, <2>4
<1>8. ASSUME Increasing(s), Increasing(w), \A j \in 1..a, k \in 1..b : s[j] < w[k]
      PROVE  Increasing(u)
  <2> SUFFICES ASSUME NEW j \in 1..a + b, NEW k \in 1..a + b, j < k PROVE u[j] < u[k]
    BY <1>3 DEF Increasing
  <2>1. CASE j \in 1..a /\ k \in 1..a
    BY <1>3, <1>4, <1>8, <2>1 DEF Increasing
  <2>2. ASSUME j \in 1..a, NEW i \in 1..b, k = a + i PROVE u[j] < u[k]
    BY <1>4, <1>5, <1>8, <2>2
  <2>3. ASSUME k \in 1..a, NEW i \in 1..b, j = a + i PROVE FALSE
    BY <2>3
  <2>4. ASSUME NEW h \in 1..b, NEW i \in 1..b, j = a + h, k = a + i PROVE u[j] < u[k]
    <3>1. h < i
      BY <2>4
    <3>2. w[h] < w[i]
      BY <1>3, <1>8, <3>1 DEF Increasing
    <3>. QED
      BY <1>5, <2>4, <3>2
  <2>. QED
    BY <1>6, <2>1, <2>2, <2>3, <2>4
<1>9. \A n : (\E k \in 1..a + b : u[k] = n) <=> (\E k \in 1..a : s[k] = n) \/ (\E k \in 1..b : w[k] = n)
  <2>1. ASSUME NEW k \in 1..a + b
        PROVE  (\E j \in 1..a : s[j] = u[k]) \/ (\E j \in 1..b : w[j] = u[k])
    <3>1. CASE k \in 1..a
      BY <1>4, <3>1, Zenon
    <3>2. ASSUME NEW j \in 1..b, k = a + j PROVE w[j] = u[k]
      BY <1>5, <3>2, Zenon
    <3>. QED
      BY <1>6, <3>1, <3>2, Zenon
  <2>2. \A j \in 1..a : \E k \in 1..a + b : u[k] = s[j]
    BY <1>4, Zenon
  <2>3. \A j \in 1..b : \E k \in 1..a + b : u[k] = w[j]
    BY <1>5, Zenon
  <2> TAKE n
  <2>4. ASSUME NEW k \in 1..a + b, u[k] = n
        PROVE  (\E j \in 1..a : s[j] = n) \/ (\E j \in 1..b : w[j] = n)
    BY <2>1, <2>4, Zenon
  <2>5. ASSUME NEW j \in 1..a, s[j] = n PROVE \E k \in 1..a + b : u[k] = n
    BY <2>2, <2>5, Zenon
  <2>6. ASSUME NEW j \in 1..b, w[j] = n PROVE \E k \in 1..a + b : u[k] = n
    BY <2>3, <2>6, Zenon
  <2>. QED
    BY <2>4, <2>5, <2>6
<1>. QED
  BY <1>2, <1>3, <1>7, <1>8, <1>9

(* The notices s shown and w waiting, of m sent and of which those in c    *)
(* were closed, are in order and miss none of the last.                    *)
InOrderUpTo(s, w, m, c) ==
    /\ Increasing(s) /\ Increasing(w) /\ \A j \in DOMAIN s, k \in DOMAIN w : s[j] < w[k]
    /\ \A k \in DOMAIN s : s[k] <= m
    /\ \A k \in DOMAIN w : w[k] <= m
    /\ \A n \in (m - Capacity + 1)..m :
          n > 0 => \/ n \in c
                   \/ \E k \in DOMAIN s : s[k] = n
                   \/ \E k \in DOMAIN w : w[k] = n

(* A notice is added to the waiting ones.                                  *)
LEMMA AddWaiting ==
    ASSUME NEW s \in Seq(Nat), NEW w \in Seq(Nat), NEW m \in Nat, NEW c, InOrderUpTo(s, w, m, c)
    PROVE  InOrderUpTo(s, LastOf(Append(w, m + 1), Capacity), m + 1, c)
<1>1. PICK a \in Seq(Nat) : a = Append(w, m + 1)
  <2>1. m + 1 \in Nat
    OBVIOUS
  <2>2. Append(w, m + 1) \in Seq(Nat)
    BY <2>1, AppendProperties
  <2>. QED
    BY <2>2
<1>2. PICK b \in Nat : b = Len(w) /\ DOMAIN w = 1..b
  <2>1. Len(w) \in Nat /\ DOMAIN w = 1..Len(w)
    OBVIOUS
  <2>. QED
    BY <2>1
<1>3. /\ DOMAIN a = 1..b + 1 /\ a[b + 1] = m + 1
      /\ \A i \in 1..b : a[i] = w[i] /\ w[i] \in Nat /\ w[i] <= m
  <2>1. Len(a) = b + 1 /\ DOMAIN a = 1..Len(a) /\ a[b + 1] = m + 1
    BY <1>1, <1>2, AppendProperties
  <2>2. \A i \in 1..b : a[i] = w[i] /\ w[i] \in Nat
    BY <1>1, <1>2, AppendProperties
  <2>3. \A i \in 1..b : w[i] <= m
    BY <1>2, Zenon DEF InOrderUpTo
  <2>. QED
    BY <2>1, <2>2, <2>3
<1>4. Increasing(a)
  <2> SUFFICES ASSUME NEW j \in 1..b + 1, NEW k \in 1..b + 1, j < k PROVE a[j] < a[k]
    BY <1>3 DEF Increasing
  <2>1. j \in 1..b
    OBVIOUS
  <2>2. CASE k = b + 1
    <3>1. PICK x \in Nat : x = a[j] /\ x <= m
      BY <1>3, <2>1
    <3>2. a[k] = m + 1
      BY <1>3, <2>2
    <3>. QED
      BY <3>1, <3>2
  <2>3. CASE k # b + 1
    <3>1. k \in 1..b
      BY <2>3
    <3>. QED
      BY <1>2, <1>3, <2>1, <3>1 DEF InOrderUpTo, Increasing
  <2>. QED
    BY <2>2, <2>3
<1>5. \A i \in DOMAIN a : a[i] <= m + 1
  <2>1. \A i \in 1..b + 1 : i \in 1..b \/ i = b + 1
    OBVIOUS
  <2>. QED
    BY <1>3, <2>1
<1>6. Capacity \in Nat \ {0}
  BY ToastAssumption
<1>7. PICK t : t = LastOf(a, Capacity)
  OBVIOUS
<1>8. /\ t \in Seq(Nat) /\ DOMAIN t = 1..Len(t) /\ \A i \in DOMAIN t : \E j \in DOMAIN a : t[i] = a[j]
      /\ Increasing(t)
  <2>1. t \in Seq(Nat) /\ DOMAIN t = 1..Len(t) /\ \A i \in DOMAIN t : \E j \in DOMAIN a : t[i] = a[j]
    BY <1>6, <1>7, LastOfProperties
  <2>2. Increasing(t)
    BY <1>4, <1>6, <1>7, LastOfIncreasing
  <2>. QED
    BY <2>1, <2>2
<1>9. \A k \in DOMAIN s : s[k] \in Nat /\ s[k] <= m
  BY DEF InOrderUpTo
<1>10. ASSUME NEW j \in DOMAIN s, NEW k \in DOMAIN t PROVE s[j] < t[k]
  <2>1. PICK i \in DOMAIN a : t[k] = a[i]
    BY <1>8
  <2>2. CASE i = b + 1
    BY <1>3, <1>9, <2>1, <2>2
  <2>3. CASE i # b + 1
    <3>1. i \in 1..b
      BY <1>3, <2>3
    <3>. QED
      BY <1>2, <1>3, <2>1, <3>1 DEF InOrderUpTo
  <2>. QED
    BY <2>2, <2>3
<1>11. ASSUME NEW i \in DOMAIN a, a[i] > m + 1 - Capacity
       PROVE  \E k \in DOMAIN t : t[k] = a[i]
  <2>1. PICK o \in Nat, C \in Nat : o = m + 1 /\ C = Capacity
    BY <1>6
  <2>2. a[i] > o - C /\ \A j \in DOMAIN a : a[j] <= o
    BY <1>5, <1>11, <2>1
  <2>3. \E k \in DOMAIN LastOf(a, C) : LastOf(a, C)[k] = a[i]
    BY <1>4, <2>2, RecentSurvives
  <2>. QED
    BY <1>7, <2>1, <2>3
<1>12. ASSUME NEW n \in (m + 1 - Capacity + 1)..(m + 1), n > 0
       PROVE  n \in c \/ (\E k \in DOMAIN s : s[k] = n) \/ (\E k \in DOMAIN t : t[k] = n)
  <2>1. n \in Int /\ n > m + 1 - Capacity /\ n <= m + 1
    BY <1>6
  <2>2. CASE n = m + 1
    <3>1. b + 1 \in DOMAIN a /\ a[b + 1] = n
      BY <1>3, <2>2
    <3>. QED
      BY <1>11, <2>1, <3>1
  <2>3. CASE n # m + 1
    <3>1. n \in (m - Capacity + 1)..m
      BY <1>6, <2>1, <2>3
    <3>2. n \in c \/ (\E k \in DOMAIN s : s[k] = n) \/ (\E k \in DOMAIN w : w[k] = n)
      BY <1>12, <3>1 DEF InOrderUpTo
    <3>3. ASSUME NEW k \in DOMAIN w, w[k] = n PROVE \E j \in DOMAIN t : t[j] = n
      <4>1. k \in DOMAIN a /\ a[k] = n
        BY <1>2, <1>3, <3>3
      <4>. QED
        BY <1>11, <2>1, <4>1
    <3>. QED
      BY <3>2, <3>3
  <2>. QED
    BY <2>2, <2>3
<1>13. \A k \in DOMAIN s : s[k] <= m + 1
  BY <1>9
<1>14. \A k \in DOMAIN t : t[k] <= m + 1
  BY <1>5, <1>8
<1>15. InOrderUpTo(s, t, m + 1, c)
  <2>1. Increasing(s)
    BY DEF InOrderUpTo
  <2>2. PICK q \in Nat : q = m + 1
    OBVIOUS
  <2>3. \A n \in (q - Capacity + 1)..q :
           n > 0 => n \in c \/ (\E k \in DOMAIN s : s[k] = n) \/ (\E k \in DOMAIN t : t[k] = n)
    <3> SUFFICES ASSUME NEW n \in (q - Capacity + 1)..q, n > 0
                 PROVE  n \in c \/ (\E k \in DOMAIN s : s[k] = n) \/ (\E k \in DOMAIN t : t[k] = n)
      OBVIOUS
    <3>1. n \in (m + 1 - Capacity + 1)..(m + 1)
      BY <1>6, <2>2
    <3>. QED
      BY <1>12, <3>1
  <2>4. InOrderUpTo(s, t, q, c)
    BY <1>8, <1>10, <1>13, <1>14, <2>1, <2>2, <2>3, Zenon DEF InOrderUpTo
  <2>. QED
    BY <2>2, <2>4
<1>. QED
  BY <1>1, <1>7, <1>15

(* The provider takes the waiting ones over.                               *)
LEMMA TakeOver ==
    ASSUME NEW s \in Seq(Nat), NEW w \in Seq(Nat), NEW m \in Nat, NEW c, InOrderUpTo(s, w, m, c)
    PROVE  InOrderUpTo(LastOf(s \o w, Capacity), <<>>, m, c)
<1>1. PICK a \in Seq(Nat) : a = s \o w
  BY ConcatProperties
<1>2. /\ Increasing(a)
      /\ \A n : (\E k \in DOMAIN a : a[k] = n)
                  <=> (\E k \in DOMAIN s : s[k] = n) \/ (\E k \in DOMAIN w : w[k] = n)
  <2>1. /\ Increasing(s \o w) <=> /\ Increasing(s) /\ Increasing(w)
                                  /\ \A j \in DOMAIN s, k \in DOMAIN w : s[j] < w[k]
        /\ \A n : (\E k \in DOMAIN (s \o w) : (s \o w)[k] = n)
                    <=> (\E k \in DOMAIN s : s[k] = n) \/ (\E k \in DOMAIN w : w[k] = n)
    BY Halves, Zenon
  <2>2. /\ Increasing(s) /\ Increasing(w)
        /\ \A j \in DOMAIN s, k \in DOMAIN w : s[j] < w[k]
    BY DEF InOrderUpTo
  <2>. QED
    BY <1>1, <2>1, <2>2, Zenon
<1>3. \A k \in DOMAIN a : a[k] <= m
  BY <1>2 DEF InOrderUpTo
<1>4. Capacity \in Nat
  BY ToastAssumption
<1>5. PICK t : t = LastOf(a, Capacity)
  OBVIOUS
<1>6. t \in Seq(Nat) /\ DOMAIN t = 1..Len(t) /\ \A i \in DOMAIN t : \E j \in DOMAIN a : t[i] = a[j]
  BY <1>4, <1>5, LastOfProperties
<1>7. Increasing(t)
  BY <1>2, <1>4, <1>5, LastOfIncreasing
<1>8. ASSUME NEW i \in DOMAIN a, a[i] > m - Capacity
      PROVE  \E k \in DOMAIN t : t[k] = a[i]
  BY <1>2, <1>3, <1>4, <1>5, <1>8, RecentSurvives
<1>9. ASSUME NEW n \in (m - Capacity + 1)..m, n > 0
      PROVE  n \in c \/ \E k \in DOMAIN t : t[k] = n
  <2>1. n > m - Capacity
    BY <1>4
  <2>2. n \in c \/ \E k \in DOMAIN a : a[k] = n
    BY <1>2, <1>9 DEF InOrderUpTo
  <2>. QED
    BY <1>8, <2>1, <2>2
<1>10. \A k \in DOMAIN t : t[k] <= m
  BY <1>3, <1>6
<1>11. DOMAIN <<>> = {}
  OBVIOUS
<1>12. InOrderUpTo(t, <<>>, m, c)
  BY <1>7, <1>9, <1>10, <1>11, Zenon DEF InOrderUpTo, Increasing
<1>. QED
  BY <1>1, <1>5, <1>12

(* Toasts are closed: the others stay in order, the closed are noted.      *)
LEMMA CloseSome ==
    ASSUME NEW s \in Seq(Nat), NEW w \in Seq(Nat), NEW m \in Nat, NEW c, InOrderUpTo(s, w, m, c),
           NEW I \in SUBSET DOMAIN s, NEW A, NEW t,
           /\ \A i \in DOMAIN A : A[i] \in I
           /\ \A x \in I : \E i \in DOMAIN A : A[i] = x,
           Increasing(A),
           t = [i \in DOMAIN A |-> s[A[i]]]
    PROVE  InOrderUpTo(t, w, m, c \cup {s[j] : j \in DOMAIN s \ I})
<1>1. DOMAIN t = DOMAIN A /\ \A i \in DOMAIN A : t[i] = s[A[i]] /\ A[i] \in DOMAIN s
  OBVIOUS
<1>2. Increasing(t)
  BY <1>1 DEF Increasing, InOrderUpTo
<1>3. \A j \in DOMAIN t, k \in DOMAIN w : t[j] < w[k]
  BY <1>1 DEF InOrderUpTo
<1>4. \A j \in DOMAIN t : t[j] <= m
  BY <1>1 DEF InOrderUpTo
<1>5. ASSUME NEW k \in DOMAIN s
      PROVE  s[k] \in c \cup {s[j] : j \in DOMAIN s \ I} \/ \E j \in DOMAIN t : t[j] = s[k]
  <2>1. CASE k \in I
    BY <1>1, <2>1
  <2>2. CASE k \notin I
    BY <2>2
  <2>. QED
    BY <2>1, <2>2
<1>6. ASSUME NEW n \in (m - Capacity + 1)..m, n > 0
      PROVE  \/ n \in c \cup {s[j] : j \in DOMAIN s \ I}
             \/ \E k \in DOMAIN t : t[k] = n
             \/ \E k \in DOMAIN w : w[k] = n
  <2>1. n \in c \/ (\E k \in DOMAIN s : s[k] = n) \/ (\E k \in DOMAIN w : w[k] = n)
    BY <1>6 DEF InOrderUpTo
  <2>. QED
    BY <1>5, <2>1
<1>7. Increasing(w) /\ \A k \in DOMAIN w : w[k] <= m
  BY DEF InOrderUpTo
<1>. QED
  BY <1>2, <1>3, <1>4, <1>6, <1>7, Zenon DEF InOrderUpTo

(* NoticesInv in these terms                                               *)
LEMMA KnownInOrder ==
    ASSUME NEW s \in Seq(Nat), NEW w \in Seq(Nat), NEW m \in Nat, NEW c
    PROVE  InOrderUpTo(s, w, m, c) <=>
             /\ Increasing(s \o w)
             /\ \A k \in DOMAIN (s \o w) : (s \o w)[k] <= m
             /\ \A n \in (m - Capacity + 1)..m :
                  n > 0 => n \in c \/ \E k \in DOMAIN (s \o w) : (s \o w)[k] = n
<1>1. PICK a : a = s \o w
  OBVIOUS
<1>2. /\ Increasing(a) <=> /\ Increasing(s) /\ Increasing(w)
                           /\ \A j \in DOMAIN s, k \in DOMAIN w : s[j] < w[k]
      /\ \A n : (\E k \in DOMAIN a : a[k] = n)
                  <=> (\E k \in DOMAIN s : s[k] = n) \/ (\E k \in DOMAIN w : w[k] = n)
  <2>1. /\ Increasing(s \o w) <=> /\ Increasing(s) /\ Increasing(w)
                                  /\ \A j \in DOMAIN s, k \in DOMAIN w : s[j] < w[k]
        /\ \A n : (\E k \in DOMAIN (s \o w) : (s \o w)[k] = n)
                    <=> (\E k \in DOMAIN s : s[k] = n) \/ (\E k \in DOMAIN w : w[k] = n)
    BY Halves, Zenon
  <2>. QED
    BY <1>1, <2>1, Zenon
<1>3. (\A k \in DOMAIN a : a[k] <= m) <=> /\ \A k \in DOMAIN s : s[k] <= m
                                          /\ \A k \in DOMAIN w : w[k] <= m
  BY <1>2, Zenon
<1>4. (\A n \in (m - Capacity + 1)..m : n > 0 => n \in c \/ \E k \in DOMAIN a : a[k] = n)
        <=> \A n \in (m - Capacity + 1)..m :
               n > 0 => \/ n \in c
                        \/ \E k \in DOMAIN s : s[k] = n
                        \/ \E k \in DOMAIN w : w[k] = n
  BY <1>2, Zenon
<1>5. InOrderUpTo(s, w, m, c) <=>
        /\ Increasing(a)
        /\ \A k \in DOMAIN a : a[k] <= m
        /\ \A n \in (m - Capacity + 1)..m : n > 0 => n \in c \/ \E k \in DOMAIN a : a[k] = n
  BY <1>2, <1>3, <1>4, Zenon DEF InOrderUpTo
<1>. QED
  BY <1>1, <1>5

(* The inductive invariant: beside what NoticeInv says, nothing waits      *)
(* while the provider listens, no notice is newer than the last one sent,  *)
(* and the ref of the overview holds the drift it shows.                   *)
NoticesInv ==
    /\ ToastTypeOK /\ DriftAnnounced
    /\ InOrderUpTo(NoticesOf(items), pendingToasts, sent, closed)
    /\ listening => pendingToasts = <<>>
    /\ lastReportedDrift = drift

LEMMA NoticesTypes ==
    ASSUME ToastTypeOK
    PROVE  /\ NoticesOf(items) \in Seq(Nat) /\ pendingToasts \in Seq(Nat)
           /\ sent \in Nat /\ DOMAIN NoticesOf(items) = DOMAIN items
<1>1. items \in Seq(Toast) /\ pendingToasts \in Seq(Notices) /\ Notices \subseteq Nat
  BY ToastAssumption DEF ToastTypeOK, Notices
<1>2. NoticesOf(items) \in Seq(Notices) /\ DOMAIN NoticesOf(items) = DOMAIN items
  BY <1>1, NoticesProperties
<1>3. NoticesOf(items) \in Seq(Nat) /\ pendingToasts \in Seq(Nat)
  BY <1>1, <1>2, SeqMonotonic
<1>. QED
  BY <1>2, <1>3, ToastAssumption DEF ToastTypeOK

LEMMA NoticesImply == NoticesInv => NoticeInv
<1> SUFFICES ASSUME NoticesInv PROVE NoticeInv
  OBVIOUS
<1>1. PICK s \in Seq(Nat), w \in Seq(Nat), m \in Nat, c \in SUBSET Notices :
         s = NoticesOf(items) /\ w = pendingToasts /\ m = sent /\ c = closed
  BY NoticesTypes DEF NoticesInv, ToastTypeOK
<1>2. InOrderUpTo(s, w, m, c)
  BY <1>1 DEF NoticesInv
<1>3. /\ Increasing(s \o w)
      /\ \A n \in (m - Capacity + 1)..m :
           n > 0 => n \in c \/ \E k \in DOMAIN (s \o w) : (s \o w)[k] = n
  BY <1>2, KnownInOrder
<1>4. Known = s \o w
  BY <1>1 DEF Known
<1>5. ShownOnceInOrder
  BY <1>3, <1>4, Zenon DEF ShownOnceInOrder, Increasing
<1>6. RecentKept
  BY <1>1, <1>3, <1>4, Zenon DEF RecentKept
<1>. QED
  BY <1>5, <1>6 DEF NoticesInv, NoticeInv

LEMMA NoticesInit == ToastInit => NoticesInv
<1> SUFFICES ASSUME ToastInit PROVE NoticesInv
  OBVIOUS
<1>1. ToastTypeOK
  <2>1. <<>> \in Seq(Notices) /\ <<>> \in Seq(Toast) /\ Len(<<>>) = 0
    OBVIOUS
  <2>2. 0 \in 0..MaxNotices /\ 0 <= Capacity
    BY ToastAssumption
  <2>. QED
    BY <2>1, <2>2 DEF ToastInit, ToastTypeOK
<1>2. DriftAnnounced
  BY DEF ToastInit, DriftAnnounced, NotShown
<1>3. NoticesOf(items) = <<>>
  BY DEF ToastInit, NoticesOf
<1>4. InOrderUpTo(<<>>, <<>>, 0, {})
  <2>1. DOMAIN <<>> = {}
    OBVIOUS
  <2>2. \A n \in (0 - Capacity + 1)..0 : ~(n > 0)
    BY ToastAssumption
  <2>. QED
    BY <2>1, <2>2, Zenon DEF InOrderUpTo, Increasing
<1>. QED
  BY <1>1, <1>2, <1>3, <1>4 DEF ToastInit, NoticesInv

(* A notice that is sent keeps the notices in order, shown or waiting.     *)
LEMMA NotifyKeeps ==
    ASSUME NoticesInv, notifyToast
    PROVE  /\ pendingToasts' \in Seq(Notices) /\ Len(pendingToasts') <= Capacity
           /\ items' \in Seq(Toast) /\ Len(items') <= Capacity
           /\ sent' = sent + 1 /\ sent' \in 1..MaxNotices
           /\ InOrderUpTo(NoticesOf(items'), pendingToasts', sent + 1, closed)
           /\ listening => pendingToasts' = <<>>
<1>1. /\ items \in Seq(Toast) /\ pendingToasts \in Seq(Notices)
      /\ Len(pendingToasts) <= Capacity /\ Len(items) <= Capacity
      /\ sent \in 0..MaxNotices
  BY DEF NoticesInv, ToastTypeOK
<1>2. PICK m \in Nat : m = sent
  BY <1>1, ToastAssumption
<1>3. sent' = m + 1 /\ m + 1 \in Notices /\ Notices \subseteq Nat
  BY <1>1, <1>2, ToastAssumption DEF notifyToast, Notices
<1>4. PICK s \in Seq(Nat), w \in Seq(Nat), c \in SUBSET Notices :
         s = NoticesOf(items) /\ w = pendingToasts /\ c = closed
  BY NoticesTypes DEF NoticesInv, ToastTypeOK
<1>5. InOrderUpTo(s, w, m, c)
  BY <1>2, <1>4 DEF NoticesInv
<1>6. Capacity \in Nat \ {0}
  BY ToastAssumption
<1>7. CASE listening
  <2>1. PICK id \in Ids : items' = Show(items, [notice |-> m + 1, id |-> id])
    BY <1>2, <1>7 DEF notifyToast
  <2>2. PICK t \in Toast : t = [notice |-> m + 1, id |-> id]
    BY <1>3 DEF Toast
  <2>3. t.notice = m + 1
    BY <2>2
  <2>4. PICK a \in Seq(Toast) : a = Append(items, t)
    BY <1>1, AppendProperties
  <2>5. items' = LastOf(a, Capacity)
    BY <1>1, <2>1, <2>2, <2>4, ShowIsLast
  <2>6. items' \in Seq(Toast) /\ Len(items') <= Capacity
    <3>1. LastOf(a, Capacity) \in Seq(Toast) /\ Len(LastOf(a, Capacity)) = IF Len(a) > Capacity THEN Capacity ELSE Len(a)
      BY <1>6, LastOfProperties
    <3>. QED
      BY <1>6, <2>5, <3>1
  <2>7. NoticesOf(a) = Append(s, m + 1)
    <3>1. PICK i \in Seq(Toast) : i = items
      BY <1>1
    <3>2. a = i \o <<t>> /\ <<t>> \in Seq(Toast)
      BY <2>4, <3>1, AppendIsConcat
    <3>3. NoticesOf(a) = NoticesOf(i) \o NoticesOf(<<t>>)
      BY <3>2, NoticesOfConcat
    <3>4. NoticesOf(<<t>>) = <<m + 1>>
      BY <2>3 DEF NoticesOf
    <3>5. s \o <<m + 1>> = Append(s, m + 1)
      BY AppendIsConcat
    <3>. QED
      BY <1>4, <3>1, <3>3, <3>4, <3>5
  <2>8. NoticesOf(items') = LastOf(Append(s, m + 1), Capacity)
    BY <1>6, <2>5, <2>7, NoticesOfLast
  <2>9. w = <<>> /\ pendingToasts' = <<>> /\ pendingToasts' = pendingToasts
    BY <1>4, <1>7 DEF NoticesInv, notifyToast
  <2>10. InOrderUpTo(<<>>, s, m, c)
    <3>1. DOMAIN <<>> = {}
      OBVIOUS
    <3>2. InOrderUpTo(s, <<>>, m, c)
      BY <1>5, <2>9
    <3>. QED
      BY <3>1, <3>2, Zenon DEF InOrderUpTo, Increasing
  <2>11. InOrderUpTo(<<>>, LastOf(Append(s, m + 1), Capacity), m + 1, c)
    <3>1. <<>> \in Seq(Nat)
      OBVIOUS
    <3>. QED
      BY <2>10, <3>1, AddWaiting
  <2>12. InOrderUpTo(LastOf(Append(s, m + 1), Capacity), <<>>, m + 1, c)
    <3>1. PICK u : u = LastOf(Append(s, m + 1), Capacity)
      OBVIOUS
    <3>2. DOMAIN <<>> = {}
      OBVIOUS
    <3>3. InOrderUpTo(<<>>, u, m + 1, c)
      BY <2>11, <3>1
    <3>4. InOrderUpTo(u, <<>>, m + 1, c)
      BY <3>2, <3>3, Zenon DEF InOrderUpTo, Increasing
    <3>. QED
      BY <3>1, <3>4
  <2>. QED
    BY <1>1, <1>2, <1>3, <1>4, <2>6, <2>8, <2>9, <2>12 DEF Notices
<1>8. CASE ~listening
  <2>1. items' = items /\ pendingToasts' = LastOf(Append(pendingToasts, m + 1), Capacity)
    BY <1>2, <1>8 DEF notifyToast, Queue
  <2>2. InOrderUpTo(s, LastOf(Append(w, m + 1), Capacity), m + 1, c)
    BY <1>5, AddWaiting
  <2>3. pendingToasts' \in Seq(Notices) /\ Len(pendingToasts') <= Capacity
    <3>1. PICK a \in Seq(Notices) : a = Append(pendingToasts, m + 1)
      BY <1>1, <1>3, AppendProperties
    <3>2. LastOf(a, Capacity) \in Seq(Notices) /\ Len(LastOf(a, Capacity)) = IF Len(a) > Capacity THEN Capacity ELSE Len(a)
      BY <1>6, LastOfProperties
    <3>. QED
      BY <1>6, <2>1, <3>1, <3>2
  <2>. QED
    BY <1>1, <1>2, <1>3, <1>4, <1>8, <2>1, <2>2, <2>3 DEF Notices
<1>. QED
  BY <1>7, <1>8

(* A step that leaves the notices alone                                    *)
LEMMA SameNotices ==
    ASSUME NoticesInv, UNCHANGED <<pendingToasts, items, sent, closed>>,
           listening' \in BOOLEAN, listening' => listening,
           drift' \in Drifts \cup {NotShown}, lastReportedDrift' = drift',
           since' \in 0..MaxNotices, driftNotice' \in 0..MaxNotices, DriftAnnounced'
    PROVE  NoticesInv'
<1>1. ToastTypeOK'
  BY DEF NoticesInv, ToastTypeOK
<1>2. InOrderUpTo(NoticesOf(items), pendingToasts, sent, closed)'
  BY DEF NoticesInv
<1>. QED
  BY <1>1, <1>2 DEF NoticesInv

LEMMA NoticesStep == NoticesInv /\ [ToastNext]_toastVars => NoticesInv'
<1> SUFFICES ASSUME NoticesInv, [ToastNext]_toastVars PROVE NoticesInv'
  OBVIOUS
<1>a. /\ items \in Seq(Toast) /\ pendingToasts \in Seq(Notices)
      /\ Len(pendingToasts) <= Capacity /\ Len(items) <= Capacity
      /\ sent \in 0..MaxNotices /\ closed \subseteq Notices /\ listening \in BOOLEAN
      /\ drift \in Drifts \cup {NotShown} /\ lastReportedDrift = drift
      /\ since \in 0..MaxNotices /\ driftNotice \in 0..MaxNotices
      /\ MaxNotices \in Nat /\ Capacity \in Nat \ {0}
  BY ToastAssumption DEF NoticesInv, ToastTypeOK
<1>b. PICK s \in Seq(Nat), w \in Seq(Nat), m \in Nat, c \in SUBSET Notices :
         s = NoticesOf(items) /\ w = pendingToasts /\ m = sent /\ c = closed
  BY NoticesTypes DEF NoticesInv, ToastTypeOK
<1>c. InOrderUpTo(s, w, m, c)
  BY <1>b DEF NoticesInv
<1>1. CASE UNCHANGED toastVars
  <2>1. DriftAnnounced'
    BY <1>1 DEF toastVars, NoticesInv, DriftAnnounced
  <2>. QED
    BY <1>1, <1>a, <2>1, SameNotices DEF toastVars
<1>2. CASE Announce
  <2>1. notifyToast /\ UNCHANGED <<listening, closed, drift, lastReportedDrift, since, driftNotice>>
    BY <1>2 DEF Announce
  <2>2. /\ pendingToasts' \in Seq(Notices) /\ Len(pendingToasts') <= Capacity
        /\ items' \in Seq(Toast) /\ Len(items') <= Capacity
        /\ sent' = sent + 1 /\ sent' \in 1..MaxNotices
        /\ InOrderUpTo(NoticesOf(items'), pendingToasts', sent + 1, closed)
        /\ listening => pendingToasts' = <<>>
    BY <2>1, NotifyKeeps
  <2>3. ToastTypeOK'
    BY <1>a, <2>1, <2>2 DEF ToastTypeOK
  <2>4. DriftAnnounced'
    BY <2>1 DEF NoticesInv, DriftAnnounced
  <2>5. InOrderUpTo(NoticesOf(items), pendingToasts, sent, closed)'
    BY <2>1, <2>2
  <2>. QED
    BY <1>a, <2>1, <2>2, <2>3, <2>4, <2>5 DEF NoticesInv
<1>3. CASE Listen
  <2>1. /\ listening' = TRUE /\ pendingToasts' = <<>>
        /\ UNCHANGED <<sent, closed, drift, lastReportedDrift, since, driftNotice>>
    BY <1>3 DEF Listen
  <2>2. PICK id \in [DOMAIN pendingToasts -> Ids] :
           items' = ShowAll(items, [n \in DOMAIN pendingToasts |->
                                      [notice |-> pendingToasts[n], id |-> id[n]]])
    BY <1>3 DEF Listen
  <2>3. PICK toasts : toasts = [n \in DOMAIN w |-> [notice |-> w[n], id |-> id[n]]]
    OBVIOUS
  <2>4. toasts \in Seq(Toast) /\ NoticesOf(toasts) = w
    <3>1. /\ w \in Seq(Notices) /\ DOMAIN w = 1..Len(w) /\ Len(w) \in Nat
          /\ \A n \in DOMAIN w : w[n] \in Notices /\ id[n] \in Ids
      BY <1>a, <1>b
    <3>2. \A n \in DOMAIN w : toasts[n] \in Toast /\ toasts[n].notice = w[n]
      BY <2>3, <3>1 DEF Toast
    <3>3. DOMAIN toasts = DOMAIN w /\ toasts \in [1..Len(w) -> Toast]
      BY <2>3, <3>1, <3>2
    <3>4. toasts \in Seq(Toast)
      <4>1. PICK N \in Nat : N = Len(w)
        BY <3>1
      <4>2. toasts \in [1..N -> Toast]
        BY <3>3, <4>1
      <4>. QED
        BY <4>2
    <3>5. NoticesOf(toasts) \in Seq(Notices) /\ Len(NoticesOf(toasts)) = Len(w)
      BY <3>1, <3>3, <3>4, NoticesProperties
    <3>6. \A n \in 1..Len(w) : NoticesOf(toasts)[n] = w[n]
      BY <3>1, <3>2, <3>3, <3>4, NoticesProperties
    <3>. QED
      BY <3>1, <3>4, <3>5, <3>6, SeqEqual
  <2>5. PICK i \in Seq(Toast) : i = items
    BY <1>a
  <2>6. items' = LastOf(i \o toasts, Capacity)
    <3>1. items' = ShowAll(i, toasts)
      BY <1>b, <2>2, <2>3, <2>5
    <3>2. Len(i) <= Capacity
      BY <1>a, <2>5
    <3>3. ShowAll(i, toasts) = LastOf(i \o toasts, Capacity)
      BY <2>4, <3>2, ShowAllIsLast
    <3>. QED
      BY <3>1, <3>3
  <2>7. PICK a \in Seq(Toast) : a = i \o toasts
    BY <2>4, ConcatProperties
  <2>8. items' \in Seq(Toast) /\ Len(items') <= Capacity
    <3>1. LastOf(a, Capacity) \in Seq(Toast) /\ Len(LastOf(a, Capacity)) = IF Len(a) > Capacity THEN Capacity ELSE Len(a)
      BY <1>a, LastOfProperties
    <3>. QED
      BY <1>a, <2>6, <2>7, <3>1
  <2>9. NoticesOf(items') = LastOf(s \o w, Capacity)
    <3>1. NoticesOf(a) = s \o w
      <4>1. NoticesOf(i \o toasts) = NoticesOf(i) \o NoticesOf(toasts)
        BY <2>4, NoticesOfConcat
      <4>. QED
        BY <1>b, <2>4, <2>5, <2>7, <4>1
    <3>2. NoticesOf(LastOf(a, Capacity)) = LastOf(NoticesOf(a), Capacity)
      BY <1>a, NoticesOfLast
    <3>. QED
      BY <2>6, <2>7, <3>1, <3>2
  <2>10. InOrderUpTo(LastOf(s \o w, Capacity), <<>>, m, c)
    BY <1>c, TakeOver
  <2>11. InOrderUpTo(NoticesOf(items), pendingToasts, sent, closed)'
    BY <1>b, <2>1, <2>9, <2>10
  <2>12. ToastTypeOK'
    <3>1. <<>> \in Seq(Notices) /\ Len(<<>>) <= Capacity
      BY <1>a
    <3>. QED
      BY <1>a, <2>1, <2>8, <3>1 DEF ToastTypeOK
  <2>13. DriftAnnounced'
    BY <2>1 DEF NoticesInv, DriftAnnounced
  <2>. QED
    BY <1>a, <2>1, <2>11, <2>12, <2>13 DEF NoticesInv
<1>4. CASE Leave
  <2>1. DriftAnnounced'
    BY <1>4 DEF Leave, NoticesInv, DriftAnnounced
  <2>. QED
    BY <1>4, <1>a, <2>1, SameNotices DEF Leave
<1>5. ASSUME NEW k \in DOMAIN items, Close(k) PROVE NoticesInv'
  <2>1. PICK I : I = Others(k)
    OBVIOUS
  <2>2. PICK A : A = Ascending(I)
    OBVIOUS
  <2>3. /\ items' = [n \in DOMAIN A |-> items[A[n]]]
        /\ closed' = closed \cup {items[j].notice : j \in DOMAIN items \ I}
        /\ UNCHANGED <<listening, pendingToasts, sent, drift, lastReportedDrift, since, driftNotice>>
    BY <1>5, <2>1, <2>2 DEF Close
  <2>4. DOMAIN items = 1..Len(items) /\ Len(items) \in Nat /\ I \in SUBSET (1..Len(items))
    BY <1>a, <2>1 DEF Others
  <2>5. PICK N \in Nat : N = Len(items)
    BY <2>4
  <2>6. IsFiniteSet(I) /\ Cardinality(I) <= N
    <3>1. IsFiniteSet(1..N) /\ Cardinality(1..N) = N
      BY FS_Interval
    <3>2. I \in SUBSET (1..N)
      BY <2>4, <2>5
    <3>3. IsFiniteSet(I)
      BY <3>1, <3>2, FS_Subset
    <3>4. Cardinality(I) <= Cardinality(1..N)
      BY <3>1, <3>2, FS_Subset
    <3>. QED
      BY <3>1, <3>3, <3>4
  <2>7. I \in SUBSET Int
    BY <2>4
  <2>8. /\ Cardinality(I) \in Nat /\ DOMAIN A = 1..Cardinality(I)
        /\ \A i \in DOMAIN A : A[i] \in I
        /\ \A x \in I : \E i \in DOMAIN A : A[i] = x
        /\ Increasing(A)
    BY <2>2, <2>6, <2>7, AscendingProperties
  <2>9. \A i \in DOMAIN A : items[A[i]] \in Toast
    <3>1. \A j \in DOMAIN items : items[j] \in Toast
      BY <1>a
    <3>2. \A i \in DOMAIN A : A[i] \in DOMAIN items
      BY <2>4, <2>8
    <3>. QED
      BY <3>1, <3>2
  <2>10. items' \in Seq(Toast) /\ Len(items') = Cardinality(I) /\ DOMAIN items' = DOMAIN A
    <3>1. PICK q \in Nat : q = Cardinality(I)
      BY <2>8
    <3>2. items' = [n \in 1..q |-> items[A[n]]] /\ \A n \in 1..q : items[A[n]] \in Toast
      BY <2>3, <2>8, <2>9, <3>1
    <3>3. items' \in [1..q -> Toast] /\ DOMAIN items' = 1..q
      BY <3>2
    <3>4. items' \in Seq(Toast) /\ Len(items') = q
      BY <3>3
    <3>. QED
      BY <2>8, <3>1, <3>3, <3>4
  <2>11. \A j \in DOMAIN items : s[j] = items[j].notice
    BY <1>a, <1>b, NoticesProperties
  <2>12. DOMAIN s = DOMAIN items
    BY <1>a, <1>b, NoticesProperties
  <2>13. NoticesOf(items') = [i \in DOMAIN A |-> s[A[i]]]
    <3>1. \A i \in DOMAIN A : items'[i].notice = s[A[i]]
      BY <2>3, <2>4, <2>8, <2>11
    <3>. QED
      BY <2>10, <3>1 DEF NoticesOf
  <2>14. closed' = c \cup {s[j] : j \in DOMAIN s \ I}
    BY <1>b, <2>3, <2>11, <2>12
  <2>15. InOrderUpTo(NoticesOf(items'), w, m, closed')
    <3>1. PICK t : t = [i \in DOMAIN A |-> s[A[i]]]
      OBVIOUS
    <3>2. I \in SUBSET DOMAIN s
      BY <2>4, <2>12
    <3>3. InOrderUpTo(t, w, m, c \cup {s[j] : j \in DOMAIN s \ I})
      BY <1>c, <2>8, <3>1, <3>2, CloseSome
    <3>. QED
      BY <2>13, <2>14, <3>1, <3>3
  <2>16. InOrderUpTo(NoticesOf(items), pendingToasts, sent, closed)'
    BY <1>b, <2>3, <2>15
  <2>17. closed' \subseteq Notices
    <3>1. \A j \in DOMAIN items : items[j] \in Toast
      BY <1>a
    <3>2. \A j \in DOMAIN items : items[j].notice \in Notices
      BY <3>1 DEF Toast
    <3>. QED
      BY <1>a, <2>3, <3>2
  <2>18. ToastTypeOK'
    <3>1. Len(items') <= Capacity
      BY <1>a, <2>5, <2>6, <2>8, <2>10
    <3>. QED
      BY <1>a, <2>3, <2>10, <2>17, <3>1 DEF ToastTypeOK
  <2>19. DriftAnnounced' /\ (listening' => pendingToasts' = <<>>)
    BY <2>3 DEF NoticesInv, DriftAnnounced
  <2>. QED
    BY <1>a, <2>3, <2>16, <2>18, <2>19 DEF NoticesInv
<1>6. ASSUME NEW d \in Drifts, OverviewAnswers(d) PROVE NoticesInv'
  <2>1. /\ drift' = d /\ lastReportedDrift' = d /\ since' = sent /\ d # drift
        /\ UNCHANGED <<listening, closed>>
    BY <1>6 DEF OverviewAnswers
  <2>2. CASE MustReport(d)
    <3>1. notifyToast /\ driftNotice' = sent + 1
      BY <1>6, <2>2 DEF OverviewAnswers
    <3>2. /\ pendingToasts' \in Seq(Notices) /\ Len(pendingToasts') <= Capacity
          /\ items' \in Seq(Toast) /\ Len(items') <= Capacity
          /\ sent' = sent + 1 /\ sent' \in 1..MaxNotices
          /\ InOrderUpTo(NoticesOf(items'), pendingToasts', sent + 1, closed)
          /\ listening => pendingToasts' = <<>>
      BY <3>1, NotifyKeeps
    <3>3. ToastTypeOK'
      BY <1>a, <2>1, <3>1, <3>2 DEF ToastTypeOK
    <3>4. DriftAnnounced'
      BY <1>a, <2>1, <3>1 DEF DriftAnnounced
    <3>5. InOrderUpTo(NoticesOf(items), pendingToasts, sent, closed)'
      BY <2>1, <3>2
    <3>. QED
      BY <2>1, <3>2, <3>3, <3>4, <3>5 DEF NoticesInv
  <2>3. CASE ~MustReport(d)
    <3>1. UNCHANGED <<sent, pendingToasts, items, driftNotice>>
      BY <1>6, <2>3 DEF OverviewAnswers
    <3>2. ~(d > 0)
      BY <1>a, <2>1, <2>3 DEF MustReport
    <3>3. DriftAnnounced'
      BY <2>1, <3>2 DEF DriftAnnounced
    <3>. QED
      BY <1>a, <2>1, <3>1, <3>3, SameNotices
  <2>. QED
    BY <2>2, <2>3
<1>7. CASE LeaveOverview
  <2>1. DriftAnnounced'
    BY <1>7 DEF LeaveOverview, DriftAnnounced, NotShown
  <2>. QED
    BY <1>7, <1>a, <2>1, SameNotices DEF LeaveOverview
<1>. QED
  BY <1>1, <1>2, <1>3, <1>4, <1>5, <1>6, <1>7 DEF ToastNext

(* However the provider comes and goes, pages announce and toasts close:   *)
(* no notice but one followed by five newer ones is lost, none is shown    *)
(* twice or out of order, and the overview announces every positive drift  *)
(* it comes to show (notifyToast, ToastProvider, OverviewPage).            *)
THEOREM NoticesAreKept == ToastSpec => []NoticeInv
BY NoticesInit, NoticesStep, NoticesImply, PTL DEF ToastSpec

-----------------------------------------------------------------------------
(* The connections page.  The rank of a snapshot among those that pass the *)
(* filters never falls: newer ones come before it, and only older ones go. *)
(* So what a page has to know of the pages before it, once true, stays     *)
(* true: the old snapshots of a rank up to its offset were shown.  The     *)
(* parts of the invariant take the stored and the shown snapshots as       *)
(* parameters, st and sn.                                                  *)
Passes(key, s) == key.site \in {All, SiteOf[Owner[s]]} /\ key.node \in {All, Owner[s]}
PassingIn(key, st) == {s \in st : Passes(key, s)}
RankIn(key, st, s) == Cardinality({r \in PassingIn(key, st) : r >= s})

EarlierShown(key, st, sn) ==
    \A s \in PassingIn(key, st) :
      s <= Initial /\ RankIn(key, st, s) <= key.offset => s \in sn

(* An answer holds rows of the filters, and each old snapshot that is on a *)
(* page up to its own; an exact one without a next page holds all the rest.*)
FaithfulAnswer(key, a, st, sn) ==
    /\ \A s \in a.items : Passes(key, s)
    /\ \A s \in PassingIn(key, st) :
         s <= Initial => \/ s \in sn \/ s \in a.items
                         \/ RankIn(key, st, s) > key.offset + Limit /\ (a.more \/ ~a.exact)

FreshCount(key, f, st) == f.counted /\ f.exact => f.total = Cardinality(PassingIn(key, st))

LEMMA MatchingIsPassing ==
    \A key : /\ Matching(key) = PassingIn(key, stored)
             /\ \A s : Rank(key, s) = RankIn(key, stored, s)
BY DEF Matching, PassingIn, Passes, Rank, RankIn

LEMMA SnapshotsFinite ==
    /\ Snapshots \subseteq Nat /\ IsFiniteSet(Snapshots) /\ Cardinality(Snapshots) \in Nat
    /\ Initial \in Nat /\ Initial >= 1
<1>1. Snapshots = 1..Len(Owner) /\ Len(Owner) \in Nat
  BY HistoryAssumption DEF Snapshots
<1>2. PICK n \in Nat : n = Len(Owner)
  BY <1>1
<1>3. IsFiniteSet(1..n) /\ Cardinality(1..n) = n
  BY FS_Interval
<1>. QED
  BY <1>1, <1>2, <1>3, HistoryAssumption

LEMMA PassingFinite ==
    ASSUME NEW st \in SUBSET Snapshots, NEW key
    PROVE  /\ PassingIn(key, st) \subseteq Snapshots /\ IsFiniteSet(PassingIn(key, st))
           /\ Cardinality(PassingIn(key, st)) \in Nat
           /\ Cardinality(PassingIn(key, st)) <= Cardinality(Snapshots)
<1>1. PICK P : P = PassingIn(key, st)
  OBVIOUS
<1>2. P \subseteq Snapshots
  BY <1>1 DEF PassingIn
<1>3. IsFiniteSet(P)
  BY <1>2, SnapshotsFinite, FS_Subset
<1>4. Cardinality(P) <= Cardinality(Snapshots)
  BY <1>2, SnapshotsFinite, FS_Subset
<1>. QED
  BY <1>1, <1>2, <1>3, <1>4, FS_CardinalityType

LEMMA RankProperties ==
    ASSUME NEW st \in SUBSET Snapshots, NEW key, NEW s \in PassingIn(key, st)
    PROVE  /\ RankIn(key, st, s) \in Nat /\ RankIn(key, st, s) >= 1
           /\ RankIn(key, st, s) <= Cardinality(PassingIn(key, st))
<1>1. PICK P : P = PassingIn(key, st)
  OBVIOUS
<1>2. P \subseteq Nat /\ IsFiniteSet(P)
  BY <1>1, PassingFinite, SnapshotsFinite
<1>3. PICK Q : Q = {r \in P : r >= s}
  OBVIOUS
<1>4. s \in Q /\ Q \subseteq P
  BY <1>1, <1>2, <1>3
<1>5. IsFiniteSet(Q)
  BY <1>2, <1>4, FS_Subset
<1>6. Cardinality(Q) <= Cardinality(P)
  BY <1>2, <1>4, FS_Subset
<1>7. Cardinality(Q) \in Nat /\ Cardinality(Q) # 0
  BY <1>4, <1>5, FS_CardinalityType, FS_EmptySet
<1>8. RankIn(key, st, s) = Cardinality(Q)
  BY <1>1, <1>3 DEF RankIn
<1>. QED
  BY <1>1, <1>6, <1>7, <1>8

(* Snapshots have ranks of their own, ...                                  *)
LEMMA RankDistinct ==
    ASSUME NEW st \in SUBSET Snapshots, NEW key,
           NEW s \in PassingIn(key, st), NEW r \in PassingIn(key, st), s < r
    PROVE  RankIn(key, st, r) < RankIn(key, st, s)
<1>1. PICK P : P = PassingIn(key, st)
  OBVIOUS
<1>2. P \subseteq Nat /\ IsFiniteSet(P)
  BY <1>1, PassingFinite, SnapshotsFinite
<1>3. PICK Q, R : Q = {x \in P : x >= s} /\ R = {x \in P : x >= r}
  OBVIOUS
<1>4. s \in Nat /\ r \in Nat /\ s \in Q /\ s \notin R
  BY <1>1, <1>2, <1>3
<1>5. \A x \in P : x >= r => x >= s
  BY <1>2, <1>4
<1>6. R \subseteq Q /\ R # Q
  BY <1>3, <1>4, <1>5
<1>7. IsFiniteSet(Q)
  BY <1>2, <1>3, FS_Subset
<1>8. Cardinality(R) < Cardinality(Q)
  BY <1>6, <1>7, ProperSubsetIsSmaller
<1>. QED
  BY <1>1, <1>3, <1>8 DEF RankIn

(* ... so that a page has no more rows than its limit.                     *)
RowsIn(key, st) == {s \in PassingIn(key, st) : RankIn(key, st, s) \in key.offset + 1 .. key.offset + Limit}

LEMMA RowsProperties ==
    ASSUME NEW st \in SUBSET Snapshots, NEW key \in Keys
    PROVE  /\ RowsIn(key, st) \subseteq Snapshots
           /\ Cardinality(RowsIn(key, st)) \in Nat /\ Cardinality(RowsIn(key, st)) <= Limit
<1>1. PICK R : R = RowsIn(key, st)
  OBVIOUS
<1>2. PICK o \in Nat : o = key.offset
  BY HistoryAssumption DEF Keys, Offsets
<1>3. R \subseteq PassingIn(key, st) /\ R \subseteq Snapshots /\ R \subseteq Nat
  BY <1>1, PassingFinite, SnapshotsFinite DEF RowsIn
<1>4. PICK a \in Nat, b \in Nat : a = o + 1 /\ b = o + Limit
  BY HistoryAssumption
<1>5. IsFiniteSet(a..b) /\ Cardinality(a..b) = Limit
  <2>1. IsFiniteSet(a..b) /\ Cardinality(a..b) = IF a > b THEN 0 ELSE b - a + 1
    BY FS_Interval
  <2>2. (IF a > b THEN 0 ELSE b - a + 1) = Limit
    BY <1>4, HistoryAssumption
  <2>. QED
    BY <2>1, <2>2
<1>6. PICK f : f = [s \in R |-> RankIn(key, st, s)]
  OBVIOUS
<1>7. f \in [R -> a..b]
  BY <1>1, <1>2, <1>4, <1>6 DEF RowsIn
<1>8. ASSUME NEW s \in R, NEW r \in R, f[s] = f[r] PROVE s = r
  <2>1. f[s] = RankIn(key, st, s) /\ f[r] = RankIn(key, st, r) /\ f[s] \in Nat
    BY <1>3, <1>6, RankProperties
  <2>2. s < r => f[r] < f[s]
    BY <1>3, <2>1, RankDistinct
  <2>3. r < s => f[s] < f[r]
    BY <1>3, <2>1, RankDistinct
  <2>4. s \in Nat /\ r \in Nat
    BY <1>3
  <2>. QED
    BY <1>8, <2>1, <2>2, <2>3, <2>4
<1>9. f \in Injection(R, a..b)
  BY <1>7, <1>8 DEF Injection, IsInjective
<1>10. IsFiniteSet(R) /\ Cardinality(R) <= Cardinality(a..b)
  BY <1>5, <1>9, FS_Injection
<1>. QED
  BY <1>1, <1>3, <1>5, <1>10, FS_CardinalityType

(* What the server does to its snapshots: old ones stay ahead of what goes.*)
OnlyOlderGo(st, st2) ==
    \A s \in st2 : s <= Initial => s \in st /\ \A r \in st : r >= s => r \in st2

LEMMA RanksOnlyGrow ==
    ASSUME NEW st \in SUBSET Snapshots, NEW st2 \in SUBSET Snapshots, OnlyOlderGo(st, st2),
           NEW key, NEW s \in PassingIn(key, st2), s <= Initial
    PROVE  s \in PassingIn(key, st) /\ RankIn(key, st, s) <= RankIn(key, st2, s)
<1>1. s \in PassingIn(key, st)
  BY DEF PassingIn, OnlyOlderGo
<1>2. PICK Q, R : /\ Q = {r \in PassingIn(key, st) : r >= s}
                  /\ R = {r \in PassingIn(key, st2) : r >= s}
  OBVIOUS
<1>3. Q \subseteq R
  BY <1>2 DEF PassingIn, OnlyOlderGo
<1>4. IsFiniteSet(R)
  BY <1>2, PassingFinite, FS_Subset
<1>5. Cardinality(Q) <= Cardinality(R)
  BY <1>3, <1>4, FS_Subset
<1>. QED
  BY <1>1, <1>2, <1>5 DEF RankIn

(* What was shown of the earlier pages remains true, whatever the server   *)
(* does and whatever else is shown, and so does what an answer holds.      *)
LEMMA EarlierStays ==
    ASSUME NEW st \in SUBSET Snapshots, NEW st2 \in SUBSET Snapshots, OnlyOlderGo(st, st2),
           NEW sn, NEW sn2, sn \subseteq sn2, NEW key \in Keys, EarlierShown(key, st, sn)
    PROVE  EarlierShown(key, st2, sn2)
<1> SUFFICES ASSUME NEW s \in PassingIn(key, st2), s <= Initial, RankIn(key, st2, s) <= key.offset
             PROVE  s \in sn2
  BY DEF EarlierShown
<1>1. s \in PassingIn(key, st) /\ RankIn(key, st, s) <= RankIn(key, st2, s)
  BY RanksOnlyGrow
<1>2. RankIn(key, st, s) \in Nat /\ RankIn(key, st2, s) \in Nat
  BY <1>1, RankProperties
<1>3. key.offset \in Nat
  BY HistoryAssumption DEF Keys, Offsets
<1>4. RankIn(key, st, s) <= key.offset
  BY <1>1, <1>2, <1>3
<1>. QED
  BY <1>1, <1>4 DEF EarlierShown

LEMMA FaithfulStays ==
    ASSUME NEW st \in SUBSET Snapshots, NEW st2 \in SUBSET Snapshots, OnlyOlderGo(st, st2),
           NEW sn, NEW sn2, sn \subseteq sn2, NEW key \in Keys, NEW a, FaithfulAnswer(key, a, st, sn)
    PROVE  FaithfulAnswer(key, a, st2, sn2)
<1>1. \A s \in a.items : Passes(key, s)
  BY DEF FaithfulAnswer
<1>2. ASSUME NEW s \in PassingIn(key, st2), s <= Initial
      PROVE  \/ s \in sn2 \/ s \in a.items
             \/ RankIn(key, st2, s) > key.offset + Limit /\ (a.more \/ ~a.exact)
  <2>1. s \in PassingIn(key, st) /\ RankIn(key, st, s) <= RankIn(key, st2, s)
    BY <1>2, RanksOnlyGrow
  <2>2. RankIn(key, st, s) \in Nat /\ RankIn(key, st2, s) \in Nat
    BY <2>1, RankProperties
  <2>3. key.offset \in Nat /\ Limit \in Nat
    BY HistoryAssumption DEF Keys, Offsets
  <2>4. RankIn(key, st, s) > key.offset + Limit => RankIn(key, st2, s) > key.offset + Limit
    BY <2>1, <2>2, <2>3
  <2>5. \/ s \in sn \/ s \in a.items
        \/ RankIn(key, st, s) > key.offset + Limit /\ (a.more \/ ~a.exact)
    BY <1>2, <2>1 DEF FaithfulAnswer
  <2>. QED
    BY <2>4, <2>5
<1>. QED
  BY <1>1, <1>2 DEF FaithfulAnswer

(* The first page has none before it; an earlier page has no more before   *)
(* it than a later one.                                                    *)
LEMMA FirstPage ==
    ASSUME NEW st \in SUBSET Snapshots, NEW sn, NEW key, key.offset = 0
    PROVE  EarlierShown(key, st, sn)
<1>1. \A s \in PassingIn(key, st) : ~(RankIn(key, st, s) <= 0)
  BY RankProperties
<1>. QED
  BY <1>1 DEF EarlierShown

LEMMA PassingAnyPage ==
    ASSUME NEW key, NEW key2, key.site = key2.site, key.node = key2.node, NEW st
    PROVE  /\ PassingIn(key, st) = PassingIn(key2, st)
           /\ \A s : RankIn(key, st, s) = RankIn(key2, st, s)
BY DEF PassingIn, Passes, RankIn

LEMMA EarlierPage ==
    ASSUME NEW st \in SUBSET Snapshots, NEW sn, NEW key \in Keys, EarlierShown(key, st, sn),
           NEW key2 \in Keys, key.site = key2.site, key.node = key2.node, key2.offset <= key.offset
    PROVE  EarlierShown(key2, st, sn)
<1>1. /\ PassingIn(key, st) = PassingIn(key2, st)
      /\ \A s : RankIn(key, st, s) = RankIn(key2, st, s)
  BY PassingAnyPage
<1>2. key.offset \in Nat /\ key2.offset \in Nat
  BY HistoryAssumption DEF Keys, Offsets
<1>3. \A s \in PassingIn(key, st) : RankIn(key, st, s) \in Nat
  BY RankProperties
<1>4. \A s \in PassingIn(key, st) :
         RankIn(key, st, s) <= key2.offset => RankIn(key, st, s) <= key.offset
  BY <1>2, <1>3
<1>. QED
  BY <1>1, <1>4 DEF EarlierShown

(* The page after one whose answer is faithful and was shown.              *)
LEMMA NextPage ==
    ASSUME NEW st \in SUBSET Snapshots, NEW sn, NEW key \in Keys,
           NEW a, FaithfulAnswer(key, a, st, sn), a.items \subseteq sn,
           NEW key2 \in Keys, key.site = key2.site, key.node = key2.node,
           key2.offset = key.offset + Limit
    PROVE  EarlierShown(key2, st, sn)
<1>1. /\ PassingIn(key, st) = PassingIn(key2, st)
      /\ \A s : RankIn(key, st, s) = RankIn(key2, st, s)
  BY PassingAnyPage
<1>2. key.offset \in Nat /\ Limit \in Nat
  BY HistoryAssumption DEF Keys, Offsets
<1>3. \A s \in PassingIn(key, st) : RankIn(key, st, s) \in Nat
  BY RankProperties
<1>4. ASSUME NEW s \in PassingIn(key, st), s <= Initial, RankIn(key, st, s) <= key.offset + Limit
      PROVE  s \in sn
  <2>1. ~(RankIn(key, st, s) > key.offset + Limit)
    BY <1>2, <1>3, <1>4
  <2>. QED
    BY <1>4, <2>1 DEF FaithfulAnswer
<1>. QED
  BY <1>1, <1>4 DEF EarlierShown

(* The answer the server makes of its snapshots and of the count: if both  *)
(* are of the same snapshots and there is no next page, the rows reach the *)
(* last of them.                                                           *)
LEMMA AnswerIsFaithful ==
    ASSUME NEW st \in SUBSET Snapshots, NEW sn, NEW key \in Keys, EarlierShown(key, st, sn),
           NEW f, FreshCount(key, f, st), f.counted, f.total \in Nat,
           NEW a, a.items = RowsIn(key, st), a.exact = f.exact,
           a.more = (key.offset + Cardinality(RowsIn(key, st)) < f.total)
    PROVE  FaithfulAnswer(key, a, st, sn)
<1>1. PICK o \in Nat, L \in Nat : o = key.offset /\ L = Limit
  BY HistoryAssumption DEF Keys, Offsets
<1>2. PICK c \in Nat : c = Cardinality(RowsIn(key, st)) /\ c <= L
  BY <1>1, RowsProperties
<1>3. \A s \in a.items : Passes(key, s)
  BY DEF RowsIn, PassingIn
<1>4. ASSUME NEW s \in PassingIn(key, st), s <= Initial
      PROVE  \/ s \in sn \/ s \in a.items
             \/ RankIn(key, st, s) > key.offset + Limit /\ (a.more \/ ~a.exact)
  <2>1. PICK r \in Nat : r = RankIn(key, st, s) /\ r <= Cardinality(PassingIn(key, st))
    BY RankProperties
  <2>2. CASE r <= o
    BY <1>1, <1>4, <2>1, <2>2 DEF EarlierShown
  <2>3. CASE r > o /\ r <= o + L
    <3>1. r \in key.offset + 1 .. key.offset + Limit
      BY <1>1, <2>3
    <3>. QED
      BY <2>1, <3>1 DEF RowsIn
  <2>4. CASE r > o + L
    <3>1. CASE ~a.exact
      BY <1>1, <2>1, <2>4, <3>1
    <3>2. CASE a.exact
      <4>1. f.total = Cardinality(PassingIn(key, st))
        BY <3>2 DEF FreshCount
      <4>2. PICK t \in Nat : t = f.total
        OBVIOUS
      <4>3. r <= t
        BY <2>1, <4>1, <4>2
      <4>4. o + c < t
        BY <1>2, <2>4, <4>3
      <4>5. a.more
        BY <1>1, <1>2, <4>2, <4>4
      <4>. QED
        BY <1>1, <2>1, <2>4, <4>5
    <3>. QED
      BY <3>1, <3>2
  <2>. QED
    BY <2>2, <2>3, <2>4
<1>. QED
  BY <1>3, <1>4 DEF FaithfulAnswer

(* The inductive invariant: of every key that is asked for or answered,    *)
(* and of the one on the page, the earlier pages were shown; answers are   *)
(* faithful and counts fresh; a page in the history view has an answer, a  *)
(* fetch or an error, and its answer was shown.                            *)
WalkInv ==
    /\ HistoryTypeOK /\ Initial <= newest
    /\ \A k \in DOMAIN cache \cup DOMAIN fetches : EarlierShown(k, stored, seen)
    /\ EarlierShown(Key, stored, seen)
    /\ \A k \in DOMAIN cache : FaithfulAnswer(k, cache[k], stored, seen)
    /\ \A k \in DOMAIN fetches : FreshCount(k, fetches[k], stored)
    /\ viewMode = "history" => Key \in DOMAIN cache \cup DOMAIN fetches \cup failed
    /\ viewMode = "history" /\ Key \in DOMAIN cache /\ Key \notin failed => cache[Key].items \subseteq seen

LEMMA KeyType ==
    ASSUME HistoryTypeOK
    PROVE  Key \in Keys
BY DEF HistoryTypeOK, Key, QueryKey, Keys

LEMMA WalkImplies == WalkInv => HistoryInv
<1> SUFFICES ASSUME WalkInv PROVE HistoryInv
  OBVIOUS
<1>1. HistoryTypeOK
  BY DEF WalkInv
<1>2. RowsFitFilters
  <2> SUFFICES ASSUME Idle, NEW s \in Shown.items
               PROVE  siteId \in {All, SiteOf[Owner[s]]} /\ nodeId \in {All, Owner[s]}
    BY DEF RowsFitFilters
  <2>1. PICK k : k = Key
    OBVIOUS
  <2>2. k \in DOMAIN cache /\ s \in cache[k].items
    BY <2>1 DEF Idle, Shown
  <2>3. Passes(k, s)
    BY <2>2 DEF WalkInv, FaithfulAnswer
  <2>4. k.site = siteId /\ k.node = nodeId
    BY <2>1 DEF Key, QueryKey
  <2>. QED
    BY <2>3, <2>4 DEF Passes
<1>3. NextSkipsNothing
  <2>1. PICK k, z : k = Key /\ z = [site |-> siteId, node |-> nodeId, offset |-> 0]
    OBVIOUS
  <2> SUFFICES ASSUME Idle, ~cache[Key].more, cache[Key].exact,
                      NEW s \in Matching(z), s <= Initial
               PROVE  s \in seen
    BY <2>1 DEF NextSkipsNothing
  <2>2. k.site = z.site /\ k.node = z.node
    BY <2>1 DEF Key, QueryKey
  <2>3. s \in PassingIn(k, stored)
    BY <2>2, MatchingIsPassing, PassingAnyPage
  <2>4. k \in DOMAIN cache /\ cache[k].items \subseteq seen /\ ~cache[k].more /\ cache[k].exact
    BY <2>1 DEF Idle, IsError, WalkInv
  <2>5. s \in seen \/ s \in cache[k].items
    BY <2>3, <2>4 DEF WalkInv, FaithfulAnswer
  <2>. QED
    BY <2>4, <2>5
<1>. QED
  BY <1>1, <1>2, <1>3 DEF HistoryInv

LEMMA WalkInit == HistoryInit => WalkInv
<1> SUFFICES ASSUME HistoryInit PROVE WalkInv
  OBVIOUS
<1>1. DOMAIN cache = {} /\ DOMAIN fetches = {}
  BY DEF HistoryInit
<1>2. 0 \in Offsets
  BY HistoryAssumption DEF Offsets
<1>3. stored \subseteq Snapshots /\ newest \in Snapshots /\ Initial <= newest
  <2>1. Snapshots = 1..Len(Owner) /\ Len(Owner) \in Nat /\ Initial \in 1..Len(Owner)
    BY HistoryAssumption DEF Snapshots
  <2>. QED
    BY <2>1 DEF HistoryInit
<1>4. HistoryTypeOK
  BY <1>1, <1>2, <1>3, HistoryAssumption DEF HistoryInit, HistoryTypeOK
<1>5. EarlierShown(Key, stored, seen)
  <2>1. PICK k, st, sn : k = Key /\ st = stored /\ sn = seen
    OBVIOUS
  <2>2. k.offset = 0
    BY <2>1 DEF HistoryInit, Key, QueryKey
  <2>3. EarlierShown(k, st, sn)
    BY <1>3, <2>1, <2>2, FirstPage
  <2>. QED
    BY <2>1, <2>3
<1>. QED
  BY <1>1, <1>3, <1>4, <1>5 DEF HistoryInit, WalkInv

(* Every step renders the page and keeps the invariant, when it comes to a *)
(* key whose earlier pages were shown, with answers that are faithful and  *)
(* counts that are fresh, and the server lost none but older snapshots.    *)
LEMMA StepKeeps ==
    ASSUME WalkInv, Render, NEW key \in Keys, key = Key', EarlierShown(key, stored, seen),
           viewMode' \in {"live", "history"},
           siteId' \in SitesOfNodes \cup {All}, nodeId' \in Nodes \cup {All}, historyOffset' \in Offsets,
           DOMAIN cache' \subseteq Keys, DOMAIN cache \subseteq DOMAIN cache',
           failed' \subseteq Keys, DOMAIN fetches' \subseteq Keys,
           stored' \subseteq Snapshots, newest' \in Snapshots, Initial <= newest',
           moves' \in 0..MaxMoves,
           OnlyOlderGo(stored, stored'),
           \A k \in DOMAIN cache' :
              /\ cache'[k] \in PageAnswers
              /\ EarlierShown(k, stored, seen) /\ FaithfulAnswer(k, cache'[k], stored, seen),
           \A k \in DOMAIN fetches' :
              /\ fetches'[k] \in Fetches
              /\ EarlierShown(k, stored, seen) /\ FreshCount(k, fetches'[k], stored'),
           viewMode' = "history" => key \in DOMAIN cache' \cup DOMAIN fetches' \cup failed'
    PROVE  WalkInv'
<1>1. /\ lastKey' = IF key \in DOMAIN cache' THEN key ELSE lastKey
      /\ seen' = IF viewMode' = "history" /\ key \in DOMAIN cache' /\ key \notin failed'
                   THEN seen \cup cache'[key].items ELSE seen
  BY DEF Render, IsError
<1>2. PICK st, st2, sn, sn2 : st = stored /\ st2 = stored' /\ sn = seen /\ sn2 = seen'
  OBVIOUS
<1>3. st \in SUBSET Snapshots /\ st2 \in SUBSET Snapshots /\ OnlyOlderGo(st, st2) /\ sn \subseteq sn2
  BY <1>1, <1>2 DEF WalkInv, HistoryTypeOK
<1>4. HistoryTypeOK'
  <2>1. lastKey' \in DOMAIN cache' \cup {NoKey}
    BY <1>1 DEF WalkInv, HistoryTypeOK
  <2>2. seen' \subseteq Snapshots
    <3>1. seen \subseteq Snapshots
      BY DEF WalkInv, HistoryTypeOK
    <3>2. key \in DOMAIN cache' => cache'[key].items \subseteq Snapshots
      BY DEF PageAnswers
    <3>. QED
      BY <1>1, <3>1, <3>2
  <2>. QED
    BY <2>1, <2>2 DEF HistoryTypeOK
<1>5. \A k \in Keys : EarlierShown(k, st, sn) => EarlierShown(k, st2, sn2)
  BY <1>3, EarlierStays
<1>6. \A k \in Keys : \A a : FaithfulAnswer(k, a, st, sn) => FaithfulAnswer(k, a, st2, sn2)
  BY <1>3, FaithfulStays
<1>7. \A k \in DOMAIN cache' \cup DOMAIN fetches' : EarlierShown(k, stored', seen')
  BY <1>2, <1>5
<1>8. EarlierShown(Key, stored, seen)'
  BY <1>2, <1>5
<1>9. \A k \in DOMAIN cache' : FaithfulAnswer(k, cache'[k], stored', seen')
  BY <1>2, <1>6
<1>10. viewMode' = "history" /\ key \in DOMAIN cache' /\ key \notin failed' => cache'[key].items \subseteq seen'
  BY <1>1
<1>. QED
  BY <1>4, <1>7, <1>8, <1>9, <1>10 DEF WalkInv

(* A step of the page: the server does nothing, and the key it comes to is *)
(* fetched, or not fetched because it has an answer or the view is live.   *)
LEMMA QueryKeeps ==
    ASSUME WalkInv, Render, UNCHANGED serverVars,
           NEW key \in Keys, key = Key', EarlierShown(key, stored, seen),
           viewMode' \in {"live", "history"},
           siteId' \in SitesOfNodes \cup {All}, nodeId' \in Nodes \cup {All}, historyOffset' \in Offsets,
           moves' \in 0..MaxMoves,
           \/ StartFetch(key)
           \/ UNCHANGED queryVars /\ (viewMode' = "history" => key \in DOMAIN cache)
    PROVE  WalkInv'
<1>1. /\ DOMAIN cache \subseteq Keys /\ DOMAIN fetches \subseteq Keys /\ failed \subseteq Keys
      /\ stored \subseteq Snapshots /\ newest \in Snapshots
      /\ \A k \in DOMAIN cache : cache[k] \in PageAnswers
      /\ \A k \in DOMAIN fetches : fetches[k] \in Fetches
  BY DEF WalkInv, HistoryTypeOK
<1>2. stored' = stored /\ newest' = newest /\ OnlyOlderGo(stored, stored') /\ Initial <= newest'
  BY DEF serverVars, OnlyOlderGo, WalkInv
<1>3. cache' = cache
  BY DEF StartFetch, queryVars
<1>4. failed' \subseteq failed
  BY DEF StartFetch, queryVars
<1>5. \/ fetches' = fetches /\ (viewMode' = "history" => key \in DOMAIN cache' \cup DOMAIN fetches')
      \/ fetches' = Put(fetches, key, Begun)
  BY <1>3 DEF StartFetch, queryVars
<1>6. /\ DOMAIN fetches' \subseteq Keys
      /\ viewMode' = "history" => key \in DOMAIN cache' \cup DOMAIN fetches' \cup failed'
      /\ \A k \in DOMAIN fetches' :
              /\ fetches'[k] \in Fetches
              /\ EarlierShown(k, stored, seen) /\ FreshCount(k, fetches'[k], stored')
  <2>1. CASE fetches' = fetches /\ (viewMode' = "history" => key \in DOMAIN cache' \cup DOMAIN fetches')
    BY <1>1, <1>2, <2>1 DEF WalkInv
  <2>2. CASE fetches' = Put(fetches, key, Begun)
    <3>1. /\ DOMAIN fetches' = DOMAIN fetches \cup {key}
          /\ \A k \in DOMAIN fetches' : fetches'[k] = IF k = key THEN Begun ELSE fetches[k]
      BY <2>2 DEF Put
    <3>2. Begun \in Fetches
      <4>1. 0 \in 0..Cardinality(Snapshots)
        BY SnapshotsFinite
      <4>. QED
        BY <4>1 DEF Begun, Fetches
    <3>3. FreshCount(key, Begun, stored)
      BY DEF FreshCount, Begun
    <3>4. \A k \in DOMAIN fetches : EarlierShown(k, stored, seen) /\ FreshCount(k, fetches[k], stored)
      BY DEF WalkInv
    <3>. QED
      BY <1>1, <1>2, <3>1, <3>2, <3>3, <3>4
  <2>. QED
    BY <1>5, <2>1, <2>2
<1>7. \A k \in DOMAIN cache' :
              /\ cache'[k] \in PageAnswers
              /\ EarlierShown(k, stored, seen) /\ FaithfulAnswer(k, cache'[k], stored, seen)
  BY <1>1, <1>3 DEF WalkInv
<1>8. failed' \subseteq Keys /\ DOMAIN cache' \subseteq Keys /\ DOMAIN cache \subseteq DOMAIN cache'
  BY <1>1, <1>3, <1>4
<1>. QED
  BY <1>1, <1>2, <1>6, <1>7, <1>8, StepKeeps

LEMMA MovedKeeps ==
    ASSUME WalkInv, NEW mode \in {"live", "history"}, NEW site \in SitesOfNodes \cup {All},
           NEW node \in Nodes \cup {All}, NEW offset \in Offsets,
           EarlierShown(QueryKey(site, node, offset), stored, seen),
           Moved(mode, site, node, offset)
    PROVE  WalkInv'
<1>1. PICK key : key = QueryKey(site, node, offset)
  OBVIOUS
<1>2. /\ viewMode' = mode /\ siteId' = site /\ nodeId' = node /\ historyOffset' = offset
      /\ moves < MaxMoves /\ moves' = moves + 1
      /\ Observe(key, mode = "history") /\ UNCHANGED serverVars /\ Render
  BY <1>1 DEF Moved
<1>3. key \in Keys /\ key = Key'
  BY <1>1, <1>2 DEF Key, QueryKey, Keys
<1>4. moves' \in 0..MaxMoves
  BY <1>2, HistoryAssumption DEF WalkInv, HistoryTypeOK
<1>5. \/ StartFetch(key)
      \/ UNCHANGED queryVars /\ (viewMode' = "history" => key \in DOMAIN cache)
  BY <1>2 DEF Observe
<1>6. EarlierShown(key, stored, seen)
  BY <1>1
<1>. QED
  BY <1>2, <1>3, <1>4, <1>5, <1>6, QueryKeeps

(* A step of the server or of a fetch, under the key the page is on.       *)
LEMMA FetchKeeps ==
    ASSUME WalkInv, Render, UNCHANGED <<pageVars, moves>>,
           DOMAIN cache' \subseteq Keys, DOMAIN cache \subseteq DOMAIN cache',
           failed' \subseteq Keys, DOMAIN fetches' \subseteq Keys,
           stored' \subseteq Snapshots, newest' \in Snapshots, Initial <= newest',
           OnlyOlderGo(stored, stored'),
           \A k \in DOMAIN cache' :
              /\ cache'[k] \in PageAnswers
              /\ EarlierShown(k, stored, seen) /\ FaithfulAnswer(k, cache'[k], stored, seen),
           \A k \in DOMAIN fetches' :
              /\ fetches'[k] \in Fetches
              /\ EarlierShown(k, stored, seen) /\ FreshCount(k, fetches'[k], stored'),
           DOMAIN cache \cup DOMAIN fetches \cup failed \subseteq DOMAIN cache' \cup DOMAIN fetches' \cup failed'
    PROVE  WalkInv'
<1>1. PICK key : key = Key
  OBVIOUS
<1>2. key \in Keys
  BY <1>1, KeyType DEF WalkInv
<1>3. key = Key' /\ viewMode' = viewMode
  BY <1>1 DEF Key, pageVars
<1>4. EarlierShown(key, stored, seen)
  BY <1>1 DEF WalkInv
<1>5. /\ viewMode' \in {"live", "history"} /\ moves' \in 0..MaxMoves
      /\ siteId' \in SitesOfNodes \cup {All} /\ nodeId' \in Nodes \cup {All} /\ historyOffset' \in Offsets
  BY DEF WalkInv, HistoryTypeOK, pageVars
<1>6. viewMode' = "history" => key \in DOMAIN cache' \cup DOMAIN fetches' \cup failed'
  BY <1>1, <1>3 DEF WalkInv
<1>. QED
  BY <1>2, <1>3, <1>4, <1>5, <1>6, StepKeeps

(* After a snapshot came or went no count is fresh but those to come.      *)
LEMMA TornIsFresh ==
    ASSUME WalkInv, NEW k \in DOMAIN fetches, NEW st
    PROVE  Torn[k] \in Fetches /\ FreshCount(k, Torn[k], st)
<1>1. PICK f : f = fetches[k]
  OBVIOUS
<1>2. f \in Fetches
  BY <1>1 DEF WalkInv, HistoryTypeOK
<1>3. Torn[k] = [f EXCEPT !.exact = ~f.counted]
  BY <1>1 DEF Torn
<1>4. [f EXCEPT !.exact = ~f.counted] \in Fetches /\ FreshCount(k, [f EXCEPT !.exact = ~f.counted], st)
  BY <1>2 DEF Fetches, FreshCount
<1>. QED
  BY <1>3, <1>4

LEMMA ServerKeeps ==
    ASSUME WalkInv, Render, UNCHANGED <<pageVars, cache, failed, moves>>, fetches' = Torn,
           stored' \subseteq Snapshots, newest' \in Snapshots, Initial <= newest',
           OnlyOlderGo(stored, stored')
    PROVE  WalkInv'
<1>1. /\ DOMAIN cache \subseteq Keys /\ DOMAIN fetches \subseteq Keys /\ failed \subseteq Keys
      /\ \A k \in DOMAIN cache : cache[k] \in PageAnswers
  BY DEF WalkInv, HistoryTypeOK
<1>2. DOMAIN fetches' = DOMAIN fetches
  BY DEF Torn
<1>3. \A k \in DOMAIN fetches' : fetches'[k] \in Fetches /\ FreshCount(k, fetches'[k], stored')
  <2>1. PICK st : st = stored'
    OBVIOUS
  <2>2. \A k \in DOMAIN fetches : Torn[k] \in Fetches /\ FreshCount(k, Torn[k], st)
    BY TornIsFresh
  <2>. QED
    BY <1>2, <2>1, <2>2
<1>4. \A k \in DOMAIN cache' :
              /\ cache'[k] \in PageAnswers
              /\ EarlierShown(k, stored, seen) /\ FaithfulAnswer(k, cache'[k], stored, seen)
  BY <1>1 DEF WalkInv
<1>5. \A k \in DOMAIN fetches' : EarlierShown(k, stored, seen)
  BY <1>2 DEF WalkInv
<1>. QED
  BY <1>1, <1>2, <1>3, <1>4, <1>5, FetchKeeps

LEMMA CountKeeps ==
    ASSUME WalkInv, NEW key \in DOMAIN fetches, Count(key)
    PROVE  WalkInv'
<1>1. /\ DOMAIN cache \subseteq Keys /\ DOMAIN fetches \subseteq Keys /\ failed \subseteq Keys
      /\ stored \subseteq Snapshots /\ newest \in Snapshots
      /\ \A k \in DOMAIN cache : cache[k] \in PageAnswers
      /\ \A k \in DOMAIN fetches : fetches[k] \in Fetches
  BY DEF WalkInv, HistoryTypeOK
<1>2. PICK f : f = [counted |-> TRUE, total |-> Cardinality(Matching(key)), exact |-> TRUE]
  OBVIOUS
<1>3. /\ fetches' = [fetches EXCEPT ![key] = f]
      /\ UNCHANGED <<pageVars, cache, failed, serverVars, moves>> /\ Render
  BY <1>2 DEF Count
<1>4. f \in Fetches /\ FreshCount(key, f, stored)
  <2>1. Matching(key) = PassingIn(key, stored)
    BY MatchingIsPassing
  <2>2. Cardinality(PassingIn(key, stored)) \in 0..Cardinality(Snapshots)
    <3>1. PICK st \in SUBSET Snapshots : st = stored
      BY <1>1
    <3>2. PICK c \in Nat : c = Cardinality(PassingIn(key, st)) /\ c <= Cardinality(Snapshots)
      BY PassingFinite
    <3>3. Cardinality(Snapshots) \in Nat
      BY SnapshotsFinite
    <3>. QED
      BY <3>1, <3>2, <3>3
  <2>. QED
    BY <1>2, <2>1, <2>2 DEF Fetches, FreshCount
<1>5. DOMAIN fetches' = DOMAIN fetches /\ \A k \in DOMAIN fetches : fetches'[k] = IF k = key THEN f ELSE fetches[k]
  BY <1>3
<1>6. stored' = stored /\ newest' = newest /\ cache' = cache /\ failed' = failed /\ OnlyOlderGo(stored, stored')
  BY <1>3 DEF serverVars, OnlyOlderGo
<1>7. \A k \in DOMAIN fetches' :
              /\ fetches'[k] \in Fetches
              /\ EarlierShown(k, stored, seen) /\ FreshCount(k, fetches'[k], stored')
  BY <1>1, <1>4, <1>5, <1>6 DEF WalkInv
<1>8. \A k \in DOMAIN cache' :
              /\ cache'[k] \in PageAnswers
              /\ EarlierShown(k, stored, seen) /\ FaithfulAnswer(k, cache'[k], stored, seen)
  BY <1>1, <1>6 DEF WalkInv
<1>9. Initial <= newest'
  BY <1>6 DEF WalkInv
<1>. QED
  BY <1>1, <1>3, <1>5, <1>6, <1>7, <1>8, <1>9, FetchKeeps

LEMMA AnswerKeeps ==
    ASSUME WalkInv, NEW key \in DOMAIN fetches, Answer(key)
    PROVE  WalkInv'
<1>1. /\ DOMAIN cache \subseteq Keys /\ DOMAIN fetches \subseteq Keys /\ failed \subseteq Keys
      /\ stored \subseteq Snapshots /\ newest \in Snapshots
      /\ \A k \in DOMAIN cache : cache[k] \in PageAnswers
      /\ \A k \in DOMAIN fetches : fetches[k] \in Fetches
  BY DEF WalkInv, HistoryTypeOK
<1>2. PICK f : f = fetches[key]
  OBVIOUS
<1>3. PICK a : a = [items |-> Rows(key), total |-> f.total, exact |-> f.exact,
                    more |-> key.offset + Cardinality(Rows(key)) < f.total]
  OBVIOUS
<1>4. /\ cache' = Put(cache, key, a) /\ failed' = failed \ {key} /\ fetches' = Drop(key)
      /\ UNCHANGED <<pageVars, serverVars, moves>> /\ Render /\ f.counted
  BY <1>2, <1>3 DEF Answer
<1>5. Rows(key) = RowsIn(key, stored)
  BY MatchingIsPassing DEF Rows, RowsIn
<1>6. key \in Keys /\ f \in Fetches /\ FreshCount(key, f, stored) /\ EarlierShown(key, stored, seen)
  BY <1>1, <1>2 DEF WalkInv
<1>7. f.total \in 0..Cardinality(Snapshots) /\ f.exact \in BOOLEAN /\ f.total \in Nat
  BY <1>6, SnapshotsFinite DEF Fetches
<1>8. a \in PageAnswers
  <2>1. Rows(key) \subseteq Snapshots
    BY <1>1, <1>5, <1>6, RowsProperties
  <2>. QED
    BY <1>3, <1>7, <2>1 DEF PageAnswers
<1>9. FaithfulAnswer(key, a, stored, seen)
  <2>1. PICK st \in SUBSET Snapshots, sn \in SUBSET Snapshots : st = stored /\ sn = seen
    BY <1>1 DEF WalkInv, HistoryTypeOK
  <2>2. /\ a.items = RowsIn(key, st) /\ a.exact = f.exact
        /\ a.more = (key.offset + Cardinality(RowsIn(key, st)) < f.total)
    BY <1>3, <1>5, <2>1
  <2>3. FreshCount(key, f, st) /\ EarlierShown(key, st, sn)
    BY <1>6, <2>1
  <2>4. FaithfulAnswer(key, a, st, sn)
    BY <1>4, <1>6, <1>7, <2>2, <2>3, AnswerIsFaithful
  <2>. QED
    BY <2>1, <2>4
<1>10. stored' = stored /\ newest' = newest /\ OnlyOlderGo(stored, stored')
  BY <1>4 DEF serverVars, OnlyOlderGo
<1>11. DOMAIN cache' = DOMAIN cache \cup {key} /\ \A k \in DOMAIN cache' : cache'[k] = IF k = key THEN a ELSE cache[k]
  BY <1>4 DEF Put
<1>12. DOMAIN fetches' = DOMAIN fetches \ {key} /\ \A k \in DOMAIN fetches' : fetches'[k] = fetches[k]
  BY <1>4 DEF Drop
<1>13. \A k \in DOMAIN cache' :
              /\ cache'[k] \in PageAnswers
              /\ EarlierShown(k, stored, seen) /\ FaithfulAnswer(k, cache'[k], stored, seen)
  BY <1>1, <1>6, <1>8, <1>9, <1>11 DEF WalkInv
<1>14. \A k \in DOMAIN fetches' :
              /\ fetches'[k] \in Fetches
              /\ EarlierShown(k, stored, seen) /\ FreshCount(k, fetches'[k], stored')
  BY <1>1, <1>10, <1>12 DEF WalkInv
<1>15. /\ DOMAIN cache' \subseteq Keys /\ DOMAIN cache \subseteq DOMAIN cache'
       /\ failed' \subseteq Keys /\ DOMAIN fetches' \subseteq Keys
       /\ DOMAIN cache \cup DOMAIN fetches \cup failed \subseteq DOMAIN cache' \cup DOMAIN fetches' \cup failed'
  BY <1>1, <1>4, <1>6, <1>11, <1>12
<1>16. Initial <= newest'
  BY <1>10 DEF WalkInv
<1>. QED
  BY <1>1, <1>4, <1>10, <1>13, <1>14, <1>15, <1>16, FetchKeeps

LEMMA FailKeeps ==
    ASSUME WalkInv, NEW key \in DOMAIN fetches, FetchFails(key)
    PROVE  WalkInv'
<1>1. /\ DOMAIN cache \subseteq Keys /\ DOMAIN fetches \subseteq Keys /\ failed \subseteq Keys
      /\ stored \subseteq Snapshots /\ newest \in Snapshots
      /\ \A k \in DOMAIN cache : cache[k] \in PageAnswers
      /\ \A k \in DOMAIN fetches : fetches[k] \in Fetches
  BY DEF WalkInv, HistoryTypeOK
<1>2. /\ failed' = failed \cup {key} /\ fetches' = Drop(key)
      /\ UNCHANGED <<pageVars, cache, serverVars, moves>> /\ Render
  BY DEF FetchFails
<1>3. DOMAIN fetches' = DOMAIN fetches \ {key} /\ \A k \in DOMAIN fetches' : fetches'[k] = fetches[k]
  BY <1>2 DEF Drop
<1>4. stored' = stored /\ newest' = newest /\ cache' = cache /\ OnlyOlderGo(stored, stored')
  BY <1>2 DEF serverVars, OnlyOlderGo
<1>5. \A k \in DOMAIN cache' :
              /\ cache'[k] \in PageAnswers
              /\ EarlierShown(k, stored, seen) /\ FaithfulAnswer(k, cache'[k], stored, seen)
  BY <1>1, <1>4 DEF WalkInv
<1>6. \A k \in DOMAIN fetches' :
              /\ fetches'[k] \in Fetches
              /\ EarlierShown(k, stored, seen) /\ FreshCount(k, fetches'[k], stored')
  BY <1>1, <1>3, <1>4 DEF WalkInv
<1>7. /\ DOMAIN cache' \subseteq Keys /\ DOMAIN cache \subseteq DOMAIN cache'
      /\ failed' \subseteq Keys /\ DOMAIN fetches' \subseteq Keys
      /\ DOMAIN cache \cup DOMAIN fetches \cup failed \subseteq DOMAIN cache' \cup DOMAIN fetches' \cup failed'
  BY <1>1, <1>2, <1>3, <1>4
<1>8. Initial <= newest'
  BY <1>4 DEF WalkInv
<1>. QED
  BY <1>1, <1>2, <1>4, <1>5, <1>6, <1>7, <1>8, FetchKeeps

LEMMA OffsetsArePages ==
    ASSUME NEW o \in Offsets
    PROVE  \E page \in Nat : o = page * Limit
<1>1. o \in Nat /\ \E page \in 0..o : o = page * Limit
  BY HistoryAssumption DEF Offsets
<1>2. PICK page \in 0..o : o = page * Limit
  BY <1>1
<1>3. page \in Nat
  BY <1>1
<1>. QED
  BY <1>2, <1>3

(* Every step keeps the invariant: the operator's come to keys whose       *)
(* earlier pages were shown, the server's lose older snapshots only.       *)
LEMMA WalkStep == WalkInv /\ [HistoryNext]_historyVars => WalkInv'
<1> SUFFICES ASSUME WalkInv, [HistoryNext]_historyVars PROVE WalkInv'
  OBVIOUS
<1>a. /\ viewMode \in {"live", "history"} /\ siteId \in SitesOfNodes \cup {All}
      /\ nodeId \in Nodes \cup {All} /\ historyOffset \in Offsets
      /\ stored \subseteq Snapshots /\ newest \in Snapshots /\ moves \in 0..MaxMoves
  BY DEF WalkInv, HistoryTypeOK
<1>b. PICK key \in Keys : key = Key
  BY KeyType DEF WalkInv
<1>c. key.site = siteId /\ key.node = nodeId /\ key.offset = historyOffset
  BY <1>b DEF Key, QueryKey
<1>d. PICK st \in SUBSET Snapshots, sn \in SUBSET Snapshots : st = stored /\ sn = seen
  BY <1>a DEF WalkInv, HistoryTypeOK
<1>e. EarlierShown(key, st, sn)
  BY <1>b, <1>d DEF WalkInv
<1>f. 0 \in Offsets
  BY HistoryAssumption DEF Offsets
<1>g. \A site, node, offset : /\ QueryKey(site, node, offset).site = site
                              /\ QueryKey(site, node, offset).node = node
                              /\ QueryKey(site, node, offset).offset = offset
  BY DEF QueryKey
<1>1. CASE UNCHANGED historyVars
  <2>1. UNCHANGED <<viewMode, siteId, nodeId, historyOffset, cache, failed, fetches, lastKey,
                    stored, newest, seen, moves>>
    BY <1>1 DEF historyVars, pageVars, queryVars, serverVars
  <2>2. Key' = Key
    BY <2>1 DEF Key
  <2>3. HistoryTypeOK'
    BY <2>1 DEF WalkInv, HistoryTypeOK
  <2>. QED
    BY <2>1, <2>2, <2>3 DEF WalkInv
<1>2. CASE changeView
  <2>1. PICK mode : mode = IF viewMode = "live" THEN "history" ELSE "live"
    OBVIOUS
  <2>2. Moved(mode, siteId, nodeId, historyOffset) /\ mode \in {"live", "history"}
    BY <1>2, <2>1 DEF changeView
  <2>3. PICK site \in SitesOfNodes \cup {All}, node \in Nodes \cup {All}, offset \in Offsets :
           site = siteId /\ node = nodeId /\ offset = historyOffset
    BY <1>a
  <2>4. EarlierShown(QueryKey(site, node, offset), stored, seen)
    BY <2>3 DEF WalkInv, Key
  <2>. QED
    BY <2>2, <2>3, <2>4, MovedKeeps
<1>3. ASSUME NEW site \in SitesOfNodes \cup {All}, changeSite(site) PROVE WalkInv'
  <2>1. Moved(viewMode, site, All, 0)
    BY <1>3 DEF changeSite
  <2>2. EarlierShown(QueryKey(site, All, 0), st, sn)
    BY <1>g, FirstPage
  <2>3. PICK mode \in {"live", "history"} : mode = viewMode
    BY <1>a
  <2>4. EarlierShown(QueryKey(site, All, 0), stored, seen)
    BY <1>d, <2>2
  <2>. QED
    BY <1>f, <2>1, <2>3, <2>4, MovedKeeps
<1>4. ASSUME NEW node \in Nodes \cup {All}, changeNode(node) PROVE WalkInv'
  <2>1. Moved(viewMode, siteId, node, 0)
    BY <1>4 DEF changeNode
  <2>2. PICK mode \in {"live", "history"}, site \in SitesOfNodes \cup {All} :
           mode = viewMode /\ site = siteId
    BY <1>a
  <2>3. EarlierShown(QueryKey(site, node, 0), st, sn)
    BY <1>g, FirstPage
  <2>4. EarlierShown(QueryKey(site, node, 0), stored, seen)
    BY <1>d, <2>3
  <2>. QED
    BY <1>f, <2>1, <2>2, <2>4, MovedKeeps
<1>5. CASE Previous
  <2>1. PICK mode \in {"live", "history"}, site \in SitesOfNodes \cup {All}, node \in Nodes \cup {All},
             old \in Offsets :
           mode = viewMode /\ site = siteId /\ node = nodeId /\ old = historyOffset
    BY <1>a
  <2>a. PICK offset : offset = Max({0, old - Limit})
    OBVIOUS
  <2>2. Moved(mode, site, node, offset) /\ old # 0
    BY <1>5, <2>1, <2>a DEF Previous
  <2>3. PICK page \in Nat : old = page * Limit
    BY <2>1, OffsetsArePages
  <2>4. Limit \in Nat \ {0} /\ MaxOffset \in Nat /\ old \in 0..MaxOffset
    BY HistoryAssumption DEF Offsets
  <2>5. page # 0
    BY <2>2, <2>3, <2>4
  <2>6. PICK p \in Nat : p = page - 1
    BY <2>5
  <2>7. page * Limit = p * Limit + Limit
    BY <2>4, <2>6
  <2>8. p * Limit \in Nat /\ p <= p * Limit
    BY <2>4
  <2>9. offset = p * Limit
    <3>1. old - Limit = p * Limit
      BY <2>3, <2>4, <2>7, <2>8
    <3>2. offset = CHOOSE x \in {0, p * Limit} : \A y \in {0, p * Limit} : x >= y
      BY <2>a, <3>1 DEF Max
    <3>3. PICK q \in Nat : q = p * Limit
      BY <2>8
    <3>4. /\ q \in {0, q} /\ \A y \in {0, q} : q >= y
          /\ \A x \in {0, q} : (\A y \in {0, q} : x >= y) => x = q
      OBVIOUS
    <3>5. offset = CHOOSE x \in {0, q} : \A y \in {0, q} : x >= y
      BY <3>2, <3>3
    <3>6. offset = q
      BY <3>4, <3>5
    <3>. QED
      BY <3>3, <3>6
  <2>10. offset \in Offsets /\ offset <= old
    BY <2>3, <2>4, <2>7, <2>8, <2>9 DEF Offsets
  <2>11. PICK key2 \in Keys : key2 = QueryKey(site, node, offset)
    BY <2>10 DEF QueryKey, Keys
  <2>12. EarlierShown(key2, st, sn)
    BY <1>c, <1>e, <1>g, <2>1, <2>10, <2>11, EarlierPage
  <2>13. EarlierShown(QueryKey(site, node, offset), stored, seen)
    BY <1>d, <2>11, <2>12
  <2>. QED
    BY <2>2, <2>10, <2>13, MovedKeeps
<1>6. CASE Forward
  <2>1. PICK mode \in {"live", "history"}, site \in SitesOfNodes \cup {All}, node \in Nodes \cup {All},
             old \in Offsets :
           mode = viewMode /\ site = siteId /\ node = nodeId /\ old = historyOffset
    BY <1>a
  <2>a. PICK offset : offset = old + Limit
    OBVIOUS
  <2>2. Moved(mode, site, node, offset) /\ offset <= MaxOffset
    BY <1>6, <2>1, <2>a DEF Forward
  <2>3. offset \in Offsets
    <3>1. PICK page \in Nat : old = page * Limit
      BY <2>1, OffsetsArePages
    <3>2. Limit \in Nat \ {0} /\ MaxOffset \in Nat /\ old \in 0..MaxOffset
      BY HistoryAssumption DEF Offsets
    <3>3. PICK p \in Nat : p = page + 1
      OBVIOUS
    <3>4. p * Limit = page * Limit + Limit
      BY <3>2, <3>3
    <3>5. offset = p * Limit /\ p \in 0..offset /\ offset \in 0..MaxOffset
      BY <2>2, <2>a, <3>1, <3>2, <3>3, <3>4
    <3>. QED
      BY <3>5 DEF Offsets
  <2>4. viewMode = "history" /\ key \notin DOMAIN fetches /\ key \notin failed
    BY <1>6, <1>b, <2>2 DEF Forward, Moved, IsFetching, IsError
  <2>5. key \in DOMAIN cache /\ cache[key].items \subseteq seen
    BY <1>b, <2>4 DEF WalkInv
  <2>6. PICK a : a = cache[key]
    OBVIOUS
  <2>7. FaithfulAnswer(key, a, st, sn) /\ a.items \subseteq sn
    BY <1>d, <2>5, <2>6 DEF WalkInv
  <2>8. PICK key2 \in Keys : key2 = QueryKey(site, node, offset)
    BY <2>3 DEF QueryKey, Keys
  <2>9. EarlierShown(key2, st, sn)
    BY <1>c, <1>g, <2>1, <2>7, <2>8, <2>a, NextPage
  <2>10. EarlierShown(QueryKey(site, node, offset), stored, seen)
    BY <1>d, <2>8, <2>9
  <2>. QED
    BY <2>2, <2>3, <2>10, MovedKeeps
<1>7. CASE PollHistory
  <2>1. StartFetch(Key) /\ UNCHANGED <<pageVars, serverVars, moves>> /\ Render
    BY <1>7 DEF PollHistory
  <2>2. key = Key'
    BY <1>b, <2>1 DEF Key, pageVars
  <2>3. StartFetch(key) /\ EarlierShown(key, stored, seen)
    BY <1>b, <1>d, <1>e, <2>1
  <2>4. /\ viewMode' \in {"live", "history"} /\ siteId' \in SitesOfNodes \cup {All}
        /\ nodeId' \in Nodes \cup {All} /\ historyOffset' \in Offsets /\ moves' \in 0..MaxMoves
    BY <1>a, <2>1 DEF pageVars
  <2>. QED
    BY <2>1, <2>2, <2>3, <2>4, QueryKeeps
<1>8. ASSUME NEW k \in DOMAIN fetches, Count(k) \/ Answer(k) \/ FetchFails(k) PROVE WalkInv'
  BY <1>8, CountKeeps, AnswerKeeps, FailKeeps
<1>9. CASE Arrive
  <2>1. /\ newest + 1 \in Snapshots /\ newest' = newest + 1 /\ stored' = stored \cup {newest + 1}
        /\ fetches' = Torn /\ UNCHANGED <<pageVars, cache, failed, moves>> /\ Render
    BY <1>9 DEF Arrive
  <2>2. newest \in Nat /\ Initial \in Nat /\ Initial <= newest
    BY <1>a, SnapshotsFinite DEF WalkInv
  <2>3. ~(newest + 1 <= Initial) /\ Initial <= newest + 1
    BY <2>2
  <2>4. OnlyOlderGo(stored, stored')
    BY <2>1, <2>3 DEF OnlyOlderGo
  <2>. QED
    BY <1>a, <2>1, <2>3, <2>4, ServerKeeps
<1>10. CASE Expire
  <2>1. PICK m : m = CHOOSE s \in st : \A r \in st : s <= r
    OBVIOUS
  <2>2. /\ Cardinality(stored) >= Initial /\ stored' = stored \ {m} /\ newest' = newest
        /\ fetches' = Torn /\ UNCHANGED <<pageVars, cache, failed, moves>> /\ Render
    BY <1>10, <1>d, <2>1 DEF Expire
  <2>3. st # {} /\ st \in SUBSET Nat
    <3>1. Initial >= 1 /\ Initial \in Nat /\ Cardinality({}) = 0
      BY SnapshotsFinite, FS_EmptySet
    <3>. QED
      BY <1>d, <2>2, <3>1, SnapshotsFinite
  <2>4. \E s \in st : \A r \in st : s <= r
    BY <2>3, HasSmallest
  <2>5. m \in st /\ \A r \in st : m <= r
    BY <2>1, <2>4
  <2>6. \A s \in st, r \in st : s # m /\ r >= s => r # m
    BY <2>3, <2>5
  <2>7. OnlyOlderGo(stored, stored')
    BY <1>d, <2>2, <2>6 DEF OnlyOlderGo
  <2>8. stored' \subseteq Snapshots /\ newest' \in Snapshots /\ Initial <= newest'
    BY <1>a, <2>2 DEF WalkInv
  <2>. QED
    BY <2>2, <2>7, <2>8, ServerKeeps
<1>. QED
  BY <1>1, <1>2, <1>3, <1>4, <1>5, <1>6, <1>7, <1>8, <1>9, <1>10 DEF HistoryNext

(* Whatever arrives and expires while the operator goes through the pages, *)
(* and whichever answers are cached, late or missing: where Next ends, no  *)
(* snapshot that was there all the time has been skipped, and the rows are *)
(* those of the filters (ConnectionsPage, list_connection_history).        *)
THEOREM HistorySkipsNothing == HistorySpec => []HistoryInv
BY WalkInit, WalkStep, WalkImplies, PTL DEF HistorySpec

-----------------------------------------------------------------------------
(* The overview.  A time lies in one cell only: buckets are numbers.       *)
LEMMA CountedTypes ==
    ASSUME NEW s \in Counted
    PROVE  s \in Snapshot /\ s.site = Here /\ s.at \in Nat /\ Bucket(s) \in Int
<1>1. s \in Snapshot /\ s.site = Here /\ s.at \in Nat
  <2>1. s \in Snapshot /\ s.site = Here /\ s.at >= 0
    BY DEF Counted
  <2>2. s.at \in Times \cup {-1}
    BY <2>1 DEF Snapshot
  <2>3. s.at \in Times => s.at \in Nat
    BY OverviewAssumption
  <2>4. s.at \in Nat
    BY <2>1, <2>2, <2>3
  <2>. QED
    BY <2>1, <2>4
<1>2. PICK q \in Int : q = s.at \div Minute
  BY <1>1, OverviewAssumption
<1>3. q * Minute \in Int
  BY OverviewAssumption
<1>. QED
  BY <1>1, <1>2, <1>3 DEF Bucket

(* What the loop has kept after the readings R: their latest, and every    *)
(* reading has one of its cell there that is not older.                    *)
Dominated(R) == \A q \in R : \E p \in Latest(R) : SameCell(p, q) /\ q.at <= p.at

LEMMA KeepIsLatest ==
    ASSUME NEW R \in SUBSET Counted, Dominated(R), NEW s \in Counted,
           \A q \in R : q.node = s.node => q.at # s.at
    PROVE  Keep(Latest(R), s) = Latest(R \cup {s}) /\ Dominated(R \cup {s})
<1>1. \A q \in R \cup {s} : q.at \in Nat
  BY CountedTypes
<1>2. PICK L : L = Latest(R)
  OBVIOUS
<1>3. /\ L \subseteq R /\ \A r \in R : r \in L <=> \A q \in R : SameCell(q, r) => q.at <= r.at
  BY <1>2 DEF Latest
<1>4. \A q \in R : \E p \in L : SameCell(p, q) /\ q.at <= p.at
  BY <1>2 DEF Dominated
<1>5. PICK M : M = Latest(R \cup {s})
  OBVIOUS
<1>6. \A r : r \in M <=> r \in R \cup {s} /\ \A q \in R \cup {s} : SameCell(q, r) => q.at <= r.at
  BY <1>5 DEF Latest
<1>7. /\ \A p, q : SameCell(p, q) => SameCell(q, p) /\ p.node = q.node
      /\ \A p : SameCell(p, p)
      /\ \A p, q, r : SameCell(p, q) /\ SameCell(q, r) => SameCell(p, r)
  BY DEF SameCell
<1>8. s.site = Here /\ ~(s.at < 0)
  BY CountedTypes
<1>9. Newer(L, s) <=> \A p \in L : SameCell(p, s) => s.at > p.at
  BY Zenon DEF Newer, SameCell
<1>10. CASE Newer(L, s)
  <2>1. Keep(L, s) = {p \in L : ~SameCell(p, s)} \cup {s}
    BY <1>8, <1>10 DEF Keep, SameCell
  <2>2. \A q \in R : SameCell(q, s) => q.at <= s.at
    <3> SUFFICES ASSUME NEW q \in R, SameCell(q, s) PROVE q.at <= s.at
      OBVIOUS
    <3>1. PICK p \in L : SameCell(p, q) /\ q.at <= p.at
      BY <1>4
    <3>2. SameCell(p, s)
      BY <1>7, <3>1
    <3>3. s.at > p.at
      BY <1>9, <1>10, <3>2
    <3>4. p.at \in Nat /\ q.at \in Nat /\ s.at \in Nat
      BY <1>1, <1>3
    <3>. QED
      BY <3>1, <3>3, <3>4
  <2>3. s \in M
    <3>1. s.at <= s.at
      BY <1>1
    <3>. QED
      BY <1>6, <2>2, <3>1
  <2>4. ASSUME NEW r \in L, ~SameCell(r, s) PROVE r \in M
    <3>1. ~SameCell(s, r) /\ r \in R
      BY <1>3, <1>7, <2>4
    <3>. QED
      BY <1>3, <1>6, <3>1
  <2>5. ASSUME NEW r \in M, r # s PROVE r \in L /\ ~SameCell(r, s)
    <3>1. r \in R /\ r \in L
      BY <1>3, <1>6, <2>5
    <3>2. SameCell(r, s) => s.at <= r.at /\ s.at > r.at
      BY <1>6, <1>7, <1>9, <1>10, <3>1
    <3>3. s.at \in Nat /\ r.at \in Nat
      BY <1>1, <3>1
    <3>. QED
      BY <3>1, <3>2, <3>3
  <2>6. Keep(L, s) = M
    BY <2>1, <2>3, <2>4, <2>5
  <2>7. ASSUME NEW q \in R \cup {s} PROVE \E p \in M : SameCell(p, q) /\ q.at <= p.at
    <3>1. CASE SameCell(q, s)
      <4>1. SameCell(s, q)
        BY <1>7, <3>1
      <4>2. q.at <= s.at
        BY <1>1, <2>2, <3>1
      <4>. QED
        BY <2>3, <4>1, <4>2
    <3>2. CASE ~SameCell(q, s)
      <4>1. q \in R
        BY <1>7, <3>2
      <4>2. PICK p \in L : SameCell(p, q) /\ q.at <= p.at
        BY <1>4, <4>1
      <4>3. ~SameCell(p, s)
        BY <1>7, <3>2, <4>2
      <4>. QED
        BY <2>4, <4>2, <4>3
    <3>. QED
      BY <3>1, <3>2
  <2>. QED
    BY <1>2, <1>5, <2>6, <2>7 DEF Dominated
<1>11. CASE ~Newer(L, s)
  <2>1. Keep(L, s) = L
    BY <1>11 DEF Keep
  <2>2. PICK p \in L : SameCell(p, s) /\ ~(s.at > p.at)
    BY <1>9, <1>11
  <2>3. p \in R /\ p.at \in Nat /\ s.at \in Nat /\ s.at < p.at
    <3>1. p \in R /\ p.at \in Nat /\ s.at \in Nat /\ p.at # s.at
      BY <1>1, <1>3, <1>7, <2>2
    <3>. QED
      BY <2>2, <3>1
  <2>4. s \notin M
    BY <1>6, <2>2, <2>3
  <2>5. ASSUME NEW r \in L PROVE r \in M
    <3>1. r \in R /\ r.at \in Nat
      BY <1>1, <1>3
    <3>2. SameCell(s, r) => s.at <= r.at
      <4> SUFFICES ASSUME SameCell(s, r) PROVE s.at <= r.at
        OBVIOUS
      <4>1. SameCell(p, r)
        BY <1>7, <2>2
      <4>2. p.at <= r.at
        BY <1>3, <2>3, <3>1, <4>1
      <4>. QED
        BY <2>3, <3>1, <4>2
    <3>. QED
      BY <1>3, <1>6, <3>1, <3>2
  <2>6. \A r \in M : r \in L
    BY <1>3, <1>6, <2>4
  <2>7. M = L
    BY <2>5, <2>6
  <2>8. \A q \in R \cup {s} : \E z \in M : SameCell(z, q) /\ q.at <= z.at
    <3>1. s.at <= p.at
      BY <2>3
    <3>. QED
      BY <1>4, <2>2, <2>7, <3>1
  <2>. QED
    BY <1>2, <1>5, <2>1, <2>7, <2>8 DEF Dominated
<1>. QED
  BY <1>10, <1>11

(* A snapshot that is not counted changes nothing.                         *)
LEMMA KeepSkips ==
    ASSUME NEW kept, NEW s \in Snapshot, s \notin Counted
    PROVE  Keep(kept, s) = kept
<1>1. s.site # Here \/ ~(s.at >= 0)
  BY DEF Counted
<1>2. s.at \in Int
  <2>1. s.at \in Times \cup {-1}
    BY DEF Snapshot
  <2>2. s.at \in Times => s.at \in Nat
    BY OverviewAssumption
  <2>. QED
    BY <2>1, <2>2
<1>3. s.site # Here \/ s.at < 0
  BY <1>1, <1>2
<1>. QED
  BY <1>3 DEF Keep

(* The readings among the first n snapshots.                               *)
ReadingsIn(input, n) == {input[i] : i \in {j \in 1..n : input[j] \in Counted}}
NoTies(input) ==
    \A i, j \in DOMAIN input :
       i # j /\ input[i] \in Counted /\ input[j] \in Counted
             /\ input[i].node = input[j].node => input[i].at # input[j].at

LEMMA KeepNext ==
    ASSUME NEW input \in Seq(Snapshot), NoTies(input), NEW n \in DOMAIN input,
           Dominated(ReadingsIn(input, n - 1))
    PROVE  /\ Keep(Latest(ReadingsIn(input, n - 1)), input[n]) = Latest(ReadingsIn(input, n))
           /\ Dominated(ReadingsIn(input, n))
<1>1. n \in Nat \ {0} /\ n <= Len(input) /\ Len(input) \in Nat /\ DOMAIN input = 1..Len(input)
  OBVIOUS
<1>2. PICK R : R = ReadingsIn(input, n - 1)
  OBVIOUS
<1>3. PICK s \in Snapshot : s = input[n]
  OBVIOUS
<1>4. R \in SUBSET Counted
  BY <1>2 DEF ReadingsIn
<1>5. \A i : i \in 1..n <=> i \in 1..(n - 1) \/ i = n
  BY <1>1
<1>6. CASE s \in Counted
  <2>1. ReadingsIn(input, n) = R \cup {s}
    BY <1>2, <1>3, <1>5, <1>6 DEF ReadingsIn
  <2>2. ASSUME NEW q \in R, q.node = s.node PROVE q.at # s.at
    <3>1. PICK i \in 1..(n - 1) : input[i] \in Counted /\ q = input[i]
      BY <1>2 DEF ReadingsIn
    <3>2. i \in DOMAIN input /\ i # n
      BY <1>1, <3>1
    <3>. QED
      BY <1>3, <1>6, <2>2, <3>1, <3>2 DEF NoTies
  <2>3. Dominated(R)
    BY <1>2
  <2>. QED
    BY <1>2, <1>3, <1>4, <1>6, <2>1, <2>2, <2>3, KeepIsLatest
<1>7. CASE s \notin Counted
  <2>1. ReadingsIn(input, n) = R
    BY <1>2, <1>3, <1>5, <1>7 DEF ReadingsIn
  <2>. QED
    BY <1>2, <1>3, <1>7, <2>1, KeepSkips
<1>. QED
  BY <1>6, <1>7

LEMMA EveryPrefixDominated ==
    ASSUME NEW input \in Seq(Snapshot), NoTies(input), NEW n \in 0..Len(input)
    PROVE  Dominated(ReadingsIn(input, n))
<1>1. Len(input) \in Nat /\ DOMAIN input = 1..Len(input)
  OBVIOUS
<1> DEFINE B == {k \in 0..Len(input) : ~Dominated(ReadingsIn(input, k))}
<1>2. SUFFICES ASSUME B # {} PROVE FALSE
  OBVIOUS
<1>3. B \in SUBSET Nat /\ B \subseteq 0..Len(input)
  BY <1>1
<1>4. PICK m \in B : \A x \in B : m <= x
  BY <1>2, <1>3, HasSmallest
<1>5. ~Dominated(ReadingsIn(input, m)) /\ m \in 0..Len(input)
  OBVIOUS
<1>6. m # 0
  <2>1. ReadingsIn(input, 0) = {}
    BY DEF ReadingsIn
  <2>2. Dominated({})
    BY DEF Dominated
  <2>. QED
    BY <1>5, <2>1, <2>2
<1>7. m - 1 \in 0..Len(input) /\ m \in DOMAIN input /\ ~(m <= m - 1)
  BY <1>1, <1>5, <1>6
<1>8. m - 1 \notin B
  BY <1>4, <1>7
<1>9. Dominated(ReadingsIn(input, m - 1))
  BY <1>7, <1>8
<1>. QED
  BY <1>5, <1>7, <1>9, KeepNext

(* The one pass over the answer keeps the latest readings: the recursion   *)
(* is unfolded from this closed form, and has no other solution.           *)
LEMMA KeepAllIsLatest ==
    ASSUME NEW input \in Seq(Snapshot), NoTies(input)
    PROVE  KeepAll(input) = Latest(ReadingsIn(input, Len(input)))
<1>1. PICK N \in Nat : N = Len(input) /\ DOMAIN input = 1..N
  OBVIOUS
<1> DEFINE body(h) == [n \in 0..Len(input) |-> IF n = 0 THEN {} ELSE Keep(h[n - 1], input[n])]
           f == CHOOSE h : h = body(h)
           g == [n \in 0..Len(input) |-> Latest(ReadingsIn(input, n))]
<1>2. KeepAll(input) = f[N]
  BY <1>1 DEF KeepAll
<1>3. ASSUME NEW n \in 1..N
      PROVE  Keep(Latest(ReadingsIn(input, n - 1)), input[n]) = Latest(ReadingsIn(input, n))
  <2>1. n - 1 \in 0..Len(input)
    BY <1>1
  <2>2. Dominated(ReadingsIn(input, n - 1))
    BY <2>1, EveryPrefixDominated
  <2>3. n \in DOMAIN input
    BY <1>1
  <2>. QED
    BY <2>2, <2>3, KeepNext
<1>4. Latest(ReadingsIn(input, 0)) = {}
  BY DEF Latest, ReadingsIn
<1>5. g = body(g)
  <2>1. ASSUME NEW n \in 0..N
        PROVE  g[n] = IF n = 0 THEN {} ELSE Keep(g[n - 1], input[n])
    <3>1. g[n] = Latest(ReadingsIn(input, n))
      BY <1>1
    <3>2. CASE n = 0
      BY <1>4, <3>1, <3>2
    <3>3. CASE n # 0
      <4>1. n \in 1..N /\ n - 1 \in 0..N
        BY <1>1, <3>3
      <4>2. g[n - 1] = Latest(ReadingsIn(input, n - 1))
        BY <1>1, <4>1
      <4>. QED
        BY <1>3, <3>1, <3>3, <4>1, <4>2
    <3>. QED
      BY <3>2, <3>3
  <2>. QED
    BY <1>1, <2>1
<1>6. f = body(f)
  <2>. HIDE DEF g, body
  <2>. QED
    BY <1>5
<1>7. ASSUME NEW n \in 0..N PROVE f[n] = g[n]
  <2>. HIDE DEF f
  <2>1. \A k \in 0..N : /\ f[k] = IF k = 0 THEN {} ELSE Keep(f[k - 1], input[k])
                        /\ g[k] = IF k = 0 THEN {} ELSE Keep(g[k - 1], input[k])
    BY <1>1, <1>5, <1>6
  <2>. HIDE DEF g, body
  <2> DEFINE B == {k \in 0..N : f[k] # g[k]}
  <2>2. SUFFICES ASSUME B # {} PROVE FALSE
    OBVIOUS
  <2>3. B \in SUBSET Nat
    OBVIOUS
  <2>4. PICK m \in B : \A x \in B : m <= x
    BY <2>2, <2>3, HasSmallest
  <2>5. m \in 0..N /\ f[m] # g[m]
    OBVIOUS
  <2>6. m # 0
    BY <2>1, <2>5
  <2>7. m - 1 \in 0..N /\ ~(m <= m - 1)
    BY <2>5, <2>6
  <2>8. f[m - 1] = g[m - 1]
    BY <2>4, <2>7
  <2>. QED
    BY <2>1, <2>5, <2>6, <2>8
<1>8. g[N] = Latest(ReadingsIn(input, N))
  BY <1>1
<1>. QED
  BY <1>1, <1>2, <1>7, <1>8

(* The points of the readings' latest: one for each minute with a reading. *)
LEMMA PointsInOrder ==
    ASSUME NEW kept \in SUBSET Counted, IsFiniteSet(kept)
    PROVE  /\ {PointsOf(kept)[i].at : i \in DOMAIN PointsOf(kept)} = {Bucket(s) : s \in kept}
           /\ \A i \in DOMAIN PointsOf(kept) :
                i > 1 => PointsOf(kept)[i - 1].at < PointsOf(kept)[i].at
           /\ \A i \in DOMAIN PointsOf(kept) :
                PointsOf(kept)[i].tx_bps = Total({s \in kept : Bucket(s) = PointsOf(kept)[i].at})
<1>1. PICK S : S = {Bucket(s) : s \in kept}
  OBVIOUS
<1>2. S \in SUBSET Int
  BY <1>1, CountedTypes
<1>3. IsFiniteSet(S)
  <2>1. PICK f : f = [s \in kept |-> Bucket(s)]
    OBVIOUS
  <2>2. DOMAIN f = kept /\ S = {f[s] : s \in kept}
    BY <1>1, <2>1
  <2>. QED
    BY <2>2, ImageIsFinite
<1>4. PICK A : A = Ascending(S)
  OBVIOUS
<1>5. /\ Cardinality(S) \in Nat /\ DOMAIN A = 1..Cardinality(S)
      /\ \A i \in DOMAIN A : A[i] \in S
      /\ \A x \in S : \E i \in DOMAIN A : A[i] = x
      /\ Increasing(A)
  BY <1>2, <1>3, <1>4, AscendingProperties
<1>6. PICK P : P = PointsOf(kept)
  OBVIOUS
<1>7. P = [i \in DOMAIN A |-> [at |-> A[i], tx_bps |-> Total({s \in kept : Bucket(s) = A[i]})]]
  BY <1>1, <1>4, <1>6 DEF PointsOf
<1>8. /\ DOMAIN P = DOMAIN A
      /\ \A i \in DOMAIN A : P[i].at = A[i] /\ P[i].tx_bps = Total({s \in kept : Bucket(s) = A[i]})
  BY <1>7
<1>9. {P[i].at : i \in DOMAIN P} = S
  <2>1. \A i \in DOMAIN P : P[i].at \in S
    BY <1>5, <1>8
  <2>2. \A x \in S : \E i \in DOMAIN P : P[i].at = x
    BY <1>5, <1>8
  <2>. QED
    BY <2>1, <2>2
<1>10. ASSUME NEW i \in DOMAIN P, i > 1 PROVE P[i - 1].at < P[i].at
  <2>1. i \in DOMAIN A /\ i - 1 \in DOMAIN A /\ i - 1 < i
    BY <1>5, <1>8, <1>10
  <2>2. A[i - 1] < A[i]
    BY <1>5, <2>1 DEF Increasing
  <2>. QED
    BY <1>8, <2>1, <2>2
<1>11. \A i \in DOMAIN P : P[i].tx_bps = Total({s \in kept : Bucket(s) = P[i].at})
  <2> SUFFICES ASSUME NEW i \in DOMAIN P
               PROVE  P[i].tx_bps = Total({s \in kept : Bucket(s) = P[i].at})
    OBVIOUS
  <2>1. P[i].at = A[i] /\ P[i].tx_bps = Total({s \in kept : Bucket(s) = A[i]})
    BY <1>8
  <2>. QED
    BY <2>1
<1>. QED
  BY <1>1, <1>6, <1>9, <1>10, <1>11

(* Whatever the order of the answer: the series is that of the latest.     *)
LEMMA SeriesOfAnyAnswer ==
    ASSUME OverviewTypeOK
    PROVE  SeriesCountsLatest
<1> SUFFICES ASSUME Untied
             PROVE  LET series == buildSiteTrafficSeries(entries)
                    IN  /\ {series[i].at : i \in DOMAIN series} = {Bucket(r) : r \in Readings}
                        /\ \A i \in DOMAIN series : i > 1 => series[i - 1].at < series[i].at
                        /\ \A i \in DOMAIN series :
                             series[i].tx_bps = Total({r \in Latest(Readings) : Bucket(r) = series[i].at})
  BY DEF SeriesCountsLatest
<1>1. PICK input \in Seq(Snapshot) : input = entries
  BY DEF OverviewTypeOK
<1>2. PICK N \in Nat : N = Len(input) /\ DOMAIN input = 1..N
  OBVIOUS
<1>3. NoTies(input)
  BY <1>1 DEF Untied, NoTies
<1>4. PICK R : R = ReadingsIn(input, N)
  OBVIOUS
<1>5. R = Readings
  BY <1>1, <1>2, <1>4 DEF ReadingsIn, Readings
<1>6. PICK kept : kept = KeepAll(input)
  OBVIOUS
<1>7. kept = Latest(R)
  BY <1>2, <1>3, <1>4, <1>6, KeepAllIsLatest
<1>8. Dominated(R)
  <2>1. N \in 0..Len(input)
    BY <1>2
  <2>. QED
    BY <1>3, <1>4, <2>1, EveryPrefixDominated
<1>9. R \in SUBSET Counted /\ kept \in SUBSET R
  BY <1>4, <1>7 DEF ReadingsIn, Latest
<1>10. IsFiniteSet(kept)
  <2>1. PICK J : J = {j \in 1..N : input[j] \in Counted}
    OBVIOUS
  <2>2. IsFiniteSet(1..N) /\ J \in SUBSET (1..N)
    BY <2>1, FS_Interval
  <2>3. IsFiniteSet(J)
    BY <2>2, FS_Subset
  <2>4. R = {input[i] : i \in J}
    BY <1>4, <2>1 DEF ReadingsIn
  <2>5. IsFiniteSet(R)
    <3>1. PICK f : f = [i \in J |-> input[i]]
      OBVIOUS
    <3>2. DOMAIN f = J /\ R = {f[i] : i \in J}
      BY <2>4, <3>1
    <3>. QED
      BY <2>3, <3>2, ImageIsFinite
  <2>. QED
    BY <1>9, <2>5, FS_Subset
<1>11. {Bucket(s) : s \in kept} = {Bucket(r) : r \in R}
  <2>1. \A q \in R : \E p \in kept : Bucket(p) = Bucket(q)
    BY <1>7, <1>8 DEF Dominated, SameCell
  <2>. QED
    BY <1>9, <2>1
<1>12. PICK series : series = PointsOf(kept)
  OBVIOUS
<1>13. /\ {series[i].at : i \in DOMAIN series} = {Bucket(s) : s \in kept}
       /\ \A i \in DOMAIN series : i > 1 => series[i - 1].at < series[i].at
       /\ \A i \in DOMAIN series : series[i].tx_bps = Total({s \in kept : Bucket(s) = series[i].at})
  <2>1. kept \in SUBSET Counted
    BY <1>9
  <2>2. /\ {PointsOf(kept)[i].at : i \in DOMAIN PointsOf(kept)} = {Bucket(s) : s \in kept}
        /\ \A i \in DOMAIN PointsOf(kept) :
             i > 1 => PointsOf(kept)[i - 1].at < PointsOf(kept)[i].at
        /\ \A i \in DOMAIN PointsOf(kept) :
             PointsOf(kept)[i].tx_bps = Total({s \in kept : Bucket(s) = PointsOf(kept)[i].at})
    BY <1>10, <2>1, PointsInOrder
  <2>. QED
    BY <1>12, <2>2
<1>14. series = buildSiteTrafficSeries(entries)
  BY <1>1, <1>6, <1>12 DEF buildSiteTrafficSeries
<1>15. \A i \in DOMAIN series :
          series[i].tx_bps = Total({r \in Latest(Readings) : Bucket(r) = series[i].at})
  BY <1>5, <1>7, <1>13
<1>. QED
  BY <1>5, <1>11, <1>13, <1>14, <1>15

(* How bad a node is alone, and a site as a whole.                         *)
Bad(n) == n.config = "rollback_failed" \/ n.service = "unhealthy"
Poor(n) == n.liveness # "online" \/ n.config # "in_sync"

LEMMA ToneOfNodes ==
    ASSUME NEW nodes, nodes # {}
    PROVE  /\ toneForState[siteState(TRUE, nodes)] = 3
           /\ toneForState[siteState(FALSE, nodes)] =
                IF \E n \in nodes : Bad(n) THEN 3
                ELSE IF \E n \in nodes : Poor(n) THEN 2 ELSE 1
<1>1. /\ toneForState["shutdown"] = 3 /\ toneForState["attention"] = 3
      /\ toneForState["degraded"] = 2 /\ toneForState["healthy"] = 1
  BY DEF toneForState
<1>2. siteState(TRUE, nodes) = "shutdown"
  BY DEF siteState
<1>3. siteState(FALSE, nodes) = IF \E n \in nodes : Bad(n) THEN "attention"
                                ELSE IF \E n \in nodes : Poor(n) THEN "degraded" ELSE "healthy"
  BY DEF siteState, Bad, Poor
<1>. QED
  BY <1>1, <1>2, <1>3

LEMMA WorstOfAnyFleet == WorstNodeShows
<1> SUFFICES ASSUME NEW shutdown \in BOOLEAN, fleet # {}
             PROVE  toneForState[siteState(shutdown, fleet)] =
                    Max({toneForState[siteState(shutdown, {n})] : n \in fleet})
  BY Zenon DEF WorstNodeShows
<1> DEFINE tone(nodes) == toneForState[siteState(shutdown, nodes)]
           S == {tone({n}) : n \in fleet}
<1>1. \A n \in fleet : {n} # {}
  OBVIOUS
<1>2. CASE shutdown = TRUE
  <2>1. tone(fleet) = 3 /\ \A n \in fleet : tone({n}) = 3
    BY <1>1, <1>2, ToneOfNodes
  <2>. HIDE DEF tone
  <2>2. S = {3}
    BY <2>1
  <2>3. Max({3}) = 3
    BY MaxIs
  <2>4. tone(fleet) = Max(S)
    BY <2>1, <2>2, <2>3
  <2>. QED
    BY <2>4 DEF tone
<1>3. CASE shutdown = FALSE
  <2>1. tone(fleet) = IF \E n \in fleet : Bad(n) THEN 3
                      ELSE IF \E n \in fleet : Poor(n) THEN 2 ELSE 1
    BY <1>3, ToneOfNodes
  <2>2. ASSUME NEW n \in fleet
        PROVE  tone({n}) = IF Bad(n) THEN 3 ELSE IF Poor(n) THEN 2 ELSE 1
    <3>1. tone({n}) = IF \E k \in {n} : Bad(k) THEN 3
                      ELSE IF \E k \in {n} : Poor(k) THEN 2 ELSE 1
      BY <1>1, <1>3, ToneOfNodes
    <3>. HIDE DEF tone
    <3>. QED
      BY <3>1
  <2>. HIDE DEF tone
  <2>3. S \in SUBSET Int /\ \A x \in S : x <= tone(fleet)
    <3>1. tone(fleet) \in {1, 2, 3} /\ \A n \in fleet : tone({n}) \in {1, 2, 3}
      BY <2>1, <2>2
    <3>2. \A n \in fleet : tone({n}) <= tone(fleet)
      BY <2>1, <2>2
    <3>3. ASSUME NEW x \in S PROVE x \in Int /\ x <= tone(fleet)
      <4>1. PICK n \in fleet : x = tone({n})
        OBVIOUS
      <4>. QED
        BY <3>1, <3>2, <4>1
    <3>. HIDE DEF S
    <3>. QED
      BY <3>3
  <2>4. tone(fleet) \in S
    <3>1. \E n \in fleet : tone({n}) = tone(fleet)
      BY <2>1, <2>2
    <3>. QED
      BY <3>1
  <2>. HIDE DEF S
  <2>5. Max(S) = tone(fleet)
    BY <2>3, <2>4, MaxIs
  <2>. QED
    BY <2>5 DEF tone, S
<1>. QED
  BY <1>2, <1>3

LEMMA OverviewInits == OverviewInit => OverviewTypeOK
<1> SUFFICES ASSUME OverviewInit PROVE OverviewTypeOK
  OBVIOUS
<1>1. <<>> \in Seq(Snapshot) /\ Len(<<>>) <= MaxEntries
  BY OverviewAssumption
<1>. QED
  BY <1>1 DEF OverviewInit, OverviewTypeOK

LEMMA OverviewStep == OverviewTypeOK /\ [OverviewNext]_overviewVars => OverviewTypeOK'
<1> SUFFICES ASSUME OverviewTypeOK, [OverviewNext]_overviewVars PROVE OverviewTypeOK'
  OBVIOUS
<1>1. CASE UNCHANGED overviewVars
  BY <1>1 DEF OverviewTypeOK, overviewVars
<1>2. ASSUME NEW s \in Counted \cup Skipped, Report(s) PROVE OverviewTypeOK'
  <2>1. s \in Snapshot
    <3>1. CASE s \in Counted
      BY <3>1 DEF Counted
    <3>2. CASE s \in Skipped
      <4>1. PICK a : a = CHOOSE b \in Agents : TRUE
        OBVIOUS
      <4>2. a \in Agents
        BY <4>1, OverviewAssumption
      <4>3. 0 \in Times /\ 1 \in Rates
        BY OverviewAssumption
      <4>4. s = [site |-> "elsewhere", node |-> a, at |-> 0, tx |-> 1]
            \/ s = [site |-> Here, node |-> a, at |-> -1, tx |-> 1]
        BY <3>2, <4>1 DEF Skipped
      <4>. QED
        BY <4>2, <4>3, <4>4 DEF Snapshot
    <3>. QED
      BY <3>1, <3>2
  <2>2. /\ Len(entries) < MaxEntries /\ entries' = Append(entries, s) /\ fleet' = fleet
        /\ entries \in Seq(Snapshot) /\ fleet \subseteq Node /\ MaxEntries \in Nat
    BY <1>2, OverviewAssumption DEF Report, OverviewTypeOK
  <2>3. entries' \in Seq(Snapshot) /\ Len(entries') = Len(entries) + 1 /\ Len(entries) \in Nat
    BY <2>1, <2>2, AppendProperties
  <2>. QED
    BY <2>2, <2>3 DEF OverviewTypeOK
<1>3. ASSUME NEW n \in Node, Enrol(n) PROVE OverviewTypeOK'
  BY <1>3 DEF OverviewTypeOK, Enrol
<1>. QED
  BY <1>1, <1>2, <1>3 DEF OverviewNext

(* Whatever the snapshots and in whatever order they come, the traffic     *)
(* series counts the latest of each node and minute once; whatever the     *)
(* nodes, the site is as bad as its worst (buildSiteTrafficSeries,         *)
(* siteState, toneForState).                                               *)
THEOREM OverviewShowsLatestAndWorst == OverviewSpec => []OverviewInv
<1>1. OverviewTypeOK => OverviewInv
  BY SeriesOfAnyAnswer, WorstOfAnyFleet DEF OverviewInv
<1>. QED
  BY <1>1, OverviewInits, OverviewStep, PTL DEF OverviewSpec
=============================================================================
