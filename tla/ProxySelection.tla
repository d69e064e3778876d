---------------------------- MODULE ProxySelection ----------------------------
(***************************************************************************)
(* The outbound services page: an operator picks an outbound for a node    *)
(* from the snapshot the node's monitor reported, and the backend makes a  *)
(* release of it.  The page sends the version of the node it last read;    *)
(* the backend compares it with the latest version of the site, and an     *)
(* earlier request with the same idempotency key is answered again.        *)
(*                                                                         *)
(* One site.  How two requests interleave inside the release pipeline is   *)
(* module ControlPlane; here a request is served in one step.  DelayClasses are  *)
(* the classes the page tells apart; the search by name is left out.       *)
(***************************************************************************)
EXTENDS Integers, Sequences, FiniteSets

CONSTANTS
    ProxyNodes,
    Outbounds,
    Reports,        \* what a monitor can report
    FirstReports,   \* what both nodes can have reported at first
    MaxReports,     \* bound: further reports
    MaxReleases     \* bound: releases

VARIABLES
    snapshots,      \* ProxyConfigSnapshot of each node
    reported,       \* further reports so far
    releases,       \* the releases of the site; the version is the position
    nodeVersion,    \* Node.desired_version, as the node's last call set it
    configsShown,   \* the page's copy of snapshots
    nodesShown,     \* the page's copy of nodeVersion
    mounted,        \* the panel is shown, not the error of a query
    selectedNode,
    warningKey,
    warned,         \* history: the last warning announced
    pending,        \* pendingSelection, with the version of its node
    request         \* the call of the dialog

server == <<snapshots, reported, releases, nodeVersion>>
panel == <<configsShown, nodesShown, mounted, selectedNode, warningKey, warned>>
dialog == <<pending, request>>
proxyVars == <<server, panel, dialog>>

Nothing == [nothing |-> TRUE]
NoSnapshot == [available |-> FALSE, group |-> <<>>, error |-> ""]
Selection == [node : ProxyNodes, outbound : Outbounds, expected : 0..MaxReleases]
ReportedGroup == [available : BOOLEAN, group : {r.group : r \in Reports} \cup {<<>>},
                  error : {r.error : r \in Reports} \cup {""}]
Release == [nodes : SUBSET ProxyNodes, key : Selection \cup {Nothing}, active : BOOLEAN]

ASSUME ProxyAssumption ==
    /\ ProxyNodes # {} /\ MaxReports \in Nat /\ MaxReleases \in Nat \ {0}
    /\ Reports \subseteq ReportedGroup /\ FirstReports \subseteq Reports

ProxyTypeOK ==
    /\ snapshots \in [ProxyNodes -> ReportedGroup] /\ configsShown \in [ProxyNodes -> ReportedGroup]
    /\ reported \in 0..MaxReports
    /\ releases \in Seq(Release) /\ Len(releases) <= MaxReleases
    /\ nodeVersion \in [ProxyNodes -> 0..Len(releases)]
    /\ \A n \in ProxyNodes : nodesShown[n] \in 0..nodeVersion[n]
    /\ mounted \in BOOLEAN /\ selectedNode \in ProxyNodes
    /\ pending \in Selection \cup {Nothing}
    /\ request \in {"no", "sent", "ok", "refused"} /\ (pending = Nothing => request = "no")

NoWarning == <<>>
FirstNode == CHOOSE n \in ProxyNodes : TRUE   \* siteNodes[0]

(* The nodes have reported, and the site has had a release, of which they  *)
(* may not know yet.  The page has read the nodes, not yet their reports.  *)
ProxyInit ==
    /\ snapshots \in {[n \in ProxyNodes |-> first] : first \in FirstReports}
    /\ reported = 0
    /\ releases = <<[nodes |-> ProxyNodes, key |-> Nothing, active |-> FALSE]>>
    /\ nodeVersion \in {[n \in ProxyNodes |-> v] : v \in {0, 1}}
    /\ configsShown = [n \in ProxyNodes |-> NoSnapshot] /\ nodesShown = nodeVersion
    /\ mounted = TRUE /\ selectedNode = FirstNode
    /\ warningKey = NoWarning /\ warned = NoWarning
    /\ pending = Nothing /\ request = "no"

-----------------------------------------------------------------------------
(* The backend and the monitors.                                           *)

(* A report without proxy API keeps the groups of the last one with it.    *)
agent_proxy_config(n, report) ==
    /\ reported < MaxReports /\ reported' = reported + 1
    /\ snapshots' = [snapshots EXCEPT ![n] =
            IF report.available THEN report ELSE [report EXCEPT !.group = snapshots[n].group]]
    /\ UNCHANGED <<releases, nodeVersion, panel, dialog>>

(* A heartbeat or an acknowledgement tells the node's record which version *)
(* is desired of the node: the latest release that covers it.              *)
LatestOf(n) ==
    LET covering == {v \in DOMAIN releases : n \in releases[v].nodes}
    IN  IF covering = {} THEN 0 ELSE CHOOSE v \in covering : \A w \in covering : w <= v

NodeCalls(n) ==
    /\ nodeVersion' = [nodeVersion EXCEPT ![n] = LatestOf(n)]
    /\ UNCHANGED <<snapshots, reported, releases, panel, dialog>>

ReleaseEnds(v) ==
    /\ v \in DOMAIN releases /\ releases[v].active
    /\ releases' = [releases EXCEPT ![v].active = FALSE]
    /\ UNCHANGED <<snapshots, reported, nodeVersion, panel, dialog>>

InProgress(covered) == \E v \in DOMAIN releases : releases[v].active /\ releases[v].nodes \cap covered # {}
Creates(covered, key) ==
    releases' = Append(releases, [nodes |-> covered, key |-> key, active |-> TRUE])

(* A release of the whole site: routing, subscription, blacklist.          *)
OtherRelease ==
    /\ Len(releases) < MaxReleases /\ ~InProgress(ProxyNodes)
    /\ Creates(ProxyNodes, Nothing)
    /\ UNCHANGED <<snapshots, reported, nodeVersion, panel, dialog>>

(* The key is made of node, outbound and expected version.                 *)
SameRequest == \E v \in DOMAIN releases : releases[v].key = pending

Bug_ExpectedCurrent == TRUE

(* A version of 0 is sent as null, which expects nothing.                  *)
ExpectedCurrent == pending.expected # 0 => pending.expected = Len(releases)

Answered == SameRequest

select_node_proxy ==
    /\ request = "sent"
    /\ \/ Answered /\ request' = "ok" /\ UNCHANGED releases
       \/ /\ ~Answered
          /\ IF /\ pending.outbound \in DOMAIN snapshots[pending.node].group
                /\ ~InProgress({pending.node}) /\ ExpectedCurrent
             THEN Len(releases) < MaxReleases /\ Creates({pending.node}, pending) /\ request' = "ok"
             ELSE request' = "refused" /\ UNCHANGED releases
    /\ UNCHANGED <<snapshots, reported, nodeVersion, panel, pending>>

-----------------------------------------------------------------------------
(* The page.                                                               *)

Bug_KeyOf(n, snapshot) == IF snapshot.error = "" THEN NoWarning ELSE <<snapshot.error>>

KeyOf(n, snapshot) == IF snapshot.error = "" THEN NoWarning ELSE <<n, snapshot.error>>

(* The effect of the panel: a warning that is not the last one is          *)
(* announced.  A panel that was not mounted starts without a key.          *)
PanelRendered ==
    LET key == KeyOf(selectedNode', configsShown'[selectedNode'])
        last == IF mounted THEN warningKey ELSE NoWarning
    IN  IF mounted'
        THEN /\ warningKey' = key
             /\ warned' = IF key \in {NoWarning, last} THEN warned
                          ELSE <<selectedNode', configsShown'[selectedNode'].error>>
        ELSE warningKey' = NoWarning /\ UNCHANGED warned

PollConfigs ==
    /\ configsShown' = snapshots /\ mounted' = TRUE
    /\ UNCHANGED <<server, dialog, nodesShown, selectedNode>> /\ PanelRendered

(* The nodes are read on mounting, by the refresh button, and after a      *)
(* selection.                                                              *)
RefreshNodes ==
    /\ nodesShown' = nodeVersion
    /\ UNCHANGED <<server, dialog, configsShown, mounted, selectedNode, warningKey, warned>>

QueryFails ==
    /\ mounted /\ mounted' = FALSE
    /\ UNCHANGED <<server, dialog, configsShown, nodesShown, selectedNode>> /\ PanelRendered

SelectNode(n) ==
    /\ mounted /\ pending = Nothing /\ selectedNode' = n
    /\ UNCHANGED <<server, dialog, configsShown, nodesShown, mounted>> /\ PanelRendered

SelectEndpoint(outbound) ==
    /\ mounted /\ pending = Nothing
    /\ outbound \in DOMAIN configsShown[selectedNode].group
    /\ pending' = [node |-> selectedNode, outbound |-> outbound,
                   expected |-> nodesShown[selectedNode]]
    /\ UNCHANGED <<server, panel, request>>

CloseDialog ==
    /\ mounted /\ pending # Nothing /\ request = "no"
    /\ pending' = Nothing /\ UNCHANGED <<server, panel, request>>

ConfirmSelection ==
    /\ mounted /\ pending # Nothing /\ request = "no"
    /\ request' = "sent" /\ UNCHANGED <<server, panel, pending>>

SelectionMade ==
    /\ request = "ok" /\ request' = "no" /\ pending' = Nothing
    /\ nodesShown' = nodeVersion /\ configsShown' = snapshots
    /\ UNCHANGED <<server, mounted, selectedNode>> /\ PanelRendered

(* Refused, or the answer is lost: the dialog stays and can be confirmed   *)
(* again.                                                                  *)
SelectionFails ==
    /\ request \in {"ok", "refused"} /\ request' = "no"
    /\ UNCHANGED <<server, panel, pending>>

ProxyNext ==
    \/ \E n \in ProxyNodes : \/ \E report \in Reports : agent_proxy_config(n, report)
                             \/ NodeCalls(n) \/ SelectNode(n)
    \/ \E v \in 1..MaxReleases : ReleaseEnds(v)
    \/ OtherRelease \/ select_node_proxy
    \/ PollConfigs \/ RefreshNodes \/ QueryFails
    \/ \E outbound \in Outbounds : SelectEndpoint(outbound)
    \/ CloseDialog \/ ConfirmSelection \/ SelectionMade \/ SelectionFails

ProxySpec == ProxyInit /\ [][ProxyNext]_proxyVars

-----------------------------------------------------------------------------
(* What the panel says of its endpoints.  A delay is none, low (<= 250),   *)
(* middle (<= 800) or high.                                                *)

endpointStatus(endpoint) ==
    IF ~endpoint.alive THEN "offline"
    ELSE CASE endpoint.delay = "none" -> "pending"
           [] endpoint.delay = "low" -> "online"
           [] endpoint.delay = "middle" -> "degraded"
           [] endpoint.delay = "high" -> "attention"

groupStatus(group) ==
    IF DOMAIN group = {} THEN "pending"
    ELSE IF \A o \in DOMAIN group : endpointStatus(group[o]) = "offline" THEN "offline"
    ELSE IF \E o \in DOMAIN group : endpointStatus(group[o]) = "online" THEN "online"
    ELSE "degraded"

filteredEndpoints(group, status) ==
    {o \in DOMAIN group : status = "" \/ endpointStatus(group[o]) = status}

-----------------------------------------------------------------------------
(* Whatever the nodes report and the operator switches to, the badge of a  *)
(* group with endpoints agrees with the list under its filters: online has *)
(* endpoints online, and offline none of any other state.                  *)
BadgeFitsList ==
    LET group == configsShown[selectedNode].group
    IN  DOMAIN group # {} =>
          /\ groupStatus(group) = "online" <=> filteredEndpoints(group, "online") # {}
          /\ groupStatus(group) = "offline"
               <=> filteredEndpoints(group, "offline") = filteredEndpoints(group, "")

(* A warning the panel's snapshot carries has been announced, and it is    *)
(* the last one announced: neither switching between nodes with the same   *)
(* error nor an error page in between hides it (warningKey).               *)
WarningAnnounced ==
    LET error == configsShown[selectedNode].error
    IN  mounted /\ error # "" => warned = <<selectedNode, error>>

(* A selection based on a version never replaces a release made since: the *)
(* release follows the version the operator's page had read                *)
(* (expected_current_version).                                             *)
NoUnseenRelease ==
    \A v \in DOMAIN releases :
        releases[v].key # Nothing /\ releases[v].key.expected # 0 => releases[v].key.expected = v - 1

(* Confirming again after a lost answer makes no second release, however   *)
(* long after (the idempotency key of selectNodeProxy).                    *)
RetriesReleaseOnce ==
    \A v, w \in DOMAIN releases :
        releases[v].key = releases[w].key /\ releases[v].key # Nothing => v = w

(* The invariant of the panel: badge and list agree, warnings are shown.   *)
PanelInv == ProxyTypeOK /\ BadgeFitsList /\ WarningAnnounced

(* The invariant of selections: each makes one release, on what was seen.  *)
SelectionInv == NoUnseenRelease /\ RetriesReleaseOnce
===============================================================================
