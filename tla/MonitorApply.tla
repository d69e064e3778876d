---------------------------- MODULE MonitorApply ----------------------------
(***************************************************************************)
(* How one monitor puts a bundle into force: applyBundle with its health   *)
(* window and its sequence of last-good files, rollback, and the restore   *)
(* at start-up, over the process manager (runtime.Manager) and nftables.   *)
(*                                                                         *)
(* A crash may fall between any two steps.  Everything that can go wrong   *)
(* (a rejected check, a failed write, a sing-box that does not start, a    *)
(* DNS failure, a crash) draws on one budget, so MaxFaults bounds how many *)
(* things fail in a behaviour.                                             *)
(*                                                                         *)
(* A bundle is its desired_version; 0 is "no bundle".                      *)
(***************************************************************************)
EXTENDS Naturals

CONSTANTS
    MaxBundle,   \* bound: bundles the control plane releases
    MaxFaults    \* bound: failures in a behaviour

ASSUME BoundsAssumption == MaxBundle \in Nat /\ MaxFaults \in Nat

Version == 0..MaxBundle

(* A sing-box configuration is told apart by the bundle its outbounds were *)
(* resolved from and the bundle whose policy (ingress, source rules,       *)
(* destinations) it enforces.                                              *)
Config == [out : Version, pol : Version]
Whole(v) == [out |-> v, pol |-> v]
NoConfig == Whole(0)

(* versions/<v>-<hash>.json is named by v, last-good.json by LastGoodPath. *)
NoPath == 0
LastGoodPath == MaxBundle + 1

VARIABLES
    want,        \* the desired_version of the node
    state,       \* agent.state
    saved,       \* monitor-state.json
    file,        \* the other files of the state directory, and SingboxConfig
    proc,        \* the configuration sing-box runs, NoConfig when it is down
    activePath,  \* Manager.activePath
    nft,         \* the bundle whose source rules are in table inet grouproxy
    pc,          \* where the monitor is in applyBundle, rollback or restart
    candidate,   \* the bundle of applyBundle
    nftOK,       \* nftRollbackOK of the rollback in progress
    faults,
    proven,      \* history: bundles that survived their health window
    report       \* history: what the last ack said, and of which bundle

vars == <<want, state, saved, file, proc, activePath, nft, pc, candidate,
          nftOK, faults, proven, report>>

State == [lastGood : Version, applied : Version, sequence : Nat,
          config_status : {"unknown", "in_sync", "failed", "rollback_failed"}]

Files == [rules : Version, singbox : Config, lastGood : Config, bundle : Version]

Report == [stage : {"none", "succeeded", "failed", "rolled_back"},
           bundle : Version, rollbackOK : BOOLEAN]

Applying == {"check", "firewall", "start", "health", "rules", "singbox",
             "last-good", "bundle", "commit", "rb_firewall", "rb_config", "rb_start"}

Booting == {"boot", "boot_start", "boot_firewall"}

TypeOK ==
    /\ want \in Version
    /\ state \in State
    /\ saved \in State
    /\ file \in Files
    /\ proc \in Config
    /\ activePath \in 0..LastGoodPath
    /\ nft \in Version
    /\ pc \in {"idle"} \cup Applying \cup Booting
    /\ candidate \in Version
    /\ nftOK \in BOOLEAN
    /\ faults \in 0..MaxFaults
    /\ proven \subseteq Version
    /\ report \in Report

InitialState == [lastGood |-> 0, applied |-> 0, sequence |-> 0,
                 config_status |-> "unknown"]

Init ==
    /\ want = 0
    /\ state = InitialState
    /\ saved = InitialState
    /\ file = [rules |-> 0, singbox |-> NoConfig, lastGood |-> NoConfig, bundle |-> 0]
    /\ proc = NoConfig
    /\ activePath = NoPath
    /\ nft = 0
    /\ pc = "boot"
    /\ candidate = 0
    /\ nftOK = TRUE
    /\ faults = 0
    /\ proven = {}
    /\ report = [stage |-> "none", bundle |-> 0, rollbackOK |-> FALSE]

Spend(cost) == faults + cost <= MaxFaults /\ faults' = faults + cost

Goto(label) == pc' = label /\ candidate' = candidate

Finish == pc' = "idle" /\ candidate' = 0

-----------------------------------------------------------------------------
(* The control plane publishes a newer release (external to the monitor).  *)
Publish ==
    /\ want < MaxBundle
    /\ want' = want + 1
    /\ UNCHANGED <<state, saved, file, proc, activePath, nft, pc, candidate,
                   nftOK, faults, proven, report>>

(* What a configuration file holds when sing-box is started from its path. *)
Content(path) ==
    IF path = NoPath THEN NoConfig
    ELSE IF path = LastGoodPath THEN file.lastGood
    ELSE Whole(path)

(* Manager.Apply(path): started; refused by Check, nothing touched; or     *)
(* started in vain and `previous`, the path active until now, started in   *)
(* its place.  If that fails too, or there is no previous path, sing-box   *)
(* stays down and activePath is the path that was launched last.           *)
ApplyOutcomes(path, content) ==
    {[ok |-> TRUE, proc |-> content, path |-> path, cost |-> 0],
     [ok |-> FALSE, proc |-> proc, path |-> activePath, cost |-> 1],
     [ok |-> FALSE, proc |-> Content(activePath), path |-> activePath, cost |-> 1]}
    \cup
    {[ok |-> FALSE, proc |-> NoConfig, path |-> launched,
      cost |-> IF activePath = NoPath THEN 1 ELSE 2] : launched \in {path, activePath}}

LastGoodBundle == IF state.lastGood # 0 THEN state.lastGood ELSE file.bundle

(* restoreLastGoodFirewall: without a last-good bundle the allow-all       *)
(* baseline is installed.  It fails before it touches the table (DNS, nft  *)
(* check, a write) or in `nft -f`, which leaves no table behind.           *)
FirewallOutcomes(lastGood) ==
    {[ok |-> TRUE, nft |-> lastGood, cost |-> 0],
     [ok |-> FALSE, nft |-> nft, cost |-> 1],
     [ok |-> FALSE, nft |-> 0, cost |-> 1]}

Bug_LastGoodAsIs(lastGood) == file.lastGood

(* ensureLastGoodConfig keeps the outbounds of last-good.json and puts the *)
(* policy of the last-good bundle on them; without the file it renders the *)
(* bundle afresh.                                                          *)
LastGoodConfig(lastGood) ==
    IF file.lastGood = NoConfig THEN Whole(lastGood)
    ELSE [out |-> file.lastGood.out, pol |-> lastGood]

-----------------------------------------------------------------------------
Bug_FailMarksApplied(status, stage, rollbackOK) ==
    /\ state' = [state EXCEPT !.sequence = @ + 1, !.config_status = status,
                             !.applied = candidate]
    /\ report' = [stage |-> stage, bundle |-> candidate, rollbackOK |-> rollbackOK]
    /\ Finish

(* ackFailure and the end of rollback; a failed Save is ignored.           *)
Fail(status, stage, rollbackOK) ==
    /\ state' = [state EXCEPT !.sequence = @ + 1, !.config_status = status]
    /\ report' = [stage |-> stage, bundle |-> candidate, rollbackOK |-> rollbackOK]
    /\ Finish

SaveState(cost) ==
    \/ cost = 0 /\ saved' = state'
    \/ cost = 1 /\ saved' = saved

(* sync and the start of applyBundle                                       *)
Poll ==
    /\ pc = "idle"
    /\ want # state.applied
    /\ pc' = "check"
    /\ candidate' = want
    /\ UNCHANGED <<want, state, saved, file, proc, activePath, nft, nftOK,
                   faults, proven, report>>

(* Validation, subscription, DNS, sing-box check and nft check all pass    *)
(* and the candidate file is written.                                      *)
Check ==
    /\ pc = "check"
    /\ Goto("firewall")
    /\ UNCHANGED <<want, state, saved, file, proc, activePath, nft, nftOK,
                   faults, proven, report>>

(* One of them refuses the bundle.                                         *)
RejectCandidate ==
    /\ pc = "check"
    /\ \E unsaved \in {0, 1} :
        /\ Spend(1 + unsaved)
        /\ Fail("failed", "failed", FALSE)
        /\ SaveState(unsaved)
    /\ UNCHANGED <<want, file, proc, activePath, nft, nftOK, proven>>

(* A local write fails: applyBundle returns, and what runs keeps running.  *)
DiscardCandidate ==
    /\ pc \in {"check", "rules", "singbox", "last-good", "bundle", "commit"}
    /\ Spend(1)
    /\ Finish
    /\ UNCHANGED <<want, state, saved, file, proc, activePath, nft, nftOK,
                   proven, report>>

ApplyFirewall ==
    /\ pc = "firewall"
    /\ nft' = candidate
    /\ Goto("start")
    /\ UNCHANGED <<want, state, saved, file, proc, activePath, nftOK, faults,
                   proven, report>>

(* nft_apply_failed                                                        *)
FirewallFails ==
    /\ pc = "firewall"
    /\ \E restored \in FirewallOutcomes(LastGoodBundle), unsaved \in {0, 1} :
        /\ Spend(1 + restored.cost + unsaved)
        /\ nft' = IF restored.ok THEN restored.nft ELSE 0
        /\ Fail("failed", "failed", FALSE)
        /\ SaveState(unsaved)
    /\ UNCHANGED <<want, file, proc, activePath, nftOK, proven>>

Bug_SkipWindow ==
    /\ pc = "start"
    /\ proc' = Whole(candidate)
    /\ activePath' = candidate
    /\ Goto("rules")
    /\ UNCHANGED <<want, state, saved, file, nft, nftOK, faults, proven, report>>

StartCandidate ==
    /\ pc = "start"
    /\ \E started \in ApplyOutcomes(candidate, Whole(candidate)) :
        /\ proc' = started.proc
        /\ activePath' = started.path
        /\ \/ /\ started.ok
              /\ Goto("health")
              /\ UNCHANGED <<state, saved, nft, faults, report>>
           \/ /\ ~started.ok
              /\ \E restored \in FirewallOutcomes(LastGoodBundle), unsaved \in {0, 1} :
                    /\ Spend(started.cost + restored.cost + unsaved)
                    /\ nft' = restored.nft
                    /\ Fail("failed", "failed", FALSE)
                    /\ SaveState(unsaved)
    /\ UNCHANGED <<want, file, nftOK, proven>>

(* The health window, sampled to its end                                   *)
SurviveWindow ==
    /\ pc = "health"
    /\ proven' = proven \cup {candidate}
    /\ Goto("rules")
    /\ UNCHANGED <<want, state, saved, file, proc, activePath, nft, nftOK,
                   faults, report>>

-----------------------------------------------------------------------------
(* The last-good files, in the order applyBundle writes them.              *)
Persist ==
    /\ \/ /\ pc = "rules"
          /\ file' = [file EXCEPT !.rules = candidate]
          /\ Goto("singbox")
       \/ /\ pc = "singbox"
          /\ file' = [file EXCEPT !.singbox = Whole(candidate)]
          /\ Goto("last-good")
       \/ /\ pc = "last-good"
          /\ file' = [file EXCEPT !.lastGood = Whole(candidate)]
          /\ Goto("bundle")
       \/ /\ pc = "bundle"
          /\ file' = [file EXCEPT !.bundle = candidate]
          /\ Goto("commit")
    /\ UNCHANGED <<want, state, saved, proc, activePath, nft, nftOK, faults,
                   proven, report>>

(* state.Save, and only then the positive ack                              *)
Commit ==
    /\ pc = "commit"
    /\ state' = [lastGood |-> candidate, applied |-> candidate,
                 sequence |-> state.sequence + 1, config_status |-> "in_sync"]
    /\ Finish
    /\ \/ /\ saved' = state'
          /\ report' = [stage |-> "succeeded", bundle |-> candidate, rollbackOK |-> FALSE]
          /\ UNCHANGED faults
       \/ /\ Spend(1)
          /\ UNCHANGED <<saved, report>>
    /\ UNCHANGED <<want, file, proc, activePath, nft, nftOK, proven>>

-----------------------------------------------------------------------------
(* rollback                                                                *)
FailWindow ==
    /\ pc = "health"
    /\ Spend(1)
    /\ proc' = NoConfig
    /\ Goto("rb_firewall")
    /\ UNCHANGED <<want, state, saved, file, activePath, nft, nftOK, proven, report>>

RollbackFirewall ==
    /\ pc = "rb_firewall"
    /\ \E restored \in FirewallOutcomes(LastGoodBundle) :
        /\ Spend(restored.cost)
        /\ nft' = restored.nft
        /\ nftOK' = restored.ok
    /\ Goto("rb_config")
    /\ UNCHANGED <<want, state, saved, file, proc, activePath, proven, report>>

(* ensureLastGoodConfig, and the copy to SingboxConfig whose failure is    *)
(* only logged                                                             *)
RollbackConfig ==
    /\ pc = "rb_config"
    /\ state.lastGood # 0
    /\ LET config == LastGoodConfig(state.lastGood)
       IN  \/ /\ file' = [file EXCEPT !.lastGood = config, !.singbox = config]
              /\ UNCHANGED faults
           \/ /\ file' = [file EXCEPT !.lastGood = config]
              /\ Spend(1)
    /\ Goto("rb_start")
    /\ UNCHANGED <<want, state, saved, proc, activePath, nft, nftOK, proven, report>>

EndRollback(rollbackOK, cost) ==
    \E unsaved \in {0, 1} :
        /\ Spend(cost + unsaved)
        /\ Fail(IF rollbackOK THEN "failed" ELSE "rollback_failed", "rolled_back", rollbackOK)
        /\ SaveState(unsaved)

(* There is no last-good bundle, or its configuration cannot be built.     *)
RollbackImpossible ==
    /\ pc = "rb_config"
    /\ EndRollback(FALSE, IF state.lastGood = 0 THEN 0 ELSE 1)
    /\ UNCHANGED <<want, file, proc, activePath, nft, nftOK, proven>>

(* Manager.Apply(last-good.json), whose `previous` is the failed           *)
(* candidate, and one health sample                                        *)
RollbackStart ==
    /\ pc = "rb_start"
    /\ \E started \in ApplyOutcomes(LastGoodPath, file.lastGood), unhealthy \in {0, 1} :
        /\ proc' = started.proc
        /\ activePath' = started.path
        /\ EndRollback(started.ok /\ unhealthy = 0 /\ nftOK, started.cost + unhealthy)
    /\ UNCHANGED <<want, file, nft, nftOK, proven>>

-----------------------------------------------------------------------------
(* The monitor dies.  systemd takes sing-box down with it; started by hand *)
(* sing-box may survive as a stray.                                        *)
Crash ==
    /\ Spend(1)
    /\ state' = saved
    /\ proc' \in {proc, NoConfig}
    /\ activePath' = NoPath
    /\ pc' = "boot"
    /\ candidate' = 0
    /\ UNCHANGED <<want, saved, file, nft, nftOK, proven, report>>

Bug_BootAdopts ==
    /\ pc = "boot"
    /\ LastGoodBundle # 0
    /\ state' = [state EXCEPT !.lastGood = LastGoodBundle, !.applied = file.bundle]
    /\ Goto("boot_start")
    /\ UNCHANGED <<want, saved, file, proc, activePath, nft, nftOK, faults, proven, report>>

(* restoreLastGood up to the copy to SingboxConfig; a failure on the way   *)
(* is logged and the monitor goes on.                                      *)
BootConfig ==
    /\ pc = "boot"
    /\ LastGoodBundle # 0
    /\ state' = [state EXCEPT !.lastGood = LastGoodBundle]
    /\ file' = [file EXCEPT !.lastGood = LastGoodConfig(LastGoodBundle),
                            !.singbox = LastGoodConfig(LastGoodBundle)]
    /\ Goto("boot_start")
    /\ UNCHANGED <<want, saved, proc, activePath, nft, nftOK, faults, proven, report>>

BootConfigFails ==
    /\ pc = "boot"
    /\ LastGoodBundle # 0
    /\ Spend(1)
    /\ state' = [state EXCEPT !.lastGood = LastGoodBundle]
    /\ file' \in {file, [file EXCEPT !.lastGood = LastGoodConfig(LastGoodBundle)]}
    /\ Finish
    /\ UNCHANGED <<want, saved, proc, activePath, nft, nftOK, proven, report>>

BootWithoutBundle ==
    /\ pc = "boot"
    /\ LastGoodBundle = 0
    /\ \E restored \in FirewallOutcomes(0) : Spend(restored.cost) /\ nft' = restored.nft
    /\ Finish
    /\ UNCHANGED <<want, state, saved, file, proc, activePath, nftOK, proven, report>>

BootStart ==
    /\ pc = "boot_start"
    /\ \E started \in ApplyOutcomes(LastGoodPath, file.lastGood) :
        /\ Spend(started.cost)
        /\ proc' = started.proc
        /\ activePath' = started.path
        /\ IF started.ok THEN Goto("boot_firewall") ELSE Finish
    /\ UNCHANGED <<want, state, saved, file, nft, nftOK, proven, report>>

BootFirewall ==
    /\ pc = "boot_firewall"
    /\ \E restored \in FirewallOutcomes(state.lastGood) :
        /\ Spend(restored.cost)
        /\ nft' = restored.nft
    /\ Finish
    /\ UNCHANGED <<want, state, saved, file, proc, activePath, nftOK, proven, report>>

(* sendHeartbeat saves the state.  (Like telemetry it also takes a         *)
(* sequence number, which only leaves a gap before that of the next ack.)  *)
Heartbeat ==
    /\ pc = "idle"
    /\ saved' = state
    /\ UNCHANGED <<want, state, file, proc, activePath, nft, pc, candidate,
                   nftOK, faults, proven, report>>

(* sing-box dies while the monitor is idle; nothing starts it again.       *)
ProcessDies ==
    /\ pc = "idle"
    /\ proc # NoConfig
    /\ Spend(1)
    /\ proc' = NoConfig
    /\ UNCHANGED <<want, state, saved, file, activePath, nft, pc, candidate,
                   nftOK, proven, report>>

-----------------------------------------------------------------------------
Progress ==
    \/ Poll \/ Check \/ ApplyFirewall \/ StartCandidate \/ SurviveWindow
    \/ Persist \/ Commit
    \/ RollbackFirewall \/ RollbackConfig \/ RollbackImpossible \/ RollbackStart
    \/ BootConfig \/ BootWithoutBundle \/ BootStart \/ BootFirewall

Next ==
    \/ Publish
    \/ Progress
    \/ RejectCandidate \/ DiscardCandidate \/ FirewallFails \/ FailWindow
    \/ Crash \/ BootConfigFails \/ Heartbeat \/ ProcessDies

Spec == Init /\ [][Next]_vars

(* The monitor runs poll and heartbeat in one goroutine without end, so it *)
(* takes its next step whenever it has one.                                *)
FairSpec == Spec /\ WF_vars(Progress)

-----------------------------------------------------------------------------
(* Safety                                                                  *)

(* README: last-good is not overwritten before the health window has       *)
(* passed.  Whatever fails or crashes, nothing the monitor would fall back *)
(* to was taken from a bundle that never survived its window.              *)
(* (applyBundle, rollback, restoreLastGood, ensureLastGoodConfig)          *)
LastGoodProven ==
    {file.rules, file.bundle, file.lastGood.out, file.lastGood.pol,
     file.singbox.out, file.singbox.pol, state.lastGood, saved.lastGood}
        \subseteq {0} \cup proven

(* README: the monitor keeps the last-good configuration when a new bundle *)
(* fails.  One failure of any kind leaves sing-box and nftables on the     *)
(* last-good bundle.  (applyBundle, Manager.Apply, rollback)               *)
KeepsLastGood ==
    /\ pc = "idle"
    /\ faults <= 1
    /\ report.stage \in {"failed", "rolled_back"}
    => /\ proc = Whole(state.lastGood)
       /\ nft = state.lastGood

(* The invariant of the last-good configuration: with its types, what may  *)
(* become last-good and when the node is on it.                            *)
MonitorInv == TypeOK /\ LastGoodProven /\ KeepsLastGood

RollsBack == pc = "rb_start" /\ pc' = "idle" /\ report'.rollbackOK

(* An ack with rollback_ok is right about policy: sing-box and nftables    *)
(* both enforce the last-good bundle's and the outbounds were proven, even *)
(* when earlier writes failed half-way.  (rollback)                        *)
RollbackRestoresPolicy ==
    [][RollsBack => /\ proc'.pol = state.lastGood
                    /\ nft' = state.lastGood
                    /\ proc'.out \in proven]_vars

(* This monitor is a NodeAgent, which Rollout composes with the control    *)
(* plane: steps inside applyBundle, rollback and restart are invisible.    *)
View(s) == [version |-> s.applied, release |-> s.applied,
            sequence |-> s.sequence, config_status |-> s.config_status]

Agent == INSTANCE NodeAgent WITH
    Node <- {"monitor"},
    Release <- 1..MaxBundle,
    NoRelease <- 0,
    mem <- [n \in {"monitor"} |-> View(state)],
    disk <- [n \in {"monitor"} |-> View(saved)],
    pending <- [n \in {"monitor"} |->
                  {[release |-> v, node |-> "monitor", version |-> v] :
                     v \in {candidate} \ {0}}]

ImplementsAgent == Agent!AgentSpec

(* Once failures are over the monitor reports the desired bundle and       *)
(* neither sing-box nor nftables enforces any other.  They may enforce     *)
(* none: sing-box that died and a table that could not be restored at      *)
(* start-up stay away until the next bundle.                               *)
(* (run, sync, applyBundle, restoreLastGood)                               *)
Converges ==
    <>[](/\ state.applied = want
         /\ nft \in {want, 0}
         /\ proc \in {Whole(want), NoConfig})
=============================================================================
