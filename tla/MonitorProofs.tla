--------------------------- MODULE MonitorProofs ---------------------------
(***************************************************************************)
(* What MonitorApply guarantees for any number of bundles and failures:    *)
(* its types, what may become last-good, what one failure leaves in force, *)
(* what an ack with rollback_ok says, and that the monitor is a NodeAgent. *)
(***************************************************************************)
EXTENDS MonitorApply, TLAPS

Persisting == {"rules", "singbox", "last-good", "bundle", "commit"}
RollingBack == {"rb_firewall", "rb_config", "rb_start"}

(* applyBundle works on a bundle, and never on one older than the applied  *)
(* one, which the control plane has desired at some time.                  *)
CandidateInv ==
    /\ state.applied <= want /\ saved.applied <= want
    /\ IF pc \in Applying
       THEN candidate # 0 /\ candidate <= want /\ state.applied <= candidate
       ELSE candidate = 0

(* The files are written from a bundle only after its health window, and a *)
(* last-good configuration without outbounds is no configuration.          *)
ProvenInv ==
    /\ LastGoodProven
    /\ pc \in Persisting => candidate \in proven
    /\ file.lastGood.out = 0 => file.lastGood = NoConfig

(* What rollback has restored so far                                       *)
RollbackInv ==
    /\ pc \in {"rb_config", "rb_start"} /\ state.lastGood # 0 /\ nftOK => nft = state.lastGood
    /\ pc = "rb_start" => /\ state.lastGood # 0
                          /\ file.lastGood.pol = state.lastGood
                          /\ file.lastGood.out # 0

(* Nothing failed but the bundle of the last ack, or the one rollback is   *)
(* busy with.                                                              *)
Clean ==
    \/ faults = 0
    \/ faults = 1 /\ (report.stage \in {"failed", "rolled_back"} \/ pc \in RollingBack)

(* Without any failure there is nothing to roll back and nothing to        *)
(* restore, and sing-box runs from the file of the last-good bundle until  *)
(* the candidate is started, and then from the candidate's.                *)
FaultFreeInv ==
    faults = 0 => /\ report.stage \in {"none", "succeeded"}
                  /\ pc \notin RollingBack \cup {"boot_start", "boot_firewall"}
                  /\ pc \in {"boot", "idle", "check", "firewall", "start"} =>
                        activePath = state.lastGood
                  /\ pc \in {"health"} \cup Persisting => activePath = candidate

(* What is in force and on disk at each step as long as Clean holds.       *)
CleanInv ==
    Clean =>
        /\ pc \notin {"boot_start", "boot_firewall"}
        /\ pc \in {"boot", "idle", "check", "firewall", "start"} =>
              proc = Whole(state.lastGood)
        /\ pc \in {"boot", "idle", "check", "firewall", "rb_config", "rb_start"} =>
              nft = state.lastGood
        /\ pc = "boot" => state.lastGood = 0
        /\ pc \in {"start", "health"} \cup Persisting => nft = candidate
        /\ pc \in {"health"} \cup Persisting => proc = Whole(candidate)
        /\ pc \in RollingBack => proc = NoConfig
        /\ file.lastGood = Whole(IF pc \in {"bundle", "commit"} THEN candidate ELSE state.lastGood)
        /\ file.bundle = (IF pc = "commit" THEN candidate ELSE state.lastGood)

IInv == /\ TypeOK /\ CandidateInv /\ ProvenInv /\ RollbackInv
        /\ FaultFreeInv /\ CleanInv

-----------------------------------------------------------------------------
(* What the outcomes of the process manager and of nftables have in common *)

LEMMA ApplyOutcome ==
    ASSUME TypeOK, NEW path \in 0..LastGoodPath, NEW content \in Config,
           NEW o \in ApplyOutcomes(path, content)
    PROVE  /\ o.ok \in BOOLEAN /\ o.proc \in Config
           /\ o.path \in 0..LastGoodPath /\ o.cost \in 0..2
           /\ o.ok => o.proc = content /\ o.path = path /\ o.cost = 0
           /\ ~o.ok => /\ o.cost >= 1
                       /\ o.cost = 1 => o.proc \in {proc, Content(activePath)}
<1>1. /\ NoConfig \in Config /\ proc \in Config /\ Content(activePath) \in Config
      /\ activePath \in 0..LastGoodPath
  BY BoundsAssumption
     DEF TypeOK, Content, NoConfig, Whole, Config, Files, NoPath, LastGoodPath, Version
<1>2. CASE o = [ok |-> TRUE, proc |-> content, path |-> path, cost |-> 0]
  BY <1>2
<1>3. CASE o = [ok |-> FALSE, proc |-> proc, path |-> activePath, cost |-> 1]
  BY <1>1, <1>3
<1>4. CASE o = [ok |-> FALSE, proc |-> Content(activePath), path |-> activePath, cost |-> 1]
  BY <1>1, <1>4
<1>5. ASSUME NEW launched \in {path, activePath},
             o = [ok |-> FALSE, proc |-> NoConfig, path |-> launched,
                  cost |-> IF activePath = NoPath THEN 1 ELSE 2]
      PROVE  /\ o.ok \in BOOLEAN /\ o.proc \in Config
             /\ o.path \in 0..LastGoodPath /\ o.cost \in 0..2
             /\ ~o.ok /\ o.cost >= 1
             /\ o.cost = 1 => o.proc = Content(activePath)
  BY <1>1, <1>5 DEF Content
<1> QED
  BY <1>2, <1>3, <1>4, <1>5 DEF ApplyOutcomes

LEMMA FirewallOutcome ==
    ASSUME TypeOK, NEW lastGood \in Version, NEW o \in FirewallOutcomes(lastGood)
    PROVE  /\ o.ok \in BOOLEAN /\ o.nft \in Version /\ o.cost \in 0..1
           /\ o.ok => o.nft = lastGood /\ o.cost = 0
           /\ ~o.ok => o.cost = 1
<1>1. CASE o = [ok |-> TRUE, nft |-> lastGood, cost |-> 0]
  BY <1>1
<1>2. CASE o = [ok |-> FALSE, nft |-> nft, cost |-> 1]
  BY <1>2 DEF TypeOK
<1>3. CASE o = [ok |-> FALSE, nft |-> 0, cost |-> 1]
  BY <1>3, BoundsAssumption DEF Version
<1> QED
  BY <1>1, <1>2, <1>3 DEF FirewallOutcomes

LEMMA SpendBounds ==
    ASSUME TypeOK, NEW cost \in Nat, Spend(cost)
    PROVE  /\ faults' \in 0..MaxFaults
           /\ faults' = faults + cost
BY BoundsAssumption DEF TypeOK, Spend

(* An ack of a failure changes neither what is applied nor what is         *)
(* last-good.                                                              *)
LEMMA FailEffect ==
    ASSUME TypeOK, NEW status \in {"failed", "rollback_failed"},
           NEW stage \in {"failed", "rolled_back"}, NEW ok \in BOOLEAN,
           Fail(status, stage, ok)
    PROVE  /\ state' \in State
           /\ state'.applied = state.applied /\ state'.lastGood = state.lastGood
           /\ state'.sequence = state.sequence + 1 /\ state'.config_status = status
           /\ report' \in Report /\ report'.stage = stage /\ report'.rollbackOK = ok
           /\ pc' = "idle" /\ candidate' = 0
<1>1. state \in State
  BY DEF TypeOK
<1>a. state' = [state EXCEPT !.sequence = @ + 1, !.config_status = status]
  BY DEF Fail
<1>b. state' = [lastGood |-> state.lastGood, applied |-> state.applied,
                sequence |-> state.sequence + 1, config_status |-> status]
  BY <1>1, <1>a DEF State
<1>2. /\ state' \in State
      /\ state'.applied = state.applied /\ state'.lastGood = state.lastGood
      /\ state'.sequence = state.sequence + 1 /\ state'.config_status = status
  BY <1>1, <1>b DEF State
<1>3. report' = [stage |-> stage, bundle |-> candidate, rollbackOK |-> ok]
  BY DEF Fail
<1>4. report' \in Report /\ report'.stage = stage /\ report'.rollbackOK = ok
  BY <1>3, Zenon DEF TypeOK, Report
<1> QED
  BY <1>2, <1>4 DEF Fail, Finish

LEMMA SaveEffect ==
    ASSUME NEW cost, SaveState(cost)
    PROVE  saved' \in {state', saved}
BY DEF SaveState

LEMMA LastGoodTypes ==
    ASSUME TypeOK
    PROVE  /\ LastGoodBundle \in Version
           /\ state.lastGood \in Version
           /\ \A v \in Version : Whole(v) \in Config /\ LastGoodConfig(v) \in Config
BY DEF TypeOK, State, Files, LastGoodBundle, LastGoodConfig, Whole, Config, Version

(* What EndRollback does, whatever Manager.Apply said                      *)
LEMMA EndRollbackEffect ==
    ASSUME TypeOK, NEW ok \in BOOLEAN, NEW cost \in Nat, EndRollback(ok, cost)
    PROVE  /\ faults' \in 0..MaxFaults /\ faults' >= faults + cost
           /\ state' \in State
           /\ state'.applied = state.applied /\ state'.lastGood = state.lastGood
           /\ state'.sequence = state.sequence + 1
           /\ state'.config_status = IF ok THEN "failed" ELSE "rollback_failed"
           /\ report' \in Report /\ report'.stage = "rolled_back" /\ report'.rollbackOK = ok
           /\ pc' = "idle" /\ candidate' = 0
           /\ saved' \in {state', saved}
<1>1. PICK unsaved \in {0, 1} :
        /\ Spend(cost + unsaved)
        /\ Fail(IF ok THEN "failed" ELSE "rollback_failed", "rolled_back", ok)
        /\ SaveState(unsaved)
  BY DEF EndRollback
<1>2. faults' \in 0..MaxFaults /\ faults' = faults + (cost + unsaved)
  BY <1>1, SpendBounds
<1>3. faults' >= faults + cost
  BY <1>1, <1>2 DEF TypeOK
<1> QED
  BY <1>1, <1>2, <1>3, FailEffect, SaveEffect

LEMMA FailKeepsTypes ==
    ASSUME TypeOK, NEW cost \in Nat, Spend(cost),
           Fail("failed", "failed", FALSE), NEW unsaved, SaveState(unsaved)
    PROVE  /\ faults' \in 0..MaxFaults /\ faults' = faults + cost
           /\ state' \in State /\ saved' \in State /\ report' \in Report
           /\ pc' = "idle" /\ candidate' = 0 /\ candidate' \in Version
<1>1. faults' \in 0..MaxFaults /\ faults' = faults + cost
  BY SpendBounds
<1>2. state' \in State /\ report' \in Report /\ pc' = "idle" /\ candidate' = 0
  BY FailEffect
<1>3. saved' \in State
  BY <1>2, SaveEffect DEF TypeOK
<1> QED
  BY <1>1, <1>2, <1>3, BoundsAssumption DEF Version

LEMMA EndRollbackKeepsTypes ==
    ASSUME TypeOK, NEW ok \in BOOLEAN, NEW cost \in Nat, EndRollback(ok, cost)
    PROVE  /\ faults' \in 0..MaxFaults
           /\ state' \in State /\ saved' \in State /\ report' \in Report
           /\ pc' = "idle" /\ candidate' \in Version
<1>1. /\ faults' \in 0..MaxFaults /\ state' \in State /\ report' \in Report
      /\ pc' = "idle" /\ candidate' = 0 /\ saved' \in {state', saved}
  BY EndRollbackEffect
<1> QED
  BY <1>1, BoundsAssumption DEF TypeOK, Version

-----------------------------------------------------------------------------
LEMMA TypeInit == Init => TypeOK
BY BoundsAssumption DEF Init, TypeOK, InitialState, State, Files, Report, NoConfig, Whole, Config,
     Version, NoPath, LastGoodPath, Applying, Booting

LEMMA TypeStep == TypeOK /\ [Next]_vars => TypeOK'
<1> SUFFICES ASSUME TypeOK, [Next]_vars PROVE TypeOK'
  OBVIOUS
<1> USE BoundsAssumption
<1>1. CASE UNCHANGED vars
  BY <1>1 DEF vars, TypeOK
<1>2. CASE Publish
  BY <1>2 DEF Publish, TypeOK, Version
<1>3. CASE Poll \/ Check \/ ApplyFirewall
  BY <1>3 DEF Poll, Check, ApplyFirewall, Goto, TypeOK, Applying
<1>4. CASE RejectCandidate
  <2>1. PICK unsaved \in {0, 1} : /\ Spend(1 + unsaved)
                                  /\ Fail("failed", "failed", FALSE)
                                  /\ SaveState(unsaved)
    BY <1>4 DEF RejectCandidate
  <2>2. 1 + unsaved \in Nat
    BY <2>1
  <2>3. /\ faults' \in 0..MaxFaults /\ state' \in State /\ saved' \in State
        /\ report' \in Report /\ pc' = "idle" /\ candidate' \in Version
    BY <2>1, <2>2, FailKeepsTypes
  <2> QED
    BY <1>4, <2>3 DEF RejectCandidate, TypeOK
<1>5. CASE DiscardCandidate \/ FailWindow \/ ProcessDies
  <2>1. faults' \in 0..MaxFaults
    BY <1>5, SpendBounds DEF DiscardCandidate, FailWindow, ProcessDies
  <2>2. NoConfig \in Config
    BY DEF NoConfig, Whole, Config, Version
  <2> QED
    <3>1. CASE DiscardCandidate
    BY <3>1, <2>1, <2>2 DEF DiscardCandidate, Finish, TypeOK, Version
    <3>2. CASE FailWindow
    BY <3>2, <2>1, <2>2 DEF FailWindow, Goto, TypeOK, Applying
    <3>3. CASE ProcessDies
    BY <3>3, <2>1, <2>2 DEF ProcessDies, TypeOK
    <3> QED BY <1>5, <3>1, <3>2, <3>3
<1>6. CASE FirewallFails
  <2>1. PICK restored \in FirewallOutcomes(LastGoodBundle), unsaved \in {0, 1} :
          /\ Spend(1 + restored.cost + unsaved)
          /\ nft' = IF restored.ok THEN restored.nft ELSE 0
          /\ Fail("failed", "failed", FALSE)
          /\ SaveState(unsaved)
    BY <1>6 DEF FirewallFails
  <2>2. restored.nft \in Version /\ restored.cost \in 0..1
    BY LastGoodTypes, FirewallOutcome
  <2>3. 1 + restored.cost + unsaved \in Nat
    BY <2>1, <2>2
  <2>4. /\ faults' \in 0..MaxFaults /\ state' \in State /\ saved' \in State
        /\ report' \in Report /\ pc' = "idle" /\ candidate' \in Version
    BY <2>1, <2>3, FailKeepsTypes
  <2> QED
    BY <1>6, <2>1, <2>2, <2>4 DEF FirewallFails, TypeOK, Version
<1>7. CASE StartCandidate
  <2>1. candidate \in 0..LastGoodPath /\ Whole(candidate) \in Config
    BY LastGoodTypes DEF TypeOK, Version, LastGoodPath
  <2>2. PICK started \in ApplyOutcomes(candidate, Whole(candidate)) :
          /\ proc' = started.proc
          /\ activePath' = started.path
          /\ \/ /\ started.ok
                /\ Goto("health")
                /\ UNCHANGED <<state, saved, nft, faults, report>>
             \/ /\ ~started.ok
                /\ \E restored \in FirewallOutcomes(LastGoodBundle), unsaved \in {0, 1} :
                      /\ Spend(started.cost + restored.cost + unsaved)
                      /\ nft' = restored.nft
                      /\ Fail("failed", "failed", FALSE)
                      /\ SaveState(unsaved)
    BY <1>7 DEF StartCandidate
  <2>3. started.proc \in Config /\ started.path \in 0..LastGoodPath /\ started.cost \in 0..2
    BY <2>1, ApplyOutcome
  <2>4. CASE Goto("health") /\ UNCHANGED <<state, saved, nft, faults, report>>
    BY <1>7, <2>2, <2>3, <2>4 DEF StartCandidate, Goto, TypeOK, Applying
  <2>5. ASSUME NEW restored \in FirewallOutcomes(LastGoodBundle), NEW unsaved \in {0, 1},
               Spend(started.cost + restored.cost + unsaved), nft' = restored.nft,
               Fail("failed", "failed", FALSE), SaveState(unsaved)
        PROVE  TypeOK'
    <3>1. restored.nft \in Version /\ restored.cost \in 0..1
      BY LastGoodTypes, FirewallOutcome
    <3>2. started.cost + restored.cost + unsaved \in Nat
      BY <2>3, <2>5, <3>1
    <3>3. /\ faults' \in 0..MaxFaults /\ state' \in State /\ saved' \in State
          /\ report' \in Report /\ pc' = "idle" /\ candidate' \in Version
      BY <2>5, <3>2, FailKeepsTypes
    <3> QED
      BY <1>7, <2>2, <2>3, <2>5, <3>1, <3>3 DEF StartCandidate, TypeOK
  <2> QED
    BY <2>2, <2>4, <2>5
<1>8. CASE SurviveWindow
  BY <1>8 DEF SurviveWindow, Goto, TypeOK, Applying
<1>9. CASE Persist
  BY <1>9, LastGoodTypes DEF Persist, Goto, TypeOK, Applying, Files
<1>10. CASE Commit
  <2>1. state' \in State
    BY <1>10 DEF Commit, TypeOK, State
  <2>2. faults' \in 0..MaxFaults
    BY <1>10, SpendBounds DEF Commit, TypeOK
  <2>3. saved' \in State
    BY <1>10, <2>1 DEF Commit, TypeOK
  <2>4. report' \in Report
    <3>1. CASE UNCHANGED report
      BY <3>1 DEF TypeOK
    <3>2. CASE report' = [stage |-> "succeeded", bundle |-> candidate, rollbackOK |-> FALSE]
      BY <3>2 DEF TypeOK, Report
    <3> QED BY <1>10, <3>1, <3>2 DEF Commit
  <2> QED
    BY <1>10, <2>1, <2>2, <2>3, <2>4 DEF Commit, Finish, TypeOK, Version
<1>11. CASE RollbackFirewall
  <2>1. PICK restored \in FirewallOutcomes(LastGoodBundle) :
          Spend(restored.cost) /\ nft' = restored.nft /\ nftOK' = restored.ok
    BY <1>11 DEF RollbackFirewall
  <2>2. restored.nft \in Version /\ restored.cost \in 0..1 /\ restored.ok \in BOOLEAN
    BY LastGoodTypes, FirewallOutcome
  <2> QED
    BY <1>11, <2>1, <2>2, SpendBounds DEF RollbackFirewall, Goto, TypeOK, Applying
<1>12. CASE RollbackConfig
  <2>1. faults' \in 0..MaxFaults
    BY <1>12, SpendBounds DEF RollbackConfig, TypeOK
  <2>2. file' \in Files
    BY <1>12, LastGoodTypes DEF RollbackConfig, TypeOK, Files
  <2> QED
    BY <1>12, <2>1, <2>2 DEF RollbackConfig, Goto, TypeOK, Applying
<1>13. CASE RollbackImpossible
  <2>1. EndRollback(FALSE, IF state.lastGood = 0 THEN 0 ELSE 1)
    BY <1>13 DEF RollbackImpossible
  <2> QED
    BY <1>13, <2>1, EndRollbackKeepsTypes DEF RollbackImpossible, TypeOK
<1>14. CASE RollbackStart
  <2>1. LastGoodPath \in 0..LastGoodPath /\ file.lastGood \in Config
    BY DEF TypeOK, Files, LastGoodPath
  <2>2. PICK started \in ApplyOutcomes(LastGoodPath, file.lastGood), unhealthy \in {0, 1} :
          /\ proc' = started.proc
          /\ activePath' = started.path
          /\ EndRollback(started.ok /\ unhealthy = 0 /\ nftOK, started.cost + unhealthy)
    BY <1>14 DEF RollbackStart
  <2>3. started.proc \in Config /\ started.path \in 0..LastGoodPath /\ started.cost \in 0..2
    BY <2>1, ApplyOutcome
  <2>4. /\ started.cost + unhealthy \in Nat
        /\ (started.ok /\ unhealthy = 0 /\ nftOK) \in BOOLEAN
    BY <2>2, <2>3
  <2>5. /\ faults' \in 0..MaxFaults /\ state' \in State /\ saved' \in State
        /\ report' \in Report /\ pc' = "idle" /\ candidate' \in Version
    BY <2>2, <2>4, EndRollbackKeepsTypes
  <2> QED
    BY <1>14, <2>2, <2>3, <2>5 DEF RollbackStart, TypeOK
<1>15. CASE Crash
  <2>1. faults' \in 0..MaxFaults
    BY <1>15, SpendBounds DEF Crash
  <2> QED
    BY <1>15, <2>1 DEF Crash, TypeOK, Booting, NoPath, LastGoodPath, NoConfig, Whole, Config, Version
<1>16. CASE BootConfig
  BY <1>16, LastGoodTypes DEF BootConfig, Goto, TypeOK, Booting, State, Files
<1>17. CASE BootConfigFails
  <2>1. faults' \in 0..MaxFaults
    BY <1>17, SpendBounds DEF BootConfigFails
  <2>2. state' \in State /\ file' \in Files
    BY <1>17, LastGoodTypes DEF BootConfigFails, TypeOK, State, Files
  <2> QED
    BY <1>17, <2>1, <2>2 DEF BootConfigFails, Finish, TypeOK, Version
<1>18. CASE BootWithoutBundle
  <2>1. PICK restored \in FirewallOutcomes(0) : Spend(restored.cost) /\ nft' = restored.nft
    BY <1>18 DEF BootWithoutBundle
  <2>2. restored.nft \in Version /\ restored.cost \in 0..1
    BY FirewallOutcome DEF Version
  <2> QED
    BY <1>18, <2>1, <2>2, SpendBounds DEF BootWithoutBundle, Finish, TypeOK, Version
<1>19. CASE BootStart
  <2>1. LastGoodPath \in 0..LastGoodPath /\ file.lastGood \in Config
    BY DEF TypeOK, Files, LastGoodPath
  <2>2. PICK started \in ApplyOutcomes(LastGoodPath, file.lastGood) :
          /\ Spend(started.cost)
          /\ proc' = started.proc
          /\ activePath' = started.path
          /\ IF started.ok THEN Goto("boot_firewall") ELSE Finish
    BY <1>19 DEF BootStart
  <2>3. started.proc \in Config /\ started.path \in 0..LastGoodPath /\ started.cost \in 0..2
    BY <2>1, ApplyOutcome
  <2> QED
    BY <1>19, <2>2, <2>3, SpendBounds DEF BootStart, Goto, Finish, TypeOK, Booting, Version
<1>20. CASE BootFirewall
  <2>1. PICK restored \in FirewallOutcomes(state.lastGood) :
          Spend(restored.cost) /\ nft' = restored.nft
    BY <1>20 DEF BootFirewall
  <2>2. restored.nft \in Version /\ restored.cost \in 0..1
    BY FirewallOutcome, LastGoodTypes
  <2> QED
    BY <1>20, <2>1, <2>2, SpendBounds DEF BootFirewall, Finish, TypeOK, Version
<1>21. CASE Heartbeat
  BY <1>21 DEF Heartbeat, TypeOK
<1> QED
  BY <1>1, <1>2, <1>3, <1>4, <1>5, <1>6, <1>7, <1>8, <1>9, <1>10, <1>11, <1>12, <1>13,
     <1>14, <1>15, <1>16, <1>17, <1>18, <1>19, <1>20, <1>21 DEF Next, Progress

(* Every variable of the monitor has its type.                             *)
THEOREM MonitorTypeCorrect == Spec => []TypeOK
BY TypeInit, TypeStep, PTL DEF Spec

-----------------------------------------------------------------------------
(* What the operations that may fail do, said of their outcome             *)

(* A failure is reported: applyBundle is over, and nothing applied or kept *)
(* as last-good has changed.                                               *)
Reported(stage) ==
    /\ state'.applied = state.applied /\ state'.lastGood = state.lastGood
    /\ state'.sequence = state.sequence + 1
    /\ state'.config_status \in {"failed", "rollback_failed"}
    /\ saved' \in {state', saved}
    /\ report'.stage = stage
    /\ pc' = "idle" /\ candidate' = 0
    /\ UNCHANGED <<want, file, proven>>

LEMMA RejectEffect ==
    ASSUME TypeOK, RejectCandidate
    PROVE  /\ Reported("failed")
           /\ faults' >= faults + 1
           /\ UNCHANGED <<proc, activePath, nft>>
<1>1. PICK unsaved \in {0, 1} : /\ Spend(1 + unsaved)
                                /\ Fail("failed", "failed", FALSE)
                                /\ SaveState(unsaved)
  BY DEF RejectCandidate
<1>2. faults' = faults + (1 + unsaved)
  BY <1>1 DEF Spend
<1>3. faults' >= faults + 1
  BY <1>1, <1>2 DEF TypeOK
<1> QED
  BY <1>1, <1>3, FailEffect, SaveEffect DEF RejectCandidate, Reported

LEMMA FirewallFailsEffect ==
    ASSUME TypeOK, FirewallFails
    PROVE  /\ Reported("failed")
           /\ faults' >= faults + 1
           /\ faults' = faults + 1 => nft' = LastGoodBundle
           /\ UNCHANGED <<proc, activePath>>
<1>1. PICK restored \in FirewallOutcomes(LastGoodBundle), unsaved \in {0, 1} :
        /\ Spend(1 + restored.cost + unsaved)
        /\ nft' = IF restored.ok THEN restored.nft ELSE 0
        /\ Fail("failed", "failed", FALSE)
        /\ SaveState(unsaved)
  BY DEF FirewallFails
<1>2. /\ restored.ok \in BOOLEAN /\ restored.cost \in 0..1
      /\ restored.ok => restored.nft = LastGoodBundle
      /\ ~restored.ok => restored.cost = 1
  BY LastGoodTypes, FirewallOutcome
<1>3. faults' = faults + (1 + restored.cost + unsaved)
  BY <1>1 DEF Spend
<1>4. faults' >= faults + 1 /\ (faults' = faults + 1 => restored.cost = 0)
  BY <1>1, <1>2, <1>3 DEF TypeOK
<1>5. faults' = faults + 1 => nft' = LastGoodBundle
  BY <1>1, <1>2, <1>4
<1>6. Reported("failed")
  BY <1>1, FailEffect, SaveEffect DEF FirewallFails, Reported
<1> QED
  BY <1>4, <1>5, <1>6 DEF FirewallFails

LEMMA StartEffect ==
    ASSUME TypeOK, StartCandidate
    PROVE  \/ /\ pc' = "health" /\ candidate' = candidate
              /\ proc' = Whole(candidate) /\ activePath' = candidate
              /\ UNCHANGED <<want, state, saved, file, nft, faults, proven, report>>
           \/ /\ Reported("failed")
              /\ faults' >= faults + 1
              /\ faults' = faults + 1 => /\ nft' = LastGoodBundle
                                         /\ proc' \in {proc, Content(activePath)}
<1>1. candidate \in 0..LastGoodPath /\ Whole(candidate) \in Config
  BY LastGoodTypes, BoundsAssumption DEF TypeOK, Version, LastGoodPath
<1>2. PICK started \in ApplyOutcomes(candidate, Whole(candidate)) :
        /\ proc' = started.proc
        /\ activePath' = started.path
        /\ \/ /\ started.ok
              /\ Goto("health")
              /\ UNCHANGED <<state, saved, nft, faults, report>>
           \/ /\ ~started.ok
              /\ \E restored \in FirewallOutcomes(LastGoodBundle), unsaved \in {0, 1} :
                    /\ Spend(started.cost + restored.cost + unsaved)
                    /\ nft' = restored.nft
                    /\ Fail("failed", "failed", FALSE)
                    /\ SaveState(unsaved)
  BY DEF StartCandidate
<1>3. /\ started.cost \in 0..2
      /\ started.ok => started.proc = Whole(candidate) /\ started.path = candidate
      /\ ~started.ok => /\ started.cost >= 1
                        /\ started.cost = 1 => started.proc \in {proc, Content(activePath)}
  BY <1>1, ApplyOutcome
<1>4. CASE started.ok
  BY <1>2, <1>3, <1>4 DEF StartCandidate, Goto
<1>5. CASE ~started.ok
  <2>1. PICK restored \in FirewallOutcomes(LastGoodBundle), unsaved \in {0, 1} :
          /\ Spend(started.cost + restored.cost + unsaved)
          /\ nft' = restored.nft
          /\ Fail("failed", "failed", FALSE)
          /\ SaveState(unsaved)
    BY <1>2, <1>5
  <2>2. /\ restored.ok \in BOOLEAN /\ restored.cost \in 0..1
        /\ restored.ok => restored.nft = LastGoodBundle
        /\ ~restored.ok => restored.cost = 1
    BY LastGoodTypes, FirewallOutcome
  <2>3. faults' = faults + (started.cost + restored.cost + unsaved)
    BY <2>1 DEF Spend
  <2>4. /\ faults' >= faults + 1
        /\ faults' = faults + 1 => started.cost = 1 /\ restored.cost = 0
    BY <1>3, <1>5, <2>1, <2>2, <2>3 DEF TypeOK
  <2>5. faults' = faults + 1 => nft' = LastGoodBundle /\ proc' \in {proc, Content(activePath)}
    BY <1>2, <1>3, <1>5, <2>1, <2>2, <2>4
  <2>6. Reported("failed")
    BY <2>1, FailEffect, SaveEffect DEF StartCandidate, Reported
  <2> QED
    BY <2>4, <2>5, <2>6
<1> QED
  BY <1>4, <1>5

LEMMA RollbackFirewallEffect ==
    ASSUME TypeOK, RollbackFirewall
    PROVE  /\ faults' >= faults
           /\ nftOK' => nft' = LastGoodBundle
           /\ faults' = faults => nft' = LastGoodBundle
<1>1. PICK restored \in FirewallOutcomes(LastGoodBundle) :
        Spend(restored.cost) /\ nft' = restored.nft /\ nftOK' = restored.ok
  BY DEF RollbackFirewall
<1>2. /\ restored.ok \in BOOLEAN /\ restored.cost \in 0..1
      /\ restored.ok => restored.nft = LastGoodBundle
      /\ ~restored.ok => restored.cost = 1
  BY LastGoodTypes, FirewallOutcome
<1>3. faults' = faults + restored.cost
  BY <1>1 DEF Spend
<1>4. faults' >= faults /\ (faults' = faults => restored.cost = 0)
  BY <1>2, <1>3 DEF TypeOK
<1> QED
  BY <1>1, <1>2, <1>4

LEMMA RollbackImpossibleEffect ==
    ASSUME TypeOK, RollbackImpossible
    PROVE  /\ Reported("rolled_back")
           /\ faults' >= faults
           /\ faults' = faults => state.lastGood = 0
           /\ UNCHANGED <<proc, activePath, nft>>
<1> DEFINE cost == IF state.lastGood = 0 THEN 0 ELSE 1
<1>1. cost \in Nat /\ EndRollback(FALSE, cost)
  BY DEF RollbackImpossible
<1>2. /\ faults' \in 0..MaxFaults /\ faults' >= faults + cost
      /\ state'.applied = state.applied /\ state'.lastGood = state.lastGood
      /\ state'.sequence = state.sequence + 1
      /\ state'.config_status \in {"failed", "rollback_failed"}
      /\ report'.stage = "rolled_back"
      /\ pc' = "idle" /\ candidate' = 0
      /\ saved' \in {state', saved}
  BY <1>1, EndRollbackEffect
<1>3. faults' >= faults /\ (faults' = faults => state.lastGood = 0)
  BY <1>2, BoundsAssumption DEF TypeOK
<1> QED
  BY <1>2, <1>3 DEF RollbackImpossible, Reported

LEMMA RollbackStartEffect ==
    ASSUME TypeOK, RollbackStart
    PROVE  /\ Reported("rolled_back")
           /\ faults' >= faults
           /\ faults' = faults => proc' = file.lastGood
           /\ report'.rollbackOK => nftOK /\ proc' = file.lastGood
           /\ nft' = nft
<1>1. LastGoodPath \in 0..LastGoodPath /\ file.lastGood \in Config
  BY BoundsAssumption DEF TypeOK, Files, LastGoodPath
<1>2. PICK started \in ApplyOutcomes(LastGoodPath, file.lastGood), unhealthy \in {0, 1} :
        /\ proc' = started.proc
        /\ EndRollback(started.ok /\ unhealthy = 0 /\ nftOK, started.cost + unhealthy)
  BY DEF RollbackStart
<1> DEFINE ok == started.ok /\ unhealthy = 0 /\ nftOK
           cost == started.cost + unhealthy
<1>3. /\ started.ok \in BOOLEAN /\ started.cost \in 0..2
      /\ started.ok => started.proc = file.lastGood
      /\ ~started.ok => started.cost >= 1
  BY <1>1, ApplyOutcome
<1>4. ok \in BOOLEAN /\ cost \in Nat /\ EndRollback(ok, cost)
  BY <1>2, <1>3
<1>5. /\ faults' \in 0..MaxFaults /\ faults' >= faults + cost
      /\ state'.applied = state.applied /\ state'.lastGood = state.lastGood
      /\ state'.sequence = state.sequence + 1
      /\ state'.config_status \in {"failed", "rollback_failed"}
      /\ report'.stage = "rolled_back" /\ report'.rollbackOK = ok
      /\ pc' = "idle" /\ candidate' = 0
      /\ saved' \in {state', saved}
  BY <1>4, EndRollbackEffect
<1>6. faults' >= faults /\ (faults' = faults => started.cost = 0)
  BY <1>2, <1>3, <1>5, BoundsAssumption DEF TypeOK
<1>7. faults' = faults => proc' = file.lastGood
  BY <1>2, <1>3, <1>6
<1>8. report'.rollbackOK => nftOK /\ proc' = file.lastGood
  BY <1>2, <1>3, <1>5
<1> QED
  BY <1>5, <1>6, <1>7, <1>8 DEF RollbackStart, Reported

LEMMA BootEffect ==
    ASSUME TypeOK, BootWithoutBundle \/ BootStart \/ BootFirewall
    PROVE  /\ faults' >= faults
           /\ faults' = faults /\ BootWithoutBundle => nft' = 0
<1>1. CASE BootWithoutBundle
  <2>1. PICK restored \in FirewallOutcomes(0) : Spend(restored.cost) /\ nft' = restored.nft
    BY <1>1 DEF BootWithoutBundle
  <2>2. /\ restored.ok \in BOOLEAN /\ restored.cost \in 0..1
        /\ restored.ok => restored.nft = 0
        /\ ~restored.ok => restored.cost = 1
    BY FirewallOutcome, BoundsAssumption DEF Version
  <2>3. faults' = faults + restored.cost
    BY <2>1 DEF Spend
  <2>4. faults' >= faults /\ (faults' = faults => restored.cost = 0)
    BY <2>2, <2>3 DEF TypeOK
  <2> QED
    BY <2>1, <2>2, <2>4
<1>2. CASE BootStart
  <2>1. LastGoodPath \in 0..LastGoodPath /\ file.lastGood \in Config
    BY BoundsAssumption DEF TypeOK, Files, LastGoodPath
  <2>2. PICK started \in ApplyOutcomes(LastGoodPath, file.lastGood) : Spend(started.cost)
    BY <1>2 DEF BootStart
  <2>3. started.cost \in 0..2
    BY <2>1, ApplyOutcome
  <2>4. faults' >= faults
    BY <2>2, <2>3 DEF Spend, TypeOK
  <2> QED
    BY <1>2, <2>4 DEF BootStart, BootWithoutBundle
<1>3. CASE BootFirewall
  <2>1. PICK restored \in FirewallOutcomes(state.lastGood) : Spend(restored.cost)
    BY <1>3 DEF BootFirewall
  <2>2. restored.cost \in 0..1
    BY FirewallOutcome, LastGoodTypes
  <2>3. faults' >= faults
    BY <2>1, <2>2 DEF Spend, TypeOK
  <2> QED
    BY <1>3, <2>3 DEF BootFirewall, BootWithoutBundle
<1> QED
  BY <1>1, <1>2, <1>3

-----------------------------------------------------------------------------
(* The parts of the inductive invariant, one lemma each                    *)

LEMMA CandidateStep == TypeOK /\ CandidateInv /\ [Next]_vars => CandidateInv'
<1> SUFFICES ASSUME TypeOK, CandidateInv, [Next]_vars PROVE CandidateInv'
  OBVIOUS
<1> USE BoundsAssumption DEF Applying, CandidateInv
<1>a. /\ want \in Nat /\ candidate \in Nat
      /\ state.applied \in Nat /\ saved.applied \in Nat
  BY DEF TypeOK, State, Version
<1>1. CASE UNCHANGED vars
  BY <1>1 DEF vars
<1>2. CASE Publish
  BY <1>2, <1>a DEF Publish
<1>3. CASE Poll \/ Check \/ ApplyFirewall
  BY <1>3, <1>a DEF Poll, Check, ApplyFirewall, Goto
<1>4. CASE RejectCandidate
  BY <1>4, RejectEffect DEF Reported
<1>5. CASE FirewallFails
  BY <1>5, FirewallFailsEffect DEF Reported
<1>6. CASE StartCandidate
  <2>1. pc = "start"
    BY <1>6 DEF StartCandidate
  <2> QED
    BY <2>1, <1>6, StartEffect DEF Reported
<1>7. CASE DiscardCandidate \/ FailWindow \/ ProcessDies
  BY <1>7 DEF DiscardCandidate, FailWindow, ProcessDies, Finish, Goto
<1>8. CASE SurviveWindow \/ Persist
  BY <1>8 DEF SurviveWindow, Persist, Goto
<1>9. CASE Commit
  BY <1>9, <1>a DEF Commit, Finish
<1>10. CASE RollbackFirewall \/ RollbackConfig
  BY <1>10 DEF RollbackFirewall, RollbackConfig, Goto
<1>11. CASE RollbackImpossible
  BY <1>11, RollbackImpossibleEffect DEF Reported
<1>12. CASE RollbackStart
  BY <1>12, RollbackStartEffect DEF Reported
<1>13. CASE Crash
  BY <1>13 DEF Crash
<1>14. CASE BootConfig \/ BootConfigFails
  BY <1>14 DEF BootConfig, BootConfigFails, Goto, Finish, TypeOK, State
<1>15. CASE BootWithoutBundle \/ BootStart \/ BootFirewall
  BY <1>15 DEF BootWithoutBundle, BootStart, BootFirewall, Goto, Finish
<1>16. CASE Heartbeat
  BY <1>16 DEF Heartbeat
<1> QED
  BY <1>1, <1>2, <1>3, <1>4, <1>5, <1>6, <1>7, <1>8, <1>9, <1>10, <1>11,
     <1>12, <1>13, <1>14, <1>15, <1>16 DEF Next, Progress

(* ensureLastGoodConfig builds on proven parts only.                       *)
LEMMA LastGoodConfigProven ==
    ASSUME TypeOK, ProvenInv, NEW v \in Version, v # 0, v \in proven
    PROVE  LET config == LastGoodConfig(v)
           IN  /\ config.out \in proven /\ config.pol = v /\ config.out # 0
BY DEF LastGoodConfig, Whole, NoConfig, ProvenInv, LastGoodProven, TypeOK, Files, Config

LEMMA ProvenStep == TypeOK /\ CandidateInv /\ ProvenInv /\ [Next]_vars => ProvenInv'
<1> SUFFICES ASSUME TypeOK, CandidateInv, ProvenInv, [Next]_vars PROVE ProvenInv'
  OBVIOUS
<1> USE DEF Persisting, ProvenInv, LastGoodProven, NoConfig, Whole
<1>a. state \in State /\ saved \in State /\ file \in Files
  BY DEF TypeOK
<1>1. CASE UNCHANGED vars
  BY <1>1 DEF vars
<1>2. CASE Publish \/ Poll \/ Check \/ ApplyFirewall \/ Heartbeat
  BY <1>2 DEF Publish, Poll, Check, ApplyFirewall, Heartbeat, Goto
<1>3. CASE RejectCandidate
  BY <1>3, RejectEffect DEF Reported
<1>4. CASE FirewallFails
  BY <1>4, FirewallFailsEffect DEF Reported
<1>5. CASE StartCandidate
  BY <1>5, StartEffect DEF Reported
<1>6. CASE DiscardCandidate \/ FailWindow \/ ProcessDies
  BY <1>6 DEF DiscardCandidate, FailWindow, ProcessDies, Finish, Goto
<1>7. CASE SurviveWindow
  BY <1>7 DEF SurviveWindow, Goto
<1>8. CASE Persist
  BY <1>8, <1>a DEF Persist, Goto, Files, Config, CandidateInv, Applying
<1>9. CASE Commit
  BY <1>9 DEF Commit, Finish
<1>10. CASE RollbackFirewall
  BY <1>10 DEF RollbackFirewall, Goto
<1>11. CASE RollbackConfig
  <2> DEFINE config == LastGoodConfig(state.lastGood)
  <2>1. /\ state.lastGood \in Version /\ state.lastGood # 0 /\ state.lastGood \in proven
    BY <1>11, <1>a DEF RollbackConfig, State
  <2>2. config.out \in proven /\ config.pol \in proven /\ config.out # 0
    BY <2>1, LastGoodConfigProven
  <2>3. file' \in {[file EXCEPT !.lastGood = config, !.singbox = config],
                   [file EXCEPT !.lastGood = config]}
    BY <1>11 DEF RollbackConfig
  <2>4. /\ file'.lastGood = config /\ file'.singbox \in {config, file.singbox}
        /\ file'.rules = file.rules /\ file'.bundle = file.bundle
    BY <1>a, <2>3 DEF Files
  <2>5. UNCHANGED <<state, saved, proven>> /\ pc' = "rb_start"
    BY <1>11 DEF RollbackConfig, Goto
  <2> HIDE DEF config
  <2> QED
    BY <2>2, <2>4, <2>5
<1>12. CASE RollbackImpossible
  BY <1>12, RollbackImpossibleEffect DEF Reported
<1>13. CASE RollbackStart
  BY <1>13, RollbackStartEffect DEF Reported
<1>14. CASE Crash
  BY <1>14 DEF Crash
<1>15. CASE BootConfig \/ BootConfigFails
  <2> DEFINE config == LastGoodConfig(LastGoodBundle)
  <2>1. /\ LastGoodBundle \in Version /\ LastGoodBundle # 0 /\ LastGoodBundle \in proven
    BY <1>15, <1>a DEF BootConfig, BootConfigFails, State, Files, LastGoodBundle
  <2>2. config.out \in proven /\ config.pol \in proven /\ config.out # 0
    BY <2>1, LastGoodConfigProven
  <2>3. file' \in {file, [file EXCEPT !.lastGood = config],
                   [file EXCEPT !.lastGood = config, !.singbox = config]}
    BY <1>15 DEF BootConfig, BootConfigFails
  <2>4. /\ file'.lastGood \in {config, file.lastGood}
        /\ file'.singbox \in {config, file.singbox}
        /\ file'.rules = file.rules /\ file'.bundle = file.bundle
    BY <1>a, <2>3 DEF Files
  <2>5. state'.lastGood = LastGoodBundle
    BY <1>15, <1>a DEF BootConfig, BootConfigFails, State
  <2>6. UNCHANGED <<saved, proven>> /\ pc' \in {"boot_start", "idle"}
    BY <1>15 DEF BootConfig, BootConfigFails, Goto, Finish
  <2> HIDE DEF config
  <2> QED
    BY <2>1, <2>2, <2>4, <2>5, <2>6
<1>16. CASE BootWithoutBundle \/ BootStart \/ BootFirewall
  BY <1>16 DEF BootWithoutBundle, BootStart, BootFirewall, Goto, Finish
<1> QED
  BY <1>1, <1>2, <1>3, <1>4, <1>5, <1>6, <1>7, <1>8, <1>9, <1>10, <1>11,
     <1>12, <1>13, <1>14, <1>15, <1>16 DEF Next, Progress

LEMMA RollbackStep == TypeOK /\ ProvenInv /\ RollbackInv /\ [Next]_vars => RollbackInv'
<1> SUFFICES ASSUME TypeOK, ProvenInv, RollbackInv, [Next]_vars PROVE RollbackInv'
  OBVIOUS
<1> USE DEF RollbackInv
<1>1. CASE UNCHANGED vars
  BY <1>1 DEF vars
<1>2. CASE Publish \/ Heartbeat
  BY <1>2 DEF Publish, Heartbeat
<1>3. CASE Poll \/ Check \/ ApplyFirewall
  BY <1>3 DEF Poll, Check, ApplyFirewall, Goto
<1>4. CASE RejectCandidate
  BY <1>4, RejectEffect DEF Reported
<1>5. CASE FirewallFails
  BY <1>5, FirewallFailsEffect DEF Reported
<1>6. CASE StartCandidate
  BY <1>6, StartEffect DEF Reported
<1>7. CASE DiscardCandidate \/ FailWindow \/ ProcessDies
  BY <1>7 DEF DiscardCandidate, FailWindow, ProcessDies, Finish, Goto
<1>8. CASE SurviveWindow \/ Persist
  BY <1>8 DEF SurviveWindow, Persist, Goto
<1>9. CASE Commit
  BY <1>9 DEF Commit, Finish
<1>10. CASE RollbackFirewall
  <2>1. nftOK' => nft' = LastGoodBundle
    BY <1>10, RollbackFirewallEffect
  <2> QED
    BY <1>10, <2>1 DEF RollbackFirewall, Goto, LastGoodBundle
<1>11. CASE RollbackConfig
  <2>1. /\ file'.lastGood = LastGoodConfig(state.lastGood)
        /\ pc = "rb_config" /\ pc' = "rb_start" /\ state.lastGood # 0
        /\ UNCHANGED <<state, nft, nftOK>>
    BY <1>11 DEF RollbackConfig, Goto, TypeOK, Files
  <2>2. /\ LastGoodConfig(state.lastGood).pol = state.lastGood
        /\ LastGoodConfig(state.lastGood).out # 0
    BY <2>1 DEF LastGoodConfig, Whole, NoConfig, ProvenInv
  <2> QED
    BY <2>1, <2>2
<1>12. CASE RollbackImpossible
  BY <1>12, RollbackImpossibleEffect DEF Reported
<1>13. CASE RollbackStart
  BY <1>13, RollbackStartEffect DEF Reported
<1>14. CASE Crash
  BY <1>14 DEF Crash
<1>15. CASE BootConfig \/ BootConfigFails
  BY <1>15 DEF BootConfig, BootConfigFails, Goto, Finish
<1>16. CASE BootWithoutBundle \/ BootStart \/ BootFirewall
  BY <1>16 DEF BootWithoutBundle, BootStart, BootFirewall, Goto, Finish
<1> QED
  BY <1>1, <1>2, <1>3, <1>4, <1>5, <1>6, <1>7, <1>8, <1>9, <1>10, <1>11,
     <1>12, <1>13, <1>14, <1>15, <1>16 DEF Next, Progress

LEMMA FaultFreeStep ==
    TypeOK /\ CleanInv /\ FaultFreeInv /\ [Next]_vars => FaultFreeInv'
<1> SUFFICES ASSUME TypeOK, CleanInv, FaultFreeInv, [Next]_vars, faults' = 0
             PROVE  FaultFreeInv'
  BY DEF FaultFreeInv
<1> USE DEF FaultFreeInv, Persisting, RollingBack
<1>a. faults \in Nat
  BY DEF TypeOK
<1>1. CASE UNCHANGED vars
  BY <1>1 DEF vars
<1>2. CASE Publish \/ Poll \/ Check \/ ApplyFirewall \/ Heartbeat
  BY <1>2 DEF Publish, Poll, Check, ApplyFirewall, Heartbeat, Goto
<1>3. CASE RejectCandidate
  BY <1>3, <1>a, RejectEffect
<1>4. CASE FirewallFails
  BY <1>4, <1>a, FirewallFailsEffect
<1>5. CASE StartCandidate
  BY <1>5, <1>a, StartEffect
<1>6. CASE DiscardCandidate \/ FailWindow \/ ProcessDies \/ Crash \/ BootConfigFails
  BY <1>6, <1>a DEF DiscardCandidate, FailWindow, ProcessDies, Crash, BootConfigFails, Spend
<1>7. CASE SurviveWindow \/ Persist
  BY <1>7 DEF SurviveWindow, Persist, Goto
<1>8. CASE Commit
  BY <1>8, <1>a DEF Commit, Finish, Spend
<1>9. CASE RollbackFirewall
  BY <1>9, <1>a, RollbackFirewallEffect DEF RollbackFirewall
<1>10. CASE RollbackConfig
  BY <1>10, <1>a DEF RollbackConfig, Spend
<1>11. CASE RollbackImpossible
  BY <1>11, <1>a, RollbackImpossibleEffect DEF RollbackImpossible
<1>12. CASE RollbackStart
  BY <1>12, <1>a, RollbackStartEffect DEF RollbackStart
<1>13. CASE BootConfig
  BY <1>13 DEF BootConfig, CleanInv, Clean, LastGoodBundle
<1>14. CASE BootWithoutBundle \/ BootStart \/ BootFirewall
  <2>1. faults = 0
    BY <1>14, <1>a, BootEffect
  <2> QED
    BY <1>14, <2>1 DEF BootWithoutBundle, BootStart, BootFirewall, Finish
<1> QED
  BY <1>1, <1>2, <1>3, <1>4, <1>5, <1>6, <1>7, <1>8, <1>9, <1>10, <1>11,
     <1>12, <1>13, <1>14 DEF Next, Progress

LEMMA CleanStep ==
    TypeOK /\ CandidateInv /\ FaultFreeInv /\ CleanInv /\ [Next]_vars => CleanInv'
<1> SUFFICES ASSUME TypeOK, CandidateInv, FaultFreeInv, CleanInv, [Next]_vars, Clean'
             PROVE  CleanInv'
  BY DEF CleanInv
<1> USE DEF Clean, CleanInv, FaultFreeInv, Persisting, RollingBack
<1>a. /\ faults \in Nat /\ state \in State /\ file \in Files
      /\ candidate \in Version /\ state.lastGood \in Version
  BY DEF TypeOK, State
<1>1. CASE UNCHANGED vars
  BY <1>1 DEF vars
<1>2. CASE Publish \/ Heartbeat
  BY <1>2 DEF Publish, Heartbeat
<1>3. CASE Poll \/ Check \/ ApplyFirewall
  BY <1>3 DEF Poll, Check, ApplyFirewall, Goto
<1>4. CASE RejectCandidate
  <2>1. pc = "check"
    BY <1>4 DEF RejectCandidate
  <2>2. faults = 0
    BY <1>4, <1>a, RejectEffect
  <2> QED
    BY <1>4, <2>1, <2>2, RejectEffect DEF Reported
<1>5. CASE FirewallFails
  <2>1. pc = "firewall"
    BY <1>5 DEF FirewallFails
  <2>2. faults = 0 /\ faults' = faults + 1
    BY <1>5, <1>a, FirewallFailsEffect
  <2>3. nft' = state.lastGood
    BY <1>5, <2>1, <2>2, FirewallFailsEffect DEF LastGoodBundle
  <2> QED
    BY <1>5, <2>1, <2>2, <2>3, FirewallFailsEffect DEF Reported
<1>6. CASE StartCandidate
  <2>1. pc = "start"
    BY <1>6 DEF StartCandidate
  <2>2. CASE faults' >= faults + 1
    <3>1. faults = 0 /\ faults' = faults + 1
      BY <1>a, <2>2
    <3>2. Content(activePath) = Whole(state.lastGood)
      BY <1>a, <2>1, <3>1, BoundsAssumption
         DEF Content, NoPath, LastGoodPath, NoConfig, Version
    <3>3. /\ nft' = state.lastGood /\ proc' = Whole(state.lastGood)
          /\ Reported("failed")
      BY <1>6, <1>a, <2>1, <3>1, <3>2, StartEffect DEF LastGoodBundle
    <3> QED
      BY <2>1, <3>1, <3>3 DEF Reported
  <2>3. CASE ~(faults' >= faults + 1)
    BY <1>6, <2>1, <2>3, StartEffect
  <2> QED
    BY <2>2, <2>3
<1>7. CASE DiscardCandidate
  <2>1. faults' = faults + 1 /\ UNCHANGED <<report>> /\ pc' = "idle"
    BY <1>7 DEF DiscardCandidate, Finish, Spend
  <2> QED
    BY <1>a, <2>1
<1>8. CASE ProcessDies \/ Crash \/ BootConfigFails
  <2>1. faults' = faults + 1 /\ UNCHANGED <<report>> /\ pc' \notin RollingBack
    BY <1>8 DEF ProcessDies, Crash, BootConfigFails, Finish, Spend
  <2> QED
    BY <1>a, <2>1
<1>9. CASE FailWindow
  <2>1. faults = 0 /\ pc = "health" /\ pc' = "rb_firewall"
    BY <1>9, <1>a DEF FailWindow, Goto, Spend
  <2> QED
    BY <1>9, <2>1 DEF FailWindow, Goto
<1>10. CASE SurviveWindow
  BY <1>10 DEF SurviveWindow, Goto
<1>11. CASE Persist
  <2>1. Clean
    BY <1>11 DEF Persist, Goto
  <2> QED
    BY <1>11, <1>a, <2>1 DEF Persist, Goto, Files
<1>12. CASE Commit
  <2>1. Clean
    BY <1>12, <1>a DEF Commit, Finish, Spend
  <2>2. pc = "commit" /\ state'.lastGood = candidate /\ UNCHANGED <<file, proc, nft>>
    BY <1>12 DEF Commit
  <2> QED
    BY <1>12, <2>1, <2>2 DEF Commit, Finish
<1>13. CASE RollbackFirewall
  <2>1. pc = "rb_firewall" /\ pc' = "rb_config" /\ UNCHANGED <<state, file, proc, report>>
    BY <1>13 DEF RollbackFirewall, Goto
  <2>2. Clean /\ faults' = faults
    BY <1>13, <1>a, <2>1, RollbackFirewallEffect
  <2>3. nft' = state.lastGood
    BY <1>13, <2>1, <2>2, RollbackFirewallEffect DEF LastGoodBundle
  <2> QED
    BY <2>1, <2>2, <2>3
<1>14. CASE RollbackConfig
  <2>1. pc = "rb_config" /\ pc' = "rb_start" /\ UNCHANGED <<state, proc, nft, report>>
    BY <1>14 DEF RollbackConfig, Goto
  <2>2. faults # 0
    BY <2>1
  <2>3. Clean /\ faults' = faults
    BY <1>14, <1>a, <2>1, <2>2 DEF RollbackConfig, Spend
  <2>4. LastGoodConfig(state.lastGood) = Whole(state.lastGood)
    BY <2>1, <2>3 DEF LastGoodConfig, Whole
  <2>5. file'.lastGood = Whole(state.lastGood) /\ file'.bundle = file.bundle
    BY <1>14, <1>a, <2>4 DEF RollbackConfig, Files
  <2> QED
    BY <2>1, <2>3, <2>5
<1>15. CASE RollbackImpossible
  <2>1. pc = "rb_config"
    BY <1>15 DEF RollbackImpossible
  <2>2. Clean /\ faults' = faults /\ state.lastGood = 0
    BY <1>15, <1>a, <2>1, RollbackImpossibleEffect DEF Reported
  <2> QED
    BY <1>15, <2>1, <2>2, RollbackImpossibleEffect DEF Reported, NoConfig
<1>16. CASE RollbackStart
  <2>1. pc = "rb_start"
    BY <1>16 DEF RollbackStart
  <2>2. Clean /\ faults' = faults
    BY <1>16, <1>a, <2>1, RollbackStartEffect DEF Reported
  <2>3. proc' = Whole(state.lastGood)
    BY <1>16, <2>1, <2>2, RollbackStartEffect
  <2> QED
    BY <1>16, <2>1, <2>2, <2>3, RollbackStartEffect DEF Reported
<1>17. CASE BootConfig
  <2>1. pc = "boot" /\ LastGoodBundle # 0 /\ pc' = "boot_start" /\ UNCHANGED <<faults, report>>
    BY <1>17 DEF BootConfig, Goto
  <2> QED
    BY <2>1 DEF LastGoodBundle
<1>18. CASE BootWithoutBundle
  <2>1. pc = "boot" /\ pc' = "idle" /\ UNCHANGED <<state, file, proc, report>>
    BY <1>18 DEF BootWithoutBundle, Finish
  <2>2. Clean /\ faults' = faults
    BY <1>18, <1>a, <2>1, BootEffect
  <2>3. nft' = 0
    BY <1>18, <2>2, BootEffect
  <2> QED
    BY <2>1, <2>2, <2>3
<1>19. CASE BootStart \/ BootFirewall
  <2>1. pc \in {"boot_start", "boot_firewall"} /\ pc' \in {"boot_firewall", "idle"} /\ report' = report
    BY <1>19 DEF BootStart, BootFirewall, Goto, Finish
  <2>2. faults # 0 /\ faults' >= faults
    BY <1>19, <2>1, BootEffect
  <2> QED
    BY <1>a, <2>1, <2>2
<1> QED
  BY <1>1, <1>2, <1>3, <1>4, <1>5, <1>6, <1>7, <1>8, <1>9, <1>10, <1>11,
     <1>12, <1>13, <1>14, <1>15, <1>16, <1>17, <1>18, <1>19 DEF Next, Progress

-----------------------------------------------------------------------------
LEMMA InvInit == Init => IInv
<1> SUFFICES ASSUME Init PROVE IInv
  OBVIOUS
<1>1. TypeOK
  BY TypeInit
<1>2. CandidateInv
  BY DEF Init, CandidateInv, InitialState, Applying
<1>3. ProvenInv
  BY DEF Init, ProvenInv, LastGoodProven, InitialState, NoConfig, Whole, Persisting
<1>4. RollbackInv
  BY DEF Init, RollbackInv
<1>5. FaultFreeInv /\ CleanInv
  BY DEF Init, FaultFreeInv, CleanInv, Clean, InitialState, NoConfig, NoPath, Persisting,
         RollingBack
<1> QED
  BY <1>1, <1>2, <1>3, <1>4, <1>5 DEF IInv

LEMMA InvStep == IInv /\ [Next]_vars => IInv'
BY TypeStep, CandidateStep, ProvenStep, RollbackStep, FaultFreeStep, CleanStep DEF IInv

LEMMA InvHolds == Spec => []IInv
BY InvInit, InvStep, PTL DEF Spec

(* Nothing the monitor would fall back to stems from a bundle that never   *)
(* survived its health window, and a single failure leaves sing-box and    *)
(* nftables on the last-good bundle, for any number of bundles, failures   *)
(* and crashes (applyBundle, rollback, restoreLastGood, Manager.Apply).    *)
THEOREM LastGoodIsKept == Spec => []MonitorInv
<1>1. IInv => MonitorInv
  <2> SUFFICES ASSUME IInv PROVE MonitorInv
    OBVIOUS
  <2>1. KeepsLastGood
    <3> SUFFICES ASSUME pc = "idle", faults <= 1, report.stage \in {"failed", "rolled_back"}
                 PROVE  proc = Whole(state.lastGood) /\ nft = state.lastGood
      BY DEF KeepsLastGood
    <3>1. Clean
      BY DEF IInv, TypeOK, Clean
    <3> QED
      BY <3>1 DEF IInv, CleanInv
  <2> QED
    BY <2>1 DEF IInv, ProvenInv, MonitorInv
<1> QED
  BY <1>1, InvHolds, PTL

(* An ack with rollback_ok is true: sing-box and nftables enforce the      *)
(* policy of the last-good bundle and the outbounds in use were proven,    *)
(* whichever writes failed before (rollback).                              *)
THEOREM RollbackAckIsTrue == Spec => RollbackRestoresPolicy
<1> DEFINE Restores == RollsBack => /\ proc'.pol = state.lastGood
                                    /\ nft' = state.lastGood
                                    /\ proc'.out \in proven
<1>1. IInv /\ [Next]_vars => [Restores]_vars
  <2> SUFFICES ASSUME IInv, [Next]_vars, RollsBack
               PROVE  Restores
    OBVIOUS
  <2>1. CASE RollbackStart
    <3>1. proc' = file.lastGood /\ nftOK /\ nft' = nft
      BY <2>1, RollbackStartEffect DEF IInv, RollsBack
    <3>2. pc = "rb_start"
      BY DEF RollsBack
    <3> QED
      BY <3>1, <3>2 DEF IInv, RollbackInv, ProvenInv, LastGoodProven
  <2>2. CASE UNCHANGED vars
    BY <2>2 DEF vars, RollsBack
  <2>3. CASE ~RollbackStart /\ Next
    <3>1. pc = "rb_start" /\ pc' = "idle"
      BY DEF RollsBack
    <3> QED
      BY <2>3, <3>1 DEF Next, Progress, Publish, Poll, Check, ApplyFirewall, StartCandidate,
           SurviveWindow, Persist, Commit, RollbackFirewall, RollbackConfig,
           RollbackImpossible, BootConfig, BootWithoutBundle, BootStart, BootFirewall,
           RejectCandidate, DiscardCandidate, FirewallFails, FailWindow, Crash,
           BootConfigFails, Heartbeat, ProcessDies
  <2> QED
    BY <2>1, <2>2, <2>3
<1> QED
  BY <1>1, InvHolds, PTL DEF Spec, RollbackRestoresPolicy

-----------------------------------------------------------------------------
(* The refinement: what a step does to the view of the control plane       *)

TheBundle == [release |-> candidate, node |-> "monitor", version |-> candidate]

(* What stands for NodeAgent's pending                                     *)
Pending == [n \in {"monitor"} |->
              {[release |-> v, node |-> "monitor", version |-> v] : v \in {candidate} \ {0}}]

(* The steps inside applyBundle, rollback and restart are invisible.       *)
LEMMA Invisible ==
    ASSUME View(state') = View(state), View(saved') = View(saved), candidate' = candidate
    PROVE  UNCHANGED Agent!agentVars
BY DEF Agent!agentVars, View

LEMMA InvisibleState ==
    ASSUME UNCHANGED <<state, saved, candidate>>
    PROVE  UNCHANGED Agent!agentVars
BY DEF Agent!agentVars, View

LEMMA AgentFetches ==
    ASSUME candidate = 0, candidate' \in Version \ {0}, UNCHANGED <<state, saved>>
    PROVE  Agent!AgentNext
<1>1. PICK d : d = TheBundle'
  OBVIOUS
<1>2. d \in Agent!Bundle /\ d.node = "monitor"
  BY <1>1, BoundsAssumption DEF Agent!Bundle, Version, TheBundle
<1>3. d \in Pending'["monitor"]
  BY <1>1 DEF TheBundle, Pending
<1>4. Agent!Fetch("monitor", d)
  BY <1>1 DEF Agent!Fetch, View, TheBundle
<1>5. \E x \in Pending'["monitor"] :
        x \in Agent!Bundle /\ x.node = "monitor" /\ Agent!Fetch("monitor", x)
  BY <1>2, <1>3, <1>4
<1> QED
  BY <1>5 DEF Agent!AgentNext, Pending

LEMMA AgentCommits ==
    ASSUME TypeOK, candidate # 0, state.applied <= candidate, candidate' = 0,
           state' = [lastGood |-> candidate, applied |-> candidate,
                     sequence |-> state.sequence + 1, config_status |-> "in_sync"],
           saved' \in {state', saved}
    PROVE  Agent!AgentNext
<1>1. TheBundle \in Pending["monitor"]
  BY DEF TheBundle, Pending
<1>2. TheBundle.version >= View(state).version
  BY DEF TheBundle, View, TypeOK, State, Version
<1>3. CASE saved' = state'
  <2>1. Agent!CommitState("monitor", TheBundle, TRUE)
    BY <1>1, <1>2, <1>3 DEF Agent!CommitState, View, TheBundle, Pending
  <2> QED
    BY <1>1, <2>1 DEF Agent!AgentNext, Pending
<1>4. CASE saved' = saved
  <2>1. Agent!CommitState("monitor", TheBundle, FALSE)
    BY <1>1, <1>2, <1>4 DEF Agent!CommitState, View, TheBundle, Pending
  <2> QED
    BY <1>1, <2>1 DEF Agent!AgentNext, Pending
<1> QED
  BY <1>3, <1>4

LEMMA AgentFails ==
    ASSUME TypeOK, candidate # 0, NEW stage, Reported(stage)
    PROVE  Agent!AgentNext
<1>1. TheBundle \in Pending["monitor"]
  BY DEF TheBundle, Pending
<1>2. PICK status \in {"failed", "rollback_failed"} :
        View(state') = [version |-> state.applied, release |-> state.applied,
                        sequence |-> state.sequence + 1, config_status |-> status]
  BY DEF View, Reported
<1>3. candidate' = 0 /\ saved' \in {state', saved}
  BY DEF Reported
<1>4. CASE saved' = state'
  <2>1. Agent!FailState("monitor", TheBundle, status, TRUE)
    BY <1>1, <1>2, <1>3, <1>4 DEF Agent!FailState, View, TheBundle, Pending
  <2> QED
    BY <1>1, <2>1 DEF Agent!AgentNext, Pending
<1>5. CASE saved' = saved
  <2>1. Agent!FailState("monitor", TheBundle, status, FALSE)
    BY <1>1, <1>2, <1>3, <1>5 DEF Agent!FailState, View, TheBundle, Pending
  <2> QED
    BY <1>1, <2>1 DEF Agent!AgentNext, Pending
<1> QED
  BY <1>3, <1>4, <1>5

LEMMA AgentDiscards ==
    ASSUME candidate # 0, candidate' = 0, UNCHANGED <<state, saved>>
    PROVE  Agent!AgentNext
<1>1. Agent!Discard("monitor")
  BY DEF Agent!Discard, View
<1> QED
  BY <1>1 DEF Agent!AgentNext

LEMMA AgentRestarts ==
    ASSUME candidate' = 0, state' = saved, saved' = saved
    PROVE  Agent!AgentNext
<1>1. Agent!Restart("monitor")
  BY DEF Agent!Restart, View
<1> QED
  BY <1>1 DEF Agent!AgentNext

LEMMA AgentSaves ==
    ASSUME candidate = 0, candidate' = 0, saved' = state, state' = state
    PROVE  Agent!AgentNext
<1>1. Agent!SaveForHeartbeat("monitor")
  BY DEF Agent!SaveForHeartbeat, View
<1> QED
  BY <1>1 DEF Agent!AgentNext

LEMMA RefinementStep == IInv /\ [Next]_vars => [Agent!AgentNext]_(Agent!agentVars)
<1> SUFFICES ASSUME IInv, [Next]_vars
             PROVE  Agent!AgentNext \/ UNCHANGED Agent!agentVars
  OBVIOUS
<1>a. TypeOK /\ CandidateInv
  BY DEF IInv
<1>1. CASE UNCHANGED vars
  BY <1>1, InvisibleState DEF vars
<1>2. CASE \/ Publish \/ Check \/ ApplyFirewall \/ SurviveWindow \/ Persist \/ FailWindow
           \/ RollbackFirewall \/ RollbackConfig \/ ProcessDies
  BY <1>2, InvisibleState DEF Publish, Check, ApplyFirewall, SurviveWindow, Persist,
       FailWindow, RollbackFirewall, RollbackConfig, ProcessDies, Goto
<1>3. CASE Poll
  <2>1. candidate = 0 /\ candidate' \in Version \ {0}
    BY <1>3, <1>a DEF Poll, CandidateInv, Applying, TypeOK, State, Version
  <2> QED
    BY <1>3, <2>1, AgentFetches DEF Poll
<1>4. CASE RejectCandidate
  <2>1. candidate # 0
    BY <1>4, <1>a DEF RejectCandidate, CandidateInv, Applying
  <2> QED
    BY <1>4, <1>a, <2>1, RejectEffect, AgentFails
<1>5. CASE FirewallFails
  <2>1. candidate # 0
    BY <1>5, <1>a DEF FirewallFails, CandidateInv, Applying
  <2> QED
    BY <1>5, <1>a, <2>1, FirewallFailsEffect, AgentFails
<1>6. CASE StartCandidate
  <2>1. candidate # 0
    BY <1>6, <1>a DEF StartCandidate, CandidateInv, Applying
  <2> QED
    BY <1>6, <1>a, <2>1, StartEffect, AgentFails, InvisibleState
<1>7. CASE DiscardCandidate
  <2>1. candidate # 0
    BY <1>7, <1>a DEF DiscardCandidate, CandidateInv, Applying
  <2> QED
    BY <1>7, <2>1, AgentDiscards DEF DiscardCandidate, Finish
<1>8. CASE Commit
  <2>1. candidate # 0 /\ state.applied <= candidate
    BY <1>8, <1>a DEF Commit, CandidateInv, Applying
  <2> QED
    BY <1>8, <1>a, <2>1, AgentCommits DEF Commit, Finish
<1>9. CASE RollbackImpossible
  <2>1. candidate # 0
    BY <1>9, <1>a DEF RollbackImpossible, CandidateInv, Applying
  <2> QED
    BY <1>9, <1>a, <2>1, RollbackImpossibleEffect, AgentFails
<1>10. CASE RollbackStart
  <2>1. candidate # 0
    BY <1>10, <1>a DEF RollbackStart, CandidateInv, Applying
  <2> QED
    BY <1>10, <1>a, <2>1, RollbackStartEffect, AgentFails
<1>11. CASE Crash
  BY <1>11, AgentRestarts DEF Crash
<1>12. CASE BootConfig \/ BootConfigFails
  <2>1. candidate' = candidate /\ saved' = saved
    BY <1>12, <1>a DEF BootConfig, BootConfigFails, Goto, Finish, CandidateInv, Applying
  <2>2. View(state') = View(state)
    BY <1>12, <1>a DEF BootConfig, BootConfigFails, View, TypeOK, State
  <2> QED
    BY <2>1, <2>2, Invisible
<1>13. CASE BootWithoutBundle \/ BootStart \/ BootFirewall
  <2>1. candidate' = candidate /\ UNCHANGED <<state, saved>>
    BY <1>13, <1>a DEF BootWithoutBundle, BootStart, BootFirewall, Goto, Finish,
         CandidateInv, Applying
  <2> QED
    BY <2>1, InvisibleState
<1>14. CASE Heartbeat
  <2>1. candidate = 0
    BY <1>14, <1>a DEF Heartbeat, CandidateInv, Applying
  <2> QED
    BY <1>14, <2>1, AgentSaves DEF Heartbeat
<1> QED
  BY <1>1, <1>2, <1>3, <1>4, <1>5, <1>6, <1>7, <1>8, <1>9, <1>10, <1>11, <1>12, <1>13,
     <1>14 DEF Next, Progress

(* Whatever applyBundle, rollback, restoreLastGood and crashes do, the     *)
(* control plane sees a NodeAgent: the monitor of Rollout.                 *)
THEOREM MonitorImplementsAgent == Spec => ImplementsAgent
<1>1. Init => Agent!AgentInit
  BY DEF Init, Agent!AgentInit, InitialState, Agent!InitialState, View
<1> QED
  BY <1>1, InvHolds, RefinementStep, PTL DEF Spec, ImplementsAgent, Agent!AgentSpec
=============================================================================
