----------------------------- MODULE HostProofs -----------------------------
(***************************************************************************)
(* Theorems about what changes a host beside the journaled executor: the   *)
(* compatibility path of the command line (LegacyRuntime), the backup and  *)
(* clean restore of the control state (HostBackup) and the plans that the  *)
(* daemon admits (DeploymentPlans).                                        *)
(***************************************************************************)
EXTENDS LegacyRuntime, HostBackup, DeploymentPlans, TLAPS

(* Leaves are first-order and go to Zenon; those with arithmetic or        *)
(* records cite SMT.                                                       *)
USE Zenon

-----------------------------------------------------------------------------
(* The compatibility path.                                                 *)

LegacySpec == LegacyInit /\ [][LegacyNext]_legacyVars

SupportFiles == UNION {Support[r] : r \in Releases}

ReleaseRecord == [id : Releases \cup {0}, applied : BOOLEAN, verified : {"none", "passed", "failed"}, by : Nat]

AppFiles == [bundle : Releases \cup {0}, support : SUBSET SupportFiles, env : {"missing", "placeholder", "filled"}]

Candidates == [bundles : SUBSET Releases, assets : SUBSET (Releases \cup {0})]

Steps == Phases \cup {"done", "write", "snapshot", "record", "caddy_stage", "complete", "activate", "cleanup",
                      "consume", "verify", "restore", "restore_site", "point", "delete"}

CommandRecord == [op : {"none", "stage", "apply", "rollback", "gc", "verify"}, at : Steps,
                  release : Releases \cup {0}, plan : PlanIds \cup {NoPlanId}, attempt : Nat,
                  doomed : SUBSET Candidates]

Baseline == (Releases \cup {0}) \X (SUBSET SupportFiles) \X ReleaseRecord \X ReleaseRecord
            \X (Releases \cup {0}) \X (Releases \cup {0})

OpenPlan == [state : {"open", "applied"}, release : Releases, baseline : Baseline, replaced : BOOLEAN]

LegacyTypeOK ==
  /\ files \in AppFiles
  /\ current \in ReleaseRecord /\ active \in ReleaseRecord
  /\ snapshots \subseteq Releases /\ published \subseteq Releases \cup {0}
  /\ site \in Releases \cup {0} /\ serving \in Releases \cup {0}
  /\ plans \in [PlanIds -> OpenPlan \cup {NoDeployPlan}]
  /\ command \in CommandRecord
  /\ ordered \in Nat

(* Where a command stands between writing a release's files and making it  *)
(* the active one.                                                         *)
Pending == {"write", "snapshot", "record"}
Applying == Phases \cup {"caddy_stage", "complete", "activate"}
Written == {"snapshot", "record", "restore_site", "point"} \cup Applying
Kept == {"record", "restore", "restore_site", "point"} \cup Applying

(* The release a command reads as active, which is release.json's when an  *)
(* apply was killed before active_release.json was written, is kept too.   *)
ReadAsActiveIsKept ==
  active_release.id # 0 =>
    /\ active_release.id \in snapshots
    /\ Support[active_release.id] \subseteq files.support

(* A command has written what it is about to point at, and collects none   *)
(* of the two releases the records name.                                   *)
CommandKeeps ==
  /\ command.at \in Pending => command.release \in Releases
  /\ command.at \in Kept => command.release \in snapshots
  /\ command.at \in Written => Support[command.release] \subseteq files.support
  /\ command.at \in Applying => current.id = command.release
  /\ command.at = "delete" =>
       \E c \in Candidates : command.doomed = {c} /\ c.bundles \cap {current.id, active.id} = {}

(* release.json is always younger than the baseline of a plan that has     *)
(* replaced it, and a plan being applied was reviewed against it.          *)
BaselinesAge ==
  /\ current.by <= ordered
  /\ \A p \in PlanIds : plans[p].state # "none" /\ plans[p].replaced => plans[p].baseline[3].by < current.by
  /\ command.at \in Pending => current.by < ordered
  /\ command.plan # NoPlanId =>
       /\ plans[command.plan].state # "none"
       /\ command.at \in Pending => plans[command.plan].baseline[3] = current

LegacyInv == LegacyTypeOK /\ ReadAsActiveIsKept /\ CommandKeeps /\ BaselinesAge /\ OnePlanPerBaseline

LEMMA IdleCommand == Idle \in CommandRecord /\ Idle.at = "done" /\ Idle.plan = NoPlanId
  BY SMT DEF Idle, CommandRecord, Steps

LEMMA LegacyStart == LegacyInit => LegacyInv
<1> SUFFICES ASSUME LegacyInit PROVE LegacyInv
  OBVIOUS
<1>1. PICK r \in Standing :
        LET record == IF r = 0 THEN NoRecord
                      ELSE [id |-> r, applied |-> TRUE, verified |-> "none", by |-> 0] IN
        /\ files = [bundle |-> r, support |-> IF r = 0 THEN {} ELSE Support[r],
                    env |-> IF r = 0 THEN "missing" ELSE "filled"]
        /\ current = record /\ active = record
        /\ snapshots = {r} \ {0} /\ published = {r} \cap Static /\ serving = r
        /\ site = r
        /\ plans = [p \in PlanIds |-> NoDeployPlan]
        /\ command = Idle /\ ordered = 0
  BY DEF LegacyInit
<1>2. r \in Releases \cup {0}
  BY <1>1, LegacyConstants
<1>3. current \in ReleaseRecord /\ active \in ReleaseRecord /\ current.id = r /\ active.id = r /\ current.by = 0
  BY SMT, <1>1, <1>2 DEF ReleaseRecord, NoRecord
<1>4. files \in AppFiles /\ (r # 0 => files.support = Support[r])
  <2>1. r # 0 => Support[r] \subseteq SupportFiles
    BY <1>2 DEF SupportFiles
  <2> QED
    BY SMT, <1>1, <1>2, <2>1 DEF AppFiles
<1>5. LegacyTypeOK
  BY <1>1, <1>2, <1>3, <1>4, IdleCommand DEF LegacyTypeOK
<1>6. ReadAsActiveIsKept
  <2>1. active_release.id \in {r, 0}
    BY SMT, <1>3 DEF active_release, NoRecord
  <2> QED
    BY <1>1, <1>4, <2>1 DEF ReadAsActiveIsKept
<1>7. CommandKeeps
  BY <1>1, IdleCommand DEF CommandKeeps, Pending, Kept, Written, Applying, Phases
<1>8. \A p \in PlanIds : plans[p].state = "none"
  BY <1>1 DEF NoDeployPlan
<1>9. BaselinesAge
  BY SMT, <1>1, <1>3, <1>8, IdleCommand DEF BaselinesAge, Pending
<1> QED
  BY <1>5, <1>6, <1>7, <1>8, <1>9 DEF LegacyInv, OnePlanPerBaseline

(* A step of a command, and its end.                                       *)
LEMMA Moved ==
  ASSUME command \in CommandRecord, NEW s \in Steps, command' = [command EXCEPT !.at = s]
  PROVE  /\ command' \in CommandRecord
         /\ command'.at = s /\ command'.op = command.op /\ command'.release = command.release
         /\ command'.plan = command.plan /\ command'.doomed = command.doomed
  BY SMT DEF CommandRecord

(* A step of the command that changes neither the records nor the files.   *)
LEMMA CommandMoves ==
  ASSUME LegacyInv, LegacyTypeOK', CommandKeeps',
         UNCHANGED <<current, active, snapshots, plans, ordered>>, files'.support = files.support,
         command'.plan \in {command.plan, NoPlanId},
         command'.at \in Pending => command.at \in Pending
  PROVE  LegacyInv'
<1>1. ReadAsActiveIsKept'
  BY DEF LegacyInv, ReadAsActiveIsKept, active_release
<1>2. BaselinesAge'
  BY DEF LegacyInv, BaselinesAge
<1>3. OnePlanPerBaseline'
  BY DEF LegacyInv, OnePlanPerBaseline
<1> QED
  BY <1>1, <1>2, <1>3 DEF LegacyInv

LEMMA FinishLegacy ==
  ASSUME LegacyInv, Finish, UNCHANGED <<files, current, active, snapshots, site, plans, ordered>>,
         published' \subseteq Releases \cup {0}, serving' \in Releases \cup {0}
  PROVE  LegacyInv'
<1>1. command'.at = "done" /\ command'.plan = NoPlanId /\ command' \in CommandRecord
  BY IdleCommand DEF Finish
<1>2. LegacyTypeOK'
  BY <1>1 DEF LegacyInv, LegacyTypeOK
<1>3. CommandKeeps'
  BY <1>1 DEF CommandKeeps, Pending, Kept, Written, Applying, Phases
<1> QED
  BY <1>1, <1>2, <1>3, CommandMoves DEF Pending

(* From one phase of an apply to the next.                                 *)
LEMMA PhaseEnds ==
  ASSUME LegacyInv, NEW s \in Applying, command' = [command EXCEPT !.at = s], command.at \in Applying,
         UNCHANGED <<files, current, active, snapshots, plans, ordered>>,
         published' \subseteq Releases \cup {0}, serving' \in Releases \cup {0}, site' \in Releases \cup {0}
  PROVE  LegacyInv'
<1>0. s \in Steps
  BY DEF Applying, Steps
<1>1. /\ command' \in CommandRecord
      /\ command'.at = s /\ command'.release = command.release /\ command'.plan = command.plan
  BY <1>0, Moved DEF LegacyInv, LegacyTypeOK
<1>2. LegacyTypeOK'
  BY <1>1 DEF LegacyInv, LegacyTypeOK
<1>3. command'.at # "delete" /\ command'.at \notin Pending
  BY <1>1 DEF Applying, Phases, Pending
<1>4. CommandKeeps'
  <2>1. command.at \in Kept /\ command.at \in Written
    BY DEF Kept, Written
  <2>2. /\ command.release \in snapshots /\ Support[command.release] \subseteq files.support
        /\ current.id = command.release
    BY <2>1 DEF LegacyInv, CommandKeeps
  <2> QED
    BY SMT, <1>1, <1>3, <2>2 DEF CommandKeeps
<1> QED
  BY <1>1, <1>2, <1>3, <1>4, CommandMoves

LEMMA ApplyingLegacy ==
  ASSUME LegacyInv,
         \/ env_validation \/ caddy_stage \/ _pull_or_use_local_images \/ _run_compose_up
         \/ caddy_reload \/ publish_static_assets
  PROVE  LegacyInv'
<1>1. /\ files.bundle \in Releases \cup {0} /\ current.id \in Releases \cup {0}
      /\ published \subseteq Releases \cup {0} /\ serving \in Releases \cup {0} /\ site \in Releases \cup {0}
  BY SMT DEF LegacyInv, LegacyTypeOK, AppFiles, ReleaseRecord
<1>2. CASE env_validation
  BY <1>1, <1>2, PhaseEnds DEF env_validation, At, Goto, Applying, Phases
<1>3. CASE caddy_stage
  <2>1. PICK s \in Applying : command' = [command EXCEPT !.at = s]
    BY <1>3 DEF caddy_stage, Goto, Applying, Phases
  <2> QED
    BY <1>1, <1>3, <2>1, PhaseEnds DEF caddy_stage, At, Applying, Phases
<1>4. CASE _pull_or_use_local_images
  BY <1>1, <1>4, PhaseEnds DEF _pull_or_use_local_images, At, Goto, Applying, Phases
<1>5. CASE _run_compose_up
  BY <1>1, <1>5, PhaseEnds DEF _run_compose_up, At, Goto, Applying, Phases
<1>6. CASE caddy_reload
  <2>1. PICK s \in Applying : command' = [command EXCEPT !.at = s]
    BY <1>6 DEF caddy_reload, Goto, Applying, Phases
  <2> QED
    BY <1>1, <1>6, <2>1, PhaseEnds DEF caddy_reload, At, Applying, Phases
<1>7. CASE publish_static_assets
  BY <1>1, <1>7, PhaseEnds DEF publish_static_assets, At, Goto, Applying, Phases
<1> QED
  BY <1>2, <1>3, <1>4, <1>5, <1>6, <1>7


(* The record is written: what is active stays kept, and the record is     *)
(* younger than before.                                                    *)
LEMMA RecordChanges ==
  ASSUME LegacyInv, LegacyTypeOK', UNCHANGED <<files, snapshots, plans, ordered>>,
         command'.plan \in {command.plan, NoPlanId}, command'.at \notin Pending,
         current.by <= current'.by, current'.by <= ordered
  PROVE  BaselinesAge' /\ OnePlanPerBaseline'
<1>1. \A p \in PlanIds : plans[p].state # "none" /\ plans[p].replaced => plans[p].baseline[3].by \in Nat
  <2> SUFFICES ASSUME NEW p \in PlanIds, plans[p].state # "none" PROVE plans[p].baseline[3].by \in Nat
    OBVIOUS
  <2>1. plans[p] \in OpenPlan
    BY SMT DEF LegacyInv, LegacyTypeOK, NoDeployPlan
  <2>2. plans[p].baseline \in Baseline
    BY <2>1 DEF OpenPlan
  <2>3. plans[p].baseline[3] \in ReleaseRecord
    BY SMT, <2>2 DEF Baseline
  <2> QED
    BY <2>3 DEF ReleaseRecord
<1>2. current.by \in Nat /\ current'.by \in Nat
  BY DEF LegacyInv, LegacyTypeOK, ReleaseRecord
<1>3. \A p \in PlanIds : plans[p].state # "none" /\ plans[p].replaced => plans[p].baseline[3].by < current.by
  BY DEF LegacyInv, BaselinesAge
<1>4. \A p \in PlanIds : plans[p].state # "none" /\ plans[p].replaced => plans[p].baseline[3].by < current'.by
  BY SMT, <1>1, <1>2, <1>3
<1>5. command.plan # NoPlanId => plans[command.plan].state # "none"
  BY DEF LegacyInv, BaselinesAge
<1>6. BaselinesAge'
  BY <1>4, <1>5 DEF BaselinesAge
<1> QED
  BY <1>6 DEF LegacyInv, OnePlanPerBaseline

(* A record that is updated keeps its release.                             *)
LEMMA Updated ==
  ASSUME LegacyInv, NEW a \in BOOLEAN, NEW v \in {"none", "passed", "failed"}, _update_current_release(a, v)
  PROVE  /\ current' \in ReleaseRecord
         /\ current'.id = current.id /\ current'.applied = a /\ current'.by = ordered
         /\ current.by <= current'.by
<1>1. current \in ReleaseRecord /\ ordered \in Nat /\ current.by <= ordered
  BY DEF LegacyInv, LegacyTypeOK, BaselinesAge
<1> QED
  BY <1>1 DEF ReleaseRecord, _update_current_release

LEMMA PhaseFailsLegacy ==
  ASSUME LegacyInv, PhaseFails
  PROVE  LegacyInv'
<1>0. current \in ReleaseRecord
  BY DEF LegacyInv, LegacyTypeOK
<1>1. PICK v \in {"none", "passed", "failed"} : v = current.verified
  BY <1>0 DEF ReleaseRecord
<1>2. /\ current' \in ReleaseRecord
      /\ current'.id = current.id /\ current'.applied = FALSE /\ current'.by = ordered
      /\ current.by <= current'.by
  BY <1>1, Updated DEF PhaseFails
<1>3. command'.at = "done" /\ command'.plan = NoPlanId /\ command' \in CommandRecord
  BY IdleCommand DEF PhaseFails, Finish
<1>4. LegacyTypeOK'
  <2>1. published' \subseteq Releases \cup {0} /\ serving' \in Releases \cup {0}
    BY <1>0 DEF LegacyInv, LegacyTypeOK, PhaseFails, ReleaseRecord
  <2> QED
    BY <1>2, <1>3, <2>1 DEF LegacyInv, LegacyTypeOK, PhaseFails
<1>5. CommandKeeps'
  BY <1>3 DEF CommandKeeps, Pending, Kept, Written, Applying, Phases
<1>6. ReadAsActiveIsKept'
  <2>1. active_release'.id # 0 => active_release'.id = active_release.id
    BY <1>2 DEF active_release, PhaseFails, NoRecord
  <2> QED
    BY <2>1 DEF LegacyInv, ReadAsActiveIsKept, PhaseFails
<1>7. ordered \in Nat /\ ordered <= ordered
  BY SMT DEF LegacyInv, LegacyTypeOK
<1>8. BaselinesAge' /\ OnePlanPerBaseline'
  BY <1>2, <1>3, <1>4, <1>7, RecordChanges DEF PhaseFails, Pending
<1> QED
  BY <1>4, <1>5, <1>6, <1>8 DEF LegacyInv

LEMMA CompletesLegacy ==
  ASSUME LegacyInv, update_current_release_apply
  PROVE  LegacyInv'
<1>0. current \in ReleaseRecord /\ command \in CommandRecord
  BY DEF LegacyInv, LegacyTypeOK
<1>1. PICK v \in {"none", "passed", "failed"} : v = current.verified
  BY <1>0 DEF ReleaseRecord
<1>2. /\ current' \in ReleaseRecord
      /\ current'.id = current.id /\ current'.applied = TRUE /\ current'.by = ordered
      /\ current.by <= current'.by
  BY <1>1, Updated DEF update_current_release_apply
<1>3. /\ command' \in CommandRecord /\ command'.at = "activate"
      /\ command'.release = command.release /\ command'.plan = command.plan
  BY <1>0, Moved DEF update_current_release_apply, Goto, Steps
<1>4. LegacyTypeOK'
  BY <1>2, <1>3 DEF LegacyInv, LegacyTypeOK, update_current_release_apply
<1>5. /\ command.release \in snapshots /\ Support[command.release] \subseteq files.support
      /\ current.id = command.release
  BY DEF LegacyInv, CommandKeeps, Kept, Written, Applying, update_current_release_apply, At
<1>6. CommandKeeps'
  BY <1>2, <1>3, <1>5 DEF CommandKeeps, Pending, update_current_release_apply
<1>7. ReadAsActiveIsKept'
  <2>1. active_release'.id # 0 => active_release'.id \in {active_release.id, command.release}
    BY <1>2, <1>5 DEF active_release, update_current_release_apply, NoRecord
  <2> QED
    BY <1>5, <2>1 DEF LegacyInv, ReadAsActiveIsKept, update_current_release_apply
<1>8. ordered \in Nat /\ ordered <= ordered
  BY SMT DEF LegacyInv, LegacyTypeOK
<1>9. BaselinesAge' /\ OnePlanPerBaseline'
  BY <1>2, <1>3, <1>4, <1>8, RecordChanges DEF update_current_release_apply, Pending
<1> QED
  BY <1>4, <1>6, <1>7, <1>9 DEF LegacyInv

(* The release that was just applied becomes the active one.               *)
LEMMA ActivatesLegacy ==
  ASSUME LegacyInv, _write_active_release
  PROVE  LegacyInv'
<1>1. /\ command' \in CommandRecord /\ command'.at = "cleanup" /\ command'.plan = command.plan
  BY Moved DEF LegacyInv, LegacyTypeOK, _write_active_release, Goto, Steps
<1>2. LegacyTypeOK'
  BY <1>1 DEF LegacyInv, LegacyTypeOK, _write_active_release
<1>3. /\ current.id \in snapshots /\ Support[current.id] \subseteq files.support
  BY DEF LegacyInv, CommandKeeps, Kept, Written, Applying, _write_active_release, At
<1>4. CommandKeeps'
  BY <1>1 DEF CommandKeeps, Pending, Kept, Written, Applying, Phases
<1>5. ReadAsActiveIsKept'
  <2>1. active_release'.id # 0 => active_release'.id = current.id
    BY DEF active_release, _write_active_release, NoRecord
  <2> QED
    BY <1>3, <2>1 DEF ReadAsActiveIsKept, _write_active_release
<1>6. BaselinesAge' /\ OnePlanPerBaseline'
  BY <1>1 DEF LegacyInv, BaselinesAge, OnePlanPerBaseline, _write_active_release, Pending
<1> QED
  BY <1>2, <1>4, <1>5, <1>6 DEF LegacyInv

(* Support files go, but none of the active release.                       *)
LEMMA CleansLegacy ==
  ASSUME LegacyInv, cleanup_inactive_support_files
  PROVE  LegacyInv'
<1>0. command \in CommandRecord /\ files \in AppFiles
  BY DEF LegacyInv, LegacyTypeOK
<1>1. /\ command' \in CommandRecord /\ command'.at \in {"done", "consume", "verify"}
      /\ command'.plan \in {command.plan, NoPlanId}
  <2>1. \/ command' = Idle \/ command' = [command EXCEPT !.at = "consume"]
        \/ command' = [command EXCEPT !.at = "verify"]
    BY DEF cleanup_inactive_support_files, Finish, Goto
  <2> QED
    BY <1>0, <2>1, Moved, IdleCommand DEF Steps
<1>2. files' \in AppFiles /\ files'.support = files.support \cap Support[active_release.id]
  BY SMT, <1>0 DEF cleanup_inactive_support_files, remove_stale_support_files, AppFiles
<1>3. LegacyTypeOK'
  BY <1>1, <1>2 DEF LegacyInv, LegacyTypeOK, cleanup_inactive_support_files
<1>4. CommandKeeps'
  BY <1>1 DEF CommandKeeps, Pending, Kept, Written, Applying, Phases
<1>5. ReadAsActiveIsKept'
  <2>1. active_release' = active_release
    BY DEF active_release, cleanup_inactive_support_files
  <2> QED
    BY <1>2, <2>1 DEF LegacyInv, ReadAsActiveIsKept, cleanup_inactive_support_files
<1>6. BaselinesAge' /\ OnePlanPerBaseline'
  BY <1>1 DEF LegacyInv, BaselinesAge, OnePlanPerBaseline, cleanup_inactive_support_files, Pending
<1> QED
  BY <1>3, <1>4, <1>5, <1>6 DEF LegacyInv

(* A plan that loses or gains nothing but its state.                       *)
LEMMA PlansChange ==
  ASSUME LegacyInv, UNCHANGED <<files, current, active, snapshots, site, serving, published, ordered>>,
         command' \in CommandRecord, CommandKeeps',
         command'.plan = command.plan, command'.at \in Pending => command.at \in Pending,
         plans' \in [PlanIds -> OpenPlan \cup {NoDeployPlan}],
         \A p \in PlanIds : plans'[p].state # "none" /\ plans'[p].replaced =>
            /\ plans[p].state # "none" /\ plans[p].replaced
            /\ plans'[p].baseline = plans[p].baseline,
         command.plan # NoPlanId => /\ plans'[command.plan].state # "none"
                                    /\ plans'[command.plan].baseline = plans[command.plan].baseline
  PROVE  LegacyInv'
<1>1. LegacyTypeOK'
  BY DEF LegacyInv, LegacyTypeOK
<1>2. ReadAsActiveIsKept'
  BY DEF LegacyInv, ReadAsActiveIsKept, active_release
<1>3. BaselinesAge'
  BY DEF LegacyInv, BaselinesAge
<1>4. OnePlanPerBaseline'
  BY SMT DEF LegacyInv, OnePlanPerBaseline
<1> QED
  BY <1>1, <1>2, <1>3, <1>4 DEF LegacyInv

(* A plan that some command holds is no empty place.                       *)
LEMMA HeldPlan ==
  ASSUME LegacyInv, NEW p \in PlanIds, plans[p].state # "none"
  PROVE  plans[p] \in OpenPlan
  BY SMT DEF LegacyInv, LegacyTypeOK, NoDeployPlan

LEMMA NoPlanState == NoDeployPlan.state = "none"
  BY DEF NoDeployPlan

LEMMA OpenPlanState ==
  ASSUME NEW p \in PlanIds, plans[p] \in OpenPlan
  PROVE  plans[p].state # "none"
  BY DEF OpenPlan

LEMMA PlanApplied ==
  ASSUME NEW x \in OpenPlan
  PROVE  /\ [x EXCEPT !.state = "applied"] \in OpenPlan
         /\ [x EXCEPT !.state = "applied"].state = "applied"
         /\ [x EXCEPT !.state = "applied"].baseline = x.baseline
         /\ [x EXCEPT !.state = "applied"].replaced = x.replaced
  BY SMT DEF OpenPlan

LEMMA ConsumesLegacy ==
  ASSUME LegacyInv, consume_confirmed_staging
  PROVE  LegacyInv'
<1>0. command \in CommandRecord /\ plans \in [PlanIds -> OpenPlan \cup {NoDeployPlan}]
  BY DEF LegacyInv, LegacyTypeOK
<1>1. /\ command' \in CommandRecord /\ command'.at = "verify" /\ command'.plan = command.plan
  BY <1>0, Moved DEF consume_confirmed_staging, Goto, Steps
<1>2. CommandKeeps'
  BY <1>1 DEF CommandKeeps, Pending, Kept, Written, Applying, Phases
<1>3. CASE command.plan = NoPlanId
  <2>1. plans' = plans
    BY <1>0, <1>3, LegacyConstants DEF consume_confirmed_staging
  <2> QED
    BY <1>0, <1>1, <1>2, <1>3, <2>1, PlansChange DEF consume_confirmed_staging, Pending
<1>4. CASE command.plan # NoPlanId
  <2>1. PICK p \in PlanIds : p = command.plan
    BY <1>0, <1>4 DEF CommandRecord
  <2>2. plans[p] \in OpenPlan
    BY <1>4, <2>1, HeldPlan DEF LegacyInv, BaselinesAge
  <2>3. PICK new \in OpenPlan : /\ new = [plans[p] EXCEPT !.state = "applied"]
                                /\ new.baseline = plans[p].baseline /\ new.replaced = plans[p].replaced
                                /\ new.state = "applied"
    BY <2>2, PlanApplied
  <2>4. plans' = [plans EXCEPT ![p] = new]
    BY <2>1, <2>3 DEF consume_confirmed_staging
  <2>5. /\ plans' \in [PlanIds -> OpenPlan \cup {NoDeployPlan}]
        /\ plans'[p] = new /\ \A q \in PlanIds : q # p => plans'[q] = plans[q]
    BY <1>0, <2>4
  <2>6. plans[p].state # "none"
    BY <2>2, OpenPlanState
  <2>7. \A q \in PlanIds : plans'[q].state # "none" /\ plans'[q].replaced =>
            /\ plans[q].state # "none" /\ plans[q].replaced
            /\ plans'[q].baseline = plans[q].baseline
    BY <2>3, <2>5, <2>6
  <2>8. plans'[command.plan].state # "none" /\ plans'[command.plan].baseline = plans[command.plan].baseline
    BY <2>1, <2>3, <2>5
  <2> QED
    BY <1>1, <1>2, <2>5, <2>7, <2>8, PlansChange DEF consume_confirmed_staging, Pending
<1> QED
  BY <1>3, <1>4

LEMMA PlansLegacy ==
  ASSUME LegacyInv, NEW p \in PlanIds, ConfirmationExpires(p) \/ \E r \in Releases : deploy_plan(p, r)
  PROVE  LegacyInv'
<1>0. /\ command \in CommandRecord /\ plans \in [PlanIds -> OpenPlan \cup {NoDeployPlan}]
      /\ files \in AppFiles /\ current \in ReleaseRecord /\ active \in ReleaseRecord
      /\ site \in Releases \cup {0} /\ serving \in Releases \cup {0}
  BY DEF LegacyInv, LegacyTypeOK
<1>1. command' = command /\ UNCHANGED <<files, current, active, snapshots, site, serving, published, ordered>>
  BY DEF ConfirmationExpires, deploy_plan
<1>2. CommandKeeps'
  BY <1>1 DEF LegacyInv, CommandKeeps
<1>3. CASE ConfirmationExpires(p)
  <2>1. plans[p] \in OpenPlan /\ command.plan # p
    BY <1>3, HeldPlan DEF ConfirmationExpires
  <2>2. PICK new \in OpenPlan \cup {NoDeployPlan} :
          /\ plans' = [plans EXCEPT ![p] = new]
          /\ new = NoDeployPlan \/ (plans[p].replaced /\ new.baseline = plans[p].baseline)
    <3>1. PICK gone \in OpenPlan : /\ gone = [plans[p] EXCEPT !.state = "applied"]
                                   /\ gone.baseline = plans[p].baseline
      BY <2>1, PlanApplied
    <3> QED
      BY <1>3, <3>1 DEF ConfirmationExpires
  <2>3. /\ plans' \in [PlanIds -> OpenPlan \cup {NoDeployPlan}]
        /\ plans'[p] = new /\ \A q \in PlanIds : q # p => plans'[q] = plans[q]
    BY <1>0, <2>2
  <2>4. \A q \in PlanIds : plans'[q].state # "none" /\ plans'[q].replaced =>
            /\ plans[q].state # "none" /\ plans[q].replaced
            /\ plans'[q].baseline = plans[q].baseline
    BY <1>3, <2>2, <2>3, NoPlanState DEF ConfirmationExpires
  <2>5. command.plan # NoPlanId => /\ plans'[command.plan].state # "none"
                                   /\ plans'[command.plan].baseline = plans[command.plan].baseline
    <3>1. command.plan # NoPlanId => command.plan \in PlanIds /\ plans[command.plan].state # "none"
      BY <1>0 DEF CommandRecord, LegacyInv, BaselinesAge
    <3> QED
      BY <2>1, <2>3, <3>1
  <2> QED
    BY <1>0, <1>1, <1>2, <2>3, <2>4, <2>5, PlansChange
<1>4. CASE \E r \in Releases : deploy_plan(p, r)
  <2>1. PICK r \in Releases : deploy_plan(p, r)
    BY <1>4
  <2>2. deployment_baseline_digest \in Baseline
    <3>1. files.bundle \in Releases \cup {0} /\ files.support \in SUBSET SupportFiles
      BY <1>0 DEF AppFiles
    <3>2. (IF serving \in Static THEN serving ELSE 0) \in Releases \cup {0}
      BY <1>0
    <3> QED
      BY SMT, <1>0, <3>1, <3>2 DEF deployment_baseline_digest, Baseline
  <2>3. PICK new \in OpenPlan : new = deploy_confirmation_payload(r) /\ new.replaced = FALSE
    <3>1. deploy_confirmation_payload(r) \in OpenPlan /\ deploy_confirmation_payload(r).replaced = FALSE
      BY SMT, <2>2 DEF deploy_confirmation_payload, OpenPlan
    <3> QED
      BY <3>1
  <2>4. /\ plans' \in [PlanIds -> OpenPlan \cup {NoDeployPlan}]
        /\ plans'[p] = new /\ \A q \in PlanIds : q # p => plans'[q] = plans[q]
    BY <1>0, <2>1, <2>3 DEF deploy_plan
  <2>5. plans[p].state = "none"
    BY <2>1, NoPlanState DEF deploy_plan
  <2>6. \A q \in PlanIds : plans'[q].state # "none" /\ plans'[q].replaced =>
            /\ plans[q].state # "none" /\ plans[q].replaced
            /\ plans'[q].baseline = plans[q].baseline
    BY <2>3, <2>4
  <2>7. command.plan # NoPlanId => /\ plans'[command.plan].state # "none"
                                   /\ plans'[command.plan].baseline = plans[command.plan].baseline
    <3>1. command.plan # NoPlanId => command.plan \in PlanIds /\ plans[command.plan].state # "none"
      BY <1>0 DEF CommandRecord, LegacyInv, BaselinesAge
    <3> QED
      BY <2>4, <2>5, <3>1
  <2> QED
    BY <1>0, <1>1, <1>2, <2>4, <2>6, <2>7, PlansChange
<1> QED
  BY <1>3, <1>4

(* What a verification found is written, on the active record as well when *)
(* that is read as the same release.                                       *)
LEMMA VerifiesLegacy ==
  ASSUME LegacyInv, run_verifications
  PROVE  LegacyInv'
<1>0. current \in ReleaseRecord /\ command \in CommandRecord /\ active \in ReleaseRecord
  BY DEF LegacyInv, LegacyTypeOK
<1>1. PICK tls \in BOOLEAN, checks \in BOOLEAN :
        IF ~(tls /\ checks) /\ command.attempt + 1 < Attempts
        THEN command' = [command EXCEPT !.attempt = @ + 1] /\ UNCHANGED <<current, active>>
        ELSE update_current_release_verification(tls /\ checks) /\ Finish
  BY DEF run_verifications
<1>2. CASE command' = [command EXCEPT !.attempt = @ + 1] /\ UNCHANGED <<current, active>>
  <2>1. /\ command' \in CommandRecord /\ command'.at = command.at /\ command'.plan = command.plan
    BY SMT, <1>0, <1>2 DEF CommandRecord
  <2>2. LegacyTypeOK'
    BY <1>2, <2>1 DEF LegacyInv, LegacyTypeOK, run_verifications
  <2>3. CommandKeeps'
    BY <2>1 DEF CommandKeeps, Pending, Kept, Written, Applying, Phases, run_verifications, At
  <2> QED
    BY <1>2, <2>1, <2>2, <2>3, CommandMoves DEF run_verifications
<1>3. CASE update_current_release_verification(tls /\ checks) /\ Finish
  <2>1. PICK v \in {"none", "passed", "failed"}, a \in BOOLEAN :
          _update_current_release(a, v) /\ a = current.applied
    BY <1>0, <1>3 DEF update_current_release_verification, ReleaseRecord
  <2>2. /\ current' \in ReleaseRecord
        /\ current'.id = current.id /\ current'.applied = current.applied /\ current'.by = ordered
        /\ current.by <= current'.by
    BY <2>1, Updated
  <2>3. command'.at = "done" /\ command'.plan = NoPlanId /\ command' \in CommandRecord
    BY <1>3, IdleCommand DEF Finish
  <2>4. active' = IF active_release.id = current.id THEN current' ELSE active
    BY <1>3 DEF update_current_release_verification
  <2>5. LegacyTypeOK'
    BY <2>2, <2>3, <2>4 DEF LegacyInv, LegacyTypeOK, run_verifications
  <2>6. CommandKeeps'
    BY <2>3 DEF CommandKeeps, Pending, Kept, Written, Applying, Phases
  <2>7. ReadAsActiveIsKept'
    <3>1. active_release'.id # 0 => active_release'.id = active_release.id
      BY <2>2, <2>4 DEF active_release, NoRecord
    <3> QED
      BY <3>1 DEF LegacyInv, ReadAsActiveIsKept, run_verifications
  <2>8. ordered \in Nat /\ ordered <= ordered
    BY SMT DEF LegacyInv, LegacyTypeOK
  <2>9. BaselinesAge' /\ OnePlanPerBaseline'
    BY <2>2, <2>3, <2>5, <2>8, RecordChanges DEF run_verifications, Pending
  <2> QED
    BY <2>5, <2>6, <2>7, <2>9 DEF LegacyInv
<1> QED
  BY <1>1, <1>2, <1>3

-----------------------------------------------------------------------------
(* A rollback.                                                             *)

LEMMA RestoresLegacy ==
  ASSUME LegacyInv, RestoreFiles \/ _restore_shared_caddy
  PROVE  LegacyInv'
<1>0. command \in CommandRecord /\ files \in AppFiles
  BY DEF LegacyInv, LegacyTypeOK
<1>1. PICK s \in {"restore_site", "point"} : command' = [command EXCEPT !.at = s]
  BY DEF RestoreFiles, _restore_shared_caddy, Goto
<1>2. /\ command' \in CommandRecord /\ command'.at = s /\ command'.plan = command.plan
      /\ command'.release = command.release
  BY <1>0, <1>1, Moved DEF Steps
<1>3. command.at \in Kept
  BY DEF RestoreFiles, _restore_shared_caddy, At, Kept
<1>4. command.release \in snapshots /\ command.release \in Releases
  BY <1>3 DEF LegacyInv, CommandKeeps, LegacyTypeOK
<1>5. /\ files' \in AppFiles /\ files.support \subseteq files'.support
      /\ Support[command.release] \subseteq files'.support
  <2>1. Support[command.release] \subseteq SupportFiles
    BY <1>4 DEF SupportFiles
  <2>2. CASE RestoreFiles
    BY <1>0, <1>4, <2>1, <2>2 DEF RestoreFiles, AppFiles
  <2>3. CASE _restore_shared_caddy
    BY <1>0, <2>3 DEF _restore_shared_caddy, At, Written, LegacyInv, CommandKeeps
  <2> QED
    BY <2>2, <2>3
<1>6. /\ UNCHANGED <<current, active, snapshots, plans, ordered, published, serving>>
      /\ site' \in Releases \cup {0}
  BY <1>4 DEF RestoreFiles, _restore_shared_caddy, LegacyInv, LegacyTypeOK
<1>7. LegacyTypeOK'
  BY <1>2, <1>5, <1>6 DEF LegacyInv, LegacyTypeOK
<1>8. CommandKeeps'
  <2>1. command'.at \notin Applying /\ command'.at # "delete"
    BY <1>2 DEF Applying, Phases
  <2> QED
    BY <1>2, <1>4, <1>5, <1>6, <2>1 DEF CommandKeeps
<1>9. ReadAsActiveIsKept'
  <2>1. active_release' = active_release
    BY <1>6 DEF active_release
  <2> QED
    BY <1>5, <1>6, <2>1 DEF LegacyInv, ReadAsActiveIsKept
<1>10. BaselinesAge' /\ OnePlanPerBaseline'
  BY <1>2, <1>6 DEF LegacyInv, BaselinesAge, OnePlanPerBaseline, Pending
<1> QED
  BY <1>7, <1>8, <1>9, <1>10 DEF LegacyInv

(* The record written anew for the command's release.                      *)
LEMMA NewRecord ==
  ASSUME LegacyInv, NEW a \in BOOLEAN,
         current' = [id |-> command.release, applied |-> a, verified |-> "none", by |-> ordered]
  PROVE  /\ current' \in ReleaseRecord
         /\ current'.id = command.release /\ current'.applied = a /\ current'.by = ordered
         /\ current.by <= current'.by
<1>1. ordered \in Nat /\ current.by <= ordered /\ command.release \in Releases \cup {0}
  BY DEF LegacyInv, LegacyTypeOK, BaselinesAge, CommandRecord
<1> QED
  BY <1>1 DEF ReleaseRecord

LEMMA PointsLegacy ==
  ASSUME LegacyInv, apply_rollback
  PROVE  LegacyInv'
<1>0. current \in ReleaseRecord /\ command \in CommandRecord
  BY DEF LegacyInv, LegacyTypeOK
<1>2. /\ current' \in ReleaseRecord
      /\ current'.id = command.release /\ current'.by = ordered
      /\ current.by <= current'.by
  BY NewRecord DEF apply_rollback
<1>3. /\ command' \in CommandRecord /\ command'.at = "activate"
      /\ command'.release = command.release /\ command'.plan = command.plan
  BY <1>0, Moved DEF apply_rollback, Goto, Steps
<1>4. LegacyTypeOK'
  BY <1>2, <1>3 DEF LegacyInv, LegacyTypeOK, apply_rollback
<1>5. /\ command.release \in snapshots /\ Support[command.release] \subseteq files.support
  BY DEF LegacyInv, CommandKeeps, Kept, Written, apply_rollback, At
<1>6. CommandKeeps'
  BY <1>2, <1>3, <1>5 DEF CommandKeeps, Pending, apply_rollback
<1>7. ReadAsActiveIsKept'
  <2>1. active_release'.id # 0 => active_release'.id \in {active_release.id, command.release}
    BY <1>2 DEF active_release, apply_rollback, NoRecord
  <2> QED
    BY <1>5, <2>1 DEF LegacyInv, ReadAsActiveIsKept, apply_rollback
<1>8. ordered \in Nat /\ ordered <= ordered
  BY SMT DEF LegacyInv, LegacyTypeOK
<1>9. BaselinesAge' /\ OnePlanPerBaseline'
  BY <1>2, <1>3, <1>4, <1>8, RecordChanges DEF apply_rollback, Pending
<1> QED
  BY <1>4, <1>6, <1>7, <1>9 DEF LegacyInv

-----------------------------------------------------------------------------
(* Garbage collection: what is doomed is neither release the records name. *)
LEMMA CollectsLegacy ==
  ASSUME LegacyInv, apply_gc
  PROVE  LegacyInv'
<1>0. command \in CommandRecord /\ snapshots \subseteq Releases /\ published \subseteq Releases \cup {0}
  BY DEF LegacyInv, LegacyTypeOK
<1>1. PICK c \in Candidates : command.doomed = {c} /\ c.bundles \cap {current.id, active.id} = {}
  BY DEF LegacyInv, CommandKeeps, apply_gc, At
<1>2. (CHOOSE d \in command.doomed : TRUE) = c
  BY <1>1
<1>3. \/ \E r \in c.bundles :
            /\ snapshots' = snapshots \ {r}
            /\ command' = [command EXCEPT !.doomed = {[c EXCEPT !.bundles = @ \ {r}]}]
            /\ UNCHANGED published
      \/ \E r \in c.assets :
            /\ published' = published \ {r}
            /\ command' = [command EXCEPT !.doomed = {[c EXCEPT !.assets = @ \ {r}]}]
            /\ UNCHANGED snapshots
      \/ Finish /\ UNCHANGED <<snapshots, published>>
  BY <1>2 DEF apply_gc
<1>4. UNCHANGED <<files, current, active, site, serving, plans, ordered>>
  BY DEF apply_gc
<1>5. CASE Finish /\ UNCHANGED <<snapshots, published>>
  BY <1>4, <1>5, FinishLegacy DEF LegacyInv, LegacyTypeOK
<1>6. CASE ~(Finish /\ UNCHANGED <<snapshots, published>>)
  <2>1. PICK d \in Candidates :
          /\ command' = [command EXCEPT !.doomed = {d}]
          /\ d.bundles \subseteq c.bundles
          /\ snapshots \ c.bundles \subseteq snapshots' /\ snapshots' \subseteq snapshots
          /\ published' \subseteq published
    <3>1. CASE \E r \in c.bundles :
                 /\ snapshots' = snapshots \ {r}
                 /\ command' = [command EXCEPT !.doomed = {[c EXCEPT !.bundles = @ \ {r}]}]
                 /\ UNCHANGED published
      <4>1. PICK r \in c.bundles :
                 /\ snapshots' = snapshots \ {r}
                 /\ command' = [command EXCEPT !.doomed = {[c EXCEPT !.bundles = @ \ {r}]}]
                 /\ UNCHANGED published
        BY <3>1
      <4>2. /\ [c EXCEPT !.bundles = @ \ {r}] \in Candidates
            /\ [c EXCEPT !.bundles = @ \ {r}].bundles \subseteq c.bundles
        BY SMT DEF Candidates
      <4> QED
        BY <4>1, <4>2
    <3>2. CASE \E r \in c.assets :
                 /\ published' = published \ {r}
                 /\ command' = [command EXCEPT !.doomed = {[c EXCEPT !.assets = @ \ {r}]}]
                 /\ UNCHANGED snapshots
      <4>1. PICK r \in c.assets :
                 /\ published' = published \ {r}
                 /\ command' = [command EXCEPT !.doomed = {[c EXCEPT !.assets = @ \ {r}]}]
                 /\ UNCHANGED snapshots
        BY <3>2
      <4>2. /\ [c EXCEPT !.assets = @ \ {r}] \in Candidates
            /\ [c EXCEPT !.assets = @ \ {r}].bundles \subseteq c.bundles
        BY SMT DEF Candidates
      <4> QED
        BY <4>1, <4>2
    <3> QED
      BY <1>3, <1>6, <3>1, <3>2
  <2>2. /\ command' \in CommandRecord /\ command'.at = "delete" /\ command'.plan = command.plan
        /\ command'.doomed = {d}
    BY SMT, <1>0, <2>1 DEF CommandRecord, apply_gc, At
  <2>3. LegacyTypeOK'
    BY <1>0, <1>4, <2>1, <2>2 DEF LegacyInv, LegacyTypeOK
  <2>4. CommandKeeps'
    <3>1. command'.at \notin Kept /\ command'.at \notin Written /\ command'.at \notin Applying
      BY <2>2 DEF Kept, Written, Applying, Phases
    <3>2. d.bundles \cap {current'.id, active'.id} = {}
      BY <1>1, <1>4, <2>1
    <3> QED
      BY <2>2, <3>1, <3>2 DEF CommandKeeps, Pending
  <2>5. ReadAsActiveIsKept'
    <3>1. active_release' = active_release /\ (active_release.id # 0 => active_release.id \in {current.id, active.id})
      BY <1>4 DEF active_release, NoRecord
    <3>2. active_release.id # 0 => active_release.id \notin c.bundles
      BY <1>1, <3>1
    <3> QED
      BY <1>4, <2>1, <3>1, <3>2 DEF LegacyInv, ReadAsActiveIsKept
  <2>6. BaselinesAge' /\ OnePlanPerBaseline'
    BY <1>4, <2>2 DEF LegacyInv, BaselinesAge, OnePlanPerBaseline, Pending
  <2> QED
    BY <2>3, <2>4, <2>5, <2>6 DEF LegacyInv
<1> QED
  BY <1>3, <1>5, <1>6

-----------------------------------------------------------------------------
(* A deployment.                                                           *)

(* The live state the baseline was taken of is the third of its parts.     *)
LEMMA BaselineOfCurrent == deployment_baseline_digest[3] = current
  BY SMT DEF deployment_baseline_digest

(* A command is started: nothing of it is written yet.                     *)
LEMMA StartsLegacy ==
  ASSUME LegacyInv, NEW op \in {"stage", "apply", "rollback", "gc", "verify"},
         NEW at \in {"write", "restore", "delete", "verify"}, NEW r \in Releases \cup {0},
         NEW p \in PlanIds \cup {NoPlanId}, NEW d \in SUBSET Candidates, Start(op, at, r, p, d),
         at = "restore" => r \in snapshots, at = "write" => r \in Releases,
         at = "delete" => \E c \in Candidates : d = {c} /\ c.bundles \cap {current.id, active.id} = {},
         p # NoPlanId => plans[p].state # "none" /\ plans[p].baseline = deployment_baseline_digest
  PROVE  LegacyInv'
<1>1. /\ command' = [op |-> op, at |-> at, release |-> r, plan |-> p, attempt |-> 0, doomed |-> d]
      /\ UNCHANGED <<files, current, active, snapshots, site, serving, published, plans>>
      /\ ordered' = ordered + 1
  BY DEF Start
<1>2. /\ command' \in CommandRecord /\ command'.at = at /\ command'.release = r /\ command'.plan = p
      /\ command'.doomed = d
  BY SMT, <1>1 DEF CommandRecord, Steps
<1>3. ordered \in Nat /\ ordered' \in Nat /\ current.by \in Nat /\ current.by <= ordered
  BY SMT, <1>1 DEF LegacyInv, LegacyTypeOK, ReleaseRecord, BaselinesAge
<1>4. current.by < ordered' /\ current.by <= ordered'
  BY SMT, <1>1, <1>3
<1>5. LegacyTypeOK'
  BY <1>1, <1>2, <1>3 DEF LegacyInv, LegacyTypeOK
<1>6. CommandKeeps'
  <2>1. /\ command'.at \notin Written /\ command'.at \notin Applying
        /\ command'.at \in Kept => at = "restore"
        /\ command'.at \in Pending => at = "write"
    BY <1>2 DEF Kept, Written, Applying, Phases, Pending
  <2> QED
    BY <1>1, <1>2, <2>1 DEF CommandKeeps
<1>7. ReadAsActiveIsKept'
  BY <1>1 DEF LegacyInv, ReadAsActiveIsKept, active_release
<1>8. BaselinesAge'
  BY <1>1, <1>2, <1>4, BaselineOfCurrent DEF LegacyInv, BaselinesAge
<1>9. OnePlanPerBaseline'
  BY SMT, <1>1 DEF LegacyInv, OnePlanPerBaseline
<1> QED
  BY <1>5, <1>6, <1>7, <1>8, <1>9 DEF LegacyInv

LEMMA DeployStarts ==
  ASSUME LegacyInv, DeployCommand
  PROVE  LegacyInv'
<1>0. {} \in SUBSET Candidates
  OBVIOUS
<1>1. ASSUME NEW r \in Releases, StartStage(r) \/ StartApply(r)
      PROVE  LegacyInv'
  <2>1. PICK op \in {"stage", "apply"} : Start(op, "write", r, NoPlanId, {})
    BY <1>1 DEF StartStage, StartApply
  <2> QED
    BY SMT, <1>0, <2>1, StartsLegacy
<1>2. ASSUME NEW p \in PlanIds, StartConfirmed(p)
      PROVE  LegacyInv'
  <2>1. plans[p].state # "none" /\ plans[p].baseline = deployment_baseline_digest
    BY <1>2 DEF StartConfirmed, find_confirmed_staging, _verify_binding
  <2>2. plans[p] \in OpenPlan
    BY <2>1, HeldPlan
  <2>3. PICK r \in Releases : r = plans[p].release
    BY <2>2 DEF OpenPlan
  <2> QED
    BY SMT, <1>0, <1>2, <2>1, <2>3, StartsLegacy DEF StartConfirmed
<1> QED
  BY <1>1, <1>2 DEF DeployCommand

LEMMA OtherStarts ==
  ASSUME LegacyInv, StartGc \/ StartVerify \/ \E r \in Releases : StartRollback(r)
  PROVE  LegacyInv'
<1>0. /\ current.id \in Releases \cup {0} /\ snapshots \subseteq Releases
      /\ published \subseteq Releases \cup {0}
  BY DEF LegacyInv, LegacyTypeOK, ReleaseRecord
<1>a. {} \in SUBSET Candidates
  OBVIOUS
<1>1. CASE StartGc
  <2>1. gc_candidates \in Candidates /\ gc_candidates.bundles \cap {current.id, active.id} = {}
    BY <1>0 DEF gc_candidates, Candidates, _protected_release_ids
  <2>2. PICK c \in Candidates : c = gc_candidates /\ c.bundles \cap {current.id, active.id} = {}
    BY <2>1
  <2>3. Start("gc", "delete", 0, NoPlanId, {c})
    BY <1>1, <2>2 DEF StartGc
  <2>4. {c} \in SUBSET Candidates
    BY <2>2
  <2> QED
    BY <2>2, <2>3, <2>4, StartsLegacy
<1>2. CASE StartVerify
  <2>1. PICK r \in Releases \cup {0} : r = current.id
    BY <1>0
  <2> QED
    BY SMT, <1>a, <1>2, <2>1, StartsLegacy DEF StartVerify
<1>3. ASSUME NEW r \in Releases, StartRollback(r)
      PROVE  LegacyInv'
  BY SMT, <1>a, <1>3, StartsLegacy DEF StartRollback
<1> QED
  BY <1>1, <1>2, <1>3

(* Staging preserves the support files of the release read as active.      *)
LEMMA WritesLegacy ==
  ASSUME LegacyInv, deploy_bundle \/ deploy_confirmed_candidate
  PROVE  LegacyInv'
<1>0. command \in CommandRecord /\ files \in AppFiles /\ At("write") /\ Materialize
  BY DEF LegacyInv, LegacyTypeOK, deploy_bundle, deploy_confirmed_candidate
<1>1. /\ command' \in CommandRecord /\ command'.at = "snapshot" /\ command'.plan = command.plan
      /\ command'.release = command.release
  BY <1>0, Moved DEF Materialize, Goto, Steps
<1>2. UNCHANGED <<current, active, snapshots, plans, ordered, published, serving, site>>
  BY <1>0 DEF Materialize
<1>3. command.release \in Releases
  BY <1>0 DEF LegacyInv, CommandKeeps, Pending, At
<1>4. /\ files' \in AppFiles
      /\ Support[command.release] \subseteq files'.support
      /\ files.support \cap active_support_paths \subseteq files'.support
  <2>1. EnvOf(command.release) \in {"missing", "placeholder", "filled"}
    BY <1>0 DEF EnvOf, AppFiles
  <2>2. Support[command.release] \subseteq SupportFiles
    BY <1>3 DEF SupportFiles
  <2>3. files.support \subseteq SupportFiles
    BY <1>0 DEF AppFiles
  <2>4. /\ files'.bundle = command.release /\ files'.env = EnvOf(command.release)
        /\ files'.support = (files.support \cup Support[command.release])
                            \cap (Support[command.release] \cup active_support_paths)
        /\ files' = [bundle |-> files'.bundle, support |-> files'.support, env |-> files'.env]
    BY <1>0 DEF Materialize, remove_stale_support_files
  <2>5. files'.support \in SUBSET SupportFiles
    BY <2>2, <2>3, <2>4
  <2>6. files' \in AppFiles
    BY SMT, <1>3, <2>1, <2>4, <2>5 DEF AppFiles
  <2> QED
    BY <2>4, <2>6
<1>5. LegacyTypeOK'
  BY <1>1, <1>2, <1>4 DEF LegacyInv, LegacyTypeOK
<1>6. CommandKeeps'
  <2>1. command'.at \notin Kept /\ command'.at \notin Applying /\ command'.at # "delete"
    BY <1>1 DEF Kept, Applying, Phases
  <2> QED
    BY <1>1, <1>3, <1>4, <2>1 DEF CommandKeeps
<1>7. ReadAsActiveIsKept'
  <2>1. active_release' = active_release
    BY <1>2 DEF active_release
  <2> QED
    BY <1>2, <1>4, <2>1 DEF LegacyInv, ReadAsActiveIsKept, active_support_paths
<1>8. BaselinesAge' /\ OnePlanPerBaseline'
  BY <1>0, <1>1, <1>2 DEF LegacyInv, BaselinesAge, OnePlanPerBaseline, Pending, At
<1> QED
  BY <1>5, <1>6, <1>7, <1>8 DEF LegacyInv

LEMMA SnapshotLegacy ==
  ASSUME LegacyInv, WriteSnapshot
  PROVE  LegacyInv'
<1>0. command \in CommandRecord /\ snapshots \subseteq Releases
  BY DEF LegacyInv, LegacyTypeOK
<1>1. /\ command' \in CommandRecord /\ command'.at = "record" /\ command'.plan = command.plan
      /\ command'.release = command.release
  BY <1>0, Moved DEF WriteSnapshot, Goto, Steps
<1>2. /\ command.release \in Releases /\ Support[command.release] \subseteq files.support
      /\ command.at \in Pending
  BY DEF LegacyInv, CommandKeeps, Pending, Written, WriteSnapshot, At
<1>3. /\ UNCHANGED <<files, current, active, plans, ordered, published, serving, site>>
      /\ snapshots' = snapshots \cup {command.release}
  BY DEF WriteSnapshot
<1>4. LegacyTypeOK'
  BY <1>0, <1>1, <1>2, <1>3 DEF LegacyInv, LegacyTypeOK
<1>5. CommandKeeps'
  <2>1. command'.at \notin Applying /\ command'.at # "delete"
    BY <1>1 DEF Applying, Phases
  <2> QED
    BY <1>1, <1>2, <1>3, <2>1 DEF CommandKeeps
<1>6. ReadAsActiveIsKept'
  <2>1. active_release' = active_release
    BY <1>3 DEF active_release
  <2> QED
    BY <1>3, <2>1 DEF LegacyInv, ReadAsActiveIsKept
<1>7. BaselinesAge' /\ OnePlanPerBaseline'
  BY <1>1, <1>2, <1>3 DEF LegacyInv, BaselinesAge, OnePlanPerBaseline
<1> QED
  BY <1>4, <1>5, <1>6, <1>7 DEF LegacyInv

LEMMA PlanReplaced ==
  ASSUME NEW x \in OpenPlan
  PROVE  /\ [x EXCEPT !.replaced = TRUE] \in OpenPlan
         /\ [x EXCEPT !.replaced = TRUE].state = x.state
         /\ [x EXCEPT !.replaced = TRUE].baseline = x.baseline
  BY DEF OpenPlan

(* The age of a baseline is a number.                                      *)
LEMMA BaselineHasAge ==
  ASSUME LegacyInv, NEW p \in PlanIds, plans[p].state # "none"
  PROVE  plans[p].baseline[3].by \in Nat
<1>1. plans[p].baseline \in Baseline
  BY HeldPlan DEF OpenPlan
<1>2. plans[p].baseline[3] \in ReleaseRecord
  BY SMT, <1>1 DEF Baseline
<1> QED
  BY <1>2 DEF ReleaseRecord

(* A plan replaces the state it was reviewed against: its baseline is the  *)
(* record that is overwritten, younger than that of any earlier plan.      *)
LEMMA RecordLegacy ==
  ASSUME LegacyInv, WriteRecord
  PROVE  LegacyInv'
<1>0. /\ command \in CommandRecord /\ plans \in [PlanIds -> OpenPlan \cup {NoDeployPlan}]
      /\ current \in ReleaseRecord /\ ordered \in Nat
  BY DEF LegacyInv, LegacyTypeOK
<1>1. /\ current' \in ReleaseRecord
      /\ current'.id = command.release /\ current'.applied = FALSE /\ current'.by = ordered
  BY NewRecord DEF WriteRecord
<1>2. /\ command' \in CommandRecord
      /\ \/ command'.at = "done" /\ command'.plan = NoPlanId
         \/ /\ command'.at = "env_validation" /\ command'.plan = command.plan
            /\ command'.release = command.release
  <2>1. command' = Idle \/ command' = [command EXCEPT !.at = "env_validation"]
    BY DEF WriteRecord, Finish, Goto
  <2>2. "env_validation" \in Steps
    BY DEF Steps, Phases
  <2> QED
    BY <1>0, <2>1, <2>2, Moved, IdleCommand
<1>3. /\ command.at \in Pending /\ command.at \in Kept /\ command.at \in Written
  BY DEF Pending, Kept, Written, WriteRecord, At
<1>4. UNCHANGED <<files, active, snapshots, ordered, published, serving, site>>
  BY DEF WriteRecord
<1>5. /\ current.by < ordered
      /\ command.plan # NoPlanId => /\ plans[command.plan].state # "none" /\ command.plan \in PlanIds
                                    /\ plans[command.plan].baseline[3] = current
  BY <1>0, <1>3 DEF LegacyInv, BaselinesAge, CommandRecord
<1>6. /\ plans' \in [PlanIds -> OpenPlan \cup {NoDeployPlan}]
      /\ \A p \in PlanIds : p # command.plan => plans'[p] = plans[p]
      /\ command.plan # NoPlanId => /\ plans'[command.plan].state = plans[command.plan].state
                                    /\ plans'[command.plan].baseline = plans[command.plan].baseline
  <2>1. CASE command.plan = NoPlanId
    BY <1>0, <2>1 DEF WriteRecord
  <2>2. CASE command.plan # NoPlanId
    <3>1. PICK p \in PlanIds : p = command.plan
      BY <1>5, <2>2
    <3>2. PICK new \in OpenPlan : /\ new = [plans[p] EXCEPT !.replaced = TRUE]
                                  /\ new.state = plans[p].state /\ new.baseline = plans[p].baseline
      BY <1>5, <2>2, <3>1, HeldPlan, PlanReplaced
    <3>3. plans' = [plans EXCEPT ![p] = new]
      BY <2>2, <3>1, <3>2 DEF WriteRecord
    <3> QED
      BY <1>0, <3>1, <3>2, <3>3
  <2> QED
    BY <2>1, <2>2
<1>7. LegacyTypeOK'
  BY <1>1, <1>2, <1>4, <1>6 DEF LegacyInv, LegacyTypeOK
<1>8. CommandKeeps'
  <2>1. command.release \in snapshots /\ Support[command.release] \subseteq files.support
    BY <1>3 DEF LegacyInv, CommandKeeps
  <2>2. CASE command'.at = "done"
    BY <2>2 DEF CommandKeeps, Pending, Kept, Written, Applying, Phases
  <2>3. CASE command'.at # "done"
    <3>1. command'.at = "env_validation" /\ command'.release = command.release /\ command'.at \notin Pending
      BY <1>2, <2>3 DEF Pending
    <3> QED
      BY <1>1, <1>4, <2>1, <3>1 DEF CommandKeeps
  <2> QED
    BY <2>2, <2>3
<1>9. ReadAsActiveIsKept'
  <2>1. active_release'.id # 0 => active_release'.id = active_release.id
    BY <1>1, <1>4 DEF active_release, NoRecord
  <2> QED
    BY <1>4, <2>1 DEF LegacyInv, ReadAsActiveIsKept
<1>10. ASSUME NEW p \in PlanIds, plans'[p].state # "none", plans'[p].replaced
       PROVE  /\ plans[p].state # "none" /\ plans'[p].baseline = plans[p].baseline
              /\ plans[p].baseline[3].by \in Nat
              /\ p # command.plan => plans[p].replaced /\ plans[p].baseline[3].by < current.by
              /\ p = command.plan => plans[p].baseline[3].by = current.by
  <2>1. plans[p].state # "none" /\ plans'[p].baseline = plans[p].baseline
    BY <1>6, <1>10, LegacyConstants
  <2>2. p # command.plan => plans[p].replaced /\ plans[p].baseline[3].by < current.by
    BY <1>6, <1>10, <2>1 DEF LegacyInv, BaselinesAge
  <2>3. p = command.plan => plans[p].baseline[3].by = current.by
    BY <1>5, LegacyConstants
  <2> QED
    BY <2>1, <2>2, <2>3, BaselineHasAge
<1>11. current.by \in Nat
  BY <1>0 DEF ReleaseRecord
<1>12. BaselinesAge'
  <2>1. ASSUME NEW p \in PlanIds, plans'[p].state # "none", plans'[p].replaced
        PROVE  plans'[p].baseline[3].by < current'.by
    <3>1. plans[p].baseline[3].by < current'.by
      <4>1. plans[p].baseline[3].by \in Nat /\ (plans[p].baseline[3].by < current.by \/ plans[p].baseline[3].by = current.by)
        BY <1>10, <2>1
      <4> QED
        BY SMT, <1>0, <1>1, <1>5, <1>11, <4>1
    <3> QED
      BY <1>10, <2>1, <3>1
  <2>2. current'.by <= ordered'
    BY SMT, <1>0, <1>1, <1>4
  <2>3. command'.at \notin Pending
    BY <1>2 DEF Pending
  <2>4. command'.plan # NoPlanId => plans'[command'.plan].state # "none"
    BY <1>2, <1>5, <1>6
  <2> QED
    BY <2>1, <2>2, <2>3, <2>4 DEF BaselinesAge
<1>13. OnePlanPerBaseline'
  <2>1. ASSUME NEW p \in PlanIds, NEW q \in PlanIds, p # q, q # command.plan,
               plans'[p].state # "none", plans'[p].replaced, plans'[q].state # "none", plans'[q].replaced
        PROVE  plans'[p].baseline # plans'[q].baseline
    <3>1. CASE p = command.plan
      <4>1. plans[p].baseline[3].by = current.by /\ plans[q].baseline[3].by < current.by
        BY <1>10, <2>1, <3>1
      <4>2. plans[p].baseline[3].by # plans[q].baseline[3].by
        BY SMT, <1>10, <1>11, <2>1, <4>1
      <4> QED
        BY <1>10, <2>1, <4>2
    <3>2. CASE p # command.plan
      <4>1. plans[p].state # "none" /\ plans[p].replaced /\ plans[q].state # "none" /\ plans[q].replaced
        BY <1>10, <2>1, <3>2
      <4>2. plans[p].baseline # plans[q].baseline
        BY <2>1, <4>1 DEF LegacyInv, OnePlanPerBaseline
      <4> QED
        BY <1>10, <2>1, <4>2
    <3> QED
      BY <3>1, <3>2
  <2> QED
    BY <2>1 DEF OnePlanPerBaseline
<1> QED
  BY <1>7, <1>8, <1>9, <1>12, <1>13 DEF LegacyInv

LEMMA LegacyStep ==
  ASSUME LegacyInv, [LegacyNext]_legacyVars
  PROVE  LegacyInv'
<1>1. CASE UNCHANGED legacyVars \/ gc_plan \/ \E r \in Releases : rollback_plan(r)
  <2>1. UNCHANGED <<files, current, active, snapshots, site, serving, published, plans, command, ordered>>
    BY <1>1 DEF legacyVars, gc_plan, rollback_plan
  <2>2. LegacyTypeOK'
    BY <2>1 DEF LegacyInv, LegacyTypeOK
  <2>3. CommandKeeps'
    BY <2>1 DEF LegacyInv, CommandKeeps
  <2> QED
    BY <2>1, <2>2, <2>3, CommandMoves
<1>2. CASE OperatorFillsEnv
  <2>1. UNCHANGED <<current, active, snapshots, site, serving, published, plans, command, ordered>>
    BY <1>2 DEF OperatorFillsEnv
  <2>2. files' \in AppFiles /\ files'.support = files.support
    BY SMT, <1>2 DEF OperatorFillsEnv, LegacyInv, LegacyTypeOK, AppFiles
  <2>3. LegacyTypeOK'
    BY <2>1, <2>2 DEF LegacyInv, LegacyTypeOK
  <2>4. CommandKeeps'
    BY <2>1, <2>2 DEF LegacyInv, CommandKeeps
  <2> QED
    BY <2>1, <2>2, <2>3, <2>4, CommandMoves
<1>3. CASE CommandKilled
  BY <1>3, FinishLegacy DEF CommandKilled, LegacyInv, LegacyTypeOK
<1>4. CASE \E p \in PlanIds : ConfirmationExpires(p) \/ \E r \in Releases : deploy_plan(p, r)
  BY <1>4, PlansLegacy
<1>5. CASE DeployCommand
  BY <1>5, DeployStarts
<1>6. CASE StartGc \/ StartVerify \/ \E r \in Releases : StartRollback(r)
  BY <1>6, OtherStarts
<1>7. CASE deploy_bundle \/ deploy_confirmed_candidate
  BY <1>7, WritesLegacy
<1>8. CASE WriteSnapshot
  BY <1>8, SnapshotLegacy
<1>9. CASE WriteRecord
  BY <1>9, RecordLegacy
<1>10. CASE apply_local_bundle
  BY <1>10, ApplyingLegacy, PhaseFailsLegacy DEF apply_local_bundle
<1>11. CASE update_current_release_apply
  BY <1>11, CompletesLegacy
<1>12. CASE _write_active_release
  BY <1>12, ActivatesLegacy
<1>13. CASE cleanup_inactive_support_files
  BY <1>13, CleansLegacy
<1>14. CASE consume_confirmed_staging
  BY <1>14, ConsumesLegacy
<1>15. CASE run_verifications
  BY <1>15, VerifiesLegacy
<1>16. CASE RestoreFiles \/ _restore_shared_caddy
  BY <1>16, RestoresLegacy
<1>17. CASE apply_rollback
  BY <1>17, PointsLegacy
<1>18. CASE apply_gc
  BY <1>18, CollectsLegacy
<1> QED
  BY <1>1, <1>2, <1>3, <1>4, <1>5, <1>6, <1>7, <1>8, <1>9, <1>10, <1>11, <1>12, <1>13, <1>14, <1>15, <1>16,
     <1>17, <1>18 DEF LegacyNext

(* Whatever is deployed, verified, rolled back, collected or killed under  *)
(* an app directory, two plans reviewed against the same live state never  *)
(* both replace it (_verify_binding, deployment_baseline_digest).          *)
THEOREM PlansReplaceOnce == LegacySpec => []OnePlanPerBaseline
<1>1. LegacyInv => OnePlanPerBaseline
  BY DEF LegacyInv
<1> QED
  BY <1>1, LegacyStart, LegacyStep, PTL DEF LegacySpec

(* The active release keeps its snapshot and its support files, for any    *)
(* releases and any number of commands (gc_plan,                           *)
(* remove_stale_support_files, cleanup_inactive_support_files).            *)
THEOREM ActiveReleaseIsKept == LegacySpec => []ActiveIsKept
<1>1. LegacyInv => ActiveIsKept
  BY DEF LegacyInv, ReadAsActiveIsKept, active_release, ActiveIsKept
<1> QED
  BY <1>1, LegacyStart, LegacyStep, PTL DEF LegacySpec

-----------------------------------------------------------------------------
(* Backing up and restoring the host.                                      *)

HostBackupSpec == HostBackupInit /\ [][HostBackupNext]_hostBackupVars

(* Every file was written by work that the database has as begun.          *)
Accounts(copies, database) ==
  \A p \in Paths : copies[p] # Nobody => database[copies[p]] \in {"executing", "succeeded"}

Trees == [Paths -> Work \cup {Nobody}]

BackupTypeOK ==
  /\ journal \in [Work -> {"none", "accepted", "executing", "succeeded"}]
  /\ admission \in [Work -> BOOLEAN]
  /\ tree \in Trees
  /\ making = [m \in Makers |-> making[m]]
  /\ \A m \in Makers :
       /\ making[m] = [at |-> making[m].at, id |-> making[m].id, token |-> making[m].token,
                       files |-> making[m].files, copied |-> making[m].copied, database |-> making[m].database]
       /\ making[m].files \in Trees
  /\ shelf = [b \in BackupIds |-> shelf[b]]
  /\ \A b \in BackupIds : shelf[b] # Nobody =>
       shelf[b] = [manifest |-> shelf[b].manifest, object |-> shelf[b].object, entries |-> shelf[b].entries,
                   files |-> shelf[b].files, database |-> shelf[b].database]
  /\ restoring = [at |-> restoring.at, id |-> restoring.id, token |-> restoring.token,
                  payload |-> restoring.payload]
  /\ restoring.at # "idle" => restoring.id \in BackupIds

(* Work that was only admitted has not begun, and the tree holds what has. *)
DaemonOK ==
  /\ \A w \in Work : admission[w] => journal[w] = "none"
  /\ Accounts(tree, journal)

(* Copies of files are accounted for by the live database, and from the    *)
(* moment it is copied, which is after them, by the copy.                  *)
CopyOK(m) ==
  /\ Accounts(making[m].files, journal)
  /\ making[m].at \in {"seal", "publish"} => Accounts(making[m].files, making[m].database)

ShelfOK == \A b \in BackupIds : shelf[b] # Nobody => Accounts(shelf[b].files, shelf[b].database)

RestoreOK ==
  restoring.at \in {"check", "rmdir", "promote"} => Accounts(restoring.payload.files, restoring.payload.database)

BackupInv ==
  /\ BackupTypeOK
  /\ DaemonOK
  /\ \A m \in Makers : CopyOK(m)
  /\ ShelfOK
  /\ RestoreOK
  /\ RestoredHostIsSound

LEMMA NothingWritten ==
  ASSUME NEW database
  PROVE  Unwritten \in Trees /\ Accounts(Unwritten, database)
  BY DEF Unwritten, Trees, Accounts

LEMMA NoMaker ==
  /\ NotMaking = [at |-> NotMaking.at, id |-> NotMaking.id, token |-> NotMaking.token,
                  files |-> NotMaking.files, copied |-> NotMaking.copied, database |-> NotMaking.database]
  /\ NotMaking.at = "idle" /\ NotMaking.files = Unwritten
  BY DEF NotMaking

LEMMA NoRestore ==
  /\ NotRestoring = [at |-> NotRestoring.at, id |-> NotRestoring.id, token |-> NotRestoring.token,
                     payload |-> NotRestoring.payload]
  /\ NotRestoring.at = "idle"
  BY DEF NotRestoring

LEMMA BackupStart == HostBackupInit => BackupInv
<1> SUFFICES ASSUME HostBackupInit PROVE BackupInv
  OBVIOUS
<1>1. \A m \in Makers : making[m] = NotMaking
  BY DEF HostBackupInit
<1>2. \A b \in BackupIds : shelf[b] = Nobody
  BY DEF HostBackupInit
<1>3. Unwritten \in Trees
  BY DEF Unwritten, Trees
<1>4. making = [m \in Makers |-> making[m]] /\ shelf = [b \in BackupIds |-> shelf[b]]
  BY DEF HostBackupInit
<1>5. BackupTypeOK
  BY <1>1, <1>2, <1>3, <1>4, NoMaker, NoRestore DEF HostBackupInit, BackupTypeOK
<1>6. DaemonOK
  <2>1. \A w \in Work : ~admission[w]
    BY DEF HostBackupInit
  <2>2. \A p \in Paths : tree[p] = Nobody
    BY DEF HostBackupInit, Unwritten
  <2> QED
    BY <2>1, <2>2 DEF DaemonOK, Accounts
<1>7. \A m \in Makers : CopyOK(m)
  BY <1>1, NoMaker DEF CopyOK, Accounts, Unwritten
<1>8. ShelfOK /\ RestoreOK
  BY <1>2, NoRestore DEF ShelfOK, RestoreOK, HostBackupInit
<1>9. RestoredHostIsSound
  <2>1. root \in {Root("absent"), Root("empty")}
    BY DEF HostBackupInit
  <2>2. root.holds = Nobody
    BY SMT, <2>1 DEF Root
  <2> QED
    BY <2>2 DEF RestoredHostIsSound
<1> QED
  BY <1>5, <1>6, <1>7, <1>8, <1>9 DEF BackupInv

-----------------------------------------------------------------------------
(* Work that has begun stays begun, so the copies stay accounted for.      *)
LEMMA DaemonSteps ==
  ASSUME BackupInv, UNCHANGED <<making, shelf, restoring, root>>,
         journal' \in [Work -> {"none", "accepted", "executing", "succeeded"}],
         admission' \in [Work -> BOOLEAN], tree' \in Trees,
         \A w \in Work : admission'[w] => journal'[w] = "none",
         \A w \in Work : journal[w] \in {"executing", "succeeded"} => journal'[w] \in {"executing", "succeeded"},
         Accounts(tree', journal')
  PROVE  BackupInv'
<1>1. BackupTypeOK'
  BY DEF BackupInv, BackupTypeOK
<1>2. DaemonOK'
  BY DEF DaemonOK, Accounts
<1>3. ASSUME NEW m \in Makers
      PROVE  CopyOK(m)'
  <2>1. making[m].files \in Trees /\ Accounts(making[m].files, journal)
    BY DEF BackupInv, BackupTypeOK, CopyOK
  <2>2. Accounts(making[m].files, journal')
    BY <2>1 DEF Accounts, Trees
  <2> QED
    BY <2>2 DEF BackupInv, CopyOK, Accounts
<1>4. ShelfOK' /\ RestoreOK' /\ RestoredHostIsSound'
  BY DEF BackupInv, ShelfOK, RestoreOK, RestoredHostIsSound, Accounts
<1> QED
  BY <1>1, <1>2, <1>3, <1>4 DEF BackupInv

LEMMA DaemonSound ==
  ASSUME BackupInv,
         \/ \E maintenance, drained \in BOOLEAN : set_host_control(maintenance, drained)
         \/ \E w \in Work : ReadPolicy(w) \/ Submit(w) \/ Execute(w) \/ Succeed(w)
         \/ \E w \in Work, p \in Paths : WriteFile(w, p)
  PROVE  BackupInv'
<1>0. /\ journal \in [Work -> {"none", "accepted", "executing", "succeeded"}]
      /\ admission \in [Work -> BOOLEAN] /\ tree \in [Paths -> Work \cup {Nobody}] /\ tree \in Trees
      /\ \A w \in Work : admission[w] => journal[w] = "none"
      /\ Accounts(tree, journal)
  BY DEF BackupInv, BackupTypeOK, DaemonOK, Trees
<1>1. CASE \E maintenance, drained \in BOOLEAN : set_host_control(maintenance, drained)
  BY <1>0, <1>1, DaemonSteps DEF set_host_control
<1>2. ASSUME NEW w \in Work, ReadPolicy(w)
      PROVE  BackupInv'
  <2>1. admission' \in [Work -> BOOLEAN] /\ \A v \in Work : admission'[v] => v = w \/ admission[v]
    BY <1>0, <1>2 DEF ReadPolicy
  <2>2. \A v \in Work : admission'[v] => journal[v] = "none"
    BY <1>0, <1>2, <2>1 DEF ReadPolicy
  <2> QED
    BY <1>0, <1>2, <2>1, <2>2, DaemonSteps DEF ReadPolicy
<1>3. ASSUME NEW w \in Work, NEW s \in {"accepted", "executing", "succeeded"},
             journal' = [journal EXCEPT ![w] = s],
             journal[w] \in {"executing", "succeeded"} => s # "accepted",
             UNCHANGED <<tree, making, shelf, restoring, root>>,
             \/ admission' = [admission EXCEPT ![w] = FALSE]
             \/ admission' = admission /\ journal[w] # "none"
      PROVE  BackupInv'
  <2>1. /\ journal' \in [Work -> {"none", "accepted", "executing", "succeeded"}]
        /\ journal'[w] = s /\ \A v \in Work : v # w => journal'[v] = journal[v]
    BY <1>0, <1>3
  <2>2. admission' \in [Work -> BOOLEAN] /\ \A v \in Work : admission'[v] => v # w /\ admission[v]
    BY <1>0, <1>3
  <2>3. \A v \in Work : journal[v] \in {"executing", "succeeded"} => journal'[v] \in {"executing", "succeeded"}
    BY <1>3, <2>1
  <2>4. Accounts(tree', journal')
    <3>1. \A p \in Paths : tree[p] # Nobody => tree[p] \in Work
      BY <1>0
    <3> QED
      BY <1>0, <1>3, <2>3, <3>1 DEF Accounts
  <2>5. \A v \in Work : admission'[v] => journal'[v] = "none"
    BY <1>0, <2>1, <2>2
  <2> QED
    BY <1>0, <1>3, <2>1, <2>2, <2>3, <2>4, <2>5, DaemonSteps
<1>4. ASSUME NEW w \in Work, Submit(w) \/ Execute(w) \/ Succeed(w)
      PROVE  BackupInv'
  <2>1. CASE Submit(w)
    <3>1. journal[w] = "none"
      BY <1>0, <2>1 DEF Submit
    <3> QED
      BY <1>3, <2>1, <3>1, "accepted" \in {"accepted", "executing", "succeeded"} DEF Submit
  <2>2. CASE Execute(w)
    BY <1>3, <2>2 DEF Execute
  <2>3. CASE Succeed(w)
    BY <1>3, <2>3 DEF Succeed
  <2> QED
    BY <1>4, <2>1, <2>2, <2>3
<1>5. ASSUME NEW w \in Work, NEW p \in Paths, WriteFile(w, p)
      PROVE  BackupInv'
  <2>1. /\ tree' \in Trees /\ tree'[p] = w /\ \A q \in Paths : q # p => tree'[q] = tree[q]
        /\ journal[w] = "executing"
    BY <1>0, <1>5 DEF WriteFile, Trees
  <2>2. Accounts(tree', journal)
    BY <1>0, <2>1 DEF Accounts
  <2> QED
    BY <1>0, <1>5, <2>1, <2>2, DaemonSteps DEF WriteFile
<1> QED
  BY <1>1, <1>2, <1>4, <1>5

-----------------------------------------------------------------------------
(* A maker's step.                                                         *)
LEMMA MakerSteps ==
  ASSUME BackupInv, NEW m \in Makers, NEW new, making' = [making EXCEPT ![m] = new],
         UNCHANGED <<daemonVars, shelf, restoring, root>>,
         new = [at |-> new.at, id |-> new.id, token |-> new.token,
                files |-> new.files, copied |-> new.copied, database |-> new.database],
         new.files \in Trees, Accounts(new.files, journal),
         new.at \in {"seal", "publish"} => Accounts(new.files, new.database)
  PROVE  BackupInv'
<1>0. making = [x \in Makers |-> making[x]]
  BY DEF BackupInv, BackupTypeOK
<1>1. /\ making' = [x \in Makers |-> making'[x]] /\ making'[m] = new
      /\ \A x \in Makers : x # m => making'[x] = making[x]
  BY <1>0
<1>2. BackupTypeOK'
  BY <1>1 DEF BackupInv, BackupTypeOK, daemonVars
<1>3. \A x \in Makers : CopyOK(x)'
  BY <1>1 DEF BackupInv, CopyOK, daemonVars, Accounts
<1>4. DaemonOK' /\ ShelfOK' /\ RestoreOK' /\ RestoredHostIsSound'
  BY DEF BackupInv, daemonVars, DaemonOK, ShelfOK, RestoreOK, RestoredHostIsSound, Accounts
<1> QED
  BY <1>2, <1>3, <1>4 DEF BackupInv

(* A maker that gives up.                                                  *)
LEMMA MakerRests ==
  ASSUME BackupInv, NEW m \in Makers, MakerGoes(m, NotMaking), UNCHANGED shelf
  PROVE  BackupInv'
<1>1. NotMaking.files \in Trees /\ Accounts(NotMaking.files, journal)
  BY NoMaker DEF Trees, Unwritten, Accounts
<1> QED
  BY <1>1, NoMaker, MakerSteps DEF MakerGoes

LEMMA MakerAsIs ==
  ASSUME BackupInv, NEW m \in Makers
  PROVE  /\ making[m] = [at |-> making[m].at, id |-> making[m].id, token |-> making[m].token,
                         files |-> making[m].files, copied |-> making[m].copied,
                         database |-> making[m].database]
         /\ making[m].files \in Trees /\ CopyOK(m)
  BY DEF BackupInv, BackupTypeOK

LEMMA PlanBackupSound ==
  ASSUME BackupInv, NEW m \in Makers, NEW b \in BackupIds, PlanBackup(m, b) \/ BeginBackup(m, b)
  PROVE  BackupInv'
<1>1. PICK plan : plan = host_backup_plan(b)
  OBVIOUS
<1>2. \/ MakerGoes(m, NotMaking)
      \/ MakerGoes(m, [NotMaking EXCEPT !.at = "planned", !.id = b, !.token = plan])
      \/ MakerGoes(m, [NotMaking EXCEPT !.at = "copy", !.id = b])
  BY <1>1 DEF PlanBackup, BeginBackup, MakerGoes
<1>3. UNCHANGED shelf
  BY DEF PlanBackup, BeginBackup
<1>4. NotMaking.files \in Trees /\ Accounts(NotMaking.files, journal)
  BY NoMaker DEF Trees, Unwritten, Accounts
<1>5. CASE MakerGoes(m, [NotMaking EXCEPT !.at = "planned", !.id = b, !.token = plan])
  <2>1. PICK new : /\ new = [NotMaking EXCEPT !.at = "planned", !.id = b, !.token = plan]
                   /\ MakerGoes(m, new)
    BY <1>5
  <2>2. /\ new = [at |-> new.at, id |-> new.id, token |-> new.token,
                  files |-> new.files, copied |-> new.copied, database |-> new.database]
        /\ new.at = "planned" /\ new.files = NotMaking.files
    BY <2>1 DEF NotMaking
  <2> QED
    BY <1>3, <1>4, <2>1, <2>2, MakerSteps DEF MakerGoes
<1>6. CASE MakerGoes(m, [NotMaking EXCEPT !.at = "copy", !.id = b])
  <2>1. PICK new : /\ new = [NotMaking EXCEPT !.at = "copy", !.id = b]
                   /\ MakerGoes(m, new)
    BY <1>6
  <2>2. /\ new = [at |-> new.at, id |-> new.id, token |-> new.token,
                  files |-> new.files, copied |-> new.copied, database |-> new.database]
        /\ new.at = "copy" /\ new.files = NotMaking.files
    BY <2>1 DEF NotMaking
  <2> QED
    BY <1>3, <1>4, <2>1, <2>2, MakerSteps DEF MakerGoes
<1> QED
  BY <1>2, <1>3, <1>5, <1>6, MakerRests

(* A file is copied as it is, and the database after the last of them.     *)
LEMMA SnapshotSound ==
  ASSUME BackupInv, NEW m \in Makers, _snapshot_runtime(m)
  PROVE  BackupInv'
<1>1. PICK old, next : old = making[m] /\ next = old.copied + 1
  OBVIOUS
<1>2. /\ old = [at |-> old.at, id |-> old.id, token |-> old.token,
                files |-> old.files, copied |-> old.copied, database |-> old.database]
      /\ old.files \in Trees /\ Accounts(old.files, journal)
      /\ tree \in Trees /\ Accounts(tree, journal)
  BY <1>1, MakerAsIs DEF CopyOK, BackupInv, BackupTypeOK, DaemonOK
<1>3. PICK copies : copies = [old.files EXCEPT ![next] = tree[next]]
  OBVIOUS
<1>4. copies \in Trees /\ Accounts(copies, journal)
  <2>1. copies \in [Paths -> Work \cup {Nobody}] /\ \A p \in Paths : copies[p] = old.files[p] \/ copies[p] = tree[p]
    <3>1. old.files \in [Paths -> Work \cup {Nobody}] /\ tree \in [Paths -> Work \cup {Nobody}]
      BY <1>2 DEF Trees
    <3> QED
      BY <1>3, <3>1
  <2> QED
    BY <1>2, <2>1 DEF Trees, Accounts
<1>5. PICK database : database = journal
  OBVIOUS
<1>6. /\ UNCHANGED shelf /\ old.at = "copy"
      /\ \/ MakerGoes(m, [old EXCEPT !.files = copies, !.copied = next])
         \/ MakerGoes(m, [old EXCEPT !.database = database, !.at = "seal"])
  BY <1>1, <1>3, <1>5 DEF _snapshot_runtime, _copy_regular
<1>7. CASE MakerGoes(m, [old EXCEPT !.files = copies, !.copied = next])
  <2>1. PICK new : new = [old EXCEPT !.files = copies, !.copied = next] /\ MakerGoes(m, new)
    BY <1>7
  <2>2. /\ new = [at |-> new.at, id |-> new.id, token |-> new.token,
                  files |-> new.files, copied |-> new.copied, database |-> new.database]
        /\ new.at = "copy" /\ new.files = copies
    BY <1>2, <1>6, <2>1
  <2>3. making' = [making EXCEPT ![m] = new] /\ UNCHANGED <<daemonVars, shelf, restoring, root>>
    BY <1>6, <2>1 DEF MakerGoes
  <2> QED
    BY <1>4, <2>2, <2>3, MakerSteps
<1>8. CASE MakerGoes(m, [old EXCEPT !.database = database, !.at = "seal"])
  <2>1. PICK new : new = [old EXCEPT !.database = database, !.at = "seal"] /\ MakerGoes(m, new)
    BY <1>8
  <2>2. /\ new = [at |-> new.at, id |-> new.id, token |-> new.token,
                  files |-> new.files, copied |-> new.copied, database |-> new.database]
        /\ new.files = old.files /\ new.database = database
    BY <1>2, <2>1
  <2>3. making' = [making EXCEPT ![m] = new] /\ UNCHANGED <<daemonVars, shelf, restoring, root>>
    BY <1>6, <2>1 DEF MakerGoes
  <2> QED
    BY <1>2, <1>5, <2>2, <2>3, MakerSteps
<1> QED
  BY <1>6, <1>7, <1>8

LEMMA SealSound ==
  ASSUME BackupInv, NEW m \in Makers, Seal(m)
  PROVE  BackupInv'
<1>1. PICK old : old = making[m]
  OBVIOUS
<1>2. /\ old = [at |-> old.at, id |-> old.id, token |-> old.token,
                files |-> old.files, copied |-> old.copied, database |-> old.database]
      /\ old.files \in Trees /\ Accounts(old.files, journal) /\ Accounts(old.files, old.database)
  BY <1>1, MakerAsIs DEF CopyOK, Seal
<1>3. /\ UNCHANGED shelf
      /\ MakerGoes(m, NotMaking) \/ MakerGoes(m, [old EXCEPT !.at = "publish"])
  BY <1>1 DEF Seal
<1>4. CASE MakerGoes(m, [old EXCEPT !.at = "publish"])
  <2>1. PICK new : new = [old EXCEPT !.at = "publish"] /\ MakerGoes(m, new)
    BY <1>4
  <2>2. /\ new = [at |-> new.at, id |-> new.id, token |-> new.token,
                  files |-> new.files, copied |-> new.copied, database |-> new.database]
        /\ new.files = old.files /\ new.database = old.database
    BY SMT, <1>2, <2>1
  <2> QED
    BY <1>2, <1>3, <2>1, <2>2, MakerSteps DEF MakerGoes
<1> QED
  BY <1>3, <1>4, MakerRests


(* What is published is what was sealed.                                   *)
LEMMA PublishBackupSound ==
  ASSUME BackupInv, NEW m \in Makers, Publish(m)
  PROVE  BackupInv'
<1>1. PICK old, b : old = making[m] /\ b = making[m].id
  OBVIOUS
<1>2. Accounts(old.files, old.database)
  BY <1>1, MakerAsIs DEF CopyOK, Publish
<1>3. /\ making' = [making EXCEPT ![m] = NotMaking] /\ UNCHANGED <<daemonVars, restoring, root>>
      /\ shelf' = shelf \/ shelf' = [shelf EXCEPT ![b] = Sealed(old)]
  BY <1>1 DEF Publish, MakerGoes
<1>4. /\ making = [x \in Makers |-> making[x]] /\ shelf = [x \in BackupIds |-> shelf[x]]
  BY DEF BackupInv, BackupTypeOK
<1>5. /\ making' = [x \in Makers |-> making'[x]] /\ making'[m] = NotMaking
      /\ \A x \in Makers : x # m => making'[x] = making[x]
  BY <1>3, <1>4
<1>6. /\ shelf' = [x \in BackupIds |-> shelf'[x]]
      /\ \A x \in BackupIds : shelf'[x] = shelf[x] \/ shelf'[x] = Sealed(old)
  BY <1>3, <1>4
<1>7. /\ Sealed(old) = [manifest |-> Sealed(old).manifest, object |-> Sealed(old).object,
                        entries |-> Sealed(old).entries, files |-> Sealed(old).files,
                        database |-> Sealed(old).database]
      /\ Sealed(old).files = old.files /\ Sealed(old).database = old.database
  BY DEF Sealed
<1>8. NotMaking.files \in Trees /\ Accounts(NotMaking.files, journal)
  BY NoMaker DEF Trees, Unwritten, Accounts
<1>9. BackupTypeOK'
  <2>1. \A x \in BackupIds : shelf'[x] # Nobody =>
          shelf'[x] = [manifest |-> shelf'[x].manifest, object |-> shelf'[x].object,
                       entries |-> shelf'[x].entries, files |-> shelf'[x].files, database |-> shelf'[x].database]
    BY <1>6, <1>7 DEF BackupInv, BackupTypeOK
  <2>2. \A x \in Makers :
          /\ making'[x] = [at |-> making'[x].at, id |-> making'[x].id, token |-> making'[x].token,
                           files |-> making'[x].files, copied |-> making'[x].copied,
                           database |-> making'[x].database]
          /\ making'[x].files \in Trees
    BY <1>5, <1>8, NoMaker DEF BackupInv, BackupTypeOK
  <2> QED
    BY <1>3, <1>5, <1>6, <2>1, <2>2 DEF BackupInv, BackupTypeOK, daemonVars
<1>10. \A x \in Makers : CopyOK(x)'
  BY <1>3, <1>5, <1>8, NoMaker DEF BackupInv, CopyOK, daemonVars, Accounts
<1>11. ShelfOK'
  <2>1. \A x \in BackupIds : shelf'[x] # Nobody => Accounts(shelf'[x].files, shelf'[x].database)
    BY <1>2, <1>6, <1>7 DEF BackupInv, ShelfOK
  <2> QED
    BY <2>1 DEF ShelfOK, Accounts
<1>12. DaemonOK' /\ RestoreOK' /\ RestoredHostIsSound'
  BY <1>3 DEF BackupInv, daemonVars, DaemonOK, RestoreOK, RestoredHostIsSound, Accounts
<1> QED
  BY <1>9, <1>10, <1>11, <1>12 DEF BackupInv

LEMMA DecaySound ==
  ASSUME BackupInv, NEW b \in BackupIds, Decay(b)
  PROVE  BackupInv'
<1>1. PICK old : old = shelf[b]
  OBVIOUS
<1>2. /\ old = [manifest |-> old.manifest, object |-> old.object, entries |-> old.entries,
                files |-> old.files, database |-> old.database]
      /\ Accounts(old.files, old.database)
      /\ shelf = [x \in BackupIds |-> shelf[x]]
  BY <1>1 DEF BackupInv, BackupTypeOK, ShelfOK, Decay
<1>3. /\ UNCHANGED <<daemonVars, making, restoring, root>>
      /\ \/ shelf' = [shelf EXCEPT ![b] = [old EXCEPT !.object = "rotten"]]
         \/ shelf' = [shelf EXCEPT ![b] = [old EXCEPT !.object = "missing"]]
         \/ shelf' = [shelf EXCEPT ![b] = [old EXCEPT !.manifest = "broken"]]
  BY <1>1 DEF Decay
<1>4. PICK new : /\ shelf' = [shelf EXCEPT ![b] = new]
                 /\ \/ new = [old EXCEPT !.object = "rotten"]
                    \/ new = [old EXCEPT !.object = "missing"]
                    \/ new = [old EXCEPT !.manifest = "broken"]
  BY <1>3
<1>5. /\ new = [manifest |-> new.manifest, object |-> new.object, entries |-> new.entries,
                files |-> new.files, database |-> new.database]
      /\ new.files = old.files /\ new.database = old.database
  BY SMT, <1>2, <1>4
<1>6. /\ shelf' = [x \in BackupIds |-> shelf'[x]] /\ shelf'[b] = new
      /\ \A x \in BackupIds : x # b => shelf'[x] = shelf[x]
  BY <1>2, <1>4
<1>7. BackupTypeOK'
  <2>1. \A x \in BackupIds : shelf'[x] # Nobody =>
          shelf'[x] = [manifest |-> shelf'[x].manifest, object |-> shelf'[x].object,
                       entries |-> shelf'[x].entries, files |-> shelf'[x].files, database |-> shelf'[x].database]
    BY <1>5, <1>6 DEF BackupInv, BackupTypeOK
  <2> QED
    BY <1>3, <1>6, <2>1 DEF BackupInv, BackupTypeOK, daemonVars
<1>8. ShelfOK'
  <2>1. \A x \in BackupIds : shelf'[x] # Nobody => Accounts(shelf'[x].files, shelf'[x].database)
    BY <1>2, <1>5, <1>6 DEF BackupInv, ShelfOK
  <2> QED
    BY <2>1 DEF ShelfOK, Accounts
<1>9. DaemonOK' /\ RestoreOK' /\ RestoredHostIsSound' /\ \A m \in Makers : CopyOK(m)'
  BY <1>3 DEF BackupInv, daemonVars, DaemonOK, RestoreOK, RestoredHostIsSound, CopyOK, Accounts
<1> QED
  BY <1>7, <1>8, <1>9 DEF BackupInv

-----------------------------------------------------------------------------
(* A step of the recovery, or of whoever else uses the root.               *)
LEMMA RestoreSteps ==
  ASSUME BackupInv, UNCHANGED <<daemonVars, making, shelf>>,
         restoring' = [at |-> restoring'.at, id |-> restoring'.id, token |-> restoring'.token,
                       payload |-> restoring'.payload],
         restoring'.at # "idle" => restoring'.id \in BackupIds,
         RestoreOK', RestoredHostIsSound'
  PROVE  BackupInv'
<1>1. BackupTypeOK'
  BY DEF BackupInv, BackupTypeOK, daemonVars
<1>2. DaemonOK' /\ ShelfOK' /\ \A m \in Makers : CopyOK(m)'
  BY DEF BackupInv, daemonVars, DaemonOK, ShelfOK, CopyOK, Accounts
<1> QED
  BY <1>1, <1>2 DEF BackupInv

(* Nothing is restored by these steps.                                     *)
LEMMA RestoreGoesOn ==
  ASSUME BackupInv, UNCHANGED <<daemonVars, making, shelf>>,
         restoring' = [at |-> restoring'.at, id |-> restoring'.id, token |-> restoring'.token,
                       payload |-> restoring'.payload],
         restoring'.at # "idle" => restoring'.id \in BackupIds,
         RestoreOK', root' = root \/ root'.holds = Nobody
  PROVE  BackupInv'
<1>1. RestoredHostIsSound'
  BY DEF BackupInv, RestoredHostIsSound
<1> QED
  BY <1>1, RestoreSteps

LEMMA RestoreMoves ==
  ASSUME BackupInv, NEW s, restoring' = [restoring EXCEPT !.at = s]
  PROVE  /\ restoring' = [at |-> restoring'.at, id |-> restoring'.id, token |-> restoring'.token,
                          payload |-> restoring'.payload]
         /\ restoring'.at = s /\ restoring'.id = restoring.id /\ restoring'.payload = restoring.payload
<1>1. restoring = [at |-> restoring.at, id |-> restoring.id, token |-> restoring.token,
                   payload |-> restoring.payload]
  BY DEF BackupInv, BackupTypeOK
<1> QED
  BY SMT, <1>1

LEMMA RestoreRests ==
  ASSUME BackupInv, RestoreGoes(NotRestoring), root' = root \/ root'.holds = Nobody
  PROVE  BackupInv'
<1>1. restoring' = NotRestoring /\ UNCHANGED <<daemonVars, making, shelf>>
  BY DEF RestoreGoes
<1>2. RestoreOK'
  BY <1>1, NoRestore DEF RestoreOK
<1> QED
  BY <1>1, <1>2, NoRestore, RestoreGoesOn

LEMMA NewRoot == \A s : Root(s).holds = Nobody
  BY DEF Root

LEMMA PlanRestoreSound ==
  ASSUME BackupInv, (\E b \in BackupIds : PlanRestore(b)) \/ BeginRestore
  PROVE  BackupInv'
<1>0. UNCHANGED <<daemonVars, making, shelf, root>>
  BY DEF PlanRestore, BeginRestore, RestoreGoes
<1>1. ASSUME NEW b \in BackupIds, PlanRestore(b)
      PROVE  BackupInv'
  <2>1. PICK plan : plan = clean_host_restore_plan(b)
    OBVIOUS
  <2>2. restoring' = [NotRestoring EXCEPT !.at = "planned", !.id = b, !.token = plan]
    BY <1>1, <2>1 DEF PlanRestore, RestoreGoes
  <2>3. /\ restoring' = [at |-> restoring'.at, id |-> restoring'.id, token |-> restoring'.token,
                         payload |-> restoring'.payload]
        /\ restoring'.at = "planned" /\ restoring'.id = b
    BY <2>2 DEF NotRestoring
  <2>4. RestoreOK'
    BY <2>3 DEF RestoreOK
  <2> QED
    BY <1>0, <2>3, <2>4, RestoreGoesOn
<1>2. CASE BeginRestore
  <2>1. CASE restoring' = NotRestoring
    BY <1>0, <2>1, RestoreRests DEF RestoreGoes
  <2>2. CASE restoring' = [restoring EXCEPT !.at = "unpack"]
    <3>1. /\ restoring' = [at |-> restoring'.at, id |-> restoring'.id, token |-> restoring'.token,
                           payload |-> restoring'.payload]
          /\ restoring'.at = "unpack" /\ restoring'.id = restoring.id
      BY <2>2, RestoreMoves
    <3>2. RestoreOK'
      BY <3>1 DEF RestoreOK
    <3>3. restoring.id \in BackupIds
      BY <1>2 DEF BackupInv, BackupTypeOK, BeginRestore
    <3> QED
      BY <1>0, <3>1, <3>2, <3>3, RestoreGoesOn
  <2> QED
    BY <1>2, <2>1, <2>2 DEF BeginRestore, RestoreGoes
<1> QED
  BY <1>1, <1>2

LEMMA UnpackSound ==
  ASSUME BackupInv, Unpack
  PROVE  BackupInv'
<1>0. /\ UNCHANGED <<daemonVars, making, shelf, root>> /\ restoring.id \in BackupIds
      /\ restoring = [at |-> restoring.at, id |-> restoring.id, token |-> restoring.token,
                      payload |-> restoring.payload]
  BY DEF Unpack, RestoreGoes, BackupInv, BackupTypeOK
<1>1. PICK payload : payload = _extract_regular_archive(shelf[restoring.id])
  OBVIOUS
<1>2. \/ restoring' = NotRestoring
      \/ /\ restoring' = [restoring EXCEPT !.at = "check", !.payload = payload]
         /\ _verify_external_object(restoring.id)
  BY <1>1 DEF Unpack, RestoreGoes
<1>3. CASE restoring' = NotRestoring
  BY <1>0, <1>3, RestoreRests DEF RestoreGoes
<1>4. CASE /\ restoring' = [restoring EXCEPT !.at = "check", !.payload = payload]
           /\ _verify_external_object(restoring.id)
  <2>1. /\ restoring' = [at |-> restoring'.at, id |-> restoring'.id, token |-> restoring'.token,
                         payload |-> restoring'.payload]
        /\ restoring'.id = restoring.id /\ restoring'.payload = payload
    BY <1>0, <1>4
  <2>2. Accounts(shelf[restoring.id].files, shelf[restoring.id].database)
    BY <1>0, <1>4 DEF BackupInv, ShelfOK, _verify_external_object, _verify_external_object_presence,
       _load_external_manifest
  <2>3. payload.files = shelf[restoring.id].files /\ payload.database = shelf[restoring.id].database
    BY <1>1 DEF _extract_regular_archive
  <2>4. RestoreOK'
    BY <2>1, <2>2, <2>3 DEF RestoreOK, Accounts
  <2> QED
    BY <1>0, <2>1, <2>4, RestoreGoesOn
<1> QED
  BY <1>2, <1>3, <1>4

LEMMA TargetSound ==
  ASSUME BackupInv, CheckTarget \/ RemoveEmptyTarget \/ Promote
  PROVE  BackupInv'
<1>0. /\ restoring.at \in {"check", "rmdir", "promote"}
      /\ UNCHANGED <<daemonVars, making, shelf>>
  BY DEF CheckTarget, RemoveEmptyTarget, Promote, RestoreGoes
<1>1. /\ Accounts(restoring.payload.files, restoring.payload.database) /\ restoring.id \in BackupIds
  BY <1>0 DEF BackupInv, BackupTypeOK, RestoreOK
<1>2. ASSUME NEW s \in {"rmdir", "promote"}, restoring' = [restoring EXCEPT !.at = s],
             root' = root \/ root' = Root("absent")
      PROVE  BackupInv'
  <2>1. /\ restoring' = [at |-> restoring'.at, id |-> restoring'.id, token |-> restoring'.token,
                         payload |-> restoring'.payload]
        /\ restoring'.at = s /\ restoring'.id = restoring.id /\ restoring'.payload = restoring.payload
    BY <1>2, RestoreMoves
  <2>2. RestoreOK'
    BY <1>1, <2>1 DEF RestoreOK, Accounts
  <2> QED
    BY SMT, <1>0, <1>1, <1>2, <2>1, <2>2, RestoreGoesOn, NewRoot
<1>3. CASE CheckTarget
  <2>1. root' = root /\ (RestoreGoes(NotRestoring) \/ \E s \in {"rmdir", "promote"} :
                                                        restoring' = [restoring EXCEPT !.at = s])
    BY <1>3 DEF CheckTarget, RestoreGoes
  <2> QED
    BY <1>2, <2>1, RestoreRests
<1>4. CASE RemoveEmptyTarget
  <2>1. /\ root' = root \/ root' = Root("absent")
        /\ RestoreGoes(NotRestoring) \/ restoring' = [restoring EXCEPT !.at = "promote"]
    BY <1>4 DEF RemoveEmptyTarget, RestoreGoes
  <2> QED
    BY <1>2, <2>1, RestoreRests, NewRoot
<1>5. CASE Promote
  <2>1. CASE root' = root
    BY <1>5, <2>1, RestoreRests DEF Promote
  <2>2. CASE root' = [state |-> "populated", holds |-> restoring.payload]
    <3>1. root'.holds = restoring.payload /\ restoring' = NotRestoring
      BY SMT, <1>5, <2>2 DEF Promote, RestoreGoes
    <3>2. RestoredHostIsSound'
      BY <1>1, <3>1 DEF RestoredHostIsSound, Accounts
    <3>3. RestoreOK'
      BY <3>1, NoRestore DEF RestoreOK
    <3> QED
      BY <1>0, <3>1, <3>2, <3>3, NoRestore, RestoreSteps
  <2> QED
    BY <1>5, <2>1, <2>2 DEF Promote
<1> QED
  BY <1>3, <1>4, <1>5

LEMMA BackupStep ==
  ASSUME BackupInv, [HostBackupNext]_hostBackupVars
  PROVE  BackupInv'
<1>1. CASE \/ \E maintenance, drained \in BOOLEAN : set_host_control(maintenance, drained)
           \/ \E w \in Work : ReadPolicy(w) \/ Submit(w) \/ Execute(w) \/ Succeed(w)
           \/ \E w \in Work, p \in Paths : WriteFile(w, p)
  BY <1>1, DaemonSound
<1>2. CASE \E m \in Makers : create_host_backup(m)
  <2>1. PICK m \in Makers : create_host_backup(m)
    BY <1>2
  <2>2. CASE MakerDies(m)
    BY <2>2, MakerRests DEF MakerDies
  <2> QED
    BY <2>1, <2>2, PlanBackupSound, SnapshotSound, SealSound, PublishBackupSound DEF create_host_backup
<1>3. CASE \E b \in BackupIds : Decay(b)
  BY <1>3, DecaySound
<1>4. CASE apply_clean_host_restore
  <2>1. CASE RestoreDies
    BY <2>1, RestoreRests DEF RestoreDies
  <2> QED
    BY <1>4, <2>1, PlanRestoreSound, UnpackSound, TargetSound DEF apply_clean_host_restore
<1>5. CASE OthersUseRoot \/ UNCHANGED hostBackupVars
  <2>1. UNCHANGED <<daemonVars, making, shelf, restoring>> /\ (root' = root \/ root'.holds = Nobody)
    BY <1>5, NewRoot DEF OthersUseRoot, hostBackupVars
  <2>2. RestoreOK'
    BY <2>1 DEF BackupInv, RestoreOK, Accounts
  <2>3. /\ restoring' = [at |-> restoring'.at, id |-> restoring'.id, token |-> restoring'.token,
                         payload |-> restoring'.payload]
        /\ restoring'.at # "idle" => restoring'.id \in BackupIds
    BY <2>1 DEF BackupInv, BackupTypeOK
  <2> QED
    BY <2>1, <2>2, <2>3, RestoreGoesOn
<1> QED
  BY <1>1, <1>2, <1>3, <1>4, <1>5 DEF HostBackupNext

(* Every file of a restored host was written by work that its database has *)
(* as begun, for any work, files, makers and crashes (_snapshot_runtime    *)
(* copies the database last).                                              *)
THEOREM RestoredHostsAreSound == HostBackupSpec => []RestoredHostIsSound
<1>1. BackupInv => RestoredHostIsSound
  BY DEF BackupInv
<1> QED
  BY <1>1, BackupStart, BackupStep, PTL DEF HostBackupSpec

-----------------------------------------------------------------------------
(* Planning and approving.                                                 *)

DeploymentPlansSpec == DeploymentPlansInit /\ [][DeploymentPlansNext]_planVars

PlannerFields(x) ==
  x = [at |-> x.at, digest |-> x.digest, key |-> x.key, loaded |-> x.loaded, seen |-> x.seen,
       staging |-> x.staging]

StagingFields(x) == x = [static |-> x.static, env |-> x.env, lock |-> x.lock, evidence |-> x.evidence]

OperationFields(x) ==
  x = [plan |-> x.plan, actor |-> x.actor, key |-> x.key, ran |-> x.ran, static |-> x.static, env |-> x.env]

(* The revision a plan names is the one its candidate's lock was rendered  *)
(* from.                                                                   *)
NamesItsLock(plan) == plan.revision = plan.policy.candidate.lock

(* A planner that has a staging directory, and one that has written the    *)
(* evidence there.                                                         *)
Stages == {"staging", "copied", "staged", "evident"}

PlannerOK(p) ==
  /\ PlannerFields(planner[p])
  /\ planner[p].at \in Stages => planner[p].staging \in 1..Len(stagings)
  /\ planner[p].at = "evident" => NamesItsLock(stagings[planner[p].staging].evidence)

PlansInv ==
  /\ \E S : stagings \in Seq(S)
  /\ \A i \in 1..Len(stagings) : StagingFields(stagings[i])
  /\ planner = [p \in DOMAIN planner |-> planner[p]]
  /\ \A p \in DOMAIN planner : PlannerOK(p)
  /\ \A e \in planIndex : NamesItsLock(e.plan)
  /\ \A op \in admitted : OperationFields(op)
  /\ OperationsRunWhatWasPlanned

LEMMA IdlePlannerFields == PlannerFields(IdlePlanner) /\ IdlePlanner.at = "idle"
  BY DEF PlannerFields, IdlePlanner

LEMMA PlansStart == DeploymentPlansInit => PlansInv
<1> SUFFICES ASSUME DeploymentPlansInit PROVE PlansInv
  OBVIOUS
<1>1. stagings \in Seq({}) /\ Len(stagings) = 0 /\ 1..Len(stagings) = {}
  BY SMT DEF DeploymentPlansInit
<1>2. PICK crew \in Crews : planner = [p \in crew |-> IdlePlanner]
  BY DEF DeploymentPlansInit
<1>3. /\ planner = [p \in DOMAIN planner |-> planner[p]]
      /\ \A p \in DOMAIN planner : planner[p] = IdlePlanner
  BY <1>2
<1>4. \A p \in DOMAIN planner : PlannerOK(p)
  BY <1>3, IdlePlannerFields DEF PlannerOK, Stages
<1>5. planIndex = {} /\ admitted = {}
  BY DEF DeploymentPlansInit
<1>6. \A i \in 1..Len(stagings) : StagingFields(stagings[i])
  BY <1>1
<1> QED
  BY <1>1, <1>3, <1>4, <1>5, <1>6 DEF PlansInv, OperationsRunWhatWasPlanned

(* A step of planner p that leaves it without a directory, or leaves the   *)
(* directories alone.                                                      *)
LEMMA PlannerSteps ==
  ASSUME PlansInv, NEW p \in DOMAIN planner, NEW new, planner' = [planner EXCEPT ![p] = new],
         UNCHANGED <<stagings, admitted>>, PlannerFields(new), new.at \notin Stages,
         \A e \in planIndex' : NamesItsLock(e.plan)
  PROVE  PlansInv'
<1>0. planner = [q \in DOMAIN planner |-> planner[q]]
  BY DEF PlansInv
<1>1. /\ DOMAIN planner' = DOMAIN planner
      /\ planner' = [q \in DOMAIN planner' |-> planner'[q]] /\ planner'[p] = new
      /\ \A q \in DOMAIN planner : q # p => planner'[q] = planner[q]
  BY <1>0
<1>2. \A q \in DOMAIN planner' : PlannerOK(q)'
  <2>1. new.at # "evident"
    BY DEF Stages
  <2> QED
    BY <1>1, <2>1 DEF PlansInv, PlannerOK, PlannerFields, NamesItsLock
<1>3. OperationsRunWhatWasPlanned'
  BY DEF PlansInv, OperationsRunWhatWasPlanned
<1>4. /\ \E S : stagings' \in Seq(S)
      /\ \A i \in 1..Len(stagings') : StagingFields(stagings'[i])
      /\ \A op \in admitted' : OperationFields(op)
  BY DEF PlansInv
<1> QED
  BY <1>1, <1>2, <1>3, <1>4 DEF PlansInv, StagingFields, OperationFields, NamesItsLock

(* The fields of a planner that goes on, and of one that gives up.         *)
LEMMA PlannerGoes ==
  ASSUME PlansInv, NEW p \in DOMAIN planner, NEW s, Goes(p, s)
  PROVE  \E new : /\ planner' = [planner EXCEPT ![p] = new] /\ PlannerFields(new)
                  /\ new.at = s /\ new.staging = planner[p].staging
<1>1. PICK old : old = planner[p] /\ PlannerFields(old)
  BY DEF PlansInv, PlannerOK
<1>2. PICK new : new = [old EXCEPT !.at = s]
  OBVIOUS
<1>3. PlannerFields(new) /\ new.at = s /\ new.staging = old.staging
  BY <1>1, <1>2 DEF PlannerFields
<1> QED
  BY <1>1, <1>2, <1>3 DEF Goes

LEMMA PlannerGivesUp ==
  ASSUME PlansInv, NEW p \in DOMAIN planner, GivesUp(p), UNCHANGED <<stagings, planIndex, admitted>>
  PROVE  PlansInv'
<1>1. \A e \in planIndex' : NamesItsLock(e.plan)
  BY DEF PlansInv
<1>2. IdlePlanner.at \notin Stages
  BY IdlePlannerFields DEF Stages
<1> QED
  BY <1>1, <1>2, IdlePlannerFields, PlannerSteps DEF GivesUp

(* A planner's step that leaves the directories, the index and the          *)
(* operations alone.                                                        *)
LEMMA PlannerGoesOn ==
  ASSUME PlansInv, NEW p \in DOMAIN planner, NEW new, planner' = [planner EXCEPT ![p] = new],
         UNCHANGED <<stagings, planIndex, admitted>>, PlannerFields(new), new.at \notin Stages
  PROVE  PlansInv'
<1>1. \A e \in planIndex' : NamesItsLock(e.plan)
  BY DEF PlansInv
<1> QED
  BY <1>1, PlannerSteps

LEMMA PlannerAdvances ==
  ASSUME PlansInv, NEW p \in DOMAIN planner, NEW s, Goes(p, s), s \notin Stages,
         UNCHANGED <<stagings, planIndex, admitted>>
  PROVE  PlansInv'
<1>1. PICK new : /\ planner' = [planner EXCEPT ![p] = new] /\ PlannerFields(new)
                 /\ new.at = s /\ new.staging = planner[p].staging
  BY PlannerGoes
<1>2. new.at \notin Stages
  BY <1>1
<1> QED
  BY <1>1, <1>2, PlannerGoesOn

LEMMA LoadsKeep ==
  ASSUME PlansInv, NEW p \in DOMAIN planner, load_manifest_v2(p)
  PROVE  PlansInv'
<1>1. PICK at, held : /\ planner' = [planner EXCEPT ![p] = [IdlePlanner EXCEPT !.at = at, !.loaded = held]]
                      /\ at \in {"digested", "opened"}
  BY DEF load_manifest_v2
<1>2. PICK new : new = [IdlePlanner EXCEPT !.at = at, !.loaded = held]
  OBVIOUS
<1>3. PlannerFields(new) /\ new.at = at
  BY <1>2 DEF IdlePlanner, PlannerFields
<1>4. new.at \notin Stages
  BY <1>1, <1>3 DEF Stages
<1>5. UNCHANGED <<stagings, planIndex, admitted>>
  BY DEF load_manifest_v2
<1> QED
  BY <1>1, <1>2, <1>3, <1>4, <1>5, PlannerGoesOn

LEMMA DigestsKeep ==
  ASSUME PlansInv, NEW p \in DOMAIN planner, manifest_v2_request_digest(p)
  PROVE  PlansInv'
<1>0. UNCHANGED <<stagings, planIndex, admitted>>
  BY DEF manifest_v2_request_digest
<1>1. CASE GivesUp(p)
  BY <1>0, <1>1, PlannerGivesUp
<1>2. CASE ~GivesUp(p)
  <2>1. PICK digest : planner' = [planner EXCEPT ![p].at = "digested", ![p].digest = digest]
    BY <1>2 DEF manifest_v2_request_digest
  <2>2. PICK old : old = planner[p] /\ PlannerFields(old)
    BY DEF PlansInv, PlannerOK
  <2>3. PICK new : new = [old EXCEPT !.at = "digested", !.digest = digest]
    OBVIOUS
  <2>4. PlannerFields(new) /\ new.at = "digested"
    BY <2>2, <2>3 DEF PlannerFields
  <2>5. planner' = [planner EXCEPT ![p] = new]
    BY <2>1, <2>2, <2>3
  <2>6. new.at \notin Stages
    BY <2>4 DEF Stages
  <2> QED
    BY <1>0, <2>4, <2>5, <2>6, PlannerGoesOn
<1> QED
  BY <1>1, <1>2

(* A planner that takes a key.                                             *)
LEMMA PlannerTakesKey ==
  ASSUME PlansInv, NEW p \in DOMAIN planner, NEW key, NEW at, at \notin Stages,
         planner' = [planner EXCEPT ![p].key = key, ![p].at = at],
         UNCHANGED <<stagings, planIndex, admitted>>
  PROVE  PlansInv'
<1>2. PICK old : old = planner[p] /\ PlannerFields(old)
  BY DEF PlansInv, PlannerOK
<1>3. PICK new : new = [old EXCEPT !.key = key, !.at = at]
  OBVIOUS
<1>4. PlannerFields(new) /\ new.at = at
  BY <1>2, <1>3 DEF PlannerFields
<1>5. planner' = [planner EXCEPT ![p] = new]
  BY <1>2, <1>3
<1> QED
  BY <1>4, <1>5, PlannerGoesOn

LEMMA KeysKeep ==
  ASSUME PlansInv, NEW p \in DOMAIN planner, DrawKey(p) \/ local_approval_key(p)
  PROVE  PlansInv'
<1>1. PICK key, at : /\ planner' = [planner EXCEPT ![p].key = key, ![p].at = at]
                     /\ at \in {"drawn", "keyed"}
  BY DEF DrawKey, local_approval_key
<1>2. at \notin Stages
  BY <1>1 DEF Stages
<1>3. UNCHANGED <<stagings, planIndex, admitted>>
  BY DEF DrawKey, local_approval_key
<1> QED
  BY <1>1, <1>2, <1>3, PlannerTakesKey

LEMMA RequestsKeep ==
  ASSUME PlansInv, NEW p \in DOMAIN planner,
         \/ plan_for_request(p) \/ record_plan_request(p) \/ describe_manifest_v2_plan(p)
         \/ Collision(p) \/ PlannerDies(p)
  PROVE  PlansInv'
<1>1. UNCHANGED <<stagings, planIndex, admitted>>
  BY DEF plan_for_request, record_plan_request, describe_manifest_v2_plan, Collision, PlannerDies
<1>2. GivesUp(p) \/ \E s \in {"planning", "describing"} : Goes(p, s)
  BY DEF plan_for_request, record_plan_request, describe_manifest_v2_plan, Collision, PlannerDies, Answer
<1>3. \A s \in {"planning", "describing"} : s \notin Stages
  BY DEF Stages
<1> QED
  BY <1>1, <1>2, <1>3, PlannerGivesUp, PlannerAdvances

(* A step that keeps every directory and its evidence, and may add one.    *)
LEMMA DirectoriesKeep ==
  ASSUME PlansInv, NEW p \in DOMAIN planner, NEW new,
         planner' = [planner EXCEPT ![p] = new], UNCHANGED <<planIndex, admitted>>,
         \E S : stagings' \in Seq(S),
         1..Len(stagings) \subseteq 1..Len(stagings'),
         \A i \in 1..Len(stagings') : StagingFields(stagings'[i]),
         \A i \in 1..Len(stagings) :
             stagings'[i].evidence = stagings[i].evidence \/ NamesItsLock(stagings'[i].evidence),
         PlannerFields(new), new.at \in Stages => new.staging \in 1..Len(stagings'),
         new.at = "evident" => NamesItsLock(stagings'[new.staging].evidence)
  PROVE  PlansInv'
<1>0. planner = [q \in DOMAIN planner |-> planner[q]]
  BY DEF PlansInv
<1>1. /\ DOMAIN planner' = DOMAIN planner
      /\ planner' = [q \in DOMAIN planner' |-> planner'[q]] /\ planner'[p] = new
      /\ \A q \in DOMAIN planner : q # p => planner'[q] = planner[q]
  BY <1>0
<1>2. ASSUME NEW q \in DOMAIN planner'
      PROVE  PlannerOK(q)'
  <2>1. CASE q = p
    BY <1>1, <2>1 DEF PlannerOK, PlannerFields, NamesItsLock
  <2>2. CASE q # p
    <3>1. planner'[q] = planner[q] /\ PlannerOK(q)
      BY <1>1, <2>2 DEF PlansInv
    <3>2. /\ PlannerFields(planner'[q])
          /\ planner'[q].at \in Stages => planner'[q].staging \in 1..Len(stagings')
      BY <3>1 DEF PlannerOK
    <3>3. ASSUME planner'[q].at = "evident"
          PROVE  NamesItsLock(stagings'[planner'[q].staging].evidence)
      <4>1. "evident" \in Stages
        BY DEF Stages
      <4>2. planner[q].staging \in 1..Len(stagings)
        BY <3>1, <3>3, <4>1 DEF PlannerOK
      <4>3. NamesItsLock(stagings[planner[q].staging].evidence)
        BY <3>1, <3>3 DEF PlannerOK
      <4>4. PICK i \in 1..Len(stagings) : i = planner[q].staging
        BY <4>2
      <4>5. stagings'[i].evidence = stagings[i].evidence \/ NamesItsLock(stagings'[i].evidence)
        BY <4>4
      <4> QED
        BY <3>1, <4>3, <4>4, <4>5
    <3> QED
      BY <3>2, <3>3 DEF PlannerOK, PlannerFields, NamesItsLock
  <2> QED
    BY <2>1, <2>2
<1>3. OperationsRunWhatWasPlanned'
  BY DEF PlansInv, OperationsRunWhatWasPlanned
<1>4. /\ \A op \in admitted' : OperationFields(op)
      /\ \A e \in planIndex' : NamesItsLock(e.plan)
  BY DEF PlansInv
<1> QED
  BY <1>1, <1>2, <1>3, <1>4 DEF PlansInv, StagingFields, OperationFields, NamesItsLock

LEMMA BeginsKeep ==
  ASSUME PlansInv, NEW p \in DOMAIN planner, BeginPlan(p)
  PROVE  PlansInv'
<1>0. UNCHANGED <<planIndex, admitted>>
  BY DEF BeginPlan
<1>1. CASE GivesUp(p) /\ UNCHANGED stagings
  BY <1>0, <1>1, PlannerGivesUp
<1>2. CASE ~(GivesUp(p) /\ UNCHANGED stagings)
  <2>0. PICK empty, held, seen, at :
          /\ empty = [static |-> None, env |-> None, lock |-> None, evidence |-> None]
          /\ held = source.static /\ at = Len(stagings) + 1
          /\ seen = [journal |-> journalActive, runtime |-> runtimeActive]
    OBVIOUS
  <2>1. /\ stagings' = Append(stagings, empty)
        /\ planner' = [planner EXCEPT ![p].at = "staging", ![p].loaded = held, ![p].seen = seen,
                                      ![p].staging = at]
    BY <1>2, <2>0 DEF BeginPlan
  <2>2. PICK S : stagings \in Seq(S)
    BY DEF PlansInv
  <2>3. /\ stagings' \in Seq(S \cup {empty}) /\ Len(stagings') = Len(stagings) + 1
        /\ 1..Len(stagings) \subseteq 1..Len(stagings') /\ at \in 1..Len(stagings')
        /\ stagings'[at] = empty
        /\ \A i \in 1..Len(stagings') : i = at \/ i \in 1..Len(stagings)
        /\ \A i \in 1..Len(stagings) : stagings'[i] = stagings[i]
    <3>1. PICK n : n = Len(stagings) /\ n \in Nat
      BY <2>2, SMT
    <3> QED
      BY <2>0, <2>1, <2>2, <3>1, SMT
  <2>4. StagingFields(empty)
    BY <2>0 DEF StagingFields
  <2>5. PICK old : old = planner[p] /\ PlannerFields(old)
    BY DEF PlansInv, PlannerOK
  <2>6. PICK new : new = [old EXCEPT !.at = "staging", !.loaded = held, !.seen = seen, !.staging = at]
    OBVIOUS
  <2>7. PlannerFields(new) /\ new.at = "staging" /\ new.staging = at
    BY <2>5, <2>6 DEF PlannerFields
  <2>8. planner' = [planner EXCEPT ![p] = new]
    BY <2>1, <2>5, <2>6
  <2>9. \A i \in 1..Len(stagings') : StagingFields(stagings'[i])
    BY <2>3, <2>4 DEF PlansInv
  <2>10. /\ \A i \in 1..Len(stagings) : stagings'[i].evidence = stagings[i].evidence
         /\ new.at # "evident"
    BY <2>3, <2>7
  <2>11. \E T : stagings' \in Seq(T)
    BY <2>3
  <2>12. new.staging \in 1..Len(stagings')
    BY <2>3, <2>7
  <2>13. 1..Len(stagings) \subseteq 1..Len(stagings')
    BY <2>3
  <2> QED
    BY <1>0, <2>7, <2>8, <2>9, <2>10, <2>11, <2>12, <2>13, DirectoriesKeep
<1> QED
  BY <1>1, <1>2

(* A directory is rewritten in place.                                      *)
LEMMA Rewritten ==
  ASSUME PlansInv, NEW s \in 1..Len(stagings), NEW dir, StagingFields(dir),
         stagings' = [stagings EXCEPT ![s] = dir]
  PROVE  /\ \E S : stagings' \in Seq(S)
         /\ Len(stagings') = Len(stagings) /\ stagings'[s] = dir
         /\ \A i \in 1..Len(stagings) : i # s => stagings'[i] = stagings[i]
         /\ \A i \in 1..Len(stagings') : StagingFields(stagings'[i])
<1>1. PICK S : stagings \in Seq(S)
  BY DEF PlansInv
<1>2. /\ stagings' \in Seq(S \cup {dir}) /\ Len(stagings') = Len(stagings) /\ stagings'[s] = dir
      /\ \A i \in 1..Len(stagings) : i # s => stagings'[i] = stagings[i]
  BY <1>1, SMT
<1>3. \A i \in 1..Len(stagings') : StagingFields(stagings'[i])
  BY <1>2 DEF PlansInv
<1> QED
  BY <1>2, <1>3

LEMMA CopiesKeep ==
  ASSUME PlansInv, NEW p \in DOMAIN planner, stage_manifest_v2_sources(p)
  PROVE  PlansInv'
<1>1. PICK file \in {"static", "env"}, then \in {"copied", "staged"} :
         Copy(p, file, then) /\ planner[p].at \in Stages
  BY DEF stage_manifest_v2_sources, _copy_tree, _copy_file, PlannerAt, Stages
<1>2. UNCHANGED <<planIndex, admitted>>
  BY <1>1 DEF Copy
<1>3. CASE GivesUp(p) /\ UNCHANGED stagings
  BY <1>2, <1>3, PlannerGivesUp
<1>4. CASE ~(GivesUp(p) /\ UNCHANGED stagings)
  <2>1. PICK s, content : s = planner[p].staging /\ content = source[file]
    OBVIOUS
  <2>2. stagings' = [stagings EXCEPT ![s][file] = content] /\ Goes(p, then)
    BY <1>1, <1>4, <2>1 DEF Copy
  <2>3. s \in 1..Len(stagings)
    BY <1>1, <2>1 DEF PlansInv, PlannerOK
  <2>4. PICK old : old = stagings[s] /\ StagingFields(old)
    BY <2>3 DEF PlansInv
  <2>5. PICK dir : dir = [old EXCEPT ![file] = content]
    OBVIOUS
  <2>6. StagingFields(dir) /\ dir.evidence = old.evidence
    <3>1. CASE file = "static"
      BY <2>4, <2>5, <3>1 DEF StagingFields
    <3>2. CASE file = "env"
      BY <2>4, <2>5, <3>2 DEF StagingFields
    <3> QED
      BY <3>1, <3>2
  <2>7. stagings' = [stagings EXCEPT ![s] = dir]
    BY <2>2, <2>4, <2>5
  <2>8. /\ \E S : stagings' \in Seq(S)
        /\ Len(stagings') = Len(stagings) /\ stagings'[s] = dir
        /\ \A i \in 1..Len(stagings) : i # s => stagings'[i] = stagings[i]
        /\ \A i \in 1..Len(stagings') : StagingFields(stagings'[i])
    BY <2>3, <2>6, <2>7, Rewritten
  <2>9. PICK new : /\ planner' = [planner EXCEPT ![p] = new] /\ PlannerFields(new)
                   /\ new.at = then /\ new.staging = planner[p].staging
    BY <2>2, PlannerGoes
  <2>10. \A i \in 1..Len(stagings) : stagings'[i].evidence = stagings[i].evidence
    BY <2>4, <2>6, <2>8
  <2>11. new.staging \in 1..Len(stagings') /\ new.at # "evident" /\ 1..Len(stagings) \subseteq 1..Len(stagings')
    BY <2>1, <2>3, <2>8, <2>9
  <2> QED
    BY <1>2, <2>8, <2>9, <2>10, <2>11, DirectoriesKeep
<1> QED
  BY <1>3, <1>4

LEMMA EvidenceKeeps ==
  ASSUME PlansInv, NEW p \in DOMAIN planner, WriteEvidence(p)
  PROVE  PlansInv'
<1>1. UNCHANGED <<planIndex, admitted>> /\ Goes(p, "evident")
  BY DEF WriteEvidence
<1>2. PICK s, lock, seen : s = planner[p].staging /\ lock = planner[p].loaded /\ seen = planner[p].seen
  OBVIOUS
<1>3. s \in 1..Len(stagings)
  BY <1>2 DEF WriteEvidence, PlannerAt, PlansInv, PlannerOK, Stages
<1>4. PICK old : old = stagings[s] /\ StagingFields(old)
  BY <1>3 DEF PlansInv
<1>5. PICK whole : whole = [old EXCEPT !.lock = lock]
  OBVIOUS
<1>6. StagingFields(whole) /\ whole.lock = lock
  BY <1>4, <1>5 DEF StagingFields
<1>7. PICK plan : plan = OperationPlan(lock, whole, seen)
  OBVIOUS
<1>8. NamesItsLock(plan)
  BY <1>6, <1>7 DEF OperationPlan, _manifest_v2_policy_digest, NamesItsLock
<1>9. PICK dir : dir = [whole EXCEPT !.evidence = plan]
  OBVIOUS
<1>10. StagingFields(dir) /\ dir.evidence = plan
  BY <1>6, <1>9 DEF StagingFields
<1>11. stagings' = [stagings EXCEPT ![s] = dir]
  BY <1>2, <1>4, <1>5, <1>7, <1>9 DEF WriteEvidence
<1>12. /\ \E S : stagings' \in Seq(S)
       /\ Len(stagings') = Len(stagings) /\ stagings'[s] = dir
       /\ \A i \in 1..Len(stagings) : i # s => stagings'[i] = stagings[i]
       /\ \A i \in 1..Len(stagings') : StagingFields(stagings'[i])
  BY <1>3, <1>10, <1>11, Rewritten
<1>13. PICK new : /\ planner' = [planner EXCEPT ![p] = new] /\ PlannerFields(new)
                  /\ new.at = "evident" /\ new.staging = planner[p].staging
  BY <1>1, PlannerGoes
<1>14. \A i \in 1..Len(stagings) :
          stagings'[i].evidence = stagings[i].evidence \/ NamesItsLock(stagings'[i].evidence)
  BY <1>8, <1>10, <1>12
<1>15. /\ new.staging \in 1..Len(stagings') /\ 1..Len(stagings) \subseteq 1..Len(stagings')
       /\ NamesItsLock(stagings'[new.staging].evidence)
  BY <1>2, <1>3, <1>8, <1>10, <1>12, <1>13
<1> QED
  BY <1>1, <1>12, <1>13, <1>14, <1>15, DirectoriesKeep

LEMMA IndexKeeps ==
  ASSUME PlansInv, NEW p \in DOMAIN planner, _write_plan_index(p)
  PROVE  PlansInv'
<1>1. UNCHANGED <<stagings, admitted>>
  BY DEF _write_plan_index
<1>2. PICK plan : plan = stagings[planner[p].staging].evidence
  OBVIOUS
<1>3. NamesItsLock(plan)
  BY <1>2 DEF _write_plan_index, PlannerAt, PlansInv, PlannerOK
<1>4. \A e \in planIndex' : NamesItsLock(e.plan)
  <2>1. PICK entry : entry = [plan |-> plan, staging |-> planner[p].staging]
    OBVIOUS
  <2>2. UNCHANGED planIndex \/ planIndex' = planIndex \cup {entry}
    BY <1>2, <2>1 DEF _write_plan_index
  <2>3. entry.plan = plan
    BY <2>1
  <2>4. \A e \in planIndex : NamesItsLock(e.plan)
    BY DEF PlansInv
  <2> QED
    BY <1>3, <2>2, <2>3, <2>4
<1>5. GivesUp(p) \/ \E s \in {"collided", "recording"} : Goes(p, s)
  BY DEF _write_plan_index, Answer
<1>6. CASE GivesUp(p)
  <2>1. IdlePlanner.at \notin Stages
    BY IdlePlannerFields DEF Stages
  <2> QED
    BY <1>1, <1>4, <1>6, <2>1, IdlePlannerFields, PlannerSteps DEF GivesUp
<1>7. CASE \E s \in {"collided", "recording"} : Goes(p, s)
  <2>1. PICK s \in {"collided", "recording"} : Goes(p, s)
    BY <1>7
  <2>2. PICK new : /\ planner' = [planner EXCEPT ![p] = new] /\ PlannerFields(new)
                   /\ new.at = s /\ new.staging = planner[p].staging
    BY <2>1, PlannerGoes
  <2>3. new.at \notin Stages
    BY <2>2 DEF Stages
  <2> QED
    BY <1>1, <1>4, <2>2, <2>3, PlannerSteps
<1> QED
  BY <1>5, <1>6, <1>7

(* Editing a staged file leaves the evidence.                              *)
LEMMA DisturbingKeeps ==
  ASSUME PlansInv, NEW s \in DOMAIN stagings, NEW content, DisturbStaging(s, content)
  PROVE  PlansInv'
<1>1. s \in 1..Len(stagings)
  <2>1. PICK S : stagings \in Seq(S)
    BY DEF PlansInv
  <2> QED
    BY <2>1, SMT
<1>2. PICK old : old = stagings[s] /\ StagingFields(old)
  BY <1>1 DEF PlansInv
<1>3. PICK dir : dir = [old EXCEPT !.env = content]
  OBVIOUS
<1>4. StagingFields(dir) /\ dir.evidence = old.evidence
  BY <1>2, <1>3 DEF StagingFields
<1>5. stagings' = [stagings EXCEPT ![s] = dir] /\ UNCHANGED <<planner, planIndex, admitted>>
  BY <1>2, <1>3 DEF DisturbStaging
<1>6. /\ \E S : stagings' \in Seq(S)
      /\ Len(stagings') = Len(stagings) /\ stagings'[s] = dir
      /\ \A i \in 1..Len(stagings) : i # s => stagings'[i] = stagings[i]
      /\ \A i \in 1..Len(stagings') : StagingFields(stagings'[i])
  BY <1>1, <1>4, <1>5, Rewritten
<1>7. \A i \in 1..Len(stagings) : stagings'[i].evidence = stagings[i].evidence
  BY <1>2, <1>4, <1>6
<1>8. \A q \in DOMAIN planner' : PlannerOK(q)'
  <2>1. "evident" \in Stages
    BY DEF Stages
  <2>2. SUFFICES ASSUME NEW q \in DOMAIN planner
                 PROVE  PlannerOK(q)'
    BY <1>5
  <2>3. PlannerOK(q) /\ planner'[q] = planner[q]
    BY <1>5 DEF PlansInv
  <2> QED
    BY <1>6, <1>7, <2>1, <2>3 DEF PlannerOK
<1>9. OperationsRunWhatWasPlanned'
  BY <1>5 DEF PlansInv, OperationsRunWhatWasPlanned
<1> QED
  BY <1>5, <1>6, <1>8, <1>9 DEF PlansInv, StagingFields, OperationFields, NamesItsLock

(* What is admitted is what the loader checked.                            *)
LEMMA SubmitsKeep ==
  ASSUME PlansInv, NEW r, NEW a, NEW s \in _load_plan(r.plan), submit_manifest_v2_plan(r, s, a)
  PROVE  PlansInv'
<1>1. PICK plan : plan = r.plan
  OBVIOUS
<1>2. PICK x \in planIndex : /\ x.plan = plan /\ x.staging = s
                             /\ plan.policy = _manifest_v2_policy_digest(stagings[s])
                             /\ stagings[s].static = stagings[s].lock
  BY <1>1 DEF _load_plan
<1>3. PICK static, env : static = stagings[s].static /\ env = stagings[s].env
  OBVIOUS
<1>4. /\ plan.policy.sources = [static |-> static, env |-> env]
      /\ plan.policy.candidate.lock = static
  <2>1. PICK bound, lock : bound = plan.policy /\ lock = stagings[s].lock
    OBVIOUS
  <2>2. bound = [candidate |-> [static |-> static, env |-> env, lock |-> lock],
                 sources |-> [static |-> static, env |-> env]]
    BY <1>2, <1>3, <2>1 DEF _manifest_v2_policy_digest, manifest_v2_sources_digest
  <2>3. bound.sources = [static |-> static, env |-> env] /\ bound.candidate.lock = lock
    BY <2>2
  <2> QED
    BY <1>2, <1>3, <2>1, <2>3
<1>5. plan.revision = static
  BY <1>2, <1>4 DEF PlansInv, NamesItsLock
<1>6. PICK op, key : /\ op = [plan |-> plan, actor |-> a, key |-> key, ran |-> FALSE,
                              static |-> static, env |-> env]
                     /\ admitted' = admitted \cup {op}
  BY <1>1, <1>3 DEF submit_manifest_v2_plan
<1>7. /\ OperationFields(op) /\ op.plan.policy.sources = [static |-> op.static, env |-> op.env]
      /\ op.plan.revision = op.static
  BY <1>4, <1>5, <1>6 DEF OperationFields
<1>8. UNCHANGED <<stagings, planner, planIndex>>
  BY DEF submit_manifest_v2_plan
<1>9. OperationsRunWhatWasPlanned' /\ \A o \in admitted' : OperationFields(o)
  BY <1>6, <1>7 DEF PlansInv, OperationsRunWhatWasPlanned
<1> QED
  BY <1>8, <1>9 DEF PlansInv, PlannerOK, PlannerFields, StagingFields, OperationFields, NamesItsLock

LEMMA ExecutionKeeps ==
  ASSUME PlansInv, NEW op \in admitted, manifest_v2_executor(op)
  PROVE  PlansInv'
<1>1. PICK new : new = [op EXCEPT !.ran = TRUE]
  OBVIOUS
<1>2. /\ OperationFields(new) /\ new.plan = op.plan /\ new.static = op.static /\ new.env = op.env
  <2>1. OperationFields(op)
    BY DEF PlansInv
  <2> QED
    BY <1>1, <2>1 DEF OperationFields
<1>3. admitted' = (admitted \ {op}) \cup {new} /\ UNCHANGED <<stagings, planner, planIndex>>
  BY <1>1 DEF manifest_v2_executor
<1>4. OperationsRunWhatWasPlanned'
  <2>1. /\ new.plan.policy.sources = [static |-> new.static, env |-> new.env]
        /\ new.plan.revision = new.static
    BY <1>2 DEF PlansInv, OperationsRunWhatWasPlanned
  <2> QED
    BY <1>3, <2>1 DEF PlansInv, OperationsRunWhatWasPlanned
<1>5. \A o \in admitted' : OperationFields(o)
  BY <1>2, <1>3 DEF PlansInv
<1> QED
  BY <1>3, <1>4, <1>5 DEF PlansInv, PlannerOK, PlannerFields, StagingFields, OperationFields, NamesItsLock

LEMMA PlansFrame ==
  ASSUME PlansInv, UNCHANGED <<stagings, planner, planIndex, admitted>>
  PROVE  PlansInv'
  BY DEF PlansInv, PlannerOK, PlannerFields, StagingFields, OperationFields, NamesItsLock,
         OperationsRunWhatWasPlanned

LEMMA PlansStep ==
  ASSUME PlansInv, [DeploymentPlansNext]_planVars
  PROVE  PlansInv'
<1>1. ASSUME NEW p \in DOMAIN planner, _plan_exact(p) \/ PlannerDies(p)
      PROVE  PlansInv'
  BY <1>1, LoadsKeep, DigestsKeep, KeysKeep, RequestsKeep, BeginsKeep, CopiesKeep, EvidenceKeeps, IndexKeeps
  DEF _plan_exact, plan_manifest_v2
<1>2. ASSUME NEW r \in answered, NEW a \in Actors, apply_manifest_v2_plan(r, a) \/ verify_lumen_decision(r, a)
      PROVE  PlansInv'
  BY <1>2, SubmitsKeep DEF apply_manifest_v2_plan, verify_lumen_decision
<1>3. ASSUME NEW op \in admitted, manifest_v2_executor(op)
      PROVE  PlansInv'
  BY <1>3, ExecutionKeeps
<1>4. ASSUME NEW f, NEW c, EditSource(f, c)
      PROVE  PlansInv'
  BY <1>4, PlansFrame DEF EditSource
<1>5. ASSUME NEW s \in DOMAIN stagings, Expires(s) \/ \E c \in Contents : DisturbStaging(s, c)
      PROVE  PlansInv'
  BY <1>5, PlansFrame, DisturbingKeeps DEF Expires
<1>6. CASE UNCHANGED planVars
  BY <1>6, PlansFrame DEF planVars
<1> QED
  BY <1>1, <1>2, <1>3, <1>4, <1>5, <1>6 DEF DeploymentPlansNext

(* An operation the journal admits serves the static tree its plan's       *)
(* revision names and carries the sources its plan's digest covers, for    *)
(* any planners, contents and edits in any order: the loader's rendering   *)
(* again is what closes the gap between the two digests of the tree        *)
(* (manifest_v2_execution.py, _load_plan and submit_manifest_v2_plan).     *)
THEOREM OperationsRunTheirPlans == DeploymentPlansSpec => []OperationsRunWhatWasPlanned
<1>1. PlansInv => OperationsRunWhatWasPlanned
  BY DEF PlansInv
<1> QED
  BY PlansStart, PlansStep, <1>1, PTL DEF DeploymentPlansSpec
=============================================================================
