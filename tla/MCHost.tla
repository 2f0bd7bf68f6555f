------------------------------- MODULE MCHost -------------------------------
(* What a host does before and beside the journaled executor, one part at  *)
(* a time: the compatibility path of the command line on one app           *)
(* directory, the backup and clean restore of the host's control state,    *)
(* the installation and enrollment of the daemon, the plans it admits, the *)
(* fence its workers compete for, and the data of an app that moves in or  *)
(* out with the evidence a cutover rests on.                               *)
EXTENDS LegacyRuntime, HostBackup, HostSetup, DeploymentPlans, AppPack, ExecutionFence, TLC

VARIABLE subject

vars == <<subject, legacyVars, hostBackupVars, hostSetupVars, planVars, backupVars, fenceVars>>

MCSupport == [r \in Releases |-> CASE r = 1 -> {"f", "g"} [] r = 2 -> {"g"} [] OTHER -> {"h"}]

\* Plan ids and lease owners are opaque.
Symmetry == Permutations(PlanIds) \cup Permutations(Owners)

(* Every operation of the fence competes for one scope.                    *)
MCScopeOf == [o \in Operations |-> CHOOSE s \in Scopes : TRUE]

MCCrews == {{"cli", "api"}, {"api", "retry"}}

-----------------------------------------------------------------------------
Pack ==
  [path |-> "main", environment |-> "production", critical |-> FALSE, verifies |-> TRUE,
   images |-> TRUE, postgres |-> "shared", contracts |-> TRUE, pgVolume |-> FALSE,
   writableBind |-> FALSE, hooksAllowed |-> TRUE, volumes |-> [d |-> "host"],
   unsafePath |-> FALSE, keys |-> {"K"}, commands |-> {"d"}, live |-> FALSE,
   resettable |-> TRUE, static |-> "present", backups |-> [required |-> TRUE, drill |-> TRUE]]

MCCatalogs == {{Pack}, {[Pack EXCEPT !.path = "other", !.volumes = [d |-> "named"],
                                     !.critical = TRUE]}}
MCStored == {[d |-> [source |-> 1, runtime |-> r, docker |-> 1]] : r \in {NoPlace, 5}}
MCEnvFiles == {[K |-> "set"]}

-----------------------------------------------------------------------------
\* The parts a run does not exercise rest in one initial state.
Init ==
    /\ subject \in {"legacy", "backup", "setup", "plans", "data", "fence"}
    /\ LegacyInit /\ HostBackupInit /\ HostSetupInit /\ DeploymentPlansInit /\ EvidenceInit
    /\ FenceInit /\ (subject # "fence" => now = 0)
    /\ subject # "legacy" => serving = 0
    /\ subject # "backup" => root.state = "absent"
    /\ subject # "plans" => DOMAIN planner = {"cli", "api"}
    /\ subject # "data" => catalog = {Pack} /\ packRelease = NoRelease
    /\ catalog = {Pack} => stored["d"].runtime = NoPlace

Next ==
    \/ /\ subject = "legacy" /\ LegacyNext
       /\ UNCHANGED <<subject, hostBackupVars, hostSetupVars, planVars, backupVars, fenceVars>>
    \/ /\ subject = "backup" /\ HostBackupNext
       /\ UNCHANGED <<subject, legacyVars, hostSetupVars, planVars, backupVars, fenceVars>>
    \/ /\ subject = "setup" /\ HostSetupNext
       /\ UNCHANGED <<subject, legacyVars, hostBackupVars, planVars, backupVars, fenceVars>>
    \/ /\ subject = "plans" /\ DeploymentPlansNext
       /\ UNCHANGED <<subject, legacyVars, hostBackupVars, hostSetupVars, backupVars, fenceVars>>
    \/ /\ subject = "data" /\ EvidenceNext
       /\ UNCHANGED <<subject, legacyVars, hostBackupVars, hostSetupVars, planVars, fenceVars>>
    \/ /\ subject = "fence" /\ FenceNext
       /\ UNCHANGED <<subject, legacyVars, hostBackupVars, hostSetupVars, planVars, backupVars>>

Spec == Init /\ [][Next]_vars
=============================================================================
