------------------------------ MODULE MCDaemon ------------------------------
(* What the daemon's threads do beside the executor, one part at a time:   *)
(* three remote commands, one that asks for a restart, one with a source   *)
(* bundle and a malformed one, two to a batch; two upgrades of the daemon, *)
(* the first to a release that does not survive its grace period; and two  *)
(* runs of one workload, executed by two threads.  The concurrency policy  *)
(* is that of the revision active when a run is requested, so it may       *)
(* differ between the two.                                                 *)
EXTENDS AgentCommands, AgentUpgrade, WorkloadRuns

CONSTANTS v0, v1, v2, r1, r2, w1, w2

VARIABLE subject

vars == <<subject, commandsVars, upgradeVars, runsVars>>

MCKindOf == <<"restart", "bundle", "bad">>
MCTargetOf == <<v1, v2>>

Commanded == subject = "commands"
Upgraded == subject = "upgrade"
Requested == subject = "runs"

(* The names of requests and threads are opaque: r1 is the first to be     *)
(* requested, and w1 the first thread to claim anything.                   *)
InOrder ==
  /\ run'[r2].state # "none" => run'[r1].state # "none"
  /\ (\A r \in Runs : run[r].token = 0) => worker'[w2] = IdleWorker

Init ==
  /\ subject \in {"commands", "upgrade", "runs"}
  /\ CommandsInit /\ UpgradeInit /\ RunsInit

Next ==
  \/ Commanded /\ CommandsNext /\ UNCHANGED <<subject, upgradeVars, runsVars>>
  \/ Upgraded /\ UpgradeNext /\ UNCHANGED <<subject, commandsVars, runsVars>>
  \/ Requested /\ RunsNext /\ InOrder /\ UNCHANGED <<subject, commandsVars, upgradeVars>>

(* The agent thread loops, and of infinitely many exchanges with the       *)
(* control plane infinitely many succeed; the threads of an upgrade and    *)
(* the launcher go on; the workload threads loop, containers end, and      *)
(* leases nobody renews run out.                                           *)
Fairness ==
  /\ WF_commandsVars(Commanded /\ AgentStep)
  /\ SF_commandsVars(Commanded /\ ControlPlaneReplies)
  /\ SF_commandsVars(Commanded /\ Acknowledge)
  /\ WF_upgradeVars(Upgraded /\ StagingStep)
  /\ WF_upgradeVars(Upgraded /\ ExitForRestart)
  /\ WF_upgradeVars(Upgraded /\ ConfirmStep)
  /\ WF_upgradeVars(Upgraded /\ LauncherStep)
  /\ \A w \in Workers : WF_runsVars(Requested /\ WorkloadStep(w))
  /\ \A r \in Runs : WF_runsVars(Requested /\ ContainerEnds(r)) /\ WF_runsVars(Requested /\ LeaseRunsOut(r))

Spec == Init /\ [][Next]_vars /\ Fairness

(* Whatever is staged and interrupted, a host that is upgraded ends up     *)
(* with a daemon that stays up, unless confirm_running_upgrade recorded an *)
(* upgrade as aborted that stage_agent_upgrade carried out.                *)
HostRecovers == Upgraded /\ []~AbortedYetActive => <>[](daemon \in Good)
=============================================================================
