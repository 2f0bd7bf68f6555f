---------------------------- MODULE AgentUpgrade ----------------------------
(***************************************************************************)
(* Upgrades of the daemon itself (daemon/upgrades.py, daemon/api.py and    *)
(* the systemd launcher).  The agent thread stages a release behind a      *)
(* marker and asks for a restart; a thread of the new daemon confirms the  *)
(* release after a grace period; the launcher takes an unconfirmed release *)
(* back when the daemon dies.  The three meet only in the files of the     *)
(* install root: the current symlink, the marker and the receipts.         *)
(***************************************************************************)
EXTENDS Integers, FiniteSets

CONSTANTS
  Upgrades,      \* host.upgrade commands, executed in this order: 1..n
  TargetOf,      \* the release each of them installs
  Installed,     \* the release that is current at first
  Good,          \* the releases that survive the grace period
  UpgradeFaults,        \* "crash": the daemon dies; "power": the launcher too
  MaxFaults,     \* bound on the faults
  NoMarker, NoRelease

VARIABLES
  current,       \* the symlink
  marker,        \* upgrade-pending.json
  receipt,       \* upgrade-receipts/<command>.json
  upgradeCommand, \* the state of each command in the agent's store
  daemon,        \* the release that is running
  stage,         \* the agent thread in stage_agent_upgrade
  confirm,       \* the confirmation thread
  launcher,      \* the launcher process
  faults

files == <<current, marker, receipt>>
upgradeVars == <<files, upgradeCommand, daemon, stage, confirm, launcher, faults>>

NotStaging == [at |-> "idle", upgrade |-> 0, previous |-> NoRelease]
NotConfirming == [at |-> "none", marker |-> NoMarker, status |-> "none"]

Halted ==
  /\ daemon' = NoRelease
  /\ stage' = NotStaging
  /\ confirm' = NotConfirming

-----------------------------------------------------------------------------
(* stage_agent_upgrade.  The release itself is installed by an atomic      *)
(* rename and valid from then on.                                          *)
Begin(c) ==
  /\ daemon # NoRelease
  /\ stage = NotStaging
  /\ upgradeCommand[c] \in {"accepted", "running"}
  /\ \A b \in Upgrades : b < c => upgradeCommand[b] \notin {"accepted", "running"}
  /\ upgradeCommand' = [upgradeCommand EXCEPT ![c] = "running"]
  /\ stage' = [stage EXCEPT !.at = "receipt", !.upgrade = c]
  /\ UNCHANGED <<files, daemon, confirm, launcher, faults>>

StageGoes(at) == stage' = [stage EXCEPT !.at = at]

LookForReceipt ==
  LET c == stage.upgrade
  IN  /\ stage.at = "receipt"
      /\ StageGoes(CASE receipt[c] = "none" -> "marker"
                     [] receipt[c] = "succeeded" /\ current = TargetOf[c] -> "staged"
                     [] OTHER -> "failed")
      /\ UNCHANGED <<files, upgradeCommand, daemon, confirm, launcher, faults>>

LookForMarker ==
  LET c == stage.upgrade
  IN  /\ stage.at = "marker"
      /\ stage' = CASE marker = NoMarker -> [stage EXCEPT !.at = "mark", !.previous = current]
                    [] marker # NoMarker /\ marker.upgrade # c -> [stage EXCEPT !.at = "failed"]
                    [] marker # NoMarker /\ marker.upgrade = c ->
                         [stage EXCEPT !.at = CASE current = TargetOf[c] -> "staged"
                                                [] current = marker.previous -> "switch"
                                                [] OTHER -> "failed"]
      /\ UNCHANGED <<files, upgradeCommand, daemon, confirm, launcher, faults>>

WriteMarker ==
  LET c == stage.upgrade
  IN  /\ stage.at = "mark"
      /\ marker' = [upgrade |-> c, previous |-> stage.previous, target |-> TargetOf[c]]
      /\ StageGoes("switch")
      /\ UNCHANGED <<current, receipt, upgradeCommand, daemon, confirm, launcher, faults>>

Switch ==
  /\ stage.at = "switch"
  /\ current' = TargetOf[stage.upgrade]
  /\ StageGoes("staged")
  /\ UNCHANGED <<marker, receipt, upgradeCommand, daemon, confirm, launcher, faults>>

(* The result is recorded; a staged upgrade asks for the restart.          *)
Record ==
  /\ stage.at \in {"staged", "failed"}
  /\ upgradeCommand' = [upgradeCommand EXCEPT ![stage.upgrade] =
                   IF stage.at = "staged" THEN "succeeded" ELSE "failed"]
  /\ IF stage.at = "staged" THEN StageGoes("restart") ELSE stage' = NotStaging
  /\ UNCHANGED <<files, daemon, confirm, launcher, faults>>

(* Exit code 75: the launcher returns and systemd starts it again.         *)
ExitForRestart ==
  /\ stage.at = "restart"
  /\ Halted
  /\ launcher' = "start"
  /\ UNCHANGED <<files, upgradeCommand, faults>>

-----------------------------------------------------------------------------
(* confirm_running_upgrade, ten seconds after the start.                   *)
InspectMarker ==
  LET status == CASE current = marker.target /\ daemon = marker.target -> "succeeded"
                  [] current = marker.previous -> "aborted"
                  [] OTHER -> "none"
  IN  /\ confirm.at = "grace"
      /\ daemon \in Good
      /\ confirm' = IF marker = NoMarker \/ status = "none" THEN NotConfirming
                    ELSE [at |-> "receipt", marker |-> marker, status |-> status]
      /\ UNCHANGED <<files, upgradeCommand, daemon, stage, launcher, faults>>

WriteReceipt ==
  /\ confirm.at = "receipt"
  /\ receipt' = [receipt EXCEPT ![confirm.marker.upgrade] = confirm.status]
  /\ confirm' = [confirm EXCEPT !.at = "unlink"]
  /\ UNCHANGED <<current, marker, upgradeCommand, daemon, stage, launcher, faults>>

Unlink ==
  /\ confirm.at = "unlink"
  /\ marker' = NoMarker
  /\ confirm' = NotConfirming
  /\ UNCHANGED <<current, receipt, upgradeCommand, daemon, stage, launcher, faults>>

-----------------------------------------------------------------------------
(* The launcher.                                                           *)
StartDaemon ==
  /\ launcher = "start"
  /\ launcher' = "wait"
  /\ daemon' = current
  /\ confirm' = [NotConfirming EXCEPT !.at = IF marker = NoMarker THEN "none" ELSE "grace"]
  /\ UNCHANGED <<files, upgradeCommand, stage, faults>>

(* A broken release dies in the grace period, a good one in a fault.       *)
BreaksDown ==
  /\ daemon \notin Good \cup {NoRelease}
  /\ Halted
  /\ launcher' = "rollback"
  /\ UNCHANGED <<files, upgradeCommand, faults>>

DaemonDies ==
  /\ "crash" \in UpgradeFaults
  /\ faults < MaxFaults
  /\ daemon # NoRelease
  /\ faults' = faults + 1
  /\ Halted
  /\ launcher' = "rollback"
  /\ UNCHANGED <<files, upgradeCommand>>

(* Faulty variant: only the marker is removed.                             *)
RollbackUnmarked ==
  /\ launcher = "rollback"
  /\ marker' = NoMarker
  /\ launcher' = "start"
  /\ UNCHANGED <<current, receipt, upgradeCommand, daemon, stage, confirm, faults>>

(* _rollback_unconfirmed_upgrade                                           *)
Rollback ==
  /\ launcher = "rollback"
  /\ IF marker = NoMarker \/ current \notin {marker.previous, marker.target}
       THEN launcher' = "start" /\ UNCHANGED current
     ELSE launcher' = "unlink" /\ current' = marker.previous
  /\ UNCHANGED <<marker, receipt, upgradeCommand, daemon, stage, confirm, faults>>

RollbackUnlink ==
  /\ launcher = "unlink"
  /\ marker' = NoMarker
  /\ launcher' = "start"
  /\ UNCHANGED <<current, receipt, upgradeCommand, daemon, stage, confirm, faults>>

(* A power loss, or a stop of the service: no rollback.                    *)
Interrupted ==
  /\ "power" \in UpgradeFaults
  /\ faults < MaxFaults
  /\ faults' = faults + 1
  /\ Halted
  /\ launcher' = "start"
  /\ UNCHANGED <<files, upgradeCommand>>

StagingStep ==
  \/ \E c \in Upgrades : Begin(c)
  \/ LookForReceipt \/ LookForMarker \/ WriteMarker \/ Switch \/ Record
ConfirmStep == InspectMarker \/ WriteReceipt \/ Unlink
LauncherStep == StartDaemon \/ BreaksDown \/ Rollback \/ RollbackUnlink

UpgradeNext == StagingStep \/ ExitForRestart \/ ConfirmStep \/ LauncherStep \/ DaemonDies \/ Interrupted

UpgradeInit ==
  /\ current = Installed
  /\ marker = NoMarker
  /\ receipt = [c \in Upgrades |-> "none"]
  /\ upgradeCommand = [c \in Upgrades |-> "accepted"]
  /\ daemon = NoRelease
  /\ stage = NotStaging
  /\ confirm = NotConfirming
  /\ launcher = "start"
  /\ faults = 0

-----------------------------------------------------------------------------
(* The confirmation thread has found the old release current, and recorded *)
(* the upgrade as aborted, while the agent thread carried it out: possible *)
(* when an interrupted staging is resumed in the moment the grace ends.    *)
AbortedYetActive ==
  \E c \in Upgrades : receipt[c] = "aborted" /\ current = TargetOf[c]

=============================================================================
