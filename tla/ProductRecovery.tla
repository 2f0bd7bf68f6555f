--------------------------- MODULE ProductRecovery ---------------------------
(***************************************************************************)
(* Backup and restore drill of a product (product_recovery.py), beside its *)
(* releases.  A backup stops the active revision, copies its datasets,     *)
(* publishes them in one rename, starts the revision again and commits a   *)
(* receipt; a correlated receipt file follows.  The active revision is     *)
(* read before the scope's execution fence is acquired.  A drill restores  *)
(* a backup into a runtime of its own, starts it there and stops it.  A    *)
(* release may be made to wait for a backup of what it replaces.           *)
(***************************************************************************)
EXTENDS ProcessBackend

CONSTANTS
  Releases, Backups, Drills,       \* a partition of Operations
  BackupOf,                        \* the backup each drill restores
  Releasers, Keepers,              \* the workers that release; that back up
  BackupFirst,                     \* releases with a backup-complete precondition
  NoBackup

VARIABLES
  bound,        \* the revision an accepted recovery operation is bound to
  published,    \* each backup directory: its revision, and whether nothing ran
  correlated,   \* the operations with a correlated receipt file
  report,       \* the drills with a restore-report.json
  drilling      \* the drills whose restored application is up

recoveryVars == <<bound, published, correlated, report, drilling>>
allVars == <<vars, recoveryVars>>

(* _load_backup_manifest: a published backup of revision r.                *)
Manifest(b, r) == published[b] # NoBackup /\ published[b].revision = r

(* _verified_backup_evidence: with a receipt of success and the correlated *)
(* receipt file.                                                           *)
Evidence(b, r) ==
  /\ Manifest(b, r)
  /\ state[b] = "succeeded"
  /\ b \in correlated

(* _active_material, and the identity that accept compares: one recovery   *)
(* operation is bound to one revision.                                     *)
Material(o) ==
  /\ register # NoRevision
  /\ Reconciled
  /\ bound[o] \in {NoRevision, register}

(* product_backup_plan and product_restore_drill_plan: what is planned     *)
(* before and again after the confirmation.                                *)
BackupPlanned(b) == Material(b)

DrillPlanned(d) == Material(d) /\ Evidence(BackupOf[d], register)

(* The heartbeat thread may have noticed that the lease is gone.           *)
HeartbeatMayFail(w) == ~Holds(Fence(w))

Recovers(w, kind, step) == worker[w].at = kind /\ worker[w].step = step

Step(w, next) == Goes(w, next, local[w]) /\ siteUnchanged

-----------------------------------------------------------------------------
(* create_product_backup, apply_product_restore_drill: the confirmed plan  *)
(* is made again, and the active revision read.                            *)
ReadMaterial(w, o) ==
  /\ worker[w] = Idle
  /\ Open(o)
  /\ IF o \in Drills THEN DrillPlanned(o) ELSE BackupPlanned(o)
  /\ worker' = [worker EXCEPT ![w] =
       [Idle EXCEPT !.at = IF o \in Drills THEN "drill" ELSE "backup",
                    !.op = o, !.previous = register, !.step = "accept"]]
  /\ UNCHANGED <<holder, live, lock, record, journalVars, productVars,
                 recoveryVars>>

(* _begin_recovery_operation: accept and acquire the scope's fence, or     *)
(* give up when somebody holds it.                                         *)
Begin(w) ==
  LET o == worker[w].op
      free == ~live \/ Holds([op |-> o, owner |-> OwnerOf[w],
                              token |-> holder.token])
  IN  /\ worker[w].at \in {"backup", "drill"}
      /\ worker[w].step = "accept"
      /\ bound' = [bound EXCEPT ![o] = worker[w].previous]
      /\ IF free
           THEN /\ Grant(o, OwnerOf[w]) \/ Reenter(o, OwnerOf[w])
                /\ worker' = [worker EXCEPT ![w].token = holder'.token,
                                            ![w].step = "check"]
           ELSE /\ worker' = [worker EXCEPT ![w] = Idle]
                /\ UNCHANGED <<holder, live>>
      /\ UNCHANGED <<lock, record, journalVars, productVars, published,
                     correlated, report, drilling>>

(* A backup that an earlier attempt published is kept; otherwise the       *)
(* active revision is stopped.                                             *)
CheckPublished(w) ==
  LET b == worker[w].op
      r == worker[w].previous
  IN  /\ Recovers(w, "backup", "check")
      /\ CASE published[b] # NoBackup ->
                Goes(w, IF Manifest(b, r) THEN "resume" ELSE "raised",
                     Fresh)
           [] published[b] = NoBackup /\ AllAlive(processes[r]) ->
                Awaits(w, "stop", processes[r], {})
           [] OTHER -> Goes(w, "copy", Fresh)
      /\ siteUnchanged
      /\ UNCHANGED recoveryVars

(* The datasets are copied into a temporary directory, outside any fence.  *)
(* Copying may fail.                                                       *)
CopyDatasets(w) ==
  /\ Recovers(w, "backup", "copy")
  /\ \/ Goes(w, "publish", [Fresh EXCEPT !.held = running])
     \/ "backend" \in Faults /\ Goes(w, "raised", Fresh)
  /\ siteUnchanged
  /\ UNCHANGED recoveryVars

PublishBackup(w) ==
  /\ Recovers(w, "backup", "publish")
  /\ Goes(w, "resume", Fresh)
  /\ published' = [published EXCEPT ![worker[w].op] =
       [revision |-> worker[w].previous,
        quiet |-> local[w].held = {} /\ running = {}]]
  /\ siteUnchanged
  /\ UNCHANGED <<bound, correlated, report, drilling>>

(* heartbeat.check, then _resume_active_product: start, activate with the  *)
(* revision itself as the expected one, and verify_active.                 *)
Resume(w) ==
  /\ Recovers(w, "backup", "resume")
  /\ \/ Awaits(w, "materialize", {}, {})
     \/ HeartbeatMayFail(w) /\ Goes(w, "raised", Fresh)
  /\ siteUnchanged
  /\ UNCHANGED recoveryVars

ActivateResumed(w) ==
  /\ Recovers(w, "backup", "activate")
  /\ IF AllAlive(processes[worker[w].previous])
       THEN Awaits(w, "compare", processes[worker[w].previous], {})
       ELSE Goes(w, "raised", Fresh)
  /\ siteUnchanged
  /\ UNCHANGED recoveryVars

VerifyResumed(w) ==
  LET selected == active.revision = worker[w].previous
  IN  /\ Recovers(w, "backup", "verify")
      /\ \/ /\ selected /\ MayAnswer
            /\ Step(w, IF local[w].tries = 0 THEN "commit" ELSE "compensated")
         \/ /\ selected /\ MustAnswer => "probe" \in Faults
            /\ Step(w, "raised")
      /\ UNCHANGED recoveryVars

(* The exception handler resumes the product once more.                    *)
ResumeOnceMore(w) ==
  /\ Recovers(w, "backup", "raised")
  /\ IF local[w].tries = 0
       THEN /\ worker' = [worker EXCEPT ![w].step = "wait"]
            /\ local' = [local EXCEPT ![w] =
                 [Fresh EXCEPT !.then = "materialize", !.tries = 1]]
       ELSE /\ worker' = [worker EXCEPT ![w].step = "uncompensated"]
            /\ UNCHANGED local
  /\ UNCHANGED <<holder, live, lock, record, journalVars>>
  /\ siteUnchanged
  /\ UNCHANGED recoveryVars

-----------------------------------------------------------------------------
(* The drill: a report of an earlier attempt is kept, anything less is     *)
(* removed, the process record of a live application included.             *)
CheckReport(w) ==
  /\ Recovers(w, "drill", "check")
  /\ Step(w, IF worker[w].op \in report THEN "commit" ELSE "restore")
  /\ UNCHANGED recoveryVars

RestoreAndStart(w) ==
  /\ Recovers(w, "drill", "restore")
  /\ \/ Step(w, "verify_drill") /\ drilling' = drilling \cup {worker[w].op}
     \/ "backend" \in Faults /\ Step(w, "compensated") /\ UNCHANGED drilling
  /\ UNCHANGED <<bound, published, correlated, report>>

StopRestored(w) ==
  /\ Recovers(w, "drill", "verify_drill")
  /\ \/ Step(w, "report")
     \/ "probe" \in Faults /\ Step(w, "compensated")
  /\ drilling' = drilling \ {worker[w].op}
  /\ UNCHANGED <<bound, published, correlated, report>>

WriteReport(w) ==
  /\ Recovers(w, "drill", "report")
  /\ Step(w, "commit")
  /\ report' = report \cup {worker[w].op}
  /\ UNCHANGED <<bound, published, correlated, drilling>>

-----------------------------------------------------------------------------
(* commit_receipt of a success; the correlated file is written after it.   *)
CommitRecovery(w) ==
  /\ worker[w].at \in {"backup", "drill"}
  /\ worker[w].step = "commit"
  /\ Writable(w)
  /\ state' = [state EXCEPT ![worker[w].op] = "succeeded"]
  /\ claim' = [claim EXCEPT ![worker[w].op] = worker[w].previous]
  /\ worker' = [worker EXCEPT ![w].step = "correlate"]
  /\ UNCHANGED <<holder, live, lock, record, started, completed, cancelled,
                 register, productVars, recoveryVars>>

Leave(w) ==
  /\ worker' = [worker EXCEPT ![w] = Idle]
  /\ local' = [local EXCEPT ![w] = Fresh]
  /\ IF Holds(Fence(w)) THEN Release(Fence(w)) ELSE UNCHANGED <<holder, live>>
  /\ UNCHANGED <<lock, record, started, completed, cancelled, register>>
  /\ siteUnchanged

Correlate(w) ==
  /\ worker[w].at \in {"backup", "drill"}
  /\ worker[w].step = "correlate"
  /\ Leave(w)
  /\ correlated' = correlated \cup {worker[w].op}
  /\ UNCHANGED <<state, claim, bound, published, report, drilling>>

(* The failure receipt; without a lease the command ends with none.        *)
FailRecovery(w) ==
  /\ worker[w].at \in {"backup", "drill"}
  /\ worker[w].step \in {"compensated", "uncompensated"} \cup
       (IF Writable(w) THEN {} ELSE {"commit"})
  /\ IF Writable(w)
       THEN /\ state' = [state EXCEPT ![worker[w].op] =
                           IF worker[w].step = "compensated"
                             THEN "failed_compensated" ELSE "failed_uncompensated"]
            /\ claim' = [claim EXCEPT ![worker[w].op] =
                           IF worker[w].step = "compensated"
                             THEN worker[w].previous ELSE NoRevision]
       ELSE UNCHANGED <<state, claim>>
  /\ Leave(w)
  /\ UNCHANGED recoveryVars

(* The same command again after its receipt: _existing_backup_receipt and  *)
(* _existing_restore_receipt write the correlated file that is missing.    *)
Replay(o) ==
  /\ ~Open(o)
  /\ Material(o)
  /\ o \notin correlated
  /\ correlated' = correlated \cup {o}
  /\ UNCHANGED <<vars, bound, published, report, drilling>>

RecoveryStep(w) ==
  \/ \E o \in Backups \cup Drills : ReadMaterial(w, o)
  \/ Begin(w) \/ CheckPublished(w) \/ CopyDatasets(w) \/ PublishBackup(w)
  \/ Resume(w) \/ ActivateResumed(w) \/ VerifyResumed(w) \/ ResumeOnceMore(w)
  \/ CheckReport(w) \/ RestoreAndStart(w) \/ StopRestored(w) \/ WriteReport(w)
  \/ CommitRecovery(w) \/ Correlate(w) \/ FailRecovery(w)

-----------------------------------------------------------------------------
(* _current_backup_evidence: some backup of what is active now.            *)
CurrentBackup == \E b \in Backups : Evidence(b, register)

(* _precondition_evidence: backup-complete, except for a first release.    *)
BackupComplete(o) ==
  o \in BackupFirst /\ register # NoRevision => CurrentBackup

Environment ==
  \/ \E w \in Workers : CommandDies(w)
  \/ Dies
  \/ /\ UNCHANGED productVars
     /\ \/ LeaseRunsOut
        \/ NothingToRecover

Init ==
  /\ ProductInit
  /\ bound = [o \in Backups \cup Drills |-> NoRevision]
  /\ published = [b \in Backups |-> NoBackup]
  /\ correlated = {}
  /\ report = {}
  /\ drilling = {}

Next ==
  \/ /\ \/ \E w \in Releasers, o \in Releases :
             BackupComplete(o) /\ StartRelease(w, o)
        \/ \E w \in Releasers : ExecutorStep(w)
        \/ \E w \in Workers : BackendStep(w)
        \/ Environment
     /\ UNCHANGED recoveryVars
  \/ \E w \in Keepers : RecoveryStep(w)
  \/ \E o \in Backups \cup Drills : Replay(o)

Spec == Init /\ [][Next]_allVars

-----------------------------------------------------------------------------
(* A backup's receipt of success is given while the revision it names is   *)
(* the journal's active one and the switch leads to live processes of it:  *)
(* the product is back before its backup counts.                           *)
BackupReceiptStep ==
  \A b \in Backups :
    Open(b) /\ state'[b] = "succeeded" =>
      /\ published[b] # NoBackup
      /\ {published[b].revision, claim'[b], active.revision} = {register}
      /\ deaths = 0 => MustAnswer

BackupsAreTrue == [][BackupReceiptStep]_allVars

(* As long as no backup has begun and no process died by itself, the switch *)
(* leads to live processes: a release never cuts the product off, whatever *)
(* happens to the command and however often it is run again.               *)
ReleasesServeThroughout ==
  deaths = 0 /\ (\A b \in Backups : bound[b] = NoRevision) =>
    active.upstreams \subseteq running

(* The data of a backup that counts as evidence was copied while no        *)
(* process of the product was running.                                     *)
BackupsAreQuiet ==
  \A b \in Backups, r \in Revisions : Evidence(b, r) => published[b].quiet

=============================================================================
