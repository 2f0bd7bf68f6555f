----------------------------- MODULE HostBackup -----------------------------
(***************************************************************************)
(* Host-control backups and clean-host recovery (daemon/recovery.py).  A   *)
(* backup copies the managed tree file by file and then the operation      *)
(* database, while the daemon goes on with whatever it has accepted: the   *)
(* host policy is read when the backup is planned and by each submission,  *)
(* never under a lock.  Sealed objects are published, and restored trees   *)
(* promoted, by renaming a directory, which the kernel refuses when the    *)
(* name holds a directory that is not empty.                               *)
(*                                                                         *)
(* The age binary and a recipient are taken as configured: without them    *)
(* every plan is blocked.  Entries are regular files; "operation" stands   *)
(* for a deployment and for a workload run, which are admitted and counted *)
(* in the same way.                                                        *)
(***************************************************************************)
EXTENDS Naturals, FiniteSets

CONSTANTS
  Work,          \* operations and workload runs that may be submitted
  Paths,         \* files of the runtime tree, in the order of the walk: 1..n
  BackupIds,
  Makers,        \* who creates backups: "cli" confirms a plan, "agent" does not
  MaxMishaps,    \* bound on crashes and damaged objects
  Nobody         \* nothing wrote this file; no backup; no plan

VARIABLES
  policy,        \* host_state: maintenance_mode and drained
  admission,     \* a submission that has read the policy
  journal,       \* the operation database
  tree,          \* the file's last writer
  making,        \* each maker's create_host_backup
  shelf,         \* the destination, by backup id
  restoring,     \* the recovery on the replacement host
  root,          \* its runtime root
  mishaps

daemonVars == <<policy, admission, journal, tree>>
hostBackupVars == <<daemonVars, making, shelf, restoring, root, mishaps>>

Recoverable == {"accepted", "executing"}
Unwritten == [p \in Paths |-> Nobody]
NotMaking == [at |-> "idle", id |-> Nobody, token |-> Nobody,
              files |-> Unwritten, copied |-> 0, database |-> Nobody]
NotRestoring == [at |-> "idle", id |-> Nobody, token |-> Nobody, payload |-> Nobody]
Root(state) == [state |-> state, holds |-> Nobody]

HostBackupInit ==
  /\ policy = [maintenance |-> FALSE, drained |-> FALSE]
  /\ admission = [w \in Work |-> FALSE]
  /\ journal = [w \in Work |-> "none"]
  /\ tree = Unwritten
  /\ making = [m \in Makers |-> NotMaking]
  /\ shelf = [b \in BackupIds |-> Nobody]
  /\ restoring = NotRestoring
  /\ root \in {Root("absent"), Root("empty")}
  /\ mishaps = 0

-----------------------------------------------------------------------------
(* The daemon.  An admission reads the policy in one transaction and       *)
(* records the operation in another.                                       *)
set_host_control(maintenance, drained) ==
  /\ policy' = [maintenance |-> maintenance, drained |-> drained]
  /\ policy' # policy
  /\ UNCHANGED <<admission, journal, tree, making, shelf, restoring, root, mishaps>>

ReadPolicy(w) ==
  /\ journal[w] = "none"
  /\ ~admission[w]
  /\ ~(policy.maintenance \/ policy.drained)
  /\ admission' = [admission EXCEPT ![w] = TRUE]
  /\ UNCHANGED <<policy, journal, tree, making, shelf, restoring, root, mishaps>>

Submit(w) ==
  /\ admission[w]
  /\ admission' = [admission EXCEPT ![w] = FALSE]
  /\ journal' = [journal EXCEPT ![w] = "accepted"]
  /\ UNCHANGED <<policy, tree, making, shelf, restoring, root, mishaps>>

(* The operation and workload loops do not look at the policy: accepted    *)
(* work runs, and its state is durable before it touches a file.           *)
Execute(w) ==
  /\ journal[w] = "accepted"
  /\ journal' = [journal EXCEPT ![w] = "executing"]
  /\ UNCHANGED <<policy, admission, tree, making, shelf, restoring, root, mishaps>>

WriteFile(w, p) ==
  /\ journal[w] = "executing"
  /\ tree[p] # w
  /\ \A q \in Paths : q < p => tree[q] = w
  /\ tree' = [tree EXCEPT ![p] = w]
  /\ UNCHANGED <<policy, admission, journal, making, shelf, restoring, root, mishaps>>

Succeed(w) ==
  /\ journal[w] = "executing"
  /\ \A p \in Paths : tree[p] = w
  /\ journal' = [journal EXCEPT ![w] = "succeeded"]
  /\ UNCHANGED <<policy, admission, tree, making, shelf, restoring, root, mishaps>>

-----------------------------------------------------------------------------
(* What the plan observes.                                                 *)
_host_state == policy.maintenance /\ policy.drained

_active_workload_runs == {w \in Work : journal[w] \in Recoverable}

(* The database and the excluded directories are not part of it.           *)
_inventory == tree

(* The manifest beside the object: readable, and of this backup.           *)
_load_external_manifest(b) == shelf[b] # Nobody /\ shelf[b].manifest = "valid"

_verify_external_object_presence(b) ==
  _load_external_manifest(b) /\ shelf[b].object # "missing"

_verify_external_object(b) ==
  _verify_external_object_presence(b) /\ shelf[b].object = "sealed"

host_backup_plan(b) ==
  [blocked   |-> \/ ~_host_state
                 \/ _active_workload_runs # {}
                 \/ shelf[b] # Nobody /\ ~_load_external_manifest(b),
   inventory |-> _inventory,
   present   |-> shelf[b] # Nobody]

MakerGoes(m, new) ==
  /\ making' = [making EXCEPT ![m] = new]
  /\ UNCHANGED <<daemonVars, restoring, root>>

PlanBackup(m, b) ==
  /\ m = "cli"
  /\ making[m].at = "idle"
  /\ ~host_backup_plan(b).blocked
  /\ MakerGoes(m, [NotMaking EXCEPT !.at = "planned", !.id = b,
                                    !.token = host_backup_plan(b)])
  /\ UNCHANGED <<shelf, mishaps>>

(* create_host_backup up to the snapshot.  A published object is verified  *)
(* and answered again; a plan that is blocked or has changed is refused.   *)
BeginBackup(m, b) ==
  LET plan == host_backup_plan(b)
  IN  /\ making[m].at = IF m = "cli" THEN "planned" ELSE "idle"
      /\ m = "cli" => making[m].id = b
      /\ m = "agent" => ~plan.blocked /\ ~plan.present
      /\ MakerGoes(m, IF plan.blocked \/ plan.present \/ (m = "cli" /\ making[m].token # plan)
                      THEN NotMaking
                      ELSE [NotMaking EXCEPT !.at = "copy", !.id = b])
      /\ UNCHANGED <<shelf, mishaps>>

(* _copy_regular takes one file as it is at that moment, or fails when it  *)
(* changes under the copy.                                                 *)
_copy_regular(m, p) == [making[m].files EXCEPT ![p] = tree[p]]

(* Faulty variant: the database is copied before the files.                *)
SnapshotDatabaseFirst(m) ==
  LET making_m == making[m]
      next == making_m.copied + 1
  IN  /\ making_m.at = "copy"
      /\ MakerGoes(m, IF making_m.database = Nobody
                      THEN [making_m EXCEPT !.database = journal]
                      ELSE IF making_m.copied < Cardinality(Paths)
                      THEN [making_m EXCEPT !.files = _copy_regular(m, next), !.copied = next]
                      ELSE [making_m EXCEPT !.at = "seal"])
      /\ UNCHANGED <<shelf, mishaps>>

(* The files in the order of the walk, then the database in one read.      *)
_snapshot_runtime(m) ==
  LET making_m == making[m]
      next == making_m.copied + 1
  IN  /\ making_m.at = "copy"
      /\ MakerGoes(m, IF making_m.copied < Cardinality(Paths)
                      THEN [making_m EXCEPT !.files = _copy_regular(m, next), !.copied = next]
                      ELSE [making_m EXCEPT !.database = journal, !.at = "seal"])
      /\ UNCHANGED <<shelf, mishaps>>

(* Archive, encrypt, and copy the object and its manifest beside their     *)
(* final name, or give up.                                                 *)
Seal(m) ==
  /\ making[m].at = "seal"
  /\ \E outcome \in {"publish", "idle"} :
       MakerGoes(m, IF outcome = "idle" THEN NotMaking
                    ELSE [making[m] EXCEPT !.at = "publish"])
  /\ UNCHANGED <<shelf, mishaps>>

(* The digests of the entries are taken from the copies.                   *)
Sealed(copy) == [manifest |-> "valid", object |-> "sealed", entries |-> copy.files,
                 files |-> copy.files, database |-> copy.database]

(* os.replace fails on a directory that is not empty.                      *)
Publish(m) ==
  /\ making[m].at = "publish"
  /\ shelf' = IF shelf[making[m].id] # Nobody THEN shelf
              ELSE [shelf EXCEPT ![making[m].id] =
                      Sealed(making[m])]
  /\ MakerGoes(m, NotMaking)
  /\ UNCHANGED mishaps

MakerDies(m) ==
  /\ making[m].at \in {"copy", "seal", "publish"}
  /\ mishaps < MaxMishaps
  /\ mishaps' = mishaps + 1
  /\ MakerGoes(m, NotMaking)
  /\ UNCHANGED shelf

(* The off-site copy decays.                                               *)
Decay(b) ==
  /\ shelf[b] # Nobody
  /\ shelf[b].manifest = "valid" /\ shelf[b].object = "sealed"
  /\ mishaps < MaxMishaps
  /\ mishaps' = mishaps + 1
  /\ \/ shelf' = [shelf EXCEPT ![b].object = "rotten"]
     \/ shelf' = [shelf EXCEPT ![b].object = "missing"]
     \/ shelf' = [shelf EXCEPT ![b].manifest = "broken"]
  /\ UNCHANGED <<daemonVars, making, restoring, root>>

-----------------------------------------------------------------------------
(* Recovery on the replacement host.                                       *)
_restore_target_state == IF root.state = "populated" THEN "occupied" ELSE root.state

clean_host_restore_plan(b) ==
  [blocked |-> ~_verify_external_object(b) \/ _restore_target_state = "occupied",
   target  |-> _restore_target_state]

RestoreGoes(new) ==
  /\ restoring' = new
  /\ UNCHANGED <<daemonVars, making, shelf>>

PlanRestore(b) ==
  /\ restoring.at = "idle"
  /\ ~clean_host_restore_plan(b).blocked
  /\ RestoreGoes([NotRestoring EXCEPT !.at = "planned", !.id = b,
                                      !.token = clean_host_restore_plan(b)])
  /\ UNCHANGED <<root, mishaps>>

BeginRestore ==
  /\ restoring.at = "planned"
  /\ RestoreGoes(IF clean_host_restore_plan(restoring.id) = restoring.token
                 THEN [restoring EXCEPT !.at = "unpack"] ELSE NotRestoring)
  /\ UNCHANGED <<root, mishaps>>

(* Every file against its entry, and no path that is not declared.         *)
_verify_payload(payload, entries) ==
  /\ DOMAIN payload = DOMAIN entries
  /\ \A p \in DOMAIN entries : payload[p] = entries[p]

(* The database is whole and its one host is the host of the manifest.     *)
_validate_restored_database(database) == database # Nobody

_extract_regular_archive(object) == [files |-> object.files, database |-> object.database]

_load_internal_manifest(object) == object.entries

(* Decrypt, inspect, extract, verify, and write the receipt into the       *)
(* payload.  A rotten object does not decrypt.                             *)
Unpack ==
  LET object == shelf[restoring.id]
      payload == _extract_regular_archive(object)
  IN  /\ restoring.at = "unpack"
      /\ RestoreGoes(
           IF /\ _verify_external_object(restoring.id)
              /\ _verify_payload(payload.files, _load_internal_manifest(object))
              /\ _validate_restored_database(payload.database)
           THEN [restoring EXCEPT !.at = "check", !.payload = payload]
           ELSE NotRestoring)
      /\ UNCHANGED <<root, mishaps>>

CheckTarget ==
  /\ restoring.at = "check"
  /\ RestoreGoes(
       IF _restore_target_state \in {"occupied"} \cup ({"absent", "empty"} \ {restoring.token.target})
       THEN NotRestoring
       ELSE [restoring EXCEPT !.at = IF root.state = "empty" THEN "rmdir" ELSE "promote"])
  /\ UNCHANGED <<root, mishaps>>

RemoveEmptyTarget ==
  /\ restoring.at = "rmdir"
  /\ root' = IF root.state = "empty" THEN Root("absent") ELSE root
  /\ RestoreGoes(IF root.state = "empty" THEN [restoring EXCEPT !.at = "promote"]
                 ELSE NotRestoring)
  /\ UNCHANGED mishaps

Promote ==
  /\ restoring.at = "promote"
  /\ root' = IF root.state = "populated" THEN root
             ELSE [state |-> "populated", holds |-> restoring.payload]
  /\ RestoreGoes(NotRestoring)
  /\ UNCHANGED mishaps

RestoreDies ==
  /\ restoring.at \notin {"idle", "planned"}
  /\ mishaps < MaxMishaps
  /\ mishaps' = mishaps + 1
  /\ RestoreGoes(NotRestoring)
  /\ UNCHANGED root

(* The installer makes the directory, or a daemon is started on it.        *)
OthersUseRoot ==
  /\ root.state # "populated"
  /\ \/ root.state = "absent" /\ root' = Root("empty")
     \/ root' = Root("populated")
  /\ UNCHANGED <<daemonVars, making, shelf, restoring, mishaps>>

-----------------------------------------------------------------------------
create_host_backup(m) ==
  \/ \E b \in BackupIds : PlanBackup(m, b) \/ BeginBackup(m, b)
  \/ _snapshot_runtime(m)
  \/ Seal(m)
  \/ Publish(m)
  \/ MakerDies(m)

apply_clean_host_restore ==
  \/ \E b \in BackupIds : PlanRestore(b)
  \/ BeginRestore \/ Unpack \/ CheckTarget \/ RemoveEmptyTarget \/ Promote
  \/ RestoreDies

HostBackupNext ==
  \/ \E maintenance, drained \in BOOLEAN : set_host_control(maintenance, drained)
  \/ \E w \in Work : ReadPolicy(w) \/ Submit(w) \/ Execute(w) \/ Succeed(w)
  \/ \E w \in Work, p \in Paths : WriteFile(w, p)
  \/ \E m \in Makers : create_host_backup(m)
  \/ \E b \in BackupIds : Decay(b)
  \/ apply_clean_host_restore
  \/ OthersUseRoot

-----------------------------------------------------------------------------
(* A replacement host never holds the effect of an operation its journal   *)
(* does not know: every file of a promoted tree was written by work that   *)
(* the restored database has as executing or finished, so that recovery    *)
(* can resume or account for it.  It holds although work admitted late may *)
(* run during the copy, because the database is copied last.               *)
RestoredHostIsSound ==
  root.holds # Nobody =>
    \A p \in Paths : root.holds.files[p] # Nobody =>
      root.holds.database[root.holds.files[p]] \in {"executing", "succeeded"}

=============================================================================
