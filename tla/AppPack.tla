------------------------------ MODULE AppPack ------------------------------
(***************************************************************************)
(* Moving an app between hosts, the export half of portability.py: finding *)
(* the manifest of an app, validating its pack, planning and writing an    *)
(* export bundle, resetting the data volumes of an app that is not live    *)
(* (fresh install, which first exports what it is about to destroy), and   *)
(* the import rehearsal.  Each command is a process (ship) of its own: no  *)
(* lock serialises two of them, each rebuilds its plan and compares the    *)
(* confirmation token before it acts, and each may be killed at any step.  *)
(*                                                                         *)
(* A manifest is a record of what the plans look at.  A volume's data can  *)
(* live in three places: the host path the manifest declares ("source"),   *)
(* a directory below the app's runtime root ("runtime") and the named      *)
(* Docker volume ("docker").  Data is a version number, 0 for none.        *)
(***************************************************************************)
EXTENDS Integers, Sequences, FiniteSets, SequencesExt

CONSTANTS
    Packers,            \* ship processes
    Volumes,            \* names of data volumes
    Catalogs,           \* the sets of manifests the search directories may hold
    StoredAtFirst,      \* contents the volumes may have at the start
    Asked,              \* the environment the operator names, or Unnamed
    MaxExports,         \* bound: export bundles written
    MaxResets,          \* bound: fresh installs started
    MaxChanges,         \* bound: kills, writes by the app, edits and deploys by the operator
    NoPlace,             \* a place that does not exist
    Unnamed,      \* no environment named
    NoManifest,         \* no manifest resolved
    NoRelease,          \* no release metadata under the runtime root
    NoPlanShown         \* no plan has been shown

VARIABLES
    catalog,            \* manifests found in the search directories
    stored,             \* [Volumes -> [Places -> content]]
    packRelease,        \* the release the export plan reads
    external,           \* an external symlink lies among the runtime files
    bundles,            \* export bundle directories, oldest first
    evidence,           \* receipts stored below the runtime root
    packer,             \* the ship processes
    shown,              \* the confirmation token of the last plan printed
    wiped,              \* history: what a reset destroyed
    changes             \* counter behind MaxChanges

packVars == <<catalog, stored, packRelease, external, bundles, evidence, packer, shown, wiped, changes>>

Places == {"source", "runtime", "docker"}

IdlePacker == [pc |-> "idle"]

-----------------------------------------------------------------------------
(* Manifests and plans.                                                    *)

\* One candidate for the environment; else, if none carries it, the only one
\* without an environment.  Several candidates resolve to nothing.
resolve_app_manifest(found) ==
    LET exact   == {m \in found : Asked = Unnamed \/ m.environment = Asked}
        unknown == {m \in found : m.environment = Unnamed}
    IN  CASE Cardinality(exact) = 1 -> CHOOSE m \in exact : TRUE
          [] exact = {} /\ Asked # Unnamed /\ Cardinality(unknown) = 1
                                    -> CHOOSE m \in unknown : TRUE
          [] OTHER                  -> NoManifest

\* A data service inferred from an addon, or without export and import
\* behaviour, is an error when the pack is critical.
_validate_data_service(m) ==
    CASE m.postgres = "none"     -> {}
      [] m.postgres = "inferred" -> IF m.critical THEN {"postgres_data_contract_inferred"} ELSE {}
      [] OTHER                   -> IF m.critical /\ ~m.contracts
                                    THEN {"critical_postgres_missing_export", "critical_postgres_missing_import"}
                                    ELSE {}

_has_backup_behavior(m) == m.backups.required \/ m.volumes # << >>

pack_validation_report(m) ==
    LET production == m.environment = "production"
        found == [production_missing_verification |-> production /\ ~m.verifies,
                  service_missing_image           |-> ~m.images,
                  critical_volume_missing_export  |-> m.critical /\ ~m.contracts /\ m.volumes # << >>,
                  app_postgres_missing_volume     |-> m.postgres = "app" /\ ~m.pgVolume,
                  production_writable_bind_without_backup |->
                      production /\ m.writableBind /\ ~_has_backup_behavior(m),
                  hook_path_outside_allowlist     |-> ~m.hooksAllowed]
    IN  {code \in DOMAIN found : found[code]} \cup _validate_data_service(m)

_is_movement_blocking_validation(code) ==
    code \notin {"production_missing_verification", "service_missing_image", "route_domain_conflict"}

\* The blockers of an export plan.
export_plan(m) ==
    IF m = NoManifest THEN {"manifest_unresolved"}
    ELSE {code \in pack_validation_report(m) : _is_movement_blocking_validation(code)}
    \cup {code \in {"release_missing"} : packRelease = NoRelease}
    \cup {code \in {"critical_inferred"} : m.critical /\ m.postgres = "inferred"}
    \cup {code \in {"external_symlink"} : external}

\* What the token binds: environment, release, data contracts, the Postgres flag.
export_plan_token(m, pg) ==
    IF m = NoManifest THEN <<"export", pg>>
    ELSE <<"export", m.environment, packRelease, m.volumes, m.postgres, m.backups, pg>>

\* The targets a fresh install resets: the host path of a volume that declares
\* one, its named Docker volume otherwise.
_fresh_install_reset_targets(m) ==
    [v \in DOMAIN m.volumes |-> IF m.volumes[v] = "host" THEN "source" ELSE "docker"]

\* flags: --non-live --fresh-start-allowed; skip: --skip-pre-reset-export.
fresh_install_plan(m, flags, skip) ==
    IF m = NoManifest THEN {"manifest_unresolved"}
    ELSE {code \in {"fresh_install_not_allowed"} : ~((~m.live /\ m.resettable) \/ flags)}
    \cup {code \in {"no_declared_volumes"} : m.volumes = << >>}
    \cup {code \in {"unsafe_reset_path"} : m.unsafePath}
    \cup {code \in {"pre_reset_export_blocked"} : ~skip /\ export_plan(m) # {}}

FreshToken(m, skip) ==
    IF m = NoManifest THEN <<"fresh", skip>>
    ELSE <<"fresh", m.environment, m.path, skip, _fresh_install_reset_targets(m)>>

\* The first place that exists: the declared source, then a directory below the
\* runtime root; with neither, the Docker volume.
_volume_source(m, v) ==
    CASE m.volumes[v] = "host" /\ stored[v].source # NoPlace -> "source"
      [] stored[v].runtime # NoPlace                         -> "runtime"
      [] stored[v].docker # NoPlace                          -> "docker"
      [] OTHER                                              -> NoPlace

-----------------------------------------------------------------------------
(* Writing an export bundle.                                               *)

OpenBundle(m, pg) ==
    [manifest |-> m, archives |-> << >>, postgres |-> "none", include |-> pg,
     status |-> "open", closed |-> FALSE, fresh |-> TRUE]

\* ship app export plan, ship app fresh-install plan: only print a token.
PlanExport ==
    /\ shown' = export_plan_token(resolve_app_manifest(catalog), FALSE)
    /\ UNCHANGED <<catalog, stored, packRelease, external, bundles, evidence, packer, wiped, changes>>

PlanFreshInstall(skip) ==
    /\ shown' = FreshToken(resolve_app_manifest(catalog), skip)
    /\ UNCHANGED <<catalog, stored, packRelease, external, bundles, evidence, packer, wiped, changes>>

StartExport(s, m, pg, op, skip) ==
    /\ Len(bundles) < MaxExports
    /\ bundles' = Append(bundles, OpenBundle(m, pg))
    /\ packer' = [packer EXCEPT ![s] =
           [pc |-> "copy", op |-> op, manifest |-> m, skip |-> skip,
            bundle |-> Len(bundles) + 1, todo |-> SetToSeq(DOMAIN m.volumes), ok |-> TRUE]]

\* Plan again, compare the token, make the bundle directory and its metadata.
export_create(s, pg) ==
    LET m == resolve_app_manifest(catalog) IN
    /\ packer[s].pc = "idle"
    /\ export_plan(m) = {} /\ shown = export_plan_token(m, pg)
    /\ StartExport(s, m, pg, "export", FALSE)
    /\ UNCHANGED <<catalog, stored, packRelease, external, evidence, shown, wiped, changes>>

\* A symlink that appeared since the plan raises out of the command and leaves
\* the bundle directory without a receipt.
_copy_export_runtime_files(s) ==
    /\ packer[s].pc = "copy"
    /\ packer' = [packer EXCEPT ![s] = IF external THEN IdlePacker ELSE [@ EXCEPT !.pc = "archive"]]
    /\ UNCHANGED <<catalog, stored, packRelease, external, bundles, evidence, shown, wiped, changes>>

\* A directory is always archived; tar inside a helper container may fail.
ArchiveOutcomes(place) ==
    CASE place = NoPlace   -> {"source_unresolved"}
      [] place = "docker" -> {"archived", "archive_failed"}
      [] OTHER            -> {"archived"}

_create_data_archives(s) ==
    /\ packer[s].pc = "archive" /\ packer[s].todo # << >>
    /\ LET v     == Head(packer[s].todo)
           place == _volume_source(packer[s].manifest, v)
       IN  \E status \in ArchiveOutcomes(place) :
               bundles' = [bundles EXCEPT ![packer[s].bundle].archives = @ @@ (v :>
                   [status  |-> status, place |-> place,
                    content |-> IF place = NoPlace THEN 0 ELSE stored[v][place]])]
    /\ packer' = [packer EXCEPT ![s].todo = Tail(@)]
    /\ UNCHANGED <<catalog, stored, packRelease, external, evidence, shown, wiped, changes>>

\* pg_dump runs only on request; every way it can fail is a record that is not
\* "dumped".
_create_postgres_exports(s) ==
    /\ packer[s].pc = "archive" /\ packer[s].todo = << >>
    /\ \E outcome \in IF packer[s].manifest.postgres = "none" THEN {"none"}
                      ELSE IF ~bundles[packer[s].bundle].include THEN {"not_requested"}
                      ELSE {"dumped", "pg_dump_failed"} :
           bundles' = [bundles EXCEPT ![packer[s].bundle].postgres = outcome]
    /\ packer' = [packer EXCEPT ![s].pc = "close"]
    /\ UNCHANGED <<catalog, stored, packRelease, external, evidence, shown, wiped, changes>>

ReceiptStatus(b) ==
    LET data_failed     == \/ b.manifest.static = "missing"
                           \/ \E v \in DOMAIN b.archives : b.archives[v].status # "archived"
        postgres_failed == b.include /\ b.postgres = "pg_dump_failed"
    IN  IF data_failed \/ postgres_failed THEN "failed" ELSE "succeeded"

\* receipts/export-create.json, the checksums and the tar archive.
CloseBundle(s) ==
    /\ packer[s].pc = "close"
    /\ bundles' = [bundles EXCEPT ![packer[s].bundle] =
           [@ EXCEPT !.closed = TRUE, !.status = ReceiptStatus(bundles[packer[s].bundle])]]
    /\ packer' = [packer EXCEPT ![s].pc = "receipt"]
    /\ UNCHANGED <<catalog, stored, packRelease, external, evidence, shown, wiped, changes>>

Store(operation, status, b) ==
    evidence' = Append(evidence, [operation |-> operation, status |-> status, bundle |-> b])

\* Faulty variant: any finished export lets the reset go ahead.
ResetAnyway(s) ==
    /\ packer[s].pc = "receipt"
    /\ Store("app.export.create", bundles[packer[s].bundle].status, packer[s].bundle)
    /\ packer' = [packer EXCEPT ![s] =
           IF @.op = "fresh"
           THEN [@ EXCEPT !.pc = "reset", !.todo = SetToSeq(DOMAIN packer[s].manifest.volumes)]
           ELSE IdlePacker]
    /\ UNCHANGED <<catalog, stored, packRelease, external, bundles, shown, wiped, changes>>

\* The receipt below the runtime root, last.  A fresh install goes on to the
\* reset only when the export it made succeeded.
StoreExportReceipt(s) ==
    /\ packer[s].pc = "receipt"
    /\ Store("app.export.create", bundles[packer[s].bundle].status, packer[s].bundle)
    /\ packer' = [packer EXCEPT ![s] =
           IF @.op = "fresh" /\ bundles[@.bundle].status = "succeeded"
           THEN [@ EXCEPT !.pc = "reset", !.todo = SetToSeq(DOMAIN packer[s].manifest.volumes)]
           ELSE IdlePacker]
    /\ UNCHANGED <<catalog, stored, packRelease, external, bundles, shown, wiped, changes>>

-----------------------------------------------------------------------------
(* Fresh install, import rehearsal.                                        *)

Resets == Cardinality({i \in DOMAIN evidence : evidence[i].operation = "app.fresh-install.apply"})
          + Cardinality({s \in Packers : packer[s].pc # "idle" /\ packer[s].op = "fresh"})

\* Plan again, compare the token, then either export first (with a token the
\* command makes for itself) or go straight to the reset.
fresh_install_apply(s, flags, skip) ==
    LET m == resolve_app_manifest(catalog) IN
    /\ packer[s].pc = "idle" /\ Resets < MaxResets
    /\ fresh_install_plan(m, flags, skip) = {} /\ shown = FreshToken(m, skip)
    /\ IF skip
       THEN /\ packer' = [packer EXCEPT ![s] =
                   [pc |-> "reset", op |-> "fresh", manifest |-> m, skip |-> TRUE, bundle |-> 0,
                    todo |-> SetToSeq(DOMAIN m.volumes), ok |-> TRUE]]
            /\ UNCHANGED bundles
       ELSE StartExport(s, m, FALSE, "fresh", FALSE)
    /\ UNCHANGED <<catalog, stored, packRelease, external, evidence, shown, wiped, changes>>

\* What is left in the place, and whether the reset reports success: the rm of a
\* directory may stop half way, a Docker volume may be busy, or gone for good
\* when it cannot be created again.
ResetOutcomes(place, content) ==
    IF place = "source" THEN {<<0, TRUE>>, <<0, FALSE>>, <<content, FALSE>>}
    ELSE {<<0, TRUE>>, <<content, FALSE>>, <<NoPlace, FALSE>>}

_reset_fresh_install_target(s) ==
    /\ packer[s].pc = "reset" /\ packer[s].todo # << >>
    /\ LET v     == Head(packer[s].todo)
           place == _fresh_install_reset_targets(packer[s].manifest)[v]
           had   == stored[v][place]
       IN  \E outcome \in ResetOutcomes(place, had) :
               /\ stored' = [stored EXCEPT ![v][place] = outcome[1]]
               /\ wiped' = IF outcome[1] = had \/ had = NoPlace THEN wiped
                           ELSE wiped \cup {[volume |-> v, place |-> place, content |-> had,
                                             bundle |-> packer[s].bundle]}
               /\ packer' = [packer EXCEPT ![s] = [@ EXCEPT !.todo = Tail(@), !.ok = @ /\ outcome[2]]]
    /\ UNCHANGED <<catalog, packRelease, external, bundles, evidence, shown, changes>>

FinishFreshInstall(s) ==
    /\ packer[s].pc = "reset" /\ packer[s].todo = << >>
    /\ \E verified \in BOOLEAN :
           Store("app.fresh-install.apply", IF packer[s].ok /\ verified THEN "succeeded" ELSE "failed",
                 packer[s].bundle)
    /\ packer' = [packer EXCEPT ![s] = IdlePacker]
    /\ UNCHANGED <<catalog, stored, packRelease, external, bundles, shown, wiped, changes>>

\* Metadata is in the directory from the first step on, so a bundle whose export
\* was killed can be rehearsed too.  Nothing but a preview is written.
import_plan(b) == b \in DOMAIN bundles

import_apply(s, b) ==
    /\ packer[s].pc = "idle" /\ import_plan(b)
    /\ \A i \in DOMAIN evidence : evidence[i].operation # "app.import.apply"
    /\ Store("app.import.apply", "succeeded", b)
    /\ UNCHANGED <<catalog, stored, packRelease, external, bundles, packer, shown, wiped, changes>>

-----------------------------------------------------------------------------
(* The environment: kills, the running app, the operator.                  *)

KillPacker(s) ==
    /\ packer[s].pc # "idle" /\ changes < MaxChanges
    /\ packer' = [packer EXCEPT ![s] = IdlePacker]
    /\ changes' = changes + 1
    /\ UNCHANGED <<catalog, stored, packRelease, external, bundles, evidence, shown, wiped>>

\* The app writes where Compose mounted the volume.
AppWrites(v) ==
    LET m     == resolve_app_manifest(catalog)
        place == IF m # NoManifest /\ v \in DOMAIN m.volumes
                 THEN _fresh_install_reset_targets(m)[v] ELSE "docker"
    IN  /\ changes < MaxChanges /\ stored[v][place] # NoPlace
        /\ stored' = [stored EXCEPT ![v][place] = @ + 1]
        /\ changes' = changes + 1
        /\ UNCHANGED <<catalog, packRelease, external, bundles, evidence, packer, shown, wiped>>

OperatorChanges ==
    /\ changes < MaxChanges
    /\ changes' = changes + 1
    /\ \/ catalog' \in Catalogs /\ UNCHANGED <<packRelease, external>>
       \/ packRelease' = (IF packRelease = NoRelease THEN 1 ELSE packRelease + 1)
          /\ UNCHANGED <<catalog, external>>
       \/ external' = ~external /\ UNCHANGED <<catalog, packRelease>>
    /\ UNCHANGED <<stored, bundles, evidence, packer, shown, wiped>>

PackInit ==
    /\ catalog \in Catalogs /\ stored \in StoredAtFirst
    /\ packRelease \in {NoRelease, 1} /\ external = FALSE
    /\ bundles = << >> /\ evidence = << >> /\ wiped = {} /\ changes = 0
    /\ packer = [s \in Packers |-> IdlePacker] /\ shown = NoPlanShown

PackNext ==
    \/ PlanExport \/ \E skip \in BOOLEAN : PlanFreshInstall(skip)
    \/ \E s \in Packers :
          \/ \E pg \in BOOLEAN : export_create(s, pg)
          \/ \E flags, skip \in BOOLEAN : fresh_install_apply(s, flags, skip)
          \/ _copy_export_runtime_files(s) \/ _create_data_archives(s) \/ _create_postgres_exports(s)
          \/ CloseBundle(s) \/ StoreExportReceipt(s)
          \/ _reset_fresh_install_target(s) \/ FinishFreshInstall(s)
          \/ \E b \in DOMAIN bundles : import_apply(s, b)
          \/ KillPacker(s)
    \/ \E v \in Volumes : AppWrites(v)
    \/ OperatorChanges

-----------------------------------------------------------------------------
(* What a reset destroys has been exported: unless the operator skipped the *)
(* export, every volume a fresh install empties is archived in a bundle of  *)
(* the same command that closed as succeeded, and (no directory of the same *)
(* name lying below the runtime root, which the export would prefer) the    *)
(* archive was taken from the very place that was emptied.  What the app    *)
(* wrote between the export and the reset is not in it.                     *)
ResetIsPreserved ==
    \A w \in wiped : w.bundle # 0 =>
        /\ bundles[w.bundle].status = "succeeded"
        /\ w.volume \in DOMAIN bundles[w.bundle].archives
        /\ stored[w.volume].runtime = NoPlace =>
              LET archive == bundles[w.bundle].archives[w.volume]
              IN  archive.place = w.place /\ archive.content =< w.content

-----------------------------------------------------------------------------
(* What makes an app ready to be moved: backups (backup.py), their         *)
(* verification (restore_verification.py), restore drills, the readiness   *)
(* report and the cutover checkpoint (portability.py).  The export bundles *)
(* count as backups, the same ship processes run the commands, and         *)
(* everything below the runtime root is shared.                            *)
(*                                                                         *)
(* A backup of backup.py copies runtime files and never a data volume; its *)
(* directory is listed once backup-manifest.json is written.               *)
CONSTANTS
    EnvFiles,           \* contents the runtime env file may have: [keys -> {"set", "placeholder"}]
    MaxBackups,         \* bound: backups created
    MaxEvidence         \* bound: receipts stored

VARIABLES
    backups,            \* listed backups, oldest first: fresh or not
    envFile             \* the runtime env file

backupVars == <<packVars, backups, envFile>>

-----------------------------------------------------------------------------
(* Reports.                                                                *)

\* Faulty variant: the presence of a receipt is enough.
EligibleIfClosed(b) == b.closed

\* An export bundle is a backup when its own receipt says so.
_export_receipt_is_backup_eligible(b) ==
    /\ b.closed /\ b.status = "succeeded"
    /\ \A v \in DOMAIN b.archives : b.archives[v].status = "archived"
    /\ b.include => b.postgres = "dumped" \/ b.manifest.postgres = "none"

_export_backup_records == SelectSeq(bundles, _export_receipt_is_backup_eligible)

\* Both kinds are sorted by creation time; only the newest record is looked at.
\* A record is fresh until time passes, so the newest is fresh if any is.
_freshness_status ==
    CASE backups = << >> /\ _export_backup_records = << >> -> "missing"
      [] \/ \E i \in DOMAIN backups : backups[i].fresh
         \/ \E i \in DOMAIN _export_backup_records : _export_backup_records[i].fresh -> "fresh"
      [] OTHER -> "stale"

backup_status_report(m) ==
    {code \in {"backup_not_fresh"} : m.backups.required /\ _freshness_status \in {"missing", "stale"}}

env_shape_diff_report(m) ==
    {code \in {"env_key_missing"} : ~(m.keys \subseteq DOMAIN envFile)}
    \cup {code \in {"env_key_placeholder"} : \E k \in m.keys \cap DOMAIN envFile : envFile[k] = "placeholder"}

\* Any drill receipt counts, also one of a drill that failed.
_restore_drill_receipts ==
    SelectSeq(evidence, LAMBDA r : r.operation = "app.restore-drill.apply")

_latest_successful_backup_verification ==
    \E i \in DOMAIN evidence :
        evidence[i].operation = "backup.verify.apply" /\ evidence[i].status = "succeeded"

\* The blockers of the readiness report.
app_readiness_report(m) ==
    IF m = NoManifest THEN {"manifest_unresolved"}
    ELSE pack_validation_report(m) \cup env_shape_diff_report(m) \cup backup_status_report(m)
         \cup {code \in {"release_missing"} : packRelease = NoRelease}
         \cup {code \in {"restore_drill_missing"} :
                  /\ m.backups.drill
                  /\ _restore_drill_receipts = << >> /\ ~_latest_successful_backup_verification}

-----------------------------------------------------------------------------
(* Commands.                                                               *)

Record(operation, status, b) ==
    Len(evidence) < MaxEvidence /\ Store(operation, status, b)

\* backup_plan has no blocker and the token fits; then the files are copied.
create_backup(s) ==
    /\ packer[s].pc = "idle" /\ Len(backups) < MaxBackups
    /\ packRelease # NoRelease /\ ~external
    /\ packer' = [packer EXCEPT ![s] = [pc |-> "backup", op |-> "backup"]]
    /\ UNCHANGED <<catalog, stored, packRelease, external, bundles, evidence, shown, wiped, changes, backups, envFile>>

\* A link found while copying blocks the command; otherwise the manifest makes
\* the backup visible.
WriteBackupManifest(s) ==
    /\ packer[s].pc = "backup"
    /\ backups' = IF external THEN backups ELSE Append(backups, [fresh |-> TRUE])
    /\ packer' = [packer EXCEPT ![s] = IdlePacker]
    /\ UNCHANGED <<catalog, stored, packRelease, external, bundles, evidence, shown, wiped, changes, envFile>>

\* Verification reads checksums.sha256, which create_backup does not write: a
\* critical pack is refused, any other passes with a warning.
_checksum_check(m) == m = NoManifest \/ ~m.critical

backup_verify_apply(s) ==
    LET m == resolve_app_manifest(catalog) IN
    /\ packer[s].pc = "idle" /\ m # NoManifest /\ backups # << >>
    /\ Record("backup.verify.apply", IF _checksum_check(m) THEN "succeeded" ELSE "failed", 0)
    /\ UNCHANGED <<catalog, stored, packRelease, external, bundles, packer, shown, wiped, changes, backups, envFile>>

\* Readiness, less the missing drill itself, gates the plan.
restore_drill_plan(m, b) ==
    (app_readiness_report(m) \ {"restore_drill_missing"}) \cup {code \in {"source"} : ~import_plan(b)}

_restore_drill_artifact_checks(b) ==
    \/ \E v \in DOMAIN bundles[b].archives : bundles[b].archives[v].status = "archived"
    \/ bundles[b].postgres = "dumped"

\* Every volume with a verify command is extracted and handed to the command.
_run_volume_verify_commands(m, b) ==
    \A v \in m.commands : v \in DOMAIN bundles[b].archives /\ bundles[b].archives[v].status = "archived"

restore_drill_apply(s, b) ==
    LET m == resolve_app_manifest(catalog) IN
    /\ packer[s].pc = "idle" /\ restore_drill_plan(m, b) = {}
    /\ \E passes \in BOOLEAN :
           /\ m.commands = {} => passes
           /\ Record("app.restore-drill.apply",
                     IF _restore_drill_artifact_checks(b) /\ _run_volume_verify_commands(m, b) /\ passes
                     THEN "succeeded" ELSE "failed", b)
    /\ UNCHANGED <<catalog, stored, packRelease, external, bundles, packer, shown, wiped, changes, backups, envFile>>

\* The checkpoint before traffic is moved by hand.
cutover_plan(m) == app_readiness_report(m)

cutover_apply(s) ==
    /\ packer[s].pc = "idle"
    /\ cutover_plan(resolve_app_manifest(catalog)) = {}
    /\ Record("app.cutover.apply", "succeeded", 0)
    /\ UNCHANGED <<catalog, stored, packRelease, external, bundles, packer, shown, wiped, changes, backups, envFile>>

\* A day goes by.
TimePasses ==
    /\ changes < MaxChanges
    /\ changes' = changes + 1
    /\ bundles' = [i \in DOMAIN bundles |-> [bundles[i] EXCEPT !.fresh = FALSE]]
    /\ backups' = [i \in DOMAIN backups |-> [fresh |-> FALSE]]
    /\ UNCHANGED <<catalog, stored, packRelease, external, evidence, packer, shown, wiped, envFile>>

EvidenceInit ==
    PackInit /\ backups = << >> /\ envFile \in EnvFiles

EvidenceNext ==
    \/ PackNext /\ UNCHANGED <<backups, envFile>>
    \/ \E s \in Packers :
          \/ create_backup(s) \/ WriteBackupManifest(s) \/ backup_verify_apply(s)
          \/ \E b \in DOMAIN bundles : restore_drill_apply(s, b)
          \/ cutover_apply(s)
    \/ TimePasses

-----------------------------------------------------------------------------
\* A finished copy: every declared volume in a bundle that closed clean, or the
\* runtime files in a listed backup.
FinishedCopy(m) ==
    \/ \E b \in Range(bundles) :
          /\ b.closed /\ b.fresh /\ b.status = "succeeded"
          /\ \A v \in DOMAIN b.manifest.volumes :
                v \in DOMAIN b.archives /\ b.archives[v].status = "archived"
    \/ \E i \in DOMAIN backups : backups[i].fresh

(* A cutover checkpoint is recorded as succeeded only while, for an app     *)
(* whose manifest requires backups, a finished copy no older than the       *)
(* threshold exists, and, where a drill is required, some bundle or backup  *)
(* has been rehearsed: an export killed half way or closed as failed never  *)
(* counts (cutover_apply, app_readiness_report, _export_backup_records).    *)
CutoverIsBackedUp ==
    [][LET m == resolve_app_manifest(catalog) IN
       Len(evidence') > Len(evidence) /\ Last(evidence').operation = "app.cutover.apply"
         => /\ m.backups.required => FinishedCopy(m)
            /\ m.backups.drill =>
                  \E r \in Range(evidence) :
                      r.operation \in {"app.restore-drill.apply", "backup.verify.apply"}]_evidence
=============================================================================
