---------------------------- MODULE LegacyRuntime ----------------------------
(***************************************************************************)
(* The compatibility path of a deployment: the files ship deploy, rollback *)
(* and gc keep for one app under the runtime root (runtime.py, rollback.py,*)
(* gc.py), the reviewed plans of planning.py and execution/staging.py, and *)
(* the sequence commands/deploy.py runs.  No lock guards these files: one  *)
(* command changes them at a time, is killed anywhere, and plans are made  *)
(* at any moment, also while it runs.                                      *)
(*                                                                         *)
(* A release stands for its id and for the rendered bundle it names.  Of a *)
(* file only which release wrote it is kept, of release.json also whether  *)
(* it says applied and verified and which command wrote it (its            *)
(* timestamps): the digests of the code tell apart exactly that.           *)
(***************************************************************************)
EXTENDS Integers, FiniteSets, FiniteSetsExt

CONSTANTS
    Releases,           \* release ids, positive numbers in the order of their names
    Production,         \* those whose manifest says production
    Static,             \* those that publish static assets; the others run containers
    Support,            \* [Releases -> the support files (env.d, artifacts) of the bundle]
    Standing,           \* releases the host may start with, 0 for none
    Placeholders,       \* releases whose env.example holds placeholder values
    PlanIds, NoPlanId,  \* operation ids of deploy plans
    Keep,               \* bundles the garbage collector always keeps (5 in gc.py)
    Attempts,           \* verification attempts
    MaxCommands         \* bound: commands started

ASSUME LegacyConstants ==
    /\ Releases \subseteq Nat \ {0} /\ Production \subseteq Releases
    /\ Standing \subseteq Releases \cup {0}
    /\ NoPlanId \notin PlanIds

VARIABLES
    files,              \* the app directory: [bundle, support, env]
    current,            \* release.json: [id, applied, verified, by], id 0 when missing
    active,             \* active_release.json, likewise
    records,            \* the ids that have a releases/<id>.json
    snapshots,          \* release-bundles/<id>
    site,               \* the release whose Caddy file is staged
    serving,            \* the release whose containers or assets are served
    published,          \* static releases on disk
    plans,              \* [PlanIds -> deploy plan]
    token,              \* the confirmation token of a rollback or gc plan the operator holds
    command,            \* the command being run
    ordered             \* commands started

legacyVars == <<files, current, active, records, snapshots, site, serving, published,
                plans, token, command, ordered>>

NoRecord == [id |-> 0, applied |-> FALSE, verified |-> "none", by |-> 0]
NoDeployPlan == [state |-> "none"]
Idle == [op |-> "none", at |-> "done", release |-> 0, plan |-> NoPlanId, attempt |-> 0, doomed |-> {}]

-----------------------------------------------------------------------------
(* Reading the files.                                                      *)

\* active_release.json, or release.json when that is missing and says applied.
active_release == IF active.id # 0 THEN active ELSE IF current.applied THEN current ELSE NoRecord

current_release_id == IF active_release.id # 0 THEN active_release.id ELSE current.id

\* What the bundle of the active release holds, nothing when it is gone.
active_support_paths ==
    IF active_release.id \in snapshots THEN Support[active_release.id] ELSE {}

\* Everything a reviewed deploy may replace; the env file is left out on purpose.
deployment_baseline_digest ==
    <<files.bundle, files.support, current, active, site,
      IF serving \in Static THEN serving ELSE 0>>

\* env.example is copied when there is no env file yet.
EnvOf(r) == IF files.env # "missing" THEN files.env
            ELSE IF r \in Placeholders THEN "placeholder" ELSE "filled"

-----------------------------------------------------------------------------
(* Plans.                                                                  *)

deploy_confirmation_payload(r) ==
    [state |-> "open", release |-> r, baseline |-> deployment_baseline_digest, replaced |-> FALSE]

\* deploy_plan stages a candidate and binds it to the live baseline.  A plan
\* that policy blocks gets no token and is never found again.
deploy_plan(p, r) ==
    /\ plans[p] = NoDeployPlan /\ r \in Production
    /\ plans' = [plans EXCEPT ![p] = deploy_confirmation_payload(r)]
    /\ UNCHANGED <<files, current, active, records, snapshots, site, serving, published,
                   token, command, ordered>>

\* The confirmation is good for fifteen minutes.
ConfirmationExpires(p) ==
    /\ plans[p].state = "open" /\ command.plan # p
    /\ plans' = [plans EXCEPT ![p] = IF @.replaced THEN [@ EXCEPT !.state = "applied"] ELSE NoDeployPlan]
    /\ UNCHANGED <<files, current, active, records, snapshots, site, serving, published,
                   token, command, ordered>>

\* Faulty variant: the plan's own files are checked, the live state is not.
VerifyStaged(p) == TRUE

\* The staged plan was reviewed against the state found now.  Nothing writes in
\* the private staging tree, so the digests of its own files still match.
_verify_binding(p) == plans[p].baseline = deployment_baseline_digest

\* One plan carries the token, is not consumed, and has not expired.
find_confirmed_staging(p) == plans[p].state = "open" /\ _verify_binding(p)

\* rollback_plan binds the current release and the target, not their contents.
rollback_plan(r) ==
    /\ command = Idle
    /\ r \in records \cap snapshots
    /\ token' = <<"rollback", current_release_id, r>>
    /\ UNCHANGED <<files, current, active, records, snapshots, site, serving, published,
                   plans, command, ordered>>

\* The releases kept by name, and those a record names.
Newest(s) == {r \in s : Cardinality({q \in s : q > r}) < Keep}

\* Faulty variant: only release.json protects its release.
ProtectedByLatest == {current.id}

_protected_release_ids == {current.id, active.id}

gc_candidates ==
    [bundles |-> snapshots \ (Newest(snapshots) \cup _protected_release_ids),
     assets |-> published \ (Newest(published) \cup _protected_release_ids
                             \cup {IF serving \in Static THEN serving ELSE 0})]

gc_plan ==
    /\ command = Idle
    /\ gc_candidates # [bundles |-> {}, assets |-> {}]
    /\ token' = <<"gc", gc_candidates.bundles, gc_candidates.assets>>
    /\ UNCHANGED <<files, current, active, records, snapshots, site, serving, published,
                   plans, command, ordered>>

-----------------------------------------------------------------------------
(* Starting a command.                                                     *)

Start(op, at, r, p, doomed) ==
    /\ command = Idle /\ ordered < MaxCommands
    /\ ordered' = ordered + 1
    /\ command' = [op |-> op, at |-> at, release |-> r, plan |-> p, attempt |-> 0, doomed |-> doomed]
    /\ UNCHANGED <<files, current, active, records, snapshots, site, serving, published, plans, token>>

\* ship deploy without --apply: the bundle is only written.
StartStage(r) == Start("stage", "write", r, NoPlanId, {})

\* Outside production no confirmation is asked for.
StartApply(r) == r \notin Production /\ Start("apply", "write", r, NoPlanId, {})

\* Everything preflight_confirmed_candidate refuses is refused before a file is
\* written: an env file with placeholders, or a release id already used.
preflight_confirmed_candidate(p) ==
    /\ _verify_binding(p)
    /\ EnvOf(plans[p].release) = "filled"
    /\ plans[p].release \notin snapshots

StartConfirmed(p) ==
    /\ find_confirmed_staging(p)
    /\ preflight_confirmed_candidate(p)
    /\ Start("apply", "write", plans[p].release, p, {})

\* apply_rollback makes the plan again and compares the token.
StartRollback(r) ==
    /\ r \in records \cap snapshots
    /\ <<"rollback", current_release_id, r>> = token
    /\ Start("rollback", "restore", r, NoPlanId, {})

StartGc ==
    /\ <<"gc", gc_candidates.bundles, gc_candidates.assets>> = token
    /\ Start("gc", "delete", 0, NoPlanId, {gc_candidates})

StartVerify ==
    /\ current.id # 0
    /\ Start("verify", "verify", current.id, NoPlanId, {})

-----------------------------------------------------------------------------
(* The steps of a command.                                                 *)

At(step) == command.at = step
Goto(step) == command' = [command EXCEPT !.at = step]
Finish == command' = Idle

\* Files the new release does not have go, except those the active one needs.
remove_stale_support_files(present, preserve) == present \cap preserve

\* Rendered files and support files are written over the old ones.
Materialize ==
    /\ files' = [bundle |-> command.release,
                 support |-> remove_stale_support_files(
                                files.support \cup Support[command.release],
                                Support[command.release] \cup active_support_paths),
                 env |-> EnvOf(command.release)]
    /\ Goto("snapshot")
    /\ UNCHANGED <<current, active, records, snapshots, site, serving, published, plans, token, ordered>>

deploy_bundle == At("write") /\ command.plan = NoPlanId /\ Materialize

deploy_confirmed_candidate == At("write") /\ command.plan # NoPlanId /\ Materialize

\* The copy a rollback restores, and the record of the release.
WriteSnapshot ==
    /\ At("snapshot")
    /\ snapshots' = snapshots \cup {command.release}
    /\ records' = records \cup {command.release}
    /\ Goto("record")
    /\ UNCHANGED <<files, current, active, site, serving, published, plans, token, ordered>>

WriteRecord ==
    /\ At("record")
    /\ current' = [id |-> command.release, applied |-> FALSE, verified |-> "none", by |-> ordered]
    /\ plans' = IF command.plan = NoPlanId THEN plans
                ELSE [plans EXCEPT ![command.plan].replaced = TRUE]
    /\ IF command.op = "stage" THEN Finish ELSE Goto("env_validation")
    /\ UNCHANGED <<files, active, records, snapshots, site, serving, published, token, ordered>>

-----------------------------------------------------------------------------
(* The phases of apply_local_bundle.                                       *)

Phases == {"env_validation", "image_pull", "container_health", "caddy_reload", "static_assets_publish"}

\* Whichever release release.json names at the moment is updated.
_update_current_release(applied, verified) ==
    current' = [current EXCEPT !.applied = applied, !.verified = verified, !.by = ordered]

\* A phase that raises ends the command: the record says failed, and whatever
\* the earlier phases did stays, containers that went down included.
PhaseFails ==
    /\ command.at \in Phases
    /\ At("env_validation") => files.env # "filled"
    /\ _update_current_release(FALSE, current.verified)
    /\ Finish
    /\ \/ UNCHANGED <<serving, published>>
       \/ At("container_health") /\ serving' = 0 /\ UNCHANGED published
       \/ At("static_assets_publish") /\ published' = published \cup {current.id} /\ UNCHANGED serving
    /\ UNCHANGED <<files, active, records, snapshots, site, plans, token, ordered>>

\* Placeholders in the env file end the apply; then the edge keys are copied.
env_validation ==
    /\ At("env_validation") /\ files.env = "filled"
    /\ Goto("caddy_stage")
    /\ UNCHANGED <<files, current, active, records, snapshots, site, serving, published, plans, token, ordered>>

caddy_stage ==
    /\ At("caddy_stage")
    /\ site' = files.bundle
    /\ Goto(IF command.release \in Static THEN "caddy_reload" ELSE "image_pull")
    /\ UNCHANGED <<files, current, active, records, snapshots, serving, published, plans, token, ordered>>

\* A pull that is refused is forgiven when every image is there already.
_pull_or_use_local_images ==
    /\ At("image_pull")
    /\ Goto("container_health")
    /\ UNCHANGED <<files, current, active, records, snapshots, site, serving, published, plans, token, ordered>>

_run_compose_up ==
    /\ At("container_health")
    /\ serving' = files.bundle
    /\ Goto("caddy_reload")
    /\ UNCHANGED <<files, current, active, records, snapshots, site, published, plans, token, ordered>>

\* The global options, then validation and reload of the running Caddy.
caddy_reload ==
    /\ At("caddy_reload")
    /\ Goto(IF command.release \in Static THEN "static_assets_publish" ELSE "complete")
    /\ UNCHANGED <<files, current, active, records, snapshots, site, serving, published, plans, token, ordered>>

\* The snapshot's assets under the id of release.json, then the current link.
publish_static_assets ==
    /\ At("static_assets_publish")
    /\ published' = published \cup {current.id}
    /\ serving' = current.id
    /\ Goto("complete")
    /\ UNCHANGED <<files, current, active, records, snapshots, site, plans, token, ordered>>

apply_local_bundle ==
    \/ env_validation \/ caddy_stage \/ _pull_or_use_local_images \/ _run_compose_up
    \/ caddy_reload \/ publish_static_assets \/ PhaseFails

\* release.json and its historical copy say applied, then it becomes active.
update_current_release_apply ==
    /\ At("complete")
    /\ _update_current_release(TRUE, current.verified)
    /\ Goto("activate")
    /\ UNCHANGED <<files, active, records, snapshots, site, serving, published, plans, token, ordered>>

_write_active_release ==
    /\ At("activate")
    /\ active' = current
    /\ Goto("cleanup")
    /\ UNCHANGED <<files, current, records, snapshots, site, serving, published, plans, token, ordered>>

\* Support files of releases that are no longer active are removed; a confirmed
\* plan is then marked consumed, and --verify runs.
cleanup_inactive_support_files ==
    /\ At("cleanup")
    /\ files' = [files EXCEPT !.support = remove_stale_support_files(@, Support[active_release.id])]
    /\ CASE command.op = "rollback" -> Finish
         [] command.plan # NoPlanId -> Goto("consume")
         [] OTHER -> Goto("verify")
    /\ UNCHANGED <<current, active, records, snapshots, site, serving, published, plans, token, ordered>>

consume_confirmed_staging ==
    /\ At("consume")
    /\ plans' = [plans EXCEPT ![command.plan].state = "applied"]
    /\ Goto("verify")
    /\ UNCHANGED <<files, current, active, records, snapshots, site, serving, published, token, ordered>>

\* What a verification found goes on release.json, whichever release that names,
\* and on the active record when it is the same release.
update_current_release_verification(ok) ==
    /\ _update_current_release(current.applied, IF ok THEN "passed" ELSE "failed")
    /\ active' = IF active_release.id = current.id THEN current' ELSE active

\* Certificates first, then the checks; every attempt starts over.
run_verifications ==
    /\ At("verify")
    /\ \E tls \in BOOLEAN, checks \in BOOLEAN :
          IF ~(tls /\ checks) /\ command.attempt + 1 < Attempts
          THEN command' = [command EXCEPT !.attempt = @ + 1] /\ UNCHANGED <<current, active>>
          ELSE update_current_release_verification(tls /\ checks) /\ Finish
    /\ UNCHANGED <<files, records, snapshots, site, serving, published, plans, token, ordered>>

-----------------------------------------------------------------------------
\* A rollback copies the files of the snapshot back and points both records at
\* its release; containers and published assets stay as they are.
RestoreFiles ==
    /\ At("restore")
    /\ files' = [files EXCEPT !.bundle = command.release, !.support = @ \cup Support[command.release]]
    /\ Goto("restore_site")
    /\ UNCHANGED <<current, active, records, snapshots, site, serving, published, plans, token, ordered>>

_restore_shared_caddy ==
    /\ At("restore_site")
    /\ site' = command.release
    /\ Goto("point")
    /\ UNCHANGED <<files, current, active, records, snapshots, serving, published, plans, token, ordered>>

apply_rollback ==
    /\ At("point")
    /\ current' = [id |-> command.release, applied |-> TRUE, verified |-> "none", by |-> ordered]
    /\ Goto("activate")
    /\ UNCHANGED <<files, active, records, snapshots, site, serving, published, plans, token, ordered>>

\* One directory after the other.
apply_gc ==
    /\ At("delete")
    /\ LET doomed == CHOOSE c \in command.doomed : TRUE IN
       \/ \E r \in doomed.bundles :
             /\ snapshots' = snapshots \ {r}
             /\ command' = [command EXCEPT !.doomed = {[doomed EXCEPT !.bundles = @ \ {r}]}]
             /\ UNCHANGED published
       \/ \E r \in doomed.assets :
             /\ doomed.bundles = {}
             /\ published' = published \ {r}
             /\ command' = [command EXCEPT !.doomed = {[doomed EXCEPT !.assets = @ \ {r}]}]
             /\ UNCHANGED snapshots
       \/ doomed = [bundles |-> {}, assets |-> {}] /\ Finish /\ UNCHANGED <<snapshots, published>>
    /\ UNCHANGED <<files, current, active, records, site, serving, plans, token, ordered>>

-----------------------------------------------------------------------------
\* The process is killed; what it wrote stays.
CommandKilled ==
    /\ command # Idle /\ Finish
    /\ UNCHANGED <<files, current, active, records, snapshots, site, serving, published, plans, token, ordered>>

\* The operator replaces the placeholders of the env file.
OperatorFillsEnv ==
    /\ files.env = "placeholder"
    /\ files' = [files EXCEPT !.env = "filled"]
    /\ UNCHANGED <<current, active, records, snapshots, site, serving, published, plans, token, command, ordered>>

\* A fresh host, or one where a standing release was applied cleanly.
LegacyInit ==
    \E r \in Standing :
        LET record == IF r = 0 THEN NoRecord
                      ELSE [id |-> r, applied |-> TRUE, verified |-> "none", by |-> 0] IN
        /\ files = [bundle |-> r, support |-> IF r = 0 THEN {} ELSE Support[r],
                    env |-> IF r = 0 THEN "missing" ELSE "filled"]
        /\ current = record /\ active = record
        /\ records = {r} \ {0}
        /\ snapshots = {r} \ {0} /\ published = {r} \cap Static /\ serving = r
        /\ site = r
        /\ plans = [p \in PlanIds |-> NoDeployPlan]
        /\ token = << >> /\ command = Idle /\ ordered = 0

DeployCommand ==
    \/ \E r \in Releases : StartStage(r) \/ StartApply(r)
    \/ \E p \in PlanIds : StartConfirmed(p)

LegacyNext ==
    \/ \E p \in PlanIds : ConfirmationExpires(p) \/ \E r \in Releases : deploy_plan(p, r)
    \/ \E r \in Releases : rollback_plan(r) \/ StartRollback(r)
    \/ DeployCommand \/ gc_plan \/ StartGc \/ StartVerify
    \/ deploy_bundle \/ deploy_confirmed_candidate \/ WriteSnapshot \/ WriteRecord
    \/ apply_local_bundle \/ update_current_release_apply \/ _write_active_release
    \/ cleanup_inactive_support_files \/ consume_confirmed_staging \/ run_verifications
    \/ RestoreFiles \/ _restore_shared_caddy \/ apply_rollback
    \/ apply_gc \/ CommandKilled \/ OperatorFillsEnv

-----------------------------------------------------------------------------
(* Two plans reviewed against the same live state never both replace it:   *)
(* the record the first one writes changes the digest the second is bound  *)
(* to, also when either command is killed, retried, or rolled back between *)
(* (_verify_binding, deployment_baseline_digest).                          *)
OnePlanPerBaseline ==
    \A p, q \in PlanIds :
        /\ p # q
        /\ plans[p].state # "none" /\ plans[p].replaced
        /\ plans[q].state # "none" /\ plans[q].replaced
        => plans[p].baseline # plans[q].baseline

(* The release that is active can always be restored and always finds its  *)
(* support files: staging another release, a failed or killed apply, a     *)
(* rollback and its cleanup, and garbage collection never take either      *)
(* (gc_plan, remove_stale_support_files, cleanup_inactive_support_files).  *)
ActiveIsKept ==
    active.id # 0 =>
        /\ active.id \in snapshots
        /\ Support[active.id] \subseteq files.support
=============================================================================
