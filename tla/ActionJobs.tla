----------------------------- MODULE ActionJobs -----------------------------
(***************************************************************************)
(* The job runner of the action API (actions.py).  A mutating action is    *)
(* first run dry, which issues a confirmation token derived from its plan; *)
(* the job that applies it presents the token.  Jobs of one app exclude    *)
(* each other by a lock file; the confirmation records, the job records    *)
(* and the index of idempotency keys are plain files written in place.     *)
(***************************************************************************)
EXTENDS Integers, FiniteSets

CONSTANTS
  Clients,        \* callers of run_job, one job at a time each
  Targets,        \* contents of the app; a plan's token is derived from them
  Keys,           \* idempotency keys
  MaxJobs,        \* bound on the jobs
  MaxDeaths,      \* bound on the callers that are killed
  NoKey, NoToken, Corrupt

ASSUME JobsAssumption == MaxJobs \in Nat

VARIABLES
  target,         \* what the plan is made from
  lock,           \* locks/<app>-<environment>.lock exists
  confirmation,   \* confirmations/<token>.json
  jobIndex,       \* jobs/idempotency.json, Corrupt while it is being written
  jobs,           \* jobs/<job>.json: the state on disk
  client,         \* each caller
  deaths,
  dryRuns,        \* history: how often each token was issued
  applied         \* history: how often each token was used with an effect

jobVars == <<target, lock, confirmation, jobIndex, jobs, client, deaths, dryRuns, applied>>

Job == 1..MaxJobs
Away == [at |-> "away", job |-> 0, dry |-> FALSE, key |-> NoKey, token |-> NoToken,
         state |-> "none", locked |-> FALSE, index |-> Corrupt]

Goes(c, at) == client' = [client EXCEPT ![c].at = at]

-----------------------------------------------------------------------------
(* run_job: the key is looked up without a lock.  A job found is returned, *)
(* a key used for other inputs or an unreadable index is an error; neither *)
(* changes anything.                                                       *)
_idempotent_job(key) == key # NoKey => (jobIndex # Corrupt /\ jobIndex[key] = 0)

(* The jobs that a caller has begun and that are not stored yet.           *)
Begun == {j \in Job : jobs[j] # "none"} \cup {client[c].job : c \in Clients}

run_job(c, dry, key, token) ==
  /\ client[c].at = "away"
  /\ _idempotent_job(key)
  /\ \E j \in Job \ Begun :
       /\ \A i \in Job \ Begun : j <= i
       /\ client' = [client EXCEPT ![c] =
            [Away EXCEPT !.at = "lock", !.job = j, !.dry = dry, !.key = key,
                         !.token = token, !.state = "queued"]]
  /\ UNCHANGED <<target, lock, confirmation, jobIndex, jobs, deaths, dryRuns, applied>>

(* An exception of any step: the job has failed, and finally unlocks.      *)
Raises(c) == client' = [client EXCEPT ![c].at = "unlock", ![c].state = "failed"]

_acquire_lock(c) ==
  /\ client[c].at = "lock"
  /\ IF lock
     THEN Raises(c) /\ UNCHANGED lock
     ELSE /\ lock' = TRUE
          /\ client' = [client EXCEPT ![c].locked = TRUE, ![c].state = "running",
                          ![c].at = IF client[c].dry THEN "act" ELSE "validate"]
  /\ UNCHANGED <<target, confirmation, jobIndex, jobs, deaths, dryRuns, applied>>

(* Faulty variant: a consumed confirmation is accepted again.              *)
ValidateIssued(c) ==
  /\ client[c].at = "validate"
  /\ IF confirmation[client[c].token] \in {"active", "consumed"} THEN Goes(c, "act") ELSE Raises(c)
  /\ UNCHANGED <<target, lock, confirmation, jobIndex, jobs, deaths, dryRuns, applied>>

_validate_confirmation_record(c) ==
  /\ client[c].at = "validate"
  /\ IF confirmation[client[c].token] = "active" THEN Goes(c, "act") ELSE Raises(c)
  /\ UNCHANGED <<target, lock, confirmation, jobIndex, jobs, deaths, dryRuns, applied>>

(* run_action plans afresh.  Dry, it answers with the token of that plan;  *)
(* otherwise the token must be the plan's, the apply may be disabled by    *)
(* configuration or fail, and a failure may leave an effect behind.        *)
DryRun(c) ==
  /\ client[c].at = "act" /\ client[c].dry
  /\ client' = [client EXCEPT ![c].at = "settle", ![c].token = target]
  /\ UNCHANGED <<target, lock, confirmation, jobIndex, jobs, deaths, dryRuns, applied>>

_run_confirmed_plan(c) ==
  /\ client[c].at = "act" /\ ~client[c].dry
  /\ client[c].token = target
  /\ target' \in Targets
  /\ applied' = [applied EXCEPT ![client[c].token] = @ + 1]
  /\ Goes(c, "settle")
  /\ UNCHANGED <<lock, confirmation, jobIndex, jobs, deaths, dryRuns>>

ActionRaises(c) ==
  /\ client[c].at = "act"
  /\ Raises(c)
  /\ \/ UNCHANGED target
     \/ ~client[c].dry /\ client[c].token = target /\ target' \in Targets
  /\ UNCHANGED <<lock, confirmation, jobIndex, jobs, deaths, dryRuns, applied>>

(* The actions that only read have no part in this: every mutating one is  *)
(* dispatched to its plan, and to its apply when the token is the plan's.  *)
run_action(c) == DryRun(c) \/ _run_confirmed_plan(c) \/ ActionRaises(c)

_register_confirmation_from_result(c) ==
  /\ client[c].at = "settle" /\ client[c].dry
  /\ confirmation' = [confirmation EXCEPT ![client[c].token] = "active"]
  /\ dryRuns' = [dryRuns EXCEPT ![client[c].token] = @ + 1]
  /\ client' = [client EXCEPT ![c].at = "unlock", ![c].state = "waiting_for_confirmation"]
  /\ UNCHANGED <<target, lock, jobIndex, jobs, deaths, applied>>

_consume_confirmation(c) ==
  /\ client[c].at = "settle" /\ ~client[c].dry
  /\ confirmation' = [confirmation EXCEPT ![client[c].token] = "consumed"]
  /\ client' = [client EXCEPT ![c].at = "unlock", ![c].state = "succeeded"]
  /\ UNCHANGED <<target, lock, jobIndex, jobs, deaths, dryRuns, applied>>

Unlock(c) ==
  /\ client[c].at = "unlock"
  /\ lock' = (lock /\ ~client[c].locked)
  /\ client' = [client EXCEPT ![c].at = "store", ![c].locked = FALSE]
  /\ UNCHANGED <<target, confirmation, jobIndex, jobs, deaths, dryRuns, applied>>

(* The job record and the audit line; a job is on disk only once it ended. *)
_write_job(c) ==
  /\ client[c].at = "store"
  /\ jobs' = [jobs EXCEPT ![client[c].job] = client[c].state]
  /\ IF client[c].key # NoKey /\ client[c].state # "failed"
     THEN Goes(c, "index") ELSE client' = [client EXCEPT ![c] = Away]
  /\ UNCHANGED <<target, lock, confirmation, jobIndex, deaths, dryRuns, applied>>

(* _write_idempotency reads the index, truncates the file and writes it.   *)
ReadIndex(c) ==
  /\ client[c].at = "index"
  /\ client' = IF jobIndex = Corrupt
       THEN [client EXCEPT ![c] = Away]
       ELSE [client EXCEPT ![c].at = "open", ![c].index = jobIndex]
  /\ UNCHANGED <<target, lock, confirmation, jobIndex, jobs, deaths, dryRuns, applied>>

OpenIndex(c) ==
  /\ client[c].at = "open"
  /\ jobIndex' = Corrupt
  /\ Goes(c, "write")
  /\ UNCHANGED <<target, lock, confirmation, jobs, deaths, dryRuns, applied>>

_write_idempotency(c) ==
  /\ client[c].at = "write"
  /\ jobIndex' = [client[c].index EXCEPT ![client[c].key] = client[c].job]
  /\ client' = [client EXCEPT ![c] = Away]
  /\ UNCHANGED <<target, lock, confirmation, jobs, deaths, dryRuns, applied>>

-----------------------------------------------------------------------------
(* Cancelling a job that waits for its confirmation leaves the token.      *)
cancel_job(j) ==
  /\ jobs[j] \in {"queued", "waiting_for_confirmation"}
  /\ jobs' = [jobs EXCEPT ![j] = "cancelled"]
  /\ UNCHANGED <<target, lock, confirmation, jobIndex, client, deaths, dryRuns, applied>>

(* The time of a confirmation runs out.                                    *)
Expire(t) ==
  /\ confirmation[t] = "active"
  /\ confirmation' = [confirmation EXCEPT ![t] = "expired"]
  /\ UNCHANGED <<target, lock, jobIndex, jobs, client, deaths, dryRuns, applied>>

(* The caller is killed; its lock file stays.                              *)
Die(c) ==
  /\ client[c].at # "away"
  /\ deaths < MaxDeaths
  /\ deaths' = deaths + 1
  /\ client' = [client EXCEPT ![c] = Away]
  /\ jobs' = [jobs EXCEPT ![client[c].job] = IF @ = "none" THEN "lost" ELSE @]
  /\ UNCHANGED <<target, lock, confirmation, jobIndex, dryRuns, applied>>

JobsInit ==
  /\ target \in Targets
  /\ lock = FALSE
  /\ confirmation = [t \in Targets |-> "none"]
  /\ jobIndex = [k \in Keys |-> 0]
  /\ jobs = [j \in Job |-> "none"]
  /\ client = [c \in Clients |-> Away]
  /\ deaths = 0
  /\ dryRuns = [t \in Targets |-> 0]
  /\ applied = [t \in Targets |-> 0]

ClientStep(c) ==
  \/ \E key \in Keys \cup {NoKey} :
       \/ run_job(c, TRUE, key, NoToken)
       \/ \E token \in Targets : run_job(c, FALSE, key, token)
  \/ _acquire_lock(c) \/ _validate_confirmation_record(c)
  \/ run_action(c)
  \/ _register_confirmation_from_result(c) \/ _consume_confirmation(c)
  \/ Unlock(c) \/ _write_job(c)
  \/ ReadIndex(c) \/ OpenIndex(c) \/ _write_idempotency(c)
  \/ Die(c)

JobsNext ==
  \/ \E c \in Clients : ClientStep(c)
  \/ \E j \in Job : cancel_job(j)
  \/ \E t \in Targets : Expire(t)

JobsSpec == JobsInit /\ [][JobsNext]_jobVars

-----------------------------------------------------------------------------
(* A confirmation is used once: a token that came out of n dry runs has    *)
(* let at most n jobs through, although its record is checked before the   *)
(* action and consumed after it, the index of idempotency keys loses       *)
(* updates and callers die in between.                                     *)
ConfirmedOnce == \A t \in Targets : applied[t] <= dryRuns[t]

=============================================================================
