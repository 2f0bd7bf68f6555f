--------------------------- MODULE ComposeBackend ---------------------------
(***************************************************************************)
(* The manifest v2 Compose backend (execution/compose_backend.py) under    *)
(* the journaled executor: what start, activate, restore, deactivate,      *)
(* drain_previous and remove do to the runtime, one mutation at a time, so *)
(* that a worker may die between any two of them.                          *)
(*                                                                         *)
(* Docker is external: a stop or down always takes effect, an up may fail. *)
(* Every revision has a web service, one background service (worker or     *)
(* internal), and optionally a cron schedule and a migration.              *)
(***************************************************************************)
EXTENDS JournaledExecutor

CONSTANTS
  Strategy,       \* manifest.update.strategy: "recreate" or "blue_green"
  HasCron,        \* the manifests declare a cron workload
  HasMigration    \* the manifests declare a migration

(* Each worker has an owner id of its own, and no two operations deploy the *)
(* same revision.                                                          *)
ASSUME ComposeAssumption ==
  /\ \A w \in Workers : OwnerOf[w] \in Owners
  /\ \A v, w \in Workers : OwnerOf[v] = OwnerOf[w] => v = w
  /\ \A o \in Operations : RevisionOf[o] \in Revisions
  /\ \A o, p \in Operations : RevisionOf[o] = RevisionOf[p] => o = p
  /\ NoRevision \notin Revisions
  /\ NoWorker \notin Workers

VARIABLES
  roots,          \* revisions materialized under the revisions root
  running,        \* the running services of each revision's project
  active,         \* the revision traffic/active.json names
  caddy,          \* the revision whose routes the Caddy include holds
  cron,           \* revision and fencing token of cron/active.json
  marked,         \* revisions whose migration marker is in their root
  container,      \* the migration container of each operation
  migrations      \* how often each revision's migration was run

runtimeVars ==
  <<roots, running, active, caddy, cron, marked, container, migrations>>

vars == <<executorVars, runtimeVars>>

Services == {"web", "background"}

(* _candidate_start_services and _activation_services                      *)
CandidateServices == IF Strategy = "recreate" THEN Services ELSE {"web"}
ActivationServices == Services \ CandidateServices

NoCron == [revision |-> NoRevision, token |-> 0]

Schedules(r, token) ==
  IF HasCron /\ r # NoRevision THEN [revision |-> r, token |-> token]
                               ELSE NoCron

-----------------------------------------------------------------------------
FirstStep ==
  [start_candidate |-> "materialize", switch_traffic |-> "compare",
   drain_previous |-> "down", restore |-> "stop", deactivate |-> "compare",
   remove |-> "down"]

BackendCalls == DOMAIN FirstStep

(* What a call reads and checks before it enters the fence.                *)
EntryCheck(w) ==
  LET p == worker[w].previous
  IN  CASE CallOf(w) = "drain_previous" ->
             p # NoRevision => active = Candidate(w) /\ p \in roots
        [] CallOf(w) = "restore" -> p \in roots
        [] CallOf(w) = "remove" -> active # Candidate(w)
        [] OTHER -> TRUE

(* A first revision has no predecessor to drain; start checks preflight.   *)
EnterCall(w) ==
  /\ CallOf(w) \in BackendCalls
  /\ worker[w].step = "begin"
  /\ \E next \in
       IF ~EntryCheck(w) THEN {"raised"}
       ELSE IF CallOf(w) = "drain_previous" /\ worker[w].previous = NoRevision
         THEN {"returned"}
       ELSE {"wait"} \cup
            (IF CallOf(w) = "start_candidate" /\ "preflight" \in Faults
               THEN {"raised"} ELSE {}) :
       worker' = [worker EXCEPT ![w].step = next]
  /\ UNCHANGED <<holder, live, lock, record, journalVars, runtimeVars>>

EnterRuntimeFence(w) ==
  EntersFence(w, FirstStep[CallOf(w)]) /\ UNCHANGED runtimeVars

(* Faulty variant: the lock is not given back on the error path.           *)
FailsAndKeepsLock(w) ==
  /\ "backend" \in Faults
  /\ lock = w
  /\ worker[w].step \notin {"begin", "wait", "raised", "none"}
  /\ worker' = [worker EXCEPT ![w].step = "raised"]
  /\ UNCHANGED <<holder, live, lock, record, journalVars, runtimeVars>>

(* Any command inside the fence may fail; the fence is left as it unwinds. *)
CommandFails(w) ==
  /\ "backend" \in Faults
  /\ Raises(w)
  /\ UNCHANGED runtimeVars

-----------------------------------------------------------------------------
(* start                                                                   *)
Materialize(w) ==
  /\ Mutates(w, "start_candidate", "materialize", "migrate")
  /\ roots' = roots \cup {Candidate(w)}
  /\ UNCHANGED <<running, active, caddy, cron, marked, container, migrations>>

(* _run_migrations: a marker in the root, or else the container named      *)
(* after the operation, shows that the migration has run; a container that *)
(* did not succeed, or has not finished, is an error.                      *)
MigrationDone(w) ==
  /\ Mutates(w, "start_candidate", "migrate", "replace")
  /\ ~HasMigration \/ Candidate(w) \in marked
  /\ UNCHANGED runtimeVars

(* Faulty variant: the container of an earlier attempt is not looked up.   *)
RunMigrationAgain(w) ==
  /\ Mutates(w, "start_candidate", "migrate", "migrating")
  /\ HasMigration
  /\ Candidate(w) \notin marked
  /\ container' = [container EXCEPT ![worker[w].op] = "running"]
  /\ migrations' = [migrations EXCEPT ![Candidate(w)] = @ + 1]
  /\ UNCHANGED <<roots, running, active, caddy, cron, marked>>

RunMigration(w) ==
  /\ Mutates(w, "start_candidate", "migrate", "migrating")
  /\ HasMigration
  /\ Candidate(w) \notin marked
  /\ container[worker[w].op] = "none"
  /\ container' = [container EXCEPT ![worker[w].op] = "running"]
  /\ migrations' = [migrations EXCEPT ![Candidate(w)] = @ + 1]
  /\ UNCHANGED <<roots, running, active, caddy, cron, marked>>

(* The container ends by itself, whether or not its worker still waits.    *)
MigrationEnds(o) ==
  /\ container[o] = "running"
  /\ \E result \in {"exited_0"} \cup
                   (IF "backend" \in Faults THEN {"exited_1"} ELSE {}) :
       container' = [container EXCEPT ![o] = result]
  /\ UNCHANGED <<executorVars, roots, running, active, caddy, cron, marked,
                 migrations>>

MarkMigration(w) ==
  /\ \/ Mutates(w, "start_candidate", "migrate", "replace")
     \/ Mutates(w, "start_candidate", "migrating", "replace")
  /\ HasMigration
  /\ Candidate(w) \notin marked
  /\ container[worker[w].op] = "exited_0"
  /\ marked' = marked \cup {Candidate(w)}
  /\ UNCHANGED <<roots, running, active, caddy, cron, container, migrations>>

MigrationFailed(w) ==
  /\ CallOf(w) = "start_candidate"
  /\ \/ worker[w].step = "migrate" /\ container[worker[w].op] = "running"
     \/ worker[w].step \in {"migrate", "migrating"}
          /\ container[worker[w].op] = "exited_1"
  /\ Candidate(w) \notin marked
  /\ Raises(w)
  /\ UNCHANGED runtimeVars

(* Faulty variant: the replaced revision is left to the traffic switch.    *)
LeaveReplacedRunning(w) ==
  /\ Mutates(w, "start_candidate", "replace", "up")
  /\ UNCHANGED runtimeVars

(* A recreate update stops the active revision before its candidate runs.  *)
StopReplaced(w) ==
  /\ Mutates(w, "start_candidate", "replace", "up")
  /\ running' = IF Strategy = "recreate" /\ active # NoRevision
                  THEN [running EXCEPT ![active] = {}] ELSE running
  /\ UNCHANGED <<roots, active, caddy, cron, marked, container, migrations>>

StartCandidate(w) ==
  /\ Mutates(w, "start_candidate", "up", "returned")
  /\ running' = [running EXCEPT ![Candidate(w)] = @ \cup CandidateServices]
  /\ UNCHANGED <<roots, active, caddy, cron, marked, container, migrations>>

-----------------------------------------------------------------------------

(* activate: the live pointer decides between an activation that already   *)
(* happened, a changed predecessor and a switch.                           *)
CompareActive(w) ==
  /\ lock = w
  /\ CallOf(w) = "switch_traffic"
  /\ worker[w].step = "compare"
  /\ worker' = [worker EXCEPT ![w].step =
       IF active = Candidate(w) THEN "refresh_cron"
       ELSE IF active # worker[w].previous THEN "raised"
       ELSE "stop_previous"]
  /\ IF active \notin {Candidate(w), worker[w].previous}
       THEN LeaveFence(w) ELSE UNCHANGED <<lock, record>>
  /\ UNCHANGED <<holder, live, journalVars, runtimeVars>>

StopPrevious(w) ==
  /\ Mutates(w, "switch_traffic", "stop_previous", "start_deferred")
  /\ running' =
       IF active = NoRevision THEN running
       ELSE [running EXCEPT ![active] =
               IF Strategy = "recreate" THEN {} ELSE @ \ {"background"}]
  /\ UNCHANGED <<roots, active, caddy, cron, marked, container, migrations>>

StartDeferred(w) ==
  /\ Mutates(w, "switch_traffic", "start_deferred", "cron")
  /\ running' = [running EXCEPT ![Candidate(w)] = @ \cup ActivationServices]
  /\ UNCHANGED <<roots, active, caddy, cron, marked, container, migrations>>

(* _activate_cron_registry, on both paths                                  *)
RegisterCron(w) ==
  /\ \/ Mutates(w, "switch_traffic", "cron", "caddy")
     \/ Mutates(w, "switch_traffic", "refresh_cron", "refresh_caddy")
  /\ cron' = Schedules(Candidate(w), Token(w))
  /\ UNCHANGED <<roots, running, active, caddy, marked, container, migrations>>

SwitchCaddy(w) ==
  /\ \/ Mutates(w, "switch_traffic", "caddy", "point")
     \/ Mutates(w, "switch_traffic", "refresh_caddy", "returned")
  /\ caddy' = Candidate(w)
  /\ UNCHANGED <<roots, running, active, cron, marked, container, migrations>>

PointActive(w) ==
  /\ Mutates(w, "switch_traffic", "point", "returned")
  /\ active' = Candidate(w)
  /\ UNCHANGED <<roots, running, caddy, cron, marked, container, migrations>>

-----------------------------------------------------------------------------
(* restore: not conditional on what is active now.                         *)
RestoreStop(w) ==
  /\ Mutates(w, "restore", "stop", "up")
  /\ running' = IF Candidate(w) \in roots
                  THEN [running EXCEPT ![Candidate(w)] = {}] ELSE running
  /\ UNCHANGED <<roots, active, caddy, cron, marked, container, migrations>>

RestoreUp(w) ==
  /\ Mutates(w, "restore", "up", "caddy")
  /\ running' = [running EXCEPT ![worker[w].previous] = Services]
  /\ UNCHANGED <<roots, active, caddy, cron, marked, container, migrations>>

(* Faulty variant: the routes are taken to be the predecessor's still.     *)
RestoreLeavesRoutes(w) ==
  /\ Mutates(w, "restore", "caddy", "cron")
  /\ UNCHANGED runtimeVars

RestoreCaddy(w) ==
  /\ Mutates(w, "restore", "caddy", "cron")
  /\ caddy' = worker[w].previous
  /\ UNCHANGED <<roots, running, active, cron, marked, container, migrations>>

RestoreCron(w) ==
  /\ Mutates(w, "restore", "cron", "point")
  /\ cron' = Schedules(worker[w].previous, Token(w))
  /\ UNCHANGED <<roots, running, active, caddy, marked, container, migrations>>

(* The pointer is written, the fence left and the predecessor probed.      *)
RestorePoint(w) ==
  /\ lock = w
  /\ CallOf(w) = "restore"
  /\ worker[w].step = "point"
  /\ active' = worker[w].previous
  /\ LeaveFence(w)
  /\ \E result \in {"returned"} \cup
                   (IF "probe" \in Faults THEN {"raised"} ELSE {}) :
       worker' = [worker EXCEPT ![w].step = result]
  /\ UNCHANGED <<holder, live, journalVars, roots, running, caddy, cron,
                 marked, container, migrations>>

(* deactivate                                                              *)
RefuseDeactivate(w) ==
  /\ CallOf(w) = "deactivate"
  /\ worker[w].step = "compare"
  /\ active \notin {NoRevision, Candidate(w)}
  /\ Raises(w)
  /\ UNCHANGED runtimeVars

DeactivateStop(w) ==
  /\ Mutates(w, "deactivate", "compare", "caddy")
  /\ active \in {NoRevision, Candidate(w)}
  /\ running' = IF Candidate(w) \in roots
                  THEN [running EXCEPT ![Candidate(w)] = {}] ELSE running
  /\ UNCHANGED <<roots, active, caddy, cron, marked, container, migrations>>

DeactivateCaddy(w) ==
  /\ Mutates(w, "deactivate", "caddy", "cron")
  /\ caddy' = NoRevision
  /\ UNCHANGED <<roots, running, active, cron, marked, container, migrations>>

DeactivateCron(w) ==
  /\ Mutates(w, "deactivate", "cron", "point")
  /\ cron' = NoCron
  /\ UNCHANGED <<roots, running, active, caddy, marked, container, migrations>>

DeactivatePoint(w) ==
  /\ Mutates(w, "deactivate", "point", "returned")
  /\ active' = NoRevision
  /\ UNCHANGED <<roots, running, caddy, cron, marked, container, migrations>>

(* drain_previous, stop: the predecessor's project is taken down and its   *)
(* root kept.                                                              *)
DrainDown(w) ==
  /\ Mutates(w, "drain_previous", "down", "returned")
  /\ running' = [running EXCEPT ![worker[w].previous] = {}]
  /\ UNCHANGED <<roots, active, caddy, cron, marked, container, migrations>>

(* remove: the candidate's project and root, with the migration marker.    *)
RemoveDown(w) ==
  /\ Mutates(w, "remove", "down", "delete")
  /\ running' = [running EXCEPT ![Candidate(w)] = {}]
  /\ UNCHANGED <<roots, active, caddy, cron, marked, container, migrations>>

RemoveDelete(w) ==
  /\ Mutates(w, "remove", "delete", "returned")
  /\ roots' = roots \ {Candidate(w)}
  /\ marked' = marked \ {Candidate(w)}
  /\ UNCHANGED <<running, active, caddy, cron, container, migrations>>

-----------------------------------------------------------------------------
(* inspect and verify of the candidate, verify_active of the live one; a   *)
(* schedule counts only under the verifying worker's own token.            *)
Observed(w) ==
  LET r == Candidate(w)
  IN  IF worker[w].phase = "external_verify"
        THEN /\ active = r
             /\ Services \subseteq running[r]
             /\ HasCron => cron = Schedules(r, Token(w))
        ELSE r \in roots /\ CandidateServices \subseteq running[r]

BackendStep(w) ==
  \/ EnterCall(w) \/ EnterRuntimeFence(w) \/ CommandFails(w)
  \/ Materialize(w) \/ MigrationDone(w) \/ RunMigration(w) \/ MarkMigration(w)
  \/ MigrationFailed(w)
  \/ StopReplaced(w) \/ StartCandidate(w)
  \/ CompareActive(w) \/ StopPrevious(w) \/ StartDeferred(w)
  \/ RegisterCron(w) \/ SwitchCaddy(w) \/ PointActive(w)
  \/ RestoreStop(w) \/ RestoreUp(w) \/ RestoreCaddy(w) \/ RestoreCron(w)
  \/ RestorePoint(w)
  \/ RefuseDeactivate(w) \/ DeactivateStop(w) \/ DeactivateCaddy(w)
  \/ DeactivateCron(w) \/ DeactivatePoint(w)
  \/ DrainDown(w) \/ RemoveDown(w) \/ RemoveDelete(w)

ExecutorStep(w) ==
  /\ UNCHANGED runtimeVars
  /\ \/ BeforePhase(w) \/ ControlStops(w) \/ Preflight(w, TRUE)
     \/ PhaseReturned(w) \/ PhaseRaised(w)
     \/ CheckPassed(w, Observed(w)) \/ CheckFailed(w, Observed(w))
     \/ Checkpoint(w) \/ Commit(w) \/ CommitRefused(w)
     \/ Undo(w) \/ Compensated(w) \/ Conclude(w) \/ Abandon(w)

Environment ==
  /\ UNCHANGED runtimeVars
  /\ \/ \E w \in Workers : Crash(w)
     \/ \E o \in Operations : RequestCancellation(o)
     \/ LeaseRunsOut
     \/ ClockStepsBack
     \/ NothingToRecover

StartRun(w, o) == Run(w, o) /\ UNCHANGED runtimeVars

(* The runtime serves the revision the journal names, and nothing else.    *)
Init ==
  /\ ExecutorInit
  /\ roots = {register} \ {NoRevision}
  /\ running = [r \in Revisions |-> IF r = register THEN Services ELSE {}]
  /\ active = register
  /\ caddy = register
  /\ cron = Schedules(register, 0)
  /\ marked = IF HasMigration THEN roots ELSE {}
  /\ container = [o \in Operations |-> "none"]
  /\ migrations = [r \in Revisions |-> IF r \in marked THEN 1 ELSE 0]

Next ==
  \/ \E w \in Workers, o \in Operations : StartRun(w, o)
  \/ \E w \in Workers : ExecutorStep(w)
  \/ \E w \in Workers : BackendStep(w)
  \/ \E o \in Operations : MigrationEnds(o)
  \/ Environment

Spec == Init /\ [][Next]_vars

(* An app that is running is updated to revisions it does not run yet, or  *)
(* deployed for the first time.                                            *)
DeployInit == Init /\ \A o \in Operations : RevisionOf[o] # register

DeploySpec == DeployInit /\ [][Next]_vars

(* A worker's process keeps running; the daemon's loop keeps picking up    *)
(* recoverable operations; leases of dead workers expire; containers end.  *)
Fairness ==
  /\ \A w \in Workers : WF_vars(ExecutorStep(w) \/ BackendStep(w))
  /\ WF_vars(\E w \in Workers, o \in Operations : StartRun(w, o))
  /\ WF_vars(LeaseRunsOut /\ UNCHANGED runtimeVars)
  /\ \A o \in Operations : WF_vars(MigrationEnds(o))

-----------------------------------------------------------------------------
TypeOK ==
  /\ ExecutorTypeOK
  /\ roots \subseteq Revisions
  /\ running \in [Revisions -> SUBSET Services]
  /\ {active, caddy, cron.revision} \subseteq Revisions \cup {NoRevision}
  /\ marked \subseteq roots
  /\ migrations \in [Revisions -> 0..(1 + Cardinality(Operations))]

(* When every operation has ended and each outcome was reported as clean,  *)
(* the runtime is exactly what the journal says: the active revision is    *)
(* the one pointed at, routed to and running, and no other revision runs.  *)
RuntimeMatchesJournal ==
  AtRest /\ (\A o \in Operations : state[o] # "failed_uncompensated") =>
    /\ active = register
    /\ caddy = register
    /\ cron.revision = (IF HasCron THEN register ELSE NoRevision)
    /\ running = [r \in Revisions |-> IF r = register THEN Services ELSE {}]

(* Whenever no operation has a candidate underway and no outcome was       *)
(* reported as uncompensated, the app serves what the journal says: the    *)
(* active revision is pointed at, routed to, scheduled and fully running.  *)
ServesTheJournal ==
  /\ \A o \in Operations : Open(o) => "start_candidate" \notin started[o]
  /\ \A o \in Operations : state[o] # "failed_uncompensated"
  => /\ active = register
     /\ caddy = register
     /\ cron.revision = (IF HasCron THEN register ELSE NoRevision)
     /\ register # NoRevision => running[register] = Services

(* Recovery after a crash at any point never runs a migration twice.       *)
MigrationsRunOnce == \A r \in Revisions : migrations[r] <= 1

(* Background services hand over without overlap: no two revisions consume *)
(* at once, whatever crashes during an update.                             *)
OneConsumer ==
  Cardinality({r \in Revisions : "background" \in running[r]}) <= 1

=============================================================================
