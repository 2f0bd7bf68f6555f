---------------------------- MODULE WorkloadRuns ----------------------------
(***************************************************************************)
(* Task and cron runs of one workload: accepted durably (daemon/store.py), *)
(* claimed under a lease with a fencing token, and executed as a named     *)
(* container by the workload threads of the daemon (daemon/workloads.py,   *)
(* daemon/service.py).                                                     *)
(*                                                                         *)
(* A container outlives the process that started it.  When the process     *)
(* that is attached to it dies or is terminated, the signal may reach the  *)
(* container or not; both outcomes are modelled.                           *)
(***************************************************************************)
EXTENDS Integers, Sequences

CONSTANTS
  Runs,          \* the requests, by idempotency key
  Workers,       \* the workload threads
  Policies,      \* the concurrency policies a request may be accepted under
  RunFaults,        \* "crash", "stall", "cancel", "half_start"
  MaxToken,      \* bound on the claims of one run
  NoWorker, NoRun

VARIABLES
  queue,         \* accepted runs, oldest first
  run,           \* the workload_runs rows
  container,     \* docker's state of each run's container
  worker         \* the control state of each workload thread

runsVars == <<queue, run, container, worker>>

RunTerminal == {"succeeded", "failed", "cancelled"}

NewRow == [state |-> "none", owner |-> NoWorker, live |-> FALSE,
           token |-> 0, cancel |-> FALSE, policy |-> "allow"]

IdleWorker == [at |-> "idle", run |-> NoRun, token |-> 0, result |-> "none"]

Active(r) == run[r].state \in {"accepted", "running"}

Exited == {"exited_0", "exited_1"}

ContainerStates == {"none", "created", "running"} \cup Exited

ResultOf(c) == IF c = "exited_0" THEN "succeeded" ELSE "failed"

-----------------------------------------------------------------------------
Oldest(rs) == queue[CHOOSE i \in 1..Len(queue) :
                      /\ queue[i] \in rs
                      /\ \A j \in 1..(i - 1) : queue[j] \notin rs]

(* Faulty variant: only a run that has started counts as active.           *)
AcceptBesideQueued(r, policy) ==
  LET active == {s \in Runs : run[s].state = "running"}
      cancels(s) == policy = "replace" /\ active # {} /\ s = Oldest(active)
  IN  /\ run[r].state = "none"
      /\ policy = "forbid" => active = {}
      /\ run' = [s \in Runs |->
           IF s = r THEN [NewRow EXCEPT !.state = "accepted", !.policy = policy]
           ELSE [run[s] EXCEPT !.cancel = @ \/ cancels(s)]]
      /\ queue' = Append(queue, r)
      /\ UNCHANGED <<container, worker>>

(* accept_run: one transaction; "replace" cancels the oldest active run,   *)
(* "forbid" refuses the request, which may be made again.                  *)
AcceptRun(r, policy) ==
  LET active == {s \in Runs : Active(s)}
      cancels(s) == policy = "replace" /\ active # {} /\ s = Oldest(active)
  IN  /\ run[r].state = "none"
      /\ policy = "forbid" => active = {}
      /\ run' = [s \in Runs |->
           IF s = r THEN [NewRow EXCEPT !.state = "accepted", !.policy = policy]
           ELSE [run[s] EXCEPT !.cancel = @ \/ cancels(s)]]
      /\ queue' = Append(queue, r)
      /\ UNCHANGED <<container, worker>>

RequestCancellation(r) ==
  /\ "cancel" \in RunFaults
  /\ Active(r)
  /\ run' = [run EXCEPT ![r].cancel = TRUE]
  /\ UNCHANGED <<queue, container, worker>>

-----------------------------------------------------------------------------
(* Faulty variant: the expiry of a lease is not looked at.                 *)
ClaimableUnowned == {r \in Runs : Active(r) /\ run[r].owner = NoWorker}

Claimable == {r \in Runs : Active(r) /\ ~run[r].live}

(* acquire_run: the oldest run without a live lease.  A run that was       *)
(* cancelled before its first claim ends at once, and is returned all the  *)
(* same.                                                                   *)
Acquire(w) ==
  LET r == Oldest(Claimable)
  IN  /\ worker[w] = IdleWorker
      /\ Claimable # {}
      /\ IF run[r].cancel /\ run[r].state = "accepted"
           THEN run' = [run EXCEPT ![r].state = "cancelled"]
           ELSE /\ run[r].token < MaxToken
                /\ run' = [run EXCEPT ![r].state = "running",
                             ![r].owner = w, ![r].live = TRUE,
                             ![r].token = @ + 1]
      /\ worker' = [worker EXCEPT ![w] = [IdleWorker EXCEPT
                      !.at = "inspect", !.run = r, !.token = run'[r].token]]
      /\ UNCHANGED <<queue, container>>

WorkerGoes(w, at, result) ==
  worker' = [worker EXCEPT ![w].at = at, ![w].result = result]

(* Faulty variant: the exit code of a retained container is not read.      *)
InspectOptimistically(w) ==
  LET c == container[worker[w].run]
  IN  /\ worker[w].at = "inspect"
      /\ CASE c = "none" -> WorkerGoes(w, "start", "none")
           [] c = "running" -> WorkerGoes(w, "wait", "none")
           [] OTHER -> WorkerGoes(w, "complete", "succeeded")
      /\ UNCHANGED <<queue, run, container>>

(* execute: a retained container is waited for or its exit code read;      *)
(* without one, docker compose run is launched.                            *)
InspectContainer(w) ==
  LET c == container[worker[w].run]
  IN  /\ worker[w].at = "inspect"
      /\ CASE c = "none" -> WorkerGoes(w, "start", "none")
           [] c = "running" -> WorkerGoes(w, "wait", "none")
           [] c \in Exited -> WorkerGoes(w, "complete", ResultOf(c))
           [] c = "created" -> worker' = [worker EXCEPT ![w] = IdleWorker]
      /\ UNCHANGED <<queue, run, container>>

(* Docker's part of the command: the container's name may be taken.        *)
StartContainer(w) ==
  LET r == worker[w].run
  IN  /\ worker[w].at = "start"
      /\ IF container[r] = "none"
           THEN WorkerGoes(w, "attached", "none")
                  /\ container' = [container EXCEPT ![r] = "running"]
           ELSE WorkerGoes(w, "complete", "failed") /\ UNCHANGED container
      /\ UNCHANGED <<queue, run>>

ContainerEnds(r) ==
  /\ container[r] = "running"
  /\ \E c \in Exited : container' = [container EXCEPT ![r] = c]
  /\ UNCHANGED <<queue, run, worker>>

Waited(w) ==
  LET r == worker[w].run
  IN  /\ worker[w].at \in {"attached", "wait"}
      /\ container[r] \in Exited
      /\ WorkerGoes(w, "complete", ResultOf(container[r]))
      /\ UNCHANGED <<queue, run, container>>

(* should_stop while the container runs: the lease is renewed, even after  *)
(* it ran out, unless the run was claimed again.                           *)
Owns(w) ==
  LET row == run[worker[w].run]
  IN  row.state = "running" /\ row.owner = w /\ row.token = worker[w].token

RenewLease(w) ==
  /\ worker[w].at \in {"start", "attached", "wait"}
  /\ Owns(w)
  /\ run' = [run EXCEPT ![worker[w].run].live = TRUE]
  /\ UNCHANGED <<queue, container, worker>>

(* What becomes of a container when docker compose run is terminated: the  *)
(* client may have created it without starting it, or pass the signal on.  *)
Orphaned(w) ==
  LET c == container[worker[w].run]
  IN  {c} \cup
      CASE worker[w].at = "start" /\ c = "none" /\ "half_start" \in RunFaults -> {"created"}
        [] worker[w].at = "attached" /\ c = "running" -> {"exited_1"}
        [] OTHER -> {}

LeaseLost(w) ==
  /\ worker[w].at \in {"start", "attached", "wait"}
  /\ ~Owns(w)
  /\ \E c \in Orphaned(w) : container' = [container EXCEPT ![worker[w].run] = c]
  /\ worker' = [worker EXCEPT ![w] = IdleWorker]
  /\ UNCHANGED <<queue, run>>

(* The run was cancelled: the client is terminated, then docker stop.      *)
StopCancelled(w) ==
  LET r == worker[w].run
      Stopped(c) == IF c = "running" THEN "exited_1" ELSE c
  IN  /\ worker[w].at \in {"start", "attached", "wait"}
      /\ run[r].cancel
      /\ \E c \in Orphaned(w) : container' = [container EXCEPT ![r] = Stopped(c)]
      /\ WorkerGoes(w, "complete", "cancelled")
      /\ UNCHANGED <<queue, run>>

(* complete_run: a terminal run is left alone, a stale fence is refused.   *)
CompleteRun(w) ==
  LET r == worker[w].run
  IN  /\ worker[w].at = "complete"
      /\ run' = IF Owns(w)
                  THEN [run EXCEPT ![r].state = worker[w].result,
                                   ![r].owner = NoWorker, ![r].live = FALSE]
                  ELSE run
      /\ worker' = [worker EXCEPT ![w] = IdleWorker]
      /\ UNCHANGED <<queue, container>>

-----------------------------------------------------------------------------
(* Every claimed run can be claimed once more, within the bound.           *)
ClaimsToSpare == \A r \in Runs : Active(r) => run[r].token < MaxToken

(* The daemon dies and restarts; its threads get new owner ids.            *)
WorkersDie ==
  /\ "crash" \in RunFaults
  /\ ClaimsToSpare
  /\ \E w \in Workers : worker[w] # IdleWorker
  /\ container' \in [Runs -> ContainerStates]
  /\ \A r \in Runs :
       \/ container'[r] = container[r]
       \/ \E w \in Workers : worker[w].run = r /\ container'[r] \in Orphaned(w)
  /\ worker' = [w \in Workers |-> IdleWorker]
  /\ UNCHANGED <<queue, run>>

(* Five minutes without a renewal: nobody executes the run, or the thread  *)
(* that does is stalled after it started or found the container.           *)
LeaseRunsOut(r) ==
  /\ run[r].live
  /\ run[r].token < MaxToken
  /\ \A w \in Workers :
       worker[w].run = r =>
         "stall" \in RunFaults /\ worker[w].at \in {"attached", "wait", "complete"}
  /\ run' = [run EXCEPT ![r].live = FALSE]
  /\ UNCHANGED <<queue, container, worker>>

WorkloadStep(w) ==
  \/ Acquire(w) \/ InspectContainer(w) \/ StartContainer(w) \/ Waited(w)
  \/ LeaseLost(w) \/ StopCancelled(w) \/ CompleteRun(w)

RunsNext ==
  \/ \E r \in Runs, policy \in Policies : AcceptRun(r, policy)
  \/ \E r \in Runs : RequestCancellation(r)
  \/ \E w \in Workers : WorkloadStep(w) \/ RenewLease(w)
  \/ \E r \in Runs : ContainerEnds(r)
  \/ \E r \in Runs : LeaseRunsOut(r)
  \/ WorkersDie

RunsInit ==
  /\ queue = <<>>
  /\ run = [r \in Runs |-> NewRow]
  /\ container = [r \in Runs |-> "none"]
  /\ worker = [w \in Workers |-> IdleWorker]

(* The threads loop, containers end, leases nobody renews run out.         *)
RunsFairness ==
  /\ \A w \in Workers : WF_runsVars(WorkloadStep(w))
  /\ \A r \in Runs : WF_runsVars(ContainerEnds(r)) /\ WF_runsVars(LeaseRunsOut(r))

RunsSpec == RunsInit /\ [][RunsNext]_runsVars /\ RunsFairness

-----------------------------------------------------------------------------
(* The recorded outcome is that of the run's one container: a success only *)
(* after exit code 0, a failure only after another one, whatever crashed   *)
(* or was claimed again in between.                                        *)
OutcomesAreTrue ==
  \A r \in Runs :
    /\ run[r].state = "succeeded" => container[r] = "exited_0"
    /\ run[r].state = "failed" => container[r] = "exited_1"

(* An outcome is recorded once: neither a worker that lost its fence nor   *)
(* one that executes a run cancelled before its start replaces it.         *)
OutcomesKept == \A r \in Runs : run[r].state \in RunTerminal => run'[r].state = run[r].state

OutcomesAreFinal == [][OutcomesKept]_runsVars

(* Two runs that were both claimed execute at once only if the later one   *)
(* was not accepted under "forbid".                                        *)
ForbidPreventsOverlap ==
  \A i, j \in 1..Len(queue) :
    /\ i < j
    /\ \A r \in {queue[i], queue[j]} :
         container[r] = "running" /\ run[r].token > 0
    => run[queue[j]].policy # "forbid"

(* Every accepted run ends, the cancelled and the replaced ones included:  *)
(* a run whose worker died is claimed again once its lease runs out.  The  *)
(* exception is a run whose container was created but not started, which   *)
(* execute refuses to recover.  (MaxToken bounds the crashes.)             *)
EveryRunEnds ==
  \A r \in Runs : Active(r) ~> (run[r].state \in RunTerminal \/ container[r] = "created")

=============================================================================
