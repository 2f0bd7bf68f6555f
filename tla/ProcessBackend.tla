---------------------------- MODULE ProcessBackend ---------------------------
(***************************************************************************)
(* The product process backend (execution/process_backend.py) and its TCP  *)
(* switch (execution/service_proxy.py) under the journaled executor, with  *)
(* the command that admits a confirmed release (product_execution.py).     *)
(*                                                                         *)
(* A revision is a directory; its replicas are processes in sessions of    *)
(* their own, which outlive the command that spawned them and are known    *)
(* afterwards by the process record alone.  active.json names the revision *)
(* and the ports that the switch connects to.  Records and health are read *)
(* outside the runtime fence and used inside it.  A process listens on a   *)
(* port of its own, so one number stands for both.                         *)
(***************************************************************************)
EXTENDS JournaledExecutor

CONSTANTS
  Replicas,       \* processes of a revision
  MaxMishaps,     \* bound on commands and processes that die by themselves
  NoPlan

VARIABLES
  roots,          \* the revisions that are materialized
  processes,      \* ophelia-process.json of each revision; {} when missing
  running,        \* the live processes
  active,         \* active.json
  proxy,          \* the TCP switch is up
  base,           \* the generation each operation was planned on
  deaths, kills,  \* processes, commands that died so far
  local           \* what a call of each worker remembers between its steps

productVars == <<roots, processes, running, active, proxy, base, deaths,
                 kills, local>>
vars == <<executorVars, productVars>>

Unrouted == [revision |-> NoRevision, upstreams |-> {}]

Fresh == [then |-> "none", procs |-> {}, held |-> {}, tries |-> 0]

(* _record_process_alive: all of them, or the record counts as stopped.    *)
AllAlive(procs) == procs # {} /\ procs \subseteq running

(* _probe of the declared port: the switch answers with one of the         *)
(* upstreams in turn, so a partly dead set may pass and may fail.          *)
MayAnswer == proxy /\ active.upstreams \cap running # {}
MustAnswer == proxy /\ active.upstreams # {} /\ active.upstreams \subseteq running

NewProcess ==
  LET known == running \cup active.upstreams \cup UNION {processes[r] : r \in Revisions}
                 \cup UNION {local[w].procs : w \in Workers}
  IN  CHOOSE n \in 1..(Cardinality(known) + 1) : n \notin known

Generation == Cardinality({o \in Operations : claim[o] = RevisionOf[o]
                                                /\ state[o] = "succeeded"})

(* _active_state: the pointer and the journal name the same revision.      *)
Reconciled == active.revision = register

-----------------------------------------------------------------------------
Calls(w, call) == CallOf(w) = call /\ worker[w].step = "begin"

(* The revision a call starts, and the one it points the switch at.        *)
Subject(w) ==
  IF worker[w].at = "call" THEN Candidate(w) ELSE worker[w].previous

Started(w) ==
  CASE worker[w].at = "restore" -> "candidate"
    [] worker[w].at = "backup" -> "activate"
    [] OTHER -> "returned"

Pointed(w) == IF worker[w].at = "backup" THEN "verify" ELSE "returned"

(* A step outside the runtime fence, and one inside it that may leave it.  *)
Goes(w, next, l) ==
  /\ worker' = [worker EXCEPT ![w].step = next]
  /\ local' = [local EXCEPT ![w] = [l EXCEPT !.tries = local[w].tries]]
  /\ UNCHANGED <<holder, live, lock, record, journalVars>>

Awaits(w, then, procs, held) ==
  Goes(w, "wait", [Fresh EXCEPT !.then = then, !.procs = procs, !.held = held])

Outside == {"returned", "raised", "wait", "candidate", "check_restored",
            "activate", "copy", "verify"}

Proceeds(w, step, next, l) ==
  /\ lock = w
  /\ worker[w].step = step
  /\ worker' = [worker EXCEPT ![w].step = next]
  /\ local' = [local EXCEPT ![w] =
       [(IF next \in {"returned", "raised"} THEN Fresh ELSE l)
          EXCEPT !.tries = local[w].tries]]
  /\ IF next \in Outside THEN LeaveFence(w) ELSE UNCHANGED <<lock, record>>
  /\ UNCHANGED <<holder, live, journalVars>>

siteUnchanged ==
  UNCHANGED <<roots, processes, running, active, proxy, base, deaths, kills>>

EnterRuntimeFence(w) ==
  EntersFence(w, local[w].then) /\ UNCHANGED productVars

-----------------------------------------------------------------------------
(* What each call reads before it enters the fence.                        *)
EnterStart(w) ==
  /\ Calls(w, "start_candidate")
  /\ Awaits(w, "materialize", {}, {})
  /\ siteUnchanged

(* activate: the candidate is healthy now; the record is used later.       *)
EnterActivate(w) ==
  /\ Calls(w, "switch_traffic")
  /\ IF AllAlive(processes[Candidate(w)])
       THEN Awaits(w, "compare", processes[Candidate(w)], {})
       ELSE Goes(w, "raised", Fresh)
  /\ siteUnchanged

(* Faulty variant: what was drained is not started again.                  *)
EnterRestoreOfRunning(w) ==
  /\ Calls(w, "restore")
  /\ IF worker[w].previous \in roots
       THEN Goes(w, "candidate", Fresh)
       ELSE Goes(w, "raised", Fresh)
  /\ siteUnchanged

(* restore, _ensure_retained_revision_running                              *)
EnterRestore(w) ==
  /\ Calls(w, "restore")
  /\ CASE AllAlive(processes[worker[w].previous]) -> Goes(w, "candidate", Fresh)
       [] /\ ~AllAlive(processes[worker[w].previous])
          /\ worker[w].previous \in roots -> Awaits(w, "materialize", {}, {})
       [] OTHER -> Goes(w, "raised", Fresh)
  /\ siteUnchanged

EnterDeactivate(w) ==
  /\ Calls(w, "deactivate")
  /\ Awaits(w, "unpoint", {}, {})
  /\ siteUnchanged

(* drain_previous and stop: a record that is not fully alive counts as     *)
(* stopped.  Without a predecessor the executor does not call.             *)
EnterDrain(w) ==
  LET p == worker[w].previous
  IN  /\ Calls(w, "drain_previous")
      /\ CASE p # NoRevision /\ active.revision # Candidate(w) ->
                Goes(w, "raised", Fresh)
           [] p # NoRevision /\ active.revision = Candidate(w)
                /\ AllAlive(processes[p]) -> Awaits(w, "stop", processes[p], {})
           [] OTHER -> Goes(w, "returned", Fresh)
      /\ siteUnchanged

(* remove: never what the switch names.                                    *)
EnterRemove(w) ==
  LET c == Candidate(w)
  IN  /\ Calls(w, "remove")
      /\ CASE active.revision = c -> Goes(w, "raised", Fresh)
           [] active.revision # c /\ AllAlive(processes[c]) ->
                Awaits(w, "stop", processes[c], {})
           [] OTHER -> Awaits(w, "rmtree", {}, {})
      /\ siteUnchanged

-----------------------------------------------------------------------------
(* start: the directory, which appears whole, and what is left of an       *)
(* unhealthy earlier start.                                                *)
Materialize(w) ==
  LET r == Subject(w)
      kept == AllAlive(processes[r])
  IN  /\ Proceeds(w, "materialize", IF kept THEN Started(w) ELSE "spawn", Fresh)
      /\ roots' = roots \cup {r}
      /\ running' = IF kept THEN running ELSE running \ processes[r]
      /\ UNCHANGED <<processes, active, proxy, base, deaths, kills>>

Spawn(w) ==
  /\ Proceeds(w, "spawn", "probe",
              [Fresh EXCEPT !.procs = local[w].procs \cup {NewProcess}])
  /\ running' = running \cup {NewProcess}
  /\ UNCHANGED <<roots, processes, active, proxy, base, deaths, kills>>

(* _wait_healthy, replica by replica.                                      *)
WaitHealthy(w) ==
  /\ \/ /\ local[w].procs \subseteq running
        /\ Proceeds(w, "probe", IF Cardinality(local[w].procs) = Replicas
                                  THEN "record" ELSE "spawn", local[w])
     \/ /\ local[w].procs \subseteq running => "backend" \in Faults
        /\ Proceeds(w, "probe", "abort", local[w])
  /\ siteUnchanged

Abort(w) ==
  /\ Proceeds(w, "abort", "raised", Fresh)
  /\ running' = running \ local[w].procs
  /\ UNCHANGED <<roots, processes, active, proxy, base, deaths, kills>>

WriteRecord(w) ==
  /\ Proceeds(w, "record", Started(w), Fresh)
  /\ processes' = [processes EXCEPT ![Subject(w)] = local[w].procs]
  /\ UNCHANGED <<roots, running, active, proxy, base, deaths, kills>>

-----------------------------------------------------------------------------
(* activate: compare and swap of the pointer.                              *)
Expected(w) == worker[w].previous

(* Faulty variant: the pointer is not compared with the expected one.      *)
CompareNothing(w) ==
  /\ Proceeds(w, "compare", "proxy", local[w])
  /\ siteUnchanged

Compare(w) ==
  LET next == CASE active.revision = Expected(w) -> "proxy"
                [] /\ active.revision # Expected(w)
                   /\ active.revision = Subject(w) -> Pointed(w)
                [] OTHER -> "raised"
  IN  /\ Proceeds(w, "compare", next, local[w])
      /\ siteUnchanged

(* _ensure_proxy                                                           *)
EnsureProxy(w) ==
  /\ \/ Proceeds(w, "proxy", "point", local[w]) /\ proxy' = TRUE
     \/ /\ "backend" \in Faults
        /\ Proceeds(w, "proxy", "raised", Fresh)
        /\ UNCHANGED proxy
  /\ UNCHANGED <<roots, processes, running, active, base, deaths, kills>>

Point(w) ==
  /\ Proceeds(w, "point", Pointed(w), Fresh)
  /\ active' = [revision |-> Subject(w), upstreams |-> local[w].procs]
  /\ UNCHANGED <<roots, processes, running, proxy, base, deaths, kills>>

(* restore: the candidate's record must exist; the pointer goes back       *)
(* without a comparison, and forward again if the predecessor does not     *)
(* answer and the candidate is healthy.                                    *)
ReadCandidate(w) ==
  /\ CallOf(w) = "restore"
  /\ worker[w].step = "candidate"
  /\ IF processes[Candidate(w)] = {}
       THEN Goes(w, "raised", Fresh)
       ELSE Awaits(w, "point_back", processes[worker[w].previous],
                   processes[Candidate(w)])
  /\ siteUnchanged

PointBack(w) ==
  /\ Proceeds(w, "point_back", "check_restored", local[w])
  /\ active' = [revision |-> worker[w].previous, upstreams |-> local[w].procs]
  /\ UNCHANGED <<roots, processes, running, proxy, base, deaths, kills>>

CheckRestored(w) ==
  /\ worker[w].step = "check_restored"
  /\ \/ MayAnswer /\ Goes(w, "returned", Fresh)
     \/ /\ MustAnswer => "probe" \in Faults
        /\ IF AllAlive(local[w].held)
             THEN Awaits(w, "point_again", {}, local[w].held)
             ELSE Goes(w, "raised", Fresh)
  /\ siteUnchanged

PointAgain(w) ==
  /\ Proceeds(w, "point_again", "raised", Fresh)
  /\ active' = [revision |-> Candidate(w), upstreams |-> local[w].held]
  /\ UNCHANGED <<roots, processes, running, proxy, base, deaths, kills>>

(* deactivate: only a pointer at the failed candidate is removed.          *)
Unpoint(w) ==
  /\ worker[w].step = "unpoint"
  /\ IF active.revision \in {NoRevision, Candidate(w)}
       THEN Proceeds(w, "unpoint", "returned", Fresh) /\ active' = Unrouted
       ELSE Proceeds(w, "unpoint", "raised", Fresh) /\ UNCHANGED active
  /\ UNCHANGED <<roots, processes, running, proxy, base, deaths, kills>>

(* stop, of what the record named before the fence.                        *)
Stop(w) ==
  LET next == CASE worker[w].at = "remove" -> "wait"
                [] worker[w].at = "backup" -> "copy"
                [] OTHER -> "returned"
  IN  /\ Proceeds(w, "stop", next, [Fresh EXCEPT !.then = "rmtree"])
      /\ running' = running \ local[w].procs
      /\ UNCHANGED <<roots, processes, active, proxy, base, deaths, kills>>

(* remove: the directory goes, and the record in it.                       *)
RemoveRoot(w) ==
  /\ Proceeds(w, "rmtree", "returned", Fresh)
  /\ roots' = roots \ {Candidate(w)}
  /\ processes' = [processes EXCEPT ![Candidate(w)] = {}]
  /\ UNCHANGED <<running, active, proxy, base, deaths, kills>>

(* A file operation or a spawn fails.                                      *)
CommandFails(w) ==
  /\ "backend" \in Faults
  /\ \E step \in {"materialize", "rmtree"} : Proceeds(w, step, "raised", Fresh)
  /\ siteUnchanged

-----------------------------------------------------------------------------
MayPass(w) ==
  IF worker[w].phase = "external_verify"
    THEN active.revision = Candidate(w) /\ MayAnswer
    ELSE AllAlive(processes[Candidate(w)])

MustPass(w) ==
  IF worker[w].phase = "external_verify"
    THEN active.revision = Candidate(w) /\ MustAnswer
    ELSE AllAlive(processes[Candidate(w)])

(* product_release_plan: only on reconciled evidence; the idempotency key, *)
(* so the operation, binds the generation that is planned on.              *)
ReleaseConfirmed(o) == Reconciled /\ base[o] \in {NoPlan, Generation}

(* apply_product_release: the plan is made again before the executor runs. *)
StartRelease(w, o) ==
  /\ ReleaseConfirmed(o)
  /\ Run(w, o)
  /\ base' = [base EXCEPT ![o] = Generation]
  /\ UNCHANGED <<roots, processes, running, active, proxy, deaths, kills, local>>

BackendStep(w) ==
  \/ EnterStart(w) \/ EnterActivate(w) \/ EnterRestore(w) \/ EnterDeactivate(w)
  \/ EnterDrain(w) \/ EnterRemove(w) \/ EnterRuntimeFence(w)
  \/ Materialize(w) \/ Spawn(w) \/ WaitHealthy(w) \/ Abort(w) \/ WriteRecord(w)
  \/ Compare(w) \/ EnsureProxy(w) \/ Point(w)
  \/ ReadCandidate(w) \/ PointBack(w) \/ CheckRestored(w) \/ PointAgain(w)
  \/ Unpoint(w) \/ Stop(w) \/ RemoveRoot(w) \/ CommandFails(w)

ExecutorStep(w) ==
  /\ UNCHANGED productVars
  /\ \/ BeforePhase(w) \/ ControlStops(w) \/ Preflight(w, TRUE)
     \/ PhaseReturned(w) \/ PhaseRaised(w)
     \/ CheckPassed(w, MayPass(w)) \/ CheckFailed(w, MustPass(w))
     \/ Checkpoint(w) \/ Commit(w) \/ CommitRefused(w)
     \/ Undo(w) \/ Compensated(w) \/ Conclude(w)
     \/ worker[w].at # "backup" /\ Abandon(w)

(* A process of a product, or its switch, ends by itself.                  *)
Dies ==
  /\ deaths + kills < MaxMishaps
  /\ deaths' = deaths + 1
  /\ \/ \E p \in running : running' = running \ {p} /\ UNCHANGED proxy
     \/ proxy /\ proxy' = FALSE /\ UNCHANGED running
  /\ UNCHANGED <<executorVars, roots, processes, active, base, kills, local>>

CommandDies(w) ==
  /\ deaths + kills < MaxMishaps
  /\ kills' = kills + 1
  /\ Crash(w)
  /\ local' = [local EXCEPT ![w] = Fresh]
  /\ UNCHANGED <<roots, processes, running, active, proxy, base, deaths>>

(* The product runs the revision the journal names, or was never released. *)
ProductInit ==
  /\ ExecutorInit
  /\ roots = {register} \ {NoRevision}
  /\ processes = [r \in Revisions |-> IF r = register THEN 1..Replicas ELSE {}]
  /\ running = IF register = NoRevision THEN {} ELSE 1..Replicas
  /\ active = IF register = NoRevision THEN Unrouted
              ELSE [revision |-> register, upstreams |-> 1..Replicas]
  /\ proxy = (register # NoRevision)
  /\ base = [o \in Operations |-> NoPlan]
  /\ deaths = 0
  /\ kills = 0
  /\ local = [w \in Workers |-> Fresh]

-----------------------------------------------------------------------------
Clean == \A o \in Operations : state[o] # "failed_uncompensated"

(* When every operation has ended and each reports a clean outcome, the    *)
(* switch names the journal's active revision and, unless processes died   *)
(* by themselves, leads to live processes of it; and no directory of a     *)
(* failed release is left.                                                 *)
ProductMatchesJournal ==
  AtRest /\ Clean =>
    /\ Reconciled
    /\ deaths = 0 => active.upstreams \subseteq running
    /\ \A o \in Operations : state[o] # "succeeded" => RevisionOf[o] \notin roots

=============================================================================
