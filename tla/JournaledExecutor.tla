-------------------------- MODULE JournaledExecutor -------------------------
(***************************************************************************)
(* JournaledExecutor (execution/executor.py): workers that drive the       *)
(* accepted operations of one scope through journaled phases, compensate   *)
(* what was interrupted, and recover what a crash left behind.             *)
(*                                                                         *)
(* A worker's fenced journal writes are accepted while ScopeLease lets it  *)
(* hold its fence; the journal's tables themselves are modelled by         *)
(* OperationJournal.  A backend call is entered with step "begin" and ends *)
(* with "returned" or "raised"; the backend module takes the steps between *)
(* (every mutation under RuntimeFence).                                    *)
(*                                                                         *)
(* Reads that are followed by a fenced write before any effect are one     *)
(* step with that write: the write is only accepted if the fence was never *)
(* lost since the read.                                                    *)
(***************************************************************************)
EXTENDS Integers, Sequences, FiniteSets

CONSTANTS
  Operations, Workers, Revisions,
  Owners, OwnerOf,     \* the lease owner id each worker uses
  RevisionOf,          \* the revision each operation deploys
  Faults,              \* which of the failures below may happen
  MaxToken,            \* bound on the number of fences granted
  NoOwner, NoOperation, NoRevision, NoWorker

VARIABLES
  holder, live,        \* the scope's lease, see ScopeLease
  lock, record,        \* the runtime fence, see RuntimeFence
  state,               \* durable operation state
  started, completed,  \* phases with a durable started or completed event
  cancelled,           \* operations with a durable cancellation request
  register,            \* the journal's active revision of the scope
  claim,               \* the active revision each terminal receipt names
  worker               \* the control state of each worker

INSTANCE ScopeLease
INSTANCE RuntimeFence

executorVars ==
  <<holder, live, lock, record, state, started, completed, cancelled,
    register, claim, worker>>

Phases == <<"stage", "preflight", "start_candidate", "readiness_verify",
            "switch_traffic", "external_verify", "drain_previous">>

PhaseNames == {Phases[i] : i \in 1..Len(Phases)}

(* A completed phase of these is skipped; the others observe again.        *)
SkippedWhenCompleted ==
  {"stage", "preflight", "switch_traffic", "drain_previous"}

TerminalStates ==
  {"succeeded", "failed_compensated", "failed_uncompensated", "cancelled"}

Idle ==
  [at |-> "idle", phase |-> "none", op |-> NoOperation, token |-> 0,
   previous |-> NoRevision, step |-> "none", cancel |-> FALSE,
   failed |-> FALSE]

Fence(w) ==
  [op |-> worker[w].op, owner |-> OwnerOf[w], token |-> worker[w].token]

Candidate(w) == RevisionOf[worker[w].op]

Open(o) == state[o] \notin TerminalStates

(* A fenced append to the operation of worker w is accepted.               *)
Writable(w) == Holds(Fence(w)) /\ Open(worker[w].op)

(* The call worker w is in: a phase of the plan or a compensation.         *)
CallOf(w) ==
  IF worker[w].at = "call" THEN worker[w].phase ELSE worker[w].at

(* Where a worker goes when phases 1..i-1 are behind it.                   *)
Forward(r, i, done) ==
  LET todo == {j \in i..Len(Phases) :
                 Phases[j] \notin done \cap SkippedWhenCompleted}
  IN  IF todo = {}
        THEN [r EXCEPT !.at = "checkpoint", !.phase = "none", !.step = "none"]
        ELSE LET p == Phases[CHOOSE j \in todo : \A k \in todo : j <= k]
             IN  [r EXCEPT !.at = IF p \in done THEN "check" ELSE "before",
                           !.phase = p, !.step = "none"]

Index(p) == CHOOSE i \in 1..Len(Phases) : Phases[i] = p

Interrupt(w, cancel) ==
  worker' = [worker EXCEPT ![w].at = "undo", ![w].phase = "none",
                           ![w].step = "none", ![w].cancel = cancel]

journalVars == <<state, started, completed, cancelled, register, claim>>

-----------------------------------------------------------------------------
(* run, _run_fenced: acquire the fence, read the operation and the active  *)
(* revision, and resume: an operation that was already compensating or     *)
(* cancelling goes straight to compensation.                               *)
Run(w, o) ==
  LET r == [Idle EXCEPT !.op = o, !.token = holder'.token,
                        !.previous = register]
  IN  /\ worker[w] = Idle
      /\ Open(o)
      /\ Grant(o, OwnerOf[w]) \/ Reenter(o, OwnerOf[w])
      /\ IF state[o] \in {"compensating", "cancelling"}
           THEN /\ worker' = [worker EXCEPT ![w] =
                     [r EXCEPT !.at = "undo",
                               !.cancel = state[o] = "cancelling"]]
                /\ UNCHANGED state
           ELSE /\ worker' = [worker EXCEPT ![w] =
                     Forward(r, 1, completed[o])]
                /\ state' = [state EXCEPT ![o] = "executing"]
      /\ UNCHANGED <<lock, record, started, completed, cancelled, register,
                     claim>>

(* _before_phase: the control checkpoint, the heartbeat and the durable    *)
(* started event.                                                          *)
BeforePhase(w) ==
  LET o == worker[w].op
      p == worker[w].phase
  IN  /\ worker[w].at = "before"
      /\ o \notin cancelled
      /\ Writable(w)
      /\ started' = [started EXCEPT ![o] = @ \cup {p}]
      /\ worker' = [worker EXCEPT
           ![w].at = IF p \in {"readiness_verify", "external_verify"}
                       THEN "check" ELSE "call",
           ![w].step = IF p \in {"readiness_verify", "external_verify"}
                         THEN "none" ELSE "begin"]
      /\ UNCHANGED <<holder, live, lock, record, state, completed, cancelled,
                     register, claim>>

(* _checkpoint_control raises: cancellation, or the deadline.              *)
ControlStops(w) ==
  /\ worker[w].at \in {"before", "checkpoint"}
  /\ \/ worker[w].op \in cancelled /\ Interrupt(w, TRUE)
     \/ "deadline" \in Faults /\ worker[w].op \notin cancelled
          /\ Interrupt(w, FALSE)
  /\ UNCHANGED <<holder, live, lock, record, journalVars>>

(* backend.preflight, called by the first two phases, on what the backend  *)
(* finds; it may also be blocked by something outside the model.           *)
Preflight(w, ok) ==
  /\ CallOf(w) \in {"stage", "preflight"}
  /\ worker[w].step = "begin"
  /\ \E result \in (IF ok THEN {"returned"} ELSE {}) \cup
         (IF ok => "preflight" \in Faults THEN {"raised"} ELSE {}) :
       worker' = [worker EXCEPT ![w].step = result]
  /\ UNCHANGED <<holder, live, lock, record, journalVars>>

(* _complete_phase                                                         *)
CompletePhase(w) ==
  LET o == worker[w].op
      p == worker[w].phase
      done == completed[o] \cup {p}
  IN  /\ Writable(w)
      /\ completed' = [completed EXCEPT ![o] = done]
      /\ worker' = [worker EXCEPT ![w] = Forward(@, Index(p) + 1, done)]
      /\ UNCHANGED <<holder, live, lock, record, state, started, cancelled,
                     register, claim>>

(* The backend call of a phase returned.  A started candidate is inspected *)
(* and verified before its phase is complete.                              *)
PhaseReturned(w) ==
  /\ worker[w].at = "call"
  /\ worker[w].step = "returned"
  /\ IF worker[w].phase = "start_candidate"
       THEN /\ worker' = [worker EXCEPT ![w].at = "check",
                                        ![w].step = "none"]
            /\ UNCHANGED <<holder, live, lock, record, journalVars>>
       ELSE CompletePhase(w)

PhaseRaised(w) ==
  /\ worker[w].at = "call"
  /\ worker[w].step = "raised"
  /\ Interrupt(w, FALSE)
  /\ UNCHANGED <<holder, live, lock, record, journalVars>>

(* backend.inspect and verify, or verify_active, on what the backend       *)
(* observes; a probe may also fail by itself.                              *)
CheckPassed(w, observed) ==
  /\ worker[w].at = "check"
  /\ observed
  /\ CompletePhase(w)

CheckFailed(w, observed) ==
  /\ worker[w].at = "check"
  /\ ~observed \/ "probe" \in Faults
  /\ Interrupt(w, FALSE)
  /\ UNCHANGED <<holder, live, lock, record, journalVars>>

(* The last control checkpoint, the heartbeat and commit's started event.  *)
Checkpoint(w) ==
  /\ worker[w].at = "checkpoint"
  /\ worker[w].op \notin cancelled
  /\ Writable(w)
  /\ worker' = [worker EXCEPT ![w].at = "commit"]
  /\ UNCHANGED <<holder, live, lock, record, journalVars>>

(* The receipt and the terminal state, then run's release of the fence,    *)
(* which a worker that dies right after its commit leaves to run out.      *)
Finish(w, outcome, named) ==
  /\ Writable(w)
  /\ state' = [state EXCEPT ![worker[w].op] = outcome]
  /\ claim' = [claim EXCEPT ![worker[w].op] = named]
  /\ \/ Release(Fence(w))
     \/ "crash" \in Faults /\ UNCHANGED <<holder, live>>
  /\ worker' = [worker EXCEPT ![w] = Idle]
  /\ UNCHANGED <<lock, record, started, completed, cancelled>>

(* commit_success                                                          *)
Commit(w) ==
  /\ worker[w].at = "commit"
  /\ worker[w].op \notin cancelled
  /\ register = worker[w].previous
  /\ register' = Candidate(w)
  /\ Finish(w, "succeeded", Candidate(w))

(* commit_success raises: cancelled or expired since the checkpoint.       *)
CommitRefused(w) ==
  /\ worker[w].at = "commit"
  /\ worker[w].op \in cancelled \/ "deadline" \in Faults
  /\ Interrupt(w, FALSE)
  /\ UNCHANGED <<holder, live, lock, record, journalVars>>

-----------------------------------------------------------------------------

(* _finish_interrupted: which compensation is due, from durable events.    *)
Compensation(w) ==
  LET begun == "start_candidate" \in started[worker[w].op]
      switched == "switch_traffic" \in started[worker[w].op]
      first == worker[w].previous = NoRevision
  IN  CASE ~begun -> "conclude"
        [] begun /\ ~first -> "restore"
        [] begun /\ first /\ switched -> "deactivate"
        [] OTHER -> "remove"

Undo(w) ==
  LET o == worker[w].op
  IN  /\ worker[w].at = "undo"
      /\ Writable(w)
      /\ state' = [state EXCEPT ![o] =
                     IF worker[w].cancel THEN "cancelling" ELSE "compensating"]
      /\ worker' = [worker EXCEPT
           ![w].at = Compensation(w),
           ![w].step = IF Compensation(w) = "conclude" THEN "none"
                                                       ELSE "begin"]
      /\ UNCHANGED <<holder, live, lock, record, started, completed,
                     cancelled, register, claim>>

(* Faulty variant: a compensation ends when the predecessor is back.       *)
CompensatedByRestore(w) ==
  /\ worker[w].at \in {"restore", "deactivate", "remove"}
  /\ worker[w].step \in {"returned", "raised"}
  /\ worker' = [worker EXCEPT ![w].at = "conclude", ![w].step = "none",
                              ![w].failed = worker[w].step = "raised"]
  /\ UNCHANGED <<holder, live, lock, record, journalVars>>

(* A compensation call ended: the candidate is removed once the            *)
(* predecessor is back, and anything raised makes the compensation failed. *)
Compensated(w) ==
  /\ worker[w].at \in {"restore", "deactivate", "remove"}
  /\ worker[w].step \in {"returned", "raised"}
  /\ worker' =
       IF worker[w].step = "returned" /\ worker[w].at # "remove"
         THEN [worker EXCEPT ![w].at = "remove", ![w].step = "begin"]
         ELSE [worker EXCEPT ![w].at = "conclude", ![w].step = "none",
                             ![w].failed = worker[w].step = "raised"]
  /\ UNCHANGED <<holder, live, lock, record, journalVars>>

(* The terminal receipt of an interrupted operation.                       *)
Conclude(w) ==
  /\ worker[w].at = "conclude"
  /\ IF worker[w].failed
       THEN Finish(w, "failed_uncompensated", NoRevision)
       ELSE Finish(w, IF worker[w].cancel THEN "cancelled"
                                          ELSE "failed_compensated",
                   worker[w].previous)
  /\ UNCHANGED register

-----------------------------------------------------------------------------
(* A worker whose write is refused stops at its next journal write or      *)
(* heartbeat check; inside a backend call it goes on to the end of it.     *)
Abandon(w) ==
  /\ worker[w].at # "idle"
  /\ worker[w].step \in {"none", "returned", "raised"}
  /\ ~Writable(w)
  /\ worker' = [worker EXCEPT ![w] = Idle]
  /\ UNCHANGED <<holder, live, lock, record, journalVars>>

(* The bound on disturbances: each open operation can still get a fence.   *)
TokensToSpare ==
  holder.token + Cardinality({o \in Operations : Open(o)}) <= MaxToken

Crash(w) ==
  /\ "crash" \in Faults
  /\ TokensToSpare
  /\ worker[w].at # "idle"
  /\ worker' = [worker EXCEPT ![w] = Idle]
  /\ ProcessEnds(w)
  /\ UNCHANGED <<holder, live, journalVars>>

(* The heartbeat thread renews the lease of a running worker, unless the   *)
(* process is stalled or the journal is unreachable.                       *)
LeaseRunsOut ==
  /\ TokensToSpare
  /\ \/ "stall" \in Faults
     \/ \A w \in Workers : worker[w].at # "idle" => Fence(w) # holder
  /\ Lapse
  /\ UNCHANGED <<lock, record, journalVars, worker>>

ClockStepsBack ==
  /\ "clock" \in Faults
  /\ Revive
  /\ UNCHANGED <<lock, record, journalVars, worker>>

RequestCancellation(o) ==
  /\ "cancel" \in Faults
  /\ Open(o)
  /\ cancelled' = cancelled \cup {o}
  /\ UNCHANGED <<holder, live, lock, record, state, started, completed,
                 register, claim, worker>>

(* The daemon finds nothing to recover.                                    *)
NothingToRecover ==
  /\ \A o \in Operations : ~Open(o)
  /\ \A w \in Workers : worker[w] = Idle
  /\ UNCHANGED executorVars

-----------------------------------------------------------------------------
(* The steps of a backend call that every backend shares: waiting for the  *)
(* runtime fence, one mutation inside it, and an error that unwinds it.    *)
Token(w) == worker[w].token

EntersFence(w, first) ==
  /\ worker[w].step = "wait"
  /\ \/ /\ EnterFence(w, worker[w].op, Token(w))
        /\ worker' = [worker EXCEPT ![w].step = first]
     \/ /\ RejectedByFence(worker[w].op, Token(w))
        /\ worker' = [worker EXCEPT ![w].step = "raised"]
  /\ UNCHANGED <<holder, live, journalVars>>

Mutates(w, call, step, next) ==
  /\ lock = w
  /\ CallOf(w) = call
  /\ worker[w].step = step
  /\ worker' = [worker EXCEPT ![w].step = next]
  /\ UNCHANGED <<holder, live, record, journalVars>>
  /\ IF next \in {"returned", "raised"} THEN LeaveFence(w) ELSE UNCHANGED lock

Raises(w) ==
  /\ LeaveFence(w)
  /\ worker' = [worker EXCEPT ![w].step = "raised"]
  /\ UNCHANGED <<holder, live, journalVars>>

-----------------------------------------------------------------------------
ExecutorInit ==
  /\ LeaseInit
  /\ RuntimeFenceInit
  /\ state = [o \in Operations |-> "accepted"]
  /\ started = [o \in Operations |-> {}]
  /\ completed = [o \in Operations |-> {}]
  /\ cancelled = {}
  /\ register \in Revisions \cup {NoRevision}
  /\ claim = [o \in Operations |-> NoRevision]
  /\ worker = [w \in Workers |-> Idle]

ExecutorTypeOK ==
  /\ holder.token \in 0..MaxToken
  /\ live \in BOOLEAN
  /\ lock \in Workers \cup {NoWorker}
  /\ record.token \in 0..MaxToken
  /\ state \in [Operations -> {"accepted", "executing", "compensating",
                               "cancelling"} \cup TerminalStates]
  /\ started \in [Operations -> SUBSET PhaseNames]
  /\ completed \in [Operations -> SUBSET PhaseNames]
  /\ cancelled \subseteq Operations
  /\ register \in Revisions \cup {NoRevision}
  /\ claim \in [Operations -> Revisions \cup {NoRevision}]
  /\ DOMAIN worker = Workers

(* No worker, however stale, is inside the runtime fence on behalf of an   *)
(* operation whose receipt is durable: a reported outcome is final for the *)
(* runtime too.                                                            *)
NoEffectAfterReceipt ==
  lock # NoWorker => Open(worker[lock].op)

AtRest == \A o \in Operations : ~Open(o)

(* Once processes stop crashing, every accepted operation gets a receipt:  *)
(* it succeeds, or is compensated, or is reported as uncompensated.        *)
CrashesStop == <>[][\A w \in Workers : ~Crash(w)]_executorVars

EveryOperationEnds ==
  CrashesStop => \A o \in Operations : <>~Open(o)

=============================================================================
