-------------------------- MODULE OperationJournal --------------------------
(***************************************************************************)
(* The durable operation journal: acceptance, cancellation, the host event *)
(* log, the revision lifecycle, terminal receipts and the active revision  *)
(* of each scope (SQLiteOperationJournal, execution/operation_store.py).   *)
(*                                                                         *)
(* The clients are arbitrary: any worker may present any fence it was ever *)
(* given, and may call any operation of the journal in any order.  A call  *)
(* that raises changes nothing.  The per-operation lease calls and the     *)
(* stand-alone compare-and-swap have no caller in the package and are left *)
(* out; so are operations without an execution input.                      *)
(***************************************************************************)
EXTENDS Integers, Sequences, FiniteSets

CONSTANTS
  Operations, Owners, Scopes, ScopeOf, Ttl, MaxClock, MaxToken,
  NoOwner, NoOperation,
  KeyOf,        \* (actor, operation class, idempotency key) of each operation
  Deadline,     \* the earlier of input deadline and approval expiry
  ClientStates, \* revision states that workers append one at a time,
  ClientEvents, \* operation states their events carry,
  ClientOutcomes, \* and outcomes they commit receipts with
  MaxEvents     \* bound on the length of the host event log

VARIABLES
  now, opLease, scopeLease, issued,   \* the fence, see ExecutionFence
  state,        \* operations.state; "absent" before acceptance
  hostLog,      \* host_events, in cursor order
  lifecycle,    \* revision_lifecycle: the states of each operation's revision
  active,       \* active_revisions: operation and generation of each scope
  receipt,      \* terminal_receipts joined with atomic_success_commits
  cancelled     \* operations with a row in operation_controls

leaseVars == <<now, opLease, scopeLease, issued>>
vars == <<leaseVars, state, hostLog, lifecycle, active, receipt, cancelled>>

ProgressStates == {"executing", "compensating", "cancelling"}
TerminalStates ==
  {"succeeded", "failed_compensated", "failed_uncompensated", "cancelled"}

Accepted == {o \in Operations : state[o] # "absent"}
OpenOperations == {o \in Accepted : state[o] \notin TerminalStates}

INSTANCE ExecutionFence WITH open <- OpenOperations

(* _REVISION_TRANSITIONS                                                   *)
RevisionSuccessors ==
  [created            |-> {"staged", "failed"},
   staged             |-> {"preflight_passed", "failed"},
   preflight_passed   |-> {"starting", "failed"},
   starting           |-> {"ready", "failed"},
   ready              |-> {"traffic_candidate", "active", "failed"},
   traffic_candidate  |-> {"active", "failed"},
   active             |-> {"draining", "rollback_starting"},
   draining           |-> {"inactive", "rollback_starting"},
   inactive           |-> {"garbage_collectable", "rollback_starting"},
   rollback_starting  |-> {"active", "failed"},
   failed             |-> {"garbage_collectable"},
   garbage_collectable |-> {}]

RevisionStates == DOMAIN RevisionSuccessors

ASSUME JournalConstants ==
  /\ ScopeOf \in [Operations -> Scopes]
  /\ Ttl \in Nat \ {0}
  /\ MaxClock \in Nat
  /\ MaxToken \in Nat
  /\ NoOwner \notin Owners
  /\ NoOperation \notin Operations
  /\ ClientStates \subseteq RevisionStates
  /\ ClientEvents \subseteq ProgressStates
  /\ ClientOutcomes \subseteq TerminalStates

NoReceipt == [outcome |-> "none", previous |-> NoOperation, generation |-> 0]
NoActive == [op |-> NoOperation, generation |-> 0]

Last(seq) == seq[Len(seq)]

Event(f, kind, st) ==
  [op |-> f.op, kind |-> kind, state |-> st, token |-> f.token]

-----------------------------------------------------------------------------
(* accept: a key identifies one operation; a retry with the same request   *)
(* returns it, and one with a different request raises.                    *)
Accept(o) ==
  /\ state[o] = "absent"
  /\ \A p \in Accepted : KeyOf[p] # KeyOf[o]
  /\ Deadline[o] > now
  /\ state' = [state EXCEPT ![o] = "accepted"]
  /\ UNCHANGED <<leaseVars, hostLog, lifecycle, active, receipt, cancelled>>

(* Faulty variant: an operation that has ended is cancelled.               *)
CancelTerminal(o) ==
  /\ o \in Accepted
  /\ cancelled' = cancelled \cup {o}
  /\ UNCHANGED <<leaseVars, state, hostLog, lifecycle, active, receipt>>

(* request_cancellation: the first requester is kept.                      *)
RequestCancellation(o) ==
  /\ o \in OpenOperations
  /\ cancelled' = cancelled \cup {o}
  /\ UNCHANGED <<leaseVars, state, hostLog, lifecycle, active, receipt>>

(* Faulty variant: the scope row is not consulted.                         *)
AppendOnOperationLease(f, kind, st) ==
  /\ ActiveLease(f)
  /\ f.op \in OpenOperations
  /\ hostLog' = Append(hostLog, Event(f, kind, st))
  /\ state' = [state EXCEPT ![f.op] = st]
  /\ UNCHANGED <<leaseVars, lifecycle, active, receipt, cancelled>>

(* append, _append_event: only an open operation takes events, and a        *)
(* terminal state only together with its receipt.  The caller's sequence   *)
(* number and digest are those of the log's end: the fence excludes every  *)
(* other writer since it read them.                                        *)
AppendEvent(f, kind, st) ==
  /\ AssertExecutionFence(f)
  /\ f.op \in OpenOperations
  /\ hostLog' = Append(hostLog, Event(f, kind, st))
  /\ state' = [state EXCEPT ![f.op] = st]
  /\ UNCHANGED <<leaseVars, lifecycle, active, receipt, cancelled>>

(* The first lifecycle state is created; later ones follow the table.      *)
RevisionMayBecome(o, r) ==
  IF lifecycle[o] = <<>>
    THEN r = "created"
    ELSE r \in RevisionSuccessors[Last(lifecycle[o])]

(* Faulty variant: the lifecycle of a terminal operation moves on.         *)
AppendAfterTerminal(f, r) ==
  /\ AssertExecutionFence(f)
  /\ RevisionMayBecome(f.op, r)
  /\ lifecycle' = [lifecycle EXCEPT ![f.op] = Append(@, r)]
  /\ UNCHANGED <<leaseVars, state, hostLog, active, receipt, cancelled>>

AppendRevisionState(f, r) ==
  /\ AssertExecutionFence(f)
  /\ f.op \in OpenOperations
  /\ RevisionMayBecome(f.op, r)
  /\ lifecycle' = [lifecycle EXCEPT ![f.op] = Append(@, r)]
  /\ UNCHANGED <<leaseVars, state, hostLog, active, receipt, cancelled>>

(* commit_receipt: the terminal event and the receipt in one transaction.  *)
CommitReceipt(f, outcome) ==
  /\ AssertExecutionFence(f)
  /\ f.op \in OpenOperations
  /\ hostLog' = Append(hostLog, Event(f, "terminal", outcome))
  /\ state' = [state EXCEPT ![f.op] = outcome]
  /\ receipt' = [receipt EXCEPT ![f.op] = [NoReceipt EXCEPT !.outcome = outcome]]
  /\ UNCHANGED <<leaseVars, lifecycle, active, cancelled>>

(* Faulty variant: the predecessor is not compared with the active row.    *)
SuccessOverAnyPredecessor(f, previous) ==
  /\ f.op \in OpenOperations
  /\ f.op \notin cancelled
  /\ Deadline[f.op] > now

(* The control of the operation and the exact predecessor.                 *)
SuccessAllowed(f, previous) ==
  /\ f.op \in OpenOperations
  /\ f.op \notin cancelled
  /\ Deadline[f.op] > now
  /\ active[ScopeOf[f.op]].op = previous

(* commit_success: the compare-and-swap of the active revision from the    *)
(* predecessor the caller read, the completion events, the terminal event  *)
(* and the receipt in one transaction.                                     *)
CommitSuccess(f, previous) ==
  LET o == f.op
      s == ScopeOf[o]
      generation == active[s].generation + 1
  IN  /\ AssertExecutionFence(f)
      /\ SuccessAllowed(f, previous)
      /\ RevisionMayBecome(o, "active")
      /\ \A i \in 1..Len(hostLog) :
           hostLog[i].op = o => hostLog[i].kind # "committed"
      /\ lifecycle' = [lifecycle EXCEPT ![o] = Append(@, "active")]
      /\ active' = [active EXCEPT ![s] = [op |-> o, generation |-> generation]]
      /\ hostLog' = Append(Append(hostLog, Event(f, "committed", "executing")),
                           Event(f, "terminal", "succeeded"))
      /\ state' = [state EXCEPT ![o] = "succeeded"]
      /\ receipt' = [receipt EXCEPT ![o] =
                       [outcome |-> "succeeded", previous |-> previous,
                        generation |-> generation]]
      /\ UNCHANGED <<leaseVars, cancelled>>

(* The fence calls and the clock leave the rest of the journal alone.      *)
LeaseStep ==
  /\ UNCHANGED <<state, hostLog, lifecycle, active, receipt, cancelled>>
  /\ \/ \E o \in Operations, w \in Owners : AcquireFence(o, w)
     \/ \E f \in issued : HeartbeatFence(f)
     \/ \E f \in issued : ReleaseFence(f)
     \/ ClockSample

Init ==
  /\ now \in 0..MaxClock
  /\ opLease = [o \in Operations |-> NoOpLease]
  /\ scopeLease = [s \in Scopes |-> NoScopeLease]
  /\ issued = {}
  /\ state = [o \in Operations |-> "absent"]
  /\ hostLog = <<>>
  /\ lifecycle = [o \in Operations |-> <<>>]
  /\ active = [s \in Scopes |-> NoActive]
  /\ receipt = [o \in Operations |-> NoReceipt]
  /\ cancelled = {}

Next ==
  \/ LeaseStep
  \/ \E o \in Operations : Accept(o)
  \/ \E o \in Operations : RequestCancellation(o)
  \/ /\ Len(hostLog) < MaxEvents
     /\ \E f \in issued, kind \in {"progress", "committed"},
           st \in ClientEvents : AppendEvent(f, kind, st)
  \/ \E f \in issued, r \in ClientStates : AppendRevisionState(f, r)
  \/ \E f \in issued, outcome \in ClientOutcomes : CommitReceipt(f, outcome)
  \/ \E f \in issued, p \in Operations \cup {NoOperation} : CommitSuccess(f, p)

Spec == Init /\ [][Next]_vars

-----------------------------------------------------------------------------
TypeOK ==
  /\ FenceTypeOK
  /\ state \in [Operations -> {"absent", "accepted"} \cup ProgressStates
                                \cup TerminalStates]
  /\ hostLog \in Seq([op : Operations, kind : {"progress", "committed", "terminal"},
                      state : ProgressStates \cup TerminalStates,
                      token : Tokens])
  /\ lifecycle \in [Operations -> Seq(RevisionStates)]
  /\ active \in [Scopes -> [op : Operations \cup {NoOperation},
                            generation : Nat]]
  /\ receipt \in [Operations -> [outcome : TerminalStates \cup {"none"},
                                 previous : Operations \cup {NoOperation},
                                 generation : Nat]]
  /\ cancelled \subseteq Accepted

(* A worker that lost its scope to a newer fence never writes after it:    *)
(* along the host event log the fencing tokens of a scope never decrease,  *)
(* across all operations of the scope.                                     *)
FencedHistory ==
  \A i, j \in 1..Len(hostLog) :
    i < j /\ ScopeOf[hostLog[i].op] = ScopeOf[hostLog[j].op]
      => hostLog[i].token <= hostLog[j].token

(* Receipt, durable state and event log agree on the end of an operation:  *)
(* it is terminal exactly when it has a receipt with that outcome, its     *)
(* terminal event carries that outcome, and no event of it comes later.    *)
TerminalAgreement ==
  /\ \A o \in Operations :
       /\ state[o] \in TerminalStates <=> receipt[o].outcome # "none"
       /\ receipt[o].outcome # "none" =>
            /\ state[o] = receipt[o].outcome
            /\ \E i \in 1..Len(hostLog) :
                 hostLog[i].op = o /\ hostLog[i].kind = "terminal"
  /\ \A i, j \in 1..Len(hostLog) :
       hostLog[i].kind = "terminal" =>
         /\ hostLog[i].state = receipt[hostLog[i].op].outcome
         /\ hostLog[j].op = hostLog[i].op => j <= i

(* Operations whose success was committed by commit_success.               *)
AtomicSuccesses(s) ==
  {o \in OperationsIn(s) : receipt[o].generation # 0}

(* The active revisions of a scope form one chain: its generations are     *)
(* 1..n without gap or repetition, the current row is the last of them,    *)
(* and each receipt names the operation of the generation before as the    *)
(* predecessor it replaced.  No success is lost or forked.                 *)
SuccessChain ==
  \A s \in Scopes :
    /\ {receipt[o].generation : o \in AtomicSuccesses(s)}
         = 1..active[s].generation
    /\ \A o, p \in AtomicSuccesses(s) :
         receipt[o].generation = receipt[p].generation => o = p
    /\ \A o \in AtomicSuccesses(s) :
         /\ receipt[o].outcome = "succeeded"
         /\ receipt[o].generation = active[s].generation => active[s].op = o
         /\ receipt[o].generation = 1 => receipt[o].previous = NoOperation
         /\ receipt[o].generation > 1 =>
              \E p \in AtomicSuccesses(s) :
                /\ receipt[p].generation = receipt[o].generation - 1
                /\ receipt[o].previous = p

(* integrity_check: the operation of an active row ended its lifecycle     *)
(* active, so nothing moved the revision on after it was activated.        *)
ActiveReconciles ==
  \A s \in Scopes :
    active[s].op # NoOperation =>
      /\ lifecycle[active[s].op] # <<>>
      /\ Last(lifecycle[active[s].op]) = "active"

(* A cancellation the journal acknowledged is never followed by an         *)
(* activation, wherever it falls between the worker's checkpoints.         *)
CancelledNeverActivates ==
  \A o \in cancelled : receipt[o].generation = 0

(* Nothing about an operation changes once its receipt is durable: not the *)
(* receipt, its state or lifecycle, no cancellation is recorded, and the   *)
(* host log only grows, by events of other operations.                     *)
TerminalFrozenStep ==
  /\ \A o \in Operations :
       receipt[o].outcome # "none" =>
         /\ receipt'[o] = receipt[o]
         /\ state'[o] = state[o]
         /\ lifecycle'[o] = lifecycle[o]
         /\ o \in cancelled' => o \in cancelled
  /\ Len(hostLog') >= Len(hostLog)
  /\ \A i \in 1..Len(hostLog') :
       IF i <= Len(hostLog)
         THEN hostLog'[i] = hostLog[i]
         ELSE receipt[hostLog'[i].op].outcome = "none"

TerminalFrozen == [][TerminalFrozenStep]_vars

(* The journal implements the ledger.                                      *)
LedgerOutcome ==
  [o \in Operations |->
     IF state[o] = "absent" THEN "none"
     ELSE IF state[o] \in TerminalStates THEN state[o] ELSE "pending"]

Ledger == INSTANCE DeploymentLedger
            WITH outcome <- LedgerOutcome,
                 cancelRequested <- cancelled,
                 register <- active,
                 Outcomes <- TerminalStates

(* The durable outcomes, cancellations and active revisions change only as *)
(* the ledger allows, whatever the workers, their leases and the clock do. *)
LedgerSteps == [][Ledger!LedgerNext]_(Ledger!ledgerVars)

-----------------------------------------------------------------------------
(* The check the journal makes of its own tables every time it is opened   *)
(* (_check_integrity).  A daemon whose journal fails it does not start, so *)
(* a state that the journal's own operations can reach and the check       *)
(* refuses would take the host down at its next restart.  The digests that *)
(* chain and bind the rows are left out: rows are written with the digests *)
(* of what they hold.  What remains is what the rows say of one another.   *)

Cursors == 1..Len(hostLog)

(* The event is the last one of its operation.                             *)
FinalEvent(o, i) ==
  /\ hostLog[i].op = o
  /\ \A j \in Cursors : hostLog[j].op = o => j <= i

TerminalEvent(o, i) == hostLog[i].op = o /\ hostLog[i].state \in TerminalStates

(* "Operation state does not match its final event."                       *)
StateMatchesEvents(o) ==
  /\ (\A i \in Cursors : hostLog[i].op # o) => state[o] = "accepted"
  /\ \A i \in Cursors : FinalEvent(o, i) => state[o] = hostLog[i].state

(* "Terminal event, operation state, and receipt do not reconcile.": one   *)
(* terminal event, the last, if and only if there is a receipt.            *)
ReceiptMatchesEvents(o) ==
  IF receipt[o].outcome = "none"
    THEN /\ state[o] \notin TerminalStates
         /\ \A i \in Cursors : ~TerminalEvent(o, i)
    ELSE /\ state[o] = receipt[o].outcome
         /\ \E i \in Cursors : FinalEvent(o, i) /\ hostLog[i].kind = "terminal"
         /\ \A i \in Cursors : TerminalEvent(o, i) => FinalEvent(o, i)

_verified_events(o) == StateMatchesEvents(o) /\ ReceiptMatchesEvents(o)

(* The first state is created and every later one follows the table.       *)
_verified_revision_history(o) ==
  \A i \in 1..Len(lifecycle[o]) :
    IF i = 1 THEN lifecycle[o][i] = "created"
    ELSE lifecycle[o][i] \in RevisionSuccessors[lifecycle[o][i - 1]]

EndsActive(o) == lifecycle[o] # <<>> /\ Last(lifecycle[o]) = "active"

(* "Execution scope lease does not reconcile with its operation."          *)
ScopeLeasesReconcile == LeasesReconcile

(* "Active revision does not reconcile with lifecycle and input."          *)
ActiveRowsReconcile ==
  \A s \in Scopes :
    active[s].op # NoOperation => active[s].op \in OperationsIn(s) /\ EndsActive(active[s].op)

(* "Atomic success marker does not reconcile ...": every atomic success    *)
(* has its receipt and an active revision, and their generations differ;   *)
(* "Current active revision conflicts with atomic success history."        *)
AtomicSuccessesReconcile ==
  \A s \in Scopes : \A o \in AtomicSuccesses(s) :
    /\ receipt[o].outcome = "succeeded"
    /\ EndsActive(o)
    /\ \A p \in AtomicSuccesses(s) : receipt[p].generation = receipt[o].generation => p = o
    /\ active[s].op # NoOperation
    /\ active[s].generation >= receipt[o].generation
    /\ active[s].generation = receipt[o].generation => active[s].op = o

_check_integrity ==
  /\ \A o \in Accepted : _verified_events(o)
  /\ \A o \in Operations : _verified_revision_history(o)
  /\ ScopeLeasesReconcile
  /\ ActiveRowsReconcile
  /\ AtomicSuccessesReconcile

(* Whatever the clients of the journal did and wherever they stopped, the  *)
(* journal can be opened again: its integrity check passes in every state  *)
(* its operations reach.                                                   *)
JournalReopens == _check_integrity

=============================================================================
