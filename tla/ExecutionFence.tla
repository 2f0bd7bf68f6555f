--------------------------- MODULE ExecutionFence ---------------------------
(***************************************************************************)
(* The application-scoped execution fence of the operation journal:        *)
(* SQLiteOperationJournal.acquire_fence, heartbeat_fence, release_fence    *)
(* and the checks every fenced write makes                                 *)
(* (execution/operation_store.py).                                         *)
(*                                                                         *)
(* Each journal call is one BEGIN IMMEDIATE transaction, hence one atomic  *)
(* action.  A call that raises LeaseConflict or OperationConflict rolls    *)
(* back and is a stuttering step.  The clock is the wall clock: a sample   *)
(* may be smaller than the one before it, and nothing here assumes         *)
(* otherwise.                                                              *)
(*                                                                         *)
(* A worker keeps the fence it was given for as long as it likes, paused   *)
(* or not, so every fence ever issued may be presented at any later time.  *)
(***************************************************************************)
EXTENDS Integers, FiniteSets

CONSTANTS
  Operations,   \* operation ids
  Owners,       \* lease owner ids
  Scopes,       \* (host, app, environment) triples
  ScopeOf,      \* the scope each operation was accepted for
  Ttl,          \* lease_ttl_seconds
  MaxClock,     \* bound: clock samples are 0..MaxClock
  MaxToken,     \* bound: fencing tokens are 1..MaxToken
  NoOwner,      \* SQL NULL in owner_id
  NoOperation   \* the operation of a scope that has no lease row

ASSUME FenceConstants ==
  /\ ScopeOf \in [Operations -> Scopes]
  /\ Ttl \in Nat \ {0}
  /\ MaxClock \in Nat
  /\ MaxToken \in Nat
  /\ NoOwner \notin Owners
  /\ NoOperation \notin Operations

VARIABLES
  now,          \* the current wall-clock sample
  opLease,      \* table operation_leases; token 0 stands for "no row"
  scopeLease,   \* table execution_scope_leases; token 0 stands for "no row"
  issued,       \* every ExecutionFence acquire_fence has returned
  open          \* operations whose durable state is not terminal

fenceVars == <<now, opLease, scopeLease, issued, open>>

Tokens == 1..MaxToken

Fence == [op : Operations, owner : Owners, token : Tokens]

OperationsIn(s) == {o \in Operations : ScopeOf[o] = s}

NoOpLease == [owner |-> NoOwner, token |-> 0, expires |-> 0]

NoScopeLease ==
  [op |-> NoOperation, owner |-> NoOwner, token |-> 0, expires |-> 0]

LeaseActive(lease) == lease.owner # NoOwner /\ lease.expires > now

(* _active_lease: the operation's own row still names this fence.          *)
ActiveLease(f) ==
  /\ opLease[f.op].owner = f.owner
  /\ opLease[f.op].token = f.token
  /\ opLease[f.op].expires > now

(* _active_scope_lease: so does the row of its scope.                      *)
ActiveScopeLease(f) ==
  LET row == scopeLease[ScopeOf[f.op]]
  IN  /\ row.op = f.op
      /\ row.owner = f.owner
      /\ row.token = f.token
      /\ row.expires > now

(* Faulty variant: the token is not compared.                              *)
OwnerOnly(f) ==
  LET row == scopeLease[ScopeOf[f.op]]
  IN  row.op = f.op /\ row.owner = f.owner /\ row.expires > now

(* _assert_execution_fence, and _assert_fence for an operation that has an *)
(* execution input (every accepted operation of this model has one).       *)
AssertExecutionFence(f) == ActiveLease(f) /\ ActiveScopeLease(f)

-----------------------------------------------------------------------------
Larger(a, b) == IF a >= b THEN a ELSE b

PreviousTokens(s) ==
  {scopeLease[s].token} \cup {opLease[p].token : p \in OperationsIn(s)}

(* No row of the scope is held by another operation or another owner.      *)
ScopeFreeFor(o, w) ==
  LET s == ScopeOf[o]
  IN  /\ \A p \in OperationsIn(s) :
            LeaseActive(opLease[p]) => p = o /\ opLease[p].owner = w
      /\ LeaseActive(scopeLease[s]) =>
            scopeLease[s].op = o /\ scopeLease[s].owner = w

WriteLeases(o, w, token, expires) ==
  /\ opLease' =
       [opLease EXCEPT ![o] =
          [owner |-> w, token |-> token, expires |-> expires]]
  /\ scopeLease' =
       [scopeLease EXCEPT ![ScopeOf[o]] =
          [op |-> o, owner |-> w, token |-> token, expires |-> expires]]

(* An active scope lease is re-entered by its own operation and owner with *)
(* the token it already has; otherwise the token is one more than any the  *)
(* scope has seen.                                                         *)
AcquireFence(o, w) ==
  LET lease == scopeLease[ScopeOf[o]]
  IN  /\ o \in open
      /\ ScopeFreeFor(o, w)
      /\ \E token \in Tokens :
           /\ IF LeaseActive(lease)
                THEN /\ token = lease.token
                     /\ WriteLeases(o, w, token,
                                    Larger(lease.expires, now + Ttl))
                ELSE /\ \E last \in PreviousTokens(ScopeOf[o]) :
                          /\ \A t \in PreviousTokens(ScopeOf[o]) : t <= last
                          /\ token = last + 1
                     /\ WriteLeases(o, w, token, now + Ttl)
           /\ issued' = issued \cup {[op |-> o, owner |-> w, token |-> token]}
      /\ UNCHANGED <<now, open>>

HeartbeatFence(f) ==
  /\ AssertExecutionFence(f)
  /\ WriteLeases(f.op, f.owner, f.token,
       Larger(Larger(opLease[f.op].expires, scopeLease[ScopeOf[f.op]].expires),
              now + Ttl))
  /\ UNCHANGED <<now, issued, open>>

(* Faulty variant: releasing deletes the rows, and with them the token.    *)
ReleaseForgetsToken(f) ==
  /\ AssertExecutionFence(f)
  /\ opLease' = [opLease EXCEPT ![f.op] = NoOpLease]
  /\ scopeLease' = [scopeLease EXCEPT ![ScopeOf[f.op]] = NoScopeLease]
  /\ UNCHANGED <<now, issued, open>>

(* The owner is cleared and the token kept, so the next token is larger.   *)
ReleaseFence(f) ==
  /\ AssertExecutionFence(f)
  /\ WriteLeases(f.op, NoOwner, f.token, now)
  /\ UNCHANGED <<now, issued, open>>

(* Acceptance: an operation is accepted once, before any lease exists.     *)
AcceptOperation(o) ==
  /\ o \notin open
  /\ opLease[o] = NoOpLease
  /\ open' = open \cup {o}
  /\ UNCHANGED <<now, opLease, scopeLease, issued>>

(* A terminal receipt is committed under the fence of its operation.       *)
CloseOperation(f) ==
  /\ AssertExecutionFence(f)
  /\ f.op \in open
  /\ open' = open \ {f.op}
  /\ UNCHANGED <<now, opLease, scopeLease, issued>>

(* The host's clock: any sample, forwards or backwards.                    *)
ClockSample ==
  /\ now' \in 0..MaxClock
  /\ UNCHANGED <<opLease, scopeLease, issued, open>>

FenceInit ==
  /\ now \in 0..MaxClock
  /\ opLease = [o \in Operations |-> NoOpLease]
  /\ scopeLease = [s \in Scopes |-> NoScopeLease]
  /\ issued = {}
  /\ open = {}

FenceNext ==
  \/ \E o \in Operations : AcceptOperation(o)
  \/ \E o \in Operations, w \in Owners : AcquireFence(o, w)
  \/ \E f \in issued : HeartbeatFence(f)
  \/ \E f \in issued : ReleaseFence(f)
  \/ \E f \in issued : CloseOperation(f)
  \/ ClockSample

FenceSpec == FenceInit /\ [][FenceNext]_fenceVars

-----------------------------------------------------------------------------
FenceTypeOK ==
  /\ now \in 0..MaxClock
  /\ opLease \in [Operations -> [owner : Owners \cup {NoOwner},
                                 token : 0..MaxToken,
                                 expires : 0..(MaxClock + Ttl)]]
  /\ scopeLease \in [Scopes -> [op : Operations \cup {NoOperation},
                                owner : Owners \cup {NoOwner},
                                token : 0..MaxToken,
                                expires : 0..(MaxClock + Ttl)]]
  /\ issued \subseteq Fence
  /\ open \subseteq Operations

(* integrity_check, "Execution scope lease does not reconcile with its     *)
(* operation": a scope row names an operation of that scope, agrees with   *)
(* that operation's own row in owner, token and expiry, and no operation   *)
(* of the scope has a larger token.                                        *)
LeasesReconcile ==
  \A s \in Scopes :
    scopeLease[s].token # 0 =>
      LET row == scopeLease[s]
      IN  /\ row.op \in OperationsIn(s)
          /\ opLease[row.op] =
               [owner |-> row.owner, token |-> row.token,
                expires |-> row.expires]
          /\ \A p \in OperationsIn(s) : opLease[p].token <= row.token

(* Mutual exclusion of fenced writes, whatever the clock does: two fences  *)
(* of one scope that the journal would both accept now are the same fence. *)
OneFencePerScope ==
  \A f, g \in issued :
    /\ ScopeOf[f.op] = ScopeOf[g.op]
    /\ AssertExecutionFence(f)
    /\ AssertExecutionFence(g)
    => f = g

(* A stale worker is fenced off for good: once a newer token of its scope  *)
(* exists, no clock sample and no later call makes its fence valid again.  *)
NewerTokenWins ==
  \A f, g \in issued :
    ScopeOf[f.op] = ScopeOf[g.op] /\ f.token < g.token
      => ~AssertExecutionFence(f)

(* acquire_fence never hands one token of a scope to two operations or two *)
(* owners: a fence not issued before carries a token above all earlier     *)
(* ones of its scope.                                                      *)
FreshTokenStep ==
  \A f \in issued' \ issued :
    \A g \in issued : ScopeOf[f.op] = ScopeOf[g.op] => g.token < f.token

TokensOnlyGrow == [][FreshTokenStep]_fenceVars

(* The lease of one scope as its workers see it.                           *)
LeaseOf(s) == INSTANCE ScopeLease
                WITH holder <- [op |-> scopeLease[s].op,
                                owner |-> scopeLease[s].owner,
                                token |-> scopeLease[s].token],
                     live <- LeaseActive(scopeLease[s]),
                     Operations <- OperationsIn(s)

(* Each scope's lease changes only as ScopeLease allows, whatever the      *)
(* rows of the scope's other operations and the clock do.                  *)
ScopeLeaseStep(s) == LeaseOf(s)!LeaseNext \/ UNCHANGED LeaseOf(s)!leaseVars

ImplementsScopeLease ==
  /\ \A s \in Scopes : LeaseOf(s)!LeaseInit
  /\ [][\A s \in Scopes : ScopeLeaseStep(s)]_fenceVars

=============================================================================
