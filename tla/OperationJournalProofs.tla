----------------------- MODULE OperationJournalProofs -----------------------
(***************************************************************************)
(* The types of the journal's tables, its fence and its event log, for any *)
(* number of operations, owners and scopes, any clock, and clients that    *)
(* call it in any order with any fence they were ever given.  Then its     *)
(* receipts and active revisions: how an operation ends, that its end is   *)
(* final, the chain of activations of a scope, that the journal implements *)
(* the ledger, and that it passes the check it makes when it is opened.    *)
(***************************************************************************)
EXTENDS OperationJournal, TLAPS

EventRecord ==
  [op : Operations, kind : {"progress", "committed", "terminal"},
   state : ProgressStates \cup TerminalStates, token : Tokens]

OperationStates ==
  {"absent", "accepted"} \cup ProgressStates \cup TerminalStates

ActiveRow == [op : Operations \cup {NoOperation}, generation : Nat]

ReceiptRow ==
  [outcome : TerminalStates \cup {"none"},
   previous : Operations \cup {NoOperation}, generation : Nat]

RowTypes ==
  /\ state \in [Operations -> OperationStates]
  /\ hostLog \in Seq(EventRecord)
  /\ lifecycle \in [Operations -> Seq(RevisionStates)]
  /\ active \in [Scopes -> ActiveRow]
  /\ receipt \in [Operations -> ReceiptRow]
  /\ cancelled \subseteq Accepted

(* An operation has no lease row before it is accepted.                    *)
AbsentUnleased ==
  \A o \in Operations : state[o] = "absent" => opLease[o] = NoOpLease

TypeInv == FenceTypeOK /\ RowTypes /\ AbsentUnleased

-----------------------------------------------------------------------------
(* Leaves are first-order and go to Zenon; those with arithmetic or        *)
(* records cite SMT.                                                       *)
USE Zenon

(* Every fence a client can present is well formed.                        *)
LEMMA IssuedFences ==
  ASSUME FenceTypeOK, NEW f \in issued
  PROVE  f.op \in Operations /\ f.owner \in Owners /\ f.token \in Tokens
  BY DEF FenceTypeOK, Fence, Tokens

(* A call under a fence that an operation's own row does not carry is      *)
(* refused, so a fenced call is never for an absent operation.             *)
LEMMA FencedIsAccepted ==
  ASSUME TypeInv, NEW f \in issued, AssertExecutionFence(f)
  PROVE  f.op \in Accepted
<1>1. f.op \in Operations /\ f.owner \in Owners
  BY IssuedFences DEF TypeInv
<1>2. opLease[f.op].owner = f.owner
  BY DEF AssertExecutionFence, ActiveLease
<1>3. opLease[f.op] # NoOpLease
  BY SMT, <1>1, <1>2, JournalConstants DEF NoOpLease
<1> QED BY <1>1, <1>3 DEF TypeInv, AbsentUnleased, Accepted

(* Setting the state of an accepted operation opens or closes just it.     *)
LEMMA OpenAfter ==
  ASSUME RowTypes, NEW o \in Operations, NEW st \in OperationStates,
         state' = [state EXCEPT ![o] = st]
  PROVE  OpenOperations' =
           IF st \in TerminalStates \cup {"absent"}
             THEN OpenOperations \ {o} ELSE OpenOperations \cup {o}
  BY DEF RowTypes, OpenOperations, Accepted

(* Written with a typed token and expiry, the rows keep their types.       *)
LEMMA LeaseRowTypes ==
  ASSUME FenceTypeOK, NEW o \in Operations, NEW w \in Owners \cup {NoOwner},
         NEW token \in 0..MaxToken, NEW e \in 0..(MaxClock + Ttl),
         WriteLeases(o, w, token, e)
  PROVE  /\ opLease' \in [Operations -> [owner : Owners \cup {NoOwner},
                                         token : 0..MaxToken,
                                         expires : 0..(MaxClock + Ttl)]]
         /\ scopeLease' \in [Scopes -> [op : Operations \cup {NoOperation},
                                        owner : Owners \cup {NoOwner},
                                        token : 0..MaxToken,
                                        expires : 0..(MaxClock + Ttl)]]
  BY JournalConstants DEF FenceTypeOK, WriteLeases

(* The lease calls and the clock keep the types of the lease tables.       *)
LEMMA LeaseTypesStep ==
  ASSUME FenceTypeOK, RowTypes, LeaseStep
  PROVE  FenceTypeOK'
<1>1. OpenOperations' \subseteq Operations
  BY DEF OpenOperations, Accepted
<1>2. now \in 0..(MaxClock + Ttl) /\ now + Ttl \in 0..(MaxClock + Ttl)
  BY SMT, JournalConstants DEF FenceTypeOK
<1>3. Tokens \subseteq 0..MaxToken
  BY SMT, JournalConstants DEF Tokens
<1>4. ASSUME NEW o \in Operations, NEW w \in Owners, AcquireFence(o, w)
      PROVE  FenceTypeOK'
  <2>1. scopeLease[ScopeOf[o]].expires \in 0..(MaxClock + Ttl)
    BY JournalConstants DEF FenceTypeOK
  <2>2. Larger(scopeLease[ScopeOf[o]].expires, now + Ttl)
          \in 0..(MaxClock + Ttl)
    BY <1>2, <2>1 DEF Larger
  <2>3. PICK token \in Tokens, e \in 0..(MaxClock + Ttl) :
          /\ WriteLeases(o, w, token, e)
          /\ issued' = issued \cup {[op |-> o, owner |-> w, token |-> token]}
    BY <1>2, <1>4, <2>2 DEF AcquireFence
  <2>4. issued' \subseteq Fence /\ now' = now
    BY SMT, <1>4, <2>3 DEF AcquireFence, FenceTypeOK, Fence
  <2> QED BY <1>1, <1>3, <2>3, <2>4, LeaseRowTypes DEF FenceTypeOK
<1>5. ASSUME NEW f \in issued, HeartbeatFence(f) \/ ReleaseFence(f)
      PROVE  FenceTypeOK'
  <2>1. /\ f.op \in Operations /\ f.owner \in Owners /\ f.token \in Tokens
        /\ opLease[f.op].expires \in 0..(MaxClock + Ttl)
        /\ scopeLease[ScopeOf[f.op]].expires \in 0..(MaxClock + Ttl)
    BY JournalConstants, IssuedFences DEF FenceTypeOK
  <2>2. Larger(Larger(opLease[f.op].expires,
                      scopeLease[ScopeOf[f.op]].expires), now + Ttl)
          \in 0..(MaxClock + Ttl)
    BY <1>2, <2>1 DEF Larger
  <2>3. PICK w \in Owners \cup {NoOwner}, e \in 0..(MaxClock + Ttl) :
          WriteLeases(f.op, w, f.token, e)
    BY <1>2, <1>5, <2>1, <2>2 DEF HeartbeatFence, ReleaseFence
  <2>4. UNCHANGED <<now, issued>>
    BY <1>5 DEF HeartbeatFence, ReleaseFence
  <2> QED BY <1>1, <1>3, <2>1, <2>3, <2>4, LeaseRowTypes DEF FenceTypeOK
<1>6. CASE ClockSample
  BY <1>1, <1>6 DEF ClockSample, FenceTypeOK
<1> QED BY <1>4, <1>5, <1>6 DEF LeaseStep

(* What appending does to a sequence.                                      *)
LEMMA Appended ==
  ASSUME NEW S, NEW q \in Seq(S), NEW e \in S
  PROVE  /\ Append(q, e) \in Seq(S)
         /\ Len(Append(q, e)) = Len(q) + 1
         /\ Append(q, e)[Len(q) + 1] = e
         /\ \A i \in 1..Len(q) : Append(q, e)[i] = q[i]
         /\ Append(q, e) # <<>>
  BY SMT

(* The events a fenced call appends have their types.                      *)
LEMMA EventTypes ==
  ASSUME FenceTypeOK, NEW f \in issued,
         NEW kind \in {"progress", "committed", "terminal"},
         NEW st \in ProgressStates \cup TerminalStates
  PROVE  Event(f, kind, st) \in EventRecord
  BY IssuedFences DEF Event, EventRecord

(* The journal's tables keep their types.                                  *)
LEMMA RowTypesStep ==
  ASSUME TypeInv, [Next]_vars
  PROVE  RowTypes'
<1> USE DEF TypeInv
<1>1. CASE LeaseStep
  BY <1>1 DEF LeaseStep, RowTypes, Accepted
<1>2. ASSUME NEW o \in Operations, Accept(o)
      PROVE  RowTypes'
  BY <1>2 DEF Accept, RowTypes, Accepted, OperationStates
<1>3. ASSUME NEW o \in Operations, RequestCancellation(o)
      PROVE  RowTypes'
  BY <1>3 DEF RequestCancellation, RowTypes, Accepted, OpenOperations
<1>4. ASSUME NEW o \in Operations,
             NEW st \in ProgressStates \cup TerminalStates,
             state' = [state EXCEPT ![o] = st], UNCHANGED cancelled
      PROVE  /\ state' \in [Operations -> OperationStates]
             /\ cancelled' \subseteq Accepted'
  BY <1>4 DEF RowTypes, Accepted, OperationStates, ProgressStates,
              TerminalStates
<1>5. ASSUME NEW f \in issued, NEW kind \in {"progress", "committed"},
             NEW st \in ClientEvents, AppendEvent(f, kind, st)
      PROVE  RowTypes'
  <2>1. f.op \in Operations /\ st \in ProgressStates \cup TerminalStates
    BY IssuedFences, JournalConstants
  <2>2. Event(f, kind, st) \in EventRecord
    BY <2>1, EventTypes
  <2>3. hostLog' \in Seq(EventRecord)
    BY <1>5, <2>2, Appended DEF AppendEvent, RowTypes
  <2> QED BY <1>4, <1>5, <2>1, <2>3 DEF AppendEvent, RowTypes
<1>6. ASSUME NEW f \in issued, NEW r \in RevisionStates,
             lifecycle' = [lifecycle EXCEPT ![f.op] = Append(@, r)]
      PROVE  lifecycle' \in [Operations -> Seq(RevisionStates)]
  <2>1. f.op \in Operations /\ lifecycle[f.op] \in Seq(RevisionStates)
    BY IssuedFences DEF RowTypes
  <2>2. Append(lifecycle[f.op], r) \in Seq(RevisionStates)
    BY <2>1, Appended
  <2> QED BY <1>6, <2>1, <2>2 DEF RowTypes
<1>7. ASSUME NEW f \in issued, NEW r \in ClientStates,
             AppendRevisionState(f, r)
      PROVE  RowTypes'
  BY <1>6, <1>7, JournalConstants DEF AppendRevisionState, RowTypes, Accepted
<1>8. ASSUME NEW f \in issued, NEW outcome \in ClientOutcomes,
             CommitReceipt(f, outcome)
      PROVE  RowTypes'
  <2>1. f.op \in Operations /\ outcome \in ProgressStates \cup TerminalStates
    BY IssuedFences, JournalConstants
  <2>2. Event(f, "terminal", outcome) \in EventRecord
    BY <2>1, EventTypes
  <2>3. hostLog' \in Seq(EventRecord)
    BY <1>8, <2>2, Appended DEF CommitReceipt, RowTypes
  <2>4. [NoReceipt EXCEPT !.outcome = outcome] \in ReceiptRow
    BY JournalConstants DEF NoReceipt, ReceiptRow
  <2>5. receipt' \in [Operations -> ReceiptRow]
    BY <1>8, <2>1, <2>4 DEF CommitReceipt, RowTypes
  <2> QED BY <1>4, <1>8, <2>1, <2>3, <2>5 DEF CommitReceipt, RowTypes
<1>9. ASSUME NEW f \in issued, NEW p \in Operations \cup {NoOperation},
             CommitSuccess(f, p)
      PROVE  RowTypes'
  <2>1. /\ f.op \in Operations /\ ScopeOf[f.op] \in Scopes
        /\ "succeeded" \in TerminalStates
        /\ "executing" \in ProgressStates
        /\ "active" \in RevisionStates
    BY IssuedFences, JournalConstants
    DEF TerminalStates, ProgressStates, RevisionStates, RevisionSuccessors
  <2>2. /\ Event(f, "committed", "executing") \in EventRecord
        /\ Event(f, "terminal", "succeeded") \in EventRecord
    BY <2>1, EventTypes
  <2>3. hostLog' \in Seq(EventRecord)
    BY <1>9, <2>2, Appended DEF CommitSuccess, RowTypes
  <2>4. active[ScopeOf[f.op]].generation + 1 \in Nat
    BY SMT, <2>1 DEF RowTypes, ActiveRow
  <2>5. receipt' \in [Operations -> ReceiptRow]
    <3>1. [outcome |-> "succeeded", previous |-> p,
           generation |-> active[ScopeOf[f.op]].generation + 1] \in ReceiptRow
      BY <2>1, <2>4 DEF ReceiptRow
    <3> QED BY <1>9, <2>1, <3>1 DEF CommitSuccess, RowTypes
  <2>6. active' \in [Scopes -> ActiveRow]
    <3>1. [op |-> f.op, generation |-> active[ScopeOf[f.op]].generation + 1]
            \in ActiveRow
      BY <2>1, <2>4 DEF ActiveRow
    <3> QED BY <1>9, <2>1, <3>1 DEF CommitSuccess, RowTypes
  <2>7. lifecycle' \in [Operations -> Seq(RevisionStates)]
    BY <1>6, <1>9, <2>1 DEF CommitSuccess
  <2>8. state' \in [Operations -> OperationStates]
        /\ cancelled' \subseteq Accepted'
    BY <1>4, <1>9, <2>1 DEF CommitSuccess
  <2> QED BY <2>3, <2>5, <2>6, <2>7, <2>8 DEF RowTypes
<1>10. CASE UNCHANGED vars
  BY <1>10 DEF vars, RowTypes, Accepted
<1> QED
  BY <1>1, <1>2, <1>3, <1>5, <1>7, <1>8, <1>9, <1>10 DEF Next

(* No lease row appears before its operation is accepted, and no operation *)
(* becomes absent again.                                                   *)
LEMMA AbsentUnleasedStep ==
  ASSUME TypeInv, [Next]_vars
  PROVE  AbsentUnleased'
<1> USE DEF TypeInv
<1>1. ASSUME NEW o \in Accepted, state' = state,
             \A p \in Operations \ {o} : opLease'[p] = opLease[p]
      PROVE  AbsentUnleased'
  BY <1>1 DEF AbsentUnleased, Accepted
<1>2. ASSUME NEW o \in Operations, NEW w, NEW token, NEW expires,
             WriteLeases(o, w, token, expires)
      PROVE  \A p \in Operations \ {o} : opLease'[p] = opLease[p]
  BY <1>2 DEF WriteLeases, FenceTypeOK
<1>3. CASE LeaseStep
  <2>1. ASSUME NEW o \in Operations, NEW w \in Owners, AcquireFence(o, w)
        PROVE  AbsentUnleased'
    <3>1. o \in Accepted
      BY <2>1 DEF AcquireFence, OpenOperations
    <3>2. \A p \in Operations \ {o} : opLease'[p] = opLease[p]
      BY <2>1, <1>2 DEF AcquireFence
    <3> QED BY <1>1, <1>3, <3>1, <3>2 DEF LeaseStep
  <2>2. ASSUME NEW f \in issued, HeartbeatFence(f) \/ ReleaseFence(f)
        PROVE  AbsentUnleased'
    <3>1. f.op \in Accepted
      BY <2>2, FencedIsAccepted DEF HeartbeatFence, ReleaseFence
    <3>2. \A p \in Operations \ {f.op} : opLease'[p] = opLease[p]
      BY <2>2, <1>2, <3>1 DEF HeartbeatFence, ReleaseFence, Accepted
    <3> QED BY <1>1, <1>3, <3>1, <3>2 DEF LeaseStep
  <2>3. CASE ClockSample
    BY <1>3, <2>3 DEF LeaseStep, ClockSample, AbsentUnleased
  <2> QED BY <1>3, <2>1, <2>2, <2>3 DEF LeaseStep
<1>4. ASSUME UNCHANGED leaseVars,
             \A p \in Operations : state'[p] = "absent" => state[p] = "absent"
      PROVE  AbsentUnleased'
  BY <1>4 DEF AbsentUnleased, leaseVars
<1>5. ASSUME NEW o,
             NEW st \in ProgressStates \cup TerminalStates \cup {"accepted"},
             state' = [state EXCEPT ![o] = st]
      PROVE  \A p \in Operations : state'[p] = "absent" => state[p] = "absent"
  BY <1>5 DEF RowTypes, ProgressStates, TerminalStates
<1>6. ASSUME NEW o \in Operations, Accept(o)
      PROVE  AbsentUnleased'
  BY <1>4, <1>5, <1>6 DEF Accept
<1>7. ASSUME NEW f \in issued, NEW kind, NEW st \in ClientEvents,
             AppendEvent(f, kind, st)
      PROVE  AbsentUnleased'
  BY <1>4, <1>5, <1>7, JournalConstants DEF AppendEvent
<1>8. ASSUME NEW f \in issued, NEW outcome \in ClientOutcomes,
             CommitReceipt(f, outcome)
      PROVE  AbsentUnleased'
  BY <1>4, <1>5, <1>8, JournalConstants DEF CommitReceipt
<1>9. ASSUME NEW f \in issued, NEW p, CommitSuccess(f, p)
      PROVE  AbsentUnleased'
  BY <1>4, <1>5, <1>9 DEF CommitSuccess, TerminalStates
<1>10. ASSUME UNCHANGED <<leaseVars, state>>
       PROVE  AbsentUnleased'
  BY <1>4, <1>10
<1> QED
  BY <1>3, <1>6, <1>7, <1>8, <1>9, <1>10
  DEF Next, vars, RequestCancellation, AppendRevisionState

(* The empty journal has its types.                                        *)
LEMMA TypeInvInit == Init => TypeInv
<1> SUFFICES ASSUME Init PROVE TypeInv
  OBVIOUS
<1>3. FenceTypeOK
  BY SMT, JournalConstants
  DEF Init, FenceTypeOK, NoOpLease, NoScopeLease, OpenOperations, Accepted
<1>4. RowTypes
  BY SMT DEF Init, RowTypes, OperationStates, Accepted, NoActive, NoReceipt,
         ActiveRow, ReceiptRow
<1>5. AbsentUnleased
  BY DEF Init, AbsentUnleased
<1> QED BY <1>3, <1>4, <1>5 DEF TypeInv

(* Every step keeps the typed invariant.                                   *)
LEMMA TypeInvStep ==
  ASSUME TypeInv, [Next]_vars
  PROVE  TypeInv'
<1>1. CASE LeaseStep
  BY <1>1, LeaseTypesStep, RowTypesStep, AbsentUnleasedStep DEF TypeInv
<1>2. CASE UNCHANGED leaseVars
  <2>1. OpenOperations' \subseteq Operations
    BY DEF OpenOperations, Accepted
  <2>2. FenceTypeOK'
    BY <1>2, <2>1 DEF leaseVars, TypeInv, FenceTypeOK
  <2> QED BY <2>2, RowTypesStep, AbsentUnleasedStep DEF TypeInv
<1> QED
  BY <1>1, <1>2
  DEF Next, vars, Accept, RequestCancellation, AppendEvent,
      AppendRevisionState, CommitReceipt, CommitSuccess

(* Every table of the journal always has its type.                         *)
THEOREM JournalTypeCorrect == Spec => []TypeOK
<1>1. TypeInv => TypeOK
  BY DEF TypeInv, RowTypes, OperationStates, EventRecord, ActiveRow,
         ReceiptRow, TypeOK
<1> QED BY <1>1, TypeInvInit, TypeInvStep, PTL DEF Spec

(* Whatever the journal does, its lease tables take a step of the fence.   *)
LEMMA JournalTakesFenceSteps ==
  ASSUME TypeInv, [Next]_vars
  PROVE  [FenceNext]_fenceVars
<1>1. CASE LeaseStep
  BY <1>1 DEF LeaseStep, FenceNext
<1>2. ASSUME NEW o \in Operations, Accept(o)
      PROVE  AcceptOperation(o)
  <2>1. "accepted" \in OperationStates
        /\ "accepted" \notin TerminalStates \cup {"absent"}
    BY DEF OperationStates, TerminalStates
  <2>2. state[o] = "absent" /\ state' = [state EXCEPT ![o] = "accepted"]
        /\ UNCHANGED leaseVars
    BY <1>2 DEF Accept
  <2>3. OpenOperations' = OpenOperations \cup {o}
    BY <2>1, <2>2, OpenAfter DEF TypeInv
  <2>4. o \notin OpenOperations
    BY <2>2 DEF OpenOperations, Accepted
  <2>5. opLease[o] = NoOpLease
    BY <2>2 DEF TypeInv, AbsentUnleased
  <2> QED BY <2>2, <2>3, <2>4, <2>5 DEF AcceptOperation, leaseVars
<1>3. ASSUME NEW o \in Operations, RequestCancellation(o)
      PROVE  UNCHANGED fenceVars
  BY <1>3 DEF RequestCancellation, leaseVars, fenceVars, OpenOperations,
              Accepted
<1>4. ASSUME NEW f \in issued, NEW kind, NEW st \in ClientEvents,
             AppendEvent(f, kind, st)
      PROVE  UNCHANGED fenceVars
  <2>1. st \in OperationStates /\ st \notin TerminalStates \cup {"absent"}
    BY <1>4, JournalConstants
    DEF OperationStates, ProgressStates, TerminalStates
  <2>2. f.op \in Operations /\ f.op \in OpenOperations
    BY <1>4, IssuedFences DEF AppendEvent, TypeInv
  <2>3. state' = [state EXCEPT ![f.op] = st] /\ UNCHANGED leaseVars
    BY <1>4 DEF AppendEvent
  <2>4. OpenOperations' = OpenOperations \cup {f.op}
    BY <2>1, <2>2, <2>3, OpenAfter DEF TypeInv
  <2> QED BY <2>2, <2>3, <2>4 DEF leaseVars, fenceVars
<1>5. ASSUME NEW f \in issued, NEW r \in ClientStates,
             AppendRevisionState(f, r)
      PROVE  UNCHANGED fenceVars
  BY <1>5 DEF AppendRevisionState, leaseVars, fenceVars, OpenOperations,
              Accepted
<1>6. ASSUME NEW f \in issued, NEW outcome \in TerminalStates,
             AssertExecutionFence(f), f.op \in OpenOperations,
             state' = [state EXCEPT ![f.op] = outcome], UNCHANGED leaseVars
      PROVE  CloseOperation(f)
  <2>1. f.op \in Operations
    BY <1>6, IssuedFences DEF TypeInv
  <2>2. OpenOperations' = OpenOperations \ {f.op}
    BY <1>6, <2>1, OpenAfter DEF OperationStates, TypeInv
  <2> QED BY <1>6, <2>2 DEF CloseOperation, leaseVars
<1>7. ASSUME NEW f \in issued, NEW outcome \in ClientOutcomes,
             CommitReceipt(f, outcome)
      PROVE  CloseOperation(f)
  BY <1>6, <1>7, JournalConstants DEF CommitReceipt
<1>8. ASSUME NEW f \in issued, NEW p \in Operations \cup {NoOperation},
             CommitSuccess(f, p)
      PROVE  CloseOperation(f)
  BY <1>6, <1>8 DEF CommitSuccess, SuccessAllowed, TerminalStates
<1>9. CASE UNCHANGED vars
  BY <1>9 DEF vars, leaseVars, fenceVars, OpenOperations, Accepted
<1> QED
  BY <1>1, <1>2, <1>3, <1>4, <1>5, <1>7, <1>8, <1>9 DEF Next, FenceNext

(* The journal implements the fence: its leases and open operations change *)
(* as ExecutionFence says, so what is proved of FenceSpec holds of it.     *)
THEOREM JournalImplementsFence == Spec => FenceSpec
<1>1. Init => FenceInit
  BY DEF Init, FenceInit, OpenOperations, Accepted
<1> QED
  BY <1>1, TypeInvInit, TypeInvStep, JournalTakesFenceSteps, PTL
  DEF Spec, FenceSpec

-----------------------------------------------------------------------------
(* The event log against the scope rows: no event carries a token above    *)
(* its scope's row, and along the log the tokens of a scope do not fall.   *)
LogFenced(q) ==
  /\ \A i \in 1..Len(q) : q[i].token <= scopeLease[ScopeOf[q[i].op]].token
  /\ \A i, j \in 1..Len(q) :
       i < j /\ ScopeOf[q[i].op] = ScopeOf[q[j].op] => q[i].token <= q[j].token

LogInv == TypeInv /\ LogFenced(hostLog)

(* An event written under a fence the journal accepts keeps the log        *)
(* fenced: its token is the one of the scope row.                          *)
LEMMA FencedAppend ==
  ASSUME TypeInv, NEW f \in issued, AssertExecutionFence(f),
         NEW kind \in {"progress", "committed", "terminal"},
         NEW st \in ProgressStates \cup TerminalStates,
         NEW q \in Seq(EventRecord), LogFenced(q)
  PROVE  LogFenced(Append(q, Event(f, kind, st)))
<1> DEFINE e == Event(f, kind, st)
           r == Append(q, e)
<1> USE DEF TypeInv
<1>1. e \in EventRecord /\ e.op = f.op /\ e.token = f.token
  BY EventTypes DEF Event
<1>2. scopeLease[ScopeOf[e.op]].token = e.token
  BY <1>1 DEF AssertExecutionFence, ActiveScopeLease
<1>3. /\ Len(r) = Len(q) + 1 /\ Len(q) \in Nat
      /\ r[Len(q) + 1] = e
      /\ \A i \in 1..Len(q) : r[i] = q[i]
  BY SMT, <1>1, Appended
<1>4. \A i \in 1..Len(r) : i \in 1..Len(q) \/ i = Len(q) + 1
  BY SMT, <1>3
<1>5. e.token \in Nat
  BY SMT, <1>1, JournalConstants DEF EventRecord, Tokens
<1> HIDE DEF e, r
<1>6. \A i \in 1..Len(r) : r[i].token <= scopeLease[ScopeOf[r[i].op]].token
  BY SMT, <1>2, <1>3, <1>4, <1>5 DEF LogFenced
<1>7. \A i, j \in 1..Len(r) :
        i < j /\ ScopeOf[r[i].op] = ScopeOf[r[j].op] => r[i].token <= r[j].token
  BY SMT, <1>2, <1>3, <1>4, <1>5 DEF LogFenced
<1> QED BY <1>6, <1>7 DEF LogFenced, r, e

(* The token of a scope row never falls.                                   *)
LEMMA RowTokensGrow ==
  ASSUME TypeInv, LeaseStep
  PROVE  \A s \in Scopes : scopeLease[s].token <= scopeLease'[s].token
<1> USE DEF TypeInv
<1>1. /\ scopeLease \in [Scopes -> [op : Operations \cup {NoOperation},
                                    owner : Owners \cup {NoOwner},
                                    token : 0..MaxToken,
                                    expires : 0..(MaxClock + Ttl)]]
      /\ \A s \in Scopes : scopeLease[s].token \in Nat
  BY SMT, JournalConstants DEF FenceTypeOK
<1>2. ASSUME NEW o \in Operations, NEW w, NEW token \in Nat, NEW e,
             WriteLeases(o, w, token, e),
             scopeLease[ScopeOf[o]].token <= token
      PROVE  \A s \in Scopes : scopeLease[s].token <= scopeLease'[s].token
  BY SMT, <1>1, <1>2 DEF WriteLeases
<1>3. ASSUME NEW o \in Operations, NEW w \in Owners, AcquireFence(o, w)
      PROVE  \A s \in Scopes : scopeLease[s].token <= scopeLease'[s].token
  <2>1. PICK token \in Tokens :
          /\ \E e : WriteLeases(o, w, token, e)
          /\ \/ token = scopeLease[ScopeOf[o]].token
             \/ \E last \in PreviousTokens(ScopeOf[o]) :
                  /\ \A t \in PreviousTokens(ScopeOf[o]) : t <= last
                  /\ token = last + 1
    BY <1>3 DEF AcquireFence
  <2>2. token \in Nat /\ ScopeOf[o] \in Scopes
    BY SMT, JournalConstants DEF Tokens
  <2>3. PreviousTokens(ScopeOf[o]) \subseteq Nat
    BY SMT, <1>1, <2>2, JournalConstants
    DEF PreviousTokens, OperationsIn, FenceTypeOK
  <2>4. scopeLease[ScopeOf[o]].token \in PreviousTokens(ScopeOf[o])
    BY DEF PreviousTokens
  <2>5. scopeLease[ScopeOf[o]].token <= token
    BY SMT, <2>1, <2>2, <2>3, <2>4
  <2>6. PICK e : WriteLeases(o, w, token, e)
    BY <2>1
  <2> QED BY <1>2, <2>2, <2>5, <2>6
<1>4. ASSUME NEW f \in issued, HeartbeatFence(f) \/ ReleaseFence(f)
      PROVE  \A s \in Scopes : scopeLease[s].token <= scopeLease'[s].token
  <2>1. PICK w, e : WriteLeases(f.op, w, f.token, e)
    BY <1>4 DEF HeartbeatFence, ReleaseFence
  <2>2. f.op \in Operations /\ f.token \in Nat
    BY SMT, IssuedFences, JournalConstants DEF Tokens
  <2>3. scopeLease[ScopeOf[f.op]].token = f.token
    BY <1>4 DEF HeartbeatFence, ReleaseFence, AssertExecutionFence,
                ActiveScopeLease
  <2> QED BY SMT, <1>2, <2>1, <2>2, <2>3
<1>5. CASE ClockSample
  BY SMT, <1>1, <1>5 DEF ClockSample
<1> QED BY <1>3, <1>4, <1>5 DEF LeaseStep

(* Every step keeps the log fenced.                                        *)
LEMMA LogInvStep ==
  ASSUME LogInv, [Next]_vars
  PROVE  LogInv'
<1>1. TypeInv /\ TypeInv' /\ hostLog \in Seq(EventRecord)
  BY TypeInvStep DEF LogInv, TypeInv, RowTypes
<1>2. CASE LeaseStep
  <2>1. \A s \in Scopes : scopeLease[s].token <= scopeLease'[s].token
    BY <1>1, <1>2, RowTokensGrow
  <2>2. hostLog' = hostLog
    BY <1>2 DEF LeaseStep
  <2>3. \A s \in Scopes : scopeLease[s].token \in Nat
                          /\ scopeLease'[s].token \in Nat
    BY SMT, <1>1, JournalConstants DEF TypeInv, FenceTypeOK
  <2>4. \A i \in 1..Len(hostLog) :
          ScopeOf[hostLog[i].op] \in Scopes /\ hostLog[i].token \in Nat
    <3> SUFFICES ASSUME NEW i \in 1..Len(hostLog)
                 PROVE  ScopeOf[hostLog[i].op] \in Scopes
                        /\ hostLog[i].token \in Nat
      OBVIOUS
    <3>1. hostLog[i] \in EventRecord
      BY SMT, <1>1
    <3> QED BY SMT, <3>1, JournalConstants DEF EventRecord, Tokens
  <2>5. LogFenced(hostLog)'
    BY SMT, <2>1, <2>2, <2>3, <2>4 DEF LogInv, LogFenced
  <2> QED BY <1>1, <2>5 DEF LogInv
<1>3. ASSUME UNCHANGED <<leaseVars, hostLog>>
      PROVE  LogInv'
  BY <1>1, <1>3 DEF LogInv, LogFenced, leaseVars
<1>4. ASSUME UNCHANGED leaseVars, LogFenced(hostLog')
      PROVE  LogInv'
  BY <1>1, <1>4 DEF LogInv, LogFenced, leaseVars
<1>5. ASSUME NEW f \in issued, NEW kind \in {"progress", "committed"},
             NEW st \in ClientEvents, AppendEvent(f, kind, st)
      PROVE  LogInv'
  BY <1>1, <1>4, <1>5, FencedAppend, JournalConstants DEF AppendEvent, LogInv
<1>6. ASSUME NEW f \in issued, NEW outcome \in ClientOutcomes,
             CommitReceipt(f, outcome)
      PROVE  LogInv'
  BY <1>1, <1>4, <1>6, FencedAppend, JournalConstants DEF CommitReceipt, LogInv
<1>7. ASSUME NEW f \in issued, NEW p, CommitSuccess(f, p)
      PROVE  LogInv'
  <2> DEFINE q == Append(hostLog, Event(f, "committed", "executing"))
  <2>1. "executing" \in ProgressStates /\ "succeeded" \in TerminalStates
    BY DEF ProgressStates, TerminalStates
  <2>2. /\ AssertExecutionFence(f) /\ UNCHANGED leaseVars
        /\ hostLog' = Append(q, Event(f, "terminal", "succeeded"))
    BY <1>7 DEF CommitSuccess
  <2>3. q \in Seq(EventRecord)
    BY <1>1, <2>1, EventTypes, Appended DEF TypeInv
  <2>4. LogFenced(q)
    BY <1>1, <2>1, <2>2, FencedAppend DEF LogInv
  <2> HIDE DEF q
  <2>5. LogFenced(Append(q, Event(f, "terminal", "succeeded")))
    BY <1>1, <2>1, <2>2, <2>3, <2>4, FencedAppend
  <2> QED BY <1>4, <2>2, <2>5
<1> QED
  BY <1>2, <1>3, <1>5, <1>6, <1>7
  DEF Next, vars, Accept, RequestCancellation, AppendRevisionState

(* The fencing tokens of a scope never fall along the host event log.      *)
THEOREM HistoryIsFenced == Spec => []FencedHistory
<1>1. Init => LogInv
  <2> SUFFICES ASSUME Init PROVE LogFenced(hostLog)
    BY TypeInvInit DEF LogInv
  <2> QED BY SMT DEF Init, LogFenced
<1>2. LogInv => FencedHistory
  BY DEF LogInv, LogFenced, FencedHistory
<1> QED BY <1>1, <1>2, LogInvStep, PTL DEF Spec

-----------------------------------------------------------------------------
(* Receipts against the rest of the journal.  An operation without a       *)
(* receipt has no generation, and a scope without a generation no active   *)
(* operation; without these two facts the chain of successes is not        *)
(* inductive, because a commit extends it at the active row's generation.  *)
NoReceiptNoGeneration ==
  \A o \in Operations : receipt[o].outcome = "none" => receipt[o].generation = 0

ActiveFromGeneration ==
  \A s \in Scopes : active[s].generation = 0 <=> active[s].op = NoOperation

ReceiptInv ==
  /\ TypeInv
  /\ TerminalAgreement
  /\ NoReceiptNoGeneration
  /\ ActiveFromGeneration
  /\ SuccessChain
  /\ ActiveReconciles
  /\ CancelledNeverActivates

(* An open operation has no receipt.                                       *)
LEMMA OpenHasNoReceipt ==
  ASSUME TypeInv, TerminalAgreement, NEW o \in OpenOperations
  PROVE  o \in Operations /\ receipt[o].outcome = "none"
  BY DEF TerminalAgreement, OpenOperations, Accepted

(* The operation of an active row has its receipt, so it is not open.      *)
LEMMA ActiveHasReceipt ==
  ASSUME ReceiptInv, NEW s \in Scopes, active[s].op # NoOperation
  PROVE  /\ active[s].op \in Operations
         /\ receipt[active[s].op].outcome # "none"
         /\ active[s].op \notin OpenOperations
<1>1. active[s].generation \in Nat \ {0}
  BY DEF ReceiptInv, ActiveFromGeneration, TypeInv, RowTypes, ActiveRow
<1>2. active[s].generation \in {receipt[o].generation : o \in AtomicSuccesses(s)}
  BY SMT, <1>1 DEF ReceiptInv, SuccessChain
<1>3. PICK o \in AtomicSuccesses(s) : receipt[o].generation = active[s].generation
  BY <1>2
<1>4. active[s].op = o /\ receipt[o].outcome = "succeeded"
  BY <1>3 DEF ReceiptInv, SuccessChain
<1>5. o \in Operations
  BY DEF AtomicSuccesses, OperationsIn
<1>6. o \notin OpenOperations
  BY <1>4, OpenHasNoReceipt DEF ReceiptInv
<1> QED BY <1>4, <1>5, <1>6

(* The log holds no terminal event of an open operation.                   *)
LEMMA NoTerminalEventYet ==
  ASSUME TypeInv, TerminalAgreement, NEW o \in OpenOperations
  PROVE  \A i \in 1..Len(hostLog) :
           hostLog[i].kind = "terminal" => hostLog[i].op # o
<1> SUFFICES ASSUME NEW i \in 1..Len(hostLog), hostLog[i].kind = "terminal",
                    hostLog[i].op = o
             PROVE  FALSE
  OBVIOUS
<1>1. hostLog[i].state = "none"
  BY OpenHasNoReceipt DEF TerminalAgreement
<1>2. hostLog[i] \in EventRecord
  BY SMT DEF TypeInv, RowTypes
<1> QED BY <1>1, <1>2 DEF EventRecord, ProgressStates, TerminalStates

(* A progress event of an open operation keeps the agreement: it has no   *)
(* terminal event that the new one could follow.                          *)
LEMMA AgreementOnAppend ==
  ASSUME TypeInv, TypeInv', TerminalAgreement, NEW f \in issued,
         f.op \in OpenOperations,
         NEW kind \in {"progress", "committed"}, NEW st \in ProgressStates,
         hostLog' = Append(hostLog, Event(f, kind, st)),
         state' = [state EXCEPT ![f.op] = st], receipt' = receipt
  PROVE  TerminalAgreement'
<1> DEFINE n == Len(hostLog)
           o == f.op
<1>1. o \in Operations /\ receipt[o].outcome = "none"
  BY OpenHasNoReceipt
<1>2. Event(f, kind, st) \in EventRecord /\ hostLog \in Seq(EventRecord)
  BY EventTypes DEF TypeInv, RowTypes
<1>3. /\ n \in Nat /\ Len(hostLog') = n + 1
      /\ hostLog'[n + 1].op = o /\ hostLog'[n + 1].kind # "terminal"
      /\ \A i \in 1..n : hostLog'[i] = hostLog[i]
  BY SMT, <1>2, Appended DEF Event
<1>4. \A i \in 1..Len(hostLog') : i \in 1..n \/ i = n + 1
  BY SMT, <1>3
<1>5. \A p \in Operations : state'[p] = IF p = o THEN st ELSE state[p]
  BY <1>1 DEF TypeInv, RowTypes
<1>6. st \notin TerminalStates
  BY DEF ProgressStates, TerminalStates
<1>7. \A i \in 1..n : hostLog[i].kind = "terminal" => hostLog[i].op # o
  BY NoTerminalEventYet
<1> HIDE DEF n, o
<1>8. \A p \in Operations :
        /\ state'[p] \in TerminalStates <=> receipt'[p].outcome # "none"
        /\ receipt'[p].outcome # "none" =>
             /\ state'[p] = receipt'[p].outcome
             /\ \E i \in 1..Len(hostLog') :
                  hostLog'[i].op = p /\ hostLog'[i].kind = "terminal"
  <2> SUFFICES ASSUME NEW p \in Operations
               PROVE  /\ state'[p] \in TerminalStates
                           <=> receipt[p].outcome # "none"
                      /\ receipt[p].outcome # "none" =>
                           /\ state'[p] = receipt[p].outcome
                           /\ \E i \in 1..Len(hostLog') :
                                hostLog'[i].op = p
                                /\ hostLog'[i].kind = "terminal"
    BY SMT
  <2>1. CASE p = o
    BY <1>1, <1>5, <1>6, <2>1
  <2>2. CASE p # o
    <3>1. receipt[p].outcome # "none" =>
            \E i \in 1..n : hostLog[i].op = p /\ hostLog[i].kind = "terminal"
      BY DEF TerminalAgreement, n
    <3>2. 1..n \subseteq 1..Len(hostLog')
      BY SMT, <1>3
    <3> QED BY SMT, <1>3, <1>5, <2>2, <3>1, <3>2 DEF TerminalAgreement
  <2> QED BY <2>1, <2>2
<1>9. \A i, j \in 1..Len(hostLog') :
        hostLog'[i].kind = "terminal" =>
          /\ hostLog'[i].state = receipt'[hostLog'[i].op].outcome
          /\ hostLog'[j].op = hostLog'[i].op => j <= i
  BY SMT, <1>3, <1>4, <1>7 DEF TerminalAgreement, n
<1> QED BY <1>8, <1>9 DEF TerminalAgreement

(* So does the end of an open operation: events of it of which only the    *)
(* last is terminal, and the receipt with the same outcome.                *)
LEMMA AgreementOnReceipt ==
  ASSUME TypeInv, TypeInv', TerminalAgreement, NEW o \in OpenOperations,
         NEW outcome \in TerminalStates,
         Len(hostLog') > Len(hostLog),
         \A i \in 1..Len(hostLog) : hostLog'[i] = hostLog[i],
         \A i \in (Len(hostLog) + 1)..Len(hostLog') :
           /\ hostLog'[i].op = o
           /\ hostLog'[i].kind = "terminal" <=> i = Len(hostLog'),
         hostLog'[Len(hostLog')].state = outcome,
         state' = [state EXCEPT ![o] = outcome],
         NEW r, r.outcome = outcome, receipt' = [receipt EXCEPT ![o] = r]
  PROVE  TerminalAgreement'
<1> DEFINE n == Len(hostLog)
           m == Len(hostLog')
<1>1. o \in Operations /\ receipt[o].outcome = "none"
  BY OpenHasNoReceipt
<1>2. n \in Nat /\ m \in Nat /\ m > n
  BY SMT DEF TypeInv, RowTypes
<1>3. \A i \in 1..m : i \in 1..n \/ i \in (n + 1)..m
  BY SMT, <1>2
<1>4. /\ \A p \in Operations : state'[p] = IF p = o THEN outcome ELSE state[p]
      /\ receipt'[o].outcome = outcome
      /\ \A p \in Operations \ {o} : receipt'[p] = receipt[p]
  BY <1>1 DEF TypeInv, RowTypes
<1>5. \A i \in 1..n : /\ hostLog[i].op \in Operations
                      /\ hostLog[i].kind = "terminal" => hostLog[i].op # o
  <2> SUFFICES ASSUME NEW i \in 1..n
               PROVE  hostLog[i].op \in Operations
    BY NoTerminalEventYet
  <2>1. hostLog[i] \in EventRecord
    BY SMT DEF TypeInv, RowTypes
  <2> QED BY <2>1 DEF EventRecord
<1>6. outcome # "none"
  BY DEF TerminalStates
<1>7. /\ \A i \in 1..n : hostLog'[i] = hostLog[i]
      /\ \A i \in (n + 1)..m : /\ hostLog'[i].op = o
                               /\ hostLog'[i].kind = "terminal" <=> i = m
      /\ m \in (n + 1)..m /\ m \in 1..m /\ 1..n \subseteq 1..m
      /\ hostLog'[m].state = outcome
  BY SMT, <1>2
<1>8. /\ \A i \in 1..n : hostLog[i].kind = "terminal" =>
            hostLog[i].state = receipt[hostLog[i].op].outcome
      /\ \A i, j \in 1..n : hostLog[i].kind = "terminal"
            /\ hostLog[j].op = hostLog[i].op => j <= i
      /\ \A p \in Operations :
           /\ state[p] \in TerminalStates <=> receipt[p].outcome # "none"
           /\ receipt[p].outcome # "none" =>
                /\ state[p] = receipt[p].outcome
                /\ \E i \in 1..n : hostLog[i].op = p
                                   /\ hostLog[i].kind = "terminal"
  BY DEF TerminalAgreement
<1> HIDE DEF n, m
<1>9. \A p \in Operations :
        /\ state'[p] \in TerminalStates <=> receipt'[p].outcome # "none"
        /\ receipt'[p].outcome # "none" =>
             /\ state'[p] = receipt'[p].outcome
             /\ \E i \in 1..m :
                  hostLog'[i].op = p /\ hostLog'[i].kind = "terminal"
  <2> TAKE p \in Operations
  <2>1. CASE p = o
    BY <1>4, <1>6, <1>7, <2>1
  <2>2. CASE p # o
    <3>1. state'[p] = state[p] /\ receipt'[p] = receipt[p]
      BY <1>4, <2>2
    <3>2. ASSUME NEW i \in 1..n, hostLog[i].op = p, hostLog[i].kind = "terminal"
          PROVE  \E j \in 1..m : hostLog'[j].op = p /\ hostLog'[j].kind = "terminal"
      BY <1>7, <3>2
    <3> QED BY <1>8, <3>1, <3>2
  <2> QED BY <2>1, <2>2
<1>10. ASSUME NEW i \in 1..m, NEW j \in 1..m, hostLog'[i].kind = "terminal"
       PROVE  /\ hostLog'[i].state = receipt'[hostLog'[i].op].outcome
              /\ hostLog'[j].op = hostLog'[i].op => j <= i
  <2>1. CASE i \in 1..n
    <3>1. hostLog'[i].op \in Operations \ {o}
      BY <1>5, <1>7, <1>10, <2>1
    <3>2. hostLog'[i].state = receipt'[hostLog'[i].op].outcome
      BY SMT, <1>4, <1>7, <1>8, <1>10, <2>1, <3>1
    <3>3. CASE j \in 1..n
      BY SMT, <1>7, <1>8, <1>10, <2>1, <3>2, <3>3
    <3>4. CASE j \in (n + 1)..m
      BY <1>7, <3>1, <3>2, <3>4
    <3> QED BY <1>3, <3>3, <3>4
  <2>2. CASE i \in (n + 1)..m
    BY SMT, <1>2, <1>4, <1>7, <1>10, <2>2
  <2> QED BY <1>3, <2>1, <2>2
<1> QED BY <1>9, <1>10 DEF TerminalAgreement, m

(* The chain of successes depends on the receipts of its members only.     *)
LEMMA ChainUntouched ==
  ASSUME SuccessChain, active' = active,
         \A s \in Scopes : AtomicSuccesses(s)' = AtomicSuccesses(s),
         \A s \in Scopes : \A p \in AtomicSuccesses(s) : receipt'[p] = receipt[p]
  PROVE  SuccessChain'
<1>1. \A s \in Scopes : {receipt'[p].generation : p \in AtomicSuccesses(s)}
                          = {receipt[p].generation : p \in AtomicSuccesses(s)}
  OBVIOUS
<1> SUFFICES ASSUME NEW s \in Scopes
             PROVE  /\ {receipt'[p].generation : p \in AtomicSuccesses(s)'}
                         = 1..active'[s].generation
                    /\ \A p, q \in AtomicSuccesses(s)' :
                         receipt'[p].generation = receipt'[q].generation
                           => p = q
                    /\ \A p \in AtomicSuccesses(s)' :
                         /\ receipt'[p].outcome = "succeeded"
                         /\ receipt'[p].generation = active'[s].generation
                              => active'[s].op = p
                         /\ receipt'[p].generation = 1
                              => receipt'[p].previous = NoOperation
                         /\ receipt'[p].generation > 1 =>
                              \E q \in AtomicSuccesses(s)' :
                                /\ receipt'[q].generation
                                     = receipt'[p].generation - 1
                                /\ receipt'[p].previous = q
  BY DEF SuccessChain
<1> QED BY SMT, <1>1 DEF SuccessChain

(* It survives a receipt without a generation.                             *)
LEMMA ChainOnReceipt ==
  ASSUME ReceiptInv, NEW o \in OpenOperations, NEW r,
         r.generation = 0, receipt' = [receipt EXCEPT ![o] = r],
         active' = active
  PROVE  SuccessChain'
<1>1. o \in Operations /\ receipt[o].generation = 0
  BY OpenHasNoReceipt DEF ReceiptInv, NoReceiptNoGeneration
<1>2. \A p \in Operations : receipt'[p] = IF p = o THEN r ELSE receipt[p]
  BY <1>1 DEF ReceiptInv, TypeInv, RowTypes
<1>3. \A s \in Scopes : AtomicSuccesses(s)' = AtomicSuccesses(s)
  BY <1>1, <1>2 DEF AtomicSuccesses, OperationsIn
<1>4. \A s \in Scopes : \A p \in AtomicSuccesses(s) : receipt'[p] = receipt[p]
  BY <1>1, <1>2 DEF AtomicSuccesses, OperationsIn
<1> QED BY <1>3, <1>4, ChainUntouched DEF ReceiptInv

(* commit_success extends the chain of its scope by one generation, whose  *)
(* predecessor is the operation of the generation before, and leaves the   *)
(* chains of the other scopes alone.                                       *)
LEMMA ChainOnSuccess ==
  ASSUME ReceiptInv, NEW f \in issued, NEW previous, CommitSuccess(f, previous)
  PROVE  SuccessChain'
<1> DEFINE o == f.op
           t == ScopeOf[o]
           g == active[t].generation
<1>1. o \in OpenOperations /\ active[t].op = previous
  BY DEF CommitSuccess, SuccessAllowed
<1>2. o \in Operations /\ receipt[o].generation = 0 /\ t \in Scopes
  BY <1>1, OpenHasNoReceipt, JournalConstants DEF ReceiptInv, NoReceiptNoGeneration
<1>3. g \in Nat
  BY <1>2 DEF ReceiptInv, TypeInv, RowTypes, ActiveRow
<1>4. /\ \A p \in Operations \ {o} : receipt'[p] = receipt[p]
      /\ receipt'[o] = [outcome |-> "succeeded", previous |-> previous,
                        generation |-> g + 1]
      /\ active'[t] = [op |-> o, generation |-> g + 1]
      /\ \A s \in Scopes \ {t} : active'[s] = active[s]
  BY <1>2 DEF CommitSuccess, ReceiptInv, TypeInv, RowTypes
<1>5. o \notin AtomicSuccesses(t)
  BY <1>2 DEF AtomicSuccesses
<1>6. AtomicSuccesses(t)' = AtomicSuccesses(t) \cup {o}
  BY SMT, <1>2, <1>3, <1>4 DEF AtomicSuccesses, OperationsIn
<1>7. \A s \in Scopes : \A p \in AtomicSuccesses(s) :
        p \in Operations \ {o} /\ receipt'[p] = receipt[p]
  BY <1>2, <1>4 DEF AtomicSuccesses, OperationsIn
<1> HIDE DEF o, t, g
<1>8. ASSUME NEW s \in Scopes \ {t}
      PROVE  AtomicSuccesses(s)' = AtomicSuccesses(s)
  BY SMT, <1>2, <1>4 DEF AtomicSuccesses, OperationsIn, t
<1> DEFINE Chain(s, A, rec, act) ==
             /\ {rec[p].generation : p \in A} = 1..act.generation
             /\ \A p, q \in A : rec[p].generation = rec[q].generation => p = q
             /\ \A p \in A :
                  /\ rec[p].outcome = "succeeded"
                  /\ rec[p].generation = act.generation => act.op = p
                  /\ rec[p].generation = 1 => rec[p].previous = NoOperation
                  /\ rec[p].generation > 1 =>
                       \E q \in A :
                         /\ rec[q].generation = rec[p].generation - 1
                         /\ rec[p].previous = q
<1>9. \A s \in Scopes : Chain(s, AtomicSuccesses(s), receipt, active[s])
  BY DEF ReceiptInv, SuccessChain
<1>10. ASSUME NEW s \in Scopes \ {t}
       PROVE  Chain(s, AtomicSuccesses(s), receipt', active'[s])
  <2>1. /\ active'[s] = active[s]
        /\ \A p \in AtomicSuccesses(s) : receipt'[p] = receipt[p]
    BY <1>4, <1>7
  <2>2. {receipt'[p].generation : p \in AtomicSuccesses(s)}
          = {receipt[p].generation : p \in AtomicSuccesses(s)}
    BY <2>1
  <2> QED BY SMT, <1>9, <2>1, <2>2
<1>11. Chain(t, AtomicSuccesses(t) \cup {o}, receipt', active'[t])
  <2> DEFINE A == AtomicSuccesses(t)
  <2>1. \A p \in A : receipt'[p] = receipt[p] /\ p # o
    BY <1>2, <1>7
  <2>2. {receipt[p].generation : p \in A} = 1..g
    BY <1>2, <1>9 DEF g
  <2>3. \A p \in A : receipt[p].generation \in 1..g
    BY <2>2
  <2>4. {receipt'[p].generation : p \in A \cup {o}} = 1..(g + 1)
    <3>1. \A p \in A \cup {o} : receipt'[p].generation \in 1..(g + 1)
      BY SMT, <1>3, <1>4, <2>1, <2>3
    <3>2. ASSUME NEW k \in 1..(g + 1)
          PROVE  \E p \in A \cup {o} : k = receipt'[p].generation
      <4>1. CASE k = g + 1
        BY SMT, <1>4, <4>1
      <4>2. CASE k \in 1..g
        <5>1. PICK p \in A : k = receipt[p].generation
          BY <2>2, <4>2
        <5> QED BY <2>1, <5>1
      <4> QED BY SMT, <1>3, <4>1, <4>2
    <3> QED BY <3>1, <3>2
  <2>5. \A p, q \in A \cup {o} :
          receipt'[p].generation = receipt'[q].generation => p = q
    BY SMT, <1>2, <1>3, <1>4, <1>9, <2>1, <2>3
  <2>6. \A p \in A \cup {o} :
          receipt'[p].generation = g + 1 => p = o
    BY SMT, <1>3, <2>1, <2>3
  <2>7. ASSUME NEW p \in A
        PROVE  /\ receipt'[p].outcome = "succeeded"
               /\ receipt'[p].generation = 1 => receipt'[p].previous = NoOperation
               /\ receipt'[p].generation > 1 =>
                    \E q \in A \cup {o} :
                      /\ receipt'[q].generation = receipt'[p].generation - 1
                      /\ receipt'[p].previous = q
    BY SMT, <1>2, <1>9, <2>1
  <2>8. g = 0 => previous = NoOperation
    BY <1>1, <1>2 DEF ReceiptInv, ActiveFromGeneration, t, o, g
  <2>9. g > 0 => \E q \in A : /\ receipt[q].generation = g
                              /\ previous = q
    <3> SUFFICES ASSUME g > 0
                 PROVE  \E q \in A : receipt[q].generation = g /\ previous = q
      OBVIOUS
    <3>1. g \in 1..g
      BY SMT, <1>3
    <3>2. PICK q \in A : receipt[q].generation = g
      BY <2>2, <3>1
    <3>3. active[t].op = q
      BY <1>2, <1>9, <3>2 DEF g
    <3> QED BY <1>1, <3>2, <3>3 DEF t, o
  <2>10. /\ receipt'[o].outcome = "succeeded"
         /\ receipt'[o].generation = 1 => receipt'[o].previous = NoOperation
         /\ receipt'[o].generation > 1 =>
              \E q \in A \cup {o} :
                /\ receipt'[q].generation = receipt'[o].generation - 1
                /\ receipt'[o].previous = q
    BY SMT, <1>3, <1>4, <2>1, <2>8, <2>9
  <2>11. active'[t].generation = g + 1 /\ active'[t].op = o
    BY SMT, <1>4
  <2> HIDE DEF A
  <2> QED BY SMT, <2>4, <2>5, <2>6, <2>7, <2>10, <2>11 DEF A
<1>12. ASSUME NEW s \in Scopes
       PROVE  Chain(s, AtomicSuccesses(s)', receipt', active'[s])
  <2>1. CASE s = t
    BY SMT, <1>6, <1>11, <2>1 DEF o, t
  <2>2. CASE s # t
    BY SMT, <1>8, <1>10, <2>2
  <2> QED BY ZenonT(60), <2>1, <2>2
<1> QED BY <1>12 DEF SuccessChain

(* The agreement of receipt, state and log is inductive.                   *)
LEMMA AgreementStep ==
  ASSUME TypeInv, TypeInv', TerminalAgreement, [Next]_vars
  PROVE  TerminalAgreement'
<1>1. hostLog \in Seq(EventRecord)
  BY DEF TypeInv, RowTypes
<1>2. ASSUME UNCHANGED <<state, hostLog, receipt>>
      PROVE  TerminalAgreement'
  BY SMT, <1>2 DEF TerminalAgreement
<1>3. ASSUME NEW o \in Operations, Accept(o)
      PROVE  TerminalAgreement'
  <2>1. \A p \in Operations : state'[p] # state[p] =>
          state[p] \notin TerminalStates /\ state'[p] \notin TerminalStates
    BY <1>3 DEF Accept, TypeInv, RowTypes, TerminalStates
  <2>2. UNCHANGED <<hostLog, receipt>>
    BY <1>3 DEF Accept
  <2> QED BY SMT, <2>1, <2>2 DEF TerminalAgreement
<1>4. ASSUME NEW f \in issued, NEW kind \in {"progress", "committed"},
             NEW st \in ClientEvents, AppendEvent(f, kind, st)
      PROVE  TerminalAgreement'
  BY <1>4, AgreementOnAppend, JournalConstants DEF AppendEvent
<1>5. ASSUME NEW f \in issued, NEW outcome \in ClientOutcomes,
             CommitReceipt(f, outcome)
      PROVE  TerminalAgreement'
  <2> DEFINE e == Event(f, "terminal", outcome)
             r == [NoReceipt EXCEPT !.outcome = outcome]
  <2>1. outcome \in TerminalStates /\ e \in EventRecord
    BY EventTypes, JournalConstants DEF TypeInv
  <2>2. /\ f.op \in OpenOperations
        /\ hostLog' = Append(hostLog, e)
        /\ state' = [state EXCEPT ![f.op] = outcome]
        /\ receipt' = [receipt EXCEPT ![f.op] = r]
    BY <1>5 DEF CommitReceipt
  <2>3. e.op = f.op /\ e.kind = "terminal" /\ e.state = outcome
    BY DEF Event
  <2>4. r.outcome = outcome
    BY DEF NoReceipt
  <2> HIDE DEF e, r
  <2>5. /\ Len(hostLog) \in Nat /\ Len(hostLog') = Len(hostLog) + 1
        /\ hostLog'[Len(hostLog')] = e
        /\ \A i \in 1..Len(hostLog) : hostLog'[i] = hostLog[i]
        /\ \A i \in (Len(hostLog) + 1)..Len(hostLog') : i = Len(hostLog')
    BY SMT, <1>1, <2>1, <2>2, Appended
  <2>6. /\ Len(hostLog') > Len(hostLog)
        /\ hostLog'[Len(hostLog')].state = outcome
    BY SMT, <2>3, <2>5
  <2>7. \A i \in 1..Len(hostLog) : hostLog'[i] = hostLog[i]
    BY <2>5
  <2>8. \A i \in (Len(hostLog) + 1)..Len(hostLog') :
          /\ hostLog'[i].op = f.op
          /\ hostLog'[i].kind = "terminal" <=> i = Len(hostLog')
    BY <2>3, <2>5
  <2> QED BY <2>1, <2>2, <2>4, <2>6, <2>7, <2>8, AgreementOnReceipt, Zenon
<1>6. ASSUME NEW f \in issued, NEW p, CommitSuccess(f, p)
      PROVE  TerminalAgreement'
  <2> DEFINE c == Event(f, "committed", "executing")
             e == Event(f, "terminal", "succeeded")
             q == Append(hostLog, c)
             r == receipt'[f.op]
  <2>1. /\ "succeeded" \in TerminalStates
        /\ c \in EventRecord /\ e \in EventRecord
    BY EventTypes DEF TypeInv, TerminalStates, ProgressStates
  <2>2. /\ f.op \in OpenOperations
        /\ hostLog' = Append(q, e)
        /\ state' = [state EXCEPT ![f.op] = "succeeded"]
    BY <1>6 DEF CommitSuccess, SuccessAllowed
  <2>3. f.op \in Operations
    BY <2>2 DEF OpenOperations, Accepted
  <2>4. r.outcome = "succeeded" /\ receipt' = [receipt EXCEPT ![f.op] = r]
    BY <1>6, <2>3 DEF CommitSuccess, TypeInv, RowTypes
  <2>5. /\ e.op = f.op /\ e.kind = "terminal" /\ e.state = "succeeded"
        /\ c.op = f.op /\ c.kind # "terminal"
    BY DEF Event
  <2> HIDE DEF e, c, r
  <2>6. /\ q \in Seq(EventRecord)
        /\ Len(hostLog) \in Nat /\ Len(q) = Len(hostLog) + 1
        /\ q[Len(hostLog) + 1] = c
        /\ \A i \in 1..Len(hostLog) : q[i] = hostLog[i]
    BY SMT, <1>1, <2>1, Appended
  <2> HIDE DEF q
  <2>7. /\ Len(hostLog') = Len(q) + 1
        /\ hostLog'[Len(q) + 1] = e
        /\ \A i \in 1..Len(q) : hostLog'[i] = q[i]
    BY SMT, <2>1, <2>2, <2>6, Appended
  <2>8. /\ Len(hostLog') = Len(hostLog) + 2
        /\ hostLog'[Len(hostLog')] = e
        /\ hostLog'[Len(hostLog) + 1] = c
        /\ \A i \in 1..Len(hostLog) : hostLog'[i] = hostLog[i]
        /\ \A i \in (Len(hostLog) + 1)..Len(hostLog') :
             i = Len(hostLog) + 1 \/ i = Len(hostLog')
    BY SMT, <2>6, <2>7
  <2>9. \A i \in (Len(hostLog) + 1)..Len(hostLog') :
          /\ hostLog'[i].op = f.op
          /\ hostLog'[i].kind = "terminal" <=> i = Len(hostLog')
    BY <2>5, <2>6, <2>8
  <2>10. /\ Len(hostLog') > Len(hostLog)
         /\ hostLog'[Len(hostLog')].state = "succeeded"
    BY SMT, <2>5, <2>6, <2>8
  <2>11. \A i \in 1..Len(hostLog) : hostLog'[i] = hostLog[i]
    BY <2>8
  <2> QED BY ZenonT(60), <2>1, <2>2, <2>4, <2>9, <2>10, <2>11, AgreementOnReceipt
<1> QED
  BY <1>2, <1>3, <1>4, <1>5, <1>6
  DEF Next, vars, LeaseStep, RequestCancellation, AppendRevisionState

(* The empty journal has no receipts to disagree with.                     *)
LEMMA ReceiptInvInit == Init => ReceiptInv
<1> SUFFICES ASSUME Init PROVE ReceiptInv
  OBVIOUS
<1>1. TypeInv
  BY TypeInvInit
<1>2. TerminalAgreement
  BY SMT DEF Init, TerminalAgreement, NoReceipt, TerminalStates
<1>3. NoReceiptNoGeneration /\ ActiveFromGeneration /\ ActiveReconciles
      /\ CancelledNeverActivates
  BY DEF Init, NoReceiptNoGeneration, ActiveFromGeneration, ActiveReconciles,
         CancelledNeverActivates, NoReceipt, NoActive
<1>4. \A s \in Scopes : AtomicSuccesses(s) = {} /\ active[s].generation = 0
  BY DEF Init, AtomicSuccesses, OperationsIn, NoReceipt, NoActive
<1>5. SuccessChain
  BY SMT, <1>4 DEF SuccessChain
<1> QED BY <1>1, <1>2, <1>3, <1>5 DEF ReceiptInv

(* Each conjunct about receipts and active rows is kept by every step.     *)
LEMMA ReceiptInvStep ==
  ASSUME ReceiptInv, [Next]_vars
  PROVE  ReceiptInv'
<1>1. TypeInv /\ TypeInv' /\ TerminalAgreement /\ TerminalAgreement'
  BY TypeInvStep, AgreementStep DEF ReceiptInv
<1>2. ASSUME UNCHANGED <<receipt, active>>
      PROVE  NoReceiptNoGeneration' /\ ActiveFromGeneration' /\ SuccessChain'
  <2>1. NoReceiptNoGeneration' /\ ActiveFromGeneration'
    BY <1>2 DEF ReceiptInv, NoReceiptNoGeneration, ActiveFromGeneration
  <2>2. \A s \in Scopes : AtomicSuccesses(s)' = AtomicSuccesses(s)
    BY <1>2 DEF AtomicSuccesses, OperationsIn
  <2> QED BY <1>2, <2>1, <2>2, ChainUntouched DEF ReceiptInv
<1>3. ASSUME UNCHANGED <<receipt, active, lifecycle, cancelled>>
      PROVE  ReceiptInv'
  BY <1>1, <1>2, <1>3 DEF ReceiptInv, ActiveReconciles, CancelledNeverActivates
<1>4. ASSUME NEW o \in Operations, RequestCancellation(o)
      PROVE  ReceiptInv'
  <2>1. receipt[o].generation = 0
    BY <1>1, <1>4, OpenHasNoReceipt
    DEF RequestCancellation, ReceiptInv, NoReceiptNoGeneration
  <2>2. ActiveReconciles' /\ CancelledNeverActivates'
    BY <1>4, <2>1
    DEF RequestCancellation, ReceiptInv, ActiveReconciles,
        CancelledNeverActivates
  <2> QED BY <1>1, <1>2, <1>4, <2>2 DEF RequestCancellation, ReceiptInv
<1>5. ASSUME NEW f \in issued, NEW r \in ClientStates,
             AppendRevisionState(f, r)
      PROVE  ReceiptInv'
  <2>1. f.op \in OpenOperations /\ UNCHANGED <<receipt, active, cancelled>>
        /\ lifecycle' = [lifecycle EXCEPT ![f.op] = Append(@, r)]
    BY <1>5 DEF AppendRevisionState
  <2>2. \A s \in Scopes : active[s].op # NoOperation =>
          lifecycle'[active[s].op] = lifecycle[active[s].op]
    BY <1>1, <2>1, ActiveHasReceipt DEF TypeInv, RowTypes
  <2>3. ActiveReconciles'
    BY <2>1, <2>2 DEF ReceiptInv, ActiveReconciles, Last
  <2>4. CancelledNeverActivates'
    BY <2>1 DEF ReceiptInv, CancelledNeverActivates
  <2> QED BY <1>1, <1>2, <2>1, <2>3, <2>4 DEF ReceiptInv
<1>6. ASSUME NEW f \in issued, NEW outcome \in ClientOutcomes,
             CommitReceipt(f, outcome)
      PROVE  ReceiptInv'
  <2> DEFINE r == [NoReceipt EXCEPT !.outcome = outcome]
  <2>1. /\ f.op \in OpenOperations /\ receipt' = [receipt EXCEPT ![f.op] = r]
        /\ UNCHANGED <<lifecycle, active, cancelled>>
    BY <1>6 DEF CommitReceipt
  <2>2. r.generation = 0
    BY DEF NoReceipt
  <2> HIDE DEF r
  <2>3. SuccessChain'
    BY <2>1, <2>2, ChainOnReceipt
  <2>4. \A p \in Operations :
          receipt'[p] = r \/ receipt'[p] = receipt[p]
    BY <1>1, <2>1 DEF TypeInv, RowTypes
  <2>5. NoReceiptNoGeneration' /\ CancelledNeverActivates'
    BY <1>1, <2>1, <2>2, <2>4
    DEF ReceiptInv, NoReceiptNoGeneration, CancelledNeverActivates, TypeInv,
        RowTypes, Accepted
  <2>6. ActiveFromGeneration' /\ ActiveReconciles'
    BY <2>1 DEF ReceiptInv, ActiveFromGeneration, ActiveReconciles
  <2> QED BY <1>1, <2>3, <2>5, <2>6 DEF ReceiptInv
<1>7. ASSUME NEW f \in issued, NEW p, CommitSuccess(f, p)
      PROVE  ReceiptInv'
  <2> DEFINE o == f.op
             t == ScopeOf[o]
             g == active[t].generation + 1
  <2>1. /\ o \in OpenOperations /\ o \notin cancelled /\ cancelled' = cancelled
        /\ lifecycle' = [lifecycle EXCEPT ![o] = Append(@, "active")]
        /\ active' = [active EXCEPT ![t] = [op |-> o, generation |-> g]]
        /\ receipt' = [receipt EXCEPT ![o] =
                         [outcome |-> "succeeded", previous |-> p,
                          generation |-> g]]
    BY <1>7 DEF CommitSuccess, SuccessAllowed
  <2>2. o \in Operations /\ t \in Scopes /\ o # NoOperation
    BY <1>1, <2>1, OpenHasNoReceipt, JournalConstants
  <2>3. g \in Nat \ {0}
    BY SMT, <1>1, <2>2 DEF TypeInv, RowTypes, ActiveRow
  <2> HIDE DEF g, o, t
  <2>4. /\ \A q \in Operations \ {o} : receipt'[q] = receipt[q]
        /\ receipt'[o].outcome = "succeeded"
        /\ \A s \in Scopes \ {t} : active'[s] = active[s]
        /\ active'[t] = [op |-> o, generation |-> g]
    BY <1>1, <2>1, <2>2 DEF TypeInv, RowTypes
  <2>5. NoReceiptNoGeneration' /\ CancelledNeverActivates'
    BY <1>1, <2>1, <2>2, <2>4
    DEF ReceiptInv, NoReceiptNoGeneration, CancelledNeverActivates, TypeInv,
        RowTypes, Accepted
  <2>6. ActiveFromGeneration'
    BY SMT, <2>2, <2>3, <2>4 DEF ReceiptInv, ActiveFromGeneration
  <2>7. ActiveReconciles'
    <3> SUFFICES ASSUME NEW s \in Scopes, active'[s].op # NoOperation
                 PROVE  /\ lifecycle'[active'[s].op] # <<>>
                        /\ Last(lifecycle'[active'[s].op]) = "active"
      BY DEF ReceiptInv, ActiveReconciles, Last
    <3>1. CASE s = t
      <4>1. lifecycle[o] \in Seq(RevisionStates) /\ "active" \in RevisionStates
        BY <1>1, <2>2
        DEF TypeInv, RowTypes, RevisionStates, RevisionSuccessors
      <4>2. lifecycle'[o] = Append(lifecycle[o], "active")
        BY <1>1, <2>1, <2>2 DEF TypeInv, RowTypes
      <4>3. /\ Len(lifecycle'[o]) = Len(lifecycle[o]) + 1
            /\ lifecycle'[o][Len(lifecycle[o]) + 1] = "active"
            /\ lifecycle'[o] # <<>>
        BY SMT, <4>1, <4>2, Appended
      <4> QED BY SMT, <2>4, <3>1, <4>3 DEF Last
    <3>2. CASE s # t
      <4>1. active'[s] = active[s] /\ active[s].op # o
            /\ active[s].op \in Operations
        BY <2>1, <2>4, <3>2, ActiveHasReceipt
      <4>2. lifecycle'[active[s].op] = lifecycle[active[s].op]
        BY <1>1, <2>1, <4>1 DEF TypeInv, RowTypes
      <4> QED BY <4>1, <4>2 DEF ReceiptInv, ActiveReconciles, Last
    <3> QED BY <3>1, <3>2
  <2>8. SuccessChain'
    BY <1>7, ChainOnSuccess
  <2> QED BY <1>1, <2>5, <2>6, <2>7, <2>8 DEF ReceiptInv
<1> QED
  BY <1>3, <1>4, <1>5, <1>6, <1>7
  DEF Next, vars, LeaseStep, Accept, AppendEvent

-----------------------------------------------------------------------------
(* Receipt, durable state and event log always agree on how an operation   *)
(* ended, and its terminal event is its last.                              *)
THEOREM EndsAgree == Spec => []TerminalAgreement
<1>1. ReceiptInv => TerminalAgreement
  BY DEF ReceiptInv
<1> QED BY <1>1, ReceiptInvInit, ReceiptInvStep, PTL DEF Spec

(* The active revisions of a scope always form one chain: no success is    *)
(* lost, repeated or forked.                                               *)
THEOREM SuccessesFormAChain == Spec => []SuccessChain
<1>1. ReceiptInv => SuccessChain
  BY DEF ReceiptInv
<1> QED BY <1>1, ReceiptInvInit, ReceiptInvStep, PTL DEF Spec

(* The journal's integrity check of its active rows never fails.           *)
THEOREM ActiveAlwaysReconciles == Spec => []ActiveReconciles
<1>1. ReceiptInv => ActiveReconciles
  BY DEF ReceiptInv
<1> QED BY <1>1, ReceiptInvInit, ReceiptInvStep, PTL DEF Spec

(* No operation whose cancellation was acknowledged is ever activated.     *)
THEOREM CancellationPreventsActivation == Spec => []CancelledNeverActivates
<1>1. ReceiptInv => CancelledNeverActivates
  BY DEF ReceiptInv
<1> QED BY <1>1, ReceiptInvInit, ReceiptInvStep, PTL DEF Spec

(* A step changes nothing of an operation that has its receipt.            *)
LEMMA FrozenStep ==
  ASSUME ReceiptInv, [Next]_vars
  PROVE  [TerminalFrozenStep]_vars
<1>1. TypeInv /\ TerminalAgreement
  BY DEF ReceiptInv
<1>2. hostLog \in Seq(EventRecord) /\ Len(hostLog) \in Nat
  BY SMT, <1>1 DEF TypeInv, RowTypes
<1>3. ASSUME hostLog' = hostLog,
             NEW o \in Operations, receipt[o].outcome = "none",
             \A p \in Operations \ {o} :
               /\ receipt'[p] = receipt[p] /\ state'[p] = state[p]
               /\ lifecycle'[p] = lifecycle[p]
               /\ p \in cancelled' => p \in cancelled
      PROVE  TerminalFrozenStep
  <2>1. \A p \in Operations : receipt[p].outcome # "none" =>
          /\ receipt'[p] = receipt[p] /\ state'[p] = state[p]
          /\ lifecycle'[p] = lifecycle[p]
          /\ p \in cancelled' => p \in cancelled
    BY <1>3
  <2>2. Len(hostLog') >= Len(hostLog)
        /\ \A i \in 1..Len(hostLog') : i <= Len(hostLog)
                                        /\ hostLog'[i] = hostLog[i]
    BY SMT, <1>2, <1>3
  <2> QED BY <2>1, <2>2 DEF TerminalFrozenStep
<1>4. ASSUME UNCHANGED <<state, hostLog, lifecycle, receipt, cancelled>>
      PROVE  TerminalFrozenStep
  BY SMT, <1>2, <1>4 DEF TerminalFrozenStep
<1>5. ASSUME NEW o \in Operations, Accept(o)
      PROVE  TerminalFrozenStep
  <2>1. receipt[o].outcome = "none"
    BY <1>1, <1>5 DEF Accept, TerminalAgreement, TerminalStates
  <2> QED BY <1>1, <1>3, <1>5, <2>1 DEF Accept, TypeInv, RowTypes
<1>6. ASSUME NEW o \in Operations, RequestCancellation(o)
      PROVE  TerminalFrozenStep
  <2>1. receipt[o].outcome = "none"
    BY <1>1, <1>6, OpenHasNoReceipt DEF RequestCancellation
  <2> QED BY <1>3, <1>6, <2>1 DEF RequestCancellation
<1>7. ASSUME NEW f \in issued, NEW r \in ClientStates,
             AppendRevisionState(f, r)
      PROVE  TerminalFrozenStep
  <2>1. f.op \in Operations /\ receipt[f.op].outcome = "none"
    BY <1>1, <1>7, OpenHasNoReceipt DEF AppendRevisionState
  <2> QED BY <1>1, <1>3, <1>7, <2>1 DEF AppendRevisionState, TypeInv, RowTypes
<1>8. ASSUME NEW o \in OpenOperations,
             \A p \in Operations \ {o} :
               /\ receipt'[p] = receipt[p] /\ state'[p] = state[p]
               /\ lifecycle'[p] = lifecycle[p],
             cancelled' = cancelled,
             Len(hostLog') >= Len(hostLog),
             \A i \in 1..Len(hostLog) : hostLog'[i] = hostLog[i],
             \A i \in 1..Len(hostLog') : i > Len(hostLog) => hostLog'[i].op = o
      PROVE  TerminalFrozenStep
  <2>1. o \in Operations /\ receipt[o].outcome = "none"
    BY <1>1, OpenHasNoReceipt
  <2>2. \A i \in 1..Len(hostLog') :
          IF i <= Len(hostLog) THEN hostLog'[i] = hostLog[i]
                               ELSE receipt[hostLog'[i].op].outcome = "none"
    BY SMT, <1>2, <1>8, <2>1
  <2> QED BY <1>8, <2>1, <2>2 DEF TerminalFrozenStep
<1>9. ASSUME NEW f \in issued,
             NEW kind \in {"progress", "committed", "terminal"},
             NEW st \in ProgressStates \cup TerminalStates,
             hostLog' = Append(hostLog, Event(f, kind, st))
      PROVE  /\ Len(hostLog') >= Len(hostLog)
             /\ \A i \in 1..Len(hostLog) : hostLog'[i] = hostLog[i]
             /\ \A i \in 1..Len(hostLog') :
                  i > Len(hostLog) => hostLog'[i].op = f.op
  <2>1. Event(f, kind, st) \in EventRecord /\ Event(f, kind, st).op = f.op
    BY <1>1, EventTypes DEF TypeInv, Event
  <2>2. /\ Len(hostLog') = Len(hostLog) + 1
        /\ hostLog'[Len(hostLog) + 1] = Event(f, kind, st)
        /\ \A i \in 1..Len(hostLog) : hostLog'[i] = hostLog[i]
    BY SMT, <1>2, <1>9, <2>1, Appended
  <2> QED BY SMT, <1>2, <2>1, <2>2
<1>10. ASSUME NEW f \in issued, NEW kind \in {"progress", "committed"},
              NEW st \in ClientEvents, AppendEvent(f, kind, st)
       PROVE  TerminalFrozenStep
  <2>1. f.op \in OpenOperations /\ UNCHANGED <<lifecycle, receipt, cancelled>>
        /\ \A p \in Operations \ {f.op} : state'[p] = state[p]
    BY <1>1, <1>10 DEF AppendEvent, TypeInv, RowTypes
  <2> QED BY <1>8, <1>9, <1>10, <2>1, JournalConstants DEF AppendEvent
<1>11. ASSUME NEW f \in issued, NEW outcome \in ClientOutcomes,
              CommitReceipt(f, outcome)
       PROVE  TerminalFrozenStep
  <2>1. f.op \in OpenOperations /\ UNCHANGED <<lifecycle, cancelled>>
        /\ \A p \in Operations \ {f.op} :
             state'[p] = state[p] /\ receipt'[p] = receipt[p]
    BY <1>1, <1>11 DEF CommitReceipt, TypeInv, RowTypes
  <2> QED BY <1>8, <1>9, <1>11, <2>1, JournalConstants DEF CommitReceipt
<1>12. ASSUME NEW f \in issued, NEW p, CommitSuccess(f, p)
       PROVE  TerminalFrozenStep
  <2> DEFINE c == Event(f, "committed", "executing")
             e == Event(f, "terminal", "succeeded")
             q == Append(hostLog, c)
  <2>1. f.op \in OpenOperations /\ cancelled' = cancelled
        /\ \A o \in Operations \ {f.op} :
             /\ state'[o] = state[o] /\ receipt'[o] = receipt[o]
             /\ lifecycle'[o] = lifecycle[o]
    BY <1>1, <1>12 DEF CommitSuccess, SuccessAllowed, TypeInv, RowTypes
  <2>2. hostLog' = Append(q, e)
    BY <1>12 DEF CommitSuccess
  <2>3. /\ c \in EventRecord /\ c.op = f.op
        /\ e \in EventRecord /\ e.op = f.op
    BY <1>1, EventTypes DEF TypeInv, Event, ProgressStates, TerminalStates
  <2> HIDE DEF c, e
  <2>4. /\ q \in Seq(EventRecord)
        /\ Len(q) = Len(hostLog) + 1
        /\ q[Len(hostLog) + 1] = c
        /\ \A i \in 1..Len(hostLog) : q[i] = hostLog[i]
    BY SMT, <1>1, <2>3, Appended DEF TypeInv, RowTypes
  <2> HIDE DEF q
  <2>5. /\ Len(hostLog') = Len(q) + 1
        /\ hostLog'[Len(q) + 1] = e
        /\ \A i \in 1..Len(q) : hostLog'[i] = q[i]
    BY SMT, <2>2, <2>3, <2>4, Appended
  <2>6. /\ Len(hostLog') >= Len(hostLog)
        /\ \A i \in 1..Len(hostLog) : hostLog'[i] = hostLog[i]
        /\ \A i \in 1..Len(hostLog') :
             i > Len(hostLog) => hostLog'[i].op = f.op
    BY SMT, <1>2, <2>3, <2>4, <2>5
  <2> QED BY <1>8, <2>1, <2>6
<1> QED
  BY <1>4, <1>5, <1>6, <1>7, <1>10, <1>11, <1>12 DEF Next, vars, LeaseStep

(* Nothing about an operation changes once its receipt is durable.         *)
THEOREM TerminalStaysFrozen == Spec => TerminalFrozen
BY ReceiptInvInit, ReceiptInvStep, FrozenStep, PTL DEF Spec, TerminalFrozen

-----------------------------------------------------------------------------
(* The initial journal is the initial ledger.                              *)
LEMMA LedgerStarts == Init => Ledger!LedgerInit
  BY DEF Init, Ledger!LedgerInit, LedgerOutcome, NoActive

(* Every step of the journal is a step of the ledger or leaves it alone.   *)
LEMMA LedgerStep ==
  ASSUME TypeInv, [Next]_vars
  PROVE  [Ledger!LedgerNext]_(Ledger!ledgerVars)
<1>1. ASSUME UNCHANGED <<state, cancelled, active>>
      PROVE  UNCHANGED Ledger!ledgerVars
  BY <1>1 DEF Ledger!ledgerVars, LedgerOutcome
<1>2. ASSUME NEW o \in Operations, NEW st \in OperationStates,
             state' = [state EXCEPT ![o] = st]
      PROVE  LedgerOutcome' =
               [LedgerOutcome EXCEPT ![o] =
                  IF st = "absent" THEN "none"
                  ELSE IF st \in TerminalStates THEN st ELSE "pending"]
  BY <1>2 DEF LedgerOutcome, TypeInv, RowTypes
<1>3. \A o \in OpenOperations : o \in Operations /\ LedgerOutcome[o] = "pending"
  BY DEF OpenOperations, Accepted, LedgerOutcome
<1>4. ASSUME NEW o \in Operations, Accept(o)
      PROVE  Ledger!Submit(o)
  <2>1. "accepted" \in OperationStates /\ "accepted" \notin TerminalStates
    BY DEF OperationStates, TerminalStates
  <2>2. state[o] = "absent" /\ state' = [state EXCEPT ![o] = "accepted"]
        /\ UNCHANGED <<cancelled, active>>
    BY <1>4 DEF Accept
  <2>3. LedgerOutcome' = [LedgerOutcome EXCEPT ![o] = "pending"]
    BY <1>2, <2>1, <2>2
  <2>4. LedgerOutcome[o] = "none"
    BY <2>2 DEF LedgerOutcome
  <2> QED BY <2>2, <2>3, <2>4 DEF Ledger!Submit
<1>5. ASSUME NEW o \in Operations, RequestCancellation(o)
      PROVE  Ledger!Cancel(o)
  BY <1>3, <1>5 DEF RequestCancellation, Ledger!Cancel, LedgerOutcome
<1>6. ASSUME NEW f \in issued, NEW kind, NEW st \in ClientEvents,
             AppendEvent(f, kind, st)
      PROVE  UNCHANGED Ledger!ledgerVars
  <2>1. st \in OperationStates /\ st # "absent" /\ st \notin TerminalStates
    BY JournalConstants DEF OperationStates, ProgressStates, TerminalStates
  <2>2. f.op \in OpenOperations /\ UNCHANGED <<cancelled, active>>
        /\ state' = [state EXCEPT ![f.op] = st]
    BY <1>6 DEF AppendEvent
  <2>3. LedgerOutcome' = [LedgerOutcome EXCEPT ![f.op] = "pending"]
    BY <1>2, <1>3, <2>1, <2>2
  <2>4. LedgerOutcome' = LedgerOutcome
    BY ZenonT(60), <1>3, <2>2, <2>3 DEF LedgerOutcome
  <2> QED BY <2>2, <2>4 DEF Ledger!ledgerVars
<1>7. ASSUME NEW f \in issued, NEW outcome \in ClientOutcomes,
             CommitReceipt(f, outcome)
      PROVE  Ledger!Finish(f.op, outcome) /\ f.op \in Operations
             /\ outcome \in TerminalStates
  <2>1. outcome \in OperationStates /\ outcome # "absent"
        /\ outcome \in TerminalStates
    BY JournalConstants DEF OperationStates, TerminalStates
  <2>2. f.op \in OpenOperations /\ UNCHANGED <<cancelled, active>>
        /\ state' = [state EXCEPT ![f.op] = outcome]
    BY <1>7 DEF CommitReceipt
  <2>3. LedgerOutcome' = [LedgerOutcome EXCEPT ![f.op] = outcome]
    BY <1>2, <1>3, <2>1, <2>2
  <2> QED BY <1>3, <2>1, <2>2, <2>3 DEF Ledger!Finish
<1>8. ASSUME NEW f \in issued, NEW p, CommitSuccess(f, p)
      PROVE  Ledger!Activate(f.op) /\ f.op \in Operations
  <2>1. "succeeded" \in OperationStates /\ "succeeded" \in TerminalStates
    BY DEF OperationStates, TerminalStates
  <2>2. f.op \in OpenOperations /\ f.op \notin cancelled
        /\ cancelled' = cancelled
        /\ state' = [state EXCEPT ![f.op] = "succeeded"]
        /\ active' = [active EXCEPT ![ScopeOf[f.op]] =
                        [op |-> f.op,
                         generation |-> active[ScopeOf[f.op]].generation + 1]]
    BY <1>8 DEF CommitSuccess, SuccessAllowed
  <2>3. LedgerOutcome' = [LedgerOutcome EXCEPT ![f.op] = "succeeded"]
    BY <1>2, <1>3, <2>1, <2>2
  <2> QED BY <1>3, <2>2, <2>3 DEF Ledger!Activate
<1> QED
  BY <1>1, <1>4, <1>5, <1>6, <1>7, <1>8
  DEF Next, vars, LeaseStep, AppendRevisionState, Ledger!LedgerNext

(* The journal implements the ledger: whatever its clients, their leases   *)
(* and the clock do, outcomes, cancellations and active revisions start    *)
(* and change as the ledger says.                                          *)
THEOREM JournalImplementsLedger == Spec => Ledger!LedgerInit /\ LedgerSteps
BY LedgerStarts, TypeInvInit, TypeInvStep, LedgerStep, PTL
DEF Spec, LedgerSteps

-----------------------------------------------------------------------------
(* The check the journal makes of itself when it is opened.                *)
(* Terminal events are those with a terminal state; an operation without   *)
(* events was at most accepted, and otherwise is where its last event      *)
(* says.                                                                   *)
LogKinds ==
  \A i \in Cursors : hostLog[i].kind = "terminal" <=> hostLog[i].state \in TerminalStates

StateFollows(o) ==
  /\ (\A i \in Cursors : hostLog[i].op # o) => state[o] \in {"absent", "accepted"}
  /\ \A i \in Cursors : FinalEvent(o, i) => state[o] = hostLog[i].state

(* What the check asks of the active rows and of the atomic successes      *)
(* beyond the chain they form: their operations ended active, which stays  *)
(* so because the lifecycle of an operation with a receipt is closed.      *)
AtomicEndsActive ==
  \A o \in Operations : receipt[o].generation # 0 => EndsActive(o)

ActiveInScope ==
  \A s \in Scopes : active[s].op # NoOperation => active[s].op \in OperationsIn(s)

IntegrityInv ==
  /\ ReceiptInv
  /\ LogKinds
  /\ \A o \in Operations : StateFollows(o)
  /\ \A o \in Operations : _verified_revision_history(o)
  /\ AtomicEndsActive
  /\ ActiveInScope

-----------------------------------------------------------------------------
(* Events of one operation that end in its new state keep every operation  *)
(* where its last event says.                                              *)
LEMMA StateFollowsEvents ==
  ASSUME TypeInv, TypeInv', NEW o \in Operations,
         \A p \in Operations : StateFollows(p),
         Len(hostLog') > Len(hostLog),
         \A i \in 1..Len(hostLog) : hostLog'[i] = hostLog[i],
         \A i \in (Len(hostLog) + 1)..Len(hostLog') : hostLog'[i].op = o,
         state' = [state EXCEPT ![o] = hostLog'[Len(hostLog')].state]
  PROVE  \A p \in Operations : StateFollows(p)'
<1> DEFINE n == Len(hostLog)
           m == Len(hostLog')
<1>1. n \in Nat /\ m \in Nat /\ m > n
  BY SMT DEF TypeInv, RowTypes
<1>2. m \in 1..m /\ m \in (n + 1)..m /\ hostLog'[m].op = o
  BY SMT, <1>1
<1>3. \A i \in 1..m : i \in 1..n \/ i \in (n + 1)..m
  BY SMT, <1>1
<1>4. \A p \in Operations : state'[p] = IF p = o THEN hostLog'[m].state ELSE state[p]
  BY DEF TypeInv, RowTypes
<1> SUFFICES ASSUME NEW p \in Operations
             PROVE  StateFollows(p)'
  OBVIOUS
<1>5. CASE p = o
  <2>1. \A i \in 1..m : FinalEvent(o, i)' => i = m
    <3> SUFFICES ASSUME NEW i \in 1..m, FinalEvent(o, i)' PROVE i = m
      OBVIOUS
    <3>1. m <= i
      BY <1>2 DEF FinalEvent, Cursors
    <3> QED BY SMT, <1>1, <3>1
  <2> QED BY <1>2, <1>4, <1>5, <2>1 DEF StateFollows, Cursors
<1>6. CASE p # o
  <2>1. \A i \in 1..m : hostLog'[i].op = p => i \in 1..n /\ hostLog'[i] = hostLog[i]
    BY <1>3, <1>6
  <2>2. (\A i \in 1..m : hostLog'[i].op # p) => \A i \in 1..n : hostLog[i].op # p
    BY SMT, <1>1
  <2>3. \A i \in 1..m : FinalEvent(p, i)' => i \in 1..n /\ FinalEvent(p, i)
    <3> SUFFICES ASSUME NEW i \in 1..m, FinalEvent(p, i)' PROVE i \in 1..n /\ FinalEvent(p, i)
      OBVIOUS
    <3>1. i \in 1..n /\ hostLog[i].op = p
      BY <2>1 DEF FinalEvent
    <3>2. \A j \in 1..n : hostLog[j].op = p => j <= i
      BY SMT, <1>1 DEF FinalEvent, Cursors
    <3> QED BY <3>1, <3>2 DEF FinalEvent, Cursors
  <2>4. state'[p] = state[p]
    BY <1>4, <1>6
  <2>5. (\A i \in 1..m : hostLog'[i].op # p) => state'[p] \in {"absent", "accepted"}
    BY <2>2, <2>4 DEF StateFollows, Cursors
  <2>6. \A i \in 1..m : FinalEvent(p, i)' => state'[p] = hostLog'[i].state
    BY ZenonT(60), <2>1, <2>3, <2>4 DEF StateFollows, Cursors, FinalEvent
  <2> QED BY <2>5, <2>6 DEF StateFollows, Cursors
<1> QED BY <1>5, <1>6

(* So does a step that writes no event and at most accepts an operation.   *)
LEMMA StateFollowsNoEvent ==
  ASSUME TypeInv, NEW p \in Operations, StateFollows(p), hostLog' = hostLog,
         state'[p] = state[p] \/ (state[p] = "absent" /\ state'[p] = "accepted")
  PROVE  StateFollows(p)'
<1>1. CASE state'[p] = state[p]
  BY <1>1 DEF StateFollows, Cursors, FinalEvent
<1>2. CASE state[p] = "absent" /\ state'[p] = "accepted"
  <2>1. \A i \in Cursors : ~FinalEvent(p, i)
    <3> SUFFICES ASSUME NEW i \in Cursors, FinalEvent(p, i) PROVE FALSE
      OBVIOUS
    <3>1. hostLog[i].state = "absent"
      BY <1>2 DEF StateFollows
    <3>2. hostLog[i] \in EventRecord
      BY SMT DEF TypeInv, RowTypes, Cursors
    <3> QED BY <3>1, <3>2 DEF EventRecord, ProgressStates, TerminalStates
  <2> QED BY <1>2, <2>1 DEF StateFollows, Cursors, FinalEvent
<1> QED BY <1>1, <1>2

(* A state the table allows extends a history the check accepts.           *)
LEMMA HistoryOnAppend ==
  ASSUME TypeInv, NEW o \in Operations, NEW r \in RevisionStates,
         \A p \in Operations : _verified_revision_history(p),
         RevisionMayBecome(o, r),
         lifecycle' = [lifecycle EXCEPT ![o] = Append(@, r)]
  PROVE  /\ \A p \in Operations : _verified_revision_history(p)'
         /\ lifecycle'[o] # <<>> /\ Last(lifecycle'[o]) = r
         /\ \A p \in Operations \ {o} : lifecycle'[p] = lifecycle[p]
<1> DEFINE q == lifecycle[o]
<1>1. q \in Seq(RevisionStates)
  BY DEF TypeInv, RowTypes
<1>2. lifecycle'[o] = Append(q, r) /\ \A p \in Operations \ {o} : lifecycle'[p] = lifecycle[p]
  BY DEF TypeInv, RowTypes
<1>3. /\ Len(lifecycle'[o]) = Len(q) + 1
      /\ lifecycle'[o][Len(q) + 1] = r
      /\ \A i \in 1..Len(q) : lifecycle'[o][i] = q[i]
      /\ lifecycle'[o] # <<>>
  BY SMT, <1>1, <1>2, Appended
<1>4. Last(lifecycle'[o]) = r
  BY <1>3 DEF Last
<1>5. _verified_revision_history(o)'
  <2> SUFFICES ASSUME NEW i \in 1..Len(lifecycle'[o])
               PROVE  IF i = 1 THEN lifecycle'[o][i] = "created"
                      ELSE lifecycle'[o][i] \in RevisionSuccessors[lifecycle'[o][i - 1]]
    BY DEF _verified_revision_history
  <2>0. Len(q) \in Nat
    BY SMT, <1>1
  <2>1. CASE i \in 1..Len(q)
    <3>1. i # 1 => i - 1 \in 1..Len(q)
      BY SMT, <2>0, <2>1
    <3>2. IF i = 1 THEN q[i] = "created" ELSE q[i] \in RevisionSuccessors[q[i - 1]]
      BY <2>1 DEF _verified_revision_history
    <3> QED BY <1>3, <2>1, <3>1, <3>2
  <2>2. CASE i = Len(q) + 1
    <3>1. CASE q = <<>>
      <4>1. i = 1 /\ r = "created"
        BY SMT, <2>2, <3>1 DEF RevisionMayBecome
      <4> QED BY <1>3, <2>2, <4>1
    <3>2. CASE q # <<>>
      <4>1. Len(q) \in 1..Len(q) /\ i # 1 /\ i - 1 = Len(q)
        BY SMT, <1>1, <2>0, <2>2, <3>2
      <4>2. r \in RevisionSuccessors[q[Len(q)]]
        BY <3>2 DEF RevisionMayBecome, Last
      <4> QED BY <1>3, <2>2, <4>1, <4>2
    <3> QED BY <3>1, <3>2
  <2> QED BY SMT, <1>3, <2>0, <2>1, <2>2
<1>6. \A p \in Operations \ {o} : _verified_revision_history(p)'
  BY SMT, <1>2 DEF _verified_revision_history
<1> QED BY <1>2, <1>3, <1>4, <1>5, <1>6

(* One event whose kind and state agree.                                   *)
LEMMA OnEvent ==
  ASSUME TypeInv, TypeInv', LogKinds, \A p \in Operations : StateFollows(p),
         NEW f \in issued, f.op \in Operations,
         NEW kind \in {"progress", "committed", "terminal"},
         NEW st \in ProgressStates \cup TerminalStates,
         kind = "terminal" <=> st \in TerminalStates,
         hostLog' = Append(hostLog, Event(f, kind, st)),
         state' = [state EXCEPT ![f.op] = st]
  PROVE  LogKinds' /\ \A p \in Operations : StateFollows(p)'
<1> DEFINE n == Len(hostLog)
           e == Event(f, kind, st)
<1>1. e.op = f.op /\ e.kind = kind /\ e.state = st
  BY DEF Event
<1>2. e \in EventRecord /\ hostLog \in Seq(EventRecord)
  BY EventTypes DEF TypeInv, RowTypes
<1> HIDE DEF e
<1>3. /\ n \in Nat /\ Len(hostLog') = n + 1 /\ hostLog'[n + 1] = e
      /\ \A i \in 1..n : hostLog'[i] = hostLog[i]
  BY SMT, <1>2, Appended DEF e
<1>4. \A i \in 1..Len(hostLog') : i \in 1..n \/ i = n + 1
  BY SMT, <1>3
<1>5. LogKinds'
  BY SMT, <1>1, <1>3, <1>4 DEF LogKinds, Cursors
<1>6. Len(hostLog') > Len(hostLog) /\ \A i \in (n + 1)..Len(hostLog') : hostLog'[i].op = f.op
  <2>1. \A i \in (n + 1)..Len(hostLog') : i = n + 1
    BY SMT, <1>3
  <2> QED BY SMT, <1>1, <1>3, <2>1
<1>7. state' = [state EXCEPT ![f.op] = hostLog'[Len(hostLog')].state]
  BY <1>1, <1>3
<1>8. \A i \in 1..Len(hostLog) : hostLog'[i] = hostLog[i]
  BY <1>3
<1> QED BY <1>5, <1>6, <1>7, <1>8, StateFollowsEvents

(* The two events of a success.                                            *)
LEMMA OnSuccessEvents ==
  ASSUME TypeInv, TypeInv', LogKinds, \A p \in Operations : StateFollows(p),
         NEW f \in issued, f.op \in Operations,
         hostLog' = Append(Append(hostLog, Event(f, "committed", "executing")),
                           Event(f, "terminal", "succeeded")),
         state' = [state EXCEPT ![f.op] = "succeeded"]
  PROVE  LogKinds' /\ \A p \in Operations : StateFollows(p)'
<1> DEFINE n == Len(hostLog)
           c == Event(f, "committed", "executing")
           e == Event(f, "terminal", "succeeded")
           q == Append(hostLog, c)
<1>1. /\ e.op = f.op /\ e.kind = "terminal" /\ e.state = "succeeded"
      /\ c.op = f.op /\ c.kind = "committed" /\ c.state = "executing"
  BY DEF Event
<1>2. c \in EventRecord /\ e \in EventRecord /\ hostLog \in Seq(EventRecord)
  BY EventTypes DEF TypeInv, RowTypes, ProgressStates, TerminalStates
<1> HIDE DEF c, e
<1>3. /\ q \in Seq(EventRecord) /\ n \in Nat /\ Len(q) = n + 1 /\ q[n + 1] = c
      /\ \A i \in 1..n : q[i] = hostLog[i]
  BY SMT, <1>2, Appended
<1>4. hostLog' = Append(q, e)
  BY DEF c, e
<1> HIDE DEF q
<1>5. /\ Len(hostLog') = Len(q) + 1 /\ hostLog'[Len(q) + 1] = e
      /\ \A i \in 1..Len(q) : hostLog'[i] = q[i]
  BY SMT, <1>2, <1>3, <1>4, Appended
<1>6. /\ Len(hostLog') = n + 2 /\ hostLog'[n + 2] = e /\ hostLog'[n + 1] = c
      /\ \A i \in 1..n : hostLog'[i] = hostLog[i]
  BY SMT, <1>3, <1>5
<1>7. \A i \in 1..Len(hostLog') : i \in 1..n \/ i = n + 1 \/ i = n + 2
  BY SMT, <1>3, <1>6
<1>8. LogKinds'
  BY SMT, <1>1, <1>6, <1>7 DEF LogKinds, Cursors, TerminalStates
<1>9. Len(hostLog') > Len(hostLog) /\ \A i \in (n + 1)..Len(hostLog') : hostLog'[i].op = f.op
  <2>1. \A i \in (n + 1)..Len(hostLog') : i = n + 1 \/ i = n + 2
    BY SMT, <1>3, <1>6
  <2> QED BY SMT, <1>1, <1>3, <1>6, <2>1
<1>10. state' = [state EXCEPT ![f.op] = hostLog'[Len(hostLog')].state]
  BY <1>1, <1>6
<1>11. \A i \in 1..Len(hostLog) : hostLog'[i] = hostLog[i]
  BY <1>6
<1> QED BY <1>8, <1>9, <1>10, <1>11, StateFollowsEvents

-----------------------------------------------------------------------------
LEMMA IntegrityInvInit == Init => IntegrityInv
<1> SUFFICES ASSUME Init PROVE IntegrityInv
  OBVIOUS
<1>1. ReceiptInv
  BY ReceiptInvInit
<1>2. Cursors = {}
  BY SMT DEF Init, Cursors
<1>3. LogKinds /\ \A o \in Operations : StateFollows(o)
  BY <1>2 DEF Init, LogKinds, StateFollows
<1>4. \A o \in Operations : _verified_revision_history(o)
  BY SMT DEF Init, _verified_revision_history
<1>5. AtomicEndsActive /\ ActiveInScope
  BY DEF Init, AtomicEndsActive, ActiveInScope, NoReceipt, NoActive
<1> QED BY <1>1, <1>3, <1>4, <1>5 DEF IntegrityInv

(* Every call of the journal keeps what its integrity check asks for.      *)
LEMMA IntegrityInvStep ==
  ASSUME IntegrityInv, [Next]_vars
  PROVE  IntegrityInv'
<1>1. /\ TypeInv /\ TypeInv' /\ ReceiptInv /\ ReceiptInv' /\ LogKinds
      /\ \A p \in Operations : StateFollows(p)
      /\ \A p \in Operations : _verified_revision_history(p)
      /\ AtomicEndsActive /\ ActiveInScope
  BY ReceiptInvStep DEF IntegrityInv, ReceiptInv
<1>2. ASSUME UNCHANGED lifecycle
      PROVE  \A p \in Operations : _verified_revision_history(p)' /\ EndsActive(p)' = EndsActive(p)
  BY <1>1, <1>2 DEF _verified_revision_history, EndsActive, Last
<1>3. ASSUME UNCHANGED <<lifecycle, active, receipt>>
      PROVE  /\ AtomicEndsActive' /\ ActiveInScope'
             /\ \A p \in Operations : _verified_revision_history(p)'
  BY <1>1, <1>2, <1>3 DEF AtomicEndsActive, ActiveInScope, OperationsIn
<1>4. ASSUME UNCHANGED hostLog,
             \A p \in Operations : state'[p] = state[p] \/ (state[p] = "absent" /\ state'[p] = "accepted")
      PROVE  LogKinds' /\ \A p \in Operations : StateFollows(p)'
  <2>1. LogKinds'
    BY <1>1, <1>4 DEF LogKinds, Cursors
  <2> QED BY <1>1, <1>4, <2>1, StateFollowsNoEvent
<1>5. ASSUME UNCHANGED <<lifecycle, active, receipt, hostLog, state>>
      PROVE  IntegrityInv'
  BY <1>1, <1>3, <1>4, <1>5 DEF IntegrityInv
<1>6. ASSUME NEW o \in Operations, Accept(o)
      PROVE  IntegrityInv'
  <2>1. \A p \in Operations : state'[p] = state[p] \/ (state[p] = "absent" /\ state'[p] = "accepted")
    BY <1>1, <1>6 DEF Accept, TypeInv, RowTypes
  <2>2. UNCHANGED <<lifecycle, active, receipt, hostLog>>
    BY <1>6 DEF Accept
  <2> QED BY <1>1, <1>3, <1>4, <2>1, <2>2 DEF IntegrityInv
<1>7. ASSUME NEW f \in issued, NEW kind \in {"progress", "committed"},
             NEW st \in ClientEvents, AppendEvent(f, kind, st)
      PROVE  IntegrityInv'
  <2>1. st \in ProgressStates /\ st \notin TerminalStates /\ f.op \in Operations
    BY <1>1, JournalConstants, IssuedFences DEF ProgressStates, TerminalStates, TypeInv
  <2>2. LogKinds' /\ \A p \in Operations : StateFollows(p)'
    BY <1>1, <1>7, <2>1, OnEvent DEF AppendEvent
  <2> QED BY <1>1, <1>3, <1>7, <2>2 DEF IntegrityInv, AppendEvent
<1>8. ASSUME NEW f \in issued, NEW r \in ClientStates, AppendRevisionState(f, r)
      PROVE  IntegrityInv'
  <2>1. /\ f.op \in OpenOperations /\ f.op \in Operations /\ r \in RevisionStates
        /\ RevisionMayBecome(f.op, r)
        /\ lifecycle' = [lifecycle EXCEPT ![f.op] = Append(@, r)]
        /\ UNCHANGED <<state, hostLog, active, receipt>>
    BY <1>8, JournalConstants DEF AppendRevisionState, OpenOperations, Accepted
  <2>2. /\ \A p \in Operations : _verified_revision_history(p)'
        /\ \A p \in Operations \ {f.op} : lifecycle'[p] = lifecycle[p]
    BY <1>1, <2>1, HistoryOnAppend
  <2>3. receipt[f.op].generation = 0
    BY ZenonT(60), <1>1, <2>1, OpenHasNoReceipt DEF ReceiptInv, NoReceiptNoGeneration
  <2>4. AtomicEndsActive' /\ ActiveInScope'
    BY SMT, <1>1, <2>1, <2>2, <2>3 DEF AtomicEndsActive, ActiveInScope, EndsActive, Last, OperationsIn
  <2> QED BY <1>1, <1>4, <2>1, <2>2, <2>4 DEF IntegrityInv
<1>9. ASSUME NEW f \in issued, NEW outcome \in ClientOutcomes, CommitReceipt(f, outcome)
      PROVE  IntegrityInv'
  <2> DEFINE r == [NoReceipt EXCEPT !.outcome = outcome]
  <2>1. /\ outcome \in TerminalStates /\ f.op \in Operations
        /\ receipt' = [receipt EXCEPT ![f.op] = r] /\ UNCHANGED <<lifecycle, active>>
        /\ hostLog' = Append(hostLog, Event(f, "terminal", outcome))
        /\ state' = [state EXCEPT ![f.op] = outcome]
    BY <1>9, JournalConstants DEF CommitReceipt, OpenOperations, Accepted
  <2>2. r.generation = 0
    BY DEF NoReceipt
  <2> HIDE DEF r
  <2>3. LogKinds' /\ \A p \in Operations : StateFollows(p)'
    BY <1>1, <2>1, OnEvent
  <2>4. \A p \in Operations : receipt'[p] = r \/ receipt'[p] = receipt[p]
    BY <1>1, <2>1 DEF TypeInv, RowTypes
  <2>5. AtomicEndsActive'
    BY <1>1, <1>2, <2>1, <2>2, <2>4 DEF AtomicEndsActive
  <2>6. ActiveInScope'
    BY <1>1, <2>1 DEF ActiveInScope, OperationsIn
  <2> QED BY <1>1, <1>2, <2>1, <2>3, <2>5, <2>6 DEF IntegrityInv
<1>10. ASSUME NEW f \in issued, NEW p, CommitSuccess(f, p)
       PROVE  IntegrityInv'
  <2> DEFINE o == f.op
             t == ScopeOf[o]
             row == [op |-> o, generation |-> active[t].generation + 1]
  <2>1. /\ o \in OpenOperations /\ o \in Operations /\ RevisionMayBecome(o, "active")
        /\ lifecycle' = [lifecycle EXCEPT ![o] = Append(@, "active")]
        /\ active' = [active EXCEPT ![t] = row]
        /\ \A q \in Operations \ {o} : receipt'[q] = receipt[q]
        /\ hostLog' = Append(Append(hostLog, Event(f, "committed", "executing")),
                             Event(f, "terminal", "succeeded"))
        /\ state' = [state EXCEPT ![o] = "succeeded"]
    BY <1>1, <1>10 DEF CommitSuccess, SuccessAllowed, OpenOperations, Accepted, TypeInv, RowTypes
  <2>2. LogKinds' /\ \A q \in Operations : StateFollows(q)'
    BY <1>1, <2>1, OnSuccessEvents
  <2>3. /\ \A q \in Operations : _verified_revision_history(q)'
        /\ EndsActive(o)'
        /\ \A q \in Operations \ {o} : lifecycle'[q] = lifecycle[q]
    <3>1. "active" \in RevisionStates
      BY ZenonT(60) DEF RevisionStates, RevisionSuccessors
    <3> QED BY <1>1, <2>1, <3>1, HistoryOnAppend DEF EndsActive, Last
  <2>4. AtomicEndsActive'
    BY SMT, <1>1, <2>1, <2>3 DEF AtomicEndsActive, EndsActive, Last
  <2>5. ActiveInScope'
    <3>1. \A s \in Scopes : active'[s] = IF s = t THEN row ELSE active[s]
      BY <1>1, <2>1 DEF TypeInv, RowTypes
    <3>2. row.op = o /\ o \in OperationsIn(t)
      BY <2>1 DEF OperationsIn
    <3> HIDE DEF row, o, t
    <3> QED BY <1>1, <3>1, <3>2 DEF ActiveInScope, OperationsIn
  <2> QED BY <1>1, <2>2, <2>3, <2>4, <2>5 DEF IntegrityInv
<1> QED
  BY <1>5, <1>6, <1>7, <1>8, <1>9, <1>10
  DEF Next, vars, LeaseStep, RequestCancellation

-----------------------------------------------------------------------------
(* The events of an accepted operation pass the check.                     *)
LEMMA EventsVerify ==
  ASSUME IntegrityInv, NEW o \in Accepted
  PROVE  _verified_events(o)
<1>1. /\ o \in Operations /\ state[o] # "absent" /\ StateFollows(o) /\ LogKinds
      /\ TerminalAgreement /\ TypeInv
  BY DEF IntegrityInv, ReceiptInv, Accepted
<1>2. StateMatchesEvents(o)
  BY <1>1 DEF StateMatchesEvents, StateFollows
<1>3. CASE receipt[o].outcome = "none"
  <2>1. \A i \in Cursors : ~TerminalEvent(o, i)
    <3> SUFFICES ASSUME NEW i \in Cursors, TerminalEvent(o, i) PROVE FALSE
      OBVIOUS
    <3>1. hostLog[i].kind = "terminal" /\ hostLog[i].op = o
      BY <1>1 DEF LogKinds, TerminalEvent
    <3>2. hostLog[i].state = "none"
      BY <1>1, <1>3, <3>1 DEF TerminalAgreement, Cursors
    <3> QED BY <3>2 DEF TerminalEvent, TerminalStates
  <2>2. state[o] \notin TerminalStates
    BY <1>1, <1>3 DEF TerminalAgreement
  <2> QED BY <1>2, <1>3, <2>1, <2>2 DEF _verified_events, ReceiptMatchesEvents
<1>4. CASE receipt[o].outcome # "none"
  <2>1. \A i \in Cursors : hostLog[i].op = o /\ hostLog[i].kind = "terminal" => FinalEvent(o, i)
    BY ZenonT(60), <1>1 DEF TerminalAgreement, FinalEvent, Cursors
  <2>2. \E i \in Cursors : FinalEvent(o, i) /\ hostLog[i].kind = "terminal"
    BY SMT, <1>1, <1>4, <2>1 DEF TerminalAgreement, Cursors
  <2>3. \A i \in Cursors : TerminalEvent(o, i) => FinalEvent(o, i)
    BY <1>1, <2>1 DEF TerminalEvent, LogKinds
  <2>4. state[o] = receipt[o].outcome
    BY <1>1, <1>4 DEF TerminalAgreement
  <2> QED BY <1>2, <1>4, <2>2, <2>3, <2>4 DEF _verified_events, ReceiptMatchesEvents
<1> QED BY <1>3, <1>4

(* So do the active rows and the atomic successes.                         *)
LEMMA SuccessesVerify ==
  ASSUME IntegrityInv
  PROVE  ActiveRowsReconcile /\ AtomicSuccessesReconcile
<1>1. ActiveRowsReconcile
  BY DEF IntegrityInv, ReceiptInv, ActiveInScope, ActiveReconciles, ActiveRowsReconcile, EndsActive
<1>2. ASSUME NEW s \in Scopes, NEW o \in AtomicSuccesses(s)
      PROVE  /\ receipt[o].outcome = "succeeded" /\ EndsActive(o)
             /\ \A p \in AtomicSuccesses(s) : receipt[p].generation = receipt[o].generation => p = o
             /\ active[s].op # NoOperation
             /\ active[s].generation >= receipt[o].generation
             /\ active[s].generation = receipt[o].generation => active[s].op = o
  <2>1. SuccessChain /\ AtomicEndsActive /\ ActiveFromGeneration /\ TypeInv
    BY DEF IntegrityInv, ReceiptInv
  <2>2. o \in Operations /\ receipt[o].generation # 0
    BY DEF AtomicSuccesses, OperationsIn
  <2>3. active[s].generation \in Nat
    BY <2>1 DEF TypeInv, RowTypes, ActiveRow
  <2>4. receipt[o].generation \in 1..active[s].generation
    BY SMT, <2>1 DEF SuccessChain
  <2>5. active[s].generation # 0 /\ active[s].generation >= receipt[o].generation
    BY SMT, <2>3, <2>4
  <2>6. active[s].op # NoOperation
    BY <2>1, <2>5 DEF ActiveFromGeneration
  <2> QED BY <2>1, <2>2, <2>5, <2>6 DEF SuccessChain, AtomicEndsActive
<1> QED BY <1>1, <1>2 DEF AtomicSuccessesReconcile

(* Both rows of a lease are written together, with a token that is not     *)
(* below any of its scope, so the rows reconcile afterwards.               *)
LEMMA WriteReconciles ==
  ASSUME FenceTypeOK, LeasesReconcile, NEW o \in Operations, NEW w,
         NEW t \in Nat, NEW e, WriteLeases(o, w, t, e),
         \A p \in OperationsIn(ScopeOf[o]) : opLease[p].token <= t
  PROVE  LeasesReconcile'
<1> DEFINE s == ScopeOf[o]
<1>1. s \in Scopes
  BY JournalConstants
<1>2. /\ scopeLease'[s] = [op |-> o, owner |-> w, token |-> t, expires |-> e]
      /\ \A r \in Scopes \ {s} : scopeLease'[r] = scopeLease[r]
      /\ opLease'[o] = [owner |-> w, token |-> t, expires |-> e]
      /\ \A p \in Operations \ {o} : opLease'[p] = opLease[p]
  BY <1>1 DEF FenceTypeOK, WriteLeases
<1> SUFFICES ASSUME NEW r \in Scopes, scopeLease'[r].token # 0
             PROVE  /\ scopeLease'[r].op \in OperationsIn(r)
                    /\ opLease'[scopeLease'[r].op] =
                         [owner |-> scopeLease'[r].owner,
                          token |-> scopeLease'[r].token,
                          expires |-> scopeLease'[r].expires]
                    /\ \A p \in OperationsIn(r) :
                         opLease'[p].token <= scopeLease'[r].token
  BY ZenonT(60) DEF LeasesReconcile, OperationsIn
<1>3. CASE r = s
  <2>1. ASSUME NEW p \in OperationsIn(s)
        PROVE  opLease'[p].token <= t
    <3>1. CASE p = o
      BY SMT, <1>2, <3>1
    <3>2. CASE p # o
      BY ZenonT(60), <1>2, <3>2 DEF OperationsIn
    <3> QED BY ZenonT(60), <3>1, <3>2
  <2> QED BY SMT, <1>2, <1>3, <2>1 DEF OperationsIn
<1>4. CASE r # s
  <2>1. \A p \in OperationsIn(r) : p # o /\ opLease'[p] = opLease[p]
    BY <1>2, <1>4 DEF OperationsIn
  <2>2. scopeLease'[r] = scopeLease[r] /\ scopeLease[r].token # 0
    BY <1>2, <1>4
  <2> QED BY SMT, <2>1, <2>2 DEF LeasesReconcile
<1> QED BY <1>3, <1>4

(* The lease rows keep reconciling.                                        *)
LEMMA LeasesStep ==
  ASSUME TypeInv, LeasesReconcile, [FenceNext]_fenceVars
  PROVE  LeasesReconcile'
<1> USE JournalConstants
<1>0. FenceTypeOK
  BY DEF TypeInv
<1>1. ASSUME NEW f \in issued, AssertExecutionFence(f), NEW w, NEW e,
             WriteLeases(f.op, w, f.token, e)
      PROVE  LeasesReconcile'
  <2>1. f.op \in Operations /\ f.token \in Nat /\ f.token # 0
        /\ ScopeOf[f.op] \in Scopes
    BY SMT, <1>0, IssuedFences DEF Tokens
  <2>2. scopeLease[ScopeOf[f.op]].token = f.token
    BY <1>1 DEF AssertExecutionFence, ActiveScopeLease
  <2>3. \A p \in OperationsIn(ScopeOf[f.op]) : opLease[p].token <= f.token
    BY <2>1, <2>2 DEF LeasesReconcile
  <2> QED BY <1>0, <1>1, <2>1, <2>3, WriteReconciles
<1>2. ASSUME NEW o \in Operations, NEW w \in Owners, AcquireFence(o, w)
      PROVE  LeasesReconcile'
  <2> DEFINE row == scopeLease[ScopeOf[o]]
  <2>1. PICK t \in Tokens :
          IF LeaseActive(row)
          THEN t = row.token
               /\ WriteLeases(o, w, t, Larger(row.expires, now + Ttl))
          ELSE /\ \E last \in PreviousTokens(ScopeOf[o]) :
                    /\ \A u \in PreviousTokens(ScopeOf[o]) : u <= last
                    /\ t = last + 1
               /\ WriteLeases(o, w, t, now + Ttl)
    BY <1>2 DEF AcquireFence
  <2>2. t \in Nat /\ t # 0 /\ ScopeOf[o] \in Scopes
    BY SMT DEF Tokens
  <2>3. CASE LeaseActive(row)
    <3>1. \A p \in OperationsIn(ScopeOf[o]) : opLease[p].token <= t
      BY ZenonT(60), <2>1, <2>2, <2>3 DEF LeasesReconcile
    <3> QED BY ZenonT(60), <1>0, <2>1, <2>2, <2>3, <3>1, WriteReconciles
  <2>4. CASE ~LeaseActive(row)
    <3>1. PICK last \in PreviousTokens(ScopeOf[o]) :
            /\ \A u \in PreviousTokens(ScopeOf[o]) : u <= last
            /\ t = last + 1
      BY <2>1, <2>4
    <3>2. last \in Nat
      BY SMT, <1>0, <2>2 DEF PreviousTokens, FenceTypeOK, OperationsIn
    <3>3. ASSUME NEW p \in OperationsIn(ScopeOf[o])
          PROVE  opLease[p].token <= t
      <4>1. opLease[p].token \in PreviousTokens(ScopeOf[o])
            /\ opLease[p].token \in Nat
        BY SMT, <1>0 DEF PreviousTokens, FenceTypeOK, OperationsIn
      <4> QED BY SMT, <3>1, <3>2, <4>1
    <3> QED BY <1>0, <2>1, <2>2, <2>4, <3>3, WriteReconciles
  <2> QED BY <2>3, <2>4
<1>3. ASSUME UNCHANGED <<opLease, scopeLease>>
      PROVE  LeasesReconcile'
  BY <1>3 DEF LeasesReconcile
<1>4. ASSUME NEW f \in issued, HeartbeatFence(f) \/ ReleaseFence(f)
      PROVE  LeasesReconcile'
  BY <1>1, <1>4 DEF HeartbeatFence, ReleaseFence
<1> QED
  BY <1>2, <1>3, <1>4
  DEF FenceNext, fenceVars, CloseOperation, ClockSample, AcceptOperation

(* The journal passes its own integrity check in every state it can reach: *)
(* a journal that is written by its own operations, whatever their order,  *)
(* can always be opened again.                                             *)
THEOREM JournalAlwaysReopens == Spec => []JournalReopens
<1>1. Init => LeasesReconcile
  BY SMT DEF Init, LeasesReconcile, NoScopeLease
<1>2. IntegrityInv => TypeInv
  BY DEF IntegrityInv, ReceiptInv
<1>3. IntegrityInv /\ LeasesReconcile => JournalReopens
  <2> SUFFICES ASSUME IntegrityInv, LeasesReconcile PROVE JournalReopens
    OBVIOUS
  <2>1. \A o \in Accepted : _verified_events(o)
    BY EventsVerify
  <2>2. \A o \in Operations : _verified_revision_history(o)
    BY DEF IntegrityInv
  <2> QED
    BY <2>1, <2>2, SuccessesVerify
    DEF JournalReopens, _check_integrity, ScopeLeasesReconcile
<1> QED
  BY <1>1, <1>2, <1>3, IntegrityInvInit, IntegrityInvStep, LeasesStep,
     JournalTakesFenceSteps, PTL
  DEF Spec

=============================================================================
