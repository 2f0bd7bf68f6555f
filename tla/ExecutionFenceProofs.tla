------------------------ MODULE ExecutionFenceProofs ------------------------
(***************************************************************************)
(* The fencing guarantees of ExecutionFence for any number of operations,  *)
(* owners and scopes, any lease duration and any behaviour of the clock.   *)
(***************************************************************************)
EXTENDS ExecutionFence, TLAPS

(* What a scope row says about the fences in workers' hands: no issued     *)
(* token is above the row's, a held row was issued to its holder, and one  *)
(* token of a scope identifies one fence.                                  *)
IssuedBelowRow ==
  \A f \in issued : f.token <= scopeLease[ScopeOf[f.op]].token

HolderWasIssued ==
  \A s \in Scopes :
    scopeLease[s].token # 0 /\ scopeLease[s].owner # NoOwner =>
      [op |-> scopeLease[s].op, owner |-> scopeLease[s].owner,
       token |-> scopeLease[s].token] \in issued

TokenIdentifiesFence ==
  \A f, g \in issued :
    ScopeOf[f.op] = ScopeOf[g.op] /\ f.token = g.token => f = g

FenceInv ==
  /\ FenceTypeOK
  /\ LeasesReconcile
  /\ IssuedBelowRow
  /\ HolderWasIssued
  /\ TokenIdentifiesFence

-----------------------------------------------------------------------------
(* Leaves are first-order and go to Zenon; those with arithmetic or        *)
(* records cite SMT.                                                       *)
USE Zenon

(* The larger of two naturals is one of them and bounds both.              *)
LEMMA LargerIsUpperBound ==
  ASSUME NEW a \in Nat, NEW b \in Nat
  PROVE  Larger(a, b) \in Nat /\ Larger(a, b) >= a /\ Larger(a, b) >= b
         /\ (Larger(a, b) = a \/ Larger(a, b) = b)
  BY SMT DEF Larger

(* The invariant holds of a journal without leases.                        *)
LEMMA FenceInitInv == FenceInit => FenceInv
  BY SMT, FenceConstants
  DEF FenceInit, FenceInv, FenceTypeOK, LeasesReconcile, IssuedBelowRow,
      HolderWasIssued, TokenIdentifiesFence, NoOpLease, NoScopeLease, Fence

(* Rewriting both rows of f's scope with f's token, under any owner that   *)
(* is f's or NULL, keeps the invariant: this is all that a heartbeat or a  *)
(* release does.                                                           *)
LEMMA RewriteKeepsInv ==
  ASSUME FenceInv, NEW f \in issued, AssertExecutionFence(f),
         NEW w \in {f.owner, NoOwner}, NEW e \in 0..(MaxClock + Ttl),
         WriteLeases(f.op, w, f.token, e),
         UNCHANGED <<now, issued, open>>
  PROVE  FenceInv'
<1> USE FenceConstants
<1>1. f \in Fence /\ ScopeOf[f.op] \in Scopes
  BY DEF FenceInv, FenceTypeOK, Fence
<1>2. FenceTypeOK'
  BY SMT, <1>1 DEF FenceInv, FenceTypeOK, WriteLeases, Fence, Tokens
<1>3. scopeLease[ScopeOf[f.op]].token = f.token
      /\ scopeLease[ScopeOf[f.op]].op = f.op
      /\ opLease[f.op].token = f.token
  BY DEF AssertExecutionFence, ActiveLease, ActiveScopeLease
<1>4. \A s \in Scopes : scopeLease'[s].token = scopeLease[s].token
                        /\ scopeLease'[s].op = scopeLease[s].op
  BY <1>1, <1>3 DEF FenceInv, FenceTypeOK, WriteLeases
<1>5. \A p \in Operations : opLease'[p].token = opLease[p].token
  BY <1>1, <1>3 DEF FenceInv, FenceTypeOK, WriteLeases, Fence
<1>6. LeasesReconcile'
  <2> SUFFICES ASSUME NEW s \in Scopes, scopeLease'[s].token # 0
               PROVE  /\ scopeLease'[s].op \in OperationsIn(s)
                      /\ opLease'[scopeLease'[s].op] =
                           [owner |-> scopeLease'[s].owner,
                            token |-> scopeLease'[s].token,
                            expires |-> scopeLease'[s].expires]
                      /\ \A p \in OperationsIn(s) :
                           opLease'[p].token <= scopeLease'[s].token
    BY DEF LeasesReconcile, OperationsIn
  <2>1. CASE s = ScopeOf[f.op]
    <3>1. scopeLease'[s] = [op |-> f.op, owner |-> w, token |-> f.token,
                            expires |-> e]
      BY <1>1, <2>1 DEF WriteLeases, FenceInv, FenceTypeOK
    <3>2. opLease'[f.op] = [owner |-> w, token |-> f.token, expires |-> e]
      BY <1>1 DEF WriteLeases, FenceInv, FenceTypeOK, Fence
    <3>3. \A p \in OperationsIn(s) : opLease[p].token <= f.token
      BY <1>1, <1>3, <1>4, <2>1 DEF FenceInv, LeasesReconcile
    <3> QED BY SMT, <1>1, <1>5, <2>1, <3>1, <3>2, <3>3 DEF OperationsIn, Fence
  <2>2. CASE s # ScopeOf[f.op]
    BY SMT, <1>1, <1>4, <1>5, <2>2
    DEF FenceInv, FenceTypeOK, LeasesReconcile, WriteLeases, OperationsIn, Fence
  <2> QED BY <2>1, <2>2
<1>7. IssuedBelowRow'
  BY <1>1, <1>4 DEF FenceInv, FenceTypeOK, IssuedBelowRow, Fence
<1>8. HolderWasIssued'
  <2> SUFFICES ASSUME NEW s \in Scopes, scopeLease'[s].token # 0,
                      scopeLease'[s].owner # NoOwner
               PROVE  [op |-> scopeLease'[s].op,
                       owner |-> scopeLease'[s].owner,
                       token |-> scopeLease'[s].token] \in issued
    BY DEF HolderWasIssued
  <2>1. CASE s = ScopeOf[f.op]
    <3>1. scopeLease'[s] = [op |-> f.op, owner |-> w, token |-> f.token,
                            expires |-> e]
      BY <1>1, <2>1 DEF WriteLeases, FenceInv, FenceTypeOK
    <3>2. w = f.owner
      BY SMT, <3>1
    <3>3. f = [op |-> f.op, owner |-> f.owner, token |-> f.token]
      BY <1>1 DEF Fence
    <3> QED BY SMT, <3>1, <3>2, <3>3
  <2>2. CASE s # ScopeOf[f.op]
    BY <1>1, <2>2 DEF FenceInv, FenceTypeOK, HolderWasIssued, WriteLeases
  <2> QED BY <2>1, <2>2
<1>9. TokenIdentifiesFence'
  BY DEF FenceInv, TokenIdentifiesFence
<1> QED BY <1>2, <1>6, <1>7, <1>8, <1>9 DEF FenceInv

(* A re-entered lease keeps its token and its holder's fence.              *)
LEMMA ReenterKeepsInv ==
  ASSUME FenceInv, NEW o \in Operations, NEW w \in Owners,
         LeaseActive(scopeLease[ScopeOf[o]]),
         AcquireFence(o, w)
  PROVE  FenceInv' /\ issued' = issued
<1> DEFINE row == scopeLease[ScopeOf[o]]
           f == [op |-> o, owner |-> w, token |-> row.token]
           e == Larger(row.expires, now + Ttl)
<1> USE FenceConstants
<1>1. /\ row.token \in Tokens
      /\ WriteLeases(o, w, row.token, e)
      /\ issued' = issued \cup {f}
      /\ UNCHANGED <<now, open>>
      /\ row.op = o
      /\ row.owner = w
  BY DEF AcquireFence, ScopeFreeFor
<1>2. row.owner # NoOwner /\ row.expires > now
  BY DEF LeaseActive
<1>3. ScopeOf[o] \in Scopes
  OBVIOUS
<1>4. f \in issued
  BY SMT, <1>1, <1>2, <1>3 DEF FenceInv, HolderWasIssued, Tokens
<1>5. issued' = issued
  BY <1>1, <1>4
<1>6. opLease[o] = [owner |-> w, token |-> row.token, expires |-> row.expires]
  BY SMT, <1>1, <1>3 DEF FenceInv, LeasesReconcile, Tokens
<1>7. AssertExecutionFence(f)
  BY SMT, <1>1, <1>2, <1>6 DEF AssertExecutionFence, ActiveLease, ActiveScopeLease
<1>8. e \in 0..(MaxClock + Ttl)
  BY SMT, <1>3 DEF FenceInv, FenceTypeOK, Larger
<1>9. /\ f.op = o /\ f.owner = w /\ f.token = row.token
  OBVIOUS
<1>10. FenceInv'
  BY <1>1, <1>4, <1>5, <1>7, <1>8, <1>9, RewriteKeepsInv
<1> QED BY <1>5, <1>10

(* A scope that nobody holds gets a token above every earlier one.         *)
LEMMA FreshKeepsInv ==
  ASSUME FenceInv, NEW o \in Operations, NEW w \in Owners,
         ~LeaseActive(scopeLease[ScopeOf[o]]),
         AcquireFence(o, w)
  PROVE  FenceInv' /\ FreshTokenStep
<1> DEFINE s == ScopeOf[o]
<1> USE FenceConstants
<1>1. PICK token \in Tokens :
        /\ \E last \in PreviousTokens(s) :
             /\ \A t \in PreviousTokens(s) : t <= last
             /\ token = last + 1
        /\ WriteLeases(o, w, token, now + Ttl)
        /\ issued' = issued \cup {[op |-> o, owner |-> w, token |-> token]}
  BY DEF AcquireFence
<1> DEFINE f == [op |-> o, owner |-> w, token |-> token]
<1>2. UNCHANGED <<now, open>>
  BY DEF AcquireFence
<1>3. s \in Scopes /\ f \in Fence
  BY DEF Fence
<1>4. now + Ttl \in 0..(MaxClock + Ttl)
  BY SMT DEF FenceInv, FenceTypeOK
<1>5. /\ scopeLease[s].token < token
      /\ \A p \in OperationsIn(s) : opLease[p].token < token
  <2>1. PICK last \in PreviousTokens(s) :
          /\ \A t \in PreviousTokens(s) : t <= last
          /\ token = last + 1
    BY <1>1
  <2>2. scopeLease[s].token \in PreviousTokens(s)
        /\ \A p \in OperationsIn(s) : opLease[p].token \in PreviousTokens(s)
    BY DEF PreviousTokens
  <2>3. last \in Nat /\ scopeLease[s].token \in Nat
        /\ \A p \in OperationsIn(s) : opLease[p].token \in Nat
    BY SMT, <1>3 DEF PreviousTokens, FenceInv, FenceTypeOK, OperationsIn
  <2> QED BY SMT, <2>1, <2>2, <2>3
<1>6. \A g \in issued : ScopeOf[g.op] = s => g.token < token
  BY SMT, <1>3, <1>5 DEF FenceInv, FenceTypeOK, IssuedBelowRow, Fence, Tokens
<1>7. FenceTypeOK'
  BY SMT, <1>1, <1>2, <1>3, <1>4
  DEF FenceInv, FenceTypeOK, WriteLeases, Tokens
<1>8. /\ scopeLease'[s] = [op |-> o, owner |-> w, token |-> token,
                           expires |-> now + Ttl]
      /\ \A r \in Scopes \ {s} : scopeLease'[r] = scopeLease[r]
      /\ opLease'[o] = [owner |-> w, token |-> token, expires |-> now + Ttl]
      /\ \A p \in Operations \ {o} : opLease'[p] = opLease[p]
  BY <1>1, <1>3 DEF FenceInv, FenceTypeOK, WriteLeases
<1>9. LeasesReconcile'
  <2> SUFFICES ASSUME NEW r \in Scopes, scopeLease'[r].token # 0
               PROVE  /\ scopeLease'[r].op \in OperationsIn(r)
                      /\ opLease'[scopeLease'[r].op] =
                           [owner |-> scopeLease'[r].owner,
                            token |-> scopeLease'[r].token,
                            expires |-> scopeLease'[r].expires]
                      /\ \A p \in OperationsIn(r) :
                           opLease'[p].token <= scopeLease'[r].token
    BY DEF LeasesReconcile, OperationsIn
  <2>1. CASE r = s
    <3>1. \A p \in OperationsIn(s) : opLease'[p].token <= token
      <4> SUFFICES ASSUME NEW p \in OperationsIn(s)
                   PROVE  opLease'[p].token <= token
        OBVIOUS
      <4>1. p \in Operations /\ opLease[p].token \in Nat /\ token \in Nat
        BY SMT DEF OperationsIn, FenceInv, FenceTypeOK, Tokens
      <4> QED BY SMT, <1>5, <1>8, <4>1
    <3> QED BY SMT, <1>8, <2>1, <3>1 DEF OperationsIn
  <2>2. CASE r # s
    <3>1. \A p \in OperationsIn(r) : p # o /\ opLease'[p] = opLease[p]
      BY <1>8, <2>2 DEF OperationsIn
    <3>2. scopeLease'[r] = scopeLease[r] /\ scopeLease[r].token # 0
      BY <1>8, <2>2
    <3>3. /\ scopeLease[r].op \in OperationsIn(r)
          /\ opLease[scopeLease[r].op] =
               [owner |-> scopeLease[r].owner,
                token |-> scopeLease[r].token,
                expires |-> scopeLease[r].expires]
          /\ \A p \in OperationsIn(r) : opLease[p].token <= scopeLease[r].token
      BY <3>2 DEF FenceInv, LeasesReconcile
    <3> QED BY <3>1, <3>2, <3>3
  <2> QED BY <2>1, <2>2
<1>10. IssuedBelowRow'
  <2> SUFFICES ASSUME NEW g \in issued'
               PROVE  g.token <= scopeLease'[ScopeOf[g.op]].token
    BY DEF IssuedBelowRow
  <2>1. CASE g = f
    BY SMT, <1>8, <2>1 DEF Tokens
  <2>2. CASE g \in issued
    <3>1. g \in Fence /\ ScopeOf[g.op] \in Scopes
      BY <2>2 DEF FenceInv, FenceTypeOK, Fence
    <3> QED BY SMT, <1>6, <1>8, <2>2, <3>1
        DEF FenceInv, IssuedBelowRow, Fence, Tokens
  <2> QED BY <1>1, <2>1, <2>2
<1>11. HolderWasIssued'
  BY SMT, <1>1, <1>8 DEF FenceInv, HolderWasIssued
<1>12. TokenIdentifiesFence'
  <2> SUFFICES ASSUME NEW g \in issued', NEW h \in issued',
                      ScopeOf[g.op] = ScopeOf[h.op], g.token = h.token
               PROVE  g = h
    BY DEF TokenIdentifiesFence
  <2>1. \A k \in issued : k.token \in Nat
    BY SMT DEF FenceInv, FenceTypeOK, Fence, Tokens
  <2>2. token \in Nat
    BY SMT DEF Tokens
  <2> QED BY SMT, <1>1, <1>6, <2>1, <2>2 DEF FenceInv, TokenIdentifiesFence
<1>13. FreshTokenStep
  BY SMT, <1>1, <1>6 DEF FreshTokenStep
<1> QED BY <1>7, <1>9, <1>10, <1>11, <1>12, <1>13 DEF FenceInv

(* Every step keeps the invariant and issues only fresh tokens.            *)
LEMMA FenceStep ==
  ASSUME FenceInv, [FenceNext]_fenceVars
  PROVE  FenceInv' /\ [FreshTokenStep]_fenceVars
<1> USE FenceConstants
<1>1. ASSUME NEW o \in Operations, NEW w \in Owners, AcquireFence(o, w)
      PROVE  FenceInv' /\ FreshTokenStep
  BY <1>1, ReenterKeepsInv, FreshKeepsInv DEF FreshTokenStep
<1>2. ASSUME NEW f \in issued, HeartbeatFence(f)
      PROVE  FenceInv' /\ FreshTokenStep
  <2> DEFINE e == Larger(Larger(opLease[f.op].expires,
                                scopeLease[ScopeOf[f.op]].expires), now + Ttl)
  <2>1. f \in Fence /\ ScopeOf[f.op] \in Scopes
    BY DEF FenceInv, FenceTypeOK, Fence
  <2>2. e \in 0..(MaxClock + Ttl)
    BY SMT, <2>1 DEF FenceInv, FenceTypeOK, Fence, Larger
  <2>3. AssertExecutionFence(f) /\ WriteLeases(f.op, f.owner, f.token, e)
        /\ UNCHANGED <<now, issued, open>>
    BY <1>2 DEF HeartbeatFence
  <2>4. FenceInv'
    BY <2>2, <2>3, RewriteKeepsInv
  <2> QED BY <2>3, <2>4 DEF FreshTokenStep
<1>3. ASSUME NEW f \in issued, ReleaseFence(f)
      PROVE  FenceInv' /\ FreshTokenStep
  <2>1. now \in 0..(MaxClock + Ttl)
    BY SMT DEF FenceInv, FenceTypeOK
  <2>2. AssertExecutionFence(f) /\ WriteLeases(f.op, NoOwner, f.token, now)
        /\ UNCHANGED <<now, issued, open>>
    BY <1>3 DEF ReleaseFence
  <2>3. FenceInv'
    BY <2>1, <2>2, RewriteKeepsInv
  <2> QED BY <2>2, <2>3 DEF FreshTokenStep
<1>4. ASSUME NEW f \in issued, CloseOperation(f)
      PROVE  FenceInv' /\ FreshTokenStep
  BY <1>4 DEF CloseOperation, FenceInv, FenceTypeOK, LeasesReconcile,
     IssuedBelowRow, HolderWasIssued, TokenIdentifiesFence, FreshTokenStep
<1>5. ASSUME ClockSample
      PROVE  FenceInv' /\ FreshTokenStep
  BY <1>5 DEF ClockSample, FenceInv, FenceTypeOK, LeasesReconcile,
     IssuedBelowRow, HolderWasIssued, TokenIdentifiesFence, FreshTokenStep
<1>6. ASSUME NEW o \in Operations, AcceptOperation(o)
      PROVE  FenceInv' /\ FreshTokenStep
  BY <1>6 DEF AcceptOperation, FenceInv, FenceTypeOK, LeasesReconcile,
     IssuedBelowRow, HolderWasIssued, TokenIdentifiesFence, FreshTokenStep
<1>7. ASSUME UNCHANGED fenceVars
      PROVE  FenceInv'
  BY <1>7 DEF fenceVars, FenceInv, FenceTypeOK, LeasesReconcile,
     IssuedBelowRow, HolderWasIssued, TokenIdentifiesFence
<1> QED BY <1>1, <1>2, <1>3, <1>4, <1>5, <1>6, <1>7 DEF FenceNext

(* The invariant implies the properties a reader of the journal relies on. *)
LEMMA FenceInvImplies == FenceInv => OneFencePerScope /\ NewerTokenWins
<1> SUFFICES ASSUME FenceInv
             PROVE  OneFencePerScope /\ NewerTokenWins
  OBVIOUS
<1>1. \A f \in issued : AssertExecutionFence(f) =>
                          scopeLease[ScopeOf[f.op]].token = f.token
  BY DEF AssertExecutionFence, ActiveScopeLease
<1>2. \A f \in issued : f.token \in Nat
  BY SMT, FenceConstants DEF FenceInv, FenceTypeOK, Fence, Tokens
<1>3. OneFencePerScope
  BY SMT, <1>1 DEF OneFencePerScope, FenceInv, TokenIdentifiesFence
<1>4. NewerTokenWins
  BY SMT, <1>1, <1>2 DEF NewerTokenWins, FenceInv, IssuedBelowRow
<1> QED BY <1>3, <1>4

-----------------------------------------------------------------------------
(* The lease tables always have their types.                               *)
THEOREM FenceTypeCorrect == FenceSpec => []FenceTypeOK
<1>1. FenceInv => FenceTypeOK
  BY DEF FenceInv
<1> QED BY <1>1, FenceInitInv, FenceStep, PTL DEF FenceSpec

(* The journal's own integrity check of its lease tables never fails.      *)
THEOREM LeasesAlwaysReconcile == FenceSpec => []LeasesReconcile
<1>1. FenceInv => LeasesReconcile
  BY DEF FenceInv
<1> QED BY <1>1, FenceInitInv, FenceStep, PTL DEF FenceSpec

(* At most one fence of a scope is accepted by the journal at any time.    *)
THEOREM FenceMutualExclusion == FenceSpec => []OneFencePerScope
BY FenceInitInv, FenceStep, FenceInvImplies, PTL DEF FenceSpec

(* A worker overtaken by a newer token never writes again.                 *)
THEOREM StaleFenceStaysStale == FenceSpec => []NewerTokenWins
BY FenceInitInv, FenceStep, FenceInvImplies, PTL DEF FenceSpec

(* Every fence that was not issued before has a token above all earlier    *)
(* ones of its scope.                                                      *)
THEOREM TokensStrictlyGrow == FenceSpec => TokensOnlyGrow
BY FenceInitInv, FenceStep, PTL DEF FenceSpec, TokensOnlyGrow

-----------------------------------------------------------------------------
(* No row of an operation has a token above its scope's row, also when the *)
(* scope has no row yet: so the next token is the scope's plus one.        *)
RowsBelowScope ==
  \A p \in Operations : opLease[p].token <= scopeLease[ScopeOf[p]].token

LeaseInv == FenceInv /\ RowsBelowScope

(* A fresh token is one above the token of the scope's row.                *)
LEMMA FreshIsNext ==
  ASSUME LeaseInv, NEW s \in Scopes, NEW last \in PreviousTokens(s),
         \A t \in PreviousTokens(s) : t <= last
  PROVE  last = scopeLease[s].token
<1>1. scopeLease[s].token \in PreviousTokens(s) /\ scopeLease[s].token \in Nat
  BY SMT, FenceConstants DEF PreviousTokens, LeaseInv, FenceInv, FenceTypeOK
<1>2. \A p \in OperationsIn(s) : /\ opLease[p].token \in Nat
                                 /\ opLease[p].token <= scopeLease[s].token
  BY SMT, FenceConstants
  DEF LeaseInv, RowsBelowScope, OperationsIn, FenceInv, FenceTypeOK
<1>3. last \in Nat /\ last <= scopeLease[s].token
  BY <1>1, <1>2 DEF PreviousTokens
<1> QED BY SMT, <1>1, <1>3

(* Rows stay below their scope's row.                                     *)
LEMMA RowsBelowStep ==
  ASSUME LeaseInv, [FenceNext]_fenceVars
  PROVE  LeaseInv'
<1> USE FenceConstants
<1>1. FenceInv /\ FenceInv' /\ RowsBelowScope
  BY FenceStep DEF LeaseInv
<1>2. \A p \in Operations : /\ ScopeOf[p] \in Scopes
                            /\ opLease[p].token \in Nat
                            /\ scopeLease[ScopeOf[p]].token \in Nat
  BY SMT, <1>1 DEF FenceInv, FenceTypeOK
<1>3. ASSUME NEW o \in Operations, NEW w, NEW token \in Nat, NEW e,
             WriteLeases(o, w, token, e),
             scopeLease[ScopeOf[o]].token <= token
      PROVE  RowsBelowScope'
  <2>1. /\ \A p \in Operations \ {o} : opLease'[p] = opLease[p]
        /\ opLease'[o].token = token
        /\ scopeLease'[ScopeOf[o]].token = token
        /\ \A r \in Scopes \ {ScopeOf[o]} : scopeLease'[r] = scopeLease[r]
    BY SMT, <1>1, <1>2, <1>3 DEF WriteLeases, FenceInv, FenceTypeOK
  <2> SUFFICES ASSUME NEW p \in Operations
               PROVE  opLease'[p].token <= scopeLease'[ScopeOf[p]].token
    BY DEF RowsBelowScope
  <2>2. CASE p = o
    BY SMT, <2>1, <2>2
  <2>3. CASE p # o
    <3>1. opLease'[p].token = opLease[p].token
          /\ opLease[p].token <= scopeLease[ScopeOf[p]].token
      BY <1>1, <2>1, <2>3 DEF RowsBelowScope
    <3>2. scopeLease[ScopeOf[p]].token <= scopeLease'[ScopeOf[p]].token
          /\ scopeLease'[ScopeOf[p]].token \in Nat
      BY SMT, <1>2, <1>3, <2>1
    <3> QED BY SMT, <1>2, <3>1, <3>2
  <2> QED BY <2>2, <2>3
<1>4. ASSUME NEW o \in Operations, NEW w \in Owners, AcquireFence(o, w)
      PROVE  RowsBelowScope'
  <2>1. PICK token \in Tokens :
          /\ \E e : WriteLeases(o, w, token, e)
          /\ \/ token = scopeLease[ScopeOf[o]].token
             \/ \E last \in PreviousTokens(ScopeOf[o]) :
                  /\ \A t \in PreviousTokens(ScopeOf[o]) : t <= last
                  /\ token = last + 1
    BY <1>4 DEF AcquireFence
  <2>2. token \in Nat /\ scopeLease[ScopeOf[o]].token <= token
    BY SMT, <1>2, <2>1, FreshIsNext DEF Tokens
  <2>3. PICK e : WriteLeases(o, w, token, e)
    BY <2>1
  <2> QED BY <1>3, <2>2, <2>3
<1>5. ASSUME NEW f \in issued, HeartbeatFence(f) \/ ReleaseFence(f)
      PROVE  RowsBelowScope'
  <2>1. PICK w, e : WriteLeases(f.op, w, f.token, e)
    BY <1>5 DEF HeartbeatFence, ReleaseFence
  <2>2. f.op \in Operations /\ f.token \in Nat
    BY SMT, <1>1 DEF FenceInv, FenceTypeOK, Fence, Tokens
  <2>3. scopeLease[ScopeOf[f.op]].token = f.token
    BY <1>5 DEF HeartbeatFence, ReleaseFence, AssertExecutionFence,
                ActiveScopeLease
  <2> QED BY SMT, <1>3, <2>1, <2>2, <2>3
<1>6. ASSUME UNCHANGED <<opLease, scopeLease>>
      PROVE  RowsBelowScope'
  BY <1>1, <1>6 DEF RowsBelowScope
<1> QED
  BY <1>1, <1>4, <1>5, <1>6
  DEF LeaseInv, FenceNext, fenceVars, AcceptOperation, CloseOperation,
      ClockSample

(* A step of the fence is a step of the lease of each scope, or leaves it  *)
(* alone.                                                                  *)
LEMMA LeaseStepOfScope ==
  ASSUME LeaseInv, [FenceNext]_fenceVars, NEW s \in Scopes
  PROVE  ScopeLeaseStep(s)
<1> USE FenceConstants
<1>1. FenceInv
  BY DEF LeaseInv
<1>2. ASSUME scopeLease'[s] = scopeLease[s], now' = now
      PROVE  ScopeLeaseStep(s)
  BY <1>2 DEF ScopeLeaseStep, LeaseOf!leaseVars, LeaseActive
<1>3. ASSUME NEW o \in Operations, NEW w, NEW token, NEW e,
             WriteLeases(o, w, token, e), now' = now
      PROVE  IF s = ScopeOf[o]
               THEN scopeLease'[s] = [op |-> o, owner |-> w, token |-> token,
                                      expires |-> e]
               ELSE ScopeLeaseStep(s)
  BY <1>1, <1>2, <1>3 DEF WriteLeases, FenceInv, FenceTypeOK
<1>4. ASSUME NEW o \in Operations, NEW w \in Owners, AcquireFence(o, w)
      PROVE  ScopeLeaseStep(s)
  <2> DEFINE row == scopeLease[ScopeOf[o]]
  <2>1. now' = now /\ now \in Nat /\ row.expires \in Nat /\ row.token \in Nat
    BY SMT, <1>1, <1>4 DEF AcquireFence, FenceInv, FenceTypeOK
  <2>2. CASE LeaseActive(row)
    <3>1. /\ row.op = o /\ row.owner = w
          /\ WriteLeases(o, w, row.token, Larger(row.expires, now + Ttl))
      BY <1>4, <2>2 DEF AcquireFence, ScopeFreeFor
    <3>2. CASE s = ScopeOf[o]
      <4>1. scopeLease'[s] =
              [op |-> o, owner |-> w, token |-> row.token,
               expires |-> Larger(row.expires, now + Ttl)]
        BY SMT, <1>3, <2>1, <3>1, <3>2
      <4>2. /\ scopeLease'[s].op = scopeLease[s].op
            /\ scopeLease'[s].owner = scopeLease[s].owner
            /\ scopeLease'[s].token = scopeLease[s].token
        BY SMT, <3>1, <3>2, <4>1
      <4>3. LeaseActive(scopeLease[s])' /\ LeaseActive(scopeLease[s])
        BY SMT, <2>1, <2>2, <3>1, <3>2, <4>1 DEF LeaseActive, Larger
      <4> QED BY <4>2, <4>3 DEF ScopeLeaseStep, LeaseOf!leaseVars, LeaseActive
    <3>3. CASE s # ScopeOf[o]
      BY <1>3, <2>1, <3>1, <3>3
    <3> QED BY <3>2, <3>3
  <2>3. CASE ~LeaseActive(row)
    <3>1. PICK token \in Tokens, last \in PreviousTokens(ScopeOf[o]) :
            /\ \A t \in PreviousTokens(ScopeOf[o]) : t <= last
            /\ token = last + 1
            /\ WriteLeases(o, w, token, now + Ttl)
      BY <1>4, <2>3 DEF AcquireFence
    <3>2. token = row.token + 1 /\ row.token < MaxToken
      BY SMT, <2>1, <3>1, FreshIsNext DEF Tokens
    <3>3. CASE s = ScopeOf[o]
      <4>1. scopeLease'[s] = [op |-> o, owner |-> w, token |-> row.token + 1,
                              expires |-> now + Ttl]
        BY SMT, <1>3, <2>1, <3>1, <3>2, <3>3
      <4>2. LeaseActive(scopeLease[s])' /\ ~LeaseActive(scopeLease[s])
        BY SMT, <2>1, <2>3, <3>3, <4>1 DEF LeaseActive
      <4>3. o \in OperationsIn(s)
        BY <3>3 DEF OperationsIn
      <4>4. LeaseOf(s)!Grant(o, w)
        BY SMT, <3>2, <3>3, <4>1, <4>2 DEF LeaseOf!Grant, LeaseActive
      <4> QED BY <4>3, <4>4 DEF ScopeLeaseStep, LeaseOf!LeaseNext
    <3>4. CASE s # ScopeOf[o]
      BY <1>3, <2>1, <3>1, <3>4
    <3> QED BY <3>3, <3>4
  <2> QED BY <2>2, <2>3
<1>5. ASSUME NEW f \in issued, AssertExecutionFence(f)
      PROVE  /\ f.op \in Operations /\ f.owner # NoOwner
             /\ LeaseActive(scopeLease[ScopeOf[f.op]])
             /\ scopeLease[ScopeOf[f.op]].op = f.op
             /\ scopeLease[ScopeOf[f.op]].owner = f.owner
             /\ scopeLease[ScopeOf[f.op]].token = f.token
             /\ scopeLease[ScopeOf[f.op]].expires \in Nat
             /\ opLease[f.op].expires \in Nat
             /\ now \in Nat
  BY SMT, <1>1, <1>5
  DEF AssertExecutionFence, ActiveScopeLease, LeaseActive, FenceInv,
      FenceTypeOK, Fence
<1>6. ASSUME NEW f \in issued, HeartbeatFence(f)
      PROVE  ScopeLeaseStep(s)
  <2> DEFINE row == scopeLease[ScopeOf[f.op]]
             e == Larger(Larger(opLease[f.op].expires, row.expires), now + Ttl)
  <2>1. AssertExecutionFence(f) /\ now' = now
        /\ WriteLeases(f.op, f.owner, f.token, e)
    BY <1>6 DEF HeartbeatFence
  <2>2. e > now
    <3>1. Larger(opLease[f.op].expires, row.expires) \in Nat
      BY <1>5, <2>1, LargerIsUpperBound
    <3>2. now \in Nat /\ now + Ttl \in Nat /\ now + Ttl > now
      BY SMT, <1>5, <2>1
    <3>3. e \in Nat /\ e >= now + Ttl
      BY <3>1, <3>2, LargerIsUpperBound
    <3> QED BY SMT, <3>2, <3>3
  <2> HIDE DEF e
  <2>3. CASE s = ScopeOf[f.op]
    <3>1. scopeLease'[s] = [op |-> f.op, owner |-> f.owner, token |-> f.token,
                            expires |-> e]
      BY SMT, <1>3, <1>5, <2>1, <2>3
    <3>2. LeaseActive(scopeLease[s])' /\ LeaseActive(scopeLease[s])
      BY SMT, <1>5, <2>1, <2>2, <2>3, <3>1 DEF LeaseActive
    <3> QED BY SMT, <1>5, <2>1, <2>3, <3>1, <3>2
        DEF ScopeLeaseStep, LeaseOf!leaseVars, LeaseActive
  <2>4. CASE s # ScopeOf[f.op]
    BY <1>3, <1>5, <2>1, <2>4
  <2> QED BY <2>3, <2>4
<1>7. ASSUME NEW f \in issued, ReleaseFence(f)
      PROVE  ScopeLeaseStep(s)
  <2>1. AssertExecutionFence(f) /\ now' = now
        /\ WriteLeases(f.op, NoOwner, f.token, now)
    BY <1>7 DEF ReleaseFence
  <2>2. CASE s = ScopeOf[f.op]
    <3>1. scopeLease'[s] = [op |-> f.op, owner |-> NoOwner, token |-> f.token,
                            expires |-> now]
      BY SMT, <1>3, <1>5, <2>1, <2>2
    <3>2. ~LeaseActive(scopeLease[s])' /\ LeaseActive(scopeLease[s])
      BY SMT, <1>5, <2>1, <2>2, <3>1 DEF LeaseActive
    <3>3. LeaseOf(s)!Release([op |-> scopeLease[s].op,
                              owner |-> scopeLease[s].owner,
                              token |-> scopeLease[s].token])
      BY SMT, <1>5, <2>1, <2>2, <3>1, <3>2
      DEF LeaseOf!Release, LeaseOf!Holds, LeaseActive
    <3> QED BY <3>3 DEF ScopeLeaseStep, LeaseOf!LeaseNext
  <2>3. CASE s # ScopeOf[f.op]
    BY <1>3, <1>5, <2>1, <2>3
  <2> QED BY <2>2, <2>3
<1>8. ASSUME ClockSample
      PROVE  ScopeLeaseStep(s)
  <2>1. scopeLease' = scopeLease
    BY <1>8 DEF ClockSample
  <2>2. CASE LeaseActive(scopeLease[s]) /\ ~LeaseActive(scopeLease[s])'
    BY <2>1, <2>2
    DEF ScopeLeaseStep, LeaseOf!LeaseNext, LeaseOf!Lapse, LeaseActive
  <2>3. CASE ~LeaseActive(scopeLease[s]) /\ LeaseActive(scopeLease[s])'
    BY <2>1, <2>3
    DEF ScopeLeaseStep, LeaseOf!LeaseNext, LeaseOf!Revive, LeaseActive
  <2>4. CASE LeaseActive(scopeLease[s]) <=> LeaseActive(scopeLease[s])'
    BY <2>1, <2>4 DEF ScopeLeaseStep, LeaseOf!leaseVars, LeaseActive
  <2> QED BY <2>2, <2>3, <2>4
<1>9. ASSUME UNCHANGED <<scopeLease, now>>
      PROVE  ScopeLeaseStep(s)
  BY <1>2, <1>9
<1> QED
  BY <1>4, <1>6, <1>7, <1>8, <1>9
  DEF FenceNext, fenceVars, AcceptOperation, CloseOperation

(* The fence implements, for each scope, the lease its workers rely on: a  *)
(* grant raises the token by one, only the holder releases, and a lease    *)
(* that ran out comes back only as the same lease.                         *)
THEOREM FenceImplementsScopeLease == FenceSpec => ImplementsScopeLease
<1>1. FenceInit => LeaseInv
  <2> SUFFICES ASSUME FenceInit PROVE RowsBelowScope
    BY FenceInitInv DEF LeaseInv
  <2> QED BY SMT, FenceConstants
      DEF FenceInit, RowsBelowScope, NoOpLease, NoScopeLease
<1>2. FenceInit => \A s \in Scopes : LeaseOf(s)!LeaseInit
  BY SMT DEF FenceInit, LeaseOf!LeaseInit, LeaseOf!NoHolder, NoScopeLease,
         LeaseActive
<1>3. LeaseInv /\ [FenceNext]_fenceVars
        => LeaseInv' /\ [\A s \in Scopes : ScopeLeaseStep(s)]_fenceVars
  BY RowsBelowStep, LeaseStepOfScope
<1> QED BY <1>1, <1>2, <1>3, PTL DEF FenceSpec, ImplementsScopeLease

=============================================================================
