----------------------------- MODULE ScopeLease -----------------------------
(***************************************************************************)
(* What the execution fence of one scope promises its workers, without     *)
(* tables and without a clock: a lease names one operation, one owner and  *)
(* one token; a new grant has a larger token; the lease may run out, and   *)
(* run again when the clock steps back, as long as nobody was granted it   *)
(* in between.  ExecutionFence implements this for each of its scopes, and *)
(* JournaledExecutor relies on nothing else.                               *)
(***************************************************************************)
EXTENDS Integers

CONSTANTS Operations, Owners, MaxToken, NoOwner, NoOperation

VARIABLES
  holder,   \* the operation, owner and token of the last grant
  live      \* the lease is held and has not run out

leaseVars == <<holder, live>>

NoHolder == [op |-> NoOperation, owner |-> NoOwner, token |-> 0]

(* A write that presents fence f is accepted.                              *)
Holds(f) == live /\ holder = f

Grant(o, w) ==
  /\ ~live
  /\ holder.token < MaxToken
  /\ holder' = [op |-> o, owner |-> w, token |-> holder.token + 1]
  /\ live' = TRUE

(* The holder acquires again: the same fence, with a later expiry.         *)
Reenter(o, w) ==
  /\ Holds([op |-> o, owner |-> w, token |-> holder.token])
  /\ UNCHANGED leaseVars

Release(f) ==
  /\ Holds(f)
  /\ holder' = [holder EXCEPT !.owner = NoOwner]
  /\ live' = FALSE

(* The clock passes the expiry of a held lease, or steps back before it.   *)
Lapse == live /\ live' = FALSE /\ UNCHANGED holder

Revive ==
  /\ ~live
  /\ holder.owner # NoOwner
  /\ live' = TRUE
  /\ UNCHANGED holder

LeaseInit == holder = NoHolder /\ live = FALSE

LeaseNext ==
  \/ \E o \in Operations, w \in Owners : Grant(o, w) \/ Reenter(o, w)
  \/ Release(holder)
  \/ Lapse
  \/ Revive

LeaseSpec == LeaseInit /\ [][LeaseNext]_leaseVars

=============================================================================
