------------------------- MODULE MCOperationJournal -------------------------
(***************************************************************************)
(* Instance of OperationJournal for TLC: two operations of one scope and   *)
(* one worker identity, which gets a new token whenever its lease ran out. *)
(*                                                                         *)
(* TLC starts from a journal in which one operation, or both, has been     *)
(* fenced once, brought to the ready state and released: the five          *)
(* lifecycle appends that lead there only multiply the states.             *)
(***************************************************************************)
EXTENDS OperationJournal, TLC

CONSTANTS o1, o2, w1, s1

MCOperations == {o1, o2}
MCOwners == {w1}
MCScopes == {s1}
MCScopeOf == (o1 :> s1) @@ (o2 :> s1)
MCKeyOf == (o1 :> "k1") @@ (o2 :> "k2")
MCDeadline == (o1 :> 1) @@ (o2 :> 2)
MCClientStates == {"created", "draining", "failed"}
MCClientEvents == {"executing"}
MCClientOutcomes == {"cancelled"}

ReadyHistory == <<"created", "staged", "preflight_passed", "starting", "ready">>

ReadyInit(ready) ==
  LET token == (o1 :> 1) @@ (o2 :> 2)
      last == IF o2 \in ready THEN o2 ELSE o1
  IN  /\ now = 0
      /\ opLease = [o \in Operations |->
           IF o \in ready THEN [NoOpLease EXCEPT !.token = token[o]]
                          ELSE NoOpLease]
      /\ scopeLease = (s1 :> [NoScopeLease EXCEPT !.op = last,
                                                  !.token = token[last]])
      /\ issued = {[op |-> o, owner |-> w1, token |-> token[o]] : o \in ready}
      /\ state = [o \in Operations |->
                    IF o \in ready THEN "accepted" ELSE "absent"]
      /\ hostLog = <<>>
      /\ lifecycle = [o \in Operations |->
                        IF o \in ready THEN ReadyHistory ELSE <<>>]
      /\ active = [s \in Scopes |-> NoActive]
      /\ receipt = [o \in Operations |-> NoReceipt]
      /\ cancelled = {}

MCSpec == (ReadyInit({o1}) \/ ReadyInit({o1, o2})) /\ [][Next]_vars

=============================================================================
