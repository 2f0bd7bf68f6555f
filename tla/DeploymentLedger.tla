-------------------------- MODULE DeploymentLedger --------------------------
(***************************************************************************)
(* What the control plane promises of a scope, without journal, leases or  *)
(* workers: every submitted operation ends at most once; the revision a    *)
(* scope runs changes only by the success of one operation, one generation *)
(* at a time; and an operation whose cancellation was accepted never       *)
(* changes it.                                                             *)
(***************************************************************************)
EXTENDS Integers

CONSTANTS Operations, Scopes, ScopeOf, Outcomes, NoOperation

VARIABLES
  outcome,          \* "none", "pending" or the outcome of each operation
  cancelRequested,  \* operations whose cancellation was acknowledged
  register          \* the operation and generation each scope runs

ledgerVars == <<outcome, cancelRequested, register>>

Submit(o) ==
  /\ outcome[o] = "none"
  /\ outcome' = [outcome EXCEPT ![o] = "pending"]
  /\ UNCHANGED <<cancelRequested, register>>

Cancel(o) ==
  /\ outcome[o] = "pending"
  /\ cancelRequested' = cancelRequested \cup {o}
  /\ UNCHANGED <<outcome, register>>

Finish(o, result) ==
  /\ outcome[o] = "pending"
  /\ outcome' = [outcome EXCEPT ![o] = result]
  /\ UNCHANGED <<cancelRequested, register>>

Activate(o) ==
  /\ outcome[o] = "pending"
  /\ o \notin cancelRequested
  /\ outcome' = [outcome EXCEPT ![o] = "succeeded"]
  /\ register' = [register EXCEPT ![ScopeOf[o]] =
                    [op |-> o, generation |-> @.generation + 1]]
  /\ UNCHANGED cancelRequested

LedgerInit ==
  /\ outcome = [o \in Operations |-> "none"]
  /\ cancelRequested = {}
  /\ register = [s \in Scopes |-> [op |-> NoOperation, generation |-> 0]]

LedgerNext ==
  \E o \in Operations :
    \/ Submit(o)
    \/ Cancel(o)
    \/ \E result \in Outcomes : Finish(o, result)
    \/ Activate(o)

LedgerSpec == LedgerInit /\ [][LedgerNext]_ledgerVars

=============================================================================
