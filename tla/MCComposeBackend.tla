-------------------------- MODULE MCComposeBackend --------------------------
EXTENDS ComposeBackend, TLC

CONSTANTS o1, o2, w1, w2, r0, r1, r2

MCOperations == {o1, o2}
MCOneOperation == {o1}
MCWorkers == {w1, w2}
MCRevisions == {r0, r1, r2}
MCTwoRevisions == {r0, r1}
MCOwnerOf == (w1 :> w1) @@ (w2 :> w2)
MCRevisionOf == (o1 :> r1) @@ (o2 :> r2)

MCSymmetry == Permutations(MCWorkers)

CrashOnly == {"crash"}
OvertakeFaults == {"crash", "stall", "backend"}
EveryFault == {"crash", "cancel", "deadline", "preflight", "probe", "backend"}

RecoverySpec == DeploySpec /\ Fairness

=============================================================================
