--------------------------- MODULE MCStaticBackend --------------------------
EXTENDS StaticBackend, TLC

CONSTANTS o1, o2, w1, w2, r0, r1, r2

MCOperations == {o1, o2}
MCWorkers == {w1, w2}
MCRevisions == {r0, r1, r2}
MCOwnerOf == (w1 :> w1) @@ (w2 :> w2)
MCRevisionOf == (o1 :> r1) @@ (o2 :> r2)

MCSymmetry == Permutations(MCWorkers)

StaticFaults == {"crash", "stall", "backend"}

(* A site is deployed for the first time, then updated.                    *)
FirstInit == Init /\ register = NoRevision
FirstSpec == FirstInit /\ [][Next]_vars

=============================================================================
