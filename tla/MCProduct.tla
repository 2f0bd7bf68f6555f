------------------------------ MODULE MCProduct ------------------------------
EXTENDS ProductRecovery, TLC

CONSTANTS o1, b1, d1, w1, w2, r0, r1

MCReleases == {o1}
MCBackups == {b1}
MCDrills == {d1}
MCOperations == {o1, b1, d1}
MCReleasers == {w1}
MCKeepers == {w2}
MCWorkers == {w1, w2}
MCRevisions == {r0, r1}
MCOwnerOf == (w1 :> w1) @@ (w2 :> w2)
MCRevisionOf == (o1 :> r1) @@ (b1 :> NoRevision) @@ (d1 :> NoRevision)
MCBackupOf == (d1 :> b1)
NoneFirst == {}
ProductFaults == {"crash", "stall", "deadline", "backend", "probe"}

(* A bound: while a command is stalled and has lost its fence, no process  *)
(* or other command has died.                                              *)
Stalled == \E w \in Workers : worker[w].at # "idle" /\ ~Holds(Fence(w))
OneDisturbance == ~((deaths + kills)' > 0 /\ Stalled')

(* A product that is live is released again.                               *)
UpgradeSpec == Init /\ register \in {r0, NoRevision} /\ [][Next /\ OneDisturbance]_allVars

=============================================================================
