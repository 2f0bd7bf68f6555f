---------------------------- MODULE ServingProofs ---------------------------
(***************************************************************************)
(* The app serves what the journal says. Whatever workers crash, lose      *)
(* their leases or are overtaken, once no operation has a candidate        *)
(* underway and none was reported as uncompensated, the active revision of *)
(* the journal is pointed at, routed to, scheduled and fully running.      *)
(***************************************************************************)
EXTENDS ComposeProofs

(* Operations whose effects on the runtime are not settled yet. *)
Underway == {o \in Operations : Open(o) /\ "start_candidate" \in started[o]}

(* No outcome was reported as uncompensated.                               *)
Clean == \A o \in Operations : state[o] # "failed_uncompensated"

(* The states of an operation that has not begun to compensate.            *)
Advancing == {"accepted", "executing"}

(* What operation o has done so far moves no pointer, however it ends. *)
Calm(o) == register = NoRevision /\ "switch_traffic" \notin started[o]

(* The revision the cron registry names when revision r is active.         *)
Scheduled(r) == IF HasCron THEN r ELSE NoRevision

(* The pointer, the routes and the schedules are those of revision r.      *)
Serving(r) == active = r /\ caddy = r /\ cron.revision = Scheduled(r)

(* The active revision of the journal is served by all of its services.    *)
Settled ==
  Serving(register) /\ (register # NoRevision => running[register] = Services)

(* The types of what the host runs and of the two pointers.                *)
RuntimeTypeOK ==
  /\ running \in [Revisions -> SUBSET Services]
  /\ active \in Revisions \cup {NoRevision}
  /\ caddy \in Revisions \cup {NoRevision}

(* Worker w has verified its candidate behind the switched traffic.        *)
Verified(w) ==
  \/ worker[w].at \in {"checkpoint", "commit"}
  \/ worker[w].at \in {"before", "call"} /\ worker[w].phase = "drain_previous"

(* The compensating call of worker w, and every one after it, succeeded.   *)
Ended(w, call) ==
  /\ "start_candidate" \in started[worker[w].op]
  /\ \/ worker[w].at = call /\ worker[w].step = "returned"
     \/ worker[w].at = "remove"
     \/ worker[w].at = "conclude" /\ ~worker[w].failed

(* Worker w has restored the predecessor.                                  *)
Restored(w) == worker[w].previous # NoRevision /\ Ended(w, "restore")

(* Worker w, without a predecessor, has taken its candidate out of         *)
(* service.                                                                *)
Deactivated(w) ==
  /\ worker[w].previous = NoRevision
  /\ "switch_traffic" \in started[worker[w].op]
  /\ Ended(w, "deactivate")

(* How far the worker inside the fence has come. *)
Progress(w) ==
  LET s == worker[w].step
      p == worker[w].previous
      c == Candidate(w)
  IN  /\ CallOf(w) = "switch_traffic" =>
           /\ s \in {"stop_previous", "start_deferred", "cron", "caddy", "point"}
                => active = p
           /\ s \in {"caddy", "point", "refresh_caddy"} =>
                cron.revision = Scheduled(c)
           /\ s = "point" => caddy = c
           /\ s \in {"refresh_cron", "refresh_caddy"} => active = c
      /\ CallOf(w) = "restore" =>
           /\ s \in {"caddy", "cron", "point"} => running[p] = Services
           /\ s \in {"cron", "point"} => caddy = p
           /\ s = "point" => cron.revision = Scheduled(p)
      /\ CallOf(w) = "deactivate" =>
           /\ s \in {"cron", "point"} => caddy = NoRevision
           /\ s = "point" => cron.revision = NoRevision

(* What is served while operations are underway. With none the app is      *)
(* settled; while none has touched a pointer the journal is served; and    *)
(* the only one that may have, as long as it is not compensating, serves   *)
(* either the journal or its candidate, and its candidate wholly.          *)
UnderwayOK ==
  /\ Underway = {} => Settled
  /\ (\A x \in Underway : Calm(x)) => Serving(register)
  /\ \A o \in Underway :
       state[o] \in Advancing /\ (\A x \in Underway \ {o} : Calm(x)) =>
         /\ active \in {register, RevisionOf[o]}
         /\ active = RevisionOf[o] => Serving(RevisionOf[o])

(* After its verification a candidate is pointed at, unless another        *)
(* operation is compensating, and is wholly running when it is alone.      *)
VerifiedOK(w) ==
  /\ \/ active = Candidate(w)
     \/ \E x \in Underway \ {worker[w].op} : state[x] \notin Advancing
  /\ Underway = {worker[w].op} => running[Candidate(w)] = Services

(* A compensation that succeeded left the app served as the journal says,  *)
(* and nobody older can disturb it.                                        *)
EndedOK(w) ==
  /\ Restored(w) => Settled /\ Entered(w)
  /\ Deactivated(w) => Serving(NoRevision) /\ Entered(w)

(* The calls a worker makes at its place of the plan.                      *)
CallOK(w) ==
  /\ worker[w].at = "call" =>
       worker[w].phase \notin {"readiness_verify", "external_verify"}
  /\ worker[w].at = "check" => worker[w].phase # "drain_previous"
  /\ worker[w].at = "restore" => worker[w].previous # NoRevision
  /\ worker[w].at = "deactivate" =>
       /\ worker[w].previous = NoRevision
       /\ "switch_traffic" \in started[worker[w].op]

(* Every worker makes only those calls.                                    *)
CallsOK == \A w \in Workers : Busy(w) => CallOK(w)

(* The predecessor of a worker was activated by an operation that          *)
(* succeeded.                                                              *)
PreviousOK(w) ==
  \A o \in Operations : worker[w].previous = RevisionOf[o] =>
    state[o] = "succeeded"

(* The inductive invariant. It speaks of the operations whose effects are  *)
(* not settled yet, since a crashed operation leaves the runtime half      *)
(* switched for as long as nobody resumes it, while others run.            *)
ServeInv ==
  /\ RuntimeTypeOK
  /\ CallsOK
  /\ lock # NoWorker => Progress(lock)
  /\ \A w \in Workers : Busy(w) => PreviousOK(w)
  /\ Clean => UnderwayOK
  /\ \A w \in Workers : Latest(w) /\ Verified(w) => VerifiedOK(w)
  /\ \A w \in Workers : Latest(w) => EndedOK(w)

-----------------------------------------------------------------------------
(* A step of worker u that leaves the runtime alone, and with it whatever  *)
(* the other workers rely on.                                              *)
Others(u) ==
  /\ UNCHANGED <<running, active, caddy, cron>>
  /\ \A v \in Workers : v # u => worker'[v] = worker[v]
  /\ \A v \in Workers : v # u /\ Latest(v)' => Latest(v)
  /\ \/ UNCHANGED <<state, started, register>>
     \/ \A v \in Workers : v # u => ~Latest(v)'
  /\ \A o \in Operations : /\ started[o] \subseteq started'[o]
                           /\ state[o] = "succeeded" => state'[o] = "succeeded"
  /\ record'.token >= record.token
  /\ lock' \in {lock, NoWorker, u}

(* What worker u itself still has to show.                                 *)
Own(u) ==
  /\ Busy(u) => CallOK(u) /\ PreviousOK(u)
  /\ lock = u => Progress(u)
  /\ Clean => UnderwayOK
  /\ Latest(u) /\ Verified(u) => VerifiedOK(u)
  /\ Latest(u) => EndedOK(u)

(* Leaves are first-order and go to Zenon; those with arithmetic or        *)
(* records cite SMT.                                                       *)
USE Zenon

(* A step that leaves the runtime alone preserves the invariant when it    *)
(* does for the worker that makes it.                                      *)
LEMMA OthersServe ==
  ASSUME FenceInv, FenceInv', ServeInv, NEW u \in Workers, Others(u), Own(u)'
  PROVE  ServeInv'
<1>1. RuntimeTypeOK'
  BY DEF Others, ServeInv, RuntimeTypeOK
<1>2. ASSUME NEW v \in Workers, v # u
      PROVE  worker'[v] = worker[v] /\ CallOf(v)' = CallOf(v)
             /\ Candidate(v)' = Candidate(v) /\ Busy(v)' = Busy(v)
  BY <1>2 DEF Others, CallOf, Candidate, Busy
<1>3. CallsOK'
  <2> SUFFICES ASSUME NEW v \in Workers, Busy(v)' PROVE CallOK(v)'
    BY DEF CallsOK
  <2>1. CASE v = u
    BY <2>1 DEF Own
  <2>2. CASE v # u
    <3>1. CallOK(v) /\ worker[v].op \in Operations
      BY <1>2, <2>2 DEF ServeInv, CallsOK, FenceInv, TokenOK
    <3> QED
      BY <1>2, <2>2, <3>1 DEF CallOK, Others
  <2> QED
    BY <2>1, <2>2
<1>4. lock' # NoWorker => Progress(lock)'
  <2> SUFFICES ASSUME lock' # NoWorker PROVE Progress(lock)'
    OBVIOUS
  <2>1. lock' \in Workers
    BY DEF FenceInv, DurableTypeOK
  <2>2. PICK v \in Workers : v = lock'
    BY <2>1
  <2>3. CASE v = u
    BY <2>2, <2>3 DEF Own, Progress, CallOf, Candidate
  <2>4. CASE v # u
    <3>1. lock = v
      BY <2>2, <2>4 DEF Others
    <3>2. Progress(v)
      BY <2>2, <3>1 DEF ServeInv
    <3>3. Progress(v)'
      BY <1>2, <2>4, <3>2 DEF Progress, Others
    <3> QED
      BY <2>2, <3>3 DEF Progress, CallOf, Candidate
  <2> QED
    BY <2>3, <2>4
<1>5. ASSUME NEW v \in Workers, Busy(v)'
      PROVE  PreviousOK(v)'
  <2>1. CASE v = u
    BY <1>5, <2>1 DEF Own
  <2>2. CASE v # u
    BY <1>2, <1>5, <2>2 DEF ServeInv, PreviousOK, Others
  <2> QED
    BY <2>1, <2>2
<1>6. ASSUME NEW v \in Workers, v # u, Latest(v)'
      PROVE  (Verified(v)' => VerifiedOK(v)') /\ EndedOK(v)'
  <2>1. Latest(v) /\ UNCHANGED <<state, started, register>>
    BY <1>6 DEF Others
  <2>2. (Verified(v) => VerifiedOK(v)) /\ EndedOK(v)
    BY <2>1 DEF ServeInv
  <2>3. /\ Verified(v)' = Verified(v) /\ Restored(v)' = Restored(v)
        /\ Deactivated(v)' = Deactivated(v)
    BY <1>2, <1>6, <2>1
       DEF Verified, Restored, Deactivated, Ended
  <2>4. Underway' = Underway
    BY <2>1 DEF Underway, Open
  <2>5. VerifiedOK(v) => VerifiedOK(v)'
    BY <1>2, <1>6, <2>1, <2>4 DEF VerifiedOK, Others
  <2>6. /\ Settled => Settled' 
        /\ Serving(NoRevision) => Serving(NoRevision)'
    BY <2>1 DEF Settled, Serving, Others
  <2>7. Entered(v) => Entered(v)'
    <3>1. /\ record.token \in Nat /\ record'.token \in Nat
          /\ worker[v].token \in Nat
      BY DEF FenceInv, DurableTypeOK, WorkerRecord
    <3> QED
      BY SMT, <1>2, <1>6, <3>1 DEF Entered, Others
  <2> QED
    BY SMT, <2>2, <2>3, <2>5, <2>6, <2>7 DEF EndedOK
<1> QED
  BY SMT, <1>1, <1>3, <1>4, <1>5, <1>6 DEF ServeInv, Own

(* Every step of a worker with the newest token, and every one that leaves *)
(* the journal alone, is such a step.                                      *)
LEMMA JournalOthers ==
  ASSUME FenceInv, NEW u \in Workers,
         UNCHANGED <<running, active, caddy, cron>>,
         \A v \in Workers : v # u => worker'[v] = worker[v],
         holder'.token = holder.token,
         UNCHANGED <<state, started, register>> \/ Latest(u),
         \A o \in Operations :
           /\ started[o] \subseteq started'[o]
           /\ state[o] = "succeeded" => state'[o] = "succeeded",
         record' = record, lock' \in {lock, NoWorker, u}
  PROVE  Others(u)
<1>1. ASSUME NEW v \in Workers, v # u, Latest(v)'
      PROVE  Latest(v) /\ ~Latest(u)
  <2>1. Latest(v)
    BY <1>1 DEF Latest, Busy
  <2>2. Busy(u) /\ Busy(v) => PairOK(u, v)
    BY <1>1 DEF FenceInv
  <2>3. ~Latest(u)
    BY <2>1, <2>2 DEF Latest, PairOK
  <2> QED
    BY <2>1, <2>3
<1>2. record'.token >= record.token
  <2>1. record.token \in Nat
    BY DEF FenceInv, DurableTypeOK
  <2> QED
    BY SMT, <2>1
<1> QED
  BY <1>1, <1>2 DEF Others

(* Worker u stays with its operation, outside the fence.                   *)
Stays(u) ==
  /\ \A v \in Workers : v # u => worker'[v] = worker[v]
  /\ worker'[u].op = worker[u].op
  /\ worker'[u].token = worker[u].token
  /\ worker'[u].previous = worker[u].previous
  /\ worker'[u].step \notin Inside

(* A worker that is at no step of the runtime fence does not hold it.       *)
LEMMA LeavesFence ==
  ASSUME FenceInv', NEW u \in Workers, worker'[u].step \notin Inside
  PROVE  lock' # u
<1>1. LockOK'
  BY DEF FenceInv
<1> QED
  BY <1>1, ComposeAssumption DEF LockOK

(* A worker that moves on without effect stays with its operation.         *)
LEMMA PutStays ==
  ASSUME worker \in [Workers -> WorkerRecord], NEW u \in Workers, NEW y,
         worker' = [worker EXCEPT ![u] = y],
         y.op = worker[u].op, y.token = worker[u].token,
         y.previous = worker[u].previous, y.step \notin Inside
  PROVE  Stays(u) /\ worker'[u] = y
BY DEF Stays

(* Worker u goes on, without any effect and without a journal entry.       *)
LEMMA StayServes ==
  ASSUME FenceInv, FenceInv', ServeInv, NEW u \in Workers, Busy(u),
         Stays(u),
         UNCHANGED <<invVars, running, caddy, cron>>,
         CallOK(u)',
         Verified(u)' => Verified(u),
         Restored(u)' => Restored(u), Deactivated(u)' => Deactivated(u)
  PROVE  ServeInv'
<1>1. Others(u)
  BY ZenonT(60), JournalOthers DEF invVars, Stays
<1>2. lock' # u
  BY LeavesFence DEF Stays
<1>3. Underway' = Underway
  BY DEF Underway, Open, invVars
<1>4. Clean' => UnderwayOK'
  <2>1. Clean' = Clean
    BY DEF Clean, invVars
  <2>2. UnderwayOK' = UnderwayOK
    BY <1>3 DEF UnderwayOK, Settled, Serving, Calm, invVars
  <2> QED
    BY <2>1, <2>2 DEF ServeInv
<1>5. /\ Latest(u)' => Latest(u)
      /\ Candidate(u)' = Candidate(u)
      /\ VerifiedOK(u)' = VerifiedOK(u)
      /\ Entered(u)' = Entered(u)
  BY <1>3 DEF Stays, invVars, Latest, Busy, Candidate, VerifiedOK, Entered
<1>6. Settled' = Settled /\ Serving(NoRevision)' = Serving(NoRevision)
  BY DEF Settled, Serving, invVars
<1>7. PreviousOK(u)'
  BY DEF ServeInv, PreviousOK, Stays, invVars
<1>8. Latest(u)' => EndedOK(u)'
  BY <1>5, <1>6 DEF ServeInv, EndedOK
<1>9. Latest(u)' /\ Verified(u)' => VerifiedOK(u)'
  BY <1>5 DEF ServeInv
<1>10. Own(u)'
  BY <1>2, <1>4, <1>7, <1>8, <1>9 DEF Own
<1> QED
  BY <1>1, <1>10, OthersServe

(* Worker u stops.                                                         *)
LEMMA StopServes ==
  ASSUME FenceInv, FenceInv', ServeInv, NEW u \in Workers, Busy(u),
         worker' = [worker EXCEPT ![u] = Idle],
         lock' \in {lock, NoWorker},
         UNCHANGED <<holder, record, state, started, register,
                     running, active, caddy, cron>>
  PROVE  ServeInv'
<1>1. ~Busy(u)' /\ \A v \in Workers : v # u => worker'[v] = worker[v]
  <2>1. worker \in [Workers -> WorkerRecord]
    BY DEF FenceInv, DurableTypeOK
  <2> QED
    BY SMT, <2>1 DEF Busy, Idle
<1>2. Others(u)
  BY <1>1, JournalOthers
<1>3. lock' # u
  BY <1>1, ComposeAssumption DEF FenceInv, LockOK
<1>4. Clean' => UnderwayOK'
  <2>1. Clean' = Clean /\ Underway' = Underway
    BY DEF Clean, Underway, Open
  <2>2. UnderwayOK' = UnderwayOK
    BY <2>1 DEF UnderwayOK, Settled, Serving, Calm
  <2> QED
    BY <2>1, <2>2 DEF ServeInv
<1>5. Own(u)'
  BY <1>1, <1>3, <1>4 DEF Own, Latest
<1> QED
  BY SMTT(60), <1>2, <1>5, OthersServe

(* Nothing the invariant speaks of changes.                                *)
LEMMA StutterServes ==
  ASSUME ServeInv, UNCHANGED <<invVars, worker, running, caddy, cron>>
  PROVE  ServeInv'
<1> USE DEF invVars
<1>1. RuntimeTypeOK' = RuntimeTypeOK
  BY DEF RuntimeTypeOK
<1>2. Underway' = Underway /\ Settled' = Settled
      /\ Serving(NoRevision)' = Serving(NoRevision) /\ Clean' = Clean
  BY DEF Underway, Open, Settled, Serving, Clean
<1>3. ASSUME NEW w
      PROVE  /\ CallOK(w)' = CallOK(w) /\ Busy(w)' = Busy(w)
             /\ PreviousOK(w)' = PreviousOK(w) /\ Latest(w)' = Latest(w)
             /\ Verified(w)' = Verified(w)
  BY DEF CallOK, Busy, PreviousOK, Latest, Verified
<1>4. ASSUME NEW w
      PROVE  VerifiedOK(w)' = VerifiedOK(w)
  BY <1>2 DEF VerifiedOK, Candidate
<1>5. ASSUME NEW w
      PROVE  EndedOK(w)' = EndedOK(w)
  BY <1>2 DEF EndedOK, Restored, Deactivated, Ended, Entered
<1>6. Progress(lock)' = Progress(lock)
  BY DEF Progress, CallOf, Candidate
<1>7. UnderwayOK' = UnderwayOK
  BY <1>2 DEF UnderwayOK, Serving, Calm
<1>8. CallsOK' = CallsOK
  BY <1>3 DEF CallsOK
<1> QED
  BY SMT, <1>1, <1>2, <1>3, <1>4, <1>5, <1>6, <1>7, <1>8 DEF ServeInv

-----------------------------------------------------------------------------
(* The phases break off: what is left is to undo them.                     *)
LEMMA InterruptServes ==
  ASSUME FenceInv, FenceInv', ServeInv, NEW u \in Workers, Busy(u),
         NEW c \in BOOLEAN, Interrupt(u, c),
         UNCHANGED <<invVars, running, caddy, cron>>
  PROVE  ServeInv'
<1> DEFINE y == [worker[u] EXCEPT !.at = "undo", !.phase = "none",
                                  !.step = "none", !.cancel = c]
<1>1. worker \in [Workers -> WorkerRecord]
  BY DEF FenceInv, DurableTypeOK
<1>2. worker' = [worker EXCEPT ![u] = y]
  BY <1>1 DEF Interrupt
<1>3. /\ y.at = "undo" /\ y.step = "none" /\ y.op = worker[u].op
      /\ y.token = worker[u].token /\ y.previous = worker[u].previous
  BY SMT, <1>1 DEF WorkerRecord
<1> HIDE DEF y
<1>4. Stays(u) /\ worker'[u].at = "undo"
  BY <1>1, <1>2, <1>3, PutStays DEF Inside
<1>5. CallOK(u)' /\ ~Verified(u)' /\ ~Restored(u)' /\ ~Deactivated(u)'
  BY <1>4 DEF CallOK, Verified, Restored, Deactivated, Ended
<1> QED
  BY <1>4, <1>5, StayServes

(* A step of worker u that only moves it within its call.                  *)
LEMMA StepServes ==
  ASSUME FenceInv, FenceInv', ServeInv, NEW u \in Workers, Busy(u),
         NEW s \in Outside, worker' = [worker EXCEPT ![u].step = s],
         s = "returned" => worker[u].at \notin {"restore", "deactivate"},
         UNCHANGED <<invVars, running, caddy, cron>>
  PROVE  ServeInv'
<1>1. worker \in [Workers -> WorkerRecord]
  BY DEF FenceInv, DurableTypeOK
<1>2. Becomes(u, worker[u].at, worker[u].phase, s) /\ s \notin Inside
  BY <1>1, StepBecomes DEF Inside, Outside
<1>3. Stays(u)
  BY <1>2 DEF Becomes, Stays
<1>4. worker'[u].failed = worker[u].failed
  BY SMT, <1>1 DEF WorkerRecord
<1>5. CallOK(u)'
  <2>1. CallOK(u)
    BY DEF ServeInv, CallsOK
  <2> QED
    BY SMT, <1>2, <2>1 DEF CallOK, Becomes, invVars
<1>6. Verified(u)' => Verified(u)
  BY <1>2 DEF Verified, Becomes
<1>7. Restored(u)' => Restored(u)
  BY <1>2, <1>4 DEF Restored, Ended, Becomes, invVars
<1>8. Deactivated(u)' => Deactivated(u)
  BY <1>2, <1>4 DEF Deactivated, Ended, Becomes, invVars
<1> QED
  BY <1>3, <1>5, <1>6, <1>7, <1>8, StayServes

(* A candidate that started goes to its check, which preserves the         *)
(* invariant.                                                              *)
LEMMA StartReturnedServes ==
  ASSUME FenceInv, FenceInv', ServeInv, NEW u \in Workers, PhaseReturned(u),
         worker[u].phase = "start_candidate", UNCHANGED runtimeVars
  PROVE  ServeInv'
<1> DEFINE y == [worker[u] EXCEPT !.at = "check", !.step = "none"]
<1>1. worker \in [Workers -> WorkerRecord]
  BY DEF FenceInv, DurableTypeOK
<1>2. worker' = [worker EXCEPT ![u] = y]
  BY <1>1 DEF PhaseReturned
<1>3. /\ y.at = "check" /\ y.step = "none" /\ y.op = worker[u].op
      /\ y.phase = "start_candidate"
      /\ y.token = worker[u].token /\ y.previous = worker[u].previous
  BY SMT, <1>1 DEF WorkerRecord
<1> HIDE DEF y
<1>4. /\ Stays(u) /\ worker'[u].at = "check"
      /\ worker'[u].phase = "start_candidate"
  BY <1>1, <1>2, <1>3, PutStays DEF Inside
<1>5. CallOK(u)' /\ ~Verified(u)' /\ ~Restored(u)' /\ ~Deactivated(u)'
  BY <1>4 DEF CallOK, Verified, Restored, Deactivated, Ended
<1>6. Busy(u) /\ UNCHANGED <<invVars, running, caddy, cron>>
  BY DEF PhaseReturned, Busy, journalVars, runtimeVars, invVars
<1> QED
  BY SMT, <1>4, <1>5, <1>6, StayServes

(* The last look at the controls preserves the invariant.                  *)
LEMMA CheckpointServes ==
  ASSUME FenceInv, FenceInv', ServeInv, NEW u \in Workers, Checkpoint(u),
         UNCHANGED runtimeVars
  PROVE  ServeInv'
<1> DEFINE y == [worker[u] EXCEPT !.at = "commit"]
<1>1. worker \in [Workers -> WorkerRecord]
  BY DEF FenceInv, DurableTypeOK
<1>2. worker' = [worker EXCEPT ![u] = y]
  BY <1>1 DEF Checkpoint
<1>3. Busy(u) /\ UNCHANGED <<invVars, running, caddy, cron>>
      /\ worker[u].at = "checkpoint"
  BY DEF Checkpoint, Busy, journalVars, runtimeVars, invVars
<1>4. /\ y.at = "commit" /\ y.step = worker[u].step /\ y.op = worker[u].op
      /\ y.token = worker[u].token /\ y.previous = worker[u].previous
  BY <1>1 DEF WorkerRecord
<1>5. worker[u].step \notin Inside
  BY <1>3 DEF FenceInv, PlaceOK, Acting, Inside
<1> HIDE DEF y
<1>6. Stays(u) /\ worker'[u].at = "commit"
  BY ZenonT(60), <1>1, <1>2, <1>4, <1>5, PutStays
<1>7. CallOK(u)' /\ Verified(u) /\ ~Restored(u)' /\ ~Deactivated(u)'
  BY <1>3, <1>6 DEF CallOK, Verified, Restored, Deactivated, Ended
<1> QED
  BY <1>3, <1>6, <1>7, StayServes

(* The compensation ended: the candidate is removed, or what there was to  *)
(* undo is undone, only after the call that brings the pointers back.      *)
LEMMA CompensatedServes ==
  ASSUME FenceInv, FenceInv', ServeInv, NEW u \in Workers, Compensated(u),
         UNCHANGED runtimeVars
  PROVE  ServeInv'
<1>1. worker \in [Workers -> WorkerRecord]
  BY DEF FenceInv, DurableTypeOK
<1>2. /\ worker[u].at \in Acting /\ worker[u].step \in {"returned", "raised"}
      /\ Busy(u) /\ UNCHANGED <<invVars, running, caddy, cron>>
  BY DEF Compensated, Acting, Busy, journalVars, runtimeVars, invVars
<1>3. CASE worker[u].step = "returned" /\ worker[u].at # "remove"
  <2> DEFINE y == [worker[u] EXCEPT !.at = "remove", !.step = "begin"]
  <2>1. worker' = [worker EXCEPT ![u] = y]
    BY <1>1, <1>3 DEF Compensated
  <2>2. /\ y.at = "remove" /\ y.step = "begin" /\ y.op = worker[u].op
        /\ y.token = worker[u].token /\ y.previous = worker[u].previous
    BY SMT, <1>1 DEF WorkerRecord
  <2> HIDE DEF y
  <2>3. Stays(u) /\ worker'[u].at = "remove"
    BY <1>1, <2>1, <2>2, PutStays DEF Inside
  <2>4. CallOK(u)' /\ ~Verified(u)'
    BY <2>3 DEF CallOK, Verified
  <2>5. \/ worker[u].at = "restore" /\ worker[u].previous # NoRevision
        \/ worker[u].at = "deactivate" /\ worker[u].previous = NoRevision
    BY <1>2, <1>3 DEF ServeInv, CallsOK, CallOK, Acting
  <2>6. Restored(u)' => Restored(u)
    BY <1>2, <1>3, <2>3, <2>5 DEF Restored, Ended, Stays, invVars
  <2>7. Deactivated(u)' => Deactivated(u)
    BY <1>2, <1>3, <2>3, <2>5 DEF Deactivated, Ended, Stays, invVars
  <2> QED
    BY <1>2, <2>3, <2>4, <2>6, <2>7, StayServes
<1>4. CASE ~(worker[u].step = "returned" /\ worker[u].at # "remove")
  <2> DEFINE y == [worker[u] EXCEPT !.at = "conclude", !.step = "none",
                                    !.failed = worker[u].step = "raised"]
  <2>1. worker' = [worker EXCEPT ![u] = y]
    BY <1>1, <1>4 DEF Compensated
  <2>2. /\ y.at = "conclude" /\ y.step = "none" /\ y.op = worker[u].op
        /\ y.token = worker[u].token /\ y.previous = worker[u].previous
        /\ y.failed = (worker[u].step = "raised")
    BY SMT, <1>1 DEF WorkerRecord
  <2> HIDE DEF y
  <2>3. Stays(u) /\ worker'[u] = y
    BY <1>1, <2>1, <2>2, PutStays DEF Inside
  <2>4. CallOK(u)' /\ ~Verified(u)'
    BY <2>2, <2>3 DEF CallOK, Verified
  <2>5. ~worker'[u].failed => worker[u].at = "remove"
    BY <1>2, <1>4, <2>2, <2>3
  <2>6. Restored(u)' => Restored(u)
    BY <1>2, <2>2, <2>3, <2>5 DEF Restored, Ended, Stays, invVars
  <2>7. Deactivated(u)' => Deactivated(u)
    BY <1>2, <2>2, <2>3, <2>5 DEF Deactivated, Ended, Stays, invVars
  <2> QED
    BY SMT, <1>2, <2>3, <2>4, <2>6, <2>7, StayServes
<1> QED
  BY <1>3, <1>4

-----------------------------------------------------------------------------
(* A worker that comes from before the traffic switch's verification does  *)
(* not get past it: that phase is never skipped.                           *)
LEMMA ForwardStops ==
  ASSUME NEW r \in WorkerRecord, NEW done \in SUBSET PhaseNames,
         NEW i \in 1..6
  PROVE  LET y == Forward(r, i, done)
         IN  y.at \in {"check", "before"} /\ y.phase # "drain_previous"
<1> DEFINE todo == {j \in i..7 : Phases[j] \notin done \cap SkippedWhenCompleted}
<1>1. 6 \in todo
  BY SMT, PhaseFacts DEF SkippedWhenCompleted
<1>2. todo \in SUBSET (1..7) /\ todo # {}
  BY SMT, <1>1
<1> DEFINE m == CHOOSE j \in todo : \A k \in todo : j <= k
<1>3. m \in todo /\ \A k \in todo : m <= k
  <2>1. \E j \in todo : \A k \in todo : j <= k
    BY ZenonT(60), <1>2, FirstOf
  <2> QED
    BY <2>1
<1>4. Forward(r, i, done) =
        [r EXCEPT !.at = IF Phases[m] \in done THEN "check" ELSE "before",
                  !.phase = Phases[m], !.step = "none"]
  BY SMT, <1>2, PhaseFacts DEF Forward
<1>5. m \in 1..6
  BY SMT, <1>1, <1>2, <1>3
<1> HIDE DEF m
<1>6. Phases[m] # "drain_previous"
  BY SMT, <1>5, PhaseFacts
<1> QED
  BY <1>4, <1>6 DEF WorkerRecord

(* Nor does a worker observe again that the predecessor was drained.       *)
LEMMA ForwardSkips ==
  ASSUME NEW r \in WorkerRecord, NEW done \in SUBSET PhaseNames,
         NEW i \in 1..8
  PROVE  LET y == Forward(r, i, done)
         IN  y.at = "check" => y.phase # "drain_previous"
<1> DEFINE todo == {j \in i..7 : Phases[j] \notin done \cap SkippedWhenCompleted}
<1>1. todo \in SUBSET (1..7)
  BY SMT
<1>2. CASE todo = {}
  <2>1. Forward(r, i, done) =
          [r EXCEPT !.at = "checkpoint", !.phase = "none", !.step = "none"]
    BY <1>2, PhaseFacts DEF Forward
  <2> QED
    BY <2>1 DEF WorkerRecord
<1>3. CASE todo # {}
  <2> DEFINE m == CHOOSE j \in todo : \A k \in todo : j <= k
  <2>1. m \in todo
    <3>1. \E j \in todo : \A k \in todo : j <= k
      BY ZenonT(60), <1>1, <1>3, FirstOf
    <3> QED
      BY <3>1
  <2>2. Forward(r, i, done) =
          [r EXCEPT !.at = IF Phases[m] \in done THEN "check" ELSE "before",
                    !.phase = Phases[m], !.step = "none"]
    BY SMT, <1>3, PhaseFacts DEF Forward
  <2>3. Phases[m] \notin done \cap SkippedWhenCompleted
    BY <2>1
  <2> HIDE DEF m
  <2> QED
    BY <2>2, <2>3 DEF WorkerRecord, SkippedWhenCompleted
<1> QED
  BY <1>2, <1>3

(* With the journal and the runtime as they were, so is what is underway.  *)
LEMMA UnderwaySame ==
  ASSUME ServeInv, UNCHANGED <<state, started, register, running, active,
                               caddy, cron>>
  PROVE  /\ Underway' = Underway
         /\ Clean' => UnderwayOK'
<1>1. Underway' = Underway /\ Clean' = Clean
  BY DEF Underway, Open, Clean
<1>2. UnderwayOK' = UnderwayOK
  BY <1>1 DEF UnderwayOK, Settled, Serving, Calm
<1> QED
  BY <1>1, <1>2 DEF ServeInv

(* An operation that is not finished deploys another revision than the     *)
(* journal's.                                                              *)
LEMMA OpenIsNotActive ==
  ASSUME FenceInv, NEW o \in Operations, Open(o)
  PROVE  RevisionOf[o] # register
BY DEF FenceInv, RevisionsOK, Open, TerminalStates

(* A completed phase: traffic that was verified is verified.               *)
LEMMA CompletePhaseServes ==
  ASSUME FenceInv, FenceInv', ServeInv, NEW u \in Workers, CompletePhase(u),
         UNCHANGED runtimeVars,
         \/ worker[u].at = "call"
         \/ worker[u].at = "check" /\ Observed(u)
  PROVE  ServeInv'
<1>1. worker \in [Workers -> WorkerRecord] /\ DurableTypeOK
  BY DEF FenceInv, DurableTypeOK
<1>2. Busy(u) /\ worker[u].at \in {"call", "check"}
  BY DEF Busy
<1>3. /\ Latest(u) /\ LatestOK(u) /\ PlaceOK(u) /\ Open(worker[u].op)
  BY <1>2, WritableLatest DEF CompletePhase
<1>4. PICK o \in Operations : o = worker[u].op
  BY <1>2, WritableLatest DEF CompletePhase
<1>5. PICK k \in 1..7 : worker[u].phase = Phases[k] /\ Behind(o, k)
  BY <1>2, <1>3, <1>4, PhaseFacts DEF PlaceOK
<1>6. PICK p \in PhaseNames : p = worker[u].phase
  BY <1>5, PhaseFacts DEF PhaseNames
<1>7. PICK done \in SUBSET PhaseNames : done = completed[o] \cup {p}
  BY <1>1, <1>6 DEF DurableTypeOK
<1>8. PICK r \in WorkerRecord, i \in 1..8 : r = worker[u] /\ i = k + 1
  BY SMT, <1>1
<1>9. PICK y \in WorkerRecord :
        /\ worker' = [worker EXCEPT ![u] = y]
        /\ y = Forward(r, i, done)
        /\ Ahead(y, r, done)
  <2>1. Index(p) + 1 = i
    BY <1>5, <1>6, <1>8, PhaseFacts
  <2>2. \A j \in 1..7 : j < k => Phases[j] \in completed[o]
    BY <1>5, PhaseFacts DEF Behind
  <2>3. \A j \in 1..7 : j < i => j < k \/ j = k
    BY SMT, <1>8
  <2>4. Past(i, done)
    BY SMT, <1>5, <1>6, <1>7, <2>2, <2>3 DEF Past
  <2>5. Ahead(Forward(r, i, done), r, done)
    BY <2>4, ForwardGoes
  <2>6. worker' = [worker EXCEPT ![u] = Forward(r, i, done)]
    BY ZenonT(60), <1>1, <1>4, <1>6, <1>7, <1>8, <2>1 DEF CompletePhase
  <2> QED
    BY <2>5, <2>6 DEF Ahead
<1>10. /\ y.at \in {"checkpoint", "check", "before"} /\ y.step \notin Inside
       /\ y.op = worker[u].op /\ y.token = worker[u].token
       /\ y.previous = worker[u].previous
  BY <1>8, <1>9 DEF Ahead, Inside
<1>11. Stays(u) /\ worker'[u] = y
  BY ZenonT(60), <1>1, <1>9, <1>10, PutStays
<1>12. UNCHANGED <<holder, lock, record, state, started, register, running,
                   active, caddy, cron>>
  BY DEF CompletePhase, runtimeVars
<1>13. Others(u)
  BY SMT, <1>11, <1>12, JournalOthers DEF Stays
<1>14. lock' # u
  BY <1>11, LeavesFence DEF Stays
<1>15. Underway' = Underway /\ (Clean' => UnderwayOK')
  BY <1>12, UnderwaySame
<1>16. CallOK(u)' /\ ~Restored(u)' /\ ~Deactivated(u)'
  <2>1. y.at = "check" => y.phase # "drain_previous"
    BY <1>9, ForwardSkips
  <2> QED
    BY <1>10, <1>11, <2>1 DEF CallOK, Restored, Deactivated, Ended
<1>17. PreviousOK(u)'
  BY <1>2, <1>11, <1>12 DEF ServeInv, PreviousOK, Stays
<1>18. Candidate(u)' = Candidate(u)
  BY <1>11 DEF Stays, Candidate
<1>19. Verified(u)' => VerifiedOK(u)'
  <2>1. CASE k \in 1..5
    <3>1. PICK n \in 1..6 : n = i
      BY SMT, <1>8, <2>1
    <3>2. y.at \in {"check", "before"} /\ y.phase # "drain_previous"
      BY ZenonT(60), <1>9, <3>1, ForwardStops
    <3> QED
      BY <1>11, <3>2 DEF Verified
  <2>2. CASE k = 6
    <3>1. worker[u].phase = "external_verify"
      BY <1>5, <2>2, PhaseFacts
    <3>2. Observed(u)
      BY <1>2, <3>1 DEF ServeInv, CallsOK, CallOK
    <3>3. active = Candidate(u) /\ Services \subseteq running[Candidate(u)]
      BY <3>1, <3>2 DEF Observed
    <3>4. running[Candidate(u)] = Services
      <4>1. Candidate(u) \in Revisions
        BY ZenonT(60), <1>4, ComposeAssumption DEF Candidate
      <4> QED
        BY <3>3, <4>1 DEF ServeInv, RuntimeTypeOK
    <3> QED
      BY SMT, <1>12, <1>18, <3>3, <3>4 DEF VerifiedOK
  <2>3. CASE k = 7
    <3>1. worker[u].phase = "drain_previous"
      BY SMTT(60), <1>5, <2>3, PhaseFacts
    <3>2. CallOK(u)
      BY <1>2 DEF ServeInv, CallsOK
    <3>3. Verified(u)
      BY SMT, <1>3, <3>1, <3>2 DEF Verified, CallOK
    <3>4. VerifiedOK(u)
      BY <1>3, <3>3 DEF ServeInv
    <3> QED
      BY SMTT(60), <1>11, <1>12, <1>15, <1>18, <3>4 DEF VerifiedOK, Stays
  <2> QED
    BY SMT, <2>1, <2>2, <2>3
<1>20. Own(u)'
  BY SMT, <1>14, <1>15, <1>16, <1>17, <1>19 DEF Own, EndedOK
<1> QED
  BY <1>13, <1>20, OthersServe

(* A started phase: a candidate that is about to start counts as underway. *)
LEMMA BeforePhaseServes ==
  ASSUME FenceInv, FenceInv', ServeInv, NEW u \in Workers, BeforePhase(u),
         UNCHANGED runtimeVars
  PROVE  ServeInv'
<1>1. worker \in [Workers -> WorkerRecord] /\ DurableTypeOK
  BY DEF FenceInv, DurableTypeOK
<1>2. Busy(u) /\ worker[u].at = "before"
  BY DEF BeforePhase, Busy
<1>3. /\ Latest(u) /\ LatestOK(u) /\ PlaceOK(u) /\ Open(worker[u].op)
  BY <1>2, WritableLatest DEF BeforePhase
<1>4. PICK o \in Operations : o = worker[u].op
  BY <1>2, WritableLatest DEF BeforePhase
<1>5. PICK p : p = worker[u].phase
  OBVIOUS
<1>6. /\ started' = [started EXCEPT ![o] = started[o] \cup {p}]
      /\ UNCHANGED <<holder, lock, record, state, register, running, active,
                     caddy, cron>>
  BY <1>4, <1>5 DEF BeforePhase, runtimeVars
<1>7. \A q \in Operations :
        started'[q] = IF q = o THEN started[o] \cup {p} ELSE started[q]
  BY <1>1, <1>6 DEF DurableTypeOK
<1> DEFINE verify == p \in {"readiness_verify", "external_verify"}
           a == IF verify THEN "check" ELSE "call"
           s == IF verify THEN "none" ELSE "begin"
           y == [worker[u] EXCEPT !.at = a, !.step = s]
<1>8. worker' = [worker EXCEPT ![u] = y]
  BY <1>1, <1>5 DEF BeforePhase
<1>9. /\ y.at = a /\ y.step = s /\ y.phase = p /\ y.op = worker[u].op
      /\ y.token = worker[u].token /\ y.previous = worker[u].previous
  BY SMT, <1>1, <1>5 DEF WorkerRecord
<1>10. s \notin Inside /\ a \in {"check", "call"}
       /\ (a = "call" => ~verify) /\ (a = "check" => verify)
  BY DEF Inside
<1> HIDE DEF y, a, s
<1>11. Stays(u) /\ worker'[u] = y
  BY <1>1, <1>8, <1>9, <1>10, PutStays
<1>12. Others(u)
  BY SMTT(60), <1>3, <1>6, <1>7, <1>11, JournalOthers DEF Stays
<1>13. lock' # u
  BY <1>11, LeavesFence DEF Stays
<1>14. /\ Underway \subseteq Underway' /\ Underway' \subseteq Underway \cup {o}
       /\ o \in Underway' /\ o \notin Underway => p = "start_candidate"
       /\ \A x \in Operations : Calm(x)' => Calm(x)
  BY SMT, <1>6, <1>7 DEF Underway, Open, Calm
<1>15. Clean' => UnderwayOK'
  <2> SUFFICES ASSUME Clean' PROVE UnderwayOK'
    OBVIOUS
  <2>1. UnderwayOK
    BY <1>6 DEF Clean, ServeInv
  <2>2. /\ Settled' = Settled /\ Serving(register)' = Serving(register)
        /\ \A r : Serving(r)' = Serving(r)
    BY <1>6 DEF Settled, Serving
  <2>3. Underway' = {} => Settled'
    BY <1>14, <2>1, <2>2 DEF UnderwayOK
  <2>4. (\A x \in Underway' : Calm(x)') => Serving(register)'
    <3>1. (\A x \in Underway' : Calm(x)') => \A x \in Underway : Calm(x)
      BY <1>14 DEF Underway
    <3> QED
      BY <2>1, <2>2, <3>1 DEF UnderwayOK
  <2>5. ASSUME NEW q \in Underway', state'[q] \in Advancing,
               \A x \in Underway' \ {q} : Calm(x)'
        PROVE  /\ active \in {register, RevisionOf[q]}
               /\ active = RevisionOf[q] => Serving(RevisionOf[q])
    <3>1. q \in Operations /\ Open(q)
      BY <1>6, <2>5 DEF Underway, Open
    <3>2. \A x \in Underway \ {q} : Calm(x)
      BY ZenonT(60), <1>14, <2>5 DEF Underway
    <3>3. CASE q \in Underway
      BY SMT, <1>6, <2>1, <2>5, <3>2, <3>3 DEF UnderwayOK
    <3>4. CASE q \notin Underway
      <4>1. Serving(register)
        BY <2>1, <3>2, <3>4 DEF UnderwayOK
      <4> QED
        BY <3>1, <4>1, OpenIsNotActive DEF Serving
    <3> QED
      BY <3>3, <3>4
  <2> QED
    BY <1>6, <2>2, <2>3, <2>4, <2>5 DEF UnderwayOK
<1>16. CallOK(u)' /\ ~Restored(u)' /\ ~Deactivated(u)'
  BY <1>9, <1>10, <1>11 DEF CallOK, Restored, Deactivated, Ended
<1>17. PreviousOK(u)'
  BY ZenonT(60), <1>2, <1>6, <1>11 DEF ServeInv, PreviousOK, Stays
<1>18. Verified(u)' => VerifiedOK(u)'
  <2> SUFFICES ASSUME Verified(u)' PROVE VerifiedOK(u)'
    OBVIOUS
  <2>1. p = "drain_previous"
    BY ZenonT(60), <1>9, <1>10, <1>11 DEF Verified
  <2>2. VerifiedOK(u)
    BY ZenonT(60), <1>2, <1>3, <1>5, <2>1 DEF ServeInv, Verified
  <2>3. Underway' = Underway
    BY <1>14, <2>1
  <2>4. Candidate(u)' = Candidate(u) /\ worker'[u].op = worker[u].op
    BY <1>11 DEF Stays, Candidate
  <2> QED
    BY SMT, <1>6, <2>2, <2>3, <2>4 DEF VerifiedOK
<1>19. Own(u)'
  BY SMT, <1>13, <1>15, <1>16, <1>17, <1>18 DEF Own, EndedOK
<1> QED
  BY SMT, <1>12, <1>19, OthersServe

(* An interrupted operation turns to its compensation.                     *)
LEMMA UndoServes ==
  ASSUME FenceInv, FenceInv', ServeInv, NEW u \in Workers, Undo(u),
         UNCHANGED runtimeVars
  PROVE  ServeInv'
<1>1. worker \in [Workers -> WorkerRecord] /\ DurableTypeOK
  BY DEF FenceInv, DurableTypeOK
<1>2. Busy(u) /\ worker[u].at = "undo"
  BY DEF Undo, Busy
<1>3. Latest(u) /\ Open(worker[u].op)
  BY <1>2, WritableLatest DEF Undo
<1>4. PICK o \in Operations : o = worker[u].op
  BY <1>2, WritableLatest DEF Undo
<1>5. PICK st \in {"cancelling", "compensating"} :
        state' = [state EXCEPT ![o] = st]
  BY <1>4 DEF Undo
<1>6. UNCHANGED <<holder, lock, record, started, register, running, active,
                  caddy, cron>>
  BY DEF Undo, runtimeVars
<1>7. \A q \in Operations : state'[q] = IF q = o THEN st ELSE state[q]
  BY <1>1, <1>5 DEF DurableTypeOK
<1>8. PICK a \in {"conclude", "restore", "deactivate", "remove"} :
        /\ a = Compensation(u)
        /\ a = "conclude" => "start_candidate" \notin started[o]
        /\ a = "restore" => worker[u].previous # NoRevision
        /\ a = "deactivate" => /\ worker[u].previous = NoRevision
                               /\ "switch_traffic" \in started[o]
        /\ a = "remove" => /\ worker[u].previous = NoRevision
                           /\ "switch_traffic" \notin started[o]
  BY <1>4 DEF Compensation
<1> DEFINE s == IF a = "conclude" THEN "none" ELSE "begin"
           y == [worker[u] EXCEPT !.at = a, !.step = s]
<1>9. worker' = [worker EXCEPT ![u] = y]
  BY <1>1, <1>8 DEF Undo
<1>10. /\ y.at = a /\ y.step = s /\ y.op = worker[u].op
       /\ y.token = worker[u].token /\ y.previous = worker[u].previous
  BY SMT, <1>1 DEF WorkerRecord
<1>11. s \notin Inside /\ s # "returned"
  BY DEF Inside
<1> HIDE DEF y, s
<1>12. Stays(u) /\ worker'[u] = y
  BY ZenonT(60), <1>1, <1>9, <1>10, <1>11, PutStays
<1>13. Others(u)
  <2>1. state[o] # "succeeded"
    BY ZenonT(60), <1>3, <1>4 DEF Open, TerminalStates
  <2> QED
    BY SMT, <1>3, <1>6, <1>7, <1>12, <2>1, JournalOthers DEF Stays
<1>14. lock' # u
  BY <1>12, LeavesFence DEF Stays
<1>15. Underway' = Underway /\ Clean' = Clean
  <2>1. \A q \in Operations : Open(q)' = Open(q)
    BY <1>3, <1>4, <1>7 DEF Open, TerminalStates
  <2>2. Clean' = Clean
    BY ZenonT(60), <1>3, <1>4, <1>7 DEF Clean, Open, TerminalStates
  <2> QED
    BY <1>6, <2>1, <2>2 DEF Underway
<1>16. Clean' => UnderwayOK'
  <2> SUFFICES ASSUME Clean' PROVE UnderwayOK'
    OBVIOUS
  <2>1. UnderwayOK
    BY <1>15 DEF ServeInv
  <2>2. \A q \in Operations : state'[q] \in Advancing => state[q] \in Advancing
    BY <1>7 DEF Advancing
  <2>3. /\ Settled' = Settled /\ \A r : Serving(r)' = Serving(r)
        /\ \A q : Calm(q)' = Calm(q)
    BY <1>6 DEF Settled, Serving, Calm
  <2>4. Underway \subseteq Operations
    BY DEF Underway
  <2>5. Serving(register)' = Serving(register)
    BY <1>6 DEF Serving
  <2>6. /\ Underway' = {} => Settled'
        /\ (\A x \in Underway' : Calm(x)') => Serving(register)'
    BY <1>15, <2>1, <2>3, <2>5 DEF UnderwayOK
  <2>7. ASSUME NEW q \in Underway', state'[q] \in Advancing,
               \A x \in Underway' \ {q} : Calm(x)'
        PROVE  /\ active' \in {register', RevisionOf[q]}
               /\ active' = RevisionOf[q] => Serving(RevisionOf[q])'
    BY <1>6, <1>15, <2>1, <2>2, <2>3, <2>4, <2>7 DEF UnderwayOK
  <2> QED
    BY <2>6, <2>7 DEF UnderwayOK
<1>17. CallOK(u)'
  BY SMTT(60), <1>4, <1>6, <1>8, <1>10, <1>12 DEF CallOK
<1>18. ~Verified(u)' /\ ~Restored(u)' /\ ~Deactivated(u)'
  BY SMT, <1>4, <1>6, <1>8, <1>10, <1>11, <1>12
     DEF Verified, Restored, Deactivated, Ended
<1>19. PreviousOK(u)'
  <2>1. PreviousOK(u)
    BY <1>2 DEF ServeInv
  <2> QED
    BY <1>12, <1>13, <2>1 DEF PreviousOK, Stays, Others
<1>20. Own(u)'
  BY SMT, <1>14, <1>16, <1>17, <1>18, <1>19 DEF Own, EndedOK
<1> QED
  BY <1>13, <1>20, OthersServe

-----------------------------------------------------------------------------
(* The end of an operation: its worker is idle and the rest is about what  *)
(* is still underway.                                                      *)
LEMMA FinishServes ==
  ASSUME FenceInv, FenceInv', ServeInv, NEW u \in Workers, Busy(u),
         NEW outcome \in TerminalStates, NEW named,
         Finish(u, outcome, named), UNCHANGED runtimeVars,
         Clean' => UnderwayOK'
  PROVE  ServeInv'
<1>1. worker \in [Workers -> WorkerRecord] /\ DurableTypeOK
  BY DEF FenceInv, DurableTypeOK
<1>2. Latest(u) /\ Open(worker[u].op)
  BY WritableLatest DEF Finish
<1>3. PICK o \in Operations : o = worker[u].op
  BY WritableLatest DEF Finish
<1>4. \A q \in Operations : state'[q] = IF q = o THEN outcome ELSE state[q]
  BY <1>1, <1>3 DEF Finish, DurableTypeOK
<1>5. ~Busy(u)' /\ \A v \in Workers : v # u => worker'[v] = worker[v]
  BY <1>1 DEF Finish, Busy, Idle
<1>6. holder'.token = holder.token
  BY ZenonT(60), <1>1 DEF Finish, Release, DurableTypeOK
<1>7. Others(u)
  <2>1. state[o] # "succeeded"
    BY <1>2, <1>3 DEF Open, TerminalStates
  <2>2. UNCHANGED <<lock, record, started, running, active, caddy, cron>>
    BY DEF Finish, runtimeVars
  <2> QED
    BY SMT, <1>2, <1>4, <1>5, <1>6, <2>1, <2>2, JournalOthers
<1>8. lock' # u
  BY ZenonT(60), <1>5, ComposeAssumption DEF FenceInv, LockOK
<1>9. Own(u)'
  BY <1>5, <1>8 DEF Own, Latest
<1> QED
  BY SMT, <1>7, <1>9, OthersServe

(* A committed candidate is what the runtime serves, unless the recovery   *)
(* of another operation is about to say otherwise.                         *)
LEMMA CommitServes ==
  ASSUME FenceInv, FenceInv', ServeInv, NEW u \in Workers, Commit(u),
         UNCHANGED runtimeVars
  PROVE  ServeInv'
<1>1. worker \in [Workers -> WorkerRecord] /\ DurableTypeOK
  BY DEF FenceInv, DurableTypeOK
<1>2. Busy(u) /\ worker[u].at = "commit"
  BY DEF Commit, Busy
<1>3. Finish(u, "succeeded", Candidate(u))
  BY DEF Commit
<1>4. /\ Latest(u) /\ LatestOK(u) /\ PlaceOK(u) /\ Open(worker[u].op)
  BY <1>2, <1>3, WritableLatest DEF Finish
<1>5. PICK o \in Operations : o = worker[u].op
  BY ZenonT(60), <1>2, <1>3, WritableLatest DEF Finish
<1>6. /\ register' = RevisionOf[o]
      /\ RevisionOf[o] \in Revisions /\ RevisionOf[o] # NoRevision
      /\ UNCHANGED <<started, running, active, caddy, cron>>
  BY SMT, <1>3, <1>5, ComposeAssumption
     DEF Commit, Finish, Candidate, runtimeVars
<1>7. \A q \in Operations :
        state'[q] = IF q = o THEN "succeeded" ELSE state[q]
  BY <1>1, <1>3, <1>5 DEF Finish, DurableTypeOK
<1>8. o \in Underway /\ state[o] = "executing"
  <2>1. "start_candidate" \in completed[o]
    BY <1>2, <1>4, <1>5, PhaseFacts DEF PlaceOK
  <2>2. "start_candidate" \in started[o]
    BY <2>1 DEF FenceInv, RevisionsOK
  <2> QED
    BY <1>2, <1>4, <1>5, <2>2 DEF Underway, LatestOK, Forwards
<1>9. Underway' = Underway \ {o}
  BY <1>6, <1>7 DEF Underway, Open, TerminalStates
<1>10. VerifiedOK(u) /\ Candidate(u) = RevisionOf[o]
  BY <1>2, <1>4, <1>5 DEF ServeInv, Verified, Candidate
<1>11. \A x : ~Calm(x)'
  BY <1>6 DEF Calm
<1>12. Clean' => UnderwayOK'
  <2> SUFFICES ASSUME Clean' PROVE UnderwayOK'
    OBVIOUS
  <2>1. UnderwayOK
    <3>1. Clean
      BY <1>7, <1>8 DEF Clean
    <3> QED
      BY <3>1 DEF ServeInv
  <2>2. ASSUME Underway = {o}
        PROVE  Settled'
    <3>1. active = RevisionOf[o] /\ running[RevisionOf[o]] = Services
      BY ZenonT(60), <1>5, <1>10, <2>2 DEF VerifiedOK
    <3>2. Serving(RevisionOf[o])
      BY SMT, <1>8, <2>1, <2>2, <3>1 DEF UnderwayOK, Advancing
    <3> QED
      BY <1>6, <3>1, <3>2 DEF Settled, Serving
  <2>3. Underway' = {} => Settled'
    BY <1>8, <1>9, <2>2
  <2>4. (\A x \in Underway' : Calm(x)') => Serving(register)'
    BY <1>11, <2>3 DEF Settled
  <2>5. ASSUME NEW q \in Underway', state'[q] \in Advancing,
               \A x \in Underway' \ {q} : Calm(x)'
        PROVE  active = register' /\ active # RevisionOf[q]
    <3>1. Underway = {o, q} /\ q # o /\ q \in Operations
      BY SMT, <1>8, <1>9, <1>11, <2>5 DEF Underway
    <3>2. state[q] \in Advancing
      BY <1>7, <2>5, <3>1
    <3>3. active = RevisionOf[o]
      BY <1>5, <1>10, <3>1, <3>2 DEF VerifiedOK
    <3> QED
      BY <1>6, <3>1, <3>3, ComposeAssumption
  <2> QED
    BY <1>6, <2>3, <2>4, <2>5 DEF UnderwayOK
<1> QED
  BY <1>2, <1>3, <1>12, FinishServes DEF TerminalStates

(* A compensated operation leaves what the journal names, or has not moved *)
(* a pointer.                                                              *)
LEMMA ConcludeServes ==
  ASSUME FenceInv, FenceInv', ServeInv, NEW u \in Workers, Conclude(u),
         UNCHANGED runtimeVars
  PROVE  ServeInv'
<1>1. worker \in [Workers -> WorkerRecord] /\ DurableTypeOK
  BY DEF FenceInv, DurableTypeOK
<1>2. Busy(u) /\ worker[u].at = "conclude"
  BY DEF Conclude, Busy
<1>3. PICK outcome \in TerminalStates, named \in Revisions \cup {NoRevision} :
        /\ Finish(u, outcome, named)
        /\ outcome # "succeeded"
        /\ outcome # "failed_uncompensated" => ~worker[u].failed
  BY <1>1 DEF Conclude, TerminalStates, WorkerRecord
<1>4. /\ Latest(u) /\ LatestOK(u) /\ Open(worker[u].op)
  BY <1>2, <1>3, WritableLatest DEF Finish
<1>5. PICK o \in Operations : o = worker[u].op
  BY <1>2, <1>3, WritableLatest DEF Finish
<1>6. UNCHANGED <<register, started, running, active, caddy, cron>>
  BY <1>3 DEF Conclude, Finish, runtimeVars
<1>7. \A q \in Operations :
        state'[q] = IF q = o THEN outcome ELSE state[q]
  BY <1>1, <1>3, <1>5 DEF Finish, DurableTypeOK
<1>8. Underway' = Underway \ {o}
  BY <1>6, <1>7 DEF Underway, Open
<1>9. Clean' => UnderwayOK'
  <2> SUFFICES ASSUME Clean' PROVE UnderwayOK'
    OBVIOUS
  <2>1. UnderwayOK /\ ~worker[u].failed
    <3>1. Clean /\ outcome # "failed_uncompensated"
      BY <1>4, <1>5, <1>7 DEF Clean, Open, TerminalStates
    <3> QED
      BY <1>3, <3>1 DEF ServeInv
  <2>2. /\ Settled' = Settled /\ Serving(register)' = Serving(register)
        /\ (\A r : Serving(r)' = Serving(r))
        /\ \A q : Calm(q)' = Calm(q)
    BY <1>6 DEF Settled, Serving, Calm
  <2>3. \A q \in Underway' : /\ q \in Underway /\ q \in Operations /\ q # o
                             /\ Open(q) /\ state'[q] = state[q]
    BY <1>7, <1>8 DEF Underway
  <2>4. CASE Settled
    <3>1. ASSUME NEW q \in Underway'
          PROVE  active = register /\ active # RevisionOf[q]
      BY <2>3, <2>4, OpenIsNotActive DEF Settled, Serving
    <3>2. Serving(register)
      BY <2>4 DEF Settled
    <3> QED
      BY <1>6, <2>2, <2>4, <3>1, <3>2 DEF UnderwayOK
  <2>5. CASE o \in Underway => Calm(o)
    <3>1. Underway' = {} => Settled'
      <4> SUFFICES ASSUME Underway' = {} PROVE Settled
        BY <2>2
      <4>1. CASE o \in Underway
        <5>1. \A x \in Underway : Calm(x)
          BY <1>8, <2>5, <4>1
        <5>2. Serving(register) /\ register = NoRevision
          BY <2>1, <2>5, <4>1, <5>1 DEF UnderwayOK, Calm
        <5> QED
          BY <5>2 DEF Settled
      <4>2. CASE o \notin Underway
        BY <1>8, <2>1, <4>2 DEF UnderwayOK
      <4> QED
        BY <4>1, <4>2
    <3>2. (\A x \in Underway' : Calm(x)') => Serving(register)'
      <4>1. (\A x \in Underway' : Calm(x)') => \A x \in Underway : Calm(x)
        BY SMT, <1>8, <2>2, <2>5
      <4> QED
        BY <2>1, <2>2, <4>1 DEF UnderwayOK
    <3>3. ASSUME NEW q \in Underway', state'[q] \in Advancing,
                 \A x \in Underway' \ {q} : Calm(x)'
          PROVE  /\ active \in {register, RevisionOf[q]}
                 /\ active = RevisionOf[q] => Serving(RevisionOf[q])
      <4>1. q \in Underway /\ state[q] \in Advancing
        BY <2>3, <3>3
      <4>2. \A x \in Underway \ {q} : Calm(x)
        BY <1>8, <2>2, <2>5, <3>3
      <4> QED
        BY SMT, <2>1, <4>1, <4>2 DEF UnderwayOK
    <3> QED
      BY <1>6, <2>2, <3>1, <3>2, <3>3 DEF UnderwayOK
  <2>6. Settled \/ (o \in Underway => Calm(o))
    <3>1. CASE "start_candidate" \in started[o]
               /\ worker[u].previous # NoRevision
      BY SMT, <1>2, <1>4, <1>5, <2>1, <3>1
         DEF ServeInv, EndedOK, Restored, Ended
    <3>2. CASE "start_candidate" \in started[o]
               /\ worker[u].previous = NoRevision
               /\ "switch_traffic" \in started[o]
      <4>1. Serving(NoRevision) /\ register = NoRevision
        BY ZenonT(60), <1>2, <1>4, <1>5, <2>1, <3>2
           DEF ServeInv, EndedOK, Deactivated, Ended, LatestOK
      <4> QED
        BY <4>1 DEF Settled
    <3>3. CASE "start_candidate" \in started[o]
               /\ worker[u].previous = NoRevision
               /\ "switch_traffic" \notin started[o]
      BY <1>4, <3>3 DEF Calm, LatestOK
    <3>4. CASE "start_candidate" \notin started[o]
      BY <3>4 DEF Underway
    <3> QED
      BY ZenonT(60), <3>1, <3>2, <3>3, <3>4
  <2> QED
    BY <2>4, <2>5, <2>6
<1> QED
  BY <1>2, <1>3, <1>9, FinishServes

(* A worker takes an operation up: it holds the newest token, and what it  *)
(* found in the journal as the predecessor has been committed.             *)
LEMMA RunServes ==
  ASSUME FenceInv, FenceInv', ServeInv, NEW u \in Workers,
         NEW o \in Operations, Run(u, o), UNCHANGED runtimeVars
  PROVE  ServeInv'
<1>1. worker \in [Workers -> WorkerRecord] /\ DurableTypeOK /\ DurableTypeOK'
  BY DEF FenceInv, DurableTypeOK
<1>2. /\ ~Busy(u) /\ Open(o)
      /\ UNCHANGED <<lock, record, started, completed, register, running,
                     active, caddy, cron>>
  BY SMT DEF Run, Busy, Idle, runtimeVars
<1>3. PICK t \in Nat : t = holder'.token
  BY <1>1 DEF DurableTypeOK
<1> DEFINE r == [Idle EXCEPT !.op = o, !.token = t, !.previous = register]
<1>4. /\ r \in WorkerRecord
      /\ r.op = o /\ r.token = t /\ r.previous = register /\ r.step = "none"
  BY <1>1 DEF Idle, WorkerRecord, Outside, DurableTypeOK
<1>5. r = [Idle EXCEPT !.op = o, !.token = holder'.token, !.previous = register]
  BY <1>3
<1> HIDE DEF r
<1>6. PICK y :
        /\ worker' = [worker EXCEPT ![u] = y]
        /\ y.op = o /\ y.token = t /\ y.previous = register
        /\ y.step = "none"
        /\ \/ /\ y.at = "undo"
              /\ UNCHANGED state
           \/ /\ state[o] \notin {"compensating", "cancelling"}
              /\ state' = [state EXCEPT ![o] = "executing"]
              /\ y.at \in {"check", "before"}
              /\ y.phase # "drain_previous"
  <2>1. CASE state[o] \in {"compensating", "cancelling"}
    <3> DEFINE c == state[o] = "cancelling"
               y == [r EXCEPT !.at = "undo", !.cancel = c]
    <3>1. worker' = [worker EXCEPT ![u] = y] /\ UNCHANGED state
      BY <1>5, <2>1 DEF Run
    <3>2. /\ y.op = r.op /\ y.token = r.token /\ y.previous = r.previous
          /\ y.at = "undo" /\ y.step = r.step
      BY <1>4 DEF WorkerRecord
    <3> QED
      BY <1>4, <3>1, <3>2
  <2>2. CASE state[o] \notin {"compensating", "cancelling"}
    <3>1. PICK done \in SUBSET PhaseNames : done = completed[o]
      BY <1>1 DEF DurableTypeOK
    <3>2. Past(1, done)
      BY SMT DEF Past
    <3>3. Ahead(Forward(r, 1, done), r, done)
      BY SMT, <1>4, <3>2, ForwardGoes
    <3>4. /\ Forward(r, 1, done).at \in {"check", "before"}
          /\ Forward(r, 1, done).phase # "drain_previous"
      BY SMT, <1>4, ForwardStops
    <3>5. /\ worker' = [worker EXCEPT ![u] = Forward(r, 1, done)]
          /\ state' = [state EXCEPT ![o] = "executing"]
      BY <1>5, <2>2, <3>1 DEF Run
    <3> QED
      BY <1>4, <2>2, <3>3, <3>4, <3>5 DEF Ahead
  <2> QED
    BY <2>1, <2>2
<1>7. /\ worker'[u] = y
      /\ \A v \in Workers : v # u => worker'[v] = worker[v]
  BY <1>1, <1>6
<1>8. Latest(u)'
  BY <1>3, <1>6, <1>7 DEF Latest, Busy
<1>9. ASSUME NEW v \in Workers, v # u
      PROVE  ~Latest(v)'
  BY ZenonT(60), <1>8, <1>9 DEF Latest, FenceInv, PairOK
<1>10. /\ \A q \in Operations : q # o => state'[q] = state[q]
       /\ state'[o] \notin TerminalStates /\ state[o] \notin TerminalStates
       /\ state'[o] \in Advancing => state[o] \in Advancing
  <2>1. state[o] \in {"accepted", "executing", "compensating", "cancelling"}
    BY ZenonT(60), <1>1, <1>2 DEF DurableTypeOK, Open
  <2> QED
    BY SMT, <1>1, <1>2, <1>6, <2>1
       DEF DurableTypeOK, Open, Advancing, TerminalStates
<1>11. Others(u)
  <2>1. record'.token >= record.token
    BY SMT, <1>1, <1>2 DEF DurableTypeOK
  <2>2. \A q \in Operations : state[q] = "succeeded" => state'[q] = "succeeded"
    BY <1>10 DEF TerminalStates
  <2> QED
    BY SMT, <1>2, <1>7, <1>9, <2>1, <2>2 DEF Others
<1>12. lock' # u
  BY ZenonT(60), <1>2, ComposeAssumption DEF FenceInv, LockOK
<1>13. Clean' => UnderwayOK'
  <2> SUFFICES ASSUME Clean' PROVE UnderwayOK'
    OBVIOUS
  <2>1. Underway' = Underway
    BY <1>2, <1>10 DEF Underway, Open
  <2>2. UnderwayOK
    <3>1. Clean
      BY <1>10 DEF Clean, TerminalStates
    <3> QED
      BY <3>1 DEF ServeInv
  <2>3. \A q \in Operations : state'[q] \in Advancing => state[q] \in Advancing
    BY <1>10
  <2>4. /\ Settled' = Settled /\ (\A z : Serving(z)' = Serving(z))
        /\ \A q : Calm(q)' = Calm(q)
    BY <1>2 DEF Settled, Serving, Calm
  <2>5. Underway \subseteq Operations
    BY DEF Underway
  <2>6. Serving(register)' = Serving(register)
    BY <1>2 DEF Serving
  <2> QED
    BY SMT, <1>2, <2>1, <2>2, <2>3, <2>4, <2>5, <2>6 DEF UnderwayOK
<1>14. CallOK(u)' /\ ~Verified(u)' /\ ~Restored(u)' /\ ~Deactivated(u)'
  BY <1>6, <1>7 DEF CallOK, Verified, Restored, Deactivated, Ended
<1>15. PreviousOK(u)'
  BY ZenonT(60), <1>2, <1>6, <1>7 DEF PreviousOK, FenceInv, RevisionsOK
<1>16. Own(u)'
  BY <1>12, <1>13, <1>14, <1>15 DEF Own, EndedOK
<1> QED
  BY SMT, <1>11, <1>16, OthersServe

-----------------------------------------------------------------------------
(* A worker enters the runtime fence: nothing has happened inside yet.     *)
LEMMA EnterFenceServes ==
  ASSUME FenceInv, FenceInv', ServeInv, NEW u \in Workers,
         EnterRuntimeFence(u)
  PROVE  ServeInv'
<1>1. /\ worker \in [Workers -> WorkerRecord]
      /\ record.token \in Nat /\ worker[u].token \in Nat
  BY DEF FenceInv, DurableTypeOK, WorkerRecord
<1>2. worker[u].step = "wait"
  BY DEF EnterRuntimeFence, EntersFence
<1>3. Busy(u)
  BY ZenonT(60), <1>2 DEF FenceInv
<1>4. CallOf(u) \in BackendCalls
  BY ZenonT(60), <1>2, <1>3 DEF FenceInv, PlaceOK
<1>5. UNCHANGED <<holder, state, started, completed, register, roots, running,
                  active, caddy, cron>>
  BY DEF EnterRuntimeFence, EntersFence, journalVars, runtimeVars
<1>6. CASE EnterFence(u, worker[u].op, Token(u))
           /\ worker' = [worker EXCEPT ![u].step = FirstStep[CallOf(u)]]
  <2>1. PICK s \in Inside : s = FirstStep[CallOf(u)]
    <3>1. PICK c \in BackendCalls : c = CallOf(u)
      BY <1>4
    <3> QED
      BY <3>1, FirstStepInside
  <2>2. /\ worker' = [worker EXCEPT ![u].step = s]
        /\ lock' = u
        /\ record' = [op |-> worker[u].op, token |-> worker[u].token]
        /\ worker[u].token >= record.token
    BY <1>6, <2>1 DEF EnterFence, Authorized, Token
  <2>3. Becomes(u, worker[u].at, worker[u].phase, s) /\ CallOf(u)' = CallOf(u)
    BY <1>1, <2>1, <2>2, StepBecomes
  <2>4. worker'[u].failed = worker[u].failed
    BY <1>1, <2>2 DEF WorkerRecord
  <2>5. s \notin {"returned", "none", "wait", "begin"}
    BY DEF Inside
  <2>6. Others(u)
    <3>1. \A v \in Workers : v # u /\ Latest(v)' => Latest(v)
      BY <1>5, <2>3 DEF Latest, Busy, Becomes
    <3> QED
      BY <1>5, <2>2, <2>3, <3>1 DEF Others, Becomes
  <2>7. Progress(u)'
    <3>1. /\ CallOf(u) \in {"switch_traffic", "deactivate"} => s = "compare"
          /\ CallOf(u) = "restore" => s = "stop"
      BY SMTT(60), <2>1 DEF FirstStep
    <3> QED
      BY <2>3, <3>1 DEF Progress, Becomes
  <2>8. Underway' = Underway /\ (Clean' => UnderwayOK')
    BY <1>5, UnderwaySame
  <2>9. CallOK(u)'
    BY <1>3, <1>5, <2>3 DEF ServeInv, CallsOK, CallOK, Becomes
  <2>10. PreviousOK(u)'
    BY <1>3, <1>5, <2>3 DEF ServeInv, PreviousOK, Becomes
  <2>11. Latest(u)' => Latest(u)
    BY <1>5, <2>3 DEF Latest, Busy, Becomes
  <2>12. Latest(u)' /\ Verified(u)' => VerifiedOK(u)'
    <3>1. Verified(u)' => Verified(u)
      BY <2>3 DEF Verified, Becomes
    <3>2. VerifiedOK(u)' = VerifiedOK(u)
      BY <1>5, <2>3, <2>8 DEF VerifiedOK, Candidate, Becomes
    <3> QED
      BY <2>11, <3>1, <3>2 DEF ServeInv
  <2>13. Latest(u)' => EndedOK(u)'
    <3>1. Restored(u)' => Restored(u)
      BY <1>5, <2>3, <2>4, <2>5 DEF Restored, Ended, Becomes
    <3>2. Deactivated(u)' => Deactivated(u)
      BY <1>5, <2>3, <2>4, <2>5 DEF Deactivated, Ended, Becomes
    <3>3. Entered(u)'
      BY SMT, <1>1, <2>2, <2>3 DEF Entered, Becomes
    <3>4. Settled' = Settled /\ Serving(NoRevision)' = Serving(NoRevision)
      BY <1>5 DEF Settled, Serving
    <3> QED
      BY <2>11, <3>1, <3>2, <3>3, <3>4 DEF ServeInv, EndedOK
  <2>14. Own(u)'
    BY <2>7, <2>8, <2>9, <2>10, <2>12, <2>13 DEF Own
  <2> QED
    BY <2>6, <2>14, OthersServe
<1>7. CASE RejectedByFence(worker[u].op, Token(u))
           /\ worker' = [worker EXCEPT ![u].step = "raised"]
  <2>1. UNCHANGED <<invVars, running, caddy, cron>>
    BY <1>5, <1>7 DEF RejectedByFence, runtimeFenceVars, invVars
  <2> QED
    BY <1>3, <1>7, <2>1, StepServes DEF Outside
<1> QED
  BY <1>6, <1>7 DEF EnterRuntimeFence, EntersFence

(* What a command of worker w inside the fence does to the pointers and to *)
(* what runs, as far as the others depend on it.                           *)
Switches(w) ==
  LET p == worker[w].previous
      c == Candidate(w)
  IN  \/ active = p /\ active' = p
      \/ /\ active = c /\ active' = c
         /\ caddy' \in {caddy, c}
         /\ cron'.revision \in {cron.revision, Scheduled(c)}
      \/ active = p /\ active' = c /\ Serving(c)'

(* What a command inside the runtime fence may do to the runtime, call by  *)
(* call.                                                                   *)
Effects(w) ==
  LET p == worker[w].previous
      c == Candidate(w)
  IN  /\ RuntimeTypeOK'
      /\ lock' = w => Progress(w)'
      /\ \/ UNCHANGED <<active, caddy, cron>>
         \/ CallOf(w) \in {"restore", "deactivate"}
         \/ CallOf(w) = "switch_traffic" /\ Switches(w)
      /\ CallOf(w) = "drain_previous" =>
           running' \in {running, [running EXCEPT ![p] = {}]}
      /\ CallOf(w) = "remove" =>
           /\ running' \in {running, [running EXCEPT ![c] = {}]}
           /\ UNCHANGED <<active, caddy, cron>>
      /\ CallOf(w) = "restore" /\ worker'[w].step = "returned" =>
           Serving(p)' /\ running'[p] = Services
      /\ CallOf(w) = "deactivate" /\ worker'[w].step = "returned" =>
           Serving(NoRevision)'

(* The worker inside the fence acts for an operation that is underway, and *)
(* its predecessor is not the candidate of one that is.                    *)
LEMMA InsideFacts ==
  ASSUME FenceInv, ServeInv, NEW w \in Workers, lock = w
  PROVE  /\ Busy(w) /\ CallOK(w) /\ PlaceOK(w) /\ PreviousOK(w)
         /\ Reaches(w) /\ ReachOK(w)
         /\ worker[w].op \in Underway
         /\ CallOf(w) \in BackendCalls
         /\ \A o \in Operations : Open(o) => worker[w].previous # RevisionOf[o]
<1>1. w # NoWorker
  BY ZenonT(60), ComposeAssumption
<1>2. /\ Busy(w) /\ worker[w].step \in Inside
      /\ record.token = worker[w].token /\ worker[w].token \in Nat
  <2>1. LockOK /\ worker \in [Workers -> WorkerRecord]
    BY DEF FenceInv, DurableTypeOK
  <2> QED
    BY SMT, <1>1, <2>1 DEF LockOK, WorkerRecord
<1>3. CallOK(w) /\ PlaceOK(w) /\ PreviousOK(w)
  BY ZenonT(60), <1>2 DEF FenceInv, ServeInv, CallsOK
<1>4. Reaches(w) /\ ReachOK(w)
  <2>1. Reaches(w)
    BY SMT, <1>2 DEF Reaches
  <2> QED
    BY <2>1 DEF FenceInv
<1>5. worker[w].op \in Underway
  BY <1>4, ReachesPlace DEF Underway, ReachOK
<1>6. CallOf(w) \in BackendCalls
  BY <1>2, <1>3 DEF PlaceOK
<1>7. \A o \in Operations : Open(o) => worker[w].previous # RevisionOf[o]
  BY <1>3 DEF PreviousOK, Open, TerminalStates
<1> QED
  BY <1>2, <1>3, <1>4, <1>5, <1>6, <1>7

(* With an operation underway that moves no pointer, none is moved.        *)
LEMMA CalmKeepsPointers ==
  ASSUME FenceInv, ServeInv, NEW w \in Workers, lock = w, Effects(w),
         Calm(worker[w].op)
  PROVE  UNCHANGED <<active, caddy, cron>>
<1>1. /\ Busy(w) /\ CallOK(w) /\ PlaceOK(w)
      /\ worker \in [Workers -> WorkerRecord]
  BY ZenonT(60), InsideFacts DEF FenceInv, DurableTypeOK
<1>2. worker[w].previous = NoRevision
  <2>1. RevisionsOK
    BY DEF FenceInv
  <2> QED
    BY <1>1, <2>1 DEF RevisionsOK, Calm
<1>3. worker[w].phase \in PhaseNames \cup {"none"}
  BY ZenonT(60), <1>1 DEF WorkerRecord
<1>4. CallOf(w) \notin {"restore", "deactivate"}
  BY SMT, <1>1, <1>2, <1>3, PhaseFacts DEF CallOf, CallOK, Calm
<1>5. CallOf(w) # "switch_traffic"
  BY <1>1, PhaseFacts DEF CallOf, PlaceOK, Calm, WorkerRecord, Forwards, Acting
<1> QED
  BY <1>4, <1>5 DEF Effects

(* No command inside the fence upsets what is underway.                    *)
LEMMA ActsUnderway ==
  ASSUME FenceInv, ServeInv, NEW w \in Workers, Acts(w), Effects(w)
  PROVE  Underway' = Underway /\ (Clean' => UnderwayOK')
<1>1. lock = w /\ UNCHANGED <<state, started, register>>
  BY DEF Acts, journalVars
<1>2. Underway' = Underway /\ Clean' = Clean
  BY <1>1 DEF Underway, Open, Clean
<1> SUFFICES ASSUME Clean PROVE UnderwayOK'
  BY <1>2
<1>3. UnderwayOK
  BY DEF ServeInv
<1>4. PICK o \in Underway : o = worker[w].op
  BY <1>1, InsideFacts
<1>5. o \in Operations /\ Open(o)
  BY <1>4 DEF Underway
<1>6. \A x : Calm(x)' = Calm(x)
  BY <1>1 DEF Calm
<1>7. (\A x \in Underway' : Calm(x)') => Serving(register)'
  <2> SUFFICES ASSUME \A x \in Underway : Calm(x) PROVE Serving(register)'
    BY <1>2, <1>6
  <2>1. Serving(register)
    BY <1>3 DEF UnderwayOK
  <2>2. UNCHANGED <<active, caddy, cron>>
    BY <1>1, <1>4, CalmKeepsPointers
  <2> QED
    BY <1>1, <2>1, <2>2 DEF Serving
<1>8. ASSUME NEW q \in Underway, state[q] \in Advancing,
             \A x \in Underway \ {q} : Calm(x)
      PROVE  /\ active' \in {register, RevisionOf[q]}
             /\ active' = RevisionOf[q] => Serving(RevisionOf[q])'
  <2>1. /\ active \in {register, RevisionOf[q]}
        /\ active = RevisionOf[q] => Serving(RevisionOf[q])
    BY <1>3, <1>8 DEF UnderwayOK
  <2>2. CASE UNCHANGED <<active, caddy, cron>>
    BY <2>1, <2>2 DEF Serving
  <2>3. CASE ~UNCHANGED <<active, caddy, cron>>
    <3>1. q = o
      BY SMTT(60), <1>1, <1>4, <1>8, <2>3, CalmKeepsPointers
    <3>2. /\ PlaceOK(w) /\ worker[w].previous # RevisionOf[o]
          /\ worker[w].phase \in PhaseNames \cup {"none"}
      <4>1. worker \in [Workers -> WorkerRecord]
        BY DEF FenceInv, DurableTypeOK
      <4> QED
        BY SMT, <1>1, <1>5, <4>1, InsideFacts DEF WorkerRecord
    <3>3. CallOf(w) \notin {"restore", "deactivate"}
      BY ZenonT(60), <1>4, <1>8, <3>1, <3>2, PhaseFacts
         DEF CallOf, PlaceOK, Acting, Advancing
    <3>4. Switches(w) /\ Candidate(w) = RevisionOf[o]
      BY <1>4, <2>3, <3>3 DEF Effects, Candidate
    <3> QED
      BY ZenonT(60), <2>1, <3>1, <3>2, <3>4 DEF Switches, Serving
  <2> QED
    BY <2>2, <2>3
<1>9. Underway # {}
  BY <1>4
<1> QED
  BY SMT, <1>1, <1>2, <1>6, <1>7, <1>8, <1>9 DEF UnderwayOK

(* Verified traffic stays verified for the newest worker, although a stale *)
(* one may still be inside the fence.                                      *)
LEMMA ActsVerified ==
  ASSUME FenceInv, ServeInv, NEW w \in Workers, Acts(w), Effects(w),
         NEW v \in Workers, Latest(v), Verified(v)
  PROVE  /\ \/ active' = Candidate(v)
            \/ \E x \in Underway \ {worker[v].op} : state[x] \notin Advancing
         /\ Underway = {worker[v].op} => running'[Candidate(v)] = Services
<1>1. lock = w /\ VerifiedOK(v) /\ LatestOK(v) /\ PlaceOK(v) /\ Busy(v)
  BY DEF Acts, ServeInv, FenceInv, Latest
<1>2. PICK o \in Operations, q \in Underway :
        o = worker[v].op /\ q = worker[w].op
  BY <1>1, InsideFacts DEF FenceInv, TokenOK
<1>3. /\ Candidate(v) = RevisionOf[o] /\ Candidate(w) = RevisionOf[q]
      /\ q \in Operations /\ RevisionOf[o] \in Revisions
  BY <1>2, ComposeAssumption DEF Candidate, Underway
<1>4. state[o] = "executing" /\ Open(o)
  BY <1>1, <1>2 DEF LatestOK, Verified, Forwards, Open, TerminalStates
<1>5. /\ PlaceOK(w) /\ CallOK(w) /\ ReachOK(w) /\ CallOf(w) \in BackendCalls
      /\ worker[w].previous # RevisionOf[o]
      /\ worker[w].phase \in PhaseNames \cup {"none"}
      /\ running \in [Revisions -> SUBSET Services]
  BY ZenonT(60), <1>1, <1>4, InsideFacts
     DEF FenceInv, DurableTypeOK, WorkerRecord, ServeInv, RuntimeTypeOK
<1>6. CASE q = o
  <2>1. {"start_candidate", "switch_traffic"} \subseteq completed[o]
    <3>1. CASE worker[v].at \in {"checkpoint", "commit"}
      BY <1>1, <1>2, <3>1, PhaseFacts DEF PlaceOK
    <3>2. CASE worker[v].at \in {"before", "call"}
               /\ worker[v].phase = "drain_previous"
      <4>1. PICK k \in 1..7 : Phases[k] = "drain_previous" /\ Behind(o, k)
        BY <1>1, <1>2, <3>2, PhaseFacts DEF PlaceOK
      <4>2. k = 7
        BY SMT, <4>1, PhaseFacts
      <4> QED
        BY SMTT(60), <4>1, <4>2, PhaseFacts DEF Behind
    <3> QED
      BY <3>1, <3>2 DEF Verified
  <2>2. worker[w].at \notin Acting
    BY <1>2, <1>4, <1>5, <1>6 DEF PlaceOK
  <2>3. worker[w].at = "call" /\ CallOf(w) = worker[w].phase
    <3>1. worker[w] \in WorkerRecord
      BY DEF FenceInv, DurableTypeOK
    <3> QED
      BY <1>5, <2>2, <3>1, CallFacts DEF CallOf, Acting, WorkerRecord, Forwards
  <2>4. CallOf(w) = "drain_previous"
    <3>1. worker[w].phase \notin completed[o]
      BY <1>2, <1>5, <1>6, <2>3 DEF ReachOK
    <3> QED
      BY <1>5, <2>1, <2>3, <3>1, CallFacts, PhaseFacts
  <2>5. /\ UNCHANGED <<active, caddy, cron>>
        /\ running' \in {running,
                         [running EXCEPT ![worker[w].previous] = {}]}
    BY <2>4 DEF Effects
  <2>6. running'[RevisionOf[o]] = running[RevisionOf[o]]
    BY <1>3, <1>5, <2>5
  <2> QED
    BY ZenonT(60), <1>1, <1>3, <2>5, <2>6 DEF VerifiedOK
<1>7. CASE q # o
  <2>1. Underway # {o} /\ q \in Underway \ {o}
    BY <1>2, <1>7
  <2>2. CASE UNCHANGED <<active, caddy, cron>>
    BY <1>1, <1>2, <2>1, <2>2 DEF VerifiedOK
  <2>3. CASE CallOf(w) \in {"restore", "deactivate"}
    <3>1. state[q] \notin Advancing
      BY <1>2, <1>5, <2>3, PhaseFacts DEF CallOf, PlaceOK, Acting, Advancing
    <3> QED
      BY <1>2, <2>1, <3>1
  <2>4. CASE Switches(w)
    <3>1. CASE active = RevisionOf[o]
      <4>1. RevisionOf[q] # RevisionOf[o]
        BY <1>3, <1>7, ComposeAssumption
      <4> QED
        BY <1>2, <1>3, <1>5, <2>1, <2>4, <3>1, <4>1 DEF Switches
    <3>2. CASE active # RevisionOf[o]
      BY <1>1, <1>2, <1>3, <2>1, <3>2 DEF VerifiedOK
    <3> QED
      BY <3>1, <3>2
  <2> QED
    BY <2>2, <2>3, <2>4 DEF Effects
<1> QED
  BY <1>6, <1>7

(* What the newest worker has undone stays undone: it has entered the      *)
(* fence, so nobody older is inside.                                       *)
LEMMA ActsEnded ==
  ASSUME FenceInv, FenceInv', ServeInv, NEW w \in Workers, Acts(w), Effects(w),
         NEW v \in Workers, Latest(v)'
  PROVE  EndedOK(v)'
<1>1. /\ lock = w /\ UNCHANGED <<holder, record, state, started, register>>
      /\ worker \in [Workers -> WorkerRecord]
  BY DEF Acts, journalVars, FenceInv, DurableTypeOK
<1>2. PICK s \in Inside \cup {"returned", "raised"} :
        worker' = [worker EXCEPT ![w].step = s]
  BY DEF Acts
<1>3. /\ Becomes(w, worker[w].at, worker[w].phase, s)
      /\ worker'[w].failed = worker[w].failed
  <2>1. s \in Outside \cup Inside
    BY DEF Outside
  <2> QED
    BY <1>1, <1>2, <2>1, StepBecomes DEF WorkerRecord
<1>4. Latest(v)
  BY <1>1, <1>3 DEF Latest, Busy, Becomes
<1>5. EndedOK(v) /\ LatestOK(v)
  BY <1>4 DEF ServeInv, FenceInv
<1>6. CASE v # w
  <2>1. ~Entered(v)
    <3>1. Reaches(w) /\ Busy(w)
      BY <1>1, InsideFacts
    <3> QED
      BY <1>4, <1>6, <3>1, OlderWorkers
  <2>2. worker'[v] = worker[v]
    BY <1>3, <1>6 DEF Becomes
  <2>3. ~Restored(v)' /\ ~Deactivated(v)'
    BY <1>1, <1>5, <2>1, <2>2 DEF EndedOK, Restored, Deactivated, Ended
  <2> QED
    BY <2>3 DEF EndedOK
<1>7. CASE v = w
  <2>1. /\ Busy(w) /\ CallOK(w) /\ PlaceOK(w) /\ worker[w].op \in Underway
        /\ CallOf(w) \in BackendCalls /\ Reaches(w)
    BY <1>1, InsideFacts
  <2>2. Entered(w) /\ Entered(w)'
    <3>1. LockOK /\ w # NoWorker
      BY ComposeAssumption DEF FenceInv
    <3>2. record.token = worker[w].token /\ worker[w].token \in Nat
      BY SMT, <1>1, <3>1 DEF LockOK, WorkerRecord
    <3> QED
      BY SMT, <1>1, <1>3, <3>2 DEF Entered, Becomes
  <2>3. worker[w].at \in Acting \cup {"call"}
    BY <1>1, <2>1, CallFacts DEF CallOf, Acting, WorkerRecord, Forwards
  <2>4. CASE worker[w].at = "call"
    BY <1>3, <1>7, <2>4 DEF EndedOK, Restored, Deactivated, Ended, Becomes
  <2>5. CASE worker[w].at = "restore"
    <3>1. CallOf(w) = "restore" /\ worker[w].previous = register
          /\ worker[w].previous # NoRevision
      BY <1>5, <1>7, <2>1, <2>5 DEF CallOf, LatestOK, CallOK
    <3>2. worker'[w].step = "returned" => Settled'
      BY <1>1, <1>3, <3>1 DEF Effects, Settled, Serving, Becomes
    <3> QED
      BY <1>3, <1>7, <2>2, <2>5, <3>1, <3>2
         DEF EndedOK, Restored, Deactivated, Ended, Becomes
  <2>6. CASE worker[w].at = "deactivate"
    <3>1. CallOf(w) = "deactivate" /\ worker[w].previous = NoRevision
      BY <2>1, <2>6 DEF CallOf, CallOK
    <3>2. worker'[w].step = "returned" => Serving(NoRevision)'
      BY <3>1 DEF Effects
    <3> QED
      BY <1>3, <1>7, <2>2, <2>6, <3>1, <3>2
         DEF EndedOK, Restored, Deactivated, Ended, Becomes
  <2>7. CASE worker[w].at = "remove"
    <3>1. /\ CallOf(w) = "remove"
          /\ UNCHANGED <<active, caddy, cron>>
          /\ running' \in {running, [running EXCEPT ![Candidate(w)] = {}]}
      BY <2>7 DEF CallOf, Effects
    <3>2. register # Candidate(w)
      BY <2>1, OpenIsNotActive DEF Candidate, Underway
    <3>3. Settled => Settled'
      <4>1. register \in Revisions \cup {NoRevision}
            /\ running \in [Revisions -> SUBSET Services]
        BY DEF FenceInv, DurableTypeOK, ServeInv, RuntimeTypeOK
      <4> QED
        BY <1>1, <3>1, <3>2, <4>1 DEF Settled, Serving
    <3>4. Serving(NoRevision) => Serving(NoRevision)'
      BY <3>1 DEF Serving
    <3>5. Restored(w)' => Restored(w)
      BY <1>1, <1>3, <2>7 DEF Restored, Ended, Becomes
    <3>6. Deactivated(w)' => Deactivated(w)
      BY <1>1, <1>3, <2>7 DEF Deactivated, Ended, Becomes
    <3> QED
      BY <1>5, <1>7, <2>2, <3>3, <3>4, <3>5, <3>6 DEF EndedOK
  <2> QED
    BY <2>3, <2>4, <2>5, <2>6, <2>7 DEF Acting
<1> QED
  BY <1>6, <1>7

(* A command with such an effect preserves the invariant.                  *)
LEMMA ActsServes ==
  ASSUME FenceInv, FenceInv', ServeInv, NEW w \in Workers, Acts(w), Effects(w)
  PROVE  ServeInv'
<1>1. /\ lock = w /\ UNCHANGED <<holder, record, state, started, register>>
      /\ worker \in [Workers -> WorkerRecord]
  BY DEF Acts, journalVars, FenceInv, DurableTypeOK
<1>2. PICK s \in Inside \cup {"returned", "raised"} :
        worker' = [worker EXCEPT ![w].step = s]
  BY DEF Acts
<1>3. Becomes(w, worker[w].at, worker[w].phase, s)
  <2>1. s \in Outside \cup Inside
    BY DEF Outside
  <2> QED
    BY <1>1, <1>2, <2>1, StepBecomes
<1>4. ASSUME NEW v \in Workers
      PROVE  /\ worker'[v].at = worker[v].at
             /\ worker'[v].phase = worker[v].phase
             /\ worker'[v].op = worker[v].op
             /\ worker'[v].token = worker[v].token
             /\ worker'[v].previous = worker[v].previous
  BY <1>3 DEF Becomes
<1>5. RuntimeTypeOK'
  BY ZenonT(60) DEF Effects
<1>6. CallsOK'
  <2>1. CallsOK
    BY DEF ServeInv
  <2> QED
    BY SMT, <1>1, <1>4, <2>1 DEF CallsOK, CallOK, Busy
<1>7. lock' # NoWorker => Progress(lock)'
  <2>1. lock' \in {NoWorker, w}
    BY DEF Acts
  <2> QED
    BY <2>1 DEF Effects, Progress, CallOf, Candidate
<1>8. ASSUME NEW v \in Workers, Busy(v)'
      PROVE  PreviousOK(v)'
  BY <1>1, <1>4, <1>8 DEF ServeInv, PreviousOK, Busy
<1>9. Underway' = Underway /\ (Clean' => UnderwayOK')
  BY ActsUnderway
<1>10. ASSUME NEW v \in Workers, Latest(v)', Verified(v)'
       PROVE  VerifiedOK(v)'
  <2>1. Latest(v) /\ Verified(v) /\ Candidate(v)' = Candidate(v)
    BY <1>1, <1>4, <1>10 DEF Latest, Busy, Verified, Candidate
  <2>2. /\ \/ active' = Candidate(v)
           \/ \E x \in Underway \ {worker[v].op} : state[x] \notin Advancing
        /\ Underway = {worker[v].op} => running'[Candidate(v)] = Services
    BY <2>1, ActsVerified
  <2> QED
    BY <1>1, <1>4, <1>9, <2>1, <2>2 DEF VerifiedOK
<1>11. ASSUME NEW v \in Workers, Latest(v)'
       PROVE  EndedOK(v)'
  BY <1>11, ActsEnded
<1> QED
  BY SMT, <1>5, <1>6, <1>7, <1>8, <1>9, <1>10, <1>11 DEF ServeInv

-----------------------------------------------------------------------------
(* The commands inside the fence, one by one.                              *)
LEMMA ScheduleFacts ==
  ASSUME NEW r, NEW t
  PROVE  Schedules(r, t).revision = Scheduled(r)
BY DEF Schedules, Scheduled, NoCron

(* A command that moves no pointer.                                        *)
LEMMA StillEffects ==
  ASSUME FenceInv, ServeInv, NEW w \in Workers, lock = w,
         NEW s \in Inside \cup {"returned", "raised"},
         worker' = [worker EXCEPT ![w].step = s],
         lock' = w => Progress(w)',
         UNCHANGED <<active, caddy, cron>>,
         running' \in [Revisions -> SUBSET Services],
         CallOf(w) = "drain_previous" =>
           running' \in {running, [running EXCEPT ![worker[w].previous] = {}]},
         CallOf(w) = "remove" =>
           running' \in {running, [running EXCEPT ![Candidate(w)] = {}]},
         s = "returned" => CallOf(w) \notin {"restore", "deactivate"}
  PROVE  Effects(w)
<1>1. worker \in [Workers -> WorkerRecord]
  BY DEF FenceInv, DurableTypeOK
<1>2. worker'[w].step = s
  BY SMT, <1>1 DEF WorkerRecord
<1>3. RuntimeTypeOK'
  BY DEF ServeInv, RuntimeTypeOK
<1> QED
  BY <1>2, <1>3 DEF Effects

(* The steps of a start, of a removal and of a drain, and those that raise.*)
LEMMA LocalEffects ==
  ASSUME FenceInv, ServeInv, NEW w \in Workers,
         \/ CommandFails(w) \/ Materialize(w) \/ MigrationDone(w)
         \/ RunMigration(w) \/ MarkMigration(w) \/ MigrationFailed(w)
         \/ StopReplaced(w) \/ StartCandidate(w) \/ RefuseDeactivate(w)
         \/ DrainDown(w) \/ RemoveDown(w) \/ RemoveDelete(w)
  PROVE  Effects(w)
<1>1. /\ worker \in [Workers -> WorkerRecord] /\ w # NoWorker
      /\ running \in [Revisions -> SUBSET Services]
  BY ComposeAssumption DEF FenceInv, DurableTypeOK, ServeInv, RuntimeTypeOK
<1>2. CASE CommandFails(w) \/ MigrationFailed(w) \/ RefuseDeactivate(w)
  <2>1. /\ lock = w /\ lock' = NoWorker
        /\ worker' = [worker EXCEPT ![w].step = "raised"]
        /\ UNCHANGED <<running, active, caddy, cron>>
    BY <1>2 DEF CommandFails, MigrationFailed, RefuseDeactivate, Raises,
       LeaveFence, runtimeVars
  <2> QED
    BY <1>1, <2>1, StillEffects
<1>3. CASE ~(CommandFails(w) \/ MigrationFailed(w) \/ RefuseDeactivate(w))
  <2>1. /\ lock = w /\ CallOf(w) \in {"start_candidate", "drain_previous",
                                      "remove"}
        /\ UNCHANGED <<active, caddy, cron>>
        /\ \E s \in Inside \cup {"returned", "raised"} :
             worker' = [worker EXCEPT ![w].step = s]
    BY <1>3 DEF Materialize, MigrationDone, RunMigration, MarkMigration,
       StopReplaced, StartCandidate, DrainDown, RemoveDown, RemoveDelete,
       Mutates, runtimeVars, Inside
  <2>2. PICK s \in Inside \cup {"returned", "raised"} :
          worker' = [worker EXCEPT ![w].step = s]
    BY <2>1
  <2>3. Progress(w)'
    <3>1. CallOf(w)' = CallOf(w)
      <4>1. s \in Outside \cup Inside
        BY DEF Outside
      <4> QED
        BY <1>1, <2>2, <4>1, StepBecomes
    <3> QED
      BY <2>1, <3>1 DEF Progress
  <2>4. CandidateServices \subseteq Services
    BY DEF CandidateServices, Services
  <2>5. running' \in [Revisions -> SUBSET Services]
    BY <1>1, <1>3, <2>4 DEF Materialize, MigrationDone, RunMigration,
       MarkMigration, StopReplaced, StartCandidate, DrainDown, RemoveDown,
       RemoveDelete, runtimeVars
  <2>6. /\ CallOf(w) = "drain_previous" =>
             running' = [running EXCEPT ![worker[w].previous] = {}]
        /\ CallOf(w) = "remove" =>
             running' \in {running, [running EXCEPT ![Candidate(w)] = {}]}
    BY <1>3 DEF Materialize, MigrationDone, RunMigration,
       MarkMigration, StopReplaced, StartCandidate, DrainDown, RemoveDown,
       RemoveDelete, Mutates
  <2> QED
    BY <2>1, <2>2, <2>3, <2>5, <2>6, StillEffects
<1> QED
  BY <1>2, <1>3

(* The traffic switch.                                                     *)
LEMMA SwitchEffects ==
  ASSUME FenceInv, ServeInv, NEW w \in Workers,
         \/ CompareActive(w) \/ StopPrevious(w) \/ StartDeferred(w)
         \/ RegisterCron(w) \/ SwitchCaddy(w) \/ PointActive(w)
  PROVE  Effects(w)
<1>1. /\ worker \in [Workers -> WorkerRecord] /\ w # NoWorker
      /\ RuntimeTypeOK /\ lock = w /\ Progress(w)
  <2>1. lock = w
    BY DEF CompareActive, StopPrevious, StartDeferred, RegisterCron,
       SwitchCaddy, PointActive, Mutates
  <2> QED
    BY <2>1, ComposeAssumption
       DEF FenceInv, DurableTypeOK, ServeInv
<1>2. /\ CallOf(w) = "switch_traffic"
      /\ Candidate(w) \in Revisions /\ Candidate(w) # NoRevision
      /\ Candidate(w) # worker[w].previous
  <2>1. CallOf(w) = "switch_traffic"
    BY DEF CompareActive, StopPrevious, StartDeferred, RegisterCron,
       SwitchCaddy, PointActive, Mutates
  <2>2. worker[w].op \in Underway
        /\ \A o \in Operations : Open(o) => worker[w].previous # RevisionOf[o]
    BY <1>1, InsideFacts
  <2> QED
    BY <2>1, <2>2, ComposeAssumption DEF Candidate, Underway
<1>3. ASSUME NEW s \in Inside \cup {"returned", "raised"},
             worker' = [worker EXCEPT ![w].step = s]
      PROVE  /\ worker'[w].step = s /\ CallOf(w)' = CallOf(w)
             /\ Candidate(w)' = Candidate(w)
             /\ worker'[w].previous = worker[w].previous
  <2>1. s \in Outside \cup Inside
    BY DEF Outside
  <2> QED
    BY <1>1, <1>3, <2>1, StepBecomes DEF Becomes, Candidate
<1>4. CASE CompareActive(w)
  <2>1. PICK s \in {"refresh_cron", "raised", "stop_previous"} :
          /\ worker' = [worker EXCEPT ![w].step = s]
          /\ s = "refresh_cron" => active = Candidate(w)
          /\ s = "stop_previous" => active = worker[w].previous
    BY <1>4 DEF CompareActive
  <2>2. UNCHANGED <<running, active, caddy, cron>>
    BY <1>4 DEF CompareActive, runtimeVars
  <2>3. s \in Inside \cup {"returned", "raised"} /\ s # "returned"
    BY DEF Inside
  <2>4. Progress(w)'
    BY <1>2, <1>3, <2>1, <2>2, <2>3 DEF Progress
  <2> QED
    BY ZenonT(60), <1>1, <1>2, <2>1, <2>2, <2>3, <2>4, StillEffects DEF RuntimeTypeOK
<1>5. CASE StopPrevious(w) \/ StartDeferred(w)
  <2>1. PICK s \in {"start_deferred", "cron"} :
          worker' = [worker EXCEPT ![w].step = s]
    BY <1>5 DEF StopPrevious, StartDeferred, Mutates
  <2>2. /\ UNCHANGED <<active, caddy, cron>>
        /\ worker[w].step \in {"stop_previous", "start_deferred"}
    BY <1>5 DEF StopPrevious, StartDeferred, Mutates
  <2>3. s \in Inside \cup {"returned", "raised"} /\ s # "returned"
    BY DEF Inside
  <2>4. Progress(w)'
    BY ZenonT(60), <1>1, <1>2, <1>3, <2>1, <2>2, <2>3 DEF Progress
  <2>5. running' \in [Revisions -> SUBSET Services]
    <3>1. /\ running \in [Revisions -> SUBSET Services]
          /\ ActivationServices \subseteq Services
          /\ active \in Revisions \cup {NoRevision}
      BY <1>1 DEF RuntimeTypeOK, ActivationServices
    <3> QED
      BY <1>2, <1>5, <3>1 DEF StopPrevious, StartDeferred
  <2> QED
    BY ZenonT(60), <1>1, <1>2, <2>1, <2>2, <2>3, <2>4, <2>5, StillEffects
<1>6. CASE RegisterCron(w)
  <2>1. PICK s \in {"caddy", "refresh_caddy"} :
          /\ worker' = [worker EXCEPT ![w].step = s]
          /\ s = "caddy" => worker[w].step = "cron"
          /\ s = "refresh_caddy" => worker[w].step = "refresh_cron"
    BY <1>6 DEF RegisterCron, Mutates
  <2>2. UNCHANGED <<running, active, caddy>>
        /\ cron'.revision = Scheduled(Candidate(w))
    BY <1>6, ScheduleFacts DEF RegisterCron, Schedules, Scheduled, NoCron
  <2>3. s \in Inside \cup {"returned", "raised"} /\ s # "returned"
    BY DEF Inside
  <2>4. Progress(w)'
    BY <1>1, <1>2, <1>3, <2>1, <2>2, <2>3 DEF Progress, Scheduled
  <2>5. Switches(w)
    BY <1>1, <1>2, <2>1, <2>2 DEF Switches, Progress
  <2>6. RuntimeTypeOK'
    BY <1>1, <2>2 DEF RuntimeTypeOK
  <2> QED
    BY SMT, <1>2, <1>3, <2>1, <2>3, <2>4, <2>5, <2>6 DEF Effects
<1>7. CASE SwitchCaddy(w)
  <2>1. PICK s \in {"point", "returned"} :
          /\ worker' = [worker EXCEPT ![w].step = s]
          /\ s = "point" => worker[w].step = "caddy"
          /\ s = "returned" => worker[w].step = "refresh_caddy"
    BY <1>7 DEF SwitchCaddy, Mutates
  <2>2. UNCHANGED <<running, active, cron>> /\ caddy' = Candidate(w)
    BY <1>7 DEF SwitchCaddy
  <2>3. s \in Inside \cup {"returned", "raised"}
    BY DEF Inside
  <2>4. Progress(w)'
    BY <1>1, <1>2, <1>3, <2>1, <2>2, <2>3 DEF Progress, Scheduled
  <2>5. Switches(w)
    BY <1>1, <1>2, <2>1, <2>2 DEF Switches, Progress
  <2>6. RuntimeTypeOK'
    BY <1>1, <1>2, <2>2 DEF RuntimeTypeOK
  <2> QED
    BY SMT, <1>2, <1>3, <2>1, <2>3, <2>4, <2>5, <2>6 DEF Effects
<1>8. CASE PointActive(w)
  <2>1. /\ worker' = [worker EXCEPT ![w].step = "returned"]
        /\ worker[w].step = "point" /\ lock' = NoWorker
    BY <1>8 DEF PointActive, Mutates, LeaveFence
  <2>2. UNCHANGED <<running, caddy, cron>> /\ active' = Candidate(w)
    BY <1>8 DEF PointActive
  <2>3. Switches(w)
    BY <1>1, <1>2, <1>3, <2>1, <2>2 DEF Switches, Progress, Serving, Scheduled
  <2>4. RuntimeTypeOK'
    BY <1>1, <1>2, <2>2 DEF RuntimeTypeOK
  <2> QED
    BY <1>1, <1>2, <1>3, <2>1, <2>3, <2>4 DEF Effects
<1> QED
  BY SMT, <1>4, <1>5, <1>6, <1>7, <1>8

(* The two compensations that bring the pointers back.                     *)
LEMMA RestoreEffects ==
  ASSUME FenceInv, ServeInv, NEW w \in Workers,
         \/ RestoreStop(w) \/ RestoreUp(w) \/ RestoreCaddy(w)
         \/ RestoreCron(w) \/ RestorePoint(w)
  PROVE  Effects(w)
<1>1. /\ worker \in [Workers -> WorkerRecord] /\ w # NoWorker
      /\ RuntimeTypeOK /\ lock = w /\ Progress(w)
  <2>1. lock = w
    BY DEF RestoreStop, RestoreUp, RestoreCaddy, RestoreCron, RestorePoint,
       Mutates
  <2> QED
    BY <2>1, ComposeAssumption
       DEF FenceInv, DurableTypeOK, ServeInv
<1>2. /\ CallOf(w) = "restore"
      /\ worker[w].previous \in Revisions
  <2>1. CallOf(w) = "restore"
    BY DEF RestoreStop, RestoreUp, RestoreCaddy, RestoreCron, RestorePoint,
       Mutates
  <2>2. worker[w].phase \in PhaseNames \cup {"none"}
        /\ worker[w].previous \in Revisions \cup {NoRevision}
    BY <1>1 DEF WorkerRecord
  <2>3. worker[w].at = "restore"
    BY <2>1, <2>2, PhaseFacts DEF CallOf
  <2> QED
    BY <1>1, <2>1, <2>2, <2>3, InsideFacts DEF CallOK
<1>3. ASSUME NEW s \in Inside \cup {"returned", "raised"},
             worker' = [worker EXCEPT ![w].step = s]
      PROVE  /\ worker'[w].step = s /\ CallOf(w)' = CallOf(w)
             /\ worker'[w].previous = worker[w].previous
  <2>1. s \in Outside \cup Inside
    BY DEF Outside
  <2> QED
    BY <1>1, <1>3, <2>1, StepBecomes DEF Becomes
<1>4. CASE RestoreStop(w)
  <2>1. /\ worker' = [worker EXCEPT ![w].step = "up"]
        /\ UNCHANGED <<active, caddy, cron>>
    BY <1>4 DEF RestoreStop, Mutates
  <2>2. "up" \in Inside
    BY DEF Inside
  <2>3. Progress(w)'
    BY <1>2, <1>3, <2>1, <2>2 DEF Progress
  <2>4. running' \in [Revisions -> SUBSET Services]
    BY <1>1, <1>4 DEF RestoreStop, RuntimeTypeOK
  <2> QED
    BY ZenonT(60), <1>1, <1>2, <2>1, <2>2, <2>3, <2>4, StillEffects
<1>5. CASE RestoreUp(w)
  <2>1. /\ worker' = [worker EXCEPT ![w].step = "caddy"]
        /\ UNCHANGED <<active, caddy, cron>>
        /\ running' = [running EXCEPT ![worker[w].previous] = Services]
    BY <1>5 DEF RestoreUp, Mutates
  <2>2. "caddy" \in Inside
    BY DEF Inside
  <2>3. /\ running' \in [Revisions -> SUBSET Services]
        /\ running'[worker[w].previous] = Services
    BY <1>1, <1>2, <2>1 DEF RuntimeTypeOK
  <2>4. Progress(w)'
    BY <1>2, <1>3, <2>1, <2>2, <2>3 DEF Progress
  <2> QED
    BY ZenonT(60), <1>1, <1>2, <2>1, <2>2, <2>3, <2>4, StillEffects
<1>6. CASE RestoreCaddy(w)
  <2>1. /\ worker' = [worker EXCEPT ![w].step = "cron"]
        /\ worker[w].step = "caddy" /\ caddy' = worker[w].previous
        /\ UNCHANGED <<running, active, cron>>
    BY <1>6 DEF RestoreCaddy, Mutates
  <2>2. "cron" \in Inside
    BY DEF Inside
  <2>3. Progress(w)'
    BY <1>1, <1>2, <1>3, <2>1, <2>2 DEF Progress
  <2>4. RuntimeTypeOK'
    BY <1>1, <1>2, <2>1 DEF RuntimeTypeOK
  <2> QED
    BY SMT, <1>2, <1>3, <2>1, <2>2, <2>3, <2>4 DEF Effects
<1>7. CASE RestoreCron(w)
  <2>1. /\ worker' = [worker EXCEPT ![w].step = "point"]
        /\ worker[w].step = "cron"
        /\ UNCHANGED <<running, active, caddy>>
        /\ cron'.revision = Scheduled(worker[w].previous)
    BY <1>7 DEF RestoreCron, Mutates, Schedules, Scheduled, NoCron
  <2>2. "point" \in Inside
    BY DEF Inside
  <2>3. Progress(w)'
    BY <1>1, <1>2, <1>3, <2>1, <2>2 DEF Progress, Scheduled
  <2>4. RuntimeTypeOK'
    BY <1>1, <2>1 DEF RuntimeTypeOK
  <2> QED
    BY SMT, <1>2, <1>3, <2>1, <2>2, <2>3, <2>4 DEF Effects
<1>8. CASE RestorePoint(w)
  <2>1. PICK s \in {"returned", "raised"} :
          worker' = [worker EXCEPT ![w].step = s]
    BY <1>8 DEF RestorePoint
  <2>2. /\ worker[w].step = "point" /\ lock' = NoWorker
        /\ active' = worker[w].previous
        /\ UNCHANGED <<running, caddy, cron>>
    BY <1>8 DEF RestorePoint, LeaveFence
  <2>3. Serving(worker[w].previous)'
        /\ running'[worker[w].previous] = Services
    BY <1>1, <1>2, <1>3, <2>1, <2>2 DEF Progress, Serving, Scheduled
  <2>4. RuntimeTypeOK'
    BY <1>1, <1>2, <2>2 DEF RuntimeTypeOK
  <2> QED
    BY <1>1, <1>2, <2>2, <2>3, <2>4 DEF Effects
<1> QED
  BY <1>4, <1>5, <1>6, <1>7, <1>8

(* The commands that take a first deployment out of service have such an   *)
(* effect.                                                                 *)
LEMMA DeactivateEffects ==
  ASSUME FenceInv, ServeInv, NEW w \in Workers,
         \/ DeactivateStop(w) \/ DeactivateCaddy(w)
         \/ DeactivateCron(w) \/ DeactivatePoint(w)
  PROVE  Effects(w)
<1>1. /\ worker \in [Workers -> WorkerRecord] /\ w # NoWorker
      /\ RuntimeTypeOK /\ lock = w /\ Progress(w)
      /\ CallOf(w) = "deactivate"
  <2>1. lock = w /\ CallOf(w) = "deactivate"
    BY DEF DeactivateStop, DeactivateCaddy, DeactivateCron, DeactivatePoint,
       Mutates
  <2> QED
    BY <2>1, ComposeAssumption
       DEF FenceInv, DurableTypeOK, ServeInv
<1>2. ASSUME NEW s \in Inside \cup {"returned", "raised"},
             worker' = [worker EXCEPT ![w].step = s]
      PROVE  worker'[w].step = s /\ CallOf(w)' = CallOf(w)
  <2>1. s \in Outside \cup Inside
    BY DEF Outside
  <2> QED
    BY <1>1, <1>2, <2>1, StepBecomes DEF Becomes
<1>3. CASE DeactivateStop(w)
  <2>1. /\ worker' = [worker EXCEPT ![w].step = "caddy"]
        /\ UNCHANGED <<active, caddy, cron>>
    BY <1>3 DEF DeactivateStop, Mutates
  <2>2. "caddy" \in Inside
    BY DEF Inside
  <2>3. Progress(w)'
    BY <1>1, <1>2, <2>1, <2>2 DEF Progress
  <2>4. running' \in [Revisions -> SUBSET Services]
    BY <1>1, <1>3 DEF DeactivateStop, RuntimeTypeOK
  <2> QED
    BY ZenonT(60), <1>1, <2>1, <2>2, <2>3, <2>4, StillEffects
<1>4. CASE DeactivateCaddy(w)
  <2>1. /\ worker' = [worker EXCEPT ![w].step = "cron"]
        /\ caddy' = NoRevision /\ UNCHANGED <<running, active, cron>>
    BY <1>4 DEF DeactivateCaddy, Mutates
  <2>2. "cron" \in Inside
    BY DEF Inside
  <2>3. Progress(w)'
    BY <1>1, <1>2, <2>1, <2>2 DEF Progress
  <2>4. RuntimeTypeOK'
    BY <1>1, <2>1 DEF RuntimeTypeOK
  <2> QED
    BY SMT, <1>1, <1>2, <2>1, <2>2, <2>3, <2>4 DEF Effects
<1>5. CASE DeactivateCron(w)
  <2>1. /\ worker' = [worker EXCEPT ![w].step = "point"]
        /\ worker[w].step = "cron" /\ cron'.revision = NoRevision
        /\ UNCHANGED <<running, active, caddy>>
    BY <1>5 DEF DeactivateCron, Mutates, NoCron
  <2>2. "point" \in Inside
    BY DEF Inside
  <2>3. Progress(w)'
    BY <1>1, <1>2, <2>1, <2>2 DEF Progress
  <2>4. RuntimeTypeOK'
    BY <1>1, <2>1 DEF RuntimeTypeOK
  <2> QED
    BY SMT, <1>1, <1>2, <2>1, <2>2, <2>3, <2>4 DEF Effects
<1>6. CASE DeactivatePoint(w)
  <2>1. /\ worker' = [worker EXCEPT ![w].step = "returned"]
        /\ worker[w].step = "point" /\ lock' = NoWorker
        /\ active' = NoRevision /\ UNCHANGED <<running, caddy, cron>>
    BY <1>6 DEF DeactivatePoint, Mutates, LeaveFence
  <2>2. Serving(NoRevision)'
    BY <1>1, <2>1 DEF Progress, Serving, Scheduled
  <2>3. RuntimeTypeOK'
    BY <1>1, <2>1 DEF RuntimeTypeOK
  <2> QED
    BY <1>1, <2>1, <2>2, <2>3 DEF Effects
<1> QED
  BY <1>3, <1>4, <1>5, <1>6

-----------------------------------------------------------------------------
(* Beginning a backend call preserves the invariant.                       *)
LEMMA EnterCallServes ==
  ASSUME FenceInv, FenceInv', ServeInv, NEW u \in Workers, EnterCall(u)
  PROVE  ServeInv'
<1>1. worker[u].step = "begin" /\ UNCHANGED <<invVars, running, caddy, cron>>
  BY DEF EnterCall, journalVars, runtimeVars, invVars
<1>2. Busy(u)
  BY <1>1 DEF FenceInv
<1>3. PICK s \in {"raised", "returned", "wait"} :
        /\ worker' = [worker EXCEPT ![u].step = s]
        /\ s = "returned" => CallOf(u) = "drain_previous"
  BY DEF EnterCall
<1>4. s = "returned" => worker[u].at \notin {"restore", "deactivate"}
  BY <1>3 DEF CallOf
<1> QED
  BY <1>1, <1>2, <1>3, <1>4, StepServes DEF Outside

(* Every step of the backend preserves the invariant.                      *)
LEMMA BackendServes ==
  ASSUME FenceInv, FenceInv', ServeInv, NEW w \in Workers, BackendStep(w)
  PROVE  ServeInv'
<1>1. CASE EnterCall(w)
  BY <1>1, EnterCallServes
<1>2. CASE EnterRuntimeFence(w)
  BY <1>2, EnterFenceServes
<1>3. CASE ~EnterCall(w) /\ ~EnterRuntimeFence(w)
  <2>1. Acts(w)
    BY <1>3, BackendActs
  <2>2. Effects(w)
    BY ZenonT(60), <1>3, LocalEffects, SwitchEffects, RestoreEffects, DeactivateEffects
       DEF BackendStep
  <2> QED
    BY <2>1, <2>2, ActsServes
<1> QED
  BY <1>1, <1>2, <1>3

(* Every step of the executor preserves the invariant.                     *)
LEMMA ExecutorServes ==
  ASSUME FenceInv, FenceInv', ServeInv, NEW w \in Workers, ExecutorStep(w)
  PROVE  ServeInv'
<1>1. UNCHANGED runtimeVars
  BY DEF ExecutorStep
<1>2. CASE ControlStops(w) \/ PhaseRaised(w) \/ CheckFailed(w, Observed(w))
           \/ CommitRefused(w)
  <2>1. /\ Busy(w) /\ UNCHANGED <<invVars, running, caddy, cron>>
        /\ \E c \in BOOLEAN : Interrupt(w, c)
    BY <1>1, <1>2 DEF ControlStops, PhaseRaised, CheckFailed, CommitRefused,
       Busy, journalVars, runtimeVars, invVars
  <2> QED
    BY <2>1, InterruptServes
<1>3. CASE Preflight(w, TRUE)
  <2>1. PICK s \in {"returned", "raised"} :
          worker' = [worker EXCEPT ![w].step = s]
    BY <1>3 DEF Preflight
  <2>2. /\ worker[w].step = "begin" /\ CallOf(w) \in {"stage", "preflight"}
        /\ UNCHANGED <<invVars, running, caddy, cron>>
    BY <1>1, <1>3 DEF Preflight, journalVars, runtimeVars, invVars
  <2>3. Busy(w) /\ worker[w].at \notin {"restore", "deactivate"}
    BY <2>2 DEF FenceInv, CallOf
  <2> QED
    BY <2>1, <2>2, <2>3, StepServes DEF Outside
<1>4. CASE PhaseReturned(w)
  <2>1. CASE worker[w].phase = "start_candidate"
    BY <1>1, <1>4, <2>1, StartReturnedServes
  <2>2. CASE worker[w].phase # "start_candidate"
    BY <1>1, <1>4, <2>2, CompletePhaseServes DEF PhaseReturned
  <2> QED
    BY <2>1, <2>2
<1>5. CASE CheckPassed(w, Observed(w))
  BY <1>1, <1>5, CompletePhaseServes DEF CheckPassed
<1>6. CASE Abandon(w)
  <2>1. /\ Busy(w) /\ worker' = [worker EXCEPT ![w] = Idle]
        /\ UNCHANGED <<holder, record, lock, state, started, register,
                       running, active, caddy, cron>>
    BY <1>1, <1>6 DEF Abandon, Busy, journalVars, runtimeVars
  <2> QED
    BY <2>1, StopServes
<1> QED
  BY ZenonT(60), <1>1, <1>2, <1>3, <1>4, <1>5, <1>6, BeforePhaseServes, CheckpointServes,
     CommitServes, UndoServes, CompensatedServes, ConcludeServes
     DEF ExecutorStep

(* The invariant holds before the first operation is accepted.             *)
LEMMA ServeInit ==
  ASSUME DeployInit
  PROVE  ServeInv
<1>1. /\ \A w \in Workers : ~Busy(w) /\ ~Latest(w)
      /\ lock = NoWorker
  BY DEF DeployInit, Init, ExecutorInit, RuntimeFenceInit, Busy, Idle, Latest
<1>2. register \in Revisions \cup {NoRevision}
  BY DEF DeployInit, Init, ExecutorInit
<1>3. RuntimeTypeOK
  BY <1>2 DEF RuntimeTypeOK, DeployInit, Init
<1>4. Settled
  <2>1. Serving(register)
    BY DEF Serving, DeployInit, Init, Schedules, Scheduled, NoCron
  <2>2. register # NoRevision => running[register] = Services
    BY <1>2 DEF DeployInit, Init
  <2> QED
    BY <2>1, <2>2 DEF Settled
<1>5. Underway = {}
  BY DEF Underway, DeployInit, Init, ExecutorInit
<1>6. UnderwayOK
  BY <1>4, <1>5 DEF UnderwayOK, Settled
<1> QED
  BY <1>1, <1>3, <1>6 DEF ServeInv, CallsOK

(* Every step of every worker preserves the invariant.                     *)
LEMMA ServeStep ==
  ASSUME FenceInv, FenceInv', ServeInv, [Next]_vars
  PROVE  ServeInv'
<1>1. ASSUME NEW w \in Workers, NEW o \in Operations, StartRun(w, o)
      PROVE  ServeInv'
  BY <1>1, RunServes DEF StartRun
<1>2. ASSUME NEW w \in Workers, ExecutorStep(w)
      PROVE  ServeInv'
  BY <1>2, ExecutorServes
<1>3. ASSUME NEW w \in Workers, BackendStep(w)
      PROVE  ServeInv'
  BY <1>3, BackendServes
<1>4. ASSUME NEW o \in Operations, MigrationEnds(o)
      PROVE  ServeInv'
  BY <1>4, StutterServes DEF MigrationEnds, executorVars, invVars
<1>5. CASE Environment
  <2>1. ASSUME NEW w \in Workers, Crash(w)
        PROVE  ServeInv'
    <3>1. /\ Busy(w) /\ worker' = [worker EXCEPT ![w] = Idle]
          /\ lock' \in {lock, NoWorker}
          /\ UNCHANGED <<holder, record, state, started, register, running,
                         active, caddy, cron>>
      BY <1>5, <2>1 DEF Environment, Crash, ProcessEnds, Busy, journalVars,
         runtimeVars
    <3> QED
      BY <3>1, StopServes
  <2>2. CASE LeaseRunsOut \/ ClockStepsBack \/ NothingToRecover
             \/ \E o \in Operations : RequestCancellation(o)
    <3>1. UNCHANGED <<invVars, worker, running, caddy, cron>>
      BY <1>5, <2>2 DEF Environment, LeaseRunsOut, Lapse, ClockStepsBack,
         Revive, NothingToRecover, RequestCancellation, executorVars,
         journalVars, runtimeVars, invVars
    <3> QED
      BY <3>1, StutterServes
  <2> QED
    BY <1>5, <2>1, <2>2 DEF Environment
<1>6. CASE UNCHANGED vars
  BY <1>6, StutterServes DEF vars, executorVars, runtimeVars, invVars
<1> QED
  BY <1>1, <1>2, <1>3, <1>4, <1>5, <1>6 DEF Next

(* However workers crash, stall, lose their lease, overtake and compensate *)
(* each other: when no candidate is underway and every outcome was         *)
(* reported as clean, the app serves the revision the journal names.       *)
THEOREM CleanOutcomesServeTheJournal == DeploySpec => []ServesTheJournal
<1>1. DeployInit => FenceInv /\ ServeInv
  BY FenceInit, ServeInit
<1>2. FenceInv /\ ServeInv /\ [Next]_vars => (FenceInv /\ ServeInv)'
  BY FenceStep, ServeStep
<1>3. ServeInv => ServesTheJournal
  <2> SUFFICES ASSUME ServeInv, Clean, Underway = {}
               PROVE  Settled
    BY DEF ServesTheJournal, Clean, Underway, Settled, Serving, Scheduled
  <2> QED
    BY DEF ServeInv, UnderwayOK
<1> QED
  BY <1>1, <1>2, <1>3, PTL DEF DeploySpec

=============================================================================
