---------------------------- MODULE ComposeProofs ---------------------------
(***************************************************************************)
(* Proofs about the Compose backend under the journaled executor, for any  *)
(* number of workers, operations, revisions and lease grants: a worker     *)
(* that was overtaken changes nothing once the operation has its receipt,  *)
(* and a migration that ran is not run again. The workers crash, lose      *)
(* their leases, go on regardless and are resumed by others.               *)
(***************************************************************************)
EXTENDS ComposeBackend, TLAPS

(* Where a worker is while it compensates, one name per backend call.      *)
Acting == {"restore", "deactivate", "remove"}

(* Where a worker is while it goes forward through the plan.               *)
Forwards == {"before", "check", "call", "checkpoint", "commit"}

(* The phases whose backend call enters the runtime fence.                 *)
FencedPhases == {"start_candidate", "switch_traffic", "drain_previous"}

(* The steps of a backend call made before the runtime fence is entered    *)
(* and after it is left.                                                   *)
Outside == {"none", "begin", "wait", "returned", "raised"}

(* The steps of a backend call made inside the runtime fence.              *)
Inside ==
  {"materialize", "migrate", "migrating", "replace", "up", "compare",
   "stop_previous", "start_deferred", "cron", "caddy", "refresh_cron",
   "refresh_caddy", "point", "stop", "down", "delete"}

(* What a worker knows of the run it is in.                                *)
WorkerRecord ==
  [at : {"idle", "undo", "conclude"} \cup Forwards \cup Acting,
   phase : PhaseNames \cup {"none"}, op : Operations \cup {NoOperation},
   token : Nat, previous : Revisions \cup {NoRevision},
   step : Outside \cup Inside, cancel : BOOLEAN, failed : BOOLEAN]

(* The types of the journal, of the runtime fence and of the workers.      *)
DurableTypeOK ==
  /\ holder \in [op : Operations \cup {NoOperation},
                 owner : Owners \cup {NoOwner}, token : Nat]
  /\ lock \in Workers \cup {NoWorker}
  /\ record \in [op : Operations \cup {NoOperation}, token : Nat]
  /\ state \in [Operations -> {"accepted", "executing", "compensating",
                               "cancelling"} \cup TerminalStates]
  /\ started \in [Operations -> SUBSET PhaseNames]
  /\ completed \in [Operations -> SUBSET PhaseNames]
  /\ register \in Revisions \cup {NoRevision}
  /\ worker \in [Workers -> WorkerRecord]

(* Worker w is running an operation.                                       *)
Busy(w) == worker[w].at # "idle"

(* Worker w is the last one a lease was granted to.                        *)
Latest(w) == Busy(w) /\ worker[w].token = holder.token

(* Nobody older than worker w can enter the runtime fence any more.        *)
Entered(w) == record.token >= worker[w].token

(* No worker has a newer token than the lease, and the one with the same   *)
(* token has the lease as it was granted.                                  *)
TokenOK(w) ==
  /\ worker[w].op \in Operations
  /\ worker[w].token <= holder.token
  /\ worker[w].token = holder.token => Fence(w) = holder

(* No two workers share a token, and no predecessor is lost from an older  *)
(* worker to a newer one.                                                  *)
PairOK(v, w) ==
  /\ worker[v].token # worker[w].token
  /\ worker[v].token < worker[w].token /\ worker[w].previous = NoRevision
       => worker[v].previous = NoRevision

(* Phases before number k are completed. *)
Behind(o, k) == \A j \in 1..Len(Phases) : j < k => Phases[j] \in completed[o]

(* What every worker, overtaken or not, may rely on at its place in the    *)
(* plan: the phases before it are completed, a call that returned was made *)
(* inside the runtime fence, and what is compensated was started.          *)
PlaceOK(w) ==
  LET x == worker[w]
      o == x.op
  IN  /\ x.at \in {"before", "check", "call"} =>
           \E k \in 1..Len(Phases) : x.phase = Phases[k] /\ Behind(o, k)
      /\ x.at \in {"checkpoint", "commit"} => PhaseNames \subseteq completed[o]
      /\ x.at \in {"check", "call"} => x.phase \in started[o]
      /\ x.at \in Acting => "start_candidate" \in started[o]
      /\ x.at \in Acting \cup {"conclude"} =>
           state[o] \notin {"accepted", "executing"}
      /\ x.at \notin Acting \cup {"call"} => x.step = "none"
      /\ x.step \in Inside \cup {"wait"} => CallOf(w) \in BackendCalls
      /\ x.at = "check" /\ x.phase \in FencedPhases =>
           x.phase \in completed[o] \/ Entered(w)
      /\ x.at = "call" /\ x.phase \in FencedPhases /\ x.step = "returned" =>
           Entered(w) \/ (x.phase = "drain_previous" /\ x.previous = NoRevision)
      /\ CallOf(w) = "drain_previous" /\ x.step \in Inside \cup {"wait"} =>
           x.previous # NoRevision

(* What the last worker alone may rely on: its predecessor is still the    *)
(* active revision of the journal, and the phase it is about to run is not *)
(* completed yet.                                                          *)
LatestOK(w) ==
  LET x == worker[w]
      o == x.op
  IN  /\ x.previous = register
      /\ x.at = "before" => x.phase \notin completed[o]
      /\ x.at \in Forwards => state[o] = "executing"
      /\ x.at = "remove" /\ x.step \in {"begin", "wait"} =>
           Entered(w) \/ "switch_traffic" \notin started[o]
      /\ x.at = "restore" => x.previous # NoRevision
      /\ x.at \in Acting /\ x.step \notin {"begin", "wait"} => Entered(w)
      /\ x.at = "conclude" => Entered(w) \/ "start_candidate" \notin started[o]

(* Worker w is inside the runtime fence, or may still enter it for the     *)
(* call or the compensation it is in, because nobody newer has entered.    *)
Reaches(w) ==
  /\ Busy(w)
  /\ worker[w].token >= record.token
  /\ \/ lock = w
     \/ worker[w].at \in Acting
     \/ /\ worker[w].at = "call"
        /\ worker[w].step \in {"begin", "wait"}
        /\ worker[w].phase \in FencedPhases
        /\ ~(worker[w].phase = "drain_previous"
               /\ worker[w].previous = NoRevision)

(* The operation of a worker that can still reach the runtime is open, and *)
(* the phase it calls for is not completed.                                *)
ReachOK(w) ==
  /\ Open(worker[w].op)
  /\ worker[w].at = "call" => worker[w].phase \notin completed[worker[w].op]

(* Whoever is inside the runtime fence is the one its record names.        *)
LockOK ==
  lock # NoWorker =>
    /\ Busy(lock)
    /\ worker[lock].step \in Inside
    /\ record = [op |-> worker[lock].op, token |-> worker[lock].token]

(* The active revision of the journal has its files, it is the revision of *)
(* an operation that succeeded, and no revision is pointed at before its   *)
(* operation began to switch the traffic.                                  *)
RevisionsOK ==
  /\ register # NoRevision => register \in roots
  /\ \A w \in Workers : Busy(w) /\ register = NoRevision =>
       worker[w].previous = NoRevision
  /\ \A o \in Operations :
       /\ completed[o] \subseteq started[o]
       /\ register = RevisionOf[o] => state[o] = "succeeded"
       /\ RevisionOf[o] \in {register, active} =>
            "switch_traffic" \in started[o]
       /\ \A w \in Workers : Busy(w) /\ worker[w].previous = RevisionOf[o] =>
            "switch_traffic" \in started[o]
       /\ "start_candidate" \in completed[o]
            /\ state[o] \in {"accepted", "executing", "succeeded"}
            => RevisionOf[o] \in roots

(* The inductive invariant. A worker whose lease ran out keeps running:    *)
(* what keeps it away from the runtime of an ended operation is that the   *)
(* newer worker went through the runtime fence before it ended the         *)
(* operation, which the conjuncts on Entered and Reaches follow through    *)
(* every place of the plan.                                                *)
FenceInv ==
  /\ DurableTypeOK
  /\ record.token <= holder.token
  /\ \A w \in Workers : Busy(w) \/ worker[w].step = "none"
  /\ \A w \in Workers : Busy(w) => TokenOK(w) /\ PlaceOK(w)
  /\ \A v, w \in Workers : Busy(v) /\ Busy(w) /\ v # w => PairOK(v, w)
  /\ \A w \in Workers : Latest(w) => LatestOK(w)
  /\ \A w \in Workers : Reaches(w) => ReachOK(w)
  /\ LockOK
  /\ RevisionsOK

-----------------------------------------------------------------------------
(* What a step of worker w that stays with its operation may do to what    *)
(* the other workers rely on.                                              *)
Goes(w) ==
  /\ DurableTypeOK'
  /\ Busy(w)
  /\ \A v \in Workers : v # w => worker'[v] = worker[v]
  /\ Busy(w)' \/ worker'[w].step = "none"
  /\ Busy(w)' => /\ worker'[w].op = worker[w].op
                 /\ worker'[w].token = worker[w].token
                 /\ worker'[w].previous = worker[w].previous
  /\ holder'.token = holder.token
  /\ holder' = holder \/ (Latest(w) /\ ~Busy(w)')
  /\ record'.token >= record.token
  /\ record'.token <= holder.token
  /\ \A o \in Operations :
       /\ completed[o] \subseteq completed'[o]
       /\ started[o] \subseteq started'[o]
       /\ state[o] \notin {"accepted", "executing"} =>
            state'[o] \notin {"accepted", "executing"}
  /\ lock' \in {lock, w, NoWorker}
  /\ UNCHANGED <<state, started, completed, register>> \/ Latest(w)

(* The same, with the journal and the revisions as they are.               *)
Quiet(w) ==
  /\ Goes(w)
  /\ UNCHANGED <<state, started, completed, register, roots, active>>

(* Worker w is at place a, phase p and step s after the step.              *)
Becomes(w, a, p, s) ==
  /\ worker' \in [Workers -> WorkerRecord]
  /\ \A v \in Workers : v # w => worker'[v] = worker[v]
  /\ worker'[w].at = a
  /\ worker'[w].phase = p
  /\ worker'[w].step = s
  /\ worker'[w].op = worker[w].op
  /\ worker'[w].token = worker[w].token
  /\ worker'[w].previous = worker[w].previous

(* A command of worker w inside the runtime fence.                         *)
Acts(w) ==
  /\ lock = w
  /\ UNCHANGED <<holder, record, journalVars>>
  /\ \E s \in Inside \cup {"returned", "raised"} :
       /\ worker' = [worker EXCEPT ![w].step = s]
       /\ lock' = IF s \in {"returned", "raised"} THEN NoWorker ELSE w
  /\ \/ roots' \in {roots, roots \cup {Candidate(w)}}
     \/ CallOf(w) = "remove" /\ roots' = roots \ {Candidate(w)}
  /\ \/ active' \in {active, NoRevision, worker[w].previous}
     \/ CallOf(w) = "switch_traffic" /\ active' = Candidate(w)

-----------------------------------------------------------------------------
(* Leaves are first-order and go to Zenon; those with arithmetic or        *)
(* records cite SMT.                                                       *)
USE Zenon

(* The seven phases of the plan, their names and their numbers.            *)
LEMMA PhaseFacts ==
  /\ Len(Phases) = 7
  /\ Phases[1] = "stage" /\ Phases[2] = "preflight"
  /\ Phases[3] = "start_candidate" /\ Phases[4] = "readiness_verify"
  /\ Phases[5] = "switch_traffic" /\ Phases[6] = "external_verify"
  /\ Phases[7] = "drain_previous"
  /\ PhaseNames = {"stage", "preflight", "start_candidate",
                   "readiness_verify", "switch_traffic", "external_verify",
                   "drain_previous"}
  /\ \A k \in 1..7 : Index(Phases[k]) = k
<1>1. Len(Phases) = 7
  BY DEF Phases
<1>2. /\ Phases[1] = "stage" /\ Phases[2] = "preflight"
      /\ Phases[3] = "start_candidate" /\ Phases[4] = "readiness_verify"
      /\ Phases[5] = "switch_traffic" /\ Phases[6] = "external_verify"
      /\ Phases[7] = "drain_previous"
  BY DEF Phases
<1>3. PhaseNames = {Phases[i] : i \in 1..7}
  BY <1>1 DEF PhaseNames
<1>4. 1..7 = {1, 2, 3, 4, 5, 6, 7}
  BY SMT
<1>5. PhaseNames = {"stage", "preflight", "start_candidate",
                    "readiness_verify", "switch_traffic", "external_verify",
                    "drain_previous"}
  BY SMT, <1>2, <1>3, <1>4
<1>6. ASSUME NEW k \in 1..7, NEW j \in 1..7, Phases[j] = Phases[k]
      PROVE  j = k
  BY SMT, <1>2, <1>4, <1>6
<1>7. ASSUME NEW k \in 1..7
      PROVE  Index(Phases[k]) = k
  BY <1>1, <1>6 DEF Index
<1> QED
  BY <1>1, <1>2, <1>5, <1>7

(* Where Forward leads: past the plan, or to its first phase that is not   *)
(* skipped, with every phase before it completed.                          *)
Past(i, done) == \A j \in 1..7 : j < i => Phases[j] \in done

(* The place y that follows the place r when the phases of done are        *)
(* completed.                                                              *)
Ahead(y, r, done) ==
  /\ y \in WorkerRecord
  /\ y.op = r.op /\ y.token = r.token /\ y.previous = r.previous
  /\ y.step = "none"
  /\ \/ y.at = "checkpoint" /\ PhaseNames \subseteq done
     \/ \E k \in 1..7 :
          /\ y.phase = Phases[k]
          /\ Past(k, done)
          /\ y.at = IF Phases[k] \in done THEN "check" ELSE "before"

(* A nonempty set of phase numbers has a first one.                        *)
LEMMA FirstOf ==
  ASSUME NEW T \in SUBSET (1..7), T # {}
  PROVE  \E m \in T : \A k \in T : m <= k
<1>1. PICK n \in 1..7 : n \in T
  OBVIOUS
<1>2. CASE 1 \in T  BY SMT, <1>2
<1>3. CASE 1 \notin T /\ 2 \in T  BY SMT, <1>3
<1>4. CASE 1 \notin T /\ 2 \notin T /\ 3 \in T  BY SMT, <1>4
<1>5. CASE 1 \notin T /\ 2 \notin T /\ 3 \notin T /\ 4 \in T
  BY SMT, <1>5
<1>6. CASE 1 \notin T /\ 2 \notin T /\ 3 \notin T /\ 4 \notin T /\ 5 \in T
  BY SMT, <1>6
<1>7. CASE 1 \notin T /\ 2 \notin T /\ 3 \notin T /\ 4 \notin T /\ 5 \notin T
           /\ 6 \in T
  BY SMT, <1>7
<1>8. CASE 1 \notin T /\ 2 \notin T /\ 3 \notin T /\ 4 \notin T /\ 5 \notin T
           /\ 6 \notin T
  BY SMT, <1>1, <1>8
<1> QED
  BY <1>2, <1>3, <1>4, <1>5, <1>6, <1>7, <1>8

(* Forward leads to such a place.                                          *)
LEMMA ForwardGoes ==
  ASSUME NEW r \in WorkerRecord, NEW done \in SUBSET PhaseNames,
         NEW i \in 1..8, Past(i, done)
  PROVE  Ahead(Forward(r, i, done), r, done)
<1> DEFINE skip == done \cap SkippedWhenCompleted
           todo == {j \in i..7 : Phases[j] \notin skip}
<1>1. Len(Phases) = 7 /\ PhaseNames = {Phases[j] : j \in 1..7}
  BY PhaseFacts DEF PhaseNames
<1>2. CASE todo = {}
  <2>1. Forward(r, i, done) =
          [r EXCEPT !.at = "checkpoint", !.phase = "none", !.step = "none"]
    BY <1>1, <1>2 DEF Forward
  <2>2. \A j \in 1..7 : Phases[j] \in done
    BY SMT, <1>2 DEF Past
  <2>3. PhaseNames \subseteq done
    BY <1>1, <2>2
  <2> QED
    BY ZenonT(60), <2>1, <2>3 DEF Ahead, WorkerRecord, Outside, Forwards
<1>3. CASE todo # {}
  <2>1. \E m \in todo : \A k \in todo : m <= k
    <3>1. todo \in SUBSET (1..7)
      BY SMT
    <3> QED
      BY <1>3, <3>1, FirstOf
  <2> DEFINE m == CHOOSE j \in todo : \A k \in todo : j <= k
  <2>2. m \in todo /\ \A k \in todo : m <= k
    BY <2>1
  <2>3. Forward(r, i, done) =
          [r EXCEPT !.at = IF Phases[m] \in done THEN "check" ELSE "before",
                    !.phase = Phases[m], !.step = "none"]
    BY <1>1, <1>3 DEF Forward
  <2>4. m \in 1..7
    BY SMT, <2>2
  <2>5. Past(m, done)
    BY SMT, <2>2, <2>4 DEF Past
  <2> HIDE DEF m
  <2>6. Phases[m] \in PhaseNames
    BY <1>1, <2>4
  <2> QED
    BY ZenonT(60), <2>3, <2>4, <2>5, <2>6 DEF Ahead, WorkerRecord, Outside, Forwards
<1> QED
  BY <1>2, <1>3

-----------------------------------------------------------------------------
(* The backend calls that enter the runtime fence.                         *)
LEMMA CallFacts ==
  BackendCalls = {"start_candidate", "switch_traffic", "drain_previous",
                  "restore", "deactivate", "remove"}
BY DEF BackendCalls, FirstStep

(* A backend call begins with a step made inside the runtime fence.        *)
LEMMA FirstStepInside ==
  ASSUME NEW c \in BackendCalls
  PROVE  FirstStep[c] \in Inside
BY SMT, CallFacts DEF FirstStep, Inside

(* Every command of the backend inside the fence is an Acts step.          *)
LEMMA MutatesActs ==
  ASSUME NEW w \in Workers, NEW call, NEW step, NEW next,
         next \in Inside \cup {"returned", "raised"},
         Mutates(w, call, step, next)
  PROVE  /\ lock = w
         /\ CallOf(w) = call
         /\ UNCHANGED <<holder, record, journalVars>>
         /\ \E s \in Inside \cup {"returned", "raised"} :
              /\ worker' = [worker EXCEPT ![w].step = s]
              /\ lock' = IF s \in {"returned", "raised"} THEN NoWorker ELSE w
BY DEF Mutates, LeaveFence

(* A command that raises leaves the runtime fence and changes nothing      *)
(* else.                                                                   *)
LEMMA RaisesActs ==
  ASSUME NEW w \in Workers, Raises(w)
  PROVE  /\ lock = w
         /\ UNCHANGED <<holder, record, journalVars>>
         /\ \E s \in Inside \cup {"returned", "raised"} :
              /\ worker' = [worker EXCEPT ![w].step = s]
              /\ lock' = IF s \in {"returned", "raised"} THEN NoWorker ELSE w
BY DEF Raises, LeaveFence

(* A step of a backend call begins the call, enters the runtime fence or   *)
(* is a command made inside it.                                            *)
LEMMA BackendActs ==
  ASSUME NEW w \in Workers, BackendStep(w)
  PROVE  EnterCall(w) \/ EnterRuntimeFence(w) \/ Acts(w)
<1>1. CASE CommandFails(w)
  BY <1>1, RaisesActs DEF CommandFails, Acts, runtimeVars
<1>2. CASE Materialize(w)
  BY <1>2, MutatesActs DEF Materialize, Acts, Inside, runtimeVars
<1>3. CASE MigrationDone(w)
  BY <1>3, MutatesActs DEF MigrationDone, Acts, Inside, runtimeVars
<1>4. CASE RunMigration(w)
  BY <1>4, MutatesActs DEF RunMigration, Acts, Inside, runtimeVars
<1>5. CASE MarkMigration(w)
  BY <1>5, MutatesActs DEF MarkMigration, Acts, Inside, runtimeVars
<1>6. CASE StopReplaced(w)
  BY <1>6, MutatesActs DEF StopReplaced, Acts, Inside, runtimeVars
<1>7. CASE StartCandidate(w)
  BY <1>7, MutatesActs DEF StartCandidate, Acts, Inside, runtimeVars
<1>8. CASE StopPrevious(w)
  BY <1>8, MutatesActs DEF StopPrevious, Acts, Inside, runtimeVars
<1>9. CASE StartDeferred(w)
  BY <1>9, MutatesActs DEF StartDeferred, Acts, Inside, runtimeVars
<1>10. CASE RegisterCron(w)
  BY <1>10, MutatesActs DEF RegisterCron, Acts, Inside, runtimeVars
<1>11. CASE SwitchCaddy(w)
  BY <1>11, MutatesActs DEF SwitchCaddy, Acts, Inside, runtimeVars
<1>12. CASE PointActive(w)
  BY <1>12, MutatesActs DEF PointActive, Acts, Inside, runtimeVars
<1>13. CASE RestoreStop(w)
  BY <1>13, MutatesActs DEF RestoreStop, Acts, Inside, runtimeVars
<1>14. CASE RestoreUp(w)
  BY <1>14, MutatesActs DEF RestoreUp, Acts, Inside, runtimeVars
<1>15. CASE RestoreCaddy(w)
  BY <1>15, MutatesActs DEF RestoreCaddy, Acts, Inside, runtimeVars
<1>16. CASE RestoreCron(w)
  BY <1>16, MutatesActs DEF RestoreCron, Acts, Inside, runtimeVars
<1>17. CASE DeactivateStop(w)
  BY <1>17, MutatesActs DEF DeactivateStop, Acts, Inside, runtimeVars
<1>18. CASE DeactivateCaddy(w)
  BY <1>18, MutatesActs DEF DeactivateCaddy, Acts, Inside, runtimeVars
<1>19. CASE DeactivateCron(w)
  BY <1>19, MutatesActs DEF DeactivateCron, Acts, Inside, runtimeVars
<1>20. CASE DeactivatePoint(w)
  BY <1>20, MutatesActs DEF DeactivatePoint, Acts, Inside, runtimeVars
<1>21. CASE DrainDown(w)
  BY <1>21, MutatesActs DEF DrainDown, Acts, Inside, runtimeVars
<1>22. CASE RemoveDown(w)
  BY <1>22, MutatesActs DEF RemoveDown, Acts, Inside, runtimeVars
<1>23. CASE RemoveDelete(w)
  BY <1>23, MutatesActs DEF RemoveDelete, Acts, Inside, runtimeVars
<1>24. CASE MigrationFailed(w)
  BY <1>24, RaisesActs DEF MigrationFailed, Acts, runtimeVars
<1>25. CASE RefuseDeactivate(w)
  BY <1>25, RaisesActs DEF RefuseDeactivate, Acts, runtimeVars
<1>26. CASE CompareActive(w)
  <2>1. PICK s \in {"refresh_cron", "raised", "stop_previous"} :
          /\ worker' = [worker EXCEPT ![w].step = s]
          /\ s = "raised" <=> active \notin {Candidate(w), worker[w].previous}
    BY <1>26 DEF CompareActive
  <2>2. lock = w /\ lock' = IF s = "raised" THEN NoWorker ELSE w
    BY <1>26, <2>1 DEF CompareActive, LeaveFence
  <2>3. /\ UNCHANGED <<holder, record, journalVars>>
        /\ roots' = roots /\ active' = active
    BY <1>26 DEF CompareActive, LeaveFence, runtimeVars
  <2> QED
    BY <2>1, <2>2, <2>3 DEF Acts, Inside
<1>27. CASE RestorePoint(w)
  BY <1>27 DEF RestorePoint, LeaveFence, Acts, Inside
<1> QED
  BY <1>1, <1>2, <1>3, <1>4, <1>5, <1>6, <1>7, <1>8, <1>9, <1>10, <1>11, <1>12, <1>13, <1>14, <1>15, <1>16, <1>17, <1>18, <1>19, <1>20, <1>21, <1>22, <1>23, <1>24, <1>25, <1>26, <1>27 DEF BackendStep

-----------------------------------------------------------------------------
(* What a step of worker w leaves to another worker v.                     *)
LEMMA OtherToken ==
  ASSUME FenceInv, NEW w \in Workers, Goes(w), NEW v \in Workers, v # w,
         Busy(v)'
  PROVE  /\ Busy(v)
         /\ TokenOK(v)'
         /\ Latest(v)' => Latest(v) /\ ~Latest(w)
<1>1. worker'[v] = worker[v] /\ Busy(v)
  BY DEF Goes, Busy
<1>2. TokenOK(v)
  BY <1>1 DEF FenceInv
<1>3. holder'.token = holder.token
  BY DEF Goes
<1>4. Busy(w) /\ worker[v].token # worker[w].token
  BY <1>1 DEF FenceInv, PairOK, Goes
<1>5. Latest(w) => worker[v].token # holder.token
  BY <1>4 DEF Latest
<1>6. TokenOK(v)'
  BY <1>1, <1>2, <1>3, <1>5 DEF TokenOK, Goes, Fence
<1>7. Latest(v)' => Latest(v) /\ ~Latest(w)
  BY ZenonT(60), <1>1, <1>3, <1>5 DEF Latest, Busy
<1> QED
  BY <1>1, <1>6, <1>7

(* A step of worker w leaves the other workers at their places.            *)
LEMMA OtherPlace ==
  ASSUME FenceInv, NEW w \in Workers, Goes(w), NEW v \in Workers, v # w,
         Busy(v)'
  PROVE  PlaceOK(v)'
<1>1. worker'[v] = worker[v] /\ Busy(v)
  BY DEF Goes, Busy
<1>2. PlaceOK(v) /\ worker[v].op \in Operations
  BY <1>1 DEF FenceInv, TokenOK
<1>3. PICK o \in Operations : o = worker[v].op
  BY <1>2
<1>4. /\ completed[o] \subseteq completed'[o]
      /\ started[o] \subseteq started'[o]
      /\ state[o] \notin {"accepted", "executing"} =>
            state'[o] \notin {"accepted", "executing"}
  BY DEF Goes
<1>5. Entered(v) => Entered(v)'
  <2>1. record.token \in Nat /\ record'.token \in Nat /\ worker[v].token \in Nat
    BY DEF FenceInv, Goes, DurableTypeOK, WorkerRecord
  <2>2. record'.token >= record.token
    BY DEF Goes
  <2> QED
    BY SMT, <1>1, <2>1, <2>2 DEF Entered
<1>6. \A k \in 1..Len(Phases) : Behind(o, k) => Behind(o, k)'
  BY <1>4 DEF Behind
<1>7. CallOf(v)' = CallOf(v)
  BY <1>1 DEF CallOf
<1> QED
  BY SMT, <1>1, <1>2, <1>3, <1>4, <1>5, <1>6, <1>7 DEF PlaceOK

(* A step of worker w leaves alone what another last worker relies on.     *)
LEMMA OtherLatest ==
  ASSUME FenceInv, NEW w \in Workers, Goes(w), NEW v \in Workers, v # w,
         Latest(v)'
  PROVE  LatestOK(v)'
<1>1. worker'[v] = worker[v]
  BY DEF Goes
<1>2. Latest(v) /\ ~Latest(w)
  BY OtherToken DEF Latest
<1>3. LatestOK(v)
  BY <1>2 DEF FenceInv
<1>4. UNCHANGED <<state, started, completed, register>>
  BY <1>2 DEF Goes
<1>5. Entered(v) => Entered(v)'
  <2>1. record.token \in Nat /\ record'.token \in Nat /\ worker[v].token \in Nat
    BY DEF FenceInv, Goes, DurableTypeOK, WorkerRecord
  <2>2. record'.token >= record.token
    BY DEF Goes
  <2> QED
    BY SMT, <1>1, <2>1, <2>2 DEF Entered
<1> QED
  BY <1>1, <1>3, <1>4, <1>5 DEF LatestOK

(* No step of worker w lets another worker reach the runtime again.        *)
LEMMA OtherReaches ==
  ASSUME FenceInv, NEW w \in Workers, Goes(w), NEW v \in Workers, v # w,
         Reaches(v)'
  PROVE  Reaches(v)
<1>1. worker'[v] = worker[v]
  BY DEF Goes
<1>2. record.token \in Nat /\ record'.token \in Nat /\ worker[v].token \in Nat
  BY DEF FenceInv, Goes, DurableTypeOK, WorkerRecord
<1>3. record'.token >= record.token
  BY DEF Goes
<1>4. worker'[v].token >= record'.token
  BY DEF Reaches
<1>5. worker[v].token >= record.token
  BY SMT, <1>1, <1>2, <1>3, <1>4
<1>6. lock' = v => lock = v
  BY SMT, ComposeAssumption DEF Goes
<1> QED
  BY <1>1, <1>5, <1>6 DEF Reaches, Busy

(* A step of worker w keeps the invariant if it keeps it for w, for those  *)
(* who are on their way to the runtime, and for the lock and revisions.    *)
LEMMA GoesKeeps ==
  ASSUME FenceInv, NEW w \in Workers, Goes(w),
         Busy(w)' => PlaceOK(w)',
         Latest(w)' => LatestOK(w)',
         Reaches(w)' => ReachOK(w)',
         \A v \in Workers : v # w /\ Reaches(v) => ReachOK(v)',
         LockOK', RevisionsOK'
  PROVE  FenceInv'
<1>1. DurableTypeOK' /\ (record.token <= holder.token)'
  BY DEF Goes
<1>2. ASSUME NEW v \in Workers, Busy(v)'
      PROVE  TokenOK(v)' /\ PlaceOK(v)'
  <2>1. CASE v # w
    BY <1>2, <2>1, OtherToken, OtherPlace
  <2>2. CASE v = w
    <3>1. TokenOK(w) /\ Busy(w)
      BY DEF FenceInv, Goes
    <3>2. /\ worker'[w].op = worker[w].op
          /\ worker'[w].token = worker[w].token
      BY <1>2, <2>2 DEF Goes
    <3>3. holder' = holder
      BY <1>2, <2>2 DEF Goes
    <3> QED
      BY <1>2, <2>2, <3>1, <3>2, <3>3 DEF TokenOK, Fence
  <2> QED
    BY <2>1, <2>2
<1>3. ASSUME NEW u \in Workers, NEW v \in Workers, Busy(u)', Busy(v)', u # v
      PROVE  PairOK(u, v)'
  <2>1. ASSUME NEW x \in Workers, Busy(x)'
        PROVE  /\ Busy(x)
               /\ worker'[x].token = worker[x].token
               /\ worker'[x].previous = worker[x].previous
    BY <2>1 DEF Goes, Busy
  <2>2. PairOK(u, v)
    BY <1>3, <2>1 DEF FenceInv
  <2> QED
    BY <1>3, <2>1, <2>2 DEF PairOK
<1>4. \A v \in Workers : Latest(v)' => LatestOK(v)'
  BY OtherLatest
<1>5. \A v \in Workers : Reaches(v)' => ReachOK(v)'
  BY OtherReaches
<1>6. \A v \in Workers : Busy(v)' \/ worker'[v].step = "none"
  BY SMT DEF FenceInv, Goes, Busy
<1> QED
  BY <1>1, <1>2, <1>3, <1>4, <1>5, <1>6 DEF FenceInv

(* A quiet step leaves the revisions and the others as they are.           *)
LEMMA QuietKeeps ==
  ASSUME FenceInv, NEW w \in Workers, Quiet(w),
         Busy(w)' => PlaceOK(w)',
         Latest(w)' => LatestOK(w)',
         Reaches(w)' => ReachOK(w)',
         LockOK'
  PROVE  FenceInv'
<1>1. Goes(w)
  BY DEF Quiet
<1>2. ASSUME NEW v \in Workers, v # w, Reaches(v)
      PROVE  ReachOK(v)'
  <2>1. ReachOK(v) /\ worker'[v] = worker[v]
    BY <1>1, <1>2 DEF FenceInv, Goes
  <2> QED
    BY <2>1 DEF ReachOK, Quiet, Open
<1>3. RevisionsOK'
  <2>1. RevisionsOK
    BY DEF FenceInv
  <2>2. ASSUME NEW v \in Workers, Busy(v)'
        PROVE  Busy(v) /\ worker'[v].previous = worker[v].previous
    BY <1>1, <2>2 DEF Goes, Busy
  <2> QED
    BY <2>1, <2>2 DEF RevisionsOK, Quiet
<1> QED
  BY <1>1, <1>2, <1>3, GoesKeeps

-----------------------------------------------------------------------------
(* The steps of a worker outside the runtime fence that write nothing the  *)
(* invariant speaks of but the worker itself.                              *)
invVars ==
  <<holder, lock, record, state, started, completed, register, roots, active>>

(* A worker that only moves on, outside of the runtime fence, is quiet.    *)
LEMMA StrollQuiet ==
  ASSUME FenceInv, NEW w \in Workers, NEW a, NEW p, NEW s,
         Busy(w), worker[w].step \notin Inside,
         Becomes(w, a, p, s), a # "idle", UNCHANGED invVars
  PROVE  /\ Quiet(w)
         /\ LockOK'
         /\ lock' # w
<1>1. lock # w
  BY ComposeAssumption DEF FenceInv, LockOK
<1>2. DurableTypeOK'
  BY DEF FenceInv, DurableTypeOK, Becomes, invVars
<1>3. record.token \in Nat /\ holder.token \in Nat
  BY DEF FenceInv, DurableTypeOK
<1>4. Goes(w)
  BY SMT, <1>2, <1>3 DEF FenceInv, Goes, Becomes, invVars, Busy
<1>5. LockOK'
  <2>1. CASE lock = NoWorker
    BY <2>1 DEF LockOK, invVars
  <2>2. CASE lock # NoWorker
    <3>1. lock \in Workers
      BY <2>2 DEF FenceInv, DurableTypeOK
    <3>2. worker'[lock] = worker[lock] /\ lock' = lock /\ record' = record
      BY <1>1, <3>1 DEF Becomes, invVars
    <3> QED
      BY <2>2, <3>2 DEF FenceInv, LockOK, Busy
  <2> QED
    BY <2>1, <2>2
<1> QED
  BY <1>1, <1>4, <1>5 DEF Quiet, invVars

(* When the new step is not one of a backend call, only the place of the   *)
(* worker needs an argument.                                               *)
LEMMA StrollKeeps ==
  ASSUME FenceInv, NEW w \in Workers, NEW a, NEW p, NEW s,
         Busy(w), worker[w].step \notin Inside,
         Becomes(w, a, p, s), a # "idle", UNCHANGED invVars,
         s \notin {"begin", "wait"}, a \notin Acting,
         PlaceOK(w)', Latest(w)' => LatestOK(w)'
  PROVE  FenceInv'
<1>1. Quiet(w) /\ LockOK' /\ lock' # w
  BY StrollQuiet
<1>2. ~Reaches(w)'
  BY <1>1 DEF Reaches, Becomes
<1> QED
  BY <1>1, <1>2, QuietKeeps

(* A run that is interrupted goes to its compensation and disturbs nobody. *)
LEMMA InterruptKeeps ==
  ASSUME FenceInv, NEW w \in Workers, NEW c \in BOOLEAN,
         Busy(w), worker[w].step \notin Inside,
         Interrupt(w, c), UNCHANGED invVars
  PROVE  FenceInv'
<1>1. Becomes(w, "undo", "none", "none")
  <2> DEFINE y == [worker[w] EXCEPT !.at = "undo", !.phase = "none",
                                    !.step = "none", !.cancel = c]
  <2>1. worker \in [Workers -> WorkerRecord]
    BY DEF FenceInv, DurableTypeOK
  <2>2. worker' = [worker EXCEPT ![w] = y]
    BY <2>1 DEF Interrupt
  <2>3. /\ y \in WorkerRecord
        /\ y.at = "undo" /\ y.phase = "none" /\ y.step = "none"
        /\ y.op = worker[w].op /\ y.token = worker[w].token
        /\ y.previous = worker[w].previous
    BY ZenonT(60), <2>1 DEF WorkerRecord, Outside
  <2> QED
    BY <2>1, <2>2, <2>3 DEF Becomes
<1>2. PlaceOK(w)'
  BY <1>1, CallFacts DEF Becomes, PlaceOK, CallOf, Acting, Inside
<1>3. Latest(w)' => LatestOK(w)'
  <2>1. Latest(w)' => Latest(w)
    BY <1>1 DEF Becomes, Latest, Busy, invVars
  <2> QED
    BY <1>1, <2>1 DEF Becomes, FenceInv, LatestOK, invVars, Acting, Forwards
<1> QED
  BY <1>1, <1>2, <1>3, StrollKeeps DEF Acting

(* A worker that stops, or dies, outside or inside the fence.              *)
LEMMA StopKeeps ==
  ASSUME FenceInv, NEW w \in Workers, Busy(w),
         worker' = [worker EXCEPT ![w] = Idle],
         lock' = IF lock = w THEN NoWorker ELSE lock,
         UNCHANGED <<holder, record, state, started, completed, register,
                     roots, active>>
  PROVE  FenceInv'
<1>1. DurableTypeOK'
  BY DEF FenceInv, DurableTypeOK, WorkerRecord, Idle, Outside
<1>2. /\ ~Busy(w)' /\ worker'[w].step = "none"
      /\ \A v \in Workers : v # w => worker'[v] = worker[v]
  BY DEF FenceInv, DurableTypeOK, Busy, Idle
<1>3. record.token \in Nat /\ holder.token \in Nat
  BY DEF FenceInv, DurableTypeOK
<1>4. Goes(w)
  BY SMT, <1>1, <1>2, <1>3 DEF FenceInv, Goes
<1>5. Quiet(w)
  BY <1>4 DEF Quiet
<1>6. LockOK'
  <2>1. CASE lock' = NoWorker
    BY <2>1 DEF LockOK
  <2>2. CASE lock' # NoWorker
    <3>1. lock' = lock /\ lock \in Workers /\ lock # w
      BY <2>2 DEF FenceInv, DurableTypeOK
    <3>2. worker'[lock] = worker[lock]
      BY <1>2, <3>1
    <3> QED
      BY <2>2, <3>1, <3>2 DEF FenceInv, LockOK, Busy
  <2> QED
    BY <2>1, <2>2
<1>7. ~Latest(w)' /\ ~Reaches(w)'
  BY <1>2 DEF Latest, Reaches
<1> QED
  BY <1>2, <1>5, <1>6, <1>7, QuietKeeps

-----------------------------------------------------------------------------
(* A worker that is not in a backend call is at no step of one.            *)
LEMMA NoCallNoStep ==
  ASSUME FenceInv, NEW w \in Workers, Busy(w),
         worker[w].at \notin Acting \cup {"call"}
  PROVE  worker[w].step \notin Inside
BY DEF FenceInv, PlaceOK, Inside

(* A cancellation or a deadline found before a phase preserves the         *)
(* invariant.                                                              *)
LEMMA ControlStopsKeeps ==
  ASSUME FenceInv, NEW w \in Workers, ControlStops(w), UNCHANGED runtimeVars
  PROVE  FenceInv'
<1>1. Busy(w) /\ worker[w].at \notin Acting \cup {"call"}
  BY DEF ControlStops, Busy, Acting
<1>2. \E c \in BOOLEAN : Interrupt(w, c)
  BY DEF ControlStops
<1>3. UNCHANGED invVars
  BY DEF ControlStops, journalVars, runtimeVars, invVars
<1> QED
  BY <1>1, <1>2, <1>3, NoCallNoStep, InterruptKeeps

(* A failed check preserves the invariant.                                 *)
LEMMA CheckFailedKeeps ==
  ASSUME FenceInv, NEW w \in Workers, CheckFailed(w, Observed(w)),
         UNCHANGED runtimeVars
  PROVE  FenceInv'
<1>1. Busy(w) /\ worker[w].at \notin Acting \cup {"call"}
  BY DEF CheckFailed, Busy, Acting
<1>2. UNCHANGED invVars /\ Interrupt(w, FALSE)
  BY DEF CheckFailed, journalVars, runtimeVars, invVars
<1> QED
  BY <1>1, <1>2, NoCallNoStep, InterruptKeeps

(* A commit the journal refuses preserves the invariant.                   *)
LEMMA CommitRefusedKeeps ==
  ASSUME FenceInv, NEW w \in Workers, CommitRefused(w), UNCHANGED runtimeVars
  PROVE  FenceInv'
<1>1. Busy(w) /\ worker[w].at \notin Acting \cup {"call"}
  BY DEF CommitRefused, Busy, Acting
<1>2. UNCHANGED invVars /\ Interrupt(w, FALSE)
  BY DEF CommitRefused, journalVars, runtimeVars, invVars
<1> QED
  BY <1>1, <1>2, NoCallNoStep, InterruptKeeps

(* A backend call that raises preserves the invariant.                     *)
LEMMA PhaseRaisedKeeps ==
  ASSUME FenceInv, NEW w \in Workers, PhaseRaised(w), UNCHANGED runtimeVars
  PROVE  FenceInv'
<1>1. Busy(w) /\ worker[w].step \notin Inside
  BY DEF PhaseRaised, Busy, Inside
<1>2. UNCHANGED invVars /\ Interrupt(w, FALSE)
  BY DEF PhaseRaised, journalVars, runtimeVars, invVars
<1> QED
  BY <1>1, <1>2, InterruptKeeps

(* A worker that gives up a lost lease preserves the invariant.            *)
LEMMA AbandonKeeps ==
  ASSUME FenceInv, NEW w \in Workers, Abandon(w), UNCHANGED runtimeVars
  PROVE  FenceInv'
<1>1. Busy(w) /\ worker[w].step \notin Inside
  BY DEF Abandon, Busy, Inside
<1>2. lock # w
  BY <1>1, ComposeAssumption DEF FenceInv, LockOK
<1>3. /\ worker' = [worker EXCEPT ![w] = Idle]
      /\ lock' = lock
      /\ UNCHANGED <<holder, record, state, started, completed, register,
                     roots, active>>
  BY DEF Abandon, journalVars, runtimeVars
<1> QED
  BY <1>1, <1>2, <1>3, StopKeeps

(* The death of a worker preserves the invariant.                          *)
LEMMA CrashKeeps ==
  ASSUME FenceInv, NEW w \in Workers, Crash(w), UNCHANGED runtimeVars
  PROVE  FenceInv'
BY StopKeeps DEF Crash, Busy, ProcessEnds, journalVars, runtimeVars

(* A preflight that passes preserves the invariant.                        *)
LEMMA PreflightKeeps ==
  ASSUME FenceInv, NEW w \in Workers, Preflight(w, TRUE), UNCHANGED runtimeVars
  PROVE  FenceInv'
<1>1. worker \in [Workers -> WorkerRecord]
  BY DEF FenceInv, DurableTypeOK
<1>2. worker[w].at = "call" /\ worker[w].phase \in {"stage", "preflight"}
  BY <1>1 DEF Preflight, CallOf, WorkerRecord, Forwards, Acting
<1>3. Busy(w) /\ worker[w].step \notin Inside
  BY <1>2 DEF Busy, Preflight, Inside
<1>4. PICK s \in {"returned", "raised"} :
        worker' = [worker EXCEPT ![w].step = s]
  BY DEF Preflight
<1>5. Becomes(w, "call", worker[w].phase, s)
  BY SMT, <1>1, <1>2, <1>4 DEF Becomes, WorkerRecord, Outside
<1>6. UNCHANGED invVars
  BY DEF Preflight, journalVars, runtimeVars, invVars
<1>7. PlaceOK(w)'
  <2>1. PlaceOK(w)
    BY <1>3 DEF FenceInv
  <2>2. CallOf(w)' # "drain_previous"
    BY <1>2, <1>5 DEF CallOf, Becomes
  <2> QED
    BY <1>2, <1>5, <1>6, <2>1, <2>2
       DEF PlaceOK, Becomes, invVars, Behind, Acting, Inside, FencedPhases
<1>8. Latest(w)' => LatestOK(w)'
  <2>1. Latest(w)' => Latest(w)
    BY <1>2, <1>5, <1>6 DEF Becomes, Latest, Busy, invVars
  <2> QED
    BY <1>2, <1>5, <1>6, <2>1
       DEF Becomes, FenceInv, LatestOK, invVars, Acting, Forwards
<1> QED
  BY <1>3, <1>5, <1>6, <1>7, <1>8, StrollKeeps DEF Acting

(* A candidate that started goes to its check, which preserves the         *)
(* invariant.                                                              *)
LEMMA StartReturnedKeeps ==
  ASSUME FenceInv, NEW w \in Workers, PhaseReturned(w),
         worker[w].phase = "start_candidate", UNCHANGED runtimeVars
  PROVE  FenceInv'
<1>1. worker \in [Workers -> WorkerRecord]
  BY DEF FenceInv, DurableTypeOK
<1>2. worker[w].at = "call" /\ worker[w].step = "returned"
  BY DEF PhaseReturned
<1>3. Busy(w) /\ worker[w].step \notin Inside
  BY <1>2 DEF Busy, Inside
<1>4. Becomes(w, "check", "start_candidate", "none")
  <2> DEFINE y == [worker[w] EXCEPT !.at = "check", !.step = "none"]
  <2>1. worker' = [worker EXCEPT ![w] = y]
    BY <1>1 DEF PhaseReturned
  <2>2. y \in WorkerRecord
    BY ZenonT(60), <1>1 DEF WorkerRecord, Outside, Forwards
  <2> QED
    BY <1>1, <2>1, <2>2 DEF Becomes, WorkerRecord
<1>5. UNCHANGED invVars
  BY DEF PhaseReturned, journalVars, runtimeVars, invVars
<1>6. PlaceOK(w)'
  <2>1. PlaceOK(w)
    BY <1>3 DEF FenceInv
  <2>2. Entered(w)'
    BY <1>2, <1>4, <1>5, <2>1
       DEF PlaceOK, FencedPhases, Entered, Becomes, invVars
  <2>3. CallOf(w)' = "check"
    BY <1>4 DEF CallOf, Becomes
  <2> QED
    BY SMT, <1>2, <1>4, <1>5, <2>1, <2>2, <2>3
       DEF PlaceOK, Becomes, invVars, Behind, Acting, Inside
<1>7. Latest(w)' => LatestOK(w)'
  <2>1. Latest(w)' => Latest(w)
    BY <1>2, <1>4, <1>5 DEF Becomes, Latest, Busy, invVars
  <2> QED
    BY <1>2, <1>4, <1>5, <2>1
       DEF Becomes, FenceInv, LatestOK, invVars, Acting, Forwards
<1> QED
  BY SMT, <1>3, <1>4, <1>5, <1>6, <1>7, StrollKeeps DEF Acting

(* The last look at the controls preserves the invariant.                  *)
LEMMA CheckpointKeeps ==
  ASSUME FenceInv, NEW w \in Workers, Checkpoint(w), UNCHANGED runtimeVars
  PROVE  FenceInv'
<1>1. worker \in [Workers -> WorkerRecord]
  BY DEF FenceInv, DurableTypeOK
<1>2. Busy(w) /\ worker[w].at = "checkpoint"
  BY DEF Checkpoint, Busy
<1>3. worker[w].step \notin Inside /\ worker[w].step = "none"
  BY <1>2 DEF FenceInv, PlaceOK, Acting, Inside
<1>4. Becomes(w, "commit", worker[w].phase, "none")
  <2> DEFINE y == [worker[w] EXCEPT !.at = "commit"]
  <2>1. worker' = [worker EXCEPT ![w] = y]
    BY <1>1 DEF Checkpoint
  <2>2. y \in WorkerRecord
    BY SMT, <1>1 DEF WorkerRecord, Forwards
  <2> QED
    BY <1>1, <1>3, <2>1, <2>2 DEF Becomes, WorkerRecord
<1>5. UNCHANGED invVars
  BY DEF Checkpoint, journalVars, runtimeVars, invVars
<1>6. PlaceOK(w)'
  <2>1. PlaceOK(w)
    BY <1>2 DEF FenceInv
  <2>2. CallOf(w)' = "commit"
    BY <1>4 DEF CallOf, Becomes
  <2> QED
    BY <1>2, <1>4, <1>5, <2>1, <2>2
       DEF PlaceOK, Becomes, invVars, Acting, Inside
<1>7. Latest(w)' => LatestOK(w)'
  <2>1. Latest(w)' => Latest(w)
    BY <1>2, <1>4, <1>5 DEF Becomes, Latest, Busy, invVars
  <2> QED
    BY <1>2, <1>4, <1>5, <2>1
       DEF Becomes, FenceInv, LatestOK, invVars, Acting, Forwards
<1> QED
  BY <1>2, <1>3, <1>4, <1>5, <1>6, <1>7, StrollKeeps DEF Acting

-----------------------------------------------------------------------------
(* Who is on the way to the runtime, and what that says of the operation.  *)
LEMMA ReachesPlace ==
  ASSUME FenceInv, NEW v \in Workers, Reaches(v)
  PROVE  /\ worker[v].op \in Operations
         /\ "start_candidate" \in started[worker[v].op]
         /\ \/ worker[v].at \in Acting
            \/ /\ worker[v].at = "call"
               /\ worker[v].phase \in FencedPhases
               /\ ~(worker[v].phase = "drain_previous"
                      /\ worker[v].previous = NoRevision)
<1>1. Busy(v) /\ PlaceOK(v) /\ worker[v].op \in Operations
  BY DEF FenceInv, Reaches, TokenOK
<1>2. worker[v] \in WorkerRecord
  BY DEF FenceInv, DurableTypeOK
<1>3. \/ worker[v].at \in Acting
      \/ /\ worker[v].at = "call"
         /\ worker[v].phase \in FencedPhases
         /\ ~(worker[v].phase = "drain_previous"
                /\ worker[v].previous = NoRevision)
  <2>1. CASE lock = v
    <3>1. worker[v].step \in Inside
      BY <2>1, ComposeAssumption DEF FenceInv, LockOK
    <3>2. CallOf(v) \in BackendCalls
      BY <1>1, <3>1 DEF PlaceOK
    <3>3. CASE worker[v].at # "call"
      <4>1. worker[v].at \in BackendCalls
        BY <3>2, <3>3 DEF CallOf
      <4>2. worker[v].at \in Acting
        BY <1>2, <4>1, CallFacts DEF WorkerRecord, Forwards, Acting
      <4> QED
        BY <4>2
    <3>4. CASE worker[v].at = "call"
      <4>1. CallOf(v) = worker[v].phase
        BY <3>4 DEF CallOf
      <4>2. worker[v].phase \in PhaseNames \cup {"none"}
        BY <1>2 DEF WorkerRecord
      <4>3. worker[v].phase \in FencedPhases
        BY <3>2, <4>1, <4>2, CallFacts, PhaseFacts DEF FencedPhases
      <4>4. worker[v].phase = "drain_previous" => worker[v].previous # NoRevision
        BY <1>1, <3>1, <4>1 DEF PlaceOK
      <4> QED
        BY <3>4, <4>3, <4>4
    <3> QED
      BY <3>3, <3>4
  <2>2. CASE lock # v
    BY <2>2 DEF Reaches
  <2> QED
    BY <2>1, <2>2
<1>4. "start_candidate" \in started[worker[v].op]
  <2>1. CASE worker[v].at \in Acting
    BY <1>1, <2>1 DEF PlaceOK
  <2>2. CASE worker[v].at = "call" /\ worker[v].phase = "start_candidate"
    BY <1>1, <2>2 DEF PlaceOK
  <2>3. CASE worker[v].at = "call"
             /\ worker[v].phase \in {"switch_traffic", "drain_previous"}
    <3>1. PICK k \in 1..7 : /\ worker[v].phase = Phases[k]
                            /\ Behind(worker[v].op, k)
      BY <1>1, <2>3, PhaseFacts DEF PlaceOK
    <3>2. k \in {5, 7}
      <4>1. k \in {1, 2, 3, 4, 5, 6, 7}
        BY SMT
      <4> QED
        BY <2>3, <3>1, <4>1, PhaseFacts
    <3>3. Phases[3] \in completed[worker[v].op]
      BY SMT, <3>1, <3>2, PhaseFacts DEF Behind
    <3> QED
      BY <1>1, <3>3, PhaseFacts DEF FenceInv, RevisionsOK
  <2> QED
    BY <1>3, <2>1, <2>2, <2>3 DEF FencedPhases
<1> QED
  BY <1>1, <1>3, <1>4

(* The holder of the newest token is ahead of everybody else, and nobody   *)
(* else reaches the runtime once it has entered.                           *)
LEMMA OlderWorkers ==
  ASSUME FenceInv, NEW w \in Workers, Latest(w), NEW v \in Workers, v # w,
         Busy(v)
  PROVE  /\ worker[v].token < worker[w].token
         /\ Reaches(v) => ~Entered(w)
         /\ worker[w].previous = NoRevision => worker[v].previous = NoRevision
<1>1. /\ worker[v].token \in Nat /\ worker[w].token \in Nat
      /\ holder.token \in Nat /\ record.token \in Nat
  BY DEF FenceInv, DurableTypeOK, WorkerRecord
<1>2. /\ worker[v].token <= holder.token
      /\ worker[w].token = holder.token
      /\ PairOK(v, w)
  BY DEF FenceInv, TokenOK, Latest
<1>3. worker[v].token < worker[w].token
  BY SMT, <1>1, <1>2 DEF PairOK
<1>4. Reaches(v) => ~Entered(w)
  BY SMT, <1>1, <1>3 DEF Reaches, Entered
<1> QED
  BY <1>2, <1>3, <1>4 DEF PairOK

(* The journal accepts a write only from the last worker, whose operation  *)
(* is then open.                                                           *)
LEMMA WritableLatest ==
  ASSUME FenceInv, NEW w \in Workers, Busy(w), Writable(w)
  PROVE  /\ Latest(w) /\ LatestOK(w)
         /\ TokenOK(w) /\ PlaceOK(w)
         /\ worker[w].op \in Operations
         /\ Open(worker[w].op)
BY DEF FenceInv, Writable, Holds, Fence, Latest, TokenOK

-----------------------------------------------------------------------------
(* The end of a compensating call preserves the invariant.                 *)
LEMMA CompensatedKeeps ==
  ASSUME FenceInv, NEW w \in Workers, Compensated(w), UNCHANGED runtimeVars
  PROVE  FenceInv'
<1>1. worker \in [Workers -> WorkerRecord]
  BY DEF FenceInv, DurableTypeOK
<1>2. worker[w].at \in Acting /\ worker[w].step \in {"returned", "raised"}
  BY DEF Compensated, Acting
<1>3. Busy(w) /\ worker[w].step \notin Inside
  BY <1>2 DEF Busy, Inside, Acting
<1>4. PlaceOK(w)
  BY <1>3 DEF FenceInv
<1>5. UNCHANGED invVars
  BY DEF Compensated, journalVars, runtimeVars, invVars
<1>6. CASE worker[w].step = "returned" /\ worker[w].at # "remove"
  <2>1. Becomes(w, "remove", worker[w].phase, "begin")
    <3> DEFINE y == [worker[w] EXCEPT !.at = "remove", !.step = "begin"]
    <3>1. worker' = [worker EXCEPT ![w] = y]
      BY <1>1, <1>6 DEF Compensated
    <3>2. y \in WorkerRecord
      BY ZenonT(60), <1>1 DEF WorkerRecord, Outside, Acting
    <3> QED
      BY <1>1, <3>1, <3>2 DEF Becomes, WorkerRecord
  <2>2. Quiet(w) /\ LockOK' /\ lock' # w
    BY <1>3, <1>5, <2>1, StrollQuiet
  <2>3. PlaceOK(w)'
    <3>1. CallOf(w)' = "remove"
      BY <2>1 DEF CallOf, Becomes
    <3> QED
      BY <1>2, <1>4, <1>5, <2>1, <3>1
         DEF PlaceOK, Becomes, invVars, Acting, Inside
  <2>4. Entered(w) => Entered(w)'
    BY <1>5, <2>1 DEF Entered, Becomes, invVars
  <2>5. Latest(w)' => LatestOK(w)'
    <3>1. Latest(w)' => Latest(w)
      BY <1>3, <1>5, <2>1 DEF Becomes, Latest, invVars
    <3> QED
      BY <1>2, <1>5, <2>1, <2>4, <3>1
         DEF Becomes, FenceInv, LatestOK, invVars, Acting, Forwards
  <2>6. Reaches(w)' => ReachOK(w)'
    <3>1. Reaches(w)' => Reaches(w)
      BY <1>2, <1>3, <1>5, <2>1 DEF Reaches, Becomes, invVars
    <3> QED
      BY <1>5, <2>1, <3>1
         DEF FenceInv, ReachOK, Becomes, invVars, Open
  <2> QED
    BY <2>2, <2>3, <2>5, <2>6, QuietKeeps
<1>7. CASE ~(worker[w].step = "returned" /\ worker[w].at # "remove")
  <2>1. Becomes(w, "conclude", worker[w].phase, "none")
    <3> DEFINE f == worker[w].step = "raised"
               y == [worker[w] EXCEPT !.at = "conclude", !.step = "none",
                                      !.failed = f]
    <3>1. worker' = [worker EXCEPT ![w] = y]
      BY <1>1, <1>7 DEF Compensated
    <3>2. f \in BOOLEAN
      OBVIOUS
    <3> HIDE DEF f
    <3>3. y \in WorkerRecord
      BY ZenonT(60), <1>1, <3>2 DEF WorkerRecord, Outside
    <3> QED
      BY <1>1, <3>1, <3>3 DEF Becomes, WorkerRecord
  <2>2. PlaceOK(w)'
    <3>1. CallOf(w)' = "conclude"
      BY <2>1 DEF CallOf, Becomes
    <3> QED
      BY <1>2, <1>4, <1>5, <2>1, <3>1
         DEF PlaceOK, Becomes, invVars, Acting, Inside
  <2>3. Entered(w) => Entered(w)'
    BY <1>5, <2>1 DEF Entered, Becomes, invVars
  <2>4. Latest(w)' => LatestOK(w)'
    <3>1. Latest(w)' => Latest(w)
      BY <1>3, <1>5, <2>1 DEF Becomes, Latest, invVars
    <3> QED
      BY <1>2, <1>5, <2>1, <2>3, <3>1
         DEF Becomes, FenceInv, LatestOK, invVars, Acting, Forwards
  <2> QED
    BY SMT, <1>3, <1>5, <2>1, <2>2, <2>4, StrollKeeps DEF Acting
<1> QED
  BY <1>6, <1>7

-----------------------------------------------------------------------------
(* The steps that write to the journal.                                    *)
LEMMA BeforePhaseKeeps ==
  ASSUME FenceInv, NEW w \in Workers, BeforePhase(w), UNCHANGED runtimeVars
  PROVE  FenceInv'
<1>1. worker \in [Workers -> WorkerRecord] /\ DurableTypeOK
  BY DEF FenceInv, DurableTypeOK
<1>2. Busy(w) /\ worker[w].at = "before"
  BY DEF BeforePhase, Busy
<1>3. /\ Latest(w) /\ LatestOK(w) /\ PlaceOK(w) /\ Open(worker[w].op)
  BY <1>2, WritableLatest DEF BeforePhase
<1>4. PICK o \in Operations : o = worker[w].op
  BY <1>2, WritableLatest DEF BeforePhase
<1>5. PICK k \in 1..7 : worker[w].phase = Phases[k] /\ Behind(o, k)
  BY <1>2, <1>3, <1>4, PhaseFacts DEF PlaceOK
<1>6. PICK p \in PhaseNames : p = worker[w].phase
  BY <1>5, PhaseFacts DEF PhaseNames
<1>7. /\ started' = [started EXCEPT ![o] = started[o] \cup {p}]
      /\ UNCHANGED <<holder, lock, record, state, completed, register, roots,
                     active>>
  BY <1>4, <1>6 DEF BeforePhase, runtimeVars
<1>8. /\ \A q \in Operations : started[q] \subseteq started'[q]
      /\ p \in started'[o]
      /\ started' \in [Operations -> SUBSET PhaseNames]
  BY SMT, <1>1, <1>4, <1>6, <1>7 DEF DurableTypeOK
<1> DEFINE verify == p \in {"readiness_verify", "external_verify"}
           a == IF verify THEN "check" ELSE "call"
           s == IF verify THEN "none" ELSE "begin"
<1>9. Becomes(w, a, p, s)
  <2> DEFINE y == [worker[w] EXCEPT !.at = a, !.step = s]
  <2>1. worker' = [worker EXCEPT ![w] = y]
    BY <1>1, <1>6 DEF BeforePhase
  <2>2. a \in {"check", "call"} /\ s \in {"none", "begin"}
    OBVIOUS
  <2> HIDE DEF a, s
  <2>3. y \in WorkerRecord
    BY ZenonT(60), <1>1, <2>2 DEF WorkerRecord, Outside, Forwards
  <2> QED
    BY <1>1, <1>6, <2>1, <2>3 DEF Becomes, WorkerRecord
<1>10. Goes(w)
  <2>1. DurableTypeOK'
    BY <1>1, <1>7, <1>8, <1>9 DEF DurableTypeOK, Becomes
  <2>2. record.token \in Nat /\ holder.token \in Nat
    BY <1>1 DEF DurableTypeOK
  <2>3. record.token <= holder.token
    BY DEF FenceInv
  <2> QED
    BY SMTT(60), <1>2, <1>3, <1>7, <1>8, <1>9, <2>1, <2>2, <2>3
       DEF Goes, Becomes, Busy
<1>11. PlaceOK(w)'
  <2>1. CallOf(w)' \in {p, "check"}
    BY <1>9 DEF CallOf, Becomes
  <2>2. Behind(o, k)'
    BY <1>5, <1>7 DEF Behind
  <2>3. worker'[w].op = o
    BY <1>4, <1>9 DEF Becomes
  <2>4. k \in 1..Len(Phases) /\ p = Phases[k]
    BY ZenonT(60), <1>5, <1>6, PhaseFacts
  <2> QED
    BY <1>7, <1>8, <1>9, <2>1, <2>2, <2>3, <2>4
       DEF PlaceOK, Becomes, Acting, Inside, FencedPhases
<1>12. LatestOK(w)'
  BY SMT, <1>2, <1>3, <1>4, <1>7, <1>9 DEF LatestOK, Becomes, Acting, Forwards
<1>13. lock # w
  <2>1. worker[w].step = "none"
    BY <1>2, <1>3 DEF PlaceOK, Acting
  <2> QED
    BY <2>1, ComposeAssumption DEF FenceInv, LockOK, Inside
<1>14. ReachOK(w)'
  BY <1>2, <1>3, <1>4, <1>6, <1>7, <1>9 DEF ReachOK, LatestOK, Becomes, Open
<1>15. ASSUME NEW v \in Workers, v # w, Reaches(v)
       PROVE  ReachOK(v)'
  BY <1>7, <1>9, <1>15 DEF FenceInv, ReachOK, Becomes, Open
<1>16. LockOK'
  <2>1. CASE lock = NoWorker
    BY <1>7, <2>1 DEF LockOK
  <2>2. CASE lock # NoWorker
    <3>1. lock \in Workers
      BY <1>1, <2>2 DEF DurableTypeOK
    <3>2. worker'[lock] = worker[lock] /\ lock' = lock /\ record' = record
      BY SMTT(60), <1>7, <1>9, <1>13, <3>1 DEF Becomes
    <3> QED
      BY <2>2, <3>2 DEF FenceInv, LockOK, Busy
  <2> QED
    BY <2>1, <2>2
<1>17. RevisionsOK'
  <2>1. RevisionsOK
    BY DEF FenceInv
  <2>2. ASSUME NEW v \in Workers, Busy(v)'
        PROVE  Busy(v) /\ worker'[v].previous = worker[v].previous
    BY ZenonT(60), <1>10, <2>2 DEF Goes, Busy
  <2> QED
    BY SMT, <1>7, <1>8, <2>1, <2>2 DEF RevisionsOK
<1> QED
  BY <1>10, <1>11, <1>12, <1>14, <1>15, <1>16, <1>17, GoesKeeps

(* The completion of a phase preserves the invariant: its call was made    *)
(* inside the runtime fence, so older workers are kept out from then on.   *)
LEMMA CompletePhaseKeeps ==
  ASSUME FenceInv, NEW w \in Workers, CompletePhase(w), UNCHANGED runtimeVars,
         \/ worker[w].at = "call" /\ worker[w].step = "returned"
              /\ worker[w].phase # "start_candidate"
         \/ worker[w].at = "check" /\ Observed(w)
  PROVE  FenceInv'
<1>1. worker \in [Workers -> WorkerRecord] /\ DurableTypeOK
  BY DEF FenceInv, DurableTypeOK
<1>2. Busy(w) /\ worker[w].at \in {"call", "check"}
  BY DEF Busy
<1>3. /\ Latest(w) /\ LatestOK(w) /\ PlaceOK(w) /\ Open(worker[w].op)
  BY <1>2, WritableLatest DEF CompletePhase
<1>4. PICK o \in Operations : o = worker[w].op
  BY <1>2, WritableLatest DEF CompletePhase
<1>5. PICK k \in 1..7 : worker[w].phase = Phases[k] /\ Behind(o, k)
  BY <1>2, <1>3, <1>4, PhaseFacts DEF PlaceOK
<1>6. PICK p \in PhaseNames : p = worker[w].phase
  BY <1>5, PhaseFacts DEF PhaseNames
<1>7. PICK done \in SUBSET PhaseNames : done = completed[o] \cup {p}
  BY <1>1, <1>6 DEF DurableTypeOK
<1>8. /\ completed' = [completed EXCEPT ![o] = done]
      /\ UNCHANGED <<holder, lock, record, state, started, register, roots,
                     active>>
      /\ worker' = [worker EXCEPT ![w] = Forward(worker[w], Index(p) + 1, done)]
  BY <1>1, <1>4, <1>6, <1>7 DEF CompletePhase, runtimeVars
<1>9. \A q \in Operations :
        completed'[q] = IF q = o THEN done ELSE completed[q]
  BY <1>1, <1>8 DEF DurableTypeOK
<1>10. PICK y \in WorkerRecord :
         worker' = [worker EXCEPT ![w] = y] /\ Ahead(y, worker[w], done)
  <2>1. Index(p) = k
    BY <1>5, <1>6, PhaseFacts
  <2>2. PICK i \in 1..8 : i = k + 1
    BY SMT
  <2>3. \A j \in 1..7 : j < k => Phases[j] \in completed[o]
    BY <1>5, PhaseFacts DEF Behind
  <2>4. \A j \in 1..7 : j < i => j < k \/ j = k
    BY SMT, <2>2
  <2>5. Past(i, done)
    BY <1>5, <1>6, <1>7, <2>3, <2>4 DEF Past
  <2>6. PICK r \in WorkerRecord : r = worker[w]
    BY <1>1
  <2>7. Ahead(Forward(r, i, done), r, done)
    BY <2>5, ForwardGoes
  <2>8. worker' = [worker EXCEPT ![w] = Forward(r, i, done)]
    BY <1>8, <2>1, <2>2, <2>6
  <2>9. Forward(r, i, done) \in WorkerRecord
    BY <2>7 DEF Ahead
  <2> QED
    BY <2>6, <2>7, <2>8, <2>9
<1>11. /\ \A v \in Workers : v # w => worker'[v] = worker[v]
       /\ worker'[w] = y
       /\ worker' \in [Workers -> WorkerRecord]
  BY <1>1, <1>10
<1>12. /\ y.at \in {"checkpoint", "check", "before"} /\ y.step = "none"
       /\ y.op = o /\ y.token = worker[w].token
       /\ y.previous = worker[w].previous
  BY <1>4, <1>10 DEF Ahead
<1>13. completed[o] \subseteq started[o] /\ p \in started[o]
  BY <1>2, <1>3, <1>4, <1>6 DEF FenceInv, RevisionsOK, PlaceOK
<1>14. Goes(w)
  <2>1. DurableTypeOK'
    <3>1. completed' \in [Operations -> SUBSET PhaseNames]
      BY <1>1, <1>8 DEF DurableTypeOK
    <3> QED
      BY <1>1, <1>8, <1>11, <3>1 DEF DurableTypeOK
  <2>2. record.token \in Nat /\ holder.token \in Nat
    BY <1>1 DEF DurableTypeOK
  <2>3. record.token <= holder.token
    BY DEF FenceInv
  <2>4. \A q \in Operations : completed[q] \subseteq completed'[q]
    BY <1>7, <1>9
  <2>5. Busy(w)'
    BY <1>11, <1>12 DEF Busy
  <2> QED
    BY SMT, <1>2, <1>3, <1>4, <1>8, <1>11, <1>12, <2>1, <2>2, <2>3, <2>4, <2>5
       DEF Goes
<1>15. PlaceOK(w)'
  <2>1. CallOf(w)' = y.at
    BY <1>11, <1>12 DEF CallOf
  <2>2. completed'[o] = done /\ started' = started
    BY <1>8, <1>9
  <2>3. CASE y.at = "checkpoint" /\ PhaseNames \subseteq done
    BY <1>11, <1>12, <2>1, <2>2, <2>3 DEF PlaceOK, Acting, Inside
  <2>4. CASE ~(y.at = "checkpoint" /\ PhaseNames \subseteq done)
    <3>1. PICK j \in 1..7 :
            /\ y.phase = Phases[j]
            /\ Past(j, done)
            /\ y.at = IF Phases[j] \in done THEN "check" ELSE "before"
      BY <1>10, <2>4 DEF Ahead
    <3>2. Behind(o, j)'
      BY <2>2, <3>1, PhaseFacts DEF Behind, Past
    <3>3. y.at = "check" => y.phase \in done /\ y.phase \in started[o]
      BY <1>7, <1>13, <3>1
    <3>4. j \in 1..Len(Phases)
      BY ZenonT(60), PhaseFacts
    <3> QED
      BY <1>11, <1>12, <2>1, <2>2, <3>1, <3>2, <3>3, <3>4
         DEF PlaceOK, Acting, Inside
  <2> QED
    BY <2>3, <2>4
<1>16. LatestOK(w)'
  <2>1. y.at = "before" => y.phase \notin done
    BY <1>10 DEF Ahead
  <2>2. state[o] = "executing"
    BY <1>2, <1>3, <1>4 DEF LatestOK, Forwards
  <2> QED
    BY SMT, <1>3, <1>8, <1>9, <1>11, <1>12, <2>1, <2>2
       DEF LatestOK, Acting, Forwards
<1>17. lock # w
  <2>1. worker[w].step \notin Inside
    BY <1>3 DEF PlaceOK, Acting, Inside
  <2> QED
    BY <2>1, ComposeAssumption DEF FenceInv, LockOK
<1>18. ~Reaches(w)'
  BY <1>8, <1>11, <1>12, <1>17 DEF Reaches, Acting
<1>19. ASSUME NEW v \in Workers, v # w, Reaches(v)
       PROVE  ReachOK(v)'
  <2>1. /\ ReachOK(v) /\ worker'[v] = worker[v] /\ Busy(v)
        /\ state' = state /\ worker[v].op \in Operations
    BY <1>8, <1>11, <1>19, ReachesPlace DEF FenceInv, Reaches
  <2>2. CASE worker[v].op # o \/ worker[v].at # "call" \/ worker[v].phase # p
    BY SMT, <1>7, <1>9, <2>1, <2>2 DEF ReachOK, Open
  <2>3. CASE worker[v].op = o /\ worker[v].at = "call" /\ worker[v].phase = p
    <3>1. /\ p \in FencedPhases
          /\ ~(p = "drain_previous" /\ worker[v].previous = NoRevision)
      BY <1>19, <2>3, ReachesPlace DEF Acting
    <3>2. p \notin completed[o]
      BY <2>1, <2>3 DEF ReachOK
    <3>3. /\ ~Entered(w)
          /\ worker[w].previous = NoRevision => worker[v].previous = NoRevision
      BY <1>3, <1>19, <2>1, OlderWorkers
    <3> QED
      BY <1>3, <1>4, <1>6, <3>1, <3>2, <3>3 DEF PlaceOK
  <2> QED
    BY <2>2, <2>3
<1>20. LockOK'
  <2>1. CASE lock = NoWorker
    BY <1>8, <2>1 DEF LockOK
  <2>2. CASE lock # NoWorker
    <3>1. lock \in Workers
      BY <1>1, <2>2 DEF DurableTypeOK
    <3>2. worker'[lock] = worker[lock] /\ lock' = lock /\ record' = record
      BY <1>8, <1>11, <1>17, <3>1
    <3> QED
      BY <2>2, <3>2 DEF FenceInv, LockOK, Busy
  <2> QED
    BY <2>1, <2>2
<1>21. RevisionsOK'
  <2>1. RevisionsOK
    BY DEF FenceInv
  <2>2. ASSUME NEW v \in Workers, Busy(v)'
        PROVE  Busy(v) /\ worker'[v].previous = worker[v].previous
    BY <1>14, <2>2 DEF Goes, Busy
  <2>3. p = "start_candidate" => RevisionOf[o] \in roots
    BY <1>4, <1>6 DEF Observed, Candidate
  <2>4. ASSUME NEW q \in Operations
        PROVE  /\ completed'[q] \subseteq started'[q]
               /\ "start_candidate" \in completed'[q]
                    /\ state'[q] \in {"accepted", "executing", "succeeded"}
                    => RevisionOf[q] \in roots'
    <3>1. /\ completed[q] \subseteq started[q]
          /\ "start_candidate" \in completed[q]
               /\ state[q] \in {"accepted", "executing", "succeeded"}
               => RevisionOf[q] \in roots
      BY <2>1 DEF RevisionsOK
    <3>2. CASE q = o
      BY SMT, <1>7, <1>8, <1>9, <1>13, <2>3, <3>1, <3>2
    <3>3. CASE q # o
      BY <1>8, <1>9, <3>1, <3>3
    <3> QED
      BY <3>2, <3>3
  <2> QED
    BY <1>8, <2>1, <2>2, <2>4 DEF RevisionsOK
<1> QED
  BY SMT, <1>14, <1>15, <1>16, <1>18, <1>19, <1>20, <1>21, GoesKeeps

(* The choice of a compensation preserves the invariant.                   *)
LEMMA UndoKeeps ==
  ASSUME FenceInv, NEW w \in Workers, Undo(w), UNCHANGED runtimeVars
  PROVE  FenceInv'
<1>1. worker \in [Workers -> WorkerRecord] /\ DurableTypeOK
  BY DEF FenceInv, DurableTypeOK
<1>2. Busy(w) /\ worker[w].at = "undo"
  BY DEF Undo, Busy
<1>3. /\ Latest(w) /\ LatestOK(w) /\ PlaceOK(w) /\ Open(worker[w].op)
  BY <1>2, WritableLatest DEF Undo
<1>4. PICK o \in Operations : o = worker[w].op
  BY <1>2, WritableLatest DEF Undo
<1>5. PICK c \in {"cancelling", "compensating"} :
        state' = [state EXCEPT ![o] = c]
  BY <1>4 DEF Undo
<1>6. UNCHANGED <<holder, lock, record, started, completed, register, roots,
                  active>>
  BY DEF Undo, runtimeVars
<1>7. \A q \in Operations : state'[q] = IF q = o THEN c ELSE state[q]
  BY <1>1, <1>5 DEF DurableTypeOK
<1>8. PICK a \in Acting \cup {"conclude"} :
        /\ a = Compensation(w)
        /\ a = "conclude" <=> "start_candidate" \notin started[o]
        /\ a = "restore" => worker[w].previous # NoRevision
        /\ a = "remove" => "switch_traffic" \notin started[o]
  <2>1. CASE "start_candidate" \notin started[o]
    BY SMT, <1>4, <2>1 DEF Compensation
  <2>2. CASE /\ "start_candidate" \in started[o]
             /\ worker[w].previous # NoRevision
    BY SMT, <1>4, <2>2 DEF Compensation, Acting
  <2>3. CASE /\ "start_candidate" \in started[o]
             /\ worker[w].previous = NoRevision
             /\ "switch_traffic" \in started[o]
    BY SMT, <1>4, <2>3 DEF Compensation, Acting
  <2>4. CASE /\ "start_candidate" \in started[o]
             /\ worker[w].previous = NoRevision
             /\ "switch_traffic" \notin started[o]
    BY SMT, <1>4, <2>4 DEF Compensation, Acting
  <2> QED
    BY <2>1, <2>2, <2>3, <2>4
<1> DEFINE s == IF a = "conclude" THEN "none" ELSE "begin"
<1>9. Becomes(w, a, worker[w].phase, s)
  <2> DEFINE y == [worker[w] EXCEPT !.at = a, !.step = s]
  <2>1. worker' = [worker EXCEPT ![w] = y]
    BY <1>1, <1>8 DEF Undo
  <2>2. y \in WorkerRecord
    BY ZenonT(60), <1>1, <1>8 DEF WorkerRecord, Outside, Acting
  <2> QED
    BY SMT, <1>1, <2>1, <2>2 DEF Becomes, WorkerRecord
<1>10. Goes(w)
  <2>1. DurableTypeOK'
    <3>1. state' \in [Operations -> {"accepted", "executing", "compensating",
                                     "cancelling"} \cup TerminalStates]
      BY <1>1, <1>5 DEF DurableTypeOK
    <3> QED
      BY <1>1, <1>6, <1>9, <3>1 DEF DurableTypeOK, Becomes
  <2>2. record.token \in Nat /\ holder.token \in Nat
    BY <1>1 DEF DurableTypeOK
  <2>3. record.token <= holder.token
    BY DEF FenceInv
  <2>4. Busy(w)'
    BY <1>8, <1>9 DEF Acting, Becomes, Busy
  <2> QED
    BY SMTT(60), <1>2, <1>3, <1>6, <1>7, <1>9, <2>1, <2>2, <2>3, <2>4
       DEF Goes, Becomes
<1>11. PlaceOK(w)'
  <2>1. a \notin {"before", "check", "call", "checkpoint", "commit"}
    BY <1>8 DEF Acting
  <2>2. CallOf(w)' = a
    BY <1>9, <2>1 DEF CallOf, Becomes
  <2>3. a # "drain_previous" /\ (a \notin Acting => a = "conclude")
    BY <1>8 DEF Acting
  <2>4. worker'[w].op = o /\ started' = started
    BY <1>4, <1>6, <1>9 DEF Becomes
  <2> QED
    BY <1>7, <1>8, <1>9, <2>1, <2>2, <2>3, <2>4
       DEF PlaceOK, Becomes, Inside, Acting
<1>12. LatestOK(w)'
  BY <1>3, <1>4, <1>6, <1>8, <1>9 DEF LatestOK, Becomes, Acting, Forwards
<1>13. lock # w
  <2>1. worker[w].step = "none"
    BY <1>2, <1>3 DEF PlaceOK, Acting
  <2> QED
    BY <2>1, ComposeAssumption DEF FenceInv, LockOK, Inside
<1>14. ReachOK(w)'
  BY <1>4, <1>7, <1>8, <1>9 DEF ReachOK, Becomes, Open, Acting, TerminalStates
<1>15. ASSUME NEW v \in Workers, v # w, Reaches(v)
       PROVE  ReachOK(v)'
  <2>1. ReachOK(v) /\ worker'[v] = worker[v] /\ worker[v].op \in Operations
    BY <1>9, <1>15, ReachesPlace DEF FenceInv, Becomes
  <2> QED
    BY <1>6, <1>7, <2>1 DEF ReachOK, Open, TerminalStates
<1>16. LockOK'
  <2>1. CASE lock = NoWorker
    BY <1>6, <2>1 DEF LockOK
  <2>2. CASE lock # NoWorker
    <3>1. lock \in Workers
      BY <1>1, <2>2 DEF DurableTypeOK
    <3>2. worker'[lock] = worker[lock] /\ lock' = lock /\ record' = record
      BY <1>6, <1>9, <1>13, <3>1 DEF Becomes
    <3> QED
      BY <2>2, <3>2 DEF FenceInv, LockOK, Busy
  <2> QED
    BY <2>1, <2>2
<1>17. RevisionsOK'
  <2>1. RevisionsOK
    BY DEF FenceInv
  <2>2. ASSUME NEW v \in Workers, Busy(v)'
        PROVE  Busy(v) /\ worker'[v].previous = worker[v].previous
    BY <1>10, <2>2 DEF Goes, Busy
  <2>3. \A q \in Operations :
          /\ register = RevisionOf[q] => state'[q] = "succeeded"
          /\ state'[q] \in {"accepted", "executing", "succeeded"} =>
               state[q] \in {"accepted", "executing", "succeeded"}
    BY <1>3, <1>4, <1>7, <2>1 DEF RevisionsOK, Open, TerminalStates
  <2> QED
    BY <1>6, <2>1, <2>2, <2>3 DEF RevisionsOK
<1> QED
  BY <1>10, <1>11, <1>12, <1>14, <1>15, <1>16, <1>17, GoesKeeps

(* Once an operation has its receipt, nobody is on the way to the runtime  *)
(* on its behalf.                                                          *)
LEMMA FinishKeeps ==
  ASSUME FenceInv, NEW w \in Workers, NEW outcome \in TerminalStates,
         NEW named, Busy(w), worker[w].at \in {"commit", "conclude"},
         Finish(w, outcome, named), UNCHANGED runtimeVars,
         \A v \in Workers : v # w /\ Reaches(v) =>
           worker[v].op # worker[w].op,
         register' \in Revisions \cup {NoRevision},
         RevisionsOK'
  PROVE  FenceInv'
<1>1. worker \in [Workers -> WorkerRecord] /\ DurableTypeOK
  BY DEF FenceInv, DurableTypeOK
<1>2. /\ Latest(w) /\ PlaceOK(w)
  BY WritableLatest DEF Finish
<1>3. PICK o \in Operations : o = worker[w].op
  BY WritableLatest DEF Finish
<1>4. /\ state' = [state EXCEPT ![o] = outcome]
      /\ worker' = [worker EXCEPT ![w] = Idle]
      /\ UNCHANGED <<lock, record, started, completed, roots, active>>
  BY <1>3 DEF Finish, runtimeVars
<1>5. \A q \in Operations : state'[q] = IF q = o THEN outcome ELSE state[q]
  BY <1>1, <1>4 DEF DurableTypeOK
<1>6. /\ \A v \in Workers : v # w => worker'[v] = worker[v]
      /\ worker' \in [Workers -> WorkerRecord]
      /\ ~Busy(w)' /\ worker'[w].step = "none"
  BY <1>1, <1>4 DEF Busy, Idle, WorkerRecord, Outside
<1>7. /\ holder'.token = holder.token
      /\ holder' \in [op : Operations \cup {NoOperation},
                      owner : Owners \cup {NoOwner}, token : Nat]
  BY <1>1 DEF Finish, Release, DurableTypeOK
<1>8. DurableTypeOK'
  <2>1. state' \in [Operations -> {"accepted", "executing", "compensating",
                                   "cancelling"} \cup TerminalStates]
    BY ZenonT(60), <1>1, <1>4 DEF DurableTypeOK
  <2> QED
    BY <1>1, <1>4, <1>6, <1>7, <2>1 DEF DurableTypeOK
<1>9. Goes(w)
  <2>1. record.token \in Nat /\ holder.token \in Nat
    BY <1>1 DEF DurableTypeOK
  <2>2. record.token <= holder.token
    BY DEF FenceInv
  <2>3. outcome \notin {"accepted", "executing"}
    BY DEF TerminalStates
  <2> QED
    BY SMT, <1>2, <1>4, <1>5, <1>6, <1>7, <1>8, <2>1, <2>2, <2>3 DEF Goes
<1>10. ~Latest(w)' /\ ~Reaches(w)'
  BY <1>6 DEF Latest, Reaches
<1>11. lock # w
  <2>1. worker[w].step = "none"
    BY <1>2 DEF PlaceOK, Acting
  <2> QED
    BY <2>1, ComposeAssumption DEF FenceInv, LockOK, Inside
<1>12. LockOK'
  <2>1. CASE lock = NoWorker
    BY <1>4, <2>1 DEF LockOK
  <2>2. CASE lock # NoWorker
    <3>1. lock \in Workers
      BY <1>1, <2>2 DEF DurableTypeOK
    <3>2. worker'[lock] = worker[lock] /\ lock' = lock /\ record' = record
      BY <1>4, <1>6, <1>11, <3>1
    <3> QED
      BY <2>2, <3>2 DEF FenceInv, LockOK, Busy
  <2> QED
    BY <2>1, <2>2
<1>13. ASSUME NEW v \in Workers, v # w, Reaches(v)
       PROVE  ReachOK(v)'
  <2>1. /\ ReachOK(v) /\ worker'[v] = worker[v] /\ worker[v].op \in Operations
        /\ worker[v].op # o
    BY <1>3, <1>6, <1>13, ReachesPlace DEF FenceInv
  <2> QED
    BY <1>4, <1>5, <2>1 DEF ReachOK, Open
<1> QED
  BY <1>6, <1>9, <1>10, <1>12, <1>13, GoesKeeps

(* The commit preserves the invariant: the candidate becomes the active    *)
(* revision of the journal, and every older worker is kept out of the      *)
(* runtime.                                                                *)
LEMMA CommitKeeps ==
  ASSUME FenceInv, NEW w \in Workers, Commit(w), UNCHANGED runtimeVars
  PROVE  FenceInv'
<1>1. Busy(w) /\ worker[w].at = "commit"
  BY DEF Commit, Busy
<1>2. /\ Latest(w) /\ LatestOK(w) /\ PlaceOK(w) /\ Open(worker[w].op)
  BY <1>1, WritableLatest DEF Commit, Finish
<1>3. PICK o \in Operations : o = worker[w].op
  BY <1>1, WritableLatest DEF Commit, Finish
<1>4. PhaseNames \subseteq completed[o] /\ state[o] = "executing"
  BY <1>1, <1>2, <1>3 DEF PlaceOK, LatestOK, Forwards
<1>5. ASSUME NEW v \in Workers, v # w, Reaches(v)
      PROVE  worker[v].op # worker[w].op
  <2> SUFFICES ASSUME worker[v].op = o PROVE FALSE
    BY <1>3
  <2>1. ReachOK(v) /\ PlaceOK(v)
    BY <1>5 DEF FenceInv, Reaches
  <2>2. CASE worker[v].at \in Acting
    BY <1>4, <2>1, <2>2 DEF PlaceOK
  <2>3. CASE worker[v].at = "call" /\ worker[v].phase \in FencedPhases
    <3>1. FencedPhases \subseteq PhaseNames
      BY PhaseFacts DEF FencedPhases
    <3> QED
      BY <1>4, <2>1, <2>3, <3>1 DEF ReachOK
  <2> QED
    BY <1>5, <2>2, <2>3, ReachesPlace
<1>6. RevisionOf[o] \in Revisions /\ register' = RevisionOf[o]
  BY <1>3, ComposeAssumption DEF Commit, Candidate
<1>7. RevisionsOK'
  <2>1. RevisionsOK /\ state \in [Operations -> {"accepted", "executing",
                 "compensating", "cancelling"} \cup TerminalStates]
    BY DEF FenceInv, DurableTypeOK
  <2>2. /\ state' = [state EXCEPT ![o] = "succeeded"]
        /\ worker' = [worker EXCEPT ![w] = Idle]
        /\ UNCHANGED <<started, completed, roots, active>>
    BY <1>3 DEF Commit, Finish, runtimeVars
  <2>3. ASSUME NEW v \in Workers, Busy(v)'
        PROVE  Busy(v) /\ worker'[v].previous = worker[v].previous
    <3>1. worker \in [Workers -> WorkerRecord]
      BY DEF FenceInv, DurableTypeOK
    <3> QED
      BY <2>2, <2>3, <3>1 DEF Busy, Idle
  <2>4. /\ "start_candidate" \in completed[o]
        /\ "switch_traffic" \in completed[o]
    BY <1>4, PhaseFacts
  <2>5. "switch_traffic" \in started[o] /\ RevisionOf[o] \in roots
    BY <1>4, <2>1, <2>4 DEF RevisionsOK
  <2>6. register' # NoRevision /\ register' \in roots'
    BY <1>6, <2>2, <2>5, ComposeAssumption
  <2>7. ASSUME NEW q \in Operations
        PROVE  /\ completed'[q] \subseteq started'[q]
               /\ register' = RevisionOf[q] => state'[q] = "succeeded"
               /\ RevisionOf[q] \in {register', active'} =>
                    "switch_traffic" \in started'[q]
               /\ \A v \in Workers :
                    Busy(v)' /\ worker'[v].previous = RevisionOf[q] =>
                      "switch_traffic" \in started'[q]
               /\ "start_candidate" \in completed'[q]
                    /\ state'[q] \in {"accepted", "executing", "succeeded"}
                    => RevisionOf[q] \in roots'
    <3>1. CASE q = o
      BY <2>1, <2>2, <2>3, <2>5, <3>1 DEF RevisionsOK
    <3>2. CASE q # o
      <4>1. RevisionOf[q] # register'
        BY <1>6, <3>2, ComposeAssumption
      <4>2. state'[q] = state[q]
        BY <2>1, <2>2, <3>2
      <4> QED
        BY <2>1, <2>2, <2>3, <4>1, <4>2 DEF RevisionsOK
    <3> QED
      BY <3>1, <3>2
  <2> QED
    BY <2>6, <2>7 DEF RevisionsOK
<1>8. "succeeded" \in TerminalStates
  BY DEF TerminalStates
<1>9. PICK named \in Revisions : named = Candidate(w)
  BY <1>3, <1>6 DEF Candidate
<1>10. Finish(w, "succeeded", named)
  BY <1>9 DEF Commit
<1> QED
  BY <1>1, <1>5, <1>6, <1>7, <1>8, <1>10, FinishKeeps

(* The failing end of an operation preserves the invariant.                *)
LEMMA ConcludeKeeps ==
  ASSUME FenceInv, NEW w \in Workers, Conclude(w), UNCHANGED runtimeVars
  PROVE  FenceInv'
<1>1. Busy(w) /\ worker[w].at = "conclude"
  BY DEF Conclude, Busy
<1>2. PICK outcome \in {"failed_uncompensated", "failed_compensated",
                        "cancelled"}, named \in Revisions \cup {NoRevision} :
        Finish(w, outcome, named)
  <2>1. worker[w].previous \in Revisions \cup {NoRevision}
    BY DEF FenceInv, DurableTypeOK, WorkerRecord
  <2>2. PICK r \in Revisions \cup {NoRevision} : r = worker[w].previous
    BY <2>1
  <2>3. CASE worker[w].failed
    BY <2>3 DEF Conclude
  <2>4. CASE ~worker[w].failed /\ worker[w].cancel
    <3>1. Finish(w, "cancelled", r)
      BY <2>2, <2>4 DEF Conclude
    <3> QED
      BY <3>1
  <2>5. CASE ~worker[w].failed /\ ~worker[w].cancel
    <3>1. Finish(w, "failed_compensated", r)
      BY <2>2, <2>5 DEF Conclude
    <3> QED
      BY <3>1
  <2> QED
    BY <2>3, <2>4, <2>5
<1>3. /\ Latest(w) /\ LatestOK(w) /\ PlaceOK(w) /\ Open(worker[w].op)
  BY <1>1, <1>2, WritableLatest DEF Finish
<1>4. PICK o \in Operations : o = worker[w].op
  BY <1>1, <1>2, WritableLatest DEF Finish
<1>5. ASSUME NEW v \in Workers, v # w, Reaches(v)
      PROVE  worker[v].op # worker[w].op
  <2>1. Busy(v)
    BY <1>5 DEF Reaches
  <2>2. ~Entered(w)
    BY <1>3, <1>5, <2>1, OlderWorkers
  <2>3. "start_candidate" \notin started[worker[w].op]
    BY <1>1, <1>3, <2>2 DEF LatestOK
  <2> QED
    BY <1>5, <2>3, ReachesPlace
<1>6. register' = register /\ register \in Revisions \cup {NoRevision}
  BY DEF Conclude, FenceInv, DurableTypeOK
<1>7. RevisionsOK'
  <2>1. RevisionsOK /\ state \in [Operations -> {"accepted", "executing",
                 "compensating", "cancelling"} \cup TerminalStates]
    BY DEF FenceInv, DurableTypeOK
  <2>2. /\ state' = [state EXCEPT ![o] = outcome]
        /\ worker' = [worker EXCEPT ![w] = Idle]
        /\ UNCHANGED <<started, completed, roots, active>>
    BY <1>2, <1>4 DEF Finish, runtimeVars
  <2>3. ASSUME NEW v \in Workers, Busy(v)'
        PROVE  Busy(v) /\ worker'[v].previous = worker[v].previous
    <3>1. worker \in [Workers -> WorkerRecord]
      BY DEF FenceInv, DurableTypeOK
    <3> QED
      BY <2>2, <2>3, <3>1 DEF Busy, Idle
  <2>4. \A q \in Operations :
          /\ register = RevisionOf[q] => state'[q] = "succeeded"
          /\ state'[q] \in {"accepted", "executing", "succeeded"} =>
               state[q] \in {"accepted", "executing", "succeeded"}
    BY <1>3, <1>4, <2>1, <2>2 DEF RevisionsOK, Open, TerminalStates
  <2> QED
    BY <1>6, <2>1, <2>2, <2>3, <2>4 DEF RevisionsOK
<1>8. outcome \in TerminalStates
  BY ZenonT(60) DEF TerminalStates
<1> QED
  BY <1>1, <1>2, <1>5, <1>6, <1>7, <1>8, FinishKeeps

-----------------------------------------------------------------------------
(* A worker that takes up an operation has the newest token.               *)
LEMMA RunKeeps ==
  ASSUME FenceInv, NEW w \in Workers, NEW o \in Operations, Run(w, o),
         UNCHANGED runtimeVars
  PROVE  FenceInv'
<1>1. /\ worker \in [Workers -> WorkerRecord] /\ DurableTypeOK
      /\ record.token \in Nat /\ holder.token \in Nat
      /\ \A v \in Workers : worker[v].token \in Nat
  BY DEF FenceInv, DurableTypeOK, WorkerRecord
<1>2. /\ ~Busy(w) /\ Open(o)
      /\ UNCHANGED <<lock, record, started, completed, register, roots, active>>
  BY SMT DEF Run, Busy, Idle, runtimeVars
<1>3. lock # w
  BY <1>2, ComposeAssumption DEF FenceInv, LockOK
<1>4. PICK t \in Nat :
        /\ holder' = [op |-> o, owner |-> OwnerOf[w], token |-> t]
        /\ t >= holder.token
        /\ \A v \in Workers : Busy(v) => worker[v].token < t
  <2>1. ASSUME NEW v \in Workers, Busy(v)
        PROVE  /\ v # w
               /\ worker[v].token <= holder.token
               /\ worker[v].token = holder.token =>
                    holder.owner = OwnerOf[v]
    <3>1. TokenOK(v)
      BY <2>1 DEF FenceInv
    <3> QED
      BY SMT, <1>2, <2>1, <3>1 DEF TokenOK, Fence
  <2>2. CASE Grant(o, OwnerOf[w])
    <3>1. PICK t \in Nat : t = holder.token + 1
      BY SMT, <1>1
    <3>2. holder' = [op |-> o, owner |-> OwnerOf[w], token |-> t]
      BY <2>2, <3>1 DEF Grant
    <3>3. t >= holder.token /\ \A n \in Nat : n <= holder.token => n < t
      BY SMT, <1>1, <3>1
    <3> QED
      BY <1>1, <2>1, <3>2, <3>3
  <2>3. CASE Reenter(o, OwnerOf[w])
    <3>1. PICK t \in Nat : t = holder.token
      BY <1>1
    <3>2. /\ holder = [op |-> o, owner |-> OwnerOf[w], token |-> t]
          /\ holder' = holder
      BY <2>3, <3>1 DEF Reenter, Holds, leaseVars
    <3>3. ASSUME NEW v \in Workers, Busy(v)
          PROVE  worker[v].token < t
      <4>1. worker[v].token # holder.token
        BY <2>1, <3>2, <3>3, ComposeAssumption
      <4>2. worker[v].token <= holder.token
        BY <2>1, <3>3
      <4> QED
        BY SMT, <1>1, <3>1, <4>1, <4>2
    <3>4. t >= holder.token
      BY SMT, <3>1
    <3> QED
      BY <3>2, <3>3, <3>4
  <2> QED
    BY ZenonT(60), <2>2, <2>3 DEF Run
<1>5. PICK r \in WorkerRecord :
        /\ r = [Idle EXCEPT !.op = o, !.token = t, !.previous = register]
        /\ r.op = o /\ r.token = t /\ r.previous = register
        /\ r.step = "none"
  <2>1. register \in Revisions \cup {NoRevision}
    BY <1>1 DEF DurableTypeOK
  <2>2. Idle \in WorkerRecord /\ Idle.step = "none"
    BY DEF Idle, WorkerRecord, Outside
  <2>3. PICK g \in Revisions \cup {NoRevision} : g = register
    BY <2>1
  <2> DEFINE z == [Idle EXCEPT !.op = o, !.token = t, !.previous = g]
  <2>4. /\ z \in WorkerRecord
        /\ z.op = o /\ z.token = t /\ z.previous = g /\ z.step = "none"
    BY <2>2 DEF WorkerRecord
  <2> QED
    BY <2>3, <2>4
<1>6. r = [Idle EXCEPT !.op = o, !.token = holder'.token, !.previous = register]
  BY <1>4, <1>5
<1>7. PICK y \in WorkerRecord :
        /\ worker' = [worker EXCEPT ![w] = y]
        /\ \/ /\ state[o] \in {"compensating", "cancelling"}
              /\ state' = state
              /\ y.op = o /\ y.token = t /\ y.previous = register
              /\ y.at = "undo" /\ y.step = "none"
           \/ /\ state[o] \notin {"compensating", "cancelling"}
              /\ state' = [state EXCEPT ![o] = "executing"]
              /\ Ahead(y, r, completed[o])
  <2>1. CASE state[o] \in {"compensating", "cancelling"}
    <3>1. PICK c \in BOOLEAN : c = (state[o] = "cancelling")
      OBVIOUS
    <3>2. PICK y \in WorkerRecord : y = [r EXCEPT !.at = "undo", !.cancel = c]
      BY DEF WorkerRecord
    <3>3. worker' = [worker EXCEPT ![w] = y] /\ state' = state
      BY <1>6, <2>1, <3>1, <3>2 DEF Run
    <3>4. /\ y.op = o /\ y.token = t /\ y.previous = register
          /\ y.at = "undo" /\ y.step = "none"
      BY <1>5, <3>2 DEF WorkerRecord
    <3> QED
      BY <2>1, <3>3, <3>4
  <2>2. CASE state[o] \notin {"compensating", "cancelling"}
    <3>1. PICK done \in SUBSET PhaseNames : done = completed[o]
      BY <1>1 DEF DurableTypeOK
    <3>2. Past(1, done)
      BY SMT DEF Past
    <3>3. Ahead(Forward(r, 1, done), r, done)
      BY SMT, <3>2, ForwardGoes
    <3>4. /\ worker' = [worker EXCEPT ![w] = Forward(r, 1, done)]
          /\ state' = [state EXCEPT ![o] = "executing"]
      BY <1>6, <2>2, <3>1 DEF Run
    <3>5. Forward(r, 1, done) \in WorkerRecord
      BY <3>3 DEF Ahead
    <3> QED
      BY <2>2, <3>1, <3>3, <3>4, <3>5
  <2> QED
    BY <2>1, <2>2
<1>8. /\ y.op = o /\ y.token = t /\ y.previous = register /\ y.step = "none"
      /\ y.at \in {"undo", "checkpoint", "check", "before"}
  BY <1>5, <1>7 DEF Ahead
<1>9. /\ worker' \in [Workers -> WorkerRecord]
      /\ worker'[w] = y
      /\ \A v \in Workers : v # w => worker'[v] = worker[v]
  BY <1>1, <1>7
<1>10. /\ state' \in [Operations -> {"accepted", "executing", "compensating",
                                     "cancelling"} \cup TerminalStates]
       /\ \A q \in Operations : q # o => state'[q] = state[q]
       /\ y.at = "undo" => state'[o] = state[o]
       /\ y.at # "undo" =>
            state'[o] = "executing" /\ state[o] \in {"accepted", "executing"}
  <2>1. state \in [Operations -> {"accepted", "executing", "compensating",
                                  "cancelling"} \cup TerminalStates]
    BY <1>1 DEF DurableTypeOK
  <2>2. CASE y.at = "undo"
    BY <1>7, <2>1, <2>2 DEF Ahead
  <2>3. CASE y.at # "undo"
    <3>1. /\ state' = [state EXCEPT ![o] = "executing"]
          /\ state[o] \notin {"compensating", "cancelling"}
      BY <1>7, <2>3
    <3>2. state[o] \in {"accepted", "executing"}
      BY <1>2, <2>1, <3>1 DEF Open
    <3> QED
      BY <2>1, <2>3, <3>1, <3>2
  <2> QED
    BY <2>2, <2>3
<1>11. /\ state[o] \notin {"accepted", "executing"} =>
            state'[o] \notin {"accepted", "executing"}
       /\ state'[o] \notin TerminalStates
       /\ state[o] \notin TerminalStates
  BY <1>2, <1>10 DEF Open, TerminalStates
<1>12. ASSUME NEW v \in Workers, v # w, Busy(v)'
       PROVE  Busy(v) /\ TokenOK(v)' /\ PlaceOK(v)' /\ ~Latest(v)'
  <2>1. Busy(v) /\ worker'[v] = worker[v] /\ TokenOK(v) /\ PlaceOK(v)
    BY <1>9, <1>12 DEF Busy, FenceInv
  <2>2. PICK q \in Operations : q = worker[v].op
    BY <2>1 DEF TokenOK
  <2>3. worker[v].token < t /\ holder'.token = t /\ worker[v].token \in Nat
    BY <1>1, <1>4, <2>1
  <2>4. worker[v].token <= t /\ worker[v].token # t
    BY SMT, <2>3
  <2>5. TokenOK(v)' /\ ~Latest(v)'
    BY <2>1, <2>2, <2>3, <2>4 DEF TokenOK, Latest
  <2>6. state[q] \notin {"accepted", "executing"} =>
          state'[q] \notin {"accepted", "executing"}
    BY <1>10, <1>11
  <2>7. /\ CallOf(v)' = CallOf(v) /\ Entered(v)' = Entered(v)
        /\ \A k \in 1..Len(Phases) : Behind(q, k)' = Behind(q, k)
    BY ZenonT(60), <1>2, <2>1 DEF CallOf, Entered, Behind
  <2>8. PlaceOK(v)'
    BY SMTT(60), <1>2, <2>1, <2>2, <2>6, <2>7 DEF PlaceOK
  <2> QED
    BY <2>1, <2>5, <2>8
<1>13. TokenOK(w)'
  BY SMT, <1>4, <1>8, <1>9 DEF TokenOK, Fence
<1>14. PlaceOK(w)'
  <2>1. CallOf(w)' = y.at
    BY <1>8, <1>9 DEF CallOf
  <2>2. completed' = completed /\ started' = started
    BY <1>2
  <2>3. CASE y.at = "undo"
    BY ZenonT(60), <1>8, <1>9, <2>1, <2>3 DEF PlaceOK, Acting, Inside
  <2>4. CASE y.at = "checkpoint"
    <3>1. PhaseNames \subseteq completed[o]
      BY ZenonT(60), <1>7, <2>4 DEF Ahead
    <3> QED
      BY SMT, <1>8, <1>9, <2>1, <2>2, <2>4, <3>1 DEF PlaceOK, Acting, Inside
  <2>5. CASE y.at \in {"check", "before"}
    <3>1. PICK j \in 1..7 :
            /\ y.phase = Phases[j]
            /\ Past(j, completed[o])
            /\ y.at = IF Phases[j] \in completed[o] THEN "check" ELSE "before"
      BY <1>7, <2>5 DEF Ahead
    <3>2. Behind(o, j)'
      BY <2>2, <3>1, PhaseFacts DEF Behind, Past
    <3>3. completed[o] \subseteq started[o]
      BY DEF FenceInv, RevisionsOK
    <3>4. y.at = "check" => y.phase \in completed[o] /\ y.phase \in started[o]
      BY <3>1, <3>3
    <3>5. j \in 1..Len(Phases)
      BY PhaseFacts
    <3> QED
      BY SMT, <1>8, <1>9, <2>1, <2>2, <2>5, <3>1, <3>2, <3>4, <3>5
         DEF PlaceOK, Acting, Inside
  <2> QED
    BY <1>8, <2>3, <2>4, <2>5
<1>15. LatestOK(w)'
  <2>1. y.at = "before" => y.phase \notin completed[o]
    BY <1>7 DEF Ahead
  <2>2. y.at \in Forwards => state'[o] = "executing"
    BY <1>10 DEF Forwards
  <2> QED
    BY <1>2, <1>8, <1>9, <2>1, <2>2 DEF LatestOK, Acting
<1>16. ASSUME NEW u \in Workers, NEW v \in Workers, Busy(u)', Busy(v)', u # v
       PROVE  PairOK(u, v)'
  <2>1. CASE u # w /\ v # w
    <3>1. /\ Busy(u) /\ Busy(v)
          /\ worker'[u] = worker[u] /\ worker'[v] = worker[v]
      BY <1>9, <1>12, <1>16, <2>1
    <3> QED
      BY <1>16, <3>1 DEF FenceInv, PairOK
  <2>2. CASE u = w
    <3>1. Busy(v) /\ worker'[v] = worker[v] /\ v # w
      BY <1>9, <1>12, <1>16, <2>2
    <3>2. worker[v].token < t /\ worker[v].token \in Nat
      BY <1>1, <1>4, <3>1
    <3>3. worker[v].token # t /\ ~(t < worker[v].token)
      BY SMT, <3>2
    <3> QED
      BY <1>8, <1>9, <2>2, <3>1, <3>3 DEF PairOK
  <2>3. CASE v = w
    <3>1. Busy(u) /\ worker'[u] = worker[u] /\ u # w
      BY <1>9, <1>12, <1>16, <2>3
    <3>2. worker[u].token < t /\ worker[u].token \in Nat
      BY <1>1, <1>4, <3>1
    <3>3. worker[u].token # t
      BY SMT, <3>2
    <3>4. register = NoRevision => worker[u].previous = NoRevision
      BY <3>1 DEF FenceInv, RevisionsOK
    <3> QED
      BY <1>8, <1>9, <2>3, <3>1, <3>3, <3>4 DEF PairOK
  <2> QED
    BY <2>1, <2>2, <2>3
<1>17. ASSUME NEW v \in Workers, Reaches(v)'
       PROVE  ReachOK(v)'
  <2>1. v # w
    BY <1>2, <1>3, <1>8, <1>9, <1>17 DEF Reaches, Acting
  <2>2. Reaches(v) /\ worker'[v] = worker[v]
    BY <1>2, <1>9, <1>17, <2>1 DEF Reaches, Busy
  <2>3. ReachOK(v) /\ worker[v].op \in Operations
    BY <2>2, ReachesPlace DEF FenceInv
  <2> QED
    BY <1>2, <1>10, <1>11, <2>2, <2>3 DEF ReachOK, Open
<1>18. LockOK'
  <2>1. CASE lock = NoWorker
    BY <1>2, <2>1 DEF LockOK
  <2>2. CASE lock # NoWorker
    <3>1. lock \in Workers
      BY <1>1, <2>2 DEF DurableTypeOK
    <3>2. worker'[lock] = worker[lock] /\ lock' = lock /\ record' = record
      BY <1>2, <1>3, <1>9, <3>1
    <3> QED
      BY <2>2, <3>2 DEF FenceInv, LockOK, Busy
  <2> QED
    BY <2>1, <2>2
<1>19. RevisionsOK'
  <2>1. RevisionsOK
    BY DEF FenceInv
  <2>2. ASSUME NEW v \in Workers, Busy(v)'
        PROVE  \/ Busy(v) /\ worker'[v].previous = worker[v].previous
               \/ worker'[v].previous = register
    BY <1>8, <1>9, <1>12, <2>2
  <2>3. \A q \in Operations :
          /\ register = RevisionOf[q] => state'[q] = "succeeded"
          /\ state'[q] \in {"accepted", "executing", "succeeded"} =>
               state[q] \in {"accepted", "executing", "succeeded"}
    BY <1>10, <1>11, <2>1 DEF RevisionsOK, TerminalStates
  <2> QED
    BY <1>2, <2>1, <2>2, <2>3 DEF RevisionsOK
<1>20. DurableTypeOK' /\ (record.token <= holder.token)'
  <2>1. holder' \in [op : Operations \cup {NoOperation},
                     owner : Owners \cup {NoOwner}, token : Nat]
    BY <1>4, ComposeAssumption
  <2>2. holder'.token = t /\ record.token <= holder.token
    BY <1>4 DEF FenceInv
  <2>3. record.token <= t
    BY SMT, <1>1, <1>4, <2>2
  <2> QED
    BY SMT, <1>1, <1>2, <1>9, <1>10, <2>1, <2>2, <2>3 DEF DurableTypeOK
<1>21. \A v \in Workers : Busy(v)' \/ worker'[v].step = "none"
  BY <1>8, <1>9 DEF FenceInv, Busy
<1> QED
  BY ZenonT(60), <1>12, <1>13, <1>14, <1>15, <1>16, <1>17, <1>18, <1>19, <1>20,
     <1>21
     DEF FenceInv, Latest

-----------------------------------------------------------------------------
(* The steps of a backend call.                                            *)
LEMMA StepBecomes ==
  ASSUME NEW w \in Workers, worker \in [Workers -> WorkerRecord],
         NEW s \in Outside \cup Inside, worker' = [worker EXCEPT ![w].step = s]
  PROVE  /\ Becomes(w, worker[w].at, worker[w].phase, s)
         /\ CallOf(w)' = CallOf(w)
<1> DEFINE y == [worker[w] EXCEPT !.step = s]
<1>1. worker' = [worker EXCEPT ![w] = y]
  OBVIOUS
<1>2. y \in WorkerRecord
  BY SMT DEF WorkerRecord
<1>3. Becomes(w, worker[w].at, worker[w].phase, s)
  BY SMT, <1>1, <1>2 DEF Becomes, WorkerRecord
<1> QED
  BY <1>3 DEF Becomes, CallOf

(* A call that is refused before it reaches the fence is not one that the  *)
(* newest worker makes to compensate.                                      *)
LEMMA EnterCallKeeps ==
  ASSUME FenceInv, NEW w \in Workers, EnterCall(w)
  PROVE  FenceInv'
<1>1. worker \in [Workers -> WorkerRecord]
  BY DEF FenceInv, DurableTypeOK
<1>2. CallOf(w) \in BackendCalls /\ worker[w].step = "begin"
  BY DEF EnterCall
<1>3. worker[w].at \in Acting \cup {"call"}
  BY <1>1, <1>2, CallFacts DEF CallOf, WorkerRecord, Forwards, Acting
<1>4. Busy(w) /\ worker[w].step \notin Inside
  BY <1>2, <1>3 DEF Busy, Inside, Acting
<1>5. PlaceOK(w)
  BY <1>4 DEF FenceInv
<1>6. UNCHANGED invVars
  BY DEF EnterCall, journalVars, runtimeVars, invVars
<1>7. PICK s \in {"raised", "returned", "wait"} :
        /\ worker' = [worker EXCEPT ![w].step = s]
        /\ s = "raised" => ~EntryCheck(w) \/ CallOf(w) = "start_candidate"
        /\ s = "returned" => /\ CallOf(w) = "drain_previous"
                             /\ worker[w].previous = NoRevision
        /\ s = "wait" => ~(CallOf(w) = "drain_previous"
                             /\ worker[w].previous = NoRevision)
  BY DEF EnterCall
<1>8. Becomes(w, worker[w].at, worker[w].phase, s) /\ CallOf(w)' = CallOf(w)
  <2>1. s \in Outside \cup Inside
    BY DEF Outside
  <2> QED
    BY <1>1, <1>7, <2>1, StepBecomes
<1>9. Quiet(w) /\ LockOK' /\ lock' # w
  <2>1. worker[w].at # "idle"
    BY <1>4 DEF Busy
  <2>2. PICK a \in {"idle", "undo", "conclude"} \cup Forwards \cup Acting,
             p \in PhaseNames \cup {"none"} :
          a = worker[w].at /\ p = worker[w].phase
    BY <1>1 DEF WorkerRecord
  <2>3. Becomes(w, a, p, s)
    BY <1>8, <2>2
  <2> QED
    BY <1>4, <1>6, <2>1, <2>2, <2>3, StrollQuiet
<1>10. Entered(w)' = Entered(w)
  BY <1>6, <1>8 DEF Entered, Becomes, invVars
<1>11. PlaceOK(w)'
  <2>1. worker[w].at = "call" => CallOf(w) = worker[w].phase
    BY DEF CallOf
  <2>2. CallOf(w) = "drain_previous" =>
          worker[w].at = "call" /\ worker[w].phase = "drain_previous"
    BY <1>3 DEF CallOf, Acting
  <2>3. \A k \in 1..Len(Phases) :
          Behind(worker[w].op, k)' = Behind(worker[w].op, k)
    BY <1>6, <1>8 DEF Behind, Becomes, invVars
  <2>4. s \notin Inside
    BY DEF Inside
  <2> QED
    BY SMT, <1>2, <1>3, <1>5, <1>6, <1>7, <1>8, <1>10, <2>1, <2>2, <2>3, <2>4
       DEF PlaceOK, Becomes, invVars
<1>12. Latest(w)' => LatestOK(w)'
  <2> SUFFICES ASSUME Latest(w)' PROVE LatestOK(w)'
    OBVIOUS
  <2>1. Latest(w)
    BY <1>4, <1>6, <1>8 DEF Becomes, Latest, invVars
  <2>2. LatestOK(w) /\ TokenOK(w)
    BY <2>1 DEF FenceInv, Latest
  <2>3. worker[w].at \in Acting /\ s \notin {"begin", "wait"} => Entered(w)
    <3> SUFFICES ASSUME worker[w].at \in Acting, s \notin {"begin", "wait"},
                        ~Entered(w)
                 PROVE  FALSE
      OBVIOUS
    <3>1. CallOf(w) = worker[w].at
      BY DEF CallOf, Acting
    <3>2. ~EntryCheck(w)
      BY <1>7, <3>1 DEF Acting
    <3>3. CASE worker[w].at = "restore"
      BY <2>2, <3>1, <3>2, <3>3 DEF EntryCheck, LatestOK, FenceInv, RevisionsOK
    <3>4. CASE worker[w].at = "deactivate"
      BY <3>1, <3>2, <3>4 DEF EntryCheck
    <3>5. CASE worker[w].at = "remove"
      <4>1. active = RevisionOf[worker[w].op]
        BY <3>1, <3>2, <3>5 DEF EntryCheck, Candidate
      <4>2. "switch_traffic" \notin started[worker[w].op]
        BY <1>2, <2>2, <3>5 DEF LatestOK
      <4> QED
        BY <2>2, <4>1, <4>2 DEF FenceInv, RevisionsOK, TokenOK
    <3> QED
      BY <3>3, <3>4, <3>5 DEF Acting
  <2> QED
    BY <1>2, <1>6, <1>7, <1>8, <1>10, <2>2, <2>3
       DEF LatestOK, Becomes, invVars
<1>13. Reaches(w)' => ReachOK(w)'
  <2> SUFFICES ASSUME Reaches(w)' PROVE ReachOK(w)'
    OBVIOUS
  <2>1. Reaches(w)
    BY <1>2, <1>4, <1>6, <1>8, <1>9 DEF Reaches, Becomes, invVars
  <2> QED
    BY <1>6, <1>8, <2>1 DEF FenceInv, ReachOK, Becomes, invVars, Open
<1> QED
  BY <1>9, <1>11, <1>12, <1>13, QuietKeeps

(* A step of worker w at the fence or behind it, after which its token has *)
(* been seen there.                                                        *)
LEMMA CallStepKeeps ==
  ASSUME FenceInv, NEW w \in Workers, Busy(w),
         worker[w].step \in Inside \cup {"wait"},
         NEW s \in Inside \cup {"returned", "raised"},
         worker' = [worker EXCEPT ![w].step = s],
         UNCHANGED <<holder, state, started, completed, register>>,
         record' \in [op : Operations \cup {NoOperation}, token : Nat],
         record'.token >= record.token, record'.token <= holder.token,
         record'.token >= worker[w].token,
         lock' \in Workers \cup {NoWorker}, lock' \in {lock, w, NoWorker},
         Reaches(w)' => Reaches(w),
         LockOK', RevisionsOK'
  PROVE  FenceInv'
<1>1. worker \in [Workers -> WorkerRecord] /\ DurableTypeOK /\ PlaceOK(w)
  BY DEF FenceInv, DurableTypeOK
<1>2. Becomes(w, worker[w].at, worker[w].phase, s) /\ CallOf(w)' = CallOf(w)
  <2>1. s \in Outside \cup Inside
    BY DEF Outside
  <2> QED
    BY <1>1, <2>1, StepBecomes
<1>3. DurableTypeOK'
  BY <1>1, <1>2 DEF DurableTypeOK, Becomes
<1>4. Busy(w)'
  BY <1>2 DEF Becomes, Busy
<1>5. Goes(w)
  BY <1>2, <1>3, <1>4 DEF Goes, Becomes
<1>6. Entered(w)'
  BY <1>2 DEF Entered, Becomes
<1>7. CallOf(w) \in BackendCalls
  BY <1>1 DEF PlaceOK
<1>8. worker[w].at \in Acting \cup {"call"}
  BY ZenonT(60), <1>1, <1>7, CallFacts DEF CallOf, WorkerRecord, Forwards, Acting
<1>9. PlaceOK(w)'
  <2>1. \A k \in 1..Len(Phases) :
          Behind(worker[w].op, k)' = Behind(worker[w].op, k)
    BY <1>2 DEF Behind, Becomes
  <2>2. s \notin {"begin", "wait", "none"}
    BY DEF Inside
  <2> QED
    BY SMT, <1>1, <1>2, <1>6, <1>7, <1>8, <2>1, <2>2 DEF PlaceOK, Becomes
<1>10. Latest(w)' => LatestOK(w)'
  <2> SUFFICES ASSUME Latest(w)' PROVE LatestOK(w)'
    OBVIOUS
  <2>1. Latest(w) /\ LatestOK(w)
    BY <1>2 DEF Becomes, Latest, FenceInv
  <2>2. s \notin {"begin", "wait", "none"}
    BY DEF Inside
  <2> QED
    BY <1>2, <1>6, <2>1, <2>2 DEF LatestOK, Becomes
<1>11. Reaches(w)' => ReachOK(w)'
  BY SMT, <1>2 DEF FenceInv, ReachOK, Becomes, Open
<1>12. ASSUME NEW v \in Workers, v # w, Reaches(v)
       PROVE  ReachOK(v)'
  BY <1>2, <1>12 DEF FenceInv, ReachOK, Becomes, Open
<1> QED
  BY <1>5, <1>9, <1>10, <1>11, <1>12, GoesKeeps

(* Entering the runtime fence preserves the invariant, and shuts out every *)
(* older worker.                                                           *)
LEMMA EnterFenceKeeps ==
  ASSUME FenceInv, NEW w \in Workers, EnterRuntimeFence(w)
  PROVE  FenceInv'
<1>1. /\ worker \in [Workers -> WorkerRecord] /\ DurableTypeOK
      /\ record.token \in Nat /\ holder.token \in Nat
      /\ worker[w].token \in Nat
  BY DEF FenceInv, DurableTypeOK, WorkerRecord
<1>2. worker[w].step = "wait"
  BY DEF EnterRuntimeFence, EntersFence
<1>3. Busy(w)
  BY <1>2 DEF FenceInv
<1>4. PlaceOK(w) /\ worker[w].op \in Operations
      /\ worker[w].token <= holder.token
  BY <1>3 DEF FenceInv, TokenOK
<1>5. CallOf(w) \in BackendCalls
  BY <1>2, <1>4 DEF PlaceOK
<1>6. UNCHANGED <<holder, state, started, completed, register, roots, active>>
  BY DEF EnterRuntimeFence, EntersFence, journalVars, runtimeVars
<1>7. CASE EnterFence(w, worker[w].op, Token(w))
           /\ worker' = [worker EXCEPT ![w].step = FirstStep[CallOf(w)]]
  <2>1. PICK s \in Inside : s = FirstStep[CallOf(w)]
    <3>1. PICK c \in BackendCalls : c = CallOf(w)
      BY <1>5
    <3> QED
      BY <3>1, FirstStepInside
  <2>2. /\ worker' = [worker EXCEPT ![w].step = s]
        /\ lock = NoWorker /\ lock' = w
        /\ record' = [op |-> worker[w].op, token |-> worker[w].token]
        /\ worker[w].token >= record.token
    BY <1>7, <2>1 DEF EnterFence, Authorized, Token
  <2>3. /\ record' \in [op : Operations \cup {NoOperation}, token : Nat]
        /\ record'.token = worker[w].token
    BY <1>1, <1>4, <2>2
  <2>4. /\ record'.token >= record.token /\ record'.token <= holder.token
        /\ record'.token >= worker[w].token
    BY SMT, <1>1, <1>4, <2>2, <2>3
  <2>5. Becomes(w, worker[w].at, worker[w].phase, s)
    BY <1>1, <2>1, <2>2, StepBecomes
  <2>6. LockOK'
    BY <1>3, <2>2, <2>5 DEF LockOK, Becomes, Busy
  <2>7. Reaches(w)
    <3>1. worker[w].at = "call" => worker[w].phase = CallOf(w)
      BY DEF CallOf
    <3>2. CASE worker[w].at # "call"
      <4>1. worker[w].at \in Acting
        BY <1>1, <1>5, <3>2, CallFacts DEF CallOf, WorkerRecord, Forwards, Acting
      <4> QED
        BY <1>3, <2>2, <4>1 DEF Reaches
    <3>3. CASE worker[w].at = "call"
      <4>1. worker[w].phase \in FencedPhases
        <5>1. worker[w].phase \in PhaseNames \cup {"none"}
          BY <1>1 DEF WorkerRecord
        <5> QED
          BY <1>5, <3>1, <3>3, <5>1, CallFacts, PhaseFacts DEF FencedPhases
      <4>2. worker[w].phase = "drain_previous" =>
              worker[w].previous # NoRevision
        BY <1>2, <1>4, <3>1, <3>3 DEF PlaceOK
      <4> QED
        BY <1>2, <1>3, <2>2, <3>3, <4>1, <4>2 DEF Reaches
    <3> QED
      BY <3>2, <3>3
  <2>8. RevisionsOK'
    <3>1. RevisionsOK
      BY DEF FenceInv
    <3>2. \A v \in Workers : /\ Busy(v)' => Busy(v)
                             /\ worker'[v].previous = worker[v].previous
      BY <2>5 DEF Becomes, Busy
    <3> QED
      BY <1>6, <3>1, <3>2 DEF RevisionsOK
  <2> QED
    BY ZenonT(60), <1>2, <1>3, <1>6, <2>1, <2>2, <2>3, <2>4, <2>6, <2>7, <2>8,
       CallStepKeeps
<1>8. CASE RejectedByFence(worker[w].op, Token(w))
           /\ worker' = [worker EXCEPT ![w].step = "raised"]
  <2>1. /\ lock' = lock /\ record' = record
        /\ lock = NoWorker
        /\ ~(worker[w].token >= record.token) \/ worker[w].token = record.token
    BY <1>8 DEF RejectedByFence, Authorized, Token, runtimeFenceVars
  <2>2. record.token >= worker[w].token /\ record.token >= record.token
    BY SMT, <1>1, <2>1
  <2>3. record \in [op : Operations \cup {NoOperation}, token : Nat]
        /\ record.token <= holder.token
    BY <1>1 DEF DurableTypeOK, FenceInv
  <2>4. "raised" \in Outside \cup Inside
    BY DEF Outside
  <2>5. Becomes(w, worker[w].at, worker[w].phase, "raised")
    BY <1>1, <1>8, <2>4, StepBecomes
  <2>6. LockOK'
    BY <2>1 DEF LockOK
  <2>7. Reaches(w)' => Reaches(w)
    <3>1. lock' # w
      BY <2>1, ComposeAssumption
    <3> QED
      BY <1>3, <2>1, <2>5, <3>1 DEF Reaches, Becomes
  <2>8. RevisionsOK'
    <3>1. RevisionsOK
      BY DEF FenceInv
    <3>2. \A v \in Workers : /\ Busy(v)' => Busy(v)
                             /\ worker'[v].previous = worker[v].previous
      BY <2>5 DEF Becomes, Busy
    <3> QED
      BY <1>6, <3>1, <3>2 DEF RevisionsOK
  <2> QED
    BY ZenonT(60), <1>2, <1>3, <1>6, <1>8, <2>1, <2>2, <2>3, <2>6, <2>7, <2>8,
       CallStepKeeps
<1> QED
  BY <1>7, <1>8 DEF EnterRuntimeFence, EntersFence

(* A command inside the runtime fence preserves the invariant.             *)
LEMMA ActsKeeps ==
  ASSUME FenceInv, NEW w \in Workers, Acts(w)
  PROVE  FenceInv'
<1>1. /\ worker \in [Workers -> WorkerRecord] /\ DurableTypeOK
      /\ record.token \in Nat /\ holder.token \in Nat
      /\ worker[w].token \in Nat
  BY DEF FenceInv, DurableTypeOK, WorkerRecord
<1>2. lock = w /\ w # NoWorker
  BY ComposeAssumption DEF Acts
<1>3. /\ Busy(w) /\ worker[w].step \in Inside
      /\ record = [op |-> worker[w].op, token |-> worker[w].token]
  BY <1>2 DEF FenceInv, LockOK
<1>4. PlaceOK(w) /\ CallOf(w) \in BackendCalls
  BY <1>3 DEF FenceInv, PlaceOK
<1>5. /\ UNCHANGED <<holder, record, state, started, completed, register>>
      /\ record.token = worker[w].token
      /\ record.token <= holder.token
  BY <1>3 DEF Acts, journalVars, FenceInv
<1>6. record.token >= worker[w].token /\ record.token >= record.token
  BY SMT, <1>1, <1>5
<1>7. Reaches(w) /\ ReachOK(w)
  BY <1>1, <1>2, <1>3, <1>6, <1>5 DEF Reaches, FenceInv
<1>8. PICK o \in Operations : o = worker[w].op /\ Open(o)
  BY <1>7, ReachesPlace DEF ReachOK
<1>9. PICK s \in Inside \cup {"returned", "raised"} :
        /\ worker' = [worker EXCEPT ![w].step = s]
        /\ lock' = IF s \in {"returned", "raised"} THEN NoWorker ELSE w
  BY DEF Acts
<1>10. Becomes(w, worker[w].at, worker[w].phase, s)
  <2>1. s \in Outside \cup Inside
    BY DEF Outside
  <2> QED
    BY <1>1, <1>9, <2>1, StepBecomes
<1>11. LockOK'
  <2>1. CASE s \in {"returned", "raised"}
    BY <1>9, <2>1 DEF LockOK
  <2>2. CASE s \in Inside /\ s \notin {"returned", "raised"}
    BY <1>3, <1>5, <1>9, <1>10, <2>2 DEF LockOK, Becomes, Busy
  <2> QED
    BY <2>1, <2>2
<1>12. RevisionsOK'
  <2>1. RevisionsOK
    BY DEF FenceInv
  <2>2. \A v \in Workers : /\ Busy(v)' => Busy(v)
                           /\ worker'[v].previous = worker[v].previous
    BY <1>10 DEF Becomes, Busy
  <2>3. Candidate(w) = RevisionOf[o] /\ register # RevisionOf[o]
    BY <1>8, <2>1 DEF Candidate, RevisionsOK, Open, TerminalStates
  <2>4. register # NoRevision => register \in roots'
    BY <2>1, <2>3 DEF RevisionsOK, Acts
  <2>5. ASSUME NEW q \in Operations, active' = RevisionOf[q]
        PROVE  "switch_traffic" \in started[q]
    <3>1. CASE active' = active
      BY <2>1, <2>5, <3>1 DEF RevisionsOK
    <3>2. CASE active' = NoRevision
      BY ZenonT(60), <2>5, <3>2, ComposeAssumption
    <3>3. CASE active' = worker[w].previous
      BY <1>3, <2>1, <2>5, <3>3 DEF RevisionsOK
    <3>4. CASE CallOf(w) = "switch_traffic" /\ active' = Candidate(w)
      <4>1. q = o
        BY <2>3, <2>5, <3>4, ComposeAssumption
      <4>2. worker[w].at = "call" /\ worker[w].phase = "switch_traffic"
        BY <1>1, <3>4 DEF CallOf, WorkerRecord, Forwards, Acting
      <4> QED
        BY <1>4, <1>8, <4>1, <4>2 DEF PlaceOK
    <3> QED
      BY <3>1, <3>2, <3>3, <3>4 DEF Acts
  <2>6. ASSUME NEW q \in Operations, "start_candidate" \in completed[q],
               state[q] \in {"accepted", "executing", "succeeded"}
        PROVE  RevisionOf[q] \in roots'
    <3>1. RevisionOf[q] \in roots
      BY <2>1, <2>6 DEF RevisionsOK
    <3>2. CASE roots' \in {roots, roots \cup {Candidate(w)}}
      BY <3>1, <3>2
    <3>3. CASE CallOf(w) = "remove" /\ roots' = roots \ {Candidate(w)}
      <4>1. worker[w].at = "remove"
        <5>1. worker[w].phase \in PhaseNames \cup {"none"}
          BY <1>1 DEF WorkerRecord
        <5> QED
          BY <3>3, <5>1, PhaseFacts DEF CallOf
      <4>2. state[o] \notin {"accepted", "executing", "succeeded"}
        BY <1>4, <1>8, <4>1 DEF PlaceOK, Acting, Open, TerminalStates
      <4>3. RevisionOf[q] # RevisionOf[o]
        BY <2>6, <4>2, ComposeAssumption
      <4> QED
        BY <2>3, <3>1, <3>3, <4>3
    <3> QED
      BY <3>2, <3>3 DEF Acts
  <2> QED
    BY <1>5, <2>1, <2>2, <2>4, <2>5, <2>6 DEF RevisionsOK
<1>13. /\ lock' \in Workers \cup {NoWorker} /\ lock' \in {lock, w, NoWorker}
       /\ record' = record
       /\ record \in [op : Operations \cup {NoOperation}, token : Nat]
  BY <1>1, <1>5, <1>9 DEF DurableTypeOK
<1> QED
  BY <1>3, <1>5, <1>6, <1>7, <1>9, <1>11, <1>12, <1>13, CallStepKeeps

-----------------------------------------------------------------------------
(* The invariant holds before the first operation is accepted.             *)
LEMMA FenceInit ==
  ASSUME DeployInit
  PROVE  FenceInv
<1>1. /\ \A w \in Workers : worker[w] = Idle
      /\ \A w \in Workers : ~Busy(w) /\ worker[w].step = "none"
  BY DEF DeployInit, Init, ExecutorInit, Busy, Idle
<1>2. DurableTypeOK
  <2>1. Idle \in WorkerRecord
    BY DEF Idle, WorkerRecord, Outside
  <2> QED
    BY <2>1 DEF DurableTypeOK, DeployInit, Init, ExecutorInit, LeaseInit,
                RuntimeFenceInit, NoHolder, NoRecord
<1>3. record.token <= holder.token
  BY SMT DEF DeployInit, Init, ExecutorInit, LeaseInit, RuntimeFenceInit,
         NoHolder, NoRecord
<1>4. LockOK
  BY DEF LockOK, DeployInit, Init, ExecutorInit, RuntimeFenceInit
<1>5. RevisionsOK
  BY <1>1 DEF RevisionsOK, DeployInit, Init, ExecutorInit
<1> QED
  BY <1>1, <1>2, <1>3, <1>4, <1>5 DEF FenceInv, Latest, Reaches

(* Every step of every worker preserves the invariant.                     *)
LEMMA FenceStep ==
  ASSUME FenceInv, [Next]_vars
  PROVE  FenceInv'
<1>1. ASSUME UNCHANGED <<invVars, worker>>
      PROVE  FenceInv'
  <2> USE <1>1 DEF invVars
  <2>1. DurableTypeOK' /\ record'.token <= holder'.token
    BY DEF FenceInv, DurableTypeOK
  <2>2. ASSUME NEW w \in Workers
        PROVE  /\ Busy(w)' = Busy(w) /\ Latest(w)' = Latest(w)
               /\ TokenOK(w)' = TokenOK(w) /\ Reaches(w)' = Reaches(w)
               /\ ReachOK(w)' = ReachOK(w)
    BY DEF Busy, Latest, TokenOK, Reaches, ReachOK, Fence, Open
  <2>3. ASSUME NEW w \in Workers
        PROVE  PlaceOK(w)' = PlaceOK(w)
    <3>1. \A k \in 1..Len(Phases) :
            Behind(worker[w].op, k)' = Behind(worker[w].op, k)
      BY DEF Behind
    <3>2. CallOf(w)' = CallOf(w) /\ Entered(w)' = Entered(w)
      BY DEF CallOf, Entered
    <3> QED
      BY <3>1, <3>2 DEF PlaceOK
  <2>4. ASSUME NEW w \in Workers
        PROVE  LatestOK(w)' = LatestOK(w)
    BY DEF LatestOK, Entered
  <2>5. ASSUME NEW v \in Workers, NEW w \in Workers
        PROVE  PairOK(v, w)' = PairOK(v, w)
    BY DEF PairOK
  <2>6. LockOK' = LockOK
    BY DEF LockOK, Busy
  <2>7. RevisionsOK' = RevisionsOK
    BY SMT DEF RevisionsOK, Busy
  <2> QED
    BY <2>1, <2>2, <2>3, <2>4, <2>5, <2>6, <2>7 DEF FenceInv
<1>2. ASSUME NEW w \in Workers, NEW o \in Operations, StartRun(w, o)
      PROVE  FenceInv'
  BY <1>2, RunKeeps DEF StartRun
<1>3. ASSUME NEW w \in Workers, ExecutorStep(w)
      PROVE  FenceInv'
  <2>1. CASE PhaseReturned(w)
    <3>1. CASE worker[w].phase = "start_candidate"
      BY <1>3, <2>1, <3>1, StartReturnedKeeps DEF ExecutorStep
    <3>2. CASE worker[w].phase # "start_candidate"
      BY <1>3, <2>1, <3>2, CompletePhaseKeeps DEF ExecutorStep, PhaseReturned
    <3> QED
      BY <3>1, <3>2
  <2>2. CASE CheckPassed(w, Observed(w))
    BY <1>3, <2>2, CompletePhaseKeeps DEF ExecutorStep, CheckPassed
  <2> QED
    BY <1>3, <2>1, <2>2, BeforePhaseKeeps, ControlStopsKeeps, PreflightKeeps,
       PhaseRaisedKeeps, CheckFailedKeeps, CheckpointKeeps, CommitKeeps,
       CommitRefusedKeeps, UndoKeeps, CompensatedKeeps, ConcludeKeeps,
       AbandonKeeps
       DEF ExecutorStep
<1>4. ASSUME NEW w \in Workers, BackendStep(w)
      PROVE  FenceInv'
  BY <1>4, BackendActs, EnterCallKeeps, EnterFenceKeeps, ActsKeeps
<1>5. ASSUME NEW o \in Operations, MigrationEnds(o)
      PROVE  FenceInv'
  BY <1>1, <1>5 DEF MigrationEnds, executorVars, invVars
<1>6. CASE Environment
  <2>1. ASSUME NEW w \in Workers, Crash(w)
        PROVE  FenceInv'
    BY <1>6, <2>1, CrashKeeps DEF Environment
  <2>2. CASE LeaseRunsOut \/ ClockStepsBack \/ NothingToRecover
             \/ \E o \in Operations : RequestCancellation(o)
    <3>1. UNCHANGED <<invVars, worker>>
      BY <1>6, <2>2 DEF Environment, LeaseRunsOut, Lapse, ClockStepsBack,
         Revive, NothingToRecover, RequestCancellation, executorVars,
         journalVars, runtimeVars, invVars
    <3> QED
      BY <1>1, <3>1
  <2> QED
    BY <1>6, <2>1, <2>2 DEF Environment
<1>7. CASE UNCHANGED vars
  BY <1>1, <1>7 DEF vars, executorVars, runtimeVars, invVars
<1> QED
  BY <1>2, <1>3, <1>4, <1>5, <1>6, <1>7 DEF Next

(* An outcome that was reported is final for the runtime: no worker, stale *)
(* or not, is inside the runtime fence for an operation with a receipt.    *)
THEOREM ReportedOutcomesAreFinal == DeploySpec => []NoEffectAfterReceipt
<1>1. FenceInv => NoEffectAfterReceipt
  <2> SUFFICES ASSUME FenceInv, lock # NoWorker
               PROVE  Open(worker[lock].op)
    BY DEF NoEffectAfterReceipt
  <2>1. lock \in Workers /\ worker[lock].token \in Nat
    BY ZenonT(60) DEF FenceInv, DurableTypeOK, WorkerRecord
  <2>2. Busy(lock) /\ record.token = worker[lock].token
    BY SMT DEF FenceInv, LockOK
  <2>3. Reaches(lock)
    BY SMT, <2>1, <2>2 DEF Reaches
  <2> QED
    BY <2>1, <2>3 DEF FenceInv, ReachOK
<1> QED
  BY <1>1, FenceInit, FenceStep, PTL DEF DeploySpec

-----------------------------------------------------------------------------
(* A migration that was run has left its container, which outlives the     *)
(* revision's root and its marker.                                         *)
MigrationInv ==
  /\ container \in [Operations -> {"none", "running", "exited_0", "exited_1"}]
  /\ migrations \in [Revisions -> {0, 1}]
  /\ \A o \in Operations :
       container[o] = "none" => migrations[RevisionOf[o]] = 0

(* Only running a migration and the end of its container touch either.     *)
LEMMA OnlyMigrationsRun ==
  ASSUME [Next]_vars
  PROVE  \/ UNCHANGED <<container, migrations>>
         \/ \E w \in Workers : RunMigration(w)
         \/ \E o \in Operations : MigrationEnds(o)
<1>1. ASSUME NEW w \in Workers, BackendStep(w), ~RunMigration(w)
      PROVE  UNCHANGED <<container, migrations>>
  BY <1>1 DEF BackendStep, EnterCall, EnterRuntimeFence, CommandFails,
     Materialize, MigrationDone, MarkMigration, MigrationFailed, StopReplaced,
     StartCandidate, CompareActive, StopPrevious, StartDeferred, RegisterCron,
     SwitchCaddy, PointActive, RestoreStop, RestoreUp, RestoreCaddy,
     RestoreCron, RestorePoint, RefuseDeactivate, DeactivateStop,
     DeactivateCaddy, DeactivateCron, DeactivatePoint, DrainDown, RemoveDown,
     RemoveDelete, runtimeVars
<1> QED
  BY <1>1 DEF Next, vars, runtimeVars, StartRun, ExecutorStep, Environment

(* Every step preserves what is known of the migrations.                   *)
LEMMA MigrationStep ==
  ASSUME FenceInv, MigrationInv, [Next]_vars
  PROVE  MigrationInv'
<1>1. CASE UNCHANGED <<container, migrations>>
  BY <1>1 DEF MigrationInv
<1>2. ASSUME NEW w \in Workers, RunMigration(w)
      PROVE  MigrationInv'
  <2>1. lock = w /\ w # NoWorker
    BY <1>2, ComposeAssumption DEF RunMigration, Mutates
  <2>2. PICK o \in Operations : o = worker[w].op
    BY <2>1 DEF FenceInv, LockOK, TokenOK
  <2>3. /\ container[o] = "none"
        /\ container' = [container EXCEPT ![o] = "running"]
        /\ migrations' = [migrations EXCEPT ![RevisionOf[o]] = @ + 1]
    BY <1>2, <2>2 DEF RunMigration, Candidate
  <2>4. RevisionOf[o] \in Revisions /\ migrations[RevisionOf[o]] = 0
    BY <2>3, ComposeAssumption DEF MigrationInv
  <2>5. migrations' = [migrations EXCEPT ![RevisionOf[o]] = 1]
    BY SMT, <2>3, <2>4
  <2> QED
    BY SMT, <2>3, <2>4, <2>5, ComposeAssumption DEF MigrationInv
<1>3. ASSUME NEW o \in Operations, MigrationEnds(o)
      PROVE  MigrationInv'
  <2>1. PICK r \in {"exited_0", "exited_1"} :
          /\ container' = [container EXCEPT ![o] = r]
          /\ container[o] = "running"
          /\ UNCHANGED migrations
    BY <1>3 DEF MigrationEnds
  <2> QED
    BY <2>1 DEF MigrationInv
<1> QED
  BY <1>1, <1>2, <1>3, OnlyMigrationsRun

(* However often an operation is interrupted, recovered or overtaken, no   *)
(* revision's migration is run twice: the container an earlier attempt     *)
(* left behind is found before another one is started.                     *)
THEOREM MigrationsAreNotRepeated == DeploySpec => []MigrationsRunOnce
<1>1. DeployInit => MigrationInv
  <2> SUFFICES ASSUME DeployInit PROVE MigrationInv
    OBVIOUS
  <2>1. marked \subseteq {register} \ {NoRevision}
    BY DEF DeployInit, Init
  <2> QED
    BY <2>1, ComposeAssumption DEF DeployInit, Init, MigrationInv
<1>2. MigrationInv => MigrationsRunOnce
  BY SMT DEF MigrationInv, MigrationsRunOnce
<1> QED
  BY <1>1, <1>2, FenceInit, FenceStep, MigrationStep, PTL DEF DeploySpec

=============================================================================
