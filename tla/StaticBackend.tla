---------------------------- MODULE StaticBackend ---------------------------
(***************************************************************************)
(* The static site backend (execution/static_backend.py) under the         *)
(* journaled executor, with the command-line runner that admits a reviewed *)
(* plan, runs it, and projects a success onto the legacy release files     *)
(* (execution/legacy_static_runner.py).                                    *)
(*                                                                         *)
(* A release is a bundle, a static tree and a revision record, published   *)
(* and removed one by one; going live replaces the Caddy site and then the *)
(* "current" symlink, and reloads Caddy.  The predecessor captured by an   *)
(* operation outlives the worker that captured it.                         *)
(***************************************************************************)
EXTENDS JournaledExecutor

CONSTANTS Untracked, NoCapture, NoPlan

VARIABLES
  baseline,     \* the live state each operation's plan was reviewed against
  files,        \* the parts of each revision's release that exist
  owned,        \* materialization.json: the parts that preexisted
  captured,     \* predecessor.json of each operation
  caddyLive,    \* the revision whose Caddy site is live
  current,      \* the revision the "current" symlink leads to
  loaded,       \* the Caddy site that the Caddy process has loaded
  projector,    \* the operation inside the projection lock
  projection    \* revision and generation of active_release.json

siteVars == <<files, owned, captured, caddyLive, current, loaded>>
projectionVars == <<projector, projection>>
staticVars == <<baseline, siteVars, projectionVars>>
vars == <<executorVars, staticVars>>

Parts == {"bundle", "static", "record"}

(* What a reviewed plan is allowed to replace (deployment_baseline_digest). *)
LiveState ==
  [caddy |-> caddyLive, current |-> current, release |-> projection]

(* _capture_predecessor: the live revision, if the release that "current"  *)
(* leads to is complete and its Caddy site is the live one.                *)
LiveRevision ==
  IF caddyLive = NoRevision /\ current = NoRevision THEN NoRevision
  ELSE IF current # NoRevision /\ caddyLive = current /\ files[current] = Parts
    THEN current
  ELSE Untracked

(* preflight: the live predecessor is tracked and is the reviewed one.     *)
PreflightOk(o) == LiveRevision # Untracked /\ baseline[o] = LiveState

Materialized(r) == files[r] = Parts

IsActive(r) == caddyLive = r /\ current = r

-----------------------------------------------------------------------------
FirstStep ==
  [start_candidate |-> "preflight", switch_traffic |-> "compare",
   restore |-> "compare", deactivate |-> "compare", remove |-> "compare"]

(* What a call does before it enters the runtime fence.  There is nothing  *)
(* to drain.                                                               *)
EnterCall(w) ==
  /\ CallOf(w) \in DOMAIN FirstStep \cup {"drain_previous"}
  /\ worker[w].step = "begin"
  /\ worker' = [worker EXCEPT ![w].step =
       CASE CallOf(w) = "drain_previous" -> "returned"
         [] CallOf(w) = "start_candidate" /\ ~PreflightOk(worker[w].op) ->
              "raised"
         [] CallOf(w) = "switch_traffic" /\ ~Materialized(Candidate(w)) ->
              "raised"
         [] OTHER -> "wait"]
  /\ UNCHANGED <<holder, live, lock, record, journalVars, staticVars>>

EnterRuntimeFence(w) ==
  EntersFence(w, FirstStep[CallOf(w)]) /\ UNCHANGED staticVars

-----------------------------------------------------------------------------
(* start: preflight again under the fence, note which parts preexist, and  *)
(* publish what is missing.                                                *)
StartPreflight(w) ==
  /\ Mutates(w, "start_candidate", "preflight",
             IF PreflightOk(worker[w].op) THEN "own" ELSE "raised")
  /\ UNCHANGED staticVars

(* Faulty variant: a second attempt takes what the first left for its own. *)
OwnAfresh(w) ==
  /\ Mutates(w, "start_candidate", "own", "bundle")
  /\ owned' = [owned EXCEPT ![worker[w].op] = files[Candidate(w)]]
  /\ UNCHANGED <<baseline, files, captured, caddyLive, current, loaded,
                 projectionVars>>

Own(w) ==
  /\ Mutates(w, "start_candidate", "own", "bundle")
  /\ owned' = [owned EXCEPT ![worker[w].op] =
                 IF @ = NoCapture THEN files[Candidate(w)] ELSE @]
  /\ UNCHANGED <<baseline, files, captured, caddyLive, current, loaded,
                 projectionVars>>

Publish(w) ==
  /\ \/ Mutates(w, "start_candidate", "bundle", "static")
     \/ Mutates(w, "start_candidate", "static", "record")
     \/ Mutates(w, "start_candidate", "record", "returned")
  /\ files' = [files EXCEPT ![Candidate(w)] = @ \cup {worker[w].step}]
  /\ UNCHANGED <<baseline, owned, captured, caddyLive, current, loaded,
                 projectionVars>>

-----------------------------------------------------------------------------
(* activate: an activation of this operation that was begun before is      *)
(* finished if the candidate is live and taken back otherwise.             *)
Compare(w) ==
  LET o == worker[w].op
      next == IF captured[o] # NoCapture
                THEN IF IsActive(Candidate(w)) THEN "reload" ELSE "undo_caddy"
              ELSE IF LiveRevision = worker[w].previous THEN "capture"
              ELSE "raised"
  IN  /\ Mutates(w, "switch_traffic", "compare", next)
      /\ UNCHANGED staticVars

Capture(w) ==
  /\ Mutates(w, "switch_traffic", "capture", "caddy")
  /\ captured' = [captured EXCEPT ![worker[w].op] =
       [caddy |-> caddyLive, current |-> current, revision |-> LiveRevision]]
  /\ UNCHANGED <<baseline, files, owned, caddyLive, current, loaded,
                 projectionVars>>

SwitchCaddy(w) ==
  /\ Mutates(w, "switch_traffic", "caddy", "static")
  /\ caddyLive' = Candidate(w)
  /\ UNCHANGED <<baseline, files, owned, captured, current, loaded,
                 projectionVars>>

SwitchStatic(w) ==
  /\ Mutates(w, "switch_traffic", "static", "reload")
  /\ current' = Candidate(w)
  /\ UNCHANGED <<baseline, files, owned, captured, caddyLive, loaded,
                 projectionVars>>

(* A failure after the capture takes the switch back before it is raised.  *)
SwitchFails(w) ==
  /\ "backend" \in Faults
  /\ \/ Mutates(w, "switch_traffic", "caddy", "back_caddy")
     \/ Mutates(w, "switch_traffic", "static", "back_caddy")
     \/ Mutates(w, "switch_traffic", "reload", "back_caddy")
  /\ UNCHANGED staticVars

(* _commit_traffic: validate and reload.                                   *)
Reload(w) ==
  /\ \/ Mutates(w, "switch_traffic", "reload", "returned")
     \/ Mutates(w, "switch_traffic", "back_reload", "raised")
     \/ \E call \in {"restore", "deactivate"} :
          Mutates(w, call, "reload", "returned")
  /\ loaded' = caddyLive
  /\ UNCHANGED <<baseline, files, owned, captured, caddyLive, current,
                 projectionVars>>

(* _restore_predecessor, from this operation's capture: in a recovered     *)
(* activation (which does not reload), in a failed one, and in restore.    *)
RestoreCaddy(w) ==
  /\ \/ Mutates(w, "switch_traffic", "undo_caddy", "undo_static")
     \/ Mutates(w, "switch_traffic", "back_caddy", "back_static")
     \/ \E call \in {"restore", "deactivate"} :
          Mutates(w, call, "caddy", "static")
  /\ caddyLive' = captured[worker[w].op].caddy
  /\ UNCHANGED <<baseline, files, owned, captured, current, loaded,
                 projectionVars>>

RestoreStatic(w) ==
  /\ \/ Mutates(w, "switch_traffic", "undo_static", "raised")
     \/ Mutates(w, "switch_traffic", "back_static", "back_reload")
     \/ \E call \in {"restore", "deactivate"} :
          Mutates(w, call, "static", "reload")
  /\ current' = captured[worker[w].op].current
  /\ UNCHANGED <<baseline, files, owned, captured, caddyLive, loaded,
                 projectionVars>>

(* restore and deactivate: the live state, or else the capture, must be    *)
(* the predecessor the journal names.                                      *)
CompareRestored(w) ==
  LET c == captured[worker[w].op]
      seen == IF c = NoCapture THEN LiveRevision ELSE c.revision
      next == IF seen # worker[w].previous THEN "raised"
              ELSE IF c = NoCapture THEN "reload" ELSE "caddy"
  IN  /\ \E call \in {"restore", "deactivate"} :
           Mutates(w, call, "compare", next)
      /\ UNCHANGED staticVars

-----------------------------------------------------------------------------
(* remove: only what this operation published, and never what is live.     *)
CompareRemoved(w) ==
  LET o == worker[w].op
      r == Candidate(w)
      next == IF owned[o] = NoCapture
                THEN IF files[r] = {} THEN "returned" ELSE "raised"
              ELSE IF current = r THEN "raised" ELSE "bundle"
  IN  /\ Mutates(w, "remove", "compare", next)
      /\ UNCHANGED staticVars

RemovePart(w) ==
  /\ \/ Mutates(w, "remove", "bundle", "static")
     \/ Mutates(w, "remove", "static", "record")
     \/ Mutates(w, "remove", "record", "returned")
  /\ files' = [files EXCEPT ![Candidate(w)] =
                 @ \ ({worker[w].step} \ owned[worker[w].op])]
  /\ UNCHANGED <<baseline, owned, captured, caddyLive, current, loaded,
                 projectionVars>>

(* Any other file operation or reload may fail.                            *)
CommandFails(w) ==
  /\ "backend" \in Faults
  /\ ~(CallOf(w) = "switch_traffic"
         /\ worker[w].step \in {"caddy", "static", "reload"})
  /\ Raises(w)
  /\ UNCHANGED staticVars

-----------------------------------------------------------------------------
(* inspect and verify of the candidate, verify_active of the live one.     *)
Observed(w) ==
  IF worker[w].phase = "external_verify"
    THEN IsActive(Candidate(w)) /\ Materialized(Candidate(w))
    ELSE Materialized(Candidate(w))

(* deploy --plan: the live state is bound to the plan that is confirmed.   *)
Review(o) ==
  /\ baseline[o] = NoPlan
  /\ baseline' = [baseline EXCEPT ![o] = LiveState]
  /\ UNCHANGED <<executorVars, siteVars, projectionVars>>

(* execute_confirmed_static: the live state must reconcile with the        *)
(* journal, either with its active revision or with this very operation.   *)
Admitted(o) ==
  \/ caddyLive = NoRevision /\ current = NoRevision /\ register = NoRevision
  \/ /\ caddyLive # NoRevision
     /\ current # NoRevision
     /\ "record" \in files[current]
     /\ current \in {register, RevisionOf[o]}

StartRun(w, o) ==
  /\ baseline[o] # NoPlan
  /\ Admitted(o)
  /\ Run(w, o)
  /\ UNCHANGED staticVars

(* _project_legacy_release, by the process that ran o or by a retry: under *)
(* a lock of its own, and only while o's revision is the active one.       *)
Generation == Cardinality({o \in Operations : state[o] = "succeeded"})

NoProjector == [op |-> NoOperation, generation |-> 0]

LockProjection(o) ==
  /\ projector = NoProjector
  /\ state[o] = "succeeded"
  /\ register = RevisionOf[o]
  /\ projection.generation < Generation   \* a rewrite changes nothing
  /\ projector' = [op |-> o, generation |-> Generation]
  /\ UNCHANGED <<executorVars, baseline, siteVars, projection>>

(* active_release.json, the last file written; or the process dies first.  *)
Project ==
  /\ projector # NoProjector
  /\ \/ projection' = [revision |-> RevisionOf[projector.op],
                       generation |-> projector.generation]
     \/ "crash" \in Faults /\ UNCHANGED projection
  /\ projector' = NoProjector
  /\ UNCHANGED <<executorVars, baseline, siteVars>>

-----------------------------------------------------------------------------
BackendStep(w) ==
  \/ EnterCall(w) \/ EnterRuntimeFence(w) \/ CommandFails(w)
  \/ StartPreflight(w) \/ Own(w) \/ Publish(w)
  \/ Compare(w) \/ Capture(w) \/ SwitchCaddy(w) \/ SwitchStatic(w)
  \/ SwitchFails(w) \/ Reload(w) \/ RestoreCaddy(w) \/ RestoreStatic(w)
  \/ CompareRestored(w) \/ CompareRemoved(w) \/ RemovePart(w)

ExecutorStep(w) ==
  /\ UNCHANGED staticVars
  /\ \/ BeforePhase(w) \/ ControlStops(w)
     \/ Preflight(w, PreflightOk(worker[w].op))
     \/ PhaseReturned(w) \/ PhaseRaised(w)
     \/ CheckPassed(w, Observed(w)) \/ CheckFailed(w, Observed(w))
     \/ Checkpoint(w) \/ Commit(w) \/ CommitRefused(w)
     \/ Undo(w) \/ Compensated(w) \/ Conclude(w) \/ Abandon(w)

Environment ==
  /\ UNCHANGED staticVars
  /\ \/ \E w \in Workers : Crash(w)
     \/ \E o \in Operations : RequestCancellation(o)
     \/ LeaseRunsOut
     \/ NothingToRecover

(* The site serves the revision the journal names, or nothing.             *)
Init ==
  /\ ExecutorInit
  /\ baseline = [o \in Operations |-> NoPlan]
  /\ files = [r \in Revisions |-> IF r = register THEN Parts ELSE {}]
  /\ owned = [o \in Operations |-> NoCapture]
  /\ captured = [o \in Operations |-> NoCapture]
  /\ caddyLive = register
  /\ current = register
  /\ loaded = register
  /\ projector = NoProjector
  /\ projection = [revision |-> register, generation |-> 0]

Next ==
  \/ \E o \in Operations : Review(o)
  \/ \E w \in Workers, o \in Operations : StartRun(w, o)
  \/ \E w \in Workers : ExecutorStep(w)
  \/ \E w \in Workers : BackendStep(w)
  \/ \E o \in Operations : LockProjection(o)
  \/ Project
  \/ Environment

Spec == Init /\ [][Next]_vars

-----------------------------------------------------------------------------
TypeOK ==
  /\ ExecutorTypeOK
  /\ files \in [Revisions -> SUBSET Parts]
  /\ owned \in [Operations -> SUBSET Parts \cup {NoCapture}]
  /\ {caddyLive, current, loaded} \subseteq Revisions \cup {NoRevision}
  /\ projector.op \in Operations \cup {NoOperation}
  /\ projection.generation \in 0..Cardinality(Operations)

(* When every operation has ended and each outcome was reported as clean,  *)
(* the live Caddy site, the symlink and the loaded configuration are the   *)
(* journal's active revision, and nothing a failed operation published is  *)
(* left behind.                                                            *)
RuntimeMatchesJournal ==
  AtRest /\ (\A o \in Operations : state[o] # "failed_uncompensated") =>
    /\ IsActive(register)
    /\ loaded = register
    /\ \A o \in Operations :
         state[o] # "succeeded" => files[RevisionOf[o]] = {}

=============================================================================
