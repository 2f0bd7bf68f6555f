--------------------------- MODULE DeploymentPlans ---------------------------
(***************************************************************************)
(* How a manifest v2 becomes an approved operation                         *)
(* (manifest_v2_execution.py, manifest_v2_sources.py, domain/plans.py,     *)
(* daemon/service.py, daemon/decisions.py).                                *)
(*                                                                         *)
(* A planner loads the manifest, which digests its static tree, copies the *)
(* declared sources into a staging directory, renders the bundle beside    *)
(* them, and writes the evidence and then an index entry from the plan's   *)
(* id to the directory.  The sources are an operator's working tree and    *)
(* may be edited between any two of those reads.  Two planners run at once:*)
(* the command line, and the daemon, which answers a repeated request with *)
(* the plan it already recorded.  The manifest's text does not change; a   *)
(* digest is the thing digested, and a plan's id is the plan without its   *)
(* creation time.                                                          *)
(***************************************************************************)
EXTENDS Naturals, Sequences

CONSTANTS
    Crews,          \* sets of planners at work at once; "cli" records no request,
                    \* any other is a daemon request
    Contents,       \* what a source file or tree may hold
    Actors,         \* who may approve
    MaxStagings,    \* bound: staging directories made
    MaxPlanMishaps, \* bound: edits of the sources or of staged bytes, and deaths
    None            \* a missing file, row or value

VARIABLES
    source,         \* [static, env]: the working tree beside the manifest
    approvalKey,    \* host-state/trust/local-approval.key
    stagings,       \* sequence of [static, env, lock, evidence]
    planIndex,      \* host-state/plans: set of [plan, staging]
    planRequests,   \* daemon_plan_requests for one actor and key: None or a row
    journalActive,  \* the revision the journal calls active
    runtimeActive,  \* traffic/active.json
    expired,        \* staging directories whose plan is past its lifetime
    admitted,       \* operations in the journal
    planner,        \* what each planner knows
    answered,       \* reports returned: [by, plan, key, digest]
    planMishaps

planVars == <<source, approvalKey, stagings, planIndex, planRequests, journalActive, runtimeActive,
              expired, admitted, planner, answered, planMishaps>>

IdlePlanner == [at |-> "idle", digest |-> None, key |-> None, loaded |-> None, seen |-> None, staging |-> 0]

DeploymentPlansInit ==
    /\ LET c == CHOOSE c \in Contents : TRUE IN source = [static |-> c, env |-> c]
    /\ approvalKey = None
    /\ stagings = <<>> /\ planIndex = {} /\ planRequests = None
    /\ journalActive = None /\ runtimeActive = None
    /\ expired = {} /\ admitted = {}
    /\ \E crew \in Crews : planner = [p \in crew |-> IdlePlanner]
    /\ answered = {}
    /\ planMishaps = 0

PlannerAt(p, where) == planner[p].at = where
Goes(p, where) == planner' = [planner EXCEPT ![p].at = where]
GivesUp(p) == planner' = [planner EXCEPT ![p] = IdlePlanner]

Answer(p, plan) ==
    /\ answered' = answered \cup {[by |-> p, plan |-> plan, key |-> planner[p].key, digest |-> planner[p].digest]}
    /\ GivesUp(p)

-----------------------------------------------------------------------------
(* The local approval key.                                                 *)

\* The temporary is linked, so the file appears whole and only once.
_atomic_bytes(mine) == approvalKey' = IF approvalKey = None THEN mine ELSE approvalKey

\* A planner that finds no key draws its own ...
DrawKey(p) ==
    /\ PlannerAt(p, "digested")
    /\ planner' = [planner EXCEPT ![p].key = IF approvalKey = None THEN p ELSE approvalKey,
                                  ![p].at = IF approvalKey = None THEN "drawn" ELSE "keyed"]
    /\ UNCHANGED <<source, approvalKey, stagings, planIndex, planRequests, journalActive, runtimeActive,
                   expired, admitted, answered, planMishaps>>

\* ... publishes it, and takes the winner's when another was first.
local_approval_key(p) ==
    /\ PlannerAt(p, "drawn")
    /\ _atomic_bytes(planner[p].key)
    /\ planner' = [planner EXCEPT ![p].key = approvalKey', ![p].at = "keyed"]
    /\ UNCHANGED <<source, stagings, planIndex, planRequests, journalActive, runtimeActive,
                   expired, admitted, answered, planMishaps>>

-----------------------------------------------------------------------------
(* Sources.                                                                *)

\* A source that is missing or a link stops the planner.
_trusted_source(file) == source[file] # None

\* What binds a daemon's request: the manifest, the digest it was loaded with,
\* and every declared byte as it is now.
manifest_v2_request_digest(p) ==
    /\ PlannerAt(p, "opened")
    /\ IF \E f \in {"static", "env"} : ~_trusted_source(f)
       THEN GivesUp(p)
       ELSE planner' = [planner EXCEPT ![p].at = "digested", ![p].digest = <<planner[p].loaded, source>>]
    /\ UNCHANGED <<source, approvalKey, stagings, planIndex, planRequests, journalActive, runtimeActive,
                   expired, admitted, answered, planMishaps>>

\* The daemon loads the manifest; a static tree that is missing is refused.
load_manifest_v2(p) ==
    /\ PlannerAt(p, "idle") /\ Len(stagings) < MaxStagings
    /\ _trusted_source("static")
    /\ planner' = [planner EXCEPT ![p] = [IdlePlanner EXCEPT !.at = IF p = "cli" THEN "digested" ELSE "opened",
                                                      !.loaded = source.static]]
    /\ UNCHANGED <<source, approvalKey, stagings, planIndex, planRequests, journalActive, runtimeActive,
                   expired, admitted, answered, planMishaps>>

\* Static trees are copied first, then env and support files.
Copy(p, file, then) ==
    /\ LET s == planner[p].staging IN
       IF _trusted_source(file)
       THEN /\ stagings' = [stagings EXCEPT ![s][file] = source[file]]
            /\ Goes(p, then)
       ELSE UNCHANGED stagings /\ GivesUp(p)
    /\ UNCHANGED <<source, approvalKey, planIndex, planRequests, journalActive, runtimeActive,
                   expired, admitted, answered, planMishaps>>

_copy_tree(p) == PlannerAt(p, "staging") /\ Copy(p, "static", "copied")

_copy_file(p) == PlannerAt(p, "copied") /\ Copy(p, "env", "staged")

stage_manifest_v2_sources(p) == _copy_tree(p) \/ _copy_file(p)

manifest_v2_sources_digest(s) == [static |-> s.static, env |-> s.env]

-----------------------------------------------------------------------------
(* The plan.                                                               *)

\* What blocks a plan when the journal and the runtime disagree.
_observe_active(seen) ==
    CASE seen.journal = None /\ seen.runtime # None -> {"runtime_active_without_journal"}
      [] seen.journal # None /\ seen.runtime # seen.journal -> {"journal_runtime_active_mismatch"}
      [] OTHER -> {}

\* The candidate is everything in the directory, the rendered lock included.
_manifest_v2_policy_digest(s) == [candidate |-> [static |-> s.static, env |-> s.env, lock |-> s.lock],
                                  sources |-> manifest_v2_sources_digest(s)]

\* plan_digest leaves out the creation time, and the request's intent the
\* idempotency key: planned twice, the same inputs are the same plan.
OperationPlan(revision, s, seen) ==
    [revision |-> revision, policy |-> _manifest_v2_policy_digest(s), observed |-> seen,
     blockers |-> _observe_active(seen)]

approvable(plan) == plan.blockers = {}

\* The row of this actor and key, if any: a repeated request is answered from
\* it, one with other content is refused.
plan_for_request(p) ==
    /\ PlannerAt(p, "keyed")
    /\ IF p = "cli" \/ planRequests = None
       THEN Goes(p, "planning") /\ UNCHANGED answered
       ELSE IF planRequests.digest = planner[p].digest
       THEN Goes(p, "describing") /\ UNCHANGED answered
       ELSE GivesUp(p) /\ UNCHANGED answered
    /\ UNCHANGED <<source, approvalKey, stagings, planIndex, planRequests, journalActive, runtimeActive,
                   expired, admitted, planMishaps>>

\* plan_manifest_v2 loads the manifest again, reads what is active and makes a
\* staging directory of its own;
BeginPlan(p) ==
    /\ PlannerAt(p, "planning") /\ Len(stagings) < MaxStagings
    /\ IF _trusted_source("static")
       THEN /\ stagings' = Append(stagings, [static |-> None, env |-> None, lock |-> None, evidence |-> None])
            /\ planner' = [planner EXCEPT ![p].at = "staging", ![p].loaded = source.static,
                                          ![p].seen = [journal |-> journalActive, runtime |-> runtimeActive],
                                          ![p].staging = Len(stagings) + 1]
       ELSE GivesUp(p) /\ UNCHANGED stagings
    /\ UNCHANGED <<source, approvalKey, planIndex, planRequests, journalActive, runtimeActive,
                   expired, admitted, answered, planMishaps>>

\* the sources copied, it renders the bundle and writes the evidence.
WriteEvidence(p) ==
    /\ PlannerAt(p, "staged")
    /\ LET s == planner[p].staging
           whole == [stagings[s] EXCEPT !.lock = planner[p].loaded]
       IN  stagings' = [stagings EXCEPT ![s] =
               [whole EXCEPT !.evidence = OperationPlan(planner[p].loaded, whole, planner[p].seen)]]
    /\ Goes(p, "evident")
    /\ UNCHANGED <<source, approvalKey, planIndex, planRequests, journalActive, runtimeActive,
                   expired, admitted, answered, planMishaps>>

\* The index never replaces an entry: the same plan in another directory is a
\* collision, and the planner raises.
_write_plan_index(p) ==
    /\ PlannerAt(p, "evident")
    /\ LET plan == stagings[planner[p].staging].evidence IN
       IF \E e \in planIndex : e.plan = plan
       THEN Goes(p, "collided") /\ UNCHANGED <<planIndex, answered>>
       ELSE /\ planIndex' = planIndex \cup {[plan |-> plan, staging |-> planner[p].staging]}
            /\ IF p = "cli" THEN Answer(p, plan) ELSE Goes(p, "recording") /\ UNCHANGED answered
    /\ UNCHANGED <<source, approvalKey, stagings, planRequests, journalActive, runtimeActive,
                   expired, admitted, planMishaps>>

\* The error is reported and the planner ends.
Collision(p) ==
    /\ PlannerAt(p, "collided") /\ GivesUp(p)
    /\ UNCHANGED <<source, approvalKey, stagings, planIndex, planRequests, journalActive, runtimeActive,
                   expired, admitted, answered, planMishaps>>

plan_manifest_v2(p) ==
    \/ BeginPlan(p) \/ stage_manifest_v2_sources(p)
    \/ WriteEvidence(p) \/ _write_plan_index(p) \/ Collision(p)

\* The first insert wins; a second planner of the same request describes the
\* winner's plan, one of another request is refused.
record_plan_request(p) ==
    /\ PlannerAt(p, "recording")
    /\ LET plan == stagings[planner[p].staging].evidence
           row == IF planRequests = None THEN [digest |-> planner[p].digest, plan |-> plan] ELSE planRequests
       IN  /\ planRequests' = row
           /\ IF row.digest # planner[p].digest THEN GivesUp(p) /\ UNCHANGED answered
              ELSE IF row.plan = plan THEN Answer(p, plan)
              ELSE Goes(p, "describing") /\ UNCHANGED answered
    /\ UNCHANGED <<source, approvalKey, stagings, planIndex, journalActive, runtimeActive,
                   expired, admitted, planMishaps>>

-----------------------------------------------------------------------------
(* Approval.                                                               *)

\* A loader that trusts the digests of the evidence.
LoadByDigest(plan) ==
    {e.staging : e \in {x \in planIndex :
        /\ x.plan = plan
        /\ stagings[x.staging].evidence = plan
        /\ plan.policy = _manifest_v2_policy_digest(stagings[x.staging])}}

\* The staging directory of a plan that passes: the index and the evidence
\* name it, the bytes are the ones its policy digest binds, and rendering the
\* bundle again from the staged manifest, whose static tree is digested anew,
\* gives the staged files.
_load_plan(plan) ==
    {e.staging : e \in {x \in planIndex :
        /\ x.plan = plan
        /\ stagings[x.staging].evidence = plan
        /\ plan.policy = _manifest_v2_policy_digest(stagings[x.staging])
        /\ stagings[x.staging].static = stagings[x.staging].lock}}

\* The winner's plan, answered again.
describe_manifest_v2_plan(p) ==
    /\ PlannerAt(p, "describing")
    /\ IF _load_plan(planRequests.plan) # {} THEN Answer(p, planRequests.plan)
       ELSE GivesUp(p) /\ UNCHANGED answered
    /\ UNCHANGED <<source, approvalKey, stagings, planIndex, planRequests, journalActive, runtimeActive,
                   expired, admitted, planMishaps>>

_plan_exact(p) ==
    \/ load_manifest_v2(p) \/ manifest_v2_request_digest(p)
    \/ DrawKey(p) \/ local_approval_key(p)
    \/ plan_for_request(p) \/ plan_manifest_v2(p)
    \/ record_plan_request(p) \/ describe_manifest_v2_plan(p)

\* The journal admits an approved plan under the actor and the request's key,
\* which the command line takes from the revision: a retry must bring the same
\* input, another is a conflict.  The candidate is the directory as loaded.
submit_manifest_v2_plan(report, s, actor) ==
    LET key == IF report.by = "cli" THEN <<"revision", report.plan.revision>> ELSE <<"request">>
    IN  /\ approvable(report.plan)
        /\ ~\E op \in admitted : op.actor = actor /\ op.key = key
        /\ admitted' = admitted \cup {[plan |-> report.plan, actor |-> actor, key |-> key, ran |-> FALSE,
                                       static |-> stagings[s].static, env |-> stagings[s].env]}
        /\ UNCHANGED <<source, approvalKey, stagings, planIndex, planRequests, journalActive, runtimeActive,
                       expired, planner, answered, planMishaps>>

\* Whoever holds a report confirms it with its token.
apply_manifest_v2_plan(report, actor) ==
    \E s \in _load_plan(report.plan) :
        /\ approvalKey = report.key
        /\ s \notin expired
        /\ submit_manifest_v2_plan(report, s, actor)

\* A decision signed elsewhere names the plan and the actor and is itself in
\* date; the plan's own lifetime only bounds the deadline, which has passed
\* when it has expired.
verify_lumen_decision(report, actor) ==
    \E s \in _load_plan(report.plan) :
        /\ s \notin expired
        /\ submit_manifest_v2_plan(report, s, actor)

\* The executor opens the candidate again and runs it; a crash may leave the
\* runtime switched and the journal behind.
manifest_v2_executor(op) ==
    /\ ~op.ran
    /\ admitted' = (admitted \ {op}) \cup {[op EXCEPT !.ran = TRUE]}
    /\ runtimeActive' = op.plan.revision
    /\ journalActive' \in {journalActive, op.plan.revision}
    /\ UNCHANGED <<source, approvalKey, stagings, planIndex, planRequests, expired, planner,
                   answered, planMishaps>>

-----------------------------------------------------------------------------
(* What happens around it.                                                 *)

EditSource(file, content) ==
    /\ planMishaps < MaxPlanMishaps /\ source[file] # content
    /\ source' = [source EXCEPT ![file] = content]
    /\ planMishaps' = planMishaps + 1
    /\ UNCHANGED <<approvalKey, stagings, planIndex, planRequests, journalActive, runtimeActive,
                   expired, admitted, planner, answered>>

\* A staged file is changed on disk.
DisturbStaging(s, content) ==
    /\ planMishaps < MaxPlanMishaps /\ stagings[s].evidence # None /\ stagings[s].env # content
    /\ stagings' = [stagings EXCEPT ![s].env = content]
    /\ planMishaps' = planMishaps + 1
    /\ UNCHANGED <<source, approvalKey, planIndex, planRequests, journalActive, runtimeActive,
                   expired, admitted, planner, answered>>

Expires(s) ==
    /\ s \notin expired /\ stagings[s].evidence # None
    /\ expired' = expired \cup {s}
    /\ UNCHANGED <<source, approvalKey, stagings, planIndex, planRequests, journalActive, runtimeActive,
                   admitted, planner, answered, planMishaps>>

PlannerDies(p) ==
    /\ planMishaps < MaxPlanMishaps
    /\ ~PlannerAt(p, "idle") /\ GivesUp(p)
    /\ planMishaps' = planMishaps + 1
    /\ UNCHANGED <<source, approvalKey, stagings, planIndex, planRequests, journalActive, runtimeActive,
                   expired, admitted, answered>>

DeploymentPlansNext ==
    \/ \E p \in DOMAIN planner : _plan_exact(p) \/ PlannerDies(p)
    \/ \E r \in answered, a \in Actors : apply_manifest_v2_plan(r, a)
    \/ \E r \in answered, a \in Actors : verify_lumen_decision(r, a)
    \/ \E op \in admitted : manifest_v2_executor(op)
    \/ \E f \in {"static", "env"}, c \in Contents \cup {None} : EditSource(f, c)
    \/ \E s \in DOMAIN stagings : Expires(s) \/ \E c \in Contents : DisturbStaging(s, c)

-----------------------------------------------------------------------------
(* Properties.                                                             *)

\* An operation runs what was reviewed: when it is admitted, the bytes in its
\* staging directory are those its plan's digest covers, and its revision, whose
\* digest goes into the receipt and into the active-revision row, is the digest
\* of the static tree that will be served, however the working tree was edited
\* while the plan was being made (manifest_v2_execution.py:478-534).
OperationsRunWhatWasPlanned ==
    \A op \in admitted :
        /\ op.plan.policy.sources = [static |-> op.static, env |-> op.env]
        /\ op.plan.revision = op.static

=============================================================================
