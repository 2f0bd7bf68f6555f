----------------------------- MODULE Workflows ------------------------------
(***************************************************************************)
(* Operation graphs (workflows.py): a graph of ship commands is planned    *)
(* into one JSON file, and run, paused, resumed and cancelled by separate  *)
(* ship processes.  Each process reads the file once, works on its copy    *)
(* and writes the whole file back at its end; nothing locks the file.      *)
(***************************************************************************)
EXTENDS Integers, Sequences, FiniteSets, Policy

CONSTANTS
  ShipProcesses,  \* ship processes that may work on the graph
  Templates,      \* the templates that are planned
  PolicyFiles,    \* the policies an operator may have in force
  MaxCommands,    \* bound on the workflow commands that are started
  MaxKills,       \* bound on the processes that are killed
  NoGraph,        \* nothing is stored yet
  Unreadable      \* the file was opened for writing and is not written yet

VARIABLES
  graph,          \* workflows/<id>.json
  ship,           \* each process, with its copy of the graph
  commands,       \* commands started
  kills,
  effected,       \* history: the nodes whose command has taken effect
  achieved        \* history: the nodes whose command ended well

workflowVars == <<graph, ship, commands, kills, effected, achieved>>

-----------------------------------------------------------------------------
(* The shipped templates.  A node is planned with no blockers of its own.  *)
Node(id, deps, mutates) ==
  [id |-> id, depends_on |-> deps, mutates_state |-> mutates,
   status |-> "planned", blockers |-> FALSE]

Mutating == {"export-create", "import-apply", "restore-drill-apply", "traffic-apply",
             "github-apply", "backup-verify-apply"}

Chain(ids) ==
  [k \in DOMAIN ids |-> Node(ids[k], IF k = 1 THEN {} ELSE {ids[k - 1]}, ids[k] \in Mutating)]

_build_move_app_nodes ==
  Chain(<<"validate-manifest", "validate-provider-config", "audit-secrets",
          "check-route-conflicts", "check-backups", "readiness", "placement",
          "export-plan", "export-create", "import-plan", "import-apply",
          "restore-drill-plan", "restore-drill-apply", "traffic-plan", "traffic-apply">>)

_build_incident_triage_nodes ==
  <<Node("runtime-status", {}, FALSE)>>
    \o [k \in 1..5 |-> Node(<<"runtime-doctor", "drift", "traffic-status",
                              "observability-status", "receipt-timeline">>[k],
                            {"runtime-status"}, FALSE)]
    \o <<Node("readiness", {"drift", "traffic-status", "observability-status"}, FALSE)>>

_build_release_readiness_nodes ==
  <<Node("validate-manifest", {}, FALSE),
    Node("pack-validate", {"validate-manifest"}, FALSE)>>
    \o [k \in 1..3 |-> Node(<<"deploy-plan", "backup-status", "observability-plan">>[k],
                            {"pack-validate"}, FALSE)]
    \o <<Node("readiness", {"deploy-plan", "backup-status", "observability-plan"}, FALSE)>>

_build_github_provisioning_nodes ==
  Chain(<<"template-explain", "github-plan", "github-apply">>)

_build_restore_rehearsal_nodes ==
  Chain(<<"backup-status", "backup-verify-plan", "backup-verify-apply", "restore-drills-list">>)

WORKFLOW_TEMPLATES ==
  [t \in {"move-app", "incident-triage", "release-readiness", "github-provisioning",
          "restore-rehearsal"} |->
     CASE t = "move-app" -> _build_move_app_nodes
       [] t = "incident-triage" -> _build_incident_triage_nodes
       [] t = "release-readiness" -> _build_release_readiness_nodes
       [] t = "github-provisioning" -> _build_github_provisioning_nodes
       [] t = "restore-rehearsal" -> _build_restore_rehearsal_nodes]

(* plan_workflow: a dependency must name an earlier node.                  *)
PlanBlocked(nodes) ==
  \E k \in DOMAIN nodes : \E d \in nodes[k].depends_on :
    \A j \in 1..(k - 1) : nodes[j].id # d

NodeStatuses == {"planned", "skipped", "blocked", "paused_for_confirmation", "succeeded", "failed", "cancelled"}

GraphNode == [id : STRING, depends_on : SUBSET STRING, mutates_state : BOOLEAN,
              status : NodeStatuses, blockers : BOOLEAN]

(* The tables of workflows.py: every shipped template is a list of nodes   *)
(* with different ids that plan_workflow accepts (the guards on unknown    *)
(* and forward dependencies never fire, workflows.py:694).                 *)
ASSUME ShippedTemplates ==
  \A t \in DOMAIN WORKFLOW_TEMPLATES :
    LET nodes == WORKFLOW_TEMPLATES[t]
    IN  /\ nodes \in Seq(GraphNode)
        /\ \A j, k \in DOMAIN nodes : nodes[j].id = nodes[k].id => j = k
        /\ \A k \in DOMAIN nodes : nodes[k].status = "planned"
        /\ ~PlanBlocked(nodes)

ASSUME TemplatesAssumption == Templates \subseteq DOMAIN WORKFLOW_TEMPLATES

plan_workflow(template) ==
  /\ graph = NoGraph
  /\ LET nodes == WORKFLOW_TEMPLATES[template]
     IN  graph' = [status |-> IF PlanBlocked(nodes) THEN "blocked" ELSE "planned",
                   nodes |-> nodes]
  /\ UNCHANGED <<ship, commands, kills, effected, achieved>>

-----------------------------------------------------------------------------
Idle == [at |-> "idle", resume |-> FALSE, confirmed |-> {}, blocked |-> FALSE,
         next |-> 1, status |-> "none", nodes |-> <<>>]

Free(p) ==
  /\ ship[p].at = "idle"
  /\ commands < MaxCommands
  /\ graph \notin {NoGraph, Unreadable}   \* show_workflow: otherwise a receipt and no change
  /\ commands' = commands + 1

MutatingIn(nodes) == {nodes[k].id : k \in {j \in DOMAIN nodes : nodes[j].mutates_state}}

(* run_workflow and resume_workflow: the copy is taken, and a graph that   *)
(* must not run blocks the process before its first node.                  *)
run_workflow(p, resume, confirmed) ==
  /\ Free(p)
  /\ ship' = [ship EXCEPT ![p] =
       [Idle EXCEPT !.at = "node", !.resume = resume, !.confirmed = confirmed,
                    !.nodes = graph.nodes,
                    !.blocked = \/ graph.status = "cancelled"
                                \/ graph.status = "paused" /\ ~resume]]
  /\ UNCHANGED <<graph, kills, effected, achieved>>

Satisfied(s) ==
  \A d \in s.nodes[s.next].depends_on :
    \E j \in 1..(s.next - 1) : s.nodes[j].id = d /\ s.nodes[j].status = "succeeded"

(* The current node of p gets a status and the process moves on.           *)
Settles(p, status, nodeBlocked, stops) ==
  ship' = [ship EXCEPT
    ![p].nodes = [@ EXCEPT ![ship[p].next] = [@ EXCEPT !.status = status, !.blockers = nodeBlocked]],
    ![p].blocked = @ \/ stops,
    ![p].next = @ + 1]

AtNode(p) == ship[p].at = "node" /\ ship[p].next <= Len(ship[p].nodes)

Kept(p) ==
  /\ ship[p].resume
  /\ ship[p].nodes[ship[p].next].status \in {"succeeded", "cancelled"}

(* After a blocker every later node is skipped, the succeeded ones too,    *)
(* and keeps the blockers it had; so is a node with a dependency that has  *)
(* not succeeded, with a blocker that says so.                             *)
SkipNode(p) ==
  /\ AtNode(p)
  /\ ~(~ship[p].blocked /\ (Kept(p) \/ Satisfied(ship[p])))
  /\ Settles(p, "skipped", ship[p].nodes[ship[p].next].blockers \/ ~ship[p].blocked, FALSE)
  /\ UNCHANGED <<graph, commands, kills, effected, achieved>>

KeepSettled(p) ==
  /\ AtNode(p) /\ ~ship[p].blocked /\ Kept(p)
  /\ ship' = [ship EXCEPT ![p].next = @ + 1]
  /\ UNCHANGED <<graph, commands, kills, effected, achieved>>

Reached(p) == AtNode(p) /\ ~ship[p].blocked /\ ~Kept(p)

(* _mutating_node_policy_check: what the workflow tells the policy.        *)
_mutating_node_policy_check(files, id) ==
  policy_check_entry(files, id, "production", TRUE,
                     {"confirmation_required", "plan_exists", "json_receipts"})

MayMutate(p, files) ==
  LET n == ship[p].nodes[ship[p].next]
  IN  n.mutates_state => _mutating_node_policy_check(files, n.id)

BlockByPolicy(p) ==
  /\ Reached(p) /\ Satisfied(ship[p])
  /\ \E files \in PolicyFiles : ~MayMutate(p, files)
  /\ Settles(p, "blocked", TRUE, TRUE)
  /\ UNCHANGED <<graph, commands, kills, effected, achieved>>

Confirmed(p) ==
  LET n == ship[p].nodes[ship[p].next]
  IN  n.mutates_state => n.id \in ship[p].confirmed

PauseForConfirmation(p) ==
  /\ Reached(p) /\ Satisfied(ship[p]) /\ ~Confirmed(p)
  /\ \E files \in PolicyFiles : MayMutate(p, files)
  /\ Settles(p, "paused_for_confirmation", TRUE, TRUE)
  /\ UNCHANGED <<graph, commands, kills, effected, achieved>>

MayRun(p) ==
  /\ Reached(p) /\ Satisfied(ship[p]) /\ Confirmed(p)
  /\ \E files \in PolicyFiles : MayMutate(p, files)

(* _preflight_node_command: a placeholder has no substitution.             *)
BlockUnresolved(p) ==
  /\ MayRun(p)
  /\ Settles(p, "blocked", TRUE, TRUE)
  /\ UNCHANGED <<graph, commands, kills, effected, achieved>>

-----------------------------------------------------------------------------
(* How a command may end.  "text" is exit code 0 with output that is not   *)
(* JSON: the node then keeps the blockers of an earlier run and is judged  *)
(* by them.                                                                *)
CommandEnds == {"ok", "text", "refused", "failed", "timeout"}

(* Faulty variants: blockers in the output, or the exit code, are ignored. *)
RefusalIgnored(node, end) ==
  IF end \in {"failed", "timeout"} THEN "failed" ELSE "succeeded"
ExitCodeIgnored(node, end) ==
  CASE end = "refused" -> "blocked"
    [] end = "timeout" -> "failed"
    [] OTHER -> "succeeded"

NodeStatus(node, end) ==
  CASE end = "ok" -> "succeeded"
    [] end = "text" -> IF node.blockers THEN "blocked" ELSE "succeeded"
    [] end = "refused" -> "blocked"
    [] end \in {"failed", "timeout"} -> "failed"

TookEffect(end) ==
  CASE end \in {"ok", "text"} -> {TRUE}
    [] end = "refused" -> {FALSE}
    [] OTHER -> BOOLEAN

RunCommand(p) ==
  LET node == ship[p].nodes[ship[p].next]
  IN  /\ MayRun(p)
      /\ \E end \in CommandEnds : \E effect \in TookEffect(end) :
           LET status == NodeStatus(node, end)
           IN  /\ Settles(p, status, status # "succeeded", status # "succeeded")
               /\ effected' = IF effect THEN effected \cup {node.id} ELSE effected
               /\ achieved' = IF end \in {"ok", "text"} THEN achieved \cup {node.id} ELSE achieved
      /\ UNCHANGED <<graph, commands, kills>>

-----------------------------------------------------------------------------
Statuses(nodes) == {nodes[k].status : k \in DOMAIN nodes}

FinalStatus(s) ==
  CASE s.blocked -> CASE "failed" \in Statuses(s.nodes) -> "failed"
                      [] "failed" \notin Statuses(s.nodes)
                           /\ "paused_for_confirmation" \in Statuses(s.nodes) -> "paused"
                      [] OTHER -> "blocked"
    [] ~s.blocked /\ Statuses(s.nodes) = {"succeeded"} -> "succeeded"
    [] OTHER -> "blocked"

EndRun(p) ==
  /\ ship[p].at = "node" /\ ship[p].next > Len(ship[p].nodes)
  /\ ship' = [ship EXCEPT ![p].at = "open", ![p].status = FinalStatus(ship[p])]
  /\ UNCHANGED <<graph, commands, kills, effected, achieved>>

pause_workflow(p) ==
  /\ Free(p)
  /\ graph.status \notin {"cancelled", "succeeded"}
  /\ ship' = [ship EXCEPT ![p] =
       [Idle EXCEPT !.at = "open", !.status = "paused", !.nodes = graph.nodes]]
  /\ UNCHANGED <<graph, kills, effected, achieved>>

cancel_workflow(p) ==
  /\ Free(p)
  /\ ship' = [ship EXCEPT ![p] =
       [Idle EXCEPT !.at = "open", !.status = "cancelled",
          !.nodes = [k \in DOMAIN graph.nodes |->
                       IF graph.nodes[k].status \in {"succeeded", "failed", "rolled_back"}
                       THEN graph.nodes[k]
                       ELSE [graph.nodes[k] EXCEPT !.status = "cancelled"]]]]
  /\ UNCHANGED <<graph, kills, effected, achieved>>

(* _write_json truncates the file and writes it; it does not replace it.   *)
OpenGraph(p) ==
  /\ ship[p].at = "open"
  /\ graph' = Unreadable
  /\ ship' = [ship EXCEPT ![p].at = "write"]
  /\ UNCHANGED <<commands, kills, effected, achieved>>

WriteGraph(p) ==
  /\ ship[p].at = "write"
  /\ graph' = [status |-> ship[p].status, nodes |-> ship[p].nodes]
  /\ ship' = [ship EXCEPT ![p] = Idle]
  /\ UNCHANGED <<commands, kills, effected, achieved>>

(* A run tolerates a file it cannot open; nothing is stored.               *)
GiveUpWrite(p) ==
  /\ ship[p].at = "open"
  /\ ship' = [ship EXCEPT ![p] = Idle]
  /\ UNCHANGED <<graph, commands, kills, effected, achieved>>

(* The process is killed; a command it was running goes on by itself.      *)
KillShip(p) ==
  /\ ship[p].at # "idle"
  /\ kills < MaxKills
  /\ kills' = kills + 1
  /\ ship' = [ship EXCEPT ![p] = Idle]
  /\ \/ UNCHANGED effected
     \/ MayRun(p) /\ effected' = effected \cup {ship[p].nodes[ship[p].next].id}
  /\ UNCHANGED <<graph, commands, achieved>>

-----------------------------------------------------------------------------
WorkflowInit ==
  /\ graph = NoGraph
  /\ ship = [p \in ShipProcesses |-> Idle]
  /\ commands = 0 /\ kills = 0
  /\ effected = {} /\ achieved = {}

RunStep(p) ==
  \/ SkipNode(p) \/ KeepSettled(p)
  \/ BlockByPolicy(p) \/ PauseForConfirmation(p) \/ BlockUnresolved(p)
  \/ RunCommand(p) \/ EndRun(p)
  \/ OpenGraph(p) \/ WriteGraph(p) \/ GiveUpWrite(p)

ShipCommand(p) ==
  \/ /\ graph \notin {NoGraph, Unreadable}
     /\ \E resume \in BOOLEAN, confirmed \in SUBSET MutatingIn(graph.nodes) :
          run_workflow(p, resume, confirmed)
  \/ pause_workflow(p)
  \/ cancel_workflow(p)

WorkflowNext ==
  \/ \E t \in Templates : plan_workflow(t)
  \/ \E p \in ShipProcesses : ShipCommand(p) \/ RunStep(p) \/ KillShip(p)

WorkflowSpec == WorkflowInit /\ [][WorkflowNext]_workflowVars

-----------------------------------------------------------------------------
(* The stored graph is true although stale copies overwrite each other: a  *)
(* node recorded as succeeded has ended well, and a graph that claims to   *)
(* have succeeded is one whose every command ended well.                   *)
GraphIsTrue ==
  graph \notin {NoGraph, Unreadable} =>
    /\ \A k \in DOMAIN graph.nodes :
         graph.nodes[k].status = "succeeded" => graph.nodes[k].id \in achieved
    /\ graph.status = "succeeded" =>
         \A k \in DOMAIN graph.nodes : graph.nodes[k].id \in achieved

EffectsInOrder ==
  \A t \in Templates : \A k \in DOMAIN WORKFLOW_TEMPLATES[t] :
    LET node == WORKFLOW_TEMPLATES[t][k]
    IN  (node.id \in effected' \ effected) => node.depends_on \subseteq achieved

(* A command takes effect only after all the commands its node depends on  *)
(* have ended well, in whichever processes: neither a resume from a stale  *)
(* file nor a cancelled or skipped node stands for a success.              *)
DependenciesFirst == [][EffectsInOrder]_workflowVars

=============================================================================
