--------------------------- MODULE OperatorProofs ---------------------------
(***************************************************************************)
(* Theorems about what an operator's tooling does: workflow graphs         *)
(* (Workflows), jobs of the action API (ActionJobs) and switches of        *)
(* traffic (TrafficSwitch).                                                *)
(***************************************************************************)
EXTENDS Workflows, ActionJobs, TrafficSwitch, SequenceTheorems, TLAPS

(* Leaves are first-order and go to Zenon; those with arithmetic or        *)
(* records cite SMT.                                                       *)
USE Zenon

-----------------------------------------------------------------------------
(* Workflow graphs: what a stored graph says was achieved, and nothing is  *)
(* executed before what it depends on.                                     *)
GraphStatuses == {"none", "planned", "blocked", "failed", "paused", "succeeded", "cancelled"}

(* A process and its copy of the graph.                                    *)
ShipProcess ==
  [at : {"idle", "node", "open", "write"}, resume : BOOLEAN, confirmed : SUBSET STRING,
   blocked : BOOLEAN, next : Nat \ {0}, status : GraphStatuses, nodes : Seq(GraphNode)]

StoredGraph == [status : GraphStatuses, nodes : Seq(GraphNode)]

(* Every success that a list of nodes records was achieved.                *)
TrueNodes(nodes) ==
  \A k \in DOMAIN nodes : nodes[k].status = "succeeded" => nodes[k].id \in achieved

AllSucceeded(nodes) == \A k \in DOMAIN nodes : nodes[k].status = "succeeded"

(* The nodes of a copy are those that were planned, but for their status.  *)
FromTemplate(t, nodes) ==
  /\ DOMAIN nodes = DOMAIN WORKFLOW_TEMPLATES[t]
  /\ \A k \in DOMAIN nodes : /\ nodes[k].id = WORKFLOW_TEMPLATES[t][k].id
                             /\ nodes[k].depends_on = WORKFLOW_TEMPLATES[t][k].depends_on

(* The file and every copy of it, however old, record only true successes; *)
(* a copy that is about to be stored as succeeded has no other node.       *)
WorkflowInv ==
  /\ graph \notin {NoGraph, Unreadable} =>
       /\ graph \in StoredGraph
       /\ TrueNodes(graph.nodes)
       /\ graph.status = "succeeded" => AllSucceeded(graph.nodes)
  /\ ship \in [ShipProcesses -> ShipProcess]
  /\ \A p \in ShipProcesses :
       /\ TrueNodes(ship[p].nodes)
       /\ ship[p].status = "succeeded" => AllSucceeded(ship[p].nodes)
       /\ ship[p].at = "node" => ship[p].status = "none"

LEMMA WorkflowStart == WorkflowInit => WorkflowInv
<1> SUFFICES ASSUME WorkflowInit PROVE WorkflowInv
  OBVIOUS
<1>1. Idle \in ShipProcess
  BY SMT DEF Idle, ShipProcess, GraphStatuses
<1>2. Idle.nodes = <<>> /\ Idle.status = "none"
  BY DEF Idle
<1> QED
  BY SMT, <1>1, <1>2 DEF WorkflowInit, WorkflowInv, TrueNodes

(* The record of one process changes.                                      *)
LEMMA ShipMoves ==
  ASSUME NEW p \in ShipProcesses, NEW r \in ShipProcess, WorkflowInv,
         ship' = [ship EXCEPT ![p] = r], achieved \subseteq achieved',
         TrueNodes(r.nodes)', r.status = "succeeded" => AllSucceeded(r.nodes),
         r.at = "node" => r.status = "none",
         graph' = graph
  PROVE  WorkflowInv'
<1>1. /\ ship' \in [ShipProcesses -> ShipProcess]
      /\ ship'[p] = r
      /\ \A q \in ShipProcesses : q # p => ship'[q] = ship[q]
  BY DEF WorkflowInv
<1>2. ASSUME NEW nodes, TrueNodes(nodes) PROVE \A k \in DOMAIN nodes : nodes[k].status = "succeeded" => nodes[k].id \in achieved'
  BY <1>2 DEF TrueNodes
<1>3. ASSUME NEW q \in ShipProcesses
      PROVE  /\ TrueNodes(ship[q].nodes)'
             /\ ship'[q].status = "succeeded" => AllSucceeded(ship'[q].nodes)
             /\ ship'[q].at = "node" => ship'[q].status = "none"
  <2>1. CASE q = p
    BY <1>1, <2>1 DEF TrueNodes
  <2>2. CASE q # p
    BY <1>1, <1>2, <2>2 DEF TrueNodes, WorkflowInv
  <2> QED
    BY <2>1, <2>2
<1>4. graph \notin {NoGraph, Unreadable} => TrueNodes(graph.nodes)'
  BY <1>2 DEF WorkflowInv, TrueNodes
<1> QED
  BY <1>1, <1>3, <1>4 DEF WorkflowInv, AllSucceeded

(* What a node's new status leaves alone.                                  *)
LEMMA SettleMoves ==
  ASSUME WorkflowInv, NEW p \in ShipProcesses, AtNode(p), NEW status \in NodeStatuses,
         NEW nodeBlocked \in BOOLEAN, NEW stops \in BOOLEAN,
         Settles(p, status, nodeBlocked, stops)
  PROVE  \E r \in ShipProcess :
           /\ ship' = [ship EXCEPT ![p] = r]
           /\ r.at = ship[p].at /\ r.status = ship[p].status
           /\ DOMAIN r.nodes = DOMAIN ship[p].nodes
           /\ \A k \in DOMAIN r.nodes :
                /\ r.nodes[k].id = ship[p].nodes[k].id
                /\ r.nodes[k].depends_on = ship[p].nodes[k].depends_on
                /\ r.nodes[k].status = IF k = ship[p].next THEN status ELSE ship[p].nodes[k].status
<1> DEFINE s == ship[p]
           node == [s.nodes[s.next] EXCEPT !.status = status, !.blockers = nodeBlocked]
           nodes == [s.nodes EXCEPT ![s.next] = node]
           r == [s EXCEPT !.nodes = nodes, !.blocked = @ \/ stops, !.next = @ + 1]
<1>1. s \in ShipProcess /\ s.next \in 1..Len(s.nodes) /\ s.nodes \in Seq(GraphNode)
  BY SMT DEF WorkflowInv, AtNode, ShipProcess
<1>2. s.nodes[s.next] \in GraphNode
  BY SMT, <1>1
<1>3. /\ node \in GraphNode /\ node.id = s.nodes[s.next].id
      /\ node.depends_on = s.nodes[s.next].depends_on /\ node.status = status
  BY <1>2 DEF GraphNode
<1>4. /\ nodes \in Seq(GraphNode) /\ DOMAIN nodes = DOMAIN s.nodes
      /\ \A k \in DOMAIN s.nodes : nodes[k] = IF k = s.next THEN node ELSE s.nodes[k]
  <2> HIDE DEF node
  <2> QED
    BY <1>1, <1>3, ExceptSeq
<1>5. r \in ShipProcess /\ r.at = s.at /\ r.status = s.status /\ r.nodes = nodes
  <2>1. (s.blocked \/ stops) \in BOOLEAN /\ s.next + 1 \in Nat \ {0}
    BY SMT, <1>1 DEF ShipProcess
  <2> HIDE DEF nodes
  <2> QED
    BY <1>1, <1>4, <2>1 DEF ShipProcess
<1>6. ship' = [ship EXCEPT ![p] = r]
  BY SMTT(60), <1>1 DEF Settles, WorkflowInv, ShipProcess
<1> HIDE DEF r, nodes, node
<1>7. \A k \in DOMAIN r.nodes :
        /\ r.nodes[k].id = s.nodes[k].id
        /\ r.nodes[k].depends_on = s.nodes[k].depends_on
        /\ r.nodes[k].status = IF k = s.next THEN status ELSE s.nodes[k].status
  BY <1>3, <1>4, <1>5
<1> QED
  BY <1>4, <1>5, <1>6, <1>7

LEMMA WorkflowKeep == WorkflowInv /\ [WorkflowNext]_workflowVars => WorkflowInv'
<1> SUFFICES ASSUME WorkflowInv, [WorkflowNext]_workflowVars PROVE WorkflowInv'
  OBVIOUS
<1>0. /\ \A p \in ShipProcesses : ship[p] \in ShipProcess /\ TrueNodes(ship[p].nodes)
      /\ graph \notin {NoGraph, Unreadable} => graph \in StoredGraph /\ TrueNodes(graph.nodes)
  BY DEF WorkflowInv
<1>a. Idle \in ShipProcess /\ Idle.nodes = <<>> /\ Idle.status = "none" /\ Idle.at = "idle"
  BY SMT DEF Idle, ShipProcess, GraphStatuses
<1>b. ASSUME NEW p \in ShipProcesses, ship' = [ship EXCEPT ![p] = Idle], UNCHANGED <<graph, achieved>>
      PROVE  WorkflowInv'
  <2>1. TrueNodes(Idle.nodes)' /\ (Idle.status = "succeeded" => AllSucceeded(Idle.nodes))
    BY SMT, <1>a DEF TrueNodes
  <2> QED
    BY <1>a, <1>b, <2>1, ShipMoves
<1>c. ASSUME NEW p \in ShipProcesses, NEW status \in NodeStatuses, NEW nodeBlocked \in BOOLEAN,
             NEW stops \in BOOLEAN, AtNode(p), Settles(p, status, nodeBlocked, stops), UNCHANGED graph,
             achieved \subseteq achieved',
             status = "succeeded" => ship[p].nodes[ship[p].next].id \in achieved'
      PROVE  WorkflowInv'
  <2>1. PICK r \in ShipProcess :
           /\ ship' = [ship EXCEPT ![p] = r]
           /\ r.at = ship[p].at /\ r.status = ship[p].status
           /\ DOMAIN r.nodes = DOMAIN ship[p].nodes
           /\ \A k \in DOMAIN r.nodes :
                /\ r.nodes[k].id = ship[p].nodes[k].id
                /\ r.nodes[k].depends_on = ship[p].nodes[k].depends_on
                /\ r.nodes[k].status = IF k = ship[p].next THEN status ELSE ship[p].nodes[k].status
    BY SMT, <1>c, SettleMoves
  <2>2. ASSUME NEW k \in DOMAIN r.nodes, r.nodes[k].status = "succeeded" PROVE r.nodes[k].id \in achieved'
    <3>1. CASE k = ship[p].next
      BY <2>1, <2>2, <3>1, <1>c
    <3>2. CASE k # ship[p].next
      BY SMT, <2>1, <2>2, <3>2, <1>0, <1>c DEF TrueNodes
    <3> QED
      BY <3>1, <3>2
  <2>3. r.at = "node" /\ r.status = "none"
    BY <2>1, <1>c DEF AtNode, WorkflowInv
  <2> QED
    BY <2>1, <2>2, <2>3, <1>c, ShipMoves DEF TrueNodes
<1>1. ASSUME NEW t \in Templates, plan_workflow(t) PROVE WorkflowInv'
  <2> DEFINE nodes == WORKFLOW_TEMPLATES[t]
  <2>1. /\ nodes \in Seq(GraphNode) /\ \A k \in DOMAIN nodes : nodes[k].status = "planned"
    BY TemplatesAssumption, ShippedTemplates
  <2>2. PICK status \in {"blocked", "planned"} : graph' = [status |-> status, nodes |-> nodes]
    BY <1>1 DEF plan_workflow
  <2> HIDE DEF nodes
  <2>3. graph' \in StoredGraph /\ graph'.nodes = nodes /\ graph'.status # "succeeded"
    BY <2>1, <2>2 DEF StoredGraph, GraphStatuses
  <2>4. UNCHANGED <<ship, achieved>>
    BY <1>1 DEF plan_workflow
  <2> QED
    BY <2>1, <2>3, <2>4 DEF WorkflowInv, TrueNodes, AllSucceeded
<1>2. ASSUME NEW p \in ShipProcesses, NEW resume \in BOOLEAN, graph \notin {NoGraph, Unreadable},
             NEW confirmed \in SUBSET MutatingIn(graph.nodes), run_workflow(p, resume, confirmed)
      PROVE  WorkflowInv'
  <2>0. graph.nodes \in Seq(GraphNode)
    BY <1>0, <1>2 DEF StoredGraph
  <2>1. confirmed \in SUBSET STRING
    <3>1. \A k \in DOMAIN graph.nodes : graph.nodes[k] \in GraphNode
      BY SMT, <2>0
    <3>2. \A n \in GraphNode : n.id \in STRING
      BY DEF GraphNode
    <3> QED
      BY <3>1, <3>2 DEF MutatingIn
  <2>2. PICK blocked \in BOOLEAN : ship' = [ship EXCEPT ![p] =
          [Idle EXCEPT !.at = "node", !.resume = resume, !.confirmed = confirmed,
                       !.nodes = graph.nodes, !.blocked = blocked]]
    BY <1>2 DEF run_workflow
  <2> DEFINE r == [Idle EXCEPT !.at = "node", !.resume = resume, !.confirmed = confirmed,
                       !.nodes = graph.nodes, !.blocked = blocked]
  <2>3. r \in ShipProcess /\ r.nodes = graph.nodes /\ r.status = "none"
    BY <1>a, <2>0, <2>1 DEF ShipProcess
  <2>4. ship' = [ship EXCEPT ![p] = r] /\ UNCHANGED <<graph, achieved>>
    BY <2>2, <1>2 DEF run_workflow
  <2> HIDE DEF r
  <2> QED
    BY <2>3, <2>4, <1>0, <1>2, ShipMoves DEF TrueNodes
<1>3. ASSUME NEW p \in ShipProcesses, pause_workflow(p) \/ cancel_workflow(p) PROVE WorkflowInv'
  <2>0. graph \notin {NoGraph, Unreadable} /\ graph.nodes \in Seq(GraphNode) /\ TrueNodes(graph.nodes)
    BY <1>0, <1>3 DEF StoredGraph, pause_workflow, cancel_workflow, Free
  <2> DEFINE cancelled == [k \in DOMAIN graph.nodes |->
                       IF graph.nodes[k].status \in {"succeeded", "failed", "rolled_back"}
                       THEN graph.nodes[k]
                       ELSE [graph.nodes[k] EXCEPT !.status = "cancelled"]]
  <2>1. cancelled \in Seq(GraphNode) /\ TrueNodes(cancelled)
    <3>1. DOMAIN cancelled = 1..Len(graph.nodes) /\ Len(graph.nodes) \in Nat
      BY SMT, <2>0
    <3>2. ASSUME NEW k \in 1..Len(graph.nodes)
          PROVE  /\ cancelled[k] \in GraphNode
                 /\ cancelled[k].status = "succeeded" => cancelled[k].id \in achieved
      <4>1. graph.nodes[k] \in GraphNode /\ k \in DOMAIN graph.nodes
        BY SMT, <2>0
      <4>2. CASE graph.nodes[k].status \in {"succeeded", "failed", "rolled_back"}
        BY <2>0, <4>1, <4>2 DEF TrueNodes
      <4>3. CASE graph.nodes[k].status \notin {"succeeded", "failed", "rolled_back"}
        <5>1. cancelled[k] = [graph.nodes[k] EXCEPT !.status = "cancelled"]
          BY <4>1, <4>3
        <5> QED
          BY <4>1, <5>1 DEF GraphNode, NodeStatuses
      <4> QED
        BY <4>2, <4>3
    <3>3. cancelled \in [1..Len(graph.nodes) -> GraphNode]
      BY <3>1, <3>2
    <3> HIDE DEF cancelled
    <3> QED
      BY <3>1, <3>2, <3>3, SeqDef DEF TrueNodes
  <2> HIDE DEF cancelled
  <2>2. PICK status \in {"paused", "cancelled"}, nodes \in {graph.nodes, cancelled} :
          ship' = [ship EXCEPT ![p] = [Idle EXCEPT !.at = "open", !.status = status, !.nodes = nodes]]
    BY <1>3 DEF pause_workflow, cancel_workflow, cancelled
  <2> DEFINE r == [Idle EXCEPT !.at = "open", !.status = status, !.nodes = nodes]
  <2>3. r \in ShipProcess /\ r.nodes = nodes /\ r.status = status /\ r.at = "open"
    BY <1>a, <2>0, <2>1 DEF ShipProcess, GraphStatuses
  <2>4. ship' = [ship EXCEPT ![p] = r] /\ UNCHANGED <<graph, achieved>>
    BY <2>2, <1>3 DEF pause_workflow, cancel_workflow
  <2> HIDE DEF r
  <2> QED
    BY <2>0, <2>1, <2>3, <2>4, ShipMoves DEF TrueNodes
<1>4. ASSUME NEW p \in ShipProcesses, SkipNode(p) \/ BlockByPolicy(p) \/ PauseForConfirmation(p) \/ BlockUnresolved(p)
      PROVE  WorkflowInv'
  <2>1. AtNode(p) /\ UNCHANGED <<graph, achieved>>
    BY <1>4 DEF SkipNode, BlockByPolicy, PauseForConfirmation, BlockUnresolved, Reached, MayRun
  <2>2. (ship[p].nodes[ship[p].next].blockers \/ ~ship[p].blocked) \in BOOLEAN
    OBVIOUS
  <2>3. \E status \in {"skipped", "blocked", "paused_for_confirmation"}, nodeBlocked, stops \in BOOLEAN :
          Settles(p, status, nodeBlocked, stops)
    BY ZenonT(60), <1>4, <2>2 DEF SkipNode, BlockByPolicy, PauseForConfirmation, BlockUnresolved
  <2> QED
    BY <2>1, <2>3, <1>c DEF NodeStatuses
<1>5. ASSUME NEW p \in ShipProcesses, KeepSettled(p) PROVE WorkflowInv'
  <2> DEFINE r == [ship[p] EXCEPT !.next = @ + 1]
  <2>1. ship' = [ship EXCEPT ![p] = r] /\ UNCHANGED <<graph, achieved>>
    BY <1>5 DEF KeepSettled
  <2>2. r \in ShipProcess /\ r.nodes = ship[p].nodes /\ r.status = ship[p].status /\ r.at = ship[p].at
    BY SMT, <1>0 DEF ShipProcess
  <2> HIDE DEF r
  <2> QED
    BY SMT, <2>1, <2>2, <1>0, ShipMoves DEF TrueNodes, WorkflowInv
<1>6. ASSUME NEW p \in ShipProcesses, RunCommand(p) PROVE WorkflowInv'
  <2> DEFINE node == ship[p].nodes[ship[p].next]
  <2>1. PICK end \in CommandEnds :
          /\ Settles(p, NodeStatus(node, end), NodeStatus(node, end) # "succeeded", NodeStatus(node, end) # "succeeded")
          /\ achieved' = IF end \in {"ok", "text"} THEN achieved \cup {node.id} ELSE achieved
    BY <1>6 DEF RunCommand
  <2>2. /\ NodeStatus(node, end) \in NodeStatuses
        /\ NodeStatus(node, end) = "succeeded" => end \in {"ok", "text"}
    BY DEF CommandEnds, NodeStatus, NodeStatuses
  <2>3. AtNode(p) /\ UNCHANGED graph
    BY <1>6 DEF RunCommand, MayRun, Reached
  <2>4. (NodeStatus(node, end) # "succeeded") \in BOOLEAN
    OBVIOUS
  <2> QED
    BY <2>1, <2>2, <2>3, <2>4, <1>c
<1>7. ASSUME NEW p \in ShipProcesses, EndRun(p) PROVE WorkflowInv'
  <2> DEFINE r == [ship[p] EXCEPT !.at = "open", !.status = FinalStatus(ship[p])]
  <2>1. ship' = [ship EXCEPT ![p] = r] /\ UNCHANGED <<graph, achieved>>
    BY <1>7 DEF EndRun
  <2>2. /\ FinalStatus(ship[p]) \in GraphStatuses
        /\ FinalStatus(ship[p]) = "succeeded" => Statuses(ship[p].nodes) = {"succeeded"}
    BY DEF FinalStatus, GraphStatuses
  <2>3. /\ r \in ShipProcess /\ r.nodes = ship[p].nodes /\ r.status = FinalStatus(ship[p]) /\ r.at = "open"
    BY <1>0, <2>2 DEF ShipProcess
  <2>4. r.status = "succeeded" => AllSucceeded(r.nodes)
    BY <2>2, <2>3 DEF AllSucceeded, Statuses
  <2> HIDE DEF r
  <2> QED
    BY <2>1, <2>3, <2>4, <1>0, ShipMoves DEF TrueNodes
<1>8. ASSUME NEW p \in ShipProcesses, OpenGraph(p) PROVE WorkflowInv'
  <2> DEFINE r == [ship[p] EXCEPT !.at = "write"]
  <2>1. ship' = [ship EXCEPT ![p] = r] /\ graph' = Unreadable /\ achieved' = achieved
    BY <1>8 DEF OpenGraph
  <2>2. r \in ShipProcess /\ r.nodes = ship[p].nodes /\ r.status = ship[p].status /\ r.at = "write"
    BY <1>0 DEF ShipProcess
  <2> HIDE DEF r
  <2>3. /\ ship' \in [ShipProcesses -> ShipProcess]
        /\ ship'[p] = r
        /\ \A q \in ShipProcesses : q # p => ship'[q] = ship[q]
    BY <2>1, <2>2 DEF WorkflowInv
  <2> QED
    BY SMT, <2>1, <2>2, <2>3 DEF WorkflowInv, TrueNodes
<1>9. ASSUME NEW p \in ShipProcesses, WriteGraph(p) PROVE WorkflowInv'
  <2>1. /\ ship' = [ship EXCEPT ![p] = Idle] /\ achieved' = achieved
        /\ graph' = [status |-> ship[p].status, nodes |-> ship[p].nodes]
    BY <1>9 DEF WriteGraph
  <2>2. /\ ship' \in [ShipProcesses -> ShipProcess]
        /\ ship'[p] = Idle
        /\ \A q \in ShipProcesses : q # p => ship'[q] = ship[q]
    BY <2>1, <1>a DEF WorkflowInv
  <2>3. /\ graph' \in StoredGraph /\ TrueNodes(graph'.nodes)
        /\ graph'.status = "succeeded" => AllSucceeded(graph'.nodes)
    BY <2>1, <1>0 DEF StoredGraph, ShipProcess, WorkflowInv
  <2>4. TrueNodes(Idle.nodes) /\ Idle.status # "succeeded"
    BY SMT, <1>a DEF TrueNodes
  <2> QED
    BY <2>1, <2>2, <2>3, <2>4, <1>a DEF WorkflowInv, TrueNodes
<1>10. ASSUME NEW p \in ShipProcesses, GiveUpWrite(p) \/ KillShip(p) PROVE WorkflowInv'
  BY <1>10, <1>b DEF GiveUpWrite, KillShip
<1>11. ASSUME UNCHANGED workflowVars PROVE WorkflowInv'
  BY <1>11 DEF workflowVars, WorkflowInv, TrueNodes
<1> QED
  BY <1>1, <1>2, <1>3, <1>4, <1>5, <1>6, <1>7, <1>8, <1>9, <1>10, <1>11
  DEF WorkflowNext, ShipCommand, RunStep

(* The stored graph never claims a success that was not achieved.          *)
THEOREM StoredGraphsAreTrue == WorkflowSpec => []GraphIsTrue
<1>1. WorkflowInv => GraphIsTrue
  BY DEF WorkflowInv, GraphIsTrue, TrueNodes, AllSucceeded
<1> QED
  BY <1>1, WorkflowStart, WorkflowKeep, PTL DEF WorkflowSpec

(* The file and the copies hold the nodes of the template that was planned. *)
PlanInv(t) ==
  /\ graph \notin {NoGraph, Unreadable} => FromTemplate(t, graph.nodes)
  /\ \A p \in ShipProcesses : ship[p].at # "idle" => FromTemplate(t, ship[p].nodes)

LEMMA PlanKeep ==
  ASSUME NEW t, Templates = {t}, WorkflowInv, PlanInv(t), [WorkflowNext]_workflowVars
  PROVE  PlanInv(t)'
<1>0. /\ ship \in [ShipProcesses -> ShipProcess]
      /\ \A p \in ShipProcesses : ship[p] \in ShipProcess
  BY DEF WorkflowInv
<1>a. ASSUME NEW p \in ShipProcesses, NEW r, ship' = [ship EXCEPT ![p] = r], UNCHANGED graph,
             r.at # "idle" => FromTemplate(t, r.nodes)
      PROVE  PlanInv(t)'
  BY <1>0, <1>a DEF PlanInv
<1>b. Idle.at = "idle"
  BY DEF Idle
<1>c. ASSUME NEW p \in ShipProcesses, NEW status \in NodeStatuses, NEW nodeBlocked \in BOOLEAN,
             NEW stops \in BOOLEAN, AtNode(p), Settles(p, status, nodeBlocked, stops), UNCHANGED graph
      PROVE  PlanInv(t)'
  <2>1. PICK r \in ShipProcess :
           /\ ship' = [ship EXCEPT ![p] = r]
           /\ DOMAIN r.nodes = DOMAIN ship[p].nodes
           /\ \A k \in DOMAIN r.nodes :
                /\ r.nodes[k].id = ship[p].nodes[k].id
                /\ r.nodes[k].depends_on = ship[p].nodes[k].depends_on
    BY SMT, <1>c, SettleMoves
  <2>2. FromTemplate(t, ship[p].nodes)
    BY <1>c DEF PlanInv, AtNode
  <2>3. FromTemplate(t, r.nodes)
    BY <2>1, <2>2 DEF FromTemplate
  <2> QED
    BY <2>1, <2>3, <1>a, <1>c
<1>1. ASSUME plan_workflow(t) PROVE PlanInv(t)'
  <2>1. graph'.nodes = WORKFLOW_TEMPLATES[t] /\ ship' = ship
    BY <1>1 DEF plan_workflow
  <2> QED
    BY <2>1 DEF PlanInv, FromTemplate
<1>2. ASSUME NEW p \in ShipProcesses, NEW resume, NEW confirmed, run_workflow(p, resume, confirmed)
      PROVE  PlanInv(t)'
  <2>1. PICK b : ship' = [ship EXCEPT ![p] =
          [Idle EXCEPT !.at = "node", !.resume = resume, !.confirmed = confirmed,
                       !.nodes = graph.nodes, !.blocked = b]]
    BY <1>2 DEF run_workflow
  <2> DEFINE r == [Idle EXCEPT !.at = "node", !.resume = resume, !.confirmed = confirmed,
                               !.nodes = graph.nodes, !.blocked = b]
  <2>2. ship' = [ship EXCEPT ![p] = r] /\ r.nodes = graph.nodes
    BY <2>1 DEF Idle
  <2> HIDE DEF r
  <2> QED
    BY <2>2, <1>2, <1>a DEF run_workflow, PlanInv, Free
<1>3. ASSUME NEW p \in ShipProcesses, pause_workflow(p) \/ cancel_workflow(p) PROVE PlanInv(t)'
  <2>0. FromTemplate(t, graph.nodes) /\ UNCHANGED graph /\ graph.nodes \in Seq(GraphNode)
    BY <1>3 DEF PlanInv, Free, pause_workflow, cancel_workflow, WorkflowInv, StoredGraph
  <2> DEFINE cancelled == [k \in DOMAIN graph.nodes |->
                       IF graph.nodes[k].status \in {"succeeded", "failed", "rolled_back"}
                       THEN graph.nodes[k]
                       ELSE [graph.nodes[k] EXCEPT !.status = "cancelled"]]
  <2>1. FromTemplate(t, cancelled)
    <3>1. ASSUME NEW k \in DOMAIN graph.nodes
          PROVE  /\ cancelled[k].id = graph.nodes[k].id
                 /\ cancelled[k].depends_on = graph.nodes[k].depends_on
      <4>1. graph.nodes[k] \in GraphNode
        BY SMT, <2>0
      <4> QED
        BY <4>1 DEF GraphNode
    <3>2. DOMAIN cancelled = DOMAIN graph.nodes
      OBVIOUS
    <3> HIDE DEF cancelled
    <3> QED
      BY <3>1, <3>2, <2>0 DEF FromTemplate
  <2>3. PICK status \in {"paused", "cancelled"}, nodes \in {graph.nodes, cancelled} :
          ship' = [ship EXCEPT ![p] = [Idle EXCEPT !.at = "open", !.status = status, !.nodes = nodes]]
    BY <1>3 DEF pause_workflow, cancel_workflow
  <2> HIDE DEF cancelled
  <2> DEFINE r == [Idle EXCEPT !.at = "open", !.status = status, !.nodes = nodes]
  <2>2. ship' = [ship EXCEPT ![p] = r] /\ r.nodes \in {graph.nodes, cancelled}
    BY <2>3 DEF Idle
  <2> HIDE DEF r
  <2> QED
    BY <2>0, <2>1, <2>2, <1>a
<1>4. ASSUME NEW p \in ShipProcesses, SkipNode(p) \/ BlockByPolicy(p) \/ PauseForConfirmation(p) \/ BlockUnresolved(p)
      PROVE  PlanInv(t)'
  <2>1. AtNode(p) /\ UNCHANGED graph
    BY <1>4 DEF SkipNode, BlockByPolicy, PauseForConfirmation, BlockUnresolved, Reached, MayRun
  <2>2. (ship[p].nodes[ship[p].next].blockers \/ ~ship[p].blocked) \in BOOLEAN
    OBVIOUS
  <2>3. \E status \in {"skipped", "blocked", "paused_for_confirmation"}, nodeBlocked, stops \in BOOLEAN :
          Settles(p, status, nodeBlocked, stops)
    BY <1>4, <2>2 DEF SkipNode, BlockByPolicy, PauseForConfirmation, BlockUnresolved
  <2> QED
    BY <2>1, <2>3, <1>c DEF NodeStatuses
<1>5. ASSUME NEW p \in ShipProcesses, KeepSettled(p) \/ EndRun(p) \/ OpenGraph(p) PROVE PlanInv(t)'
  <2>1. ship[p].at # "idle" /\ FromTemplate(t, ship[p].nodes)
    BY <1>5 DEF KeepSettled, EndRun, OpenGraph, AtNode, PlanInv
  <2>2. PICK r : ship' = [ship EXCEPT ![p] = r] /\ r.nodes = ship[p].nodes
    BY SMT, <1>5, <1>0 DEF KeepSettled, EndRun, OpenGraph, ShipProcess
  <2>3. CASE UNCHANGED graph
    BY <2>1, <2>2, <2>3, <1>a
  <2>4. CASE graph' = Unreadable
    BY <2>1, <2>2, <2>4, <1>0 DEF PlanInv
  <2> QED
    BY <1>5, <2>3, <2>4 DEF KeepSettled, EndRun, OpenGraph
<1>6. ASSUME NEW p \in ShipProcesses, RunCommand(p) PROVE PlanInv(t)'
  <2> DEFINE node == ship[p].nodes[ship[p].next]
  <2>1. PICK end \in CommandEnds :
          Settles(p, NodeStatus(node, end), NodeStatus(node, end) # "succeeded", NodeStatus(node, end) # "succeeded")
    BY <1>6 DEF RunCommand
  <2>2. NodeStatus(node, end) \in NodeStatuses
    BY DEF CommandEnds, NodeStatus, NodeStatuses
  <2>3. AtNode(p) /\ UNCHANGED graph /\ (NodeStatus(node, end) # "succeeded") \in BOOLEAN
    BY <1>6 DEF RunCommand, MayRun, Reached
  <2> QED
    BY <2>1, <2>2, <2>3, <1>c
<1>7. ASSUME NEW p \in ShipProcesses, WriteGraph(p) PROVE PlanInv(t)'
  <2>1. /\ ship' = [ship EXCEPT ![p] = Idle] /\ graph'.nodes = ship[p].nodes /\ ship[p].at = "write"
    BY <1>7 DEF WriteGraph
  <2> QED
    BY <2>1, <1>0, <1>b DEF PlanInv
<1>8. ASSUME NEW p \in ShipProcesses, GiveUpWrite(p) \/ KillShip(p) PROVE PlanInv(t)'
  BY <1>8, <1>a, <1>b DEF GiveUpWrite, KillShip
<1>9. ASSUME UNCHANGED workflowVars PROVE PlanInv(t)'
  BY <1>9 DEF workflowVars, PlanInv
<1> QED
  BY <1>1, <1>2, <1>3, <1>4, <1>5, <1>6, <1>7, <1>8, <1>9 DEF WorkflowNext, ShipCommand, RunStep

(* What DependenciesFirst asks of a step, for the planned template.        *)
LEMMA EffectsComeInOrder ==
  ASSUME NEW t, Templates = {t}, WorkflowInv, PlanInv(t), WorkflowNext,
         NEW k \in DOMAIN WORKFLOW_TEMPLATES[t],
         WORKFLOW_TEMPLATES[t][k].id \in effected' \ effected
  PROVE  WORKFLOW_TEMPLATES[t][k].depends_on \subseteq achieved
<1>1. PICK p \in ShipProcesses : MayRun(p) /\ ship[p].nodes[ship[p].next].id = WORKFLOW_TEMPLATES[t][k].id
  BY ZenonT(60) DEF WorkflowNext, ShipCommand, RunStep, plan_workflow, run_workflow, pause_workflow, cancel_workflow,
         SkipNode, KeepSettled, BlockByPolicy, PauseForConfirmation, BlockUnresolved, RunCommand, EndRun,
         OpenGraph, WriteGraph, GiveUpWrite, KillShip
<1> DEFINE s == ship[p]
<1>2. AtNode(p) /\ Satisfied(s) /\ s \in ShipProcess /\ TrueNodes(s.nodes)
  BY <1>1 DEF MayRun, Reached, WorkflowInv
<1>3. s.next \in DOMAIN s.nodes /\ DOMAIN s.nodes = 1..Len(s.nodes)
  BY SMT, <1>2 DEF AtNode, ShipProcess
<1>4. FromTemplate(t, s.nodes)
  BY <1>2 DEF PlanInv, AtNode
<1>5. t \in DOMAIN WORKFLOW_TEMPLATES
  BY TemplatesAssumption
<1>6. s.next = k
  <2>1. WORKFLOW_TEMPLATES[t][s.next].id = WORKFLOW_TEMPLATES[t][k].id /\ s.next \in DOMAIN WORKFLOW_TEMPLATES[t]
    BY <1>1, <1>3, <1>4 DEF FromTemplate
  <2> QED
    BY <2>1, <1>5, ShippedTemplates
<1>7. WORKFLOW_TEMPLATES[t][k].depends_on = s.nodes[s.next].depends_on
  BY <1>3, <1>4, <1>6 DEF FromTemplate
<1>8. ASSUME NEW d \in s.nodes[s.next].depends_on PROVE d \in achieved
  <2>1. PICK j \in 1..(s.next - 1) : s.nodes[j].id = d /\ s.nodes[j].status = "succeeded"
    BY <1>2, <1>8 DEF Satisfied
  <2>2. j \in DOMAIN s.nodes
    BY SMT, <1>3, <2>1, <1>2 DEF ShipProcess
  <2> QED
    BY <2>1, <2>2, <1>2 DEF TrueNodes
<1> QED
  BY <1>7, <1>8

(* Whichever template is planned, a node's command takes effect only after *)
(* those of all its dependencies have ended well.                          *)
THEOREM DependenciesComeFirst ==
  ASSUME NEW CONSTANT planned, Templates = {planned}
  PROVE  WorkflowSpec => DependenciesFirst
<1>1. WorkflowInit => WorkflowInv /\ PlanInv(planned)
  <2>1. WorkflowInit => PlanInv(planned)
    BY SMT DEF WorkflowInit, PlanInv, Idle
  <2> QED
    BY <2>1, WorkflowStart
<1>2. WorkflowInv /\ PlanInv(planned) /\ [WorkflowNext]_workflowVars => (WorkflowInv /\ PlanInv(planned))'
  BY WorkflowKeep, PlanKeep
<1>3. WorkflowInv /\ PlanInv(planned) /\ [WorkflowNext]_workflowVars => [EffectsInOrder]_workflowVars
  BY EffectsComeInOrder DEF EffectsInOrder
<1> QED
  BY <1>1, <1>2, <1>3, PTL DEF WorkflowSpec, DependenciesFirst

-----------------------------------------------------------------------------
(* The job runner.  A caller's record, and the steps between its lock and  *)
(* its unlock.                                                             *)
JobIndex == [Keys -> 0..MaxJobs] \cup {Corrupt}

Caller ==
  [at : {"away", "lock", "validate", "act", "settle", "unlock", "store", "index", "open", "write"},
   job : 0..MaxJobs, dry : BOOLEAN, key : Keys \cup {NoKey}, token : Targets \cup {NoToken},
   state : {"none", "queued", "running", "failed", "waiting_for_confirmation", "succeeded"},
   locked : BOOLEAN, index : JobIndex]

JobsTypeOK ==
  /\ target \in Targets
  /\ lock \in BOOLEAN
  /\ confirmation \in [Targets -> {"none", "active", "consumed", "expired"}]
  /\ jobIndex \in JobIndex
  /\ client \in [Clients -> Caller]
  /\ dryRuns \in [Targets -> Nat]
  /\ applied \in [Targets -> Nat]

Within(c) == client[c].at \in {"validate", "act", "settle"}

(* A lock file that a killed caller left behind: no one removes it.        *)
Orphaned == lock /\ \A c \in Clients : ~client[c].locked

(* The token of c is used and not consumed yet.                            *)
Spending(c, t) == client[c].at = "settle" /\ ~client[c].dry /\ client[c].token = t

(* Jobs of one app exclude each other; a job about to act holds a token    *)
(* that has a dry run to spend; so does every active confirmation, unless  *)
(* the job that spent it has yet to consume it or died with the lock.      *)
JobsInv ==
  /\ JobsTypeOK
  /\ \A c \in Clients : Within(c) => client[c].locked
  /\ \A c \in Clients : client[c].locked => lock /\ (Within(c) \/ client[c].at = "unlock")
  /\ \A c, d \in Clients : client[c].locked /\ client[d].locked => c = d
  /\ \A c \in Clients : ~client[c].dry /\ client[c].at # "away" => client[c].token \in Targets
  /\ \A c \in Clients : client[c].at \in {"open", "write"} => client[c].index \in [Keys -> 0..MaxJobs]
  /\ \A c \in Clients : client[c].at = "act" /\ ~client[c].dry =>
       applied[client[c].token] < dryRuns[client[c].token]
  /\ \A t \in Targets : confirmation[t] = "active" =>
       \/ applied[t] < dryRuns[t]
       \/ \E c \in Clients : Spending(c, t)
       \/ Orphaned
  /\ ConfirmedOnce

(* A step of one caller leaves the records of the others alone.            *)
LEMMA CallerMoves ==
  ASSUME NEW c \in Clients, client \in [Clients -> Caller], NEW r \in Caller,
         client' = [client EXCEPT ![c] = r]
  PROVE  /\ client' \in [Clients -> Caller]
         /\ client'[c] = r
         /\ \A d \in Clients : d # c => client'[d] = client[d]
  OBVIOUS

LEMMA JobsStart == JobsInit => JobsInv
<1> SUFFICES ASSUME JobsInit PROVE JobsInv
  OBVIOUS
<1>1. Away \in Caller
  BY SMT, JobsAssumption DEF Away, Caller, JobIndex
<1>2. JobsTypeOK
  <2>1. jobIndex \in JobIndex
    BY SMT, JobsAssumption DEF JobsInit, JobIndex
  <2>2. client \in [Clients -> Caller]
    BY <1>1 DEF JobsInit
  <2> QED
    BY <2>1, <2>2 DEF JobsInit, JobsTypeOK
<1>3. \A c \in Clients : client[c] = Away
  BY DEF JobsInit
<1>4. \A c \in Clients : client[c].at = "away" /\ ~client[c].locked
  BY SMT, <1>3 DEF Away
<1> QED
  BY SMT, <1>2, <1>4 DEF JobsInit, JobsInv, Within, ConfirmedOnce

(* Steps of a caller that neither take the lock nor touch confirmations    *)
(* and histories: the lock is at most given up, and a caller that has used *)
(* its token leaves "settle" only by dying with the lock.                  *)
LEMMA PlainMove ==
  ASSUME JobsInv, NEW c \in Clients, NEW r \in Caller,
         client' = [client EXCEPT ![c] = r],
         r.at \in {"validate", "act", "settle"} => r.locked,
         r.locked => client[c].locked /\ lock' /\ r.at \in {"validate", "act", "settle", "unlock"},
         lock' = lock \/ (client[c].locked /\ ~r.locked /\ ~lock' /\ client[c].at # "settle"),
         lock' \in BOOLEAN,
         client[c].at = "settle" => ~r.locked,
         ~r.dry /\ r.at # "away" => r.token \in Targets,
         r.at \in {"open", "write"} => r.index \in [Keys -> 0..MaxJobs],
         r.at = "act" /\ ~r.dry => applied[r.token] < dryRuns[r.token],
         target' \in Targets, jobIndex' \in JobIndex,
         UNCHANGED <<confirmation, dryRuns, applied>>
  PROVE  JobsInv'
<1>1. /\ client' \in [Clients -> Caller]
      /\ client'[c] = r
      /\ \A d \in Clients : d # c => client'[d] = client[d]
  BY CallerMoves DEF JobsInv, JobsTypeOK
<1>2. JobsTypeOK'
  BY <1>1 DEF JobsInv, JobsTypeOK
<1>3. \A d \in Clients : Within(d)' => client'[d].locked
  BY <1>1 DEF JobsInv, Within
<1>4. \A d \in Clients : client'[d].locked => lock' /\ (Within(d)' \/ client'[d].at = "unlock")
  <2>1. client'[c].locked => lock' /\ (Within(c)' \/ client'[c].at = "unlock")
    BY <1>1 DEF Within
  <2>2. ASSUME NEW d \in Clients, d # c, client'[d].locked
        PROVE  lock' /\ (Within(d)' \/ client'[d].at = "unlock")
    BY SMT, <2>2, <1>1 DEF JobsInv, Within
  <2> QED
    BY <2>1, <2>2
<1>5. \A d, e \in Clients : client'[d].locked /\ client'[e].locked => d = e
  BY <1>1 DEF JobsInv
<1>6. \A d \in Clients : ~client'[d].dry /\ client'[d].at # "away" => client'[d].token \in Targets
  BY SMT, <1>1 DEF JobsInv
<1>7. \A d \in Clients : client'[d].at = "act" /\ ~client'[d].dry =>
        applied'[client'[d].token] < dryRuns'[client'[d].token]
  BY <1>1 DEF JobsInv
<1>8. ASSUME NEW t \in Targets, confirmation'[t] = "active"
      PROVE  \/ applied'[t] < dryRuns'[t]
             \/ \E d \in Clients : Spending(d, t)'
             \/ Orphaned'
  <2>1. ASSUME NEW d \in Clients, d # c, Spending(d, t) PROVE Spending(d, t)'
    BY <2>1, <1>1 DEF Spending
  <2>2. ASSUME Spending(c, t) PROVE Orphaned'
    <3>1. client[c].locked /\ lock
      BY <2>2 DEF Spending, JobsInv, Within
    <3>2. \A d \in Clients : d # c => ~client[d].locked
      BY <3>1 DEF JobsInv
    <3> QED
      BY <2>2, <3>1, <3>2, <1>1 DEF Orphaned, Spending
  <2>3. ASSUME Orphaned PROVE Orphaned'
    BY <2>3, <1>1 DEF Orphaned
  <2> QED
    BY SMT, <1>8, <2>1, <2>2, <2>3 DEF JobsInv
<1>9. ConfirmedOnce'
  BY DEF JobsInv, ConfirmedOnce
<1>10. \A d \in Clients : client'[d].at \in {"open", "write"} => client'[d].index \in [Keys -> 0..MaxJobs]
  BY <1>1 DEF JobsInv
<1> QED
  BY <1>2, <1>3, <1>4, <1>5, <1>6, <1>7, <1>8, <1>9, <1>10 DEF JobsInv

LEMMA JobsKeep == JobsInv /\ [JobsNext]_jobVars => JobsInv'
<1> SUFFICES ASSUME JobsInv, [JobsNext]_jobVars PROVE JobsInv'
  OBVIOUS
<1>0. /\ JobsTypeOK
      /\ \A c \in Clients : client[c] \in Caller
  BY DEF JobsInv, JobsTypeOK
<1>a. ASSUME NEW c \in Clients
      PROVE  /\ Within(c) => client[c].locked /\ lock
             /\ client[c].locked => lock /\ (Within(c) \/ client[c].at = "unlock")
             /\ ~client[c].dry /\ client[c].at # "away" => client[c].token \in Targets
             /\ client[c].locked => \A d \in Clients : client[d].locked => c = d
             /\ client[c].at \in {"open", "write"} => client[c].index \in [Keys -> 0..MaxJobs]
  BY DEF JobsInv
<1>b. Away \in Caller /\ Away.at = "away" /\ ~Away.locked
  BY SMT, JobsAssumption DEF Away, Caller, JobIndex
<1>c. ASSUME NEW c \in Clients, Raises(c), Within(c) \/ client[c].at = "lock",
             client[c].at # "settle", target' \in Targets,
             UNCHANGED <<lock, jobIndex, confirmation, dryRuns, applied>>
      PROVE  JobsInv'
  <2> DEFINE r == [client[c] EXCEPT !.at = "unlock", !.state = "failed"]
  <2>1. client' = [client EXCEPT ![c] = r]
    BY <1>c DEF Raises
  <2>2. /\ r \in Caller /\ r.at = "unlock" /\ r.locked = client[c].locked
        /\ r.dry = client[c].dry /\ r.token = client[c].token
    BY ZenonT(60), <1>0 DEF Caller
  <2> HIDE DEF r
  <2> QED
    BY <2>1, <2>2, <1>0, <1>a, <1>c, PlainMove DEF JobsTypeOK, Within
<1>1. ASSUME NEW c \in Clients, NEW dry \in BOOLEAN, NEW key \in Keys \cup {NoKey},
             NEW token \in Targets \cup {NoToken}, ~dry => token \in Targets,
             run_job(c, dry, key, token)
      PROVE  JobsInv'
  <2>1. PICK j \in 1..MaxJobs : client' = [client EXCEPT ![c] =
            [Away EXCEPT !.at = "lock", !.job = j, !.dry = dry, !.key = key,
                         !.token = token, !.state = "queued"]]
    BY <1>1 DEF run_job, Job
  <2> DEFINE r == [Away EXCEPT !.at = "lock", !.job = j, !.dry = dry, !.key = key,
                               !.token = token, !.state = "queued"]
  <2>2. /\ r \in Caller
        /\ r.at = "lock" /\ r.locked = Away.locked /\ r.dry = dry /\ r.token = token
    <3> HIDE DEF Away
    <3>1. j \in 0..MaxJobs
      BY SMT, JobsAssumption
    <3> QED
      BY ZenonT(60), <1>b, <3>1 DEF Caller
  <2>3. client' = [client EXCEPT ![c] = r]
    BY <2>1
  <2> HIDE DEF r
  <2> QED
    BY <2>2, <2>3, <1>0, <1>1, <1>a, <1>b, PlainMove DEF JobsTypeOK, Within, run_job
<1>2. ASSUME NEW c \in Clients, _acquire_lock(c) PROVE JobsInv'
  <2>1. CASE lock
    BY <2>1, <1>2, <1>c, <1>0 DEF _acquire_lock, JobsTypeOK
  <2>2. CASE ~lock
    <3> DEFINE r == [client[c] EXCEPT !.locked = TRUE, !.state = "running",
                       !.at = IF client[c].dry THEN "act" ELSE "validate"]
    <3>1. lock' = TRUE /\ client' = [client EXCEPT ![c] = r]
      BY <2>2, <1>2 DEF _acquire_lock
    <3>2. /\ r \in Caller /\ r.locked
          /\ r.dry = client[c].dry /\ r.token = client[c].token
          /\ r.at \in {"act", "validate"} /\ (r.at = "act" => r.dry)
      BY ZenonT(60), <1>0 DEF Caller
    <3> HIDE DEF r
    <3>3. /\ client' \in [Clients -> Caller]
          /\ client'[c] = r
          /\ \A d \in Clients : d # c => client'[d] = client[d]
      BY <3>1, <3>2, <1>0, CallerMoves DEF JobsTypeOK
    <3>4. \A d \in Clients : ~client[d].locked /\ ~Within(d)
      BY <2>2, <1>a
    <3>5. JobsTypeOK'
      BY <1>0, <1>2, <3>1, <3>3 DEF JobsTypeOK, _acquire_lock
    <3>6. \A d \in Clients : d # c => ~client'[d].locked /\ ~Within(d)'
      BY <3>3, <3>4 DEF Within
    <3>7. client[c].at = "lock"
      BY <1>2 DEF _acquire_lock
    <3>8. \A d \in Clients : ~client'[d].dry /\ client'[d].at # "away" => client'[d].token \in Targets
      BY SMT, <3>2, <3>3, <3>7, <1>a
    <3>9. \A d \in Clients : client'[d].at = "act" => client'[d].dry
      BY <3>2, <3>3, <3>6 DEF Within
    <3>10. \A t \in Targets : confirmation'[t] = "active" => applied'[t] < dryRuns'[t]
      BY <2>2, <3>4, <1>2 DEF JobsInv, Orphaned, Spending, Within, _acquire_lock
    <3>11. ConfirmedOnce'
      BY <1>2 DEF JobsInv, ConfirmedOnce, _acquire_lock
    <3>12. \A d \in Clients : client'[d].at \in {"open", "write"} => client'[d].index \in [Keys -> 0..MaxJobs]
      BY <1>a, <3>2, <3>3
    <3> QED
      BY SMT, <3>1, <3>2, <3>3, <3>5, <3>6, <3>8, <3>9, <3>10, <3>11, <3>12 DEF JobsInv, Within
  <2> QED
    BY <2>1, <2>2
<1>3. ASSUME NEW c \in Clients, _validate_confirmation_record(c) PROVE JobsInv'
  <2>0. client[c].at = "validate" /\ Within(c)
    BY <1>3 DEF _validate_confirmation_record, Within
  <2>1. CASE confirmation[client[c].token] = "active"
    <3> DEFINE r == [client[c] EXCEPT !.at = "act"]
    <3>1. client' = [client EXCEPT ![c] = r]
      BY <2>1, <1>3 DEF _validate_confirmation_record, Goes
    <3>2. /\ r \in Caller /\ r.at = "act" /\ r.locked = client[c].locked
          /\ r.dry = client[c].dry /\ r.token = client[c].token
      BY SMT, <1>0 DEF Caller
    <3> HIDE DEF r
    <3>3. ~client[c].dry => applied[client[c].token] < dryRuns[client[c].token]
      <4> SUFFICES ASSUME ~client[c].dry PROVE applied[client[c].token] < dryRuns[client[c].token]
        OBVIOUS
      <4>1. client[c].token \in Targets
        BY <1>a, <2>0
      <4>2. ~Orphaned
        BY <1>a, <2>0 DEF Orphaned
      <4>3. ASSUME NEW d \in Clients, Spending(d, client[c].token) PROVE FALSE
        <5>1. Within(d)
          BY <4>3 DEF Spending, Within
        <5>2. c = d
          BY <5>1, <2>0, <1>a
        <5> QED
          BY <5>2, <4>3, <2>0 DEF Spending
      <4> QED
        BY <2>1, <4>1, <4>2, <4>3 DEF JobsInv
    <3> QED
      BY <2>0, <3>1, <3>2, <3>3, <1>0, <1>3, <1>a, PlainMove
      DEF JobsTypeOK, Within, _validate_confirmation_record
  <2>2. CASE confirmation[client[c].token] # "active"
    BY <2>0, <2>2, <1>3, <1>c, <1>0 DEF _validate_confirmation_record, JobsTypeOK
  <2> QED
    BY <2>1, <2>2
<1>4. ASSUME NEW c \in Clients, DryRun(c) PROVE JobsInv'
  <2> DEFINE r == [client[c] EXCEPT !.at = "settle", !.token = target]
  <2>1. client[c].at = "act" /\ client[c].dry /\ client' = [client EXCEPT ![c] = r]
    BY <1>4 DEF DryRun
  <2>2. /\ r \in Caller /\ r.at = "settle" /\ r.locked = client[c].locked /\ r.dry
    BY ZenonT(60), <1>0, <2>1 DEF Caller, JobsTypeOK
  <2> HIDE DEF r
  <2>3. client[c].locked /\ lock' = lock /\ lock /\ lock' \in BOOLEAN
    BY <2>1, <1>0, <1>4, <1>a DEF Within, DryRun, JobsTypeOK
  <2>4. target' \in Targets /\ jobIndex' \in JobIndex /\ UNCHANGED <<confirmation, dryRuns, applied>>
    BY <1>0, <1>4 DEF DryRun, JobsTypeOK
  <2> QED
    BY <2>1, <2>2, <2>3, <2>4, PlainMove
<1>5. ASSUME NEW c \in Clients, _run_confirmed_plan(c) PROVE JobsInv'
  <2> DEFINE r == [client[c] EXCEPT !.at = "settle"]
  <2>k. PICK k \in Targets : k = client[c].token
    BY <1>0, <1>5 DEF _run_confirmed_plan, JobsTypeOK
  <2>1. client[c].at = "act" /\ ~client[c].dry /\ client' = [client EXCEPT ![c] = r]
    BY <1>5 DEF _run_confirmed_plan, Goes
  <2>2. /\ r \in Caller /\ r.at = "settle" /\ r.locked = client[c].locked /\ ~r.dry /\ r.token = k
    BY SMT, <1>0, <2>1, <2>k DEF Caller
  <2> HIDE DEF r
  <2>3. /\ client' \in [Clients -> Caller]
        /\ client'[c] = r
        /\ \A d \in Clients : d # c => client'[d] = client[d]
    BY <2>1, <2>2, <1>0, CallerMoves DEF JobsTypeOK
  <2>4. \A d \in Clients : d # c => ~client[d].locked /\ ~Within(d)
    BY <2>1, <1>a DEF Within
  <2>5. /\ applied' \in [Targets -> Nat]
        /\ applied'[k] = applied[k] + 1
        /\ \A t \in Targets : t # k => applied'[t] = applied[t]
    BY SMT, <1>0, <1>5, <2>k DEF _run_confirmed_plan, JobsTypeOK
  <2>6. applied[k] < dryRuns[k]
    BY <2>1, <2>k DEF JobsInv
  <2>7. JobsTypeOK'
    BY <1>0, <1>5, <2>3, <2>5 DEF JobsTypeOK, _run_confirmed_plan
  <2>8. \A t \in Targets : confirmation'[t] = "active" =>
          \/ applied'[t] < dryRuns'[t]
          \/ \E d \in Clients : Spending(d, t)'
    <3>1. Spending(c, k)'
      BY <2>2, <2>3 DEF Spending
    <3>2. ASSUME NEW t \in Targets, t # k, confirmation'[t] = "active" PROVE applied'[t] < dryRuns'[t]
      <4>1. ~Orphaned /\ \A d \in Clients : ~Spending(d, t)
        BY <2>1, <2>4, <1>a, <3>2 DEF Orphaned, Spending, Within
      <4> QED
        BY <4>1, <3>2, <2>5, <1>5 DEF JobsInv, _run_confirmed_plan
    <3> QED
      BY <3>1, <3>2
  <2>9. ConfirmedOnce'
    <3>1. applied'[k] <= dryRuns'[k]
      BY SMT, <2>5, <2>6, <2>1, <1>0, <1>5 DEF JobsTypeOK, _run_confirmed_plan
    <3>2. \A t \in Targets : t # k => applied'[t] <= dryRuns'[t]
      BY <2>5, <1>5 DEF JobsInv, ConfirmedOnce, _run_confirmed_plan
    <3> QED
      BY <3>1, <3>2 DEF ConfirmedOnce
  <2>10. client[c].locked /\ lock' = lock /\ lock
    BY <2>1, <1>a, <1>5 DEF Within, _run_confirmed_plan
  <2>11. \A d \in Clients : d # c => ~client'[d].locked /\ ~Within(d)'
    BY <2>3, <2>4 DEF Within
  <2>12. \A d \in Clients : ~client'[d].dry /\ client'[d].at # "away" => client'[d].token \in Targets
    BY <2>2, <2>3, <1>a
  <2>13. \A d \in Clients : client'[d].at # "act"
    BY <2>2, <2>3, <2>11 DEF Within
  <2>14. \A d \in Clients : client'[d].at \in {"open", "write"} => client'[d].index \in [Keys -> 0..MaxJobs]
    BY <1>a, <2>2, <2>3
  <2> QED
    BY <2>2, <2>3, <2>7, <2>8, <2>9, <2>10, <2>11, <2>12, <2>13, <2>14 DEF JobsInv, Within
<1>6. ASSUME NEW c \in Clients, ActionRaises(c) PROVE JobsInv'
  <2>1. client[c].at = "act" /\ Within(c) /\ target' \in Targets
    BY <1>0, <1>6 DEF ActionRaises, Within, JobsTypeOK
  <2> QED
    BY <2>1, <1>6, <1>c DEF ActionRaises
<1>7. ASSUME NEW c \in Clients,
             _register_confirmation_from_result(c) \/ _consume_confirmation(c)
      PROVE  JobsInv'
  <2> DEFINE k == client[c].token
             r == [client[c] EXCEPT !.at = "unlock", !.state =
                     IF client[c].dry THEN "waiting_for_confirmation" ELSE "succeeded"]
  <2>1. /\ client[c].at = "settle" /\ client' = [client EXCEPT ![c] = r]
        /\ UNCHANGED <<target, lock, jobIndex, applied>>
    BY ZenonT(60), <1>7, <1>0 DEF _register_confirmation_from_result, _consume_confirmation, Caller
  <2>2. /\ r \in Caller /\ r.at = "unlock" /\ r.locked = client[c].locked
        /\ r.dry = client[c].dry /\ r.token = k
    BY ZenonT(60), <1>0 DEF Caller
  <2> HIDE DEF r
  <2>3. /\ client' \in [Clients -> Caller]
        /\ client'[c] = r
        /\ \A d \in Clients : d # c => client'[d] = client[d]
    BY <2>1, <2>2, <1>0, CallerMoves DEF JobsTypeOK
  <2>4. \A d \in Clients : d # c => ~client[d].locked /\ ~Within(d)
    BY <2>1, <1>a DEF Within
  <2>5. /\ confirmation' \in [Targets -> {"none", "active", "consumed", "expired"}]
        /\ dryRuns' \in [Targets -> Nat]
        /\ \A t \in Targets : t # k => confirmation'[t] = confirmation[t] /\ dryRuns'[t] = dryRuns[t]
    BY SMT, <1>0, <1>7 DEF JobsTypeOK, _register_confirmation_from_result, _consume_confirmation
  <2>6. ASSUME k \in Targets
        PROVE  /\ dryRuns'[k] >= dryRuns[k]
               /\ confirmation'[k] = "active" => dryRuns'[k] > dryRuns[k]
    BY SMT, <1>0, <1>7, <2>6 DEF JobsTypeOK, _register_confirmation_from_result, _consume_confirmation
  <2>7. JobsTypeOK'
    BY <1>0, <2>1, <2>3, <2>5 DEF JobsTypeOK
  <2>8. \A t \in Targets : applied[t] \in Nat /\ dryRuns[t] \in Nat /\ dryRuns'[t] \in Nat /\ applied[t] <= dryRuns[t]
    BY <1>0, <2>5 DEF JobsTypeOK, JobsInv, ConfirmedOnce
  <2>9. \A t \in Targets : confirmation'[t] = "active" => applied'[t] < dryRuns'[t]
    <3>1. ASSUME NEW t \in Targets, t # k, confirmation'[t] = "active" PROVE applied'[t] < dryRuns'[t]
      <4>1. ~Orphaned /\ \A d \in Clients : ~Spending(d, t)
        BY <2>1, <2>4, <1>a, <3>1 DEF Orphaned, Spending, Within
      <4> QED
        BY <4>1, <3>1, <2>1, <2>5 DEF JobsInv
    <3>2. ASSUME k \in Targets, confirmation'[k] = "active" PROVE applied'[k] < dryRuns'[k]
      BY SMT, <3>2, <2>6, <2>8, <2>1
    <3> QED
      BY <3>1, <3>2
  <2>10. ConfirmedOnce'
    <3>1. ASSUME NEW t \in Targets PROVE dryRuns'[t] >= dryRuns[t]
      BY SMT, <2>5, <2>6, <2>8
    <3> QED
      BY SMT, <3>1, <2>8, <2>1 DEF ConfirmedOnce
  <2>11. client[c].locked /\ lock' = lock /\ lock
    BY <2>1, <1>a DEF Within
  <2>12. \A d \in Clients : client'[d].at \in {"open", "write"} => client'[d].index \in [Keys -> 0..MaxJobs]
    BY <1>a, <2>2, <2>3
  <2> QED
    BY SMT, <2>1, <2>2, <2>3, <2>4, <2>7, <2>9, <2>10, <2>11, <2>12, <1>a DEF JobsInv, Within
<1>8. ASSUME NEW c \in Clients, Unlock(c) PROVE JobsInv'
  <2> DEFINE r == [client[c] EXCEPT !.at = "store", !.locked = FALSE]
  <2>1. client[c].at = "unlock" /\ client' = [client EXCEPT ![c] = r]
    BY <1>8 DEF Unlock
  <2>2. /\ r \in Caller /\ r.at = "store" /\ ~r.locked
        /\ r.dry = client[c].dry /\ r.token = client[c].token
    BY ZenonT(60), <1>0 DEF Caller
  <2> HIDE DEF r
  <2>3. lock' \in BOOLEAN /\ (lock' = lock \/ (client[c].locked /\ ~lock'))
    BY <1>0, <1>8 DEF Unlock, JobsTypeOK, Caller
  <2>4. target' \in Targets /\ jobIndex' \in JobIndex /\ UNCHANGED <<confirmation, dryRuns, applied>>
    BY <1>0, <1>8 DEF Unlock, JobsTypeOK
  <2>5. ~r.dry /\ r.at # "away" => r.token \in Targets
    BY <2>1, <2>2, <1>a
  <2> QED
    BY <2>1, <2>2, <2>3, <2>4, <2>5, PlainMove
<1>9. ASSUME NEW c \in Clients, NEW r \in Caller, client' = [client EXCEPT ![c] = r],
             client[c].at \in {"store", "index", "open", "write"},
             r.at \notin {"validate", "act", "settle"}, ~r.locked,
             r.at \in {"open", "write"} => r.index \in [Keys -> 0..MaxJobs],
             r.at # "away" => r.dry = client[c].dry /\ r.token = client[c].token,
             jobIndex' \in JobIndex, UNCHANGED <<target, lock, confirmation, dryRuns, applied>>
      PROVE  JobsInv'
  BY <1>9, <1>0, <1>a, PlainMove DEF JobsTypeOK, Within
<1>10. ASSUME NEW c \in Clients, _write_job(c) \/ ReadIndex(c) \/ OpenIndex(c) \/ _write_idempotency(c)
       PROVE  JobsInv'
  <2>1. ~client[c].locked
    BY <1>10, <1>a DEF _write_job, ReadIndex, OpenIndex, _write_idempotency, Within
  <2>2. CASE client' = [client EXCEPT ![c] = Away] /\ jobIndex' \in JobIndex
    BY <2>2, <1>9, <1>10, <1>b DEF _write_job, ReadIndex, OpenIndex, _write_idempotency
  <2>3. ASSUME NEW a \in {"index", "open", "write"}, NEW i \in JobIndex,
               client' = [client EXCEPT ![c].at = a, ![c].index = i], jobIndex' \in JobIndex,
               a # "index" => i \in [Keys -> 0..MaxJobs]
        PROVE  JobsInv'
    <3> DEFINE r == [client[c] EXCEPT !.at = a, !.index = i]
    <3>1. client' = [client EXCEPT ![c] = r]
      BY <2>3
    <3>2. /\ r \in Caller /\ r.at = a /\ r.locked = client[c].locked
          /\ r.dry = client[c].dry /\ r.token = client[c].token /\ r.index = i
      BY ZenonT(60), <1>0 DEF Caller
    <3> HIDE DEF r
    <3> QED
      BY <2>1, <2>3, <3>1, <3>2, <1>9, <1>10 DEF _write_job, ReadIndex, OpenIndex, _write_idempotency
  <2>4. client[c].index \in JobIndex /\ client = [client EXCEPT ![c].index = client[c].index]
    BY <1>0 DEF Caller, JobsTypeOK
  <2>5. jobIndex' \in JobIndex
    BY <1>10, <1>0, <1>a DEF _write_job, ReadIndex, OpenIndex, _write_idempotency, JobsTypeOK, JobIndex, Caller
  <2>6. CASE _write_job(c) \/ OpenIndex(c)
    <3>1. ASSUME NEW a \in {"index", "write"}, Goes(c, a), a = "write" => client[c].at = "open"
          PROVE  JobsInv'
      <4>1. client' = [client EXCEPT ![c].at = a, ![c].index = client[c].index]
        BY <3>1, <1>0 DEF Goes, Caller, JobsTypeOK
      <4>2. a # "index" => client[c].index \in [Keys -> 0..MaxJobs]
        BY <3>1, <1>a
      <4>3. client[c].index \in JobIndex
        BY <2>4
      <4> QED
        BY <4>1, <4>2, <4>3, <2>3, <2>5
    <3> QED
      BY <2>6, <3>1, <2>2, <2>5 DEF _write_job, OpenIndex
  <2>7. CASE ReadIndex(c) \/ _write_idempotency(c)
    <3>1. ASSUME client' = [client EXCEPT ![c].at = "open", ![c].index = jobIndex], jobIndex # Corrupt
          PROVE  JobsInv'
      BY <3>1, <1>0, <2>3, <2>5 DEF JobsTypeOK, JobIndex
    <3> QED
      BY <2>7, <3>1, <2>2, <2>5 DEF ReadIndex, _write_idempotency
  <2> QED
    BY <1>10, <2>6, <2>7
<1>11. ASSUME NEW j \in Job, cancel_job(j) PROVE JobsInv'
  BY SMT, <1>11 DEF cancel_job, JobsInv, JobsTypeOK, Within, Orphaned, Spending, ConfirmedOnce
<1>12. ASSUME NEW t \in Targets, Expire(t) PROVE JobsInv'
  <2>1. /\ confirmation' \in [Targets -> {"none", "active", "consumed", "expired"}]
        /\ \A u \in Targets : confirmation'[u] = "active" => confirmation[u] = "active"
    BY <1>12, <1>0 DEF Expire, JobsTypeOK
  <2> QED
    BY SMT, <2>1, <1>12 DEF Expire, JobsInv, JobsTypeOK, Within, Orphaned, Spending, ConfirmedOnce
<1>13. ASSUME NEW c \in Clients, Die(c) PROVE JobsInv'
  BY <1>13, <1>0, <1>b, PlainMove DEF Die, JobsTypeOK
<1>14. CASE UNCHANGED jobVars
  BY <1>14 DEF jobVars, JobsInv, JobsTypeOK, Within, Orphaned, Spending, ConfirmedOnce
<1> QED
  <2>1. ASSUME NEW c \in Clients, ClientStep(c) PROVE JobsInv'
    <3>1. ASSUME NEW key \in Keys \cup {NoKey}, run_job(c, TRUE, key, NoToken) PROVE JobsInv'
      BY <3>1, <1>1
    <3>2. ASSUME NEW key \in Keys \cup {NoKey}, NEW token \in Targets, run_job(c, FALSE, key, token) PROVE JobsInv'
      BY <3>2, <1>1
    <3> QED
      BY <2>1, <3>1, <3>2, <1>2, <1>3, <1>4, <1>5, <1>6, <1>7, <1>8, <1>10, <1>13
      DEF ClientStep, run_action
  <2> QED
    BY <2>1, <1>11, <1>12, <1>14 DEF JobsNext

(* A confirmation token lets no more jobs through than it was issued for.  *)
THEOREM ConfirmationsAreSpentOnce == JobsSpec => []ConfirmedOnce
<1>1. JobsInv => ConfirmedOnce
  BY DEF JobsInv
<1> QED
  BY <1>1, JobsStart, JobsKeep, PTL DEF JobsSpec

-----------------------------------------------------------------------------
(* Switching traffic.                                                      *)

TrafficSpec == TrafficInit /\ [][TrafficNext]_trafficVars

Applying == {"read", "write", "request", "caddy", "receipt"}
Undoing == {"undo read", "undo write", "undo request", "undo caddy", "undo receipt"}

ApplyRecord(x) ==
  x = [at |-> x.at, command |-> x.command, config |-> x.config, plan |-> x.plan, healthy |-> x.healthy,
       routes |-> x.routes, seen |-> x.seen, changes |-> x.changes, dns |-> x.dns, caddy |-> x.caddy,
       before |-> x.before]

UndoRecord(x) ==
  x = [at |-> x.at, receipt |-> x.receipt, seen |-> x.seen, left |-> x.left, wrote |-> x.wrote,
       failed |-> x.failed]

(* An apply acts on the plan its token was issued for, and in production   *)
(* its health check passed.                                                *)
AsPlanned(x) ==
  /\ x.command = x.plan.command /\ x.config = x.plan.config
  /\ Environment = "production" => x.command.health = "run" /\ x.healthy

SwitchInv ==
  /\ mover = [m \in Movers |-> mover[m]]
  /\ \A p \in issued : p.token = TrafficToken(p.command, p.config)
  /\ \A m \in Movers :
       \/ mover[m].at = "idle"
       \/ mover[m].at \in Applying /\ ApplyRecord(mover[m]) /\ AsPlanned(mover[m])
       \/ mover[m].at \in Undoing /\ UndoRecord(mover[m])

LEMMA TokenNamesPlan ==
  ASSUME NEW cmd, NEW cfg, NEW cmd2, NEW cfg2, TrafficToken(cmd, cfg) = TrafficToken(cmd2, cfg2)
  PROVE  cmd = cmd2 /\ cfg = cfg2
  BY DEF TrafficToken

(* A plan that passes in production had its health check fetched.          *)
LEMMA CleanPlanIsHealthy ==
  ASSUME NEW cmd, NEW ready \in BOOLEAN, NEW healthy \in BOOLEAN,
         traffic_plan_clean(cmd, ready, healthy), Environment = "production"
  PROVE  cmd.health = "run" /\ healthy
<1> DEFINE health == _traffic_target_health_plan(cmd, healthy)
           clean  == /\ ready /\ ~_target_origin_issue(cmd) /\ ~health.blocked
                     /\ _traffic_provider_execution_plan(cmd, config)
                     /\ manifest # <<>>
           facts  == {"rollback_available", "confirmation_required", "plan_exists", "json_receipts"}
                       \cup (IF _traffic_target_health_present(health)
                             THEN {"target_health_check"} ELSE {})
                       \cup (IF clean THEN {"readiness_clean"} ELSE {})
<1>1. policy_check_entry(TrafficPolicy, "app.traffic.apply", "production", TRUE, facts)
  BY DEF traffic_plan_clean
<1>2. facts \in SUBSET CONDITION_EVALUATORS
  BY DEF CONDITION_EVALUATORS
<1>3. "target_health_check" \in facts
  BY <1>1, <1>2, HealthIsRequired
<1>4. _traffic_target_health_present(health)
  BY <1>3
<1> QED
  BY <1>4 DEF _traffic_target_health_present, _traffic_target_health_plan

LEMMA SwitchStart == TrafficInit => SwitchInv
<1> SUFFICES ASSUME TrafficInit PROVE SwitchInv
  OBVIOUS
<1>1. mover = [m \in Movers |-> IdleMover] /\ issued = {}
  BY DEF TrafficInit
<1>2. \A m \in Movers : mover[m].at = "idle"
  BY <1>1 DEF IdleMover
<1> QED
  BY <1>1, <1>2 DEF SwitchInv

(* A step of one process, the others' being as they were.                  *)
LEMMA SwitchMoves ==
  ASSUME SwitchInv, NEW m \in Movers, NEW next, Moves(m, next), UNCHANGED issued,
         \/ next.at = "idle"
         \/ next.at \in Applying /\ ApplyRecord(next) /\ AsPlanned(next)
         \/ next.at \in Undoing /\ UndoRecord(next)
  PROVE  SwitchInv'
<1>1. mover' = [mover EXCEPT ![m] = next]
  BY DEF Moves
<1>2. mover' = [n \in Movers |-> IF n = m THEN next ELSE mover[n]]
  BY <1>1 DEF SwitchInv
<1>3. \A n \in Movers : mover'[n] = IF n = m THEN next ELSE mover[n]
  BY <1>2
<1>4. mover' = [n \in Movers |-> mover'[n]]
  BY <1>2
<1>5. ASSUME NEW n \in Movers
      PROVE  \/ mover'[n].at = "idle"
             \/ mover'[n].at \in Applying /\ ApplyRecord(mover'[n]) /\ AsPlanned(mover'[n])
             \/ mover'[n].at \in Undoing /\ UndoRecord(mover'[n])
  <2>1. CASE n = m
    BY <1>3, <2>1
  <2>2. CASE n # m
    BY <1>3, <2>2 DEF SwitchInv
  <2> QED
    BY <2>1, <2>2
<1> QED
  BY <1>4, <1>5 DEF SwitchInv, AsPlanned, ApplyRecord, UndoRecord

LEMMA ApplyGoesOn ==
  ASSUME SwitchInv, NEW m \in Movers, mover[m].at \in Applying, NEW next, Moves(m, next), UNCHANGED issued,
         next.at \in Applying, ApplyRecord(next), next.command = mover[m].command,
         next.config = mover[m].config, next.plan = mover[m].plan, next.healthy = mover[m].healthy
  PROVE  SwitchInv'
<1>1. AsPlanned(mover[m])
  BY DEF SwitchInv, Applying, Undoing
<1>2. AsPlanned(next)
  BY <1>1 DEF AsPlanned
<1> QED
  BY <1>2, SwitchMoves

LEMMA ApplyIsRecord ==
  ASSUME SwitchInv, NEW m \in Movers, mover[m].at \in Applying
  PROVE  ApplyRecord(mover[m])
  BY DEF SwitchInv, Applying, Undoing

LEMMA UndoIsRecord ==
  ASSUME SwitchInv, NEW m \in Movers, mover[m].at \in Undoing
  PROVE  UndoRecord(mover[m])
  BY DEF SwitchInv, Applying, Undoing

LEMMA SwitchApplies ==
  ASSUME SwitchInv, NEW m \in Movers,
         \/ ReadRecordFile(m) \/ _apply_file_dns_provider(m)
         \/ _cloudflare_request(m) \/ CloudflareFails(m)
         \/ _apply_file_caddy_provider(m)
  PROVE  SwitchInv'
<1>0. mover[m].at \in Applying /\ UNCHANGED issued
  BY DEF ReadRecordFile, _apply_file_dns_provider, _cloudflare_request, CloudflareFails,
             _apply_file_caddy_provider, Applying
<1>1. ApplyRecord(mover[m])
  BY <1>0, ApplyIsRecord
<1>2. ASSUME NEW next, Moves(m, next), next.at \in Applying, ApplyRecord(next),
             next.command = mover[m].command, next.config = mover[m].config, next.plan = mover[m].plan,
             next.healthy = mover[m].healthy
      PROVE  SwitchInv'
  BY <1>0, <1>2, ApplyGoesOn
<1>a. \A cmd : AfterDns(cmd) \in Applying
  BY DEF AfterDns, Applying
<1>b. "write" \in Applying /\ "request" \in Applying /\ "receipt" \in Applying
  BY DEF Applying
<1>3. CASE ReadRecordFile(m)
  <2>1. PICK next : next = [mover[m] EXCEPT !.at = "write", !.seen = records, !.before = records]
    OBVIOUS
  <2>2. /\ next.at = "write" /\ ApplyRecord(next)
        /\ next.command = mover[m].command /\ next.config = mover[m].config /\ next.plan = mover[m].plan
        /\ next.healthy = mover[m].healthy
    BY <1>1, <2>1 DEF ApplyRecord
  <2> QED
    BY <1>2, <1>3, <1>b, <2>1, <2>2 DEF ReadRecordFile
<1>4. CASE _apply_file_dns_provider(m)
  <2>1. PICK dns : Moves(m, [mover[m] EXCEPT !.at = AfterDns(mover[m].command), !.dns = dns])
    BY <1>4 DEF _apply_file_dns_provider
  <2>2. PICK next : next = [mover[m] EXCEPT !.at = AfterDns(mover[m].command), !.dns = dns]
    OBVIOUS
  <2>3. /\ next.at = AfterDns(mover[m].command) /\ ApplyRecord(next)
        /\ next.command = mover[m].command /\ next.config = mover[m].config /\ next.plan = mover[m].plan
        /\ next.healthy = mover[m].healthy
    BY <1>1, <2>2 DEF ApplyRecord
  <2> QED
    BY <1>2, <1>a, <2>1, <2>2, <2>3
<1>5. CASE _cloudflare_request(m)
  <2> DEFINE d == mover[m].routes[Len(mover[m].changes) + 1]
             made == Append(mover[m].changes,
                            [domain |-> d, next |-> mover[m].command.origin, previous |-> records[d]])
             finished == Len(made) = Len(mover[m].routes)
  <2>0. PICK at, found, changed, dns :
          /\ at = IF finished THEN AfterDns(mover[m].command) ELSE "request"
          /\ found = [e \in DOMAIN mover[m].before \cup {d} |->
                        IF e \in DOMAIN mover[m].before THEN mover[m].before[e] ELSE records[e]]
          /\ changed = made
          /\ dns = IF finished THEN DnsMutation("cloudflare", "succeeded", made, TRUE) ELSE mover[m].dns
    OBVIOUS
  <2>1. Moves(m, [mover[m] EXCEPT !.at = at, !.before = found, !.changes = changed, !.dns = dns])
    BY <1>5, <2>0 DEF _cloudflare_request
  <2>2. PICK next : next = [mover[m] EXCEPT !.at = at, !.before = found, !.changes = changed, !.dns = dns]
    OBVIOUS
  <2>3. /\ next.at = at /\ ApplyRecord(next)
        /\ next.command = mover[m].command /\ next.config = mover[m].config /\ next.plan = mover[m].plan
        /\ next.healthy = mover[m].healthy
    BY <1>1, <2>2 DEF ApplyRecord
  <2>4. at \in Applying
    BY <1>a, <1>b, <2>0
  <2> QED
    BY <1>2, <2>1, <2>2, <2>3, <2>4
<1>6. CASE CloudflareFails(m)
  <2>1. PICK dns : Moves(m, [mover[m] EXCEPT !.at = AfterDns(mover[m].command), !.dns = dns])
    BY <1>6 DEF CloudflareFails
  <2>2. PICK next : next = [mover[m] EXCEPT !.at = AfterDns(mover[m].command), !.dns = dns]
    OBVIOUS
  <2>3. /\ next.at = AfterDns(mover[m].command) /\ ApplyRecord(next)
        /\ next.command = mover[m].command /\ next.config = mover[m].config /\ next.plan = mover[m].plan
        /\ next.healthy = mover[m].healthy
    BY <1>1, <2>2 DEF ApplyRecord
  <2> QED
    BY <1>2, <1>a, <2>1, <2>2, <2>3
<1>7. CASE _apply_file_caddy_provider(m)
  <2>1. PICK caddy : Moves(m, [mover[m] EXCEPT !.at = "receipt", !.caddy = caddy])
    BY <1>7 DEF _apply_file_caddy_provider
  <2>2. PICK next : next = [mover[m] EXCEPT !.at = "receipt", !.caddy = caddy]
    OBVIOUS
  <2>3. /\ next.at = "receipt" /\ ApplyRecord(next)
        /\ next.command = mover[m].command /\ next.config = mover[m].config /\ next.plan = mover[m].plan
        /\ next.healthy = mover[m].healthy
    BY <1>1, <2>2 DEF ApplyRecord
  <2> QED
    BY <1>2, <1>b, <2>1, <2>2, <2>3
<1> QED
  BY <1>3, <1>4, <1>5, <1>6, <1>7

LEMMA SwitchUndoes ==
  ASSUME SwitchInv, NEW m \in Movers,
         \/ UndoReadRecordFile(m) \/ _rollback_file_dns_provider(m)
         \/ _rollback_cloudflare_dns_provider(m) \/ _rollback_file_caddy_provider(m)
  PROVE  SwitchInv'
<1>0. mover[m].at \in Undoing /\ UNCHANGED issued
  BY DEF UndoReadRecordFile, _rollback_file_dns_provider, _rollback_cloudflare_dns_provider,
         _rollback_file_caddy_provider, Undoing
<1>1. UndoRecord(mover[m])
  BY <1>0, UndoIsRecord
<1>2. \A r : AfterUndo(r) \in Undoing
  BY DEF AfterUndo, Undoing
<1>3. "undo write" \in Undoing /\ "undo request" \in Undoing /\ "undo receipt" \in Undoing
  BY DEF Undoing
<1>4. ASSUME NEW next, Moves(m, next), next.at \in Undoing, UndoRecord(next) PROVE SwitchInv'
  BY <1>0, <1>4, SwitchMoves
<1>5. CASE UndoReadRecordFile(m)
  <2>1. ASSUME Moves(m, [mover[m] EXCEPT !.at = "undo write", !.seen = records]) PROVE SwitchInv'
    <3>1. PICK next : next = [mover[m] EXCEPT !.at = "undo write", !.seen = records]
      OBVIOUS
    <3>2. next.at = "undo write" /\ UndoRecord(next)
      BY <1>1, <3>1 DEF UndoRecord
    <3> QED
      BY <1>0, <1>2, <1>3, <1>4, <2>1, <3>1, <3>2
  <2> QED
    BY <1>5, <2>1 DEF UndoReadRecordFile
<1>6. CASE _rollback_file_dns_provider(m)
  <2>1. ASSUME NEW w, Moves(m, [mover[m] EXCEPT !.at = AfterUndo(mover[m].receipt), !.wrote = w]) PROVE SwitchInv'
    <3>1. PICK next : next = [mover[m] EXCEPT !.at = AfterUndo(mover[m].receipt), !.wrote = w]
      OBVIOUS
    <3>2. next.at = AfterUndo(mover[m].receipt) /\ UndoRecord(next)
      BY <1>1, <3>1 DEF UndoRecord
    <3> QED
      BY <1>0, <1>2, <1>3, <1>4, <2>1, <3>1, <3>2
  <2>2. ASSUME Moves(m, [mover[m] EXCEPT !.at = AfterUndo(mover[m].receipt), !.failed = TRUE]) PROVE SwitchInv'
    <3>1. PICK next : next = [mover[m] EXCEPT !.at = AfterUndo(mover[m].receipt), !.failed = TRUE]
      OBVIOUS
    <3>2. next.at = AfterUndo(mover[m].receipt) /\ UndoRecord(next)
      BY <1>1, <3>1 DEF UndoRecord
    <3> QED
      BY <1>0, <1>2, <1>3, <1>4, <2>2, <3>1, <3>2
  <2> QED
    BY <1>6, <2>1, <2>2 DEF _rollback_file_dns_provider
<1>7. CASE _rollback_cloudflare_dns_provider(m)
  <2>1. ASSUME Moves(m, [mover[m] EXCEPT !.at = AfterUndo(mover[m].receipt)]) PROVE SwitchInv'
    <3>1. PICK next : next = [mover[m] EXCEPT !.at = AfterUndo(mover[m].receipt)]
      OBVIOUS
    <3>2. next.at = AfterUndo(mover[m].receipt) /\ UndoRecord(next)
      BY <1>1, <3>1 DEF UndoRecord
    <3> QED
      BY <1>0, <1>2, <1>3, <1>4, <2>1, <3>1, <3>2
  <2>2. ASSUME NEW l, Moves(m, [mover[m] EXCEPT !.left = l]) PROVE SwitchInv'
    <3>1. PICK next : next = [mover[m] EXCEPT !.left = l]
      OBVIOUS
    <3>2. next.at = mover[m].at /\ UndoRecord(next)
      BY <1>1, <3>1 DEF UndoRecord
    <3> QED
      BY <1>0, <1>2, <1>3, <1>4, <2>2, <3>1, <3>2
  <2>3. ASSUME NEW l, NEW w, Moves(m, [mover[m] EXCEPT !.left = l, !.wrote = w]) PROVE SwitchInv'
    <3>1. PICK next : next = [mover[m] EXCEPT !.left = l, !.wrote = w]
      OBVIOUS
    <3>2. next.at = mover[m].at /\ UndoRecord(next)
      BY <1>1, <3>1 DEF UndoRecord
    <3> QED
      BY <1>0, <1>2, <1>3, <1>4, <2>3, <3>1, <3>2
  <2>4. ASSUME Moves(m, [mover[m] EXCEPT !.at = AfterUndo(mover[m].receipt), !.failed = TRUE]) PROVE SwitchInv'
    <3>1. PICK next : next = [mover[m] EXCEPT !.at = AfterUndo(mover[m].receipt), !.failed = TRUE]
      OBVIOUS
    <3>2. next.at = AfterUndo(mover[m].receipt) /\ UndoRecord(next)
      BY <1>1, <3>1 DEF UndoRecord
    <3> QED
      BY <1>0, <1>2, <1>3, <1>4, <2>4, <3>1, <3>2
  <2> QED
    BY <1>7, <2>1, <2>2, <2>3, <2>4 DEF _rollback_cloudflare_dns_provider
<1>8. CASE _rollback_file_caddy_provider(m)
  <2>1. ASSUME Moves(m, [mover[m] EXCEPT !.at = "undo receipt"]) PROVE SwitchInv'
    <3>1. PICK next : next = [mover[m] EXCEPT !.at = "undo receipt"]
      OBVIOUS
    <3>2. next.at = "undo receipt" /\ UndoRecord(next)
      BY <1>1, <3>1 DEF UndoRecord
    <3> QED
      BY <1>0, <1>2, <1>3, <1>4, <2>1, <3>1, <3>2
  <2>2. ASSUME Moves(m, [mover[m] EXCEPT !.at = "undo receipt", !.failed = TRUE]) PROVE SwitchInv'
    <3>1. PICK next : next = [mover[m] EXCEPT !.at = "undo receipt", !.failed = TRUE]
      OBVIOUS
    <3>2. next.at = "undo receipt" /\ UndoRecord(next)
      BY <1>1, <3>1 DEF UndoRecord
    <3> QED
      BY <1>0, <1>2, <1>3, <1>4, <2>2, <3>1, <3>2
  <2> QED
    BY <1>8, <2>1, <2>2 DEF _rollback_file_caddy_provider
<1> QED
  BY <1>5, <1>6, <1>7, <1>8

LEMMA SwitchStep ==
  ASSUME SwitchInv, [TrafficNext]_trafficVars
  PROVE  SwitchInv'
<1>1. ASSUME NEW cmd, NEW ready, NEW healthy, traffic_plan(cmd, ready, healthy) PROVE SwitchInv'
  <2>1. /\ issued' = {[token |-> TrafficToken(cmd, config), command |-> cmd, config |-> config,
                       domains |-> Range(manifest)]}
        /\ UNCHANGED mover
    BY <1>1 DEF traffic_plan
  <2>2. \A p \in issued' : p.token = TrafficToken(p.command, p.config)
    <3>1. PICK p : p = [token |-> TrafficToken(cmd, config), command |-> cmd, config |-> config,
                        domains |-> Range(manifest)]
      OBVIOUS
    <3>2. p.token = TrafficToken(cmd, config) /\ p.command = cmd /\ p.config = config
      BY <3>1
    <3> QED
      BY <2>1, <3>1, <3>2
  <2> QED
    BY <2>1, <2>2 DEF SwitchInv, TrafficToken, AsPlanned, ApplyRecord, UndoRecord
<1>2. ASSUME NEW m \in Movers, NEW cmd, NEW plan \in issued, NEW ready \in BOOLEAN, NEW healthy \in BOOLEAN,
             traffic_apply(m, cmd, plan, ready, healthy)
      PROVE  SwitchInv'
  <2>1. PICK at : at = CASE ~cmd.execute -> "receipt"
                         [] cmd.execute /\ cmd.dns = "file" -> "read"
                         [] cmd.execute /\ cmd.dns = "cloudflare" -> "request"
                         [] OTHER -> "caddy"
    OBVIOUS
  <2>2. at \in Applying
    BY <2>1 DEF Applying
  <2>3. PICK next : next = [at |-> at, command |-> cmd, config |-> config, plan |-> plan, healthy |-> healthy,
                            routes |-> manifest, seen |-> records, changes |-> <<>>,
                            dns |-> NoMutation, caddy |-> NoMutation, before |-> <<>>]
    OBVIOUS
  <2>4. Moves(m, next) /\ UNCHANGED issued
    BY <1>2, <2>1, <2>3 DEF traffic_apply
  <2>5. cmd = plan.command /\ config = plan.config
    <3>1. TrafficToken(cmd, config) = TrafficToken(plan.command, plan.config)
      BY <1>2 DEF traffic_apply, SwitchInv
    <3> QED
      BY <3>1, TokenNamesPlan
  <2>6. Environment = "production" => cmd.health = "run" /\ healthy
    BY <1>2, CleanPlanIsHealthy DEF traffic_apply
  <2>7. next.at \in Applying /\ ApplyRecord(next) /\ AsPlanned(next)
    BY <2>2, <2>3, <2>5, <2>6 DEF ApplyRecord, AsPlanned
  <2> QED
    BY <2>4, <2>7, SwitchMoves
<1>3. ASSUME NEW m \in Movers, NEW r, NEW approved, NEW apiToken, traffic_rollback_apply(m, r, approved, apiToken)
      PROVE  SwitchInv'
  <2>1. PICK at : at = CASE receipts[r].dns = NoMutation -> "undo caddy"
                         [] receipts[r].dns # NoMutation /\ receipts[r].dns.provider = "file" -> "undo read"
                         [] OTHER -> "undo request"
    OBVIOUS
  <2>2. at \in Undoing
    BY <2>1 DEF Undoing
  <2>3. PICK next : next = [at |-> at, receipt |-> r, seen |-> records, left |-> Restores(receipts[r]),
                            wrote |-> <<>>, failed |-> FALSE]
    OBVIOUS
  <2>4. Moves(m, next) /\ UNCHANGED issued
    BY <1>3, <2>1, <2>3 DEF traffic_rollback_apply
  <2>5. next.at \in Undoing /\ UndoRecord(next)
    BY <2>2, <2>3 DEF UndoRecord
  <2> QED
    BY <2>4, <2>5, SwitchMoves
<1>4. ASSUME NEW m \in Movers, StoreTrafficReceipt(m) \/ StoreRollbackReceipt(m) \/ KillMover(m) PROVE SwitchInv'
  <2>1. Moves(m, IdleMover) /\ UNCHANGED issued /\ IdleMover.at = "idle"
    BY <1>4 DEF StoreTrafficReceipt, StoreRollbackReceipt, KillMover, IdleMover
  <2> QED
    BY <2>1, SwitchMoves
<1>5. ASSUME OperatorEdits \/ UNCHANGED trafficVars PROVE SwitchInv'
  <2>1. UNCHANGED <<mover, issued>>
    BY <1>5 DEF OperatorEdits, trafficVars
  <2> QED
    BY <2>1 DEF SwitchInv, TrafficToken, AsPlanned, ApplyRecord, UndoRecord
<1> QED
  BY <1>1, <1>2, <1>3, <1>4, <1>5, SwitchApplies, SwitchUndoes DEF TrafficNext

(* Providers act on the plan that was confirmed, and in production after a *)
(* health check that passed: for any commands, configs and number of       *)
(* processes, whatever is edited between plan and apply.                   *)
THEOREM SwitchesAsConfirmed == TrafficSpec => []ConfirmedAsPlanned
<1>1. SwitchInv => ConfirmedAsPlanned
  <2> SUFFICES ASSUME SwitchInv, NEW m \in Movers, mover[m].at \in {"read", "write", "request", "caddy"}
               PROVE  AsPlanned(mover[m])
    BY DEF ConfirmedAsPlanned, AsPlanned
  <2> QED
    BY DEF SwitchInv, Undoing
<1> QED
  BY <1>1, SwitchStart, SwitchStep, PTL DEF TrafficSpec

Numbered(routes) == \E n \in Nat : DOMAIN routes = 1..n

(* The changes of an apply, beside what it found: a domain that was        *)
(* changed once was found as the change says.                              *)
ChangedOnce(changes, d) ==
  \A j, k \in DOMAIN changes : changes[j].domain = d /\ changes[k].domain = d => j = k

FoundAs(changes, found) ==
  \A k \in DOMAIN changes :
    ChangedOnce(changes, changes[k].domain) => changes[k].previous = found[changes[k].domain]

Recorded(changes, found) ==
  /\ \E S : changes \in Seq(S)
  /\ FoundAs(changes, found)
  /\ DOMAIN found = {changes[k].domain : k \in DOMAIN changes}

Truthful(receipt) ==
  receipt.dns # NoMutation =>
    Numbered(receipt.dns.changes) /\ FoundAs(receipt.dns.changes, receipt.before)

(* What a rollback wrote, against the receipt it undoes.                   *)
Restored(wrote, receipt) ==
  \A d \in DOMAIN wrote : RoutedOnce(receipt, d) => wrote[d] = receipt.before[d]

ApplyTruly(x) ==
  /\ Numbered(x.routes)
  /\ x.at = "write" => x.before = x.seen
  /\ x.at = "request" => Recorded(x.changes, x.before)
  /\ x.at \in {"caddy", "receipt"} => Truthful(x)

UndoTruly(x, kept) ==
  /\ x.receipt \in DOMAIN kept
  /\ x.at \in {"undo read", "undo write"} => x.left = Restores(kept[x.receipt])
  /\ x.at = "undo request" =>
       /\ \E S : x.left \in Seq(S)
       /\ \A i \in DOMAIN x.left : \E k \in DOMAIN Restores(kept[x.receipt]) :
            x.left[i] = Restores(kept[x.receipt])[k]
  /\ Restored(x.wrote, kept[x.receipt])

MovesTruly(x, kept) ==
  /\ x.at \in Applying => ApplyTruly(x)
  /\ x.at \in Undoing => UndoTruly(x, kept)

RestoreInv ==
  /\ Numbered(manifest)
  /\ \E S : receipts \in Seq(S)
  /\ \E S : rollbacks \in Seq(S)
  /\ \A r \in DOMAIN receipts : Truthful(receipts[r])
  /\ \A m \in Movers : MovesTruly(mover[m], receipts)
  /\ \A k \in DOMAIN rollbacks :
       rollbacks[k].receipt \in DOMAIN receipts /\ Restored(rollbacks[k].wrote, receipts[rollbacks[k].receipt])

(* The one restore of a domain is the value that was found.                *)
LEMMA RestoreIsFound ==
  ASSUME NEW receipt, Truthful(receipt), NEW k \in DOMAIN Restores(receipt),
         RoutedOnce(receipt, Restores(receipt)[k].domain)
  PROVE  Restores(receipt)[k].restore = receipt.before[Restores(receipt)[k].domain]
<1>1. receipt.dns # NoMutation
  <2>1. CASE receipt.dns = NoMutation
    <3>1. k \in DOMAIN << >>
      BY <2>1 DEF Restores
    <3> QED
      BY SMT, <3>1
  <2> QED
    BY <2>1
<1> DEFINE changes == receipt.dns.changes
<1>2. Restores(receipt) = [j \in DOMAIN changes |-> [domain |-> changes[j].domain, restore |-> changes[j].previous]]
  BY <1>1 DEF Restores
<1>3. DOMAIN Restores(receipt) = DOMAIN changes
  BY <1>2
<1>4. \A j \in DOMAIN changes : /\ Restores(receipt)[j].domain = changes[j].domain
                                /\ Restores(receipt)[j].restore = changes[j].previous
  <2> TAKE j \in DOMAIN changes
  <2>1. Restores(receipt)[j] = [domain |-> changes[j].domain, restore |-> changes[j].previous]
    BY <1>2
  <2> QED
    BY SMT, <2>1
<1>5. ChangedOnce(changes, changes[k].domain)
  <2> SUFFICES ASSUME NEW i \in DOMAIN changes, NEW j \in DOMAIN changes,
                      changes[i].domain = changes[k].domain, changes[j].domain = changes[k].domain
               PROVE  i = j
    BY DEF ChangedOnce
  <2>1. /\ Restores(receipt)[i].domain = Restores(receipt)[k].domain
        /\ Restores(receipt)[j].domain = Restores(receipt)[k].domain
    BY <1>3, <1>4
  <2> QED
    BY <1>3, <2>1 DEF RoutedOnce
<1> QED
  BY <1>1, <1>3, <1>4, <1>5 DEF Truthful, FoundAs

LEMMA RoutesAreNumbered ==
  ASSUME NEW routes \in Manifests
  PROVE  Numbered(routes)
<1>1. routes \in Seq(Domains)
  BY RoutesInOrder
<1>2. Len(routes) \in Nat /\ DOMAIN routes = 1..Len(routes)
  BY SMT, <1>1
<1> QED
  BY <1>2 DEF Numbered

LEMMA NumberedIsSequence ==
  ASSUME NEW f, Numbered(f), f = [k \in DOMAIN f |-> f[k]]
  PROVE  \E S : f \in Seq(S)
<1>1. PICK n \in Nat : DOMAIN f = 1..n
  BY DEF Numbered
<1>2. f \in [1..n -> {f[k] : k \in 1..n}]
  BY <1>1
<1>3. f \in Seq({f[k] : k \in 1..n})
  BY <1>2, SeqDef
<1> QED
  BY <1>3

LEMMA RestoreStart == TrafficInit => RestoreInv
<1> SUFFICES ASSUME TrafficInit PROVE RestoreInv
  OBVIOUS
<1>1. mover = [m \in Movers |-> IdleMover] /\ receipts = << >> /\ rollbacks = << >>
  BY DEF TrafficInit
<1>2. \A m \in Movers : mover[m].at \notin Applying /\ mover[m].at \notin Undoing
  BY <1>1 DEF IdleMover, Applying, Undoing
<1>3. << >> \in Seq({}) /\ DOMAIN << >> = {}
  BY SMT
<1>4. Numbered(manifest)
  BY RoutesAreNumbered DEF TrafficInit
<1> QED
  BY <1>1, <1>2, <1>3, <1>4 DEF RestoreInv, MovesTruly

LEMMA RestoreAfter ==
  ASSUME Numbered(manifest'), \E S : receipts' \in Seq(S), \E S : rollbacks' \in Seq(S),
         \A r \in DOMAIN receipts' : Truthful(receipts'[r]),
         \A m \in Movers : MovesTruly(mover'[m], receipts'),
         \A k \in DOMAIN rollbacks' :
           /\ rollbacks'[k].receipt \in DOMAIN receipts'
           /\ Restored(rollbacks'[k].wrote, receipts'[rollbacks'[k].receipt])
  PROVE  RestoreInv'
  BY DEF RestoreInv, MovesTruly, ApplyTruly, UndoTruly, Restored, RoutedOnce, Truthful, Restores, FoundAs,
         ChangedOnce, Numbered, Recorded

LEMMA RestoreMoves ==
  ASSUME SwitchInv, RestoreInv, NEW m \in Movers, NEW next, Moves(m, next), UNCHANGED <<receipts, rollbacks, manifest>>,
         MovesTruly(next, receipts)
  PROVE  RestoreInv'
<1>1. mover' = [n \in Movers |-> IF n = m THEN next ELSE mover[n]]
  BY DEF SwitchInv, Moves
<1>2. \A n \in Movers : MovesTruly(mover'[n], receipts')
  BY <1>1 DEF RestoreInv
<1>3. /\ Numbered(manifest')
      /\ \E S : receipts' \in Seq(S)
      /\ \E S : rollbacks' \in Seq(S)
      /\ \A r \in DOMAIN receipts' : Truthful(receipts'[r])
      /\ \A k \in DOMAIN rollbacks' :
           /\ rollbacks'[k].receipt \in DOMAIN receipts'
           /\ Restored(rollbacks'[k].wrote, receipts'[rollbacks'[k].receipt])
  BY DEF RestoreInv
<1> QED
  BY <1>2, <1>3, RestoreAfter

(* An idle process has nothing to tell.                                    *)
LEMMA RestoreEnds ==
  ASSUME NEW kept
  PROVE  MovesTruly(IdleMover, kept)
  BY DEF MovesTruly, IdleMover, Applying, Undoing

(* The start of an apply and of a rollback.                                *)
LEMMA RestoreBegins ==
  ASSUME SwitchInv, RestoreInv, NEW m \in Movers,
         \/ \E cmd, plan, ready, healthy : traffic_apply(m, cmd, plan, ready, healthy)
         \/ \E r \in DOMAIN receipts : \E approved, apiToken : traffic_rollback_apply(m, r, approved, apiToken)
  PROVE  RestoreInv'
<1>0. << >> \in Seq({}) /\ DOMAIN << >> = {}
  BY SMT
<1>1. ASSUME NEW cmd, NEW plan, NEW ready, NEW healthy, traffic_apply(m, cmd, plan, ready, healthy)
      PROVE  RestoreInv'
  <2>1. PICK at : at = CASE ~cmd.execute -> "receipt"
                         [] cmd.execute /\ cmd.dns = "file" -> "read"
                         [] cmd.execute /\ cmd.dns = "cloudflare" -> "request"
                         [] OTHER -> "caddy"
    OBVIOUS
  <2>2. at \notin Undoing /\ at # "write"
    BY <2>1 DEF Undoing
  <2>3. PICK next : next = [at |-> at, command |-> cmd, config |-> config, plan |-> plan, healthy |-> healthy,
                            routes |-> manifest, seen |-> records, changes |-> <<>>,
                            dns |-> NoMutation, caddy |-> NoMutation, before |-> <<>>]
    OBVIOUS
  <2>4. Moves(m, next) /\ UNCHANGED <<receipts, rollbacks, manifest>>
    BY <1>1, <2>1, <2>3 DEF traffic_apply
  <2>5. /\ next.at = at /\ next.routes = manifest /\ next.changes = << >> /\ next.before = << >>
        /\ next.dns = NoMutation
    BY <2>3
  <2>6. ApplyTruly(next)
    <3>1. DOMAIN next.before = {next.changes[k].domain : k \in DOMAIN next.changes}
      BY <1>0, <2>5
    <3> QED
      BY <1>0, <2>2, <2>5, <3>1 DEF ApplyTruly, Truthful, Recorded, FoundAs, RestoreInv
  <2>7. MovesTruly(next, receipts)
    BY <2>2, <2>5, <2>6 DEF MovesTruly
  <2> QED
    BY <2>4, <2>7, RestoreMoves
<1>2. ASSUME NEW r \in DOMAIN receipts, NEW approved, NEW apiToken, traffic_rollback_apply(m, r, approved, apiToken)
      PROVE  RestoreInv'
  <2>1. PICK at : at = CASE receipts[r].dns = NoMutation -> "undo caddy"
                         [] receipts[r].dns # NoMutation /\ receipts[r].dns.provider = "file" -> "undo read"
                         [] OTHER -> "undo request"
    OBVIOUS
  <2>2. /\ at \notin Applying
        /\ at = "undo request" => receipts[r].dns # NoMutation
    BY <2>1 DEF Applying
  <2>3. PICK next : next = [at |-> at, receipt |-> r, seen |-> records, left |-> Restores(receipts[r]),
                            wrote |-> <<>>, failed |-> FALSE]
    OBVIOUS
  <2>4. Moves(m, next) /\ UNCHANGED <<receipts, rollbacks, manifest>>
    BY <1>2, <2>1, <2>3 DEF traffic_rollback_apply
  <2>5. next.at = at /\ next.receipt = r /\ next.left = Restores(receipts[r]) /\ next.wrote = << >>
    BY <2>3
  <2>6. UndoTruly(next, receipts)
    <3>1. Restored(next.wrote, receipts[next.receipt])
      BY <1>0, <2>5 DEF Restored
    <3>2. at = "undo request" => \E S : Restores(receipts[r]) \in Seq(S)
      <4> SUFFICES ASSUME at = "undo request" PROVE \E S : Restores(receipts[r]) \in Seq(S)
        OBVIOUS
      <4> DEFINE changes == receipts[r].dns.changes
      <4>1. Restores(receipts[r]) = [k \in DOMAIN changes |->
                                       [domain |-> changes[k].domain, restore |-> changes[k].previous]]
        BY <2>2 DEF Restores
      <4>2. Numbered(changes)
        BY <2>2 DEF RestoreInv, Truthful
      <4>3. Numbered(Restores(receipts[r])) /\ Restores(receipts[r]) = [k \in DOMAIN Restores(receipts[r]) |-> Restores(receipts[r])[k]]
        BY <4>1, <4>2 DEF Numbered
      <4> QED
        BY <4>3, NumberedIsSequence
    <3> QED
      BY <2>2, <2>5, <3>1, <3>2 DEF UndoTruly
  <2>7. MovesTruly(next, receipts)
    BY <2>2, <2>5, <2>6 DEF MovesTruly
  <2> QED
    BY <2>4, <2>7, RestoreMoves
<1> QED
  BY <1>1, <1>2

(* A request of a route the apply had not changed finds what it records;   *)
(* a second one of a domain leaves it changed more than once.              *)
Noted(found, d, now) == [e \in DOMAIN found \cup {d} |-> IF e \in DOMAIN found THEN found[e] ELSE now[e]]

LEMMA FoundAsAppended ==
  ASSUME NEW changes, NEW found, Recorded(changes, found),
         NEW d, NEW now, NEW c, c.domain = d, c.previous = now[d]
  PROVE  Recorded(Append(changes, c), Noted(found, d, now))
<1>0. PICK S : /\ changes \in Seq(S) /\ FoundAs(changes, found)
               /\ DOMAIN found = {changes[k].domain : k \in DOMAIN changes}
  BY DEF Recorded
<1>n. PICK next : next = [e \in DOMAIN found \cup {d} |-> IF e \in DOMAIN found THEN found[e] ELSE now[e]]
  OBVIOUS
<1> DEFINE n == Len(changes)
           longer == Append(changes, c)
<1>1. n \in Nat /\ DOMAIN changes = 1..n
  BY SMT, <1>0
<1>2. longer \in Seq(S \cup {c}) /\ DOMAIN longer = 1..(n + 1) /\ longer[n + 1] = c
  BY SMT, <1>0
<1>3. \A k \in 1..n : longer[k] = changes[k]
  BY SMT, <1>0
<1>4. 1..(n + 1) = 1..n \cup {n + 1} /\ n + 1 \notin 1..n
  BY SMT, <1>1
<1> HIDE DEF n, longer
<1>5. DOMAIN next = DOMAIN found \cup {d}
  BY <1>n
<1>6. \A e \in DOMAIN next : e # d => next[e] = found[e]
  BY <1>n, <1>5
<1>7. d \notin DOMAIN found => next[d] = now[d]
  BY <1>n, <1>5
<1>8. DOMAIN next = {longer[k].domain : k \in DOMAIN longer}
  <2>1. {longer[k].domain : k \in DOMAIN longer} = {longer[k].domain : k \in 1..n} \cup {longer[n + 1].domain}
    BY <1>2, <1>4
  <2>2. {longer[k].domain : k \in 1..n} = {changes[k].domain : k \in 1..n}
    BY <1>3
  <2> QED
    BY <1>0, <1>1, <1>2, <1>5, <2>1, <2>2
<1>9. ASSUME NEW k \in DOMAIN longer, ChangedOnce(longer, longer[k].domain)
      PROVE  longer[k].previous = next[longer[k].domain]
  <2>1. CASE k = n + 1
    <3>1. longer[k] = c
      BY <1>2, <2>1
    <3>2. ASSUME d \in DOMAIN found PROVE FALSE
      <4>1. PICK i \in 1..n : changes[i].domain = d
        BY <1>0, <1>1, <3>2
      <4>2. i \in DOMAIN longer /\ longer[i].domain = d /\ i # n + 1
        BY <1>2, <1>3, <1>4, <4>1
      <4> QED
        BY <1>9, <2>1, <3>1, <4>2 DEF ChangedOnce
    <3> QED
      BY <1>7, <3>1, <3>2
  <2>2. CASE k \in 1..n
    <3>1. longer[k] = changes[k]
      BY <1>3, <2>2
    <3>2. ChangedOnce(changes, changes[k].domain)
      <4> SUFFICES ASSUME NEW i \in 1..n, NEW j \in 1..n, changes[i].domain = changes[k].domain,
                          changes[j].domain = changes[k].domain
                   PROVE  i = j
        BY <1>1 DEF ChangedOnce
      <4>1. /\ i \in DOMAIN longer /\ longer[i].domain = longer[k].domain
            /\ j \in DOMAIN longer /\ longer[j].domain = longer[k].domain
        BY <1>2, <1>3, <1>4, <3>1
      <4> QED
        BY <1>9, <4>1 DEF ChangedOnce
    <3>3. changes[k].previous = found[changes[k].domain]
      BY <1>0, <1>1, <2>2, <3>2 DEF FoundAs
    <3>4. changes[k].domain # d
      <4>1. ASSUME changes[k].domain = d PROVE FALSE
        <5>1. n + 1 \in DOMAIN longer /\ longer[n + 1].domain = longer[k].domain /\ k # n + 1
          BY <1>2, <1>4, <2>2, <3>1, <4>1
        <5> QED
          BY <1>9, <5>1 DEF ChangedOnce
      <4> QED
        BY <4>1
    <3>5. changes[k].domain \in DOMAIN next
      BY <1>0, <1>5, <1>1, <2>2
    <3> QED
      BY <1>6, <3>1, <3>3, <3>4, <3>5
  <2> QED
    BY <1>2, <1>4, <2>1, <2>2
<1>10. FoundAs(longer, next)
  BY <1>9 DEF FoundAs
<1> QED
  BY <1>n, <1>2, <1>8, <1>10 DEF longer, Recorded, Noted

(* The changes of a record file, against what was read.                    *)
LEMMA RouteChangesTrue ==
  ASSUME NEW routes, Numbered(routes), NEW seen, NEW origin
  PROVE  /\ Numbered(RouteChanges(routes, seen, origin))
         /\ FoundAs(RouteChanges(routes, seen, origin), seen)
<1> DEFINE changes == RouteChanges(routes, seen, origin)
<1>1. DOMAIN changes = DOMAIN routes
  BY DEF RouteChanges
<1>2. PICK n \in Nat : DOMAIN routes = 1..n
  BY DEF Numbered
<1>3. \A k \in DOMAIN routes :
        /\ changes[k].domain = routes[k]
        /\ (~\E j \in 1..(k - 1) : routes[j] = routes[k]) => changes[k].previous = seen[routes[k]]
  <2> TAKE k \in DOMAIN routes
  <2>1. PICK before : before = IF \E j \in 1..(k - 1) : routes[j] = routes[k] THEN origin ELSE seen[routes[k]]
    OBVIOUS
  <2>2. changes[k] = [domain |-> routes[k], next |-> origin, previous |-> before]
    BY <2>1 DEF RouteChanges
  <2>3. changes[k].domain = routes[k] /\ changes[k].previous = before
    BY SMT, <2>2
  <2> QED
    BY <2>1, <2>3
<1> HIDE DEF changes
<1>4. ASSUME NEW k \in DOMAIN routes, ChangedOnce(changes, changes[k].domain)
      PROVE  changes[k].previous = seen[changes[k].domain]
  <2>1. ASSUME NEW j \in 1..(k - 1), routes[j] = routes[k] PROVE FALSE
    <3>1. j \in 1..n /\ j # k
      BY SMT, <1>2
    <3>2. changes[j].domain = changes[k].domain /\ j \in DOMAIN changes /\ k \in DOMAIN changes
      BY <1>1, <1>2, <1>3, <2>1, <3>1
    <3> QED
      BY <1>4, <3>1, <3>2 DEF ChangedOnce
  <2> QED
    BY <1>3, <2>1
<1> QED
  BY <1>1, <1>2, <1>4 DEF Numbered, FoundAs, changes

(* The providers of an apply: what the record says was found was found.    *)
LEMMA RestoreApplies ==
  ASSUME SwitchInv, RestoreInv, NEW m \in Movers,
         \/ ReadRecordFile(m) \/ _apply_file_dns_provider(m)
         \/ _cloudflare_request(m) \/ CloudflareFails(m)
         \/ _apply_file_caddy_provider(m)
  PROVE  RestoreInv'
<1>0. mover[m].at \in Applying /\ UNCHANGED <<receipts, rollbacks, manifest>>
  BY DEF ReadRecordFile, _apply_file_dns_provider, _cloudflare_request, CloudflareFails,
         _apply_file_caddy_provider, Applying
<1>1. ApplyRecord(mover[m]) /\ ApplyTruly(mover[m])
  BY <1>0, ApplyIsRecord DEF RestoreInv, MovesTruly
<1>2. ASSUME NEW next, Moves(m, next), next.at \in Applying, ApplyTruly(next) PROVE RestoreInv'
  <2>1. next.at \notin Undoing
    BY <1>2 DEF Applying, Undoing
  <2> QED
    BY <1>0, <1>2, <2>1, RestoreMoves DEF MovesTruly
<1>a. \A cmd : AfterDns(cmd) \in {"caddy", "receipt"}
  BY DEF AfterDns
<1>b. {"caddy", "receipt"} \subseteq Applying /\ "write" \in Applying /\ "request" \in Applying
  BY DEF Applying
<1>3. CASE ReadRecordFile(m)
  <2>1. PICK next : next = [mover[m] EXCEPT !.at = "write", !.seen = records, !.before = records]
    OBVIOUS
  <2>2. /\ next.at = "write" /\ next.routes = mover[m].routes
        /\ next.seen = records /\ next.before = records
    BY <1>1, <2>1 DEF ApplyRecord
  <2>3. ApplyTruly(next)
    BY <1>1, <2>2 DEF ApplyTruly
  <2> QED
    BY <1>2, <1>3, <1>b, <2>1, <2>2, <2>3 DEF ReadRecordFile
<1>4. CASE _apply_file_dns_provider(m)
  <2>1. ASSUME NEW dns, Moves(m, [mover[m] EXCEPT !.at = AfterDns(mover[m].command), !.dns = dns]),
               Numbered(dns.changes), FoundAs(dns.changes, mover[m].before)
        PROVE  RestoreInv'
    <3>1. PICK next : next = [mover[m] EXCEPT !.at = AfterDns(mover[m].command), !.dns = dns]
      OBVIOUS
    <3>2. /\ next.at = AfterDns(mover[m].command) /\ next.routes = mover[m].routes
          /\ next.dns = dns /\ next.before = mover[m].before
      BY <1>1, <3>1 DEF ApplyRecord
    <3>3. ApplyTruly(next)
      BY <1>1, <1>a, <2>1, <3>2 DEF ApplyTruly, Truthful
    <3> QED
      BY <1>2, <1>a, <1>b, <2>1, <3>1, <3>2, <3>3
  <2>2. mover[m].before = mover[m].seen /\ Numbered(mover[m].routes)
    BY <1>1, <1>4 DEF _apply_file_dns_provider, ApplyTruly
  <2>3. PICK made : made = DnsMutation("file", "succeeded",
                             RouteChanges(mover[m].routes, mover[m].seen, mover[m].command.origin), TRUE)
    OBVIOUS
  <2>4. made.changes = RouteChanges(mover[m].routes, mover[m].seen, mover[m].command.origin)
    BY <2>3 DEF DnsMutation
  <2>5. Numbered(made.changes) /\ FoundAs(made.changes, mover[m].before)
    BY <2>2, <2>4, RouteChangesTrue
  <2>6. PICK none : none = DnsMutation("file", "failed", <<>>, TRUE)
    OBVIOUS
  <2>7. none.changes = << >>
    BY <2>6 DEF DnsMutation
  <2>8. Numbered(none.changes) /\ FoundAs(none.changes, mover[m].before)
    <3>1. DOMAIN << >> = {} /\ DOMAIN << >> = 1..0 /\ 0 \in Nat
      BY SMT
    <3> QED
      BY <2>7, <3>1 DEF Numbered, FoundAs
  <2>9. CASE Moves(m, [mover[m] EXCEPT !.at = AfterDns(mover[m].command), !.dns = made])
    BY <2>1, <2>5, <2>9
  <2>10. CASE Moves(m, [mover[m] EXCEPT !.at = AfterDns(mover[m].command), !.dns = none])
    BY <2>1, <2>8, <2>10
  <2> QED
    BY <1>4, <2>3, <2>6, <2>9, <2>10 DEF _apply_file_dns_provider
<1>5. CASE _cloudflare_request(m)
  <2> DEFINE d == mover[m].routes[Len(mover[m].changes) + 1]
             c == [domain |-> d, next |-> mover[m].command.origin, previous |-> records[d]]
             finished == Len(Append(mover[m].changes, c)) = Len(mover[m].routes)
  <2>1. PICK at, found, changed, dns :
          /\ at = IF finished THEN AfterDns(mover[m].command) ELSE "request"
          /\ found = Noted(mover[m].before, d, records)
          /\ changed = Append(mover[m].changes, c)
          /\ dns = IF finished THEN DnsMutation("cloudflare", "succeeded", changed, TRUE) ELSE mover[m].dns
    OBVIOUS
  <2>2. Moves(m, [mover[m] EXCEPT !.at = at, !.before = found, !.changes = changed, !.dns = dns])
    BY <1>5, <2>1 DEF _cloudflare_request, Noted
  <2>3. PICK next : next = [mover[m] EXCEPT !.at = at, !.before = found, !.changes = changed, !.dns = dns]
    OBVIOUS
  <2>4. /\ next.at = at /\ next.routes = mover[m].routes /\ next.before = found /\ next.changes = changed
        /\ next.dns = dns
    BY <1>1, <2>3 DEF ApplyRecord
  <2>5. Recorded(mover[m].changes, mover[m].before)
    BY <1>1, <1>5 DEF _cloudflare_request, ApplyTruly
  <2>6. c.domain = d /\ c.previous = records[d]
    BY SMT
  <2> HIDE DEF c, d
  <2>7. Recorded(changed, found)
    BY <2>1, <2>5, <2>6, FoundAsAppended
  <2>8. Numbered(changed)
    <3>1. PICK T : changed \in Seq(T)
      BY <2>7 DEF Recorded
    <3>2. Len(changed) \in Nat /\ DOMAIN changed = 1..Len(changed)
      BY SMT, <3>1
    <3> QED
      BY <3>2 DEF Numbered
  <2>9. \/ at = "request"
        \/ at \in {"caddy", "receipt"} /\ dns = DnsMutation("cloudflare", "succeeded", changed, TRUE)
    BY <2>1, <1>a
  <2>10. ApplyTruly(next)
    <3>1. at = "request" => ApplyTruly(next)
      BY <1>1, <2>4, <2>7 DEF ApplyTruly
    <3>2. ASSUME dns = DnsMutation("cloudflare", "succeeded", changed, TRUE) PROVE dns.changes = changed
      BY <3>2 DEF DnsMutation
    <3>3. ASSUME at \in {"caddy", "receipt"}, dns.changes = changed PROVE ApplyTruly(next)
      BY <1>1, <2>4, <2>7, <2>8, <3>3 DEF ApplyTruly, Truthful, Recorded
    <3> QED
      BY <2>9, <3>1, <3>2, <3>3
  <2> QED
    BY <1>2, <1>b, <2>2, <2>3, <2>4, <2>9, <2>10
<1>6. CASE CloudflareFails(m)
  <2>1. PICK dns : dns = DnsMutation("cloudflare", "failed", mover[m].changes, FALSE)
    OBVIOUS
  <2>2. PICK next : next = [mover[m] EXCEPT !.at = AfterDns(mover[m].command), !.dns = dns]
    OBVIOUS
  <2>3. /\ next.at = AfterDns(mover[m].command) /\ next.routes = mover[m].routes
        /\ next.dns = dns /\ next.before = mover[m].before
    BY <1>1, <2>2 DEF ApplyRecord
  <2>4. dns.changes = mover[m].changes
    BY <2>1 DEF DnsMutation
  <2>5. PICK S : mover[m].changes \in Seq(S) /\ FoundAs(mover[m].changes, mover[m].before)
    BY <1>1, <1>6 DEF CloudflareFails, ApplyTruly, Recorded
  <2>6. Len(mover[m].changes) \in Nat /\ DOMAIN mover[m].changes = 1..Len(mover[m].changes)
    BY SMT, <2>5
  <2>7. Numbered(mover[m].changes)
    BY <2>6 DEF Numbered
  <2>8. ApplyTruly(next)
    BY <1>1, <1>a, <2>3, <2>4, <2>5, <2>7 DEF ApplyTruly, Truthful
  <2> QED
    BY <1>2, <1>6, <1>a, <1>b, <2>1, <2>2, <2>3, <2>8 DEF CloudflareFails
<1>7. CASE _apply_file_caddy_provider(m)
  <2>1. ASSUME NEW caddy, Moves(m, [mover[m] EXCEPT !.at = "receipt", !.caddy = caddy]) PROVE RestoreInv'
    <3>1. PICK next : next = [mover[m] EXCEPT !.at = "receipt", !.caddy = caddy]
      OBVIOUS
    <3>2. /\ next.at = "receipt" /\ next.routes = mover[m].routes
          /\ next.dns = mover[m].dns /\ next.before = mover[m].before
      BY <1>1, <3>1 DEF ApplyRecord
    <3>3. ApplyTruly(next)
      BY <1>1, <1>7, <3>2 DEF ApplyTruly, Truthful, _apply_file_caddy_provider
    <3> QED
      BY <1>2, <1>b, <2>1, <3>1, <3>2, <3>3
  <2> QED
    BY <1>7, <2>1 DEF _apply_file_caddy_provider
<1> QED
  BY <1>3, <1>4, <1>5, <1>6, <1>7

(* The last restore of a domain that has one route is its only one.        *)
LEMMA LastRestoreIsFound ==
  ASSUME NEW receipt, Truthful(receipt), NEW k \in DOMAIN Restores(receipt),
         RoutedOnce(receipt, Restores(receipt)[k].domain)
  PROVE  LastRestore(Restores(receipt), Restores(receipt)[k].domain) = receipt.before[Restores(receipt)[k].domain]
<1> DEFINE left == Restores(receipt)
           mine == {j \in DOMAIN left : left[j].domain = left[k].domain}
<1>1. mine = {k}
  BY DEF RoutedOnce
<1>2. k \in Int
  <2>1. receipt.dns # NoMutation
    <3>1. ASSUME receipt.dns = NoMutation PROVE FALSE
      <4>1. k \in DOMAIN << >>
        BY <3>1 DEF Restores
      <4> QED
        BY SMT, <4>1
    <3> QED
      BY <3>1
  <2>2. DOMAIN left = DOMAIN receipt.dns.changes
    BY <2>1 DEF Restores
  <2>3. PICK n \in Nat : DOMAIN left = 1..n
    BY <2>1, <2>2 DEF Truthful, Numbered
  <2> QED
    BY SMT, <2>3
<1>3. k <= k
  BY SMT, <1>2
<1>4. (CHOOSE j \in mine : \A i \in mine : i <= j) = k
  BY <1>1, <1>3
<1>5. LastRestore(left, left[k].domain) = left[k].restore
  BY <1>4 DEF LastRestore
<1> QED
  BY <1>5, RestoreIsFound

(* The restores of a rollback.                                             *)
LEMMA RestoreUndoes ==
  ASSUME SwitchInv, RestoreInv, NEW m \in Movers,
         \/ UndoReadRecordFile(m) \/ _rollback_file_dns_provider(m)
         \/ _rollback_cloudflare_dns_provider(m) \/ _rollback_file_caddy_provider(m)
  PROVE  RestoreInv'
<1>0. mover[m].at \in Undoing /\ UNCHANGED <<receipts, rollbacks, manifest>>
  BY DEF UndoReadRecordFile, _rollback_file_dns_provider, _rollback_cloudflare_dns_provider,
         _rollback_file_caddy_provider, Undoing
<1>1. UndoRecord(mover[m]) /\ UndoTruly(mover[m], receipts)
  BY <1>0, UndoIsRecord DEF RestoreInv, MovesTruly
<1> DEFINE undone == receipts[mover[m].receipt]
<1>2. Truthful(undone)
  BY <1>1 DEF RestoreInv, UndoTruly
<1>3. ASSUME NEW next, Moves(m, next), next.at \in Undoing, UndoTruly(next, receipts) PROVE RestoreInv'
  <2>1. next.at \notin Applying
    BY <1>3 DEF Applying, Undoing
  <2> QED
    BY <1>0, <1>3, <2>1, RestoreMoves DEF MovesTruly
<1>a. \A r : AfterUndo(r) \in {"undo caddy", "undo receipt"}
  BY DEF AfterUndo
<1>b. /\ {"undo caddy", "undo receipt"} \subseteq Undoing /\ "undo write" \in Undoing /\ "undo request" \in Undoing
      /\ {"undo caddy", "undo receipt"} \cap {"undo read", "undo write", "undo request"} = {}
  BY DEF Undoing
(* A step that goes on to the site file or to the receipt.                 *)
<1>4. ASSUME NEW next, Moves(m, next), next.at \in {"undo caddy", "undo receipt"},
             next.receipt = mover[m].receipt, Restored(next.wrote, undone)
      PROVE  RestoreInv'
  <2>1. UndoTruly(next, receipts)
    BY <1>1, <1>b, <1>4 DEF UndoTruly
  <2> QED
    BY <1>3, <1>4, <1>b, <2>1
<1>5. CASE UndoReadRecordFile(m)
  <2>1. PICK next : next = [mover[m] EXCEPT !.at = "undo write", !.seen = records]
    OBVIOUS
  <2>2. /\ next.at = "undo write" /\ next.receipt = mover[m].receipt /\ next.left = mover[m].left
        /\ next.wrote = mover[m].wrote
    BY <1>1, <2>1 DEF UndoRecord
  <2>3. UndoTruly(next, receipts)
    BY <1>1, <1>5, <2>2 DEF UndoTruly, UndoReadRecordFile
  <2> QED
    BY <1>3, <1>5, <1>b, <2>1, <2>2, <2>3 DEF UndoReadRecordFile
<1>6. CASE _rollback_file_dns_provider(m)
  <2> DEFINE left == mover[m].left
             touched == {left[k].domain : k \in DOMAIN left}
  <2>1. left = Restores(undone)
    BY <1>1, <1>6 DEF UndoTruly, _rollback_file_dns_provider
  <2>2. ASSUME NEW wrote, wrote = [d \in touched |-> LastRestore(left, d)],
               Moves(m, [mover[m] EXCEPT !.at = AfterUndo(mover[m].receipt), !.wrote = wrote])
        PROVE  RestoreInv'
    <3>1. PICK next : next = [mover[m] EXCEPT !.at = AfterUndo(mover[m].receipt), !.wrote = wrote]
      OBVIOUS
    <3>2. next.at = AfterUndo(mover[m].receipt) /\ next.receipt = mover[m].receipt /\ next.wrote = wrote
      BY <1>1, <3>1 DEF UndoRecord
    <3>3. ASSUME NEW d \in touched, RoutedOnce(undone, d) PROVE LastRestore(left, d) = undone.before[d]
      <4>1. PICK k \in DOMAIN left : d = left[k].domain
        OBVIOUS
      <4> QED
        BY <1>2, <2>1, <3>3, <4>1, LastRestoreIsFound
    <3>4. Restored(wrote, undone)
      BY <2>2, <3>3 DEF Restored
    <3> QED
      BY <1>4, <1>a, <2>2, <3>1, <3>2, <3>4
  <2>3. ASSUME Moves(m, [mover[m] EXCEPT !.at = AfterUndo(mover[m].receipt), !.failed = TRUE])
        PROVE  RestoreInv'
    <3>1. PICK next : next = [mover[m] EXCEPT !.at = AfterUndo(mover[m].receipt), !.failed = TRUE]
      OBVIOUS
    <3>2. next.at = AfterUndo(mover[m].receipt) /\ next.receipt = mover[m].receipt /\ next.wrote = mover[m].wrote
      BY <1>1, <3>1 DEF UndoRecord
    <3>3. Restored(next.wrote, undone)
      BY <1>1, <3>2 DEF UndoTruly
    <3> QED
      BY <1>4, <1>a, <2>3, <3>1, <3>2, <3>3
  <2> QED
    BY <1>6, <2>2, <2>3 DEF _rollback_file_dns_provider
<1>7. CASE _rollback_cloudflare_dns_provider(m)
  <2> DEFINE left == mover[m].left
  <2>1. PICK S : /\ left \in Seq(S)
                 /\ \A i \in DOMAIN left : \E k \in DOMAIN Restores(undone) : left[i] = Restores(undone)[k]
    BY <1>1, <1>7 DEF UndoTruly, _rollback_cloudflare_dns_provider
  <2>2. ASSUME left # << >>
        PROVE  /\ Tail(left) \in Seq(S)
               /\ \A i \in DOMAIN Tail(left) : i + 1 \in DOMAIN left /\ Tail(left)[i] = left[i + 1]
               /\ 1 \in DOMAIN left /\ Head(left) = left[1]
    BY SMT, <2>1, <2>2
  <2>3. mover[m].at = "undo request" /\ mover[m].receipt \in DOMAIN receipts /\ Restored(mover[m].wrote, undone)
    BY <1>1, <1>7 DEF UndoTruly, _rollback_cloudflare_dns_provider
  <2>4. ASSUME NEW next, next.at = AfterUndo(mover[m].receipt), next.receipt = mover[m].receipt,
               next.wrote = mover[m].wrote, Moves(m, next)
        PROVE  RestoreInv'
    BY <1>4, <1>a, <2>3, <2>4
  <2>5. ASSUME NEW next, next.at = mover[m].at, next.receipt = mover[m].receipt, next.left = Tail(left),
               left # << >>, Restored(next.wrote, undone), Moves(m, next)
        PROVE  RestoreInv'
    <3>1. \A i \in DOMAIN Tail(left) : \E k \in DOMAIN Restores(undone) : Tail(left)[i] = Restores(undone)[k]
      BY <2>1, <2>2, <2>5
    <3>2. /\ next.receipt \in DOMAIN receipts /\ receipts[next.receipt] = undone
          /\ \E T : next.left \in Seq(T)
          /\ next.at \notin {"undo read", "undo write"}
      BY <2>2, <2>3, <2>5
    <3>3. \A i \in DOMAIN next.left : \E k \in DOMAIN Restores(undone) : next.left[i] = Restores(undone)[k]
      BY <2>5, <3>1
    <3> HIDE DEF left, undone
    <3>4. UndoTruly(next, receipts)
      BY <2>5, <3>2, <3>3 DEF UndoTruly
    <3> QED
      BY <1>3, <1>b, <2>3, <2>5, <3>4
  <2>6. CASE Moves(m, [mover[m] EXCEPT !.at = AfterUndo(mover[m].receipt)])
    <3>1. PICK next : next = [mover[m] EXCEPT !.at = AfterUndo(mover[m].receipt)]
      OBVIOUS
    <3>2. next.at = AfterUndo(mover[m].receipt) /\ next.receipt = mover[m].receipt /\ next.wrote = mover[m].wrote
      BY <1>1, <3>1 DEF UndoRecord
    <3> QED
      BY <2>4, <2>6, <3>1, <3>2
  <2>7. CASE Moves(m, [mover[m] EXCEPT !.at = AfterUndo(mover[m].receipt), !.failed = TRUE])
    <3>1. PICK next : next = [mover[m] EXCEPT !.at = AfterUndo(mover[m].receipt), !.failed = TRUE]
      OBVIOUS
    <3>2. next.at = AfterUndo(mover[m].receipt) /\ next.receipt = mover[m].receipt /\ next.wrote = mover[m].wrote
      BY <1>1, <3>1 DEF UndoRecord
    <3> QED
      BY <2>4, <2>7, <3>1, <3>2
  <2>8. CASE left # << >> /\ Moves(m, [mover[m] EXCEPT !.left = Tail(left)])
    <3>1. PICK next : next = [mover[m] EXCEPT !.left = Tail(left)]
      OBVIOUS
    <3>2. /\ next.at = mover[m].at /\ next.receipt = mover[m].receipt /\ next.wrote = mover[m].wrote
          /\ next.left = Tail(left)
      BY <1>1, <3>1 DEF UndoRecord
    <3> QED
      BY <2>3, <2>5, <2>8, <3>1, <3>2
  <2>9. ASSUME left # << >>, NEW wrote,
               wrote = [e \in DOMAIN mover[m].wrote \cup {Head(left).domain} |->
                          IF e = Head(left).domain THEN Head(left).restore ELSE mover[m].wrote[e]],
               Moves(m, [mover[m] EXCEPT !.left = Tail(left), !.wrote = wrote])
        PROVE  RestoreInv'
    <3>1. PICK next : next = [mover[m] EXCEPT !.left = Tail(left), !.wrote = wrote]
      OBVIOUS
    <3>2. /\ next.at = mover[m].at /\ next.receipt = mover[m].receipt /\ next.wrote = wrote
          /\ next.left = Tail(left)
      BY <1>1, <3>1 DEF UndoRecord
    <3>3. PICK k \in DOMAIN Restores(undone) : Head(left) = Restores(undone)[k]
      BY <2>1, <2>2, <2>9
    <3>4. RoutedOnce(undone, Head(left).domain) => Head(left).restore = undone.before[Head(left).domain]
      BY <1>2, <3>3, RestoreIsFound
    <3>5. ASSUME NEW d \in DOMAIN wrote, RoutedOnce(undone, d) PROVE wrote[d] = undone.before[d]
      <4>1. CASE d = Head(left).domain
        BY <2>9, <3>4, <3>5, <4>1
      <4>2. CASE d # Head(left).domain
        <5>1. d \in DOMAIN mover[m].wrote /\ wrote[d] = mover[m].wrote[d]
          BY <2>9, <4>2
        <5> QED
          BY <2>3, <3>5, <5>1 DEF Restored
      <4> QED
        BY <4>1, <4>2
    <3>6. Restored(wrote, undone)
      BY <3>5 DEF Restored
    <3> QED
      BY <2>5, <2>9, <3>1, <3>2, <3>6
  <2> QED
    BY <1>7, <2>6, <2>7, <2>8, <2>9 DEF _rollback_cloudflare_dns_provider
<1>8. CASE _rollback_file_caddy_provider(m)
  <2>1. Restored(mover[m].wrote, undone)
    BY <1>1 DEF UndoTruly
  <2>2. CASE Moves(m, [mover[m] EXCEPT !.at = "undo receipt"])
    <3>1. PICK next : next = [mover[m] EXCEPT !.at = "undo receipt"]
      OBVIOUS
    <3>2. next.at = "undo receipt" /\ next.receipt = mover[m].receipt /\ next.wrote = mover[m].wrote
      BY <1>1, <3>1 DEF UndoRecord
    <3> QED
      BY <1>4, <2>1, <2>2, <3>1, <3>2
  <2>3. CASE Moves(m, [mover[m] EXCEPT !.at = "undo receipt", !.failed = TRUE])
    <3>1. PICK next : next = [mover[m] EXCEPT !.at = "undo receipt", !.failed = TRUE]
      OBVIOUS
    <3>2. next.at = "undo receipt" /\ next.receipt = mover[m].receipt /\ next.wrote = mover[m].wrote
      BY <1>1, <3>1 DEF UndoRecord
    <3> QED
      BY <1>4, <2>1, <2>3, <3>1, <3>2
  <2> QED
    BY <1>8, <2>2, <2>3 DEF _rollback_file_caddy_provider
<1> QED
  BY <1>5, <1>6, <1>7, <1>8

LEMMA ReceiptAppended ==
  ASSUME NEW kept, \E S : kept \in Seq(S), NEW c
  PROVE  /\ \E S : Append(kept, c) \in Seq(S)
         /\ DOMAIN kept \subseteq DOMAIN Append(kept, c)
         /\ \A k \in DOMAIN kept : Append(kept, c)[k] = kept[k]
         /\ \A k \in DOMAIN Append(kept, c) : k \in DOMAIN kept \/ Append(kept, c)[k] = c
<1>1. PICK S : kept \in Seq(S)
  OBVIOUS
<1>2. Append(kept, c) \in Seq(S \cup {c})
  BY SMT, <1>1
<1> QED
  BY SMT, <1>1, <1>2

(* A receipt is added, the earlier ones and what refers to them stay.      *)
LEMMA RestoreStores ==
  ASSUME SwitchInv, RestoreInv, NEW m \in Movers, StoreTrafficReceipt(m) \/ StoreRollbackReceipt(m) \/ KillMover(m)
  PROVE  RestoreInv'
<1>1. Moves(m, IdleMover) /\ UNCHANGED manifest
  BY DEF StoreTrafficReceipt, StoreRollbackReceipt, KillMover
<1>2. mover' = [n \in Movers |-> IF n = m THEN IdleMover ELSE mover[n]]
  BY <1>1 DEF SwitchInv, Moves
<1>3. CASE KillMover(m)
  BY <1>1, <1>3, RestoreEnds, RestoreMoves DEF KillMover
<1>4. CASE StoreRollbackReceipt(m)
  <2>1. PICK c : c = [receipt |-> mover[m].receipt, wrote |-> mover[m].wrote,
                      status |-> IF mover[m].failed THEN "failed" ELSE "succeeded"]
    OBVIOUS
  <2>2. rollbacks' = Append(rollbacks, c) /\ UNCHANGED receipts /\ mover[m].at \in Undoing
    BY <1>4, <2>1 DEF StoreRollbackReceipt, Undoing
  <2>3. c.receipt = mover[m].receipt /\ c.wrote = mover[m].wrote
    BY <2>1
  <2>4. c.receipt \in DOMAIN receipts /\ Restored(c.wrote, receipts[c.receipt])
    BY <2>2, <2>3 DEF RestoreInv, MovesTruly, UndoTruly
  <2>5. \E S : rollbacks \in Seq(S)
    BY DEF RestoreInv
  <2>6. /\ \E S : rollbacks' \in Seq(S)
        /\ \A k \in DOMAIN rollbacks : rollbacks'[k] = rollbacks[k]
        /\ \A k \in DOMAIN rollbacks' : k \in DOMAIN rollbacks \/ rollbacks'[k] = c
    BY <2>2, <2>5, ReceiptAppended
  <2>7. \A k \in DOMAIN rollbacks' :
          /\ rollbacks'[k].receipt \in DOMAIN receipts'
          /\ Restored(rollbacks'[k].wrote, receipts'[rollbacks'[k].receipt])
    BY <2>2, <2>4, <2>6 DEF RestoreInv
  <2>8. \A n \in Movers : MovesTruly(mover'[n], receipts')
    BY <1>2, <2>2, RestoreEnds DEF RestoreInv
  <2>9. Numbered(manifest') /\ (\E S : receipts' \in Seq(S)) /\ \A r \in DOMAIN receipts' : Truthful(receipts'[r])
    BY <1>1, <2>2 DEF RestoreInv
  <2> QED
    BY <2>6, <2>7, <2>8, <2>9, RestoreAfter
<1>5. CASE StoreTrafficReceipt(m)
  <2>1. PICK performed, status :
          receipts' = Append(receipts, [dns |-> mover[m].dns, caddy |-> mover[m].caddy, before |-> mover[m].before,
                                        performed |-> performed, status |-> status])
    BY <1>5 DEF StoreTrafficReceipt
  <2>2. PICK c : c = [dns |-> mover[m].dns, caddy |-> mover[m].caddy, before |-> mover[m].before,
                      performed |-> performed, status |-> status]
    OBVIOUS
  <2>3. c.dns = mover[m].dns /\ c.before = mover[m].before
    BY <2>2
  <2>4. mover[m].at = "receipt" /\ mover[m].at \in Applying /\ UNCHANGED rollbacks
    BY <1>5 DEF StoreTrafficReceipt, Applying
  <2>5. Truthful(c)
    <3>1. Truthful(mover[m])
      BY <2>4 DEF RestoreInv, MovesTruly, ApplyTruly
    <3> QED
      BY <2>3, <3>1 DEF Truthful
  <2>6. /\ \E S : receipts' \in Seq(S)
        /\ DOMAIN receipts \subseteq DOMAIN receipts'
        /\ \A k \in DOMAIN receipts : receipts'[k] = receipts[k]
        /\ \A k \in DOMAIN receipts' : k \in DOMAIN receipts \/ receipts'[k] = c
    <3>1. receipts' = Append(receipts, c) /\ \E S : receipts \in Seq(S)
      BY <2>1, <2>2 DEF RestoreInv
    <3> QED
      BY <3>1, ReceiptAppended
  <2>7. ASSUME NEW x, MovesTruly(x, receipts) PROVE MovesTruly(x, receipts')
    <3>1. ASSUME UndoTruly(x, receipts) PROVE UndoTruly(x, receipts')
      <4>1. receipts'[x.receipt] = receipts[x.receipt] /\ x.receipt \in DOMAIN receipts'
        BY <2>6, <3>1 DEF UndoTruly
      <4> QED
        BY <3>1, <4>1 DEF UndoTruly
    <3> QED
      BY <2>7, <3>1 DEF MovesTruly
  <2>8. \A n \in Movers : MovesTruly(mover'[n], receipts')
    BY <1>2, <2>7, RestoreEnds DEF RestoreInv
  <2>9. \A r \in DOMAIN receipts' : Truthful(receipts'[r])
    BY <2>5, <2>6 DEF RestoreInv
  <2>10. \A k \in DOMAIN rollbacks' :
           /\ rollbacks'[k].receipt \in DOMAIN receipts'
           /\ Restored(rollbacks'[k].wrote, receipts'[rollbacks'[k].receipt])
    BY <2>4, <2>6 DEF RestoreInv
  <2>11. Numbered(manifest') /\ \E S : rollbacks' \in Seq(S)
    BY <1>1, <2>4 DEF RestoreInv
  <2> QED
    BY <2>6, <2>8, <2>9, <2>10, <2>11, RestoreAfter
<1> QED
  BY <1>3, <1>4, <1>5

LEMMA RestoreStep ==
  ASSUME SwitchInv, RestoreInv, [TrafficNext]_trafficVars
  PROVE  RestoreInv'
<1>1. ASSUME \/ \E cmd, ready, healthy : traffic_plan(cmd, ready, healthy)
             \/ OperatorEdits
             \/ UNCHANGED trafficVars
      PROVE  RestoreInv'
  <2>1. UNCHANGED <<mover, receipts, rollbacks>>
    BY <1>1 DEF traffic_plan, OperatorEdits, trafficVars
  <2>2. manifest' = manifest \/ manifest' \in Manifests
    BY <1>1 DEF traffic_plan, OperatorEdits, trafficVars
  <2>3. Numbered(manifest')
    BY <2>2, RoutesAreNumbered DEF RestoreInv
  <2>4. /\ \E S : receipts' \in Seq(S)
        /\ \E S : rollbacks' \in Seq(S)
        /\ \A r \in DOMAIN receipts' : Truthful(receipts'[r])
        /\ \A n \in Movers : MovesTruly(mover'[n], receipts')
        /\ \A k \in DOMAIN rollbacks' :
             /\ rollbacks'[k].receipt \in DOMAIN receipts'
             /\ Restored(rollbacks'[k].wrote, receipts'[rollbacks'[k].receipt])
    BY <2>1 DEF RestoreInv
  <2> QED
    BY <2>3, <2>4, RestoreAfter
<1> QED
  BY <1>1, RestoreBegins, RestoreApplies, RestoreUndoes, RestoreStores DEF TrafficNext

(* A rollback that reports success gave each record of a domain with one   *)
(* route the value its apply had found, for any manifests, configs and     *)
(* number of processes, whatever fails and whoever else writes meanwhile.  *)
THEOREM RollbacksRestore == TrafficSpec => []RollbackRestores
<1>1. RestoreInv => RollbackRestores
  BY DEF RestoreInv, Restored, RollbackRestores
<1>2. TrafficInit => SwitchInv /\ RestoreInv
  BY SwitchStart, RestoreStart
<1>3. SwitchInv /\ RestoreInv /\ [TrafficNext]_trafficVars => (SwitchInv /\ RestoreInv)'
  BY SwitchStep, RestoreStep
<1> QED
  BY <1>1, <1>2, <1>3, PTL DEF TrafficSpec

=============================================================================
