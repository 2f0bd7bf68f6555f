---------------------------- MODULE AgentCommands ----------------------------
(***************************************************************************)
(* The outbound host agent (daemon/agent.py, daemon/agent_store.py): one   *)
(* thread that exchanges results for commands with the control plane,      *)
(* accepts commands durably in sequence, executes them and reports each    *)
(* result until it is acknowledged.  Exchanges are lost, the daemon dies   *)
(* between any two steps and restarts when a command asks for it.  The     *)
(* control plane is external; it closes a command when it has the result   *)
(* or withdraws it, and sends the open ones again.                         *)
(***************************************************************************)
EXTENDS Integers, FiniteSets, FiniteSetsExt

CONSTANTS
  KindOf,        \* sequence number -> "plain", "bundle", "bad", "restart"
  Batch,         \* agent_command_batch
  AgentFaults,        \* "crash", "lost", "withdraw", "refuse"
  MaxCrashes     \* bound on the crashes of the daemon

ASSUME SequenceAssumption ==
  /\ IsFiniteSet(DOMAIN KindOf)
  /\ DOMAIN KindOf = 1..Cardinality(DOMAIN KindOf)

ASSUME BatchAssumption == Batch \in Nat

VARIABLES
  issued,        \* control plane: the last command issued
  withdrawn,     \* control plane: commands taken back or expired
  answer,        \* control plane: the result received of each command
  command,       \* agent_commands: state and outcome of the preparation
  acknowledged,  \* agent_state: acknowledged_command_sequence
  inbox,         \* the source bundle of each command
  done,          \* commands whose effect is on the host
  agent,         \* the control state of the agent thread
  restarting,    \* restart_requested
  crashes

controlVars == <<issued, withdrawn, answer>>
hostVars == <<command, acknowledged, inbox, done>>
commandsVars == <<controlVars, hostVars, agent, restarting, crashes>>

Sequence == DOMAIN KindOf

CommandTerminal == {"succeeded", "failed"}

Unknown == [state |-> "none", prepared |-> FALSE]

(* at: the step; next: the command in hand; upto, ack: the last command    *)
(* and the acknowledgement of the response; then: where the execution      *)
(* loop leads; result, ok: of the execution and of the preparation.        *)
IdleAgent == [at |-> "idle", next |-> 0, upto |-> 0, ack |-> 0, then |-> "idle",
         result |-> "none", ok |-> FALSE]

AgentGoes(at) == agent' = [agent EXCEPT !.at = at]

-----------------------------------------------------------------------------
(* The control plane.                                                      *)
Closed(n) == n \in withdrawn \/ answer[n] # "none"

ClosedPrefix == Max({k \in 0..issued : \A n \in 1..k : Closed(n)})

Issue ==
  /\ issued < Cardinality(Sequence)
  /\ issued' = issued + 1
  /\ UNCHANGED <<withdrawn, answer, hostVars, agent, restarting, crashes>>

Withdraw(n) ==
  /\ "withdraw" \in AgentFaults
  /\ n <= issued
  /\ ~Closed(n)
  /\ withdrawn' = withdrawn \cup {n}
  /\ UNCHANGED <<issued, answer, hostVars, agent, restarting, crashes>>

(* pending_results: the terminal commands after the acknowledged sequence, *)
(* up to the first one that is not terminal.                               *)
Reported ==
  LET rows == {n \in Sequence : n > acknowledged /\ command[n].state # "none"}
      upTo(n) == {m \in rows : m <= n}
  IN  {n \in rows : /\ Cardinality(upTo(n)) <= Batch
                    /\ \A m \in upTo(n) : command[m].state \in CommandTerminal}

(* The control plane takes the results, acknowledges what is closed and    *)
(* sends the open commands that follow.                                    *)
ControlPlaneReplies ==
  /\ agent.at = "exchange"
  /\ UNCHANGED <<issued, withdrawn, hostVars, restarting, crashes>>
  /\ answer' = [n \in Sequence |->
       IF n \in Reported THEN command[n].state ELSE answer[n]]
  /\ agent' = [agent EXCEPT !.at = "response", !.ack = ClosedPrefix',
       !.next = ClosedPrefix' + 1,
       !.upto = Max({k \in ClosedPrefix'..issued :
                       /\ k <= ClosedPrefix' + Batch
                       /\ ((ClosedPrefix' + 1)..k) \cap withdrawn = {}})]

-----------------------------------------------------------------------------
(* run_once                                                                *)
Wake ==
  /\ agent.at = "idle"
  /\ agent' = [IdleAgent EXCEPT !.at = "execute", !.then = "exchange"]
  /\ UNCHANGED <<controlVars, hostVars, restarting, crashes>>

(* The request or the response is lost, or the response is not valid.      *)
ExchangeFails ==
  /\ "lost" \in AgentFaults
  /\ agent.at \in {"exchange", "response"}
  /\ agent' = IdleAgent
  /\ UNCHANGED <<controlVars, hostVars, restarting, crashes>>

(* Faulty variant: the acknowledgement is taken as it comes.               *)
AcknowledgeBlindly ==
  /\ agent.at = "response"
  /\ acknowledged' = Max({acknowledged, agent.ack})
  /\ AgentGoes("prune")
  /\ UNCHANGED <<controlVars, command, inbox, done, restarting, crashes>>

(* acknowledge_results: it only grows, and never passes a command that is  *)
(* not terminal.                                                           *)
Acknowledge ==
  LET crosses == \E n \in 1..agent.ack : command[n].state \in {"accepted", "running"}
  IN  /\ agent.at = "response"
      /\ IF agent.ack <= acknowledged
           THEN UNCHANGED acknowledged /\ AgentGoes("prune")
         ELSE IF crosses THEN UNCHANGED acknowledged /\ agent' = IdleAgent
         ELSE acknowledged' = agent.ack /\ AgentGoes("prune")
      /\ UNCHANGED <<controlVars, command, inbox, done, restarting, crashes>>

(* _prune_acknowledged_bundles                                             *)
Prune ==
  /\ agent.at = "prune"
  /\ inbox' = [n \in Sequence |->
       IF n <= acknowledged /\ command[n].state \in CommandTerminal THEN "none" ELSE inbox[n]]
  /\ AgentGoes("prepare")
  /\ UNCHANGED <<controlVars, command, acknowledged, done, restarting, crashes>>

(* _prepare_payload: a bundle is written to the inbox, or compared with    *)
(* what an earlier attempt wrote; a malformed payload is refused.          *)
Prepare ==
  LET n == agent.next
      bundle == KindOf[n] = "bundle"
  IN  /\ agent.at = "prepare"
      /\ n <= agent.upto
      /\ IF bundle /\ inbox[n] = "none"
           THEN /\ inbox' = [inbox EXCEPT ![n] = "partial"]
                /\ AgentGoes("write")
           ELSE /\ UNCHANGED inbox
                /\ agent' = [agent EXCEPT !.at = "accept",
                     !.ok = KindOf[n] # "bad" /\ (bundle => inbox[n] = "whole")]
      /\ UNCHANGED <<controlVars, command, acknowledged, done, restarting, crashes>>

WriteBundle ==
  /\ agent.at = "write"
  /\ inbox' = [inbox EXCEPT ![agent.next] = "whole"]
  /\ agent' = [agent EXCEPT !.at = "accept", !.ok = TRUE]
  /\ UNCHANGED <<controlVars, command, acknowledged, done, restarting, crashes>>

LastAccepted == Max({0} \cup {n \in Sequence : command[n].state # "none"})

(* Faulty variant: the acknowledged sequence does not count.               *)
NextAfterHistory == LastAccepted + 1

NextSequence == Max({LastAccepted, acknowledged}) + 1

(* accept: a replay must be the same request, a new command the next one.  *)
Accept ==
  LET n == agent.next
      known == command[n].state # "none"
      valid == IF known THEN command[n].prepared = agent.ok ELSE n = NextSequence
  IN  /\ agent.at = "accept"
      /\ IF ~valid THEN agent' = IdleAgent /\ UNCHANGED command
         ELSE /\ command' = IF known THEN command
                ELSE [command EXCEPT ![n] = [state |-> "accepted", prepared |-> agent.ok]]
              /\ agent' = [agent EXCEPT !.at = IF agent.ok THEN "prepare" ELSE "reject",
                                        !.next = IF agent.ok THEN n + 1 ELSE n]
      /\ UNCHANGED <<controlVars, acknowledged, inbox, done, restarting, crashes>>

(* A command that could not be prepared ends at once.                      *)
Reject ==
  /\ agent.at = "reject"
  /\ command' = [command EXCEPT ![agent.next].state =
                   IF @ \in CommandTerminal THEN @ ELSE "failed"]
  /\ agent' = [agent EXCEPT !.at = "prepare", !.next = @ + 1]
  /\ UNCHANGED <<controlVars, acknowledged, inbox, done, restarting, crashes>>

ResponseAccepted ==
  /\ agent.at = "prepare"
  /\ agent.next > agent.upto
  /\ agent' = [agent EXCEPT !.at = "execute", !.then = "idle"]
  /\ UNCHANGED <<controlVars, hostVars, restarting, crashes>>

-----------------------------------------------------------------------------
(* _execute_pending                                                        *)
Pending == {n \in Sequence : command[n].state \in {"accepted", "running"}}

Leaves == agent' = IF agent.then = "exchange" THEN [IdleAgent EXCEPT !.at = "exchange"] ELSE IdleAgent

NothingPending ==
  /\ agent.at = "execute"
  /\ Pending = {}
  /\ Leaves
  /\ UNCHANGED <<controlVars, hostVars, restarting, crashes>>

MarkRunning ==
  /\ agent.at = "execute"
  /\ Pending # {}
  /\ command' = [command EXCEPT ![Min(Pending)].state = "running"]
  /\ agent' = [agent EXCEPT !.at = "effect", !.next = Min(Pending)]
  /\ UNCHANGED <<controlVars, acknowledged, inbox, done, restarting, crashes>>

(* _execute: the effect happens, keyed by the command; or it is refused.   *)
Execute ==
  LET n == agent.next
      possible == command[n].prepared /\ (KindOf[n] = "bundle" => inbox[n] = "whole")
  IN  /\ agent.at = "effect"
      /\ \/ /\ possible
            /\ done' = done \cup {n}
            /\ agent' = [agent EXCEPT !.at = "complete", !.result = "succeeded"]
         \/ /\ ~possible \/ "refuse" \in AgentFaults
            /\ agent' = [agent EXCEPT !.at = "complete", !.result = "failed"]
            /\ UNCHANGED done
      /\ UNCHANGED <<controlVars, command, acknowledged, inbox, restarting, crashes>>

(* complete; a command that asks for a restart ends the loop.              *)
CompleteCommand ==
  LET n == agent.next
      restart == agent.result = "succeeded" /\ KindOf[n] = "restart"
  IN  /\ agent.at = "complete"
      /\ command' = [command EXCEPT ![n].state = agent.result]
      /\ restarting' = (restarting \/ restart)
      /\ IF restart THEN Leaves ELSE AgentGoes("execute")
      /\ UNCHANGED <<controlVars, acknowledged, inbox, done, crashes>>

-----------------------------------------------------------------------------
AgentDies ==
  /\ "crash" \in AgentFaults
  /\ crashes < MaxCrashes
  /\ agent.at # "idle"
  /\ crashes' = crashes + 1
  /\ agent' = IdleAgent
  /\ restarting' = FALSE
  /\ UNCHANGED <<controlVars, hostVars>>

Restart ==
  /\ restarting
  /\ restarting' = FALSE
  /\ agent' = IdleAgent
  /\ UNCHANGED <<controlVars, hostVars, crashes>>

AgentStep ==
  \/ Wake \/ Prune \/ Prepare \/ WriteBundle \/ Accept \/ Reject
  \/ ResponseAccepted \/ NothingPending \/ MarkRunning \/ Execute \/ CompleteCommand

CommandsNext ==
  \/ Issue
  \/ \E n \in Sequence : Withdraw(n)
  \/ ControlPlaneReplies \/ ExchangeFails \/ Acknowledge
  \/ AgentStep
  \/ AgentDies \/ Restart

CommandsInit ==
  /\ issued = 0
  /\ withdrawn = {}
  /\ answer = [n \in Sequence |-> "none"]
  /\ command = [n \in Sequence |-> Unknown]
  /\ acknowledged = 0
  /\ inbox = [n \in Sequence |-> "none"]
  /\ done = {}
  /\ agent = IdleAgent
  /\ restarting = FALSE
  /\ crashes = 0

CommandsSpec == CommandsInit /\ [][CommandsNext]_commandsVars

-----------------------------------------------------------------------------
(* The commands' part of the check the journal makes when it is opened.    *)
Rows == {n \in Sequence : command[n].state # "none"}

(* "Agent command history is not canonical.": no gap, except below what is *)
(* acknowledged.                                                           *)
HistoryIsCanonical ==
  \A n \in Rows :
    LET previous == Max({0} \cup {m \in Rows : m < n})
    IN  n # previous + 1 => n - 1 <= acknowledged

(* "Outbound agent state is internally inconsistent."                      *)
AgentStateIsConsistent ==
  \A n \in Rows : n <= acknowledged => command[n].state \in CommandTerminal

(* However commands are withdrawn, lost and sent again, and wherever the   *)
(* daemon dies, the journal with its command history opens again.          *)
AgentReopens == HistoryIsCanonical /\ AgentStateIsConsistent

(* A result is dropped from the reports only after the control plane has   *)
(* it: every terminal command up to the acknowledged sequence was reported *)
(* as it ended, and none of them is still to be executed.                  *)
NoResultIsLost ==
  \A n \in 1..acknowledged :
    command[n].state # "none" => answer[n] = command[n].state

(* One bad, withdrawn or half-written command does not wedge the sequence: *)
(* every command issued is closed in the end.                              *)
EveryCommandCloses ==
  \A n \in Sequence : n <= issued ~> n <= ClosedPrefix

=============================================================================
