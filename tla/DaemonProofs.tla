---------------------------- MODULE DaemonProofs ----------------------------
(***************************************************************************)
(* Theorems about what the daemon keeps.  The outbound agent, for any      *)
(* number of commands and any size of a batch: no result is lost, and the  *)
(* command history passes the check of the journal.  The runs of a         *)
(* workload, for any number of runs, threads and claims: what is recorded  *)
(* of a run is what its container did, it is recorded once, and "forbid"   *)
(* keeps runs apart.                                                       *)
(***************************************************************************)
EXTENDS AgentCommands, WorkloadRuns, FiniteSetTheorems, WellFoundedInduction, TLAPS

(* Leaves are first-order and go to Zenon; those with arithmetic or        *)
(* records cite SMT.                                                       *)
USE Zenon

(* Every set of naturals that is not empty has a least member.             *)
LEMMA LeastNatural ==
  ASSUME NEW S \in SUBSET Nat, S # {}
  PROVE  \E n \in S : \A m \in S : n <= m
<1>1. IsWellFoundedOn(OpToRel(<, Nat), Nat)
  BY NatLessThanWellFounded
<1>2. PICK n \in S : \A m \in S : ~(<<m, n>> \in OpToRel(<, Nat))
  BY <1>1, WFMin
<1>3. \A m \in S : <<m, n>> \in OpToRel(<, Nat) <=> m < n
  BY DEF OpToRel
<1>4. \A m \in S : ~(m < n)
  BY <1>2, <1>3
<1>5. \A m \in S : n <= m
  BY SMT, <1>4
<1> QED
  BY <1>5


(* A bounded set of naturals has a greatest member, its Max.               *)
LEMMA MaxOfBounded ==
  ASSUME NEW S \in SUBSET Nat, S # {}, NEW b \in Nat, \A n \in S : n <= b
  PROVE  Max(S) \in S /\ \A n \in S : n <= Max(S)
<1> DEFINE T == {b - n : n \in S}
           P(x) == \A y \in S : x >= y
<1>1. T \in SUBSET Nat /\ T # {}
  <2>1. \A n \in S : b - n \in Nat
    BY SMT
  <2> QED
    BY <2>1
<1>2. PICK t \in T : \A m \in T : t <= m
  BY <1>1, LeastNatural
<1>3. PICK x \in S : t = b - x
  BY <1>2
<1>4. ASSUME NEW y \in S PROVE x >= y
  <2>1. b - y \in T
    OBVIOUS
  <2>2. b - x <= b - y /\ x \in Nat /\ y \in Nat
    BY <2>1, <1>2, <1>3
  <2> QED
    BY SMT, <2>2
<1>5. P(x)
  BY <1>4
<1> HIDE DEF P
<1>6. (CHOOSE y \in S : P(y)) \in S /\ P(CHOOSE y \in S : P(y))
  BY <1>5
<1>7. Max(S) = CHOOSE y \in S : P(y)
  BY DEF Max, P
<1>8. P(Max(S)) /\ Max(S) \in S
  BY <1>6, <1>7
<1> QED
  BY <1>8 DEF P

-----------------------------------------------------------------------------
CommandRow == [state : {"none", "accepted", "running"} \cup CommandTerminal, prepared : BOOLEAN]

AgentThread ==
  [at : {"idle", "execute", "exchange", "response", "prune", "prepare", "write", "accept", "reject", "effect", "complete"},
   next : Nat, upto : Nat, ack : Nat, then : {"idle", "exchange"},
   result : {"none"} \cup CommandTerminal, ok : BOOLEAN]

CommandsTypeOK ==
  /\ issued \in Nat /\ issued <= Cardinality(Sequence)
  /\ answer \in [Sequence -> {"none"} \cup CommandTerminal]
  /\ command \in [Sequence -> CommandRow]
  /\ acknowledged \in Nat /\ acknowledged <= issued
  /\ agent \in AgentThread

(* Where the thread is in a response: the commands it takes over lie       *)
(* within one batch of what it acknowledged before.                        *)
ResponseInv ==
  /\ agent.at \in {"response", "prune", "prepare", "write", "accept", "reject"} =>
       /\ agent.next >= 1 /\ agent.ack <= issued
       /\ agent.upto <= issued /\ agent.upto <= agent.ack + Batch
  /\ agent.at \in {"prune", "prepare", "write", "accept", "reject"} => agent.ack <= acknowledged
  /\ agent.at \in {"write", "accept", "reject"} => agent.next <= agent.upto
  /\ agent.at = "reject" => command[agent.next].state # "none"
  /\ agent.at \in {"effect", "complete"} => agent.next \in Sequence /\ command[agent.next].state = "running"
  /\ agent.at = "complete" => agent.result \in CommandTerminal
  /\ agent.at = "response" => \A n \in Reported : answer[n] # "none"

(* The commands the host knows: none is further than a batch beyond the    *)
(* acknowledged ones, those have ended, and a gap lies below them.         *)
HistoryInv ==
  /\ \A n \in Rows : n <= acknowledged + Batch
  /\ \A n \in Rows : n = 1 \/ n - 1 \in Rows \/ n - 1 <= acknowledged
  /\ \A n \in Sequence : answer[n] # "none" => answer[n] = command[n].state

CommandsInv == CommandsTypeOK /\ ResponseInv /\ HistoryInv /\ NoResultIsLost

LEMMA SequenceIs == Cardinality(Sequence) \in Nat /\ Sequence = 1..Cardinality(Sequence) /\ Batch \in Nat
<1>1. IsFiniteSet(Sequence)
  BY SequenceAssumption DEF Sequence
<1> QED
  BY <1>1, SequenceAssumption, BatchAssumption, FS_CardinalityType DEF Sequence

LEMMA CommandsStart == CommandsInit => CommandsInv
<1> SUFFICES ASSUME CommandsInit PROVE CommandsInv
  OBVIOUS
<1>1. Unknown \in CommandRow /\ Unknown.state = "none"
  BY DEF Unknown, CommandRow
<1>2. IdleAgent \in AgentThread /\ IdleAgent.at = "idle"
  BY DEF IdleAgent, AgentThread
<1>3. CommandsTypeOK
  BY SMT, <1>1, <1>2, SequenceIs DEF CommandsInit, CommandsTypeOK
<1>4. Rows = {}
  BY <1>1 DEF CommandsInit, Rows
<1> QED
  BY SMT, <1>2, <1>3, <1>4 DEF CommandsInit, CommandsInv, ResponseInv, HistoryInv, NoResultIsLost

(* A row that has ended and lies above the acknowledged ones is reported,  *)
(* once no row between them is still to be executed: one batch is enough.  *)
LEMMA EndedIsReported ==
  ASSUME CommandsInv, NEW n \in Rows, n > acknowledged,
         \A m \in Rows : m > acknowledged /\ m <= n => command[m].state \in CommandTerminal
  PROVE  n \in Reported
<1> DEFINE rows == {k \in Sequence : k > acknowledged /\ command[k].state # "none"}
           upTo == {m \in rows : m <= n}
           window == (acknowledged + 1)..(acknowledged + Batch)
<1>1. acknowledged \in Nat /\ Batch \in Nat
  BY SequenceIs DEF CommandsInv, CommandsTypeOK
<1>2. upTo \in SUBSET window
  <2>1. ASSUME NEW m \in upTo PROVE m \in window
    <3>1. m \in Rows /\ m \in Nat /\ m > acknowledged
      BY SMT, SequenceIs DEF Rows
    <3>2. m <= acknowledged + Batch
      BY <3>1 DEF CommandsInv, HistoryInv
    <3> QED
      BY SMT, <3>1, <3>2, <1>1
  <2> QED
    BY <2>1
<1>3. IsFiniteSet(window) /\ Cardinality(window) = Batch
  <2>1. /\ IsFiniteSet(window)
        /\ Cardinality(window) = IF acknowledged + 1 > acknowledged + Batch THEN 0
                                 ELSE (acknowledged + Batch) - (acknowledged + 1) + 1
    BY SMT, <1>1, FS_Interval
  <2> QED
    BY SMT, <2>1, <1>1
<1> HIDE DEF window
<1>4. Cardinality(upTo) <= Batch
  <2> HIDE DEF upTo
  <2>1. Cardinality(upTo) <= Cardinality(window)
    BY <1>2, <1>3, FS_Subset
  <2> QED
    BY <2>1, <1>3
<1>5. n \in rows /\ \A m \in upTo : command[m].state \in CommandTerminal
  BY DEF Rows
<1> QED
  BY <1>4, <1>5 DEF Reported

(* Steps of the thread that leave the commands and their acknowledgement   *)
(* alone, and so do the control plane's.                                   *)
LEMMA CommandsUntouched ==
  ASSUME CommandsInv, UNCHANGED <<command, acknowledged, answer>>,
         issued' \in Nat, issued' >= issued, issued' <= Cardinality(Sequence), agent' \in AgentThread,
         ResponseInv'
  PROVE  CommandsInv'
<1>1. CommandsTypeOK'
  BY SMT, SequenceIs DEF CommandsInv, CommandsTypeOK
<1>2. Rows' = Rows
  BY DEF Rows
<1>3. HistoryInv'
  BY <1>2 DEF CommandsInv, HistoryInv
<1>4. NoResultIsLost'
  BY DEF CommandsInv, NoResultIsLost
<1> QED
  BY <1>1, <1>3, <1>4 DEF CommandsInv

LEMMA OutsideResponse ==
  ASSUME CommandsInv, UNCHANGED <<command, acknowledged, answer, issued>>, agent' \in AgentThread,
         agent'.at \in {"idle", "execute", "exchange"}
  PROVE  CommandsInv'
<1>1. ResponseInv'
  BY DEF ResponseInv
<1>2. issued' \in Nat /\ issued' >= issued /\ issued' <= Cardinality(Sequence)
  BY SMT DEF CommandsInv, CommandsTypeOK
<1> QED
  BY <1>1, <1>2, CommandsUntouched

LEMMA ControlPlaneKeeps ==
  ASSUME CommandsInv, Issue \/ (\E n \in Sequence : Withdraw(n))
  PROVE  CommandsInv'
<1>1. /\ UNCHANGED <<command, acknowledged, answer, agent>>
      /\ issued' = issued \/ (issued' = issued + 1 /\ issued < Cardinality(Sequence))
  BY DEF Issue, Withdraw, hostVars
<1>2. issued' \in Nat /\ issued' >= issued /\ issued' <= Cardinality(Sequence)
  BY SMT, <1>1, SequenceIs DEF CommandsInv, CommandsTypeOK
<1>3. agent' \in AgentThread /\ Reported' = Reported
  BY <1>1 DEF CommandsInv, CommandsTypeOK, Reported
<1>4. ResponseInv'
  <2>1. agent.ack \in Nat /\ agent.upto \in Nat /\ issued \in Nat
    BY DEF CommandsInv, CommandsTypeOK, AgentThread
  <2>2. \A k \in Nat : k <= issued => k <= issued'
    BY SMT, <1>2, <2>1
  <2> QED
    BY <1>1, <1>3, <2>1, <2>2 DEF CommandsInv, ResponseInv
<1> QED
  BY <1>1, <1>2, <1>3, <1>4, CommandsUntouched

LEMMA RepliesKeep ==
  ASSUME CommandsInv, ControlPlaneReplies
  PROVE  CommandsInv'
<1> DEFINE S == {k \in 0..issued : \A n \in 1..k : Closed(n)'}
           U(c) == {k \in c..issued : k <= c + Batch /\ ((c + 1)..k) \cap withdrawn = {}}
<1>0. /\ UNCHANGED <<issued, withdrawn, command, acknowledged>>
      /\ issued \in Nat /\ Batch \in Nat /\ agent \in AgentThread
  BY SequenceIs DEF ControlPlaneReplies, hostVars, CommandsInv, CommandsTypeOK
<1>1. S \in SUBSET Nat /\ 0 \in S /\ \A k \in S : k <= issued
  BY SMT, <1>0
<1>2. ClosedPrefix' = Max(S)
  BY <1>0 DEF ClosedPrefix
<1>3. Max(S) \in S
  BY <1>0, <1>1, MaxOfBounded
<1>4. PICK c \in Nat : c = ClosedPrefix' /\ c <= issued
  BY <1>1, <1>2, <1>3
<1>5. U(c) \in SUBSET Nat /\ c \in U(c) /\ \A k \in U(c) : k <= issued
  <2>0. c <= issued /\ issued \in Nat /\ Batch \in Nat
    BY <1>0, <1>4
  <2>1. ((c + 1)..c) \cap withdrawn = {}
    BY SMT
  <2>2. c <= c + Batch /\ c \in c..issued
    BY SMT, <2>0
  <2>3. c \in U(c)
    BY <2>1, <2>2
  <2>4. \A k \in c..issued : k \in Nat /\ k <= issued
    BY SMT, <2>0
  <2> QED
    BY <2>3, <2>4
<1> HIDE DEF U
<1>6. Max(U(c)) \in U(c)
  <2>1. U(c) # {}
    BY <1>5
  <2> QED
    BY <2>1, <1>0, <1>5, MaxOfBounded
<1>7. PICK u \in Nat : u = Max(U(c)) /\ u <= issued /\ u <= c + Batch
  BY <1>5, <1>6 DEF U
<1>8. agent' = [agent EXCEPT !.at = "response", !.ack = c, !.next = c + 1, !.upto = u]
  BY <1>4, <1>7 DEF ControlPlaneReplies, U
<1>9. /\ agent' \in AgentThread /\ agent'.at = "response" /\ agent'.ack = c /\ agent'.next = c + 1
      /\ agent'.upto = u
  <2>1. PICK d \in Nat : d = c + 1
    BY SMT
  <2>2. agent' = [agent EXCEPT !.at = "response", !.ack = c, !.next = d, !.upto = u]
    BY <1>8, <2>1
  <2> QED
    BY <1>0, <1>7, <2>1, <2>2 DEF AgentThread
<1>10. answer' = [n \in Sequence |-> IF n \in Reported THEN command[n].state ELSE answer[n]]
  BY DEF ControlPlaneReplies
<1>11. \A n \in Reported : n \in Sequence /\ n \in Rows /\ command[n].state \in CommandTerminal /\ n \in Nat
  <2> SUFFICES ASSUME NEW n \in Reported
               PROVE  n \in Sequence /\ n \in Rows /\ command[n].state \in CommandTerminal /\ n \in Nat
    OBVIOUS
  <2>1. n \in Sequence /\ n \in Rows /\ n \in Nat
    BY SMT, SequenceIs DEF Reported, Rows
  <2> QED
    BY SMT, <2>1 DEF Reported
<1>12. answer' \in [Sequence -> {"none"} \cup CommandTerminal]
  BY <1>10, <1>11 DEF CommandsInv, CommandsTypeOK
<1>13. CommandsTypeOK'
  BY <1>0, <1>9, <1>12 DEF CommandsInv, CommandsTypeOK
<1>14. Reported' = Reported /\ Rows' = Rows
  BY <1>0 DEF Reported, Rows
<1>15. "none" \notin CommandTerminal
  BY DEF CommandTerminal
<1>16. ResponseInv'
  <2>1. \A n \in Reported' : answer'[n] # "none"
    BY <1>10, <1>11, <1>14, <1>15
  <2>2. agent'.next >= 1 /\ agent'.ack <= issued' /\ agent'.upto <= issued' /\ agent'.upto <= agent'.ack + Batch
    <3>1. c + 1 >= 1
      BY SMT
    <3>2. issued' = issued /\ c <= issued
      BY <1>0, <1>4
    <3> QED
      BY <1>7, <1>9, <3>1, <3>2
  <2>3. agent'.at = "response"
    BY <1>9
  <2> QED
    BY <2>1, <2>2, <2>3 DEF ResponseInv
<1>17. HistoryInv'
  BY <1>0, <1>10, <1>14 DEF CommandsInv, HistoryInv
<1>18. NoResultIsLost'
  <2> SUFFICES ASSUME NEW n \in 1..acknowledged, command[n].state # "none" PROVE answer'[n] = command[n].state
    BY <1>0 DEF NoResultIsLost
  <2>1. n \in Sequence /\ answer[n] = command[n].state
    BY SMT, SequenceIs DEF CommandsInv, CommandsTypeOK, NoResultIsLost
  <2> QED
    BY <2>1, <1>10
<1> QED
  BY <1>13, <1>16, <1>17, <1>18 DEF CommandsInv

LEMMA AcknowledgeKeeps ==
  ASSUME CommandsInv, Acknowledge
  PROVE  CommandsInv'
<1>1. /\ agent.at = "response" /\ agent \in AgentThread /\ acknowledged \in Nat /\ agent.ack \in Nat
      /\ agent.ack <= issued /\ acknowledged <= issued /\ issued \in Nat
      /\ UNCHANGED <<issued, answer, command>>
  BY DEF Acknowledge, controlVars, CommandsInv, CommandsTypeOK, AgentThread, ResponseInv
<1>2. ASSUME UNCHANGED acknowledged, agent' = IdleAgent PROVE CommandsInv'
  <2>1. IdleAgent \in AgentThread /\ IdleAgent.at = "idle"
    BY DEF IdleAgent, AgentThread
  <2> QED
    BY <1>1, <1>2, <2>1, OutsideResponse
<1>3. ASSUME AgentGoes("prune"), acknowledged' \in Nat, agent.ack <= acknowledged' PROVE ResponseInv' /\ agent' \in AgentThread
  <2>1. /\ agent' \in AgentThread /\ agent'.at = "prune" /\ agent'.next = agent.next /\ agent'.ack = agent.ack
        /\ agent'.upto = agent.upto
    BY <1>1, <1>3 DEF AgentGoes, AgentThread
  <2> QED
    BY <1>1, <1>3, <2>1 DEF CommandsInv, ResponseInv
<1>4. CASE agent.ack <= acknowledged
  <2>1. UNCHANGED acknowledged /\ AgentGoes("prune")
    BY <1>4 DEF Acknowledge
  <2>2. ResponseInv' /\ agent' \in AgentThread
    BY <1>1, <1>3, <1>4, <2>1
  <2>3. issued' \in Nat /\ issued' >= issued /\ issued' <= Cardinality(Sequence)
    BY SMT, <1>1 DEF CommandsInv, CommandsTypeOK
  <2> QED
    BY <1>1, <2>1, <2>2, <2>3, CommandsUntouched
<1>5. CASE ~(agent.ack <= acknowledged) /\ \E n \in 1..agent.ack : command[n].state \in {"accepted", "running"}
  <2>1. UNCHANGED acknowledged /\ agent' = IdleAgent
    BY <1>5 DEF Acknowledge
  <2> QED
    BY <2>1, <1>2
<1>6. CASE ~(agent.ack <= acknowledged) /\ ~\E n \in 1..agent.ack : command[n].state \in {"accepted", "running"}
  <2>1. acknowledged' = agent.ack /\ AgentGoes("prune")
    BY <1>6 DEF Acknowledge
  <2>2. ResponseInv' /\ agent' \in AgentThread
    BY SMT, <1>1, <1>3, <2>1
  <2>3. CommandsTypeOK'
    BY <1>1, <2>1, <2>2 DEF CommandsInv, CommandsTypeOK
  <2>4. Rows' = Rows /\ \A n \in Rows : n \in Nat /\ n \in Sequence /\ n >= 1
    BY SMT, <1>1, SequenceIs DEF Rows
  <2>5. acknowledged <= acknowledged' /\ acknowledged' \in Nat /\ Batch \in Nat
    BY SMT, <1>1, <1>6, <2>1, SequenceIs
  <2>6. HistoryInv'
    <3>1. \A n \in Rows : n <= acknowledged' + Batch
      <4> SUFFICES ASSUME NEW n \in Rows PROVE n <= acknowledged' + Batch
        OBVIOUS
      <4>1. n <= acknowledged + Batch /\ n \in Nat
        BY <2>4 DEF CommandsInv, HistoryInv
      <4>2. PICK a \in Nat : a = acknowledged'
        BY <2>5
      <4>3. acknowledged <= a /\ acknowledged \in Nat /\ Batch \in Nat
        BY <4>2, <2>5, <1>1
      <4>4. n <= a + Batch
        BY SMT, <4>1, <4>3
      <4> QED
        BY <4>2, <4>4
    <3>2. \A n \in Rows : n = 1 \/ n - 1 \in Rows \/ n - 1 <= acknowledged'
      <4> SUFFICES ASSUME NEW n \in Rows, n - 1 <= acknowledged PROVE n - 1 <= acknowledged'
        BY DEF CommandsInv, HistoryInv
      <4>1. n \in Nat
        BY <2>4
      <4> QED
        BY SMT, <4>1, <2>5, <1>1
    <3> QED
      BY <3>1, <3>2, <2>4, <1>1 DEF CommandsInv, HistoryInv
  <2>7. ASSUME NEW n \in 1..acknowledged', command[n].state # "none" PROVE answer[n] = command[n].state
    <3>1. CASE n \in 1..acknowledged
      BY <3>1, <2>7 DEF CommandsInv, NoResultIsLost
    <3>2. CASE n \notin 1..acknowledged
      <4>1. n \in Nat /\ n > acknowledged /\ n \in 1..agent.ack
        BY SMT, <3>2, <2>1, <1>1
      <4>2. n \in Sequence /\ n \in Rows
        BY SMT, <4>1, <2>7, <1>1, SequenceIs DEF CommandsInv, CommandsTypeOK, Rows
      <4>3. ASSUME NEW m \in Rows, m > acknowledged, m <= n PROVE command[m].state \in CommandTerminal
        <5>1. m \in 1..agent.ack
          <6>1. m \in Nat /\ m >= 1 /\ n \in Nat /\ n <= agent.ack /\ m <= n /\ agent.ack \in Nat
            BY SMT, <4>1, <4>3, <2>4, <1>1
          <6> QED
            BY SMT, <6>1
        <5>2. command[m].state \notin {"none", "accepted", "running"} /\ command[m] \in CommandRow
          BY <5>1, <1>6, <4>3 DEF Rows, CommandsInv, CommandsTypeOK
        <5> QED
          BY <5>2 DEF CommandRow
      <4>4. n \in Reported
        BY <4>1, <4>2, <4>3, EndedIsReported
      <4>5. answer[n] # "none"
        BY <4>4, <1>1 DEF CommandsInv, ResponseInv
      <4> QED
        BY <4>2, <4>5 DEF CommandsInv, HistoryInv
    <3> QED
      BY <3>1, <3>2
  <2>8. NoResultIsLost'
    BY <2>7, <1>1 DEF NoResultIsLost
  <2> QED
    BY <2>2, <2>3, <2>6, <2>8 DEF CommandsInv
<1> QED
  BY <1>4, <1>5, <1>6

(* Steps within a response that only prepare a payload.                    *)
LEMMA PreparingKeeps ==
  ASSUME CommandsInv, Prune \/ Prepare \/ WriteBundle
  PROVE  CommandsInv'
<1>1. agent \in AgentThread /\ UNCHANGED <<issued, answer, command, acknowledged>>
  BY DEF Prune, Prepare, WriteBundle, controlVars, CommandsInv, CommandsTypeOK
<1>2. /\ agent.at \in {"prune", "prepare", "write"}
      /\ agent' \in AgentThread /\ agent'.next = agent.next /\ agent'.ack = agent.ack /\ agent'.upto = agent.upto
      /\ \/ agent'.at = "prepare"
         \/ agent'.at \in {"write", "accept"} /\ agent.next <= agent.upto
  <2>1. CASE Prune
    BY <1>1, <2>1 DEF Prune, AgentGoes, AgentThread
  <2>2. CASE Prepare
    <3>1. agent.at = "prepare" /\ agent.next <= agent.upto
      BY <2>2 DEF Prepare
    <3>2. AgentGoes("write") \/ \E ok \in BOOLEAN : agent' = [agent EXCEPT !.at = "accept", !.ok = ok]
      BY <2>2 DEF Prepare
    <3>3. CASE AgentGoes("write")
      BY <1>1, <3>1, <3>3 DEF AgentGoes, AgentThread
    <3>4. ASSUME NEW ok \in BOOLEAN, agent' = [agent EXCEPT !.at = "accept", !.ok = ok]
          PROVE  /\ agent' \in AgentThread /\ agent'.next = agent.next /\ agent'.ack = agent.ack
                 /\ agent'.upto = agent.upto /\ agent'.at = "accept"
      BY <1>1, <3>4 DEF AgentThread
    <3> QED
      BY <3>1, <3>2, <3>3, <3>4
  <2>3. CASE WriteBundle
    <3>1. agent.at = "write" /\ agent.next <= agent.upto
      BY <2>3 DEF WriteBundle, CommandsInv, ResponseInv
    <3> QED
      BY <1>1, <2>3, <3>1 DEF WriteBundle, AgentThread
  <2> QED
    BY <2>1, <2>2, <2>3
<1>3. ResponseInv'
  BY <1>1, <1>2 DEF CommandsInv, ResponseInv
<1>4. issued' \in Nat /\ issued' >= issued /\ issued' <= Cardinality(Sequence)
  BY SMT, <1>1 DEF CommandsInv, CommandsTypeOK
<1> QED
  BY <1>1, <1>2, <1>3, <1>4, CommandsUntouched

(* A command that is accepted next, started or ended, outside the report   *)
(* of results.                                                             *)
LEMMA CommandMoves ==
  ASSUME CommandsInv, UNCHANGED <<issued, answer, acknowledged>>, agent' \in AgentThread, ResponseInv',
         NEW n \in Sequence, NEW row \in CommandRow, row.state # "none", command' = [command EXCEPT ![n] = row],
         \/ command[n].state \in {"accepted", "running"}
         \/ /\ command[n].state = "none"
            /\ n > acknowledged /\ n <= acknowledged + Batch
            /\ n = 1 \/ n - 1 \in Rows \/ n - 1 <= acknowledged
  PROVE  CommandsInv'
<1>1. /\ command' \in [Sequence -> CommandRow] /\ command'[n] = row
      /\ \A m \in Sequence : m # n => command'[m] = command[m]
  BY DEF CommandsInv, CommandsTypeOK
<1>2. CommandsTypeOK'
  BY <1>1 DEF CommandsInv, CommandsTypeOK
<1>3. Rows' = Rows \cup {n} /\ (command[n].state # "none" => n \in Rows)
  BY <1>1 DEF Rows
<1>4. answer[n] = "none"
  BY DEF CommandsInv, CommandsTypeOK, HistoryInv, CommandTerminal
<1>5. n \notin 1..acknowledged
  <2>1. n \in Nat /\ acknowledged \in Nat
    BY SMT, SequenceIs DEF CommandsInv, CommandsTypeOK
  <2>2. CASE n > acknowledged
    BY SMT, <2>1, <2>2
  <2>3. CASE command[n].state \in {"accepted", "running"}
    BY <1>4, <2>3 DEF CommandsInv, NoResultIsLost
  <2> QED
    BY <2>2, <2>3
<1>6. HistoryInv'
  <2>1. ASSUME NEW m \in Rows' PROVE m <= acknowledged + Batch /\ (m = 1 \/ m - 1 \in Rows' \/ m - 1 <= acknowledged)
    <3>1. CASE m \in Rows
      BY <3>1, <1>3 DEF CommandsInv, HistoryInv
    <3>2. CASE m = n /\ n \notin Rows
      <4>1. command[n].state = "none"
        BY <3>2, <1>3
      <4> QED
        BY <4>1, <3>2, <1>3
    <3> QED
      BY <3>1, <3>2, <1>3
  <2>2. \A m \in Sequence : answer[m] # "none" => answer[m] = command'[m].state
    BY <1>1, <1>4 DEF CommandsInv, HistoryInv
  <2> QED
    BY <2>1, <2>2 DEF HistoryInv
<1>7. NoResultIsLost'
  <2> SUFFICES ASSUME NEW m \in 1..acknowledged, command'[m].state # "none" PROVE answer[m] = command'[m].state
    BY DEF NoResultIsLost
  <2>1. m # n /\ m \in Sequence
    BY SMT, <1>5, SequenceIs DEF CommandsInv, CommandsTypeOK
  <2> QED
    BY <2>1, <1>1 DEF CommandsInv, NoResultIsLost
<1> QED
  BY <1>2, <1>6, <1>7 DEF CommandsInv

LEMMA NextIsNew ==
  ASSUME CommandsInv
  PROVE  /\ NextSequence \in Nat /\ NextSequence > acknowledged
         /\ NextSequence = 1 \/ NextSequence - 1 \in Rows \/ NextSequence - 1 <= acknowledged
<1> DEFINE S == {0} \cup {n \in Sequence : command[n].state # "none"}
<1>1. acknowledged \in Nat /\ Cardinality(Sequence) \in Nat /\ Sequence = 1..Cardinality(Sequence)
  BY SequenceIs DEF CommandsInv, CommandsTypeOK
<1>2. S \in SUBSET Nat /\ S # {} /\ \A n \in S : n <= Cardinality(Sequence)
  BY SMT, <1>1
<1>3. LastAccepted \in S
  <2>1. Max(S) \in S
    BY <1>1, <1>2, MaxOfBounded
  <2> QED
    BY <2>1 DEF LastAccepted
<1>4. LastAccepted = 0 \/ LastAccepted \in Rows
  BY <1>3 DEF Rows
<1>5. LastAccepted \in Nat
  BY <1>2, <1>3
<1> DEFINE T == {LastAccepted, acknowledged}
<1>6. Max(T) \in T /\ Max(T) >= acknowledged
  <2>1. T \in SUBSET Nat /\ T # {} /\ acknowledged \in T
    BY <1>1, <1>5
  <2>2. \A n \in T : n <= LastAccepted + acknowledged
    BY SMT, <1>1, <1>5
  <2>3. LastAccepted + acknowledged \in Nat
    BY SMT, <1>1, <1>5
  <2> HIDE DEF T
  <2>4. Max(T) \in T /\ \A n \in T : n <= Max(T)
    BY <2>1, <2>2, <2>3, MaxOfBounded
  <2> QED
    BY <2>1, <2>4
<1>7. PICK m \in Nat : m = Max(T)
  BY <1>1, <1>5, <1>6
<1>8. NextSequence = m + 1
  BY <1>7 DEF NextSequence
<1>9. m >= acknowledged /\ (m = 0 \/ m \in Rows \/ m <= acknowledged)
  <2>1. m = LastAccepted \/ m = acknowledged
    BY <1>6, <1>7
  <2> QED
    BY <2>1, <1>1, <1>4, <1>6, <1>7
<1>10. m + 1 \in Nat /\ m + 1 > acknowledged /\ (m + 1) - 1 = m /\ (m = 0 => m + 1 = 1)
  BY SMT, <1>1, <1>9
<1> QED
  BY <1>8, <1>9, <1>10

LEMMA AcceptKeeps ==
  ASSUME CommandsInv, Accept
  PROVE  CommandsInv'
<1>1. /\ agent.at = "accept" /\ agent \in AgentThread /\ UNCHANGED <<issued, answer, acknowledged>>
      /\ issued \in Nat /\ issued <= Cardinality(Sequence) /\ acknowledged \in Nat
  BY DEF Accept, controlVars, CommandsInv, CommandsTypeOK
<1>2. /\ agent.next \in Nat /\ agent.upto \in Nat /\ agent.ack \in Nat /\ agent.ok \in BOOLEAN
      /\ agent.next >= 1 /\ agent.ack <= issued /\ agent.upto <= issued /\ agent.upto <= agent.ack + Batch
      /\ agent.ack <= acknowledged /\ agent.next <= agent.upto
  BY <1>1 DEF CommandsInv, ResponseInv, AgentThread
<1>3. PICK n \in Sequence : n = agent.next
  <2>1. agent.next <= Cardinality(Sequence)
    BY SMT, <1>1, <1>2, SequenceIs
  <2> QED
    BY SMT, <2>1, <1>2, SequenceIs
<1>4. n \in Nat /\ n <= acknowledged + Batch
  BY SMT, <1>1, <1>2, <1>3, SequenceIs
<1>5. CASE UNCHANGED command /\ agent' = IdleAgent
  <2>1. IdleAgent \in AgentThread /\ IdleAgent.at = "idle"
    BY DEF IdleAgent, AgentThread
  <2> QED
    BY <1>1, <1>5, <2>1, OutsideResponse
<1>6. ASSUME agent' = [agent EXCEPT !.at = IF agent.ok THEN "prepare" ELSE "reject",
                                   !.next = IF agent.ok THEN n + 1 ELSE n],
             command'[n].state # "none"
      PROVE  agent' \in AgentThread /\ ResponseInv'
  <2>1. PICK k \in Nat : k = IF agent.ok THEN n + 1 ELSE n
    BY SMT, <1>4
  <2>2. PICK at \in {"prepare", "reject"} : at = IF agent.ok THEN "prepare" ELSE "reject"
    OBVIOUS
  <2>3. agent' = [agent EXCEPT !.at = at, !.next = k]
    BY <1>6, <2>1, <2>2
  <2>4. /\ agent' \in AgentThread /\ agent'.at = at /\ agent'.next = k /\ agent'.ack = agent.ack
        /\ agent'.upto = agent.upto
    BY <1>1, <2>3 DEF AgentThread
  <2>5. k >= 1 /\ (at = "reject" => k <= agent.upto /\ k = n)
    BY SMT, <1>2, <1>3, <1>4, <2>1, <2>2
  <2> QED
    BY <1>1, <1>2, <1>6, <2>4, <2>5 DEF ResponseInv
<1>7. CASE ~(UNCHANGED command /\ agent' = IdleAgent)
  <2>1. /\ IF command[n].state # "none" THEN command' = command
           ELSE n = NextSequence /\ command' = [command EXCEPT ![n] = [state |-> "accepted", prepared |-> agent.ok]]
        /\ agent' = [agent EXCEPT !.at = IF agent.ok THEN "prepare" ELSE "reject",
                                  !.next = IF agent.ok THEN n + 1 ELSE n]
    BY <1>3, <1>7 DEF Accept
  <2>2. command'[n].state # "none"
    BY SMT, <2>1 DEF CommandsInv, CommandsTypeOK
  <2>3. agent' \in AgentThread /\ ResponseInv'
    BY <2>1, <2>2, <1>6
  <2>4. CASE command[n].state # "none"
    <3>1. issued' \in Nat /\ issued' >= issued /\ issued' <= Cardinality(Sequence)
      BY SMT, <1>1 DEF CommandsInv, CommandsTypeOK
    <3> QED
      BY <2>1, <2>3, <2>4, <3>1, <1>1, CommandsUntouched
  <2>5. CASE command[n].state = "none"
    <3>1. PICK row \in CommandRow : row = [state |-> "accepted", prepared |-> agent.ok]
      BY <1>2 DEF CommandRow
    <3>2. row.state # "none" /\ command' = [command EXCEPT ![n] = row] /\ n = NextSequence
      BY <2>1, <2>5, <3>1
    <3>3. n > acknowledged /\ (n = 1 \/ n - 1 \in Rows \/ n - 1 <= acknowledged)
      BY <3>2, NextIsNew
    <3> QED
      BY <1>1, <1>4, <2>3, <2>5, <3>2, <3>3, CommandMoves
  <2> QED
    BY <2>4, <2>5
<1> QED
  BY <1>5, <1>7

LEMMA RejectKeeps ==
  ASSUME CommandsInv, Reject
  PROVE  CommandsInv'
<1>1. /\ agent.at = "reject" /\ agent \in AgentThread /\ UNCHANGED <<issued, answer, acknowledged>>
      /\ issued \in Nat /\ issued <= Cardinality(Sequence) /\ acknowledged \in Nat
  BY DEF Reject, controlVars, CommandsInv, CommandsTypeOK
<1>2. /\ agent.next \in Nat /\ agent.upto \in Nat /\ agent.ack \in Nat
      /\ agent.next >= 1 /\ agent.ack <= issued /\ agent.upto <= issued /\ agent.upto <= agent.ack + Batch
      /\ agent.ack <= acknowledged /\ agent.next <= agent.upto /\ command[agent.next].state # "none"
  BY <1>1 DEF CommandsInv, ResponseInv, AgentThread
<1>3. PICK n \in Sequence : n = agent.next
  <2>1. agent.next <= Cardinality(Sequence)
    BY SMT, <1>1, <1>2, SequenceIs
  <2> QED
    BY SMT, <2>1, <1>2, SequenceIs
<1>4. agent' \in AgentThread /\ ResponseInv'
  <2>1. PICK k \in Nat : k = agent.next + 1
    BY SMT, <1>2
  <2>2. agent' = [agent EXCEPT !.at = "prepare", !.next = k]
    BY <2>1 DEF Reject
  <2>3. /\ agent' \in AgentThread /\ agent'.at = "prepare" /\ agent'.next = k /\ agent'.ack = agent.ack
        /\ agent'.upto = agent.upto
    BY <1>1, <2>2 DEF AgentThread
  <2>4. k >= 1
    BY SMT, <1>2, <2>1
  <2> QED
    BY <1>1, <1>2, <2>3, <2>4 DEF ResponseInv
<1>5. command[n] \in CommandRow
  BY DEF CommandsInv, CommandsTypeOK
<1>6. CASE command[n].state \in CommandTerminal
  <2>1. command' = command
    BY <1>3, <1>5, <1>6 DEF Reject, CommandRow, CommandsInv, CommandsTypeOK
  <2>2. issued' \in Nat /\ issued' >= issued /\ issued' <= Cardinality(Sequence)
    BY SMT, <1>1
  <2> QED
    BY <1>1, <1>4, <2>1, <2>2, CommandsUntouched
<1>7. CASE command[n].state \notin CommandTerminal
  <2>1. command[n].state \in {"accepted", "running"}
    BY <1>2, <1>3, <1>5, <1>7 DEF CommandRow
  <2>2. PICK row \in CommandRow : row = [command[n] EXCEPT !.state = "failed"]
    BY <1>5 DEF CommandRow, CommandTerminal
  <2>3. row.state # "none" /\ command' = [command EXCEPT ![n] = row]
    BY <1>3, <1>5, <1>7, <2>2 DEF Reject, CommandRow, CommandsInv, CommandsTypeOK
  <2> QED
    BY <1>1, <1>4, <2>1, <2>3, CommandMoves
<1> QED
  BY <1>6, <1>7

(* The least member of a set of naturals is its Min.                       *)
LEMMA MinOfNaturals ==
  ASSUME NEW S \in SUBSET Nat, S # {}
  PROVE  Min(S) \in S
<1> DEFINE P(x) == \A y \in S : x <= y
<1>1. PICK x \in S : P(x)
  BY LeastNatural
<1> HIDE DEF P
<1>2. (CHOOSE y \in S : P(y)) \in S
  BY <1>1
<1> QED
  BY <1>2 DEF Min, P

LEMMA MarkRunningKeeps ==
  ASSUME CommandsInv, MarkRunning
  PROVE  CommandsInv'
<1>1. agent \in AgentThread /\ UNCHANGED <<issued, answer, acknowledged>> /\ Pending # {}
  BY DEF MarkRunning, controlVars, CommandsInv, CommandsTypeOK
<1>2. Pending \in SUBSET Nat
  BY SMT, SequenceIs DEF Pending
<1>3. PICK n \in Pending : n = Min(Pending)
  BY <1>1, <1>2, MinOfNaturals
<1>4. n \in Sequence /\ n \in Nat /\ command[n].state \in {"accepted", "running"} /\ command[n] \in CommandRow
  BY <1>2 DEF Pending, CommandsInv, CommandsTypeOK
<1>5. PICK row \in CommandRow : row = [command[n] EXCEPT !.state = "running"]
  BY <1>4 DEF CommandRow
<1>6. row.state = "running" /\ command' = [command EXCEPT ![n] = row]
  BY <1>3, <1>4, <1>5 DEF MarkRunning, CommandRow, CommandsInv, CommandsTypeOK
<1>7. agent' \in AgentThread /\ agent'.at = "effect" /\ agent'.next = n
  BY <1>1, <1>3, <1>4 DEF MarkRunning, AgentThread
<1>8. command'[n] = row
  BY <1>4, <1>6 DEF CommandsInv, CommandsTypeOK
<1>9. ResponseInv'
  BY <1>4, <1>6, <1>7, <1>8 DEF ResponseInv
<1> QED
  BY <1>1, <1>4, <1>6, <1>7, <1>9, CommandMoves

LEMMA ExecuteKeeps ==
  ASSUME CommandsInv, Execute
  PROVE  CommandsInv'
<1>1. agent.at = "effect" /\ agent \in AgentThread /\ UNCHANGED <<issued, answer, acknowledged, command>>
  BY DEF Execute, controlVars, CommandsInv, CommandsTypeOK
<1>2. PICK result \in {"succeeded", "failed"} : agent' = [agent EXCEPT !.at = "complete", !.result = result]
  BY DEF Execute
<1>3. agent' \in AgentThread /\ agent'.at = "complete" /\ agent'.next = agent.next /\ agent'.result \in CommandTerminal
  BY <1>1, <1>2 DEF AgentThread, CommandTerminal
<1>4. ResponseInv'
  BY <1>1, <1>3 DEF CommandsInv, ResponseInv
<1>5. issued' \in Nat /\ issued' >= issued /\ issued' <= Cardinality(Sequence)
  BY SMT, <1>1 DEF CommandsInv, CommandsTypeOK
<1> QED
  BY <1>1, <1>3, <1>4, <1>5, CommandsUntouched

LEMMA LeavesTo ==
  ASSUME Leaves
  PROVE  agent' \in AgentThread /\ agent'.at \in {"idle", "exchange"}
<1>1. IdleAgent \in AgentThread /\ IdleAgent.at = "idle"
  BY DEF IdleAgent, AgentThread
<1>2. [IdleAgent EXCEPT !.at = "exchange"] \in AgentThread /\ [IdleAgent EXCEPT !.at = "exchange"].at = "exchange"
  BY DEF IdleAgent, AgentThread
<1> QED
  BY <1>1, <1>2 DEF Leaves

LEMMA CompleteCommandKeeps ==
  ASSUME CommandsInv, CompleteCommand
  PROVE  CommandsInv'
<1>1. agent.at = "complete" /\ agent \in AgentThread /\ UNCHANGED <<issued, answer, acknowledged>>
  BY DEF CompleteCommand, controlVars, CommandsInv, CommandsTypeOK
<1>2. /\ agent.next \in Sequence /\ command[agent.next].state = "running" /\ agent.result \in CommandTerminal
  BY <1>1 DEF CommandsInv, ResponseInv
<1>3. PICK n \in Sequence : n = agent.next
  BY <1>2
<1>4. command[n] \in CommandRow
  BY DEF CommandsInv, CommandsTypeOK
<1>5. PICK row \in CommandRow : row = [command[n] EXCEPT !.state = agent.result]
  BY <1>2, <1>4 DEF CommandRow
<1>6. row.state # "none" /\ command' = [command EXCEPT ![n] = row]
  BY <1>2, <1>3, <1>4, <1>5 DEF CompleteCommand, CommandRow, CommandTerminal, CommandsInv, CommandsTypeOK
<1>7. agent' \in AgentThread /\ agent'.at \in {"idle", "exchange", "execute"}
  <2>1. CASE AgentGoes("execute")
    BY <1>1, <2>1 DEF AgentGoes, AgentThread
  <2>2. CASE Leaves
    BY <2>2, LeavesTo
  <2> QED
    BY <2>1, <2>2 DEF CompleteCommand
<1>8. ResponseInv'
  BY <1>7 DEF ResponseInv
<1> QED
  BY <1>1, <1>2, <1>3, <1>6, <1>7, <1>8, CommandMoves

LEMMA CommandsKeep == CommandsInv /\ [CommandsNext]_commandsVars => CommandsInv'
<1> SUFFICES ASSUME CommandsInv, [CommandsNext]_commandsVars PROVE CommandsInv'
  OBVIOUS
<1>1. IdleAgent \in AgentThread /\ IdleAgent.at = "idle"
  BY DEF IdleAgent, AgentThread
<1>2. agent \in AgentThread
  BY DEF CommandsInv, CommandsTypeOK
<1>3. CASE Wake \/ ResponseAccepted
  <2>1. UNCHANGED <<command, acknowledged, answer, issued>>
    BY <1>3 DEF Wake, ResponseAccepted, controlVars, hostVars
  <2>2. agent' \in AgentThread /\ agent'.at = "execute"
    <3>1. CASE Wake
      BY <3>1 DEF Wake, IdleAgent, AgentThread
    <3>2. CASE ResponseAccepted
      BY <1>2, <3>2 DEF ResponseAccepted, AgentThread
    <3> QED
      BY <1>3, <3>1, <3>2
  <2> QED
    BY <2>1, <2>2, OutsideResponse
<1>4. CASE ExchangeFails \/ AgentDies \/ Restart
  <2>1. UNCHANGED <<command, acknowledged, answer, issued>> /\ agent' = IdleAgent
    BY <1>4 DEF ExchangeFails, AgentDies, Restart, controlVars, hostVars
  <2> QED
    BY <2>1, <1>1, OutsideResponse
<1>5. CASE NothingPending
  <2>1. UNCHANGED <<command, acknowledged, answer, issued>> /\ Leaves
    BY <1>5 DEF NothingPending, controlVars, hostVars
  <2> QED
    BY <2>1, LeavesTo, OutsideResponse
<1>6. CASE UNCHANGED commandsVars
  <2>1. UNCHANGED <<command, acknowledged, answer, issued, agent>>
    BY <1>6 DEF commandsVars, controlVars, hostVars
  <2>2. Reported' = Reported
    BY <2>1 DEF Reported
  <2>3. ResponseInv'
    BY <2>1, <2>2 DEF CommandsInv, ResponseInv
  <2>4. issued' \in Nat /\ issued' >= issued /\ issued' <= Cardinality(Sequence)
    BY SMT, <2>1 DEF CommandsInv, CommandsTypeOK
  <2> QED
    BY <2>1, <2>3, <2>4, <1>2, CommandsUntouched
<1> QED
  BY <1>3, <1>4, <1>5, <1>6, ControlPlaneKeeps, RepliesKeep, AcknowledgeKeeps, PreparingKeeps, AcceptKeeps,
     RejectKeeps, MarkRunningKeeps, ExecuteKeeps, CompleteCommandKeeps DEF CommandsNext, AgentStep

(* A result is dropped from the reports only after the control plane has   *)
(* it, for every number of commands and every size of a batch, however     *)
(* exchanges are lost, commands withdrawn and the daemon killed.           *)
THEOREM ResultsAreNotLost == CommandsSpec => []NoResultIsLost
<1>1. CommandsInv => NoResultIsLost
  BY DEF CommandsInv
<1> QED
  BY <1>1, CommandsStart, CommandsKeep, PTL DEF CommandsSpec

(* The checks that opening the journal makes of the command history pass   *)
(* in every state the agent can leave behind.                              *)
THEOREM CommandHistoryReopens == CommandsSpec => []AgentReopens
<1>1. CommandsInv => AgentReopens
  <2> SUFFICES ASSUME CommandsInv PROVE AgentReopens
    OBVIOUS
  <2>1. acknowledged \in Nat /\ Cardinality(Sequence) \in Nat /\ \A n \in Rows : n \in Nat /\ n >= 1 /\ n <= Cardinality(Sequence)
    BY SMT, SequenceIs DEF CommandsInv, CommandsTypeOK, Rows
  <2>2. ASSUME NEW n \in Rows, n <= acknowledged PROVE command[n].state \in CommandTerminal
    <3>1. n \in 1..acknowledged /\ n \in Sequence /\ command[n].state # "none"
      BY SMT, <2>1, <2>2 DEF Rows
    <3>2. answer[n] = command[n].state /\ answer[n] \in {"none"} \cup CommandTerminal
      BY <3>1 DEF CommandsInv, NoResultIsLost, CommandsTypeOK
    <3> QED
      BY <3>1, <3>2
  <2>3. ASSUME NEW n \in Rows, n # Max({0} \cup {m \in Rows : m < n}) + 1 PROVE n - 1 <= acknowledged
    <3> DEFINE S == {0} \cup {m \in Rows : m < n}
    <3>1. S \in SUBSET Nat /\ S # {} /\ (\A m \in S : m <= Cardinality(Sequence)) /\ (\A m \in S : m < n)
      BY SMT, <2>1
    <3>2. Max(S) \in S /\ \A m \in S : m <= Max(S)
      BY <3>1, <2>1, MaxOfBounded
    <3>3. n \in Nat /\ n >= 1 /\ Max(S) \in Nat /\ Max(S) < n
      BY <2>1, <3>1, <3>2
    <3>4. n - 1 \notin S
      <4> SUFFICES ASSUME n - 1 \in S PROVE FALSE
        OBVIOUS
      <4> HIDE DEF S
      <4>1. n - 1 <= Max(S)
        BY <3>2
      <4>2. n = Max(S) + 1
        BY SMT, <3>3, <4>1
      <4> QED
        BY <4>2, <2>3 DEF S
    <3>5. n # 1 /\ n - 1 \notin Rows
      BY SMT, <3>3, <3>4
    <3> QED
      BY <3>5 DEF CommandsInv, HistoryInv
  <2> QED
    BY <2>2, <2>3 DEF AgentReopens, HistoryIsCanonical, AgentStateIsConsistent
<1> QED
  BY <1>1, CommandsStart, CommandsKeep, PTL DEF CommandsSpec

-----------------------------------------------------------------------------
(* The runs of a workload.                                                 *)
RunRow == [state : {"none", "accepted", "running"} \cup RunTerminal, owner : Workers \cup {NoWorker},
           live : BOOLEAN, token : Nat, cancel : BOOLEAN, policy : Policies \cup {"allow"}]

WorkloadThread == [at : {"idle", "inspect", "start", "attached", "wait", "complete"},
                   run : Runs \cup {NoRun}, token : Nat, result : {"none"} \cup RunTerminal]

RunsTypeOK ==
  /\ queue \in Seq(Runs)
  /\ run \in [Runs -> RunRow]
  /\ container \in [Runs -> ContainerStates]
  /\ worker \in [Workers -> WorkloadThread]

Executes(w, r) == worker[w].at # "idle" /\ worker[w].run = r

(* The queue holds the requests that were accepted, each once, and a run   *)
(* accepted under "forbid" only finished ones before it.                   *)
QueueInv ==
  /\ \A r \in Runs : run[r].state # "none" => \E i \in 1..Len(queue) : queue[i] = r
  /\ \A i \in 1..Len(queue) : run[queue[i]].state # "none"
  /\ \A i, j \in 1..Len(queue) : queue[i] = queue[j] => i = j
  /\ \A i, j \in 1..Len(queue) : i < j /\ run[queue[j]].policy = "forbid" => run[queue[i]].state \in RunTerminal

(* A thread that looks for its container or starts it holds the run, or    *)
(* executes alone a run that was cancelled before its first claim.         *)
HoldsRun(w) ==
  IF worker[w].token = 0
  THEN /\ run[worker[w].run].state = "cancelled" /\ run[worker[w].run].token = 0
       /\ \A v \in Workers : Executes(v, worker[w].run) => v = w
  ELSE worker[w].at \in {"inspect", "start"} => Owns(w) /\ run[worker[w].run].live

ThreadOK(w) ==
  /\ worker[w].run \in Runs
  /\ run[worker[w].run].state \notin {"none", "accepted"}
  /\ worker[w].token <= run[worker[w].run].token
  /\ HoldsRun(w)
  /\ worker[w].at = "start" => container[worker[w].run] = "none"
  /\ worker[w].at \in {"attached", "wait"} => container[worker[w].run] \notin {"none", "created"}
  /\ worker[w].at = "complete" =>
       /\ worker[w].result \in RunTerminal
       /\ worker[w].result = "succeeded" => container[worker[w].run] = "exited_0"
       /\ worker[w].result = "failed" => container[worker[w].run] = "exited_1"
       /\ Owns(w) => container[worker[w].run] # "running"

ThreadInv == \A w \in Workers : worker[w].at # "idle" => ThreadOK(w)

(* Before its first claim a run has no container; after its end it has     *)
(* none that runs, unless it was cancelled before its first claim.         *)
RowInv ==
  \A r \in Runs :
    /\ run[r].state \in {"none", "accepted"} => container[r] = "none" /\ run[r].token = 0
    /\ run[r].state # "running" => ~run[r].live
    /\ run[r].state = "running" => run[r].token > 0
    /\ run[r].state \in RunTerminal /\ run[r].token > 0 => container[r] # "running"

RunsInv == RunsTypeOK /\ QueueInv /\ ThreadInv /\ RowInv /\ OutcomesAreTrue

(* The oldest of some accepted runs is one of them.                        *)
LEMMA OldestIsOne ==
  ASSUME RunsTypeOK, QueueInv, NEW rs \in SUBSET Runs, NEW s \in rs, run[s].state # "none"
  PROVE  Oldest(rs) \in rs
<1> DEFINE S == {i \in 1..Len(queue) : queue[i] \in rs}
           P(i) == queue[i] \in rs /\ \A j \in 1..(i - 1) : queue[j] \notin rs
<1>0. Len(queue) \in Nat
  BY SMT DEF RunsTypeOK
<1>1. S \in SUBSET Nat /\ S # {}
  <2>1. PICK i \in 1..Len(queue) : queue[i] = s
    BY DEF QueueInv
  <2>2. i \in S
    BY <2>1
  <2> QED
    BY SMT, <2>2, <1>0
<1>2. PICK n \in S : \A m \in S : n <= m
  BY <1>1, LeastNatural
<1>3. \A j \in 1..(n - 1) : j \in 1..Len(queue) /\ ~(n <= j)
  BY SMT, <1>2 DEF RunsTypeOK
<1>4. n \in 1..Len(queue) /\ P(n)
  BY <1>2, <1>3
<1> HIDE DEF P
<1>5. P(CHOOSE i \in 1..Len(queue) : P(i))
  BY <1>4
<1> QED
  BY <1>5 DEF P, Oldest

LEMMA RunsStart == RunsInit => RunsInv
<1> SUFFICES ASSUME RunsInit PROVE RunsInv
  OBVIOUS
<1>1. NewRow \in RunRow /\ NewRow.state = "none" /\ NewRow.token = 0 /\ ~NewRow.live
  BY DEF NewRow, RunRow
<1>2. IdleWorker \in WorkloadThread /\ IdleWorker.at = "idle"
  BY DEF IdleWorker, WorkloadThread
<1>3. RunsTypeOK
  BY SMT, <1>1, <1>2 DEF RunsInit, RunsTypeOK, ContainerStates
<1>4. QueueInv
  BY SMT, <1>1 DEF RunsInit, QueueInv
<1> QED
  BY <1>1, <1>2, <1>3, <1>4 DEF RunsInit, RunsInv, ThreadInv, RowInv, OutcomesAreTrue

(* A step of thread w that leaves the rows alone: its container may only   *)
(* go on from where it is.                                                 *)
Follows(c, d) ==
  \/ d = c
  \/ c = "none" /\ d \in {"created", "running"}
  \/ c = "running" /\ d \in Exited

(* A run whose container is not started by this step.                      *)
LEMMA ContainerMoves ==
  ASSUME RunsInv, container' \in [Runs -> ContainerStates], UNCHANGED <<queue, run>>,
         \A r \in Runs : Follows(container[r], container'[r]),
         \A r \in Runs : container[r] = "none" /\ container'[r] # "none" =>
            run[r].state \notin {"none", "accepted"} /\ (run[r].state = "running" \/ run[r].token = 0)
  PROVE  RowInv' /\ OutcomesAreTrue' /\ QueueInv'
<1>1. QueueInv'
  BY DEF RunsInv, QueueInv
<1>2. RowInv'
  BY SMT DEF RunsInv, RowInv, Follows, Exited, RunTerminal
<1>3. OutcomesAreTrue'
  BY DEF RunsInv, OutcomesAreTrue, Follows, Exited
<1> QED
  BY <1>1, <1>2, <1>3

(* What a step must leave to a thread that does not take it.               *)
LEMMA ThreadKept ==
  ASSUME RunsInv, NEW v \in Workers, worker[v].at # "idle", worker'[v] = worker[v],
         NEW r \in Runs, r = worker[v].run,
         run' \in [Runs -> RunRow],
         run'[r].state \notin {"none", "accepted"}, run'[r].token >= run[r].token,
         worker[v].token = 0 =>
           /\ run'[r].state = run[r].state /\ run'[r].token = run[r].token
           /\ \A u \in Workers : Executes(u, r)' => u = v,
         worker[v].token # 0 /\ worker[v].at \in {"inspect", "start"} => Owns(v)' /\ run'[r].live,
         Follows(container[r], container'[r]),
         worker[v].at = "start" => container'[r] = container[r],
         Owns(v)' => Owns(v),
         worker[v].at = "complete" /\ Owns(v)' => ~(container[r] = "none" /\ container'[r] = "running")
  PROVE  ThreadOK(v)'
<1>1. ThreadOK(v) /\ worker[v] \in WorkloadThread /\ run[r] \in RunRow /\ run'[r] \in RunRow
  BY DEF RunsInv, RunsTypeOK, ThreadInv
<1>2. worker[v].token \in Nat /\ run[r].token \in Nat /\ run'[r].token \in Nat
  BY <1>1 DEF WorkloadThread, RunRow
<1>3. worker'[v].token <= run'[r].token
  BY SMT, <1>1, <1>2 DEF ThreadOK
<1>4. HoldsRun(v)'
  BY <1>1 DEF ThreadOK, HoldsRun
<1>5. /\ worker[v].at = "start" => container'[r] = "none"
      /\ worker[v].at \in {"attached", "wait"} => container'[r] \notin {"none", "created"}
      /\ worker[v].at = "complete" =>
           /\ worker[v].result \in RunTerminal
           /\ worker[v].result = "succeeded" => container'[r] = "exited_0"
           /\ worker[v].result = "failed" => container'[r] = "exited_1"
           /\ Owns(v)' => container'[r] # "running"
  BY <1>1 DEF ThreadOK, Follows, Exited
<1> QED
  BY <1>3, <1>4, <1>5 DEF ThreadOK

(* No other thread is at the start of the run that w may start.            *)
LEMMA StartsAlone ==
  ASSUME RunsInv, NEW w \in Workers, worker[w].at \in {"inspect", "start"}, NEW v \in Workers,
         worker[v].at # "idle", worker[v].run = worker[w].run, v # w
  PROVE  /\ worker[w].token # 0 /\ worker[v].token # 0
         /\ worker[v].at \notin {"inspect", "start"}
         /\ Owns(w) /\ run[worker[w].run].live
         /\ ~Owns(v)
<1>1. ThreadOK(w) /\ ThreadOK(v)
  BY DEF RunsInv, ThreadInv
<1>2. worker[w].token # 0 /\ worker[v].token # 0
  BY <1>1 DEF ThreadOK, HoldsRun, Executes
<1>3. Owns(w) /\ run[worker[w].run].live
  BY <1>1, <1>2 DEF ThreadOK, HoldsRun
<1>4. ~Owns(v)
  BY <1>3 DEF Owns
<1> QED
  BY <1>1, <1>2, <1>3, <1>4 DEF ThreadOK, HoldsRun

(* Thread w, executing r, moves on to x and the container to c.            *)
ThreadGoes(w, r, x, c) ==
  /\ Follows(container[r], c)
  /\ container[r] = "none" /\ c # "none" => worker[w].at = "start"
  /\ x.at # "idle" =>
       /\ x.run = r /\ x.token = worker[w].token
       /\ x.at \in {"inspect", "start"} => worker[w].at = "inspect"
       /\ x.at = "start" => c = "none"
       /\ x.at \in {"attached", "wait"} => c \notin {"none", "created"}
       /\ x.at = "complete" =>
            /\ x.result \in RunTerminal
            /\ x.result = "succeeded" => c = "exited_0"
            /\ x.result = "failed" => c = "exited_1"
            /\ c # "running"

LEMMA ThreadMoves ==
  ASSUME RunsInv, NEW w \in Workers, worker[w].at # "idle", NEW r \in Runs, r = worker[w].run,
         NEW x \in WorkloadThread, worker' = [worker EXCEPT ![w] = x], UNCHANGED <<queue, run>>,
         NEW c \in ContainerStates, container' = [container EXCEPT ![r] = c], ThreadGoes(w, r, x, c)
  PROVE  RunsInv'
<1>1. /\ worker' \in [Workers -> WorkloadThread]
      /\ worker'[w] = x
      /\ \A v \in Workers : v # w => worker'[v] = worker[v]
  BY DEF RunsInv, RunsTypeOK
<1>2. /\ container' \in [Runs -> ContainerStates]
      /\ container'[r] = c
      /\ \A s \in Runs : s # r => container'[s] = container[s]
  BY DEF RunsInv, RunsTypeOK
<1>3. RunsTypeOK'
  BY <1>1, <1>2 DEF RunsInv, RunsTypeOK
<1>4. ThreadOK(w)
  BY DEF RunsInv, ThreadInv
<1>5. \A s \in Runs : Follows(container[s], container'[s])
  BY <1>2 DEF Follows, ThreadGoes
<1>6. ASSUME container[r] = "none", c # "none"
      PROVE  run[r].state \notin {"none", "accepted"} /\ (run[r].state = "running" \/ run[r].token = 0)
  BY <1>4, <1>6 DEF ThreadOK, HoldsRun, Owns, ThreadGoes
<1>7. RowInv' /\ OutcomesAreTrue' /\ QueueInv'
  BY <1>2, <1>5, <1>6, ContainerMoves
<1>8. ASSUME NEW v \in Workers, v # w, worker'[v].at # "idle" PROVE ThreadOK(v)'
  <2>1. worker'[v] = worker[v] /\ worker[v].at # "idle" /\ ThreadOK(v)
    BY <1>1, <1>8 DEF RunsInv, ThreadInv
  <2>2. PICK s \in Runs : s = worker[v].run
    BY <2>1 DEF ThreadOK
  <2>3. ASSUME worker[v].token = 0 PROVE \A u \in Workers : Executes(u, s)' => u = v
    <3>1. \A u \in Workers : Executes(u, s) => u = v
      BY <2>1, <2>2, <2>3 DEF ThreadOK, HoldsRun
    <3>2. \A u \in Workers : Executes(u, s)' => Executes(u, s)
      BY <1>1 DEF Executes, ThreadGoes
    <3> QED
      BY <3>1, <3>2
  <2>4. Owns(v)' <=> Owns(v)
    BY <2>1 DEF Owns
  <2>5. worker[v].token # 0 /\ worker[v].at \in {"inspect", "start"} => Owns(v)' /\ run'[s].live
    BY <2>1, <2>2, <2>4 DEF ThreadOK, HoldsRun
  <2>6. worker[v].at = "start" => container'[s] = container[s]
    <3>1. CASE s # r
      BY <1>2, <3>1
    <3>2. CASE s = r /\ worker[v].at = "start"
      <4>1. worker[w].at \notin {"inspect", "start"}
        BY <3>2, <2>1, <2>2, <1>8, StartsAlone
      <4>2. container[r] = "none"
        BY <2>1, <2>2, <3>2 DEF ThreadOK
      <4> QED
        BY <4>1, <4>2, <3>2, <1>2 DEF ThreadGoes
    <3> QED
      BY <3>1, <3>2
  <2>7. worker[v].at = "complete" /\ Owns(v)' => ~(container[s] = "none" /\ container'[s] = "running")
    <3> SUFFICES ASSUME worker[v].at = "complete", Owns(v), container[s] = "none", container'[s] = "running" PROVE FALSE
      BY <2>4
    <3>1. s = r /\ c = "running"
      BY <1>2
    <3> QED
      BY <3>1, <2>1, <2>2, <1>8, StartsAlone DEF ThreadGoes
  <2>8. run'[s] \in RunRow /\ run'[s].token >= run[s].token /\ run' \in [Runs -> RunRow]
    BY SMT DEF RunsInv, RunsTypeOK, RunRow
  <2>9. run'[s].state \notin {"none", "accepted"}
    BY <2>1, <2>2 DEF ThreadOK
  <2> QED
    BY <2>1, <2>2, <2>3, <2>4, <2>5, <2>6, <2>7, <2>8, <2>9, <1>5, ThreadKept
<1>9. ASSUME x.at # "idle" PROVE ThreadOK(w)'
  <2>1. Owns(w)' <=> Owns(w)
    BY <1>1, <1>9 DEF Owns, ThreadGoes
  <2>2. worker[w].token = 0 => \A u \in Workers : Executes(u, r)' => u = w
    <3>1. \A u \in Workers : Executes(u, r)' => Executes(u, r)
      BY <1>1 DEF Executes, ThreadGoes
    <3> QED
      BY <3>1, <1>4 DEF ThreadOK, HoldsRun
  <2>3. HoldsRun(w)'
    BY <1>1, <1>4, <1>9, <2>1, <2>2 DEF ThreadOK, HoldsRun, ThreadGoes
  <2> QED
    BY <1>1, <1>2, <1>4, <1>9, <2>1, <2>3 DEF ThreadOK, ThreadGoes
<1> QED
  BY <1>1, <1>3, <1>7, <1>8, <1>9 DEF RunsInv, ThreadInv

(* Steps that only note a cancellation or the state of a lease.            *)
LEMMA RowsNoted ==
  ASSUME RunsInv, run' \in [Runs -> RunRow], UNCHANGED <<queue, container, worker>>,
         \A s \in Runs : /\ run'[s].state = run[s].state /\ run'[s].owner = run[s].owner
                         /\ run'[s].token = run[s].token /\ run'[s].policy = run[s].policy
                         /\ run[s].state # "running" => run'[s].live = run[s].live,
         \A v \in Workers : worker[v].at \in {"inspect", "start"} /\ Owns(v) /\ run[worker[v].run].live
                              => run'[worker[v].run].live
  PROVE  RunsInv'
<1>1. RunsTypeOK'
  BY DEF RunsInv, RunsTypeOK
<1>2. \A i \in 1..Len(queue) : queue[i] \in Runs
  BY SMT DEF RunsInv, RunsTypeOK
<1>3. QueueInv'
  BY SMT, <1>2 DEF RunsInv, QueueInv
<1>4. RowInv'
  BY SMT DEF RunsInv, RowInv
<1>5. OutcomesAreTrue'
  BY SMT DEF RunsInv, OutcomesAreTrue
<1>6. ASSUME NEW v \in Workers, worker'[v].at # "idle" PROVE ThreadOK(v)'
  <2>1. worker[v].at # "idle" /\ ThreadOK(v)
    BY <1>6 DEF RunsInv, ThreadInv
  <2>2. PICK s \in Runs : s = worker[v].run
    BY <2>1 DEF ThreadOK
  <2>3. Owns(v)' <=> Owns(v)
    BY <2>2 DEF Owns
  <2>4. worker[v].token = 0 => \A u \in Workers : Executes(u, s)' => u = v
    BY <2>1, <2>2 DEF ThreadOK, HoldsRun, Executes
  <2>5. worker[v].token # 0 /\ worker[v].at \in {"inspect", "start"} => Owns(v)' /\ run'[s].live
    BY <2>1, <2>2, <2>3 DEF ThreadOK, HoldsRun
  <2>6. run'[s].state \notin {"none", "accepted"} /\ run'[s].token >= run[s].token
    BY SMT, <2>1, <2>2 DEF ThreadOK, RunsInv, RunsTypeOK, RunRow
  <2>7. Follows(container[s], container'[s])
    BY DEF Follows
  <2> QED
    BY <2>1, <2>2, <2>3, <2>4, <2>5, <2>6, <2>7, ThreadKept
<1> QED
  BY <1>1, <1>3, <1>4, <1>5, <1>6 DEF RunsInv, ThreadInv

LEMMA AcceptRunKeeps ==
  ASSUME RunsInv, NEW r \in Runs, NEW policy \in Policies, AcceptRun(r, policy)
  PROVE  RunsInv'
<1> DEFINE active == {s \in Runs : Active(s)}
<1>1. NewRow \in RunRow
  BY DEF NewRow, RunRow
<1>2. /\ run[r].state = "none"
      /\ policy = "forbid" => active = {}
      /\ queue' = Append(queue, r)
      /\ UNCHANGED <<container, worker>>
  BY DEF AcceptRun
<1>3. /\ run' \in [Runs -> RunRow]
      /\ run'[r].state = "accepted" /\ run'[r].token = 0 /\ ~run'[r].live /\ run'[r].policy = policy
      /\ \A s \in Runs : s # r =>
           /\ run'[s].state = run[s].state /\ run'[s].owner = run[s].owner /\ run'[s].live = run[s].live
           /\ run'[s].token = run[s].token /\ run'[s].policy = run[s].policy
  <2> DEFINE cancels(s) == policy = "replace" /\ active # {} /\ s = Oldest(active)
             new == [NewRow EXCEPT !.state = "accepted", !.policy = policy]
             old(s) == [run[s] EXCEPT !.cancel = @ \/ cancels(s)]
  <2>1. run' = [s \in Runs |-> IF s = r THEN new ELSE old(s)]
    BY DEF AcceptRun
  <2>2. new \in RunRow /\ new.state = "accepted" /\ new.token = 0 /\ ~new.live /\ new.policy = policy
    BY <1>1 DEF NewRow, RunRow
  <2>3. ASSUME NEW s \in Runs
        PROVE  /\ old(s) \in RunRow
               /\ old(s).state = run[s].state /\ old(s).owner = run[s].owner /\ old(s).live = run[s].live
               /\ old(s).token = run[s].token /\ old(s).policy = run[s].policy
    <3>1. run[s] \in RunRow
      BY DEF RunsInv, RunsTypeOK
    <3>2. (run[s].cancel \/ cancels(s)) \in BOOLEAN
      OBVIOUS
    <3> HIDE DEF cancels
    <3> QED
      BY <3>1, <3>2 DEF RunRow
  <2> HIDE DEF new, old
  <2> QED
    BY <2>1, <2>2, <2>3
<1>4. /\ queue \in Seq(Runs) /\ queue' \in Seq(Runs) /\ Len(queue) \in Nat
      /\ Len(queue') = Len(queue) + 1
      /\ queue'[Len(queue) + 1] = r
      /\ \A i \in 1..Len(queue) : queue'[i] = queue[i] /\ queue[i] \in Runs
      /\ \A i \in 1..Len(queue') : i \in 1..Len(queue) \/ i = Len(queue) + 1
  BY SMT, <1>2 DEF RunsInv, RunsTypeOK
<1>5. \A i \in 1..Len(queue) : queue[i] # r
  BY <1>2 DEF RunsInv, QueueInv
<1>6. RunsTypeOK'
  BY <1>2, <1>3, <1>4 DEF RunsInv, RunsTypeOK
<1>7. QueueInv'
  <2>1. ASSUME NEW s \in Runs, run'[s].state # "none" PROVE \E i \in 1..Len(queue') : queue'[i] = s
    <3>1. CASE s = r
      BY SMT, <3>1, <1>4
    <3>2. CASE s # r
      <4>1. PICK i \in 1..Len(queue) : queue[i] = s
        BY SMT, <2>1, <3>2, <1>3 DEF RunsInv, QueueInv
      <4> QED
        BY SMT, <4>1, <1>4
    <3> QED
      BY <3>1, <3>2
  <2>2. ASSUME NEW i \in 1..Len(queue') PROVE run'[queue'[i]].state # "none"
    <3>1. CASE i \in 1..Len(queue)
      BY SMT, <3>1, <1>3, <1>4, <1>5 DEF RunsInv, QueueInv
    <3> QED
      BY <3>1, <1>3, <1>4
  <2>3. ASSUME NEW i \in 1..Len(queue'), NEW j \in 1..Len(queue'), queue'[i] = queue'[j] PROVE i = j
    <3>1. CASE i \in 1..Len(queue) /\ j \in 1..Len(queue)
      BY <3>1, <2>3, <1>4 DEF RunsInv, QueueInv
    <3> QED
      BY <3>1, <2>3, <1>4, <1>5
  <2>4. ASSUME NEW i \in 1..Len(queue'), NEW j \in 1..Len(queue'), i < j, run'[queue'[j]].policy = "forbid"
        PROVE  run'[queue'[i]].state \in RunTerminal
    <3>1. i \in 1..Len(queue) /\ queue'[i] = queue[i] /\ queue[i] \in Runs /\ queue[i] # r
      BY SMT, <2>4, <1>4, <1>5
    <3>2. CASE j \in 1..Len(queue)
      <4>1. queue'[j] = queue[j] /\ queue[j] \in Runs /\ queue[j] # r
        BY <3>2, <1>4, <1>5
      <4>2. run[queue[i]].state \in RunTerminal
        BY SMT, <2>4, <3>1, <3>2, <4>1, <1>3 DEF RunsInv, QueueInv
      <4> QED
        BY <4>2, <3>1, <1>3
    <3>3. CASE j = Len(queue) + 1
      <4>1. active = {}
        BY <2>4, <3>3, <1>2, <1>3, <1>4
      <4>2. ~Active(queue[i]) /\ run[queue[i]].state # "none" /\ run[queue[i]] \in RunRow
        BY <4>1, <3>1 DEF RunsInv, QueueInv, RunsTypeOK
      <4>3. run[queue[i]].state \in RunTerminal
        BY <4>2 DEF Active, RunRow
      <4> QED
        BY <4>3, <3>1, <1>3
    <3> QED
      BY <3>2, <3>3, <1>4
  <2> QED
    BY <2>1, <2>2, <2>3, <2>4 DEF QueueInv
<1>8. RowInv'
  <2>1. container[r] = "none"
    BY <1>2 DEF RunsInv, RowInv
  <2> QED
    BY SMT, <2>1, <1>2, <1>3 DEF RunsInv, RowInv, RunTerminal
<1>9. OutcomesAreTrue'
  BY <1>2, <1>3 DEF RunsInv, OutcomesAreTrue
<1>10. ASSUME NEW v \in Workers, worker'[v].at # "idle" PROVE ThreadOK(v)'
  <2>1. worker[v].at # "idle" /\ ThreadOK(v) /\ worker'[v] = worker[v]
    BY <1>2, <1>10 DEF RunsInv, ThreadInv
  <2>2. PICK s \in Runs : s = worker[v].run
    BY <2>1 DEF ThreadOK
  <2>3. s # r
    BY <2>1, <2>2, <1>2 DEF ThreadOK
  <2>4. Owns(v)' <=> Owns(v)
    BY SMT, <2>1, <2>2, <2>3, <1>3 DEF Owns
  <2>5. worker[v].token = 0 => \A u \in Workers : Executes(u, s)' => u = v
    BY <2>1, <2>2, <1>2 DEF ThreadOK, HoldsRun, Executes
  <2>6. worker[v].token # 0 /\ worker[v].at \in {"inspect", "start"} => Owns(v)' /\ run'[s].live
    BY <2>1, <2>2, <2>3, <2>4, <1>3 DEF ThreadOK, HoldsRun
  <2>7. run'[s].state \notin {"none", "accepted"} /\ run'[s].token >= run[s].token
    BY SMT, <2>1, <2>2, <2>3, <1>3 DEF ThreadOK, RunsInv, RunsTypeOK, RunRow
  <2>8. Follows(container[s], container'[s]) /\ container'[s] = container[s]
    BY <1>2 DEF Follows
  <2> QED
    BY <2>1, <2>2, <2>3, <2>4, <2>5, <2>6, <2>7, <2>8, <1>3, ThreadKept
<1> QED
  BY <1>6, <1>7, <1>8, <1>9, <1>10 DEF RunsInv, ThreadInv

(* The row of an active run becomes another one by a step of thread w: no  *)
(* other thread may look for the container then, nor hold the new row.     *)
RowGoes(w, r, row) ==
  /\ run[r].state \in {"accepted", "running"} /\ row.state \notin {"none", "accepted"}
  /\ row.policy = run[r].policy /\ row.token >= run[r].token
  /\ row.state = "running" => row.token > 0
  /\ row.state # "running" => ~row.live
  /\ row.state \in RunTerminal /\ row.token > 0 => container[r] # "running"
  /\ row.state = "succeeded" => container[r] = "exited_0"
  /\ row.state = "failed" => container[r] = "exited_1"
  /\ \A v \in Workers : v # w /\ Executes(v, r) =>
       /\ worker[v].at \notin {"inspect", "start"}
       /\ ~(row.state = "running" /\ row.owner = v /\ row.token = worker[v].token)

(* What is left of the invariant to show is that thread's part.            *)
LEMMA RowMoves ==
  ASSUME RunsInv, NEW w \in Workers, NEW x \in WorkloadThread, worker' = [worker EXCEPT ![w] = x],
         NEW r \in Runs, NEW row \in RunRow, run' = [run EXCEPT ![r] = row], UNCHANGED <<queue, container>>,
         RowGoes(w, r, row), x.at # "idle" => x.run = r
  PROVE  /\ RunsTypeOK' /\ QueueInv' /\ RowInv' /\ OutcomesAreTrue'
         /\ \A v \in Workers : v # w /\ worker'[v].at # "idle" => ThreadOK(v)'
<1>1. /\ worker' \in [Workers -> WorkloadThread] /\ worker'[w] = x
      /\ \A v \in Workers : v # w => worker'[v] = worker[v]
  BY DEF RunsInv, RunsTypeOK
<1>2. /\ run' \in [Runs -> RunRow] /\ run'[r] = row
      /\ \A s \in Runs : s # r => run'[s] = run[s]
  BY DEF RunsInv, RunsTypeOK
<1>3. RunsTypeOK'
  BY <1>1, <1>2 DEF RunsInv, RunsTypeOK
<1>4. \A i \in 1..Len(queue) : queue[i] \in Runs
  BY SMT DEF RunsInv, RunsTypeOK
<1>5. QueueInv'
  <2>1. run[r].state # "none" /\ row.state # "none" /\ run[r].state \notin RunTerminal
    BY DEF RunTerminal, RowGoes
  <2>2. \A s \in Runs : /\ run'[s].state # "none" <=> run[s].state # "none"
                        /\ run'[s].policy = run[s].policy
                        /\ run[s].state \in RunTerminal => run'[s].state \in RunTerminal
    BY <2>1, <1>2 DEF RowGoes
  <2> QED
    BY SMT, <2>2, <1>4 DEF RunsInv, QueueInv
<1>6. RowInv'
  BY <1>2 DEF RunsInv, RowInv, RowGoes
<1>7. OutcomesAreTrue'
  BY <1>2 DEF RunsInv, OutcomesAreTrue, RowGoes
<1>8. ASSUME NEW v \in Workers, v # w, worker'[v].at # "idle" PROVE ThreadOK(v)'
  <2>1. worker[v].at # "idle" /\ ThreadOK(v) /\ worker'[v] = worker[v]
    BY <1>1, <1>8 DEF RunsInv, ThreadInv
  <2>2. PICK s \in Runs : s = worker[v].run
    BY <2>1 DEF ThreadOK
  <2>3. s = r => worker[v].token # 0 /\ worker[v].at \notin {"inspect", "start"} /\ ~Owns(v)'
    <3>1. s = r => Executes(v, r)
      BY <2>1, <2>2 DEF Executes
    <3>2. s = r => worker[v].token # 0
      BY <2>1, <2>2 DEF ThreadOK, HoldsRun, RowGoes
    <3>3. s = r => /\ worker[v].at \notin {"inspect", "start"}
                   /\ ~(row.state = "running" /\ row.owner = v /\ row.token = worker[v].token)
      BY <3>1, <1>8 DEF RowGoes
    <3>4. s = r => ~Owns(v)'
      BY <3>3, <2>1, <2>2, <1>2 DEF Owns
    <3> QED
      BY <3>2, <3>3, <3>4
  <2>4. s # r => (Owns(v)' <=> Owns(v))
    BY <2>1, <2>2, <1>2 DEF Owns
  <2>5. worker[v].token = 0 => \A u \in Workers : Executes(u, s)' => u = v
    <3>1. \A u \in Workers : u # w /\ Executes(u, s)' => Executes(u, s)
      BY <1>1 DEF Executes
    <3>2. s # r => ~Executes(w, s)'
      BY <1>1 DEF Executes
    <3> QED
      BY <3>1, <3>2, <2>1, <2>2, <2>3 DEF ThreadOK, HoldsRun
  <2>6. worker[v].token # 0 /\ worker[v].at \in {"inspect", "start"} => Owns(v)' /\ run'[s].live
    BY <2>1, <2>2, <2>3, <2>4, <1>2 DEF ThreadOK, HoldsRun
  <2>7. run'[s].state \notin {"none", "accepted"} /\ run'[s].token >= run[s].token
    BY SMT, <2>1, <2>2, <1>2 DEF ThreadOK, RunsInv, RunsTypeOK, RunRow, RowGoes
  <2>8. Follows(container[s], container'[s]) /\ container'[s] = container[s]
    BY DEF Follows
  <2>9. Owns(v)' => Owns(v)
    BY <2>3, <2>4
  <2>10. worker[v].token = 0 => run'[s].state = run[s].state /\ run'[s].token = run[s].token
    BY <2>3, <1>2
  <2>11. worker[v].at = "complete" /\ Owns(v)' => ~(container[s] = "none" /\ container'[s] = "running")
    BY <2>8
  <2> QED
    BY <2>1, <2>2, <2>5, <2>6, <2>7, <2>8, <2>9, <2>10, <2>11, <1>2, ThreadKept
<1> QED
  BY <1>3, <1>5, <1>6, <1>7, <1>8

LEMMA AcquireKeeps ==
  ASSUME RunsInv, NEW w \in Workers, Acquire(w)
  PROVE  RunsInv'
<1>1. PICK s \in Claimable : TRUE
  BY DEF Acquire
<1>2. Oldest(Claimable) \in Claimable
  BY <1>1, OldestIsOne DEF RunsInv, Claimable, Active
<1>3. PICK r \in Claimable : r = Oldest(Claimable)
  BY <1>2
<1>4. r \in Runs /\ run[r].state \in {"accepted", "running"} /\ ~run[r].live /\ run[r] \in RunRow
  BY DEF Claimable, Active, RunsInv, RunsTypeOK
<1>5. \A v \in Workers : Executes(v, r) =>
         /\ worker[v].at \notin {"inspect", "start"}
         /\ worker[v].token <= run[r].token
         /\ run[r].state # "accepted"
         /\ worker[v] \in WorkloadThread
  <2> SUFFICES ASSUME NEW v \in Workers, Executes(v, r)
               PROVE  /\ worker[v].at \notin {"inspect", "start"} /\ worker[v].token <= run[r].token
                      /\ run[r].state # "accepted" /\ worker[v] \in WorkloadThread
    OBVIOUS
  <2>1. ThreadOK(v) /\ worker[v] \in WorkloadThread /\ worker[v].run = r
    BY DEF RunsInv, ThreadInv, Executes, RunsTypeOK
  <2>2. worker[v].at \notin {"inspect", "start"}
    BY <2>1, <1>4 DEF ThreadOK, HoldsRun
  <2> QED
    BY <2>1, <2>2 DEF ThreadOK
<1>6. IdleWorker \in WorkloadThread /\ worker[w] = IdleWorker /\ ~Executes(w, r)
  BY SMT DEF IdleWorker, WorkloadThread, Executes, Acquire
<1>7. CASE run[r].cancel /\ run[r].state = "accepted"
  <2>1. PICK row \in RunRow : row = [run[r] EXCEPT !.state = "cancelled"]
    BY <1>4 DEF RunRow, RunTerminal
  <2>2. row.state = "cancelled" /\ row.token = run[r].token /\ row.policy = run[r].policy /\ ~row.live
    BY <1>4, <2>1 DEF RunRow
  <2>3. run[r].token = 0 /\ container[r] = "none"
    BY <1>4, <1>7 DEF RunsInv, RowInv
  <2>4. run' = [run EXCEPT ![r] = row]
    BY <1>3, <1>4, <1>7, <2>1 DEF Acquire, RunsInv, RunsTypeOK
  <2>5. run'[r] = row
    BY <1>4, <2>4 DEF RunsInv, RunsTypeOK
  <2>6. PICK x \in WorkloadThread : x = [IdleWorker EXCEPT !.at = "inspect", !.run = r, !.token = 0]
    BY <1>4 DEF WorkloadThread, IdleWorker
  <2>7. x.at = "inspect" /\ x.run = r /\ x.token = 0
    BY <2>6 DEF IdleWorker
  <2>8. worker' = [worker EXCEPT ![w] = x]
    BY <1>3, <2>2, <2>3, <2>5, <2>6 DEF Acquire
  <2>9. UNCHANGED <<queue, container>>
    BY DEF Acquire
  <2>10. worker'[w] = x /\ \A v \in Workers : v # w => worker'[v] = worker[v]
    BY <2>8 DEF RunsInv, RunsTypeOK
  <2>11. \A v \in Workers : Executes(v, r)' => v = w
    BY SMT, <2>10, <1>5, <1>7 DEF Executes
  <2>12. ThreadOK(w)'
    BY SMT, <2>2, <2>3, <2>5, <2>7, <2>10, <2>11, <1>4 DEF ThreadOK, HoldsRun
  <2>13. RowGoes(w, r, row)
    BY SMT, <2>2, <2>3, <1>4, <1>5, <1>7 DEF RowGoes
  <2>14. /\ RunsTypeOK' /\ QueueInv' /\ RowInv' /\ OutcomesAreTrue'
         /\ \A v \in Workers : v # w /\ worker'[v].at # "idle" => ThreadOK(v)'
    BY <1>4, <2>7, <2>4, <2>8, <2>9, <2>13, RowMoves
  <2> QED
    BY <2>14, <2>12 DEF RunsInv, ThreadInv
<1>8. CASE ~(run[r].cancel /\ run[r].state = "accepted")
  <2>0. run[r].token \in Nat
    BY <1>4 DEF RunRow
  <2>1. PICK t \in Nat : t = run[r].token + 1
    BY SMT, <2>0
  <2>2. PICK row \in RunRow : row = [run[r] EXCEPT !.state = "running", !.owner = w, !.live = TRUE, !.token = t]
    BY <1>4 DEF RunRow
  <2>3. row.state = "running" /\ row.token = t /\ row.policy = run[r].policy /\ row.owner = w /\ row.live
    BY <1>4, <2>2 DEF RunRow
  <2>4. run' = [run EXCEPT ![r] = row]
    BY <1>3, <1>4, <1>8, <2>1, <2>2 DEF Acquire, RunsInv, RunsTypeOK
  <2>5. run'[r] = row
    BY <1>4, <2>4 DEF RunsInv, RunsTypeOK
  <2>6. PICK x \in WorkloadThread : x = [IdleWorker EXCEPT !.at = "inspect", !.run = r, !.token = t]
    BY <1>4 DEF WorkloadThread, IdleWorker
  <2>7. x.at = "inspect" /\ x.run = r /\ x.token = t
    BY <2>6 DEF IdleWorker
  <2>8. worker' = [worker EXCEPT ![w] = x]
    BY <1>3, <2>3, <2>5, <2>6 DEF Acquire
  <2>9. UNCHANGED <<queue, container>>
    BY DEF Acquire
  <2>10. worker'[w] = x
    BY <2>8 DEF RunsInv, RunsTypeOK
  <2>11. Owns(w)' /\ HoldsRun(w)'
    BY SMT, <2>0, <2>1, <2>3, <2>5, <2>7, <2>10 DEF HoldsRun, Owns
  <2>12. ThreadOK(w)'
    BY SMT, <2>3, <2>5, <2>7, <2>10, <2>11, <1>4 DEF ThreadOK
  <2>13. \A v \in Workers : Executes(v, r) => worker[v].token # t
    BY SMT, <1>5, <2>0, <2>1 DEF WorkloadThread
  <2>14. t > 0 /\ t >= run[r].token
    BY SMT, <2>0, <2>1
  <2>15. row.state \notin RunTerminal /\ row.state \notin {"none", "accepted", "succeeded", "failed"}
    BY <2>3 DEF RunTerminal
  <2>16. RowGoes(w, r, row)
    BY <2>3, <2>13, <2>14, <2>15, <1>4, <1>5 DEF RowGoes
  <2>17. /\ RunsTypeOK' /\ QueueInv' /\ RowInv' /\ OutcomesAreTrue'
         /\ \A v \in Workers : v # w /\ worker'[v].at # "idle" => ThreadOK(v)'
    BY <1>4, <2>7, <2>4, <2>8, <2>9, <2>16, RowMoves
  <2> QED
    BY <2>17, <2>12 DEF RunsInv, ThreadInv
<1> QED
  BY <1>7, <1>8

LEMMA CompleteRunKeeps ==
  ASSUME RunsInv, NEW w \in Workers, CompleteRun(w)
  PROVE  RunsInv'
<1>1. worker[w].at = "complete" /\ ThreadOK(w)
  BY DEF CompleteRun, RunsInv, ThreadInv
<1>2. PICK r \in Runs : r = worker[w].run
  BY <1>1 DEF ThreadOK
<1>3. PICK x \in WorkloadThread : x = IdleWorker
  BY DEF IdleWorker, WorkloadThread
<1>4. x.at = "idle" /\ worker' = [worker EXCEPT ![w] = x] /\ UNCHANGED <<queue, container>>
  BY <1>3 DEF CompleteRun, IdleWorker
<1>5. CASE ~Owns(w)
  <2>1. UNCHANGED run
    BY <1>5 DEF CompleteRun
  <2>2. PICK c \in ContainerStates : c = container[r]
    BY DEF RunsInv, RunsTypeOK
  <2>3. container' = [container EXCEPT ![r] = c]
    BY <1>4, <2>2 DEF RunsInv, RunsTypeOK
  <2>4. ThreadGoes(w, r, x, c)
    BY <1>4, <2>2 DEF Follows, ThreadGoes
  <2> QED
    BY <1>1, <1>2, <1>4, <2>1, <2>3, <2>4, ThreadMoves
<1>6. CASE Owns(w)
  <2>1. PICK row \in RunRow : row = [run[r] EXCEPT !.state = worker[w].result, !.owner = NoWorker, !.live = FALSE]
    BY ZenonT(60), <1>1, <1>2 DEF RunsInv, RunsTypeOK, RunRow, ThreadOK
  <2>2. row.state = worker[w].result /\ row.token = run[r].token /\ row.policy = run[r].policy /\ ~row.live /\ run[r] \in RunRow
    BY <2>1 DEF RunsInv, RunsTypeOK, RunRow
  <2>3. run' = [run EXCEPT ![r] = row]
    BY <1>2, <1>6, <2>1 DEF CompleteRun, RunsInv, RunsTypeOK
  <2>4. /\ run[r].state = "running" /\ row.state \in RunTerminal /\ container[r] # "running"
        /\ row.state = "succeeded" => container[r] = "exited_0"
        /\ row.state = "failed" => container[r] = "exited_1"
    BY <1>1, <1>2, <1>6, <2>2 DEF Owns, ThreadOK
  <2>5. row.state \notin {"none", "accepted", "running"}
    BY <2>4 DEF RunTerminal
  <2>6. \A v \in Workers : v # w /\ Executes(v, r) => worker[v].at \notin {"inspect", "start"}
    <3> SUFFICES ASSUME NEW v \in Workers, v # w, Executes(v, r), worker[v].at \in {"inspect", "start"} PROVE FALSE
      OBVIOUS
    <3>1. ~Owns(w)
      BY <1>1, <1>2, StartsAlone DEF Executes
    <3> QED
      BY <3>1, <1>6
  <2>7. row.token >= run[r].token
    BY SMT, <2>2 DEF RunRow
  <2>8. RowGoes(w, r, row)
    BY <2>2, <2>4, <2>5, <2>6, <2>7 DEF RowGoes
  <2>9. /\ RunsTypeOK' /\ QueueInv' /\ RowInv' /\ OutcomesAreTrue'
        /\ \A v \in Workers : v # w /\ worker'[v].at # "idle" => ThreadOK(v)'
    BY <2>3, <2>8, <1>4, RowMoves
  <2>10. worker'[w].at = "idle"
    BY <1>4 DEF RunsInv, RunsTypeOK
  <2> QED
    BY <2>9, <2>10 DEF RunsInv, ThreadInv
<1> QED
  BY <1>5, <1>6

(* The daemon dies: no thread is left, and the signal may reach the        *)
(* containers.                                                             *)
LEMMA WorkersDieKeeps ==
  ASSUME RunsInv, WorkersDie
  PROVE  RunsInv'
<1>1. /\ worker' = [w \in Workers |-> IdleWorker] /\ UNCHANGED <<queue, run>>
      /\ container' \in [Runs -> ContainerStates]
  BY DEF WorkersDie
<1>2. IdleWorker \in WorkloadThread /\ IdleWorker.at = "idle"
  BY DEF IdleWorker, WorkloadThread
<1>3. ASSUME NEW r \in Runs, container'[r] # container[r]
      PROVE  /\ Follows(container[r], container'[r])
             /\ container[r] = "none" =>
                  run[r].state \notin {"none", "accepted"} /\ (run[r].state = "running" \/ run[r].token = 0)
  <2>1. PICK w \in Workers : worker[w].run = r /\ container'[r] \in Orphaned(w)
    BY <1>3 DEF WorkersDie
  <2>2. \/ worker[w].at = "start" /\ container[r] = "none" /\ container'[r] = "created"
        \/ worker[w].at = "attached" /\ container[r] = "running" /\ container'[r] = "exited_1"
    BY <1>3, <2>1 DEF Orphaned
  <2>3. ThreadOK(w)
    BY <2>2 DEF RunsInv, ThreadInv
  <2>4. container[r] = "none" =>
          run[r].state \notin {"none", "accepted"} /\ (run[r].state = "running" \/ run[r].token = 0)
    BY <2>1, <2>2, <2>3 DEF ThreadOK, HoldsRun, Owns
  <2> QED
    BY <2>2, <2>4 DEF Follows, Exited
<1>4. \A r \in Runs : Follows(container[r], container'[r])
  BY <1>3 DEF Follows
<1>5. RowInv' /\ OutcomesAreTrue' /\ QueueInv'
  BY <1>1, <1>3, <1>4, ContainerMoves
<1>6. RunsTypeOK'
  BY <1>1, <1>2 DEF RunsInv, RunsTypeOK
<1>7. ThreadInv'
  BY <1>1, <1>2 DEF ThreadInv
<1> QED
  BY <1>5, <1>6, <1>7 DEF RunsInv

(* A container ends by itself.                                             *)
LEMMA ContainerEndsKeeps ==
  ASSUME RunsInv, NEW r \in Runs, ContainerEnds(r)
  PROVE  RunsInv'
<1>1. PICK c \in Exited : container' = [container EXCEPT ![r] = c]
  BY DEF ContainerEnds
<1>2. container[r] = "running" /\ UNCHANGED <<queue, run, worker>>
  BY DEF ContainerEnds
<1>3. /\ container' \in [Runs -> ContainerStates]
      /\ container'[r] = c /\ \A s \in Runs : s # r => container'[s] = container[s]
  BY <1>1 DEF RunsInv, RunsTypeOK, ContainerStates
<1>4. \A s \in Runs : Follows(container[s], container'[s]) /\ (container[s] = "none" => container'[s] = "none")
  BY <1>2, <1>3 DEF Follows
<1>5. RowInv' /\ OutcomesAreTrue' /\ QueueInv'
  BY <1>2, <1>3, <1>4, ContainerMoves
<1>6. RunsTypeOK'
  BY <1>2, <1>3 DEF RunsInv, RunsTypeOK
<1>7. ASSUME NEW v \in Workers, worker'[v].at # "idle" PROVE ThreadOK(v)'
  <2>1. worker[v].at # "idle" /\ ThreadOK(v)
    BY <1>2, <1>7 DEF RunsInv, ThreadInv
  <2>2. PICK s \in Runs : s = worker[v].run
    BY <2>1 DEF ThreadOK
  <2>3. Owns(v)' <=> Owns(v)
    BY <1>2 DEF Owns
  <2>4. HoldsRun(v)'
    BY <2>1, <1>2 DEF ThreadOK, HoldsRun, Executes, Owns
  <2>5. Follows(container[s], container'[s]) /\ (container[s] = "none" => container'[s] = "none")
    BY <1>4
  <2> QED
    BY <2>1, <2>2, <2>3, <2>4, <2>5, <1>2 DEF ThreadOK, Follows, Exited
<1> QED
  BY <1>5, <1>6, <1>7 DEF RunsInv, ThreadInv

(* The steps a thread takes with its container, and its loss of the lease. *)
LEMMA ThreadStepKeeps ==
  ASSUME RunsInv, NEW w \in Workers,
         InspectContainer(w) \/ StartContainer(w) \/ Waited(w) \/ LeaseLost(w) \/ StopCancelled(w)
  PROVE  RunsInv'
<1>1. /\ worker[w].at # "idle" /\ ThreadOK(w) /\ worker[w] \in WorkloadThread
      /\ UNCHANGED <<queue, run>>
  <2>1. worker[w].at # "idle" /\ UNCHANGED <<queue, run>>
    BY DEF InspectContainer, StartContainer, Waited, LeaseLost, StopCancelled
  <2> QED
    BY <2>1 DEF RunsInv, RunsTypeOK, ThreadInv
<1>2. PICK r \in Runs : r = worker[w].run
  BY <1>1 DEF ThreadOK
<1>3. PICK d \in ContainerStates : d = container[r]
  BY DEF RunsInv, RunsTypeOK
<1>4. container = [container EXCEPT ![r] = d] /\ Follows(d, d)
  BY <1>3 DEF RunsInv, RunsTypeOK, Follows
<1>5. IdleWorker \in WorkloadThread /\ IdleWorker.at = "idle"
  BY DEF IdleWorker, WorkloadThread
<1>6. ASSUME NEW at \in {"start", "attached", "wait", "complete"}, NEW result \in {"none"} \cup RunTerminal,
             WorkerGoes(w, at, result)
      PROVE  \E x \in WorkloadThread :
               /\ worker' = [worker EXCEPT ![w] = x]
               /\ x.at = at /\ x.run = r /\ x.token = worker[w].token /\ x.result = result
  <2> DEFINE x == [worker[w] EXCEPT !.at = at, !.result = result]
  <2>1. x \in WorkloadThread /\ x.at = at /\ x.run = r /\ x.token = worker[w].token /\ x.result = result
    BY <1>1, <1>2 DEF WorkloadThread
  <2>2. worker' = [worker EXCEPT ![w] = x]
    BY <1>6 DEF WorkerGoes, RunsInv, RunsTypeOK
  <2> HIDE DEF x
  <2> QED
    BY <2>1, <2>2
<1>7. CASE InspectContainer(w)
  <2>0. worker[w].at = "inspect" /\ container' = [container EXCEPT ![r] = d]
    BY <1>7, <1>4 DEF InspectContainer
  <2>1. CASE d = "none"
    <3>1. WorkerGoes(w, "start", "none")
      BY <1>2, <1>3, <1>7, <2>1 DEF InspectContainer, Exited
    <3>2. PICK x \in WorkloadThread : /\ worker' = [worker EXCEPT ![w] = x]
                                      /\ x.at = "start" /\ x.run = r /\ x.token = worker[w].token /\ x.result = "none"
      BY <3>1, <1>6
    <3>3. ThreadGoes(w, r, x, d)
      BY <3>2, <2>0, <2>1, <1>3, <1>4 DEF ThreadGoes
    <3> QED
      BY <3>2, <3>3, <2>0, <1>1, <1>2, ThreadMoves
  <2>2. CASE d = "running"
    <3>1. WorkerGoes(w, "wait", "none")
      BY <1>2, <1>3, <1>7, <2>2 DEF InspectContainer, Exited
    <3>2. PICK x \in WorkloadThread : /\ worker' = [worker EXCEPT ![w] = x]
                                      /\ x.at = "wait" /\ x.run = r /\ x.token = worker[w].token /\ x.result = "none"
      BY <3>1, <1>6
    <3>3. ThreadGoes(w, r, x, d)
      BY <3>2, <2>2, <1>3, <1>4 DEF ThreadGoes
    <3> QED
      BY <3>2, <3>3, <2>0, <1>1, <1>2, ThreadMoves
  <2>3. CASE d \in Exited
    <3>1. WorkerGoes(w, "complete", ResultOf(d)) /\ ResultOf(d) \in RunTerminal
      BY <1>2, <1>3, <1>7, <2>3 DEF InspectContainer, Exited, ResultOf, RunTerminal
    <3>2. PICK x \in WorkloadThread : /\ worker' = [worker EXCEPT ![w] = x]
                                      /\ x.at = "complete" /\ x.run = r /\ x.token = worker[w].token /\ x.result = ResultOf(d)
      BY <3>1, <1>6
    <3>3. (x.result = "succeeded" => d = "exited_0") /\ (x.result = "failed" => d = "exited_1") /\ d # "running"
      BY <3>2, <2>3 DEF ResultOf, Exited
    <3>4. ThreadGoes(w, r, x, d)
      BY <3>1, <3>2, <3>3, <1>3, <1>4 DEF ThreadGoes
    <3> QED
      BY <3>2, <3>4, <2>0, <1>1, <1>2, ThreadMoves
  <2>4. CASE d = "created"
    <3>1. worker' = [worker EXCEPT ![w] = IdleWorker]
      BY <1>2, <1>3, <1>7, <2>4 DEF InspectContainer, Exited
    <3>2. ThreadGoes(w, r, IdleWorker, d)
      BY <1>3, <1>4, <1>5 DEF ThreadGoes
    <3> QED
      BY <3>1, <3>2, <2>0, <1>1, <1>2, <1>5, ThreadMoves
  <2> QED
    BY <2>1, <2>2, <2>3, <2>4 DEF ContainerStates
<1>8. CASE StartContainer(w)
  <2>1. worker[w].at = "start" /\ container[r] = "none"
    BY <1>1, <1>2, <1>8 DEF StartContainer, ThreadOK
  <2>2. WorkerGoes(w, "attached", "none") /\ container' = [container EXCEPT ![r] = "running"]
    BY <1>2, <1>8, <2>1 DEF StartContainer
  <2>3. PICK x \in WorkloadThread : /\ worker' = [worker EXCEPT ![w] = x]
                                    /\ x.at = "attached" /\ x.run = r /\ x.token = worker[w].token /\ x.result = "none"
    BY <2>2, <1>6
  <2>4. "running" \in ContainerStates /\ Follows(container[r], "running")
    BY <2>1 DEF ContainerStates, Follows
  <2>5. ThreadGoes(w, r, x, "running")
    BY <2>1, <2>3, <2>4 DEF ThreadGoes
  <2> QED
    BY <2>2, <2>3, <2>4, <2>5, <1>1, <1>2, ThreadMoves
<1>9. CASE Waited(w)
  <2>1. /\ d \in Exited /\ WorkerGoes(w, "complete", ResultOf(d)) /\ ResultOf(d) \in RunTerminal
        /\ container' = [container EXCEPT ![r] = d]
    BY <1>2, <1>3, <1>4, <1>9 DEF Waited, ResultOf, RunTerminal
  <2>2. PICK x \in WorkloadThread : /\ worker' = [worker EXCEPT ![w] = x]
                                    /\ x.at = "complete" /\ x.run = r /\ x.token = worker[w].token /\ x.result = ResultOf(d)
    BY <2>1, <1>6
  <2>3. (x.result = "succeeded" => d = "exited_0") /\ (x.result = "failed" => d = "exited_1") /\ d # "running" /\ d # "none"
    BY <2>1, <2>2 DEF ResultOf, Exited
  <2>4. ThreadGoes(w, r, x, d)
    BY <2>1, <2>2, <2>3, <1>3, <1>4 DEF ThreadGoes
  <2> QED
    BY <2>1, <2>2, <2>4, <1>1, <1>2, ThreadMoves
<1>10. ASSUME NEW c \in Orphaned(w), worker[w].at \in {"start", "attached", "wait"}
       PROVE  c \in ContainerStates /\ Follows(d, c) /\ (d = "none" /\ c # "none" => worker[w].at = "start")
              /\ (c = "running" => d = "running")
  <2>1. \/ c = d
        \/ worker[w].at = "start" /\ d = "none" /\ c = "created"
        \/ worker[w].at = "attached" /\ d = "running" /\ c = "exited_1"
    BY <1>2, <1>3 DEF Orphaned
  <2> QED
    BY <2>1 DEF Follows, ContainerStates, Exited
<1>11. CASE LeaseLost(w)
  <2>1. /\ worker[w].at \in {"start", "attached", "wait"} /\ worker' = [worker EXCEPT ![w] = IdleWorker]
        /\ \E c \in Orphaned(w) : container' = [container EXCEPT ![r] = c]
    BY <1>2, <1>11 DEF LeaseLost
  <2>2. PICK c \in Orphaned(w) : container' = [container EXCEPT ![r] = c]
    BY <2>1
  <2>3. c \in ContainerStates /\ Follows(d, c) /\ (d = "none" /\ c # "none" => worker[w].at = "start")
    BY <2>1, <1>10
  <2>4. ThreadGoes(w, r, IdleWorker, c)
    BY <2>3, <1>3, <1>5 DEF ThreadGoes
  <2> QED
    BY <2>1, <2>2, <2>3, <2>4, <1>1, <1>2, <1>5, ThreadMoves
<1>12. CASE StopCancelled(w)
  <2> DEFINE Stopped(c) == IF c = "running" THEN "exited_1" ELSE c
  <2>1. /\ worker[w].at \in {"start", "attached", "wait"} /\ WorkerGoes(w, "complete", "cancelled")
        /\ \E c \in Orphaned(w) : container' = [container EXCEPT ![r] = Stopped(c)]
    BY <1>2, <1>12 DEF StopCancelled
  <2>2. PICK c \in Orphaned(w) : container' = [container EXCEPT ![r] = Stopped(c)]
    BY <2>1
  <2>3. c \in ContainerStates /\ Follows(d, c) /\ (d = "none" /\ c # "none" => worker[w].at = "start")
        /\ (c = "running" => d = "running")
    BY <2>1, <1>10
  <2>4. PICK e \in ContainerStates : e = Stopped(c)
    BY <2>3 DEF ContainerStates, Exited
  <2>5. Follows(d, e) /\ (d = "none" /\ e # "none" => worker[w].at = "start") /\ e # "running"
    BY <2>3, <2>4 DEF Follows, Exited
  <2>6. container' = [container EXCEPT ![r] = e]
    BY <2>2, <2>4
  <2>7. "cancelled" \in RunTerminal
    BY DEF RunTerminal
  <2>8. PICK x \in WorkloadThread : /\ worker' = [worker EXCEPT ![w] = x]
                                    /\ x.at = "complete" /\ x.run = r /\ x.token = worker[w].token /\ x.result = "cancelled"
    BY <2>1, <2>7, <1>6
  <2>9. ThreadGoes(w, r, x, e)
    BY <2>5, <2>7, <2>8, <1>3 DEF ThreadGoes
  <2> QED
    BY <2>6, <2>8, <2>9, <1>1, <1>2, ThreadMoves
<1> QED
  BY <1>7, <1>8, <1>9, <1>11, <1>12

LEMMA RunsKeep == RunsInv /\ [RunsNext]_runsVars => RunsInv'
<1> SUFFICES ASSUME RunsInv, [RunsNext]_runsVars PROVE RunsInv'
  OBVIOUS
<1>1. ASSUME NEW r \in Runs, RequestCancellation(r) PROVE RunsInv'
  <2>1. run' = [run EXCEPT ![r].cancel = TRUE] /\ UNCHANGED <<queue, container, worker>>
    BY <1>1 DEF RequestCancellation
  <2>2. /\ run' \in [Runs -> RunRow]
        /\ \A s \in Runs : /\ run'[s].state = run[s].state /\ run'[s].owner = run[s].owner
                           /\ run'[s].token = run[s].token /\ run'[s].policy = run[s].policy
                           /\ run'[s].live = run[s].live
    BY ZenonT(60), <2>1 DEF RunsInv, RunsTypeOK, RunRow
  <2>3. \A v \in Workers : worker[v].at \in {"inspect", "start"} => worker[v].run \in Runs
    BY DEF RunsInv, ThreadInv, ThreadOK
  <2> QED
    BY SMT, <2>1, <2>2, <2>3, RowsNoted
<1>2. ASSUME NEW w \in Workers, RenewLease(w) PROVE RunsInv'
  <2>1. PICK r \in Runs : r = worker[w].run
    BY <1>2 DEF RenewLease, RunsInv, ThreadInv, ThreadOK
  <2>2. run' = [run EXCEPT ![r].live = TRUE] /\ UNCHANGED <<queue, container, worker>> /\ run[r].state = "running"
    BY <1>2, <2>1 DEF RenewLease, Owns
  <2>3. /\ run' \in [Runs -> RunRow]
        /\ \A s \in Runs : /\ run'[s].state = run[s].state /\ run'[s].owner = run[s].owner
                           /\ run'[s].token = run[s].token /\ run'[s].policy = run[s].policy
                           /\ run[s].state # "running" => run'[s].live = run[s].live
                           /\ run[s].live => run'[s].live
    BY ZenonT(60), <2>2 DEF RunsInv, RunsTypeOK, RunRow
  <2>4. \A v \in Workers : worker[v].at \in {"inspect", "start"} => worker[v].run \in Runs
    BY DEF RunsInv, ThreadInv, ThreadOK
  <2> QED
    BY <2>2, <2>3, <2>4, RowsNoted
<1>3. ASSUME NEW r \in Runs, LeaseRunsOut(r) PROVE RunsInv'
  <2>1. /\ run' = [run EXCEPT ![r].live = FALSE] /\ UNCHANGED <<queue, container, worker>> /\ run[r].live
        /\ \A w \in Workers : worker[w].run = r => worker[w].at \in {"attached", "wait", "complete"}
    BY <1>3 DEF LeaseRunsOut
  <2>2. /\ run' \in [Runs -> RunRow]
        /\ \A s \in Runs : /\ run'[s].state = run[s].state /\ run'[s].owner = run[s].owner
                           /\ run'[s].token = run[s].token /\ run'[s].policy = run[s].policy
                           /\ s # r => run'[s].live = run[s].live
    BY ZenonT(60), <2>1 DEF RunsInv, RunsTypeOK, RunRow
  <2>3. run[r].state = "running"
    BY <2>1 DEF RunsInv, RowInv
  <2>4. \A v \in Workers : worker[v].at \in {"inspect", "start"} => worker[v].run \in Runs /\ worker[v].run # r
    BY <2>1 DEF RunsInv, ThreadInv, ThreadOK
  <2> QED
    BY <2>1, <2>2, <2>3, <2>4, RowsNoted
<1>4. CASE UNCHANGED runsVars
  <2>1. UNCHANGED <<queue, run, container, worker>>
    BY <1>4 DEF runsVars
  <2>2. \A v \in Workers : worker[v].at \in {"inspect", "start"} => worker[v].run \in Runs
    BY DEF RunsInv, ThreadInv, ThreadOK
  <2>3. run' \in [Runs -> RunRow]
    BY <2>1 DEF RunsInv, RunsTypeOK
  <2> QED
    BY <2>1, <2>2, <2>3, RowsNoted
<1> QED
  BY <1>1, <1>2, <1>3, <1>4, AcceptRunKeeps, AcquireKeeps, ThreadStepKeeps, CompleteRunKeeps,
     ContainerEndsKeeps, WorkersDieKeeps DEF RunsNext, WorkloadStep

(* The outcome recorded of a run is that of its container, for every       *)
(* number of runs, threads and claims, whatever crashes, stalls or is      *)
(* cancelled: a worker completes a run only under the fence it claimed it  *)
(* with, and only after it read the exit code.                             *)
THEOREM RecordedOutcomesAreTrue == RunsSpec => []OutcomesAreTrue
<1>1. RunsInv => OutcomesAreTrue
  BY DEF RunsInv
<1> QED
  BY <1>1, RunsStart, RunsKeep, PTL DEF RunsSpec

(* A run accepted under "forbid" never executes beside a run accepted      *)
(* before it that was claimed.                                             *)
THEOREM ForbiddenRunsDoNotOverlap == RunsSpec => []ForbidPreventsOverlap
<1>1. RunsInv => ForbidPreventsOverlap
  <2> SUFFICES ASSUME RunsInv, NEW i \in 1..Len(queue), NEW j \in 1..Len(queue), i < j,
                      \A r \in {queue[i], queue[j]} : container[r] = "running" /\ run[r].token > 0
               PROVE  run[queue[j]].policy # "forbid"
    BY DEF ForbidPreventsOverlap
  <2>1. queue[i] \in Runs
    BY SMT DEF RunsInv, RunsTypeOK
  <2>2. run[queue[i]].state \notin RunTerminal
    BY <2>1 DEF RunsInv, RowInv
  <2> QED
    BY <2>2 DEF RunsInv, QueueInv
<1> QED
  BY <1>1, RunsStart, RunsKeep, PTL DEF RunsSpec

(* An outcome is recorded once: neither a worker that lost its fence nor   *)
(* one that executes a run cancelled before its start replaces it.         *)
THEOREM RecordedOutcomesAreFinal == RunsSpec => OutcomesAreFinal
<1>1. RunsInv /\ [RunsNext]_runsVars => OutcomesKept \/ UNCHANGED runsVars
  <2> SUFFICES ASSUME RunsInv, RunsNext, NEW r \in Runs, run[r].state \in RunTerminal
               PROVE  run'[r].state = run[r].state
    BY DEF OutcomesKept
  <2>0. run[r].state \notin {"none", "accepted", "running"} /\ run \in [Runs -> RunRow] /\ ~Active(r)
    BY DEF RunTerminal, RunsInv, RunsTypeOK, Active
  <2>1. ASSUME NEW s \in Runs, NEW policy \in Policies, AcceptRun(s, policy) PROVE run'[r].state = run[r].state
    BY SMT, <2>0, <2>1 DEF AcceptRun, RunRow
  <2>2. ASSUME NEW s \in Runs, RequestCancellation(s) \/ LeaseRunsOut(s) \/ ContainerEnds(s)
        PROVE  run'[r].state = run[r].state
    BY SMT, <2>0, <2>2 DEF RequestCancellation, LeaseRunsOut, ContainerEnds, RunRow
  <2>3. ASSUME NEW w \in Workers, Acquire(w) PROVE run'[r].state = run[r].state
    <3>1. PICK s \in Claimable : TRUE
      BY <2>3 DEF Acquire
    <3>2. Oldest(Claimable) \in Claimable
      BY <3>1, OldestIsOne DEF RunsInv, Claimable, Active
    <3>3. Oldest(Claimable) # r
      BY <2>0, <3>2 DEF Claimable
    <3>4. PICK o \in Claimable : o = Oldest(Claimable)
      BY <3>2
    <3>5. o \in Runs /\ o # r
      BY <3>3, <3>4 DEF Claimable
    <3> QED
      BY <2>0, <2>3, <3>4, <3>5 DEF Acquire
  <2>4. ASSUME NEW w \in Workers, CompleteRun(w) PROVE run'[r].state = run[r].state
    BY <2>0, <2>4 DEF CompleteRun, Owns
  <2>5. ASSUME NEW w \in Workers, RenewLease(w) PROVE run'[r].state = run[r].state
    BY SMT, <2>0, <2>5 DEF RenewLease, RunRow
  <2>6. ASSUME NEW w \in Workers,
               InspectContainer(w) \/ StartContainer(w) \/ Waited(w) \/ LeaseLost(w) \/ StopCancelled(w)
        PROVE  run'[r].state = run[r].state
    BY <2>6 DEF InspectContainer, StartContainer, Waited, LeaseLost, StopCancelled
  <2>7. CASE WorkersDie
    BY <2>7 DEF WorkersDie
  <2> QED
    BY <2>1, <2>2, <2>3, <2>4, <2>5, <2>6, <2>7 DEF RunsNext, WorkloadStep
<1> QED
  BY <1>1, RunsStart, RunsKeep, PTL DEF RunsSpec, OutcomesAreFinal
=============================================================================
