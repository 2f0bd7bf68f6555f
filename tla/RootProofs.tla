----------------------------- MODULE RootProofs -----------------------------
(***************************************************************************)
(* Theorems about files put in place on a host: changes below a managed    *)
(* root (ManagedRoot) and the installation and enrollment of the daemon    *)
(* (HostSetup).                                                            *)
(***************************************************************************)
EXTENDS ManagedRoot, HostSetup, TLAPS

(* Leaves are first-order and go to Zenon; those with arithmetic or        *)
(* records cite SMT.                                                       *)
USE Zenon

-----------------------------------------------------------------------------
(* Changes below a managed root.                                           *)
Entries == {"root", "D", "E", "made", "old", "alien", "new", "link", "absent"}
Names == {"d", "f", "t"}
Tree == [Directories -> [Names -> Entries]]

(* The steps before a call of _atomic_file_mutation may rename.            *)
Early == {"idle", "open_parent", "revalidate", "destination", "mkdir", "stat", "create",
          "secure", "write", "write_rest", "source", "sync_new"}

Published(d) == live[d]["f"] = "new" \/ synced[d]["f"] = "new"

(* A file is renamed to its destination with its content complete and      *)
(* durable, and nothing writes to it afterwards.                           *)
RootInv ==
  /\ pinned \in Directories \cup {"none"}
  /\ live \in Tree /\ synced \in Tree
  /\ live["root"]["d"] # "made" /\ synced["root"]["d"] # "made"
  /\ pinned = "none" => step \in {"idle", "open_parent", "closing", "done"}
  /\ step = "idle" => call = NoCall /\ ~altered
  /\ altered => call.op = "copy_in"
  /\ step = "source" => data = "whole" \/ altered
  /\ step = "sync_new" => MakesDirectory \/ data = "whole"
  /\ step = "revalidate_again" => MakesDirectory \/ (data = "whole" /\ stable = "whole")
  /\ step \in {"destination_again", "replace"} => data = "whole" /\ stable = "whole"
  /\ step \in Early => \A d \in Directories : ~Published(d)
  /\ \A d \in Directories : Published(d) => data = "whole" /\ stable = "whole"

LEMMA RootStart == RootInit => RootInv
<1> SUFFICES ASSUME RootInit PROVE RootInv
  OBVIOUS
<1>1. live \in Tree /\ live["root"]["d"] # "made" /\ \A d \in Directories : live[d]["f"] # "new"
  BY SMT DEF RootInit, Tree, Directories, Names, Entries, NoEntry
<1> QED
  BY <1>1 DEF RootInit, RootInv, Published

(* Steps that leave the tree alone.                                        *)
LEMMA TreeKept ==
  ASSUME RootInv, UNCHANGED tree, pinned' \in Directories \cup {"none"},
         pinned' = "none" => step' \in {"idle", "open_parent", "closing", "done"},
         step' = "idle" => step = "idle" /\ UNCHANGED <<call, altered>>,
         altered' => call'.op = "copy_in",
         step' = "source" => step = "source" /\ (altered => altered'),
         step' = "sync_new" => (step = "sync_new" \/ (step = "source" /\ ~(call.op = "copy_in" /\ altered)) \/ call'.op = "mkdir") /\ UNCHANGED call,
         step' = "revalidate_again" => (step = "revalidate_again" \/ call'.op = "mkdir") /\ UNCHANGED call,
         step' \in {"destination_again", "replace"} => (step \in {"destination_again", "replace"}
            \/ (step = "revalidate_again" /\ ~MakesDirectory)),
         step' \in Early => step \in Early
  PROVE  RootInv'
<1>1. \A d \in Directories : Published(d)' <=> Published(d)
  BY DEF Published, tree
<1> QED
  BY SMT, <1>1 DEF RootInv, MakesDirectory, tree

LEMMA RootKeep == RootInv /\ [RootNext]_rootVars => RootInv'
<1> SUFFICES ASSUME RootInv, [RootNext]_rootVars PROVE RootInv'
  OBVIOUS
<1> USE DEF Goto, Raise, Finish, flags
<1>1. ASSUME NEW missing, NEW place, NEW uid, OpenRoot(missing, place, uid) PROVE RootInv'
  <2>1. step' \in {step, "done"} /\ UNCHANGED <<call, pinned, tree, altered>>
    BY <1>1 DEF OpenRoot
  <2> QED
    BY <2>1, TreeKept DEF RootInv, Early
<1>2. ASSUME CloseRoot PROVE RootInv'
  BY <1>2, TreeKept DEF CloseRoot, RootInv
<1>3. ASSUME NEW c \in Calls, Begin(c) PROVE RootInv'
  <2>1. step' \in {"done", "open_parent"} /\ step = "idle" /\ UNCHANGED <<pinned, tree, altered>>
    BY <1>3 DEF Begin
  <2> QED
    BY <2>1, TreeKept DEF RootInv, Early
<1>4. ASSUME _open_parent PROVE RootInv'
  <2>1. /\ step = "open_parent"
        /\ step' = IF _walk_directories(Parents).code = "none" THEN "revalidate" ELSE "closing"
        /\ pinned' = _walk_directories(Parents).dir
        /\ UNCHANGED <<call, tree, altered>>
    BY <1>4 DEF _open_parent
  <2>2. /\ _walk_directories(Parents).dir \in Directories \cup {"none"}
        /\ _walk_directories(Parents).code = "none" => _walk_directories(Parents).dir # "none"
    <3>1. live["root"]["d"] \in Entries
      BY DEF RootInv, Tree, Directories, Names
    <3>2. ASSUME _traversal_os_error(live["root"]["d"]) = "none" PROVE live["root"]["d"] \in Directories
      BY SMT, <3>1, <3>2 DEF _traversal_os_error, Kind, Entries, Directories, RootInv
    <3> QED
      BY <3>2 DEF _walk_directories, Directories
  <2> QED
    BY <2>1, <2>2, TreeKept DEF RootInv, Early
<1>5. ASSUME NEW here \in {"revalidate", "destination", "secure", "source", "revalidate_again",
                           "destination_again", "revalidate_last", "post"},
             NEW code, NEW next, Check(here, code, next),
             <<here, next>> \in {<<"revalidate", "destination">>, <<"destination", "mkdir">>,
               <<"destination", "create">>, <<"secure", "sync_new">>, <<"source", "sync_new">>,
               <<"revalidate_again", "sync_parent">>, <<"revalidate_again", "destination_again">>,
               <<"destination_again", "replace">>, <<"revalidate_last", "post">>, <<"post", "cleanup">>},
             here = "secure" => MakesDirectory,
             next = "destination_again" => ~MakesDirectory,
             here = "source" => code = IF call.op = "copy_in" /\ altered THEN "source_changed" ELSE "none"
      PROVE  RootInv'
  <2>1. step = here /\ step' \in {next, "cleanup"} /\ UNCHANGED <<call, pinned, tree, altered>>
    BY <1>5 DEF Check
  <2>2. here = "source" /\ call.op = "copy_in" /\ altered => step' = "cleanup"
    BY <1>5 DEF Check
  <2>3. pinned' = "none" => FALSE
    BY <2>1, <1>5 DEF RootInv
  <2> QED
    BY <1>5, <2>1, <2>2, <2>3, TreeKept DEF RootInv, Early, MakesDirectory
<1>6. ASSUME NEW here, NEW code, Fails(here, code) \/ Fault(here, code),
             here \notin {"idle", "open_parent", "closing", "done"}
      PROVE  RootInv'
  <2>1. step = here /\ step' = "cleanup" /\ UNCHANGED <<call, pinned, tree, altered>>
    BY <1>6 DEF Fails, Fault
  <2> QED
    BY <1>6, <2>1, TreeKept DEF RootInv, Early
<1>7. ASSUME NEW here \in {"cleanup", "sync_cleanup", "closing"},
             NEW next \in {"sync_cleanup", "closing"}, CleanupFault(here, next),
             here = "closing" => next = "closing"
      PROVE  RootInv'
  <2>1. step = here /\ step' = next /\ UNCHANGED <<call, pinned, tree, altered>>
    BY <1>7 DEF CleanupFault
  <2> QED
    BY <1>7, <2>1, TreeKept DEF RootInv, Early
<1>8. ASSUME Return PROVE RootInv'
  BY <1>8, TreeKept DEF Return, RootInv, Early
<1> DEFINE Stays(d) == live'[d]["f"] = "new" => live[d]["f"] = "new"
<1>9. ASSUME live' \in Tree, live'["root"]["d"] # "made", \A d \in Directories : Stays(d),
             step' # "idle", step' \in Early => step \in Early,
             step' \notin {"source", "sync_new", "revalidate_again", "destination_again", "replace"} \/ step' = step,
             pinned # "none" \/ step' = step, UNCHANGED <<call, pinned, synced, data, stable, altered>>
      PROVE  RootInv'
  <2>1. \A d \in Directories : Published(d)' => Published(d)
    BY <1>9 DEF Published
  <2> QED
    BY <1>9, <2>1 DEF RootInv, MakesDirectory
<1>10. ASSUME MakeDirectory PROVE RootInv'
  <2>1. CASE live[pinned]["f"] = NoEntry
    <3>1. /\ step = "mkdir" /\ step' = "stat" /\ live' = [live EXCEPT ![pinned]["f"] = "made"]
          /\ UNCHANGED <<call, pinned, synced, data, stable, altered>>
      BY <1>10, <2>1 DEF MakeDirectory, Change
    <3>2. pinned \in Directories
      BY <3>1 DEF RootInv
    <3>3. live' \in Tree /\ live'["root"]["d"] # "made" /\ \A d \in Directories : Stays(d)
      BY SMT, <3>1, <3>2 DEF RootInv, Tree, Names, Entries, Directories
    <3> QED
      BY <3>1, <3>2, <3>3, <1>9 DEF Early, Directories
  <2>2. CASE live[pinned]["f"] # NoEntry
    BY <1>10, <2>2, <1>6 DEF MakeDirectory
  <2> QED
    BY <2>1, <2>2
<1>11. ASSUME IdentifyDirectory PROVE RootInv'
  <2>1. CASE live[pinned]["f"] = NoEntry
    BY <1>11, <2>1, <1>6 DEF IdentifyDirectory
  <2>2. CASE live[pinned]["f"] # NoEntry
    <3>1. step = "stat" /\ step' = "secure" /\ UNCHANGED <<call, pinned, tree, altered>>
      BY <1>11, <2>2 DEF IdentifyDirectory, Change
    <3> QED
      BY <3>1, TreeKept DEF RootInv, Early
  <2> QED
    BY <2>1, <2>2
<1>12. ASSUME SyncDirectory PROVE RootInv'
  <2>1. /\ step = "sync_new" /\ step' = "revalidate_again" /\ call.op = "mkdir"
        /\ UNCHANGED <<call, pinned, tree, altered>>
    BY <1>12 DEF SyncDirectory, Change, MakesDirectory
  <2> QED
    BY <2>1, TreeKept DEF RootInv, Early
<1>13. ASSUME _create_temporary PROVE RootInv'
  <2>1. /\ step = "create" /\ step' = "secure" /\ live' = [live EXCEPT ![pinned]["t"] = "new"]
        /\ UNCHANGED <<call, pinned, synced, data, stable, altered>>
    BY <1>13 DEF _create_temporary, Change
  <2>2. pinned \in Directories
    BY <2>1 DEF RootInv
  <2>3. live' \in Tree /\ live'["root"]["d"] # "made" /\ \A d \in Directories : Stays(d)
    BY SMT, <2>1, <2>2 DEF RootInv, Tree, Names, Entries, Directories
  <2> QED
    BY <2>1, <2>2, <2>3, <1>9 DEF Early, Directories
<1>14. ASSUME SecureTemporary PROVE RootInv'
  <2>1. step = "secure" /\ step' = "write" /\ UNCHANGED <<call, pinned, tree, altered>>
    BY <1>14 DEF SecureTemporary, Change
  <2> QED
    BY <2>1, TreeKept DEF RootInv, Early
<1>15. ASSUME _write_all \/ WriteRest PROVE RootInv'
  <2>1. /\ \/ step = "write" /\ step' = "write_rest"
           \/ step = "write_rest" /\ step' = "source" /\ data' = IF altered THEN "mixed" ELSE "whole"
        /\ UNCHANGED <<call, pinned, live, synced, stable, altered>>
    BY <1>15 DEF _write_all, WriteRest, Change
  <2>2. \A d \in Directories : ~Published(d) /\ ~Published(d)'
    BY <2>1 DEF RootInv, Published, Early
  <2> QED
    BY <2>1, <2>2 DEF RootInv
<1>16. ASSUME SyncTemporary PROVE RootInv'
  <2>1. /\ step = "sync_new" /\ step' = "revalidate_again" /\ ~MakesDirectory /\ stable' = data
        /\ UNCHANGED <<call, pinned, live, synced, data, altered>>
    BY <1>16 DEF SyncTemporary, Change
  <2>2. \A d \in Directories : ~Published(d) /\ ~Published(d)'
    BY <2>1 DEF RootInv, Published, Early
  <2> QED
    BY <2>1, <2>2 DEF RootInv, Early
<1>17. ASSUME Replace PROVE RootInv'
  <2>1. CASE _entry_kind = "directory"
    BY <1>17, <2>1, <1>6 DEF Replace
  <2>2. CASE _entry_kind # "directory"
    <3>1. /\ step = "replace" /\ step' = "sync_parent"
          /\ live' = [live EXCEPT ![pinned] = [@ EXCEPT !["f"] = "new", !["t"] = NoEntry]]
          /\ UNCHANGED <<call, pinned, synced, data, stable, altered>>
      BY <1>17, <2>2 DEF Replace, Change
    <3>2. pinned \in Directories
      BY <3>1 DEF RootInv
    <3>3. live' \in Tree /\ live'["root"]["d"] # "made"
      BY SMT, <3>1, <3>2 DEF RootInv, Tree, Names, Entries, Directories, NoEntry
    <3>4. data = "whole" /\ stable = "whole"
      BY <3>1 DEF RootInv
    <3> QED
      BY <3>1, <3>3, <3>4, <3>2 DEF RootInv, Early, Directories
  <2> QED
    BY <2>1, <2>2
<1>18. ASSUME SyncParent \/ SyncCleanup PROVE RootInv'
  <2>1. /\ step \in {"sync_parent", "sync_cleanup"} /\ step' \in {"revalidate_last", "closing"}
        /\ synced' = [synced EXCEPT ![pinned] = live[pinned]]
        /\ UNCHANGED <<call, pinned, live, data, stable, altered>>
    BY <1>18 DEF SyncParent, SyncCleanup, Change
  <2>2. pinned \in Directories
    BY <2>1 DEF RootInv
  <2>3. synced' \in Tree /\ synced'["root"]["d"] # "made"
    BY <2>1, <2>2 DEF RootInv, Tree, Directories
  <2>4. \A d \in Directories : Published(d)' => Published(d)
    BY <2>1, <2>2 DEF RootInv, Tree, Published
  <2> QED
    BY <2>1, <2>2, <2>3, <2>4 DEF RootInv, Early, Directories
<1>19. ASSUME Cleanup PROVE RootInv'
  <2>0. step = "cleanup" /\ pinned \in Directories
    BY <1>19 DEF Cleanup, RootInv
  <2>1. ASSUME NEW n \in {"t", "f"}, live' = [live EXCEPT ![pinned][n] = NoEntry],
               Change("cleanup", "sync_cleanup"), UNCHANGED <<synced, data, stable>>
        PROVE  RootInv'
    <3>1. live' \in Tree /\ live'["root"]["d"] # "made" /\ \A d \in Directories : Stays(d)
      BY SMT, <2>0, <2>1 DEF RootInv, Tree, Names, Entries, Directories, NoEntry
    <3>2. step' = "sync_cleanup" /\ UNCHANGED <<call, pinned, altered>>
      BY <2>1 DEF Change
    <3> QED
      BY <2>0, <2>1, <3>1, <3>2, <1>9 DEF Early, Directories
  <2>2. ASSUME Goto(IF AtCreated THEN "sync_cleanup" ELSE "closing"),
               UNCHANGED <<call, pinned, live, altered, synced, data, stable>>
        PROVE  RootInv'
    <3>1. step' \in {"sync_cleanup", "closing"} /\ UNCHANGED tree
      BY <2>2 DEF tree
    <3> QED
      BY <2>0, <2>2, <3>1, TreeKept DEF RootInv, Early, Directories
  <2>3. UNCHANGED <<synced, data, stable>>
    BY <1>19 DEF Cleanup
  <2>4. CASE AtTemporary
    BY <1>19, <2>1, <2>3, <2>4 DEF Cleanup
  <2>5. CASE ~AtTemporary /\ AtCreated /\ live[pinned]["f"] = known /\ Kind[known] = "directory"
    BY <1>19, <2>1, <2>3, <2>5 DEF Cleanup
  <2>6. CASE ~AtTemporary /\ ~(AtCreated /\ live[pinned]["f"] = known /\ Kind[known] = "directory")
    BY <1>19, <2>2, <2>3, <2>6 DEF Cleanup
  <2> QED
    BY <2>4, <2>5, <2>6
<1>20. ASSUME NEW e \in {"E", "link", "old", "absent"}, MoveParent(e) PROVE RootInv'
  <2>1. /\ live' = [live EXCEPT !["root"]["d"] = e] /\ call # NoCall
        /\ UNCHANGED <<step, call, pinned, synced, data, stable, altered>>
    BY <1>20 DEF MoveParent, Disturb
  <2>2. live' \in Tree /\ live'["root"]["d"] # "made" /\ \A d \in Directories : Stays(d)
    BY SMT, <2>1 DEF RootInv, Tree, Names, Entries, Directories
  <2>3. step # "idle"
    BY <2>1 DEF RootInv
  <2> QED
    BY <2>1, <2>2, <2>3, <1>9
<1>21. ASSUME NEW e \in {"alien", "link", "E", "absent"}, PutEntry(e) PROVE RootInv'
  <2>1. /\ live' = [live EXCEPT ![pinned]["f"] = e] /\ call # NoCall /\ pinned # "none"
        /\ UNCHANGED <<step, call, pinned, synced, data, stable, altered>>
    BY <1>21 DEF PutEntry, Disturb
  <2>2. live' \in Tree /\ live'["root"]["d"] # "made" /\ \A d \in Directories : Stays(d)
    BY SMT, <2>1 DEF RootInv, Tree, Names, Entries, Directories
  <2>3. step # "idle"
    BY <2>1 DEF RootInv
  <2> QED
    BY <2>1, <2>2, <2>3, <1>9
<1>22. ASSUME NEW d \in Directories, ShareDirectory(d) PROVE RootInv'
  <2>1. UNCHANGED <<step, call, pinned, tree, altered>>
    BY <1>22 DEF ShareDirectory, Disturb, tree
  <2> QED
    BY <2>1, TreeKept DEF RootInv
<1>23. ASSUME AlterSource PROVE RootInv'
  <2>1. UNCHANGED <<step, call, pinned, tree>> /\ altered' = TRUE /\ call.op = "copy_in" /\ call # NoCall
    BY <1>23 DEF AlterSource, Disturb, tree
  <2>2. step # "idle"
    BY <2>1 DEF RootInv
  <2>3. step' = "sync_new" => step = "sync_new"
    BY <2>1
  <2> QED
    BY <2>1, <2>2, TreeKept DEF RootInv
<1>24. ASSUME Crash PROVE RootInv'
  <2>1. PICK lost \in SUBSET (Directories \X Names) :
          live' = [d \in Directories |-> [n \in Names |->
                     IF <<d, n>> \in lost THEN synced[d][n] ELSE live[d][n]]]
    BY SMT, <1>24 DEF Crash, Names
  <2>2. /\ step' = "stopped" /\ UNCHANGED <<call, pinned, synced, stable, altered>> /\ pinned # "none"
        /\ data' \in IF data = stable THEN {data} ELSE {data, stable, "part"}
    BY <1>24 DEF Crash
  <2>3. live' \in Tree /\ live'["root"]["d"] # "made"
    BY SMT, <2>1 DEF RootInv, Tree, Names, Directories
  <2>4. \A d \in Directories : Published(d)' => Published(d)
    BY <2>1, <2>2 DEF Published, Names
  <2>5. \A d \in Directories : Published(d) => data' = "whole" /\ stable' = "whole"
    BY <2>2 DEF RootInv
  <2> QED
    BY <2>2, <2>3, <2>4, <2>5 DEF RootInv, Early
<1>25. ASSUME UNCHANGED rootVars PROVE RootInv'
  BY <1>25, TreeKept DEF rootVars, tree, RootInv
<1>26. ASSUME CallNext PROVE RootInv'
  <2>1. ASSUME NEW next, CheckDestination("destination", next), next \in {"mkdir", "create"} PROVE RootInv'
    BY <2>1, <1>5 DEF CheckDestination
  <2>2. ASSUME _revalidate_parent("revalidate", "destination") \/ _revalidate_parent("revalidate_last", "post")
        PROVE  RootInv'
    BY <2>2, <1>5 DEF _revalidate_parent
  <2>3. ASSUME _revalidate_parent("revalidate_again", IF MakesDirectory THEN "sync_parent" ELSE "destination_again")
        PROVE  RootInv'
    <3>1. CASE MakesDirectory
      BY <2>3, <3>1, <1>5 DEF _revalidate_parent
    <3>2. CASE ~MakesDirectory
      BY <2>3, <3>2, <1>5 DEF _revalidate_parent
    <3> QED
      BY <3>1, <3>2
  <2>4. ASSUME CheckDestination("destination_again", "replace") \/ _post_mutation_revalidate PROVE RootInv'
    BY <2>4, <1>5 DEF CheckDestination, _post_mutation_revalidate
  <2>5. ASSUME SecureDirectory \/ _source_signature PROVE RootInv'
    BY <2>5, <1>5 DEF SecureDirectory, _source_signature
  <2> QED
    BY <1>26, <1>3, <1>4, <1>8, <1>10, <1>11, <1>12, <1>13, <1>14, <1>15, <1>16, <1>17, <1>18, <1>19,
       <2>1, <2>2, <2>3, <2>4, <2>5 DEF CallNext, mkdir, _atomic_file_mutation, copy_content
<1>27. ASSUME FaultNext PROVE RootInv'
  BY <1>27, <1>6, <1>7 DEF FaultNext
<1> QED
  BY <1>1, <1>2, <1>20, <1>21, <1>22, <1>23, <1>24, <1>25, <1>26, <1>27 DEF RootNext, OwnerNext

(* No destination ever holds a file that is not whole, crashes included.   *)
THEOREM DestinationsAreNeverTorn == RootSpec => []NeverTorn
<1>1. RootInv => NeverTorn
  BY DEF RootInv, NeverTorn, Published
<1> QED
  BY <1>1, RootStart, RootKeep, PTL DEF RootSpec

(* Where a call has a temporary file, where a directory of its own, and    *)
(* where its work is over.                                                 *)
Unmade == {"idle", "open_parent", "revalidate", "destination", "mkdir", "stat", "create"}
HasTemporary == {"secure", "write", "write_rest", "source", "sync_new", "revalidate_again",
                 "destination_again", "replace", "cleanup"}
HasCreated == {"secure", "sync_new", "cleanup"}
Over == {"done", "stopped"}

(* What a call knows at each step, whatever the tree holds.                *)
StepInv ==
  /\ root = "new" => step = "idle"
  /\ result # "none" => step \in Over
  /\ leftovers => step \in {"sync_cleanup", "closing"} \cup Over
  /\ result \notin {"none", "cleanup_failure"} => ~leftovers
  /\ step \in Unmade => known = "none"
  /\ step \in Early => ~published
  /\ step \in {"idle", "open_parent"} => pinned = "none" /\ error = "none"
  /\ step \in {"mkdir", "stat"} \/ known # "none" => MakesDirectory
  /\ step = "create" => ~MakesDirectory
  /\ step = "revalidate_again" /\ MakesDirectory => published
  /\ step \in {"sync_parent", "revalidate_last", "post"} => published
  /\ step = "sync_cleanup" => error # "none"
  /\ step \in {"cleanup", "closing"} /\ error = "none" => published /\ pinned # "none"
  /\ result = "ok" => published /\ pinned # "none"
  /\ error # "ok"

(* A temporary name is only used by a call at work on it, and what a call  *)
(* made and did not publish is gone once it is over, unless it says that a *)
(* cleanup failed.                                                         *)
LeftInv ==
  /\ \A d \in Directories : live[d]["t"] # NoEntry =>
       /\ ~MakesDirectory /\ d = pinned
       /\ \/ step \in HasTemporary /\ ~published /\ live[d]["t"] = "new"
          \/ leftovers \/ (step = "stopped" /\ result = "none")
  /\ \A d \in Directories : synced[d]["t"] # NoEntry => ~MakesDirectory /\ d = pinned /\ leftovers
  /\ step \in Early => \A d \in Directories : synced[d]["f"] # "made"
  /\ pinned # "none" /\ known = "made" /\ ~published =>
       /\ live[pinned]["f"] = "made" =>
            step \in HasCreated \/ leftovers \/ (step = "stopped" /\ result = "none")
       /\ synced[pinned]["f"] = "made" => leftovers

(* What the two looks after the change have established.                   *)
Witnessed ==
  /\ "f" \notin since => live[pinned]["f"] = Expected
  /\ "f" \notin since /\ "unsynced" \notin since => synced[pinned]["f"] = Expected
  /\ "d" \notin since => Walked = pinned

SeenInv ==
  /\ step \in {"revalidate_last", "post"} /\ "unsynced" \notin since =>
       synced[pinned]["f"] = live[pinned]["f"]
  /\ step = "post" /\ "d" \notin since => Walked = pinned
  /\ step \in {"cleanup", "closing"} /\ error = "none" => Witnessed
  /\ step = "done" /\ result = "ok" => Witnessed
  /\ step = "stopped" /\ result = "ok" /\ "f" \notin since /\ "unsynced" \notin since =>
       live[pinned]["f"] = Expected

LEMMA StepStart == RootInit => StepInv /\ LeftInv /\ SeenInv
<1> SUFFICES ASSUME RootInit PROVE StepInv /\ LeftInv /\ SeenInv
  OBVIOUS
<1>1. StepInv
  BY DEF RootInit, StepInv, Over, Unmade, Early, NoCall, MakesDirectory
<1>2. \A d \in Directories : live[d]["t"] = NoEntry /\ synced[d]["t"] = NoEntry /\ synced[d]["f"] # "made"
  BY SMT DEF RootInit, Directories, NoEntry
<1>3. LeftInv
  BY <1>2 DEF RootInit, LeftInv
<1>4. SeenInv
  BY DEF RootInit, SeenInv
<1> QED
  BY <1>1, <1>3, <1>4

(* The steps of a call that look and go on or raise.                       *)
LEMMA LookSteps ==
  ASSUME RootInv, StepInv, NEW here, NEW code, NEW next, Check(here, code, next),
         <<here, next>> \in {<<"revalidate", "destination">>, <<"destination", "mkdir">>,
           <<"destination", "create">>, <<"secure", "sync_new">>, <<"source", "sync_new">>,
           <<"revalidate_again", "sync_parent">>, <<"revalidate_again", "destination_again">>,
           <<"destination_again", "replace">>, <<"revalidate_last", "post">>, <<"post", "cleanup">>},
         next \in {"mkdir", "sync_parent"} => MakesDirectory, next = "create" => ~MakesDirectory, code # "ok"
  PROVE  StepInv'
<1>1. /\ step = here /\ UNCHANGED <<root, call, pinned, known, published, leftovers, result>>
      /\ \/ code = "none" /\ step' = next /\ UNCHANGED error
         \/ code # "none" /\ step' = "cleanup" /\ error' = code
  BY DEF Check, Goto, Raise, flags
<1>2. result = "none" /\ ~leftovers /\ pinned # "none"
  BY <1>1 DEF StepInv, RootInv, Over
<1> QED
  BY <1>1, <1>2 DEF StepInv, Over, Unmade, Early, MakesDirectory

(* A system call that fails.                                               *)
LEMMA FailSteps ==
  ASSUME RootInv, StepInv, NEW here, NEW code, Fails(here, code) \/ Fault(here, code), code \notin {"none", "ok"},
         here \notin {"idle", "open_parent", "sync_cleanup", "closing", "done", "stopped"}
  PROVE  StepInv'
<1>1. /\ step = here /\ UNCHANGED <<root, call, pinned, known, published, leftovers, result>>
      /\ step' = "cleanup" /\ error' = code
  BY DEF Fails, Fault, Raise, flags
<1>2. result = "none" /\ ~leftovers /\ pinned # "none"
  BY <1>1 DEF StepInv, RootInv, Over
<1> QED
  BY <1>1, <1>2 DEF StepInv, Over, Unmade, Early, MakesDirectory

(* A step that changes the tree or what the call knows.                    *)
LEMMA ChangeSteps ==
  ASSUME RootInv, StepInv,
         \/ Change("mkdir", "stat") /\ UNCHANGED <<known, published>>
         \/ Change("stat", "secure") /\ UNCHANGED published
         \/ SyncDirectory
         \/ Change("create", "secure") /\ UNCHANGED <<known, published>>
         \/ Change("secure", "write") /\ UNCHANGED <<known, published>>
         \/ Change("write", "write_rest") /\ UNCHANGED <<known, published>>
         \/ Change("write_rest", "source") /\ UNCHANGED <<known, published>>
         \/ SyncTemporary
         \/ Change("replace", "sync_parent") /\ published' /\ UNCHANGED known
         \/ SyncParent
  PROVE  StepInv'
<1>1. /\ UNCHANGED <<root, call, pinned, leftovers, result, error>>
      /\ \/ step = "mkdir" /\ step' = "stat" /\ UNCHANGED <<known, published>>
         \/ step = "stat" /\ step' = "secure" /\ UNCHANGED published
         \/ step = "sync_new" /\ step' = "revalidate_again" /\ published' /\ UNCHANGED known
         \/ step = "create" /\ step' = "secure" /\ UNCHANGED <<known, published>>
         \/ step = "secure" /\ step' = "write" /\ UNCHANGED <<known, published>>
         \/ step = "write" /\ step' = "write_rest" /\ UNCHANGED <<known, published>>
         \/ step = "write_rest" /\ step' = "source" /\ UNCHANGED <<known, published>>
         \/ step = "sync_new" /\ step' = "revalidate_again" /\ ~MakesDirectory /\ UNCHANGED <<known, published>>
         \/ step = "replace" /\ step' = "sync_parent" /\ published' /\ UNCHANGED known
         \/ step = "sync_parent" /\ step' = "revalidate_last" /\ UNCHANGED <<known, published>>
  BY DEF Change, Goto, SyncDirectory, SyncTemporary, SyncParent, flags
<1>2. result = "none" /\ ~leftovers /\ pinned # "none"
  BY <1>1 DEF StepInv, RootInv, Over
<1>3. CASE step \in {"mkdir", "stat", "create"}
  BY SMT, <1>1, <1>2, <1>3 DEF StepInv, Over, Unmade, Early, MakesDirectory
<1>4. CASE step \in {"secure", "write", "write_rest"}
  BY SMT, <1>1, <1>2, <1>4 DEF StepInv, Over, Unmade, Early, MakesDirectory
<1>5. CASE step \in {"sync_new", "replace", "sync_parent"}
  BY SMT, <1>1, <1>2, <1>5 DEF StepInv, Over, Unmade, Early, MakesDirectory
<1> QED
  BY <1>1, <1>3, <1>4, <1>5

(* A step that ends the call before it has opened anything.                *)
LEMMA FirstSteps ==
  ASSUME RootInv, StepInv,
         \/ \E missing, place, uid : OpenRoot(missing, place, uid)
         \/ CloseRoot \/ \E c \in Calls : Begin(c)
  PROVE  StepInv'
<1>1. step = "idle"
  BY DEF OpenRoot, CloseRoot, Begin, StepInv
<1>2. UNCHANGED <<pinned, known, published, leftovers, error>>
  BY DEF OpenRoot, CloseRoot, Begin, flags, Finish, Goto
<1>3. \/ step' = "idle" /\ UNCHANGED <<result, call>> /\ root' # "new"
      \/ step' = "done" /\ result' # "ok" /\ root' # "new"
      \/ step' = "open_parent" /\ UNCHANGED result /\ root' # "new"
  <2>1. \A missing, place, uid : OpenedCode(missing, place, uid) # "ok"
    BY DEF OpenedCode, _root_open_code
  <2>2. ASSUME NEW missing, NEW place, NEW uid, OpenRoot(missing, place, uid)
        PROVE  \/ step' = "idle" /\ UNCHANGED <<result, call>> /\ root' # "new"
               \/ step' = "done" /\ result' # "ok" /\ root' # "new"
    BY <1>1, <2>1, <2>2 DEF OpenRoot, Finish
  <2>3. ASSUME NEW c \in Calls, Begin(c)
        PROVE  \/ step' = "done" /\ result' # "ok" /\ root' # "new"
               \/ step' = "open_parent" /\ UNCHANGED result /\ root' # "new"
    <3>1. Refused(c) # "ok"
      BY DEF Refused
    <3> QED
      BY <2>3, <3>1 DEF Begin, Finish, Goto
  <2>4. CloseRoot => step' = "idle" /\ UNCHANGED <<result, call>> /\ root' # "new"
    BY <1>1 DEF CloseRoot
  <2> QED
    BY <2>2, <2>3, <2>4
<1>4. ~leftovers /\ result = "none" /\ known = "none" /\ ~published /\ pinned = "none" /\ error = "none"
  BY SMT, <1>1 DEF StepInv, Over, Unmade, Early
<1> QED
  BY SMT, <1>1, <1>2, <1>3, <1>4 DEF StepInv, Over, Unmade, Early, MakesDirectory

LEMMA WalkResult ==
  ASSUME RootInv
  PROVE  /\ _walk_directories(Parents).dir \in Directories \cup {"none"}
         /\ _walk_directories(Parents).code = "none" => _walk_directories(Parents).dir # "none"
         /\ _walk_directories(Parents).code # "none" => _walk_directories(Parents).dir = "none"
         /\ _walk_directories(Parents).code # "ok"
<1>1. live["root"]["d"] \in Entries
  BY DEF RootInv, Tree, Directories, Names
<1>2. ASSUME _traversal_os_error(live["root"]["d"]) = "none" PROVE live["root"]["d"] \in Directories
  BY SMT, <1>1, <1>2 DEF _traversal_os_error, Kind, Entries, Directories, RootInv
<1> QED
  BY <1>2 DEF _walk_directories, Directories, _traversal_os_error

LEMMA OpenSteps ==
  ASSUME RootInv, StepInv, _open_parent
  PROVE  StepInv'
<1>1. /\ step = "open_parent" /\ UNCHANGED <<root, call, known, published, leftovers, result>>
      /\ \/ step' = "revalidate" /\ error' = "none" /\ pinned' # "none"
         \/ step' = "closing" /\ error' \notin {"none", "ok"} /\ pinned' = "none"
  BY WalkResult DEF _open_parent, flags
<1>2. ~leftovers /\ result = "none" /\ known = "none" /\ ~published
  BY SMT, <1>1 DEF StepInv, Over, Unmade, Early
<1> QED
  BY SMT, <1>1, <1>2 DEF StepInv, Over, Unmade, Early, MakesDirectory

(* Cleaning up and returning.                                              *)
LEMMA LastSteps ==
  ASSUME RootInv, StepInv,
         \/ Cleanup \/ SyncCleanup \/ Return \/ CleanupFault("closing", "closing")
         \/ CleanupFault("sync_cleanup", "closing")
         \/ (AtCreated \/ AtTemporary) /\ CleanupFault("cleanup", "sync_cleanup")
  PROVE  StepInv'
<1>1. CASE Return
  <2>1. /\ step = "closing" /\ step' = "done" /\ result' = _combined_cleanup_error
        /\ UNCHANGED <<root, call, pinned, known, published, leftovers, error>>
    BY <1>1 DEF Return, Finish, flags
  <2>2. /\ result' = "ok" => error = "none" /\ ~leftovers
        /\ leftovers => result' = "cleanup_failure"
    BY <2>1 DEF _combined_cleanup_error, StepInv
  <2> QED
    BY SMT, <2>1, <2>2 DEF StepInv, Over, Unmade, Early, MakesDirectory
<1>2. CASE ~Return
  <2>1. /\ UNCHANGED <<root, call, pinned, known, published, result, error>>
        /\ step \in {"cleanup", "sync_cleanup", "closing"} /\ step' \in {"sync_cleanup", "closing"}
        /\ step = "closing" => step' = "closing"
        /\ step = "sync_cleanup" => step' = "closing"
        /\ step' = "sync_cleanup" => step = "cleanup" /\ ~published
    <3>1. CASE Cleanup
      <4>1. /\ UNCHANGED <<root, call, pinned, known, published, result, error>>
            /\ step = "cleanup" /\ step' \in {"sync_cleanup", "closing"}
            /\ step' = "sync_cleanup" => AtTemporary \/ AtCreated
        <5>1. CASE AtTemporary
          BY <3>1, <5>1 DEF Cleanup, Change, Goto
        <5>2. CASE ~AtTemporary /\ AtCreated /\ live[pinned]["f"] = known /\ Kind[known] = "directory"
          BY <3>1, <5>2 DEF Cleanup, Change, Goto
        <5>3. CASE ~AtTemporary /\ ~(AtCreated /\ live[pinned]["f"] = known /\ Kind[known] = "directory")
          BY <3>1, <5>3 DEF Cleanup, Goto
        <5> QED
          BY <5>1, <5>2, <5>3
      <4> QED
        BY <4>1 DEF AtTemporary, AtCreated
    <3>2. CASE SyncCleanup \/ CleanupFault("closing", "closing") \/ CleanupFault("sync_cleanup", "closing")
      BY <3>2 DEF SyncCleanup, CleanupFault, Change, Goto
    <3>3. CASE (AtCreated \/ AtTemporary) /\ CleanupFault("cleanup", "sync_cleanup")
      BY <3>3 DEF CleanupFault, Goto, AtCreated, AtTemporary
    <3> QED
      BY <1>2, <3>1, <3>2, <3>3
  <2>2. result = "none"
    BY <2>1 DEF StepInv, Over
  <2> QED
    BY SMT, <2>1, <2>2 DEF StepInv, Over, Unmade, Early, MakesDirectory
<1> QED
  BY <1>1, <1>2

(* The owner and the host leave what the call knows.                       *)
LEMMA OwnerSteps ==
  ASSUME RootInv, StepInv, OwnerNext \/ Crash \/ UNCHANGED rootVars
  PROVE  StepInv'
<1>1. /\ UNCHANGED <<root, call, pinned, known, published, leftovers, result, error>>
      /\ step' = step \/ (step' = "stopped" /\ step \notin {"idle", "stopped"})
  BY DEF OwnerNext, MoveParent, PutEntry, ShareDirectory, AlterSource, Disturb, Crash, flags, rootVars
<1> QED
  BY SMT, <1>1 DEF StepInv, Over, Unmade, Early, MakesDirectory

LEMMA FailIo ==
  ASSUME RootInv, StepInv, Fails("stat", "io_failure") \/ Fails("replace", "io_failure")
  PROVE  StepInv'
<1>1. PICK here \in {"stat", "replace"} : Fails(here, "io_failure")
  OBVIOUS
<1>2. here \notin {"idle", "open_parent", "sync_cleanup", "closing", "done", "stopped"}
  OBVIOUS
<1>3. "io_failure" \notin {"none", "ok"}
  OBVIOUS
<1> QED
  BY <1>1, <1>2, <1>3, FailSteps

LEMMA CallSteps ==
  ASSUME RootInv, StepInv, CallNext
  PROVE  StepInv'
<1>1. ASSUME NEW here, NEW next, _revalidate_parent(here, next),
             \/ here = "revalidate" /\ next = "destination"
             \/ here = "revalidate_last" /\ next = "post"
             \/ here = "revalidate_again" /\ next = "sync_parent" /\ MakesDirectory
             \/ here = "revalidate_again" /\ next = "destination_again"
      PROVE  StepInv'
  <2>1. PICK code : code = IF Walked = pinned THEN "none" ELSE "race_detected"
    OBVIOUS
  <2>2. code # "ok"
    BY <2>1
  <2>3. Check(here, code, next)
    BY <1>1, <2>1 DEF _revalidate_parent
  <2> QED
    BY <1>1, <2>2, <2>3, LookSteps
<1>2. ASSUME NEW here, NEW next, CheckDestination(here, next),
             \/ here = "destination_again" /\ next = "replace"
             \/ here = "destination" /\ next = "mkdir" /\ MakesDirectory
             \/ here = "destination" /\ next = "create" /\ ~MakesDirectory
      PROVE  StepInv'
  <2>1. PICK code : code = DestinationCode
    OBVIOUS
  <2>2. code # "ok"
    BY <2>1 DEF DestinationCode, _require_absent_directory_destination, _require_regular_destination
  <2>3. Check(here, code, next)
    BY <1>2, <2>1 DEF CheckDestination
  <2> QED
    BY <1>2, <2>2, <2>3, LookSteps
<1>3. ASSUME SecureDirectory PROVE StepInv'
  <2>1. PICK code :
          code = IF known \in Directories /\ ~_require_safe_parent(known) THEN "unsafe_parent"
                 ELSE IF _entry_kind = "symlink" THEN "symlink_component"
                 ELSE IF _entry_kind # "directory" THEN "io_failure"
                 ELSE IF live[pinned]["f"] # known THEN "race_detected" ELSE "none"
    OBVIOUS
  <2>2. code # "ok"
    BY <2>1
  <2>3. Check("secure", code, "sync_new")
    BY <1>3, <2>1 DEF SecureDirectory
  <2> QED
    BY <2>2, <2>3, LookSteps
<1>4. ASSUME _source_signature PROVE StepInv'
  <2>1. PICK code : code = IF call.op = "copy_in" /\ altered THEN "source_changed" ELSE "none"
    OBVIOUS
  <2>2. code # "ok"
    BY <2>1
  <2>3. Check("source", code, "sync_new")
    BY <1>4, <2>1 DEF _source_signature
  <2> QED
    BY <2>2, <2>3, LookSteps
<1>5. ASSUME _post_mutation_revalidate PROVE StepInv'
  <2>1. PICK code : code = IF live[pinned]["f"] = Expected THEN "none" ELSE "race_detected"
    OBVIOUS
  <2>2. code # "ok"
    BY <2>1
  <2>3. Check("post", code, "cleanup")
    BY <1>5, <2>1 DEF _post_mutation_revalidate
  <2> QED
    BY <2>2, <2>3, LookSteps
<1>6. ASSUME MakeDirectory PROVE StepInv'
  <2>1. CASE live[pinned]["f"] = NoEntry
    BY <1>6, <2>1, ChangeSteps DEF MakeDirectory
  <2>2. CASE live[pinned]["f"] # NoEntry
    <3>1. PICK code : code = IF _entry_kind = "symlink" THEN "symlink_component" ELSE "invalid_destination"
      OBVIOUS
    <3>2. code \notin {"none", "ok"}
      BY <3>1
    <3>3. Fails("mkdir", code)
      BY <1>6, <2>2, <3>1 DEF MakeDirectory
    <3> QED
      BY <3>2, <3>3, FailSteps
  <2> QED
    BY <2>1, <2>2
<1>7. ASSUME IdentifyDirectory PROVE StepInv'
  <2>1. CASE live[pinned]["f"] = NoEntry
    BY <1>7, <2>1, FailIo DEF IdentifyDirectory
  <2>2. CASE live[pinned]["f"] # NoEntry
    BY <1>7, <2>2, ChangeSteps DEF IdentifyDirectory
  <2> QED
    BY <2>1, <2>2
<1>8. ASSUME Replace PROVE StepInv'
  <2>1. CASE _entry_kind = "directory"
    BY <1>8, <2>1, FailIo DEF Replace
  <2>2. CASE _entry_kind # "directory"
    BY <1>8, <2>2, ChangeSteps DEF Replace
  <2> QED
    BY <2>1, <2>2
<1>9. ASSUME \/ SyncDirectory \/ _create_temporary \/ SecureTemporary \/ _write_all \/ WriteRest
             \/ SyncTemporary \/ SyncParent
      PROVE  StepInv'
  BY <1>9, ChangeSteps DEF _create_temporary, SecureTemporary, _write_all, WriteRest
<1>10. ASSUME \/ CheckDestination("destination", IF MakesDirectory THEN "mkdir" ELSE "create")
              \/ _revalidate_parent("revalidate_again", IF MakesDirectory THEN "sync_parent" ELSE "destination_again")
       PROVE  StepInv'
  <2>1. CASE MakesDirectory
    BY <1>1, <1>2, <1>10, <2>1
  <2>2. CASE ~MakesDirectory
    BY <1>1, <1>2, <1>10, <2>2
  <2> QED
    BY <2>1, <2>2
<1>11. ASSUME mkdir \/ _atomic_file_mutation PROVE StepInv'
  BY <1>2, <1>3, <1>4, <1>6, <1>7, <1>8, <1>9, <1>11 DEF mkdir, _atomic_file_mutation, copy_content
<1>12. ASSUME \E c \in Calls : Begin(c) PROVE StepInv'
  BY <1>12, FirstSteps
<1>13. ASSUME _open_parent \/ Cleanup \/ SyncCleanup \/ Return PROVE StepInv'
  BY <1>13, OpenSteps, LastSteps
<1>14. ASSUME _revalidate_parent("revalidate", "destination") \/ _revalidate_parent("revalidate_last", "post")
       PROVE  StepInv'
  <2>1. CASE _revalidate_parent("revalidate", "destination")
    BY <1>1, <2>1
  <2>2. CASE _revalidate_parent("revalidate_last", "post")
    BY <1>1, <2>2
  <2> QED
    BY <1>14, <2>1, <2>2
<1> QED
  BY <1>5, <1>9, <1>10, <1>11, <1>12, <1>13, <1>14 DEF CallNext

LEMMA StepKeep ==
  ASSUME RootInv, StepInv, [RootNext]_rootVars
  PROVE  StepInv'
<1>1. ASSUME FaultNext PROVE StepInv'
  <2>1. _mutation_os_error \notin {"none", "ok"}
    BY DEF _mutation_os_error
  <2>2. ASSUME NEW here, NEW code, Fault(here, code),
               here \in {"create", "secure", "write", "write_rest", "source", "stat", "sync_new", "sync_parent",
                        "mkdir", "replace"},
               code \in {"io_failure", "durability_unavailable", _mutation_os_error}
        PROVE  StepInv'
    BY <2>1, <2>2, FailSteps
  <2> QED
    BY <1>1, <2>2, LastSteps DEF FaultNext
<1> QED
  BY <1>1, CallSteps, FirstSteps, OwnerSteps DEF RootNext

(* One entry is changed.                                                   *)
LEMMA EntryChanged ==
  ASSUME RootInv, NEW at \in Directories, NEW n \in Names, NEW e, live' = [live EXCEPT ![at][n] = e]
  PROVE  /\ live'[at][n] = e
         /\ \A d \in Directories, m \in Names : d # at \/ m # n => live'[d][m] = live[d][m]
<1>1. live \in [Directories -> [Names -> Entries]]
  BY DEF RootInv, Tree
<1> QED
  BY <1>1

LEMMA DestinationChanged ==
  ASSUME RootInv, NEW at \in Directories, NEW e, live' = [live EXCEPT ![at]["f"] = e]
  PROVE  /\ live'[at]["f"] = e /\ live'["root"]["d"] = live["root"]["d"]
         /\ \A d \in Directories : live'[d]["t"] = live[d]["t"]
<1>1. "f" \in Names /\ "t" \in Names /\ "d" \in Names /\ "root" \in Directories
  BY DEF Names, Directories
<1>2. live \in [Directories -> [Names -> Entries]]
  BY DEF RootInv, Tree
<1> QED
  BY SMT, <1>1, <1>2

LEMMA ParentMoved ==
  ASSUME RootInv, NEW e, live' = [live EXCEPT !["root"]["d"] = e]
  PROVE  \A d \in Directories : live'[d]["f"] = live[d]["f"] /\ live'[d]["t"] = live[d]["t"]
<1>1. "f" \in Names /\ "t" \in Names /\ "d" \in Names /\ "root" \in Directories
  BY DEF Names, Directories
<1>2. live \in [Directories -> [Names -> Entries]]
  BY DEF RootInv, Tree
<1> QED
  BY SMT, <1>1, <1>2

(* Steps that leave the tree, the call and what it knows.                  *)
LEMMA LeftFrame ==
  ASSUME LeftInv, UNCHANGED <<live, synced, call, pinned, known, published>>,
         leftovers => leftovers', step' \in Early => step \in Early,
         step \in HasTemporary /\ ~MakesDirectory => step' \in HasTemporary,
         step \in HasCreated /\ known # "none" => step' \in HasCreated,
         step = "stopped" => UNCHANGED <<step, result>>
  PROVE  LeftInv'
<1>1. known = "made" => known # "none"
  OBVIOUS
<1> QED
  BY <1>1 DEF LeftInv, MakesDirectory

LEMMA LeftLooks ==
  ASSUME RootInv, StepInv, LeftInv, NEW here, NEW code, NEW next, Check(here, code, next),
         <<here, next>> \in {<<"revalidate", "destination">>, <<"destination", "mkdir">>,
           <<"destination", "create">>, <<"secure", "sync_new">>, <<"source", "sync_new">>,
           <<"revalidate_again", "sync_parent">>, <<"revalidate_again", "destination_again">>,
           <<"destination_again", "replace">>, <<"revalidate_last", "post">>, <<"post", "cleanup">>},
         next = "sync_parent" => MakesDirectory
  PROVE  LeftInv'
<1>1. /\ step = here /\ step' \in {next, "cleanup"}
      /\ UNCHANGED <<live, synced, call, pinned, known, published, leftovers>>
  BY DEF Check, Goto, Raise, flags, tree
<1>2. /\ step' \in Early => step \in Early
      /\ step \in HasTemporary /\ ~MakesDirectory => step' \in HasTemporary
      /\ step \in HasCreated => step' \in HasCreated /\ step # "stopped"
  BY <1>1, SMT DEF Early, HasTemporary, HasCreated
<1>3. step # "stopped"
  BY <1>1
<1> QED
  BY <1>1, <1>2, <1>3, LeftFrame

LEMMA LeftFails ==
  ASSUME RootInv, StepInv, LeftInv, NEW here, NEW code, Fails(here, code) \/ Fault(here, code), here # "stopped"
  PROVE  LeftInv'
<1>1. /\ step = here /\ step' = "cleanup"
      /\ UNCHANGED <<live, synced, call, pinned, known, published, leftovers>>
  BY DEF Fails, Fault, Raise, flags, tree
<1>2. "cleanup" \notin Early /\ "cleanup" \in HasTemporary /\ "cleanup" \in HasCreated
  BY DEF Early, HasTemporary, HasCreated
<1> QED
  BY <1>1, <1>2, LeftFrame

LEMMA LeftFirst ==
  ASSUME RootInv, StepInv, LeftInv,
         \/ \E missing, place, uid : OpenRoot(missing, place, uid)
         \/ CloseRoot \/ (\E c \in Calls : Begin(c)) \/ _open_parent
  PROVE  LeftInv'
<1>1. step \in {"idle", "open_parent"}
  BY DEF OpenRoot, CloseRoot, Begin, _open_parent, StepInv
<1>2. UNCHANGED <<live, synced, known, published, leftovers>>
  BY DEF OpenRoot, CloseRoot, Begin, _open_parent, flags, tree
<1>3. known = "none" /\ ~leftovers
  BY <1>1 DEF StepInv, Unmade, Over
<1>4. \A d \in Directories : live[d]["t"] = NoEntry /\ synced[d]["t"] = NoEntry /\ synced[d]["f"] # "made"
  BY <1>1, <1>3 DEF LeftInv, HasTemporary, Early
<1> QED
  BY <1>2, <1>3, <1>4 DEF LeftInv

LEMMA LeftChanges ==
  ASSUME RootInv, StepInv, LeftInv,
         \/ SecureTemporary \/ _write_all \/ WriteRest \/ SyncTemporary \/ Return \/ UNCHANGED rootVars
         \/ (\E d \in Directories : ShareDirectory(d)) \/ AlterSource
  PROVE  LeftInv'
<1>1. UNCHANGED <<live, synced, call, pinned, known, published, leftovers>>
  BY DEF SecureTemporary, _write_all, WriteRest, SyncTemporary, Return, rootVars, ShareDirectory, AlterSource,
     Disturb, Change, flags, tree
<1>2. \/ step' = step /\ UNCHANGED result
      \/ step = "secure" /\ step' = "write" /\ ~MakesDirectory
      \/ step = "write" /\ step' = "write_rest"
      \/ step = "write_rest" /\ step' = "source"
      \/ step = "sync_new" /\ step' = "revalidate_again" /\ ~MakesDirectory
      \/ step = "closing" /\ step' = "done"
  BY DEF SecureTemporary, _write_all, WriteRest, SyncTemporary, Return, rootVars, ShareDirectory, AlterSource,
     Disturb, Change, Goto, Finish
<1>3. ~MakesDirectory => known = "none"
  BY DEF StepInv
<1>4. /\ step' \in Early => step \in Early
      /\ step \in HasTemporary /\ ~MakesDirectory => step' \in HasTemporary
      /\ step \in HasCreated /\ known # "none" => step' \in HasCreated
      /\ step = "stopped" => UNCHANGED <<step, result>>
  BY <1>2, <1>3, SMT DEF Early, HasTemporary, HasCreated
<1> QED
  BY <1>1, <1>4, LeftFrame

(* Steps that change an entry of the opened directory.                     *)
LEMMA LeftMakes ==
  ASSUME RootInv, StepInv, LeftInv, Change("mkdir", "stat"), live' = [live EXCEPT ![pinned]["f"] = "made"],
         UNCHANGED <<synced, known, published>>
  PROVE  LeftInv'
<1>1. step = "mkdir" /\ step' = "stat" /\ UNCHANGED <<call, pinned, leftovers, result>>
  BY DEF Change, Goto
<1>2. pinned \in Directories /\ known = "none" /\ step \in Early /\ step \notin HasTemporary
  BY <1>1 DEF RootInv, StepInv, Unmade, Early, HasTemporary
<1>3. \A d \in Directories : live'[d]["t"] = live[d]["t"]
  BY <1>2, EntryChanged DEF Names
<1> QED
  BY <1>1, <1>2, <1>3 DEF LeftInv, MakesDirectory

LEMMA LeftIdentifies ==
  ASSUME RootInv, StepInv, LeftInv, Change("stat", "secure"), UNCHANGED <<tree, published>>
  PROVE  LeftInv'
<1>1. step = "stat" /\ step' = "secure" /\ UNCHANGED <<call, pinned, leftovers, result, live, synced>>
  BY DEF Change, Goto, tree
<1>2. step \in Early /\ step \notin HasTemporary /\ step' \in HasCreated /\ step # "stopped"
  BY <1>1 DEF Early, HasTemporary, HasCreated
<1>3. pinned \in Directories
  BY <1>1 DEF RootInv
<1> QED
  BY <1>1, <1>2, <1>3 DEF LeftInv, MakesDirectory

LEMMA LeftSyncsDirectory ==
  ASSUME RootInv, StepInv, LeftInv, SyncDirectory
  PROVE  LeftInv'
<1>1. /\ MakesDirectory /\ published' /\ step' = "revalidate_again"
      /\ UNCHANGED <<call, pinned, leftovers, result, live, synced, known>>
  BY DEF SyncDirectory, Change, Goto, tree
<1>2. step' \notin Early
  BY <1>1 DEF Early
<1> QED
  BY <1>1, <1>2 DEF LeftInv, MakesDirectory

LEMMA LeftCreates ==
  ASSUME RootInv, StepInv, LeftInv, _create_temporary
  PROVE  LeftInv'
<1>1. /\ step = "create" /\ step' = "secure" /\ live' = [live EXCEPT ![pinned]["t"] = "new"]
      /\ UNCHANGED <<call, pinned, leftovers, result, synced, known, published>>
  BY DEF _create_temporary, Change, Goto
<1>2. /\ pinned \in Directories /\ known = "none" /\ ~MakesDirectory /\ ~published
      /\ step \in Early /\ step' \in HasTemporary
  BY <1>1 DEF RootInv, StepInv, Unmade, Early, HasTemporary
<1>3. live'[pinned]["t"] = "new" /\ \A d \in Directories : d # pinned => live'[d]["t"] = live[d]["t"]
  BY <1>1, <1>2, EntryChanged DEF Names
<1>4. \A d \in Directories : d # pinned => live'[d]["t"] = NoEntry
  BY <1>3 DEF LeftInv
<1> QED
  BY <1>1, <1>2, <1>3, <1>4 DEF LeftInv, MakesDirectory

LEMMA LeftReplaces ==
  ASSUME RootInv, StepInv, LeftInv, Change("replace", "sync_parent"), published',
         live' = [live EXCEPT ![pinned] = [@ EXCEPT !["f"] = "new", !["t"] = NoEntry]],
         UNCHANGED <<synced, known>>
  PROVE  LeftInv'
<1>1. step = "replace" /\ step' = "sync_parent" /\ UNCHANGED <<call, pinned, leftovers, result>>
  BY DEF Change, Goto
<1>2. pinned \in Directories /\ live \in [Directories -> [Names -> Entries]] /\ step' \notin Early
  BY <1>1 DEF RootInv, Early, Tree
<1>3. live'[pinned]["t"] = NoEntry /\ \A d \in Directories : d # pinned => live'[d]["t"] = live[d]["t"]
  BY <1>2 DEF Names
<1>4. \A d \in Directories : live'[d]["t"] = NoEntry
  BY <1>3 DEF LeftInv
<1> QED
  BY <1>1, <1>2, <1>4 DEF LeftInv, MakesDirectory

LEMMA LeftSyncs ==
  ASSUME RootInv, StepInv, LeftInv, SyncParent \/ SyncCleanup
  PROVE  LeftInv'
<1>1. /\ step \in {"sync_parent", "sync_cleanup"} /\ step' \in {"revalidate_last", "closing"}
      /\ synced' = [synced EXCEPT ![pinned] = live[pinned]]
      /\ UNCHANGED <<call, pinned, leftovers, result, live, known, published>>
  BY DEF SyncParent, SyncCleanup, Change, Goto, flags
<1>2. /\ pinned \in Directories /\ step' \notin Early /\ step \notin HasTemporary /\ step \notin HasCreated
      /\ step # "stopped" /\ step' \notin HasTemporary /\ step' \notin HasCreated
  BY <1>1 DEF RootInv, Early, HasTemporary, HasCreated
<1>3. synced'[pinned] = live[pinned] /\ \A d \in Directories : d # pinned => synced'[d] = synced[d]
  BY <1>1, <1>2 DEF RootInv, Tree
<1>4. \A d \in Directories : live[d]["t"] # NoEntry => ~MakesDirectory /\ d = pinned /\ leftovers
  BY <1>2 DEF LeftInv
<1>5. known = "made" /\ ~published /\ live[pinned]["f"] = "made" => leftovers
  BY <1>2 DEF LeftInv, Directories
<1>6. \A d \in Directories : synced'[d]["t"] # NoEntry => ~MakesDirectory /\ d = pinned /\ leftovers
  BY <1>3, <1>4 DEF LeftInv
<1> QED
  BY <1>1, <1>2, <1>3, <1>4, <1>5, <1>6 DEF LeftInv, MakesDirectory

LEMMA LeftCleans ==
  ASSUME RootInv, StepInv, LeftInv, Cleanup
  PROVE  LeftInv'
<1>1. step = "cleanup" /\ UNCHANGED <<synced, known, published>>
  BY DEF Cleanup
<1>2. pinned \in Directories
  BY <1>1 DEF RootInv
<1>3. CASE AtTemporary
  <2>1. /\ step' = "sync_cleanup" /\ live' = [live EXCEPT ![pinned]["t"] = NoEntry]
        /\ UNCHANGED <<call, pinned, leftovers, result>>
    BY <1>3 DEF Cleanup, Change, Goto
  <2>2. /\ live'[pinned]["t"] = NoEntry /\ live'[pinned]["f"] = live[pinned]["f"]
        /\ \A d \in Directories : d # pinned => live'[d]["t"] = live[d]["t"]
    BY <1>2, <2>1, EntryChanged DEF Names
  <2>3. \A d \in Directories : live'[d]["t"] = NoEntry
    BY <2>2 DEF LeftInv
  <2>4. ~MakesDirectory /\ known = "none"
    <3>1. live[pinned]["t"] # NoEntry
      BY <1>3 DEF AtTemporary, NoEntry
    <3> QED
      BY <1>2, <3>1 DEF LeftInv, StepInv
  <2>5. step' \notin Early
    BY <2>1 DEF Early
  <2> QED
    BY <1>1, <2>1, <2>3, <2>4, <2>5 DEF LeftInv, MakesDirectory
<1>4. CASE ~AtTemporary /\ AtCreated /\ live[pinned]["f"] = known /\ Kind[known] = "directory"
  <2>1. /\ step' = "sync_cleanup" /\ live' = [live EXCEPT ![pinned]["f"] = NoEntry]
        /\ UNCHANGED <<call, pinned, leftovers, result>>
    BY <1>4 DEF Cleanup, Change, Goto
  <2>2. live'[pinned]["f"] = NoEntry /\ \A d \in Directories : live'[d]["t"] = live[d]["t"]
    BY <1>2, <2>1, DestinationChanged
  <2>3. MakesDirectory
    BY <1>4 DEF AtCreated
  <2>4. step' \notin Early /\ live'[pinned]["f"] # "made"
    BY <2>1, <2>2 DEF Early, NoEntry
  <2> QED
    BY <1>1, <2>1, <2>2, <2>3, <2>4 DEF LeftInv, MakesDirectory
<1>5. CASE ~AtTemporary /\ ~(AtCreated /\ live[pinned]["f"] = known /\ Kind[known] = "directory")
  <2>1. /\ step' \in {"sync_cleanup", "closing"} /\ (leftovers => leftovers')
        /\ UNCHANGED <<call, pinned, live, result>>
    BY <1>5 DEF Cleanup, Goto
  <2>2. \A d \in Directories : live[d]["t"] # NoEntry => ~MakesDirectory /\ d = pinned /\ leftovers
    BY <1>1, <1>5 DEF LeftInv, AtTemporary
  <2>3. known = "made" /\ ~published => live[pinned]["f"] # "made"
    <3>1. Kind["made"] = "directory"
      BY DEF Kind
    <3>2. known = "made" => MakesDirectory
      BY DEF StepInv
    <3> QED
      BY <1>5, <3>1, <3>2 DEF AtCreated
  <2>4. step' \notin Early
    BY <2>1 DEF Early
  <2> QED
    BY <1>1, <2>1, <2>2, <2>3, <2>4 DEF LeftInv, MakesDirectory
<1> QED
  BY <1>3, <1>4, <1>5

LEMMA LeftCleanFails ==
  ASSUME RootInv, StepInv, LeftInv, NEW here, NEW next \in {"sync_cleanup", "closing"}, CleanupFault(here, next)
  PROVE  LeftInv'
<1>1. step' = next /\ leftovers' /\ UNCHANGED <<live, synced, call, pinned, known, published>>
  BY DEF CleanupFault, Goto, tree
<1>2. step' \notin Early
  BY <1>1 DEF Early
<1> QED
  BY <1>1, <1>2 DEF LeftInv, MakesDirectory

LEMMA LeftDisturbed ==
  ASSUME RootInv, StepInv, LeftInv,
         \/ \E e \in {"E", "link", "old", "absent"} : MoveParent(e)
         \/ \E e \in {"alien", "link", "E", "absent"} : PutEntry(e)
  PROVE  LeftInv'
<1>1. UNCHANGED <<step, synced, call, pinned, known, published, leftovers, result>>
  BY DEF MoveParent, PutEntry, Disturb, flags
<1>2. /\ \A d \in Directories : live'[d]["t"] = live[d]["t"]
      /\ pinned # "none" => live'[pinned]["f"] = live[pinned]["f"] \/ live'[pinned]["f"] # "made"
  <2>0. pinned \in Directories \cup {"none"} /\ "root" \in Directories
    BY DEF RootInv, Directories
  <2>1. ASSUME NEW e, MoveParent(e)
        PROVE  \A d \in Directories : live'[d]["f"] = live[d]["f"] /\ live'[d]["t"] = live[d]["t"]
    BY <2>1, ParentMoved DEF MoveParent
  <2>2. ASSUME NEW e \in {"alien", "link", "E", "absent"}, PutEntry(e)
        PROVE  /\ live'[pinned]["f"] = e /\ \A d \in Directories : live'[d]["t"] = live[d]["t"]
    BY <2>0, <2>2, DestinationChanged DEF PutEntry
  <2> QED
    BY <2>0, <2>1, <2>2
<1> QED
  BY <1>1, <1>2 DEF LeftInv, MakesDirectory

LEMMA LeftCrashes ==
  ASSUME RootInv, StepInv, LeftInv, Crash
  PROVE  LeftInv'
<1>1. /\ step' = "stopped" /\ step # "stopped" /\ pinned # "none"
      /\ UNCHANGED <<synced, call, pinned, known, published, leftovers, result>>
  BY DEF Crash, flags
<1>2. \A d \in Directories, n \in Names : live'[d][n] = live[d][n] \/ live'[d][n] = synced[d][n]
  <2>1. PICK lost \in SUBSET (Directories \X Names) :
          live' = [d \in Directories |-> [n \in Names |->
                     IF <<d, n>> \in lost THEN synced[d][n] ELSE live[d][n]]]
    BY SMT DEF Crash, Names
  <2> QED
    BY <2>1
<1>3. \A d \in Directories : live'[d]["t"] # NoEntry =>
        ~MakesDirectory /\ d = pinned /\ (leftovers \/ step \in HasTemporary)
  BY <1>1, <1>2 DEF LeftInv, Names
<1>4. pinned \in Directories
  BY <1>1 DEF RootInv
<1>5. known = "made" /\ ~published /\ live'[pinned]["f"] = "made" => leftovers \/ step \in HasCreated
  BY <1>1, <1>2, <1>4 DEF LeftInv, Names
<1>6. step \in HasTemporary \/ step \in HasCreated => result = "none"
  BY DEF StepInv, HasTemporary, HasCreated, Over
<1>7. step' \notin Early
  BY <1>1 DEF Early
<1> QED
  BY <1>1, <1>3, <1>5, <1>6, <1>7 DEF LeftInv, MakesDirectory

LEMMA LeftKeep ==
  ASSUME RootInv, StepInv, LeftInv, [RootNext]_rootVars
  PROVE  LeftInv'
<1>1. ASSUME NEW here, NEW next, _revalidate_parent(here, next),
             \/ here = "revalidate" /\ next = "destination"
             \/ here = "revalidate_last" /\ next = "post"
             \/ here = "revalidate_again" /\ next = "sync_parent" /\ MakesDirectory
             \/ here = "revalidate_again" /\ next = "destination_again"
      PROVE  LeftInv'
  BY <1>1, LeftLooks DEF _revalidate_parent
<1>2. ASSUME NEW here, NEW next, CheckDestination(here, next),
             \/ here = "destination_again" /\ next = "replace"
             \/ here = "destination" /\ next = "mkdir"
             \/ here = "destination" /\ next = "create"
      PROVE  LeftInv'
  BY <1>2, LeftLooks DEF CheckDestination
<1>3. ASSUME SecureDirectory \/ _source_signature \/ _post_mutation_revalidate PROVE LeftInv'
  <2>1. CASE SecureDirectory
    <3>1. PICK code : Check("secure", code, "sync_new")
      BY <2>1 DEF SecureDirectory
    <3> QED
      BY <3>1, LeftLooks
  <2>2. CASE _source_signature
    <3>1. PICK code : Check("source", code, "sync_new")
      BY <2>2 DEF _source_signature
    <3> QED
      BY <3>1, LeftLooks
  <2>3. CASE _post_mutation_revalidate
    <3>1. PICK code : Check("post", code, "cleanup")
      BY <2>3 DEF _post_mutation_revalidate
    <3> QED
      BY <3>1, LeftLooks
  <2> QED
    BY <1>3, <2>1, <2>2, <2>3
<1>4. ASSUME MakeDirectory PROVE LeftInv'
  <2>1. CASE live[pinned]["f"] = NoEntry
    BY <1>4, <2>1, LeftMakes DEF MakeDirectory
  <2>2. CASE live[pinned]["f"] # NoEntry
    BY <1>4, <2>2, LeftFails DEF MakeDirectory
  <2> QED
    BY <2>1, <2>2
<1>5. ASSUME IdentifyDirectory PROVE LeftInv'
  <2>1. CASE live[pinned]["f"] = NoEntry
    BY <1>5, <2>1, LeftFails DEF IdentifyDirectory
  <2>2. CASE live[pinned]["f"] # NoEntry
    BY <1>5, <2>2, LeftIdentifies DEF IdentifyDirectory
  <2> QED
    BY <2>1, <2>2
<1>6. ASSUME Replace PROVE LeftInv'
  <2>1. CASE _entry_kind = "directory"
    BY <1>6, <2>1, LeftFails DEF Replace
  <2>2. CASE _entry_kind # "directory"
    BY <1>6, <2>2, LeftReplaces DEF Replace
  <2> QED
    BY <2>1, <2>2
<1>7. ASSUME \/ CheckDestination("destination", IF MakesDirectory THEN "mkdir" ELSE "create")
             \/ _revalidate_parent("revalidate_again", IF MakesDirectory THEN "sync_parent" ELSE "destination_again")
      PROVE  LeftInv'
  <2>1. CASE MakesDirectory
    BY <1>1, <1>2, <1>7, <2>1
  <2>2. CASE ~MakesDirectory
    BY <1>1, <1>2, <1>7, <2>2
  <2> QED
    BY <2>1, <2>2
<1>8. ASSUME mkdir \/ _atomic_file_mutation PROVE LeftInv'
  BY <1>2, <1>3, <1>4, <1>5, <1>6, <1>8, LeftSyncsDirectory, LeftCreates, LeftChanges
  DEF mkdir, _atomic_file_mutation, copy_content
<1>9. ASSUME _revalidate_parent("revalidate", "destination") \/ _revalidate_parent("revalidate_last", "post")
      PROVE  LeftInv'
  <2>1. CASE _revalidate_parent("revalidate", "destination")
    BY <1>1, <2>1
  <2>2. CASE _revalidate_parent("revalidate_last", "post")
    BY <1>1, <2>2
  <2> QED
    BY <1>9, <2>1, <2>2
<1>10. ASSUME CallNext PROVE LeftInv'
  <2>1. CASE (\E c \in Calls : Begin(c)) \/ _open_parent
    BY <2>1, LeftFirst
  <2>2. CASE SyncParent \/ SyncCleanup \/ Cleanup \/ Return
    BY <2>2, LeftSyncs, LeftCleans, LeftChanges
  <2> QED
    BY <1>3, <1>7, <1>8, <1>9, <1>10, <2>1, <2>2 DEF CallNext
<1>11. ASSUME FaultNext PROVE LeftInv'
  BY <1>11, LeftFails, LeftCleanFails DEF FaultNext
<1>12. ASSUME OwnerNext PROVE LeftInv'
  BY <1>12, LeftDisturbed, LeftChanges DEF OwnerNext
<1>13. ASSUME (\E missing, place, uid : OpenRoot(missing, place, uid)) \/ CloseRoot PROVE LeftInv'
  BY <1>13, LeftFirst
<1> QED
  BY <1>10, <1>11, <1>12, <1>13, LeftCrashes, LeftChanges DEF RootNext

(* Only the steps after the change say anything of what was seen.          *)
Seeing == {"revalidate_last", "post", "cleanup", "closing"} \cup Over

LEMMA NotSeeing ==
  ASSUME \/ step' \notin Seeing
         \/ step' \in {"cleanup", "closing"} /\ error' # "none"
         \/ step' \in Over /\ result' # "ok"
  PROVE  SeenInv'
  BY SMT DEF SeenInv, Seeing, Over

LEMMA WalkKept ==
  ASSUME UNCHANGED <<root, safe, call>>, live'["root"]["d"] = live["root"]["d"]
  PROVE  Walked' = Walked
  BY DEF Walked, _walk_directories, Parents, _require_safe_parent

LEMMA WitnessedKept ==
  ASSUME Witnessed, UNCHANGED <<root, safe, call, live, synced, pinned, known, since>>
  PROVE  Witnessed'
<1>1. Walked' = Walked
  BY WalkKept
<1> QED
  BY <1>1 DEF Witnessed, Expected, MakesDirectory

LEMMA SeenKept ==
  ASSUME SeenInv, UNCHANGED <<root, safe, call, live, synced, pinned, known, since, error, step, result>>
  PROVE  SeenInv'
<1>1. Walked' = Walked
  BY WalkKept
<1>2. Witnessed => Witnessed'
  BY WitnessedKept
<1>3. UNCHANGED Expected
  BY DEF Expected, MakesDirectory
<1> QED
  BY <1>1, <1>2, <1>3 DEF SeenInv

LEMMA SeenLooks ==
  ASSUME RootInv, StepInv, SeenInv,
         \/ _revalidate_parent("revalidate_last", "post") \/ _post_mutation_revalidate
  PROVE  SeenInv'
<1>0. UNCHANGED <<root, safe, call, live, synced, pinned, known, published, result>>
  BY DEF _revalidate_parent, _post_mutation_revalidate, Check, Goto, Raise, tree, flags
<1>1. Walked' = Walked /\ UNCHANGED Expected
  BY <1>0, WalkKept DEF Expected, MakesDirectory
<1>2. CASE _revalidate_parent("revalidate_last", "post")
  <2>1. CASE Walked = pinned
    <3>1. step = "revalidate_last" /\ step' = "post" /\ since' = since \ {"d"}
      BY <1>2, <2>1 DEF _revalidate_parent, Check, Goto
    <3>2. "unsynced" \in since => "unsynced" \in since'
      BY <3>1
    <3> QED
      BY <1>0, <1>1, <2>1, <3>1, <3>2 DEF SeenInv
  <2>2. CASE Walked # pinned
    <3>1. step' = "cleanup" /\ error' # "none"
      BY <1>2, <2>2 DEF _revalidate_parent, Check, Raise
    <3> QED
      BY <3>1, NotSeeing
  <2> QED
    BY <2>1, <2>2
<1>3. CASE _post_mutation_revalidate
  <2>1. CASE live[pinned]["f"] = Expected
    <3>1. step = "post" /\ step' = "cleanup" /\ since' = since \ {"f"} /\ UNCHANGED error
      BY <1>3, <2>1 DEF _post_mutation_revalidate, Check, Goto
    <3>2. ("unsynced" \in since => "unsynced" \in since') /\ ("d" \in since => "d" \in since')
      BY <3>1
    <3>3. Witnessed'
      BY <1>0, <1>1, <2>1, <3>1, <3>2 DEF SeenInv, Witnessed
    <3> QED
      BY <3>1, <3>3 DEF SeenInv
  <2>2. CASE live[pinned]["f"] # Expected
    <3>1. step' = "cleanup" /\ error' # "none"
      BY <1>3, <2>2 DEF _post_mutation_revalidate, Check, Raise
    <3> QED
      BY <3>1, NotSeeing
  <2> QED
    BY <2>1, <2>2
<1> QED
  BY <1>2, <1>3

LEMMA SeenSyncs ==
  ASSUME RootInv, StepInv, SeenInv, SyncParent
  PROVE  SeenInv'
<1>1. /\ step = "sync_parent" /\ step' = "revalidate_last" /\ UNCHANGED <<live, pinned>>
      /\ synced' = [synced EXCEPT ![pinned] = live[pinned]]
  BY DEF SyncParent, Goto
<1>2. pinned \in Directories
  BY <1>1 DEF RootInv
<1>3. synced'[pinned] = live[pinned]
  BY <1>1, <1>2 DEF RootInv, Tree
<1> QED
  BY <1>1, <1>3 DEF SeenInv

(* Cleaning up and returning.                                              *)
LEMMA SeenLast ==
  ASSUME RootInv, StepInv, SeenInv,
         \/ Cleanup \/ SyncCleanup \/ Return \/ CleanupFault("closing", "closing")
         \/ CleanupFault("sync_cleanup", "closing") \/ CleanupFault("cleanup", "sync_cleanup")
  PROVE  SeenInv'
<1>1. CASE Cleanup
  <2>1. step = "cleanup" /\ step' \in {"sync_cleanup", "closing"} /\ UNCHANGED error
    <3>1. CASE AtTemporary
      BY <1>1, <3>1 DEF Cleanup, Change, Goto
    <3>2. CASE ~AtTemporary /\ AtCreated /\ live[pinned]["f"] = known /\ Kind[known] = "directory"
      BY <1>1, <3>2 DEF Cleanup, Change, Goto
    <3>3. CASE ~AtTemporary /\ ~(AtCreated /\ live[pinned]["f"] = known /\ Kind[known] = "directory")
      BY <1>1, <3>3 DEF Cleanup, Goto
    <3> QED
      BY <3>1, <3>2, <3>3
  <2>2. CASE error = "none"
    <3>1. ~AtTemporary /\ ~AtCreated /\ Witnessed
      BY <2>1, <2>2 DEF StepInv, SeenInv, AtTemporary, AtCreated
    <3>2. step' = "closing" /\ UNCHANGED <<root, safe, call, live, synced, pinned, known, since>>
      BY <1>1, <3>1 DEF Cleanup, Goto
    <3>3. Witnessed'
      BY <3>1, <3>2, WitnessedKept
    <3> QED
      BY <3>2, <3>3 DEF SeenInv
  <2>3. CASE error # "none"
    <3>1. step' \notin Seeing \/ (step' \in {"cleanup", "closing"} /\ error' # "none")
      BY <2>1, <2>3 DEF Seeing, Over
    <3> QED
      BY <3>1, NotSeeing
  <2> QED
    BY <2>2, <2>3
<1>2. CASE SyncCleanup \/ CleanupFault("sync_cleanup", "closing")
  <2>1. step = "sync_cleanup" /\ step' = "closing" /\ UNCHANGED error
    BY <1>2 DEF SyncCleanup, CleanupFault, Change, Goto
  <2>2. error' # "none"
    BY <2>1 DEF StepInv
  <2> QED
    BY <2>1, <2>2, NotSeeing
<1>3. CASE CleanupFault("cleanup", "sync_cleanup")
  <2>1. step' \notin Seeing
    BY <1>3 DEF CleanupFault, Goto, Seeing, Over
  <2> QED
    BY <2>1, NotSeeing
<1>4. CASE CleanupFault("closing", "closing")
  <2>1. UNCHANGED <<root, safe, call, live, synced, pinned, known, since, error, step, result>>
    BY <1>4 DEF CleanupFault, Goto, tree
  <2> QED
    BY <2>1, SeenKept
<1>5. CASE Return
  <2>1. /\ step = "closing" /\ step' = "done" /\ result' = _combined_cleanup_error
        /\ UNCHANGED <<root, safe, call, live, synced, pinned, known, since>>
    BY <1>5 DEF Return, Finish, flags, tree
  <2>2. CASE result' = "ok"
    <3>1. error = "none"
      BY <2>1, <2>2 DEF _combined_cleanup_error, StepInv
    <3>2. Witnessed'
      BY <2>1, <3>1, WitnessedKept DEF SeenInv
    <3> QED
      BY <2>1, <3>2 DEF SeenInv
  <2>3. CASE result' # "ok"
    BY <2>1, <2>3, NotSeeing DEF Over
  <2> QED
    BY <2>2, <2>3
<1> QED
  BY <1>1, <1>2, <1>3, <1>4, <1>5

(* The owner adds a mark for what is disturbed.                            *)
LEMMA SeenDisturbed ==
  ASSUME RootInv, StepInv, SeenInv, OwnerNext
  PROVE  SeenInv'
<1>0. step # "stopped" /\ UNCHANGED <<root, call, step, pinned, synced, known, error, result>>
  BY DEF OwnerNext, MoveParent, PutEntry, ShareDirectory, AlterSource, Disturb, flags
<1>1. UNCHANGED Expected
  BY <1>0 DEF Expected, MakesDirectory
<1>2. /\ step \in {"revalidate_last", "post"} => pinned \in Directories
      /\ step \in {"cleanup", "closing"} /\ error = "none" => pinned \in Directories
      /\ step = "done" /\ result = "ok" => pinned \in Directories
  BY SMT DEF RootInv, StepInv
<1>3. ASSUME NEW e, MoveParent(e) PROVE SeenInv'
  <2>1. "d" \in since' /\ ("f" \in since => "f" \in since') /\ ("unsynced" \in since => "unsynced" \in since')
    BY <1>3 DEF MoveParent
  <2>2. \A d \in Directories : live'[d]["f"] = live[d]["f"]
    BY <1>3, ParentMoved DEF MoveParent
  <2>3. ASSUME Witnessed, pinned \in Directories PROVE Witnessed'
    BY <1>0, <1>1, <2>1, <2>2, <2>3 DEF Witnessed
  <2> QED
    BY <1>0, <1>2, <2>1, <2>2, <2>3 DEF SeenInv
<1>4. ASSUME NEW e, PutEntry(e) PROVE SeenInv'
  <2>1. "f" \in since' /\ "unsynced" \in since' /\ ("d" \in since => "d" \in since')
    BY <1>4 DEF PutEntry
  <2>2. pinned \in Directories
    BY <1>4 DEF PutEntry, RootInv
  <2>3. live'["root"]["d"] = live["root"]["d"] /\ UNCHANGED safe
    BY <1>4, <2>2, DestinationChanged DEF PutEntry
  <2>4. Walked' = Walked
    BY <1>0, <2>3, WalkKept
  <2>5. ASSUME Witnessed PROVE Witnessed'
    BY <1>0, <2>1, <2>4, <2>5 DEF Witnessed
  <2> QED
    BY <1>0, <2>1, <2>4, <2>5 DEF SeenInv
<1>5. ASSUME NEW d, ShareDirectory(d) PROVE SeenInv'
  <2>1. /\ UNCHANGED live /\ "d" \in since'
        /\ ("f" \in since => "f" \in since') /\ ("unsynced" \in since => "unsynced" \in since')
    BY <1>5 DEF ShareDirectory
  <2>2. ASSUME Witnessed PROVE Witnessed'
    BY <1>0, <1>1, <2>1, <2>2 DEF Witnessed
  <2> QED
    BY <1>0, <2>1, <2>2 DEF SeenInv
<1>6. ASSUME AlterSource PROVE SeenInv'
  BY <1>0, <1>6, SeenKept DEF AlterSource
<1> QED
  BY <1>3, <1>4, <1>5, <1>6 DEF OwnerNext

LEMMA SeenCrashes ==
  ASSUME RootInv, StepInv, SeenInv, Crash
  PROVE  SeenInv'
<1>1. /\ step # "stopped" /\ step' = "stopped" /\ pinned \in Directories
      /\ UNCHANGED <<call, pinned, synced, known, result, since>>
  BY DEF Crash, RootInv, flags
<1>2. "f" \in {"d", "f", "t"}
  OBVIOUS
<1>3. live'[pinned]["f"] \in {live[pinned]["f"], synced[pinned]["f"]}
  <2>1. PICK lost : live' = [d \in Directories |-> [n \in {"d", "f", "t"} |->
                        IF <<d, n>> \in lost THEN synced[d][n] ELSE live[d][n]]]
    BY DEF Crash
  <2> QED
    BY SMT, <1>1, <1>2, <2>1
<1>4. UNCHANGED Expected
  BY <1>1 DEF Expected, MakesDirectory
<1>5. result = "ok" => step = "done"
  BY <1>1 DEF StepInv, Over
<1>6. result = "ok" => Witnessed
  BY <1>5 DEF SeenInv
<1> QED
  BY <1>1, <1>3, <1>4, <1>6 DEF SeenInv, Witnessed

(* A step before the looks, and a step that raises.                        *)
LEMMA SeenRaised ==
  ASSUME NEW here, NEW code, NEW next,
         \/ Check(here, code, next) /\ next \notin Seeing
         \/ Change(here, next) /\ next \notin Seeing
         \/ (Fails(here, code) \/ Fault(here, code)) /\ code # "none"
  PROVE  SeenInv'
<1>1. \/ step' \notin Seeing
      \/ step' \in {"cleanup", "closing"} /\ error' # "none"
  BY DEF Check, Change, Fails, Fault, Goto, Raise
<1> QED
  BY <1>1, NotSeeing

LEMMA SeenKeep ==
  ASSUME RootInv, StepInv, SeenInv, StepInv', [RootNext]_rootVars
  PROVE  SeenInv'
<1>0. /\ "destination" \notin Seeing /\ "mkdir" \notin Seeing /\ "create" \notin Seeing /\ "stat" \notin Seeing
      /\ "secure" \notin Seeing /\ "sync_new" \notin Seeing /\ "revalidate_again" \notin Seeing
      /\ "sync_parent" \notin Seeing /\ "destination_again" \notin Seeing /\ "replace" \notin Seeing
      /\ "write" \notin Seeing /\ "write_rest" \notin Seeing /\ "source" \notin Seeing
  BY SMT DEF Seeing, Over
<1>1. ASSUME MakeDirectory \/ IdentifyDirectory PROVE SeenInv'
  <2>1. PICK code : code = IF _entry_kind = "symlink" THEN "symlink_component" ELSE "invalid_destination"
    OBVIOUS
  <2>2. code # "none" /\ "io_failure" # "none"
    BY <2>1
  <2>3. \/ Change("mkdir", "stat") \/ Fails("mkdir", code)
        \/ Change("stat", "secure") \/ Fails("stat", "io_failure")
    BY <1>1, <2>1 DEF MakeDirectory, IdentifyDirectory
  <2> QED
    BY <1>0, <2>2, <2>3, SeenRaised
<1>2. ASSUME SecureDirectory \/ _source_signature PROVE SeenInv'
  <2>1. PICK here, code : Check(here, code, "sync_new")
    BY <1>2 DEF SecureDirectory, _source_signature
  <2> QED
    BY <1>0, <2>1, SeenRaised
<1>3. ASSUME SyncDirectory \/ _create_temporary \/ SecureTemporary \/ _write_all \/ WriteRest \/ SyncTemporary
      PROVE  SeenInv'
  <2>1. \/ Change("sync_new", "revalidate_again") \/ Change("create", "secure") \/ Change("secure", "write")
        \/ Change("write", "write_rest") \/ Change("write_rest", "source")
    BY <1>3 DEF SyncDirectory, _create_temporary, SecureTemporary, _write_all, WriteRest, SyncTemporary
  <2> QED
    BY <1>0, <2>1, SeenRaised
<1>4. ASSUME Replace PROVE SeenInv'
  <2>1. Change("replace", "sync_parent") \/ Fails("replace", "io_failure")
    BY <1>4 DEF Replace
  <2>2. "io_failure" # "none"
    OBVIOUS
  <2> QED
    BY <1>0, <2>1, <2>2, SeenRaised
<1>5. ASSUME NEW here, NEW next, CheckDestination(here, next), next \in {"mkdir", "create", "replace"} PROVE SeenInv'
  <2>1. Check(here, DestinationCode, next)
    BY <1>5 DEF CheckDestination
  <2> QED
    BY <1>0, <1>5, <2>1, SeenRaised
<1>6. ASSUME NEW here, NEW next, _revalidate_parent(here, next),
             next \in {"destination", "sync_parent", "destination_again"}
      PROVE  SeenInv'
  <2>1. PICK code : Check(here, code, next)
    BY <1>6 DEF _revalidate_parent
  <2> QED
    BY <1>0, <1>6, <2>1, SeenRaised
<1>7. ASSUME _open_parent PROVE SeenInv'
  <2>1. ~published' /\ (step' = "revalidate" \/ step' = "closing")
    BY <1>7 DEF _open_parent, StepInv, Early, flags
  <2>2. step' \notin Seeing \/ (step' \in {"cleanup", "closing"} /\ error' # "none")
    BY SMT, <2>1 DEF StepInv, Seeing, Over
  <2> QED
    BY <2>2, NotSeeing
<1>8. ASSUME \/ \E missing, place, uid : OpenRoot(missing, place, uid)
             \/ CloseRoot \/ \E c \in Calls : Begin(c)
      PROVE  SeenInv'
  <2>1. step = "idle" /\ UNCHANGED published
    BY <1>8 DEF OpenRoot, CloseRoot, Begin, StepInv, flags
  <2>2. ~published'
    BY <2>1 DEF StepInv, Early
  <2>3. result' # "ok"
    BY <2>2 DEF StepInv
  <2>4. step' \in {"idle", "open_parent", "done"}
    BY <1>8, <2>1 DEF OpenRoot, CloseRoot, Begin, Finish, Goto
  <2>5. step' \notin Seeing \/ (step' \in Over /\ result' # "ok")
    BY SMT, <2>3, <2>4 DEF Seeing, Over
  <2> QED
    BY <2>5, NotSeeing
<1>9. ASSUME FaultNext PROVE SeenInv'
  <2>1. _mutation_os_error # "none" /\ "io_failure" # "none" /\ "durability_unavailable" # "none"
    BY DEF _mutation_os_error
  <2> QED
    BY <1>9, <2>1, SeenRaised, SeenLast DEF FaultNext

<1>10. ASSUME \/ CheckDestination("destination", IF MakesDirectory THEN "mkdir" ELSE "create")
              \/ _revalidate_parent("revalidate_again", IF MakesDirectory THEN "sync_parent" ELSE "destination_again")
       PROVE  SeenInv'
  BY <1>5, <1>6, <1>10
<1>11. ASSUME mkdir \/ _atomic_file_mutation PROVE SeenInv'
  <2>1. CASE CheckDestination("destination_again", "replace")
    BY <1>5, <2>1
  <2> QED
    BY <1>1, <1>2, <1>3, <1>4, <1>11, <2>1 DEF mkdir, _atomic_file_mutation, copy_content
<1>12. ASSUME CallNext PROVE SeenInv'
  <2>1. CASE _revalidate_parent("revalidate", "destination")
    BY <1>6, <2>1
  <2>2. CASE Cleanup \/ SyncCleanup \/ Return
    BY <2>2, SeenLast
  <2> QED
    BY <1>7, <1>8, <1>10, <1>11, <1>12, <2>1, <2>2, SeenLooks, SeenSyncs DEF CallNext
<1>13. ASSUME UNCHANGED rootVars PROVE SeenInv'
  BY <1>13, SeenKept DEF rootVars, flags, tree
<1> QED
  BY <1>8, <1>9, <1>12, <1>13, SeenDisturbed, SeenCrashes DEF RootNext

(* Whatever a call reports is so, and is still so after the host stopped,  *)
(* for any number of disturbances and failing system calls.                *)
THEOREM RootReportsAreTrue == RootSpec => []ReportsAreTrue
<1> DEFINE Inv == RootInv /\ StepInv /\ LeftInv /\ SeenInv
<1>1. RootInit => Inv
  BY RootStart, StepStart
<1>2. Inv /\ [RootNext]_rootVars => Inv'
  BY RootKeep, StepKeep, LeftKeep, SeenKeep
<1>3. Inv => ReportsAreTrue
  <2> SUFFICES ASSUME Inv PROVE ReportsAreTrue
    OBVIOUS
  <2>1. result = "ok" => step = "done" \/ step = "stopped"
    BY DEF StepInv, Over
  <2>2. Failed => /\ step \notin HasTemporary \cup HasCreated
                  /\ ~leftovers /\ result # "none"
    BY SMT DEF Failed, StepInv, Over, HasTemporary, HasCreated
  <2>3. pinned # "none" => pinned \in Directories
    BY DEF RootInv
  <2>4. Failed /\ pinned # "none" => live[pinned]["t"] = NoEntry
    BY <2>2, <2>3 DEF LeftInv
  <2>5. Failed /\ pinned # "none" /\ known = "made" /\ ~published => live[pinned]["f"] # "made"
    BY <2>2 DEF LeftInv
  <2>6. /\ result = "ok" /\ "f" \notin since /\ (step = "stopped" => "unsynced" \notin since)
             => live[pinned]["f"] = Expected
        /\ result = "ok" /\ "d" \notin since /\ step = "done" => Walked = pinned
    BY <2>1 DEF SeenInv, Witnessed
  <2> QED
    BY <2>4, <2>5, <2>6 DEF ReportsAreTrue
<1> QED
  BY <1>1, <1>2, <1>3, PTL DEF RootSpec

-----------------------------------------------------------------------------
(* Installing and enrolling.                                               *)

HostSetupSpec == HostSetupInit /\ [][HostSetupNext]_hostSetupVars

(* The agent is switched on in the configuration, or runs.                 *)
AgentOn == configFile # Missing /\ configFile.agent
AgentRuns == service # Missing /\ service.agent

Paired == identity.certificate.key = identity.key

SetupTypeOK ==
  /\ release \in [Sources -> {"absent", "partial", "whole"}]
  /\ currentRelease \in Sources \cup {Missing}
  /\ installing = [at |-> installing.at, source |-> installing.source, seen |-> installing.seen]
  /\ installing.at # "idle" => installing.source \in Sources
  /\ enrolling = [at |-> enrolling.at, host |-> enrolling.host, seen |-> enrolling.seen,
                  serial |-> enrolling.serial]
  /\ identity = [key |-> identity.key, certificate |-> identity.certificate, trust |-> identity.trust,
                 enrollment |-> identity.enrollment]
  /\ enrolling.serial \in Nat /\ certificates \in Nat

(* An install clears and builds only a release that is not whole, and      *)
(* goes on to promote only one that is.                                    *)
InstallOK ==
  /\ installing.at \in {"clear", "build", "metadata"} => release[installing.source] # "whole"
  /\ installing.at \in {"config", "unit", "promote"} => release[installing.source] = "whole"

(* An enrollment began with no identity on disk and the agent switched     *)
(* off; what it has published by now belongs together.                     *)
EnrollOK ==
  /\ enrolling.at = "planned" => enrolling.seen.blocked = FALSE
  /\ enrolling.at \in {"exchange", "verify", "key", "certificate", "trust", "enrollment", "config"} => ~AgentOn
  /\ enrolling.at \in {"certificate", "trust", "enrollment", "config"} => identity.key = enrolling.serial
  /\ enrolling.at \in {"trust", "enrollment", "config"} => Paired
  /\ enrolling.at \in {"enrollment", "config"} => identity.trust # Missing

SetupInv == SetupTypeOK /\ InstallOK /\ EnrollOK /\ HostStartsWhole /\ (AgentRuns => AgentOn)

LEMMA SetupStart == HostSetupInit => SetupInv
<1> SUFFICES ASSUME HostSetupInit PROVE SetupInv
  OBVIOUS
<1>1. SetupTypeOK
  BY SMT DEF HostSetupInit, SetupTypeOK, NotInstalling, NotEnrolling, NoIdentity
<1>2. installing.at = "idle" /\ enrolling.at = "idle"
  BY DEF HostSetupInit, NotInstalling, NotEnrolling
<1>3. currentRelease = Missing /\ configFile = Missing /\ service = Missing
  BY DEF HostSetupInit
<1> QED
  BY <1>1, <1>2, <1>3 DEF SetupInv, InstallOK, EnrollOK, HostStartsWhole, AgentOn, AgentRuns

(* The service comes up with what is on disk.                              *)
LEMMA StartsWhole ==
  ASSUME SetupInv, Started, UNCHANGED <<release, currentRelease, configFile, identity>>
  PROVE  HostStartsWhole' /\ (AgentRuns' => AgentOn')
<1>1. CASE load_daemon_config /\ register_host(configFile.host)
  <2>1. /\ service' = [release |-> currentRelease, agent |-> configFile.agent, host |-> configFile.host,
                      key |-> identity.key, certificate |-> identity.certificate]
        /\ boundTo' = configFile.host
    BY <1>1 DEF Started
  <2>2. service'.host = configFile.host /\ service'.agent = configFile.agent
    BY <2>1
  <2> QED
    BY <1>1, <2>1, <2>2 DEF SetupInv, HostStartsWhole, AgentRuns, AgentOn, load_daemon_config
<1>2. CASE ~(load_daemon_config /\ register_host(configFile.host))
  <2>1. service' = Missing /\ boundTo' = boundTo
    BY <1>2 DEF Started
  <2> QED
    BY <2>1 DEF SetupInv, HostStartsWhole, AgentRuns
<1> QED
  BY <1>1, <1>2

(* A step of the installer that leaves what the enrollment relies on.      *)
LEMMA Enrolls ==
  ASSUME SetupInv, UNCHANGED <<enrolling, identity, certificates>>, AgentOn' => AgentOn
  PROVE  EnrollOK'
  BY DEF SetupInv, EnrollOK, Paired

LEMMA InstallMoves ==
  ASSUME SetupInv, NEW at, installing' = [installing EXCEPT !.at = at]
  PROVE  /\ installing' = [at |-> installing'.at, source |-> installing'.source, seen |-> installing'.seen]
         /\ installing'.at = at /\ installing'.source = installing.source
<1>1. installing = [at |-> installing.at, source |-> installing.source, seen |-> installing.seen]
  BY DEF SetupInv, SetupTypeOK
<1> QED
  BY SMT, <1>1

LEMMA EnrollMoves ==
  ASSUME SetupInv, NEW at, enrolling' = [enrolling EXCEPT !.at = at]
  PROVE  /\ enrolling' = [at |-> enrolling'.at, host |-> enrolling'.host, seen |-> enrolling'.seen,
                          serial |-> enrolling'.serial]
         /\ enrolling'.at = at /\ enrolling'.serial = enrolling.serial
<1>1. enrolling = [at |-> enrolling.at, host |-> enrolling.host, seen |-> enrolling.seen,
                   serial |-> enrolling.serial]
  BY DEF SetupInv, SetupTypeOK
<1> QED
  BY SMT, <1>1

LEMMA NoInstall ==
  /\ NotInstalling = [at |-> NotInstalling.at, source |-> NotInstalling.source, seen |-> NotInstalling.seen]
  /\ NotInstalling.at = "idle"
  BY SMT DEF NotInstalling

LEMMA NoEnrollment ==
  /\ NotEnrolling = [at |-> NotEnrolling.at, host |-> NotEnrolling.host, seen |-> NotEnrolling.seen,
                     serial |-> NotEnrolling.serial]
  /\ NotEnrolling.at = "idle" /\ NotEnrolling.serial = 0 /\ 0 \in Nat
  BY SMT DEF NotEnrolling

(* What an installer's step leaves to show.                                *)
LEMMA InstallKeeps ==
  ASSUME SetupInv, UNCHANGED <<identity, boundTo, certificates, service, enrolling>>,
         AgentOn' <=> AgentOn,
         release' \in [Sources -> {"absent", "partial", "whole"}], currentRelease' \in Sources \cup {Missing},
         installing' = [at |-> installing'.at, source |-> installing'.source, seen |-> installing'.seen],
         installing'.at # "idle" => installing'.source \in Sources,
         InstallOK', currentRelease' # Missing => release'[currentRelease'] = "whole"
  PROVE  SetupInv'
<1>1. SetupTypeOK'
  BY DEF SetupInv, SetupTypeOK
<1>2. EnrollOK'
  BY Enrolls
<1>3. HostStartsWhole'
  BY DEF SetupInv, HostStartsWhole, AgentOn
<1> QED
  BY <1>1, <1>2, <1>3 DEF SetupInv, AgentRuns

LEMMA PlanInstallSound ==
  ASSUME SetupInv, NEW s \in Sources, PlanInstall(s)
  PROVE  SetupInv'
<1>1. installing' = [at |-> "planned", source |-> s, seen |-> daemon_install_plan(s)]
  BY DEF PlanInstall
<1>2. /\ installing' = [at |-> installing'.at, source |-> installing'.source, seen |-> installing'.seen]
      /\ installing'.at = "planned" /\ installing'.source = s
  BY <1>1
<1>3. InstallOK'
  BY <1>2 DEF InstallOK
<1> QED
  BY <1>2, <1>3, InstallKeeps
     DEF PlanInstall, hostFiles, AgentOn, SetupInv, SetupTypeOK, HostStartsWhole

LEMMA BeginInstallSound ==
  ASSUME SetupInv, BeginInstall
  PROVE  SetupInv'
<1>0. installing.source \in Sources
  BY DEF SetupInv, SetupTypeOK, BeginInstall
<1>1. /\ UNCHANGED <<release, currentRelease, configFile, identity, boundTo, certificates, service, enrolling>>
      /\ \/ installing' = NotInstalling
         \/ installing' = [installing EXCEPT !.at = "config"] /\ _release_valid(installing.source)
         \/ installing' = [installing EXCEPT !.at = "clear"] /\ ~_release_valid(installing.source)
  BY DEF BeginInstall, hostFiles
<1>2. /\ installing' = [at |-> installing'.at, source |-> installing'.source, seen |-> installing'.seen]
      /\ \/ installing'.at = "idle"
         \/ /\ installing'.at = "config" /\ _release_valid(installing.source)
            /\ installing'.source = installing.source
         \/ /\ installing'.at = "clear" /\ ~_release_valid(installing.source)
            /\ installing'.source = installing.source
  <2>1. CASE installing' = NotInstalling
    BY <2>1, NoInstall
  <2>2. ASSUME NEW at \in {"config", "clear"}, installing' = [installing EXCEPT !.at = at]
        PROVE  /\ installing' = [at |-> installing'.at, source |-> installing'.source, seen |-> installing'.seen]
               /\ installing'.at = at /\ installing'.source = installing.source
    BY <2>2, InstallMoves
  <2> QED
    BY <1>1, <2>1, <2>2
<1>3. InstallOK'
  BY <1>1, <1>2 DEF InstallOK, _release_valid
<1> QED
  BY <1>0, <1>1, <1>2, <1>3, InstallKeeps DEF AgentOn, SetupInv, SetupTypeOK, HostStartsWhole

(* What current names is whole, so it is not what is cleared or built.     *)
LEMMA BuildSound ==
  ASSUME SetupInv, Quarantine \/ _install_release
  PROVE  SetupInv'
<1>0. /\ installing.source \in Sources /\ release[installing.source] # "whole"
      /\ release \in [Sources -> {"absent", "partial", "whole"}]
  BY DEF SetupInv, SetupTypeOK, InstallOK, Quarantine, _install_release
<1>1. /\ UNCHANGED <<currentRelease, configFile, identity, boundTo, certificates, service, enrolling>>
      /\ \/ /\ installing' = NotInstalling /\ release' = release
         \/ /\ installing' = [installing EXCEPT !.at = "build"]
            /\ release' = [release EXCEPT ![installing.source] = "absent"]
         \/ /\ installing' = [installing EXCEPT !.at = "metadata"]
            /\ release' = [release EXCEPT ![installing.source] = "partial"]
         \/ /\ installing' = [installing EXCEPT !.at = "config"]
            /\ release' = [release EXCEPT ![installing.source] = "whole"]
  BY DEF Quarantine, _install_release, InstallGoes
<1>2. /\ installing' = [at |-> installing'.at, source |-> installing'.source, seen |-> installing'.seen]
      /\ release' \in [Sources -> {"absent", "partial", "whole"}]
      /\ \A s \in Sources : s # installing.source => release'[s] = release[s]
      /\ \/ installing'.at = "idle" /\ release' = release
         \/ /\ installing'.at \in {"build", "metadata"} /\ installing'.source = installing.source
            /\ release'[installing.source] # "whole"
         \/ /\ installing'.at = "config" /\ installing'.source = installing.source
            /\ release'[installing.source] = "whole"
  BY <1>0, <1>1, InstallMoves, NoInstall
<1>3. InstallOK'
  BY <1>2 DEF InstallOK
<1>4. currentRelease' # Missing => release'[currentRelease'] = "whole"
  <2>1. currentRelease # Missing => currentRelease \in Sources /\ release[currentRelease] = "whole"
    BY DEF SetupInv, SetupTypeOK, HostStartsWhole
  <2> QED
    BY <1>0, <1>1, <1>2, <2>1
<1> QED
  BY <1>0, <1>1, <1>2, <1>3, <1>4, InstallKeeps DEF AgentOn, SetupInv, SetupTypeOK

LEMMA FinishInstallSound ==
  ASSUME SetupInv, WriteDefaultConfig \/ WriteUnit \/ _promote_release
  PROVE  SetupInv'
<1>0. /\ installing.source \in Sources /\ release[installing.source] = "whole"
  BY DEF SetupInv, SetupTypeOK, InstallOK, WriteDefaultConfig, WriteUnit, _promote_release
<1>1. /\ UNCHANGED <<release, identity, boundTo, certificates, service, enrolling>>
      /\ currentRelease' \in {currentRelease, installing.source}
      /\ configFile' = configFile \/ (configFile = Missing /\ configFile' = PlainConfig)
      /\ \E at \in {"unit", "promote", "activate"} : installing' = [installing EXCEPT !.at = at]
  BY DEF WriteDefaultConfig, WriteUnit, _promote_release, InstallGoes
<1>2. /\ installing' = [at |-> installing'.at, source |-> installing'.source, seen |-> installing'.seen]
      /\ installing'.at \in {"unit", "promote", "activate"} /\ installing'.source = installing.source
  BY <1>1, InstallMoves
<1>3. InstallOK'
  BY <1>0, <1>1, <1>2 DEF InstallOK
<1>4. AgentOn' <=> AgentOn
  BY SMT, <1>1 DEF AgentOn, PlainConfig
<1>5. currentRelease' # Missing => release'[currentRelease'] = "whole"
  BY SMT, <1>0, <1>1 DEF SetupInv, HostStartsWhole
<1> QED
  BY <1>0, <1>1, <1>2, <1>3, <1>4, <1>5, InstallKeeps DEF SetupInv, SetupTypeOK

(* A start, with the commands it ends.                                     *)
LEMMA RestartSound ==
  ASSUME SetupInv, Started \/ UNCHANGED <<service, boundTo>>,
         UNCHANGED <<release, currentRelease, configFile, identity, certificates>>,
         installing' \in {installing, NotInstalling}, enrolling' \in {enrolling, NotEnrolling}
  PROVE  SetupInv'
<1>1. SetupTypeOK'
  BY NoInstall, NoEnrollment DEF SetupInv, SetupTypeOK
<1>2. InstallOK'
  BY NoInstall DEF SetupInv, InstallOK
<1>3. EnrollOK'
  BY NoEnrollment DEF SetupInv, EnrollOK, Paired, AgentOn
<1>4. HostStartsWhole' /\ (AgentRuns' => AgentOn')
  BY StartsWhole DEF SetupInv, HostStartsWhole, AgentRuns, AgentOn
<1> QED
  BY <1>1, <1>2, <1>3, <1>4 DEF SetupInv

(* A step of the enrollment that leaves the installer and the service.     *)
LEMMA EnrollKeeps ==
  ASSUME SetupInv, UNCHANGED <<release, currentRelease, boundTo, service, installing>>,
         identity' = [key |-> identity'.key, certificate |-> identity'.certificate, trust |-> identity'.trust,
                      enrollment |-> identity'.enrollment],
         enrolling' = [at |-> enrolling'.at, host |-> enrolling'.host, seen |-> enrolling'.seen,
                       serial |-> enrolling'.serial],
         enrolling'.serial \in Nat, certificates' \in Nat,
         EnrollOK', AgentOn' => Paired' /\ identity'.trust # Missing, AgentOn => AgentOn'
  PROVE  SetupInv'
<1>1. SetupTypeOK'
  BY DEF SetupInv, SetupTypeOK
<1>2. InstallOK'
  BY DEF SetupInv, InstallOK
<1>3. HostStartsWhole'
  BY DEF SetupInv, HostStartsWhole, AgentOn, Paired
<1> QED
  BY <1>1, <1>2, <1>3 DEF SetupInv, AgentRuns

LEMMA PlanEnrollmentSound ==
  ASSUME SetupInv, NEW h \in HostIds, PlanEnrollment(h)
  PROVE  SetupInv'
<1>1. /\ UNCHANGED <<release, currentRelease, configFile, identity, boundTo, certificates, service, installing>>
      /\ ~enrollment_plan(h).blocked
      /\ enrolling' = [NotEnrolling EXCEPT !.at = "planned", !.host = h, !.seen = enrollment_plan(h)]
  BY DEF PlanEnrollment, hostFiles
<1>2. enrollment_plan(h).blocked = FALSE
  BY <1>1 DEF enrollment_plan
<1>3. /\ enrolling' = [at |-> enrolling'.at, host |-> enrolling'.host, seen |-> enrolling'.seen,
                       serial |-> enrolling'.serial]
      /\ enrolling'.at = "planned" /\ enrolling'.seen = enrollment_plan(h) /\ enrolling'.serial = 0
  BY <1>1 DEF NotEnrolling
<1>4. EnrollOK'
  BY <1>2, <1>3 DEF EnrollOK
<1>5. enrolling'.serial \in Nat
  BY SMT, <1>3
<1> QED
  BY <1>1, <1>3, <1>4, <1>5, EnrollKeeps DEF AgentOn, Paired, SetupInv, SetupTypeOK, HostStartsWhole

(* A plan that is still what was seen finds no identity, and with none the *)
(* agent is not switched on.                                               *)
LEMMA BeginEnrollmentSound ==
  ASSUME SetupInv, BeginEnrollment
  PROVE  SetupInv'
<1>1. /\ UNCHANGED <<release, currentRelease, configFile, identity, boundTo, certificates, service, installing>>
      /\ \/ enrolling' = NotEnrolling
         \/ /\ enrollment_plan(enrolling.host) = enrolling.seen
            /\ enrolling' = [enrolling EXCEPT !.at = "exchange"]
  BY DEF BeginEnrollment, hostFiles
<1>2. CASE enrolling' = NotEnrolling
  BY <1>1, <1>2, RestartSound
<1>3. CASE /\ enrollment_plan(enrolling.host) = enrolling.seen
           /\ enrolling' = [enrolling EXCEPT !.at = "exchange"]
  <2>1. enrolling.seen.blocked = FALSE
    BY DEF SetupInv, EnrollOK, BeginEnrollment
  <2>2. identity = NoIdentity
    <3>1. enrollment_plan(enrolling.host).blocked = FALSE
      BY <1>3, <2>1
    <3> QED
      BY <3>1 DEF enrollment_plan
  <2>3. ~AgentOn
    BY <2>2 DEF SetupInv, HostStartsWhole, AgentOn, NoIdentity
  <2>4. /\ enrolling' = [at |-> enrolling'.at, host |-> enrolling'.host, seen |-> enrolling'.seen,
                         serial |-> enrolling'.serial]
        /\ enrolling'.at = "exchange" /\ enrolling'.serial = enrolling.serial
    BY <1>3, EnrollMoves
  <2>5. EnrollOK'
    BY <1>1, <2>3, <2>4 DEF EnrollOK, AgentOn
  <2> QED
    BY <1>1, <2>3, <2>4, <2>5, EnrollKeeps DEF AgentOn, SetupInv, SetupTypeOK
<1> QED
  BY <1>1, <1>2, <1>3

LEMMA ExchangeSound ==
  ASSUME SetupInv, _exchange_enrollment \/ _verify_material
  PROVE  SetupInv'
<1>0. certificates \in Nat /\ ~AgentOn
  BY DEF SetupInv, SetupTypeOK, EnrollOK, _exchange_enrollment, _verify_material
<1>1. /\ UNCHANGED <<release, currentRelease, configFile, identity, boundTo, service, installing>>
      /\ certificates' \in {certificates, certificates + 1}
      /\ \/ enrolling' = NotEnrolling
         \/ enrolling' = [enrolling EXCEPT !.at = "key"]
         \/ enrolling' = [enrolling EXCEPT !.at = "verify", !.serial = certificates + 1]
  BY DEF _exchange_enrollment, _verify_material, hostFiles
<1>2. certificates' \in Nat /\ certificates + 1 \in Nat
  BY SMT, <1>0, <1>1
<1>3. enrolling = [at |-> enrolling.at, host |-> enrolling.host, seen |-> enrolling.seen,
                   serial |-> enrolling.serial] /\ enrolling.serial \in Nat
  BY DEF SetupInv, SetupTypeOK
<1>4. /\ enrolling' = [at |-> enrolling'.at, host |-> enrolling'.host, seen |-> enrolling'.seen,
                       serial |-> enrolling'.serial]
      /\ enrolling'.at \in {"idle", "key", "verify"} /\ enrolling'.serial \in Nat
  <2>1. CASE enrolling' = NotEnrolling
    BY <2>1, NoEnrollment
  <2>2. CASE enrolling' = [enrolling EXCEPT !.at = "key"]
    BY <1>3, <2>2, EnrollMoves
  <2>3. CASE enrolling' = [enrolling EXCEPT !.at = "verify", !.serial = certificates + 1]
    BY <1>2, <1>3, <2>3
  <2> QED
    BY <1>1, <2>1, <2>2, <2>3
<1>5. ~AgentOn'
  BY <1>0, <1>1 DEF AgentOn
<1>6. EnrollOK'
  BY <1>4, <1>5 DEF EnrollOK
<1> QED
  BY <1>0, <1>1, <1>2, <1>4, <1>5, <1>6, EnrollKeeps DEF SetupInv, SetupTypeOK

(* One file of the identity after the other, with the agent still off.     *)
LEMMA PublishSound ==
  ASSUME SetupInv, PublishIdentity
  PROVE  SetupInv'
<1> DEFINE n == enrolling.serial
           certificate == [key |-> n, serial |-> n]
<1>0. /\ identity = [key |-> identity.key, certificate |-> identity.certificate, trust |-> identity.trust,
                     enrollment |-> identity.enrollment]
      /\ n \in Nat
  BY DEF SetupInv, SetupTypeOK
<1>1. /\ UNCHANGED <<release, currentRelease, configFile, boundTo, certificates, service, installing>>
      /\ \/ /\ enrolling.at = "key" /\ identity' = [identity EXCEPT !.key = n]
            /\ enrolling' = [enrolling EXCEPT !.at = "certificate"]
         \/ /\ enrolling.at = "certificate" /\ identity' = [identity EXCEPT !.certificate = certificate]
            /\ enrolling' = [enrolling EXCEPT !.at = "trust"]
         \/ /\ enrolling.at = "trust" /\ identity' = [identity EXCEPT !.trust = n]
            /\ enrolling' = [enrolling EXCEPT !.at = "enrollment"]
         \/ /\ enrolling.at = "enrollment"
            /\ identity' = [identity EXCEPT !.enrollment = [host |-> enrolling.host, serial |-> n]]
            /\ enrolling' = [enrolling EXCEPT !.at = "config"]
  <2> DEFINE after == [key |-> "certificate", certificate |-> "trust", trust |-> "enrollment",
                      enrollment |-> "config"]
             new == [key |-> n, certificate |-> certificate, trust |-> n,
                     enrollment |-> [host |-> enrolling.host, serial |-> n]]
  <2>1. /\ enrolling.at \in DOMAIN after
        /\ identity' = [identity EXCEPT ![enrolling.at] = new[enrolling.at]]
        /\ enrolling' = [enrolling EXCEPT !.at = after[enrolling.at]]
        /\ UNCHANGED <<release, currentRelease, configFile, boundTo, certificates, service, installing>>
    BY DEF PublishIdentity, EnrollGoes
  <2>2. DOMAIN after = {"key", "certificate", "trust", "enrollment"}
    BY SMT
  <2>3. /\ after["key"] = "certificate" /\ after["certificate"] = "trust"
        /\ after["trust"] = "enrollment" /\ after["enrollment"] = "config"
        /\ new["key"] = n /\ new["certificate"] = certificate /\ new["trust"] = n
        /\ new["enrollment"] = [host |-> enrolling.host, serial |-> n]
    OBVIOUS
  <2> HIDE DEF after, new, certificate, n
  <2> QED
    BY <2>1, <2>2, <2>3
<1>2. ~AgentOn'
  <2>1. enrolling.at \in {"key", "certificate", "trust", "enrollment"}
    BY <1>1
  <2>2. ~AgentOn
    BY <2>1 DEF SetupInv, EnrollOK
  <2> QED
    BY <1>1, <2>2 DEF AgentOn
<1>3. /\ identity' = [key |-> identity'.key, certificate |-> identity'.certificate, trust |-> identity'.trust,
                      enrollment |-> identity'.enrollment]
      /\ enrolling.at = "key" => identity'.key = n
      /\ enrolling.at # "key" => identity'.key = identity.key
      /\ enrolling.at = "certificate" => identity'.certificate = certificate
      /\ enrolling.at # "certificate" => identity'.certificate = identity.certificate
      /\ enrolling.at = "trust" => identity'.trust = n
      /\ enrolling.at # "trust" => identity'.trust = identity.trust
  BY SMT, <1>0, <1>1
<1>4. /\ enrolling' = [at |-> enrolling'.at, host |-> enrolling'.host, seen |-> enrolling'.seen,
                       serial |-> enrolling'.serial]
      /\ \/ enrolling.at = "key" /\ enrolling'.at = "certificate"
         \/ enrolling.at = "certificate" /\ enrolling'.at = "trust"
         \/ enrolling.at = "trust" /\ enrolling'.at = "enrollment"
         \/ enrolling.at = "enrollment" /\ enrolling'.at = "config"
      /\ enrolling'.serial = n
  BY <1>1, EnrollMoves
<1>5. certificate.key = n /\ n # Missing
  BY <1>0, SetupConstants
<1> HIDE DEF certificate, n
<1>6. EnrollOK'
  <2>0. /\ enrolling.at \in {"certificate", "trust", "enrollment"} => identity.key = n
        /\ enrolling.at \in {"trust", "enrollment"} => identity.certificate.key = identity.key
        /\ enrolling.at = "enrollment" => identity.trust # Missing
    BY DEF SetupInv, EnrollOK, Paired, n
  <2>1. CASE enrolling.at = "key"
    BY <1>2, <1>3, <1>4, <2>1 DEF EnrollOK
  <2>2. CASE enrolling.at = "certificate"
    BY <1>2, <1>3, <1>4, <1>5, <2>0, <2>2 DEF EnrollOK, Paired
  <2>3. CASE enrolling.at = "trust"
    BY <1>2, <1>3, <1>4, <1>5, <2>0, <2>3 DEF EnrollOK, Paired
  <2>4. CASE enrolling.at = "enrollment"
    BY <1>2, <1>3, <1>4, <2>0, <2>4 DEF EnrollOK, Paired
  <2> QED
    BY <1>4, <2>1, <2>2, <2>3, <2>4
<1> QED
  BY <1>0, <1>1, <1>2, <1>3, <1>4, <1>6, EnrollKeeps DEF SetupInv, SetupTypeOK, AgentOn

(* The agent is switched on when the identity is complete.                 *)
LEMMA EnableSound ==
  ASSUME SetupInv, _enable_agent_config \/ DeleteToken \/ NewToken
  PROVE  SetupInv'
<1>1. CASE _enable_agent_config
  <2>1. /\ UNCHANGED <<release, currentRelease, identity, boundTo, certificates, service, installing>>
        /\ enrolling' = [enrolling EXCEPT !.at = "unlink"]
    BY <1>1 DEF _enable_agent_config, EnrollGoes
  <2>2. /\ enrolling' = [at |-> enrolling'.at, host |-> enrolling'.host, seen |-> enrolling'.seen,
                         serial |-> enrolling'.serial]
        /\ enrolling'.at = "unlink" /\ enrolling'.serial = enrolling.serial
    BY <2>1, EnrollMoves
  <2>3. ~AgentOn /\ Paired /\ identity.trust # Missing
    BY <1>1 DEF SetupInv, EnrollOK, _enable_agent_config
  <2>4. EnrollOK'
    BY <2>2 DEF EnrollOK
  <2> QED
    BY <2>1, <2>2, <2>3, <2>4, EnrollKeeps DEF SetupInv, SetupTypeOK, Paired
<1>2. CASE DeleteToken
  <2>1. /\ UNCHANGED <<release, currentRelease, configFile, identity, boundTo, certificates, service, installing>>
        /\ enrolling' = [enrolling EXCEPT !.at = "restart"]
    BY <1>2 DEF DeleteToken, EnrollGoes, hostFiles
  <2>2. /\ enrolling' = [at |-> enrolling'.at, host |-> enrolling'.host, seen |-> enrolling'.seen,
                         serial |-> enrolling'.serial]
        /\ enrolling'.at = "restart" /\ enrolling'.serial = enrolling.serial
    BY <2>1, EnrollMoves
  <2>3. EnrollOK'
    BY <2>2 DEF EnrollOK
  <2> QED
    BY <2>1, <2>2, <2>3, EnrollKeeps DEF SetupInv, SetupTypeOK, HostStartsWhole, AgentOn, Paired
<1>3. CASE NewToken
  BY <1>3, RestartSound DEF NewToken, hostFiles
<1> QED
  BY <1>1, <1>2, <1>3

(* Only an agent that runs rotates, and it rotates to its own key; no      *)
(* enrollment is publishing then.                                          *)
LEMMA RotateSound ==
  ASSUME SetupInv, rotate_host_certificate
  PROVE  SetupInv'
<1>1. AgentRuns /\ AgentOn
  BY DEF SetupInv, rotate_host_certificate, AgentRuns
<1>2. /\ UNCHANGED <<release, currentRelease, configFile, boundTo, service, installing, enrolling>>
      /\ certificates' \in {certificates, certificates + 1}
      /\ \/ identity' = [identity EXCEPT !.certificate = [key |-> identity.key, serial |-> certificates + 1]]
         \/ identity' = [identity EXCEPT !.enrollment = [host |-> service.host, serial |-> rotating]]
  BY DEF rotate_host_certificate
<1>3. /\ identity = [key |-> identity.key, certificate |-> identity.certificate, trust |-> identity.trust,
                     enrollment |-> identity.enrollment]
      /\ certificates \in Nat
  BY DEF SetupInv, SetupTypeOK
<1>4. /\ identity' = [key |-> identity'.key, certificate |-> identity'.certificate, trust |-> identity'.trust,
                      enrollment |-> identity'.enrollment]
      /\ identity'.key = identity.key /\ identity'.trust = identity.trust
      /\ \/ identity'.certificate = identity.certificate
         \/ identity'.certificate = [key |-> identity.key, serial |-> certificates + 1]
  BY SMT, <1>2, <1>3
<1>5. certificates' \in Nat
  BY SMT, <1>2, <1>3
<1>6. Paired' /\ identity'.trust # Missing
  <2>1. Paired /\ identity.trust # Missing
    BY <1>1 DEF SetupInv, HostStartsWhole, AgentOn, Paired
  <2> QED
    BY SMT, <1>4, <2>1 DEF Paired
<1>7. EnrollOK'
  BY <1>1, <1>2, <1>4 DEF SetupInv, EnrollOK, AgentOn
<1> QED
  BY <1>1, <1>2, <1>4, <1>5, <1>6, <1>7, EnrollKeeps DEF SetupInv, SetupTypeOK, AgentOn

LEMMA SetupStep ==
  ASSUME SetupInv, [HostSetupNext]_hostSetupVars
  PROVE  SetupInv'
<1>1. CASE apply_daemon_install
  <2>1. CASE _activate_service
    BY <2>1, RestartSound DEF _activate_service
  <2> QED
    BY <1>1, <2>1, PlanInstallSound, BeginInstallSound, BuildSound, FinishInstallSound DEF apply_daemon_install
<1>2. CASE apply_enrollment
  <2>1. CASE RestartEnrolled
    BY <2>1, RestartSound DEF RestartEnrolled
  <2> QED
    BY <1>2, <2>1, PlanEnrollmentSound, BeginEnrollmentSound, ExchangeSound, PublishSound, EnableSound
       DEF apply_enrollment
<1>3. CASE rotate_host_certificate
  BY <1>3, RotateSound
<1>4. CASE SetupCrash
  BY <1>4, RestartSound DEF SetupCrash
<1>5. CASE UNCHANGED hostSetupVars
  BY <1>5, RestartSound DEF hostSetupVars, hostFiles
<1> QED
  BY <1>1, <1>2, <1>3, <1>4, <1>5 DEF HostSetupNext

(* Wherever installing, enrolling or rotating is cut short, what systemd   *)
(* starts is whole, for any releases, hosts and number of crashes          *)
(* (_promote_release, _publish_identity, load_daemon_config).              *)
THEOREM SetupStartsWhole == HostSetupSpec => []HostStartsWhole
<1>1. SetupInv => HostStartsWhole
  BY DEF SetupInv
<1> QED
  BY <1>1, SetupStart, SetupStep, PTL DEF HostSetupSpec
=============================================================================
