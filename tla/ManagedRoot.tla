----------------------------- MODULE ManagedRoot -----------------------------
(***************************************************************************)
(* Changes below a managed directory (filesystem.py): one call of mkdir,   *)
(* write_bytes, replace_bytes or copy_in, system call by system call, while *)
(* the owner of the tree renames, replaces and re-modes what the call looks *)
(* at, any system call may fail, and the host may stop at any point.       *)
(*                                                                         *)
(* An entry is the name of what it leads to.  "D" and "E" are directories  *)
(* that may stand at root/d; "old" and "alien" are files, "link" a symbolic *)
(* link, "new" the temporary file of the call and "made" its directory.    *)
(* What was not synchronised may be lost when the host stops, a file's     *)
(* content independently of the entries that lead to it.                   *)
(***************************************************************************)
EXTENDS Naturals, Sequences

CONSTANTS
    Calls,           \* [op, path, mode, source]
    MaxDisturbances, \* bound on what the owner does meanwhile
    MaxFaults        \* bound on system calls that fail

VARIABLES
    root,       \* whether the root is "open", "closed" or was never opened, "new"
    call,       \* the call
    step,       \* its next system call
    pinned,     \* the directory its parent descriptor holds
    live,       \* [directory -> [name -> entry]]
    synced,     \* what of it survives
    data,       \* content of the temporary file
    stable,     \* what of it survives
    safe,       \* directories of the trusted owner that nobody else may write
    altered,    \* whether the copied source changed since it was inspected
    known,      \* mkdir: whether the identity of the new directory is known
    published,  \* committed, or complete for mkdir
    error,      \* the primary error
    leftovers,  \* whether a cleanup failed
    result,     \* "none", "ok" or the code raised
    since,      \* what was disturbed since the call last looked at it; "unsynced"
                \* when the entry was since its directory was synchronised
    budget      \* disturbances and faults so far

rootVars == <<root, call, step, pinned, live, synced, data, stable, safe, altered, known,
              published, error, leftovers, result, since, budget>>

Directories == {"root", "D", "E"}
NoEntry == "absent"
NoCall == [op |-> "none"]
Kind == [root |-> "directory", D |-> "directory", E |-> "directory", made |-> "directory",
         old |-> "regular", alien |-> "regular", new |-> "regular", link |-> "symlink", absent |-> "absent"]

-----------------------------------------------------------------------------
(* Arguments.                                                              *)

\* Not empty, no control characters.
_path_text(path) == path # <<>> /\ \A i \in DOMAIN path : path[i] # "control"

\* Relative, without empty components and dot segments.
_destination_components(path) == _path_text(path) /\ \A i \in DOMAIN path : path[i] \notin {"", ".", ".."}

\* Owner permission bits only.
_validate_mode(mode, allowed) == mode \subseteq allowed
_validate_directory_mode(mode) == _validate_mode(mode, {"r", "w", "x"}) /\ {"w", "x"} \subseteq mode

Refused(c) ==
    IF ~_destination_components(c.path) THEN "invalid_path"
    ELSE IF c.op = "mkdir"
    THEN IF _validate_directory_mode(c.mode) THEN "none" ELSE "invalid_mode"
    ELSE IF _validate_mode(c.mode, {"r", "w"}) THEN "none" ELSE "invalid_mode"

-----------------------------------------------------------------------------
(* Looking at the tree.                                                    *)

_require_safe_parent(d) == d \in safe

\* Why a component cannot be opened as a directory without following a link.
_traversal_os_error(entry) ==
    CASE Kind[entry] = "symlink" -> "symlink_component"
      [] Kind[entry] = "absent" -> "missing_component"
      [] Kind[entry] # "directory" -> "not_directory"
      [] OTHER -> "none"

\* The directory the parents lead to, no link followed, or why there is none.
_walk_directories(parents) ==
    LET entry == live["root"]["d"]
    IN  IF root # "open" THEN [dir |-> "none", code |-> "closed_root"]
        ELSE IF ~_require_safe_parent("root") THEN [dir |-> "none", code |-> "unsafe_parent"]
        ELSE IF parents = <<>> THEN [dir |-> "root", code |-> "none"]
        ELSE IF _traversal_os_error(entry) # "none" THEN [dir |-> "none", code |-> _traversal_os_error(entry)]
        ELSE IF ~_require_safe_parent(entry) THEN [dir |-> "none", code |-> "unsafe_parent"]
        ELSE [dir |-> entry, code |-> "none"]

Parents == SubSeq(call.path, 1, Len(call.path) - 1)
Walked == _walk_directories(Parents).dir

_entry_kind == Kind[live[pinned]["f"]]

_require_absent_directory_destination ==
    IF _entry_kind = "symlink" THEN "symlink_component"
    ELSE IF _entry_kind # "absent" THEN "invalid_destination" ELSE "none"

_require_regular_destination ==
    IF _entry_kind = "symlink" THEN "symlink_component"
    ELSE IF _entry_kind = "absent" /\ call.op = "replace_bytes" THEN "invalid_destination"
    ELSE IF _entry_kind \notin {"absent", "regular"} THEN "invalid_destination" ELSE "none"

_mutation_os_error == IF _entry_kind = "symlink" THEN "symlink_component" ELSE "io_failure"

-----------------------------------------------------------------------------
(* One system call.                                                        *)

tree == <<live, synced, data, stable>>
flags == <<known, published, leftovers>>

Goto(next) == step' = next /\ UNCHANGED <<error, result>>

\* An error once the parent is open goes through the cleanup.
Raise(code) == step' = "cleanup" /\ error' = code /\ UNCHANGED result

\* The system call at this step fails.
Fault(here, code) ==
    /\ step = here
    /\ budget.faults < MaxFaults
    /\ budget' = [budget EXCEPT !.faults = @ + 1]
    /\ Raise(code)
    /\ UNCHANGED <<root, call, pinned, tree, safe, altered, flags, since>>

\* A check of the code: it raises the code unless that is "none".
Check(here, code, next) ==
    /\ step = here
    /\ IF code = "none" THEN Goto(next) ELSE Raise(code)
    /\ UNCHANGED <<root, call, pinned, tree, safe, altered, flags, budget>>

\* What the call meets makes the system call fail.
Fails(here, code) ==
    /\ step = here
    /\ Raise(code)
    /\ UNCHANGED <<root, call, pinned, tree, safe, altered, flags, since, budget>>

\* A change of the tree, or of what the call knows.
Change(here, next) ==
    /\ step = here
    /\ Goto(next)
    /\ UNCHANGED <<root, call, pinned, safe, altered, leftovers, since, budget>>

\* Before the parent is open there is nothing to clean up.
Finish(code) == step' = "done" /\ result' = code /\ UNCHANGED error

MakesDirectory == call.op = "mkdir"

-----------------------------------------------------------------------------
(* The root.                                                               *)

_require_platform_capabilities(missing) == IF missing = {} THEN "none" ELSE "unsupported_platform"

\* __init__: who the trusted owner is, what stands at the path, whose it is.
_resolve_trusted_owner_uid(uid) == IF uid = "own" THEN "none" ELSE "unsafe_owner"

_root_open_code(place) ==
    CASE place = "link" -> "symlink_component"
      [] place = "file" -> "not_directory"
      [] place = "absent" -> "missing_component"
      [] OTHER -> "none"

OpenedCode(missing, place, uid) ==
    IF _require_platform_capabilities(missing) # "none" THEN "unsupported_platform"
    ELSE IF _resolve_trusted_owner_uid(uid) # "none" THEN "unsafe_owner"
    ELSE IF _root_open_code(place) # "none" THEN _root_open_code(place)
    ELSE CASE place = "foreign" -> "unsafe_owner"
           [] place = "shared" -> "unsafe_parent"
           [] OTHER -> "none"

OpenRoot(missing, place, uid) ==
    /\ root = "new"
    /\ LET code == OpenedCode(missing, place, uid)
       IN  IF code = "none" THEN root' = "open" /\ UNCHANGED <<step, error, result>>
           ELSE root' = "closed" /\ Finish(code)
    /\ UNCHANGED <<call, pinned, tree, safe, altered, flags, since, budget>>

CloseRoot ==
    /\ root = "open" /\ step = "idle"
    /\ root' = "closed"
    /\ UNCHANGED <<call, step, pinned, tree, safe, altered, flags, error, result, since, budget>>

-----------------------------------------------------------------------------
(* A call up to the check of its destination.                              *)

\* Opens the source of a copy: a regular file, not a link.
InvalidSource(c) == c.op = "copy_in" /\ c.source # "regular"

Begin(c) ==
    /\ step = "idle" /\ root # "new"
    /\ call' = c
    /\ LET code == Refused(c)
       IN  IF code # "none" THEN Finish(code)
           ELSE IF InvalidSource(c) THEN Finish("invalid_source") ELSE Goto("open_parent")
    /\ UNCHANGED <<root, pinned, tree, safe, altered, flags, since, budget>>

_open_parent ==
    /\ step = "open_parent"
    /\ LET walked == _walk_directories(Parents)
       IN  /\ pinned' = walked.dir
           /\ error' = walked.code
           /\ step' = IF walked.code = "none" THEN "revalidate" ELSE "closing"
    /\ UNCHANGED <<root, call, tree, safe, altered, flags, result, since, budget>>

\* The path still leads to the directory that is open.
_revalidate_parent(here, next) ==
    /\ Check(here, IF Walked = pinned THEN "none" ELSE "race_detected", next)
    /\ since' = since \ {"d"}

DestinationCode ==
    IF MakesDirectory THEN _require_absent_directory_destination ELSE _require_regular_destination

CheckDestination(here, next) == Check(here, DestinationCode, next) /\ UNCHANGED since

-----------------------------------------------------------------------------
(* mkdir.                                                                  *)

MakeDirectory ==
    /\ step = "mkdir"
    /\ IF live[pinned]["f"] = NoEntry
       THEN Change("mkdir", "stat") /\ live' = [live EXCEPT ![pinned]["f"] = "made"]
       ELSE Fails("mkdir", IF _entry_kind = "symlink" THEN "symlink_component" ELSE "invalid_destination")
    /\ UNCHANGED <<synced, data, stable, known, published>>

\* What stands there now is taken for the new directory.
IdentifyDirectory ==
    /\ step = "stat"
    /\ IF live[pinned]["f"] = NoEntry
       THEN Fails("stat", "io_failure")
       ELSE Change("stat", "secure") /\ known' = live[pinned]["f"]
    /\ UNCHANGED <<tree, published>>

\* Its owner and mode, then open, the same identity again, and the final mode.
SecureDirectory ==
    /\ Check("secure",
             IF known \in Directories /\ ~_require_safe_parent(known) THEN "unsafe_parent"
             ELSE IF _entry_kind = "symlink" THEN "symlink_component"
             ELSE IF _entry_kind # "directory" THEN "io_failure"
             ELSE IF live[pinned]["f"] # known THEN "race_detected" ELSE "none",
             "sync_new")
    /\ MakesDirectory
    /\ UNCHANGED since

SyncDirectory ==
    /\ MakesDirectory
    /\ Change("sync_new", "revalidate_again")
    /\ published' = TRUE
    /\ UNCHANGED <<tree, known>>

-----------------------------------------------------------------------------
(* _atomic_file_mutation.                                                  *)

\* Exclusively, under a name of its own.
_create_temporary ==
    /\ Change("create", "secure")
    /\ live' = [live EXCEPT ![pinned]["t"] = "new"]
    /\ UNCHANGED <<synced, data, stable, known, published>>

\* Mode, kind and owner of the temporary file.
SecureTemporary == ~MakesDirectory /\ Change("secure", "write") /\ UNCHANGED <<tree, known, published>>

\* In chunks.  What is copied from a source that changes meanwhile is neither
\* what it was nor what it becomes.
_write_all ==
    /\ Change("write", "write_rest")
    /\ data' = "part"
    /\ UNCHANGED <<live, synced, stable, known, published>>

WriteRest ==
    /\ Change("write_rest", "source")
    /\ data' = IF altered THEN "mixed" ELSE "whole"
    /\ UNCHANGED <<live, synced, stable, known, published>>

\* copy_in: the source still has the signature it was opened with.
_source_signature ==
    Check("source", IF call.op = "copy_in" /\ altered THEN "source_changed" ELSE "none", "sync_new")
    /\ UNCHANGED since

\* Faulty variant: the content is left to the cache.
LeaveTemporary ==
    /\ ~MakesDirectory
    /\ Change("sync_new", "revalidate_again")
    /\ UNCHANGED <<tree, known, published>>

SyncTemporary ==
    /\ ~MakesDirectory
    /\ Change("sync_new", "revalidate_again")
    /\ stable' = data
    /\ UNCHANGED <<live, synced, data, known, published>>

\* The owner put a directory there: nothing is renamed over it.
Replace ==
    /\ step = "replace"
    /\ IF _entry_kind = "directory"
       THEN Fails("replace", "io_failure")
       ELSE /\ Change("replace", "sync_parent")
            /\ live' = [live EXCEPT ![pinned] = [@ EXCEPT !["f"] = "new", !["t"] = NoEntry]]
            /\ published' = TRUE
    /\ UNCHANGED <<synced, data, stable, known>>

-----------------------------------------------------------------------------
(* After the change, for directories and files.                            *)

\* _sync of the parent: its entries are durable.
SyncParent ==
    /\ step = "sync_parent" /\ Goto("revalidate_last")
    /\ synced' = [synced EXCEPT ![pinned] = live[pinned]]
    /\ since' = since \ {"unsynced"}
    /\ UNCHANGED <<root, call, pinned, live, data, stable, safe, altered, flags, budget>>

Expected == IF MakesDirectory THEN known ELSE "new"

\* What stands there is what was published.
_post_mutation_revalidate ==
    /\ Check("post", IF live[pinned]["f"] = Expected THEN "none" ELSE "race_detected", "cleanup")
    /\ since' = since \ {"f"}

AtTemporary == live[pinned]["t"] = "new" /\ ~published
AtCreated == MakesDirectory /\ known # "none" /\ ~published

\* Faulty variant: only the descriptors are closed.
LeaveCreated ==
    /\ step = "cleanup" /\ Goto("closing")
    /\ UNCHANGED <<root, call, pinned, tree, safe, altered, flags, since, budget>>

\* finally: what was not published is removed, if it still is what was made.
Cleanup ==
    /\ step = "cleanup"
    /\ IF AtTemporary
       THEN /\ Change("cleanup", "sync_cleanup") /\ UNCHANGED leftovers
            /\ live' = [live EXCEPT ![pinned]["t"] = NoEntry]
       ELSE IF AtCreated /\ live[pinned]["f"] = known /\ Kind[known] = "directory"
       THEN /\ Change("cleanup", "sync_cleanup") /\ UNCHANGED leftovers
            /\ live' = [live EXCEPT ![pinned]["f"] = NoEntry]
       ELSE /\ Goto(IF AtCreated THEN "sync_cleanup" ELSE "closing")
            /\ leftovers' = (leftovers \/ (AtCreated /\ live[pinned]["f"] # NoEntry))
            /\ UNCHANGED <<root, call, pinned, live, safe, altered, since, budget>>
    /\ UNCHANGED <<synced, data, stable, known, published>>

SyncCleanup ==
    /\ Change("sync_cleanup", "closing")
    /\ synced' = [synced EXCEPT ![pinned] = live[pinned]]
    /\ UNCHANGED <<live, data, stable, known, published>>

\* A cleanup step fails: the next one is still taken.
CleanupFault(here, next) ==
    /\ step = here
    /\ budget.faults < MaxFaults
    /\ budget' = [budget EXCEPT !.faults = @ + 1]
    /\ leftovers' = TRUE
    /\ Goto(next)
    /\ UNCHANGED <<root, call, pinned, tree, safe, altered, known, published, since>>

\* A failed cleanup is what is raised, naming the primary error beside it.
_combined_cleanup_error == IF leftovers THEN "cleanup_failure" ELSE IF error = "none" THEN "ok" ELSE error

Return ==
    /\ step = "closing"
    /\ Finish(_combined_cleanup_error)
    /\ UNCHANGED <<root, call, pinned, tree, safe, altered, flags, since, budget>>

-----------------------------------------------------------------------------
(* The owner of the tree, and the host.                                    *)

Disturb ==
    /\ budget.disturbances < MaxDisturbances /\ call # NoCall /\ step # "stopped"
    /\ budget' = [budget EXCEPT !.disturbances = @ + 1]
    /\ UNCHANGED <<root, call, step, pinned, synced, data, stable, flags, error, result>>

MoveParent(e) ==
    /\ Disturb
    /\ live["root"]["d"] # e /\ live' = [live EXCEPT !["root"]["d"] = e]
    /\ since' = since \cup {"d"}
    /\ UNCHANGED <<safe, altered>>

PutEntry(e) ==
    /\ Disturb
    /\ pinned # "none" /\ live[pinned]["f"] # e
    /\ e # pinned
    /\ live' = [live EXCEPT ![pinned]["f"] = e]
    /\ since' = since \cup {"f", "unsynced"}
    /\ UNCHANGED <<safe, altered>>

ShareDirectory(d) ==
    /\ Disturb
    /\ d \in safe /\ safe' = safe \ {d}
    /\ since' = since \cup {"d"}
    /\ UNCHANGED <<live, altered>>

AlterSource ==
    /\ Disturb
    /\ call.op = "copy_in" /\ ~altered /\ altered' = TRUE
    /\ UNCHANGED <<live, safe, since>>

\* Every entry, and the temporary file, is as it was synchronised or as it is.
Crash ==
    LET unsynced == {at \in Directories \X {"d", "f", "t"} : live[at[1]][at[2]] # synced[at[1]][at[2]]}
    IN  /\ step \notin {"idle", "stopped"} /\ pinned # "none"
        /\ step' = "stopped"
        /\ \E lost \in SUBSET unsynced :
               live' = [d \in Directories |-> [n \in {"d", "f", "t"} |->
                           IF <<d, n>> \in lost THEN synced[d][n] ELSE live[d][n]]]
        /\ data' \in IF data = stable THEN {data} ELSE {data, stable, "part"}
        /\ UNCHANGED <<root, call, pinned, synced, stable, safe, altered, flags, error, result, since, budget>>

-----------------------------------------------------------------------------
\* root/d is D, and at the destination is what the call finds there.
RootInit ==
    /\ root = "new" /\ call = NoCall /\ step = "idle" /\ pinned = "none"
    /\ \E found \in {"absent", "old", "link", "E"} :
           live = [root |-> [d |-> "D", f |-> "old", t |-> NoEntry],
                   D |-> [d |-> NoEntry, f |-> found, t |-> NoEntry],
                   E |-> [d |-> NoEntry, f |-> NoEntry, t |-> NoEntry]]
    /\ synced = live
    /\ data = "none" /\ stable = "none"
    /\ safe = Directories
    /\ altered = FALSE /\ known = "none" /\ published = FALSE
    /\ error = "none" /\ leftovers = FALSE /\ result = "none"
    /\ since = {}
    /\ budget = [disturbances |-> 0, faults |-> 0]

mkdir == MakeDirectory \/ IdentifyDirectory \/ SecureDirectory \/ SyncDirectory

copy_content == _write_all \/ WriteRest \/ _source_signature

_atomic_file_mutation ==
    \/ _create_temporary \/ SecureTemporary \/ copy_content \/ SyncTemporary
    \/ CheckDestination("destination_again", "replace")
    \/ Replace

CallNext ==
    \/ \E c \in Calls : Begin(c)
    \/ _open_parent
    \/ _revalidate_parent("revalidate", "destination")
    \/ CheckDestination("destination", IF MakesDirectory THEN "mkdir" ELSE "create")
    \/ mkdir \/ _atomic_file_mutation
    \/ _revalidate_parent("revalidate_again", IF MakesDirectory THEN "sync_parent" ELSE "destination_again")
    \/ SyncParent
    \/ _revalidate_parent("revalidate_last", "post")
    \/ _post_mutation_revalidate
    \/ Cleanup \/ SyncCleanup \/ Return

FaultNext ==
    \/ \E here \in {"create", "secure", "write", "write_rest", "source", "stat"} : Fault(here, "io_failure")
    \/ \E here \in {"sync_new", "sync_parent"} : Fault(here, "durability_unavailable")
    \/ \E here \in {"mkdir", "replace"} : Fault(here, _mutation_os_error)
    \/ step = "cleanup" /\ (IF MakesDirectory THEN AtCreated ELSE AtTemporary) /\ CleanupFault("cleanup", "sync_cleanup")
    \/ CleanupFault("sync_cleanup", "closing")
    \/ (pinned = "none" => call.op = "copy_in") /\ CleanupFault("closing", "closing")

OwnerNext ==
    \/ \E e \in {"E", "link", "old", "absent"} : MoveParent(e)
    \/ \E e \in {"alien", "link", "E", "absent"} : PutEntry(e)
    \/ \E d \in Directories : ShareDirectory(d)
    \/ AlterSource

RootNext ==
    \/ \E missing \in {{}, {"O_NOFOLLOW"}}, uid \in {"own", "implicit", "other"},
          place \in {"directory", "link", "file", "absent", "foreign", "shared"} : OpenRoot(missing, place, uid)
    \/ CloseRoot
    \/ CallNext \/ FaultNext \/ OwnerNext \/ Crash

RootSpec == RootInit /\ [][RootNext]_rootVars

-----------------------------------------------------------------------------
(* Properties.                                                             *)

\* What stands at a destination is the whole of what a call wrote or something
\* the call did not write: not before the write is complete, not from a source
\* that changed meanwhile, and not after the host stopped at any point
\* (the order of the two fsync calls and os.replace in _atomic_file_mutation).
NeverTorn == \A d \in Directories : live[d]["f"] = "new" => data = "whole"

Failed == result \notin {"none", "ok", "cleanup_failure"}

\* What a call reports is true, and stays true when the host stops: after a
\* success the published entry stands in the directory the path led to, unless
\* the owner changed it since the call last looked or, once the host stopped,
\* since the directory was synchronised; after an error that names no failed
\* cleanup nothing unpublished of the call is left behind.
ReportsAreTrue ==
    /\ result = "ok" /\ "f" \notin since /\ (step = "stopped" => "unsynced" \notin since)
         => live[pinned]["f"] = Expected
    /\ result = "ok" /\ "d" \notin since /\ step = "done" => Walked = pinned
    /\ Failed /\ pinned # "none" => live[pinned]["t"] = NoEntry
    /\ Failed /\ pinned # "none" /\ known = "made" /\ ~published => live[pinned]["f"] # "made"
=============================================================================
