--------------------------- MODULE WorkspaceFiles ---------------------------
(***************************************************************************)
(* The files of one workspace (redstone/workspace) and its snapshots       *)
(* (redstone/changes): tool calls that write, create, delete and rename,   *)
(* SnapshotStore.create(), restore() and delete(), the lock most of them   *)
(* take, processes in a sandbox that do not, and the death of the process. *)
(*                                                                         *)
(* The content of a file is its size.  A directory is a tree of files, or  *)
(* Gone; an ignored directory at the root (node_modules, dist, ...), which *)
(* is only ever moved as a whole, counts as one file.                      *)
(*                                                                         *)
(* Left out: the checks of names (paths.py) and of links (safety.py),      *)
(* which only refuse, empty directories, and destroy(), which nothing      *)
(* calls.                                                                  *)
(***************************************************************************)
EXTENDS Naturals, FiniteSets, Functions

CONSTANTS
    Thread,         \* the threads that run tool calls and snapshot operations
    Source,         \* paths of ordinary files
    Secret,         \* paths is_secret_path() recognises
    Derived,        \* IGNORED_DIRECTORIES that may exist at the root
    SnapshotId,     \* the ids that may be in use at a time
    None,           \* no file, no thread, no argument
    Gone,           \* no directory
    Size,           \* the sizes of what is written
    MaxProjectSize, \* Limits.max_project_size
    MaxFiles,       \* Limits.max_files
    MaxSnapshots,   \* Limits.max_snapshots_per_workspace
    MaxStorage,     \* Limits.max_snapshot_storage
    MaxFaults,      \* bound on the file operations that fail in a call
    MaxDeaths,      \* bound on the deaths of the process
    SandboxWrites   \* whether a sandbox has the project mounted

Path == Source \cup Secret \cup Derived

ASSUME WorkspaceFilesAssumption ==
    /\ Source \cap (Secret \cup Derived) = {} /\ Secret \cap Derived = {}
    /\ Size \subseteq Nat
    /\ {MaxProjectSize, MaxFiles, MaxSnapshots, MaxStorage, MaxFaults, MaxDeaths} \subseteq Nat
    /\ SandboxWrites \in BOOLEAN
    /\ IsFiniteSet(Path) /\ IsFiniteSet(SnapshotId)
    /\ None \notin Thread \cup Nat \cup {"write", "create", "snapshot", "restore"}
    /\ Gone \notin [Path -> Nat \cup {None}]

VARIABLES
    project,  \* <root>/project
    staging,  \* .redstone/restore/staging_* of the restore that runs
    trash,    \* .redstone/restore/trash_* of the restore that runs
    wreck,    \* what the last operation, if it was a restore, left in .redstone/restore
    snaps,    \* .redstone/snapshots/<id>
    owner,    \* the thread that holds workspace_lock(project_root)
    call,     \* the operation a thread is in, None outside of the lock
    pc,
    arg,      \* its arguments and local values
    todo,     \* what its loop has not reached yet
    copy,     \* in the loop of create(): the file at hand, and what the files before it came to
    start,    \* the project when the lock was taken
    raced,    \* whether somebody without the lock has changed what its holder works on
    faults,   \* the file operations of the holder that have failed
    deaths

dirs == <<project, staging, trash, wreck, snaps>>
threads == <<owner, call, pc, arg, todo, copy>>
vars == <<dirs, threads, start, raced, faults, deaths>>

Empty == [p \in Path |-> None]
\* Every write makes the directories it needs.
Made(dir) == IF dir = Gone THEN Empty ELSE dir
Files(dir) == IF dir = Gone THEN {} ELSE {p \in Path : dir[p] # None}
Bytes(dir) == SumFunctionOnSet(dir, Files(dir))

\* _walk() without the files is_secret_path() names.
Visible(dir) == Files(dir) \cap Source

\* list_ids() and _storage_used(): whatever has been left there counts.
Ids == {s \in SnapshotId : snaps[s] # Gone}
StorageUsed == SumFunction([s \in SnapshotId |-> Bytes(snaps[s])])

NoCopy == [file |-> None, total |-> 0]

\* WorkspaceManager.create().
Init ==
    /\ project = Empty
    /\ staging = Gone /\ trash = Gone /\ wreck = {}
    /\ snaps = [s \in SnapshotId |-> Gone]
    /\ owner = None
    /\ call = [t \in Thread |-> None]
    /\ pc = [t \in Thread |-> "idle"]
    /\ arg = [t \in Thread |-> None]
    /\ todo = [t \in Thread |-> {}]
    /\ copy = NoCopy
    /\ start = Empty
    /\ raced = FALSE
    /\ faults = 0
    /\ deaths = 0

\* A file operation of the thread that holds the lock fails.
Fault ==
    /\ faults < MaxFaults
    /\ faults' = faults + 1

Goto(t, label) == pc' = [pc EXCEPT ![t] = label]
Work(t, paths) == todo' = [todo EXCEPT ![t] = paths]

-----------------------------------------------------------------------------
(* The lock. *)

Acquire_Shared(t) == owner' = t
Acquire(t) ==
    /\ owner = None
    /\ owner' = t

\* WorkspaceManager.get() finds the project, and the operation gets the lock.
Enter(t, operation, label, args) ==
    /\ pc[t] = "idle"
    /\ project # Gone
    /\ Acquire(t)
    /\ call' = [call EXCEPT ![t] = operation]
    /\ Goto(t, label)
    /\ arg' = [arg EXCEPT ![t] = args]
    /\ start' = project
    /\ raced' = FALSE
    /\ wreck' = {}
    /\ UNCHANGED <<faults, deaths>>

\* The operation returns or raises.  What a failed restore could not remove stays.
Leave(t) ==
    /\ pc[t] \in {"return", "raise"}
    /\ owner' = None
    /\ call' = [call EXCEPT ![t] = None]
    /\ Goto(t, "idle")
    /\ arg' = [arg EXCEPT ![t] = None]
    /\ Work(t, {})
    /\ copy' = NoCopy
    /\ wreck' = {staging, trash} \ {Gone}
    /\ staging' = Gone /\ trash' = Gone
    /\ start' = IF project = Gone THEN start ELSE Empty
    /\ raced' = (raced /\ project = Gone)
    /\ faults' = 0
    /\ UNCHANGED <<project, snaps, deaths>>

-----------------------------------------------------------------------------
(* The file tools. *)

\* write_file(), and create_file() around it.
Write(t) ==
    \E operation \in {"write", "create"}, p \in Path, size \in Size :
        /\ Enter(t, operation, "check", [path |-> p, size |-> size])
        /\ UNCHANGED <<project, staging, trash, snaps, todo, copy>>

\* create_file(), in the same critical section.
Creatable(t) == call[t] = "create" => arg[t].path \notin Files(project)

\* What is in the file that is overwritten does not count.
Fits(p, size) ==
    /\ Bytes([Made(project) EXCEPT ![p] = size]) <= MaxProjectSize
    /\ p \in Files(project) \/ Cardinality(Files(project)) < MaxFiles

Check(t) ==
    LET p == arg[t].path IN
    /\ pc[t] = "check"
    /\ Goto(t, IF /\ Creatable(t)
                  /\ p \notin Secret
                  /\ Fits(p, arg[t].size)
               THEN "put" ELSE "raise")
    /\ UNCHANGED <<dirs, owner, call, arg, copy, todo, start, raced, faults, deaths>>

\* write_text() truncates the file first, so one that fails leaves it empty.
Put(t) ==
    /\ pc[t] = "put"
    /\ \/ project' = [Made(project) EXCEPT ![arg[t].path] = arg[t].size]
          /\ Goto(t, "return") /\ UNCHANGED faults
       \/ project' = [Made(project) EXCEPT ![arg[t].path] = 0]
          /\ Goto(t, "raise") /\ Fault
    /\ UNCHANGED <<staging, trash, wreck, snaps, owner, call, arg, copy, todo, start, raced, deaths>>

\* delete_file() removes credentials as well as source.
DeleteFile(t, p) ==
    /\ pc[t] = "idle"
    /\ owner = None
    /\ p \in Files(project)
    /\ project' = [project EXCEPT ![p] = None]
    /\ UNCHANGED <<staging, trash, wreck, snaps, threads, start, raced, faults, deaths>>

RenameFile(t, p, q) ==
    /\ pc[t] = "idle"
    /\ owner = None
    /\ p \in Files(project) \ Secret
    /\ q \notin Files(project) \cup Secret
    /\ project' = [project EXCEPT ![p] = None, ![q] = project[p]]
    /\ UNCHANGED <<staging, trash, wreck, snaps, threads, start, raced, faults, deaths>>

\* Code in a sandbox writes and removes files of the mounted project at any time:
\* in the model, once in an operation of ours.
Sandbox(p) ==
    /\ SandboxWrites
    /\ ~raced
    /\ project # Gone
    /\ \E content \in (Size \cup {None}) \ {project[p]} :
           project' = [project EXCEPT ![p] = content]
    /\ raced' = (owner # None)
    /\ UNCHANGED <<staging, trash, wreck, snaps, threads, start, faults, deaths>>

-----------------------------------------------------------------------------
(* SnapshotStore.create() and delete(). *)

CreateSnapshot(t, s) ==
    /\ s \notin Ids
    /\ Cardinality(Ids) < MaxSnapshots
    /\ StorageUsed < MaxStorage
    /\ Enter(t, "snapshot", "copy", [id |-> s, used |-> StorageUsed])
    /\ snaps' = [snaps EXCEPT ![s] = Empty]
    /\ Work(t, Visible(project))
    /\ UNCHANGED <<project, staging, trash, copy>>

\* The quota is checked before and after each copy, with the storage that was used
\* before all of them.
Stored_NotChecked(t, size) == arg[t].used <= MaxStorage
Stored(t, size) == arg[t].used + copy.total + size <= MaxStorage

CheckFile(t, p) ==
    /\ pc[t] = "copy"
    /\ p \in todo[t] \cap Files(project)
    /\ Stored(t, project[p])
    /\ copy' = [copy EXCEPT !.file = p]
    /\ Goto(t, "copying")
    /\ UNCHANGED <<dirs, owner, call, arg, todo, start, raced, faults, deaths>>

\* copy2() copies what is in the file by now.
CopyFile(t) ==
    /\ pc[t] = "copying"
    /\ copy.file \in Files(project)
    /\ snaps' = [snaps EXCEPT ![arg[t].id] = [Made(@) EXCEPT ![copy.file] = project[copy.file]]]
    /\ Goto(t, "copied")
    /\ UNCHANGED <<project, staging, trash, wreck, owner, call, arg, copy, todo, start, raced, faults, deaths>>

CountFile(t) ==
    LET s == arg[t].id IN
    /\ pc[t] = "copied"
    /\ copy.file \in Files(snaps[s])
    /\ Stored(t, snaps[s][copy.file])
    /\ copy' = [file |-> None, total |-> copy.total + snaps[s][copy.file]]
    /\ Work(t, todo[t] \ {copy.file})
    /\ Goto(t, "copy")
    /\ UNCHANGED <<dirs, owner, call, arg, start, raced, faults, deaths>>

CopyEnds(t) ==
    /\ pc[t] = "copy"
    /\ todo[t] = {}
    /\ Goto(t, "return")
    /\ copy' = NoCopy
    /\ UNCHANGED <<dirs, owner, call, arg, todo, start, raced, faults, deaths>>

\* The quota is reached, or a file has vanished.
CopyRaises(t) ==
    LET dir == snaps[arg[t].id] IN
    /\ \/ pc[t] = "copy" /\ \E p \in todo[t] : p \in Files(project) => ~Stored(t, project[p])
       \/ pc[t] = "copying" /\ copy.file \notin Files(project)
       \/ pc[t] = "copied" /\ (copy.file \in Files(dir) => ~Stored(t, dir[copy.file]))
    /\ Goto(t, "discard")
    /\ copy' = NoCopy
    /\ UNCHANGED <<dirs, owner, call, arg, todo, start, raced, faults, deaths>>

\* A file operation fails; a copy that does leaves what it has written.
CopyFails(t) ==
    /\ \/ pc[t] = "copy" /\ todo[t] # {} /\ UNCHANGED snaps
       \/ pc[t] \in {"copying", "copied"} /\ UNCHANGED snaps
       \/ /\ pc[t] = "copying" /\ copy.file \in Files(project)
          /\ \E size \in Size \cup {0} :
                /\ size <= project[copy.file]
                /\ snaps' = [snaps EXCEPT ![arg[t].id] = [Made(@) EXCEPT ![copy.file] = size]]
    /\ Fault
    /\ Goto(t, "discard")
    /\ copy' = NoCopy
    /\ UNCHANGED <<project, staging, trash, wreck, owner, call, arg, todo, start, raced, deaths>>

\* The half snapshot is removed, unless that fails as well and is ignored.
Discard(t) ==
    /\ pc[t] = "discard"
    /\ \/ snaps' = [snaps EXCEPT ![arg[t].id] = Gone] /\ UNCHANGED faults
       \/ Fault /\ UNCHANGED snaps
    /\ Goto(t, "raise")
    /\ UNCHANGED <<project, staging, trash, wreck, owner, call, arg, copy, todo, start, raced, deaths>>

\* delete() does not take the lock.
DeleteSnapshot(s) ==
    /\ s \in Ids
    /\ snaps' = [snaps EXCEPT ![s] = Gone]
    /\ raced' = (raced \/ \E t \in Thread : call[t] \in {"snapshot", "restore"} /\ arg[t].id = s)
    /\ UNCHANGED <<project, staging, trash, wreck, threads, start, faults, deaths>>

-----------------------------------------------------------------------------
(* SnapshotStore.restore(). *)

Restore(t, s) ==
    /\ s \in Ids
    /\ Enter(t, "restore", "stage", [id |-> s, asked |-> snaps[s]])
    /\ staging' = Empty
    /\ Work(t, Files(snaps[s]))
    /\ UNCHANGED <<project, trash, snaps, copy>>

\* 1. The replacement is built.
StageFile(t, p) ==
    /\ pc[t] = "stage"
    /\ p \in todo[t] \cap Files(snaps[arg[t].id])
    /\ staging' = [Made(staging) EXCEPT ![p] = snaps[arg[t].id][p]]
    /\ Work(t, todo[t] \ {p})
    /\ UNCHANGED <<project, trash, wreck, snaps, owner, call, pc, arg, copy, start, raced, faults, deaths>>

\* os.walk() passes over a directory that is not there any more.
StagePassesOver(t) ==
    /\ pc[t] = "stage"
    /\ todo[t] # {}
    /\ snaps[arg[t].id] = Gone
    /\ Work(t, {})
    /\ UNCHANGED <<dirs, owner, call, pc, arg, copy, start, raced, faults, deaths>>

StageRaises(t) ==
    /\ pc[t] = "stage"
    /\ todo[t] # {}
    /\ \/ Fault
       \/ snaps[arg[t].id] = Gone /\ UNCHANGED faults
    /\ staging' = Gone
    /\ Goto(t, "raise")
    /\ UNCHANGED <<project, trash, wreck, snaps, owner, call, arg, copy, todo, start, raced, deaths>>

\* The ignored directories are listed once.
ToCarry_None(t) == {}
ToCarry(t) == Files(project) \cap Derived
StageEnds(t) ==
    /\ pc[t] = "stage"
    /\ todo[t] = {}
    /\ Work(t, ToCarry(t))
    /\ Goto(t, "carry")
    /\ UNCHANGED <<dirs, owner, call, arg, copy, start, raced, faults, deaths>>

\* 2. They are moved to the replacement, one by one.
Carry(t, d) ==
    /\ pc[t] = "carry"
    /\ d \in todo[t] \cap Files(project)
    /\ staging' = [Made(staging) EXCEPT ![d] = project[d]]
    /\ project' = [project EXCEPT ![d] = None]
    /\ Work(t, todo[t] \ {d})
    /\ UNCHANGED <<trash, wreck, snaps, owner, call, pc, arg, copy, start, raced, faults, deaths>>

MoveToTrash(t) ==
    /\ pc[t] = "carry"
    /\ todo[t] = {}
    /\ trash' = project
    /\ project' = Gone
    /\ Goto(t, "swap")
    /\ UNCHANGED <<staging, wreck, snaps, owner, call, arg, copy, todo, start, raced, faults, deaths>>

Swap(t) ==
    /\ pc[t] = "swap"
    /\ project' = staging
    /\ staging' = Gone
    /\ Goto(t, "sweep")
    /\ UNCHANGED <<trash, wreck, snaps, owner, call, arg, copy, todo, start, raced, faults, deaths>>

\* A rename fails.
RenameRaises(t) ==
    /\ pc[t] \in {"carry", "swap"}
    /\ \/ Fault
       \/ \E d \in todo[t] : d \notin Files(project) /\ UNCHANGED faults
    /\ Goto(t, "recover")
    /\ UNCHANGED <<dirs, owner, call, arg, copy, todo, start, raced, deaths>>

Recovered_Ignored(t) == TRUE
Recovered(t) == Files(staging) \cap Derived = {}

\* The recovery moves the project and the carried directories back; an exception
\* of its own leaves everything where it is.
RecoverProject(t) ==
    /\ pc[t] = "recover"
    /\ project = Gone
    /\ project' = trash
    /\ trash' = Gone
    /\ UNCHANGED <<staging, wreck, snaps, threads, start, raced, faults, deaths>>

RecoverDir(t, d) ==
    /\ pc[t] = "recover"
    /\ project # Gone
    /\ d \in Files(staging) \cap Derived
    /\ d \notin Files(project)
    /\ project' = [project EXCEPT ![d] = staging[d]]
    /\ staging' = [staging EXCEPT ![d] = None]
    /\ UNCHANGED <<trash, wreck, snaps, threads, start, raced, faults, deaths>>

RecoveryRaises(t) ==
    /\ pc[t] = "recover"
    /\ \/ ~(project # Gone /\ Recovered(t)) /\ Fault
       \/ \E d \in Files(staging) \cap Derived : d \in Files(project) /\ UNCHANGED faults
    /\ Goto(t, "raise")
    /\ UNCHANGED <<dirs, owner, call, arg, copy, todo, start, raced, deaths>>

\* rmtree(staging, ignore_errors=True): what it cannot remove is left behind.
RecoveryEnds(t) ==
    /\ pc[t] = "recover"
    /\ project # Gone
    /\ Recovered(t)
    /\ staging' = Gone
    /\ Goto(t, "raise")
    /\ UNCHANGED <<project, trash, wreck, snaps, owner, call, arg, copy, todo, start, raced, faults, deaths>>

SweepTrash(t) ==
    /\ pc[t] = "sweep"
    /\ trash' = Gone
    /\ Goto(t, "return")
    /\ UNCHANGED <<project, staging, wreck, snaps, owner, call, arg, copy, todo, start, raced, faults, deaths>>

-----------------------------------------------------------------------------
\* The process dies and starts again: the lock is forgotten, the disk is not, and
\* nothing looks at what is there.
Die ==
    /\ deaths < MaxDeaths
    /\ deaths' = deaths + 1
    /\ owner # None
    /\ owner' = None
    /\ call' = [t \in Thread |-> None]
    /\ pc' = [t \in Thread |-> "idle"]
    /\ arg' = [t \in Thread |-> None]
    /\ todo' = [t \in Thread |-> {}]
    /\ copy' = NoCopy
    /\ wreck' = {staging, trash} \ {Gone}
    /\ staging' = Gone /\ trash' = Gone
    /\ faults' = 0
    /\ UNCHANGED <<project, snaps, start, raced>>

Step(t) ==
    \/ Leave(t) \/ Check(t) \/ Put(t)
    \/ (\E p \in Path : CheckFile(t, p)) \/ CopyFile(t) \/ CountFile(t)
    \/ CopyEnds(t) \/ CopyRaises(t) \/ CopyFails(t) \/ Discard(t)
    \/ (\E p \in Path : StageFile(t, p)) \/ StagePassesOver(t) \/ StageRaises(t) \/ StageEnds(t)
    \/ (\E d \in Derived : Carry(t, d)) \/ MoveToTrash(t) \/ Swap(t) \/ RenameRaises(t)
    \/ RecoverProject(t) \/ (\E d \in Derived : RecoverDir(t, d))
    \/ RecoveryRaises(t) \/ RecoveryEnds(t) \/ SweepTrash(t)

Next ==
    \/ \E t \in Thread :
        \/ Write(t) \/ Step(t)
        \/ \E p \in Path : DeleteFile(t, p)
        \/ \E p, q \in Path : RenameFile(t, p, q)
        \/ \E s \in SnapshotId : CreateSnapshot(t, s) \/ Restore(t, s)
    \/ \E p \in Path : Sandbox(p)
    \/ \E s \in SnapshotId : DeleteSnapshot(s)
    \/ Die

Spec == Init /\ [][Next]_vars
-----------------------------------------------------------------------------
(* Properties. *)

Content == Size \cup {0, None}
Dir == [Path -> Content] \cup {Gone}

TypeOK ==
    /\ {project, staging, trash, start} \subseteq Dir
    /\ wreck \subseteq Dir
    /\ snaps \in [SnapshotId -> Dir]
    /\ owner \in Thread \cup {None}
    /\ call \in [Thread -> {"write", "create", "snapshot", "restore", None}]
    /\ \A t \in Thread : IF pc[t] = "idle" THEN call[t] = None ELSE owner = t
    /\ \A t \in Thread : todo[t] \subseteq Path
    /\ copy \in [file : Path \cup {None}, total : Nat]
    /\ raced \in BOOLEAN
    /\ faults \in 0..MaxFaults /\ deaths \in 0..MaxDeaths

\* A restore() that raises leaves the project exactly as it was, one failing
\* operation at a time (its docstring): the carried directories are back as well.
RaisedChangesNothing ==
    \A t \in Thread :
        call[t] = "restore" /\ pc[t] = "raise" /\ faults <= 1 /\ ~raced => project = start

\* A restore() that returns has put the files of its snapshot and the project's
\* own ignored directories in place.  Credentials are in no snapshot: the
\* project's are gone.
ReturnedIsExact ==
    \A t \in Thread :
        call[t] = "restore" /\ pc[t] = "return" /\ ~raced =>
            project = [p \in Path |-> IF p \in Derived THEN start[p] ELSE arg[t].asked[p]]

\* restore() does all of it or nothing.
RestoreIsAtomic == RaisedChangesNothing /\ ReturnedIsExact

\* create() returns a copy of the files at one moment, whatever tools run.
SnapshotIsOneMoment ==
    \A t \in Thread :
        call[t] = "snapshot" /\ pc[t] = "return" /\ ~raced =>
            snaps[arg[t].id] = [p \in Path |-> IF p \in Source THEN start[p] ELSE None]

\* Wherever a restore fails or the process dies, what the project was is on the
\* disk: its files together, its ignored directories in one place or the other.
NothingIsLost ==
    LET places == wreck \cup ({project, staging, trash} \ {Gone}) IN
    (\E t \in Thread : call[t] = "restore" /\ pc[t] # "return") \/ project = Gone =>
        \/ raced
        \/ /\ \E dir \in places : \A p \in Source \cup Secret : dir[p] = start[p]
           /\ \A d \in Derived : \E dir \in places : dir[d] = start[d]

\* The store has no more snapshots than it may have, and create() returns only
\* within its quota.  What exceeds it is at most one file, which has grown between
\* its check and its copy: create() notices and removes the snapshot, but it stays
\* when that fails or the process dies, and half snapshots count.
SnapshotQuota ==
    /\ Cardinality(Ids) <= MaxSnapshots
    /\ \/ StorageUsed <= MaxStorage
       \/ \E s \in SnapshotId : \E p \in Files(snaps[s]) : StorageUsed - snaps[s][p] <= MaxStorage
    /\ \A t \in Thread : call[t] = "snapshot" /\ pc[t] = "return" => StorageUsed <= MaxStorage

\* A tool's write that returns leaves the project within its quotas, however many
\* write at once, for the check and the write are one critical section.
ProjectQuota ==
    \A t \in Thread :
        call[t] \in {"write", "create"} /\ pc[t] = "return" /\ ~raced =>
            /\ Bytes(project) <= MaxProjectSize
            /\ Files(project) # Files(start) => Cardinality(Files(project)) <= MaxFiles

\* The limits of the store and of the project, whatever fails and whoever writes.
QuotasHold == SnapshotQuota /\ ProjectQuota
=============================================================================
