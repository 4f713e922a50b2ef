----------------------------- MODULE CacheCopies ----------------------------
(***************************************************************************)
(* The materialised cache of one bundle on one host.                       *)
(*                                                                         *)
(* The processes of the host (dag processors that follow the release,      *)
(* tasks pinned to a version, callbacks that only read path) share the     *)
(* folder versions_dir.  A version is used from a copy of its snapshot     *)
(* there, built under Airflow's host lock in a temporary folder and        *)
(* renamed into place; a marker beside the copy vouches for its content.   *)
(* Whether a copy can be used is asked without the lock.  Airflow's stale  *)
(* cleanup knows neither the lock nor the marker: it unlinks a copy entry  *)
(* by entry.  Processes die, and the host loses power.                     *)
(*                                                                         *)
(* The published root is in order (see Publication); versions have the     *)
(* same entries and differ in content.                                     *)
(***************************************************************************)
EXTENDS Naturals, FiniteSets

CONSTANTS Procs, Versions, Files, Manifest,
          PinOf,                  \* the pinned version of a process
          FirstRelease,           \* the version the release reference names at first
          NoVersion, NoTree, Nobody,
          MaxReleases, MaxReaps, MaxMishaps  \* bounds on the environment

Entries == Files \cup {Manifest}

ASSUME CacheAssumption ==
  /\ Manifest \notin Files
  /\ NoVersion \notin Versions
  /\ FirstRelease \in Versions
  /\ PinOf \in [Procs -> Versions \cup {NoVersion}]
  /\ Nobody \notin Procs
  /\ {MaxReleases, MaxReaps, MaxMishaps} \subseteq Nat

VARIABLES tree,      \* per version: the folder below its name
          marker,    \* per version: .<version>.validated exists
          saved,     \* both, as of the last fsync of versions_dir
          temp,      \* per process: the temporary folder it builds
          reaping,   \* the versions Airflow's cleanup is removing
          lock,      \* the host lock of the bundle
          release,   \* the version the release reference names
          budget     \* what the environment may still do
VARIABLES pc,
          op,        \* the running call, or the last one
          exam,      \* the version the process is examining or building
          rest,      \* fallback candidates not examined yet
          todo,      \* entries of the examined copy not examined yet
          mem,       \* _validated_version_paths
          current    \* _current_manifest_ref
VARIABLES seen,      \* history: the examined copy was whole at some moment since Look
          steady     \* history: versions with a marked whole copy all through a path call

diskVars == <<tree, marker, saved, temp>>
callVars == <<op, exam, rest>>
memoryVars == <<mem, current>>
worldVars == <<release, budget>>
histVars == <<seen, steady>>
vars == <<diskVars, reaping, lock, worldVars, pc, callVars, todo, memoryVars, histVars>>

(* bad: entries whose bytes are not those of the manifest; safe: the bytes *)
(* and entries of the folder have reached the disk.                        *)
Folders == [has : SUBSET Entries, bad : SUBSET Entries, safe : BOOLEAN]
Slots == Folders \cup {NoTree}
NewFolder == [has |-> {}, bad |-> {}, safe |-> FALSE]

(* No folder is the mark of a missing folder. *)
ASSUME FolderAssumption == NoTree \notin Folders

LockLabels == {"sweep", "exists", "validate", "syncTree", "syncName",
               "unmark", "aside", "stage", "fetch", "rename", "syncRename",
               "mark", "syncMark"}
LookLabels == {"look", "marked", "check"}
Labels == {"idle", "fallback", "lock", "handed", "unserved"} \cup LookLabels \cup LockLabels

(* A mishap is a crash, a power failure or a fetch that fails. *)
Budgets == [releases : 0 .. MaxReleases, reaps : 0 .. MaxReaps, mishaps : 0 .. MaxMishaps]

(* The types, and that only the holder of the host lock changes copies.    *)
TypeOK ==
  /\ tree \in [Versions -> Slots]
  /\ marker \in [Versions -> BOOLEAN]
  /\ saved \in [tree : [Versions -> Slots], marker : [Versions -> BOOLEAN]]
  /\ temp \in [Procs -> Slots]
  /\ reaping \in SUBSET Versions
  /\ lock \in Procs \cup {Nobody}
  /\ release \in Versions
  /\ budget \in Budgets
  /\ pc \in [Procs -> Labels]
  /\ op \in [Procs -> {"refresh", "path"}]
  /\ exam \in [Procs -> Versions \cup {NoVersion}]
  /\ rest \in [Procs -> SUBSET Versions]
  /\ todo \in [Procs -> SUBSET Entries]
  /\ mem \in [Procs -> SUBSET Versions]
  /\ current \in [Procs -> Versions \cup {NoVersion}]
  /\ seen \in [Procs -> BOOLEAN]
  /\ \A p \in Procs : pc[p] \in LockLabels => lock = p
  /\ steady \in [Procs -> SUBSET Versions]

Init ==
  /\ tree = [v \in Versions |-> NoTree]
  /\ marker = [v \in Versions |-> FALSE]
  /\ saved = [tree |-> tree, marker |-> marker]
  /\ temp = [p \in Procs |-> NoTree]
  /\ reaping = {}
  /\ lock = Nobody
  /\ release = FirstRelease
  /\ budget = [releases |-> MaxReleases, reaps |-> MaxReaps, mishaps |-> MaxMishaps]
  /\ pc = [p \in Procs |-> "idle"]
  /\ op = [p \in Procs |-> "refresh"]
  /\ exam = [p \in Procs |-> NoVersion]
  /\ rest = [p \in Procs |-> {}]
  /\ todo = [p \in Procs |-> {}]
  /\ mem = [p \in Procs |-> {}]
  /\ current = [p \in Procs |-> NoVersion]
  /\ seen = [p \in Procs |-> FALSE]
  /\ steady = [p \in Procs |-> {}]

-----------------------------------------------------------------------------
Exists(v) == tree[v] # NoTree
Whole(v) == Exists(v) /\ tree[v].has = Entries /\ tree[v].bad = {}
MarkedWhole == {v \in Versions : Whole(v) /\ marker[v]}

(* What the examination of one entry finds. *)
Present(v, e) == Exists(v) /\ e \in tree[v].has
Damaged(v, e) == Exists(v) /\ e \in tree[v].bad

Goto(p, label) == pc' = [pc EXCEPT ![p] = label]
KeptLock(p) == lock  \* mutant
FreedLock(p) == IF lock = p THEN Nobody ELSE lock
SyncVersionsDir == saved' = [tree |-> tree, marker |-> marker]

(* Leave the procedure for label; `with self.lock()` gives the lock back.  *)
Leave(p, label) ==
  /\ Goto(p, label)
  /\ lock' = FreedLock(p)
  /\ todo' = [todo EXCEPT ![p] = {}]
  /\ rest' = [rest EXCEPT ![p] = {}]

(* The caller gets an exception and tries again some other time. *)
Fail(p) ==
  /\ Leave(p, "idle")
  /\ exam' = [exam EXCEPT ![p] = NoVersion]
  /\ UNCHANGED op

(* path found no usable copy: it fails, or names the folder that is not    *)
(* there yet.                                                              *)
NothingCached(p) == /\ Leave(p, "unserved")
                    /\ UNCHANGED <<op, exam>>

(* The caller gets the examined copy; a refresh adopts its release. *)
HandOut(p) ==
  /\ Leave(p, "handed")
  /\ mem' = [mem EXCEPT ![p] = @ \cup {exam[p]}]
  /\ current' = IF op[p] = "refresh" /\ PinOf[p] = NoVersion
                THEN [current EXCEPT ![p] = exam[p]] ELSE current
  /\ UNCHANGED <<op, exam>>

-----------------------------------------------------------------------------
(* The calls: initialize of a pinned process, refresh, and path.           *)

BeginRefresh(p) ==
  /\ pc[p] = "idle"
  /\ Goto(p, "look")
  /\ op' = [op EXCEPT ![p] = "refresh"]
  /\ exam' = [exam EXCEPT ![p] = IF PinOf[p] # NoVersion THEN PinOf[p] ELSE release]
  /\ UNCHANGED <<diskVars, reaping, lock, worldVars, rest, todo, memoryVars>>

(* path of a process that follows the release; the first one reads it.     *)
(* Two of them with no refresh between would only repeat themselves.       *)
BeginPath(p) ==
  /\ pc[p] = "idle" /\ PinOf[p] = NoVersion /\ op[p] # "path"
  /\ Goto(p, "look")
  /\ op' = [op EXCEPT ![p] = "path"]
  /\ current' = [current EXCEPT ![p] = IF @ = NoVersion THEN release ELSE @]
  /\ exam' = [exam EXCEPT ![p] = current'[p]]
  /\ UNCHANGED <<diskVars, reaping, lock, worldVars, rest, todo, mem>>

(* What comes after _has_validated_cache returned False. *)
AfterMiss(p) == CASE lock = p -> "validate"
                  [] op[p] = "path" -> "fallback"
                  [] OTHER -> "lock"

Miss(p) ==
  /\ Goto(p, AfterMiss(p))
  /\ todo' = [todo EXCEPT ![p] = IF lock = p THEN Entries ELSE {}]
  /\ UNCHANGED <<lock, mem, current, callVars>>

(* _has_validated_cache: the copy is there and was examined before, ...    *)
Look(p) ==
  /\ pc[p] = "look"
  /\ \/ /\ Exists(exam[p]) /\ exam[p] \in mem[p]
        /\ HandOut(p)
     \/ /\ Exists(exam[p]) /\ exam[p] \notin mem[p]
        /\ Goto(p, "marked")
        /\ UNCHANGED <<lock, todo, callVars, memoryVars>>
     \/ /\ ~Exists(exam[p])
        /\ Miss(p)
  /\ UNCHANGED <<diskVars, reaping, worldVars>>

(* ... or it has a marker ... *)
MarkerIsEnough(p) == /\ pc[p] = "marked"  \* mutant
                     /\ IF marker[exam[p]] THEN HandOut(p) ELSE Miss(p)
                     /\ UNCHANGED <<diskVars, reaping, worldVars>>
CheckMarker(p) ==
  /\ pc[p] = "marked"
  /\ IF marker[exam[p]]
     THEN /\ Goto(p, "check")
          /\ todo' = [todo EXCEPT ![p] = Entries]
          /\ UNCHANGED <<lock, mem, current, callVars>>
     ELSE Miss(p)
  /\ UNCHANGED <<diskVars, reaping, worldVars>>

(* ... and it has the structure its manifest describes: the manifest, then *)
(* one entry after another.                                                *)
NextEntries(p) == IF Manifest \in todo[p] THEN {Manifest} ELSE todo[p]

CheckEntry(p) ==
  /\ pc[p] = "check"
  /\ \E e \in NextEntries(p) :
       IF ~Present(exam[p], e) \/ (e = Manifest /\ Damaged(exam[p], e)) THEN Miss(p)
       ELSE IF todo[p] = {e} THEN HandOut(p)
       ELSE /\ todo' = [todo EXCEPT ![p] = @ \ {e}]
            /\ UNCHANGED <<pc, lock, callVars, memoryVars>>
  /\ UNCHANGED <<diskVars, reaping, worldVars>>

(* The walk that precedes the entries meets a file that disappears. *)
WalkFails(p) ==
  /\ pc[p] = "check"
  /\ \E e \in Files : ~Present(exam[p], e)
  /\ Miss(p)
  /\ UNCHANGED <<diskVars, reaping, worldVars>>

(* _latest_validated_cached_version_path: list the markers, then examine   *)
(* the marked versions (newest first; here in any order).                  *)
ListNothing(p) == /\ pc[p] = "fallback" /\ exam[p] = current[p]  \* mutant
                  /\ NothingCached(p)
                  /\ UNCHANGED <<diskVars, reaping, worldVars, memoryVars>>
ListMarkers(p) ==
  /\ pc[p] = "fallback" /\ exam[p] = current[p]
  /\ LET marked == {v \in Versions : marker[v]} \ {current[p]} IN
     IF marked # {}
     THEN /\ \E v \in marked : exam' = [exam EXCEPT ![p] = v]
          /\ rest' = [rest EXCEPT ![p] = marked \ {exam'[p]}]
          /\ Goto(p, "look")
          /\ UNCHANGED <<lock, todo, op>>
     ELSE NothingCached(p)
  /\ UNCHANGED <<diskVars, reaping, worldVars, memoryVars>>

NextCandidate(p) ==
  /\ pc[p] = "fallback" /\ exam[p] # current[p]
  /\ IF rest[p] # {}
     THEN /\ \E v \in rest[p] : exam' = [exam EXCEPT ![p] = v]
          /\ rest' = [rest EXCEPT ![p] = @ \ {exam'[p]}]
          /\ Goto(p, "look")
          /\ UNCHANGED <<lock, todo, op>>
     ELSE NothingCached(p)
  /\ UNCHANGED <<diskVars, reaping, worldVars, memoryVars>>

(* The caller has what it asked for.  A pinned process is one task, and    *)
(* the next one starts with an empty memory.                               *)
Return(p) ==
  /\ pc[p] \in {"handed", "unserved"}
  /\ Fail(p)
  /\ mem' = IF PinOf[p] = NoVersion THEN mem ELSE [mem EXCEPT ![p] = {}]
  /\ UNCHANGED <<diskVars, reaping, worldVars, current>>

-----------------------------------------------------------------------------
(* _materialize_cached_version, under the host lock.                       *)

MaterializeFrame == UNCHANGED <<reaping, worldVars, callVars, todo, current>>

ProceedWithoutLock(p) == /\ pc[p] = "lock"  \* mutant
                         /\ lock' = p
                         /\ Goto(p, "sweep")
                         /\ UNCHANGED <<diskVars, mem>> /\ MaterializeFrame
TakeLock(p) ==
  /\ pc[p] = "lock" /\ lock = Nobody
  /\ lock' = p
  /\ Goto(p, "sweep")
  /\ UNCHANGED <<diskVars, mem>> /\ MaterializeFrame

(* Every temporary folder found there is an orphan, or was moved aside (if *)
(* there was one, versions_dir is synced; the model keeps no orphans); and *)
(* so is a marker without its copy.                                        *)
MarkersWithCopies == [v \in Versions |-> marker[v] /\ Exists(v)]

Sweep(p) ==
  /\ pc[p] = "sweep"
  /\ temp' = [q \in Procs |-> NoTree]
  /\ SyncVersionsDir \/ UNCHANGED saved
  /\ marker' = MarkersWithCopies
  /\ Goto(p, "exists")
  /\ UNCHANGED <<tree, lock, mem>> /\ MaterializeFrame

CheckExists(p) ==
  /\ pc[p] = "exists"
  /\ Goto(p, IF Exists(exam[p]) THEN "look" ELSE "stage")
  /\ UNCHANGED <<diskVars, lock, mem>> /\ MaterializeFrame

(* Full validation of a copy that nothing vouches for. *)
ValidateEntry(p) ==
  /\ pc[p] = "validate"
  /\ \E e \in NextEntries(p) :
       IF ~Present(exam[p], e) \/ Damaged(exam[p], e)
       THEN /\ Goto(p, "unmark")
            /\ todo' = [todo EXCEPT ![p] = {}]
       ELSE /\ todo' = [todo EXCEPT ![p] = @ \ {e}]
            /\ Goto(p, IF todo[p] = {e} THEN "syncTree" ELSE "validate")
  /\ UNCHANGED <<diskVars, reaping, worldVars, lock, callVars, memoryVars>>

(* _fsync_tree of the copy; an entry may disappear under it. *)
SyncTree(p) ==
  /\ pc[p] = "syncTree"
  /\ tree' = IF Exists(exam[p]) THEN [tree EXCEPT ![exam[p]].safe = TRUE] ELSE tree
  /\ Goto(p, "syncName")
  /\ UNCHANGED <<marker, saved, temp, lock, mem>> /\ MaterializeFrame

SyncTreeFails(p) ==
  /\ pc[p] = "syncTree" /\ Exists(exam[p]) /\ ~Whole(exam[p])
  /\ Fail(p)
  /\ UNCHANGED <<diskVars, reaping, worldVars, memoryVars>>

SyncName(p) ==
  /\ pc[p] = "syncName"
  /\ SyncVersionsDir
  /\ Goto(p, "mark")
  /\ UNCHANGED <<tree, marker, temp, lock, mem>> /\ MaterializeFrame

(* _move_cached_version_aside: first the marker, then the folder, which    *)
(* readers and a running cleanup keep open under its new name.             *)
Unmark(p) ==
  /\ pc[p] = "unmark"
  /\ marker' = [marker EXCEPT ![exam[p]] = FALSE]
  /\ mem' = [mem EXCEPT ![p] = @ \ {exam[p]}]
  /\ Goto(p, "aside")
  /\ UNCHANGED <<tree, saved, temp, lock>> /\ MaterializeFrame

MoveAside(p) ==
  /\ pc[p] = "aside"
  /\ tree' = [tree EXCEPT ![exam[p]] = NoTree]
  /\ reaping' = reaping \ {exam[p]}
  /\ Goto(p, "stage")
  /\ UNCHANGED <<marker, saved, temp, lock, worldVars, callVars, todo, memoryVars>>

RemoveTemp(p) == temp' = [temp EXCEPT ![p] = NoTree]

(* Build the copy: make a temporary folder; fetch the snapshot into it,    *)
(* validate it and sync it; rename; sync the folder of the name; mark.     *)
Stage(p) ==
  /\ pc[p] = "stage"
  /\ temp' = [temp EXCEPT ![p] = NewFolder]
  /\ Goto(p, "fetch")
  /\ UNCHANGED <<tree, marker, saved, lock, mem>> /\ MaterializeFrame

FetchFails(p) ==
  /\ pc[p] = "fetch" /\ budget.mishaps > 0
  /\ budget' = [budget EXCEPT !.mishaps = @ - 1]
  /\ RemoveTemp(p)
  /\ Fail(p)
  /\ UNCHANGED <<tree, marker, saved, reaping, release, memoryVars>>

UnsyncedCopy == [has |-> Entries, bad |-> {}, safe |-> FALSE]  \* mutant
FinishedCopy == [has |-> Entries, bad |-> {}, safe |-> TRUE]

Fetch(p) ==
  /\ pc[p] = "fetch"
  /\ temp' = [temp EXCEPT ![p] = FinishedCopy]
  /\ Goto(p, "rename")
  /\ UNCHANGED <<tree, marker, saved, lock, mem>> /\ MaterializeFrame

(* os.replace of a folder needs the name to be free, or an empty folder. *)
Rename(p) ==
  /\ pc[p] = "rename"
  /\ temp' = [temp EXCEPT ![p] = NoTree]
  /\ IF Exists(exam[p]) /\ tree[exam[p]].has # {}
     THEN /\ Fail(p)
          /\ UNCHANGED tree
     ELSE /\ tree' = [tree EXCEPT ![exam[p]] = temp[p]]
          /\ Goto(p, "syncRename")
          /\ UNCHANGED <<lock, todo, callVars>>
  /\ UNCHANGED <<marker, saved, reaping, worldVars, memoryVars>>

SyncRename(p) ==
  /\ pc[p] = "syncRename"
  /\ SyncVersionsDir
  /\ Goto(p, "mark")
  /\ UNCHANGED <<tree, marker, temp, lock, mem>> /\ MaterializeFrame

Mark(p) ==
  /\ pc[p] = "mark"
  /\ marker' = [marker EXCEPT ![exam[p]] = TRUE]
  /\ Goto(p, "syncMark")
  /\ UNCHANGED <<tree, saved, temp, lock, mem>> /\ MaterializeFrame

SyncMark(p) ==
  /\ pc[p] = "syncMark"
  /\ SyncVersionsDir
  /\ HandOut(p)
  /\ UNCHANGED <<tree, marker, temp, reaping, worldVars>>

-----------------------------------------------------------------------------
(* The environment.                                                        *)

WorldFrame == UNCHANGED <<callVars, todo, pc, memoryVars, lock>>

MoveRelease ==
  /\ budget.releases > 0
  /\ budget' = [budget EXCEPT !.releases = @ - 1]
  /\ \E v \in Versions \ {release} : release' = v
  /\ UNCHANGED <<diskVars, reaping>> /\ WorldFrame

(* Airflow's stale cleanup: a plain rmtree, which can be interrupted. *)
StartReaping(v) ==
  /\ Exists(v) /\ v \notin reaping /\ budget.reaps > 0
  /\ budget' = [budget EXCEPT !.reaps = @ - 1]
  /\ reaping' = reaping \cup {v}
  /\ UNCHANGED <<diskVars, release>> /\ WorldFrame

ReapEntry(v) ==
  /\ v \in reaping
  /\ \/ \E e \in tree[v].has :
          /\ tree' = [tree EXCEPT ![v].has = @ \ {e}, ![v].bad = @ \ {e}]
          /\ UNCHANGED reaping
     \/ /\ tree[v].has = {}
        /\ tree' = [tree EXCEPT ![v] = NoTree]
        /\ reaping' = reaping \ {v}
  /\ UNCHANGED <<marker, saved, temp, worldVars>> /\ WorldFrame

StopReaping(v) ==
  /\ v \in reaping
  /\ reaping' = reaping \ {v}
  /\ UNCHANGED <<diskVars, worldVars>> /\ WorldFrame

(* A process dies, and another one takes its place. *)
Crash(p) ==
  /\ budget.mishaps > 0
  /\ budget' = [budget EXCEPT !.mishaps = @ - 1]
  /\ mem' = [mem EXCEPT ![p] = {}]
  /\ current' = [current EXCEPT ![p] = NoVersion]
  /\ temp' = [temp EXCEPT ![p] = NoTree]
  /\ Fail(p)
  /\ UNCHANGED <<tree, marker, saved, reaping, release>>

(* What may be left of a folder: bytes that never reached the disk are lost. *)
Remains(t) == IF t = NoTree \/ t.safe THEN {t}
              ELSE {[t EXCEPT !.bad = lost, !.safe = TRUE] : lost \in SUBSET t.has}

(* The host loses power: each name is as it was, or as last made durable.  *)
PowerFailure ==
  /\ budget.mishaps > 0
  /\ budget' = [budget EXCEPT !.mishaps = @ - 1]
  /\ tree' \in [Versions -> UNION {Remains(tree[v]) \cup Remains(saved.tree[v]) : v \in Versions}]
  /\ marker' \in [Versions -> BOOLEAN]
  /\ \A v \in Versions :
       /\ tree'[v] \in Remains(tree[v]) \cup Remains(saved.tree[v])
       /\ marker'[v] \in {marker[v], saved.marker[v]}
  /\ saved' = [tree |-> tree', marker |-> marker']
  /\ temp' = [p \in Procs |-> NoTree]
  /\ reaping' = {}
  /\ lock' = Nobody
  /\ pc' = [p \in Procs |-> "idle"]
  /\ op' = [p \in Procs |-> "refresh"]
  /\ exam' = [p \in Procs |-> NoVersion]
  /\ rest' = [p \in Procs |-> {}]
  /\ todo' = [p \in Procs |-> {}]
  /\ mem' = [p \in Procs |-> {}]
  /\ current' = [p \in Procs |-> NoVersion]
  /\ UNCHANGED release

-----------------------------------------------------------------------------
Examine(p) == \/ Look(p) \/ CheckMarker(p) \/ CheckEntry(p) \/ WalkFails(p)
              \/ ListMarkers(p) \/ NextCandidate(p) \/ Return(p)

Materialize(p) ==
  \/ Sweep(p) \/ CheckExists(p) \/ ValidateEntry(p)
  \/ SyncTree(p) \/ SyncTreeFails(p) \/ SyncName(p) \/ Unmark(p) \/ MoveAside(p)
  \/ Stage(p) \/ Fetch(p) \/ FetchFails(p) \/ Rename(p)
  \/ SyncRename(p) \/ Mark(p) \/ SyncMark(p)

Step ==
  \/ \E p \in Procs : \/ BeginRefresh(p) \/ BeginPath(p) \/ Examine(p) \/ TakeLock(p)
                      \/ Materialize(p) \/ Crash(p)
  \/ \E v \in Versions : StartReaping(v) \/ ReapEntry(v) \/ StopReaping(v)
  \/ MoveRelease \/ PowerFailure

(* The record of what the copies were like during a call. *)
WasWhole(p) == seen[p] \/ Whole(exam[p])

Remember ==
  /\ seen' = [p \in Procs |-> /\ pc'[p] \notin {"idle", "look", "handed", "unserved"}
                             /\ WasWhole(p)]
  /\ steady' = [p \in Procs |-> IF op'[p] # "path" \/ pc'[p] = "idle" THEN {}
                                ELSE IF pc[p] = "idle" THEN MarkedWhole
                                ELSE steady[p] \cap MarkedWhole']

Next == Step /\ Remember

Spec == Init /\ [][Next]_vars

(* A process that runs keeps running, the kernel grants the lock in turn,  *)
(* and Airflow refreshes its bundles, and starts tasks, again and again.   *)
FairSpec ==
  /\ Spec
  /\ \A p \in Procs :
       /\ WF_vars((BeginRefresh(p) \/ Examine(p) \/ Materialize(p)) /\ Remember)
       /\ SF_vars(TakeLock(p) /\ Remember)

-----------------------------------------------------------------------------
(* Properties.                                                             *)

(* A copy with a marker has the bytes of its manifest, after any power     *)
(* failure too: the marker is written when the copy, its name and its      *)
(* bytes are durable, and nobody hashes a marked copy again.               *)
MarkedIsIntact == \A v \in Versions : marker[v] /\ Exists(v) => tree[v].bad = {}

(* The sweep of temporary folders, which also belong to builds of other    *)
(* versions, never takes away one that a living process is building.       *)
SweepSparesBuilders ==
  \A p \in Procs : pc[p] \in {"fetch", "rename"} => temp[p] # NoTree

(* A process takes a copy for good only if the copy was whole at some      *)
(* moment of the call, although it looks at the entries one after another  *)
(* and without the lock, while cleanups and rebuilds change the folder.    *)
ExaminedWasWhole ==
  [][\A p \in Procs : mem'[p] \ mem[p] # {} => WasWhole(p)]_vars

(* path finds a copy whenever there is one: as long as one version has a   *)
(* marked whole copy all through the call, the caller gets a copy.         *)
PathFindsCopy == \A p \in Procs : pc[p] = "unserved" => steady[p] = {}

(* Whatever state crashes, power failures and cleanups leave the folder    *)
(* in, every process gets a copy again and again.                          *)
CopiesHeal == \A p \in Procs : []<>(pc[p] = "handed" /\ op[p] = "refresh")
=============================================================================
