---------------------------- MODULE LocalPublish ----------------------------
(***************************************************************************)
(* Publishing a live source folder to a published_root on a filesystem.    *)
(*                                                                         *)
(* Dag processors (refresh) and the publish command observe the folder,    *)
(* hash it, copy it to a snapshot named by its content and move the        *)
(* release reference, file by file and call by call, while a deployment    *)
(* tool writes, replaces and removes files of the folder, processes die    *)
(* and the power fails.  What is visible on the published_root and what    *)
(* has reached its disk are told apart.                                    *)
(*                                                                         *)
(* A version is the content address of the files, so here it is the map    *)
(* from file to bytes.  Every write gives the file a new change time, as   *)
(* _build_source_file takes for granted; here it counts the writes.  The   *)
(* stability period and what one release may follow another are            *)
(* Publication's.                                                          *)
(***************************************************************************)
EXTENDS Naturals, FiniteSets

CONSTANTS Publishers,
          Commands,               \* those that run the publish command; the
                                  \* others are dag processors and call refresh
          FileCount, Contents, FirstBytes,
          Absent, NoVersion, NoTemp, Nobody,
          MaxWrites, MaxMishaps   \* bounds on the environment

Files == 1 .. FileCount           \* in the sorted order of the walk

ASSUME LocalPublishAssumption ==
  /\ FileCount \in Nat \ {0}
  /\ Absent \notin Contents /\ FirstBytes \in Contents
  /\ Commands \subseteq Publishers
  /\ Nobody \notin Publishers
  /\ {MaxWrites, MaxMishaps} \subseteq Nat

Maps == [Files -> Contents \cup {Absent}]

ASSUME VersionAssumption == {NoVersion, NoTemp} \cap Maps = {}

VARIABLES tree,       \* the source folder: bytes and stamp of each file
          writes,     \* writes of the deployment tool so far
          snaps,      \* the snapshot folders of the published_root
          ref,        \* the version its release reference names
          saved,      \* both, as far as they are durable
          temp,       \* per publisher: the temporary folder it fills
          lock,       \* the publication lock, a flock in the published_root
          mishaps     \* crashes and power failures so far
VARIABLES pc,
          listed,     \* the files the walk found
          stamp,      \* their stamps: the source signature
          built,      \* the manifest, as far as it is hashed
          at          \* the file a walk, the hashing or the copying is at
VARIABLES begun,      \* history: the trees there were since the attempt began
          fresh,      \* history: those since its snapshot was complete
          orphans     \* history: published versions whose publisher was lost
                      \* before the name of the snapshot was durable

rootVars == <<snaps, ref, saved>>
sourceVars == <<tree, writes>>
callVars == <<listed, stamp, built>>
histVars == <<begun, fresh, orphans>>
vars == <<rootVars, sourceVars, temp, lock, mishaps, pc, callVars, at, histVars>>

(* safe: the bytes and entries of the folder have reached the disk. *)
Snapshots == [name : Maps, holds : Maps, safe : BOOLEAN]
Versions == Maps \cup {NoVersion}

LockLabels == {"sweep", "exists", "copy", "rename", "syncName",
               "relist", "restat", "writeRef", "syncRef"}
Labels == {"idle", "walk", "hash", "lock"} \cup LockLabels

TypeOK ==
  /\ tree \in [Files -> [bytes : Contents \cup {Absent}, stamp : 0 .. MaxWrites]]
  /\ writes \in 0 .. MaxWrites
  /\ snaps \in SUBSET Snapshots
  /\ ref \in Versions
  /\ saved \in [snaps : SUBSET Snapshots, ref : Versions]
  /\ temp \in [Publishers -> Maps \cup {NoTemp}]
  /\ lock \in Publishers \cup {Nobody}
  /\ mishaps \in 0 .. MaxMishaps
  /\ pc \in [Publishers -> Labels]
  /\ listed \in [Publishers -> SUBSET Files]
  /\ stamp \in [Publishers -> [Files -> 0 .. MaxWrites]]
  /\ built \in [Publishers -> Maps]
  /\ at \in [Publishers -> Files]
  /\ begun \in [Publishers -> SUBSET Maps]
  /\ fresh \in [Publishers -> SUBSET Maps]
  /\ orphans \in SUBSET Maps
  /\ \A p \in Publishers : pc[p] \in LockLabels => lock = p

Blank == [f \in Files |-> Absent]
Unstamped == [f \in Files |-> 0]

Init ==
  /\ tree = [f \in Files |-> [bytes |-> FirstBytes, stamp |-> 0]]
  /\ writes = 0 /\ mishaps = 0
  /\ snaps = {} /\ ref = NoVersion
  /\ saved = [snaps |-> {}, ref |-> NoVersion]
  /\ temp = [p \in Publishers |-> NoTemp]
  /\ lock = Nobody
  /\ pc = [p \in Publishers |-> "idle"]
  /\ listed = [p \in Publishers |-> {}]
  /\ stamp = [p \in Publishers |-> Unstamped]
  /\ built = [p \in Publishers |-> Blank]
  /\ at = [p \in Publishers |-> 1]
  /\ begun = [p \in Publishers |-> {}]
  /\ fresh = [p \in Publishers |-> {}]
  /\ orphans = {}

-----------------------------------------------------------------------------
Bytes(t) == [f \in Files |-> t[f].bytes]
Present == {f \in Files : tree[f].bytes # Absent}
Named(v) == {s \in snaps : s.name = v}
Names == {s.name : s \in snaps}

Goto(p, label) == pc' = [pc EXCEPT ![p] = label]

First(S) == CHOOSE f \in S : \A g \in S : f <= g
After(p) == {f \in listed[p] : f > at[p]}

(* On to the next file, or to label when the walked file was the last.     *)
Proceed(p, label, nextLabel) ==
  IF After(p) # {}
  THEN at' = [at EXCEPT ![p] = First(After(p))] /\ Goto(p, nextLabel)
  ELSE at' = [at EXCEPT ![p] = First(listed[p])] /\ Goto(p, label)

(* The attempt ends, in success or not; `with` gives the lock back, and    *)
(* the temporary folder is removed.                                        *)
KeptLock(p) == lock  \* mutant
FreedLock(p) == IF lock = p THEN Nobody ELSE lock
End(p) ==
  /\ Goto(p, "idle")
  /\ lock' = FreedLock(p)
  /\ temp' = [temp EXCEPT ![p] = NoTemp]
  /\ listed' = [listed EXCEPT ![p] = {}]
  /\ stamp' = [stamp EXCEPT ![p] = Unstamped]
  /\ built' = [built EXCEPT ![p] = Blank]
  /\ at' = [at EXCEPT ![p] = 1]

Frame == UNCHANGED <<sourceVars, mishaps>>

-----------------------------------------------------------------------------
(* _prepare_publish_source: list the folder, then stat one file after      *)
(* another.                                                                *)
Begin(p) ==
  /\ pc[p] = "idle"
  /\ Goto(p, "walk")
  /\ listed' = [listed EXCEPT ![p] = Present]
  /\ at' = [at EXCEPT ![p] = First(Present)]
  /\ UNCHANGED <<rootVars, temp, lock, stamp, built>> /\ Frame

Stat(p) ==
  /\ pc[p] = "walk"
  /\ IF at[p] \in Present
     THEN /\ stamp' = [stamp EXCEPT ![p][at[p]] = tree[at[p]].stamp]
          /\ Proceed(p, IF p \in Commands THEN "lock" ELSE "hash", "walk")
          /\ UNCHANGED <<temp, lock, listed, built>>
     ELSE End(p)
  /\ UNCHANGED rootVars /\ Frame

(* The file is there with the stamp of the walk.                           *)
Unchanged(p) == at[p] \in Present /\ tree[at[p]].stamp = stamp[p][at[p]]

(* build_bundle_version_manifest_result: hash a file, and fail unless it   *)
(* still is the one that was walked.  refresh does so before it waits for  *)
(* the lock, the command after.                                            *)
Hash(p) ==
  /\ pc[p] = "hash"
  /\ IF Unchanged(p)
     THEN /\ built' = [built EXCEPT ![p][at[p]] = tree[at[p]].bytes]
          /\ Proceed(p, IF p \in Commands THEN "sweep" ELSE "lock", "hash")
          /\ UNCHANGED <<temp, lock, listed, stamp>>
     ELSE End(p)
  /\ UNCHANGED rootVars /\ Frame

(* With the lock, refresh reads the reference: it has nothing to do if     *)
(* another publisher was faster.                                           *)
LockWith(p) ==
  /\ IF p \notin Commands /\ ref = built[p] /\ Named(ref) # {}
     THEN End(p)
     ELSE /\ lock' = p
          /\ Goto(p, IF p \in Commands THEN "hash" ELSE "sweep")
          /\ UNCHANGED <<temp, callVars, at>>
  /\ UNCHANGED rootVars /\ Frame
ProceedWithoutLock(p) == pc[p] = "lock" /\ LockWith(p)  \* mutant
TakeLock(p) == pc[p] = "lock" /\ lock = Nobody /\ LockWith(p)

-----------------------------------------------------------------------------
(* _publish_manifest_result.                                               *)

(* Every temporary folder is an orphan; if there was one (the model keeps  *)
(* none) the snapshots folder is synced.                                   *)
Sweep(p) ==
  /\ pc[p] = "sweep"
  /\ temp' = [q \in Publishers |-> NoTemp]
  /\ \/ saved' = [saved EXCEPT !.snaps = snaps]
     \/ UNCHANGED saved
  /\ Goto(p, "exists")
  /\ UNCHANGED <<snaps, ref, lock, callVars, at>> /\ Frame

(* A snapshot of that name is validated and used as it is. *)
CheckExisting(p) ==
  /\ pc[p] = "exists"
  /\ IF Named(built[p]) = {}
     THEN /\ temp' = [temp EXCEPT ![p] = Blank]
          /\ Goto(p, "copy")
          /\ UNCHANGED <<lock, callVars, at>>
     ELSE IF \A s \in Named(built[p]) : s.holds = s.name
     THEN Goto(p, "relist") /\ UNCHANGED <<temp, lock, callVars, at>>
     ELSE End(p)
  /\ UNCHANGED rootVars /\ Frame

(* Copy and sync a file, and hash the copy. *)
Copying(p, accepted) ==
  /\ pc[p] = "copy"
  /\ IF at[p] \in Present /\ accepted
     THEN /\ temp' = [temp EXCEPT ![p][at[p]] = tree[at[p]].bytes]
          /\ Proceed(p, "rename", "copy")
          /\ UNCHANGED <<lock, callVars>>
     ELSE End(p)
  /\ UNCHANGED rootVars /\ Frame
UncheckedCopy(p) == Copying(p, TRUE)  \* mutant
Copy(p) == Copying(p, tree[at[p]].bytes = built[p][at[p]])

(* The folder is synced and gets its name, ... *)
NewSnapshot(p, synced) == [name |-> built[p], holds |-> temp[p], safe |-> synced]
Renaming(p, synced) ==
  /\ pc[p] = "rename"
  /\ snaps' = snaps \cup {NewSnapshot(p, synced)}
  /\ temp' = [temp EXCEPT ![p] = NoTemp]
  /\ Goto(p, "syncName")
  /\ UNCHANGED <<ref, saved, lock, callVars, at>> /\ Frame
RenameUnsynced(p) == Renaming(p, FALSE)  \* mutant
Rename(p) == Renaming(p, TRUE)

(* ... and the name is synced. *)
UnsyncedName(p) == /\ pc[p] = "syncName"  \* mutant
                   /\ Goto(p, "relist")
                   /\ UNCHANGED <<rootVars, temp, lock, callVars, at>> /\ Frame
SyncName(p) ==
  /\ pc[p] = "syncName"
  /\ saved' = [saved EXCEPT !.snaps = snaps]
  /\ Goto(p, "relist")
  /\ UNCHANGED <<snaps, ref, temp, lock, callVars, at>> /\ Frame

(* _confirm_publish_source: the same walk again.  A difference fails the   *)
(* attempt, here as soon as it is met.                                     *)
NoConfirmation(p) == /\ pc[p] = "relist"  \* mutant
                     /\ Goto(p, "writeRef")
                     /\ UNCHANGED <<rootVars, temp, lock, callVars, at>> /\ Frame
Relist(p) ==
  /\ pc[p] = "relist"
  /\ IF Present = listed[p]
     THEN Goto(p, "restat") /\ UNCHANGED <<temp, lock, callVars, at>>
     ELSE End(p)
  /\ UNCHANGED rootVars /\ Frame

Restat(p) ==
  /\ pc[p] = "restat"
  /\ IF Unchanged(p)
     THEN Proceed(p, "writeRef", "restat") /\ UNCHANGED <<temp, lock, callVars>>
     ELSE End(p)
  /\ UNCHANGED rootVars /\ Frame

(* _write_json_atomically: a synced temporary file is renamed, and the     *)
(* name is synced.                                                         *)
WriteRef(p) ==
  /\ pc[p] = "writeRef"
  /\ ref' = built[p]
  /\ Goto(p, "syncRef")
  /\ UNCHANGED <<snaps, saved, temp, lock, callVars, at>> /\ Frame

SyncRef(p) ==
  /\ pc[p] = "syncRef"
  /\ saved' = [saved EXCEPT !.ref = ref]
  /\ End(p)
  /\ UNCHANGED <<snaps, ref>> /\ Frame

-----------------------------------------------------------------------------
(* The environment.                                                        *)

(* The deployment tool gives a file other bytes or removes it, but never   *)
(* the last one: Publication has the refusal of an empty source.           *)
Deploy ==
  /\ writes < MaxWrites
  /\ writes' = writes + 1
  /\ \E f \in Files, c \in (Contents \cup {Absent}) :
       /\ c # tree[f].bytes
       /\ c # Absent \/ Present # {f}
       /\ tree' = [tree EXCEPT ![f] = [bytes |-> c, stamp |-> @.stamp + 1]]
  /\ UNCHANGED <<rootVars, temp, lock, mishaps, pc, callVars, at>>

Mishap == mishaps < MaxMishaps /\ mishaps' = mishaps + 1

(* A publisher dies and the kernel frees its flock.  One that dies without *)
(* the lock leaves nothing behind: it might as well not have begun.        *)
Crash(p) ==
  /\ lock = p /\ Mishap
  /\ End(p)
  /\ UNCHANGED <<rootVars, sourceVars>>

(* Bytes that never reached the disk are lost. *)
Remains(s) == IF s.safe THEN {s}
              ELSE {[s EXCEPT !.holds = h, !.safe = TRUE] : h \in {Blank, s.holds}}

(* The power fails: each name is as it was, or as last made durable.  The  *)
(* source is elsewhere.                                                    *)
PowerFailure ==
  /\ Mishap
  /\ \E lost \in SUBSET (snaps \ saved.snaps) :
       snaps' \in {S \in SUBSET UNION {Remains(s) : s \in snaps \ lost} :
                     Cardinality(S) = Cardinality(snaps \ lost)
                       /\ {s.name : s \in S} = {s.name : s \in snaps \ lost}}
  /\ ref' \in {ref, saved.ref}
  /\ saved' = [snaps |-> snaps', ref |-> ref']
  /\ temp' = [p \in Publishers |-> NoTemp]
  /\ lock' = Nobody
  /\ pc' = [p \in Publishers |-> "idle"]
  /\ listed' = [p \in Publishers |-> {}]
  /\ stamp' = [p \in Publishers |-> Unstamped]
  /\ built' = [p \in Publishers |-> Blank]
  /\ at' = [p \in Publishers |-> 1]
  /\ UNCHANGED sourceVars

-----------------------------------------------------------------------------
Publish(p) ==
  \/ Begin(p) \/ Stat(p) \/ Hash(p)
  \/ Sweep(p) \/ CheckExisting(p) \/ Copy(p) \/ Rename(p) \/ SyncName(p)
  \/ Relist(p) \/ Restat(p) \/ WriteRef(p) \/ SyncRef(p)

Step == \/ \E p \in Publishers : Publish(p) \/ TakeLock(p) \/ Crash(p)
        \/ Deploy \/ PowerFailure

(* The record of the trees there were, and of the names whose publisher    *)
(* was lost; a sync or a power failure settles what becomes of a name.     *)
Unnamed == {built[p] : p \in {q \in Publishers : pc[q] = "syncName" /\ pc'[q] = "idle"}}

Confirming == {"relist", "restat", "writeRef", "syncRef"}

Remember ==
  /\ begun' = [p \in Publishers |->
                IF pc'[p] \in {"idle", "syncName"} \cup Confirming THEN {}
                ELSE begun[p] \cup {Bytes(tree')}]
  /\ fresh' = [p \in Publishers |->
                IF pc'[p] \in Confirming \ {"syncRef"}
                THEN fresh[p] \cup {Bytes(tree')} ELSE {}]
  /\ orphans' = (orphans \cup Unnamed) \ {s.name : s \in saved'.snaps}

Next == Step /\ Remember

Spec == Init /\ [][Next]_vars

(* Some publisher publishes again and again: it gets the flock when that   *)
(* is free and goes on with what it has begun.                             *)
FairSpec == Spec /\ WF_vars((\E p \in Publishers : Publish(p) \/ TakeLock(p)) /\ Remember)

-----------------------------------------------------------------------------
(* Properties.                                                             *)

(* m has no bytes that a tree of S does not have, and omits no file that   *)
(* was there all the time.                                                 *)
WasIn(m, S) ==
  /\ \E t \in S : \A f \in Files : m[f] # Absent => t[f] = m[f]
  /\ \A f \in Files : m[f] = Absent => \E t \in S : t[f] = Absent

(* A folder under the name of a version holds the files of that version,   *)
(* after a power failure too: otherwise validate_existing would refuse     *)
(* this content for ever.                                                  *)
NamesMeanContent == \A s \in snaps : s.holds = s.name

(* The release reference never names a snapshot that is not there, after   *)
(* any crash and power failure - but for a snapshot whose publisher died   *)
(* between giving it its name and syncing that name: the next publisher of *)
(* the content uses such a folder without syncing it.                      *)
ReferenceIsWhole == ref # NoVersion /\ ref \notin orphans => Named(ref) # {}

(* The sweep of temporary folders never takes one from a living publisher. *)
StagingSurvives ==
  \A p \in Publishers : pc[p] \in {"copy", "rename"} => temp[p] # NoTemp

(* The files of a new snapshot were in the source all at the same moment   *)
(* of the attempt, although they were walked, hashed and copied one by one *)
(* while the deployment tool was writing.                                  *)
PublishedWasPresent ==
  [][\A p \in Publishers : \A s \in snaps' \ snaps :
       pc[p] = "rename" => WasIn(s.holds, begun[p])]_vars

(* What is released was in the source after its snapshot was complete: a  *)
(* publisher that waited for the lock cannot bring back what others have   *)
(* replaced, although the snapshot may have been there all along.          *)
ReleasedWasCurrent ==
  [][\A p \in Publishers : pc[p] = "writeRef" /\ pc'[p] = "syncRef"
       => WasIn(ref', fresh[p])]_vars

(* When the deployment tool is done, its tree becomes the release and      *)
(* stays it, whatever crashes and power failures left behind.              *)
ReleaseCatchesUp == <>[](ref = Bytes(tree))
=============================================================================
