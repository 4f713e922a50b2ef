----------------------------- MODULE MirrorSync -----------------------------
(***************************************************************************)
(* Publishing from an object store: one attempt, request by request.       *)
(*                                                                         *)
(* The processes of one host share a mirror of the source and a state file *)
(* about it, under the host lock.  An attempt observes the source (the     *)
(* deployment marker, the listing object by object, the marker again),     *)
(* brings the mirror up to date, observes again, writes the state file,    *)
(* copies the objects to a snapshot, observes once more and moves the      *)
(* release reference; and all the while a deployment writes and deletes    *)
(* objects, and its marker last.  The attempt is that of refresh; the      *)
(* publish command goes through the same steps.                            *)
(*                                                                         *)
(* A version is the content address of the files, here the map from object *)
(* key to bytes.  Every write gives an object a new signature (generation, *)
(* or LastModified), here the number of its writes.  All bytes have the    *)
(* same size, so no size check ever helps.  The candidate, the publication *)
(* lock and the conditional writes that several hosts need are             *)
(* Publication's; here the other hosts are silent.                         *)
(***************************************************************************)
EXTENDS Naturals, FiniteSets

CONSTANTS Procs, KeyCount, Contents, FirstBytes,
          Setups,                  \* the configurations a deployment may have
          Absent, Garbage, NoState, NoRef, NoConf, Nobody,
          MaxDeployments, MaxWrites, MaxMishaps   \* bounds on the environment

Keys == 1 .. KeyCount              \* in the order of the listing

(* pinned: a download names the generation (GCS) instead of only the key   *)
(* (S3); copies: the root is on the same service, so that it can copy the  *)
(* objects itself; marker: deployment_marker_key is configured.            *)
AllSetups == [pinned : BOOLEAN, copies : BOOLEAN, marker : BOOLEAN]

ASSUME MirrorAssumption ==
  /\ KeyCount \in Nat \ {0}
  /\ Setups \in SUBSET AllSetups /\ Setups # {}
  /\ FirstBytes \in Contents
  /\ Absent \notin Contents /\ Garbage \notin Contents \cup {Absent}
  /\ Nobody \notin Procs
  /\ {MaxDeployments, MaxWrites, MaxMishaps} \subseteq Nat

VARIABLES setup,
          src,         \* the source: bytes and signature of each object
          mark,        \* the deployment marker: writes of it, 0 when missing
          writes,      \* what the deployments may still write
          pending,     \* the objects the running deployment has yet to write
          deploying,   \* a deployment is running
          mirror,      \* the mirror: bytes, and whether the mtime is that of
                       \* the state file's record
          state,       \* the state file: signature and hash of each file
          objects,     \* the objects below the snapshots' prefixes
          committed,   \* the versions whose snapshot has its manifest
          ref,         \* the release reference
          lock,        \* the host lock
          mishaps
VARIABLES pc, round,   \* which observation of the attempt is running
          at,          \* the object a listing or a copy is at
          obs,         \* the first observation
          hash,        \* the hashes of the mirror files
          changed,     \* mirror_changed
          copying,     \* server-side copies are not disabled
          conf         \* _confirmed_source_key and _confirmed_source_version
VARIABLES deployed,    \* history: the source when each marker was written
          hasty,       \* history: a deployment began before the last one was
                       \* released
          fresh        \* history: the sources since the attempt's snapshot
                       \* was complete

sourceVars == <<src, mark, writes, pending, deploying>>
mirrorVars == <<mirror, state>>
rootVars == <<objects, committed, ref>>
callVars == <<round, at, obs, hash, changed, copying>>
histVars == <<deployed, hasty, fresh>>
vars == <<setup, sourceVars, mirrorVars, rootVars, lock, mishaps, pc, callVars, conf, histVars>>

Signatures == 0 .. MaxWrites
Markers == 0 .. MaxDeployments
Objects == [bytes : Contents \cup {Absent}, sig : Signatures]
Inventories == [Keys -> Objects]
Versions == [Keys -> Contents \cup {Absent}]
Observations == [entries : Inventories, marker : Markers]
Releases == [version : Versions, source : Observations]
Records == [sig : Signatures, bytes : Contents]
SnapshotObjects == [version : Versions, key : Keys, bytes : Contents \cup {Garbage}]

(* What stands for nothing is none of the things it stands in for.         *)
ASSUME NothingAssumption ==
  /\ Absent \notin Signatures \cup Records
  /\ NoState \notin [Keys -> Records \cup {Absent}]
  /\ NoRef \notin Releases /\ NoConf \notin Releases

Labels == {"idle", "markerBefore", "list", "markerAfter", "mirror", "file",
           "writeState", "decide", "upload", "manifest", "putRef"}

TypeOK ==
  /\ setup \in Setups
  /\ src \in Inventories
  /\ mark \in Markers
  /\ writes \in 0 .. MaxWrites
  /\ pending \in SUBSET Keys
  /\ deploying \in BOOLEAN
  /\ mirror \in [Keys -> [bytes : Contents \cup {Absent, Garbage}, recorded : BOOLEAN]]
  /\ state \in [Keys -> Records \cup {Absent}] \cup {NoState}
  /\ objects \in SUBSET SnapshotObjects
  /\ committed \in SUBSET Versions
  /\ ref \in Releases \cup {NoRef}
  /\ lock \in Procs \cup {Nobody}
  /\ mishaps \in 0 .. MaxMishaps
  /\ pc \in [Procs -> Labels]
  /\ round \in [Procs -> 1 .. 3]
  /\ at \in [Procs -> Keys]
  /\ obs \in [Procs -> Observations]
  /\ hash \in [Procs -> Versions]
  /\ changed \in [Procs -> BOOLEAN]
  /\ copying \in [Procs -> BOOLEAN]
  /\ conf \in [Procs -> Releases \cup {NoConf}]
  /\ deployed \in [Markers \ {0} -> Inventories]
  /\ hasty \in BOOLEAN
  /\ fresh \in [Procs -> SUBSET Versions]
  /\ \A p \in Procs : pc[p] # "idle" => lock = p

Blank == [k \in Keys |-> Absent]
NoObjects == [k \in Keys |-> [bytes |-> Absent, sig |-> 0]]
NothingObserved == [entries |-> NoObjects, marker |-> 0]
EmptyMirror == [k \in Keys |-> [bytes |-> Absent, recorded |-> FALSE]]

Init ==
  /\ setup \in Setups
  /\ src = [k \in Keys |-> [bytes |-> FirstBytes, sig |-> 0]]
  /\ mark = 0 /\ writes = MaxWrites /\ pending = {} /\ deploying = FALSE
  /\ mirror = EmptyMirror /\ state = NoState
  /\ objects = {} /\ committed = {} /\ ref = NoRef
  /\ lock = Nobody /\ mishaps = 0
  /\ pc = [p \in Procs |-> "idle"]
  /\ round = [p \in Procs |-> 1]
  /\ at = [p \in Procs |-> 1]
  /\ obs = [p \in Procs |-> NothingObserved]
  /\ hash = [p \in Procs |-> Blank]
  /\ changed = [p \in Procs |-> FALSE]
  /\ copying = [p \in Procs |-> FALSE]
  /\ conf = [p \in Procs |-> NoConf]
  /\ deployed = [m \in Markers \ {0} |-> NoObjects]
  /\ hasty = FALSE
  /\ fresh = [p \in Procs |-> {}]

-----------------------------------------------------------------------------
Bytes(inventory) == [k \in Keys |-> inventory[k].bytes]
Sigs(inventory) == [k \in Keys |-> IF inventory[k].bytes = Absent THEN Absent
                                   ELSE inventory[k].sig]
Exists(inventory) == {k \in Keys : inventory[k].bytes # Absent}

Observed(p) == Exists(obs[p].entries)
Entry(p) == obs[p].entries[at[p]]
Here(p) == src[at[p]]

Goto(p, label) == pc' = [pc EXCEPT ![p] = label]

First(S) == CHOOSE k \in S : \A l \in S : k <= l

(* On to the next key of S, or to label when there is none.                *)
Proceed(p, S, label) ==
  LET after == {k \in S : k > at[p]} IN
  IF after # {} THEN at' = [at EXCEPT ![p] = First(after)] /\ UNCHANGED pc
  ELSE at' = [at EXCEPT ![p] = 1] /\ Goto(p, label)

(* The attempt ends; `with self.lock()` gives the lock back. *)
KeptLock(p) == lock  \* mutant
FreedLock(p) == IF lock = p THEN Nobody ELSE lock
End(p) ==
  /\ Goto(p, "idle")
  /\ lock' = FreedLock(p)
  /\ round' = [round EXCEPT ![p] = 1]
  /\ at' = [at EXCEPT ![p] = 1]
  /\ obs' = [obs EXCEPT ![p] = NothingObserved]
  /\ hash' = [hash EXCEPT ![p] = Blank]
  /\ changed' = [changed EXCEPT ![p] = FALSE]
  /\ copying' = [copying EXCEPT ![p] = FALSE]

Frame == UNCHANGED <<setup, sourceVars, mishaps>>

-----------------------------------------------------------------------------
(* _collect_source_observation, in the three places where it is called.    *)

BeginWithLock(p) ==
  /\ pc[p] = "idle"
  /\ lock' = p
  /\ Goto(p, IF setup.marker THEN "markerBefore" ELSE "list")
  /\ UNCHANGED <<mirrorVars, rootVars, callVars, conf>> /\ Frame
BeginAnyway(p) == BeginWithLock(p)  \* mutant
Begin(p) == lock = Nobody /\ BeginWithLock(p)

(* A repeated observation must equal the first; here a difference fails    *)
(* the attempt as soon as it is met.  A marker that is missing does too.   *)
MarkerBefore(p) ==
  /\ pc[p] = "markerBefore"
  /\ IF mark = 0 \/ (round[p] > 1 /\ mark # obs[p].marker) THEN End(p)
     ELSE /\ obs' = [obs EXCEPT ![p].marker = mark]
          /\ Goto(p, "list")
          /\ UNCHANGED <<lock, round, at, hash, changed, copying>>
  /\ UNCHANGED <<mirrorVars, rootVars, conf>> /\ Frame

AfterRound(p) == CASE round[p] = 1 -> "mirror"
                   [] round[p] = 2 -> "writeState"
                   [] round[p] = 3 -> "putRef"

ListedAs(p) == Sigs(src)[at[p]] = Sigs(obs[p].entries)[at[p]]
SameMarkerOnly(p) == setup.marker \/ ListedAs(p)  \* mutant
SameObject(p) == ListedAs(p)

ListObject(p) ==
  /\ pc[p] = "list"
  /\ IF round[p] > 1 /\ ~SameObject(p) THEN End(p)
     ELSE /\ obs' = IF round[p] = 1 /\ Here(p).bytes # Absent
                    THEN [obs EXCEPT ![p].entries[at[p]] = Here(p)] ELSE obs
          /\ Proceed(p, Keys, IF setup.marker THEN "markerAfter" ELSE AfterRound(p))
          /\ UNCHANGED <<lock, round, hash, changed, copying>>
  /\ UNCHANGED <<mirrorVars, rootVars, conf>> /\ Frame

MarkerAfter(p) ==
  /\ pc[p] = "markerAfter"
  /\ IF mark # obs[p].marker THEN End(p)
     ELSE Goto(p, AfterRound(p)) /\ UNCHANGED <<lock, callVars>>
  /\ UNCHANGED <<mirrorVars, rootVars, conf>> /\ Frame

ObserveAgain(p, n) ==
  /\ round' = [round EXCEPT ![p] = n]
  /\ at' = [at EXCEPT ![p] = 1]
  /\ Goto(p, IF setup.marker THEN "markerBefore" ELSE "list")

-----------------------------------------------------------------------------
(* _synchronize_mirror.                                                    *)

(* A mirror without a state file is emptied; files the observation does    *)
(* not have are removed.                                                   *)
PrepareMirror(p) ==
  /\ pc[p] = "mirror"
  /\ mirror' = [k \in Keys |-> IF state # NoState /\ k \in Observed(p) THEN mirror[k]
                               ELSE EmptyMirror[k]]
  /\ changed' = [changed EXCEPT ![p] = state = NoState \/ mirror' # mirror]
  /\ IF Observed(p) # {}
     THEN /\ at' = [at EXCEPT ![p] = First(Observed(p))]
          /\ Goto(p, "file")
          /\ UNCHANGED round
     ELSE IF changed'[p] THEN ObserveAgain(p, 2)
     ELSE Goto(p, "writeState") /\ UNCHANGED <<round, at>>
  /\ UNCHANGED <<state, rootVars, lock, obs, hash, copying, conf>> /\ Frame

(* _can_reuse_mirror_file, and the hash of a file that could be reused: it *)
(* is left out when this very observation was published before.            *)
CanReuse(p, k) == /\ state # NoState /\ state[k] # Absent
                  /\ state[k].sig = obs[p].entries[k].sig
                  /\ mirror[k].bytes # Absent /\ mirror[k].recorded
CanSkipHash(p) == /\ conf[p] # NoConf /\ conf[p].source = obs[p]
                  /\ conf[p].version \in committed
TrustFile(p, k) == CanReuse(p, k)  \* mutant
Reused(p, k) == /\ CanReuse(p, k)
                /\ CanSkipHash(p) \/ mirror[k].bytes = state[k].bytes

(* The hash the attempt goes on with. *)
HashOf(p, k) == IF CanSkipHash(p) THEN state[k].bytes ELSE mirror[k].bytes

NextFile(p) ==
  IF \E k \in Observed(p) : k > at[p]
  THEN Proceed(p, Observed(p), "file") /\ UNCHANGED round
  ELSE IF changed'[p] THEN ObserveAgain(p, 2)
  ELSE Goto(p, "writeState") /\ at' = [at EXCEPT ![p] = 1] /\ UNCHANGED round

ReuseFile(p) ==
  /\ pc[p] = "file" /\ Reused(p, at[p])
  /\ hash' = [hash EXCEPT ![p][at[p]] = HashOf(p, at[p])]
  /\ UNCHANGED changed
  /\ NextFile(p)
  /\ UNCHANGED <<mirrorVars, rootVars, lock, obs, copying, conf>> /\ Frame

(* _download_entry: S3 gives the object as it is now. *)
Downloadable(p) == /\ Here(p).bytes # Absent
                   /\ setup.pinned => Here(p).sig = Entry(p).sig

Download(p) ==
  /\ pc[p] = "file" /\ ~Reused(p, at[p])
  /\ IF ~Downloadable(p) THEN End(p) /\ UNCHANGED mirror
     ELSE /\ mirror' = [mirror EXCEPT ![at[p]] = [bytes |-> Here(p).bytes, recorded |-> FALSE]]
          /\ hash' = [hash EXCEPT ![p][at[p]] = Here(p).bytes]
          /\ changed' = [changed EXCEPT ![p] = TRUE]
          /\ NextFile(p)
          /\ UNCHANGED <<lock, obs, copying>>
  /\ UNCHANGED <<state, rootVars, conf>> /\ Frame

WriteState(p) ==
  /\ pc[p] = "writeState"
  /\ state' = [k \in Keys |-> IF k \in Observed(p)
                              THEN [sig |-> obs[p].entries[k].sig, bytes |-> hash[p][k]]
                              ELSE Absent]
  /\ mirror' = [k \in Keys |-> [mirror[k] EXCEPT !.recorded = mirror[k].bytes # Absent]]
  /\ Goto(p, "decide")
  /\ UNCHANGED <<rootVars, lock, callVars, conf>> /\ Frame

-----------------------------------------------------------------------------
(* _publish_from_source_if_ready and what it calls.                        *)

Target(p) == [version |-> hash[p], source |-> obs[p]]
Confirmed(p) == conf' = [conf EXCEPT ![p] = Target(p)]
SameSource(o1, o2) == /\ Sigs(o1.entries) = Sigs(o2.entries)
                      /\ o1.marker = o2.marker

AlreadyReleased(p) == /\ ref # NoRef
                      /\ ref.version = hash[p] /\ hash[p] \in committed
                      /\ SameSource(ref.source, obs[p])

(* _validate_release_transition: no change of objects without a new marker.*)
AnyTransition(p) == TRUE  \* mutant
ValidTransition(p) ==
  ref = NoRef \/ ~setup.marker \/ ref.source.marker # obs[p].marker
    \/ Sigs(ref.source.entries) = Sigs(obs[p].entries)

Decide(p) ==
  /\ pc[p] = "decide"
  /\ IF AlreadyReleased(p)
     THEN End(p) /\ Confirmed(p)
     ELSE IF Observed(p) = {} \/ ~ValidTransition(p)
     THEN End(p) /\ UNCHANGED conf
     ELSE /\ copying' = [copying EXCEPT ![p] = setup.copies]
          /\ IF hash[p] \in committed THEN ObserveAgain(p, 3)
             ELSE /\ at' = [at EXCEPT ![p] = First(Observed(p))]
                  /\ Goto(p, "upload")
                  /\ UNCHANGED round
          /\ UNCHANGED <<lock, obs, hash, changed, conf>>
  /\ UNCHANGED <<mirrorVars, rootVars>> /\ Frame

Put(version, k, bytes) ==
  objects' = {o \in objects : o.version # version \/ o.key # k}
             \cup {[version |-> version, key |-> k, bytes |-> bytes]}

(* _try_server_side_copy: the object must still have the observed ETag     *)
(* (S3, a hash of its bytes) or generation (GCS).                          *)
AnyObject(p) == Here(p).bytes # Absent  \* mutant
CopyAllowed(p) == IF setup.pinned THEN Sigs(src)[at[p]] = Entry(p).sig
                  ELSE Here(p).bytes = Entry(p).bytes

ServerSideCopy(p) ==
  /\ pc[p] = "upload" /\ copying[p] /\ CopyAllowed(p)
  /\ Put(hash[p], at[p], Here(p).bytes)
  /\ Proceed(p, Observed(p), "manifest")
  /\ UNCHANGED <<mirrorVars, committed, ref, lock, round, obs, hash, changed, copying, conf>>
  /\ Frame

(* Otherwise the file of the mirror is uploaded, if it has the hash; so it *)
(* is from the first copy on that fails for another reason.                *)
UploadFile(p, disabled) ==
  /\ IF mirror[at[p]].bytes = hash[p][at[p]]
     THEN /\ Put(hash[p], at[p], mirror[at[p]].bytes)
          /\ Proceed(p, Observed(p), "manifest")
          /\ copying' = [copying EXCEPT ![p] = @ /\ ~disabled]
          /\ UNCHANGED <<lock, round, obs, hash, changed>>
     ELSE End(p) /\ UNCHANGED objects
  /\ UNCHANGED <<mirrorVars, committed, ref, conf>> /\ Frame

Upload(p) == pc[p] = "upload" /\ ~(copying[p] /\ CopyAllowed(p)) /\ UploadFile(p, FALSE)
CopyFails(p) == pc[p] = "upload" /\ copying[p] /\ UploadFile(p, TRUE)

PutManifest(p) ==
  /\ pc[p] = "manifest"
  /\ committed' = committed \cup {hash[p]}
  /\ ObserveAgain(p, 3)
  /\ UNCHANGED <<mirrorVars, objects, ref, lock, obs, hash, changed, copying, conf>>
  /\ Frame

PutRef(p) ==
  /\ pc[p] = "putRef"
  /\ ref' = Target(p)
  /\ Confirmed(p)
  /\ End(p)
  /\ UNCHANGED <<mirrorVars, objects, committed>> /\ Frame

-----------------------------------------------------------------------------
(* The environment.                                                        *)

DeployFrame == UNCHANGED <<setup, mirrorVars, rootVars, lock, mishaps, pc, callVars, conf>>

(* A deployment replaces or deletes some of the objects, in their order;   *)
(* the marker comes last.                                                  *)
StartDeployment ==
  /\ ~deploying /\ mark < MaxDeployments
  /\ deploying' = TRUE
  /\ \E S \in SUBSET Keys : /\ Cardinality(S) <= writes
                            /\ pending' = S
                            /\ writes' = writes - Cardinality(S)
  /\ UNCHANGED <<src, mark>> /\ DeployFrame

DeployObject(k) ==
  /\ k \in pending /\ k = First(pending)
  /\ pending' = pending \ {k}
  /\ \E c \in (Contents \cup {Absent}) \ {src[k].bytes} :
       src' = [src EXCEPT ![k] = [bytes |-> c, sig |-> @.sig + 1]]
  /\ UNCHANGED <<mark, writes, deploying>> /\ DeployFrame

FinishDeployment ==
  /\ deploying /\ pending = {}
  /\ deploying' = FALSE
  /\ mark' = mark + 1
  /\ UNCHANGED <<src, writes, pending>> /\ DeployFrame

Mishap == mishaps < MaxMishaps /\ mishaps' = mishaps + 1

(* A process dies, and another one takes its place. *)
Crash(p) ==
  /\ pc[p] # "idle" /\ Mishap
  /\ conf' = [conf EXCEPT ![p] = NoConf]
  /\ End(p)
  /\ UNCHANGED <<setup, sourceVars, mirrorVars, rootVars>>

(* The host loses power.  The files of the mirror are never synced: each   *)
(* may have lost its bytes, under the name, size and mtime it had.         *)
PowerFailure ==
  /\ Mishap
  /\ \E lost \in SUBSET {k \in Keys : mirror[k].bytes # Absent} :
       mirror' = [k \in Keys |-> IF k \in lost THEN [mirror[k] EXCEPT !.bytes = Garbage]
                                 ELSE mirror[k]]
  /\ lock' = Nobody
  /\ pc' = [p \in Procs |-> "idle"]
  /\ round' = [p \in Procs |-> 1]
  /\ at' = [p \in Procs |-> 1]
  /\ obs' = [p \in Procs |-> NothingObserved]
  /\ hash' = [p \in Procs |-> Blank]
  /\ changed' = [p \in Procs |-> FALSE]
  /\ copying' = [p \in Procs |-> FALSE]
  /\ conf' = [p \in Procs |-> NoConf]
  /\ UNCHANGED <<setup, sourceVars, state, rootVars>>

-----------------------------------------------------------------------------
Observe(p) == MarkerBefore(p) \/ ListObject(p) \/ MarkerAfter(p)
Synchronize(p) == PrepareMirror(p) \/ ReuseFile(p) \/ Download(p) \/ WriteState(p)
Publish(p) == \/ Decide(p) \/ ServerSideCopy(p) \/ Upload(p) \/ CopyFails(p)
              \/ PutManifest(p) \/ PutRef(p)
Attempt(p) == Begin(p) \/ Observe(p) \/ Synchronize(p) \/ Publish(p)

Deploy == StartDeployment \/ FinishDeployment \/ (\E k \in Keys : DeployObject(k))

Step == (\E p \in Procs : Attempt(p) \/ Crash(p)) \/ Deploy \/ PowerFailure

(* The marker of the release; before the first one, that of no deployment. *)
ReleasedMarker == IF ref = NoRef THEN 0 ELSE ref.source.marker

Remember ==
  /\ deployed' = IF mark' = mark THEN deployed ELSE [deployed EXCEPT ![mark'] = src]
  /\ hasty' = (hasty \/ (deploying' /\ ~deploying /\ mark # ReleasedMarker))
  /\ fresh' = [p \in Procs |->
                 IF pc'[p] = "idle" \/ round'[p] # 3 THEN {}
                 ELSE fresh[p] \cup {Bytes(src')}]

Next == Step /\ Remember

Spec == Init /\ [][Next]_vars

(* Some process of the host refreshes again and again, and goes on with    *)
(* what it has begun; a deployment may stop half-way.                      *)
FairSpec == Spec /\ WF_vars((\E p \in Procs : Attempt(p)) /\ Remember)

-----------------------------------------------------------------------------
(* Properties.                                                             *)

(* What is published are the observed bytes: whatever an interrupted       *)
(* synchronisation, a download of newer bytes, a power failure or a reused *)
(* file did to the mirror.                                                 *)
PublishedIsObserved ==
  \A p \in Procs : pc[p] \in {"decide", "upload", "manifest", "putRef"}
                     => hash[p] = Bytes(obs[p].entries)

(* A snapshot with a manifest has for every file one object, with the      *)
(* bytes the manifest says, whether it was copied from a source that was   *)
(* moving on or uploaded from the mirror, and however often it was begun.  *)
CommittedIsWhole ==
  \A v \in committed : \A k \in Keys :
    {o.bytes : o \in {x \in objects : x.version = v /\ x.key = k}} = {v[k]} \ {Absent}

(* What is released was in the source after its snapshot was complete, all *)
(* of it at the same moment; and what it omits was missing at some moment. *)
ReleasedWasCurrent ==
  [][\A p \in Procs : pc[p] = "putRef" /\ ref' # ref =>
       /\ \E s \in fresh[p] : \A k \in Keys :
            ref'.version[k] # Absent => s[k] = ref'.version[k]
       /\ \A k \in Keys : ref'.version[k] = Absent =>
            \E s \in fresh[p] : s[k] = Absent]_vars

(* With a deployment marker, a release is a complete deployment - but only *)
(* as long as no deployment begins before the one before it is released:   *)
(* its objects would pass under the marker that is not released yet.       *)
ReleasedWasDeployed ==
  setup.marker /\ ~hasty /\ ref # NoRef =>
    Sigs(ref.source.entries) = Sigs(deployed[ref.source.marker])

(* A deployment that is complete becomes the release, whatever state an    *)
(* interrupted attempt left the mirror and the snapshot in.                *)
Releasable == /\ Exists(src) # {} /\ ~deploying
              /\ setup.marker => mark > 0
SourceIsReleased == <>[](Releasable => ref # NoRef /\ ref.version = Bytes(src))
=============================================================================
