---------------------------- MODULE ArtifactStore ---------------------------
(***************************************************************************)
(* The published root: the only state that publishers and consumers share. *)
(* It holds one release reference, one stability candidate and the         *)
(* immutable snapshots.  A filesystem root serialises its publishers with  *)
(* a lock; an S3 or GCS root has no lock and makes the two mutable         *)
(* documents compare-and-swap registers instead.                           *)
(*                                                                         *)
(* The operators below are the requests of the ArtifactStore protocol, one *)
(* atomic step each, for the process p that issues them.                   *)
(***************************************************************************)
EXTENDS ReleaseRef, Naturals

CONSTANTS Procs,        \* every process that uses the root
          Root,         \* the kind of root
          Stability,    \* source_stability_seconds, in clock ticks
          NoCand,       \* there is no candidate document
          StaleToken,   \* a generation that is not the document's any more
          Nobody        \* the publication lock is free

ASSUME RootAssumption == Root \in {"filesystem", "s3", "gcs"}
ASSUME StabilityAssumption == Stability \in Nat

(* The candidate document records who observed what and when.  A moment is *)
(* kept as its age: the time since then, exact up to Stability, the only   *)
(* value that elapsed times are compared with.                             *)
Ages == 0 .. Stability
Cands == [identity : Identities, sig : Sigs, age : Ages]

ASSUME RootNoneAssumption ==
  /\ NoCand \notin Cands
  /\ StaleToken \notin Refs \cup {NoRef}
  /\ Nobody \notin Procs

VARIABLES ref,        \* refs/<bundle>/latest.json
          cand,       \* _state/<bundle>/auto-publish.json
          files,      \* per version: the complete file objects under its prefix
          committed,  \* the versions whose manifest object, or folder, exists
          guard,      \* the holder of the publication lock
          refTok,     \* per process: the token of its last read of the reference
          candLive    \* per process: is its candidate token still the document's

rootVars == <<ref, cand, files, committed, guard>>
tokenVars == <<refTok, candLive>>

RootTypeOK ==
  /\ ref \in Refs \cup {NoRef}
  /\ cand \in Cands \cup {NoCand}
  /\ files \in [Versions -> SUBSET Files]
  /\ committed \in SUBSET Versions
  /\ guard \in Procs \cup {Nobody}
  /\ refTok \in [Procs -> Refs \cup {NoRef, StaleToken}]
  /\ candLive \in [Procs -> BOOLEAN]

RootInit ==
  /\ ref = NoRef
  /\ cand = NoCand
  /\ files = [v \in Versions |-> {}]
  /\ committed = {}
  /\ guard = Nobody
  /\ refTok = [p \in Procs |-> NoRef]
  /\ candLive = [p \in Procs |-> FALSE]

Locking == Root = "filesystem"

(* publication_guard: flock on a filesystem root, nothing on the others.   *)
TakeGuard(p) == IF Locking THEN guard' = p ELSE UNCHANGED guard  \* mutant
AcquireGuard(p) == IF Locking THEN guard = Nobody /\ guard' = p
                              ELSE UNCHANGED guard

KeptGuard(p) == guard  \* mutant
FreedGuard(p) == IF guard = p THEN Nobody ELSE guard

(* snapshot_exists: the manifest object, or the renamed folder, is there.  *)
AnyObjectExists(v) == files[v] # {}  \* mutant
SnapshotExists(v) == v \in committed

(* fetch_snapshot downloads the manifest, then every file that it lists;   *)
(* one that is missing fails the fetch.                                    *)
Fetchable(v) == SnapshotExists(v) /\ FilesOf[v] \subseteq files[v]

(* Reading the reference records the token that the next write must match. *)
(* An S3 ETag identifies the bytes, so the token is the value read; a GCS  *)
(* generation identifies one write, so any later write makes it stale.     *)
ReadRef(p) == refTok' = [refTok EXCEPT ![p] = ref]

BlindWrite(p) == TRUE  \* mutant
RefUnchanged(p) == Locking \/ refTok[p] = ref

(* What other processes' tokens become when p writes the reference. *)
OthersTokens(p) == [q \in Procs |->
                      IF q # p /\ Root = "gcs" THEN StaleToken ELSE refTok[q]]

PutRef(p, new) ==
  /\ ref' = new
  /\ refTok' = [OthersTokens(p) EXCEPT ![p] = new]

(* The write took effect, but its writer keeps the token of its last read. *)
PutRefUnacknowledged(p, new) ==
  /\ ref' = new
  /\ refTok' = [OthersTokens(p) EXCEPT ![p] = IF Root = "gcs" THEN StaleToken ELSE @]

(* Every candidate document carries its own timestamp, so its token, ETag  *)
(* or generation, identifies one write.                                    *)
CandUnchanged(p) == Locking \/ candLive[p]

PutCand(new) ==
  /\ cand' = new
  /\ candLive' = [q \in Procs |-> FALSE]

(* One entry of a manifest is copied to its final key.  A filesystem root  *)
(* copies into a private folder that nobody else sees.                     *)
PutFile(v, f) ==
  files' = IF Locking THEN files
           ELSE [files EXCEPT ![v] = @ \cup {f}]

(* The step that makes a snapshot exist: the manifest object is written    *)
(* last, or the finished folder is renamed into place.                     *)
CommitSnapshot(v) ==
  /\ committed' = committed \cup {v}
  /\ files' = IF Locking THEN [files EXCEPT ![v] = FilesOf[v]] ELSE files
=============================================================================
