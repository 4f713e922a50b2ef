-------------------------- MODULE PublicationProofs -------------------------
(***************************************************************************)
(* What holds of every reachable state and step of Publication, for every  *)
(* value of its constants: complete snapshots, the lock, and the           *)
(* refinement of Release.                                                  *)
(***************************************************************************)
EXTENDS PublicationTypes

-----------------------------------------------------------------------------
(* Snapshots.  CommittedIsComplete needs to know what the files under a    *)
(* key prefix can be, and what every upload in progress still lacks;       *)
(* uploads of the same version by several publishers add up.               *)

FilesAreListed == \A v \in Versions : files[v] \subseteq FilesOf[v]

UploadsAddUp ==
  \A p \in Procs : pc[p] = "upload" =>
    /\ todo[p] \subseteq FilesOf[TargetVersion(p)]
    /\ ~Locking => FilesOf[TargetVersion(p)] \ todo[p]
                     \subseteq files[TargetVersion(p)]

Releasing == {"confirm", "putRef", "refConflict", "published"}

ReleasingIsCommitted ==
  \A p \in Procs : pc[p] \in Releasing => TargetVersion(p) \in committed

SnapshotInv ==
  /\ CommittedIsComplete
  /\ FilesAreListed
  /\ UploadsAddUp
  /\ ReleasingIsCommitted

(* Every step keeps the snapshots in order. *)
LEMMA SnapshotStep ==
  ASSUME TypeInv, SnapshotInv, [Next]_vars
  PROVE  SnapshotInv'
<1>1. StoreTyped /\ PcTyped /\ AttemptTyped /\ RestTyped /\ Prepared
  BY TypeParts
<1>2. ASSUME NEW r \in Replicas, BeginRefresh(r) PROVE SnapshotInv'
  BY <1>1, <1>2, ReplicasAreProcs DEF SnapshotInv, CommittedIsComplete,
     FilesAreListed, UploadsAddUp, ReleasingIsCommitted, Releasing,
     TargetVersion, StoreTyped, PcTyped, AttemptTyped, BeginRefresh, Goto,
     rootVars
<1>3. ASSUME NEW r \in Replicas, PrepareSource(r) PROVE SnapshotInv'
  BY <1>1, <1>3, ReplicasAreProcs DEF SnapshotInv, CommittedIsComplete,
     FilesAreListed, UploadsAddUp, ReleasingIsCommitted, Releasing,
     TargetVersion, StoreTyped, PcTyped, AttemptTyped, PrepareSource, Goto,
     rootVars, tokenVars
<1>4. ASSUME NEW r \in Replicas, EnsureCandidateMatches(r) PROVE SnapshotInv'
  BY <1>1, <1>4, ReplicasAreProcs DEF SnapshotInv, CommittedIsComplete,
     FilesAreListed, UploadsAddUp, ReleasingIsCommitted, Releasing,
     TargetVersion, StoreTyped, PcTyped, AttemptTyped, EnsureCandidateMatches,
     Goto, rootVars, tokenVars, workVars
<1>5. ASSUME NEW r \in Replicas, ConfirmedFastPath(r) PROVE SnapshotInv'
  BY <1>1, <1>5, ReplicasAreProcs DEF SnapshotInv, CommittedIsComplete,
     FilesAreListed, UploadsAddUp, ReleasingIsCommitted, Releasing,
     TargetVersion, StoreTyped, PcTyped, AttemptTyped, ConfirmedFastPath,
     Return, OutcomeFrame, Goto, rootVars, tokenVars, workVars, Leave
<1>6. ASSUME NEW r \in Replicas, LockCandidate(r) PROVE SnapshotInv'
  BY <1>1, <1>6, ReplicasAreProcs DEF SnapshotInv, CommittedIsComplete,
     FilesAreListed, UploadsAddUp, ReleasingIsCommitted, Releasing,
     TargetVersion, StoreTyped, PcTyped, AttemptTyped, LockCandidate, Goto,
     StoreUnchanged, tokenVars, workVars
<1>7. ASSUME NEW r \in Replicas, ReadCandidate(r) PROVE SnapshotInv'
  BY <1>1, <1>7, ReplicasAreProcs DEF SnapshotInv, CommittedIsComplete,
     FilesAreListed, UploadsAddUp, ReleasingIsCommitted, Releasing,
     TargetVersion, StoreTyped, PcTyped, AttemptTyped, ReadCandidate,
     Synchronized, tokenVars, Raise, Goto, workVars, OutcomeFrame, Leave
<1>8. ASSUME NEW r \in Replicas, ConfirmCandidate(r) PROVE SnapshotInv'
  BY <1>1, <1>8, ReplicasAreProcs DEF SnapshotInv, CommittedIsComplete,
     FilesAreListed, UploadsAddUp, ReleasingIsCommitted, Releasing,
     TargetVersion, StoreTyped, PcTyped, AttemptTyped, ConfirmCandidate, Goto,
     tokenVars, workVars, Raise, OutcomeFrame, Leave
<1>9. ASSUME NEW r \in Replicas, WriteCandidate(r) PROVE SnapshotInv'
  BY <1>1, <1>9, ReplicasAreProcs DEF SnapshotInv, CommittedIsComplete,
     FilesAreListed, UploadsAddUp, ReleasingIsCommitted, Releasing,
     TargetVersion, StoreTyped, PcTyped, AttemptTyped, WriteCandidate,
     Synchronized, Goto
<1>10. ASSUME NEW r \in Replicas, RereadCandidate(r) PROVE SnapshotInv'
  BY <1>1, <1>10, ReplicasAreProcs DEF SnapshotInv, CommittedIsComplete,
     FilesAreListed, UploadsAddUp, ReleasingIsCommitted, Releasing,
     TargetVersion, StoreTyped, PcTyped, AttemptTyped, RereadCandidate,
     Synchronized, tokenVars, Raise, OutcomeFrame, Goto, Leave
<1>11. ASSUME NEW r \in Replicas, CheckReady(r) PROVE SnapshotInv'
  BY <1>1, <1>11, ReplicasAreProcs DEF SnapshotInv, CommittedIsComplete,
     FilesAreListed, UploadsAddUp, ReleasingIsCommitted, Releasing,
     TargetVersion, StoreTyped, PcTyped, AttemptTyped, CheckReady, Goto,
     tokenVars, Raise, Return, OutcomeFrame, Leave
<1>12. ASSUME NEW r \in Replicas, BuildManifest(r) PROVE SnapshotInv'
  BY <1>1, <1>12, ReplicasAreProcs DEF SnapshotInv, CommittedIsComplete,
     FilesAreListed, UploadsAddUp, ReleasingIsCommitted, Releasing,
     TargetVersion, StoreTyped, PcTyped, AttemptTyped, BuildManifest, Raise,
     Return, Goto, tokenVars, workVars, StoreUnchanged, Leave
<1>13. ASSUME NEW r \in Replicas, RecheckCandidate(r) PROVE SnapshotInv'
  BY <1>1, <1>13, ReplicasAreProcs DEF SnapshotInv, CommittedIsComplete,
     FilesAreListed, UploadsAddUp, ReleasingIsCommitted, Releasing,
     TargetVersion, StoreTyped, PcTyped, AttemptTyped, RecheckCandidate, Goto,
     tokenVars, Raise, OutcomeFrame, Leave
<1>14. ASSUME NEW r \in Replicas, RecheckElapsed(r) PROVE SnapshotInv'
  BY <1>1, <1>14, ReplicasAreProcs DEF SnapshotInv, CommittedIsComplete,
     FilesAreListed, UploadsAddUp, ReleasingIsCommitted, Releasing,
     TargetVersion, StoreTyped, PcTyped, AttemptTyped, RecheckElapsed, Goto,
     tokenVars, Raise, OutcomeFrame, Leave
<1>15. ASSUME NEW r \in Replicas, FollowWinner(r) PROVE SnapshotInv'
  BY <1>1, <1>15, ReplicasAreProcs DEF SnapshotInv, CommittedIsComplete,
     FilesAreListed, UploadsAddUp, ReleasingIsCommitted, Releasing,
     TargetVersion, StoreTyped, PcTyped, AttemptTyped, FollowWinner, FallBack,
     Leave, EndRefresh, StoreUnchanged, Goto
<1>16. ASSUME NEW r \in Replicas, KeepCurrent(r) PROVE SnapshotInv'
  BY <1>1, <1>16, ReplicasAreProcs DEF SnapshotInv, CommittedIsComplete,
     FilesAreListed, UploadsAddUp, ReleasingIsCommitted, Releasing,
     TargetVersion, StoreTyped, PcTyped, AttemptTyped, KeepCurrent, FallBack,
     Leave, EndRefresh, StoreUnchanged, Goto
<1>17. ASSUME NEW r \in Replicas, Serve(r) PROVE SnapshotInv'
  BY <1>1, <1>17, ReplicasAreProcs DEF SnapshotInv, CommittedIsComplete,
     FilesAreListed, UploadsAddUp, ReleasingIsCommitted, Releasing,
     TargetVersion, StoreTyped, PcTyped, AttemptTyped, Serve,
     EndRefresh, StoreUnchanged, Leave, Goto
<1>18. ASSUME NEW r \in Replicas, CandResponseLost(r) PROVE SnapshotInv'
  BY <1>1, <1>18, ReplicasAreProcs DEF SnapshotInv, CommittedIsComplete,
     FilesAreListed, UploadsAddUp, ReleasingIsCommitted, Releasing,
     TargetVersion, StoreTyped, PcTyped, AttemptTyped, CandResponseLost, Goto
<1>19. ASSUME NEW r \in Replicas, FailedRefresh(r) PROVE SnapshotInv'
  BY <1>1, <1>19, ReplicasAreProcs DEF SnapshotInv, CommittedIsComplete,
     FilesAreListed, UploadsAddUp, ReleasingIsCommitted, Releasing,
     TargetVersion, StoreTyped, PcTyped, AttemptTyped, FailedRefresh,
     FallbackLabels, EndRefresh, StoreUnchanged, Leave, Goto
<1>20. ASSUME NEW p \in Publishers, StartExplicit(p) PROVE SnapshotInv'
  BY <1>1, <1>20, ConstantFacts DEF SnapshotInv, CommittedIsComplete,
     FilesAreListed, UploadsAddUp, ReleasingIsCommitted, Releasing,
     TargetVersion, StoreTyped, PcTyped, AttemptTyped, StartExplicit, Goto,
     rootVars, tokenVars
<1>21. ASSUME NEW p \in Publishers, CheckExpected(p) PROVE SnapshotInv'
  BY <1>1, <1>21, ConstantFacts DEF SnapshotInv, CommittedIsComplete,
     FilesAreListed, UploadsAddUp, ReleasingIsCommitted, Releasing,
     TargetVersion, StoreTyped, PcTyped, AttemptTyped, CheckExpected, Goto,
     workVars, Raise, OutcomeFrame, Leave
<1>22. ASSUME NEW p \in Procs, LockPublish(p) PROVE SnapshotInv'
  BY <1>1, <1>22 DEF SnapshotInv, CommittedIsComplete, FilesAreListed,
     UploadsAddUp, ReleasingIsCommitted, Releasing, TargetVersion, StoreTyped,
     PcTyped, AttemptTyped, LockPublish, Goto, StoreUnchanged, tokenVars,
     workVars
<1>23. ASSUME NEW p \in Procs, ReadLatest(p) PROVE SnapshotInv'
  BY <1>1, <1>23 DEF SnapshotInv, CommittedIsComplete, FilesAreListed,
     UploadsAddUp, ReleasingIsCommitted, Releasing, TargetVersion, StoreTyped,
     PcTyped, AttemptTyped, ReadLatest, Raise, Return, Goto, workVars,
     StoreUnchanged, Leave
<1>24. ASSUME NEW p \in Procs, CheckSnapshot(p) PROVE SnapshotInv'
  BY <1>1, <1>24, ConstantFacts DEF SnapshotInv, CommittedIsComplete,
     FilesAreListed, UploadsAddUp, ReleasingIsCommitted, Releasing,
     TargetVersion, StoreTyped, PcTyped, AttemptTyped, CheckSnapshot,
     SnapshotExists, Goto, rootVars, tokenVars
<1>25. ASSUME NEW p \in Procs, UploadFile(p) PROVE SnapshotInv'
  <2>1. TargetVersion(p) \in Versions
    BY <1>1, <1>25, ConstantFacts
       DEF UploadFile, Prepared, Unprepared, FallbackLabels, TargetVersion
  <2>2. TargetVersion(p)' = TargetVersion(p)
        /\ \A q \in Procs : TargetVersion(q)' = TargetVersion(q)
    BY <1>25 DEF UploadFile, TargetVersion, workVars
  <2>3. CASE Locking
    BY <1>1, <1>25, <2>1, <2>2, <2>3
       DEF UploadFile, PutFile, SnapshotInv, CommittedIsComplete, FilesAreListed,
           UploadsAddUp, ReleasingIsCommitted, StoreTyped, AttemptTyped
  <2>4. CASE ~Locking
    <3>1. PICK f \in todo[p] : /\ files' = [files EXCEPT ![TargetVersion(p)] = @ \cup {f}]
                              /\ todo' = [todo EXCEPT ![p] = @ \ {f}]
      BY <1>25, <2>4 DEF UploadFile, PutFile
    <3>2. UNCHANGED <<pc, committed>>
      BY <1>25 DEF UploadFile
    <3>3. f \in FilesOf[TargetVersion(p)]
      BY <1>25, <3>1 DEF UploadFile, SnapshotInv, UploadsAddUp
    <3>4. FilesAreListed' /\ CommittedIsComplete'
      BY <1>1, <2>1, <3>1, <3>2, <3>3
         DEF SnapshotInv, FilesAreListed, CommittedIsComplete, StoreTyped
    <3>5. UploadsAddUp'
      <4> SUFFICES ASSUME NEW q \in Procs, pc[q] = "upload"
                   PROVE  /\ todo'[q] \subseteq FilesOf[TargetVersion(q)]
                          /\ FilesOf[TargetVersion(q)] \ todo'[q]
                               \subseteq files'[TargetVersion(q)]
        BY <2>2, <2>4, <3>2 DEF UploadsAddUp
      <4>1. TargetVersion(q) \in Versions
        BY <1>1, ConstantFacts
           DEF Prepared, Unprepared, FallbackLabels, TargetVersion
      <4>2. files[TargetVersion(q)] \subseteq files'[TargetVersion(q)]
        BY <1>1, <2>1, <3>1, <4>1 DEF StoreTyped
      <4>3. CASE q = p
        BY <1>1, <2>1, <2>4, <3>1, <4>2, <4>3
           DEF SnapshotInv, UploadsAddUp, StoreTyped, AttemptTyped
      <4>4. CASE q # p
        BY <1>1, <2>4, <3>1, <4>2, <4>4 DEF SnapshotInv, UploadsAddUp, AttemptTyped
      <4> QED
        BY <4>3, <4>4
    <3>6. ReleasingIsCommitted'
      BY <2>2, <3>2 DEF SnapshotInv, ReleasingIsCommitted
    <3> QED
      BY <3>4, <3>5, <3>6 DEF SnapshotInv
  <2> QED
    BY <2>3, <2>4
<1>26. ASSUME NEW p \in Procs, FinishSnapshot(p) PROVE SnapshotInv'
  <2>1. TargetVersion(p) \in Versions
    BY <1>1, <1>26, ConstantFacts
       DEF FinishSnapshot, Prepared, Unprepared, FallbackLabels, TargetVersion
  <2>2. TargetVersion(p)' = TargetVersion(p)
        /\ \A q \in Procs : TargetVersion(q)' = TargetVersion(q)
    BY <1>26 DEF FinishSnapshot, TargetVersion, workVars
  <2>3. /\ pc[p] = "upload" /\ todo[p] = {} /\ UNCHANGED todo
        /\ pc' = [pc EXCEPT ![p] = "confirm"]
        /\ committed' = committed \cup {TargetVersion(p)}
    BY <1>26 DEF FinishSnapshot, Uploaded, CommitSnapshot, Goto, workVars
  <2>4. files' = [files EXCEPT ![TargetVersion(p)] = FilesOf[TargetVersion(p)]]
    <3>1. CASE Locking
      BY <1>26, <3>1 DEF FinishSnapshot, CommitSnapshot
    <3>2. CASE ~Locking
      <4>1. files[TargetVersion(p)] = FilesOf[TargetVersion(p)]
        BY <2>1, <2>3, <3>2 DEF SnapshotInv, UploadsAddUp, FilesAreListed
      <4>2. files' = files
        BY <1>26, <3>2 DEF FinishSnapshot, CommitSnapshot
      <4> QED
        BY <1>1, <2>1, <4>1, <4>2 DEF StoreTyped
    <3> QED
      BY <3>1, <3>2
  <2>5. CommittedIsComplete' /\ FilesAreListed'
    BY <1>1, <2>1, <2>3, <2>4
       DEF SnapshotInv, CommittedIsComplete, FilesAreListed, StoreTyped
  <2>6. UploadsAddUp'
    <3> SUFFICES ASSUME NEW q \in Procs, pc'[q] = "upload"
                 PROVE  /\ todo[q] \subseteq FilesOf[TargetVersion(q)]
                        /\ ~Locking => FilesOf[TargetVersion(q)] \ todo[q]
                                         \subseteq files'[TargetVersion(q)]
      BY <2>2, <2>3 DEF UploadsAddUp, Locking
    <3>1. pc[q] = "upload"
      BY <1>1, <2>3 DEF PcTyped
    <3>2. TargetVersion(q) \in Versions
      BY <1>1, <3>1, ConstantFacts
         DEF Prepared, Unprepared, FallbackLabels, TargetVersion
    <3>3. files[TargetVersion(q)] \subseteq files'[TargetVersion(q)]
      BY <1>1, <2>1, <2>4, <3>2 DEF StoreTyped, SnapshotInv, FilesAreListed
    <3> QED
      BY <3>1, <3>3 DEF SnapshotInv, UploadsAddUp
  <2>7. ReleasingIsCommitted'
    BY <1>1, <2>2, <2>3 DEF SnapshotInv, ReleasingIsCommitted, PcTyped
  <2> QED
    BY <2>5, <2>6, <2>7 DEF SnapshotInv
<1>27. ASSUME NEW p \in Procs, ConfirmSource(p) PROVE SnapshotInv'
  BY <1>1, <1>27 DEF SnapshotInv, CommittedIsComplete, FilesAreListed,
     UploadsAddUp, ReleasingIsCommitted, Releasing, TargetVersion, StoreTyped,
     PcTyped, AttemptTyped, ConfirmSource, Goto, tokenVars, workVars, Raise,
     OutcomeFrame, Leave
<1>28. ASSUME NEW p \in Procs, WriteRef(p) PROVE SnapshotInv'
  BY <1>1, <1>28 DEF SnapshotInv, CommittedIsComplete, FilesAreListed,
     UploadsAddUp, ReleasingIsCommitted, Releasing, TargetVersion, StoreTyped,
     PcTyped, AttemptTyped, WriteRef, Goto, workVars
<1>29. ASSUME NEW p \in Procs, ResolveConflict(p) PROVE SnapshotInv'
  BY <1>1, <1>29 DEF SnapshotInv, CommittedIsComplete, FilesAreListed,
     UploadsAddUp, ReleasingIsCommitted, Releasing, TargetVersion, StoreTyped,
     PcTyped, AttemptTyped, ResolveConflict, Goto, workVars, Leave,
     OutcomeFrame
<1>30. ASSUME NEW p \in Procs, RecordPublished(p) PROVE SnapshotInv'
  BY <1>1, <1>30 DEF SnapshotInv, CommittedIsComplete, FilesAreListed,
     UploadsAddUp, ReleasingIsCommitted, Releasing, TargetVersion, StoreTyped,
     PcTyped, AttemptTyped, RecordPublished, Return, StoreUnchanged, Leave,
     Goto
<1>31. ASSUME NEW p \in Procs, RaiseError(p) PROVE SnapshotInv'
  BY <1>1, <1>31 DEF SnapshotInv, CommittedIsComplete, FilesAreListed,
     UploadsAddUp, ReleasingIsCommitted, Releasing, TargetVersion, StoreTyped,
     PcTyped, AttemptTyped, RaiseError, Raise, OutcomeFrame, Leave, Goto
<1>32. ASSUME NEW p \in Procs, Crash(p) PROVE SnapshotInv'
  BY <1>1, <1>32 DEF SnapshotInv, CommittedIsComplete, FilesAreListed,
     UploadsAddUp, ReleasingIsCommitted, Releasing, TargetVersion, StoreTyped,
     PcTyped, AttemptTyped, Crash, Leave, StoreUnchanged, Goto
<1>33. ASSUME NEW p \in Procs, FailedRequest(p) PROVE SnapshotInv'
  BY <1>1, <1>33 DEF SnapshotInv, CommittedIsComplete, FilesAreListed,
     UploadsAddUp, ReleasingIsCommitted, Releasing, TargetVersion, StoreTyped,
     PcTyped, AttemptTyped, FailedRequest, FallbackLabels, Raise,
     StoreUnchanged, Leave, Goto
<1>34. ASSUME NEW p \in Procs, SourceDrift(p) PROVE SnapshotInv'
  BY <1>1, <1>34 DEF SnapshotInv, CommittedIsComplete, FilesAreListed,
     UploadsAddUp, ReleasingIsCommitted, Releasing, TargetVersion, StoreTyped,
     PcTyped, AttemptTyped, SourceDrift, Raise, OutcomeFrame, Leave, Goto
<1>35. ASSUME NEW p \in Procs, RefResponseLost(p) PROVE SnapshotInv'
  BY <1>1, <1>35 DEF SnapshotInv, CommittedIsComplete, FilesAreListed,
     UploadsAddUp, ReleasingIsCommitted, Releasing, TargetVersion, StoreTyped,
     PcTyped, AttemptTyped, RefResponseLost, Goto, workVars
<1>36. ASSUME NEW i \in Identities, ChangeSource(i) PROVE SnapshotInv'
  BY <1>1, <1>36 DEF SnapshotInv, CommittedIsComplete, FilesAreListed,
     UploadsAddUp, ReleasingIsCommitted, Releasing, TargetVersion, StoreTyped,
     PcTyped, AttemptTyped, ChangeSource, rootVars, tokenVars, workVars
<1>37. CASE Tick
  BY <1>1, <1>37 DEF SnapshotInv, CommittedIsComplete, FilesAreListed,
     UploadsAddUp, ReleasingIsCommitted, Releasing, TargetVersion, StoreTyped,
     PcTyped, AttemptTyped, Tick, tokenVars
<1>38. CASE UNCHANGED vars
  BY <1>1, <1>38 DEF SnapshotInv, CommittedIsComplete, FilesAreListed,
     UploadsAddUp, ReleasingIsCommitted, Releasing, TargetVersion, StoreTyped,
     PcTyped, AttemptTyped, vars, rootVars, tokenVars, workVars
<1> QED
  BY <1>2, <1>3, <1>4, <1>5, <1>6, <1>7, <1>8, <1>9, <1>10, <1>11, <1>12,
     <1>13, <1>14, <1>15, <1>16, <1>17, <1>18, <1>19, <1>20, <1>21, <1>22,
     <1>23, <1>24, <1>25, <1>26, <1>27, <1>28, <1>29, <1>30, <1>31, <1>32,
     <1>33, <1>34, <1>35, <1>36, <1>37, <1>38 DEF Next, Refresh, Explicit,
     Publish, Fault

-----------------------------------------------------------------------------
(* A step confirms a source only when its snapshot is committed. *)
LEMMA ConfirmedStep ==
  ASSUME TypeInv, SnapshotInv, ConfirmedIsPublished, [Next]_vars
  PROVE  ConfirmedIsPublished'
<1>1. StoreTyped /\ PcTyped /\ AttemptTyped /\ RestTyped /\ Prepared
  BY TypeParts
<1> USE <1>1 DEF SnapshotInv, ConfirmedIsPublished, ReleasingIsCommitted,
   Releasing, TargetVersion, RestTyped
<1>2. ASSUME NEW r \in Replicas, BeginRefresh(r) PROVE ConfirmedIsPublished'
  BY <1>2, ReplicasAreProcs DEF BeginRefresh, rootVars, memoryVars
<1>3. ASSUME NEW r \in Replicas, PrepareSource(r) PROVE ConfirmedIsPublished'
  BY <1>3, ReplicasAreProcs DEF PrepareSource, rootVars, memoryVars
<1>4. ASSUME NEW r \in Replicas, EnsureCandidateMatches(r) PROVE ConfirmedIsPublished'
  BY <1>4, ReplicasAreProcs DEF EnsureCandidateMatches, rootVars, memoryVars
<1>5. ASSUME NEW r \in Replicas, ConfirmedFastPath(r) PROVE ConfirmedIsPublished'
  BY <1>5, ReplicasAreProcs DEF ConfirmedFastPath, AlreadyReleased,
     OutcomeFrame, rootVars, memoryVars, SnapshotExists
<1>6. ASSUME NEW r \in Replicas, LockCandidate(r) PROVE ConfirmedIsPublished'
  BY <1>6, ReplicasAreProcs DEF LockCandidate, StoreUnchanged, memoryVars
<1>7. ASSUME NEW r \in Replicas, ReadCandidate(r) PROVE ConfirmedIsPublished'
  BY <1>7, ReplicasAreProcs DEF ReadCandidate, OutcomeFrame, memoryVars
<1>8. ASSUME NEW r \in Replicas, ConfirmCandidate(r) PROVE ConfirmedIsPublished'
  BY <1>8, ReplicasAreProcs DEF ConfirmCandidate, OutcomeFrame, memoryVars
<1>9. ASSUME NEW r \in Replicas, WriteCandidate(r) PROVE ConfirmedIsPublished'
  BY <1>9, ReplicasAreProcs DEF WriteCandidate, memoryVars
<1>10. ASSUME NEW r \in Replicas, RereadCandidate(r) PROVE ConfirmedIsPublished'
  BY <1>10, ReplicasAreProcs DEF RereadCandidate, OutcomeFrame, memoryVars
<1>11. ASSUME NEW r \in Replicas, CheckReady(r) PROVE ConfirmedIsPublished'
  BY <1>11, ReplicasAreProcs DEF CheckReady, OutcomeFrame, memoryVars
<1>12. ASSUME NEW r \in Replicas, BuildManifest(r) PROVE ConfirmedIsPublished'
  BY <1>12, ReplicasAreProcs DEF BuildManifest, memoryVars, AlreadyReleased,
     StoreUnchanged, SnapshotExists
<1>13. ASSUME NEW r \in Replicas, RecheckCandidate(r) PROVE ConfirmedIsPublished'
  BY <1>13, ReplicasAreProcs DEF RecheckCandidate, OutcomeFrame, memoryVars
<1>14. ASSUME NEW r \in Replicas, RecheckElapsed(r) PROVE ConfirmedIsPublished'
  BY <1>14, ReplicasAreProcs DEF RecheckElapsed, OutcomeFrame, memoryVars
<1>15. ASSUME NEW r \in Replicas, FollowWinner(r) PROVE ConfirmedIsPublished'
  BY <1>15, ReplicasAreProcs DEF FollowWinner, FallBack, EndRefresh,
     StoreUnchanged, memoryVars
<1>16. ASSUME NEW r \in Replicas, KeepCurrent(r) PROVE ConfirmedIsPublished'
  BY <1>16, ReplicasAreProcs DEF KeepCurrent, FallBack, EndRefresh,
     StoreUnchanged, memoryVars
<1>17. ASSUME NEW r \in Replicas, Serve(r) PROVE ConfirmedIsPublished'
  BY <1>17, ReplicasAreProcs DEF Serve, EndRefresh, StoreUnchanged
<1>18. ASSUME NEW r \in Replicas, CandResponseLost(r) PROVE ConfirmedIsPublished'
  BY <1>18, ReplicasAreProcs DEF CandResponseLost, memoryVars
<1>19. ASSUME NEW r \in Replicas, FailedRefresh(r) PROVE ConfirmedIsPublished'
  BY <1>19, ReplicasAreProcs DEF FailedRefresh, FallbackLabels, EndRefresh,
     StoreUnchanged, memoryVars
<1>20. ASSUME NEW p \in Publishers, StartExplicit(p) PROVE ConfirmedIsPublished'
  BY <1>20, ConstantFacts DEF StartExplicit, rootVars, memoryVars
<1>21. ASSUME NEW p \in Publishers, CheckExpected(p) PROVE ConfirmedIsPublished'
  BY <1>21, ConstantFacts DEF CheckExpected, OutcomeFrame, memoryVars
<1>22. ASSUME NEW p \in Procs, LockPublish(p) PROVE ConfirmedIsPublished'
  BY <1>22 DEF LockPublish, StoreUnchanged, memoryVars
<1>23. ASSUME NEW p \in Procs, ReadLatest(p) PROVE ConfirmedIsPublished'
  BY <1>23 DEF ReadLatest, memoryVars, AlreadyReleased, StoreUnchanged,
     SnapshotExists
<1>24. ASSUME NEW p \in Procs, CheckSnapshot(p) PROVE ConfirmedIsPublished'
  BY <1>24 DEF CheckSnapshot, SnapshotExists, rootVars, memoryVars
<1>25. ASSUME NEW p \in Procs, UploadFile(p) PROVE ConfirmedIsPublished'
  BY <1>25 DEF UploadFile, memoryVars
<1>26. ASSUME NEW p \in Procs, FinishSnapshot(p) PROVE ConfirmedIsPublished'
  BY <1>26 DEF FinishSnapshot, CommitSnapshot, memoryVars
<1>27. ASSUME NEW p \in Procs, ConfirmSource(p) PROVE ConfirmedIsPublished'
  BY <1>27 DEF ConfirmSource, OutcomeFrame, memoryVars
<1>28. ASSUME NEW p \in Procs, WriteRef(p) PROVE ConfirmedIsPublished'
  BY <1>28 DEF WriteRef, memoryVars
<1>29. ASSUME NEW p \in Procs, ResolveConflict(p) PROVE ConfirmedIsPublished'
  BY <1>29 DEF ResolveConflict, OutcomeFrame, memoryVars
<1>30. ASSUME NEW p \in Procs, RecordPublished(p) PROVE ConfirmedIsPublished'
  BY <1>30 DEF RecordPublished, StoreUnchanged
<1>31. ASSUME NEW p \in Procs, RaiseError(p) PROVE ConfirmedIsPublished'
  BY <1>31 DEF RaiseError, OutcomeFrame, memoryVars
<1>32. ASSUME NEW p \in Procs, Crash(p) PROVE ConfirmedIsPublished'
  BY <1>32 DEF Crash, memoryVars, StoreUnchanged
<1>33. ASSUME NEW p \in Procs, FailedRequest(p) PROVE ConfirmedIsPublished'
  BY <1>33 DEF FailedRequest, FallbackLabels, StoreUnchanged, memoryVars
<1>34. ASSUME NEW p \in Procs, SourceDrift(p) PROVE ConfirmedIsPublished'
  BY <1>34 DEF SourceDrift, OutcomeFrame, memoryVars
<1>35. ASSUME NEW p \in Procs, RefResponseLost(p) PROVE ConfirmedIsPublished'
  BY <1>35 DEF RefResponseLost, memoryVars
<1>36. ASSUME NEW i \in Identities, ChangeSource(i) PROVE ConfirmedIsPublished'
  BY <1>36 DEF ChangeSource, rootVars, memoryVars
<1>37. CASE Tick
  BY <1>37 DEF Tick, memoryVars
<1>38. CASE UNCHANGED vars
  BY <1>38 DEF vars, rootVars, memoryVars
<1> QED
  BY <1>2, <1>3, <1>4, <1>5, <1>6, <1>7, <1>8, <1>9, <1>10, <1>11, <1>12,
     <1>13, <1>14, <1>15, <1>16, <1>17, <1>18, <1>19, <1>20, <1>21, <1>22,
     <1>23, <1>24, <1>25, <1>26, <1>27, <1>28, <1>29, <1>30, <1>31, <1>32,
     <1>33, <1>34, <1>35, <1>36, <1>37, <1>38 DEF Next, Refresh, Explicit,
     Publish, Fault

-----------------------------------------------------------------------------
(* Releases.  The reference, and everything a refresh may still serve, is  *)
(* committed; a refresh in progress has seen every current release.        *)

WindowInv ==
  /\ ref # NoRef => ref.version \in committed
  /\ \A r \in Replicas :
       /\ \A new \in window[r] : new.version \in committed
       /\ pc[r] = "idle" => window[r] = {}
       /\ pc[r] # "idle" => {cur[r], ref} \ {NoRef} \subseteq window[r]
       /\ pc[r] = "serve" => cur[r] # NoRef

(* A process in the middle of a refresh that neither changes the reference *)
(* nor ends the refresh keeps WindowInv.                                   *)
LEMMA WindowFrame ==
  ASSUME WindowInv, PcTyped, AttemptTyped, UNCHANGED <<ref, committed, window>>,
         NEW p \in Procs, pc[p] # "idle",
         pc' = [pc EXCEPT ![p] = pc'[p]], cur' = [cur EXCEPT ![p] = cur'[p]],
         p \in Replicas => /\ pc'[p] # "idle"
                           /\ cur'[p] \in {cur[p], ref}
                           /\ pc'[p] = "serve" => cur'[p] # NoRef
  PROVE  WindowInv'
BY ReplicasAreProcs DEF WindowInv, PcTyped, AttemptTyped

(* An attempt that raises falls back within the refresh. *)
LEMMA RaiseWindow ==
  ASSUME WindowInv, PcTyped, AttemptTyped, UNCHANGED <<ref, committed, window>>,
         NEW p \in Procs, pc[p] # "idle", Raise(p)
  PROVE  WindowInv'
BY WindowFrame DEF Raise, Leave, Goto, PcTyped, AttemptTyped

(* An attempt that returns a release lets the refresh serve it. *)
LEMMA ReturnWindow ==
  ASSUME WindowInv, PcTyped, AttemptTyped, UNCHANGED <<ref, committed, window>>,
         NEW p \in Procs, pc[p] # "idle",
         NEW release \in {cur[p], ref}, release # NoRef, Return(p, release)
  PROVE  WindowInv'
BY WindowFrame DEF Return, Leave, Goto, PcTyped, AttemptTyped

(* A release that needs no publication is a release. *)
LEMMA AlreadyReleasedIsRelease ==
  ASSUME Prepared, NEW p \in Procs, pc[p] \notin Unprepared,
         NEW old, AlreadyReleased(p, old)
  PROVE  old # NoRef
BY ConstantFacts, NoneAssumption DEF Prepared, AlreadyReleased, Target

(* A release becomes current, and every refresh in progress sees it. *)
LEMMA WindowShows ==
  ASSUME WindowInv, PcTyped, AttemptTyped, RestTyped, UNCHANGED <<committed, cur>>,
         NEW p \in Procs, pc[p] # "idle", NEW label, label # "serve",
         label # "idle", Goto(p, label),
         NEW new \in Refs, new.version \in committed, ref' = new, ShowRelease(new)
  PROVE  WindowInv'
BY ReplicasAreProcs
   DEF WindowInv, PcTyped, AttemptTyped, RestTyped, Goto, ShowRelease

(* A replica that has published saw its own release become current. *)
PublishedInv ==
  \A r \in Replicas : pc[r] = "published" => Target(r) \in window[r]

(* Only a write, or a lost race won by the same bytes, publishes. *)
LEMMA PublishedStep ==
  ASSUME TypeInv, WindowInv, PublishedInv, [Next]_vars
  PROVE  PublishedInv'
<1>1. StoreTyped /\ PcTyped /\ AttemptTyped /\ RestTyped /\ Prepared
  BY TypeParts
<1> USE <1>1, ReplicasAreProcs DEF PublishedInv, Target, PcTyped, RestTyped,
   AttemptTyped
<1>2. ASSUME NEW r \in Replicas, BeginRefresh(r) PROVE PublishedInv'
  BY <1>2 DEF BeginRefresh, Goto, rootVars
<1>3. ASSUME NEW r \in Replicas, PrepareSource(r) PROVE PublishedInv'
  BY <1>3 DEF PrepareSource, Goto, rootVars, tokenVars
<1>4. ASSUME NEW r \in Replicas, EnsureCandidateMatches(r) PROVE PublishedInv'
  BY <1>4 DEF EnsureCandidateMatches, Goto, rootVars, tokenVars, workVars
<1>5. ASSUME NEW r \in Replicas, ConfirmedFastPath(r) PROVE PublishedInv'
  BY <1>5 DEF ConfirmedFastPath, Return, OutcomeFrame, Goto, rootVars,
     tokenVars, workVars, Leave
<1>6. ASSUME NEW r \in Replicas, LockCandidate(r) PROVE PublishedInv'
  BY <1>6 DEF LockCandidate, Goto, StoreUnchanged, tokenVars, workVars
<1>7. ASSUME NEW r \in Replicas, ReadCandidate(r) PROVE PublishedInv'
  BY <1>7 DEF ReadCandidate, Synchronized, tokenVars, Raise, Goto, workVars,
     OutcomeFrame, Leave
<1>8. ASSUME NEW r \in Replicas, ConfirmCandidate(r) PROVE PublishedInv'
  BY <1>8 DEF ConfirmCandidate, Goto, tokenVars, workVars, Raise, OutcomeFrame,
     Leave
<1>9. ASSUME NEW r \in Replicas, WriteCandidate(r) PROVE PublishedInv'
  BY <1>9 DEF WriteCandidate, Synchronized, Goto
<1>10. ASSUME NEW r \in Replicas, RereadCandidate(r) PROVE PublishedInv'
  BY <1>10 DEF RereadCandidate, Synchronized, tokenVars, Raise, OutcomeFrame,
     Goto, Leave
<1>11. ASSUME NEW r \in Replicas, CheckReady(r) PROVE PublishedInv'
  BY <1>11 DEF CheckReady, Goto, tokenVars, Raise, Return, OutcomeFrame, Leave
<1>12. ASSUME NEW r \in Replicas, BuildManifest(r) PROVE PublishedInv'
  BY <1>12 DEF BuildManifest, Raise, Return, Goto, tokenVars, workVars,
     StoreUnchanged, Leave
<1>13. ASSUME NEW r \in Replicas, RecheckCandidate(r) PROVE PublishedInv'
  BY <1>13 DEF RecheckCandidate, Goto, tokenVars, Raise, OutcomeFrame, Leave
<1>14. ASSUME NEW r \in Replicas, RecheckElapsed(r) PROVE PublishedInv'
  BY <1>14 DEF RecheckElapsed, Goto, tokenVars, Raise, OutcomeFrame, Leave
<1>15. ASSUME NEW r \in Replicas, FollowWinner(r) PROVE PublishedInv'
  BY <1>15 DEF FollowWinner, FallBack, Leave, EndRefresh, StoreUnchanged, Goto
<1>16. ASSUME NEW r \in Replicas, KeepCurrent(r) PROVE PublishedInv'
  BY <1>16 DEF KeepCurrent, FallBack, Leave, EndRefresh, StoreUnchanged, Goto
<1>17. ASSUME NEW r \in Replicas, Serve(r) PROVE PublishedInv'
  BY <1>17 DEF Serve, EndRefresh, StoreUnchanged, Leave, Goto
<1>18. ASSUME NEW r \in Replicas, CandResponseLost(r) PROVE PublishedInv'
  BY <1>18 DEF CandResponseLost, Goto
<1>19. ASSUME NEW r \in Replicas, FailedRefresh(r) PROVE PublishedInv'
  BY <1>19 DEF FailedRefresh, EndRefresh, StoreUnchanged, Leave, Goto
<1>20. ASSUME NEW p \in Publishers, StartExplicit(p) PROVE PublishedInv'
  BY <1>20, ConstantFacts DEF StartExplicit, Goto, rootVars, tokenVars
<1>21. ASSUME NEW p \in Publishers, CheckExpected(p) PROVE PublishedInv'
  BY <1>21, ConstantFacts DEF CheckExpected, Goto, workVars, Raise,
     OutcomeFrame, Leave
<1>22. ASSUME NEW p \in Procs, LockPublish(p) PROVE PublishedInv'
  BY <1>22 DEF LockPublish, Goto, StoreUnchanged, tokenVars, workVars
<1>23. ASSUME NEW p \in Procs, ReadLatest(p) PROVE PublishedInv'
  BY <1>23 DEF ReadLatest, Raise, Return, Goto, workVars, StoreUnchanged, Leave
<1>24. ASSUME NEW p \in Procs, CheckSnapshot(p) PROVE PublishedInv'
  BY <1>24 DEF CheckSnapshot, Goto, rootVars, tokenVars
<1>25. ASSUME NEW p \in Procs, UploadFile(p) PROVE PublishedInv'
  BY <1>25 DEF UploadFile, tokenVars
<1>26. ASSUME NEW p \in Procs, FinishSnapshot(p) PROVE PublishedInv'
  BY <1>26 DEF FinishSnapshot, Goto, tokenVars, workVars
<1>27. ASSUME NEW p \in Procs, ConfirmSource(p) PROVE PublishedInv'
  BY <1>27 DEF ConfirmSource, Goto, tokenVars, workVars, Raise, OutcomeFrame,
     Leave
<1>28. ASSUME NEW p \in Procs, WriteRef(p) PROVE PublishedInv'
  BY <1>28 DEF WriteRef, ShowRelease, Goto, workVars
<1>29. ASSUME NEW p \in Procs, ResolveConflict(p) PROVE PublishedInv'
  <2>1. ref = Target(p) => ref # NoRef
    BY <1>1, <1>29, ConstantFacts, NoneAssumption
       DEF ResolveConflict, Target, Prepared, Unprepared, FallbackLabels
  <2>2. p \in Replicas /\ ref = Target(p) => Target(p) \in window[p]
    BY <1>29, <2>1 DEF ResolveConflict, WindowInv
  <2> QED
    BY <1>1, <1>29, <2>2, ReplicasAreProcs
       DEF ResolveConflict, PublishedInv, Target, PcTyped, AttemptTyped, OutcomeFrame,
           Goto, workVars, Leave
<1>30. ASSUME NEW p \in Procs, RecordPublished(p) PROVE PublishedInv'
  BY <1>30 DEF RecordPublished, Return, StoreUnchanged, Leave, Goto
<1>31. ASSUME NEW p \in Procs, RaiseError(p) PROVE PublishedInv'
  BY <1>31 DEF RaiseError, Raise, OutcomeFrame, Leave, Goto
<1>32. ASSUME NEW p \in Procs, Crash(p) PROVE PublishedInv'
  BY <1>32 DEF Crash, Leave, StoreUnchanged, Goto
<1>33. ASSUME NEW p \in Procs, FailedRequest(p) PROVE PublishedInv'
  BY <1>33 DEF FailedRequest, Raise, StoreUnchanged, Leave, Goto
<1>34. ASSUME NEW p \in Procs, SourceDrift(p) PROVE PublishedInv'
  BY <1>34 DEF SourceDrift, Raise, OutcomeFrame, Leave, Goto
<1>35. ASSUME NEW p \in Procs, RefResponseLost(p) PROVE PublishedInv'
  BY <1>35 DEF RefResponseLost, ShowRelease, Goto, workVars
<1>36. ASSUME NEW i \in Identities, ChangeSource(i) PROVE PublishedInv'
  BY <1>36 DEF ChangeSource, rootVars, tokenVars, workVars
<1>37. CASE Tick
  BY <1>37 DEF Tick, tokenVars
<1>38. CASE UNCHANGED vars
  BY <1>38 DEF vars, rootVars, tokenVars, workVars
<1> QED
  BY <1>2, <1>3, <1>4, <1>5, <1>6, <1>7, <1>8, <1>9, <1>10, <1>11, <1>12,
     <1>13, <1>14, <1>15, <1>16, <1>17, <1>18, <1>19, <1>20, <1>21, <1>22,
     <1>23, <1>24, <1>25, <1>26, <1>27, <1>28, <1>29, <1>30, <1>31, <1>32,
     <1>33, <1>34, <1>35, <1>36, <1>37, <1>38 DEF Next, Refresh, Explicit,
     Publish, Fault

(* Every step keeps what a refresh may serve committed and current. *)
LEMMA WindowStep ==
  ASSUME TypeInv, SnapshotInv, PublishedInv, WindowInv, [Next]_vars
  PROVE  WindowInv'
<1>1. StoreTyped /\ PcTyped /\ AttemptTyped /\ RestTyped /\ Prepared
  BY TypeParts
<1>2. ASSUME NEW r \in Replicas, BeginRefresh(r) PROVE WindowInv'
  BY <1>1, <1>2, ReplicasAreProcs DEF WindowInv, StoreTyped, PcTyped,
     RestTyped, AttemptTyped, BeginRefresh, Goto, rootVars
<1>3. ASSUME NEW r \in Replicas, PrepareSource(r) PROVE WindowInv'
  BY <1>1, <1>3, ReplicasAreProcs DEF WindowInv, StoreTyped, PcTyped,
     RestTyped, AttemptTyped, PrepareSource, Goto, rootVars, tokenVars
<1>4. ASSUME NEW r \in Replicas, EnsureCandidateMatches(r) PROVE WindowInv'
  BY <1>1, <1>4, ReplicasAreProcs DEF WindowInv, StoreTyped, PcTyped,
     RestTyped, AttemptTyped, EnsureCandidateMatches, Goto, rootVars,
     tokenVars, workVars
<1>5. ASSUME NEW r \in Replicas, ConfirmedFastPath(r) PROVE WindowInv'
  <2>1. pc[r] # "idle" /\ r \in Procs /\ UNCHANGED <<ref, committed, window>>
    BY <1>5, ConstantFacts DEF ConfirmedFastPath, OutcomeFrame, rootVars
  <2>2. AlreadyReleased(r, cur[r]) => cur[r] # NoRef
    BY <1>1, <1>5, <2>1, AlreadyReleasedIsRelease
       DEF ConfirmedFastPath, Unprepared, FallbackLabels
  <2>3. CASE Return(r, cur[r]) /\ AlreadyReleased(r, cur[r])
    BY <1>1, <2>1, <2>2, <2>3, ReturnWindow
  <2>4. CASE Goto(r, "build") /\ UNCHANGED workVars
    BY <1>1, <2>1, <2>4, WindowFrame DEF Goto, workVars, PcTyped, AttemptTyped
  <2> QED
    BY <1>5, <2>3, <2>4 DEF ConfirmedFastPath
<1>6. ASSUME NEW r \in Replicas, LockCandidate(r) PROVE WindowInv'
  BY <1>1, <1>6, ReplicasAreProcs DEF WindowInv, StoreTyped, PcTyped,
     RestTyped, AttemptTyped, LockCandidate, Goto, StoreUnchanged, tokenVars,
     workVars
<1>7. ASSUME NEW r \in Replicas, ReadCandidate(r) PROVE WindowInv'
  BY <1>1, <1>7, ReplicasAreProcs DEF WindowInv, StoreTyped, PcTyped,
     RestTyped, AttemptTyped, ReadCandidate, Synchronized, tokenVars, Raise,
     Goto, workVars, OutcomeFrame, Leave
<1>8. ASSUME NEW r \in Replicas, ConfirmCandidate(r) PROVE WindowInv'
  BY <1>1, <1>8, ReplicasAreProcs DEF WindowInv, StoreTyped, PcTyped,
     RestTyped, AttemptTyped, ConfirmCandidate, Goto, tokenVars, workVars,
     Raise, OutcomeFrame, Leave
<1>9. ASSUME NEW r \in Replicas, WriteCandidate(r) PROVE WindowInv'
  BY <1>1, <1>9, ReplicasAreProcs DEF WindowInv, StoreTyped, PcTyped,
     RestTyped, AttemptTyped, WriteCandidate, Synchronized, Goto
<1>10. ASSUME NEW r \in Replicas, RereadCandidate(r) PROVE WindowInv'
  BY <1>1, <1>10, ReplicasAreProcs DEF WindowInv, StoreTyped, PcTyped,
     RestTyped, AttemptTyped, RereadCandidate, Synchronized, tokenVars, Raise,
     OutcomeFrame, Goto, Leave
<1>11. ASSUME NEW r \in Replicas, CheckReady(r) PROVE WindowInv'
  BY <1>1, <1>11, ReplicasAreProcs DEF WindowInv, StoreTyped, PcTyped,
     RestTyped, AttemptTyped, CheckReady, Goto, tokenVars, Raise, Return,
     OutcomeFrame, Leave
<1>12. ASSUME NEW r \in Replicas, BuildManifest(r) PROVE WindowInv'
  <2>1. pc[r] # "idle" /\ r \in Procs /\ UNCHANGED <<ref, committed, window>>
    BY <1>12, ConstantFacts DEF BuildManifest, StoreUnchanged
  <2>2. AlreadyReleased(r, cur[r]) => cur[r] # NoRef
    BY <1>1, <1>12, <2>1, AlreadyReleasedIsRelease
       DEF BuildManifest, Unprepared, FallbackLabels
  <2>3. CASE Raise(r)
    BY <1>1, <2>1, <2>3, RaiseWindow
  <2>4. CASE Return(r, cur[r]) /\ AlreadyReleased(r, cur[r])
    BY <1>1, <2>1, <2>2, <2>4, ReturnWindow
  <2>5. CASE Goto(r, "lockPublish") /\ UNCHANGED workVars
    BY <1>1, <2>1, <2>5, WindowFrame DEF Goto, workVars, PcTyped, AttemptTyped
  <2> QED
    BY <1>12, <2>3, <2>4, <2>5 DEF BuildManifest
<1>13. ASSUME NEW r \in Replicas, RecheckCandidate(r) PROVE WindowInv'
  BY <1>1, <1>13, ReplicasAreProcs DEF WindowInv, StoreTyped, PcTyped,
     RestTyped, AttemptTyped, RecheckCandidate, Goto, tokenVars, Raise,
     OutcomeFrame, Leave
<1>14. ASSUME NEW r \in Replicas, RecheckElapsed(r) PROVE WindowInv'
  BY <1>1, <1>14, ReplicasAreProcs DEF WindowInv, StoreTyped, PcTyped,
     RestTyped, AttemptTyped, RecheckElapsed, Goto, tokenVars, Raise,
     OutcomeFrame, Leave
<1>15. ASSUME NEW r \in Replicas, FollowWinner(r) PROVE WindowInv'
  BY <1>1, <1>15, ReplicasAreProcs DEF WindowInv, StoreTyped, PcTyped,
     RestTyped, AttemptTyped, FollowWinner, FallBack, WinningRelease, Leave,
     EndRefresh, StoreUnchanged, Goto
<1>16. ASSUME NEW r \in Replicas, KeepCurrent(r) PROVE WindowInv'
  BY <1>1, <1>16, ReplicasAreProcs DEF WindowInv, StoreTyped, PcTyped,
     RestTyped, AttemptTyped, KeepCurrent, FallBack, KeptRelease, Leave,
     EndRefresh, StoreUnchanged, Goto
<1>17. ASSUME NEW r \in Replicas, Serve(r) PROVE WindowInv'
  BY <1>1, <1>17, ReplicasAreProcs DEF WindowInv, StoreTyped, PcTyped,
     RestTyped, AttemptTyped, Serve, EndRefresh,
     StoreUnchanged, Leave, Goto
<1>18. ASSUME NEW r \in Replicas, CandResponseLost(r) PROVE WindowInv'
  BY <1>1, <1>18, ReplicasAreProcs DEF WindowInv, StoreTyped, PcTyped,
     RestTyped, AttemptTyped, CandResponseLost, Goto
<1>19. ASSUME NEW r \in Replicas, FailedRefresh(r) PROVE WindowInv'
  BY <1>1, <1>19, ReplicasAreProcs DEF WindowInv, StoreTyped, PcTyped,
     RestTyped, AttemptTyped, FailedRefresh, FallbackLabels, EndRefresh,
     StoreUnchanged, Leave, Goto
<1>20. ASSUME NEW p \in Publishers, StartExplicit(p) PROVE WindowInv'
  <2>1. p \notin Replicas
    BY ProcessAssumption
  <2> QED
    BY <1>1, <1>20, <2>1, ConstantFacts
       DEF StartExplicit, WindowInv, Goto, rootVars, PcTyped
<1>21. ASSUME NEW p \in Publishers, CheckExpected(p) PROVE WindowInv'
  BY <1>1, <1>21, ReplicasAreProcs, ConstantFacts DEF WindowInv, StoreTyped,
     PcTyped, RestTyped, AttemptTyped, CheckExpected, Goto, workVars, Raise,
     OutcomeFrame, Leave
<1>22. ASSUME NEW p \in Procs, LockPublish(p) PROVE WindowInv'
  BY <1>1, <1>22, ReplicasAreProcs DEF WindowInv, StoreTyped, PcTyped,
     RestTyped, AttemptTyped, LockPublish, Goto, StoreUnchanged, tokenVars,
     workVars
<1>23. ASSUME NEW p \in Procs, ReadLatest(p) PROVE WindowInv'
  <2>1. pc[p] # "idle" /\ UNCHANGED <<ref, committed, window>>
    BY <1>23 DEF ReadLatest, StoreUnchanged
  <2>2. AlreadyReleased(p, ref) => ref # NoRef
    BY <1>1, <1>23, AlreadyReleasedIsRelease
       DEF ReadLatest, Unprepared, FallbackLabels
  <2>3. CASE Raise(p)
    BY <1>1, <2>1, <2>3, RaiseWindow
  <2>4. CASE Return(p, ref) /\ AlreadyReleased(p, ref)
    BY <1>1, <2>1, <2>2, <2>4, ReturnWindow
  <2>5. CASE Goto(p, "snapshot") /\ UNCHANGED workVars
    BY <1>1, <2>1, <2>5, WindowFrame DEF Goto, workVars, PcTyped, AttemptTyped
  <2> QED
    BY <1>23, <2>3, <2>4, <2>5 DEF ReadLatest
<1>24. ASSUME NEW p \in Procs, CheckSnapshot(p) PROVE WindowInv'
  <2>1. pc[p] # "idle" /\ UNCHANGED <<ref, committed, window, cur>>
    BY <1>24 DEF CheckSnapshot, rootVars
  <2>2. CASE Goto(p, "confirm")
    BY <1>1, <2>1, <2>2, WindowFrame DEF Goto, PcTyped, AttemptTyped
  <2>3. CASE Goto(p, "upload")
    BY <1>1, <2>1, <2>3, WindowFrame DEF Goto, PcTyped, AttemptTyped
  <2> QED
    BY <1>24, <2>2, <2>3 DEF CheckSnapshot
<1>25. ASSUME NEW p \in Procs, UploadFile(p) PROVE WindowInv'
  BY <1>1, <1>25, ReplicasAreProcs DEF WindowInv, StoreTyped, PcTyped,
     RestTyped, AttemptTyped, UploadFile, TargetVersion, tokenVars
<1>26. ASSUME NEW p \in Procs, FinishSnapshot(p) PROVE WindowInv'
  BY <1>1, <1>26, ReplicasAreProcs DEF WindowInv, StoreTyped, PcTyped,
     RestTyped, AttemptTyped, FinishSnapshot, Uploaded, CommitSnapshot,
     TargetVersion, Goto, tokenVars, workVars
<1>27. ASSUME NEW p \in Procs, ConfirmSource(p) PROVE WindowInv'
  <2>1. pc[p] # "idle" /\ UNCHANGED <<ref, committed, window>>
    BY <1>27 DEF ConfirmSource, OutcomeFrame
  <2>2. CASE Raise(p)
    BY <1>1, <2>1, <2>2, RaiseWindow
  <2>3. CASE Goto(p, "putRef") /\ UNCHANGED workVars
    BY <1>1, <2>1, <2>3, WindowFrame DEF Goto, workVars, PcTyped, AttemptTyped
  <2> QED
    BY <1>27, <2>2, <2>3 DEF ConfirmSource
<1>28. ASSUME NEW p \in Procs, WriteRef(p) PROVE WindowInv'
  <2>1. Target(p) \in Refs /\ Target(p).version \in committed
    BY <1>1, <1>28, ConstantFacts
       DEF WriteRef, SnapshotInv, ReleasingIsCommitted, Releasing, Target, RefFor,
           TargetVersion, Prepared, Unprepared, FallbackLabels
  <2>2. CASE ref' = Target(p) /\ ShowRelease(Target(p)) /\ Goto(p, "published")
    BY <1>1, <1>28, <2>1, <2>2, WindowShows DEF WriteRef, workVars
  <2>3. CASE UNCHANGED <<ref, window>> /\ Goto(p, "refConflict")
    BY <1>1, <1>28, <2>3, WindowFrame
       DEF WriteRef, Goto, workVars, PcTyped, AttemptTyped
  <2> QED
    BY <1>28, <2>2, <2>3 DEF WriteRef, PutRef
<1>29. ASSUME NEW p \in Procs, ResolveConflict(p) PROVE WindowInv'
  <2>1. pc[p] = "refConflict" /\ UNCHANGED <<ref, committed, window>>
    BY <1>29 DEF ResolveConflict, OutcomeFrame
  <2>2. CASE Goto(p, "published") /\ UNCHANGED workVars
    BY <1>1, <2>1, <2>2, WindowFrame DEF Goto, workVars, PcTyped, AttemptTyped
  <2>3. CASE p \in Replicas /\ Leave(p, "followWinner", cur[p])
    BY <1>1, <2>1, <2>3, WindowFrame DEF Leave, Goto, PcTyped, AttemptTyped
  <2>4. CASE p \notin Replicas /\ Leave(p, "idle", NoRef)
    BY <1>1, <2>1, <2>4, WindowFrame DEF Leave, Goto, PcTyped, AttemptTyped
  <2> QED
    BY <1>29, <2>2, <2>3, <2>4 DEF ResolveConflict
<1>30. ASSUME NEW p \in Procs, RecordPublished(p) PROVE WindowInv'
  <2>1. pc[p] = "published" /\ UNCHANGED <<ref, committed, window>>
        /\ Return(p, Target(p))
    BY <1>30 DEF RecordPublished, StoreUnchanged
  <2>2. Target(p) \in Refs /\ Target(p) # NoRef
    BY <1>1, <2>1, ConstantFacts, NoneAssumption
       DEF Target, Prepared, Unprepared, FallbackLabels
  <2>3. p \in Replicas => Target(p) \in window[p]
    BY <2>1 DEF PublishedInv
  <2> QED
    BY <1>1, <2>1, <2>2, <2>3, ReplicasAreProcs
       DEF WindowInv, Return, Leave, Goto, PcTyped, AttemptTyped
<1>31. ASSUME NEW p \in Procs, RaiseError(p) PROVE WindowInv'
  <2>1. pc[p] # "idle" /\ UNCHANGED <<ref, committed, window>> /\ Raise(p)
    BY <1>31 DEF RaiseError, OutcomeFrame
  <2> QED
    BY <1>1, <2>1, RaiseWindow
<1>32. ASSUME NEW p \in Procs, Crash(p) PROVE WindowInv'
  BY <1>1, <1>32, ReplicasAreProcs DEF WindowInv, StoreTyped, PcTyped,
     RestTyped, AttemptTyped, Crash, Leave, StoreUnchanged, Goto
<1>33. ASSUME NEW p \in Procs, FailedRequest(p) PROVE WindowInv'
  <2>1. pc[p] # "idle" /\ UNCHANGED <<ref, committed, window>> /\ Raise(p)
    BY <1>33 DEF FailedRequest, StoreUnchanged
  <2> QED
    BY <1>1, <2>1, RaiseWindow
<1>34. ASSUME NEW p \in Procs, SourceDrift(p) PROVE WindowInv'
  <2>1. pc[p] # "idle" /\ UNCHANGED <<ref, committed, window>> /\ Raise(p)
    BY <1>34 DEF SourceDrift, OutcomeFrame
  <2> QED
    BY <1>1, <2>1, RaiseWindow
<1>35. ASSUME NEW p \in Procs, RefResponseLost(p) PROVE WindowInv'
  <2>1. Target(p) \in Refs /\ Target(p).version \in committed
    BY <1>1, <1>35, ConstantFacts
       DEF RefResponseLost, SnapshotInv, ReleasingIsCommitted, Releasing, Target, RefFor,
           TargetVersion, Prepared, Unprepared, FallbackLabels
  <2>2. PICK label \in {"refConflict", "error"} : Goto(p, label)
    BY <1>35 DEF RefResponseLost
  <2> QED
    BY <1>1, <1>35, <2>1, <2>2, WindowShows DEF RefResponseLost, PutRefUnacknowledged, workVars
<1>36. ASSUME NEW i \in Identities, ChangeSource(i) PROVE WindowInv'
  BY <1>1, <1>36, ReplicasAreProcs DEF WindowInv, StoreTyped, PcTyped,
     RestTyped, AttemptTyped, ChangeSource, rootVars, tokenVars, workVars
<1>37. CASE Tick
  BY <1>1, <1>37, ReplicasAreProcs DEF WindowInv, StoreTyped, PcTyped,
     RestTyped, AttemptTyped, Tick, tokenVars
<1>38. CASE UNCHANGED vars
  BY <1>1, <1>38, ReplicasAreProcs DEF WindowInv, StoreTyped, PcTyped,
     RestTyped, AttemptTyped, vars, rootVars, tokenVars, workVars
<1> QED
  BY <1>2, <1>3, <1>4, <1>5, <1>6, <1>7, <1>8, <1>9, <1>10, <1>11, <1>12,
     <1>13, <1>14, <1>15, <1>16, <1>17, <1>18, <1>19, <1>20, <1>21, <1>22,
     <1>23, <1>24, <1>25, <1>26, <1>27, <1>28, <1>29, <1>30, <1>31, <1>32,
     <1>33, <1>34, <1>35, <1>36, <1>37, <1>38 DEF Next, Refresh, Explicit,
     Publish, Fault

-----------------------------------------------------------------------------
(* The lock.  LockProtectsReference is inductive as it stands: whoever may *)
(* write the reference of a filesystem root is the one holder of the lock. *)

(* Every step keeps the lock and its labels together. *)
LEMMA LockStep ==
  ASSUME TypeInv, LockProtectsReference, [Next]_vars
  PROVE  LockProtectsReference'
<1> SUFFICES ASSUME Locking PROVE LockProtectsReference'
  BY DEF LockProtectsReference, Locking
<1>0. Nobody \notin Procs /\ Root # "gcs"
  BY RootNoneAssumption DEF Locking
<1>1. StoreTyped /\ PcTyped /\ AttemptTyped /\ RestTyped /\ Prepared
  BY TypeParts
<1> USE <1>1, <1>0 DEF LockProtectsReference, PcTyped, AttemptTyped,
   SyncLabels, GuardedLabels
<1>2. ASSUME NEW r \in Replicas, BeginRefresh(r) PROVE LockProtectsReference'
  BY <1>2, ReplicasAreProcs DEF BeginRefresh, ReadRef, Goto, rootVars
<1>3. ASSUME NEW r \in Replicas, PrepareSource(r) PROVE LockProtectsReference'
  BY <1>3, ReplicasAreProcs DEF PrepareSource, Goto, rootVars, tokenVars
<1>4. ASSUME NEW r \in Replicas, EnsureCandidateMatches(r) PROVE LockProtectsReference'
  BY <1>4, ReplicasAreProcs DEF EnsureCandidateMatches, Goto, rootVars,
     tokenVars, workVars
<1>5. ASSUME NEW r \in Replicas, ConfirmedFastPath(r) PROVE LockProtectsReference'
  BY <1>5, ReplicasAreProcs DEF ConfirmedFastPath, Return, OutcomeFrame, Goto,
     rootVars, tokenVars, workVars, Leave, FreedGuard
<1>6. ASSUME NEW r \in Replicas, LockCandidate(r) PROVE LockProtectsReference'
  BY <1>6, ReplicasAreProcs DEF LockCandidate, AcquireGuard, Goto,
     StoreUnchanged, tokenVars, workVars
<1>7. ASSUME NEW r \in Replicas, ReadCandidate(r) PROVE LockProtectsReference'
  BY <1>7, ReplicasAreProcs DEF ReadCandidate, Synchronized, tokenVars, Raise,
     Goto, workVars, OutcomeFrame, FreedGuard, Leave
<1>8. ASSUME NEW r \in Replicas, ConfirmCandidate(r) PROVE LockProtectsReference'
  BY <1>8, ReplicasAreProcs DEF ConfirmCandidate, Goto, tokenVars, workVars,
     Raise, OutcomeFrame, Leave, FreedGuard
<1>9. ASSUME NEW r \in Replicas, WriteCandidate(r) PROVE LockProtectsReference'
  BY <1>9, ReplicasAreProcs DEF WriteCandidate, Synchronized, Goto, FreedGuard
<1>10. ASSUME NEW r \in Replicas, RereadCandidate(r) PROVE LockProtectsReference'
  BY <1>10, ReplicasAreProcs DEF RereadCandidate, Synchronized, tokenVars,
     Raise, OutcomeFrame, Goto, FreedGuard, Leave
<1>11. ASSUME NEW r \in Replicas, CheckReady(r) PROVE LockProtectsReference'
  BY <1>11, ReplicasAreProcs DEF CheckReady, Goto, FreedGuard, tokenVars,
     Raise, Return, OutcomeFrame, Leave
<1>12. ASSUME NEW r \in Replicas, BuildManifest(r) PROVE LockProtectsReference'
  BY <1>12, ReplicasAreProcs DEF BuildManifest, Raise, Return, Goto, tokenVars,
     workVars, StoreUnchanged, Leave, FreedGuard
<1>13. ASSUME NEW r \in Replicas, RecheckCandidate(r) PROVE LockProtectsReference'
  BY <1>13, ReplicasAreProcs DEF RecheckCandidate, Goto, tokenVars, Raise,
     OutcomeFrame, Leave, FreedGuard
<1>14. ASSUME NEW r \in Replicas, RecheckElapsed(r) PROVE LockProtectsReference'
  BY <1>14, ReplicasAreProcs DEF RecheckElapsed, Goto, tokenVars, Raise,
     OutcomeFrame, Leave, FreedGuard
<1>15. ASSUME NEW r \in Replicas, FollowWinner(r) PROVE LockProtectsReference'
  BY <1>15, ReplicasAreProcs DEF FollowWinner, FallBack, Leave, EndRefresh,
     StoreUnchanged, Goto, FreedGuard
<1>16. ASSUME NEW r \in Replicas, KeepCurrent(r) PROVE LockProtectsReference'
  BY <1>16, ReplicasAreProcs DEF KeepCurrent, FallBack, Leave, EndRefresh,
     StoreUnchanged, Goto, FreedGuard
<1>17. ASSUME NEW r \in Replicas, Serve(r) PROVE LockProtectsReference'
  BY <1>17, ReplicasAreProcs DEF Serve, EndRefresh, StoreUnchanged, Leave,
     Goto, FreedGuard
<1>18. ASSUME NEW r \in Replicas, CandResponseLost(r) PROVE LockProtectsReference'
  BY <1>18, ReplicasAreProcs DEF CandResponseLost, Goto
<1>19. ASSUME NEW r \in Replicas, FailedRefresh(r) PROVE LockProtectsReference'
  BY <1>19, ReplicasAreProcs DEF FailedRefresh, FallbackLabels, EndRefresh,
     StoreUnchanged, Leave, Goto, FreedGuard
<1>20. ASSUME NEW p \in Publishers, StartExplicit(p) PROVE LockProtectsReference'
  BY <1>20, ConstantFacts DEF StartExplicit, Goto, rootVars, tokenVars
<1>21. ASSUME NEW p \in Publishers, CheckExpected(p) PROVE LockProtectsReference'
  BY <1>21, ConstantFacts DEF CheckExpected, ReadRef, Goto, workVars, Raise,
     OutcomeFrame, Leave, FreedGuard
<1>22. ASSUME NEW p \in Procs, LockPublish(p) PROVE LockProtectsReference'
  BY <1>22 DEF LockPublish, AcquireGuard, Goto, StoreUnchanged, tokenVars,
     workVars
<1>23. ASSUME NEW p \in Procs, ReadLatest(p) PROVE LockProtectsReference'
  BY <1>23 DEF ReadLatest, Raise, Return, ReadRef, Goto, workVars,
     StoreUnchanged, Leave, FreedGuard
<1>24. ASSUME NEW p \in Procs, CheckSnapshot(p) PROVE LockProtectsReference'
  BY <1>24 DEF CheckSnapshot, Goto, rootVars, tokenVars
<1>25. ASSUME NEW p \in Procs, UploadFile(p) PROVE LockProtectsReference'
  BY <1>25 DEF UploadFile, tokenVars
<1>26. ASSUME NEW p \in Procs, FinishSnapshot(p) PROVE LockProtectsReference'
  BY <1>26 DEF FinishSnapshot, Goto, tokenVars, workVars
<1>27. ASSUME NEW p \in Procs, ConfirmSource(p) PROVE LockProtectsReference'
  BY <1>27 DEF ConfirmSource, Goto, tokenVars, workVars, Raise, OutcomeFrame,
     Leave, FreedGuard
<1>28. ASSUME NEW p \in Procs, WriteRef(p) PROVE LockProtectsReference'
  BY <1>28 DEF WriteRef, RefUnchanged, PutRef, Goto, workVars, OthersTokens
<1>29. ASSUME NEW p \in Procs, ResolveConflict(p) PROVE LockProtectsReference'
  BY <1>29 DEF ResolveConflict, ReadRef, Goto, workVars, Leave, OutcomeFrame,
     FreedGuard
<1>30. ASSUME NEW p \in Procs, RecordPublished(p) PROVE LockProtectsReference'
  BY <1>30 DEF RecordPublished, Return, StoreUnchanged, Leave, Goto, FreedGuard
<1>31. ASSUME NEW p \in Procs, RaiseError(p) PROVE LockProtectsReference'
  BY <1>31 DEF RaiseError, Raise, OutcomeFrame, Leave, Goto, FreedGuard
<1>32. ASSUME NEW p \in Procs, Crash(p) PROVE LockProtectsReference'
  BY <1>32 DEF Crash, Leave, StoreUnchanged, Goto, FreedGuard
<1>33. ASSUME NEW p \in Procs, FailedRequest(p) PROVE LockProtectsReference'
  BY <1>33 DEF FailedRequest, FallbackLabels, Raise, StoreUnchanged, Leave,
     Goto, FreedGuard
<1>34. ASSUME NEW p \in Procs, SourceDrift(p) PROVE LockProtectsReference'
  BY <1>34 DEF SourceDrift, Raise, OutcomeFrame, Leave, Goto, FreedGuard
<1>35. ASSUME NEW p \in Procs, RefResponseLost(p) PROVE LockProtectsReference'
  BY <1>35 DEF RefResponseLost, RefUnchanged, PutRefUnacknowledged, Goto,
     workVars, OthersTokens
<1>36. ASSUME NEW i \in Identities, ChangeSource(i) PROVE LockProtectsReference'
  BY <1>36 DEF ChangeSource, rootVars, tokenVars, workVars
<1>37. CASE Tick
  BY <1>37 DEF Tick, tokenVars
<1>38. CASE UNCHANGED vars
  BY <1>38 DEF vars, rootVars, tokenVars, workVars
<1> QED
  BY <1>2, <1>3, <1>4, <1>5, <1>6, <1>7, <1>8, <1>9, <1>10, <1>11, <1>12,
     <1>13, <1>14, <1>15, <1>16, <1>17, <1>18, <1>19, <1>20, <1>21, <1>22,
     <1>23, <1>24, <1>25, <1>26, <1>27, <1>28, <1>29, <1>30, <1>31, <1>32,
     <1>33, <1>34, <1>35, <1>36, <1>37, <1>38 DEF Next, Refresh, Explicit,
     Publish, Fault

(* What a publisher is about to replace, as it last read it, is something  *)
(* that its own release may replace.                                       *)
TransitionInv ==
  \A p \in Procs :
    pc[p] \in {"snapshot", "upload", "confirm", "putRef"} /\ refTok[p] # StaleToken
      => TransitionAllowed(refTok[p], Target(p))

(* Every step keeps the reads of the reference checked. *)
LEMMA TransitionStep ==
  ASSUME TypeInv, LockProtectsReference, TransitionInv, [Next]_vars
  PROVE  TransitionInv'
<1>1. StoreTyped /\ PcTyped /\ AttemptTyped /\ RestTyped /\ Prepared
  BY TypeParts
<1> USE <1>1 DEF TransitionInv, Target, StoreTyped, PcTyped, AttemptTyped
<1>2. ASSUME NEW r \in Replicas, BeginRefresh(r) PROVE TransitionInv'
  BY <1>2, ReplicasAreProcs DEF BeginRefresh, ReadRef, Goto, rootVars
<1>3. ASSUME NEW r \in Replicas, PrepareSource(r) PROVE TransitionInv'
  BY <1>3, ReplicasAreProcs DEF PrepareSource, Goto, rootVars, tokenVars
<1>4. ASSUME NEW r \in Replicas, EnsureCandidateMatches(r) PROVE TransitionInv'
  BY <1>4, ReplicasAreProcs DEF EnsureCandidateMatches, Goto, rootVars,
     tokenVars, workVars
<1>5. ASSUME NEW r \in Replicas, ConfirmedFastPath(r) PROVE TransitionInv'
  BY <1>5, ReplicasAreProcs DEF ConfirmedFastPath, Return, OutcomeFrame, Goto,
     rootVars, tokenVars, workVars, Leave
<1>6. ASSUME NEW r \in Replicas, LockCandidate(r) PROVE TransitionInv'
  BY <1>6, ReplicasAreProcs DEF LockCandidate, Goto, StoreUnchanged, tokenVars,
     workVars
<1>7. ASSUME NEW r \in Replicas, ReadCandidate(r) PROVE TransitionInv'
  BY <1>7, ReplicasAreProcs DEF ReadCandidate, Synchronized, tokenVars, Raise,
     Goto, workVars, OutcomeFrame, Leave
<1>8. ASSUME NEW r \in Replicas, ConfirmCandidate(r) PROVE TransitionInv'
  BY <1>8, ReplicasAreProcs DEF ConfirmCandidate, Goto, tokenVars, workVars,
     Raise, OutcomeFrame, Leave
<1>9. ASSUME NEW r \in Replicas, WriteCandidate(r) PROVE TransitionInv'
  BY <1>9, ReplicasAreProcs DEF WriteCandidate, Synchronized, Goto
<1>10. ASSUME NEW r \in Replicas, RereadCandidate(r) PROVE TransitionInv'
  BY <1>10, ReplicasAreProcs DEF RereadCandidate, Synchronized, tokenVars,
     Raise, OutcomeFrame, Goto, Leave
<1>11. ASSUME NEW r \in Replicas, CheckReady(r) PROVE TransitionInv'
  BY <1>11, ReplicasAreProcs DEF CheckReady, Goto, tokenVars, Raise, Return,
     OutcomeFrame, Leave
<1>12. ASSUME NEW r \in Replicas, BuildManifest(r) PROVE TransitionInv'
  BY <1>12, ReplicasAreProcs DEF BuildManifest, Raise, Return, Goto, tokenVars,
     workVars, StoreUnchanged, Leave
<1>13. ASSUME NEW r \in Replicas, RecheckCandidate(r) PROVE TransitionInv'
  BY <1>13, ReplicasAreProcs DEF RecheckCandidate, Goto, tokenVars, Raise,
     OutcomeFrame, Leave
<1>14. ASSUME NEW r \in Replicas, RecheckElapsed(r) PROVE TransitionInv'
  BY <1>14, ReplicasAreProcs DEF RecheckElapsed, Goto, tokenVars, Raise,
     OutcomeFrame, Leave
<1>15. ASSUME NEW r \in Replicas, FollowWinner(r) PROVE TransitionInv'
  BY <1>15, ReplicasAreProcs DEF FollowWinner, FallBack, Leave, EndRefresh,
     StoreUnchanged, Goto
<1>16. ASSUME NEW r \in Replicas, KeepCurrent(r) PROVE TransitionInv'
  BY <1>16, ReplicasAreProcs DEF KeepCurrent, FallBack, Leave, EndRefresh,
     StoreUnchanged, Goto
<1>17. ASSUME NEW r \in Replicas, Serve(r) PROVE TransitionInv'
  BY <1>17, ReplicasAreProcs DEF Serve, EndRefresh, StoreUnchanged, Leave, Goto
<1>18. ASSUME NEW r \in Replicas, CandResponseLost(r) PROVE TransitionInv'
  BY <1>18, ReplicasAreProcs DEF CandResponseLost, Goto
<1>19. ASSUME NEW r \in Replicas, FailedRefresh(r) PROVE TransitionInv'
  BY <1>19, ReplicasAreProcs DEF FailedRefresh, FallbackLabels, EndRefresh,
     StoreUnchanged, Leave, Goto
<1>20. ASSUME NEW p \in Publishers, StartExplicit(p) PROVE TransitionInv'
  BY <1>20, ConstantFacts DEF StartExplicit, Goto, rootVars, tokenVars
<1>21. ASSUME NEW p \in Publishers, CheckExpected(p) PROVE TransitionInv'
  BY <1>21, ConstantFacts DEF CheckExpected, ReadRef, Goto, workVars, Raise,
     OutcomeFrame, Leave
<1>22. ASSUME NEW p \in Procs, LockPublish(p) PROVE TransitionInv'
  BY <1>22 DEF LockPublish, Goto, StoreUnchanged, tokenVars, workVars
<1>23. ASSUME NEW p \in Procs, ReadLatest(p) PROVE TransitionInv'
  BY <1>23 DEF ReadLatest, Raise, Return, ReadRef, Goto, workVars,
     StoreUnchanged, Leave
<1>24. ASSUME NEW p \in Procs, CheckSnapshot(p) PROVE TransitionInv'
  BY <1>24 DEF CheckSnapshot, Goto, rootVars, tokenVars
<1>25. ASSUME NEW p \in Procs, UploadFile(p) PROVE TransitionInv'
  BY <1>25 DEF UploadFile, tokenVars
<1>26. ASSUME NEW p \in Procs, FinishSnapshot(p) PROVE TransitionInv'
  BY <1>26 DEF FinishSnapshot, Uploaded, Goto, tokenVars, workVars
<1>27. ASSUME NEW p \in Procs, ConfirmSource(p) PROVE TransitionInv'
  BY <1>27 DEF ConfirmSource, Goto, tokenVars, workVars, Raise, OutcomeFrame,
     Leave
<1>28. ASSUME NEW p \in Procs, WriteRef(p) PROVE TransitionInv'
  BY <1>28 DEF WriteRef, PutRef, Goto, workVars, OthersTokens
<1>29. ASSUME NEW p \in Procs, ResolveConflict(p) PROVE TransitionInv'
  BY <1>29 DEF ResolveConflict, ReadRef, Goto, workVars, Leave, OutcomeFrame
<1>30. ASSUME NEW p \in Procs, RecordPublished(p) PROVE TransitionInv'
  BY <1>30 DEF RecordPublished, Return, StoreUnchanged, Leave, Goto
<1>31. ASSUME NEW p \in Procs, RaiseError(p) PROVE TransitionInv'
  BY <1>31 DEF RaiseError, Raise, OutcomeFrame, Leave, Goto
<1>32. ASSUME NEW p \in Procs, Crash(p) PROVE TransitionInv'
  BY <1>32 DEF Crash, Leave, StoreUnchanged, Goto
<1>33. ASSUME NEW p \in Procs, FailedRequest(p) PROVE TransitionInv'
  BY <1>33 DEF FailedRequest, FallbackLabels, Raise, StoreUnchanged, Leave,
     Goto
<1>34. ASSUME NEW p \in Procs, SourceDrift(p) PROVE TransitionInv'
  BY <1>34 DEF SourceDrift, Raise, OutcomeFrame, Leave, Goto
<1>35. ASSUME NEW p \in Procs, RefResponseLost(p) PROVE TransitionInv'
  BY <1>35 DEF RefResponseLost, PutRefUnacknowledged, Goto, workVars,
     OthersTokens
<1>36. ASSUME NEW i \in Identities, ChangeSource(i) PROVE TransitionInv'
  BY <1>36 DEF ChangeSource, rootVars, tokenVars, workVars
<1>37. CASE Tick
  BY <1>37 DEF Tick, tokenVars
<1>38. CASE UNCHANGED vars
  BY <1>38 DEF vars, rootVars, tokenVars, workVars
<1> QED
  BY <1>2, <1>3, <1>4, <1>5, <1>6, <1>7, <1>8, <1>9, <1>10, <1>11, <1>12,
     <1>13, <1>14, <1>15, <1>16, <1>17, <1>18, <1>19, <1>20, <1>21, <1>22,
     <1>23, <1>24, <1>25, <1>26, <1>27, <1>28, <1>29, <1>30, <1>31, <1>32,
     <1>33, <1>34, <1>35, <1>36, <1>37, <1>38 DEF Next, Refresh, Explicit,
     Publish, Fault

-----------------------------------------------------------------------------
(* The candidate.  A replica that may still write it has seen that it is   *)
(* not another source's.                                                   *)
OwnCandidate ==
  \A p \in Procs : pc[p] \in {"confirmCandidate", "writeCandidate"} /\ CandUnchanged(p)
                     => ~CandidateIsForeign(p)

(* Every step keeps the candidate of another source from being replaced. *)
LEMMA OwnCandidateStep ==
  ASSUME TypeInv, LockProtectsReference, OwnCandidate, [Next]_vars
  PROVE  OwnCandidate'
<1>1. StoreTyped /\ PcTyped /\ AttemptTyped
  BY TypeParts
<1> USE <1>1 DEF OwnCandidate, CandUnchanged, CandidateIsForeign, StoreTyped,
   PcTyped, AttemptTyped
<1>2. ASSUME NEW r \in Replicas, BeginRefresh(r) PROVE OwnCandidate'
  BY <1>2, ReplicasAreProcs DEF BeginRefresh, ReadRef, Goto, rootVars
<1>3. ASSUME NEW r \in Replicas, PrepareSource(r) PROVE OwnCandidate'
  BY <1>3, ReplicasAreProcs DEF PrepareSource, Goto, rootVars, tokenVars
<1>4. ASSUME NEW r \in Replicas, EnsureCandidateMatches(r) PROVE OwnCandidate'
  BY <1>4, ReplicasAreProcs DEF EnsureCandidateMatches, Goto, rootVars,
     tokenVars, workVars
<1>5. ASSUME NEW r \in Replicas, ConfirmedFastPath(r) PROVE OwnCandidate'
  BY <1>5, ReplicasAreProcs DEF ConfirmedFastPath, Return, OutcomeFrame,
     Goto, rootVars, tokenVars, workVars, Leave
<1>6. ASSUME NEW r \in Replicas, LockCandidate(r) PROVE OwnCandidate'
  BY <1>6, ReplicasAreProcs DEF LockCandidate, Goto, StoreUnchanged,
     tokenVars, workVars
<1>7. ASSUME NEW r \in Replicas, ReadCandidate(r) PROVE OwnCandidate'
  BY <1>7, ReplicasAreProcs DEF ReadCandidate, Synchronized, tokenVars,
     Raise, Goto, workVars, OutcomeFrame, Leave
<1>8. ASSUME NEW r \in Replicas, ConfirmCandidate(r) PROVE OwnCandidate'
  BY <1>8, ReplicasAreProcs DEF ConfirmCandidate, Goto, tokenVars, workVars,
     Raise, OutcomeFrame, Leave
<1>9. ASSUME NEW r \in Replicas, WriteCandidate(r) PROVE OwnCandidate'
  BY <1>9, ReplicasAreProcs DEF WriteCandidate, Synchronized, Goto, PutCand,
     LockProtectsReference, SyncLabels
<1>10. ASSUME NEW r \in Replicas, RereadCandidate(r) PROVE OwnCandidate'
  BY <1>10, ReplicasAreProcs DEF RereadCandidate, Synchronized, tokenVars,
     Raise, OutcomeFrame, Goto, Leave
<1>11. ASSUME NEW r \in Replicas, CheckReady(r) PROVE OwnCandidate'
  BY <1>11, ReplicasAreProcs DEF CheckReady, Goto, tokenVars, Raise, Return,
     OutcomeFrame, Leave
<1>12. ASSUME NEW r \in Replicas, BuildManifest(r) PROVE OwnCandidate'
  BY <1>12, ReplicasAreProcs DEF BuildManifest, Raise, Return, Goto,
     tokenVars, workVars, StoreUnchanged, Leave
<1>13. ASSUME NEW r \in Replicas, RecheckCandidate(r) PROVE OwnCandidate'
  BY <1>13, ReplicasAreProcs DEF RecheckCandidate, Goto, tokenVars, Raise,
     OutcomeFrame, Leave
<1>14. ASSUME NEW r \in Replicas, RecheckElapsed(r) PROVE OwnCandidate'
  BY <1>14, ReplicasAreProcs DEF RecheckElapsed, Goto, tokenVars, Raise,
     OutcomeFrame, Leave
<1>15. ASSUME NEW r \in Replicas, FollowWinner(r) PROVE OwnCandidate'
  BY <1>15, ReplicasAreProcs DEF FollowWinner, FallBack, Leave, EndRefresh,
     StoreUnchanged, Goto
<1>16. ASSUME NEW r \in Replicas, KeepCurrent(r) PROVE OwnCandidate'
  BY <1>16, ReplicasAreProcs DEF KeepCurrent, FallBack, Leave, EndRefresh,
     StoreUnchanged, Goto
<1>17. ASSUME NEW r \in Replicas, Serve(r) PROVE OwnCandidate'
  BY <1>17, ReplicasAreProcs DEF Serve, EndRefresh, StoreUnchanged, Leave,
     Goto
<1>18. ASSUME NEW r \in Replicas, CandResponseLost(r) PROVE OwnCandidate'
  BY <1>18, ReplicasAreProcs DEF CandResponseLost, PutCand
<1>19. ASSUME NEW r \in Replicas, FailedRefresh(r) PROVE OwnCandidate'
  BY <1>19, ReplicasAreProcs DEF FailedRefresh, EndRefresh, StoreUnchanged,
     Leave, Goto
<1>20. ASSUME NEW p \in Publishers, StartExplicit(p) PROVE OwnCandidate'
  BY <1>20, ConstantFacts DEF StartExplicit, Goto, rootVars, tokenVars
<1>21. ASSUME NEW p \in Publishers, CheckExpected(p) PROVE OwnCandidate'
  BY <1>21, ConstantFacts DEF CheckExpected, ReadRef, Goto, workVars, Raise,
     OutcomeFrame, Leave
<1>22. ASSUME NEW p \in Procs, LockPublish(p) PROVE OwnCandidate'
  BY <1>22 DEF LockPublish, Goto, StoreUnchanged, tokenVars, workVars
<1>23. ASSUME NEW p \in Procs, ReadLatest(p) PROVE OwnCandidate'
  BY <1>23 DEF ReadLatest, Raise, Return, ReadRef, Goto, workVars,
     StoreUnchanged, Leave
<1>24. ASSUME NEW p \in Procs, CheckSnapshot(p) PROVE OwnCandidate'
  BY <1>24 DEF CheckSnapshot, Goto, rootVars, tokenVars
<1>25. ASSUME NEW p \in Procs, UploadFile(p) PROVE OwnCandidate'
  BY <1>25 DEF UploadFile, tokenVars
<1>26. ASSUME NEW p \in Procs, FinishSnapshot(p) PROVE OwnCandidate'
  BY <1>26 DEF FinishSnapshot, Goto, tokenVars, workVars
<1>27. ASSUME NEW p \in Procs, ConfirmSource(p) PROVE OwnCandidate'
  BY <1>27 DEF ConfirmSource, Goto, tokenVars, workVars, Raise, OutcomeFrame,
     Leave
<1>28. ASSUME NEW p \in Procs, WriteRef(p) PROVE OwnCandidate'
  BY <1>28 DEF WriteRef, RefUnchanged, PutRef, Goto, workVars, OthersTokens
<1>29. ASSUME NEW p \in Procs, ResolveConflict(p) PROVE OwnCandidate'
  BY <1>29 DEF ResolveConflict, ReadRef, Goto, workVars, Leave, OutcomeFrame
<1>30. ASSUME NEW p \in Procs, RecordPublished(p) PROVE OwnCandidate'
  BY <1>30 DEF RecordPublished, Return, StoreUnchanged, Leave, Goto
<1>31. ASSUME NEW p \in Procs, RaiseError(p) PROVE OwnCandidate'
  BY <1>31 DEF RaiseError, Raise, OutcomeFrame, Leave, Goto
<1>32. ASSUME NEW p \in Procs, Crash(p) PROVE OwnCandidate'
  BY <1>32 DEF Crash, Leave, StoreUnchanged, Goto
<1>33. ASSUME NEW p \in Procs, FailedRequest(p) PROVE OwnCandidate'
  BY <1>33 DEF FailedRequest, Raise, StoreUnchanged, Leave, Goto
<1>34. ASSUME NEW p \in Procs, SourceDrift(p) PROVE OwnCandidate'
  BY <1>34 DEF SourceDrift, Raise, OutcomeFrame, Leave, Goto
<1>35. ASSUME NEW p \in Procs, RefResponseLost(p) PROVE OwnCandidate'
  BY <1>35 DEF RefResponseLost, RefUnchanged, PutRefUnacknowledged, Goto,
     workVars, OthersTokens
<1>36. ASSUME NEW i \in Identities, ChangeSource(i) PROVE OwnCandidate'
  BY <1>36 DEF ChangeSource, rootVars, tokenVars, workVars
<1>37. CASE Tick
  BY <1>37 DEF Tick, tokenVars
<1>38. CASE UNCHANGED vars
  BY <1>38 DEF vars, rootVars, tokenVars, workVars
<1> QED
  BY <1>2, <1>3, <1>4, <1>5, <1>6, <1>7, <1>8, <1>9, <1>10, <1>11, <1>12,
     <1>13, <1>14, <1>15, <1>16, <1>17, <1>18, <1>19, <1>20, <1>21, <1>22,
     <1>23, <1>24, <1>25, <1>26, <1>27, <1>28, <1>29, <1>30, <1>31, <1>32,
     <1>33, <1>34, <1>35, <1>36, <1>37, <1>38 DEF Next, Refresh, Explicit,
     Publish, Fault

(* With a lock, the release that --expected-current-version was compared   *)
(* with is still the one that the publisher is going to replace.           *)
ExpectedInv ==
  Locking => \A p \in Publishers :
    pc[p] \in {"latest", "snapshot", "upload", "confirm", "putRef"}
      /\ expected[p] # NoVersion => ref # NoRef /\ ref.version = expected[p]

(* Every step keeps the expected version current under the lock. *)
LEMMA ExpectedStep ==
  ASSUME TypeInv, LockProtectsReference, ExpectedInv, [Next]_vars
  PROVE  ExpectedInv'
<1> SUFFICES ASSUME Locking PROVE ExpectedInv'
  BY DEF ExpectedInv, Locking
<1>1. PcTyped /\ AttemptTyped
  BY TypeParts
<1> USE <1>1 DEF ExpectedInv, PcTyped, AttemptTyped
<1>2. ASSUME NEW r \in Replicas, BeginRefresh(r) PROVE ExpectedInv'
  BY <1>2, ReplicasAreProcs, ProcessAssumption, ConstantFacts DEF
     BeginRefresh, ReadRef, Goto, rootVars
<1>3. ASSUME NEW r \in Replicas, PrepareSource(r) PROVE ExpectedInv'
  BY <1>3, ReplicasAreProcs, ProcessAssumption, ConstantFacts DEF
     PrepareSource, Goto, rootVars, tokenVars
<1>4. ASSUME NEW r \in Replicas, EnsureCandidateMatches(r) PROVE ExpectedInv'
  BY <1>4, ReplicasAreProcs, ProcessAssumption, ConstantFacts DEF
     EnsureCandidateMatches, Goto, rootVars, tokenVars, workVars
<1>5. ASSUME NEW r \in Replicas, ConfirmedFastPath(r) PROVE ExpectedInv'
  BY <1>5, ReplicasAreProcs, ProcessAssumption, ConstantFacts DEF
     ConfirmedFastPath, Return, OutcomeFrame, Goto, rootVars, tokenVars,
     workVars, Leave
<1>6. ASSUME NEW r \in Replicas, LockCandidate(r) PROVE ExpectedInv'
  BY <1>6, ReplicasAreProcs, ProcessAssumption, ConstantFacts DEF
     LockCandidate, Goto, StoreUnchanged, tokenVars, workVars
<1>7. ASSUME NEW r \in Replicas, ReadCandidate(r) PROVE ExpectedInv'
  BY <1>7, ReplicasAreProcs, ProcessAssumption, ConstantFacts DEF
     ReadCandidate, Synchronized, tokenVars, Raise, Goto, workVars,
     OutcomeFrame, Leave
<1>8. ASSUME NEW r \in Replicas, ConfirmCandidate(r) PROVE ExpectedInv'
  BY <1>8, ReplicasAreProcs, ProcessAssumption, ConstantFacts DEF
     ConfirmCandidate, Goto, tokenVars, workVars, Raise, OutcomeFrame, Leave
<1>9. ASSUME NEW r \in Replicas, WriteCandidate(r) PROVE ExpectedInv'
  BY <1>9, ReplicasAreProcs, ProcessAssumption, ConstantFacts DEF
     WriteCandidate, Synchronized, Goto
<1>10. ASSUME NEW r \in Replicas, RereadCandidate(r) PROVE ExpectedInv'
  BY <1>10, ReplicasAreProcs, ProcessAssumption, ConstantFacts DEF
     RereadCandidate, Synchronized, tokenVars, Raise, OutcomeFrame, Goto,
     Leave
<1>11. ASSUME NEW r \in Replicas, CheckReady(r) PROVE ExpectedInv'
  BY <1>11, ReplicasAreProcs, ProcessAssumption, ConstantFacts DEF
     CheckReady, Goto, tokenVars, Raise, Return, OutcomeFrame, Leave
<1>12. ASSUME NEW r \in Replicas, BuildManifest(r) PROVE ExpectedInv'
  BY <1>12, ReplicasAreProcs, ProcessAssumption, ConstantFacts DEF
     BuildManifest, Raise, Return, Goto, tokenVars, workVars, StoreUnchanged,
     Leave
<1>13. ASSUME NEW r \in Replicas, RecheckCandidate(r) PROVE ExpectedInv'
  BY <1>13, ReplicasAreProcs, ProcessAssumption, ConstantFacts DEF
     RecheckCandidate, Goto, tokenVars, Raise, OutcomeFrame, Leave
<1>14. ASSUME NEW r \in Replicas, RecheckElapsed(r) PROVE ExpectedInv'
  BY <1>14, ReplicasAreProcs, ProcessAssumption, ConstantFacts DEF
     RecheckElapsed, Goto, tokenVars, Raise, OutcomeFrame, Leave
<1>15. ASSUME NEW r \in Replicas, FollowWinner(r) PROVE ExpectedInv'
  BY <1>15, ReplicasAreProcs, ProcessAssumption, ConstantFacts DEF
     FollowWinner, FallBack, Leave, EndRefresh, StoreUnchanged, Goto
<1>16. ASSUME NEW r \in Replicas, KeepCurrent(r) PROVE ExpectedInv'
  BY <1>16, ReplicasAreProcs, ProcessAssumption, ConstantFacts DEF
     KeepCurrent, FallBack, Leave, EndRefresh, StoreUnchanged, Goto
<1>17. ASSUME NEW r \in Replicas, Serve(r) PROVE ExpectedInv'
  BY <1>17, ReplicasAreProcs, ProcessAssumption, ConstantFacts DEF Serve,
     EndRefresh, StoreUnchanged, Leave, Goto
<1>18. ASSUME NEW r \in Replicas, CandResponseLost(r) PROVE ExpectedInv'
  BY <1>18, ReplicasAreProcs, ProcessAssumption, ConstantFacts DEF
     CandResponseLost
<1>19. ASSUME NEW r \in Replicas, FailedRefresh(r) PROVE ExpectedInv'
  BY <1>19, ReplicasAreProcs, ProcessAssumption, ConstantFacts DEF
     FailedRefresh, EndRefresh, StoreUnchanged, Leave, Goto
<1>20. ASSUME NEW p \in Publishers, StartExplicit(p) PROVE ExpectedInv'
  BY <1>20, ConstantFacts, ProcessAssumption DEF StartExplicit, Goto,
     rootVars, tokenVars
<1>21. ASSUME NEW p \in Publishers, CheckExpected(p) PROVE ExpectedInv'
  BY <1>21, ConstantFacts, ProcessAssumption DEF CheckExpected, ReadRef,
     Goto, workVars, Raise, OutcomeFrame, Leave, ExpectationHolds
<1>22. ASSUME NEW p \in Procs, LockPublish(p) PROVE ExpectedInv'
  BY <1>22, ProcessAssumption, ConstantFacts DEF LockPublish, Goto,
     StoreUnchanged, tokenVars, workVars
<1>23. ASSUME NEW p \in Procs, ReadLatest(p) PROVE ExpectedInv'
  BY <1>23, ProcessAssumption, ConstantFacts DEF ReadLatest, Raise, Return,
     ReadRef, Goto, workVars, StoreUnchanged, Leave
<1>24. ASSUME NEW p \in Procs, CheckSnapshot(p) PROVE ExpectedInv'
  BY <1>24, ProcessAssumption, ConstantFacts DEF CheckSnapshot, Goto,
     rootVars, tokenVars
<1>25. ASSUME NEW p \in Procs, UploadFile(p) PROVE ExpectedInv'
  BY <1>25, ProcessAssumption, ConstantFacts DEF UploadFile, tokenVars
<1>26. ASSUME NEW p \in Procs, FinishSnapshot(p) PROVE ExpectedInv'
  BY <1>26, ProcessAssumption, ConstantFacts DEF FinishSnapshot, Goto,
     tokenVars, workVars
<1>27. ASSUME NEW p \in Procs, ConfirmSource(p) PROVE ExpectedInv'
  BY <1>27, ProcessAssumption, ConstantFacts DEF ConfirmSource, Goto,
     tokenVars, workVars, Raise, OutcomeFrame, Leave
<1>28. ASSUME NEW p \in Procs, WriteRef(p) PROVE ExpectedInv'
  BY <1>28, ProcessAssumption, ConstantFacts DEF WriteRef, RefUnchanged,
     PutRef, Goto, workVars, OthersTokens, LockProtectsReference, SyncLabels,
     GuardedLabels
<1>29. ASSUME NEW p \in Procs, ResolveConflict(p) PROVE ExpectedInv'
  BY <1>29, ProcessAssumption, ConstantFacts DEF ResolveConflict, ReadRef,
     Goto, workVars, Leave, OutcomeFrame
<1>30. ASSUME NEW p \in Procs, RecordPublished(p) PROVE ExpectedInv'
  BY <1>30, ProcessAssumption, ConstantFacts DEF RecordPublished, Return,
     StoreUnchanged, Leave, Goto
<1>31. ASSUME NEW p \in Procs, RaiseError(p) PROVE ExpectedInv'
  BY <1>31, ProcessAssumption, ConstantFacts DEF RaiseError, Raise,
     OutcomeFrame, Leave, Goto
<1>32. ASSUME NEW p \in Procs, Crash(p) PROVE ExpectedInv'
  BY <1>32, ProcessAssumption, ConstantFacts DEF Crash, Leave,
     StoreUnchanged, Goto
<1>33. ASSUME NEW p \in Procs, FailedRequest(p) PROVE ExpectedInv'
  BY <1>33, ProcessAssumption, ConstantFacts DEF FailedRequest, Raise,
     StoreUnchanged, Leave, Goto
<1>34. ASSUME NEW p \in Procs, SourceDrift(p) PROVE ExpectedInv'
  BY <1>34, ProcessAssumption, ConstantFacts DEF SourceDrift, Raise,
     OutcomeFrame, Leave, Goto
<1>35. ASSUME NEW p \in Procs, RefResponseLost(p) PROVE ExpectedInv'
  BY <1>35, ProcessAssumption, ConstantFacts DEF RefResponseLost,
     RefUnchanged, PutRefUnacknowledged, workVars, OthersTokens
<1>36. ASSUME NEW i \in Identities, ChangeSource(i) PROVE ExpectedInv'
  BY <1>36, ProcessAssumption, ConstantFacts DEF ChangeSource, rootVars,
     tokenVars, workVars
<1>37. CASE Tick
  BY <1>37 DEF Tick, tokenVars
<1>38. CASE UNCHANGED vars
  BY <1>38 DEF vars, rootVars, tokenVars, workVars
<1> QED
  BY <1>2, <1>3, <1>4, <1>5, <1>6, <1>7, <1>8, <1>9, <1>10, <1>11, <1>12,
     <1>13, <1>14, <1>15, <1>16, <1>17, <1>18, <1>19, <1>20, <1>21, <1>22,
     <1>23, <1>24, <1>25, <1>26, <1>27, <1>28, <1>29, <1>30, <1>31, <1>32,
     <1>33, <1>34, <1>35, <1>36, <1>37, <1>38 DEF Next, Refresh, Explicit,
     Publish, Fault

(* The reference, once there, is never withdrawn. *)
ReleaseStays == \A r \in Replicas : window[r] # {} => ref # NoRef

(* Every step keeps a release that a refresh has seen. *)
LEMMA ReleaseStaysStep ==
  ASSUME TypeInv, ReleaseStays, [Next]_vars
  PROVE  ReleaseStays'
<1>1. PcTyped /\ AttemptTyped /\ RestTyped /\ Prepared
  BY TypeParts
<1>0. \A p \in Procs : pc[p] \notin Unprepared => Target(p) # NoRef
  BY <1>1, ConstantFacts, NoneAssumption DEF Prepared, Target
<1> USE <1>1, <1>0 DEF ReleaseStays, PcTyped, RestTyped
<1>2. ASSUME NEW r \in Replicas, BeginRefresh(r) PROVE ReleaseStays'
  BY <1>2, ReplicasAreProcs DEF BeginRefresh, ReadRef, rootVars
<1>3. ASSUME NEW r \in Replicas, PrepareSource(r) PROVE ReleaseStays'
  BY <1>3, ReplicasAreProcs DEF PrepareSource, rootVars, tokenVars
<1>4. ASSUME NEW r \in Replicas, EnsureCandidateMatches(r) PROVE ReleaseStays'
  BY <1>4, ReplicasAreProcs DEF EnsureCandidateMatches, rootVars, tokenVars,
     workVars
<1>5. ASSUME NEW r \in Replicas, ConfirmedFastPath(r) PROVE ReleaseStays'
  BY <1>5, ReplicasAreProcs DEF ConfirmedFastPath, Return, OutcomeFrame,
     rootVars, tokenVars, workVars, Leave
<1>6. ASSUME NEW r \in Replicas, LockCandidate(r) PROVE ReleaseStays'
  BY <1>6, ReplicasAreProcs DEF LockCandidate, StoreUnchanged, tokenVars,
     workVars
<1>7. ASSUME NEW r \in Replicas, ReadCandidate(r) PROVE ReleaseStays'
  BY <1>7, ReplicasAreProcs DEF ReadCandidate, Synchronized, tokenVars,
     Raise, workVars, OutcomeFrame, Leave
<1>8. ASSUME NEW r \in Replicas, ConfirmCandidate(r) PROVE ReleaseStays'
  BY <1>8, ReplicasAreProcs DEF ConfirmCandidate, tokenVars, workVars, Raise,
     OutcomeFrame, Leave
<1>9. ASSUME NEW r \in Replicas, WriteCandidate(r) PROVE ReleaseStays'
  BY <1>9, ReplicasAreProcs DEF WriteCandidate, Synchronized
<1>10. ASSUME NEW r \in Replicas, RereadCandidate(r) PROVE ReleaseStays'
  BY <1>10, ReplicasAreProcs DEF RereadCandidate, Synchronized, tokenVars,
     Raise, OutcomeFrame, Leave
<1>11. ASSUME NEW r \in Replicas, CheckReady(r) PROVE ReleaseStays'
  BY <1>11, ReplicasAreProcs DEF CheckReady, tokenVars, Raise, Return,
     OutcomeFrame, Leave
<1>12. ASSUME NEW r \in Replicas, BuildManifest(r) PROVE ReleaseStays'
  BY <1>12, ReplicasAreProcs DEF BuildManifest, Raise, Return, tokenVars,
     workVars, StoreUnchanged, Leave
<1>13. ASSUME NEW r \in Replicas, RecheckCandidate(r) PROVE ReleaseStays'
  BY <1>13, ReplicasAreProcs DEF RecheckCandidate, tokenVars, Raise,
     OutcomeFrame, Leave
<1>14. ASSUME NEW r \in Replicas, RecheckElapsed(r) PROVE ReleaseStays'
  BY <1>14, ReplicasAreProcs DEF RecheckElapsed, tokenVars, Raise,
     OutcomeFrame, Leave
<1>15. ASSUME NEW r \in Replicas, FollowWinner(r) PROVE ReleaseStays'
  BY <1>15, ReplicasAreProcs DEF FollowWinner, FallBack, Leave, EndRefresh,
     StoreUnchanged
<1>16. ASSUME NEW r \in Replicas, KeepCurrent(r) PROVE ReleaseStays'
  BY <1>16, ReplicasAreProcs DEF KeepCurrent, FallBack, Leave, EndRefresh,
     StoreUnchanged
<1>17. ASSUME NEW r \in Replicas, Serve(r) PROVE ReleaseStays'
  BY <1>17, ReplicasAreProcs DEF Serve, EndRefresh, StoreUnchanged, Leave
<1>18. ASSUME NEW r \in Replicas, CandResponseLost(r) PROVE ReleaseStays'
  BY <1>18, ReplicasAreProcs DEF CandResponseLost
<1>19. ASSUME NEW r \in Replicas, FailedRefresh(r) PROVE ReleaseStays'
  BY <1>19, ReplicasAreProcs DEF FailedRefresh, EndRefresh, StoreUnchanged,
     Leave
<1>20. ASSUME NEW p \in Publishers, StartExplicit(p) PROVE ReleaseStays'
  BY <1>20, ConstantFacts DEF StartExplicit, rootVars, tokenVars
<1>21. ASSUME NEW p \in Publishers, CheckExpected(p) PROVE ReleaseStays'
  BY <1>21, ConstantFacts DEF CheckExpected, ReadRef, workVars, Raise,
     OutcomeFrame, Leave
<1>22. ASSUME NEW p \in Procs, LockPublish(p) PROVE ReleaseStays'
  BY <1>22 DEF LockPublish, StoreUnchanged, tokenVars, workVars
<1>23. ASSUME NEW p \in Procs, ReadLatest(p) PROVE ReleaseStays'
  BY <1>23 DEF ReadLatest, Raise, Return, ReadRef, workVars, StoreUnchanged,
     Leave
<1>24. ASSUME NEW p \in Procs, CheckSnapshot(p) PROVE ReleaseStays'
  BY <1>24 DEF CheckSnapshot, rootVars, tokenVars
<1>25. ASSUME NEW p \in Procs, UploadFile(p) PROVE ReleaseStays'
  BY <1>25 DEF UploadFile, tokenVars
<1>26. ASSUME NEW p \in Procs, FinishSnapshot(p) PROVE ReleaseStays'
  BY <1>26 DEF FinishSnapshot, tokenVars, workVars
<1>27. ASSUME NEW p \in Procs, ConfirmSource(p) PROVE ReleaseStays'
  BY <1>27 DEF ConfirmSource, tokenVars, workVars, Raise, OutcomeFrame, Leave
<1>28. ASSUME NEW p \in Procs, WriteRef(p) PROVE ReleaseStays'
  BY <1>28 DEF WriteRef, RefUnchanged, PutRef, workVars, OthersTokens,
     ShowRelease, Unprepared, FallbackLabels
<1>29. ASSUME NEW p \in Procs, ResolveConflict(p) PROVE ReleaseStays'
  BY <1>29 DEF ResolveConflict, ReadRef, workVars, Leave, OutcomeFrame
<1>30. ASSUME NEW p \in Procs, RecordPublished(p) PROVE ReleaseStays'
  BY <1>30 DEF RecordPublished, Return, StoreUnchanged, Leave
<1>31. ASSUME NEW p \in Procs, RaiseError(p) PROVE ReleaseStays'
  BY <1>31 DEF RaiseError, Raise, OutcomeFrame, Leave
<1>32. ASSUME NEW p \in Procs, Crash(p) PROVE ReleaseStays'
  BY <1>32 DEF Crash, Leave, StoreUnchanged
<1>33. ASSUME NEW p \in Procs, FailedRequest(p) PROVE ReleaseStays'
  BY <1>33 DEF FailedRequest, Raise, StoreUnchanged, Leave
<1>34. ASSUME NEW p \in Procs, SourceDrift(p) PROVE ReleaseStays'
  BY <1>34 DEF SourceDrift, Raise, OutcomeFrame, Leave
<1>35. ASSUME NEW p \in Procs, RefResponseLost(p) PROVE ReleaseStays'
  BY <1>35 DEF RefResponseLost, RefUnchanged, PutRefUnacknowledged, workVars,
     OthersTokens, ShowRelease, Unprepared, FallbackLabels
<1>36. ASSUME NEW i \in Identities, ChangeSource(i) PROVE ReleaseStays'
  BY <1>36 DEF ChangeSource, rootVars, tokenVars, workVars
<1>37. CASE Tick
  BY <1>37 DEF Tick, tokenVars
<1>38. CASE UNCHANGED vars
  BY <1>38 DEF vars, rootVars, tokenVars, workVars
<1> QED
  BY <1>2, <1>3, <1>4, <1>5, <1>6, <1>7, <1>8, <1>9, <1>10, <1>11, <1>12,
     <1>13, <1>14, <1>15, <1>16, <1>17, <1>18, <1>19, <1>20, <1>21, <1>22,
     <1>23, <1>24, <1>25, <1>26, <1>27, <1>28, <1>29, <1>30, <1>31, <1>32,
     <1>33, <1>34, <1>35, <1>36, <1>37, <1>38 DEF Next, Refresh, Explicit,
     Publish, Fault

(* A release records its source exactly when the adapter tracks it. *)
SourcesTracked == ref # NoRef => (ref.source # NoSource <=> TracksSource)

(* Every step keeps the source of the release recorded. *)
LEMMA SourcesTrackedStep ==
  ASSUME TypeInv, SourcesTracked, [Next]_vars
  PROVE  SourcesTracked'
<1>1. Prepared
  BY DEF TypeInv
<1>0. \A p \in Procs : pc[p] \notin Unprepared =>
        (Target(p).source # NoSource <=> TracksSource)
  BY <1>1, ConstantFacts, NoneAssumption DEF Prepared, Target, RefFor,
     Sources
<1> USE <1>0 DEF SourcesTracked
<1>2. ASSUME NEW r \in Replicas, BeginRefresh(r) PROVE SourcesTracked'
  BY <1>2, ReplicasAreProcs DEF BeginRefresh, ReadRef, rootVars
<1>3. ASSUME NEW r \in Replicas, PrepareSource(r) PROVE SourcesTracked'
  BY <1>3, ReplicasAreProcs DEF PrepareSource, rootVars, tokenVars
<1>4. ASSUME NEW r \in Replicas, EnsureCandidateMatches(r) PROVE SourcesTracked'
  BY <1>4, ReplicasAreProcs DEF EnsureCandidateMatches, rootVars, tokenVars,
     workVars
<1>5. ASSUME NEW r \in Replicas, ConfirmedFastPath(r) PROVE SourcesTracked'
  BY <1>5, ReplicasAreProcs DEF ConfirmedFastPath, Return, OutcomeFrame,
     rootVars, tokenVars, workVars, Leave
<1>6. ASSUME NEW r \in Replicas, LockCandidate(r) PROVE SourcesTracked'
  BY <1>6, ReplicasAreProcs DEF LockCandidate, StoreUnchanged, tokenVars,
     workVars
<1>7. ASSUME NEW r \in Replicas, ReadCandidate(r) PROVE SourcesTracked'
  BY <1>7, ReplicasAreProcs DEF ReadCandidate, Synchronized, tokenVars,
     Raise, workVars, OutcomeFrame, Leave
<1>8. ASSUME NEW r \in Replicas, ConfirmCandidate(r) PROVE SourcesTracked'
  BY <1>8, ReplicasAreProcs DEF ConfirmCandidate, tokenVars, workVars, Raise,
     OutcomeFrame, Leave
<1>9. ASSUME NEW r \in Replicas, WriteCandidate(r) PROVE SourcesTracked'
  BY <1>9, ReplicasAreProcs DEF WriteCandidate, Synchronized
<1>10. ASSUME NEW r \in Replicas, RereadCandidate(r) PROVE SourcesTracked'
  BY <1>10, ReplicasAreProcs DEF RereadCandidate, Synchronized, tokenVars,
     Raise, OutcomeFrame, Leave
<1>11. ASSUME NEW r \in Replicas, CheckReady(r) PROVE SourcesTracked'
  BY <1>11, ReplicasAreProcs DEF CheckReady, tokenVars, Raise, Return,
     OutcomeFrame, Leave
<1>12. ASSUME NEW r \in Replicas, BuildManifest(r) PROVE SourcesTracked'
  BY <1>12, ReplicasAreProcs DEF BuildManifest, Raise, Return, tokenVars,
     workVars, StoreUnchanged, Leave
<1>13. ASSUME NEW r \in Replicas, RecheckCandidate(r) PROVE SourcesTracked'
  BY <1>13, ReplicasAreProcs DEF RecheckCandidate, tokenVars, Raise,
     OutcomeFrame, Leave
<1>14. ASSUME NEW r \in Replicas, RecheckElapsed(r) PROVE SourcesTracked'
  BY <1>14, ReplicasAreProcs DEF RecheckElapsed, tokenVars, Raise,
     OutcomeFrame, Leave
<1>15. ASSUME NEW r \in Replicas, FollowWinner(r) PROVE SourcesTracked'
  BY <1>15, ReplicasAreProcs DEF FollowWinner, FallBack, Leave,
     StoreUnchanged
<1>16. ASSUME NEW r \in Replicas, KeepCurrent(r) PROVE SourcesTracked'
  BY <1>16, ReplicasAreProcs DEF KeepCurrent, FallBack, Leave, StoreUnchanged
<1>17. ASSUME NEW r \in Replicas, Serve(r) PROVE SourcesTracked'
  BY <1>17, ReplicasAreProcs DEF Serve, StoreUnchanged, Leave
<1>18. ASSUME NEW r \in Replicas, CandResponseLost(r) PROVE SourcesTracked'
  BY <1>18, ReplicasAreProcs DEF CandResponseLost
<1>19. ASSUME NEW r \in Replicas, FailedRefresh(r) PROVE SourcesTracked'
  BY <1>19, ReplicasAreProcs DEF FailedRefresh, StoreUnchanged, Leave
<1>20. ASSUME NEW p \in Publishers, StartExplicit(p) PROVE SourcesTracked'
  BY <1>20, ConstantFacts DEF StartExplicit, rootVars, tokenVars
<1>21. ASSUME NEW p \in Publishers, CheckExpected(p) PROVE SourcesTracked'
  BY <1>21, ConstantFacts DEF CheckExpected, ReadRef, workVars, Raise,
     OutcomeFrame, Leave
<1>22. ASSUME NEW p \in Procs, LockPublish(p) PROVE SourcesTracked'
  BY <1>22 DEF LockPublish, StoreUnchanged, tokenVars, workVars
<1>23. ASSUME NEW p \in Procs, ReadLatest(p) PROVE SourcesTracked'
  BY <1>23 DEF ReadLatest, Raise, Return, ReadRef, workVars, StoreUnchanged,
     Leave
<1>24. ASSUME NEW p \in Procs, CheckSnapshot(p) PROVE SourcesTracked'
  BY <1>24 DEF CheckSnapshot, rootVars, tokenVars
<1>25. ASSUME NEW p \in Procs, UploadFile(p) PROVE SourcesTracked'
  BY <1>25 DEF UploadFile, tokenVars
<1>26. ASSUME NEW p \in Procs, FinishSnapshot(p) PROVE SourcesTracked'
  BY <1>26 DEF FinishSnapshot, tokenVars, workVars
<1>27. ASSUME NEW p \in Procs, ConfirmSource(p) PROVE SourcesTracked'
  BY <1>27 DEF ConfirmSource, tokenVars, workVars, Raise, OutcomeFrame, Leave
<1>28. ASSUME NEW p \in Procs, WriteRef(p) PROVE SourcesTracked'
  BY <1>28 DEF WriteRef, RefUnchanged, PutRef, workVars, OthersTokens,
     Unprepared, FallbackLabels
<1>29. ASSUME NEW p \in Procs, ResolveConflict(p) PROVE SourcesTracked'
  BY <1>29 DEF ResolveConflict, ReadRef, workVars, Leave, OutcomeFrame
<1>30. ASSUME NEW p \in Procs, RecordPublished(p) PROVE SourcesTracked'
  BY <1>30 DEF RecordPublished, Return, StoreUnchanged, Leave
<1>31. ASSUME NEW p \in Procs, RaiseError(p) PROVE SourcesTracked'
  BY <1>31 DEF RaiseError, Raise, OutcomeFrame, Leave
<1>32. ASSUME NEW p \in Procs, Crash(p) PROVE SourcesTracked'
  BY <1>32 DEF Crash, Leave, StoreUnchanged
<1>33. ASSUME NEW p \in Procs, FailedRequest(p) PROVE SourcesTracked'
  BY <1>33 DEF FailedRequest, Raise, StoreUnchanged, Leave
<1>34. ASSUME NEW p \in Procs, SourceDrift(p) PROVE SourcesTracked'
  BY <1>34 DEF SourceDrift, Raise, OutcomeFrame, Leave
<1>35. ASSUME NEW p \in Procs, RefResponseLost(p) PROVE SourcesTracked'
  BY <1>35 DEF RefResponseLost, RefUnchanged, PutRefUnacknowledged, workVars,
     OthersTokens, Unprepared, FallbackLabels
<1>36. ASSUME NEW i \in Identities, ChangeSource(i) PROVE SourcesTracked'
  BY <1>36 DEF ChangeSource, rootVars, tokenVars, workVars
<1>37. CASE Tick
  BY <1>37 DEF Tick, tokenVars
<1>38. CASE UNCHANGED vars
  BY <1>38 DEF vars, rootVars, tokenVars, workVars
<1> QED
  BY <1>2, <1>3, <1>4, <1>5, <1>6, <1>7, <1>8, <1>9, <1>10, <1>11, <1>12,
     <1>13, <1>14, <1>15, <1>16, <1>17, <1>18, <1>19, <1>20, <1>21, <1>22,
     <1>23, <1>24, <1>25, <1>26, <1>27, <1>28, <1>29, <1>30, <1>31, <1>32,
     <1>33, <1>34, <1>35, <1>36, <1>37, <1>38 DEF Next, Refresh, Explicit,
     Publish, Fault


-----------------------------------------------------------------------------
(* Refinement.  Which step of Release each action is: FinishSnapshot       *)
(* commits, WriteRef supersedes, a refresh opens, closes or adopts, and    *)
(* everything else stutters.                                               *)

SafeInv ==
  /\ TypeInv
  /\ SnapshotInv
  /\ ConfirmedIsPublished
  /\ WindowInv
  /\ PublishedInv
  /\ LockProtectsReference
  /\ TransitionInv
  /\ OwnCandidate
  /\ ExpectedInv
  /\ ReleaseStays
  /\ SourcesTracked

(* The initial states satisfy the inductive invariant. *)
LEMMA SafeInit == Init => SafeInv
<1> SUFFICES ASSUME Init PROVE SafeInv
  OBVIOUS
<1>1. TypeInv
  BY TypeInit
<1>2. SnapshotInv
  BY DEF Init, RootInit, SnapshotInv, CommittedIsComplete, FilesAreListed,
         UploadsAddUp, ReleasingIsCommitted, Releasing
<1>3. ConfirmedIsPublished /\ PublishedInv /\ WindowInv
  BY ReplicasAreProcs
     DEF Init, RootInit, ConfirmedIsPublished, PublishedInv, WindowInv
<1>4. LockProtectsReference /\ TransitionInv
  BY RootNoneAssumption
     DEF Init, RootInit, LockProtectsReference, TransitionInv, SyncLabels,
         GuardedLabels
<1>5. OwnCandidate /\ ExpectedInv /\ ReleaseStays /\ SourcesTracked
  BY ConstantFacts
     DEF Init, RootInit, OwnCandidate, ExpectedInv, ReleaseStays, SourcesTracked
<1> QED
  BY <1>1, <1>2, <1>3, <1>4, <1>5 DEF SafeInv

(* Every step preserves the inductive invariant. *)
LEMMA SafeStep == SafeInv /\ [Next]_vars => SafeInv'
BY TypeStep, SnapshotStep, ConfirmedStep, WindowStep, PublishedStep, LockStep,
   TransitionStep, OwnCandidateStep, ExpectedStep, ReleaseStaysStep,
   SourcesTrackedStep DEF SafeInv

(* Every reachable state satisfies the inductive invariant: the parts      *)
(* below that a run checks, and what it takes to prove them.               *)
THEOREM SafeInvariant == Spec => []SafeInv
BY SafeInit, SafeStep, PTL DEF Spec

(* A manifest object, or a renamed folder, is only ever seen together with *)
(* every file it lists, for any number of publishers, crashes and faults.  *)
THEOREM SnapshotsAreComplete == Spec => []CommittedIsComplete
BY SafeInvariant, PTL DEF SafeInv, SnapshotInv

(* A process that skips hashing can rely on the snapshot being there. *)
THEOREM ConfirmedStaysPublished == Spec => []ConfirmedIsPublished
BY SafeInvariant, PTL DEF SafeInv

(* A filesystem root needs no conditional write: its lock is enough. *)
THEOREM LockIsEnough == Spec => []LockProtectsReference
BY SafeInvariant, PTL DEF SafeInv

(* Release shares the vocabulary of references with its implementation. *)
LEMMA SameVocabulary ==
  /\ Abstract!Refs = Refs
  /\ \A old, new : TransitionAllowed(old, new) => Abstract!TransitionAllowed(old, new)
BY DEF Abstract!Refs, Refs, Abstract!Sources, Sources, TransitionAllowed,
       Abstract!TransitionAllowed, SameType, Abstract!SameType

(* Initial states are initial states of Release. *)
LEMMA RefinementInit == Init => Abstract!Init
BY DEF Init, RootInit, Abstract!Init

(* Every step is a step of Release, or a stuttering one. *)
LEMMA RefinementStep ==
  ASSUME SafeInv, [Next]_vars
  PROVE  [Abstract!Next]_Abstract!vars
<1> DEFINE Stutter == UNCHANGED <<committed, ref, window, served>>
<1>1. /\ StoreTyped /\ PcTyped /\ AttemptTyped /\ RestTyped /\ Prepared
      /\ SnapshotInv /\ WindowInv /\ LockProtectsReference /\ TransitionInv
  BY TypeParts DEF SafeInv
<1>2. Stutter => [Abstract!Next]_Abstract!vars
  BY DEF Abstract!vars
<1>3. ASSUME NEW r \in Replicas, Abstract!Close(r)
      PROVE  [Abstract!Next]_Abstract!vars
  BY <1>3 DEF Abstract!Next
<1>4. ASSUME NEW r \in Replicas, PrepareSource(r) PROVE Stutter
  BY <1>4 DEF PrepareSource, rootVars, memoryVars
<1>5. ASSUME NEW r \in Replicas, EnsureCandidateMatches(r) PROVE Stutter
  BY <1>5 DEF EnsureCandidateMatches, rootVars, memoryVars
<1>6. ASSUME NEW r \in Replicas, ConfirmedFastPath(r) PROVE Stutter
  BY <1>6 DEF ConfirmedFastPath, OutcomeFrame, rootVars, memoryVars
<1>7. ASSUME NEW r \in Replicas, LockCandidate(r) PROVE Stutter
  BY <1>7 DEF LockCandidate, StoreUnchanged, memoryVars
<1>8. ASSUME NEW r \in Replicas, ReadCandidate(r) PROVE Stutter
  BY <1>8 DEF ReadCandidate, OutcomeFrame, memoryVars
<1>9. ASSUME NEW r \in Replicas, ConfirmCandidate(r) PROVE Stutter
  BY <1>9 DEF ConfirmCandidate, OutcomeFrame, memoryVars
<1>10. ASSUME NEW r \in Replicas, WriteCandidate(r) PROVE Stutter
  BY <1>10 DEF WriteCandidate, memoryVars
<1>11. ASSUME NEW r \in Replicas, RereadCandidate(r) PROVE Stutter
  BY <1>11 DEF RereadCandidate, OutcomeFrame, memoryVars
<1>12. ASSUME NEW r \in Replicas, CheckReady(r) PROVE Stutter
  BY <1>12 DEF CheckReady, OutcomeFrame, memoryVars
<1>13. ASSUME NEW r \in Replicas, BuildManifest(r) PROVE Stutter
  BY <1>13 DEF BuildManifest, memoryVars, StoreUnchanged
<1>14. ASSUME NEW r \in Replicas, RecheckCandidate(r) PROVE Stutter
  BY <1>14 DEF RecheckCandidate, OutcomeFrame, memoryVars
<1>15. ASSUME NEW r \in Replicas, RecheckElapsed(r) PROVE Stutter
  BY <1>15 DEF RecheckElapsed, OutcomeFrame, memoryVars
<1>16. ASSUME NEW r \in Replicas, CandResponseLost(r) PROVE Stutter
  BY <1>16 DEF CandResponseLost, memoryVars
<1>17. ASSUME NEW p \in Publishers, StartExplicit(p) PROVE Stutter
  BY <1>17 DEF StartExplicit, rootVars, memoryVars
<1>18. ASSUME NEW p \in Publishers, CheckExpected(p) PROVE Stutter
  BY <1>18 DEF CheckExpected, OutcomeFrame, memoryVars
<1>19. ASSUME NEW p \in Procs, LockPublish(p) PROVE Stutter
  BY <1>19 DEF LockPublish, StoreUnchanged, memoryVars
<1>20. ASSUME NEW p \in Procs, ReadLatest(p) PROVE Stutter
  BY <1>20 DEF ReadLatest, memoryVars, StoreUnchanged
<1>21. ASSUME NEW p \in Procs, CheckSnapshot(p) PROVE Stutter
  BY <1>21 DEF CheckSnapshot, rootVars, memoryVars
<1>22. ASSUME NEW p \in Procs, UploadFile(p) PROVE Stutter
  BY <1>22 DEF UploadFile, memoryVars
<1>23. ASSUME NEW p \in Procs, ConfirmSource(p) PROVE Stutter
  BY <1>23 DEF ConfirmSource, OutcomeFrame, memoryVars
<1>24. ASSUME NEW p \in Procs, ResolveConflict(p) PROVE Stutter
  BY <1>24 DEF ResolveConflict, OutcomeFrame, memoryVars
<1>25. ASSUME NEW p \in Procs, RecordPublished(p) PROVE Stutter
  BY <1>25 DEF RecordPublished, StoreUnchanged
<1>26. ASSUME NEW p \in Procs, RaiseError(p) PROVE Stutter
  BY <1>26 DEF RaiseError, OutcomeFrame, memoryVars
<1>27. ASSUME NEW p \in Procs, FailedRequest(p) PROVE Stutter
  BY <1>27 DEF FailedRequest, StoreUnchanged, memoryVars
<1>28. ASSUME NEW p \in Procs, SourceDrift(p) PROVE Stutter
  BY <1>28 DEF SourceDrift, OutcomeFrame, memoryVars
<1>29. ASSUME NEW i \in Identities, ChangeSource(i) PROVE Stutter
  BY <1>29 DEF ChangeSource, rootVars, memoryVars
<1>30. CASE Tick \/ UNCHANGED vars
  BY <1>2, <1>30 DEF Tick, vars, rootVars, memoryVars
<1>31. ASSUME NEW r \in Replicas, BeginRefresh(r) PROVE [Abstract!Next]_Abstract!vars
  BY <1>31 DEF BeginRefresh, rootVars, memoryVars, Abstract!Next, Abstract!Open
<1>32. ASSUME NEW r \in Replicas, FollowWinner(r) PROVE [Abstract!Next]_Abstract!vars
  <2>1. UNCHANGED <<committed, ref, served>>
    BY <1>32 DEF FollowWinner, FallBack, StoreUnchanged, memoryVars
  <2>2. \/ UNCHANGED window
        \/ window' = [window EXCEPT ![r] = {}]
    BY <1>32 DEF FollowWinner, FallBack, EndRefresh
  <2> QED
    BY <1>2, <1>3, <2>1, <2>2 DEF Abstract!Close
<1>33. ASSUME NEW r \in Replicas, KeepCurrent(r) PROVE [Abstract!Next]_Abstract!vars
  <2>1. UNCHANGED <<committed, ref, served>>
    BY <1>33 DEF KeepCurrent, FallBack, StoreUnchanged, memoryVars
  <2>2. \/ UNCHANGED window
        \/ window' = [window EXCEPT ![r] = {}]
    BY <1>33 DEF KeepCurrent, FallBack, EndRefresh
  <2> QED
    BY <1>2, <1>3, <2>1, <2>2 DEF Abstract!Close
<1>34. ASSUME NEW r \in Replicas, FailedRefresh(r) PROVE [Abstract!Next]_Abstract!vars
  BY <1>3, <1>34
     DEF FailedRefresh, EndRefresh, StoreUnchanged, memoryVars, Abstract!Close
<1>35. ASSUME NEW r \in Replicas, Serve(r) PROVE [Abstract!Next]_Abstract!vars
  <2>1. cur[r] \in window[r] /\ cur[r].version \in committed
    BY <1>1, <1>35, ReplicasAreProcs DEF Serve, WindowInv
  <2>2. Fetchable(cur[r].version)
    BY <1>1, <2>1 DEF Fetchable, SnapshotExists, SnapshotInv, CommittedIsComplete
  <2>3. /\ served' = [served EXCEPT ![r] = cur[r]]
        /\ window' = [window EXCEPT ![r] = {}]
        /\ UNCHANGED <<committed, ref>>
    BY <1>35, <2>2 DEF Serve, EndRefresh, StoreUnchanged
  <2>4. Abstract!Adopt(r)
    BY <2>1, <2>3 DEF Abstract!Adopt
  <2> QED
    BY <2>4 DEF Abstract!Next
<1>36. ASSUME NEW p \in Procs, FinishSnapshot(p) PROVE [Abstract!Next]_Abstract!vars
  <2>1. TargetVersion(p) \in Versions
    BY <1>1, <1>36, ConstantFacts
       DEF FinishSnapshot, Prepared, Unprepared, FallbackLabels, TargetVersion
  <2>2. Abstract!Commit(TargetVersion(p))
    BY <1>36 DEF FinishSnapshot, CommitSnapshot, memoryVars, Abstract!Commit
  <2> QED
    BY <2>1, <2>2 DEF Abstract!Next
<1>37. ASSUME NEW p \in Procs, WriteRef(p) PROVE [Abstract!Next]_Abstract!vars
  <2>1. Target(p) \in Refs /\ Target(p).version \in committed
    BY <1>1, <1>37, ConstantFacts
       DEF WriteRef, SnapshotInv, ReleasingIsCommitted, Releasing, Target, RefFor,
           TargetVersion, Prepared, Unprepared, FallbackLabels
  <2>2. RefUnchanged(p) => TransitionAllowed(ref, Target(p))
    <3>1. RefUnchanged(p) => refTok[p] = ref
      BY <1>1, <1>37 DEF WriteRef, RefUnchanged, LockProtectsReference
    <3>2. ref # StaleToken
      BY <1>1, RootNoneAssumption DEF StoreTyped
    <3> QED
      BY <1>1, <1>37, <3>1, <3>2 DEF WriteRef, TransitionInv
  <2> DEFINE watching == {r \in Replicas : pc[r] # "idle"}
  <2>3. ASSUME ref' = Target(p), ShowRelease(Target(p)), RefUnchanged(p),
               UNCHANGED <<committed, served>>
        PROVE  Abstract!Supersede(Target(p), watching)
    <3>1. Abstract!TransitionAllowed(ref, Target(p))
      BY <2>2, <2>3, SameVocabulary
    <3>2. window' = [r \in Replicas |-> IF r \in watching
                                         THEN window[r] \cup {Target(p)}
                                         ELSE window[r]]
      BY <2>3 DEF ShowRelease
    <3> QED
      BY <2>1, <2>3, <3>1, <3>2 DEF Abstract!Supersede
  <2>4. \/ Stutter
        \/ Abstract!Supersede(Target(p), watching)
    BY <1>37, <2>3 DEF WriteRef, PutRef, memoryVars
  <2> QED
    BY <1>2, <2>1, <2>4, SameVocabulary DEF Abstract!Next
<1>38. ASSUME NEW p \in Procs, RefResponseLost(p) PROVE [Abstract!Next]_Abstract!vars
  <2>1. Target(p) \in Refs /\ Target(p).version \in committed
    BY <1>1, <1>38, ConstantFacts
       DEF RefResponseLost, SnapshotInv, ReleasingIsCommitted, Releasing, Target, RefFor,
           TargetVersion, Prepared, Unprepared, FallbackLabels
  <2>2. RefUnchanged(p) => TransitionAllowed(ref, Target(p))
    <3>1. RefUnchanged(p) => refTok[p] = ref
      BY <1>1, <1>38 DEF RefResponseLost, RefUnchanged, LockProtectsReference
    <3>2. ref # StaleToken
      BY <1>1, RootNoneAssumption DEF StoreTyped
    <3> QED
      BY <1>1, <1>38, <3>1, <3>2 DEF RefResponseLost, TransitionInv
  <2> DEFINE watching == {r \in Replicas : pc[r] # "idle"}
  <2>3. ASSUME ref' = Target(p), ShowRelease(Target(p)), RefUnchanged(p),
               UNCHANGED <<committed, served>>
        PROVE  Abstract!Supersede(Target(p), watching)
    <3>1. Abstract!TransitionAllowed(ref, Target(p))
      BY <2>2, <2>3, SameVocabulary
    <3>2. window' = [r \in Replicas |-> IF r \in watching
                                         THEN window[r] \cup {Target(p)}
                                         ELSE window[r]]
      BY <2>3 DEF ShowRelease
    <3> QED
      BY <2>1, <2>3, <3>1, <3>2 DEF Abstract!Supersede
  <2>4. Abstract!Supersede(Target(p), watching)
    BY <1>38, <2>3 DEF RefResponseLost, PutRefUnacknowledged, memoryVars
  <2> QED
    BY <2>1, <2>4, SameVocabulary DEF Abstract!Next
<1>39. ASSUME NEW p \in Procs, Crash(p) PROVE [Abstract!Next]_Abstract!vars
  <2>1. CASE p \in Replicas
    BY <1>39, <2>1 DEF Crash, StoreUnchanged, Abstract!Next, Abstract!Restart
  <2>2. CASE p \notin Replicas
    BY <1>39, <1>2, <2>2 DEF Crash, StoreUnchanged, memoryVars
  <2> QED
    BY <2>1, <2>2
<1> QED
  BY <1>2, <1>4, <1>5, <1>6, <1>7, <1>8, <1>9, <1>10, <1>11, <1>12, <1>13,
     <1>14, <1>15, <1>16, <1>17, <1>18, <1>19, <1>20, <1>21, <1>22, <1>23,
     <1>24, <1>25, <1>26, <1>27, <1>28, <1>29, <1>30, <1>31, <1>32, <1>33,
     <1>34, <1>35, <1>36, <1>37, <1>38, <1>39 DEF Next, Refresh, Explicit,
     Publish, Fault

(* Publication keeps the promise that Release makes to its readers. *)
THEOREM ImplementsRelease == Spec => RefinesRelease
<1>1. SafeInv /\ [Next]_vars => [Abstract!Next]_Abstract!vars
  BY RefinementStep
<1> QED
  BY <1>1, RefinementInit, SafeInvariant, PTL DEF Spec, RefinesRelease, Abstract!Spec

-----------------------------------------------------------------------------
(* What a single step may never do. *)

(* No step makes the candidate change over to another source. *)
LEMMA CandidateStep ==
  ASSUME TypeInv, LockProtectsReference, OwnCandidate, [Next]_vars, cand # NoCand
  PROVE  cand'.identity = cand.identity
<1>1. StoreTyped /\ PcTyped /\ AttemptTyped
  BY TypeParts
<1> DEFINE Kept == cand'.identity = cand.identity
<1> SUFFICES Kept
  OBVIOUS
<1> USE <1>1 DEF StoreTyped
<1>2. ASSUME NEW r \in Replicas, BeginRefresh(r) PROVE Kept
  BY <1>2, ReplicasAreProcs DEF BeginRefresh, rootVars
<1>3. ASSUME NEW r \in Replicas, PrepareSource(r) PROVE Kept
  BY <1>3, ReplicasAreProcs DEF PrepareSource, rootVars
<1>4. ASSUME NEW r \in Replicas, EnsureCandidateMatches(r) PROVE Kept
  BY <1>4, ReplicasAreProcs DEF EnsureCandidateMatches, rootVars
<1>5. ASSUME NEW r \in Replicas, ConfirmedFastPath(r) PROVE Kept
  BY <1>5, ReplicasAreProcs DEF ConfirmedFastPath, Return, OutcomeFrame,
     rootVars
<1>6. ASSUME NEW r \in Replicas, LockCandidate(r) PROVE Kept
  BY <1>6, ReplicasAreProcs DEF LockCandidate, AcquireGuard, StoreUnchanged
<1>7. ASSUME NEW r \in Replicas, ReadCandidate(r) PROVE Kept
  BY <1>7, ReplicasAreProcs DEF ReadCandidate, OutcomeFrame
<1>8. ASSUME NEW r \in Replicas, ConfirmCandidate(r) PROVE Kept
  BY <1>8, ReplicasAreProcs DEF ConfirmCandidate, OutcomeFrame
<1>9. ASSUME NEW r \in Replicas, WriteCandidate(r) PROVE Kept
  BY <1>9, ReplicasAreProcs DEF WriteCandidate, PutCand, OwnCandidate,
     CandidateIsForeign
<1>10. ASSUME NEW r \in Replicas, RereadCandidate(r) PROVE Kept
  BY <1>10, ReplicasAreProcs DEF RereadCandidate, OutcomeFrame
<1>11. ASSUME NEW r \in Replicas, CheckReady(r) PROVE Kept
  BY <1>11, ReplicasAreProcs DEF CheckReady, Return, OutcomeFrame
<1>12. ASSUME NEW r \in Replicas, BuildManifest(r) PROVE Kept
  BY <1>12, ReplicasAreProcs DEF BuildManifest, Return, StoreUnchanged
<1>13. ASSUME NEW r \in Replicas, RecheckCandidate(r) PROVE Kept
  BY <1>13, ReplicasAreProcs DEF RecheckCandidate, OutcomeFrame
<1>14. ASSUME NEW r \in Replicas, RecheckElapsed(r) PROVE Kept
  BY <1>14, ReplicasAreProcs DEF RecheckElapsed, OutcomeFrame
<1>15. ASSUME NEW r \in Replicas, FollowWinner(r) PROVE Kept
  BY <1>15, ReplicasAreProcs DEF FollowWinner, FallBack, EndRefresh,
     StoreUnchanged
<1>16. ASSUME NEW r \in Replicas, KeepCurrent(r) PROVE Kept
  BY <1>16, ReplicasAreProcs DEF KeepCurrent, FallBack, EndRefresh,
     StoreUnchanged
<1>17. ASSUME NEW r \in Replicas, Serve(r) PROVE Kept
  BY <1>17, ReplicasAreProcs DEF Serve, EndRefresh, StoreUnchanged
<1>18. ASSUME NEW r \in Replicas, CandResponseLost(r) PROVE Kept
  BY <1>18, ReplicasAreProcs DEF CandResponseLost, PutCand, OwnCandidate,
     CandidateIsForeign
<1>19. ASSUME NEW r \in Replicas, FailedRefresh(r) PROVE Kept
  BY <1>19, ReplicasAreProcs DEF FailedRefresh, FallbackLabels, EndRefresh,
     StoreUnchanged
<1>20. ASSUME NEW p \in Publishers, StartExplicit(p) PROVE Kept
  BY <1>20, ConstantFacts DEF StartExplicit, rootVars
<1>21. ASSUME NEW p \in Publishers, CheckExpected(p) PROVE Kept
  BY <1>21, ConstantFacts DEF CheckExpected, OutcomeFrame
<1>22. ASSUME NEW p \in Procs, LockPublish(p) PROVE Kept
  BY <1>22 DEF LockPublish, AcquireGuard, StoreUnchanged
<1>23. ASSUME NEW p \in Procs, ReadLatest(p) PROVE Kept
  BY <1>23 DEF ReadLatest, Return, StoreUnchanged
<1>24. ASSUME NEW p \in Procs, CheckSnapshot(p) PROVE Kept
  BY <1>24 DEF CheckSnapshot, rootVars
<1>25. ASSUME NEW p \in Procs, UploadFile(p) PROVE Kept
  BY <1>25 DEF UploadFile
<1>26. ASSUME NEW p \in Procs, FinishSnapshot(p) PROVE Kept
  BY <1>26 DEF FinishSnapshot
<1>27. ASSUME NEW p \in Procs, ConfirmSource(p) PROVE Kept
  BY <1>27 DEF ConfirmSource, OutcomeFrame
<1>28. ASSUME NEW p \in Procs, WriteRef(p) PROVE Kept
  BY <1>28 DEF WriteRef, RefUnchanged, PutRef, OthersTokens
<1>29. ASSUME NEW p \in Procs, ResolveConflict(p) PROVE Kept
  BY <1>29 DEF ResolveConflict, OutcomeFrame
<1>30. ASSUME NEW p \in Procs, RecordPublished(p) PROVE Kept
  BY <1>30 DEF RecordPublished, Return, StoreUnchanged
<1>31. ASSUME NEW p \in Procs, RaiseError(p) PROVE Kept
  BY <1>31 DEF RaiseError, OutcomeFrame
<1>32. ASSUME NEW p \in Procs, Crash(p) PROVE Kept
  BY <1>32 DEF Crash, StoreUnchanged
<1>33. ASSUME NEW p \in Procs, FailedRequest(p) PROVE Kept
  BY <1>33 DEF FailedRequest, FallbackLabels, StoreUnchanged
<1>34. ASSUME NEW p \in Procs, SourceDrift(p) PROVE Kept
  BY <1>34 DEF SourceDrift, OutcomeFrame
<1>35. ASSUME NEW p \in Procs, RefResponseLost(p) PROVE Kept
  BY <1>35 DEF RefResponseLost, RefUnchanged, PutRefUnacknowledged,
     OthersTokens
<1>36. ASSUME NEW i \in Identities, ChangeSource(i) PROVE Kept
  BY <1>36 DEF ChangeSource, rootVars
<1>37. CASE Tick
  BY <1>37 DEF Tick, Cands
<1>38. CASE UNCHANGED vars
  BY <1>38 DEF vars, rootVars
<1> QED
  BY <1>2, <1>3, <1>4, <1>5, <1>6, <1>7, <1>8, <1>9, <1>10, <1>11, <1>12,
     <1>13, <1>14, <1>15, <1>16, <1>17, <1>18, <1>19, <1>20, <1>21, <1>22,
     <1>23, <1>24, <1>25, <1>26, <1>27, <1>28, <1>29, <1>30, <1>31, <1>32,
     <1>33, <1>34, <1>35, <1>36, <1>37, <1>38 DEF Next, Refresh, Explicit,
     Publish, Fault

(* No step makes the release change over to another source of its type:    *)
(* that is the transition check, which the refinement carries to the write.*)
LEMMA ReleaseStep ==
  ASSUME SafeInv, SafeInv', [Next]_vars, ref # NoRef, ref.source # NoSource,
         SameType(ref.source.identity, ref'.source.identity)
  PROVE  ref'.source.identity = ref.source.identity
<1>1. [Abstract!Next]_Abstract!vars
  BY RefinementStep DEF SafeInv
<1>2. CASE ref' = ref
  BY <1>2
<1>3. ASSUME NEW new \in Abstract!Refs, NEW watching \in SUBSET Replicas,
             Abstract!Supersede(new, watching)
      PROVE  ref'.source.identity = ref.source.identity
  <2>1. ref' = new /\ ref' \in Refs /\ TransitionAllowed(ref, new)
    BY <1>3, SameVocabulary DEF Abstract!Supersede,
       Abstract!TransitionAllowed, TransitionAllowed, SameType, Abstract!SameType
  <2>2. ref' # NoRef /\ TracksSource
    BY <2>1, NoneAssumption DEF SafeInv, SourcesTracked
  <2>3. ref'.source # NoSource
    BY <2>2 DEF SafeInv, SourcesTracked
  <2> QED
    BY <2>1, <2>3 DEF TransitionAllowed
<1> QED
  BY <1>1, <1>2, <1>3 DEF Abstract!Next, Abstract!vars, Abstract!Commit,
     Abstract!Open, Abstract!Close, Abstract!Adopt, Abstract!Restart

(* A refresh that ends, and is not ended by a failing request or a crash,  *)
(* serves a release that it has seen current.                              *)
LEMMA RefreshStep ==
  ASSUME SafeInv, [Next]_vars, NEW q \in Replicas,
         pc[q] # "idle", pc'[q] = "idle", window[q] # {}, budget' = budget
  PROVE  served'[q] \in window[q]
<1>1. PcTyped /\ AttemptTyped /\ RestTyped /\ WindowInv /\ SnapshotInv
  BY TypeParts DEF SafeInv, TypeInv
<1>0. ref # NoRef /\ q \in Procs
  BY ReplicasAreProcs DEF SafeInv, ReleaseStays
<1>00. /\ \A n \in Nat : n > 0 => n - 1 # n
       /\ budget.crashes \in Nat /\ budget.faults \in Nat
  BY <1>1, ProcessAssumption DEF RestTyped, Budgets
<1> DEFINE Served == served'[q] \in window[q]
<1> SUFFICES Served
  OBVIOUS
<1> USE <1>1, <1>0 DEF PcTyped
<1>2. ASSUME NEW r \in Replicas, BeginRefresh(r) PROVE Served
  BY <1>2, ReplicasAreProcs DEF BeginRefresh, Goto
<1>3. ASSUME NEW r \in Replicas, PrepareSource(r) PROVE Served
  BY <1>3, ReplicasAreProcs DEF PrepareSource, Goto
<1>4. ASSUME NEW r \in Replicas, EnsureCandidateMatches(r) PROVE Served
  BY <1>4, ReplicasAreProcs DEF EnsureCandidateMatches, Goto
<1>5. ASSUME NEW r \in Replicas, ConfirmedFastPath(r) PROVE Served
  BY <1>5, ReplicasAreProcs DEF ConfirmedFastPath, Return, Goto, Leave
<1>6. ASSUME NEW r \in Replicas, LockCandidate(r) PROVE Served
  BY <1>6, ReplicasAreProcs DEF LockCandidate, AcquireGuard, Goto
<1>7. ASSUME NEW r \in Replicas, ReadCandidate(r) PROVE Served
  BY <1>7, ReplicasAreProcs DEF ReadCandidate, Synchronized, Raise, Goto,
     Leave
<1>8. ASSUME NEW r \in Replicas, ConfirmCandidate(r) PROVE Served
  BY <1>8, ReplicasAreProcs DEF ConfirmCandidate, Goto, Raise, Leave
<1>9. ASSUME NEW r \in Replicas, WriteCandidate(r) PROVE Served
  BY <1>9, ReplicasAreProcs DEF WriteCandidate, Synchronized, Goto
<1>10. ASSUME NEW r \in Replicas, RereadCandidate(r) PROVE Served
  BY <1>10, ReplicasAreProcs DEF RereadCandidate, Synchronized, Raise, Goto,
     Leave
<1>11. ASSUME NEW r \in Replicas, CheckReady(r) PROVE Served
  BY <1>11, ReplicasAreProcs DEF CheckReady, Goto, Raise, Return, Leave
<1>12. ASSUME NEW r \in Replicas, BuildManifest(r) PROVE Served
  BY <1>12, ReplicasAreProcs DEF BuildManifest, Raise, Return, Goto, Leave
<1>13. ASSUME NEW r \in Replicas, RecheckCandidate(r) PROVE Served
  BY <1>13, ReplicasAreProcs DEF RecheckCandidate, Goto, Raise, Leave
<1>14. ASSUME NEW r \in Replicas, RecheckElapsed(r) PROVE Served
  BY <1>14, ReplicasAreProcs DEF RecheckElapsed, Goto, Raise, Leave
<1>15. ASSUME NEW r \in Replicas, FollowWinner(r) PROVE Served
  <2>1. pc' = [pc EXCEPT ![r] = pc'[r]] /\ pc'[r] # "idle"
    BY <1>15, ReplicasAreProcs DEF FollowWinner, FallBack, WinningRelease,
       Leave, Goto, AttemptTyped
  <2> QED
    BY <2>1, ReplicasAreProcs
<1>16. ASSUME NEW r \in Replicas, KeepCurrent(r) PROVE Served
  <2>1. pc' = [pc EXCEPT ![r] = pc'[r]] /\ pc'[r] # "idle"
    BY <1>16, ReplicasAreProcs DEF KeepCurrent, FallBack, KeptRelease, Leave,
       Goto, AttemptTyped
  <2> QED
    BY <2>1, ReplicasAreProcs
<1>17. ASSUME NEW r \in Replicas, Serve(r) PROVE Served
  <2>1. pc' = [pc EXCEPT ![r] = "idle"]
    BY <1>17 DEF Serve, EndRefresh, Leave, Goto
  <2>2. q = r
    BY <2>1, ReplicasAreProcs
  <2>3. cur[q] \in window[q] /\ cur[q].version \in committed
    BY <1>17, <2>2 DEF Serve, WindowInv
  <2>4. Fetchable(cur[q].version)
    BY <2>3 DEF Fetchable, SnapshotExists, SnapshotInv, CommittedIsComplete
  <2> QED
    BY <1>17, <2>2, <2>3, <2>4 DEF Serve, RestTyped
<1>18. ASSUME NEW r \in Replicas, CandResponseLost(r) PROVE Served
  BY <1>18, ReplicasAreProcs DEF CandResponseLost, Goto
<1>19. ASSUME NEW r \in Replicas, FailedRefresh(r) PROVE Served
  <2>1. budget' # budget
    BY <1>19, <1>1, <1>00 DEF FailedRefresh, RestTyped, Budgets
  <2> QED
    BY <2>1
<1>20. ASSUME NEW p \in Publishers, StartExplicit(p) PROVE Served
  BY <1>20, ConstantFacts, ProcessAssumption DEF StartExplicit, Goto
<1>21. ASSUME NEW p \in Publishers, CheckExpected(p) PROVE Served
  BY <1>21, ConstantFacts, ProcessAssumption DEF CheckExpected, Goto, Raise,
     Leave
<1>22. ASSUME NEW p \in Procs, LockPublish(p) PROVE Served
  BY <1>22, ProcessAssumption DEF LockPublish, AcquireGuard, Goto
<1>23. ASSUME NEW p \in Procs, ReadLatest(p) PROVE Served
  BY <1>23, ProcessAssumption DEF ReadLatest, Raise, Return, Goto, Leave
<1>24. ASSUME NEW p \in Procs, CheckSnapshot(p) PROVE Served
  BY <1>24, ProcessAssumption DEF CheckSnapshot, Goto
<1>25. ASSUME NEW p \in Procs, UploadFile(p) PROVE Served
  BY <1>25, ProcessAssumption DEF UploadFile
<1>26. ASSUME NEW p \in Procs, FinishSnapshot(p) PROVE Served
  BY <1>26, ProcessAssumption DEF FinishSnapshot, Goto
<1>27. ASSUME NEW p \in Procs, ConfirmSource(p) PROVE Served
  BY <1>27, ProcessAssumption DEF ConfirmSource, Goto, Raise, Leave
<1>28. ASSUME NEW p \in Procs, WriteRef(p) PROVE Served
  BY <1>28, ProcessAssumption DEF WriteRef, RefUnchanged, PutRef, Goto,
     OthersTokens
<1>29. ASSUME NEW p \in Procs, ResolveConflict(p) PROVE Served
  BY <1>29, ProcessAssumption DEF ResolveConflict, Goto, Leave
<1>30. ASSUME NEW p \in Procs, RecordPublished(p) PROVE Served
  BY <1>30, ProcessAssumption DEF RecordPublished, Return, Leave, Goto
<1>31. ASSUME NEW p \in Procs, RaiseError(p) PROVE Served
  BY <1>31, ProcessAssumption DEF RaiseError, Raise, Leave, Goto
<1>32. ASSUME NEW p \in Procs, Crash(p) PROVE Served
  <2>1. budget' # budget
    BY <1>32, <1>1, <1>00 DEF Crash, RestTyped, Budgets
  <2> QED
    BY <2>1
<1>33. ASSUME NEW p \in Procs, FailedRequest(p) PROVE Served
  <2>1. budget' # budget
    BY <1>33, <1>1, <1>00 DEF FailedRequest, RestTyped, Budgets
  <2> QED
    BY <2>1
<1>34. ASSUME NEW p \in Procs, SourceDrift(p) PROVE Served
  BY <1>34, ProcessAssumption DEF SourceDrift, Raise, Leave, Goto
<1>35. ASSUME NEW p \in Procs, RefResponseLost(p) PROVE Served
  BY <1>35, ProcessAssumption DEF RefResponseLost, RefUnchanged,
     PutRefUnacknowledged, Goto, OthersTokens
<1>36. ASSUME NEW i \in Identities, ChangeSource(i) PROVE Served
  BY <1>36 DEF ChangeSource
<1>37. CASE Tick
  BY <1>37 DEF Tick
<1>38. CASE UNCHANGED vars
  BY <1>38 DEF vars
<1> QED
  BY <1>2, <1>3, <1>4, <1>5, <1>6, <1>7, <1>8, <1>9, <1>10, <1>11, <1>12,
     <1>13, <1>14, <1>15, <1>16, <1>17, <1>18, <1>19, <1>20, <1>21, <1>22,
     <1>23, <1>24, <1>25, <1>26, <1>27, <1>28, <1>29, <1>30, <1>31, <1>32,
     <1>33, <1>34, <1>35, <1>36, <1>37, <1>38 DEF Next, Refresh, Explicit,
     Publish, Fault

(* However many replicas race for an empty root, the shared candidate never*)
(* changes over to another source, and a release never to another source of*)
(* the same type: object_source.py does not compare across types, so an S3 *)
(* and a GCS publisher of one root do replace each other's releases.       *)
THEOREM OneSourceForEver == Spec => OneSourcePerBundle
<1>1. SafeInv /\ SafeInv' /\ [Next]_vars =>
        [/\ cand # NoCand => cand'.identity = cand.identity
         /\ /\ ref # NoRef /\ ref.source # NoSource
            /\ SameType(ref.source.identity, ref'.source.identity)
            => ref'.source.identity = ref.source.identity]_vars
  BY CandidateStep, ReleaseStep DEF SafeInv
<1> QED
  BY <1>1, SafeInvariant, PTL DEF Spec, OneSourcePerBundle

(* Whatever becomes of the publication attempt of a refresh, it serves a   *)
(* release that was current meanwhile, if there was one.                   *)
THEOREM RefreshAlwaysServes == Spec => RefreshServes
<1>1. SafeInv /\ [Next]_vars =>
        [\A r \in Replicas :
           /\ pc[r] # "idle" /\ pc'[r] = "idle"
           /\ window[r] # {}
           /\ budget' = budget
           => served'[r] \in window[r]]_vars
  BY RefreshStep
<1> QED
  BY <1>1, SafeInvariant, PTL DEF Spec, RefreshServes

(* On a root with a lock, what --expected-current-version was compared     *)
(* with is what gets replaced.  Without one that is not so.                *)
THEOREM LockKeepsExpectation ==
  ASSUME Locking
  PROVE  Spec => ExpectedVersionRespected
<1>1. SafeInv /\ [Next]_vars =>
        [\A p \in Publishers :
           /\ pc[p] = "putRef" /\ expected[p] # NoVersion
           /\ ref' # ref /\ pc'[p] # pc[p]
           => ref.version = expected[p]]_vars
  BY DEF SafeInv, ExpectedInv
<1> QED
  BY <1>1, SafeInvariant, PTL DEF Spec, ExpectedVersionRespected
=============================================================================
