---------------------------- MODULE StabilityProofs --------------------------
(***************************************************************************)
(* What the stability period is for, proved for every value of the         *)
(* constants: on every kind of root nothing is released before its time,   *)
(* and under the lock of a filesystem root the period is one of the shared *)
(* candidate, which does not go back to an observation older than one that *)
(* another replica settled on.                                             *)
(***************************************************************************)
EXTENDS StabilityHistory, PublicationProofs

-----------------------------------------------------------------------------
(* The record of the past.                                                 *)

FirstTyped == DOMAIN first \subseteq Sources /\ first \in [DOMAIN first -> Ages]

RecordTyped ==
  /\ ripe \subseteq Sources
  /\ FirstTyped
  /\ looked \in [Replicas -> Ages]
  /\ settled \in [Sources -> Ages]

(* Ages are numbers, and grow with the clock. *)
LEMMA AgesGrow ==
  /\ Ages \subseteq Nat
  /\ \A a \in Ages : Older(a) \in Ages /\ a <= Older(a) /\ a <= Stability
  /\ \A a, b \in Ages : a <= b => Older(a) <= Older(b)
BY StabilityAssumption DEF Ages, Older

(* What is recorded keeps its type. *)
LEMMA RecordTypedStep ==
  ASSUME TypeOK, TypeOK', RecordTyped, RecordHistory
  PROVE  RecordTyped'
<1>1. /\ cand' # NoCand => Recorded(cand') \in Sources /\ cand'.age \in Ages
      /\ 0 \in Ages /\ Stability \in Ages /\ \A a \in Ages : Older(a) \in Ages
  BY ConstantFacts, StabilityAssumption DEF TypeOK, RootTypeOK, Cands,
     Recorded, Sources, Ages
<1>2. ripe' \subseteq Sources
  BY <1>1 DEF RecordTyped, RecordHistory
<1>3. FirstTyped'
  BY <1>1 DEF RecordTyped, FirstTyped, RecordHistory
<1>4. looked' \in [Replicas -> Ages]
  BY <1>1 DEF RecordTyped, RecordHistory, AgeOfLook
<1>5. ASSUME NEW o, NEW age_o \in Ages, NEW agreeing \in SUBSET Replicas
      PROVE  AgeOfAgreement(age_o, o, agreeing) \in Ages
  <2> DEFINE looks == {looked[r] : r \in {q \in agreeing : Observation(q) = o}}
  <2> DEFINE before == IF Tick THEN Older(age_o) ELSE age_o
  <2>1. looks \subseteq Ages
    BY DEF RecordTyped
  <2>2. before \in Ages
    BY <1>1
  <2>3. (\E l \in looks : l < before) => (CHOOSE l \in looks : TRUE) \in looks
    OBVIOUS
  <2> HIDE DEF looks, before
  <2>4. (IF \E l \in looks : l < before THEN CHOOSE l \in looks : TRUE ELSE before) \in Ages
    BY <2>1, <2>2, <2>3
  <2> QED
    BY <2>4 DEF AgeOfAgreement, looks, before
<1>6. settled' \in [Sources -> Ages]
  <2>1. {r \in Replicas : Settles(r)} \in SUBSET Replicas
    OBVIOUS
  <2>2. \A o \in Sources : settled[o] \in Ages
    BY DEF RecordTyped
  <2> QED
    BY <1>5, <2>1, <2>2 DEF RecordHistory
<1> QED
  BY <1>2, <1>3, <1>4, <1>6 DEF RecordTyped

(* First timestamps are kept, and grow older with the clock; only the      *)
(* candidate brings a new one.                                             *)
LEMMA FirstGrows ==
  ASSUME StoreTyped, StoreTyped', FirstTyped, RecordHistory
  PROVE  /\ \A o \in DOMAIN first : o \in DOMAIN first' /\ first[o] <= first'[o]
                                    /\ (Tick => first'[o] = Older(first[o]))
         /\ \A o \in DOMAIN first' : o \in DOMAIN first \/ (cand' # NoCand /\ o = Recorded(cand'))
         /\ cand' # NoCand => /\ Recorded(cand') \in DOMAIN first'
                              /\ Recorded(cand') \notin DOMAIN first
                                   => first'[Recorded(cand')] = cand'.age
<1> DEFINE new == {Recorded(c) : c \in {cand'} \ {NoCand}}
<1>1. /\ DOMAIN first' = DOMAIN first \cup new
      /\ \A o \in DOMAIN first : first'[o] = IF Tick THEN Older(first[o]) ELSE first[o]
      /\ \A o \in new \ DOMAIN first : first'[o] = cand'.age
  BY DEF RecordHistory
<1>2. \A o \in DOMAIN first : first[o] \in Ages
  BY DEF FirstTyped
<1>3. \A o : o \in new <=> cand' # NoCand /\ o = Recorded(cand')
  OBVIOUS
<1> HIDE DEF new
<1>4. \A o \in DOMAIN first : first[o] <= first'[o] /\ (Tick => first'[o] = Older(first[o]))
  <2>1. CASE Tick
    BY <1>1, <1>2, <2>1, AgesGrow
  <2>2. CASE ~Tick
    BY <1>1, <1>2, AgesGrow DEF Ages
  <2> QED
    BY <2>1, <2>2
<1> QED
  BY <1>1, <1>3, <1>4

(* An agreement is forgotten no faster than the clock runs, unless a       *)
(* replica settles on the same observation anew.                           *)
LEMMA AgreementGrows ==
  ASSUME RecordTyped, RecordHistory, NEW o \in Sources,
         \A q \in Replicas : ~ (Settles(q) /\ Observation(q) = o)
  PROVE  settled[o] <= settled'[o] /\ (Tick => settled'[o] = Older(settled[o]))
<1> DEFINE settling == {r \in Replicas : Settles(r)}
<1>1. settled'[o] = AgeOfAgreement(settled[o], o, settling) /\ settled[o] \in Ages
  BY DEF RecordHistory, RecordTyped
<1>2. AgeOfAgreement(settled[o], o, settling) = IF Tick THEN Older(settled[o]) ELSE settled[o]
  <2> DEFINE looks == {looked[r] : r \in {q \in settling : Observation(q) = o}}
  <2>1. looks = {}
    OBVIOUS
  <2> QED
    BY DEF AgeOfAgreement
<1>3. CASE Tick
  BY <1>1, <1>2, <1>3, AgesGrow
<1>4. CASE ~Tick
  <2>1. settled'[o] = settled[o] /\ settled[o] \in Nat
    BY <1>1, <1>2, <1>4, AgesGrow
  <2> QED
    BY <2>1, <1>4
<1> QED
  BY <1>3, <1>4

-----------------------------------------------------------------------------
(* What a step means for the stability period: the progress of a replica   *)
(* towards the release of what it prepared.                                *)

WritingLabels == {"latest", "snapshot", "upload", "confirm", "putRef"}
EarnedLabels == {"build", "lockPublish", "recheck", "recheckElapsed",
                 "refConflict", "published"} \cup WritingLabels

(* r keeps the observation it prepared and the one it has confirmed. *)
Keeps(r) == prep'[r] = prep[r] /\ conf'[r] = conf[r]

Rests(r) == /\ Keeps(r) /\ pc'[r] = pc[r] /\ age'[r] = age[r]
            /\ candLive'[r] => candLive[r]

(* The attempt is over, or not begun; its observation may be confirmed now.*)
Drops(r) == /\ pc'[r] \in Unprepared \cup {"error"}
            /\ \/ conf'[r] \in {conf[r], NoSig}
               \/ pc[r] \in EarnedLabels /\ conf'[r] = prep[r]

Looks(r) == /\ pc[r] = "prepare" /\ conf'[r] = conf[r]
            /\ pc'[r] = "ensure" => prep'[r] = conf[r]
            /\ pc'[r] \in {"ensure", "lockCandidate"}

(* r brings the candidate in step with what it prepared. *)
Reconciles(r) ==
  /\ Keeps(r)
  /\ \/ pc[r] = "ensure" /\ pc'[r] = "lockCandidate"
     \/ pc[r] = "ensure" /\ pc'[r] = "fastPath" /\ CandidateMatches(r) /\ cand' = cand
     \/ pc'[r] \in {"readCandidate", "confirmCandidate", "rereadCandidate"}
     \/ pc[r] = "confirmCandidate" /\ pc'[r] = "writeCandidate" /\ age'[r] = age[r]

(* The candidate is in step: r waits with its timestamp, or need not wait. *)
Meets(r) ==
  /\ Keeps(r)
  /\ pc[r] \in {"readCandidate", "writeCandidate", "rereadCandidate"}
  /\ cand' # NoCand /\ Recorded(cand') = Observation(r)
  /\ \/ pc'[r] = "fastPath" /\ IsConfirmed(r)
     \/ pc'[r] = "ready" /\ age'[r] = cand'.age

(* r has waited long enough, or need not wait. *)
Proceeds(r) ==
  /\ Keeps(r)
  /\ \/ pc[r] = "ready" /\ OldEnough(age[r]) /\ pc'[r] = "build"
     \/ pc[r] = "fastPath" /\ pc'[r] = "build"
     \/ pc[r] = "build" /\ pc'[r] = "lockPublish"
     \/ pc[r] = "lockPublish" /\ pc'[r] = "recheck"
     \/ pc[r] = "lockPublish" /\ pc'[r] = "latest" /\ ~NeedsStability(r)
     \/ /\ pc[r] = "recheck" /\ pc'[r] = "recheckElapsed"
        /\ CandidateMatches(r) /\ age'[r] = cand.age
     \/ pc[r] = "recheckElapsed" /\ OldEnough(age[r]) /\ pc'[r] = "latest"
     \/ pc[r] \in WritingLabels /\ pc'[r] \in WritingLabels
     \/ /\ pc[r] \in {"putRef", "refConflict"}
        /\ pc'[r] \in {"refConflict", "published"}

Progress(r) ==
  Rests(r) \/ Drops(r) \/ Looks(r) \/ Reconciles(r) \/ Meets(r) \/ Proceeds(r)

(* r replaces the candidate with its observation. *)
WritesCandidate(r) ==
  /\ pc[r] = "writeCandidate" /\ CandUnchanged(r) /\ pc'[r] # "writeCandidate"
  /\ PutCand([identity |-> IdentityOf[r], sig |-> prep[r], age |-> age[r]])

(* What the candidate is after that. *)
LEMMA WrittenCandidate ==
  ASSUME AttemptTyped, Prepared, NEW r \in Replicas, WritesCandidate(r)
  PROVE  /\ cand' # NoCand /\ cand'.age = age[r]
         /\ Recorded(cand') = Observation(r) /\ Observation(r) \in Sources
<1>1. cand' = [identity |-> IdentityOf[r], sig |-> prep[r], age |-> age[r]]
  BY DEF WritesCandidate, PutCand
<1>2. prep[r] \in Sigs
  BY ReplicasAreProcs DEF WritesCandidate, Prepared, Unprepared,
     FallbackLabels
<1>3. cand' \in Cands
  BY <1>1, <1>2, ConstantFacts DEF AttemptTyped
<1> QED
  BY <1>1, <1>2, <1>3, ConstantFacts, RootNoneAssumption DEF Recorded,
     Observation, Sources

(* A step is a tick of the clock, or every replica progresses or rests. *)
LEMMA ReplicaProgress ==
  ASSUME TypeInv, Stability > 0, [Next]_vars, NEW q \in Replicas
  PROVE  Tick \/ Progress(q)
<1>1. StoreTyped /\ PcTyped /\ AttemptTyped /\ RestTyped /\ Prepared
  BY TypeParts
<1> DEFINE Goal == Tick \/ Progress(q)
<1> SUFFICES Goal
  OBVIOUS
<1>0. q \in Procs
  BY ReplicasAreProcs
<1> USE <1>1, <1>0 DEF PcTyped, AttemptTyped, RestTyped, Progress, Keeps
<1>2. ASSUME NEW r \in Replicas, BeginRefresh(r) PROVE Goal
  <2>1. CASE q # r
    BY <1>2, <2>1 DEF BeginRefresh, Goto, memoryVars, Rests
  <2>2. CASE q = r
    BY <1>2, <2>2 DEF BeginRefresh, Goto, memoryVars, Drops, Unprepared,
       FallbackLabels
  <2> QED
    BY <2>1, <2>2
<1>3. ASSUME NEW r \in Replicas, PrepareSource(r) PROVE Goal
  <2>1. CASE q # r
    BY <1>3, <2>1 DEF PrepareSource, Goto, tokenVars, memoryVars, Rests
  <2>2. CASE q = r
    BY <1>3, <2>2 DEF PrepareSource, Goto, memoryVars, Looks
  <2> QED
    BY <2>1, <2>2
<1>4. ASSUME NEW r \in Replicas, EnsureCandidateMatches(r) PROVE Goal
  <2>1. CASE q # r
    BY <1>4, <2>1 DEF EnsureCandidateMatches, Goto, tokenVars, workVars,
       memoryVars, Rests
  <2>2. CASE q = r
    BY <1>4, <2>2 DEF EnsureCandidateMatches, Goto, rootVars, workVars,
       memoryVars, Reconciles
  <2> QED
    BY <2>1, <2>2
<1>5. ASSUME NEW r \in Replicas, ConfirmedFastPath(r) PROVE Goal
  <2>1. CASE q # r
    BY <1>5, <2>1 DEF ConfirmedFastPath, Return, Goto, tokenVars, workVars,
       Leave, memoryVars, OutcomeFrame, Rests
  <2>2. CASE q = r
    BY <1>5, <2>2 DEF ConfirmedFastPath, Return, Goto, workVars, Leave,
       memoryVars, OutcomeFrame, Drops, Proceeds, Unprepared, FallbackLabels
  <2> QED
    BY <2>1, <2>2
<1>6. ASSUME NEW r \in Replicas, LockCandidate(r) PROVE Goal
  <2>1. CASE q # r
    BY <1>6, <2>1 DEF LockCandidate, Goto, tokenVars, workVars, memoryVars,
       Rests
  <2>2. CASE q = r
    BY <1>6, <2>2 DEF LockCandidate, Goto, workVars, memoryVars, Reconciles
  <2> QED
    BY <2>1, <2>2
<1>7. ASSUME NEW r \in Replicas, ReadCandidate(r) PROVE Goal
  <2>1. CASE q # r
    BY <1>7, <2>1 DEF ReadCandidate, Synchronized, tokenVars, Raise, Goto,
       workVars, Leave, memoryVars, OutcomeFrame, Rests
  <2>2. CASE q = r
    BY <1>7, <2>2 DEF ReadCandidate, Synchronized, Raise, Goto, workVars,
       Leave, memoryVars, OutcomeFrame, Drops, Reconciles, Meets, Unprepared,
       FallbackLabels, CandidateMatches, Recorded, Observation
  <2> QED
    BY <2>1, <2>2
<1>8. ASSUME NEW r \in Replicas, ConfirmCandidate(r) PROVE Goal
  <2>1. CASE q # r
    BY <1>8, <2>1 DEF ConfirmCandidate, Goto, tokenVars, workVars, Raise,
       Leave, memoryVars, OutcomeFrame, Rests
  <2>2. CASE q = r
    BY <1>8, <2>2 DEF ConfirmCandidate, Goto, workVars, Raise, Leave,
       memoryVars, OutcomeFrame, Drops, Reconciles, Unprepared,
       FallbackLabels
  <2> QED
    BY <2>1, <2>2
<1>9. ASSUME NEW r \in Replicas, WriteCandidate(r) PROVE Goal
  <2>1. CASE q # r
    BY <1>9, <2>1 DEF WriteCandidate, Synchronized, Goto, PutCand, Rests,
       memoryVars
  <2>2. CASE q = r /\ CandUnchanged(r)
    <3>1. WritesCandidate(r) /\ Synchronized(r, age[r]) /\ UNCHANGED <<prep, conf>>
      BY <1>9, <2>2 DEF WriteCandidate, WritesCandidate, Synchronized, Goto,
         memoryVars
    <3>2. cand' # NoCand /\ cand'.age = age[r] /\ Recorded(cand') = Observation(r)
      BY <3>1, WrittenCandidate
    <3> QED
      BY <2>2, <3>1, <3>2 DEF WritesCandidate, Synchronized, Goto, Meets
  <2>3. CASE q = r /\ ~CandUnchanged(r)
    BY <1>9, <2>3 DEF WriteCandidate, Goto, memoryVars, Reconciles
  <2> QED
    BY <2>1, <2>2, <2>3
<1>10. ASSUME NEW r \in Replicas, RereadCandidate(r) PROVE Goal
  <2>1. CASE q # r
    BY <1>10, <2>1 DEF RereadCandidate, Synchronized, tokenVars, Raise, Goto,
       Leave, memoryVars, OutcomeFrame, Rests
  <2>2. CASE q = r
    BY <1>10, <2>2 DEF RereadCandidate, Synchronized, Raise, Goto, Leave,
       memoryVars, OutcomeFrame, Drops, Meets, CandidateMatches, Recorded,
       Observation, Unprepared, FallbackLabels
  <2> QED
    BY <2>1, <2>2
<1>11. ASSUME NEW r \in Replicas, CheckReady(r) PROVE Goal
  <2>1. CASE q # r
    BY <1>11, <2>1 DEF CheckReady, Goto, tokenVars, Raise, Return, Leave,
       memoryVars, OutcomeFrame, Rests
  <2>2. CASE q = r
    BY <1>11, <2>2 DEF CheckReady, Goto, Raise, Return, Leave, memoryVars,
       OutcomeFrame, Drops, Proceeds, Unprepared, FallbackLabels
  <2> QED
    BY <2>1, <2>2
<1>12. ASSUME NEW r \in Replicas, BuildManifest(r) PROVE Goal
  <2>1. CASE q # r
    BY <1>12, <2>1 DEF BuildManifest, Raise, Return, Goto, tokenVars,
       workVars, Leave, memoryVars, Rests
  <2>2. CASE q = r
    BY <1>12, <2>2 DEF BuildManifest, Raise, Return, Goto, workVars, Leave,
       memoryVars, Drops, Proceeds, EarnedLabels, Unprepared, FallbackLabels
  <2> QED
    BY <2>1, <2>2
<1>13. ASSUME NEW r \in Replicas, RecheckCandidate(r) PROVE Goal
  <2>1. CASE q # r
    BY <1>13, <2>1 DEF RecheckCandidate, Goto, tokenVars, Raise, Leave,
       memoryVars, OutcomeFrame, Rests
  <2>2. CASE q = r
    BY <1>13, <2>2 DEF RecheckCandidate, Goto, Raise, Leave, memoryVars,
       OutcomeFrame, Drops, Proceeds, Unprepared, FallbackLabels
  <2> QED
    BY <2>1, <2>2
<1>14. ASSUME NEW r \in Replicas, RecheckElapsed(r) PROVE Goal
  <2>1. CASE q # r
    BY <1>14, <2>1 DEF RecheckElapsed, Goto, tokenVars, Raise, Leave,
       memoryVars, OutcomeFrame, Rests
  <2>2. CASE q = r
    BY <1>14, <2>2 DEF RecheckElapsed, Goto, Raise, Leave, memoryVars,
       OutcomeFrame, Drops, Proceeds, Unprepared, FallbackLabels
  <2> QED
    BY <2>1, <2>2
<1>15. ASSUME NEW r \in Replicas, FollowWinner(r) PROVE Goal
  <2>1. CASE q # r
    BY <1>15, <2>1 DEF FollowWinner, FallBack, Leave, EndRefresh, Goto,
       memoryVars, Rests
  <2>2. CASE q = r
    BY <1>15, <2>2 DEF FollowWinner, FallBack, Leave, EndRefresh, Goto,
       memoryVars, Drops, Unprepared, FallbackLabels
  <2> QED
    BY <2>1, <2>2
<1>16. ASSUME NEW r \in Replicas, KeepCurrent(r) PROVE Goal
  <2>1. CASE q # r
    BY <1>16, <2>1 DEF KeepCurrent, FallBack, Leave, EndRefresh, Goto,
       memoryVars, Rests
  <2>2. CASE q = r
    BY <1>16, <2>2 DEF KeepCurrent, FallBack, Leave, EndRefresh, Goto,
       memoryVars, Drops, Unprepared, FallbackLabels
  <2> QED
    BY <2>1, <2>2
<1>17. ASSUME NEW r \in Replicas, Serve(r) PROVE Goal
  <2>1. CASE q # r
    BY <1>17, <2>1 DEF Serve, EndRefresh, Leave, Goto, Rests
  <2>2. CASE q = r
    BY <1>17, <2>2 DEF Serve, EndRefresh, Leave, Goto, Drops, Unprepared
  <2> QED
    BY <2>1, <2>2
<1>18. ASSUME NEW r \in Replicas, CandResponseLost(r) PROVE Goal
  <2>1. CASE q # r
    BY <1>18, <2>1 DEF CandResponseLost, Goto, memoryVars, PutCand, Rests
  <2>2. CASE q = r
    BY <1>18, <2>2 DEF CandResponseLost, Goto, memoryVars, Drops, Reconciles
  <2> QED
    BY <2>1, <2>2
<1>19. ASSUME NEW r \in Replicas, FailedRefresh(r) PROVE Goal
  <2>1. CASE q # r
    BY <1>19, <2>1 DEF FailedRefresh, EndRefresh, Leave, Goto, memoryVars,
       Rests
  <2>2. CASE q = r
    BY <1>19, <2>2 DEF FailedRefresh, EndRefresh, Leave, Goto, memoryVars,
       Drops, Unprepared
  <2> QED
    BY <2>1, <2>2
<1>20. ASSUME NEW p \in Publishers, StartExplicit(p) PROVE Goal
  <2>1. CASE q # p
    BY <1>20, <2>1 DEF StartExplicit, Goto, tokenVars, memoryVars, Rests
  <2>2. CASE q = p
    BY <2>2, ProcessAssumption DEF StartExplicit
  <2> QED
    BY <2>1, <2>2
<1>21. ASSUME NEW p \in Publishers, CheckExpected(p) PROVE Goal
  <2>1. CASE q # p
    BY <1>21, <2>1 DEF CheckExpected, Goto, workVars, Raise, Leave,
       memoryVars, OutcomeFrame, Rests
  <2>2. CASE q = p
    BY <2>2, ProcessAssumption DEF CheckExpected
  <2> QED
    BY <2>1, <2>2
<1>22. ASSUME NEW p \in Procs, LockPublish(p) PROVE Goal
  <2>1. CASE q # p
    BY <1>22, <2>1 DEF LockPublish, Goto, tokenVars, workVars, memoryVars,
       Rests
  <2>2. CASE q = p
    BY <1>22, <2>2, ProcessAssumption DEF LockPublish, Goto, workVars,
       memoryVars, Proceeds
  <2> QED
    BY <2>1, <2>2
<1>23. ASSUME NEW p \in Procs, ReadLatest(p) PROVE Goal
  <2>1. CASE q # p
    BY <1>23, <2>1 DEF ReadLatest, Raise, Return, Goto, workVars, Leave,
       memoryVars, Rests
  <2>2. CASE q = p
    BY <1>23, <2>2 DEF ReadLatest, Raise, Return, Goto, workVars, Leave,
       memoryVars, Drops, Proceeds, EarnedLabels, WritingLabels, Unprepared,
       FallbackLabels
  <2> QED
    BY <2>1, <2>2
<1>24. ASSUME NEW p \in Procs, CheckSnapshot(p) PROVE Goal
  <2>1. CASE q # p
    BY <1>24, <2>1 DEF CheckSnapshot, Goto, tokenVars, memoryVars, Rests
  <2>2. CASE q = p
    BY <1>24, <2>2 DEF CheckSnapshot, Goto, memoryVars, Proceeds,
       WritingLabels
  <2> QED
    BY <2>1, <2>2
<1>25. ASSUME NEW p \in Procs, UploadFile(p) PROVE Goal
  BY <1>25 DEF UploadFile, tokenVars, memoryVars, Rests
<1>26. ASSUME NEW p \in Procs, FinishSnapshot(p) PROVE Goal
  <2>1. CASE q # p
    BY <1>26, <2>1 DEF FinishSnapshot, Goto, tokenVars, workVars, memoryVars,
       Rests
  <2>2. CASE q = p
    BY <1>26, <2>2 DEF FinishSnapshot, Goto, workVars, memoryVars, Proceeds,
       WritingLabels
  <2> QED
    BY <2>1, <2>2
<1>27. ASSUME NEW p \in Procs, ConfirmSource(p) PROVE Goal
  <2>1. CASE q # p
    BY <1>27, <2>1 DEF ConfirmSource, Goto, tokenVars, workVars, Raise,
       Leave, memoryVars, OutcomeFrame, Rests
  <2>2. CASE q = p
    BY <1>27, <2>2 DEF ConfirmSource, Goto, workVars, Raise, Leave,
       memoryVars, OutcomeFrame, Drops, Proceeds, WritingLabels, Unprepared,
       FallbackLabels
  <2> QED
    BY <2>1, <2>2
<1>28. ASSUME NEW p \in Procs, WriteRef(p) PROVE Goal
  <2>1. CASE q # p
    BY <1>28, <2>1 DEF WriteRef, Goto, workVars, memoryVars, Rests
  <2>2. CASE q = p
    BY <1>28, <2>2 DEF WriteRef, Goto, workVars, memoryVars, Proceeds
  <2> QED
    BY <2>1, <2>2
<1>29. ASSUME NEW p \in Procs, ResolveConflict(p) PROVE Goal
  <2>1. CASE q # p
    BY <1>29, <2>1 DEF ResolveConflict, Goto, workVars, Leave, memoryVars,
       OutcomeFrame, Rests
  <2>2. CASE q = p
    BY <1>29, <2>2 DEF ResolveConflict, Goto, workVars, Leave, memoryVars,
       OutcomeFrame, Drops, Proceeds, Unprepared, FallbackLabels
  <2> QED
    BY <2>1, <2>2
<1>30. ASSUME NEW p \in Procs, RecordPublished(p) PROVE Goal
  <2>1. CASE q # p
    BY <1>30, <2>1 DEF RecordPublished, Return, Leave, Goto, Rests
  <2>2. CASE q = p
    BY <1>30, <2>2 DEF RecordPublished, Return, Leave, Goto, Drops,
       EarnedLabels, Unprepared, FallbackLabels
  <2> QED
    BY <2>1, <2>2
<1>31. ASSUME NEW p \in Procs, RaiseError(p) PROVE Goal
  <2>1. CASE q # p
    BY <1>31, <2>1 DEF RaiseError, Raise, Leave, Goto, memoryVars,
       OutcomeFrame, Rests
  <2>2. CASE q = p
    BY <1>31, <2>2 DEF RaiseError, Raise, Leave, Goto, memoryVars,
       OutcomeFrame, Drops, Unprepared, FallbackLabels
  <2> QED
    BY <2>1, <2>2
<1>32. ASSUME NEW p \in Procs, Crash(p) PROVE Goal
  <2>1. CASE q # p
    BY <1>32, <2>1 DEF Crash, Leave, Goto, memoryVars, Rests
  <2>2. CASE q = p
    BY <1>32, <2>2 DEF Crash, Leave, Goto, Drops, Unprepared
  <2> QED
    BY <2>1, <2>2
<1>33. ASSUME NEW p \in Procs, FailedRequest(p) PROVE Goal
  <2>1. CASE q # p
    BY <1>33, <2>1 DEF FailedRequest, Raise, Leave, Goto, memoryVars, Rests
  <2>2. CASE q = p
    BY <1>33, <2>2 DEF FailedRequest, FallbackLabels, Raise, Leave, Goto,
       memoryVars, Drops, Unprepared
  <2> QED
    BY <2>1, <2>2
<1>34. ASSUME NEW p \in Procs, SourceDrift(p) PROVE Goal
  <2>1. CASE q # p
    BY <1>34, <2>1 DEF SourceDrift, Raise, Leave, Goto, memoryVars,
       OutcomeFrame, Rests
  <2>2. CASE q = p
    BY <1>34, <2>2 DEF SourceDrift, Raise, Leave, Goto, memoryVars,
       OutcomeFrame, Drops, Unprepared, FallbackLabels
  <2> QED
    BY <2>1, <2>2
<1>35. ASSUME NEW p \in Procs, RefResponseLost(p) PROVE Goal
  <2>1. CASE q # p
    BY <1>35, <2>1 DEF RefResponseLost, Goto, workVars, memoryVars, Rests
  <2>2. CASE q = p
    BY <1>35, <2>2 DEF RefResponseLost, Goto, workVars, memoryVars, Drops,
       Proceeds
  <2> QED
    BY <2>1, <2>2
<1>36. ASSUME NEW i \in Identities, ChangeSource(i) PROVE Goal
  BY <1>36 DEF ChangeSource, tokenVars, workVars, Rests, memoryVars
<1>37. CASE Tick
  BY <1>37 DEF Tick
<1>38. CASE UNCHANGED vars
  BY <1>38 DEF vars, tokenVars, workVars, Rests, memoryVars
<1> QED
  BY <1>2, <1>3, <1>4, <1>5, <1>6, <1>7, <1>8, <1>9, <1>10, <1>11, <1>12,
     <1>13, <1>14, <1>15, <1>16, <1>17, <1>18, <1>19, <1>20, <1>21, <1>22,
     <1>23, <1>24, <1>25, <1>26, <1>27, <1>28, <1>29, <1>30, <1>31, <1>32,
     <1>33, <1>34, <1>35, <1>36, <1>37, <1>38 DEF Next, Refresh, Explicit,
     Publish, Fault

-----------------------------------------------------------------------------
(* Timestamps.  The candidate, and every copy of its timestamp that a      *)
(* replica waits with, is no older than the first one recorded for the     *)
(* same observation.                                                       *)

AgeReset ==
  \A r \in Replicas : pc[r] \notin HoldsTimestamp \cup {"rereadCandidate"} => age[r] = 0

CandidateDated ==
  cand # NoCand =>
    /\ Recorded(cand) \in DOMAIN first /\ cand.age <= first[Recorded(cand)]
    /\ cand.age = Stability => Recorded(cand) \in ripe

HolderDated ==
  \A r \in Replicas :
    /\ pc[r] = "writeCandidate" /\ CandUnchanged(r) /\ Observation(r) \in DOMAIN first
         => age[r] <= first[Observation(r)]
    /\ pc[r] = "ready" => Observation(r) \in DOMAIN first /\ age[r] <= first[Observation(r)]

(* With a lock, a replica waits with the timestamp of the candidate itself.*)
HolderMatches ==
  Locking => \A r \in Replicas : pc[r] \in {"ready", "recheckElapsed"}
               => CandidateMatches(r) /\ cand.age = age[r]

(* Every step puts away the timestamps that are not needed any more. *)
LEMMA AgeResetStep ==
  ASSUME TypeInv, AgeReset, [Next]_vars
  PROVE  AgeReset'
<1>1. PcTyped /\ AttemptTyped
  BY TypeParts
<1> USE <1>1 DEF AgeReset, PcTyped, AttemptTyped, HoldsTimestamp
<1>2. ASSUME NEW r \in Replicas, BeginRefresh(r) PROVE AgeReset'
  BY <1>2 DEF BeginRefresh, Goto
<1>3. ASSUME NEW r \in Replicas, PrepareSource(r) PROVE AgeReset'
  BY <1>3 DEF PrepareSource, Goto
<1>4. ASSUME NEW r \in Replicas, EnsureCandidateMatches(r) PROVE AgeReset'
  BY <1>4 DEF EnsureCandidateMatches, Goto, workVars
<1>5. ASSUME NEW r \in Replicas, ConfirmedFastPath(r) PROVE AgeReset'
  BY <1>5, ReplicasAreProcs DEF ConfirmedFastPath, Return, Goto, workVars,
     Leave
<1>6. ASSUME NEW r \in Replicas, LockCandidate(r) PROVE AgeReset'
  BY <1>6 DEF LockCandidate, Goto, workVars
<1>7. ASSUME NEW r \in Replicas, ReadCandidate(r) PROVE AgeReset'
  BY <1>7, ReplicasAreProcs DEF ReadCandidate, Synchronized, Raise, Goto,
     workVars, Leave
<1>8. ASSUME NEW r \in Replicas, ConfirmCandidate(r) PROVE AgeReset'
  BY <1>8, ReplicasAreProcs DEF ConfirmCandidate, Goto, workVars, Raise,
     Leave
<1>9. ASSUME NEW r \in Replicas, WriteCandidate(r) PROVE AgeReset'
  BY <1>9, ReplicasAreProcs DEF WriteCandidate, Synchronized, Goto
<1>10. ASSUME NEW r \in Replicas, RereadCandidate(r) PROVE AgeReset'
  BY <1>10, ReplicasAreProcs DEF RereadCandidate, Synchronized, Raise, Goto,
     Leave
<1>11. ASSUME NEW r \in Replicas, CheckReady(r) PROVE AgeReset'
  BY <1>11, ReplicasAreProcs DEF CheckReady, Goto, Raise, Return, Leave
<1>12. ASSUME NEW r \in Replicas, BuildManifest(r) PROVE AgeReset'
  BY <1>12, ReplicasAreProcs DEF BuildManifest, Raise, Return, Goto,
     workVars, Leave
<1>13. ASSUME NEW r \in Replicas, RecheckCandidate(r) PROVE AgeReset'
  BY <1>13, ReplicasAreProcs DEF RecheckCandidate, Goto, Raise, Leave
<1>14. ASSUME NEW r \in Replicas, RecheckElapsed(r) PROVE AgeReset'
  BY <1>14, ReplicasAreProcs DEF RecheckElapsed, Goto, Raise, Leave
<1>15. ASSUME NEW r \in Replicas, FollowWinner(r) PROVE AgeReset'
  BY <1>15, ReplicasAreProcs DEF FollowWinner, FallBack, Leave, EndRefresh,
     Goto
<1>16. ASSUME NEW r \in Replicas, KeepCurrent(r) PROVE AgeReset'
  BY <1>16, ReplicasAreProcs DEF KeepCurrent, FallBack, Leave, EndRefresh,
     Goto
<1>17. ASSUME NEW r \in Replicas, Serve(r) PROVE AgeReset'
  BY <1>17 DEF Serve, EndRefresh, Leave, Goto
<1>18. ASSUME NEW r \in Replicas, CandResponseLost(r) PROVE AgeReset'
  BY <1>18 DEF CandResponseLost, Goto
<1>19. ASSUME NEW r \in Replicas, FailedRefresh(r) PROVE AgeReset'
  BY <1>19 DEF FailedRefresh, EndRefresh, Leave, Goto
<1>20. ASSUME NEW p \in Publishers, StartExplicit(p) PROVE AgeReset'
  BY <1>20 DEF StartExplicit, Goto
<1>21. ASSUME NEW p \in Publishers, CheckExpected(p) PROVE AgeReset'
  BY <1>21, ReplicasAreProcs DEF CheckExpected, Goto, workVars, Raise, Leave
<1>22. ASSUME NEW p \in Procs, LockPublish(p) PROVE AgeReset'
  BY <1>22 DEF LockPublish, Goto, workVars
<1>23. ASSUME NEW p \in Procs, ReadLatest(p) PROVE AgeReset'
  BY <1>23, ReplicasAreProcs DEF ReadLatest, Raise, Return, Goto, workVars,
     Leave
<1>24. ASSUME NEW p \in Procs, CheckSnapshot(p) PROVE AgeReset'
  BY <1>24, ReplicasAreProcs DEF CheckSnapshot, Goto
<1>25. ASSUME NEW p \in Procs, UploadFile(p) PROVE AgeReset'
  BY <1>25 DEF UploadFile
<1>26. ASSUME NEW p \in Procs, FinishSnapshot(p) PROVE AgeReset'
  BY <1>26 DEF FinishSnapshot, Goto, workVars
<1>27. ASSUME NEW p \in Procs, ConfirmSource(p) PROVE AgeReset'
  BY <1>27, ReplicasAreProcs DEF ConfirmSource, Goto, workVars, Raise, Leave
<1>28. ASSUME NEW p \in Procs, WriteRef(p) PROVE AgeReset'
  BY <1>28, ReplicasAreProcs DEF WriteRef, Goto, workVars
<1>29. ASSUME NEW p \in Procs, ResolveConflict(p) PROVE AgeReset'
  BY <1>29, ReplicasAreProcs DEF ResolveConflict, Goto, workVars, Leave
<1>30. ASSUME NEW p \in Procs, RecordPublished(p) PROVE AgeReset'
  BY <1>30, ReplicasAreProcs DEF RecordPublished, Return, Leave, Goto
<1>31. ASSUME NEW p \in Procs, RaiseError(p) PROVE AgeReset'
  BY <1>31, ReplicasAreProcs DEF RaiseError, Raise, Leave, Goto
<1>32. ASSUME NEW p \in Procs, Crash(p) PROVE AgeReset'
  BY <1>32 DEF Crash, Leave, Goto
<1>33. ASSUME NEW p \in Procs, FailedRequest(p) PROVE AgeReset'
  BY <1>33, ReplicasAreProcs DEF FailedRequest, Raise, Leave, Goto
<1>34. ASSUME NEW p \in Procs, SourceDrift(p) PROVE AgeReset'
  BY <1>34, ReplicasAreProcs DEF SourceDrift, Raise, Leave, Goto
<1>35. ASSUME NEW p \in Procs, RefResponseLost(p) PROVE AgeReset'
  BY <1>35 DEF RefResponseLost, Goto, workVars
<1>36. ASSUME NEW i \in Identities, ChangeSource(i) PROVE AgeReset'
  BY <1>36 DEF ChangeSource, workVars
<1>37. CASE Tick
  BY <1>37, ReplicasAreProcs DEF Tick
<1>38. CASE UNCHANGED vars
  BY <1>38 DEF vars, workVars
<1> QED
  BY <1>2, <1>3, <1>4, <1>5, <1>6, <1>7, <1>8, <1>9, <1>10, <1>11, <1>12,
     <1>13, <1>14, <1>15, <1>16, <1>17, <1>18, <1>19, <1>20, <1>21, <1>22,
     <1>23, <1>24, <1>25, <1>26, <1>27, <1>28, <1>29, <1>30, <1>31, <1>32,
     <1>33, <1>34, <1>35, <1>36, <1>37, <1>38 DEF Next, Refresh, Explicit,
     Publish, Fault

(* The candidate grows older, or a replica that may still write it does. *)
LEMMA CandidateMoves ==
  ASSUME PcTyped, [Next]_vars
  PROVE  UNCHANGED cand \/ Tick \/ \E r \in Replicas : WritesCandidate(r)
<1> DEFINE Moves == UNCHANGED cand \/ Tick \/ \E r \in Replicas : WritesCandidate(r)
<1> SUFFICES Moves
  OBVIOUS
<1>2. ASSUME NEW r \in Replicas, BeginRefresh(r) PROVE Moves
  BY <1>2 DEF BeginRefresh, rootVars
<1>3. ASSUME NEW r \in Replicas, PrepareSource(r) PROVE Moves
  BY <1>3 DEF PrepareSource, rootVars
<1>4. ASSUME NEW r \in Replicas, EnsureCandidateMatches(r) PROVE Moves
  BY <1>4 DEF EnsureCandidateMatches, rootVars
<1>5. ASSUME NEW r \in Replicas, ConfirmedFastPath(r) PROVE Moves
  BY <1>5 DEF ConfirmedFastPath, OutcomeFrame, rootVars
<1>6. ASSUME NEW r \in Replicas, LockCandidate(r) PROVE Moves
  BY <1>6 DEF LockCandidate, StoreUnchanged
<1>7. ASSUME NEW r \in Replicas, ReadCandidate(r) PROVE Moves
  BY <1>7 DEF ReadCandidate, OutcomeFrame
<1>8. ASSUME NEW r \in Replicas, ConfirmCandidate(r) PROVE Moves
  BY <1>8 DEF ConfirmCandidate, OutcomeFrame
<1>9. ASSUME NEW r \in Replicas, WriteCandidate(r) PROVE Moves
  BY <1>9, ReplicasAreProcs DEF WriteCandidate, WritesCandidate,
     Synchronized, Goto, PcTyped
<1>10. ASSUME NEW r \in Replicas, RereadCandidate(r) PROVE Moves
  BY <1>10 DEF RereadCandidate, OutcomeFrame
<1>11. ASSUME NEW r \in Replicas, CheckReady(r) PROVE Moves
  BY <1>11 DEF CheckReady, OutcomeFrame
<1>12. ASSUME NEW r \in Replicas, BuildManifest(r) PROVE Moves
  BY <1>12 DEF BuildManifest, StoreUnchanged
<1>13. ASSUME NEW r \in Replicas, RecheckCandidate(r) PROVE Moves
  BY <1>13 DEF RecheckCandidate, OutcomeFrame
<1>14. ASSUME NEW r \in Replicas, RecheckElapsed(r) PROVE Moves
  BY <1>14 DEF RecheckElapsed, OutcomeFrame
<1>15. ASSUME NEW r \in Replicas, FollowWinner(r) PROVE Moves
  BY <1>15 DEF FollowWinner, FallBack, StoreUnchanged
<1>16. ASSUME NEW r \in Replicas, KeepCurrent(r) PROVE Moves
  BY <1>16 DEF KeepCurrent, FallBack, StoreUnchanged
<1>17. ASSUME NEW r \in Replicas, Serve(r) PROVE Moves
  BY <1>17 DEF Serve, StoreUnchanged
<1>18. ASSUME NEW r \in Replicas, CandResponseLost(r) PROVE Moves
  BY <1>18, ReplicasAreProcs DEF CandResponseLost, WritesCandidate, Goto,
     PcTyped
<1>19. ASSUME NEW r \in Replicas, FailedRefresh(r) PROVE Moves
  BY <1>19 DEF FailedRefresh, StoreUnchanged
<1>20. ASSUME NEW p \in Publishers, StartExplicit(p) PROVE Moves
  BY <1>20 DEF StartExplicit, rootVars
<1>21. ASSUME NEW p \in Publishers, CheckExpected(p) PROVE Moves
  BY <1>21 DEF CheckExpected, OutcomeFrame
<1>22. ASSUME NEW p \in Procs, LockPublish(p) PROVE Moves
  BY <1>22 DEF LockPublish, StoreUnchanged
<1>23. ASSUME NEW p \in Procs, ReadLatest(p) PROVE Moves
  BY <1>23 DEF ReadLatest, StoreUnchanged
<1>24. ASSUME NEW p \in Procs, CheckSnapshot(p) PROVE Moves
  BY <1>24 DEF CheckSnapshot, rootVars
<1>25. ASSUME NEW p \in Procs, UploadFile(p) PROVE Moves
  BY <1>25 DEF UploadFile
<1>26. ASSUME NEW p \in Procs, FinishSnapshot(p) PROVE Moves
  BY <1>26 DEF FinishSnapshot
<1>27. ASSUME NEW p \in Procs, ConfirmSource(p) PROVE Moves
  BY <1>27 DEF ConfirmSource, OutcomeFrame
<1>28. ASSUME NEW p \in Procs, WriteRef(p) PROVE Moves
  BY <1>28 DEF WriteRef
<1>29. ASSUME NEW p \in Procs, ResolveConflict(p) PROVE Moves
  BY <1>29 DEF ResolveConflict, OutcomeFrame
<1>30. ASSUME NEW p \in Procs, RecordPublished(p) PROVE Moves
  BY <1>30 DEF RecordPublished, StoreUnchanged
<1>31. ASSUME NEW p \in Procs, RaiseError(p) PROVE Moves
  BY <1>31 DEF RaiseError, OutcomeFrame
<1>32. ASSUME NEW p \in Procs, Crash(p) PROVE Moves
  BY <1>32 DEF Crash, StoreUnchanged
<1>33. ASSUME NEW p \in Procs, FailedRequest(p) PROVE Moves
  BY <1>33 DEF FailedRequest, StoreUnchanged
<1>34. ASSUME NEW p \in Procs, SourceDrift(p) PROVE Moves
  BY <1>34 DEF SourceDrift, OutcomeFrame
<1>35. ASSUME NEW p \in Procs, RefResponseLost(p) PROVE Moves
  BY <1>35 DEF RefResponseLost
<1>36. ASSUME NEW i \in Identities, ChangeSource(i) PROVE Moves
  BY <1>36 DEF ChangeSource, rootVars
<1>37. CASE Tick
  BY <1>37 DEF Tick
<1>38. CASE UNCHANGED vars
  BY <1>38 DEF vars, rootVars
<1> QED
  BY <1>2, <1>3, <1>4, <1>5, <1>6, <1>7, <1>8, <1>9, <1>10, <1>11, <1>12,
     <1>13, <1>14, <1>15, <1>16, <1>17, <1>18, <1>19, <1>20, <1>21, <1>22,
     <1>23, <1>24, <1>25, <1>26, <1>27, <1>28, <1>29, <1>30, <1>31, <1>32,
     <1>33, <1>34, <1>35, <1>36, <1>37, <1>38 DEF Next, Refresh, Explicit,
     Publish, Fault

(* Every step keeps the candidate dated. *)
LEMMA CandidateDatedStep ==
  ASSUME StoreTyped, StoreTyped', PcTyped, AttemptTyped, Prepared, FirstTyped, FirstTyped',
         CandidateDated, HolderDated, [Next]_vars, RecordHistory
  PROVE  CandidateDated'
<1>1. cand' # NoCand /\ cand'.age = Stability => Recorded(cand') \in ripe'
  BY DEF RecordHistory
<1>2. /\ cand # NoCand => Recorded(cand) \in DOMAIN first /\ cand.age <= first[Recorded(cand)]
      /\ cand # NoCand => cand.age \in Ages
  BY DEF CandidateDated, StoreTyped, Cands
<1>3. /\ \A o \in DOMAIN first : o \in DOMAIN first' /\ first[o] <= first'[o]
                                /\ (Tick => first'[o] = Older(first[o]))
      /\ cand' # NoCand => /\ Recorded(cand') \in DOMAIN first'
                           /\ Recorded(cand') \notin DOMAIN first
                                => first'[Recorded(cand')] = cand'.age
  BY FirstGrows
<1>4. /\ \A o \in DOMAIN first : first[o] \in Ages
      /\ \A o \in DOMAIN first' : first'[o] \in Ages
  BY DEF FirstTyped
<1>5. cand' # NoCand => /\ Recorded(cand') \in DOMAIN first'
                        /\ cand'.age <= first'[Recorded(cand')]
  <2>1. CASE UNCHANGED cand
    <3> SUFFICES ASSUME cand # NoCand
                 PROVE  cand.age <= first'[Recorded(cand)] /\ Recorded(cand) \in DOMAIN first'
      BY <2>1
    <3>1. cand.age <= first[Recorded(cand)] /\ first[Recorded(cand)] <= first'[Recorded(cand)]
      BY <1>2, <1>3
    <3>2. cand.age \in Nat /\ first[Recorded(cand)] \in Nat /\ first'[Recorded(cand)] \in Nat
      BY <1>2, <1>3, <1>4, AgesGrow
    <3> QED
      BY <1>2, <1>3, <3>2
  <2>2. CASE Tick
    <3> SUFFICES ASSUME cand # NoCand
                 PROVE  cand'.age <= first'[Recorded(cand')] /\ Recorded(cand') \in DOMAIN first'
      BY <2>2 DEF Tick
    <3>1. cand'.age = Older(cand.age) /\ Recorded(cand') = Recorded(cand)
      BY <2>2 DEF Tick, Recorded
    <3>2. first'[Recorded(cand)] = Older(first[Recorded(cand)])
      BY <1>2, <1>3, <2>2
    <3> QED
      BY <1>2, <1>3, <1>4, <3>1, <3>2, AgesGrow
  <2>3. ASSUME NEW r \in Replicas, WritesCandidate(r)
        PROVE  Recorded(cand') \in DOMAIN first' /\ cand'.age <= first'[Recorded(cand')]
    <3>1. cand' # NoCand /\ cand'.age = age[r] /\ Recorded(cand') = Observation(r)
      BY <2>3, WrittenCandidate
    <3>2. Observation(r) \in DOMAIN first => age[r] <= first[Observation(r)]
      BY <2>3 DEF WritesCandidate, HolderDated
    <3>3. age[r] \in Ages
      BY ReplicasAreProcs DEF AttemptTyped
    <3>4. CASE Observation(r) \in DOMAIN first
      <4>1. age[r] <= first[Observation(r)] /\ first[Observation(r)] <= first'[Observation(r)]
        BY <1>3, <3>2, <3>4
      <4>2. age[r] \in Nat /\ first[Observation(r)] \in Nat /\ first'[Observation(r)] \in Nat
        BY <1>3, <1>4, <3>3, <3>4, AgesGrow
      <4>3. age[r] <= first'[Observation(r)]
        BY <4>1, <4>2
      <4> QED
        BY <1>3, <3>1, <4>3
    <3>5. CASE Observation(r) \notin DOMAIN first
      <4>1. first'[Observation(r)] = age[r] /\ Observation(r) \in DOMAIN first'
        <5>1. Recorded(cand') \notin DOMAIN first
          BY <3>1, <3>5
        <5>2. first'[Recorded(cand')] = cand'.age /\ Recorded(cand') \in DOMAIN first'
          BY <1>3, <3>1, <5>1
        <5> QED
          BY <3>1, <5>2
      <4>2. age[r] \in Nat
        BY <3>3, AgesGrow
      <4> QED
        BY <3>1, <4>1, <4>2
    <3> QED
      BY <3>4, <3>5
  <2> QED
    BY <2>1, <2>2, <2>3, CandidateMoves
<1> QED
  BY <1>1, <1>5 DEF CandidateDated

(* With a lock, of two replicas that are under it one is the other. *)
LEMMA OneUnderLock ==
  ASSUME Locking, LockProtectsReference, NEW q \in Replicas, NEW w \in Replicas,
         pc[q] \in SyncLabels \cup GuardedLabels, pc[w] \in SyncLabels \cup GuardedLabels
  PROVE  q = w
BY ReplicasAreProcs DEF LockProtectsReference

(* What the clock leaves alone, and what it moves. *)
LEMMA TickMoves ==
  ASSUME StoreTyped, AttemptTyped, Tick
  PROVE  /\ pc' = pc /\ prep' = prep /\ conf' = conf /\ candLive' = candLive
         /\ \A q \in Replicas :
              age'[q] = IF pc[q] \in HoldsTimestamp THEN Older(age[q]) ELSE age[q]
         /\ cand = NoCand => cand' = NoCand
         /\ cand # NoCand => cand'.age = Older(cand.age) /\ Recorded(cand') = Recorded(cand)
BY ReplicasAreProcs DEF Tick, tokenVars, memoryVars, Recorded

(* Every step keeps the timestamps that replicas hold dated. *)
LEMMA HolderDatedStep ==
  ASSUME TypeInv, TypeInv', Stability > 0, LockProtectsReference, FirstTyped, FirstTyped',
         AgeReset, CandidateDated, CandidateDated', HolderDated, [Next]_vars, RecordHistory
  PROVE  HolderDated'
<1>1. StoreTyped /\ StoreTyped' /\ PcTyped /\ AttemptTyped /\ AttemptTyped' /\ Prepared
  BY TypeParts
<1>2. /\ \A o \in DOMAIN first : o \in DOMAIN first' /\ first[o] <= first'[o]
                                 /\ (Tick => first'[o] = Older(first[o]))
      /\ \A o \in DOMAIN first' : o \in DOMAIN first \/ (cand' # NoCand /\ o = Recorded(cand'))
  BY <1>1, FirstGrows
<1>3. /\ \A o \in DOMAIN first : first[o] \in Ages
      /\ \A o \in DOMAIN first' : first'[o] \in Ages
  BY DEF FirstTyped
<1> SUFFICES ASSUME NEW q \in Replicas, NEW o,
                    o = [identity |-> IdentityOf[q], sig |-> prep'[q]]
             PROVE  /\ /\ pc'[q] = "writeCandidate" /\ CandUnchanged(q)'
                       /\ o \in DOMAIN first'
                       => age'[q] <= first'[o]
                    /\ pc'[q] = "ready" => o \in DOMAIN first' /\ age'[q] <= first'[o]
  BY DEF HolderDated, Observation
<1>4. age[q] \in Ages /\ age'[q] \in Ages
  BY <1>1, ReplicasAreProcs DEF AttemptTyped
<1>5. ASSUME Keeps(q) PROVE o = Observation(q)
  BY <1>5 DEF Keeps, Observation
<1>6. ASSUME o \in DOMAIN first, age[q] <= first[o] PROVE age[q] <= first'[o]
  <2>1. first[o] \in Nat /\ first'[o] \in Nat /\ age[q] \in Nat
    BY <1>2, <1>3, <1>4, <1>6, AgesGrow
  <2>2. first[o] <= first'[o]
    BY <1>2, <1>6
  <2> QED
    BY <1>6, <2>1, <2>2
<1>7. CASE Tick
  <2>1. pc'[q] = pc[q] /\ o = Observation(q) /\ (CandUnchanged(q)' <=> CandUnchanged(q))
    BY <1>1, <1>7, TickMoves DEF Observation, CandUnchanged
  <2>2. pc[q] \in {"writeCandidate", "ready"} => age'[q] = Older(age[q])
    BY <1>1, <1>7, TickMoves DEF HoldsTimestamp
  <2>3. DOMAIN first' = DOMAIN first
    BY <1>1, <1>2, <1>7, TickMoves DEF CandidateDated
  <2>4. o \in DOMAIN first /\ age[q] <= first[o] => Older(age[q]) <= first'[o]
    BY <1>2, <1>3, <1>4, <1>7, AgesGrow
  <2>5. /\ pc[q] = "writeCandidate" /\ CandUnchanged(q) /\ o \in DOMAIN first
             => age[q] <= first[o]
        /\ pc[q] = "ready" => o \in DOMAIN first /\ age[q] <= first[o]
    BY <2>1 DEF HolderDated
  <2> QED
    BY <2>1, <2>2, <2>3, <2>4, <2>5
<1>8. CASE Progress(q)
  <2>1. ASSUME pc'[q] = "ready" PROVE o \in DOMAIN first' /\ age'[q] <= first'[o]
    <3>1. Meets(q) \/ Rests(q)
      BY <1>8, <2>1 DEF Progress, Drops, Unprepared, FallbackLabels, Looks,
         Reconciles, Proceeds, WritingLabels
    <3>2. o = Observation(q)
      BY <1>5, <3>1 DEF Meets, Rests
    <3>3. CASE Meets(q)
      <4>1. cand' # NoCand /\ Recorded(cand') = o /\ age'[q] = cand'.age
        BY <2>1, <3>2, <3>3 DEF Meets
      <4>2. Recorded(cand') \in DOMAIN first' /\ cand'.age <= first'[Recorded(cand')]
        BY <4>1 DEF CandidateDated
      <4> QED
        BY <4>1, <4>2
    <3>4. CASE Rests(q)
      <4>1. age'[q] = age[q] /\ o \in DOMAIN first /\ age[q] <= first[o]
        BY <2>1, <3>2, <3>4 DEF Rests, HolderDated
      <4> QED
        BY <1>2, <1>6, <4>1
    <3> QED
      BY <3>1, <3>3, <3>4
  <2>2. ASSUME pc'[q] = "writeCandidate", CandUnchanged(q)', o \in DOMAIN first'
        PROVE  age'[q] <= first'[o]
    <3>1. \/ Rests(q)
          \/ Keeps(q) /\ pc[q] = "confirmCandidate" /\ age'[q] = age[q]
      BY <1>8, <2>2 DEF Progress, Drops, Unprepared, FallbackLabels, Looks,
         Reconciles, Meets, Proceeds, WritingLabels
    <3>2. o = Observation(q)
      BY <1>5, <3>1 DEF Rests
    <3>3. CASE pc[q] = "confirmCandidate" /\ age'[q] = age[q]
      <4>1. age'[q] = 0
        BY <3>3 DEF AgeReset, HoldsTimestamp
      <4>2. first'[o] \in Nat
        BY <1>3, <2>2, AgesGrow
      <4> QED
        BY <4>1, <4>2
    <3>4. CASE Rests(q)
      <4>1. pc[q] = "writeCandidate" /\ age'[q] = age[q] /\ CandUnchanged(q)
        BY <2>2, <3>4 DEF Rests, CandUnchanged
      <4>2. ASSUME NEW w \in Replicas, WritesCandidate(w) PROVE FALSE
        <5>1. CASE Locking
          <6>1. q = w
            BY <4>1, <4>2, <5>1, OneUnderLock DEF WritesCandidate, SyncLabels
          <6> QED
            BY <2>2, <4>2, <6>1 DEF WritesCandidate
        <5>2. CASE ~Locking
          BY <2>2, <4>2, <5>2, ReplicasAreProcs DEF WritesCandidate, PutCand,
             CandUnchanged
        <5> QED
          BY <5>1, <5>2
      <4>3. UNCHANGED cand \/ Tick
        BY <1>1, <4>2, CandidateMoves
      <4>4. cand' # NoCand => cand # NoCand /\ Recorded(cand') = Recorded(cand)
        BY <1>1, <4>3, TickMoves
      <4>5. o \in DOMAIN first
        BY <1>2, <2>2, <4>4 DEF CandidateDated
      <4>6. age[q] <= first[o]
        BY <3>2, <4>1, <4>5 DEF HolderDated
      <4> QED
        BY <1>6, <4>1, <4>5, <4>6
    <3> QED
      BY <3>1, <3>3, <3>4
  <2> QED
    BY <2>1, <2>2
<1> QED
  BY <1>7, <1>8, ReplicaProgress

(* Every step keeps the timestamp that a replica holds under the lock the  *)
(* one of the candidate.                                                   *)
LEMMA HolderMatchesStep ==
  ASSUME TypeInv, Stability > 0, LockProtectsReference, HolderMatches, [Next]_vars
  PROVE  HolderMatches'
<1>1. StoreTyped /\ PcTyped /\ AttemptTyped
  BY TypeParts
<1> SUFFICES ASSUME Locking, NEW q \in Replicas, pc'[q] \in {"ready", "recheckElapsed"}
             PROVE  CandidateMatches(q)' /\ cand'.age = age'[q]
  BY DEF HolderMatches
<1> DEFINE Matches(c, p) == c # NoCand /\ c.identity = IdentityOf[q] /\ c.sig = p
<1>2. /\ CandidateMatches(q) <=> Matches(cand, prep[q])
      /\ CandidateMatches(q)' <=> Matches(cand', prep'[q])
  BY DEF CandidateMatches
<1>3. CASE Tick
  <2>1. /\ pc[q] \in {"ready", "recheckElapsed"} /\ prep'[q] = prep[q]
        /\ age'[q] = Older(age[q]) /\ (cand # NoCand => cand'.age = Older(cand.age))
    BY <1>1, <1>3, TickMoves DEF HoldsTimestamp
  <2>2. Matches(cand, prep[q]) /\ cand.age = age[q]
    BY <1>2, <2>1 DEF HolderMatches
  <2>3. Matches(cand', prep[q])
    <3>1. cand \in Cands /\ cand' = [cand EXCEPT !.age = Older(@)]
      BY <1>1, <1>3, <2>2 DEF Tick, StoreTyped
    <3>2. cand' \in Cands
      BY <3>1, ConstantFacts DEF Cands
    <3> QED
      BY <2>2, <3>1, <3>2, RootNoneAssumption
  <2> QED
    BY <1>2, <2>1, <2>2, <2>3
<1>4. CASE Progress(q)
  <2>1. CASE Meets(q)
    BY <1>2, <2>1 DEF Meets, Keeps, Recorded, Observation
  <2>2. CASE ~Meets(q)
    <3>1. /\ Keeps(q)
          /\ \/ pc[q] \in {"ready", "recheckElapsed"} /\ age'[q] = age[q]
             \/ pc[q] = "recheck" /\ CandidateMatches(q) /\ age'[q] = cand.age
      BY <1>4, <2>2 DEF Progress, Drops, Unprepared, FallbackLabels, Looks,
         Reconciles, Proceeds, Rests, WritingLabels
    <3>2. CandidateMatches(q) /\ cand.age = age'[q]
      BY <3>1 DEF HolderMatches
    <3>3. CASE UNCHANGED cand
      BY <1>2, <3>1, <3>2, <3>3 DEF Keeps
    <3>4. ASSUME NEW w \in Replicas, WritesCandidate(w) PROVE FALSE
      <4>1. q = w
        BY <3>1, <3>4, OneUnderLock DEF WritesCandidate, SyncLabels,
           GuardedLabels
      <4> QED
        BY <3>1, <3>4, <4>1 DEF WritesCandidate
    <3> QED
      BY <1>1, <1>3, <3>3, <3>4, CandidateMoves
  <2> QED
    BY <2>1, <2>2
<1> QED
  BY <1>3, <1>4, ReplicaProgress

-----------------------------------------------------------------------------
(* What is earned.  An observation has earned its release once it was      *)
(* first recorded a period ago and, with a lock, was the candidate for a   *)
(* period.  Whoever confirms, builds or publishes one has earned it.       *)

Earned == {o \in DOMAIN first : first[o] >= Stability /\ (Locking => o \in ripe)}

EarnedInv ==
  \A r \in Replicas :
    /\ conf[r] # NoSig => [identity |-> IdentityOf[r], sig |-> conf[r]] \in Earned
    /\ pc[r] \in {"ensure", "fastPath"} => IsConfirmed(r)
    /\ pc[r] \in EarnedLabels => Observation(r) \in Earned

(* What is earned stays earned. *)
LEMMA EarnedStays ==
  ASSUME StoreTyped, StoreTyped', FirstTyped, FirstTyped', RecordHistory
  PROVE  Earned \subseteq Earned'
<1> SUFFICES ASSUME NEW o \in Earned PROVE o \in Earned'
  OBVIOUS
<1>1. o \in DOMAIN first /\ first[o] >= Stability /\ (Locking => o \in ripe)
  BY DEF Earned
<1>2. o \in DOMAIN first' /\ first[o] <= first'[o]
  BY <1>1, FirstGrows
<1>3. first[o] \in Nat /\ first'[o] \in Nat
  BY <1>1, <1>2, AgesGrow DEF FirstTyped
<1>4. first'[o] >= Stability
  BY <1>1, <1>2, <1>3, StabilityAssumption
<1>5. ripe \subseteq ripe'
  BY DEF RecordHistory
<1> QED
  BY <1>2, <1>4, <1>5 DEF Earned

(* A replica that has waited long enough has earned its observation. *)
LEMMA WaitingEarns ==
  ASSUME StoreTyped, AttemptTyped, FirstTyped, CandidateDated, HolderDated, HolderMatches,
         NEW q \in Replicas, pc[q] = "ready", OldEnough(age[q])
  PROVE  Observation(q) \in Earned
<1>1. age[q] \in Ages /\ age[q] >= Stability
  BY ReplicasAreProcs DEF AttemptTyped, OldEnough
<1>2. Observation(q) \in DOMAIN first /\ age[q] <= first[Observation(q)]
  BY DEF HolderDated
<1>3. first[Observation(q)] >= Stability
  BY <1>1, <1>2, StabilityAssumption, AgesGrow DEF FirstTyped
<1>4. ASSUME Locking PROVE Observation(q) \in ripe
  <2>1. CandidateMatches(q) /\ cand.age = age[q]
    BY <1>4 DEF HolderMatches
  <2>2. cand.age = Stability
    <3>1. age[q] = Stability
      BY <1>1, StabilityAssumption DEF Ages
    <3> QED
      BY <2>1, <3>1
  <2>3. cand # NoCand /\ Recorded(cand) = Observation(q)
    BY <2>1 DEF CandidateMatches, Recorded, Observation
  <2> QED
    BY <2>2, <2>3 DEF CandidateDated
<1> QED
  BY <1>2, <1>3, <1>4 DEF Earned

(* Every step keeps what is confirmed or on its way to a release earned. *)
LEMMA EarnedStep ==
  ASSUME TypeInv, TypeInv', Stability > 0, FirstTyped, FirstTyped', CandidateDated,
         HolderDated, HolderMatches, EarnedInv, [Next]_vars, RecordHistory
  PROVE  EarnedInv'
<1>1. StoreTyped /\ StoreTyped' /\ AttemptTyped /\ PcTyped /\ Prepared
  BY TypeParts
<1> DEFINE Obs(q, s) == [identity |-> IdentityOf[q], sig |-> s]
<1>2. Earned \subseteq Earned'
  BY <1>1, EarnedStays
<1> SUFFICES ASSUME NEW q \in Replicas
             PROVE  /\ conf'[q] # NoSig => Obs(q, conf'[q]) \in Earned'
                    /\ pc'[q] \in {"ensure", "fastPath"} => conf'[q] = prep'[q]
                    /\ pc'[q] \in EarnedLabels => Obs(q, prep'[q]) \in Earned'
  BY DEF EarnedInv, Observation, IsConfirmed
<1>3. /\ conf[q] # NoSig => Obs(q, conf[q]) \in Earned
      /\ pc[q] \in {"ensure", "fastPath"} => conf[q] = prep[q]
      /\ pc[q] \in EarnedLabels => Obs(q, prep[q]) \in Earned
  BY DEF EarnedInv, Observation, IsConfirmed
<1>4. pc[q] = "fastPath" => prep[q] # NoSig
  BY <1>1, ProcessAssumption DEF Prepared, Unprepared, FallbackLabels
<1>5. pc[q] = "ready" /\ OldEnough(age[q]) => Obs(q, prep[q]) \in Earned
  BY <1>1, WaitingEarns DEF Observation
<1> HIDE DEF Obs
<1>6. CASE Tick \/ Rests(q)
  <2>1. pc'[q] = pc[q] /\ prep'[q] = prep[q] /\ conf'[q] = conf[q]
    BY <1>1, <1>6, TickMoves DEF Rests, Keeps
  <2> QED
    BY <1>2, <1>3, <2>1
<1>7. CASE Drops(q)
  BY <1>2, <1>3, <1>7 DEF Drops, Unprepared, FallbackLabels, EarnedLabels,
     WritingLabels
<1>8. CASE Looks(q)
  BY <1>2, <1>3, <1>8 DEF Looks, EarnedLabels, WritingLabels
<1>9. CASE Reconciles(q)
  BY <1>2, <1>3, <1>9 DEF Reconciles, Keeps, EarnedLabels, WritingLabels
<1>10. CASE Meets(q)
  BY <1>2, <1>3, <1>10 DEF Meets, Keeps, IsConfirmed, EarnedLabels,
     WritingLabels
<1>11. CASE Proceeds(q)
  <2>1. prep'[q] = prep[q] /\ conf'[q] = conf[q] /\ pc'[q] \notin {"ensure", "fastPath"}
    BY <1>11 DEF Proceeds, Keeps, WritingLabels
  <2>2. pc[q] \in EarnedLabels \/ pc[q] = "fastPath" \/ (pc[q] = "ready" /\ OldEnough(age[q]))
    BY <1>11 DEF Proceeds, EarnedLabels, WritingLabels
  <2>3. Obs(q, prep[q]) \in Earned
    BY <1>3, <1>4, <1>5, <2>2
  <2> QED
    BY <1>2, <1>3, <2>1, <2>3
<1> QED
  BY <1>6, <1>7, <1>8, <1>9, <1>10, <1>11, ReplicaProgress DEF Progress

-----------------------------------------------------------------------------
(* With a lock nothing that was looked at before the candidate's timestamp *)
(* is settled on after it.  That holds of the timestamp a replica is about *)
(* to write as well, and of a whole period once a replica that had to wait *)
(* for it is publishing; the candidate is then what it publishes.          *)

WriterIsNewest ==
  \A r \in Replicas : pc[r] = "writeCandidate" => \A o \in Sources : settled[o] >= age[r]

PublisherIsStable ==
  \A r \in Replicas : pc[r] \in WritingLabels /\ NeedsStability(r)
    => /\ cand # NoCand /\ Recorded(cand) = Observation(r)
       /\ \A o \in Sources \ {Observation(r)} : settled[o] >= Stability

NewestInv == Locking => NewestButInPassing /\ WriterIsNewest /\ PublisherIsStable

(* To settle on an observation is to find it in the candidate, with the    *)
(* lock or while nobody is about to write the candidate.                   *)
LEMMA SettlingMatches ==
  ASSUME TypeInv, Stability > 0, [Next]_vars, NEW q \in Replicas, Settles(q)
  PROVE  /\ cand' # NoCand /\ Recorded(cand') = Observation(q)
         /\ pc'[q] # pc[q]
         /\ pc[q] \in SyncLabels \/ \A w \in Replicas : pc[w] # "writeCandidate"
<1>1. \/ pc[q] \in SyncLabels \ {"ready"} /\ pc'[q] \in {"ready", "fastPath"}
      \/ /\ pc[q] = "ensure" /\ pc'[q] = "fastPath"
         /\ \A w \in Replicas : pc[w] # "writeCandidate"
  BY DEF Settles, Agrees, AgreesUnlocked, InPassing
<1>2. pc'[q] # pc[q]
  BY <1>1 DEF SyncLabels
<1>3. Progress(q)
  BY <1>2, ReplicaProgress DEF Tick
<1>4. CASE pc[q] \in SyncLabels \ {"ready"} /\ pc'[q] \in {"ready", "fastPath"}
  <2>1. Meets(q)
    BY <1>3, <1>4 DEF Progress, Rests, Drops, Unprepared, FallbackLabels,
       Looks, Reconciles, Proceeds, WritingLabels, SyncLabels
  <2> QED
    BY <1>2, <1>4, <2>1 DEF Meets
<1>5. CASE pc[q] = "ensure" /\ pc'[q] = "fastPath"
  <2>1. CandidateMatches(q) /\ cand' = cand
    BY <1>3, <1>5 DEF Progress, Rests, Drops, Unprepared, FallbackLabels,
       Looks, Reconciles, Meets, Proceeds, WritingLabels
  <2>2. cand # NoCand /\ Recorded(cand) = Observation(q)
    BY <2>1 DEF CandidateMatches, Recorded, Observation
  <2> QED
    BY <1>1, <1>2, <1>5, <2>1, <2>2 DEF SyncLabels
<1> QED
  BY <1>1, <1>4, <1>5

(* An agreement is forgotten unless it is met anew in the candidate. *)
LEMMA AgreementKept ==
  ASSUME TypeInv, Stability > 0, RecordTyped, [Next]_vars, RecordHistory,
         NEW o \in Sources, o # Recorded(cand') \/ \A q \in Replicas : ~Settles(q)
  PROVE  settled[o] <= settled'[o] /\ (Tick => settled'[o] = Older(settled[o]))
BY AgreementGrows, SettlingMatches

(* Nobody settles on anything while the write of the candidate is pending. *)
LEMMA NobodySettles ==
  ASSUME TypeInv, Stability > 0, Locking, LockProtectsReference, [Next]_vars,
         NEW q \in Replicas, pc[q] = "writeCandidate", pc'[q] = pc[q]
  PROVE  \A w \in Replicas : ~Settles(w)
<1> SUFFICES ASSUME NEW w \in Replicas, Settles(w) PROVE FALSE
  OBVIOUS
<1>1. pc[w] \in SyncLabels /\ pc'[w] # pc[w]
  BY SettlingMatches
<1>2. q = w
  BY <1>1, OneUnderLock DEF SyncLabels
<1> QED
  BY <1>1, <1>2

(* Every step keeps the candidate the newest observation. *)
LEMMA CandidateNewestStep ==
  ASSUME TypeInv, TypeInv', Stability > 0, Locking, RecordTyped, RecordTyped', NewestInv,
         [Next]_vars, RecordHistory
  PROVE  NewestButInPassing'
<1>1. StoreTyped /\ StoreTyped' /\ PcTyped /\ AttemptTyped /\ Prepared
  BY TypeParts
<1> SUFFICES ASSUME cand' # NoCand, NEW o \in Sources, o # Recorded(cand')
             PROVE  settled'[o] >= cand'.age
  BY DEF NewestButInPassing
<1>2. settled[o] <= settled'[o] /\ (Tick => settled'[o] = Older(settled[o]))
  BY AgreementKept
<1>3. settled[o] \in Ages /\ settled'[o] \in Ages /\ cand'.age \in Ages
  BY <1>1 DEF RecordTyped, StoreTyped, Cands
<1>4. settled[o] \in Nat /\ settled'[o] \in Nat /\ cand'.age \in Nat
  BY <1>3, AgesGrow
<1>5. CASE UNCHANGED cand
  <2>1. settled[o] >= cand'.age
    BY <1>5 DEF NewestInv, NewestButInPassing
  <2> QED
    BY <1>2, <1>4, <2>1
<1>6. CASE Tick
  <2>1. cand # NoCand /\ cand'.age = Older(cand.age) /\ Recorded(cand') = Recorded(cand)
    BY <1>1, <1>6, TickMoves
  <2>2. settled[o] >= cand.age
    BY <2>1 DEF NewestInv, NewestButInPassing
  <2>3. cand.age \in Ages
    BY <1>1, <2>1 DEF StoreTyped, Cands
  <2>4. cand.age <= settled[o]
    BY <2>2
  <2>5. Older(cand.age) <= Older(settled[o])
    BY <1>3, <2>3, <2>4, AgesGrow
  <2>6. settled'[o] = Older(settled[o])
    BY <1>2, <1>6
  <2> QED
    BY <2>1, <2>5, <2>6
<1>7. ASSUME NEW w \in Replicas, WritesCandidate(w) PROVE settled'[o] >= cand'.age
  <2>1. cand'.age = age[w]
    BY <1>1, <1>7, WrittenCandidate
  <2>2. settled[o] >= age[w]
    BY <1>7 DEF NewestInv, WriterIsNewest, WritesCandidate
  <2> QED
    BY <1>2, <1>4, <2>1, <2>2
<1> QED
  BY <1>1, <1>5, <1>6, <1>7, CandidateMoves

(* Every step keeps the timestamp of a writer the newest. *)
LEMMA WriterNewestStep ==
  ASSUME TypeInv, TypeInv', Stability > 0, Locking, LockProtectsReference, RecordTyped,
         RecordTyped', AgeReset, NewestInv, [Next]_vars, RecordHistory
  PROVE  WriterIsNewest'
<1>1. StoreTyped /\ AttemptTyped /\ AttemptTyped'
  BY TypeParts
<1> SUFFICES ASSUME NEW q \in Replicas, pc'[q] = "writeCandidate", NEW o \in Sources
             PROVE  settled'[o] >= age'[q]
  BY DEF WriterIsNewest
<1>2. /\ settled[o] \in Ages /\ settled'[o] \in Ages /\ age[q] \in Ages
      /\ settled[o] \in Nat /\ settled'[o] \in Nat /\ age[q] \in Nat
  BY <1>1, ReplicasAreProcs, AgesGrow DEF RecordTyped, AttemptTyped
<1>3. pc[q] = "writeCandidate" => age[q] <= settled[o]
  BY DEF NewestInv, WriterIsNewest
<1>4. pc[q] = "writeCandidate" => /\ settled[o] <= settled'[o]
                                  /\ (Tick => settled'[o] = Older(settled[o]))
  BY NobodySettles, AgreementKept
<1>5. CASE Tick
  <2>1. pc[q] = "writeCandidate" /\ age'[q] = Older(age[q])
    BY <1>1, <1>5, TickMoves DEF HoldsTimestamp
  <2>2. Older(age[q]) <= Older(settled[o])
    BY <1>2, <1>3, <2>1, AgesGrow
  <2>3. settled'[o] = Older(settled[o]) /\ Older(age[q]) \in Nat
    BY <1>2, <1>4, <1>5, <2>1, AgesGrow
  <2> QED
    BY <2>1, <2>2, <2>3
<1>6. CASE Progress(q)
  <2>1. \/ pc[q] = "writeCandidate" /\ age'[q] = age[q]
        \/ pc[q] = "confirmCandidate" /\ age'[q] = age[q]
    BY <1>6 DEF Progress, Rests, Drops, Unprepared, FallbackLabels, Looks,
       Reconciles, Meets, Proceeds, WritingLabels
  <2>2. CASE pc[q] = "writeCandidate" /\ age'[q] = age[q]
    BY <1>2, <1>3, <1>4, <2>2
  <2>3. CASE pc[q] = "confirmCandidate" /\ age'[q] = age[q]
    <3>1. age'[q] = 0
      BY <2>3 DEF AgeReset, HoldsTimestamp
    <3> QED
      BY <1>2, <3>1
  <2> QED
    BY <2>1, <2>2, <2>3
<1> QED
  BY <1>5, <1>6, ReplicaProgress

(* Every step keeps the source of a publisher that had to wait stable. *)
LEMMA PublisherStableStep ==
  ASSUME TypeInv, TypeInv', Stability > 0, Locking, LockProtectsReference, RecordTyped,
         RecordTyped', HolderMatches, NewestInv, [Next]_vars, RecordHistory
  PROVE  PublisherIsStable'
<1>1. StoreTyped /\ PcTyped /\ AttemptTyped
  BY TypeParts
<1> SUFFICES ASSUME NEW q \in Replicas, pc'[q] \in WritingLabels, conf'[q] # prep'[q]
             PROVE  /\ cand' # NoCand
                    /\ Recorded(cand') = [identity |-> IdentityOf[q], sig |-> prep'[q]]
                    /\ \A o \in Sources \ {[identity |-> IdentityOf[q], sig |-> prep'[q]]} :
                         settled'[o] >= Stability
  BY DEF PublisherIsStable, NeedsStability, IsConfirmed, Observation
<1>2. /\ prep'[q] = prep[q] /\ conf'[q] = conf[q]
      /\ \/ pc[q] \in WritingLabels
         \/ pc[q] = "recheckElapsed" /\ OldEnough(age[q])
  <2>1. CASE Tick
    BY <1>1, <2>1, TickMoves
  <2>2. CASE Progress(q)
    BY <2>2 DEF Progress, Rests, Keeps, Drops, Unprepared, FallbackLabels,
       Looks, Reconciles, Meets, Proceeds, WritingLabels, NeedsStability,
       IsConfirmed
  <2> QED
    BY <2>1, <2>2, ReplicaProgress
<1>3. NeedsStability(q) /\ [identity |-> IdentityOf[q], sig |-> prep'[q]] = Observation(q)
  BY <1>2 DEF NeedsStability, IsConfirmed, Observation
<1>4. /\ cand # NoCand /\ Recorded(cand) = Observation(q)
      /\ \A o \in Sources \ {Observation(q)} : settled[o] >= Stability
  <2>1. CASE pc[q] \in WritingLabels
    BY <1>3, <2>1 DEF NewestInv, PublisherIsStable
  <2>2. CASE pc[q] = "recheckElapsed" /\ OldEnough(age[q])
    <3>1. CandidateMatches(q) /\ cand.age = age[q]
      BY <2>2 DEF HolderMatches
    <3>2. cand # NoCand /\ Recorded(cand) = Observation(q)
      BY <3>1 DEF CandidateMatches, Recorded, Observation
    <3>3. ASSUME NEW o \in Sources \ {Observation(q)} PROVE settled[o] >= Stability
      <4>1. settled[o] >= age[q]
        BY <3>1, <3>2 DEF NewestInv, NewestButInPassing
      <4>2. age[q] \in Nat /\ settled[o] \in Nat
        BY <1>1, ReplicasAreProcs, AgesGrow DEF AttemptTyped, RecordTyped
      <4> QED
        BY <2>2, <4>1, <4>2, StabilityAssumption DEF OldEnough
    <3> QED
      BY <3>2, <3>3
  <2> QED
    BY <1>2, <2>1, <2>2
<1>5. cand' # NoCand /\ Recorded(cand') = Observation(q)
  <2>1. ASSUME NEW w \in Replicas, WritesCandidate(w) PROVE FALSE
    <3>1. q = w
      BY <1>2, <2>1, OneUnderLock DEF WritesCandidate, SyncLabels,
         GuardedLabels, WritingLabels
    <3> QED
      BY <1>2, <2>1, <3>1 DEF WritesCandidate, WritingLabels
  <2>2. CASE Tick
    <3>1. cand' = [cand EXCEPT !.age = Older(@)] /\ cand \in Cands
      BY <1>1, <1>4, <2>2 DEF Tick, StoreTyped
    <3>2. cand' \in Cands
      BY <3>1, ConstantFacts DEF Cands
    <3> QED
      BY <1>1, <1>4, <2>2, <3>2, TickMoves, RootNoneAssumption
  <2>3. CASE UNCHANGED cand
    BY <1>4, <2>3
  <2> QED
    BY <1>1, <2>1, <2>2, <2>3, CandidateMoves
<1>6. ASSUME NEW o \in Sources \ {Observation(q)} PROVE settled'[o] >= Stability
  <2>1. settled[o] <= settled'[o]
    BY <1>5, AgreementKept
  <2>2. settled[o] \in Nat /\ settled'[o] \in Nat
    BY AgesGrow DEF RecordTyped
  <2> QED
    BY <1>4, <2>1, <2>2, StabilityAssumption
<1> QED
  BY <1>3, <1>5, <1>6

-----------------------------------------------------------------------------
(* The inductive invariant of the history: what is recorded is typed, and, *)
(* when there is a stability period, timestamps are dated, what is on its  *)
(* way to a release is earned, and the candidate is the newest observation.*)

PeriodInv ==
  /\ AgeReset /\ CandidateDated /\ HolderDated /\ HolderMatches
  /\ EarnedInv
  /\ NewestInv

HistoryInv == SafeInv /\ RecordTyped /\ (Stability > 0 => PeriodInv)

(* The initial states satisfy it. *)
LEMMA HistoryInitial == HistoryInit => HistoryInv
<1> SUFFICES ASSUME HistoryInit PROVE HistoryInv
  OBVIOUS
<1>1. SafeInv
  BY SafeInit DEF HistoryInit
<1>2. RecordTyped
  <2>1. 0 \in Ages /\ Stability \in Ages
    BY StabilityAssumption DEF Ages
  <2> QED
    BY <2>1 DEF HistoryInit, RecordTyped, FirstTyped
<1>3. AgeReset /\ CandidateDated /\ HolderDated /\ HolderMatches
  BY ReplicasAreProcs DEF HistoryInit, Init, RootInit, AgeReset,
     CandidateDated, HolderDated, HolderMatches
<1>4. EarnedInv
  BY ReplicasAreProcs DEF HistoryInit, Init, EarnedInv, EarnedLabels,
     WritingLabels
<1>5. NewestInv
  BY ReplicasAreProcs DEF HistoryInit, Init, RootInit, NewestInv,
     NewestButInPassing, WriterIsNewest, PublisherIsStable, WritingLabels
<1> QED
  BY <1>1, <1>2, <1>3, <1>4, <1>5 DEF HistoryInv, PeriodInv

(* Every step of publication, with its record, preserves it, ... *)
LEMMA HistoryMoves == HistoryInv /\ Next /\ RecordHistory => HistoryInv'
<1> SUFFICES ASSUME HistoryInv, Next, RecordHistory PROVE HistoryInv'
  OBVIOUS
<1>1. [Next]_vars /\ SafeInv /\ SafeInv' /\ RecordTyped
  BY SafeStep DEF HistoryInv
<1>2. TypeInv /\ TypeInv' /\ LockProtectsReference
  BY <1>1 DEF SafeInv
<1>3. RecordTyped' /\ FirstTyped /\ FirstTyped'
  BY <1>1, <1>2, RecordTypedStep DEF TypeInv, RecordTyped
<1>4. ASSUME Stability > 0 PROVE PeriodInv'
  <2>1. /\ AgeReset /\ CandidateDated /\ HolderDated /\ HolderMatches
        /\ EarnedInv /\ NewestInv
    BY <1>4 DEF HistoryInv, PeriodInv
  <2>2. StoreTyped /\ StoreTyped' /\ AttemptTyped /\ PcTyped /\ Prepared
    BY <1>2, TypeParts
  <2>3. AgeReset'
    BY <1>2, <2>1, AgeResetStep
  <2>4. CandidateDated'
    BY <1>3, <2>1, <2>2, CandidateDatedStep
  <2>5. HolderDated'
    BY <1>2, <1>3, <1>4, <2>1, <2>4, HolderDatedStep
  <2>6. HolderMatches'
    BY <1>2, <1>4, <2>1, HolderMatchesStep
  <2>7. EarnedInv'
    BY <1>2, <1>3, <1>4, <2>1, EarnedStep
  <2>8. NewestInv'
    BY <1>1, <1>2, <1>3, <1>4, <2>1, CandidateNewestStep, WriterNewestStep,
       PublisherStableStep DEF NewestInv
  <2> QED
    BY <2>3, <2>4, <2>5, <2>6, <2>7, <2>8 DEF PeriodInv
<1> QED
  BY <1>1, <1>3, <1>4 DEF HistoryInv

(* ... and so does a step in which nothing changes. *)
LEMMA HistoryRests == HistoryInv /\ UNCHANGED <<vars, historyVars>> => HistoryInv'
<1> SUFFICES ASSUME HistoryInv, UNCHANGED <<vars, historyVars>> PROVE HistoryInv'
  OBVIOUS
<1>1. SafeInv'
  BY SafeStep DEF HistoryInv
<1>2. RecordTyped'
  BY DEF HistoryInv, historyVars, RecordTyped, FirstTyped
<1>3. Stability > 0 => PeriodInv
  BY DEF HistoryInv
<1>4. PeriodInv => AgeReset' /\ CandidateDated' /\ HolderDated' /\ HolderMatches'
  BY DEF PeriodInv, vars, historyVars, rootVars, tokenVars, workVars,
     AgeReset, CandidateDated, HolderDated, HolderMatches, Observation,
     CandUnchanged, CandidateMatches
<1>5. PeriodInv => EarnedInv'
  BY DEF PeriodInv, vars, historyVars, workVars, memoryVars, EarnedInv,
     Earned, IsConfirmed, Observation
<1>6. PeriodInv => NewestInv'
  BY DEF PeriodInv, vars, historyVars, rootVars, workVars, memoryVars,
     NewestInv, NewestButInPassing, WriterIsNewest, PublisherIsStable,
     NeedsStability, IsConfirmed, Observation
<1> QED
  BY <1>1, <1>2, <1>4, <1>5, <1>6 DEF HistoryInv, PeriodInv

(* Every reachable state of publication and its record satisfies the       *)
(* inductive invariant.                                                    *)
THEOREM HistoryInvariant == HistorySpec => []HistoryInv
<1>1. HistoryInit => HistoryInv
  BY HistoryInitial
<1>2. HistoryInv /\ [Next /\ RecordHistory]_<<vars, historyVars>> => HistoryInv'
  BY HistoryMoves, HistoryRests
<1> QED
  BY <1>1, <1>2, PTL DEF HistorySpec

(* On every kind of root, whatever crashes and however often the candidate *)
(* was replaced, a stability period passes between the first time that an  *)
(* observation was recorded as the candidate and its release.              *)
THEOREM ReleasesAreNotEarly ==
  ASSUME Stability > 0
  PROVE  HistorySpec => NoEarlyRelease
<1>1. HistoryInv => \A r \in Replicas : pc[r] = "putRef" =>
        Observation(r) \in DOMAIN first /\ first[Observation(r)] >= Stability
  BY DEF HistoryInv, PeriodInv, EarnedInv, EarnedLabels, WritingLabels,
     Earned
<1>2. HistoryInv =>
        [\A r \in Replicas :
           pc[r] = "putRef" /\ ref' # ref /\ pc'[r] # "putRef"
             => Observation(r) \in DOMAIN first /\ first[Observation(r)] >= Stability
        ]_<<vars, historyVars>>
  BY <1>1
<1> QED
  BY <1>2, HistoryInvariant, PTL DEF NoEarlyRelease

(* With the lock of a filesystem root, that observation was the shared     *)
(* candidate for a whole period, without a break in between.               *)
THEOREM ReleasesAreRipe ==
  ASSUME Locking, Stability > 0
  PROVE  HistorySpec => OnlyRipeReleases
<1>1. HistoryInv => \A r \in Replicas : pc[r] = "putRef" => Observation(r) \in ripe
  BY DEF HistoryInv, PeriodInv, EarnedInv, EarnedLabels, WritingLabels,
     Earned
<1>2. HistoryInv =>
        [\A r \in Replicas :
           pc[r] = "putRef" /\ ref' # ref /\ pc'[r] # "putRef"
             => Observation(r) \in ripe]_<<vars, historyVars>>
  BY <1>1
<1> QED
  BY <1>2, HistoryInvariant, PTL DEF OnlyRipeReleases

(* With that lock the candidate does not go back to an observation older   *)
(* than one that a replica settled on since: agreed to, and not merely     *)
(* without the lock while the write of another replica was pending.        *)
THEOREM CandidateStaysNewest ==
  ASSUME Locking
  PROVE  HistorySpec => []NewestButInPassing
<1>1. HistoryInv => NewestButInPassing
  <2>1. CASE Stability > 0
    BY <2>1 DEF HistoryInv, PeriodInv, NewestInv
  <2>2. CASE ~ (Stability > 0)
    <3> SUFFICES ASSUME SafeInv, RecordTyped, cand # NoCand, NEW o \in Sources
                 PROVE  settled[o] >= cand.age
      BY DEF HistoryInv, NewestButInPassing
    <3>1. Ages = {0}
      BY <2>2, StabilityAssumption DEF Ages
    <3>2. cand.age \in Ages /\ settled[o] \in Ages
      BY DEF SafeInv, TypeInv, TypeOK, RootTypeOK, Cands, RecordTyped
    <3> QED
      BY <3>1, <3>2
  <2> QED
    BY <2>1, <2>2
<1> QED
  BY <1>1, HistoryInvariant, PTL

(* With that lock, a source that its publisher had not confirmed before is *)
(* released only if for a whole period nobody settled on an observation of *)
(* anything else.                                                          *)
THEOREM ReleasesAreStable ==
  ASSUME Locking
  PROVE  HistorySpec => ReleaseWasStable
<1>1. HistoryInv => \A r \in Replicas : pc[r] = "putRef" /\ NeedsStability(r)
        => \A o \in Sources \ {Observation(r)} : settled[o] >= Stability
  BY DEF HistoryInv, PeriodInv, NewestInv, PublisherIsStable, WritingLabels,
     NeedsStability
<1>2. HistoryInv =>
        [\A r \in Replicas :
           /\ pc[r] = "putRef" /\ ref' # ref /\ pc'[r] # "putRef"
           /\ NeedsStability(r)
           => \A o \in Sources \ {Observation(r)} : settled[o] >= Stability
        ]_<<vars, historyVars>>
  BY <1>1
<1> QED
  BY <1>2, HistoryInvariant, PTL DEF ReleaseWasStable
=============================================================================
