-------------------------- MODULE PublicationTypes -------------------------
(***************************************************************************)
(* Type correctness of Publication, for every value of its constants.      *)
(***************************************************************************)
EXTENDS Publication, TLAPS

(* The constants, as the proofs use them. *)
LEMMA ConstantFacts ==
  /\ Replicas \subseteq Procs
  /\ Publishers \subseteq Procs
  /\ \A p \in Procs : IdentityOf[p] \in Identities
  /\ \A s \in Sigs : VersionOf[s] \in Versions
  /\ \A v \in Versions : FilesOf[v] \subseteq Files
  /\ 0 \in Ages
  /\ \A a \in Ages : Older(a) \in Ages
  /\ \A i \in Identities, s \in Sigs : RefFor(i, s) \in Refs
  /\ \A i \in Identities, s \in Sigs, a \in Ages :
       [identity |-> i, sig |-> s, age |-> a] \in Cands
BY SourceAssumption, ProcessAssumption, StabilityAssumption
   DEF Ages, Older, RefFor, Refs, Sources, Cands

(* A replica is a process. *)
LEMMA ReplicasAreProcs == Replicas \subseteq Procs
BY ProcessAssumption

-----------------------------------------------------------------------------
(* Type correctness.  TypeOK in five parts: the documents, the requests    *)
(* that come next, the values of an attempt, everything else, and what a   *)
(* refresh has when it comes to serve.                                     *)

StoreTyped ==
  /\ ref \in Refs \cup {NoRef}
  /\ cand \in Cands \cup {NoCand}
  /\ files \in [Versions -> SUBSET Files]
  /\ committed \in SUBSET Versions

PcTyped == pc \in [Procs -> Labels]

AttemptTyped ==
  /\ guard \in Procs \cup {Nobody}
  /\ refTok \in [Procs -> Refs \cup {NoRef, StaleToken}]
  /\ candLive \in [Procs -> BOOLEAN]
  /\ cur \in [Procs -> Refs \cup {NoRef}]
  /\ prep \in [Procs -> Sigs \cup {NoSig}]
  /\ age \in [Procs -> Ages]
  /\ todo \in [Procs -> SUBSET Files]
  /\ expected \in [Procs -> Versions \cup {NoVersion}]

RestTyped ==
  /\ source \in [Identities -> Sigs]
  /\ budget \in Budgets
  /\ conf \in [Replicas -> Sigs \cup {NoSig}]
  /\ served \in [Replicas -> Refs \cup {NoRef}]
  /\ window \in [Replicas -> SUBSET Refs]

ServeTyped == \A r \in Replicas : pc[r] = "serve" => cur[r] # NoRef

(* What an attempt publishes is known from the observation to its end. *)
Unprepared == {"idle", "prepare"} \cup FallbackLabels

Prepared == \A p \in Procs : pc[p] \notin Unprepared => prep[p] \in Sigs

TypeInv == TypeOK /\ Prepared

(* All of it but ServeTyped, which needs the rest to be preserved. *)
BaseInv == StoreTyped /\ PcTyped /\ AttemptTyped /\ RestTyped /\ Prepared

(* What the environment may still do stays within its bounds. *)
LEMMA SpendTyped ==
  ASSUME budget \in Budgets
  PROVE  /\ budget.changes > 0 => [budget EXCEPT !.changes = @ - 1] \in Budgets
         /\ budget.crashes > 0 => [budget EXCEPT !.crashes = @ - 1] \in Budgets
         /\ budget.faults > 0 => [budget EXCEPT !.faults = @ - 1] \in Budgets
BY ProcessAssumption DEF Budgets

(* A moment a process may take over from the candidate document. *)
LEMMA AgeFacts ==
  /\ 0 \in Ages
  /\ cand \in Cands => cand.age \in Ages
BY ConstantFacts DEF Cands

(* The parts make up the invariant, before and after a step. *)
LEMMA TypeParts ==
  /\ TypeInv <=> /\ StoreTyped /\ PcTyped /\ AttemptTyped /\ RestTyped /\ Prepared
                 /\ ServeTyped
  /\ TypeInv' <=> /\ StoreTyped' /\ PcTyped' /\ AttemptTyped' /\ RestTyped' /\ Prepared'
                  /\ ServeTyped'
BY DEF TypeInv, TypeOK, RootTypeOK, StoreTyped, PcTyped, AttemptTyped, RestTyped,
       ServeTyped

(* However an attempt ends, its values stay of their types. *)
LEMMA LeaveTyped ==
  ASSUME AttemptTyped, NEW p \in Procs, NEW label,
         NEW release \in Refs \cup {NoRef}, Leave(p, label, release)
  PROVE  AttemptTyped'
BY ConstantFacts DEF AttemptTyped, Leave, Goto, FreedGuard

LEMMA RaiseTyped ==
  ASSUME AttemptTyped, NEW p \in Procs, Raise(p)
  PROVE  AttemptTyped'
<1>1. cur[p] \in Refs \cup {NoRef}
  BY DEF AttemptTyped
<1> QED
  BY <1>1, LeaveTyped DEF Raise

LEMMA ReturnTyped ==
  ASSUME AttemptTyped, NEW p \in Procs, NEW release \in Refs \cup {NoRef},
         Return(p, release)
  PROVE  AttemptTyped'
BY LeaveTyped DEF Return

(* Every step preserves the types, action by action. *)
LEMMA BaseStep == BaseInv /\ [Next]_vars => BaseInv'
<1> SUFFICES ASSUME BaseInv, [Next]_vars PROVE BaseInv'
  OBVIOUS
<1>1. StoreTyped /\ PcTyped /\ AttemptTyped /\ RestTyped /\ Prepared
  BY DEF BaseInv
<1>2. ASSUME NEW r \in Replicas, BeginRefresh(r) PROVE BaseInv'
  <2>1. r \in Procs
    BY ConstantFacts
  <2>2. StoreTyped'
    BY <1>1, <1>2 DEF StoreTyped, BeginRefresh, ReadRef, rootVars
  <2>3. PcTyped'
    BY <1>1, <1>2, <2>1 DEF PcTyped, Labels, SyncLabels, GuardedLabels,
       FallbackLabels, BeginRefresh, Goto
  <2>4. AttemptTyped'
    BY <1>1, <1>2, <2>1 DEF AttemptTyped, StoreTyped, BeginRefresh, ReadRef,
       rootVars
  <2>5. RestTyped'
    BY <1>1, <1>2, <2>1 DEF RestTyped, StoreTyped, BeginRefresh, worldVars,
       memoryVars
  <2>6. Prepared'
    BY <1>1, <1>2, <2>1 DEF Prepared, Unprepared, FallbackLabels, PcTyped,
       AttemptTyped, BeginRefresh, Goto
  <2> QED
    BY <2>2, <2>3, <2>4, <2>5, <2>6 DEF BaseInv
<1>3. ASSUME NEW r \in Replicas, PrepareSource(r) PROVE BaseInv'
  <2>1. r \in Procs
    BY ConstantFacts
  <2>2. source[IdentityOf[r]] \in Sigs
    BY <1>1, <2>1, ConstantFacts DEF RestTyped
  <2>3. StoreTyped' /\ RestTyped'
    BY <1>1, <1>3 DEF StoreTyped, RestTyped, PrepareSource, rootVars,
       worldVars, memoryVars
  <2>4. PcTyped'
    BY <1>1, <1>3, <2>1 DEF PcTyped, Labels, SyncLabels, GuardedLabels,
       FallbackLabels, PrepareSource, Goto
  <2>5. AttemptTyped'
    BY <1>1, <1>3, <2>1, <2>2 DEF AttemptTyped, StoreTyped, PrepareSource,
       rootVars, tokenVars
  <2>6. Prepared'
    BY <1>1, <1>3, <2>1, <2>2 DEF Prepared, Unprepared, FallbackLabels,
       PcTyped, AttemptTyped, PrepareSource, Goto, tokenVars
  <2> QED
    BY <2>3, <2>4, <2>5, <2>6 DEF BaseInv
<1>4. ASSUME NEW r \in Replicas, EnsureCandidateMatches(r) PROVE BaseInv'
  <2>1. r \in Procs
    BY ConstantFacts
  <2>2. StoreTyped' /\ RestTyped'
    BY <1>1, <1>4 DEF StoreTyped, RestTyped, EnsureCandidateMatches, rootVars,
       worldVars, memoryVars
  <2>3. PcTyped'
    BY <1>1, <1>4, <2>1 DEF PcTyped, Labels, SyncLabels, GuardedLabels,
       FallbackLabels, EnsureCandidateMatches, Goto
  <2>4. AttemptTyped'
    BY <1>1, <1>4, <2>1 DEF AttemptTyped, StoreTyped, EnsureCandidateMatches,
       rootVars, tokenVars, workVars
  <2>5. Prepared'
    BY <1>1, <1>4, <2>1 DEF Prepared, Unprepared, FallbackLabels, PcTyped,
       AttemptTyped, EnsureCandidateMatches, Goto, tokenVars, workVars
  <2> QED
    BY <2>2, <2>3, <2>4, <2>5 DEF BaseInv
<1>5. ASSUME NEW r \in Replicas, ConfirmedFastPath(r) PROVE BaseInv'
  <2>1. r \in Procs
    BY ConstantFacts
  <2>2. StoreTyped' /\ RestTyped'
    BY <1>1, <1>5 DEF StoreTyped, RestTyped, ConfirmedFastPath, OutcomeFrame,
       rootVars, worldVars, memoryVars
  <2>3. PcTyped'
    BY <1>1, <1>5, <2>1 DEF PcTyped, Labels, SyncLabels, GuardedLabels,
       FallbackLabels, ConfirmedFastPath, Return, OutcomeFrame, Goto, Leave
  <2>4. AttemptTyped'
    <3>1. CASE Return(r, cur[r])
      <4> cur[r] \in Refs \cup {NoRef}
        BY <1>1, <2>1 DEF AttemptTyped
      <4> QED
        BY <1>1, <2>1, <3>1, ReturnTyped
    <3>2. CASE ~Return(r, cur[r])
      BY <1>1, <1>5, <2>1, <3>2 DEF AttemptTyped, StoreTyped,
         ConfirmedFastPath, OutcomeFrame, rootVars, tokenVars, workVars
    <3> QED
      BY <3>1, <3>2
  <2>5. Prepared'
    BY <1>1, <1>5, <2>1 DEF Prepared, Unprepared, FallbackLabels, PcTyped,
       AttemptTyped, ConfirmedFastPath, Return, OutcomeFrame, Goto, tokenVars,
       workVars, Leave
  <2> QED
    BY <2>2, <2>3, <2>4, <2>5 DEF BaseInv
<1>6. ASSUME NEW r \in Replicas, LockCandidate(r) PROVE BaseInv'
  <2>1. r \in Procs
    BY ConstantFacts
  <2>2. StoreTyped' /\ RestTyped'
    BY <1>1, <1>6 DEF StoreTyped, RestTyped, LockCandidate, StoreUnchanged,
       worldVars, memoryVars
  <2>3. PcTyped'
    BY <1>1, <1>6, <2>1 DEF PcTyped, Labels, SyncLabels, GuardedLabels,
       FallbackLabels, LockCandidate, Goto, StoreUnchanged
  <2>4. AttemptTyped'
    BY <1>1, <1>6, <2>1 DEF AttemptTyped, StoreTyped, LockCandidate,
       AcquireGuard, StoreUnchanged, tokenVars, workVars
  <2>5. Prepared'
    BY <1>1, <1>6, <2>1 DEF Prepared, Unprepared, FallbackLabels, PcTyped,
       AttemptTyped, LockCandidate, Goto, tokenVars, workVars
  <2> QED
    BY <2>2, <2>3, <2>4, <2>5 DEF BaseInv
<1>7. ASSUME NEW r \in Replicas, ReadCandidate(r) PROVE BaseInv'
  <2>1. r \in Procs
    BY ConstantFacts
  <2>2. StoreTyped' /\ RestTyped'
    BY <1>1, <1>7 DEF StoreTyped, RestTyped, ReadCandidate, OutcomeFrame,
       worldVars, memoryVars
  <2>3. PcTyped'
    BY <1>1, <1>7, <2>1 DEF PcTyped, Labels, SyncLabels, GuardedLabels,
       FallbackLabels, ReadCandidate, Synchronized, Raise, Goto, OutcomeFrame,
       Leave
  <2>4. AttemptTyped'
    <3>1. CASE Raise(r)
      BY <1>1, <2>1, <3>1, RaiseTyped
    <3>2. CASE ~Raise(r)
      BY <1>1, <1>7, <2>1, <3>2, AgeFacts DEF AttemptTyped, StoreTyped,
         ReadCandidate, CandidateMatches, Synchronized, tokenVars, workVars,
         OutcomeFrame, FreedGuard
    <3> QED
      BY <3>1, <3>2
  <2>5. Prepared'
    BY <1>1, <1>7, <2>1 DEF Prepared, Unprepared, FallbackLabels, PcTyped,
       AttemptTyped, ReadCandidate, Synchronized, tokenVars, Raise, Goto,
       workVars, OutcomeFrame, Leave
  <2> QED
    BY <2>2, <2>3, <2>4, <2>5 DEF BaseInv
<1>8. ASSUME NEW r \in Replicas, ConfirmCandidate(r) PROVE BaseInv'
  <2>1. r \in Procs
    BY ConstantFacts
  <2>2. StoreTyped' /\ RestTyped'
    BY <1>1, <1>8 DEF StoreTyped, RestTyped, ConfirmCandidate, OutcomeFrame,
       worldVars, memoryVars
  <2>3. PcTyped'
    BY <1>1, <1>8, <2>1 DEF PcTyped, Labels, SyncLabels, GuardedLabels,
       FallbackLabels, ConfirmCandidate, Goto, Raise, OutcomeFrame, Leave
  <2>4. AttemptTyped'
    <3>1. CASE Raise(r)
      BY <1>1, <2>1, <3>1, RaiseTyped
    <3>2. CASE ~Raise(r)
      BY <1>1, <1>8, <2>1, <3>2 DEF AttemptTyped, StoreTyped, ConfirmCandidate,
         tokenVars, workVars, OutcomeFrame
    <3> QED
      BY <3>1, <3>2
  <2>5. Prepared'
    BY <1>1, <1>8, <2>1 DEF Prepared, Unprepared, FallbackLabels, PcTyped,
       AttemptTyped, ConfirmCandidate, Goto, tokenVars, workVars, Raise,
       OutcomeFrame, Leave
  <2> QED
    BY <2>2, <2>3, <2>4, <2>5 DEF BaseInv
<1>9. ASSUME NEW r \in Replicas, WriteCandidate(r) PROVE BaseInv'
  <2>1. r \in Procs
    BY ConstantFacts
  <2>2. prep[r] \in Sigs
    BY <1>1, <1>9, <2>1 DEF Prepared, Unprepared, FallbackLabels,
       WriteCandidate
  <2>3. [identity |-> IdentityOf[r], sig |-> prep[r], age |-> age[r]] \in Cands
    BY <1>1, <2>1, <2>2, ConstantFacts DEF AttemptTyped
  <2>4. StoreTyped'
    BY <1>1, <1>9, <2>3 DEF StoreTyped, WriteCandidate, PutCand, Synchronized
  <2>5. PcTyped'
    BY <1>1, <1>9, <2>1 DEF PcTyped, Labels, SyncLabels, GuardedLabels,
       FallbackLabels, WriteCandidate, Synchronized, Goto
  <2>6. AttemptTyped'
    BY <1>1, <1>9, <2>1, AgeFacts, <2>3 DEF AttemptTyped, StoreTyped,
       WriteCandidate, PutCand, Synchronized, FreedGuard
  <2>7. RestTyped'
    BY <1>1, <1>9, <2>1 DEF RestTyped, WriteCandidate, worldVars, memoryVars
  <2>8. Prepared'
    BY <1>1, <1>9, <2>1 DEF Prepared, Unprepared, FallbackLabels, PcTyped,
       AttemptTyped, WriteCandidate, Synchronized, Goto
  <2> QED
    BY <2>4, <2>5, <2>6, <2>7, <2>8 DEF BaseInv
<1>10. ASSUME NEW r \in Replicas, RereadCandidate(r) PROVE BaseInv'
  <2>1. r \in Procs
    BY ConstantFacts
  <2>2. StoreTyped' /\ RestTyped'
    BY <1>1, <1>10 DEF StoreTyped, RestTyped, RereadCandidate, OutcomeFrame,
       worldVars, memoryVars
  <2>3. PcTyped'
    BY <1>1, <1>10, <2>1 DEF PcTyped, Labels, SyncLabels, GuardedLabels,
       FallbackLabels, RereadCandidate, Synchronized, Raise, OutcomeFrame,
       Goto, Leave
  <2>4. AttemptTyped'
    <3>1. CASE Raise(r)
      BY <1>1, <2>1, <3>1, RaiseTyped
    <3>2. CASE ~Raise(r)
      BY <1>1, <1>10, <2>1, <3>2, AgeFacts DEF AttemptTyped, StoreTyped,
         RereadCandidate, CandidateMatches, Synchronized, tokenVars,
         OutcomeFrame, FreedGuard
    <3> QED
      BY <3>1, <3>2
  <2>5. Prepared'
    BY <1>1, <1>10, <2>1 DEF Prepared, Unprepared, FallbackLabels, PcTyped,
       AttemptTyped, RereadCandidate, Synchronized, tokenVars, Raise,
       OutcomeFrame, Goto, Leave
  <2> QED
    BY <2>2, <2>3, <2>4, <2>5 DEF BaseInv
<1>11. ASSUME NEW r \in Replicas, CheckReady(r) PROVE BaseInv'
  <2>1. r \in Procs
    BY ConstantFacts
  <2>2. StoreTyped' /\ RestTyped'
    BY <1>1, <1>11 DEF StoreTyped, RestTyped, CheckReady, OutcomeFrame,
       worldVars, memoryVars
  <2>3. PcTyped'
    BY <1>1, <1>11, <2>1 DEF PcTyped, Labels, SyncLabels, GuardedLabels,
       FallbackLabels, CheckReady, Goto, Raise, Return, OutcomeFrame, Leave
  <2>4. AttemptTyped'
    <3>1. CASE Raise(r)
      BY <1>1, <2>1, <3>1, RaiseTyped
    <3>2. CASE Return(r, cur[r])
      <4> cur[r] \in Refs \cup {NoRef}
        BY <1>1, <2>1 DEF AttemptTyped
      <4> QED
        BY <1>1, <2>1, <3>2, ReturnTyped
    <3>3. CASE ~Raise(r) /\ ~Return(r, cur[r])
      BY <1>1, <1>11, <2>1, <3>3, AgeFacts DEF AttemptTyped, StoreTyped,
         CheckReady, FreedGuard, tokenVars, OutcomeFrame
    <3> QED
      BY <3>1, <3>2, <3>3
  <2>5. Prepared'
    BY <1>1, <1>11, <2>1 DEF Prepared, Unprepared, FallbackLabels, PcTyped,
       AttemptTyped, CheckReady, Goto, tokenVars, Raise, Return, OutcomeFrame,
       Leave
  <2> QED
    BY <2>2, <2>3, <2>4, <2>5 DEF BaseInv
<1>12. ASSUME NEW r \in Replicas, BuildManifest(r) PROVE BaseInv'
  <2>1. r \in Procs
    BY ConstantFacts
  <2>2. prep[r] \in Sigs
    BY <1>1, <1>12, <2>1 DEF Prepared, Unprepared, FallbackLabels,
       BuildManifest
  <2>3. StoreTyped'
    BY <1>1, <1>12 DEF StoreTyped, BuildManifest, StoreUnchanged
  <2>4. PcTyped'
    BY <1>1, <1>12, <2>1 DEF PcTyped, Labels, SyncLabels, GuardedLabels,
       FallbackLabels, BuildManifest, Raise, Return, Goto, StoreUnchanged,
       Leave
  <2>5. AttemptTyped'
    <3>1. CASE Raise(r)
      BY <1>1, <2>1, <3>1, RaiseTyped
    <3>2. CASE Return(r, cur[r])
      <4> cur[r] \in Refs \cup {NoRef}
        BY <1>1, <2>1 DEF AttemptTyped
      <4> QED
        BY <1>1, <2>1, <3>2, ReturnTyped
    <3>3. CASE ~Raise(r) /\ ~Return(r, cur[r])
      BY <1>1, <1>12, <2>1, <3>3 DEF AttemptTyped, StoreTyped, BuildManifest,
         tokenVars, workVars, StoreUnchanged
    <3> QED
      BY <3>1, <3>2, <3>3
  <2>6. RestTyped'
    BY <1>1, <1>12, <2>1, <2>2 DEF RestTyped, BuildManifest, memoryVars,
       worldVars
  <2>7. Prepared'
    BY <1>1, <1>12, <2>1 DEF Prepared, Unprepared, FallbackLabels, PcTyped,
       AttemptTyped, BuildManifest, Raise, Return, Goto, tokenVars, workVars,
       Leave
  <2> QED
    BY <2>3, <2>4, <2>5, <2>6, <2>7 DEF BaseInv
<1>13. ASSUME NEW r \in Replicas, RecheckCandidate(r) PROVE BaseInv'
  <2>1. r \in Procs
    BY ConstantFacts
  <2>2. StoreTyped' /\ RestTyped'
    BY <1>1, <1>13 DEF StoreTyped, RestTyped, RecheckCandidate, OutcomeFrame,
       worldVars, memoryVars
  <2>3. PcTyped'
    BY <1>1, <1>13, <2>1 DEF PcTyped, Labels, SyncLabels, GuardedLabels,
       FallbackLabels, RecheckCandidate, Goto, Raise, OutcomeFrame, Leave
  <2>4. AttemptTyped'
    <3>1. CASE Raise(r)
      BY <1>1, <2>1, <3>1, RaiseTyped
    <3>2. CASE ~Raise(r)
      BY <1>1, <1>13, <2>1, <3>2, AgeFacts DEF AttemptTyped, StoreTyped,
         RecheckCandidate, CandidateMatches, tokenVars, OutcomeFrame
    <3> QED
      BY <3>1, <3>2
  <2>5. Prepared'
    BY <1>1, <1>13, <2>1 DEF Prepared, Unprepared, FallbackLabels, PcTyped,
       AttemptTyped, RecheckCandidate, Goto, tokenVars, Raise, OutcomeFrame,
       Leave
  <2> QED
    BY <2>2, <2>3, <2>4, <2>5 DEF BaseInv
<1>14. ASSUME NEW r \in Replicas, RecheckElapsed(r) PROVE BaseInv'
  <2>1. r \in Procs
    BY ConstantFacts
  <2>2. StoreTyped' /\ RestTyped'
    BY <1>1, <1>14 DEF StoreTyped, RestTyped, RecheckElapsed, OutcomeFrame,
       worldVars, memoryVars
  <2>3. PcTyped'
    BY <1>1, <1>14, <2>1 DEF PcTyped, Labels, SyncLabels, GuardedLabels,
       FallbackLabels, RecheckElapsed, Goto, Raise, OutcomeFrame, Leave
  <2>4. AttemptTyped'
    <3>1. CASE Raise(r)
      BY <1>1, <2>1, <3>1, RaiseTyped
    <3>2. CASE ~Raise(r)
      BY <1>1, <1>14, <2>1, <3>2, AgeFacts DEF AttemptTyped, StoreTyped,
         RecheckElapsed, tokenVars, OutcomeFrame
    <3> QED
      BY <3>1, <3>2
  <2>5. Prepared'
    BY <1>1, <1>14, <2>1 DEF Prepared, Unprepared, FallbackLabels, PcTyped,
       AttemptTyped, RecheckElapsed, Goto, tokenVars, Raise, OutcomeFrame,
       Leave
  <2> QED
    BY <2>2, <2>3, <2>4, <2>5 DEF BaseInv
<1>15. ASSUME NEW r \in Replicas, FollowWinner(r) PROVE BaseInv'
  <2>1. r \in Procs
    BY ConstantFacts
  <2>2. StoreTyped'
    BY <1>1, <1>15 DEF StoreTyped, FollowWinner, FallBack, EndRefresh,
       StoreUnchanged
  <2>3. PcTyped'
    BY <1>1, <1>15, <2>1 DEF PcTyped, Labels, SyncLabels, GuardedLabels,
       FallbackLabels, FollowWinner, FallBack, Leave, EndRefresh,
       StoreUnchanged, Goto
  <2>4. AttemptTyped'
    <3>1. CASE Leave(r, "serve", WinningRelease(r))
      <4> WinningRelease(r) \in Refs \cup {NoRef}
        BY <1>1, <2>1 DEF AttemptTyped, StoreTyped, WinningRelease
      <4> QED
        BY <1>1, <2>1, <3>1, LeaveTyped
    <3>2. CASE Leave(r, "idle", NoRef)
      BY <1>1, <2>1, <3>2, LeaveTyped
    <3> QED
      BY <1>15, <3>1, <3>2 DEF FollowWinner, EndRefresh, FallBack
  <2>5. RestTyped'
    BY <1>1, <1>15, <2>1 DEF RestTyped, FollowWinner, FallBack, EndRefresh,
       worldVars, memoryVars
  <2>6. Prepared'
    BY <1>1, <1>15, <2>1 DEF Prepared, Unprepared, FallbackLabels, PcTyped,
       AttemptTyped, FollowWinner, FallBack, Leave, EndRefresh, Goto
  <2> QED
    BY <2>2, <2>3, <2>4, <2>5, <2>6 DEF BaseInv
<1>16. ASSUME NEW r \in Replicas, KeepCurrent(r) PROVE BaseInv'
  <2>1. r \in Procs
    BY ConstantFacts
  <2>2. StoreTyped'
    BY <1>1, <1>16 DEF StoreTyped, KeepCurrent, FallBack, EndRefresh,
       StoreUnchanged
  <2>3. PcTyped'
    BY <1>1, <1>16, <2>1 DEF PcTyped, Labels, SyncLabels, GuardedLabels,
       FallbackLabels, KeepCurrent, FallBack, Leave, EndRefresh,
       StoreUnchanged, Goto
  <2>4. AttemptTyped'
    <3>1. CASE Leave(r, "serve", KeptRelease(r))
      <4> KeptRelease(r) \in Refs \cup {NoRef}
        BY <1>1, <2>1 DEF AttemptTyped, StoreTyped, KeptRelease
      <4> QED
        BY <1>1, <2>1, <3>1, LeaveTyped
    <3>2. CASE Leave(r, "idle", NoRef)
      BY <1>1, <2>1, <3>2, LeaveTyped
    <3> QED
      BY <1>16, <3>1, <3>2 DEF KeepCurrent, EndRefresh, FallBack
  <2>5. RestTyped'
    BY <1>1, <1>16, <2>1 DEF RestTyped, KeepCurrent, FallBack, EndRefresh,
       worldVars, memoryVars
  <2>6. Prepared'
    BY <1>1, <1>16, <2>1 DEF Prepared, Unprepared, FallbackLabels, PcTyped,
       AttemptTyped, KeepCurrent, FallBack, Leave, EndRefresh, Goto
  <2> QED
    BY <2>2, <2>3, <2>4, <2>5, <2>6 DEF BaseInv
<1>17. ASSUME NEW r \in Replicas, Serve(r) PROVE BaseInv'
  <2>1. r \in Procs
    BY ConstantFacts
  <2>2. StoreTyped'
    BY <1>1, <1>17 DEF StoreTyped, Serve, EndRefresh, StoreUnchanged
  <2>3. PcTyped'
    BY <1>1, <1>17, <2>1 DEF PcTyped, Labels, SyncLabels, GuardedLabels,
       FallbackLabels, Serve, EndRefresh, StoreUnchanged, Leave, Goto
  <2>4. AttemptTyped'
    <3>1. CASE Leave(r, "idle", NoRef)
      BY <1>1, <2>1, <3>1, LeaveTyped
    <3> QED
      BY <1>17, <3>1 DEF Serve, EndRefresh
  <2>5. RestTyped'
    BY <1>1, <1>17, <2>1 DEF RestTyped, AttemptTyped, Serve, EndRefresh,
       worldVars
  <2>6. Prepared'
    BY <1>1, <1>17, <2>1 DEF Prepared, Unprepared, FallbackLabels, PcTyped,
       AttemptTyped, Serve, EndRefresh, Leave, Goto
  <2> QED
    BY <2>2, <2>3, <2>4, <2>5, <2>6 DEF BaseInv
<1>18. ASSUME NEW r \in Replicas, CandResponseLost(r) PROVE BaseInv'
  <2>1. r \in Procs
    BY ConstantFacts
  <2>2. prep[r] \in Sigs
    BY <1>1, <1>18, <2>1 DEF Prepared, Unprepared, FallbackLabels,
       CandResponseLost
  <2>3. [identity |-> IdentityOf[r], sig |-> prep[r], age |-> age[r]] \in Cands
    BY <1>1, <2>1, <2>2, ConstantFacts DEF AttemptTyped
  <2>4. StoreTyped'
    BY <1>1, <1>18, <2>3 DEF StoreTyped, CandResponseLost, PutCand
  <2>5. PcTyped'
    BY <1>1, <1>18, <2>1 DEF PcTyped, Labels, SyncLabels, GuardedLabels,
       FallbackLabels, CandResponseLost, Goto
  <2>6. AttemptTyped'
    BY <1>1, <1>18, <2>1, AgeFacts, <2>3 DEF AttemptTyped, StoreTyped,
       CandResponseLost, PutCand
  <2>7. RestTyped'
    BY <1>1, <1>18, <2>1, SpendTyped DEF RestTyped, CandResponseLost,
       memoryVars
  <2>8. Prepared'
    BY <1>1, <1>18, <2>1 DEF Prepared, Unprepared, FallbackLabels, PcTyped,
       AttemptTyped, CandResponseLost, Goto
  <2> QED
    BY <2>4, <2>5, <2>6, <2>7, <2>8 DEF BaseInv
<1>19. ASSUME NEW r \in Replicas, FailedRefresh(r) PROVE BaseInv'
  <2>1. r \in Procs
    BY ConstantFacts
  <2>2. StoreTyped'
    BY <1>1, <1>19 DEF StoreTyped, FailedRefresh, EndRefresh, StoreUnchanged
  <2>3. PcTyped'
    BY <1>1, <1>19, <2>1 DEF PcTyped, Labels, SyncLabels, GuardedLabels,
       FallbackLabels, FailedRefresh, EndRefresh, StoreUnchanged, Leave, Goto
  <2>4. AttemptTyped'
    <3>1. CASE Leave(r, "idle", NoRef)
      BY <1>1, <2>1, <3>1, LeaveTyped
    <3> QED
      BY <1>19, <3>1 DEF FailedRefresh, EndRefresh
  <2>5. RestTyped'
    BY <1>1, <1>19, <2>1, SpendTyped DEF RestTyped, FailedRefresh, EndRefresh,
       memoryVars
  <2>6. Prepared'
    BY <1>1, <1>19, <2>1 DEF Prepared, Unprepared, FallbackLabels, PcTyped,
       AttemptTyped, FailedRefresh, EndRefresh, Leave, Goto
  <2> QED
    BY <2>2, <2>3, <2>4, <2>5, <2>6 DEF BaseInv
<1>20. ASSUME NEW p \in Publishers, StartExplicit(p) PROVE BaseInv'
  <2>1. p \in Procs
    BY ConstantFacts
  <2>2. source[IdentityOf[p]] \in Sigs
    BY <1>1, <2>1, ConstantFacts DEF RestTyped
  <2>3. StoreTyped' /\ RestTyped'
    BY <1>1, <1>20 DEF StoreTyped, RestTyped, StartExplicit, rootVars,
       worldVars, memoryVars
  <2>4. PcTyped'
    BY <1>1, <1>20, <2>1 DEF PcTyped, Labels, SyncLabels, GuardedLabels,
       FallbackLabels, StartExplicit, Goto
  <2>5. AttemptTyped'
    BY <1>1, <1>20, <2>1, <2>2 DEF AttemptTyped, StoreTyped, StartExplicit,
       rootVars, tokenVars
  <2>6. Prepared'
    BY <1>1, <1>20, <2>1, <2>2 DEF Prepared, Unprepared, FallbackLabels,
       PcTyped, AttemptTyped, StartExplicit, Goto, tokenVars
  <2> QED
    BY <2>3, <2>4, <2>5, <2>6 DEF BaseInv
<1>21. ASSUME NEW p \in Publishers, CheckExpected(p) PROVE BaseInv'
  <2>1. p \in Procs
    BY ConstantFacts
  <2>2. StoreTyped' /\ RestTyped'
    BY <1>1, <1>21 DEF StoreTyped, RestTyped, CheckExpected, OutcomeFrame,
       worldVars, memoryVars
  <2>3. PcTyped'
    BY <1>1, <1>21, <2>1 DEF PcTyped, Labels, SyncLabels, GuardedLabels,
       FallbackLabels, CheckExpected, Goto, Raise, OutcomeFrame, Leave
  <2>4. AttemptTyped'
    <3>1. CASE Raise(p)
      BY <1>1, <2>1, <3>1, RaiseTyped
    <3>2. CASE ~Raise(p)
      BY <1>1, <1>21, <2>1, <3>2 DEF AttemptTyped, StoreTyped, CheckExpected,
         ReadRef, workVars, OutcomeFrame
    <3> QED
      BY <3>1, <3>2
  <2>5. Prepared'
    BY <1>1, <1>21, <2>1 DEF Prepared, Unprepared, FallbackLabels, PcTyped,
       AttemptTyped, CheckExpected, Goto, workVars, Raise, OutcomeFrame, Leave
  <2> QED
    BY <2>2, <2>3, <2>4, <2>5 DEF BaseInv
<1>22. ASSUME NEW p \in Procs, LockPublish(p) PROVE BaseInv'
  <2>1. StoreTyped' /\ RestTyped'
    BY <1>1, <1>22 DEF StoreTyped, RestTyped, LockPublish, StoreUnchanged,
       worldVars, memoryVars
  <2>2. PcTyped'
    BY <1>1, <1>22 DEF PcTyped, Labels, SyncLabels, GuardedLabels,
       FallbackLabels, LockPublish, Goto, StoreUnchanged
  <2>3. AttemptTyped'
    BY <1>1, <1>22 DEF AttemptTyped, StoreTyped, LockPublish,
       AcquireGuard, StoreUnchanged, tokenVars, workVars
  <2>4. Prepared'
    BY <1>1, <1>22 DEF Prepared, Unprepared, FallbackLabels, PcTyped,
       AttemptTyped, LockPublish, Goto, tokenVars, workVars
  <2> QED
    BY <2>1, <2>2, <2>3, <2>4 DEF BaseInv
<1>23. ASSUME NEW p \in Procs, ReadLatest(p) PROVE BaseInv'
  <2>1. prep[p] \in Sigs
    BY <1>1, <1>23 DEF Prepared, Unprepared, FallbackLabels, ReadLatest
  <2>2. StoreTyped'
    BY <1>1, <1>23 DEF StoreTyped, ReadLatest, ReadRef, StoreUnchanged
  <2>3. PcTyped'
    BY <1>1, <1>23 DEF PcTyped, Labels, SyncLabels, GuardedLabels,
       FallbackLabels, ReadLatest, Raise, Return, Goto, StoreUnchanged, Leave
  <2>4. AttemptTyped'
    <3>1. CASE Raise(p)
      BY <1>1, <3>1, RaiseTyped
    <3>2. CASE Return(p, ref)
      <4> ref \in Refs \cup {NoRef}
        BY <1>1 DEF StoreTyped
      <4> QED
        BY <1>1, <3>2, ReturnTyped
    <3>3. CASE ~Raise(p) /\ ~Return(p, ref)
      BY <1>1, <1>23, <3>3 DEF AttemptTyped, StoreTyped, ReadLatest,
         ReadRef, workVars, StoreUnchanged
    <3> QED
      BY <3>1, <3>2, <3>3
  <2>5. RestTyped'
    BY <1>1, <1>23, <2>1 DEF RestTyped, ReadLatest, memoryVars, worldVars
  <2>6. Prepared'
    BY <1>1, <1>23 DEF Prepared, Unprepared, FallbackLabels, PcTyped,
       AttemptTyped, ReadLatest, Raise, Return, Goto, workVars, Leave
  <2> QED
    BY <2>2, <2>3, <2>4, <2>5, <2>6 DEF BaseInv
<1>24. ASSUME NEW p \in Procs, CheckSnapshot(p) PROVE BaseInv'
  <2>1. prep[p] \in Sigs
    BY <1>1, <1>24 DEF Prepared, Unprepared, FallbackLabels,
       CheckSnapshot
  <2>2. TargetVersion(p) \in Versions /\ FilesOf[TargetVersion(p)] \subseteq Files
    BY <2>1, ConstantFacts DEF TargetVersion
  <2>3. StoreTyped' /\ RestTyped'
    BY <1>1, <1>24 DEF StoreTyped, RestTyped, CheckSnapshot, rootVars,
       worldVars, memoryVars
  <2>4. PcTyped'
    BY <1>1, <1>24 DEF PcTyped, Labels, SyncLabels, GuardedLabels,
       FallbackLabels, CheckSnapshot, Goto
  <2>5. AttemptTyped'
    BY <1>1, <1>24, <2>2 DEF AttemptTyped, StoreTyped, CheckSnapshot,
       rootVars, tokenVars
  <2>6. Prepared'
    BY <1>1, <1>24 DEF Prepared, Unprepared, FallbackLabels, PcTyped,
       AttemptTyped, CheckSnapshot, Goto, tokenVars
  <2> QED
    BY <2>3, <2>4, <2>5, <2>6 DEF BaseInv
<1>25. ASSUME NEW p \in Procs, UploadFile(p) PROVE BaseInv'
  <2>1. prep[p] \in Sigs
    BY <1>1, <1>25 DEF Prepared, Unprepared, FallbackLabels, UploadFile
  <2>2. TargetVersion(p) \in Versions /\ FilesOf[TargetVersion(p)] \subseteq Files
    BY <2>1, ConstantFacts DEF TargetVersion
  <2>3. StoreTyped'
    BY <1>1, <1>25, <2>2 DEF StoreTyped, AttemptTyped, UploadFile, PutFile
  <2>4. PcTyped'
    BY <1>1, <1>25 DEF PcTyped, Labels, SyncLabels, GuardedLabels,
       FallbackLabels, UploadFile, PutFile
  <2>5. AttemptTyped'
    BY <1>1, <1>25, <2>2 DEF AttemptTyped, StoreTyped, UploadFile,
       PutFile, tokenVars
  <2>6. RestTyped'
    BY <1>1, <1>25 DEF RestTyped, UploadFile, worldVars, memoryVars
  <2>7. Prepared'
    BY <1>1, <1>25 DEF Prepared, Unprepared, FallbackLabels, PcTyped,
       AttemptTyped, UploadFile, tokenVars
  <2> QED
    BY <2>3, <2>4, <2>5, <2>6, <2>7 DEF BaseInv
<1>26. ASSUME NEW p \in Procs, FinishSnapshot(p) PROVE BaseInv'
  <2>1. prep[p] \in Sigs
    BY <1>1, <1>26 DEF Prepared, Unprepared, FallbackLabels,
       FinishSnapshot
  <2>2. TargetVersion(p) \in Versions /\ FilesOf[TargetVersion(p)] \subseteq Files
    BY <2>1, ConstantFacts DEF TargetVersion
  <2>3. StoreTyped'
    BY <1>1, <1>26, <2>2 DEF StoreTyped, FinishSnapshot, CommitSnapshot
  <2>4. PcTyped'
    BY <1>1, <1>26 DEF PcTyped, Labels, SyncLabels, GuardedLabels,
       FallbackLabels, FinishSnapshot, CommitSnapshot, Goto
  <2>5. AttemptTyped'
    BY <1>1, <1>26, <2>2 DEF AttemptTyped, StoreTyped, FinishSnapshot,
       CommitSnapshot, tokenVars, workVars
  <2>6. RestTyped'
    BY <1>1, <1>26 DEF RestTyped, FinishSnapshot, worldVars, memoryVars
  <2>7. Prepared'
    BY <1>1, <1>26 DEF Prepared, Unprepared, FallbackLabels, PcTyped,
       AttemptTyped, FinishSnapshot, Goto, tokenVars, workVars
  <2> QED
    BY <2>3, <2>4, <2>5, <2>6, <2>7 DEF BaseInv
<1>27. ASSUME NEW p \in Procs, ConfirmSource(p) PROVE BaseInv'
  <2>1. StoreTyped' /\ RestTyped'
    BY <1>1, <1>27 DEF StoreTyped, RestTyped, ConfirmSource, OutcomeFrame,
       worldVars, memoryVars
  <2>2. PcTyped'
    BY <1>1, <1>27 DEF PcTyped, Labels, SyncLabels, GuardedLabels,
       FallbackLabels, ConfirmSource, Goto, Raise, OutcomeFrame, Leave
  <2>3. AttemptTyped'
    <3>1. CASE Raise(p)
      BY <1>1, <3>1, RaiseTyped
    <3>2. CASE ~Raise(p)
      BY <1>1, <1>27, <3>2 DEF AttemptTyped, StoreTyped, ConfirmSource,
         tokenVars, workVars, OutcomeFrame
    <3> QED
      BY <3>1, <3>2
  <2>4. Prepared'
    BY <1>1, <1>27 DEF Prepared, Unprepared, FallbackLabels, PcTyped,
       AttemptTyped, ConfirmSource, Goto, tokenVars, workVars, Raise,
       OutcomeFrame, Leave
  <2> QED
    BY <2>1, <2>2, <2>3, <2>4 DEF BaseInv
<1>28. ASSUME NEW p \in Procs, WriteRef(p) PROVE BaseInv'
  <2>1. prep[p] \in Sigs
    BY <1>1, <1>28 DEF Prepared, Unprepared, FallbackLabels, WriteRef
  <2>2. Target(p) \in Refs
    BY <2>1, ConstantFacts DEF Target
  <2>3. StoreTyped'
    BY <1>1, <1>28, <2>2 DEF StoreTyped, WriteRef, PutRef, ShowRelease
  <2>4. PcTyped'
    BY <1>1, <1>28 DEF PcTyped, Labels, SyncLabels, GuardedLabels,
       FallbackLabels, WriteRef, PutRef, ShowRelease, Goto
  <2>5. AttemptTyped'
    BY <1>1, <1>28, <2>2 DEF AttemptTyped, StoreTyped, WriteRef, PutRef,
       workVars, OthersTokens
  <2>6. RestTyped'
    BY <1>1, <1>28, <2>2 DEF RestTyped, WriteRef, ShowRelease, worldVars,
       memoryVars
  <2>7. Prepared'
    BY <1>1, <1>28 DEF Prepared, Unprepared, FallbackLabels, PcTyped,
       AttemptTyped, WriteRef, Goto, workVars
  <2> QED
    BY <2>3, <2>4, <2>5, <2>6, <2>7 DEF BaseInv
<1>29. ASSUME NEW p \in Procs, ResolveConflict(p) PROVE BaseInv'
  <2>1. StoreTyped' /\ RestTyped'
    BY <1>1, <1>29 DEF StoreTyped, RestTyped, ResolveConflict, OutcomeFrame,
       worldVars, memoryVars
  <2>2. PcTyped'
    BY <1>1, <1>29 DEF PcTyped, Labels, SyncLabels, GuardedLabels,
       FallbackLabels, ResolveConflict, Goto, Leave, OutcomeFrame
  <2>3. AttemptTyped'
    <3>1. CASE Leave(p, "followWinner", cur[p])
      <4> cur[p] \in Refs \cup {NoRef}
        BY <1>1 DEF AttemptTyped
      <4> QED
        BY <1>1, <3>1, LeaveTyped
    <3>2. CASE Leave(p, "idle", NoRef)
      BY <1>1, <3>2, LeaveTyped
    <3>3. CASE ~Leave(p, "followWinner", cur[p]) /\ ~Leave(p, "idle", NoRef)
      BY <1>1, <1>29, <3>3 DEF AttemptTyped, StoreTyped, ResolveConflict,
         ReadRef, workVars, OutcomeFrame
    <3> QED
      BY <3>1, <3>2, <3>3
  <2>4. Prepared'
    BY <1>1, <1>29 DEF Prepared, Unprepared, FallbackLabels, PcTyped,
       AttemptTyped, ResolveConflict, Goto, workVars, Leave, OutcomeFrame
  <2> QED
    BY <2>1, <2>2, <2>3, <2>4 DEF BaseInv
<1>30. ASSUME NEW p \in Procs, RecordPublished(p) PROVE BaseInv'
  <2>1. prep[p] \in Sigs
    BY <1>1, <1>30 DEF Prepared, Unprepared, FallbackLabels,
       RecordPublished
  <2>2. Target(p) \in Refs
    BY <2>1, ConstantFacts DEF Target
  <2>3. StoreTyped'
    BY <1>1, <1>30, <2>2 DEF StoreTyped, RecordPublished, StoreUnchanged
  <2>4. PcTyped'
    BY <1>1, <1>30 DEF PcTyped, Labels, SyncLabels, GuardedLabels,
       FallbackLabels, RecordPublished, Return, StoreUnchanged, Leave, Goto
  <2>5. AttemptTyped'
    <3>1. CASE Return(p, Target(p))
      BY <1>1, <3>1, ReturnTyped, <2>2
    <3> QED
      BY <1>30, <3>1 DEF RecordPublished
  <2>6. RestTyped'
    BY <1>1, <1>30, <2>1 DEF RestTyped, RecordPublished, worldVars
  <2>7. Prepared'
    BY <1>1, <1>30 DEF Prepared, Unprepared, FallbackLabels, PcTyped,
       AttemptTyped, RecordPublished, Return, Leave, Goto
  <2> QED
    BY <2>3, <2>4, <2>5, <2>6, <2>7 DEF BaseInv
<1>31. ASSUME NEW p \in Procs, RaiseError(p) PROVE BaseInv'
  <2>1. StoreTyped' /\ RestTyped'
    BY <1>1, <1>31 DEF StoreTyped, RestTyped, RaiseError, OutcomeFrame,
       worldVars, memoryVars
  <2>2. PcTyped'
    BY <1>1, <1>31 DEF PcTyped, Labels, SyncLabels, GuardedLabels,
       FallbackLabels, RaiseError, Raise, OutcomeFrame, Leave, Goto
  <2>3. AttemptTyped'
    <3>1. CASE Raise(p)
      BY <1>1, <3>1, RaiseTyped
    <3> QED
      BY <1>31, <3>1 DEF RaiseError
  <2>4. Prepared'
    BY <1>1, <1>31 DEF Prepared, Unprepared, FallbackLabels, PcTyped,
       AttemptTyped, RaiseError, Raise, OutcomeFrame, Leave, Goto
  <2> QED
    BY <2>1, <2>2, <2>3, <2>4 DEF BaseInv
<1>32. ASSUME NEW p \in Procs, Crash(p) PROVE BaseInv'
  <2>1. StoreTyped'
    BY <1>1, <1>32 DEF StoreTyped, Crash, StoreUnchanged
  <2>2. PcTyped'
    BY <1>1, <1>32 DEF PcTyped, Labels, SyncLabels, GuardedLabels,
       FallbackLabels, Crash, Leave, StoreUnchanged, Goto
  <2>3. AttemptTyped'
    <3>1. CASE Leave(p, "idle", NoRef)
      BY <1>1, <3>1, LeaveTyped
    <3> QED
      BY <1>32, <3>1 DEF Crash
  <2>4. RestTyped'
    BY <1>1, <1>32, SpendTyped DEF RestTyped, Crash, memoryVars
  <2>5. Prepared'
    BY <1>1, <1>32 DEF Prepared, Unprepared, FallbackLabels, PcTyped,
       AttemptTyped, Crash, Leave, Goto
  <2> QED
    BY <2>1, <2>2, <2>3, <2>4, <2>5 DEF BaseInv
<1>33. ASSUME NEW p \in Procs, FailedRequest(p) PROVE BaseInv'
  <2>1. StoreTyped'
    BY <1>1, <1>33 DEF StoreTyped, FailedRequest, StoreUnchanged
  <2>2. PcTyped'
    BY <1>1, <1>33 DEF PcTyped, Labels, SyncLabels, GuardedLabels,
       FallbackLabels, FailedRequest, Raise, StoreUnchanged, Leave, Goto
  <2>3. AttemptTyped'
    <3>1. CASE Raise(p)
      BY <1>1, <3>1, RaiseTyped
    <3> QED
      BY <1>33, <3>1 DEF FailedRequest
  <2>4. RestTyped'
    BY <1>1, <1>33, SpendTyped DEF RestTyped, FailedRequest, memoryVars
  <2>5. Prepared'
    BY <1>1, <1>33 DEF Prepared, Unprepared, FallbackLabels, PcTyped,
       AttemptTyped, FailedRequest, Raise, Leave, Goto
  <2> QED
    BY <2>1, <2>2, <2>3, <2>4, <2>5 DEF BaseInv
<1>34. ASSUME NEW p \in Procs, SourceDrift(p) PROVE BaseInv'
  <2>1. StoreTyped' /\ RestTyped'
    BY <1>1, <1>34 DEF StoreTyped, RestTyped, SourceDrift, OutcomeFrame,
       worldVars, memoryVars
  <2>2. PcTyped'
    BY <1>1, <1>34 DEF PcTyped, Labels, SyncLabels, GuardedLabels,
       FallbackLabels, SourceDrift, Raise, OutcomeFrame, Leave, Goto
  <2>3. AttemptTyped'
    <3>1. CASE Raise(p)
      BY <1>1, <3>1, RaiseTyped
    <3> QED
      BY <1>34, <3>1 DEF SourceDrift
  <2>4. Prepared'
    BY <1>1, <1>34 DEF Prepared, Unprepared, FallbackLabels, PcTyped,
       AttemptTyped, SourceDrift, Raise, OutcomeFrame, Leave, Goto
  <2> QED
    BY <2>1, <2>2, <2>3, <2>4 DEF BaseInv
<1>35. ASSUME NEW p \in Procs, RefResponseLost(p) PROVE BaseInv'
  <2>1. prep[p] \in Sigs
    BY <1>1, <1>35 DEF Prepared, Unprepared, FallbackLabels,
       RefResponseLost
  <2>2. Target(p) \in Refs
    BY <2>1, ConstantFacts DEF Target
  <2>3. StoreTyped'
    BY <1>1, <1>35, <2>2 DEF StoreTyped, RefResponseLost, PutRefUnacknowledged,
       ShowRelease
  <2>4. PcTyped'
    BY <1>1, <1>35 DEF PcTyped, Labels, SyncLabels, GuardedLabels,
       FallbackLabels, RefResponseLost, PutRefUnacknowledged, ShowRelease, Goto
  <2>5. AttemptTyped'
    BY <1>1, <1>35, <2>2 DEF AttemptTyped, StoreTyped, RefResponseLost,
       PutRefUnacknowledged, workVars, OthersTokens
  <2>6. RestTyped'
    BY <1>1, <1>35, <2>2, SpendTyped DEF RestTyped, RefResponseLost,
       ShowRelease, memoryVars
  <2>7. Prepared'
    BY <1>1, <1>35 DEF Prepared, Unprepared, FallbackLabels, PcTyped,
       AttemptTyped, RefResponseLost, Goto, workVars
  <2> QED
    BY <2>3, <2>4, <2>5, <2>6, <2>7 DEF BaseInv
<1>36. ASSUME NEW i \in Identities, ChangeSource(i) PROVE BaseInv'
  <2>1. StoreTyped'
    BY <1>1, <1>36 DEF StoreTyped, ChangeSource, rootVars
  <2>2. PcTyped'
    BY <1>1, <1>36 DEF PcTyped, Labels, SyncLabels, GuardedLabels,
       FallbackLabels, ChangeSource
  <2>3. AttemptTyped'
    BY <1>1, <1>36 DEF AttemptTyped, StoreTyped, ChangeSource, rootVars,
       tokenVars, workVars
  <2>4. RestTyped'
    BY <1>1, <1>36, SpendTyped DEF RestTyped, ChangeSource, memoryVars
  <2>5. Prepared'
    BY <1>1, <1>36 DEF Prepared, Unprepared, FallbackLabels, PcTyped,
       AttemptTyped, ChangeSource, tokenVars, workVars
  <2> QED
    BY <2>1, <2>2, <2>3, <2>4, <2>5 DEF BaseInv
<1>37. CASE Tick
  <2>1. StoreTyped'
    BY <1>1, <1>37, ConstantFacts DEF StoreTyped, Tick, Cands
  <2>2. AttemptTyped'
    BY <1>1, <1>37, ConstantFacts DEF AttemptTyped, Tick, tokenVars
  <2>3. PcTyped' /\ RestTyped' /\ Prepared'
    BY <1>1, <1>37 DEF PcTyped, RestTyped, Prepared, Tick, worldVars, memoryVars
  <2> QED
    BY <2>1, <2>2, <2>3 DEF BaseInv
<1>38. CASE UNCHANGED vars
  <2>1. StoreTyped' /\ AttemptTyped'
    BY <1>1, <1>38 DEF StoreTyped, AttemptTyped, vars, rootVars, tokenVars, workVars
  <2>2. PcTyped' /\ RestTyped' /\ Prepared'
    BY <1>1, <1>38 DEF PcTyped, RestTyped, Prepared, vars, worldVars, workVars, memoryVars
  <2> QED
    BY <2>1, <2>2 DEF BaseInv
<1> QED
  BY <1>2, <1>3, <1>4, <1>5, <1>6, <1>7, <1>8, <1>9, <1>10, <1>11, <1>12,
     <1>13, <1>14, <1>15, <1>16, <1>17, <1>18, <1>19, <1>20, <1>21, <1>22,
     <1>23, <1>24, <1>25, <1>26, <1>27, <1>28, <1>29, <1>30, <1>31, <1>32,
     <1>33, <1>34, <1>35, <1>36, <1>37, <1>38 DEF Next, Refresh, Explicit,
     Publish, Fault

-----------------------------------------------------------------------------
(* A refresh that comes to serve a release has one.                        *)

(* The end of an attempt, or of a refresh. *)
LEMMA LeaveServes ==
  ASSUME ServeTyped, PcTyped, AttemptTyped, NEW p \in Procs, NEW label, NEW release,
         label = "serve" => release # NoRef, Leave(p, label, release)
  PROVE  ServeTyped'
BY ReplicasAreProcs DEF ServeTyped, PcTyped, AttemptTyped, Leave, Goto

LEMMA RaiseServes ==
  ASSUME ServeTyped, PcTyped, AttemptTyped, NEW p \in Procs, Raise(p)
  PROVE  ServeTyped'
<1>1. CASE p \in Replicas
  <2>1. Leave(p, "keepCurrent", cur[p])
    BY <1>1 DEF Raise
  <2> QED
    BY <2>1, LeaveServes
<1>2. CASE p \notin Replicas
  <2>1. Leave(p, "idle", NoRef)
    BY <1>2 DEF Raise
  <2> QED
    BY <2>1, LeaveServes
<1> QED
  BY <1>1, <1>2

LEMMA ReturnServes ==
  ASSUME ServeTyped, PcTyped, AttemptTyped, NEW p \in Procs, NEW release,
         release # NoRef, Return(p, release)
  PROVE  ServeTyped'
<1>1. CASE p \in Replicas
  <2>1. Leave(p, "serve", release)
    BY <1>1 DEF Return
  <2> QED
    BY <2>1, LeaveServes
<1>2. CASE p \notin Replicas
  <2>1. Leave(p, "idle", NoRef)
    BY <1>2 DEF Return
  <2> QED
    BY <2>1, LeaveServes
<1> QED
  BY <1>1, <1>2

(* Going on with the attempt. *)
LEMMA GoesOn ==
  ASSUME ServeTyped, PcTyped, NEW p \in Procs, NEW label,
         label # "serve", Goto(p, label), UNCHANGED cur
  PROVE  ServeTyped'
BY ReplicasAreProcs DEF ServeTyped, PcTyped, Goto

(* What is to be published is a release. *)
LEMMA TargetIsRelease ==
  ASSUME BaseInv, NEW p \in Procs, pc[p] \notin Unprepared
  PROVE  Target(p) # NoRef
<1>1. prep[p] \in Sigs
  BY DEF BaseInv, Prepared
<1> QED
  BY <1>1, ConstantFacts, NoneAssumption DEF Target

LEMMA ServeStep == BaseInv /\ ServeTyped /\ [Next]_vars => ServeTyped'
<1> SUFFICES ASSUME BaseInv, ServeTyped, [Next]_vars PROVE ServeTyped'
  OBVIOUS
<1>1. PcTyped /\ AttemptTyped
  BY DEF BaseInv
<1> USE <1>1, ReplicasAreProcs
<1>2. ASSUME NEW r \in Replicas, BeginRefresh(r) PROVE ServeTyped'
  <2>1. \A q \in Replicas : q # r => pc'[q] = pc[q] /\ cur'[q] = cur[q]
    BY <1>2 DEF BeginRefresh, Goto, PcTyped, AttemptTyped
  <2>2. pc'[r] = "serve" => cur'[r] # NoRef
    BY <1>2 DEF BeginRefresh, Goto, PcTyped, AttemptTyped
  <2> QED
    BY <2>1, <2>2 DEF ServeTyped
<1>3. ASSUME NEW r \in Replicas,
             PrepareSource(r) \/ EnsureCandidateMatches(r) \/ LockCandidate(r)
      PROVE  ServeTyped'
  <2>1. PICK label : label # "serve" /\ Goto(r, label) /\ UNCHANGED cur
    BY <1>3 DEF PrepareSource, EnsureCandidateMatches, LockCandidate, workVars
  <2> QED
    BY <2>1, GoesOn
<1>4. ASSUME NEW r \in Replicas, ConfirmedFastPath(r) PROVE ServeTyped'
  <2>1. CASE AlreadyReleased(r, cur[r]) /\ Return(r, cur[r])
    <3>1. cur[r] # NoRef
      BY <1>4, <2>1, TargetIsRelease
         DEF ConfirmedFastPath, AlreadyReleased, Unprepared, FallbackLabels
    <3> QED
      BY <2>1, <3>1, ReturnServes
  <2>2. CASE Goto(r, "build") /\ UNCHANGED workVars
    BY <2>2, GoesOn DEF workVars
  <2> QED
    BY <1>4, <2>1, <2>2 DEF ConfirmedFastPath
<1>5. ASSUME NEW r \in Replicas,
             \/ ReadCandidate(r) \/ ConfirmCandidate(r) \/ WriteCandidate(r)
             \/ RereadCandidate(r) \/ RecheckCandidate(r) \/ RecheckElapsed(r)
             \/ CandResponseLost(r)
      PROVE  ServeTyped'
  <2>1. \/ Raise(r)
        \/ \E label : label # "serve" /\ Goto(r, label) /\ UNCHANGED cur
    BY <1>5 DEF ReadCandidate, ConfirmCandidate, WriteCandidate, RereadCandidate,
       RecheckCandidate, RecheckElapsed, CandResponseLost, Synchronized, workVars
  <2> QED
    BY <2>1, GoesOn, RaiseServes
<1>6. ASSUME NEW r \in Replicas, CheckReady(r) PROVE ServeTyped'
  <2>1. \/ Raise(r)
        \/ Return(r, cur[r]) /\ cur[r] # NoRef
        \/ Goto(r, "build") /\ UNCHANGED cur
    BY <1>6 DEF CheckReady
  <2> QED
    BY <2>1, GoesOn, RaiseServes, ReturnServes
<1>7. ASSUME NEW r \in Replicas, BuildManifest(r) PROVE ServeTyped'
  <2>1. AlreadyReleased(r, cur[r]) => cur[r] # NoRef
    BY <1>7, TargetIsRelease
       DEF BuildManifest, AlreadyReleased, Unprepared, FallbackLabels
  <2>2. \/ Raise(r)
        \/ Return(r, cur[r]) /\ cur[r] # NoRef
        \/ Goto(r, "lockPublish") /\ UNCHANGED cur
    BY <1>7, <2>1 DEF BuildManifest, workVars
  <2> QED
    BY <2>2, GoesOn, RaiseServes, ReturnServes
<1>8. ASSUME NEW r \in Replicas, NEW release, FallBack(r, release) PROVE ServeTyped'
  BY <1>8, LeaveServes DEF FallBack, EndRefresh
<1>9. ASSUME NEW r \in Replicas, Serve(r) \/ FailedRefresh(r) PROVE ServeTyped'
  <2>1. Leave(r, "idle", NoRef)
    BY <1>9 DEF Serve, FailedRefresh, EndRefresh
  <2> QED
    BY <2>1, LeaveServes
<1>10. ASSUME NEW p \in Publishers, StartExplicit(p) PROVE ServeTyped'
  BY <1>10, ConstantFacts, GoesOn DEF StartExplicit
<1>11. ASSUME NEW p \in Publishers, CheckExpected(p) PROVE ServeTyped'
  <2>1. p \in Procs /\ (Raise(p) \/ (Goto(p, "latest") /\ UNCHANGED cur))
    BY <1>11, ConstantFacts DEF CheckExpected, workVars
  <2> QED
    BY <2>1, GoesOn, RaiseServes
<1>12. ASSUME NEW p \in Procs, LockPublish(p) PROVE ServeTyped'
  <2>1. PICK label : label # "serve" /\ Goto(p, label) /\ UNCHANGED cur
    BY <1>12 DEF LockPublish, workVars
  <2> QED
    BY <2>1, GoesOn
<1>13. ASSUME NEW p \in Procs, ReadLatest(p) PROVE ServeTyped'
  <2>1. AlreadyReleased(p, ref) => ref # NoRef
    BY <1>13, TargetIsRelease
       DEF ReadLatest, AlreadyReleased, Unprepared, FallbackLabels
  <2>2. \/ Raise(p)
        \/ Return(p, ref) /\ ref # NoRef
        \/ Goto(p, "snapshot") /\ UNCHANGED cur
    BY <1>13, <2>1 DEF ReadLatest, workVars
  <2> QED
    BY <2>2, GoesOn, RaiseServes, ReturnServes
<1>14. ASSUME NEW p \in Procs,
              \/ CheckSnapshot(p) \/ FinishSnapshot(p) \/ ConfirmSource(p)
              \/ WriteRef(p) \/ RaiseError(p) \/ FailedRequest(p)
              \/ SourceDrift(p) \/ RefResponseLost(p)
       PROVE  ServeTyped'
  <2>1. \/ Raise(p)
        \/ \E label : label # "serve" /\ Goto(p, label) /\ UNCHANGED cur
    BY <1>14 DEF CheckSnapshot, FinishSnapshot, ConfirmSource, WriteRef,
       RaiseError, FailedRequest, SourceDrift, RefResponseLost, workVars
  <2> QED
    BY <2>1, GoesOn, RaiseServes
<1>15. ASSUME NEW p \in Procs, UploadFile(p) PROVE ServeTyped'
  BY <1>15 DEF UploadFile, ServeTyped
<1>16. ASSUME NEW p \in Procs, ResolveConflict(p) PROVE ServeTyped'
  <2>1. \/ Goto(p, "published") /\ UNCHANGED cur
        \/ Leave(p, "followWinner", cur[p])
        \/ Leave(p, "idle", NoRef)
    BY <1>16 DEF ResolveConflict, workVars
  <2> QED
    BY <2>1, GoesOn, LeaveServes
<1>17. ASSUME NEW p \in Procs, RecordPublished(p) PROVE ServeTyped'
  <2>1. Target(p) # NoRef /\ Return(p, Target(p))
    BY <1>17, TargetIsRelease DEF RecordPublished, Unprepared, FallbackLabels
  <2> QED
    BY <2>1, ReturnServes
<1>18. ASSUME NEW p \in Procs, Crash(p) PROVE ServeTyped'
  <2>1. Leave(p, "idle", NoRef)
    BY <1>18 DEF Crash
  <2> QED
    BY <2>1, LeaveServes
<1>19. CASE (\E i \in Identities : ChangeSource(i)) \/ Tick \/ UNCHANGED vars
  <2>1. UNCHANGED <<pc, cur>>
    BY <1>19 DEF ChangeSource, Tick, vars, workVars
  <2> QED
    BY <2>1 DEF ServeTyped
<1> QED
  BY <1>2, <1>3, <1>4, <1>5, <1>6, <1>7, <1>8, <1>9, <1>10, <1>11, <1>12,
     <1>13, <1>14, <1>15, <1>16, <1>17, <1>18, <1>19 DEF Next, Refresh, Explicit,
     Publish, Fault, FollowWinner, KeepCurrent

(* Every step preserves the invariant. *)
LEMMA TypeStep == TypeInv /\ [Next]_vars => TypeInv'
BY BaseStep, ServeStep, TypeParts DEF BaseInv

-----------------------------------------------------------------------------
(* The initial states satisfy it. *)
LEMMA TypeInit == Init => TypeInv
BY ConstantFacts, AgeFacts, ProcessAssumption
   DEF Init, RootInit, TypeInv, TypeOK, RootTypeOK, Prepared, Unprepared,
       Budgets, Labels

(* Every reachable state is of its type: in particular whatever is written *)
(* to the root is a well-formed document, and an attempt that publishes    *)
(* has a source observation to publish.                                    *)
THEOREM TypeInvariant == Spec => []TypeInv
BY TypeInit, TypeStep, PTL DEF Spec

(* The type invariant that the runs check. *)
THEOREM TypeCorrect == Spec => []TypeOK
BY TypeInvariant, PTL DEF TypeInv
=============================================================================
