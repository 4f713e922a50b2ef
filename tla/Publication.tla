----------------------------- MODULE Publication ----------------------------
(***************************************************************************)
(* The publishers and consumers of one bundle around one published root.   *)
(*                                                                         *)
(* A replica is a dag processor that calls refresh() again and again: it   *)
(* reads the release reference, publishes a stable source change when the  *)
(* bundle has a publish source, and adopts the resulting release.  A       *)
(* publisher is one run after another of the explicit publish command.     *)
(* pc names the request that a process issues next; every action is one    *)
(* request to the root or the source and the local decisions up to the     *)
(* next request, so requests of different processes interleave.            *)
(***************************************************************************)
EXTENDS ArtifactStore, FiniteSets

CONSTANTS Replicas, Publishers,
          IdentityOf,     \* the source each process is configured with
          AutoPublish,    \* the bundle has a publish source
          AllowEmpty,     \* allow_empty_source
          NoSig, NoVersion,
          MaxChanges, MaxCrashes, MaxFaults  \* bounds on the environment

ASSUME ProcessAssumption ==
  /\ Procs = Replicas \cup Publishers
  /\ Replicas \cap Publishers = {}
  /\ IdentityOf \in [Procs -> Identities]
  /\ AutoPublish \in BOOLEAN
  /\ AllowEmpty \in BOOLEAN
  /\ NoSig \notin Sigs
  /\ NoVersion \notin Versions
  /\ MaxChanges \in Nat /\ MaxCrashes \in Nat /\ MaxFaults \in Nat

VARIABLES source,    \* per identity: the signature of the source as it is now
          budget,    \* what the environment may still do
          pc,        \* per process: its next request
          cur,       \* current_ref, then the release that a refresh adopts
          prep,      \* the signature of the prepared source
          age,       \* the age of the candidate timestamp the process holds
          todo,      \* the manifest entries still to upload
          expected,  \* --expected-current-version
          conf,      \* per replica: the confirmed source
          served,    \* per replica: _current_manifest_ref
          window     \* history: the releases current since the refresh began

worldVars == <<source, budget>>
workVars == <<cur, prep, age, todo, expected>>
memoryVars == <<conf, served>>
vars == <<rootVars, tokenVars, worldVars, pc, workVars, memoryVars, window>>

SyncLabels == {"readCandidate", "confirmCandidate", "writeCandidate",
               "rereadCandidate", "ready"}
GuardedLabels == {"checkExpected", "recheck", "recheckElapsed", "latest",
                  "snapshot", "upload", "confirm", "putRef", "refConflict",
                  "published"}
FallbackLabels == {"keepCurrent", "followWinner", "serve"}
Labels == {"idle", "prepare", "ensure", "fastPath", "lockCandidate", "build",
           "lockPublish", "error"} \cup SyncLabels \cup GuardedLabels
          \cup FallbackLabels

(* A candidate timestamp is held, and grows older, between these requests. *)
HoldsTimestamp == {"writeCandidate", "ready", "recheckElapsed"}

Budgets == [changes : 0 .. MaxChanges, crashes : 0 .. MaxCrashes,
            faults : 0 .. MaxFaults]

(* The types, and that a refresh which comes to serve a release has one.   *)
TypeOK ==
  /\ RootTypeOK
  /\ source \in [Identities -> Sigs]
  /\ budget \in Budgets
  /\ pc \in [Procs -> Labels]
  /\ cur \in [Procs -> Refs \cup {NoRef}]
  /\ prep \in [Procs -> Sigs \cup {NoSig}]
  /\ age \in [Procs -> Ages]
  /\ todo \in [Procs -> SUBSET Files]
  /\ expected \in [Procs -> Versions \cup {NoVersion}]
  /\ conf \in [Replicas -> Sigs \cup {NoSig}]
  /\ served \in [Replicas -> Refs \cup {NoRef}]
  /\ window \in [Replicas -> SUBSET Refs]
  /\ \A r \in Replicas : pc[r] = "serve" => cur[r] # NoRef

Init ==
  /\ RootInit
  /\ source \in [Identities -> Sigs]
  /\ budget = [changes |-> MaxChanges, crashes |-> MaxCrashes, faults |-> MaxFaults]
  /\ pc = [p \in Procs |-> "idle"]
  /\ cur = [p \in Procs |-> NoRef]
  /\ prep = [p \in Procs |-> NoSig]
  /\ age = [p \in Procs |-> 0]
  /\ todo = [p \in Procs |-> {}]
  /\ expected = [p \in Procs |-> NoVersion]
  /\ conf = [r \in Replicas |-> NoSig]
  /\ served = [r \in Replicas |-> NoRef]
  /\ window = [r \in Replicas |-> {}]

-----------------------------------------------------------------------------
(* Vocabulary of the decisions.                                            *)

Target(p) == RefFor(IdentityOf[p], prep[p])
TargetVersion(p) == VersionOf[prep[p]]

(* _candidate_matches, and the other publisher's candidate. *)
CandidateMatches(p) == /\ cand # NoCand
                       /\ cand.identity = IdentityOf[p]
                       /\ cand.sig = prep[p]
NeverForeign(p) == FALSE  \* mutant
CandidateIsForeign(p) == cand # NoCand /\ cand.identity # IdentityOf[p]

(* The source has been stable for source_stability_seconds. *)
AlmostOldEnough(a) == a + 1 >= Stability  \* mutant
OldEnough(a) == a >= Stability

(* An empty tree is refused unless removing every Dag is intended. *)
Publishable(s) == FilesOf[VersionOf[s]] # {} \/ AllowEmpty

IsConfirmed(r) == conf[r] = prep[r]
NeedsStability(r) == ~IsConfirmed(r) /\ Stability > 0

(* The release already is what would be published, snapshot included. *)
AnythingReleased(p, old) == old # NoRef  \* mutant
AlreadyReleased(p, old) == old = Target(p) /\ SnapshotExists(TargetVersion(p))

(* --expected-current-version holds for the reference as it is now. *)
ExpectationHolds(p) == ref # NoRef /\ ref.version = expected[p]

(* What a refresh falls back to after a failed attempt, and after a lost   *)
(* race; without a release it raises.                                      *)
KeptWithoutReading(r) == cur[r]  \* mutant
KeptRelease(r) == IF cur[r] # NoRef THEN cur[r] ELSE ref
WinningRelease(r) == IF ref # NoRef THEN ref ELSE cur[r]

(* Every manifest entry is at its final key; the manifest comes last. *)
AlmostUploaded(p) == Cardinality(todo[p]) <= 1  \* mutant
Uploaded(p) == todo[p] = {}

SourceUnchanged(p) == source[IdentityOf[p]] = prep[p]

Goto(p, label) == pc' = [pc EXCEPT ![p] = label]

(* Leave the publication procedure for label: the lock is released and the *)
(* values of the attempt go out of scope; release is what the caller has.  *)
Leave(p, label, release) ==
  /\ Goto(p, label)
  /\ cur' = [cur EXCEPT ![p] = release]
  /\ prep' = [prep EXCEPT ![p] = NoSig]
  /\ age' = [age EXCEPT ![p] = 0]
  /\ todo' = [todo EXCEPT ![p] = {}]
  /\ expected' = [expected EXCEPT ![p] = NoVersion]
  /\ refTok' = [refTok EXCEPT ![p] = NoRef]
  /\ candLive' = [candLive EXCEPT ![p] = FALSE]
  /\ guard' = FreedGuard(p)

(* A replica's attempt that raises falls back to the current release; an   *)
(* explicit command that raises, or returns, is over.                      *)
Raise(p) == IF p \in Replicas THEN Leave(p, "keepCurrent", cur[p])
                              ELSE Leave(p, "idle", NoRef)
Return(p, release) == IF p \in Replicas THEN Leave(p, "serve", release)
                                        ELSE Leave(p, "idle", NoRef)

StoreUnchanged == UNCHANGED <<ref, cand, files, committed>>
OutcomeFrame == UNCHANGED <<ref, cand, files, committed, worldVars, memoryVars, window>>

EndRefresh(r) == /\ Leave(r, "idle", NoRef)
                 /\ window' = [window EXCEPT ![r] = {}]

-----------------------------------------------------------------------------
(* refresh(): read the reference, then publish if there is a source.       *)

BeginRefresh(r) ==
  /\ pc[r] = "idle"
  /\ ReadRef(r)
  /\ cur' = [cur EXCEPT ![r] = ref]
  /\ Goto(r, CASE AutoPublish -> "prepare"
               [] ~AutoPublish /\ ref = NoRef -> "keepCurrent"
               [] OTHER -> "serve")
  /\ window' = [window EXCEPT ![r] = {ref} \ {NoRef}]
  /\ UNCHANGED <<rootVars, candLive, worldVars, prep, age, todo, expected, memoryVars>>

(* Observe the source.  What follows depends on whether this process has   *)
(* already hashed and released exactly this observation.                   *)
PrepareSource(r) ==
  /\ pc[r] = "prepare"
  /\ LET observed == source[IdentityOf[r]]
     IN  /\ prep' = [prep EXCEPT ![r] = observed]
         /\ Goto(r, CASE conf[r] = observed /\ Stability > 0 -> "ensure"
                      [] conf[r] = observed /\ Stability = 0 -> "fastPath"
                      [] conf[r] # observed /\ Stability > 0 -> "lockCandidate"
                      [] OTHER -> "build")
  /\ UNCHANGED <<rootVars, tokenVars, worldVars, cur, age, todo, expected,
                 memoryVars, window>>

(* A confirmed source that differs from the shared candidate resets it. *)
EnsureNothing(r) ==  \* mutant
  /\ pc[r] = "ensure"
  /\ Goto(r, "fastPath")
  /\ UNCHANGED <<rootVars, tokenVars, worldVars, workVars, memoryVars, window>>
EnsureCandidateMatches(r) ==
  /\ pc[r] = "ensure"
  /\ Goto(r, IF CandidateMatches(r) THEN "fastPath" ELSE "lockCandidate")
  /\ UNCHANGED <<rootVars, tokenVars, worldVars, workVars, memoryVars, window>>

ConfirmedFastPath(r) ==
  /\ pc[r] = "fastPath"
  /\ \/ /\ AlreadyReleased(r, cur[r])
        /\ Return(r, cur[r])
        /\ OutcomeFrame
     \/ /\ ~AlreadyReleased(r, cur[r])
        /\ Goto(r, "build")
        /\ UNCHANGED <<rootVars, tokenVars, worldVars, workVars, memoryVars, window>>

-----------------------------------------------------------------------------
(* The shared stability candidate, synchronised under the publication lock.*)

LockCandidate(r) ==
  /\ pc[r] = "lockCandidate"
  /\ AcquireGuard(r)
  /\ Goto(r, "readCandidate")
  /\ StoreUnchanged
  /\ UNCHANGED <<tokenVars, worldVars, workVars, memoryVars, window>>

(* The candidate is in step with the prepared source, first observed a     *)
(* ticks ago.  A confirmed source goes on at once, another one must have   *)
(* been stable for long enough.                                            *)
Synchronized(r, a) ==
  /\ Goto(r, IF IsConfirmed(r) THEN "fastPath" ELSE "ready")
  /\ age' = [age EXCEPT ![r] = IF IsConfirmed(r) THEN 0 ELSE a]
  /\ guard' = IF IsConfirmed(r) THEN FreedGuard(r) ELSE guard

ReadCandidate(r) ==
  /\ pc[r] = "readCandidate"
  /\ \/ /\ CandidateMatches(r)
        /\ Synchronized(r, cand.age)
        /\ UNCHANGED <<tokenVars, cur, prep, todo, expected>>
     \/ /\ CandidateIsForeign(r)
        /\ Raise(r)
     \/ /\ ~CandidateMatches(r) /\ ~CandidateIsForeign(r)
        /\ candLive' = [candLive EXCEPT ![r] = TRUE]
        /\ Goto(r, "confirmCandidate")
        /\ UNCHANGED <<guard, refTok, workVars>>
  /\ OutcomeFrame

(* Only a source that still is the prepared one may replace a candidate;   *)
(* the clock is read right after that.                                     *)
ConfirmCandidate(r) ==
  /\ pc[r] = "confirmCandidate"
  /\ IF SourceUnchanged(r)
       THEN /\ Goto(r, "writeCandidate")
            /\ UNCHANGED <<guard, tokenVars, workVars>>
       ELSE Raise(r)
  /\ OutcomeFrame

WriteCandidate(r) ==
  /\ pc[r] = "writeCandidate"
  /\ \/ /\ CandUnchanged(r)
        /\ PutCand([identity |-> IdentityOf[r], sig |-> prep[r], age |-> age[r]])
        /\ Synchronized(r, age[r])
     \/ /\ ~CandUnchanged(r)
        /\ Goto(r, "rereadCandidate")
        /\ UNCHANGED <<cand, candLive, guard, age>>
  /\ UNCHANGED <<ref, files, committed, refTok, worldVars, cur, prep, todo,
                 expected, memoryVars, window>>

(* A replica that lost the candidate race adopts the winner's timestamp    *)
(* only when the winner recorded the same observation.                     *)
RereadCandidate(r) ==
  /\ pc[r] = "rereadCandidate"
  /\ IF CandidateMatches(r)
       THEN /\ Synchronized(r, cand.age)
            /\ UNCHANGED <<tokenVars, cur, prep, todo, expected>>
       ELSE Raise(r)
  /\ OutcomeFrame

(* Ready, or else the attempt ends: with the current release if there is   *)
(* one, with "not ready" if there is none.                                 *)
CheckReady(r) ==
  /\ pc[r] = "ready"
  /\ \/ /\ OldEnough(age[r])
        /\ Goto(r, "build")
        /\ age' = [age EXCEPT ![r] = 0]
        /\ guard' = FreedGuard(r)
        /\ UNCHANGED <<tokenVars, cur, prep, todo, expected>>
     \/ /\ ~OldEnough(age[r]) /\ cur[r] = NoRef
        /\ Raise(r)
     \/ /\ ~OldEnough(age[r]) /\ cur[r] # NoRef
        /\ Return(r, cur[r])
  /\ OutcomeFrame

-----------------------------------------------------------------------------
(* Automatic publication of a ready source.                                *)

(* Hash the tree, then publish unless the release is already right. *)
BuildManifest(r) ==
  /\ pc[r] = "build"
  /\ \/ /\ ~(Publishable(prep[r]) /\ TransitionAllowed(cur[r], Target(r)))
        /\ Raise(r)
        /\ UNCHANGED memoryVars
     \/ /\ Publishable(prep[r]) /\ AlreadyReleased(r, cur[r])
        /\ conf' = [conf EXCEPT ![r] = prep[r]]
        /\ Return(r, cur[r])
        /\ UNCHANGED served
     \/ /\ Publishable(prep[r]) /\ TransitionAllowed(cur[r], Target(r))
        /\ ~AlreadyReleased(r, cur[r])
        /\ Goto(r, "lockPublish")
        /\ UNCHANGED <<guard, tokenVars, workVars, memoryVars>>
  /\ StoreUnchanged
  /\ UNCHANGED <<worldVars, window>>

LockPublish(p) ==
  /\ pc[p] = "lockPublish"
  /\ AcquireGuard(p)
  /\ Goto(p, CASE p \in Publishers /\ expected[p] # NoVersion -> "checkExpected"
               [] p \in Replicas /\ NeedsStability(p) -> "recheck"
               [] OTHER -> "latest")
  /\ StoreUnchanged
  /\ UNCHANGED <<tokenVars, worldVars, workVars, memoryVars, window>>

(* The candidate must still be the prepared source, and still be ready. *)
RecheckCandidate(r) ==
  /\ pc[r] = "recheck"
  /\ IF CandidateMatches(r)
       THEN /\ age' = [age EXCEPT ![r] = cand.age]
            /\ Goto(r, "recheckElapsed")
            /\ UNCHANGED <<guard, tokenVars, cur, prep, todo, expected>>
       ELSE Raise(r)
  /\ OutcomeFrame

RecheckElapsed(r) ==
  /\ pc[r] = "recheckElapsed"
  /\ IF OldEnough(age[r])
       THEN /\ Goto(r, "latest")
            /\ age' = [age EXCEPT ![r] = 0]
            /\ UNCHANGED <<guard, tokenVars, cur, prep, todo, expected>>
       ELSE Raise(r)
  /\ OutcomeFrame

-----------------------------------------------------------------------------
(* The explicit command up to the point where both procedures meet.        *)

StartExplicit(p) ==
  /\ ~AutoPublish
  /\ pc[p] = "idle"
  /\ Publishable(source[IdentityOf[p]])
  /\ prep' = [prep EXCEPT ![p] = source[IdentityOf[p]]]
  /\ \E e \in Versions \cup {NoVersion} : expected' = [expected EXCEPT ![p] = e]
  /\ Goto(p, "lockPublish")
  /\ UNCHANGED <<rootVars, tokenVars, worldVars, cur, age, todo, memoryVars, window>>

CheckExpected(p) ==
  /\ pc[p] = "checkExpected"
  /\ IF ExpectationHolds(p)
       THEN /\ ReadRef(p)
            /\ Goto(p, "latest")
            /\ UNCHANGED <<guard, candLive, workVars>>
       ELSE Raise(p)
  /\ OutcomeFrame

-----------------------------------------------------------------------------
(* Both procedures: read the reference again, publish the snapshot, confirm*)
(* the source, replace the reference.                                      *)

ReadLatest(p) ==
  /\ pc[p] = "latest"
  /\ \/ /\ ~TransitionAllowed(ref, Target(p))
        /\ Raise(p)
        /\ UNCHANGED memoryVars
     \/ /\ p \in Replicas /\ AlreadyReleased(p, ref)
        /\ conf' = [conf EXCEPT ![p] = prep[p]]
        /\ Return(p, ref)
        /\ UNCHANGED served
     \/ /\ TransitionAllowed(ref, Target(p))
        /\ p \in Replicas => ~AlreadyReleased(p, ref)
        /\ ReadRef(p)
        /\ Goto(p, "snapshot")
        /\ UNCHANGED <<guard, candLive, workVars, memoryVars>>
  /\ StoreUnchanged
  /\ UNCHANGED <<worldVars, window>>

(* publish_snapshot: a committed snapshot of this version is kept as it is.*)
CheckSnapshot(p) ==
  /\ pc[p] = "snapshot"
  /\ IF SnapshotExists(TargetVersion(p))
       THEN Goto(p, "confirm") /\ UNCHANGED todo
       ELSE Goto(p, "upload") /\ todo' = [todo EXCEPT ![p] = FilesOf[TargetVersion(p)]]
  /\ UNCHANGED <<rootVars, tokenVars, worldVars, cur, prep, age, expected,
                 memoryVars, window>>

UploadFile(p) ==
  /\ pc[p] = "upload"
  /\ \E f \in todo[p] :
       /\ PutFile(TargetVersion(p), f)
       /\ todo' = [todo EXCEPT ![p] = @ \ {f}]
  /\ UNCHANGED <<ref, cand, committed, guard, tokenVars, worldVars, pc, cur,
                 prep, age, expected, memoryVars, window>>

FinishSnapshot(p) ==
  /\ pc[p] = "upload"
  /\ Uploaded(p)
  /\ CommitSnapshot(TargetVersion(p))
  /\ Goto(p, "confirm")
  /\ UNCHANGED <<ref, cand, guard, tokenVars, worldVars, workVars, memoryVars, window>>

ConfirmSource(p) ==
  /\ pc[p] = "confirm"
  /\ IF SourceUnchanged(p)
       THEN Goto(p, "putRef") /\ UNCHANGED <<guard, tokenVars, workVars>>
       ELSE Raise(p)
  /\ OutcomeFrame

(* Every refresh in progress can see the release new from now on. *)
ShowRelease(new) ==
  window' = [r \in Replicas |->
               IF pc[r] # "idle" THEN window[r] \cup {new} ELSE window[r]]

(* write_ref: conditional on the token of the last read, except under the  *)
(* filesystem lock.                                                        *)
WriteRef(p) ==
  /\ pc[p] = "putRef"
  /\ \/ /\ RefUnchanged(p)
        /\ PutRef(p, Target(p))
        /\ ShowRelease(Target(p))
        /\ Goto(p, "published")
     \/ /\ ~RefUnchanged(p)
        /\ Goto(p, "refConflict")
        /\ UNCHANGED <<ref, refTok, window>>
  /\ UNCHANGED <<cand, files, committed, guard, candLive, worldVars, workVars, memoryVars>>

(* A refused write reads the document back: identical bytes are a win,     *)
(* anything else is a conflict.  A replica then follows the winner.        *)
ResolveConflict(p) ==
  /\ pc[p] = "refConflict"
  /\ \/ /\ ref = Target(p)
        /\ ReadRef(p)
        /\ Goto(p, "published")
        /\ UNCHANGED <<guard, candLive, workVars>>
     \/ /\ ref # Target(p)
        /\ IF p \in Replicas THEN Leave(p, "followWinner", cur[p])
                             ELSE Leave(p, "idle", NoRef)
  /\ OutcomeFrame

RecordPublished(p) ==
  /\ pc[p] = "published"
  /\ conf' = IF p \in Replicas THEN [conf EXCEPT ![p] = prep[p]] ELSE conf
  /\ Return(p, Target(p))
  /\ StoreUnchanged
  /\ UNCHANGED <<worldVars, served, window>>

-----------------------------------------------------------------------------
(* The end of a refresh.                                                   *)

(* The refresh serves the release it fell back to, or raises without one. *)
FallBackBlindly(r, release) ==  \* mutant
  /\ Leave(r, "serve", release)
  /\ StoreUnchanged
  /\ UNCHANGED <<worldVars, memoryVars, window>>
FallBack(r, release) ==
  /\ IF release # NoRef THEN Leave(r, "serve", release) /\ UNCHANGED window
                        ELSE EndRefresh(r)
  /\ StoreUnchanged
  /\ UNCHANGED <<worldVars, memoryVars>>

FollowWinner(r) == pc[r] = "followWinner" /\ FallBack(r, WinningRelease(r))

KeepCurrent(r) == pc[r] = "keepCurrent" /\ FallBack(r, KeptRelease(r))

(* The release is in the validated cache, or its snapshot is fetched. *)
Serve(r) ==
  /\ pc[r] = "serve"
  /\ served' = IF Fetchable(cur[r].version) THEN [served EXCEPT ![r] = cur[r]]
                                            ELSE served
  /\ EndRefresh(r)
  /\ StoreUnchanged
  /\ UNCHANGED <<worldVars, conf>>

-----------------------------------------------------------------------------
(* What the environment does.                                              *)

(* A deployment tool changes a source; nothing synchronises it with us. *)
ChangeSource(i) ==
  /\ budget.changes > 0
  /\ \E s \in Sigs \ {source[i]} : source' = [source EXCEPT ![i] = s]
  /\ budget' = [budget EXCEPT !.changes = @ - 1]
  /\ UNCHANGED <<rootVars, tokenVars, pc, workVars, memoryVars, window>>

Older(a) == IF a < Stability THEN a + 1 ELSE a

(* Time passes, for the candidate document and for every held timestamp. *)
Tick ==
  /\ cand' = IF cand = NoCand THEN cand ELSE [cand EXCEPT !.age = Older(@)]
  /\ age' = [p \in Procs |-> IF pc[p] \in HoldsTimestamp THEN Older(age[p]) ELSE age[p]]
  /\ <<cand, age>>' # <<cand, age>>
  /\ UNCHANGED <<ref, files, committed, guard, tokenVars, worldVars, pc, cur,
                 prep, todo, expected, memoryVars, window>>

(* A process dies between two requests; the kernel drops its lock, and     *)
(* what it had uploaded stays.                                             *)
Crash(p) ==
  /\ pc[p] # "idle" \/ p \in Replicas
  /\ budget.crashes > 0
  /\ budget' = [budget EXCEPT !.crashes = @ - 1]
  /\ Leave(p, "idle", NoRef)
  /\ IF p \in Replicas
       THEN /\ conf' = [conf EXCEPT ![p] = NoSig]
            /\ served' = [served EXCEPT ![p] = NoRef]
            /\ window' = [window EXCEPT ![p] = {}]
       ELSE UNCHANGED <<memoryVars, window>>
  /\ StoreUnchanged
  /\ UNCHANGED source

(* A request of the publication procedure fails without an effect. *)
FailedRequest(p) ==
  /\ pc[p] \notin {"idle", "published", "error"} \cup FallbackLabels
  /\ budget.faults > 0
  /\ budget' = [budget EXCEPT !.faults = @ - 1]
  /\ Raise(p)
  /\ StoreUnchanged
  /\ UNCHANGED <<source, memoryVars, window>>

(* A request outside the attempt fails: the refresh itself raises. *)
FailedRefresh(r) ==
  /\ pc[r] \in FallbackLabels
  /\ budget.faults > 0
  /\ budget' = [budget EXCEPT !.faults = @ - 1]
  /\ EndRefresh(r)
  /\ StoreUnchanged
  /\ UNCHANGED <<source, memoryVars>>

(* A local source is read file by file while it is hashed and copied, so   *)
(* a change can be noticed there already; the explicit command hashes      *)
(* under the lock.  A mirror cannot change.                                *)
SourceDrift(p) ==
  /\ ~TracksSource
  /\ pc[p] \in {"build", "upload"} \/ (p \in Publishers /\ pc[p] = "latest")
  /\ ~SourceUnchanged(p)
  /\ Raise(p)
  /\ OutcomeFrame

(* The conditional write takes effect but its response is lost.  A client  *)
(* that retries is refused by its own write; one that gives up raises.     *)
RefResponseLost(p) ==
  /\ pc[p] = "putRef"
  /\ ~Locking /\ RefUnchanged(p)
  /\ budget.faults > 0
  /\ budget' = [budget EXCEPT !.faults = @ - 1]
  /\ PutRefUnacknowledged(p, Target(p))
  /\ ShowRelease(Target(p))
  /\ \E label \in {"refConflict", "error"} : Goto(p, label)
  /\ UNCHANGED <<cand, files, committed, guard, candLive, source, workVars, memoryVars>>

CandResponseLost(r) ==
  /\ pc[r] = "writeCandidate"
  /\ ~Locking /\ CandUnchanged(r)
  /\ budget.faults > 0
  /\ budget' = [budget EXCEPT !.faults = @ - 1]
  /\ PutCand([identity |-> IdentityOf[r], sig |-> prep[r], age |-> age[r]])
  /\ \E label \in {"rereadCandidate", "error"} : Goto(r, label)
  /\ age' = [age EXCEPT ![r] = 0]
  /\ UNCHANGED <<ref, files, committed, guard, refTok, source, cur, prep, todo,
                 expected, memoryVars, window>>

RaiseError(p) == /\ pc[p] = "error"
                 /\ Raise(p)
                 /\ OutcomeFrame

-----------------------------------------------------------------------------
Refresh(r) ==
  \/ BeginRefresh(r) \/ PrepareSource(r)
  \/ EnsureCandidateMatches(r) \/ ConfirmedFastPath(r)
  \/ LockCandidate(r) \/ ReadCandidate(r) \/ ConfirmCandidate(r)
  \/ WriteCandidate(r) \/ RereadCandidate(r) \/ CheckReady(r)
  \/ BuildManifest(r) \/ RecheckCandidate(r) \/ RecheckElapsed(r)
  \/ FollowWinner(r) \/ KeepCurrent(r) \/ Serve(r)

Explicit(p) == StartExplicit(p) \/ CheckExpected(p)

Publish(p) ==
  \/ LockPublish(p) \/ ReadLatest(p) \/ CheckSnapshot(p) \/ UploadFile(p)
  \/ FinishSnapshot(p) \/ ConfirmSource(p) \/ WriteRef(p) \/ ResolveConflict(p)
  \/ RecordPublished(p) \/ RaiseError(p)

Fault(p) == \/ Crash(p) \/ FailedRequest(p) \/ SourceDrift(p) \/ RefResponseLost(p)

Next ==
  \/ \E r \in Replicas : Refresh(r) \/ CandResponseLost(r) \/ FailedRefresh(r)
  \/ \E p \in Publishers : Explicit(p)
  \/ \E p \in Procs : Publish(p) \/ Fault(p)
  \/ \E i \in Identities : ChangeSource(i)
  \/ Tick

Spec == Init /\ [][Next]_vars

(* A process that runs keeps running, and its requests are answered.  The  *)
(* kernel queues the waiters of a flock, so a lock that is released again  *)
(* and again is granted in the end; without a lock that is weak fairness.  *)
(* Faults, crashes and source changes are under no obligation to happen.   *)
Waiting(p) == LockPublish(p) \/ (p \in Replicas /\ LockCandidate(p))

FairSpec ==
  /\ Spec
  /\ \A r \in Replicas : WF_vars(Refresh(r))
  /\ \A p \in Procs : WF_vars(Publish(p)) /\ SF_vars(Waiting(p))
  /\ WF_vars(Tick)

-----------------------------------------------------------------------------
(* Properties.                                                             *)

(* A snapshot that exists has every file its manifest lists: publishers    *)
(* write the manifest object last, or rename a finished folder, so no      *)
(* crash, failure or concurrent upload exposes a partial snapshot.         *)
CommittedIsComplete == \A v \in committed : files[v] = FilesOf[v]

(* A process that skips hashing because it has confirmed a source can rely *)
(* on the snapshot of that source: it is complete.                         *)
ConfirmedIsPublished ==
  \A r \in Replicas : conf[r] # NoSig => VersionOf[conf[r]] \in committed

(* Only the holder of the publication lock is between taking and leaving   *)
(* it, and what it last read of the reference is what it will replace: a   *)
(* filesystem root needs no conditional write.                             *)
LockProtectsReference ==
  Locking => \A p \in Procs :
    /\ pc[p] \in SyncLabels \cup GuardedLabels <=> guard = p
    /\ pc[p] \in {"snapshot", "upload", "confirm", "putRef"} => refTok[p] = ref

(* A refresh during which there was a release ends by serving one of the   *)
(* releases that were current while it ran, however its publication        *)
(* attempt ended; only a failing request outside the attempt, or a crash,  *)
(* excuses it.                                                             *)
RefreshServes ==
  [][\A r \in Replicas :
       /\ pc[r] # "idle" /\ pc'[r] = "idle"
       /\ window[r] # {}
       /\ budget' = budget
       => served'[r] \in window[r]]_vars

(* The shared candidate never changes over to another source, and a release*)
(* that records its source never to another source of the same type: of    *)
(* two replicas configured differently one is refused, also when both find *)
(* the root empty and race.  A release of another type is replaced unseen. *)
OneSourcePerBundle ==
  [][/\ cand # NoCand => cand'.identity = cand.identity
     /\ /\ ref # NoRef /\ ref.source # NoSource
        /\ SameType(ref.source.identity, ref'.source.identity)
        => ref'.source.identity = ref.source.identity]_vars

(* An explicit publisher with --expected-current-version only replaces     *)
(* that version.                                                           *)
ExpectedVersionRespected ==
  [][\A p \in Publishers :
       /\ pc[p] = "putRef" /\ expected[p] # NoVersion
       /\ ref' # ref /\ pc'[p] # pc[p]
       => ref.version = expected[p]]_vars

(* Publication implements the abstract promise to the readers. *)
Abstract == INSTANCE Release WITH Readers <- Replicas, released <- ref,
                                  adopted <- served

RefinesRelease == Abstract!Spec

(* Every refresh ends: nobody waits for ever for the lock or for the       *)
(* candidate, and a lost race is not retried within the refresh.           *)
RefreshEnds == \A r \in Replicas : pc[r] # "idle" ~> pc[r] = "idle"

(* Once the source rests on an observation that may be published, every    *)
(* replica comes to serve exactly that release and stays there.            *)
Converges ==
  \A i \in Identities, s \in Sigs :
    <>[](source[i] = s) /\ Publishable(s)
      => <>[](ref = RefFor(i, s) /\ \A r \in Replicas : served[r] = RefFor(i, s))
=============================================================================
