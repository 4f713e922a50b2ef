---------------------------- MODULE MirrorProofs ---------------------------
(***************************************************************************)
(* The inductive invariant of MirrorSync and what follows from it, for     *)
(* every value of the constants.                                           *)
(***************************************************************************)
EXTENDS MirrorSync, TLAPS, WellFoundedInduction, FiniteSetTheorems

(* TypeOK in parts, with what the types alone do not carry through a step. *)
(* A deployment has its marker and its writes in hand when it begins.      *)
SourceTyped ==
  /\ setup \in Setups
  /\ src \in Inventories
  /\ mark \in Markers
  /\ writes \in 0 .. MaxWrites
  /\ pending \in SUBSET Keys
  /\ deploying \in BOOLEAN
  /\ deploying => mark < MaxDeployments
  /\ ~deploying => pending = {}
  /\ \A k \in Keys : writes + Cardinality(pending) + src[k].sig <= MaxWrites

MirrorTyped ==
  /\ mirror \in [Keys -> [bytes : Contents \cup {Absent, Garbage}, recorded : BOOLEAN]]
  /\ state \in [Keys -> Records \cup {Absent}] \cup {NoState}

RootTyped ==
  /\ objects \in SUBSET SnapshotObjects
  /\ committed \in SUBSET Versions
  /\ ref \in Releases \cup {NoRef}

CallTyped ==
  /\ round \in [Procs -> 1 .. 3]
  /\ at \in [Procs -> Keys]
  /\ obs \in [Procs -> Observations]
  /\ hash \in [Procs -> Versions]
  /\ changed \in [Procs -> BOOLEAN]
  /\ copying \in [Procs -> BOOLEAN]
  /\ conf \in [Procs -> Releases \cup {NoConf}]

PcTyped ==
  /\ pc \in [Procs -> Labels]
  /\ lock \in Procs \cup {Nobody}
  /\ mishaps \in 0 .. MaxMishaps
  /\ \A p \in Procs : pc[p] # "idle" => lock = p

HistTyped ==
  /\ deployed \in [Markers \ {0} -> Inventories]
  /\ hasty \in BOOLEAN
  /\ fresh \in [Procs -> SUBSET Versions]

-----------------------------------------------------------------------------
(* Where an attempt is.                                                    *)

Publishing == {"decide", "upload", "manifest", "putRef"}

(* What a label says about the round, and where the next listing or copy   *)
(* is: they begin at the first key, and files and objects are those that   *)
(* were observed.                                                          *)
Place(p) ==
  /\ pc[p] \in {"mirror", "file"} => round[p] = 1
  /\ pc[p] \in {"writeState", "decide", "upload", "manifest"} => round[p] # 3
  /\ pc[p] = "putRef" => round[p] = 3
  /\ pc[p] \in {"markerBefore", "markerAfter"} => setup.marker
  /\ pc[p] = "markerBefore" => at[p] = 1
  /\ pc[p] \in {"file", "upload"} => at[p] \in Observed(p)
  /\ pc[p] = "idle" => /\ at[p] = 1 /\ round[p] = 1
                       /\ obs[p] = NothingObserved /\ hash[p] = Blank

(* The round's listing has passed k.                                       *)
Passed(p, k) == pc[p] \notin {"idle", "markerBefore"} /\ (pc[p] = "list" => k < at[p])

-----------------------------------------------------------------------------
(* What the observation and the state file say about an object is what a   *)
(* source object of the same signature has.                                *)

(* r, a signature and bytes, is of o or of an older state of the object.   *)
TrueOf(r, o) == r.sig <= o.sig /\ (r.sig = o.sig => r.bytes = o.bytes)

ObservedTruly(p) ==
  /\ \A k \in Observed(p) : TrueOf(obs[p].entries[k], src[k])
  /\ \A k \in Keys : round[p] = 1 /\ ~Passed(p, k) => k \notin Observed(p)

RecordedTruly ==
  state # NoState => \A k \in Keys : state[k] # Absent => TrueOf(state[k], src[k])

(* While an attempt runs nobody else writes the state file: its record of  *)
(* an observed object is of the same bytes if it is of the same signature. *)
RecordsAgree(p) ==
  state # NoState =>
    \A k \in Observed(p) : state[k] # Absent /\ state[k].sig = obs[p].entries[k].sig
                             => state[k].bytes = obs[p].entries[k].bytes

(* The files whose hash the attempt has, ...                               *)
Hashed(p) ==
  IF round[p] = 1 /\ pc[p] \in {"idle", "markerBefore", "list", "markerAfter", "mirror"}
  THEN {}
  ELSE {k \in Observed(p) : pc[p] = "file" => k < at[p]}

(* ... and those among them that the second observation, if there is one,  *)
(* has found as they were.                                                 *)
Verified(p, k) ==
  \/ round[p] = 3 \/ pc[p] \in {"writeState"} \cup Publishing
  \/ round[p] = 2 /\ Passed(p, k)

(* A hash is of the observed bytes, or the download met newer ones and the *)
(* second observation will see that.                                       *)
HashesTrue(p) ==
  \A k \in Keys :
    /\ hash[p][k] # Absent <=> k \in Hashed(p)
    /\ k \in Hashed(p) =>
         \/ hash[p][k] = obs[p].entries[k].bytes
         \/ changed[p] /\ src[k].sig # obs[p].entries[k].sig /\ ~Verified(p, k)

-----------------------------------------------------------------------------
(* The objects of the snapshots.                                           *)

HasObject(v, k) == \E o \in objects : o.version = v /\ o.key = k

ObjectsTrue == \A o \in objects : o.bytes = o.version[o.key] /\ o.bytes # Absent
CommittedComplete == \A v \in committed : \A k \in Keys : v[k] # Absent => HasObject(v, k)

UploadedTo(p) ==
  \A k \in Observed(p) :
    (pc[p] = "upload" /\ k < at[p]) \/ pc[p] = "manifest" => HasObject(hash[p], k)

-----------------------------------------------------------------------------
(* The trees since the snapshot was complete.                              *)

Third(p, k) == round[p] = 3 /\ Passed(p, k)

(* s is the source at the start of the third observation.                  *)
SourceOfThird(p, s) ==
  \A k \in Observed(p) :
    (src[k].sig = obs[p].entries[k].sig \/ Third(p, k)) => s[k] = obs[p].entries[k].bytes

FreshRemembered(p) ==
  round[p] = 3 =>
    /\ \E s \in fresh[p] : SourceOfThird(p, s)
    /\ \A k \in Keys \ Observed(p) : Third(p, k) => \E s \in fresh[p] : s[k] = Absent

-----------------------------------------------------------------------------
(* Deployment markers.                                                     *)

(* A release is of a deployment that is over; the next one does not begin  *)
(* before it is released, unless it is hasty.                              *)
MarkersKept ==
  setup.marker =>
    /\ ReleasedMarker <= mark
    /\ ref # NoRef => ReleasedMarker # 0
    /\ ~hasty /\ mark # ReleasedMarker => ~deploying /\ src = deployed[mark]
    /\ ReleasedWasDeployed

(* An observation under a marker that is not released is of the deployment *)
(* that wrote it, as far as it goes.                                       *)
MarkerSeen(p) == pc[p] # "idle" /\ (pc[p] = "markerBefore" => round[p] # 1)

ObservedDeployed(p) ==
  setup.marker /\ MarkerSeen(p) =>
    /\ obs[p].marker # 0
    /\ ReleasedMarker <= obs[p].marker /\ obs[p].marker <= mark
    /\ ~hasty /\ obs[p].marker # ReleasedMarker =>
         /\ mark = obs[p].marker
         /\ \A k \in Keys : round[p] # 1 \/ Passed(p, k)
              => Sigs(obs[p].entries)[k] = Sigs(src)[k]

TransitionKept(p) ==
  round[p] = 3 \/ pc[p] \in {"upload", "manifest"} => ValidTransition(p)

-----------------------------------------------------------------------------
TypeInv == SourceTyped /\ MirrorTyped /\ RootTyped /\ CallTyped /\ PcTyped
StoreInv == RecordedTruly /\ ObjectsTrue /\ CommittedComplete

AttemptInv(p) ==
  /\ Place(p) /\ ObservedTruly(p) /\ RecordsAgree(p) /\ HashesTrue(p)
  /\ UploadedTo(p) /\ TransitionKept(p)

HistoryInv(p) == FreshRemembered(p) /\ ObservedDeployed(p)

IInv ==
  /\ TypeInv /\ HistTyped /\ StoreInv /\ MarkersKept
  /\ \A p \in Procs : AttemptInv(p) /\ HistoryInv(p)

-----------------------------------------------------------------------------
(* The first key of a listing, and the next.                               *)

LEMMA FirstKey ==
  ASSUME NEW S \in SUBSET Keys, S # {}
  PROVE  First(S) \in S /\ \A l \in S : First(S) <= l
<1>1. S \in SUBSET Nat
  BY DEF Keys
<1>2. PICK k \in S : \A l \in S : <<l, k>> \notin OpToRel(<, Nat)
  BY <1>1, NatLessThanWellFounded, WFMin
<1>3. \A l \in S : ~(l < k)
  BY <1>1, <1>2 DEF OpToRel
<1>4. \A l \in S : k <= l
  BY <1>1, <1>3
<1>q. QED  BY <1>4 DEF First

LEMMA ProceedFacts ==
  ASSUME TypeInv, NEW p \in Procs, NEW S \in SUBSET Keys, NEW label,
         Proceed(p, S, label)
  PROVE  \/ \E g \in S : /\ at' = [at EXCEPT ![p] = g] /\ pc' = pc
                         /\ \A h \in S : h < g <=> h <= at[p]
         \/ /\ at' = [at EXCEPT ![p] = 1] /\ pc' = [pc EXCEPT ![p] = label]
            /\ \A h \in S : h <= at[p]
<1> DEFINE after == {k \in S : k > at[p]}
<1>1. at[p] \in Nat /\ \A k \in S : k \in Nat
  BY DEF TypeInv, CallTyped, Keys
<1>2. CASE after # {}
  <2>1. First(after) \in after /\ \A l \in after : First(after) <= l
    BY <1>2, FirstKey
  <2>2. at' = [at EXCEPT ![p] = First(after)] /\ pc' = pc
    BY <1>2 DEF Proceed
  <2>3. \A h \in S : h < First(after) <=> h <= at[p]
    BY <1>1, <2>1
  <2>q. QED  BY <2>1, <2>2, <2>3
<1>3. CASE after = {}
  <2>1. at' = [at EXCEPT ![p] = 1] /\ pc' = [pc EXCEPT ![p] = label]
    BY <1>3 DEF Proceed, Goto
  <2>2. \A h \in S : h <= at[p]
    BY <1>1, <1>3
  <2>q. QED  BY <2>1, <2>2
<1>q. QED  BY <1>2, <1>3

LEMMA FirstOfAll ==
  1 \in Keys /\ \A k \in Keys : ~(k < 1)
BY MirrorAssumption DEF Keys

LEMMA CallFacts ==
  ASSUME TypeInv, NEW p \in Procs
  PROVE  /\ at[p] \in Keys /\ round[p] \in {1, 2, 3}
         /\ obs[p].entries \in Inventories /\ obs[p].marker \in Markers
         /\ Observed(p) \in SUBSET Keys
         /\ obs[p] = [entries |-> obs[p].entries, marker |-> obs[p].marker]
<1>1. obs[p] \in Observations /\ at[p] \in Keys /\ round[p] \in 1 .. 3
  BY DEF TypeInv, CallTyped
<1>q. QED  BY <1>1 DEF Observations, Observed, Exists

LEMMA SourceFacts ==
  ASSUME TypeInv, NEW k \in Keys
  PROVE  src[k] \in Objects /\ src[k].sig \in Signatures
         /\ src[k].bytes \in Contents \cup {Absent}
BY DEF TypeInv, SourceTyped, Inventories, Objects

(* The signature of a listing is that of the object, if it is there.       *)

LEMMA SigsFacts ==
  ASSUME NEW i \in Inventories, NEW j \in Inventories, NEW k \in Keys,
         Sigs(i)[k] = Sigs(j)[k]
  PROVE  /\ i[k].bytes = Absent <=> j[k].bytes = Absent
         /\ i[k].bytes # Absent => i[k].sig = j[k].sig
<1>1. i[k].sig \in Signatures /\ j[k].sig \in Signatures
  BY DEF Inventories, Objects
<1>q. QED  BY <1>1, NothingAssumption DEF Sigs

(* NextFile goes to the next observed file, or the mirror is up to date.   *)

LEMMA NextFileFacts ==
  ASSUME TypeInv, NEW p \in Procs, NextFile(p)
  PROVE  \/ /\ pc' = pc /\ round' = round
            /\ \E g \in Observed(p) : /\ at' = [at EXCEPT ![p] = g]
                                       /\ \A h \in Observed(p) : h < g <=> h <= at[p]
         \/ /\ \A h \in Observed(p) : h <= at[p]
            /\ at' = [at EXCEPT ![p] = 1]
            /\ \/ /\ ~changed'[p] /\ round' = round
                  /\ pc' = [pc EXCEPT ![p] = "writeState"]
               \/ /\ changed'[p] /\ ObserveAgain(p, 2)
<1>1. /\ Observed(p) \in SUBSET Keys /\ at[p] \in Nat
      /\ \A k \in Observed(p) : k \in Nat
  <2>1. Observed(p) \in SUBSET Keys /\ at[p] \in Keys
    BY CallFacts
  <2>q. QED  BY <2>1 DEF Keys
<1>2. CASE \E k \in Observed(p) : k > at[p]
  <2>1. Proceed(p, Observed(p), "file") /\ UNCHANGED round
    BY <1>2 DEF NextFile
  <2>2. ~ \A h \in Observed(p) : h <= at[p]
    BY <1>1, <1>2
  <2>3. \E g \in Observed(p) : /\ at' = [at EXCEPT ![p] = g] /\ pc' = pc
                               /\ \A h \in Observed(p) : h < g <=> h <= at[p]
    BY <1>1, <2>1, <2>2, ProceedFacts
  <2>q. QED  BY <2>1, <2>3
<1>3. CASE ~ \E k \in Observed(p) : k > at[p]
  <2>1. \A h \in Observed(p) : h <= at[p]
    BY <1>1, <1>3
  <2>q. QED  BY <1>3, <2>1 DEF NextFile, ObserveAgain, Goto
<1>q. QED  BY <1>2, <1>3

-----------------------------------------------------------------------------
(* Every action preserves TypeInv, part by part.                           *)

LEMMA NothingTyped ==
  Blank \in Versions /\ NoObjects \in Inventories /\ NothingObserved \in Observations
<1>1. 0 \in Signatures /\ 0 \in Markers
  BY MirrorAssumption DEF Signatures, Markers
<1>2. NoObjects \in Inventories
  BY <1>1 DEF NoObjects, Inventories, Objects
<1>q. QED  BY <1>1, <1>2 DEF Blank, Versions, NothingObserved, Observations

LEMMA EndTyped ==
  ASSUME TypeInv, NEW p \in Procs, End(p),
         conf' \in [Procs -> Releases \cup {NoConf}], mishaps' \in 0 .. MaxMishaps
  PROVE  CallTyped' /\ PcTyped'
<1>1. CallTyped'
  <2>1. 1 \in Keys /\ 1 \in 1 .. 3
    BY FirstOfAll
  <2>2. /\ round' \in [Procs -> 1 .. 3] /\ at' \in [Procs -> Keys]
        /\ obs' \in [Procs -> Observations] /\ hash' \in [Procs -> Versions]
        /\ changed' \in [Procs -> BOOLEAN] /\ copying' \in [Procs -> BOOLEAN]
    BY <2>1, NothingTyped DEF TypeInv, CallTyped, End
  <2>q. QED  BY <2>2 DEF CallTyped
<1>2. PcTyped'
  BY DEF TypeInv, PcTyped, End, Goto, FreedLock, Labels
<1>q. QED  BY <1>1, <1>2

LEMMA AgainTyped ==
  ASSUME TypeInv, NEW p \in Procs, NEW n \in 1 .. 3, ObserveAgain(p, n),
         pc[p] # "idle",
         lock' = lock, mishaps' = mishaps
  PROVE  /\ round' \in [Procs -> 1 .. 3] /\ at' \in [Procs -> Keys]
         /\ PcTyped'
<1>1. round' \in [Procs -> 1 .. 3] /\ at' \in [Procs -> Keys]
  BY FirstOfAll DEF TypeInv, CallTyped, ObserveAgain
<1>2. PcTyped'
  BY DEF TypeInv, PcTyped, ObserveAgain, Goto, Labels
<1>q. QED  BY <1>1, <1>2

LEMMA NextFileTyped ==
  ASSUME TypeInv, NEW p \in Procs, NextFile(p), pc[p] # "idle",
         lock' = lock, mishaps' = mishaps
  PROVE  /\ round' \in [Procs -> 1 .. 3] /\ at' \in [Procs -> Keys]
         /\ PcTyped'
<1>1. Observed(p) \in SUBSET Keys
  BY CallFacts
<1>2. CASE ObserveAgain(p, 2)
  BY <1>2, AgainTyped
<1>3. CASE ~ObserveAgain(p, 2)
  <2>1. /\ round' = round
        /\ \E g \in Keys : at' = [at EXCEPT ![p] = g]
        /\ pc' \in {pc, [pc EXCEPT ![p] = "writeState"]}
    BY <1>1, <1>3, NextFileFacts, FirstOfAll
  <2>2. round' \in [Procs -> 1 .. 3] /\ at' \in [Procs -> Keys]
    BY <2>1 DEF TypeInv, CallTyped
  <2>3. PcTyped'
    BY <2>1 DEF TypeInv, PcTyped, Labels
  <2>q. QED  BY <2>2, <2>3
<1>q. QED  BY <1>2, <1>3

LEMMA ProceedTyped ==
  ASSUME TypeInv, NEW p \in Procs, NEW S \in SUBSET Keys,
         NEW label \in Labels,
         Proceed(p, S, label), pc[p] # "idle", lock' = lock, mishaps' = mishaps
  PROVE  at' \in [Procs -> Keys] /\ PcTyped'
<1>1. /\ \E g \in Keys : at' = [at EXCEPT ![p] = g]
      /\ pc' \in {pc, [pc EXCEPT ![p] = label]}
  BY ProceedFacts, FirstOfAll
<1>2. at' \in [Procs -> Keys]
  BY <1>1 DEF TypeInv, CallTyped
<1>3. PcTyped'
  BY <1>1 DEF TypeInv, PcTyped
<1>q. QED  BY <1>2, <1>3

LEMMA PutTyped ==
  ASSUME TypeInv, NEW v \in Versions, NEW k \in Keys, NEW b \in Contents,
         Put(v, k, b),
         committed' = committed, ref' = ref
  PROVE  RootTyped'
<1>1. [version |-> v, key |-> k, bytes |-> b] \in SnapshotObjects
  BY DEF SnapshotObjects
<1>q. QED  BY <1>1 DEF TypeInv, RootTyped, Put

(* The bytes an upload has, and what the attempt has observed of the file. *)

LEMMA UploadFacts ==
  ASSUME TypeInv, NEW p \in Procs, AttemptInv(p), pc[p] = "upload"
  PROVE  /\ at[p] \in Observed(p) /\ at[p] \in Keys /\ hash[p] \in Versions
         /\ hash[p][at[p]] = Entry(p).bytes /\ hash[p][at[p]] \in Contents
         /\ Entry(p).sig \in Signatures /\ Entry(p).bytes # Absent
<1>1. at[p] \in Observed(p) /\ at[p] \in Keys
  BY CallFacts DEF AttemptInv, Place
<1>2. Entry(p) \in Objects /\ Entry(p).bytes # Absent
  BY <1>1, CallFacts DEF Entry, Observed, Exists, Inventories
<1>3. at[p] \in Hashed(p) /\ Verified(p, at[p])
  BY <1>1 DEF Hashed, Verified, Publishing
<1>4. hash[p][at[p]] = Entry(p).bytes
  BY <1>1, <1>3 DEF AttemptInv, HashesTrue, Entry
<1>5. hash[p] \in Versions
  BY DEF TypeInv, CallTyped
<1>6. Entry(p).bytes \in Contents /\ Entry(p).sig \in Signatures
  BY <1>2 DEF Objects
<1>q. QED  BY <1>1, <1>2, <1>4, <1>5, <1>6

LEMMA CopyFacts ==
  ASSUME TypeInv, NEW p \in Procs, AttemptInv(p), pc[p] = "upload",
         CopyAllowed(p)
  PROVE  Here(p).bytes = hash[p][at[p]]
<1>1. at[p] \in Observed(p) /\ TrueOf(Entry(p), Here(p))
  BY UploadFacts DEF AttemptInv, ObservedTruly, Entry, Here
<1>2. CASE setup.pinned
  <2>1. Sigs(src)[at[p]] = Entry(p).sig
    BY <1>2 DEF CopyAllowed
  <2>2. Here(p).sig = Entry(p).sig
    BY <2>1, UploadFacts, NothingAssumption DEF Sigs, Here
  <2>q. QED  BY <1>1, <2>2, UploadFacts DEF TrueOf
<1>3. CASE ~setup.pinned
  BY <1>3, UploadFacts DEF CopyAllowed
<1>q. QED  BY <1>2, <1>3

LEMMA BeginTyped ==
  ASSUME TypeInv, NEW p \in Procs, AttemptInv(p), Begin(p)
  PROVE  TypeInv'
<1>1. SourceTyped'
  BY DEF TypeInv, SourceTyped, Begin, BeginWithLock, Frame, sourceVars,
       mirrorVars, rootVars, callVars
<1>2. MirrorTyped'
  BY DEF TypeInv, MirrorTyped, Begin, BeginWithLock, Frame, sourceVars,
       mirrorVars, rootVars, callVars
<1>3. RootTyped'
  BY DEF TypeInv, RootTyped, Begin, BeginWithLock, Frame, sourceVars,
       mirrorVars, rootVars, callVars
<1>4. CallTyped' /\ PcTyped'
  <2>1. CallTyped'
    BY DEF TypeInv, CallTyped, Begin, BeginWithLock, Frame, sourceVars,
         mirrorVars, rootVars, callVars
  <2>2. \A q \in Procs : pc[q] = "idle"
    BY MirrorAssumption DEF TypeInv, PcTyped, Begin
  <2>3. PcTyped'
    BY <2>2 DEF TypeInv, PcTyped, Labels, Goto, Begin, BeginWithLock, Frame,
         sourceVars, mirrorVars, rootVars, callVars
  <2>q. QED  BY <2>1, <2>3
<1>q. QED  BY <1>1, <1>2, <1>3, <1>4 DEF TypeInv

LEMMA MarkerBeforeTyped ==
  ASSUME TypeInv, NEW p \in Procs, AttemptInv(p), MarkerBefore(p)
  PROVE  TypeInv'
<1>1. SourceTyped'
  BY DEF TypeInv, SourceTyped, MarkerBefore, Frame, sourceVars, mirrorVars,
       rootVars, callVars
<1>2. MirrorTyped'
  BY DEF TypeInv, MirrorTyped, MarkerBefore, Frame, sourceVars, mirrorVars,
       rootVars, callVars
<1>3. RootTyped'
  BY DEF TypeInv, RootTyped, MarkerBefore, Frame, sourceVars, mirrorVars,
       rootVars, callVars
<1>4. CallTyped' /\ PcTyped'
  <2>1. CASE End(p)
    BY <2>1, EndTyped DEF TypeInv, CallTyped, PcTyped, MarkerBefore, Frame,
         sourceVars, mirrorVars, rootVars, callVars
  <2>2. CASE ~End(p)
    <3>1. [obs[p] EXCEPT !.marker = mark] \in Observations
      BY DEF TypeInv, CallTyped, SourceTyped, Observations
    <3>2. CallTyped'
      <4>1. obs' = [obs EXCEPT ![p] = [obs[p] EXCEPT !.marker = mark]]
        BY <2>2 DEF MarkerBefore
      <4>2. UNCHANGED <<round, at, hash, changed, copying, conf>>
        BY <2>2 DEF MarkerBefore
      <4>q. QED  BY <3>1, <4>1, <4>2 DEF TypeInv, CallTyped
    <3>3. PcTyped'
      BY <2>2 DEF TypeInv, PcTyped, Labels, Goto, MarkerBefore, Frame,
           sourceVars, mirrorVars, rootVars, callVars
    <3>q. QED  BY <3>2, <3>3
  <2>q. QED  BY <2>1, <2>2
<1>q. QED  BY <1>1, <1>2, <1>3, <1>4 DEF TypeInv

LEMMA ListObjectTyped ==
  ASSUME TypeInv, NEW p \in Procs, AttemptInv(p), ListObject(p)
  PROVE  TypeInv'
<1>1. SourceTyped'
  BY DEF TypeInv, SourceTyped, ListObject, Frame, sourceVars, mirrorVars,
       rootVars, callVars
<1>2. MirrorTyped'
  BY DEF TypeInv, MirrorTyped, ListObject, Frame, sourceVars, mirrorVars,
       rootVars, callVars
<1>3. RootTyped'
  BY DEF TypeInv, RootTyped, ListObject, Frame, sourceVars, mirrorVars,
       rootVars, callVars
<1>4. CallTyped' /\ PcTyped'
  <2>1. CASE End(p)
    BY <2>1, EndTyped DEF TypeInv, CallTyped, PcTyped, ListObject, Frame,
         sourceVars, mirrorVars, rootVars, callVars
  <2>2. CASE ~End(p)
    <3>1. [obs[p] EXCEPT !.entries[at[p]] = Here(p)] \in Observations
      <4>1. Here(p) \in Objects /\ at[p] \in Keys
        BY CallFacts, SourceFacts DEF Here
      <4>q. QED  BY <4>1 DEF TypeInv, CallTyped, Observations, Inventories
    <3>2. obs' \in [Procs -> Observations]
      <4>1. obs' \in {obs, [obs EXCEPT ![p] = [obs[p] EXCEPT !.entries[at[p]] = Here(p)]]}
        BY <2>2 DEF ListObject
      <4>q. QED  BY <3>1, <4>1 DEF TypeInv, CallTyped
    <3>3. at' \in [Procs -> Keys] /\ PcTyped'
      <4>1. (IF setup.marker THEN "markerAfter" ELSE AfterRound(p)) \in Labels
        BY CallFacts DEF AfterRound, Labels
      <4>q. QED  BY <2>2, <4>1, ProceedTyped DEF ListObject, Frame,
                      sourceVars, mirrorVars, rootVars, callVars
    <3>4. CallTyped'
      BY <2>2, <3>2, <3>3 DEF TypeInv, CallTyped, ListObject, Frame,
           sourceVars, mirrorVars, rootVars, callVars
    <3>q. QED  BY <3>3, <3>4
  <2>q. QED  BY <2>1, <2>2
<1>q. QED  BY <1>1, <1>2, <1>3, <1>4 DEF TypeInv

LEMMA MarkerAfterTyped ==
  ASSUME TypeInv, NEW p \in Procs, AttemptInv(p), MarkerAfter(p)
  PROVE  TypeInv'
<1>1. SourceTyped'
  BY DEF TypeInv, SourceTyped, MarkerAfter, Frame, sourceVars, mirrorVars,
       rootVars, callVars
<1>2. MirrorTyped'
  BY DEF TypeInv, MirrorTyped, MarkerAfter, Frame, sourceVars, mirrorVars,
       rootVars, callVars
<1>3. RootTyped'
  BY DEF TypeInv, RootTyped, MarkerAfter, Frame, sourceVars, mirrorVars,
       rootVars, callVars
<1>4. CallTyped' /\ PcTyped'
  <2>1. CASE End(p)
    BY <2>1, EndTyped DEF TypeInv, CallTyped, PcTyped, MarkerAfter, Frame,
         sourceVars, mirrorVars, rootVars, callVars
  <2>2. CASE ~End(p)
    <3>1. CallTyped'
      BY <2>2 DEF TypeInv, CallTyped, MarkerAfter, Frame, sourceVars,
           mirrorVars, rootVars, callVars
    <3>2. AfterRound(p) \in Labels
      BY CallFacts DEF AfterRound, Labels
    <3>3. PcTyped'
      BY <2>2, <3>2 DEF TypeInv, PcTyped, Goto, MarkerAfter, Frame,
           sourceVars, mirrorVars, rootVars, callVars
    <3>q. QED  BY <3>1, <3>3
  <2>q. QED  BY <2>1, <2>2
<1>q. QED  BY <1>1, <1>2, <1>3, <1>4 DEF TypeInv

LEMMA PrepareMirrorTyped ==
  ASSUME TypeInv, NEW p \in Procs, AttemptInv(p), PrepareMirror(p)
  PROVE  TypeInv'
<1>1. SourceTyped'
  BY DEF TypeInv, SourceTyped, PrepareMirror, Frame, sourceVars, mirrorVars,
       rootVars, callVars
<1>2. MirrorTyped'
  <2>1. \A k \in Keys : mirror'[k] \in {mirror[k], EmptyMirror[k]}
    BY DEF PrepareMirror
  <2>2. EmptyMirror \in [Keys -> [bytes : Contents \cup {Absent, Garbage}, recorded : BOOLEAN]]
    BY DEF EmptyMirror
  <2>3. mirror' \in [Keys -> [bytes : Contents \cup {Absent, Garbage}, recorded : BOOLEAN]]
    BY <2>1, <2>2 DEF TypeInv, MirrorTyped, PrepareMirror
  <2>q. QED  BY <2>3 DEF TypeInv, MirrorTyped, PrepareMirror
<1>3. RootTyped'
  BY DEF TypeInv, RootTyped, PrepareMirror, Frame, sourceVars, mirrorVars,
       rootVars, callVars
<1>4. CallTyped' /\ PcTyped'
  <2>1. Observed(p) # {} => First(Observed(p)) \in Keys
    BY CallFacts, FirstKey
  <2>2. changed' \in [Procs -> BOOLEAN]
    BY DEF TypeInv, CallTyped, PrepareMirror, Frame, sourceVars, mirrorVars,
         rootVars, callVars
  <2>3. CASE Observed(p) # {}
    BY <2>1, <2>2, <2>3 DEF TypeInv, CallTyped, PcTyped, Labels, Goto,
         PrepareMirror, Frame, sourceVars, mirrorVars, rootVars, callVars
  <2>4. CASE ObserveAgain(p, 2)
    <3>1. round' \in [Procs -> 1 .. 3] /\ at' \in [Procs -> Keys] /\ PcTyped'
      BY <2>4, AgainTyped DEF PrepareMirror, Frame, sourceVars, mirrorVars,
           rootVars, callVars
    <3>q. QED  BY <2>2, <3>1 DEF TypeInv, CallTyped, PrepareMirror, Frame,
                    sourceVars, mirrorVars, rootVars, callVars
  <2>5. CASE Observed(p) = {} /\ ~ObserveAgain(p, 2)
    BY <2>2, <2>5 DEF TypeInv, CallTyped, PcTyped, Labels, Goto,
         PrepareMirror, Frame, sourceVars, mirrorVars, rootVars, callVars
  <2>q. QED  BY <2>3, <2>4, <2>5
<1>q. QED  BY <1>1, <1>2, <1>3, <1>4 DEF TypeInv

LEMMA ReuseFileTyped ==
  ASSUME TypeInv, NEW p \in Procs, AttemptInv(p), ReuseFile(p)
  PROVE  TypeInv'
<1>1. SourceTyped'
  BY DEF TypeInv, SourceTyped, ReuseFile, Frame, sourceVars, mirrorVars,
       rootVars, callVars
<1>2. MirrorTyped'
  BY DEF TypeInv, MirrorTyped, ReuseFile, Frame, sourceVars, mirrorVars,
       rootVars, callVars
<1>3. RootTyped'
  BY DEF TypeInv, RootTyped, ReuseFile, Frame, sourceVars, mirrorVars,
       rootVars, callVars
<1>4. CallTyped' /\ PcTyped'
  <2>1. HashOf(p, at[p]) \in Contents
    <3>1. state[at[p]] \in Records
      BY CallFacts DEF ReuseFile, Reused, CanReuse, TypeInv, MirrorTyped
    <3>q. QED  BY <3>1 DEF ReuseFile, Reused, HashOf, Records
  <2>2. hash' \in [Procs -> Versions]
    <3>1. hash' = [hash EXCEPT ![p] = [hash[p] EXCEPT ![at[p]] = HashOf(p, at[p])]]
      BY DEF ReuseFile
    <3>q. QED  BY <2>1, <3>1, CallFacts DEF TypeInv, CallTyped, Versions
  <2>3. round' \in [Procs -> 1 .. 3] /\ at' \in [Procs -> Keys] /\ PcTyped'
    BY NextFileTyped DEF ReuseFile, Frame, sourceVars, mirrorVars, rootVars,
         callVars
  <2>q. QED  BY <2>2, <2>3 DEF TypeInv, CallTyped, ReuseFile, Frame,
                  sourceVars, mirrorVars, rootVars, callVars
<1>q. QED  BY <1>1, <1>2, <1>3, <1>4 DEF TypeInv

LEMMA DownloadTyped ==
  ASSUME TypeInv, NEW p \in Procs, AttemptInv(p), Download(p)
  PROVE  TypeInv'
<1>1. SourceTyped'
  BY DEF TypeInv, SourceTyped, Download, Frame, sourceVars, mirrorVars,
       rootVars, callVars
<1>2. MirrorTyped'
  <2>1. [bytes |-> Here(p).bytes, recorded |-> FALSE]
          \in [bytes : Contents \cup {Absent, Garbage}, recorded : BOOLEAN]
    BY CallFacts, SourceFacts DEF Here
  <2>q. QED  BY <2>1, CallFacts DEF TypeInv, MirrorTyped, Download
<1>3. RootTyped'
  BY DEF TypeInv, RootTyped, Download, Frame, sourceVars, mirrorVars,
       rootVars, callVars
<1>4. CallTyped' /\ PcTyped'
  <2>1. CASE End(p)
    BY <2>1, EndTyped DEF TypeInv, CallTyped, PcTyped, Download, Frame,
         sourceVars, mirrorVars, rootVars, callVars
  <2>2. CASE ~End(p)
    <3>1. Here(p).bytes \in Contents
      BY <2>2, CallFacts, SourceFacts DEF Download, Downloadable, Here
    <3>2. hash' \in [Procs -> Versions]
      <4>1. hash' = [hash EXCEPT ![p] = [hash[p] EXCEPT ![at[p]] = Here(p).bytes]]
        BY <2>2 DEF Download
      <4>q. QED  BY <3>1, <4>1, CallFacts DEF TypeInv, CallTyped, Versions
    <3>3. round' \in [Procs -> 1 .. 3] /\ at' \in [Procs -> Keys] /\ PcTyped'
      BY <2>2, NextFileTyped DEF Download, Frame, sourceVars, mirrorVars,
           rootVars, callVars
    <3>q. QED  BY <2>2, <3>2, <3>3 DEF TypeInv, CallTyped, Download, Frame,
                    sourceVars, mirrorVars, rootVars, callVars
  <2>q. QED  BY <2>1, <2>2
<1>q. QED  BY <1>1, <1>2, <1>3, <1>4 DEF TypeInv

LEMMA WriteStateTyped ==
  ASSUME TypeInv, NEW p \in Procs, AttemptInv(p), WriteState(p)
  PROVE  TypeInv'
<1>1. SourceTyped'
  BY DEF TypeInv, SourceTyped, WriteState, Frame, sourceVars, mirrorVars,
       rootVars, callVars
<1>2. MirrorTyped'
  <2>1. ASSUME NEW k \in Observed(p)
        PROVE  [sig |-> obs[p].entries[k].sig, bytes |-> hash[p][k]] \in Records
    <3>1. obs[p].entries[k] \in Objects /\ k \in Keys
      BY <2>1, CallFacts DEF Inventories
    <3>2. hash[p][k] \in Contents
      <4>1. k \in Hashed(p)
        BY <2>1 DEF Hashed, WriteState
      <4>q. QED  BY <3>1, <4>1 DEF AttemptInv, HashesTrue, TypeInv, CallTyped,
                      Versions
    <3>q. QED  BY <3>1, <3>2 DEF Objects, Records
  <2>2. state' \in [Keys -> Records \cup {Absent}]
    BY <2>1 DEF WriteState
  <2>3. mirror' \in [Keys -> [bytes : Contents \cup {Absent, Garbage}, recorded : BOOLEAN]]
    BY DEF TypeInv, MirrorTyped, WriteState
  <2>q. QED  BY <2>2, <2>3 DEF MirrorTyped
<1>3. RootTyped'
  BY DEF TypeInv, RootTyped, WriteState, Frame, sourceVars, mirrorVars,
       rootVars, callVars
<1>4. CallTyped' /\ PcTyped'
  BY DEF TypeInv, CallTyped, PcTyped, Labels, Goto, WriteState, Frame,
       sourceVars, mirrorVars, rootVars, callVars
<1>q. QED  BY <1>1, <1>2, <1>3, <1>4 DEF TypeInv

LEMMA DecideTyped ==
  ASSUME TypeInv, NEW p \in Procs, AttemptInv(p), Decide(p)
  PROVE  TypeInv'
<1>1. SourceTyped'
  BY DEF TypeInv, SourceTyped, Decide, Confirmed, Frame, sourceVars,
       mirrorVars, rootVars, callVars
<1>2. MirrorTyped'
  BY DEF TypeInv, MirrorTyped, Decide, Confirmed, Frame, sourceVars,
       mirrorVars, rootVars, callVars
<1>3. RootTyped'
  BY DEF TypeInv, RootTyped, Decide, Confirmed, Frame, sourceVars, mirrorVars,
       rootVars, callVars
<1>4. CallTyped' /\ PcTyped'
  <2>0. Target(p) \in Releases
    BY DEF TypeInv, CallTyped, Target, Releases
  <2>1. CASE End(p)
    <3>1. conf' \in [Procs -> Releases \cup {NoConf}]
      BY <2>0 DEF TypeInv, CallTyped, Decide, Confirmed, Frame, sourceVars,
           mirrorVars, rootVars, callVars
    <3>q. QED  BY <2>1, <3>1, EndTyped DEF TypeInv, PcTyped, Decide,
                    Confirmed, Frame, sourceVars, mirrorVars, rootVars,
                    callVars
  <2>2. CASE ~End(p)
    <3>1. copying' \in [Procs -> BOOLEAN]
      <4>1. setup.copies \in BOOLEAN
        BY MirrorAssumption DEF TypeInv, SourceTyped, AllSetups
      <4>q. QED  BY <2>2, <4>1 DEF TypeInv, CallTyped, Decide, Confirmed,
                      Frame, sourceVars, mirrorVars, rootVars, callVars
    <3>2. CASE hash[p] \in committed
      <4>1. round' \in [Procs -> 1 .. 3] /\ at' \in [Procs -> Keys] /\ PcTyped'
        BY <2>2, <3>2, AgainTyped DEF Decide, Confirmed, Frame, sourceVars,
             mirrorVars, rootVars, callVars
      <4>q. QED  BY <2>2, <3>1, <4>1 DEF TypeInv, CallTyped, Decide,
                      Confirmed, Frame, sourceVars, mirrorVars, rootVars,
                      callVars
    <3>3. CASE hash[p] \notin committed
      <4>1. First(Observed(p)) \in Keys
        BY <2>2, CallFacts, FirstKey DEF Decide
      <4>q. QED  BY <2>2, <3>1, <3>3, <4>1 DEF TypeInv, CallTyped, PcTyped,
                      Labels, Goto, Decide, Confirmed, Frame, sourceVars,
                      mirrorVars, rootVars, callVars
    <3>q. QED  BY <3>2, <3>3
  <2>q. QED  BY <2>1, <2>2
<1>q. QED  BY <1>1, <1>2, <1>3, <1>4 DEF TypeInv

LEMMA ServerSideCopyTyped ==
  ASSUME TypeInv, NEW p \in Procs, AttemptInv(p), ServerSideCopy(p)
  PROVE  TypeInv'
<1>1. SourceTyped'
  BY DEF TypeInv, SourceTyped, ServerSideCopy, Frame, sourceVars, mirrorVars,
       rootVars, callVars
<1>2. MirrorTyped'
  BY DEF TypeInv, MirrorTyped, ServerSideCopy, Frame, sourceVars, mirrorVars,
       rootVars, callVars
<1>3. RootTyped'
  BY PutTyped, UploadFacts, CopyFacts DEF ServerSideCopy
<1>4. CallTyped' /\ PcTyped'
  <2>1. at' \in [Procs -> Keys] /\ PcTyped'
    BY CallFacts, ProceedTyped DEF Labels, ServerSideCopy, Frame, sourceVars,
         mirrorVars, rootVars, callVars
  <2>q. QED  BY <2>1 DEF TypeInv, CallTyped, ServerSideCopy, Frame,
                  sourceVars, mirrorVars, rootVars, callVars
<1>q. QED  BY <1>1, <1>2, <1>3, <1>4 DEF TypeInv

LEMMA UploadTyped ==
  ASSUME TypeInv, NEW p \in Procs, AttemptInv(p), Upload(p)
  PROVE  TypeInv'
<1>1. SourceTyped'
  BY DEF TypeInv, SourceTyped, Upload, UploadFile, Frame, sourceVars,
       mirrorVars, rootVars, callVars
<1>2. MirrorTyped'
  BY DEF TypeInv, MirrorTyped, Upload, UploadFile, Frame, sourceVars,
       mirrorVars, rootVars, callVars
<1>3. RootTyped'
  BY PutTyped, UploadFacts DEF Upload, UploadFile, TypeInv, RootTyped
<1>4. CallTyped' /\ PcTyped'
  <2>1. CASE End(p)
    BY <2>1, EndTyped DEF TypeInv, CallTyped, PcTyped, Upload, UploadFile,
         Frame, sourceVars, mirrorVars, rootVars, callVars
  <2>2. CASE ~End(p)
    <3>1. at' \in [Procs -> Keys] /\ PcTyped'
      BY <2>2, CallFacts, ProceedTyped DEF Labels, Upload, UploadFile, Frame,
           sourceVars, mirrorVars, rootVars, callVars
    <3>2. copying' \in [Procs -> BOOLEAN]
      BY <2>2 DEF TypeInv, CallTyped, Upload, UploadFile, Frame, sourceVars,
           mirrorVars, rootVars, callVars
    <3>q. QED  BY <2>2, <3>1, <3>2 DEF TypeInv, CallTyped, Upload, UploadFile,
                    Frame, sourceVars, mirrorVars, rootVars, callVars
  <2>q. QED  BY <2>1, <2>2
<1>q. QED  BY <1>1, <1>2, <1>3, <1>4 DEF TypeInv

LEMMA CopyFailsTyped ==
  ASSUME TypeInv, NEW p \in Procs, AttemptInv(p), CopyFails(p)
  PROVE  TypeInv'
<1>1. SourceTyped'
  BY DEF TypeInv, SourceTyped, CopyFails, UploadFile, Frame, sourceVars,
       mirrorVars, rootVars, callVars
<1>2. MirrorTyped'
  BY DEF TypeInv, MirrorTyped, CopyFails, UploadFile, Frame, sourceVars,
       mirrorVars, rootVars, callVars
<1>3. RootTyped'
  BY PutTyped, UploadFacts DEF CopyFails, UploadFile, TypeInv, RootTyped
<1>4. CallTyped' /\ PcTyped'
  <2>1. CASE End(p)
    BY <2>1, EndTyped DEF TypeInv, CallTyped, PcTyped, CopyFails, UploadFile,
         Frame, sourceVars, mirrorVars, rootVars, callVars
  <2>2. CASE ~End(p)
    <3>1. at' \in [Procs -> Keys] /\ PcTyped'
      BY <2>2, CallFacts, ProceedTyped DEF Labels, CopyFails, UploadFile,
           Frame, sourceVars, mirrorVars, rootVars, callVars
    <3>2. copying' \in [Procs -> BOOLEAN]
      BY <2>2 DEF TypeInv, CallTyped, CopyFails, UploadFile, Frame,
           sourceVars, mirrorVars, rootVars, callVars
    <3>q. QED  BY <2>2, <3>1, <3>2 DEF TypeInv, CallTyped, CopyFails,
                    UploadFile, Frame, sourceVars, mirrorVars, rootVars,
                    callVars
  <2>q. QED  BY <2>1, <2>2
<1>q. QED  BY <1>1, <1>2, <1>3, <1>4 DEF TypeInv

LEMMA PutManifestTyped ==
  ASSUME TypeInv, NEW p \in Procs, AttemptInv(p), PutManifest(p)
  PROVE  TypeInv'
<1>1. SourceTyped'
  BY DEF TypeInv, SourceTyped, PutManifest, Frame, sourceVars, mirrorVars,
       rootVars, callVars
<1>2. MirrorTyped'
  BY DEF TypeInv, MirrorTyped, PutManifest, Frame, sourceVars, mirrorVars,
       rootVars, callVars
<1>3. RootTyped'
  BY DEF TypeInv, RootTyped, CallTyped, PutManifest, Frame, sourceVars,
       mirrorVars, rootVars, callVars
<1>4. CallTyped' /\ PcTyped'
  <2>1. round' \in [Procs -> 1 .. 3] /\ at' \in [Procs -> Keys] /\ PcTyped'
    BY AgainTyped DEF PutManifest, Frame, sourceVars, mirrorVars, rootVars,
         callVars
  <2>q. QED  BY <2>1 DEF TypeInv, CallTyped, PutManifest, Frame, sourceVars,
                  mirrorVars, rootVars, callVars
<1>q. QED  BY <1>1, <1>2, <1>3, <1>4 DEF TypeInv

LEMMA PutRefTyped ==
  ASSUME TypeInv, NEW p \in Procs, AttemptInv(p), PutRef(p)
  PROVE  TypeInv'
<1>1. SourceTyped'
  BY DEF TypeInv, SourceTyped, PutRef, Confirmed, Frame, sourceVars,
       mirrorVars, rootVars, callVars
<1>2. MirrorTyped'
  BY DEF TypeInv, MirrorTyped, PutRef, Confirmed, Frame, sourceVars,
       mirrorVars, rootVars, callVars
<1>3. RootTyped'
  <2>1. Target(p) \in Releases
    BY DEF TypeInv, CallTyped, Target, Releases
  <2>q. QED  BY <2>1 DEF TypeInv, RootTyped, PutRef
<1>4. CallTyped' /\ PcTyped'
  <2>0. Target(p) \in Releases
    BY DEF TypeInv, CallTyped, Target, Releases
  <2>1. conf' \in [Procs -> Releases \cup {NoConf}]
    BY <2>0 DEF TypeInv, CallTyped, PutRef, Confirmed, Frame, sourceVars,
         mirrorVars, rootVars, callVars
  <2>q. QED  BY <2>1, EndTyped DEF TypeInv, PcTyped, PutRef, Confirmed, Frame,
                  sourceVars, mirrorVars, rootVars, callVars
<1>q. QED  BY <1>1, <1>2, <1>3, <1>4 DEF TypeInv

LEMMA CrashTyped ==
  ASSUME TypeInv, NEW p \in Procs, AttemptInv(p), Crash(p)
  PROVE  TypeInv'
<1>1. SourceTyped'
  BY DEF TypeInv, SourceTyped, Crash, Mishap, Frame, sourceVars, mirrorVars,
       rootVars, callVars
<1>2. MirrorTyped'
  BY DEF TypeInv, MirrorTyped, Crash, Mishap, Frame, sourceVars, mirrorVars,
       rootVars, callVars
<1>3. RootTyped'
  BY DEF TypeInv, RootTyped, Crash, Mishap, Frame, sourceVars, mirrorVars,
       rootVars, callVars
<1>4. CallTyped' /\ PcTyped'
  <2>1. conf' \in [Procs -> Releases \cup {NoConf}] /\ mishaps' \in 0 .. MaxMishaps
    BY MirrorAssumption DEF TypeInv, CallTyped, PcTyped, Crash, Mishap, Frame,
         sourceVars, mirrorVars, rootVars, callVars
  <2>q. QED  BY <2>1, EndTyped DEF Crash, Mishap, Frame, sourceVars,
                  mirrorVars, rootVars, callVars
<1>q. QED  BY <1>1, <1>2, <1>3, <1>4 DEF TypeInv

(* The writes a deployment has in hand are enough for what it has begun.   *)

LEMMA PendingFacts ==
  ASSUME TypeInv
  PROVE  IsFiniteSet(Keys) /\ IsFiniteSet(pending) /\ Cardinality(pending) \in Nat
<1>1. IsFiniteSet(Keys)
  BY MirrorAssumption, FS_Interval DEF Keys
<1>q. QED  BY <1>1, FS_Subset, FS_CardinalityType DEF TypeInv, SourceTyped

LEMMA StartDeploymentTyped ==
  ASSUME TypeInv, StartDeployment
  PROVE  TypeInv'
<1>1. SourceTyped'
  <2>1. PICK S \in SUBSET Keys :
          Cardinality(S) <= writes /\ pending' = S /\ writes' = writes - Cardinality(S)
    BY DEF StartDeployment
  <2>2. Cardinality(S) \in Nat
    BY PendingFacts, FS_Subset, FS_CardinalityType
  <2>3. pending = {} /\ Cardinality(pending) = 0
    BY FS_EmptySet DEF TypeInv, SourceTyped, StartDeployment
  <2>4. /\ src' = src /\ mark' = mark /\ setup' = setup /\ deploying'
        /\ deploying' \in BOOLEAN /\ mark < MaxDeployments
    BY DEF StartDeployment, DeployFrame
  <2>5. writes \in Nat /\ MaxWrites \in Nat /\ writes <= MaxWrites
    BY MirrorAssumption DEF TypeInv, SourceTyped
  <2>6. ASSUME NEW k \in Keys
        PROVE  writes' + Cardinality(pending') + src'[k].sig <= MaxWrites
    <3>1. src[k].sig \in Nat /\ writes + 0 + src[k].sig <= MaxWrites
      BY <2>3, SourceFacts DEF TypeInv, SourceTyped, Signatures
    <3>q. QED  BY <2>1, <2>2, <2>4, <2>5, <3>1
  <2>7. writes' \in 0 .. MaxWrites
    BY <2>1, <2>2, <2>5
  <2>q. QED  BY <2>1, <2>4, <2>6, <2>7 DEF TypeInv, SourceTyped
<1>2. MirrorTyped' /\ RootTyped' /\ CallTyped' /\ PcTyped'
  BY DEF TypeInv, MirrorTyped, RootTyped, CallTyped, PcTyped, StartDeployment,
       DeployFrame, sourceVars, mirrorVars, rootVars, callVars
<1>q. QED  BY <1>1, <1>2 DEF TypeInv

LEMMA DeployObjectTyped ==
  ASSUME TypeInv, NEW k \in Keys, DeployObject(k)
  PROVE  TypeInv'
<1>1. SourceTyped'
  <2>1. PICK c \in Contents \cup {Absent} :
          src' = [src EXCEPT ![k] = [bytes |-> c, sig |-> src[k].sig + 1]]
    BY DEF DeployObject
  <2>2. /\ pending' = pending \ {k} /\ k \in pending
        /\ UNCHANGED <<setup, mark, writes, deploying>>
    BY DEF DeployObject, DeployFrame
  <2>3. /\ Cardinality(pending') = Cardinality(pending) - 1
        /\ Cardinality(pending) \in Nat /\ Cardinality(pending') \in Nat
    <3>1. IsFiniteSet(pending') /\ Cardinality(pending') = Cardinality(pending) - 1
      BY <2>2, PendingFacts, FS_RemoveElement
    <3>q. QED  BY <3>1, PendingFacts, FS_CardinalityType
  <2>4. \A l \in Keys : src'[l] = IF l = k THEN [bytes |-> c, sig |-> src[k].sig + 1] ELSE src[l]
    BY <2>1 DEF TypeInv, SourceTyped, Inventories
  <2>5. writes \in Nat /\ MaxWrites \in Nat
    BY MirrorAssumption DEF TypeInv, SourceTyped
  <2>6. ASSUME NEW l \in Keys
        PROVE  /\ writes' + Cardinality(pending') + src'[l].sig <= MaxWrites
               /\ src'[l].sig \in Nat /\ src'[l].sig <= MaxWrites
    <3>1. src[l].sig \in Nat /\ writes + Cardinality(pending) + src[l].sig <= MaxWrites
      BY SourceFacts DEF TypeInv, SourceTyped, Signatures
    <3>2. src'[l].sig = IF l = k THEN src[l].sig + 1 ELSE src[l].sig
      BY <2>4
    <3>3. src'[l].sig \in Nat /\ src'[l].sig <= src[l].sig + 1
      BY <3>1, <3>2
    <3>q. QED  BY <2>2, <2>3, <2>5, <3>1, <3>3
  <2>7. src' \in Inventories
    <3>1. \A l \in Keys : src'[l].sig \in Signatures
      BY <2>5, <2>6 DEF Signatures
    <3>2. \A l \in Keys : src'[l] \in Objects
      BY <2>4, <3>1, SourceFacts DEF Objects
    <3>q. QED  BY <2>1, <3>2 DEF TypeInv, SourceTyped, Inventories
  <2>q. QED  BY <2>2, <2>6, <2>7 DEF TypeInv, SourceTyped
<1>2. MirrorTyped' /\ RootTyped' /\ CallTyped' /\ PcTyped'
  BY DEF TypeInv, MirrorTyped, RootTyped, CallTyped, PcTyped, DeployObject,
       DeployFrame, sourceVars, mirrorVars, rootVars, callVars
<1>q. QED  BY <1>1, <1>2 DEF TypeInv

LEMMA FinishDeploymentTyped ==
  ASSUME TypeInv, FinishDeployment
  PROVE  TypeInv'
<1>1. SourceTyped'
  <2>1. mark \in Nat /\ MaxDeployments \in Nat /\ mark < MaxDeployments
    BY MirrorAssumption DEF TypeInv, SourceTyped, FinishDeployment, Markers
  <2>2. mark' \in Markers
    BY <2>1 DEF FinishDeployment, Markers
  <2>q. QED  BY <2>2 DEF TypeInv, SourceTyped, FinishDeployment, DeployFrame
<1>2. MirrorTyped' /\ RootTyped' /\ CallTyped' /\ PcTyped'
  BY DEF TypeInv, MirrorTyped, RootTyped, CallTyped, PcTyped,
       FinishDeployment, DeployFrame, sourceVars, mirrorVars, rootVars,
       callVars
<1>q. QED  BY <1>1, <1>2 DEF TypeInv

LEMMA PowerFailureTyped ==
  ASSUME TypeInv, PowerFailure
  PROVE  TypeInv'
<1>1. SourceTyped'
  BY DEF TypeInv, SourceTyped, PowerFailure, sourceVars
<1>2. MirrorTyped' /\ RootTyped' /\ CallTyped' /\ PcTyped'
  <2>1. MirrorTyped'
    <3>1. \A k \in Keys : mirror'[k] \in {mirror[k], [mirror[k] EXCEPT !.bytes = Garbage]}
      BY DEF PowerFailure
    <3>2. mirror' \in [Keys -> [bytes : Contents \cup {Absent, Garbage}, recorded : BOOLEAN]]
      BY <3>1 DEF TypeInv, MirrorTyped, PowerFailure
    <3>q. QED  BY <3>2 DEF TypeInv, MirrorTyped, PowerFailure
  <2>2. RootTyped'
    BY DEF TypeInv, RootTyped, PowerFailure, rootVars
  <2>3. CallTyped'
    BY NothingTyped, FirstOfAll DEF CallTyped, PowerFailure
  <2>4. PcTyped'
    BY MirrorAssumption DEF TypeInv, PcTyped, PowerFailure, Mishap, Labels
  <2>q. QED  BY <2>1, <2>2, <2>3, <2>4
<1>q. QED  BY <1>1, <1>2 DEF TypeInv

-----------------------------------------------------------------------------
(* Every action preserves AttemptInv and HistoryInv: of the processes that *)
(* have no attempt, ...                                                    *)

LEMMA IdleHolds ==
  ASSUME NEW q \in Procs, pc'[q] = "idle", at'[q] = 1, round'[q] = 1,
         obs'[q] = NothingObserved, hash'[q] = Blank
  PROVE  AttemptInv(q)' /\ HistoryInv(q)'
<1>1. Observed(q)' = {} /\ Hashed(q)' = {}
  BY DEF Observed, Exists, NothingObserved, NoObjects, Hashed
<1>2. Place(q)' /\ ObservedTruly(q)' /\ RecordsAgree(q)'
  BY <1>1 DEF Place, ObservedTruly, RecordsAgree
<1>3. HashesTrue(q)'
  BY <1>1 DEF HashesTrue, Blank
<1>4. UploadedTo(q)' /\ TransitionKept(q)'
  BY <1>1 DEF UploadedTo, TransitionKept
<1>5. FreshRemembered(q)' /\ ObservedDeployed(q)'
  BY DEF FreshRemembered, ObservedDeployed, MarkerSeen
<1>q. QED  BY <1>2, <1>3, <1>4, <1>5 DEF AttemptInv, HistoryInv

(* A step of one process leaves the others, which have no attempt.         *)
Alone(p) ==
  \A q \in Procs \ {p} :
    /\ pc[q] = "idle" /\ pc'[q] = pc[q] /\ at'[q] = at[q]
    /\ round'[q] = round[q] /\ obs'[q] = obs[q] /\ hash'[q] = hash[q]

LEMMA EndAlone ==
  ASSUME TypeInv, NEW p \in Procs, pc[p] # "idle", End(p)
  PROVE  Alone(p)
BY DEF TypeInv, PcTyped, CallTyped, End, Goto, Alone

LEMMA AgainAlone ==
  ASSUME TypeInv, NEW p \in Procs, NEW n, pc[p] # "idle", ObserveAgain(p, n),
         UNCHANGED <<obs, hash>>
  PROVE  Alone(p)
BY DEF TypeInv, PcTyped, CallTyped, ObserveAgain, Goto, Alone

LEMMA BeginAlone ==
  ASSUME TypeInv, NEW p \in Procs, Begin(p)
  PROVE  Alone(p)
<1>1. \A q \in Procs : pc[q] = "idle"
  BY MirrorAssumption DEF TypeInv, PcTyped, Begin
<1>q. QED  BY <1>1 DEF TypeInv, PcTyped, Alone, Goto, Begin, BeginWithLock,
                Frame, sourceVars, mirrorVars, rootVars, callVars

LEMMA MarkerBeforeAlone ==
  ASSUME TypeInv, NEW p \in Procs, MarkerBefore(p)
  PROVE  Alone(p)
<1>1. CASE End(p)
  BY <1>1, EndAlone DEF MarkerBefore, Frame, sourceVars, mirrorVars, rootVars,
       callVars
<1>2. CASE ~End(p)
  BY <1>2 DEF TypeInv, PcTyped, CallTyped, Alone, Goto, ObserveAgain,
       MarkerBefore, Frame, sourceVars, mirrorVars, rootVars, callVars
<1>q. QED  BY <1>1, <1>2

LEMMA ListObjectAlone ==
  ASSUME TypeInv, NEW p \in Procs, ListObject(p)
  PROVE  Alone(p)
<1>1. CASE End(p)
  BY <1>1, EndAlone DEF ListObject, Frame, sourceVars, mirrorVars, rootVars,
       callVars
<1>2. CASE ~End(p)
  <2>1. /\ Proceed(p, Keys, IF setup.marker THEN "markerAfter" ELSE AfterRound(p))
        /\ Keys \in SUBSET Keys /\ pc[p] = "list" /\ round' = round
        /\ hash' = hash /\ \A q \in Procs \ {p} : obs'[q] = obs[q]
    BY <1>2, CallFacts DEF TypeInv, CallTyped, ListObject, Frame, sourceVars,
         mirrorVars, rootVars, callVars
  <2>2. /\ \E g : at' = [at EXCEPT ![p] = g]
        /\ \E l : pc' = [pc EXCEPT ![p] = l]
    BY <2>1 DEF Proceed, Goto, TypeInv, PcTyped
  <2>q. QED  BY <2>1, <2>2 DEF TypeInv, PcTyped, CallTyped, Alone
<1>q. QED  BY <1>1, <1>2

LEMMA MarkerAfterAlone ==
  ASSUME TypeInv, NEW p \in Procs, MarkerAfter(p)
  PROVE  Alone(p)
<1>1. CASE End(p)
  BY <1>1, EndAlone DEF MarkerAfter, Frame, sourceVars, mirrorVars, rootVars,
       callVars
<1>2. CASE ~End(p)
  BY <1>2 DEF TypeInv, PcTyped, CallTyped, Alone, Goto, ObserveAgain,
       MarkerAfter, Frame, sourceVars, mirrorVars, rootVars, callVars
<1>q. QED  BY <1>1, <1>2

LEMMA PrepareMirrorAlone ==
  ASSUME TypeInv, NEW p \in Procs, PrepareMirror(p)
  PROVE  Alone(p)
<1>1. CASE ObserveAgain(p, 2)
  BY <1>1, AgainAlone DEF PrepareMirror, Frame, sourceVars, mirrorVars,
       rootVars, callVars
<1>2. CASE ~ObserveAgain(p, 2)
  BY <1>2 DEF TypeInv, PcTyped, CallTyped, Alone, Goto, PrepareMirror, Frame,
       sourceVars, mirrorVars, rootVars, callVars
<1>q. QED  BY <1>1, <1>2

LEMMA ReuseFileAlone ==
  ASSUME TypeInv, NEW p \in Procs, ReuseFile(p)
  PROVE  Alone(p)
<1>1. CASE End(p)
  BY <1>1, EndAlone DEF ReuseFile, Frame, sourceVars, mirrorVars, rootVars,
       callVars
<1>2. CASE ~End(p)
  <2>1. NextFile(p) /\ pc[p] = "file" /\ obs' = obs
        /\ \E x : hash' = [hash EXCEPT ![p][at[p]] = x]
    BY <1>2 DEF ReuseFile, Frame, sourceVars, mirrorVars, rootVars, callVars
  <2>2. CASE ObserveAgain(p, 2)
    BY <2>1, <2>2 DEF TypeInv, PcTyped, CallTyped, Alone, Goto, ObserveAgain
  <2>3. CASE ~ObserveAgain(p, 2)
    <3>1. /\ round' = round /\ \E g : at' = [at EXCEPT ![p] = g]
          /\ pc' = pc \/ pc' = [pc EXCEPT ![p] = "writeState"]
      BY <2>1, <2>3, NextFileFacts
    <3>q. QED  BY <2>1, <3>1 DEF TypeInv, PcTyped, CallTyped, Alone
  <2>q. QED  BY <2>2, <2>3
<1>q. QED  BY <1>1, <1>2

LEMMA DownloadAlone ==
  ASSUME TypeInv, NEW p \in Procs, Download(p)
  PROVE  Alone(p)
<1>1. CASE End(p)
  BY <1>1, EndAlone DEF Download, Frame, sourceVars, mirrorVars, rootVars,
       callVars
<1>2. CASE ~End(p)
  <2>1. NextFile(p) /\ pc[p] = "file" /\ obs' = obs
        /\ \E x : hash' = [hash EXCEPT ![p][at[p]] = x]
    BY <1>2 DEF Download, Frame, sourceVars, mirrorVars, rootVars, callVars
  <2>2. CASE ObserveAgain(p, 2)
    BY <2>1, <2>2 DEF TypeInv, PcTyped, CallTyped, Alone, Goto, ObserveAgain
  <2>3. CASE ~ObserveAgain(p, 2)
    <3>1. /\ round' = round /\ \E g : at' = [at EXCEPT ![p] = g]
          /\ pc' = pc \/ pc' = [pc EXCEPT ![p] = "writeState"]
      BY <2>1, <2>3, NextFileFacts
    <3>q. QED  BY <2>1, <3>1 DEF TypeInv, PcTyped, CallTyped, Alone
  <2>q. QED  BY <2>2, <2>3
<1>q. QED  BY <1>1, <1>2

LEMMA WriteStateAlone ==
  ASSUME TypeInv, NEW p \in Procs, WriteState(p)
  PROVE  Alone(p)
BY DEF TypeInv, PcTyped, CallTyped, Alone, Goto, WriteState, Frame,
     sourceVars, mirrorVars, rootVars, callVars

LEMMA DecideAlone ==
  ASSUME TypeInv, NEW p \in Procs, Decide(p)
  PROVE  Alone(p)
<1>1. CASE End(p)
  BY <1>1, EndAlone DEF Decide, Confirmed, Frame, sourceVars, mirrorVars,
       rootVars, callVars
<1>2. CASE ~End(p)
  BY <1>2 DEF TypeInv, PcTyped, CallTyped, Alone, Goto, ObserveAgain, Decide,
       Confirmed, Frame, sourceVars, mirrorVars, rootVars, callVars
<1>q. QED  BY <1>1, <1>2

LEMMA ServerSideCopyAlone ==
  ASSUME TypeInv, NEW p \in Procs, ServerSideCopy(p)
  PROVE  Alone(p)
<1>1. CASE End(p)
  BY <1>1, EndAlone DEF ServerSideCopy, Frame, sourceVars, mirrorVars,
       rootVars, callVars
<1>2. CASE ~End(p)
  <2>1. /\ Proceed(p, Observed(p), "manifest")
        /\ Observed(p) \in SUBSET Keys /\ pc[p] = "upload" /\ round' = round
        /\ hash' = hash /\ \A q \in Procs \ {p} : obs'[q] = obs[q]
    BY <1>2, CallFacts DEF TypeInv, CallTyped, ServerSideCopy, Frame,
         sourceVars, mirrorVars, rootVars, callVars
  <2>2. /\ \E g : at' = [at EXCEPT ![p] = g]
        /\ \E l : pc' = [pc EXCEPT ![p] = l]
    BY <2>1 DEF Proceed, Goto, TypeInv, PcTyped
  <2>q. QED  BY <2>1, <2>2 DEF TypeInv, PcTyped, CallTyped, Alone
<1>q. QED  BY <1>1, <1>2

LEMMA UploadAlone ==
  ASSUME TypeInv, NEW p \in Procs, Upload(p)
  PROVE  Alone(p)
<1>1. CASE End(p)
  BY <1>1, EndAlone DEF Upload, UploadFile, Frame, sourceVars, mirrorVars,
       rootVars, callVars
<1>2. CASE ~End(p)
  <2>1. /\ Proceed(p, Observed(p), "manifest")
        /\ Observed(p) \in SUBSET Keys /\ pc[p] = "upload" /\ round' = round
        /\ hash' = hash /\ \A q \in Procs \ {p} : obs'[q] = obs[q]
    BY <1>2, CallFacts DEF TypeInv, CallTyped, Upload, UploadFile, Frame,
         sourceVars, mirrorVars, rootVars, callVars
  <2>2. /\ \E g : at' = [at EXCEPT ![p] = g]
        /\ \E l : pc' = [pc EXCEPT ![p] = l]
    BY <2>1 DEF Proceed, Goto, TypeInv, PcTyped
  <2>q. QED  BY <2>1, <2>2 DEF TypeInv, PcTyped, CallTyped, Alone
<1>q. QED  BY <1>1, <1>2

LEMMA CopyFailsAlone ==
  ASSUME TypeInv, NEW p \in Procs, CopyFails(p)
  PROVE  Alone(p)
<1>1. CASE End(p)
  BY <1>1, EndAlone DEF CopyFails, UploadFile, Frame, sourceVars, mirrorVars,
       rootVars, callVars
<1>2. CASE ~End(p)
  <2>1. /\ Proceed(p, Observed(p), "manifest")
        /\ Observed(p) \in SUBSET Keys /\ pc[p] = "upload" /\ round' = round
        /\ hash' = hash /\ \A q \in Procs \ {p} : obs'[q] = obs[q]
    BY <1>2, CallFacts DEF TypeInv, CallTyped, CopyFails, UploadFile, Frame,
         sourceVars, mirrorVars, rootVars, callVars
  <2>2. /\ \E g : at' = [at EXCEPT ![p] = g]
        /\ \E l : pc' = [pc EXCEPT ![p] = l]
    BY <2>1 DEF Proceed, Goto, TypeInv, PcTyped
  <2>q. QED  BY <2>1, <2>2 DEF TypeInv, PcTyped, CallTyped, Alone
<1>q. QED  BY <1>1, <1>2

LEMMA PutManifestAlone ==
  ASSUME TypeInv, NEW p \in Procs, PutManifest(p)
  PROVE  Alone(p)
BY AgainAlone DEF PutManifest, Frame, sourceVars, mirrorVars, rootVars,
     callVars

LEMMA PutRefAlone ==
  ASSUME TypeInv, NEW p \in Procs, PutRef(p)
  PROVE  Alone(p)
BY EndAlone DEF PutRef, Confirmed, Frame, sourceVars, mirrorVars, rootVars,
     callVars

LEMMA CrashAlone ==
  ASSUME TypeInv, NEW p \in Procs, Crash(p)
  PROVE  Alone(p)
BY EndAlone DEF Crash, Mishap, Frame, sourceVars, mirrorVars, rootVars,
     callVars

LEMMA AttemptAlone ==
  ASSUME TypeInv, NEW p \in Procs, Attempt(p) \/ Crash(p)
  PROVE  Alone(p)
BY BeginAlone, MarkerBeforeAlone, ListObjectAlone, MarkerAfterAlone,
     PrepareMirrorAlone, ReuseFileAlone, DownloadAlone, WriteStateAlone,
     DecideAlone, ServerSideCopyAlone, UploadAlone, CopyFailsAlone,
     PutManifestAlone, PutRefAlone, CrashAlone DEF Attempt, Observe,
     Synchronize, Publish

LEMMA OthersHold ==
  ASSUME NEW p \in Procs, Alone(p), NEW q \in Procs \ {p}, AttemptInv(q)
  PROVE  AttemptInv(q)' /\ HistoryInv(q)'
<1>1. /\ pc[q] = "idle" /\ pc'[q] = pc[q] /\ at'[q] = at[q]
      /\ round'[q] = round[q] /\ obs'[q] = obs[q] /\ hash'[q] = hash[q]
  BY DEF Alone
<1>2. at[q] = 1 /\ round[q] = 1 /\ obs[q] = NothingObserved /\ hash[q] = Blank
  BY <1>1 DEF AttemptInv, Place
<1>q. QED  BY <1>1, <1>2, IdleHolds

(* ... and of the one that takes the step.                                 *)

LEMMA EndHolds ==
  ASSUME TypeInv, NEW p \in Procs, End(p)
  PROVE  AttemptInv(p)' /\ HistoryInv(p)'
BY IdleHolds DEF TypeInv, PcTyped, CallTyped, End, Goto

LEMMA QuietHistory ==
  ASSUME HistTyped, Remember, UNCHANGED sourceVars
  PROVE  deployed' = deployed /\ hasty' = hasty
BY DEF HistTyped, Remember, sourceVars

LEMMA FreshGrows ==
  ASSUME Remember, NEW p \in Procs, pc'[p] # "idle", round'[p] = 3
  PROVE  fresh'[p] = fresh[p] \cup {Bytes(src')}
BY DEF Remember

(* The third observation begins: the source is what was observed, as far as *)
(* the signatures agree.                                                   *)

LEMMA ThirdBegins ==
  ASSUME TypeInv, NEW p \in Procs, ObservedTruly(p), Remember, src' = src,
         obs'[p] = obs[p],
         at'[p] = 1, round'[p] = 3, pc'[p] \in {"markerBefore", "list"}
  PROVE  FreshRemembered(p)'
<1>1. Bytes(src) \in fresh'[p]
  BY FreshGrows
<1>2. \A k \in Keys : ~Third(p, k)'
  BY FirstOfAll DEF Third, Passed
<1>3. Observed(p)' = Observed(p) /\ Observed(p) \in SUBSET Keys
  BY CallFacts DEF Observed
<1>4. \A k \in Observed(p) :
        src[k].sig = obs[p].entries[k].sig => Bytes(src)[k] = obs[p].entries[k].bytes
  BY <1>3 DEF ObservedTruly, TrueOf, Bytes
<1>5. SourceOfThird(p, Bytes(src))'
  BY <1>2, <1>3, <1>4 DEF SourceOfThird, Bytes
<1>q. QED  BY <1>1, <1>2, <1>5 DEF FreshRemembered

(* Nothing the markers' invariant of an attempt is about has moved.        *)

LEMMA DeployedKept ==
  ASSUME HistTyped, Remember, NEW p \in Procs, MarkerSeen(p),
         ObservedDeployed(p),
         UNCHANGED <<setup, sourceVars>>, ref' = ref, obs'[p] = obs[p],
         \A k \in Keys : round'[p] # 1 \/ Passed(p, k)' => round[p] # 1 \/ Passed(p, k)
  PROVE  ObservedDeployed(p)'
<1>1. hasty' = hasty
  BY QuietHistory
<1>2. ReleasedMarker' = ReleasedMarker
  BY DEF ReleasedMarker
<1>q. QED  BY <1>1, <1>2 DEF ObservedDeployed, sourceVars

LEMMA BeginHolds ==
  ASSUME TypeInv, HistTyped, StoreInv, MarkersKept, Remember, NEW p \in Procs,
         AttemptInv(p), HistoryInv(p), Begin(p)
  PROVE  AttemptInv(p)' /\ HistoryInv(p)'
<1>1. /\ pc'[p] \in {"markerBefore", "list"} /\ (setup.marker <=> pc'[p] = "markerBefore")
      /\ at'[p] = 1 /\ round'[p] = 1 /\ obs'[p] = NothingObserved /\ hash'[p] = Blank
      /\ setup' = setup
  BY DEF AttemptInv, Place, TypeInv, PcTyped, Goto, Begin, BeginWithLock,
       callVars, Frame
<1>2. Observed(p)' = {} /\ Hashed(p)' = {}
  BY <1>1 DEF Observed, Exists, NothingObserved, NoObjects, Hashed
<1>3. Place(p)'
  BY <1>1 DEF Place
<1>4. ObservedTruly(p)'
  BY <1>2 DEF ObservedTruly
<1>5. RecordsAgree(p)'
  BY <1>2 DEF RecordsAgree
<1>6. HashesTrue(p)'
  BY <1>1, <1>2 DEF HashesTrue, Blank
<1>7. UploadedTo(p)'
  BY <1>2 DEF UploadedTo
<1>8. TransitionKept(p)'
  BY <1>1 DEF TransitionKept
<1>9. FreshRemembered(p)'
  BY <1>1 DEF FreshRemembered
<1>10. ObservedDeployed(p)'
  BY <1>1 DEF ObservedDeployed, MarkerSeen
<1>q. QED  BY <1>3, <1>4, <1>5, <1>6, <1>7, <1>8, <1>9, <1>10 DEF AttemptInv,
                HistoryInv

LEMMA MarkerBeforeHolds ==
  ASSUME TypeInv, HistTyped, StoreInv, MarkersKept, Remember, NEW p \in Procs,
         AttemptInv(p), HistoryInv(p), MarkerBefore(p)
  PROVE  AttemptInv(p)' /\ HistoryInv(p)'
<1>1. CASE End(p)
  BY <1>1, EndHolds
<1>2. CASE ~End(p)
  <2>1. /\ pc[p] = "markerBefore" /\ at[p] = 1 /\ mark # 0 /\ setup.marker
        /\ pc'[p] = "list" /\ at'[p] = 1 /\ round'[p] = round[p] /\ hash'[p] = hash[p]
        /\ changed'[p] = changed[p] /\ obs'[p].entries = obs[p].entries /\ obs'[p].marker = mark
        /\ UNCHANGED <<setup, sourceVars, state, objects, ref>>
        /\ round[p] # 1 => obs[p].marker = mark /\ obs'[p] = obs[p]
    <3>1. /\ pc[p] = "markerBefore" /\ mark # 0
          /\ obs' = [obs EXCEPT ![p] = [obs[p] EXCEPT !.marker = mark]]
          /\ UNCHANGED <<at, round, hash, changed>> /\ pc' = [pc EXCEPT ![p] = "list"]
      BY <1>2 DEF Goto, MarkerBefore
    <3>4. round[p] # 1 => obs[p].marker = mark
      <4>1. ~(round[p] > 1 /\ mark # obs[p].marker)
        BY <1>2 DEF MarkerBefore
      <4>2. round[p] \in {1, 2, 3}
        BY CallFacts
      <4>q. QED  BY <4>1, <4>2
    <3>9. UNCHANGED <<setup, sourceVars, state, objects, ref>> /\ pc'[p] = "list"
      BY <3>1 DEF MarkerBefore, Frame, mirrorVars, rootVars, TypeInv, PcTyped
    <3>2. at[p] = 1 /\ setup.marker
      BY <3>1 DEF AttemptInv, Place
    <3>3. obs'[p] = [entries |-> obs[p].entries, marker |-> mark]
      BY <3>1, CallFacts DEF TypeInv, CallTyped, Observations
    <3>q. QED  BY <3>9, <3>1, <3>2, <3>3, <3>4, CallFacts
  <2>2. Observed(p)' = Observed(p) /\ Observed(p) \in SUBSET Keys
         /\ \A k \in Keys : ~Passed(p, k) /\ ~Passed(p, k)'
    BY <2>1, CallFacts, FirstOfAll DEF Observed, Passed
  <2>3. src' = src /\ mark' = mark /\ deploying' = deploying
    BY <2>1 DEF sourceVars
  <2>4. Place(p)'
    BY <2>1, CallFacts DEF Place
  <2>5. ObservedTruly(p)'
    BY <2>1, <2>2, <2>3 DEF ObservedTruly, AttemptInv
  <2>6. RecordsAgree(p)'
    BY <2>1, <2>2 DEF RecordsAgree, AttemptInv
  <2>7. HashesTrue(p)'
    <3>1. Hashed(p)' = Hashed(p)
      BY <2>1, <2>2 DEF Hashed
    <3>2. \A k \in Keys : Verified(p, k)' <=> Verified(p, k)
      BY <2>1, <2>2 DEF Verified, Publishing
    <3>q. QED  BY <2>1, <2>3, <3>1, <3>2 DEF HashesTrue, AttemptInv
  <2>8. UploadedTo(p)'
    BY <2>1 DEF UploadedTo
  <2>9. TransitionKept(p)'
    BY <2>1 DEF TransitionKept, ValidTransition, AttemptInv
  <2>10. FreshRemembered(p)'
    <3>1. CASE round[p] = 3
      <4>1. fresh[p] \subseteq fresh'[p]
        BY <2>1, <3>1, FreshGrows
      <4>2. PICK s \in fresh[p] : SourceOfThird(p, s)
        BY <3>1 DEF FreshRemembered, HistoryInv
      <4>3. SourceOfThird(p, s)'
        BY <2>1, <2>2, <2>3, <4>2 DEF SourceOfThird, Third
      <4>q. QED  BY <2>2, <4>1, <4>2, <4>3 DEF FreshRemembered, Third
    <3>2. CASE round[p] # 3
      BY <2>1, <3>2 DEF FreshRemembered
    <3>q. QED  BY <3>1, <3>2
  <2>11. ObservedDeployed(p)'
    <3>1. ReleasedMarker' = ReleasedMarker /\ hasty' = hasty
      BY <2>1, QuietHistory DEF ReleasedMarker
    <3>2. ReleasedMarker <= mark
      BY <2>1 DEF MarkersKept
    <3>3. mark \in Nat
      BY DEF TypeInv, SourceTyped, Markers
    <3>4. CASE round[p] = 1
      BY <2>1, <2>2, <2>3, <3>1, <3>2, <3>3, <3>4 DEF ObservedDeployed
    <3>5. CASE round[p] # 1
      BY <2>1, <2>2, <2>3, <3>1, <3>2, <3>3, <3>5 DEF ObservedDeployed,
           MarkerSeen, HistoryInv
    <3>q. QED  BY <3>4, <3>5
  <2>q. QED  BY <2>4, <2>5, <2>6, <2>7, <2>8, <2>9, <2>10, <2>11 DEF
                  AttemptInv, HistoryInv
<1>q. QED  BY <1>1, <1>2

(* What a listing does with the object it is at.                           *)

LEMMA ListFacts ==
  ASSUME TypeInv, NEW p \in Procs, AttemptInv(p), ListObject(p), ~End(p)
  PROVE  /\ pc[p] = "list" /\ round'[p] = round[p] /\ hash'[p] = hash[p]
         /\ changed'[p] = changed[p] /\ obs'[p].marker = obs[p].marker
         /\ pc'[p] \in {"list", "markerAfter", "mirror", "writeState", "putRef"}
         /\ pc'[p] = "markerAfter" => setup.marker
         /\ pc'[p] = "mirror" => round[p] = 1
         /\ pc'[p] = "writeState" => round[p] = 2
         /\ pc'[p] = "putRef" => round[p] = 3
         /\ UNCHANGED <<setup, sourceVars, state, objects, ref>>
         /\ \A k \in Keys : Passed(p, k)' <=> Passed(p, k) \/ k = at[p]
         /\ \A k \in Keys \ {at[p]} : obs'[p].entries[k] = obs[p].entries[k]
         /\ round[p] # 1 => obs'[p] = obs[p] /\ SameObject(p)
         /\ round[p] = 1 => obs'[p].entries[at[p]] =
                              IF Here(p).bytes # Absent THEN Here(p) ELSE Entry(p)
         /\ round[p] = 1 => at[p] \notin Observed(p)
<1> DEFINE lbl == IF setup.marker THEN "markerAfter" ELSE AfterRound(p)
<1>1. pc[p] = "list" /\ Proceed(p, Keys, lbl) /\ UNCHANGED <<round, hash, changed>>
  BY DEF ListObject
<1>2. UNCHANGED <<setup, sourceVars, state, objects, ref>>
  BY DEF ListObject, Frame, mirrorVars, rootVars
<1>3. round[p] # 1 => SameObject(p)
  <2>1. ~(round[p] > 1 /\ ~SameObject(p))
    BY DEF ListObject
  <2>2. round[p] \in {1, 2, 3}
    BY CallFacts
  <2>q. QED  BY <2>1, <2>2
<1>4. lbl \in {"markerAfter", "mirror", "writeState", "putRef"}
      /\ (lbl = "markerAfter" => setup.marker) /\ (lbl = "mirror" => round[p] = 1)
      /\ (lbl = "writeState" => round[p] = 2) /\ (lbl = "putRef" => round[p] = 3)
  BY CallFacts DEF AfterRound
<1> HIDE DEF lbl
<1>5. \/ \E g \in Keys : /\ at' = [at EXCEPT ![p] = g] /\ pc' = pc
                        /\ \A h \in Keys : h < g <=> h <= at[p]
      \/ /\ at' = [at EXCEPT ![p] = 1] /\ pc' = [pc EXCEPT ![p] = lbl]
         /\ \A h \in Keys : h <= at[p]
  BY <1>1, ProceedFacts
<1>6. pc'[p] \in {"list", lbl}
  BY <1>1, <1>5 DEF TypeInv, PcTyped
<1>7. \A k \in Keys : Passed(p, k)' <=> Passed(p, k) \/ k = at[p]
  <2>1. at[p] \in Nat /\ \A k \in Keys : k \in Nat
    <3>1. at[p] \in Keys
      BY CallFacts
    <3>q. QED  BY <3>1 DEF Keys
  <2>2. ASSUME NEW g \in Keys, at' = [at EXCEPT ![p] = g], pc' = pc,
               \A h \in Keys : h < g <=> h <= at[p]
        PROVE  \A k \in Keys : Passed(p, k)' <=> Passed(p, k) \/ k = at[p]
    <3>1. at'[p] = g /\ pc'[p] = "list"
      BY <1>1, <2>2 DEF TypeInv, CallTyped
    <3>q. QED  BY <1>1, <2>1, <2>2, <3>1 DEF Passed
  <2>3. ASSUME pc' = [pc EXCEPT ![p] = lbl], \A h \in Keys : h <= at[p]
        PROVE  \A k \in Keys : Passed(p, k)' <=> Passed(p, k) \/ k = at[p]
    <3>1. pc'[p] \in {"markerAfter", "mirror", "writeState", "putRef"}
      BY <1>4, <2>3 DEF TypeInv, PcTyped
    <3>q. QED  BY <1>1, <2>1, <2>3, <3>1 DEF Passed
  <2>q. QED  BY <1>5, <2>2, <2>3
<1>8. obs' = IF round[p] = 1 /\ Here(p).bytes # Absent
             THEN [obs EXCEPT ![p].entries[at[p]] = Here(p)] ELSE obs
  BY DEF ListObject
<1>9. /\ obs'[p].marker = obs[p].marker
      /\ \A k \in Keys \ {at[p]} : obs'[p].entries[k] = obs[p].entries[k]
      /\ round[p] # 1 => obs'[p] = obs[p]
      /\ round[p] = 1 => obs'[p].entries[at[p]] =
                           IF Here(p).bytes # Absent THEN Here(p) ELSE Entry(p)
  <2>1. obs \in [Procs -> Observations] /\ at[p] \in Keys
    BY DEF TypeInv, CallTyped
  <2>2. CASE round[p] = 1 /\ Here(p).bytes # Absent
    <3>1. obs'[p] = [obs[p] EXCEPT !.entries = [obs[p].entries EXCEPT ![at[p]] = Here(p)]]
      BY <1>8, <2>1, <2>2
    <3>2. /\ obs'[p].marker = obs[p].marker
          /\ obs'[p].entries = [obs[p].entries EXCEPT ![at[p]] = Here(p)]
      BY <2>1, <3>1 DEF Observations
    <3>q. QED  BY <2>1, <2>2, <3>2, CallFacts DEF Inventories
  <2>3. CASE ~(round[p] = 1 /\ Here(p).bytes # Absent)
    BY <1>8, <2>3 DEF Entry
  <2>q. QED  BY <2>2, <2>3
<1>10. round[p] = 1 => at[p] \notin Observed(p)
  <2>1. ~Passed(p, at[p]) /\ at[p] \in Keys
    <3>1. at[p] \in Keys
      BY CallFacts
    <3>2. ~(at[p] < at[p])
      BY <3>1 DEF Keys
    <3>q. QED  BY <1>1, <3>1, <3>2 DEF Passed
  <2>q. QED  BY <2>1 DEF AttemptInv, ObservedTruly
<1>11. /\ round'[p] = round[p] /\ hash'[p] = hash[p] /\ changed'[p] = changed[p]
  BY <1>1
<1>12. /\ pc'[p] \in {"list", "markerAfter", "mirror", "writeState", "putRef"}
       /\ pc'[p] = "markerAfter" => setup.marker
       /\ pc'[p] = "mirror" => round[p] = 1
       /\ pc'[p] = "writeState" => round[p] = 2
       /\ pc'[p] = "putRef" => round[p] = 3
  BY <1>4, <1>6
<1>q. QED  BY <1>1, <1>2, <1>3, <1>7, <1>9, <1>10, <1>11, <1>12

LEMMA ListObjectHolds ==
  ASSUME TypeInv, HistTyped, StoreInv, MarkersKept, Remember, NEW p \in Procs,
         AttemptInv(p), HistoryInv(p), ListObject(p)
  PROVE  AttemptInv(p)' /\ HistoryInv(p)'
<1>1. CASE End(p)
  BY <1>1, EndHolds
<1>2. CASE ~End(p)
  <2>1. /\ pc[p] = "list" /\ round'[p] = round[p] /\ hash'[p] = hash[p]
        /\ changed'[p] = changed[p] /\ obs'[p].marker = obs[p].marker
        /\ pc'[p] \in {"list", "markerAfter", "mirror", "writeState", "putRef"}
        /\ pc'[p] = "markerAfter" => setup.marker
        /\ pc'[p] = "mirror" => round[p] = 1
        /\ pc'[p] = "writeState" => round[p] = 2
        /\ pc'[p] = "putRef" => round[p] = 3
        /\ UNCHANGED <<setup, sourceVars, state, objects, ref>>
    BY <1>2, ListFacts
  <2>2. /\ \A k \in Keys : Passed(p, k)' <=> Passed(p, k) \/ k = at[p]
        /\ \A k \in Keys \ {at[p]} : obs'[p].entries[k] = obs[p].entries[k]
        /\ round[p] # 1 => obs'[p] = obs[p] /\ SameObject(p)
        /\ round[p] = 1 => obs'[p].entries[at[p]] =
                             IF Here(p).bytes # Absent THEN Here(p) ELSE Entry(p)
        /\ round[p] = 1 => at[p] \notin Observed(p)
    BY <1>2, ListFacts
  <2>3. src' = src /\ mark' = mark /\ state' = state /\ setup' = setup /\ ref' = ref
    BY <2>1 DEF sourceVars
  <2>4. at[p] \in Keys /\ Observed(p) \in SUBSET Keys /\ src \in Inventories /\ obs[p].entries \in Inventories
    BY CallFacts DEF TypeInv, SourceTyped
  <2>5. /\ Observed(p)' \in SUBSET Keys
        /\ \A k \in Observed(p)' : \/ obs'[p].entries[k] = obs[p].entries[k] /\ k \in Observed(p)
                                   \/ k = at[p] /\ round[p] = 1 /\ obs'[p].entries[k] = src[k]
    BY <2>2, <2>4 DEF Observed, Exists, Here, Entry
  <2>6. round[p] # 1 => Observed(p)' = Observed(p)
    BY <2>2 DEF Observed
  <2>7. Place(p)'
    BY <2>1 DEF Place
  <2>8. ObservedTruly(p)'
    <3>1. \A k \in Observed(p)' : TrueOf(obs'[p].entries[k], src[k])
      <4>1. \A k \in Keys : src[k].sig \in Nat
        BY SourceFacts DEF Signatures
      <4>q. QED  BY <2>4, <2>5, <4>1 DEF ObservedTruly, AttemptInv, TrueOf
    <3>2. ASSUME NEW k \in Keys, round'[p] = 1, ~Passed(p, k)'
          PROVE  k \notin Observed(p)'
      <4>1. ~Passed(p, k) /\ k # at[p] /\ round[p] = 1
        BY <2>1, <2>2, <3>2
      <4>2. k \notin Observed(p)
        BY <4>1 DEF ObservedTruly, AttemptInv
      <4>q. QED  BY <2>5, <4>1, <4>2
    <3>q. QED  BY <2>3, <3>1, <3>2 DEF ObservedTruly
  <2>9. RecordsAgree(p)'
    <3>1. ASSUME NEW k \in Observed(p)', state # NoState, state[k] # Absent,
                 state[k].sig = obs'[p].entries[k].sig
          PROVE  state[k].bytes = obs'[p].entries[k].bytes
      <4>1. CASE obs'[p].entries[k] = obs[p].entries[k] /\ k \in Observed(p)
        BY <3>1, <4>1 DEF RecordsAgree, AttemptInv
      <4>2. CASE obs'[p].entries[k] = src[k]
        BY <2>5, <3>1, <4>2 DEF StoreInv, RecordedTruly, TrueOf
      <4>q. QED  BY <2>5, <4>1, <4>2
    <3>q. QED  BY <2>3, <3>1 DEF RecordsAgree
  <2>10. HashesTrue(p)'
    <3>1. CASE round[p] = 1
      <4>1. Hashed(p) = {} /\ Hashed(p)' = {}
        BY <2>1, <3>1 DEF Hashed
      <4>q. QED  BY <2>1, <4>1 DEF HashesTrue, AttemptInv
    <3>2. CASE round[p] # 1
      <4>1. Hashed(p)' = Hashed(p) /\ Hashed(p) \in SUBSET Observed(p)
        BY <2>1, <2>6, <3>2 DEF Hashed
      <4>2. ASSUME NEW k \in Hashed(p), ~Verified(p, k), Verified(p, k)'
            PROVE  src[k].sig = obs[p].entries[k].sig
        <5>1. Passed(p, k)' /\ ~Passed(p, k) /\ k \in Keys
          <6>1. k \in Keys /\ round[p] = 2 /\ ~Passed(p, k)
            BY <2>1, <2>4, <3>2, <4>1, <4>2, CallFacts DEF Verified,
                 Publishing
          <6>2. pc'[p] = "writeState" => Passed(p, k)'
            BY DEF Passed
          <6>q. QED  BY <2>1, <4>2, <6>1, <6>2 DEF Verified, Publishing
        <5>2. k = at[p] /\ Sigs(src)[k] = Sigs(obs[p].entries)[k]
          BY <2>2, <3>2, <5>1 DEF SameObject, ListedAs
        <5>3. obs[p].entries[k].bytes # Absent
          BY <4>1 DEF Observed, Exists
        <5>q. QED  BY <2>4, <5>1, <5>2, <5>3, SigsFacts
      <4>q. QED  BY <2>1, <2>2, <2>3, <3>2, <4>1, <4>2 DEF HashesTrue,
                      AttemptInv
    <3>q. QED  BY <3>1, <3>2
  <2>11. UploadedTo(p)'
    BY <2>1 DEF UploadedTo
  <2>12. TransitionKept(p)'
    BY <2>1, <2>2, <2>3 DEF TransitionKept, ValidTransition, AttemptInv
  <2>13. FreshRemembered(p)'
    <3>1. CASE round[p] = 3
      <4>1. fresh'[p] = fresh[p] \cup {Bytes(src)} /\ obs'[p] = obs[p] /\ round'[p] = 3
        BY <2>1, <2>2, <2>3, <3>1, FreshGrows
      <4>2. Sigs(src)[at[p]] = Sigs(obs[p].entries)[at[p]]
        BY <2>2, <3>1 DEF SameObject, ListedAs
      <4>3. \A k \in Keys : Third(p, k)' <=> Third(p, k) \/ k = at[p]
        BY <2>1, <2>2, <3>1 DEF Third
      <4>4. PICK s \in fresh[p] : SourceOfThird(p, s)
        BY <3>1 DEF FreshRemembered, HistoryInv
      <4>5. at[p] \in Observed(p) => src[at[p]].sig = obs[p].entries[at[p]].sig
        BY <2>4, <4>2, SigsFacts DEF Observed, Exists
      <4>6. SourceOfThird(p, s)'
        BY <2>3, <2>4, <2>6, <3>1, <4>1, <4>3, <4>4, <4>5 DEF SourceOfThird
      <4>7. at[p] \notin Observed(p) => Bytes(src)[at[p]] = Absent
        BY <2>4, <4>2, SigsFacts DEF Observed, Exists, Bytes
      <4>8. ASSUME NEW k \in Keys \ Observed(p)', Third(p, k)'
            PROVE  \E t \in fresh'[p] : t[k] = Absent
        <5>1. CASE k = at[p]
          BY <2>6, <3>1, <4>1, <4>7, <4>8, <5>1
        <5>2. CASE k # at[p]
          BY <2>6, <3>1, <4>1, <4>3, <4>8, <5>2 DEF FreshRemembered,
               HistoryInv
        <5>q. QED  BY <5>1, <5>2
      <4>q. QED  BY <4>1, <4>4, <4>6, <4>8 DEF FreshRemembered
    <3>2. CASE round[p] # 3
      BY <2>1, <3>2 DEF FreshRemembered
    <3>q. QED  BY <3>1, <3>2
  <2>14. ObservedDeployed(p)'
    <3>1. ReleasedMarker' = ReleasedMarker /\ hasty' = hasty
      BY <2>1, QuietHistory DEF ReleasedMarker
    <3>2. round[p] = 1 => Sigs(obs'[p].entries)[at[p]] = Sigs(src)[at[p]]
      BY <2>2, <2>4 DEF Sigs, Observed, Exists, Here, Entry
    <3>3. ASSUME NEW k \in Keys, round'[p] # 1 \/ Passed(p, k)',
                 \A l \in Keys : round[p] # 1 \/ Passed(p, l)
                   => Sigs(obs[p].entries)[l] = Sigs(src)[l]
          PROVE  Sigs(obs'[p].entries)[k] = Sigs(src)[k]
      <4>1. CASE round[p] # 1
        BY <2>2, <3>3, <4>1
      <4>2. CASE round[p] = 1 /\ k # at[p]
        <5>1. Sigs(obs'[p].entries)[k] = Sigs(obs[p].entries)[k]
          BY <2>2, <4>2 DEF Sigs
        <5>q. QED  BY <2>1, <2>2, <3>3, <4>2, <5>1
      <4>3. CASE round[p] = 1 /\ k = at[p]
        BY <3>2, <4>3
      <4>q. QED  BY <4>1, <4>2, <4>3
    <3>q. QED  BY <2>1, <2>3, <3>1, <3>3 DEF ObservedDeployed, MarkerSeen,
                    HistoryInv
  <2>q. QED  BY <2>7, <2>8, <2>9, <2>10, <2>11, <2>12, <2>13, <2>14 DEF
                  AttemptInv, HistoryInv
<1>q. QED  BY <1>1, <1>2

LEMMA MarkerAfterHolds ==
  ASSUME TypeInv, HistTyped, StoreInv, MarkersKept, Remember, NEW p \in Procs,
         AttemptInv(p), HistoryInv(p), MarkerAfter(p)
  PROVE  AttemptInv(p)' /\ HistoryInv(p)'
<1>1. CASE End(p)
  BY <1>1, EndHolds
<1>2. CASE ~End(p)
  <2>1. /\ pc[p] = "markerAfter" /\ round'[p] = round[p] /\ hash'[p] = hash[p]
        /\ changed'[p] = changed[p] /\ obs'[p] = obs[p]
        /\ pc'[p] \in {"mirror", "writeState", "putRef"}
        /\ pc'[p] = "mirror" <=> round[p] = 1
        /\ pc'[p] = "writeState" <=> round[p] = 2
        /\ pc'[p] = "putRef" <=> round[p] = 3
    <3>1. pc[p] = "markerAfter" /\ UNCHANGED callVars /\ pc' = [pc EXCEPT ![p] = AfterRound(p)]
      BY <1>2 DEF MarkerAfter, Goto
    <3>2. pc'[p] = AfterRound(p)
      BY <3>1 DEF TypeInv, PcTyped
    <3>3. /\ round'[p] = round[p] /\ hash'[p] = hash[p]
          /\ changed'[p] = changed[p] /\ obs'[p] = obs[p]
      BY <3>1 DEF callVars
    <3>4. round[p] \in {1, 2, 3}
      BY CallFacts
    <3>5. /\ round[p] = 1 => AfterRound(p) = "mirror"
          /\ round[p] = 2 => AfterRound(p) = "writeState"
          /\ round[p] = 3 => AfterRound(p) = "putRef"
      BY DEF AfterRound
    <3>q. QED  BY <3>1, <3>2, <3>3, <3>4, <3>5
  <2>2. UNCHANGED <<setup, sourceVars, state, objects, ref>>
    BY DEF MarkerAfter, Frame, mirrorVars, rootVars
  <2>3. src' = src /\ mark' = mark
    BY <2>2 DEF sourceVars
  <2>4. Observed(p)' = Observed(p) /\ Observed(p) \in SUBSET Keys
    BY <2>1, CallFacts DEF Observed
  <2>5. \A k \in Keys : Passed(p, k) /\ Passed(p, k)'
    BY <2>1 DEF Passed
  <2>6. Place(p)'
    BY <2>1 DEF Place
  <2>7. ObservedTruly(p)'
    BY <2>1, <2>3, <2>4, <2>5 DEF ObservedTruly, AttemptInv
  <2>8. RecordsAgree(p)'
    BY <2>1, <2>2, <2>4 DEF RecordsAgree, AttemptInv
  <2>9. HashesTrue(p)'
    <3>1. Hashed(p)' = Hashed(p)
      BY <2>1, <2>4, CallFacts DEF Hashed
    <3>2. \A k \in Hashed(p) : Verified(p, k)' <=> Verified(p, k)
      BY <2>1, <2>4, <2>5, CallFacts DEF Verified, Publishing, Hashed
    <3>q. QED  BY <2>1, <2>3, <3>1, <3>2 DEF HashesTrue, AttemptInv
  <2>10. UploadedTo(p)'
    BY <2>1 DEF UploadedTo
  <2>11. TransitionKept(p)'
    BY <2>1, <2>2 DEF TransitionKept, ValidTransition, AttemptInv
  <2>12. FreshRemembered(p)'
    <3>1. CASE round[p] = 3
      <4>1. fresh[p] \subseteq fresh'[p]
        BY <2>1, <3>1, FreshGrows
      <4>2. PICK s \in fresh[p] : SourceOfThird(p, s)
        BY <3>1 DEF FreshRemembered, HistoryInv
      <4>3. \A k \in Keys : Third(p, k)' <=> Third(p, k)
        BY <2>1, <2>5 DEF Third
      <4>4. SourceOfThird(p, s)'
        BY <2>1, <2>3, <2>4, <4>2, <4>3 DEF SourceOfThird
      <4>q. QED  BY <3>1, <2>4, <4>1, <4>2, <4>3, <4>4 DEF FreshRemembered,
                      HistoryInv
    <3>2. CASE round[p] # 3
      BY <2>1, <3>2 DEF FreshRemembered
    <3>q. QED  BY <3>1, <3>2
  <2>13. ObservedDeployed(p)'
    BY <2>1, <2>2, <2>5, DeployedKept DEF MarkerSeen, HistoryInv
  <2>q. QED  BY <2>6, <2>7, <2>8, <2>9, <2>10, <2>11, <2>12, <2>13 DEF
                  AttemptInv, HistoryInv
<1>q. QED  BY <1>1, <1>2

LEMMA PrepareMirrorHolds ==
  ASSUME TypeInv, HistTyped, StoreInv, MarkersKept, Remember, NEW p \in Procs,
         AttemptInv(p), HistoryInv(p), PrepareMirror(p)
  PROVE  AttemptInv(p)' /\ HistoryInv(p)'
<1>1. /\ pc[p] = "mirror" /\ round[p] = 1 /\ hash'[p] = hash[p] /\ obs'[p] = obs[p]
      /\ UNCHANGED <<setup, sourceVars, state, objects, ref>>
  BY DEF AttemptInv, Place, PrepareMirror, Frame, rootVars
<1>2. src' = src /\ mark' = mark
  BY <1>1 DEF sourceVars
<1>3. Observed(p)' = Observed(p) /\ Observed(p) \in SUBSET Keys
  BY <1>1, CallFacts DEF Observed
<1>4. \/ /\ pc'[p] = "file" /\ round'[p] = 1 /\ at'[p] \in Observed(p)
         /\ \A l \in Observed(p) : ~(l < at'[p])
      \/ /\ pc'[p] \in {"markerBefore", "list"} /\ round'[p] = 2 /\ at'[p] = 1
         /\ pc'[p] = "markerBefore" => setup.marker
         /\ Observed(p) = {}
      \/ pc'[p] = "writeState" /\ round'[p] = 1 /\ Observed(p) = {}
  <2>1. CASE Observed(p) # {}
    <3>1. at' = [at EXCEPT ![p] = First(Observed(p))] /\ Goto(p, "file") /\ UNCHANGED round
      BY <2>1 DEF PrepareMirror
    <3>2. First(Observed(p)) \in Observed(p) /\ \A l \in Observed(p) : First(Observed(p)) <= l
      BY <1>3, <2>1, FirstKey
    <3>3. \A l \in Observed(p) : ~(l < First(Observed(p)))
      BY <1>3, <3>2 DEF Keys
    <3>q. QED  BY <1>1, <3>1, <3>2, <3>3 DEF TypeInv, CallTyped, PcTyped, Goto
  <2>2. CASE Observed(p) = {} /\ ObserveAgain(p, 2)
    BY <1>1, <2>2 DEF TypeInv, CallTyped, PcTyped, Goto, ObserveAgain
  <2>3. CASE Observed(p) = {} /\ ~ObserveAgain(p, 2)
    <3>1. Goto(p, "writeState") /\ UNCHANGED round
      BY <2>3 DEF PrepareMirror
    <3>q. QED  BY <1>1, <2>3, <3>1 DEF TypeInv, CallTyped, PcTyped, Goto
  <2>q. QED  BY <2>1, <2>2, <2>3
<1>5. Place(p)'
  BY <1>1, <1>3, <1>4 DEF Place, Observed
<1>6. ObservedTruly(p)'
  <2>1. \A k \in Keys : round'[p] = 1 => Passed(p, k)'
    BY <1>4 DEF Passed
  <2>2. \A k \in Observed(p) : TrueOf(obs[p].entries[k], src[k])
    BY DEF ObservedTruly, AttemptInv
  <2>q. QED  BY <1>1, <1>2, <1>3, <2>1, <2>2 DEF ObservedTruly
<1>7. RecordsAgree(p)'
  BY <1>1, <1>3 DEF RecordsAgree, AttemptInv
<1>8. HashesTrue(p)'
  <2>1. Hashed(p) = {} /\ Hashed(p)' = {}
    BY <1>1, <1>3, <1>4 DEF Hashed
  <2>q. QED  BY <1>1, <2>1 DEF HashesTrue, AttemptInv
<1>9. UploadedTo(p)'
  BY <1>4 DEF UploadedTo
<1>10. TransitionKept(p)'
  BY <1>4 DEF TransitionKept
<1>11. FreshRemembered(p)'
  BY <1>4 DEF FreshRemembered
<1>12. ObservedDeployed(p)'
  BY <1>1, DeployedKept DEF MarkerSeen, HistoryInv, Passed
<1>q. QED  BY <1>5, <1>6, <1>7, <1>8, <1>9, <1>10, <1>11, <1>12 DEF
                AttemptInv, HistoryInv

(* A file is in the mirror, by its record or downloaded.                   *)

LEMMA FileDoneHolds ==
  ASSUME TypeInv, HistTyped, StoreInv, MarkersKept, Remember, NEW p \in Procs,
         AttemptInv(p), HistoryInv(p), NEW x, pc[p] = "file", NextFile(p), hash' = [hash EXCEPT ![p][at[p]] = x],
         x # Absent, changed[p] => changed'[p],
         x = Entry(p).bytes \/ (changed'[p] /\ Here(p).sig # Entry(p).sig),
         obs' = obs, state' = state, ref' = ref, UNCHANGED <<setup, sourceVars>>
  PROVE  AttemptInv(p)' /\ HistoryInv(p)'
<1>1. /\ src' = src /\ mark' = mark
      /\ hash'[p] = [hash[p] EXCEPT ![at[p]] = x]
  BY CallFacts DEF TypeInv, CallTyped, sourceVars
<1>2. Observed(p)' = Observed(p) /\ Observed(p) \in SUBSET Keys
  BY CallFacts DEF Observed
<1>3. /\ round[p] = 1 /\ at[p] \in Observed(p) /\ at[p] \in Keys
      /\ Hashed(p) = {k \in Observed(p) : k < at[p]}
  <2>1. round[p] = 1 /\ at[p] \in Observed(p)
    BY DEF AttemptInv, Place
  <2>q. QED  BY <1>2, <2>1 DEF Hashed
<1>4. \/ /\ pc'[p] = "file" /\ round'[p] = 1 /\ at'[p] \in Observed(p)
         /\ \A h \in Observed(p) : h < at'[p] <=> h <= at[p]
      \/ /\ pc'[p] \in {"markerBefore", "list"} /\ round'[p] = 2 /\ at'[p] = 1
         /\ pc'[p] = "markerBefore" => setup.marker
         /\ \A h \in Observed(p) : h <= at[p]
      \/ /\ pc'[p] = "writeState" /\ round'[p] = 1 /\ ~changed'[p]
         /\ \A h \in Observed(p) : h <= at[p]
  <2>1. CASE pc' = pc /\ round' = round /\ \E g \in Observed(p) :
               at' = [at EXCEPT ![p] = g] /\ \A h \in Observed(p) : h < g <=> h <= at[p]
    BY <1>3, <2>1 DEF TypeInv, CallTyped
  <2>2. CASE ObserveAgain(p, 2) /\ \A h \in Observed(p) : h <= at[p]
    BY <2>2 DEF ObserveAgain, Goto, TypeInv, CallTyped, PcTyped
  <2>3. CASE /\ \A h \in Observed(p) : h <= at[p]
             /\ ~changed'[p] /\ round' = round /\ pc' = [pc EXCEPT ![p] = "writeState"]
    BY <1>3, <2>3 DEF TypeInv, PcTyped
  <2>q. QED  BY <2>1, <2>2, <2>3, NextFileFacts
<1>5. Hashed(p)' = Hashed(p) \cup {at[p]}
  <2>1. at[p] \in Nat /\ \A k \in Observed(p) : k \in Nat
    BY <1>2, <1>3 DEF Keys
  <2>2. {k \in Observed(p) : k <= at[p]} = Hashed(p) \cup {at[p]}
    BY <1>3, <2>1
  <2>3. CASE pc'[p] = "file"
    BY <1>2, <1>4, <2>2, <2>3 DEF Hashed
  <2>4. CASE pc'[p] # "file"
    <3>1. Hashed(p)' = Observed(p) /\ Observed(p) = {k \in Observed(p) : k <= at[p]}
      BY <1>2, <1>4, <2>4 DEF Hashed
    <3>q. QED  BY <2>2, <3>1
  <2>q. QED  BY <2>3, <2>4
<1>6. Place(p)'
  BY <1>2, <1>4 DEF Place
<1>7. ObservedTruly(p)'
  <2>1. \A k \in Keys : round'[p] = 1 => Passed(p, k)'
    BY <1>4 DEF Passed
  <2>2. \A k \in Observed(p) : TrueOf(obs[p].entries[k], src[k])
    BY DEF ObservedTruly, AttemptInv
  <2>q. QED  BY <1>1, <1>2, <2>1, <2>2 DEF ObservedTruly
<1>8. RecordsAgree(p)'
  BY <1>2 DEF RecordsAgree, AttemptInv
<1>9. HashesTrue(p)'
  <2>1. \A k \in Keys : Verified(p, k)' => ~changed'[p]
    BY <1>4, FirstOfAll DEF Verified, Publishing, Passed
  <2>2. ASSUME NEW k \in Keys
        PROVE  /\ hash'[p][k] # Absent <=> k \in Hashed(p)'
               /\ k \in Hashed(p)' =>
                    \/ hash'[p][k] = obs'[p].entries[k].bytes
                    \/ changed'[p] /\ src'[k].sig # obs'[p].entries[k].sig /\ ~Verified(p, k)'
    <3>1. CASE k = at[p]
      <4>1. hash'[p][k] = x /\ k \in Hashed(p)'
        BY <1>1, <1>3, <1>5, <3>1 DEF TypeInv, CallTyped, Versions
      <4>q. QED  BY <1>1, <2>1, <3>1, <4>1 DEF Entry, Here
    <3>2. CASE k # at[p]
      <4>1. hash'[p][k] = hash[p][k] /\ (k \in Hashed(p)' <=> k \in Hashed(p))
        BY <1>1, <1>5, <3>2 DEF TypeInv, CallTyped, Versions
      <4>2. /\ hash[p][k] # Absent <=> k \in Hashed(p)
            /\ k \in Hashed(p) => \/ hash[p][k] = obs[p].entries[k].bytes
                                  \/ changed[p] /\ src[k].sig # obs[p].entries[k].sig
        BY DEF HashesTrue, AttemptInv
      <4>q. QED  BY <1>1, <2>1, <4>1, <4>2
    <3>q. QED  BY <3>1, <3>2
  <2>q. QED  BY <2>2 DEF HashesTrue
<1>10. UploadedTo(p)'
  BY <1>4 DEF UploadedTo
<1>11. TransitionKept(p)'
  BY <1>4 DEF TransitionKept
<1>12. FreshRemembered(p)'
  BY <1>4 DEF FreshRemembered
<1>13. ObservedDeployed(p)'
  BY DeployedKept DEF MarkerSeen, HistoryInv, Passed
<1>q. QED  BY <1>6, <1>7, <1>8, <1>9, <1>10, <1>11, <1>12, <1>13 DEF
                AttemptInv, HistoryInv

LEMMA ReuseFileHolds ==
  ASSUME TypeInv, HistTyped, StoreInv, MarkersKept, Remember, NEW p \in Procs,
         AttemptInv(p), HistoryInv(p), ReuseFile(p)
  PROVE  AttemptInv(p)' /\ HistoryInv(p)'
<1>1. pc[p] = "file" /\ at[p] \in Observed(p) /\ NextFile(p) /\ changed' = changed
  BY DEF AttemptInv, Place, ReuseFile
<1>2. /\ state # NoState /\ state[at[p]] # Absent
      /\ state[at[p]].sig = Entry(p).sig /\ HashOf(p, at[p]) = state[at[p]].bytes
  BY DEF ReuseFile, Reused, CanReuse, HashOf, Entry
<1>3. HashOf(p, at[p]) = Entry(p).bytes
  BY <1>1, <1>2 DEF AttemptInv, RecordsAgree, Entry
<1>4. Entry(p).bytes # Absent
  BY <1>1 DEF Observed, Exists, Entry
<1>5. /\ hash' = [hash EXCEPT ![p][at[p]] = HashOf(p, at[p])]
      /\ obs' = obs /\ state' = state /\ ref' = ref /\ UNCHANGED <<setup, sourceVars>>
  BY DEF ReuseFile, Frame, mirrorVars, rootVars
<1>q. QED  BY <1>1, <1>3, <1>4, <1>5, FileDoneHolds

LEMMA DownloadHolds ==
  ASSUME TypeInv, HistTyped, StoreInv, MarkersKept, Remember, NEW p \in Procs,
         AttemptInv(p), HistoryInv(p), Download(p)
  PROVE  AttemptInv(p)' /\ HistoryInv(p)'
<1>1. CASE End(p)
  BY <1>1, EndHolds
<1>2. CASE ~End(p)
  <2>1. /\ pc[p] = "file" /\ at[p] \in Observed(p) /\ NextFile(p)
        /\ changed' = [changed EXCEPT ![p] = TRUE] /\ Here(p).bytes # Absent
    BY <1>2 DEF AttemptInv, Place, Download, Downloadable
  <2>2. changed'[p]
    BY <2>1 DEF TypeInv, CallTyped
  <2>3. Here(p).bytes = Entry(p).bytes \/ Here(p).sig # Entry(p).sig
    BY <2>1 DEF AttemptInv, ObservedTruly, TrueOf, Entry, Here
  <2>4. /\ hash' = [hash EXCEPT ![p][at[p]] = Here(p).bytes]
        /\ obs' = obs /\ state' = state /\ ref' = ref /\ UNCHANGED <<setup, sourceVars>>
    BY <1>2 DEF Download, Frame, rootVars
  <2>q. QED  BY <2>1, <2>2, <2>3, <2>4, FileDoneHolds
<1>q. QED  BY <1>1, <1>2

(* Once the mirror is up to date, the hashes are of the observed bytes.    *)

LEMMA HashesReady ==
  ASSUME TypeInv, NEW p \in Procs, AttemptInv(p),
         pc[p] \in {"writeState"} \cup Publishing
  PROVE  /\ Hashed(p) = Observed(p) /\ Observed(p) \in SUBSET Keys
         /\ \A k \in Observed(p) : hash[p][k] = obs[p].entries[k].bytes
         /\ \A k \in Keys : hash[p][k] # Absent <=> k \in Observed(p)
<1>1. Hashed(p) = Observed(p) /\ Observed(p) \in SUBSET Keys
  BY CallFacts DEF Hashed, Publishing
<1>2. \A k \in Keys : Verified(p, k)
  BY DEF Verified
<1>q. QED  BY <1>1, <1>2 DEF AttemptInv, HashesTrue

LEMMA WriteStateHolds ==
  ASSUME TypeInv, HistTyped, StoreInv, MarkersKept, Remember, NEW p \in Procs,
         AttemptInv(p), HistoryInv(p), WriteState(p)
  PROVE  AttemptInv(p)' /\ HistoryInv(p)'
<1>1. /\ pc[p] = "writeState" /\ pc'[p] = "decide" /\ round[p] # 3 /\ round'[p] = round[p]
      /\ obs'[p] = obs[p] /\ hash'[p] = hash[p]
      /\ UNCHANGED <<setup, sourceVars, objects, ref>>
  BY DEF AttemptInv, Place, TypeInv, PcTyped, Goto, WriteState, Frame,
       callVars, rootVars
<1>2. src' = src /\ mark' = mark /\ Observed(p)' = Observed(p) /\ Observed(p) \in SUBSET Keys
  BY <1>1, CallFacts DEF Observed, sourceVars
<1>3. Place(p)'
  BY <1>1, <1>2, FirstOfAll DEF Place, Publishing, Observed
<1>4. ObservedTruly(p)'
  <2>1. \A k \in Keys : round'[p] = 1 => Passed(p, k)'
    BY <1>1, <1>2 DEF Passed
  <2>2. \A k \in Observed(p) : TrueOf(obs[p].entries[k], src[k])
    BY DEF ObservedTruly, AttemptInv
  <2>q. QED  BY <1>1, <1>2, <2>1, <2>2 DEF ObservedTruly
<1>5. RecordsAgree(p)'
  <2>1. \A k \in Observed(p) : state'[k].bytes = obs[p].entries[k].bytes
    <3>1. \A k \in Observed(p) : state'[k].bytes = hash[p][k]
      BY <1>2 DEF WriteState
    <3>q. QED  BY <1>1, <3>1, HashesReady
  <2>q. QED  BY <1>1, <1>2, <2>1 DEF RecordsAgree
<1>6. HashesTrue(p)'
  <2>1. Hashed(p)' = Observed(p)
    BY <1>1, <1>2 DEF Hashed
  <2>2. \A k \in Observed(p) : hash[p][k] = obs[p].entries[k].bytes
    BY <1>1, <1>2, HashesReady DEF Publishing
  <2>3. \A k \in Keys : hash[p][k] # Absent <=> k \in Observed(p)
    BY <1>1, <1>2, HashesReady DEF Publishing
  <2>q. QED  BY <1>1, <1>2, <2>1, <2>2, <2>3 DEF HashesTrue
<1>7. UploadedTo(p)'
  BY <1>1 DEF UploadedTo
<1>8. TransitionKept(p)'
  BY <1>1 DEF TransitionKept
<1>9. FreshRemembered(p)'
  BY <1>1 DEF FreshRemembered
<1>10. ObservedDeployed(p)'
  BY <1>1, <1>2, DeployedKept DEF MarkerSeen, HistoryInv, Passed
<1>q. QED  BY <1>3, <1>4, <1>5, <1>6, <1>7, <1>8, <1>9, <1>10 DEF AttemptInv,
                HistoryInv

LEMMA DecideHolds ==
  ASSUME TypeInv, HistTyped, StoreInv, MarkersKept, Remember, NEW p \in Procs,
         AttemptInv(p), HistoryInv(p), Decide(p)
  PROVE  AttemptInv(p)' /\ HistoryInv(p)'
<1>1. CASE End(p)
  BY <1>1, EndHolds
<1>2. CASE ~End(p)
  <2>1. /\ pc[p] = "decide" /\ round[p] # 3 /\ obs'[p] = obs[p] /\ hash'[p] = hash[p]
        /\ Observed(p) # {} /\ ValidTransition(p)
        /\ UNCHANGED <<setup, sourceVars, state, objects, ref>>
    <3>1. pc[p] = "decide" /\ Observed(p) # {} /\ ValidTransition(p) /\ UNCHANGED <<obs, hash>>
      BY <1>2 DEF Decide
    <3>2. UNCHANGED <<setup, sourceVars, state, objects, ref>>
      BY DEF Decide, Frame, mirrorVars, rootVars
    <3>3. round[p] # 3
      BY <3>1 DEF AttemptInv, Place
    <3>q. QED  BY <3>1, <3>2, <3>3
  <2>2. src' = src /\ mark' = mark /\ Observed(p)' = Observed(p) /\ Observed(p) \in SUBSET Keys
    BY <2>1, CallFacts DEF Observed, sourceVars
  <2>3. \/ /\ pc'[p] \in {"markerBefore", "list"} /\ round'[p] = 3 /\ at'[p] = 1
           /\ pc'[p] = "markerBefore" => setup.marker
        \/ /\ pc'[p] = "upload" /\ round'[p] = round[p] /\ at'[p] \in Observed(p)
           /\ \A l \in Observed(p) : ~(l < at'[p])
    <3>1. CASE hash[p] \in committed
      <4>1. ObserveAgain(p, 3)
        BY <1>2, <3>1 DEF Decide
      <4>q. QED  BY <4>1 DEF TypeInv, CallTyped, PcTyped, Goto, ObserveAgain
    <3>2. CASE hash[p] \notin committed
      <4>1. at' = [at EXCEPT ![p] = First(Observed(p))] /\ Goto(p, "upload") /\ UNCHANGED round
        BY <1>2, <3>2 DEF Decide
      <4>2. First(Observed(p)) \in Observed(p) /\ \A l \in Observed(p) : First(Observed(p)) <= l
        BY <2>1, <2>2, FirstKey
      <4>3. \A l \in Observed(p) : ~(l < First(Observed(p)))
        BY <2>2, <4>2 DEF Keys
      <4>q. QED  BY <4>1, <4>2, <4>3 DEF TypeInv, CallTyped, PcTyped, Goto
    <3>q. QED  BY <3>1, <3>2
  <2>4. Place(p)'
    BY <2>1, <2>2, <2>3, FirstOfAll DEF Place, Publishing, Observed
  <2>5. ObservedTruly(p)'
    <3>1. \A k \in Keys : round'[p] = 1 => Passed(p, k)'
      BY <2>1, <2>2, <2>3 DEF Passed
    <3>2. \A k \in Observed(p) : TrueOf(obs[p].entries[k], src[k])
      BY DEF ObservedTruly, AttemptInv
    <3>q. QED  BY <2>1, <2>2, <2>3, <3>1, <3>2 DEF ObservedTruly
  <2>6. RecordsAgree(p)'
    BY <2>1, <2>2, <2>3 DEF RecordsAgree, AttemptInv
  <2>7. HashesTrue(p)'
    <3>1. Hashed(p)' = Observed(p)
      BY <2>1, <2>2, <2>3 DEF Hashed
    <3>2. \A k \in Observed(p) : hash[p][k] = obs[p].entries[k].bytes
      BY <2>1, <2>2, <2>3, HashesReady DEF Publishing
    <3>3. \A k \in Keys : hash[p][k] # Absent <=> k \in Observed(p)
      BY <2>1, <2>2, <2>3, HashesReady DEF Publishing
    <3>q. QED  BY <2>1, <2>2, <2>3, <3>1, <3>2, <3>3 DEF HashesTrue
  <2>8. UploadedTo(p)'
    BY <2>1, <2>2, <2>3 DEF UploadedTo
  <2>9. TransitionKept(p)'
    BY <2>1, <2>2, <2>3 DEF TransitionKept, ValidTransition
  <2>10. FreshRemembered(p)'
    <3>1. CASE round'[p] = 3
      BY <2>1, <2>2, <2>3, <3>1, ThirdBegins DEF AttemptInv
    <3>2. CASE round'[p] # 3
      BY <3>2 DEF FreshRemembered
    <3>q. QED  BY <3>1, <3>2
  <2>11. ObservedDeployed(p)'
    BY <2>1, <2>2, DeployedKept DEF MarkerSeen, HistoryInv, Passed
  <2>q. QED  BY <2>4, <2>5, <2>6, <2>7, <2>8, <2>9, <2>10, <2>11 DEF
                  AttemptInv, HistoryInv
<1>q. QED  BY <1>1, <1>2

(* An object is copied or uploaded; the others stay.                       *)

LEMMA PutKeeps ==
  ASSUME NEW v, NEW k, NEW b, Put(v, k, b)
  PROVE  \A u, l : HasObject(u, l) \/ (u = v /\ l = k) => HasObject(u, l)'
<1>1. [version |-> v, key |-> k, bytes |-> b] \in objects'
  BY DEF Put
<1>2. ASSUME NEW u, NEW l, HasObject(u, l), ~(u = v /\ l = k)
      PROVE  HasObject(u, l)'
  <2>1. PICK o \in objects : o.version = u /\ o.key = l
    BY <1>2 DEF HasObject
  <2>2. o \in objects'
    BY <1>2, <2>1 DEF Put
  <2>q. QED  BY <2>1, <2>2 DEF HasObject
<1>3. HasObject(v, k)'
  BY <1>1 DEF HasObject
<1>q. QED  BY <1>2, <1>3

LEMMA PutDoneHolds ==
  ASSUME TypeInv, HistTyped, StoreInv, MarkersKept, Remember, NEW p \in Procs,
         AttemptInv(p), HistoryInv(p), pc[p] = "upload", NEW b, Put(hash[p], at[p], b), Proceed(p, Observed(p), "manifest"),
         UNCHANGED <<round, obs, hash, state, ref, setup, sourceVars>>
  PROVE  AttemptInv(p)' /\ HistoryInv(p)'
<1>1. /\ round[p] # 3 /\ round'[p] = round[p] /\ obs'[p] = obs[p] /\ hash'[p] = hash[p]
      /\ pc[p] = "upload"
  BY DEF AttemptInv, Place
<1>2. src' = src /\ mark' = mark /\ Observed(p)' = Observed(p) /\ Observed(p) \in SUBSET Keys
  BY <1>1, CallFacts DEF Observed, sourceVars
<1>3. \/ /\ pc'[p] = "upload" /\ at'[p] \in Observed(p)
         /\ \A h \in Observed(p) : h < at'[p] <=> h <= at[p]
      \/ pc'[p] = "manifest" /\ \A h \in Observed(p) : h <= at[p]
  <2>1. \/ \E g \in Observed(p) : /\ at' = [at EXCEPT ![p] = g] /\ pc' = pc
                               /\ \A h \in Observed(p) : h < g <=> h <= at[p]
        \/ /\ at' = [at EXCEPT ![p] = 1] /\ pc' = [pc EXCEPT ![p] = "manifest"]
           /\ \A h \in Observed(p) : h <= at[p]
    BY <1>2, ProceedFacts
  <2>q. QED  BY <1>1, <2>1 DEF TypeInv, CallTyped, PcTyped
<1>4. Place(p)'
  BY <1>1, <1>2, <1>3, FirstOfAll DEF Place, Publishing, Observed
<1>5. ObservedTruly(p)'
  <2>1. \A k \in Keys : round'[p] = 1 => Passed(p, k)'
    BY <1>1, <1>2, <1>3 DEF Passed
  <2>2. \A k \in Observed(p) : TrueOf(obs[p].entries[k], src[k])
    BY DEF ObservedTruly, AttemptInv
  <2>q. QED  BY <1>1, <1>2, <1>3, <2>1, <2>2 DEF ObservedTruly
<1>6. RecordsAgree(p)'
  BY <1>1, <1>2, <1>3 DEF RecordsAgree, AttemptInv
<1>7. HashesTrue(p)'
  <2>1. Hashed(p)' = Observed(p)
    BY <1>1, <1>2, <1>3 DEF Hashed
  <2>2. \A k \in Observed(p) : hash[p][k] = obs[p].entries[k].bytes
    BY <1>1, <1>2, <1>3, HashesReady DEF Publishing
  <2>3. \A k \in Keys : hash[p][k] # Absent <=> k \in Observed(p)
    BY <1>1, <1>2, <1>3, HashesReady DEF Publishing
  <2>q. QED  BY <1>1, <1>2, <1>3, <2>1, <2>2, <2>3 DEF HashesTrue
<1>8. UploadedTo(p)'
  <2>1. \A k \in Observed(p) : k < at[p] => HasObject(hash[p], k)
    BY <1>1 DEF AttemptInv, UploadedTo
  <2>2. \A k \in Observed(p) : k <= at[p] => HasObject(hash[p], k)'
    <3>1. at[p] \in Nat /\ \A k \in Observed(p) : k \in Nat
      <4>1. at[p] \in Keys
        BY CallFacts
      <4>q. QED  BY <1>2, <4>1 DEF Keys
    <3>2. \A k \in Observed(p) : k <= at[p] => k < at[p] \/ k = at[p]
      BY <3>1
    <3>q. QED  BY <2>1, <3>2, PutKeeps
  <2>q. QED  BY <1>1, <1>2, <1>3, <2>2 DEF UploadedTo, HasObject
<1>9. TransitionKept(p)'
  BY <1>1, <1>2 DEF TransitionKept, ValidTransition, AttemptInv
<1>10. FreshRemembered(p)'
  BY <1>1 DEF FreshRemembered
<1>11. ObservedDeployed(p)'
  BY <1>1, <1>2, DeployedKept DEF MarkerSeen, HistoryInv, Passed
<1>q. QED  BY <1>4, <1>5, <1>6, <1>7, <1>8, <1>9, <1>10, <1>11 DEF AttemptInv,
                HistoryInv

LEMMA PutStored ==
  ASSUME TypeInv, StoreInv, NEW p \in Procs, AttemptInv(p), pc[p] = "upload",
         NEW b,
         Put(hash[p], at[p], b), b = hash[p][at[p]], UNCHANGED <<src, state, committed>>
  PROVE  StoreInv'
<1>1. RecordedTruly'
  BY DEF StoreInv, RecordedTruly
<1>2. ObjectsTrue'
  <2>1. b # Absent
    BY UploadFacts
  <2>q. QED  BY <2>1 DEF Put, StoreInv, ObjectsTrue
<1>3. CommittedComplete'
  BY PutKeeps DEF StoreInv, CommittedComplete
<1>q. QED  BY <1>1, <1>2, <1>3 DEF StoreInv

LEMMA ServerSideCopyHolds ==
  ASSUME TypeInv, HistTyped, StoreInv, MarkersKept, Remember, NEW p \in Procs,
         AttemptInv(p), HistoryInv(p), ServerSideCopy(p)
  PROVE  AttemptInv(p)' /\ HistoryInv(p)' /\ StoreInv'
<1>1. /\ pc[p] = "upload" /\ Put(hash[p], at[p], Here(p).bytes) /\ Proceed(p, Observed(p), "manifest")
      /\ UNCHANGED <<round, obs, hash, state, ref, setup, sourceVars>>
      /\ src' = src /\ committed' = committed /\ Here(p).bytes = hash[p][at[p]]
  BY CopyFacts DEF ServerSideCopy, Frame, mirrorVars, sourceVars
<1>q. QED  BY <1>1, PutDoneHolds, PutStored

LEMMA StoreKept ==
  ASSUME StoreInv, UNCHANGED <<src, state, objects, committed>>
  PROVE  StoreInv'
BY DEF StoreInv, RecordedTruly, ObjectsTrue, CommittedComplete, HasObject

LEMMA UploadHolds ==
  ASSUME TypeInv, HistTyped, StoreInv, MarkersKept, Remember, NEW p \in Procs,
         AttemptInv(p), HistoryInv(p), Upload(p)
  PROVE  AttemptInv(p)' /\ HistoryInv(p)' /\ StoreInv'
<1>1. CASE End(p)
  <2>1. UNCHANGED <<src, state, committed>>
    BY DEF Upload, UploadFile, mirrorVars, sourceVars, Frame
  <2>2. CASE objects' = objects
    BY <1>1, <2>1, <2>2, EndHolds, StoreKept
  <2>3. CASE objects' # objects
    <3>1. Put(hash[p], at[p], mirror[at[p]].bytes) /\ mirror[at[p]].bytes = hash[p][at[p]]
          /\ pc[p] = "upload"
      BY <2>3 DEF Upload, UploadFile
    <3>q. QED  BY <1>1, <2>1, <3>1, EndHolds, PutStored
  <2>q. QED  BY <2>2, <2>3
<1>2. CASE ~End(p)
  <2>1. /\ pc[p] = "upload" /\ Put(hash[p], at[p], mirror[at[p]].bytes) /\ Proceed(p, Observed(p), "manifest")
        /\ UNCHANGED <<round, obs, hash, state, ref, setup, sourceVars>>
        /\ src' = src /\ committed' = committed /\ mirror[at[p]].bytes = hash[p][at[p]]
    BY <1>2 DEF Upload, UploadFile, mirrorVars, sourceVars, Frame
  <2>q. QED  BY <2>1, PutDoneHolds, PutStored
<1>q. QED  BY <1>1, <1>2

LEMMA CopyFailsHolds ==
  ASSUME TypeInv, HistTyped, StoreInv, MarkersKept, Remember, NEW p \in Procs,
         AttemptInv(p), HistoryInv(p), CopyFails(p)
  PROVE  AttemptInv(p)' /\ HistoryInv(p)' /\ StoreInv'
<1>1. CASE End(p)
  <2>1. UNCHANGED <<src, state, committed>>
    BY DEF CopyFails, UploadFile, mirrorVars, sourceVars, Frame
  <2>2. CASE objects' = objects
    BY <1>1, <2>1, <2>2, EndHolds, StoreKept
  <2>3. CASE objects' # objects
    <3>1. Put(hash[p], at[p], mirror[at[p]].bytes) /\ mirror[at[p]].bytes = hash[p][at[p]]
          /\ pc[p] = "upload"
      BY <2>3 DEF CopyFails, UploadFile
    <3>q. QED  BY <1>1, <2>1, <3>1, EndHolds, PutStored
  <2>q. QED  BY <2>2, <2>3
<1>2. CASE ~End(p)
  <2>1. /\ pc[p] = "upload" /\ Put(hash[p], at[p], mirror[at[p]].bytes) /\ Proceed(p, Observed(p), "manifest")
        /\ UNCHANGED <<round, obs, hash, state, ref, setup, sourceVars>>
        /\ src' = src /\ committed' = committed /\ mirror[at[p]].bytes = hash[p][at[p]]
    BY <1>2 DEF CopyFails, UploadFile, mirrorVars, sourceVars, Frame
  <2>q. QED  BY <2>1, PutDoneHolds, PutStored
<1>q. QED  BY <1>1, <1>2

LEMMA PutManifestHolds ==
  ASSUME TypeInv, HistTyped, StoreInv, MarkersKept, Remember, NEW p \in Procs,
         AttemptInv(p), HistoryInv(p), PutManifest(p)
  PROVE  AttemptInv(p)' /\ HistoryInv(p)'
<1>1. /\ pc[p] = "manifest" /\ obs'[p] = obs[p] /\ hash'[p] = hash[p]
      /\ pc'[p] \in {"markerBefore", "list"} /\ round'[p] = 3 /\ at'[p] = 1
      /\ pc'[p] = "markerBefore" => setup.marker
      /\ UNCHANGED <<setup, sourceVars, state, objects, ref>>
  <2>1. pc[p] = "manifest" /\ ObserveAgain(p, 3) /\ UNCHANGED <<obs, hash, objects, ref, state>>
    BY DEF PutManifest, mirrorVars
  <2>2. UNCHANGED <<setup, sourceVars>>
    BY DEF PutManifest, Frame
  <2>q. QED  BY <2>1, <2>2 DEF TypeInv, CallTyped, PcTyped, Goto, ObserveAgain
<1>2. src' = src /\ mark' = mark /\ Observed(p)' = Observed(p) /\ Observed(p) \in SUBSET Keys
  BY <1>1, CallFacts DEF Observed, sourceVars
<1>3. Place(p)'
  BY <1>1, <1>2, FirstOfAll DEF Place, Publishing, Observed
<1>4. ObservedTruly(p)'
  <2>1. \A k \in Keys : round'[p] = 1 => Passed(p, k)'
    BY <1>1, <1>2 DEF Passed
  <2>2. \A k \in Observed(p) : TrueOf(obs[p].entries[k], src[k])
    BY DEF ObservedTruly, AttemptInv
  <2>q. QED  BY <1>1, <1>2, <2>1, <2>2 DEF ObservedTruly
<1>5. RecordsAgree(p)'
  BY <1>1, <1>2 DEF RecordsAgree, AttemptInv
<1>6. HashesTrue(p)'
  <2>1. Hashed(p)' = Observed(p)
    BY <1>1, <1>2 DEF Hashed
  <2>2. \A k \in Observed(p) : hash[p][k] = obs[p].entries[k].bytes
    BY <1>1, <1>2, HashesReady DEF Publishing
  <2>3. \A k \in Keys : hash[p][k] # Absent <=> k \in Observed(p)
    BY <1>1, <1>2, HashesReady DEF Publishing
  <2>q. QED  BY <1>1, <1>2, <2>1, <2>2, <2>3 DEF HashesTrue
<1>7. UploadedTo(p)'
  BY <1>1 DEF UploadedTo
<1>8. TransitionKept(p)'
  BY <1>1, <1>2 DEF TransitionKept, ValidTransition, AttemptInv
<1>9. FreshRemembered(p)'
  BY <1>1, <1>2, ThirdBegins DEF AttemptInv
<1>10. ObservedDeployed(p)'
  BY <1>1, <1>2, DeployedKept DEF MarkerSeen, HistoryInv, Passed
<1>q. QED  BY <1>3, <1>4, <1>5, <1>6, <1>7, <1>8, <1>9, <1>10 DEF AttemptInv,
                HistoryInv

(* Every object of a snapshot that gets its manifest has been uploaded.    *)

LEMMA ManifestStored ==
  ASSUME TypeInv, StoreInv, NEW p \in Procs, AttemptInv(p), PutManifest(p)
  PROVE  StoreInv'
<1>1. /\ pc[p] = "manifest" /\ committed' = committed \cup {hash[p]}
      /\ src' = src /\ state' = state /\ objects' = objects
  BY DEF PutManifest, Frame, sourceVars, mirrorVars
<1>2. \A k \in Keys : hash[p][k] # Absent => HasObject(hash[p], k)
  <2>1. \A k \in Keys : hash[p][k] # Absent => k \in Observed(p)
    BY <1>1, HashesReady DEF Publishing
  <2>q. QED  BY <1>1, <2>1 DEF AttemptInv, UploadedTo
<1>3. CommittedComplete'
  BY <1>1, <1>2 DEF StoreInv, CommittedComplete, HasObject
<1>q. QED  BY <1>1, <1>3 DEF StoreInv, RecordedTruly, ObjectsTrue

LEMMA PutRefHolds ==
  ASSUME TypeInv, HistTyped, StoreInv, MarkersKept, Remember, NEW p \in Procs,
         AttemptInv(p), HistoryInv(p), PutRef(p)
  PROVE  AttemptInv(p)' /\ HistoryInv(p)'
BY EndHolds DEF PutRef

LEMMA CrashHolds ==
  ASSUME TypeInv, HistTyped, StoreInv, MarkersKept, Remember, NEW p \in Procs,
         AttemptInv(p), HistoryInv(p), Crash(p)
  PROVE  AttemptInv(p)' /\ HistoryInv(p)'
BY EndHolds DEF Crash

(* The state file is written from hashes that are true.                    *)

LEMMA StateStored ==
  ASSUME TypeInv, StoreInv, NEW p \in Procs, AttemptInv(p), WriteState(p)
  PROVE  StoreInv'
<1>1. /\ pc[p] = "writeState" /\ src' = src /\ objects' = objects /\ committed' = committed
  BY DEF WriteState, Frame, sourceVars, rootVars
<1>2. \A k \in Observed(p) : hash[p][k] = obs[p].entries[k].bytes
  BY <1>1, HashesReady
<1>3. ASSUME NEW k \in Keys, state'[k] # Absent
      PROVE  TrueOf(state'[k], src[k])
  <2>1. k \in Observed(p) /\ state'[k] = [sig |-> obs[p].entries[k].sig, bytes |-> hash[p][k]]
    BY <1>3 DEF WriteState
  <2>2. TrueOf(obs[p].entries[k], src[k])
    BY <2>1 DEF AttemptInv, ObservedTruly
  <2>q. QED  BY <1>2, <2>1, <2>2 DEF TrueOf
<1>4. RecordedTruly'
  BY <1>1, <1>3 DEF RecordedTruly
<1>q. QED  BY <1>1, <1>4 DEF StoreInv, ObjectsTrue, CommittedComplete,
                HasObject

(* The markers' invariant stays while neither source nor reference moves... *)

LEMMA MarkersStay ==
  ASSUME HistTyped, Remember, MarkersKept, UNCHANGED <<setup, sourceVars>>,
         ref' = ref
  PROVE  MarkersKept'
<1>1. deployed' = deployed /\ hasty' = hasty /\ ReleasedMarker' = ReleasedMarker
  BY QuietHistory DEF ReleasedMarker
<1>2. setup' = setup /\ ref' = ref /\ mark' = mark /\ deploying' = deploying /\ src' = src
  BY DEF sourceVars
<1>q. QED  BY <1>1, <1>2 DEF MarkersKept, ReleasedWasDeployed

(* ... and when an attempt releases what it has observed.                  *)

LEMMA MarkersReleased ==
  ASSUME TypeInv, HistTyped, StoreInv, MarkersKept, Remember, NEW p \in Procs,
         AttemptInv(p), HistoryInv(p), PutRef(p)
  PROVE  MarkersKept'
<1>1. SUFFICES ASSUME setup.marker PROVE MarkersKept'
  BY DEF PutRef, Frame, MarkersKept
<1>2. /\ pc[p] = "putRef" /\ round[p] = 3 /\ UNCHANGED <<setup, sourceVars>>
      /\ ref' = [version |-> hash[p], source |-> obs[p]]
  BY DEF PutRef, Target, Frame, AttemptInv, Place
<1>3. setup' = setup /\ mark' = mark /\ deploying' = deploying /\ src' = src
  BY <1>2 DEF sourceVars
<1>4. deployed' = deployed /\ hasty' = hasty
  BY <1>2, QuietHistory
<1>5. ref' # NoRef
  <2>1. ref' \in Releases
    BY <1>2 DEF TypeInv, CallTyped, Releases
  <2>q. QED  BY <2>1, NothingAssumption
<1>6. ReleasedMarker' = obs[p].marker
  BY <1>2, <1>5 DEF ReleasedMarker
<1>7. /\ obs[p].marker # 0 /\ ReleasedMarker <= obs[p].marker /\ obs[p].marker <= mark
      /\ ~hasty /\ obs[p].marker # ReleasedMarker =>
           /\ mark = obs[p].marker
           /\ \A k \in Keys : Sigs(obs[p].entries)[k] = Sigs(src)[k]
  BY <1>1, <1>2 DEF HistoryInv, ObservedDeployed, MarkerSeen
<1>8. /\ ~hasty /\ mark # ReleasedMarker => ~deploying /\ src = deployed[mark]
      /\ ReleasedWasDeployed
  BY <1>1 DEF MarkersKept
<1>9. ReleasedWasDeployed'
  <2>1. SUFFICES ASSUME ~hasty
                 PROVE  Sigs(obs[p].entries) = Sigs(deployed[obs[p].marker])
    BY <1>2, <1>4 DEF ReleasedWasDeployed
  <2>2. CASE obs[p].marker = ReleasedMarker
    <3>1. ref # NoRef /\ ref.source.marker = obs[p].marker
      BY <1>7, <2>2 DEF ReleasedMarker
    <3>2. Sigs(ref.source.entries) = Sigs(obs[p].entries)
      BY <1>1, <1>2, <3>1 DEF AttemptInv, TransitionKept, ValidTransition
    <3>q. QED  BY <1>1, <1>8, <2>1, <3>1, <3>2 DEF ReleasedWasDeployed
  <2>3. CASE obs[p].marker # ReleasedMarker
    <3>1. Sigs(obs[p].entries) = Sigs(src)
      BY <1>7, <2>1, <2>3 DEF Sigs
    <3>q. QED  BY <1>7, <1>8, <2>1, <2>3, <3>1
  <2>q. QED  BY <2>2, <2>3
<1>10. ~hasty /\ mark # obs[p].marker => ~deploying /\ src = deployed[mark]
  BY <1>7, <1>8
<1>q. QED  BY <1>3, <1>4, <1>6, <1>7, <1>9, <1>10 DEF MarkersKept

-----------------------------------------------------------------------------
(* So does the environment.                                                *)

(* Only the source moves: what does not depend on it stays.                *)

LEMMA SourceMoves ==
  ASSUME TypeInv, HistTyped, MarkersKept, Remember, NEW q \in Procs,
         AttemptInv(q), HistoryInv(q), TypeInv', DeployFrame,
         \A k \in Keys : \/ src'[k] = src[k]
                        \/ src[k].sig < src'[k].sig
  PROVE  AttemptInv(q)' /\ FreshRemembered(q)'
<1>1. /\ UNCHANGED <<setup, pc, round, at, obs, hash, changed>>
      /\ UNCHANGED <<state, objects, ref>>
  BY DEF DeployFrame, callVars, mirrorVars, rootVars
<1>2. /\ Observed(q)' = Observed(q) /\ Observed(q) \in SUBSET Keys /\ Hashed(q)' = Hashed(q)
      /\ \A k \in Keys : /\ Passed(q, k)' <=> Passed(q, k)
                         /\ Verified(q, k)' <=> Verified(q, k)
                         /\ Third(q, k)' <=> Third(q, k)
  BY <1>1, CallFacts DEF Observed, Hashed, Passed, Verified, Third
<1>3. Place(q)' /\ RecordsAgree(q)' /\ UploadedTo(q)' /\ TransitionKept(q)'
  <2>1. Place(q)'
    BY <1>1, <1>2 DEF AttemptInv, Place
  <2>2. RecordsAgree(q)'
    BY <1>1, <1>2 DEF AttemptInv, RecordsAgree
  <2>3. UploadedTo(q)'
    BY <1>1, <1>2 DEF AttemptInv, UploadedTo, HasObject
  <2>4. TransitionKept(q)'
    BY <1>1 DEF AttemptInv, TransitionKept, ValidTransition
  <2>q. QED  BY <2>1, <2>2, <2>3, <2>4
<1>4. ASSUME NEW k \in Observed(q)
      PROVE  /\ TrueOf(obs[q].entries[k], src'[k]) /\ obs[q].entries[k].sig <= src[k].sig
             /\ src'[k].sig = obs[q].entries[k].sig => src'[k] = src[k]
             /\ src[k].sig # obs[q].entries[k].sig => src'[k].sig # obs[q].entries[k].sig
  <2>1. TrueOf(obs[q].entries[k], src[k])
    BY DEF AttemptInv, ObservedTruly
  <2>2. src[k].sig \in Nat /\ src'[k].sig \in Nat /\ obs[q].entries[k].sig \in Nat
    <3>1. obs[q].entries \in Inventories /\ k \in Keys
      BY <1>2, CallFacts
    <3>2. src[k] \in Objects /\ src'[k] \in Objects /\ obs[q].entries[k] \in Objects
      BY <3>1 DEF TypeInv, SourceTyped, Inventories
    <3>q. QED  BY <3>2 DEF Objects, Signatures
  <2>q. QED  BY <1>2, <2>1, <2>2 DEF TrueOf
<1>5. ObservedTruly(q)'
  BY <1>1, <1>2, <1>4 DEF AttemptInv, ObservedTruly
<1>6. HashesTrue(q)'
  <2>1. Hashed(q) \in SUBSET Observed(q)
    BY DEF Hashed
  <2>q. QED  BY <1>1, <1>2, <1>4, <2>1 DEF AttemptInv, HashesTrue
<1>7. FreshRemembered(q)'
  <2>1. SUFFICES ASSUME round[q] = 3 PROVE FreshRemembered(q)'
    BY <1>1 DEF FreshRemembered
  <2>2. pc[q] # "idle"
    BY <2>1 DEF AttemptInv, Place
  <2>3. fresh[q] \subseteq fresh'[q]
    BY <1>1, <2>1, <2>2, FreshGrows
  <2>4. PICK s \in fresh[q] : SourceOfThird(q, s)
    BY <2>1 DEF HistoryInv, FreshRemembered
  <2>5. SourceOfThird(q, s)'
    BY <1>1, <1>2, <1>4, <2>4 DEF SourceOfThird
  <2>q. QED  BY <1>1, <1>2, <2>1, <2>3, <2>4, <2>5 DEF HistoryInv,
                  FreshRemembered
<1>q. QED  BY <1>3, <1>5, <1>6, <1>7 DEF AttemptInv

LEMMA StartHolds ==
  ASSUME TypeInv, HistTyped, MarkersKept, Remember, NEW q \in Procs,
         AttemptInv(q), HistoryInv(q), TypeInv', StartDeployment
  PROVE  AttemptInv(q)' /\ HistoryInv(q)'
<1>1. /\ src' = src /\ mark' = mark /\ setup' = setup /\ ref' = ref /\ pc' = pc
      /\ round' = round /\ at' = at /\ obs' = obs /\ DeployFrame
  BY DEF StartDeployment, DeployFrame, callVars, rootVars
<1>2. hasty \in BOOLEAN /\ (~hasty' => ~hasty)
  BY DEF HistTyped, Remember
<1>3. ObservedDeployed(q)'
  BY <1>1, <1>2 DEF HistoryInv, ObservedDeployed, ReleasedMarker, MarkerSeen,
       Passed
<1>q. QED  BY <1>1, <1>3, SourceMoves DEF HistoryInv

(* While a deployment runs, the marker is that of the release, or the      *)
(* deployment is hasty: no attempt has seen another.                       *)

LEMMA NothingElseSeen ==
  ASSUME TypeInv, MarkersKept, NEW q \in Procs, ObservedDeployed(q),
         deploying, setup.marker,
         MarkerSeen(q), ~hasty
  PROVE  mark = ReleasedMarker /\ obs[q].marker = ReleasedMarker
BY DEF MarkersKept, ObservedDeployed

LEMMA DeployHolds ==
  ASSUME TypeInv, HistTyped, MarkersKept, Remember, NEW q \in Procs,
         AttemptInv(q), HistoryInv(q), TypeInv', NEW k \in Keys,
         DeployObject(k)
  PROVE  AttemptInv(q)' /\ HistoryInv(q)'
<1>1. /\ mark' = mark /\ setup' = setup /\ ref' = ref /\ pc' = pc /\ deploying' = deploying
      /\ round' = round /\ obs' = obs /\ DeployFrame
  BY DEF DeployObject, DeployFrame, callVars, rootVars
<1>2. deploying
  BY DEF DeployObject, TypeInv, SourceTyped
<1>3. hasty \in BOOLEAN /\ (~hasty' => ~hasty)
  BY DEF HistTyped, Remember
<1>4. ASSUME NEW l \in Keys
      PROVE  src'[l] = src[l] \/ src[l].sig < src'[l].sig
  <2>1. PICK c : src' = [src EXCEPT ![k] = [bytes |-> c, sig |-> src[k].sig + 1]]
    BY DEF DeployObject
  <2>2. src[k].sig \in Nat
    BY SourceFacts DEF Signatures
  <2>3. src'[l] = IF l = k THEN [bytes |-> c, sig |-> src[k].sig + 1] ELSE src[l]
    BY <2>1 DEF TypeInv, SourceTyped, Inventories
  <2>q. QED  BY <2>2, <2>3
<1>5. ObservedDeployed(q)'
  <2>1. setup.marker /\ MarkerSeen(q) /\ ~hasty => obs[q].marker = ReleasedMarker
    BY <1>2, NothingElseSeen DEF HistoryInv
  <2>q. QED  BY <1>1, <1>3, <2>1 DEF HistoryInv, ObservedDeployed,
                  ReleasedMarker, MarkerSeen
<1>q. QED  BY <1>1, <1>4, <1>5, SourceMoves DEF HistoryInv

LEMMA FinishHolds ==
  ASSUME TypeInv, HistTyped, MarkersKept, Remember, NEW q \in Procs,
         AttemptInv(q), HistoryInv(q), TypeInv', FinishDeployment
  PROVE  AttemptInv(q)' /\ HistoryInv(q)'
<1>1. /\ src' = src /\ mark' = mark + 1 /\ setup' = setup /\ ref' = ref /\ pc' = pc
      /\ round' = round /\ obs' = obs /\ deploying /\ DeployFrame
  BY DEF FinishDeployment, DeployFrame, callVars, rootVars
<1>2. hasty \in BOOLEAN /\ (~hasty' => ~hasty)
  BY DEF HistTyped, Remember
<1>3. mark \in Nat /\ obs[q].marker \in Nat
  <2>1. obs[q].marker \in Markers
    BY CallFacts
  <2>q. QED  BY <2>1 DEF TypeInv, SourceTyped, Markers
<1>4. ObservedDeployed(q)'
  <2>1. setup.marker /\ MarkerSeen(q) /\ ~hasty => obs[q].marker = ReleasedMarker
    BY <1>1, NothingElseSeen DEF HistoryInv
  <2>q. QED  BY <1>1, <1>2, <1>3, <2>1 DEF HistoryInv, ObservedDeployed,
                  ReleasedMarker, MarkerSeen
<1>q. QED  BY <1>1, <1>4, SourceMoves DEF HistoryInv

LEMMA PowerHolds ==
  ASSUME TypeInv, NEW q \in Procs, PowerFailure
  PROVE  AttemptInv(q)' /\ HistoryInv(q)'
BY IdleHolds DEF PowerFailure

(* The state file stays true of a source that moves on.                    *)

LEMMA DeployStored ==
  ASSUME TypeInv, StoreInv, TypeInv', Deploy
  PROVE  StoreInv'
<1>1. /\ state' = state /\ objects' = objects /\ committed' = committed
  BY DEF Deploy, StartDeployment, DeployObject, FinishDeployment, DeployFrame,
       mirrorVars, rootVars
<1>2. ASSUME NEW l \in Keys
      PROVE  /\ src[l].sig \in Nat /\ src'[l].sig \in Nat
             /\ src'[l] = src[l] \/ src[l].sig < src'[l].sig
  <2>1. src[l].sig \in Nat /\ src'[l].sig \in Nat
    BY DEF TypeInv, SourceTyped, Inventories, Objects, Signatures
  <2>2. CASE src' = src
    BY <2>1, <2>2
  <2>3. ASSUME NEW k \in Keys, DeployObject(k)
        PROVE  src'[l] = src[l] \/ src[l].sig < src'[l].sig
    <3>1. PICK c : src' = [src EXCEPT ![k] = [bytes |-> c, sig |-> src[k].sig + 1]]
      BY <2>3 DEF DeployObject
    <3>2. src'[l] = IF l = k THEN [bytes |-> c, sig |-> src[k].sig + 1] ELSE src[l]
      BY <3>1 DEF TypeInv, SourceTyped, Inventories
    <3>q. QED  BY <2>1, <3>2
  <2>q. QED  BY <2>1, <2>2, <2>3 DEF Deploy, StartDeployment, FinishDeployment
<1>3. RecordedTruly'
  <2>1. ASSUME NEW k \in Keys, state # NoState, state[k] # Absent
        PROVE  TrueOf(state[k], src'[k])
    <3>1. TrueOf(state[k], src[k])
      BY <2>1 DEF StoreInv, RecordedTruly
    <3>2. state[k].sig \in Nat
      BY <2>1 DEF TypeInv, MirrorTyped, Records, Signatures
    <3>q. QED  BY <1>2, <3>1, <3>2 DEF TrueOf
  <2>q. QED  BY <1>1, <2>1 DEF RecordedTruly
<1>q. QED  BY <1>1, <1>3 DEF StoreInv, ObjectsTrue, CommittedComplete,
                HasObject

(* The deployments keep the markers' invariant: one that begins too early is *)
(* hasty, and the last write is the marker of what has been written.       *)

LEMMA MarkersAtStart ==
  ASSUME TypeInv, HistTyped, MarkersKept, Remember, StartDeployment
  PROVE  MarkersKept'
<1>1. /\ src' = src /\ mark' = mark /\ setup' = setup /\ ref' = ref
      /\ deploying' = TRUE /\ ~deploying
  BY DEF StartDeployment, DeployFrame, rootVars
<1>2. /\ deployed' = deployed /\ ReleasedMarker' = ReleasedMarker
      /\ hasty' <=> hasty \/ mark # ReleasedMarker
  BY <1>1 DEF HistTyped, Remember, ReleasedMarker
<1>q. QED  BY <1>1, <1>2 DEF MarkersKept, ReleasedWasDeployed

LEMMA MarkersAtObject ==
  ASSUME TypeInv, HistTyped, MarkersKept, Remember, NEW k \in Keys,
         DeployObject(k)
  PROVE  MarkersKept'
<1>1. /\ mark' = mark /\ setup' = setup /\ ref' = ref
      /\ deploying' = deploying /\ deploying
  BY DEF DeployObject, DeployFrame, rootVars, TypeInv, SourceTyped
<1>2. /\ deployed' = deployed /\ ReleasedMarker' = ReleasedMarker /\ (hasty' <=> hasty)
  BY <1>1 DEF HistTyped, Remember, ReleasedMarker
<1>q. QED  BY <1>1, <1>2 DEF MarkersKept, ReleasedWasDeployed

LEMMA MarkersAtFinish ==
  ASSUME TypeInv, HistTyped, MarkersKept, Remember, FinishDeployment
  PROVE  MarkersKept'
<1>1. /\ mark' = mark + 1 /\ setup' = setup /\ ref' = ref /\ src' = src
      /\ deploying' = FALSE /\ deploying /\ mark < MaxDeployments
  BY DEF FinishDeployment, DeployFrame, rootVars, TypeInv, SourceTyped
<1>2. mark \in Nat /\ mark' \in Markers \ {0}
  BY <1>1, MirrorAssumption DEF TypeInv, SourceTyped, Markers
<1>3. /\ deployed' = [deployed EXCEPT ![mark'] = src] /\ ReleasedMarker' = ReleasedMarker
      /\ (hasty' <=> hasty)
  BY <1>1, <1>2 DEF HistTyped, Remember, ReleasedMarker
<1>4. deployed'[mark'] = src /\ \A m \in Markers \ {0} : m # mark' => deployed'[m] = deployed[m]
  BY <1>2, <1>3 DEF HistTyped
<1>5. ReleasedMarker \in Markers
  BY MirrorAssumption DEF ReleasedMarker, TypeInv, RootTyped, Releases,
       Observations, Markers
<1>6. CASE ~setup.marker
  BY <1>1, <1>6 DEF MarkersKept
<1>7. CASE setup.marker
  <2>1. ReleasedMarker <= mark /\ ReleasedMarker <= mark' /\ ReleasedMarker # mark'
    BY <1>1, <1>2, <1>5, <1>7 DEF MarkersKept, Markers
  <2>2. ReleasedWasDeployed'
    <3>1. SUFFICES ASSUME ~hasty, ref # NoRef
                   PROVE  Sigs(ref.source.entries) = Sigs(deployed'[ref.source.marker])
      BY <1>1, <1>3 DEF ReleasedWasDeployed
    <3>2. ref.source.marker = ReleasedMarker /\ ReleasedMarker # 0
      BY <1>7, <3>1 DEF MarkersKept, ReleasedMarker
    <3>3. deployed'[ref.source.marker] = deployed[ref.source.marker]
      BY <1>4, <1>5, <2>1, <3>2
    <3>q. QED  BY <1>7, <3>1, <3>3 DEF MarkersKept, ReleasedWasDeployed
  <2>3. ref # NoRef => ReleasedMarker # 0
    BY <1>7 DEF MarkersKept
  <2>q. QED  BY <1>1, <1>3, <1>4, <2>1, <2>2, <2>3 DEF MarkersKept
<1>q. QED  BY <1>6, <1>7

-----------------------------------------------------------------------------
(* The invariant.                                                          *)

LEMMA HistKept ==
  ASSUME HistTyped, TypeInv', Remember, src \in Inventories
  PROVE  HistTyped'
<1>1. Bytes(src') \in Versions
  <2>1. \A k \in Keys : src'[k].bytes \in Contents \cup {Absent}
    BY DEF TypeInv, SourceTyped, Inventories, Objects
  <2>q. QED  BY <2>1 DEF Bytes, Versions
<1>2. deployed' \in [Markers \ {0} -> Inventories]
  BY DEF HistTyped, Remember
<1>3. hasty' \in BOOLEAN
  BY DEF HistTyped, Remember
<1>4. fresh' \in [Procs -> SUBSET Versions]
  BY <1>1 DEF HistTyped, Remember
<1>q. QED  BY <1>2, <1>3, <1>4 DEF HistTyped

LEMMA InitInv ==
  ASSUME Init
  PROVE  IInv
<1>1. TypeInv /\ HistTyped
  <2>1. src \in Inventories /\ mark \in Markers /\ MaxWrites \in Nat
    BY MirrorAssumption DEF Init, Inventories, Objects, Signatures, Markers
  <2>2. \A k \in Keys : writes + Cardinality(pending) + src[k].sig <= MaxWrites
    BY <2>1, FS_EmptySet DEF Init
  <2>3. SourceTyped
    <3>1. /\ setup \in Setups /\ pending \in SUBSET Keys /\ pending = {}
          /\ deploying = FALSE /\ writes = MaxWrites
      BY DEF Init
    <3>2. writes \in 0 .. MaxWrites
      BY <2>1, <3>1
    <3>q. QED  BY <2>1, <2>2, <3>1, <3>2 DEF SourceTyped
  <2>4. MirrorTyped
    BY DEF Init, MirrorTyped, EmptyMirror
  <2>5. RootTyped
    BY DEF Init, RootTyped
  <2>6. CallTyped
    BY NothingTyped, FirstOfAll DEF Init, CallTyped
  <2>7. PcTyped
    BY MirrorAssumption DEF Init, PcTyped, Labels
  <2>8. HistTyped
    BY NothingTyped DEF Init, HistTyped
  <2>q. QED  BY <2>3, <2>4, <2>5, <2>6, <2>7, <2>8 DEF TypeInv
<1>2. StoreInv
  BY DEF Init, StoreInv, RecordedTruly, ObjectsTrue, CommittedComplete
<1>3. MarkersKept
  BY DEF Init, MarkersKept, ReleasedMarker, ReleasedWasDeployed
<1>4. ASSUME NEW p \in Procs
      PROVE  AttemptInv(p) /\ HistoryInv(p)
  <2>1. /\ pc[p] = "idle" /\ at[p] = 1 /\ round[p] = 1
        /\ obs[p] = NothingObserved /\ hash[p] = Blank
    BY DEF Init
  <2>2. Observed(p) = {} /\ Hashed(p) = {}
    BY <2>1 DEF Observed, Exists, NothingObserved, NoObjects, Hashed
  <2>3. Place(p) /\ ObservedTruly(p) /\ RecordsAgree(p)
    BY <2>1, <2>2 DEF Place, ObservedTruly, RecordsAgree
  <2>4. HashesTrue(p)
    BY <2>1, <2>2 DEF HashesTrue, Blank
  <2>5. UploadedTo(p) /\ TransitionKept(p)
    BY <2>1, <2>2 DEF UploadedTo, TransitionKept
  <2>6. FreshRemembered(p) /\ ObservedDeployed(p)
    BY <2>1 DEF FreshRemembered, ObservedDeployed, MarkerSeen
  <2>q. QED  BY <2>3, <2>4, <2>5, <2>6 DEF AttemptInv, HistoryInv
<1>q. QED  BY <1>1, <1>2, <1>3, <1>4 DEF IInv

LEMMA StepTyped ==
  ASSUME IInv, Step
  PROVE  TypeInv'
<1>1. TypeInv /\ \A p \in Procs : AttemptInv(p)
  BY DEF IInv
<1>2. ASSUME NEW p \in Procs, Attempt(p) \/ Crash(p)
      PROVE  TypeInv'
  BY <1>1, <1>2, BeginTyped, MarkerBeforeTyped, ListObjectTyped,
       MarkerAfterTyped, PrepareMirrorTyped, ReuseFileTyped, DownloadTyped,
       WriteStateTyped, DecideTyped, ServerSideCopyTyped, UploadTyped,
       CopyFailsTyped, PutManifestTyped, PutRefTyped, CrashTyped DEF Attempt,
       Observe, Synchronize, Publish
<1>3. CASE Deploy
  BY <1>1, <1>3, StartDeploymentTyped, DeployObjectTyped,
       FinishDeploymentTyped DEF Deploy
<1>4. CASE PowerFailure
  BY <1>1, <1>4, PowerFailureTyped
<1>q. QED  BY <1>2, <1>3, <1>4 DEF Step

LEMMA ActionHolds ==
  ASSUME TypeInv, HistTyped, StoreInv, MarkersKept, Remember, NEW p \in Procs,
         AttemptInv(p), HistoryInv(p), Attempt(p) \/ Crash(p)
  PROVE  AttemptInv(p)' /\ HistoryInv(p)'
BY BeginHolds, MarkerBeforeHolds, ListObjectHolds, MarkerAfterHolds,
     PrepareMirrorHolds, ReuseFileHolds, DownloadHolds, WriteStateHolds,
     DecideHolds, ServerSideCopyHolds, UploadHolds, CopyFailsHolds,
     PutManifestHolds, PutRefHolds, CrashHolds
   DEF Attempt, Observe, Synchronize, Publish

(* Only PutRef moves the reference.                                        *)

LEMMA OthersKeepRef ==
  ASSUME NEW p \in Procs, Attempt(p) \/ Crash(p), ~PutRef(p)
  PROVE  ref' = ref
<1>1. CASE Begin(p) \/ Observe(p) \/ Crash(p)
  BY <1>1 DEF Begin, BeginWithLock, Observe, MarkerBefore, ListObject,
       MarkerAfter, Crash, rootVars
<1>2. CASE Synchronize(p)
  BY <1>2 DEF Synchronize, PrepareMirror, ReuseFile, Download, WriteState,
       rootVars
<1>3. CASE Publish(p)
  BY <1>3 DEF Publish, Decide, ServerSideCopy, Upload, CopyFails, UploadFile,
       PutManifest, rootVars
<1>q. QED  BY <1>1, <1>2, <1>3 DEF Attempt

LEMMA ActionStored ==
  ASSUME TypeInv, HistTyped, StoreInv, MarkersKept, Remember, NEW p \in Procs,
         AttemptInv(p), HistoryInv(p), Attempt(p) \/ Crash(p)
  PROVE  StoreInv' /\ MarkersKept'
<1>1. UNCHANGED <<setup, sourceVars>>
  BY DEF Attempt, Observe, Synchronize, Publish, Begin, BeginWithLock,
       CopyFails, Crash, Decide, Download, ListObject, MarkerAfter,
       MarkerBefore, PrepareMirror, PutManifest, PutRef, ReuseFile,
       ServerSideCopy, Upload, UploadFile, WriteState, Frame
<1>2. src' = src
  BY <1>1 DEF sourceVars
<1>3. StoreInv'
  <2>1. CASE WriteState(p) \/ PutManifest(p)
    BY <2>1, StateStored, ManifestStored
  <2>2. CASE ServerSideCopy(p) \/ Upload(p) \/ CopyFails(p)
    BY <2>2, ServerSideCopyHolds, UploadHolds, CopyFailsHolds
  <2>3. CASE PutRef(p) \/ Crash(p) \/ Begin(p) \/ Observe(p) \/ Decide(p)
             \/ PrepareMirror(p) \/ ReuseFile(p) \/ Download(p)
    <3>1. UNCHANGED <<state, objects, committed>>
      BY <2>3 DEF PutRef, Crash, BeginWithLock, Begin, Observe, MarkerBefore,
           ListObject,
           MarkerAfter, Decide, PrepareMirror, ReuseFile, Download, mirrorVars, rootVars
    <3>q. QED  BY <1>2, <3>1, StoreKept
  <2>q. QED  BY <2>1, <2>2, <2>3 DEF Attempt, Synchronize, Publish
<1>4. MarkersKept'
  <2>1. CASE PutRef(p)
    BY <2>1, MarkersReleased
  <2>2. CASE ~PutRef(p)
    <3>1. ref' = ref
      BY <2>2, OthersKeepRef
    <3>q. QED  BY <1>1, <3>1, MarkersStay
  <2>q. QED  BY <2>1, <2>2
<1>q. QED  BY <1>3, <1>4

LEMMA NextInv ==
  ASSUME IInv, [Next]_vars
  PROVE  IInv'
<1>0. /\ TypeInv /\ HistTyped /\ StoreInv /\ MarkersKept
      /\ \A q \in Procs : AttemptInv(q) /\ HistoryInv(q)
  BY DEF IInv
<1>1. ASSUME Step, Remember
      PROVE  IInv'
  <2>1. TypeInv'
    BY <1>1, StepTyped
  <2>2. HistTyped'
    BY <1>0, <1>1, <2>1, HistKept DEF TypeInv, SourceTyped
  <2>3. ASSUME NEW p \in Procs, Attempt(p) \/ Crash(p)
        PROVE  StoreInv' /\ MarkersKept' /\ \A q \in Procs : AttemptInv(q)' /\ HistoryInv(q)'
    <3>1. StoreInv' /\ MarkersKept'
      BY <1>0, <1>1, <2>3, ActionStored
    <3>2. AttemptInv(p)' /\ HistoryInv(p)'
      BY <1>0, <1>1, <2>3, ActionHolds
    <3>3. \A q \in Procs \ {p} : AttemptInv(q)' /\ HistoryInv(q)'
      BY <1>0, <2>3, AttemptAlone, OthersHold
    <3>q. QED  BY <3>1, <3>2, <3>3
  <2>4. ASSUME Deploy
        PROVE  StoreInv' /\ MarkersKept' /\ \A q \in Procs : AttemptInv(q)' /\ HistoryInv(q)'
    <3>1. MarkersKept'
      BY <1>0, <1>1, <2>4, MarkersAtStart, MarkersAtObject, MarkersAtFinish
           DEF Deploy
    <3>2. \A q \in Procs : AttemptInv(q)' /\ HistoryInv(q)'
      BY <1>0, <1>1, <2>1, <2>4, StartHolds, DeployHolds, FinishHolds DEF
           Deploy
    <3>3. StoreInv'
      BY <1>0, <1>1, <2>1, <2>4, DeployStored
    <3>q. QED  BY <3>1, <3>2, <3>3
  <2>5. ASSUME PowerFailure
        PROVE  StoreInv' /\ MarkersKept' /\ \A q \in Procs : AttemptInv(q)' /\ HistoryInv(q)'
    <3>1. UNCHANGED <<setup, sourceVars>> /\ UNCHANGED <<src, state, objects, committed, ref>>
      BY <2>5 DEF PowerFailure, sourceVars, rootVars
    <3>q. QED  BY <1>0, <1>1, <2>5, <3>1, MarkersStay, StoreKept, PowerHolds
  <2>6. StoreInv' /\ MarkersKept' /\ \A q \in Procs : AttemptInv(q)' /\ HistoryInv(q)'
    BY <1>1, <2>3, <2>4, <2>5 DEF Step
  <2>q. QED  BY <2>1, <2>2, <2>6 DEF IInv
<1>2. CASE UNCHANGED vars
  <2>0. UNCHANGED <<setup, src, mark, writes, pending, deploying, mirror, state, objects, committed,
                    ref, lock, mishaps, pc, round, at, obs, hash, changed, copying, conf,
                    deployed, hasty, fresh>>
    BY <1>2 DEF vars, sourceVars, mirrorVars, rootVars, callVars, histVars
  <2>1. TypeInv' /\ HistTyped'
    BY <1>0, <2>0 DEF TypeInv, HistTyped, SourceTyped, MirrorTyped, RootTyped,
         CallTyped, PcTyped
  <2>2. StoreInv'
    BY <1>0, <2>0, StoreKept
  <2>3. MarkersKept'
    BY <1>0, <2>0 DEF MarkersKept, ReleasedMarker, ReleasedWasDeployed
  <2>4. ASSUME NEW q \in Procs PROVE AttemptInv(q)' /\ HistoryInv(q)'
    <3>1. /\ Observed(q)' = Observed(q) /\ Hashed(q)' = Hashed(q)
          /\ \A k : /\ Passed(q, k)' <=> Passed(q, k)
                    /\ Verified(q, k)' <=> Verified(q, k)
                    /\ Third(q, k)' <=> Third(q, k)
      BY <2>0 DEF Observed, Hashed, Passed, Verified, Third
    <3>2. AttemptInv(q)'
      BY <1>0, <2>0, <3>1 DEF AttemptInv, Place, ObservedTruly, RecordsAgree,
           HashesTrue, UploadedTo,
           HasObject, TransitionKept, ValidTransition
    <3>3. FreshRemembered(q)'
      <4>1. \A s : SourceOfThird(q, s)' <=> SourceOfThird(q, s)
        BY <2>0, <3>1 DEF SourceOfThird
      <4>q. QED  BY <1>0, <2>0, <3>1, <4>1 DEF HistoryInv, FreshRemembered
    <3>4. ObservedDeployed(q)'
      BY <1>0, <2>0, <3>1 DEF HistoryInv, ObservedDeployed, ReleasedMarker,
           MarkerSeen
    <3>q. QED  BY <3>2, <3>3, <3>4 DEF HistoryInv
  <2>q. QED  BY <2>1, <2>2, <2>3, <2>4 DEF IInv
<1>q. QED  BY <1>1, <1>2 DEF Next

(* The invariant holds in every reachable state.                           *)
THEOREM MirrorInvariant == Spec => []IInv
<1>1. Init => IInv
  BY InitInv
<1>2. IInv /\ [Next]_vars => IInv'
  BY NextInv
<1>q. QED  BY <1>1, <1>2, PTL DEF Spec

-----------------------------------------------------------------------------
(* What follows from it.                                                   *)

(* Every variable keeps its type, and only the process that has the host's *)
(* lock is in an attempt.                                                  *)
THEOREM MirrorTypeCorrect == Spec => []TypeOK
<1>1. IInv => TypeOK
  BY DEF IInv, TypeInv, HistTyped, SourceTyped, MirrorTyped, RootTyped,
       CallTyped, PcTyped, TypeOK
<1>q. QED  BY <1>1, MirrorInvariant, PTL

(* What _publish_from_source_if_ready works with are the bytes of the      *)
(* observation, whatever a crash, a power failure, a download of newer     *)
(* bytes or a reused file did to the mirror.                               *)
THEOREM ObservedIsPublished == Spec => []PublishedIsObserved
<1>1. IInv => PublishedIsObserved
  <2>1. ASSUME IInv, NEW p \in Procs, pc[p] \in Publishing
        PROVE  hash[p] = Bytes(obs[p].entries)
    <3>1. TypeInv /\ AttemptInv(p)
      BY <2>1 DEF IInv
    <3>2. /\ \A k \in Observed(p) : hash[p][k] = obs[p].entries[k].bytes
          /\ \A k \in Keys : hash[p][k] # Absent <=> k \in Observed(p)
      BY <2>1, <3>1, HashesReady
    <3>3. \A k \in Keys : hash[p][k] = obs[p].entries[k].bytes
      BY <3>2 DEF Observed, Exists
    <3>4. hash[p] \in Versions
      BY <3>1 DEF TypeInv, CallTyped
    <3>q. QED  BY <3>3, <3>4 DEF Versions, Bytes
  <2>q. QED  BY <2>1 DEF PublishedIsObserved, Publishing
<1>q. QED  BY <1>1, MirrorInvariant, PTL

(* A snapshot with a manifest has every object, with the bytes of its      *)
(* version: a server-side copy of what was not observed, or an upload of a *)
(* file that is not what was hashed, never gets there.                     *)
THEOREM ManifestMeansWhole == Spec => []CommittedIsWhole
<1>1. IInv => CommittedIsWhole
  <2>1. ASSUME IInv, NEW v \in committed, NEW k \in Keys
        PROVE  {o.bytes : o \in {x \in objects : x.version = v /\ x.key = k}} = {v[k]} \ {Absent}
    <3>1. ObjectsTrue /\ CommittedComplete
      BY <2>1 DEF IInv, StoreInv
    <3>2. ASSUME NEW o \in objects, o.version = v, o.key = k
          PROVE  o.bytes = v[k] /\ v[k] # Absent
      BY <3>1, <3>2 DEF ObjectsTrue
    <3>3. v[k] # Absent => \E o \in objects : o.version = v /\ o.key = k
      BY <3>1 DEF CommittedComplete, HasObject
    <3>q. QED  BY <3>2, <3>3
  <2>q. QED  BY <2>1 DEF CommittedIsWhole
<1>q. QED  BY <1>1, MirrorInvariant, PTL

(* With a deployment marker, and unless a deployment began before the last *)
(* one was released, a release is of one complete deployment.              *)
THEOREM ReleaseIsDeployment == Spec => []ReleasedWasDeployed
<1>1. IInv => ReleasedWasDeployed
  <2>1. CASE setup.marker
    BY <2>1 DEF IInv, MarkersKept
  <2>2. CASE ~setup.marker
    BY <2>2 DEF ReleasedWasDeployed
  <2>q. QED  BY <2>1, <2>2
<1>q. QED  BY <1>1, MirrorInvariant, PTL

(* A process that is about to release moves on by releasing only.          *)

LEMMA OnlyPutRef ==
  ASSUME TypeInv, NEW p \in Procs, pc[p] = "putRef", Step, ref' # ref
  PROVE  PutRef(p)
<1>1. \A q \in Procs : pc[q] # "idle" => q = p
  BY DEF TypeInv, PcTyped
<1>2. PICK q \in Procs : PutRef(q)
  <2>1. CASE Deploy \/ PowerFailure
    BY <2>1 DEF Deploy, StartDeployment, DeployObject, FinishDeployment,
         DeployFrame, PowerFailure,
       rootVars
  <2>2. CASE \E q \in Procs : Attempt(q) \/ Crash(q)
    BY <2>2, OthersKeepRef
  <2>q. QED  BY <2>1, <2>2 DEF Step
<1>3. q = p
  BY <1>1, <1>2 DEF PutRef
<1>q. QED  BY <1>2, <1>3

(* What _publish_from_source_if_ready writes into the reference was in the *)
(* source after its snapshot was complete, all of it at one moment; what   *)
(* it leaves out was missing then.                                         *)
THEOREM ReleasesWereCurrent == Spec => ReleasedWasCurrent
<1>1. ASSUME IInv, [Next]_vars, NEW p \in Procs, pc[p] = "putRef", ref' # ref
      PROVE  /\ \E s \in fresh[p] : \A k \in Keys :
                  ref'.version[k] # Absent => s[k] = ref'.version[k]
             /\ \A k \in Keys : ref'.version[k] = Absent =>
                  \E s \in fresh[p] : s[k] = Absent
  <2>1. TypeInv /\ AttemptInv(p) /\ HistoryInv(p)
    BY <1>1 DEF IInv
  <2>2. ref'.version = hash[p] /\ round[p] = 3
    <3>1. Step
      BY <1>1 DEF Next, vars, rootVars
    <3>2. PutRef(p)
      BY <1>1, <2>1, <3>1, OnlyPutRef
    <3>q. QED  BY <1>1, <2>1, <3>2 DEF PutRef, Target, AttemptInv, Place
  <2>3. /\ \A k \in Observed(p) : hash[p][k] = obs[p].entries[k].bytes
        /\ \A k \in Keys : hash[p][k] # Absent <=> k \in Observed(p)
    BY <1>1, <2>1, HashesReady DEF Publishing
  <2>4. \A k \in Keys : Third(p, k)
    BY <1>1, <2>2 DEF Third, Passed
  <2>5. PICK s \in fresh[p] : SourceOfThird(p, s)
    BY <2>1, <2>2 DEF HistoryInv, FreshRemembered
  <2>6. \A k \in Observed(p) : s[k] = hash[p][k]
    BY <2>1, <2>3, <2>4, <2>5, CallFacts DEF SourceOfThird
  <2>7. \A k \in Keys \ Observed(p) : \E t \in fresh[p] : t[k] = Absent
    BY <2>1, <2>2, <2>4 DEF HistoryInv, FreshRemembered
  <2>q. QED  BY <2>2, <2>3, <2>6, <2>7
<1>2. IInv /\ [Next]_vars
        => [\A p \in Procs : pc[p] = "putRef" /\ ref' # ref =>
              /\ \E s \in fresh[p] : \A k \in Keys :
                   ref'.version[k] # Absent => s[k] = ref'.version[k]
              /\ \A k \in Keys : ref'.version[k] = Absent =>
                   \E s \in fresh[p] : s[k] = Absent]_vars
  BY <1>1
<1>q. QED  BY <1>2, MirrorInvariant, PTL DEF Spec, ReleasedWasCurrent

=============================================================================
