---------------------------- MODULE LocalProofs ----------------------------
(***************************************************************************)
(* The inductive invariant of LocalPublish and what follows from it, for   *)
(* every value of the constants.                                           *)
(***************************************************************************)
EXTENDS LocalPublish, TLAPS, WellFoundedInduction

(* TypeOK in parts, each with what the types alone do not carry through a  *)
(* step: the folder is never empty, a call is at a file of its walk, and   *)
(* whoever goes on with the flock, the command's hashing included, has it. *)

TreeTyped ==
  /\ tree \in [Files -> [bytes : Contents \cup {Absent}, stamp : 0 .. MaxWrites]]
  /\ writes \in 0 .. MaxWrites
  /\ mishaps \in 0 .. MaxMishaps
  /\ \A f \in Files : tree[f].stamp <= writes
  /\ Present # {}

RootTyped ==
  /\ snaps \in SUBSET Snapshots
  /\ ref \in Versions
  /\ saved \in [snaps : SUBSET Snapshots, ref : Versions]

CallTyped ==
  /\ listed \in [Publishers -> SUBSET Files]
  /\ stamp \in [Publishers -> [Files -> 0 .. MaxWrites]]
  /\ built \in [Publishers -> Maps]
  /\ at \in [Publishers -> Files]
  /\ temp \in [Publishers -> Maps \cup {NoTemp}]

PcTyped ==
  /\ pc \in [Publishers -> Labels]
  /\ \A p \in Publishers : pc[p] # "idle" => at[p] \in listed[p]

LockTyped ==
  /\ lock \in Publishers \cup {Nobody}
  /\ \A p \in Publishers :
       pc[p] \in LockLabels \/ (pc[p] = "hash" /\ p \in Commands) => lock = p

StagingTyped ==
  \A p \in Publishers : pc[p] \in {"copy", "rename"} => temp[p] \in Maps

HistTyped ==
  /\ begun \in [Publishers -> SUBSET Maps]
  /\ fresh \in [Publishers -> SUBSET Maps]
  /\ orphans \in SUBSET Maps

TypeInv == /\ TreeTyped /\ RootTyped /\ CallTyped /\ PcTyped
           /\ LockTyped /\ StagingTyped

-----------------------------------------------------------------------------
(* What a call knows about the source, by the stamps of its walk.          *)

Unhashed(q) == pc[q] \in {"idle", "walk"} \/ (pc[q] = "lock" /\ q \in Commands)
Hashed(q, f) ==
  f \in listed[q] /\ ~Unhashed(q) /\ (pc[q] = "hash" => f < at[q])

SameStamp(q, f) == stamp[q][f] = tree[f].stamp

(* The manifest has the files of the walk that are hashed, with the bytes  *)
(* that a file with its stamp still has.                                   *)
ManifestKept(q) ==
  \A f \in Files :
    /\ built[q][f] # Absent <=> Hashed(q, f)
    /\ Hashed(q, f) /\ SameStamp(q, f) => tree[f].bytes = built[q][f]

(* The temporary folder has the files that are copied, as the manifest has *)
(* them, and nothing else.                                                 *)
StagingMatches(q) ==
  /\ pc[q] = "copy" =>
       \A f \in Files :
         temp[q][f] = IF f \in listed[q] /\ f < at[q] THEN built[q][f] ELSE Absent
  /\ pc[q] = "rename" => temp[q] = built[q]

(* A walk, the hashing, the copying and the second walk begin at the first *)
(* file.                                                                   *)
AtFirst(q) ==
  pc[q] \notin {"idle", "walk", "hash", "copy", "restat"} =>
    \A f \in listed[q] : at[q] <= f

StampsPast(q) == \A f \in Files : stamp[q][f] <= tree[f].stamp

CallInv(q) ==
  AtFirst(q) /\ StampsPast(q) /\ ManifestKept(q) /\ StagingMatches(q)

-----------------------------------------------------------------------------
(* The published_root.                                                     *)

NamesOf(S) == {s.name : s \in S}

(* Every folder is durable with what its name says: a power failure can    *)
(* only take the name away.                                                *)
SnapshotsWhole == \A s \in snaps : s.safe /\ s.holds = s.name

Settled == orphans \cup NamesOf(saved.snaps)

(* A name of the root is durable, the lost publisher's, or about to be     *)
(* synced; a reference and a publisher that goes on to write one have only *)
(* the first two.                                                          *)
NamesSettled ==
  /\ saved.snaps \subseteq snaps
  /\ \A s \in snaps :
       \/ s.name \in Settled
       \/ \E q \in Publishers : pc[q] = "syncName" /\ built[q] = s.name
  /\ \A v \in {ref, saved.ref} : v # NoVersion => v \in Settled
  /\ \A q \in Publishers :
       /\ pc[q] \in Confirming => built[q] \in Settled
       /\ pc[q] = "syncName" => built[q] \in Names

RootInv == SnapshotsWhole /\ NamesSettled

-----------------------------------------------------------------------------
(* The trees there were.                                                   *)

Walked == {"hash", "lock", "sweep", "exists", "copy", "rename"}

(* t was the tree at the end of the walk, as far as the stamps and the     *)
(* manifest tell.                                                          *)
TreeOfWalk(q, t) ==
  \A f \in Files :
    /\ f \in listed[q] /\ SameStamp(q, f) => t[f] = tree[f].bytes
    /\ built[q][f] # Absent => t[f] = built[q][f]

WalkRemembered(q) ==
  /\ pc[q] \in Walked => \E t \in begun[q] : TreeOfWalk(q, t)
  /\ pc[q] \in {"walk"} \cup Walked =>
       \A f \in Files \ listed[q] : \E t \in begun[q] : t[f] = Absent

(* t was the tree when the second walk began.                              *)
TreeOfRestat(q, t) ==
  \A f \in Files :
    /\ f \notin listed[q] => t[f] = Absent
    /\ f \in listed[q] /\ SameStamp(q, f) => t[f] = tree[f].bytes
    /\ f \in listed[q] /\ (f < at[q] \/ pc[q] = "writeRef") => t[f] = built[q][f]

RestatRemembered(q) ==
  pc[q] \in {"restat", "writeRef"} => \E t \in fresh[q] : TreeOfRestat(q, t)

TreesInv(q) == WalkRemembered(q) /\ RestatRemembered(q)

IInv ==
  /\ TypeInv /\ HistTyped /\ RootInv
  /\ \A q \in Publishers : CallInv(q) /\ TreesInv(q)

-----------------------------------------------------------------------------
(* The first file of a walk, and the next.                                 *)

(* A set of files has a first one.                                         *)
LEMMA FirstFile ==
  ASSUME NEW S \in SUBSET Files, S # {}
  PROVE  First(S) \in S /\ \A g \in S : First(S) <= g
<1>1. S \in SUBSET Nat
  BY DEF Files
<1>2. PICK f \in S : \A g \in S : <<g, f>> \notin OpToRel(<, Nat)
  BY <1>1, NatLessThanWellFounded, WFMin
<1>3. \A g \in S : ~(g < f)
  BY <1>1, <1>2 DEF OpToRel
<1>4. \A g \in S : f <= g
  BY <1>1, <1>3
<1>q. QED  BY <1>4 DEF First

(* Proceed goes to the next file of the walk, and all before it are done,  *)
(* or to the first file when all of them are.                              *)
LEMMA ProceedFacts ==
  ASSUME TypeInv, NEW p \in Publishers, pc[p] # "idle",
         NEW label, NEW nextLabel, Proceed(p, label, nextLabel)
  PROVE  \E g \in listed[p] :
           /\ at' = [at EXCEPT ![p] = g]
           /\ \/ /\ pc' = [pc EXCEPT ![p] = nextLabel]
                 /\ \A h \in listed[p] : h < g <=> h <= at[p]
              \/ /\ pc' = [pc EXCEPT ![p] = label]
                 /\ \A h \in listed[p] : h <= at[p] /\ g <= h
<1>1. listed[p] \in SUBSET Files /\ at[p] \in listed[p] /\ at[p] \in Nat
  BY DEF TypeInv, CallTyped, PcTyped, Files
<1>2. \A h \in listed[p] : h \in Nat
  BY <1>1 DEF Files
<1>3. CASE After(p) # {}
  <2>1. /\ First(After(p)) \in After(p)
        /\ \A h \in After(p) : First(After(p)) <= h
    BY <1>1, <1>3, FirstFile DEF After
  <2>2. \A h \in listed[p] : h < First(After(p)) <=> h <= at[p]
    BY <1>1, <1>2, <2>1 DEF After
  <2>3. First(After(p)) \in listed[p]
    BY <2>1 DEF After
  <2>4. at' = [at EXCEPT ![p] = First(After(p))]
    BY <1>3 DEF Proceed
  <2>5. pc' = [pc EXCEPT ![p] = nextLabel]
    BY <1>3 DEF Proceed, Goto
  <2>q. QED  BY <2>2, <2>3, <2>4, <2>5
<1>4. CASE After(p) = {}
  <2>1. First(listed[p]) \in listed[p] /\ \A h \in listed[p] : First(listed[p]) <= h
    BY <1>1, FirstFile
  <2>2. \A h \in listed[p] : h <= at[p]
    BY <1>1, <1>2, <1>4 DEF After
  <2>3. at' = [at EXCEPT ![p] = First(listed[p])]
    BY <1>4 DEF Proceed
  <2>4. pc' = [pc EXCEPT ![p] = label]
    BY <1>4 DEF Proceed, Goto
  <2>q. QED  BY <2>1, <2>2, <2>3, <2>4
<1>q. QED  BY <1>3, <1>4

-----------------------------------------------------------------------------
(* Every action preserves TypeInv, part by part.                           *)

LEMMA EndTyped ==
  ASSUME TypeInv, NEW p \in Publishers, End(p)
  PROVE  CallTyped' /\ PcTyped' /\ LockTyped' /\ StagingTyped'
<1>1. CallTyped'
  BY LocalPublishAssumption DEF TypeInv, CallTyped, End, Maps, Blank,
       Unstamped, Files
<1>2. PcTyped'
  BY DEF TypeInv, PcTyped, CallTyped, End, Goto, Labels
<1>3. LockTyped'
  BY DEF TypeInv, LockTyped, PcTyped, End, Goto, FreedLock, LockLabels
<1>4. StagingTyped'
  BY DEF TypeInv, StagingTyped, CallTyped, PcTyped, End, Goto
<1>q. QED  BY <1>1, <1>2, <1>3, <1>4

LEMMA BlankMap == Blank \in Maps
BY DEF Blank, Maps

(* The file a call is at, and its bytes and stamp.                         *)
LEMMA AtFile ==
  ASSUME TypeInv, NEW p \in Publishers
  PROVE  /\ at[p] \in Files /\ listed[p] \subseteq Files
         /\ tree[at[p]].stamp \in 0 .. MaxWrites
         /\ tree[at[p]].bytes \in Contents \cup {Absent}
BY DEF TypeInv, CallTyped, TreeTyped

LEMMA RemainsTyped ==
  ASSUME NEW s \in Snapshots, NEW u \in Remains(s)
  PROVE  u \in Snapshots
BY BlankMap DEF Remains, Snapshots

LEMMA BeginTyped ==
  ASSUME TypeInv, NEW p \in Publishers, Begin(p)
  PROVE  TypeInv'
<1>1. TreeTyped'
  BY LocalPublishAssumption DEF TypeInv, TreeTyped, Present, Begin, Frame,
       rootVars, sourceVars, callVars
<1>2. RootTyped'
  BY DEF TypeInv, RootTyped, CallTyped, StagingTyped, Snapshots, Versions,
       Begin, Frame, rootVars, sourceVars, callVars
<1>3. CallTyped'
  BY LocalPublishAssumption, BlankMap, FirstFile DEF TypeInv, CallTyped,
       PcTyped, LockTyped, StagingTyped, Present, TreeTyped, Begin, Goto,
       Labels, LockLabels, Frame, rootVars, sourceVars, callVars
<1>4. PcTyped'
  <2>1. First(Present) \in Present
    BY FirstFile DEF TypeInv, TreeTyped, Present
  <2>2. pc' = [pc EXCEPT ![p] = "walk"] /\ listed' = [listed EXCEPT ![p] = Present]
        /\ at' = [at EXCEPT ![p] = First(Present)]
    BY DEF Begin, Goto
  <2>q. QED  BY <2>1, <2>2 DEF TypeInv, PcTyped, CallTyped, Labels
<1>5. LockTyped'
  BY LocalPublishAssumption, BlankMap, FirstFile DEF TypeInv, CallTyped,
       PcTyped, LockTyped, StagingTyped, Present, TreeTyped, Begin, Goto,
       Labels, LockLabels, Frame, rootVars, sourceVars, callVars
<1>6. StagingTyped'
  BY LocalPublishAssumption, BlankMap, FirstFile DEF TypeInv, CallTyped,
       PcTyped, LockTyped, StagingTyped, Present, TreeTyped, Begin, Goto,
       Labels, LockLabels, Frame, rootVars, sourceVars, callVars
<1>q. QED  BY <1>1, <1>2, <1>3, <1>4, <1>5, <1>6 DEF TypeInv

LEMMA StatTyped ==
  ASSUME TypeInv, NEW p \in Publishers, Stat(p)
  PROVE  TypeInv'
<1>1. TreeTyped'
  BY LocalPublishAssumption DEF TypeInv, TreeTyped, Present, Stat, Frame,
       rootVars, sourceVars, callVars
<1>2. RootTyped'
  BY DEF TypeInv, RootTyped, CallTyped, StagingTyped, Snapshots, Versions,
       Stat, Frame, rootVars, sourceVars, callVars
<1>3. CASE at[p] \in Present
  <2>1. PICK g \in listed[p] :
          /\ at' = [at EXCEPT ![p] = g]
          /\ \/ pc' = [pc EXCEPT ![p] = "walk"]
             \/ pc' = [pc EXCEPT ![p] = IF p \in Commands THEN "lock" ELSE "hash"]
    BY <1>3, ProceedFacts DEF Stat
  <2>2. CallTyped'
    <3>1. stamp' \in [Publishers -> [Files -> 0 .. MaxWrites]]
      <4>1. stamp' = [stamp EXCEPT ![p] = [stamp[p] EXCEPT ![at[p]] = tree[at[p]].stamp]]
        BY <1>3 DEF Stat
      <4>2. [stamp[p] EXCEPT ![at[p]] = tree[at[p]].stamp] \in [Files -> 0 .. MaxWrites]
        BY AtFile DEF TypeInv, CallTyped
      <4>q. QED  BY <4>1, <4>2 DEF TypeInv, CallTyped
    <3>2. at' \in [Publishers -> Files]
      BY <2>1, AtFile DEF TypeInv, CallTyped
    <3>q. QED  BY <1>3, <3>1, <3>2 DEF TypeInv, CallTyped, Stat, Frame,
                    rootVars, sourceVars, callVars
  <2>3. PcTyped'
    BY <1>3, <2>1, AtFile DEF TypeInv, CallTyped, PcTyped, LockTyped,
         StagingTyped, Maps, Labels, LockLabels, Stat, Frame, rootVars,
         sourceVars, callVars
  <2>4. LockTyped'
    BY <1>3, <2>1, AtFile DEF TypeInv, CallTyped, PcTyped, LockTyped,
         StagingTyped, Maps, Labels, LockLabels, Stat, Frame, rootVars,
         sourceVars, callVars
  <2>5. StagingTyped'
    BY <1>3, <2>1, AtFile DEF TypeInv, CallTyped, PcTyped, LockTyped,
         StagingTyped, Maps, Labels, LockLabels, Stat, Frame, rootVars,
         sourceVars, callVars
  <2>q. QED  BY <1>1, <1>2, <2>2, <2>3, <2>4, <2>5 DEF TypeInv
<1>4. CASE ~(at[p] \in Present)
  <2>1. End(p)
    BY <1>4 DEF Stat
  <2>q. QED  BY <1>1, <1>2, <2>1, EndTyped DEF TypeInv
<1>q. QED  BY <1>3, <1>4

LEMMA HashTyped ==
  ASSUME TypeInv, NEW p \in Publishers, Hash(p)
  PROVE  TypeInv'
<1>1. TreeTyped'
  BY LocalPublishAssumption DEF TypeInv, TreeTyped, Present, Hash, Unchanged,
       Frame, rootVars, sourceVars, callVars
<1>2. RootTyped'
  BY DEF TypeInv, RootTyped, CallTyped, StagingTyped, Snapshots, Versions,
       Hash, Unchanged, Frame, rootVars, sourceVars, callVars
<1>3. CASE Unchanged(p)
  <2>1. PICK g \in listed[p] :
          /\ at' = [at EXCEPT ![p] = g]
          /\ \/ pc' = [pc EXCEPT ![p] = "hash"]
             \/ pc' = [pc EXCEPT ![p] = IF p \in Commands THEN "sweep" ELSE "lock"]
    BY <1>3, ProceedFacts DEF Hash, Unchanged
  <2>2. CallTyped'
    <3>1. built' \in [Publishers -> Maps]
      <4>1. built' = [built EXCEPT ![p] = [built[p] EXCEPT ![at[p]] = tree[at[p]].bytes]]
        BY <1>3 DEF Hash
      <4>2. [built[p] EXCEPT ![at[p]] = tree[at[p]].bytes] \in Maps
        BY AtFile DEF TypeInv, CallTyped, Maps
      <4>q. QED  BY <4>1, <4>2 DEF TypeInv, CallTyped
    <3>2. at' \in [Publishers -> Files]
      BY <2>1, AtFile DEF TypeInv, CallTyped
    <3>q. QED  BY <1>3, <3>1, <3>2 DEF TypeInv, CallTyped, Hash, Unchanged,
                    Frame, rootVars, sourceVars, callVars
  <2>3. PcTyped'
    BY <1>3, <2>1, AtFile DEF TypeInv, CallTyped, PcTyped, LockTyped,
         StagingTyped, Maps, Labels, LockLabels, Hash, Unchanged, Frame,
         rootVars, sourceVars, callVars
  <2>4. LockTyped'
    BY <1>3, <2>1, AtFile DEF TypeInv, CallTyped, PcTyped, LockTyped,
         StagingTyped, Maps, Labels, LockLabels, Hash, Unchanged, Frame,
         rootVars, sourceVars, callVars
  <2>5. StagingTyped'
    BY <1>3, <2>1, AtFile DEF TypeInv, CallTyped, PcTyped, LockTyped,
         StagingTyped, Maps, Labels, LockLabels, Hash, Unchanged, Frame,
         rootVars, sourceVars, callVars
  <2>q. QED  BY <1>1, <1>2, <2>2, <2>3, <2>4, <2>5 DEF TypeInv
<1>4. CASE ~(Unchanged(p))
  <2>1. End(p)
    BY <1>4 DEF Hash, Unchanged
  <2>q. QED  BY <1>1, <1>2, <2>1, EndTyped DEF TypeInv
<1>q. QED  BY <1>3, <1>4

LEMMA TakeLockTyped ==
  ASSUME TypeInv, NEW p \in Publishers, TakeLock(p)
  PROVE  TypeInv'
<1>1. TreeTyped'
  BY LocalPublishAssumption DEF TypeInv, TreeTyped, Present, TakeLock,
       LockWith, Frame, rootVars, sourceVars, callVars
<1>2. RootTyped'
  BY DEF TypeInv, RootTyped, CallTyped, StagingTyped, Snapshots, Versions,
       TakeLock, LockWith, Frame, rootVars, sourceVars, callVars
<1>3. CASE End(p)
  BY <1>1, <1>2, <1>3, EndTyped DEF TypeInv
<1>4. CASE ~End(p)
  <2>1. CallTyped'
    BY <1>4, BlankMap, LocalPublishAssumption DEF TypeInv, CallTyped, PcTyped,
         LockTyped, StagingTyped, TakeLock, LockWith, Goto, Labels,
         LockLabels, Frame, rootVars, sourceVars, callVars
  <2>2. PcTyped'
    BY <1>4, BlankMap, LocalPublishAssumption DEF TypeInv, CallTyped, PcTyped,
         LockTyped, StagingTyped, TakeLock, LockWith, Goto, Labels,
         LockLabels, Frame, rootVars, sourceVars, callVars
  <2>3. LockTyped'
    BY <1>4, BlankMap, LocalPublishAssumption DEF TypeInv, CallTyped, PcTyped,
         LockTyped, StagingTyped, TakeLock, LockWith, Goto, Labels,
         LockLabels, Frame, rootVars, sourceVars, callVars
  <2>4. StagingTyped'
    BY <1>4, BlankMap, LocalPublishAssumption DEF TypeInv, CallTyped, PcTyped,
         LockTyped, StagingTyped, TakeLock, LockWith, Goto, Labels,
         LockLabels, Frame, rootVars, sourceVars, callVars
  <2>q. QED  BY <1>1, <1>2, <2>1, <2>2, <2>3, <2>4 DEF TypeInv
<1>q. QED  BY <1>3, <1>4

LEMMA SweepTyped ==
  ASSUME TypeInv, NEW p \in Publishers, Sweep(p)
  PROVE  TypeInv'
<1>1. TreeTyped'
  BY LocalPublishAssumption DEF TypeInv, TreeTyped, Present, Sweep, Frame,
       rootVars, sourceVars, callVars
<1>2. RootTyped'
  BY DEF TypeInv, RootTyped, CallTyped, StagingTyped, Snapshots, Versions,
       Sweep, Frame, rootVars, sourceVars, callVars
<1>3. CallTyped'
  BY DEF TypeInv, CallTyped, PcTyped, LockTyped, StagingTyped, Sweep, Goto,
       Labels, LockLabels, Frame, rootVars, sourceVars, callVars
<1>4. PcTyped'
  BY DEF TypeInv, CallTyped, PcTyped, LockTyped, StagingTyped, Sweep, Goto,
       Labels, LockLabels, Frame, rootVars, sourceVars, callVars
<1>5. LockTyped'
  BY DEF TypeInv, CallTyped, PcTyped, LockTyped, StagingTyped, Sweep, Goto,
       Labels, LockLabels, Frame, rootVars, sourceVars, callVars
<1>6. StagingTyped'
  BY DEF TypeInv, CallTyped, PcTyped, LockTyped, StagingTyped, Sweep, Goto,
       Labels, LockLabels, Frame, rootVars, sourceVars, callVars
<1>q. QED  BY <1>1, <1>2, <1>3, <1>4, <1>5, <1>6 DEF TypeInv

LEMMA CheckExistingTyped ==
  ASSUME TypeInv, NEW p \in Publishers, CheckExisting(p)
  PROVE  TypeInv'
<1>1. TreeTyped'
  BY LocalPublishAssumption DEF TypeInv, TreeTyped, Present, CheckExisting,
       Frame, rootVars, sourceVars, callVars
<1>2. RootTyped'
  BY DEF TypeInv, RootTyped, CallTyped, StagingTyped, Snapshots, Versions,
       CheckExisting, Frame, rootVars, sourceVars, callVars
<1>3. CASE End(p)
  BY <1>1, <1>2, <1>3, EndTyped DEF TypeInv
<1>4. CASE ~End(p)
  <2>1. /\ temp' \in {temp, [temp EXCEPT ![p] = Blank]}
        /\ UNCHANGED <<lock, listed, stamp, built, at>>
        /\ pc[p] = "exists"
        /\ pc' \in {[pc EXCEPT ![p] = "copy"], [pc EXCEPT ![p] = "relist"]}
        /\ pc' = [pc EXCEPT ![p] = "copy"] => temp' = [temp EXCEPT ![p] = Blank]
    BY <1>4 DEF CheckExisting, Goto, callVars, TypeInv, PcTyped
  <2>2. CallTyped'
    BY <2>1, BlankMap DEF TypeInv, CallTyped
  <2>3. PcTyped'
    BY <2>1 DEF TypeInv, PcTyped, Labels, LockLabels
  <2>4. LockTyped'
    BY <2>1 DEF TypeInv, LockTyped, PcTyped, LockLabels
  <2>5. StagingTyped'
    BY <2>1, BlankMap DEF TypeInv, CallTyped, StagingTyped, PcTyped
  <2>q. QED  BY <1>1, <1>2, <2>2, <2>3, <2>4, <2>5 DEF TypeInv
<1>q. QED  BY <1>3, <1>4

LEMMA CopyTyped ==
  ASSUME TypeInv, NEW p \in Publishers, Copy(p)
  PROVE  TypeInv'
<1>1. TreeTyped'
  BY LocalPublishAssumption DEF TypeInv, TreeTyped, Present, Copy, Copying,
       Frame, rootVars, sourceVars, callVars
<1>2. RootTyped'
  BY DEF TypeInv, RootTyped, CallTyped, StagingTyped, Snapshots, Versions,
       Copy, Copying, Frame, rootVars, sourceVars, callVars
<1>3. CASE at[p] \in Present /\ tree[at[p]].bytes = built[p][at[p]]
  <2>1. PICK g \in listed[p] :
          /\ at' = [at EXCEPT ![p] = g]
          /\ \/ pc' = [pc EXCEPT ![p] = "copy"]
             \/ pc' = [pc EXCEPT ![p] = "rename"]
    BY <1>3, ProceedFacts DEF Copy, Copying
  <2>0. /\ temp' = [temp EXCEPT ![p] = [temp[p] EXCEPT ![at[p]] = tree[at[p]].bytes]]
        /\ [temp[p] EXCEPT ![at[p]] = tree[at[p]].bytes] \in Maps
    <3>1. temp[p] \in Maps
      BY DEF TypeInv, StagingTyped, Copy, Copying
    <3>q. QED  BY <1>3, <3>1, AtFile DEF Copy, Copying, Maps
  <2>2. CallTyped'
    <3>1. temp' \in [Publishers -> Maps \cup {NoTemp}]
      BY <2>0 DEF TypeInv, CallTyped
    <3>2. at' \in [Publishers -> Files]
      BY <2>1, AtFile DEF TypeInv, CallTyped
    <3>q. QED  BY <1>3, <3>1, <3>2 DEF TypeInv, CallTyped, Copy, Copying,
                    Frame, rootVars, sourceVars, callVars
  <2>3. PcTyped'
    BY <1>3, <2>1, AtFile DEF TypeInv, CallTyped, PcTyped, LockTyped,
         StagingTyped, Maps, Labels, LockLabels, Copy, Copying, Frame,
         rootVars, sourceVars, callVars
  <2>4. LockTyped'
    BY <1>3, <2>1, AtFile DEF TypeInv, CallTyped, PcTyped, LockTyped,
         StagingTyped, Maps, Labels, LockLabels, Copy, Copying, Frame,
         rootVars, sourceVars, callVars
  <2>5. StagingTyped'
    BY <2>0, <2>1 DEF TypeInv, CallTyped, PcTyped, StagingTyped
  <2>q. QED  BY <1>1, <1>2, <2>2, <2>3, <2>4, <2>5 DEF TypeInv
<1>4. CASE ~(at[p] \in Present /\ tree[at[p]].bytes = built[p][at[p]])
  <2>1. End(p)
    BY <1>4 DEF Copy, Copying
  <2>q. QED  BY <1>1, <1>2, <2>1, EndTyped DEF TypeInv
<1>q. QED  BY <1>3, <1>4

LEMMA RenameTyped ==
  ASSUME TypeInv, NEW p \in Publishers, Rename(p)
  PROVE  TypeInv'
<1>1. TreeTyped'
  BY LocalPublishAssumption DEF TypeInv, TreeTyped, Present, Rename, Renaming,
       NewSnapshot, Frame, rootVars, sourceVars, callVars
<1>2. RootTyped'
  <2>1. NewSnapshot(p, TRUE) \in Snapshots
    BY DEF TypeInv, CallTyped, StagingTyped, Snapshots, NewSnapshot, Rename,
         Renaming
  <2>q. QED  BY <2>1 DEF TypeInv, RootTyped, Rename, Renaming
<1>3. CallTyped'
  BY DEF TypeInv, CallTyped, PcTyped, LockTyped, StagingTyped, Rename,
       Renaming, NewSnapshot, Goto, Labels, LockLabels, Frame, rootVars,
       sourceVars, callVars
<1>4. PcTyped'
  BY DEF TypeInv, CallTyped, PcTyped, LockTyped, StagingTyped, Rename,
       Renaming, NewSnapshot, Goto, Labels, LockLabels, Frame, rootVars,
       sourceVars, callVars
<1>5. LockTyped'
  BY DEF TypeInv, CallTyped, PcTyped, LockTyped, StagingTyped, Rename,
       Renaming, NewSnapshot, Goto, Labels, LockLabels, Frame, rootVars,
       sourceVars, callVars
<1>6. StagingTyped'
  BY DEF TypeInv, CallTyped, PcTyped, LockTyped, StagingTyped, Rename,
       Renaming, NewSnapshot, Goto, Labels, LockLabels, Frame, rootVars,
       sourceVars, callVars
<1>q. QED  BY <1>1, <1>2, <1>3, <1>4, <1>5, <1>6 DEF TypeInv

LEMMA SyncNameTyped ==
  ASSUME TypeInv, NEW p \in Publishers, SyncName(p)
  PROVE  TypeInv'
<1>1. TreeTyped'
  BY LocalPublishAssumption DEF TypeInv, TreeTyped, Present, SyncName, Frame,
       rootVars, sourceVars, callVars
<1>2. RootTyped'
  BY DEF TypeInv, RootTyped, CallTyped, StagingTyped, Snapshots, Versions,
       SyncName, Frame, rootVars, sourceVars, callVars
<1>3. CallTyped'
  BY DEF TypeInv, CallTyped, PcTyped, LockTyped, StagingTyped, SyncName, Goto,
       Labels, LockLabels, Frame, rootVars, sourceVars, callVars
<1>4. PcTyped'
  BY DEF TypeInv, CallTyped, PcTyped, LockTyped, StagingTyped, SyncName, Goto,
       Labels, LockLabels, Frame, rootVars, sourceVars, callVars
<1>5. LockTyped'
  BY DEF TypeInv, CallTyped, PcTyped, LockTyped, StagingTyped, SyncName, Goto,
       Labels, LockLabels, Frame, rootVars, sourceVars, callVars
<1>6. StagingTyped'
  BY DEF TypeInv, CallTyped, PcTyped, LockTyped, StagingTyped, SyncName, Goto,
       Labels, LockLabels, Frame, rootVars, sourceVars, callVars
<1>q. QED  BY <1>1, <1>2, <1>3, <1>4, <1>5, <1>6 DEF TypeInv

LEMMA RelistTyped ==
  ASSUME TypeInv, NEW p \in Publishers, Relist(p)
  PROVE  TypeInv'
<1>1. TreeTyped'
  BY LocalPublishAssumption DEF TypeInv, TreeTyped, Present, Relist, Frame,
       rootVars, sourceVars, callVars
<1>2. RootTyped'
  BY DEF TypeInv, RootTyped, CallTyped, StagingTyped, Snapshots, Versions,
       Relist, Frame, rootVars, sourceVars, callVars
<1>3. CASE End(p)
  BY <1>1, <1>2, <1>3, EndTyped DEF TypeInv
<1>4. CASE ~End(p)
  <2>1. CallTyped'
    BY <1>4, BlankMap, LocalPublishAssumption DEF TypeInv, CallTyped, PcTyped,
         LockTyped, StagingTyped, Relist, Goto, Labels, LockLabels, Frame,
         rootVars, sourceVars, callVars
  <2>2. PcTyped'
    BY <1>4, BlankMap, LocalPublishAssumption DEF TypeInv, CallTyped, PcTyped,
         LockTyped, StagingTyped, Relist, Goto, Labels, LockLabels, Frame,
         rootVars, sourceVars, callVars
  <2>3. LockTyped'
    BY <1>4, BlankMap, LocalPublishAssumption DEF TypeInv, CallTyped, PcTyped,
         LockTyped, StagingTyped, Relist, Goto, Labels, LockLabels, Frame,
         rootVars, sourceVars, callVars
  <2>4. StagingTyped'
    BY <1>4, BlankMap, LocalPublishAssumption DEF TypeInv, CallTyped, PcTyped,
         LockTyped, StagingTyped, Relist, Goto, Labels, LockLabels, Frame,
         rootVars, sourceVars, callVars
  <2>q. QED  BY <1>1, <1>2, <2>1, <2>2, <2>3, <2>4 DEF TypeInv
<1>q. QED  BY <1>3, <1>4

LEMMA RestatTyped ==
  ASSUME TypeInv, NEW p \in Publishers, Restat(p)
  PROVE  TypeInv'
<1>1. TreeTyped'
  BY LocalPublishAssumption DEF TypeInv, TreeTyped, Present, Restat,
       Unchanged, Frame, rootVars, sourceVars, callVars
<1>2. RootTyped'
  BY DEF TypeInv, RootTyped, CallTyped, StagingTyped, Snapshots, Versions,
       Restat, Unchanged, Frame, rootVars, sourceVars, callVars
<1>3. CASE Unchanged(p)
  <2>1. PICK g \in listed[p] :
          /\ at' = [at EXCEPT ![p] = g]
          /\ \/ pc' = [pc EXCEPT ![p] = "restat"]
             \/ pc' = [pc EXCEPT ![p] = "writeRef"]
    BY <1>3, ProceedFacts DEF Restat, Unchanged
  <2>2. CallTyped'
    BY <1>3, <2>1, AtFile DEF TypeInv, CallTyped, PcTyped, LockTyped,
         StagingTyped, Maps, Labels, LockLabels, Restat, Unchanged, Frame,
         rootVars, sourceVars, callVars
  <2>3. PcTyped'
    BY <1>3, <2>1, AtFile DEF TypeInv, CallTyped, PcTyped, LockTyped,
         StagingTyped, Maps, Labels, LockLabels, Restat, Unchanged, Frame,
         rootVars, sourceVars, callVars
  <2>4. LockTyped'
    BY <1>3, <2>1, AtFile DEF TypeInv, CallTyped, PcTyped, LockTyped,
         StagingTyped, Maps, Labels, LockLabels, Restat, Unchanged, Frame,
         rootVars, sourceVars, callVars
  <2>5. StagingTyped'
    BY <1>3, <2>1, AtFile DEF TypeInv, CallTyped, PcTyped, LockTyped,
         StagingTyped, Maps, Labels, LockLabels, Restat, Unchanged, Frame,
         rootVars, sourceVars, callVars
  <2>q. QED  BY <1>1, <1>2, <2>2, <2>3, <2>4, <2>5 DEF TypeInv
<1>4. CASE ~(Unchanged(p))
  <2>1. End(p)
    BY <1>4 DEF Restat, Unchanged
  <2>q. QED  BY <1>1, <1>2, <2>1, EndTyped DEF TypeInv
<1>q. QED  BY <1>3, <1>4

LEMMA WriteRefTyped ==
  ASSUME TypeInv, NEW p \in Publishers, WriteRef(p)
  PROVE  TypeInv'
<1>1. TreeTyped'
  BY LocalPublishAssumption DEF TypeInv, TreeTyped, Present, WriteRef, Frame,
       rootVars, sourceVars, callVars
<1>2. RootTyped'
  BY DEF TypeInv, RootTyped, CallTyped, StagingTyped, Snapshots, Versions,
       WriteRef, Frame, rootVars, sourceVars, callVars
<1>3. CallTyped'
  BY DEF TypeInv, CallTyped, PcTyped, LockTyped, StagingTyped, WriteRef, Goto,
       Labels, LockLabels, Frame, rootVars, sourceVars, callVars
<1>4. PcTyped'
  BY DEF TypeInv, CallTyped, PcTyped, LockTyped, StagingTyped, WriteRef, Goto,
       Labels, LockLabels, Frame, rootVars, sourceVars, callVars
<1>5. LockTyped'
  BY DEF TypeInv, CallTyped, PcTyped, LockTyped, StagingTyped, WriteRef, Goto,
       Labels, LockLabels, Frame, rootVars, sourceVars, callVars
<1>6. StagingTyped'
  BY DEF TypeInv, CallTyped, PcTyped, LockTyped, StagingTyped, WriteRef, Goto,
       Labels, LockLabels, Frame, rootVars, sourceVars, callVars
<1>q. QED  BY <1>1, <1>2, <1>3, <1>4, <1>5, <1>6 DEF TypeInv

LEMMA SyncRefTyped ==
  ASSUME TypeInv, NEW p \in Publishers, SyncRef(p)
  PROVE  TypeInv'
<1>1. TreeTyped'
  BY LocalPublishAssumption DEF TypeInv, TreeTyped, Present, SyncRef, Frame,
       rootVars, sourceVars, callVars
<1>2. RootTyped'
  BY DEF TypeInv, RootTyped, CallTyped, StagingTyped, Snapshots, Versions,
       SyncRef, Frame, rootVars, sourceVars, callVars
<1>3. End(p)
  BY DEF SyncRef
<1>q. QED  BY <1>1, <1>2, <1>3, EndTyped DEF TypeInv

LEMMA CrashTyped ==
  ASSUME TypeInv, NEW p \in Publishers, Crash(p)
  PROVE  TypeInv'
<1>1. TreeTyped'
  BY LocalPublishAssumption DEF TypeInv, TreeTyped, Present, Crash, Mishap,
       Frame, rootVars, sourceVars, callVars
<1>2. RootTyped'
  BY DEF TypeInv, RootTyped, CallTyped, StagingTyped, Snapshots, Versions,
       Crash, Mishap, Frame, rootVars, sourceVars, callVars
<1>3. End(p)
  BY DEF Crash, Mishap
<1>q. QED  BY <1>1, <1>2, <1>3, EndTyped DEF TypeInv

LEMMA DeployTyped ==
  ASSUME TypeInv, Deploy
  PROVE  TypeInv'
<1>1. TreeTyped'
  BY LocalPublishAssumption DEF TypeInv, TreeTyped, Present, Deploy, Frame,
       rootVars, sourceVars, callVars
<1>2. RootTyped'
  BY DEF TypeInv, RootTyped, CallTyped, StagingTyped, Snapshots, Versions,
       Deploy, Frame, rootVars, sourceVars, callVars
<1>3. CallTyped'
  BY DEF TypeInv, CallTyped, PcTyped, LockTyped, StagingTyped, Deploy, Goto,
       Labels, LockLabels, Frame, rootVars, sourceVars, callVars
<1>4. PcTyped'
  BY DEF TypeInv, CallTyped, PcTyped, LockTyped, StagingTyped, Deploy, Goto,
       Labels, LockLabels, Frame, rootVars, sourceVars, callVars
<1>5. LockTyped'
  BY DEF TypeInv, CallTyped, PcTyped, LockTyped, StagingTyped, Deploy, Goto,
       Labels, LockLabels, Frame, rootVars, sourceVars, callVars
<1>6. StagingTyped'
  BY DEF TypeInv, CallTyped, PcTyped, LockTyped, StagingTyped, Deploy, Goto,
       Labels, LockLabels, Frame, rootVars, sourceVars, callVars
<1>q. QED  BY <1>1, <1>2, <1>3, <1>4, <1>5, <1>6 DEF TypeInv

LEMMA PowerFailureTyped ==
  ASSUME TypeInv, PowerFailure
  PROVE  TypeInv'
<1>1. TreeTyped'
  BY LocalPublishAssumption DEF TypeInv, TreeTyped, Present, PowerFailure,
       Mishap, Frame, rootVars, sourceVars, callVars
<1>2. RootTyped'
  <2>1. \A s \in snaps : Remains(s) \subseteq Snapshots
    BY RemainsTyped DEF TypeInv, RootTyped
  <2>2. snaps' \subseteq Snapshots
    BY <2>1 DEF PowerFailure
  <2>3. ref' \in Versions
    BY DEF TypeInv, RootTyped, PowerFailure
  <2>4. saved' = [snaps |-> snaps', ref |-> ref']
    BY DEF PowerFailure
  <2>q. QED  BY <2>2, <2>3, <2>4 DEF RootTyped
<1>3. CallTyped'
  BY LocalPublishAssumption, BlankMap, FirstFile DEF TypeInv, CallTyped,
       PcTyped, LockTyped, StagingTyped, Blank, Unstamped, Maps, Files,
       PowerFailure, Mishap, Goto, Labels, LockLabels, Frame, rootVars,
       sourceVars, callVars
<1>4. PcTyped'
  BY LocalPublishAssumption, BlankMap, FirstFile DEF TypeInv, CallTyped,
       PcTyped, LockTyped, StagingTyped, Blank, Unstamped, Maps, Files,
       PowerFailure, Mishap, Goto, Labels, LockLabels, Frame, rootVars,
       sourceVars, callVars
<1>5. LockTyped'
  BY LocalPublishAssumption, BlankMap, FirstFile DEF TypeInv, CallTyped,
       PcTyped, LockTyped, StagingTyped, Blank, Unstamped, Maps, Files,
       PowerFailure, Mishap, Goto, Labels, LockLabels, Frame, rootVars,
       sourceVars, callVars
<1>6. StagingTyped'
  BY LocalPublishAssumption, BlankMap, FirstFile DEF TypeInv, CallTyped,
       PcTyped, LockTyped, StagingTyped, Blank, Unstamped, Maps, Files,
       PowerFailure, Mishap, Goto, Labels, LockLabels, Frame, rootVars,
       sourceVars, callVars
<1>q. QED  BY <1>1, <1>2, <1>3, <1>4, <1>5, <1>6 DEF TypeInv

-----------------------------------------------------------------------------
(* A step of one publisher moves it, and leaves the source and the calls   *)
(* of the others as they are.                                              *)
Moves(p) ==
  /\ UNCHANGED sourceVars
  /\ \E l \in Labels : pc' = [pc EXCEPT ![p] = l]
  /\ \A q \in Publishers \ {p} :
       /\ listed'[q] = listed[q] /\ stamp'[q] = stamp[q]
       /\ built'[q] = built[q] /\ at'[q] = at[q]
       /\ pc[q] \in {"copy", "rename"} => temp'[q] = temp[q]

LEMMA EndMoves ==
  ASSUME TypeInv, NEW p \in Publishers, End(p), UNCHANGED sourceVars
  PROVE  Moves(p)
BY DEF TypeInv, CallTyped, End, Goto, Moves, Labels

LEMMA BeginMoves ==
  ASSUME TypeInv, NEW p \in Publishers, Begin(p)
  PROVE  Moves(p)
BY EndMoves DEF TypeInv, CallTyped, PcTyped, LockTyped, Moves, Goto, Labels,
     LockLabels, Begin, Frame, rootVars, sourceVars, callVars

LEMMA StatMoves ==
  ASSUME TypeInv, NEW p \in Publishers, Stat(p)
  PROVE  Moves(p)
<1>1. CASE at[p] \in Present
  <2>1. PICK g \in listed[p] :
          /\ at' = [at EXCEPT ![p] = g]
          /\ \/ pc' = [pc EXCEPT ![p] = "walk"]
             \/ pc' = [pc EXCEPT ![p] = IF p \in Commands THEN "lock" ELSE "hash"]
    BY <1>1, ProceedFacts DEF Stat
  <2>q. QED  BY <1>1, <2>1 DEF TypeInv, CallTyped, Moves, Labels, LockLabels,
                  Stat, Frame, rootVars, sourceVars, callVars
<1>2. CASE ~(at[p] \in Present)
  BY <1>2, EndMoves DEF Stat, Frame, rootVars, sourceVars, callVars
<1>q. QED  BY <1>1, <1>2

LEMMA HashMoves ==
  ASSUME TypeInv, NEW p \in Publishers, Hash(p)
  PROVE  Moves(p)
<1>1. CASE Unchanged(p)
  <2>1. PICK g \in listed[p] :
          /\ at' = [at EXCEPT ![p] = g]
          /\ \/ pc' = [pc EXCEPT ![p] = "hash"]
             \/ pc' = [pc EXCEPT ![p] = IF p \in Commands THEN "sweep" ELSE "lock"]
    BY <1>1, ProceedFacts DEF Hash, Unchanged
  <2>q. QED  BY <1>1, <2>1 DEF TypeInv, CallTyped, Moves, Labels, LockLabels,
                  Hash, Unchanged, Frame, rootVars, sourceVars, callVars
<1>2. CASE ~(Unchanged(p))
  BY <1>2, EndMoves DEF Hash, Unchanged, Frame, rootVars, sourceVars, callVars
<1>q. QED  BY <1>1, <1>2

LEMMA TakeLockMoves ==
  ASSUME TypeInv, NEW p \in Publishers, TakeLock(p)
  PROVE  Moves(p)
<1>1. CASE End(p)
  BY <1>1, EndMoves DEF TakeLock, LockWith, Frame, rootVars, sourceVars,
       callVars
<1>2. CASE ~End(p)
  BY <1>2 DEF TypeInv, CallTyped, Moves, Goto, Labels, LockLabels, TakeLock,
       LockWith, Frame, rootVars, sourceVars, callVars
<1>q. QED  BY <1>1, <1>2

LEMMA SweepMoves ==
  ASSUME TypeInv, NEW p \in Publishers, Sweep(p)
  PROVE  Moves(p)
BY EndMoves DEF TypeInv, CallTyped, PcTyped, LockTyped, Moves, Goto, Labels,
     LockLabels, Sweep, Frame, rootVars, sourceVars, callVars

LEMMA CheckExistingMoves ==
  ASSUME TypeInv, NEW p \in Publishers, CheckExisting(p)
  PROVE  Moves(p)
<1>1. CASE End(p)
  BY <1>1, EndMoves DEF CheckExisting, Frame, rootVars, sourceVars, callVars
<1>2. CASE ~End(p)
  BY <1>2 DEF TypeInv, CallTyped, Moves, Goto, Labels, LockLabels,
       CheckExisting, Frame, rootVars, sourceVars, callVars
<1>q. QED  BY <1>1, <1>2

LEMMA CopyMoves ==
  ASSUME TypeInv, NEW p \in Publishers, Copy(p)
  PROVE  Moves(p)
<1>1. CASE at[p] \in Present /\ tree[at[p]].bytes = built[p][at[p]]
  <2>1. PICK g \in listed[p] :
          /\ at' = [at EXCEPT ![p] = g]
          /\ \/ pc' = [pc EXCEPT ![p] = "copy"]
             \/ pc' = [pc EXCEPT ![p] = "rename"]
    BY <1>1, ProceedFacts DEF Copy, Copying
  <2>q. QED  BY <1>1, <2>1 DEF TypeInv, CallTyped, Moves, Labels, LockLabels,
                  Copy, Copying, Frame, rootVars, sourceVars, callVars
<1>2. CASE ~(at[p] \in Present /\ tree[at[p]].bytes = built[p][at[p]])
  BY <1>2, EndMoves DEF Copy, Copying, Frame, rootVars, sourceVars, callVars
<1>q. QED  BY <1>1, <1>2

LEMMA RenameMoves ==
  ASSUME TypeInv, NEW p \in Publishers, Rename(p)
  PROVE  Moves(p)
BY EndMoves DEF TypeInv, CallTyped, PcTyped, LockTyped, Moves, Goto, Labels,
     LockLabels, Rename, Renaming, NewSnapshot, Frame, rootVars, sourceVars,
     callVars

LEMMA SyncNameMoves ==
  ASSUME TypeInv, NEW p \in Publishers, SyncName(p)
  PROVE  Moves(p)
BY EndMoves DEF TypeInv, CallTyped, PcTyped, LockTyped, Moves, Goto, Labels,
     LockLabels, SyncName, Frame, rootVars, sourceVars, callVars

LEMMA RelistMoves ==
  ASSUME TypeInv, NEW p \in Publishers, Relist(p)
  PROVE  Moves(p)
<1>1. CASE End(p)
  BY <1>1, EndMoves DEF Relist, Frame, rootVars, sourceVars, callVars
<1>2. CASE ~End(p)
  BY <1>2 DEF TypeInv, CallTyped, Moves, Goto, Labels, LockLabels, Relist,
       Frame, rootVars, sourceVars, callVars
<1>q. QED  BY <1>1, <1>2

LEMMA RestatMoves ==
  ASSUME TypeInv, NEW p \in Publishers, Restat(p)
  PROVE  Moves(p)
<1>1. CASE Unchanged(p)
  <2>1. PICK g \in listed[p] :
          /\ at' = [at EXCEPT ![p] = g]
          /\ \/ pc' = [pc EXCEPT ![p] = "restat"]
             \/ pc' = [pc EXCEPT ![p] = "writeRef"]
    BY <1>1, ProceedFacts DEF Restat, Unchanged
  <2>q. QED  BY <1>1, <2>1 DEF TypeInv, CallTyped, Moves, Labels, LockLabels,
                  Restat, Unchanged, Frame, rootVars, sourceVars, callVars
<1>2. CASE ~(Unchanged(p))
  BY <1>2, EndMoves DEF Restat, Unchanged, Frame, rootVars, sourceVars,
       callVars
<1>q. QED  BY <1>1, <1>2

LEMMA WriteRefMoves ==
  ASSUME TypeInv, NEW p \in Publishers, WriteRef(p)
  PROVE  Moves(p)
BY EndMoves DEF TypeInv, CallTyped, PcTyped, LockTyped, Moves, Goto, Labels,
     LockLabels, WriteRef, Frame, rootVars, sourceVars, callVars

LEMMA SyncRefMoves ==
  ASSUME TypeInv, NEW p \in Publishers, SyncRef(p)
  PROVE  Moves(p)
BY EndMoves DEF TypeInv, CallTyped, PcTyped, LockTyped, Moves, Goto, Labels,
     LockLabels, SyncRef, Frame, rootVars, sourceVars, callVars

LEMMA CrashMoves ==
  ASSUME TypeInv, NEW p \in Publishers, Crash(p)
  PROVE  Moves(p)
BY EndMoves DEF TypeInv, CallTyped, PcTyped, LockTyped, Moves, Goto, Labels,
     LockLabels, Crash, Mishap, Frame, rootVars, sourceVars, callVars

LEMMA PublishMoves ==
  ASSUME TypeInv, NEW p \in Publishers, Publish(p) \/ TakeLock(p) \/ Crash(p)
  PROVE  Moves(p)
BY BeginMoves, StatMoves, HashMoves, TakeLockMoves, SweepMoves,
     CheckExistingMoves, CopyMoves, RenameMoves, SyncNameMoves, RelistMoves,
     RestatMoves, WriteRefMoves, SyncRefMoves, CrashMoves DEF Publish

-----------------------------------------------------------------------------
(* Every action preserves CallInv: of the other publishers, ...            *)

LEMMA OthersCall ==
  ASSUME TypeInv, NEW p \in Publishers, Moves(p), NEW q \in Publishers \ {p},
         CallInv(q)
  PROVE  CallInv(q)'
<1>1. /\ tree' = tree /\ pc'[q] = pc[q]
      /\ listed'[q] = listed[q] /\ stamp'[q] = stamp[q]
      /\ built'[q] = built[q] /\ at'[q] = at[q]
      /\ pc[q] \in {"copy", "rename"} => temp'[q] = temp[q]
  BY DEF Moves, TypeInv, PcTyped, sourceVars
<1>q. QED  BY <1>1 DEF CallInv, AtFirst, StampsPast, ManifestKept,
                StagingMatches, Hashed, Unhashed, SameStamp

(* ... and of the one that moves.                                          *)

LEMMA EndCall ==
  ASSUME TypeInv, NEW p \in Publishers, End(p), UNCHANGED sourceVars
  PROVE  CallInv(p)'
<1>1. pc'[p] = "idle" /\ built'[p] = Blank /\ stamp'[p] = Unstamped
  BY DEF TypeInv, CallTyped, PcTyped, End, Goto
<1>2. \A f \in Files : Unstamped[f] <= tree[f].stamp
  BY DEF Unstamped, TypeInv, TreeTyped
<1>q. QED  BY <1>1, <1>2 DEF CallInv, AtFirst, StampsPast, ManifestKept,
                StagingMatches, Hashed, Unhashed, SameStamp, Blank, sourceVars

LEMMA BeginCall ==
  ASSUME TypeInv, NEW p \in Publishers, CallInv(p), Begin(p)
  PROVE  CallInv(p)'
<1>1. AtFirst(p)'
  BY AtFile DEF TypeInv, CallTyped, PcTyped, Files, Goto, Blank, LockLabels,
       CallInv, AtFirst, StampsPast, ManifestKept, StagingMatches, Hashed,
       Unhashed, SameStamp, Begin, Frame, rootVars, sourceVars, callVars
<1>2. StampsPast(p)'
  BY AtFile DEF TypeInv, CallTyped, PcTyped, Files, Goto, Blank, LockLabels,
       CallInv, AtFirst, StampsPast, ManifestKept, StagingMatches, Hashed,
       Unhashed, SameStamp, Begin, Frame, rootVars, sourceVars, callVars
<1>3. ManifestKept(p)'
  BY AtFile DEF TypeInv, CallTyped, PcTyped, Files, Goto, Blank, LockLabels,
       CallInv, AtFirst, StampsPast, ManifestKept, StagingMatches, Hashed,
       Unhashed, SameStamp, Begin, Frame, rootVars, sourceVars, callVars
<1>4. StagingMatches(p)'
  BY AtFile DEF TypeInv, CallTyped, PcTyped, Files, Goto, Blank, LockLabels,
       CallInv, AtFirst, StampsPast, ManifestKept, StagingMatches, Hashed,
       Unhashed, SameStamp, Begin, Frame, rootVars, sourceVars, callVars
<1>q. QED  BY <1>1, <1>2, <1>3, <1>4 DEF CallInv

LEMMA StatCall ==
  ASSUME TypeInv, NEW p \in Publishers, CallInv(p), Stat(p)
  PROVE  CallInv(p)'
<1>1. CASE at[p] \in Present
  <2>1. PICK g \in listed[p] :
          /\ at' = [at EXCEPT ![p] = g]
          /\ \/ /\ pc' = [pc EXCEPT ![p] = "walk"]
                /\ \A h \in listed[p] : h < g <=> h <= at[p]
             \/ /\ pc' = [pc EXCEPT ![p] = IF p \in Commands THEN "lock" ELSE "hash"]
                /\ \A h \in listed[p] : h <= at[p] /\ g <= h
    BY <1>1, ProceedFacts DEF Stat
  <2>2. AtFirst(p)'
    BY <1>1, <2>1, AtFile DEF TypeInv, CallTyped, PcTyped, Files, CallInv,
         AtFirst, StampsPast, ManifestKept, StagingMatches, Hashed, Unhashed,
         SameStamp, Stat, Frame, rootVars, sourceVars, callVars
  <2>3. StampsPast(p)'
    <3>1. /\ tree' = tree
          /\ \A f \in Files :
               stamp'[p][f] = IF f = at[p] THEN tree[f].stamp ELSE stamp[p][f]
      BY <1>1 DEF Stat, Frame, sourceVars, TypeInv, CallTyped
    <3>2. \A f \in Files : tree[f].stamp <= tree[f].stamp
      BY DEF TypeInv, TreeTyped
    <3>q. QED  BY <3>1, <3>2 DEF CallInv, StampsPast
  <2>4. ManifestKept(p)'
    BY <1>1, <2>1, AtFile DEF TypeInv, CallTyped, PcTyped, Files, CallInv,
         AtFirst, StampsPast, ManifestKept, StagingMatches, Hashed, Unhashed,
         SameStamp, Stat, Frame, rootVars, sourceVars, callVars
  <2>5. StagingMatches(p)'
    BY <1>1, <2>1, AtFile DEF TypeInv, CallTyped, PcTyped, Files, CallInv,
         AtFirst, StampsPast, ManifestKept, StagingMatches, Hashed, Unhashed,
         SameStamp, Stat, Frame, rootVars, sourceVars, callVars
  <2>q. QED  BY <2>2, <2>3, <2>4, <2>5 DEF CallInv
<1>2. CASE ~(at[p] \in Present)
  BY <1>2, EndCall DEF Stat, Frame, rootVars, sourceVars, callVars
<1>q. QED  BY <1>1, <1>2

LEMMA HashCall ==
  ASSUME TypeInv, NEW p \in Publishers, CallInv(p), Hash(p)
  PROVE  CallInv(p)'
<1>1. CASE Unchanged(p)
  <2>1. PICK g \in listed[p] :
          /\ at' = [at EXCEPT ![p] = g]
          /\ \/ /\ pc' = [pc EXCEPT ![p] = "hash"]
                /\ \A h \in listed[p] : h < g <=> h <= at[p]
             \/ /\ pc' = [pc EXCEPT ![p] = IF p \in Commands THEN "sweep" ELSE "lock"]
                /\ \A h \in listed[p] : h <= at[p] /\ g <= h
    BY <1>1, ProceedFacts DEF Hash, Unchanged
  <2>2. AtFirst(p)'
    BY <1>1, <2>1, AtFile DEF TypeInv, CallTyped, PcTyped, Files, CallInv,
         AtFirst, StampsPast, ManifestKept, StagingMatches, Hashed, Unhashed,
         SameStamp, Hash, Unchanged, Frame, rootVars, sourceVars, callVars
  <2>3. StampsPast(p)'
    BY <1>1, <2>1, AtFile DEF TypeInv, CallTyped, PcTyped, Files, CallInv,
         AtFirst, StampsPast, ManifestKept, StagingMatches, Hashed, Unhashed,
         SameStamp, Hash, Unchanged, Frame, rootVars, sourceVars, callVars
  <2>4. ManifestKept(p)'
    <3>1. /\ tree' = tree /\ stamp' = stamp /\ listed' = listed
          /\ pc[p] = "hash" /\ at[p] \in listed[p] /\ at'[p] = g
      BY <1>1, <2>1 DEF Hash, Frame, sourceVars, TypeInv, CallTyped, PcTyped
    <3>2. \A f \in Files :
            built'[p][f] = IF f = at[p] THEN tree[f].bytes ELSE built[p][f]
      BY <1>1 DEF Hash, TypeInv, CallTyped, Maps
    <3>3. /\ tree[at[p]].bytes # Absent /\ SameStamp(p, at[p])
      BY <1>1 DEF Unchanged, Present, SameStamp
    <3>4. \A f \in Files : Hashed(p, f)' <=> (Hashed(p, f) \/ f = at[p])
      <4>1. \A f \in listed[p] : f \in Nat
        BY DEF TypeInv, CallTyped, Files
      <4>2. CASE /\ pc' = [pc EXCEPT ![p] = "hash"]
                 /\ \A h \in listed[p] : h < g <=> h <= at[p]
        BY <3>1, <4>1, <4>2 DEF Hashed, Unhashed, TypeInv, PcTyped
      <4>3. CASE /\ pc' = [pc EXCEPT ![p] = IF p \in Commands THEN "sweep" ELSE "lock"]
                 /\ \A h \in listed[p] : h <= at[p] /\ g <= h
        BY <3>1, <4>1, <4>3 DEF Hashed, Unhashed, TypeInv, PcTyped
      <4>q. QED  BY <2>1, <4>2, <4>3
    <3>q. QED  BY <3>1, <3>2, <3>3, <3>4 DEF CallInv, ManifestKept, SameStamp
  <2>5. StagingMatches(p)'
    BY <1>1, <2>1, AtFile DEF TypeInv, CallTyped, PcTyped, Files, CallInv,
         AtFirst, StampsPast, ManifestKept, StagingMatches, Hashed, Unhashed,
         SameStamp, Hash, Unchanged, Frame, rootVars, sourceVars, callVars
  <2>q. QED  BY <2>2, <2>3, <2>4, <2>5 DEF CallInv
<1>2. CASE ~(Unchanged(p))
  BY <1>2, EndCall DEF Hash, Unchanged, Frame, rootVars, sourceVars, callVars
<1>q. QED  BY <1>1, <1>2

LEMMA TakeLockCall ==
  ASSUME TypeInv, NEW p \in Publishers, CallInv(p), TakeLock(p)
  PROVE  CallInv(p)'
<1>1. CASE End(p)
  BY <1>1, EndCall DEF TakeLock, LockWith, Frame, rootVars, sourceVars,
       callVars
<1>2. CASE ~End(p)
  <2>1. AtFirst(p)'
    BY <1>2, AtFile DEF TypeInv, CallTyped, PcTyped, Files, Goto, Blank,
         LockLabels, CallInv, AtFirst, StampsPast, ManifestKept,
         StagingMatches, Hashed, Unhashed, SameStamp, TakeLock, LockWith,
         Frame, rootVars, sourceVars, callVars
  <2>2. StampsPast(p)'
    BY <1>2, AtFile DEF TypeInv, CallTyped, PcTyped, Files, Goto, Blank,
         LockLabels, CallInv, AtFirst, StampsPast, ManifestKept,
         StagingMatches, Hashed, Unhashed, SameStamp, TakeLock, LockWith,
         Frame, rootVars, sourceVars, callVars
  <2>3. ManifestKept(p)'
    BY <1>2, AtFile DEF TypeInv, CallTyped, PcTyped, Files, Goto, Blank,
         LockLabels, CallInv, AtFirst, StampsPast, ManifestKept,
         StagingMatches, Hashed, Unhashed, SameStamp, TakeLock, LockWith,
         Frame, rootVars, sourceVars, callVars
  <2>4. StagingMatches(p)'
    BY <1>2, AtFile DEF TypeInv, CallTyped, PcTyped, Files, Goto, Blank,
         LockLabels, CallInv, AtFirst, StampsPast, ManifestKept,
         StagingMatches, Hashed, Unhashed, SameStamp, TakeLock, LockWith,
         Frame, rootVars, sourceVars, callVars
  <2>q. QED  BY <2>1, <2>2, <2>3, <2>4 DEF CallInv
<1>q. QED  BY <1>1, <1>2

LEMMA SweepCall ==
  ASSUME TypeInv, NEW p \in Publishers, CallInv(p), Sweep(p)
  PROVE  CallInv(p)'
<1>1. AtFirst(p)'
  BY AtFile DEF TypeInv, CallTyped, PcTyped, Files, Goto, Blank, LockLabels,
       CallInv, AtFirst, StampsPast, ManifestKept, StagingMatches, Hashed,
       Unhashed, SameStamp, Sweep, Frame, rootVars, sourceVars, callVars
<1>2. StampsPast(p)'
  BY AtFile DEF TypeInv, CallTyped, PcTyped, Files, Goto, Blank, LockLabels,
       CallInv, AtFirst, StampsPast, ManifestKept, StagingMatches, Hashed,
       Unhashed, SameStamp, Sweep, Frame, rootVars, sourceVars, callVars
<1>3. ManifestKept(p)'
  BY AtFile DEF TypeInv, CallTyped, PcTyped, Files, Goto, Blank, LockLabels,
       CallInv, AtFirst, StampsPast, ManifestKept, StagingMatches, Hashed,
       Unhashed, SameStamp, Sweep, Frame, rootVars, sourceVars, callVars
<1>4. StagingMatches(p)'
  BY AtFile DEF TypeInv, CallTyped, PcTyped, Files, Goto, Blank, LockLabels,
       CallInv, AtFirst, StampsPast, ManifestKept, StagingMatches, Hashed,
       Unhashed, SameStamp, Sweep, Frame, rootVars, sourceVars, callVars
<1>q. QED  BY <1>1, <1>2, <1>3, <1>4 DEF CallInv

LEMMA CheckExistingCall ==
  ASSUME TypeInv, NEW p \in Publishers, CallInv(p), CheckExisting(p)
  PROVE  CallInv(p)'
<1>1. CASE End(p)
  BY <1>1, EndCall DEF CheckExisting, Frame, rootVars, sourceVars, callVars
<1>2. CASE ~End(p)
  <2>1. AtFirst(p)'
    BY <1>2, AtFile DEF TypeInv, CallTyped, PcTyped, Files, Goto, Blank,
         LockLabels, CallInv, AtFirst, StampsPast, ManifestKept,
         StagingMatches, Hashed, Unhashed, SameStamp, CheckExisting, Frame,
         rootVars, sourceVars, callVars
  <2>2. StampsPast(p)'
    BY <1>2, AtFile DEF TypeInv, CallTyped, PcTyped, Files, Goto, Blank,
         LockLabels, CallInv, AtFirst, StampsPast, ManifestKept,
         StagingMatches, Hashed, Unhashed, SameStamp, CheckExisting, Frame,
         rootVars, sourceVars, callVars
  <2>3. ManifestKept(p)'
    BY <1>2, AtFile DEF TypeInv, CallTyped, PcTyped, Files, Goto, Blank,
         LockLabels, CallInv, AtFirst, StampsPast, ManifestKept,
         StagingMatches, Hashed, Unhashed, SameStamp, CheckExisting, Frame,
         rootVars, sourceVars, callVars
  <2>4. StagingMatches(p)'
    <3>1. /\ built' = built /\ listed' = listed /\ at' = at
          /\ pc'[p] = "copy" => temp'[p] = Blank
          /\ pc'[p] # "rename"
      BY <1>2 DEF CheckExisting, Goto, callVars, TypeInv, CallTyped, PcTyped
    <3>2. \A f \in listed[p] : ~(f < at[p])
      BY AtFile DEF CallInv, AtFirst, CheckExisting, Files
    <3>q. QED  BY <3>1, <3>2 DEF StagingMatches, Blank
  <2>q. QED  BY <2>1, <2>2, <2>3, <2>4 DEF CallInv
<1>q. QED  BY <1>1, <1>2

LEMMA CopyCall ==
  ASSUME TypeInv, NEW p \in Publishers, CallInv(p), Copy(p)
  PROVE  CallInv(p)'
<1>1. CASE at[p] \in Present /\ tree[at[p]].bytes = built[p][at[p]]
  <2>1. PICK g \in listed[p] :
          /\ at' = [at EXCEPT ![p] = g]
          /\ \/ /\ pc' = [pc EXCEPT ![p] = "copy"]
                /\ \A h \in listed[p] : h < g <=> h <= at[p]
             \/ /\ pc' = [pc EXCEPT ![p] = "rename"]
                /\ \A h \in listed[p] : h <= at[p] /\ g <= h
    BY <1>1, ProceedFacts DEF Copy, Copying
  <2>2. AtFirst(p)'
    BY <1>1, <2>1, AtFile DEF TypeInv, CallTyped, PcTyped, Files, CallInv,
         AtFirst, StampsPast, ManifestKept, StagingMatches, Hashed, Unhashed,
         SameStamp, Copy, Copying, Frame, rootVars, sourceVars, callVars
  <2>3. StampsPast(p)'
    BY <1>1, <2>1, AtFile DEF TypeInv, CallTyped, PcTyped, Files, CallInv,
         AtFirst, StampsPast, ManifestKept, StagingMatches, Hashed, Unhashed,
         SameStamp, Copy, Copying, Frame, rootVars, sourceVars, callVars
  <2>4. ManifestKept(p)'
    BY <1>1, <2>1, AtFile DEF TypeInv, CallTyped, PcTyped, Files, CallInv,
         AtFirst, StampsPast, ManifestKept, StagingMatches, Hashed, Unhashed,
         SameStamp, Copy, Copying, Frame, rootVars, sourceVars, callVars
  <2>5. StagingMatches(p)'
    <3>1. /\ built' = built /\ listed' = listed /\ at'[p] = g
          /\ pc[p] = "copy" /\ at[p] \in listed[p]
          /\ tree[at[p]].bytes = built[p][at[p]]
      BY <1>1, <2>1 DEF Copy, Copying, callVars, TypeInv, CallTyped, PcTyped
    <3>2. temp[p] \in Maps
      BY <3>1 DEF TypeInv, StagingTyped
    <3>3. temp'[p] \in Maps /\ \A f \in Files :
            temp'[p][f] = IF f = at[p] THEN built[p][f] ELSE temp[p][f]
      BY <1>1, <3>1, <3>2, AtFile DEF Copy, Copying, TypeInv, CallTyped, Maps
    <3>4. \A f \in Files :
            temp[p][f] = IF f \in listed[p] /\ f < at[p] THEN built[p][f] ELSE Absent
      BY <3>1 DEF CallInv, StagingMatches
    <3>5. \A f \in listed[p] : f \in Nat
      BY AtFile DEF Files
    <3>6. CASE /\ pc' = [pc EXCEPT ![p] = "copy"]
               /\ \A h \in listed[p] : h < g <=> h <= at[p]
      <4>1. pc'[p] = "copy"
        BY <3>6 DEF TypeInv, PcTyped
      <4>q. QED  BY <3>1, <3>3, <3>4, <3>5, <3>6, <4>1 DEF StagingMatches
    <3>7. CASE /\ pc' = [pc EXCEPT ![p] = "rename"]
               /\ \A h \in listed[p] : h <= at[p] /\ g <= h
      <4>1. pc'[p] = "rename"
        BY <3>7 DEF TypeInv, PcTyped
      <4>2. \A f \in Files \ listed[p] : built[p][f] = Absent
        BY DEF CallInv, ManifestKept, Hashed
      <4>3. \A f \in Files : temp'[p][f] = built[p][f]
        BY <3>1, <3>3, <3>4, <3>5, <3>7, <4>2
      <4>4. built[p] \in Maps
        BY DEF TypeInv, CallTyped
      <4>5. temp'[p] = built[p]
        BY <3>3, <4>3, <4>4 DEF Maps
      <4>q. QED  BY <3>1, <4>1, <4>5 DEF StagingMatches
    <3>q. QED  BY <2>1, <3>6, <3>7
  <2>q. QED  BY <2>2, <2>3, <2>4, <2>5 DEF CallInv
<1>2. CASE ~(at[p] \in Present /\ tree[at[p]].bytes = built[p][at[p]])
  BY <1>2, EndCall DEF Copy, Copying, Frame, rootVars, sourceVars, callVars
<1>q. QED  BY <1>1, <1>2

LEMMA RenameCall ==
  ASSUME TypeInv, NEW p \in Publishers, CallInv(p), Rename(p)
  PROVE  CallInv(p)'
<1>1. AtFirst(p)'
  BY AtFile DEF TypeInv, CallTyped, PcTyped, Files, Goto, Blank, LockLabels,
       CallInv, AtFirst, StampsPast, ManifestKept, StagingMatches, Hashed,
       Unhashed, SameStamp, Rename, Renaming, NewSnapshot, Frame, rootVars,
       sourceVars, callVars
<1>2. StampsPast(p)'
  BY AtFile DEF TypeInv, CallTyped, PcTyped, Files, Goto, Blank, LockLabels,
       CallInv, AtFirst, StampsPast, ManifestKept, StagingMatches, Hashed,
       Unhashed, SameStamp, Rename, Renaming, NewSnapshot, Frame, rootVars,
       sourceVars, callVars
<1>3. ManifestKept(p)'
  BY AtFile DEF TypeInv, CallTyped, PcTyped, Files, Goto, Blank, LockLabels,
       CallInv, AtFirst, StampsPast, ManifestKept, StagingMatches, Hashed,
       Unhashed, SameStamp, Rename, Renaming, NewSnapshot, Frame, rootVars,
       sourceVars, callVars
<1>4. StagingMatches(p)'
  BY AtFile DEF TypeInv, CallTyped, PcTyped, Files, Goto, Blank, LockLabels,
       CallInv, AtFirst, StampsPast, ManifestKept, StagingMatches, Hashed,
       Unhashed, SameStamp, Rename, Renaming, NewSnapshot, Frame, rootVars,
       sourceVars, callVars
<1>q. QED  BY <1>1, <1>2, <1>3, <1>4 DEF CallInv

LEMMA SyncNameCall ==
  ASSUME TypeInv, NEW p \in Publishers, CallInv(p), SyncName(p)
  PROVE  CallInv(p)'
<1>1. AtFirst(p)'
  BY AtFile DEF TypeInv, CallTyped, PcTyped, Files, Goto, Blank, LockLabels,
       CallInv, AtFirst, StampsPast, ManifestKept, StagingMatches, Hashed,
       Unhashed, SameStamp, SyncName, Frame, rootVars, sourceVars, callVars
<1>2. StampsPast(p)'
  BY AtFile DEF TypeInv, CallTyped, PcTyped, Files, Goto, Blank, LockLabels,
       CallInv, AtFirst, StampsPast, ManifestKept, StagingMatches, Hashed,
       Unhashed, SameStamp, SyncName, Frame, rootVars, sourceVars, callVars
<1>3. ManifestKept(p)'
  BY AtFile DEF TypeInv, CallTyped, PcTyped, Files, Goto, Blank, LockLabels,
       CallInv, AtFirst, StampsPast, ManifestKept, StagingMatches, Hashed,
       Unhashed, SameStamp, SyncName, Frame, rootVars, sourceVars, callVars
<1>4. StagingMatches(p)'
  BY AtFile DEF TypeInv, CallTyped, PcTyped, Files, Goto, Blank, LockLabels,
       CallInv, AtFirst, StampsPast, ManifestKept, StagingMatches, Hashed,
       Unhashed, SameStamp, SyncName, Frame, rootVars, sourceVars, callVars
<1>q. QED  BY <1>1, <1>2, <1>3, <1>4 DEF CallInv

LEMMA RelistCall ==
  ASSUME TypeInv, NEW p \in Publishers, CallInv(p), Relist(p)
  PROVE  CallInv(p)'
<1>1. CASE End(p)
  BY <1>1, EndCall DEF Relist, Frame, rootVars, sourceVars, callVars
<1>2. CASE ~End(p)
  <2>1. AtFirst(p)'
    BY <1>2, AtFile DEF TypeInv, CallTyped, PcTyped, Files, Goto, Blank,
         LockLabels, CallInv, AtFirst, StampsPast, ManifestKept,
         StagingMatches, Hashed, Unhashed, SameStamp, Relist, Frame, rootVars,
         sourceVars, callVars
  <2>2. StampsPast(p)'
    BY <1>2, AtFile DEF TypeInv, CallTyped, PcTyped, Files, Goto, Blank,
         LockLabels, CallInv, AtFirst, StampsPast, ManifestKept,
         StagingMatches, Hashed, Unhashed, SameStamp, Relist, Frame, rootVars,
         sourceVars, callVars
  <2>3. ManifestKept(p)'
    BY <1>2, AtFile DEF TypeInv, CallTyped, PcTyped, Files, Goto, Blank,
         LockLabels, CallInv, AtFirst, StampsPast, ManifestKept,
         StagingMatches, Hashed, Unhashed, SameStamp, Relist, Frame, rootVars,
         sourceVars, callVars
  <2>4. StagingMatches(p)'
    BY <1>2, AtFile DEF TypeInv, CallTyped, PcTyped, Files, Goto, Blank,
         LockLabels, CallInv, AtFirst, StampsPast, ManifestKept,
         StagingMatches, Hashed, Unhashed, SameStamp, Relist, Frame, rootVars,
         sourceVars, callVars
  <2>q. QED  BY <2>1, <2>2, <2>3, <2>4 DEF CallInv
<1>q. QED  BY <1>1, <1>2

LEMMA RestatCall ==
  ASSUME TypeInv, NEW p \in Publishers, CallInv(p), Restat(p)
  PROVE  CallInv(p)'
<1>1. CASE Unchanged(p)
  <2>1. PICK g \in listed[p] :
          /\ at' = [at EXCEPT ![p] = g]
          /\ \/ /\ pc' = [pc EXCEPT ![p] = "restat"]
                /\ \A h \in listed[p] : h < g <=> h <= at[p]
             \/ /\ pc' = [pc EXCEPT ![p] = "writeRef"]
                /\ \A h \in listed[p] : h <= at[p] /\ g <= h
    BY <1>1, ProceedFacts DEF Restat, Unchanged
  <2>2. AtFirst(p)'
    BY <1>1, <2>1, AtFile DEF TypeInv, CallTyped, PcTyped, Files, CallInv,
         AtFirst, StampsPast, ManifestKept, StagingMatches, Hashed, Unhashed,
         SameStamp, Restat, Unchanged, Frame, rootVars, sourceVars, callVars
  <2>3. StampsPast(p)'
    BY <1>1, <2>1, AtFile DEF TypeInv, CallTyped, PcTyped, Files, CallInv,
         AtFirst, StampsPast, ManifestKept, StagingMatches, Hashed, Unhashed,
         SameStamp, Restat, Unchanged, Frame, rootVars, sourceVars, callVars
  <2>4. ManifestKept(p)'
    BY <1>1, <2>1, AtFile DEF TypeInv, CallTyped, PcTyped, Files, CallInv,
         AtFirst, StampsPast, ManifestKept, StagingMatches, Hashed, Unhashed,
         SameStamp, Restat, Unchanged, Frame, rootVars, sourceVars, callVars
  <2>5. StagingMatches(p)'
    BY <1>1, <2>1, AtFile DEF TypeInv, CallTyped, PcTyped, Files, CallInv,
         AtFirst, StampsPast, ManifestKept, StagingMatches, Hashed, Unhashed,
         SameStamp, Restat, Unchanged, Frame, rootVars, sourceVars, callVars
  <2>q. QED  BY <2>2, <2>3, <2>4, <2>5 DEF CallInv
<1>2. CASE ~(Unchanged(p))
  BY <1>2, EndCall DEF Restat, Unchanged, Frame, rootVars, sourceVars,
       callVars
<1>q. QED  BY <1>1, <1>2

LEMMA WriteRefCall ==
  ASSUME TypeInv, NEW p \in Publishers, CallInv(p), WriteRef(p)
  PROVE  CallInv(p)'
<1>1. AtFirst(p)'
  BY AtFile DEF TypeInv, CallTyped, PcTyped, Files, Goto, Blank, LockLabels,
       CallInv, AtFirst, StampsPast, ManifestKept, StagingMatches, Hashed,
       Unhashed, SameStamp, WriteRef, Frame, rootVars, sourceVars, callVars
<1>2. StampsPast(p)'
  BY AtFile DEF TypeInv, CallTyped, PcTyped, Files, Goto, Blank, LockLabels,
       CallInv, AtFirst, StampsPast, ManifestKept, StagingMatches, Hashed,
       Unhashed, SameStamp, WriteRef, Frame, rootVars, sourceVars, callVars
<1>3. ManifestKept(p)'
  BY AtFile DEF TypeInv, CallTyped, PcTyped, Files, Goto, Blank, LockLabels,
       CallInv, AtFirst, StampsPast, ManifestKept, StagingMatches, Hashed,
       Unhashed, SameStamp, WriteRef, Frame, rootVars, sourceVars, callVars
<1>4. StagingMatches(p)'
  BY AtFile DEF TypeInv, CallTyped, PcTyped, Files, Goto, Blank, LockLabels,
       CallInv, AtFirst, StampsPast, ManifestKept, StagingMatches, Hashed,
       Unhashed, SameStamp, WriteRef, Frame, rootVars, sourceVars, callVars
<1>q. QED  BY <1>1, <1>2, <1>3, <1>4 DEF CallInv

LEMMA SyncRefCall ==
  ASSUME TypeInv, NEW p \in Publishers, CallInv(p), SyncRef(p)
  PROVE  CallInv(p)'
BY EndCall DEF SyncRef, Frame, rootVars, sourceVars, callVars

LEMMA CrashCall ==
  ASSUME TypeInv, NEW p \in Publishers, CallInv(p), Crash(p)
  PROVE  CallInv(p)'
BY EndCall DEF Crash, Mishap, Frame, rootVars, sourceVars, callVars

(* A deployment gives a file a stamp no call has seen.                      *)

LEMMA DeployStamps ==
  ASSUME TypeInv, Deploy, NEW q \in Publishers, StampsPast(q), NEW f \in Files
  PROVE  /\ stamp[q][f] <= tree'[f].stamp
         /\ SameStamp(q, f)' => SameStamp(q, f) /\ tree'[f].bytes = tree[f].bytes
<1>1. PICK g \in Files, c \in Contents \cup {Absent} :
        tree' = [tree EXCEPT ![g] = [bytes |-> c, stamp |-> @.stamp + 1]]
  BY DEF Deploy
<1>2. /\ stamp[q][f] \in Nat /\ tree[f].stamp \in Nat
      /\ stamp[q][f] <= tree[f].stamp
  BY DEF TypeInv, CallTyped, TreeTyped, StampsPast
<1>3. tree'[f] = IF f = g THEN [bytes |-> c, stamp |-> tree[f].stamp + 1] ELSE tree[f]
  BY <1>1 DEF TypeInv, TreeTyped
<1>4. stamp' = stamp
  BY DEF Deploy, callVars
<1>q. QED  BY <1>2, <1>3, <1>4 DEF SameStamp

LEMMA DeployCall ==
  ASSUME TypeInv, Deploy, NEW q \in Publishers, CallInv(q)
  PROVE  CallInv(q)'
<1>1. /\ pc' = pc /\ listed' = listed /\ stamp' = stamp
      /\ built' = built /\ at' = at /\ temp' = temp
  BY DEF Deploy, callVars
<1>2. \A f \in Files :
        /\ stamp[q][f] <= tree'[f].stamp
        /\ SameStamp(q, f)' => SameStamp(q, f) /\ tree'[f].bytes = tree[f].bytes
  BY DeployStamps DEF CallInv
<1>3. AtFirst(q)' /\ StagingMatches(q)'
  BY <1>1 DEF CallInv, AtFirst, StagingMatches
<1>4. StampsPast(q)'
  BY <1>1, <1>2 DEF StampsPast
<1>5. ManifestKept(q)'
  BY <1>1, <1>2 DEF CallInv, ManifestKept, Hashed, Unhashed
<1>q. QED  BY <1>3, <1>4, <1>5 DEF CallInv

LEMMA PowerFailureCall ==
  ASSUME TypeInv, PowerFailure, NEW q \in Publishers
  PROVE  CallInv(q)'
<1>1. /\ pc'[q] = "idle" /\ built'[q] = Blank /\ stamp'[q] = Unstamped
      /\ tree' = tree
  BY DEF PowerFailure, sourceVars
<1>2. \A f \in Files : Unstamped[f] <= tree[f].stamp
  BY DEF Unstamped, TypeInv, TreeTyped
<1>q. QED  BY <1>1, <1>2 DEF CallInv, AtFirst, StampsPast, ManifestKept,
  StagingMatches, Hashed, Unhashed, Blank

-----------------------------------------------------------------------------
(* The published_root.                                                     *)

(* A power failure takes names away, and nothing else: every folder is     *)
(* whole and durable.                                                      *)
LEMMA PowerTakesNames ==
  ASSUME TypeInv, SnapshotsWhole, PowerFailure
  PROVE  \E lost \in SUBSET (snaps \ saved.snaps) : snaps' = snaps \ lost
<1>1. PICK lost \in SUBSET (snaps \ saved.snaps) :
        /\ snaps' \in SUBSET UNION {Remains(s) : s \in snaps \ lost}
        /\ {s.name : s \in snaps'} = {s.name : s \in snaps \ lost}
  BY DEF PowerFailure
<1>2. \A s \in snaps : Remains(s) = {s}
  BY DEF SnapshotsWhole, Remains
<1>3. snaps' \subseteq snaps \ lost
  BY <1>1, <1>2
<1>4. \A r, s \in snaps : r.name = s.name => r = s
  <2>1. \A s \in snaps : s = [name |-> s.name, holds |-> s.holds, safe |-> s.safe]
    BY DEF TypeInv, RootTyped, Snapshots
  <2>2. \A s \in snaps : s = [name |-> s.name, holds |-> s.name, safe |-> TRUE]
    BY <2>1 DEF SnapshotsWhole, TypeInv, RootTyped, Snapshots
  <2>q. QED  BY <2>2
<1>5. snaps \ lost \subseteq snaps'
  <2>1. SUFFICES ASSUME NEW s \in snaps \ lost
                 PROVE  s \in snaps'
    OBVIOUS
  <2>2. PICK r \in snaps' : r.name = s.name
    BY <1>1
  <2>q. QED  BY <1>3, <1>4, <2>2
<1>q. QED  BY <1>3, <1>5

LEMMA SnapsKept ==
  ASSUME
         NEW p \in Publishers, (Publish(p) /\ ~Rename(p)) \/ TakeLock(p) \/ Crash(p) \/ Deploy
  PROVE  snaps' = snaps
BY DEF Publish, Begin, Stat, Hash, Unchanged, TakeLock, LockWith, Sweep,
     CheckExisting, Copy, Copying, SyncName, Relist, Restat, Unchanged,
     WriteRef, SyncRef, Crash, Mishap, Deploy, rootVars

LEMMA RenameWhole ==
  ASSUME TypeInv, SnapshotsWhole, NEW p \in Publishers, CallInv(p), Rename(p)
  PROVE  SnapshotsWhole'
BY DEF CallInv, StagingMatches, SnapshotsWhole, Rename, Renaming, NewSnapshot

LEMMA WholeKept ==
  ASSUME TypeInv, SnapshotsWhole, \A q \in Publishers : CallInv(q), Step
  PROVE  SnapshotsWhole'
<1>1. ASSUME NEW p \in Publishers, Publish(p) \/ TakeLock(p) \/ Crash(p)
      PROVE  SnapshotsWhole'
  <2>1. CASE Rename(p)
    BY <2>1, RenameWhole
  <2>2. CASE ~Rename(p)
    <3>1. snaps' = snaps
      BY <1>1, <2>2, SnapsKept
    <3>q. QED  BY <3>1 DEF SnapshotsWhole
  <2>q. QED  BY <2>1, <2>2
<1>2. CASE Deploy
  BY <1>2 DEF Deploy, rootVars, SnapshotsWhole
<1>3. CASE PowerFailure
  BY <1>3, PowerTakesNames DEF SnapshotsWhole
<1>q. QED  BY <1>1, <1>2, <1>3 DEF Step

(* The trees and the lost names that are remembered are what a file map is. *)

LEMMA HistKept ==
  ASSUME HistTyped, TypeInv, TypeInv', Remember
  PROVE  HistTyped'
<1>1. Bytes(tree') \in Maps
  BY DEF TypeInv, TreeTyped, Bytes, Maps
<1>2. begun' \in [Publishers -> SUBSET Maps] /\ fresh' \in [Publishers -> SUBSET Maps]
  BY <1>1 DEF Remember, HistTyped
<1>3. Unnamed \subseteq Maps
  BY DEF TypeInv, CallTyped, Unnamed
<1>4. orphans' \subseteq Maps
  BY <1>3 DEF Remember, HistTyped
<1>q. QED  BY <1>2, <1>4 DEF HistTyped

LEMMA SettledGrows ==
  ASSUME Remember, saved.snaps \subseteq saved'.snaps
  PROVE  Settled \subseteq Settled' /\ Unnamed \subseteq Settled'
BY DEF Remember, Settled, NamesOf

LEMMA SavedSettled ==
  ASSUME Remember, NEW s \in saved'.snaps
  PROVE  s.name \in Settled'
BY DEF Remember, Settled, NamesOf

(* NamesSettled holds on if neither the root nor the publishers at it move, *)
(* ...                                                                      *)

LEMMA QuietSettled ==
  ASSUME TypeInv, NamesSettled, NEW p \in Publishers, Moves(p), Remember,
         UNCHANGED rootVars, pc[p] # "syncName", pc'[p] # "syncName",
         pc'[p] \in Confirming => built'[p] \in Settled
  PROVE  NamesSettled'
<1>1. Settled \subseteq Settled'
  BY SettledGrows DEF rootVars
<1>2. \A q \in Publishers \ {p} : pc'[q] = pc[q] /\ built'[q] = built[q]
  BY DEF Moves, TypeInv, PcTyped
<1>3. (saved.snaps \subseteq snaps)'
  BY DEF NamesSettled, rootVars
<1>4. \A s \in snaps' :
        \/ s.name \in Settled'
        \/ \E q \in Publishers : pc'[q] = "syncName" /\ built'[q] = s.name
  BY <1>1, <1>2 DEF NamesSettled, rootVars
<1>5. \A v \in {ref', saved'.ref} : v # NoVersion => v \in Settled'
  BY <1>1 DEF NamesSettled, rootVars
<1>6. \A q \in Publishers : pc'[q] \in Confirming => built'[q] \in Settled'
  BY <1>1, <1>2 DEF NamesSettled
<1>7. \A q \in Publishers : pc'[q] = "syncName" => built'[q] \in Names'
  BY <1>2 DEF NamesSettled, Names, rootVars
<1>q. QED  BY <1>3, <1>4, <1>5, <1>6, <1>7 DEF NamesSettled

(* ... and with each step that moves them.                                  *)

LEMMA BeginSettled ==
  ASSUME TypeInv, NamesSettled, NEW p \in Publishers, Remember, Begin(p)
  PROVE  NamesSettled'
<1>1. pc[p] = "idle" /\ pc'[p] = "walk"
  BY DEF Begin, Goto, TypeInv, PcTyped
<1>q. QED  BY <1>1, BeginMoves, QuietSettled DEF NamesSettled, Confirming,
                Begin, Frame, rootVars, sourceVars, callVars

LEMMA StatSettled ==
  ASSUME TypeInv, NamesSettled, NEW p \in Publishers, Remember, Stat(p)
  PROVE  NamesSettled'
<1>1. pc[p] = "walk" /\ pc'[p] \in {"walk", "hash", "lock", "idle"}
  BY ProceedFacts DEF Stat, End, Proceed, Goto, TypeInv, PcTyped, callVars
<1>q. QED  BY <1>1, StatMoves, QuietSettled DEF NamesSettled, Confirming,
                Stat, Frame, rootVars, sourceVars, callVars

LEMMA HashSettled ==
  ASSUME TypeInv, NamesSettled, NEW p \in Publishers, Remember, Hash(p)
  PROVE  NamesSettled'
<1>1. pc[p] = "hash" /\ pc'[p] \in {"hash", "sweep", "lock", "idle"}
  BY ProceedFacts DEF Hash, Unchanged, End, Proceed, Goto, TypeInv, PcTyped,
       callVars
<1>q. QED  BY <1>1, HashMoves, QuietSettled DEF NamesSettled, Confirming,
                Hash, Unchanged, Frame, rootVars, sourceVars, callVars

LEMMA TakeLockSettled ==
  ASSUME TypeInv, NamesSettled, NEW p \in Publishers, Remember, TakeLock(p)
  PROVE  NamesSettled'
<1>1. pc[p] = "lock" /\ pc'[p] \in {"hash", "sweep", "idle"}
  BY ProceedFacts DEF TakeLock, LockWith, End, Proceed, Goto, TypeInv,
       PcTyped, callVars
<1>q. QED  BY <1>1, TakeLockMoves, QuietSettled DEF NamesSettled, Confirming,
                TakeLock, LockWith, Frame, rootVars, sourceVars, callVars

LEMMA CopySettled ==
  ASSUME TypeInv, NamesSettled, NEW p \in Publishers, Remember, Copy(p)
  PROVE  NamesSettled'
<1>1. pc[p] = "copy" /\ pc'[p] \in {"copy", "rename", "idle"}
  BY ProceedFacts DEF Copy, Copying, End, Proceed, Goto, TypeInv, PcTyped,
       callVars
<1>q. QED  BY <1>1, CopyMoves, QuietSettled DEF NamesSettled, Confirming,
                Copy, Copying, Frame, rootVars, sourceVars, callVars

LEMMA RelistSettled ==
  ASSUME TypeInv, NamesSettled, NEW p \in Publishers, Remember, Relist(p)
  PROVE  NamesSettled'
<1>1. /\ pc[p] = "relist" /\ pc'[p] \in {"restat", "idle"}
      /\ pc'[p] # "idle" => built'[p] = built[p]
  BY ProceedFacts DEF Relist, End, Proceed, Goto, TypeInv, PcTyped, callVars
<1>q. QED  BY <1>1, RelistMoves, QuietSettled DEF NamesSettled, Confirming,
                Relist, Frame, rootVars, sourceVars, callVars

LEMMA RestatSettled ==
  ASSUME TypeInv, NamesSettled, NEW p \in Publishers, Remember, Restat(p)
  PROVE  NamesSettled'
<1>1. /\ pc[p] = "restat" /\ pc'[p] \in {"restat", "writeRef", "idle"}
      /\ pc'[p] # "idle" => built'[p] = built[p]
  BY ProceedFacts DEF Restat, Unchanged, End, Proceed, Goto, TypeInv, PcTyped,
       callVars
<1>q. QED  BY <1>1, RestatMoves, QuietSettled DEF NamesSettled, Confirming,
                Restat, Unchanged, Frame, rootVars, sourceVars, callVars

LEMMA CheckExistingSettled ==
  ASSUME TypeInv, NamesSettled, NEW p \in Publishers, Remember,
         CheckExisting(p)
  PROVE  NamesSettled'
<1>1. /\ pc[p] = "exists" /\ pc'[p] \in {"copy", "relist", "idle"}
      /\ pc'[p] = "relist" => built'[p] = built[p] /\ Named(built[p]) # {}
  BY DEF CheckExisting, End, Goto, TypeInv, PcTyped, callVars
<1>2. ASSUME Named(built[p]) # {}
      PROVE  built[p] \in Settled
  <2>1. PICK s \in snaps : s.name = built[p]
    BY <1>2 DEF Named
  <2>2. ~ \E q \in Publishers : pc[q] = "syncName" /\ built[q] = s.name
    BY <1>1 DEF TypeInv, LockTyped, LockLabels
  <2>q. QED  BY <2>1, <2>2 DEF NamesSettled
<1>q. QED  BY <1>1, <1>2, CheckExistingMoves, QuietSettled DEF NamesSettled,
                Confirming, CheckExisting, Frame, rootVars, sourceVars,
                callVars

LEMMA SweepSettled ==
  ASSUME TypeInv, NamesSettled, NEW p \in Publishers, Remember, Sweep(p)
  PROVE  NamesSettled'
<1>1. /\ snaps' = snaps /\ saved'.snaps \in {snaps, saved.snaps}
      /\ ref' = ref /\ saved'.ref = saved.ref
      /\ pc[p] = "sweep" /\ pc'[p] = "exists"
      /\ built' = built /\ \A q \in Publishers \ {p} : pc'[q] = pc[q]
  BY DEF Sweep, Goto, TypeInv, PcTyped, RootTyped, callVars
<1>2. Settled \subseteq Settled'
  BY <1>1, SettledGrows DEF NamesSettled
<1>q. QED  BY <1>1, <1>2 DEF NamesSettled, Names, Confirming

LEMMA SyncNameSettled ==
  ASSUME TypeInv, NamesSettled, NEW p \in Publishers, Remember, SyncName(p)
  PROVE  NamesSettled'
<1>1. /\ snaps' = snaps /\ saved'.snaps = snaps /\ ref' = ref /\ saved'.ref = saved.ref
      /\ pc[p] = "syncName" /\ pc'[p] = "relist"
      /\ built' = built /\ \A q \in Publishers \ {p} : pc'[q] = pc[q]
  BY DEF SyncName, Goto, TypeInv, PcTyped, RootTyped, callVars
<1>2. \A s \in snaps : s.name \in Settled'
  BY <1>1, SavedSettled
<1>3. Settled \subseteq Settled'
  BY <1>1, SettledGrows DEF NamesSettled
<1>4. built[p] \in Settled'
  BY <1>1, <1>2 DEF NamesSettled, Names
<1>q. QED  BY <1>1, <1>2, <1>3, <1>4 DEF NamesSettled, Names

LEMMA RenameSettled ==
  ASSUME TypeInv, NamesSettled, NEW p \in Publishers, Remember, Rename(p)
  PROVE  NamesSettled'
<1>1. /\ snaps' = snaps \cup {NewSnapshot(p, TRUE)} /\ NewSnapshot(p, TRUE).name = built[p]
      /\ ref' = ref /\ saved' = saved
      /\ pc[p] = "rename" /\ pc'[p] = "syncName"
      /\ built' = built /\ \A q \in Publishers \ {p} : pc'[q] = pc[q]
  BY DEF Rename, Renaming, NewSnapshot, Goto, TypeInv, PcTyped, callVars
<1>2. Settled \subseteq Settled'
  BY <1>1, SettledGrows
<1>q. QED  BY <1>1, <1>2 DEF NamesSettled, Names, Confirming

LEMMA WriteRefSettled ==
  ASSUME TypeInv, NamesSettled, NEW p \in Publishers, Remember, WriteRef(p)
  PROVE  NamesSettled'
<1>1. /\ snaps' = snaps /\ saved' = saved /\ ref' = built[p]
      /\ pc[p] = "writeRef" /\ pc'[p] = "syncRef"
      /\ built' = built /\ \A q \in Publishers \ {p} : pc'[q] = pc[q]
  BY DEF WriteRef, Goto, TypeInv, PcTyped, callVars
<1>2. Settled \subseteq Settled'
  BY <1>1, SettledGrows
<1>3. built[p] \in Settled
  BY <1>1 DEF NamesSettled, Confirming
<1>q. QED  BY <1>1, <1>2, <1>3 DEF NamesSettled, Names, Confirming

LEMMA SyncRefSettled ==
  ASSUME TypeInv, NamesSettled, NEW p \in Publishers, Remember, SyncRef(p)
  PROVE  NamesSettled'
<1>1. /\ snaps' = snaps /\ saved'.snaps = saved.snaps /\ ref' = ref
      /\ saved'.ref \in {ref, saved.ref} /\ pc'[p] = "idle"
      /\ \A q \in Publishers \ {p} : pc'[q] = pc[q] /\ built'[q] = built[q]
  BY DEF SyncRef, End, Goto, TypeInv, PcTyped, CallTyped, RootTyped, Frame,
       rootVars, sourceVars, callVars
<1>2. Settled \subseteq Settled' /\ Unnamed \subseteq Settled'
  BY <1>1, SettledGrows
<1>3. pc[p] = "syncName" => built[p] \in Settled'
  BY <1>1, <1>2 DEF Unnamed
<1>4. \A s \in snaps' :
        \/ s.name \in Settled'
        \/ \E q \in Publishers : pc'[q] = "syncName" /\ built'[q] = s.name
  BY <1>1, <1>2, <1>3 DEF NamesSettled
<1>q. QED  BY <1>1, <1>2, <1>4 DEF NamesSettled, Names, Confirming

LEMMA CrashSettled ==
  ASSUME TypeInv, NamesSettled, NEW p \in Publishers, Remember, Crash(p)
  PROVE  NamesSettled'
<1>1. /\ snaps' = snaps /\ saved'.snaps = saved.snaps /\ ref' = ref
      /\ saved'.ref \in {ref, saved.ref} /\ pc'[p] = "idle"
      /\ \A q \in Publishers \ {p} : pc'[q] = pc[q] /\ built'[q] = built[q]
  BY DEF Crash, Mishap, End, Goto, TypeInv, PcTyped, CallTyped, RootTyped,
       Frame, rootVars, sourceVars, callVars
<1>2. Settled \subseteq Settled' /\ Unnamed \subseteq Settled'
  BY <1>1, SettledGrows
<1>3. pc[p] = "syncName" => built[p] \in Settled'
  BY <1>1, <1>2 DEF Unnamed
<1>4. \A s \in snaps' :
        \/ s.name \in Settled'
        \/ \E q \in Publishers : pc'[q] = "syncName" /\ built'[q] = s.name
  BY <1>1, <1>2, <1>3 DEF NamesSettled
<1>q. QED  BY <1>1, <1>2, <1>4 DEF NamesSettled, Names, Confirming

LEMMA DeploySettled ==
  ASSUME TypeInv, NamesSettled, Remember, Deploy
  PROVE  NamesSettled'
<1>1. UNCHANGED <<snaps, ref, saved, pc, built>>
  BY DEF Deploy, rootVars, callVars
<1>2. Settled \subseteq Settled'
  BY <1>1, SettledGrows
<1>q. QED  BY <1>1, <1>2 DEF NamesSettled, Names

LEMMA PowerFailureSettled ==
  ASSUME TypeInv, NamesSettled, Remember, SnapshotsWhole, PowerFailure
  PROVE  NamesSettled'
<1>1. PICK lost \in SUBSET (snaps \ saved.snaps) : snaps' = snaps \ lost
  BY PowerTakesNames
<1>2. /\ saved'.snaps = snaps' /\ ref' \in {ref, saved.ref} /\ saved'.ref = ref'
      /\ \A q \in Publishers : pc'[q] = "idle"
  BY DEF PowerFailure
<1>3. Settled \subseteq Settled'
  BY <1>1, <1>2, SettledGrows DEF NamesSettled
<1>4. \A s \in snaps' : s.name \in Settled'
  BY <1>2, SavedSettled
<1>q. QED  BY <1>2, <1>3, <1>4 DEF NamesSettled, Confirming

LEMMA SettledKept ==
  ASSUME TypeInv, RootInv, Step, Remember
  PROVE  NamesSettled'
<1>1. ASSUME NEW p \in Publishers, Publish(p) \/ TakeLock(p) \/ Crash(p)
      PROVE  NamesSettled'
  BY <1>1, BeginSettled, StatSettled, HashSettled, TakeLockSettled,
       SweepSettled, CheckExistingSettled, CopySettled, RenameSettled,
       SyncNameSettled, RelistSettled, RestatSettled, WriteRefSettled,
       SyncRefSettled, CrashSettled DEF RootInv, Publish
<1>q. QED  BY <1>1, DeploySettled, PowerFailureSettled DEF RootInv, Step

-----------------------------------------------------------------------------
(* The trees of an attempt.                                                *)

LEMMA Remembered ==
  ASSUME Remember, NEW q \in Publishers
  PROVE  /\ pc'[q] \notin {"idle", "syncName"} \cup Confirming
              => begun'[q] = begun[q] \cup {Bytes(tree')}
         /\ pc'[q] \in Confirming \ {"syncRef"}
              => fresh'[q] = fresh[q] \cup {Bytes(tree')}
BY DEF Remember

LEMMA OthersTrees ==
  ASSUME TypeInv, NEW p \in Publishers, Moves(p), Remember,
         NEW q \in Publishers \ {p}, TreesInv(q)
  PROVE  TreesInv(q)'
<1>1. /\ tree' = tree /\ pc'[q] = pc[q]
      /\ listed'[q] = listed[q] /\ stamp'[q] = stamp[q]
      /\ built'[q] = built[q] /\ at'[q] = at[q]
  BY DEF Moves, TypeInv, PcTyped, sourceVars
<1>2. WalkRemembered(q)'
  BY <1>1, Remembered DEF TreesInv, WalkRemembered, TreeOfWalk, SameStamp,
       Walked, Confirming
<1>3. RestatRemembered(q)'
  BY <1>1, Remembered DEF TreesInv, RestatRemembered, TreeOfRestat, SameStamp,
       Confirming
<1>q. QED  BY <1>2, <1>3 DEF TreesInv

LEMMA DeployTrees ==
  ASSUME TypeInv, Deploy, Remember, NEW q \in Publishers, CallInv(q),
         TreesInv(q)
  PROVE  TreesInv(q)'
<1>1. /\ pc' = pc /\ listed' = listed /\ built' = built /\ at' = at
  BY DEF Deploy, callVars
<1>2. \A f \in Files : SameStamp(q, f)' => SameStamp(q, f) /\ tree'[f].bytes = tree[f].bytes
  BY DeployStamps DEF CallInv
<1>3. \A t : TreeOfWalk(q, t) => TreeOfWalk(q, t)'
  BY <1>1, <1>2 DEF TreeOfWalk
<1>4. \A t : TreeOfRestat(q, t) => TreeOfRestat(q, t)'
  BY <1>1, <1>2 DEF TreeOfRestat
<1>5. WalkRemembered(q)'
  BY <1>1, <1>3, Remembered DEF TreesInv, WalkRemembered, Walked, Confirming
<1>6. RestatRemembered(q)'
  BY <1>1, <1>4, Remembered DEF TreesInv, RestatRemembered, Confirming
<1>q. QED  BY <1>5, <1>6 DEF TreesInv

(* An attempt that is not walking, hashing, copying or confirming has no   *)
(* trees to account for.                                                   *)

LEMMA NoTrees ==
  ASSUME NEW q \in Publishers,
         pc'[q] \in {"idle", "syncName", "relist", "syncRef"}
  PROVE  TreesInv(q)'
BY DEF TreesInv, WalkRemembered, RestatRemembered, Walked

(* As long as the walk and the manifest stay as they are, so does the tree  *)
(* of the walk.                                                             *)

LEMMA WalkKept ==
  ASSUME NEW p \in Publishers, Remember, WalkRemembered(p), tree' = tree,
         listed'[p] = listed[p], stamp'[p] = stamp[p], built'[p] = built[p],
         pc[p] \in Walked, pc'[p] \in Walked
  PROVE  TreesInv(p)'
<1>1. WalkRemembered(p)'
  BY Remembered DEF WalkRemembered, TreeOfWalk, SameStamp, Walked, Confirming
<1>2. RestatRemembered(p)'
  BY DEF RestatRemembered, Walked
<1>q. QED  BY <1>1, <1>2 DEF TreesInv

LEMMA BeginTrees ==
  ASSUME TypeInv, NEW p \in Publishers, CallInv(p), TreesInv(p), Remember,
         Begin(p)
  PROVE  TreesInv(p)'
<1>1. tree' = tree /\ pc'[p] = "walk" /\ listed'[p] = Present
  BY DEF Begin, Goto, Frame, sourceVars, TypeInv, CallTyped, PcTyped
<1>2. \A f \in Files \ Present : Bytes(tree)[f] = Absent
  BY DEF Present, Bytes
<1>3. Bytes(tree) \in begun'[p]
  BY <1>1, Remembered DEF Confirming
<1>q. QED  BY <1>1, <1>2, <1>3 DEF TreesInv, WalkRemembered, RestatRemembered,
                Walked

LEMMA StatTrees ==
  ASSUME TypeInv, NEW p \in Publishers, CallInv(p), TreesInv(p), Remember,
         Stat(p)
  PROVE  TreesInv(p)'
<1>1. CASE pc'[p] = "idle"
  BY <1>1, NoTrees
<1>2. CASE pc'[p] # "idle"
  <2>1. /\ tree' = tree /\ listed'[p] = listed[p] /\ built'[p] = built[p]
        /\ pc[p] = "walk" /\ pc'[p] \in {"walk", "lock", "hash"}
    BY <1>2, ProceedFacts DEF Stat, End, Goto, Frame, sourceVars, TypeInv,
         CallTyped, PcTyped
  <2>2. \A f \in Files : built[p][f] = Absent
    BY <2>1 DEF CallInv, ManifestKept, Hashed, Unhashed
  <2>3. begun'[p] = begun[p] \cup {Bytes(tree)}
    BY <2>1, Remembered DEF Confirming
  <2>4. TreeOfWalk(p, Bytes(tree))'
    BY <2>1, <2>2 DEF TreeOfWalk, Bytes, TypeInv, CallTyped
  <2>5. \A f \in Files \ listed[p] : \E t \in begun[p] : t[f] = Absent
    BY <2>1 DEF TreesInv, WalkRemembered
  <2>6. WalkRemembered(p)'
    BY <2>1, <2>3, <2>4, <2>5 DEF WalkRemembered
  <2>q. QED  BY <2>1, <2>6 DEF TreesInv, RestatRemembered
<1>q. QED  BY <1>1, <1>2

LEMMA HashTrees ==
  ASSUME TypeInv, NEW p \in Publishers, CallInv(p), TreesInv(p), Remember,
         Hash(p)
  PROVE  TreesInv(p)'
<1>1. CASE pc'[p] = "idle"
  BY <1>1, NoTrees
<1>2. CASE pc'[p] # "idle"
  <2>1. /\ tree' = tree /\ listed'[p] = listed[p] /\ stamp'[p] = stamp[p]
        /\ at[p] \in listed[p] /\ SameStamp(p, at[p])
        /\ pc[p] = "hash" /\ pc'[p] \in {"hash", "sweep", "lock"}
    BY <1>2, ProceedFacts DEF Hash, Unchanged, SameStamp, End, Goto, Frame,
         sourceVars, TypeInv,
       CallTyped, PcTyped
  <2>2. \A f \in Files :
          built'[p][f] = IF f = at[p] THEN tree[f].bytes ELSE built[p][f]
    BY <1>2 DEF Hash, End, Goto, TypeInv, CallTyped, PcTyped, Maps
  <2>3. PICK t \in begun[p] : TreeOfWalk(p, t)
    BY <2>1 DEF TreesInv, WalkRemembered, Walked
  <2>4. TreeOfWalk(p, t)'
    BY <2>1, <2>2, <2>3 DEF TreeOfWalk, SameStamp
  <2>5. begun'[p] = begun[p] \cup {Bytes(tree)}
    BY <2>1, Remembered DEF Confirming
  <2>6. \A f \in Files \ listed[p] : \E u \in begun[p] : u[f] = Absent
    BY <2>1 DEF TreesInv, WalkRemembered, Walked
  <2>7. WalkRemembered(p)'
    BY <2>1, <2>4, <2>5, <2>6 DEF WalkRemembered
  <2>q. QED  BY <2>1, <2>7 DEF TreesInv, RestatRemembered
<1>q. QED  BY <1>1, <1>2

LEMMA TakeLockTrees ==
  ASSUME TypeInv, NEW p \in Publishers, CallInv(p), TreesInv(p), Remember,
         TakeLock(p)
  PROVE  TreesInv(p)'
<1>1. CASE pc'[p] = "idle"
  BY <1>1, NoTrees
<1>2. CASE pc'[p] # "idle"
  <2>1. /\ tree' = tree /\ listed'[p] = listed[p] /\ stamp'[p] = stamp[p] /\ built'[p] = built[p]
        /\ pc[p] = "lock" /\ pc'[p] \in {"hash", "sweep"}
    BY <1>2 DEF TakeLock, LockWith, End, Goto, TypeInv, PcTyped, CallTyped,
         Frame, rootVars, sourceVars, callVars
  <2>q. QED  BY <1>2, <2>1, WalkKept DEF TreesInv, Walked
<1>q. QED  BY <1>1, <1>2

LEMMA SweepTrees ==
  ASSUME TypeInv, NEW p \in Publishers, CallInv(p), TreesInv(p), Remember,
         Sweep(p)
  PROVE  TreesInv(p)'
<1>1. CASE pc'[p] = "idle"
  BY <1>1, NoTrees
<1>2. CASE pc'[p] # "idle"
  <2>1. /\ tree' = tree /\ listed'[p] = listed[p] /\ stamp'[p] = stamp[p] /\ built'[p] = built[p]
        /\ pc[p] = "sweep" /\ pc'[p] = "exists"
    BY <1>2 DEF Sweep, End, Goto, TypeInv, PcTyped, CallTyped, Frame,
         rootVars, sourceVars, callVars
  <2>q. QED  BY <1>2, <2>1, WalkKept DEF TreesInv, Walked
<1>q. QED  BY <1>1, <1>2

LEMMA CheckExistingTrees ==
  ASSUME TypeInv, NEW p \in Publishers, CallInv(p), TreesInv(p), Remember,
         CheckExisting(p)
  PROVE  TreesInv(p)'
<1>1. CASE pc'[p] \in {"idle", "relist"}
  BY <1>1, NoTrees
<1>2. CASE pc'[p] \notin {"idle", "relist"}
  <2>1. /\ tree' = tree /\ listed'[p] = listed[p] /\ stamp'[p] = stamp[p] /\ built'[p] = built[p]
        /\ pc[p] = "exists" /\ pc'[p] \in {"copy", "relist"}
    BY <1>2 DEF CheckExisting, End, Goto, TypeInv, PcTyped, CallTyped, Frame,
         rootVars, sourceVars, callVars
  <2>q. QED  BY <1>2, <2>1, WalkKept DEF TreesInv, Walked
<1>q. QED  BY <1>1, <1>2

LEMMA CopyTrees ==
  ASSUME TypeInv, NEW p \in Publishers, CallInv(p), TreesInv(p), Remember,
         Copy(p)
  PROVE  TreesInv(p)'
<1>1. CASE pc'[p] = "idle"
  BY <1>1, NoTrees
<1>2. CASE pc'[p] # "idle"
  <2>1. /\ tree' = tree /\ listed'[p] = listed[p] /\ stamp'[p] = stamp[p] /\ built'[p] = built[p]
        /\ pc[p] = "copy" /\ pc'[p] \in {"copy", "rename"}
    BY <1>2, ProceedFacts DEF Copy, Copying, End, Goto, TypeInv, PcTyped,
         CallTyped, Frame, rootVars, sourceVars, callVars
  <2>q. QED  BY <1>2, <2>1, WalkKept DEF TreesInv, Walked
<1>q. QED  BY <1>1, <1>2

LEMMA RenameTrees ==
  ASSUME TypeInv, NEW p \in Publishers, CallInv(p), TreesInv(p), Remember,
         Rename(p)
  PROVE  TreesInv(p)'
BY NoTrees DEF Rename, Renaming, NewSnapshot, End, Goto, TypeInv, PcTyped

LEMMA SyncNameTrees ==
  ASSUME TypeInv, NEW p \in Publishers, CallInv(p), TreesInv(p), Remember,
         SyncName(p)
  PROVE  TreesInv(p)'
BY NoTrees DEF SyncName, End, Goto, TypeInv, PcTyped

LEMMA WriteRefTrees ==
  ASSUME TypeInv, NEW p \in Publishers, CallInv(p), TreesInv(p), Remember,
         WriteRef(p)
  PROVE  TreesInv(p)'
BY NoTrees DEF WriteRef, End, Goto, TypeInv, PcTyped

LEMMA SyncRefTrees ==
  ASSUME TypeInv, NEW p \in Publishers, CallInv(p), TreesInv(p), Remember,
         SyncRef(p)
  PROVE  TreesInv(p)'
BY NoTrees DEF SyncRef, End, Goto, TypeInv, PcTyped

LEMMA CrashTrees ==
  ASSUME TypeInv, NEW p \in Publishers, CallInv(p), TreesInv(p), Remember,
         Crash(p)
  PROVE  TreesInv(p)'
BY NoTrees DEF Crash, Mishap, End, Goto, TypeInv, PcTyped

LEMMA RelistTrees ==
  ASSUME TypeInv, NEW p \in Publishers, CallInv(p), TreesInv(p), Remember,
         Relist(p)
  PROVE  TreesInv(p)'
<1>1. CASE pc'[p] = "idle"
  BY <1>1, NoTrees
<1>2. CASE pc'[p] # "idle"
  <2>1. /\ tree' = tree /\ listed'[p] = listed[p] /\ at'[p] = at[p]
        /\ Present = listed[p] /\ pc[p] = "relist" /\ pc'[p] = "restat"
    BY <1>2 DEF Relist, End, Goto, Frame, sourceVars, callVars, TypeInv,
         PcTyped
  <2>2. \A f \in listed[p] : ~(f < at[p])
    BY <2>1, AtFile DEF CallInv, AtFirst, Files
  <2>3. TreeOfRestat(p, Bytes(tree))'
    BY <2>1, <2>2 DEF TreeOfRestat, Bytes, Present
  <2>4. Bytes(tree) \in fresh'[p]
    BY <2>1, Remembered DEF Confirming
  <2>q. QED  BY <2>1, <2>3, <2>4 DEF TreesInv, WalkRemembered,
                  RestatRemembered, Walked
<1>q. QED  BY <1>1, <1>2

LEMMA RestatTrees ==
  ASSUME TypeInv, NEW p \in Publishers, CallInv(p), TreesInv(p), Remember,
         Restat(p)
  PROVE  TreesInv(p)'
<1>1. CASE pc'[p] = "idle"
  BY <1>1, NoTrees
<1>2. CASE pc'[p] # "idle"
  <2>1. /\ tree' = tree /\ listed'[p] = listed[p] /\ stamp'[p] = stamp[p] /\ built'[p] = built[p]
        /\ SameStamp(p, at[p]) /\ pc[p] = "restat" /\ at[p] \in listed[p]
        /\ pc'[p] \in {"restat", "writeRef"}
    BY <1>2, ProceedFacts DEF Restat, Unchanged, SameStamp, End, Goto, Frame,
         sourceVars, callVars,
       TypeInv, PcTyped
  <2>2. PICK t \in fresh[p] : TreeOfRestat(p, t)
    BY <2>1 DEF TreesInv, RestatRemembered
  <2>3. t[at[p]] = built[p][at[p]]
    <3>1. Hashed(p, at[p]) /\ at[p] \in Files
      BY <2>1, AtFile DEF Hashed, Unhashed
    <3>2. tree[at[p]].bytes = built[p][at[p]]
      BY <2>1, <3>1 DEF CallInv, ManifestKept
    <3>q. QED  BY <2>1, <2>2, <3>1, <3>2 DEF TreeOfRestat
  <2>4. \A f \in listed[p] : f < at'[p] \/ pc'[p] = "writeRef" => f < at[p] \/ f = at[p]
    <3>1. \A f \in listed[p] : f \in Nat
      BY AtFile DEF Files
    <3>2. Unchanged(p)
      BY <1>2 DEF Restat, End, Goto, TypeInv, PcTyped
    <3>3. PICK g \in listed[p] :
            /\ at' = [at EXCEPT ![p] = g]
            /\ \/ /\ pc' = [pc EXCEPT ![p] = "restat"]
                  /\ \A h \in listed[p] : h < g <=> h <= at[p]
               \/ /\ pc' = [pc EXCEPT ![p] = "writeRef"]
                  /\ \A h \in listed[p] : h <= at[p] /\ g <= h
      BY <2>1, <3>2, ProceedFacts DEF Restat
    <3>4. at'[p] = g
      BY <3>3 DEF TypeInv, CallTyped
    <3>5. CASE pc' = [pc EXCEPT ![p] = "restat"] /\ \A h \in listed[p] : h < g <=> h <= at[p]
      <4>1. pc'[p] = "restat"
        BY <3>5 DEF TypeInv, PcTyped
      <4>q. QED  BY <2>1, <3>1, <3>4, <3>5, <4>1
    <3>6. CASE \A h \in listed[p] : h <= at[p] /\ g <= h
      BY <2>1, <3>1, <3>4, <3>6
    <3>q. QED  BY <3>3, <3>5, <3>6
  <2>5. TreeOfRestat(p, t)'
    BY <2>1, <2>2, <2>3, <2>4 DEF TreeOfRestat, SameStamp
  <2>6. t \in fresh'[p]
    BY <2>1, <2>2, Remembered DEF Confirming
  <2>q. QED  BY <2>1, <2>5, <2>6 DEF TreesInv, WalkRemembered,
                  RestatRemembered, Walked
<1>q. QED  BY <1>1, <1>2

-----------------------------------------------------------------------------
(* The inductive invariant.                                                *)

LEMMA InitTyped ==
  ASSUME Init
  PROVE  TypeInv
<1>1. TreeTyped
  <2>1. 1 \in Files
    BY LocalPublishAssumption DEF Files
  <2>2. Present # {}
    BY <2>1, LocalPublishAssumption DEF Init, Present
  <2>q. QED  BY <2>2, LocalPublishAssumption DEF Init, TreeTyped
<1>2. RootTyped
  BY DEF Init, RootTyped, Versions
<1>3. CallTyped
  BY LocalPublishAssumption DEF Init, CallTyped, Blank, Unstamped, Maps, Files
<1>4. PcTyped /\ LockTyped /\ StagingTyped
  BY DEF Init, PcTyped, LockTyped, StagingTyped, Labels, LockLabels
<1>q. QED  BY <1>1, <1>2, <1>3, <1>4 DEF TypeInv

LEMMA InitInv ==
  ASSUME Init
  PROVE  IInv
<1>1. TypeInv
  BY InitTyped
<1>2. HistTyped /\ RootInv
  BY DEF Init, HistTyped, RootInv, SnapshotsWhole, NamesSettled, Confirming
<1>3. ASSUME NEW q \in Publishers
      PROVE  CallInv(q) /\ TreesInv(q)
  <2>1. pc[q] = "idle" /\ \A f \in Files : built[q][f] = Absent
    BY DEF Init, Blank
  <2>2. StampsPast(q)
    BY DEF Init, StampsPast, Unstamped
  <2>q. QED  BY <2>1, <2>2 DEF CallInv, AtFirst, ManifestKept, StagingMatches,
                  Hashed, Unhashed,
             TreesInv, WalkRemembered, RestatRemembered, Walked
<1>q. QED  BY <1>1, <1>2, <1>3 DEF IInv

LEMMA StepTyped ==
  ASSUME TypeInv, Step
  PROVE  TypeInv'
BY BeginTyped, StatTyped, HashTyped, TakeLockTyped, SweepTyped,
     CheckExistingTyped, CopyTyped, RenameTyped, SyncNameTyped, RelistTyped,
     RestatTyped, WriteRefTyped, SyncRefTyped, CrashTyped, DeployTyped,
     PowerFailureTyped DEF Step, Publish

LEMMA CallKept ==
  ASSUME TypeInv, \A q \in Publishers : CallInv(q), Step, NEW q \in Publishers
  PROVE  CallInv(q)'
<1>1. ASSUME NEW p \in Publishers, Publish(p) \/ TakeLock(p) \/ Crash(p)
      PROVE  CallInv(q)'
  <2>1. CASE p = q
    BY <1>1, <2>1, BeginCall, StatCall, HashCall, TakeLockCall, SweepCall,
         CheckExistingCall, CopyCall, RenameCall, SyncNameCall, RelistCall,
         RestatCall, WriteRefCall, SyncRefCall, CrashCall DEF Publish
  <2>2. CASE p # q
    BY <1>1, <2>2, PublishMoves, OthersCall
  <2>q. QED  BY <2>1, <2>2
<1>q. QED  BY <1>1, DeployCall, PowerFailureCall DEF Step

LEMMA TreesKept ==
  ASSUME IInv, Step, Remember, NEW q \in Publishers
  PROVE  TreesInv(q)'
<1>1. ASSUME NEW p \in Publishers, Publish(p) \/ TakeLock(p) \/ Crash(p)
      PROVE  TreesInv(q)'
  <2>1. CASE p = q
    BY <1>1, <2>1, BeginTrees, StatTrees, HashTrees, TakeLockTrees,
         SweepTrees, CheckExistingTrees, CopyTrees, RenameTrees,
         SyncNameTrees, RelistTrees, RestatTrees, WriteRefTrees, SyncRefTrees,
         CrashTrees DEF IInv, Publish
  <2>2. CASE p # q
    BY <1>1, <2>2, PublishMoves, OthersTrees DEF IInv
  <2>q. QED  BY <2>1, <2>2
<1>2. CASE Deploy
  BY <1>2, DeployTrees DEF IInv
<1>3. CASE PowerFailure
  BY <1>3, NoTrees DEF PowerFailure
<1>q. QED  BY <1>1, <1>2, <1>3 DEF Step

LEMMA NextInv ==
  ASSUME IInv, Next
  PROVE  IInv'
<1>1. Step /\ Remember /\ TypeInv
  BY DEF IInv, Next
<1>2. TypeInv'
  BY <1>1, StepTyped
<1>3. HistTyped'
  BY <1>1, <1>2, HistKept DEF IInv
<1>4. RootInv'
  BY <1>1, WholeKept, SettledKept DEF IInv, RootInv
<1>5. ASSUME NEW q \in Publishers
      PROVE  CallInv(q)' /\ TreesInv(q)'
  BY <1>1, CallKept, TreesKept DEF IInv
<1>q. QED  BY <1>2, <1>3, <1>4, <1>5 DEF IInv

LEMMA StutterInv ==
  ASSUME IInv, UNCHANGED vars
  PROVE  IInv'
<1>1. UNCHANGED <<snaps, ref, saved, tree, writes, temp, lock, mishaps, pc,
                  listed, stamp, built, at, begun, fresh, orphans>>
  BY DEF vars, rootVars, sourceVars, callVars, histVars
<1>2. TypeInv' /\ HistTyped'
  BY <1>1 DEF IInv, TypeInv, HistTyped, TreeTyped, Present, RootTyped,
       CallTyped, PcTyped, LockTyped, StagingTyped
<1>3. RootInv'
  BY <1>1 DEF IInv, RootInv, SnapshotsWhole, NamesSettled, Settled, Names
<1>4. ASSUME NEW q \in Publishers
      PROVE  CallInv(q)' /\ TreesInv(q)'
  BY <1>1 DEF IInv, CallInv, AtFirst, StampsPast, ManifestKept,
       StagingMatches, Hashed, Unhashed, SameStamp,
             TreesInv, WalkRemembered, RestatRemembered, TreeOfWalk, TreeOfRestat
<1>q. QED  BY <1>2, <1>3, <1>4 DEF IInv

(* The invariant holds in every state: publishers, the deployment tool,    *)
(* crashes and power failures keep it.                                     *)
THEOREM LocalInvariant == Spec => []IInv
<1>1. Init => IInv
  BY InitInv
<1>2. IInv /\ [Next]_vars => IInv'
  BY NextInv, StutterInv
<1>q. QED  BY <1>1, <1>2, PTL DEF Spec

-----------------------------------------------------------------------------
(* What follows from it.                                                   *)

(* Every variable keeps its type, and only the owner of the flock is in    *)
(* _publish_manifest_result and what follows it.                           *)
THEOREM LocalTypeCorrect == Spec => []TypeOK
<1>1. IInv => TypeOK
  BY DEF IInv, TypeInv, TypeOK, TreeTyped, RootTyped, CallTyped, PcTyped,
     LockTyped, HistTyped
<1>q. QED  BY <1>1, LocalInvariant, PTL

(* A snapshot folder holds the files its name says, whatever the deployment *)
(* tool did while they were hashed and copied, and after power failures.    *)
THEOREM FoldersHoldTheirNames == Spec => []NamesMeanContent
<1>1. IInv => NamesMeanContent
  BY DEF IInv, RootInv, SnapshotsWhole, NamesMeanContent
<1>q. QED  BY <1>1, LocalInvariant, PTL

(* The reference names a snapshot that is there, after any crash and power *)
(* failure, but for the name a lost publisher had not synced.              *)
THEOREM ReferenceKeepsItsSnapshot == Spec => []ReferenceIsWhole
<1>1. IInv => ReferenceIsWhole
  BY DEF IInv, RootInv, NamesSettled, Settled, NamesOf, ReferenceIsWhole,
       Named
<1>q. QED  BY <1>1, LocalInvariant, PTL

(* No sweep takes the temporary folder of a publisher that still copies.   *)
THEOREM SweepSparesStaging == Spec => []StagingSurvives
<1>1. IInv => StagingSurvives
  BY VersionAssumption DEF IInv, TypeInv, StagingTyped, StagingSurvives
<1>q. QED  BY <1>1, LocalInvariant, PTL

(* A new snapshot is the one its publisher renamed.                        *)

LEMMA NewSnapshotIs ==
  ASSUME IInv, Step, NEW p \in Publishers, pc[p] = "rename",
         NEW s \in snaps' \ snaps
  PROVE  s.holds = built[p]
<1>1. CASE \E q \in Publishers : Rename(q)
  <2>1. PICK q \in Publishers : Rename(q)
    BY <1>1
  <2>2. q = p
    BY <2>1 DEF IInv, TypeInv, LockTyped, LockLabels, Rename, Renaming
  <2>q. QED  BY <2>1, <2>2 DEF Rename, Renaming, NewSnapshot, IInv, CallInv,
                  StagingMatches
<1>2. CASE PowerFailure
  BY <1>2, PowerTakesNames DEF IInv, RootInv
<1>3. CASE ~PowerFailure /\ ~ \E q \in Publishers : Rename(q)
  BY <1>3, SnapsKept DEF Step
<1>q. QED  BY <1>1, <1>2, <1>3

(* The manifest of a publisher that copies is from one tree of its walk.    *)

LEMMA ManifestWasIn ==
  ASSUME IInv, NEW p \in Publishers, pc[p] = "rename"
  PROVE  WasIn(built[p], begun[p])
<1>1. \E t \in begun[p] : \A f \in Files : built[p][f] # Absent => t[f] = built[p][f]
  BY DEF IInv, TreesInv, WalkRemembered, TreeOfWalk, Walked
<1>2. ASSUME NEW f \in Files, built[p][f] = Absent
      PROVE  \E t \in begun[p] : t[f] = Absent
  <2>1. f \notin listed[p]
    BY <1>2 DEF IInv, CallInv, ManifestKept, Hashed, Unhashed
  <2>q. QED  BY <2>1 DEF IInv, TreesInv, WalkRemembered, Walked
<1>q. QED  BY <1>1, <1>2 DEF WasIn

(* The files of a new snapshot were in the folder all at one moment of the *)
(* attempt, though they were walked, hashed and copied one by one.         *)
THEOREM SnapshotsWerePresent == Spec => PublishedWasPresent
<1>1. ASSUME IInv, [Next]_vars, NEW p \in Publishers, NEW s \in snaps' \ snaps,
             pc[p] = "rename"
      PROVE  WasIn(s.holds, begun[p])
  <2>1. Step
    BY <1>1 DEF Next, vars, rootVars
  <2>q. QED  BY <1>1, <2>1, NewSnapshotIs, ManifestWasIn
<1>2. IInv /\ [Next]_vars
        => [\A p \in Publishers : \A s \in snaps' \ snaps :
              pc[p] = "rename" => WasIn(s.holds, begun[p])]_vars
  BY <1>1
<1>q. QED  BY <1>2, LocalInvariant, PTL DEF Spec, PublishedWasPresent

(* What a publisher writes into the reference is a tree since its snapshot *)
(* was complete.                                                           *)

LEMMA ConfirmedWasIn ==
  ASSUME IInv, NEW p \in Publishers, pc[p] = "writeRef"
  PROVE  WasIn(built[p], fresh[p])
<1>1. PICK t \in fresh[p] : TreeOfRestat(p, t)
  BY DEF IInv, TreesInv, RestatRemembered
<1>2. \A f \in Files : t[f] = built[p][f]
  <2>1. SUFFICES ASSUME NEW f \in Files
                 PROVE  t[f] = built[p][f]
    OBVIOUS
  <2>2. CASE f \in listed[p]
    BY <1>1, <2>2 DEF TreeOfRestat
  <2>3. CASE f \notin listed[p]
    BY <1>1, <2>3 DEF TreeOfRestat, IInv, CallInv, ManifestKept, Hashed
  <2>q. QED  BY <2>2, <2>3
<1>q. QED  BY <1>2 DEF WasIn

LEMMA OnlyWriteRef ==
  ASSUME IInv, Step, NEW p \in Publishers, pc[p] = "writeRef",
         pc'[p] = "syncRef"
  PROVE  ref' = built[p]
<1>1. PICK q \in Publishers : Publish(q) \/ TakeLock(q) \/ Crash(q)
  BY DEF Step, Deploy, PowerFailure
<1>2. q = p
  <2>1. Moves(q)
    BY <1>1, PublishMoves DEF IInv
  <2>q. QED  BY <2>1 DEF Moves, IInv, TypeInv, PcTyped
<1>3. WriteRef(p)
  BY <1>1, <1>2 DEF Publish, Begin, Stat, Hash, Unchanged, TakeLock, LockWith,
       Sweep, CheckExisting, Copy, Copying, Rename, Renaming, NewSnapshot,
       SyncName, Relist, Restat, Unchanged, SyncRef, Crash, Mishap, End, Goto,
       IInv, TypeInv, PcTyped, Proceed
<1>q. QED  BY <1>3 DEF WriteRef

(* What the reference is moved to was in the folder after its snapshot was *)
(* complete: waiting for the lock never brings back replaced files.        *)
THEOREM ReleasesWereCurrent == Spec => ReleasedWasCurrent
<1>1. ASSUME IInv, [Next]_vars, NEW p \in Publishers,
             pc[p] = "writeRef", pc'[p] = "syncRef"
      PROVE  WasIn(ref', fresh[p])
  <2>1. Step
    BY <1>1 DEF Next, vars
  <2>q. QED  BY <1>1, <2>1, OnlyWriteRef, ConfirmedWasIn
<1>2. IInv /\ [Next]_vars
        => [\A p \in Publishers : pc[p] = "writeRef" /\ pc'[p] = "syncRef"
              => WasIn(ref', fresh[p])]_vars
  BY <1>1
<1>q. QED  BY <1>2, LocalInvariant, PTL DEF Spec, ReleasedWasCurrent

=============================================================================
