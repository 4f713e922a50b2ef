----------------------------- MODULE CacheProofs ----------------------------
(***************************************************************************)
(* The safety properties of CacheCopies, for every value of its constants: *)
(* what the marker beside a copy is worth, what a lock-free examination of *)
(* a copy shows, and what the search of path finds.                        *)
(***************************************************************************)
EXTENDS CacheTypes

(* A copy is sound if its bytes are right and on the disk; how many of its *)
(* entries are left is another matter.                                     *)
Sound(t) == t # NoTree => t.safe /\ t.bad = {}

(* A marker that is there, or that a power failure may bring back, vouches *)
(* for the copy that is there and for the one a power failure brings back. *)
VouchedSound ==
  \A v \in Versions : marker[v] \/ saved.marker[v]
                      => Sound(tree[v]) /\ Sound(saved.tree[v])

(* What the builder of a copy has achieved at each step before the marker. *)
Progress(p) ==
  /\ pc[p] = "validate" /\ Exists(exam[p]) => tree[exam[p]].bad \subseteq todo[p]
  /\ pc[p] = "syncTree" /\ Exists(exam[p]) => tree[exam[p]].bad = {}
  /\ pc[p] \in {"syncName", "syncRename", "mark"} => Sound(tree[exam[p]])
  /\ pc[p] = "mark" => Sound(saved.tree[exam[p]])

IntactInv == VouchedSound /\ \A p \in Procs : Progress(p)

(* The position of a process in its procedure.                             *)
Stays(q) == /\ pc'[q] = pc[q] /\ exam'[q] = exam[q] /\ todo'[q] = todo[q]

LEMMA IdleProgress ==
  ASSUME NEW q \in Procs, pc[q] \notin LockLabels
  PROVE  Progress(q)
BY DEF Progress, LockLabels

LEMMA OtherProgress ==
  ASSUME NEW q \in Procs, Progress(q), Stays(q), UNCHANGED <<tree, saved>>
  PROVE  Progress(q)'
BY DEF Progress, Stays, Exists

(* Only the holder of the lock builds.                                     *)
LEMMA LockedOut ==
  ASSUME TypeInv, NEW p \in Procs, pc[p] \in LockLabels,
         NEW q \in Procs \ {p}, Stays(q)
  PROVE  Progress(q)'
BY DEF TypeInv, LockTyped, Stays, Progress, LockLabels

(* A full validation starts with every entry still to be examined.         *)
LEMMA MissProgress ==
  ASSUME TypeInv, NEW p \in Procs, pc[p] # "idle", Miss(p), UNCHANGED diskVars
  PROVE  Progress(p)'
<1>1. /\ exam[p] \in Versions /\ exam' = exam /\ tree' = tree
      /\ pc'[p] = AfterMiss(p)
      /\ todo'[p] = IF lock = p THEN Entries ELSE {}
  BY DEF TypeInv, PcTyped, CallTyped, Miss, Goto, callVars, diskVars
<1>2. pc'[p] \in {"validate", "fallback", "lock"} /\ (pc'[p] = "validate" => lock = p)
  BY <1>1 DEF AfterMiss
<1>3. Exists(exam[p]) => tree[exam[p]].bad \subseteq Entries
  BY <1>1 DEF TypeInv, DiskTyped, Slots, Folders, Exists
<1>q. QED  BY <1>1, <1>2, <1>3 DEF Progress, Exists

(* A copy that is handed out is not being built any more.                  *)
LEMMA HandOutProgress ==
  ASSUME TypeInv, NEW p \in Procs, HandOut(p)
  PROVE  Progress(p)'
BY DEF TypeInv, PcTyped, HandOut, Leave, Goto, Progress

(* A finished copy is sound, and cleanups and power failures leave a sound *)
(* copy sound.                                                             *)
LEMMA FinishedSound == Sound(FinishedCopy)
BY DEF Sound, FinishedCopy

LEMMA SoundRemains ==
  ASSUME NEW t, Sound(t), NEW u \in Remains(t)
  PROVE  Sound(u)
BY DEF Sound, Remains

LEMMA SoundReaped ==
  ASSUME NEW t \in Folders, Sound(t), NEW e
  PROVE  Sound([t EXCEPT !.has = @ \ {e}, !.bad = @ \ {e}])
<1>1. CASE t = NoTree
  BY <1>1, FolderAssumption
<1>2. CASE t.safe /\ t.bad = {}
  BY <1>2 DEF Sound, Folders
<1>q. QED  BY <1>1, <1>2 DEF Sound

(* What one step of a cleanup does to the copies.                          *)
LEMMA ReapShrinks ==
  ASSUME TypeInv, NEW v \in Versions, ReapEntry(v), NEW w \in Versions,
         tree'[w] # NoTree
  PROVE  /\ tree[w] # NoTree
         /\ tree'[w].has \subseteq tree[w].has
         /\ tree'[w].safe = tree[w].safe
         /\ tree'[w].bad \subseteq tree[w].bad
         /\ \A e \in tree'[w].has : e \in tree[w].bad => e \in tree'[w].bad
<1>1. CASE w = v
  <2>1. tree[v] \in Folders
    BY DEF TypeInv, DiskTyped, ReapTyped, Slots, ReapEntry
  <2>2. PICK e \in tree[v].has :
          tree' = [tree EXCEPT ![v].has = @ \ {e}, ![v].bad = @ \ {e}]
    BY <1>1 DEF ReapEntry, TypeInv, DiskTyped
  <2>3. tree'[v] = [tree[v] EXCEPT !.has = @ \ {e}, !.bad = @ \ {e}]
    BY <2>1, <2>2 DEF TypeInv, DiskTyped, Folders
  <2>4. /\ tree'[v].has = tree[v].has \ {e}
        /\ tree'[v].bad = tree[v].bad \ {e}
        /\ tree'[v].safe = tree[v].safe
    BY <2>1, <2>3 DEF Folders
  <2>q. QED  BY <1>1, <2>1, <2>4, FolderAssumption
<1>2. CASE w # v
  <2>1. tree'[w] = tree[w]
    BY <1>2 DEF ReapEntry, TypeInv, DiskTyped
  <2>q. QED  BY <2>1
<1>q. QED  BY <1>1, <1>2

LEMMA ReapKeepsSound ==
  ASSUME TypeInv, NEW v \in Versions, ReapEntry(v), NEW w \in Versions,
         Sound(tree[w])
  PROVE  Sound(tree'[w])
BY ReapShrinks DEF Sound

-----------------------------------------------------------------------------
(* Every action preserves IntactInv: the markers, the other processes, and *)
(* the process that moves.                                                 *)

LEMMA BeginRefreshIntact ==
  ASSUME TypeInv, IntactInv, NEW p \in Procs, BeginRefresh(p)
  PROVE  IntactInv'
<1>1. VouchedSound'
  BY DEF IntactInv, VouchedSound, BeginRefresh, Goto, diskVars, callVars,
       memoryVars, worldVars
<1>2. ASSUME NEW q \in Procs \ {p}
      PROVE  Stays(q)
  BY DEF Stays, TypeInv, PcTyped, CallTyped, BeginRefresh, Goto, diskVars,
       callVars, memoryVars, worldVars
<1>3. ASSUME NEW q \in Procs \ {p}
      PROVE  Progress(q)'
  <2>1. UNCHANGED <<tree, saved>>
    BY DEF BeginRefresh, Goto, diskVars, callVars, memoryVars, worldVars
  <2>q. QED  BY <2>1, <1>2, OtherProgress DEF IntactInv
<1>4. Progress(p)'
  BY DEF IntactInv, Progress, Sound, TypeInv, DiskTyped, PcTyped, CallTyped,
       LockTyped, LockLabels, Labels, LookLabels, BeginRefresh, Goto,
       diskVars, callVars, memoryVars, worldVars
<1>q. QED  BY <1>1, <1>3, <1>4 DEF IntactInv

LEMMA BeginPathIntact ==
  ASSUME TypeInv, IntactInv, NEW p \in Procs, BeginPath(p)
  PROVE  IntactInv'
<1>1. VouchedSound'
  BY DEF IntactInv, VouchedSound, BeginPath, Goto, diskVars, callVars,
       memoryVars, worldVars
<1>2. ASSUME NEW q \in Procs \ {p}
      PROVE  Stays(q)
  BY DEF Stays, TypeInv, PcTyped, CallTyped, BeginPath, Goto, diskVars,
       callVars, memoryVars, worldVars
<1>3. ASSUME NEW q \in Procs \ {p}
      PROVE  Progress(q)'
  <2>1. UNCHANGED <<tree, saved>>
    BY DEF BeginPath, Goto, diskVars, callVars, memoryVars, worldVars
  <2>q. QED  BY <2>1, <1>2, OtherProgress DEF IntactInv
<1>4. Progress(p)'
  BY DEF IntactInv, Progress, Sound, TypeInv, DiskTyped, PcTyped, CallTyped,
       LockTyped, LockLabels, Labels, LookLabels, BeginPath, Goto, diskVars,
       callVars, memoryVars, worldVars
<1>q. QED  BY <1>1, <1>3, <1>4 DEF IntactInv

LEMMA LookIntact ==
  ASSUME TypeInv, IntactInv, NEW p \in Procs, Look(p)
  PROVE  IntactInv'
<1>1. VouchedSound'
  BY DEF IntactInv, VouchedSound, Look, HandOut, Leave, FreedLock, Miss,
       AfterMiss, Goto, Exists, diskVars, callVars, memoryVars, worldVars
<1>2. ASSUME NEW q \in Procs \ {p}
      PROVE  Stays(q)
  BY DEF Stays, TypeInv, PcTyped, CallTyped, Look, HandOut, Leave, FreedLock,
       Miss, AfterMiss, Goto, Exists, diskVars, callVars, memoryVars,
       worldVars
<1>3. ASSUME NEW q \in Procs \ {p}
      PROVE  Progress(q)'
  <2>1. UNCHANGED <<tree, saved>>
    BY DEF Look, HandOut, Leave, FreedLock, Miss, AfterMiss, Goto, Exists,
         diskVars, callVars, memoryVars, worldVars
  <2>q. QED  BY <2>1, <1>2, OtherProgress DEF IntactInv
<1>4. Progress(p)'
  BY DEF IntactInv, Progress, Sound, TypeInv, DiskTyped, PcTyped, CallTyped,
       LockTyped, LockLabels, Labels, LookLabels, Look, HandOut, Leave,
       FreedLock, Miss, AfterMiss, Goto, Exists, diskVars, callVars,
       memoryVars, worldVars
<1>q. QED  BY <1>1, <1>3, <1>4 DEF IntactInv

LEMMA CheckMarkerIntact ==
  ASSUME TypeInv, IntactInv, NEW p \in Procs, CheckMarker(p)
  PROVE  IntactInv'
<1>1. VouchedSound'
  BY DEF IntactInv, VouchedSound, CheckMarker, HandOut, Leave, FreedLock,
       Miss, AfterMiss, Goto, diskVars, callVars, memoryVars, worldVars
<1>2. ASSUME NEW q \in Procs \ {p}
      PROVE  Stays(q)
  BY DEF Stays, TypeInv, PcTyped, CallTyped, CheckMarker, HandOut, Leave,
       FreedLock, Miss, AfterMiss, Goto, diskVars, callVars, memoryVars,
       worldVars
<1>3. ASSUME NEW q \in Procs \ {p}
      PROVE  Progress(q)'
  <2>1. UNCHANGED <<tree, saved>>
    BY DEF CheckMarker, HandOut, Leave, FreedLock, Miss, AfterMiss, Goto,
         diskVars, callVars, memoryVars, worldVars
  <2>q. QED  BY <2>1, <1>2, OtherProgress DEF IntactInv
<1>4. Progress(p)'
  <2>1. CASE marker[exam[p]]
    BY <2>1 DEF TypeInv, PcTyped, CheckMarker, Goto, Progress
  <2>2. CASE ~marker[exam[p]]
    BY <2>2, MissProgress DEF CheckMarker
  <2>q. QED  BY <2>1, <2>2
<1>q. QED  BY <1>1, <1>3, <1>4 DEF IntactInv

LEMMA CheckEntryIntact ==
  ASSUME TypeInv, IntactInv, NEW p \in Procs, CheckEntry(p)
  PROVE  IntactInv'
<1>1. VouchedSound'
  BY DEF IntactInv, VouchedSound, CheckEntry, HandOut, Leave, FreedLock, Miss,
       AfterMiss, Goto, NextEntries, diskVars, callVars, memoryVars, worldVars
<1>2. ASSUME NEW q \in Procs \ {p}
      PROVE  Stays(q)
  BY DEF Stays, TypeInv, PcTyped, CallTyped, CheckEntry, HandOut, Leave,
       FreedLock, Miss, AfterMiss, Goto, NextEntries, diskVars, callVars,
       memoryVars, worldVars
<1>3. ASSUME NEW q \in Procs \ {p}
      PROVE  Progress(q)'
  <2>1. UNCHANGED <<tree, saved>>
    BY DEF CheckEntry, HandOut, Leave, FreedLock, Miss, AfterMiss, Goto,
         NextEntries, diskVars, callVars, memoryVars, worldVars
  <2>q. QED  BY <2>1, <1>2, OtherProgress DEF IntactInv
<1>4. Progress(p)'
  <2>1. PICK e \in NextEntries(p) :
          IF ~Present(exam[p], e) \/ (e = Manifest /\ Damaged(exam[p], e)) THEN Miss(p)
          ELSE IF todo[p] = {e} THEN HandOut(p)
          ELSE UNCHANGED pc
    BY DEF CheckEntry
  <2>2. pc[p] = "check" /\ UNCHANGED diskVars
    BY DEF CheckEntry
  <2>3. CASE UNCHANGED pc
    BY <2>2, <2>3 DEF Progress
  <2>q. QED  BY <2>1, <2>2, <2>3, MissProgress, HandOutProgress
<1>q. QED  BY <1>1, <1>3, <1>4 DEF IntactInv

LEMMA WalkFailsIntact ==
  ASSUME TypeInv, IntactInv, NEW p \in Procs, WalkFails(p)
  PROVE  IntactInv'
<1>1. VouchedSound'
  BY DEF IntactInv, VouchedSound, WalkFails, Miss, AfterMiss, Goto, diskVars,
       callVars, memoryVars, worldVars
<1>2. ASSUME NEW q \in Procs \ {p}
      PROVE  Stays(q)
  BY DEF Stays, TypeInv, PcTyped, CallTyped, WalkFails, Miss, AfterMiss, Goto,
       diskVars, callVars, memoryVars, worldVars
<1>3. ASSUME NEW q \in Procs \ {p}
      PROVE  Progress(q)'
  <2>1. UNCHANGED <<tree, saved>>
    BY DEF WalkFails, Miss, AfterMiss, Goto, diskVars, callVars, memoryVars,
         worldVars
  <2>q. QED  BY <2>1, <1>2, OtherProgress DEF IntactInv
<1>4. Progress(p)'
  BY MissProgress DEF WalkFails
<1>q. QED  BY <1>1, <1>3, <1>4 DEF IntactInv

LEMMA ListMarkersIntact ==
  ASSUME TypeInv, IntactInv, NEW p \in Procs, ListMarkers(p)
  PROVE  IntactInv'
<1>1. VouchedSound'
  BY DEF IntactInv, VouchedSound, ListMarkers, NothingCached, Leave,
       FreedLock, Goto, diskVars, callVars, memoryVars, worldVars
<1>2. ASSUME NEW q \in Procs \ {p}
      PROVE  Stays(q)
  BY DEF Stays, TypeInv, PcTyped, CallTyped, ListMarkers, NothingCached,
       Leave, FreedLock, Goto, diskVars, callVars, memoryVars, worldVars
<1>3. ASSUME NEW q \in Procs \ {p}
      PROVE  Progress(q)'
  <2>1. UNCHANGED <<tree, saved>>
    BY DEF ListMarkers, NothingCached, Leave, FreedLock, Goto, diskVars,
         callVars, memoryVars, worldVars
  <2>q. QED  BY <2>1, <1>2, OtherProgress DEF IntactInv
<1>4. Progress(p)'
  BY DEF IntactInv, Progress, Sound, TypeInv, DiskTyped, PcTyped, CallTyped,
       LockTyped, LockLabels, Labels, LookLabels, ListMarkers, NothingCached,
       Leave, FreedLock, Goto, diskVars, callVars, memoryVars, worldVars
<1>q. QED  BY <1>1, <1>3, <1>4 DEF IntactInv

LEMMA NextCandidateIntact ==
  ASSUME TypeInv, IntactInv, NEW p \in Procs, NextCandidate(p)
  PROVE  IntactInv'
<1>1. VouchedSound'
  BY DEF IntactInv, VouchedSound, NextCandidate, NothingCached, Leave,
       FreedLock, Goto, diskVars, callVars, memoryVars, worldVars
<1>2. ASSUME NEW q \in Procs \ {p}
      PROVE  Stays(q)
  BY DEF Stays, TypeInv, PcTyped, CallTyped, NextCandidate, NothingCached,
       Leave, FreedLock, Goto, diskVars, callVars, memoryVars, worldVars
<1>3. ASSUME NEW q \in Procs \ {p}
      PROVE  Progress(q)'
  <2>1. UNCHANGED <<tree, saved>>
    BY DEF NextCandidate, NothingCached, Leave, FreedLock, Goto, diskVars,
         callVars, memoryVars, worldVars
  <2>q. QED  BY <2>1, <1>2, OtherProgress DEF IntactInv
<1>4. Progress(p)'
  BY DEF IntactInv, Progress, Sound, TypeInv, DiskTyped, PcTyped, CallTyped,
       LockTyped, LockLabels, Labels, LookLabels, NextCandidate,
       NothingCached, Leave, FreedLock, Goto, diskVars, callVars, memoryVars,
       worldVars
<1>q. QED  BY <1>1, <1>3, <1>4 DEF IntactInv

LEMMA ReturnIntact ==
  ASSUME TypeInv, IntactInv, NEW p \in Procs, Return(p)
  PROVE  IntactInv'
<1>1. VouchedSound'
  BY DEF IntactInv, VouchedSound, Return, Fail, Leave, FreedLock, Goto,
       diskVars, callVars, memoryVars, worldVars
<1>2. ASSUME NEW q \in Procs \ {p}
      PROVE  Stays(q)
  BY DEF Stays, TypeInv, PcTyped, CallTyped, Return, Fail, Leave, FreedLock,
       Goto, diskVars, callVars, memoryVars, worldVars
<1>3. ASSUME NEW q \in Procs \ {p}
      PROVE  Progress(q)'
  <2>1. UNCHANGED <<tree, saved>>
    BY DEF Return, Fail, Leave, FreedLock, Goto, diskVars, callVars,
         memoryVars, worldVars
  <2>q. QED  BY <2>1, <1>2, OtherProgress DEF IntactInv
<1>4. Progress(p)'
  BY DEF IntactInv, Progress, Sound, TypeInv, DiskTyped, PcTyped, CallTyped,
       LockTyped, LockLabels, Labels, LookLabels, Return, Fail, Leave,
       FreedLock, Goto, diskVars, callVars, memoryVars, worldVars
<1>q. QED  BY <1>1, <1>3, <1>4 DEF IntactInv

LEMMA TakeLockIntact ==
  ASSUME TypeInv, IntactInv, NEW p \in Procs, TakeLock(p)
  PROVE  IntactInv'
<1>1. VouchedSound'
  BY DEF IntactInv, VouchedSound, TakeLock, Goto, MaterializeFrame, diskVars,
       callVars, memoryVars, worldVars
<1>2. ASSUME NEW q \in Procs \ {p}
      PROVE  Stays(q)
  BY DEF Stays, TypeInv, PcTyped, CallTyped, TakeLock, Goto, MaterializeFrame,
       diskVars, callVars, memoryVars, worldVars
<1>3. ASSUME NEW q \in Procs \ {p}
      PROVE  Progress(q)'
  <2>1. UNCHANGED <<tree, saved>>
    BY DEF TakeLock, Goto, MaterializeFrame, diskVars, callVars, memoryVars,
         worldVars
  <2>q. QED  BY <2>1, <1>2, OtherProgress DEF IntactInv
<1>4. Progress(p)'
  BY DEF IntactInv, Progress, Sound, TypeInv, DiskTyped, PcTyped, CallTyped,
       LockTyped, LockLabels, Labels, LookLabels, TakeLock, Goto,
       MaterializeFrame, diskVars, callVars, memoryVars, worldVars
<1>q. QED  BY <1>1, <1>3, <1>4 DEF IntactInv

LEMMA SweepIntact ==
  ASSUME TypeInv, IntactInv, NEW p \in Procs, Sweep(p)
  PROVE  IntactInv'
<1>1. VouchedSound'
  BY DEF IntactInv, VouchedSound, Sound, TypeInv, DiskTyped, PcTyped, Sweep,
       Goto, MaterializeFrame, SyncVersionsDir, MarkersWithCopies, Exists,
       diskVars, callVars, memoryVars, worldVars
<1>2. ASSUME NEW q \in Procs \ {p}
      PROVE  Stays(q)
  BY DEF Stays, TypeInv, PcTyped, CallTyped, Sweep, Goto, MaterializeFrame,
       SyncVersionsDir, MarkersWithCopies, Exists, diskVars, callVars,
       memoryVars, worldVars
<1>3. ASSUME NEW q \in Procs \ {p}
      PROVE  Progress(q)'
  BY <1>2, LockedOut DEF LockLabels, Sweep
<1>4. Progress(p)'
  BY DEF IntactInv, Progress, Sound, TypeInv, DiskTyped, PcTyped, CallTyped,
       LockTyped, LockLabels, Labels, LookLabels, Sweep, Goto,
       MaterializeFrame, SyncVersionsDir, MarkersWithCopies, Exists, diskVars,
       callVars, memoryVars, worldVars
<1>q. QED  BY <1>1, <1>3, <1>4 DEF IntactInv

LEMMA CheckExistsIntact ==
  ASSUME TypeInv, IntactInv, NEW p \in Procs, CheckExists(p)
  PROVE  IntactInv'
<1>1. VouchedSound'
  BY DEF IntactInv, VouchedSound, CheckExists, Goto, MaterializeFrame,
       diskVars, callVars, memoryVars, worldVars
<1>2. ASSUME NEW q \in Procs \ {p}
      PROVE  Stays(q)
  BY DEF Stays, TypeInv, PcTyped, CallTyped, CheckExists, Goto,
       MaterializeFrame, diskVars, callVars, memoryVars, worldVars
<1>3. ASSUME NEW q \in Procs \ {p}
      PROVE  Progress(q)'
  <2>1. UNCHANGED <<tree, saved>>
    BY DEF CheckExists, Goto, MaterializeFrame, diskVars, callVars,
         memoryVars, worldVars
  <2>q. QED  BY <2>1, <1>2, OtherProgress DEF IntactInv
<1>4. Progress(p)'
  BY DEF IntactInv, Progress, Sound, TypeInv, DiskTyped, PcTyped, CallTyped,
       LockTyped, LockLabels, Labels, LookLabels, CheckExists, Goto,
       MaterializeFrame, diskVars, callVars, memoryVars, worldVars
<1>q. QED  BY <1>1, <1>3, <1>4 DEF IntactInv

LEMMA ValidateEntryIntact ==
  ASSUME TypeInv, IntactInv, NEW p \in Procs, ValidateEntry(p)
  PROVE  IntactInv'
<1>1. VouchedSound'
  BY DEF IntactInv, VouchedSound, ValidateEntry, Goto, NextEntries, diskVars,
       callVars, memoryVars, worldVars
<1>2. ASSUME NEW q \in Procs \ {p}
      PROVE  Stays(q)
  BY DEF Stays, TypeInv, PcTyped, CallTyped, ValidateEntry, Goto, NextEntries,
       diskVars, callVars, memoryVars, worldVars
<1>3. ASSUME NEW q \in Procs \ {p}
      PROVE  Progress(q)'
  <2>1. UNCHANGED <<tree, saved>>
    BY DEF ValidateEntry, Goto, NextEntries, diskVars, callVars, memoryVars,
         worldVars
  <2>q. QED  BY <2>1, <1>2, OtherProgress DEF IntactInv
<1>4. Progress(p)'
  <2>1. /\ exam[p] \in Versions /\ tree' = tree /\ exam' = exam
        /\ pc[p] = "validate" /\ Progress(p)
    BY DEF TypeInv, PcTyped, ValidateEntry, diskVars, callVars, IntactInv
  <2>2. PICK e \in NextEntries(p) :
          IF ~Present(exam[p], e) \/ Damaged(exam[p], e)
          THEN Goto(p, "unmark")
          ELSE /\ todo' = [todo EXCEPT ![p] = @ \ {e}]
               /\ Goto(p, IF todo[p] = {e} THEN "syncTree" ELSE "validate")
    BY DEF ValidateEntry
  <2>3. CASE ~Present(exam[p], e) \/ Damaged(exam[p], e)
    BY <2>2, <2>3 DEF TypeInv, PcTyped, Goto, Progress
  <2>4. CASE Present(exam[p], e) /\ ~Damaged(exam[p], e)
    <3>1. /\ todo'[p] = todo[p] \ {e}
          /\ pc'[p] = IF todo[p] = {e} THEN "syncTree" ELSE "validate"
      BY <2>2, <2>4 DEF TypeInv, PcTyped, CallTyped, Goto
    <3>2. tree[exam[p]].bad \subseteq todo[p] \ {e}
      BY <2>1, <2>4 DEF Progress, Present, Damaged
    <3>3. todo[p] = {e} => tree[exam[p]].bad = {}
      BY <3>2
    <3>q. QED  BY <2>1, <3>1, <3>2, <3>3 DEF Progress, Exists
  <2>q. QED  BY <2>3, <2>4
<1>q. QED  BY <1>1, <1>3, <1>4 DEF IntactInv

LEMMA SyncTreeIntact ==
  ASSUME TypeInv, IntactInv, NEW p \in Procs, SyncTree(p)
  PROVE  IntactInv'
<1>1. VouchedSound'
  BY DEF IntactInv, VouchedSound, Sound, TypeInv, DiskTyped, PcTyped,
       SyncTree, Goto, MaterializeFrame, Exists, diskVars, callVars,
       memoryVars, worldVars
<1>2. ASSUME NEW q \in Procs \ {p}
      PROVE  Stays(q)
  BY DEF Stays, TypeInv, PcTyped, CallTyped, SyncTree, Goto, MaterializeFrame,
       Exists, diskVars, callVars, memoryVars, worldVars
<1>3. ASSUME NEW q \in Procs \ {p}
      PROVE  Progress(q)'
  BY <1>2, LockedOut DEF LockLabels, SyncTree
<1>4. Progress(p)'
  BY DEF IntactInv, Progress, Sound, TypeInv, DiskTyped, PcTyped, CallTyped,
       LockTyped, LockLabels, Labels, LookLabels, SyncTree, Goto,
       MaterializeFrame, Exists, diskVars, callVars, memoryVars, worldVars
<1>q. QED  BY <1>1, <1>3, <1>4 DEF IntactInv

LEMMA SyncTreeFailsIntact ==
  ASSUME TypeInv, IntactInv, NEW p \in Procs, SyncTreeFails(p)
  PROVE  IntactInv'
<1>1. VouchedSound'
  BY DEF IntactInv, VouchedSound, SyncTreeFails, Fail, Leave, FreedLock, Goto,
       diskVars, callVars, memoryVars, worldVars
<1>2. ASSUME NEW q \in Procs \ {p}
      PROVE  Stays(q)
  BY DEF Stays, TypeInv, PcTyped, CallTyped, SyncTreeFails, Fail, Leave,
       FreedLock, Goto, diskVars, callVars, memoryVars, worldVars
<1>3. ASSUME NEW q \in Procs \ {p}
      PROVE  Progress(q)'
  <2>1. UNCHANGED <<tree, saved>>
    BY DEF SyncTreeFails, Fail, Leave, FreedLock, Goto, diskVars, callVars,
         memoryVars, worldVars
  <2>q. QED  BY <2>1, <1>2, OtherProgress DEF IntactInv
<1>4. Progress(p)'
  BY DEF IntactInv, Progress, Sound, TypeInv, DiskTyped, PcTyped, CallTyped,
       LockTyped, LockLabels, Labels, LookLabels, SyncTreeFails, Fail, Leave,
       FreedLock, Goto, diskVars, callVars, memoryVars, worldVars
<1>q. QED  BY <1>1, <1>3, <1>4 DEF IntactInv

LEMMA SyncNameIntact ==
  ASSUME TypeInv, IntactInv, NEW p \in Procs, SyncName(p)
  PROVE  IntactInv'
<1>1. VouchedSound'
  BY DEF IntactInv, VouchedSound, Sound, TypeInv, DiskTyped, PcTyped,
       SyncName, Goto, MaterializeFrame, SyncVersionsDir, diskVars, callVars,
       memoryVars, worldVars
<1>2. ASSUME NEW q \in Procs \ {p}
      PROVE  Stays(q)
  BY DEF Stays, TypeInv, PcTyped, CallTyped, SyncName, Goto, MaterializeFrame,
       SyncVersionsDir, diskVars, callVars, memoryVars, worldVars
<1>3. ASSUME NEW q \in Procs \ {p}
      PROVE  Progress(q)'
  BY <1>2, LockedOut DEF LockLabels, SyncName
<1>4. Progress(p)'
  BY DEF IntactInv, Progress, Sound, TypeInv, DiskTyped, PcTyped, CallTyped,
       LockTyped, LockLabels, Labels, LookLabels, SyncName, Goto,
       MaterializeFrame, SyncVersionsDir, diskVars, callVars, memoryVars,
       worldVars
<1>q. QED  BY <1>1, <1>3, <1>4 DEF IntactInv

LEMMA UnmarkIntact ==
  ASSUME TypeInv, IntactInv, NEW p \in Procs, Unmark(p)
  PROVE  IntactInv'
<1>1. VouchedSound'
  BY DEF IntactInv, VouchedSound, Sound, TypeInv, DiskTyped, PcTyped, Unmark,
       Goto, MaterializeFrame, diskVars, callVars, memoryVars, worldVars
<1>2. ASSUME NEW q \in Procs \ {p}
      PROVE  Stays(q)
  BY DEF Stays, TypeInv, PcTyped, CallTyped, Unmark, Goto, MaterializeFrame,
       diskVars, callVars, memoryVars, worldVars
<1>3. ASSUME NEW q \in Procs \ {p}
      PROVE  Progress(q)'
  <2>1. UNCHANGED <<tree, saved>>
    BY DEF Unmark, Goto, MaterializeFrame, diskVars, callVars, memoryVars,
         worldVars
  <2>q. QED  BY <2>1, <1>2, OtherProgress DEF IntactInv
<1>4. Progress(p)'
  BY DEF IntactInv, Progress, Sound, TypeInv, DiskTyped, PcTyped, CallTyped,
       LockTyped, LockLabels, Labels, LookLabels, Unmark, Goto,
       MaterializeFrame, diskVars, callVars, memoryVars, worldVars
<1>q. QED  BY <1>1, <1>3, <1>4 DEF IntactInv

LEMMA MoveAsideIntact ==
  ASSUME TypeInv, IntactInv, NEW p \in Procs, MoveAside(p)
  PROVE  IntactInv'
<1>1. VouchedSound'
  BY DEF IntactInv, VouchedSound, Sound, TypeInv, DiskTyped, PcTyped,
       MoveAside, Goto, diskVars, callVars, memoryVars, worldVars
<1>2. ASSUME NEW q \in Procs \ {p}
      PROVE  Stays(q)
  BY DEF Stays, TypeInv, PcTyped, CallTyped, MoveAside, Goto, diskVars,
       callVars, memoryVars, worldVars
<1>3. ASSUME NEW q \in Procs \ {p}
      PROVE  Progress(q)'
  BY <1>2, LockedOut DEF LockLabels, MoveAside
<1>4. Progress(p)'
  BY DEF IntactInv, Progress, Sound, TypeInv, DiskTyped, PcTyped, CallTyped,
       LockTyped, LockLabels, Labels, LookLabels, MoveAside, Goto, diskVars,
       callVars, memoryVars, worldVars
<1>q. QED  BY <1>1, <1>3, <1>4 DEF IntactInv

LEMMA StageIntact ==
  ASSUME TypeInv, IntactInv, NEW p \in Procs, Stage(p)
  PROVE  IntactInv'
<1>1. VouchedSound'
  BY DEF IntactInv, VouchedSound, Stage, Goto, MaterializeFrame, diskVars,
       callVars, memoryVars, worldVars
<1>2. ASSUME NEW q \in Procs \ {p}
      PROVE  Stays(q)
  BY DEF Stays, TypeInv, PcTyped, CallTyped, Stage, Goto, MaterializeFrame,
       diskVars, callVars, memoryVars, worldVars
<1>3. ASSUME NEW q \in Procs \ {p}
      PROVE  Progress(q)'
  <2>1. UNCHANGED <<tree, saved>>
    BY DEF Stage, Goto, MaterializeFrame, diskVars, callVars, memoryVars,
         worldVars
  <2>q. QED  BY <2>1, <1>2, OtherProgress DEF IntactInv
<1>4. Progress(p)'
  BY DEF IntactInv, Progress, Sound, TypeInv, DiskTyped, PcTyped, CallTyped,
       LockTyped, LockLabels, Labels, LookLabels, Stage, Goto,
       MaterializeFrame, diskVars, callVars, memoryVars, worldVars
<1>q. QED  BY <1>1, <1>3, <1>4 DEF IntactInv

LEMMA FetchFailsIntact ==
  ASSUME TypeInv, IntactInv, NEW p \in Procs, FetchFails(p)
  PROVE  IntactInv'
<1>1. VouchedSound'
  BY DEF IntactInv, VouchedSound, FetchFails, Fail, Leave, FreedLock, Goto,
       RemoveTemp, diskVars, callVars, memoryVars, worldVars
<1>2. ASSUME NEW q \in Procs \ {p}
      PROVE  Stays(q)
  BY DEF Stays, TypeInv, PcTyped, CallTyped, FetchFails, Fail, Leave,
       FreedLock, Goto, RemoveTemp, diskVars, callVars, memoryVars, worldVars
<1>3. ASSUME NEW q \in Procs \ {p}
      PROVE  Progress(q)'
  <2>1. UNCHANGED <<tree, saved>>
    BY DEF FetchFails, Fail, Leave, FreedLock, Goto, RemoveTemp, diskVars,
         callVars, memoryVars, worldVars
  <2>q. QED  BY <2>1, <1>2, OtherProgress DEF IntactInv
<1>4. Progress(p)'
  BY DEF IntactInv, Progress, Sound, TypeInv, DiskTyped, PcTyped, CallTyped,
       LockTyped, LockLabels, Labels, LookLabels, FetchFails, Fail, Leave,
       FreedLock, Goto, RemoveTemp, diskVars, callVars, memoryVars, worldVars
<1>q. QED  BY <1>1, <1>3, <1>4 DEF IntactInv

LEMMA FetchIntact ==
  ASSUME TypeInv, IntactInv, NEW p \in Procs, Fetch(p)
  PROVE  IntactInv'
<1>1. VouchedSound'
  BY DEF IntactInv, VouchedSound, Fetch, Goto, MaterializeFrame, diskVars,
       callVars, memoryVars, worldVars
<1>2. ASSUME NEW q \in Procs \ {p}
      PROVE  Stays(q)
  BY DEF Stays, TypeInv, PcTyped, CallTyped, Fetch, Goto, MaterializeFrame,
       diskVars, callVars, memoryVars, worldVars
<1>3. ASSUME NEW q \in Procs \ {p}
      PROVE  Progress(q)'
  <2>1. UNCHANGED <<tree, saved>>
    BY DEF Fetch, Goto, MaterializeFrame, diskVars, callVars, memoryVars,
         worldVars
  <2>q. QED  BY <2>1, <1>2, OtherProgress DEF IntactInv
<1>4. Progress(p)'
  BY DEF IntactInv, Progress, Sound, TypeInv, DiskTyped, PcTyped, CallTyped,
       LockTyped, LockLabels, Labels, LookLabels, Fetch, Goto,
       MaterializeFrame, diskVars, callVars, memoryVars, worldVars
<1>q. QED  BY <1>1, <1>3, <1>4 DEF IntactInv

LEMMA RenameIntact ==
  ASSUME TypeInv, IntactInv, NEW p \in Procs, Rename(p)
  PROVE  IntactInv'
<1>1. VouchedSound'
  BY FinishedSound DEF IntactInv, VouchedSound, TypeInv, DiskTyped, PcTyped,
     BuiltTyped, Rename
<1>2. ASSUME NEW q \in Procs \ {p}
      PROVE  Stays(q)
  BY DEF Stays, TypeInv, PcTyped, CallTyped, Rename, Fail, Leave, FreedLock,
       Goto, Exists, diskVars, callVars, memoryVars, worldVars
<1>3. ASSUME NEW q \in Procs \ {p}
      PROVE  Progress(q)'
  BY <1>2, LockedOut DEF LockLabels, Rename
<1>4. Progress(p)'
  <2>1. exam[p] \in Versions /\ temp[p] = FinishedCopy
    BY DEF TypeInv, PcTyped, BuiltTyped, Rename
  <2>2. CASE Exists(exam[p]) /\ tree[exam[p]].has # {}
    BY <2>2 DEF TypeInv, PcTyped, Rename, Fail, Leave, Goto, Progress
  <2>3. CASE ~(Exists(exam[p]) /\ tree[exam[p]].has # {})
    <3>1. /\ tree'[exam[p]] = FinishedCopy /\ exam'[p] = exam[p]
          /\ pc'[p] = "syncRename"
      BY <2>1, <2>3 DEF TypeInv, DiskTyped, PcTyped, Rename, Goto, callVars
    <3>q. QED  BY <3>1, FinishedSound DEF Progress
  <2>q. QED  BY <2>2, <2>3
<1>q. QED  BY <1>1, <1>3, <1>4 DEF IntactInv

LEMMA SyncRenameIntact ==
  ASSUME TypeInv, IntactInv, NEW p \in Procs, SyncRename(p)
  PROVE  IntactInv'
<1>1. VouchedSound'
  BY DEF IntactInv, VouchedSound, Sound, TypeInv, DiskTyped, PcTyped,
       SyncRename, Goto, MaterializeFrame, SyncVersionsDir, diskVars,
       callVars, memoryVars, worldVars
<1>2. ASSUME NEW q \in Procs \ {p}
      PROVE  Stays(q)
  BY DEF Stays, TypeInv, PcTyped, CallTyped, SyncRename, Goto,
       MaterializeFrame, SyncVersionsDir, diskVars, callVars, memoryVars,
       worldVars
<1>3. ASSUME NEW q \in Procs \ {p}
      PROVE  Progress(q)'
  BY <1>2, LockedOut DEF LockLabels, SyncRename
<1>4. Progress(p)'
  BY DEF IntactInv, Progress, Sound, TypeInv, DiskTyped, PcTyped, CallTyped,
       LockTyped, LockLabels, Labels, LookLabels, SyncRename, Goto,
       MaterializeFrame, SyncVersionsDir, diskVars, callVars, memoryVars,
       worldVars
<1>q. QED  BY <1>1, <1>3, <1>4 DEF IntactInv

LEMMA MarkIntact ==
  ASSUME TypeInv, IntactInv, NEW p \in Procs, Mark(p)
  PROVE  IntactInv'
<1>1. VouchedSound'
  <2>1. exam[p] \in Versions /\ Sound(tree[exam[p]]) /\ Sound(saved.tree[exam[p]])
    BY DEF TypeInv, PcTyped, IntactInv, Progress, Mark
  <2>2. UNCHANGED <<tree, saved>>
    BY DEF Mark
  <2>3. \A v \in Versions : marker'[v] => marker[v] \/ v = exam[p]
    BY DEF TypeInv, DiskTyped, Mark
  <2>q. QED  BY <2>1, <2>2, <2>3 DEF IntactInv, VouchedSound, Sound
<1>2. ASSUME NEW q \in Procs \ {p}
      PROVE  Stays(q)
  BY DEF Stays, TypeInv, PcTyped, CallTyped, Mark, Goto, MaterializeFrame,
       diskVars, callVars, memoryVars, worldVars
<1>3. ASSUME NEW q \in Procs \ {p}
      PROVE  Progress(q)'
  <2>1. UNCHANGED <<tree, saved>>
    BY DEF Mark, Goto, MaterializeFrame, diskVars, callVars, memoryVars,
         worldVars
  <2>q. QED  BY <2>1, <1>2, OtherProgress DEF IntactInv
<1>4. Progress(p)'
  BY DEF IntactInv, Progress, Sound, TypeInv, DiskTyped, PcTyped, CallTyped,
       LockTyped, LockLabels, Labels, LookLabels, Mark, Goto,
       MaterializeFrame, diskVars, callVars, memoryVars, worldVars
<1>q. QED  BY <1>1, <1>3, <1>4 DEF IntactInv

LEMMA SyncMarkIntact ==
  ASSUME TypeInv, IntactInv, NEW p \in Procs, SyncMark(p)
  PROVE  IntactInv'
<1>1. VouchedSound'
  BY DEF IntactInv, VouchedSound, Sound, TypeInv, DiskTyped, PcTyped,
       SyncMark, HandOut, Leave, FreedLock, Goto, SyncVersionsDir, diskVars,
       callVars, memoryVars, worldVars
<1>2. ASSUME NEW q \in Procs \ {p}
      PROVE  Stays(q)
  BY DEF Stays, TypeInv, PcTyped, CallTyped, SyncMark, HandOut, Leave,
       FreedLock, Goto, SyncVersionsDir, diskVars, callVars, memoryVars,
       worldVars
<1>3. ASSUME NEW q \in Procs \ {p}
      PROVE  Progress(q)'
  BY <1>2, LockedOut DEF LockLabels, SyncMark
<1>4. Progress(p)'
  BY DEF IntactInv, Progress, Sound, TypeInv, DiskTyped, PcTyped, CallTyped,
       LockTyped, LockLabels, Labels, LookLabels, SyncMark, HandOut, Leave,
       FreedLock, Goto, SyncVersionsDir, diskVars, callVars, memoryVars,
       worldVars
<1>q. QED  BY <1>1, <1>3, <1>4 DEF IntactInv

LEMMA CrashIntact ==
  ASSUME TypeInv, IntactInv, NEW p \in Procs, Crash(p)
  PROVE  IntactInv'
<1>1. VouchedSound'
  BY DEF IntactInv, VouchedSound, Crash, Fail, Leave, FreedLock, Goto,
       diskVars, callVars, memoryVars, worldVars
<1>2. ASSUME NEW q \in Procs \ {p}
      PROVE  Stays(q)
  BY DEF Stays, TypeInv, PcTyped, CallTyped, Crash, Fail, Leave, FreedLock,
       Goto, diskVars, callVars, memoryVars, worldVars
<1>3. ASSUME NEW q \in Procs \ {p}
      PROVE  Progress(q)'
  <2>1. UNCHANGED <<tree, saved>>
    BY DEF Crash, Fail, Leave, FreedLock, Goto, diskVars, callVars,
         memoryVars, worldVars
  <2>q. QED  BY <2>1, <1>2, OtherProgress DEF IntactInv
<1>4. Progress(p)'
  BY DEF IntactInv, Progress, Sound, TypeInv, DiskTyped, PcTyped, CallTyped,
       LockTyped, LockLabels, Labels, LookLabels, Crash, Fail, Leave,
       FreedLock, Goto, diskVars, callVars, memoryVars, worldVars
<1>q. QED  BY <1>1, <1>3, <1>4 DEF IntactInv

LEMMA StartReapingIntact ==
  ASSUME TypeInv, IntactInv, NEW v \in Versions, StartReaping(v)
  PROVE  IntactInv'
<1>1. VouchedSound'
  BY DEF IntactInv, VouchedSound, StartReaping, WorldFrame, Exists, diskVars,
       callVars, memoryVars, worldVars
<1>2. \A q \in Procs : Progress(q)'
  <2>1. UNCHANGED <<tree, saved>> /\ \A q \in Procs : Stays(q)
    BY DEF Stays, StartReaping, WorldFrame, Exists, diskVars, callVars,
         memoryVars, worldVars
  <2>q. QED  BY <2>1, OtherProgress DEF IntactInv
<1>q. QED  BY <1>1, <1>2 DEF IntactInv

LEMMA ReapEntryIntact ==
  ASSUME TypeInv, IntactInv, NEW v \in Versions, ReapEntry(v)
  PROVE  IntactInv'
<1>1. VouchedSound'
  <2>1. UNCHANGED <<marker, saved>>
    BY DEF ReapEntry
  <2>q. QED  BY <2>1, ReapKeepsSound DEF IntactInv, VouchedSound, Sound
<1>2. \A q \in Procs : Progress(q)'
  <2>1. ASSUME NEW q \in Procs
        PROVE  Progress(q)'
    <3>1. Stays(q) /\ UNCHANGED saved
      BY DEF Stays, ReapEntry, WorldFrame, callVars
    <3>2. pc[q] # "idle" => exam[q] \in Versions
      BY DEF TypeInv, PcTyped
    <3>3. tree'[exam[q]] # NoTree /\ pc[q] # "idle" =>
            tree[exam[q]] # NoTree /\ tree'[exam[q]].bad \subseteq tree[exam[q]].bad
      BY <3>2, ReapShrinks
    <3>4. Sound(tree[exam[q]]) /\ pc[q] # "idle" => Sound(tree'[exam[q]])
      BY <3>2, ReapKeepsSound
    <3>5. Progress(q)
      BY DEF IntactInv
    <3>q. QED  BY <3>1, <3>3, <3>4, <3>5 DEF Progress, Stays, Exists, Sound
  <2>q. QED  BY <2>1
<1>q. QED  BY <1>1, <1>2 DEF IntactInv

LEMMA StopReapingIntact ==
  ASSUME TypeInv, IntactInv, NEW v \in Versions, StopReaping(v)
  PROVE  IntactInv'
<1>1. VouchedSound'
  BY DEF IntactInv, VouchedSound, StopReaping, WorldFrame, diskVars, callVars,
       memoryVars, worldVars
<1>2. \A q \in Procs : Progress(q)'
  <2>1. UNCHANGED <<tree, saved>> /\ \A q \in Procs : Stays(q)
    BY DEF Stays, StopReaping, WorldFrame, diskVars, callVars, memoryVars,
         worldVars
  <2>q. QED  BY <2>1, OtherProgress DEF IntactInv
<1>q. QED  BY <1>1, <1>2 DEF IntactInv

LEMMA MoveReleaseIntact ==
  ASSUME TypeInv, IntactInv, MoveRelease
  PROVE  IntactInv'
<1>1. VouchedSound'
  BY DEF IntactInv, VouchedSound, MoveRelease, WorldFrame, diskVars, callVars,
       memoryVars, worldVars
<1>2. \A q \in Procs : Progress(q)'
  <2>1. UNCHANGED <<tree, saved>> /\ \A q \in Procs : Stays(q)
    BY DEF Stays, MoveRelease, WorldFrame, diskVars, callVars, memoryVars,
         worldVars
  <2>q. QED  BY <2>1, OtherProgress DEF IntactInv
<1>q. QED  BY <1>1, <1>2 DEF IntactInv

LEMMA PowerFailureIntact ==
  ASSUME TypeInv, IntactInv, PowerFailure
  PROVE  IntactInv'
<1>1. VouchedSound'
  <2>1. ASSUME NEW v \in Versions, marker'[v] \/ saved'.marker[v]
        PROVE  Sound(tree'[v]) /\ Sound(saved'.tree[v])
    <3>1. marker'[v] /\ saved'.tree[v] = tree'[v]
      BY <2>1 DEF PowerFailure
    <3>2. Sound(tree[v]) /\ Sound(saved.tree[v])
      BY <3>1 DEF PowerFailure, IntactInv, VouchedSound
    <3>3. tree'[v] \in Remains(tree[v]) \cup Remains(saved.tree[v])
      BY DEF PowerFailure
    <3>q. QED  BY <3>1, <3>2, <3>3, SoundRemains
  <2>q. QED  BY <2>1 DEF VouchedSound, Sound
<1>2. \A q \in Procs : Progress(q)'
  BY DEF PowerFailure, Progress
<1>q. QED  BY <1>1, <1>2 DEF IntactInv

-----------------------------------------------------------------------------
LEMMA InitIntact ==
  ASSUME Init
  PROVE  IntactInv
BY DEF Init, IntactInv, VouchedSound, Progress

LEMMA StepIntact ==
  ASSUME TypeInv, IntactInv, Step
  PROVE  IntactInv'
<1>1. CASE \E p \in Procs : BeginRefresh(p) \/ BeginPath(p) \/ TakeLock(p) \/ Crash(p)
  BY <1>1, BeginRefreshIntact, BeginPathIntact, TakeLockIntact, CrashIntact
<1>2. CASE \E p \in Procs : Examine(p)
  BY <1>2, LookIntact, CheckMarkerIntact, CheckEntryIntact, WalkFailsIntact,
       ListMarkersIntact, NextCandidateIntact, ReturnIntact DEF Examine
<1>3. CASE \E p \in Procs : Materialize(p)
  BY <1>3, SweepIntact, CheckExistsIntact, ValidateEntryIntact,
       SyncTreeIntact, SyncTreeFailsIntact, SyncNameIntact, UnmarkIntact,
       MoveAsideIntact, StageIntact, FetchIntact, FetchFailsIntact,
       RenameIntact, SyncRenameIntact, MarkIntact, SyncMarkIntact DEF
       Materialize
<1>4. CASE \E v \in Versions : StartReaping(v) \/ ReapEntry(v) \/ StopReaping(v)
  BY <1>4, StartReapingIntact, ReapEntryIntact, StopReapingIntact
<1>5. CASE MoveRelease \/ PowerFailure
  BY <1>5, MoveReleaseIntact, PowerFailureIntact
<1>q. QED  BY <1>1, <1>2, <1>3, <1>4, <1>5 DEF Step

LEMMA StutterIntact ==
  ASSUME IntactInv, UNCHANGED vars
  PROVE  IntactInv'
<1>1. VouchedSound'
  BY DEF IntactInv, VouchedSound, Sound, vars, diskVars
<1>2. ASSUME NEW q \in Procs
      PROVE  Progress(q)'
  <2>1. Stays(q) /\ UNCHANGED <<tree, saved>>
    BY DEF Stays, vars, diskVars, callVars
  <2>q. QED  BY <2>1, OtherProgress DEF IntactInv
<1>q. QED  BY <1>1, <1>2 DEF IntactInv

(* What each step of the builder achieves, and what every marker vouches   *)
(* for, in every reachable state.                                          *)
THEOREM CacheIntactHolds == Spec => []IntactInv
<1>1. Init => IntactInv
  BY InitIntact
<1>2. TypeInv /\ IntactInv /\ [Next]_vars => IntactInv'
  BY StepIntact, StutterIntact DEF Next
<1>q. QED  BY <1>1, <1>2, CacheTypesHold, PTL DEF Spec

(* A copy that has a marker has no byte that its manifest does not         *)
(* describe, after crashes, cleanups and power failures too.               *)
THEOREM CacheMarkersVouch == Spec => []MarkedIsIntact
<1>1. IntactInv => MarkedIsIntact
  BY DEF IntactInv, VouchedSound, Sound, MarkedIsIntact, Exists
<1>q. QED  BY <1>1, CacheIntactHolds, PTL

(* The sweep of temporary folders spares the folder that a living process  *)
(* is filling, because only the holder of the host lock sweeps or fills.   *)
THEOREM CacheSweepSpares == Spec => []SweepSparesBuilders
<1>1. TypeInv => SweepSparesBuilders
  BY FolderFacts DEF TypeInv, BuiltTyped, SweepSparesBuilders
<1>q. QED  BY <1>1, CacheTypesHold, PTL

-----------------------------------------------------------------------------
(* The lock-free examination of a copy, entry by entry while other         *)
(* processes and a cleanup change the folder: what it takes for a whole    *)
(* copy was one.                                                           *)

(* The examination is bound to fail: an entry it has still to look at is   *)
(* missing, or (in a full validation) has the wrong bytes.                 *)
Missing(p) == Exists(exam[p]) => \E e \in todo[p] : ~Present(exam[p], e)
Lacking(p) ==
  Exists(exam[p]) => \E e \in todo[p] : ~Present(exam[p], e) \/ Damaged(exam[p], e)

(* Either the copy was whole at some moment, or the examination will fail. *)
Examined(p) ==
  /\ pc[p] = "check" => WasWhole(p) \/ Missing(p)
  /\ pc[p] = "validate" => WasWhole(p) \/ Lacking(p)
  /\ pc[p] \in {"syncTree", "syncName", "syncRename", "mark", "syncMark"} => WasWhole(p)

(* What a step may make of a copy: it is removed, replaced by a finished   *)
(* one, or loses entries; nothing mends it in place.                       *)
Evolves(t, u) ==
  \/ u = NoTree \/ u = FinishedCopy
  \/ /\ t # NoTree
     /\ u.has \subseteq t.has
     /\ \A e \in u.has : e \in t.bad => e \in u.bad

LEMMA OtherExamined ==
  ASSUME TypeInv, NEW q \in Procs, Examined(q), Stays(q), Remember,
         \A w \in Versions : Evolves(tree[w], tree'[w])
  PROVE  Examined(q)'
<1>1. CASE pc[q] \notin {"check", "validate", "syncTree", "syncName",
                         "syncRename", "mark", "syncMark"}
  BY <1>1 DEF Examined, Stays
<1>2. CASE pc[q] \in {"check", "validate", "syncTree", "syncName",
                      "syncRename", "mark", "syncMark"}
  <2>1. exam[q] \in Versions /\ Stays(q)
    BY <1>2 DEF TypeInv, PcTyped
  <2>2. CASE WasWhole(q)
    <3>1. seen'[q]
      BY <1>2, <2>1, <2>2 DEF Remember, Stays
    <3>q. QED  BY <3>1 DEF Examined, WasWhole
  <2>3. CASE tree'[exam[q]] = FinishedCopy
    <3>1. Whole(exam[q])'
      BY <2>1, <2>3, FolderFacts DEF Whole, Exists, FinishedCopy, Stays
    <3>q. QED  BY <3>1 DEF Examined, WasWhole
  <2>4. CASE ~WasWhole(q) /\ tree'[exam[q]] = NoTree
    <3>1. ~Exists(exam[q])'
      BY <2>1, <2>4 DEF Stays, Exists
    <3>q. QED  BY <1>2, <2>1, <2>4, <3>1 DEF Examined, Missing, Lacking, Stays
  <2>5. CASE /\ ~WasWhole(q) /\ tree[exam[q]] # NoTree
             /\ tree'[exam[q]].has \subseteq tree[exam[q]].has
             /\ \A e \in tree'[exam[q]].has :
                  e \in tree[exam[q]].bad => e \in tree'[exam[q]].bad
    <3>1. Missing(q) => Missing(q)'
      BY <2>1, <2>5 DEF Missing, Present, Exists, Stays
    <3>2. Lacking(q) => Lacking(q)'
      BY <2>1, <2>5 DEF Lacking, Present, Damaged, Exists, Stays
    <3>q. QED  BY <2>1, <2>5, <3>1, <3>2 DEF Examined, Stays
  <2>q. QED  BY <2>1, <2>2, <2>3, <2>4, <2>5 DEF Evolves
<1>q. QED  BY <1>1, <1>2

(* What was whole is remembered as long as the call goes on.               *)
LEMMA Remembered ==
  ASSUME NEW p \in Procs, WasWhole(p), Remember,
         pc'[p] \notin {"idle", "look", "handed", "unserved"}
  PROVE  WasWhole(p)'
BY DEF Remember, WasWhole

LEMMA MissExamined ==
  ASSUME TypeInv, NEW p \in Procs, pc[p] # "idle", Miss(p), UNCHANGED diskVars, Remember
  PROVE  Examined(p)'
<1>1. /\ exam[p] \in Versions /\ exam' = exam /\ tree' = tree
      /\ pc'[p] = AfterMiss(p)
      /\ todo'[p] = IF lock = p THEN Entries ELSE {}
  BY DEF TypeInv, PcTyped, CallTyped, Miss, Goto, callVars, diskVars
<1>2. pc'[p] \in {"validate", "fallback", "lock"} /\ (pc'[p] = "validate" => lock = p)
  BY <1>1 DEF AfterMiss
<1>3. CASE pc'[p] # "validate"
  BY <1>2, <1>3 DEF Examined
<1>4. CASE pc'[p] = "validate" /\ Whole(exam[p])
  <2>1. WasWhole(p)'
    BY <1>4, Remembered DEF WasWhole
  <2>q. QED  BY <1>4, <2>1 DEF Examined
<1>5. CASE pc'[p] = "validate" /\ ~Whole(exam[p])
  <2>1. Exists(exam[p]) => tree[exam[p]] \in Folders
    BY <1>1 DEF TypeInv, DiskTyped, Slots, Exists
  <2>2. Exists(exam[p]) =>
          \E e \in Entries : ~Present(exam[p], e) \/ Damaged(exam[p], e)
    BY <1>5, <2>1 DEF Whole, Folders, Present, Damaged
  <2>3. Lacking(p)'
    BY <1>1, <1>2, <1>5, <2>2 DEF Lacking, Exists, Present, Damaged
  <2>q. QED  BY <1>5, <2>3 DEF Examined
<1>q. QED  BY <1>3, <1>4, <1>5

LEMMA HandOutExamined ==
  ASSUME TypeInv, NEW p \in Procs, HandOut(p)
  PROVE  Examined(p)'
BY DEF TypeInv, PcTyped, HandOut, Leave, Goto, Examined

(* Every action preserves Examined: what it makes of the copies, the other *)
(* processes, and the process that moves.                                  *)

LEMMA BeginRefreshExamined ==
  ASSUME TypeInv, IntactInv, \A q \in Procs : Examined(q),
         NEW p \in Procs, BeginRefresh(p), Remember
  PROVE  \A q \in Procs : Examined(q)'
<1>1. \A w \in Versions : Evolves(tree[w], tree'[w])
  BY DEF Evolves, BeginRefresh, Goto, diskVars, callVars, memoryVars,
       worldVars
<1>2. ASSUME NEW q \in Procs \ {p}
      PROVE  Examined(q)'
  <2>1. Stays(q)
    BY DEF Stays, TypeInv, PcTyped, CallTyped, BeginRefresh, Goto, diskVars,
         callVars, memoryVars, worldVars
  <2>q. QED  BY <1>1, <2>1, OtherExamined
<1>3. Examined(p)'
  BY DEF TypeInv, PcTyped, Examined, BeginRefresh, Goto, diskVars, callVars,
       memoryVars, worldVars
<1>q. QED  BY <1>2, <1>3

LEMMA BeginPathExamined ==
  ASSUME TypeInv, IntactInv, \A q \in Procs : Examined(q),
         NEW p \in Procs, BeginPath(p), Remember
  PROVE  \A q \in Procs : Examined(q)'
<1>1. \A w \in Versions : Evolves(tree[w], tree'[w])
  BY DEF Evolves, BeginPath, Goto, diskVars, callVars, memoryVars, worldVars
<1>2. ASSUME NEW q \in Procs \ {p}
      PROVE  Examined(q)'
  <2>1. Stays(q)
    BY DEF Stays, TypeInv, PcTyped, CallTyped, BeginPath, Goto, diskVars,
         callVars, memoryVars, worldVars
  <2>q. QED  BY <1>1, <2>1, OtherExamined
<1>3. Examined(p)'
  BY DEF TypeInv, PcTyped, Examined, BeginPath, Goto, diskVars, callVars,
       memoryVars, worldVars
<1>q. QED  BY <1>2, <1>3

LEMMA LookExamined ==
  ASSUME TypeInv, IntactInv, \A q \in Procs : Examined(q),
         NEW p \in Procs, Look(p), Remember
  PROVE  \A q \in Procs : Examined(q)'
<1>1. \A w \in Versions : Evolves(tree[w], tree'[w])
  BY DEF Evolves, Look, HandOut, Leave, FreedLock, Miss, AfterMiss, Goto,
       Exists, diskVars, callVars, memoryVars, worldVars
<1>2. ASSUME NEW q \in Procs \ {p}
      PROVE  Examined(q)'
  <2>1. Stays(q)
    BY DEF Stays, TypeInv, PcTyped, CallTyped, Look, HandOut, Leave,
         FreedLock, Miss, AfterMiss, Goto, Exists, diskVars, callVars,
         memoryVars, worldVars
  <2>q. QED  BY <1>1, <2>1, OtherExamined
<1>3. Examined(p)'
  <2>1. CASE HandOut(p) /\ pc[p] = "look"
    BY <2>1, HandOutExamined
  <2>2. CASE Goto(p, "marked")
    BY <2>2 DEF TypeInv, PcTyped, Goto, Examined
  <2>3. CASE Miss(p) /\ pc[p] = "look" /\ UNCHANGED diskVars
    BY <2>3, MissExamined
  <2>q. QED  BY <2>1, <2>2, <2>3 DEF Look
<1>q. QED  BY <1>2, <1>3

LEMMA CheckMarkerExamined ==
  ASSUME TypeInv, IntactInv, \A q \in Procs : Examined(q),
         NEW p \in Procs, CheckMarker(p), Remember
  PROVE  \A q \in Procs : Examined(q)'
<1>1. \A w \in Versions : Evolves(tree[w], tree'[w])
  BY DEF Evolves, CheckMarker, HandOut, Leave, FreedLock, Miss, AfterMiss,
       Goto, diskVars, callVars, memoryVars, worldVars
<1>2. ASSUME NEW q \in Procs \ {p}
      PROVE  Examined(q)'
  <2>1. Stays(q)
    BY DEF Stays, TypeInv, PcTyped, CallTyped, CheckMarker, HandOut, Leave,
         FreedLock, Miss, AfterMiss, Goto, diskVars, callVars, memoryVars,
         worldVars
  <2>q. QED  BY <1>1, <2>1, OtherExamined
<1>3. Examined(p)'
  <2>1. CASE marker[exam[p]]
    <3>1. /\ exam[p] \in Versions /\ exam' = exam /\ tree' = tree
          /\ pc'[p] = "check" /\ todo'[p] = Entries
      BY <2>1 DEF TypeInv, PcTyped, CallTyped, CheckMarker, Goto, callVars,
           diskVars
    <3>2. CASE Whole(exam[p])
      <4>1. WasWhole(p)'
        BY <3>1, <3>2, Remembered DEF WasWhole
      <4>q. QED  BY <3>1, <4>1 DEF Examined
    <3>3. CASE ~Whole(exam[p])
      <4>1. Exists(exam[p]) => tree[exam[p]] \in Folders /\ tree[exam[p]].bad = {}
        BY <2>1, <3>1 DEF TypeInv, DiskTyped, Slots, Exists, IntactInv,
             VouchedSound, Sound
      <4>2. Exists(exam[p]) => \E e \in Entries : ~Present(exam[p], e)
        BY <3>3, <4>1 DEF Whole, Folders, Present
      <4>3. Missing(p)'
        BY <3>1, <4>2 DEF Missing, Exists, Present
      <4>q. QED  BY <3>1, <4>3 DEF Examined
    <3>q. QED  BY <3>2, <3>3
  <2>2. CASE ~marker[exam[p]]
    BY <2>2, MissExamined DEF CheckMarker
  <2>q. QED  BY <2>1, <2>2
<1>q. QED  BY <1>2, <1>3

LEMMA CheckEntryExamined ==
  ASSUME TypeInv, IntactInv, \A q \in Procs : Examined(q),
         NEW p \in Procs, CheckEntry(p), Remember
  PROVE  \A q \in Procs : Examined(q)'
<1>1. \A w \in Versions : Evolves(tree[w], tree'[w])
  BY DEF Evolves, CheckEntry, HandOut, Leave, FreedLock, Miss, AfterMiss,
       Goto, NextEntries, diskVars, callVars, memoryVars, worldVars
<1>2. ASSUME NEW q \in Procs \ {p}
      PROVE  Examined(q)'
  <2>1. Stays(q)
    BY DEF Stays, TypeInv, PcTyped, CallTyped, CheckEntry, HandOut, Leave,
         FreedLock, Miss, AfterMiss, Goto, NextEntries, diskVars, callVars,
         memoryVars, worldVars
  <2>q. QED  BY <1>1, <2>1, OtherExamined
<1>3. Examined(p)'
  <2>1. PICK e \in NextEntries(p) :
          IF ~Present(exam[p], e) \/ (e = Manifest /\ Damaged(exam[p], e)) THEN Miss(p)
          ELSE IF todo[p] = {e} THEN HandOut(p)
          ELSE /\ todo' = [todo EXCEPT ![p] = @ \ {e}]
               /\ UNCHANGED <<pc, callVars>>
    BY DEF CheckEntry
  <2>2. pc[p] = "check" /\ UNCHANGED diskVars /\ Examined(p)
    BY DEF CheckEntry
  <2>3. CASE /\ Present(exam[p], e)
             /\ todo' = [todo EXCEPT ![p] = @ \ {e}]
             /\ UNCHANGED <<pc, callVars>>
    <3>1. /\ todo'[p] = todo[p] \ {e} /\ pc'[p] = "check"
          /\ tree' = tree /\ exam' = exam
      BY <2>2, <2>3 DEF TypeInv, CallTyped, callVars, diskVars
    <3>2. Missing(p) => Missing(p)'
      BY <2>3, <3>1 DEF Missing, Present, Exists
    <3>3. WasWhole(p) => WasWhole(p)'
      BY <3>1, Remembered
    <3>q. QED  BY <2>2, <3>1, <3>2, <3>3 DEF Examined
  <2>q. QED  BY <2>1, <2>2, <2>3, MissExamined, HandOutExamined
<1>q. QED  BY <1>2, <1>3

LEMMA WalkFailsExamined ==
  ASSUME TypeInv, IntactInv, \A q \in Procs : Examined(q),
         NEW p \in Procs, WalkFails(p), Remember
  PROVE  \A q \in Procs : Examined(q)'
<1>1. \A w \in Versions : Evolves(tree[w], tree'[w])
  BY DEF Evolves, WalkFails, Miss, AfterMiss, Goto, diskVars, callVars,
       memoryVars, worldVars
<1>2. ASSUME NEW q \in Procs \ {p}
      PROVE  Examined(q)'
  <2>1. Stays(q)
    BY DEF Stays, TypeInv, PcTyped, CallTyped, WalkFails, Miss, AfterMiss,
         Goto, diskVars, callVars, memoryVars, worldVars
  <2>q. QED  BY <1>1, <2>1, OtherExamined
<1>3. Examined(p)'
  BY MissExamined DEF WalkFails
<1>q. QED  BY <1>2, <1>3

LEMMA ListMarkersExamined ==
  ASSUME TypeInv, IntactInv, \A q \in Procs : Examined(q),
         NEW p \in Procs, ListMarkers(p), Remember
  PROVE  \A q \in Procs : Examined(q)'
<1>1. \A w \in Versions : Evolves(tree[w], tree'[w])
  BY DEF Evolves, ListMarkers, NothingCached, Leave, FreedLock, Goto,
       diskVars, callVars, memoryVars, worldVars
<1>2. ASSUME NEW q \in Procs \ {p}
      PROVE  Examined(q)'
  <2>1. Stays(q)
    BY DEF Stays, TypeInv, PcTyped, CallTyped, ListMarkers, NothingCached,
         Leave, FreedLock, Goto, diskVars, callVars, memoryVars, worldVars
  <2>q. QED  BY <1>1, <2>1, OtherExamined
<1>3. Examined(p)'
  BY DEF TypeInv, PcTyped, Examined, ListMarkers, NothingCached, Leave,
       FreedLock, Goto, diskVars, callVars, memoryVars, worldVars
<1>q. QED  BY <1>2, <1>3

LEMMA NextCandidateExamined ==
  ASSUME TypeInv, IntactInv, \A q \in Procs : Examined(q),
         NEW p \in Procs, NextCandidate(p), Remember
  PROVE  \A q \in Procs : Examined(q)'
<1>1. \A w \in Versions : Evolves(tree[w], tree'[w])
  BY DEF Evolves, NextCandidate, NothingCached, Leave, FreedLock, Goto,
       diskVars, callVars, memoryVars, worldVars
<1>2. ASSUME NEW q \in Procs \ {p}
      PROVE  Examined(q)'
  <2>1. Stays(q)
    BY DEF Stays, TypeInv, PcTyped, CallTyped, NextCandidate, NothingCached,
         Leave, FreedLock, Goto, diskVars, callVars, memoryVars, worldVars
  <2>q. QED  BY <1>1, <2>1, OtherExamined
<1>3. Examined(p)'
  BY DEF TypeInv, PcTyped, Examined, NextCandidate, NothingCached, Leave,
       FreedLock, Goto, diskVars, callVars, memoryVars, worldVars
<1>q. QED  BY <1>2, <1>3

LEMMA ReturnExamined ==
  ASSUME TypeInv, IntactInv, \A q \in Procs : Examined(q),
         NEW p \in Procs, Return(p), Remember
  PROVE  \A q \in Procs : Examined(q)'
<1>1. \A w \in Versions : Evolves(tree[w], tree'[w])
  BY DEF Evolves, Return, Fail, Leave, FreedLock, Goto, diskVars, callVars,
       memoryVars, worldVars
<1>2. ASSUME NEW q \in Procs \ {p}
      PROVE  Examined(q)'
  <2>1. Stays(q)
    BY DEF Stays, TypeInv, PcTyped, CallTyped, Return, Fail, Leave, FreedLock,
         Goto, diskVars, callVars, memoryVars, worldVars
  <2>q. QED  BY <1>1, <2>1, OtherExamined
<1>3. Examined(p)'
  BY DEF TypeInv, PcTyped, Examined, Return, Fail, Leave, FreedLock, Goto,
       diskVars, callVars, memoryVars, worldVars
<1>q. QED  BY <1>2, <1>3

LEMMA TakeLockExamined ==
  ASSUME TypeInv, IntactInv, \A q \in Procs : Examined(q),
         NEW p \in Procs, TakeLock(p), Remember
  PROVE  \A q \in Procs : Examined(q)'
<1>1. \A w \in Versions : Evolves(tree[w], tree'[w])
  BY DEF Evolves, TakeLock, Goto, MaterializeFrame, diskVars, callVars,
       memoryVars, worldVars
<1>2. ASSUME NEW q \in Procs \ {p}
      PROVE  Examined(q)'
  <2>1. Stays(q)
    BY DEF Stays, TypeInv, PcTyped, CallTyped, TakeLock, Goto,
         MaterializeFrame, diskVars, callVars, memoryVars, worldVars
  <2>q. QED  BY <1>1, <2>1, OtherExamined
<1>3. Examined(p)'
  BY DEF TypeInv, PcTyped, Examined, TakeLock, Goto, MaterializeFrame,
       diskVars, callVars, memoryVars, worldVars
<1>q. QED  BY <1>2, <1>3

LEMMA SweepExamined ==
  ASSUME TypeInv, IntactInv, \A q \in Procs : Examined(q),
         NEW p \in Procs, Sweep(p), Remember
  PROVE  \A q \in Procs : Examined(q)'
<1>1. \A w \in Versions : Evolves(tree[w], tree'[w])
  BY DEF Evolves, Sweep, Goto, MaterializeFrame, SyncVersionsDir,
       MarkersWithCopies, Exists, diskVars, callVars, memoryVars, worldVars
<1>2. ASSUME NEW q \in Procs \ {p}
      PROVE  Examined(q)'
  <2>1. Stays(q)
    BY DEF Stays, TypeInv, PcTyped, CallTyped, Sweep, Goto, MaterializeFrame,
         SyncVersionsDir, MarkersWithCopies, Exists, diskVars, callVars,
         memoryVars, worldVars
  <2>q. QED  BY <1>1, <2>1, OtherExamined
<1>3. Examined(p)'
  BY DEF TypeInv, PcTyped, Examined, Sweep, Goto, MaterializeFrame,
       SyncVersionsDir, MarkersWithCopies, Exists, diskVars, callVars,
       memoryVars, worldVars
<1>q. QED  BY <1>2, <1>3

LEMMA CheckExistsExamined ==
  ASSUME TypeInv, IntactInv, \A q \in Procs : Examined(q),
         NEW p \in Procs, CheckExists(p), Remember
  PROVE  \A q \in Procs : Examined(q)'
<1>1. \A w \in Versions : Evolves(tree[w], tree'[w])
  BY DEF Evolves, CheckExists, Goto, MaterializeFrame, diskVars, callVars,
       memoryVars, worldVars
<1>2. ASSUME NEW q \in Procs \ {p}
      PROVE  Examined(q)'
  <2>1. Stays(q)
    BY DEF Stays, TypeInv, PcTyped, CallTyped, CheckExists, Goto,
         MaterializeFrame, diskVars, callVars, memoryVars, worldVars
  <2>q. QED  BY <1>1, <2>1, OtherExamined
<1>3. Examined(p)'
  BY DEF TypeInv, PcTyped, Examined, CheckExists, Goto, MaterializeFrame,
       diskVars, callVars, memoryVars, worldVars
<1>q. QED  BY <1>2, <1>3

LEMMA ValidateEntryExamined ==
  ASSUME TypeInv, IntactInv, \A q \in Procs : Examined(q),
         NEW p \in Procs, ValidateEntry(p), Remember
  PROVE  \A q \in Procs : Examined(q)'
<1>1. \A w \in Versions : Evolves(tree[w], tree'[w])
  BY DEF Evolves, ValidateEntry, Goto, NextEntries, diskVars, callVars,
       memoryVars, worldVars
<1>2. ASSUME NEW q \in Procs \ {p}
      PROVE  Examined(q)'
  <2>1. Stays(q)
    BY DEF Stays, TypeInv, PcTyped, CallTyped, ValidateEntry, Goto,
         NextEntries, diskVars, callVars, memoryVars, worldVars
  <2>q. QED  BY <1>1, <2>1, OtherExamined
<1>3. Examined(p)'
  <2>1. /\ tree' = tree /\ exam' = exam
        /\ pc[p] = "validate" /\ Examined(p)
    BY DEF ValidateEntry, diskVars, callVars
  <2>2. PICK e \in NextEntries(p) :
          IF ~Present(exam[p], e) \/ Damaged(exam[p], e)
          THEN Goto(p, "unmark")
          ELSE /\ todo' = [todo EXCEPT ![p] = @ \ {e}]
               /\ Goto(p, IF todo[p] = {e} THEN "syncTree" ELSE "validate")
    BY DEF ValidateEntry
  <2>3. CASE ~Present(exam[p], e) \/ Damaged(exam[p], e)
    BY <2>2, <2>3 DEF TypeInv, PcTyped, Goto, Examined
  <2>4. CASE Present(exam[p], e) /\ ~Damaged(exam[p], e)
    <3>1. /\ todo'[p] = todo[p] \ {e}
          /\ pc'[p] = IF todo[p] = {e} THEN "syncTree" ELSE "validate"
      BY <2>2, <2>4 DEF TypeInv, PcTyped, CallTyped, Goto
    <3>2. CASE WasWhole(p)
      <4>1. WasWhole(p)'
        BY <3>1, <3>2, Remembered
      <4>q. QED  BY <3>1, <4>1 DEF Examined
    <3>3. CASE Lacking(p)
      <4>1. PICK f \in todo[p] : ~Present(exam[p], f) \/ Damaged(exam[p], f)
        BY <2>4, <3>3 DEF Lacking, Present
      <4>2. f # e
        BY <2>4, <4>1
      <4>3. Lacking(p)' /\ pc'[p] = "validate"
        BY <2>1, <3>1, <4>1, <4>2 DEF Lacking, Present, Damaged, Exists
      <4>q. QED  BY <4>3 DEF Examined
    <3>q. QED  BY <2>1, <3>2, <3>3 DEF Examined
  <2>q. QED  BY <2>3, <2>4
<1>q. QED  BY <1>2, <1>3

LEMMA SyncTreeExamined ==
  ASSUME TypeInv, IntactInv, \A q \in Procs : Examined(q),
         NEW p \in Procs, SyncTree(p), Remember
  PROVE  \A q \in Procs : Examined(q)'
<1>1. \A w \in Versions : Evolves(tree[w], tree'[w])
  <2>1. CASE Exists(exam[p])
    <3>1. exam[p] \in Versions
      BY DEF TypeInv, PcTyped, SyncTree
    <3>2. tree[exam[p]] \in Folders
      BY <2>1, <3>1 DEF TypeInv, DiskTyped, Slots, Exists
    <3>3. tree' = [tree EXCEPT ![exam[p]] = [tree[exam[p]] EXCEPT !.safe = TRUE]]
      BY <2>1 DEF SyncTree
    <3>4. /\ tree'[exam[p]].has = tree[exam[p]].has
          /\ tree'[exam[p]].bad = tree[exam[p]].bad
      BY <3>1, <3>2, <3>3 DEF TypeInv, DiskTyped, Folders
    <3>q. QED  BY <2>1, <3>1, <3>3, <3>4 DEF TypeInv, DiskTyped, Evolves, Exists
  <2>2. CASE ~Exists(exam[p])
    BY <2>2 DEF SyncTree, Evolves
  <2>q. QED  BY <2>1, <2>2
<1>2. ASSUME NEW q \in Procs \ {p}
      PROVE  Examined(q)'
  <2>1. Stays(q)
    BY DEF Stays, TypeInv, PcTyped, CallTyped, SyncTree, Goto,
         MaterializeFrame, Exists, diskVars, callVars, memoryVars, worldVars
  <2>q. QED  BY <1>1, <2>1, OtherExamined
<1>3. Examined(p)'
  <2>1. WasWhole(p)
    BY DEF Examined, SyncTree
  <2>2. pc'[p] = "syncName"
    BY DEF TypeInv, PcTyped, SyncTree, Goto
  <2>q. QED  BY <2>1, <2>2, Remembered DEF Examined
<1>q. QED  BY <1>2, <1>3

LEMMA SyncTreeFailsExamined ==
  ASSUME TypeInv, IntactInv, \A q \in Procs : Examined(q),
         NEW p \in Procs, SyncTreeFails(p), Remember
  PROVE  \A q \in Procs : Examined(q)'
<1>1. \A w \in Versions : Evolves(tree[w], tree'[w])
  BY DEF Evolves, SyncTreeFails, Fail, Leave, FreedLock, Goto, diskVars,
       callVars, memoryVars, worldVars
<1>2. ASSUME NEW q \in Procs \ {p}
      PROVE  Examined(q)'
  <2>1. Stays(q)
    BY DEF Stays, TypeInv, PcTyped, CallTyped, SyncTreeFails, Fail, Leave,
         FreedLock, Goto, diskVars, callVars, memoryVars, worldVars
  <2>q. QED  BY <1>1, <2>1, OtherExamined
<1>3. Examined(p)'
  BY DEF TypeInv, PcTyped, Examined, SyncTreeFails, Fail, Leave, FreedLock,
       Goto, diskVars, callVars, memoryVars, worldVars
<1>q. QED  BY <1>2, <1>3

LEMMA SyncNameExamined ==
  ASSUME TypeInv, IntactInv, \A q \in Procs : Examined(q),
         NEW p \in Procs, SyncName(p), Remember
  PROVE  \A q \in Procs : Examined(q)'
<1>1. \A w \in Versions : Evolves(tree[w], tree'[w])
  BY DEF Evolves, SyncName, Goto, MaterializeFrame, SyncVersionsDir, diskVars,
       callVars, memoryVars, worldVars
<1>2. ASSUME NEW q \in Procs \ {p}
      PROVE  Examined(q)'
  <2>1. Stays(q)
    BY DEF Stays, TypeInv, PcTyped, CallTyped, SyncName, Goto,
         MaterializeFrame, SyncVersionsDir, diskVars, callVars, memoryVars,
         worldVars
  <2>q. QED  BY <1>1, <2>1, OtherExamined
<1>3. Examined(p)'
  <2>1. WasWhole(p)
    BY DEF Examined, SyncName
  <2>2. pc'[p] = "mark"
    BY DEF TypeInv, PcTyped, SyncName, Goto
  <2>q. QED  BY <2>1, <2>2, Remembered DEF Examined
<1>q. QED  BY <1>2, <1>3

LEMMA UnmarkExamined ==
  ASSUME TypeInv, IntactInv, \A q \in Procs : Examined(q),
         NEW p \in Procs, Unmark(p), Remember
  PROVE  \A q \in Procs : Examined(q)'
<1>1. \A w \in Versions : Evolves(tree[w], tree'[w])
  BY DEF Evolves, Unmark, Goto, MaterializeFrame, diskVars, callVars,
       memoryVars, worldVars
<1>2. ASSUME NEW q \in Procs \ {p}
      PROVE  Examined(q)'
  <2>1. Stays(q)
    BY DEF Stays, TypeInv, PcTyped, CallTyped, Unmark, Goto, MaterializeFrame,
         diskVars, callVars, memoryVars, worldVars
  <2>q. QED  BY <1>1, <2>1, OtherExamined
<1>3. Examined(p)'
  BY DEF TypeInv, PcTyped, Examined, Unmark, Goto, MaterializeFrame, diskVars,
       callVars, memoryVars, worldVars
<1>q. QED  BY <1>2, <1>3

LEMMA MoveAsideExamined ==
  ASSUME TypeInv, IntactInv, \A q \in Procs : Examined(q),
         NEW p \in Procs, MoveAside(p), Remember
  PROVE  \A q \in Procs : Examined(q)'
<1>1. \A w \in Versions : Evolves(tree[w], tree'[w])
  BY DEF TypeInv, DiskTyped, Evolves, MoveAside, Goto, diskVars, callVars,
       memoryVars, worldVars
<1>2. ASSUME NEW q \in Procs \ {p}
      PROVE  Examined(q)'
  <2>1. Stays(q)
    BY DEF Stays, TypeInv, PcTyped, CallTyped, MoveAside, Goto, diskVars,
         callVars, memoryVars, worldVars
  <2>q. QED  BY <1>1, <2>1, OtherExamined
<1>3. Examined(p)'
  BY DEF TypeInv, PcTyped, Examined, MoveAside, Goto, diskVars, callVars,
       memoryVars, worldVars
<1>q. QED  BY <1>2, <1>3

LEMMA StageExamined ==
  ASSUME TypeInv, IntactInv, \A q \in Procs : Examined(q),
         NEW p \in Procs, Stage(p), Remember
  PROVE  \A q \in Procs : Examined(q)'
<1>1. \A w \in Versions : Evolves(tree[w], tree'[w])
  BY DEF Evolves, Stage, Goto, MaterializeFrame, diskVars, callVars,
       memoryVars, worldVars
<1>2. ASSUME NEW q \in Procs \ {p}
      PROVE  Examined(q)'
  <2>1. Stays(q)
    BY DEF Stays, TypeInv, PcTyped, CallTyped, Stage, Goto, MaterializeFrame,
         diskVars, callVars, memoryVars, worldVars
  <2>q. QED  BY <1>1, <2>1, OtherExamined
<1>3. Examined(p)'
  BY DEF TypeInv, PcTyped, Examined, Stage, Goto, MaterializeFrame, diskVars,
       callVars, memoryVars, worldVars
<1>q. QED  BY <1>2, <1>3

LEMMA FetchFailsExamined ==
  ASSUME TypeInv, IntactInv, \A q \in Procs : Examined(q),
         NEW p \in Procs, FetchFails(p), Remember
  PROVE  \A q \in Procs : Examined(q)'
<1>1. \A w \in Versions : Evolves(tree[w], tree'[w])
  BY DEF Evolves, FetchFails, Fail, Leave, FreedLock, Goto, RemoveTemp,
       diskVars, callVars, memoryVars, worldVars
<1>2. ASSUME NEW q \in Procs \ {p}
      PROVE  Examined(q)'
  <2>1. Stays(q)
    BY DEF Stays, TypeInv, PcTyped, CallTyped, FetchFails, Fail, Leave,
         FreedLock, Goto, RemoveTemp, diskVars, callVars, memoryVars,
         worldVars
  <2>q. QED  BY <1>1, <2>1, OtherExamined
<1>3. Examined(p)'
  BY DEF TypeInv, PcTyped, Examined, FetchFails, Fail, Leave, FreedLock, Goto,
       RemoveTemp, diskVars, callVars, memoryVars, worldVars
<1>q. QED  BY <1>2, <1>3

LEMMA FetchExamined ==
  ASSUME TypeInv, IntactInv, \A q \in Procs : Examined(q),
         NEW p \in Procs, Fetch(p), Remember
  PROVE  \A q \in Procs : Examined(q)'
<1>1. \A w \in Versions : Evolves(tree[w], tree'[w])
  BY DEF Evolves, Fetch, Goto, MaterializeFrame, diskVars, callVars,
       memoryVars, worldVars
<1>2. ASSUME NEW q \in Procs \ {p}
      PROVE  Examined(q)'
  <2>1. Stays(q)
    BY DEF Stays, TypeInv, PcTyped, CallTyped, Fetch, Goto, MaterializeFrame,
         diskVars, callVars, memoryVars, worldVars
  <2>q. QED  BY <1>1, <2>1, OtherExamined
<1>3. Examined(p)'
  BY DEF TypeInv, PcTyped, Examined, Fetch, Goto, MaterializeFrame, diskVars,
       callVars, memoryVars, worldVars
<1>q. QED  BY <1>2, <1>3

LEMMA RenameExamined ==
  ASSUME TypeInv, IntactInv, \A q \in Procs : Examined(q),
         NEW p \in Procs, Rename(p), Remember
  PROVE  \A q \in Procs : Examined(q)'
<1>1. \A w \in Versions : Evolves(tree[w], tree'[w])
  <2>1. temp[p] = FinishedCopy
    BY DEF TypeInv, BuiltTyped, Rename
  <2>q. QED  BY <2>1 DEF TypeInv, DiskTyped, Evolves, Rename
<1>2. ASSUME NEW q \in Procs \ {p}
      PROVE  Examined(q)'
  <2>1. Stays(q)
    BY DEF Stays, TypeInv, PcTyped, CallTyped, Rename, Fail, Leave, FreedLock,
         Goto, Exists, diskVars, callVars, memoryVars, worldVars
  <2>q. QED  BY <1>1, <2>1, OtherExamined
<1>3. Examined(p)'
  <2>1. exam[p] \in Versions /\ temp[p] = FinishedCopy
    BY DEF TypeInv, PcTyped, BuiltTyped, Rename
  <2>2. CASE Exists(exam[p]) /\ tree[exam[p]].has # {}
    BY <2>2 DEF TypeInv, PcTyped, Rename, Fail, Leave, Goto, Examined
  <2>3. CASE ~(Exists(exam[p]) /\ tree[exam[p]].has # {})
    <3>1. /\ tree'[exam[p]] = FinishedCopy /\ exam'[p] = exam[p]
          /\ pc'[p] = "syncRename"
      BY <2>1, <2>3 DEF TypeInv, DiskTyped, PcTyped, Rename, Goto, callVars
    <3>2. Whole(exam[p])'
      BY <3>1, FolderFacts DEF Whole, Exists, FinishedCopy
    <3>q. QED  BY <3>1, <3>2 DEF Examined, WasWhole
  <2>q. QED  BY <2>2, <2>3
<1>q. QED  BY <1>2, <1>3

LEMMA SyncRenameExamined ==
  ASSUME TypeInv, IntactInv, \A q \in Procs : Examined(q),
         NEW p \in Procs, SyncRename(p), Remember
  PROVE  \A q \in Procs : Examined(q)'
<1>1. \A w \in Versions : Evolves(tree[w], tree'[w])
  BY DEF Evolves, SyncRename, Goto, MaterializeFrame, SyncVersionsDir,
       diskVars, callVars, memoryVars, worldVars
<1>2. ASSUME NEW q \in Procs \ {p}
      PROVE  Examined(q)'
  <2>1. Stays(q)
    BY DEF Stays, TypeInv, PcTyped, CallTyped, SyncRename, Goto,
         MaterializeFrame, SyncVersionsDir, diskVars, callVars, memoryVars,
         worldVars
  <2>q. QED  BY <1>1, <2>1, OtherExamined
<1>3. Examined(p)'
  <2>1. WasWhole(p)
    BY DEF Examined, SyncRename
  <2>2. pc'[p] = "mark"
    BY DEF TypeInv, PcTyped, SyncRename, Goto
  <2>q. QED  BY <2>1, <2>2, Remembered DEF Examined
<1>q. QED  BY <1>2, <1>3

LEMMA MarkExamined ==
  ASSUME TypeInv, IntactInv, \A q \in Procs : Examined(q),
         NEW p \in Procs, Mark(p), Remember
  PROVE  \A q \in Procs : Examined(q)'
<1>1. \A w \in Versions : Evolves(tree[w], tree'[w])
  BY DEF Evolves, Mark, Goto, MaterializeFrame, diskVars, callVars,
       memoryVars, worldVars
<1>2. ASSUME NEW q \in Procs \ {p}
      PROVE  Examined(q)'
  <2>1. Stays(q)
    BY DEF Stays, TypeInv, PcTyped, CallTyped, Mark, Goto, MaterializeFrame,
         diskVars, callVars, memoryVars, worldVars
  <2>q. QED  BY <1>1, <2>1, OtherExamined
<1>3. Examined(p)'
  <2>1. WasWhole(p)
    BY DEF Examined, Mark
  <2>2. pc'[p] = "syncMark"
    BY DEF TypeInv, PcTyped, Mark, Goto
  <2>q. QED  BY <2>1, <2>2, Remembered DEF Examined
<1>q. QED  BY <1>2, <1>3

LEMMA SyncMarkExamined ==
  ASSUME TypeInv, IntactInv, \A q \in Procs : Examined(q),
         NEW p \in Procs, SyncMark(p), Remember
  PROVE  \A q \in Procs : Examined(q)'
<1>1. \A w \in Versions : Evolves(tree[w], tree'[w])
  BY DEF Evolves, SyncMark, HandOut, Leave, FreedLock, Goto, SyncVersionsDir,
       diskVars, callVars, memoryVars, worldVars
<1>2. ASSUME NEW q \in Procs \ {p}
      PROVE  Examined(q)'
  <2>1. Stays(q)
    BY DEF Stays, TypeInv, PcTyped, CallTyped, SyncMark, HandOut, Leave,
         FreedLock, Goto, SyncVersionsDir, diskVars, callVars, memoryVars,
         worldVars
  <2>q. QED  BY <1>1, <2>1, OtherExamined
<1>3. Examined(p)'
  BY DEF TypeInv, PcTyped, Examined, SyncMark, HandOut, Leave, FreedLock,
       Goto, SyncVersionsDir, diskVars, callVars, memoryVars, worldVars
<1>q. QED  BY <1>2, <1>3

LEMMA CrashExamined ==
  ASSUME TypeInv, IntactInv, \A q \in Procs : Examined(q),
         NEW p \in Procs, Crash(p), Remember
  PROVE  \A q \in Procs : Examined(q)'
<1>1. \A w \in Versions : Evolves(tree[w], tree'[w])
  BY DEF Evolves, Crash, Fail, Leave, FreedLock, Goto, diskVars, callVars,
       memoryVars, worldVars
<1>2. ASSUME NEW q \in Procs \ {p}
      PROVE  Examined(q)'
  <2>1. Stays(q)
    BY DEF Stays, TypeInv, PcTyped, CallTyped, Crash, Fail, Leave, FreedLock,
         Goto, diskVars, callVars, memoryVars, worldVars
  <2>q. QED  BY <1>1, <2>1, OtherExamined
<1>3. Examined(p)'
  BY DEF TypeInv, PcTyped, Examined, Crash, Fail, Leave, FreedLock, Goto,
       diskVars, callVars, memoryVars, worldVars
<1>q. QED  BY <1>2, <1>3

LEMMA StartReapingExamined ==
  ASSUME TypeInv, \A q \in Procs : Examined(q), NEW v \in Versions, StartReaping(v), Remember
  PROVE  \A q \in Procs : Examined(q)'
<1>1. \A w \in Versions : Evolves(tree[w], tree'[w])
  BY DEF Evolves, StartReaping, WorldFrame, Exists, diskVars, callVars,
       memoryVars, worldVars
<1>2. \A q \in Procs : Stays(q)
  BY DEF Stays, StartReaping, WorldFrame, Exists, diskVars, callVars,
       memoryVars, worldVars
<1>q. QED  BY <1>1, <1>2, OtherExamined

LEMMA ReapEntryExamined ==
  ASSUME TypeInv, \A q \in Procs : Examined(q), NEW v \in Versions, ReapEntry(v), Remember
  PROVE  \A q \in Procs : Examined(q)'
<1>1. \A w \in Versions : Evolves(tree[w], tree'[w])
  BY ReapShrinks DEF Evolves
<1>2. \A q \in Procs : Stays(q)
  BY DEF Stays, ReapEntry, WorldFrame, diskVars, callVars, memoryVars,
       worldVars
<1>q. QED  BY <1>1, <1>2, OtherExamined

LEMMA StopReapingExamined ==
  ASSUME TypeInv, \A q \in Procs : Examined(q), NEW v \in Versions, StopReaping(v), Remember
  PROVE  \A q \in Procs : Examined(q)'
<1>1. \A w \in Versions : Evolves(tree[w], tree'[w])
  BY DEF Evolves, StopReaping, WorldFrame, diskVars, callVars, memoryVars,
       worldVars
<1>2. \A q \in Procs : Stays(q)
  BY DEF Stays, StopReaping, WorldFrame, diskVars, callVars, memoryVars,
       worldVars
<1>q. QED  BY <1>1, <1>2, OtherExamined

LEMMA MoveReleaseExamined ==
  ASSUME TypeInv, \A q \in Procs : Examined(q), MoveRelease, Remember
  PROVE  \A q \in Procs : Examined(q)'
<1>1. \A w \in Versions : Evolves(tree[w], tree'[w])
  BY DEF Evolves, MoveRelease, WorldFrame, diskVars, callVars, memoryVars,
       worldVars
<1>2. \A q \in Procs : Stays(q)
  BY DEF Stays, MoveRelease, WorldFrame, diskVars, callVars, memoryVars,
       worldVars
<1>q. QED  BY <1>1, <1>2, OtherExamined

LEMMA PowerFailureExamined ==
  ASSUME PowerFailure
  PROVE  \A q \in Procs : Examined(q)'
BY DEF PowerFailure, Examined

-----------------------------------------------------------------------------
LEMMA StepExamined ==
  ASSUME TypeInv, IntactInv, \A q \in Procs : Examined(q), Step, Remember
  PROVE  \A q \in Procs : Examined(q)'
<1>1. CASE \E p \in Procs : BeginRefresh(p) \/ BeginPath(p) \/ TakeLock(p) \/ Crash(p)
  BY <1>1, BeginRefreshExamined, BeginPathExamined, TakeLockExamined,
       CrashExamined
<1>2. CASE \E p \in Procs : Examine(p)
  BY <1>2, LookExamined, CheckMarkerExamined, CheckEntryExamined,
       WalkFailsExamined, ListMarkersExamined, NextCandidateExamined,
       ReturnExamined DEF Examine
<1>3. CASE \E p \in Procs : Materialize(p)
  BY <1>3, SweepExamined, CheckExistsExamined, ValidateEntryExamined,
       SyncTreeExamined, SyncTreeFailsExamined, SyncNameExamined,
       UnmarkExamined, MoveAsideExamined, StageExamined, FetchExamined,
       FetchFailsExamined, RenameExamined, SyncRenameExamined, MarkExamined,
       SyncMarkExamined DEF Materialize
<1>4. CASE \E v \in Versions : StartReaping(v) \/ ReapEntry(v) \/ StopReaping(v)
  BY <1>4, StartReapingExamined, ReapEntryExamined, StopReapingExamined
<1>5. CASE MoveRelease \/ PowerFailure
  BY <1>5, MoveReleaseExamined, PowerFailureExamined
<1>q. QED  BY <1>1, <1>2, <1>3, <1>4, <1>5 DEF Step

LEMMA StutterExamined ==
  ASSUME \A q \in Procs : Examined(q), UNCHANGED vars
  PROVE  \A q \in Procs : Examined(q)'
BY DEF Examined, Lacking, Missing, Present, Damaged, WasWhole, Whole, Exists,
     vars, diskVars, callVars, histVars

(* What is known of a copy while a process examines or builds it.          *)
THEOREM CacheExaminedHolds == Spec => [](\A q \in Procs : Examined(q))
<1>1. Init => \A q \in Procs : Examined(q)
  BY DEF Init, Examined
<1>2. TypeInv /\ IntactInv /\ (\A q \in Procs : Examined(q)) /\ [Next]_vars
      => (\A q \in Procs : Examined(q))'
  BY StepExamined, StutterExamined DEF Next
<1>q. QED  BY <1>1, <1>2, CacheTypesHold, CacheIntactHolds, PTL DEF Spec

(* A version enters the memory of a process only by a step that hands out  *)
(* its copy; a lookup hands out what the memory has already.               *)
LEMMA RememberedWasWhole ==
  ASSUME TypeInv, NEW q \in Procs, Examined(q), Step, mem'[q] \ mem[q] # {}
  PROVE  WasWhole(q)
<1>0. mem \in [Procs -> SUBSET Versions]
  BY DEF TypeInv, CallTyped
<1>1. CASE \E p \in Procs : CheckEntry(p) \/ SyncMark(p)
  <2>1. PICK p \in Procs : CheckEntry(p) \/ SyncMark(p)
    BY <1>1
  <2>2. CASE SyncMark(p)
    <3>1. p = q
      BY <1>0, <2>2 DEF SyncMark, HandOut
    <3>q. QED  BY <2>2, <3>1 DEF SyncMark, Examined
  <2>3. CASE CheckEntry(p)
    <3>1. PICK e \in NextEntries(p) :
            IF ~Present(exam[p], e) \/ (e = Manifest /\ Damaged(exam[p], e)) THEN Miss(p)
            ELSE IF todo[p] = {e} THEN HandOut(p)
            ELSE UNCHANGED memoryVars
      BY <2>3 DEF CheckEntry
    <3>2. Present(exam[p], e) /\ todo[p] = {e} /\ HandOut(p)
      BY <3>1 DEF Miss, memoryVars
    <3>3. p = q
      BY <1>0, <3>2 DEF HandOut
    <3>4. ~Missing(q)
      BY <3>2, <3>3 DEF Missing, Present
    <3>q. QED  BY <2>3, <3>3, <3>4 DEF CheckEntry, Examined
  <2>q. QED  BY <2>1, <2>2, <2>3
<1>2. CASE \E p \in Procs : BeginRefresh(p) \/ BeginPath(p) \/ TakeLock(p) \/ Crash(p)
  BY <1>0, <1>2 DEF BeginRefresh, BeginPath, TakeLock, Crash, memoryVars
<1>3. CASE \E p \in Procs : Look(p)
  BY <1>0, <1>3 DEF Look, HandOut, Miss, memoryVars
<1>4. CASE \E p \in Procs : \/ CheckMarker(p) \/ WalkFails(p) \/ ListMarkers(p)
                            \/ NextCandidate(p) \/ Return(p)
  BY <1>0, <1>4 DEF CheckMarker, Miss, WalkFails, ListMarkers, NextCandidate,
       Return, memoryVars
<1>5. CASE \E p \in Procs : /\ Materialize(p)
                            /\ ~SyncMark(p)
  BY <1>0, <1>5 DEF Materialize, Sweep, CheckExists, ValidateEntry, SyncTree,
       SyncTreeFails, SyncName, Unmark, MoveAside, Stage, Fetch, FetchFails,
       Rename, SyncRename, Mark, memoryVars
<1>6. CASE \E v \in Versions : StartReaping(v) \/ ReapEntry(v) \/ StopReaping(v)
  BY <1>6 DEF StartReaping, ReapEntry, StopReaping, WorldFrame, memoryVars
<1>7. CASE MoveRelease \/ PowerFailure
  BY <1>0, <1>7 DEF MoveRelease, PowerFailure, WorldFrame, memoryVars
<1>q. QED  BY <1>1, <1>2, <1>3, <1>4, <1>5, <1>6, <1>7 DEF Step, Examine

(* A process takes a copy for good only if the copy was whole at some      *)
(* moment of the call, although it looks at the entries one after another  *)
(* and without the lock, while cleanups and rebuilds change the folder.    *)
THEOREM CacheExaminedWasWhole == Spec => ExaminedWasWhole
<1>1. ASSUME TypeInv, \A q \in Procs : Examined(q), [Next]_vars
      PROVE  [\A p \in Procs : mem'[p] \ mem[p] # {} => WasWhole(p)]_vars
  BY <1>1, RememberedWasWhole DEF Next
<1>q. QED  BY <1>1, CacheTypesHold, CacheExaminedHolds, PTL DEF Spec, ExaminedWasWhole

-----------------------------------------------------------------------------
(* path: the search for a copy, which meets every version whose marked     *)
(* copy is whole all through the call.                                     *)

Searched(p) ==
  /\ pc[p] = "unserved" => steady[p] = {}
  /\ pc[p] = "fallback" => exam[p] \notin steady[p]
  /\ pc[p] = "fallback" /\ exam[p] # current[p] => steady[p] \subseteq rest[p]
  /\ pc[p] \in LookLabels /\ exam[p] # current[p]
     => steady[p] \subseteq rest[p] \cup {exam[p]}

Search(p) ==
  /\ lock = p => pc[p] \in LockLabels \cup LookLabels
  /\ op[p] = "path" => lock # p /\ pc[p] \notin LockLabels \cup {"lock"}
  /\ steady[p] \subseteq MarkedWhole
  /\ op[p] = "path" => Searched(p)
  /\ op[p] # "path" => steady[p] = {}

(* What a step leaves of the versions that were usable all through a call. *)
Fading(p) == /\ steady'[p] \subseteq steady[p]
             /\ steady'[p] \subseteq MarkedWhole'
             /\ op'[p] # "path" => steady'[p] = {}

LEMMA CallFades ==
  ASSUME NEW p \in Procs, pc[p] # "idle" \/ pc'[p] = "idle", Remember
  PROVE  Fading(p)
<1>1. steady'[p] = IF op'[p] # "path" \/ pc'[p] = "idle" THEN {}
                   ELSE IF pc[p] = "idle" THEN MarkedWhole
                   ELSE steady[p] \cap MarkedWhole'
  BY DEF Remember
<1>q. QED  BY <1>1 DEF Fading

LEMMA OtherSearch ==
  ASSUME NEW q \in Procs, Search(q), Stays(q), Remember,
         op'[q] = op[q], rest'[q] = rest[q], current'[q] = current[q],
         lock' = q => lock = q
  PROVE  Search(q)'
<1>1. Fading(q)
  BY CallFades DEF Stays
<1>q. QED  BY <1>1 DEF Search, Searched, Stays, Fading

(* A lookup that fails has met no version with a marked whole copy.        *)
LEMMA MissSearch ==
  ASSUME TypeInv, NEW p \in Procs, Search(p), Miss(p), pc[p] \in LookLabels,
         exam[p] \notin MarkedWhole, UNCHANGED diskVars, Remember
  PROVE  Search(p)'
<1>1. /\ pc'[p] = AfterMiss(p) /\ lock' = lock
      /\ op' = op /\ exam' = exam /\ rest' = rest /\ current' = current
  BY DEF TypeInv, PcTyped, Miss, Goto, callVars
<1>2. Fading(p)
  BY CallFades DEF LookLabels
<1>3. CASE op[p] = "path"
  <2>1. pc'[p] = "fallback"
    BY <1>1, <1>3 DEF AfterMiss, Search
  <2>2. exam[p] \notin steady[p]
    BY DEF Search
  <2>q. QED  BY <1>1, <1>2, <1>3, <2>1, <2>2
             DEF Search, Searched, Fading, LookLabels, LockLabels
<1>4. CASE op[p] # "path"
  <2>1. pc'[p] \in {"validate", "lock"} /\ (pc'[p] = "lock" => lock # p)
    BY <1>1, <1>4 DEF AfterMiss
  <2>q. QED  BY <1>1, <1>2, <1>4, <2>1 DEF Search, Fading, LockLabels
<1>q. QED  BY <1>3, <1>4

(* What is left of a call that is over.                                    *)
LEMMA LeaveSearch ==
  ASSUME TypeInv, NEW p \in Procs, NEW label \in {"idle", "handed"},
         Leave(p, label), op' = op, Search(p), pc[p] # "idle", Remember
  PROVE  Search(p)'
<1>1. pc'[p] = label /\ lock' # p
  BY CacheAssumption DEF TypeInv, PcTyped, LockTyped, Leave, Goto, FreedLock
<1>2. Fading(p)
  BY CallFades
<1>q. QED  BY <1>1, <1>2 DEF Search, Searched, Fading, LookLabels, LockLabels

LEMMA UnservedSearch ==
  ASSUME TypeInv, NEW p \in Procs, NothingCached(p), Search(p),
         pc[p] = "fallback", steady[p] = {}, Remember
  PROVE  Search(p)'
<1>1. pc'[p] = "unserved" /\ lock' # p /\ op' = op
  BY CacheAssumption
     DEF TypeInv, PcTyped, LockTyped, NothingCached, Leave, Goto, FreedLock
<1>2. Fading(p)
  BY CallFades
<1>q. QED  BY <1>1, <1>2 DEF Search, Searched, Fading, LookLabels, LockLabels

(* Every action preserves Search, for the others and for who moves.        *)

LEMMA BeginRefreshSearch ==
  ASSUME TypeInv, \A q \in Procs : Search(q), NEW p \in Procs, BeginRefresh(p), Remember
  PROVE  \A q \in Procs : Search(q)'
<1>1. ASSUME NEW q \in Procs \ {p}
      PROVE  Search(q)'
  <2>1. /\ Stays(q) /\ op'[q] = op[q] /\ rest'[q] = rest[q]
        /\ current'[q] = current[q] /\ (lock' = q => lock = q)
    BY CacheAssumption DEF Stays, TypeInv, PcTyped, CallTyped, LockTyped,
         BeginRefresh, Goto, diskVars, callVars, memoryVars, worldVars
  <2>q. QED  BY <2>1, OtherSearch
<1>2. Search(p)'
  <2>1. pc'[p] = "look" /\ op'[p] = "refresh"
    BY DEF TypeInv, PcTyped, CallTyped, BeginRefresh, Goto
  <2>2. steady'[p] = {}
    BY <2>1 DEF Remember
  <2>q. QED  BY <2>1, <2>2 DEF Search, LookLabels, LockLabels
<1>q. QED  BY <1>1, <1>2

LEMMA BeginPathSearch ==
  ASSUME TypeInv, \A q \in Procs : Search(q), NEW p \in Procs, BeginPath(p), Remember
  PROVE  \A q \in Procs : Search(q)'
<1>1. ASSUME NEW q \in Procs \ {p}
      PROVE  Search(q)'
  <2>1. /\ Stays(q) /\ op'[q] = op[q] /\ rest'[q] = rest[q]
        /\ current'[q] = current[q] /\ (lock' = q => lock = q)
    BY CacheAssumption DEF Stays, TypeInv, PcTyped, CallTyped, LockTyped,
         BeginPath, Goto, diskVars, callVars, memoryVars, worldVars
  <2>q. QED  BY <2>1, OtherSearch
<1>2. Search(p)'
  <2>1. /\ pc'[p] = "look" /\ op'[p] = "path" /\ exam'[p] = current'[p]
        /\ pc[p] = "idle" /\ lock' = lock /\ UNCHANGED diskVars
    BY DEF TypeInv, PcTyped, CallTyped, BeginPath, Goto
  <2>2. steady'[p] = MarkedWhole /\ MarkedWhole' = MarkedWhole
    BY <2>1 DEF Remember, MarkedWhole, Whole, Exists, diskVars
  <2>3. lock # p
    BY <2>1 DEF Search, LookLabels, LockLabels
  <2>q. QED  BY <2>1, <2>2, <2>3 DEF Search, Searched, LookLabels, LockLabels
<1>q. QED  BY <1>1, <1>2

LEMMA LookSearch ==
  ASSUME TypeInv, \A q \in Procs : Search(q), NEW p \in Procs, Look(p), Remember
  PROVE  \A q \in Procs : Search(q)'
<1>1. ASSUME NEW q \in Procs \ {p}
      PROVE  Search(q)'
  <2>1. /\ Stays(q) /\ op'[q] = op[q] /\ rest'[q] = rest[q]
        /\ current'[q] = current[q] /\ (lock' = q => lock = q)
    BY CacheAssumption DEF Stays, TypeInv, PcTyped, CallTyped, LockTyped,
         Look, HandOut, Leave, FreedLock, Miss, AfterMiss, Goto, Exists,
         diskVars, callVars, memoryVars, worldVars
  <2>q. QED  BY <2>1, OtherSearch
<1>2. Search(p)'
  <2>1. CASE HandOut(p)
    BY <2>1, LeaveSearch DEF Look, HandOut
  <2>2. CASE Goto(p, "marked") /\ UNCHANGED <<lock, callVars, memoryVars>>
    <3>1. /\ pc[p] = "look" /\ pc'[p] = "marked"
          /\ UNCHANGED <<lock, op, exam, rest, current>>
      BY <2>2 DEF TypeInv, PcTyped, Look, Goto, callVars, memoryVars
    <3>2. Fading(p)
      BY <3>1, CallFades
    <3>q. QED  BY <3>1, <3>2 DEF Search, Searched, Fading, LookLabels, LockLabels
  <2>3. CASE Miss(p) /\ ~Exists(exam[p])
    BY <2>3, MissSearch DEF Look, LookLabels, MarkedWhole, Whole
  <2>q. QED  BY <2>1, <2>2, <2>3 DEF Look
<1>q. QED  BY <1>1, <1>2

LEMMA CheckMarkerSearch ==
  ASSUME TypeInv, \A q \in Procs : Search(q), NEW p \in Procs, CheckMarker(p), Remember
  PROVE  \A q \in Procs : Search(q)'
<1>1. ASSUME NEW q \in Procs \ {p}
      PROVE  Search(q)'
  <2>1. /\ Stays(q) /\ op'[q] = op[q] /\ rest'[q] = rest[q]
        /\ current'[q] = current[q] /\ (lock' = q => lock = q)
    BY CacheAssumption DEF Stays, TypeInv, PcTyped, CallTyped, LockTyped,
         CheckMarker, HandOut, Leave, FreedLock, Miss, AfterMiss, Goto,
         diskVars, callVars, memoryVars, worldVars
  <2>q. QED  BY <2>1, OtherSearch
<1>2. Search(p)'
  <2>1. CASE marker[exam[p]]
    <3>1. /\ pc[p] = "marked" /\ pc'[p] = "check"
          /\ UNCHANGED <<lock, op, exam, rest, current>>
      BY <2>1 DEF TypeInv, PcTyped, CheckMarker, Goto, callVars
    <3>2. Fading(p)
      BY <3>1, CallFades
    <3>q. QED  BY <3>1, <3>2 DEF Search, Searched, Fading, LookLabels, LockLabels
  <2>2. CASE ~marker[exam[p]]
    BY <2>2, MissSearch DEF CheckMarker, LookLabels, MarkedWhole
  <2>q. QED  BY <2>1, <2>2
<1>q. QED  BY <1>1, <1>2

LEMMA CheckEntrySearch ==
  ASSUME TypeInv, \A q \in Procs : Search(q), NEW p \in Procs, CheckEntry(p), Remember
  PROVE  \A q \in Procs : Search(q)'
<1>1. ASSUME NEW q \in Procs \ {p}
      PROVE  Search(q)'
  <2>1. /\ Stays(q) /\ op'[q] = op[q] /\ rest'[q] = rest[q]
        /\ current'[q] = current[q] /\ (lock' = q => lock = q)
    BY CacheAssumption DEF Stays, TypeInv, PcTyped, CallTyped, LockTyped,
         CheckEntry, HandOut, Leave, FreedLock, Miss, AfterMiss, Goto,
         NextEntries, diskVars, callVars, memoryVars, worldVars
  <2>q. QED  BY <2>1, OtherSearch
<1>2. Search(p)'
  <2>1. PICK e \in NextEntries(p) :
          IF ~Present(exam[p], e) \/ (e = Manifest /\ Damaged(exam[p], e)) THEN Miss(p)
          ELSE IF todo[p] = {e} THEN HandOut(p)
          ELSE UNCHANGED <<pc, lock, callVars, memoryVars>>
    BY DEF CheckEntry
  <2>2. pc[p] = "check" /\ UNCHANGED diskVars
    BY DEF CheckEntry
  <2>3. CASE HandOut(p)
    BY <2>2, <2>3, LeaveSearch DEF HandOut
  <2>4. CASE UNCHANGED <<pc, lock, callVars, memoryVars>>
    <3>1. Fading(p)
      BY <2>2, CallFades
    <3>q. QED  BY <2>2, <2>4, <3>1
               DEF Search, Searched, Fading, LookLabels, LockLabels, callVars, memoryVars
  <2>5. CASE Miss(p) /\ (~Present(exam[p], e) \/ Damaged(exam[p], e))
    <3>1. e \in Entries
      BY DEF NextEntries, Entries, TypeInv, CallTyped
    <3>2. exam[p] \notin MarkedWhole
      BY <2>5, <3>1 DEF MarkedWhole, Whole, Present, Damaged
    <3>q. QED  BY <2>2, <2>5, <3>2, MissSearch DEF LookLabels
  <2>q. QED  BY <2>1, <2>3, <2>4, <2>5
<1>q. QED  BY <1>1, <1>2

LEMMA WalkFailsSearch ==
  ASSUME TypeInv, \A q \in Procs : Search(q), NEW p \in Procs, WalkFails(p), Remember
  PROVE  \A q \in Procs : Search(q)'
<1>1. ASSUME NEW q \in Procs \ {p}
      PROVE  Search(q)'
  <2>1. /\ Stays(q) /\ op'[q] = op[q] /\ rest'[q] = rest[q]
        /\ current'[q] = current[q] /\ (lock' = q => lock = q)
    BY CacheAssumption DEF Stays, TypeInv, PcTyped, CallTyped, LockTyped,
         WalkFails, Miss, AfterMiss, Goto, diskVars, callVars, memoryVars,
         worldVars
  <2>q. QED  BY <2>1, OtherSearch
<1>2. Search(p)'
  <2>1. exam[p] \notin MarkedWhole
    BY DEF WalkFails, MarkedWhole, Whole, Present, Entries
  <2>q. QED  BY <2>1, MissSearch DEF WalkFails, LookLabels
<1>q. QED  BY <1>1, <1>2

LEMMA ListMarkersSearch ==
  ASSUME TypeInv, \A q \in Procs : Search(q), NEW p \in Procs, ListMarkers(p), Remember
  PROVE  \A q \in Procs : Search(q)'
<1>1. ASSUME NEW q \in Procs \ {p}
      PROVE  Search(q)'
  <2>1. /\ Stays(q) /\ op'[q] = op[q] /\ rest'[q] = rest[q]
        /\ current'[q] = current[q] /\ (lock' = q => lock = q)
    BY CacheAssumption DEF Stays, TypeInv, PcTyped, CallTyped, LockTyped,
         ListMarkers, NothingCached, Leave, FreedLock, Goto, diskVars,
         callVars, memoryVars, worldVars
  <2>q. QED  BY <2>1, OtherSearch
<1>2. Search(p)'
  <2>1. /\ pc[p] = "fallback" /\ exam[p] = current[p] /\ op' = op
        /\ current' = current
    BY DEF ListMarkers, NothingCached, memoryVars
  <2>2. exam[p] \notin steady[p] /\ steady[p] \subseteq MarkedWhole
    BY <2>1 DEF Search, Searched
  <2>3. steady[p] \subseteq {v \in Versions : marker[v]} \ {current[p]}
    BY <2>1, <2>2 DEF MarkedWhole
  <2>4. Fading(p)
    BY <2>1, CallFades
  <2>5. CASE {v \in Versions : marker[v]} \ {current[p]} = {}
    <3>1. NothingCached(p)
      BY <2>5 DEF ListMarkers
    <3>q. QED  BY <2>1, <2>3, <2>5, <3>1, UnservedSearch
  <2>6. CASE {v \in Versions : marker[v]} \ {current[p]} # {}
    <3>1. /\ pc'[p] = "look" /\ lock' = lock
          /\ rest'[p] \cup {exam'[p]} = {v \in Versions : marker[v]} \ {current[p]}
      BY <2>6 DEF TypeInv, PcTyped, CallTyped, ListMarkers, Goto
    <3>q. QED  BY <2>1, <2>3, <2>4, <3>1
               DEF Search, Searched, Fading, LookLabels, LockLabels
  <2>q. QED  BY <2>5, <2>6
<1>q. QED  BY <1>1, <1>2

LEMMA NextCandidateSearch ==
  ASSUME TypeInv, \A q \in Procs : Search(q), NEW p \in Procs, NextCandidate(p), Remember
  PROVE  \A q \in Procs : Search(q)'
<1>1. ASSUME NEW q \in Procs \ {p}
      PROVE  Search(q)'
  <2>1. /\ Stays(q) /\ op'[q] = op[q] /\ rest'[q] = rest[q]
        /\ current'[q] = current[q] /\ (lock' = q => lock = q)
    BY CacheAssumption DEF Stays, TypeInv, PcTyped, CallTyped, LockTyped,
         NextCandidate, NothingCached, Leave, FreedLock, Goto, diskVars,
         callVars, memoryVars, worldVars
  <2>q. QED  BY <2>1, OtherSearch
<1>2. Search(p)'
  <2>1. /\ pc[p] = "fallback" /\ exam[p] # current[p] /\ op' = op
        /\ current' = current
    BY DEF NextCandidate, NothingCached, memoryVars
  <2>2. steady[p] \subseteq rest[p]
    BY <2>1 DEF Search, Searched
  <2>3. Fading(p)
    BY <2>1, CallFades
  <2>4. CASE rest[p] = {}
    <3>1. NothingCached(p)
      BY <2>4 DEF NextCandidate
    <3>q. QED  BY <2>1, <2>2, <2>4, <3>1, UnservedSearch
  <2>5. CASE rest[p] # {}
    <3>1. /\ pc'[p] = "look" /\ lock' = lock
          /\ rest'[p] \cup {exam'[p]} = rest[p]
      BY <2>5 DEF TypeInv, PcTyped, CallTyped, NextCandidate, Goto
    <3>q. QED  BY <2>1, <2>2, <2>3, <3>1
               DEF Search, Searched, Fading, LookLabels, LockLabels
  <2>q. QED  BY <2>4, <2>5
<1>q. QED  BY <1>1, <1>2

LEMMA ReturnSearch ==
  ASSUME TypeInv, \A q \in Procs : Search(q), NEW p \in Procs, Return(p), Remember
  PROVE  \A q \in Procs : Search(q)'
<1>1. ASSUME NEW q \in Procs \ {p}
      PROVE  Search(q)'
  <2>1. /\ Stays(q) /\ op'[q] = op[q] /\ rest'[q] = rest[q]
        /\ current'[q] = current[q] /\ (lock' = q => lock = q)
    BY CacheAssumption DEF Stays, TypeInv, PcTyped, CallTyped, LockTyped,
         Return, Fail, Leave, FreedLock, Goto, diskVars, callVars, memoryVars,
         worldVars
  <2>q. QED  BY <2>1, OtherSearch
<1>2. Search(p)'
  BY LeaveSearch DEF Return, Fail, HandOut
<1>q. QED  BY <1>1, <1>2

LEMMA TakeLockSearch ==
  ASSUME TypeInv, \A q \in Procs : Search(q), NEW p \in Procs, TakeLock(p), Remember
  PROVE  \A q \in Procs : Search(q)'
<1>1. ASSUME NEW q \in Procs \ {p}
      PROVE  Search(q)'
  <2>1. /\ Stays(q) /\ op'[q] = op[q] /\ rest'[q] = rest[q]
        /\ current'[q] = current[q] /\ (lock' = q => lock = q)
    BY CacheAssumption DEF Stays, TypeInv, PcTyped, CallTyped, LockTyped,
         TakeLock, Goto, MaterializeFrame, diskVars, callVars, memoryVars,
         worldVars
  <2>q. QED  BY <2>1, OtherSearch
<1>2. Search(p)'
  <2>1. /\ op[p] # "path" /\ op' = op /\ lock' = p
        /\ pc'[p] \in LockLabels \cup LookLabels
    BY DEF Search, TypeInv, PcTyped, LockTyped, LockLabels, LookLabels,
         TakeLock, Goto, MaterializeFrame, diskVars, callVars, memoryVars,
         worldVars
  <2>2. Fading(p)
    BY CallFades DEF TakeLock
  <2>q. QED  BY <2>1, <2>2 DEF Search, Fading
<1>q. QED  BY <1>1, <1>2

LEMMA SweepSearch ==
  ASSUME TypeInv, \A q \in Procs : Search(q), NEW p \in Procs, Sweep(p), Remember
  PROVE  \A q \in Procs : Search(q)'
<1>1. ASSUME NEW q \in Procs \ {p}
      PROVE  Search(q)'
  <2>1. /\ Stays(q) /\ op'[q] = op[q] /\ rest'[q] = rest[q]
        /\ current'[q] = current[q] /\ (lock' = q => lock = q)
    BY CacheAssumption DEF Stays, TypeInv, PcTyped, CallTyped, LockTyped,
         Sweep, Goto, MaterializeFrame, SyncVersionsDir, MarkersWithCopies,
         Exists, diskVars, callVars, memoryVars, worldVars
  <2>q. QED  BY <2>1, OtherSearch
<1>2. Search(p)'
  <2>1. /\ op[p] # "path" /\ op' = op /\ lock' = p
        /\ pc'[p] \in LockLabels \cup LookLabels
    BY DEF Search, TypeInv, PcTyped, LockTyped, LockLabels, LookLabels, Sweep,
         Goto, MaterializeFrame, SyncVersionsDir, MarkersWithCopies, Exists,
         diskVars, callVars, memoryVars, worldVars
  <2>2. Fading(p)
    BY CallFades DEF Sweep
  <2>q. QED  BY <2>1, <2>2 DEF Search, Fading
<1>q. QED  BY <1>1, <1>2

LEMMA CheckExistsSearch ==
  ASSUME TypeInv, \A q \in Procs : Search(q), NEW p \in Procs, CheckExists(p), Remember
  PROVE  \A q \in Procs : Search(q)'
<1>1. ASSUME NEW q \in Procs \ {p}
      PROVE  Search(q)'
  <2>1. /\ Stays(q) /\ op'[q] = op[q] /\ rest'[q] = rest[q]
        /\ current'[q] = current[q] /\ (lock' = q => lock = q)
    BY CacheAssumption DEF Stays, TypeInv, PcTyped, CallTyped, LockTyped,
         CheckExists, Goto, MaterializeFrame, diskVars, callVars, memoryVars,
         worldVars
  <2>q. QED  BY <2>1, OtherSearch
<1>2. Search(p)'
  <2>1. /\ op[p] # "path" /\ op' = op /\ lock' = p
        /\ pc'[p] \in LockLabels \cup LookLabels
    BY DEF Search, TypeInv, PcTyped, LockTyped, LockLabels, LookLabels,
         CheckExists, Goto, MaterializeFrame, diskVars, callVars, memoryVars,
         worldVars
  <2>2. Fading(p)
    BY CallFades DEF CheckExists
  <2>q. QED  BY <2>1, <2>2 DEF Search, Fading
<1>q. QED  BY <1>1, <1>2

LEMMA ValidateEntrySearch ==
  ASSUME TypeInv, \A q \in Procs : Search(q), NEW p \in Procs, ValidateEntry(p), Remember
  PROVE  \A q \in Procs : Search(q)'
<1>1. ASSUME NEW q \in Procs \ {p}
      PROVE  Search(q)'
  <2>1. /\ Stays(q) /\ op'[q] = op[q] /\ rest'[q] = rest[q]
        /\ current'[q] = current[q] /\ (lock' = q => lock = q)
    BY CacheAssumption DEF Stays, TypeInv, PcTyped, CallTyped, LockTyped,
         ValidateEntry, Goto, NextEntries, diskVars, callVars, memoryVars,
         worldVars
  <2>q. QED  BY <2>1, OtherSearch
<1>2. Search(p)'
  <2>1. /\ op[p] # "path" /\ op' = op /\ lock' = p
        /\ pc'[p] \in LockLabels \cup LookLabels
    BY DEF Search, TypeInv, PcTyped, LockTyped, LockLabels, LookLabels,
         ValidateEntry, Goto, NextEntries, diskVars, callVars, memoryVars,
         worldVars
  <2>2. Fading(p)
    BY CallFades DEF ValidateEntry
  <2>q. QED  BY <2>1, <2>2 DEF Search, Fading
<1>q. QED  BY <1>1, <1>2

LEMMA SyncTreeSearch ==
  ASSUME TypeInv, \A q \in Procs : Search(q), NEW p \in Procs, SyncTree(p), Remember
  PROVE  \A q \in Procs : Search(q)'
<1>1. ASSUME NEW q \in Procs \ {p}
      PROVE  Search(q)'
  <2>1. /\ Stays(q) /\ op'[q] = op[q] /\ rest'[q] = rest[q]
        /\ current'[q] = current[q] /\ (lock' = q => lock = q)
    BY CacheAssumption DEF Stays, TypeInv, PcTyped, CallTyped, LockTyped,
         SyncTree, Goto, MaterializeFrame, Exists, diskVars, callVars,
         memoryVars, worldVars
  <2>q. QED  BY <2>1, OtherSearch
<1>2. Search(p)'
  <2>1. /\ op[p] # "path" /\ op' = op /\ lock' = p
        /\ pc'[p] \in LockLabels \cup LookLabels
    BY DEF Search, TypeInv, PcTyped, LockTyped, LockLabels, LookLabels,
         SyncTree, Goto, MaterializeFrame, Exists, diskVars, callVars,
         memoryVars, worldVars
  <2>2. Fading(p)
    BY CallFades DEF SyncTree
  <2>q. QED  BY <2>1, <2>2 DEF Search, Fading
<1>q. QED  BY <1>1, <1>2

LEMMA SyncTreeFailsSearch ==
  ASSUME TypeInv, \A q \in Procs : Search(q), NEW p \in Procs, SyncTreeFails(p), Remember
  PROVE  \A q \in Procs : Search(q)'
<1>1. ASSUME NEW q \in Procs \ {p}
      PROVE  Search(q)'
  <2>1. /\ Stays(q) /\ op'[q] = op[q] /\ rest'[q] = rest[q]
        /\ current'[q] = current[q] /\ (lock' = q => lock = q)
    BY CacheAssumption DEF Stays, TypeInv, PcTyped, CallTyped, LockTyped,
         SyncTreeFails, Fail, Leave, FreedLock, Goto, diskVars, callVars,
         memoryVars, worldVars
  <2>q. QED  BY <2>1, OtherSearch
<1>2. Search(p)'
  BY LeaveSearch DEF SyncTreeFails, Fail, HandOut
<1>q. QED  BY <1>1, <1>2

LEMMA SyncNameSearch ==
  ASSUME TypeInv, \A q \in Procs : Search(q), NEW p \in Procs, SyncName(p), Remember
  PROVE  \A q \in Procs : Search(q)'
<1>1. ASSUME NEW q \in Procs \ {p}
      PROVE  Search(q)'
  <2>1. /\ Stays(q) /\ op'[q] = op[q] /\ rest'[q] = rest[q]
        /\ current'[q] = current[q] /\ (lock' = q => lock = q)
    BY CacheAssumption DEF Stays, TypeInv, PcTyped, CallTyped, LockTyped,
         SyncName, Goto, MaterializeFrame, SyncVersionsDir, diskVars,
         callVars, memoryVars, worldVars
  <2>q. QED  BY <2>1, OtherSearch
<1>2. Search(p)'
  <2>1. /\ op[p] # "path" /\ op' = op /\ lock' = p
        /\ pc'[p] \in LockLabels \cup LookLabels
    BY DEF Search, TypeInv, PcTyped, LockTyped, LockLabels, LookLabels,
         SyncName, Goto, MaterializeFrame, SyncVersionsDir, diskVars,
         callVars, memoryVars, worldVars
  <2>2. Fading(p)
    BY CallFades DEF SyncName
  <2>q. QED  BY <2>1, <2>2 DEF Search, Fading
<1>q. QED  BY <1>1, <1>2

LEMMA UnmarkSearch ==
  ASSUME TypeInv, \A q \in Procs : Search(q), NEW p \in Procs, Unmark(p), Remember
  PROVE  \A q \in Procs : Search(q)'
<1>1. ASSUME NEW q \in Procs \ {p}
      PROVE  Search(q)'
  <2>1. /\ Stays(q) /\ op'[q] = op[q] /\ rest'[q] = rest[q]
        /\ current'[q] = current[q] /\ (lock' = q => lock = q)
    BY CacheAssumption DEF Stays, TypeInv, PcTyped, CallTyped, LockTyped,
         Unmark, Goto, MaterializeFrame, diskVars, callVars, memoryVars,
         worldVars
  <2>q. QED  BY <2>1, OtherSearch
<1>2. Search(p)'
  <2>1. /\ op[p] # "path" /\ op' = op /\ lock' = p
        /\ pc'[p] \in LockLabels \cup LookLabels
    BY DEF Search, TypeInv, PcTyped, LockTyped, LockLabels, LookLabels,
         Unmark, Goto, MaterializeFrame, diskVars, callVars, memoryVars,
         worldVars
  <2>2. Fading(p)
    BY CallFades DEF Unmark
  <2>q. QED  BY <2>1, <2>2 DEF Search, Fading
<1>q. QED  BY <1>1, <1>2

LEMMA MoveAsideSearch ==
  ASSUME TypeInv, \A q \in Procs : Search(q), NEW p \in Procs, MoveAside(p), Remember
  PROVE  \A q \in Procs : Search(q)'
<1>1. ASSUME NEW q \in Procs \ {p}
      PROVE  Search(q)'
  <2>1. /\ Stays(q) /\ op'[q] = op[q] /\ rest'[q] = rest[q]
        /\ current'[q] = current[q] /\ (lock' = q => lock = q)
    BY CacheAssumption DEF Stays, TypeInv, PcTyped, CallTyped, LockTyped,
         MoveAside, Goto, diskVars, callVars, memoryVars, worldVars
  <2>q. QED  BY <2>1, OtherSearch
<1>2. Search(p)'
  <2>1. /\ op[p] # "path" /\ op' = op /\ lock' = p
        /\ pc'[p] \in LockLabels \cup LookLabels
    BY DEF Search, TypeInv, PcTyped, LockTyped, LockLabels, LookLabels,
         MoveAside, Goto, diskVars, callVars, memoryVars, worldVars
  <2>2. Fading(p)
    BY CallFades DEF MoveAside
  <2>q. QED  BY <2>1, <2>2 DEF Search, Fading
<1>q. QED  BY <1>1, <1>2

LEMMA StageSearch ==
  ASSUME TypeInv, \A q \in Procs : Search(q), NEW p \in Procs, Stage(p), Remember
  PROVE  \A q \in Procs : Search(q)'
<1>1. ASSUME NEW q \in Procs \ {p}
      PROVE  Search(q)'
  <2>1. /\ Stays(q) /\ op'[q] = op[q] /\ rest'[q] = rest[q]
        /\ current'[q] = current[q] /\ (lock' = q => lock = q)
    BY CacheAssumption DEF Stays, TypeInv, PcTyped, CallTyped, LockTyped,
         Stage, Goto, MaterializeFrame, diskVars, callVars, memoryVars,
         worldVars
  <2>q. QED  BY <2>1, OtherSearch
<1>2. Search(p)'
  <2>1. /\ op[p] # "path" /\ op' = op /\ lock' = p
        /\ pc'[p] \in LockLabels \cup LookLabels
    BY DEF Search, TypeInv, PcTyped, LockTyped, LockLabels, LookLabels, Stage,
         Goto, MaterializeFrame, diskVars, callVars, memoryVars, worldVars
  <2>2. Fading(p)
    BY CallFades DEF Stage
  <2>q. QED  BY <2>1, <2>2 DEF Search, Fading
<1>q. QED  BY <1>1, <1>2

LEMMA FetchFailsSearch ==
  ASSUME TypeInv, \A q \in Procs : Search(q), NEW p \in Procs, FetchFails(p), Remember
  PROVE  \A q \in Procs : Search(q)'
<1>1. ASSUME NEW q \in Procs \ {p}
      PROVE  Search(q)'
  <2>1. /\ Stays(q) /\ op'[q] = op[q] /\ rest'[q] = rest[q]
        /\ current'[q] = current[q] /\ (lock' = q => lock = q)
    BY CacheAssumption DEF Stays, TypeInv, PcTyped, CallTyped, LockTyped,
         FetchFails, Fail, Leave, FreedLock, Goto, RemoveTemp, diskVars,
         callVars, memoryVars, worldVars
  <2>q. QED  BY <2>1, OtherSearch
<1>2. Search(p)'
  BY LeaveSearch DEF FetchFails, Fail, HandOut
<1>q. QED  BY <1>1, <1>2

LEMMA FetchSearch ==
  ASSUME TypeInv, \A q \in Procs : Search(q), NEW p \in Procs, Fetch(p), Remember
  PROVE  \A q \in Procs : Search(q)'
<1>1. ASSUME NEW q \in Procs \ {p}
      PROVE  Search(q)'
  <2>1. /\ Stays(q) /\ op'[q] = op[q] /\ rest'[q] = rest[q]
        /\ current'[q] = current[q] /\ (lock' = q => lock = q)
    BY CacheAssumption DEF Stays, TypeInv, PcTyped, CallTyped, LockTyped,
         Fetch, Goto, MaterializeFrame, diskVars, callVars, memoryVars,
         worldVars
  <2>q. QED  BY <2>1, OtherSearch
<1>2. Search(p)'
  <2>1. /\ op[p] # "path" /\ op' = op /\ lock' = p
        /\ pc'[p] \in LockLabels \cup LookLabels
    BY DEF Search, TypeInv, PcTyped, LockTyped, LockLabels, LookLabels, Fetch,
         Goto, MaterializeFrame, diskVars, callVars, memoryVars, worldVars
  <2>2. Fading(p)
    BY CallFades DEF Fetch
  <2>q. QED  BY <2>1, <2>2 DEF Search, Fading
<1>q. QED  BY <1>1, <1>2

LEMMA RenameSearch ==
  ASSUME TypeInv, \A q \in Procs : Search(q), NEW p \in Procs, Rename(p), Remember
  PROVE  \A q \in Procs : Search(q)'
<1>1. ASSUME NEW q \in Procs \ {p}
      PROVE  Search(q)'
  <2>1. /\ Stays(q) /\ op'[q] = op[q] /\ rest'[q] = rest[q]
        /\ current'[q] = current[q] /\ (lock' = q => lock = q)
    BY CacheAssumption DEF Stays, TypeInv, PcTyped, CallTyped, LockTyped,
         Rename, Fail, Leave, FreedLock, Goto, Exists, diskVars, callVars,
         memoryVars, worldVars
  <2>q. QED  BY <2>1, OtherSearch
<1>2. Search(p)'
  <2>1. CASE Fail(p)
    BY <2>1, LeaveSearch DEF Rename, Fail
  <2>2. CASE Goto(p, "syncRename") /\ UNCHANGED <<lock, todo, callVars>>
    <3>1. /\ op[p] # "path" /\ op' = op /\ lock' = p /\ pc'[p] = "syncRename"
      BY <2>2 DEF Search, TypeInv, PcTyped, LockTyped, LockLabels, Rename,
           Goto, callVars
    <3>2. Fading(p)
      BY CallFades DEF Rename
    <3>q. QED  BY <3>1, <3>2 DEF Search, Fading, LockLabels
  <2>q. QED  BY <2>1, <2>2 DEF Rename
<1>q. QED  BY <1>1, <1>2

LEMMA SyncRenameSearch ==
  ASSUME TypeInv, \A q \in Procs : Search(q), NEW p \in Procs, SyncRename(p), Remember
  PROVE  \A q \in Procs : Search(q)'
<1>1. ASSUME NEW q \in Procs \ {p}
      PROVE  Search(q)'
  <2>1. /\ Stays(q) /\ op'[q] = op[q] /\ rest'[q] = rest[q]
        /\ current'[q] = current[q] /\ (lock' = q => lock = q)
    BY CacheAssumption DEF Stays, TypeInv, PcTyped, CallTyped, LockTyped,
         SyncRename, Goto, MaterializeFrame, SyncVersionsDir, diskVars,
         callVars, memoryVars, worldVars
  <2>q. QED  BY <2>1, OtherSearch
<1>2. Search(p)'
  <2>1. /\ op[p] # "path" /\ op' = op /\ lock' = p
        /\ pc'[p] \in LockLabels \cup LookLabels
    BY DEF Search, TypeInv, PcTyped, LockTyped, LockLabels, LookLabels,
         SyncRename, Goto, MaterializeFrame, SyncVersionsDir, diskVars,
         callVars, memoryVars, worldVars
  <2>2. Fading(p)
    BY CallFades DEF SyncRename
  <2>q. QED  BY <2>1, <2>2 DEF Search, Fading
<1>q. QED  BY <1>1, <1>2

LEMMA MarkSearch ==
  ASSUME TypeInv, \A q \in Procs : Search(q), NEW p \in Procs, Mark(p), Remember
  PROVE  \A q \in Procs : Search(q)'
<1>1. ASSUME NEW q \in Procs \ {p}
      PROVE  Search(q)'
  <2>1. /\ Stays(q) /\ op'[q] = op[q] /\ rest'[q] = rest[q]
        /\ current'[q] = current[q] /\ (lock' = q => lock = q)
    BY CacheAssumption DEF Stays, TypeInv, PcTyped, CallTyped, LockTyped,
         Mark, Goto, MaterializeFrame, diskVars, callVars, memoryVars,
         worldVars
  <2>q. QED  BY <2>1, OtherSearch
<1>2. Search(p)'
  <2>1. /\ op[p] # "path" /\ op' = op /\ lock' = p
        /\ pc'[p] \in LockLabels \cup LookLabels
    BY DEF Search, TypeInv, PcTyped, LockTyped, LockLabels, LookLabels, Mark,
         Goto, MaterializeFrame, diskVars, callVars, memoryVars, worldVars
  <2>2. Fading(p)
    BY CallFades DEF Mark
  <2>q. QED  BY <2>1, <2>2 DEF Search, Fading
<1>q. QED  BY <1>1, <1>2

LEMMA SyncMarkSearch ==
  ASSUME TypeInv, \A q \in Procs : Search(q), NEW p \in Procs, SyncMark(p), Remember
  PROVE  \A q \in Procs : Search(q)'
<1>1. ASSUME NEW q \in Procs \ {p}
      PROVE  Search(q)'
  <2>1. /\ Stays(q) /\ op'[q] = op[q] /\ rest'[q] = rest[q]
        /\ current'[q] = current[q] /\ (lock' = q => lock = q)
    BY CacheAssumption DEF Stays, TypeInv, PcTyped, CallTyped, LockTyped,
         SyncMark, HandOut, Leave, FreedLock, Goto, SyncVersionsDir, diskVars,
         callVars, memoryVars, worldVars
  <2>q. QED  BY <2>1, OtherSearch
<1>2. Search(p)'
  BY LeaveSearch DEF SyncMark, Fail, HandOut
<1>q. QED  BY <1>1, <1>2

LEMMA CrashSearch ==
  ASSUME TypeInv, \A q \in Procs : Search(q), NEW p \in Procs, Crash(p), Remember
  PROVE  \A q \in Procs : Search(q)'
<1>1. ASSUME NEW q \in Procs \ {p}
      PROVE  Search(q)'
  <2>1. /\ Stays(q) /\ op'[q] = op[q] /\ rest'[q] = rest[q]
        /\ current'[q] = current[q] /\ (lock' = q => lock = q)
    BY CacheAssumption DEF Stays, TypeInv, PcTyped, CallTyped, LockTyped,
         Crash, Fail, Leave, FreedLock, Goto, diskVars, callVars, memoryVars,
         worldVars
  <2>q. QED  BY <2>1, OtherSearch
<1>2. Search(p)'
  <2>1. /\ pc'[p] = "idle" /\ lock' # p /\ op' = op
    BY CacheAssumption DEF TypeInv, PcTyped, LockTyped, Crash, Fail, Leave,
         Goto, FreedLock
  <2>2. Fading(p)
    BY <2>1, CallFades
  <2>q. QED  BY <2>1, <2>2 DEF Search, Searched, Fading, LookLabels, LockLabels
<1>q. QED  BY <1>1, <1>2

LEMMA StartReapingSearch ==
  ASSUME TypeInv, \A q \in Procs : Search(q), NEW v \in Versions, StartReaping(v), Remember
  PROVE  \A q \in Procs : Search(q)'
<1>1. ASSUME NEW q \in Procs
      PROVE  /\ Stays(q) /\ op'[q] = op[q] /\ rest'[q] = rest[q]
             /\ current'[q] = current[q] /\ (lock' = q => lock = q)
  BY DEF Stays, StartReaping, WorldFrame, Exists, diskVars, callVars,
       memoryVars, worldVars
<1>q. QED  BY <1>1, OtherSearch

LEMMA ReapEntrySearch ==
  ASSUME TypeInv, \A q \in Procs : Search(q), NEW v \in Versions, ReapEntry(v), Remember
  PROVE  \A q \in Procs : Search(q)'
<1>1. ASSUME NEW q \in Procs
      PROVE  /\ Stays(q) /\ op'[q] = op[q] /\ rest'[q] = rest[q]
             /\ current'[q] = current[q] /\ (lock' = q => lock = q)
  BY DEF Stays, ReapEntry, WorldFrame, diskVars, callVars, memoryVars,
       worldVars
<1>q. QED  BY <1>1, OtherSearch

LEMMA StopReapingSearch ==
  ASSUME TypeInv, \A q \in Procs : Search(q), NEW v \in Versions, StopReaping(v), Remember
  PROVE  \A q \in Procs : Search(q)'
<1>1. ASSUME NEW q \in Procs
      PROVE  /\ Stays(q) /\ op'[q] = op[q] /\ rest'[q] = rest[q]
             /\ current'[q] = current[q] /\ (lock' = q => lock = q)
  BY DEF Stays, StopReaping, WorldFrame, diskVars, callVars, memoryVars,
       worldVars
<1>q. QED  BY <1>1, OtherSearch

LEMMA MoveReleaseSearch ==
  ASSUME TypeInv, \A q \in Procs : Search(q), MoveRelease, Remember
  PROVE  \A q \in Procs : Search(q)'
<1>1. ASSUME NEW q \in Procs
      PROVE  /\ Stays(q) /\ op'[q] = op[q] /\ rest'[q] = rest[q]
             /\ current'[q] = current[q] /\ (lock' = q => lock = q)
  BY DEF Stays, MoveRelease, WorldFrame, diskVars, callVars, memoryVars,
       worldVars
<1>q. QED  BY <1>1, OtherSearch

LEMMA PowerFailureSearch ==
  ASSUME TypeInv, \A q \in Procs : Search(q), PowerFailure, Remember
  PROVE  \A q \in Procs : Search(q)'
<1>1. /\ pc' = [p \in Procs |-> "idle"] /\ op' = [p \in Procs |-> "refresh"]
      /\ lock' = Nobody
  BY DEF PowerFailure
<1>2. ASSUME NEW q \in Procs
      PROVE  Fading(q)
  BY <1>1, CallFades
<1>q. QED  BY <1>1, <1>2, CacheAssumption DEF Search, Fading, LookLabels, LockLabels

LEMMA InitSearch ==
  ASSUME Init
  PROVE  \A q \in Procs : Search(q)
BY CacheAssumption DEF Init, Search, Searched

LEMMA StepSearch ==
  ASSUME TypeInv, \A q \in Procs : Search(q), Step, Remember
  PROVE  \A q \in Procs : Search(q)'
<1>1. CASE \E p \in Procs : BeginRefresh(p) \/ BeginPath(p) \/ TakeLock(p) \/ Crash(p)
  BY <1>1, BeginRefreshSearch, BeginPathSearch, TakeLockSearch, CrashSearch
<1>2. CASE \E p \in Procs : Examine(p)
  BY <1>2, LookSearch, CheckMarkerSearch, CheckEntrySearch, WalkFailsSearch,
       ListMarkersSearch, NextCandidateSearch, ReturnSearch DEF Examine
<1>3. CASE \E p \in Procs : Materialize(p)
  BY <1>3, SweepSearch, CheckExistsSearch, ValidateEntrySearch,
       SyncTreeSearch, SyncTreeFailsSearch, SyncNameSearch, UnmarkSearch,
       MoveAsideSearch, StageSearch, FetchSearch, FetchFailsSearch,
       RenameSearch, SyncRenameSearch, MarkSearch, SyncMarkSearch DEF
       Materialize
<1>4. CASE \E v \in Versions : StartReaping(v) \/ ReapEntry(v) \/ StopReaping(v)
  BY <1>4, StartReapingSearch, ReapEntrySearch, StopReapingSearch
<1>5. CASE MoveRelease \/ PowerFailure
  BY <1>5, MoveReleaseSearch, PowerFailureSearch
<1>q. QED  BY <1>1, <1>2, <1>3, <1>4, <1>5 DEF Step

LEMMA StutterSearch ==
  ASSUME \A q \in Procs : Search(q), UNCHANGED vars
  PROVE  \A q \in Procs : Search(q)'
<1>1. MarkedWhole' = MarkedWhole
  BY DEF MarkedWhole, Whole, Exists, vars, diskVars
<1>q. QED  BY <1>1 DEF Search, Searched, vars, callVars, memoryVars, histVars

(* path finds a copy whenever there is one: no caller goes unserved while  *)
(* a version has a marked whole copy all through the call.                 *)
THEOREM CachePathFindsCopy == Spec => []PathFindsCopy
<1>1. Init => \A q \in Procs : Search(q)
  BY InitSearch
<1>2. TypeInv /\ (\A q \in Procs : Search(q)) /\ [Next]_vars
      => (\A q \in Procs : Search(q))'
  BY StepSearch, StutterSearch DEF Next
<1>3. (\A q \in Procs : Search(q)) => PathFindsCopy
  BY DEF Search, Searched, PathFindsCopy
<1>q. QED  BY <1>1, <1>2, <1>3, CacheTypesHold, PTL DEF Spec

=============================================================================
