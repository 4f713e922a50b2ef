----------------------------- MODULE CacheTypes -----------------------------
(***************************************************************************)
(* Type correctness of CacheCopies, for every value of its constants.      *)
(***************************************************************************)
EXTENDS CacheCopies, TLAPS

(* TypeOK in parts, each with what the types alone do not carry through a  *)
(* step: a call examines some version, a version that is being removed has *)
(* a folder, and the steps of _materialize_cached_version hold the lock.   *)

DiskTyped ==
  /\ tree \in [Versions -> Slots]
  /\ marker \in [Versions -> BOOLEAN]
  /\ saved \in [tree : [Versions -> Slots], marker : [Versions -> BOOLEAN]]
  /\ temp \in [Procs -> Slots]

ReapTyped ==
  /\ reaping \in SUBSET Versions
  /\ \A v \in reaping : tree[v] # NoTree

WorldTyped ==
  /\ release \in Versions
  /\ budget \in Budgets

CallTyped ==
  /\ op \in [Procs -> {"refresh", "path"}]
  /\ exam \in [Procs -> Versions \cup {NoVersion}]
  /\ rest \in [Procs -> SUBSET Versions]
  /\ todo \in [Procs -> SUBSET Entries]
  /\ mem \in [Procs -> SUBSET Versions]
  /\ current \in [Procs -> Versions \cup {NoVersion}]

PcTyped ==
  /\ pc \in [Procs -> Labels]
  /\ \A p \in Procs : pc[p] # "idle" => exam[p] \in Versions

LockTyped ==
  /\ lock \in Procs \cup {Nobody}
  /\ \A p \in Procs : pc[p] \in LockLabels => lock = p

HistTyped ==
  /\ seen \in [Procs -> BOOLEAN]
  /\ steady \in [Procs -> SUBSET Versions]

(* A builder fills a folder of its own, and renames it when it is finished. *)
BuiltTyped ==
  \A p \in Procs :
    /\ pc[p] = "fetch" => temp[p] = NewFolder
    /\ pc[p] = "rename" => temp[p] = FinishedCopy

TypeInv == /\ DiskTyped /\ ReapTyped /\ WorldTyped
           /\ CallTyped /\ PcTyped /\ LockTyped /\ BuiltTyped

(* A folder is a record, and its parts stay in their sets.                 *)
LEMMA FolderFacts ==
  /\ FinishedCopy \in Folders /\ NewFolder \in Folders
  /\ NoTree \in Slots /\ Folders \subseteq Slots /\ FinishedCopy # NoTree
  /\ NewFolder # NoTree
<1>1. FinishedCopy \in Folders /\ NewFolder \in Folders
  BY DEF Folders, FinishedCopy, NewFolder
<1>q. QED  BY <1>1, FolderAssumption DEF Slots

LEMMA SyncedFolder ==
  ASSUME NEW t \in Folders
  PROVE  [t EXCEPT !.safe = TRUE] \in Folders
BY DEF Folders

LEMMA ReapedFolder ==
  ASSUME NEW t \in Folders, NEW e
  PROVE  [t EXCEPT !.has = @ \ {e}, !.bad = @ \ {e}] \in Folders
BY DEF Folders

LEMMA LostBytes ==
  ASSUME NEW t \in Slots, NEW u \in Remains(t)
  PROVE  u \in Slots
<1>1. CASE t = NoTree \/ t.safe
  BY <1>1 DEF Remains
<1>2. CASE ~(t = NoTree \/ t.safe)
  <2>1. t \in Folders
    BY <1>2 DEF Slots
  <2>2. PICK lost \in SUBSET t.has : u = [t EXCEPT !.bad = lost, !.safe = TRUE]
    BY <1>2 DEF Remains
  <2>3. lost \in SUBSET Entries
    BY <2>1 DEF Folders
  <2>4. u \in Folders
    BY <2>1, <2>2, <2>3 DEF Folders
  <2>q. QED  BY <2>4 DEF Slots
<1>q. QED  BY <1>1, <1>2

(* versions_dir becomes durable as it is.                                  *)
LEMMA SyncTyped ==
  ASSUME DiskTyped, SyncVersionsDir
  PROVE  saved' \in [tree : [Versions -> Slots], marker : [Versions -> BOOLEAN]]
BY DEF DiskTyped, SyncVersionsDir

-----------------------------------------------------------------------------
(* Every action preserves TypeInv, part by part.                           *)

LEMMA BeginRefreshTyped ==
  ASSUME TypeInv, NEW p \in Procs, BeginRefresh(p)
  PROVE  TypeInv'
<1>1. DiskTyped'
  BY DEF TypeInv, DiskTyped, BeginRefresh, Goto, diskVars, callVars,
       memoryVars, worldVars
<1>2. ReapTyped'
  BY DEF TypeInv, ReapTyped, BeginRefresh, Goto, diskVars, callVars,
       memoryVars, worldVars
<1>3. WorldTyped'
  BY DEF TypeInv, WorldTyped, BeginRefresh, Goto, diskVars, callVars,
       memoryVars, worldVars
<1>4. CallTyped'
  BY CacheAssumption DEF TypeInv, CallTyped, PcTyped, WorldTyped, LockTyped,
       BeginRefresh, Goto, diskVars, callVars, memoryVars, worldVars
<1>5. PcTyped'
  BY CacheAssumption DEF TypeInv, PcTyped, CallTyped, WorldTyped, LockTyped,
       Labels, LookLabels, LockLabels, BeginRefresh, Goto, diskVars, callVars,
       memoryVars, worldVars
<1>6. LockTyped'
  BY DEF TypeInv, LockTyped, LockLabels, BeginRefresh, Goto, diskVars,
       callVars, memoryVars, worldVars
<1>7. BuiltTyped'
  BY DEF TypeInv, BuiltTyped, DiskTyped, LockTyped, LockLabels, BeginRefresh,
       Goto, diskVars, callVars, memoryVars, worldVars
<1>q. QED  BY <1>1, <1>2, <1>3, <1>4, <1>5, <1>6, <1>7 DEF TypeInv

LEMMA BeginPathTyped ==
  ASSUME TypeInv, NEW p \in Procs, BeginPath(p)
  PROVE  TypeInv'
<1>1. DiskTyped'
  BY DEF TypeInv, DiskTyped, BeginPath, Goto, diskVars, callVars, memoryVars,
       worldVars
<1>2. ReapTyped'
  BY DEF TypeInv, ReapTyped, BeginPath, Goto, diskVars, callVars, memoryVars,
       worldVars
<1>3. WorldTyped'
  BY DEF TypeInv, WorldTyped, BeginPath, Goto, diskVars, callVars, memoryVars,
       worldVars
<1>4. CallTyped'
  BY CacheAssumption DEF TypeInv, CallTyped, PcTyped, WorldTyped, LockTyped,
       BeginPath, Goto, diskVars, callVars, memoryVars, worldVars
<1>5. PcTyped'
  BY CacheAssumption DEF TypeInv, PcTyped, CallTyped, WorldTyped, LockTyped,
       Labels, LookLabels, LockLabels, BeginPath, Goto, diskVars, callVars,
       memoryVars, worldVars
<1>6. LockTyped'
  BY DEF TypeInv, LockTyped, LockLabels, BeginPath, Goto, diskVars, callVars,
       memoryVars, worldVars
<1>7. BuiltTyped'
  BY DEF TypeInv, BuiltTyped, DiskTyped, LockTyped, LockLabels, BeginPath,
       Goto, diskVars, callVars, memoryVars, worldVars
<1>q. QED  BY <1>1, <1>2, <1>3, <1>4, <1>5, <1>6, <1>7 DEF TypeInv

LEMMA LookTyped ==
  ASSUME TypeInv, NEW p \in Procs, Look(p)
  PROVE  TypeInv'
<1>1. DiskTyped'
  BY DEF TypeInv, DiskTyped, Look, HandOut, Leave, FreedLock, Miss, AfterMiss,
       Goto, Exists, diskVars, callVars, memoryVars, worldVars
<1>2. ReapTyped'
  BY DEF TypeInv, ReapTyped, Look, HandOut, Leave, FreedLock, Miss, AfterMiss,
       Goto, Exists, diskVars, callVars, memoryVars, worldVars
<1>3. WorldTyped'
  BY DEF TypeInv, WorldTyped, Look, HandOut, Leave, FreedLock, Miss,
       AfterMiss, Goto, Exists, diskVars, callVars, memoryVars, worldVars
<1>4. CallTyped'
  BY DEF TypeInv, CallTyped, PcTyped, Look, HandOut, Leave, FreedLock, Miss,
       AfterMiss, Goto, Exists, diskVars, callVars, memoryVars, worldVars
<1>5. PcTyped'
  BY DEF TypeInv, PcTyped, CallTyped, Labels, LookLabels, LockLabels, Look,
       HandOut, Leave, FreedLock, Miss, AfterMiss, Goto, Exists, diskVars,
       callVars, memoryVars, worldVars
<1>6. LockTyped'
  BY CacheAssumption DEF TypeInv, LockTyped, CallTyped, PcTyped, Labels,
       LookLabels, LockLabels, Look, HandOut, Leave, FreedLock, Miss,
       AfterMiss, Goto, Exists, diskVars, callVars, memoryVars, worldVars
<1>7. BuiltTyped'
  BY CacheAssumption DEF TypeInv, BuiltTyped, DiskTyped, CallTyped, PcTyped,
       LockTyped, Labels, LookLabels, LockLabels, Look, HandOut, Leave,
       FreedLock, Miss, AfterMiss, Goto, Exists, diskVars, callVars,
       memoryVars, worldVars
<1>q. QED  BY <1>1, <1>2, <1>3, <1>4, <1>5, <1>6, <1>7 DEF TypeInv

LEMMA CheckMarkerTyped ==
  ASSUME TypeInv, NEW p \in Procs, CheckMarker(p)
  PROVE  TypeInv'
<1>1. DiskTyped'
  BY DEF TypeInv, DiskTyped, CheckMarker, HandOut, Leave, FreedLock, Miss,
       AfterMiss, Goto, diskVars, callVars, memoryVars, worldVars
<1>2. ReapTyped'
  BY DEF TypeInv, ReapTyped, CheckMarker, HandOut, Leave, FreedLock, Miss,
       AfterMiss, Goto, diskVars, callVars, memoryVars, worldVars
<1>3. WorldTyped'
  BY DEF TypeInv, WorldTyped, CheckMarker, HandOut, Leave, FreedLock, Miss,
       AfterMiss, Goto, diskVars, callVars, memoryVars, worldVars
<1>4. CallTyped'
  BY DEF TypeInv, CallTyped, PcTyped, CheckMarker, HandOut, Leave, FreedLock,
       Miss, AfterMiss, Goto, diskVars, callVars, memoryVars, worldVars
<1>5. PcTyped'
  BY DEF TypeInv, PcTyped, CallTyped, Labels, LookLabels, LockLabels,
       CheckMarker, HandOut, Leave, FreedLock, Miss, AfterMiss, Goto,
       diskVars, callVars, memoryVars, worldVars
<1>6. LockTyped'
  BY CacheAssumption DEF TypeInv, LockTyped, CallTyped, PcTyped, Labels,
       LookLabels, LockLabels, CheckMarker, HandOut, Leave, FreedLock, Miss,
       AfterMiss, Goto, diskVars, callVars, memoryVars, worldVars
<1>7. BuiltTyped'
  BY CacheAssumption DEF TypeInv, BuiltTyped, DiskTyped, CallTyped, PcTyped,
       LockTyped, Labels, LookLabels, LockLabels, CheckMarker, HandOut, Leave,
       FreedLock, Miss, AfterMiss, Goto, diskVars, callVars, memoryVars,
       worldVars
<1>q. QED  BY <1>1, <1>2, <1>3, <1>4, <1>5, <1>6, <1>7 DEF TypeInv

LEMMA CheckEntryTyped ==
  ASSUME TypeInv, NEW p \in Procs, CheckEntry(p)
  PROVE  TypeInv'
<1>1. DiskTyped'
  BY DEF TypeInv, DiskTyped, CheckEntry, HandOut, Leave, FreedLock, Miss,
       AfterMiss, Goto, NextEntries, diskVars, callVars, memoryVars, worldVars
<1>2. ReapTyped'
  BY DEF TypeInv, ReapTyped, CheckEntry, HandOut, Leave, FreedLock, Miss,
       AfterMiss, Goto, NextEntries, diskVars, callVars, memoryVars, worldVars
<1>3. WorldTyped'
  BY DEF TypeInv, WorldTyped, CheckEntry, HandOut, Leave, FreedLock, Miss,
       AfterMiss, Goto, NextEntries, diskVars, callVars, memoryVars, worldVars
<1>4. CallTyped'
  BY DEF TypeInv, CallTyped, PcTyped, CheckEntry, HandOut, Leave, FreedLock,
       Miss, AfterMiss, Goto, NextEntries, diskVars, callVars, memoryVars,
       worldVars
<1>5. PcTyped'
  BY DEF TypeInv, PcTyped, CallTyped, Labels, LookLabels, LockLabels,
       CheckEntry, HandOut, Leave, FreedLock, Miss, AfterMiss, Goto,
       NextEntries, diskVars, callVars, memoryVars, worldVars
<1>6. LockTyped'
  BY CacheAssumption DEF TypeInv, LockTyped, CallTyped, PcTyped, Labels,
       LookLabels, LockLabels, CheckEntry, HandOut, Leave, FreedLock, Miss,
       AfterMiss, Goto, NextEntries, diskVars, callVars, memoryVars, worldVars
<1>7. BuiltTyped'
  BY CacheAssumption DEF TypeInv, BuiltTyped, DiskTyped, CallTyped, PcTyped,
       LockTyped, Labels, LookLabels, LockLabels, CheckEntry, HandOut, Leave,
       FreedLock, Miss, AfterMiss, Goto, NextEntries, diskVars, callVars,
       memoryVars, worldVars
<1>q. QED  BY <1>1, <1>2, <1>3, <1>4, <1>5, <1>6, <1>7 DEF TypeInv

LEMMA WalkFailsTyped ==
  ASSUME TypeInv, NEW p \in Procs, WalkFails(p)
  PROVE  TypeInv'
<1>1. DiskTyped'
  BY DEF TypeInv, DiskTyped, WalkFails, Miss, AfterMiss, Goto, diskVars,
       callVars, memoryVars, worldVars
<1>2. ReapTyped'
  BY DEF TypeInv, ReapTyped, WalkFails, Miss, AfterMiss, Goto, diskVars,
       callVars, memoryVars, worldVars
<1>3. WorldTyped'
  BY DEF TypeInv, WorldTyped, WalkFails, Miss, AfterMiss, Goto, diskVars,
       callVars, memoryVars, worldVars
<1>4. CallTyped'
  BY DEF TypeInv, CallTyped, PcTyped, WalkFails, Miss, AfterMiss, Goto,
       diskVars, callVars, memoryVars, worldVars
<1>5. PcTyped'
  BY DEF TypeInv, PcTyped, CallTyped, Labels, LookLabels, LockLabels,
       WalkFails, Miss, AfterMiss, Goto, diskVars, callVars, memoryVars,
       worldVars
<1>6. LockTyped'
  BY DEF TypeInv, LockTyped, LockLabels, WalkFails, Miss, AfterMiss, Goto,
       diskVars, callVars, memoryVars, worldVars
<1>7. BuiltTyped'
  BY DEF TypeInv, BuiltTyped, DiskTyped, LockTyped, LockLabels, WalkFails,
       Miss, AfterMiss, Goto, diskVars, callVars, memoryVars, worldVars
<1>q. QED  BY <1>1, <1>2, <1>3, <1>4, <1>5, <1>6, <1>7 DEF TypeInv

LEMMA ListMarkersTyped ==
  ASSUME TypeInv, NEW p \in Procs, ListMarkers(p)
  PROVE  TypeInv'
<1>1. DiskTyped'
  BY DEF TypeInv, DiskTyped, ListMarkers, NothingCached, Leave, FreedLock,
       Goto, diskVars, callVars, memoryVars, worldVars
<1>2. ReapTyped'
  BY DEF TypeInv, ReapTyped, ListMarkers, NothingCached, Leave, FreedLock,
       Goto, diskVars, callVars, memoryVars, worldVars
<1>3. WorldTyped'
  BY DEF TypeInv, WorldTyped, ListMarkers, NothingCached, Leave, FreedLock,
       Goto, diskVars, callVars, memoryVars, worldVars
<1>4. CallTyped'
  BY DEF TypeInv, CallTyped, PcTyped, ListMarkers, NothingCached, Leave,
       FreedLock, Goto, diskVars, callVars, memoryVars, worldVars
<1>5. PcTyped'
  BY DEF TypeInv, PcTyped, CallTyped, Labels, LookLabels, LockLabels,
       ListMarkers, NothingCached, Leave, FreedLock, Goto, diskVars, callVars,
       memoryVars, worldVars
<1>6. LockTyped'
  BY CacheAssumption DEF TypeInv, LockTyped, CallTyped, PcTyped, Labels,
       LookLabels, LockLabels, ListMarkers, NothingCached, Leave, FreedLock,
       Goto, diskVars, callVars, memoryVars, worldVars
<1>7. BuiltTyped'
  BY CacheAssumption DEF TypeInv, BuiltTyped, DiskTyped, CallTyped, PcTyped,
       LockTyped, Labels, LookLabels, LockLabels, ListMarkers, NothingCached,
       Leave, FreedLock, Goto, diskVars, callVars, memoryVars, worldVars
<1>q. QED  BY <1>1, <1>2, <1>3, <1>4, <1>5, <1>6, <1>7 DEF TypeInv

LEMMA NextCandidateTyped ==
  ASSUME TypeInv, NEW p \in Procs, NextCandidate(p)
  PROVE  TypeInv'
<1>1. DiskTyped'
  BY DEF TypeInv, DiskTyped, NextCandidate, NothingCached, Leave, FreedLock,
       Goto, diskVars, callVars, memoryVars, worldVars
<1>2. ReapTyped'
  BY DEF TypeInv, ReapTyped, NextCandidate, NothingCached, Leave, FreedLock,
       Goto, diskVars, callVars, memoryVars, worldVars
<1>3. WorldTyped'
  BY DEF TypeInv, WorldTyped, NextCandidate, NothingCached, Leave, FreedLock,
       Goto, diskVars, callVars, memoryVars, worldVars
<1>4. CallTyped'
  BY DEF TypeInv, CallTyped, PcTyped, NextCandidate, NothingCached, Leave,
       FreedLock, Goto, diskVars, callVars, memoryVars, worldVars
<1>5. PcTyped'
  BY DEF TypeInv, PcTyped, CallTyped, Labels, LookLabels, LockLabels,
       NextCandidate, NothingCached, Leave, FreedLock, Goto, diskVars,
       callVars, memoryVars, worldVars
<1>6. LockTyped'
  BY CacheAssumption DEF TypeInv, LockTyped, CallTyped, PcTyped, Labels,
       LookLabels, LockLabels, NextCandidate, NothingCached, Leave, FreedLock,
       Goto, diskVars, callVars, memoryVars, worldVars
<1>7. BuiltTyped'
  BY CacheAssumption DEF TypeInv, BuiltTyped, DiskTyped, CallTyped, PcTyped,
       LockTyped, Labels, LookLabels, LockLabels, NextCandidate,
       NothingCached, Leave, FreedLock, Goto, diskVars, callVars, memoryVars,
       worldVars
<1>q. QED  BY <1>1, <1>2, <1>3, <1>4, <1>5, <1>6, <1>7 DEF TypeInv

LEMMA ReturnTyped ==
  ASSUME TypeInv, NEW p \in Procs, Return(p)
  PROVE  TypeInv'
<1>1. DiskTyped'
  BY DEF TypeInv, DiskTyped, Return, Fail, Leave, FreedLock, Goto, diskVars,
       callVars, memoryVars, worldVars
<1>2. ReapTyped'
  BY DEF TypeInv, ReapTyped, Return, Fail, Leave, FreedLock, Goto, diskVars,
       callVars, memoryVars, worldVars
<1>3. WorldTyped'
  BY DEF TypeInv, WorldTyped, Return, Fail, Leave, FreedLock, Goto, diskVars,
       callVars, memoryVars, worldVars
<1>4. CallTyped'
  BY DEF TypeInv, CallTyped, PcTyped, Return, Fail, Leave, FreedLock, Goto,
       diskVars, callVars, memoryVars, worldVars
<1>5. PcTyped'
  BY DEF TypeInv, PcTyped, CallTyped, Labels, LookLabels, LockLabels, Return,
       Fail, Leave, FreedLock, Goto, diskVars, callVars, memoryVars, worldVars
<1>6. LockTyped'
  BY DEF TypeInv, LockTyped, LockLabels, Return, Fail, Leave, FreedLock, Goto,
       diskVars, callVars, memoryVars, worldVars
<1>7. BuiltTyped'
  BY DEF TypeInv, BuiltTyped, DiskTyped, LockTyped, LockLabels, Return, Fail,
       Leave, FreedLock, Goto, diskVars, callVars, memoryVars, worldVars
<1>q. QED  BY <1>1, <1>2, <1>3, <1>4, <1>5, <1>6, <1>7 DEF TypeInv

LEMMA TakeLockTyped ==
  ASSUME TypeInv, NEW p \in Procs, TakeLock(p)
  PROVE  TypeInv'
<1>1. DiskTyped'
  BY DEF TypeInv, DiskTyped, TakeLock, Goto, MaterializeFrame, diskVars,
       callVars, memoryVars, worldVars
<1>2. ReapTyped'
  BY DEF TypeInv, ReapTyped, TakeLock, Goto, MaterializeFrame, diskVars,
       callVars, memoryVars, worldVars
<1>3. WorldTyped'
  BY DEF TypeInv, WorldTyped, TakeLock, Goto, MaterializeFrame, diskVars,
       callVars, memoryVars, worldVars
<1>4. CallTyped'
  BY DEF TypeInv, CallTyped, PcTyped, TakeLock, Goto, MaterializeFrame,
       diskVars, callVars, memoryVars, worldVars
<1>5. PcTyped'
  BY DEF TypeInv, PcTyped, CallTyped, Labels, LookLabels, LockLabels,
       TakeLock, Goto, MaterializeFrame, diskVars, callVars, memoryVars,
       worldVars
<1>6. LockTyped'
  BY CacheAssumption DEF TypeInv, LockTyped, CallTyped, PcTyped, Labels,
       LookLabels, LockLabels, TakeLock, Goto, MaterializeFrame, diskVars,
       callVars, memoryVars, worldVars
<1>7. BuiltTyped'
  BY DEF TypeInv, BuiltTyped, DiskTyped, LockTyped, LockLabels, TakeLock,
       Goto, MaterializeFrame, diskVars, callVars, memoryVars, worldVars
<1>q. QED  BY <1>1, <1>2, <1>3, <1>4, <1>5, <1>6, <1>7 DEF TypeInv

LEMMA SweepTyped ==
  ASSUME TypeInv, NEW p \in Procs, Sweep(p)
  PROVE  TypeInv'
<1>1. DiskTyped'
  <2>1. saved' \in [tree : [Versions -> Slots], marker : [Versions -> BOOLEAN]]
    BY SyncTyped DEF TypeInv, DiskTyped, Sweep
  <2>2. temp' \in [Procs -> Slots]
    BY FolderFacts DEF Sweep
  <2>3. marker' \in [Versions -> BOOLEAN]
    BY DEF Sweep, MarkersWithCopies, Exists
  <2>4. tree' = tree
    BY DEF Sweep
  <2>q. QED  BY <2>1, <2>2, <2>3, <2>4 DEF TypeInv, DiskTyped
<1>2. ReapTyped'
  BY DEF TypeInv, ReapTyped, Sweep, Goto, MaterializeFrame, SyncVersionsDir,
       MarkersWithCopies, Exists, diskVars, callVars, memoryVars, worldVars
<1>3. WorldTyped'
  BY DEF TypeInv, WorldTyped, Sweep, Goto, MaterializeFrame, SyncVersionsDir,
       MarkersWithCopies, Exists, diskVars, callVars, memoryVars, worldVars
<1>4. CallTyped'
  BY DEF TypeInv, CallTyped, PcTyped, Sweep, Goto, MaterializeFrame,
       SyncVersionsDir, MarkersWithCopies, Exists, diskVars, callVars,
       memoryVars, worldVars
<1>5. PcTyped'
  BY DEF TypeInv, PcTyped, CallTyped, Labels, LookLabels, LockLabels, Sweep,
       Goto, MaterializeFrame, SyncVersionsDir, MarkersWithCopies, Exists,
       diskVars, callVars, memoryVars, worldVars
<1>6. LockTyped'
  BY DEF TypeInv, LockTyped, LockLabels, Sweep, Goto, MaterializeFrame,
       SyncVersionsDir, MarkersWithCopies, Exists, diskVars, callVars,
       memoryVars, worldVars
<1>7. BuiltTyped'
  BY DEF TypeInv, BuiltTyped, DiskTyped, LockTyped, LockLabels, Sweep, Goto,
       MaterializeFrame, SyncVersionsDir, MarkersWithCopies, Exists, diskVars,
       callVars, memoryVars, worldVars
<1>q. QED  BY <1>1, <1>2, <1>3, <1>4, <1>5, <1>6, <1>7 DEF TypeInv

LEMMA CheckExistsTyped ==
  ASSUME TypeInv, NEW p \in Procs, CheckExists(p)
  PROVE  TypeInv'
<1>1. DiskTyped'
  BY DEF TypeInv, DiskTyped, CheckExists, Goto, MaterializeFrame, diskVars,
       callVars, memoryVars, worldVars
<1>2. ReapTyped'
  BY DEF TypeInv, ReapTyped, CheckExists, Goto, MaterializeFrame, diskVars,
       callVars, memoryVars, worldVars
<1>3. WorldTyped'
  BY DEF TypeInv, WorldTyped, CheckExists, Goto, MaterializeFrame, diskVars,
       callVars, memoryVars, worldVars
<1>4. CallTyped'
  BY DEF TypeInv, CallTyped, PcTyped, CheckExists, Goto, MaterializeFrame,
       diskVars, callVars, memoryVars, worldVars
<1>5. PcTyped'
  BY DEF TypeInv, PcTyped, CallTyped, Labels, LookLabels, LockLabels,
       CheckExists, Goto, MaterializeFrame, diskVars, callVars, memoryVars,
       worldVars
<1>6. LockTyped'
  BY DEF TypeInv, LockTyped, LockLabels, CheckExists, Goto, MaterializeFrame,
       diskVars, callVars, memoryVars, worldVars
<1>7. BuiltTyped'
  BY DEF TypeInv, BuiltTyped, DiskTyped, LockTyped, LockLabels, CheckExists,
       Goto, MaterializeFrame, diskVars, callVars, memoryVars, worldVars
<1>q. QED  BY <1>1, <1>2, <1>3, <1>4, <1>5, <1>6, <1>7 DEF TypeInv

LEMMA ValidateEntryTyped ==
  ASSUME TypeInv, NEW p \in Procs, ValidateEntry(p)
  PROVE  TypeInv'
<1>1. DiskTyped'
  BY DEF TypeInv, DiskTyped, ValidateEntry, Goto, NextEntries, diskVars,
       callVars, memoryVars, worldVars
<1>2. ReapTyped'
  BY DEF TypeInv, ReapTyped, ValidateEntry, Goto, NextEntries, diskVars,
       callVars, memoryVars, worldVars
<1>3. WorldTyped'
  BY DEF TypeInv, WorldTyped, ValidateEntry, Goto, NextEntries, diskVars,
       callVars, memoryVars, worldVars
<1>4. CallTyped'
  BY DEF TypeInv, CallTyped, PcTyped, ValidateEntry, Goto, NextEntries,
       diskVars, callVars, memoryVars, worldVars
<1>5. PcTyped'
  BY DEF TypeInv, PcTyped, CallTyped, Labels, LookLabels, LockLabels,
       ValidateEntry, Goto, NextEntries, diskVars, callVars, memoryVars,
       worldVars
<1>6. LockTyped'
  BY CacheAssumption DEF TypeInv, LockTyped, CallTyped, PcTyped, Labels,
       LookLabels, LockLabels, ValidateEntry, Goto, NextEntries, diskVars,
       callVars, memoryVars, worldVars
<1>7. BuiltTyped'
  BY CacheAssumption DEF TypeInv, BuiltTyped, DiskTyped, CallTyped, PcTyped,
       LockTyped, Labels, LookLabels, LockLabels, ValidateEntry, Goto,
       NextEntries, diskVars, callVars, memoryVars, worldVars
<1>q. QED  BY <1>1, <1>2, <1>3, <1>4, <1>5, <1>6, <1>7 DEF TypeInv

LEMMA SyncTreeTyped ==
  ASSUME TypeInv, NEW p \in Procs, SyncTree(p)
  PROVE  TypeInv'
<1>1. DiskTyped'
  <2>1. tree' \in [Versions -> Slots]
    <3>1. CASE Exists(exam[p])
      <4>1. exam[p] \in Versions
        BY DEF TypeInv, PcTyped, SyncTree
      <4>2. tree[exam[p]] \in Folders
        BY <3>1, <4>1 DEF TypeInv, DiskTyped, Slots, Exists
      <4>3. [tree[exam[p]] EXCEPT !.safe = TRUE] \in Slots
        BY <4>2, SyncedFolder, FolderFacts
      <4>4. tree' = [tree EXCEPT ![exam[p]] = [tree[exam[p]] EXCEPT !.safe = TRUE]]
        BY <3>1 DEF SyncTree
      <4>q. QED  BY <4>3, <4>4 DEF TypeInv, DiskTyped
    <3>2. CASE ~Exists(exam[p])
      BY <3>2 DEF TypeInv, DiskTyped, SyncTree
    <3>q. QED  BY <3>1, <3>2
  <2>q. QED  BY <2>1 DEF TypeInv, DiskTyped, SyncTree
<1>2. ReapTyped'
  <2>1. CASE Exists(exam[p])
    <3>1. exam[p] \in Versions
      BY DEF TypeInv, PcTyped, SyncTree
    <3>2. tree[exam[p]] \in Folders
      BY <2>1, <3>1 DEF TypeInv, DiskTyped, Slots, Exists
    <3>3. [tree[exam[p]] EXCEPT !.safe = TRUE] # NoTree
      BY <3>2, SyncedFolder, FolderAssumption
    <3>4. tree' = [tree EXCEPT ![exam[p]] = [tree[exam[p]] EXCEPT !.safe = TRUE]]
      BY <2>1 DEF SyncTree
    <3>q. QED  BY <3>3, <3>4 DEF TypeInv, ReapTyped, DiskTyped, SyncTree, MaterializeFrame
  <2>2. CASE ~Exists(exam[p])
    BY <2>2 DEF TypeInv, ReapTyped, SyncTree, MaterializeFrame
  <2>q. QED  BY <2>1, <2>2
<1>3. WorldTyped'
  BY DEF TypeInv, WorldTyped, SyncTree, Goto, MaterializeFrame, Exists,
       diskVars, callVars, memoryVars, worldVars
<1>4. CallTyped'
  BY DEF TypeInv, CallTyped, PcTyped, SyncTree, Goto, MaterializeFrame,
       Exists, diskVars, callVars, memoryVars, worldVars
<1>5. PcTyped'
  BY DEF TypeInv, PcTyped, CallTyped, Labels, LookLabels, LockLabels,
       SyncTree, Goto, MaterializeFrame, Exists, diskVars, callVars,
       memoryVars, worldVars
<1>6. LockTyped'
  BY DEF TypeInv, LockTyped, LockLabels, SyncTree, Goto, MaterializeFrame,
       Exists, diskVars, callVars, memoryVars, worldVars
<1>7. BuiltTyped'
  BY DEF TypeInv, BuiltTyped, DiskTyped, LockTyped, LockLabels, SyncTree,
       Goto, MaterializeFrame, Exists, diskVars, callVars, memoryVars,
       worldVars
<1>q. QED  BY <1>1, <1>2, <1>3, <1>4, <1>5, <1>6, <1>7 DEF TypeInv

LEMMA SyncTreeFailsTyped ==
  ASSUME TypeInv, NEW p \in Procs, SyncTreeFails(p)
  PROVE  TypeInv'
<1>1. DiskTyped'
  BY DEF TypeInv, DiskTyped, SyncTreeFails, Fail, Leave, FreedLock, Goto,
       diskVars, callVars, memoryVars, worldVars
<1>2. ReapTyped'
  BY DEF TypeInv, ReapTyped, SyncTreeFails, Fail, Leave, FreedLock, Goto,
       diskVars, callVars, memoryVars, worldVars
<1>3. WorldTyped'
  BY DEF TypeInv, WorldTyped, SyncTreeFails, Fail, Leave, FreedLock, Goto,
       diskVars, callVars, memoryVars, worldVars
<1>4. CallTyped'
  BY DEF TypeInv, CallTyped, PcTyped, SyncTreeFails, Fail, Leave, FreedLock,
       Goto, diskVars, callVars, memoryVars, worldVars
<1>5. PcTyped'
  BY DEF TypeInv, PcTyped, CallTyped, Labels, LookLabels, LockLabels,
       SyncTreeFails, Fail, Leave, FreedLock, Goto, diskVars, callVars,
       memoryVars, worldVars
<1>6. LockTyped'
  BY CacheAssumption DEF TypeInv, LockTyped, CallTyped, PcTyped, Labels,
       LookLabels, LockLabels, SyncTreeFails, Fail, Leave, FreedLock, Goto,
       diskVars, callVars, memoryVars, worldVars
<1>7. BuiltTyped'
  BY DEF TypeInv, BuiltTyped, DiskTyped, LockTyped, LockLabels, SyncTreeFails,
       Fail, Leave, FreedLock, Goto, diskVars, callVars, memoryVars, worldVars
<1>q. QED  BY <1>1, <1>2, <1>3, <1>4, <1>5, <1>6, <1>7 DEF TypeInv

LEMMA SyncNameTyped ==
  ASSUME TypeInv, NEW p \in Procs, SyncName(p)
  PROVE  TypeInv'
<1>1. DiskTyped'
  BY DEF TypeInv, DiskTyped, SyncName, Goto, MaterializeFrame,
       SyncVersionsDir, diskVars, callVars, memoryVars, worldVars
<1>2. ReapTyped'
  BY DEF TypeInv, ReapTyped, SyncName, Goto, MaterializeFrame,
       SyncVersionsDir, diskVars, callVars, memoryVars, worldVars
<1>3. WorldTyped'
  BY DEF TypeInv, WorldTyped, SyncName, Goto, MaterializeFrame,
       SyncVersionsDir, diskVars, callVars, memoryVars, worldVars
<1>4. CallTyped'
  BY DEF TypeInv, CallTyped, PcTyped, SyncName, Goto, MaterializeFrame,
       SyncVersionsDir, diskVars, callVars, memoryVars, worldVars
<1>5. PcTyped'
  BY DEF TypeInv, PcTyped, CallTyped, Labels, LookLabels, LockLabels,
       SyncName, Goto, MaterializeFrame, SyncVersionsDir, diskVars, callVars,
       memoryVars, worldVars
<1>6. LockTyped'
  BY DEF TypeInv, LockTyped, LockLabels, SyncName, Goto, MaterializeFrame,
       SyncVersionsDir, diskVars, callVars, memoryVars, worldVars
<1>7. BuiltTyped'
  BY DEF TypeInv, BuiltTyped, DiskTyped, LockTyped, LockLabels, SyncName,
       Goto, MaterializeFrame, SyncVersionsDir, diskVars, callVars,
       memoryVars, worldVars
<1>q. QED  BY <1>1, <1>2, <1>3, <1>4, <1>5, <1>6, <1>7 DEF TypeInv

LEMMA UnmarkTyped ==
  ASSUME TypeInv, NEW p \in Procs, Unmark(p)
  PROVE  TypeInv'
<1>1. DiskTyped'
  BY DEF TypeInv, DiskTyped, Unmark, Goto, MaterializeFrame, diskVars,
       callVars, memoryVars, worldVars
<1>2. ReapTyped'
  BY DEF TypeInv, ReapTyped, Unmark, Goto, MaterializeFrame, diskVars,
       callVars, memoryVars, worldVars
<1>3. WorldTyped'
  BY DEF TypeInv, WorldTyped, Unmark, Goto, MaterializeFrame, diskVars,
       callVars, memoryVars, worldVars
<1>4. CallTyped'
  BY DEF TypeInv, CallTyped, PcTyped, Unmark, Goto, MaterializeFrame,
       diskVars, callVars, memoryVars, worldVars
<1>5. PcTyped'
  BY DEF TypeInv, PcTyped, CallTyped, Labels, LookLabels, LockLabels, Unmark,
       Goto, MaterializeFrame, diskVars, callVars, memoryVars, worldVars
<1>6. LockTyped'
  BY DEF TypeInv, LockTyped, LockLabels, Unmark, Goto, MaterializeFrame,
       diskVars, callVars, memoryVars, worldVars
<1>7. BuiltTyped'
  BY DEF TypeInv, BuiltTyped, DiskTyped, LockTyped, LockLabels, Unmark, Goto,
       MaterializeFrame, diskVars, callVars, memoryVars, worldVars
<1>q. QED  BY <1>1, <1>2, <1>3, <1>4, <1>5, <1>6, <1>7 DEF TypeInv

LEMMA MoveAsideTyped ==
  ASSUME TypeInv, NEW p \in Procs, MoveAside(p)
  PROVE  TypeInv'
<1>1. DiskTyped'
  BY FolderFacts, CacheAssumption DEF TypeInv, DiskTyped, ReapTyped, PcTyped,
       Slots, Folders, MoveAside, Goto, diskVars, callVars, memoryVars,
       worldVars
<1>2. ReapTyped'
  BY DEF TypeInv, ReapTyped, DiskTyped, MoveAside, Goto, diskVars, callVars,
       memoryVars, worldVars
<1>3. WorldTyped'
  BY DEF TypeInv, WorldTyped, MoveAside, Goto, diskVars, callVars, memoryVars,
       worldVars
<1>4. CallTyped'
  BY DEF TypeInv, CallTyped, PcTyped, MoveAside, Goto, diskVars, callVars,
       memoryVars, worldVars
<1>5. PcTyped'
  BY DEF TypeInv, PcTyped, CallTyped, Labels, LookLabels, LockLabels,
       MoveAside, Goto, diskVars, callVars, memoryVars, worldVars
<1>6. LockTyped'
  BY DEF TypeInv, LockTyped, LockLabels, MoveAside, Goto, diskVars, callVars,
       memoryVars, worldVars
<1>7. BuiltTyped'
  BY DEF TypeInv, BuiltTyped, DiskTyped, LockTyped, LockLabels, MoveAside,
       Goto, diskVars, callVars, memoryVars, worldVars
<1>q. QED  BY <1>1, <1>2, <1>3, <1>4, <1>5, <1>6, <1>7 DEF TypeInv

LEMMA StageTyped ==
  ASSUME TypeInv, NEW p \in Procs, Stage(p)
  PROVE  TypeInv'
<1>1. DiskTyped'
  BY FolderFacts, CacheAssumption DEF TypeInv, DiskTyped, ReapTyped, PcTyped,
       Slots, Folders, Stage, Goto, MaterializeFrame, diskVars, callVars,
       memoryVars, worldVars
<1>2. ReapTyped'
  BY DEF TypeInv, ReapTyped, Stage, Goto, MaterializeFrame, diskVars,
       callVars, memoryVars, worldVars
<1>3. WorldTyped'
  BY DEF TypeInv, WorldTyped, Stage, Goto, MaterializeFrame, diskVars,
       callVars, memoryVars, worldVars
<1>4. CallTyped'
  BY DEF TypeInv, CallTyped, PcTyped, Stage, Goto, MaterializeFrame, diskVars,
       callVars, memoryVars, worldVars
<1>5. PcTyped'
  BY DEF TypeInv, PcTyped, CallTyped, Labels, LookLabels, LockLabels, Stage,
       Goto, MaterializeFrame, diskVars, callVars, memoryVars, worldVars
<1>6. LockTyped'
  BY DEF TypeInv, LockTyped, LockLabels, Stage, Goto, MaterializeFrame,
       diskVars, callVars, memoryVars, worldVars
<1>7. BuiltTyped'
  BY DEF TypeInv, BuiltTyped, DiskTyped, LockTyped, LockLabels, Stage, Goto,
       MaterializeFrame, diskVars, callVars, memoryVars, worldVars
<1>q. QED  BY <1>1, <1>2, <1>3, <1>4, <1>5, <1>6, <1>7 DEF TypeInv

LEMMA FetchFailsTyped ==
  ASSUME TypeInv, NEW p \in Procs, FetchFails(p)
  PROVE  TypeInv'
<1>1. DiskTyped'
  BY FolderFacts, CacheAssumption DEF TypeInv, DiskTyped, ReapTyped, PcTyped,
       Slots, Folders, FetchFails, Fail, Leave, FreedLock, Goto, RemoveTemp,
       diskVars, callVars, memoryVars, worldVars
<1>2. ReapTyped'
  BY DEF TypeInv, ReapTyped, FetchFails, Fail, Leave, FreedLock, Goto,
       RemoveTemp, diskVars, callVars, memoryVars, worldVars
<1>3. WorldTyped'
  BY CacheAssumption DEF TypeInv, WorldTyped, Budgets, FetchFails, Fail,
       Leave, FreedLock, Goto, RemoveTemp, diskVars, callVars, memoryVars,
       worldVars
<1>4. CallTyped'
  BY DEF TypeInv, CallTyped, PcTyped, FetchFails, Fail, Leave, FreedLock,
       Goto, RemoveTemp, diskVars, callVars, memoryVars, worldVars
<1>5. PcTyped'
  BY DEF TypeInv, PcTyped, CallTyped, Labels, LookLabels, LockLabels,
       FetchFails, Fail, Leave, FreedLock, Goto, RemoveTemp, diskVars,
       callVars, memoryVars, worldVars
<1>6. LockTyped'
  BY CacheAssumption DEF TypeInv, LockTyped, CallTyped, PcTyped, Labels,
       LookLabels, LockLabels, FetchFails, Fail, Leave, FreedLock, Goto,
       RemoveTemp, diskVars, callVars, memoryVars, worldVars
<1>7. BuiltTyped'
  BY CacheAssumption DEF TypeInv, BuiltTyped, DiskTyped, CallTyped, PcTyped,
       LockTyped, Labels, LookLabels, LockLabels, FetchFails, Fail, Leave,
       FreedLock, Goto, RemoveTemp, diskVars, callVars, memoryVars, worldVars
<1>q. QED  BY <1>1, <1>2, <1>3, <1>4, <1>5, <1>6, <1>7 DEF TypeInv

LEMMA FetchTyped ==
  ASSUME TypeInv, NEW p \in Procs, Fetch(p)
  PROVE  TypeInv'
<1>1. DiskTyped'
  BY FolderFacts, CacheAssumption DEF TypeInv, DiskTyped, ReapTyped, PcTyped,
       Slots, Folders, Fetch, Goto, MaterializeFrame, diskVars, callVars,
       memoryVars, worldVars
<1>2. ReapTyped'
  BY DEF TypeInv, ReapTyped, Fetch, Goto, MaterializeFrame, diskVars,
       callVars, memoryVars, worldVars
<1>3. WorldTyped'
  BY DEF TypeInv, WorldTyped, Fetch, Goto, MaterializeFrame, diskVars,
       callVars, memoryVars, worldVars
<1>4. CallTyped'
  BY DEF TypeInv, CallTyped, PcTyped, Fetch, Goto, MaterializeFrame, diskVars,
       callVars, memoryVars, worldVars
<1>5. PcTyped'
  BY DEF TypeInv, PcTyped, CallTyped, Labels, LookLabels, LockLabels, Fetch,
       Goto, MaterializeFrame, diskVars, callVars, memoryVars, worldVars
<1>6. LockTyped'
  BY DEF TypeInv, LockTyped, LockLabels, Fetch, Goto, MaterializeFrame,
       diskVars, callVars, memoryVars, worldVars
<1>7. BuiltTyped'
  BY CacheAssumption DEF TypeInv, BuiltTyped, DiskTyped, CallTyped, PcTyped,
       LockTyped, Labels, LookLabels, LockLabels, Fetch, Goto,
       MaterializeFrame, diskVars, callVars, memoryVars, worldVars
<1>q. QED  BY <1>1, <1>2, <1>3, <1>4, <1>5, <1>6, <1>7 DEF TypeInv

LEMMA RenameTyped ==
  ASSUME TypeInv, NEW p \in Procs, Rename(p)
  PROVE  TypeInv'
<1>1. DiskTyped'
  <2>1. temp' \in [Procs -> Slots]
    BY FolderFacts DEF TypeInv, DiskTyped, Rename
  <2>2. tree' \in [Versions -> Slots]
    BY DEF TypeInv, DiskTyped, Rename
  <2>q. QED  BY <2>1, <2>2 DEF TypeInv, DiskTyped, Rename
<1>2. ReapTyped'
  <2>1. temp[p] = FinishedCopy
    BY DEF TypeInv, BuiltTyped, Rename
  <2>2. \A w \in Versions : tree[w] # NoTree => tree'[w] # NoTree
    BY <2>1, FolderFacts DEF TypeInv, DiskTyped, Rename
  <2>q. QED  BY <2>2 DEF TypeInv, ReapTyped, Rename
<1>3. WorldTyped'
  BY DEF TypeInv, WorldTyped, Rename, Fail, Leave, FreedLock, Goto, Exists,
       diskVars, callVars, memoryVars, worldVars
<1>4. CallTyped'
  BY DEF TypeInv, CallTyped, PcTyped, Rename, Fail, Leave, FreedLock, Goto,
       Exists, diskVars, callVars, memoryVars, worldVars
<1>5. PcTyped'
  BY DEF TypeInv, PcTyped, CallTyped, Labels, LookLabels, LockLabels, Rename,
       Fail, Leave, FreedLock, Goto, Exists, diskVars, callVars, memoryVars,
       worldVars
<1>6. LockTyped'
  BY CacheAssumption DEF TypeInv, LockTyped, CallTyped, PcTyped, Labels,
       LookLabels, LockLabels, Rename, Fail, Leave, FreedLock, Goto, Exists,
       diskVars, callVars, memoryVars, worldVars
<1>7. BuiltTyped'
  BY CacheAssumption DEF TypeInv, BuiltTyped, DiskTyped, CallTyped, PcTyped,
       LockTyped, Labels, LookLabels, LockLabels, Rename, Fail, Leave,
       FreedLock, Goto, Exists, diskVars, callVars, memoryVars, worldVars
<1>q. QED  BY <1>1, <1>2, <1>3, <1>4, <1>5, <1>6, <1>7 DEF TypeInv

LEMMA SyncRenameTyped ==
  ASSUME TypeInv, NEW p \in Procs, SyncRename(p)
  PROVE  TypeInv'
<1>1. DiskTyped'
  BY DEF TypeInv, DiskTyped, SyncRename, Goto, MaterializeFrame,
       SyncVersionsDir, diskVars, callVars, memoryVars, worldVars
<1>2. ReapTyped'
  BY DEF TypeInv, ReapTyped, SyncRename, Goto, MaterializeFrame,
       SyncVersionsDir, diskVars, callVars, memoryVars, worldVars
<1>3. WorldTyped'
  BY DEF TypeInv, WorldTyped, SyncRename, Goto, MaterializeFrame,
       SyncVersionsDir, diskVars, callVars, memoryVars, worldVars
<1>4. CallTyped'
  BY DEF TypeInv, CallTyped, PcTyped, SyncRename, Goto, MaterializeFrame,
       SyncVersionsDir, diskVars, callVars, memoryVars, worldVars
<1>5. PcTyped'
  BY DEF TypeInv, PcTyped, CallTyped, Labels, LookLabels, LockLabels,
       SyncRename, Goto, MaterializeFrame, SyncVersionsDir, diskVars,
       callVars, memoryVars, worldVars
<1>6. LockTyped'
  BY DEF TypeInv, LockTyped, LockLabels, SyncRename, Goto, MaterializeFrame,
       SyncVersionsDir, diskVars, callVars, memoryVars, worldVars
<1>7. BuiltTyped'
  BY DEF TypeInv, BuiltTyped, DiskTyped, LockTyped, LockLabels, SyncRename,
       Goto, MaterializeFrame, SyncVersionsDir, diskVars, callVars,
       memoryVars, worldVars
<1>q. QED  BY <1>1, <1>2, <1>3, <1>4, <1>5, <1>6, <1>7 DEF TypeInv

LEMMA MarkTyped ==
  ASSUME TypeInv, NEW p \in Procs, Mark(p)
  PROVE  TypeInv'
<1>1. DiskTyped'
  BY DEF TypeInv, DiskTyped, Mark, Goto, MaterializeFrame, diskVars, callVars,
       memoryVars, worldVars
<1>2. ReapTyped'
  BY DEF TypeInv, ReapTyped, Mark, Goto, MaterializeFrame, diskVars, callVars,
       memoryVars, worldVars
<1>3. WorldTyped'
  BY DEF TypeInv, WorldTyped, Mark, Goto, MaterializeFrame, diskVars,
       callVars, memoryVars, worldVars
<1>4. CallTyped'
  BY DEF TypeInv, CallTyped, PcTyped, Mark, Goto, MaterializeFrame, diskVars,
       callVars, memoryVars, worldVars
<1>5. PcTyped'
  BY DEF TypeInv, PcTyped, CallTyped, Labels, LookLabels, LockLabels, Mark,
       Goto, MaterializeFrame, diskVars, callVars, memoryVars, worldVars
<1>6. LockTyped'
  BY DEF TypeInv, LockTyped, LockLabels, Mark, Goto, MaterializeFrame,
       diskVars, callVars, memoryVars, worldVars
<1>7. BuiltTyped'
  BY DEF TypeInv, BuiltTyped, DiskTyped, LockTyped, LockLabels, Mark, Goto,
       MaterializeFrame, diskVars, callVars, memoryVars, worldVars
<1>q. QED  BY <1>1, <1>2, <1>3, <1>4, <1>5, <1>6, <1>7 DEF TypeInv

LEMMA SyncMarkTyped ==
  ASSUME TypeInv, NEW p \in Procs, SyncMark(p)
  PROVE  TypeInv'
<1>1. DiskTyped'
  BY DEF TypeInv, DiskTyped, SyncMark, HandOut, Leave, FreedLock, Goto,
       SyncVersionsDir, diskVars, callVars, memoryVars, worldVars
<1>2. ReapTyped'
  BY DEF TypeInv, ReapTyped, SyncMark, HandOut, Leave, FreedLock, Goto,
       SyncVersionsDir, diskVars, callVars, memoryVars, worldVars
<1>3. WorldTyped'
  BY DEF TypeInv, WorldTyped, SyncMark, HandOut, Leave, FreedLock, Goto,
       SyncVersionsDir, diskVars, callVars, memoryVars, worldVars
<1>4. CallTyped'
  BY DEF TypeInv, CallTyped, PcTyped, SyncMark, HandOut, Leave, FreedLock,
       Goto, SyncVersionsDir, diskVars, callVars, memoryVars, worldVars
<1>5. PcTyped'
  BY DEF TypeInv, PcTyped, CallTyped, Labels, LookLabels, LockLabels,
       SyncMark, HandOut, Leave, FreedLock, Goto, SyncVersionsDir, diskVars,
       callVars, memoryVars, worldVars
<1>6. LockTyped'
  BY CacheAssumption DEF TypeInv, LockTyped, CallTyped, PcTyped, Labels,
       LookLabels, LockLabels, SyncMark, HandOut, Leave, FreedLock, Goto,
       SyncVersionsDir, diskVars, callVars, memoryVars, worldVars
<1>7. BuiltTyped'
  BY DEF TypeInv, BuiltTyped, DiskTyped, LockTyped, LockLabels, SyncMark,
       HandOut, Leave, FreedLock, Goto, SyncVersionsDir, diskVars, callVars,
       memoryVars, worldVars
<1>q. QED  BY <1>1, <1>2, <1>3, <1>4, <1>5, <1>6, <1>7 DEF TypeInv

LEMMA CrashTyped ==
  ASSUME TypeInv, NEW p \in Procs, Crash(p)
  PROVE  TypeInv'
<1>1. DiskTyped'
  BY FolderFacts, CacheAssumption DEF TypeInv, DiskTyped, ReapTyped, PcTyped,
       Slots, Folders, Crash, Fail, Leave, FreedLock, Goto, diskVars,
       callVars, memoryVars, worldVars
<1>2. ReapTyped'
  BY DEF TypeInv, ReapTyped, Crash, Fail, Leave, FreedLock, Goto, diskVars,
       callVars, memoryVars, worldVars
<1>3. WorldTyped'
  BY CacheAssumption DEF TypeInv, WorldTyped, Budgets, Crash, Fail, Leave,
       FreedLock, Goto, diskVars, callVars, memoryVars, worldVars
<1>4. CallTyped'
  BY DEF TypeInv, CallTyped, PcTyped, Crash, Fail, Leave, FreedLock, Goto,
       diskVars, callVars, memoryVars, worldVars
<1>5. PcTyped'
  BY DEF TypeInv, PcTyped, CallTyped, Labels, LookLabels, LockLabels, Crash,
       Fail, Leave, FreedLock, Goto, diskVars, callVars, memoryVars, worldVars
<1>6. LockTyped'
  BY CacheAssumption DEF TypeInv, LockTyped, CallTyped, PcTyped, Labels,
       LookLabels, LockLabels, Crash, Fail, Leave, FreedLock, Goto, diskVars,
       callVars, memoryVars, worldVars
<1>7. BuiltTyped'
  BY CacheAssumption DEF TypeInv, BuiltTyped, DiskTyped, CallTyped, PcTyped,
       LockTyped, Labels, LookLabels, LockLabels, Crash, Fail, Leave,
       FreedLock, Goto, diskVars, callVars, memoryVars, worldVars
<1>q. QED  BY <1>1, <1>2, <1>3, <1>4, <1>5, <1>6, <1>7 DEF TypeInv

LEMMA StartReapingTyped ==
  ASSUME TypeInv, NEW v \in Versions, StartReaping(v)
  PROVE  TypeInv'
<1>1. DiskTyped'
  BY DEF TypeInv, DiskTyped, StartReaping, WorldFrame, Exists, diskVars,
       callVars, memoryVars, worldVars
<1>2. ReapTyped'
  BY DEF TypeInv, ReapTyped, DiskTyped, StartReaping, WorldFrame, Exists,
       diskVars, callVars, memoryVars, worldVars
<1>3. WorldTyped'
  BY CacheAssumption DEF TypeInv, WorldTyped, Budgets, StartReaping,
       WorldFrame, Exists, diskVars, callVars, memoryVars, worldVars
<1>4. CallTyped'
  BY DEF TypeInv, CallTyped, StartReaping, WorldFrame, Exists, diskVars,
       callVars, memoryVars, worldVars
<1>5. PcTyped'
  BY DEF TypeInv, PcTyped, StartReaping, WorldFrame, Exists, diskVars,
       callVars, memoryVars, worldVars
<1>6. LockTyped'
  BY DEF TypeInv, LockTyped, StartReaping, WorldFrame, Exists, diskVars,
       callVars, memoryVars, worldVars
<1>7. BuiltTyped'
  BY DEF TypeInv, BuiltTyped, StartReaping, WorldFrame, Exists, diskVars,
       callVars, memoryVars, worldVars
<1>q. QED  BY <1>1, <1>2, <1>3, <1>4, <1>5, <1>6, <1>7 DEF TypeInv

LEMMA ReapEntryTyped ==
  ASSUME TypeInv, NEW v \in Versions, ReapEntry(v)
  PROVE  TypeInv'
<1>1. DiskTyped'
  <2>1. tree[v] \in Folders
    BY DEF TypeInv, DiskTyped, ReapTyped, Slots, ReapEntry
  <2>2. tree' \in [Versions -> Slots]
    <3>1. CASE \E e \in tree[v].has :
                 tree' = [tree EXCEPT ![v].has = @ \ {e}, ![v].bad = @ \ {e}]
      <4>1. PICK e \in tree[v].has :
              tree' = [tree EXCEPT ![v].has = @ \ {e}, ![v].bad = @ \ {e}]
        BY <3>1
      <4>2. tree' = [tree EXCEPT ![v] = [tree[v] EXCEPT !.has = @ \ {e}, !.bad = @ \ {e}]]
        BY <4>1, <2>1 DEF TypeInv, DiskTyped, Folders
      <4>q. QED  BY <4>2, <2>1, ReapedFolder, FolderFacts DEF TypeInv, DiskTyped
    <3>2. CASE tree' = [tree EXCEPT ![v] = NoTree]
      BY <3>2, FolderFacts DEF TypeInv, DiskTyped
    <3>q. QED  BY <3>1, <3>2 DEF ReapEntry
  <2>q. QED  BY <2>2 DEF TypeInv, DiskTyped, ReapEntry, diskVars
<1>2. ReapTyped'
  <2>1. tree[v] \in Folders
    BY DEF TypeInv, DiskTyped, ReapTyped, Slots, ReapEntry
  <2>2. CASE \E e \in tree[v].has :
               /\ tree' = [tree EXCEPT ![v].has = @ \ {e}, ![v].bad = @ \ {e}]
               /\ UNCHANGED reaping
    <3>1. PICK e \in tree[v].has :
            tree' = [tree EXCEPT ![v].has = @ \ {e}, ![v].bad = @ \ {e}]
      BY <2>2
    <3>2. tree' = [tree EXCEPT ![v] = [tree[v] EXCEPT !.has = @ \ {e}, !.bad = @ \ {e}]]
      BY <3>1, <2>1 DEF TypeInv, DiskTyped, Folders
    <3>3. [tree[v] EXCEPT !.has = @ \ {e}, !.bad = @ \ {e}] # NoTree
      BY <2>1, ReapedFolder, FolderAssumption
    <3>q. QED  BY <2>2, <3>2, <3>3 DEF TypeInv, ReapTyped, DiskTyped
  <2>3. CASE /\ tree' = [tree EXCEPT ![v] = NoTree]
             /\ reaping' = reaping \ {v}
    BY <2>3 DEF TypeInv, ReapTyped, DiskTyped
  <2>q. QED  BY <2>2, <2>3 DEF ReapEntry
<1>3. WorldTyped'
  BY DEF TypeInv, WorldTyped, ReapEntry, WorldFrame, diskVars, callVars,
       memoryVars, worldVars
<1>4. CallTyped'
  BY DEF TypeInv, CallTyped, ReapEntry, WorldFrame, diskVars, callVars,
       memoryVars, worldVars
<1>5. PcTyped'
  BY DEF TypeInv, PcTyped, ReapEntry, WorldFrame, diskVars, callVars,
       memoryVars, worldVars
<1>6. LockTyped'
  BY DEF TypeInv, LockTyped, ReapEntry, WorldFrame, diskVars, callVars,
       memoryVars, worldVars
<1>7. BuiltTyped'
  BY DEF TypeInv, BuiltTyped, ReapEntry, WorldFrame, diskVars, callVars,
       memoryVars, worldVars
<1>q. QED  BY <1>1, <1>2, <1>3, <1>4, <1>5, <1>6, <1>7 DEF TypeInv

LEMMA StopReapingTyped ==
  ASSUME TypeInv, NEW v \in Versions, StopReaping(v)
  PROVE  TypeInv'
<1>1. DiskTyped'
  BY DEF TypeInv, DiskTyped, StopReaping, WorldFrame, diskVars, callVars,
       memoryVars, worldVars
<1>2. ReapTyped'
  BY DEF TypeInv, ReapTyped, DiskTyped, StopReaping, WorldFrame, diskVars,
       callVars, memoryVars, worldVars
<1>3. WorldTyped'
  BY DEF TypeInv, WorldTyped, StopReaping, WorldFrame, diskVars, callVars,
       memoryVars, worldVars
<1>4. CallTyped'
  BY DEF TypeInv, CallTyped, StopReaping, WorldFrame, diskVars, callVars,
       memoryVars, worldVars
<1>5. PcTyped'
  BY DEF TypeInv, PcTyped, StopReaping, WorldFrame, diskVars, callVars,
       memoryVars, worldVars
<1>6. LockTyped'
  BY DEF TypeInv, LockTyped, StopReaping, WorldFrame, diskVars, callVars,
       memoryVars, worldVars
<1>7. BuiltTyped'
  BY DEF TypeInv, BuiltTyped, StopReaping, WorldFrame, diskVars, callVars,
       memoryVars, worldVars
<1>q. QED  BY <1>1, <1>2, <1>3, <1>4, <1>5, <1>6, <1>7 DEF TypeInv

LEMMA MoveReleaseTyped ==
  ASSUME TypeInv, MoveRelease
  PROVE  TypeInv'
<1>1. DiskTyped'
  BY DEF TypeInv, DiskTyped, MoveRelease, WorldFrame, diskVars, callVars,
       memoryVars, worldVars
<1>2. ReapTyped'
  BY DEF TypeInv, ReapTyped, MoveRelease, WorldFrame, diskVars, callVars,
       memoryVars, worldVars
<1>3. WorldTyped'
  BY CacheAssumption DEF TypeInv, WorldTyped, Budgets, MoveRelease,
       WorldFrame, diskVars, callVars, memoryVars, worldVars
<1>4. CallTyped'
  BY DEF TypeInv, CallTyped, MoveRelease, WorldFrame, diskVars, callVars,
       memoryVars, worldVars
<1>5. PcTyped'
  BY DEF TypeInv, PcTyped, MoveRelease, WorldFrame, diskVars, callVars,
       memoryVars, worldVars
<1>6. LockTyped'
  BY DEF TypeInv, LockTyped, MoveRelease, WorldFrame, diskVars, callVars,
       memoryVars, worldVars
<1>7. BuiltTyped'
  BY DEF TypeInv, BuiltTyped, MoveRelease, WorldFrame, diskVars, callVars,
       memoryVars, worldVars
<1>q. QED  BY <1>1, <1>2, <1>3, <1>4, <1>5, <1>6, <1>7 DEF TypeInv

LEMMA PowerFailureTyped ==
  ASSUME TypeInv, PowerFailure
  PROVE  TypeInv'
<1>1. DiskTyped'
  <2>1. \A w \in Versions : tree'[w] \in Slots
    BY LostBytes DEF TypeInv, DiskTyped, PowerFailure
  <2>2. tree' \in [Versions -> Slots]
    BY <2>1 DEF PowerFailure
  <2>3. marker' \in [Versions -> BOOLEAN]
    BY DEF PowerFailure
  <2>4. saved' \in [tree : [Versions -> Slots], marker : [Versions -> BOOLEAN]]
    BY <2>2, <2>3 DEF PowerFailure
  <2>5. temp' \in [Procs -> Slots]
    BY FolderFacts DEF PowerFailure
  <2>q. QED  BY <2>2, <2>3, <2>4, <2>5 DEF DiskTyped
<1>2. ReapTyped'
  BY DEF TypeInv, ReapTyped, DiskTyped, PowerFailure, Remains, diskVars,
       callVars, memoryVars, worldVars
<1>3. WorldTyped'
  BY CacheAssumption DEF TypeInv, WorldTyped, Budgets, PowerFailure
<1>4. CallTyped'
  BY DEF TypeInv, CallTyped, PcTyped, PowerFailure, Remains, diskVars,
       callVars, memoryVars, worldVars
<1>5. PcTyped'
  BY DEF TypeInv, PcTyped, CallTyped, Labels, LookLabels, LockLabels,
       PowerFailure, Remains, diskVars, callVars, memoryVars, worldVars
<1>6. LockTyped'
  BY DEF TypeInv, LockTyped, LockLabels, PowerFailure, Remains, diskVars,
       callVars, memoryVars, worldVars
<1>7. BuiltTyped'
  BY DEF TypeInv, BuiltTyped, DiskTyped, LockTyped, LockLabels, PowerFailure,
       Remains, diskVars, callVars, memoryVars, worldVars
<1>q. QED  BY <1>1, <1>2, <1>3, <1>4, <1>5, <1>6, <1>7 DEF TypeInv

-----------------------------------------------------------------------------
(* From the actions to the specification.                                  *)

LEMMA InitTyped ==
  ASSUME Init
  PROVE  TypeInv /\ HistTyped
<1>1. /\ tree \in [Versions -> Slots] /\ temp \in [Procs -> Slots]
      /\ marker \in [Versions -> BOOLEAN]
  BY FolderFacts DEF Init
<1>2. DiskTyped
  BY <1>1 DEF Init, DiskTyped
<1>3. ReapTyped
  BY DEF Init, ReapTyped
<1>4. WorldTyped
  BY CacheAssumption DEF Init, WorldTyped, Budgets
<1>5. CallTyped
  BY DEF Init, CallTyped
<1>6. PcTyped /\ LockTyped /\ BuiltTyped
  BY DEF Init, PcTyped, LockTyped, BuiltTyped, Labels, LockLabels
<1>7. HistTyped
  BY DEF Init, HistTyped
<1>q. QED  BY <1>2, <1>3, <1>4, <1>5, <1>6, <1>7 DEF TypeInv

LEMMA StepTyped ==
  ASSUME TypeInv, Step
  PROVE  TypeInv'
<1>1. CASE \E p \in Procs : BeginRefresh(p) \/ BeginPath(p) \/ TakeLock(p) \/ Crash(p)
  BY <1>1, BeginRefreshTyped, BeginPathTyped, TakeLockTyped, CrashTyped
<1>2. CASE \E p \in Procs : Examine(p)
  BY <1>2, LookTyped, CheckMarkerTyped, CheckEntryTyped, WalkFailsTyped,
     ListMarkersTyped, NextCandidateTyped, ReturnTyped DEF Examine
<1>3. CASE \E p \in Procs : Materialize(p)
  BY <1>3, SweepTyped, CheckExistsTyped, ValidateEntryTyped, SyncTreeTyped,
     SyncTreeFailsTyped, SyncNameTyped, UnmarkTyped, MoveAsideTyped, StageTyped,
     FetchTyped, FetchFailsTyped, RenameTyped, SyncRenameTyped, MarkTyped,
     SyncMarkTyped DEF Materialize
<1>4. CASE \E v \in Versions : StartReaping(v) \/ ReapEntry(v) \/ StopReaping(v)
  BY <1>4, StartReapingTyped, ReapEntryTyped, StopReapingTyped
<1>5. CASE MoveRelease \/ PowerFailure
  BY <1>5, MoveReleaseTyped, PowerFailureTyped
<1>q. QED  BY <1>1, <1>2, <1>3, <1>4, <1>5 DEF Step

LEMMA RememberTyped ==
  ASSUME HistTyped, Remember
  PROVE  HistTyped'
<1>1. seen' \in [Procs -> BOOLEAN]
  BY DEF Remember
<1>2. MarkedWhole \in SUBSET Versions
  BY DEF MarkedWhole
<1>3. ASSUME NEW p \in Procs
      PROVE  steady'[p] \in SUBSET Versions
  BY <1>2 DEF HistTyped, Remember
<1>4. steady' \in [Procs -> SUBSET Versions]
  BY <1>3 DEF Remember
<1>q. QED  BY <1>1, <1>4 DEF HistTyped

LEMMA StutterTyped ==
  ASSUME TypeInv, HistTyped, UNCHANGED vars
  PROVE  TypeInv' /\ HistTyped'
<1>1. DiskTyped' /\ ReapTyped' /\ WorldTyped'
  BY DEF TypeInv, DiskTyped, ReapTyped, WorldTyped, vars, diskVars, worldVars
<1>2. CallTyped' /\ PcTyped' /\ LockTyped'
  BY DEF TypeInv, CallTyped, PcTyped, LockTyped, vars, callVars, memoryVars
<1>3. BuiltTyped' /\ HistTyped'
  BY DEF TypeInv, BuiltTyped, HistTyped, vars, diskVars, histVars
<1>q. QED  BY <1>1, <1>2, <1>3 DEF TypeInv

(* The strengthened type invariant holds in every reachable state.         *)
THEOREM CacheTypesHold == Spec => [](TypeInv /\ HistTyped)
<1>1. Init => TypeInv /\ HistTyped
  BY InitTyped
<1>2. TypeInv /\ HistTyped /\ [Next]_vars => TypeInv' /\ HistTyped'
  BY StepTyped, RememberTyped, StutterTyped DEF Next
<1>q. QED  BY <1>1, <1>2, PTL DEF Spec

(* Every variable of the cache keeps its type and the host lock has one    *)
(* holder, whatever the processes, Airflow's cleanups, crashes and power   *)
(* failures do.                                                            *)
THEOREM CacheTypeCorrect == Spec => []TypeOK
<1>1. TypeInv /\ HistTyped => TypeOK
  BY DEF TypeInv, HistTyped, DiskTyped, ReapTyped, WorldTyped, CallTyped,
     PcTyped, LockTyped, TypeOK
<1>q. QED  BY <1>1, CacheTypesHold, PTL

=============================================================================
