\* A dag processor and a pinned task share one host's cache: copies are built, reaped
\* and rebuilt, one process crashes, the host loses power once.
SPECIFICATION FairSpec
CONSTANTS
  v1 = v1  v2 = v2  f1 = f1  mf = mf  follower = follower  task = task
  Procs = {follower, task}
  Versions = {v1, v2}
  Files = {f1}
  Manifest = mf
  PinOf <- OneTaskPinned
  FirstRelease = v1
  NoVersion = NoVersion  NoTree = NoTree  Nobody = Nobody
  MaxReleases = 1
  MaxReaps = 1
  MaxMishaps = 1
INVARIANTS
  TypeOK
  MarkedIsIntact
  SweepSparesBuilders
  PathFindsCopy
PROPERTIES
  ExaminedWasWhole
  CopiesHeal
