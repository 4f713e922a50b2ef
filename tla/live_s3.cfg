\* Progress of two replicas through lost compare-and-swap races; one of the three
\* observations is an empty tree, which is refused.
SPECIFICATION FairSpec
CONSTANTS
  a = a  b = b  c = c  v1 = v1  v2 = v2  v3 = v3  f1 = f1  f2 = f2
  i1 = i1  i2 = i2  m1 = m1  m2 = m2  r1 = r1  r2 = r2  p1 = p1  p2 = p2  s1 = s1  s2 = s2
  NoRef = NoRef  NoSource = NoSource  NoCand = NoCand  StaleToken = StaleToken
  Nobody = Nobody  NoSig = NoSig  NoVersion = NoVersion
  Versions = {v1, v2, v3}
  Files = {f1, f2}
  Inventories = {i1, i2}
  Markers = {m1, m2}
  Sigs = {a, b, c}
  Identities = {s1}
  TypeOf <- OneType
  VersionOf <- EmptiedVersion
  InventoryOf <- EveryInventory
  MarkerOf <- OneMarker
  FilesOf <- EmptiedFiles
  TracksSource = TRUE
  MarkerConfigured = FALSE
  Replicas = {r1, r2}
  Publishers = {}
  Procs = {r1, r2}
  IdentityOf <- SameSource
  Root = "s3"
  Stability = 1
  AutoPublish = TRUE
  AllowEmpty = FALSE
  MaxChanges = 1
  MaxCrashes = 0
  MaxFaults = 1
PROPERTIES
  Converges
