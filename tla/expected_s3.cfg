\* --expected-current-version on an S3 root: two publishers, each with a checkout
\* of its own.
SPECIFICATION Spec
CONSTANTS
  a = a  b = b  c = c  v1 = v1  v2 = v2  v3 = v3  f1 = f1  f2 = f2
  i1 = i1  i2 = i2  m1 = m1  m2 = m2  r1 = r1  r2 = r2  p1 = p1  p2 = p2  s1 = s1  s2 = s2
  NoRef = NoRef  NoSource = NoSource  NoCand = NoCand  StaleToken = StaleToken
  Nobody = Nobody  NoSig = NoSig  NoVersion = NoVersion
  Versions = {v1, v2}
  Files = {f1, f2}
  Inventories = {i1, i2}
  Markers = {m1, m2}
  Sigs = {a, b}
  Identities = {s1, s2}
  TypeOf <- OneType
  VersionOf <- ContentVersion
  InventoryOf <- EveryInventory
  MarkerOf <- OneMarker
  FilesOf <- ContentFiles
  TracksSource = FALSE
  MarkerConfigured = FALSE
  Replicas = {r1}
  Publishers = {p1, p2}
  Procs = {r1, p1, p2}
  IdentityOf <- TwoSources
  Root = "s3"
  Stability = 0
  AutoPublish = FALSE
  AllowEmpty = FALSE
  MaxChanges = 0
  MaxCrashes = 0
  MaxFaults = 0
PROPERTIES
  ExpectedVersionRespected
