\* Two publishers of a folder that is written to twice; crashes and power failures.
SPECIFICATION FairSpec
CONSTANTS
  p1 = p1  p2 = p2  a = a  b = b
  Publishers = {p1, p2}
  Commands = {p2}
  FileCount = 2
  FirstBytes = a
  Contents = {a, b}
  Absent = Absent  NoVersion = NoVersion  NoTemp = NoTemp  Nobody = Nobody
  MaxWrites = 2
  MaxMishaps = 2
INVARIANTS
  TypeOK
  NamesMeanContent
  ReferenceIsWhole
  StagingSurvives
PROPERTIES
  PublishedWasPresent
  ReleasedWasCurrent
  ReleaseCatchesUp
