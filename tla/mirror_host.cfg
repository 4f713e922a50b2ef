\* Two processes of one host publish from an object store through one mirror, while up
\* to two deployments write the source; one process dies or the host loses power.
SPECIFICATION FairSpec
CONSTANTS
  p1 = p1  p2 = p2  a = a  b = b
  Procs = {p1, p2}
  KeyCount = 2
  Contents = {a, b}
  FirstBytes = a
  Setups <- TwoSetups
  Absent = Absent  Garbage = Garbage  NoState = NoState
  NoRef = NoRef  NoConf = NoConf  Nobody = Nobody
  MaxDeployments = 2
  MaxWrites = 2
  MaxMishaps = 1
INVARIANTS
  TypeOK
  PublishedIsObserved
  CommittedIsWhole
  ReleasedWasDeployed
PROPERTIES
  ReleasedWasCurrent
  SourceIsReleased
