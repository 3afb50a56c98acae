SPECIFICATION FairSpec
CONSTANTS
  oa = oa
  ob = ob
  oc = oc
  int = int
  OldObj = {oa, ob, oc}
  Outside = {out}
  SmallInt = {int}
  Null = Null
  Junk = Junk
  Stale = {7}
  BytesPerWord = 2
  SpaceWords = 10
  RootCount = 2
  Request = 3
  InitHeaps <- MCHeaps
  InitRoots <- MCRoots
INVARIANTS
  TypeOK
  GraphPreserved
  ExactlyLive
  NoOldPointer
  NoOverlap
  CopiesFit
  StaleCaught
PROPERTIES
  ForwardingStable
  Terminates
CHECK_DEADLOCK FALSE
