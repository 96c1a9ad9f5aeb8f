\* Three offloads in lists that overlap.
SPECIFICATION Spec
CONSTANTS
  o1 = o1
  o2 = o2
  o3 = o3
  Offloads = {o1, o2, o3}
  Lists <- SomeLists
  NoList = NoList
INVARIANTS
  TypeOK
  AllOrNothing
  WorkerWhileUp
  ConfiguredBeforeUp
  Pm2Restored
  AwakeReachesAll
