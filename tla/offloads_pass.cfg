SPECIFICATION Spec
CONSTANTS
  Configs <- SomeConfigs
  HandlerSlots = 2
  Conns = {c1, c2}
  NoConn = NoConn
  SeqWrap = 3
  MaxTko = 2
  Frames <- SomeFrames
  Addresses = {a1, a2}
  NoAddress = NoAddress
  NatConfigs = {n1, n2}
  Invalid = Invalid
  Segments <- SomeSegments
  Datagrams <- SomeDatagrams
  c1 = c1
  c2 = c2
  n1 = n1
  n2 = n2
CONSTRAINTS Bounded FewPackets
INVARIANTS
  TypeOK SocketsOwned KeepalivesLive TkoStoppedAwake SessionInStep ResetIffWakeEvent
  ProtectionReleased WakesExactly PatternsGone NatFollowsAddress NatGoneAfterDeinit
  StackConsistent ChecksumsVerify
PROPERTY HandlersKept
