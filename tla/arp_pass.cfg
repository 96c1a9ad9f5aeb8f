\* Two addresses, a worker queue of two, two DHCP retries; the commands of one kind may fail.
SPECIFICATION FairSpec
CONSTANTS
  Addrs = {a1, a2}
  NoAddr = NoAddr
  Configs <- UnequalMasks
  MaxRetry = 2
  QueueLen = 2
  StrayPm = FALSE
INVARIANTS
  TypeOK
  DeviceStateKnown
  HostListExact
  CallbackHasTimer
PROPERTIES
  AddressTold
