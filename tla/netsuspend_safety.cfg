\* One thread calls wait_net_suspend, with finite and infinite wait_ms; two
\* senders; as many packets as overflow the queue and one more.
SPECIFICATION Spec
CONSTANTS
  Callers = {c1}
  TxTasks = {t1, t2}
  NoOne = NoOne
  Whd = Whd
  MaxPkts = 3
  QLen = 1
  Waits = {"finite", "forever"}
SYMMETRY TxSymmetry
INVARIANTS
  TypeOK
  StackLockedThroughout
  BuffersAccounted
  DeepSleepBalanced
  DeepSleepPrepared
  DivertedOnlyWhileLocked
  OffloadsAsleepOnlyWhileLocked
  ReleasedOnReturn
  ResumeExcludesHandlers
PROPERTIES
  GateSpec
\* A call with an infinite wait_ms may wait for good once no packet is left.
CHECK_DEADLOCK FALSE
