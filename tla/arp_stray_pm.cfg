\* A power state is dispatched after deinit: the stack resumes after the link is lost.
SPECIFICATION Spec
CONSTANTS
  Addrs = {a1}
  NoAddr = NoAddr
  Configs <- UnequalMasks
  MaxRetry = 3
  QueueLen = 2
  StrayPm = TRUE
INVARIANT QuietAfterDeinit
