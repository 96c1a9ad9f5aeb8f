\* The same features awake and asleep.
SPECIFICATION Spec
CONSTANTS
  Addrs = {a1}
  NoAddr = NoAddr
  Configs <- EqualMasks
  MaxRetry = 3
  QueueLen = 2
  StrayPm = FALSE
INVARIANT SleepMaskObeyed
