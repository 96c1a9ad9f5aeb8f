\* One caller, one packet: is the rx queue empty after the call?
SPECIFICATION Spec
CONSTANTS
  Callers = {c1}
  TxTasks = {t1}
  NoOne = NoOne
  Whd = Whd
  MaxPkts = 1
  QLen = 1
  Waits = {"finite"}
INVARIANT AllQueuedPushed
