\* One caller and one sender: is an activity signalled after the lock answered?
SPECIFICATION Spec
CONSTANTS
  Callers = {c1}
  TxTasks = {t1}
  NoOne = NoOne
  Whd = Whd
  MaxPkts = 1
  QLen = 1
  Waits = {"finite"}
INVARIANT WakeupKept
