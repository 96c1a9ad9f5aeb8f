\* Two threads call wait_net_suspend.
SPECIFICATION Spec
CONSTANTS
  Callers = {c1, c2}
  TxTasks = {t1}
  NoOne = NoOne
  Whd = Whd
  MaxPkts = 0
  QLen = 1
  Waits = {"finite"}
INVARIANT StackUnlockedOnReturn
