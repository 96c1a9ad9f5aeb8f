\* One caller with finite wait_ms, one sender, the fairness of the scheduler.
SPECIFICATION FairSpec
CONSTANTS
  Callers = {c1}
  TxTasks = {t1}
  NoOne = NoOne
  Whd = Whd
  MaxPkts = 2
  QLen = 1
  Waits = {"finite"}
PROPERTIES
  CallReturns
  SenderProceeds
