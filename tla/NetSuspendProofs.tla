-------------------------- MODULE NetSuspendProofs --------------------------
(***************************************************************************)
(* Theorems about NetSuspend, for every value of its constants.            *)
(***************************************************************************)
EXTENDS NetSuspend, FiniteSetTheorems, SequenceTheorems, TLAPS

AsleepPoints == {"idle", "wait", "getMutex", "lockDs"}

\* The callers that hold the deep-sleep lock are finitely many, so that they can be counted.
LEMMA AwakeCallersFinite == IsFiniteSet(AwakeCallers)
  BY ConstAssumption, FS_Subset DEF AwakeCallers

\* A caller that stays on its side leaves the set of awake callers alone.
LEMMA AwakeSame ==
  ASSUME CallerType, NEW c \in Callers, NEW from, NEW to, Goto(c, from, to),
         from \in AsleepPoints <=> to \in AsleepPoints
  PROVE  AwakeCallers' = AwakeCallers
BY DEF AwakeCallers, AsleepPoints, Goto, CallerType

\* A caller that crosses over joins or leaves it.
LEMMA AwakeJoins ==
  ASSUME CallerType, NEW c \in Callers, NEW from, NEW to, Goto(c, from, to),
         from \in AsleepPoints, to \notin AsleepPoints
  PROVE  Cardinality(AwakeCallers') = Cardinality(AwakeCallers) + 1
<1>1. AwakeCallers' = AwakeCallers \cup {c}
  BY DEF AwakeCallers, AsleepPoints, Goto, CallerType
<1>2. c \notin AwakeCallers
  BY DEF AwakeCallers, AsleepPoints, Goto
<1>3. QED
  BY <1>1, <1>2, AwakeCallersFinite, FS_AddElement

\* A caller that crosses over in the other direction leaves it.
LEMMA AwakeLeaves ==
  ASSUME CallerType, NEW c \in Callers, NEW from, NEW to, Goto(c, from, to),
         from \notin AsleepPoints, to \in AsleepPoints
  PROVE  Cardinality(AwakeCallers') = Cardinality(AwakeCallers) - 1
<1>1. AwakeCallers' = AwakeCallers \ {c}
  BY DEF AwakeCallers, AsleepPoints, Goto, CallerType
<1>2. c \in AwakeCallers
  BY DEF AwakeCallers, AsleepPoints, Goto
<1>3. QED
  BY <1>1, <1>2, AwakeCallersFinite, FS_RemoveElement

\* Each step changes the count as it changes the set.
LEMMA BalancedStep ==
  ASSUME TypeOK, DeepSleepBalanced, [Next]_vars
  PROVE  DeepSleepBalanced'
<1>t. CallerType
  BY DEF TypeOK
<1>1. ASSUME NEW c \in Callers, CallNotConnected(c) PROVE DeepSleepBalanced'
  BY <1>1, <1>t, AwakeSame DEF CallNotConnected, AsleepPoints,
     DeepSleepBalanced, sync
<1>2. ASSUME NEW c \in Callers, CallBadArgs(c) PROVE DeepSleepBalanced'
  BY <1>2, <1>t, AwakeJoins DEF CallBadArgs, AsleepPoints, DeepSleepBalanced,
     sync
<1>3. ASSUME NEW c \in Callers, Call(c) PROVE DeepSleepBalanced'
  BY <1>3, <1>t, AwakeJoins DEF Call, AsleepPoints, DeepSleepBalanced, sync
<1>4. ASSUME NEW c \in Callers, MonitorActivity(c) PROVE DeepSleepBalanced'
  BY <1>4, <1>t, AwakeSame DEF MonitorActivity, AsleepPoints,
     DeepSleepBalanced, sync
<1>5. ASSUME NEW c \in Callers, SuspendCheck(c) PROVE DeepSleepBalanced'
  BY <1>5, <1>t, AwakeSame DEF SuspendCheck, AsleepPoints, DeepSleepBalanced,
     sync
<1>6. ASSUME NEW c \in Callers, SuspendLock(c) PROVE DeepSleepBalanced'
  BY <1>6, <1>t, AwakeSame DEF SuspendLock, AsleepPoints, DeepSleepBalanced,
     sync
<1>7. ASSUME NEW c \in Callers, SuspendFlag(c) PROVE DeepSleepBalanced'
  BY <1>7, <1>t, AwakeSame DEF SuspendFlag, AsleepPoints, DeepSleepBalanced,
     sync
<1>8. ASSUME NEW c \in Callers, Divert(c) PROVE DeepSleepBalanced'
  BY <1>8, <1>t, AwakeSame DEF Divert, AsleepPoints, DeepSleepBalanced, sync
<1>9. ASSUME NEW c \in Callers, NotifySuspended(c) PROVE DeepSleepBalanced'
  BY <1>9, <1>t, AwakeSame DEF NotifySuspended, AsleepPoints,
     DeepSleepBalanced, sync
<1>10. ASSUME NEW c \in Callers, ClearEvents(c) PROVE DeepSleepBalanced'
  BY <1>10, <1>t, AwakeSame DEF ClearEvents, AsleepPoints, DeepSleepBalanced,
     sync
<1>11. ASSUME NEW c \in Callers, DispatchSleep(c) PROVE DeepSleepBalanced'
  BY <1>11, <1>t, AwakeSame DEF DispatchSleep, AsleepPoints,
     DeepSleepBalanced, sync
<1>12. ASSUME NEW c \in Callers, UnlockDeepSleep(c) PROVE DeepSleepBalanced'
  BY <1>12, <1>t, AwakeLeaves DEF UnlockDeepSleep, AsleepPoints,
     DeepSleepBalanced, sync
<1>13. ASSUME NEW c \in Callers, WakeActivity(c) PROVE DeepSleepBalanced'
  BY <1>13, <1>t, AwakeSame DEF WakeActivity, AsleepPoints,
     DeepSleepBalanced, sync
<1>14. ASSUME NEW c \in Callers, WakeTimeout(c) PROVE DeepSleepBalanced'
  BY <1>14, <1>t, AwakeSame DEF WakeTimeout, AsleepPoints, DeepSleepBalanced,
     sync
<1>15. ASSUME NEW c \in Callers, GetMutex(c) PROVE DeepSleepBalanced'
  BY <1>15, <1>t, AwakeSame DEF GetMutex, AsleepPoints, DeepSleepBalanced, sync
<1>16. ASSUME NEW c \in Callers, LockDeepSleep(c) PROVE DeepSleepBalanced'
  BY <1>16, <1>t, AwakeJoins DEF LockDeepSleep, AsleepPoints,
     DeepSleepBalanced, sync
<1>17. ASSUME NEW c \in Callers, DispatchAwake(c) PROVE DeepSleepBalanced'
  BY <1>17, <1>t, AwakeSame DEF DispatchAwake, AsleepPoints,
     DeepSleepBalanced, sync
<1>18. ASSUME NEW c \in Callers, Undivert(c) PROVE DeepSleepBalanced'
  BY <1>18, <1>t, AwakeSame DEF Undivert, AsleepPoints, DeepSleepBalanced, sync
<1>19. ASSUME NEW c \in Callers, DrainOne(c) PROVE DeepSleepBalanced'
  BY <1>19, <1>t, AwakeSame DEF DrainOne, AsleepPoints, DeepSleepBalanced, sync
<1>20. ASSUME NEW c \in Callers, ResumeCheck(c) PROVE DeepSleepBalanced'
  BY <1>20, <1>t, AwakeSame DEF ResumeCheck, AsleepPoints, DeepSleepBalanced,
     sync
<1>21. ASSUME NEW c \in Callers, ResumeUnlock(c) PROVE DeepSleepBalanced'
  BY <1>21, <1>t, AwakeSame DEF ResumeUnlock, AsleepPoints,
     DeepSleepBalanced, sync
<1>22. ASSUME NEW c \in Callers, ResumeFlag(c) PROVE DeepSleepBalanced'
  BY <1>22, <1>t, AwakeSame DEF ResumeFlag, AsleepPoints, DeepSleepBalanced,
     sync
<1>23. ASSUME NEW c \in Callers, PutMutex(c) PROVE DeepSleepBalanced'
  BY <1>23, <1>t, AwakeSame DEF PutMutex, AsleepPoints, DeepSleepBalanced, sync
<1>24. ASSUME NEW c \in Callers, Exit(c) PROVE DeepSleepBalanced'
  BY <1>24, <1>t, AwakeLeaves DEF Exit, AsleepPoints, DeepSleepBalanced, sync
<1>25. ASSUME UNCHANGED <<pc, dsLocks>> PROVE DeepSleepBalanced'
  BY <1>25 DEF DeepSleepBalanced, AwakeCallers
<1>26. ASSUME WhdNext PROVE DeepSleepBalanced'
  BY <1>26, <1>25 DEF WhdNext, RxStep, EventStep, RxArrives, RxRoute,
     RxActivity, RxInput, EventArrives, EventLock, EventHandler, EventUnlock,
     sync
<1>27. ASSUME NEW t \in TxTasks, TxNext(t) PROVE DeepSleepBalanced'
  BY <1>27, <1>25 DEF TxNext, TxNotify, TxLock, TxUnlock, sync
<1>q. QED
  BY <1>1, <1>2, <1>3, <1>4, <1>5, <1>6, <1>7, <1>8, <1>9, <1>10, <1>11,
     <1>12, <1>13, <1>14, <1>15, <1>16, <1>17, <1>18, <1>19, <1>20, <1>21,
     <1>22, <1>23, <1>24, <1>25, <1>26, <1>27 DEF Next, CallerNext,
     CallerStep, vars, sync

-----------------------------------------------------------------------------
(* The core lock                                                           *)

\* The core lock stays with the caller from the suspension to the resumption.
LEMMA LockStep ==
  ASSUME TypeOK, StackLockedThroughout, [Next]_vars
  PROVE  StackLockedThroughout'
<1> USE ConstAssumption DEF StackLockedThroughout, Suspending, Resuming
<1>t. CallerType /\ tx \in [TxTasks -> {"idle", "blocked", "sending"}]
  BY DEF TypeOK, ThreadType
<1>1. ASSUME NEW c \in Callers, CallNotConnected(c) PROVE StackLockedThroughout'
  BY <1>1, <1>t DEF CallNotConnected, Goto, CallerType, stack, threads
<1>2. ASSUME NEW c \in Callers, CallBadArgs(c) PROVE StackLockedThroughout'
  BY <1>2, <1>t DEF CallBadArgs, Goto, CallerType, stack, threads
<1>3. ASSUME NEW c \in Callers, Call(c) PROVE StackLockedThroughout'
  BY <1>3, <1>t DEF Call, Goto, CallerType, stack, threads
<1>4. ASSUME NEW c \in Callers, MonitorActivity(c) PROVE StackLockedThroughout'
  BY <1>4, <1>t DEF MonitorActivity, Goto, CallerType, stack, threads
<1>5. ASSUME NEW c \in Callers, SuspendCheck(c) PROVE StackLockedThroughout'
  BY <1>5, <1>t DEF SuspendCheck, Goto, CallerType, stack, threads
<1>6. ASSUME NEW c \in Callers, SuspendLock(c) PROVE StackLockedThroughout'
  BY <1>6, <1>t DEF SuspendLock, Goto, CallerType, stack, threads
<1>7. ASSUME NEW c \in Callers, SuspendFlag(c) PROVE StackLockedThroughout'
  BY <1>7, <1>t DEF SuspendFlag, Goto, CallerType, stack, threads
<1>8. ASSUME NEW c \in Callers, Divert(c) PROVE StackLockedThroughout'
  BY <1>8, <1>t DEF Divert, Goto, CallerType, stack, threads
<1>9. ASSUME NEW c \in Callers, NotifySuspended(c) PROVE StackLockedThroughout'
  BY <1>9, <1>t DEF NotifySuspended, Goto, CallerType, stack, threads
<1>10. ASSUME NEW c \in Callers, ClearEvents(c) PROVE StackLockedThroughout'
  BY <1>10, <1>t DEF ClearEvents, Goto, CallerType, stack, threads
<1>11. ASSUME NEW c \in Callers, DispatchSleep(c) PROVE StackLockedThroughout'
  BY <1>11, <1>t DEF DispatchSleep, Goto, CallerType, stack, threads
<1>12. ASSUME NEW c \in Callers, UnlockDeepSleep(c) PROVE StackLockedThroughout'
  BY <1>12, <1>t DEF UnlockDeepSleep, Goto, CallerType, stack, threads
<1>13. ASSUME NEW c \in Callers, WakeActivity(c) PROVE StackLockedThroughout'
  BY <1>13, <1>t DEF WakeActivity, Goto, CallerType, stack, threads
<1>14. ASSUME NEW c \in Callers, WakeTimeout(c) PROVE StackLockedThroughout'
  BY <1>14, <1>t DEF WakeTimeout, Goto, CallerType, stack, threads
<1>15. ASSUME NEW c \in Callers, GetMutex(c) PROVE StackLockedThroughout'
  BY <1>15, <1>t DEF GetMutex, Goto, CallerType, stack, threads
<1>16. ASSUME NEW c \in Callers, LockDeepSleep(c) PROVE StackLockedThroughout'
  BY <1>16, <1>t DEF LockDeepSleep, Goto, CallerType, stack, threads
<1>17. ASSUME NEW c \in Callers, DispatchAwake(c) PROVE StackLockedThroughout'
  BY <1>17, <1>t DEF DispatchAwake, Goto, CallerType, stack, threads
<1>18. ASSUME NEW c \in Callers, Undivert(c) PROVE StackLockedThroughout'
  BY <1>18, <1>t DEF Undivert, Goto, CallerType, stack, threads
<1>19. ASSUME NEW c \in Callers, DrainOne(c) PROVE StackLockedThroughout'
  BY <1>19, <1>t DEF DrainOne, Goto, CallerType, stack, threads
<1>20. ASSUME NEW c \in Callers, ResumeCheck(c) PROVE StackLockedThroughout'
  BY <1>20, <1>t DEF ResumeCheck, Goto, CallerType, stack, threads
<1>21. ASSUME NEW c \in Callers, ResumeUnlock(c) PROVE StackLockedThroughout'
  BY <1>21, <1>t DEF ResumeUnlock, Goto, CallerType, stack, threads
<1>22. ASSUME NEW c \in Callers, ResumeFlag(c) PROVE StackLockedThroughout'
  BY <1>22, <1>t DEF ResumeFlag, Goto, CallerType, stack, threads
<1>23. ASSUME NEW c \in Callers, PutMutex(c) PROVE StackLockedThroughout'
  BY <1>23, <1>t DEF PutMutex, Goto, CallerType, stack, threads
<1>24. ASSUME NEW c \in Callers, Exit(c) PROVE StackLockedThroughout'
  BY <1>24, <1>t DEF Exit, Goto, CallerType, stack, threads
<1>25. ASSUME UNCHANGED <<pc, core, tx>> PROVE StackLockedThroughout'
  BY <1>25
<1>26. ASSUME WhdNext PROVE StackLockedThroughout'
  BY <1>26, <1>25 DEF WhdNext, RxStep, EventStep, RxArrives, RxRoute,
     RxActivity, RxInput, EventArrives, EventLock, EventHandler, EventUnlock,
     stack
<1>27. ASSUME NEW t \in TxTasks, TxNotify(t) PROVE StackLockedThroughout'
  BY <1>27, <1>t DEF TxNotify, TxGoto, stack
<1>28. ASSUME NEW t \in TxTasks, TxLock(t) PROVE StackLockedThroughout'
  BY <1>28, <1>t DEF TxLock, TxGoto, stack
<1>29. ASSUME NEW t \in TxTasks, TxUnlock(t) PROVE StackLockedThroughout'
  BY <1>29, <1>t DEF TxUnlock, TxGoto, stack
<1>q. QED
  BY <1>1, <1>2, <1>3, <1>4, <1>5, <1>6, <1>7, <1>8, <1>9, <1>10, <1>11,
     <1>12, <1>13, <1>14, <1>15, <1>16, <1>17, <1>18, <1>19, <1>20, <1>21,
     <1>22, <1>23, <1>24, <1>25, <1>26, <1>27, <1>28, <1>29 DEF Next,
     CallerNext, CallerStep, TxNext, vars, stack, threads

-----------------------------------------------------------------------------
(* Types                                                                   *)

\* Every step keeps a caller at a point of wait_net_suspend, with a result to return.
LEMMA CallerTypeStep ==
  ASSUME TypeOK, [Next]_vars
  PROVE  CallerType'
<1> USE DEF TypeOK, CallerType, Goto, Return, Points, Suspending, Resuming, Rets
<1>1. ASSUME NEW c \in Callers, CallNotConnected(c) PROVE CallerType'
  BY <1>1 DEF CallNotConnected, local
<1>2. ASSUME NEW c \in Callers, CallBadArgs(c) PROVE CallerType'
  BY <1>2 DEF CallBadArgs, local
<1>3. ASSUME NEW c \in Callers, Call(c) PROVE CallerType'
  BY <1>3, ConstAssumption DEF Call, local
<1>4. ASSUME NEW c \in Callers, MonitorActivity(c) PROVE CallerType'
  BY <1>4 DEF MonitorActivity, local
<1>5. ASSUME NEW c \in Callers, SuspendCheck(c) PROVE CallerType'
  BY <1>5 DEF SuspendCheck, local
<1>6. ASSUME NEW c \in Callers, SuspendLock(c) PROVE CallerType'
  BY <1>6 DEF SuspendLock, local
<1>7. ASSUME NEW c \in Callers, SuspendFlag(c) PROVE CallerType'
  BY <1>7 DEF SuspendFlag, local
<1>8. ASSUME NEW c \in Callers, Divert(c) PROVE CallerType'
  BY <1>8 DEF Divert, local
<1>9. ASSUME NEW c \in Callers, NotifySuspended(c) PROVE CallerType'
  BY <1>9 DEF NotifySuspended, local
<1>10. ASSUME NEW c \in Callers, ClearEvents(c) PROVE CallerType'
  BY <1>10 DEF ClearEvents, local
<1>11. ASSUME NEW c \in Callers, DispatchSleep(c) PROVE CallerType'
  BY <1>11 DEF DispatchSleep, local
<1>12. ASSUME NEW c \in Callers, UnlockDeepSleep(c) PROVE CallerType'
  BY <1>12 DEF UnlockDeepSleep, local
<1>13. ASSUME NEW c \in Callers, WakeActivity(c) PROVE CallerType'
  BY <1>13 DEF WakeActivity, local
<1>14. ASSUME NEW c \in Callers, WakeTimeout(c) PROVE CallerType'
  BY <1>14 DEF WakeTimeout, local
<1>15. ASSUME NEW c \in Callers, GetMutex(c) PROVE CallerType'
  BY <1>15 DEF GetMutex, local
<1>16. ASSUME NEW c \in Callers, LockDeepSleep(c) PROVE CallerType'
  BY <1>16 DEF LockDeepSleep, local
<1>17. ASSUME NEW c \in Callers, DispatchAwake(c) PROVE CallerType'
  BY <1>17 DEF DispatchAwake, local
<1>18. ASSUME NEW c \in Callers, Undivert(c) PROVE CallerType'
  BY <1>18 DEF Undivert, local
<1>19. ASSUME NEW c \in Callers, DrainOne(c) PROVE CallerType'
  BY <1>19 DEF DrainOne, local
<1>20. ASSUME NEW c \in Callers, ResumeCheck(c) PROVE CallerType'
  BY <1>20 DEF ResumeCheck, local
<1>21. ASSUME NEW c \in Callers, ResumeUnlock(c) PROVE CallerType'
  BY <1>21 DEF ResumeUnlock, local
<1>22. ASSUME NEW c \in Callers, ResumeFlag(c) PROVE CallerType'
  BY <1>22 DEF ResumeFlag, local
<1>23. ASSUME NEW c \in Callers, PutMutex(c) PROVE CallerType'
  BY <1>23 DEF PutMutex, local
<1>24. ASSUME NEW c \in Callers, Exit(c) PROVE CallerType'
  BY <1>24 DEF Exit, local
<1>25. ASSUME UNCHANGED <<pc, local>> PROVE CallerType'
  BY <1>25 DEF local
<1>26. ASSUME WhdNext PROVE CallerType'
  BY <1>26, <1>25 DEF WhdNext, RxStep, EventStep, RxArrives, RxRoute,
     RxActivity, RxInput, EventArrives, EventLock, EventHandler, EventUnlock
<1>27. ASSUME NEW t \in TxTasks, TxNext(t) PROVE CallerType'
  BY <1>27, <1>25 DEF TxNext, TxNotify, TxLock, TxUnlock
<1>q. QED
  BY <1>1, <1>2, <1>3, <1>4, <1>5, <1>6, <1>7, <1>8, <1>9, <1>10, <1>11,
     <1>12, <1>13, <1>14, <1>15, <1>16, <1>17, <1>18, <1>19, <1>20, <1>21,
     <1>22, <1>23, <1>24, <1>25, <1>26, <1>27 DEF Next, CallerNext,
     CallerStep, vars

\* Every step keeps the event group to its flags.
LEMMA BitsTypeStep ==
  ASSUME BitsType, [Next]_vars
  PROVE  BitsType'
<1> USE DEF BitsType, Flags, OnEmacActivity
<1>1. ASSUME NEW c \in Callers, Call(c) PROVE BitsType'
  BY <1>1 DEF Call
<1>2. ASSUME NEW c \in Callers, MonitorActivity(c) PROVE BitsType'
  BY <1>2 DEF MonitorActivity
<1>3. ASSUME NEW c \in Callers, SuspendLock(c) PROVE BitsType'
  BY <1>3 DEF SuspendLock
<1>4. ASSUME NEW c \in Callers, ClearEvents(c) PROVE BitsType'
  BY <1>4 DEF ClearEvents
<1>5. ASSUME NEW c \in Callers, WakeActivity(c) PROVE BitsType'
  BY <1>5 DEF WakeActivity
<1>6. ASSUME NEW c \in Callers, WakeTimeout(c) PROVE BitsType'
  BY <1>6 DEF WakeTimeout
<1>7. ASSUME RxArrives PROVE BitsType'
  BY <1>7 DEF RxArrives
<1>8. ASSUME EventHandler PROVE BitsType'
  BY <1>8 DEF EventHandler
<1>9. ASSUME NEW t \in TxTasks, TxNotify(t) PROVE BitsType'
  BY <1>9 DEF TxNotify
<1>10. ASSUME UNCHANGED bits PROVE BitsType'
  BY <1>10 DEF bits
<1>11. ASSUME NEW c \in Callers,
          CallNotConnected(c) \/ CallBadArgs(c) \/ SuspendCheck(c) \/
          SuspendFlag(c) \/ Divert(c) \/ NotifySuspended(c) \/
          DispatchSleep(c) \/ UnlockDeepSleep(c) \/ GetMutex(c) \/
          LockDeepSleep(c) \/ DispatchAwake(c) \/ Undivert(c) \/ DrainOne(c)
          \/ ResumeCheck(c) \/ ResumeUnlock(c) \/ ResumeFlag(c) \/ PutMutex(c)
          \/ Exit(c)
   PROVE BitsType'
  BY <1>11, <1>10 DEF CallNotConnected, CallBadArgs, SuspendCheck,
     SuspendFlag, Divert, NotifySuspended, DispatchSleep, UnlockDeepSleep,
     GetMutex, LockDeepSleep, DispatchAwake, Undivert, DrainOne, ResumeCheck,
     ResumeUnlock, ResumeFlag, PutMutex, Exit, Goto, bits
<1>12. ASSUME RxRoute \/ RxActivity \/ RxInput \/ EventArrives \/ EventLock \/ EventUnlock PROVE BitsType'
  BY <1>12, <1>10 DEF RxRoute, RxActivity, RxInput, EventArrives, EventLock,
     EventUnlock, bits
<1>13. ASSUME NEW t \in TxTasks, TxLock(t) \/ TxUnlock(t) PROVE BitsType'
  BY <1>13, <1>10 DEF TxLock, TxUnlock, bits
<1>q. QED
  BY <1>1, <1>2, <1>3, <1>4, <1>5, <1>6, <1>7, <1>8, <1>9, <1>10, <1>11,
     <1>12, <1>13
  DEF Next, CallerNext, CallerStep, WhdNext, RxStep, EventStep, TxNext, vars

\* Every step keeps the types of the suspension flag, the callback and the core lock.
LEMMA StackTypeStep ==
  ASSUME StackType, [Next]_vars
  PROVE  StackType'
<1> USE DEF StackType
<1>1. ASSUME NEW c \in Callers, SuspendLock(c) PROVE StackType'
  BY <1>1 DEF SuspendLock
<1>2. ASSUME NEW c \in Callers, SuspendFlag(c) PROVE StackType'
  BY <1>2 DEF SuspendFlag
<1>3. ASSUME NEW c \in Callers, Divert(c) PROVE StackType'
  BY <1>3 DEF Divert
<1>4. ASSUME NEW c \in Callers, Undivert(c) PROVE StackType'
  BY <1>4 DEF Undivert
<1>5. ASSUME NEW c \in Callers, ResumeUnlock(c) PROVE StackType'
  BY <1>5 DEF ResumeUnlock
<1>6. ASSUME NEW c \in Callers, ResumeFlag(c) PROVE StackType'
  BY <1>6 DEF ResumeFlag
<1>7. ASSUME NEW t \in TxTasks, TxLock(t) PROVE StackType'
  BY <1>7 DEF TxLock
<1>8. ASSUME NEW t \in TxTasks, TxUnlock(t) PROVE StackType'
  BY <1>8 DEF TxUnlock
<1>9. ASSUME UNCHANGED stack PROVE StackType'
  BY <1>9 DEF stack
<1>10. ASSUME NEW c \in Callers,
          CallNotConnected(c) \/ CallBadArgs(c) \/ Call(c) \/
          MonitorActivity(c) \/ SuspendCheck(c) \/ NotifySuspended(c) \/
          ClearEvents(c) \/ DispatchSleep(c) \/ UnlockDeepSleep(c) \/
          WakeActivity(c) \/ WakeTimeout(c) \/ GetMutex(c) \/ LockDeepSleep(c)
          \/ DispatchAwake(c) \/ DrainOne(c) \/ ResumeCheck(c) \/ PutMutex(c)
          \/ Exit(c)
   PROVE StackType'
  BY <1>10, <1>9 DEF CallNotConnected, CallBadArgs, Call, MonitorActivity,
     SuspendCheck, NotifySuspended, ClearEvents, DispatchSleep,
     UnlockDeepSleep, WakeActivity, WakeTimeout, GetMutex, LockDeepSleep,
     DispatchAwake, DrainOne, ResumeCheck, PutMutex, Exit, Goto, stack
<1>11. ASSUME RxArrives \/ RxRoute \/ RxActivity \/ RxInput \/ EventArrives \/ EventLock \/ EventHandler \/ EventUnlock PROVE StackType'
  BY <1>11, <1>9 DEF RxArrives, RxRoute, RxActivity, RxInput, EventArrives,
     EventLock, EventHandler, EventUnlock, stack
<1>12. ASSUME NEW t \in TxTasks, TxNotify(t) PROVE StackType'
  BY <1>12, <1>9 DEF TxNotify, stack
<1>q. QED
  BY <1>1, <1>2, <1>3, <1>4, <1>5, <1>6, <1>7, <1>8, <1>9, <1>10, <1>11, <1>12
  DEF Next, CallerNext, CallerStep, WhdNext, RxStep, EventStep, TxNext, vars

\* Every step keeps the mutex with one owner and the deep-sleep count a natural
\* number; for the count this is that it is the number of callers awake.
LEMMA SyncTypeStep ==
  ASSUME SyncType, DeepSleepBalanced', [Next]_vars
  PROVE  SyncType'
<1> USE DEF SyncType
<1>f. IsFiniteSet(AwakeCallers')
  BY ConstAssumption, FS_Subset DEF AwakeCallers
<1>d. dsLocks' \in Nat
  BY <1>f, FS_CardinalityType DEF DeepSleepBalanced
<1>1. ASSUME NEW c \in Callers, CallBadArgs(c) PROVE SyncType'
  BY <1>1, <1>d DEF CallBadArgs
<1>2. ASSUME NEW c \in Callers, Call(c) PROVE SyncType'
  BY <1>2, <1>d DEF Call
<1>3. ASSUME NEW c \in Callers, UnlockDeepSleep(c) PROVE SyncType'
  BY <1>3, <1>d DEF UnlockDeepSleep
<1>4. ASSUME NEW c \in Callers, GetMutex(c) PROVE SyncType'
  BY <1>4, <1>d DEF GetMutex
<1>5. ASSUME NEW c \in Callers, LockDeepSleep(c) PROVE SyncType'
  BY <1>5, <1>d DEF LockDeepSleep
<1>6. ASSUME NEW c \in Callers, PutMutex(c) PROVE SyncType'
  BY <1>6, <1>d DEF PutMutex
<1>7. ASSUME NEW c \in Callers, Exit(c) PROVE SyncType'
  BY <1>7, <1>d DEF Exit
<1>8. ASSUME EventLock PROVE SyncType'
  BY <1>8, <1>d DEF EventLock
<1>9. ASSUME EventUnlock PROVE SyncType'
  BY <1>9, <1>d DEF EventUnlock
<1>10. ASSUME UNCHANGED sync PROVE SyncType'
  BY <1>10 DEF sync
<1>11. ASSUME NEW c \in Callers,
          CallNotConnected(c) \/ MonitorActivity(c) \/ SuspendCheck(c) \/
          SuspendLock(c) \/ SuspendFlag(c) \/ Divert(c) \/ NotifySuspended(c)
          \/ ClearEvents(c) \/ DispatchSleep(c) \/ WakeActivity(c) \/
          WakeTimeout(c) \/ DispatchAwake(c) \/ Undivert(c) \/ DrainOne(c) \/
          ResumeCheck(c) \/ ResumeUnlock(c) \/ ResumeFlag(c)
   PROVE SyncType'
  BY <1>11, <1>10 DEF CallNotConnected, MonitorActivity, SuspendCheck,
     SuspendLock, SuspendFlag, Divert, NotifySuspended, ClearEvents,
     DispatchSleep, WakeActivity, WakeTimeout, DispatchAwake, Undivert,
     DrainOne, ResumeCheck, ResumeUnlock, ResumeFlag, Goto, sync
<1>12. ASSUME RxArrives \/ RxRoute \/ RxActivity \/ RxInput \/ EventArrives \/ EventHandler PROVE SyncType'
  BY <1>12, <1>10 DEF RxArrives, RxRoute, RxActivity, RxInput, EventArrives,
     EventHandler, sync
<1>13. ASSUME NEW t \in TxTasks, TxNotify(t) \/ TxLock(t) \/ TxUnlock(t) PROVE SyncType'
  BY <1>13, <1>10 DEF TxNotify, TxLock, TxUnlock, sync
<1>q. QED
  BY <1>1, <1>2, <1>3, <1>4, <1>5, <1>6, <1>7, <1>8, <1>9, <1>10, <1>11,
     <1>12, <1>13
  DEF Next, CallerNext, CallerStep, WhdNext, RxStep, EventStep, TxNext, vars

\* Every step keeps what the application and the Offload Manager were told last.
LEMMA ViewTypeStep ==
  ASSUME ViewType, [Next]_vars
  PROVE  ViewType'
<1> USE DEF ViewType
<1>1. ASSUME NEW c \in Callers, NotifySuspended(c) PROVE ViewType'
  BY <1>1 DEF NotifySuspended
<1>2. ASSUME NEW c \in Callers, DispatchSleep(c) PROVE ViewType'
  BY <1>2 DEF DispatchSleep
<1>3. ASSUME NEW c \in Callers, LockDeepSleep(c) PROVE ViewType'
  BY <1>3 DEF LockDeepSleep
<1>4. ASSUME NEW c \in Callers, DispatchAwake(c) PROVE ViewType'
  BY <1>4 DEF DispatchAwake
<1>5. ASSUME UNCHANGED view PROVE ViewType'
  BY <1>5 DEF view
<1>6. ASSUME NEW c \in Callers,
          CallNotConnected(c) \/ CallBadArgs(c) \/ Call(c) \/
          MonitorActivity(c) \/ SuspendCheck(c) \/ SuspendLock(c) \/
          SuspendFlag(c) \/ Divert(c) \/ ClearEvents(c) \/ UnlockDeepSleep(c)
          \/ WakeActivity(c) \/ WakeTimeout(c) \/ GetMutex(c) \/ Undivert(c)
          \/ DrainOne(c) \/ ResumeCheck(c) \/ ResumeUnlock(c) \/ ResumeFlag(c)
          \/ PutMutex(c) \/ Exit(c)
   PROVE ViewType'
  BY <1>6, <1>5 DEF CallNotConnected, CallBadArgs, Call, MonitorActivity,
     SuspendCheck, SuspendLock, SuspendFlag, Divert, ClearEvents,
     UnlockDeepSleep, WakeActivity, WakeTimeout, GetMutex, Undivert,
     DrainOne, ResumeCheck, ResumeUnlock, ResumeFlag, PutMutex, Exit, Goto,
     view
<1>7. ASSUME RxArrives \/ RxRoute \/ RxActivity \/ RxInput \/ EventArrives \/ EventLock \/ EventHandler \/ EventUnlock PROVE ViewType'
  BY <1>7, <1>5 DEF RxArrives, RxRoute, RxActivity, RxInput, EventArrives,
     EventLock, EventHandler, EventUnlock, view
<1>8. ASSUME NEW t \in TxTasks, TxNotify(t) \/ TxLock(t) \/ TxUnlock(t) PROVE ViewType'
  BY <1>8, <1>5 DEF TxNotify, TxLock, TxUnlock, view
<1>q. QED
  BY <1>1, <1>2, <1>3, <1>4, <1>5, <1>6, <1>7, <1>8
  DEF Next, CallerNext, CallerStep, WhdNext, RxStep, EventStep, TxNext, vars

\* Every step keeps the types of WHD's thread and of the sending tasks.
LEMMA ThreadTypeStep ==
  ASSUME ThreadType, arrived \in 0 .. MaxPkts, [Next]_vars
  PROVE  ThreadType'
<1> USE ConstAssumption DEF ThreadType, WhdGoto, TxGoto, Packets
<1>1. ASSUME RxArrives PROVE ThreadType'
  BY <1>1 DEF RxArrives
<1>2. ASSUME RxRoute PROVE ThreadType'
  BY <1>2 DEF RxRoute
<1>3. ASSUME RxActivity PROVE ThreadType'
  BY <1>3 DEF RxActivity
<1>4. ASSUME RxInput PROVE ThreadType'
  BY <1>4 DEF RxInput
<1>5. ASSUME EventArrives PROVE ThreadType'
  BY <1>5 DEF EventArrives
<1>6. ASSUME EventLock PROVE ThreadType'
  BY <1>6 DEF EventLock
<1>7. ASSUME EventHandler PROVE ThreadType'
  BY <1>7 DEF EventHandler
<1>8. ASSUME EventUnlock PROVE ThreadType'
  BY <1>8 DEF EventUnlock
<1>9. ASSUME NEW t \in TxTasks, TxNotify(t) PROVE ThreadType'
  BY <1>9 DEF TxNotify
<1>10. ASSUME NEW t \in TxTasks, TxLock(t) PROVE ThreadType'
  BY <1>10 DEF TxLock
<1>11. ASSUME NEW t \in TxTasks, TxUnlock(t) PROVE ThreadType'
  BY <1>11 DEF TxUnlock
<1>12. ASSUME UNCHANGED threads PROVE ThreadType'
  BY <1>12 DEF threads
<1>13. ASSUME NEW c \in Callers,
          CallNotConnected(c) \/ CallBadArgs(c) \/ Call(c) \/
          MonitorActivity(c) \/ SuspendCheck(c) \/ SuspendLock(c) \/
          SuspendFlag(c) \/ Divert(c) \/ NotifySuspended(c) \/ ClearEvents(c)
          \/ DispatchSleep(c) \/ UnlockDeepSleep(c) \/ WakeActivity(c) \/
          WakeTimeout(c) \/ GetMutex(c) \/ LockDeepSleep(c) \/
          DispatchAwake(c) \/ Undivert(c) \/ DrainOne(c) \/ ResumeCheck(c) \/
          ResumeUnlock(c) \/ ResumeFlag(c) \/ PutMutex(c) \/ Exit(c)
   PROVE ThreadType'
  BY <1>13, <1>12 DEF CallNotConnected, CallBadArgs, Call, MonitorActivity,
     SuspendCheck, SuspendLock, SuspendFlag, Divert, NotifySuspended,
     ClearEvents, DispatchSleep, UnlockDeepSleep, WakeActivity, WakeTimeout,
     GetMutex, LockDeepSleep, DispatchAwake, Undivert, DrainOne, ResumeCheck,
     ResumeUnlock, ResumeFlag, PutMutex, Exit, Goto, threads
<1>q. QED
  BY <1>1, <1>2, <1>3, <1>4, <1>5, <1>6, <1>7, <1>8, <1>9, <1>10, <1>11,
     <1>12, <1>13
  DEF Next, CallerNext, CallerStep, WhdNext, RxStep, EventStep, TxNext, vars

\* Every step keeps the packets in the queue and in the stack among those that arrived.
LEMMA PacketTypeStep ==
  ASSUME PacketType, ThreadType, [Next]_vars
  PROVE  PacketType'
<1> USE DEF PacketType
<1>1. ASSUME NEW c \in Callers, DrainOne(c) PROVE PacketType'
  <2>1. Head(rxQueue) \in Packets /\ Tail(rxQueue) \in Seq(Packets)
    BY <1>1, HeadTailProperties DEF DrainOne
  <2>2. Append(delivered, Head(rxQueue)) \in Seq(Packets)
    BY <2>1, AppendProperties
  <2>3. QED
    BY <1>1, <2>1, <2>2 DEF DrainOne
<1>2. CASE RxArrives
  BY <1>2, ConstAssumption DEF RxArrives
<1>3. ASSUME RxActivity \/ RxInput PROVE PacketType'
  <2>1. whd.pkt \in Packets
    BY <1>3 DEF RxActivity, RxInput, WhdGoto, ThreadType
  <2>2. /\ Append(rxQueue, whd.pkt) \in Seq(Packets)
        /\ Append(delivered, whd.pkt) \in Seq(Packets)
    BY <2>1, AppendProperties
  <2>3. QED
    BY <1>3, <2>1, <2>2 DEF RxActivity, RxInput
<1>4. ASSUME UNCHANGED packets PROVE PacketType'
  BY <1>4 DEF packets
<1>5. ASSUME NEW c \in Callers,
          CallNotConnected(c) \/ CallBadArgs(c) \/ Call(c) \/
          MonitorActivity(c) \/ SuspendCheck(c) \/ SuspendLock(c) \/
          SuspendFlag(c) \/ Divert(c) \/ NotifySuspended(c) \/ ClearEvents(c)
          \/ DispatchSleep(c) \/ UnlockDeepSleep(c) \/ WakeActivity(c) \/
          WakeTimeout(c) \/ GetMutex(c) \/ LockDeepSleep(c) \/
          DispatchAwake(c) \/ Undivert(c) \/ ResumeCheck(c) \/ ResumeUnlock(c)
          \/ ResumeFlag(c) \/ PutMutex(c) \/ Exit(c)
   PROVE PacketType'
  BY <1>5, <1>4 DEF CallNotConnected, CallBadArgs, Call, MonitorActivity,
     SuspendCheck, SuspendLock, SuspendFlag, Divert, NotifySuspended,
     ClearEvents, DispatchSleep, UnlockDeepSleep, WakeActivity, WakeTimeout,
     GetMutex, LockDeepSleep, DispatchAwake, Undivert, ResumeCheck,
     ResumeUnlock, ResumeFlag, PutMutex, Exit, Goto, packets
<1>6. ASSUME RxRoute \/ EventArrives \/ EventLock \/ EventHandler \/ EventUnlock PROVE PacketType'
  BY <1>6, <1>4 DEF RxRoute, EventArrives, EventLock, EventHandler,
     EventUnlock, packets
<1>7. ASSUME NEW t \in TxTasks, TxNext(t) PROVE PacketType'
  BY <1>7, <1>4 DEF TxNext, TxNotify, TxLock, TxUnlock, packets
<1>q. QED
  BY <1>1, <1>2, <1>3, <1>4, <1>5, <1>6, <1>7
  DEF Next, CallerNext, CallerStep, WhdNext, RxStep, EventStep, vars

-----------------------------------------------------------------------------
(* cy_lp_mutex                                                             *)

\* Who owns the mutex: a caller with an infinite wait_ms from cy_rtos_get_mutex
\* to cy_rtos_set_mutex, and the WHD thread while it runs a handler.
MutexOwned ==
  /\ \A c \in Callers :
       /\ pc[c] \in (Resuming \ {"getMutex"}) \cup {"resumeFlag", "putMutex"}
       /\ wait[c] = "forever"
       => mutex = c
  /\ whd.at \in {"event", "evUnlock"} => mutex = Whd

\* Every step keeps the mutex with its owner: it is taken and given back by the same
\* thread.
LEMMA MutexStep ==
  ASSUME TypeOK, MutexOwned, [Next]_vars
  PROVE  MutexOwned'
<1> USE ConstAssumption DEF MutexOwned, Goto, WhdGoto, Suspending, Resuming, CallerType
<1>t. CallerType /\ ThreadType
  BY DEF TypeOK
<1>1. ASSUME NEW c \in Callers, CallNotConnected(c) PROVE MutexOwned'
  BY <1>1, <1>t DEF CallNotConnected, local, sync, threads
<1>2. ASSUME NEW c \in Callers, CallBadArgs(c) PROVE MutexOwned'
  BY <1>2, <1>t DEF CallBadArgs, local, sync, threads
<1>3. ASSUME NEW c \in Callers, Call(c) PROVE MutexOwned'
  BY <1>3, <1>t DEF Call, local, sync, threads
<1>4. ASSUME NEW c \in Callers, MonitorActivity(c) PROVE MutexOwned'
  BY <1>4, <1>t DEF MonitorActivity, local, sync, threads
<1>5. ASSUME NEW c \in Callers, SuspendCheck(c) PROVE MutexOwned'
  BY <1>5, <1>t DEF SuspendCheck, local, sync, threads
<1>6. ASSUME NEW c \in Callers, SuspendLock(c) PROVE MutexOwned'
  BY <1>6, <1>t DEF SuspendLock, local, sync, threads
<1>7. ASSUME NEW c \in Callers, SuspendFlag(c) PROVE MutexOwned'
  BY <1>7, <1>t DEF SuspendFlag, local, sync, threads
<1>8. ASSUME NEW c \in Callers, Divert(c) PROVE MutexOwned'
  BY <1>8, <1>t DEF Divert, local, sync, threads
<1>9. ASSUME NEW c \in Callers, NotifySuspended(c) PROVE MutexOwned'
  BY <1>9, <1>t DEF NotifySuspended, local, sync, threads
<1>10. ASSUME NEW c \in Callers, ClearEvents(c) PROVE MutexOwned'
  BY <1>10, <1>t DEF ClearEvents, local, sync, threads
<1>11. ASSUME NEW c \in Callers, DispatchSleep(c) PROVE MutexOwned'
  BY <1>11, <1>t DEF DispatchSleep, local, sync, threads
<1>12. ASSUME NEW c \in Callers, UnlockDeepSleep(c) PROVE MutexOwned'
  BY <1>12, <1>t DEF UnlockDeepSleep, local, sync, threads
<1>13. ASSUME NEW c \in Callers, WakeActivity(c) PROVE MutexOwned'
  BY <1>13, <1>t DEF WakeActivity, local, sync, threads
<1>14. ASSUME NEW c \in Callers, WakeTimeout(c) PROVE MutexOwned'
  BY <1>14, <1>t DEF WakeTimeout, local, sync, threads
<1>15. ASSUME NEW c \in Callers, GetMutex(c) PROVE MutexOwned'
  BY <1>15, <1>t DEF GetMutex, local, sync, threads
<1>16. ASSUME NEW c \in Callers, LockDeepSleep(c) PROVE MutexOwned'
  BY <1>16, <1>t DEF LockDeepSleep, local, sync, threads
<1>17. ASSUME NEW c \in Callers, DispatchAwake(c) PROVE MutexOwned'
  BY <1>17, <1>t DEF DispatchAwake, local, sync, threads
<1>18. ASSUME NEW c \in Callers, Undivert(c) PROVE MutexOwned'
  BY <1>18, <1>t DEF Undivert, local, sync, threads
<1>19. ASSUME NEW c \in Callers, DrainOne(c) PROVE MutexOwned'
  BY <1>19, <1>t DEF DrainOne, local, sync, threads
<1>20. ASSUME NEW c \in Callers, ResumeCheck(c) PROVE MutexOwned'
  BY <1>20, <1>t DEF ResumeCheck, local, sync, threads
<1>21. ASSUME NEW c \in Callers, ResumeUnlock(c) PROVE MutexOwned'
  BY <1>21, <1>t DEF ResumeUnlock, local, sync, threads
<1>22. ASSUME NEW c \in Callers, ResumeFlag(c) PROVE MutexOwned'
  BY <1>22, <1>t DEF ResumeFlag, local, sync, threads
<1>23. ASSUME NEW c \in Callers, PutMutex(c) PROVE MutexOwned'
  BY <1>23, <1>t DEF PutMutex, local, sync, threads
<1>24. ASSUME NEW c \in Callers, Exit(c) PROVE MutexOwned'
  BY <1>24, <1>t DEF Exit, local, sync, threads
<1>25. ASSUME RxArrives PROVE MutexOwned'
  BY <1>25, <1>t DEF RxArrives, local, sync
<1>26. ASSUME RxRoute PROVE MutexOwned'
  BY <1>26, <1>t DEF RxRoute, local, sync
<1>27. ASSUME RxActivity PROVE MutexOwned'
  BY <1>27, <1>t DEF RxActivity, local, sync
<1>28. ASSUME RxInput PROVE MutexOwned'
  BY <1>28, <1>t DEF RxInput, local, sync
<1>29. ASSUME EventArrives PROVE MutexOwned'
  BY <1>29, <1>t DEF EventArrives, local, sync
<1>30. ASSUME EventLock PROVE MutexOwned'
  BY <1>30, <1>t DEF EventLock, local, sync
<1>31. ASSUME EventHandler PROVE MutexOwned'
  BY <1>31, <1>t DEF EventHandler, local, sync
<1>32. ASSUME EventUnlock PROVE MutexOwned'
  BY <1>32, <1>t DEF EventUnlock, local, sync
<1>33. ASSUME UNCHANGED <<pc, wait, mutex, whd>> PROVE MutexOwned'
  BY <1>33 DEF local, sync, threads
<1>34. ASSUME NEW t \in TxTasks, TxNotify(t) \/ TxLock(t) \/ TxUnlock(t) PROVE MutexOwned'
  BY <1>34, <1>33 DEF TxNotify, TxLock, TxUnlock, local, sync, threads
<1>q. QED
  BY <1>1, <1>2, <1>3, <1>4, <1>5, <1>6, <1>7, <1>8, <1>9, <1>10, <1>11,
     <1>12, <1>13, <1>14, <1>15, <1>16, <1>17, <1>18, <1>19, <1>20, <1>21,
     <1>22, <1>23, <1>24, <1>25, <1>26, <1>27, <1>28, <1>29, <1>30, <1>31,
     <1>32, <1>33, <1>34
  DEF Next, CallerNext, CallerStep, WhdNext, RxStep, EventStep, TxNext, vars, local, sync, threads

-----------------------------------------------------------------------------
(* One calling thread: every shared flag is a function of its place.       *)

\* What holds of the flags, the offloads and the mutex when c is the only
\* caller, at each point of wait_net_suspend.
PlaceDecides(c) ==
  /\ suspended <=> (pc[c] \in (Suspending \ {"suspendFlag"}) \cup Resuming \cup {"resumeFlag"})
  /\ (core = c) <=> (pc[c] \in Suspending \cup Resuming)
  /\ rxCb <=> (pc[c] \in {"notify", "clear", "sleep", "unlockDs", "wait", "getMutex",
                        "lockDs", "awake", "undivert"})
  /\ (app = "suspended") <=> (pc[c] \in {"clear", "sleep", "unlockDs", "wait", "getMutex",
                                       "lockDs"})
  /\ (olm = "asleep") <=> (pc[c] \in {"unlockDs", "wait", "getMutex", "lockDs", "awake"})
  /\ mutex = c => pc[c] \in (Resuming \ {"getMutex"}) \cup {"resumeFlag", "putMutex"}
  /\ pc[c] # "failDivert"

\* With one caller, every step moves the flags along with its place.
LEMMA PlaceStep ==
  ASSUME NEW cc, Callers = {cc}, TypeOK, StackLockedThroughout,
         PlaceDecides(cc), [Next]_vars
  PROVE  PlaceDecides(cc)'
<1> USE ConstAssumption DEF PlaceDecides, Goto, Suspending, Resuming, CallerType
<1>t. CallerType /\ StackType /\ ViewType
  BY DEF TypeOK
<1>1. ASSUME NEW c \in Callers, CallNotConnected(c) PROVE PlaceDecides(cc)'
  BY <1>1, <1>t DEF CallNotConnected, local, stack, sync, view
<1>2. ASSUME NEW c \in Callers, CallBadArgs(c) PROVE PlaceDecides(cc)'
  BY <1>2, <1>t DEF CallBadArgs, local, stack, sync, view
<1>3. ASSUME NEW c \in Callers, Call(c) PROVE PlaceDecides(cc)'
  BY <1>3, <1>t DEF Call, local, stack, sync, view
<1>4. ASSUME NEW c \in Callers, MonitorActivity(c) PROVE PlaceDecides(cc)'
  BY <1>4, <1>t DEF MonitorActivity, local, stack, sync, view
<1>5. ASSUME NEW c \in Callers, SuspendCheck(c) PROVE PlaceDecides(cc)'
  BY <1>5, <1>t DEF SuspendCheck, local, stack, sync, view
<1>6. ASSUME NEW c \in Callers, SuspendLock(c) PROVE PlaceDecides(cc)'
  BY <1>6, <1>t DEF SuspendLock, local, stack, sync, view
<1>7. ASSUME NEW c \in Callers, SuspendFlag(c) PROVE PlaceDecides(cc)'
  BY <1>7, <1>t DEF SuspendFlag, local, stack, sync, view
<1>8. ASSUME NEW c \in Callers, Divert(c) PROVE PlaceDecides(cc)'
  BY <1>8, <1>t DEF Divert, local, stack, sync, view
<1>9. ASSUME NEW c \in Callers, NotifySuspended(c) PROVE PlaceDecides(cc)'
  BY <1>9, <1>t DEF NotifySuspended, local, stack, sync, view
<1>10. ASSUME NEW c \in Callers, ClearEvents(c) PROVE PlaceDecides(cc)'
  BY <1>10, <1>t DEF ClearEvents, local, stack, sync, view
<1>11. ASSUME NEW c \in Callers, DispatchSleep(c) PROVE PlaceDecides(cc)'
  BY <1>11, <1>t DEF DispatchSleep, local, stack, sync, view
<1>12. ASSUME NEW c \in Callers, UnlockDeepSleep(c) PROVE PlaceDecides(cc)'
  BY <1>12, <1>t DEF UnlockDeepSleep, local, stack, sync, view
<1>13. ASSUME NEW c \in Callers, WakeActivity(c) PROVE PlaceDecides(cc)'
  BY <1>13, <1>t DEF WakeActivity, local, stack, sync, view
<1>14. ASSUME NEW c \in Callers, WakeTimeout(c) PROVE PlaceDecides(cc)'
  BY <1>14, <1>t DEF WakeTimeout, local, stack, sync, view
<1>15. ASSUME NEW c \in Callers, GetMutex(c) PROVE PlaceDecides(cc)'
  BY <1>15, <1>t DEF GetMutex, local, stack, sync, view
<1>16. ASSUME NEW c \in Callers, LockDeepSleep(c) PROVE PlaceDecides(cc)'
  BY <1>16, <1>t DEF LockDeepSleep, local, stack, sync, view
<1>17. ASSUME NEW c \in Callers, DispatchAwake(c) PROVE PlaceDecides(cc)'
  BY <1>17, <1>t DEF DispatchAwake, local, stack, sync, view
<1>18. ASSUME NEW c \in Callers, Undivert(c) PROVE PlaceDecides(cc)'
  BY <1>18, <1>t DEF Undivert, local, stack, sync, view
<1>19. ASSUME NEW c \in Callers, DrainOne(c) PROVE PlaceDecides(cc)'
  BY <1>19, <1>t DEF DrainOne, local, stack, sync, view
<1>20. ASSUME NEW c \in Callers, ResumeCheck(c) PROVE PlaceDecides(cc)'
  BY <1>20, <1>t DEF ResumeCheck, local, stack, sync, view
<1>21. ASSUME NEW c \in Callers, ResumeUnlock(c) PROVE PlaceDecides(cc)'
  BY <1>21, <1>t DEF ResumeUnlock, local, stack, sync, view
<1>22. ASSUME NEW c \in Callers, ResumeFlag(c) PROVE PlaceDecides(cc)'
  BY <1>22, <1>t DEF ResumeFlag, local, stack, sync, view
<1>23. ASSUME NEW c \in Callers, PutMutex(c) PROVE PlaceDecides(cc)'
  BY <1>23, <1>t DEF PutMutex, local, stack, sync, view
<1>24. ASSUME NEW c \in Callers, Exit(c) PROVE PlaceDecides(cc)'
  BY <1>24, <1>t DEF Exit, local, stack, sync, view
<1>25. ASSUME EventLock PROVE PlaceDecides(cc)'
  BY <1>25, <1>t DEF EventLock, stack, view
<1>26. ASSUME EventUnlock PROVE PlaceDecides(cc)'
  BY <1>26, <1>t DEF EventUnlock, stack, view
<1>27. ASSUME NEW t \in TxTasks, TxLock(t) PROVE PlaceDecides(cc)'
  BY <1>27, <1>t DEF TxLock, sync, view, TxGoto, StackLockedThroughout
<1>28. ASSUME NEW t \in TxTasks, TxUnlock(t) PROVE PlaceDecides(cc)'
  BY <1>28, <1>t DEF TxUnlock, sync, view, TxGoto, StackLockedThroughout
<1>29. ASSUME UNCHANGED <<pc, suspended, core, rxCb, app, olm, mutex>> PROVE PlaceDecides(cc)'
  BY <1>29 DEF stack, sync, view
<1>30. ASSUME RxArrives \/ RxRoute \/ RxActivity \/ RxInput \/ EventArrives \/ EventHandler PROVE PlaceDecides(cc)'
  BY <1>30, <1>29 DEF RxArrives, RxRoute, RxActivity, RxInput, EventArrives,
     EventHandler, stack, sync, view
<1>31. ASSUME NEW t \in TxTasks, TxNotify(t) PROVE PlaceDecides(cc)'
  BY <1>31, <1>29 DEF TxNotify, stack, sync, view
<1>q. QED
  BY <1>1, <1>2, <1>3, <1>4, <1>5, <1>6, <1>7, <1>8, <1>9, <1>10, <1>11,
     <1>12, <1>13, <1>14, <1>15, <1>16, <1>17, <1>18, <1>19, <1>20, <1>21,
     <1>22, <1>23, <1>24, <1>25, <1>26, <1>27, <1>28, <1>29, <1>30, <1>31
  DEF Next, CallerNext, CallerStep, WhdNext, RxStep, EventStep, TxNext, vars, stack, sync, view

-----------------------------------------------------------------------------
(* The theorems: any number of callers, sending tasks and packets.         *)

Inv == TypeOK /\ StackLockedThroughout /\ DeepSleepBalanced /\ MutexOwned

\* At the start nobody calls, nothing is suspended and no lock is taken.
LEMMA InvInit == Init => Inv
<1> SUFFICES ASSUME Init PROVE Inv
  OBVIOUS
<1>1. TypeOK
  <2>1. CallerType /\ BitsType
    BY DEF Init, CallerType, BitsType, Points, Suspending, Resuming, Rets, Flags
  <2>2. StackType /\ SyncType /\ ViewType
    BY DEF Init, StackType, SyncType, ViewType
  <2>3. ThreadType /\ PacketType
    BY ConstAssumption, EmptySeq DEF Init, ThreadType, PacketType
  <2>4. QED
    BY <2>1, <2>2, <2>3 DEF TypeOK
<1>2. AwakeCallers = {}
  BY DEF Init, AwakeCallers
<1>3. DeepSleepBalanced
  BY <1>2, FS_EmptySet DEF Init, DeepSleepBalanced
<1>4. StackLockedThroughout
  BY DEF Init, StackLockedThroughout, Suspending, Resuming
<1>5. MutexOwned
  BY DEF Init, MutexOwned, Resuming
<1>6. QED
  BY <1>1, <1>3, <1>4, <1>5 DEF Inv

\* The invariant is inductive.
LEMMA InvStep == Inv /\ [Next]_vars => Inv'
<1> SUFFICES ASSUME Inv, [Next]_vars PROVE Inv'
  OBVIOUS
<1> USE DEF Inv
<1>1. DeepSleepBalanced'
  BY BalancedStep
<1>2. StackLockedThroughout' /\ MutexOwned'
  BY LockStep, MutexStep
<1>3. CallerType' /\ BitsType' /\ StackType' /\ SyncType'
  BY <1>1, CallerTypeStep, BitsTypeStep, StackTypeStep, SyncTypeStep DEF TypeOK
<1>4. ViewType' /\ ThreadType' /\ PacketType'
  BY ViewTypeStep, ThreadTypeStep, PacketTypeStep DEF TypeOK, PacketType
<1>5. QED
  BY <1>1, <1>2, <1>3, <1>4 DEF TypeOK

\* The invariant holds in every state.
LEMMA Invariance == Spec => []Inv
  BY InvInit, InvStep, PTL DEF Spec

\* The state keeps its types; in particular the deep-sleep count, which every
\* path through wait_net_suspend raises and lowers, never drops below zero.
THEOREM TypeCorrect == Spec => []TypeOK
<1>1. Inv => TypeOK
  BY DEF Inv
<1>2. QED
  BY <1>1, Invariance, PTL

\* From LOCK_TCPIP_CORE to UNLOCK_TCPIP_CORE the caller owns the core lock, and
\* a task inside lwIP owns it too, however many threads call wait_net_suspend.
THEOREM StackStaysLocked == Spec => []StackLockedThroughout
<1>1. Inv => StackLockedThroughout
  BY DEF Inv
<1>2. QED
  BY <1>1, Invariance, PTL

\* The number of deep-sleep locks is the number of callers that monitor,
\* suspend or resume: no path through wait_net_suspend keeps one or gives back
\* one it did not take.
THEOREM DeepSleepStaysBalanced == Spec => []DeepSleepBalanced
<1>1. Inv => DeepSleepBalanced
  BY DEF Inv
<1>2. QED
  BY <1>1, Invariance, PTL

\* With an infinite wait_ms the wake-up sequence owns cy_lp_mutex, and no event
\* handler of an offload runs inside it.
THEOREM HandlersStayOut == Spec => []ResumeExcludesHandlers
<1>1. Inv => ResumeExcludesHandlers
  BY ConstAssumption DEF Inv, MutexOwned, ResumeExcludesHandlers
<1>2. QED
  BY <1>1, Invariance, PTL

-----------------------------------------------------------------------------
(* The theorems that hold when one thread calls wait_net_suspend.          *)

\* With one caller, its place decides the flags in every state.
LEMMA PlaceInvariance ==
  ASSUME NEW CONSTANT cc, Callers = {cc}
  PROVE  Spec => []PlaceDecides(cc)
<1>1. Init => PlaceDecides(cc)
  BY ConstAssumption DEF Init, PlaceDecides, Suspending, Resuming
<1>2. Inv /\ PlaceDecides(cc) /\ [Next]_vars => PlaceDecides(cc)'
  BY PlaceStep DEF Inv
<1>3. QED
  BY <1>1, <1>2, Invariance, PTL DEF Spec

\* Packets are diverted to the rx queue only while the caller keeps the stack
\* locked, so that the packets put there will be drained.
THEOREM DivertedWhileLocked ==
  ASSUME NEW CONSTANT cc, Callers = {cc}
  PROVE  Spec => []DivertedOnlyWhileLocked
<1>1. PlaceDecides(cc) => DivertedOnlyWhileLocked
  BY DEF PlaceDecides, DivertedOnlyWhileLocked, Suspending, Resuming
<1>2. QED
  BY <1>1, PlaceInvariance, PTL

\* The offloads are in their sleep configuration only while the stack is
\* suspended and locked.
THEOREM OffloadsAsleepWhileLocked ==
  ASSUME NEW CONSTANT cc, Callers = {cc}
  PROVE  Spec => []OffloadsAsleepOnlyWhileLocked
<1>1. PlaceDecides(cc) => OffloadsAsleepOnlyWhileLocked
  BY DEF PlaceDecides, OffloadsAsleepOnlyWhileLocked, Suspending, Resuming
<1>2. QED
  BY <1>1, PlaceInvariance, PTL

\* The MCU is allowed to sleep with a suspended stack only after the offloads,
\* the rx-queue callback and the application have been prepared for it.
THEOREM SleepIsPrepared ==
  ASSUME NEW CONSTANT cc, Callers = {cc}
  PROVE  Spec => []DeepSleepPrepared
<1>1. Inv /\ PlaceDecides(cc) => DeepSleepPrepared
  <2> SUFFICES ASSUME Inv, PlaceDecides(cc), dsLocks = 0, suspended
               PROVE  olm = "asleep" /\ rxCb /\ app = "suspended"
    BY DEF DeepSleepPrepared
  <2>1. AwakeCallers = {}
    BY AwakeCallersFinite, FS_EmptySet DEF Inv, DeepSleepBalanced
  <2>2. pc[cc] \in {"idle", "wait", "getMutex", "lockDs"}
    BY <2>1 DEF AwakeCallers
  <2>3. QED
    BY <2>2 DEF PlaceDecides, Suspending, Resuming
<1>2. QED
  BY <1>1, Invariance, PlaceInvariance, PTL

\* When the call has returned nothing it took is held: the core lock, the
\* mutex, the callback slot, the deep-sleep lock, the offloads' sleep state.
THEOREM AllIsReleased ==
  ASSUME NEW CONSTANT cc, Callers = {cc}
  PROVE  Spec => []ReleasedOnReturn
<1>1. Inv /\ PlaceDecides(cc) => ReleasedOnReturn
  <2> SUFFICES ASSUME Inv, PlaceDecides(cc), pc[cc] = "idle"
               PROVE  /\ ~suspended /\ core \notin Callers /\ mutex \notin Callers
                      /\ ~rxCb /\ app = "resumed" /\ olm = "awake" /\ dsLocks = 0
    BY DEF ReleasedOnReturn
  <2>1. AwakeCallers = {}
    BY DEF AwakeCallers
  <2>2. dsLocks = 0
    BY <2>1, FS_EmptySet DEF Inv, DeepSleepBalanced
  <2>3. app = "resumed" /\ olm = "awake"
    BY DEF PlaceDecides, Inv, TypeOK, ViewType
  <2>4. ~suspended /\ core # cc /\ mutex # cc /\ ~rxCb
    BY DEF PlaceDecides, Suspending, Resuming
  <2>5. QED
    BY <2>2, <2>3, <2>4
<1>2. QED
  BY <1>1, Invariance, PlaceInvariance, PTL

-----------------------------------------------------------------------------
(* The packets                                                             *)

\* The packet in the hands of the WHD thread, if it has one.
InHand == IF whd.pkt = 0 THEN {} ELSE {whd.pkt}

\* Each packet that arrived is in one place, and once in the queue; the count of
\* those that lwIP has says that they are there once too.
PacketsInPlace ==
  /\ InHand \cup Elems(rxQueue) \cup Elems(delivered) \cup released = 1 .. arrived
  /\ released \cap (InHand \cup Elems(rxQueue) \cup Elems(delivered)) = {}
  /\ Elems(delivered) \cap (InHand \cup Elems(rxQueue)) = {}
  /\ InHand \cap Elems(rxQueue) = {}
  /\ \A i, j \in DOMAIN rxQueue : rxQueue[i] = rxQueue[j] => i = j
  /\ Cardinality(InHand) + Len(rxQueue) + Len(delivered) + Cardinality(released) = arrived
  /\ Len(rxQueue) <= QLen

\* What Append adds to the elements of a sequence,
LEMMA ElemsAppend ==
  ASSUME NEW S, NEW s \in Seq(S), NEW e \in S
  PROVE  /\ Elems(Append(s, e)) = Elems(s) \cup {e} /\ Len(Append(s, e)) = Len(s) + 1
         /\ Append(s, e) \in Seq(S)
<1> DEFINE n == Len(s)
           a == Append(s, e)
<1>1. n \in Nat /\ DOMAIN s = 1 .. n OBVIOUS
<1>2. a \in Seq(S) /\ Len(a) = n + 1 /\ a[n + 1] = e /\ \A i \in 1 .. n : a[i] = s[i]
  BY AppendProperties
<1>3. DOMAIN a = 1 .. (n + 1) BY <1>2
<1> HIDE DEF n, a
<1>4. \A i \in 1 .. (n + 1) : i \in 1 .. n \/ i = n + 1 BY <1>1
<1>5. Elems(a) \subseteq Elems(s) \cup {e} BY <1>1, <1>2, <1>3, <1>4 DEF Elems
<1>6. Elems(s) \subseteq Elems(a) BY <1>1, <1>2, <1>3 DEF Elems
<1>7. e \in Elems(a) BY <1>1, <1>2, <1>3 DEF Elems
<1> QED BY <1>2, <1>5, <1>6, <1>7 DEF a, n

\* and what taking the head leaves of them.
LEMMA ElemsTail ==
  ASSUME NEW S, NEW s \in Seq(S), s # <<>>
  PROVE  /\ Elems(s) = {Head(s)} \cup Elems(Tail(s)) /\ Len(Tail(s)) = Len(s) - 1
         /\ DOMAIN s = 1 .. Len(s) /\ DOMAIN Tail(s) = 1 .. (Len(s) - 1) /\ Len(s) \in Nat \ {0}
         /\ \A i \in DOMAIN Tail(s) : Tail(s)[i] = s[i + 1]
         /\ Head(s) = s[1]
<1> DEFINE n == Len(s)
           r == Tail(s)
<1>1. n \in Nat \ {0} /\ DOMAIN s = 1 .. n /\ Head(s) = s[1] OBVIOUS
<1>2. r \in Seq(S) /\ Len(r) = n - 1 /\ \A i \in 1 .. Len(r) : r[i] = s[i + 1]
  BY HeadTailProperties
<1>3. DOMAIN r = 1 .. (n - 1) BY <1>2
<1> HIDE DEF n, r
<1>4. \A i \in 1 .. n : i = 1 \/ (i - 1 \in 1 .. (n - 1) /\ i = (i - 1) + 1) BY <1>1
<1>5. \A i \in 1 .. (n - 1) : i + 1 \in 1 .. n BY <1>1
<1>6. Elems(s) \subseteq {s[1]} \cup Elems(r)
  <2> SUFFICES ASSUME NEW i \in 1 .. n PROVE s[i] \in {s[1]} \cup Elems(r)
    BY <1>1 DEF Elems
  <2>1. CASE i = 1 BY <2>1
  <2>2. CASE i # 1
    <3>1. i - 1 \in 1 .. (n - 1) /\ r[i - 1] = s[i] BY <1>2, <1>4, <2>2, <1>1
    <3> QED BY <3>1, <1>3 DEF Elems
  <2> QED BY <2>1, <2>2
<1>7. Elems(r) \subseteq Elems(s) BY <1>1, <1>2, <1>3, <1>5, SMTT(40) DEF Elems
<1>8. s[1] \in Elems(s) BY <1>1 DEF Elems
<1> QED BY <1>1, <1>2, <1>3, <1>6, <1>7, <1>8 DEF n, r

\* The released packets are finitely many.
LEMMA ReleasedFinite == ASSUME TypeOK PROVE IsFiniteSet(released)
<1>1. IsFiniteSet(1 .. MaxPkts) BY ConstAssumption, FS_Interval
<1>2. released \in SUBSET (1 .. MaxPkts) BY DEF TypeOK, PacketType, Packets
<1> QED BY <1>1, <1>2, FS_Subset

\* A packet that is new to it counts.
LEMMA OneMore ==
  ASSUME TypeOK, NEW p \in Packets, p \notin released
  PROVE  Cardinality(released \cup {p}) = Cardinality(released) + 1
<1>1. IsFiniteSet(released) BY ReleasedFinite
<1> QED BY <1>1, FS_AddElement

\* The numbers that are added up.
LEMMA Counts ==
  ASSUME TypeOK
  PROVE  /\ Cardinality(InHand) = (IF whd.pkt = 0 THEN 0 ELSE 1)
         /\ Cardinality(released) \in Nat /\ Len(rxQueue) \in Nat /\ Len(delivered) \in Nat
         /\ arrived \in Nat
<1>1. IsFiniteSet(released) BY ReleasedFinite
<1>2. Cardinality(released) \in Nat BY <1>1, FS_CardinalityType
<1>3. Cardinality(InHand) = (IF whd.pkt = 0 THEN 0 ELSE 1)
  BY FS_EmptySet, FS_Singleton DEF InHand
<1> QED BY <1>2, <1>3 DEF TypeOK, PacketType

\* The handler of the WHD thread, or lwIP, or nobody takes the packet.
LEMMA HandEmptied ==
  ASSUME TypeOK, PacketsInPlace, NEW p \in Packets, whd.pkt = p, whd'.pkt = 0,
         arrived' = arrived,
         \/ /\ Len(rxQueue) < QLen /\ rxQueue' = Append(rxQueue, p)
            /\ UNCHANGED <<delivered, released>>
         \/ delivered' = Append(delivered, p) /\ UNCHANGED <<rxQueue, released>>
         \/ released' = released \cup {p} /\ UNCHANGED <<rxQueue, delivered>>
  PROVE  PacketsInPlace'
<1>type. rxQueue \in Seq(Packets) /\ delivered \in Seq(Packets) BY DEF TypeOK, PacketType
<1>hand. p # 0 /\ InHand = {p} /\ InHand' = {} BY DEF InHand, Packets
<1>count. /\ Cardinality(InHand) = 1 /\ Cardinality(InHand') = 0
          /\ Cardinality(released) \in Nat /\ Len(rxQueue) \in Nat /\ Len(delivered) \in Nat
          /\ arrived \in Nat
  BY <1>hand, Counts, FS_EmptySet
<1>free. p \notin released /\ p \notin Elems(rxQueue) /\ p \notin Elems(delivered)
  BY <1>hand DEF PacketsInPlace
<1>1. CASE Len(rxQueue) < QLen /\ rxQueue' = Append(rxQueue, p) /\ UNCHANGED <<delivered, released>>
  <2>1. Elems(rxQueue') = Elems(rxQueue) \cup {p} /\ Len(rxQueue') = Len(rxQueue) + 1
    BY <1>1, <1>type, ElemsAppend
  <2>2. Elems(delivered') = Elems(delivered) BY <1>1
  <2>3. Len(rxQueue') <= QLen BY <1>1, <1>count, <2>1, ConstAssumption
  <2>4. \A i, j \in DOMAIN rxQueue' : rxQueue'[i] = rxQueue'[j] => i = j
    <3> DEFINE n == Len(rxQueue)
    <3>1. n \in Nat /\ DOMAIN rxQueue' = 1 .. (n + 1) /\ DOMAIN rxQueue = 1 .. n
      BY <1>1, <1>type, AppendProperties
    <3>2. rxQueue'[n + 1] = p /\ \A i \in 1 .. n : rxQueue'[i] = rxQueue[i]
      BY <1>1, <1>type, AppendProperties
    <3>3. \A i \in 1 .. n : rxQueue[i] # p BY <1>free, <3>1 DEF Elems
    <3> HIDE DEF n
    <3>4. \A i \in 1 .. (n + 1) : i \in 1 .. n \/ i = n + 1 BY <3>1
    <3> QED BY <3>1, <3>2, <3>3, <3>4 DEF PacketsInPlace
  <2> QED
    BY <1>1, <1>hand, <1>count, <1>free, <2>1, <2>2, <2>3, <2>4 DEF PacketsInPlace
<1>2. CASE delivered' = Append(delivered, p) /\ UNCHANGED <<rxQueue, released>>
  <2>1. Elems(delivered') = Elems(delivered) \cup {p} /\ Len(delivered') = Len(delivered) + 1
    BY <1>2, <1>type, ElemsAppend
  <2>2. Elems(rxQueue') = Elems(rxQueue) BY <1>2
  <2> QED BY <1>2, <1>hand, <1>count, <1>free, <2>1, <2>2 DEF PacketsInPlace
<1>3. CASE released' = released \cup {p} /\ UNCHANGED <<rxQueue, delivered>>
  <2>1. Cardinality(released') = Cardinality(released) + 1 BY <1>3, <1>free, OneMore
  <2>2. Elems(rxQueue') = Elems(rxQueue) /\ Elems(delivered') = Elems(delivered) BY <1>3
  <2> QED BY <1>3, <1>hand, <1>count, <1>free, <2>1, <2>2 DEF PacketsInPlace
<1> QED BY <1>1, <1>2, <1>3

\* The queue's first packet goes to lwIP, or is released.
LEMMA QueueDrained ==
  ASSUME TypeOK, PacketsInPlace, rxQueue # <<>>, rxQueue' = Tail(rxQueue),
         UNCHANGED <<whd, arrived>>,
         \/ delivered' = Append(delivered, Head(rxQueue)) /\ UNCHANGED released
         \/ released' = released \cup {Head(rxQueue)} /\ UNCHANGED delivered
  PROVE  PacketsInPlace'
<1> DEFINE p == Head(rxQueue)
<1>type. rxQueue \in Seq(Packets) /\ delivered \in Seq(Packets) BY DEF TypeOK, PacketType
<1>p. p \in Packets BY <1>type, HeadTailProperties
<1>queue. /\ Elems(rxQueue) = {p} \cup Elems(rxQueue') /\ Len(rxQueue') = Len(rxQueue) - 1
          /\ DOMAIN rxQueue = 1 .. Len(rxQueue) /\ DOMAIN rxQueue' = 1 .. (Len(rxQueue) - 1)
          /\ \A i \in DOMAIN rxQueue' : rxQueue'[i] = rxQueue[i + 1]
          /\ p = rxQueue[1] /\ Len(rxQueue) \in Nat \ {0}
  BY <1>type, ElemsTail
<1>taken. \/ delivered' = Append(delivered, p) /\ UNCHANGED released
          \/ released' = released \cup {p} /\ UNCHANGED delivered
  OBVIOUS
<1> HIDE DEF p
<1>hand. InHand' = InHand BY DEF InHand
<1>count. /\ Cardinality(InHand) \in Nat
          /\ Cardinality(released) \in Nat /\ Len(rxQueue) \in Nat /\ Len(delivered) \in Nat
          /\ arrived \in Nat
  BY Counts
<1>free. p \notin released /\ p \notin InHand /\ p \notin Elems(delivered)
  BY <1>queue DEF PacketsInPlace
<1>once. /\ \A i, j \in DOMAIN rxQueue' : rxQueue'[i] = rxQueue'[j] => i = j
         /\ p \notin Elems(rxQueue')
  <2>1. \A i \in DOMAIN rxQueue' : i \in Int /\ i + 1 \in DOMAIN rxQueue /\ i + 1 # 1 /\ 1 \in DOMAIN rxQueue
    BY <1>queue
  <2>2. \A i \in DOMAIN rxQueue' : rxQueue'[i] # p
    BY <1>queue, <2>1 DEF PacketsInPlace
  <2>3. ASSUME NEW i \in DOMAIN rxQueue', NEW j \in DOMAIN rxQueue', rxQueue'[i] = rxQueue'[j]
        PROVE  i = j
    <3>1. rxQueue[i + 1] = rxQueue[j + 1] BY <1>queue, <2>3
    <3>2. i + 1 = j + 1 BY <2>1, <3>1 DEF PacketsInPlace
    <3> QED BY <2>1, <3>2
  <2> QED BY <2>2, <2>3 DEF Elems
<1>len. Len(rxQueue') <= QLen BY <1>queue, ConstAssumption DEF PacketsInPlace
<1>1. CASE delivered' = Append(delivered, p) /\ UNCHANGED released
  <2>1. Elems(delivered') = Elems(delivered) \cup {p} /\ Len(delivered') = Len(delivered) + 1
    BY <1>1, <1>p, <1>type, ElemsAppend
  <2>3. /\ InHand' \cup Elems(rxQueue') \cup Elems(delivered') \cup released' = 1 .. arrived'
        /\ released' \cap (InHand' \cup Elems(rxQueue') \cup Elems(delivered')) = {}
        /\ Elems(delivered') \cap (InHand' \cup Elems(rxQueue')) = {}
        /\ InHand' \cap Elems(rxQueue') = {}
    BY <1>1, <1>hand, <1>free, <1>queue, <1>once, <2>1 DEF PacketsInPlace
  <2>4. Cardinality(InHand') + Len(rxQueue') + Len(delivered') + Cardinality(released') = arrived'
    <3>1. Cardinality(InHand') = Cardinality(InHand) BY <1>hand
    <3> QED BY <1>1, <1>count, <1>queue, <3>1, <2>1 DEF PacketsInPlace
  <2> QED BY <1>once, <1>len, <2>3, <2>4 DEF PacketsInPlace
<1>2. CASE released' = released \cup {p} /\ UNCHANGED delivered
  <2>1. Cardinality(released') = Cardinality(released) + 1 BY <1>2, <1>p, <1>free, OneMore
  <2>2. Elems(delivered') = Elems(delivered) BY <1>2
  <2>3. /\ InHand' \cup Elems(rxQueue') \cup Elems(delivered') \cup released' = 1 .. arrived'
        /\ released' \cap (InHand' \cup Elems(rxQueue') \cup Elems(delivered')) = {}
        /\ Elems(delivered') \cap (InHand' \cup Elems(rxQueue')) = {}
        /\ InHand' \cap Elems(rxQueue') = {}
    BY <1>2, <1>hand, <1>free, <1>queue, <1>once, <2>1, <2>2 DEF PacketsInPlace
  <2>4. Cardinality(InHand') + Len(rxQueue') + Len(delivered') + Cardinality(released') = arrived'
    <3>1. Cardinality(InHand') = Cardinality(InHand) BY <1>hand
    <3> QED BY <1>2, <1>count, <1>queue, <3>1, <2>1, <2>2 DEF PacketsInPlace
  <2> QED BY <1>once, <1>len, <2>3, <2>4 DEF PacketsInPlace
<1> QED BY <1>taken, <1>1, <1>2

\* A packet comes from the bus into the hands of the WHD thread.
LEMMA PacketArrives ==
  ASSUME TypeOK, PacketsInPlace, RxArrives
  PROVE  PacketsInPlace' /\ arrived + 1 \in Packets /\ arrived \in Nat
<1> DEFINE p == arrived + 1
<1>1. arrived \in Nat /\ p \in Packets /\ 1 .. p = 1 .. arrived \cup {p} /\ p \notin 1 .. arrived
  BY ConstAssumption DEF TypeOK, PacketType, Packets, RxArrives
<1>2. whd.pkt = 0 /\ whd'.pkt = p /\ arrived' = p /\ UNCHANGED <<rxQueue, delivered, released>>
  BY DEF RxArrives, WhdGoto, TypeOK, ThreadType
<1>3. p # 0 BY <1>1
<1> HIDE DEF p
<1>4. InHand = {} /\ InHand' = {p} BY <1>2, <1>3 DEF InHand
<1>5. Elems(rxQueue') = Elems(rxQueue) /\ Elems(delivered') = Elems(delivered) BY <1>2
<1>6. /\ InHand' \cup Elems(rxQueue') \cup Elems(delivered') \cup released' = 1 .. arrived'
      /\ released' \cap (InHand' \cup Elems(rxQueue') \cup Elems(delivered')) = {}
      /\ Elems(delivered') \cap (InHand' \cup Elems(rxQueue')) = {}
      /\ InHand' \cap Elems(rxQueue') = {}
  BY <1>1, <1>2, <1>4, <1>5 DEF PacketsInPlace
<1>7. Cardinality(InHand) = 0 /\ Cardinality(InHand') = 1
  BY <1>4, FS_EmptySet, FS_Singleton
<1>8. Cardinality(InHand') + Len(rxQueue') + Len(delivered') + Cardinality(released') = arrived'
  BY <1>1, <1>2, <1>7, Counts DEF PacketsInPlace, p
<1> QED BY <1>1, <1>2, <1>6, <1>8 DEF PacketsInPlace, p

\* What the packets depend on is left alone by every other step.
LEMMA OtherPackets ==
  ASSUME TypeOK, [Next]_vars, ~RxArrives, ~RxActivity, ~RxInput,
         \A c \in Callers : ~DrainOne(c)
  PROVE  UNCHANGED packets /\ whd'.pkt = whd.pkt
<1>1. ASSUME NEW c \in Callers, CallerNext(c) PROVE UNCHANGED <<packets, whd>>
  BY <1>1
  DEF CallerNext, CallerStep, CallNotConnected, CallBadArgs, Call, MonitorActivity,
      SuspendCheck, SuspendLock, SuspendFlag, Divert, NotifySuspended, ClearEvents,
      DispatchSleep, UnlockDeepSleep, WakeActivity, WakeTimeout, GetMutex, LockDeepSleep,
      DispatchAwake, Undivert, ResumeCheck, ResumeUnlock, ResumeFlag, PutMutex, Exit, threads
<1>2. CASE WhdNext
  <2>1. RxRoute \/ EventArrives \/ EventStep BY <1>2 DEF WhdNext, RxStep
  <2>2. CASE RxRoute BY <2>2 DEF RxRoute, WhdGoto
  <2>3. CASE EventArrives BY <2>3 DEF EventArrives, WhdGoto, TypeOK, ThreadType
  <2>4. CASE EventStep
    BY <2>4 DEF EventStep, EventLock, EventHandler, EventUnlock, WhdGoto, TypeOK, ThreadType
  <2> QED BY <2>1, <2>2, <2>3, <2>4
<1>3. ASSUME NEW t \in TxTasks, TxNext(t) PROVE UNCHANGED <<packets, whd>>
  BY <1>3 DEF TxNext, TxNotify, TxLock, TxUnlock
<1>4. CASE UNCHANGED vars BY <1>4 DEF vars, threads
<1> QED BY <1>1, <1>2, <1>3, <1>4 DEF Next

\* Each step keeps every packet in one place.
LEMMA PacketStep == TypeOK /\ PacketsInPlace /\ [Next]_vars => PacketsInPlace'
<1> SUFFICES ASSUME TypeOK, PacketsInPlace, [Next]_vars PROVE PacketsInPlace'
  OBVIOUS
<1>1. CASE RxArrives BY <1>1, PacketArrives
<1>2. CASE RxActivity
  <2>1. whd.pkt \in Packets BY <1>2 DEF RxActivity, WhdGoto, TypeOK, ThreadType
  <2> QED BY <1>2, <2>1, HandEmptied DEF RxActivity, WhdGoto
<1>3. CASE RxInput
  <2>1. whd.pkt \in Packets BY <1>3 DEF RxInput, WhdGoto, TypeOK, ThreadType
  <2> QED BY <1>3, <2>1, HandEmptied DEF RxInput, WhdGoto
<1>4. ASSUME NEW c \in Callers, DrainOne(c) PROVE PacketsInPlace'
  BY <1>4, QueueDrained DEF DrainOne, threads
<1>5. CASE UNCHANGED packets /\ whd'.pkt = whd.pkt
  <2>1. InHand' = InHand BY <1>5 DEF InHand
  <2>2. UNCHANGED <<arrived, rxQueue, delivered, released>> BY <1>5 DEF packets
  <2> QED BY <2>1, <2>2 DEF PacketsInPlace
<1> QED BY <1>1, <1>2, <1>3, <1>4, <1>5, OtherPackets

\* So every packet is always in one place.
LEMMA PacketInvariance == Spec => []PacketsInPlace
<1>1. Init => PacketsInPlace
  <2> SUFFICES ASSUME Init PROVE PacketsInPlace OBVIOUS
  <2>1. InHand = {} BY DEF Init, InHand
  <2>2. Elems(rxQueue) = {} /\ Elems(delivered) = {} BY DEF Init, Elems
  <2>3. Len(rxQueue) = 0 /\ Len(delivered) = 0 /\ arrived = 0 /\ released = {} BY DEF Init
  <2>4. DOMAIN rxQueue = {} BY DEF Init
  <2> QED BY <2>1, <2>2, <2>3, <2>4, FS_EmptySet, ConstAssumption DEF PacketsInPlace
<1>2. Inv /\ PacketsInPlace /\ [Next]_vars => PacketsInPlace'
  BY PacketStep DEF Inv
<1> QED BY <1>1, <1>2, Invariance, PTL DEF Spec

\* No buffer is lost or used twice: each packet that arrived is in the hands of
\* the WHD thread, in the rx queue, in lwIP or released, and is there once.
THEOREM BuffersAreAccounted == Spec => []BuffersAccounted
<1>1. PacketsInPlace => BuffersAccounted
  BY DEF PacketsInPlace, InHand, BuffersAccounted
<1> QED BY <1>1, PacketInvariance, PTL

-----------------------------------------------------------------------------
(* The refinement of StackGate, with one calling thread                    *)

\* The mode of the gate is a function of the caller's place.
GateModeAt(p) ==
  CASE p \in {"suspendFlag", "divert", "notify"} -> "locked"
    [] p \in {"clear", "sleep", "unlockDs", "wait", "getMutex", "lockDs"} -> "suspended"
    [] p \in {"awake", "undivert", "drain", "resumeUnlock"} -> "resuming"
    [] OTHER -> "running"

\* and, with one caller, the mode of the gate is that function of its place.
LEMMA GateModeOfPlace ==
  ASSUME NEW cc, Callers = {cc}
  PROVE  /\ PlaceDecides(cc) => gateMode = GateModeAt(pc[cc])
         /\ PlaceDecides(cc)' => gateMode' = GateModeAt(pc'[cc])
<1> USE DEF GateModeAt, Suspending, Resuming, PlaceDecides, gateMode
<1>1. ASSUME PlaceDecides(cc) PROVE gateMode = GateModeAt(pc[cc])
  <2>1. CASE core \notin Callers BY <1>1, <2>1
  <2>2. CASE core = cc BY <1>1, <2>2
  <2> QED BY <2>1, <2>2
<1>2. ASSUME PlaceDecides(cc)' PROVE gateMode' = GateModeAt(pc'[cc])
  <2>1. CASE core' \notin Callers BY <1>2, <2>1
  <2>2. CASE core' = cc BY <1>2, <2>2
  <2> QED BY <2>1, <2>2
<1> QED BY <1>1, <1>2

\* The task inside the stack, as GateSpec names it.
gateSender == IF core \in TxTasks THEN core ELSE NoOne

\* The fate of one packet that was taken is decided.
LEMMA FateDecided ==
  ASSUME PacketsInPlace, NEW p \in Packets, p \in InHand \cup Elems(rxQueue), arrived' = arrived,
         arrived \in Nat,
         NEW to,
         \/ /\ to = "delivered" /\ Elems(delivered') = Elems(delivered) \cup {p}
            /\ released' = released
         \/ to = "released" /\ Elems(delivered') = Elems(delivered) /\ released' = released \cup {p}
  PROVE  gateFate[p] = "taken" /\ gateFate' = [gateFate EXCEPT ![p] = to]
<1>1. p \notin Elems(delivered) /\ p \notin released /\ p \in 1 .. arrived
  BY DEF PacketsInPlace
<1>2. ~(p > arrived) BY <1>1
<1>3. gateFate[p] = "taken" BY <1>1, <1>2 DEF gateFate
<1>4. \A q \in Packets : gateFate'[q] = IF q = p THEN to ELSE gateFate[q]
  BY <1>1, <1>2 DEF gateFate
<1>5. gateFate' = [q \in Packets |-> gateFate'[q]] /\ DOMAIN gateFate = Packets
  BY DEF gateFate
<1> QED BY <1>3, <1>4, <1>5

\* A step that moves no packet into lwIP or out of use decides nothing.
LEMMA FateKept ==
  ASSUME arrived' = arrived, Elems(delivered') = Elems(delivered), released' = released
  PROVE  gateFate' = gateFate
BY DEF gateFate

\* The WHD thread takes a packet, hands it on or releases it.
LEMMA GateReceives ==
  ASSUME TypeOK, PacketsInPlace, RxArrives \/ RxActivity \/ RxInput \/ \E c \in Callers : DrainOne(c)
  PROVE  \/ gateFate' = gateFate
         \/ \E p \in 1 .. MaxPkts :
              \/ gateFate[p] = "none" /\ gateFate' = [gateFate EXCEPT ![p] = "taken"]
              \/ gateFate[p] = "taken" /\ gateFate' = [gateFate EXCEPT ![p] = "delivered"]
              \/ gateFate[p] = "taken" /\ gateFate' = [gateFate EXCEPT ![p] = "released"]
<1>type. rxQueue \in Seq(Packets) /\ delivered \in Seq(Packets) /\ arrived \in Nat
  BY DEF TypeOK, PacketType
<1>1. CASE RxArrives
  <2> DEFINE p == arrived + 1
  <2>1. p \in Packets BY <1>1, PacketArrives
  <2>2. arrived' = p /\ UNCHANGED <<delivered, released>> BY <1>1 DEF RxArrives
  <2>3. p \notin Elems(delivered) /\ p \notin released
    <3>1. p \notin 1 .. arrived BY <1>type
    <3> QED BY <3>1 DEF PacketsInPlace
  <2>4. gateFate[p] = "none" BY <2>1, <1>type DEF gateFate
  <2>5. \A q \in Packets : gateFate'[q] = IF q = p THEN "taken" ELSE gateFate[q]
    BY <2>1, <2>2, <2>3, <1>type DEF gateFate, Packets
  <2>6. gateFate' = [q \in Packets |-> gateFate'[q]] /\ DOMAIN gateFate = Packets
    BY DEF gateFate
  <2> QED BY <2>1, <2>4, <2>5, <2>6 DEF Packets
<1>hand. ASSUME NEW p \in Packets, whd.pkt = p PROVE p \in InHand
  BY <1>hand DEF InHand, Packets
<1>2. CASE RxActivity
  <2>1. whd.pkt \in Packets BY <1>2 DEF RxActivity, WhdGoto, TypeOK, ThreadType
  <2>2. CASE released' = released BY <1>2, <2>2, FateKept DEF RxActivity
  <2>3. CASE released' = released \cup {whd.pkt}
    BY <1>2, <1>type, <2>1, <2>3, <1>hand, FateDecided DEF RxActivity, Packets
  <2> QED BY <1>2, <2>2, <2>3 DEF RxActivity
<1>3. CASE RxInput
  <2>1. whd.pkt \in Packets BY <1>3 DEF RxInput, WhdGoto, TypeOK, ThreadType
  <2>2. CASE delivered' = Append(delivered, whd.pkt) /\ released' = released
    <3>1. Elems(delivered') = Elems(delivered) \cup {whd.pkt} BY <2>1, <2>2, <1>type, ElemsAppend
    <3> QED BY <1>3, <1>type, <2>1, <2>2, <3>1, <1>hand, FateDecided DEF RxInput, Packets
  <2>3. CASE released' = released \cup {whd.pkt} /\ delivered' = delivered
    BY <1>3, <1>type, <2>1, <2>3, <1>hand, FateDecided DEF RxInput, Packets
  <2> QED BY <1>3, <2>2, <2>3 DEF RxInput
<1>4. ASSUME NEW c \in Callers, DrainOne(c)
      PROVE  \E p \in Packets :
               \/ gateFate[p] = "taken" /\ gateFate' = [gateFate EXCEPT ![p] = "delivered"]
               \/ gateFate[p] = "taken" /\ gateFate' = [gateFate EXCEPT ![p] = "released"]
  <2> DEFINE p == Head(rxQueue)
  <2>1. p \in Packets /\ p \in Elems(rxQueue)
    BY <1>4, <1>type, HeadTailProperties, ElemsTail DEF DrainOne
  <2>2. arrived' = arrived BY <1>4 DEF DrainOne
  <2>3. CASE delivered' = Append(delivered, p) /\ released' = released
    <3>1. Elems(delivered') = Elems(delivered) \cup {p} BY <2>1, <2>3, <1>type, ElemsAppend
    <3> QED BY <1>type, <2>1, <2>2, <2>3, <3>1, FateDecided
  <2>4. CASE released' = released \cup {p} /\ delivered' = delivered
    BY <1>type, <2>1, <2>2, <2>4, FateDecided
  <2> QED BY <1>4, <2>3, <2>4 DEF DrainOne
<1> QED BY <1>1, <1>2, <1>3, <1>4 DEF Packets

\* What a step may do to the mode and the sender of the gate.
GateTurn ==
  \/ gateMode' = gateMode /\ gateSender' = gateSender
  \/ /\ gateMode = "running" /\ gateSender = NoOne
     /\ gateMode' = "locked" /\ gateSender' = gateSender
  \/ gateMode = "locked" /\ gateMode' = "suspended" /\ gateSender' = gateSender
  \/ gateMode = "suspended" /\ gateMode' = "resuming" /\ gateSender' = gateSender
  \/ gateMode = "resuming" /\ gateMode' = "running" /\ gateSender' = gateSender
  \/ /\ gateMode = "running" /\ gateSender = NoOne
     /\ gateSender' \in TxTasks /\ gateMode' = gateMode
  \/ gateSender # NoOne /\ gateSender' = NoOne /\ gateMode' = gateMode

\* What the other steps do to the gate: the caller locks and unlocks it, and tells
\* the application; a task goes through it.
LEMMA GateTurns ==
  ASSUME NEW cc, Callers = {cc}, Inv, PlaceDecides(cc), PlaceDecides(cc)', [Next]_vars
  PROVE  GateTurn
<1>type. CallerType /\ StackType /\ tx \in [TxTasks -> {"idle", "blocked", "sending"}]
         /\ cc \in Callers
  BY DEF Inv, TypeOK, ThreadType
<1>mode. gateMode = GateModeAt(pc[cc]) /\ gateMode' = GateModeAt(pc'[cc])
  BY GateModeOfPlace
<1> USE ConstAssumption
<1>same. ASSUME GateModeAt(pc'[cc]) = GateModeAt(pc[cc]), core' = core PROVE GateTurn
  BY <1>same, <1>mode DEF gateSender, GateTurn
\* A caller that goes on within a mode, or from one to the next.
<1>goto. ASSUME NEW from \in Points, NEW to \in Points, Goto(cc, from, to), core' = core
         PROVE  /\ pc[cc] = from /\ pc'[cc] = to /\ gateSender' = gateSender
                /\ GateModeAt(from) = GateModeAt(to) => GateTurn
                /\ GateModeAt(from) = "locked" /\ GateModeAt(to) = "suspended" => GateTurn
                /\ GateModeAt(from) = "suspended" /\ GateModeAt(to) = "resuming" => GateTurn
  <2>1. pc[cc] = from /\ pc'[cc] = to BY <1>goto, <1>type DEF Goto, CallerType
  <2>2. gateSender' = gateSender BY <1>goto DEF gateSender
  <2> QED BY <2>1, <2>2, <1>mode DEF GateTurn
<1> USE DEF GateModeAt, Points, Suspending, Resuming
<1>1. CASE CallNotConnected(cc) \/ CallBadArgs(cc) \/ Call(cc) \/ MonitorActivity(cc)
  BY <1>1, <1>goto DEF CallNotConnected, CallBadArgs, Call, MonitorActivity, stack
<1>2. CASE SuspendCheck(cc) \/ SuspendFlag(cc) \/ Divert(cc) \/ NotifySuspended(cc)
  BY <1>2, <1>goto DEF SuspendCheck, SuspendFlag, Divert, NotifySuspended, stack
<1>3. CASE ClearEvents(cc) \/ DispatchSleep(cc) \/ UnlockDeepSleep(cc)
  BY <1>3, <1>goto DEF ClearEvents, DispatchSleep, UnlockDeepSleep, stack
<1>4. CASE WakeActivity(cc) \/ WakeTimeout(cc) \/ GetMutex(cc) \/ LockDeepSleep(cc)
  BY <1>4, <1>goto DEF WakeActivity, WakeTimeout, GetMutex, LockDeepSleep, stack
<1>5. CASE DispatchAwake(cc) \/ Undivert(cc) \/ DrainOne(cc) \/ ResumeCheck(cc)
  BY <1>5, <1>goto DEF DispatchAwake, Undivert, DrainOne, ResumeCheck, stack, PlaceDecides
<1>6. CASE ResumeFlag(cc) \/ PutMutex(cc) \/ Exit(cc)
  BY <1>6, <1>goto DEF ResumeFlag, PutMutex, Exit, stack
<1>7. CASE SuspendLock(cc)
  <2>1. pc[cc] = "suspendLock" /\ pc'[cc] = "suspendFlag" /\ core = NoOne /\ core' = cc
    BY <1>7, <1>type DEF SuspendLock, Goto, CallerType
  <2> QED BY <2>1, <1>mode DEF gateSender, GateTurn
<1>8. CASE ResumeUnlock(cc)
  <2>1. pc[cc] = "resumeUnlock" /\ pc'[cc] = "resumeFlag" /\ core' = NoOne
    BY <1>8, <1>type DEF ResumeUnlock, Goto, CallerType
  <2>2. core = cc BY <2>1 DEF PlaceDecides
  <2> QED BY <2>1, <2>2, <1>mode DEF gateSender, GateTurn
<1>9. ASSUME NEW t \in TxTasks, TxLock(t) PROVE GateTurn
  <2>1. core = NoOne /\ core' = t /\ pc' = pc BY <1>9 DEF TxLock
  <2>2. gateMode = "running" /\ gateMode' = gateMode
    BY <2>1, <1>mode DEF gateMode
  <2> QED BY <2>1, <2>2 DEF gateSender, GateTurn
<1>10. ASSUME NEW t \in TxTasks, TxUnlock(t) PROVE GateTurn
  <2>1. core = t BY <1>10 DEF TxUnlock, TxGoto, Inv, StackLockedThroughout
  <2>2. core' = NoOne /\ pc' = pc BY <1>10 DEF TxUnlock
  <2> QED BY <2>1, <2>2, <1>mode DEF gateSender, GateTurn
<1>11. CASE UNCHANGED <<pc, core>> BY <1>11, <1>same
<1>12. ASSUME NEW t \in TxTasks, TxNotify(t) PROVE GateTurn
  <2>1. UNCHANGED <<pc, core>> BY <1>12 DEF TxNotify, stack
  <2> QED BY <2>1, <1>11
<1>13. CASE WhdNext
  BY <1>13, <1>11
  DEF WhdNext, RxStep, EventStep, RxArrives, RxRoute, RxActivity, RxInput, EventArrives,
      EventLock, EventHandler, EventUnlock, stack
<1>14. CASE UNCHANGED vars BY <1>14, <1>11 DEF vars, stack
<1> QED
  BY <1>1, <1>2, <1>3, <1>4, <1>5, <1>6, <1>7, <1>8, <1>9, <1>10, <1>12, <1>13, <1>14
  DEF Next, CallerNext, CallerStep, TxNext

\* Every step of the handler is a step of the gate, or none.
LEMMA GateStep ==
  ASSUME NEW cc, Callers = {cc}, Inv, PacketsInPlace, PlaceDecides(cc), PlaceDecides(cc)',
         [Next]_vars
  PROVE  [Gate!Next]_<<gateMode, gateSender, gateFate>>
<1> USE DEF Gate!Next, gateSender
<1>1. CASE RxArrives \/ RxActivity \/ RxInput \/ \E c \in Callers : DrainOne(c)
  <2>1. gateMode' = gateMode /\ gateSender' = gateSender
    <3>1. CASE UNCHANGED <<pc, core, app>>
      BY <3>1 DEF gateMode
    <3>2. ASSUME NEW c \in Callers, DrainOne(c) PROVE UNCHANGED <<pc, core, app>>
      BY <3>2 DEF DrainOne, Goto, stack, view, Inv, TypeOK, CallerType
    <3> QED
      BY <1>1, <3>1, <3>2 DEF RxArrives, RxActivity, RxInput, stack, view
  <2> QED
    BY <1>1, <2>1, GateReceives DEF Inv, Gate!Take, Gate!Deliver, Gate!Release, Gate!Decide
<1>2. CASE ~(RxArrives \/ RxActivity \/ RxInput \/ \E c \in Callers : DrainOne(c))
  <2>1. gateFate' = gateFate
    <3>1. UNCHANGED packets BY <1>2, OtherPackets DEF Inv
    <3> QED BY <3>1, FateKept DEF packets
  <2> QED
    BY <2>1, GateTurns
    DEF GateTurn, Gate!Lock, Gate!Announce, Gate!Recall, Gate!Unlock, Gate!Turn, Gate!Enter, Gate!Leave
<1> QED BY <1>1, <1>2

\* The handler implements the gate: it is never left half-way, the application
\* hears of it in order, a task goes through it only while it is open, and a
\* packet's fate is decided once.
THEOREM GateIsImplemented ==
  ASSUME NEW CONSTANT cc, Callers = {cc}
  PROVE  Spec => GateSpec
<1>1. Init => Gate!Init
  <2> SUFFICES ASSUME Init PROVE Gate!Init OBVIOUS
  <2>1. gateMode = "running" BY ConstAssumption DEF Init, gateMode
  <2>2. gateFate = [p \in 1 .. MaxPkts |-> "none"]
    BY ConstAssumption DEF Init, gateFate, Packets
  <2> QED BY <2>1, <2>2, ConstAssumption DEF Gate!Init, Init
<1>2. Inv /\ PacketsInPlace /\ PlaceDecides(cc) /\ PlaceDecides(cc)' /\ [Next]_vars
      => [Gate!Next]_(Gate!gateVars)
  BY GateStep DEF Gate!gateVars, gateSender
<1> QED
  BY <1>1, <1>2, Invariance, PacketInvariance, PlaceInvariance, PTL
  DEF Spec, GateSpec, Gate!Spec
=============================================================================
