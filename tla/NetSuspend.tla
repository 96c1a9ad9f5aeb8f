----------------------------- MODULE NetSuspend -----------------------------
(***************************************************************************)
(* The network activity handler (helpers/net_activity, lwIP build): the    *)
(* threads that call wait_net_suspend, the WHD thread that delivers        *)
(* received packets and firmware events, and the tasks that want to send.  *)
(*                                                                         *)
(* They share the lwIP core lock, the event bits cy_lp_wait_net_event, the *)
(* rx-queue callback slot and the rx queue, cy_lp_mutex, and the count of  *)
(* deep-sleep locks.  Accesses to these by one thread are separate steps   *)
(* unless they commute with every step another thread can take in between. *)
(* Time is abstract: a timed wait may end whenever its condition is false. *)
(***************************************************************************)
EXTENDS Naturals, Sequences, FiniteSets

CONSTANTS
  Callers,     \* threads that call wait_net_suspend
  TxTasks,     \* tasks that call into lwIP
  NoOne,       \* the owner of a lock nobody holds
  Whd,         \* the WHD driver's thread, as the owner of a lock
  MaxPkts,     \* packets received in a behaviour (a bound of the model)
  QLen,        \* RX_PKT_Q_LENGTH
  Waits        \* the kinds of wait_ms the callers use

ASSUME ConstAssumption ==
  /\ IsFiniteSet(Callers)
  /\ Callers \cap TxTasks = {}
  /\ NoOne \notin Callers \cup TxTasks
  /\ Whd \notin Callers \cup {NoOne}
  /\ MaxPkts \in Nat
  /\ QLen \in Nat \ {0}
  /\ Waits \subseteq {"finite", "forever"}

VARIABLES
  pc,          \* where each caller is in wait_net_suspend
  ret,         \* its local "state": what it returns
  wait,        \* its wait_ms: "forever" is CY_RTOS_NEVER_TIMEOUT
  ready,       \* cy_lp_wait_net_event_valid, set by the one-time initialisation
  events,      \* the bits set in cy_lp_wait_net_event
  raised,      \* history: flags signalled since the stack was locked and not
               \* yet answered by a wake-up
  suspended,   \* cylpa_s_ns_suspended
  core,        \* the owner of the lwIP core lock
  rxCb,        \* TRUE iff cylpa_rx_activity is the registered rx-queue callback
  mutex,       \* the owner of cy_lp_mutex
  dsLocks,     \* the deep-sleep lock count of the system power manager
  app,         \* what the application was notified of last
  olm,         \* the power state dispatched to the offloads last
  hooked,      \* TRUE iff an offload's event handler is registered with WHD
  whd,         \* the WHD thread: its place, and the packet in its hands
  tx,          \* where each sending task is
  arrived,     \* packets taken from the bus so far: 1 .. arrived
  rxQueue,     \* rx_pkt_q_handle
  delivered,   \* packets handed to netif->input, in order
  released     \* packets whose buffer was given back unprocessed

local   == <<ret, wait, ready>>
bits    == <<events, raised>>
stack   == <<suspended, core, rxCb>>
sync    == <<mutex, dsLocks>>
view    == <<app, olm, hooked>>
threads == <<whd, tx>>
packets == <<arrived, rxQueue, delivered, released>>
vars    == <<pc, local, bits, stack, sync, view, threads, packets>>

Packets == 1 .. MaxPkts
Flags   == {"RX", "TX"}
Rets    == {"SUCCESS", "BAD_STATE", "BAD_ARGS", "NET_ACTIVITY",
            "WAIT_TIMEOUT_EXPIRED", "WAIT_INACTIVITY_TIMEOUT_EXPIRED"}

\* The points of wait_net_suspend, named for what the caller does next.
Suspending == {"suspendFlag", "divert", "notify", "clear", "sleep", "unlockDs",
               "wait"}
Resuming   == {"getMutex", "lockDs", "awake", "undivert", "drain",
               "resumeUnlock"}
Points     == Suspending \cup Resuming \cup
              {"idle", "monitor", "suspendLock", "failDivert", "resumeFlag",
               "putMutex", "exit"}

Init ==
  /\ pc = [c \in Callers |-> "idle"] /\ ret = [c \in Callers |-> "SUCCESS"]
  /\ wait = [c \in Callers |-> "finite"]
  /\ ready = FALSE /\ events = {} /\ raised = {}
  /\ suspended = FALSE /\ core = NoOne /\ rxCb = FALSE
  /\ mutex = NoOne /\ dsLocks = 0
  /\ app = "resumed" /\ olm = "awake" /\ hooked = FALSE
  /\ whd = [at |-> "idle", pkt |-> 0]
  /\ tx = [t \in TxTasks |-> "idle"]
  /\ arrived = 0 /\ rxQueue = <<>> /\ delivered = <<>> /\ released = {}

Goto(c, from, to) == pc[c] = from /\ pc' = [pc EXCEPT ![c] = to]
Return(c, s)      == ret' = [ret EXCEPT ![c] = s]

WhdGoto(from, to, p) == whd.at = from /\ whd' = [at |-> to, pkt |-> p]

\* cylpa_on_emac_activity: nothing happens before the event is initialised.
OnEmacActivity(flag) ==
  /\ events' = IF ready THEN events \cup {flag} ELSE events
  /\ raised' = IF ready /\ \E c \in Callers : pc[c] \in Suspending
               THEN raised \cup {flag} ELSE raised

-----------------------------------------------------------------------------
(* Mutants: plausible slips in the operations below, which the properties  *)
(* must tell from the code.                                                *)

\* The deep-sleep lock is forgotten on the bad-argument path.
CallBadArgs_NoLock(c) ==
  /\ Goto(c, "idle", "exit") /\ Return(c, "BAD_ARGS") /\ ready' = TRUE
  /\ UNCHANGED <<wait, bits, stack, sync, view, threads, packets>>

\* An expired interval returns at once, past the unlock of deep sleep.
MonitorActivity_Returns(c) ==
  /\ events # {} /\ events' = {}
  /\ Goto(c, "monitor", "idle") /\ Return(c, "WAIT_INACTIVITY_TIMEOUT_EXPIRED")
  /\ UNCHANGED <<wait, ready, raised, stack, sync, view, threads, packets>>

\* The core lock is taken with a try-lock whose failure is ignored.
SuspendLock_NoWait(c) ==
  /\ Goto(c, "suspendLock", "suspendFlag")
  /\ core' = (IF core = NoOne THEN c ELSE core) /\ raised' = {}
  /\ UNCHANGED <<local, events, suspended, rxCb, sync, view, threads, packets>>

\* The flag is not set, so that cylpa_resume_ns sees nothing to resume.
SuspendFlag_Dropped(c) ==
  /\ Goto(c, "suspendFlag", "divert")
  /\ UNCHANGED <<local, bits, stack, sync, view, threads, packets>>

\* The offloads are sent the wrong power state.
DispatchSleep_Awake(c) ==
  /\ Goto(c, "sleep", "unlockDs") /\ olm' = "awake" /\ hooked' \in BOOLEAN
  /\ UNCHANGED <<local, bits, stack, sync, app, threads, packets>>

\* wait_ms is not passed to the wait for emac activity.
WakeTimeout_Never(c) == FALSE /\ UNCHANGED vars

\* The mutex is awaited for a default time, whatever wait_ms is.
GetMutex_Bounded(c) ==
  /\ Goto(c, "getMutex", "lockDs")
  /\ (mutex = NoOne /\ mutex' = c) \/ (mutex # NoOne /\ UNCHANGED mutex)
  /\ UNCHANGED <<local, bits, stack, dsLocks, view, threads, packets>>

\* The application is not told that the stack resumes.
LockDeepSleep_Silent(c) ==
  /\ Goto(c, "lockDs", "awake") /\ dsLocks' = dsLocks + 1
  /\ UNCHANGED <<local, bits, stack, mutex, view, threads, packets>>

\* The offloads are not reset.
DispatchAwake_Dropped(c) ==
  /\ Goto(c, "awake", "undivert")
  /\ UNCHANGED <<local, bits, stack, sync, view, threads, packets>>

\* The rx-queue callback stays registered.
Undivert_Dropped(c) ==
  /\ Goto(c, "undivert", "drain")
  /\ UNCHANGED <<local, bits, stack, sync, view, threads, packets>>

\* The mutex is kept.
PutMutex_Dropped(c) ==
  /\ Goto(c, "putMutex", "exit")
  /\ UNCHANGED <<local, bits, stack, sync, view, threads, packets>>

\* A packet that finds the queue full is neither queued nor released.
RxActivity_Leaks ==
  /\ WhdGoto("queue", "idle", 0)
  /\ rxQueue' = IF Len(rxQueue) < QLen THEN Append(rxQueue, whd.pkt) ELSE rxQueue
  /\ UNCHANGED <<pc, local, bits, stack, sync, view, tx, arrived, delivered, released>>

-----------------------------------------------------------------------------
(* wait_net_suspend: entry, and cylpa_wait_net_inactivity                  *)

CallNotConnected(c) ==
  /\ Goto(c, "idle", "idle")
  /\ Return(c, "BAD_STATE")
  /\ UNCHANGED <<wait, ready, bits, stack, sync, view, threads, packets>>

\* The interval is not larger than the window.
CallBadArgs(c) ==
  /\ Goto(c, "idle", "exit")
  /\ Return(c, "BAD_ARGS")
  /\ ready' = TRUE
  /\ dsLocks' = dsLocks + 1
  /\ UNCHANGED <<wait, bits, stack, mutex, view, threads, packets>>

Call(c) ==
  /\ Goto(c, "idle", "monitor")
  /\ Return(c, "SUCCESS")
  /\ \E w \in Waits : wait' = [wait EXCEPT ![c] = w]
  /\ ready' = TRUE
  /\ dsLocks' = dsLocks + 1
  /\ events' = {}
  /\ UNCHANGED <<raised, stack, mutex, view, threads, packets>>

\* Activity: the bits are consumed, and the window starts again unless the
\* interval is used up.
MonitorActivity(c) ==
  /\ events # {}
  /\ events' = {}
  /\ \/ Goto(c, "monitor", "monitor") /\ UNCHANGED ret
     \/ Goto(c, "monitor", "exit") /\ Return(c, "WAIT_INACTIVITY_TIMEOUT_EXPIRED")
  /\ UNCHANGED <<wait, ready, raised, stack, sync, view, threads, packets>>

-----------------------------------------------------------------------------
(* cylpa_suspend_ns and what follows it                                    *)

\* A whole window passed without activity; cylpa_suspend_ns then reads its
\* flag, holding no lock.
SuspendCheck(c) ==
  /\ events = {}
  /\ \/ suspended /\ Goto(c, "monitor", "failDivert") /\ Return(c, "BAD_STATE")
     \/ ~suspended /\ Goto(c, "monitor", "suspendLock") /\ UNCHANGED ret
  /\ UNCHANGED <<wait, ready, bits, stack, sync, view, threads, packets>>

\* LOCK_TCPIP_CORE
SuspendLock(c) ==
  /\ Goto(c, "suspendLock", "suspendFlag")
  /\ core = NoOne
  /\ core' = c
  /\ raised' = {}
  /\ UNCHANGED <<local, events, suspended, rxCb, sync, view, threads, packets>>

SuspendFlag(c) ==
  /\ Goto(c, "suspendFlag", "divert")
  /\ suspended' = TRUE
  /\ UNCHANGED <<local, bits, core, rxCb, sync, view, threads, packets>>

\* The rx-queue callback is registered even when the suspension failed.
Divert(c) ==
  /\ \/ Goto(c, "divert", "notify")
     \/ Goto(c, "failDivert", "exit")
  /\ rxCb' = TRUE
  /\ UNCHANGED <<local, bits, suspended, core, sync, view, threads, packets>>

NotifySuspended(c) ==
  /\ Goto(c, "notify", "clear")
  /\ app' = "suspended"
  /\ UNCHANGED <<local, bits, stack, sync, olm, hooked, threads, packets>>

\* The bits are cleared once more, with the stack already locked.
ClearEvents(c) ==
  /\ Goto(c, "clear", "sleep")
  /\ events' = {}
  /\ UNCHANGED <<local, raised, stack, sync, view, threads, packets>>

DispatchSleep(c) ==
  /\ Goto(c, "sleep", "unlockDs")
  /\ olm' = "asleep" /\ hooked' \in BOOLEAN
  /\ UNCHANGED <<local, bits, stack, sync, app, threads, packets>>

UnlockDeepSleep(c) ==
  /\ Goto(c, "unlockDs", "wait")
  /\ dsLocks' = dsLocks - 1
  /\ UNCHANGED <<local, bits, stack, mutex, view, threads, packets>>

-----------------------------------------------------------------------------
(* The wait for emac activity and the wake-up sequence                     *)

\* All bits are consumed.  An answer that took longer than wait_ms is returned
\* as a timeout.
WakeActivity(c) ==
  /\ Goto(c, "wait", "getMutex")
  /\ events # {}
  /\ events' = {} /\ raised' = {}
  /\ Return(c, "NET_ACTIVITY") \/ (wait[c] = "finite" /\ Return(c, "WAIT_TIMEOUT_EXPIRED"))
  /\ UNCHANGED <<wait, ready, stack, sync, view, threads, packets>>

WakeTimeout(c) ==
  /\ Goto(c, "wait", "getMutex")
  /\ wait[c] = "finite" /\ events = {}
  /\ raised' = {}
  /\ Return(c, "WAIT_TIMEOUT_EXPIRED")
  /\ UNCHANGED <<wait, ready, events, stack, sync, view, threads, packets>>

\* cy_rtos_get_mutex waits wait_ms at most, and its result is ignored.
GetMutex(c) ==
  /\ Goto(c, "getMutex", "lockDs")
  /\ \/ mutex = NoOne /\ mutex' = c
     \/ mutex # NoOne /\ wait[c] = "finite" /\ UNCHANGED mutex
  /\ UNCHANGED <<local, bits, stack, dsLocks, view, threads, packets>>

LockDeepSleep(c) ==
  /\ Goto(c, "lockDs", "awake")
  /\ dsLocks' = dsLocks + 1
  /\ app' = "resumed"
  /\ UNCHANGED <<local, bits, stack, mutex, olm, hooked, threads, packets>>

\* The offloads may or may not take their handlers back.  Their ioctls end with
\* an answer or with their own timeout, so the dispatch returns even while the
\* WHD thread is blocked on cy_lp_mutex.
DispatchAwake(c) ==
  /\ Goto(c, "awake", "undivert")
  /\ olm' = "awake" /\ hooked' \in {hooked, FALSE}
  /\ UNCHANGED <<local, bits, stack, sync, app, threads, packets>>

Undivert(c) ==
  /\ Goto(c, "undivert", "drain")
  /\ rxCb' = FALSE
  /\ UNCHANGED <<local, bits, suspended, core, sync, view, threads, packets>>

\* One round of cylpa_rx_queue_pkt_input: a packet lwIP refuses is released.
DrainOne(c) ==
  /\ Goto(c, "drain", "drain")
  /\ rxQueue # <<>>
  /\ rxQueue' = Tail(rxQueue)
  /\ \/ delivered' = Append(delivered, Head(rxQueue)) /\ UNCHANGED released
     \/ released' = released \cup {Head(rxQueue)} /\ UNCHANGED delivered
  /\ UNCHANGED <<local, bits, stack, sync, view, threads, arrived>>

\* The queue is empty; cylpa_resume_ns does nothing when the flag is clear.
ResumeCheck(c) ==
  /\ rxQueue = <<>>
  /\ \/ suspended /\ Goto(c, "drain", "resumeUnlock")
     \/ ~suspended /\ Goto(c, "drain", "putMutex")
  /\ UNCHANGED <<local, bits, stack, sync, view, threads, packets>>

\* UNLOCK_TCPIP_CORE, before the flag is cleared.
ResumeUnlock(c) ==
  /\ Goto(c, "resumeUnlock", "resumeFlag")
  /\ core' = NoOne
  /\ UNCHANGED <<local, bits, suspended, rxCb, sync, view, threads, packets>>

ResumeFlag(c) ==
  /\ Goto(c, "resumeFlag", "putMutex")
  /\ suspended' = FALSE
  /\ UNCHANGED <<local, bits, core, rxCb, sync, view, threads, packets>>

\* The kernel refuses to release a mutex the caller does not own.
PutMutex(c) ==
  /\ Goto(c, "putMutex", "exit")
  /\ mutex' = IF mutex = c THEN NoOne ELSE mutex
  /\ UNCHANGED <<local, bits, stack, dsLocks, view, threads, packets>>

Exit(c) ==
  /\ Goto(c, "exit", "idle")
  /\ dsLocks' = dsLocks - 1
  /\ UNCHANGED <<local, bits, stack, mutex, view, threads, packets>>

-----------------------------------------------------------------------------
(* The WHD thread (external): cy_network_process_ethernet_data calls the   *)
(* activity callback, then the rx-queue callback if there is one and       *)
(* netif->input otherwise; firmware events run the TKO and TLS handlers.   *)

RxArrives ==
  /\ arrived < MaxPkts
  /\ arrived' = arrived + 1
  /\ WhdGoto("idle", "rx", arrived + 1)
  /\ OnEmacActivity("RX")
  /\ UNCHANGED <<pc, local, stack, sync, view, tx, rxQueue, delivered, released>>

RxRoute ==
  /\ WhdGoto("rx", IF rxCb THEN "queue" ELSE "input", whd.pkt)
  /\ UNCHANGED <<pc, local, bits, stack, sync, view, tx, packets>>

\* cylpa_rx_activity: a packet that finds the queue full is lost.
RxActivity ==
  /\ WhdGoto("queue", "idle", 0)
  /\ IF Len(rxQueue) < QLen
     THEN rxQueue' = Append(rxQueue, whd.pkt) /\ UNCHANGED released
     ELSE released' = released \cup {whd.pkt} /\ UNCHANGED rxQueue
  /\ UNCHANGED <<pc, local, bits, stack, sync, view, tx, arrived, delivered>>

RxInput ==
  /\ WhdGoto("input", "idle", 0)
  /\ \/ delivered' = Append(delivered, whd.pkt) /\ UNCHANGED released
     \/ released' = released \cup {whd.pkt} /\ UNCHANGED delivered
  /\ UNCHANGED <<pc, local, bits, stack, sync, view, tx, arrived, rxQueue>>

\* whd_callback_handler and tlsoe_callback_handler take cy_lp_mutex, with no
\* timeout, around cylpa_on_emac_activity.
EventArrives ==
  /\ hooked
  /\ WhdGoto("idle", "evMutex", 0)
  /\ UNCHANGED <<pc, local, bits, stack, sync, view, tx, packets>>

EventLock ==
  /\ WhdGoto("evMutex", "event", 0)
  /\ mutex = NoOne
  /\ mutex' = Whd
  /\ UNCHANGED <<pc, local, bits, stack, dsLocks, view, tx, packets>>

EventHandler ==
  /\ WhdGoto("event", "evUnlock", 0)
  /\ OnEmacActivity("RX")
  /\ UNCHANGED <<pc, local, stack, sync, view, tx, packets>>

EventUnlock ==
  /\ WhdGoto("evUnlock", "idle", 0)
  /\ mutex' = NoOne
  /\ UNCHANGED <<pc, local, bits, stack, dsLocks, view, tx, packets>>

-----------------------------------------------------------------------------
(* A task that sends signals the activity, then takes the core lock.       *)

TxGoto(t, from, to) == tx[t] = from /\ tx' = [tx EXCEPT ![t] = to]

TxNotify(t) ==
  /\ TxGoto(t, "idle", "blocked")
  /\ OnEmacActivity("TX")
  /\ UNCHANGED <<pc, local, stack, sync, view, whd, packets>>

TxLock(t) ==
  /\ TxGoto(t, "blocked", "sending")
  /\ core = NoOne
  /\ core' = t
  /\ UNCHANGED <<pc, local, bits, suspended, rxCb, sync, view, whd, packets>>

TxUnlock(t) ==
  /\ TxGoto(t, "sending", "idle")
  /\ core' = NoOne
  /\ UNCHANGED <<pc, local, bits, suspended, rxCb, sync, view, whd, packets>>

-----------------------------------------------------------------------------
\* What a caller does on its own once it has been called.
CallerStep(c) ==
  \/ MonitorActivity(c) \/ SuspendCheck(c) \/ SuspendLock(c) \/ SuspendFlag(c)
  \/ Divert(c) \/ NotifySuspended(c) \/ ClearEvents(c) \/ DispatchSleep(c)
  \/ UnlockDeepSleep(c) \/ WakeActivity(c) \/ WakeTimeout(c) \/ GetMutex(c)
  \/ LockDeepSleep(c) \/ DispatchAwake(c) \/ Undivert(c) \/ DrainOne(c)
  \/ ResumeCheck(c) \/ ResumeUnlock(c) \/ ResumeFlag(c) \/ PutMutex(c) \/ Exit(c)

CallerNext(c) == CallNotConnected(c) \/ CallBadArgs(c) \/ Call(c) \/ CallerStep(c)

RxStep    == RxRoute \/ RxActivity \/ RxInput
EventStep == EventLock \/ EventHandler \/ EventUnlock
WhdNext   == RxArrives \/ EventArrives \/ RxStep \/ EventStep
TxNext(t) == TxNotify(t) \/ TxLock(t) \/ TxUnlock(t)

Next ==
  \/ \E c \in Callers : CallerNext(c)
  \/ WhdNext
  \/ \E t \in TxTasks : TxNext(t)

Spec == Init /\ [][Next]_vars

\* The scheduler runs every ready thread; a lock goes to its waiters in turn
\* (strong fairness); real time uses up the monitoring interval.  Nobody is
\* obliged to call wait_net_suspend, to send, or to receive.
Fairness ==
  /\ \A c \in Callers :
       /\ WF_vars(CallerStep(c))
       /\ SF_vars(SuspendLock(c))
       /\ SF_vars(GetMutex(c))
       /\ SF_vars(MonitorActivity(c) /\ pc'[c] = "exit")
  /\ WF_vars(RxStep) /\ WF_vars(EventStep) /\ SF_vars(EventLock)
  /\ \A t \in TxTasks : SF_vars(TxLock(t)) /\ WF_vars(TxUnlock(t))

FairSpec == Spec /\ Fairness

-----------------------------------------------------------------------------
(* Properties                                                              *)

Elems(s) == { s[i] : i \in DOMAIN s }

CallerType ==
  /\ pc \in [Callers -> Points] /\ ret \in [Callers -> Rets]
  /\ wait \in [Callers -> {"finite", "forever"}] /\ ready \in BOOLEAN
BitsType == events \subseteq Flags /\ raised \subseteq Flags
StackType ==
  suspended \in BOOLEAN /\ rxCb \in BOOLEAN /\ core \in Callers \cup TxTasks \cup {NoOne}
SyncType == mutex \in Callers \cup {Whd, NoOne} /\ dsLocks \in Nat
ViewType ==
  app \in {"resumed", "suspended"} /\ olm \in {"awake", "asleep"} /\ hooked \in BOOLEAN
ThreadType ==
  /\ whd \in [at : {"idle", "evMutex", "event", "evUnlock"}, pkt : {0}]
             \cup [at : {"rx", "queue", "input"}, pkt : Packets]
  /\ tx \in [TxTasks -> {"idle", "blocked", "sending"}]
PacketType ==
  /\ arrived \in 0 .. MaxPkts
  /\ rxQueue \in Seq(Packets) /\ delivered \in Seq(Packets)
  /\ released \subseteq Packets

\* Every variable stays in its type; the deep-sleep count never goes negative.
TypeOK ==
  /\ CallerType /\ BitsType /\ StackType /\ SyncType
  /\ ViewType /\ ThreadType /\ PacketType

\* From LOCK_TCPIP_CORE to UNLOCK_TCPIP_CORE the caller owns the core lock: no
\* task is inside lwIP while the stack counts as suspended, and no caller
\* unlocks a core it does not own.  However many threads call.
StackLockedThroughout ==
  /\ \A c \in Callers : pc[c] \in Suspending \cup Resuming => core = c
  /\ \A t \in TxTasks : tx[t] = "sending" => core = t

\* No buffer is lost or used twice: each packet that arrived is in exactly one
\* of the WHD thread's hands, the rx queue, lwIP and the released ones, and is
\* there once.  Covers the full queue, the refused input and the race of the
\* WHD thread with the change of the rx-queue callback.
BuffersAccounted ==
  LET Hand == IF whd.pkt = 0 THEN {} ELSE {whd.pkt}
  IN  /\ Hand \cup Elems(rxQueue) \cup Elems(delivered) \cup released = 1 .. arrived
      /\ Cardinality(Hand) + Len(rxQueue) + Len(delivered) + Cardinality(released)
           = arrived
      /\ Len(rxQueue) <= QLen

\* The deep-sleep lock is held once by each caller that is monitoring,
\* suspending or resuming, and by no caller that waits or has returned, on
\* every way out of wait_net_suspend.
AwakeCallers ==
  {c \in Callers : pc[c] \notin {"idle", "wait", "getMutex", "lockDs"}}

DeepSleepBalanced == dsLocks = Cardinality(AwakeCallers)

\* When the MCU may enter deep sleep with the stack suspended, the offloads
\* have been put to sleep, received packets are diverted to the rx queue, and
\* the application knows.
DeepSleepPrepared ==
  dsLocks = 0 /\ suspended => olm = "asleep" /\ rxCb /\ app = "suspended"

\* Packets are diverted to the rx queue only while a caller keeps the stack
\* locked and will drain the queue: "to queue the incoming packets while the
\* network stack is in suspended state".
DivertedOnlyWhileLocked == rxCb => core \in Callers

\* The offloads are in their sleep configuration only while the host stack is
\* locked: a frame the host could answer is not left to the firmware.
OffloadsAsleepOnlyWhileLocked == olm = "asleep" => suspended /\ core \in Callers

\* Once every call has returned, no caller owns the core lock: the flag
\* cylpa_s_ns_suspended is "a check to prevent successive locking/unlocking".
StackUnlockedOnReturn ==
  (\A c \in Callers : pc[c] = "idle") => core \notin Callers

\* Once every call has returned, the stack is unlocked and marked so, the mutex
\* is free, no packet is diverted, and the application and the offloads are back.
ReleasedOnReturn ==
  (\A c \in Callers : pc[c] = "idle") =>
    /\ ~suspended /\ core \notin Callers /\ mutex \notin Callers
    /\ ~rxCb /\ app = "resumed" /\ olm = "awake" /\ dsLocks = 0

\* With wait_ms = CY_RTOS_NEVER_TIMEOUT the wake-up sequence runs under
\* cy_lp_mutex: no event handler of an offload runs inside it.
ResumeExcludesHandlers ==
  \A c \in Callers :
    pc[c] \in (Resuming \ {"getMutex"}) \cup {"resumeFlag", "putMutex"}
      /\ wait[c] = "forever"
    => mutex = c /\ whd.at \notin {"event", "evUnlock"}

\* An activity signalled after the stack was locked is answered: no caller
\* waits for activity with all bits clear when one was raised since.
WakeupKept ==
  \A c \in Callers : pc[c] = "wait" /\ raised # {} => events # {}

\* cylpa_rx_queue_pkt_input "pushes all the packets queued by the WHD thread
\* during the wake up sequence": none is left in the queue after the calls.
AllQueuedPushed == (\A c \in Callers : pc[c] = "idle") => rxQueue = <<>>

\* A call with a finite wait_ms returns, whatever the other threads do.
CallReturns == \A c \in Callers : pc[c] # "idle" ~> pc[c] = "idle"

\* A task that signalled its activity and blocks on the core lock gets it.
SenderProceeds == \A t \in TxTasks : tx[t] = "blocked" ~> tx[t] = "sending"

-----------------------------------------------------------------------------
(* The refinement of StackGate.                                            *)

gateMode ==
  IF core \notin Callers THEN "running"
  ELSE IF app = "suspended" THEN "suspended"
  ELSE IF pc[core] \in {"suspendFlag", "divert", "notify"} THEN "locked"
  ELSE "resuming"

gateFate ==
  [p \in Packets |-> IF p > arrived THEN "none"
                     ELSE IF p \in Elems(delivered) THEN "delivered"
                     ELSE IF p \in released THEN "released" ELSE "taken"]

Gate == INSTANCE StackGate
          WITH mode <- gateMode, fate <- gateFate,
               sender <- IF core \in TxTasks THEN core ELSE NoOne

\* The handler implements the gate: the stack is never left half-way, the
\* application hears of it in order, and a packet's fate is decided once.
GateSpec == Gate!Spec
=============================================================================
