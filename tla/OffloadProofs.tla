---------------------------- MODULE OffloadProofs ----------------------------
(***************************************************************************)
(* The places of the two threads that drive the offloads, and what the     *)
(* dispatching one holds of the network stack at each of them, for every   *)
(* list of offloads, every bound and both stacks; then the NAT keep-alive, *)
(* which is on while the thread of the connection manager has been past it.*)
(***************************************************************************)
EXTENDS OffloadSystem, NaturalsInduction, WellFoundedInduction, TLAPS

Threads == {"lpa", "net"}
Place   == [at : Phases, i : Nat \ {0}, last : Nat, part : Parts, k : Nat]
PcType  == pc \in [Threads -> Place]

\* The dispatching thread is inside a function of an offload only in the phases
\* in which it walks through the list.
LpaParts ==
  /\ pc["lpa"].at \in {"idle", "suspend", "locked", "sleep", "asleep", "awake",
                       "resume", "stuck"}
  /\ pc["lpa"].at \in {"idle", "suspend", "asleep", "stuck"} => pc["lpa"].part = "start"
  /\ pc["lpa"].at = "locked" => pc["lpa"].part \in {"start", "dhcp"}
  /\ pc["lpa"].at = "resume" => pc["lpa"].part \in {"start", "ip"}

\* What a step of an offload does to the threads: the dispatching one stays where
\* it is, or moves within the walk through the list.
LpaMoves == pc'["lpa"].at = pc["lpa"].at /\ pc["lpa"].at \in {"sleep", "awake"}
PcFrame  == PcType' /\ (pc'["lpa"] = pc["lpa"] \/ LpaMoves)
Frame    == PcFrame /\ cfg' = cfg /\ faults \subseteq faults'

\* Going on to the next offload moves one thread, within its walk.
LEMMA NextPlace ==
  ASSUME PcType, NEW t \in Threads, NextOffload(t)
  PROVE  PcType' /\ pc'[t].at = pc[t].at /\ \A u \in Threads \ {t} : pc'[u] = pc[u]
<1> DEFINE next == [at |-> pc[t].at, i |-> pc[t].i + 1, last |-> pc[t].last,
                    part |-> "start", k |-> 0]
<1>1. pc[t] \in Place BY DEF PcType
<1>2. next \in Place BY <1>1 DEF Place, Parts
<1>3. pc' = [u \in Threads |-> IF u = t THEN next ELSE pc[u]]
  BY <1>1 DEF NextOffload, PcType, Place
<1> HIDE DEF next
<1>4. PcType' BY <1>2, <1>3 DEF PcType
<1>5. pc'[t] = next BY <1>3
<1> QED BY <1>3, <1>4, <1>5 DEF next

\* The dispatching thread is moved by its part of a step, and by nothing else.
LEMMA LpaStep ==
  ASSUME PcType, pc["lpa"].at \in {"sleep", "awake"}, NEW p \in Parts, NEW k \in Nat,
         Goto("lpa", p) \/ Count("lpa", p, k) \/ NextOffload("lpa")
  PROVE  PcFrame
<1>1. CASE Goto("lpa", p) BY <1>1 DEF PcType, Goto, PcFrame, LpaMoves, Place, Threads
<1>2. CASE Count("lpa", p, k)
  <2>1. PcType' BY <1>2 DEF PcType, Count, Place, Threads
  <2>2. pc'["lpa"].at = pc["lpa"].at BY <1>2 DEF PcType, Count, Place, Threads
  <2> QED BY <2>1, <2>2 DEF PcFrame, LpaMoves
<1>3. CASE NextOffload("lpa")
  BY <1>3, NextPlace DEF PcFrame, LpaMoves, Threads
<1> QED BY <1>1, <1>2, <1>3

\* The connection manager's thread begins another walk.
LEMMA NetWalk ==
  ASSUME PcType, NEW at \in Phases, NEW last \in Nat, Walk("net", at, last)
  PROVE  PcFrame
<1>1. [at |-> at, i |-> 1, last |-> last, part |-> "start", k |-> 0] \in Place
  BY DEF Place, Parts
<1>2. PcType' BY <1>1 DEF PcType, Walk, Threads
<1> QED BY <1>2 DEF PcType, Walk, PcFrame, Threads

\* A step of the connection manager's thread leaves the dispatching one alone.
LEMMA NetStep ==
  ASSUME PcType, NEW p \in Parts, Goto("net", p) \/ NextOffload("net") \/ InitFails
  PROVE  PcFrame
<1>1. CASE Goto("net", p) BY <1>1 DEF PcType, Goto, PcFrame, Place, Threads
<1>2. CASE NextOffload("net")
  BY <1>2, NextPlace DEF PcFrame, Threads
<1>3. CASE InitFails
  <2>1. pc["net"].i - 1 \in Nat BY DEF PcType, Place, Threads
  <2> QED BY <1>3, <2>1, NetWalk DEF InitFails, Phases
<1> QED BY <1>1, <1>2, <1>3

\* What went wrong stays noted.
LEMMA FaultsGrow ==
  /\ \A kind : Faulty(kind) \/ Note(kind) => faults \subseteq faults'
  /\ \A kind, ok : Command(ok, kind) => faults \subseteq faults'
  /\ \A unknown : Asked(unknown) => faults \subseteq faults'
  /\ \A hop : NoteHop(hop) => faults \subseteq faults'
BY DEF Faulty, Note, Command, Asked, NoteHop

\* The steps of every component keep to Frame; first those of the TKO offload.
LEMMA TkoFrame ==
  ASSUME PcType, LpaParts, TkoStep
  PROVE  Frame
<1> USE FaultsGrow, LpaStep, NetStep DEF Parts
<1>1. CASE TkoInit
  BY <1>1 DEF TkoInit, At, Frame
<1>2. CASE TkoSleep
  BY <1>2 DEF TkoSleep, At, Frame
<1>3. CASE \E part \in {"activate", "found"} : TkoActivate(part)
  BY <1>3 DEF TkoActivate, At, PcType, Place, Threads, Frame
<1>4. CASE TkoActivated
  BY <1>4 DEF TkoActivated, At, Frame
<1>5. CASE TkoToggleOn
  BY <1>5 DEF TkoToggleOn, At, Frame
<1>6. CASE TkoRegister
  BY <1>6 DEF TkoRegister, Register, At, Frame
<1>7. CASE TkoMark
  BY <1>7 DEF TkoMark, At, Frame
<1>8. CASE \E t \in Threads : TkoDisable(t)
  BY <1>8 DEF TkoDisable, At, Disabling, Threads, Frame
<1>15. CASE \E t \in Threads : TkoUnmark(t)
  BY <1>15 DEF TkoUnmark, At, LpaParts, Threads, Frame
<1>9. CASE \E t \in Threads : TkoDeregister(t)
  BY <1>9 DEF TkoDeregister, At, LpaParts, Threads, Frame
<1>10. CASE \E t \in Threads : TkoToggleOff(t)
  BY <1>10 DEF TkoToggleOff, At, LpaParts, Threads, Frame
<1>11. CASE TkoEvent
  BY <1>11 DEF TkoEvent, PcFrame, PcType, Frame
<1>12. CASE TkoHandler
  BY <1>12 DEF TkoHandler, PcFrame, PcType, Frame
<1>13. CASE UpdateClear
  BY <1>13 DEF UpdateClear, PcFrame, PcType, env, Frame
<1>14. CASE UpdateWrite
  BY <1>14 DEF UpdateWrite, PcFrame, PcType, env, Frame
<1> QED
  BY <1>1, <1>2, <1>3, <1>4, <1>5, <1>6, <1>7, <1>8, <1>9, <1>10, <1>11, <1>12, <1>13, <1>14,
     <1>15 DEF TkoStep, Threads

\* The steps of the TLS offload.
LEMMA TlsFrame ==
  ASSUME PcType, LpaParts, TlsStep
  PROVE  Frame
<1> USE FaultsGrow, LpaStep, NetStep DEF Parts
<1>1. CASE TlsInit
  BY <1>1 DEF TlsInit, NoteConfig, At, PcFrame, PcType, Frame
<1>2. CASE TlsDeinit
  BY <1>2 DEF TlsDeinit, At, Frame
<1>3. CASE TlsSleep
  BY <1>3 DEF TlsSleep, LpaAt, At, Frame
<1>4. CASE TlsPattern
  BY <1>4 DEF TlsPattern, LpaAt, At, Frame
<1>5. CASE TlsActivate
  BY <1>5 DEF TlsActivate, LpaAt, At, Frame
<1>6. CASE TlsCleanUp
  BY <1>6 DEF TlsCleanUp, DeletePattern, LpaAt, At, Frame
<1>7. CASE TlsProtect
  BY <1>7 DEF TlsProtect, LpaAt, At, Frame
<1>8. CASE TlsRegister
  BY <1>8 DEF TlsRegister, Register, LpaAt, At, Frame
<1>9. CASE TlsWake
  <2>1. PcFrame BY <1>9 DEF TlsWake, LpaAt, At
  <2>2. \A ok : DeletePattern(ok) => faults \subseteq faults' BY DEF DeletePattern
  <2>3. faults \subseteq faults' BY <1>9, <2>2 DEF TlsWake
  <2> QED BY <1>9, <2>1, <2>3 DEF TlsWake, Frame
<1>10. CASE TlsRestore
  BY <1>10 DEF TlsRestore, LpaAt, At, Frame
<1>11. CASE TlsRelease
  <2>1. At("lpa", "awake", "tls", "release") /\ Goto("lpa", "clear") /\ UNCHANGED <<cfg, faults>>
    BY <1>11 DEF TlsRelease, LpaAt
  <2> QED BY <2>1 DEF At, Frame
<1>12. CASE TlsClear
  BY <1>12 DEF TlsClear, TlsCommand, LpaAt, At, Frame
<1>13. CASE TlsDeregister
  BY <1>13 DEF TlsDeregister, LpaAt, At, Frame
<1>14. CASE DeviceSends
  BY <1>14 DEF DeviceSends, PcFrame, PcType, Frame
<1>15. CASE WakeEvent
  BY <1>15 DEF WakeEvent, PcFrame, PcType, Frame
<1>16. CASE TlsHandler
  BY <1>16 DEF TlsHandler, PcFrame, PcType, Frame
<1>17. CASE \E c \in Conns : ConfigClear(c) \/ SetPorts(c)
  BY <1>17 DEF ConfigClear, SetPorts, NoteConfig, PcFrame, PcType, Frame
<1>18. CASE ConfigCopy \/ ConfigSocket \/ SetAddress
  BY <1>18 DEF ConfigCopy, ConfigSocket, SetAddress, NoteConfig, PcFrame, PcType, Frame
<1> QED BY <1>1, <1>2, <1>3, <1>4, <1>5, <1>6, <1>7, <1>8, <1>9, <1>10,
        <1>11, <1>12, <1>13, <1>14, <1>15, <1>16, <1>17, <1>18 DEF TlsStep

\* The steps of the WOWL offload.
LEMMA WowlFrame ==
  ASSUME PcType, LpaParts, WowlStep
  PROVE  Frame
<1> USE FaultsGrow, LpaStep, NetStep DEF Parts
<1>1. CASE WowlInit
  BY <1>1 DEF WowlInit, At, Frame
<1>2. CASE WowlDeinit
  BY <1>2 DEF WowlDeinit, WowlVars, At, Frame
<1>3. CASE WowlConfigure
  BY <1>3 DEF WowlConfigure, WowlAt, WowlVars, At, Frame
<1>4. CASE WowlSet
  BY <1>4 DEF WowlSet, WowlAt, WowlVars, At, PcType, Place, Threads, Frame
<1>5. CASE WowlActivate
  BY <1>5 DEF WowlActivate, WowlAt, WowlVars, At, Frame
<1>6. CASE WowlUndo
  BY <1>6 DEF WowlUndo, WowlAt, WowlVars, At, Frame
<1>7. CASE WowlWake
  BY <1>7 DEF WowlWake, WowlAt, WowlVars, At, Frame
<1>8. CASE WowlDelete
  BY <1>8 DEF WowlDelete, WowlAt, WowlVars, At, PcType, Place, Threads, Frame
<1>9. CASE WowlDone
  BY <1>9 DEF WowlDone, WowlAt, WowlVars, At, Frame
<1> QED BY <1>1, <1>2, <1>3, <1>4, <1>5, <1>6, <1>7, <1>8, <1>9 DEF WowlStep

\* The steps of the two keep-alives that follow init and deinit.
LEMMA NatFrame ==
  ASSUME PcType, LpaParts, NatStep
  PROVE  Frame
<1> USE FaultsGrow, LpaStep, NetStep DEF Parts
<1>1. CASE NkoInit
  BY <1>1 DEF NkoInit, Overlap, At, Frame
<1>2. CASE NkoUnregister
  BY <1>2 DEF NkoUnregister, At, Frame
<1>3. CASE NkoDisable
  BY <1>3 DEF NkoDisable, At, Frame
<1>4. CASE NkoForget
  BY <1>4 DEF NkoForget, At, Frame
<1>5. CASE KeepAlivePm
  BY <1>5 DEF KeepAlivePm, At, Frame
<1>6. CASE \E a \in Addresses \cup {NoAddress} : AddressChanges(a)
  BY <1>6 DEF AddressChanges, Overlap, PcFrame, PcType, Frame
<1>7. CASE \E c \in NatConfigs : UpdateConfig(c)
  BY <1>7 DEF UpdateConfig, Overlap, PcFrame, PcType, Frame
<1>8. CASE \E b \in Builders : Details(b) \/ Send(b)
  BY <1>8 DEF Details, Send, PcFrame, PcType, Frame
<1>9. CASE NullkoInit
  BY <1>9 DEF NullkoInit, At, Frame
<1>10. CASE NullkoDeinit
  BY <1>10 DEF NullkoDeinit, At, Frame
<1> QED BY <1>1, <1>2, <1>3, <1>4, <1>5, <1>6, <1>7, <1>8, <1>9, <1>10 DEF NatStep

\* The steps of the application and the TCP stack.
LEMMA SocketsFrame ==
  ASSUME PcType, LpaParts, SocketsStep
  PROVE  Frame
<1> USE FaultsGrow, LpaStep, NetStep DEF Parts
<1>1. CASE \E c \in Conns : SocketCreate(c) \/ Transfer(c) \/ Close(c) \/ TimeWaitEnds(c)
  BY <1>1 DEF SocketCreate, Transfer, Close, TimeWaitEnds, env, PcFrame, PcType, Frame
<1>2. CASE BindFails \/ BindConnect \/ ConnectFails \/ Connected
  BY <1>2 DEF BindFails, BindConnect, ConnectFails, Connected, env, PcFrame, PcType, Frame
<1>3. CASE \E keepalive \in KeepaliveChoices : SetOptions(keepalive)
  BY <1>3 DEF SetOptions, env, PcFrame, PcType, Frame
<1>4. CASE SendFirst
  BY <1>4 DEF SendFirst, env, PcFrame, PcType, Frame
<1> QED BY <1>1, <1>2, <1>3, <1>4 DEF SocketsStep

-----------------------------------------------------------------------------
(* The two threads, and the network stack                                  *)

PcInv == cfg \in Configs /\ PcType /\ LpaParts

DhcpTimer == IF ns.dhcp = "absent" THEN {} ELSE {"dhcp"}
Held      == ns.flag = TRUE /\ ns.ip = TRUE /\ ("netxInfo" \notin faults => ns.dhcp # "free")

LwipInv ==
  cfg.stack = "lwip" =>
    /\ pc["lpa"].at \notin {"locked", "stuck"}
    /\ ns.dhcp = "absent" /\ ns.timers = {}
    /\ IF Suspended THEN ns.flag = TRUE /\ ns.ip = TRUE ELSE ns.flag = FALSE /\ ns.ip = FALSE

\* Where the dispatching thread is says what it has taken of NetX,
NetxInv ==
  cfg.stack = "netx" =>
    /\ ~Suspended => ns.flag = FALSE /\ ns.ip = FALSE /\ ns.dhcp # "held"
    /\ pc["lpa"].at = "locked" => ns.flag = FALSE /\ ns.ip = TRUE /\ ns.dhcp # "held"
    /\ pc["lpa"].at \in {"sleep", "asleep", "awake", "stuck"} => Held
    /\ pc["lpa"].at = "resume" /\ pc["lpa"].part = "start" => Held
    /\ pc["lpa"].at = "resume" /\ pc["lpa"].part = "ip" =>
         ns.flag = TRUE /\ ns.ip = TRUE /\ ns.dhcp # "held"

\* and, as long as every timer can be asked about, which timers it has stopped.
TimersInv ==
  cfg.stack = "netx" /\ "netxTimer" \notin faults =>
    /\ ~Suspended => ns.timers = IpTimers \cup DhcpTimer
    /\ pc["lpa"].at = "locked" =>
         ns.timers = IF pc["lpa"].part = "start" THEN IpTimers \cup DhcpTimer ELSE DhcpTimer
    /\ pc["lpa"].at \in {"sleep", "asleep", "awake", "stuck"} => ns.timers = {}
    /\ pc["lpa"].at = "resume" /\ pc["lpa"].part = "start" => ns.timers = {}
    /\ pc["lpa"].at = "resume" /\ pc["lpa"].part = "ip" => ns.timers = DhcpTimer

StackInv == StackType /\ LwipInv /\ NetxInv /\ TimersInv

\* The list of a configuration has a length.
LEMMA LenNat == ASSUME cfg \in Configs PROVE Len(cfg.list) \in Nat
BY EnvAssumption

\* The dispatching thread begins another walk.
LEMMA LpaWalk ==
  ASSUME PcType, NEW at \in Phases, NEW last \in Nat, Walk("lpa", at, last)
  PROVE  PcType' /\ pc'["lpa"].at = at /\ pc'["lpa"].part = "start" /\ pc'["net"] = pc["net"]
<1>1. [at |-> at, i |-> 1, last |-> last, part |-> "start", k |-> 0] \in Place
  BY DEF Place, Parts
<1>2. PcType' BY <1>1 DEF PcType, Walk, Threads
<1>3. pc'["lpa"] = [at |-> at, i |-> 1, last |-> last, part |-> "start", k |-> 0]
  BY DEF PcType, Walk, Threads
<1>4. pc'["net"] = pc["net"] BY DEF PcType, Walk, Threads
<1> QED BY <1>2, <1>3, <1>4

\* The threads begin in their places.
LEMMA ThreadsInitially == Init => PcInv
<1> SUFFICES ASSUME Init PROVE PcInv OBVIOUS
<1>1. [at |-> "idle", i |-> 1, last |-> 0, part |-> "start", k |-> 0] \in Place
  BY DEF Place, Phases, Parts
<1>2. PcType BY <1>1 DEF Init, EnvInit, PcType, Threads
<1>3. pc["lpa"] = [at |-> "idle", i |-> 1, last |-> 0, part |-> "start", k |-> 0]
  BY DEF Init, EnvInit
<1> QED BY <1>2, <1>3 DEF PcInv, LpaParts, Init, EnvInit

\* Frame keeps the places of the threads.
LEMMA FrameKeepsThreads == PcInv /\ Frame => PcInv'
<1> SUFFICES ASSUME PcInv, Frame PROVE PcInv' OBVIOUS
<1>1. CASE pc'["lpa"] = pc["lpa"] BY <1>1 DEF PcInv, LpaParts, Frame, PcFrame
<1>2. CASE LpaMoves BY <1>2 DEF PcInv, LpaParts, Frame, PcFrame, LpaMoves
<1> QED BY <1>1, <1>2 DEF Frame, PcFrame

\* The stack begins wholly running.
LEMMA StackInitially == Init => StackInv
<1> SUFFICES ASSUME Init PROVE StackInv OBVIOUS
<1>1. pc["lpa"].at = "idle" BY DEF Init, EnvInit
<1>2. CASE cfg.stack = "lwip"
           /\ ns = [flag |-> FALSE, ip |-> FALSE, dhcp |-> "absent", timers |-> {}]
  <2>1. ns.flag = FALSE /\ ns.ip = FALSE /\ ns.dhcp = "absent" /\ ns.timers = {} BY <1>2
  <2>2. StackType BY <1>2 DEF StackType
  <2> QED BY <1>1, <1>2, <2>1, <2>2 DEF StackInv, LwipInv, NetxInv, TimersInv, Suspended
<1>3. CASE cfg.stack = "netx"
           /\ ns = [flag |-> FALSE, ip |-> FALSE, dhcp |-> "absent", timers |-> IpTimers]
  <2>1. ns.flag = FALSE /\ ns.ip = FALSE /\ ns.dhcp = "absent" /\ ns.timers = IpTimers BY <1>3
  <2>2. StackType BY <1>3 DEF StackType, IpTimers
  <2> QED BY <1>1, <1>3, <2>1, <2>2
          DEF StackInv, LwipInv, NetxInv, TimersInv, Suspended, DhcpTimer
<1> QED BY <1>2, <1>3 DEF Init, StackInit, NetxRunning

\* A step that leaves the stack alone keeps what is held of it.
LEMMA FrameKeepsStack == StackInv /\ Frame /\ ns' = ns => StackInv'
<1> SUFFICES ASSUME StackInv, Frame, ns' = ns PROVE StackInv' OBVIOUS
<1> USE DEF StackInv, StackType, LwipInv, NetxInv, TimersInv, DhcpTimer, Held, Suspended
<1>1. CASE pc'["lpa"] = pc["lpa"] BY <1>1 DEF Frame
<1>2. CASE LpaMoves BY <1>2 DEF Frame, LpaMoves
<1> QED BY <1>1, <1>2 DEF Frame, PcFrame

\* The dispatching thread stays in its phase.
LEMMA LpaGoto ==
  ASSUME PcType, NEW p \in Parts, Goto("lpa", p)
  PROVE  PcType' /\ pc'["lpa"].at = pc["lpa"].at /\ pc'["lpa"].part = p
<1>1. pc["lpa"] \in Place BY DEF PcType, Threads
<1>2. PcType' BY DEF PcType, Goto, Place, Threads
<1> QED BY <1>1, <1>2 DEF PcType, Goto, Place, Threads

\* A step that asks about timers tells whether one of them could not be asked.
LEMMA AskedAll == ASSUME NEW unknown, Asked(unknown), "netxTimer" \notin faults' PROVE unknown = {}
BY DEF Asked, Faulty

\* cylpa_suspend_ns and cylpa_resume_ns keep to the invariant.
LEMMA StackKeeps == PcInv /\ StackInv /\ StackStep => PcInv' /\ StackInv'
<1> SUFFICES ASSUME PcInv, StackInv, StackStep PROVE PcInv' /\ StackInv' OBVIOUS
<1>len. Len(cfg.list) \in Nat BY LenNat DEF PcInv
<1> USE DEF PcInv, LpaParts, Phases, Parts, StackVars
<1>cfg. cfg' = cfg /\ faults \subseteq faults'
  BY FaultsGrow DEF StackStep, LwipSuspend, LwipResume, NetxSuspendIp, NetxStopTimers,
     NetxSuspendDhcp, NetxResumeDhcp, NetxResumeIp, BadState, DhcpChanges
<1>ns. StackType BY DEF StackInv
<1>1. CASE LwipSuspend
  <2>1. PcInv' BY <1>1, <1>len, <1>cfg, LpaWalk DEF LwipSuspend, GoToSleep, Phase
  <2>2. StackType' BY <1>1, <1>ns DEF LwipSuspend, StackType
  <2>3. LwipInv'
    BY <1>1, <1>len, <1>cfg, LpaWalk
    DEF LwipSuspend, GoToSleep, Phase, StackInv, StackType, LwipInv, Suspended
  <2>4. NetxInv' /\ TimersInv' BY <1>1, <1>cfg DEF LwipSuspend, NetxInv, TimersInv
  <2> QED BY <2>1, <2>2, <2>3, <2>4 DEF StackInv
<1>2. CASE LwipResume
  <2>1. PcInv' BY <1>2, <1>len, <1>cfg, LpaWalk DEF LwipResume, Phase
  <2>2. StackType' BY <1>2, <1>ns DEF LwipResume, StackType
  <2>3. LwipInv'
    BY <1>2, <1>len, <1>cfg, LpaWalk
    DEF LwipResume, Phase, StackInv, StackType, LwipInv, Suspended
  <2>4. NetxInv' /\ TimersInv' BY <1>2, <1>cfg DEF LwipResume, NetxInv, TimersInv
  <2> QED BY <2>1, <2>2, <2>3, <2>4 DEF StackInv
<1>3. CASE NetxSuspendIp
  <2>1. PcInv' BY <1>3, <1>len, <1>cfg, LpaWalk DEF NetxSuspendIp, Netx, Phase
  <2>2. cfg.stack = "netx" /\ ~Suspended BY <1>3 DEF NetxSuspendIp, Netx, Suspended
  <2>3. StackType' BY <1>3, <1>ns DEF NetxSuspendIp, StackType
  <2>4. ns'.flag = FALSE /\ ns'.dhcp # "held" /\ ns'.timers = ns.timers
        /\ DhcpTimer' = DhcpTimer
    BY <1>3, <1>ns, <2>2 DEF NetxSuspendIp, StackInv, NetxInv, StackType, DhcpTimer
  <2>5. \/ ns'.ip = TRUE /\ pc'["lpa"].at = "locked" /\ pc'["lpa"].part = "start"
        \/ ns'.ip = FALSE /\ pc'["lpa"].at = "idle"
    BY <1>3, <1>ns, <1>len, <2>2, LpaWalk DEF NetxSuspendIp, StackInv, NetxInv, StackType, Phase
  <2>6. LwipInv' BY <1>cfg, <2>2 DEF LwipInv
  <2>7. NetxInv' BY <2>4, <2>5 DEF NetxInv, Suspended
  <2>8. TimersInv' BY <1>cfg, <2>2, <2>4, <2>5 DEF StackInv, TimersInv, Suspended
  <2> QED BY <2>1, <2>3, <2>6, <2>7, <2>8 DEF StackInv
<1>4. CASE NetxStopTimers
  <2>1. PICK unknown \in SUBSET IpTimers :
          Asked(unknown) /\ ns' = [ns EXCEPT !.timers = @ \ (IpTimers \ unknown)]
    BY <1>4 DEF NetxStopTimers
  <2>2. cfg.stack = "netx" /\ pc["lpa"].at = "locked" /\ pc["lpa"].part = "start"
    BY <1>4 DEF NetxStopTimers, Netx
  <2>3. PcInv' /\ pc'["lpa"].at = "locked" /\ pc'["lpa"].part = "dhcp"
    BY <1>4, <1>cfg, <2>2, LpaGoto DEF NetxStopTimers
  <2>4. ns'.flag = ns.flag /\ ns'.ip = ns.ip /\ ns'.dhcp = ns.dhcp
        /\ ns'.timers = ns.timers \ (IpTimers \ unknown)
    BY <1>ns, <2>1 DEF StackType
  <2>5. StackType' BY <1>ns, <2>1 DEF StackType
  <2>6. LwipInv' BY <1>cfg, <2>2 DEF LwipInv
  <2>7. NetxInv' BY <2>2, <2>3, <2>4 DEF StackInv, NetxInv, Suspended
  <2>8. ASSUME "netxTimer" \notin faults' PROVE ns'.timers = DhcpTimer'
    <3>1. unknown = {} BY <2>1, <2>8, AskedAll
    <3>2. ns.timers = IpTimers \cup DhcpTimer
      BY <1>cfg, <2>2, <2>8 DEF StackInv, TimersInv
    <3> QED BY <2>4, <3>1, <3>2 DEF DhcpTimer, IpTimers
  <2>9. TimersInv' BY <2>3, <2>8 DEF TimersInv, Suspended
  <2> QED BY <2>3, <2>5, <2>6, <2>7, <2>9 DEF StackInv
<1>5. CASE NetxSuspendDhcp
  <2>1. PcInv' BY <1>5, <1>len, <1>cfg, LpaWalk DEF NetxSuspendDhcp, Netx, GoToSleep, Phase
  <2>2. cfg.stack = "netx" /\ pc["lpa"].at = "locked" /\ pc["lpa"].part = "dhcp"
    BY <1>5 DEF NetxSuspendDhcp, Netx
  <2>before. ns.flag = FALSE /\ ns.ip = TRUE /\ ns.dhcp # "held"
    BY <2>2 DEF StackInv, NetxInv
  <2>timers. "netxTimer" \notin faults' => ns.timers = DhcpTimer
    BY <1>cfg, <2>2 DEF StackInv, TimersInv
  <2>lwip. LwipInv' BY <1>cfg, <2>2 DEF LwipInv
  <2>3. ASSUME NEW unknown, Asked(unknown), GoToSleep,
               ns' = [ns EXCEPT !.flag = TRUE, !.timers = @ \ ({"dhcp"} \ unknown),
                                !.dhcp = IF @ = "absent" THEN @ ELSE "held"]
        PROVE  StackInv'
    <3>1. ns'.flag = TRUE /\ ns'.ip = ns.ip /\ ns'.timers = ns.timers \ ({"dhcp"} \ unknown)
          /\ ns'.dhcp = IF ns.dhcp = "absent" THEN "absent" ELSE "held"
      BY <1>ns, <2>3 DEF StackType
    <3>2. StackType' BY <1>ns, <2>3 DEF StackType
    <3>3. pc'["lpa"].at = "sleep" BY <2>3, <1>len, LpaWalk DEF GoToSleep, Phase
    <3>4. NetxInv' BY <2>before, <3>1, <3>3 DEF NetxInv, Held, Suspended
    <3>5. "netxTimer" \notin faults' => ns'.timers = {}
      BY <2>3, <2>timers, <3>1, AskedAll DEF DhcpTimer
    <3>6. TimersInv' BY <3>3, <3>5 DEF TimersInv, Suspended
    <3> QED BY <2>lwip, <3>2, <3>4, <3>6 DEF StackInv
  <2>4. CASE Phase("lpa", "idle") /\ ns' = [ns EXCEPT !.ip = FALSE, !.timers = @ \cup IpTimers]
    <3>1. ns'.flag = ns.flag /\ ns'.ip = FALSE /\ ns'.dhcp = ns.dhcp
          /\ ns'.timers = ns.timers \cup IpTimers
      BY <1>ns, <2>4 DEF StackType
    <3>2. StackType' BY <1>ns, <2>4 DEF StackType, IpTimers
    <3>3. pc'["lpa"].at = "idle" BY <2>4, <1>len, LpaWalk DEF Phase
    <3>4. DhcpTimer' = DhcpTimer BY <3>1 DEF DhcpTimer
    <3>5. NetxInv' BY <2>before, <3>1, <3>3 DEF NetxInv, Suspended
    <3>6. TimersInv' BY <2>timers, <3>1, <3>3, <3>4 DEF TimersInv, Suspended
    <3> QED BY <2>1, <2>lwip, <3>2, <3>5, <3>6 DEF StackInv
  <2> QED BY <1>5, <2>1, <2>3, <2>4 DEF NetxSuspendDhcp
<1>6. CASE NetxResumeDhcp
  <2>1. PcInv' BY <1>6, <1>len, <1>cfg, LpaWalk, LpaGoto DEF NetxResumeDhcp, Netx, Phase
  <2>2. cfg.stack = "netx" /\ pc["lpa"].at = "resume" /\ pc["lpa"].part = "start"
    BY <1>6 DEF NetxResumeDhcp, Netx
  <2>before. Held BY <2>2 DEF StackInv, NetxInv
  <2>timers. "netxTimer" \notin faults' => ns.timers = {}
    BY <1>cfg, <2>2 DEF StackInv, TimersInv
  <2>3. StackType' BY <1>6, <1>ns DEF NetxResumeDhcp, StackType
  <2>lwip. LwipInv' BY <1>cfg, <2>2 DEF LwipInv
  <2>4. CASE Goto("lpa", "ip")
             /\ \/ ns.dhcp = "absent" /\ UNCHANGED ns
                \/ /\ ns.dhcp # "absent"
                   /\ ns' = [ns EXCEPT !.dhcp = "free", !.timers = @ \cup {"dhcp"}]
    <3>1. pc'["lpa"].at = "resume" /\ pc'["lpa"].part = "ip" BY <2>2, <2>4, LpaGoto
    <3>2. /\ ns'.flag = ns.flag /\ ns'.ip = ns.ip
          /\ \/ ns.dhcp = "absent" /\ ns'.dhcp = "absent" /\ ns'.timers = ns.timers
             \/ ns'.dhcp = "free" /\ ns'.timers = ns.timers \cup {"dhcp"}
      BY <1>ns, <2>4 DEF StackType
    <3>3. NetxInv' BY <2>before, <3>1, <3>2 DEF NetxInv, Held, Suspended
    <3>4. "netxTimer" \notin faults' => ns'.timers = DhcpTimer'
      BY <2>timers, <3>2 DEF DhcpTimer
    <3>5. TimersInv' BY <3>1, <3>4 DEF TimersInv, Suspended
    <3> QED BY <2>1, <2>3, <2>lwip, <3>3, <3>5 DEF StackInv
  <2>5. CASE /\ Faulty("netxInfo") /\ Phase("lpa", "stuck")
             /\ ns' = [ns EXCEPT !.dhcp = "free", !.timers = @ \ {"dhcp"}]
    <3>1. "netxInfo" \in faults' BY <2>5 DEF Faulty
    <3>2. ns'.flag = ns.flag /\ ns'.ip = ns.ip /\ ns'.timers = ns.timers \ {"dhcp"}
      BY <1>ns, <2>5 DEF StackType
    <3>3. pc'["lpa"].at = "stuck" BY <2>5, <1>len, LpaWalk DEF Phase
    <3>4. NetxInv' BY <2>before, <3>1, <3>2, <3>3 DEF NetxInv, Held, Suspended
    <3>5. TimersInv' BY <2>timers, <3>2, <3>3 DEF TimersInv, Suspended
    <3> QED BY <2>1, <2>3, <2>lwip, <3>4, <3>5 DEF StackInv
  <2> QED BY <1>6, <2>4, <2>5 DEF NetxResumeDhcp
<1>7. CASE NetxResumeIp
  <2>1. PcInv' BY <1>7, <1>len, <1>cfg, LpaWalk DEF NetxResumeIp, Netx, Phase
  <2>2. cfg.stack = "netx" /\ pc["lpa"].at = "resume" /\ pc["lpa"].part = "ip"
    BY <1>7 DEF NetxResumeIp, Netx
  <2>before. ns.flag = TRUE /\ ns.ip = TRUE /\ ns.dhcp # "held"
    BY <2>2 DEF StackInv, NetxInv
  <2>timers. "netxTimer" \notin faults' => ns.timers = DhcpTimer
    BY <1>cfg, <2>2 DEF StackInv, TimersInv
  <2>lwip. LwipInv' BY <1>cfg, <2>2 DEF LwipInv
  <2>3. ASSUME NEW unknown \in SUBSET IpTimers, Asked(unknown), Phase("lpa", "idle"),
               ns' = [ns EXCEPT !.flag = FALSE, !.ip = FALSE,
                                !.timers = @ \cup (IpTimers \ unknown)]
        PROVE  StackInv'
    <3>1. ns'.flag = FALSE /\ ns'.ip = FALSE /\ ns'.dhcp = ns.dhcp
          /\ ns'.timers = ns.timers \cup (IpTimers \ unknown)
      BY <1>ns, <2>3 DEF StackType
    <3>2. StackType' BY <1>ns, <2>3 DEF StackType, IpTimers
    <3>3. pc'["lpa"].at = "idle" BY <2>3, <1>len, LpaWalk DEF Phase
    <3>4. NetxInv' BY <2>before, <3>1, <3>3 DEF NetxInv, Suspended
    <3>5. "netxTimer" \notin faults' => ns'.timers = IpTimers \cup DhcpTimer'
      BY <2>3, <2>timers, <3>1, AskedAll DEF DhcpTimer
    <3>6. TimersInv' BY <3>3, <3>5 DEF TimersInv, Suspended
    <3> QED BY <2>lwip, <3>2, <3>4, <3>6 DEF StackInv
  <2>4. ASSUME NEW stopped, "dhcp" \in stopped, Phase("lpa", "stuck"),
               ns' = [ns EXCEPT !.timers = @ \ stopped,
                                !.dhcp = IF @ = "absent" THEN @ ELSE "held"]
        PROVE  StackInv'
    <3>1. ns'.flag = ns.flag /\ ns'.ip = ns.ip /\ ns'.timers = ns.timers \ stopped
          /\ ns'.dhcp = IF ns.dhcp = "absent" THEN "absent" ELSE "held"
      BY <1>ns, <2>4 DEF StackType
    <3>2. StackType' BY <1>ns, <2>4 DEF StackType
    <3>3. pc'["lpa"].at = "stuck" BY <2>4, <1>len, LpaWalk DEF Phase
    <3>4. NetxInv' BY <2>before, <3>1, <3>3 DEF NetxInv, Held, Suspended
    <3>5. "netxTimer" \notin faults' => ns'.timers = {}
      BY <2>4, <2>timers, <3>1 DEF DhcpTimer
    <3>6. TimersInv' BY <3>3, <3>5 DEF TimersInv, Suspended
    <3> QED BY <2>lwip, <3>2, <3>4, <3>6 DEF StackInv
  <2> QED BY <1>7, <2>1, <2>3, <2>4 DEF NetxResumeIp
<1>8. CASE BadState
  <2>1. PcInv' BY <1>8, <1>cfg DEF BadState, PcType
  <2>2. StackInv'
    BY <1>8, <1>cfg
    DEF BadState, StackInv, StackType, LwipInv, NetxInv, TimersInv, DhcpTimer, Held, Suspended
  <2> QED BY <2>1, <2>2
<1>9. CASE DhcpChanges
  <2>1. PcInv' BY <1>9, <1>cfg DEF DhcpChanges, PcType
  <2>2. cfg.stack = "netx" /\ ~Suspended /\ pc' = pc /\ faults' = faults
    BY <1>9 DEF DhcpChanges
  <2>3. StackType' BY <1>9, <1>ns DEF DhcpChanges, StackType
  <2>4. ns'.flag = ns.flag /\ ns'.ip = ns.ip
        /\ \/ ns.dhcp = "absent" /\ ns'.dhcp = "free" /\ ns'.timers = ns.timers \cup {"dhcp"}
           \/ ns.dhcp # "absent" /\ ns'.dhcp = "absent" /\ ns'.timers = ns.timers \ {"dhcp"}
    BY <1>9, <1>ns DEF DhcpChanges, StackType
  <2>5. LwipInv' BY <1>cfg, <2>2 DEF LwipInv
  <2>6. NetxInv' BY <1>cfg, <2>2, <2>4 DEF StackInv, NetxInv, Suspended
  <2>7. TimersInv' BY <1>cfg, <2>2, <2>4 DEF StackInv, TimersInv, DhcpTimer, IpTimers, Suspended
  <2> QED BY <2>1, <2>3, <2>5, <2>6, <2>7 DEF StackInv
<1> QED BY <1>1, <1>2, <1>3, <1>4, <1>5, <1>6, <1>7, <1>8, <1>9 DEF StackStep

\* The steps between the walks keep to the invariant.
LEMMA ManagerKeeps == PcInv /\ StackInv /\ ManagerStep => PcInv' /\ StackInv'
<1> SUFFICES ASSUME PcInv, StackInv, ManagerStep PROVE PcInv' /\ StackInv' OBVIOUS
<1>len. Len(cfg.list) \in Nat BY LenNat DEF PcInv
<1>cfg. cfg' = cfg /\ ns' = ns /\ faults \subseteq faults'
  BY FaultsGrow DEF ManagerStep, Connect, Disconnect, LoopDone, Inactive, SleepDone, WakeUp,
     AwakeDone, OthersUnchanged
\* The other thread does not concern the stack.
<1>net. ASSUME NEW at \in Phases, Phase("net", at) PROVE PcInv' /\ StackInv'
  <2>1. Frame BY <1>net, <1>len, <1>cfg, NetWalk DEF PcInv, Phase, Frame
  <2> QED BY <2>1, <1>cfg, FrameKeepsThreads, FrameKeepsStack
<1>1. CASE Connect BY <1>1, <1>net DEF Connect, Phases
<1>2. CASE Disconnect BY <1>2, <1>net DEF Disconnect, Phases
<1>3. CASE LoopDone BY <1>3, <1>net DEF LoopDone, Phases
\* What the dispatching thread holds is the same before and after.
<1>lpa. ASSUME NEW at \in Phases, Phase("lpa", at),
               \/ pc["lpa"].at = "idle" /\ at = "suspend"
               \/ pc["lpa"].at \in {"sleep", "asleep", "awake"}
                  /\ at \in {"asleep", "awake", "resume"}
        PROVE  PcInv' /\ StackInv'
  <2>1. PcType' /\ pc'["lpa"].at = at /\ pc'["lpa"].part = "start"
    BY <1>lpa, <1>len, LpaWalk DEF PcInv, Phase
  <2>2. PcInv' BY <1>lpa, <2>1, <1>cfg DEF PcInv, LpaParts
  <2>3. StackType' BY <1>cfg DEF StackInv, StackType
  <2>4. LwipInv' BY <1>lpa, <2>1, <1>cfg DEF StackInv, LwipInv, Suspended
  <2>5. NetxInv' BY <1>lpa, <2>1, <1>cfg DEF StackInv, NetxInv, Held, Suspended
  <2>6. TimersInv' BY <1>lpa, <2>1, <1>cfg DEF StackInv, TimersInv, DhcpTimer, Suspended
  <2> QED BY <2>2, <2>3, <2>4, <2>5, <2>6 DEF StackInv
<1>4. CASE Inactive BY <1>4, <1>lpa DEF Inactive, Phases
<1>5. CASE SleepDone BY <1>5, <1>lpa DEF SleepDone, LoopEnd, Phases
<1>6. CASE WakeUp BY <1>6, <1>lpa DEF WakeUp, Asleep, Phases
<1>7. CASE AwakeDone BY <1>7, <1>lpa DEF AwakeDone, LoopEnd, Phases
<1> QED BY <1>1, <1>2, <1>3, <1>4, <1>5, <1>6, <1>7 DEF ManagerStep

\* The application's handler and the memset of an init keep to Frame.
LEMMA ClearFrame ==
  ASSUME PcType, LpaParts, AppRegister \/ \E o \in Offloads : InitClear(o)
  PROVE  Frame
<1> USE FaultsGrow DEF Parts
<1>1. CASE AppRegister BY <1>1 DEF AppRegister, PcFrame, PcType, Frame
<1>2. CASE \E o \in Offloads : InitClear(o)
  BY <1>2, NetStep DEF InitClear, Frame
<1> QED BY <1>1, <1>2

\* Each step keeps to the places of the threads and to what the dispatching one
\* has taken of the stack.
LEMMA StepKeeps == PcInv /\ StackInv /\ [Next]_system => PcInv' /\ StackInv'
<1> SUFFICES ASSUME PcInv, StackInv, [Next]_system PROVE PcInv' /\ StackInv' OBVIOUS
<1>1. CASE ManagerStep BY <1>1, ManagerKeeps
<1>2. CASE StackStep BY <1>2, StackKeeps
<1>3. CASE Frame /\ ns' = ns BY <1>3, FrameKeepsThreads, FrameKeepsStack
<1>4. CASE UNCHANGED system
  <2>1. Frame /\ ns' = ns
    BY <1>4 DEF system, env, tcp, tko, tls, nat, PcInv, PcType, PcFrame, Frame
  <2> QED BY <2>1, <1>3
<1> QED
  BY <1>1, <1>2, <1>3, <1>4, TkoFrame, TlsFrame, WowlFrame, NatFrame, SocketsFrame, ClearFrame
  DEF Next, PcInv

\* The invariant is what the property needs.
LEMMA StackInvConsistent == PcInv /\ StackInv => StackConsistent
<1> SUFFICES ASSUME PcInv, StackInv PROVE StackConsistent OBVIOUS
<1>1. cfg.stack \in {"lwip", "netx"} BY EnvAssumption DEF PcInv
<1>2. ~Suspended => ~ns.flag /\ ~ns.ip /\ ns.dhcp # "held"
  BY <1>1 DEF StackInv, LwipInv, NetxInv
<1>3. pc["lpa"].at \in {"sleep", "asleep", "awake", "stuck"} =>
        ns.flag /\ ns.ip /\ ("netxInfo" \notin faults => ns.dhcp # "free")
  BY <1>1 DEF StackInv, LwipInv, NetxInv, Held, Suspended
<1>4. "netxTimer" \notin faults /\ cfg.stack = "netx" /\ ~Suspended =>
        ns.timers = NetxRunning(ns.dhcp).timers
  <2>1. ns.timers = IpTimers \cup DhcpTimer =>
          ns.timers = IF ns.dhcp = "absent" THEN IpTimers ELSE IpTimers \cup {"dhcp"}
    BY DEF DhcpTimer
  <2> QED BY <2>1 DEF StackInv, TimersInv, NetxRunning
<1>5. "netxTimer" \notin faults /\ pc["lpa"].at \in {"sleep", "asleep", "awake", "stuck"} =>
        ns.timers = {}
  BY <1>1 DEF StackInv, LwipInv, TimersInv
<1> QED BY <1>2, <1>3, <1>4, <1>5 DEF StackConsistent

\* Whenever the dispatching thread is not at work on it the stack is wholly
\* suspended or wholly running: no mutex is kept that nobody will give back, and
\* no timer runs behind a mutex or stays stopped in a stack that runs, whichever
\* step failed but two.  Not being able to ask about the DHCP timer on the way back
\* leaves the DHCP mutex given back in a stack that stays suspended (netxInfo);
\* not being able to ask about a timer elsewhere leaves that timer as it was
\* (netxTimer), but the mutexes and the flag as they should be.
THEOREM StackIsConsistent == Spec => []StackConsistent
<1>1. Init => PcInv /\ StackInv BY ThreadsInitially, StackInitially
<1>2. PcInv /\ StackInv /\ [Next]_system => (PcInv /\ StackInv)' BY StepKeeps
<1>3. PcInv /\ StackInv => StackConsistent BY StackInvConsistent
<1> QED BY <1>1, <1>2, <1>3, PTL DEF Spec
-----------------------------------------------------------------------------
(* The places of the threads in the list, seen from one offload            *)

\* The phases in which a thread walks through the list.
Walking == {"init", "undo", "deinit", "sleep", "awake"}

\* A thread's index is in the list; a thread that walks to sleep or to wake the
\* offloads walks through all of it, and one that rests is inside none of them.
Ranges ==
  /\ \A t \in Threads : 1 <= pc[t].i /\ pc[t].last <= Len(cfg.list)
  /\ pc["lpa"].at \in {"sleep", "awake"} => pc["lpa"].last = Len(cfg.list)
  /\ pc["net"].at \in {"idle", "init", "undo", "up", "failed", "deinit", "down"}
  /\ NetRests => pc["net"].part = "start"

\* Thread t is inside a function of offload o.
Inside(t, o) ==
  /\ pc[t].at \in Walking /\ pc[t].part # "start"
  /\ pc[t].i <= pc[t].last /\ cfg.list[pc[t].i] = o

\* Between two parts of the offload's function: the dispatching thread, in place l,
\* has been past the offload on its way to sleep, or is at one of the parts down of
\* it, and has not been past it on its way back, or is at one of the parts up.
Past(list, l, o, down, up) ==
  \E j \in DOMAIN list :
    /\ list[j] = o
    /\ \/ l.at = "sleep" /\ (j < l.i \/ (j = l.i /\ l.part \in down))
       \/ l.at = "asleep"
       \/ l.at = "awake" /\ (l.i < j \/ (j = l.i /\ l.part \in up))

\* What a step of offload o may do to thread t: it stays where it is, goes to
\* another part or to the next offload, or begins to undo a failed init.
Moved(t, o) ==
  LET a == pc[t]
      b == pc'[t]
  IN \/ b = a
     \/ /\ a.at \in Walking /\ a.i <= a.last /\ cfg.list[a.i] = o
        /\ \/ b.at = a.at /\ b.i = a.i /\ b.last = a.last
           \/ b.at = a.at /\ b.i = a.i + 1 /\ b.last = a.last /\ b.part = "start"
           \/ /\ t = "net" /\ a.at = "init"
              /\ b.at = "undo" /\ b.i = 1 /\ b.last = a.i - 1 /\ b.part = "start"

Moves(o) ==
  /\ \A t \in Threads : Moved(t, o)
  /\ \A p : p # o => (p \in ctx' <=> p \in ctx)

\* What a step leaves of offload o: its context, each thread that is inside it, and
\* what the dispatching thread is past.
Apart(o) ==
  /\ PcType' /\ cfg' = cfg /\ faults \subseteq faults' /\ (o \in ctx' <=> o \in ctx)
  /\ \A t \in Threads : Inside(t, o) \/ Inside(t, o)' => pc'[t] = pc[t]
  /\ \A down, up : "start" \notin down /\ "start" \in up =>
       (Past(cfg'.list, pc'["lpa"], o, down, up) <=> Past(cfg.list, pc["lpa"], o, down, up))

\* An offload is on the list once, at an index from 1 to its length.
LEMMA ListFacts ==
  ASSUME cfg \in Configs
  PROVE  /\ Len(cfg.list) \in Nat /\ DOMAIN cfg.list = 1 .. Len(cfg.list)
         /\ \A i, j \in DOMAIN cfg.list : cfg.list[i] = cfg.list[j] => i = j
         /\ \A i \in DOMAIN cfg.list : cfg.list[i] \in Offloads
BY EnvAssumption

\* At the offload itself the part decides whether the thread is past it.
LEMMA PastHere ==
  ASSUME cfg \in Configs, NEW l \in Place, NEW o, NEW down, NEW up,
         l.i \in DOMAIN cfg.list, cfg.list[l.i] = o
  PROVE  /\ l.at = "sleep" => (Past(cfg.list, l, o, down, up) <=> l.part \in down)
         /\ l.at = "awake" => (Past(cfg.list, l, o, down, up) <=> l.part \in up)
<1>1. \A j \in DOMAIN cfg.list : cfg.list[j] = o => j = l.i BY ListFacts
<1>2. l.i \in Nat BY DEF Place
<1> QED BY <1>1, <1>2 DEF Past

\* Having gone on to the next, the thread is past it on the way to sleep only.
LEMMA PastNext ==
  ASSUME cfg \in Configs, NEW l \in Place, NEW m \in Place, NEW o, NEW down, NEW up,
         l.i \in DOMAIN cfg.list, cfg.list[l.i] = o, m.at = l.at, m.i = l.i + 1
  PROVE  /\ l.at = "sleep" => Past(cfg.list, m, o, down, up)
         /\ l.at = "awake" => ~Past(cfg.list, m, o, down, up)
<1>1. \A j \in DOMAIN cfg.list : cfg.list[j] = o => j = l.i BY ListFacts
<1>2. l.i \in Nat BY DEF Place
<1> QED BY <1>1, <1>2 DEF Past

\* The step of another offload leaves it there.
LEMMA PastOther ==
  ASSUME cfg \in Configs, NEW l \in Place, NEW m \in Place, NEW o, NEW p, p # o,
         NEW down, NEW up, "start" \notin down, "start" \in up,
         cfg.list[l.i] = p, m.at = l.at,
         m.i = l.i \/ (m.i = l.i + 1 /\ m.part = "start")
  PROVE  Past(cfg.list, m, o, down, up) <=> Past(cfg.list, l, o, down, up)
<1>1. l.i \in Nat /\ m.i \in Nat BY DEF Place
<1>2. \A j \in DOMAIN cfg.list : cfg.list[j] = o => j # l.i OBVIOUS
<1>3. \A j \in DOMAIN cfg.list : j \in Nat BY ListFacts
<1>4. ASSUME m.i = l.i PROVE Past(cfg.list, m, o, down, up) <=> Past(cfg.list, l, o, down, up)
  BY <1>1, <1>2, <1>3, <1>4 DEF Past
<1>5. ASSUME m.i = l.i + 1, m.part = "start"
      PROVE  Past(cfg.list, m, o, down, up) <=> Past(cfg.list, l, o, down, up)
  <2>1. \A j \in DOMAIN cfg.list : cfg.list[j] = o =>
          /\ (j < m.i \/ (j = m.i /\ m.part \in down)) <=> (j < l.i \/ (j = l.i /\ l.part \in down))
          /\ (m.i < j \/ (j = m.i /\ m.part \in up)) <=> (l.i < j \/ (j = l.i /\ l.part \in up))
    BY <1>1, <1>2, <1>3, <1>5
  <2> QED BY <2>1 DEF Past
<1> QED BY <1>4, <1>5

\* The dispatching thread turns round in the middle of its way.
LEMMA PastTurn ==
  ASSUME cfg \in Configs, NEW l \in Place, NEW m \in Place, NEW o,
         NEW down, NEW up, "start" \notin down, "start" \in up, m.i = 1, m.part = "start",
         l.at \in {"sleep", "awake"} => l.i > Len(cfg.list),
         \/ l.at \in {"sleep", "asleep"} /\ m.at \in {"asleep", "awake"}
         \/ /\ l.at \notin {"sleep", "asleep"}
            /\ m.at \notin {"asleep", "awake"}
  PROVE  Past(cfg.list, m, o, down, up) <=> Past(cfg.list, l, o, down, up)
<1>1. l.i \in Nat BY DEF Place
<1>2. DOMAIN cfg.list = 1 .. Len(cfg.list) /\ Len(cfg.list) \in Nat BY ListFacts
<1> USE DEF Past
<1>3. CASE l.at \in {"sleep", "asleep"} /\ m.at \in {"asleep", "awake"}
  <2>1. Past(cfg.list, l, o, down, up) <=> \E j \in DOMAIN cfg.list : cfg.list[j] = o
    BY <1>1, <1>2, <1>3
  <2>2. Past(cfg.list, m, o, down, up) <=> \E j \in DOMAIN cfg.list : cfg.list[j] = o
    BY <1>2, <1>3
  <2> QED BY <2>1, <2>2
<1>4. CASE l.at \notin {"sleep", "asleep"} /\ m.at \notin {"asleep", "awake"}
  <2>1. ~Past(cfg.list, l, o, down, up) BY <1>1, <1>2, <1>4
  <2>2. ~Past(cfg.list, m, o, down, up) BY <1>2, <1>4
  <2> QED BY <2>1, <2>2
<1> QED BY <1>3, <1>4

\* Offload o has a context, and the dispatching thread has been past it, or is at one
\* of the given parts of it.
Told(o, down, up) == o \in ctx /\ Past(cfg.list, pc["lpa"], o, down, up)

\* The dispatching thread is at work on offload o, on its way to sleep.
InSleep(o) == pc["lpa"].at = "sleep" /\ Inside("lpa", o)

\* The ways on for a thread that is at an offload.
LEMMA MovedHere ==
  ASSUME PcType, NEW t \in Threads, NEW at \in Walking, NEW o, NEW part, At(t, at, o, part),
         NEW p \in Parts, NEW k \in Nat,
         \/ Goto(t, p) \/ Count(t, p, k) \/ NextOffload(t)
         \/ t = "net" /\ at = "init" /\ InitFails
  PROVE  \A u \in Threads : Moved(u, o)
<1>type. pc[t] \in Place BY DEF PcType
<1>other. \A u \in Threads \ {t} : pc'[u] = pc[u]
  BY DEF Goto, Count, NextOffload, InitFails, Walk, PcType
<1>1. CASE Goto(t, p)
  <2>1. pc'[t].at = pc[t].at /\ pc'[t].i = pc[t].i /\ pc'[t].last = pc[t].last
    BY <1>1, <1>type DEF Goto, PcType, Place
  <2> QED BY <2>1, <1>other DEF At, Moved
<1>2. CASE Count(t, p, k)
  <2>1. pc'[t].at = pc[t].at /\ pc'[t].i = pc[t].i /\ pc'[t].last = pc[t].last
    BY <1>2, <1>type DEF Count, PcType, Place
  <2> QED BY <2>1, <1>other DEF At, Moved
<1>3. CASE NextOffload(t)
  <2>1. pc'[t] = [at |-> pc[t].at, i |-> pc[t].i + 1, last |-> pc[t].last,
                  part |-> "start", k |-> 0]
    BY <1>3, <1>type DEF NextOffload, PcType
  <2> QED BY <2>1, <1>other DEF At, Moved
<1>4. CASE t = "net" /\ at = "init" /\ InitFails
  <2>1. pc'["net"] = [at |-> "undo", i |-> 1, last |-> pc["net"].i - 1,
                      part |-> "start", k |-> 0]
    BY <1>4, <1>type DEF InitFails, Walk, PcType
  <2> QED BY <1>4, <2>1, <1>other DEF At, Moved
<1> QED BY <1>1, <1>2, <1>3, <1>4

\* A step that moves the threads as an offload does keeps to the ranges,
LEMMA MovesKeepRanges ==
  ASSUME PcInv, Ranges, PcType', cfg' = cfg, NEW o, Moves(o)
  PROVE  Ranges'
<1>1. pc["net"] \in Place /\ pc["lpa"] \in Place BY DEF PcInv, PcType, Threads
<1>2. Len(cfg.list) \in Nat BY ListFacts DEF PcInv
<1>3. \A t \in Threads : pc'[t].i >= 1 /\ pc'[t].last <= Len(cfg.list)
  BY <1>1, <1>2 DEF Moves, Moved, Ranges, Threads, Place
<1>4. pc'["lpa"].at \in {"sleep", "awake"} => pc'["lpa"].last = Len(cfg.list)
  BY <1>1, <1>2 DEF Moves, Moved, Ranges, Threads, Place
<1>5. NetRests' => pc'["net"].part = "start"
  BY <1>1 DEF Moves, Moved, Ranges, Threads, NetRests, Walking
<1>7. pc'["net"].at \in {"idle", "init", "undo", "up", "failed", "deinit", "down"}
  BY <1>1 DEF Moves, Moved, Ranges, Threads
<1>6. \A t \in Threads : 1 <= pc'[t].i BY <1>3, <1>1 DEF Moves, Moved, Ranges, Threads, Place
<1> QED BY <1>3, <1>4, <1>5, <1>6, <1>7 DEF Ranges

\* and leaves the other offloads where they were.
LEMMA MovesApart ==
  ASSUME PcInv, Ranges, Frame, NEW p, Moves(p), NEW o, o # p
  PROVE  Apart(o)
<1>type. PcType /\ PcType' /\ cfg' = cfg /\ faults \subseteq faults' /\ cfg \in Configs
  BY DEF Frame, PcFrame, PcInv
<1>places. /\ pc["net"] \in Place /\ pc["lpa"] \in Place
           /\ pc'["net"] \in Place /\ pc'["lpa"] \in Place
  BY <1>type DEF PcType, Threads
<1>1. o \in ctx' <=> o \in ctx BY DEF Moves
<1>2. \A t \in Threads : Inside(t, o) \/ Inside(t, o)' => pc'[t] = pc[t]
  BY <1>type DEF Moves, Moved, Inside
<1>3. ASSUME NEW down, NEW up, "start" \notin down, "start" \in up
      PROVE  Past(cfg'.list, pc'["lpa"], o, down, up) <=> Past(cfg.list, pc["lpa"], o, down, up)
  <2>1. CASE pc'["lpa"] = pc["lpa"] BY <2>1, <1>type
  <2>2. CASE pc'["lpa"] # pc["lpa"]
    <3>1. Moved("lpa", p) BY DEF Moves, Threads
    <3>2. cfg.list[pc["lpa"].i] = p /\ pc'["lpa"].at = pc["lpa"].at
          /\ (pc'["lpa"].i = pc["lpa"].i
              \/ (pc'["lpa"].i = pc["lpa"].i + 1 /\ pc'["lpa"].part = "start"))
      BY <2>2, <3>1 DEF Moved
    <3> QED BY <3>2, <1>3, <1>type, <1>places, PastOther
  <2> QED BY <2>1, <2>2
<1> QED BY <1>type, <1>1, <1>2, <1>3 DEF Apart

\* Each component moves the threads only where its own offload is; first the TKO
\* offload.
LEMMA TkoMoves == ASSUME PcInv, Ranges, TkoStep PROVE Moves("tko")
<1>type. PcType /\ LpaParts BY DEF PcInv
<1>k. pc["lpa"].k \in Nat BY <1>type DEF PcType, Place, Threads
<1>int. \A n \in Nat : n + 1 \in Nat OBVIOUS
<1>one. 1 \in Nat OBVIOUS
<1>threads. "lpa" \in Threads /\ "net" \in Threads BY DEF Threads
<1> USE <1>type, <1>threads DEF Parts, Walking
<1>same. pc' = pc => \A t \in Threads : Moved(t, "tko") BY DEF Moved
<1>1. CASE TkoInit
  BY <1>1, MovedHere, <1>one DEF TkoInit, HasContext, Moves
<1>2. CASE TkoSleep
  BY <1>2, MovedHere, <1>one DEF TkoSleep, Moves
<1>3. CASE \E part \in {"activate", "found"} : TkoActivate(part)
  BY <1>3, MovedHere, <1>k, <1>int DEF TkoActivate, Moves
<1>4. CASE TkoActivated
  BY <1>4, MovedHere, <1>one DEF TkoActivated, Moves
<1>5. CASE TkoToggleOn
  BY <1>5, MovedHere, <1>one DEF TkoToggleOn, Moves
<1>6. CASE TkoRegister
  BY <1>6, MovedHere, <1>one DEF TkoRegister, Moves
<1>7. CASE TkoMark
  BY <1>7, MovedHere, <1>one DEF TkoMark, Moves
<1>disabling. ASSUME NEW t \in Threads, pc[t].part # "start" \/ <<t, pc[t].at>> \in Disabling,
                     pc[t].part \notin {"dhcp", "ip"}
              PROVE  pc[t].at \in Walking
  <2>1. CASE t = "lpa" BY <1>disabling, <2>1 DEF LpaParts, Disabling
  <2>2. CASE t = "net" BY <1>disabling, <2>2 DEF Ranges, NetRests, Disabling
  <2> QED BY <2>1, <2>2 DEF Threads
<1>8. CASE \E t \in Threads : TkoDisable(t)
  <2>1. PICK t \in Threads : TkoDisable(t) BY <1>8
  <2>2. pc[t].at \in Walking BY <2>1, <1>disabling DEF TkoDisable, At
  <2> QED BY <2>1, <2>2, MovedHere, <1>one DEF TkoDisable, Moves
<1>12. CASE \E t \in Threads : TkoUnmark(t)
  <2>1. PICK t \in Threads : TkoUnmark(t) BY <1>12
  <2>2. pc[t].at \in Walking BY <2>1, <1>disabling DEF TkoUnmark, At
  <2> QED BY <2>1, <2>2, MovedHere, <1>one DEF TkoUnmark, Moves
<1>9. CASE \E t \in Threads : TkoDeregister(t)
  <2>1. PICK t \in Threads : TkoDeregister(t) BY <1>9
  <2>2. pc[t].at \in Walking BY <2>1, <1>disabling DEF TkoDeregister, At
  <2> QED BY <2>1, <2>2, MovedHere, <1>one DEF TkoDeregister, Moves
<1>10. CASE \E t \in Threads : TkoToggleOff(t)
  <2>1. PICK t \in Threads : TkoToggleOff(t) BY <1>10
  <2>2. pc[t].at \in Walking BY <2>1, <1>disabling DEF TkoToggleOff, At
  <2> QED BY <2>1, <2>2, MovedHere, <1>one DEF TkoToggleOff, Moves
<1>11. CASE TkoEvent \/ TkoHandler \/ UpdateClear \/ UpdateWrite
  BY <1>11, <1>same DEF TkoEvent, TkoHandler, UpdateClear, UpdateWrite, env, Moves
<1> QED BY <1>1, <1>2, <1>3, <1>4, <1>5, <1>6, <1>7, <1>8, <1>9, <1>10, <1>11, <1>12
        DEF TkoStep, Threads

\* The TLS offload.
LEMMA TlsMoves == ASSUME PcInv, Ranges, TlsStep PROVE Moves("tls")
<1>type. PcType BY DEF PcInv
<1>one. 1 \in Nat OBVIOUS
<1>threads. "lpa" \in Threads /\ "net" \in Threads BY DEF Threads
<1> USE <1>type, <1>threads, <1>one DEF Parts, Walking, LpaAt
<1>same. pc' = pc => \A t \in Threads : Moved(t, "tls") BY DEF Moved
<1>1. CASE TlsInit
  BY <1>1, MovedHere DEF TlsInit, HasContext, Moves
<1>2. CASE TlsDeinit
  BY <1>2, MovedHere DEF TlsDeinit, Moves
<1>3. CASE TlsSleep
  BY <1>3, MovedHere DEF TlsSleep, Moves
<1>4. CASE TlsPattern
  BY <1>4, MovedHere DEF TlsPattern, Moves
<1>5. CASE TlsCleanUp
  BY <1>5, MovedHere DEF TlsCleanUp, Moves
<1>6. CASE TlsActivate
  BY <1>6, MovedHere DEF TlsActivate, Moves
<1>7. CASE TlsProtect
  <2>1. At("lpa", "sleep", "tls", "protect") /\ Goto("lpa", "register") /\ ctx' = ctx
    BY <1>7 DEF TlsProtect
  <2> QED BY <2>1, MovedHere DEF Moves
<1>8. CASE TlsRegister
  BY <1>8, MovedHere DEF TlsRegister, Moves
<1>9. CASE TlsWake
  BY <1>9, MovedHere DEF TlsWake, Moves
<1>10. CASE TlsRestore
  BY <1>10, MovedHere DEF TlsRestore, Moves
<1>11. CASE TlsRelease
  <2>1. At("lpa", "awake", "tls", "release") /\ Goto("lpa", "clear") /\ ctx' = ctx
    BY <1>11 DEF TlsRelease
  <2> QED BY <2>1, MovedHere DEF Moves
<1>12. CASE TlsClear
  BY <1>12, MovedHere DEF TlsClear, Moves
<1>13. CASE TlsDeregister
  BY <1>13, MovedHere DEF TlsDeregister, Moves
<1>14. CASE DeviceSends \/ WakeEvent \/ TlsHandler
  BY <1>14, <1>same DEF DeviceSends, WakeEvent, TlsHandler, Moves
<1>15. CASE \E c \in Conns : ConfigClear(c) \/ SetPorts(c)
  BY <1>15, <1>same DEF ConfigClear, SetPorts, Moves
<1>16. CASE ConfigCopy \/ ConfigSocket \/ SetAddress
  BY <1>16, <1>same DEF ConfigCopy, ConfigSocket, SetAddress, Moves
<1> QED BY <1>1, <1>2, <1>3, <1>4, <1>5, <1>6, <1>7, <1>8, <1>9, <1>10, <1>11, <1>12, <1>13,
           <1>14, <1>15, <1>16 DEF TlsStep

\* The WOWL offload.
LEMMA WowlMoves == ASSUME PcInv, Ranges, WowlStep PROVE Moves("wowl")
<1>type. PcType BY DEF PcInv
<1>k. pc["lpa"].k + 1 \in Nat BY <1>type DEF PcType, Place, Threads
<1>one. 1 \in Nat OBVIOUS
<1>threads. "lpa" \in Threads /\ "net" \in Threads BY DEF Threads
<1> USE <1>type, <1>threads DEF Parts, Walking, WowlAt, WowlVars
<1>1. CASE WowlInit
  BY <1>1, <1>one, MovedHere DEF WowlInit, HasContext, Moves
<1>2. CASE WowlDeinit
  BY <1>2, <1>one, MovedHere DEF WowlDeinit, Moves
<1>3. CASE WowlConfigure
  BY <1>3, <1>one, MovedHere DEF WowlConfigure, Moves
<1>4. CASE WowlActivate \/ WowlUndo \/ WowlDone
  BY <1>4, <1>one, MovedHere DEF WowlActivate, WowlUndo, WowlDone, Moves
<1>5. CASE WowlWake
  BY <1>5, <1>one, MovedHere DEF WowlWake, Moves
<1>6. CASE WowlSet
  BY <1>6, <1>k, MovedHere DEF WowlSet, Moves
<1>7. CASE WowlDelete
  BY <1>7, <1>k, MovedHere DEF WowlDelete, Moves
<1> QED BY <1>1, <1>2, <1>3, <1>4, <1>5, <1>6, <1>7 DEF WowlStep

\* The two keep-alives that follow init and deinit.
LEMMA NatMoves ==
  ASSUME PcInv, Ranges, NatStep
  PROVE  Moves("nko") \/ Moves("nullko")
<1>type. PcType BY DEF PcInv
<1>one. 1 \in Nat OBVIOUS
<1>threads. "lpa" \in Threads /\ "net" \in Threads BY DEF Threads
<1> USE <1>type, <1>threads, <1>one DEF Parts, Walking
<1>same. pc' = pc => \A t \in Threads : Moved(t, "nko") BY DEF Moved
<1>at. pc["net"].part # "start" => pc["net"].at \in Walking BY DEF Ranges, NetRests
<1>1. CASE NkoInit
  BY <1>1, MovedHere DEF NkoInit, HasContext, Moves
<1>2. CASE NkoUnregister
  BY <1>2, MovedHere DEF NkoUnregister, Moves
<1>3. CASE NkoDisable
  <2>1. At("net", pc["net"].at, "nko", "disable") /\ Goto("net", "forget") /\ ctx' = ctx
    BY <1>3 DEF NkoDisable
  <2> QED BY <2>1, <1>at, MovedHere DEF At, Moves
<1>4. CASE NkoForget
  <2>1. At("net", pc["net"].at, "nko", "forget") /\ NextOffload("net") /\ ctx' = ctx
    BY <1>4 DEF NkoForget
  <2> QED BY <2>1, <1>at, MovedHere DEF At, Moves
<1>5. CASE KeepAlivePm
  BY <1>5, MovedHere DEF KeepAlivePm, Moves
<1>6. CASE \E a \in Addresses \cup {NoAddress} : AddressChanges(a)
  BY <1>6, <1>same DEF AddressChanges, Moves
<1>7. CASE \E c \in NatConfigs : UpdateConfig(c)
  BY <1>7, <1>same DEF UpdateConfig, Moves
<1>8. CASE \E b \in Builders : Details(b) \/ Send(b)
  BY <1>8, <1>same DEF Details, Send, Moves
<1>9. CASE NullkoInit
  BY <1>9, MovedHere DEF NullkoInit, HasContext, Moves
<1>10. CASE NullkoDeinit
  BY <1>10, MovedHere DEF NullkoDeinit, Moves
<1> QED BY <1>1, <1>2, <1>3, <1>4, <1>5, <1>6, <1>7, <1>8, <1>9, <1>10 DEF NatStep

\* The application and the TCP stack move nobody.
LEMMA SocketsMoveNone == ASSUME SocketsStep, NEW o PROVE Moves(o)
<1>1. UNCHANGED <<ctx, pc>>
  BY DEF SocketsStep, SocketCreate, Transfer, Close, TimeWaitEnds, BindFails, BindConnect,
     ConnectFails, Connected, SetOptions, SendFirst, env
<1> QED BY <1>1 DEF Moves, Moved

\* The memset of an init, and the application's handler.
LEMMA ClearMoves ==
  ASSUME PcInv, Ranges
  PROVE  /\ AppRegister => \A o : Moves(o)
         /\ \A o \in Offloads : InitClear(o) => Moves(o)
<1>type. PcType BY DEF PcInv
<1>one. 1 \in Nat /\ "net" \in Threads BY DEF Threads
<1>1. AppRegister => \A o : Moves(o) BY DEF AppRegister, Moves, Moved
<1>2. ASSUME NEW o \in Offloads, InitClear(o) PROVE Moves(o)
  BY <1>2, <1>type, <1>one, MovedHere DEF InitClear, Moves, Parts, Walking
<1> QED BY <1>1, <1>2

\* A step that leaves both threads alone.
LEMMA SamePlaces ==
  ASSUME PcInv, Ranges, UNCHANGED <<pc, cfg, ctx>>, faults \subseteq faults'
  PROVE  Ranges' /\ \A o : Apart(o)
<1>1. PcType' BY DEF PcInv, PcType
<1>2. Ranges' BY DEF Ranges, NetRests
<1> QED BY <1>1, <1>2 DEF Apart

\* A thread that is inside no offload and goes on to the next of its phases.
LEMMA Turns ==
  ASSUME PcInv, Ranges, PcType', UNCHANGED <<cfg, ctx>>, faults \subseteq faults',
         NEW t \in Threads, \A u \in Threads \ {t} : pc'[u] = pc[u],
         pc[t].at \notin Walking \/ pc[t].i > pc[t].last,
         pc'[t].at \notin Walking \/ pc'[t].part = "start",
         t = "lpa" =>
           \/ {pc[t].at, pc'[t].at} \cap {"sleep", "asleep", "awake"} = {}
           \/ /\ pc'[t].i = 1 /\ pc'[t].part = "start"
              /\ \/ pc[t].at \in {"sleep", "asleep"} /\ pc'[t].at \in {"asleep", "awake"}
                 \/ /\ pc[t].at \notin {"sleep", "asleep"}
                    /\ pc'[t].at \notin {"asleep", "awake"}
  PROVE  \A o : Apart(o)
<1> SUFFICES ASSUME NEW o PROVE Apart(o) OBVIOUS
<1>1. ASSUME NEW u \in Threads, Inside(u, o) \/ Inside(u, o)' PROVE pc'[u] = pc[u]
  <2>1. pc[t] \in Place BY DEF PcInv, PcType
  <2>2. ~Inside(t, o)
    BY <2>1 DEF Inside, Place
  <2>3. ~Inside(t, o)' BY DEF Inside
  <2> QED BY <1>1, <2>2, <2>3
<1>2. ASSUME NEW down, NEW up, "start" \notin down, "start" \in up
      PROVE  Past(cfg'.list, pc'["lpa"], o, down, up) <=> Past(cfg.list, pc["lpa"], o, down, up)
  <2>1. CASE t = "net" BY <2>1 DEF Threads
  <2>2. CASE t = "lpa"
    <3>1. pc["lpa"] \in Place /\ pc'["lpa"] \in Place /\ cfg \in Configs
      BY DEF PcInv, PcType, Threads
    <3>2. CASE {pc[t].at, pc'[t].at} \cap {"sleep", "asleep", "awake"} = {}
      BY <2>2, <3>2 DEF Past
    <3>3. CASE {pc[t].at, pc'[t].at} \cap {"sleep", "asleep", "awake"} # {}
      <4>1. pc["lpa"].at \in {"sleep", "awake"} => pc["lpa"].i > Len(cfg.list)
        BY <2>2 DEF Ranges, Walking
      <4> QED BY <1>2, <2>2, <3>1, <3>3, <4>1, PastTurn
    <3> QED BY <3>2, <3>3
  <2> QED BY <2>1, <2>2 DEF Threads
<1> QED BY <1>1, <1>2 DEF Apart

\* A thread begins the next of its phases.
LEMMA WalkPlaces ==
  ASSUME PcInv, Ranges, UNCHANGED <<cfg, ctx>>, faults \subseteq faults',
         NEW t \in Threads, NEW at \in Phases, Phase(t, at),
         pc[t].at \notin Walking \/ pc[t].i > pc[t].last,
         t = "net" => at \in {"init", "undo", "up", "failed", "deinit", "down"},
         t = "lpa" =>
           \/ {pc[t].at, at} \cap {"sleep", "asleep", "awake"} = {}
           \/ pc[t].at \in {"sleep", "asleep"} /\ at \in {"asleep", "awake"}
           \/ pc[t].at \notin {"sleep", "asleep"} /\ at \notin {"asleep", "awake"}
  PROVE  Ranges' /\ \A o : Apart(o)
<1> DEFINE next == [at |-> at, i |-> 1, last |-> Len(cfg.list), part |-> "start", k |-> 0]
<1>len. Len(cfg.list) \in Nat BY ListFacts DEF PcInv
<1>1. next \in Place BY <1>len DEF Place, Parts
<1>2. pc' = [pc EXCEPT ![t] = next] BY DEF Phase, Walk
<1>3. pc'[t] = next /\ \A u \in Threads \ {t} : pc'[u] = pc[u]
  BY <1>2 DEF PcInv, PcType
<1>4. PcType' BY <1>1, <1>2 DEF PcInv, PcType
<1>5. pc'[t].at = at /\ pc'[t].i = 1 /\ pc'[t].last = Len(cfg.list) /\ pc'[t].part = "start"
  BY <1>3
<1> HIDE DEF next
<1>6. Ranges'
  BY <1>3, <1>5, <1>len DEF Ranges, NetRests, Threads
<1>7. \A o : Apart(o) BY <1>3, <1>4, <1>5, Turns
<1> QED BY <1>6, <1>7

\* The manager's steps leave every offload alone.
LEMMA ManagerPlaces ==
  ASSUME PcInv, Ranges, ManagerStep
  PROVE  Ranges' /\ \A o : Apart(o)
<1>cfg. UNCHANGED <<cfg, ctx>> /\ faults \subseteq faults'
  BY FaultsGrow DEF ManagerStep, Connect, Disconnect, LoopDone, Inactive, SleepDone, WakeUp,
     AwakeDone, OthersUnchanged
<1> USE <1>cfg, WalkPlaces DEF Threads, Phases, Walking
<1>1. CASE Connect BY <1>1 DEF Connect
<1>2. CASE Disconnect BY <1>2 DEF Disconnect
<1>3. CASE LoopDone BY <1>3 DEF LoopDone, LoopEnd
<1>4. CASE Inactive BY <1>4 DEF Inactive
<1>5. CASE SleepDone BY <1>5 DEF SleepDone, LoopEnd
<1>6. CASE WakeUp BY <1>6 DEF WakeUp, Asleep
<1>7. CASE AwakeDone BY <1>7 DEF AwakeDone, LoopEnd
<1> QED BY <1>1, <1>2, <1>3, <1>4, <1>5, <1>6, <1>7 DEF ManagerStep

\* So do the suspension and the resumption of the stack.
LEMMA StackPlaces ==
  ASSUME PcInv, Ranges, StackStep
  PROVE  Ranges' /\ \A o : Apart(o)
<1>cfg. UNCHANGED <<cfg, ctx>> /\ faults \subseteq faults'
  BY FaultsGrow DEF StackStep, LwipSuspend, LwipResume, NetxSuspendIp, NetxStopTimers,
     NetxSuspendDhcp, NetxResumeDhcp, NetxResumeIp, BadState, DhcpChanges, StackVars
<1>walk. ASSUME NEW at \in Phases, Phase("lpa", at),
                pc["lpa"].at \in {"suspend", "locked", "resume"},
                at \in {"idle", "locked", "sleep", "stuck"}
         PROVE  Ranges' /\ \A o : Apart(o)
  BY <1>walk, <1>cfg, WalkPlaces DEF Threads, Walking
<1>goto. ASSUME NEW p \in Parts, Goto("lpa", p), pc["lpa"].at \in {"locked", "resume"}
         PROVE  Ranges' /\ \A o : Apart(o)
  <2>1. PcType' /\ pc'["lpa"].at = pc["lpa"].at BY <1>goto, LpaGoto DEF PcInv
  <2>2. pc["lpa"] \in Place BY DEF PcInv, PcType, Threads
  <2>3. pc'["lpa"].i = pc["lpa"].i /\ pc'["lpa"].last = pc["lpa"].last
        /\ \A u \in Threads \ {"lpa"} : pc'[u] = pc[u]
    BY <1>goto, <2>2 DEF Goto, PcInv, PcType, Threads, Place
  <2>4. Ranges' BY <1>cfg, <1>goto, <2>1, <2>3 DEF Ranges, NetRests, Threads
  <2>5. \A o : Apart(o) BY <1>cfg, <1>goto, <2>1, <2>3, Turns DEF Threads, Walking
  <2> QED BY <2>4, <2>5
<1>same. pc' = pc => Ranges' /\ \A o : Apart(o) BY <1>cfg, SamePlaces
<1> USE <1>walk, <1>goto, <1>same DEF Phases, Parts, GoToSleep, Netx
<1>1. CASE LwipSuspend BY <1>1 DEF LwipSuspend
<1>2. CASE LwipResume BY <1>2 DEF LwipResume
<1>3. CASE NetxSuspendIp BY <1>3 DEF NetxSuspendIp
<1>4. CASE NetxStopTimers BY <1>4 DEF NetxStopTimers
<1>5. CASE NetxSuspendDhcp BY <1>5 DEF NetxSuspendDhcp
<1>6. CASE NetxResumeDhcp BY <1>6 DEF NetxResumeDhcp
<1>7. CASE NetxResumeIp BY <1>7 DEF NetxResumeIp
<1>8. CASE BadState \/ DhcpChanges BY <1>8 DEF BadState, DhcpChanges
<1> QED BY <1>1, <1>2, <1>3, <1>4, <1>5, <1>6, <1>7, <1>8 DEF StackStep

\* The threads begin in their ranges.
LEMMA RangesInitially == Init => Ranges
<1> SUFFICES ASSUME Init PROVE Ranges OBVIOUS
<1>1. Len(cfg.list) \in Nat BY ThreadsInitially, ListFacts DEF PcInv
<1>2. \A t \in Threads : pc[t] = [at |-> "idle", i |-> 1, last |-> 0, part |-> "start", k |-> 0]
  BY DEF Init, EnvInit, Threads
<1> QED BY <1>1, <1>2 DEF Ranges, Threads

\* What a step of the others leaves of offload o: everything but the steps of its own
\* component and its own init.
Own(o) ==
  \/ o = "tko" /\ TkoStep
  \/ o = "tls" /\ TlsStep
  \/ o = "wowl" /\ WowlStep
  \/ o \in {"nko", "nullko"} /\ NatStep
  \/ o \in Offloads /\ InitClear(o) /\ UNCHANGED <<tcp, tko, tls, nat, ns>>

\* Every step keeps the ranges, and leaves an offload where it is unless it is its own.
LEMMA StepPlaces ==
  ASSUME PcInv, Ranges, [Next]_system
  PROVE  Ranges' /\ \A o \in Offloads : Own(o) \/ Apart(o)
<1>moves. ASSUME NEW p, Moves(p), Frame
          PROVE  Ranges' /\ \A o : o # p => Apart(o)
  BY <1>moves, MovesKeepRanges, MovesApart DEF Frame, PcFrame
<1>type. PcType /\ LpaParts BY DEF PcInv
<1>1. CASE ManagerStep BY <1>1, ManagerPlaces
<1>2. CASE StackStep BY <1>2, StackPlaces
<1>3. CASE TkoStep
  <2>1. Ranges' /\ \A o : o # "tko" => Apart(o) BY <1>3, <1>type, <1>moves, TkoMoves, TkoFrame
  <2> QED BY <1>3, <2>1 DEF Own
<1>4. CASE TlsStep
  <2>1. Ranges' /\ \A o : o # "tls" => Apart(o) BY <1>4, <1>type, <1>moves, TlsMoves, TlsFrame
  <2> QED BY <1>4, <2>1 DEF Own
<1>5. CASE WowlStep
  <2>1. Ranges' /\ \A o : o # "wowl" => Apart(o)
    BY <1>5, <1>type, <1>moves, WowlMoves, WowlFrame
  <2> QED BY <1>5, <2>1 DEF Own
<1>6. CASE NatStep
  <2>1. Ranges' /\ \A o : o \notin {"nko", "nullko"} => Apart(o)
    BY <1>6, <1>type, <1>moves, NatMoves, NatFrame
  <2> QED BY <1>6, <2>1 DEF Own
<1>7. CASE SocketsStep
  <2>1. /\ Ranges' /\ \A o : o # "tko" => Apart(o)
        /\ Ranges' /\ \A o : o # "tls" => Apart(o)
    BY <1>7, <1>type, <1>moves, SocketsMoveNone, SocketsFrame
  <2>2. \A o : o # "tko" \/ o # "tls" OBVIOUS
  <2> QED BY <2>1, <2>2
<1>8. CASE AppRegister
  <2>1. /\ Ranges' /\ \A o : o # "tko" => Apart(o)
        /\ Ranges' /\ \A o : o # "tls" => Apart(o)
    BY <1>8, <1>type, <1>moves, ClearMoves, ClearFrame
  <2>2. \A o : o # "tko" \/ o # "tls" OBVIOUS
  <2> QED BY <2>1, <2>2
<1>9. CASE /\ \E o \in Offloads : InitClear(o)
           /\ UNCHANGED <<tcp, tko, tls, nat, ns>>
  <2>1. PICK p \in Offloads : InitClear(p) BY <1>9
  <2>2. Ranges' /\ \A o : o # p => Apart(o) BY <1>9, <2>1, <1>type, <1>moves, ClearMoves, ClearFrame
  <2> QED BY <1>9, <2>1, <2>2 DEF Own
<1>10. CASE UNCHANGED system
  BY <1>10, SamePlaces DEF system, env
<1> QED BY <1>1, <1>2, <1>3, <1>4, <1>5, <1>6, <1>7, <1>8, <1>9, <1>10 DEF Next

\* What went wrong stays noted at every step.
LEMMA StepGrows ==
  ASSUME PcInv, Ranges, [Next]_system
  PROVE  faults \subseteq faults'
<1>1. Apart("tko") \/ Apart("tls") \/ TkoStep \/ InitClear("tko")
  BY StepPlaces DEF Offloads, Own
<1>2. TkoStep => Frame BY TkoFrame DEF PcInv
<1>3. InitClear("tko") => Frame BY ClearFrame DEF PcInv, Offloads
<1> QED BY <1>1, <1>2, <1>3 DEF Apart, Frame

\* The dispatching thread goes to another part of offload o.
LEMMA LpaGoesTo ==
  ASSUME PcInv, Ranges, cfg' = cfg, NEW at \in {"sleep", "awake"}, NEW o, NEW part,
         At("lpa", at, o, part), NEW p \in Parts, NEW k \in Nat,
         Goto("lpa", p) \/ Count("lpa", p, k)
  PROVE  /\ pc'["net"] = pc["net"] /\ At("lpa", at, o, p)'
         /\ \A down, up :
              /\ Past(cfg.list, pc["lpa"], o, down, up)
                   <=> (IF at = "sleep" THEN part \in down ELSE part \in up)
              /\ Past(cfg'.list, pc'["lpa"], o, down, up)
                   <=> (IF at = "sleep" THEN p \in down ELSE p \in up)
<1>1. pc["lpa"] \in Place /\ cfg \in Configs BY DEF PcInv, PcType, Threads
<1>2. PcType' BY LpaStep DEF PcInv, At, PcFrame
<1>3. pc'["lpa"] \in Place BY <1>2 DEF PcType, Threads
<1>4. /\ pc'["lpa"].at = pc["lpa"].at /\ pc'["lpa"].i = pc["lpa"].i
      /\ pc'["lpa"].last = pc["lpa"].last /\ pc'["lpa"].part = p /\ pc'["net"] = pc["net"]
  BY <1>1 DEF Goto, Count, PcInv, PcType, Threads, Place
<1>5. At("lpa", at, o, p)' BY <1>4 DEF At
<1>6. pc["lpa"].i \in DOMAIN cfg.list BY <1>1, ListFacts DEF Ranges, Threads, At, Place
<1>7. \A down, up : Past(cfg.list, pc["lpa"], o, down, up)
                      <=> (IF at = "sleep" THEN part \in down ELSE part \in up)
  BY <1>1, <1>6, PastHere DEF At
<1>8. \A down, up : Past(cfg.list, pc'["lpa"], o, down, up)
                      <=> (IF at = "sleep" THEN p \in down ELSE p \in up)
  BY <1>1, <1>3, <1>4, <1>6, PastHere DEF At
<1> QED BY <1>4, <1>5, <1>7, <1>8

\* It goes on to the next offload.
LEMMA LpaGoesOn ==
  ASSUME PcInv, Ranges, cfg' = cfg, NEW at \in {"sleep", "awake"}, NEW o, NEW part,
         At("lpa", at, o, part), NextOffload("lpa")
  PROVE  /\ pc'["net"] = pc["net"] /\ pc'["lpa"].part = "start"
         /\ \A down, up :
              /\ Past(cfg.list, pc["lpa"], o, down, up)
                   <=> (IF at = "sleep" THEN part \in down ELSE part \in up)
              /\ Past(cfg'.list, pc'["lpa"], o, down, up) <=> at = "sleep"
<1>1. pc["lpa"] \in Place /\ cfg \in Configs BY DEF PcInv, PcType, Threads
<1>2. /\ PcType' /\ pc'["lpa"].at = pc["lpa"].at /\ pc'["net"] = pc["net"]
  BY NextPlace DEF PcInv, Threads
<1>3. pc'["lpa"] \in Place BY <1>2 DEF PcType, Threads
<1>4. pc'["lpa"] = [at |-> pc["lpa"].at, i |-> pc["lpa"].i + 1, last |-> pc["lpa"].last,
                    part |-> "start", k |-> 0]
  BY <1>1 DEF NextOffload, PcInv, PcType, Threads
<1>6. pc["lpa"].i \in DOMAIN cfg.list BY <1>1, ListFacts DEF Ranges, Threads, At, Place
<1>7. \A down, up : Past(cfg.list, pc["lpa"], o, down, up)
                      <=> (IF at = "sleep" THEN part \in down ELSE part \in up)
  BY <1>1, <1>6, PastHere DEF At
<1>8. \A down, up : Past(cfg.list, pc'["lpa"], o, down, up) <=> at = "sleep"
  BY <1>1, <1>3, <1>4, <1>6, PastNext DEF At
<1> QED BY <1>2, <1>4, <1>7, <1>8

\* The connection manager's thread goes to another part of offload o, or on.
LEMMA NetGoesTo ==
  ASSUME PcInv, Ranges, cfg' = cfg, NEW at, NEW o, NEW part,
         At("net", at, o, part), NEW p \in Parts, Goto("net", p)
  PROVE  pc'["lpa"] = pc["lpa"] /\ At("net", at, o, p)'
<1>1. pc["net"] \in Place BY DEF PcInv, PcType, Threads
<1>4. /\ pc'["net"].at = pc["net"].at /\ pc'["net"].i = pc["net"].i
      /\ pc'["net"].last = pc["net"].last /\ pc'["net"].part = p /\ pc'["lpa"] = pc["lpa"]
  BY <1>1 DEF Goto, PcInv, PcType, Threads, Place
<1> QED BY <1>4 DEF At

\* Or it goes on to the next one.
LEMMA NetGoesOn ==
  ASSUME PcInv, Ranges, cfg' = cfg, NextOffload("net") \/ InitFails
  PROVE  pc'["lpa"] = pc["lpa"] /\ pc'["net"].part = "start"
<1>1. pc["net"] \in Place BY DEF PcInv, PcType, Threads
<1> QED BY <1>1 DEF NextOffload, InitFails, Walk, PcInv, PcType, Threads

\* A thread that runs is past no offload.
LEMMA NotPast ==
  ASSUME ~Suspended, NEW o, NEW down, NEW up
  PROVE  ~Past(cfg.list, pc["lpa"], o, down, up)
BY DEF Suspended, Past

-----------------------------------------------------------------------------
(* The table of event handlers                                             *)

TableType == table \in [Slots -> Clients \cup {Free}]

\* A table that is not full has a first free entry.
LEMMA FirstIsFree ==
  ASSUME FreeEntries # {}
  PROVE  FirstFree \in Slots /\ table[FirstFree] = Free
<1>1. FreeEntries \subseteq Nat BY EnvAssumption DEF FreeEntries, Slots
<1>2. \E x \in FreeEntries : \A y \in FreeEntries : <<y, x>> \notin OpToRel(<, Nat)
  <2> DEFINE less == OpToRel(<, Nat)
  <2>1. IsWellFoundedOn(less, Nat) BY NatLessThanWellFounded
  <2> HIDE DEF less
  <2>2. \E x \in FreeEntries : \A y \in FreeEntries : ~(<<y, x>> \in less)
    BY <1>1, <2>1, WFMin
  <2> QED BY <2>2 DEF less
<1>3. PICK x \in FreeEntries : \A y \in FreeEntries : <<y, x>> \notin OpToRel(<, Nat) BY <1>2
<1>4. \A y \in FreeEntries : x <= y
  <2> TAKE y \in FreeEntries
  <2>1. <<y, x>> \notin OpToRel(<, Nat) BY <1>3
  <2>2. ~(y < x) BY <1>1, <2>1 DEF OpToRel
  <2> QED BY <1>1, <2>2
<1>5. FirstFree \in FreeEntries BY <1>4 DEF FirstFree
<1> QED BY <1>5 DEF FreeEntries

\* A client that registers has its entry, or the table is full; the entries of
\* the others stay.
LEMMA Registers ==
  ASSUME TableType, NEW client \in Clients, NEW entry, NEW e, Register(client, entry, e)
  PROVE  /\ TableType' /\ faults \subseteq faults'
         /\ \/ /\ e \in Slots /\ table'[e] = client /\ table[e] \in {client, Free}
               /\ \A s \in Slots : s # e => table'[s] = table[s]
            \/ /\ e = entry /\ table' = table /\ "tableFull" \in faults'
               /\ \A s \in Slots : table[s] # client
<1> USE DEF TableType
<1>1. CASE /\ e \in Slots /\ table[e] = client
           /\ UNCHANGED <<table, faults>>
  BY <1>1
<1>2. CASE /\ FreeEntries # {} /\ e = FirstFree
           /\ table' = [table EXCEPT ![FirstFree] = client]
           /\ UNCHANGED faults
  BY <1>2, FirstIsFree
<1>3. CASE /\ FreeEntries = {} /\ ~Registered(client)
           /\ e = entry /\ UNCHANGED table
           /\ Note("tableFull")
  BY <1>3 DEF Note, Registered
<1> QED BY <1>1, <1>2, <1>3 DEF Register

\* Giving an entry back frees that one and leaves the others.
LEMMA Deregisters ==
  ASSUME TableType, NEW entry, Deregister(entry)
  PROVE  /\ TableType'
         /\ \A s \in Slots : table'[s] = IF s = entry THEN Free ELSE table[s]
BY DEF TableType, Deregister

\* The table begins empty.
LEMMA TableInitially == Init => TableType
BY DEF Init, EnvInit, TableType

-----------------------------------------------------------------------------
(***************************************************************************)
(* The NAT keep-alive in the list of offloads, for every list, every number*)
(* of addresses and of configurations.  The argument follows the thread of *)
(* the connection manager: the offload is on only after the thread has been*)
(* past it on the way up and before it has been past it on the way down.   *)
(***************************************************************************)

NkoAt(j) == j \in DOMAIN cfg.list /\ cfg.list[j] = "nko"
NkoOn    == natReg \/ natDev # NoPacket \/ \E b \in Builders : builder[b] # Resting

\* The thread of the connection manager has been past the offload on its way up,
\* and has not been past it on its way down.
NkoReached ==
  LET n == pc["net"] IN
  \E j \in DOMAIN cfg.list :
    /\ cfg.list[j] = "nko"
    /\ \/ n.at = "up"
       \/ n.at = "init" /\ j < n.i
       \/ /\ n.at \in {"undo", "deinit"} /\ n.i <= j /\ j <= n.last
          /\ j = n.i => n.part \in {"start", "disable"}

NkoStopping ==
  /\ pc["net"].at \in {"undo", "deinit"}
  /\ NkoAt(pc["net"].i) /\ pc["net"].part = "disable"

NetRange == 1 <= pc["net"].i /\ pc["net"].last <= Len(cfg.list)

NatInv ==
  /\ NetRange
  /\ NatFaults \cap faults = {} =>
       /\ NkoOn => Active("nko") /\ NkoReached
       /\ NkoStopping => ~natReg

\* What the steps of the other offloads do to the thread of the connection manager.
NetMoves ==
  LET n == pc["net"]
      m == pc'["net"]
      other == cfg.list[n.i] # "nko"
  IN \/ m = n
     \/ m.at = n.at /\ m.i = n.i /\ m.last = n.last /\ other
     \/ m.at = n.at /\ m.i = n.i + 1 /\ m.last = n.last /\ m.part = "start" /\ other
     \/ n.at = "init" /\ n.i <= n.last
        /\ m.at = "undo" /\ m.i = 1 /\ m.last = n.i - 1 /\ m.part = "start"
OtherOffload == NetMoves /\ ("nko" \in ctx' <=> "nko" \in ctx)

\* A step of the dispatching thread leaves the other one alone.
LEMMA LpaLeavesNet ==
  ASSUME PcType, NEW p \in Parts, NEW k \in Nat,
         Goto("lpa", p) \/ Count("lpa", p, k) \/ NextOffload("lpa")
  PROVE  pc'["net"] = pc["net"]
<1>1. CASE Goto("lpa", p) BY <1>1 DEF PcType, Goto, Threads
<1>2. CASE Count("lpa", p, k) BY <1>2 DEF PcType, Count, Threads
<1>3. CASE NextOffload("lpa") BY <1>3, NextPlace DEF Threads
<1> QED BY <1>1, <1>2, <1>3

\* The three ways on for the connection manager's thread: the next offload,
LEMMA NetNext ==
  ASSUME PcType, NextOffload("net")
  PROVE  /\ pc'["net"].at = pc["net"].at /\ pc'["net"].i = pc["net"].i + 1
         /\ pc'["net"].last = pc["net"].last /\ pc'["net"].part = "start"
<1>1. pc'["net"] = [at |-> pc["net"].at, i |-> pc["net"].i + 1, last |-> pc["net"].last,
                    part |-> "start", k |-> 0]
  BY DEF NextOffload, PcType, Threads
<1> QED BY <1>1

\* another part of the same one,
LEMMA NetGoto ==
  ASSUME PcType, NEW p \in Parts, Goto("net", p)
  PROVE  /\ pc'["net"].at = pc["net"].at /\ pc'["net"].i = pc["net"].i
         /\ pc'["net"].last = pc["net"].last /\ pc'["net"].part = p
<1>1. pc["net"] \in Place BY DEF PcType, Threads
<1> QED BY <1>1 DEF PcType, Goto, Place, Threads

\* and the beginning of the undoing.
LEMMA NetUndo ==
  ASSUME PcType, InitFails
  PROVE  /\ pc'["net"].at = "undo" /\ pc'["net"].i = 1
         /\ pc'["net"].last = pc["net"].i - 1 /\ pc'["net"].part = "start"
<1>1. pc'["net"] = [at |-> "undo", i |-> 1, last |-> pc["net"].i - 1,
                    part |-> "start", k |-> 0]
  BY DEF PcType, InitFails, Walk, Threads
<1> QED BY <1>1

\* Each of them is a NetMoves when it is taken for another offload.
LEMMA NetOther ==
  ASSUME PcType, NEW o \in Offloads \ {"nko"}, NEW at, NEW part, At("net", at, o, part),
         NEW p \in Parts,
         Goto("net", p) \/ NextOffload("net") \/ (at = "init" /\ InitFails)
  PROVE  NetMoves
BY NetNext, NetGoto, NetUndo DEF At, NetMoves

\* No component but the NAT keep-alive takes a thread past it, or writes its
\* context; first the TKO offload.
LEMMA TkoIsOther == ASSUME PcType, LpaParts, TkoStep PROVE OtherOffload /\ UNCHANGED cfg
<1> USE DEF Parts, Offloads, OtherOffload
<1>same. pc'["net"] = pc["net"] => NetMoves BY DEF NetMoves
<1>1. CASE TkoInit
  BY <1>1, NetOther DEF TkoInit, HasContext
<1>2. CASE TkoSleep
  BY <1>2, <1>same, LpaLeavesNet DEF TkoSleep
<1>3. CASE \E part \in {"activate", "found"} : TkoActivate(part)
  BY <1>3, <1>same, LpaLeavesNet DEF TkoActivate, PcType, Place, Threads
<1>4. CASE TkoActivated \/ TkoToggleOn \/ TkoRegister \/ TkoMark
  BY <1>4, <1>same, LpaLeavesNet DEF TkoActivated, TkoToggleOn, TkoRegister, TkoMark
<1>5. CASE \E t \in Threads : TkoDisable(t)
  BY <1>5, <1>same, LpaLeavesNet, NetOther DEF TkoDisable, Threads
<1>9. CASE \E t \in Threads : TkoUnmark(t)
  BY <1>9, <1>same, LpaLeavesNet, NetOther DEF TkoUnmark, Threads
<1>6. CASE \E t \in Threads : TkoDeregister(t)
  BY <1>6, <1>same, LpaLeavesNet, NetOther DEF TkoDeregister, Threads
<1>7. CASE \E t \in Threads : TkoToggleOff(t)
  BY <1>7, <1>same, LpaLeavesNet, NetOther DEF TkoToggleOff, Threads
<1>8. CASE TkoEvent \/ TkoHandler \/ UpdateClear \/ UpdateWrite
  BY <1>8, <1>same DEF TkoEvent, TkoHandler, UpdateClear, UpdateWrite, env
<1> QED BY <1>1, <1>2, <1>3, <1>4, <1>5, <1>6, <1>7, <1>8, <1>9 DEF TkoStep, Threads

\* The TLS offload.
LEMMA TlsIsOther == ASSUME PcType, LpaParts, TlsStep PROVE OtherOffload /\ UNCHANGED cfg
<1> USE DEF Parts, Offloads, OtherOffload, LpaAt
<1>same. pc'["net"] = pc["net"] => NetMoves BY DEF NetMoves
<1>1. CASE TlsInit
  BY <1>1, NetOther DEF TlsInit, HasContext
<1>2. CASE TlsDeinit
  BY <1>2, NetOther DEF TlsDeinit
<1>3. CASE TlsSleep
  BY <1>3, <1>same, LpaLeavesNet DEF TlsSleep
<1>4. CASE TlsPattern
  BY <1>4, <1>same, LpaLeavesNet DEF TlsPattern
<1>5. CASE TlsCleanUp
  BY <1>5, <1>same, LpaLeavesNet DEF TlsCleanUp
<1>6. CASE TlsActivate \/ TlsProtect \/ TlsRegister
  BY <1>6, <1>same, LpaLeavesNet DEF TlsActivate, TlsProtect, TlsRegister
<1>7. CASE TlsWake
  BY <1>7, <1>same, LpaLeavesNet DEF TlsWake
<1>8. CASE TlsRestore \/ TlsRelease
  BY <1>8, <1>same, LpaLeavesNet DEF TlsRestore, TlsRelease
<1>9. CASE TlsClear
  BY <1>9, <1>same, LpaLeavesNet DEF TlsClear
<1>10. CASE TlsDeregister
  BY <1>10, <1>same, LpaLeavesNet DEF TlsDeregister
<1>11. CASE DeviceSends \/ WakeEvent \/ TlsHandler
  BY <1>11, <1>same DEF DeviceSends, WakeEvent, TlsHandler
<1>12. CASE \E c \in Conns : ConfigClear(c) \/ SetPorts(c)
  BY <1>12, <1>same DEF ConfigClear, SetPorts
<1>13. CASE ConfigCopy \/ ConfigSocket \/ SetAddress
  BY <1>13, <1>same DEF ConfigCopy, ConfigSocket, SetAddress
<1> QED BY <1>1, <1>2, <1>3, <1>6, <1>11, <1>12, <1>13, <1>7, <1>8, <1>9,
        <1>4, <1>5, <1>10 DEF TlsStep

\* The WOWL offload.
LEMMA WowlIsOther == ASSUME PcType, LpaParts, WowlStep PROVE OtherOffload /\ UNCHANGED cfg
<1> USE DEF Parts, Offloads, OtherOffload, WowlAt, WowlVars
<1>same. pc'["net"] = pc["net"] => NetMoves BY DEF NetMoves
<1>1. CASE WowlInit
  BY <1>1, NetOther DEF WowlInit, HasContext
<1>2. CASE WowlDeinit
  BY <1>2, NetOther DEF WowlDeinit
<1>3. CASE WowlConfigure \/ WowlActivate \/ WowlUndo \/ WowlWake \/ WowlDone
  BY <1>3, <1>same, LpaLeavesNet
  DEF WowlConfigure, WowlActivate, WowlUndo, WowlWake, WowlDone
<1>4. CASE WowlSet
  BY <1>4, <1>same, LpaLeavesNet DEF WowlSet, PcType, Place, Threads
<1>5. CASE WowlDelete
  BY <1>5, <1>same, LpaLeavesNet DEF WowlDelete, PcType, Place, Threads
<1> QED BY <1>1, <1>2, <1>3, <1>4, <1>5 DEF WowlStep

\* The suspension and the resumption of the stack.
LEMMA StackIsOther == ASSUME PcInv, StackStep PROVE OtherOffload /\ UNCHANGED <<cfg, nat>>
<1>len. Len(cfg.list) \in Nat BY LenNat DEF PcInv
<1>1. PcType BY DEF PcInv
<1>2. pc'["net"] = pc["net"] /\ UNCHANGED <<cfg, ctx, nat>>
  BY <1>len, <1>1, LpaWalk, LpaLeavesNet
  DEF StackStep, LwipSuspend, LwipResume, NetxSuspendIp, NetxStopTimers,
      NetxSuspendDhcp, NetxResumeDhcp, NetxResumeIp, BadState, DhcpChanges, GoToSleep, Phase,
      StackVars, Phases, Parts
<1> QED BY <1>2 DEF OtherOffload, NetMoves

\* The application and the TCP stack.
LEMMA SocketsAreOther == ASSUME SocketsStep PROVE OtherOffload /\ UNCHANGED cfg
<1>1. UNCHANGED <<cfg, ctx, pc>>
  BY DEF SocketsStep, SocketCreate, Transfer, Close, TimeWaitEnds, BindFails, BindConnect,
     ConnectFails, Connected, SetOptions, SendFirst, env
<1> QED BY <1>1 DEF OtherOffload, NetMoves

\* The NULL keep-alive, and what pm of both does.
LEMMA NullkoIsOther ==
  ASSUME PcType, NullkoInit \/ NullkoDeinit \/ KeepAlivePm
  PROVE  OtherOffload /\ UNCHANGED <<cfg, host, natCfg, nkoCtx, natReg, builder, natDev>>
<1> USE DEF Parts, Offloads, OtherOffload
<1>1. CASE NullkoInit
  BY <1>1, NetOther DEF NullkoInit, HasContext
<1>2. CASE NullkoDeinit
  BY <1>2, NetOther DEF NullkoDeinit, nat
<1>3. CASE KeepAlivePm
  BY <1>3, LpaLeavesNet DEF KeepAlivePm, NetMoves, nat
<1> QED BY <1>1, <1>2, <1>3

\* An offload is on the list once,
LEMMA ListOnce ==
  ASSUME cfg \in Configs, NEW i, NEW j, NkoAt(i), NkoAt(j)
  PROVE  i = j
BY EnvAssumption DEF NkoAt

\* at an index from 1 to its length.
LEMMA ListDomain ==
  ASSUME cfg \in Configs
  PROVE  Len(cfg.list) \in Nat /\ DOMAIN cfg.list = 1 .. Len(cfg.list)
BY EnvAssumption

\* A step of another offload leaves the NAT keep-alive where it was.
LEMMA OthersKeepNat ==
  ASSUME PcInv, NatInv, OtherOffload, cfg' = cfg, faults \subseteq faults',
         UNCHANGED <<natReg, natDev, builder>>, PcType'
  PROVE  NatInv'
<1>len. Len(cfg.list) \in Nat /\ DOMAIN cfg.list = 1 .. Len(cfg.list)
  BY ListDomain DEF PcInv
<1>int. pc["net"] \in Place BY DEF PcInv, PcType, Threads
<1>1. NetRange' BY <1>len, <1>int DEF OtherOffload, NetMoves, NatInv, NetRange, Place
<1>2. SUFFICES ASSUME NatFaults \cap faults = {}
               PROVE  (NkoOn => Active("nko") /\ NkoReached)' /\ (NkoStopping => ~natReg)'
  BY <1>1 DEF NatInv, NatFaults
<1>3. ASSUME NkoOn' PROVE Active("nko")' /\ NkoReached'
  <2>1. NkoOn /\ Active("nko") /\ NkoReached BY <1>2, <1>3 DEF NkoOn, NatInv
  <2>2. Active("nko")' BY <2>1 DEF Active, OtherOffload
  <2>3. NkoReached'
    BY <2>1, <1>len, <1>int DEF NkoReached, OtherOffload, NetMoves, Place
  <2> QED BY <2>2, <2>3
<1>4. ASSUME NkoStopping' PROVE ~natReg'
  <2>1. NkoStopping BY <1>4 DEF NkoStopping, NkoAt, OtherOffload, NetMoves
  <2> QED BY <2>1, <1>2 DEF NatInv
<1> QED BY <1>3, <1>4

\* The place of the connection manager's thread is a place.
LEMMA NetPlace == ASSUME PcInv PROVE pc["net"] \in Place
BY DEF PcInv, PcType, Threads

\* The steps after which the packets are as they were, or gone, and the threads
\* are where they were.
LEMMA BuildingKeepsNat ==
  ASSUME PcInv, NatInv, UNCHANGED <<cfg, pc, ctx>>, faults \subseteq faults',
         NkoOn' /\ NatFaults \cap faults' = {} => NkoOn,
         natReg' => natReg
  PROVE  NatInv'
<1>1. NetRange' BY DEF NatInv, NetRange
<1>2. SUFFICES ASSUME NatFaults \cap faults' = {}
               PROVE  (NkoOn => Active("nko") /\ NkoReached)' /\ (NkoStopping => ~natReg)'
  BY <1>1 DEF NatInv, NatFaults
<1>3. NatFaults \cap faults = {} BY <1>2
<1>4. NkoOn' => Active("nko")' /\ NkoReached'
  BY <1>2, <1>3 DEF NatInv, Active, NkoReached
<1>5. NkoStopping' => ~natReg' BY <1>3 DEF NatInv, NkoStopping, NkoAt
<1> QED BY <1>4, <1>5

\* The callback and update_config build a packet only for an offload that is on,
\* or notes the race with its deinit.
LEMMA CallbackKeepsNat ==
  ASSUME PcInv, NatInv,
         \/ \E a \in Addresses \cup {NoAddress} : AddressChanges(a)
         \/ \E c \in NatConfigs : UpdateConfig(c)
         \/ \E b \in Builders : Details(b) \/ Send(b)
  PROVE  NatInv'
<1> USE FaultsGrow, BuildingKeepsNat
<1>1. ASSUME NEW a \in Addresses \cup {NoAddress}, AddressChanges(a) PROVE NatInv'
  <2>1. UNCHANGED <<cfg, pc, ctx, natReg, natDev>> /\ (natReg \/ builder' = builder)
    BY <1>1 DEF AddressChanges
  <2>2. faults \subseteq faults' BY <1>1 DEF AddressChanges, Overlap
  <2> QED BY <2>1, <2>2 DEF NkoOn
<1>2. ASSUME NEW c \in NatConfigs, UpdateConfig(c) PROVE NatInv'
  <2>1. UNCHANGED <<cfg, pc, ctx, natReg, natDev>> BY <1>2 DEF UpdateConfig
  <2>2. faults \subseteq faults' BY <1>2 DEF UpdateConfig, Overlap
  <2>3. natReg \/ "natRace" \in faults' BY <1>2 DEF UpdateConfig, Note
  <2> QED BY <2>1, <2>2, <2>3 DEF NkoOn, NatFaults
<1>3. ASSUME NEW b \in Builders, Details(b) \/ Send(b) PROVE NatInv'
  <2>1. UNCHANGED <<cfg, pc, ctx, natReg>> BY <1>3 DEF Details, Send
  <2>2. faults \subseteq faults' BY <1>3 DEF Details, Send
  <2>3. builder[b].at # "rest" BY <1>3 DEF Details, Send
  <2>4. NkoOn BY <2>3 DEF NkoOn, Resting
  <2> QED BY <2>1, <2>2, <2>4
<1> QED BY <1>1, <1>2, <1>3

\* At its own place in the list, on the way up, the offload is off; so it is on
\* the way down when it has been disabled.
LEMMA NkoIsOff ==
  ASSUME PcInv, NatInv, NatFaults \cap faults = {}, NEW at, NEW part,
         At("net", at, "nko", part), at = "init" \/ part = "forget", at # "up"
  PROVE  ~NkoOn
<1>1. pc["net"] \in Place BY NetPlace
<1>2. Len(cfg.list) \in Nat /\ DOMAIN cfg.list = 1 .. Len(cfg.list) BY ListDomain DEF PcInv
<1>3. NkoAt(pc["net"].i) BY <1>1, <1>2 DEF At, NkoAt, NatInv, NetRange, Place
<1>4. \A j : NkoAt(j) => j = pc["net"].i BY <1>3, ListOnce DEF PcInv
<1>5. ~NkoReached
  BY <1>1, <1>2, <1>4 DEF NkoReached, NkoAt, At, Place
<1> QED BY <1>5 DEF NatInv

\* init turns the offload on, and deinit turns it off for good.
LEMMA NkoKeepsNat ==
  ASSUME PcInv, NatInv, NkoInit \/ NkoUnregister \/ NkoDisable \/ NkoForget
  PROVE  NatInv'
<1>net. pc["net"] \in Place /\ PcType BY NetPlace DEF PcInv
<1>len. Len(cfg.list) \in Nat /\ DOMAIN cfg.list = 1 .. Len(cfg.list) BY ListDomain DEF PcInv
<1>cfg. cfg' = cfg /\ faults \subseteq faults' /\ UNCHANGED builder
  BY FaultsGrow DEF NkoInit, NkoUnregister, NkoDisable, NkoForget, Overlap
<1> USE DEF Parts
<1>1. CASE NkoInit
  <2>at. At("net", "init", "nko", "fill") BY <1>1 DEF NkoInit
  <2>1. NetRange'
    BY <1>1, <1>net, <1>len, <1>cfg, NetNext, NetUndo DEF NkoInit, At, NatInv, NetRange, Place
  <2>2. SUFFICES ASSUME NatFaults \cap faults' = {}
                 PROVE  (NkoOn => Active("nko") /\ NkoReached)' /\ (NkoStopping => ~natReg)'
    BY <2>1 DEF NatInv, NatFaults
  <2>3. ~NkoOn BY <2>at, <2>2, <1>cfg, NkoIsOff
  <2>4. pc'["net"].part = "start" BY <1>1, <1>net, NetNext, NetUndo DEF NkoInit
  <2>5. CASE natReg' = natReg
    BY <2>3, <2>4, <2>5, <1>1, <1>cfg DEF NkoInit, NkoOn, NkoStopping
  <2>6. CASE "nko" \in cfg.given /\ cfg.newInfra /\ natReg' = TRUE /\ NextOffload("net")
    <3>1. Active("nko")' BY <2>6, <1>1, <1>cfg DEF NkoInit, HasContext, Active
    <3>2. NkoReached'
      BY <2>6, <2>at, <1>net, <1>len, <1>cfg, NetNext
      DEF At, NkoReached, NatInv, NetRange, Place
    <3> QED BY <3>1, <3>2, <2>4 DEF NkoStopping
  <2> QED BY <2>5, <2>6, <1>1 DEF NkoInit
<1>2. CASE NkoUnregister
  <2>at. pc["net"].at \in {"deinit", "undo"} /\ At("net", pc["net"].at, "nko", "start")
    BY <1>2 DEF NkoUnregister
  <2>1. CASE Active("nko") /\ Goto("net", "disable") /\ natReg' = FALSE
    <3>1. NetRange' BY <2>1, <1>net, <1>cfg, NetGoto DEF NatInv, NetRange
    <3>2. SUFFICES ASSUME NatFaults \cap faults' = {}
                   PROVE  (NkoOn => Active("nko") /\ NkoReached)' /\ (NkoStopping => ~natReg)'
      BY <3>1 DEF NatInv, NatFaults
    <3>3. ASSUME NkoOn' PROVE Active("nko")' /\ NkoReached'
      <4>1. NkoOn /\ NkoReached
        BY <3>2, <3>3, <2>1, <1>2, <1>cfg
        DEF NkoOn, NatInv, NkoUnregister
      <4>2. Active("nko")' BY <2>1, <1>2, <1>cfg DEF NkoUnregister, Active
      <4>3. NkoReached' BY <4>1, <2>1, <1>net, <1>cfg, NetGoto DEF NkoReached
      <4> QED BY <4>2, <4>3
    <3> QED BY <3>3, <2>1
  <2>2. CASE ~Active("nko") /\ NextOffload("net") /\ natReg' = natReg
    <3>1. NetRange' BY <2>2, <1>net, <1>cfg, NetNext DEF NatInv, NetRange, Place
    <3>2. SUFFICES ASSUME NatFaults \cap faults' = {}
                   PROVE  (NkoOn => Active("nko") /\ NkoReached)' /\ (NkoStopping => ~natReg)'
      BY <3>1 DEF NatInv, NatFaults
    <3>3. ~NkoOn' BY <3>2, <2>2, <1>2, <1>cfg DEF NkoOn, NatInv, NkoUnregister
    <3> QED BY <3>3 DEF NkoOn
  <2> QED BY <2>1, <2>2, <1>2 DEF NkoUnregister
<1>3. CASE NkoDisable
  <2>1. At("net", pc["net"].at, "nko", "disable") /\ Goto("net", "forget") /\ natReg' = natReg
        /\ ctx' = ctx
    BY <1>3 DEF NkoDisable
  <2>2. NetRange' BY <2>1, <1>net, <1>cfg, NetGoto DEF NatInv, NetRange
  <2>3. SUFFICES ASSUME NatFaults \cap faults' = {}
                 PROVE  (NkoOn => Active("nko") /\ NkoReached)' /\ (NkoStopping => ~natReg)'
    BY <2>2 DEF NatInv, NatFaults
  <2>4. natDev' = NoPacket /\ \A b \in Builders : builder'[b] = Resting
    BY <2>3, <1>3, <1>cfg DEF NkoDisable, Note, Faulty, NatFaults
  <2>5. ASSUME NkoOn' PROVE Active("nko")' /\ NkoReached'
    <3>1. natReg /\ NkoOn BY <2>1, <2>4, <2>5 DEF NkoOn
    <3>2. Active("nko") /\ NkoReached /\ ~NkoStopping
      BY <3>1, <2>3, <1>cfg DEF NatInv
    <3>3. NkoAt(pc["net"].i)
      BY <2>1, <1>net, <1>len DEF At, NkoAt, NatInv, NetRange, Place
    <3>4. pc["net"].at \notin {"undo", "deinit"}
      BY <3>2, <3>3, <2>1 DEF NkoStopping, At
    <3>5. NkoReached' BY <3>2, <3>4, <2>1, <1>net, <1>cfg, NetGoto DEF NkoReached
    <3> QED BY <3>2, <3>5, <2>1, <1>cfg DEF Active
  <2>6. ~NkoStopping' BY <2>1, <1>net, NetGoto DEF NkoStopping
  <2> QED BY <2>5, <2>6
<1>4. CASE NkoForget
  <2>1. At("net", pc["net"].at, "nko", "forget") /\ NextOffload("net")
        /\ UNCHANGED <<natReg, natDev, ctx>>
    BY <1>4 DEF NkoForget
  <2>2. NetRange' BY <2>1, <1>net, <1>cfg, NetNext DEF NatInv, NetRange, Place
  <2>3. SUFFICES ASSUME NatFaults \cap faults' = {}
                 PROVE  (NkoOn => Active("nko") /\ NkoReached)' /\ (NkoStopping => ~natReg)'
    BY <2>2 DEF NatInv, NatFaults
  <2>4. NkoOn' => NkoOn BY <2>1, <1>cfg DEF NkoOn
  <2>5. ~NkoStopping' BY <2>1, <1>net, NetNext DEF NkoStopping
  <2>6. CASE pc["net"].at # "up"
    <3>1. ~NkoOn BY <2>1, <2>3, <2>6, <1>cfg, NkoIsOff
    <3> QED BY <3>1, <2>4, <2>5
  <2>7. CASE pc["net"].at = "up"
    <3>1. NkoReached => NkoReached'
      BY <2>1, <2>7, <1>net, <1>cfg, NetNext DEF NkoReached
    <3>2. Active("nko") => Active("nko")' BY <2>1, <1>cfg DEF Active
    <3> QED BY <3>1, <3>2, <2>3, <2>4, <2>5, <1>cfg DEF NatInv
  <2> QED BY <2>6, <2>7
<1> QED BY <1>1, <1>2, <1>3, <1>4

\* A walk ends past the offload, in whichever direction it goes.
LEMMA ManagerKeepsNat == ASSUME PcInv, NatInv, ManagerStep PROVE NatInv'
<1>net. pc["net"] \in Place /\ PcType BY NetPlace DEF PcInv
<1>len. Len(cfg.list) \in Nat /\ DOMAIN cfg.list = 1 .. Len(cfg.list)
  BY ListDomain DEF PcInv
<1>cfg. UNCHANGED <<cfg, ctx, nat>> /\ faults \subseteq faults'
  BY FaultsGrow DEF ManagerStep, Connect, Disconnect, LoopDone, Inactive, SleepDone, WakeUp,
     AwakeDone, OthersUnchanged
<1>on. NkoOn' <=> NkoOn BY <1>cfg DEF NkoOn, nat
<1>ctx. Active("nko")' <=> Active("nko") BY <1>cfg DEF Active
\* The thread of the connection manager goes on to another phase.
<1>phase. ASSUME NEW at, Phase("net", at),
                 NatFaults \cap faults = {} /\ NkoOn => NkoReached'
          PROVE  NatInv'
  <2>1. pc'["net"] = [at |-> at, i |-> 1, last |-> Len(cfg.list), part |-> "start", k |-> 0]
    BY <1>phase, <1>net DEF Phase, Walk, PcType, Threads
  <2>2. NetRange' BY <2>1, <1>len, <1>cfg DEF NetRange
  <2>3. ~NkoStopping' BY <2>1 DEF NkoStopping
  <2> QED BY <2>2, <2>3, <1>phase, <1>on, <1>ctx, <1>cfg DEF NatInv
<1>moved. ASSUME NEW at, Phase("net", at)
          PROVE  pc'["net"].at = at /\ pc'["net"].i = 1 /\ pc'["net"].last = Len(cfg.list)
                 /\ pc'["net"].part = "start"
  BY <1>moved, <1>net DEF Phase, Walk, PcType, Threads
<1>1. CASE Connect
  <2>1. ~NkoReached BY <1>1 DEF Connect, NkoReached
  <2> QED BY <1>1, <2>1, <1>phase DEF Connect, NatInv
<1>2. CASE Disconnect
  <2>1. NkoReached => NkoReached'
    BY <1>2, <1>moved, <1>len, <1>cfg DEF Disconnect, NkoReached
  <2> QED BY <1>2, <2>1, <1>phase DEF Disconnect, NatInv
<1>3. CASE LoopDone
  <2>1. CASE LoopEnd("net", "init") /\ Phase("net", "up")
    <3>1. NkoReached => NkoReached' BY <2>1, <1>moved, <1>cfg DEF LoopEnd, NkoReached
    <3> QED BY <2>1, <3>1, <1>phase DEF NatInv
  <2>2. ASSUME NEW at, LoopEnd("net", "undo") \/ LoopEnd("net", "deinit"), Phase("net", at)
        PROVE  NatInv'
    <3>1. ~NkoReached BY <2>2, <1>net, <1>len DEF LoopEnd, NkoReached, Place
    <3> QED BY <2>2, <3>1, <1>phase DEF NatInv
  <2> QED BY <2>1, <2>2, <1>3 DEF LoopDone
<1>4. CASE Inactive \/ SleepDone \/ WakeUp \/ AwakeDone
  <2>1. pc'["net"] = pc["net"]
    BY <1>4, <1>net, <1>len, LpaWalk
    DEF Inactive, SleepDone, WakeUp, AwakeDone, Phase, Phases
  <2>2. PcType'
    BY <1>4, <1>net, <1>len, LpaWalk
    DEF Inactive, SleepDone, WakeUp, AwakeDone, Phase, Phases
  <2> QED BY <2>1, <2>2, <1>cfg, OthersKeepNat DEF OtherOffload, NetMoves, nat
<1> QED BY <1>1, <1>2, <1>3, <1>4 DEF ManagerStep

\* The memset of an init clears the context of an offload that is off.
LEMMA ClearKeepsNat ==
  ASSUME PcInv, NatInv, UNCHANGED nat, AppRegister \/ \E o \in Offloads : InitClear(o)
  PROVE  NatInv'
<1>net. pc["net"] \in Place /\ PcType BY NetPlace DEF PcInv
<1>1. CASE AppRegister
  BY <1>1, BuildingKeepsNat DEF AppRegister, NkoOn, nat
<1>2. ASSUME NEW o \in Offloads, InitClear(o) PROVE NatInv'
  <2>at. At("net", "init", o, "start") /\ Goto("net", "fill") /\ ctx' = ctx \ {o} /\ cfg' = cfg
    BY <1>2 DEF InitClear
  <2>faults. faults \subseteq faults' BY <1>2, FaultsGrow DEF InitClear
  <2>1. CASE o # "nko"
    <3>1. NetMoves BY <2>at, <2>1, <1>net, NetOther DEF Parts
    <3>2. OtherOffload BY <2>at, <2>1, <3>1 DEF OtherOffload
    <3>3. PcType' BY <2>at, <1>net, NetStep DEF PcFrame, Parts
    <3> QED BY <3>2, <3>3, <2>at, <2>faults, OthersKeepNat DEF nat
  <2>2. CASE o = "nko"
    <3>1. NetRange' BY <2>at, <1>net, NetGoto DEF NatInv, NetRange, Parts
    <3>2. ~NkoStopping' BY <2>at, <1>net, NetGoto DEF NkoStopping, Parts
    <3>3. NatFaults \cap faults = {} => ~NkoOn BY <2>at, <2>2, NkoIsOff
    <3>4. NkoOn' <=> NkoOn BY DEF NkoOn, nat
    <3> QED BY <3>1, <3>2, <3>3, <3>4, <2>faults DEF NatInv
  <2> QED BY <2>1, <2>2
<1> QED BY <1>1, <1>2

\* The offload begins off.
LEMMA NatInitially == Init => NatInv
<1> SUFFICES ASSUME Init PROVE NatInv OBVIOUS
<1>1. pc["net"] = [at |-> "idle", i |-> 1, last |-> 0, part |-> "start", k |-> 0]
  BY DEF Init, EnvInit
<1>2. Len(cfg.list) \in Nat BY ListDomain DEF Init, EnvInit
<1>3. NetRange BY <1>1, <1>2 DEF NetRange
<1>4. ~NkoOn BY DEF Init, NatInitial, NkoOn
<1>5. ~NkoStopping BY <1>1 DEF NkoStopping
<1> QED BY <1>3, <1>4, <1>5 DEF NatInv

\* Every step keeps to the invariant.
LEMMA StepKeepsNat == PcInv /\ StackInv /\ NatInv /\ [Next]_system => NatInv'
<1> SUFFICES ASSUME PcInv, StackInv, NatInv, [Next]_system PROVE NatInv' OBVIOUS
<1>type. PcType /\ LpaParts /\ PcType' BY StepKeeps DEF PcInv
<1>other. ASSUME OtherOffload, UNCHANGED <<cfg, nat>>, faults \subseteq faults' PROVE NatInv'
  BY <1>other, <1>type, OthersKeepNat DEF nat
<1>1. CASE ManagerStep BY <1>1, ManagerKeepsNat
<1>2. CASE SocketsStep /\ UNCHANGED <<tko, tls, nat, ns>>
  BY <1>2, <1>type, <1>other, SocketsAreOther, SocketsFrame DEF Frame
<1>3. CASE TkoStep /\ UNCHANGED <<tls, nat, ns>>
  BY <1>3, <1>type, <1>other, TkoIsOther, TkoFrame DEF Frame
<1>4. CASE TlsStep /\ UNCHANGED <<nat, ns>>
  BY <1>4, <1>type, <1>other, TlsIsOther, TlsFrame DEF Frame
<1>5. CASE WowlStep /\ UNCHANGED <<nat, ns>>
  BY <1>5, <1>type, <1>other, WowlIsOther, WowlFrame DEF Frame
<1>6. CASE NatStep
  <2>1. CASE NullkoInit \/ NullkoDeinit \/ KeepAlivePm
    BY <2>1, <1>6, <1>type, NullkoIsOther, NatFrame, OthersKeepNat DEF Frame
  <2> QED BY <2>1, <1>6, NkoKeepsNat, CallbackKeepsNat DEF NatStep
<1>7. CASE StackStep
  <2>1. faults \subseteq faults'
    BY <1>7, FaultsGrow DEF StackStep, LwipSuspend, LwipResume, NetxSuspendIp, NetxStopTimers,
       NetxSuspendDhcp, NetxResumeDhcp, NetxResumeIp, BadState, DhcpChanges
  <2> QED BY <2>1, <1>7, <1>other, StackIsOther
<1>8. CASE (AppRegister \/ \E o \in Offloads : InitClear(o)) /\ UNCHANGED nat
  BY <1>8, ClearKeepsNat
<1>9. CASE UNCHANGED system
  BY <1>9, <1>other DEF system, env, OtherOffload, NetMoves
<1> QED BY <1>1, <1>2, <1>3, <1>4, <1>5, <1>6, <1>7, <1>8, <1>9 DEF Next

\* After deinit, and after an init that failed, the device sends no NAT keep-alive
\* packet, and nobody is left who would give it one.
THEOREM NatIsGone == Spec => []NatGoneAfterDeinit
<1>1. NatInv => NatGoneAfterDeinit
  BY DEF NatInv, NkoOn, NkoReached, NatGoneAfterDeinit
<1>2. Init => PcInv /\ StackInv /\ NatInv BY ThreadsInitially, StackInitially, NatInitially
<1>3. PcInv /\ StackInv /\ NatInv /\ [Next]_system => (PcInv /\ StackInv /\ NatInv)'
  BY StepKeeps, StepKeepsNat
<1> QED BY <1>1, <1>2, <1>3, PTL DEF Spec

-----------------------------------------------------------------------------
(* The packet the device sends                                             *)

\* The packet that belongs to the address and the configuration.
Current == [src |-> host, conf |-> natCfg]

\* The callback is registered while the offload is on, until deinit takes it back;
\* who is about to send a packet has read the address and the configuration as they
\* are; and the device sends that packet.
NatWays ==
  NatFaults \cap faults = {} =>
    /\ NkoOn /\ ~NkoStopping => natReg
    /\ \A b \in Builders : builder[b].at = "send" => builder[b].packet = Current
    /\ natDev # NoPacket /\ NatQuiet /\ host # NoAddress /\ natReg => natDev = Current

\* Nothing of the offload has changed, and the thread is still to disable it if it was.
LEMMA NatUntouched ==
  ASSUME NatWays, UNCHANGED nat, faults \subseteq faults',
         NatFaults \cap faults = {} /\ NkoOn => (NkoStopping => NkoStopping')
  PROVE  NatWays'
<1> SUFFICES ASSUME NatFaults \cap faults' = {} PROVE NatWays' BY DEF NatWays
<1>1. NatFaults \cap faults = {} OBVIOUS
<1>2. NkoOn' /\ ~NkoStopping' => natReg' BY <1>1 DEF NatWays, NkoOn, nat
<1>3. \A b \in Builders : builder'[b].at = "send" => builder'[b].packet = Current'
  BY <1>1 DEF NatWays, Current, nat
<1>4. natDev' # NoPacket /\ NatQuiet' /\ host' # NoAddress /\ natReg' => natDev' = Current'
  BY <1>1 DEF NatWays, Current, NatQuiet, nat
<1> QED BY <1>2, <1>3, <1>4 DEF NatWays

\* The builders are where NatType says.
LEMMA BuilderStep ==
  ASSUME NatType, NEW b \in Builders
  PROVE  /\ builder[b].at \in {"rest", "details", "send"}
         /\ \A r : builder' = [builder EXCEPT ![b] = r] =>
              builder'[b] = r /\ \A c \in Builders \ {b} : builder'[c] = builder[c]
         /\ builder' = [builder EXCEPT ![b].at = "details"] =>
              builder'[b].at = "details" /\ \A c \in Builders \ {b} : builder'[c] = builder[c]
BY DEF NatType


\* The state of the two keep-alives has its type.
LEMMA NatTypeKeeps ==
  ASSUME PcInv, NatType, [Next]_system
  PROVE  NatType'
<1> DEFINE packets == [src : Addresses \cup {NoAddress}, conf : NatConfigs \cup {Invalid}]
           places  == [at : {"rest", "details", "send"}, packet : packets]
<1>type. /\ host \in Addresses \cup {NoAddress} /\ natCfg \in NatConfigs \cup {Invalid}
         /\ nkoCtx \in BOOLEAN /\ natReg \in BOOLEAN /\ nullDev \in BOOLEAN
         /\ builder \in [Builders -> places] /\ natDev \in packets
  BY DEF NatType
<1>0. NoPacket \in packets /\ Resting \in places BY DEF NoPacket, Resting
<1>same. UNCHANGED nat => NatType' BY DEF NatType, nat
<1>1. CASE NkoInit
  <2>1. cfg.nat \in NatConfigs \cup {Invalid} BY NatAssumption DEF PcInv
  <2> QED BY <1>1, <1>type, <2>1 DEF NkoInit, NatType
<1>2. CASE NkoUnregister BY <1>2, <1>type DEF NkoUnregister, NatType
<1>3. CASE NkoDisable BY <1>3, <1>type, <1>0 DEF NkoDisable, NatType
<1>4. CASE NkoForget BY <1>4, <1>type DEF NkoForget, NatType
<1>5. CASE \E a \in Addresses \cup {NoAddress} : AddressChanges(a)
  BY <1>5, <1>type DEF AddressChanges, NatType, Builders
<1>6. CASE \E c \in NatConfigs : UpdateConfig(c)
  BY <1>6, <1>type DEF UpdateConfig, NatType, Builders
<1>7. ASSUME NEW b \in Builders, Details(b) PROVE NatType'
  <2>1. [src |-> host, conf |-> natCfg] \in packets BY <1>type
  <2>2. [at |-> "send", packet |-> [src |-> host, conf |-> natCfg]] \in places BY <2>1
  <2> HIDE DEF packets, places
  <2>3. builder' \in [Builders -> places] BY <1>7, <1>type, <1>0, <2>2 DEF Details, Abandon
  <2>4. UNCHANGED <<host, natCfg, nkoCtx, natReg, natDev, nullDev>> BY <1>7 DEF Details
  <2> QED BY <1>type, <2>3, <2>4 DEF NatType, packets, places
<1>8. ASSUME NEW b \in Builders, Send(b) PROVE NatType'
  <2>1. builder[b].packet \in packets BY <1>type
  <2> HIDE DEF packets, places
  <2>2. builder' \in [Builders -> places] BY <1>8, <1>type, <1>0 DEF Send, Abandon
  <2>3. natDev' \in packets BY <1>8, <1>type, <2>1 DEF Send
  <2>4. UNCHANGED <<host, natCfg, nkoCtx, natReg, nullDev>> BY <1>8 DEF Send
  <2> QED BY <1>type, <2>2, <2>3, <2>4 DEF NatType, packets, places
<1>9. CASE NullkoInit BY <1>9, <1>type DEF NullkoInit, NatType
<1>10. CASE NullkoDeinit \/ KeepAlivePm BY <1>10, <1>same DEF NullkoDeinit, KeepAlivePm
<1>11. CASE NatStep
  BY <1>1, <1>2, <1>3, <1>4, <1>5, <1>6, <1>7, <1>8, <1>9, <1>10, <1>11 DEF NatStep
<1>12. CASE ManagerStep
  BY <1>12, <1>same DEF ManagerStep, Connect, Disconnect, LoopDone, Inactive, SleepDone, WakeUp,
     AwakeDone, OthersUnchanged
<1>13. CASE StackStep BY <1>13, <1>same, StackIsOther
<1> QED BY <1>same, <1>11, <1>12, <1>13 DEF Next, system

\* A thread that is to disable the offload stays there unless it does so.
LEMMA StoppingStays ==
  ASSUME PcInv, NatInv, OtherOffload, cfg' = cfg, NkoStopping
  PROVE  NkoStopping'
BY DEF OtherOffload, NetMoves, NkoStopping, NkoAt

\* The callback and update_config.
LEMMA BuildingKeepsWays ==
  ASSUME PcInv, NatInv, NatType, NatWays,
         \/ \E a \in Addresses \cup {NoAddress} : AddressChanges(a)
         \/ \E c \in NatConfigs : UpdateConfig(c)
         \/ \E b \in Builders : Details(b) \/ Send(b)
  PROVE  NatWays'
<1> SUFFICES ASSUME NatFaults \cap faults' = {} PROVE NatWays' BY DEF NatWays
<1>grow. faults \subseteq faults'
  BY FaultsGrow DEF AddressChanges, UpdateConfig, Details, Send, Overlap
<1>no. /\ NatFaults \cap faults = {}
       /\ \A kind \in NatFaults : ~Note(kind) /\ ~Faulty(kind)
  BY <1>grow DEF Note, Faulty
<1>old. /\ NkoOn /\ ~NkoStopping => natReg
        /\ \A b \in Builders : builder[b].at = "send" => builder[b].packet = Current
        /\ natDev # NoPacket /\ NatQuiet /\ host # NoAddress /\ natReg => natDev = Current
  BY <1>no DEF NatWays
<1>1. ASSUME NEW a \in Addresses \cup {NoAddress}, AddressChanges(a) PROVE NatWays'
  <2>1. /\ UNCHANGED <<cfg, pc, natReg, natDev, natCfg>> /\ builder["callback"] = Resting
        /\ IF natReg THEN builder' = [builder EXCEPT !["callback"].at = "details"]
                     ELSE builder' = builder
        /\ builder["update"].at # "send"
    BY <1>1, <1>no DEF AddressChanges, StackFree, Overlap, NatFaults
  <2>2. /\ builder'["update"] = builder["update"]
        /\ builder'["callback"].at # "send"
        /\ natReg => builder'["callback"].at = "details"
    BY <2>1, BuilderStep DEF Builders, Resting
  <2>3. natReg => ~NatQuiet' BY <2>2 DEF NatQuiet, Builders, Resting
  <2>4. (NkoStopping' <=> NkoStopping) BY <2>1 DEF NkoStopping, NkoAt
  <2>5. NkoOn' => NkoOn BY <2>1 DEF NkoOn
  <2> QED BY <2>1, <2>2, <2>3, <2>4, <2>5, <1>old DEF NatWays, Builders
<1>2. ASSUME NEW c \in NatConfigs, UpdateConfig(c) PROVE NatWays'
  <2>1. /\ UNCHANGED <<cfg, pc, natReg, natDev, host>> /\ natReg
        /\ builder' = [builder EXCEPT !["update"].at = "details"]
        /\ builder["callback"].at # "send"
    BY <1>2, <1>no DEF UpdateConfig, Overlap, NatFaults
  <2>2. /\ builder'["callback"] = builder["callback"]
        /\ builder'["update"].at = "details"
    BY <2>1, BuilderStep DEF Builders
  <2>3. ~NatQuiet' BY <2>2 DEF NatQuiet, Builders, Resting
  <2> QED BY <2>1, <2>2, <2>3 DEF NatWays, Builders
<1>3. ASSUME NEW b \in Builders, Details(b) PROVE NatWays'
  <2>1. /\ UNCHANGED <<cfg, pc, natReg, natDev, natCfg, host>> /\ builder[b].at = "details"
        /\ \/ builder' = [builder EXCEPT ![b] = [at |-> "send", packet |-> Current]]
           \/ host = NoAddress /\ builder' = [builder EXCEPT ![b] = Resting]
    BY <1>3, <1>no DEF Details, Abandon, Current, NatFaults
  <2>2. /\ \A d \in Builders \ {b} : builder'[d] = builder[d]
        /\ \/ builder'[b] = [at |-> "send", packet |-> Current]
           \/ host = NoAddress /\ builder'[b] = Resting
    BY <2>1, BuilderStep
  <2>3. NkoOn BY <2>1 DEF NkoOn, Resting
  <2>4. (NkoStopping' <=> NkoStopping) /\ Current' = Current
    BY <2>1 DEF NkoStopping, NkoAt, Current
  <2>5. \A d \in Builders : builder'[d].at = "send" => builder'[d].packet = Current'
    BY <2>2, <2>4, <1>old DEF Resting
  <2>6. host # NoAddress => ~NatQuiet' BY <2>2 DEF NatQuiet, Resting
  <2> QED BY <2>1, <2>3, <2>4, <2>5, <2>6, <1>old DEF NatWays
<1>4. ASSUME NEW b \in Builders, Send(b) PROVE NatWays'
  <2>1. /\ UNCHANGED <<cfg, pc, natReg, natCfg, host>> /\ builder[b].at = "send"
        /\ builder' = [builder EXCEPT ![b] = Resting]
        /\ natDev' = builder[b].packet
    BY <1>4, <1>no DEF Send, Abandon, NatFaults
  <2>2. builder'[b] = Resting /\ \A d \in Builders \ {b} : builder'[d] = builder[d]
    BY <2>1, BuilderStep
  <2>3. NkoOn BY <2>1 DEF NkoOn, Resting
  <2>4. (NkoStopping' <=> NkoStopping) /\ Current' = Current
    BY <2>1 DEF NkoStopping, NkoAt, Current
  <2>5. \A d \in Builders : builder'[d].at = "send" => builder'[d].packet = Current'
    BY <2>2, <2>4, <1>old DEF Resting
  <2>6. natDev' = Current' BY <2>1, <2>4, <1>old
  <2> QED BY <2>1, <2>3, <2>4, <2>5, <2>6, <1>old DEF NatWays
<1> QED BY <1>1, <1>2, <1>3, <1>4

\* init and deinit.
LEMMA NkoKeepsWays ==
  ASSUME PcInv, Ranges, NatInv, NatType, NatWays,
         NkoInit \/ NkoUnregister \/ NkoDisable \/ NkoForget
  PROVE  NatWays'
<1> SUFFICES ASSUME NatFaults \cap faults' = {} PROVE NatWays' BY DEF NatWays
<1>grow. faults \subseteq faults'
  BY FaultsGrow DEF NkoInit, NkoUnregister, NkoDisable, NkoForget, Overlap
<1>no. /\ NatFaults \cap faults = {}
       /\ \A kind \in NatFaults : ~Note(kind) /\ ~Faulty(kind)
  BY <1>grow DEF Note, Faulty
<1>old. /\ NkoOn /\ ~NkoStopping => natReg
        /\ \A b \in Builders : builder[b].at = "send" => builder[b].packet = Current
        /\ natDev # NoPacket /\ NatQuiet /\ host # NoAddress /\ natReg => natDev = Current
  BY <1>no DEF NatWays
<1>net. pc["net"] \in Place /\ PcType BY NetPlace DEF PcInv
<1>1. CASE NkoInit
  <2>1. At("net", "init", "nko", "fill") /\ UNCHANGED <<builder, natDev>> BY <1>1 DEF NkoInit
  <2>2. ~NkoOn BY <1>no, <2>1, NkoIsOff
  <2>3. natDev' = NoPacket /\ \A b \in Builders : builder'[b].at # "send"
    BY <2>1, <2>2 DEF NkoOn, Resting
  <2>4. natReg' \/ ~NkoOn' BY <1>1, <2>2 DEF NkoInit, NkoOn
  <2> QED BY <2>3, <2>4 DEF NatWays
<1>2. CASE NkoUnregister
  <2>0. pc["net"].at \in {"deinit", "undo"} /\ At("net", pc["net"].at, "nko", "start")
        /\ UNCHANGED <<cfg, host, natCfg, builder, natDev>>
    BY <1>2 DEF NkoUnregister
  <2>1. Current' = Current /\ NatQuiet' = NatQuiet BY <2>0 DEF Current, NatQuiet
  <2>2. CASE Goto("net", "disable") /\ natReg' = FALSE
    <3>1. pc["net"].i \in DOMAIN cfg.list
      BY <1>net, <2>0, ListFacts DEF PcInv, Ranges, Threads, At, Place
    <3>2. NkoStopping'
      BY <1>net, <2>0, <2>2, <3>1, NetGoto DEF NkoStopping, NkoAt, At, Parts
    <3> QED BY <2>0, <2>1, <2>2, <3>2, <1>old DEF NatWays
  <2>3. CASE ~Active("nko") /\ natReg' = natReg
    <3>1. ~NkoOn BY <2>3, <1>no DEF NatInv
    <3>2. ~NkoOn' BY <2>0, <2>3, <3>1 DEF NkoOn
    <3> QED BY <2>0, <2>1, <2>3, <3>2, <1>old DEF NatWays
  <2> QED BY <1>2, <2>2, <2>3 DEF NkoUnregister
<1>3. CASE NkoDisable
  <2>1. /\ UNCHANGED <<natReg, builder>> /\ natDev' = NoPacket
        /\ \A b \in Builders : builder[b] = Resting
    BY <1>3, <1>no DEF NkoDisable, NatFaults
  <2>2. NkoOn' => natReg' BY <2>1 DEF NkoOn
  <2> QED BY <2>1, <2>2 DEF NatWays, Resting
<1>4. CASE NkoForget
  <2>1. /\ At("net", pc["net"].at, "nko", "forget")
        /\ UNCHANGED <<host, natCfg, natReg, builder, natDev>>
    BY <1>4 DEF NkoForget
  <2>2. ~NkoStopping BY <2>1 DEF NkoStopping, At
  <2>3. (NkoOn' => NkoOn) /\ Current' = Current /\ NatQuiet' = NatQuiet
    BY <2>1 DEF NkoOn, Current, NatQuiet
  <2> QED BY <2>1, <2>2, <2>3, <1>old DEF NatWays
<1> QED BY <1>1, <1>2, <1>3, <1>4

\* Every step keeps to the invariant.
LEMMA StepKeepsWays ==
  ASSUME PcInv, StackInv, Ranges, NatInv, NatType, NatWays, [Next]_system
  PROVE  NatWays'
<1>type. PcType /\ LpaParts BY DEF PcInv
<1>grow. faults \subseteq faults' BY StepGrows
<1>other. ASSUME OtherOffload, UNCHANGED <<cfg, nat>> PROVE NatWays'
  BY <1>other, <1>grow, StoppingStays, NatUntouched
<1>1. CASE ManagerStep
  <2>1. UNCHANGED <<cfg, nat>>
    BY <1>1 DEF ManagerStep, Connect, Disconnect, LoopDone, Inactive, SleepDone, WakeUp,
       AwakeDone, OthersUnchanged
  <2>2. CASE Inactive \/ SleepDone \/ WakeUp \/ AwakeDone
    <3>1. \E at \in Phases : Phase("lpa", at)
      BY <2>2 DEF Inactive, SleepDone, WakeUp, AwakeDone, Phases
    <3>2. pc'["net"] = pc["net"] BY <3>1, <1>type DEF Phase, Walk, PcType, Threads
    <3>3. NkoStopping => NkoStopping' BY <2>1, <3>2 DEF NkoStopping, NkoAt
    <3> QED BY <1>grow, <2>1, <3>3, NatUntouched
  <2>3. CASE Connect \/ Disconnect
    <3>1. ~NkoStopping BY <2>3 DEF Connect, Disconnect, NkoStopping
    <3> QED BY <1>grow, <2>1, <3>1, NatUntouched
  <2>4. CASE LoopDone
    <3>1. NkoStopping => ~NkoReached
      <4>1. pc["net"] \in Place /\ \A j \in DOMAIN cfg.list : j \in Nat
        BY NetPlace, ListFacts DEF PcInv
      <4> QED BY <2>4, <4>1 DEF LoopDone, LoopEnd, NkoStopping, NkoReached, Place
    <3>2. NatFaults \cap faults = {} /\ NkoOn => ~NkoStopping BY <3>1 DEF NatInv
    <3> QED BY <1>grow, <2>1, <3>2, NatUntouched
  <2> QED BY <1>1, <2>2, <2>3, <2>4 DEF ManagerStep
<1>2. CASE SocketsStep /\ UNCHANGED nat BY <1>2, <1>other, SocketsAreOther
<1>3. CASE TkoStep /\ UNCHANGED nat BY <1>3, <1>type, <1>other, TkoIsOther
<1>4. CASE TlsStep /\ UNCHANGED nat BY <1>4, <1>type, <1>other, TlsIsOther
<1>5. CASE WowlStep /\ UNCHANGED nat BY <1>5, <1>type, <1>other, WowlIsOther
<1>6. CASE NatStep
  <2>1. CASE NullkoInit \/ NullkoDeinit \/ KeepAlivePm
    <3>1. OtherOffload /\ UNCHANGED <<cfg, host, natCfg, nkoCtx, natReg, builder, natDev>>
      BY <2>1, <1>type, NullkoIsOther
    <3>2. NkoStopping => NkoStopping' BY <3>1, StoppingStays
    <3>3. (NkoOn' <=> NkoOn) /\ Current' = Current /\ NatQuiet' = NatQuiet
      BY <3>1 DEF NkoOn, Current, NatQuiet
    <3> QED BY <1>grow, <3>1, <3>2, <3>3 DEF NatWays
  <2> QED BY <2>1, <1>6, NkoKeepsWays, BuildingKeepsWays DEF NatStep
<1>7. CASE StackStep BY <1>7, <1>other, StackIsOther
<1>8. CASE (AppRegister \/ \E o \in Offloads : InitClear(o)) /\ UNCHANGED nat
  <2>1. CASE AppRegister
    <3>1. UNCHANGED <<cfg, pc>> BY <2>1 DEF AppRegister
    <3>2. NkoStopping => NkoStopping' BY <3>1 DEF NkoStopping, NkoAt
    <3> QED BY <1>8, <1>grow, <3>2, NatUntouched
  <2>2. CASE \E o \in Offloads : InitClear(o)
    <3>1. ~NkoStopping BY <2>2 DEF InitClear, At, NkoStopping
    <3> QED BY <1>8, <1>grow, <3>1, NatUntouched
  <2> QED BY <1>8, <2>1, <2>2
<1>9. CASE UNCHANGED system
  BY <1>9, <1>other DEF system, env, OtherOffload, NetMoves
<1> QED BY <1>1, <1>2, <1>3, <1>4, <1>5, <1>6, <1>7, <1>8, <1>9 DEF Next

\* At rest, the device sends the packet of the host's address and the latest
\* configuration, whatever the order of address changes, updates and inits was.
THEOREM NatKeepsUp == Spec => []NatFollowsAddress
<1> DEFINE Inv == PcInv /\ StackInv /\ Ranges /\ NatInv /\ NatType /\ NatWays
<1>1. Init => Inv
  <2> SUFFICES ASSUME Init PROVE Inv OBVIOUS
  <2>1. NatType BY DEF Init, NatInitial, NatType, NoPacket, Resting
  <2>2. NatWays BY DEF Init, NatInitial, NatWays, NkoOn, Resting
  <2> QED BY <2>1, <2>2, ThreadsInitially, StackInitially, RangesInitially, NatInitially
<1>2. Inv /\ [Next]_system => Inv'
  BY StepKeeps, StepPlaces, StepKeepsNat, NatTypeKeeps, StepKeepsWays
<1>3. Inv => NatFollowsAddress
  <2> SUFFICES ASSUME Inv, NatQuiet, NetRests, NatFaults \cap faults = {},
                      natDev # NoPacket, host # NoAddress
               PROVE  natDev = Current
    BY DEF NatFollowsAddress, Current
  <2>1. ~NkoStopping BY DEF NkoStopping, NetRests
  <2> QED BY <2>1 DEF NatWays, NkoOn
<1> QED BY <1>1, <1>2, <1>3, PTL DEF Spec
=============================================================================
