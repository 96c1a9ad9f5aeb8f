--------------------------- MODULE OffloadSystem ----------------------------
(***************************************************************************)
(* The offloads together, on one list, driven by the two threads of the    *)
(* Offload Manager: the connection manager's, which initialises and        *)
(* deinitialises them, undoing the initialisation when one fails           *)
(* (cylpa_olm_init_ols, cylpa_olm_deinit_ols), and the one in              *)
(* wait_net_suspend, which suspends the network stack, tells them of the   *)
(* sleep and of the wake-up (cylpa_olm_dispatch_pm_notification), and      *)
(* resumes the stack.  They run beside the application, the stack, the     *)
(* thread of the WHD driver and the device.                                *)
(***************************************************************************)
EXTENDS WowlFilter, NetworkStack, KeepalivePackets

system == <<env, tcp, tko, tls, nat, ns>>

Init ==
  /\ EnvInit /\ SocketsInit /\ TkoInitial /\ TlsInitial /\ NatInitial /\ StackInit

OthersUnchanged == UNCHANGED <<cfg, ctx, table, wowl, tcp, tko, tls, nat, ns>>

-----------------------------------------------------------------------------
(* The thread of the connection manager                                    *)

Connect ==
  /\ pc["net"].at \in {"idle", "down"} /\ Phase("net", "init")
  /\ UNCHANGED <<whd, faults>> /\ OthersUnchanged

Disconnect ==
  /\ pc["net"].at \in {"up", "failed"} /\ cfg.disconnects /\ Phase("net", "deinit")
  /\ UNCHANGED <<whd, faults>> /\ OthersUnchanged

\* A list that was initialised while the host slept has not been told of it.
LoopDone ==
  /\ \/ LoopEnd("net", "init") /\ Phase("net", "up")
     \/ LoopEnd("net", "undo") /\ Phase("net", "failed")
     \/ LoopEnd("net", "deinit") /\ Phase("net", "down")
  /\ IF pc["net"].at = "init" /\ Suspended THEN Note("reinit") ELSE UNCHANGED faults
  /\ UNCHANGED whd /\ OthersUnchanged

-----------------------------------------------------------------------------
(* The thread in wait_net_suspend                                          *)

\* The network has been inactive long enough; the connection that was seen before
\* may be gone.
Inactive ==
  /\ pc["lpa"].at = "idle" /\ pc["net"].at # "idle" /\ cfg.sleeps
  /\ Phase("lpa", "suspend")
  /\ UNCHANGED <<whd, faults>> /\ OthersUnchanged

SleepDone ==
  /\ LoopEnd("lpa", "sleep") /\ Phase("lpa", "asleep")
  /\ UNCHANGED <<whd, faults>> /\ OthersUnchanged

\* Activity, or the time is over; cy_lp_mutex is taken.
WakeUp ==
  /\ Asleep /\ Phase("lpa", "awake") /\ OvertakeHandler
  /\ UNCHANGED faults /\ OthersUnchanged

AwakeDone ==
  /\ LoopEnd("lpa", "awake") /\ Phase("lpa", "resume")
  /\ UNCHANGED <<whd, faults>> /\ OthersUnchanged

-----------------------------------------------------------------------------
ManagerStep ==
  \/ Connect \/ Disconnect \/ LoopDone
  \/ Inactive \/ SleepDone \/ WakeUp \/ AwakeDone

Next ==
  \/ ManagerStep
  \/ SocketsStep /\ UNCHANGED <<tko, tls, nat, ns>>
  \/ TkoStep /\ UNCHANGED <<tls, nat, ns>>
  \/ TlsStep /\ UNCHANGED <<nat, ns>>
  \/ WowlStep /\ UNCHANGED <<nat, ns>>
  \/ NatStep /\ UNCHANGED <<tcp, tko, tls, ns>>
  \/ StackStep /\ UNCHANGED <<tcp, tko, tls>>
  \/ /\ AppRegister \/ \E o \in Offloads : InitClear(o)
     /\ UNCHANGED <<tcp, tko, tls, nat, ns>>

Spec == Init /\ [][Next]_system

\* Bounds, the constraint under which TLC explores: the kinds of things that go
\* wrong, and how often a failed wake-up in a row leaves the protection taken.
MaxProtection == 1
Bounded == FewFaults /\ protection <= MaxProtection

-----------------------------------------------------------------------------
(* Properties                                                              *)

\* Every variable stays in its type.
TypeOK ==
  EnvType /\ SocketsType /\ TkoType /\ TlsType /\ NatType /\ StackType

\* No offload takes away an event handler that the application has registered,
\* although WHD deregisters by the index alone.  A TLS offload that could not be
\* activated, or was initialised while the host slept, still does so with the
\* index of an entry it gave back long ago, and so does one that found the table
\* full, and a TKO deinit that a whole cycle of sleep and wake-up has overtaken.
\* When deinit and the wake-up have both seen the flag of TKO set, the entry is
\* given back twice, the second time perhaps after the application has got it.
StaleEntry ==
  {"noConnection", "tlsActivate", "tlsPattern", "tlsConfig", "tkoEvent", "tkoRace",
   "tkoTwice", "reinit", "tableFull"}

HandlersKept ==
  [][Registered("app") /\ StaleEntry \cap faults' = {} => Registered("app")']_system

\* Whatever the device has been given to send is accepted by every receiver: a
\* connection in its table stands for any of Segments, a NAT keep-alive for any of
\* Datagrams.  The little-endian and the big-endian computation, with their
\* different folds, carry and odd last byte, agree with RFC 1071.
ChecksumsVerify ==
  /\ (\E k \in 1 .. MaxTko : tkoDev.conns[k] # NoRecord) => SegmentsVerify
  /\ natDev # NoPacket => DatagramsVerify
=============================================================================
