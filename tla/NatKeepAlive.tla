---------------------------- MODULE NatKeepAlive ----------------------------
(***************************************************************************)
(* The NAT keep-alive (source/cy_lpa_wifi_nko_ol.c) and the NULL           *)
(* keep-alive (source/cy_lpa_wifi_nullko_ol.c): packets the device sends   *)
(* of its own from init to deinit, whatever the power state is, so that    *)
(* pm does nothing.  The NAT packet is built from the configuration and    *)
(* the address of the host, once by the callback for a new address, in the *)
(* thread of the TCP/IP stack, and once by update_config, in a thread of   *)
(* the application; neither excludes the other or deinit.                  *)
(***************************************************************************)
EXTENDS OffloadEnv

CONSTANTS
  Addresses,   \* the addresses of the host
  NoAddress,
  NatConfigs,  \* the configurations of the NAT keep-alive that have both ports
  Invalid      \* one that has not

\* cfg.nat is the configuration of the offload's descriptor.
ASSUME NatAssumption ==
  /\ NoAddress \notin Addresses /\ Invalid \notin NatConfigs
  /\ \A c \in Configs : c.nat \in NatConfigs \cup {Invalid}

VARIABLES
  host,        \* the host's address
  natCfg,      \* cy_nko_ol_cfg
  nkoCtx,      \* nko_ctx is set
  natReg,      \* the callback is registered with the stack
  builder,     \* who builds a packet: its place, and the address and the
               \* configuration it has read
  natDev,      \* device: the NAT keep-alive packet
  nullDev      \* device: whether it sends NULL keep-alives

nat == <<host, natCfg, nkoCtx, natReg, builder, natDev, nullDev>>

Builders  == {"callback", "update"}
NoPacket  == [src |-> NoAddress, conf |-> Invalid]
Resting   == [at |-> "rest", packet |-> NoPacket]

NatInitial ==
  /\ host = NoAddress /\ natCfg = Invalid /\ nkoCtx = FALSE /\ natReg = FALSE
  /\ builder = [b \in Builders |-> Resting]
  /\ natDev = NoPacket /\ nullDev = FALSE

\* The TCP/IP thread runs the callback with the lock of the stack.
StackFree == builder["callback"] = Resting

\* Something a packet depends on changes when the other thread has read it and
\* has not sent the packet.
Overlap(other) == IF builder[other].at = "send" THEN Note("natRace") ELSE UNCHANGED faults

\* CY_NKO_SUPPORTED of an initialised context.
Active(o) == o \in ctx /\ cfg.newInfra

HasNko == \E i \in DOMAIN cfg.list : cfg.list[i] = "nko"

Abandon(b) == builder' = [builder EXCEPT ![b] = Resting]

-----------------------------------------------------------------------------
(* Mutants                                                                 *)

\* The callback configures the device for the first address only.
AddressChanges_First(a) ==
  /\ ~Suspended /\ StackFree /\ HasNko
  /\ a # host /\ host' = a
  /\ builder' = IF natReg /\ host = NoAddress
                THEN [builder EXCEPT !["callback"].at = "details"] ELSE builder
  /\ Overlap("update")
  /\ UNCHANGED <<cfg, pc, ctx, table, whd, wowl, natCfg, nkoCtx, natReg, natDev, nullDev>>

\* The callback stays registered.
NkoUnregister_Kept ==
  /\ pc["net"].at \in {"deinit", "undo"} /\ At("net", pc["net"].at, "nko", "start")
  /\ IF Active("nko") THEN Goto("net", "disable") ELSE NextOffload("net")
  /\ UNCHANGED <<cfg, ctx, table, whd, wowl, faults, nat>>

-----------------------------------------------------------------------------
(* cylpa_nko_ol_init and cylpa_nko_ol_deinit                               *)

NkoInit ==
  /\ At("net", "init", "nko", "fill")
  /\ ctx' = HasContext("nko")
  /\ IF "nko" \notin cfg.given \/ ~cfg.newInfra
     THEN NextOffload("net") /\ UNCHANGED <<faults, natCfg, nkoCtx, natReg>>
     ELSE IF cfg.nat = Invalid
     THEN InitFails /\ UNCHANGED <<faults, natCfg, nkoCtx, natReg>>
     ELSE /\ natCfg' = cfg.nat /\ nkoCtx' = TRUE /\ natReg' = TRUE
          /\ Overlap("update") /\ NextOffload("net")
  /\ UNCHANGED <<cfg, table, whd, wowl, host, builder, natDev, nullDev>>

NkoUnregister ==
  /\ pc["net"].at \in {"deinit", "undo"} /\ At("net", pc["net"].at, "nko", "start")
  /\ IF Active("nko") THEN Goto("net", "disable") /\ natReg' = FALSE
                      ELSE NextOffload("net") /\ UNCHANGED natReg
  /\ UNCHANGED <<cfg, ctx, table, whd, wowl, faults, host, natCfg, nkoCtx, builder, natDev,
                 nullDev>>

\* A period of 0 disables; the result is not used.
NkoDisable ==
  /\ At("net", pc["net"].at, "nko", "disable") /\ Goto("net", "forget")
  /\ \/ /\ natDev' = NoPacket
        /\ IF \E b \in Builders : builder[b] # Resting THEN Note("natRace")
                                                       ELSE UNCHANGED faults
     \/ UNCHANGED natDev /\ Faulty("natDisable")
  /\ UNCHANGED <<cfg, ctx, table, whd, wowl, host, natCfg, nkoCtx, natReg, builder, nullDev>>

NkoForget ==
  /\ At("net", pc["net"].at, "nko", "forget") /\ NextOffload("net")
  /\ nkoCtx' = FALSE
  /\ UNCHANGED <<cfg, ctx, table, whd, wowl, faults, host, natCfg, natReg, builder, natDev,
                 nullDev>>

\* cylpa_nko_ol_pm does nothing, nor does that of the NULL keep-alive.
KeepAlivePm ==
  /\ \E o \in {"nko", "nullko"}, at \in {"sleep", "awake"} : At("lpa", at, o, "start")
  /\ NextOffload("lpa")
  /\ UNCHANGED <<cfg, ctx, table, whd, wowl, faults, nat>>

-----------------------------------------------------------------------------
(* cylpa_configure_nat_keepalive, called in two threads                    *)

\* The stack gets a new address, or loses it, and calls the callback.
AddressChanges(a) ==
  /\ ~Suspended /\ StackFree /\ HasNko
  /\ a # host /\ host' = a
  /\ builder' = IF natReg THEN [builder EXCEPT !["callback"].at = "details"] ELSE builder
  /\ Overlap("update")
  /\ UNCHANGED <<cfg, pc, ctx, table, whd, wowl, natCfg, nkoCtx, natReg, natDev, nullDev>>

\* update_config needs an initialised offload, and a configuration with ports; a
\* deinit that has begun does not stop it.
UpdateConfig(c) ==
  /\ builder["update"] = Resting /\ nkoCtx /\ Active("nko")
  /\ natCfg' = c
  /\ builder' = [builder EXCEPT !["update"].at = "details"]
  /\ IF natReg THEN Overlap("callback") ELSE Note("natRace")
  /\ UNCHANGED <<cfg, pc, ctx, table, whd, wowl, host, nkoCtx, natReg, natDev, nullDev>>

\* cylpa_nko_get_details: without an address of its own, of the server or the
\* gateway, or without the gateway's MAC address, nothing is configured.
\* update_config reads nko_ctx again, and may follow a NULL pointer.
Details(b) ==
  /\ builder[b].at = "details"
  /\ IF b = "update" /\ ~nkoCtx THEN Note("natNull") /\ Abandon(b)
     ELSE \/ /\ host # NoAddress
             /\ builder' = [builder EXCEPT ![b] =
                  [at |-> "send", packet |-> [src |-> host, conf |-> natCfg]]]
             /\ UNCHANGED faults
          \/ host # NoAddress /\ Faulty("natDetails") /\ Abandon(b)
          \/ host = NoAddress /\ UNCHANGED faults /\ Abandon(b)
  /\ UNCHANGED <<cfg, pc, ctx, table, whd, wowl, host, natCfg, nkoCtx, natReg, natDev,
                 nullDev>>

Send(b) ==
  /\ builder[b].at = "send" /\ Abandon(b)
  /\ \/ natDev' = builder[b].packet /\ UNCHANGED faults
     \/ UNCHANGED natDev /\ Faulty("natSend")
  /\ UNCHANGED <<cfg, pc, ctx, table, whd, wowl, host, natCfg, nkoCtx, natReg, nullDev>>

-----------------------------------------------------------------------------
(* cylpa_nullko_ol_init and cylpa_nullko_ol_deinit                         *)

NullkoInit ==
  /\ At("net", "init", "nullko", "fill")
  /\ ctx' = HasContext("nullko")
  /\ \/ /\ "nullko" \notin cfg.given \/ ~cfg.newInfra
        /\ NextOffload("net") /\ UNCHANGED <<faults, nullDev>>
     \/ /\ "nullko" \in cfg.given /\ cfg.newInfra
        /\ \/ NextOffload("net") /\ nullDev' = TRUE /\ UNCHANGED faults
           \/ InitFails /\ UNCHANGED nullDev /\ Faulty("nullko")
  /\ UNCHANGED <<cfg, table, whd, wowl, host, natCfg, nkoCtx, natReg, builder, natDev>>

\* The device goes on sending.
NullkoDeinit ==
  /\ pc["net"].at \in {"deinit", "undo"} /\ At("net", pc["net"].at, "nullko", "start")
  /\ NextOffload("net")
  /\ UNCHANGED <<cfg, ctx, table, whd, wowl, faults, nat>>

NatStep ==
  \/ NkoInit \/ NkoUnregister \/ NkoDisable \/ NkoForget \/ KeepAlivePm
  \/ \E a \in Addresses \cup {NoAddress} : AddressChanges(a)
  \/ \E c \in NatConfigs : UpdateConfig(c)
  \/ \E b \in Builders : Details(b) \/ Send(b)
  \/ NullkoInit \/ NullkoDeinit

NatType ==
  LET packets == [src : Addresses \cup {NoAddress}, conf : NatConfigs \cup {Invalid}]
  IN /\ host \in Addresses \cup {NoAddress} /\ natCfg \in NatConfigs \cup {Invalid}
     /\ nkoCtx \in BOOLEAN /\ natReg \in BOOLEAN /\ nullDev \in BOOLEAN
     /\ builder \in [Builders -> [at : {"rest", "details", "send"}, packet : packets]]
     /\ natDev \in packets

-----------------------------------------------------------------------------
(* Properties                                                              *)

NatQuiet  == \A b \in Builders : builder[b] = Resting
NatFaults == {"natDetails", "natSend", "natDisable", "natNull", "natRace"}

\* With nothing in progress and every command answered, the packet the device
\* sends has the host's address and the latest configuration: whatever the
\* order of address changes, updates and inits, if none of them overlapped.
NatFollowsAddress ==
  /\ NatQuiet /\ NetRests /\ NatFaults \cap faults = {}
  /\ natDev # NoPacket /\ host # NoAddress
  => natDev = [src |-> host, conf |-> natCfg]

\* After deinit, and after an init of another offload that failed, the device
\* sends no NAT keep-alive: no callback that comes later starts it again.
NatGoneAfterDeinit ==
  /\ NatQuiet /\ pc["net"].at \in {"down", "failed"} /\ NatFaults \cap faults = {}
  => natDev = NoPacket
=============================================================================
