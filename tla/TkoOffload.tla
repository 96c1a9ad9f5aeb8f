----------------------------- MODULE TkoOffload -----------------------------
(***************************************************************************)
(* The TCP keep-alive offload (source/cy_lpa_wifi_tko_ol.c and             *)
(* source/cy_whd_tko_api.c): on the way to sleep each connection of        *)
(* cy_tko_ol_cfg is looked up in the TCP stack and handed to the device,   *)
(* which then sends its keep-alive packets; the device reports a dead      *)
(* connection with an event.  The old infrastructure gets the connections  *)
(* at every sleep, the new one only the switch.                            *)
(*                                                                         *)
(* The device (external) forgets its connections when it is switched off.  *)
(***************************************************************************)
EXTENDS TcpSockets

CONSTANT MaxTko      \* MAX_TKO

ASSUME TkoAssumption ==
  /\ MaxTko \in Nat \ {0}
  /\ \A c \in Configs : c.ports \in [1 .. MaxTko -> Conns \cup {NoConn}]

VARIABLES
  ports,       \* cy_tko_ol_cfg.ports
  portsIx,     \* cy_tko_ol_cfg_index
  tkoOn,       \* tko_state_enabled
  tkoEntry,    \* tko_offload_update_entry
  tkoDev       \* device: switched on, and the connection at each index

tko == <<ports, portsIx, tkoOn, tkoEntry, tkoDev>>

NoRecord == [conn |-> NoConn, request |-> 0, response |-> 0, mac |-> "none"]

TkoInitial ==
  /\ ports = [k \in 1 .. MaxTko |-> NoConn] /\ portsIx = 0
  /\ tkoOn = FALSE /\ tkoEntry = NoEntry
  /\ tkoDev = [on |-> FALSE, conns |-> [k \in 1 .. MaxTko |-> NoRecord]]

\* Both threads disable the offload: deinit, and the wake-up of a context that
\* was initialised.
Disabling == { <<"lpa", "awake">>, <<"net", "deinit">>, <<"net", "undo">> }

-----------------------------------------------------------------------------
(* init and deinit                                                         *)

\* The parameters are written with commands whose failure is not reported.
TkoInit ==
  /\ At("net", "init", "tko", "fill")
  /\ ctx' = HasContext("tko")
  /\ ports' = IF "tko" \in cfg.given THEN cfg.ports ELSE ports
  /\ NextOffload("net")
  /\ UNCHANGED <<cfg, table, whd, wowl, faults, tcp, portsIx, tkoOn, tkoEntry, tkoDev>>

-----------------------------------------------------------------------------
(* whd_tko_activate                                                        *)

\* The address of the next hop comes from the ARP table or is the gateway's; on
\* NetX the lookup never tells that it found nothing, so that the gateway's is not
\* asked for and the address is what the stack has in its place.
NextHops   == IF cfg.stack = "lwip" THEN {"peer", "gateway"} ELSE {"peer", "unset"}
NoteHop(hop) == IF hop = "unset" THEN Note("noNextHop") ELSE UNCHANGED faults

\* The keep-alive has the number of the answer.
ConnectRecord_NextNumber(c, hop) ==
  [conn |-> c, request |-> sock[c].tcp, response |-> sock[c].tcp, mac |-> hop]

\* Keep-alives carry the number before the next one, answers the next one.
ConnectRecord(c, hop) ==
  [conn |-> c, request |-> Dec(sock[c].tcp), response |-> sock[c].tcp, mac |-> hop]

\* cylpa_tko_ol_pm on the way to sleep: "found" notes that one was activated.  A
\* deinit may be half way through whd_tko_disable since before the last wake-up.
TkoSleep ==
  /\ At("lpa", "sleep", "tko", "start")
  /\ IF pc["net"].part \in {"unmark", "deregister", "toggle"}
     THEN Note("tkoRace") ELSE UNCHANGED faults
  /\ IF "tko" \notin ctx THEN NextOffload("lpa")
     ELSE IF cfg.newInfra THEN Goto("lpa", "enable") ELSE Count("lpa", "activate", 1)
  /\ UNCHANGED <<cfg, ctx, table, whd, wowl, tcp, tko>>

TkoActivate(part) ==
  LET k == pc["lpa"].k IN
  /\ At("lpa", "sleep", "tko", part) /\ k <= MaxTko
  /\ \/ /\ SockStats(ports[k]) = {}
        /\ Count("lpa", part, k + 1)
        /\ UNCHANGED <<faults, tkoDev>>
     \/ \E c \in SockStats(ports[k]) :
          \/ /\ Faulty("tkoConnect")
             /\ Count("lpa", part, k + 1)
             /\ UNCHANGED tkoDev
          \/ \E hop \in NextHops :
               /\ tkoDev' = [tkoDev EXCEPT !.conns[k] = ConnectRecord(c, hop)]
               /\ Count("lpa", "found", k + 1)
               /\ NoteHop(hop)
  /\ UNCHANGED <<cfg, ctx, table, whd, wowl, tcp, ports, portsIx, tkoOn, tkoEntry>>

TkoActivated ==
  /\ pc["lpa"].k > MaxTko
  /\ \/ At("lpa", "sleep", "tko", "activate") /\ NextOffload("lpa")
     \/ At("lpa", "sleep", "tko", "found") /\ Goto("lpa", "enable")
  /\ UNCHANGED <<cfg, ctx, table, whd, wowl, faults, tcp, tko>>

-----------------------------------------------------------------------------
(* whd_tko_enable: the handler is registered and the state noted whether   *)
(* the device was switched on or not                                       *)

TkoToggleOn ==
  /\ At("lpa", "sleep", "tko", "enable") /\ Goto("lpa", "register")
  /\ \E ok \in BOOLEAN :
       /\ Command(ok, "tkoToggle")
       /\ tkoDev' = [tkoDev EXCEPT !.on = @ \/ ok]
  /\ UNCHANGED <<cfg, ctx, table, whd, wowl, tcp, ports, portsIx, tkoOn, tkoEntry>>

TkoRegister ==
  /\ At("lpa", "sleep", "tko", "register") /\ Goto("lpa", "mark")
  /\ \E e \in Slots \cup {NoEntry} : Register("tko", tkoEntry, e) /\ tkoEntry' = e
  /\ UNCHANGED <<cfg, ctx, whd, wowl, tcp, ports, portsIx, tkoOn, tkoDev>>

TkoMark ==
  /\ At("lpa", "sleep", "tko", "mark") /\ NextOffload("lpa")
  /\ tkoOn' = TRUE
  /\ UNCHANGED <<cfg, ctx, table, whd, wowl, faults, tcp, ports, portsIx, tkoEntry, tkoDev>>

-----------------------------------------------------------------------------
(* whd_tko_disable                                                         *)

\* Either thread tests tko_state_enabled and clears it without a lock.  When one
\* passes the test after the other has and before it clears the flag, both give the
\* entry of the event table back.
Other(t) == IF t = "lpa" THEN "net" ELSE "lpa"

\* The entry is given back although it is not held.
TkoDisable_Always(t) ==
  /\ At(t, pc[t].at, "tko", "start") /\ <<t, pc[t].at>> \in Disabling
  /\ IF "tko" \notin ctx THEN NextOffload(t) /\ UNCHANGED faults
     ELSE /\ Goto(t, "unmark")
          /\ IF tkoOn /\ pc[Other(t)].part = "unmark" THEN Note("tkoTwice")
                                                      ELSE UNCHANGED faults
  /\ UNCHANGED <<cfg, ctx, table, whd, wowl, tcp, tko>>

TkoDisable(t) ==
  /\ At(t, pc[t].at, "tko", "start") /\ <<t, pc[t].at>> \in Disabling
  /\ IF "tko" \notin ctx THEN NextOffload(t) /\ UNCHANGED faults
     ELSE /\ Goto(t, IF tkoOn THEN "unmark" ELSE "toggle")
          /\ IF tkoOn /\ pc[Other(t)].part = "unmark" THEN Note("tkoTwice")
                                                      ELSE UNCHANGED faults
  /\ UNCHANGED <<cfg, ctx, table, whd, wowl, tcp, tko>>

\* The handler stays registered.
TkoUnmark_NoDeregister(t) ==
  /\ At(t, pc[t].at, "tko", "unmark") /\ Goto(t, "toggle")
  /\ tkoOn' = FALSE
  /\ UNCHANGED <<cfg, ctx, table, whd, wowl, faults, tcp, ports, portsIx, tkoEntry, tkoDev>>

TkoUnmark(t) ==
  /\ At(t, pc[t].at, "tko", "unmark") /\ Goto(t, "deregister")
  /\ tkoOn' = FALSE
  /\ UNCHANGED <<cfg, ctx, table, whd, wowl, faults, tcp, ports, portsIx, tkoEntry, tkoDev>>

TkoDeregister(t) ==
  /\ At(t, pc[t].at, "tko", "deregister") /\ Goto(t, "toggle")
  /\ Deregister(tkoEntry)
  /\ UNCHANGED <<cfg, ctx, whd, wowl, faults, tcp, tko>>

TkoToggleOff(t) ==
  /\ At(t, pc[t].at, "tko", "toggle") /\ NextOffload(t)
  /\ \E ok \in BOOLEAN :
       /\ Command(ok, "tkoToggle")
       /\ tkoDev' = IF ok THEN [on |-> FALSE, conns |-> [k \in 1 .. MaxTko |-> NoRecord]]
                          ELSE tkoDev
  /\ UNCHANGED <<cfg, ctx, table, whd, wowl, tcp, ports, portsIx, tkoOn, tkoEntry>>

-----------------------------------------------------------------------------
(* The event of the device and whd_callback_handler                        *)

TkoEvent ==
  /\ tkoDev.on /\ Pick("tko")
  /\ UNCHANGED <<cfg, pc, ctx, table, wowl, faults, tcp, tko>>

TkoHandler ==
  /\ whd.runs = "tko" /\ ~MutexHeld
  /\ whd' = [runs |-> Free, late |-> FALSE]
  /\ tkoOn' = FALSE
  /\ Note("tkoEvent")
  /\ UNCHANGED <<cfg, pc, ctx, table, wowl, tcp, ports, portsIx, tkoEntry, tkoDev>>

-----------------------------------------------------------------------------
(* cylpa_tko_ol_update_config: the last part of a socket's creation.  When *)
(* all entries have been used the first is used again; an entry is cleared *)
(* before it is written.                                                   *)

\* The index is not reset.
UpdateClear_NoReset ==
  /\ AppGoto("clearEntry", "writeEntry", app.conn)
  /\ ports' = [ports EXCEPT ![(portsIx % MaxTko) + 1] = NoConn]
  /\ UNCHANGED <<env, sock, peer, created, owned, portsIx, tkoOn, tkoEntry, tkoDev>>

UpdateClear ==
  LET ix == IF portsIx = MaxTko THEN 0 ELSE portsIx IN
  /\ AppGoto("clearEntry", "writeEntry", app.conn)
  /\ portsIx' = ix
  /\ ports' = [ports EXCEPT ![ix + 1] = NoConn]
  /\ UNCHANGED <<env, sock, peer, created, owned, tkoOn, tkoEntry, tkoDev>>

UpdateWrite ==
  /\ AppGoto("writeEntry", "idle", NoConn)
  /\ ports' = [ports EXCEPT ![portsIx + 1] = app.conn]
  /\ portsIx' = portsIx + 1
  /\ UNCHANGED <<env, sock, peer, created, owned, tkoOn, tkoEntry, tkoDev>>

-----------------------------------------------------------------------------
TkoStep ==
  \/ TkoInit \/ TkoSleep \/ TkoActivate("activate") \/ TkoActivate("found")
  \/ TkoActivated \/ TkoToggleOn \/ TkoRegister \/ TkoMark
  \/ \E t \in {"lpa", "net"} :
       TkoDisable(t) \/ TkoUnmark(t) \/ TkoDeregister(t) \/ TkoToggleOff(t)
  \/ TkoEvent \/ TkoHandler
  \/ UpdateClear \/ UpdateWrite

TkoType ==
  /\ ports \in [1 .. MaxTko -> Conns \cup {NoConn}] /\ portsIx \in 0 .. MaxTko
  /\ tkoOn \in BOOLEAN /\ tkoEntry \in Slots \cup {NoEntry}
  /\ tkoDev \in [on : BOOLEAN,
                 conns : [1 .. MaxTko ->
                   [conn : Conns \cup {NoConn}, request : SeqNums, response : SeqNums,
                    mac : {"none", "peer", "gateway", "unset"}]]]

-----------------------------------------------------------------------------
(* Properties                                                              *)

\* Asleep, the keep-alive packets of the device are about connections of the
\* host, "uses previous sequence number so its not confused with a real
\* packet" in the eyes of the other end, and go to the peer or the gateway:
\* whatever the application did to the table and its sockets meanwhile.  An
\* init while the host woke up may have kept the device's connections, and a TLS
\* offload on the same list counts its connection on while the host sleeps.  On
\* NetX a connection whose peer is not in the ARP table goes to no known address,
\* as the search is never seen to fail: only then no next hop is claimed.
KeepalivesLive ==
  Asleep /\ {"tkoToggle", "reinit"} \cap faults = {} =>
    \A k \in 1 .. MaxTko :
      LET r == tkoDev.conns[k] IN
      r.conn # NoConn =>
        /\ SockStats(r.conn) # {}
        /\ sock[r.conn].st = "open" /\ "tls" \notin Range(cfg.list) =>
             Inc(r.request) = peer[r.conn].tcp /\ r.response = peer[r.conn].tcp
        /\ "noNextHop" \notin faults => r.mac \in {"peer", "gateway"}

\* Once the host is awake and the connection manager rests, the device sends no
\* keep-alive packet of its own and no handler is left behind, whichever of
\* the two threads disabled the offload last.  An event of the device clears
\* the flag that leads to the deregistration, an init while the host slept or
\* woke up may have cleared the context that was to be disabled, and a deinit
\* that is overtaken by a whole cycle gives back the wrong entry.
TkoStoppedAwake ==
  /\ ~Suspended /\ NetRests
  /\ {"tkoToggle", "tkoEvent", "reinit", "tkoRace"} \cap faults = {}
  => ~tkoDev.on /\ ~tkoOn /\ ~Registered("tko")
=============================================================================
