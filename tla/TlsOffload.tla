----------------------------- MODULE TlsOffload -----------------------------
(***************************************************************************)
(* The TLS offload (source/cy_lpa_wifi_tls_ol.c, source/cy_whd_tls_api.c): *)
(* on the way to sleep the secure session of an MQTT connection is handed  *)
(* to the device, which keeps it alive; on the way back the device's TCP   *)
(* and TLS sequence numbers are written into the host's socket.            *)
(*                                                                         *)
(* There is one entry in the configuration, the default of MAX_TLSOE.  The *)
(* device (external) reports no status without a session, and wowl_clear   *)
(* ends the session.                                                       *)
(***************************************************************************)
EXTENDS TkoOffload

VARIABLES
  mqtt,        \* cy_tlsoe_ol_cfg.ports[0]: the connection its ports and address
               \* name, the TLS socket, and whether it has a wake-up pattern
  tcpReset,    \* tcp_reset
  tlsEntry,    \* tlsoe_offload_update_entry
  session,     \* device: the connection of the secure session, its sequence
               \* numbers
  woken,       \* history: the connections for which it reported a wake event
               \* before the host was waking up
  protection   \* NetX: how often the dispatching thread has taken
               \* _nx_secure_tls_protection

tls == <<mqtt, tcpReset, tlsEntry, session, woken, protection>>

NoSession == [conn |-> NoConn, tcp |-> 0, tls |-> 0]
NoMqtt    == [conn |-> NoConn, socket |-> NoConn, pattern |-> FALSE]

TlsInitial ==
  /\ mqtt = NoMqtt /\ tcpReset = FALSE /\ tlsEntry = NoEntry
  /\ session = NoSession /\ woken = {} /\ protection = 0

\* The configuration is written while the network stack is suspended.
NoteConfig == IF Suspended THEN Note("tlsConfig") ELSE UNCHANGED faults

LpaAt(at, part)  == At("lpa", at, "tls", part)
TlsCommand(kind, yes, no) ==
  \/ UNCHANGED faults /\ yes
  \/ Faulty(kind) /\ no

-----------------------------------------------------------------------------
(* init and deinit; deinit does nothing                                    *)

TlsInit ==
  /\ At("net", "init", "tls", "fill")
  /\ ctx' = HasContext("tls")
  /\ IF "tls" \in cfg.given
     THEN NextOffload("net") /\ mqtt' = NoMqtt /\ NoteConfig
     ELSE InitFails /\ UNCHANGED <<mqtt, faults>>
  /\ UNCHANGED <<cfg, table, whd, wowl, tcp, tko, tcpReset, tlsEntry, session, woken,
                 protection>>

TlsDeinit ==
  /\ pc["net"].at \in {"deinit", "undo"} /\ At("net", pc["net"].at, "tls", "start")
  /\ NextOffload("net")
  /\ UNCHANGED <<cfg, ctx, table, whd, wowl, faults, tcp, tko, tls>>

-----------------------------------------------------------------------------
(* The way to sleep                                                        *)

TlsSleep ==
  /\ LpaAt("sleep", "start")
  /\ IF "tls" \in ctx THEN Goto("lpa", "pattern") ELSE NextOffload("lpa")
  /\ UNCHANGED <<cfg, ctx, table, whd, wowl, faults, tcp, tko, tls>>

\* whd_tlsoe_set_wowl_pattern: capabilities other than those it needs are taken
\* away, and a pattern is added even when they could not be set.
SecureCaps == IF mqtt.pattern THEN {"SECURE", "NET"} ELSE {"SECURE"}

\* whd_wowl_set_pattern: the device is asked to add the pattern, with all its
\* bits to be compared, or to delete it.
PatternAfter(add, ok) == IF ok THEN add ELSE wowl.secure

TlsPattern ==
  /\ LpaAt("sleep", "pattern")
  /\ \E capsSet, added \in BOOLEAN :
       /\ wowl.caps \cap SecureCaps = SecureCaps => capsSet
       /\ ~mqtt.pattern => added
       /\ wowl' = [wowl EXCEPT
            !.caps = IF capsSet /\ wowl.caps \cap SecureCaps # SecureCaps
                     THEN SecureCaps ELSE @,
            !.secure = IF mqtt.pattern THEN PatternAfter(TRUE, added) ELSE @]
       /\ Command(capsSet /\ added, "tlsPattern")
       /\ IF capsSet /\ added THEN Goto("lpa", "activate") ELSE NextOffload("lpa")
  /\ UNCHANGED <<cfg, ctx, table, whd, tcp, tko, tls>>

\* whd_tlsoe_get_sock_stats: on lwIP the connection with the configured ports and
\* address on any of its lists, on NetX an established one with keep-alive.
SecureStats(c) ==
  IF cfg.stack = "lwip"
  THEN { d \in Conns : d = c /\ sock[d].st \in {"syn", "open", "timeWait", "finWait2"} }
  ELSE { d \in Conns \cap Range(created) : d = c /\ sock[d].ka /\ sock[d].st = "open" }

\* whd_tlsoe_activate: the TCP numbers are those of the connection the ports
\* name, the TLS numbers and keys those of the socket.
TlsActivate ==
  /\ LpaAt("sleep", "activate")
  /\ \/ \E c \in SecureStats(mqtt.conn) :
          /\ mqtt.socket \in owned
          /\ session' = [conn |-> c, tcp |-> sock[c].tcp, tls |-> sock[mqtt.socket].tls]
          /\ Goto("lpa", "protect")
          /\ UNCHANGED faults
     \/ /\ IF SecureStats(mqtt.conn) # {} /\ mqtt.socket \in owned
           THEN Faulty("tlsActivate") ELSE Note("noConnection")
        /\ Goto("lpa", "cleanUp")
        /\ UNCHANGED session
  /\ UNCHANGED <<cfg, ctx, table, whd, wowl, tcp, tko, mqtt, tcpReset, tlsEntry, woken,
                 protection>>

\* The device is asked to delete the secure pattern; without one in the
\* configuration nothing is asked and the answer is yes.
DeletePattern(ok) ==
  /\ mqtt.pattern /\ wowl.secure => Command(ok, "tlsDelete")
  /\ ~mqtt.pattern => ok
  /\ ~(mqtt.pattern /\ wowl.secure) => UNCHANGED faults
  /\ wowl' = [wowl EXCEPT !.secure = IF mqtt.pattern THEN PatternAfter(FALSE, ok) ELSE @]

TlsCleanUp ==
  /\ LpaAt("sleep", "cleanUp") /\ NextOffload("lpa")
  /\ \E ok \in BOOLEAN : DeletePattern(ok)
  /\ UNCHANGED <<cfg, ctx, table, whd, tcp, tko, tls>>

TlsProtect ==
  /\ LpaAt("sleep", "protect") /\ Goto("lpa", "register")
  /\ protection' = IF cfg.stack = "netx" THEN protection + 1 ELSE 0
  /\ tcpReset' = FALSE
  /\ UNCHANGED <<cfg, ctx, table, whd, wowl, faults, tcp, tko, mqtt, tlsEntry, session,
                 woken>>

TlsRegister ==
  /\ LpaAt("sleep", "register") /\ NextOffload("lpa")
  /\ \E e \in Slots \cup {NoEntry} : Register("tls", tlsEntry, e) /\ tlsEntry' = e
  /\ UNCHANGED <<cfg, ctx, whd, wowl, tcp, tko, mqtt, tcpReset, session, woken, protection>>

-----------------------------------------------------------------------------
(* The way back: the pattern is deleted first, and whd_tlsoe_disable is    *)
(* called only when that succeeded                                         *)

TlsWake ==
  /\ LpaAt("awake", "start")
  /\ \/ "tls" \notin ctx /\ NextOffload("lpa") /\ UNCHANGED <<wowl, faults>>
     \/ "tls" \in ctx /\ \E ok \in BOOLEAN :
          DeletePattern(ok) /\ IF ok THEN Goto("lpa", "restore") ELSE NextOffload("lpa")
  /\ UNCHANGED <<cfg, ctx, table, whd, tcp, tko, tls>>

\* whd_tlsoe_update_sock_seq: lwIP's connection with these ports, which goes to
\* FIN-WAIT-2 when the device has reset it; on NetX the loop never gets beyond
\* the first socket that was created.
UpdateSockSeq(c, socks) ==
  LET s == session IN
  IF cfg.stack = "lwip"
  THEN [d \in Conns |-> IF d = c /\ socks[d].st \notin {"none", "new"}
          THEN [socks[d] EXCEPT !.tcp = s.tcp,
                                !.st = IF tcpReset THEN "finWait2" ELSE @]
          ELSE socks[d]]
  ELSE [d \in Conns |-> IF d = c /\ created # <<>> /\ d = Head(created)
                           /\ socks[d].ka /\ socks[d].st = "open"
          THEN [socks[d] EXCEPT !.tcp = s.tcp] ELSE socks[d]]

\* The numbers of the TLS session go to the socket, those of TCP to the
\* connection, the latter only when the former succeeded.
TlsRestore_TcpOnly ==
  /\ LpaAt("awake", "restore") /\ Goto("lpa", "release")
  /\ sock' = IF session # NoSession THEN UpdateSockSeq(mqtt.conn, sock) ELSE sock
  /\ UNCHANGED <<cfg, ctx, table, whd, wowl, faults, peer, created, owned, app, tko, tls>>

\* Without the status of the session the rest of whd_tlsoe_disable is left out.
TlsRestore_EarlyReturn ==
  /\ LpaAt("awake", "restore")
  /\ \/ session = NoSession /\ UNCHANGED <<sock, faults>> /\ Goto("lpa", "release")
     \/ session # NoSession /\ Faulty("tlsStatus") /\ UNCHANGED sock /\ NextOffload("lpa")
  /\ UNCHANGED <<cfg, ctx, table, whd, wowl, peer, created, owned, app, tko, tls>>

TlsRestore ==
  /\ LpaAt("awake", "restore") /\ Goto("lpa", "release")
  /\ \/ session = NoSession /\ UNCHANGED <<sock, faults>>
     \/ session # NoSession /\ Faulty("tlsStatus") /\ UNCHANGED sock
     \/ session # NoSession /\ mqtt.socket \in owned
        /\ sock' = UpdateSockSeq(mqtt.conn,
                                 [sock EXCEPT ![mqtt.socket].tls = session.tls])
        /\ IF cfg.stack = "netx" /\ created # <<>> /\ mqtt.conn # Head(created)
           THEN Note("netxOrder") ELSE UNCHANGED faults
     \/ session # NoSession /\ mqtt.socket \notin owned
        /\ Note("tlsConfig") /\ UNCHANGED sock
  /\ UNCHANGED <<cfg, ctx, table, whd, wowl, peer, created, owned, app, tko, tls>>

TlsRelease ==
  /\ LpaAt("awake", "release") /\ Goto("lpa", "clear")
  /\ protection' = IF protection > 0 THEN protection - 1 ELSE 0
  /\ UNCHANGED <<cfg, ctx, table, whd, wowl, faults, tcp, tko, mqtt, tcpReset, tlsEntry,
                 session, woken>>

\* whd_wowl_clear.
WowlClear == wowl' = [wowl EXCEPT !.caps = {}, !.armed = FALSE]

TlsClear ==
  /\ LpaAt("awake", "clear") /\ Goto("lpa", "deregister")
  /\ TlsCommand("tlsClear", WowlClear /\ session' = NoSession, UNCHANGED <<wowl, session>>)
  /\ UNCHANGED <<cfg, ctx, table, whd, tcp, tko, mqtt, tcpReset, tlsEntry, woken, protection>>

TlsDeregister ==
  /\ LpaAt("awake", "deregister") /\ NextOffload("lpa")
  /\ Deregister(tlsEntry)
  /\ UNCHANGED <<cfg, ctx, whd, wowl, faults, tcp, tko, tls>>

-----------------------------------------------------------------------------
(* The device keeps the session alive (external), and reports a packet     *)
(* that is to wake the host                                                *)

\* The status that the host has read does not hold what the device sends before
\* the session is cleared.
DeviceSends ==
  /\ session # NoSession
  /\ IF LpaAt("awake", "release") \/ LpaAt("awake", "clear")
     THEN Note("sentLate") ELSE UNCHANGED faults
  /\ session' = [session EXCEPT !.tcp = Inc(@), !.tls = Inc(@)]
  /\ peer' = [peer EXCEPT ![session.conn].tcp = Inc(@), ![session.conn].tls = Inc(@)]
  /\ UNCHANGED <<cfg, pc, ctx, table, whd, wowl, sock, created, owned, app, tko, mqtt,
                 tcpReset, tlsEntry, woken, protection>>

WakeEvent ==
  /\ session # NoSession /\ Pick("tls")
  /\ woken' = IF MutexHeld THEN woken ELSE woken \cup {session.conn}
  /\ UNCHANGED <<cfg, pc, ctx, table, wowl, faults, tcp, tko, mqtt, tcpReset, tlsEntry,
                 session, protection>>

\* The handler does not wait for the mutex.
TlsHandler_NoMutex ==
  /\ whd.runs = "tls"
  /\ whd' = [runs |-> Free, late |-> FALSE]
  /\ tcpReset' = TRUE
  /\ IF whd.late THEN Note("lateHandler") ELSE UNCHANGED faults
  /\ UNCHANGED <<cfg, pc, ctx, table, wowl, tcp, tko, mqtt, tlsEntry, session, woken,
                 protection>>

\* tlsoe_callback_handler: it waits for cy_lp_mutex as long as it takes.
TlsHandler ==
  /\ whd.runs = "tls" /\ ~MutexHeld
  /\ whd' = [runs |-> Free, late |-> FALSE]
  /\ tcpReset' = TRUE
  /\ IF whd.late THEN Note("lateHandler") ELSE UNCHANGED faults
  /\ UNCHANGED <<cfg, pc, ctx, table, wowl, tcp, tko, mqtt, tlsEntry, session, woken,
                 protection>>

-----------------------------------------------------------------------------
(* The application's configuration of the entry                            *)

\* cylpa_tlsoe_ol_update_config clears the entry, copies the configuration and
\* notes the socket.
ConfigClear(c) ==
  /\ "tls" \in Range(cfg.list) /\ c \in owned
  /\ AppGoto("idle", "copyConfig", c)
  /\ mqtt' = NoMqtt
  /\ NoteConfig
  /\ UNCHANGED <<cfg, pc, ctx, table, whd, wowl, sock, peer, created, owned, tko, tcpReset,
                 tlsEntry, session, woken, protection>>

ConfigCopy ==
  /\ AppGoto("copyConfig", "noteSocket", app.conn)
  /\ \E pattern \in BOOLEAN :
       mqtt' = [conn |-> app.conn, socket |-> NoConn, pattern |-> pattern]
  /\ NoteConfig
  /\ UNCHANGED <<cfg, pc, ctx, table, whd, wowl, sock, peer, created, owned, tko, tcpReset,
                 tlsEntry, session, woken, protection>>

ConfigSocket ==
  /\ AppGoto("noteSocket", "idle", NoConn)
  /\ mqtt' = [mqtt EXCEPT !.socket = app.conn]
  /\ NoteConfig
  /\ UNCHANGED <<cfg, pc, ctx, table, whd, wowl, sock, peer, created, owned, tko, tcpReset,
                 tlsEntry, session, woken, protection>>

\* cylpa_tlsoe_ol_set_socket_config, for the socket in use: with the ports
\* written and the address not, the entry names no connection.
SetPorts(c) ==
  /\ "tls" \in Range(cfg.list) /\ c \in owned /\ mqtt.socket \in {c, NoConn}
  /\ AppGoto("idle", "setAddress", c)
  /\ mqtt' = [mqtt EXCEPT !.conn = IF @ = c THEN c ELSE NoConn]
  /\ NoteConfig
  /\ UNCHANGED <<cfg, pc, ctx, table, whd, wowl, sock, peer, created, owned, tko, tcpReset,
                 tlsEntry, session, woken, protection>>

SetAddress ==
  /\ AppGoto("setAddress", "idle", NoConn)
  /\ mqtt' = [mqtt EXCEPT !.conn = app.conn]
  /\ NoteConfig
  /\ UNCHANGED <<cfg, pc, ctx, table, whd, wowl, sock, peer, created, owned, tko, tcpReset,
                 tlsEntry, session, woken, protection>>

-----------------------------------------------------------------------------
TlsStep ==
  \/ TlsInit \/ TlsDeinit
  \/ TlsSleep \/ TlsPattern \/ TlsActivate \/ TlsCleanUp \/ TlsProtect \/ TlsRegister
  \/ TlsWake \/ TlsRestore \/ TlsRelease \/ TlsClear \/ TlsDeregister
  \/ DeviceSends \/ WakeEvent \/ TlsHandler
  \/ \E c \in Conns : ConfigClear(c) \/ SetPorts(c)
  \/ ConfigCopy \/ ConfigSocket \/ SetAddress

TlsType ==
  /\ mqtt \in [conn : Conns \cup {NoConn}, socket : Conns \cup {NoConn}, pattern : BOOLEAN]
  /\ tcpReset \in BOOLEAN /\ tlsEntry \in Slots \cup {NoEntry}
  /\ session \in [conn : Conns \cup {NoConn}, tcp : SeqNums, tls : SeqNums]
  /\ woken \subseteq Conns /\ protection \in Nat

-----------------------------------------------------------------------------
(* Properties                                                              *)

\* The wake-up was carried out with the configuration the host slept with, and
\* the commands of whd_tlsoe_disable succeeded.
RestoreFaults ==
  {"tlsDelete", "tlsStatus", "tlsClear", "tlsConfig", "sentLate", "reinit"}

\* Whenever the stack runs, both ends of a connection agree on the sequence
\* numbers of TCP and of TLS, however many packets the device sent in the
\* host's place.  On NetX this needs the connection to be the first created.
SessionInStep ==
  ~Suspended /\ (RestoreFaults \cup {"netxOrder"}) \cap faults = {} =>
    \A c \in Conns : sock[c].st = "open" =>
      sock[c].tcp = peer[c].tcp /\ sock[c].tls = peer[c].tls

\* lwIP's connection is in FIN-WAIT-2 exactly when the device reported a wake
\* event on it: neither an event of an earlier session nor one that is raised
\* while the host wakes up anyway is taken for it, unless the handler itself
\* was overtaken by the next change of the power state, or the session was not
\* handed back (RestoreFaults).
ResetIffWakeEvent ==
  /\ cfg.stack = "lwip" /\ ~Suspended
  /\ ~whd.late /\ (RestoreFaults \cup {"lateHandler"}) \cap faults = {}
  => \A c \in Conns : sock[c].st = "finWait2" <=> c \in woken

\* The protection of NetX Secure is the application's again when the host is
\* awake, whether the session was handed over or not, and whichever command of
\* whd_tlsoe_disable failed; only when it was not called at all is it kept, as
\* the deletion of the pattern failed, or of one that had not been added.
ProtectionReleased ==
  ~Suspended /\ {"tlsDelete", "reinit", "tlsConfig"} \cap faults = {} => protection = 0
=============================================================================
