------------------------------ MODULE TlsProofs ------------------------------
(***************************************************************************)
(* The TLS offload and the wake-on-WLAN pattern filter, for every list of  *)
(* offloads, every number of connections and every list of patterns: who   *)
(* owns the TCP connections, when the protection of NetX Secure is taken,  *)
(* which patterns the device has, which frames wake the host, and that the *)
(* secure session comes back to the host's connection as it was left.      *)
(***************************************************************************)
EXTENDS OffloadProofs, SequenceTheorems

-----------------------------------------------------------------------------
(* The owners of the connections                                           *)

OpenStates    == {"new", "syn", "open"}
Creating      == {"created", "connecting", "connected", "send"}
SocketRecord  == [st : OpenStates \cup {"none", "timeWait", "finWait2"},
                  ka : BOOLEAN, tcp : SeqNums, tls : SeqNums]
SessionRecord == [conn : Conns \cup {NoConn}, tcp : SeqNums, tls : SeqNums]

\* A connection that is open is the application's, or the one that its thread is
\* making.
OwnedBy(c) == c \in owned \/ (app.at \in Creating /\ app.conn = c)

SocketInv ==
  /\ sock \in [Conns -> SocketRecord] /\ session \in SessionRecord
  /\ owned \subseteq Conns
  /\ app.at \in Creating => app.conn \in Conns
  /\ \A c \in Conns : sock[c].st \in OpenStates => OwnedBy(c)

\* Sequence numbers stay in their range; a deleted socket is a socket.
LEMMA SocketValues ==
  /\ \A n \in SeqNums : Inc(n) \in SeqNums
  /\ NoSocket \in SocketRecord
  /\ 0 \in SeqNums
BY SocketAssumption DEF SeqNums, Inc, NoSocket, SocketRecord, OpenStates

\* The sockets of an MQTT client that has connected are its own.
LEMMA SocketsInitially == Init => SocketInv
<1> SUFFICES ASSUME Init PROVE SocketInv OBVIOUS
<1> DEFINE opened == [NoSocket EXCEPT !.st = "open", !.ka = TRUE]
<1>1. MqttConns \subseteq Conns BY SocketAssumption DEF Init, EnvInit, MqttConns
<1>2. opened \in SocketRecord /\ opened.st = "open"
  BY SocketValues DEF NoSocket, SocketRecord, OpenStates
<1> HIDE DEF opened
<1>3. sock = [c \in Conns |-> IF c \in MqttConns THEN opened ELSE NoSocket]
      /\ owned = MqttConns /\ app.at = "idle"
  BY DEF Init, SocketsInit, opened
<1>4. sock \in [Conns -> SocketRecord] BY <1>2, <1>3, SocketValues
<1>5. session \in SessionRecord
  BY SocketValues DEF Init, TlsInitial, NoSession, SessionRecord
<1>6. \A c \in Conns : sock[c].st \in OpenStates => c \in owned
  BY <1>3 DEF NoSocket, OpenStates
<1> QED BY <1>1, <1>3, <1>4, <1>5, <1>6 DEF SocketInv, OwnedBy, Creating

\* One socket is written, and the state it gets is one that the owner allows.
LEMMA OneSocket ==
  ASSUME SocketInv, NEW c \in Conns, NEW s \in SocketRecord,
         sock' = [sock EXCEPT ![c] = s], session' = session, owned' \subseteq Conns,
         app'.at \in Creating => app'.conn \in Conns,
         s.st \in OpenStates => OwnedBy(c)',
         \A d \in Conns \ {c} : OwnedBy(d) => OwnedBy(d)'
  PROVE  SocketInv'
<1>1. sock' \in [Conns -> SocketRecord] BY DEF SocketInv
<1>2. sock'[c] = s /\ \A d \in Conns \ {c} : sock'[d] = sock[d] BY DEF SocketInv
<1>3. \A d \in Conns : sock'[d].st \in OpenStates => OwnedBy(d)' BY <1>2 DEF SocketInv
<1> QED BY <1>1, <1>3 DEF SocketInv

\* No socket is opened.
LEMMA NoneOpened ==
  ASSUME SocketInv, sock' \in [Conns -> SocketRecord], session' \in SessionRecord,
         \A d \in Conns : sock'[d].st \in OpenStates => sock[d].st \in OpenStates,
         owned' = owned, app'.at \in Creating => app'.conn \in Conns,
         \A d \in Conns : OwnedBy(d) => OwnedBy(d)'
  PROVE  SocketInv'
BY DEF SocketInv


\* The calls of cy_tcp_create_socket_connection, and the TCP stack.
LEMMA SocketsKeep == SocketInv /\ SocketsStep /\ session' = session => SocketInv'
<1> SUFFICES ASSUME SocketInv, SocketsStep, session' = session PROVE SocketInv' OBVIOUS
<1> USE DEF AppGoto, Creating
<1>type. /\ sock \in [Conns -> SocketRecord] /\ session \in SessionRecord
         /\ owned \subseteq Conns
         /\ app.at \in Creating => app.conn \in Conns
  BY DEF SocketInv
<1>1. ASSUME NEW c \in Conns, SocketCreate(c) PROVE SocketInv'
  <2>1. [NoSocket EXCEPT !.st = "new"] \in SocketRecord
    BY SocketValues DEF NoSocket, SocketRecord, OpenStates
  <2>2. app.at = "idle" /\ app'.at = "created" /\ app'.conn = c /\ owned' = owned
    BY <1>1 DEF SocketCreate
  <2>3. sock' = [sock EXCEPT ![c] = [NoSocket EXCEPT !.st = "new"]] BY <1>1 DEF SocketCreate
  <2> HIDE DEF NoSocket
  <2> QED BY <1>type, <2>1, <2>2, <2>3, OneSocket DEF OwnedBy
<1>2. CASE BindFails \/ ConnectFails
  <2>1. app.at \in Creating /\ app'.at = "idle" /\ owned' = owned
        /\ sock' = [sock EXCEPT ![app.conn] = NoSocket]
    BY <1>2 DEF BindFails, ConnectFails, DeleteSocket
  <2>2. NoSocket \in SocketRecord /\ NoSocket.st \notin OpenStates
    BY SocketValues DEF NoSocket, OpenStates
  <2> QED BY <1>type, <2>1, <2>2, OneSocket DEF OwnedBy
<1>3. CASE BindConnect
  <2> DEFINE s == [sock[app.conn] EXCEPT !.st = "syn"]
  <2>1. s \in SocketRecord BY <1>3, <1>type DEF BindConnect, SocketRecord, OpenStates
  <2>2. sock' = [sock EXCEPT ![app.conn] = s] BY <1>3 DEF BindConnect
  <2>3. app.at = "created" /\ app'.at = "connecting" /\ app'.conn = app.conn /\ owned' = owned
    BY <1>3 DEF BindConnect
  <2> HIDE DEF s
  <2> QED BY <1>type, <2>1, <2>2, <2>3, OneSocket DEF OwnedBy
<1>4. CASE Connected
  <2> DEFINE s == [sock[app.conn] EXCEPT !.st = "open"]
  <2>1. s \in SocketRecord BY <1>4, <1>type DEF Connected, SocketRecord, OpenStates
  <2>2. sock' = [sock EXCEPT ![app.conn] = s] BY <1>4 DEF Connected
  <2>3. app.at = "connecting" /\ app'.at = "connected" /\ app'.conn = app.conn /\ owned' = owned
    BY <1>4 DEF Connected
  <2> HIDE DEF s
  <2> QED BY <1>type, <2>1, <2>2, <2>3, OneSocket DEF OwnedBy
<1>5. ASSUME NEW keepalive \in BOOLEAN, SetOptions(keepalive) PROVE SocketInv'
  <2> DEFINE s == [sock[app.conn] EXCEPT !.ka = keepalive]
  <2>1. s \in SocketRecord BY <1>5, <1>type DEF SetOptions, SocketRecord
  <2>2. sock' = [sock EXCEPT ![app.conn] = s] BY <1>5 DEF SetOptions
  <2>3. app.at = "connected" /\ app'.at = "send" /\ app'.conn = app.conn /\ owned' = owned
    BY <1>5 DEF SetOptions
  <2> HIDE DEF s
  <2> QED BY <1>type, <2>1, <2>2, <2>3, OneSocket DEF OwnedBy
<1>sent. ASSUME NEW c \in Conns,
                sock' = [sock EXCEPT ![c].tcp = Inc(@), ![c].tls = Inc(@)]
         PROVE  /\ sock' \in [Conns -> SocketRecord]
                /\ \A d \in Conns : sock'[d].st = sock[d].st
  <2> DEFINE s == [sock[c] EXCEPT !.tcp = Inc(@), !.tls = Inc(@)]
  <2>1. sock[c] \in SocketRecord BY <1>type
  <2>2. Inc(sock[c].tcp) \in SeqNums /\ Inc(sock[c].tls) \in SeqNums
    BY <2>1, SocketValues DEF SocketRecord
  <2>3. s \in SocketRecord /\ s.st = sock[c].st BY <2>1, <2>2 DEF SocketRecord
  <2>4. sock' = [sock EXCEPT ![c] = s] BY <1>sent, <1>type
  <2> HIDE DEF s
  <2> QED BY <1>type, <2>3, <2>4
<1>6. CASE SendFirst
  <2>1. app.at = "send" /\ app'.at = "clearEntry" /\ owned' = owned \cup {app.conn}
        /\ app.conn \in Conns
    BY <1>6, <1>type DEF SendFirst
  <2>2. sock' \in [Conns -> SocketRecord] /\ \A d \in Conns : sock'[d].st = sock[d].st
    BY <1>6, <1>type, <1>sent, <2>1 DEF SendFirst
  <2>3. \A d \in Conns : OwnedBy(d) => OwnedBy(d)' BY <2>1 DEF OwnedBy
  <2> QED BY <1>type, <2>1, <2>2, <2>3 DEF SocketInv
<1>7. ASSUME NEW c \in Conns, Transfer(c) PROVE SocketInv'
  <2>1. sock' \in [Conns -> SocketRecord] /\ \A d \in Conns : sock'[d].st = sock[d].st
    BY <1>7, <1>sent DEF Transfer
  <2>2. owned' = owned /\ app' = app BY <1>7 DEF Transfer
  <2> QED BY <1>type, <2>1, <2>2, NoneOpened DEF OwnedBy
<1>8. ASSUME NEW c \in Conns, Close(c) PROVE SocketInv'
  <2>1. PICK s \in SocketRecord : sock' = [sock EXCEPT ![c] = s] /\ s.st \notin OpenStates
    <3>1. CASE cfg.stack = "lwip"
      <4>1. [sock[c] EXCEPT !.st = "timeWait"] \in SocketRecord
        BY <1>type DEF SocketRecord, OpenStates
      <4>2. [sock[c] EXCEPT !.st = "timeWait"].st \notin OpenStates
        BY <1>type DEF SocketRecord, OpenStates
      <4>3. sock' = [sock EXCEPT ![c] = [sock[c] EXCEPT !.st = "timeWait"]]
        BY <1>8, <3>1 DEF Close
      <4> QED BY <4>1, <4>2, <4>3
    <3>2. CASE cfg.stack # "lwip"
      BY <1>8, <3>2, SocketValues DEF Close, NoSocket, OpenStates
    <3> QED BY <3>1, <3>2
  <2>2. owned' = owned \ {c} /\ app' = app BY <1>8 DEF Close
  <2> QED BY <1>type, <2>1, <2>2, OneSocket DEF OwnedBy
<1>9. ASSUME NEW c \in Conns, TimeWaitEnds(c) PROVE SocketInv'
  <2>1. NoSocket \in SocketRecord /\ NoSocket.st \notin OpenStates
    BY SocketValues DEF NoSocket, OpenStates
  <2> QED BY <1>9, <1>type, <2>1, OneSocket DEF TimeWaitEnds, OwnedBy
<1> QED
  BY <1>1, <1>2, <1>3, <1>4, <1>5, <1>6, <1>7, <1>8, <1>9 DEF SocketsStep, KeepaliveChoices

\* cylpa_tko_ol_update_config comes after the socket was handed out.
LEMMA TkoKeepsSockets == SocketInv /\ TkoStep /\ session' = session => SocketInv'
<1> SUFFICES ASSUME SocketInv, TkoStep, session' = session PROVE SocketInv' OBVIOUS
<1>1. CASE UNCHANGED <<sock, owned, app>>
  BY <1>1 DEF SocketInv, OwnedBy
<1>2. CASE UpdateClear
  BY <1>2 DEF UpdateClear, AppGoto, SocketInv, OwnedBy, Creating
<1>3. CASE UpdateWrite
  BY <1>3 DEF UpdateWrite, AppGoto, SocketInv, OwnedBy, Creating
<1>4. CASE TkoInit \/ TkoSleep \/ TkoActivated
  BY <1>1, <1>4 DEF TkoInit, TkoSleep, TkoActivated, tcp
<1>5. CASE \E part \in {"activate", "found"} : TkoActivate(part)
  BY <1>1, <1>5 DEF TkoActivate, tcp
<1>6. CASE TkoToggleOn \/ TkoRegister \/ TkoMark
  BY <1>1, <1>6 DEF TkoToggleOn, TkoRegister, TkoMark, tcp
<1>7. CASE \E t \in {"lpa", "net"} :
             TkoDisable(t) \/ TkoUnmark(t) \/ TkoDeregister(t) \/ TkoToggleOff(t)
  BY <1>1, <1>7 DEF TkoDisable, TkoUnmark, TkoDeregister, TkoToggleOff, tcp
<1>8. CASE TkoEvent \/ TkoHandler
  BY <1>1, <1>8 DEF TkoEvent, TkoHandler, tcp
<1> QED BY <1>2, <1>3, <1>4, <1>5, <1>6, <1>7, <1>8 DEF TkoStep

\* The TLS offload writes sequence numbers, and ends lwIP's connections.
LEMMA TlsKeepsSockets == SocketInv /\ TlsStep => SocketInv'
<1> SUFFICES ASSUME SocketInv, TlsStep PROVE SocketInv' OBVIOUS
<1>type. /\ sock \in [Conns -> SocketRecord] /\ session \in SessionRecord
         /\ owned \subseteq Conns
         /\ app.at \in Creating => app.conn \in Conns
  BY DEF SocketInv
<1>same. ASSUME UNCHANGED <<sock, owned, app>>, session' \in SessionRecord PROVE SocketInv'
  BY <1>same DEF SocketInv, OwnedBy
<1>idle. ASSUME UNCHANGED <<sock, owned, session>>,
                app.at \notin Creating, app'.at \notin Creating PROVE SocketInv'
  BY <1>idle DEF SocketInv, OwnedBy
<1>1. CASE TlsInit \/ TlsDeinit \/ TlsSleep \/ TlsPattern
  BY <1>1, <1>type, <1>same DEF TlsInit, TlsDeinit, TlsSleep, TlsPattern, tcp, tls
<1>2. CASE TlsCleanUp \/ TlsProtect \/ TlsRegister
  BY <1>2, <1>type, <1>same DEF TlsCleanUp, TlsProtect, TlsRegister, tcp, tls
<1>3. CASE TlsWake \/ TlsRelease \/ TlsDeregister
  BY <1>3, <1>type, <1>same DEF TlsWake, TlsRelease, TlsDeregister, tcp, tls
<1>4. CASE WakeEvent \/ TlsHandler
  BY <1>4, <1>type, <1>same DEF WakeEvent, TlsHandler, tcp
<1>5. CASE TlsActivate
  <2>1. UNCHANGED <<sock, owned, app>> BY <1>5 DEF TlsActivate, tcp
  <2>2. ASSUME NEW c \in SecureStats(mqtt.conn), mqtt.socket \in owned,
               session' = [conn |-> c, tcp |-> sock[c].tcp, tls |-> sock[mqtt.socket].tls]
        PROVE  session' \in SessionRecord
    <3>1. c \in Conns BY <2>2 DEF SecureStats
    <3>2. sock[c].tcp \in SeqNums BY <3>1, <1>type DEF SocketRecord
    <3>3. sock[mqtt.socket].tls \in SeqNums BY <2>2, <1>type DEF SocketRecord
    <3> QED BY <2>2, <3>1, <3>2, <3>3 DEF SessionRecord
  <2> QED BY <1>5, <1>type, <2>1, <2>2, <1>same DEF TlsActivate
<1>6. CASE TlsRestore
  <2>1. UNCHANGED <<owned, app, session>> BY <1>6 DEF TlsRestore, tls
  <2>2. CASE UNCHANGED sock BY <2>1, <2>2, <1>type, <1>same
  <2>3. CASE /\ mqtt.socket \in owned
             /\ sock' = UpdateSockSeq(mqtt.conn, [sock EXCEPT ![mqtt.socket].tls = session.tls])
    <3> DEFINE s == [sock[mqtt.socket] EXCEPT !.tls = session.tls]
               socks == [sock EXCEPT ![mqtt.socket] = s]
    <3>1. mqtt.socket \in Conns BY <2>3, <1>type
    <3>2. s \in SocketRecord /\ s.st = sock[mqtt.socket].st
      BY <3>1, <1>type DEF SocketRecord, SessionRecord
    <3>3. [sock EXCEPT ![mqtt.socket].tls = session.tls] = socks BY <1>type
    <3> HIDE DEF s
    <3>4. socks \in [Conns -> SocketRecord] /\ \A d \in Conns : socks[d].st = sock[d].st
      BY <3>1, <3>2, <1>type
    <3> HIDE DEF socks
    <3>u. sock' = UpdateSockSeq(mqtt.conn, socks) BY <2>3, <3>3
    <3>5. \A d \in Conns :
            sock'[d] \in SocketRecord /\ (sock'[d].st = socks[d].st \/ sock'[d].st = "finWait2")
      <4> SUFFICES ASSUME NEW d \in Conns
                   PROVE  sock'[d] \in SocketRecord
                          /\ (sock'[d].st = socks[d].st \/ sock'[d].st = "finWait2")
        OBVIOUS
      <4>1. socks[d] \in SocketRecord /\ session.tcp \in SeqNums
        BY <3>4, <1>type DEF SessionRecord
      <4>2. \/ sock'[d] = socks[d]
            \/ sock'[d] = [socks[d] EXCEPT !.tcp = session.tcp]
            \/ sock'[d] = [socks[d] EXCEPT !.tcp = session.tcp,
                                           !.st = IF tcpReset THEN "finWait2" ELSE @]
        <5>1. CASE cfg.stack = "lwip" BY <3>u, <5>1 DEF UpdateSockSeq
        <5>2. CASE cfg.stack # "lwip" BY <3>u, <5>2 DEF UpdateSockSeq
        <5> QED BY <5>1, <5>2
      <4>3. CASE tcpReset
        BY <4>1, <4>2, <4>3 DEF SocketRecord, OpenStates
      <4>4. CASE ~tcpReset
        BY <4>1, <4>2, <4>4 DEF SocketRecord, OpenStates
      <4> QED BY <4>3, <4>4
    <3>6. DOMAIN sock' = Conns /\ sock' = [d \in Conns |-> sock'[d]]
      <4>1. CASE cfg.stack = "lwip" BY <3>u, <4>1 DEF UpdateSockSeq
      <4>2. CASE cfg.stack # "lwip" BY <3>u, <4>2 DEF UpdateSockSeq
      <4> QED BY <4>1, <4>2
    <3>7. sock' \in [Conns -> SocketRecord] BY <3>5, <3>6
    <3>8. \A d \in Conns : sock'[d].st \in OpenStates => sock[d].st \in OpenStates
      BY <3>4, <3>5 DEF OpenStates
    <3> QED BY <1>type, <2>1, <3>7, <3>8, NoneOpened DEF OwnedBy
  <2> QED BY <1>6, <2>2, <2>3 DEF TlsRestore
<1>7. CASE TlsClear
  <2>1. UNCHANGED <<sock, owned, app>> BY <1>7 DEF TlsClear, tcp
  <2>2. NoSession \in SessionRecord BY SocketValues DEF NoSession, SessionRecord
  <2> QED BY <1>7, <1>type, <2>1, <2>2, <1>same DEF TlsClear, TlsCommand
<1>8. CASE DeviceSends
  <2>1. UNCHANGED <<sock, owned, app>> BY <1>8 DEF DeviceSends
  <2>2. Inc(session.tcp) \in SeqNums /\ Inc(session.tls) \in SeqNums
    BY <1>type, SocketValues DEF SessionRecord
  <2>3. session' \in SessionRecord BY <1>8, <1>type, <2>2 DEF DeviceSends, SessionRecord
  <2> QED BY <2>1, <2>3, <1>same
<1>9. CASE \E c \in Conns : ConfigClear(c) \/ SetPorts(c)
  BY <1>9, <1>idle DEF ConfigClear, SetPorts, AppGoto, Creating
<1>10. CASE ConfigCopy \/ ConfigSocket \/ SetAddress
  BY <1>10, <1>idle DEF ConfigCopy, ConfigSocket, SetAddress, AppGoto, Creating
<1> QED BY <1>1, <1>2, <1>3, <1>4, <1>5, <1>6, <1>7, <1>8, <1>9, <1>10 DEF TlsStep

\* Nothing else writes a socket.
LEMMA StepKeepsSockets == SocketInv /\ [Next]_system => SocketInv'
<1> SUFFICES ASSUME SocketInv, [Next]_system PROVE SocketInv' OBVIOUS
<1>1. CASE UNCHANGED <<sock, session, owned, app>>
  BY <1>1 DEF SocketInv, OwnedBy
<1>2. CASE ManagerStep
  BY <1>1, <1>2 DEF ManagerStep, Connect, Disconnect, LoopDone, Inactive, SleepDone, WakeUp,
     AwakeDone, OthersUnchanged, tcp, tls
<1>3. CASE SocketsStep /\ UNCHANGED <<tko, tls, nat, ns>>
  BY <1>3, SocketsKeep DEF tls
<1>4. CASE TkoStep /\ UNCHANGED <<tls, nat, ns>>
  BY <1>4, TkoKeepsSockets DEF tls
<1>5. CASE TlsStep BY <1>5, TlsKeepsSockets, SMTT(40)
<1>6. CASE WowlStep /\ UNCHANGED <<nat, ns>>
  BY <1>1, <1>6 DEF WowlStep, WowlInit, WowlDeinit, WowlConfigure, WowlSet, WowlActivate,
     WowlUndo, WowlWake, WowlDelete, WowlDone, WowlVars, tcp, tls
<1>7. CASE UNCHANGED <<tcp, tls>> BY <1>1, <1>7 DEF tcp, tls
<1> QED BY <1>2, <1>3, <1>4, <1>5, <1>6, <1>7 DEF Next, system

\* Whenever cy_tcp_create_socket_connection is not at work, every open socket has
\* been handed out, whichever of its calls failed.
THEOREM SocketsAreOwned == Spec => []SocketsOwned
<1>1. SocketInv => SocketsOwned
  BY DEF SocketInv, OwnedBy, SocketsOwned, Creating, OpenStates
<1> QED BY <1>1, SocketsInitially, StepKeepsSockets, PTL DEF Spec

-----------------------------------------------------------------------------
(* The device's wake-up state                                              *)

\* The device's wake-up state is a record.
WowlShape ==
  /\ wowl = [caps |-> wowl.caps, armed |-> wowl.armed, patterns |-> wowl.patterns,
             secure |-> wowl.secure]
  /\ wowl.secure \in BOOLEAN

\* The wake-up state is written by one command at a time.
LEMMA WowlWrites ==
  ASSUME WowlShape
  PROVE  /\ UNCHANGED wowl =>
              /\ WowlShape' /\ wowl'.secure = wowl.secure /\ wowl'.patterns = wowl.patterns
              /\ wowl'.caps = wowl.caps /\ wowl'.armed = wowl.armed
         /\ \A c, a : wowl' = [wowl EXCEPT !.caps = c, !.armed = a] =>
              /\ WowlShape' /\ wowl'.secure = wowl.secure /\ wowl'.patterns = wowl.patterns
              /\ wowl'.caps = c /\ wowl'.armed = a
         /\ \A c : wowl' = [wowl EXCEPT !.caps = c] =>
              /\ WowlShape' /\ wowl'.secure = wowl.secure /\ wowl'.patterns = wowl.patterns
              /\ wowl'.caps = c /\ wowl'.armed = wowl.armed
         /\ \A a : wowl' = [wowl EXCEPT !.armed = a] =>
              /\ WowlShape' /\ wowl'.secure = wowl.secure /\ wowl'.patterns = wowl.patterns
              /\ wowl'.caps = wowl.caps /\ wowl'.armed = a
         /\ \A c, p : wowl' = [wowl EXCEPT !.caps = c, !.patterns = p] =>
              /\ WowlShape' /\ wowl'.secure = wowl.secure /\ wowl'.patterns = p
              /\ wowl'.caps = c /\ wowl'.armed = wowl.armed
         /\ \A p : wowl' = [wowl EXCEPT !.patterns = p] =>
              /\ WowlShape' /\ wowl'.secure = wowl.secure /\ wowl'.patterns = p
              /\ wowl'.caps = wowl.caps /\ wowl'.armed = wowl.armed
         /\ \A c : \A s \in BOOLEAN : wowl' = [wowl EXCEPT !.caps = c, !.secure = s] =>
              WowlShape' /\ wowl'.secure = s /\ wowl'.patterns = wowl.patterns
         /\ \A s \in BOOLEAN : wowl' = [wowl EXCEPT !.secure = s] =>
              /\ WowlShape' /\ wowl'.secure = s /\ wowl'.patterns = wowl.patterns
              /\ wowl'.caps = wowl.caps /\ wowl'.armed = wowl.armed
BY DEF WowlShape

\* The steps of the other components leave the TLS offload and the wake-up state alone.
LEMMA OthersLeaveDevice ==
  ASSUME PcInv, [Next]_system, ~TlsStep, ~WowlStep
  PROVE  UNCHANGED <<tls, wowl>>
<1>1. CASE ManagerStep
  BY <1>1 DEF ManagerStep, Connect, Disconnect, LoopDone, Inactive, SleepDone, WakeUp,
     AwakeDone, OthersUnchanged
<1>2. CASE SocketsStep /\ UNCHANGED <<tko, tls, nat, ns>>
  BY <1>2
  DEF SocketsStep, SocketCreate, Transfer, Close, TimeWaitEnds, BindFails, BindConnect,
      ConnectFails, Connected, SetOptions, SendFirst, env
<1>3. CASE TkoStep /\ UNCHANGED <<tls, nat, ns>>
  BY <1>3
  DEF TkoStep, TkoInit, TkoSleep, TkoActivate, TkoActivated, TkoToggleOn, TkoRegister, TkoMark,
      TkoDisable, TkoUnmark, TkoDeregister, TkoToggleOff, TkoEvent, TkoHandler, UpdateClear,
      UpdateWrite, env
<1>5. CASE NatStep /\ UNCHANGED <<tcp, tko, tls, ns>>
  BY <1>5
  DEF NatStep, NkoInit, NkoUnregister, NkoDisable, NkoForget, KeepAlivePm, AddressChanges,
      UpdateConfig, Details, Send, NullkoInit, NullkoDeinit
<1>6. CASE StackStep /\ UNCHANGED <<tcp, tko, tls>>
  BY <1>6
  DEF StackStep, LwipSuspend, LwipResume, NetxSuspendIp, NetxStopTimers, NetxSuspendDhcp,
      NetxResumeDhcp, NetxResumeIp, BadState, DhcpChanges, StackVars
<1>7. CASE /\ AppRegister \/ \E o \in Offloads : InitClear(o)
           /\ UNCHANGED <<tcp, tko, tls, nat, ns>>
  BY <1>7 DEF AppRegister, InitClear
<1>8. CASE UNCHANGED system BY <1>8 DEF system, env
<1> QED BY <1>1, <1>2, <1>3, <1>5, <1>6, <1>7, <1>8 DEF Next

\* The wake-up pattern filter leaves the TLS offload and its secure pattern alone.
LEMMA WowlStepShape ==
  ASSUME WowlShape, WowlStep
  PROVE  UNCHANGED tls /\ WowlShape' /\ wowl'.secure = wowl.secure
<1>1. UNCHANGED tls
  BY DEF WowlStep, WowlInit, WowlDeinit, WowlConfigure, WowlSet, WowlActivate, WowlUndo,
     WowlWake, WowlDelete, WowlDone, WowlVars
<1>2. CASE WowlInit \/ WowlUndo BY <1>1, <1>2, WowlWrites DEF WowlInit, WowlUndo
<1>3. CASE WowlDeinit \/ WowlDone
  BY <1>1, <1>3, WowlWrites DEF WowlDeinit, WowlDone, WowlClear
<1>4. CASE WowlConfigure BY <1>1, <1>4, WowlWrites DEF WowlConfigure
<1>5. CASE WowlSet BY <1>1, <1>5, WowlWrites, ZenonT(40) DEF WowlSet
<1>6. CASE WowlActivate BY <1>1, <1>6, WowlWrites DEF WowlActivate
<1>7. CASE WowlWake BY <1>1, <1>7, WowlWrites DEF WowlWake
<1>8. CASE WowlDelete BY <1>1, <1>8, WowlWrites DEF WowlDelete
<1> QED BY <1>2, <1>3, <1>4, <1>5, <1>6, <1>7, <1>8, SMTT(40) DEF WowlStep

\* Nor does anything else but that offload itself write it.
LEMMA OthersLeaveTls ==
  ASSUME PcInv, WowlShape, [Next]_system, ~TlsStep
  PROVE  UNCHANGED tls /\ WowlShape' /\ wowl'.secure = wowl.secure
<1>1. CASE ~WowlStep
  <2>1. UNCHANGED <<tls, wowl>> BY <1>1, OthersLeaveDevice
  <2> QED BY <2>1, WowlWrites
<1> QED BY <1>1, WowlStepShape

-----------------------------------------------------------------------------
(* The protection of NetX Secure, and the secure pattern                   *)

ProtectionFaults == {"tlsDelete", "reinit", "tlsConfig"}

\* The protection is taken, and the device has the secure pattern, only while the
\* wake-up that will give it back, or delete it, is yet to come.
ProtectionWays ==
  ProtectionFaults \cap faults = {} =>
    /\ InSleep("tls") => "tls" \in ctx
    /\ At("lpa", "sleep", "tls", pc["lpa"].part) /\ mqtt.pattern
         /\ pc["lpa"].part \in {"activate", "protect", "register"} => wowl.secure
    /\ protection # 0 =>
         /\ protection = 1 /\ Told("tls", {"register"}, {"start", "restore", "release"})
         /\ mqtt.pattern /\ Told("tls", {"register"}, {"start"}) => wowl.secure
    /\ wowl.secure =>
         mqtt.pattern /\ Told("tls", {"activate", "cleanUp", "protect", "register"}, {"start"})

\* What that says of the dispatching thread inside the offload.
LEMMA ProtectionHere ==
  ASSUME PcInv, Ranges, ProtectionWays, ProtectionFaults \cap faults = {},
         NEW at \in {"sleep", "awake"}, NEW part, LpaAt(at, part)
  PROVE  /\ at = "sleep" /\ part # "start" => "tls" \in ctx
         /\ at = "sleep" /\ mqtt.pattern /\ part \in {"activate", "protect", "register"}
              => wowl.secure
         /\ protection # 0 =>
              /\ protection = 1 /\ "tls" \in ctx
              /\ IF at = "sleep" THEN part = "register" ELSE part \in {"start", "restore", "release"}
              /\ mqtt.pattern /\ (IF at = "sleep" THEN part = "register" ELSE part = "start")
                   => wowl.secure
         /\ wowl.secure =>
              /\ mqtt.pattern /\ "tls" \in ctx
              /\ IF at = "sleep" THEN part \in {"activate", "cleanUp", "protect", "register"}
                                 ELSE part = "start"
<1>1. pc["lpa"] \in Place /\ cfg \in Configs BY DEF PcInv, PcType, Threads
<1>2. pc["lpa"].i \in DOMAIN cfg.list
  BY <1>1, ListFacts DEF Ranges, Threads, LpaAt, At, Place
<1>3. \A down, up : Past(cfg.list, pc["lpa"], "tls", down, up)
                      <=> (IF at = "sleep" THEN part \in down ELSE part \in up)
  BY <1>1, <1>2, PastHere DEF LpaAt, At
<1>4. at = "sleep" /\ part # "start" => InSleep("tls")
  BY DEF InSleep, Inside, LpaAt, At, Walking
<1>5. at = "sleep" => At("lpa", "sleep", "tls", pc["lpa"].part) /\ pc["lpa"].part = part
  BY DEF LpaAt, At
<1>6. \A down, up : Told("tls", down, up)
                      <=> "tls" \in ctx /\ (IF at = "sleep" THEN part \in down ELSE part \in up)
  BY <1>3 DEF Told
<1> QED BY <1>4, <1>5, <1>6 DEF ProtectionWays

\* The dispatching thread goes on inside it.
LEMMA ProtectionGoesTo ==
  ASSUME PcInv, Ranges, UNCHANGED <<cfg, ctx, mqtt>>,
         NEW at \in {"sleep", "awake"}, NEW part, LpaAt(at, part),
         NEW p \in Parts \ {"start"}, Goto("lpa", p),
         at = "sleep" => "tls" \in ctx,
         at = "sleep" /\ mqtt.pattern /\ p \in {"activate", "protect", "register"}
           => wowl'.secure,
         protection' # 0 =>
           /\ protection' = 1 /\ "tls" \in ctx
           /\ IF at = "sleep" THEN p = "register" ELSE p \in {"restore", "release"},
         wowl'.secure =>
           /\ mqtt.pattern /\ "tls" \in ctx /\ at = "sleep"
           /\ p \in {"activate", "cleanUp", "protect", "register"}
  PROVE  ProtectionWays'
<1>1. 0 \in Nat OBVIOUS
<1>2. /\ At("lpa", at, "tls", p)'
      /\ \A down, up : Past(cfg'.list, pc'["lpa"], "tls", down, up)
                         <=> (IF at = "sleep" THEN p \in down ELSE p \in up)
  BY <1>1, LpaGoesTo DEF LpaAt
<1>3. \A down, up : Told("tls", down, up)'
                      <=> "tls" \in ctx /\ (IF at = "sleep" THEN p \in down ELSE p \in up)
  BY <1>2 DEF Told
<1>4. (InSleep("tls")' => at = "sleep") /\ pc'["lpa"].part = p
      /\ (At("lpa", "sleep", "tls", pc["lpa"].part)' => at = "sleep")
  BY <1>2 DEF InSleep, At
<1> QED BY <1>3, <1>4 DEF ProtectionWays

\* It goes on to the next offload.
LEMMA ProtectionGoesOn ==
  ASSUME PcInv, Ranges, UNCHANGED <<cfg, ctx, mqtt>>,
         NEW at \in {"sleep", "awake"}, NEW part, LpaAt(at, part), NextOffload("lpa"),
         protection' # 0 => /\ protection' = 1 /\ "tls" \in ctx /\ at = "sleep"
                            /\ mqtt.pattern => wowl'.secure,
         wowl'.secure => mqtt.pattern /\ "tls" \in ctx /\ at = "sleep"
  PROVE  ProtectionWays'
<1>1. /\ pc'["lpa"].part = "start"
      /\ \A down, up : Past(cfg'.list, pc'["lpa"], "tls", down, up) <=> at = "sleep"
  BY LpaGoesOn DEF LpaAt
<1>2. \A down, up : Told("tls", down, up)' <=> "tls" \in ctx /\ at = "sleep"
  BY <1>1 DEF Told
<1>3. ~InSleep("tls")' BY <1>1 DEF InSleep, Inside
<1> QED BY <1>1, <1>2, <1>3 DEF ProtectionWays

\* Deleting the secure pattern.
LEMMA PatternDeleted ==
  ASSUME WowlShape, NEW ok \in BOOLEAN, DeletePattern(ok), "tlsDelete" \notin faults'
  PROVE  /\ WowlShape'
         /\ mqtt.pattern => ~wowl'.secure /\ (wowl.secure => ok)
         /\ ~mqtt.pattern => ok /\ wowl'.secure = wowl.secure
<1> DEFINE s == IF mqtt.pattern THEN PatternAfter(FALSE, ok) ELSE wowl.secure
<1>1. s \in BOOLEAN BY DEF WowlShape, PatternAfter
<1>2. wowl' = [wowl EXCEPT !.secure = s] BY DEF DeletePattern
<1>3. WowlShape' /\ wowl'.secure = s
  <2> HIDE DEF s
  <2> QED BY <1>1, <1>2, WowlWrites
<1>4. mqtt.pattern /\ wowl.secure => ok BY DEF DeletePattern, Command, Faulty
<1>5. ~mqtt.pattern => ok BY DEF DeletePattern
<1>6. mqtt.pattern => ~wowl'.secure BY <1>3, <1>4 DEF PatternAfter
<1> QED BY <1>3, <1>4, <1>5, <1>6

\* Every step keeps to it.
LEMMA ProtectionKeeps ==
  ASSUME PcInv, Ranges, WowlShape, ProtectionWays, [Next]_system,
         ProtectionFaults \cap faults = {}, ProtectionFaults \cap faults' = {}
  PROVE  ProtectionWays' /\ WowlShape'
<1>no. "tlsDelete" \notin faults' /\ "reinit" \notin faults' /\ "tlsConfig" \notin faults'
  BY DEF ProtectionFaults
<1>net. ASSUME pc'["lpa"] = pc["lpa"], ~Suspended, wowl'.secure = wowl.secure,
               protection' = protection
        PROVE  ProtectionWays'
  <2>1. ~Suspended' BY <1>net DEF Suspended
  <2>2. protection = 0 /\ ~wowl.secure BY <1>net, NotPast DEF ProtectionWays, Told
  <2>3. ~InSleep("tls")' /\ ~At("lpa", "sleep", "tls", pc["lpa"].part)'
    BY <2>1 DEF InSleep, At, Suspended
  <2> QED BY <1>net, <2>2, <2>3 DEF ProtectionWays
<1>stay. ASSUME pc'["lpa"] = pc["lpa"], UNCHANGED <<cfg, ctx, mqtt, protection>>,
                wowl'.secure = wowl.secure
         PROVE  ProtectionWays'
  BY <1>stay DEF ProtectionWays, Told, InSleep, Inside, At
<1>same. UNCHANGED wowl => WowlShape' /\ wowl'.secure = wowl.secure BY WowlWrites
<1>1. CASE TlsInit
  <2>1. pc'["lpa"] = pc["lpa"] /\ UNCHANGED <<cfg, protection, wowl>>
    BY <1>1, NetGoesOn DEF TlsInit
  <2>2. CASE "tls" \in cfg.given
    <3>1. ~Suspended BY <1>1, <1>no, <2>2 DEF TlsInit, NoteConfig, Note
    <3> QED BY <1>net, <1>same, <2>1, <3>1
  <2>3. CASE "tls" \notin cfg.given
    <3>1. ctx' = ctx /\ mqtt' = mqtt BY <1>1, <2>3 DEF TlsInit, HasContext
    <3> QED BY <1>stay, <1>same, <2>1, <3>1
  <2> QED BY <2>2, <2>3
<1>2. CASE InitClear("tls") /\ UNCHANGED <<tcp, tko, tls, nat, ns>>
  <2>1. ~Suspended BY <1>2, <1>no DEF InitClear, Note
  <2>2. UNCHANGED <<cfg, protection, wowl>> /\ At("net", "init", "tls", "start") /\ Goto("net", "fill")
    BY <1>2 DEF InitClear, tls
  <2> QED BY <1>net, <1>same, <2>1, <2>2, NetGoesTo DEF Parts
<1>3. CASE TlsDeinit
  <2>1. pc'["lpa"] = pc["lpa"] /\ UNCHANGED <<cfg, ctx, mqtt, protection, wowl>>
    BY <1>3, NetGoesOn DEF TlsDeinit, tls
  <2> QED BY <1>stay, <1>same, <2>1
<1>4. CASE TlsSleep
  <2>1. LpaAt("sleep", "start") /\ UNCHANGED <<cfg, ctx, wowl, mqtt, protection>>
    BY <1>4 DEF TlsSleep, tls
  <2>2. protection = 0 /\ ~wowl.secure BY <2>1, ProtectionHere
  <2>3. CASE "tls" \in ctx /\ Goto("lpa", "pattern")
    BY <1>same, <2>1, <2>2, <2>3, ProtectionGoesTo DEF Parts
  <2>4. CASE "tls" \notin ctx /\ NextOffload("lpa")
    BY <1>same, <2>1, <2>2, <2>4, ProtectionGoesOn
  <2> QED BY <1>4, <2>3, <2>4 DEF TlsSleep
<1>5. CASE TlsPattern
  <2>1. LpaAt("sleep", "pattern") /\ UNCHANGED <<cfg, ctx, mqtt, protection>>
    BY <1>5 DEF TlsPattern, tls
  <2>2. protection = 0 /\ ~wowl.secure /\ "tls" \in ctx BY <2>1, ProtectionHere, SMTT(40)
  <2>3. PICK capsSet \in BOOLEAN, added \in BOOLEAN :
          /\ wowl' = [wowl EXCEPT
               !.caps = IF capsSet /\ wowl.caps \cap SecureCaps # SecureCaps
                        THEN SecureCaps ELSE @,
               !.secure = IF mqtt.pattern THEN PatternAfter(TRUE, added) ELSE @]
          /\ IF capsSet /\ added THEN Goto("lpa", "activate") ELSE NextOffload("lpa")
    BY <1>5 DEF TlsPattern
  <2>4. WowlShape' /\ (wowl'.secure = (mqtt.pattern /\ added))
    <3> DEFINE s == IF mqtt.pattern THEN PatternAfter(TRUE, added) ELSE wowl.secure
               c == IF capsSet /\ wowl.caps \cap SecureCaps # SecureCaps
                    THEN SecureCaps ELSE wowl.caps
    <3>1. wowl' = [wowl EXCEPT !.caps = c, !.secure = s] BY <2>3
    <3>2. s \in BOOLEAN /\ (s <=> mqtt.pattern /\ added) BY <2>2 DEF WowlShape, PatternAfter
    <3> HIDE DEF s, c
    <3>3. WowlShape' /\ wowl'.secure = s BY <3>1, <3>2, WowlWrites
    <3> QED BY <3>2, <3>3
  <2>5. CASE capsSet /\ added BY <2>1, <2>2, <2>3, <2>4, <2>5, ProtectionGoesTo DEF Parts
  <2>6. CASE ~(capsSet /\ added) BY <2>1, <2>2, <2>3, <2>4, <2>6, ProtectionGoesOn
  <2> QED BY <2>5, <2>6
<1>6. CASE TlsActivate
  <2>1. LpaAt("sleep", "activate") /\ UNCHANGED <<cfg, ctx, wowl, mqtt, protection>>
        /\ (Goto("lpa", "protect") \/ Goto("lpa", "cleanUp"))
    BY <1>6 DEF TlsActivate
  <2>2. /\ protection = 0 /\ "tls" \in ctx /\ (wowl.secure => mqtt.pattern)
        /\ mqtt.pattern => wowl.secure
    BY <2>1, ProtectionHere
  <2> QED BY <1>same, <2>1, <2>2, ProtectionGoesTo DEF Parts
<1>7. CASE TlsCleanUp
  <2>1. LpaAt("sleep", "cleanUp") /\ UNCHANGED <<cfg, ctx, mqtt, protection>> /\ NextOffload("lpa")
    BY <1>7 DEF TlsCleanUp, tls
  <2>2. PICK ok \in BOOLEAN : DeletePattern(ok) BY <1>7 DEF TlsCleanUp
  <2>3. protection = 0 /\ (wowl.secure => mqtt.pattern) BY <2>1, ProtectionHere
  <2>4. WowlShape' /\ ~wowl'.secure BY <1>no, <2>2, <2>3, PatternDeleted
  <2> QED BY <2>1, <2>3, <2>4, ProtectionGoesOn
<1>8. CASE TlsProtect
  <2>1. /\ LpaAt("sleep", "protect") /\ UNCHANGED <<cfg, ctx, wowl, mqtt>>
        /\ Goto("lpa", "register")
        /\ protection' = IF cfg.stack = "netx" THEN protection + 1 ELSE 0
    BY <1>8 DEF TlsProtect
  <2>2. /\ protection = 0 /\ "tls" \in ctx /\ (wowl.secure => mqtt.pattern)
        /\ mqtt.pattern => wowl.secure
    BY <2>1, ProtectionHere
  <2>3. protection' \in {0, 1} BY <2>1, <2>2
  <2> QED BY <1>same, <2>1, <2>2, <2>3, ProtectionGoesTo DEF Parts
<1>9. CASE TlsRegister
  <2>1. LpaAt("sleep", "register") /\ UNCHANGED <<cfg, ctx, wowl, mqtt, protection>>
        /\ NextOffload("lpa")
    BY <1>9 DEF TlsRegister
  <2>2. /\ protection # 0 => protection = 1 /\ (mqtt.pattern => wowl.secure)
        /\ "tls" \in ctx /\ (wowl.secure => mqtt.pattern)
    BY <2>1, ProtectionHere
  <2> QED BY <1>same, <2>1, <2>2, ProtectionGoesOn
<1>10. CASE TlsWake
  <2>1. LpaAt("awake", "start") /\ UNCHANGED <<cfg, ctx, mqtt, protection>>
    BY <1>10 DEF TlsWake, tls
  <2>2. /\ protection # 0 => protection = 1 /\ "tls" \in ctx /\ (mqtt.pattern => wowl.secure)
        /\ wowl.secure => mqtt.pattern /\ "tls" \in ctx
    BY <2>1, ProtectionHere
  <2>3. CASE "tls" \notin ctx
    BY <1>10, <1>same, <2>1, <2>2, <2>3, ProtectionGoesOn DEF TlsWake
  <2>4. CASE "tls" \in ctx
    <3>1. PICK ok \in BOOLEAN :
            DeletePattern(ok) /\ IF ok THEN Goto("lpa", "restore") ELSE NextOffload("lpa")
      BY <1>10, <2>4 DEF TlsWake
    <3>2. /\ WowlShape' /\ ~wowl'.secure
          /\ ~ok => protection = 0
      BY <1>no, <2>2, <3>1, PatternDeleted
    <3>3. CASE ok = TRUE BY <2>1, <2>2, <2>4, <3>1, <3>2, <3>3, ProtectionGoesTo DEF Parts
    <3>4. CASE ok # TRUE BY <2>1, <2>2, <2>4, <3>1, <3>2, <3>4, ProtectionGoesOn
    <3> QED BY <3>3, <3>4
  <2> QED BY <2>3, <2>4
<1>11. CASE TlsRestore
  <2>1. LpaAt("awake", "restore") /\ UNCHANGED <<cfg, ctx, wowl, mqtt, protection>>
        /\ Goto("lpa", "release")
    BY <1>11 DEF TlsRestore, tls
  <2>2. (protection # 0 => protection = 1 /\ "tls" \in ctx) /\ ~wowl.secure
    BY <2>1, ProtectionHere
  <2> QED BY <1>same, <2>1, <2>2, ProtectionGoesTo DEF Parts
<1>12. CASE TlsRelease
  <2>1. /\ LpaAt("awake", "release") /\ UNCHANGED <<cfg, ctx, wowl, mqtt>> /\ Goto("lpa", "clear")
        /\ protection' = IF protection > 0 THEN protection - 1 ELSE 0
    BY <1>12 DEF TlsRelease
  <2>2. protection \in {0, 1} /\ ~wowl.secure BY <2>1, ProtectionHere
  <2>3. protection' = 0 BY <2>1, <2>2
  <2> QED BY <1>same, <2>1, <2>2, <2>3, ProtectionGoesTo DEF Parts
<1>13. CASE TlsClear
  <2>1. /\ LpaAt("awake", "clear") /\ UNCHANGED <<cfg, ctx, mqtt, protection>>
        /\ Goto("lpa", "deregister") /\ (WowlClear \/ UNCHANGED wowl)
    BY <1>13 DEF TlsClear, TlsCommand
  <2>2. protection = 0 /\ ~wowl.secure BY <2>1, ProtectionHere
  <2>3. WowlShape' /\ wowl'.secure = wowl.secure BY <1>same, <2>1, WowlWrites DEF WowlClear
  <2> QED BY <2>1, <2>2, <2>3, ProtectionGoesTo DEF Parts
<1>14. CASE TlsDeregister
  <2>1. LpaAt("awake", "deregister") /\ UNCHANGED <<cfg, ctx, wowl, mqtt, protection>>
        /\ NextOffload("lpa")
    BY <1>14 DEF TlsDeregister, tls
  <2>2. protection = 0 /\ ~wowl.secure BY <2>1, ProtectionHere
  <2> QED BY <1>same, <2>1, <2>2, ProtectionGoesOn
<1>15. CASE DeviceSends \/ WakeEvent \/ TlsHandler
  <2>1. UNCHANGED <<cfg, pc, ctx, wowl, mqtt, protection>>
    BY <1>15 DEF DeviceSends, WakeEvent, TlsHandler
  <2> QED BY <1>stay, <1>same, <2>1
<1>16. CASE \/ \E c \in Conns : ConfigClear(c) \/ SetPorts(c)
            \/ ConfigCopy \/ ConfigSocket \/ SetAddress
  <2>1. UNCHANGED <<cfg, pc, ctx, wowl, protection>> /\ NoteConfig
    BY <1>16 DEF ConfigClear, SetPorts, ConfigCopy, ConfigSocket, SetAddress
  <2>2. ~Suspended BY <1>no, <2>1 DEF NoteConfig, Note
  <2> QED BY <1>net, <1>same, <2>1, <2>2
<1>17. CASE ~Own("tls")
  <2>1. Apart("tls") BY <1>17, StepPlaces DEF Offloads
  <2>2. UNCHANGED <<mqtt, protection>> /\ WowlShape' /\ wowl'.secure = wowl.secure
    BY <1>17, OthersLeaveTls DEF Own, tls
  <2>3. \A down, up : "start" \notin down /\ "start" \in up =>
          (Told("tls", down, up)' <=> Told("tls", down, up))
    BY <2>1 DEF Apart, Told
  <2>4. /\ Told("tls", {"register"}, {"start", "restore", "release"})'
             <=> Told("tls", {"register"}, {"start", "restore", "release"})
        /\ Told("tls", {"register"}, {"start"})' <=> Told("tls", {"register"}, {"start"})
        /\ Told("tls", {"activate", "cleanUp", "protect", "register"}, {"start"})'
             <=> Told("tls", {"activate", "cleanUp", "protect", "register"}, {"start"})
    BY <2>3
  <2>5. ASSUME Inside("lpa", "tls") \/ Inside("lpa", "tls")' PROVE pc'["lpa"] = pc["lpa"]
    BY <2>1, <2>5 DEF Apart, Threads
  <2>6. InSleep("tls")' => InSleep("tls") /\ "tls" \in ctx'
    BY <2>1, <2>5 DEF InSleep, Inside, Apart, ProtectionWays
  <2>7. ASSUME At("lpa", "sleep", "tls", pc["lpa"].part)',
               pc'["lpa"].part \in {"activate", "protect", "register"}
        PROVE  pc'["lpa"] = pc["lpa"] /\ At("lpa", "sleep", "tls", pc["lpa"].part)
    <3>1. Inside("lpa", "tls")' BY <2>7 DEF Inside, At, Walking
    <3> QED BY <2>1, <2>5, <2>7, <3>1 DEF At, Apart
  <2> QED BY <2>1, <2>2, <2>4, <2>6, <2>7 DEF ProtectionWays
<1> QED BY <1>1, <1>2, <1>3, <1>4, <1>5, <1>6, <1>7, <1>8, <1>9, <1>10, <1>11, <1>12, <1>13,
           <1>14, <1>15, <1>16, <1>17 DEF Own, TlsStep

-----------------------------------------------------------------------------
(* The conversion of the wake-up patterns                                  *)

\* A byte has eight binary digits.
LEMMA Bits ==
  ASSUME NEW b \in 0 .. 255
  PROVE  \A k \in 0 .. 7 : Bit(b, k) \in {0, 1}
<1> SUFFICES ASSUME NEW k \in 0 .. 7 PROVE Bit(b, k) \in {0, 1} OBVIOUS
<1>1. k \in {0, 1, 2, 3, 4, 5, 6, 7} OBVIOUS
<1> QED BY <1>1 DEF Bit

\* Reversing a byte exchanges them, 
LEMMA Reversed ==
  ASSUME NEW b \in 0 .. 255, NEW k \in 0 .. 7
  PROVE  Bit(ReverseBits(b), k) = Bit(b, 7 - k)
<1>1. \A j \in 0 .. 7 : Bit(b, j) \in {0, 1} BY Bits
<1>2. PICK a0, a1, a2, a3, a4, a5, a6, a7 \in {0, 1} :
        /\ a0 = Bit(b, 0) /\ a1 = Bit(b, 1) /\ a2 = Bit(b, 2) /\ a3 = Bit(b, 3)
        /\ a4 = Bit(b, 4) /\ a5 = Bit(b, 5) /\ a6 = Bit(b, 6) /\ a7 = Bit(b, 7)
  BY <1>1
<1>3. ReverseBits(b) = a7 + 2 * a6 + 4 * a5 + 8 * a4 + 16 * a3 + 32 * a2 + 64 * a1 + 128 * a0
  BY <1>2 DEF ReverseBits
<1> DEFINE r == ReverseBits(b)
<1>4. /\ Bit(r, 0) = a7 /\ Bit(r, 1) = a6 /\ Bit(r, 2) = a5 /\ Bit(r, 3) = a4
      /\ Bit(r, 4) = a3 /\ Bit(r, 5) = a2 /\ Bit(r, 6) = a1 /\ Bit(r, 7) = a0
  BY <1>3 DEF Bit
<1>5. k \in {0, 1, 2, 3, 4, 5, 6, 7} OBVIOUS
<1> QED BY <1>2, <1>4, <1>5

\* The binary digits of a byte are those of its two hexadecimal ones.
LEMMA Nibbles ==
  ASSUME NEW h \in 0 .. 15, NEW l \in 0 .. 15, NEW j \in 0 .. 7
  PROVE  /\ j < 4 => Bit(16 * h + l, 7 - j) = Bit(h, 3 - j)
         /\ j >= 4 => Bit(16 * h + l, 7 - j) = Bit(l, 3 - (j - 4))
<1>1. /\ Bit(16 * h + l, 7) = Bit(h, 3) /\ Bit(16 * h + l, 6) = Bit(h, 2)
      /\ Bit(16 * h + l, 5) = Bit(h, 1) /\ Bit(16 * h + l, 4) = Bit(h, 0)
      /\ Bit(16 * h + l, 3) = Bit(l, 3) /\ Bit(16 * h + l, 2) = Bit(l, 2)
      /\ Bit(16 * h + l, 1) = Bit(l, 1) /\ Bit(16 * h + l, 0) = Bit(l, 0)
  BY SMTT(40) DEF Bit
<1>2. j \in {0, 1, 2, 3, 4, 5, 6, 7} OBVIOUS
<1> QED BY <1>1, <1>2

\* A hexadecimal character stands for one of sixteen values.
LEMMA Digits == ASSUME NEW c \in HexDigits PROVE HexCharToInt(c) \in 0 .. 15
BY DEF HexDigits, HexCharToInt, Lower

\* The bytes of a text.
LEMMA Bytes ==
  ASSUME NEW size \in 3 .. 256, NEW text, Text(text, size)
  PROVE  /\ Size(text) = Len(text) \div 2 - 1 /\ Size(text) \in Nat
         /\ TextBytes(text) \in [1 .. Size(text) -> 0 .. 255]
         /\ Len(TextBytes(text)) = Size(text)
         /\ \A i \in 1 .. Size(text) :
              /\ 2 * i + 1 \in 3 .. Len(text) /\ 2 * i + 2 \in 3 .. Len(text)
              /\ HexCharToInt(text[2 * i + 1]) \in 0 .. 15
              /\ HexCharToInt(text[2 * i + 2]) \in 0 .. 15
<1>1. Len(text) \in 2 .. 255
  <2>1. Len(text) \in 2 .. size - 1 BY DEF Text
  <2>2. \A m \in 2 .. size - 1 : m \in 2 .. 255 OBVIOUS
  <2> QED BY <2>1, <2>2
<1>2. Size(text) = Len(text) \div 2 - 1 /\ Size(text) \in Nat
  <2>1. \A m \in 2 .. 255 : (m \div 2 - 1) % 256 = m \div 2 - 1 /\ m \div 2 - 1 \in Nat OBVIOUS
  <2>2. Size(text) = (Len(text) \div 2 - 1) % 256 BY DEF Size, Byte8
  <2> QED BY <1>1, <2>1, <2>2
<1>3. \A i \in 1 .. Size(text) :
        /\ 2 * i + 1 \in 3 .. Len(text) /\ 2 * i + 2 \in 3 .. Len(text)
        /\ HexCharToInt(text[2 * i + 1]) \in 0 .. 15
        /\ HexCharToInt(text[2 * i + 2]) \in 0 .. 15
  <2> TAKE i \in 1 .. Size(text)
  <2>1. 2 * i + 1 \in 3 .. Len(text) /\ 2 * i + 2 \in 3 .. Len(text) BY <1>1, <1>2
  <2> QED BY <2>1, Digits DEF Text
<1>4. TextBytes(text) \in [1 .. Size(text) -> 0 .. 255]
  <2>1. \A h, l \in 0 .. 15 : 16 * h + l \in 0 .. 255 OBVIOUS
  <2> QED BY <1>3, <2>1 DEF TextBytes
<1>5. Len(TextBytes(text)) = Size(text) BY <1>2, <1>4
<1> QED BY <1>2, <1>3, <1>4, <1>5

\* Byte n of a pattern is compared by the device iff the user's mask selects it.
LEMMA MaskSelects ==
  ASSUME NEW e, Text(e.mask, 16), ~MaskInvalid(e.mask), NEW n \in Nat
  PROVE  Selected(e, n) <=>
           /\ n \div 8 < Len(MaskBytes(e.mask))
           /\ Bit(MaskBytes(e.mask)[n \div 8 + 1], n % 8) = 1
<1> DEFINE t == e.mask
           b == TextBytes(t)
           q == n \div 8
           j == n % 8
<1>1. Len(t) \in 2 .. 15 /\ Len(t) % 2 = 0
  <2>1. Len(t) \in 2 .. 16 - 1 /\ Len(t) % 2 = 0 BY DEF Text, MaskInvalid
  <2>2. \A m \in 2 .. 16 - 1 : m \in 2 .. 15 OBVIOUS
  <2> QED BY <2>1, <2>2
<1>2. /\ Size(t) = Len(t) \div 2 - 1 /\ b \in [1 .. Size(t) -> 0 .. 255] /\ Size(t) \in Nat
      /\ \A i \in 1 .. Size(t) :
              /\ HexCharToInt(t[2 * i + 1]) \in 0 .. 15
              /\ HexCharToInt(t[2 * i + 2]) \in 0 .. 15
  <2>1. 16 \in 3 .. 256 OBVIOUS
  <2> QED BY <2>1, Bytes
<1>3. MaskBytes(t) = [i \in 1 .. Size(t) |-> ReverseBits(b[i])] BY <1>2 DEF MaskBytes
<1>4. Len(MaskBytes(t)) = Size(t) BY <1>2, <1>3
<1>5. q \in Nat /\ j \in 0 .. 7 /\ n = 8 * q + j OBVIOUS
<1>6. n \div 4 = (IF j < 4 THEN 2 * q ELSE 2 * q + 1) /\ n % 4 = (IF j < 4 THEN j ELSE j - 4)
  BY <1>5
<1>7. 3 + n \div 4 <= Len(t) <=> q < Size(t)
  <2>1. \A m \in 2 .. 15, r \in Nat : m % 2 = 0 =>
          /\ 3 + 2 * r <= m <=> r < m \div 2 - 1
          /\ 3 + 2 * r + 1 <= m <=> r < m \div 2 - 1
    OBVIOUS
  <2> HIDE DEF t, q
  <2> QED BY <1>1, <1>2, <1>5, <1>6, <2>1
<1>8. ASSUME q < Size(t)
      PROVE  Bit(MaskBytes(t)[q + 1], j) = Bit(HexCharToInt(t[3 + n \div 4]), 3 - (n % 4))
  <2>1. q + 1 \in 1 .. Size(t)
    <3> HIDE DEF t, q
    <3> QED BY <1>2, <1>5, <1>8
  <2>2. PICK h \in 0 .. 15, l \in 0 .. 15 :
          h = HexCharToInt(t[2 * q + 3]) /\ l = HexCharToInt(t[2 * q + 4])
    <3>1. 2 * (q + 1) + 1 = 2 * q + 3 /\ 2 * (q + 1) + 2 = 2 * q + 4 BY <1>5
    <3> QED BY <1>2, <2>1, <3>1
  <2>3. b[q + 1] = 16 * h + l /\ b[q + 1] \in 0 .. 255
    <3>1. 2 * (q + 1) + 1 = 2 * q + 3 /\ 2 * (q + 1) + 2 = 2 * q + 4 BY <1>5
    <3>2. b[q + 1] = 16 * HexCharToInt(t[2 * (q + 1) + 1]) + HexCharToInt(t[2 * (q + 1) + 2])
      BY <2>1 DEF TextBytes
    <3> QED BY <1>2, <2>1, <2>2, <3>1, <3>2
  <2>4. MaskBytes(t)[q + 1] = ReverseBits(b[q + 1]) BY <1>3, <2>1
  <2>5. Bit(MaskBytes(t)[q + 1], j) = Bit(16 * h + l, 7 - j)
    <3> HIDE DEF b, j, q
    <3> QED BY <1>5, <2>3, <2>4, Reversed
  <2>6. CASE j < 4
    <3>1. 3 + n \div 4 = 2 * q + 3 /\ n % 4 = j BY <1>5, <1>6, <2>6
    <3>2. Bit(16 * h + l, 7 - j) = Bit(h, 3 - j)
      <4> HIDE DEF j
      <4> QED BY <1>5, <2>6, Nibbles
    <3> HIDE DEF j, q
    <3> QED BY <2>2, <2>5, <3>1, <3>2
  <2>7. CASE j >= 4
    <3>1. 3 + n \div 4 = 2 * q + 4 /\ n % 4 = j - 4 BY <1>5, <1>6, <2>7
    <3>2. Bit(16 * h + l, 7 - j) = Bit(l, 3 - (j - 4))
      <4> HIDE DEF j
      <4> QED BY <1>5, <2>7, Nibbles
    <3> HIDE DEF j, q
    <3> QED BY <2>2, <2>5, <3>1, <3>2
  <2> QED BY <1>5, <2>6, <2>7
<1> QED BY <1>4, <1>7, <1>8 DEF Selected

\* The device wakes the host with exactly the frames that the user's text describes.
LEMMA MatchesAgree ==
  ASSUME NEW e, Text(e.pattern, 128), Text(e.mask, 16), ~MaskInvalid(e.mask),
         e.offset \in Nat, NEW frame \in Seq(0 .. 255)
  PROVE  DeviceMatches(Converted(e), frame) <=> UserMatches(e, frame)
<1> DEFINE t == e.pattern
           p == Converted(e)
<1>1. /\ Size(t) = Len(t) \div 2 - 1 /\ Size(t) \in Nat /\ Len(TextBytes(t)) = Size(t)
      /\ \A i \in 1 .. Size(t) :
              /\ HexCharToInt(t[2 * i + 1]) \in 0 .. 15
              /\ HexCharToInt(t[2 * i + 2]) \in 0 .. 15
  <2>1. 128 \in 3 .. 256 OBVIOUS
  <2> QED BY <2>1, Bytes, ZenonT(40)
<1>2. p.offset = e.offset /\ p.pattern = TextBytes(t) /\ p.mask = MaskBytes(e.mask)
  BY DEF Converted
<1>3. Len(t) \in 2 .. 127 BY DEF Text
<1>4. (Len(t) - 2) \div 2 - 1 = Size(t) - 1
  <2>1. \A m \in 2 .. 127 : (m - 2) \div 2 - 1 = m \div 2 - 1 - 1 OBVIOUS
  <2> QED BY <1>1, <1>3, <2>1
<1>frame. Len(frame) \in Nat /\ \A i \in 1 .. Len(frame) : frame[i] \in 0 .. 255
  BY LenProperties, ElementOfSeq
<1>5. ASSUME NEW n \in 0 .. Size(t) - 1, e.offset + n < Len(frame)
      PROVE  frame[e.offset + n + 1] = TextBytes(t)[n + 1] <=>
               /\ frame[e.offset + n + 1] \div 16 = HexCharToInt(t[2 * n + 3])
               /\ frame[e.offset + n + 1] % 16 = HexCharToInt(t[2 * n + 4])
  <2>1. e.offset + n + 1 \in 1 .. Len(frame) /\ n + 1 \in 1 .. Size(t)
    <3>1. \A o, l, s \in Nat : \A k \in 0 .. s - 1 :
            o + k < l => o + k + 1 \in 1 .. l /\ k + 1 \in 1 .. s
      OBVIOUS
    <3> HIDE DEF t
    <3> QED BY <1>1, <1>5, <1>frame, <3>1
  <2>2. frame[e.offset + n + 1] \in 0 .. 255 BY <1>frame, <2>1
  <2>3. 2 * (n + 1) + 1 = 2 * n + 3 /\ 2 * (n + 1) + 2 = 2 * n + 4 BY <1>1
  <2>4. TextBytes(t)[n + 1] =
          16 * HexCharToInt(t[2 * n + 3]) + HexCharToInt(t[2 * n + 4])
    BY <2>1, <2>3 DEF TextBytes
  <2>5. HexCharToInt(t[2 * n + 3]) \in 0 .. 15 /\ HexCharToInt(t[2 * n + 4]) \in 0 .. 15
    BY <1>1, <2>1, <2>3
  <2>6. \A b \in 0 .. 255, h \in 0 .. 15, l \in 0 .. 15 :
          b = 16 * h + l <=> b \div 16 = h /\ b % 16 = l
    OBVIOUS
  <2> DEFINE b == frame[e.offset + n + 1]
             h == HexCharToInt(t[2 * n + 3])
             l == HexCharToInt(t[2 * n + 4])
             c == TextBytes(t)[n + 1]
  <2>7. b \in 0 .. 255 /\ h \in 0 .. 15 /\ l \in 0 .. 15 /\ c = 16 * h + l
    BY <2>2, <2>4, <2>5
  <2> HIDE DEF b, h, l, c
  <2>8. b = c <=> b \div 16 = h /\ b % 16 = l BY <2>6, <2>7
  <2> QED BY <2>8 DEF b, h, l, c
<1>6. \A n \in 0 .. Size(t) - 1 :
        Selected(e, n) <=> /\ n \div 8 < Len(p.mask)
                           /\ Bit(p.mask[n \div 8 + 1], n % 8) = 1
  BY <1>1, <1>2, MaskSelects
<1> HIDE DEF p, t
<1>7. DeviceMatches(p, frame) <=>
        \A n \in 0 .. Size(t) - 1 : Selected(e, n) =>
          e.offset + n < Len(frame) /\ frame[e.offset + n + 1] = TextBytes(t)[n + 1]
  <2>1. DeviceMatches(p, frame) <=>
          \A n \in 0 .. Size(t) - 1 :
            /\ n \div 8 < Len(p.mask)
            /\ Bit(p.mask[n \div 8 + 1], n % 8) = 1
            => e.offset + n < Len(frame) /\ frame[e.offset + n + 1] = TextBytes(t)[n + 1]
    <3>1. Len(p.pattern) - 1 = Size(t) - 1 BY <1>1, <1>2
    <3>2. /\ \A n : p.offset + n = e.offset + n /\ p.pattern[n + 1] = TextBytes(t)[n + 1]
      BY <1>2
    <3> DEFINE Sel(n) == n \div 8 < Len(p.mask) /\ Bit(p.mask[n \div 8 + 1], n % 8) = 1
               Eq(n)  == p.offset + n < Len(frame)
                           /\ frame[p.offset + n + 1] = p.pattern[n + 1]
    <3>3. DeviceMatches(p, frame) <=>
            \A n \in 0 .. Len(p.pattern) - 1 : Sel(n) => Eq(n)
      BY Zenon DEF DeviceMatches
    <3>4. \A n : Eq(n) <=> e.offset + n < Len(frame)
                             /\ frame[e.offset + n + 1] = TextBytes(t)[n + 1]
      BY <3>2
    <3> HIDE DEF Eq
    <3>5. DeviceMatches(p, frame) <=> \A n \in 0 .. Size(t) - 1 : Sel(n) => Eq(n)
      BY <3>1, <3>3, Zenon
    <3> QED BY <3>4, <3>5, Zenon
  <2> QED BY <1>6, <2>1
<1>8. UserMatches(e, frame) <=>
        \A n \in 0 .. Size(t) - 1 : Selected(e, n) =>
          e.offset + n < Len(frame) /\ frame[e.offset + n + 1] = TextBytes(t)[n + 1]
  BY <1>4, <1>5 DEF UserMatches, t
<1> QED BY <1>7, <1>8, SMTT(40) DEF p, t

-----------------------------------------------------------------------------
(* The patterns on the device                                              *)

Valid(e) == ~MaskInvalid(e.mask)

\* A pattern is on the device only while the wake-up that deletes it is yet to come.
PatternFaults == {"wowlDelete", "reinit"}

PatternWays ==
  PatternFaults \cap faults = {} =>
    /\ InSleep("wowl") => Supported("wowl")
    /\ At("lpa", "sleep", "wowl", "set") => pc["lpa"].k >= 1
    /\ \A p \in wowl.patterns :
         /\ Supported("wowl")
         /\ \E i \in DOMAIN Entries :
              /\ Valid(Entries[i]) /\ p = Converted(Entries[i])
              /\ \/ Past(cfg.list, pc["lpa"], "wowl", {"set", "undo"}, {"start"})
                 \/ At("lpa", "awake", "wowl", "delete") /\ i >= pc["lpa"].k

\* The entries are numbered from 1.
LEMMA EntryFacts ==
  ASSUME cfg \in Configs
  PROVE  /\ Len(Entries) \in Nat /\ DOMAIN Entries = 1 .. Len(Entries)
         /\ \A i \in DOMAIN Entries :
              /\ Text(Entries[i].pattern, 128) /\ Text(Entries[i].mask, 16)
              /\ Entries[i].offset \in Nat
<1> DEFINE E == [pattern : Seq(0 .. 127), mask : Seq(0 .. 127), offset : Nat]
<1>1. /\ Entries \in Seq(E)
      /\ \A i \in DOMAIN Entries : Text(Entries[i].pattern, 128) /\ Text(Entries[i].mask, 16)
  BY WowlAssumption DEF Entries
<1>2. \A x \in E : x.offset \in Nat OBVIOUS
<1> HIDE DEF E
<1>3. Len(Entries) \in Nat /\ DOMAIN Entries = 1 .. Len(Entries) BY <1>1, LenProperties
<1>4. \A i \in DOMAIN Entries : Entries[i] \in E BY <1>1, <1>3, ElementOfSeq
<1> QED BY <1>1, <1>2, <1>3, <1>4

\* The others leave the patterns alone, and all of it when there is no TLS offload.
LEMMA OthersLeaveWowl ==
  ASSUME PcInv, Ranges, WowlShape, [Next]_system, ~WowlStep
  PROVE  /\ WowlShape' /\ wowl'.patterns = wowl.patterns
         /\ "wowl" \in Range(cfg.list) => wowl'.caps = wowl.caps /\ wowl'.armed = wowl.armed
<1>same. UNCHANGED wowl => /\ WowlShape' /\ wowl'.patterns = wowl.patterns
                           /\ wowl'.caps = wowl.caps /\ wowl'.armed = wowl.armed
  BY WowlWrites
<1>list. ASSUME NEW at, NEW part, LpaAt(at, part) PROVE "wowl" \notin Range(cfg.list)
  <2>1. pc["lpa"] \in Place /\ cfg \in Configs BY DEF PcInv, PcType, Threads
  <2>2. pc["lpa"].i \in DOMAIN cfg.list
    BY <1>list, <2>1, ListFacts DEF Ranges, Threads, LpaAt, At, Place
  <2>3. "tls" \in Range(cfg.list) BY <1>list, <2>2 DEF Range, LpaAt, At
  <2> QED BY <2>1, <2>3, WowlAssumption
<1>1. CASE TlsStep
  <2>1. CASE TlsPattern
    <3>1. LpaAt("sleep", "pattern") /\ \E capsSet, added \in BOOLEAN :
            wowl' = [wowl EXCEPT
              !.caps = IF capsSet /\ wowl.caps \cap SecureCaps # SecureCaps
                       THEN SecureCaps ELSE @,
              !.secure = IF mqtt.pattern THEN PatternAfter(TRUE, added) ELSE @]
      BY <2>1 DEF TlsPattern
    <3>2. \E c : \E s \in BOOLEAN : wowl' = [wowl EXCEPT !.caps = c, !.secure = s]
      <4>1. PICK capsSet, added \in BOOLEAN :
              wowl' = [wowl EXCEPT
                !.caps = IF capsSet /\ wowl.caps \cap SecureCaps # SecureCaps
                         THEN SecureCaps ELSE @,
                !.secure = IF mqtt.pattern THEN PatternAfter(TRUE, added) ELSE @]
        BY <3>1
      <4> DEFINE c == IF capsSet /\ wowl.caps \cap SecureCaps # SecureCaps
                      THEN SecureCaps ELSE wowl.caps
                 s == IF mqtt.pattern THEN PatternAfter(TRUE, added) ELSE wowl.secure
      <4>2. wowl' = [wowl EXCEPT !.caps = c, !.secure = s] BY <4>1
      <4>3. s \in BOOLEAN BY DEF WowlShape, PatternAfter
      <4> HIDE DEF c, s
      <4> QED BY <4>2, <4>3
    <3>3. WowlShape' /\ wowl'.patterns = wowl.patterns BY <3>2, WowlWrites
    <3> QED BY <1>list, <3>1, <3>3, SMTT(40)
  <2>2. CASE TlsCleanUp \/ TlsWake
    <3>1. UNCHANGED wowl \/ \E ok \in BOOLEAN : DeletePattern(ok)
      BY <2>2 DEF TlsCleanUp, TlsWake
    <3>2. ASSUME NEW ok \in BOOLEAN, DeletePattern(ok)
          PROVE  \E s \in BOOLEAN : wowl' = [wowl EXCEPT !.secure = s]
      BY <3>2 DEF DeletePattern, PatternAfter, WowlShape
    <3> QED BY <1>same, <3>1, <3>2, WowlWrites
  <2>3. CASE TlsClear
    <3>1. LpaAt("awake", "clear") /\ (WowlClear \/ UNCHANGED wowl)
      BY <2>3 DEF TlsClear, TlsCommand
    <3> QED BY <1>list, <1>same, <3>1, WowlWrites DEF WowlClear
  <2>4. CASE ~(TlsPattern \/ TlsCleanUp \/ TlsWake \/ TlsClear)
    <3>1. UNCHANGED wowl
      BY <1>1, <2>4
      DEF TlsStep, TlsInit, TlsDeinit, TlsSleep, TlsActivate, TlsProtect, TlsRegister,
          TlsRestore, TlsRelease, TlsDeregister, DeviceSends, WakeEvent, TlsHandler,
          ConfigClear, SetPorts, ConfigCopy, ConfigSocket, SetAddress
    <3> QED BY <1>same, <3>1
  <2> QED BY <2>1, <2>2, <2>3, <2>4
<1>2. CASE ~TlsStep
  <2>1. UNCHANGED wowl BY <1>2, OthersLeaveDevice
  <2> QED BY <1>same, <2>1
<1> QED BY <1>1, <1>2

\* What that says of the dispatching thread inside the offload.
LEMMA PatternsHere ==
  ASSUME PcInv, Ranges, PatternWays, PatternFaults \cap faults = {},
         NEW at \in {"sleep", "awake"}, NEW part, WowlAt(at, part)
  PROVE  /\ at = "sleep" /\ part # "start" => Supported("wowl")
         /\ at = "sleep" /\ part = "set" => pc["lpa"].k >= 1
         /\ \A p \in wowl.patterns :
              /\ Supported("wowl")
              /\ \E i \in DOMAIN Entries :
                   /\ Valid(Entries[i]) /\ p = Converted(Entries[i])
                   /\ IF at = "sleep" THEN part \in {"set", "undo"}
                      ELSE part = "start" \/ (part = "delete" /\ i >= pc["lpa"].k)
<1>1. pc["lpa"] \in Place /\ cfg \in Configs BY DEF PcInv, PcType, Threads
<1>2. pc["lpa"].i \in DOMAIN cfg.list
  BY <1>1, ListFacts DEF Ranges, Threads, WowlAt, At, Place
<1>3. \A down, up : Past(cfg.list, pc["lpa"], "wowl", down, up)
                      <=> (IF at = "sleep" THEN part \in down ELSE part \in up)
  BY <1>1, <1>2, PastHere DEF WowlAt, At
<1>4. at = "sleep" /\ part # "start" => InSleep("wowl")
  BY DEF InSleep, Inside, WowlAt, At, Walking
<1>5. /\ at = "sleep" /\ part = "set" => At("lpa", "sleep", "wowl", "set")
      /\ At("lpa", "awake", "wowl", "delete") => at = "awake" /\ part = "delete"
  BY DEF WowlAt, At
<1> QED BY <1>3, <1>4, <1>5 DEF PatternWays

\* The dispatching thread goes on inside it.
LEMMA PatternsGoTo ==
  ASSUME PcInv, Ranges, UNCHANGED <<cfg, ctx>>,
         NEW at \in {"sleep", "awake"}, NEW part, WowlAt(at, part),
         NEW p \in Parts \ {"start"}, NEW k \in Nat,
         Count("lpa", p, k) \/ (Goto("lpa", p) /\ p \notin {"set", "delete"}),
         at = "sleep" => Supported("wowl") /\ (p = "set" => k >= 1),
         \A q \in wowl'.patterns :
           /\ Supported("wowl")
           /\ \E i \in DOMAIN Entries :
                /\ Valid(Entries[i]) /\ q = Converted(Entries[i])
                /\ IF at = "sleep" THEN p \in {"set", "undo"} ELSE p = "delete" /\ i >= k
  PROVE  PatternWays'
<1>1. /\ At("lpa", at, "wowl", p)'
      /\ \A down, up : Past(cfg'.list, pc'["lpa"], "wowl", down, up)
                         <=> (IF at = "sleep" THEN p \in down ELSE p \in up)
  BY LpaGoesTo DEF WowlAt
<1>2. p \in {"set", "delete"} => pc'["lpa"].k = k
  BY DEF Count, PcInv, PcType, Threads, Place
<1>3. (InSleep("wowl")' => at = "sleep") /\ (At("lpa", "sleep", "wowl", "set")' => at = "sleep" /\ p = "set")
  BY <1>1 DEF InSleep, At
<1>4. Supported("wowl")' = Supported("wowl") /\ Entries' = Entries BY DEF Supported, Entries
<1> QED BY <1>1, <1>2, <1>3, <1>4 DEF PatternWays

\* It goes on to the next offload.
LEMMA PatternsGoOn ==
  ASSUME PcInv, Ranges, UNCHANGED <<cfg, ctx>>,
         NEW at \in {"sleep", "awake"}, NEW part, WowlAt(at, part), NextOffload("lpa"),
         \A q \in wowl'.patterns :
           /\ Supported("wowl") /\ at = "sleep"
           /\ \E i \in DOMAIN Entries : Valid(Entries[i]) /\ q = Converted(Entries[i])
  PROVE  PatternWays'
<1>1. /\ pc'["lpa"].part = "start"
      /\ \A down, up : Past(cfg'.list, pc'["lpa"], "wowl", down, up) <=> at = "sleep"
  BY LpaGoesOn DEF WowlAt
<1>2. ~InSleep("wowl")' /\ ~At("lpa", "sleep", "wowl", "set")' BY <1>1 DEF InSleep, Inside, At
<1>3. Supported("wowl")' = Supported("wowl") /\ Entries' = Entries BY DEF Supported, Entries
<1> QED BY <1>1, <1>2, <1>3 DEF PatternWays

\* Every step keeps to it.
LEMMA PatternsKeep ==
  ASSUME PcInv, Ranges, WowlShape, PatternWays, [Next]_system,
         PatternFaults \cap faults = {}, PatternFaults \cap faults' = {}
  PROVE  PatternWays'
<1>no. "wowlDelete" \notin faults' /\ "reinit" \notin faults' BY DEF PatternFaults
<1>entries. /\ Len(Entries) \in Nat /\ DOMAIN Entries = 1 .. Len(Entries)
            /\ pc["lpa"].k \in Nat
  BY EntryFacts DEF PcInv, PcType, Threads, Place
<1>stay. ASSUME pc'["lpa"] = pc["lpa"], UNCHANGED cfg, Supported("wowl") => Supported("wowl")',
                wowl'.patterns = wowl.patterns
         PROVE  PatternWays'
  BY <1>stay DEF PatternWays, InSleep, Inside, At, Entries
<1>same. UNCHANGED wowl => wowl'.patterns = wowl.patterns OBVIOUS
<1>1. CASE WowlInit
  <2>1. pc'["lpa"] = pc["lpa"] /\ UNCHANGED <<cfg, wowl>> BY <1>1, NetGoesOn DEF WowlInit
  <2>2. Supported("wowl") => Supported("wowl")' BY <1>1 DEF WowlInit, HasContext, Supported
  <2> QED BY <1>stay, <1>same, <2>1, <2>2
<1>2. CASE InitClear("wowl") /\ UNCHANGED <<tcp, tko, tls, nat, ns>>
  <2>1. ~Suspended BY <1>2, <1>no DEF InitClear, Note
  <2>2. UNCHANGED <<cfg, wowl>> /\ At("net", "init", "wowl", "start") /\ Goto("net", "fill")
    BY <1>2 DEF InitClear
  <2>3. pc'["lpa"] = pc["lpa"] BY <2>2, NetGoesTo DEF Parts
  <2>4. ~At("lpa", "awake", "wowl", "delete") BY <2>1 DEF At, Suspended
  <2>5. wowl.patterns = {} BY <2>1, <2>4, NotPast DEF PatternWays
  <2>6. ~InSleep("wowl")' /\ ~At("lpa", "sleep", "wowl", "set")'
    BY <2>1, <2>3 DEF InSleep, Suspended, At
  <2> QED BY <2>2, <2>5, <2>6 DEF PatternWays
<1>3. CASE WowlDeinit
  <2>1. pc'["lpa"] = pc["lpa"] /\ UNCHANGED <<cfg, ctx>> BY <1>3, NetGoesOn DEF WowlDeinit, WowlVars
  <2>2. wowl'.patterns = wowl.patterns
    <3>1. WowlClear \/ UNCHANGED wowl BY <1>3 DEF WowlDeinit
    <3> QED BY <3>1, WowlWrites DEF WowlClear
  <2> QED BY <1>stay, <2>1, <2>2 DEF Supported
<1>4. CASE WowlConfigure
  <2>1. WowlAt("sleep", "start") /\ UNCHANGED <<cfg, ctx>> BY <1>4 DEF WowlConfigure, WowlVars
  <2>2. wowl.patterns = {} BY <2>1, PatternsHere
  <2>3. wowl'.patterns = {} BY <1>4, <2>2, WowlWrites DEF WowlConfigure
  <2>4. CASE NextOffload("lpa") BY <2>1, <2>3, <2>4, PatternsGoOn
  <2>5. CASE Supported("wowl") /\ Count("lpa", "set", 1)
    <3>1. 1 \in Nat /\ 1 >= 1 OBVIOUS
    <3> QED BY <2>1, <2>3, <2>5, <3>1, PatternsGoTo DEF Parts
  <2> QED BY <1>4, <2>4, <2>5 DEF WowlConfigure
<1>5. CASE WowlSet
  <2> DEFINE k == pc["lpa"].k
  <2>1. /\ WowlAt("sleep", "set") /\ UNCHANGED <<cfg, ctx>> /\ k <= Len(Entries)
        /\ Count("lpa", "set", k + 1)
    BY <1>5 DEF WowlSet, WowlVars
  <2>2. Supported("wowl") /\ k >= 1
    <3>1. "set" # "start" OBVIOUS
    <3> QED BY <2>1, <3>1, PatternsHere
  <2>3. wowl'.patterns \subseteq
          wowl.patterns \cup (IF Valid(Entries[k]) THEN {Converted(Entries[k])} ELSE {})
    <3>1. PICK ok \in BOOLEAN :
            wowl' = [wowl EXCEPT
              !.caps = IF "NET" \in @ THEN @ ELSE {"NET"},
              !.patterns = IF ok /\ ~MaskInvalid(Entries[k].mask)
                           THEN @ \cup {Converted(Entries[k])} ELSE @]
      BY <1>5 DEF WowlSet
    <3> DEFINE c == IF "NET" \in wowl.caps THEN wowl.caps ELSE {"NET"}
               p == IF ok /\ ~MaskInvalid(Entries[k].mask)
                    THEN wowl.patterns \cup {Converted(Entries[k])} ELSE wowl.patterns
    <3>2. wowl' = [wowl EXCEPT !.caps = c, !.patterns = p] BY <3>1
    <3>3. p \subseteq wowl.patterns \cup (IF Valid(Entries[k]) THEN {Converted(Entries[k])} ELSE {})
      BY DEF Valid
    <3> HIDE DEF c, p
    <3>4. wowl'.patterns = p BY <3>2, WowlWrites
    <3> QED BY <3>3, <3>4
  <2>4. k \in DOMAIN Entries /\ k + 1 \in Nat /\ k + 1 >= 1 BY <1>entries, <2>1, <2>2
  <2>5. \A q \in wowl'.patterns : \E i \in DOMAIN Entries :
          Valid(Entries[i]) /\ q = Converted(Entries[i])
    BY <2>1, <2>3, <2>4, PatternsHere
  <2> HIDE DEF k
  <2> QED BY <2>1, <2>2, <2>4, <2>5, PatternsGoTo DEF Parts
<1>6. CASE WowlActivate
  <2>1. /\ WowlAt("sleep", "set") /\ UNCHANGED <<cfg, ctx>>
        /\ NextOffload("lpa") \/ Goto("lpa", "undo")
    BY <1>6 DEF WowlActivate, WowlVars
  <2>2. wowl'.patterns = wowl.patterns BY <1>6, WowlWrites DEF WowlActivate
  <2>3. Supported("wowl") /\ \A q \in wowl.patterns : \E i \in DOMAIN Entries :
          Valid(Entries[i]) /\ q = Converted(Entries[i])
    <3>1. "set" # "start" OBVIOUS
    <3> QED BY <2>1, <3>1, PatternsHere
  <2>4. 0 \in Nat OBVIOUS
  <2>5. CASE NextOffload("lpa") BY <2>1, <2>2, <2>3, <2>5, PatternsGoOn
  <2>6. CASE Goto("lpa", "undo") BY <2>1, <2>2, <2>3, <2>4, <2>6, PatternsGoTo DEF Parts
  <2> QED BY <2>1, <2>5, <2>6
<1>7. CASE WowlUndo
  <2>1. WowlAt("sleep", "undo") /\ UNCHANGED <<cfg, ctx, wowl>> /\ NextOffload("lpa")
    BY <1>7 DEF WowlUndo, WowlVars
  <2>2. \A q \in wowl.patterns : Supported("wowl") /\ \E i \in DOMAIN Entries :
          Valid(Entries[i]) /\ q = Converted(Entries[i])
    BY <2>1, PatternsHere
  <2> QED BY <2>1, <2>2, PatternsGoOn
<1>8. CASE WowlWake
  <2>1. WowlAt("awake", "start") /\ UNCHANGED <<cfg, ctx>> BY <1>8 DEF WowlWake, WowlVars
  <2>2. \A q \in wowl.patterns : Supported("wowl") /\ \E i \in DOMAIN Entries :
          Valid(Entries[i]) /\ q = Converted(Entries[i])
    BY <2>1, PatternsHere
  <2>3. wowl'.patterns = wowl.patterns BY <1>8, WowlWrites DEF WowlWake
  <2>4. CASE ~Supported("wowl") /\ NextOffload("lpa") BY <2>1, <2>2, <2>3, <2>4, PatternsGoOn
  <2>5. CASE Count("lpa", "delete", 1)
    <3>1. 1 \in Nat /\ \A i \in DOMAIN Entries : i >= 1 BY <1>entries
    <3> QED BY <2>1, <2>2, <2>3, <2>5, <3>1, PatternsGoTo DEF Parts
  <2> QED BY <1>8, <2>4, <2>5 DEF WowlWake
<1>9. CASE WowlDelete
  <2> DEFINE k == pc["lpa"].k
  <2>1. WowlAt("awake", "delete") /\ UNCHANGED <<cfg, ctx>> /\ Count("lpa", "delete", k + 1)
    BY <1>9 DEF WowlDelete, WowlVars
  <2>2. \A q \in wowl.patterns : Supported("wowl") /\ \E i \in DOMAIN Entries :
          Valid(Entries[i]) /\ q = Converted(Entries[i]) /\ i >= k
    BY <2>1, PatternsHere
  <2>3. wowl'.patterns = IF Valid(Entries[k]) THEN wowl.patterns \ {Converted(Entries[k])}
                                              ELSE wowl.patterns
    <3>1. wowl' = [wowl EXCEPT !.patterns = IF Valid(Entries[k]) THEN @ \ {Converted(Entries[k])}
                                                                  ELSE @]
      BY <1>9, <1>no DEF WowlDelete, Command, Faulty, Valid
    <3> QED BY <3>1, WowlWrites
  <2>4. k + 1 \in Nat /\ \A i \in DOMAIN Entries : i >= k => i = k \/ i >= k + 1
    BY <1>entries
  <2>5. \A q \in wowl'.patterns : Supported("wowl") /\ \E i \in DOMAIN Entries :
          Valid(Entries[i]) /\ q = Converted(Entries[i]) /\ i >= k + 1
    BY <2>2, <2>3, <2>4
  <2> HIDE DEF k
  <2> QED BY <2>1, <2>4, <2>5, PatternsGoTo DEF Parts
<1>10. CASE WowlDone
  <2>1. /\ WowlAt("awake", "delete") /\ UNCHANGED <<cfg, ctx>> /\ NextOffload("lpa")
        /\ pc["lpa"].k > Len(Entries)
    BY <1>10 DEF WowlDone, WowlVars
  <2>2. wowl.patterns = {} BY <1>entries, <2>1, PatternsHere
  <2>3. wowl'.patterns = wowl.patterns BY <1>10, WowlWrites DEF WowlDone, WowlClear
  <2> QED BY <2>1, <2>2, <2>3, PatternsGoOn
<1>11. CASE ~Own("wowl")
  <2>1. Apart("wowl") BY <1>11, StepPlaces DEF Offloads
  <2>2. wowl'.patterns = wowl.patterns BY <1>11, OthersLeaveWowl DEF Own
  <2>3. Past(cfg'.list, pc'["lpa"], "wowl", {"set", "undo"}, {"start"})
          <=> Past(cfg.list, pc["lpa"], "wowl", {"set", "undo"}, {"start"})
    BY <2>1 DEF Apart
  <2>4. ASSUME Inside("lpa", "wowl") \/ Inside("lpa", "wowl")' PROVE pc'["lpa"] = pc["lpa"]
    BY <2>1, <2>4 DEF Apart, Threads
  <2>5. InSleep("wowl")' => InSleep("wowl") BY <2>1, <2>4 DEF InSleep, Inside, Apart
  <2>6. At("lpa", "sleep", "wowl", "set")' =>
          At("lpa", "sleep", "wowl", "set") /\ pc'["lpa"] = pc["lpa"]
    <3>1. At("lpa", "sleep", "wowl", "set")' => Inside("lpa", "wowl")' BY DEF Inside, At, Walking
    <3> QED BY <2>1, <2>4, <3>1 DEF At, Apart
  <2>7. At("lpa", "awake", "wowl", "delete") =>
          At("lpa", "awake", "wowl", "delete")' /\ pc'["lpa"] = pc["lpa"]
    <3>1. At("lpa", "awake", "wowl", "delete") => Inside("lpa", "wowl") BY DEF Inside, At, Walking
    <3> QED BY <2>1, <2>4, <3>1 DEF At, Apart
  <2>8. Supported("wowl")' <=> Supported("wowl") BY <2>1 DEF Apart, Supported
  <2>9. Entries' = Entries BY <2>1 DEF Apart, Entries
  <2> QED BY <2>2, <2>3, <2>5, <2>6, <2>7, <2>8, <2>9 DEF PatternWays
<1> QED BY <1>1, <1>2, <1>3, <1>4, <1>5, <1>6, <1>7, <1>8, <1>9, <1>10, <1>11
    DEF Own, WowlStep

\* The entries before index k that are sent.
Sent(k) == { Converted(Entries[i]) : i \in { j \in DOMAIN Entries : j < k /\ Valid(Entries[j]) } }

\* When nothing has failed, the device of a connected host gets the configuration
\* while the host goes to sleep and keeps it until it wakes up.
CapsWays ==
  faults = {} /\ pc["net"].at = "up" /\ Supported("wowl") =>
    /\ At("lpa", "sleep", "wowl", "set") =>
         wowl.caps = ConfiguredCaps /\ wowl.patterns = Sent(pc["lpa"].k)
    /\ Past(cfg.list, pc["lpa"], "wowl", {}, {"start"}) =>
         /\ wowl.caps = ConfiguredCaps /\ wowl.armed
         /\ wowl.patterns = Sent(Len(Entries) + 1)

\* The list is initialised at the end of the loop, and if the host slept meanwhile
\* this is noted.
LEMMA NetBecomesUp ==
  ASSUME PcInv, Ranges, [Next]_system, faults' = {}, pc'["net"].at = "up"
  PROVE  \/ pc["net"].at = "up"
         \/ ~Suspended /\ pc'["lpa"] = pc["lpa"]
<1>moves. ASSUME NEW p, Moves(p) PROVE pc["net"].at = "up"
  BY <1>moves DEF Moves, Moved, Threads
<1>type. PcType /\ LpaParts BY DEF PcInv
<1>lpa. ASSUME NEW part \in Parts, NEW at \in Phases, Goto("lpa", part) \/ Phase("lpa", at)
        PROVE  pc'["net"] = pc["net"]
  BY <1>lpa, <1>type DEF Goto, Phase, Walk, PcType, Threads
<1>1. CASE ManagerStep
  <2>1. CASE LoopDone
    <3>1. pc["net"].at = "init" \/ pc'["net"].at \in {"failed", "down"}
      BY <2>1, <1>type DEF LoopDone, LoopEnd, Phase, Walk, PcType, Threads
    <3>2. pc["net"].at = "init" => ~Suspended BY <2>1 DEF LoopDone, Note
    <3>3. pc'["lpa"] = pc["lpa"] BY <2>1, <1>type DEF LoopDone, Phase, Walk, PcType, Threads
    <3> QED BY <3>1, <3>2, <3>3
  <2>2. CASE Connect \/ Disconnect
    BY <2>2, <1>type DEF Connect, Disconnect, Phase, Walk, PcType, Threads
  <2>3. CASE Inactive \/ SleepDone \/ WakeUp \/ AwakeDone
    <3>1. \E at \in Phases : Phase("lpa", at)
      BY <2>3 DEF Inactive, SleepDone, WakeUp, AwakeDone, Phases
    <3>2. pc'["net"] = pc["net"]
      BY <3>1, <1>type DEF Phase, Walk, PcType, Threads
    <3> QED BY <3>2
  <2> QED BY <1>1, <2>1, <2>2, <2>3 DEF ManagerStep
<1>2. CASE StackStep
  BY <1>2, <1>lpa
  DEF StackStep, LwipSuspend, LwipResume, NetxSuspendIp, NetxStopTimers, NetxSuspendDhcp,
      NetxResumeDhcp, NetxResumeIp, BadState, DhcpChanges, GoToSleep, Netx, Phases, Parts
<1>3. CASE TkoStep BY <1>3, <1>moves, TkoMoves
<1>4. CASE TlsStep BY <1>4, <1>moves, TlsMoves
<1>5. CASE WowlStep BY <1>5, <1>moves, WowlMoves
<1>6. CASE NatStep
  <2>1. Moves("nko") \/ Moves("nullko") BY <1>6, NatMoves
  <2> QED BY <2>1, <1>moves
<1>7. CASE SocketsStep BY <1>7, <1>moves, SocketsMoveNone
<1>8. CASE AppRegister \/ \E o \in Offloads : InitClear(o)
  <2>1. AppRegister => pc' = pc BY DEF AppRegister
  <2>2. ASSUME NEW o \in Offloads, InitClear(o) PROVE pc["net"].at = "up"
    BY <2>2, <1>moves, ClearMoves
  <2> QED BY <1>8, <2>1, <2>2
<1>9. CASE UNCHANGED system BY <1>9 DEF system, env
<1> QED BY <1>1, <1>2, <1>3, <1>4, <1>5, <1>6, <1>7, <1>8, <1>9 DEF Next

\* Every step keeps to it.
LEMMA CapsKeep ==
  ASSUME PcInv, Ranges, WowlShape, PatternWays, CapsWays, [Next]_system,
         faults = {}, faults' = {}
  PROVE  CapsWays'
<1>entries. /\ Len(Entries) \in Nat /\ DOMAIN Entries = 1 .. Len(Entries)
            /\ pc["lpa"].k \in Nat /\ pc["lpa"] \in Place /\ cfg \in Configs
  BY EntryFacts DEF PcInv, PcType, Threads, Place
<1>no. /\ PatternFaults \cap faults = {}
       /\ \A kind : ~Note(kind) /\ ~Faulty(kind)
  BY DEF Note, Faulty
<1>here. At("lpa", "sleep", "wowl", "set")' \/ Past(cfg'.list, pc'["lpa"], "wowl", {}, {"start"})
           => pc'["lpa"].at \in {"sleep", "asleep", "awake"}
  BY DEF Past, At
<1> SUFFICES ASSUME pc'["net"].at = "up", Supported("wowl")', pc["net"].at = "up"
             PROVE  CapsWays'
  <2>1. CASE ~Suspended /\ pc'["lpa"] = pc["lpa"]
    BY <2>1, <1>here DEF CapsWays, Suspended
  <2>2. CASE ~(pc'["net"].at = "up" /\ Supported("wowl")')
    BY <2>2 DEF CapsWays
  <2> QED BY <2>1, <2>2, NetBecomesUp
\* The thread goes on inside the offload, or to the next one.
<1>to. ASSUME NEW at \in {"sleep", "awake"}, NEW part, WowlAt(at, part), UNCHANGED cfg,
              NEW p \in Parts \ {"start"}, NEW k \in Nat, Count("lpa", p, k),
              at = "sleep" /\ p = "set" => wowl'.caps = ConfiguredCaps /\ wowl'.patterns = Sent(k)
       PROVE  CapsWays'
  <2>1. At("lpa", at, "wowl", p)' /\ ~Past(cfg'.list, pc'["lpa"], "wowl", {}, {"start"})
    BY <1>to, LpaGoesTo DEF WowlAt
  <2>2. pc'["lpa"].k = k BY <1>to, <1>entries DEF Count, PcInv, PcType, Threads, Place
  <2>3. At("lpa", "sleep", "wowl", "set")' => at = "sleep" /\ p = "set" BY <2>1 DEF At
  <2>4. ConfiguredCaps' = ConfiguredCaps /\ Entries' = Entries
    BY <1>to DEF ConfiguredCaps, Entries
  <2>5. Sent(pc["lpa"].k)' = Sent(k) BY <2>2, <2>4 DEF Sent
  <2> QED BY <1>to, <2>1, <2>3, <2>4, <2>5 DEF CapsWays
<1>on. ASSUME NEW at \in {"sleep", "awake"}, NEW part, WowlAt(at, part), UNCHANGED cfg,
              NextOffload("lpa"),
              at = "sleep" => /\ wowl'.caps = ConfiguredCaps /\ wowl'.armed
                              /\ wowl'.patterns = Sent(Len(Entries) + 1)
       PROVE  CapsWays'
  <2>1. /\ pc'["lpa"].part = "start"
        /\ Past(cfg'.list, pc'["lpa"], "wowl", {}, {"start"}) => at = "sleep"
    BY <1>on, LpaGoesOn DEF WowlAt
  <2>2. ~At("lpa", "sleep", "wowl", "set")' BY <2>1 DEF At
  <2>3. ConfiguredCaps' = ConfiguredCaps /\ Entries' = Entries
    BY <1>on DEF ConfiguredCaps, Entries
  <2>4. Sent(Len(Entries) + 1)' = Sent(Len(Entries) + 1) BY <2>3 DEF Sent
  <2> QED BY <1>on, <2>1, <2>2, <2>3, <2>4 DEF CapsWays
<1>1. CASE WowlInit \/ WowlDeinit \/ InitClear("wowl")
  BY <1>1 DEF WowlInit, WowlDeinit, InitClear, At
<1>4. CASE WowlConfigure
  <2>1. WowlAt("sleep", "start") /\ UNCHANGED <<cfg, ctx>> BY <1>4 DEF WowlConfigure, WowlVars
  <2>2. Supported("wowl") BY <2>1 DEF Supported
  <2>3. Count("lpa", "set", 1) /\ wowl' = [wowl EXCEPT !.caps = ConfiguredCaps]
    BY <1>4, <1>no, <2>2 DEF WowlConfigure
  <2>4. wowl.patterns = {} BY <1>no, <2>1, PatternsHere
  <2>5. Sent(1) = {}
    <3>1. \A j \in DOMAIN Entries : ~(j < 1) BY <1>entries
    <3> QED BY <3>1 DEF Sent
  <2>6. wowl'.caps = ConfiguredCaps /\ wowl'.patterns = Sent(1)
    BY <2>3, <2>4, <2>5, WowlWrites
  <2>7. 1 \in Nat OBVIOUS
  <2> QED BY <2>1, <2>3, <2>6, <2>7, <1>to DEF Parts
<1>5. CASE WowlSet
  <2> DEFINE k == pc["lpa"].k
  <2>1. /\ WowlAt("sleep", "set") /\ UNCHANGED <<cfg, ctx>> /\ k <= Len(Entries)
        /\ Count("lpa", "set", k + 1)
    BY <1>5 DEF WowlSet, WowlVars
  <2>2. Supported("wowl") BY <2>1 DEF Supported
  <2>3. k >= 1
    <3>1. "set" # "start" OBVIOUS
    <3> QED BY <1>no, <2>1, <3>1, PatternsHere
  <2>4. wowl.caps = ConfiguredCaps /\ wowl.patterns = Sent(k) BY <2>1, <2>2 DEF CapsWays, WowlAt
  <2>5. k \in DOMAIN Entries /\ k + 1 \in Nat BY <1>entries, <2>1, <2>3
  <2>6. "NET" \in wowl.caps
    <3>1. Entries # <<>> BY <2>5
    <3> QED BY <2>4, <3>1 DEF ConfiguredCaps
  <2>7. wowl' = [wowl EXCEPT
          !.caps = wowl.caps,
          !.patterns = IF Valid(Entries[k]) THEN wowl.patterns \cup {Converted(Entries[k])}
                                            ELSE wowl.patterns]
    <3>1. PICK ok \in BOOLEAN :
            /\ Command(ok, "wowlPattern")
            /\ wowl' = [wowl EXCEPT
                 !.caps = IF "NET" \in @ THEN @ ELSE {"NET"},
                 !.patterns = IF ok /\ ~MaskInvalid(Entries[k].mask)
                              THEN @ \cup {Converted(Entries[k])} ELSE @]
      BY <1>5 DEF WowlSet
    <3>2. ok BY <3>1, <1>no DEF Command
    <3> QED BY <2>6, <3>1, <3>2 DEF Valid
  <2>8. Sent(k + 1) = IF Valid(Entries[k]) THEN Sent(k) \cup {Converted(Entries[k])} ELSE Sent(k)
    <3>1. \A j \in DOMAIN Entries : j < k + 1 <=> (j < k \/ j = k) BY <1>entries
    <3>2. { j \in DOMAIN Entries : j < k + 1 /\ Valid(Entries[j]) } =
            { j \in DOMAIN Entries : j < k /\ Valid(Entries[j]) }
              \cup (IF Valid(Entries[k]) THEN {k} ELSE {})
      BY <2>5, <3>1
    <3> DEFINE S == { j \in DOMAIN Entries : j < k /\ Valid(Entries[j]) }
               T == { j \in DOMAIN Entries : j < k + 1 /\ Valid(Entries[j]) }
    <3>3. Sent(k) = { Converted(Entries[i]) : i \in S }
          /\ Sent(k + 1) = { Converted(Entries[i]) : i \in T }
      BY DEF Sent
    <3>4. T = S \cup (IF Valid(Entries[k]) THEN {k} ELSE {}) BY <3>2
    <3> HIDE DEF S, T
    <3> QED BY <3>3, <3>4
  <2>9. wowl'.caps = ConfiguredCaps /\ wowl'.patterns = Sent(k + 1)
    <3> DEFINE c == wowl.caps
               p == IF Valid(Entries[k]) THEN wowl.patterns \cup {Converted(Entries[k])}
                                         ELSE wowl.patterns
    <3>1. wowl' = [wowl EXCEPT !.caps = c, !.patterns = p] BY <2>7
    <3>2. c = ConfiguredCaps /\ p = Sent(k + 1) BY <2>4, <2>8
    <3> HIDE DEF c, p
    <3>3. wowl'.caps = c /\ wowl'.patterns = p BY <3>1, WowlWrites
    <3> QED BY <3>2, <3>3
  <2> HIDE DEF k
  <2> QED BY <2>1, <2>5, <2>9, <1>to DEF Parts
<1>6. CASE WowlActivate
  <2>1. /\ WowlAt("sleep", "set") /\ UNCHANGED <<cfg, ctx>> /\ NextOffload("lpa")
        /\ pc["lpa"].k > Len(Entries) /\ wowl' = [wowl EXCEPT !.armed = TRUE]
    BY <1>6, <1>no DEF WowlActivate, WowlVars
  <2>2. Supported("wowl") BY <2>1 DEF Supported
  <2>3. wowl.caps = ConfiguredCaps /\ wowl.patterns = Sent(pc["lpa"].k)
    BY <2>1, <2>2 DEF CapsWays, WowlAt
  <2>4. Sent(pc["lpa"].k) = Sent(Len(Entries) + 1)
    <3>1. \A j \in DOMAIN Entries : j < pc["lpa"].k /\ j < Len(Entries) + 1
      BY <1>entries, <2>1
    <3> QED BY <3>1 DEF Sent
  <2>5. wowl'.caps = wowl.caps /\ wowl'.patterns = wowl.patterns /\ wowl'.armed = TRUE
    BY <2>1, WowlWrites
  <2> QED BY <2>1, <2>3, <2>4, <2>5, <1>on
<1>7. CASE WowlUndo BY <1>7, <1>no DEF WowlUndo
<1>8. CASE WowlWake
  <2>1. WowlAt("awake", "start") /\ UNCHANGED <<cfg, ctx>> BY <1>8 DEF WowlWake, WowlVars
  <2>2. Supported("wowl") BY <2>1 DEF Supported
  <2>3. Count("lpa", "delete", 1) BY <1>8, <2>2 DEF WowlWake
  <2>4. 1 \in Nat OBVIOUS
  <2> QED BY <2>1, <2>3, <2>4, <1>to DEF Parts
<1>9. CASE WowlDelete
  <2>1. /\ WowlAt("awake", "delete") /\ UNCHANGED <<cfg, ctx>>
        /\ Count("lpa", "delete", pc["lpa"].k + 1)
    BY <1>9 DEF WowlDelete, WowlVars
  <2>2. pc["lpa"].k + 1 \in Nat BY <1>entries
  <2> QED BY <2>1, <2>2, <1>to DEF Parts
<1>10. CASE WowlDone
  <2>1. WowlAt("awake", "delete") /\ UNCHANGED <<cfg, ctx>> /\ NextOffload("lpa")
    BY <1>10 DEF WowlDone, WowlVars
  <2> QED BY <2>1, <1>on
<1>11. CASE ~Own("wowl")
  <2>1. Apart("wowl") BY <1>11, StepPlaces DEF Offloads
  <2>2. wowl'.patterns = wowl.patterns
        /\ ("wowl" \in Range(cfg.list) => wowl'.caps = wowl.caps /\ wowl'.armed = wowl.armed)
    BY <1>11, OthersLeaveWowl DEF Own
  <2>3. Past(cfg'.list, pc'["lpa"], "wowl", {}, {"start"})
          => /\ Past(cfg.list, pc["lpa"], "wowl", {}, {"start"})
             /\ "wowl" \in Range(cfg.list)
    <3>1. Past(cfg'.list, pc'["lpa"], "wowl", {}, {"start"})
            <=> Past(cfg.list, pc["lpa"], "wowl", {}, {"start"})
      BY <2>1 DEF Apart
    <3>2. Past(cfg.list, pc["lpa"], "wowl", {}, {"start"}) => "wowl" \in Range(cfg.list)
      BY DEF Past, Range
    <3> QED BY <3>1, <3>2
  <2>4. At("lpa", "sleep", "wowl", "set")' =>
          /\ At("lpa", "sleep", "wowl", "set") /\ pc'["lpa"] = pc["lpa"]
          /\ "wowl" \in Range(cfg.list)
    <3>1. At("lpa", "sleep", "wowl", "set")' => Inside("lpa", "wowl")' BY DEF Inside, At, Walking
    <3>2. At("lpa", "sleep", "wowl", "set")' =>
            At("lpa", "sleep", "wowl", "set") /\ pc'["lpa"] = pc["lpa"]
      BY <2>1, <3>1 DEF Apart, Threads, At
    <3>3. At("lpa", "sleep", "wowl", "set") => "wowl" \in Range(cfg.list)
      <4>1. At("lpa", "sleep", "wowl", "set") => pc["lpa"].i \in DOMAIN cfg.list
        BY <1>entries, ListFacts DEF Ranges, Threads, At, Place
      <4> QED BY <4>1 DEF At, Range
    <3> QED BY <3>2, <3>3
  <2>5. (Supported("wowl")' <=> Supported("wowl")) /\ Entries' = Entries
        /\ ConfiguredCaps' = ConfiguredCaps
    BY <2>1 DEF Apart, Supported, Entries, ConfiguredCaps
  <2>6. Sent(Len(Entries) + 1)' = Sent(Len(Entries) + 1) BY <2>5 DEF Sent
  <2>7. pc'["lpa"] = pc["lpa"] => Sent(pc["lpa"].k)' = Sent(pc["lpa"].k) BY <2>5 DEF Sent
  <2> QED BY <2>2, <2>3, <2>4, <2>5, <2>6, <2>7 DEF CapsWays
<1> QED BY <1>1, <1>4, <1>5, <1>6, <1>7, <1>8, <1>9, <1>10, <1>11 DEF Own, WowlStep

-----------------------------------------------------------------------------
(* The theorems                                                            *)

WakeInv ==
  PcInv /\ StackInv /\ Ranges /\ WowlShape /\ ProtectionWays /\ PatternWays /\ CapsWays

\* The device begins without patterns, and nothing is taken.
LEMMA WakeInitially == Init => WakeInv
<1> SUFFICES ASSUME Init PROVE WakeInv OBVIOUS
<1>1. pc["lpa"].at = "idle" /\ pc["lpa"].part = "start" /\ protection = 0
  BY DEF Init, EnvInit, TlsInitial
<1>2. wowl = [caps |-> {}, armed |-> FALSE, patterns |-> {}, secure |-> FALSE]
  BY DEF Init, EnvInit
<1>3. wowl.patterns = {} /\ wowl.secure = FALSE BY <1>2
<1>4. WowlShape BY <1>2 DEF WowlShape
<1>5. ProtectionWays BY <1>1, <1>3 DEF ProtectionWays, InSleep, At
<1>6. PatternWays BY <1>1, <1>3 DEF PatternWays, InSleep, At
<1>7. CapsWays BY <1>1 DEF CapsWays, Past, At
<1> QED BY <1>4, <1>5, <1>6, <1>7, ThreadsInitially, StackInitially, RangesInitially DEF WakeInv

\* Every step keeps to all of it.
LEMMA WakeKeeps == WakeInv /\ [Next]_system => WakeInv'
<1> SUFFICES ASSUME WakeInv, [Next]_system PROVE WakeInv' OBVIOUS
<1>inv. /\ PcInv /\ StackInv /\ Ranges /\ WowlShape
        /\ ProtectionWays /\ PatternWays /\ CapsWays
  BY DEF WakeInv
<1>grow. faults \subseteq faults' BY <1>inv, StepGrows
<1>1. PcInv' /\ StackInv' /\ Ranges' BY <1>inv, StepKeeps, StepPlaces
<1>2. WowlShape'
  <2>1. CASE TlsStep /\ ~WowlStep BY <1>inv, <2>1, OthersLeaveWowl
  <2>2. CASE ~TlsStep BY <1>inv, <2>2, OthersLeaveTls
  <2>3. CASE WowlStep BY <1>inv, <2>3, WowlStepShape
  <2> QED BY <2>1, <2>2, <2>3
<1>3. ProtectionWays'
  <2>1. CASE ProtectionFaults \cap faults' = {}
    <3>1. ProtectionFaults \cap faults = {} BY <1>grow, <2>1
    <3> QED BY <1>inv, <2>1, <3>1, ProtectionKeeps
  <2>2. CASE ProtectionFaults \cap faults' # {} BY <2>2 DEF ProtectionWays, ProtectionFaults
  <2> QED BY <2>1, <2>2
<1>4. PatternWays'
  <2>1. CASE PatternFaults \cap faults' = {}
    <3>1. PatternFaults \cap faults = {} BY <1>grow, <2>1
    <3> QED BY <1>inv, <2>1, <3>1, PatternsKeep
  <2>2. CASE PatternFaults \cap faults' # {} BY <2>2 DEF PatternWays, PatternFaults
  <2> QED BY <2>1, <2>2
<1>5. CapsWays'
  <2>1. CASE faults' = {}
    <3>1. faults = {} BY <1>grow, <2>1
    <3> QED BY <1>inv, <2>1, <3>1, CapsKeep
  <2>2. CASE faults' # {} BY <2>2 DEF CapsWays
  <2> QED BY <2>1, <2>2
<1> QED BY <1>1, <1>2, <1>3, <1>4, <1>5 DEF WakeInv

\* The protection of NetX Secure is the application's again whenever the host is awake,
\* unless the pattern could not be deleted or the configuration was exchanged.
THEOREM ProtectionIsReleased == Spec => []ProtectionReleased
<1>1. WakeInv => ProtectionReleased
  <2> SUFFICES ASSUME WakeInv, ~Suspended, ProtectionFaults \cap faults = {}
               PROVE  protection = 0
    BY DEF ProtectionReleased, ProtectionFaults
  <2>1. ~Told("tls", {"register"}, {"start", "restore", "release"}) BY NotPast DEF Told
  <2> QED BY <2>1 DEF WakeInv, ProtectionWays
<1> QED BY <1>1, WakeInitially, WakeKeeps, PTL DEF Spec

\* Awake, the device has no pattern left, of either offload.  It is not claimed once a
\* deletion failed, the configuration was exchanged or the context emptied while the host
\* slept, or the filter could not be activated, whose undoing overruns its buffers.
THEOREM PatternsAreGone == Spec => []PatternsGone
<1>1. WakeInv => PatternsGone
  <2> SUFFICES ASSUME WakeInv, ~Suspended,
                      ProtectionFaults \cap faults = {}, PatternFaults \cap faults = {}
               PROVE  wowl.patterns = {} /\ ~wowl.secure
    BY DEF PatternsGone, ProtectionFaults, PatternFaults
  <2>1. ~wowl.secure
    <3>1. ~Told("tls", {"activate", "cleanUp", "protect", "register"}, {"start"})
      BY NotPast DEF Told
    <3> QED BY <3>1 DEF WakeInv, ProtectionWays
  <2>2. wowl.patterns = {}
    <3>1. ~At("lpa", "awake", "wowl", "delete") BY DEF At, Suspended
    <3> QED BY <3>1, NotPast DEF WakeInv, PatternWays
  <2> QED BY <2>1, <2>2
<1> QED BY <1>1, WakeInitially, WakeKeeps, PTL DEF Spec

\* A sleeping host is woken by exactly the frames that the user's patterns describe.
THEOREM WakesTheHostExactly == Spec => []WakesExactly
<1>1. WakeInv => WakesExactly
  <2> SUFFICES ASSUME WakeInv, Asleep, Supported("wowl"), "wowl" \in Range(cfg.list),
                      pc["net"].at = "up", faults = {}
               PROVE  /\ \A frame \in Frames :
                           Wakes(frame) <=>
                             \E i \in DOMAIN Entries :
                               Valid(Entries[i]) /\ UserMatches(Entries[i], frame)
                      /\ "MAGIC" \in wowl.caps <=> cfg.magic
    BY DEF WakesExactly, Valid
  <2>cfg. cfg \in Configs BY DEF WakeInv, PcInv
  <2>1. Past(cfg.list, pc["lpa"], "wowl", {}, {"start"}) BY DEF Past, Asleep, Range
  <2>2. /\ wowl.caps = ConfiguredCaps /\ wowl.armed
        /\ wowl.patterns = Sent(Len(Entries) + 1)
    BY <2>1 DEF WakeInv, CapsWays
  <2>3. "MAGIC" \in wowl.caps <=> cfg.magic BY <2>2 DEF ConfiguredCaps
  <2>4. wowl.patterns = { Converted(Entries[i]) : i \in { j \in DOMAIN Entries : Valid(Entries[j]) } }
    <3>1. \A j \in DOMAIN Entries : j < Len(Entries) + 1 BY <2>cfg, EntryFacts
    <3> QED BY <2>2, <3>1 DEF Sent
  <2>5. ASSUME NEW frame \in Frames
        PROVE  Wakes(frame) <=>
                 \E i \in DOMAIN Entries : Valid(Entries[i]) /\ UserMatches(Entries[i], frame)
    <3>1. "NET" \in wowl.caps <=> Entries # <<>> BY <2>2 DEF ConfiguredCaps
    <3>2. (\E i \in DOMAIN Entries : Valid(Entries[i])) => Entries # <<>> OBVIOUS
    <3>3. frame \in Seq(0 .. 255) BY <2>5, WowlAssumption
    <3>4. \A i \in DOMAIN Entries : Valid(Entries[i]) =>
            (DeviceMatches(Converted(Entries[i]), frame) <=> UserMatches(Entries[i], frame))
      BY <2>cfg, <3>3, EntryFacts, MatchesAgree DEF Valid
    <3>5. Wakes(frame) <=>
            Entries # <<>> /\ \E i \in DOMAIN Entries :
              Valid(Entries[i]) /\ DeviceMatches(Converted(Entries[i]), frame)
      BY <2>2, <2>4, <3>1 DEF Wakes
    <3> QED BY <3>2, <3>4, <3>5
  <2> QED BY <2>3, <2>5
<1> QED BY <1>1, WakeInitially, WakeKeeps, PTL DEF Spec

-----------------------------------------------------------------------------
(* The session that is handed to the device                                *)

\* The device has a session of the host's.
Holds == session # NoSession

\* The entry names one connection, or not all of it yet; the application's thread
\* is the only one that completes it.
MqttWays ==
  /\ mqtt = [conn |-> mqtt.conn, socket |-> mqtt.socket, pattern |-> mqtt.pattern]
  /\ mqtt.conn = mqtt.socket \/ mqtt.conn = NoConn \/ mqtt.socket = NoConn
  /\ app.at = "setAddress" => mqtt.socket \in {app.conn, NoConn}
  /\ app.at = "noteSocket" => mqtt.conn \in {app.conn, NoConn}

\* What the sockets are while they are made, and once they are handed out.
SocketWays ==
  /\ peer \in [Conns -> [tcp : SeqNums, tls : SeqNums]]
  /\ \A c \in owned : sock[c].st \in {"open", "finWait2"}
  /\ app.at = "created" => sock[app.conn].st = "new"
  /\ app.at = "connecting" => sock[app.conn].st = "syn"
  /\ app.at \in {"connected", "send"} => sock[app.conn].st = "open"
  /\ app.at \in Creating => app.conn \notin owned
  /\ \A c \in Conns : sock[c].st \in {"new", "syn"} => sock[c].tcp = 0 /\ sock[c].tls = 0

\* The session is that of the configured connection, from its activation to the
\* clearing; the pattern that goes with it is in the device until it is deleted.
SessionWays ==
  /\ LpaAt("sleep", "protect") \/ LpaAt("sleep", "register") => Holds
  /\ Holds =>
       /\ Told("tls", {"protect", "register"}, {"start", "restore", "release", "clear"})
       /\ session.conn = mqtt.conn /\ mqtt.conn = mqtt.socket /\ mqtt.socket \in owned
       /\ cfg.stack # "lwip" => /\ created # <<>>
                                /\ sock[mqtt.conn].ka /\ sock[mqtt.conn].st = "open"
       /\ mqtt.pattern /\ Told("tls", {"protect", "register"}, {"start"}) => wowl.secure

\* Until they are written back the numbers of the session are the device's.
HandedOver(c) ==
  /\ Holds /\ c = session.conn
  /\ Told("tls", {"protect", "register"}, {"start", "restore"})

InStep(n, c) == n.tcp = peer[c].tcp /\ n.tls = peer[c].tls

StepWays ==
  "netxOrder" \notin faults =>
    \A c \in Conns : sock[c].st = "open" =>
      IF HandedOver(c) THEN InStep(session, c) ELSE InStep(sock[c], c)

\* The handler is registered from the sleep to the wake-up, at the noted entry.
HandlerWays ==
  \A s \in Slots : table[s] = "tls" =>
    /\ s = tlsEntry
    /\ Told("tls", {}, {"start", "restore", "release", "clear", "deregister"})
    /\ Told("tls", {}, {"start", "restore", "release", "clear"}) => Holds

\* The connection will be reset: its wake event was reported, and the handler has
\* noted it or is about to.
Dozing      == pc["lpa"].at \in {"sleep", "asleep"}
ResetDue(c) ==
  /\ Holds /\ c = session.conn
  /\ Told("tls", {"register"}, {"start", "restore"})
  /\ tcpReset \/ (whd.runs = "tls" /\ Dozing)

WokenWays ==
  cfg.stack = "lwip" /\ "lateHandler" \notin faults /\ ~(whd.runs = "tls" /\ whd.late) =>
    /\ whd.runs = "tls" /\ Dozing => Holds /\ Told("tls", {}, {"start"})
    /\ \A c \in Conns : c \in woken <=> sock[c].st = "finWait2" \/ ResetDue(c)

\* As long as the way back was carried out, and with the configuration of the way
\* to sleep.
SessionInv ==
  RestoreFaults \cap faults = {} => SessionWays /\ StepWays /\ HandlerWays /\ WokenWays

\* The thread of the WHD driver.
WhdShape == whd = [runs |-> whd.runs, late |-> whd.late] /\ whd.late \in BOOLEAN

-----------------------------------------------------------------------------
(* What the other components leave                                         *)

\* Sockets are written by the application's thread, the stack and the TLS offload;
\* the TKO offload notes a new one.
LEMMA OthersLeaveSockets ==
  ASSUME [Next]_system, ~TlsStep, ~SocketsStep
  PROVE  /\ UNCHANGED <<sock, peer, created, owned>>
         /\ app' = app \/ app'.at \in {"writeEntry", "idle"}
<1>1. CASE ManagerStep
  BY <1>1 DEF ManagerStep, Connect, Disconnect, LoopDone, Inactive, SleepDone, WakeUp,
     AwakeDone, OthersUnchanged, tcp
<1>2. CASE TkoStep
  BY <1>2, SMTT(40)
  DEF TkoStep, TkoInit, TkoSleep, TkoActivate, TkoActivated, TkoToggleOn, TkoRegister, TkoMark,
      TkoDisable, TkoUnmark, TkoDeregister, TkoToggleOff, TkoEvent, TkoHandler, UpdateClear,
      UpdateWrite, AppGoto, tcp
<1>3. CASE WowlStep
  BY <1>3
  DEF WowlStep, WowlInit, WowlDeinit, WowlConfigure, WowlSet, WowlActivate, WowlUndo,
      WowlWake, WowlDelete, WowlDone, WowlVars, tcp
<1>4. CASE UNCHANGED tcp BY <1>4 DEF tcp
<1> QED BY <1>1, <1>2, <1>3, <1>4 DEF Next, system

\* No other offload gives the TLS handler an entry.
LEMMA OthersLeaveHandler ==
  ASSUME TableType, [Next]_system, ~TlsStep
  PROVE  TableType' /\ \A s \in Slots : table'[s] = "tls" => table[s] = "tls"
<1>same. ASSUME UNCHANGED table
         PROVE  TableType' /\ \A s \in Slots : table'[s] = "tls" => table[s] = "tls"
  BY <1>same DEF TableType
<1>1. CASE ManagerStep
  BY <1>1, <1>same DEF ManagerStep, Connect, Disconnect, LoopDone, Inactive, SleepDone, WakeUp,
     AwakeDone, OthersUnchanged
<1>2. CASE TkoStep
  <2>1. CASE TkoRegister
    <3>1. PICK e : Register("tko", tkoEntry, e) BY <2>1 DEF TkoRegister
    <3>2. /\ TableType'
          /\ \A s \in Slots : table'[s] = table[s] \/ table'[s] = "tko"
      BY <3>1, Registers DEF Clients
    <3> QED BY <3>2
  <2>2. CASE \E t \in {"lpa", "net"} : TkoDeregister(t)
    <3>1. Deregister(tkoEntry) BY <2>2 DEF TkoDeregister
    <3>2. TableType' /\ \A s \in Slots : table'[s] \in {table[s], Free} BY <3>1, Deregisters
    <3> QED BY <3>2 DEF Free
  <2>3. CASE UNCHANGED table BY <2>3, <1>same, SMTT(40)
  <2> QED
    BY <1>2, <2>1, <2>2, <2>3
    DEF TkoStep, TkoInit, TkoSleep, TkoActivate, TkoActivated, TkoToggleOn, TkoMark,
        TkoDisable, TkoUnmark, TkoToggleOff, TkoEvent, TkoHandler, UpdateClear, UpdateWrite, env
<1>3. CASE WowlStep
  BY <1>3, <1>same
  DEF WowlStep, WowlInit, WowlDeinit, WowlConfigure, WowlSet, WowlActivate, WowlUndo,
      WowlWake, WowlDelete, WowlDone, WowlVars
<1>4. CASE NatStep
  BY <1>4, <1>same
  DEF NatStep, NkoInit, NkoUnregister, NkoDisable, NkoForget, KeepAlivePm, AddressChanges,
      UpdateConfig, Details, Send, NullkoInit, NullkoDeinit
<1>5. CASE StackStep
  BY <1>5, <1>same
  DEF StackStep, LwipSuspend, LwipResume, NetxSuspendIp, NetxStopTimers, NetxSuspendDhcp,
      NetxResumeDhcp, NetxResumeIp, BadState, DhcpChanges, StackVars
<1>6. CASE SocketsStep
  BY <1>6, <1>same
  DEF SocketsStep, SocketCreate, Transfer, Close, TimeWaitEnds, BindFails, BindConnect,
      ConnectFails, Connected, SetOptions, SendFirst, env
<1>7. CASE AppRegister BY <1>7, FirstIsFree DEF AppRegister, TableType, Clients
<1>8. CASE \E o \in Offloads : InitClear(o) BY <1>8, <1>same DEF InitClear
<1>9. CASE UNCHANGED system BY <1>9, <1>same DEF system, env
<1> QED BY <1>1, <1>2, <1>3, <1>4, <1>5, <1>6, <1>7, <1>8, <1>9 DEF Next

\* A TLS handler that is about to run is overtaken when the dispatching thread begins
\* to put the offloads to sleep, or to wake them.
LEMMA OthersOvertake ==
  ASSUME PcInv, Ranges, WhdShape, [Next]_system, ~TlsStep
  PROVE  /\ WhdShape' /\ (whd'.runs = "tls" <=> whd.runs = "tls")
         /\ whd'.runs = "tls" /\ ~whd'.late => ~whd.late /\ (Dozing' <=> Dozing)
<1> DEFINE Goal == /\ WhdShape' /\ (whd'.runs = "tls" <=> whd.runs = "tls")
                   /\ whd'.runs = "tls" /\ ~whd'.late => ~whd.late /\ (Dozing' <=> Dozing)
<1>kept. ASSUME UNCHANGED whd, Dozing' <=> Dozing PROVE Goal
  BY <1>kept DEF WhdShape
<1>over. ASSUME OvertakeHandler PROVE Goal
  <2>1. whd' = [runs |-> whd.runs, late |-> whd.runs # Free]
    BY <1>over DEF OvertakeHandler, WhdShape
  <2>2. whd'.runs = whd.runs /\ whd'.late = (whd.runs # Free) BY <2>1
  <2> QED BY <2>1, <2>2 DEF WhdShape, Free
<1>tko. ASSUME NEW r, whd' = [runs |-> r, late |-> FALSE], r # "tls", whd.runs # "tls"
        PROVE Goal
  <2>1. whd'.runs = r /\ whd'.late = FALSE BY <1>tko
  <2> QED BY <1>tko, <2>1 DEF WhdShape
<1>frame. ASSUME UNCHANGED whd, Frame PROVE Goal
  <2>1. pc'["lpa"].at = pc["lpa"].at BY <1>frame DEF Frame, PcFrame, LpaMoves
  <2> QED BY <1>frame, <1>kept, <2>1 DEF Dozing
<1>len. PcType /\ LpaParts /\ Len(cfg.list) \in Nat BY LenNat DEF PcInv
<1>walk. ASSUME NEW at \in Phases, Phase("lpa", at) PROVE pc'["lpa"].at = at
  BY <1>walk, <1>len, LpaWalk DEF Phase
<1> SUFFICES Goal OBVIOUS
<1> HIDE DEF Goal
<1>1. CASE ManagerStep
  <2>1. CASE Connect \/ Disconnect \/ LoopDone
    <3>1. UNCHANGED whd /\ \E at \in Phases : Phase("net", at)
      BY <2>1 DEF Connect, Disconnect, LoopDone, Phases
    <3>2. pc'["lpa"] = pc["lpa"] BY <3>1, <1>len DEF Phase, Walk, PcType, Threads
    <3> QED BY <3>1, <3>2, <1>kept DEF Dozing
  <2>2. CASE Inactive BY <2>2, <1>kept, <1>walk DEF Inactive, Phases, Dozing
  <2>3. CASE SleepDone BY <2>3, <1>kept, <1>walk DEF SleepDone, LoopEnd, Phases, Dozing
  <2>4. CASE WakeUp BY <2>4, <1>over DEF WakeUp
  <2>5. CASE AwakeDone BY <2>5, <1>kept, <1>walk DEF AwakeDone, LoopEnd, Phases, Dozing
  <2> QED BY <1>1, <2>1, <2>2, <2>3, <2>4, <2>5 DEF ManagerStep
<1>2. CASE StackStep
  <2>1. CASE LwipSuspend BY <2>1, <1>over DEF LwipSuspend, GoToSleep
  <2>2. CASE LwipResume BY <2>2, <1>kept, <1>walk DEF LwipResume, Phases, Dozing
  <2>3. CASE NetxSuspendIp BY <2>3, <1>kept, <1>walk DEF NetxSuspendIp, Netx, Phases, Dozing
  <2>4. CASE NetxStopTimers
    BY <2>4, <1>len, <1>kept, LpaGoto DEF NetxStopTimers, Parts, Dozing
  <2>5. CASE NetxSuspendDhcp
    BY <2>5, <1>over, <1>kept, <1>walk DEF NetxSuspendDhcp, GoToSleep, Netx, Phases, Dozing
  <2>6. CASE NetxResumeDhcp
    BY <2>6, <1>len, <1>kept, <1>walk, LpaGoto DEF NetxResumeDhcp, Netx, Phases, Parts, Dozing
  <2>7. CASE NetxResumeIp BY <2>7, <1>kept, <1>walk DEF NetxResumeIp, Netx, Phases, Dozing
  <2>8. CASE BadState \/ DhcpChanges BY <2>8, <1>kept DEF BadState, DhcpChanges, Dozing
  <2> QED BY <1>2, <2>1, <2>2, <2>3, <2>4, <2>5, <2>6, <2>7, <2>8 DEF StackStep
<1>3. CASE TkoStep
  <2>1. CASE TkoEvent BY <2>1, <1>tko DEF TkoEvent, Pick, Free
  <2>2. CASE TkoHandler BY <2>2, <1>tko DEF TkoHandler, Free
  <2>3. CASE UNCHANGED whd BY <1>3, <2>3, <1>len, <1>frame, TkoFrame
  <2> QED
    BY <1>3, <2>1, <2>2, <2>3
    DEF TkoStep, TkoInit, TkoSleep, TkoActivate, TkoActivated, TkoToggleOn, TkoRegister, TkoMark,
        TkoDisable, TkoUnmark, TkoDeregister, TkoToggleOff, UpdateClear, UpdateWrite, env
<1>4. CASE WowlStep
  <2>1. UNCHANGED whd
    BY <1>4
    DEF WowlStep, WowlInit, WowlDeinit, WowlConfigure, WowlSet, WowlActivate, WowlUndo,
        WowlWake, WowlDelete, WowlDone, WowlVars
  <2> QED BY <1>4, <2>1, <1>len, <1>frame, WowlFrame, SMTT(40)
<1>5. CASE NatStep
  <2>1. UNCHANGED whd
    BY <1>5
    DEF NatStep, NkoInit, NkoUnregister, NkoDisable, NkoForget, KeepAlivePm, AddressChanges,
        UpdateConfig, Details, Send, NullkoInit, NullkoDeinit
  <2> QED BY <1>5, <2>1, <1>len, <1>frame, NatFrame, SMTT(40)
<1>6. CASE SocketsStep
  <2>1. UNCHANGED whd
    BY <1>6
    DEF SocketsStep, SocketCreate, Transfer, Close, TimeWaitEnds, BindFails, BindConnect,
        ConnectFails, Connected, SetOptions, SendFirst, env
  <2> QED BY <1>6, <2>1, <1>len, <1>frame, SocketsFrame
<1>7. CASE AppRegister \/ \E o \in Offloads : InitClear(o)
  <2>1. UNCHANGED whd BY <1>7 DEF AppRegister, InitClear
  <2> QED BY <1>7, <2>1, <1>len, <1>frame, ClearFrame
<1>8. CASE UNCHANGED system BY <1>8, <1>kept DEF system, env, Dozing
<1> QED BY <1>1, <1>2, <1>3, <1>4, <1>5, <1>6, <1>7, <1>8 DEF Next

\* All the connections are the host's own.
AllInStep == \A c \in Conns : sock[c].st = "open" => InStep(sock[c], c)
AsWoken   == \A c \in Conns : c \in woken <=> sock[c].st = "finWait2"

\* Without a session, all there is to say is that of the host's own connections.
LEMMA NoneHanded ==
  ASSUME ~Holds', ~LpaAt("sleep", "protect")', ~LpaAt("sleep", "register")',
         \A s \in Slots : table'[s] # "tls",
         "netxOrder" \notin faults' => AllInStep',
         cfg'.stack = "lwip" /\ "lateHandler" \notin faults' /\ ~(whd'.runs = "tls" /\ whd'.late) =>
           ~(whd'.runs = "tls" /\ Dozing') /\ AsWoken'
  PROVE  SessionInv'
<1>1. SessionWays' BY DEF SessionWays
<1>2. StepWays' BY DEF StepWays, HandedOver, AllInStep
<1>3. HandlerWays' BY DEF HandlerWays
<1>4. WokenWays' BY DEF WokenWays, ResetDue, AsWoken
<1> QED BY <1>1, <1>2, <1>3, <1>4 DEF SessionInv

\* Without one the host's own numbers and states count.
LEMMA Unhanded ==
  ASSUME SessionInv, RestoreFaults \cap faults = {}, ~Holds
  PROVE  /\ "netxOrder" \notin faults => AllInStep
         /\ cfg.stack = "lwip" /\ "lateHandler" \notin faults /\ ~(whd.runs = "tls" /\ whd.late) =>
              ~(whd.runs = "tls" /\ Dozing) /\ AsWoken
BY DEF SessionInv, StepWays, WokenWays, HandedOver, ResetDue, AllInStep, AsWoken

\* While the stack runs the device has no session and the handler no entry.
LEMMA AwakeUnhanded ==
  ASSUME SessionInv, RestoreFaults \cap faults = {}, ~Suspended
  PROVE  /\ ~Holds /\ ~LpaAt("sleep", "protect") /\ ~LpaAt("sleep", "register") /\ ~Dozing
         /\ \A s \in Slots : table[s] # "tls"
<1>1. \A down, up : ~Told("tls", down, up) BY NotPast DEF Told
<1>2. ~LpaAt("sleep", "protect") /\ ~LpaAt("sleep", "register") /\ ~Dozing
  BY DEF LpaAt, At, Dozing, Suspended
<1> QED BY <1>1, <1>2 DEF SessionInv, SessionWays, HandlerWays

-----------------------------------------------------------------------------
(* The sockets while the stack runs                                        *)

\* The socket c is written by its user or its maker.
LEMMA SocketWritten ==
  ASSUME SocketInv, SocketWays, NEW c \in Conns, NEW s \in SocketRecord,
         sock' = [sock EXCEPT ![c] = s], peer' \in [Conns -> [tcp : SeqNums, tls : SeqNums]],
         \A d \in Conns : d # c => peer'[d] = peer[d],
         \A d \in Conns : d # c => (d \in owned' <=> d \in owned),
         c \in owned' => s.st \in {"open", "finWait2"}, owned' \subseteq Conns,
         \/ app' = app /\ (app.at \in Creating => app.conn # c)
         \/ /\ app'.at \in Creating => app'.conn = c /\ c \notin owned'
            /\ app'.at = "created" => s.st = "new"
            /\ app'.at = "connecting" => s.st = "syn"
            /\ app'.at \in {"connected", "send"} => s.st = "open",
         s.st \in {"new", "syn"} => s.tcp = 0 /\ s.tls = 0,
         s.st = "open" /\ AllInStep => s.tcp = peer'[c].tcp /\ s.tls = peer'[c].tls,
         s.st = "finWait2" <=> sock[c].st = "finWait2"
  PROVE  /\ SocketWays' /\ (AllInStep => AllInStep')
         /\ \A d \in Conns : sock'[d].st = "finWait2" <=> sock[d].st = "finWait2"
<1>1. sock'[c] = s /\ \A d \in Conns : d # c => sock'[d] = sock[d] BY DEF SocketInv
<1>2. app.at \in Creating => app.conn \in Conns BY DEF SocketInv
<1>3. \A d \in owned' : sock'[d].st \in {"open", "finWait2"} BY <1>1 DEF SocketWays
<1>4. /\ app'.at = "created" => sock'[app'.conn].st = "new"
      /\ app'.at = "connecting" => sock'[app'.conn].st = "syn"
      /\ app'.at \in {"connected", "send"} => sock'[app'.conn].st = "open"
      /\ app'.at \in Creating => app'.conn \notin owned'
  BY <1>1, <1>2 DEF SocketWays, Creating
<1>5. \A d \in Conns : sock'[d].st \in {"new", "syn"} => sock'[d].tcp = 0 /\ sock'[d].tls = 0
  BY <1>1 DEF SocketWays
<1>6. AllInStep => AllInStep' BY <1>1 DEF AllInStep, InStep
<1> QED BY <1>1, <1>3, <1>4, <1>5, <1>6 DEF SocketWays

\* The calls of cy_tcp_create_socket_connection, and the TCP stack.
LEMMA SocketsKeepWays ==
  ASSUME SocketInv, SocketWays, SocketsStep
  PROVE  /\ SocketWays' /\ (AllInStep => AllInStep')
         /\ \A d \in Conns : sock'[d].st = "finWait2" <=> sock[d].st = "finWait2"
<1> DEFINE Goal == /\ SocketWays' /\ (AllInStep => AllInStep')
                   /\ \A d \in Conns : sock'[d].st = "finWait2" <=> sock[d].st = "finWait2"
<1> SUFFICES Goal OBVIOUS
<1>type. /\ sock \in [Conns -> SocketRecord] /\ owned \subseteq Conns
         /\ peer \in [Conns -> [tcp : SeqNums, tls : SeqNums]]
         /\ app.at \in Creating => app.conn \in Conns /\ app.conn \notin owned
         /\ \A c \in owned : sock[c].st \in {"open", "finWait2"}
  BY DEF SocketInv, SocketWays
<1>none. /\ NoSocket \in SocketRecord /\ NoSocket.st = "none"
         /\ NoSocket.tcp = 0 /\ NoSocket.tls = 0
  BY SocketValues DEF NoSocket
<1>zero. 0 \in SeqNums /\ \A n \in SeqNums : Inc(n) \in SeqNums BY SocketValues
<1>here. ASSUME NEW c \in Conns PROVE sock[c] \in SocketRecord BY <1>type
\* Both ends count a packet.
<1>sent. ASSUME NEW c \in Conns,
                sock' = [sock EXCEPT ![c].tcp = Inc(@), ![c].tls = Inc(@)],
                peer' = [peer EXCEPT ![c].tcp = Inc(@), ![c].tls = Inc(@)],
                sock[c].st = "open"
         PROVE  \E s \in SocketRecord :
                  /\ sock' = [sock EXCEPT ![c] = s] /\ s.st = "open"
                  /\ peer' \in [Conns -> [tcp : SeqNums, tls : SeqNums]]
                  /\ \A d \in Conns : d # c => peer'[d] = peer[d]
                  /\ AllInStep => s.tcp = peer'[c].tcp /\ s.tls = peer'[c].tls
  <2> DEFINE s == [sock[c] EXCEPT !.tcp = Inc(@), !.tls = Inc(@)]
             p == [peer[c] EXCEPT !.tcp = Inc(@), !.tls = Inc(@)]
  <2>1. sock[c] \in SocketRecord /\ peer[c] \in [tcp : SeqNums, tls : SeqNums] BY <1>type
  <2>2. s \in SocketRecord /\ s.st = "open" /\ s.tcp = Inc(sock[c].tcp) /\ s.tls = Inc(sock[c].tls)
    BY <2>1, <1>sent, <1>zero DEF SocketRecord
  <2>3. p \in [tcp : SeqNums, tls : SeqNums] /\ p.tcp = Inc(peer[c].tcp) /\ p.tls = Inc(peer[c].tls)
    BY <2>1, <1>zero
  <2>4. sock' = [sock EXCEPT ![c] = s] BY <1>sent, <1>type
  <2>5. peer' = [peer EXCEPT ![c] = p] BY <1>sent, <1>type
  <2>6. AllInStep => sock[c].tcp = peer[c].tcp /\ sock[c].tls = peer[c].tls
    BY <1>sent DEF AllInStep, InStep
  <2> HIDE DEF s, p
  <2>7. /\ peer' \in [Conns -> [tcp : SeqNums, tls : SeqNums]] /\ peer'[c] = p
        /\ \A d \in Conns : d # c => peer'[d] = peer[d]
    BY <1>type, <2>3, <2>5
  <2> QED BY <2>2, <2>3, <2>4, <2>6, <2>7
<1>same. UNCHANGED peer => /\ peer' \in [Conns -> [tcp : SeqNums, tls : SeqNums]]
                           /\ \A d \in Conns : peer'[d] = peer[d]
  BY <1>type
<1> USE DEF AppGoto
<1>1. ASSUME NEW c \in Conns, SocketCreate(c) PROVE Goal
  <2> DEFINE s == [NoSocket EXCEPT !.st = "new"]
  <2>1. s \in SocketRecord /\ s.st = "new" /\ s.tcp = 0 /\ s.tls = 0
    BY SocketValues DEF NoSocket, SocketRecord, OpenStates
  <2>2. app'.at = "created" /\ app'.conn = c /\ UNCHANGED <<peer, owned>>
        /\ sock' = [sock EXCEPT ![c] = s] /\ sock[c].st = "none"
    BY <1>1 DEF SocketCreate
  <2> HIDE DEF s
  <2>3. c \notin owned BY <1>type, <2>2
  <2> QED BY <1>type, <1>same, <2>1, <2>2, <2>3, SocketWritten
<1>2. CASE BindFails \/ ConnectFails
  <2>1. /\ app.at \in {"created", "connecting"} /\ app'.at = "idle" /\ UNCHANGED <<peer, owned>>
        /\ sock' = [sock EXCEPT ![app.conn] = NoSocket]
    BY <1>2 DEF BindFails, ConnectFails, DeleteSocket
  <2>2. app.conn \in Conns /\ app.conn \notin owned /\ sock[app.conn].st \in {"new", "syn"}
    BY <1>type, <2>1 DEF SocketWays, Creating
  <2> QED BY <1>type, <1>same, <1>none, <2>1, <2>2, SocketWritten DEF Creating
<1>3. CASE BindConnect
  <2> DEFINE s == [sock[app.conn] EXCEPT !.st = "syn"]
  <2>1. /\ app.at = "created" /\ app'.at = "connecting" /\ app'.conn = app.conn
        /\ UNCHANGED <<peer, owned>> /\ sock' = [sock EXCEPT ![app.conn] = s]
    BY <1>3 DEF BindConnect
  <2>2. app.conn \in Conns /\ app.conn \notin owned /\ sock[app.conn].st = "new"
        /\ sock[app.conn].tcp = 0 /\ sock[app.conn].tls = 0
    BY <1>type, <2>1 DEF SocketWays, Creating
  <2>3. s \in SocketRecord /\ s.st = "syn" /\ s.tcp = 0 /\ s.tls = 0
    BY <1>here, <2>2 DEF SocketRecord, OpenStates
  <2> HIDE DEF s
  <2> QED BY <1>type, <1>same, <2>1, <2>2, <2>3, SocketWritten DEF Creating
<1>4. CASE Connected
  <2> DEFINE s == [sock[app.conn] EXCEPT !.st = "open"]
             p == [tcp |-> 0, tls |-> 0]
  <2>1. /\ app.at = "connecting" /\ app'.at = "connected" /\ app'.conn = app.conn
        /\ UNCHANGED owned /\ sock' = [sock EXCEPT ![app.conn] = s]
        /\ peer' = [peer EXCEPT ![app.conn] = p]
    BY <1>4 DEF Connected
  <2>2. app.conn \in Conns /\ app.conn \notin owned /\ sock[app.conn].st = "syn"
        /\ sock[app.conn].tcp = 0 /\ sock[app.conn].tls = 0
    BY <1>type, <2>1 DEF SocketWays, Creating
  <2>3. s \in SocketRecord /\ s.st = "open" /\ s.tcp = 0 /\ s.tls = 0
    BY <1>here, <2>2 DEF SocketRecord, OpenStates
  <2>4. p \in [tcp : SeqNums, tls : SeqNums] /\ p.tcp = 0 /\ p.tls = 0 BY <1>zero
  <2> HIDE DEF s, p
  <2>5. /\ peer' \in [Conns -> [tcp : SeqNums, tls : SeqNums]] /\ peer'[app.conn] = p
        /\ \A d \in Conns : d # app.conn => peer'[d] = peer[d]
    BY <1>type, <2>1, <2>2, <2>4
  <2> QED BY <1>type, <2>1, <2>2, <2>3, <2>4, <2>5, SocketWritten DEF Creating
<1>5. ASSUME NEW keepalive \in BOOLEAN, SetOptions(keepalive) PROVE Goal
  <2> DEFINE s == [sock[app.conn] EXCEPT !.ka = keepalive]
  <2>1. /\ app.at = "connected" /\ app'.at = "send" /\ app'.conn = app.conn
        /\ UNCHANGED <<peer, owned>> /\ sock' = [sock EXCEPT ![app.conn] = s]
    BY <1>5 DEF SetOptions
  <2>2. app.conn \in Conns /\ app.conn \notin owned /\ sock[app.conn].st = "open"
    BY <1>type, <2>1 DEF SocketWays, Creating
  <2>3. /\ s \in SocketRecord /\ s.st = "open"
        /\ s.tcp = sock[app.conn].tcp /\ s.tls = sock[app.conn].tls
    BY <1>here, <2>2 DEF SocketRecord, OpenStates
  <2>4. AllInStep => s.tcp = peer'[app.conn].tcp /\ s.tls = peer'[app.conn].tls
    BY <1>same, <2>1, <2>2, <2>3 DEF AllInStep, InStep
  <2> HIDE DEF s
  <2> QED BY <1>type, <1>same, <2>1, <2>2, <2>3, <2>4, SocketWritten DEF Creating
<1>6. CASE SendFirst
  <2>1. /\ app.at = "send" /\ app'.at = "clearEntry" /\ app'.conn = app.conn
        /\ owned' = owned \cup {app.conn}
    BY <1>6 DEF SendFirst
  <2>2. app.conn \in Conns /\ sock[app.conn].st = "open"
    BY <1>type, <2>1 DEF SocketWays, Creating
  <2>3. CASE UNCHANGED <<sock, peer>>
    <3> DEFINE s == sock[app.conn]
    <3>1. sock' = [sock EXCEPT ![app.conn] = s] BY <1>type, <2>3
    <3>2. s \in SocketRecord /\ s.st = "open" BY <1>here, <2>2
    <3>3. AllInStep => s.tcp = peer'[app.conn].tcp /\ s.tls = peer'[app.conn].tls
      BY <2>2, <2>3 DEF AllInStep, InStep
    <3>4. s.st = "finWait2" <=> sock[app.conn].st = "finWait2" OBVIOUS
    <3>5. /\ peer' \in [Conns -> [tcp : SeqNums, tls : SeqNums]]
          /\ \A d \in Conns : peer'[d] = peer[d]
      BY <1>same, <2>3
    <3> HIDE DEF s
    <3> QED
      BY <1>type, <2>1, <2>2, <3>1, <3>2, <3>3, <3>4, <3>5, SocketWritten DEF Creating
  <2>4. CASE /\ sock' = [sock EXCEPT ![app.conn].tcp = Inc(@), ![app.conn].tls = Inc(@)]
             /\ peer' = [peer EXCEPT ![app.conn].tcp = Inc(@), ![app.conn].tls = Inc(@)]
    <3>1. PICK s \in SocketRecord :
             /\ sock' = [sock EXCEPT ![app.conn] = s] /\ s.st = "open"
             /\ peer' \in [Conns -> [tcp : SeqNums, tls : SeqNums]]
             /\ \A d \in Conns : d # app.conn => peer'[d] = peer[d]
             /\ AllInStep => s.tcp = peer'[app.conn].tcp /\ s.tls = peer'[app.conn].tls
      BY <1>sent, <2>2, <2>4
    <3> QED BY <1>type, <2>1, <2>2, <3>1, SocketWritten DEF Creating
  <2> QED BY <1>6, <2>3, <2>4 DEF SendFirst
<1>7. ASSUME NEW c \in Conns, Transfer(c) PROVE Goal
  <2>1. sock[c].st = "open" /\ c \in owned /\ UNCHANGED <<owned, app>>
    BY <1>7 DEF Transfer
  <2>2. PICK s \in SocketRecord :
           /\ sock' = [sock EXCEPT ![c] = s] /\ s.st = "open"
           /\ peer' \in [Conns -> [tcp : SeqNums, tls : SeqNums]]
           /\ \A d \in Conns : d # c => peer'[d] = peer[d]
           /\ AllInStep => s.tcp = peer'[c].tcp /\ s.tls = peer'[c].tls
    BY <1>7, <1>sent DEF Transfer
  <2> QED BY <1>type, <2>1, <2>2, SocketWritten
<1>8. ASSUME NEW c \in Conns, Close(c) PROVE Goal
  <2>1. /\ sock[c].st = "open" /\ c \in owned /\ owned' = owned \ {c}
        /\ UNCHANGED <<peer, app>>
        /\ sock' = IF cfg.stack = "lwip" THEN [sock EXCEPT ![c].st = "timeWait"]
                                         ELSE [sock EXCEPT ![c] = NoSocket]
    BY <1>8 DEF Close
  <2>2. CASE cfg.stack = "lwip"
    <3> DEFINE s == [sock[c] EXCEPT !.st = "timeWait"]
    <3>1. s \in SocketRecord /\ s.st = "timeWait" BY <1>here DEF SocketRecord, OpenStates
    <3>2. sock' = [sock EXCEPT ![c] = s] BY <2>1, <2>2
    <3> HIDE DEF s
    <3> QED BY <1>type, <1>same, <2>1, <3>1, <3>2, SocketWritten
  <2>3. CASE cfg.stack # "lwip"
    BY <1>type, <1>same, <1>none, <2>1, <2>3, SocketWritten
  <2> QED BY <2>2, <2>3
<1>9. ASSUME NEW c \in Conns, TimeWaitEnds(c) PROVE Goal
  <2>1. sock[c].st = "timeWait" /\ sock' = [sock EXCEPT ![c] = NoSocket]
        /\ UNCHANGED <<peer, owned, app>>
    BY <1>9 DEF TimeWaitEnds
  <2>2. c \notin owned BY <1>type, <2>1
  <2>3. app.at \in Creating => app.conn # c BY <2>1 DEF SocketWays, Creating
  <2> QED BY <1>type, <1>same, <1>none, <2>1, <2>2, <2>3, SocketWritten
<1> HIDE DEF Goal
<1> QED
  BY <1>1, <1>2, <1>3, <1>4, <1>5, <1>6, <1>7, <1>8, <1>9 DEF SocketsStep, KeepaliveChoices

\* While the stack runs there is no session, so that the host's own numbers count.
LEMMA SocketsKeepSession ==
  ASSUME SocketInv, SocketWays, SessionInv, SocketsStep, UNCHANGED tls
  PROVE  SessionInv'
<1>1. ~Suspended /\ UNCHANGED env
  BY DEF SocketsStep, SocketCreate, Transfer, Close, TimeWaitEnds, BindFails, BindConnect,
     ConnectFails, Connected, SetOptions, SendFirst
<1>2. UNCHANGED <<cfg, pc, ctx, table, whd, wowl, faults, session, mqtt, woken, tcpReset>>
  BY <1>1 DEF env, tls
<1>3. CASE RestoreFaults \cap faults = {}
  <2>1. /\ ~Holds /\ ~LpaAt("sleep", "protect") /\ ~LpaAt("sleep", "register") /\ ~Dozing
        /\ \A s \in Slots : table[s] # "tls"
    BY <1>1, <1>3, AwakeUnhanded
  <2>2. /\ ~Holds' /\ ~LpaAt("sleep", "protect")' /\ ~LpaAt("sleep", "register")' /\ ~Dozing'
        /\ \A s \in Slots : table'[s] # "tls"
    BY <1>2, <2>1 DEF Holds, LpaAt, At, Dozing
  <2>3. "netxOrder" \notin faults' => AllInStep' BY <1>2, <1>3, <2>1, Unhanded, SocketsKeepWays
  <2>4. AsWoken => AsWoken' BY <1>2, SocketsKeepWays DEF AsWoken
  <2>5. cfg'.stack = "lwip" /\ "lateHandler" \notin faults' /\ ~(whd'.runs = "tls" /\ whd'.late)
          => AsWoken'
    BY <1>2, <1>3, <2>1, <2>4, Unhanded
  <2> QED BY <2>2, <2>3, <2>5, NoneHanded
<1>4. CASE RestoreFaults \cap faults # {} BY <1>2, <1>4 DEF SessionInv
<1> QED BY <1>3, <1>4

\* The other components leave the sockets and the configuration of the TLS offload.
LEMMA OthersKeepWays ==
  ASSUME MqttWays, [Next]_system, ~TlsStep, UNCHANGED tls
  PROVE  MqttWays' /\ (SocketWays /\ ~SocketsStep => SocketWays')
<1>1. CASE SocketsStep
  <2>1. app' = app \/ app'.at \in Creating \cup {"idle", "clearEntry"}
    <3>1. CASE BindFails \/ BindConnect \/ ConnectFails \/ Connected \/ SendFirst
      BY <3>1 DEF BindFails, BindConnect, ConnectFails, Connected, SendFirst, AppGoto, Creating
    <3>2. CASE \E c \in Conns : SocketCreate(c) \/ Transfer(c) \/ Close(c) \/ TimeWaitEnds(c)
      BY <3>2 DEF SocketCreate, Transfer, Close, TimeWaitEnds, AppGoto, Creating
    <3>3. CASE \E keepalive \in KeepaliveChoices : SetOptions(keepalive)
      BY <3>3 DEF SetOptions, AppGoto, Creating
    <3> QED BY <1>1, <3>1, <3>2, <3>3 DEF SocketsStep
  <2> QED BY <1>1, <2>1 DEF MqttWays, Creating, tls
<1>2. CASE ~SocketsStep
  <2>1. /\ UNCHANGED <<sock, peer, created, owned>>
        /\ app' = app \/ app'.at \in {"writeEntry", "idle"}
    BY <1>2, OthersLeaveSockets
  <2>2. MqttWays' BY <2>1 DEF MqttWays, tls
  <2>3. SocketWays => SocketWays' BY <2>1 DEF SocketWays, Creating
  <2> QED BY <2>2, <2>3
<1> QED BY <1>1, <1>2

\* They leave the session where it is: the dispatching thread passes the TLS offload in
\* its own steps only, and its handler is overtaken before it changes sides.
LEMMA OthersKeepSession ==
  ASSUME PcInv, Ranges, TableType, WhdShape, WowlShape, SessionInv,
         RestoreFaults \cap faults = {}, [Next]_system, ~Own("tls"), ~SocketsStep
  PROVE  SessionInv'
<1>apart. Apart("tls") BY StepPlaces DEF Offloads
<1>tls. ~TlsStep BY DEF Own
<1>same. /\ UNCHANGED <<mqtt, tcpReset, tlsEntry, session, woken, cfg>>
         /\ UNCHANGED <<sock, peer, created, owned>> /\ wowl'.secure = wowl.secure
  BY <1>apart, <1>tls, OthersLeaveTls, OthersLeaveSockets DEF tls, Apart
<1>grow. faults \subseteq faults' BY <1>apart DEF Apart
<1>table. \A s \in Slots : table'[s] = "tls" => table[s] = "tls" BY <1>tls, OthersLeaveHandler
<1>whd. /\ whd'.runs = "tls" <=> whd.runs = "tls"
        /\ whd'.runs = "tls" /\ ~whd'.late => ~whd.late /\ (Dozing' <=> Dozing)
  BY <1>tls, OthersOvertake
<1>all. \A down, up : "start" \notin down /\ "start" \in up =>
          (Told("tls", down, up)' <=> Told("tls", down, up))
  BY <1>apart DEF Apart, Told
<1>told. /\ Told("tls", {"protect", "register"}, {"start", "restore", "release", "clear"})'
              <=> Told("tls", {"protect", "register"}, {"start", "restore", "release", "clear"})
         /\ Told("tls", {"protect", "register"}, {"start"})'
              <=> Told("tls", {"protect", "register"}, {"start"})
         /\ Told("tls", {"protect", "register"}, {"start", "restore"})'
              <=> Told("tls", {"protect", "register"}, {"start", "restore"})
         /\ Told("tls", {}, {"start", "restore", "release", "clear", "deregister"})'
              <=> Told("tls", {}, {"start", "restore", "release", "clear", "deregister"})
         /\ Told("tls", {}, {"start", "restore", "release", "clear"})'
              <=> Told("tls", {}, {"start", "restore", "release", "clear"})
         /\ Told("tls", {"register"}, {"start", "restore"})'
              <=> Told("tls", {"register"}, {"start", "restore"})
         /\ Told("tls", {}, {"start"})' <=> Told("tls", {}, {"start"})
  BY <1>all
<1>at. ASSUME NEW part \in {"protect", "register"}, LpaAt("sleep", part)' PROVE LpaAt("sleep", part)
  <2>1. Inside("lpa", "tls")' BY <1>at DEF LpaAt, At, Inside, Walking
  <2>2. pc'["lpa"] = pc["lpa"] BY <1>apart, <2>1 DEF Apart, Threads
  <2> QED BY <1>at, <1>same, <2>2 DEF LpaAt, At
<1>1. Holds' <=> Holds BY <1>same DEF Holds
<1>2. SessionWays' BY <1>same, <1>told, <1>at, <1>1 DEF SessionInv, SessionWays
<1>3. \A c : HandedOver(c)' <=> HandedOver(c) BY <1>same, <1>told, <1>1 DEF HandedOver
<1>4. StepWays' BY <1>same, <1>grow, <1>3 DEF SessionInv, StepWays, InStep
<1>5. HandlerWays' BY <1>same, <1>table, <1>told, <1>1 DEF SessionInv, HandlerWays
<1>6. WokenWays'
  <2> SUFFICES ASSUME cfg.stack = "lwip", "lateHandler" \notin faults',
                      ~(whd'.runs = "tls" /\ whd'.late)
               PROVE  /\ whd'.runs = "tls" /\ Dozing' => Holds' /\ Told("tls", {}, {"start"})'
                      /\ \A c \in Conns : c \in woken <=> sock[c].st = "finWait2" \/ ResetDue(c)'
    BY <1>same DEF WokenWays
  <2>1. /\ whd.runs = "tls" /\ Dozing => Holds /\ Told("tls", {}, {"start"})
        /\ \A c \in Conns : c \in woken <=> sock[c].st = "finWait2" \/ ResetDue(c)
    BY <1>grow, <1>whd DEF SessionInv, WokenWays
  <2>2. whd'.runs = "tls" /\ Dozing' <=> whd.runs = "tls" /\ Dozing BY <1>whd
  <2>3. \A c : ResetDue(c)' <=> ResetDue(c) BY <1>same, <1>told, <1>1, <2>2 DEF ResetDue
  <2> QED BY <1>told, <1>1, <2>1, <2>2, <2>3
<1> QED BY <1>2, <1>4, <1>5, <1>6 DEF SessionInv

-----------------------------------------------------------------------------
(* The steps of the TLS offload                                            *)

\* In the offload the part decides what the dispatching thread is past.
LEMMA ToldHere ==
  ASSUME PcInv, Ranges, NEW at \in {"sleep", "awake"}, NEW part, LpaAt(at, part)
  PROVE  /\ pc["lpa"].at = at
         /\ \A down, up : Told("tls", down, up)
                            <=> "tls" \in ctx /\ (IF at = "sleep" THEN part \in down ELSE part \in up)
<1>1. pc["lpa"] \in Place /\ cfg \in Configs BY DEF PcInv, PcType, Threads
<1>2. pc["lpa"].i \in DOMAIN cfg.list
  BY <1>1, ListFacts DEF Ranges, Threads, LpaAt, At, Place
<1>3. \A down, up : Past(cfg.list, pc["lpa"], "tls", down, up)
                      <=> (IF at = "sleep" THEN part \in down ELSE part \in up)
  BY <1>1, <1>2, PastHere DEF LpaAt, At
<1> QED BY <1>3 DEF Told, LpaAt, At

\* It goes to another part.
LEMMA ToldGoesTo ==
  ASSUME PcInv, Ranges, UNCHANGED <<cfg, ctx>>, NEW at \in {"sleep", "awake"}, NEW part,
         LpaAt(at, part), NEW p \in Parts, Goto("lpa", p)
  PROVE  /\ pc'["lpa"].at = at
         /\ \A q : LpaAt("sleep", q)' => at = "sleep" /\ q = p
         /\ \A down, up : Told("tls", down, up)'
                            <=> "tls" \in ctx /\ (IF at = "sleep" THEN p \in down ELSE p \in up)
<1>1. 0 \in Nat OBVIOUS
<1>2. /\ At("lpa", at, "tls", p)'
      /\ \A down, up : Past(cfg'.list, pc'["lpa"], "tls", down, up)
                         <=> (IF at = "sleep" THEN p \in down ELSE p \in up)
  BY <1>1, LpaGoesTo DEF LpaAt
<1>3. \A down, up : Told("tls", down, up)'
                      <=> "tls" \in ctx /\ (IF at = "sleep" THEN p \in down ELSE p \in up)
  BY <1>2 DEF Told
<1> QED BY <1>2, <1>3 DEF LpaAt, At

\* It goes on to the next offload.
LEMMA ToldGoesOn ==
  ASSUME PcInv, Ranges, UNCHANGED <<cfg, ctx>>, NEW at \in {"sleep", "awake"}, NEW part,
         LpaAt(at, part), NextOffload("lpa")
  PROVE  /\ pc'["lpa"].at = at
         /\ \A q : LpaAt("sleep", q)' => q = "start"
         /\ \A down, up : Told("tls", down, up)' <=> "tls" \in ctx /\ at = "sleep"
<1>1. /\ pc'["lpa"].part = "start"
      /\ \A down, up : Past(cfg'.list, pc'["lpa"], "tls", down, up) <=> at = "sleep"
  BY LpaGoesOn DEF LpaAt
<1>2. \A down, up : Told("tls", down, up)' <=> "tls" \in ctx /\ at = "sleep"
  BY <1>1 DEF Told
<1>3. pc'["lpa"].at = at BY NextPlace DEF PcInv, LpaAt, At, Threads
<1> QED BY <1>1, <1>2, <1>3 DEF LpaAt, At

\* What is said of the session speaks of these variables only.
LEMMA SessionSame ==
  ASSUME SessionInv, UNCHANGED <<cfg, ctx, table, whd, sock, peer, created, owned>>,
         UNCHANGED <<mqtt, tcpReset, tlsEntry, session, woken>>,
         pc'["lpa"] = pc["lpa"], wowl'.secure = wowl.secure, faults \subseteq faults'
  PROVE  SessionInv'
<1>told. \A down, up : Told("tls", down, up)' <=> Told("tls", down, up) BY DEF Told
<1>at. \A part : LpaAt("sleep", part)' <=> LpaAt("sleep", part) BY DEF LpaAt, At
<1>1. CASE RestoreFaults \cap faults = {}
  <2>1. Holds' <=> Holds BY DEF Holds
  <2>2. SessionWays' BY <1>1, <1>told, <1>at, <2>1 DEF SessionInv, SessionWays
  <2>3. \A c : (HandedOver(c)' <=> HandedOver(c)) /\ (ResetDue(c)' <=> ResetDue(c))
    BY <1>told, <2>1 DEF HandedOver, ResetDue, Dozing
  <2>4. StepWays' BY <1>1, <2>3 DEF SessionInv, StepWays, InStep
  <2>5. HandlerWays' BY <1>1, <1>told, <2>1 DEF SessionInv, HandlerWays
  <2>6. WokenWays' BY <1>1, <1>told, <2>1, <2>3 DEF SessionInv, WokenWays, Dozing
  <2> QED BY <2>2, <2>4, <2>5, <2>6 DEF SessionInv
<1>2. CASE RestoreFaults \cap faults # {} BY <1>2 DEF SessionInv
<1> QED BY <1>1, <1>2

\* The device has no session and gets none.
LEMMA StaysUnhanded ==
  ASSUME SessionInv, RestoreFaults \cap faults = {}, ~Holds, ~Holds',
         UNCHANGED <<cfg, sock, peer, woken, whd>>, faults \subseteq faults',
         pc'["lpa"].at = pc["lpa"].at,
         ~LpaAt("sleep", "protect")', ~LpaAt("sleep", "register")',
         \A s \in Slots : table'[s] # "tls"
  PROVE  SessionInv'
<1>1. /\ "netxOrder" \notin faults => AllInStep
      /\ cfg.stack = "lwip" /\ "lateHandler" \notin faults /\ ~(whd.runs = "tls" /\ whd.late) =>
           ~(whd.runs = "tls" /\ Dozing) /\ AsWoken
  BY Unhanded
<1>2. (AllInStep => AllInStep') /\ (AsWoken => AsWoken') /\ (Dozing' <=> Dozing)
  BY DEF AllInStep, AsWoken, InStep, Dozing
<1>3. "netxOrder" \notin faults' => AllInStep' BY <1>1, <1>2
<1>4. cfg'.stack = "lwip" /\ "lateHandler" \notin faults' /\ ~(whd'.runs = "tls" /\ whd'.late) =>
           ~(whd'.runs = "tls" /\ Dozing') /\ AsWoken'
  BY <1>1, <1>2
<1> QED BY <1>3, <1>4, NoneHanded

\* Nor does it get one while the stack runs.
LEMMA StaysAwake ==
  ASSUME SessionInv, RestoreFaults \cap faults = {}, ~Suspended,
         UNCHANGED <<cfg, sock, peer, woken, whd, session, table>>, faults \subseteq faults',
         pc'["lpa"] = pc["lpa"]
  PROVE  SessionInv'
<1>1. ~Holds /\ \A s \in Slots : table[s] # "tls" BY AwakeUnhanded
<1>2. ~Holds' BY <1>1 DEF Holds
<1>3. ~LpaAt("sleep", "protect")' /\ ~LpaAt("sleep", "register")'
  BY DEF LpaAt, At, Suspended
<1> QED BY <1>1, <1>2, <1>3, StaysUnhanded

\* On its way to sleep, before the session is activated, the thread finds none.
LEMMA NotYetHanded ==
  ASSUME PcInv, Ranges, SessionInv, RestoreFaults \cap faults = {},
         NEW part \in {"start", "pattern", "activate", "cleanUp"}, LpaAt("sleep", part)
  PROVE  ~Holds /\ \A s \in Slots : table[s] # "tls"
<1>1. \A down, up : Told("tls", down, up) <=> "tls" \in ctx /\ part \in down BY ToldHere
<1> QED BY <1>1 DEF SessionInv, SessionWays, HandlerWays

\* The faults that the way back must not have had, one by one.
LEMMA NoRestoreFault ==
  RestoreFaults \cap faults' = {} =>
    /\ "tlsDelete" \notin faults' /\ "tlsStatus" \notin faults' /\ "tlsClear" \notin faults'
    /\ "tlsConfig" \notin faults' /\ "sentLate" \notin faults' /\ "reinit" \notin faults'
BY DEF RestoreFaults

\* The way to sleep: the session is activated for the configured connection.
LEMMA SleepKeepsSession ==
  ASSUME PcInv, Ranges, TableType, WowlShape, ProtectionWays, SocketInv, MqttWays, SessionInv,
         RestoreFaults \cap faults = {}, faults \subseteq faults',
         TlsSleep \/ TlsPattern \/ TlsActivate \/ TlsCleanUp \/ TlsProtect \/ TlsRegister
  PROVE  SessionInv'
<1>ways. SessionWays /\ StepWays /\ HandlerWays /\ WokenWays BY DEF SessionInv
<1>no. ProtectionFaults \cap faults = {} BY DEF ProtectionFaults, RestoreFaults
<1>1. ASSUME NEW part \in {"start", "pattern", "activate", "cleanUp"}, LpaAt("sleep", part),
             UNCHANGED <<cfg, ctx, table, sock, peer, woken, whd, session>>,
             \/ \E p \in Parts \ {"protect", "register"} : Goto("lpa", p)
             \/ NextOffload("lpa")
      PROVE  SessionInv'
  <2>1. ~Holds /\ \A s \in Slots : table[s] # "tls" BY <1>1, NotYetHanded
  <2>2. /\ pc'["lpa"].at = "sleep" /\ pc["lpa"].at = "sleep"
        /\ ~LpaAt("sleep", "protect")' /\ ~LpaAt("sleep", "register")'
    <3>1. CASE NextOffload("lpa") BY <1>1, <3>1, ToldHere, ToldGoesOn
    <3>2. ASSUME NEW p \in Parts \ {"protect", "register"}, Goto("lpa", p)
          PROVE  /\ pc'["lpa"].at = "sleep" /\ pc["lpa"].at = "sleep"
                 /\ ~LpaAt("sleep", "protect")' /\ ~LpaAt("sleep", "register")'
      BY <1>1, <3>2, ToldHere, ToldGoesTo
    <3> QED BY <1>1, <3>1, <3>2
  <2>3. ~Holds' BY <1>1, <2>1 DEF Holds
  <2> QED BY <1>1, <2>1, <2>2, <2>3, StaysUnhanded
<1>2. CASE TlsSleep
  <2>1. /\ LpaAt("sleep", "start")
        /\ UNCHANGED <<cfg, ctx, table, sock, peer, woken, whd, session>>
        /\ Goto("lpa", "pattern") \/ NextOffload("lpa")
    BY <1>2 DEF TlsSleep, tcp, tls
  <2> QED BY <1>1, <2>1 DEF Parts
<1>3. CASE TlsPattern
  <2>1. /\ LpaAt("sleep", "pattern")
        /\ UNCHANGED <<cfg, ctx, table, sock, peer, woken, whd, session>>
        /\ Goto("lpa", "activate") \/ NextOffload("lpa")
    BY <1>3 DEF TlsPattern, tcp, tls
  <2> QED BY <1>1, <2>1, SMTT(40) DEF Parts
<1>4. CASE TlsCleanUp
  <2>1. /\ LpaAt("sleep", "cleanUp") /\ NextOffload("lpa")
        /\ UNCHANGED <<cfg, ctx, table, sock, peer, woken, whd, session>>
    BY <1>4 DEF TlsCleanUp, tcp, tls
  <2> QED BY <1>1, <2>1
<1>5. CASE TlsActivate
  <2>1. /\ LpaAt("sleep", "activate")
        /\ UNCHANGED <<cfg, ctx, table, sock, peer, created, owned, woken, whd, wowl, mqtt>>
    BY <1>5 DEF TlsActivate, tcp
  <2>2. CASE Goto("lpa", "cleanUp") /\ UNCHANGED session BY <1>1, <2>1, <2>2 DEF Parts
  <2>3. ASSUME NEW c \in SecureStats(mqtt.conn), mqtt.socket \in owned, Goto("lpa", "protect"),
               session' = [conn |-> c, tcp |-> sock[c].tcp, tls |-> sock[mqtt.socket].tls]
        PROVE  SessionInv'
    <3>1. ~Holds /\ \A s \in Slots : table[s] # "tls" BY <2>1, NotYetHanded
    <3>2. /\ c = mqtt.conn /\ c \in Conns
          /\ cfg.stack # "lwip" => c \in Range(created) /\ sock[c].ka /\ sock[c].st = "open"
      BY <2>3 DEF SecureStats
    <3>3. c = mqtt.socket
      BY <2>3, <3>2, SocketAssumption DEF MqttWays, SocketInv
    <3>4. session'.conn = c /\ session'.tcp = sock[c].tcp /\ session'.tls = sock[c].tls
      BY <2>3, <3>3
    <3>5. Holds'
      <4>1. c # NoConn BY <3>2, SocketAssumption
      <4> QED BY <3>4, <4>1 DEF Holds, NoSession
    <3>6. /\ "tls" \in ctx /\ (mqtt.pattern => wowl.secure)
      BY <1>no, <2>1, ProtectionHere
    <3>7. /\ pc["lpa"].at = "sleep" /\ pc'["lpa"].at = "sleep"
          /\ \A down, up : Told("tls", down, up)' <=> "protect" \in down
      BY <2>1, <2>3, <3>6, ToldHere, ToldGoesTo DEF Parts
    <3>8. cfg.stack # "lwip" => created # <<>> BY <3>2 DEF Range
    <3>9. SessionWays'
      BY <2>1, <2>3, <3>2, <3>3, <3>4, <3>5, <3>6, <3>7, <3>8 DEF SessionWays
    <3>10. StepWays'
      <4>1. \A d : HandedOver(d)' <=> d = c BY <3>4, <3>5, <3>7 DEF HandedOver
      <4>2. "netxOrder" \notin faults => AllInStep BY <3>1, Unhanded
      <4> QED BY <2>1, <3>4, <4>1, <4>2 DEF StepWays, AllInStep, InStep
    <3>11. HandlerWays' BY <2>1, <3>1 DEF HandlerWays
    <3>12. WokenWays'
      <4>1. cfg.stack = "lwip" /\ "lateHandler" \notin faults /\ ~(whd.runs = "tls" /\ whd.late) =>
              ~(whd.runs = "tls" /\ Dozing) /\ AsWoken
        BY <3>1, Unhanded
      <4>2. \A d : ~ResetDue(d)' BY <3>7 DEF ResetDue
      <4>3. Dozing' <=> Dozing BY <3>7 DEF Dozing
      <4> QED BY <2>1, <4>1, <4>2, <4>3 DEF WokenWays, AsWoken
    <3> QED BY <3>9, <3>10, <3>11, <3>12 DEF SessionInv
  <2> QED BY <1>5, <2>2, <2>3 DEF TlsActivate
<1>6. CASE TlsProtect
  <2>1. /\ LpaAt("sleep", "protect") /\ Goto("lpa", "register") /\ tcpReset' = FALSE
        /\ UNCHANGED <<cfg, ctx, table, sock, peer, created, owned, woken, whd, wowl, mqtt,
                       session, faults>>
    BY <1>6 DEF TlsProtect, tcp
  <2>2. /\ pc["lpa"].at = "sleep"
        /\ \A down, up : Told("tls", down, up) <=> "tls" \in ctx /\ "protect" \in down
    BY <2>1, ToldHere
  <2>3. Holds /\ Holds' /\ "tls" \in ctx /\ \A s \in Slots : table[s] # "tls"
    BY <1>ways, <2>1, <2>2 DEF SessionWays, HandlerWays, Holds
  <2>4. /\ pc'["lpa"].at = "sleep"
        /\ \A down, up : Told("tls", down, up)' <=> "register" \in down
    BY <2>1, <2>3, ToldGoesTo DEF Parts
  <2>5. SessionWays' BY <1>ways, <2>1, <2>2, <2>3, <2>4 DEF SessionWays
  <2>6. \A c : (HandedOver(c)' <=> HandedOver(c)) /\ ~ResetDue(c)
    BY <2>1, <2>2, <2>3, <2>4 DEF HandedOver, ResetDue
  <2>7. StepWays' BY <1>ways, <2>1, <2>6 DEF StepWays, InStep
  <2>8. HandlerWays' BY <2>1, <2>3 DEF HandlerWays
  <2>9. WokenWays'
    <3>1. cfg.stack = "lwip" /\ "lateHandler" \notin faults /\ ~(whd.runs = "tls" /\ whd.late) =>
            /\ ~(whd.runs = "tls" /\ Dozing)
            /\ \A c \in Conns : c \in woken <=> sock[c].st = "finWait2"
      BY <1>ways, <2>2, <2>6 DEF WokenWays
    <3>2. Dozing' <=> Dozing BY <2>2, <2>4 DEF Dozing
    <3>3. \A c : ResetDue(c)' => whd.runs = "tls" /\ Dozing BY <2>1, <3>2 DEF ResetDue
    <3> QED BY <2>1, <3>1, <3>2, <3>3 DEF WokenWays
  <2> QED BY <2>5, <2>7, <2>8, <2>9 DEF SessionInv
<1>7. CASE TlsRegister
  <2>1. /\ LpaAt("sleep", "register") /\ NextOffload("lpa")
        /\ UNCHANGED <<cfg, ctx, sock, peer, created, owned, woken, whd, wowl, mqtt, session,
                       tcpReset>>
    BY <1>7 DEF TlsRegister, tcp
  <2>2. /\ pc["lpa"].at = "sleep"
        /\ \A down, up : Told("tls", down, up) <=> "tls" \in ctx /\ "register" \in down
    BY <2>1, ToldHere
  <2>3. Holds /\ Holds' /\ "tls" \in ctx /\ \A s \in Slots : table[s] # "tls"
    BY <1>ways, <2>1, <2>2 DEF SessionWays, HandlerWays, Holds
  <2>4. /\ pc'["lpa"].at = "sleep" /\ \A q : LpaAt("sleep", q)' => q = "start"
        /\ \A down, up : Told("tls", down, up)'
    BY <2>1, <2>3, ToldGoesOn
  <2>5. SessionWays' BY <1>ways, <2>1, <2>2, <2>3, <2>4 DEF SessionWays
  <2>6. Dozing' <=> Dozing BY <2>2, <2>4 DEF Dozing
  <2>7. \A c : (HandedOver(c)' <=> HandedOver(c)) /\ (ResetDue(c)' <=> ResetDue(c))
    BY <2>1, <2>2, <2>3, <2>4, <2>6 DEF HandedOver, ResetDue
  <2>8. StepWays' BY <1>ways, <2>1, <2>7 DEF StepWays, InStep
  <2>9. HandlerWays'
    <3>1. PICK e : Register("tls", tlsEntry, e) /\ tlsEntry' = e BY <1>7 DEF TlsRegister
    <3>2. \A s \in Slots : table'[s] = "tls" => s = e
      BY <2>3, <3>1, Registers DEF Clients
    <3> QED BY <2>3, <2>4, <3>1, <3>2 DEF HandlerWays
  <2>10. WokenWays'
    <3>1. cfg.stack = "lwip" /\ "lateHandler" \notin faults /\ ~(whd.runs = "tls" /\ whd.late) =>
            ~(whd.runs = "tls" /\ Dozing)
      BY <1>ways, <2>2 DEF WokenWays
    <3> QED BY <1>ways, <2>1, <2>6, <2>7, <3>1 DEF WokenWays
  <2> QED BY <2>5, <2>8, <2>9, <2>10 DEF SessionInv
<1> QED BY <1>2, <1>3, <1>4, <1>5, <1>6, <1>7

\* The numbers of the session go to the socket of the entry, and on NetX those of TCP
\* only when it was the first to be created.
LEMMA RestoreWrites ==
  ASSUME SocketInv, SocketWays, MqttWays, mqtt.socket \in owned,
         sock' = UpdateSockSeq(mqtt.conn, [sock EXCEPT ![mqtt.socket].tls = session.tls])
  PROVE  LET c == mqtt.socket IN
         /\ c \in Conns /\ \A d \in Conns : d # c => sock'[d] = sock[d]
         /\ sock'[c].tls = session.tls /\ sock'[c].ka = sock[c].ka
         /\ sock'[c].st \in {"open", "finWait2"}
         /\ mqtt.conn = c /\ cfg.stack = "lwip" =>
              /\ sock'[c].tcp = session.tcp
              /\ sock'[c].st = IF tcpReset THEN "finWait2" ELSE sock[c].st
         /\ mqtt.conn # c \/ cfg.stack # "lwip" => sock'[c].st = sock[c].st
         /\ /\ mqtt.conn = c /\ cfg.stack # "lwip" /\ created # <<>> /\ c = Head(created)
            /\ sock[c].ka /\ sock[c].st = "open"
            => sock'[c].tcp = session.tcp
<1> DEFINE c == mqtt.socket
           s == [sock[c] EXCEPT !.tls = session.tls]
           socks == [sock EXCEPT ![c] = s]
<1>1. c \in Conns /\ sock \in [Conns -> SocketRecord] /\ sock[c].st \in {"open", "finWait2"}
  BY DEF SocketInv, SocketWays
<1>2. mqtt.conn \in {c, NoConn} /\ NoConn \notin Conns
  BY <1>1, SocketAssumption DEF MqttWays
<1>3. /\ s = [st |-> sock[c].st, ka |-> sock[c].ka, tcp |-> sock[c].tcp, tls |-> session.tls]
  BY <1>1 DEF SocketRecord
<1>4. [sock EXCEPT ![mqtt.socket].tls = session.tls] = socks BY <1>1
<1> HIDE DEF s
<1>5. socks[c] = s /\ \A d \in Conns : d # c => socks[d] = sock[d] BY <1>1
<1> HIDE DEF socks
<1>6. sock' = UpdateSockSeq(mqtt.conn, socks) BY <1>4
<1>7. \A d \in Conns : d # c => sock'[d] = sock[d]
  <2>1. CASE cfg.stack = "lwip" BY <1>2, <1>5, <1>6, <2>1 DEF UpdateSockSeq
  <2>2. CASE cfg.stack # "lwip" BY <1>2, <1>5, <1>6, <2>2 DEF UpdateSockSeq
  <2> QED BY <2>1, <2>2
<1>8. s.st = sock[c].st /\ s.ka = sock[c].ka /\ s.tls = session.tls BY <1>3
<1> DEFINE r == [s EXCEPT !.tcp = session.tcp, !.st = IF tcpReset THEN "finWait2" ELSE @]
           q == [s EXCEPT !.tcp = session.tcp]
<1>9. CASE cfg.stack = "lwip" /\ mqtt.conn = c
  <2>1. sock'[c] = r BY <1>1, <1>5, <1>6, <1>8, <1>9 DEF UpdateSockSeq
  <2>2. /\ r.tcp = session.tcp /\ r.ka = sock[c].ka /\ r.tls = session.tls
        /\ r.st = IF tcpReset THEN "finWait2" ELSE sock[c].st
    <3>1. CASE tcpReset
      <4>1. r = [s EXCEPT !.tcp = session.tcp, !.st = "finWait2"] BY <3>1
      <4> HIDE DEF r
      <4> QED BY <1>3, <3>1, <4>1
    <3>2. CASE ~tcpReset
      <4>1. r = [s EXCEPT !.tcp = session.tcp, !.st = @] BY <3>2
      <4> HIDE DEF r
      <4> QED BY <1>3, <3>2, <4>1
    <3> QED BY <3>1, <3>2
  <2> HIDE DEF r
  <2>3. /\ sock'[c].tcp = session.tcp /\ sock'[c].ka = sock[c].ka /\ sock'[c].tls = session.tls
        /\ sock'[c].st = IF tcpReset THEN "finWait2" ELSE sock[c].st
        /\ sock'[c].st \in {"open", "finWait2"}
    BY <1>1, <2>1, <2>2
  <2> HIDE DEF q
  <2> QED BY <1>1, <1>7, <1>9, <2>3
<1>10. CASE cfg.stack # "lwip" /\ mqtt.conn = c /\ created # <<>> /\ c = Head(created)
            /\ sock[c].ka /\ sock[c].st = "open"
  <2>1. sock'[c] = q BY <1>1, <1>5, <1>6, <1>8, <1>10 DEF UpdateSockSeq
  <2>2. q = [st |-> sock[c].st, ka |-> sock[c].ka, tcp |-> session.tcp, tls |-> session.tls]
    BY <1>3
  <2> HIDE DEF q, r
  <2>3. /\ sock'[c].tcp = session.tcp /\ sock'[c].ka = sock[c].ka /\ sock'[c].tls = session.tls
        /\ sock'[c].st = sock[c].st
    BY <2>1, <2>2
  <2> QED BY <1>1, <1>7, <1>10, <2>3
<1> HIDE DEF q, r
<1>11. CASE ~(cfg.stack = "lwip" /\ mqtt.conn = c)
            /\ ~(cfg.stack # "lwip" /\ mqtt.conn = c /\ created # <<>> /\ c = Head(created)
                 /\ sock[c].ka /\ sock[c].st = "open")
  <2>1. sock'[c] = s
    <3>1. CASE cfg.stack = "lwip" BY <1>1, <1>2, <1>5, <1>6, <1>11, <3>1 DEF UpdateSockSeq
    <3>2. CASE cfg.stack # "lwip" BY <1>1, <1>2, <1>5, <1>6, <1>8, <1>11, <3>2 DEF UpdateSockSeq
    <3> QED BY <3>1, <3>2
  <2> QED BY <1>1, <1>7, <1>8, <1>11, <2>1
<1> QED BY <1>9, <1>10, <1>11

\* The way back: the numbers are the host's again, and the session is cleared.
LEMMA AwakeKeepsSession ==
  ASSUME PcInv, Ranges, TableType, WowlShape, SocketInv, SocketWays, MqttWays, SessionInv,
         RestoreFaults \cap faults' = {}, faults \subseteq faults',
         TlsWake \/ TlsRestore \/ TlsRelease \/ TlsClear \/ TlsDeregister
  PROVE  SessionInv'
<1>no. /\ RestoreFaults \cap faults = {}
       /\ "tlsDelete" \notin faults' /\ "tlsStatus" \notin faults' /\ "tlsClear" \notin faults'
       /\ "tlsConfig" \notin faults'
  BY NoRestoreFault
<1>ways. SessionWays /\ StepWays /\ HandlerWays /\ WokenWays BY <1>no DEF SessionInv
<1>none. ASSUME NEW part, LpaAt("awake", part), ~Holds,
                UNCHANGED <<cfg, ctx, sock, peer, woken, whd, session>>,
                (\E p \in Parts : Goto("lpa", p)) \/ NextOffload("lpa"),
                \A s \in Slots : table'[s] # "tls"
         PROVE  SessionInv'
  <2>1. /\ pc'["lpa"].at = "awake" /\ pc["lpa"].at = "awake"
        /\ ~LpaAt("sleep", "protect")' /\ ~LpaAt("sleep", "register")'
    <3>1. pc["lpa"].at = "awake" BY <1>none DEF LpaAt, At
    <3>2. pc'["lpa"].at = "awake"
      <4>1. CASE NextOffload("lpa") BY <1>none, <4>1, ToldGoesOn
      <4>2. ASSUME NEW p \in Parts, Goto("lpa", p) PROVE pc'["lpa"].at = "awake"
        BY <1>none, <4>2, ToldGoesTo
      <4> QED BY <1>none, <4>1, <4>2
    <3> QED BY <3>1, <3>2 DEF LpaAt, At
  <2>2. ~Holds' BY <1>none DEF Holds
  <2> QED BY <1>no, <1>none, <2>1, <2>2, StaysUnhanded
\* The thread goes on with the session: what has to be shown in each case.
<1>to. ASSUME NEW part, LpaAt("awake", part), NEW p \in Parts, Goto("lpa", p),
              UNCHANGED <<cfg, ctx>>
       PROVE  /\ pc'["lpa"].at = "awake" /\ ~Dozing /\ ~Dozing'
              /\ ~LpaAt("sleep", "protect")' /\ ~LpaAt("sleep", "register")'
              /\ \A down, up : (Told("tls", down, up) <=> "tls" \in ctx /\ part \in up)
                               /\ (Told("tls", down, up)' <=> "tls" \in ctx /\ p \in up)
  BY <1>to, ToldHere, ToldGoesTo DEF Dozing
<1>1. CASE TlsWake
  <2>1. /\ LpaAt("awake", "start")
        /\ UNCHANGED <<cfg, ctx, table, sock, peer, created, owned, woken, whd, mqtt, session,
                       tcpReset, tlsEntry>>
    BY <1>1 DEF TlsWake, tcp, tls
  <2>2. \A down, up : Told("tls", down, up) <=> "tls" \in ctx /\ "start" \in up
    BY <2>1, ToldHere
  <2>3. CASE "tls" \notin ctx
    <3>1. ~Holds /\ \A s \in Slots : table[s] # "tls"
      BY <1>ways, <2>2, <2>3 DEF SessionWays, HandlerWays
    <3> QED BY <1>1, <1>none, <2>1, <2>3, <3>1 DEF TlsWake
  <2>4. CASE "tls" \in ctx
    <3>1. PICK ok \in BOOLEAN :
            DeletePattern(ok) /\ IF ok THEN Goto("lpa", "restore") ELSE NextOffload("lpa")
      BY <1>1, <2>4 DEF TlsWake
    <3>2. mqtt.pattern /\ wowl.secure => ok BY <1>no, <3>1, PatternDeleted
    <3>3. ~mqtt.pattern => ok BY <3>1 DEF DeletePattern
    <3>4. CASE ok # TRUE
      <4>1. ~Holds /\ \A s \in Slots : table[s] # "tls"
        BY <1>ways, <2>2, <2>4, <3>2, <3>3, <3>4 DEF SessionWays, HandlerWays
      <4> QED BY <1>none, <2>1, <3>1, <3>4, <4>1
    <3>5. CASE ok = TRUE
      <4>1. Goto("lpa", "restore") BY <3>1, <3>5
      <4>2. /\ pc'["lpa"].at = "awake" /\ ~Dozing /\ ~Dozing'
            /\ ~LpaAt("sleep", "protect")' /\ ~LpaAt("sleep", "register")'
            /\ \A down, up : (Told("tls", down, up) <=> "start" \in up)
                             /\ (Told("tls", down, up)' <=> "restore" \in up)
        BY <1>to, <2>1, <2>4, <4>1 DEF Parts
      <4>3. Holds' <=> Holds BY <2>1 DEF Holds
      <4>4. SessionWays' BY <1>ways, <2>1, <4>2, <4>3 DEF SessionWays
      <4>5. \A c : (HandedOver(c)' <=> HandedOver(c)) /\ (ResetDue(c)' <=> ResetDue(c))
        BY <2>1, <4>2, <4>3 DEF HandedOver, ResetDue
      <4>6. StepWays' BY <1>ways, <2>1, <4>5 DEF StepWays, InStep
      <4>7. HandlerWays' BY <1>ways, <2>1, <4>2, <4>3 DEF HandlerWays
      <4>8. WokenWays' BY <1>ways, <2>1, <4>2, <4>5 DEF WokenWays
      <4> QED BY <4>4, <4>6, <4>7, <4>8 DEF SessionInv
    <3> QED BY <3>4, <3>5
  <2> QED BY <2>3, <2>4
<1>2. CASE TlsRestore
  <2>1. /\ LpaAt("awake", "restore") /\ Goto("lpa", "release")
        /\ UNCHANGED <<cfg, ctx, table, peer, created, owned, woken, whd, wowl, mqtt, session,
                       tcpReset, tlsEntry>>
    BY <1>2 DEF TlsRestore, tls
  <2>2. /\ pc'["lpa"].at = "awake" /\ ~Dozing /\ ~Dozing'
        /\ ~LpaAt("sleep", "protect")' /\ ~LpaAt("sleep", "register")'
        /\ \A down, up : (Told("tls", down, up) <=> "tls" \in ctx /\ "restore" \in up)
                         /\ (Told("tls", down, up)' <=> "tls" \in ctx /\ "release" \in up)
    BY <1>to, <2>1 DEF Parts
  <2>3. CASE session = NoSession
    <3>1. ~Holds /\ UNCHANGED sock BY <1>2, <2>3 DEF TlsRestore, Holds
    <3>2. \A s \in Slots : table[s] # "tls" BY <1>ways, <2>2, <3>1 DEF HandlerWays
    <3> QED BY <1>none, <2>1, <3>1, <3>2 DEF Parts
  <2>4. CASE session # NoSession
    <3>1. /\ Holds /\ Holds' /\ "tls" \in ctx
          /\ session.conn = mqtt.conn /\ mqtt.conn = mqtt.socket /\ mqtt.socket \in owned
          /\ cfg.stack # "lwip" => /\ created # <<>>
                                   /\ sock[mqtt.conn].ka /\ sock[mqtt.conn].st = "open"
      BY <1>ways, <2>1, <2>2, <2>4 DEF SessionWays, Holds
    <3>2. /\ sock' = UpdateSockSeq(mqtt.conn, [sock EXCEPT ![mqtt.socket].tls = session.tls])
          /\ IF cfg.stack = "netx" /\ created # <<>> /\ mqtt.conn # Head(created)
             THEN Note("netxOrder") ELSE UNCHANGED faults
      BY <1>2, <1>no, <2>4, <3>1 DEF TlsRestore, Faulty
    <3>3. cfg.stack \in {"lwip", "netx"} BY EnvAssumption DEF PcInv
    <3> DEFINE c == mqtt.socket
    <3>4. /\ c \in Conns /\ \A d \in Conns : d # c => sock'[d] = sock[d]
          /\ sock'[c].tls = session.tls /\ sock'[c].ka = sock[c].ka
          /\ sock'[c].st \in {"open", "finWait2"}
          /\ cfg.stack = "lwip" => /\ sock'[c].tcp = session.tcp
                                   /\ sock'[c].st = IF tcpReset THEN "finWait2" ELSE sock[c].st
          /\ cfg.stack # "lwip" => sock'[c].st = sock[c].st
          /\ cfg.stack # "lwip" /\ c = Head(created) => sock'[c].tcp = session.tcp
      BY <3>1, <3>2, RestoreWrites
    <3>5. SessionWays' BY <1>ways, <2>1, <2>2, <3>1, <3>4 DEF SessionWays
    <3>6. \A d : /\ ~HandedOver(d)' /\ (HandedOver(d) <=> d = c)
                 /\ ~ResetDue(d)' /\ (ResetDue(d) <=> d = c /\ tcpReset)
      BY <2>2, <3>1 DEF HandedOver, ResetDue
    <3>7. StepWays'
      <4> SUFFICES ASSUME "netxOrder" \notin faults', NEW d \in Conns, sock'[d].st = "open"
                   PROVE  InStep(sock[d], d)'
        BY <3>6 DEF StepWays
      <4>1. "netxOrder" \notin faults OBVIOUS
      <4>2. CASE d # c BY <1>ways, <2>1, <3>4, <3>6, <4>1, <4>2 DEF StepWays, InStep
      <4>3. CASE d = c
        <5>1. sock[c].st = "open" BY <3>1, <3>3, <3>4, <4>3
        <5>2. session.tcp = peer[c].tcp /\ session.tls = peer[c].tls
          BY <1>ways, <3>4, <3>6, <4>1, <5>1 DEF StepWays, InStep
        <5>3. cfg.stack # "lwip" => c = Head(created) BY <3>1, <3>2, <3>3 DEF Note
        <5> QED BY <2>1, <3>4, <4>3, <5>2, <5>3 DEF InStep
      <4> QED BY <4>2, <4>3
    <3>8. HandlerWays' BY <1>ways, <2>1, <2>2, <3>1 DEF HandlerWays
    <3>9. WokenWays'
      <4> SUFFICES ASSUME cfg.stack = "lwip", "lateHandler" \notin faults',
                          ~(whd.runs = "tls" /\ whd.late), NEW d \in Conns
                   PROVE  d \in woken <=> sock'[d].st = "finWait2"
        BY <2>1, <2>2, <3>6 DEF WokenWays
      <4>1. "lateHandler" \notin faults OBVIOUS
      <4>2. d \in woken <=> sock[d].st = "finWait2" \/ ResetDue(d)
        BY <1>ways, <4>1 DEF WokenWays
      <4> QED BY <3>4, <3>6, <4>2
    <3> QED BY <3>5, <3>7, <3>8, <3>9 DEF SessionInv
  <2> QED BY <2>3, <2>4
<1>3. CASE TlsRelease
  <2>1. /\ LpaAt("awake", "release") /\ Goto("lpa", "clear")
        /\ UNCHANGED <<cfg, ctx, table, sock, peer, created, owned, woken, whd, wowl, faults, mqtt,
                       session, tcpReset, tlsEntry>>
    BY <1>3 DEF TlsRelease, tcp
  <2>2. /\ pc'["lpa"].at = "awake" /\ ~Dozing /\ ~Dozing'
        /\ ~LpaAt("sleep", "protect")' /\ ~LpaAt("sleep", "register")'
        /\ \A down, up : (Told("tls", down, up) <=> "tls" \in ctx /\ "release" \in up)
                         /\ (Told("tls", down, up)' <=> "tls" \in ctx /\ "clear" \in up)
    BY <1>to, <2>1 DEF Parts
  <2>3. Holds' <=> Holds BY <2>1 DEF Holds
  <2>4. SessionWays' BY <1>ways, <2>1, <2>2, <2>3 DEF SessionWays
  <2>5. \A c : (HandedOver(c)' <=> HandedOver(c)) /\ (ResetDue(c)' <=> ResetDue(c))
    BY <2>1, <2>2, <2>3 DEF HandedOver, ResetDue
  <2>6. StepWays' BY <1>ways, <2>1, <2>5 DEF StepWays, InStep
  <2>7. HandlerWays' BY <1>ways, <2>1, <2>2, <2>3 DEF HandlerWays
  <2>8. WokenWays' BY <1>ways, <2>1, <2>2, <2>5 DEF WokenWays
  <2> QED BY <2>4, <2>6, <2>7, <2>8 DEF SessionInv
<1>4. CASE TlsClear
  <2>1. /\ LpaAt("awake", "clear") /\ Goto("lpa", "deregister") /\ session' = NoSession
        /\ UNCHANGED <<cfg, ctx, table, sock, peer, created, owned, woken, whd, mqtt,
                       tcpReset, tlsEntry>>
    BY <1>4, <1>no DEF TlsClear, TlsCommand, Faulty, tcp
  <2>2. /\ pc'["lpa"].at = "awake" /\ ~Dozing /\ ~Dozing'
        /\ ~LpaAt("sleep", "protect")' /\ ~LpaAt("sleep", "register")'
        /\ \A down, up : (Told("tls", down, up) <=> "tls" \in ctx /\ "clear" \in up)
                         /\ (Told("tls", down, up)' <=> "tls" \in ctx /\ "deregister" \in up)
    BY <1>to, <2>1 DEF Parts
  <2>3. ~Holds' BY <2>1 DEF Holds
  <2>4. SessionWays' BY <2>2, <2>3 DEF SessionWays
  <2>5. \A c : ~HandedOver(c)' /\ ~HandedOver(c) /\ ~ResetDue(c)' /\ ~ResetDue(c)
    BY <2>2, <2>3 DEF HandedOver, ResetDue
  <2>6. StepWays' BY <1>ways, <2>1, <2>5 DEF StepWays, InStep
  <2>7. HandlerWays' BY <1>ways, <2>1, <2>2 DEF HandlerWays
  <2>8. WokenWays' BY <1>ways, <2>1, <2>2, <2>5 DEF WokenWays
  <2> QED BY <2>4, <2>6, <2>7, <2>8 DEF SessionInv
<1>5. CASE TlsDeregister
  <2>1. /\ LpaAt("awake", "deregister") /\ NextOffload("lpa") /\ Deregister(tlsEntry)
        /\ UNCHANGED <<cfg, ctx, sock, peer, woken, whd, session>>
    BY <1>5 DEF TlsDeregister, tcp, tls
  <2>2. \A down, up : Told("tls", down, up) <=> "tls" \in ctx /\ "deregister" \in up
    BY <2>1, ToldHere
  <2>3. ~Holds BY <1>ways, <2>2 DEF SessionWays
  <2>4. \A s \in Slots : table'[s] = IF s = tlsEntry THEN Free ELSE table[s]
    BY <2>1, Deregisters
  <2>5. \A s \in Slots : table'[s] # "tls" BY <1>ways, <2>4 DEF HandlerWays, Free
  <2> QED BY <1>none, <2>1, <2>3, <2>5
<1> QED BY <1>1, <1>2, <1>3, <1>4, <1>5

\* Before the numbers are written back the thread is at none of the later parts.
LEMMA NotWrittenBack ==
  ASSUME PcInv, Ranges, NEW down,
         Told("tls", down, {"start", "restore", "release", "clear"}),
         ~LpaAt("awake", "release"), ~LpaAt("awake", "clear")
  PROVE  Told("tls", down, {"start", "restore"})
<1>1. pc["lpa"] \in Place /\ cfg \in Configs BY DEF PcInv, PcType, Threads
<1>2. PICK j \in DOMAIN cfg.list :
        /\ cfg.list[j] = "tls"
        /\ \/ /\ pc["lpa"].at = "sleep"
              /\ j < pc["lpa"].i \/ (j = pc["lpa"].i /\ pc["lpa"].part \in down)
           \/ pc["lpa"].at = "asleep"
           \/ /\ pc["lpa"].at = "awake"
              /\ \/ pc["lpa"].i < j
                 \/ /\ j = pc["lpa"].i
                    /\ pc["lpa"].part \in {"start", "restore", "release", "clear"}
  BY DEF Told, Past
<1>3. pc["lpa"].at = "awake" /\ j = pc["lpa"].i => pc["lpa"].i <= pc["lpa"].last
  BY <1>1, <1>2, ListFacts DEF Ranges
<1>4. pc["lpa"].at = "awake" /\ j = pc["lpa"].i => pc["lpa"].part \notin {"release", "clear"}
  BY <1>2, <1>3 DEF LpaAt, At
<1> QED BY <1>2, <1>4 DEF Told, Past

\* The device, the handler, the application, and the connection manager's thread.
LEMMA AsideKeepsSession ==
  ASSUME PcInv, Ranges, TableType, WowlShape, WhdShape, SocketInv, SocketWays, SessionInv,
         RestoreFaults \cap faults' = {}, faults \subseteq faults',
         \/ TlsInit \/ TlsDeinit \/ DeviceSends \/ WakeEvent \/ TlsHandler
         \/ \E c \in Conns : ConfigClear(c) \/ SetPorts(c)
         \/ ConfigCopy \/ ConfigSocket \/ SetAddress
         \/ InitClear("tls") /\ UNCHANGED <<tcp, tls>>
  PROVE  SessionInv'
<1>no. /\ RestoreFaults \cap faults = {}
       /\ "tlsConfig" \notin faults' /\ "sentLate" \notin faults' /\ "reinit" \notin faults'
  BY NoRestoreFault
<1>ways. SessionWays /\ StepWays /\ HandlerWays /\ WokenWays BY <1>no DEF SessionInv
<1>1. CASE TlsInit
  <2>1. /\ pc'["lpa"] = pc["lpa"]
        /\ UNCHANGED <<cfg, table, whd, wowl, sock, peer, created, owned, tcpReset, tlsEntry, session,
                       woken>>
    BY <1>1, NetGoesOn DEF TlsInit, tcp
  <2>2. CASE "tls" \in cfg.given
    <3>1. ~Suspended BY <1>1, <1>no, <2>2 DEF TlsInit, NoteConfig, Note
    <3> QED BY <1>no, <2>1, <3>1, StaysAwake
  <2>3. CASE "tls" \notin cfg.given
    <3>1. ctx' = ctx /\ mqtt' = mqtt BY <1>1, <2>3 DEF TlsInit, HasContext
    <3> QED BY <2>1, <3>1, SessionSame
  <2> QED BY <2>2, <2>3
<1>2. CASE TlsDeinit
  <2>1. /\ pc'["lpa"] = pc["lpa"]
        /\ UNCHANGED <<cfg, ctx, table, whd, wowl, sock, peer, created, owned>>
        /\ UNCHANGED <<mqtt, tcpReset, tlsEntry, session, woken>>
    BY <1>2, NetGoesOn DEF TlsDeinit, tcp, tls
  <2> QED BY <2>1, SessionSame
<1>3. CASE InitClear("tls") /\ UNCHANGED <<tcp, tls>>
  <2>1. ~Suspended BY <1>3, <1>no DEF InitClear, Note
  <2>2. /\ UNCHANGED <<cfg, table, whd, sock, peer, session, woken>>
        /\ At("net", "init", "tls", "start") /\ Goto("net", "fill")
    BY <1>3 DEF InitClear, tcp, tls
  <2>3. pc'["lpa"] = pc["lpa"] BY <2>2, NetGoesTo DEF Parts
  <2> QED BY <1>no, <2>1, <2>2, <2>3, StaysAwake
<1>4. CASE \/ \E c \in Conns : ConfigClear(c) \/ SetPorts(c)
           \/ ConfigCopy \/ ConfigSocket \/ SetAddress
  <2>1. /\ UNCHANGED <<cfg, pc, table, whd, sock, peer, session, woken>> /\ NoteConfig
    BY <1>4 DEF ConfigClear, SetPorts, ConfigCopy, ConfigSocket, SetAddress
  <2>2. ~Suspended BY <1>no, <2>1 DEF NoteConfig, Note
  <2> QED BY <1>no, <2>1, <2>2, StaysAwake
\* Neither side moves, and the entry is the same.
<1>told. ASSUME UNCHANGED <<cfg, pc, ctx>>
         PROVE  /\ \A down, up : Told("tls", down, up)' <=> Told("tls", down, up)
                /\ \A part : LpaAt("sleep", part)' <=> LpaAt("sleep", part)
                /\ Dozing' <=> Dozing
  BY <1>told DEF Told, LpaAt, At, Dozing
<1>5. CASE DeviceSends
  <2>1. /\ UNCHANGED <<cfg, pc, ctx, table, whd, wowl, sock, created, owned, mqtt, tcpReset, tlsEntry,
                       woken>>
        /\ session' = [session EXCEPT !.tcp = Inc(@), !.tls = Inc(@)]
        /\ peer' = [peer EXCEPT ![session.conn].tcp = Inc(@), ![session.conn].tls = Inc(@)]
        /\ session # NoSession
    BY <1>5 DEF DeviceSends
  <2> DEFINE c == session.conn
  <2>2. /\ Holds /\ c = mqtt.conn /\ c \in owned /\ c \in Conns
        /\ Told("tls", {"protect", "register"}, {"start", "restore", "release", "clear"})
    BY <1>ways, <2>1 DEF Holds, SessionWays, SocketInv
  <2>3. ~LpaAt("awake", "release") /\ ~LpaAt("awake", "clear")
    BY <1>5, <1>no DEF DeviceSends, Note
  <2>4. Told("tls", {"protect", "register"}, {"start", "restore"})
    BY <2>2, <2>3, NotWrittenBack
  <2>5. /\ session'.conn = c /\ session'.tcp = Inc(session.tcp) /\ session'.tls = Inc(session.tls)
    BY <2>1 DEF SocketInv, SessionRecord
  <2>6. /\ \A d \in Conns : d # c => peer'[d] = peer[d]
        /\ peer'[c].tcp = Inc(peer[c].tcp) /\ peer'[c].tls = Inc(peer[c].tls)
    <3> DEFINE p == [peer[c] EXCEPT !.tcp = Inc(@), !.tls = Inc(@)]
    <3>1. peer \in [Conns -> [tcp : SeqNums, tls : SeqNums]] BY DEF SocketWays
    <3>2. peer[c] \in [tcp : SeqNums, tls : SeqNums] BY <2>2, <3>1
    <3>3. p.tcp = Inc(peer[c].tcp) /\ p.tls = Inc(peer[c].tls) BY <3>2
    <3>4. peer' = [peer EXCEPT ![c] = p] BY <2>1, <3>1
    <3> HIDE DEF p
    <3> QED BY <2>2, <3>1, <3>3, <3>4
  <2>7. Holds'
    <3>1. c # NoConn BY <2>2, SocketAssumption
    <3> QED BY <2>5, <3>1 DEF Holds, NoSession
  <2>8. SessionWays' BY <1>ways, <1>told, <2>1, <2>2, <2>5, <2>7 DEF SessionWays
  <2>9. \A d : /\ (HandedOver(d) <=> d = c) /\ (HandedOver(d)' <=> d = c)
               /\ (ResetDue(d)' <=> ResetDue(d))
    BY <1>told, <2>1, <2>2, <2>4, <2>5, <2>7 DEF HandedOver, ResetDue
  <2>10. StepWays'
    <3> SUFFICES ASSUME "netxOrder" \notin faults', NEW d \in Conns, sock[d].st = "open"
                 PROVE  /\ d = c => InStep(session, d)'
                        /\ d # c => InStep(sock[d], d)'
      BY <2>1, <2>9 DEF StepWays
    <3>1. "netxOrder" \notin faults OBVIOUS
    <3>2. IF d = c THEN InStep(session, d) ELSE InStep(sock[d], d)
      BY <1>ways, <2>9, <3>1 DEF StepWays
    <3>3. d # c => InStep(sock[d], d)' BY <2>1, <2>6, <3>2 DEF InStep
    <3>4. d = c => InStep(session, d)' BY <2>5, <2>6, <3>2 DEF InStep
    <3> QED BY <3>3, <3>4
  <2>11. HandlerWays' BY <1>ways, <1>told, <2>1, <2>7 DEF HandlerWays
  <2>12. WokenWays' BY <1>ways, <1>told, <2>1, <2>2, <2>7, <2>9 DEF WokenWays
  <2> QED BY <2>8, <2>10, <2>11, <2>12 DEF SessionInv
<1>6. CASE WakeEvent
  <2>1. /\ UNCHANGED <<cfg, pc, ctx, table, wowl, faults, sock, peer, created, owned, mqtt, tcpReset,
                       tlsEntry, session>>
        /\ woken' = IF MutexHeld THEN woken ELSE woken \cup {session.conn}
        /\ whd.runs = Free /\ Registered("tls") /\ whd' = [runs |-> "tls", late |-> FALSE]
    BY <1>6 DEF WakeEvent, Pick, tcp
  <2>2. whd'.runs = "tls" /\ whd'.late = FALSE BY <2>1
  <2>3. /\ Told("tls", {}, {"start", "restore", "release", "clear", "deregister"})
        /\ Told("tls", {}, {"start", "restore", "release", "clear"}) => Holds
    BY <1>ways, <2>1 DEF HandlerWays, Registered
  <2>4. Holds' <=> Holds BY <2>1 DEF Holds
  <2>5. SessionWays' BY <1>ways, <1>told, <2>1, <2>4 DEF SessionWays
  <2>6. \A c : HandedOver(c)' <=> HandedOver(c) BY <1>told, <2>1, <2>4 DEF HandedOver
  <2>7. StepWays' BY <1>ways, <2>1, <2>6 DEF StepWays, InStep
  <2>8. HandlerWays' BY <1>ways, <1>told, <2>1, <2>4 DEF HandlerWays
  <2>9. Dozing <=> ~MutexHeld BY <2>3 DEF Told, Past, Dozing, MutexHeld
  <2>10. Dozing => /\ Holds /\ Told("tls", {}, {"start"})
                   /\ Told("tls", {"register"}, {"start", "restore"})
    BY <2>3 DEF Told, Past, Dozing
  <2>11. WokenWays'
    <3> SUFFICES ASSUME cfg.stack = "lwip", "lateHandler" \notin faults
                 PROVE  \A c \in Conns : c \in woken' <=> sock[c].st = "finWait2" \/ ResetDue(c)'
      BY <1>told, <2>1, <2>4, <2>10 DEF WokenWays
    <3>1. \A c \in Conns : c \in woken <=> sock[c].st = "finWait2" \/ ResetDue(c)
      BY <1>ways, <2>1 DEF WokenWays, Free
    <3>2. CASE MutexHeld
      <4>1. \A c : ResetDue(c)' <=> ResetDue(c)
        BY <1>told, <2>1, <2>2, <2>4, <2>9, <3>2 DEF ResetDue, Free
      <4> QED BY <2>1, <3>1, <3>2, <4>1
    <3>3. CASE ~MutexHeld
      <4>1. \A c : ResetDue(c)' <=> c = session.conn
        BY <1>told, <2>1, <2>2, <2>4, <2>9, <2>10, <3>3 DEF ResetDue
      <4>2. \A c : ResetDue(c) => c = session.conn BY DEF ResetDue
      <4>3. \A c \in Conns : sock[c].st = "finWait2" \/ c = session.conn <=> c \in woken'
        BY <2>1, <3>1, <3>3, <4>2
      <4> QED BY <4>1, <4>3
    <3> QED BY <3>2, <3>3
  <2> QED BY <2>5, <2>7, <2>8, <2>11 DEF SessionInv
<1>7. CASE TlsHandler
  <2>1. /\ UNCHANGED <<cfg, pc, ctx, table, wowl, sock, peer, created, owned, mqtt, tlsEntry, session,
                       woken>>
        /\ whd.runs = "tls" /\ ~MutexHeld /\ whd' = [runs |-> Free, late |-> FALSE]
        /\ tcpReset' = TRUE /\ (IF whd.late THEN Note("lateHandler") ELSE UNCHANGED faults)
    BY <1>7 DEF TlsHandler, tcp
  <2>2. whd'.runs # "tls" BY <2>1 DEF Free
  <2>4. Holds' <=> Holds BY <2>1 DEF Holds
  <2>5. SessionWays' BY <1>ways, <1>told, <2>1, <2>4 DEF SessionWays
  <2>6. \A c : HandedOver(c)' <=> HandedOver(c) BY <1>told, <2>1, <2>4 DEF HandedOver
  <2>7. StepWays' BY <1>ways, <2>1, <2>6 DEF StepWays, InStep
  <2>8. HandlerWays' BY <1>ways, <1>told, <2>1, <2>4 DEF HandlerWays
  <2>9. Told("tls", {"register"}, {"start", "restore"}) => Dozing
    BY <2>1 DEF Told, Past, Dozing, MutexHeld
  <2>10. \A c : ResetDue(c)' <=> ResetDue(c)
    BY <1>told, <2>1, <2>4, <2>9 DEF ResetDue
  <2>11. WokenWays'
    <3>1. "lateHandler" \notin faults' => ~whd.late /\ "lateHandler" \notin faults
      BY <2>1 DEF Note
    <3> QED BY <1>ways, <2>1, <2>2, <2>10, <3>1 DEF WokenWays
  <2> QED BY <2>5, <2>7, <2>8, <2>11 DEF SessionInv
<1> QED BY <1>1, <1>2, <1>3, <1>4, <1>5, <1>6, <1>7

\* The entry, the sockets, the handler and the table stay what they are.
LEMMA TlsKeepsWays ==
  ASSUME TableType, WhdShape, SocketInv, MqttWays, SocketWays, TlsStep
  PROVE  TableType' /\ WhdShape' /\ MqttWays' /\ SocketWays'
<1>1. TableType'
  <2>1. CASE TlsRegister
    <3>1. PICK e : Register("tls", tlsEntry, e) BY <2>1 DEF TlsRegister
    <3> QED BY <3>1, Registers DEF Clients
  <2>2. CASE TlsDeregister BY <2>2, Deregisters DEF TlsDeregister
  <2>3. CASE UNCHANGED table BY <2>3, SMTT(40) DEF TableType
  <2> QED
    BY <2>1, <2>2, <2>3
    DEF TlsStep, TlsInit, TlsDeinit, TlsSleep, TlsPattern, TlsActivate, TlsCleanUp, TlsProtect,
        TlsWake, TlsRestore, TlsRelease, TlsClear, DeviceSends, WakeEvent, TlsHandler,
        ConfigClear, SetPorts, ConfigCopy, ConfigSocket, SetAddress
<1>2. WhdShape'
  <2>1. CASE \E r : whd' = [runs |-> r, late |-> FALSE]
    <3>1. PICK r : whd' = [runs |-> r, late |-> FALSE] BY <2>1
    <3>2. whd'.runs = r /\ whd'.late = FALSE BY <3>1
    <3> QED BY <3>1, <3>2 DEF WhdShape
  <2>2. CASE UNCHANGED whd BY <2>2 DEF WhdShape
  <2> QED
    BY <2>1, <2>2
    DEF TlsStep, TlsInit, TlsDeinit, TlsSleep, TlsPattern, TlsActivate, TlsCleanUp, TlsProtect,
        TlsRegister, TlsWake, TlsRestore, TlsRelease, TlsClear, TlsDeregister, DeviceSends,
        WakeEvent, Pick, TlsHandler, ConfigClear, SetPorts, ConfigCopy, ConfigSocket, SetAddress
<1>3. MqttWays'
  <2>set. ASSUME NEW c, NEW s, NEW p, mqtt' = [conn |-> c, socket |-> s, pattern |-> p],
                 c = s \/ c = NoConn \/ s = NoConn,
                 app'.at = "setAddress" => s \in {app'.conn, NoConn},
                 app'.at = "noteSocket" => c \in {app'.conn, NoConn}
          PROVE  MqttWays'
    <3>1. mqtt'.conn = c /\ mqtt'.socket = s /\ mqtt'.pattern = p BY <2>set
    <3> QED BY <2>set, <3>1 DEF MqttWays
  <2>1. CASE UNCHANGED <<mqtt, app>> BY <2>1 DEF MqttWays
  <2>2. CASE UNCHANGED app /\ mqtt' = NoMqtt BY <2>2, <2>set DEF NoMqtt
  <2>3. ASSUME NEW c \in Conns, ConfigClear(c) PROVE MqttWays'
    BY <2>3, <2>set DEF ConfigClear, NoMqtt, AppGoto
  <2>4. CASE ConfigCopy
    <3>1. PICK p : mqtt' = [conn |-> app.conn, socket |-> NoConn, pattern |-> p]
      BY <2>4 DEF ConfigCopy
    <3>2. app'.at = "noteSocket" /\ app'.conn = app.conn BY <2>4 DEF ConfigCopy, AppGoto
    <3> QED BY <2>set, <3>1, <3>2
  <2>5. CASE ConfigSocket
    <3>1. mqtt' = [conn |-> mqtt.conn, socket |-> app.conn, pattern |-> mqtt.pattern]
      BY <2>5 DEF ConfigSocket, MqttWays
    <3>2. app.at = "noteSocket" /\ app'.at = "idle" BY <2>5 DEF ConfigSocket, AppGoto
    <3> QED BY <2>set, <3>1, <3>2 DEF MqttWays
  <2>6. ASSUME NEW c \in Conns, SetPorts(c) PROVE MqttWays'
    <3> DEFINE d == IF mqtt.conn = c THEN c ELSE NoConn
    <3>1. mqtt' = [conn |-> d, socket |-> mqtt.socket, pattern |-> mqtt.pattern]
      BY <2>6 DEF SetPorts, MqttWays
    <3>2. app'.at = "setAddress" /\ app'.conn = c /\ mqtt.socket \in {c, NoConn}
      BY <2>6 DEF SetPorts, AppGoto
    <3>3. d = c \/ d = NoConn OBVIOUS
    <3> HIDE DEF d
    <3> QED BY <2>set, <3>1, <3>2, <3>3
  <2>7. CASE SetAddress
    <3>1. mqtt' = [conn |-> app.conn, socket |-> mqtt.socket, pattern |-> mqtt.pattern]
      BY <2>7 DEF SetAddress, MqttWays
    <3>2. app.at = "setAddress" /\ app'.at = "idle" BY <2>7 DEF SetAddress, AppGoto
    <3> QED BY <2>set, <3>1, <3>2 DEF MqttWays
  <2> QED
    BY <2>1, <2>2, <2>3, <2>4, <2>5, <2>6, <2>7
    DEF TlsStep, TlsInit, TlsDeinit, TlsSleep, TlsPattern, TlsActivate, TlsCleanUp, TlsProtect,
        TlsRegister, TlsWake, TlsRestore, TlsRelease, TlsClear, TlsDeregister, DeviceSends,
        WakeEvent, TlsHandler, tcp, tls
<1>4. SocketWays'
  <2>same. ASSUME UNCHANGED <<sock, owned>>, peer' \in [Conns -> [tcp : SeqNums, tls : SeqNums]],
                  app' = app \/ app'.at \notin Creating
           PROVE  SocketWays'
    BY <2>same DEF SocketWays, Creating
  <2>peer. peer \in [Conns -> [tcp : SeqNums, tls : SeqNums]] BY DEF SocketWays
  <2>1. CASE UNCHANGED tcp BY <2>1, <2>same, <2>peer DEF tcp
  <2>2. CASE UNCHANGED <<sock, peer, owned>> /\ app'.at \notin Creating BY <2>2, <2>same, <2>peer
  <2>3. CASE \E c \in Conns : ConfigClear(c) \/ SetPorts(c)
    BY <2>3, <2>2 DEF ConfigClear, SetPorts, AppGoto, Creating
  <2>4. CASE ConfigCopy \/ ConfigSocket \/ SetAddress
    BY <2>4, <2>2 DEF ConfigCopy, ConfigSocket, SetAddress, AppGoto, Creating
  <2>5. CASE DeviceSends
    <3>1. /\ UNCHANGED <<sock, owned, app>>
          /\ peer' = [peer EXCEPT ![session.conn].tcp = Inc(@), ![session.conn].tls = Inc(@)]
      BY <2>5 DEF DeviceSends
    <3>2. CASE session.conn \in Conns
      <4> DEFINE p == [peer[session.conn] EXCEPT !.tcp = Inc(@), !.tls = Inc(@)]
      <4>1. peer[session.conn] \in [tcp : SeqNums, tls : SeqNums] BY <2>peer, <3>2
      <4>2. p \in [tcp : SeqNums, tls : SeqNums] BY <4>1, SocketValues
      <4>3. peer' = [peer EXCEPT ![session.conn] = p] BY <2>peer, <3>1
      <4> HIDE DEF p
      <4>4. peer' \in [Conns -> [tcp : SeqNums, tls : SeqNums]] BY <2>peer, <3>2, <4>2, <4>3
      <4> QED BY <2>same, <3>1, <4>4
    <3>3. CASE session.conn \notin Conns BY <2>same, <2>peer, <3>1, <3>3
    <3> QED BY <3>2, <3>3
  <2>6. CASE TlsRestore
    <3>1. UNCHANGED <<peer, owned, app>> BY <2>6 DEF TlsRestore
    <3>2. CASE UNCHANGED sock BY <2>same, <2>peer, <3>1, <3>2
    <3>3. CASE /\ mqtt.socket \in owned
               /\ sock' = UpdateSockSeq(mqtt.conn, [sock EXCEPT ![mqtt.socket].tls = session.tls])
      <4>1. /\ mqtt.socket \in Conns /\ \A d \in Conns : d # mqtt.socket => sock'[d] = sock[d]
            /\ sock'[mqtt.socket].st \in {"open", "finWait2"}
        BY <3>3, RestoreWrites
      <4>2. app.at \in Creating => app.conn \in Conns /\ app.conn # mqtt.socket
        BY <3>3 DEF SocketInv, SocketWays
      <4>3. app.at \in Creating => sock'[app.conn] = sock[app.conn] BY <4>1, <4>2
      <4>4. \A d \in owned : d \in Conns BY DEF SocketInv
      <4>5. \A d \in owned' : sock'[d].st \in {"open", "finWait2"}
        BY <3>1, <4>1, <4>4 DEF SocketWays
      <4>6. \A d \in Conns : sock'[d].st \in {"new", "syn"} => sock'[d].tcp = 0 /\ sock'[d].tls = 0
        BY <4>1 DEF SocketWays
      <4> QED BY <3>1, <4>3, <4>5, <4>6 DEF SocketWays, Creating
    <3> QED BY <2>6, <3>2, <3>3 DEF TlsRestore
  <2> QED
    BY <2>1, <2>3, <2>4, <2>5, <2>6
    DEF TlsStep, TlsInit, TlsDeinit, TlsSleep, TlsPattern, TlsActivate, TlsCleanUp, TlsProtect,
        TlsRegister, TlsWake, TlsRelease, TlsClear, TlsDeregister, WakeEvent, TlsHandler
<1> QED BY <1>1, <1>2, <1>3, <1>4, SMTT(40)

-----------------------------------------------------------------------------
(* The theorems about the session                                          *)

TlsInv ==
  WakeInv /\ SocketInv /\ TableType /\ WhdShape /\ MqttWays /\ SocketWays /\ SessionInv

\* The host begins with its own connections, which agree with their peers.
LEMMA TlsInitially == Init => TlsInv
<1> SUFFICES ASSUME Init PROVE TlsInv OBVIOUS
<1>1. pc["lpa"].at = "idle" BY DEF Init, EnvInit
<1>2. /\ mqtt = NoMqtt /\ session = NoSession /\ woken = {} /\ app.at = "idle"
      /\ table = [s \in Slots |-> Free] /\ whd = [runs |-> Free, late |-> FALSE]
      /\ owned = MqttConns /\ peer = [c \in Conns |-> [tcp |-> 0, tls |-> 0]]
  BY DEF Init, EnvInit, SocketsInit, TlsInitial
<1> DEFINE opened == [NoSocket EXCEPT !.st = "open", !.ka = TRUE]
<1>3. /\ opened.st = "open" /\ opened.tcp = 0 /\ opened.tls = 0
      /\ NoSocket.st = "none" /\ NoSocket.tcp = 0 /\ NoSocket.tls = 0
  BY DEF NoSocket
<1>4. sock = [c \in Conns |-> IF c \in MqttConns THEN opened ELSE NoSocket]
  BY DEF Init, SocketsInit
<1> HIDE DEF opened
<1>5. MqttConns \subseteq Conns BY SocketAssumption DEF Init, EnvInit, MqttConns
<1>6. WhdShape
  <2>1. whd.runs = Free /\ whd.late = FALSE BY <1>2
  <2> QED BY <1>2, <2>1 DEF WhdShape
<1>7. MqttWays BY <1>2 DEF MqttWays, NoMqtt
<1>8. SocketWays
  <2>1. peer \in [Conns -> [tcp : SeqNums, tls : SeqNums]] BY <1>2, SocketValues
  <2>2. \A c \in owned : sock[c].st \in {"open", "finWait2"} BY <1>2, <1>3, <1>4, <1>5
  <2>3. \A c \in Conns : sock[c].st \in {"new", "syn"} => sock[c].tcp = 0 /\ sock[c].tls = 0
    BY <1>3, <1>4
  <2> QED BY <1>2, <2>1, <2>2, <2>3 DEF SocketWays, Creating
<1>9. SessionInv
  <2>1. ~Holds /\ \A down, up : ~Told("tls", down, up)
    BY <1>1, <1>2 DEF Holds, Told, Past
  <2>2. SessionWays BY <1>1, <2>1 DEF SessionWays, LpaAt, At
  <2>3. AllInStep BY <1>2, <1>3, <1>4 DEF AllInStep, InStep
  <2>4. AsWoken BY <1>2, <1>3, <1>4 DEF AsWoken
  <2>5. StepWays BY <2>1, <2>3 DEF StepWays, HandedOver, AllInStep
  <2>6. HandlerWays BY <1>2 DEF HandlerWays, Free
  <2>7. WokenWays BY <1>1, <2>1, <2>4 DEF WokenWays, ResetDue, AsWoken, Dozing
  <2> QED BY <2>2, <2>5, <2>6, <2>7 DEF SessionInv
<1> QED
  BY <1>6, <1>7, <1>8, <1>9, WakeInitially, SocketsInitially, TableInitially DEF TlsInv

\* Every step keeps to it.
LEMMA TlsInvKeeps == TlsInv /\ [Next]_system => TlsInv'
<1> SUFFICES ASSUME TlsInv, [Next]_system PROVE TlsInv' OBVIOUS
<1>inv. /\ PcInv /\ Ranges /\ WowlShape /\ ProtectionWays /\ WakeInv /\ SocketInv
        /\ TableType /\ WhdShape /\ MqttWays /\ SocketWays /\ SessionInv
  BY DEF TlsInv, WakeInv
<1>grow. faults \subseteq faults' BY <1>inv, StepGrows
<1>1. WakeInv' /\ SocketInv' BY <1>inv, WakeKeeps, StepKeepsSockets
<1>2. CASE TlsStep
  <2>1. TableType' /\ WhdShape' /\ MqttWays' /\ SocketWays' BY <1>inv, <1>2, TlsKeepsWays
  <2>2. SessionInv'
    <3>1. CASE RestoreFaults \cap faults' # {} BY <3>1 DEF SessionInv
    <3>2. CASE RestoreFaults \cap faults' = {}
      <4>1. RestoreFaults \cap faults = {} BY <1>grow, <3>2
      <4>2. CASE TlsSleep \/ TlsPattern \/ TlsActivate \/ TlsCleanUp \/ TlsProtect \/ TlsRegister
        BY <1>inv, <1>grow, <4>1, <4>2, SleepKeepsSession
      <4>3. CASE TlsWake \/ TlsRestore \/ TlsRelease \/ TlsClear \/ TlsDeregister
        BY <1>inv, <1>grow, <3>2, <4>3, AwakeKeepsSession
      <4>4. CASE \/ TlsInit \/ TlsDeinit \/ DeviceSends \/ WakeEvent \/ TlsHandler
                 \/ \E c \in Conns : ConfigClear(c) \/ SetPorts(c)
                 \/ ConfigCopy \/ ConfigSocket \/ SetAddress
        BY <1>inv, <1>grow, <3>2, <4>4, AsideKeepsSession
      <4> QED BY <1>2, <4>2, <4>3, <4>4 DEF TlsStep
    <3> QED BY <3>1, <3>2
  <2> QED BY <1>1, <2>1, <2>2 DEF TlsInv
<1>3. CASE ~TlsStep
  <2>0. UNCHANGED tls BY <1>inv, <1>3, OthersLeaveTls
  <2>1. TableType' BY <1>inv, <1>3, OthersLeaveHandler
  <2>2. WhdShape' BY <1>inv, <1>3, OthersOvertake
  <2>3. MqttWays' /\ (~SocketsStep => SocketWays') BY <1>inv, <1>3, <2>0, OthersKeepWays
  <2>4. SocketsStep => SocketWays' BY <1>inv, SocketsKeepWays
  <2>5. SessionInv'
    <3>1. CASE RestoreFaults \cap faults' # {} BY <3>1 DEF SessionInv
    <3>2. CASE RestoreFaults \cap faults' = {}
      <4>1. RestoreFaults \cap faults = {} BY <1>grow, <3>2
      <4>2. CASE SocketsStep BY <1>inv, <2>0, <4>2, SocketsKeepSession
      <4>3. CASE ~SocketsStep /\ ~Own("tls")
        BY <1>inv, <4>1, <4>3, OthersKeepSession
      <4>4. CASE Own("tls")
        <5>1. InitClear("tls") /\ UNCHANGED <<tcp, tls>> BY <1>3, <4>4 DEF Own
        <5> QED BY <1>inv, <1>grow, <3>2, <5>1, AsideKeepsSession
      <4> QED BY <4>2, <4>3, <4>4
    <3> QED BY <3>1, <3>2
  <2> QED BY <1>1, <2>1, <2>2, <2>3, <2>4, <2>5 DEF TlsInv
<1> QED BY <1>2, <1>3

\* Whenever the stack runs both ends of every connection agree on the sequence numbers
\* of TCP and of TLS, however many packets the device has sent for the host.
THEOREM SessionStaysInStep == Spec => []SessionInStep
<1>1. TlsInv => SessionInStep
  <2> SUFFICES ASSUME TlsInv, ~Suspended, RestoreFaults \cap faults = {}, "netxOrder" \notin faults,
                      NEW c \in Conns, sock[c].st = "open"
               PROVE  sock[c].tcp = peer[c].tcp /\ sock[c].tls = peer[c].tls
    BY DEF SessionInStep
  <2>1. SessionInv BY DEF TlsInv
  <2>2. ~Holds BY <2>1, AwakeUnhanded
  <2>3. AllInStep BY <2>1, <2>2, Unhanded
  <2> QED BY <2>3 DEF AllInStep, InStep
<1> QED BY <1>1, TlsInitially, TlsInvKeeps, PTL DEF Spec

\* lwIP's connection is reset after the wake-up exactly when the device has reported a
\* wake event on it.
THEOREM ResetOnlyByWakeEvent == Spec => []ResetIffWakeEvent
<1>1. TlsInv => ResetIffWakeEvent
  <2> SUFFICES ASSUME TlsInv, cfg.stack = "lwip", ~Suspended, ~whd.late,
                      RestoreFaults \cap faults = {}, "lateHandler" \notin faults
               PROVE  \A c \in Conns : sock[c].st = "finWait2" <=> c \in woken
    BY DEF ResetIffWakeEvent
  <2>1. SessionInv BY DEF TlsInv
  <2>2. ~Holds BY <2>1, AwakeUnhanded
  <2>3. AsWoken BY <2>1, <2>2, Unhanded
  <2> QED BY <2>3 DEF AsWoken
<1> QED BY <1>1, TlsInitially, TlsInvKeeps, PTL DEF Spec
==============================================================================
