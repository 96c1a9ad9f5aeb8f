----------------------------- MODULE TcpSockets -----------------------------
(***************************************************************************)
(* The TCP connections of the host and how the offloads see them: the      *)
(* application's thread makes connections with                             *)
(* cy_tcp_create_socket_connection; the TCP stack (external) carries data  *)
(* on them while it is not suspended; sock_stats looks a connection up for *)
(* the keep-alive packets of the device.                                   *)
(*                                                                         *)
(* A connection stands for its two ports and its remote address.  Sequence *)
(* numbers count packets modulo SeqWrap: tcp is the next one to send, tls   *)
(* that of the TLS session on top.                                         *)
(***************************************************************************)
EXTENDS OffloadEnv, SequencesExt

CONSTANTS
  Conns,       \* the connections
  NoConn,      \* a cleared entry of a configuration
  SeqWrap      \* the sequence numbers are 0 .. SeqWrap - 1 (a bound)

ASSUME SocketAssumption ==
  /\ NoConn \notin Conns /\ SeqWrap \in Nat \ {0, 1}
  \* The connections that are made (a bound).
  /\ \A c \in Configs : c.conns \subseteq Conns /\ IsFiniteSet(c.conns)

VARIABLES
  sock,        \* the host's end of each connection
  peer,        \* the sequence numbers the other end expects
  created,     \* NetX: the created sockets, oldest first
  owned,       \* the connections of which the application has the socket
  app          \* the application's thread: its place, and its connection

tcp == <<sock, peer, created, owned, app>>

SeqNums  == 0 .. SeqWrap - 1
Inc(n)   == (n + 1) % SeqWrap
Dec(n)   == (n + SeqWrap - 1) % SeqWrap
NoSocket == [st |-> "none", ka |-> FALSE, tcp |-> 0, tls |-> 0]

\* With TLS the sockets are those of an MQTT client that has connected before.
MqttConns == IF "tls" \in Range(cfg.list) THEN cfg.conns ELSE {}

SocketsInit ==
  /\ sock = [c \in Conns |-> IF c \in MqttConns
                            THEN [NoSocket EXCEPT !.st = "open", !.ka = TRUE]
                            ELSE NoSocket]
  /\ peer = [c \in Conns |-> [tcp |-> 0, tls |-> 0]]
  /\ created \in SetToSeqs(MqttConns)
  /\ owned = MqttConns
  /\ app = [at |-> "idle", conn |-> NoConn]

AppGoto(from, to, c) == app.at = from /\ app' = [at |-> to, conn |-> c]

-----------------------------------------------------------------------------
(* Mutants                                                                 *)

\* The socket is not deleted when the connection cannot be made.
ConnectFails_Kept ==
  /\ ~Suspended
  /\ AppGoto("connecting", "idle", NoConn)
  /\ UNCHANGED <<env, sock, peer, created, owned>>

-----------------------------------------------------------------------------
(* cy_tcp_create_socket_connection: the calls into the stack wait for it   *)

SocketCreate(c) ==
  /\ ~Suspended /\ sock[c].st = "none"
  /\ c \in cfg.conns \ MqttConns /\ "tko" \in Range(cfg.list)
  /\ AppGoto("idle", "created", c)
  /\ sock' = [sock EXCEPT ![c] = [NoSocket EXCEPT !.st = "new"]]
  /\ created' = Append(created, c)
  /\ UNCHANGED <<env, peer, owned>>

\* cy_socket_delete, on either failure.
DeleteSocket(c) ==
  /\ sock' = [sock EXCEPT ![c] = NoSocket]
  /\ created' = RemoveFirst(created, c)

BindFails ==
  /\ ~Suspended
  /\ AppGoto("created", "idle", NoConn)
  /\ DeleteSocket(app.conn)
  /\ UNCHANGED <<env, peer, owned>>

\* The socket is bound and begins to connect.
BindConnect ==
  /\ ~Suspended
  /\ AppGoto("created", "connecting", app.conn)
  /\ sock' = [sock EXCEPT ![app.conn].st = "syn"]
  /\ UNCHANGED <<env, peer, created, owned>>

ConnectFails ==
  /\ ~Suspended
  /\ AppGoto("connecting", "idle", NoConn)
  /\ DeleteSocket(app.conn)
  /\ UNCHANGED <<env, peer, owned>>

Connected ==
  /\ ~Suspended
  /\ AppGoto("connecting", "connected", app.conn)
  /\ sock' = [sock EXCEPT ![app.conn].st = "open"]
  /\ peer' = [peer EXCEPT ![app.conn] = [tcp |-> 0, tls |-> 0]]
  /\ UNCHANGED <<env, created, owned>>

\* The keep-alive options are set when the caller wants them; a failure of
\* setsockopt is only logged.  Only on NetX does anything depend on them.
KeepaliveChoices == IF cfg.stack = "netx" THEN BOOLEAN ELSE {TRUE}

SetOptions(keepalive) ==
  /\ ~Suspended
  /\ AppGoto("connected", "send", app.conn)
  /\ sock' = [sock EXCEPT ![app.conn].ka = keepalive]
  /\ UNCHANGED <<env, peer, created, owned>>

\* The first data is sent, or is not; the socket is handed out either way.
SendFirst ==
  /\ ~Suspended
  /\ AppGoto("send", "clearEntry", app.conn)
  /\ \/ UNCHANGED <<sock, peer>>
     \/ /\ sock' = [sock EXCEPT ![app.conn].tcp = Inc(@), ![app.conn].tls = Inc(@)]
        /\ peer' = [peer EXCEPT ![app.conn].tcp = Inc(@), ![app.conn].tls = Inc(@)]
  /\ owned' = owned \cup {app.conn}
  /\ UNCHANGED <<env, created>>

-----------------------------------------------------------------------------
(* The TCP stack and its user (external)                                   *)

Transfer(c) ==
  /\ ~Suspended /\ sock[c].st = "open" /\ c \in owned
  /\ sock' = [sock EXCEPT ![c].tcp = Inc(@), ![c].tls = Inc(@)]
  /\ peer' = [peer EXCEPT ![c].tcp = Inc(@), ![c].tls = Inc(@)]
  /\ UNCHANGED <<env, created, owned, app>>

\* The application closes a connection, which lwIP keeps in TIME-WAIT.
Close(c) ==
  /\ ~Suspended /\ sock[c].st = "open" /\ c \in owned
  /\ owned' = owned \ {c}
  /\ created' = RemoveFirst(created, c)
  /\ sock' = IF cfg.stack = "lwip" THEN [sock EXCEPT ![c].st = "timeWait"]
                                   ELSE [sock EXCEPT ![c] = NoSocket]
  /\ UNCHANGED <<env, peer, app>>

TimeWaitEnds(c) ==
  /\ ~Suspended /\ sock[c].st = "timeWait"
  /\ sock' = [sock EXCEPT ![c] = NoSocket]
  /\ UNCHANGED <<env, peer, created, owned, app>>

-----------------------------------------------------------------------------
(* What the offloads read                                                  *)

\* sock_stats finds the connection in any of the lists of lwIP, but on NetX only
\* when it is established with keep-alive; a socket that has not begun to connect
\* has no remote end to match.
SockStats(c) ==
  IF cfg.stack = "lwip" THEN { d \in Conns \cap {c} : sock[d].st \notin {"none", "new"} }
  ELSE { d \in Conns \cap {c} : sock[d].ka /\ sock[d].st = "open" }

SocketsStep ==
  \/ \E c \in Conns : SocketCreate(c) \/ Transfer(c) \/ Close(c) \/ TimeWaitEnds(c)
  \/ BindFails \/ BindConnect \/ ConnectFails \/ Connected
  \/ \E keepalive \in KeepaliveChoices : SetOptions(keepalive)
  \/ SendFirst

SocketsType ==
  /\ sock \in [Conns -> [st : {"none", "new", "syn", "open", "timeWait", "finWait2"},
                         ka : BOOLEAN, tcp : SeqNums, tls : SeqNums]]
  /\ peer \in [Conns -> [tcp : SeqNums, tls : SeqNums]]
  /\ created \in Seq(Conns) /\ owned \subseteq Conns
  /\ app \in [at : {"idle", "created", "connecting", "connected", "send", "clearEntry",
                    "writeEntry", "copyConfig", "noteSocket", "setAddress"},
               conn : Conns \cup {NoConn}]

\* A socket the application cannot close does not stay behind: whenever
\* cy_tcp_create_socket_connection is not at work every open socket has been
\* handed out, whichever of its calls failed.
SocketsOwned ==
  app.at = "idle" => \A c \in Conns : sock[c].st \in {"new", "syn", "open"} => c \in owned
=============================================================================
