--------------------------- MODULE MCOffloadSystem --------------------------
(* Instances of OffloadSystem for TLC. *)
EXTENDS OffloadSystem

CONSTANTS c1, c2, n1, n2

Base == [list |-> <<>>, given |-> Offloads, newInfra |-> TRUE, stack |-> "lwip",
         magic |-> FALSE, dhcp |-> FALSE, sleeps |-> TRUE, disconnects |-> TRUE,
         maxFaults |-> 1, leftOut |-> {}, appRegisters |-> FALSE, conns |-> {c1},
         ports |-> [k \in 1 .. MaxTko |-> NoConn], wake |-> <<>>, nat |-> n1]

\* "0xABcd", "0x10"; masks for one byte, for the second byte, and a bad one.
Text1 == <<48, 120, 65, 66, 99, 100>>
Text2 == <<48, 120, 49, 48>>
MaskFirst  == <<48, 120, 56, 48>>
MaskSecond == <<48, 120, 52, 48>>
MaskBad    == <<48, 120, 56>>

Entry(text, mask, offset) == [pattern |-> text, mask |-> mask, offset |-> offset]

SomeFrames == UNION { [1 .. n -> {16, 171, 205}] : n \in 0 .. 3 }

\* One connection of an application that keeps it alive.
Tko == [Base EXCEPT !.list = <<"tko">>, !.newInfra = FALSE]
Tls == [Base EXCEPT !.list = <<"tls">>]
Wowl == [Base EXCEPT !.list = <<"wowl">>]
Nko == [Base EXCEPT !.list = <<"nko">>, !.sleeps = FALSE]

\* Bounds: with two connections no packet follows the first one of the second, and
\* a session that could not be cleared sends few.
FewPackets ==
  /\ cfg.conns = {c1, c2} => peer[c2].tcp < 1
  /\ "tlsClear" \in faults => \A c \in Conns : peer[c].tcp < 2

\* Faults that other configurations explore.
StackFaults == {"netxTimer", "netxSuspend", "netxResume"}
OtherFaults == StackFaults \cup {"tkoToggle", "tkoConnect", "tkoEvent"}

\* TKO with the switch alone and a handler of the application; with a connection,
\* on either stack.  TLS with a handler of the application, with a list that is
\* initialised again, with faults, with two connections, with TKO.
\* Inits that fail, an offload that was given nothing; patterns; keep-alives.
SomeConfigs ==
  {[Tko EXCEPT !.newInfra = TRUE, !.conns = {}, !.appRegisters = TRUE],
   [Tko EXCEPT !.stack = "netx", !.leftOut = OtherFaults, !.disconnects = FALSE,
               !.ports = [k \in 1 .. MaxTko |-> IF k = 1 THEN c1 ELSE NoConn]],
   [Tko EXCEPT !.disconnects = FALSE, !.leftOut = {"tkoToggle", "tkoEvent"}],
   [Tls EXCEPT !.maxFaults = 0, !.appRegisters = TRUE, !.disconnects = FALSE],
   [Tls EXCEPT !.maxFaults = 0],
   [Tls EXCEPT !.disconnects = FALSE, !.stack = "netx",
               !.leftOut = StackFaults \cup {"lateHandler", "sentLate", "tlsConfig"}],
   [Tls EXCEPT !.maxFaults = 0, !.disconnects = FALSE, !.conns = {c1, c2}, !.stack = "netx"],
   [Tls EXCEPT !.list = <<"tls", "tko">>, !.maxFaults = 0, !.disconnects = FALSE],
   [Tko EXCEPT !.list = <<"tko", "wowl">>, !.given = {"tko"}, !.newInfra = TRUE,
               !.conns = {}],
   [Tls EXCEPT !.given = {}],
   [Tls EXCEPT !.list = <<"tls", "nullko">>, !.conns = {}],
   [Wowl EXCEPT !.magic = TRUE,
                !.wake = <<Entry(Text1, MaskFirst, 0), Entry(Text1, MaskBad, 0),
                           Entry(Text2, MaskFirst, 1)>>],
   [Wowl EXCEPT !.stack = "netx", !.dhcp = TRUE, !.wake = <<Entry(Text1, MaskSecond, 0)>>],
   [Wowl EXCEPT !.list = <<"nullko", "wowl">>, !.given = {"nullko"}],
   [Wowl EXCEPT !.list = <<"wowl", "nko", "nullko">>, !.newInfra = FALSE],
   [Nko EXCEPT !.list = <<"nko", "nullko">>],
   [Nko EXCEPT !.nat = Invalid]}

Segment(sport, dport, seq, win) ==
  [src |-> <<192, 168, 255, 255>>, dst |-> <<192, 168, 255, 254>>, sport |-> sport,
   dport |-> dport, seq |-> seq, ack |-> <<65535, 65535>>, win |-> win]

\* Sequence numbers at the wrap, and windows for which the fold carries.
SomeSegments ==
  {Segment(49200, 8883, seq, win) :
     seq \in {<<0, 0>>, <<1, 0>>, <<65535, 65535>>, <<4660, 22136>>},
     win \in {0, 1024, 19872, 19873, 20128, 65535}}

\* Payloads of even and odd length, and a checksum that comes out as zero.
SomeDatagrams ==
  {[src |-> <<192, 168, 1, 2>>, dst |-> <<192, 168, 1, 9>>, sport |-> sport,
    dport |-> 9000, payload |-> payload] :
     sport \in {1, 54544, 54545, 54546, 65535},
     payload \in {<<>>, <<65>>, <<65, 66, 67>>, <<255, 255, 255, 255>>}}
  \cup {[src |-> <<192, 168, 25, 119>>, dst |-> <<192, 168, 1, 9>>, sport |-> 1,
         dport |-> 1, payload |-> <<1, 2>>]}
=============================================================================
