-------------------------- MODULE KeepalivePackets --------------------------
(***************************************************************************)
(* The packets the host prepares for the device to send in its place: the  *)
(* TCP keep-alive and its answer (source/cy_whd_tko_api.c), the NAT        *)
(* keep-alive (source/cy_lpa_wifi_nko_ol.c), and their checksums           *)
(* (source/cy_lpa_common.c).  They are checked against the definition of   *)
(* the Internet checksum (RFC 1071) over the inputs of the instance.       *)
(*                                                                         *)
(* Memory is a sequence of bytes, the lowest address first.  The host is   *)
(* little-endian.  A 32-bit number is a pair of 16-bit words, high first.  *)
(***************************************************************************)
EXTENDS Integers, Sequences

CONSTANTS
  Segments,    \* [src, dst, sport, dport, seq, ack, win]: TCP connections
  Datagrams    \* [src, dst, sport, dport, payload]: NAT keep-alives

Word16 == 65536

Byte    == 0 .. 255
Word    == 0 .. Word16 - 1
Address == [1 .. 4 -> Byte]

\* The widths of the fields of sock_seq_t and nat_keepalive_t.
SegmentType ==
  [src : Address, dst : Address, sport : Word, dport : Word,
   seq : Word \X Word, ack : Word \X Word, win : Word]
DatagramType ==
  [src : Address, dst : Address, sport : Word, dport : Word, payload : Seq(Byte)]

MaxPayload == 127

ASSUME PacketAssumption ==
  /\ \A s \in Segments : s \in SegmentType
  /\ \A d \in Datagrams : d \in DatagramType /\ Len(d.payload) <= MaxPayload

\* hton16, and the memory of a number that is stored as it is.
Big(n)    == <<n \div 256, n % 256>>
Little(n) == <<n % 256, n \div 256>>
Not16(n)  == 65535 - (n % Word16)

Dec32(n) == IF n[2] > 0 THEN <<n[1], n[2] - 1>> ELSE <<(n[1] + Word16 - 1) % Word16, 65535>>

\* The loops add up one term after the other.
Added(terms) ==
  LET upTo[i \in 0 .. Len(terms)] == IF i = 0 THEN 0 ELSE upTo[i - 1] + terms[i]
  IN upTo[Len(terms)]

\* The bytes of memory read as numbers: pairs with the low byte first, a byte
\* left over being a number itself; and with the high byte first.
LittleTerms(mem) == [i \in 1 .. Len(mem) |-> IF i % 2 = 1 THEN mem[i] ELSE 256 * mem[i]]
BigTerms(mem)    == [i \in 1 .. Len(mem) |-> IF i % 2 = 1 THEN 256 * mem[i] ELSE mem[i]]

LittleSum(mem) == Added(LittleTerms(mem))
BigSum(mem)    == Added(BigTerms(mem))

-----------------------------------------------------------------------------
(* Mutants                                                                 *)

\* The carry of the fold is not folded.
Fold_Once(sum) == Not16((sum \div Word16) + (sum % Word16))

-----------------------------------------------------------------------------
(* cy_lpa_common.c                                                         *)

\* The end of ip_cksum.
Fold(sum) ==
  LET once == (sum \div Word16) + (sum % Word16) IN Not16(once + (once \div Word16))

\* A header's checksum is that of what comes before and after its field.
Ipv4HdrCksum(before, after) == Fold(LittleSum(before) + LittleSum(after))

PseudoHeader(src, dst, prot, size) == dst \o src \o <<0, prot>> \o Big(size)

TcpHdrCksum(src, dst, before, after) ==
  Fold(LittleSum(PseudoHeader(src, dst, 6, Len(before) + 2 + Len(after)))
       + LittleSum(before) + LittleSum(after))

\* cylpa_checksum_finish.
Finish[sum \in Nat] ==
  IF sum \div Word16 = 0 THEN Not16(sum)
                         ELSE Finish[(sum % Word16) + (sum \div Word16)]

\* Zero would mean "no checksum".
UdpCksum(src, dst, mem) ==
  LET sum == Finish[BigSum(mem) + BigSum(src \o dst) + 17 + Len(mem)]
  IN IF sum = 0 THEN 65535 ELSE sum

-----------------------------------------------------------------------------
(* The packets; the Ethernet header is left out                            *)

Ipv4Header(size, id, ttl, prot, src, dst) ==
  LET before == <<69, 0>> \o Big(size) \o Big(id) \o <<0, 0, ttl, prot>>
  IN before \o Little(Ipv4HdrCksum(before, src \o dst)) \o src \o dst

TkoError == 65534

\* prep_packet: a checksum that is TKO_ERROR is taken for an error.
TcpHeader(s, seq) ==
  LET before == Big(s.sport) \o Big(s.dport) \o Big(seq[1]) \o Big(seq[2])
                \o Big(s.ack[1]) \o Big(s.ack[2]) \o <<80, 16>> \o Big(s.win)
      sum    == TcpHdrCksum(s.src, s.dst, before, <<0, 0>>)
  IN [mem |-> before \o Little(sum) \o <<0, 0>>, failed |-> sum = TkoError]

PrepPacket(s, seq) ==
  LET tcp == TcpHeader(s, seq)
  IN [ip |-> Ipv4Header(40, 0, 32, 6, s.src, s.dst), tcp |-> tcp.mem, failed |-> tcp.failed]

\* tko_connect_init: the request has the number before the next one, the answer
\* the next one.  A failure of the answer is looked for in the request's length.
ConnectInit(s) ==
  LET request == PrepPacket(s, Dec32(s.seq))
  IN [request |-> request, response |-> PrepPacket(s, s.seq), failed |-> request.failed]

\* cylpa_nko_prep_packet, of a payload cut to 127 bytes.
NkoPrepPacket(d) ==
  LET size   == 8 + Len(d.payload)
      header == Big(d.sport) \o Big(d.dport) \o Big(size)
      sum    == UdpCksum(d.src, d.dst, header \o <<0, 0>> \o d.payload)
  IN [ip  |-> Ipv4Header(20 + size, 1, 225, 17, d.src, d.dst),
      udp |-> header \o Big(sum) \o d.payload]

-----------------------------------------------------------------------------
(* Properties                                                              *)

\* RFC 1071: the ones' complement sum over everything, checksum included, is
\* all ones; a last odd byte is padded with a zero.
Verifies(mem) == BigSum(mem) % 65535 = 0 /\ BigSum(mem) > 0

Number(tcp, i) == <<256 * tcp[i] + tcp[i + 1], 256 * tcp[i + 2] + tcp[i + 3]>>

\* A receiver accepts the two packets of a connection, and their numbers are those
\* of the connection, at the wrap of the sequence number too.  An answer that
\* could not be prepared is sent all the same.
SegmentsVerify ==
  \A s \in Segments :
    LET c == ConnectInit(s)
        Good(p) == /\ Verifies(p.ip)
                   /\ Verifies(PseudoHeader(s.src, s.dst, 6, 20) \o p.tcp)
    IN ~c.failed /\ ~c.response.failed =>
         /\ Good(c.request) /\ Good(c.response)
         /\ Number(c.response.tcp, 5) = s.seq
         /\ Dec32(Number(c.response.tcp, 5)) = Number(c.request.tcp, 5)

\* A receiver accepts the packet, whose checksum is never the zero that means none.
DatagramsVerify ==
  \A d \in Datagrams :
    LET p == NkoPrepPacket(d)
    IN /\ Verifies(p.ip)
       /\ Verifies(PseudoHeader(d.src, d.dst, 17, Len(p.udp)) \o p.udp)
       /\ <<p.udp[7], p.udp[8]>> # <<0, 0>>
=============================================================================
