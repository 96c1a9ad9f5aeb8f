---------------------------- MODULE PacketFilter ----------------------------
(***************************************************************************)
(* The packet filter offload (source/cy_lpa_wifi_pf_ol.c): the thread of   *)
(* the connection manager creates, enables and removes the filters of the  *)
(* configuration one by one, the thread in wait_net_suspend enables and    *)
(* disables them on a change of the power state, and the two loops         *)
(* interleave.  Any command to the device may fail, and no command is      *)
(* tried again.                                                            *)
(*                                                                         *)
(* A filter of the device matches a frame field by field: it is the set of *)
(* values it lets match for the EtherType, the IP protocol and each port.  *)
(* IPv4 headers carry no options here.  A number of Width bits is worked   *)
(* on as the set of its bits.                                              *)
(***************************************************************************)
EXTENDS Integers, Sequences, FiniteSets

CONSTANTS
  Width,       \* MAX_BITS_IN_PORTNUM
  Configs      \* the lists of filters

Ports      == 0 .. 2^Width - 1
States     == {"AWAKE", "SLEEP"}
EtherTypes == {"ip", "arp"}
Protocols  == {"tcp", "udp", "icmp"}

\* cy_pf_ol_cfg_t; a kind of filter ignores the fields of the others.
Filters ==
  [bits : SUBSET States, discard : BOOLEAN, feature : {"port", "ethtype", "iptype"},
   ether : EtherTypes, proto : Protocols,
   direction : {"source", "dest", "both"}, port : Ports, range : Ports]

ASSUME ConstAssumption ==
  /\ Width \in Nat \ {0}
  /\ Configs \subseteq Seq(Filters)

VARIABLES
  config,      \* the configuration, fixed
  ctxt,        \* the context holds the configuration and the interface
  net,         \* the connection manager's thread: place and loop index
  life,        \* the offload as the manager sees it: "new", "up", "down"
  lpa,         \* the dispatching thread: place, state and loop index
  st,          \* the power state dispatched last
  overlap,     \* an init has run since that dispatch began
  rules,       \* device: the frames matched, for each filter it has
  enabled,     \* device: the enabled filters
  failed       \* history: the filters whose last command failed

manager == <<net, life, ctxt>>
power   == <<lpa, st>>
device  == <<rules, enabled, failed>>
vars    == <<config, manager, power, overlap, device>>

Init ==
  /\ config \in Configs
  /\ ctxt = FALSE /\ life = "new"
  /\ net = [at |-> "idle", i |-> 0]
  /\ lpa = [at |-> "idle", st |-> "AWAKE", i |-> 0]
  /\ st = "AWAKE" /\ overlap = FALSE
  /\ rules = <<>> /\ enabled = {} /\ failed = {}

-----------------------------------------------------------------------------
(* What a filter matches                                                   *)

Bits(n) == { b \in 0 .. Width : (n \div 2^b) % 2 = 1 }

IsPower(n) == Cardinality(Bits(n)) = 1

\* Mutant: the mask is not extended to the high bits.
SignExtend_Not(m) == m

\* cylpa_sign_extend to cylpa_bitwidth: all bits above the highest one are set.
SignExtend(m) == m \cup { b \in 0 .. Width - 1 : \A c \in m : c < b }

\* (port - 1) ^ range, with port or-ed back in.
RangeMask(f) ==
  LET low == Bits(f.port - 1)  span == Bits(f.range)
  IN  SignExtend(((low \cup span) \ (low \cap span)) \cup Bits(f.port))

PortMask(f) ==
  IF IsPower(f.port) /\ IsPower(f.range + 1) /\ f.range # 0
  THEN RangeMask(f)
  ELSE 0 .. Width - 1

\* The firmware compares the masked port with the pattern, which is the port.
MatchedPorts(f) == { p \in Ports : Bits(p) \cap PortMask(f) = Bits(f.port) }

\* common_filter_attrs: the rule is positive or negative matching.
Matching(f, ethers, protos, sources, dests) ==
  [discard |-> f.discard,
   ether |-> ethers, proto |-> protos, src |-> sources, dst |-> dests]

EthtypeFilter(f) == Matching(f, {f.ether}, Protocols, Ports, Ports)

IpFilter(f) == Matching(f, {"ip"}, {f.proto}, Ports, Ports)

\* Any protocol but UDP is taken for TCP; with both directions both ports are
\* compared.
PortFilter(f) ==
  Matching(f, {"ip"}, {IF f.proto = "udp" THEN "udp" ELSE "tcp"},
           IF f.direction = "dest"   THEN Ports ELSE MatchedPorts(f),
           IF f.direction = "source" THEN Ports ELSE MatchedPorts(f))

Matched(f) ==
  CASE f.feature = "port"    -> PortFilter(f)
    [] f.feature = "ethtype" -> EthtypeFilter(f)
    [] f.feature = "iptype"  -> IpFilter(f)

-----------------------------------------------------------------------------
(* Commands to the device                                                  *)

Done(i, r, e) == rules' = r /\ enabled' = e /\ failed' = failed \ {i}
Fail(i) == failed' = failed \cup {i} /\ UNCHANGED <<rules, enabled>>

Add(i) ==
  \/ i \notin DOMAIN rules
     /\ Done(i, [j \in DOMAIN rules \cup {i} |->
                  IF j = i THEN Matched(config[i]) ELSE rules[j]], enabled)
  \/ Fail(i)

\* A filter must be there, and the interface that is read from the context.
Enable(i) ==
  (i \in DOMAIN rules /\ ctxt /\ Done(i, rules, enabled \cup {i})) \/ Fail(i)
Disable(i) ==
  (i \in DOMAIN rules /\ ctxt /\ Done(i, rules, enabled \ {i})) \/ Fail(i)

Remove(i) ==
  \/ i \in DOMAIN rules
     /\ Done(i, [j \in DOMAIN rules \ {i} |-> rules[j]], enabled \ {i})
  \/ Fail(i)

NetGoto(from, to, i) == net.at = from /\ net' = [at |-> to, i |-> i]

AlwaysOn(i) == config[i].bits = States

-----------------------------------------------------------------------------
(* Mutants                                                                 *)

\* A filter that is active in one state is not disabled in the other.
PmOne_EnablesOnly ==
  /\ lpa.at = "loop" /\ lpa.i <= Len(config)
  /\ lpa' = [lpa EXCEPT !.i = @ + 1]
  /\ IF ~AlwaysOn(lpa.i) /\ lpa.st \in config[lpa.i].bits
     THEN Enable(lpa.i)
     ELSE UNCHANGED device
  /\ UNCHANGED <<config, manager, st, overlap>>

\* The second loop over the filters starts where the first one ended.
InitCreated_NoRewind ==
  /\ NetGoto("create", "enable", net.i + 1)
  /\ net.i > Len(config)
  /\ UNCHANGED <<config, life, ctxt, power, overlap, device>>

-----------------------------------------------------------------------------
(* The thread of the connection manager                                    *)

\* cylpa_pf_ol_init clears the context ...
InitReset ==
  /\ NetGoto("idle", "set", 0) /\ life # "up"
  /\ ctxt' = FALSE /\ overlap' = TRUE
  /\ UNCHANGED <<config, life, power, device>>

InitSet ==
  /\ NetGoto("set", "create", 1)
  /\ ctxt' = TRUE
  /\ UNCHANGED <<config, life, power, overlap, device>>

\* ... adds the filters ...
InitCreate ==
  /\ NetGoto("create", "create", net.i + 1)
  /\ net.i <= Len(config)
  /\ Add(net.i)
  /\ UNCHANGED <<config, life, ctxt, power, overlap>>

InitCreated ==
  /\ NetGoto("create", "enable", 1)
  /\ net.i > Len(config)
  /\ UNCHANGED <<config, life, ctxt, power, overlap, device>>

\* ... and enables those that are active awake.
InitEnable ==
  /\ NetGoto("enable", "enable", net.i + 1)
  /\ net.i <= Len(config)
  /\ IF "AWAKE" \in config[net.i].bits THEN Enable(net.i) ELSE UNCHANGED device
  /\ UNCHANGED <<config, life, ctxt, power, overlap>>

InitDone ==
  /\ NetGoto("enable", "idle", 0)
  /\ net.i > Len(config)
  /\ life' = "up"
  /\ UNCHANGED <<config, ctxt, power, overlap, device>>

\* cylpa_pf_ol_deinit; the context keeps its pointers.
Deinit ==
  /\ NetGoto("idle", "remove", 1) /\ life = "up"
  /\ life' = "down"
  /\ UNCHANGED <<config, ctxt, power, overlap, device>>

DeinitRemove ==
  /\ NetGoto("remove", "remove", net.i + 1)
  /\ net.i <= Len(config)
  /\ Remove(net.i)
  /\ UNCHANGED <<config, life, ctxt, power, overlap>>

DeinitDone ==
  /\ NetGoto("remove", "idle", 0)
  /\ net.i > Len(config)
  /\ UNCHANGED <<config, life, ctxt, power, overlap, device>>

-----------------------------------------------------------------------------
(* The dispatching thread: cylpa_pf_ol_pm                                  *)

\* Without a context the call returns at once.
Pm(s) ==
  /\ lpa.at = "idle" /\ s # st
  /\ st' = s
  /\ overlap' = (net.at \in {"set", "create", "enable"})
  /\ lpa' = IF ctxt THEN [at |-> "loop", st |-> s, i |-> 1] ELSE lpa
  /\ UNCHANGED <<config, manager, device>>

PmOne ==
  /\ lpa.at = "loop" /\ lpa.i <= Len(config)
  /\ lpa' = [lpa EXCEPT !.i = @ + 1]
  /\ IF AlwaysOn(lpa.i) THEN UNCHANGED device
     ELSE IF lpa.st \in config[lpa.i].bits THEN Enable(lpa.i) ELSE Disable(lpa.i)
  /\ UNCHANGED <<config, manager, st, overlap>>

PmDone ==
  /\ lpa.at = "loop" /\ lpa.i > Len(config)
  /\ lpa' = [lpa EXCEPT !.at = "idle"]
  /\ UNCHANGED <<config, manager, st, overlap, device>>

-----------------------------------------------------------------------------
Next ==
  \/ InitReset \/ InitSet \/ InitCreate \/ InitCreated \/ InitEnable \/ InitDone
  \/ Deinit \/ DeinitRemove \/ DeinitDone
  \/ \E s \in States : Pm(s)
  \/ PmOne \/ PmDone

Spec == Init /\ [][Next]_vars

-----------------------------------------------------------------------------
(* Properties                                                              *)

Rules ==
  [discard : BOOLEAN, ether : SUBSET EtherTypes, proto : SUBSET Protocols,
   src : SUBSET Ports, dst : SUBSET Ports]

\* Every variable stays in its type, the loops stay inside the list, and only
\* filters that exist are enabled.
TypeOK ==
  /\ config \in Configs /\ ctxt \in BOOLEAN /\ overlap \in BOOLEAN
  /\ net \in [at : {"idle", "set", "create", "enable", "remove"}, i : 0 .. Len(config) + 1]
  /\ net.at \in {"create", "enable", "remove"} => net.i # 0
  /\ life \in {"new", "up", "down"}
  /\ lpa \in [at : {"idle", "loop"}, st : States, i : 0 .. Len(config) + 1]
  /\ lpa.at = "loop" => lpa.i # 0
  /\ st \in States
  /\ DOMAIN rules \subseteq DOMAIN config
  /\ \A i \in DOMAIN rules : rules[i] \in Rules
  /\ enabled \subseteq DOMAIN rules /\ failed \subseteq DOMAIN config

\* "Filter is active only when Host is asleep", or awake, or always: when
\* neither thread is in a call, every filter whose last command succeeded is
\* enabled exactly in the states its bits name.  Awake this holds even after
\* init and deinit ran across changes of the power state, and after failures
\* of earlier changes; asleep an init must not have come in between.
FiltersMatchState ==
  net.at = "idle" /\ life = "up" /\ lpa.at = "idle" /\ (st = "AWAKE" \/ ~overlap) =>
    \A i \in DOMAIN config \ failed : i \in enabled <=> st \in config[i].bits

\* "Range must be of the form 2^y - 1 and must be less than portnum", which
\* must be a power of two; "if any of these checks fails, fallback to filtering
\* for just portnum".
DocumentedPorts(f) ==
  IF IsPower(f.port) /\ IsPower(f.range + 1) /\ f.range < f.port
  THEN f.port .. f.port + f.range
  ELSE {f.port}

\* What the documentation asks of a filter of ports: a protocol that has ports, and
\* a range below the port where it is of the form of a range.
WellFormed(f) ==
  f.feature = "port" => /\ f.proto \in {"tcp", "udp"}
                        /\ f.range < f.port \/ ~IsPower(f.range + 1)

\* A filter of the device drops or keeps exactly the frames that its kind, its
\* protocol, its port or range and its direction name, and no others.
FiltersExact ==
  \A i \in DOMAIN rules :
    LET f == config[i]  r == rules[i] IN
    /\ r.discard = f.discard
    /\ r.ether = IF f.feature = "ethtype" THEN {f.ether} ELSE {"ip"}
    /\ r.proto = IF f.feature = "ethtype" THEN Protocols ELSE {f.proto}
    /\ r.src = IF f.feature = "port" /\ f.direction \in {"source", "both"}
               THEN DocumentedPorts(f) ELSE Ports
    /\ r.dst = IF f.feature = "port" /\ f.direction \in {"dest", "both"}
               THEN DocumentedPorts(f) ELSE Ports
=============================================================================
