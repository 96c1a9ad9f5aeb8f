--------------------------- MODULE MCPacketFilter ---------------------------
(* Instances of PacketFilter for TLC. *)
EXTENDS PacketFilter

Port(bits, proto, direction, port, range) ==
  [bits |-> bits, discard |-> proto = "udp", feature |-> "port", ether |-> "ip",
   proto |-> proto, direction |-> direction, port |-> port, range |-> range]

Type(bits, feature, ether, proto) ==
  [bits |-> bits, discard |-> ether = "arp", feature |-> feature, ether |-> ether,
   proto |-> proto, direction |-> "dest", port |-> 0, range |-> 0]

\* Two filters of different kinds that are active in any states, each kind with
\* each of its values, and single port filters for all ports and for all ranges
\* below the port or not of the right form.
Lists ==
  { <<Port(a, "tcp", "dest", 4, 3), Type(b, "ethtype", "arp", "tcp")>> :
             a, b \in SUBSET States }
    \cup { <<Type({"AWAKE"}, feature, ether, proto)>> :
             feature \in {"ethtype", "iptype"}, ether \in EtherTypes, proto \in Protocols }
    \cup { <<Port({"AWAKE"}, proto, direction, 8, 7)>> :
             proto \in {"tcp", "udp"}, direction \in {"source", "dest", "both"} }
    \cup { <<Port({"AWAKE"}, "udp", "both", p, r)>> :
             <<p, r>> \in { pr \in Ports \X Ports : pr[2] < pr[1] \/ ~IsPower(pr[2] + 1) } }

\* They are what FiltersAreExact assumes.
ASSUME ListsAssumption == \A c \in Lists : \A i \in DOMAIN c : WellFormed(c[i])

\* Single filters whose range is of the right form and not below the port.
WideRanges ==
  { <<Port({"AWAKE"}, "tcp", "dest", p, r)>> :
      <<p, r>> \in { pr \in Ports \X Ports : pr[2] >= pr[1] /\ IsPower(pr[2] + 1) } }
=============================================================================
