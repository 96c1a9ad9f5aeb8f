---------------------------- MODULE MCArpOffload ----------------------------
(* Instances of ArpOffload for TLC. *)
EXTENDS ArpOffload

\* "Host and Peer Auto Reply" awake, "Peer Auto Reply" asleep, where the features
\* may fail to be set; "Host Auto Reply" awake, nothing asleep, where changes of
\* the host-IP list may fail.
UnequalMasks ==
  {[awake |-> {"HOST", "PEER"}, sleep |-> {"PEER"}, failing |-> {"enable", "features"}],
   [awake |-> {"HOST"}, sleep |-> {}, failing |-> {"add", "remove"}]}

\* "Peer Auto Reply" awake and asleep.
EqualMasks == {[awake |-> {"PEER"}, sleep |-> {"PEER"}, failing |-> {}]}
=============================================================================
