----------------------------- MODULE StackGate ------------------------------
(***************************************************************************)
(* What the network activity handler promises, without its threads, locks  *)
(* and bits.  The stack is a gate: running, locked, announced to the       *)
(* application as suspended, announced as resuming, running again, in that *)
(* order.  Tasks are inside the stack one at a time and only while it is   *)
(* running.  A received packet is taken once, and its fate is decided      *)
(* once: it is handed to the stack or its buffer is released.              *)
(***************************************************************************)
EXTENDS Naturals

CONSTANTS TxTasks, NoOne, MaxPkts

VARIABLES mode, sender, fate

gateVars == <<mode, sender, fate>>

Modes == {"running", "locked", "suspended", "resuming"}
Fates == {"none", "taken", "delivered", "released"}

Init ==
  /\ mode = "running"
  /\ sender = NoOne
  /\ fate = [p \in 1 .. MaxPkts |-> "none"]

Lock ==
  /\ mode = "running" /\ sender = NoOne
  /\ mode' = "locked"
  /\ UNCHANGED <<sender, fate>>

Turn(from, to) == mode = from /\ mode' = to /\ UNCHANGED <<sender, fate>>

Announce == Turn("locked", "suspended")
Recall   == Turn("suspended", "resuming")
Unlock   == Turn("resuming", "running")

Enter(t) ==
  /\ mode = "running" /\ sender = NoOne
  /\ sender' = t
  /\ UNCHANGED <<mode, fate>>

Leave ==
  /\ sender # NoOne
  /\ sender' = NoOne
  /\ UNCHANGED <<mode, fate>>

Decide(p, from, to) ==
  /\ fate[p] = from
  /\ fate' = [fate EXCEPT ![p] = to]
  /\ UNCHANGED <<mode, sender>>

Take(p)    == Decide(p, "none", "taken")
Deliver(p) == Decide(p, "taken", "delivered")
Release(p) == Decide(p, "taken", "released")

Next ==
  \/ Lock \/ Announce \/ Recall \/ Unlock
  \/ \E t \in TxTasks : Enter(t)
  \/ Leave
  \/ \E p \in 1 .. MaxPkts : Take(p) \/ Deliver(p) \/ Release(p)

Spec == Init /\ [][Next]_gateVars
=============================================================================
