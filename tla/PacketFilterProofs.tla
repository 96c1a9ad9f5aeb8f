------------------------- MODULE PacketFilterProofs -------------------------
(***************************************************************************)
(* Proofs about the packet filter offload, for every list of filters and   *)
(* every width of the port numbers: that they are enabled in the states    *)
(* they name, and match the frames they name.                              *)
(***************************************************************************)
EXTENDS PacketFilter, FiniteSetTheorems, WellFoundedInduction, TLAPS

\* Where the two threads can be together.
PhaseInv ==
  /\ net.at \in {"create", "enable", "remove"} => ctxt
  /\ net.at = "idle" /\ life # "new" => ctxt
  /\ net.at \in {"set", "create", "enable"} => overlap
  /\ life = "up" => net.at = "idle"
  /\ life = "new" => net.at # "remove"
  /\ lpa.at = "loop" => lpa.st = st

\* The filter was added in the last init, whether it worked or not ...
Made(i) ==
  \/ net.at \in {"enable", "remove"} \/ (net.at = "create" /\ i < net.i)
  \/ net.at = "idle" /\ life # "new"

\* ... was enabled by it as far as it is active awake ...
Switched(i) == life = "up" \/ (net.at = "enable" /\ i < net.i)

\* ... and was reached by the last change of the power state.
Reached(i) == lpa.at = "idle" \/ i < lpa.i

\* What is known of a filter whose last command succeeded.
AlwaysInv(i) == AlwaysOn(i) /\ Switched(i) => i \in enabled
OffInv(i) ==
  st = "AWAKE" /\ Reached(i) /\ Made(i) /\ "AWAKE" \notin config[i].bits => i \notin enabled
OnInv(i) ==
  st = "AWAKE" /\ Reached(i) /\ Switched(i) /\ "AWAKE" \in config[i].bits => i \in enabled
SleepInv(i) ==
  st = "SLEEP" /\ Reached(i) /\ life = "up" /\ ~overlap =>
    (i \in enabled <=> "SLEEP" \in config[i].bits)

FilterInv(i) ==
  i \notin failed => AlwaysInv(i) /\ OffInv(i) /\ OnInv(i) /\ SleepInv(i)

Inv == TypeOK /\ PhaseInv /\ \A i \in DOMAIN config : FilterInv(i)
-----------------------------------------------------------------------------
(* Commands                                                                *)

Command(i) == Add(i) \/ Enable(i) \/ Disable(i) \/ Remove(i)

\* The list has a length, and its indices are those of the loops.
LEMMA ListFacts ==
  ASSUME config \in Configs
  PROVE  Len(config) \in Nat /\ DOMAIN config = 1 .. Len(config)
BY ConstAssumption

\* A command leaves every other filter alone.
LEMMA OthersKept ==
  ASSUME NEW i, NEW j, j # i, Command(i)
  PROVE  /\ j \in enabled' <=> j \in enabled
         /\ j \in failed' <=> j \in failed
BY DEF Command, Add, Enable, Disable, Remove, Done, Fail

\* A command that succeeded did what it is for; one for an absent interface
\* or filter did not succeed.
LEMMA Effects ==
  ASSUME NEW i, enabled \subseteq DOMAIN rules, i \notin failed'
  PROVE  /\ Enable(i) => i \in enabled'
         /\ Disable(i) \/ Remove(i) \/ Add(i) => i \notin enabled'
BY DEF Add, Enable, Disable, Remove, Done, Fail

DeviceType ==
  /\ DOMAIN rules \subseteq DOMAIN config
  /\ \A i \in DOMAIN rules : rules[i] \in Rules
  /\ enabled \subseteq DOMAIN rules /\ failed \subseteq DOMAIN config

\* A filter of the device is described by the values it lets match.
LEMMA MatchedType ==
  ASSUME NEW f \in Filters
  PROVE  Matched(f) \in Rules
<1>1. f.ether \in EtherTypes /\ f.proto \in Protocols /\ f.discard \in BOOLEAN
  BY DEF Filters
<1>2. /\ {f.ether} \in SUBSET EtherTypes /\ {f.proto} \in SUBSET Protocols
      /\ {"ip"} \in SUBSET EtherTypes /\ MatchedPorts(f) \in SUBSET Ports
      /\ {IF f.proto = "udp" THEN "udp" ELSE "tcp"} \in SUBSET Protocols
  BY <1>1 DEF EtherTypes, Protocols, MatchedPorts
<1>3. \A e \in SUBSET EtherTypes, p \in SUBSET Protocols, a, b \in SUBSET Ports :
        Matching(f, e, p, a, b) \in Rules
  BY <1>1 DEF Matching, Rules
<1>4. EthtypeFilter(f) \in Rules
  BY <1>2, <1>3 DEF EthtypeFilter
<1>5. IpFilter(f) \in Rules
  BY <1>2, <1>3 DEF IpFilter
<1>6. PortFilter(f) \in Rules
  BY <1>2, <1>3 DEF PortFilter
<1> QED BY <1>4, <1>5, <1>6 DEF Matched, Filters

\* A command for a filter of the list keeps the types of the device.
LEMMA CommandType ==
  ASSUME DeviceType, config \in Configs, NEW i \in DOMAIN config, Command(i),
         config' = config
  PROVE  DeviceType'
<1>1. CASE Fail(i)
  BY <1>1 DEF DeviceType, Fail
<1>2. CASE Enable(i) \/ Disable(i)
  BY <1>2 DEF DeviceType, Enable, Disable, Done, Fail
<1>3. CASE Add(i)
  <2>1. Matched(config[i]) \in Rules
    BY MatchedType, ConstAssumption
  <2>2. SUFFICES ASSUME Done(i, [j \in DOMAIN rules \cup {i} |->
                          IF j = i THEN Matched(config[i]) ELSE rules[j]], enabled)
                 PROVE  DeviceType'
    BY <1>1, <1>3 DEF Add
  <2>3. DOMAIN rules' = DOMAIN rules \cup {i}
    BY <2>2 DEF Done
  <2>4. \A j \in DOMAIN rules' : rules'[j] \in Rules
    BY <2>1, <2>2 DEF Done, DeviceType
  <2> QED BY <2>2, <2>3, <2>4 DEF Done, DeviceType
<1>4. CASE Remove(i)
  <2>1. SUFFICES ASSUME Done(i, [j \in DOMAIN rules \ {i} |-> rules[j]], enabled \ {i})
                 PROVE  DeviceType'
    BY <1>1, <1>4 DEF Remove
  <2> QED BY <2>1 DEF Done, DeviceType
<1> QED BY <1>2, <1>3, <1>4 DEF Command

-----------------------------------------------------------------------------
(* Types                                                                   *)

ThreadType ==
  /\ config \in Configs /\ ctxt \in BOOLEAN /\ overlap \in BOOLEAN
  /\ net \in [at : {"idle", "set", "create", "enable", "remove"}, i : 0 .. Len(config) + 1]
  /\ net.at \in {"create", "enable", "remove"} => net.i # 0
  /\ life \in {"new", "up", "down"}
  /\ lpa \in [at : {"idle", "loop"}, st : States, i : 0 .. Len(config) + 1]
  /\ lpa.at = "loop" => lpa.i # 0
  /\ st \in States

\* The type invariant speaks of the threads and of the device.
LEMMA TypeParts == TypeOK <=> ThreadType /\ DeviceType
BY DEF TypeOK, ThreadType, DeviceType

\* The invariant holds before the first step.
LEMMA InitInv ==
  ASSUME Init
  PROVE  Inv
<1>1. config \in Configs /\ Len(config) \in Nat /\ rules = <<>> /\ DOMAIN rules = {}
  BY ListFacts DEF Init
<1>2. TypeOK
  <2>1. ThreadType
    <3>1. ctxt \in BOOLEAN /\ overlap \in BOOLEAN
      BY DEF Init
    <3>2. /\ net \in [at : {"idle", "set", "create", "enable", "remove"}, i : 0 .. Len(config) + 1]
          /\ lpa \in [at : {"idle", "loop"}, st : States, i : 0 .. Len(config) + 1]
      BY <1>1 DEF Init, States
    <3> QED BY <1>1, <3>1, <3>2 DEF Init, ThreadType, States
  <2>2. DeviceType
    BY <1>1 DEF Init, DeviceType
  <2> QED BY <2>1, <2>2, TypeParts
<1>3. PhaseInv
  BY DEF Init, PhaseInv
<1>4. \A i \in DOMAIN config : FilterInv(i)
  BY DEF Init, FilterInv, AlwaysInv, OffInv, OnInv, SleepInv, Made, Switched
<1> QED BY <1>2, <1>3, <1>4 DEF Inv

\* Every step keeps the types: the loops of both threads end at the end of the list.
LEMMA TypeStep ==
  ASSUME TypeOK, [Next]_vars
  PROVE  TypeOK'
<1> USE TypeParts DEF manager, power, device, vars
<1>1. Len(config) \in Nat /\ DOMAIN config = 1 .. Len(config)
  BY ListFacts DEF ThreadType
<1>2. config' = config
  BY DEF Next, InitReset, InitSet, InitCreate, InitCreated, InitEnable, InitDone,
         Deinit, DeinitRemove, DeinitDone, Pm, PmOne, PmDone
<1>3. ThreadType'
  <2>1. CASE InitReset \/ InitSet
    <3>1. net' \in {[at |-> "set", i |-> 0], [at |-> "create", i |-> 1]}
      BY <2>1 DEF InitReset, InitSet, NetGoto
    <3>2. ctxt' \in BOOLEAN /\ overlap' \in BOOLEAN
      BY <2>1 DEF InitReset, InitSet, ThreadType
    <3>3. life' = life /\ lpa' = lpa /\ st' = st
      BY <2>1 DEF InitReset, InitSet
    <3> QED BY <1>1, <1>2, <3>1, <3>2, <3>3 DEF ThreadType
  <2>2. CASE InitCreate \/ InitCreated
    BY <1>1, <1>2, <2>2 DEF InitCreate, InitCreated, NetGoto, ThreadType
  <2>3. CASE InitEnable \/ InitDone
    BY <1>1, <1>2, <2>3 DEF InitEnable, InitDone, NetGoto, ThreadType
  <2>4. CASE Deinit \/ DeinitRemove \/ DeinitDone
    BY <1>1, <1>2, <2>4 DEF Deinit, DeinitRemove, DeinitDone, NetGoto, ThreadType
  <2>5. CASE \E s \in States : Pm(s)
    BY <1>1, <1>2, <2>5 DEF Pm, ThreadType
  <2>6. CASE PmOne \/ PmDone
    BY <1>1, <1>2, <2>6 DEF PmOne, PmDone, ThreadType
  <2>7. CASE UNCHANGED vars
    BY <2>7 DEF ThreadType
  <2> QED BY <2>1, <2>2, <2>3, <2>4, <2>5, <2>6, <2>7 DEF Next
<1>4. DeviceType'
  <2>1. ASSUME NEW i \in DOMAIN config, Command(i) PROVE DeviceType'
    <3>1. DeviceType /\ config \in Configs /\ config' = config
      BY <1>2 DEF ThreadType, TypeOK
    <3> QED BY <2>1, <3>1, CommandType
  <2>2. CASE UNCHANGED device
    BY <1>2, <2>2 DEF DeviceType
  <2>3. CASE InitCreate \/ InitEnable \/ DeinitRemove
    <3>1. net.i \in DOMAIN config
      BY <1>1, <2>3 DEF InitCreate, InitEnable, DeinitRemove, NetGoto, ThreadType
    <3> QED BY <2>1, <2>2, <2>3, <3>1 DEF InitCreate, InitEnable, DeinitRemove, Command
  <2>4. CASE PmOne
    <3>1. lpa.i \in DOMAIN config
      BY <1>1, <2>4 DEF PmOne, ThreadType
    <3> QED BY <2>1, <2>2, <2>4, <3>1 DEF PmOne, Command
  <2> QED BY <2>2, <2>3, <2>4 DEF Next, InitReset, InitSet, InitCreated, InitDone,
                                  Deinit, DeinitDone, Pm, PmDone
<1> QED BY <1>3, <1>4 DEF TypeOK, ThreadType, DeviceType

-----------------------------------------------------------------------------
(* The phases of the threads                                               *)

\* The interface is in the context wherever filters are worked on, and an init
\* that is under way has been noted by the dispatching thread.
LEMMA PhaseStep ==
  ASSUME TypeOK, PhaseInv, [Next]_vars
  PROVE  PhaseInv'
<1> USE DEF PhaseInv, manager, power, device, vars
<1>1. CASE InitReset \/ InitSet \/ InitCreate \/ InitCreated
  BY <1>1 DEF InitReset, InitSet, InitCreate, InitCreated, NetGoto
<1>2. CASE InitEnable \/ InitDone
  BY <1>2 DEF InitEnable, InitDone, NetGoto
<1>3. CASE Deinit \/ DeinitRemove \/ DeinitDone
  BY <1>3 DEF Deinit, DeinitRemove, DeinitDone, NetGoto
<1>4. CASE \E s \in States : Pm(s)
  BY <1>4 DEF Pm, TypeOK
<1>5. CASE PmOne \/ PmDone
  BY <1>5 DEF PmOne, PmDone, TypeOK
<1>6. CASE UNCHANGED vars
  BY <1>6
<1> QED BY <1>1, <1>2, <1>3, <1>4, <1>5, <1>6 DEF Next

-----------------------------------------------------------------------------
(* What is known of each filter                                            *)

\* Steps of the connection manager's thread that send no command.
LEMMA QuietNetStep ==
  ASSUME TypeOK, PhaseInv, NEW i \in DOMAIN config, FilterInv(i),
         InitReset \/ InitSet \/ InitCreated \/ InitDone \/ Deinit \/ DeinitDone
  PROVE  FilterInv(i)'
<1> USE DEF FilterInv, AlwaysInv, OffInv, OnInv, SleepInv, Made, Switched, Reached,
            AlwaysOn, PhaseInv, power, device
<1>1. i \in Nat /\ i <= Len(config) /\ Len(config) \in Nat
  BY ListFacts DEF TypeOK
<1>2. net.i \in Nat
  BY <1>1 DEF TypeOK
<1>3. CASE InitReset \/ InitSet
  BY <1>1, <1>3 DEF InitReset, InitSet, NetGoto
<1>4. CASE InitCreated
  BY <1>1, <1>2, <1>4 DEF InitCreated, NetGoto
<1>5. CASE InitDone
  BY <1>1, <1>2, <1>5 DEF InitDone, NetGoto
<1>6. CASE Deinit \/ DeinitDone
  BY <1>1, <1>6 DEF Deinit, DeinitDone, NetGoto
<1> QED BY <1>3, <1>4, <1>5, <1>6

\* Steps of that thread that send a command, for the filter they are at or another.
LEMMA NetCommandStep ==
  ASSUME TypeOK, PhaseInv, NEW i \in DOMAIN config, FilterInv(i),
         InitCreate \/ InitEnable \/ DeinitRemove
  PROVE  FilterInv(i)'
<1> USE DEF FilterInv, AlwaysInv, OffInv, OnInv, SleepInv, Made, Switched, Reached,
            AlwaysOn, PhaseInv, power
<1>1. i \in Nat /\ net.i \in Nat /\ enabled \subseteq DOMAIN rules
  BY ListFacts DEF TypeOK
<1>2. UNCHANGED <<config, life, lpa, st, overlap>>
  BY DEF InitCreate, InitEnable, DeinitRemove
<1>3. life # "up" /\ net'.i = net.i + 1 /\ net'.at = net.at
  BY DEF InitCreate, InitEnable, DeinitRemove, NetGoto
<1>4. CASE net.i # i
  <2>1. (i \in enabled' <=> i \in enabled) /\ (i \in failed' <=> i \in failed)
    BY <1>4, OthersKept DEF InitCreate, InitEnable, DeinitRemove, Command, device
  <2>2. i < net.i + 1 <=> i < net.i
    BY <1>1, <1>4
  <2> QED BY <1>2, <1>3, <2>1, <2>2
<1>5. CASE net.i = i /\ (InitCreate \/ DeinitRemove)
  <2>1. i \notin failed' => i \notin enabled'
    BY <1>1, <1>5, Effects DEF InitCreate, DeinitRemove
  <2>2. net.at # "enable"
    BY <1>5 DEF InitCreate, DeinitRemove, NetGoto
  <2> QED BY <1>2, <1>3, <2>1, <2>2
<1>6. CASE net.i = i /\ InitEnable /\ "AWAKE" \in config[i].bits
  <2>1. i \notin failed' => i \in enabled'
    BY <1>1, <1>6, Effects DEF InitEnable
  <2> QED BY <1>2, <1>3, <1>6, <2>1
<1>7. CASE net.i = i /\ InitEnable /\ "AWAKE" \notin config[i].bits
  <2>1. UNCHANGED <<enabled, failed>> /\ net.at = "enable"
    BY <1>7 DEF InitEnable, NetGoto, device
  <2>2. ~AlwaysOn(i)
    BY <1>7 DEF States
  <2> QED BY <1>2, <1>3, <1>7, <2>1, <2>2
<1> QED BY <1>4, <1>5, <1>6, <1>7

\* A new power state starts at the first filter, or finds no context.
LEMMA PmStep ==
  ASSUME TypeOK, PhaseInv, NEW i \in DOMAIN config, FilterInv(i), NEW s \in States, Pm(s)
  PROVE  FilterInv(i)'
<1> USE DEF FilterInv, AlwaysInv, OffInv, OnInv, SleepInv, Made, Switched, AlwaysOn, manager, device
<1>1. CASE ctxt
  <2>1. ~Reached(i)'
    BY <1>1, ListFacts DEF Pm, Reached, TypeOK
  <2> QED BY <2>1 DEF Pm
<1>2. CASE ~ctxt
  <2>1. ~Made(i) /\ ~Switched(i)
    BY <1>2 DEF PhaseInv, TypeOK
  <2> QED BY <2>1 DEF Pm
<1> QED BY <1>1, <1>2

\* The loop of the power state reaches the next filter.
LEMMA PmLoopStep ==
  ASSUME TypeOK, PhaseInv, NEW i \in DOMAIN config, FilterInv(i), PmOne \/ PmDone
  PROVE  FilterInv(i)'
<1> USE DEF FilterInv, AlwaysInv, OffInv, OnInv, SleepInv
<1>1. i \in Nat /\ lpa.i \in Nat /\ i <= Len(config) /\ Len(config) \in Nat
  BY ListFacts DEF TypeOK
<1>2. /\ UNCHANGED <<config, net, life, st, overlap>>
      /\ Made(i)' <=> Made(i)
      /\ Switched(i)' <=> Switched(i)
      /\ AlwaysOn(i)' <=> AlwaysOn(i)
  BY DEF PmOne, PmDone, manager, Made, Switched, AlwaysOn
<1>3. CASE PmDone
  BY <1>1, <1>2, <1>3 DEF PmDone, device, Reached, TypeOK
<1>4. CASE PmOne /\ lpa.i # i
  <2>1. (i \in enabled' <=> i \in enabled) /\ (i \in failed' <=> i \in failed)
    BY <1>4, OthersKept DEF PmOne, Command, device
  <2>2. Reached(i)' <=> Reached(i)
    BY <1>1, <1>4 DEF PmOne, Reached, TypeOK
  <2> QED BY <1>2, <2>1, <2>2
<1>5. CASE PmOne /\ lpa.i = i /\ AlwaysOn(i)
  <2>1. UNCHANGED <<enabled, failed>>
    BY <1>5 DEF PmOne, device
  <2>2. "AWAKE" \in config[i].bits /\ "SLEEP" \in config[i].bits
    BY <1>5 DEF AlwaysOn, States
  <2>3. life = "up" => Switched(i)
    BY DEF Switched
  <2> QED BY <1>2, <1>5, <2>1, <2>2, <2>3
<1>6. CASE PmOne /\ lpa.i = i /\ ~AlwaysOn(i)
  <2>1. lpa.st = st /\ enabled \subseteq DOMAIN rules
    BY <1>6 DEF PmOne, PhaseInv, TypeOK
  <2>2. i \notin failed' => (i \in enabled' <=> st \in config[i].bits)
    BY <1>6, <2>1, Effects DEF PmOne
  <2> QED BY <1>2, <1>6, <2>2
<1> QED BY <1>3, <1>4, <1>5, <1>6

-----------------------------------------------------------------------------
(* The invariant and what follows from it                                  *)

\* Each step of either thread keeps the whole invariant.
LEMMA NextInv ==
  ASSUME Inv, [Next]_vars
  PROVE  Inv'
<1>1. TypeOK' /\ PhaseInv'
  BY TypeStep, PhaseStep DEF Inv
<1>2. config' = config
  BY DEF Next, InitReset, InitSet, InitCreate, InitCreated, InitEnable, InitDone,
         Deinit, DeinitRemove, DeinitDone, Pm, PmOne, PmDone, vars
<1>3. ASSUME NEW i \in DOMAIN config PROVE FilterInv(i)'
  <2>1. TypeOK /\ PhaseInv /\ FilterInv(i)
    BY DEF Inv
  <2>2. CASE InitReset \/ InitSet \/ InitCreated \/ InitDone \/ Deinit \/ DeinitDone
    BY <2>1, <2>2, QuietNetStep
  <2>3. CASE InitCreate \/ InitEnable \/ DeinitRemove
    BY <2>1, <2>3, NetCommandStep
  <2>4. CASE \E s \in States : Pm(s)
    BY <2>1, <2>4, PmStep
  <2>5. CASE PmOne \/ PmDone
    BY <2>1, <2>5, PmLoopStep
  <2>6. CASE UNCHANGED vars
    BY <2>1, <2>6 DEF vars, manager, power, device, FilterInv, AlwaysInv, OffInv, OnInv,
                      SleepInv, Made, Switched, Reached, AlwaysOn
  <2> QED BY <2>2, <2>3, <2>4, <2>5, <2>6 DEF Next
<1> QED BY <1>1, <1>2, <1>3 DEF Inv

\* The inductive invariant holds in every state of every behaviour.
THEOREM InvHolds == Spec => []Inv
<1>1. Init => Inv
  BY InitInv
<1>2. Inv /\ [Next]_vars => Inv'
  BY NextInv
<1> QED BY <1>1, <1>2, PTL DEF Spec

\* The loops of cylpa_pf_ol_init, deinit and pm stay inside the list, and only
\* filters that exist are enabled.
THEOREM TypeCorrect == Spec => []TypeOK
<1>1. Inv => TypeOK
  BY DEF Inv
<1> QED BY <1>1, InvHolds, PTL

\* For any list of filters, however the thread of the connection manager and
\* that of the power states interleave and whichever commands fail, a filter
\* whose last command succeeded is enabled exactly in the states of its bits.
THEOREM FiltersFollowState == Spec => []FiltersMatchState
<1>1. Inv => FiltersMatchState
  <2> SUFFICES ASSUME Inv, net.at = "idle", life = "up", lpa.at = "idle",
                      st = "AWAKE" \/ ~overlap,
                      NEW i \in DOMAIN config \ failed
               PROVE  i \in enabled <=> st \in config[i].bits
    BY DEF FiltersMatchState
  <2>1. Made(i) /\ Switched(i) /\ Reached(i) /\ FilterInv(i)
    BY DEF Inv, Made, Switched, Reached
  <2>2. st \in {"AWAKE", "SLEEP"}
    BY DEF Inv, TypeOK, States
  <2> QED BY <2>1, <2>2 DEF FilterInv, OffInv, OnInv, SleepInv
<1> QED BY <1>1, InvHolds, PTL

-----------------------------------------------------------------------------
(* Numbers and their bits                                                  *)

\* A number has twice as many subsets below it as the one before.
LEMMA TwoExp ==
  ASSUME NEW n \in Nat
  PROVE  2^n \in Nat \ {0} /\ 2^(n + 1) = 2 * 2^n
<1> DEFINE S == 1 .. n
           T == 1 .. n + 1
           P == SUBSET S
           Q == { A \cup {n + 1} : A \in P }
           f == [A \in P |-> A \cup {n + 1}]
<1>1. /\ IsFiniteSet(S) /\ Cardinality(S) = n /\ IsFiniteSet(T) /\ Cardinality(T) = n + 1
  <2>1. n + 1 \in Int /\ 1 \in Int /\ n \in Int OBVIOUS
  <2>2. IsFiniteSet(1 .. n) /\ Cardinality(1 .. n) = IF 1 > n THEN 0 ELSE n - 1 + 1
    BY <2>1, FS_Interval
  <2>3. IsFiniteSet(1 .. n + 1) /\ Cardinality(1 .. n + 1) = IF 1 > n + 1 THEN 0 ELSE n + 1 - 1 + 1
    BY <2>1, FS_Interval
  <2> QED BY <2>2, <2>3
<1>2. /\ IsFiniteSet(P) /\ Cardinality(P) = 2^n
      /\ IsFiniteSet(SUBSET T) /\ Cardinality(SUBSET T) = 2^(n + 1)
  BY <1>1, FS_SUBSET
<1>3. n + 1 \notin S /\ T = S \cup {n + 1} OBVIOUS
<1>4. f \in Bijection(P, Q)
  <2>1. f \in [P -> Q] OBVIOUS
  <2>2. \A a, b \in P : f[a] = f[b] => a = b
    <3> SUFFICES ASSUME NEW a \in P, NEW b \in P, f[a] = f[b] PROVE a = b OBVIOUS
    <3>1. a \cup {n + 1} = b \cup {n + 1} OBVIOUS
    <3>2. n + 1 \notin a /\ n + 1 \notin b BY <1>3
    <3>3. a = (a \cup {n + 1}) \ {n + 1} /\ b = (b \cup {n + 1}) \ {n + 1} BY <3>2
    <3> QED BY <3>1, <3>3
  <2>3. \A t \in Q : \E s \in P : f[s] = t OBVIOUS
  <2> HIDE DEF P, Q, f
  <2> QED BY <2>1, <2>2, <2>3 DEF Bijection, Injection, IsInjective, Surjection
<1> HIDE DEF S, T, P, Q, f
<1>5. IsFiniteSet(Q) /\ Cardinality(Q) = 2^n
  BY <1>2, <1>4, FS_Bijection DEF ExistsBijection
<1>6. SUBSET T = P \cup Q
  <2>1. ASSUME NEW A \in SUBSET T PROVE A \in P \cup Q
    <3>1. CASE n + 1 \notin A BY <1>3, <3>1 DEF P
    <3>2. CASE n + 1 \in A
      <4>1. A \ {n + 1} \in P BY <1>3 DEF P
      <4>2. A = (A \ {n + 1}) \cup {n + 1} BY <3>2
      <4> QED BY <4>1, <4>2 DEF Q
    <3> QED BY <3>1, <3>2
  <2>2. \A A \in P \cup Q : A \subseteq T BY <1>3 DEF P, Q
  <2> QED BY <2>1, <2>2
<1>7. P \cap Q = {} BY <1>3 DEF P, Q
<1>8. Cardinality(P \cap Q) = 0 BY <1>7, FS_EmptySet
<1>9. Cardinality(P \cup Q) = Cardinality(P) + Cardinality(Q) - Cardinality(P \cap Q)
  BY <1>2, <1>5, FS_Union
<1>10. Cardinality(P) \in Nat BY <1>2, FS_CardinalityType
<1>11. 2^n # 0
  <2>1. {} \in P BY DEF P
  <2>2. Cardinality(P) # 0 BY <1>2, <2>1, FS_EmptySet
  <2> QED BY <1>2, <2>2
<1>12. 2^(n + 1) = 2^n + 2^n - 0 BY <1>2, <1>5, <1>6, <1>8, <1>9
<1>13. \A x \in Nat : x + x - 0 = 2 * x OBVIOUS
<1> QED BY <1>2, <1>10, <1>11, <1>12, <1>13

\* The least of a set of numbers.
LEMMA Least ==
  ASSUME NEW S \in SUBSET Nat, S # {}
  PROVE  \E x \in S : \A y \in S : x <= y
<1> DEFINE less == OpToRel(<, Nat)
<1>1. IsWellFoundedOn(less, Nat) BY NatLessThanWellFounded
<1> HIDE DEF less
<1>2. PICK x \in S : \A y \in S : ~(<<y, x>> \in less) BY <1>1, WFMin
<1>3. ASSUME NEW y \in S PROVE x <= y
  <2>1. ~(y < x) BY <1>2 DEF less, OpToRel
  <2> QED BY <2>1
<1> QED BY <1>3

\* The quotient is what the remainder leaves.
LEMMA Quotient ==
  ASSUME NEW d \in Nat \ {0}, NEW q \in Nat, NEW r \in 0 .. d - 1, NEW n \in Nat, n = d * q + r
  PROVE  n \div d = q
OBVIOUS

\* Dividing by twice a number is halving the quotient.
LEMMA Quotients ==
  ASSUME NEW d \in Nat \ {0}, NEW n \in Nat
  PROVE  /\ n \div d \in Nat /\ n \div (2 * d) = (n \div d) \div 2
         /\ n < d => n \div d = 0
         /\ d * (n \div d) <= n /\ n < d * (n \div d) + d
OBVIOUS

\* Bit k of a number, and the number without the bits below it.
Bit(n, k)  == (n \div 2^k) % 2
From(n, k) == n \div 2^k

\* A bit is what halving leaves over.
LEMMA FromNext ==
  ASSUME NEW n \in Nat, NEW k \in Nat
  PROVE  /\ From(n, k) \in Nat /\ From(n, 0) = n
         /\ From(n, k + 1) = From(n, k) \div 2
         /\ From(n, k) = 2 * From(n, k + 1) + Bit(n, k)
         /\ Bit(n, k) \in {0, 1}
         /\ n < 2^k => From(n, k) = 0
<1> DEFINE d == 2^k
<1>1. d \in Nat \ {0} /\ 2^(k + 1) = 2 * d BY TwoExp
<1>2. 2^0 = 1 OBVIOUS
<1>3. n \div 1 = n OBVIOUS
<1> HIDE DEF d
<1>4. /\ n \div d \in Nat /\ n \div (2 * d) = (n \div d) \div 2
      /\ n < d => n \div d = 0
  BY <1>1, Quotients
<1>5. From(n, k) = n \div d /\ From(n, k + 1) = (n \div d) \div 2 /\ Bit(n, k) = (n \div d) % 2
  BY <1>1, <1>4 DEF From, Bit, d
<1>6. From(n, 0) = n BY <1>2, <1>3 DEF From
<1>7. \A x \in Nat : x = 2 * (x \div 2) + (x % 2) /\ x % 2 \in {0, 1} OBVIOUS
<1>8. From(n, k) = 2 * From(n, k + 1) + Bit(n, k) /\ Bit(n, k) \in {0, 1} BY <1>4, <1>5, <1>7
<1>9. n < 2^k => From(n, k) = 0 BY <1>4, <1>5 DEF d
<1> QED BY <1>4, <1>5, <1>6, <1>8, <1>9

\* Numbers that agree from bit w on and in the bits from y to w agree from bit y on.
LEMMA SameBits ==
  ASSUME NEW m \in Nat, NEW n \in Nat, NEW w \in Nat, NEW y \in 0 .. w,
         From(m, w) = From(n, w), \A k \in y .. w - 1 : Bit(m, k) = Bit(n, k)
  PROVE  From(m, y) = From(n, y)
<1> DEFINE S == { k \in Nat : y <= k /\ k <= w /\ From(m, k) = From(n, k) }
<1>1. S \in SUBSET Nat /\ w \in S OBVIOUS
<1>2. PICK x \in S : \A k \in S : x <= k BY <1>1, Least
<1>3. x \in Nat /\ y <= x /\ x <= w /\ From(m, x) = From(n, x) OBVIOUS
<1>4. ASSUME x # y PROVE FALSE
  <2> DEFINE j == x - 1
  <2>1. j \in Nat /\ j + 1 = x /\ y <= j /\ j <= w - 1 BY <1>3, <1>4
  <2> HIDE DEF j
  <2>2. /\ From(m, j) = 2 * From(m, j + 1) + Bit(m, j)
        /\ From(n, j) = 2 * From(n, j + 1) + Bit(n, j)
    BY <2>1, FromNext
  <2>3. Bit(m, j) = Bit(n, j) BY <2>1
  <2>4. From(m, j) = From(n, j) BY <1>3, <2>1, <2>2, <2>3
  <2>5. j \in S BY <2>1, <2>4
  <2>6. x <= j BY <1>2, <2>5
  <2> QED BY <2>1, <2>6
<1> QED BY <1>3, <1>4

\* Numbers that agree from a bit on have the same bits from there on.
LEMMA SameFrom ==
  ASSUME NEW m \in Nat, NEW n \in Nat, NEW y \in Nat, From(m, y) = From(n, y),
         NEW k \in Nat, y <= k
  PROVE  From(m, k) = From(n, k) /\ Bit(m, k) = Bit(n, k)
<1> DEFINE S == { j \in Nat : y <= j /\ From(m, j) # From(n, j) }
<1>1. S = {}
  <2> SUFFICES ASSUME S # {} PROVE FALSE OBVIOUS
  <2>1. S \in SUBSET Nat OBVIOUS
  <2>2. PICK x \in S : \A j \in S : x <= j BY <2>1, Least
  <2>3. x \in Nat /\ y <= x /\ From(m, x) # From(n, x) OBVIOUS
  <2> DEFINE j == x - 1
  <2>4. j \in Nat /\ j + 1 = x /\ y <= j BY <2>3
  <2> HIDE DEF j
  <2>5. j \notin S BY <2>2, <2>4
  <2>6. From(m, j) = From(n, j) BY <2>4, <2>5
  <2>7. From(m, j + 1) = From(m, j) \div 2 /\ From(n, j + 1) = From(n, j) \div 2
    BY <2>4, FromNext
  <2> QED BY <2>3, <2>4, <2>6, <2>7
<1>2. From(m, k) = From(n, k) BY <1>1
<1> QED BY <1>2 DEF From, Bit

\* A number without bits below y is a multiple of 2^y.
LEMMA Multiple ==
  ASSUME NEW n \in Nat, NEW y \in Nat, \A k \in 0 .. y - 1 : Bit(n, k) = 0
  PROVE  n = 2^y * From(n, y)
<1> DEFINE S == { k \in Nat : k <= y /\ n # 2^k * From(n, k) }
<1>1. S = {}
  <2> SUFFICES ASSUME S # {} PROVE FALSE OBVIOUS
  <2>1. S \in SUBSET Nat OBVIOUS
  <2>2. PICK x \in S : \A j \in S : x <= j BY <2>1, Least
  <2>3. x \in Nat /\ x <= y /\ n # 2^x * From(n, x) OBVIOUS
  <2>4. x # 0
    <3>1. From(n, 0) = n BY FromNext
    <3>2. 2^0 = 1 /\ n = 1 * n OBVIOUS
    <3>3. n = 2^0 * From(n, 0) BY <3>1, <3>2
    <3> QED BY <2>3, <3>3
  <2> DEFINE j == x - 1
  <2>5. j \in Nat /\ j + 1 = x /\ j \in 0 .. y - 1 BY <2>3, <2>4
  <2> HIDE DEF j
  <2>6. j \notin S BY <2>2, <2>5
  <2>7. n = 2^j * From(n, j) BY <2>5, <2>6
  <2>8. From(n, j) = 2 * From(n, j + 1) BY <2>5, FromNext
  <2>9. 2^(j + 1) = 2 * 2^j /\ 2^j \in Nat /\ From(n, j + 1) \in Nat BY <2>5, TwoExp, FromNext
  <2>10. \A a, b \in Nat : a * (2 * b) = (2 * a) * b OBVIOUS
  <2> QED BY <2>3, <2>5, <2>7, <2>8, <2>9, <2>10
<1> QED BY <1>1

\* Powers grow.
LEMMA PowersGrow ==
  ASSUME NEW a \in Nat, NEW b \in Nat, a < b
  PROVE  2^a < 2^b
<1> DEFINE S == { k \in Nat : a < k /\ ~(2^a < 2^k) }
<1>1. S = {}
  <2> SUFFICES ASSUME S # {} PROVE FALSE OBVIOUS
  <2>1. S \in SUBSET Nat OBVIOUS
  <2>2. PICK x \in S : \A j \in S : x <= j BY <2>1, Least
  <2>3. x \in Nat /\ a < x /\ ~(2^a < 2^x) OBVIOUS
  <2> DEFINE j == x - 1
  <2>4. j \in Nat /\ j + 1 = x /\ a <= j BY <2>3
  <2> HIDE DEF j
  <2>5. j \notin S BY <2>2, <2>4
  <2>6. 2^a <= 2^j
    <3>1. CASE a = j BY <3>1, TwoExp
    <3>2. CASE a < j
      <4>1. 2^a < 2^j BY <2>4, <2>5, <3>2
      <4>2. 2^a \in Nat /\ 2^j \in Nat BY <2>4, TwoExp
      <4> QED BY <4>1, <4>2
    <3> QED BY <2>4, <3>1, <3>2
  <2>7. 2^(j + 1) = 2 * 2^j /\ 2^j \in Nat \ {0} /\ 2^a \in Nat BY <2>4, TwoExp
  <2> QED BY <2>3, <2>4, <2>6, <2>7
<1> QED BY <1>1

\* The number before a power of two has all bits below it.
LEMMA AllOnes ==
  ASSUME NEW y \in Nat, NEW k \in Nat
  PROVE  Bit(2^y - 1, k) = IF k < y THEN 1 ELSE 0
<1> DEFINE n == 2^y - 1
<1>1. n \in Nat /\ n < 2^y BY TwoExp
<1> HIDE DEF n
<1>2. CASE k >= y
  <2>1. 2^y <= 2^k
    <3>1. CASE k = y BY <3>1, TwoExp
    <3>2. CASE y < k
      <4>1. 2^y < 2^k BY <3>2, PowersGrow
      <4>2. 2^y \in Nat /\ 2^k \in Nat BY TwoExp
      <4> QED BY <4>1, <4>2
    <3> QED BY <1>2, <3>1, <3>2
  <2>2. n < 2^k
    <3>1. 2^y \in Nat /\ 2^k \in Nat BY TwoExp
    <3> QED BY <1>1, <2>1, <3>1
  <2>3. From(n, k) = 0 BY <1>1, <2>2, FromNext
  <2>4. Bit(n, k) = 0 BY <2>3 DEF From, Bit
  <2> QED BY <1>2, <2>4 DEF n
<1>3. CASE k < y
  <2> DEFINE S == { j \in Nat : j <= y /\ From(n, j) # 2^(y - j) - 1 }
  <2>1. S = {}
    <3> SUFFICES ASSUME S # {} PROVE FALSE OBVIOUS
    <3>1. S \in SUBSET Nat OBVIOUS
    <3>2. PICK x \in S : \A j \in S : x <= j BY <3>1, Least
    <3>3. x \in Nat /\ x <= y /\ From(n, x) # 2^(y - x) - 1 OBVIOUS
    <3>4. x # 0
      <4>1. From(n, 0) = n /\ y - 0 = y BY <1>1, FromNext
      <4> QED BY <3>3, <4>1 DEF n
    <3> DEFINE j == x - 1
    <3>5. j \in Nat /\ j + 1 = x /\ j <= y BY <3>3, <3>4
    <3> HIDE DEF j
    <3>6. j \notin S BY <3>2, <3>5
    <3>7. From(n, j) = 2^(y - j) - 1 BY <3>5, <3>6
    <3>8. From(n, j + 1) = From(n, j) \div 2 BY <1>1, <3>5, FromNext
    <3> DEFINE e == y - x
    <3>9. e \in Nat /\ y - j = e + 1 BY <3>3, <3>5
    <3> HIDE DEF e
    <3>10. 2^(e + 1) = 2 * 2^e /\ 2^e \in Nat \ {0} BY <3>9, TwoExp
    <3>11. \A p \in Nat \ {0} : (2 * p - 1) \div 2 = p - 1 OBVIOUS
    <3>12. From(n, x) = 2^e - 1 BY <3>5, <3>7, <3>8, <3>9, <3>10, <3>11
    <3> QED BY <3>3, <3>12 DEF e
  <2>2. From(n, k) = 2^(y - k) - 1 BY <1>3, <2>1
  <2> DEFINE e == y - k - 1
  <2>3. e \in Nat /\ y - k = e + 1 BY <1>3
  <2> HIDE DEF e
  <2>4. 2^(e + 1) = 2 * 2^e /\ 2^e \in Nat \ {0} BY <2>3, TwoExp
  <2>5. \A p \in Nat \ {0} : (2 * p - 1) % 2 = 1 OBVIOUS
  <2>6. Bit(n, k) = 1 BY <2>2, <2>3, <2>4, <2>5 DEF Bit, From
  <2> QED BY <1>3, <2>6 DEF n
<1> QED BY <1>2, <1>3

\* A number with a single bit is a power of two.
LEMMA SingleBit ==
  ASSUME NEW n \in Nat, NEW w \in Nat, n < 2^w, NEW a \in 0 .. w - 1,
         \A k \in 0 .. w - 1 : Bit(n, k) = IF k = a THEN 1 ELSE 0
  PROVE  n = 2^a
<1>1. From(n, w) = 0 /\ From(0, w) = 0
  <2>1. 0 < 2^w /\ 0 \in Nat BY TwoExp
  <2> QED BY <2>1, FromNext
<1>2. From(n, a + 1) = From(0, a + 1)
  <2>1. a + 1 \in 0 .. w /\ 0 \in Nat OBVIOUS
  <2>2. \A k \in Nat : Bit(0, k) = 0
    <3> TAKE k \in Nat
    <3>1. 0 < 2^k /\ 0 \in Nat BY TwoExp
    <3>2. From(0, k) = 0 BY <3>1, FromNext
    <3>3. Bit(0, k) = From(0, k) % 2 BY DEF From, Bit
    <3>4. 0 % 2 = 0 OBVIOUS
    <3> QED BY <3>2, <3>3, <3>4
  <2>3. \A k \in a + 1 .. w - 1 : Bit(n, k) = Bit(0, k) BY <2>2
  <2> QED BY <1>1, <2>1, <2>3, SameBits
<1>3. From(0, a + 1) = 0
  <2>1. 0 < 2^(a + 1) /\ 0 \in Nat /\ a + 1 \in Nat BY TwoExp
  <2> QED BY <2>1, FromNext
<1>4. From(n, a) = 2 * 0 + 1
  <2>1. From(n, a) = 2 * From(n, a + 1) + Bit(n, a) BY FromNext
  <2> QED BY <1>2, <1>3, <2>1
<1>5. n = 2^a * From(n, a) BY Multiple
<1>6. 2^a \in Nat BY TwoExp
<1> QED BY <1>4, <1>5, <1>6

-----------------------------------------------------------------------------
(* The ports a filter matches                                              *)

\* There are 2^Width ports.
LEMMA WidthFacts == Width \in Nat \ {0} /\ 2^Width \in Nat \ {0} /\ 2^(Width + 1) = 2 * 2^Width
BY ConstAssumption, TwoExp

\* The bits of a port are below Width.
LEMMA PortBits ==
  ASSUME NEW n \in Ports
  PROVE  /\ n \in Nat /\ From(n, Width) = 0
         /\ Bits(n) = { b \in 0 .. Width - 1 : Bit(n, b) = 1 }
<1>1. n \in Nat /\ n < 2^Width BY WidthFacts DEF Ports
<1>2. From(n, Width) = 0 BY <1>1, WidthFacts, FromNext
<1>3. Bit(n, Width) = 0
  <2>1. Bit(n, Width) = From(n, Width) % 2 BY DEF Bit, From
  <2>2. 0 % 2 = 0 OBVIOUS
  <2> QED BY <1>2, <2>1, <2>2
<1>4. Bits(n) = { b \in 0 .. Width : Bit(n, b) = 1 } BY DEF Bits, Bit
<1>5. \A b : b \in 0 .. Width <=> b \in 0 .. Width - 1 \/ b = Width BY WidthFacts
<1> QED BY <1>1, <1>2, <1>3, <1>4, <1>5

\* IsPower recognises the powers of two.
LEMMA PowerOfTwo ==
  ASSUME NEW n \in Nat, n <= 2^Width, IsPower(n)
  PROVE  \E a \in 0 .. Width : n = 2^a /\ Bits(n) = {a}
<1>1. IsFiniteSet(0 .. Width)
  <2>1. Width \in Int /\ 0 \in Int BY WidthFacts
  <2> QED BY <2>1, FS_Interval
<1>2. Bits(n) \in SUBSET (0 .. Width) BY DEF Bits
<1>3. IsFiniteSet(Bits(n)) BY <1>1, <1>2, FS_Subset
<1>4. PICK a : Bits(n) = {a} BY <1>3, FS_Singleton DEF IsPower
<1>5. a \in 0 .. Width BY <1>2, <1>4
<1> DEFINE w == Width + 1
<1>6. w \in Nat /\ w - 1 = Width /\ n < 2^w BY WidthFacts
<1>7. \A k \in 0 .. Width : Bit(n, k) = IF k = a THEN 1 ELSE 0
  <2> TAKE k \in 0 .. Width
  <2>1. k \in Nat /\ Bit(n, k) \in {0, 1} BY WidthFacts, FromNext
  <2>2. k \in Bits(n) <=> Bit(n, k) = 1 BY DEF Bits, Bit
  <2> QED BY <1>4, <2>1, <2>2
<1> HIDE DEF w
<1>8. n = 2^a BY <1>5, <1>6, <1>7, SingleBit
<1> QED BY <1>4, <1>5, <1>8

\* Ports with the same bits from y on are those that differ in a lower bit.
LEMMA SameHighBits ==
  ASSUME NEW p \in Ports, NEW n \in Ports, NEW y \in 0 .. Width
  PROVE  (\A b \in y .. Width - 1 : Bit(p, b) = Bit(n, b)) <=> From(p, y) = From(n, y)
<1>1. p \in Nat /\ n \in Nat /\ From(p, Width) = From(n, Width) /\ Width \in Nat /\ y \in Nat
  BY PortBits, WidthFacts
<1>2. (\A b \in y .. Width - 1 : Bit(p, b) = Bit(n, b)) => From(p, y) = From(n, y)
  BY <1>1, SameBits
<1>3. ASSUME From(p, y) = From(n, y), NEW b \in y .. Width - 1 PROVE Bit(p, b) = Bit(n, b)
  <2>1. b \in Nat /\ y <= b BY <1>1
  <2> QED BY <1>1, <1>3, <2>1, SameFrom
<1> QED BY <1>2, <1>3

\* Compared in all bits, a port matches itself.
LEMMA ExactMatch ==
  ASSUME NEW n \in Ports
  PROVE  { p \in Ports : Bits(p) \cap (0 .. Width - 1) = Bits(n) } = {n}
<1> SUFFICES ASSUME NEW p \in Ports
             PROVE  Bits(p) \cap (0 .. Width - 1) = Bits(n) <=> p = n
  OBVIOUS
<1>1. /\ p \in Nat /\ n \in Nat
      /\ Bits(p) = { b \in 0 .. Width - 1 : Bit(p, b) = 1 }
      /\ Bits(n) = { b \in 0 .. Width - 1 : Bit(n, b) = 1 }
  BY PortBits
<1>2. \A b \in 0 .. Width - 1 : Bit(p, b) \in {0, 1} /\ Bit(n, b) \in {0, 1}
  <2> TAKE b \in 0 .. Width - 1
  <2>1. b \in Nat BY WidthFacts
  <2> QED BY <1>1, <2>1, FromNext
<1>3. ASSUME Bits(p) = Bits(n) PROVE p = n
  <2>1. \A b \in 0 .. Width - 1 : Bit(p, b) = Bit(n, b) BY <1>1, <1>2, <1>3
  <2>2. 0 \in 0 .. Width BY WidthFacts
  <2>3. From(p, 0) = From(n, 0) BY <2>1, <2>2, SameHighBits
  <2> QED BY <1>1, <2>3, FromNext
<1> QED BY <1>1, <1>3

\* The mask of a range of 2^y ports has the bits from y on.
LEMMA RangeMaskBits ==
  ASSUME NEW f, NEW a \in 0 .. Width - 1, NEW y \in 0 .. a,
         f.port = 2^a, f.range = 2^y - 1, Bits(f.port) = {a}
  PROVE  RangeMask(f) = y .. Width - 1
<1>1. Width \in Nat /\ a \in Nat /\ y \in Nat BY WidthFacts
<1>ones. ASSUME NEW e \in Nat PROVE Bits(2^e - 1) = { b \in 0 .. Width : b < e }
  <2>1. \A b \in 0 .. Width : Bit(2^e - 1, b) = IF b < e THEN 1 ELSE 0 BY <1>1, AllOnes
  <2>2. Bits(2^e - 1) = { b \in 0 .. Width : Bit(2^e - 1, b) = 1 } BY DEF Bits, Bit
  <2> QED BY <2>1, <2>2
<1>2. Bits(f.port - 1) = { b \in 0 .. Width : b < a } BY <1>1, <1>ones
<1>3. Bits(f.range) = { b \in 0 .. Width : b < y } BY <1>1, <1>ones
<1> DEFINE low  == Bits(f.port - 1)
           span == Bits(f.range)
           m    == ((low \cup span) \ (low \cap span)) \cup Bits(f.port)
<1>4. m = { b \in 0 .. Width : y <= b /\ b <= a }
  <2>1. \A b : b \in m <=> b \in 0 .. Width /\ y <= b /\ b <= a
    <3> TAKE b
    <3>1. CASE b \notin 0 .. Width BY <1>1, <1>2, <1>3, <3>1
    <3>2. CASE b \in 0 .. Width BY <1>1, <1>2, <1>3, <3>2
    <3> QED BY <3>1, <3>2
  <2> QED BY <2>1
<1>5. RangeMask(f) = SignExtend(m) BY DEF RangeMask
<1> HIDE DEF m
<1>6. \A b : b \in SignExtend(m) <=> b \in y .. Width - 1
  <2> TAKE b
  <2>1. a \in m BY <1>1, <1>4
  <2>2. b \in SignExtend(m) <=> b \in m \/ (b \in 0 .. Width - 1 /\ \A c \in m : c < b)
    BY DEF SignExtend
  <2>3. (b \in 0 .. Width - 1 /\ \A c \in m : c < b) <=> b \in a + 1 .. Width - 1
    <3>1. ASSUME b \in a + 1 .. Width - 1, NEW c \in m PROVE c < b BY <1>1, <1>4, <3>1
    <3> QED BY <1>1, <2>1, <3>1
  <2>4. b \in m <=> b \in y .. a BY <1>1, <1>4
  <2> QED BY <1>1, <2>2, <2>3, <2>4
<1> QED BY <1>5, <1>6

\* With it a filter matches the ports of the range.
LEMMA RangeMatch ==
  ASSUME NEW n \in Ports, NEW a \in 0 .. Width - 1, NEW y \in 0 .. a, n = 2^a, Bits(n) = {a}
  PROVE  { p \in Ports : Bits(p) \cap (y .. Width - 1) = Bits(n) } = n .. n + 2^y - 1
<1>1. Width \in Nat /\ a \in Nat /\ y \in Nat /\ y \in 0 .. Width /\ n \in Nat
  BY WidthFacts, PortBits
<1>2. \A b \in 0 .. Width - 1 : Bit(n, b) = IF b = a THEN 1 ELSE 0
  <2> TAKE b \in 0 .. Width - 1
  <2>1. b \in Nat BY <1>1
  <2>2. Bit(n, b) \in {0, 1} BY <1>1, <2>1, FromNext
  <2> QED BY <2>2, PortBits
<1>3. ASSUME NEW p \in Ports
      PROVE  Bits(p) \cap (y .. Width - 1) = Bits(n) <=> From(p, y) = From(n, y)
  <2>1. /\ p \in Nat /\ Bits(p) = { b \in 0 .. Width - 1 : Bit(p, b) = 1 } BY PortBits
  <2>2. \A b \in y .. Width - 1 : b \in 0 .. Width - 1 /\ Bit(p, b) \in {0, 1}
    <3> TAKE b \in y .. Width - 1
    <3>1. b \in Nat /\ b \in 0 .. Width - 1 BY <1>1
    <3> QED BY <2>1, <3>1, FromNext
  <2>3. a \in y .. Width - 1 BY <1>1
  <2>4. Bits(p) \cap (y .. Width - 1) = Bits(n)
          <=> \A b \in y .. Width - 1 : Bit(p, b) = Bit(n, b)
    BY <1>2, <2>1, <2>2, <2>3
  <2> QED BY <1>1, <2>4, SameHighBits
<1> DEFINE d == 2^y
           q == From(n, y)
<1>4. d \in Nat \ {0} /\ q \in Nat BY <1>1, TwoExp, FromNext
<1>5. n = d * q
  <2>1. \A k \in 0 .. y - 1 : Bit(n, k) = 0 BY <1>1, <1>2
  <2> QED BY <1>1, <2>1, Multiple
<1>6. ASSUME NEW p \in Nat PROVE From(p, y) = q <=> p \in n .. n + d - 1
  <2>1. From(p, y) = p \div d BY DEF From
  <2> HIDE DEF d, q
  <2>2. ASSUME p \div d = q PROVE p \in n .. n + d - 1
    <3>1. d * (p \div d) <= p /\ p < d * (p \div d) + d BY <1>4, Quotients
    <3>2. n <= p /\ p < n + d BY <1>5, <2>2, <3>1
    <3> QED BY <1>1, <1>4, <3>2
  <2>3. ASSUME p \in n .. n + d - 1 PROVE p \div d = q
    <3>1. p - n \in 0 .. d - 1 /\ p = n + (p - n) BY <1>1, <1>4, <2>3
    <3>2. p = d * q + (p - n) BY <1>5, <3>1
    <3> QED BY <1>4, <3>1, <3>2, Quotient
  <2> QED BY <2>1, <2>2, <2>3
<1>7. \A p \in n .. n + d - 1 : p \in Ports
  <2>1. n + d <= 2^Width
    <3>1. 2^a \in Nat /\ 2^(a + 1) = 2 * 2^a BY <1>1, TwoExp
    <3>2. d <= 2^a
      <4>1. CASE y = a BY <3>1, <4>1
      <4>2. CASE y < a
        <5>1. 2^y < 2^a BY <1>1, <4>2, PowersGrow
        <5> QED BY <1>4, <3>1, <5>1
      <4> QED BY <1>1, <4>1, <4>2
    <3>3. 2^(a + 1) <= 2^Width
      <4>1. CASE a + 1 = Width BY <4>1, WidthFacts
      <4>2. CASE a + 1 < Width
        <5>1. 2^(a + 1) < 2^Width BY <1>1, <4>2, PowersGrow
        <5> QED BY <3>1, <5>1, WidthFacts
      <4> QED BY <1>1, <4>1, <4>2
    <3> QED BY <1>1, <1>4, <3>1, <3>2, <3>3, WidthFacts
  <2> QED BY <1>1, <1>4, <2>1, WidthFacts DEF Ports
<1>8. \A p \in Ports : p \in Nat BY PortBits
<1> QED BY <1>3, <1>6, <1>7, <1>8

\* A filter matches the ports its port and range name, if the range is below the port
\* where it is of the right form.
LEMMA MatchedAsDocumented ==
  ASSUME NEW f \in Filters, f.range < f.port \/ ~IsPower(f.range + 1)
  PROVE  MatchedPorts(f) = DocumentedPorts(f)
<1>1. f.port \in Ports /\ f.range \in Ports /\ f.port \in Nat /\ f.range \in Nat
  BY PortBits DEF Filters
<1>2. f.port <= 2^Width /\ f.range + 1 <= 2^Width BY <1>1, WidthFacts DEF Ports
<1>3. CASE ~(IsPower(f.port) /\ IsPower(f.range + 1) /\ f.range # 0)
  <2>1. PortMask(f) = 0 .. Width - 1 BY <1>3 DEF PortMask
  <2>2. MatchedPorts(f) = {f.port} BY <1>1, <2>1, ExactMatch DEF MatchedPorts
  <2>3. CASE f.range # 0 \/ ~IsPower(f.port) \/ ~IsPower(f.range + 1)
    BY <1>3, <2>2, <2>3 DEF DocumentedPorts
  <2>4. CASE f.range = 0
    <3>1. f.port .. f.port + f.range = {f.port} BY <1>1, <2>4
    <3> QED BY <2>2, <3>1 DEF DocumentedPorts
  <2> QED BY <2>3, <2>4
<1>4. CASE IsPower(f.port) /\ IsPower(f.range + 1) /\ f.range # 0
  <2>1. PICK a \in 0 .. Width : f.port = 2^a /\ Bits(f.port) = {a}
    BY <1>1, <1>2, <1>4, PowerOfTwo
  <2>2. f.range + 1 \in Nat BY <1>1
  <2>3. PICK y \in 0 .. Width : f.range + 1 = 2^y BY <1>2, <1>4, <2>2, PowerOfTwo
  <2>4. a \in 0 .. Width - 1 BY <1>1, <2>1, PortBits
  <2>5. f.range < f.port BY <1>4
  <2>6. y \in 0 .. a
    <3>1. ~(a < y)
      <4>1. SUFFICES ASSUME a < y PROVE FALSE OBVIOUS
      <4>2. a \in Nat /\ y \in Nat BY WidthFacts
      <4>3. 2^a < 2^y BY <4>1, <4>2, PowersGrow
      <4> QED BY <1>1, <2>1, <2>3, <2>5, <4>3
    <3> QED BY <3>1, WidthFacts
  <2>7. f.range = 2^y - 1 BY <1>1, <2>3
  <2>8. PortMask(f) = y .. Width - 1 BY <1>4, <2>1, <2>4, <2>6, <2>7, RangeMaskBits DEF PortMask
  <2>9. { p \in Ports : Bits(p) \cap (y .. Width - 1) = Bits(f.port) }
          = f.port .. f.port + 2^y - 1
    BY <1>1, <2>1, <2>4, <2>6, RangeMatch
  <2>10. MatchedPorts(f) = f.port .. f.port + 2^y - 1 BY <2>8, <2>9 DEF MatchedPorts
  <2>11. f.port + 2^y - 1 = f.port + f.range BY <1>1, <2>3
  <2> QED BY <1>4, <2>5, <2>10, <2>11 DEF DocumentedPorts
<1> QED BY <1>3, <1>4

-----------------------------------------------------------------------------
(* The filters of the device                                               *)

\* The device has the filters of the configuration.
RulesInv == \A i \in DOMAIN rules : rules[i] = Matched(config[i])

\* A command adds the filter of the configuration or leaves what the device has.
LEMMA CommandRules ==
  ASSUME RulesInv, NEW i, Command(i), config' = config
  PROVE  RulesInv'
<1>1. CASE Fail(i) \/ Enable(i) \/ Disable(i)
  BY <1>1 DEF Fail, Enable, Disable, Done, RulesInv
<1>2. CASE Add(i)
  <2>1. SUFFICES ASSUME Done(i, [j \in DOMAIN rules \cup {i} |->
                          IF j = i THEN Matched(config[i]) ELSE rules[j]], enabled)
                 PROVE  RulesInv'
    BY <1>1, <1>2 DEF Add
  <2>2. rules' = [j \in DOMAIN rules \cup {i} |->
                   IF j = i THEN Matched(config[i]) ELSE rules[j]]
    BY <2>1 DEF Done
  <2>3. \A j \in DOMAIN rules \cup {i} : rules'[j] = Matched(config[j])
    BY <2>2 DEF RulesInv
  <2> QED BY <2>2, <2>3 DEF RulesInv, Matched, PortFilter, EthtypeFilter, IpFilter
<1>3. CASE Remove(i)
  <2>1. SUFFICES ASSUME Done(i, [j \in DOMAIN rules \ {i} |-> rules[j]], enabled \ {i})
                 PROVE  RulesInv'
    BY <1>1, <1>3 DEF Remove
  <2>2. rules' = [j \in DOMAIN rules \ {i} |-> rules[j]] BY <2>1 DEF Done
  <2>3. \A j \in DOMAIN rules \ {i} : rules'[j] = Matched(config[j]) BY <2>2 DEF RulesInv
  <2> QED BY <2>2, <2>3 DEF RulesInv
<1> QED BY <1>1, <1>2, <1>3 DEF Command

\* What is compared is what the documentation says.
LEMMA MatchedExactly ==
  ASSUME NEW f \in Filters, WellFormed(f), NEW r, r = Matched(f)
  PROVE  /\ r.discard = f.discard
         /\ r.ether = IF f.feature = "ethtype" THEN {f.ether} ELSE {"ip"}
         /\ r.proto = IF f.feature = "ethtype" THEN Protocols ELSE {f.proto}
         /\ r.src = IF f.feature = "port" /\ f.direction \in {"source", "both"}
                    THEN DocumentedPorts(f) ELSE Ports
         /\ r.dst = IF f.feature = "port" /\ f.direction \in {"dest", "both"}
                    THEN DocumentedPorts(f) ELSE Ports
<1>1. \A e, p, s, d :
        LET q == Matching(f, e, p, s, d) IN
        q.discard = f.discard /\ q.ether = e /\ q.proto = p /\ q.src = s /\ q.dst = d
  BY DEF Matching
<1>2. f.feature \in {"port", "ethtype", "iptype"} /\ f.direction \in {"source", "dest", "both"}
  BY DEF Filters
<1>3. CASE f.feature = "port"
  <2>1. r = PortFilter(f) BY <1>3 DEF Matched
  <2>2. MatchedPorts(f) = DocumentedPorts(f) BY <1>3, MatchedAsDocumented DEF WellFormed
  <2>3. {IF f.proto = "udp" THEN "udp" ELSE "tcp"} = {f.proto} BY <1>3 DEF WellFormed
  <2>4. /\ r.discard = f.discard /\ r.ether = {"ip"} /\ r.proto = {f.proto}
        /\ r.src = IF f.direction = "dest" THEN Ports ELSE DocumentedPorts(f)
        /\ r.dst = IF f.direction = "source" THEN Ports ELSE DocumentedPorts(f)
    BY <1>1, <2>1, <2>2, <2>3 DEF PortFilter
  <2> QED BY <1>2, <1>3, <2>4
<1>4. CASE f.feature = "ethtype"
  <2>1. r = EthtypeFilter(f) BY <1>4 DEF Matched
  <2> QED BY <1>1, <1>4, <2>1 DEF EthtypeFilter
<1>5. CASE f.feature = "iptype"
  <2>1. r = IpFilter(f) BY <1>5 DEF Matched
  <2> QED BY <1>1, <1>5, <2>1 DEF IpFilter
<1> QED BY <1>2, <1>3, <1>4, <1>5

\* For any list of well-formed filters and every width of the ports, a filter of the
\* device drops or keeps exactly the frames its kind, its protocol, its port or range
\* and its direction name.
THEOREM FiltersAreExact ==
  ASSUME \A c \in Configs : \A i \in DOMAIN c : WellFormed(c[i])
  PROVE  Spec => []FiltersExact
<1>1. Init => RulesInv BY DEF Init, RulesInv
<1>2. RulesInv /\ [Next]_vars => RulesInv'
  <2> SUFFICES ASSUME RulesInv, [Next]_vars PROVE RulesInv' OBVIOUS
  <2>1. config' = config
    BY DEF Next, InitReset, InitSet, InitCreate, InitCreated, InitEnable, InitDone,
           Deinit, DeinitRemove, DeinitDone, Pm, PmOne, PmDone, vars
  <2>2. UNCHANGED device \/ \E i : Command(i)
    BY DEF Next, InitReset, InitSet, InitCreate, InitCreated, InitEnable, InitDone,
           Deinit, DeinitRemove, DeinitDone, Pm, PmOne, PmDone, vars, device, Command
  <2>3. CASE UNCHANGED device BY <2>1, <2>3 DEF device, RulesInv
  <2> QED BY <2>1, <2>2, <2>3, CommandRules
<1>3. RulesInv /\ TypeOK => FiltersExact
  <2> SUFFICES ASSUME RulesInv, TypeOK, NEW i \in DOMAIN rules
               PROVE  LET f == config[i]  r == rules[i] IN
                      /\ r.discard = f.discard
                      /\ r.ether = IF f.feature = "ethtype" THEN {f.ether} ELSE {"ip"}
                      /\ r.proto = IF f.feature = "ethtype" THEN Protocols ELSE {f.proto}
                      /\ r.src = IF f.feature = "port" /\ f.direction \in {"source", "both"}
                                 THEN DocumentedPorts(f) ELSE Ports
                      /\ r.dst = IF f.feature = "port" /\ f.direction \in {"dest", "both"}
                                 THEN DocumentedPorts(f) ELSE Ports
    BY DEF FiltersExact
  <2>1. config \in Configs /\ i \in DOMAIN config BY DEF TypeOK
  <2>2. config[i] \in Filters BY <2>1, ListFacts, ConstAssumption
  <2>3. WellFormed(config[i]) BY <2>1
  <2>4. rules[i] = Matched(config[i]) BY DEF RulesInv
  <2> QED BY <2>2, <2>3, <2>4, MatchedExactly
<1> QED BY <1>1, <1>2, <1>3, TypeCorrect, PTL DEF Spec
=============================================================================
