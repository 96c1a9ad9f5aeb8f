-------------------------- MODULE ArpOffloadProofs --------------------------
(***************************************************************************)
(* Proofs about the ARP offload, for every set of addresses, every queue   *)
(* length and retry count.  No power state reaches an offload that was     *)
(* shut down; what is said of the device's features needs configurations   *)
(* that differ awake and asleep.                                           *)
(***************************************************************************)
EXTENDS ArpOffload, TLAPS

Unequal == \A c \in Configs : c.awake # c.sleep

\* What the Offload Manager's thread has set up.
SetUp ==
  /\ life = "up" => olm = "idle" /\ registered
  /\ olm \in {"initTimer", "initDevice", "initPm"} => host = NoAddr
  /\ olm \in {"initDevice", "initPm"} => timer # "none"
  /\ registered => timer # "none" /\ life = "up"
  /\ state = "UNINITIALIZED" <=> life # "up"

\* Outside of init and unless a removal failed the device holds at most the
\* address the worker is about to note, or else the one it noted last.
AtMostOne ==
  olm \notin {"initTimer", "initDevice"} /\ "remove" \notin failed =>
    hostList \subseteq {IF work.at \in {"add", "note"} THEN work.addr ELSE ip}

\* A change of address that the device does not know of is on its way to it, or
\* could not be added.
OnItsWay ==
  life = "up" /\ host # NoAddr =>
    \/ event # "none" \/ timer = "running" \/ queue > 0
    \/ work.at \in {"decide", "clear", "add"} /\ work.addr = host
    \/ work.at = "note" /\ work.addr = host /\ (host \in hostList \/ "add" \in failed)
    \/ work.at = "idle" /\ ip = host /\ (host \in hostList \/ "add" \in failed)

\* A shut-down offload is off, and a running one has the features of its state,
\* as far as the last command succeeded.
DeviceInv ==
  /\ life # "up" /\ olm # "deinitTimer" /\ "enable" \notin failed => ~arpoe
  /\ life = "up" /\ "enable" \notin failed => arpoe
  /\ life = "up" /\ "features" \notin failed => features = WithAgent(Mask(state))

Inv == TypeOK /\ SetUp /\ AtMostOne /\ OnItsWay
-----------------------------------------------------------------------------
(* Types                                                                   *)

\* At the start, nothing initialised and no address known, the types hold.
LEMMA TypeInit ==
  ASSUME Init
  PROVE  TypeOK
<1>1. MaxRetry \in Nat /\ QueueLen \in Nat
  BY ConstAssumption
<1>2. DriverType /\ HostType /\ DeviceType
  BY DEF Init, DriverType, HostType, DeviceType
<1>3. DelayType
  BY <1>1 DEF Init, DelayType
<1>4. WorkType
  BY DEF Init, WorkType
<1> QED
  BY <1>2, <1>3, <1>4 DEF TypeOK

\* Every step keeps the types of the Offload Manager's calls: where init and deinit
\* are, the state and the commands that failed.
LEMMA DriverTypeStep ==
  ASSUME TypeOK, [Next]_vars
  PROVE  DriverType'
<1> USE DEF DriverType
<1>1. DriverType
  BY DEF TypeOK
<1>2. CASE InitReset \/ InitTimer \/ InitDevice
  BY <1>1, <1>2 DEF InitReset, InitTimer, InitDevice
<1>3. ASSUME NEW st \in {"AWAKE", "GOING_TO_SLEEP"}, Pm(st) PROVE DriverType'
  BY <1>1, <1>3 DEF Pm
<1>4. CASE DeinitCallback \/ DeinitTimer
  BY <1>1, <1>4 DEF DeinitCallback, DeinitTimer
<1>5. CASE UNCHANGED driver
  BY <1>1, <1>5 DEF driver, ctrl
<1> QED
  BY <1>2, <1>3, <1>4, <1>5
     DEF Next, AddressChanges, EventDelivered, EventTimer, TimerFires, WorkStep,
         WorkRead, WorkDecide, WorkClear, WorkAdd, WorkNote, WorkReady, vars

\* Every step keeps the types of the host's address and of what the driver notes of it.
LEMMA HostTypeStep ==
  ASSUME TypeOK, [Next]_vars
  PROVE  HostType'
<1> USE DEF HostType
<1>1. HostType
  BY DEF TypeOK
<1>2. CASE InitReset
  BY <1>1, <1>2 DEF InitReset
<1>3. CASE AddressChanges \/ EventDelivered \/ EventTimer
  BY <1>1, <1>3 DEF AddressChanges, EventDelivered, EventTimer
<1>4. CASE WorkClear
  BY <1>1, <1>4 DEF WorkClear
<1>5. CASE WorkNote
  BY <1>1, <1>5 DEF WorkNote, WorkGoto, TypeOK, WorkType
<1>6. CASE UNCHANGED <<host, ip, event>>
  BY <1>1, <1>6
<1> QED
  BY <1>2, <1>3, <1>4, <1>5, <1>6
     DEF Next, InitTimer, InitDevice, Pm, DeinitCallback, DeinitTimer, TimerFires,
         WorkStep, WorkRead, WorkDecide, WorkAdd, WorkReady, vars

\* Every step keeps the timer, the event and the length of the queue in their ranges.
LEMMA DelayTypeStep ==
  ASSUME TypeOK, [Next]_vars
  PROVE  DelayType'
<1> USE DEF DelayType, TimerStart
<1>1. DelayType /\ MaxRetry \in Nat /\ QueueLen \in Nat
  BY ConstAssumption DEF TypeOK
<1>2. CASE InitTimer \/ DeinitTimer
  BY <1>1, <1>2 DEF InitTimer, DeinitTimer
<1>3. CASE EventTimer
  BY <1>1, <1>3 DEF EventTimer
<1>4. CASE TimerFires
  BY <1>1, <1>4 DEF TimerFires
<1>5. CASE WorkRead \/ WorkNote
  BY <1>1, <1>5 DEF WorkRead, WorkNote
<1>6. CASE WorkReady
  BY <1>1, <1>6 DEF WorkReady
<1>7. CASE UNCHANGED delay
  BY <1>1, <1>7 DEF delay
<1> QED
  BY <1>2, <1>3, <1>4, <1>5, <1>6, <1>7
     DEF Next, InitReset, InitDevice, Pm, DeinitCallback, AddressChanges,
         EventDelivered, WorkStep, WorkDecide, WorkClear, WorkAdd, vars

\* Every step keeps the type of what the worker has in hand.
LEMMA WorkTypeStep ==
  ASSUME TypeOK, [Next]_vars
  PROVE  WorkType'
<1> USE DEF WorkType, WorkGoto
<1>1. WorkType
  BY DEF TypeOK
<1>2. CASE WorkRead
  BY <1>1, <1>2 DEF WorkRead, TypeOK, HostType
<1>3. CASE WorkDecide
  BY <1>1, <1>3 DEF WorkDecide
<1>4. CASE WorkClear \/ WorkAdd
  BY <1>1, <1>4 DEF WorkClear, WorkAdd
<1>5. CASE WorkNote \/ WorkReady
  BY <1>1, <1>5 DEF WorkNote, WorkReady
<1>6. CASE UNCHANGED work
  BY <1>1, <1>6
<1> QED
  BY <1>2, <1>3, <1>4, <1>5, <1>6
     DEF Next, InitReset, InitTimer, InitDevice, Pm, DeinitCallback, DeinitTimer,
         AddressChanges, EventDelivered, EventTimer, TimerFires, WorkStep, vars

\* Every step keeps the types of the device's features and of its list of addresses.
LEMMA DeviceTypeStep ==
  ASSUME TypeOK, [Next]_vars
  PROVE  DeviceType'
<1> USE DEF DeviceType, Commands
<1>1. DeviceType
  BY DEF TypeOK
<1>2. CASE InitDevice
  BY <1>1, <1>2 DEF InitDevice
<1>3. CASE DeinitTimer
  BY <1>1, <1>3 DEF DeinitTimer
<1>7. ASSUME NEW st \in {"AWAKE", "GOING_TO_SLEEP"}, Pm(st) PROVE DeviceType'
  <2>1. config.awake \subseteq Features /\ config.sleep \subseteq Features
    BY ConstAssumption DEF TypeOK, DriverType
  <2>2. WithAgent(Mask(st)) \subseteq Features
    BY <2>1 DEF WithAgent, Mask, Features
  <2>3. ASSUME NEW on \in BOOLEAN, NEW mask \in SUBSET Features, SetDevice(on, mask)
        PROVE  arpoe' \in BOOLEAN /\ features' \subseteq Features /\ failed' \subseteq Commands
    BY <1>1, <2>3 DEF SetDevice
  <2>4. UNCHANGED hostList
    BY <1>7 DEF Pm
  <2>5. \/ UNCHANGED <<arpoe, features, failed>>
        \/ SetDevice(TRUE, WithAgent(Mask(st)))
        \/ SetDevice(FALSE, {})
    BY <1>7 DEF Pm
  <2> QED BY <1>1, <2>2, <2>3, <2>4, <2>5
<1>4. CASE WorkClear
  BY <1>1, <1>4 DEF WorkClear
<1>5. CASE WorkAdd
  BY <1>1, <1>5 DEF WorkAdd, WorkGoto, TypeOK, WorkType
<1>6. CASE UNCHANGED device
  BY <1>1, <1>6 DEF device
<1> QED
  BY <1>2, <1>3, <1>4, <1>5, <1>6, <1>7
     DEF Next, InitReset, InitTimer, DeinitCallback, AddressChanges, EventDelivered,
         EventTimer, TimerFires, WorkStep, WorkRead, WorkDecide, WorkNote, WorkReady,
         vars

\* All five together: no step leaves the types.
LEMMA TypeStep ==
  ASSUME TypeOK, [Next]_vars
  PROVE  TypeOK'
BY DriverTypeStep, HostTypeStep, DelayTypeStep, WorkTypeStep, DeviceTypeStep DEF TypeOK

\* The worker's queue, the retry counter and the lists stay in their bounds,
\* whatever power states arrive.
THEOREM TypeCorrect == Spec => []TypeOK
<1>1. Init => TypeOK
  BY TypeInit
<1>2. TypeOK /\ [Next]_vars => TypeOK'
  BY TypeStep
<1> QED BY <1>1, <1>2, PTL DEF Spec

-----------------------------------------------------------------------------
(* What is set up, and where an address is on its way                      *)

\* Every step keeps what init has set up: the order in which it creates the timer,
\* writes the device and registers for the changes of address.
LEMMA SetUpStep ==
  ASSUME ~StrayPm, TypeOK, SetUp, [Next]_vars
  PROVE  SetUp'
<1> USE DEF SetUp
<1>1. DriverType
  BY DEF TypeOK
<1>2. CASE InitReset \/ InitTimer \/ InitDevice
  <2>1. CASE InitReset \/ InitTimer
    BY <1>1, <2>1 DEF InitReset, InitTimer, delay, DriverType
  <2>2. CASE InitDevice
    <3>1. /\ olm = "initDevice" /\ olm' = "initPm"
          /\ UNCHANGED <<life, state, registered, host, timer>>
      BY <2>2 DEF InitDevice, delay
    <3> QED BY <1>1, <3>1 DEF DriverType
  <2> QED BY <1>2, <2>1, <2>2
<1>3. ASSUME NEW st \in {"AWAKE", "GOING_TO_SLEEP"}, Pm(st) PROVE SetUp'
  <2>1. /\ olm' = "idle" /\ life' = "up" /\ state' = st /\ UNCHANGED <<host, timer>>
        /\ timer # "none"
    BY <1>1, <1>3 DEF Pm, delay, DriverType
  <2>2. CASE st = state
    BY <1>3, <2>1, <2>2 DEF Pm
  <2>3. CASE st # state /\ (state = "UNINITIALIZED" \/ config.awake # config.sleep)
    <3>1. registered' = TRUE
      BY <1>3, <2>3 DEF Pm
    <3> QED BY <2>1, <3>1
  <2>4. CASE /\ st # state /\ state # "UNINITIALIZED"
             /\ config.awake = config.sleep
    <3>1. registered' = registered /\ life = "up"
      BY <1>1, <1>3, <2>4 DEF Pm, DriverType
    <3> QED BY <2>1, <3>1
  <2> QED BY <2>2, <2>3, <2>4
<1>4. CASE DeinitCallback \/ DeinitTimer
  BY <1>1, <1>4 DEF DeinitCallback, DeinitTimer, delay, DriverType
<1>5. CASE AddressChanges
  BY <1>1, <1>5 DEF AddressChanges, driver, ctrl, delay, DriverType
<1>6. CASE /\ UNCHANGED <<driver, host>>
           /\ timer # "none" => timer' # "none"
  BY <1>6 DEF driver, ctrl
<1>7. CASE EventDelivered \/ EventTimer \/ TimerFires
  BY <1>6, <1>7 DEF EventDelivered, EventTimer, TimerFires, TimerStart, delay
<1>8. CASE WorkStep
  BY <1>6, <1>8
     DEF WorkStep, WorkRead, WorkDecide, WorkClear, WorkAdd, WorkNote, WorkReady,
         TimerStart, delay
<1>9. CASE UNCHANGED vars
  BY <1>6, <1>9 DEF vars, delay
<1> QED
  BY <1>2, <1>3, <1>4, <1>5, <1>7, <1>8, <1>9 DEF Next

\* Every step keeps the device to the address noted last or about to be noted: the
\* worker removes the old address before it adds the new one.
LEMMA AtMostOneStep ==
  ASSUME ~StrayPm, TypeOK, SetUp, AtMostOne, [Next]_vars
  PROVE  AtMostOne'
<1> USE DEF AtMostOne, WorkGoto
<1>1. DriverType /\ WorkType
  BY DEF TypeOK
<1>2. CASE InitReset \/ InitTimer \/ InitDevice
  BY <1>2 DEF InitReset, InitTimer, InitDevice
<1>3. ASSUME NEW st \in {"AWAKE", "GOING_TO_SLEEP"}, Pm(st) PROVE AtMostOne'
  BY <1>3 DEF Pm, SetDevice
<1>4. CASE DeinitCallback \/ DeinitTimer
  BY <1>4 DEF DeinitCallback, DeinitTimer, device
<1>5. CASE WorkRead
  BY <1>1, <1>5 DEF WorkRead, driver, ctrl, device, WorkType
<1>6. CASE WorkDecide
  BY <1>1, <1>6 DEF WorkDecide, driver, ctrl, device, WorkType
<1>7. CASE WorkClear
  BY <1>1, <1>7 DEF WorkClear, driver, ctrl, WorkType
<1>8. CASE WorkAdd
  BY <1>1, <1>8 DEF WorkAdd, driver, ctrl, WorkType
<1>9. CASE WorkNote
  BY <1>1, <1>9 DEF WorkNote, driver, ctrl, device, WorkType
<1>10. CASE WorkReady
  BY <1>1, <1>10 DEF WorkReady, driver, ctrl, device, WorkType
<1>11. CASE UNCHANGED <<olm, hostList, failed, work, ip>>
  BY <1>11
<1> QED
  BY <1>2, <1>3, <1>4, <1>5, <1>6, <1>7, <1>8, <1>9, <1>10, <1>11
     DEF Next, WorkStep, AddressChanges, EventDelivered, EventTimer, TimerFires, vars,
         driver, ctrl, device

\* Every step keeps a change of address on its way: from the event to the timer, from
\* there to the queue, and from there to the worker and the device.
LEMMA OnItsWayStep ==
  ASSUME ~StrayPm, TypeOK, SetUp, OnItsWay, [Next]_vars
  PROVE  OnItsWay'
<1> USE DEF OnItsWay, WorkGoto
<1>1. DriverType /\ HostType /\ DelayType /\ WorkType /\ QueueLen \in Nat \ {0}
  BY ConstAssumption DEF TypeOK
<1>2. CASE InitReset \/ InitTimer \/ InitDevice
  BY <1>2 DEF InitReset, InitTimer, InitDevice, SetUp
<1>3. ASSUME NEW st \in {"AWAKE", "GOING_TO_SLEEP"}, Pm(st) PROVE OnItsWay'
  BY <1>3 DEF Pm, SetDevice, delay, SetUp
<1>4. CASE DeinitCallback \/ DeinitTimer
  BY <1>4 DEF DeinitCallback, DeinitTimer, SetUp
<1>5. CASE AddressChanges
  BY <1>5 DEF AddressChanges
<1>6. CASE EventDelivered
  BY <1>6 DEF EventDelivered, SetUp, driver, ctrl
<1>7. CASE EventTimer
  BY <1>7 DEF EventTimer, TimerStart, SetUp, driver, ctrl
<1>8. CASE TimerFires
  BY <1>1, <1>8 DEF TimerFires, DelayType, driver, ctrl
<1>9. CASE WorkRead
  BY <1>9 DEF WorkRead, driver, ctrl
<1>10. CASE WorkDecide
  BY <1>1, <1>10 DEF WorkDecide, WorkType, driver, ctrl, delay, device
<1>11. CASE WorkClear
  BY <1>1, <1>11 DEF WorkClear, WorkType, driver, ctrl, delay
<1>12. CASE WorkAdd
  BY <1>1, <1>12 DEF WorkAdd, WorkType, driver, ctrl, delay
<1>13. CASE WorkNote
  BY <1>1, <1>13 DEF WorkNote, WorkType, driver, ctrl, device
<1>14. CASE WorkReady
  BY <1>1, <1>14 DEF WorkReady, TimerStart, SetUp, WorkType, driver, ctrl, device
<1>15. CASE UNCHANGED vars
  BY <1>15 DEF vars, driver, ctrl, delay, device
<1> QED
  BY <1>2, <1>3, <1>4, <1>5, <1>6, <1>7, <1>8, <1>9, <1>10, <1>11, <1>12, <1>13,
     <1>14, <1>15 DEF Next, WorkStep

\* For any addresses, any length of the queue and any number of retries, as long as no
\* power state reaches an offload that was shut down: what init has set up stays, the
\* device holds no address that was replaced unless its removal failed, and no change
\* of address is lost between the event, the timer, the queue and the worker.
THEOREM InvHolds ==
  ASSUME ~StrayPm
  PROVE  Spec => []Inv
<1>1. Init => Inv
  <2> SUFFICES ASSUME Init PROVE Inv
    OBVIOUS
  <2>1. SetUp
    BY DEF Init, SetUp
  <2>2. AtMostOne /\ OnItsWay
    BY DEF Init, AtMostOne, OnItsWay
  <2> QED BY <2>1, <2>2, TypeInit DEF Inv
<1>2. Inv /\ [Next]_vars => Inv'
  BY TypeStep, SetUpStep, AtMostOneStep, OnItsWayStep DEF Inv
<1> QED BY <1>1, <1>2, PTL DEF Spec

\* cylpa_arp_ol_pm and cylpa_arp_ol_deinit: the callback that starts the timer
\* is never registered without it.
THEOREM CallbackFindsTimer ==
  ASSUME ~StrayPm
  PROVE  Spec => []CallbackHasTimer
<1>1. Inv => CallbackHasTimer
  BY DEF Inv, SetUp, CallbackHasTimer
<1> QED BY <1>1, InvHolds, PTL

\* cylpa_arp_ol_nw_ip_change_work: once settled, the device answers for the
\* address of the host and for no other.
THEOREM HostListIsExact ==
  ASSUME ~StrayPm
  PROVE  Spec => []HostListExact
<1>1. ASSUME Inv PROVE HostListExact
  <2> SUFFICES ASSUME life = "up", Settled, host # NoAddr
               PROVE  /\ "add" \notin failed => host \in hostList
                      /\ "remove" \notin failed => hostList \subseteq {host}
    BY DEF HostListExact
  <2>1. queue \in Nat
    BY <1>1, ConstAssumption DEF Inv, TypeOK, DelayType
  <2>2. ip = host /\ (host \in hostList \/ "add" \in failed)
    BY <1>1, <2>1 DEF Inv, OnItsWay, Settled
  <2>3. "remove" \notin failed => hostList \subseteq {ip}
    BY <1>1 DEF Inv, AtMostOne, Settled
  <2> QED BY <2>2, <2>3
<1> QED BY <1>1, InvHolds, PTL

-----------------------------------------------------------------------------
(* The features of the device                                              *)

\* Every step keeps the device's features in accord with the state of the offload, as
\* far as the commands succeed.
LEMMA DeviceStep ==
  ASSUME ~StrayPm, Unequal, TypeOK, SetUp, DeviceInv, [Next]_vars
  PROVE  DeviceInv'
<1> USE DEF DeviceInv
<1>1. DriverType
  BY DEF TypeOK
<1>2. CASE InitReset \/ InitTimer \/ InitDevice
  <2>1. life' # "up"
    BY <1>2 DEF InitReset, InitTimer, InitDevice, SetUp
  <2>2. CASE InitReset \/ InitTimer
    BY <2>1, <2>2 DEF InitReset, InitTimer, device, SetUp
  <2>3. CASE InitDevice
    <3>1. "enable" \notin failed' => ~arpoe'
      BY <2>3 DEF InitDevice
    <3> QED BY <2>1, <3>1
  <2> QED BY <1>2, <2>2, <2>3
<1>3. ASSUME NEW st \in {"AWAKE", "GOING_TO_SLEEP"}, Pm(st) PROVE DeviceInv'
  <2>1. life' = "up" /\ state' = st /\ config' = config
    BY <1>3 DEF Pm
  <2>2. WithAgent(Mask(st))' = WithAgent(Mask(st))
    BY <2>1 DEF WithAgent, Mask
  <2>3. config.awake # config.sleep
    BY <1>1 DEF Unequal, DriverType
  <2>4. CASE st = state
    <3>1. life = "up"
      BY <1>3, <2>4 DEF Pm, SetUp
    <3> QED BY <1>3, <2>1, <2>2, <2>4, <3>1 DEF Pm
  <2>5. CASE st # state
    <3>1. SetDevice(TRUE, WithAgent(Mask(st)))
      BY <1>3, <2>3, <2>5 DEF Pm
    <3>2. /\ "enable" \notin failed' => arpoe' = TRUE
          /\ "features" \notin failed' => features' = WithAgent(Mask(st))
      BY <3>1 DEF SetDevice
    <3> QED BY <2>1, <2>2, <3>2
  <2> QED BY <2>4, <2>5
<1>4. CASE DeinitCallback \/ DeinitTimer
  <2>1. CASE DeinitCallback
    BY <2>1 DEF DeinitCallback
  <2>2. CASE DeinitTimer
    BY <2>2 DEF DeinitTimer, SetUp
  <2> QED BY <1>4, <2>1, <2>2
<1>5. CASE /\ UNCHANGED <<config, life, olm, state, arpoe, features>>
           /\ failed' \cap {"enable", "features"} = failed \cap {"enable", "features"}
  <2>1. WithAgent(Mask(state))' = WithAgent(Mask(state))
    BY <1>5 DEF WithAgent, Mask
  <2> QED BY <1>5, <2>1
<1> QED
  BY <1>2, <1>3, <1>4, <1>5
     DEF Next, AddressChanges, EventDelivered, EventTimer, TimerFires, WorkStep,
         WorkRead, WorkDecide, WorkClear, WorkAdd, WorkNote, WorkReady, vars, driver,
         ctrl, device

\* cylpa_arp_ol_pm: with masks that differ, the state the offload notes is the
\* state of the device.
THEOREM DeviceStateIsKnown ==
  ASSUME ~StrayPm, Unequal
  PROVE  Spec => []DeviceStateKnown
<1>1. Init => DeviceInv
  BY DEF Init, DeviceInv
<1>2. Inv /\ DeviceInv /\ [Next]_vars => DeviceInv'
  BY DeviceStep DEF Inv
<1>3. Inv /\ DeviceInv => DeviceStateKnown
  BY DEF Inv, SetUp, DeviceInv, DeviceStateKnown
<1> QED BY <1>1, <1>2, <1>3, InvHolds, PTL DEF Spec
=============================================================================
