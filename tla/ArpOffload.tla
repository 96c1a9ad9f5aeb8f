----------------------------- MODULE ArpOffload -----------------------------
(***************************************************************************)
(* The ARP offload (old firmware infrastructure) with the IP-change helper *)
(* of target/: the Offload Manager's thread calls init, pm and deinit, the *)
(* connection manager reports address changes, a one-shot timer delays     *)
(* them, and a worker thread copies the host's address to the device.      *)
(*                                                                         *)
(* Calls of the Offload Manager do not overlap each other; they overlap    *)
(* with every step of the other three threads.  Any command to the device  *)
(* may fail, and none is tried again.                                      *)
(***************************************************************************)
EXTENDS Naturals, FiniteSets

CONSTANTS
  Addrs,       \* the addresses the host can get
  NoAddr,      \* NULL_IP_ADDRESS
  Configs,     \* the configurations: masks of Features awake and asleep, and the
               \* commands that may fail (a bound)
  MaxRetry,    \* CY_ARPOL_DHCP_RETRY_COUNT
  QueueLen,    \* the depth of the worker thread's queue
  StrayPm      \* TRUE iff a power state may reach an offload already shut down

Features == {"AGENT", "SNOOP", "HOST", "PEER"}
Commands == {"enable", "features", "add", "remove"}

ASSUME ConstAssumption ==
  /\ NoAddr \notin Addrs
  /\ Configs \subseteq [awake : SUBSET Features, sleep : SUBSET Features,
                          failing : SUBSET Commands]
  /\ MaxRetry \in Nat \ {0} /\ QueueLen \in Nat \ {0}
  /\ StrayPm \in BOOLEAN

VARIABLES
  config,      \* the configuration, fixed
  host,        \* the address of the host's interface
  event,       \* the connection manager's event thread: "none", an address
               \* change "pending", or "inCallback"
  registered,  \* is_wcm_callback_registered
  olm,         \* where the Offload Manager's thread is
  life,        \* the offload as the manager sees it: "new", "up", "down"
  state,       \* arp_ol->state: "Currently written state in Device"
  ip,          \* arp_ol->ip_address
  timer,       \* cy_delay_dhcp_timer: "none", "stopped", "running"
  retry,       \* cy_dhcp_retry_count; below zero nothing depends on it
  queue,       \* works waiting in the worker thread's queue
  work,        \* the worker thread: its place, and the address it read
  arpoe,       \* device: ARP offload enabled
  features,    \* device: the enabled features
  hostList,    \* device: the host-IP list it answers for
  failed       \* history: the commands whose last try failed; a removal that
               \* failed counts until an init has cleared the list

ctrl   == <<olm, life, state>>
driver == <<config, ctrl, registered>>
device == <<arpoe, features, hostList, failed>>
delay  == <<timer, retry, queue>>
vars   == <<driver, host, event, ip, delay, work, device>>

Init ==
  /\ config \in Configs
  /\ host = NoAddr /\ event = "none" /\ registered = FALSE
  /\ olm = "idle" /\ life = "new" /\ state = "UNINITIALIZED" /\ ip = NoAddr
  /\ timer = "none" /\ retry = MaxRetry /\ queue = 0
  /\ work = [at |-> "idle", addr |-> NoAddr]
  /\ arpoe = FALSE /\ features = {} /\ hostList = {} /\ failed = {}

WorkGoto(from, to) == work.at = from /\ work' = [at |-> to, addr |-> work.addr]

\* A timer that was deleted cannot be started.
TimerStart == timer' = IF timer = "none" THEN "none" ELSE "running"

\* The agent is needed for either kind of automatic reply.
WithAgent(mask) ==
  IF mask \cap {"HOST", "PEER"} # {} THEN mask \cup {"AGENT"} ELSE mask

Mask(st) == IF st = "AWAKE" THEN config.awake ELSE config.sleep

\* whd_arp_arpoe_set and whd_arp_features_set: either may fail.
SetDevice(on, mask) ==
  \E bad \in SUBSET ({"enable", "features"} \cap config.failing) :
    /\ arpoe' = IF "enable" \in bad THEN arpoe ELSE on
    /\ features' = IF "features" \in bad THEN features ELSE mask
    /\ failed' = (failed \ {"enable", "features"}) \cup bad

-----------------------------------------------------------------------------
(* Mutants                                                                 *)

\* An address that is still in the device's list is not removed first.
WorkDecide_KeepsOld ==
  /\ \/ work.addr # NoAddr /\ WorkGoto("decide", "add")
     \/ work.addr = NoAddr /\ ip # NoAddr /\ WorkGoto("decide", "forget")
     \/ work.addr = NoAddr /\ ip = NoAddr /\ WorkGoto("decide", "ready")
  /\ UNCHANGED <<driver, host, event, ip, delay, device>>

\* The work is queued without regard to the room in the queue.
TimerFires_Unbounded ==
  /\ timer = "running" /\ timer' = "stopped" /\ queue' = queue + 1
  /\ UNCHANGED <<driver, host, event, ip, retry, work, device>>

\* A timer that is running swallows the change instead of starting again, and
\* so does one that was stopped.
EventTimer_NotStarted ==
  /\ event = "inCallback" /\ event' = "none"
  /\ UNCHANGED <<driver, host, ip, delay, work, device>>

\* The state is noted before it is known that the device must be told.
Pm_NotesOnly(st) ==
  /\ (olm = "idle" /\ life = "up") \/ (olm = "initPm" /\ st = "AWAKE")
  /\ olm' = "idle" /\ life' = "up" /\ state' = st
  /\ arpoe' = TRUE /\ registered' = TRUE
  /\ UNCHANGED <<config, features, hostList, failed, host, event, ip, delay, work>>

\* The timer is deleted while the callback that starts it is registered.
DeinitCallback_Late ==
  /\ olm = "idle" /\ life = "up"
  /\ olm' = "deinitTimer" /\ life' = "down" /\ state' = "UNINITIALIZED"
  /\ timer' = "none"
  /\ UNCHANGED <<config, registered, host, event, ip, retry, queue, work, device>>

-----------------------------------------------------------------------------
(* The Offload Manager's thread                                            *)

\* A connection starts without an address: DHCP runs after init.
InitReset ==
  /\ olm = "idle" /\ life # "up" /\ host = NoAddr
  /\ olm' = "initTimer"
  /\ ip' = NoAddr /\ state' = "UNINITIALIZED"
  /\ UNCHANGED <<config, life, registered, host, event, delay, work, device>>

InitTimer ==
  /\ olm = "initTimer" /\ olm' = "initDevice"
  /\ timer' = "stopped"
  /\ UNCHANGED <<config, life, state, registered, host, event, ip, retry, queue,
                 work, device>>

\* The device is switched on for the clearing of its lists and off again.
InitDevice ==
  /\ olm = "initDevice" /\ olm' = "initPm"
  /\ \E bad \in SUBSET ({"enable", "features", "remove"} \cap config.failing) :
       /\ arpoe' \in IF "enable" \in bad THEN {arpoe, TRUE} ELSE {FALSE}
       /\ features' = IF "features" \in bad THEN features ELSE {}
       /\ hostList' = IF "remove" \in bad THEN hostList ELSE {}
       /\ failed' = (failed \cap {"add"}) \cup bad
  /\ UNCHANGED <<config, life, state, registered, host, event, ip, delay, work>>

\* cylpa_arp_ol_pm, called by init and by the dispatch of a power state.  With
\* equal masks only the first call enables anything.  The state is noted even
\* when a command failed.
Pm(st) ==
  /\ \/ olm = "idle" /\ (life = "up" \/ (StrayPm /\ life = "down")) /\ UNCHANGED life
     \/ olm = "initPm" /\ st = "AWAKE" /\ life' = "up"
  /\ olm' = "idle"
  /\ state' = st
  /\ IF st = state
     THEN UNCHANGED <<registered, arpoe, features, failed>>
     ELSE IF state = "UNINITIALIZED" \/ config.awake # config.sleep
     THEN /\ registered' = TRUE
          /\ SetDevice(TRUE, WithAgent(Mask(st)))
     ELSE /\ UNCHANGED registered
          /\ SetDevice(FALSE, {})
  /\ UNCHANGED <<config, hostList, host, event, ip, delay, work>>

DeinitCallback ==
  /\ olm = "idle" /\ life = "up"
  /\ olm' = "deinitTimer" /\ life' = "down"
  /\ state' = "UNINITIALIZED"
  /\ registered' = FALSE
  /\ UNCHANGED <<config, host, event, ip, delay, work, device>>

DeinitTimer ==
  /\ olm = "deinitTimer" /\ olm' = "idle"
  /\ timer' = "none"
  /\ \/ arpoe' = FALSE /\ failed' = failed \ {"enable"}
     \/ "enable" \in config.failing /\ UNCHANGED arpoe
        /\ failed' = failed \cup {"enable"}
  /\ UNCHANGED <<config, life, state, registered, host, event, ip, retry, queue,
                 work, features, hostList>>

-----------------------------------------------------------------------------
(* The connection manager (external) and the IP-change callback            *)

\* An address is assigned on an established connection, and lost at any time.
AddressChanges ==
  /\ \/ life = "up" /\ olm = "idle" /\ host' \in Addrs \ {host}
     \/ host # NoAddr /\ host' = NoAddr
  /\ event # "inCallback" /\ event' = "pending"
  /\ UNCHANGED <<driver, ip, delay, work, device>>

EventDelivered ==
  /\ event = "pending"
  /\ event' = IF registered THEN "inCallback" ELSE "none"
  /\ UNCHANGED <<driver, host, ip, delay, work, device>>

EventTimer ==
  /\ event = "inCallback" /\ event' = "none"
  /\ TimerStart
  /\ UNCHANGED <<driver, host, ip, retry, queue, work, device>>

\* A work that finds the queue full is lost: nobody reads the result.
TimerFires ==
  /\ timer = "running" /\ timer' = "stopped"
  /\ queue' = IF queue < QueueLen THEN queue + 1 ELSE queue
  /\ UNCHANGED <<driver, host, event, ip, retry, work, device>>

-----------------------------------------------------------------------------
(* The worker thread: cylpa_arp_ol_nw_ip_change_work                       *)

WorkRead ==
  /\ work.at = "idle" /\ queue > 0
  /\ queue' = queue - 1
  /\ work' = [at |-> "decide", addr |-> host]
  /\ UNCHANGED <<driver, host, event, ip, timer, retry, device>>

WorkDecide ==
  /\ \/ work.addr # NoAddr /\ work.addr # ip /\ WorkGoto("decide", "clear")
     \/ work.addr # NoAddr /\ work.addr = ip /\ WorkGoto("decide", "add")
     \/ work.addr = NoAddr /\ ip # NoAddr /\ WorkGoto("decide", "forget")
     \/ work.addr = NoAddr /\ ip = NoAddr /\ WorkGoto("decide", "ready")
  /\ UNCHANGED <<driver, host, event, ip, delay, device>>

\* The address is removed from the device's list, if that succeeds, and
\* forgotten in any case.
WorkClear ==
  /\ WorkGoto("clear", "add") \/ WorkGoto("forget", "ready")
  /\ \/ hostList' = hostList \ {ip} /\ UNCHANGED failed
     \/ "remove" \in config.failing /\ ip \in hostList
        /\ UNCHANGED hostList /\ failed' = failed \cup {"remove"}
  /\ ip' = NoAddr
  /\ UNCHANGED <<driver, host, event, delay, arpoe, features>>

WorkAdd ==
  /\ WorkGoto("add", "note")
  /\ \/ hostList' = hostList \cup {work.addr} /\ failed' = failed \ {"add"}
     \/ "add" \in config.failing /\ work.addr \notin hostList
        /\ UNCHANGED hostList /\ failed' = failed \cup {"add"}
  /\ UNCHANGED <<driver, host, event, ip, delay, arpoe, features>>

WorkNote ==
  /\ WorkGoto("note", "idle")
  /\ ip' = work.addr
  /\ retry' = MaxRetry
  /\ UNCHANGED <<driver, host, event, timer, queue, device>>

\* No address yet: the timer runs again if the interface may still come up and
\* the retries are not used up.
WorkReady ==
  /\ WorkGoto("ready", "idle")
  /\ \/ UNCHANGED <<timer, retry>>
     \/ /\ ip = NoAddr
        /\ retry' = IF retry = 0 THEN 0 ELSE retry - 1
        /\ IF retry > 1 THEN TimerStart ELSE UNCHANGED timer
  /\ UNCHANGED <<driver, host, event, ip, queue, device>>

-----------------------------------------------------------------------------
OlmStep  == InitTimer \/ InitDevice \/ (olm = "initPm" /\ Pm("AWAKE")) \/ DeinitTimer
WorkStep == WorkRead \/ WorkDecide \/ WorkClear \/ WorkAdd \/ WorkNote \/ WorkReady
Step     == EventDelivered \/ EventTimer \/ TimerFires \/ OlmStep \/ WorkStep

Next ==
  \/ InitReset \/ InitTimer \/ InitDevice
  \/ \E st \in {"AWAKE", "GOING_TO_SLEEP"} : Pm(st)
  \/ DeinitCallback \/ DeinitTimer
  \/ AddressChanges \/ EventDelivered \/ EventTimer \/ TimerFires
  \/ WorkStep

Spec == Init /\ [][Next]_vars

\* The event thread, the timer service, the worker thread and a call of the
\* Offload Manager that has begun all make progress.
Fairness ==
  /\ WF_vars(EventDelivered) /\ WF_vars(EventTimer) /\ WF_vars(TimerFires)
  /\ WF_vars(OlmStep) /\ WF_vars(WorkStep)

FairSpec == Spec /\ Fairness

-----------------------------------------------------------------------------
(* Properties                                                              *)

DriverType ==
  /\ config \in Configs /\ registered \in BOOLEAN
  /\ olm \in {"idle", "initTimer", "initDevice", "initPm", "deinitTimer"}
  /\ life \in {"new", "up", "down"}
  /\ state \in {"UNINITIALIZED", "AWAKE", "GOING_TO_SLEEP"}

HostType ==
  /\ host \in Addrs \cup {NoAddr} /\ ip \in Addrs \cup {NoAddr}
  /\ event \in {"none", "pending", "inCallback"}

DelayType ==
  /\ timer \in {"none", "stopped", "running"}
  /\ retry \in 0 .. MaxRetry /\ queue \in 0 .. QueueLen

WorkType ==
  /\ work \in [at : {"idle", "decide", "clear", "forget", "add", "note", "ready"},
               addr : Addrs \cup {NoAddr}]
  /\ work.at \in {"clear", "add", "note"} => work.addr # NoAddr

DeviceType ==
  /\ arpoe \in BOOLEAN /\ features \subseteq Features /\ hostList \subseteq Addrs
  /\ failed \subseteq Commands

\* Every variable stays in its type: the worker's queue never overflows, and an
\* address is only ever added to the device's list when there is one.
TypeOK == DriverType /\ HostType /\ DelayType /\ WorkType /\ DeviceType

\* Between two calls of the Offload Manager arp_ol->state is what its comment
\* says, the "Currently written state in Device": the device has the features
\* of that state, with the agent they need, and is off when there is none.  A
\* command that failed leaves the device in another state only until the same
\* command succeeds for a later state.
DeviceStateKnown ==
  olm = "idle" =>
    /\ "enable" \notin failed => (arpoe <=> state # "UNINITIALIZED")
    /\ "features" \notin failed /\ state # "UNINITIALIZED" =>
         features = WithAgent(Mask(state))

\* Nothing of an address change is still under way.
Settled ==
  event = "none" /\ timer # "running" /\ queue = 0 /\ work.at = "idle" /\ olm = "idle"

\* Once a change of address has been worked off, the device answers for the
\* host's address, unless the last addition failed, and for no other, unless a
\* removal failed, whatever it answered for before: also when the work of an
\* earlier connection ran across deinit and the next init.
HostListExact ==
  life = "up" /\ Settled /\ host # NoAddr =>
    /\ "add" \notin failed => host \in hostList
    /\ "remove" \notin failed => hostList \subseteq {host}

\* The callback that starts the timer is registered only while there is one.
CallbackHasTimer == registered => timer # "none"

\* The device is told the address of a host that keeps it, and no command fails
\* on the way.
AddressTold ==
  \A a \in Addrs :
    life = "up" /\ host = a ~>
      life # "up" \/ host # a \/ hostList = {a} \/ {"add", "remove"} \cap failed # {}

\* The device obeys "ARP Offload When Host Sleeping": asleep it has the
\* features configured for sleep.
SleepMaskObeyed ==
  olm = "idle" /\ state = "GOING_TO_SLEEP" /\ "features" \notin failed =>
    config.sleep \subseteq features

\* After deinit no callback of the offload is registered and the offload is
\* off: "Offload will free resource and unregister callbacks".
QuietAfterDeinit ==
  life = "down" /\ olm = "idle" => ~registered /\ (arpoe => "enable" \in failed)
=============================================================================
