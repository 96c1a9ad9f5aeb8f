# Verification of the Low Power Assistant (LPA)

LPA is middleware for a microcontroller with a Wi-Fi device next to it.  While
nothing happens on the network the host suspends its TCP/IP stack and sleeps,
and the firmware of the Wi-Fi device answers for it (ARP, keep-alives) or drops
what is not worth a wake-up (packet filters).  What has to be right is the
hand-over: in either direction, at any moment, with packets, firmware events,
lost connections and failing commands in between, and several threads sharing
plain variables.

This directory holds TLA+ models of that hand-over, TLC configurations that
check them on small instances, and TLAPS proofs for all values of the constants.
Paths below are relative to `src/`.

    tlc -workers 2 -config netsuspend_safety.cfg MCNetSuspend.tla
    tlc -workers 2 -config offloads_pass.cfg MCOffloadSystem.tla
    tlapm NetSuspendProofs.tla
    tlapm PacketProofs.tla

## 1. The system and its parts

### Threads

| thread | runs | meets the others at |
|---|---|---|
| LPA thread(s) of the application | `wait_net_suspend`, and through it the dispatch of power states to the offloads | lwIP core lock, event bits, rx queue, `cy_lp_mutex`, `olm_t`, each offload |
| WHD thread of the Wi-Fi driver | receive path (`cylpa_on_emac_activity`, `cylpa_rx_activity`), firmware events (TKO and TLS handlers) | event bits, rx-queue callback, rx queue, `cy_lp_mutex` |
| sending tasks | `cylpa_on_emac_activity`, then the stack | event bits, core lock |
| application | makes and closes connections (`cy_tcp_create_socket_connection`), configures TLS and NAT keepalive | the tables of connections, the stack |
| thread of the TCP/IP stack | `cylpa_nko_ol_ip_change_callback` | configuration and context of the NAT keepalive |
| thread of the connection manager | `cy_olm_create`, `init_ols` / `deinit_ols`, restart; IP-change events | `olm_t`, each offload |
| timer service, worker thread | delay of an IP change, `cylpa_arp_ol_nw_ip_change_work` | the ARP offload |

### Components

**Network activity handler** (`helpers/net_activity/network_activity_handler.c`).
State: `cylpa_s_ns_suspended`, the event bits `cy_lp_wait_net_event`, the
rx-queue callback slot, `rx_pkt_q_handle`, `cy_lp_mutex`, the deep-sleep count.
Operations: `wait_net_suspend` (monitor, suspend, notify, wait, wake up, resume),
`cylpa_on_emac_activity`, `cylpa_rx_activity`, `cylpa_rx_queue_pkt_input`,
`cylpa_restart_olm`.  Hard: five ways out of one function that takes and gives
back six things; a flag read without a lock; bits cleared twice; a callback
removed while the thread that calls it is under way; a mutex that may time out.
Correct when: nobody is in the stack while it is suspended; everything taken is
given back on every path; the host sleeps only when all is prepared; no packet
and no wake-up is lost; calls return and senders get through.

**Offload Manager** (`source/cy_lpa_wifi_olm.c`, `target/cy_OlmInterface.c`).
State: `olm_t` (list, interface, infrastructure, worker), the two static values
for `pm2_sleep_ret` and `cy_olm_whd_instance_created`.  Operations: create,
restart (deinit, init), `init_ols` with its undoing, `deinit_ols`,
`dispatch_pm_notification`.  Hard: two threads walk the list without a lock, the
list may be replaced meanwhile, the interface appears at one of two times.
Correct when: offloads are initialised all or not at all; a worker exists for
those that need it; the device is configured first; `pm2_sleep_ret` comes back;
AWAKE reaches everyone.

**ARP offload** (`source/cy_lpa_wifi_arp_ol.c`) **with the IP-change helper**
(`target/cy_nw_lpa_helper.c`).  State: `arp_ol_t` (state, address), the delay
timer, the DHCP retry counter, the worker's queue, and in the device the
features and the list of host addresses.  Operations: init, pm, deinit, the
callback, the timer, the work.  Hard: four threads, an address read early and
used late, works that outlive the connection they belong to.  Correct when: the
device answers for the host's address and no other, learns every address that
stays, has the features of the noted state, and is quiet after deinit.

**Packet filter offload** (`source/cy_lpa_wifi_pf_ol.c`).  State: the context,
and in the device the filters and which are enabled.  Operations: init, deinit,
pm, and the arithmetic of port masks.  Hard: two loops over the same filters in
two threads, commands that fail one by one and are never tried again, a mask
trick that needs preconditions.  Correct when: filters are enabled exactly in
the states of their bits and match exactly the documented ports.

**TCP keepalive offload, TKO** (`source/cy_lpa_wifi_tko_ol.c`,
`source/cy_whd_tko_api.c`).  State: the table of connections and its index,
`tko_state_enabled`, the index of its entry in WHD's table of event handlers; in
the device the switch and a prepared keep-alive per connection.  Operations:
init, deinit, pm (activate each connection, enable, disable), the event handler,
`cylpa_tko_ol_update_config`.  Hard: two threads disable, the handler clears the
flag on which the deregistration depends, and the application rewrites the table
while it is read.  Correct when: the device speaks for connections that exist,
with the number before the next one, and is silent once the host is awake.

**TLS offload** (`source/cy_lpa_wifi_tls_ol.c`, `source/cy_whd_tls_api.c`).
State: the configured connection and socket, `tcp_reset`, the entry in the
handler table; in the device the session with its sequence numbers and a secure
wake-up pattern.  Operations: init, pm (set pattern, activate, disable), the event
handler, two ways to configure.  Hard: what the device sent must come back into two
places of the host's socket, the handler may run before, during or after the
wake-up, and each of five commands may fail.  Correct when: both ends agree on
the sequence numbers, only a connection with a wake event is reset, and the lock
of NetX Secure is given back.

**Wake-on-WLAN patterns** (`source/cy_lpa_wifi_wowlpf_ol.c`).  State: in the
device the capabilities, the patterns and whether they are active.  Operations:
init, deinit, pm, the conversion of texts.  Hard: partial failure and its
clean-up, bytes and bits in two orders.  Correct when: a sleeping host is woken
by what the user described and by nothing else, and nothing is left behind.

**NAT keepalive** (`source/cy_lpa_wifi_nko_ol.c`) **and NULL keepalive**
(`source/cy_lpa_wifi_nullko_ol.c`).  State: configuration, context, registered
callback; in the device a packet and a period.  Operations: init, deinit, the
callback for a new address, `cylpa_nko_ol_update_config`.  Hard: two threads
build the packet without a lock while a third shuts the offload down.  Correct
when: the packet has the address of the host, and is gone after deinit.

**Sockets** (the look-up and `cy_tcp_create_socket_connection` of the network
activity handler) and **suspension on NetX Duo** (`cylpa_suspend_ns`,
`cylpa_resume_ns` of the same file).  Hard: each of the calls may fail and what was
done so far must be undone.  Correct when: no socket is left behind, and the stack
is wholly suspended or wholly running.

**Helpers**: `source/cy_lpa_common.c` (checksums),
`helpers/net_activity/ip4string.c` (address texts) and the log of the Offload
Manager.  Sequential, almost without state.

### How they interact

`wait_net_suspend` locks the lwIP core, sends `GOING_TO_SLEEP` through the
Offload Manager to the `pm` function of each offload of the list, gives the
deep-sleep lock up and waits for a bit.  The bit comes from the receive path or
an event handler (WHD thread) or from a task that wants to send.  It then takes
`cy_lp_mutex`, so that no event handler runs during what follows, sends `AWAKE`,
removes the rx-queue callback, hands the queued packets to lwIP and unlocks the
core.  Independently the connection manager initialises and shuts down the
offloads when connections come and go.  TKO and TLS hand the host's connections
over to the device on the way to sleep, reading them from the suspended stack,
and the TLS offload writes them back before it runs again.  Both share the table
of event handlers of the WHD driver with whatever else the application
registers; TLS and the pattern filter share the device's wake-up capabilities.

## 2. Modules

| module | models | with |
|---|---|---|
| `NetSuspend` | network activity handler, lwIP build | `MCNetSuspend`, five configurations |
| `StackGate` | what the handler promises | refined by `NetSuspend` |
| `NetSuspendProofs` | theorems of `NetSuspend` | |
| `Olm` | Offload Manager | `MCOlm`, `olm_pass.cfg` |
| `OlmProofs` | theorems of `Olm` | |
| `ArpOffload` | ARP offload and IP-change helper | `MCArpOffload`, three configurations |
| `ArpOffloadProofs` | theorems of `ArpOffload` | |
| `PacketFilter` | packet filter offload | `MCPacketFilter`, two configurations |
| `PacketFilterProofs` | theorems of `PacketFilter` | |
| `OffloadEnv` | what the other offloads share: list, threads, handler table, failing commands | |
| `TcpSockets` | connections and their look-up | extends `OffloadEnv` |
| `TkoOffload` | TCP keepalive | extends `TcpSockets` |
| `TlsOffload` | TLS offload | extends `TkoOffload` |
| `WowlPatterns` | conversion of wake-up patterns (operators) | |
| `WowlFilter` | wake-on-WLAN patterns | extends `TlsOffload`, `WowlPatterns` |
| `NatKeepAlive` | NAT and NULL keepalive | extends `OffloadEnv` |
| `NetworkStack` | suspension of lwIP and NetX Duo | extends `NatKeepAlive` |
| `KeepalivePackets` | keep-alive packets and checksums (operators) | |
| `OffloadSystem` | the offloads above together | extends them; `MCOffloadSystem`, `offloads_pass.cfg` |
| `OffloadProofs` | places of the threads; `NetworkStack` and `NatKeepAlive` in `OffloadSystem` | |
| `TlsProofs` | `TcpSockets`, `TlsOffload` and `WowlFilter` in `OffloadSystem` | extends `OffloadProofs` |
| `PacketProofs` | theorems of `KeepalivePackets` | |
| `SystemProofs` | `TkoOffload`, the table of handlers in `OffloadSystem`, its packets and the types of all of it | extends `TlsProofs`, `PacketProofs` |

Every module keeps, ahead of its actions, a section of *mutants*: versions of an
action with a plausible slip.  Each property checked is violated when one of
them takes the place of the action, so that none holds by construction.

### NetSuspend and StackGate

`pc[c]` is the place of caller `c` in `wait_net_suspend`; each place is named for
what the caller does next.  `ready`, `events`, `suspended`, `core`, `rxCb`,
`mutex`, `dsLocks`, `rxQueue` are the shared variables of the code, `app` and
`olm` what the application and the offloads were told last, `whd` and `tx` the
other threads.  `raised` is a history variable: the signals since the stack was
locked that no wake-up has answered.  One action stands for the code between two
accesses to shared state that do not commute with what other threads do; the
flag test in `cylpa_suspend_ns` (`SuspendCheck`), the core lock (`SuspendLock`)
and the setting of the flag (`SuspendFlag`) are three actions, and so are the
unlock and the clearing on the way back.  The receive path of the connectivity
library is external and modelled from the callbacks the code registers: the
activity callback, then the rx-queue callback if one is set, else `netif->input`.
Time is abstract: a timed wait may end whenever its condition is false.

`StackGate` is the promise without threads: a gate that is running, locked,
announced as suspended, announced as resuming and running again, in that order;
tasks inside only while it runs; the fate of each packet decided once.  The
refinement (`GateSpec`) maps the owner of the core lock and the last notification
to the mode of the gate and the places of a packet to its fate.

### Olm

`list` to `configured` are the fields of `olm_t` and the statics; `net` and `lpa`
are the two threads with their loop indices, so that every offload of a loop is a
step of its own.  `lpa.over` is the list the dispatch started on: the code walks
a pointer into it while `olm->ol_list` may change.  Offloads are external: their
init may fail, and one that is initialised considers the host awake ("We get here
only if we are awake!", `source/cy_lpa_wifi_arp_ol.c:330`).  `wait_net_suspend` sends
SLEEP and AWAKE in turn, and each returns at once without a list or an interface;
the commands that read and write `pm2_sleep_ret` may fail, which the code does not
look at.  `before` and `spoilt` are history: the value when the last SLEEP was due,
and what has gone wrong with it since.

### ArpOffload

`olm` is the thread that calls init, pm and deinit, with the points where the
other threads can get in between; `event`, `timer`, `work` are those threads.
`state`, `ip`, `retry`, `registered` are the fields of the code, `arpoe`,
`features`, `hostList` the device.  `StrayPm` says whether a power state may reach
an offload that was shut down, which the Offload Manager does not prevent.

Any command to the device may fail; the code logs it and goes on.  `failed` is
history: the commands whose last try failed.  The properties are weakened by
exactly these: the features are known unless the last `features` or `enable`
failed, the host list is exact unless an `add` or `remove` did, and so on; a
later success heals them again.  `failing`, a field of the configuration, bounds
which commands fail.

### PacketFilter

`net` and `lpa` are the two threads with the index of the filter they are at.
`rules` and `enabled` are the device, `failed` the filters whose last command
failed.  A command needs the filter to exist and the interface that is read from
the context; any command may fail anyway.  A filter is a port, EtherType or
IP-type filter, keeps or discards, and is in the device the set of values it lets
match in each field of a frame; headers carry no IP options.  `WellFormed` is what
the documentation asks of a filter of ports, and `FiltersExact` needs it.  A port is
a number of `Width` bits; the masks are computed on sets of bits as the code computes them
with `^`, `|` and the sign extension, and `Matched` is the firmware's comparison.

### OffloadEnv and OffloadSystem

`pc` has the two threads that walk through the list: `pc["net"]` initialises,
undoes and deinitialises, `pc["lpa"]` suspends the stack, sends the power states and
resumes.  `at` is the phase, `i` the place in the list, `part` the part of the
offload's function, `k` a loop count in it.  Each module has one action per part,
that is per access to something other threads or the device see; `At(t, at, o,
part)` is the place.  `cfg` is the configuration of the build and of the list:
stack, infrastructure, which descriptors carry a configuration, what it says.
`table` is WHD's table of event handlers with one entry per handler, `whd` the
thread that runs them.  The modules extend each other because they share these
variables; `OffloadSystem` states the joint next-state relation and adds the two
threads' own steps.

`faults` is history: the kinds of things that went wrong so far, each failing
command under a name of its own, and each unfortunate overlap of two threads that
the code does not exclude (`Note`).  A property that does not survive one of them
names it, so that what is listed in `RestoreFaults`, `StaleEntry`, `NatFaults` and
in the other properties is the exact list of what each promise depends on; all
other faults may happen and it still holds.

### TcpSockets, TkoOffload, TlsOffload

A connection `c` stands for its ports and its peer.  `sock[c]` is the host's end
with its state and the sequence numbers of TCP and TLS, `peer[c]` what the other
end expects, `created` the list NetX searches, `app` the application's thread.
The calls into the stack wait while it is suspended; writes to the tables of
connections (`UpdateClear`, `UpdateWrite`, `ConfigClear` to `SetAddress`) do not,
and are single steps because the offloads may read between them.

`ports`, `portsIx`, `tkoOn`, `tkoEntry` are the variables of the TKO code, `tkoDev`
the device.  `whd_tko_disable` runs in both threads without a lock; its test of the
flag (`TkoDisable`), the clearing (`TkoUnmark`), the deregistration and the switch are
four steps, so that both may pass the test (`tkoTwice`).  `mqtt`, `tcpReset`, `tlsEntry` are those of the TLS code, `session`
the device's, `protection` how often the thread holds NetX Secure's lock, and
`woken` is history.  While the host sleeps the device sends (`DeviceSends`), so that
its numbers and the peer's advance and the host's do not; `TlsRestore` brings them
back, as `whd_tlsoe_update_sock_seq` does on each stack, the loop of NetX that
stops at the first socket included.

### WowlFilter and WowlPatterns

Texts are sequences of character codes and are converted as the code does it
(`hex_str_to_byte_array`, bit reversal of the mask, `uint8_t` sizes that wrap).
`WakesExactly` compares what the device then does to a frame with what the user has
written, defined digit by digit and without the conversion (`UserMatches`).

### NatKeepAlive, NetworkStack, KeepalivePackets

`builder` has the two threads that may build the NAT packet, with what each has
read; deinit goes on beside them.  `ns` is what `cylpa_suspend_ns` takes: the flag,
the lock of lwIP's core or the mutexes and timers of NetX.  Each of the six calls of
`tx_timer_info_get` may fail (`Asked`, and the failing branch of `NetxResumeDhcp`), and
the timer then stays as it is.  `KeepalivePackets` is
the arithmetic of the packets on bytes in memory order: the little-endian fold of
`ip_cksum` and the big-endian one of `cylpa_checksum_finish` are both checked
against RFC 1071 and the packets against what a receiver verifies.  The loops over
the bytes are one recursive function (`Added`) of the terms they add up.

## 3. What the runs show

| run | question | result |
|---|---|---|
| `netsuspend_safety` | Are locks, flags, callback, buffers and notifications taken and given back in step, and is the gate implemented? | holds |
| `netsuspend_live` | Does a call return, and does a blocked sender get in? | holds under fairness |
| `netsuspend_lost_wakeup` | Is a signal after the lock answered? | **violated** |
| `netsuspend_two_callers` | Is the core free after two concurrent calls? | **violated** |
| `netsuspend_stranded` | Is the rx queue empty after the call? | **violated** |
| `olm_pass` | Do the loops of the two threads and restarts leave the offloads, the worker and the device consistent? | holds |
| `arp_pass` | Does the device know the right address and have the right features, in any order of the four threads? | holds |
| `arp_equal_masks` | Does the sleeping device have the features configured for sleep when both masks are equal? | **violated** |
| `arp_stray_pm` | Is the offload quiet after deinit? | **violated** |
| `pf_pass` | Are filters enabled in the states of their bits, and do they match what their kind, protocol, direction and ports name? | holds |
| `pf_wide_range` | The ports again, for ranges not below the port | **violated** |
| `offloads_pass` | Is what TKO, TLS, the patterns and the keepalives hand to the device about live connections and the current address, does it come back, and is nothing left behind, with failing commands and all threads? | holds |

### Where the code and its documents disagree

1. *Lost wake-up* (`network_activity_handler.c:666`).  The bits are cleared once
   more after the core is locked and the application told.  A task that signals
   in between and then blocks on the core sleeps until `wait_ms` is over, although
   `cylpa_on_emac_activity` is documented to wake the stack up.
2. *Two callers* (`:436`).  The core is unlocked before the flag is cleared, and
   the flag is tested before the core is awaited.  A second caller can set the
   flag in between and have it cleared under it; its own resume then finds the
   flag clear, and the core stays locked.
3. *Stranded packet* (`:744`).  The WHD thread reads the rx-queue callback, the
   caller removes it and drains the queue, and the packet is put into the queue
   afterwards.  It stays there until the next call.
4. *Equal masks* (`cy_lpa_wifi_arp_ol.c:453`).  When the features awake and
   asleep are the same, the change to sleep takes the branch that disables all.
5. *Stray power state* (`:432`).  The Offload Manager keeps its list and interface
   when the connection is lost, so the resume that follows reaches the shut-down
   offload, which registers its callback and switches itself on.
6. *Wide range* (`cy_lpa_wifi_pf_ol.c:130`).  The documented check that the range
   is less than the port is missing; port 2 with range 3 matches 2 and 3, neither
   the range 2-5 nor port 2 alone.

The passing runs leave these situations out by their constants (one caller,
`StrayPm = FALSE`, unequal masks, documented ranges), or check what holds in
spite of them: a blocked sender does get in once `wait_ms` is over, and a
stranded buffer is still accounted for.

### Behaviour met while modelling

These are in the model of `OffloadSystem` as the code has them.  The properties
exempt them by name (in parentheses the fault, where there is one); none has a run
of its own.

* Offload Manager: a SLEEP that is skipped, as there is no list or interface yet, may
  be followed by an AWAKE that is not, which writes the initial 0 into the device; a
  reading of `pm2_sleep_ret` that fails leads to an old value, a writing back that
  fails to the low-power one (`spoilt`).
* TKO: the event handler clears the flag that leads to the deregistration, so the
  handler stays (`tkoEvent`); deinit and the wake-up may both find the flag set, and
  the second deregisters an entry that may be someone else's by then (`tkoTwice`); a
  deinit that a whole cycle overtakes gives back an
  index that is someone else's by then (`tkoRace`); an init while the host wakes up
  clears the context, and the device keeps its connections (`reinit`).  The
  interval of `cylpa_tko_ol_update_config` is never told to the device.  On NetX the
  search for the MAC address does not tell that it found none, although the
  comment says it returns -1 then, and the keep-alive goes to whatever the stack has
  in its place (`noNextHop`).
* `tko_connect_init` looks for the failure of the response in the length of the
  request, and takes a checksum of 0xfffe for an error.
* TLS: an offload that was not activated still deregisters the index it once had,
  which may be the application's handler (`noConnection`, `tlsActivate`,
  `tlsPattern`).  A configuration exchanged between pattern and activation lets the
  deletion of a pattern fail that was never added, and NetX Secure's lock is then
  not given back (`tlsConfig`).  On NetX only the first created socket gets its TCP
  number back (`netxOrder`).  Its pattern takes away other wake-up capabilities.
* Patterns: after a failed activation the entry to remove is the terminating one,
  whose empty text makes the size wrap to 255; the conversion runs over buffers of
  128 and 16 bytes (`overrun`), after which `PatternsGone` claims nothing.  The header speaks of 128
  bytes of pattern and mask, the fields hold 128 and 16 characters of text.
* NAT keepalive: `update_config` beside deinit configures the device again or
  follows a pointer just cleared (`natRace`, `natNull`).  The header gives the
  interval in milliseconds, the documentation in seconds.  If the host has its
  address already at init, nothing is started before the next change.  The
  callback resolves a host name in the thread of the TCP/IP stack.
* NULL keepalive: deinit does not disable it.
* NetX: a resumption that fails is not repeated.  When the DHCP timer cannot be asked
  about on the way back (`:442`), the stack stays suspended with the DHCP mutex free
  (`netxInfo`).  When any timer cannot be asked about elsewhere (`:379`, `:384`, `:405`,
  `:473`, `:479`), success is reported and it runs on behind the mutex, or stays
  stopped in a stack that runs (`netxTimer`).
  Resuming starts timers that were not running before.

### Bounds, and why they are enough

* `netsuspend_*`: one caller, because two break the lock (finding 2) and what
  follows is meaningless then; two senders, so that one can own the core while
  another waits; three packets for a queue of one, so that one is queued, one
  finds the queue full and one travels past both; finite and infinite `wait_ms`.
  The invariants that hold for any number of callers are proved (section 5).
  Symmetry of the senders is used in the safety run only.
* `olm_pass`: three offloads in lists of three, two, one and none that overlap in
  a different order.  Three is the least at which a failing init leaves some
  before and some after it; the replacement of a list during a dispatch needs two.
* `arp_pass`: two addresses, so that an old one can linger; a queue of two, so
  that works can pile up and be lost; two retries for the three of the code, which
  is enough to start the timer again and to give up.  A third address would be to
  the device what the second is.  In one configuration one kind of command fails,
  as often as it likes.
* `pf_pass`: two filters with any bits, so that the two loops can be at different
  filters; single filters for all ports and ranges of four bits, and of each other
  kind.  The arithmetic treats all bits alike, so four stand for the sixteen of the
  code: a lowest, a highest and two between.  The real ranges are not reached one
  by one.
* `offloads_pass`: seventeen configurations, each aimed at one offload or at two that
  meet: lists of one or two offloads on either stack, old and new infrastructure,
  with and without a configuration, with up to two connections.  The fields of
  `cfg` that are bounds are `sleeps`, `disconnects`, `appRegisters`, `conns`, `dhcp`,
  `maxFaults` (at most one kind of fault in a behaviour, as often as it likes) and
  `leftOut` (kinds that do not happen).  `Bounded` is the constraint: faults within
  these bounds, and `protection` at most `MaxProtection` = 1.  The constraint is
  needed because an overlap of threads, unlike a failing command, cannot be refused.
  `FewPackets` bounds what the connections carry where two of them or a session
  that was not cleared would multiply it.
  `SeqWrap` = 3: the numbers wrap, and the one before the next, the next and the one
  after it are three.  `HandlerSlots` = 2: one of them can be someone else's, and the
  table can be full.  `MaxTko` = 2 (`MAX_TKO` is defined by the driver): the index wraps.
  Out of reach within these bounds: two kinds of faults in one behaviour, for
  instance a failing deletion in the clean-up after a failed activation, and a TLS
  handler that is registered while the last one still is.  Three overlaps of TLS
  (`lateHandler`, `sentLate`, `tlsConfig`) are left out with faults, so that what
  follows them is not explored; the theorems of section 5 do not have these bounds.
  The texts, frames, segments and datagrams are chosen for the carries of the
  sums, odd lengths, both bytes of a mask and the wrap of the sequence number.

Deadlock is checked everywhere but in `netsuspend_safety`, where a call with an
infinite wait may wait for good once the bounded number of packets is used up.

## 4. Fairness

`NetSuspend!Fairness`: a thread that can run runs (weak), and one that waits for a
lock gets it if it becomes free again and again (strong), which is what a
preemptive RTOS with queues of waiters gives.  Strong fairness of the expiry of
the monitoring interval stands for real time: the loop in
`cylpa_wait_net_inactivity` compares the elapsed time with `inactive_interval_ms`
on each activity.  Nobody is obliged to call, to send or to receive, and a
finite wait times out.  The run uses finite waits only; with an infinite one a
sleep without activity rightly never ends.

`ArpOffload!Fairness`: the event thread, the timer service, the worker thread and
a call of the Offload Manager that has begun make progress.  The timer is a
one-shot of fixed delay, so it fires unless it is stopped.  Nothing obliges the
network to give an address or to keep it.

## 5. What is proved

| theorem | for | assumes |
|---|---|---|
| `NetSuspendProofs!TypeCorrect`, `StackStaysLocked`, `DeepSleepStaysBalanced`, `HandlersStayOut`, `BuffersAreAccounted` | any number of callers, senders, packets | |
| `NetSuspendProofs!DivertedWhileLocked`, `OffloadsAsleepWhileLocked`, `SleepIsPrepared`, `AllIsReleased`, `GateIsImplemented` | any number of senders and packets | one caller |
| `OlmProofs!TypeCorrect`, `InitIsAllOrNothing`, `WorkerIsThere`, `ConfiguredFirst`, `Pm2IsRestored`, `AwakeIsComplete` | any offloads and lists | lists without repetitions |
| `ArpOffloadProofs!TypeCorrect` | any addresses, queue, retries | |
| `ArpOffloadProofs!CallbackFindsTimer`, `HostListIsExact` | the same | no stray power state |
| `ArpOffloadProofs!DeviceStateIsKnown` | the same | no stray power state, masks that differ |
| `PacketFilterProofs!TypeCorrect`, `FiltersFollowState` | any list of filters, any width | |
| `PacketFilterProofs!FiltersAreExact` | the same | filters as the documentation asks |
| `OffloadProofs!StackIsConsistent` | any lists and bounds, both stacks | |
| `OffloadProofs!NatIsGone`, `NatKeepsUp` | the same, any addresses and configurations | |
| `TlsProofs!SocketsAreOwned` | the same, any number of connections | |
| `TlsProofs!ProtectionIsReleased`, `PatternsAreGone` | the same | |
| `TlsProofs!WakesTheHostExactly` | the same, any patterns, masks and frames | texts that fit their fields |
| `TlsProofs!SessionStaysInStep`, `ResetOnlyByWakeEvent` | the same, any numbers of packets | |
| `SystemProofs!TkoIsStopped`, `HandlersAreKept`, `KeepalivesAreLive` | the same, a table of any size | |
| `SystemProofs!TypesAreCorrect` | all of these | |
| `PacketProofs!FoldingTwiceIsEnough` | every sum of 32 bits | |
| `PacketProofs!SegmentsAreAccepted`, `DatagramsAreAccepted` | any addresses, ports, numbers and payloads | fields of their widths |
| `SystemProofs!PacketsAreAccepted` | the same, in the whole system | the same |

The assumption of one caller is the negation of finding 2, the other two of
findings 4 and 5; each is a hypothesis of the theorem that needs it and of no
other.  So is `WellFormed` in `FiltersAreExact`, which is the negation of finding
6 and of a filter without a port protocol; TLC checks it of the lists of `pf_pass`
(`ListsAssumption`).  That the texts fit (`WowlAssumption`) is not a hypothesis but
the size of the fields of `cy_wowlpf_ol_cfg_t`; likewise `PacketAssumption` is the
widths of the fields of `sock_seq_t` and `nat_keepalive_t`, and the 127 bytes at which
`cylpa_nko_get_details` cuts the payload.  The code takes it that a list names
no offload twice: its context would be initialised over.  The sockets an
application makes with one configuration are finitely many (`SocketAssumption`).

The arguments:

* **NetSuspend.**  The properties are not inductive: `ReleasedOnReturn`, for
  one, speaks of the end of a call only and says nothing of the state one step
  before it.  The invariant ties each place of `pc` to what is held there.  For any number of
  callers: the core lock belongs to whoever is between lock and unlock, and a
  caller with an infinite wait owns the mutex from `GetMutex` on; the deep-sleep
  count is the cardinality of the set of awake callers, and each step moves at
  most one caller in or out.  With one caller it also fixes flag, callback,
  notification and power state at every place.  `BuffersAccounted` counts what is in
  the queue, the stack and the hands of the receiver; that a packet is in one place
  does not follow from the counts, nor the counts from it, so `PacketsInPlace` has
  both.  For the refinement, each action of the handler is a turn of the gate, the
  passing of a task (`GateTurns`), the fate of one packet (`GateReceives`), or a
  stutter; that the fate is decided once is `PacketsInPlace` again.
* **Olm.**  `LoopInv` says which slice of the list the loop of the connection
  manager has done: up to the index while initialising, from the index to the
  failed one while undoing, at most the rest while shutting down.  Lemmas about
  slices of a sequence without repetitions carry the steps.  `PmInv` says where
  the power-save value is kept at each point of a cycle, `AwakeInv` that the
  offloads that still think the host asleep are in the rest of the list the
  dispatch walks, even if the manager has another list by then.  `PmInv` leaves out
  what `spoilt` names: a SLEEP skipped alone, a reading or a writing back that failed.
* **ArpOffload.**  As far as no command failed: an address that is in the device
  but not yet noted is the one in the hands of the work (`AtMostOne`), and as long
  as the device does not answer exactly for the host's address, a change is
  pending, in the callback, in the timer, in the queue or in the work
  (`OnItsWay`).  `SetUp` ties the
  timer and the callback to the phases of the Offload Manager.
* **PacketFilter.**  For each filter whose last command succeeded the invariant
  says whether it is on, depending on how far init has come (`Made`, `Switched`)
  and how far the loop of the power state has come (`Reached`).  The separate
  clause for filters that are always on is needed because the loop skips them;
  `overlap` is needed because an init enables the filters of the awake state
  even while the host is asleep.  `FiltersAreExact` is about numbers: that the
  mask and the value the code computes from port and range compare equal for exactly
  the ports from the port to the end of the range.  `TwoExp` gets the powers of two from the
  number of subsets of an interval, and what would be an induction over the bits
  is an argument about the lowest bit that goes wrong (`Least`): two numbers with
  the same bits are equal (`SameBits`), a number from which no power splits off is
  one (`PowerOfTwo`), a range of the form 2^y - 1 has the lowest y bits
  (`AllOnes`).  `RangeMatch` puts these together, and `CommandRules` says that
  whatever the device has been told was computed from the filter of that index.
* **OffloadSystem.**  The theorems are about the whole of it: every step of every
  offload is shown to leave the part in question alone, and they hold without the
  constraint under which TLC explores, for any number of things that go wrong.
  `faults` only grows (`StepGrows`), so that an invariant of the form "unless one
  of these is on record" has to be shown only for steps that record none of them.
  All rest on the places of the two threads (`PcInv`, `Ranges`) and on three ways
  to speak of a thread that walks a list: it is at a part of an offload (`At`), it
  is past it (`Past`), and a thing was done on the way to sleep and is not yet
  undone on the way back (`Told`).
  - *Stack.*  No step of an offload moves the dispatching thread but within its
    walk (`Frame`), and each of its places says which mutexes it holds (`NetxInv`,
    `LwipInv`) and, as long as every timer could be asked about, which timers run
    (`TimersInv`); the property speaks of the ends of a
    suspension only, the invariant also of the half-way places a failure undoes.
  - *NAT.*  As long as there was no race and no failed command, a packet in the
    device, a registered callback or a thread that builds a packet means that the
    connection manager has been past the offload on its way up and not yet on its
    way down (`NkoReached`), so that a walk that has ended leaves none of the
    three.  That the packet is current (`NatWays`) needs the callback registered
    whenever the offload is on, and that a thread about to send has read what is
    still true: both are what an overlap (`natRace`) takes away.
  - *Sockets.*  An open socket is the application's or the one its thread is making
    (`OwnedBy`), for which the records of all sockets have to be known through the
    sequence numbers that the TLS offload writes.
  - *Protection and secure pattern* (`ProtectionWays`).  Each is held only while
    the wake-up that gives it back is ahead.  The wake-up does so only if the
    deletion of the pattern succeeds, hence the clause that ties the protection to
    the pattern; it is broken by `tlsConfig`, an exchange of the configuration on
    the way.
  - *Patterns.*  A pattern in the device comes from an entry the wake-up has not
    deleted yet (`PatternWays`), which is claimed only while no deletion failed and no
    buffer was overrun, and without faults a sleeping device has exactly
    those of the loop's index (`CapsWays`).  `MatchesAgree` compares the device's
    test of a frame (bytes, reversed bits of the mask) with the user's (digits of
    the two texts); it needs that a text is no longer than its field, because the
    sizes are kept in a `uint8_t`.
  - *Session.*  While the device has the session (`SessionWays`) its numbers, and
    after the restoring the host's, are the peer's (`StepWays`).  The wake event
    splits into what the handler has noted and what it is about to note
    (`ResetDue`); with it, woken connections are those that are reset or will be
    (`WokenWays`), whichever of handler and wake-up comes first.
  - *TKO and the table.*  A thread that has passed the test of the flag will give the
    entry back (`Gives`), at most one at a time unless both passed it; the entry is
    still owed then, and afterwards nobody's (`Owing`), so that the handler is gone
    awake even if it was given back twice, but the second time it may take another's
    away.  The flag or the switch being on means that a wake-up or deinit that will undo it
    is ahead (`TkoWays`).  An index about to be given back is that of an entry
    held by that offload (`EntryWays`); the faults of `StaleEntry` are the ways in
    which it is not.
  - *Keep-alives.*  Whatever connection is in the device's table was activated on
    this way to sleep, and is one of the host's (`KeepWays`).  That it has the number
    before the next one rests on the session: a connection that the TLS offload
    has handed over advances in the device, so the clause about numbers is stated,
    in the property too, of lists without that offload (`Plain`).  The address is the
    peer's or the gateway's on either stack, unless `noNextHop` is on record, which
    only NetX can bring about.
  - *Types* (`TypeInv`).  That an index stays in its table is more than its
    type says: the index of the TKO offload reaches the size of the table and is an entry's only
    between the clearing and the writing (`TableIndex`), the loop over the patterns
    counts from the first (`Counted`), and a wake event is about the connection of
    a session there is (`SessionConn`).  The patterns in the device are bytes because
    the texts are hexadecimal and fit their fields (`ConvertedType`).
  - *Checksums* (`PacketProofs`).  `ip_cksum` folds twice without a loop; the first
    fold leaves at most 2 * 65535, so that the carry the second adds in is the last
    one, and each takes away a multiple of 65535 (`FoldingTwiceIsEnough`).  The loop
    of `cylpa_checksum_finish` takes away such multiples too, and ends at the number
    that is left (`FinishCompletes`).  For the loops over the bytes the least length
    at which a claim fails is refuted (`LeastNatural`), which stands for an
    induction: the sum of two pieces of memory is that of the whole if the first has
    an even length (`SumsOfParts`), and 256 times the sum in one byte order is the
    sum in the other but for a multiple of 65535 (`ByteOrder`), because 256 * 256 is
    one more than 65535.  So a checksum that was computed and stored in the order of
    the host is right in that of the network, and a header with its checksum in it
    verifies whatever is before and after the field (`HeaderVerifies`).  A payload of
    odd length comes last, where its last byte is what the padding makes of it.
    A segment whose checksum is taken for an error is exempt, in the property too.

Only model-checked: liveness (`CallReturns`, `SenderProceeds`, `AddressTold`),
which the prover does not do under fairness; and what the violated runs refute.
Every other property of a passing run is a theorem.

## 6. Modelling assumptions

* `cy_rtos_set_mutex` by a thread that does not own the mutex does nothing.
* The one-time initialisation of `wait_net_suspend` is one step.
* Calls of the Offload Manager to one ARP offload do not overlap each other; in
  `PacketFilter` and `OffloadSystem` they do.
* A connection starts without an address; a timer that was deleted cannot be
  started.  In the code a work that finds no address starts the timer again even
  after deinit (`cy_lpa_wifi_arp_ol.c:206`).
* One thread dispatches power states.  A restart happens without a connection
  ("only when device is not connected to AP").
* What the firmware says of its infrastructure does not change while it runs.
* In `PacketFilter` the list of filters is fixed, and IPv4 headers have no options.
* In `OffloadSystem`: reading the device's wake-up capabilities succeeds; there is
  one TLS entry, the default of `MAX_TLSOE`; the pattern filter and the TLS offload
  are not on one list, as the manual asks ("only on non secure mode"); texts are
  hexadecimal and fit their fields (`WowlAssumption`), a mask may have an odd length;
  the host is little-endian; a device
  that is switched off forgets its keep-alives, and `wowl_clear` ends the session;
  an event is handled before the next is taken.  With a TLS offload the sockets
  are those of an MQTT client that connected earlier and does not connect again.
* What lies behind `pattern_array` and `mask_array` when the conversion overruns them
  is not modelled: the step changes nothing but the history.  The two properties of
  that offload, `PatternsGone` and `WakesExactly`, claim nothing afterwards; those of
  the other components go on as if what was overwritten were nobody's.
* A command to the device returns.  In the driver the WHD thread delivers the answer,
  and that thread may be waiting in an event handler for the mutex under which the
  command was sent (`network_activity_handler.c:740`); no property covers this.
* WHD (external): a handler registered twice keeps its entry or gets another, a full
  table leaves the caller's index as it was (`tableFull`), and deregistering clears the entry at
  the index, whoever has it.

## 7. Not modelled

* The ULP configuration of `wait_net_suspend` (a register of the chip), the
  statistics it prints and the difference of tick counts at the wrap of the
  counter (`network_activity_handler.c:693`), on which the statistics and the
  returned state (time over or activity) depend.
* Two first callers in the one-time initialisation of `wait_net_suspend` (`:624`).
* The early returns of the ARP offload on the new infrastructure, under which it
  does nothing, and its pm beside init or deinit (`cy_lpa_wifi_arp_ol.c:387`).
* `cylpa_find_my_descriptor` (a search by name), the texts of IP addresses and the
  log: sequential, and no property depends on them.
* Keys, payloads and the Ethernet header; formats and logging everywhere.

## 8. Plan

In this order:

1. Overlap of pm with init and deinit in `ArpOffload`.
2. A module of operators for the tick arithmetic of `wait_net_suspend`.
3. `NetSuspend` with `Olm` in place of the single variable `olm`, and the loops of
   `OffloadSystem` with those of `Olm`.
