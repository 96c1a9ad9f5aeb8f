----------------------------- MODULE OffloadEnv -----------------------------
(***************************************************************************)
(* What the offloads share while they are driven: the thread in            *)
(* wait_net_suspend ("lpa"), which walks through the list of offloads with *)
(* a power state; the thread of the connection manager ("net"), which      *)
(* walks through it with init and deinit; the table of event handlers of   *)
(* the WHD driver and its thread; and the commands to the device, which    *)
(* may fail.                                                               *)
(*                                                                         *)
(* faults is history: the kinds of things that went wrong, failures and    *)
(* steps of two threads in an unfortunate order.  A property that needs    *)
(* one of them not to have happened names it.  TLC explores the behaviours *)
(* in which at most cfg.maxFaults kinds of things have gone wrong, none of *)
(* them one of cfg.leftOut.                                                *)
(***************************************************************************)
EXTENDS Naturals, Sequences, FiniteSets

CONSTANTS
  Configs,     \* the configurations of the system, described below
  HandlerSlots \* WHD's event table: the number of entries offloads can get

Offloads == {"tko", "tls", "wowl", "nko", "nullko"}
Clients  == {"tko", "tls", "app"}      \* who registers event handlers

\* A configuration of the build and of the offload list.
ASSUME EnvAssumption ==
  /\ \A c \in Configs :
       /\ c.list \in Seq(Offloads)
       /\ \A i, j \in DOMAIN c.list : c.list[i] = c.list[j] => i = j
       /\ c.given \subseteq Offloads      \* those whose descriptor has a cfg
       /\ c.newInfra \in BOOLEAN          \* ol_info_t.fw_new_infra
       /\ c.stack \in {"lwip", "netx"}    \* COMPONENT_LWIP, COMPONENT_NETXDUO
       /\ c.magic \in BOOLEAN             \* CYCFG_WOWL_MAGIC_PKT_ENABLED
       \* Bounds: whether the host sleeps and the network goes down, whether the
       \* application registers a handler, how many kinds of things go wrong, and
       \* which ones do not.
       /\ c.sleeps \in BOOLEAN /\ c.disconnects \in BOOLEAN
       /\ c.appRegisters \in BOOLEAN /\ c.maxFaults \in Nat /\ c.leftOut \subseteq STRING
  /\ HandlerSlots \in Nat \ {0}

VARIABLES
  cfg,         \* the configuration, fixed
  pc,          \* where the threads "lpa" and "net" are: the phase, the index
               \* into the list and its last one, the part of the offload's
               \* function, a count
  ctx,         \* the offloads whose context has an interface (ctxt->whd)
  table,       \* WHD: the client of each entry of the table of handlers
  whd,         \* the WHD thread: the handler it is about to run, and whether the
               \* power state has changed since it took the event
  wowl,        \* device: the wake-up capabilities, whether they are activated,
               \* the bitmap patterns, and whether it has the secure one
  faults       \* history

env == <<cfg, pc, ctx, table, whd, wowl, faults>>

Free    == "free"
NoEntry == 255                         \* 0xFF
Slots   == 1 .. HandlerSlots

EnvInit ==
  /\ cfg \in Configs
  /\ pc = [t \in {"lpa", "net"} |-> [at |-> "idle", i |-> 1, last |-> 0, part |-> "start", k |-> 0]]
  /\ ctx = {}
  /\ table = [s \in Slots |-> Free]
  /\ whd = [runs |-> Free, late |-> FALSE]
  /\ wowl = [caps |-> {}, armed |-> FALSE, patterns |-> {}, secure |-> FALSE]
  /\ faults = {}

-----------------------------------------------------------------------------
(* The threads                                                             *)

\* Thread t is in phase at, with offload o of the list, before the given part.
At(t, at, o, part) ==
  /\ pc[t].at = at /\ pc[t].part = part
  /\ pc[t].i <= pc[t].last /\ cfg.list[pc[t].i] = o

Goto(t, part)  == pc' = [pc EXCEPT ![t].part = part]
Count(t, part, k) ==
  pc' = [pc EXCEPT ![t].part = part, ![t].k = k]
NextOffload(t) ==
  pc' = [pc EXCEPT ![t] = [at |-> @.at, i |-> @.i + 1, last |-> @.last, part |-> "start", k |-> 0]]
Walk(t, at, last) ==
  pc' = [pc EXCEPT ![t] = [at |-> at, i |-> 1, last |-> last, part |-> "start", k |-> 0]]
Phase(t, at)   == Walk(t, at, Len(cfg.list))
LoopEnd(t, at) == pc[t].at = at /\ pc[t].i > pc[t].last

\* A failed init is undone for the offloads before it.
InitFails == Walk("net", "undo", pc["net"].i - 1)

\* Between suspending and resuming the network stack its lock is held.
Suspended == pc["lpa"].at \notin {"idle", "suspend"}
Asleep    == pc["lpa"].at = "asleep"

\* The thread of the connection manager is between two calls.
NetRests  == pc["net"].at \in {"idle", "up", "failed", "down"}

\* The wake-up sequence holds cy_lp_mutex.
MutexHeld == pc["lpa"].at \in {"awake", "resume"}

Faulty(kind) ==
  /\ Cardinality(faults \cup {kind}) <= cfg.maxFaults /\ kind \notin cfg.leftOut
  /\ faults' = faults \cup {kind}

\* What is not a failure cannot be kept from happening; FewFaults is part of the
\* constraint under which TLC explores.
Note(kind) == faults' = faults \cup {kind}
FewFaults  == Cardinality(faults) <= cfg.maxFaults /\ faults \cap cfg.leftOut = {}

\* A command to the device succeeds, or fails and the kind is noted.
Command(ok, kind) == (ok /\ UNCHANGED faults) \/ (~ok /\ Faulty(kind))

-----------------------------------------------------------------------------
(* The table of event handlers (external)                                  *)

\* whd_management_set_event_handler: a registered handler keeps its entry or
\* gets another, a new one gets the first free entry, and the caller its index;
\* when the table is full the caller's index stays as it was.
Registered(client) == \E s \in Slots : table[s] = client

FreeEntries == { s \in Slots : table[s] = Free }
FirstFree   == CHOOSE s \in FreeEntries : \A r \in FreeEntries : s <= r

Register(client, entry, newEntry) ==
  \/ /\ newEntry \in Slots /\ table[newEntry] = client
     /\ UNCHANGED <<table, faults>>
  \/ /\ FreeEntries # {}
     /\ newEntry = FirstFree
     /\ table' = [table EXCEPT ![FirstFree] = client]
     /\ UNCHANGED faults
  \/ /\ FreeEntries = {} /\ ~Registered(client)
     /\ newEntry = entry /\ UNCHANGED table
     /\ Note("tableFull")

\* whd_wifi_deregister_event_handler: the entry is cleared, whoever has it.
Deregister(entry) ==
  table' = [s \in Slots |-> IF s = entry THEN Free ELSE table[s]]

\* The device reports an event: the WHD thread picks the handler.
Pick(client) ==
  /\ whd.runs = Free /\ Registered(client)
  /\ whd' = [runs |-> client, late |-> FALSE]

\* Another part of the application registers a handler while the host is awake.
AppRegister ==
  /\ ~Suspended /\ cfg.appRegisters /\ ~Registered("app") /\ FreeEntries # {}
  /\ table' = [table EXCEPT ![FirstFree] = "app"]
  /\ UNCHANGED <<cfg, pc, ctx, whd, wowl, faults>>

\* The init of every offload begins with a memset of its context.
InitClear(o) ==
  /\ At("net", "init", o, "start") /\ Goto("net", "fill")
  /\ ctx' = ctx \ {o}
  /\ IF Suspended THEN Note("reinit") ELSE UNCHANGED faults
  /\ UNCHANGED <<cfg, table, whd, wowl>>

\* ctxt->whd is set by an init that was given a configuration.
HasContext(o) == IF o \in cfg.given THEN ctx \cup {o} ELSE ctx

\* The phases of the threads, and the parts of the offloads' functions.
Phases ==
  {"idle", "init", "undo", "up", "failed", "deinit", "down",
   "suspend", "locked", "sleep", "asleep", "awake", "resume", "stuck"}
Parts ==
  {"start", "fill", "activate", "found", "enable", "register", "mark", "unmark", "deregister",
   "toggle", "pattern", "cleanUp", "protect", "restore", "release", "clear", "set",
   "undo", "delete", "disable", "forget", "dhcp", "ip"}

EnvType ==
  /\ cfg \in Configs
  /\ pc \in [{"lpa", "net"} ->
              [at : Phases, i : Nat, last : Nat, part : Parts, k : Nat]]
  /\ ctx \subseteq Offloads
  /\ table \in [Slots -> Clients \cup {Free}]
  /\ whd \in [runs : {"tko", "tls", Free}, late : BOOLEAN]
  /\ wowl \in [caps : SUBSET {"MAGIC", "NET", "SECURE"}, armed : BOOLEAN,
               patterns : SUBSET [offset : Nat, pattern : Seq(0 .. 255),
                                  mask : Seq(0 .. 255)],
               secure : BOOLEAN]
=============================================================================
