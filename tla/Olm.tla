-------------------------------- MODULE Olm ---------------------------------
(***************************************************************************)
(* The Offload Manager (source/cy_lpa_wifi_olm.c): the thread of the       *)
(* connection manager creates it, initialises the offloads when a          *)
(* connection is made, shuts them down when it is lost, and may restart it *)
(* with another list; the thread in wait_net_suspend dispatches the power  *)
(* states.  The two threads share olm_t without a lock, and their loops    *)
(* over the list interleave.                                               *)
(*                                                                         *)
(* The offloads are external here: init may fail, and an offload that is   *)
(* initialised considers the host awake.                                   *)
(***************************************************************************)
EXTENDS Naturals, Sequences, FiniteSets

CONSTANTS
  Offloads,    \* the offload descriptors
  Lists,       \* the lists the manager may be given; <<>> is cy_null_ol_list
  NoList       \* ol_list before the manager is created

ASSUME ConstAssumption ==
  /\ Lists \subseteq Seq(Offloads)
  /\ NoList \notin Lists
  /\ \A l \in Lists : \A i, j \in DOMAIN l : l[i] = l[j] => i = j

VARIABLES
  list,        \* olm->ol_list
  whd,         \* olm->ol_info.whd is set
  newInfra,    \* olm->ol_info.fw_new_infra
  worker,      \* olm->ol_info.worker: the worker thread exists
  created,     \* cy_olm_whd_instance_created
  configured,  \* device: the low-power configuration has been written
  net,         \* the connection manager's thread: place, loop index, and the
               \* index of the offload whose init failed
  connected,   \* it has reported a connection
  up,          \* the offloads that are initialised
  lpa,         \* the dispatching thread: place, state, loop index and list
  slept,       \* the power state dispatched last is OL_PM_ST_GOING_TO_SLEEP
  asleep,      \* the offloads that consider the host asleep
  pm2,         \* device: pm2_sleep_ret
  saved,       \* cy_pm2_sleep_ret_value
  before,      \* history: pm2 when the last SLEEP was due
  spoilt       \* history: what has gone wrong with pm2 since then

manager  == <<list, whd, newInfra, worker, created, configured>>
link     == <<net, connected, up>>
dispatch == <<lpa, slept, pm2, saved, before, spoilt>>
vars     == <<manager, link, dispatch, asleep>>

Values == {"zero", "default", "lpa"}

Init ==
  /\ list = NoList /\ whd = FALSE /\ newInfra = FALSE /\ worker = FALSE
  /\ created = FALSE /\ configured = FALSE
  /\ net = [at |-> "idle", i |-> 0, failed |-> 0]
  /\ connected = FALSE /\ up = {}
  /\ lpa = [at |-> "idle", st |-> "AWAKE", i |-> 0, over |-> <<>>]
  /\ slept = FALSE /\ asleep = {}
  /\ pm2 = "default" /\ saved = "zero" /\ before = "default" /\ spoilt = {}

NetGoto(from, to, i) ==
  net.at = from /\ net' = [at |-> to, i |-> i, failed |-> net.failed]

\* cylpa_olm_init_wlan_config, called where due: beacon trimming, beacon waiting
\* and roaming are set for low power; nothing sets them back.
InitWlanConfig(due) == configured' = (configured \/ due)

\* cylpa_olm_configure_wlan_pmode: the value of pm2_sleep_ret is saved on the way
\* to sleep and restored on the way back.  Every command may fail, which nobody
\* looks at: the variable or the device keeps the value it has.
SaveAndLower ==
  \E got, enabled \in BOOLEAN :
    /\ saved' = IF got THEN pm2 ELSE saved
    /\ pm2' = IF enabled THEN "lpa" ELSE pm2
    /\ before' = pm2
    /\ spoilt' = IF got THEN {} ELSE {"get"}

Restore ==
  \E enabled \in BOOLEAN :
    /\ pm2' = IF enabled THEN saved ELSE pm2
    /\ spoilt' = IF enabled THEN spoilt ELSE spoilt \cup {"restore"}
    /\ UNCHANGED <<saved, before>>

\* The value in force is saved on every change of the power state.
ConfigureWlanPmode_SavesAlways(st) ==
  \E got, enabled \in BOOLEAN :
    /\ saved' = IF got THEN pm2 ELSE saved
    /\ pm2' = IF ~enabled THEN pm2 ELSE IF st = "SLEEP" THEN "lpa" ELSE saved'
    /\ IF st = "SLEEP" THEN before' = pm2 /\ spoilt' = IF got THEN {} ELSE {"get"}
       ELSE UNCHANGED before /\ spoilt' = IF enabled THEN spoilt ELSE spoilt \cup {"restore"}

ConfigureWlanPmode(st) == IF st = "SLEEP" THEN SaveAndLower ELSE Restore

\* cylpa_olm_init with list l.  The query of the firmware fails without an
\* interface, and may fail with one; what it says does not change.  The worker
\* thread is created for the old infrastructure only.
OlmInit(l) ==
  /\ list' = l
  /\ newInfra' \in IF whd' THEN {newInfra, TRUE} ELSE {newInfra}
  /\ worker' = (worker \/ ~newInfra')
  /\ InitWlanConfig(whd')
  /\ created' = (created \/ whd')

-----------------------------------------------------------------------------
(* Mutants                                                                 *)

\* The first offload is left out of the undoing.
InitOne_UndoFromSecond ==
  /\ net.at = "init" /\ net.i <= Len(list)
  /\ \/ /\ NetGoto("init", "init", net.i + 1)
        /\ up' = up \cup {list[net.i]} /\ asleep' = asleep \ {list[net.i]}
     \/ /\ net' = [at |-> "undo", i |-> 2, failed |-> net.i]
        /\ UNCHANGED <<up, asleep>>
  /\ UNCHANGED <<manager, connected, dispatch>>

\* The offload that failed is shut down as well.
UndoOne_Inclusive ==
  /\ NetGoto("undo", "undo", net.i + 1)
  /\ net.i <= net.failed
  /\ up' = up \ {list[net.i]}
  /\ UNCHANGED <<manager, connected, dispatch, asleep>>

\* The worker thread is created by the first initialisation only.
RestartInit_NoWorker(l) ==
  /\ NetGoto("restart", "idle", 0)
  /\ list' = l /\ newInfra' \in IF whd THEN {newInfra, TRUE} ELSE {newInfra}
  /\ UNCHANGED <<whd, worker, created, configured, connected, up, dispatch, asleep>>

\* The configuration is left to cylpa_olm_init.
InitOls_NoConfig ==
  /\ ~connected /\ list # NoList
  /\ connected' = TRUE /\ whd' = TRUE
  /\ NetGoto("idle", "init", 1)
  /\ UNCHANGED <<list, newInfra, worker, created, configured, up, dispatch, asleep>>

\* The loop ends one offload early.
DispatchDone_Early ==
  /\ lpa.at = "loop" /\ lpa.i >= Len(lpa.over)
  /\ lpa' = [lpa EXCEPT !.at = "idle"]
  /\ slept' = (lpa.st = "SLEEP")
  /\ UNCHANGED <<manager, link, pm2, saved, before, spoilt, asleep>>

-----------------------------------------------------------------------------
(* The thread of the connection manager                                    *)

\* cy_olm_create; the interface may not exist yet.
Create(l) ==
  /\ NetGoto("idle", "idle", 0)
  /\ list = NoList
  /\ whd' \in BOOLEAN
  /\ OlmInit(l)
  /\ UNCHANGED <<connected, up, dispatch, asleep>>

\* cylpa_restart_olm, "only when device is not connected to AP": cylpa_olm_deinit
\* deletes the worker thread of the old infrastructure ...
RestartDeinit ==
  /\ NetGoto("idle", "restart", 0)
  /\ list # NoList /\ ~connected
  /\ worker' = (worker /\ newInfra)
  /\ UNCHANGED <<list, whd, newInfra, created, configured, connected, up, dispatch,
                 asleep>>

\* ... and cylpa_olm_init follows.
RestartInit(l) ==
  /\ NetGoto("restart", "idle", 0)
  /\ UNCHANGED whd
  /\ OlmInit(l)
  /\ UNCHANGED <<connected, up, dispatch, asleep>>

\* cylpa_olm_init_ols keeps the interface even when there is no list.
InitOls ==
  /\ ~connected
  /\ connected' = TRUE /\ whd' = TRUE
  /\ IF list = NoList
     THEN NetGoto("idle", "idle", 0) /\ UNCHANGED <<created, configured>>
     ELSE /\ NetGoto("idle", "init", 1)
          /\ created' = TRUE
          /\ InitWlanConfig(~created)
  /\ UNCHANGED <<list, newInfra, worker, up, dispatch, asleep>>

InitOne ==
  /\ net.at = "init" /\ net.i <= Len(list)
  /\ \/ /\ NetGoto("init", "init", net.i + 1)
        /\ up' = up \cup {list[net.i]} /\ asleep' = asleep \ {list[net.i]}
     \/ /\ net' = [at |-> "undo", i |-> 1, failed |-> net.i]
        /\ UNCHANGED <<up, asleep>>
  /\ UNCHANGED <<manager, connected, dispatch>>

UndoOne ==
  /\ NetGoto("undo", "undo", net.i + 1)
  /\ net.i < net.failed
  /\ up' = up \ {list[net.i]}
  /\ UNCHANGED <<manager, connected, dispatch, asleep>>

DeinitOls ==
  /\ connected
  /\ connected' = FALSE
  /\ IF list = NoList THEN NetGoto("idle", "idle", 0) ELSE NetGoto("idle", "deinit", 1)
  /\ UNCHANGED <<manager, up, dispatch, asleep>>

DeinitOne ==
  /\ NetGoto("deinit", "deinit", net.i + 1)
  /\ net.i <= Len(list)
  /\ up' = up \ {list[net.i]}
  /\ UNCHANGED <<manager, connected, dispatch, asleep>>

LoopDone ==
  /\ \/ NetGoto("init", "idle", 0) /\ net.i > Len(list)
     \/ NetGoto("undo", "idle", 0) /\ net.i = net.failed
     \/ NetGoto("deinit", "idle", 0) /\ net.i > Len(list)
  /\ UNCHANGED <<manager, connected, up, dispatch, asleep>>

-----------------------------------------------------------------------------
(* The dispatching thread                                                  *)

\* wait_net_suspend dispatches SLEEP, and AWAKE after it; the connection it has
\* seen may be gone by then.  Without a list or an interface a dispatch returns at
\* once, each on its own: the AWAKE after a SLEEP that was skipped may find both,
\* and then writes the value that was never saved.
Dispatch(st) ==
  /\ lpa.at = "idle" /\ st = IF slept THEN "AWAKE" ELSE "SLEEP"
  /\ IF list = NoList \/ ~whd
     THEN /\ slept' = ~slept
          /\ IF st = "SLEEP" THEN before' = pm2 /\ spoilt' = {"skipped"}
                             ELSE UNCHANGED before /\ spoilt' = spoilt \ {"skipped"}
          /\ UNCHANGED <<lpa, pm2, saved>>
     ELSE /\ ConfigureWlanPmode(st)
          /\ lpa' = [at |-> "loop", st |-> st, i |-> 1, over |-> list]
          /\ UNCHANGED slept
  /\ UNCHANGED <<manager, link, asleep>>

\* An offload is told whether it is initialised or not.
DispatchOne ==
  /\ lpa.at = "loop" /\ lpa.i <= Len(lpa.over)
  /\ lpa' = [lpa EXCEPT !.i = @ + 1]
  /\ asleep' = IF lpa.st = "SLEEP" THEN asleep \cup {lpa.over[lpa.i]}
                                   ELSE asleep \ {lpa.over[lpa.i]}
  /\ UNCHANGED <<manager, link, slept, pm2, saved, before, spoilt>>

DispatchDone ==
  /\ lpa.at = "loop" /\ lpa.i > Len(lpa.over)
  /\ lpa' = [lpa EXCEPT !.at = "idle"]
  /\ slept' = (lpa.st = "SLEEP")
  /\ UNCHANGED <<manager, link, pm2, saved, before, spoilt, asleep>>

-----------------------------------------------------------------------------
Next ==
  \/ \E l \in Lists : Create(l) \/ RestartInit(l)
  \/ RestartDeinit
  \/ InitOls \/ InitOne \/ UndoOne \/ DeinitOls \/ DeinitOne \/ LoopDone
  \/ \E st \in {"SLEEP", "AWAKE"} : Dispatch(st)
  \/ DispatchOne \/ DispatchDone

Spec == Init /\ [][Next]_vars

-----------------------------------------------------------------------------
(* Properties                                                              *)

Members(l) == IF l = NoList THEN {} ELSE { l[i] : i \in DOMAIN l }

ManagerType ==
  /\ list \in Lists \cup {NoList}
  /\ whd \in BOOLEAN /\ newInfra \in BOOLEAN /\ worker \in BOOLEAN
  /\ created \in BOOLEAN /\ configured \in BOOLEAN /\ connected \in BOOLEAN

SetType   == up \subseteq Offloads /\ asleep \subseteq Offloads
PowerType ==
  /\ slept \in BOOLEAN /\ pm2 \in Values /\ saved \in Values /\ before \in Values
  /\ spoilt \subseteq {"skipped", "get", "restore"}

NetType ==
  /\ net \in [at : {"idle", "restart", "init", "undo", "deinit"}, i : Nat, failed : Nat]
  /\ net.at # "idle" => list # NoList
  /\ net.at \in {"init", "deinit"} => net.i \in 1 .. Len(list) + 1
  /\ net.at = "undo" => net.i \in 1 .. net.failed /\ net.failed \in 1 .. Len(list)

LpaType ==
  /\ lpa \in [at : {"idle", "loop"}, st : {"SLEEP", "AWAKE"}, i : Nat,
              over : Lists \cup {<<>>}]
  /\ lpa.at = "loop" => lpa.i \in 1 .. Len(lpa.over) + 1

\* Every variable stays in its type; the loops stay inside their lists.
TypeOK == ManagerType /\ SetType /\ PowerType /\ NetType /\ LpaType

\* Between two calls all offloads of the list are initialised or none is, and
\* none is without a connection: a failed init undoes what succeeded before it.
AllOrNothing ==
  net.at \in {"idle", "restart"} =>
    /\ up = {} \/ up = Members(list)
    /\ up # {} => connected

\* An initialised offload of the old infrastructure has a worker thread for its
\* callbacks, across any number of restarts.
WorkerWhileUp == up # {} /\ ~newInfra => worker

\* The device has its low-power configuration before an offload is initialised,
\* whether the interface existed at creation or came with the connection.
ConfiguredBeforeUp == up # {} => configured

\* Awake, the device has the power-save value it had when the host went to sleep,
\* "value before going to sleep/deep-sleep", however many cycles went by, whether
\* the value for low power could be set and whether both dispatches were skipped.
\* Exempt is a cycle whose SLEEP alone was skipped, whose reading of the value
\* failed, or whose restoring did; the code takes no notice of any of these.
Pm2Restored == ~slept /\ lpa.at = "idle" /\ spoilt = {} => pm2 = before

\* After AWAKE no initialised offload considers the host asleep, even when the
\* list was replaced or the offloads were initialised anew during the dispatch, and
\* when AWAKE is skipped there is none.
AwakeReachesAll == ~slept /\ lpa.at = "idle" => up \cap asleep = {}
=============================================================================
