---------------------------- MODULE NetworkStack ----------------------------
(***************************************************************************)
(* cylpa_suspend_ns and cylpa_resume_ns of                                 *)
(* helpers/net_activity/network_activity_handler.c: with lwIP they take    *)
(* and give back the lock of the core; with NetX Duo they take the mutexes *)
(* of the IP and the DHCP instance and stop their timers, and every step   *)
(* of it may fail.  A resumption that fails is not repeated: from then on  *)
(* wait_net_suspend finds the stack suspended and reports a bad state.     *)
(*                                                                         *)
(* The mutexes are only ever waited for as long as it takes, and the       *)
(* instances of NetX come and go while their stack runs.                   *)
(***************************************************************************)
EXTENDS NatKeepAlive

\* Whether the application has a DHCP client (a bound).
ASSUME StackAssumption == \A c \in Configs : c.dhcp \in BOOLEAN

VARIABLE ns    \* [flag: cylpa_s_ns_suspended; ip: whether "lpa" holds the core's
               \* lock or nx_ip_protection; dhcp: nx_dhcp_mutex, if there is an
               \* instance; timers: those that run]

IpTimers == {"periodic", "fast"}

NetxRunning(dhcp) ==
  [flag |-> FALSE, ip |-> FALSE, dhcp |-> dhcp,
   timers |-> IF dhcp = "absent" THEN IpTimers ELSE IpTimers \cup {"dhcp"}]

StackInit ==
  \/ cfg.stack = "lwip"
     /\ ns = [flag |-> FALSE, ip |-> FALSE, dhcp |-> "absent", timers |-> {}]
  \/ cfg.stack = "netx" /\ ns = NetxRunning("absent")

Netx(at, part) == cfg.stack = "netx" /\ pc["lpa"].at = at /\ pc["lpa"].part = part

StackVars == <<cfg, ctx, table, wowl, nat>>

\* A handler that was picked and has not run is overtaken by the next change of
\* the power state.
OvertakeHandler == whd' = [whd EXCEPT !.late = whd.runs # Free]

\* suspend_ns has succeeded: the offloads are told.
GoToSleep == Phase("lpa", "sleep") /\ OvertakeHandler

\* A timer is stopped or started only when tx_timer_info_get tells whether it runs;
\* those it tells nothing of stay as they are, and nobody is told.
Asked(unknown) == IF unknown = {} THEN UNCHANGED faults ELSE Faulty("netxTimer")

-----------------------------------------------------------------------------
(* Mutants                                                                 *)

\* A failure after the DHCP mutex was given back does not take it again.
NetxResumeIp_NoRetake ==
  /\ Netx("resume", "ip")
  /\ \/ \E unknown \in SUBSET IpTimers :
          /\ Asked(unknown) /\ Phase("lpa", "idle")
          /\ ns' = [ns EXCEPT !.flag = FALSE, !.ip = FALSE,
                              !.timers = @ \cup (IpTimers \ unknown)]
     \/ /\ Faulty("netxResume") /\ Phase("lpa", "stuck")
        /\ UNCHANGED ns
  /\ UNCHANGED <<whd, StackVars>>

-----------------------------------------------------------------------------
(* lwIP                                                                    *)

LwipSuspend ==
  /\ cfg.stack = "lwip" /\ pc["lpa"].at = "suspend" /\ StackFree
  /\ ns' = [ns EXCEPT !.flag = TRUE, !.ip = TRUE]
  /\ GoToSleep
  /\ UNCHANGED <<faults, StackVars>>

LwipResume ==
  /\ cfg.stack = "lwip" /\ pc["lpa"].at = "resume"
  /\ ns' = [ns EXCEPT !.flag = FALSE, !.ip = FALSE]
  /\ Phase("lpa", "idle")
  /\ UNCHANGED <<whd, faults, StackVars>>

-----------------------------------------------------------------------------
(* NetX Duo                                                                *)

\* There is no interface, or its mutex cannot be had.
NetxSuspendIp ==
  /\ Netx("suspend", "start")
  /\ \/ /\ StackFree
        /\ ns' = [ns EXCEPT !.ip = TRUE] /\ Phase("lpa", "locked")
        /\ UNCHANGED faults
     \/ /\ Faulty("netxSuspend") /\ Phase("lpa", "idle")
        /\ UNCHANGED ns
  /\ UNCHANGED <<whd, StackVars>>

NetxStopTimers ==
  /\ Netx("locked", "start") /\ Goto("lpa", "dhcp")
  /\ \E unknown \in SUBSET IpTimers :
       /\ Asked(unknown)
       /\ ns' = [ns EXCEPT !.timers = @ \ (IpTimers \ unknown)]
  /\ UNCHANGED <<whd, StackVars>>

\* Without the DHCP mutex everything is undone.
NetxSuspendDhcp ==
  /\ Netx("locked", "dhcp")
  /\ \/ \E unknown \in SUBSET (ns.timers \cap {"dhcp"}) :
          /\ Asked(unknown) /\ GoToSleep
          /\ ns' = [ns EXCEPT !.flag = TRUE, !.timers = @ \ ({"dhcp"} \ unknown),
                              !.dhcp = IF @ = "absent" THEN @ ELSE "held"]
     \/ /\ ns.dhcp # "absent" /\ Faulty("netxSuspend")
        /\ ns' = [ns EXCEPT !.ip = FALSE, !.timers = @ \cup IpTimers]
        /\ Phase("lpa", "idle")
        /\ UNCHANGED whd
  /\ UNCHANGED StackVars

\* The DHCP mutex is given back even when the timer cannot be asked about.
NetxResumeDhcp ==
  /\ Netx("resume", "start")
  /\ \/ ns.dhcp = "absent" /\ Goto("lpa", "ip") /\ UNCHANGED <<ns, faults>>
     \/ /\ ns.dhcp # "absent"
        /\ ns' = [ns EXCEPT !.dhcp = "free", !.timers = @ \cup {"dhcp"}]
        /\ Goto("lpa", "ip")
        /\ UNCHANGED faults
     \/ /\ ns.dhcp # "absent" /\ Faulty("netxInfo")
        /\ ns' = [ns EXCEPT !.dhcp = "free", !.timers = @ \ {"dhcp"}]
        /\ Phase("lpa", "stuck")
  /\ UNCHANGED <<whd, StackVars>>

\* Without an interface, or when its mutex cannot be given back, what the
\* resumption has done so far is undone: in the first case the timers of the
\* interface are left alone.
NetxResumeIp ==
  /\ Netx("resume", "ip")
  /\ \/ \E unknown \in SUBSET IpTimers :
          /\ Asked(unknown) /\ Phase("lpa", "idle")
          /\ ns' = [ns EXCEPT !.flag = FALSE, !.ip = FALSE,
                              !.timers = @ \cup (IpTimers \ unknown)]
     \/ \E stopped \in {{"dhcp"}, {"dhcp"} \cup IpTimers} :
          /\ Faulty("netxResume") /\ Phase("lpa", "stuck")
          /\ ns' = [ns EXCEPT !.timers = @ \ stopped,
                              !.dhcp = IF @ = "absent" THEN @ ELSE "held"]
  /\ UNCHANGED <<whd, StackVars>>

\* wait_net_suspend after a resumption that failed: suspend_ns finds the flag and
\* reports a bad state; the stack stays as it is.
BadState ==
  /\ pc["lpa"].at = "stuck" /\ ns.flag
  /\ UNCHANGED <<pc, whd, ns, faults, StackVars>>

\* The DHCP client is started and stopped (external).
DhcpChanges ==
  /\ cfg.stack = "netx" /\ cfg.dhcp /\ ~Suspended
  /\ ns' = IF ns.dhcp = "absent"
           THEN [ns EXCEPT !.dhcp = "free", !.timers = @ \cup {"dhcp"}]
           ELSE [ns EXCEPT !.dhcp = "absent", !.timers = @ \ {"dhcp"}]
  /\ UNCHANGED <<pc, whd, faults, StackVars>>

StackStep ==
  \/ LwipSuspend \/ LwipResume
  \/ NetxSuspendIp \/ NetxStopTimers \/ NetxSuspendDhcp
  \/ NetxResumeDhcp \/ NetxResumeIp \/ BadState
  \/ DhcpChanges

StackType ==
  ns \in [flag : BOOLEAN, ip : BOOLEAN, dhcp : {"absent", "free", "held"},
          timers : SUBSET {"periodic", "fast", "dhcp"}]

-----------------------------------------------------------------------------
(* Properties                                                              *)

\* The stack is wholly suspended or wholly running whenever the suspending thread
\* is not at work on it: no mutex is kept that nobody will give back, whatever
\* failed; while the offloads and the host sleep, and after a resumption that
\* failed, every mutex is held and no timer runs.  The code falls short of it in
\* two ways.  When it cannot ask about the DHCP timer on the way back it gives up
\* with the DHCP mutex given back and the rest suspended (netxInfo); and wherever
\* else it cannot ask about a timer it goes on as if it had, so that the timer may
\* run behind the mutex or stay stopped in a stack that runs (netxTimer).
StackConsistent ==
  LET quiet == pc["lpa"].at \in {"sleep", "asleep", "awake", "stuck"} IN
  /\ ~Suspended => ~ns.flag /\ ~ns.ip /\ ns.dhcp # "held"
  /\ quiet => ns.flag /\ ns.ip /\ ("netxInfo" \notin faults => ns.dhcp # "free")
  /\ "netxTimer" \notin faults =>
       /\ cfg.stack = "netx" /\ ~Suspended => ns.timers = NetxRunning(ns.dhcp).timers
       /\ quiet => ns.timers = {}
=============================================================================
