---------------------------- MODULE SystemProofs -----------------------------
(***************************************************************************)
(* The TKO offload is undone by the wake-up or the deinit that comes after *)
(* it, whichever thread gets there first, and the event handlers of the    *)
(* offloads are registered and given back without touching each other's,   *)
(* for every list of offloads and every size of the table of handlers; the *)
(* keep-alives that the device sends meanwhile are about the connections   *)
(* of the host.  At the end, every variable of the system has its type, and*)
(* the packets it hands to the device are accepted by a receiver.          *)
(***************************************************************************)
EXTENDS TlsProofs, PacketProofs, FiniteSetTheorems

LpaMarks  == At("lpa", "sleep", "tko", "mark")
Deregs(t) == At(t, pc[t].at, "tko", "deregister")

\* Thread t has seen the flag set, and will give the entry back.
Gives(t) == At(t, pc[t].at, "tko", "unmark") \/ Deregs(t)

\* The entry of the TKO offload is still to be given back.
Owing == tkoOn \/ LpaMarks \/ Gives("lpa") \/ Gives("net")

SwitchType ==
  /\ tkoOn \in BOOLEAN /\ tkoDev.on \in BOOLEAN
  /\ tkoDev = [on |-> tkoDev.on, conns |-> tkoDev.conns]

\* At most one thread is about to give the entry back, unless both have seen the flag
\* set; and while the flag is set or the device is switched on the wake-up that will
\* undo it is yet to come.
TkoFaults == {"tkoEvent", "reinit", "tkoRace"}

TkoWays ==
  TkoFaults \cap faults = {} =>
    /\ InSleep("tko") => "tko" \in ctx /\ ~Gives("net")
    /\ tkoOn => Told("tko", {}, {"start", "unmark"}) /\ ~Deregs("net")
    /\ "tkoTwice" \notin faults => ~Gives("lpa") \/ ~Gives("net")
    /\ \A s \in Slots : table[s] = "tko" => s = tkoEntry /\ Owing
    /\ "tkoToggle" \notin faults /\ tkoDev.on =>
         Told("tko", {"register", "mark"}, {"start", "unmark", "deregister", "toggle"})

TkoInv == TableType /\ SwitchType /\ TkoWays

\* What the dispatching thread does on its way to sleep.
LEMMA TkoSleepKeeps ==
  ASSUME PcInv, Ranges, TkoInv, TkoSleep
  PROVE  TkoInv'
<1>1. /\ At("lpa", "sleep", "tko", "start") /\ cfg' = cfg /\ ctx' = ctx /\ table' = table
      /\ tkoOn' = tkoOn /\ tkoEntry' = tkoEntry /\ tkoDev' = tkoDev
  BY DEF TkoSleep, tko
<1>2. TableType' /\ SwitchType' BY <1>1 DEF TkoInv, TableType, SwitchType
<1>3. faults \subseteq faults' BY FaultsGrow DEF TkoSleep
<1>4. \/ "tko" \notin ctx /\ NextOffload("lpa")
      \/ "tko" \in ctx /\ \E p \in Parts \ {"start", "mark", "unmark", "deregister"}, k \in Nat :
                            Goto("lpa", p) \/ Count("lpa", p, k)
  BY DEF TkoSleep, Parts
<1>5. "tkoRace" \in faults' \/ ~Gives("net") BY DEF TkoSleep, Note, Gives, Deregs, At
<1>6. ASSUME TkoFaults \cap faults' = {} PROVE TkoWays'
  <2>1. ~tkoOn /\ ("tkoToggle" \notin faults => ~tkoDev.on)
    <3>1. CASE NextOffload("lpa")
      BY <1>1, <1>3, <1>6, <3>1, LpaGoesOn DEF TkoInv, TkoWays, Told
    <3>2. ASSUME NEW p \in Parts, NEW k \in Nat, Goto("lpa", p) \/ Count("lpa", p, k)
          PROVE  ~tkoOn /\ ("tkoToggle" \notin faults => ~tkoDev.on)
      BY <1>1, <1>3, <1>6, <3>2, LpaGoesTo DEF TkoInv, TkoWays, Told
    <3> QED BY <1>4, <3>1, <3>2
  <2>2. ~Gives("net") /\ ~LpaMarks /\ ~Gives("lpa")
    BY <1>1, <1>5, <1>6 DEF Gives, Deregs, LpaMarks, At, TkoFaults
  <2>3. \A s \in Slots : table[s] # "tko"
    BY <1>3, <1>6, <2>1, <2>2 DEF TkoInv, TkoWays, Owing
  <2>4. pc'["net"] = pc["net"] /\ pc'["lpa"].part \notin {"mark", "unmark", "deregister"}
        /\ (InSleep("tko")' => "tko" \in ctx)
    <3>1. CASE NextOffload("lpa")
      BY <1>1, <3>1, LpaGoesOn DEF InSleep, Inside
    <3>2. ASSUME NEW p \in Parts \ {"start", "mark", "unmark", "deregister"}, NEW k \in Nat,
                 Goto("lpa", p) \/ Count("lpa", p, k)
          PROVE  pc'["net"] = pc["net"] /\ pc'["lpa"].part \notin {"mark", "unmark", "deregister"}
      BY <1>1, <3>2, LpaGoesTo DEF At
    <3> QED BY <1>4, <3>1, <3>2
  <2>5. ~Gives("net")' /\ ~Gives("lpa")' BY <1>1, <2>2, <2>4 DEF Gives, Deregs, At
  <2> QED BY <1>1, <1>3, <2>1, <2>3, <2>4, <2>5 DEF TkoWays
<1> QED BY <1>2, <1>6 DEF TkoInv, TkoWays

\* Inside the offload's function, on its way to sleep, the flag is off, and the
\* device is once it was switched on.
LEMMA InsideSleep ==
  ASSUME PcInv, Ranges, TkoWays, TkoFaults \cap faults = {}, NEW part,
         At("lpa", "sleep", "tko", part), part # "start"
  PROVE  /\ "tko" \in ctx /\ ~Gives("net") /\ tkoOn # TRUE
         /\ Gives("lpa") => part \in {"unmark", "deregister"}
         /\ LpaMarks => part = "mark"
         /\ "tkoToggle" \notin faults /\ tkoDev.on => part \in {"register", "mark"}
<1>1. pc["lpa"] \in Place /\ cfg \in Configs BY DEF PcInv, PcType, Threads
<1>2. pc["lpa"].i \in DOMAIN cfg.list BY <1>1, ListFacts DEF Ranges, Threads, At, Place
<1>3. \A down, up : Past(cfg.list, pc["lpa"], "tko", down, up) <=> part \in down
  BY <1>1, <1>2, PastHere DEF At
<1>4. InSleep("tko") BY DEF InSleep, Inside, At, Walking
<1> QED BY <1>3, <1>4 DEF TkoWays, Told, Gives, Deregs, LpaMarks, At

\* The dispatching thread goes on inside it, to a part before the last.
LEMMA TkoOnward ==
  ASSUME PcInv, Ranges, TkoInv, NEW part \in Parts \ {"start", "mark", "unmark", "deregister"},
         NEW p \in Parts \ {"start", "mark", "unmark", "deregister"}, NEW k \in Nat,
         At("lpa", "sleep", "tko", part), Goto("lpa", p) \/ Count("lpa", p, k),
         UNCHANGED <<cfg, ctx, table, tkoOn, tkoEntry>>, faults \subseteq faults', SwitchType',
         TkoFaults \cap faults' = {} /\ "tkoToggle" \notin faults' /\ tkoDev'.on =>
           p = "register" \/ (tkoDev.on /\ part # "register")
  PROVE  TkoInv'
<1>1. TableType' /\ SwitchType' BY DEF TkoInv, TableType
<1>2. ASSUME TkoFaults \cap faults' = {} PROVE TkoWays'
  <2>0. TkoFaults \cap faults = {} BY <1>2
  <2>1. /\ "tko" \in ctx /\ ~Gives("net") /\ tkoOn # TRUE /\ ~Gives("lpa") /\ ~LpaMarks
        /\ "tkoToggle" \notin faults /\ tkoDev.on => part = "register"
    BY <2>0, InsideSleep DEF TkoInv
  <2>2. \A s \in Slots : table[s] # "tko"
    BY <2>0, <2>1 DEF TkoInv, TkoWays, Owing, SwitchType
  <2>3. /\ pc'["net"] = pc["net"] /\ At("lpa", "sleep", "tko", p)'
        /\ \A down, up : Past(cfg'.list, pc'["lpa"], "tko", down, up) <=> p \in down
    BY LpaGoesTo
  <2>4. ~Gives("net")' /\ ~Gives("lpa")' /\ ~LpaMarks'
    BY <2>1, <2>3 DEF Gives, Deregs, LpaMarks, At
  <2>5. tkoOn' # TRUE BY <2>1
  <2>6. "tkoToggle" \notin faults' /\ tkoDev'.on => p = "register"
    BY <1>2, <2>1
  <2> QED BY <2>1, <2>2, <2>3, <2>4, <2>5, <2>6, <1>1 DEF TkoWays, Told, SwitchType
<1> QED BY <1>1, <1>2 DEF TkoInv, TkoWays

\* A connection that is looked up and handed over changes neither the switch nor the
\* table of handlers.
LEMMA TkoActivateKeeps ==
  ASSUME PcInv, Ranges, TkoInv, NEW part \in {"activate", "found"}, TkoActivate(part)
  PROVE  TkoInv'
<1>1. /\ At("lpa", "sleep", "tko", part)
      /\ UNCHANGED <<cfg, ctx, table, tkoOn, tkoEntry>>
  BY DEF TkoActivate
<1>2. faults \subseteq faults' BY FaultsGrow DEF TkoActivate
<1>3. tkoDev'.on = tkoDev.on /\ SwitchType'
  <2>1. CASE tkoDev' = tkoDev BY <1>1, <2>1 DEF TkoInv, SwitchType
  <2>2. CASE \E k, r : tkoDev' = [tkoDev EXCEPT !.conns[k] = r]
    BY <1>1, <2>2 DEF TkoInv, SwitchType
  <2> QED BY <2>1, <2>2 DEF TkoActivate
<1>4. pc["lpa"].k \in Nat BY DEF PcInv, PcType, Threads, Place
<1>5. pc["lpa"].k + 1 \in Nat BY <1>4
<1>6. \E p \in {"activate", "found"} : Count("lpa", p, pc["lpa"].k + 1) BY DEF TkoActivate
<1> QED BY <1>1, <1>2, <1>3, <1>5, <1>6, TkoOnward DEF Parts

\* Switched on, the device is told to stop by the wake-up that is yet to come.
LEMMA TkoToggleOnKeeps ==
  ASSUME PcInv, Ranges, TkoInv, TkoToggleOn
  PROVE  TkoInv'
<1>1. /\ At("lpa", "sleep", "tko", "enable") /\ Goto("lpa", "register")
      /\ UNCHANGED <<cfg, ctx, table, tkoOn, tkoEntry>>
  BY DEF TkoToggleOn
<1>2. faults \subseteq faults' BY FaultsGrow DEF TkoToggleOn
<1>3. PICK ok \in BOOLEAN : tkoDev' = [tkoDev EXCEPT !.on = @ \/ ok] BY DEF TkoToggleOn
<1>4. tkoDev'.on = (tkoDev.on \/ ok) /\ tkoDev' = [on |-> tkoDev'.on, conns |-> tkoDev'.conns]
  BY <1>3 DEF TkoInv, SwitchType
<1>5. SwitchType' BY <1>1, <1>4 DEF TkoInv, SwitchType
<1>6. 0 \in Nat OBVIOUS
<1> QED BY <1>1, <1>2, <1>5, <1>6, TkoOnward DEF Parts

\* Every connection was looked up: either none was found, or the device is switched on.
LEMMA TkoActivatedKeeps ==
  ASSUME PcInv, Ranges, TkoInv, TkoActivated
  PROVE  TkoInv'
<1>1. /\ UNCHANGED <<cfg, ctx, table, faults, tkoOn, tkoEntry, tkoDev>>
      /\ \/ At("lpa", "sleep", "tko", "activate") /\ NextOffload("lpa")
         \/ At("lpa", "sleep", "tko", "found") /\ Goto("lpa", "enable")
  BY DEF TkoActivated, tko
<1>2. TableType' /\ SwitchType' BY <1>1 DEF TkoInv, TableType, SwitchType
<1>3. CASE At("lpa", "sleep", "tko", "found") /\ Goto("lpa", "enable")
  <2>1. 0 \in Nat OBVIOUS
  <2> QED BY <1>1, <1>2, <1>3, <2>1, TkoOnward DEF Parts
<1>4. CASE At("lpa", "sleep", "tko", "activate") /\ NextOffload("lpa")
  <2> SUFFICES ASSUME TkoFaults \cap faults = {} PROVE TkoWays'
    BY <1>1, <1>2 DEF TkoInv, TkoWays
  <2>1. /\ "tko" \in ctx /\ ~Gives("net") /\ tkoOn # TRUE /\ ~Gives("lpa") /\ ~LpaMarks
        /\ "tkoToggle" \notin faults => ~tkoDev.on
    <3>1. "activate" # "start" /\ "activate" # "mark" /\ "activate" \notin {"unmark", "deregister"}
          /\ "activate" \notin {"register", "mark"}
      OBVIOUS
    <3>2. TkoWays BY DEF TkoInv
    <3> QED BY <1>4, <3>1, <3>2, InsideSleep
  <2>2. \A s \in Slots : table[s] # "tko"
    BY <2>1 DEF TkoInv, TkoWays, Owing, SwitchType
  <2>3. pc'["net"] = pc["net"] /\ pc'["lpa"].part = "start" BY <1>1, <1>4, LpaGoesOn
  <2>4. ~Gives("net")' /\ ~Gives("lpa")' /\ ~InSleep("tko")'
    BY <1>1, <2>1, <2>3 DEF Gives, Deregs, At, InSleep, Inside
  <2> QED BY <1>1, <1>2, <2>1, <2>2, <2>4 DEF TkoWays, SwitchType
<1> QED BY <1>1, <1>3, <1>4

\* No entry is the offload's when it registers its handler, so that it gets one of
\* its own.
LEMMA TkoRegisterKeeps ==
  ASSUME PcInv, Ranges, TkoInv, TkoRegister
  PROVE  TkoInv'
<1>1. /\ At("lpa", "sleep", "tko", "register") /\ Goto("lpa", "mark")
      /\ UNCHANGED <<cfg, ctx, tkoOn, tkoDev>>
  BY DEF TkoRegister
<1>2. PICK e : Register("tko", tkoEntry, e) /\ tkoEntry' = e BY DEF TkoRegister
<1>3. /\ TableType' /\ faults \subseteq faults'
      /\ \A s \in Slots : s # e /\ table'[s] = "tko" => table[s] = "tko"
  BY <1>2, Registers DEF TkoInv, Clients
<1>4. SwitchType' BY <1>1 DEF TkoInv, SwitchType
<1>5. ASSUME TkoFaults \cap faults' = {} PROVE TkoWays'
  <2>1. /\ "tko" \in ctx /\ ~Gives("net") /\ tkoOn # TRUE /\ ~Gives("lpa") /\ ~LpaMarks
    <3>1. TkoWays /\ TkoFaults \cap faults = {} BY <1>3, <1>5 DEF TkoInv
    <3>2. "register" # "start" /\ "register" # "mark"
          /\ "register" \notin {"unmark", "deregister"}
      OBVIOUS
    <3> QED BY <1>1, <3>1, <3>2, InsideSleep
  <2>2. \A s \in Slots : table[s] # "tko"
    BY <1>3, <1>5, <2>1 DEF TkoInv, TkoWays, Owing, SwitchType
  <2>3. /\ pc'["net"] = pc["net"] /\ At("lpa", "sleep", "tko", "mark")'
        /\ \A down, up : Past(cfg'.list, pc'["lpa"], "tko", down, up) <=> "mark" \in down
    <3>1. 0 \in Nat OBVIOUS
    <3> QED BY <1>1, <3>1, LpaGoesTo DEF Parts
  <2>4. ~Gives("net")' /\ ~Gives("lpa")' /\ LpaMarks'
    BY <1>1, <2>1, <2>3 DEF Gives, Deregs, LpaMarks, At
  <2>5. \A s \in Slots : table'[s] = "tko" => s = tkoEntry' BY <1>2, <1>3, <2>2
  <2> QED BY <1>1, <2>1, <2>3, <2>4, <2>5 DEF TkoWays, Told, Owing
<1> QED BY <1>3, <1>4, <1>5 DEF TkoInv, TkoWays

\* The flag goes up when the offload is left behind.
LEMMA TkoMarkKeeps ==
  ASSUME PcInv, Ranges, TkoInv, TkoMark
  PROVE  TkoInv'
<1>1. /\ At("lpa", "sleep", "tko", "mark") /\ NextOffload("lpa")
      /\ UNCHANGED <<cfg, ctx, table, faults, tkoEntry, tkoDev>> /\ tkoOn' = TRUE
  BY DEF TkoMark
<1>2. TableType' /\ SwitchType' BY <1>1 DEF TkoInv, TableType, SwitchType
<1> SUFFICES ASSUME TkoFaults \cap faults = {} PROVE TkoWays'
  BY <1>1, <1>2 DEF TkoInv, TkoWays
<1>3. "tko" \in ctx /\ ~Gives("net") /\ ~Gives("lpa")
  <2>1. "mark" # "start" /\ "mark" \notin {"unmark", "deregister"} OBVIOUS
  <2>2. TkoWays BY DEF TkoInv
  <2> QED BY <1>1, <2>1, <2>2, InsideSleep
<1>4. \A s \in Slots : table[s] = "tko" => s = tkoEntry BY DEF TkoInv, TkoWays
<1>5. /\ pc'["net"] = pc["net"] /\ pc'["lpa"].part = "start"
      /\ \A down, up : Past(cfg'.list, pc'["lpa"], "tko", down, up)
  BY <1>1, LpaGoesOn
<1>6. ~Gives("net")' /\ ~Gives("lpa")' /\ ~Deregs("net")' /\ ~InSleep("tko")'
  BY <1>1, <1>3, <1>5 DEF Gives, Deregs, At, InSleep, Inside
<1> QED BY <1>1, <1>3, <1>4, <1>5, <1>6 DEF TkoWays, Told, Owing

\* A thread that disables the offload sees the flag set before or after the other
\* one has cleared it; when both see it set it is noted.
LEMMA TkoDisableKeeps ==
  ASSUME PcInv, Ranges, TkoInv, NEW t \in Threads, TkoDisable(t)
  PROVE  TkoInv'
<1>1. /\ At(t, pc[t].at, "tko", "start") /\ <<t, pc[t].at>> \in Disabling
      /\ UNCHANGED <<cfg, ctx, table, tkoOn, tkoEntry, tkoDev>> /\ faults \subseteq faults'
      /\ \/ "tko" \notin ctx /\ NextOffload(t)
         \/ /\ "tko" \in ctx
            /\ \/ tkoOn = TRUE /\ Goto(t, "unmark")
                  /\ (pc[Other(t)].part = "unmark" => "tkoTwice" \in faults')
               \/ tkoOn # TRUE /\ Goto(t, "toggle")
  BY FaultsGrow DEF TkoDisable, TkoInv, SwitchType, Note, tko
<1>2. TableType' /\ SwitchType' BY <1>1 DEF TkoInv, TableType, SwitchType
<1>int. 0 \in Nat OBVIOUS
<1> SUFFICES ASSUME TkoFaults \cap faults' = {} PROVE TkoWays'
  BY <1>1, <1>2 DEF TkoInv, TkoWays
<1>ways. /\ tkoOn => Told("tko", {}, {"start", "unmark"}) /\ ~Deregs("net")
         /\ \A s \in Slots : table[s] = "tko" => s = tkoEntry /\ Owing
         /\ "tkoToggle" \notin faults /\ tkoDev.on =>
              Told("tko", {"register", "mark"}, {"start", "unmark", "deregister", "toggle"})
         /\ InSleep("tko") => "tko" \in ctx /\ ~Gives("net")
         /\ "tkoTwice" \notin faults => ~Gives("lpa") \/ ~Gives("net")
  BY <1>1 DEF TkoInv, TkoWays
<1>none. ~Gives(t) BY <1>1 DEF Gives, Deregs, At
<1>3. CASE t = "lpa"
  <2>1. At("lpa", "awake", "tko", "start") /\ ~Gives("lpa") /\ ~LpaMarks
    BY <1>1, <1>3, <1>none DEF Disabling, At, LpaMarks
  <2>2. CASE "tko" \notin ctx
    <3>1. pc'["net"] = pc["net"] /\ pc'["lpa"].part = "start"
      BY <1>1, <1>3, <2>1, <2>2, LpaGoesOn
    <3>2. Gives("net")' = Gives("net") /\ ~Gives("lpa")' /\ ~InSleep("tko")'
      BY <1>1, <3>1 DEF Gives, Deregs, At, InSleep, Inside
    <3>3. tkoOn' # TRUE /\ tkoOn # TRUE BY <1>1, <1>ways, <2>2 DEF Told
    <3>4. "tkoToggle" \notin faults' => tkoDev'.on # TRUE BY <1>1, <1>ways, <2>2 DEF Told
    <3>5. \A s \in Slots : table[s] = "tko" => s = tkoEntry /\ Gives("net")
      BY <1>ways, <2>1, <3>3 DEF Owing, TkoInv, SwitchType
    <3> QED BY <1>1, <1>2, <3>2, <3>3, <3>4, <3>5 DEF TkoWays, Owing, SwitchType
  <2>3. ASSUME "tko" \in ctx, NEW p \in {"unmark", "toggle"}, Goto("lpa", p),
               p = "unmark" <=> tkoOn = TRUE,
               p = "unmark" /\ pc["net"].part = "unmark" => "tkoTwice" \in faults'
        PROVE  TkoWays'
    <3>1. /\ pc'["net"] = pc["net"] /\ At("lpa", "awake", "tko", p)'
          /\ \A down, up : Past(cfg'.list, pc'["lpa"], "tko", down, up) <=> p \in up
      BY <1>1, <1>int, <2>1, <2>3, LpaGoesTo DEF Parts
    <3>2. Gives("net")' = Gives("net") /\ Deregs("net")' = Deregs("net")
          /\ (Gives("lpa")' <=> p = "unmark") /\ ~InSleep("tko")'
      BY <1>1, <3>1 DEF Gives, Deregs, At, InSleep, Inside
    <3>3. p = "unmark" /\ Gives("net") => "tkoTwice" \in faults'
      BY <1>ways, <2>3 DEF Gives, At
    <3>4. \A s \in Slots : table[s] = "tko" => s = tkoEntry /\ (tkoOn = TRUE \/ Gives("net"))
      BY <1>ways, <2>1 DEF Owing, TkoInv, SwitchType
    <3>5. tkoOn' => Told("tko", {}, {"start", "unmark"})' /\ ~Deregs("net")'
      BY <1>1, <1>ways, <2>3, <3>1, <3>2 DEF Told
    <3>6. "tkoToggle" \notin faults' /\ tkoDev'.on =>
            Told("tko", {"register", "mark"}, {"start", "unmark", "deregister", "toggle"})'
      BY <1>1, <1>ways, <3>1 DEF Told
    <3>7. "tkoTwice" \notin faults' => ~Gives("lpa")' \/ ~Gives("net")'
      BY <3>2, <3>3
    <3>8. \A s \in Slots : table'[s] = "tko" => s = tkoEntry' /\ Owing'
      BY <1>1, <2>3, <3>2, <3>4 DEF Owing
    <3> QED BY <3>2, <3>5, <3>6, <3>7, <3>8 DEF TkoWays
  <2> QED BY <1>1, <1>3, <2>2, <2>3 DEF Other
<1>4. CASE t = "net"
  <2>1. ~Gives("net") BY <1>4, <1>none
  <2>2. CASE "tko" \notin ctx
    <3>1. pc'["lpa"] = pc["lpa"] /\ pc'["net"].part = "start"
      BY <1>1, <1>4, <2>2, NetGoesOn
    <3>2. ~Gives("net")' /\ Gives("lpa")' = Gives("lpa") /\ LpaMarks' = LpaMarks
          /\ InSleep("tko")' = InSleep("tko")
      BY <1>1, <3>1 DEF Gives, Deregs, At, InSleep, Inside, LpaMarks
    <3>3. tkoOn' # TRUE /\ tkoOn # TRUE BY <1>1, <1>ways, <2>2 DEF Told
    <3>4. "tkoToggle" \notin faults' => tkoDev'.on # TRUE BY <1>1, <1>ways, <2>2 DEF Told
    <3>5. \A s \in Slots : table[s] = "tko" => s = tkoEntry /\ (Gives("lpa") \/ LpaMarks)
      BY <1>ways, <2>1, <3>3 DEF Owing, TkoInv, SwitchType
    <3> QED BY <1>1, <1>2, <1>ways, <3>2, <3>3, <3>4, <3>5 DEF TkoWays, Owing, SwitchType
  <2>3. ASSUME "tko" \in ctx, NEW p \in {"unmark", "toggle"}, Goto("net", p),
               p = "unmark" <=> tkoOn = TRUE,
               p = "unmark" /\ pc["lpa"].part = "unmark" => "tkoTwice" \in faults'
        PROVE  TkoWays'
    <3>1. /\ pc'["lpa"] = pc["lpa"] /\ At("net", pc["net"].at, "tko", p)'
      <4>1. PICK at : At("net", at, "tko", "start") BY <1>1, <1>4
      <4>2. pc'["lpa"] = pc["lpa"] /\ At("net", at, "tko", p)'
        BY <1>1, <2>3, <4>1, NetGoesTo DEF Parts
      <4> QED BY <4>2 DEF At
    <3>2. /\ Gives("net")' <=> p = "unmark"
          /\ ~Deregs("net")'
          /\ Gives("lpa")' = Gives("lpa") /\ LpaMarks' = LpaMarks
          /\ InSleep("tko")' = InSleep("tko")
      BY <1>1, <3>1 DEF Gives, Deregs, At, InSleep, Inside, LpaMarks
    <3>3. p = "unmark" => ~InSleep("tko") /\ ~Deregs("lpa")
      <4> SUFFICES ASSUME p = "unmark", InSleep("tko") \/ Deregs("lpa") PROVE FALSE
        OBVIOUS
      <4>1. pc["lpa"] \in Place /\ cfg \in Configs BY DEF PcInv, PcType, Threads
      <4>2. Past(cfg.list, pc["lpa"], "tko", {}, {"start", "unmark"}) BY <1>ways, <2>3 DEF Told
      <4>3. pc["lpa"].part # "start" /\ pc["lpa"].i <= pc["lpa"].last
            /\ cfg.list[pc["lpa"].i] = "tko"
            /\ (pc["lpa"].at = "sleep" \/ pc["lpa"].part = "deregister")
        BY DEF InSleep, Inside, Deregs, At
      <4>4. pc["lpa"].at \in {"sleep", "awake"} \/ pc["lpa"].at \notin {"sleep", "asleep", "awake"}
        BY <4>3 DEF PcInv, LpaParts
      <4>5. pc["lpa"].i \in DOMAIN cfg.list BY <4>1, <4>3, ListFacts DEF Ranges, Threads, Place
      <4>6. CASE pc["lpa"].at \in {"sleep", "awake"}
        BY <4>1, <4>2, <4>3, <4>5, <4>6, PastHere
      <4>7. CASE pc["lpa"].at \notin {"sleep", "asleep", "awake"} BY <4>2, <4>7 DEF Past
      <4> QED BY <4>4, <4>6, <4>7
    <3>4. \A s \in Slots : table[s] = "tko" =>
            s = tkoEntry /\ (tkoOn = TRUE \/ Gives("lpa") \/ LpaMarks)
      BY <1>ways, <2>1 DEF Owing, TkoInv, SwitchType
    <3>5. \A down, up : Told("tko", down, up)' = Told("tko", down, up)
      BY <1>1, <3>1 DEF Told
    <3>6. "tkoTwice" \notin faults' => ~Gives("lpa")' \/ ~Gives("net")'
      BY <2>3, <3>2, <3>3 DEF Gives, At
    <3>7. \A s \in Slots : table'[s] = "tko" => s = tkoEntry' /\ Owing'
      BY <1>1, <2>3, <3>2, <3>4 DEF Owing
    <3>8. InSleep("tko")' => "tko" \in ctx' /\ ~Gives("net")'
      BY <1>1, <2>3, <3>2, <3>3
    <3> QED BY <1>1, <1>ways, <3>2, <3>5, <3>6, <3>7, <3>8 DEF TkoWays
  <2> QED BY <1>1, <1>4, <2>2, <2>3 DEF Other
<1> QED BY <1>3, <1>4 DEF Threads

\* A thread inside the offload is on its walk, and once it has cleared the flag the
\* flag is off when it is the dispatching one.
LEMMA InsideTko ==
  ASSUME PcInv, Ranges, NEW t \in Threads, NEW part \in {"unmark", "deregister", "toggle"},
         At(t, pc[t].at, "tko", part)
  PROVE  /\ pc[t].at \in Walking
         /\ t = "lpa" => /\ pc["lpa"].at \in {"sleep", "awake"}
                         /\ part # "unmark" =>
                              ~Past(cfg.list, pc["lpa"], "tko", {}, {"start", "unmark"})
                         /\ pc["lpa"].at = "sleep" =>
                              ~Past(cfg.list, pc["lpa"], "tko", {"register", "mark"},
                                    {"start", "unmark", "deregister", "toggle"})
<1>1. pc[t] \in Place /\ cfg \in Configs BY DEF PcInv, PcType
<1>2. pc[t].at \in Walking
  BY DEF PcInv, LpaParts, Ranges, NetRests, At, Walking, Threads
<1>3. pc[t].i \in DOMAIN cfg.list BY <1>1, ListFacts DEF Ranges, At, Place
<1>4. t = "lpa" => pc["lpa"].at \in {"sleep", "awake"} BY <1>2 DEF Walking, PcInv, LpaParts
<1>5. ASSUME t = "lpa"
      PROVE  /\ part # "unmark" =>
                  ~Past(cfg.list, pc["lpa"], "tko", {}, {"start", "unmark"})
             /\ pc["lpa"].at = "sleep" =>
                  ~Past(cfg.list, pc["lpa"], "tko", {"register", "mark"},
                        {"start", "unmark", "deregister", "toggle"})
  BY <1>1, <1>3, <1>4, <1>5, PastHere, SMTT(40) DEF At
<1> QED BY <1>2, <1>4, <1>5

\* A thread that gives the entry back goes on inside whd_tko_disable: the other stays
\* where it is, and the device is still told of the wake-up.
LEMMA GivesOn ==
  ASSUME PcInv, Ranges, TkoWays, TkoFaults \cap faults = {}, UNCHANGED <<cfg, ctx>>,
         NEW t \in Threads, NEW part \in {"unmark", "deregister"}, At(t, pc[t].at, "tko", part),
         NEW p \in {"deregister", "toggle"}, Goto(t, p)
  PROVE  /\ \A u \in Threads : u # t => Gives(u)' = Gives(u) /\ Deregs(u)' = Deregs(u)
         /\ Gives(t) /\ (Gives(t)' <=> p = "deregister")
         /\ InSleep("tko")' => InSleep("tko") /\ t # "net"
         /\ ~LpaMarks'
         /\ Told("tko", {"register", "mark"}, {"start", "unmark", "deregister", "toggle"}) =>
              Told("tko", {"register", "mark"}, {"start", "unmark", "deregister", "toggle"})'
<1>1. Gives(t) BY DEF Gives, Deregs, At
<1>inside. t = "lpa" => /\ pc["lpa"].at \in {"sleep", "awake"}
                        /\ pc["lpa"].at = "sleep" =>
                             ~Past(cfg.list, pc["lpa"], "tko", {"register", "mark"},
                                   {"start", "unmark", "deregister", "toggle"})
  BY InsideTko
<1>int. 0 \in Nat OBVIOUS
<1>parts. p \in Parts BY DEF Parts
<1>2. CASE t = "lpa"
  <2>1. PICK at \in {"sleep", "awake"} : pc["lpa"].at = at /\ At("lpa", at, "tko", part)
    BY <1>2, <1>inside
  <2>2. /\ pc'["net"] = pc["net"] /\ At("lpa", at, "tko", p)'
        /\ \A down, up :
             Past(cfg'.list, pc'["lpa"], "tko", down, up)
               <=> (IF at = "sleep" THEN p \in down ELSE p \in up)
    BY <1>2, <1>int, <1>parts, <2>1, LpaGoesTo
  <2>3. Gives("net")' = Gives("net") /\ Deregs("net")' = Deregs("net")
        /\ (Gives("lpa")' <=> p = "deregister") /\ ~LpaMarks'
    BY <2>2 DEF Gives, Deregs, LpaMarks, At
  <2>4. InSleep("tko")' => InSleep("tko")
    BY <2>1, <2>2 DEF InSleep, Inside, At, Walking
  <2>5. Told("tko", {"register", "mark"}, {"start", "unmark", "deregister", "toggle"}) =>
          Told("tko", {"register", "mark"}, {"start", "unmark", "deregister", "toggle"})'
    BY <1>2, <1>inside, <2>1, <2>2 DEF Told
  <2> QED BY <1>1, <1>2, <2>3, <2>4, <2>5 DEF Threads
<1>3. CASE t = "net"
  <2>1. pc'["lpa"] = pc["lpa"] /\ At("net", pc["net"].at, "tko", p)'
    <3>1. PICK at : At("net", at, "tko", part) BY <1>3
    <3>2. pc'["lpa"] = pc["lpa"] /\ At("net", at, "tko", p)'
      BY <1>3, <1>parts, <3>1, NetGoesTo
    <3> QED BY <3>2 DEF At
  <2>2. Gives("lpa")' = Gives("lpa") /\ Deregs("lpa")' = Deregs("lpa")
        /\ (Gives("net")' <=> p = "deregister")
    BY <2>1 DEF Gives, Deregs, At
  <2>3. ~InSleep("tko") BY <1>1, <1>3 DEF TkoWays
  <2>4. ~InSleep("tko")' BY <2>1, <2>3 DEF InSleep, Inside
  <2>5. ~LpaMarks' BY <2>1, <2>3 DEF LpaMarks, InSleep, Inside, At, Walking
  <2>6. \A down, up : Told("tko", down, up)' = Told("tko", down, up) BY <2>1 DEF Told
  <2> QED BY <1>1, <1>3, <2>2, <2>4, <2>5, <2>6 DEF Threads
<1> QED BY <1>2, <1>3 DEF Threads

\* It clears the flag,
LEMMA TkoUnmarkKeeps ==
  ASSUME PcInv, Ranges, TkoInv, NEW t \in Threads, TkoUnmark(t)
  PROVE  TkoInv'
<1>1. /\ At(t, pc[t].at, "tko", "unmark") /\ Goto(t, "deregister") /\ tkoOn' = FALSE
      /\ UNCHANGED <<cfg, ctx, table, faults, tkoEntry, tkoDev>>
  BY DEF TkoUnmark
<1>2. TableType' /\ SwitchType' BY <1>1 DEF TkoInv, TableType, SwitchType
<1> SUFFICES ASSUME TkoFaults \cap faults = {} PROVE TkoWays'
  BY <1>1, <1>2 DEF TkoInv, TkoWays
<1>3. /\ \A u \in Threads : u # t => Gives(u)' = Gives(u)
      /\ Gives(t) /\ Gives(t)'
      /\ InSleep("tko")' => InSleep("tko") /\ t # "net"
      /\ Told("tko", {"register", "mark"}, {"start", "unmark", "deregister", "toggle"}) =>
           Told("tko", {"register", "mark"}, {"start", "unmark", "deregister", "toggle"})'
  BY <1>1, GivesOn DEF TkoInv
<1>4. Owing' BY <1>3 DEF Owing, Threads
<1> QED BY <1>1, <1>3, <1>4 DEF TkoInv, TkoWays, Threads

\* and gives the entry back, which is then nobody's to give back unless both threads
\* have seen the flag set.
LEMMA TkoDeregisterKeeps ==
  ASSUME PcInv, Ranges, TkoInv, NEW t \in Threads, TkoDeregister(t)
  PROVE  TkoInv' /\ ((TkoFaults \cup {"tkoTwice"}) \cap faults = {} => ~Owing')
<1>1. /\ At(t, pc[t].at, "tko", "deregister") /\ Goto(t, "toggle") /\ Deregister(tkoEntry)
      /\ UNCHANGED <<cfg, ctx, faults, tkoOn, tkoEntry, tkoDev>>
  BY DEF TkoDeregister, tko
<1>2. /\ TableType' /\ SwitchType'
      /\ \A s \in Slots : table'[s] = IF s = tkoEntry THEN Free ELSE table[s]
  BY <1>1, Deregisters DEF TkoInv, SwitchType
<1> SUFFICES ASSUME TkoFaults \cap faults = {}
             PROVE  TkoWays' /\ ("tkoTwice" \notin faults => ~Owing')
  BY <1>1, <1>2 DEF TkoInv, TkoWays
<1>3. /\ \A u \in Threads : u # t => Gives(u)' = Gives(u) /\ Deregs(u)' = Deregs(u)
      /\ Gives(t) /\ ~Gives(t)'
      /\ InSleep("tko")' => InSleep("tko") /\ t # "net"
      /\ ~LpaMarks'
      /\ Told("tko", {"register", "mark"}, {"start", "unmark", "deregister", "toggle"}) =>
           Told("tko", {"register", "mark"}, {"start", "unmark", "deregister", "toggle"})'
  BY <1>1, GivesOn DEF TkoInv
<1>ways. /\ tkoOn => Told("tko", {}, {"start", "unmark"}) /\ ~Deregs("net")
         /\ \A s \in Slots : table[s] = "tko" => s = tkoEntry
         /\ "tkoToggle" \notin faults /\ tkoDev.on =>
              Told("tko", {"register", "mark"}, {"start", "unmark", "deregister", "toggle"})
         /\ InSleep("tko") => "tko" \in ctx /\ ~Gives("net")
         /\ "tkoTwice" \notin faults => ~Gives("lpa") \/ ~Gives("net")
  BY DEF TkoInv, TkoWays
<1>4. \A s \in Slots : table'[s] # "tko" BY <1>2, <1>ways DEF Free
<1>5. tkoOn # TRUE
  <2>1. CASE t = "lpa" BY <1>1, <1>ways, <2>1, InsideTko DEF Told
  <2>2. CASE t = "net" BY <1>1, <1>ways, <2>2 DEF Deregs
  <2> QED BY <2>1, <2>2 DEF Threads
<1>6. "tkoTwice" \notin faults => ~Owing'
  BY <1>1, <1>3, <1>5, <1>ways DEF Owing, Threads, TkoInv, SwitchType
<1>7. TkoWays' BY <1>1, <1>3, <1>4, <1>5, <1>ways DEF TkoWays, Threads
<1> QED BY <1>6, <1>7

\* The device is switched off, or the command has failed.
LEMMA TkoToggleOffKeeps ==
  ASSUME PcInv, Ranges, TkoInv, NEW t \in Threads, TkoToggleOff(t)
  PROVE  TkoInv'
<1>1. /\ At(t, pc[t].at, "tko", "toggle") /\ NextOffload(t)
      /\ UNCHANGED <<cfg, ctx, table, tkoOn, tkoEntry>>
  BY DEF TkoToggleOff
<1>2. PICK ok \in BOOLEAN :
        /\ Command(ok, "tkoToggle")
        /\ tkoDev' = IF ok THEN [on |-> FALSE, conns |-> [k \in 1 .. MaxTko |-> NoRecord]]
                           ELSE tkoDev
  BY DEF TkoToggleOff
<1>3. faults \subseteq faults' /\ (ok \/ "tkoToggle" \in faults')
  BY <1>2, FaultsGrow DEF Command, Faulty
<1>4. SwitchType' BY <1>1, <1>2 DEF TkoInv, SwitchType
<1>5. TableType' BY <1>1 DEF TkoInv, TableType
<1>6. "tkoToggle" \notin faults' => tkoDev'.on # TRUE BY <1>2, <1>3
<1> SUFFICES ASSUME TkoFaults \cap faults' = {} PROVE TkoWays'
  BY <1>4, <1>5 DEF TkoInv, TkoWays
<1>ways. /\ tkoOn => Told("tko", {}, {"start", "unmark"}) /\ ~Deregs("net")
         /\ \A s \in Slots : table[s] = "tko" => s = tkoEntry /\ Owing
         /\ InSleep("tko") => "tko" \in ctx /\ ~Gives("net")
         /\ "tkoTwice" \notin faults => ~Gives("lpa") \/ ~Gives("net")
  BY <1>3 DEF TkoInv, TkoWays
<1>inside. /\ pc[t].at \in Walking
           /\ t = "lpa" => /\ pc["lpa"].at \in {"sleep", "awake"}
                           /\ ~Past(cfg.list, pc["lpa"], "tko", {}, {"start", "unmark"})
  BY <1>1, InsideTko
<1>7. CASE t = "lpa"
  <2>1. PICK at \in {"sleep", "awake"} : At("lpa", at, "tko", "toggle")
    BY <1>1, <1>7, <1>inside
  <2>2. pc'["net"] = pc["net"] /\ pc'["lpa"].part = "start"
    BY <1>1, <1>7, <2>1, LpaGoesOn
  <2>3. tkoOn # TRUE BY <1>7, <1>inside, <1>ways DEF Told
  <2>4. ~Gives("lpa") /\ ~LpaMarks BY <1>1, <1>7 DEF Gives, Deregs, LpaMarks, At
  <2>5. ~Gives("lpa")' /\ ~InSleep("tko")' /\ Gives("net")' = Gives("net")
    BY <1>1, <2>2 DEF Gives, Deregs, At, InSleep, Inside
  <2>6. ~tkoOn' BY <1>1, <2>3 DEF TkoInv, SwitchType
  <2>7. \A s \in Slots : table[s] = "tko" => s = tkoEntry /\ Gives("net")
    BY <1>ways, <2>3, <2>4 DEF Owing, TkoInv, SwitchType
  <2>8. "tkoToggle" \notin faults' => ~tkoDev'.on BY <1>4, <1>6 DEF SwitchType
  <2> QED BY <1>1, <2>5, <2>6, <2>7, <2>8 DEF TkoWays, Owing
<1>8. CASE t = "net"
  <2>1. pc'["lpa"] = pc["lpa"] /\ pc'["net"].part = "start" BY <1>1, <1>8, NetGoesOn
  <2>2. /\ Gives("lpa")' = Gives("lpa") /\ LpaMarks' = LpaMarks
        /\ InSleep("tko")' = InSleep("tko")
        /\ Told("tko", {}, {"start", "unmark"})' = Told("tko", {}, {"start", "unmark"})
        /\ ~Gives("net")' /\ ~Gives("net")
    BY <1>1, <1>8, <2>1 DEF Gives, Deregs, LpaMarks, At, InSleep, Inside, Told
  <2>3. "tkoToggle" \notin faults' => ~tkoDev'.on BY <1>4, <1>6 DEF SwitchType
  <2>4. ~Deregs("net")' BY <2>2 DEF Gives
  <2>5. Owing => Owing' BY <1>1, <2>2 DEF Owing
  <2> QED BY <1>1, <1>ways, <2>2, <2>3, <2>4, <2>5 DEF TkoWays
<1> QED BY <1>7, <1>8 DEF Threads

\* A step of the connection manager's thread in init.
LEMMA TkoInitKeeps ==
  ASSUME PcInv, Ranges, TkoInv, TkoInit \/ (InitClear("tko") /\ UNCHANGED tko)
  PROVE  TkoInv'
<1>1. /\ UNCHANGED <<cfg, table, tkoOn, tkoEntry, tkoDev>> /\ faults \subseteq faults'
      /\ ~Gives("net") /\ pc'["lpa"] = pc["lpa"] /\ ~Gives("net")'
      /\ "tko" \in ctx' \/ "tko" \notin ctx \/ "reinit" \in faults' \/ ~Suspended
  <2>1. CASE TkoInit
    <3>1. pc'["lpa"] = pc["lpa"] /\ pc'["net"].part = "start"
      BY <2>1, NetGoesOn DEF TkoInit
    <3> QED BY <2>1, <3>1 DEF TkoInit, HasContext, Gives, Deregs, At
  <2>2. CASE InitClear("tko") /\ UNCHANGED tko
    <3>1. pc'["lpa"] = pc["lpa"] /\ At("net", "init", "tko", "fill")'
      BY <2>2, NetGoesTo DEF InitClear, Parts
    <3>2. faults \subseteq faults' /\ ("reinit" \in faults' \/ ~Suspended)
      BY <2>2 DEF InitClear, Note
    <3> QED BY <2>2, <3>1, <3>2 DEF InitClear, Gives, Deregs, At, tko
  <2> QED BY <2>1, <2>2
<1>2. TableType' /\ SwitchType' BY <1>1 DEF TkoInv, TableType, SwitchType
<1> SUFFICES ASSUME TkoFaults \cap faults' = {} PROVE TkoWays'
  BY <1>2 DEF TkoInv, TkoWays
<1>ways. /\ tkoOn => Told("tko", {}, {"start", "unmark"})
         /\ \A s \in Slots : table[s] = "tko" => s = tkoEntry /\ Owing
         /\ "tkoToggle" \notin faults /\ tkoDev.on =>
              Told("tko", {"register", "mark"}, {"start", "unmark", "deregister", "toggle"})
         /\ InSleep("tko") => "tko" \in ctx
  BY <1>1 DEF TkoInv, TkoWays
<1>3. "tko" \in ctx' \/ "tko" \notin ctx \/ ~Suspended BY <1>1 DEF TkoFaults
<1>4. ASSUME NEW down, NEW up, Told("tko", down, up) PROVE Told("tko", down, up)'
  BY <1>1, <1>3, <1>4, NotPast DEF Told
<1>5. /\ LpaMarks' = LpaMarks /\ Gives("lpa")' = Gives("lpa") /\ InSleep("tko")' = InSleep("tko")
      /\ InSleep("tko") => Suspended
      /\ ~Deregs("net")'
  BY <1>1 DEF LpaMarks, Gives, Deregs, At, InSleep, Inside, Suspended
<1> QED BY <1>1, <1>2, <1>3, <1>4, <1>5, <1>ways DEF TkoWays, Owing, SwitchType

\* Whether the entry is still to be given back does not change by a step of the others.
LEMMA OwingApart ==
  ASSUME PcInv, Ranges, PcInv', Ranges', Apart("tko"), tkoOn' = tkoOn
  PROVE  /\ \A t \in Threads : (Gives(t)' <=> Gives(t)) /\ (Deregs(t)' <=> Deregs(t))
         /\ Owing' <=> Owing
<1>2. cfg' = cfg /\ \A t \in Threads : Inside(t, "tko") \/ Inside(t, "tko")' => pc'[t] = pc[t]
  BY DEF Apart
<1>5. ASSUME NEW t \in Threads PROVE (Gives(t)' <=> Gives(t)) /\ (Deregs(t)' <=> Deregs(t))
  <2>1. Gives(t) => Inside(t, "tko")
    BY DEF Gives, Deregs, At, Inside, PcInv, LpaParts, Ranges, NetRests, Walking, Threads
  <2>2. Gives(t)' => Inside(t, "tko")'
    BY DEF Gives, Deregs, At, Inside, PcInv, LpaParts, Ranges, NetRests, Walking, Threads
  <2> QED BY <1>2, <2>1, <2>2 DEF Gives, Deregs, At
<1>6. LpaMarks' <=> LpaMarks
  <2>1. LpaMarks => Inside("lpa", "tko") BY DEF LpaMarks, At, Inside, Walking
  <2>2. LpaMarks' => Inside("lpa", "tko")' BY DEF LpaMarks, At, Inside, Walking
  <2> QED BY <1>2, <2>1, <2>2 DEF LpaMarks, At, Threads
<1> QED BY <1>5, <1>6 DEF Owing, Threads

\* The steps of the others.
LEMMA TkoApart ==
  ASSUME PcInv, Ranges, PcInv', Ranges', TkoInv, Apart("tko"), TableType',
         UNCHANGED <<tkoOn, tkoEntry, tkoDev>>,
         \A s \in Slots : table'[s] = "tko" => table[s] = "tko"
  PROVE  TkoInv'
<1>1. SwitchType' BY DEF TkoInv, SwitchType
<1> SUFFICES ASSUME TkoFaults \cap faults' = {} PROVE TkoWays'
  BY <1>1 DEF TkoInv, TkoWays
<1>ways. /\ tkoOn => Told("tko", {}, {"start", "unmark"}) /\ ~Deregs("net")
         /\ \A s \in Slots : table[s] = "tko" => s = tkoEntry /\ Owing
         /\ "tkoToggle" \notin faults /\ tkoDev.on =>
              Told("tko", {"register", "mark"}, {"start", "unmark", "deregister", "toggle"})
         /\ InSleep("tko") => "tko" \in ctx /\ ~Gives("net")
         /\ "tkoTwice" \notin faults => ~Gives("lpa") \/ ~Gives("net")
  BY DEF TkoInv, TkoWays, Apart
<1>2. cfg' = cfg /\ faults \subseteq faults' /\ ("tko" \in ctx' <=> "tko" \in ctx)
  BY DEF Apart
<1>3. ASSUME NEW down, NEW up, "start" \notin down, "start" \in up
      PROVE  Told("tko", down, up)' <=> Told("tko", down, up)
  BY <1>3 DEF Apart, Told
<1>4. \A t \in Threads : Inside(t, "tko") \/ Inside(t, "tko")' => pc'[t] = pc[t]
  BY DEF Apart
<1>5. /\ \A t \in Threads : (Gives(t)' <=> Gives(t)) /\ (Deregs(t)' <=> Deregs(t))
      /\ Owing' <=> Owing
  BY OwingApart
<1>7. InSleep("tko")' <=> InSleep("tko")
  BY <1>2, <1>4 DEF InSleep, Inside, Threads
<1>8. /\ tkoOn' => Told("tko", {}, {"start", "unmark"})' /\ ~Deregs("net")'
      /\ InSleep("tko")' => "tko" \in ctx' /\ ~Gives("net")'
      /\ "tkoTwice" \notin faults' => ~Gives("lpa")' \/ ~Gives("net")'
  BY <1>2, <1>3, <1>5, <1>7, <1>ways DEF Threads
<1>9. \A s \in Slots : table'[s] = "tko" => s = tkoEntry' /\ Owing'
  BY <1>5, <1>ways
<1>10. "tkoToggle" \notin faults' /\ tkoDev'.on =>
         Told("tko", {"register", "mark"}, {"start", "unmark", "deregister", "toggle"})'
  <2>1. /\ "start" \notin {"register", "mark"}
        /\ "start" \in {"start", "unmark", "deregister", "toggle"}
    OBVIOUS
  <2> QED BY <1>2, <1>3, <1>ways, <2>1
<1> QED BY <1>8, <1>9, <1>10 DEF TkoWays

\* The others neither touch the offload's state nor register its handler.
LEMMA OthersLeaveTko ==
  ASSUME PcInv, TableType, [Next]_system, ~Own("tko")
  PROVE  /\ UNCHANGED tko /\ TableType'
         /\ \A s \in Slots : table'[s] = "tko" => table[s] = "tko"
<1>same. UNCHANGED table => /\ TableType'
                            /\ \A s \in Slots : table'[s] = "tko" => table[s] = "tko"
  BY DEF TableType
<1>1. CASE ManagerStep
  BY <1>1, <1>same DEF ManagerStep, Connect, Disconnect, LoopDone, Inactive, SleepDone, WakeUp,
     AwakeDone, OthersUnchanged
<1>2. CASE SocketsStep /\ UNCHANGED <<tko, tls, nat, ns>>
  BY <1>2, <1>same
  DEF SocketsStep, SocketCreate, Transfer, Close, TimeWaitEnds, BindFails, BindConnect,
      ConnectFails, Connected, SetOptions, SendFirst, env
<1>3. CASE TlsStep
  <2>1. CASE TlsRegister
    <3>1. PICK e : Register("tls", tlsEntry, e) BY <2>1 DEF TlsRegister
    <3>2. /\ TableType'
          /\ \A s \in Slots : table'[s] = "tko" => table[s] = "tko"
      BY <3>1, Registers DEF Clients
    <3> QED BY <2>1, <3>2 DEF TlsRegister
  <2>2. CASE TlsDeregister
    BY <2>2, Deregisters DEF TlsDeregister, Free
  <2>3. CASE TlsInit \/ TlsDeinit \/ TlsSleep \/ TlsPattern \/ TlsActivate \/ TlsCleanUp
    BY <2>3, <1>same DEF TlsInit, TlsDeinit, TlsSleep, TlsPattern, TlsActivate, TlsCleanUp
  <2>4. CASE TlsProtect \/ TlsWake \/ TlsRestore \/ TlsRelease \/ TlsClear
    BY <2>4, <1>same DEF TlsProtect, TlsWake, TlsRestore, TlsRelease, TlsClear
  <2>5. CASE DeviceSends \/ WakeEvent \/ TlsHandler
    BY <2>5, <1>same DEF DeviceSends, WakeEvent, TlsHandler
  <2>6. CASE \/ \E c \in Conns : ConfigClear(c) \/ SetPorts(c)
             \/ ConfigCopy \/ ConfigSocket \/ SetAddress
    BY <2>6, <1>same, SMTT(40) DEF ConfigClear, SetPorts, ConfigCopy, ConfigSocket, SetAddress
  <2> QED BY <1>3, <2>1, <2>2, <2>3, <2>4, <2>5, <2>6 DEF TlsStep
<1>4. CASE WowlStep
  BY <1>4, <1>same
  DEF WowlStep, WowlInit, WowlDeinit, WowlConfigure, WowlSet, WowlActivate, WowlUndo, WowlWake,
      WowlDelete, WowlDone, WowlVars
<1>5. CASE NatStep /\ UNCHANGED <<tcp, tko, tls, ns>>
  BY <1>5, <1>same
  DEF NatStep, NkoInit, NkoUnregister, NkoDisable, NkoForget, KeepAlivePm, AddressChanges,
      UpdateConfig, Details, Send, NullkoInit, NullkoDeinit
<1>6. CASE StackStep /\ UNCHANGED <<tcp, tko, tls>>
  BY <1>6, <1>same
  DEF StackStep, LwipSuspend, LwipResume, NetxSuspendIp, NetxStopTimers, NetxSuspendDhcp,
      NetxResumeDhcp, NetxResumeIp, BadState, DhcpChanges, StackVars
<1>7. CASE AppRegister /\ UNCHANGED <<tcp, tko, tls, nat, ns>>
  BY <1>7, FirstIsFree DEF AppRegister, TableType, Clients
<1>8. CASE (\E o \in Offloads : InitClear(o)) /\ UNCHANGED <<tcp, tko, tls, nat, ns>>
  BY <1>8, <1>same DEF InitClear
<1>9. CASE UNCHANGED system BY <1>9, <1>same DEF system, env
<1> QED BY <1>1, <1>2, <1>3, <1>4, <1>5, <1>6, <1>7, <1>8, <1>9 DEF Next, Own

\* What the device and the WHD thread do, and the writing of the configuration.
LEMMA TkoOthersKeep ==
  ASSUME PcInv, Ranges, PcInv', Ranges', TkoInv,
         TkoEvent \/ TkoHandler \/ UpdateClear \/ UpdateWrite
  PROVE  TkoInv'
<1>1. /\ UNCHANGED <<cfg, pc, ctx, table, tkoEntry, tkoDev>> /\ faults \subseteq faults'
      /\ tkoOn' = tkoOn \/ (tkoOn' = FALSE /\ "tkoEvent" \in faults')
  BY FaultsGrow DEF TkoEvent, TkoHandler, UpdateClear, UpdateWrite, Note, env, tko
<1>2. TableType' /\ SwitchType' BY <1>1 DEF TkoInv, TableType, SwitchType
<1>3. CASE "tkoEvent" \in faults' BY <1>2, <1>3 DEF TkoInv, TkoWays, TkoFaults
<1>4. CASE tkoOn' = tkoOn
  <2>1. Apart("tko") BY <1>1, SamePlaces
  <2> QED BY <1>1, <1>2, <1>4, <2>1, TkoApart
<1> QED BY <1>1, <1>3, <1>4

\* Every step keeps the invariant of the offload.
LEMMA TkoStepKeeps ==
  ASSUME PcInv, StackInv, Ranges, TkoInv, [Next]_system
  PROVE  PcInv' /\ StackInv' /\ Ranges' /\ TkoInv'
<1>1. PcInv' /\ StackInv' /\ Ranges' BY StepKeeps, StepPlaces
<1>2. CASE TkoStep
  <2>1. ASSUME NEW t \in Threads,
               TkoDisable(t) \/ TkoUnmark(t) \/ TkoDeregister(t) \/ TkoToggleOff(t)
        PROVE  TkoInv'
    BY <2>1, TkoDisableKeeps, TkoUnmarkKeeps, TkoDeregisterKeeps, TkoToggleOffKeeps
  <2> QED
    BY <1>1, <1>2, <2>1, TkoInitKeeps, TkoSleepKeeps, TkoActivateKeeps, TkoActivatedKeeps,
       TkoToggleOnKeeps, TkoRegisterKeeps, TkoMarkKeeps, TkoOthersKeep
    DEF TkoStep, Threads
<1>3. CASE InitClear("tko") /\ UNCHANGED tko BY <1>1, <1>3, TkoInitKeeps
<1>4. CASE ~Own("tko")
  <2>1. Apart("tko") BY <1>4, StepPlaces DEF Offloads
  <2>2. /\ UNCHANGED tko /\ TableType'
        /\ \A s \in Slots : table'[s] = "tko" => table[s] = "tko"
    BY <1>4, OthersLeaveTko DEF TkoInv
  <2> QED BY <1>1, <2>1, <2>2, TkoApart DEF tko
<1> QED BY <1>1, <1>2, <1>3, <1>4 DEF Own

\* The offload begins with its flag and its device off.
LEMMA TkoInitially == Init => TkoInv
<1> SUFFICES ASSUME Init PROVE TkoInv OBVIOUS
<1>1. tkoOn = FALSE /\ tkoDev = [on |-> FALSE, conns |-> [k \in 1 .. MaxTko |-> NoRecord]]
  BY DEF Init, TkoInitial
<1>2. \A s \in Slots : table[s] # "tko" BY DEF Init, EnvInit, Free
<1>3. ~InSleep("tko") /\ ~Gives("lpa") BY DEF Init, EnvInit, InSleep, Gives, Deregs, At
<1> QED BY <1>1, <1>2, <1>3, TableInitially DEF TkoInv, SwitchType, TkoWays

\* Once the host is awake and the connection manager rests, the device sends no
\* keep-alive packet of its own and no handler of whd_tko_enable is left registered,
\* whichever thread ran whd_tko_disable last and wherever the other was.
THEOREM TkoIsStopped == Spec => []TkoStoppedAwake
<1> DEFINE Inv == PcInv /\ StackInv /\ Ranges /\ TkoInv
<1>1. Init => Inv
  BY ThreadsInitially, StackInitially, RangesInitially, TkoInitially
<1>2. Inv /\ [Next]_system => Inv' BY TkoStepKeeps
<1>3. Inv => TkoStoppedAwake
  <2> SUFFICES ASSUME Inv, ~Suspended, NetRests,
                      {"tkoToggle", "tkoEvent", "reinit", "tkoRace"} \cap faults = {}
               PROVE  ~tkoDev.on /\ ~tkoOn /\ ~Registered("tko")
    BY DEF TkoStoppedAwake
  <2>1. \A down, up : ~Told("tko", down, up) BY NotPast DEF Told
  <2>2. ~tkoOn /\ ~tkoDev.on BY <2>1 DEF TkoInv, TkoWays, TkoFaults
  <2>3. ~LpaMarks /\ ~Gives("lpa")
    BY DEF LpaMarks, Gives, Deregs, At, PcInv, LpaParts, Suspended
  <2>4. ~Gives("net") BY DEF Gives, Deregs, At, Ranges
  <2>5. \A s \in Slots : table[s] # "tko"
    BY <2>2, <2>3, <2>4 DEF TkoInv, TkoWays, TkoFaults, Owing
  <2> QED BY <2>2, <2>5 DEF Registered
<1> QED BY <1>1, <1>2, <1>3, PTL DEF Spec

-----------------------------------------------------------------------------
(* The entries of the two offloads                                         *)

TlsAwake == {"start", "restore", "release", "clear", "deregister"}

\* An index that an offload is going to give back is that of an entry it holds.
EntryWays ==
  StaleEntry \cap faults = {} =>
    /\ Owing => tkoEntry \in Slots /\ table[tkoEntry] = "tko"
    /\ Told("tls", {}, TlsAwake) => tlsEntry \in Slots /\ table[tlsEntry] = "tls"
    /\ Inside("lpa", "tls") => "tls" \in ctx
    /\ ~At("lpa", "sleep", "tls", "cleanUp")

\* Only the offload whose handler it is takes an entry away.
LEMMA OnlyItsOwn ==
  ASSUME PcInv, Ranges, TableType, EntryWays, [Next]_system, StaleEntry \cap faults = {}
  PROVE  \A s \in Slots : table[s] # Free /\ table'[s] # table[s] =>
           \/ table[s] = "tko" /\ \E t \in Threads : TkoDeregister(t)
           \/ table[s] = "tls" /\ TlsDeregister
<1>keeps. ASSUME NEW client \in Clients, NEW entry, NEW e, Register(client, entry, e)
          PROVE  \A s \in Slots : table[s] # Free => table'[s] = table[s]
  <2>1. /\ e \in Slots /\ table'[e] = client /\ table[e] \in {client, Free}
           /\ \A s \in Slots : s # e => table'[s] = table[s]
        \/ table' = table
    BY <1>keeps, Registers
  <2> QED BY <2>1
<1>1. CASE TkoStep
  <2>1. CASE TkoRegister BY <2>1, <1>keeps DEF TkoRegister, Clients
  <2>2. CASE \E t \in Threads : TkoDeregister(t)
    <3>1. PICK t \in Threads : TkoDeregister(t) BY <2>2
    <3>2. Gives(t) BY <3>1 DEF TkoDeregister, Gives, Deregs, At
    <3>3. table[tkoEntry] = "tko" BY <3>2 DEF EntryWays, Owing, Threads
    <3>4. \A s \in Slots : table'[s] = IF s = tkoEntry THEN Free ELSE table[s]
      BY <3>1, Deregisters DEF TkoDeregister
    <3> QED BY <3>1, <3>3, <3>4
  <2>3. CASE ~TkoRegister /\ ~\E t \in Threads : TkoDeregister(t)
    <3>1. table' = table
      BY <1>1, <2>3
      DEF TkoStep, TkoInit, TkoSleep, TkoActivate, TkoActivated, TkoToggleOn, TkoMark, TkoDisable, TkoUnmark,
          TkoToggleOff, TkoEvent, TkoHandler, UpdateClear, UpdateWrite, env, Threads
    <3> QED BY <3>1
  <2> QED BY <2>1, <2>2, <2>3
<1>2. CASE TlsStep
  <2>1. CASE TlsRegister BY <2>1, <1>keeps DEF TlsRegister, Clients
  <2>2. CASE TlsDeregister
    <3>1. At("lpa", "awake", "tls", "deregister") /\ Deregister(tlsEntry)
      BY <2>2 DEF TlsDeregister, LpaAt
    <3>2. pc["lpa"] \in Place /\ cfg \in Configs BY DEF PcInv, PcType, Threads
    <3>3. pc["lpa"].i \in DOMAIN cfg.list BY <3>1, <3>2, ListFacts DEF Ranges, Threads, At, Place
    <3>4. Past(cfg.list, pc["lpa"], "tls", {}, TlsAwake)
      BY <3>1, <3>2, <3>3, PastHere DEF At, TlsAwake
    <3>5. Inside("lpa", "tls") BY <3>1 DEF At, Inside, Walking
    <3>6. table[tlsEntry] = "tls" BY <3>4, <3>5 DEF EntryWays, Told
    <3>7. \A s \in Slots : table'[s] = IF s = tlsEntry THEN Free ELSE table[s]
      BY <3>1, Deregisters, SMTT(40)
    <3> QED BY <2>2, <3>6, <3>7
  <2>3. CASE ~TlsRegister /\ ~TlsDeregister
    <3>1. table' = table
      BY <1>2, <2>3
      DEF TlsStep, TlsInit, TlsDeinit, TlsSleep, TlsPattern, TlsActivate, TlsCleanUp, TlsProtect,
          TlsWake, TlsRestore, TlsRelease, TlsClear, DeviceSends, WakeEvent, TlsHandler, ConfigClear,
          SetPorts, ConfigCopy, ConfigSocket, SetAddress
    <3> QED BY <3>1
  <2> QED BY <2>1, <2>2, <2>3
<1>3. CASE AppRegister BY <1>3, FirstIsFree, SMTT(40) DEF AppRegister, TableType
<1>4. CASE ManagerStep \/ StackStep \/ WowlStep
  <2>1. table' = table
    BY <1>4
    DEF ManagerStep, Connect, Disconnect, LoopDone, Inactive, SleepDone, WakeUp, AwakeDone,
        OthersUnchanged, StackStep, LwipSuspend, LwipResume, NetxSuspendIp, NetxStopTimers,
        NetxSuspendDhcp, NetxResumeDhcp, NetxResumeIp, BadState, DhcpChanges, StackVars,
        WowlStep, WowlInit, WowlDeinit, WowlConfigure, WowlSet, WowlActivate, WowlUndo, WowlWake,
        WowlDelete, WowlDone, WowlVars
  <2> QED BY <2>1
<1>5. CASE NatStep \/ SocketsStep \/ UNCHANGED system \/ \E o \in Offloads : InitClear(o)
  <2>1. table' = table
    BY <1>5
    DEF NatStep, NkoInit, NkoUnregister, NkoDisable, NkoForget, KeepAlivePm, AddressChanges,
        UpdateConfig, Details, Send, NullkoInit, NullkoDeinit, SocketsStep, SocketCreate, Transfer,
        Close, TimeWaitEnds, BindFails, BindConnect, ConnectFails, Connected, SetOptions,
        SendFirst, InitClear, system, env
  <2> QED BY <2>1
<1> QED BY <1>1, <1>2, <1>3, <1>4, <1>5 DEF Next

\* The index of the TKO offload stays good.
LEMMA TkoEntryKeeps ==
  ASSUME PcInv, Ranges, PcInv', Ranges', TkoInv, EntryWays, [Next]_system,
         StaleEntry \cap faults = {}, StaleEntry \cap faults' = {}
  PROVE  Owing' => tkoEntry' \in Slots /\ table'[tkoEntry'] = "tko"
<1>no. (TkoFaults \cup {"tkoTwice"}) \cap faults = {} /\ "tkoEvent" \notin faults'
  BY DEF StaleEntry, TkoFaults
<1>old. Owing => tkoEntry \in Slots /\ table[tkoEntry] = "tko" BY DEF EntryWays
<1>int. 0 \in Nat OBVIOUS
\* What neither moves a thread to where the entry is given back nor touches it.
<1>same. ASSUME UNCHANGED <<cfg, tkoEntry>>, Owing' => Owing,
                ~\E t \in Threads : TkoDeregister(t)
         PROVE  Owing' => tkoEntry' \in Slots /\ table'[tkoEntry'] = "tko"
  BY <1>same, <1>old, OnlyItsOwn DEF TkoInv, Free
<1>1. CASE TkoRegister
  <2>1. PICK e : Register("tko", tkoEntry, e) /\ tkoEntry' = e BY <1>1 DEF TkoRegister
  <2>2. "tableFull" \notin faults' BY DEF StaleEntry
  <2> QED BY <2>1, <2>2, Registers DEF TkoInv, Clients
<1>2. CASE \E t \in Threads : TkoDeregister(t)
  BY <1>2, <1>no, TkoDeregisterKeeps
<1>3. CASE \E t \in Threads : TkoDisable(t)
  <2>1. PICK t \in Threads : TkoDisable(t) BY <1>3
  <2>2. /\ At(t, pc[t].at, "tko", "start") /\ <<t, pc[t].at>> \in Disabling
        /\ UNCHANGED <<cfg, ctx, table, tkoOn, tkoEntry>>
        /\ \/ NextOffload(t)
           \/ tkoOn = TRUE
           \/ tkoOn # TRUE /\ Goto(t, "toggle")
    BY <2>1 DEF TkoDisable, TkoInv, SwitchType, tko
  <2>3. ~\E u \in Threads : TkoDeregister(u)
    <3>1. table' = table BY <2>2
    <3> SUFFICES ASSUME NEW u \in Threads, TkoDeregister(u) PROVE FALSE OBVIOUS
    <3>2. Owing BY DEF TkoDeregister, Gives, Deregs, Owing, At, Threads
    <3>3. table'[tkoEntry] = Free BY <3>2, <1>old, Deregisters DEF TkoDeregister, TkoInv
    <3> QED BY <3>1, <3>2, <3>3, <1>old DEF Free
  <2>4. Owing' => Owing
    <3>1. CASE tkoOn = TRUE BY <3>1 DEF Owing
    <3>2. ASSUME \A u \in Threads \ {t} : pc'[u] = pc[u], tkoOn' => tkoOn,
                 pc'[t].part \notin {"mark", "unmark", "deregister"}
          PROVE  Owing' => Owing
      BY <2>2, <3>2 DEF Owing, Gives, Deregs, LpaMarks, At, Threads
    <3>3. CASE NextOffload(t)
      <4>1. pc'[t].part = "start" /\ \A u \in Threads \ {t} : pc'[u] = pc[u]
        BY <3>3 DEF NextOffload, PcInv, PcType
      <4> QED BY <2>2, <3>2, <4>1
    <3>4. CASE tkoOn # TRUE /\ Goto(t, "toggle")
      <4>0. pc[t] \in Place BY DEF PcInv, PcType
      <4>1. pc'[t].part = "toggle" /\ \A u \in Threads \ {t} : pc'[u] = pc[u]
        BY <3>4, <4>0 DEF Goto, PcInv, PcType, Place
      <4> QED BY <2>2, <3>2, <4>1
    <3> QED BY <2>2, <3>1, <3>3, <3>4
  <2> QED BY <2>2, <2>3, <2>4, <1>same
<1>4. CASE ~Own("tko")
  <2>1. Apart("tko") BY <1>4, StepPlaces DEF Offloads
  <2>2. UNCHANGED tko BY <1>4, OthersLeaveTko DEF TkoInv
  <2>3. Owing' => Owing BY <2>1, <2>2, OwingApart DEF tko
  <2>4. ~\E t \in Threads : TkoDeregister(t) BY <1>4 DEF Own, TkoStep, Threads
  <2> QED BY <2>1, <2>2, <2>3, <2>4, <1>same DEF tko, Apart
<1>5. CASE \/ \E t \in Threads : TkoToggleOff(t)
           \/ TkoInit \/ (InitClear("tko") /\ UNCHANGED tko) \/ TkoSleep \/ TkoActivated
           \/ TkoToggleOn \/ TkoMark \/ TkoEvent \/ TkoHandler \/ UpdateClear \/ UpdateWrite
           \/ \E part \in {"activate", "found"} : TkoActivate(part)
  <2>0. UNCHANGED <<cfg, table, tkoEntry>> /\ (tkoOn' => tkoOn \/ LpaMarks)
    BY <1>5, <1>no
    DEF TkoToggleOff, TkoInit, InitClear, TkoSleep, TkoActivated, TkoToggleOn, TkoMark, TkoEvent,
        TkoHandler, UpdateClear, UpdateWrite, TkoActivate, tko, env, Note, LpaMarks
  <2>1. \A t \in Threads : pc'[t] = pc[t] \/ pc'[t].part \notin {"mark", "unmark", "deregister"}
    <3>1. CASE pc' = pc BY <3>1
    <3>2. ASSUME NEW t \in Threads, NextOffload(t)
          PROVE  \A u \in Threads : pc'[u] = pc[u] \/ pc'[u].part = "start"
      BY <3>2 DEF NextOffload, PcInv, PcType
    <3>3. ASSUME NEW t \in Threads, NEW p \in Parts \ {"mark", "unmark", "deregister"}, NEW k \in Nat,
                 Goto(t, p) \/ Count(t, p, k)
          PROVE  \A u \in Threads : pc'[u] = pc[u] \/ pc'[u].part = p
      <4>1. \A u \in Threads : pc[u] \in Place BY DEF PcInv, PcType
      <4>2. CASE Goto(t, p) BY <4>1, <4>2 DEF Goto, PcInv, PcType, Place
      <4>3. CASE Count(t, p, k) BY <4>1, <4>3 DEF Count, PcInv, PcType, Place
      <4> QED BY <3>3, <4>2, <4>3
    <3>4. pc["lpa"].k + 1 \in Nat /\ 1 \in Nat /\ 0 \in Nat
      BY DEF PcInv, PcType, Threads, Place
    <3>6. CASE \/ \E t \in Threads : TkoToggleOff(t)
               \/ TkoInit \/ TkoMark \/ TkoActivated
      <4>1. \/ \E t \in Threads : NextOffload(t)
            \/ Goto("lpa", "enable")
        BY <3>6 DEF TkoToggleOff, TkoInit, TkoMark, TkoActivated, Threads
      <4>2. "lpa" \in Threads /\ "enable" \in Parts \ {"mark", "unmark", "deregister"}
        BY DEF Parts, Threads
      <4>3. CASE Goto("lpa", "enable") BY <3>3, <3>4, <4>2, <4>3
      <4> QED BY <3>2, <4>1, <4>3
    <3>7. CASE (InitClear("tko") /\ UNCHANGED tko) \/ TkoSleep \/ TkoToggleOn
      <4>1. \/ \E t \in Threads : NextOffload(t)
            \/ \E t \in Threads, p \in {"fill", "enable", "register"} : Goto(t, p)
            \/ Count("lpa", "activate", 1)
        BY <3>7 DEF InitClear, TkoSleep, TkoToggleOn, Threads
      <4>2. CASE \E t \in Threads, p \in {"fill", "enable", "register"} : Goto(t, p)
        BY <3>3, <3>4, <4>2 DEF Parts
      <4>3. CASE Count("lpa", "activate", 1)
        BY <3>3, <3>4, <4>3 DEF Parts, Threads
      <4> QED BY <3>2, <4>1, <4>2, <4>3
    <3>8. CASE TkoEvent \/ TkoHandler \/ UpdateClear \/ UpdateWrite
      BY <3>1, <3>8 DEF TkoEvent, TkoHandler, UpdateClear, UpdateWrite, env
    <3>9. CASE \E part \in {"activate", "found"} : TkoActivate(part)
      <4>1. \E p \in {"activate", "found"} : Count("lpa", p, pc["lpa"].k + 1)
        BY <3>9 DEF TkoActivate
      <4> QED BY <3>3, <3>4, <4>1 DEF Parts, Threads
    <3> QED BY <1>5, <3>6, <3>7, <3>8, <3>9
  <2>2. Owing' => Owing BY <2>0, <2>1 DEF Owing, Gives, Deregs, LpaMarks, At, Threads
  <2> QED BY <1>old, <2>0, <2>2
<1>6. CASE \E t \in Threads : TkoUnmark(t)
  <2>1. PICK t \in Threads : TkoUnmark(t) BY <1>6
  <2>2. Owing /\ UNCHANGED <<table, tkoEntry>>
    BY <2>1 DEF TkoUnmark, Owing, Gives, At, Threads
  <2> QED BY <1>old, <2>2
<1> QED BY <1>1, <1>2, <1>3, <1>4, <1>5, <1>6 DEF Own, TkoStep, Threads

TlsEntry ==
  /\ Told("tls", {}, TlsAwake) => tlsEntry \in Slots /\ table[tlsEntry] = "tls"
  /\ Inside("lpa", "tls") => "tls" \in ctx
  /\ ~At("lpa", "sleep", "tls", "cleanUp")

\* The dispatching thread goes on inside the TLS offload.
LEMMA TlsOnward ==
  ASSUME PcInv, Ranges, EntryWays, StaleEntry \cap faults = {}, UNCHANGED <<cfg, ctx, table, tlsEntry>>,
         NEW at \in {"sleep", "awake"}, NEW part, LpaAt(at, part), "tls" \in ctx,
         NEW p \in Parts, Goto("lpa", p),
         IF at = "sleep" THEN p # "cleanUp" ELSE part \in TlsAwake
  PROVE  TlsEntry'
<1>1. 0 \in Nat OBVIOUS
<1>2. /\ At("lpa", at, "tls", p)'
      /\ \A down, up : Past(cfg.list, pc["lpa"], "tls", down, up)
                         <=> (IF at = "sleep" THEN part \in down ELSE part \in up)
      /\ \A down, up : Past(cfg'.list, pc'["lpa"], "tls", down, up)
                         <=> (IF at = "sleep" THEN p \in down ELSE p \in up)
  BY <1>1, LpaGoesTo DEF LpaAt
<1>3. ~At("lpa", "sleep", "tls", "cleanUp")' BY <1>2 DEF At
<1>4. CASE at = "sleep" BY <1>2, <1>3, <1>4 DEF TlsEntry, Told
<1>5. CASE at = "awake"
  <2>1. Told("tls", {}, TlsAwake) BY <1>2, <1>5 DEF Told
  <2> QED BY <1>3, <2>1 DEF TlsEntry, EntryWays
<1> QED BY <1>4, <1>5

\* It goes on to the next offload.
LEMMA TlsOnToNext ==
  ASSUME PcInv, Ranges, UNCHANGED <<cfg, ctx>>, NEW at \in {"sleep", "awake"}, NEW part,
         LpaAt(at, part), NextOffload("lpa"),
         at = "sleep" /\ "tls" \in ctx => tlsEntry' \in Slots /\ table'[tlsEntry'] = "tls"
  PROVE  TlsEntry'
<1>1. /\ pc'["lpa"].part = "start"
      /\ \A down, up : Past(cfg'.list, pc'["lpa"], "tls", down, up) <=> at = "sleep"
  BY LpaGoesOn DEF LpaAt
<1> QED BY <1>1 DEF TlsEntry, Told, Inside, At

\* The index of the TLS offload stays good.
LEMMA TlsEntryKeeps ==
  ASSUME PcInv, Ranges, PcInv', Ranges', TkoInv, EntryWays, [Next]_system,
         StaleEntry \cap faults = {}, StaleEntry \cap faults' = {}
  PROVE  TlsEntry'
<1>old. TlsEntry BY DEF EntryWays, TlsEntry
<1>no. {"tlsPattern", "tlsActivate", "noConnection", "tlsConfig", "reinit", "tableFull"}
         \cap faults' = {}
  BY DEF StaleEntry
<1>inside. ASSUME NEW at \in {"sleep", "awake"}, NEW part, LpaAt(at, part), part # "start"
           PROVE  "tls" \in ctx
  BY <1>inside, <1>old DEF LpaAt, At, Inside, Walking, TlsEntry
<1>net. ASSUME pc'["lpa"] = pc["lpa"], ~Suspended, UNCHANGED cfg PROVE TlsEntry'
  BY <1>net, NotPast
  DEF TlsEntry, Told, Inside, At, Suspended, PcInv, LpaParts, Past, Walking
<1>1. CASE TlsInit
  <2>1. pc'["lpa"] = pc["lpa"] /\ UNCHANGED <<cfg, table, tlsEntry>>
    BY <1>1, NetGoesOn DEF TlsInit
  <2>2. CASE "tls" \in cfg.given
    <3>1. ~Suspended BY <1>1, <1>no, <2>2 DEF TlsInit, NoteConfig, Note
    <3> QED BY <1>net, <2>1, <3>1
  <2>3. CASE "tls" \notin cfg.given
    <3>1. ctx' = ctx BY <1>1, <2>3 DEF TlsInit, HasContext
    <3> QED BY <1>old, <2>1, <3>1 DEF TlsEntry, Told, Inside, At
  <2> QED BY <2>2, <2>3
<1>2. CASE InitClear("tls") /\ UNCHANGED <<tcp, tko, tls, nat, ns>>
  <2>1. ~Suspended BY <1>2, <1>no DEF InitClear, Note
  <2> QED BY <1>2, <1>net, <2>1, NetGoesTo DEF InitClear, Parts
<1>3. CASE TlsDeinit
  <2>1. pc'["lpa"] = pc["lpa"] /\ UNCHANGED <<cfg, ctx, table, tlsEntry>>
    BY <1>3, NetGoesOn DEF TlsDeinit, tls
  <2> QED BY <1>old, <2>1 DEF TlsEntry, Told, Inside, At
<1>4. CASE TlsSleep
  <2>1. LpaAt("sleep", "start") /\ UNCHANGED <<cfg, ctx, table, tlsEntry>>
    BY <1>4 DEF TlsSleep, tls
  <2>2. CASE "tls" \in ctx /\ Goto("lpa", "pattern") BY <2>1, <2>2, TlsOnward DEF Parts
  <2>3. CASE "tls" \notin ctx /\ NextOffload("lpa") BY <2>1, <2>3, TlsOnToNext
  <2> QED BY <1>4, <2>2, <2>3 DEF TlsSleep
<1>5. CASE TlsPattern
  <2>1. LpaAt("sleep", "pattern") /\ UNCHANGED <<cfg, ctx, table, tlsEntry>>
    BY <1>5 DEF TlsPattern, tls
  <2>2. Goto("lpa", "activate") BY <1>5, <1>no DEF TlsPattern, Command, Faulty
  <2> QED BY <1>inside, <2>1, <2>2, TlsOnward DEF Parts
<1>6. CASE TlsActivate
  <2>1. LpaAt("sleep", "activate") /\ UNCHANGED <<cfg, ctx, table, tlsEntry>>
    BY <1>6 DEF TlsActivate
  <2>2. Goto("lpa", "protect") BY <1>6, <1>no DEF TlsActivate, Note, Faulty
  <2> QED BY <1>inside, <2>1, <2>2, TlsOnward DEF Parts
<1>7. CASE TlsCleanUp BY <1>7, <1>old DEF TlsCleanUp, LpaAt, TlsEntry
<1>8. CASE TlsProtect
  <2>1. LpaAt("sleep", "protect") /\ UNCHANGED <<cfg, ctx, table, tlsEntry>>
    BY <1>8 DEF TlsProtect
  <2>2. Goto("lpa", "register") BY <1>8 DEF TlsProtect
  <2> QED BY <1>inside, <2>1, <2>2, TlsOnward DEF Parts
<1>9. CASE TlsRegister
  <2>1. LpaAt("sleep", "register") /\ UNCHANGED <<cfg, ctx>> /\ NextOffload("lpa")
    BY <1>9 DEF TlsRegister
  <2>2. PICK e : Register("tls", tlsEntry, e) /\ tlsEntry' = e BY <1>9 DEF TlsRegister
  <2>3. tlsEntry' \in Slots /\ table'[tlsEntry'] = "tls"
    BY <1>no, <2>2, Registers DEF TkoInv, Clients
  <2> QED BY <2>1, <2>3, TlsOnToNext
<1>10. CASE TlsWake
  <2>1. LpaAt("awake", "start") /\ UNCHANGED <<cfg, ctx, table, tlsEntry>>
    BY <1>10 DEF TlsWake, tls
  <2>2. NextOffload("lpa") \/ ("tls" \in ctx /\ Goto("lpa", "restore")) BY <1>10 DEF TlsWake
  <2> QED BY <2>1, <2>2, TlsOnward, TlsOnToNext DEF Parts, TlsAwake
<1>11. CASE TlsRestore
  <2>1. LpaAt("awake", "restore") /\ UNCHANGED <<cfg, ctx, table, tlsEntry>>
    BY <1>11 DEF TlsRestore, tls
  <2>2. Goto("lpa", "release") BY <1>11 DEF TlsRestore
  <2> QED BY <1>inside, <2>1, <2>2, TlsOnward DEF Parts, TlsAwake
<1>12. CASE TlsRelease
  <2>1. LpaAt("awake", "release") /\ UNCHANGED <<cfg, ctx, table, tlsEntry>>
    BY <1>12 DEF TlsRelease
  <2>2. Goto("lpa", "clear") BY <1>12 DEF TlsRelease
  <2> QED BY <1>inside, <2>1, <2>2, TlsOnward DEF Parts, TlsAwake
<1>13. CASE TlsClear
  <2>1. LpaAt("awake", "clear") /\ UNCHANGED <<cfg, ctx, table, tlsEntry>>
    BY <1>13 DEF TlsClear
  <2>2. Goto("lpa", "deregister") BY <1>13 DEF TlsClear
  <2> QED BY <1>inside, <2>1, <2>2, TlsOnward DEF Parts, TlsAwake
<1>14. CASE TlsDeregister
  <2>1. LpaAt("awake", "deregister") /\ UNCHANGED <<cfg, ctx>> /\ NextOffload("lpa")
    BY <1>14 DEF TlsDeregister
  <2> QED BY <2>1, TlsOnToNext
<1>15. CASE \/ DeviceSends \/ WakeEvent \/ TlsHandler
            \/ \E c \in Conns : ConfigClear(c) \/ SetPorts(c)
            \/ ConfigCopy \/ ConfigSocket \/ SetAddress
  <2>1. UNCHANGED <<cfg, pc, ctx, table, tlsEntry>>
    BY <1>15
    DEF DeviceSends, WakeEvent, TlsHandler, ConfigClear, SetPorts, ConfigCopy, ConfigSocket,
        SetAddress
  <2> QED BY <1>old, <2>1 DEF TlsEntry, Told, Inside, At
<1>16. CASE ~Own("tls")
  <2>1. Apart("tls") BY <1>16, StepPlaces DEF Offloads
  <2>2. tlsEntry' = tlsEntry /\ ~TlsDeregister
    <3>1. CASE UNCHANGED tls BY <1>16, <3>1, SMTT(40) DEF tls, Own, TlsStep
    <3>2. CASE ManagerStep \/ WowlStep
      BY <1>16, <3>2
      DEF ManagerStep, Connect, Disconnect, LoopDone, Inactive, SleepDone, WakeUp, AwakeDone,
          OthersUnchanged, WowlStep, WowlInit, WowlDeinit, WowlConfigure, WowlSet, WowlActivate,
          WowlUndo, WowlWake, WowlDelete, WowlDone, WowlVars, tls, Own, TlsStep
    <3> QED BY <1>16, <3>1, <3>2 DEF Next, Own, system
  <2>3. Told("tls", {}, TlsAwake)' <=> Told("tls", {}, TlsAwake)
    BY <2>1 DEF Apart, Told, TlsAwake
  <2>4. Inside("lpa", "tls")' => Inside("lpa", "tls") BY <2>1 DEF Apart, Inside, Threads
  <2>5. ~At("lpa", "sleep", "tls", "cleanUp")'
    <3>1. SUFFICES ASSUME At("lpa", "sleep", "tls", "cleanUp")' PROVE FALSE OBVIOUS
    <3>2. Inside("lpa", "tls")' BY <3>1 DEF At, Inside, Walking
    <3>3. pc'["lpa"] = pc["lpa"] /\ cfg' = cfg BY <2>1, <3>2 DEF Apart, Threads
    <3> QED BY <1>old, <3>1, <3>3 DEF TlsEntry, At
  <2>6. \A s \in Slots : table[s] = "tls" => table'[s] = "tls"
    BY <2>2, OnlyItsOwn DEF TkoInv, Free
  <2> QED BY <1>old, <2>1, <2>2, <2>3, <2>4, <2>5, <2>6 DEF TlsEntry, Apart
<1> QED BY <1>1, <1>2, <1>3, <1>4, <1>5, <1>6, <1>7, <1>8, <1>9, <1>10, <1>11, <1>12, <1>13,
           <1>14, <1>15, <1>16 DEF Own, TlsStep

\* The indices begin unused.
LEMMA EntriesInitially == Init => EntryWays
<1> SUFFICES ASSUME Init PROVE EntryWays OBVIOUS
<1>1. pc["lpa"].at = "idle" /\ pc["net"].part = "start" /\ tkoOn = FALSE
  BY DEF Init, EnvInit, TkoInitial
<1> QED BY <1>1 DEF EntryWays, Owing, LpaMarks, Gives, Deregs, At, Told, Past, Inside, Walking, Init,
                    EnvInit

\* No offload takes away the event handler of another: whenever one gives an entry of
\* WHD's table back by its index, it is the entry its own handler has.
THEOREM HandlersAreKept == Spec => HandlersKept
<1> DEFINE Inv == PcInv /\ StackInv /\ Ranges /\ TkoInv /\ EntryWays
<1>1. Init => Inv
  BY ThreadsInitially, StackInitially, RangesInitially, TkoInitially, EntriesInitially
<1>grow. Inv /\ [Next]_system => faults \subseteq faults' BY StepGrows
<1>2. Inv /\ [Next]_system => Inv'
  <2> SUFFICES ASSUME Inv, [Next]_system PROVE Inv' OBVIOUS
  <2>1. PcInv' /\ StackInv' /\ Ranges' /\ TkoInv' BY TkoStepKeeps
  <2>2. ASSUME StaleEntry \cap faults' = {} PROVE EntryWays'
    <3>1. StaleEntry \cap faults = {} BY <1>grow, <2>2
    <3>2. Owing' => tkoEntry' \in Slots /\ table'[tkoEntry'] = "tko"
      BY <2>1, <2>2, <3>1, TkoEntryKeeps
    <3>3. TlsEntry' BY <2>1, <2>2, <3>1, TlsEntryKeeps
    <3> QED BY <3>2, <3>3 DEF EntryWays, TlsEntry
  <2> QED BY <2>1, <2>2 DEF EntryWays
<1>3. Inv /\ [Next]_system =>
        (Registered("app") /\ StaleEntry \cap faults' = {} => Registered("app")')
  <2> SUFFICES ASSUME Inv, [Next]_system, Registered("app"), StaleEntry \cap faults' = {}
               PROVE  Registered("app")'
    OBVIOUS
  <2>1. PICK s \in Slots : table[s] = "app" BY DEF Registered
  <2>2. StaleEntry \cap faults = {} BY <1>grow
  <2>3. table'[s] = table[s] BY <2>1, <2>2, OnlyItsOwn DEF TkoInv, Free
  <2> QED BY <2>1, <2>3 DEF Registered
<1> QED BY <1>1, <1>2, <1>3, PTL DEF Spec, HandlersKept

-----------------------------------------------------------------------------
(* The keep-alives of the device                                           *)

\* The device has a number of connections.
DevShape ==
  /\ tkoDev = [on |-> tkoDev.on, conns |-> tkoDev.conns]
  /\ tkoDev.conns = [k \in 1 .. MaxTko |-> tkoDev.conns[k]]

\* Without a TLS offload the host alone counts on its connections.
Plain     == "tls" \notin Range(cfg.list)
PlainWays == Plain => session = NoSession /\ AllInStep

\* The device was told, and is yet to be told to stop.
ToldToSend ==
  Told("tko", {"activate", "found", "enable", "register", "mark"},
              {"start", "unmark", "deregister", "toggle"})

Live(k) ==
  LET c == tkoDev.conns[k].conn IN
  /\ c \in Conns /\ SockStats(c) # {}
  /\ sock[c].st = "open" /\ Plain =>
       Inc(tkoDev.conns[k].request) = peer[c].tcp /\ tkoDev.conns[k].response = peer[c].tcp
  /\ "noNextHop" \notin faults => tkoDev.conns[k].mac \in {"peer", "gateway"}

KeepFaults == {"tkoToggle", "reinit"}

KeepWays ==
  KeepFaults \cap faults = {} =>
    /\ InSleep("tko") => "tko" \in ctx
    /\ \A k \in 1 .. MaxTko : tkoDev.conns[k].conn # NoConn => ToldToSend /\ Live(k)

\* The number before the next one comes before it, also where the numbers wrap.
LEMMA IncDec == ASSUME NEW n \in SeqNums PROVE Inc(Dec(n)) = n
<1>1. SeqWrap \in Nat /\ SeqWrap > 1 /\ n \in Nat /\ 0 <= n /\ n < SeqWrap
  BY SocketAssumption DEF SeqNums
<1>2. CASE n = 0
  <2>1. Dec(n) = SeqWrap - 1 BY <1>1, <1>2 DEF Dec
  <2>2. SeqWrap % SeqWrap = 0 BY <1>1
  <2> QED BY <1>1, <1>2, <2>1, <2>2 DEF Inc
<1>3. CASE n > 0
  <2>1. (n - 1 + SeqWrap) % SeqWrap = n - 1 BY <1>1, <1>3
  <2>2. n + SeqWrap - 1 = n - 1 + SeqWrap BY <1>1
  <2>3. Dec(n) = n - 1 BY <2>1, <2>2 DEF Dec
  <2>4. n % SeqWrap = n BY <1>1
  <2>5. n - 1 + 1 = n BY <1>1
  <2> QED BY <2>3, <2>4, <2>5 DEF Inc
<1> QED BY <1>1, <1>2, <1>3

\* A thread that is at the TLS offload has it on its list.
LEMMA TlsListed ==
  ASSUME PcInv, Ranges, NEW at, NEW part, LpaAt(at, part)
  PROVE  ~Plain
<1>1. pc["lpa"] \in Place /\ cfg \in Configs BY DEF PcInv, PcType, Threads
<1>2. pc["lpa"].i \in DOMAIN cfg.list
  BY <1>1, ListFacts DEF Ranges, Threads, LpaAt, At, Place
<1> QED BY <1>2 DEF Plain, Range, LpaAt, At

\* The configuration is fixed.
LEMMA ConfigStays ==
  ASSUME PcInv, Ranges, [Next]_system
  PROVE  cfg' = cfg
<1>1. Apart("tko") \/ Apart("tls") \/ TkoStep \/ InitClear("tko")
  BY StepPlaces DEF Offloads, Own
<1>2. TkoStep => Frame BY TkoFrame DEF PcInv
<1>3. InitClear("tko") => Frame BY ClearFrame DEF PcInv, Offloads
<1> QED BY <1>1, <1>2, <1>3 DEF Apart, Frame, PcFrame

\* Without a TLS offload no step of it touches a connection.
LEMMA PlainTls ==
  ASSUME PcInv, Ranges, PlainWays, TlsStep, Plain
  PROVE  UNCHANGED <<cfg, session, sock, peer>>
<1>1. \A at, part : ~LpaAt(at, part) BY TlsListed
<1>2. ~DeviceSends BY DEF PlainWays, DeviceSends
<1>3. CASE TlsInit \/ TlsDeinit BY <1>3 DEF TlsInit, TlsDeinit, tcp, tls
<1>4. CASE WakeEvent \/ TlsHandler BY <1>4 DEF WakeEvent, TlsHandler, tcp
<1>5. CASE \/ \E c \in Conns : ConfigClear(c) \/ SetPorts(c)
           \/ ConfigCopy \/ ConfigSocket \/ SetAddress
  BY <1>5 DEF ConfigClear, SetPorts, ConfigCopy, ConfigSocket, SetAddress
<1> QED
  BY <1>1, <1>2, <1>3, <1>4, <1>5
  DEF TlsStep, TlsSleep, TlsPattern, TlsActivate, TlsCleanUp, TlsProtect, TlsRegister, TlsWake,
      TlsRestore, TlsRelease, TlsClear, TlsDeregister

\* Every step keeps both ends of such connections in step.
LEMMA PlainKeeps ==
  ASSUME TlsInv, PlainWays, [Next]_system
  PROVE  PlainWays'
<1>inv. PcInv /\ Ranges /\ WowlShape /\ ProtectionWays /\ SocketInv /\ SocketWays
  BY DEF TlsInv, WakeInv
<1>cfg. cfg' = cfg BY <1>inv, ConfigStays
<1> SUFFICES ASSUME Plain PROVE session' = NoSession /\ AllInStep'
  BY <1>cfg DEF PlainWays, Plain
<1>old. session = NoSession /\ AllInStep BY DEF PlainWays
<1>same. ASSUME UNCHANGED <<sock, peer>> PROVE AllInStep'
  BY <1>old, <1>same DEF AllInStep, InStep
<1>1. CASE TlsStep
  BY <1>inv, <1>old, <1>same, <1>1, PlainTls
<1>2. CASE ~TlsStep
  <2>1. session' = session BY <1>inv, <1>2, OthersLeaveTls DEF tls
  <2>2. CASE SocketsStep BY <1>inv, <1>old, <2>1, <2>2, SocketsKeepWays
  <2>3. CASE ~SocketsStep BY <1>old, <1>2, <1>same, <2>1, <2>3, OthersLeaveSockets
  <2> QED BY <2>2, <2>3
<1> QED BY <1>1, <1>2

\* A connection of the device stays what it was while no more is done to the host's
\* than the writing back of its numbers.
LEMMA LiveStays ==
  ASSUME cfg' = cfg, faults \subseteq faults', NEW k, tkoDev'.conns[k] = tkoDev.conns[k], Live(k),
         Plain => UNCHANGED <<sock, peer>>,
         \A c \in Conns : /\ sock'[c].ka = sock[c].ka
                          /\ \/ sock'[c].st = sock[c].st
                             \/ cfg.stack = "lwip" /\ sock'[c].st \notin {"none", "new"}
  PROVE  Live(k)'
<1> DEFINE c == tkoDev.conns[k].conn
<1>1. c \in Conns /\ SockStats(c) # {} BY DEF Live
<1>2. SockStats(c)' # {}
  <2>1. c \in SockStats(c) BY <1>1 DEF SockStats
  <2>2. CASE cfg.stack = "lwip" BY <1>1, <2>1, <2>2 DEF SockStats
  <2>3. CASE cfg.stack # "lwip" BY <1>1, <2>1, <2>3 DEF SockStats
  <2> QED BY <2>2, <2>3
<1>3. tkoDev'.conns[k].conn = c OBVIOUS
<1>4. Plain' = Plain BY DEF Plain
<1> QED BY <1>1, <1>2, <1>3, <1>4 DEF Live

\* Nothing the device was told changes.
LEMMA KeepSame ==
  ASSUME KeepWays, faults \subseteq faults', UNCHANGED <<cfg, sock, peer>>, tkoDev'.conns = tkoDev.conns,
         KeepFaults \cap faults' = {} /\ InSleep("tko")' => "tko" \in ctx',
         KeepFaults \cap faults' = {} /\ ToldToSend => ToldToSend'
  PROVE  KeepWays'
<1> SUFFICES ASSUME KeepFaults \cap faults' = {},
                    InSleep("tko")' => "tko" \in ctx', ToldToSend => ToldToSend',
                    NEW k \in 1 .. MaxTko, tkoDev'.conns[k].conn # NoConn
             PROVE  ToldToSend' /\ Live(k)'
  BY DEF KeepWays
<1>1. ToldToSend /\ Live(k) BY DEF KeepWays
<1>2. Live(k)' BY <1>1, LiveStays
<1> QED BY <1>1, <1>2

\* While the device has connections the stack does not run, and only the TLS offload
\* writes into the host's.
LEMMA KeepOthers ==
  ASSUME TlsInv, PlainWays, KeepWays, [Next]_system, ~Own("tko")
  PROVE  KeepWays'
<1>inv. /\ PcInv /\ Ranges /\ TableType /\ SocketInv /\ SocketWays /\ MqttWays
  BY DEF TlsInv, WakeInv
<1>1. /\ Apart("tko") /\ tkoDev' = tkoDev
  BY <1>inv, StepPlaces, OthersLeaveTko DEF Offloads, tko
<1>2. cfg' = cfg /\ faults \subseteq faults' /\ ("tko" \in ctx' <=> "tko" \in ctx)
  BY <1>1 DEF Apart
<1>3. ToldToSend' <=> ToldToSend
  <2>1. /\ "start" \notin {"activate", "found", "enable", "register", "mark"}
        /\ "start" \in {"start", "unmark", "deregister", "toggle"}
    OBVIOUS
  <2> QED BY <1>1, <2>1 DEF Apart, ToldToSend, Told
<1>4. InSleep("tko")' <=> InSleep("tko")
  <2>1. \A t \in Threads : Inside(t, "tko") \/ Inside(t, "tko")' => pc'[t] = pc[t]
    BY <1>1 DEF Apart
  <2> QED BY <1>2, <2>1 DEF InSleep, Inside, Threads
<1> SUFFICES ASSUME KeepFaults \cap faults' = {}, NEW k \in 1 .. MaxTko,
                    tkoDev'.conns[k].conn # NoConn
             PROVE  ToldToSend' /\ Live(k)'
  BY <1>2, <1>4 DEF KeepWays
<1>5. ToldToSend /\ Live(k) BY <1>1, <1>2 DEF KeepWays
<1>6. ~SocketsStep
  <2>1. Suspended BY <1>5, NotPast DEF ToldToSend, Told
  <2> QED
    BY <2>1 DEF SocketsStep, SocketCreate, Transfer, Close, TimeWaitEnds, BindFails, BindConnect,
                ConnectFails, Connected, SetOptions, SendFirst
<1>7. Plain => UNCHANGED <<sock, peer>>
  BY <1>inv, <1>6, OthersLeaveSockets, PlainTls
<1>8. ASSUME NEW c \in Conns
      PROVE  /\ sock'[c].ka = sock[c].ka
             /\ \/ sock'[c].st = sock[c].st
                \/ cfg.stack = "lwip" /\ sock'[c].st \notin {"none", "new"}
  <2>1. CASE sock' = sock BY <2>1
  <2>2. CASE /\ mqtt.socket \in owned
             /\ sock' = UpdateSockSeq(mqtt.conn, [sock EXCEPT ![mqtt.socket].tls = session.tls])
    BY <1>inv, <2>2, RestoreWrites
  <2>3. TlsStep => \/ sock' = sock
                   \/ /\ mqtt.socket \in owned
                      /\ sock' = UpdateSockSeq(mqtt.conn,
                                               [sock EXCEPT ![mqtt.socket].tls = session.tls])
    BY DEF TlsStep, TlsInit, TlsDeinit, TlsSleep, TlsPattern, TlsActivate, TlsCleanUp,
           TlsProtect, TlsRegister, TlsWake, TlsRestore, TlsRelease, TlsClear, TlsDeregister,
           DeviceSends, WakeEvent, TlsHandler, ConfigClear, SetPorts, ConfigCopy, ConfigSocket,
           SetAddress, tcp
  <2> QED BY <1>6, <2>1, <2>2, <2>3, OthersLeaveSockets
<1> QED BY <1>1, <1>2, <1>3, <1>5, <1>7, <1>8, LiveStays

\* A step of the connection manager's thread, which leaves the dispatching one where
\* it is.
LEMMA KeepNet ==
  ASSUME KeepWays, faults \subseteq faults', UNCHANGED <<cfg, sock, peer>>,
         tkoDev'.conns = tkoDev.conns, pc'["lpa"] = pc["lpa"],
         "tko" \in ctx => "tko" \in ctx' \/ ~Suspended \/ "reinit" \in faults'
  PROVE  KeepWays'
<1>1. InSleep("tko")' <=> InSleep("tko") BY DEF InSleep, Inside
<1>2. InSleep("tko") => Suspended BY DEF InSleep, Suspended
<1>3. ToldToSend => Suspended BY NotPast DEF ToldToSend, Told
<1>4. ASSUME KeepFaults \cap faults' = {}, ToldToSend PROVE ToldToSend'
  BY <1>3, <1>4 DEF ToldToSend, Told, KeepFaults
<1>5. ASSUME KeepFaults \cap faults' = {}, InSleep("tko")' PROVE "tko" \in ctx'
  BY <1>1, <1>2, <1>5 DEF KeepWays, KeepFaults
<1> QED BY <1>4, <1>5, KeepSame

\* The dispatching thread goes on to the next offload.
LEMMA KeepNext ==
  ASSUME PcInv, Ranges, KeepWays, faults \subseteq faults', UNCHANGED <<cfg, ctx, sock, peer>>,
         tkoDev'.conns = tkoDev.conns,
         NEW at \in {"sleep", "awake"}, NEW part, At("lpa", at, "tko", part),
         NextOffload("lpa"), at = "awake" => "tko" \notin ctx
  PROVE  KeepWays'
<1>1. /\ pc'["lpa"].part = "start"
      /\ Past(cfg'.list, pc'["lpa"], "tko", {"activate", "found", "enable", "register", "mark"},
              {"start", "unmark", "deregister", "toggle"}) <=> at = "sleep"
  BY LpaGoesOn
<1>2. ~InSleep("tko")' BY <1>1 DEF InSleep, Inside
<1>3. ToldToSend => ToldToSend' BY <1>1 DEF ToldToSend, Told
<1> QED BY <1>2, <1>3, KeepSame

\* It goes to another part of this one.
LEMMA KeepGoes ==
  ASSUME PcInv, Ranges, KeepWays, faults \subseteq faults', UNCHANGED <<cfg, ctx, sock, peer>>,
         tkoDev'.conns = tkoDev.conns,
         NEW at \in {"sleep", "awake"}, NEW part, At("lpa", at, "tko", part),
         NEW p \in Parts \ {"start"}, NEW n \in Nat, Goto("lpa", p) \/ Count("lpa", p, n),
         "tko" \in ctx \/ part # "start",
         at = "awake" => p \in {"unmark", "deregister", "toggle"},
         at = "sleep" /\ part \in {"activate", "found", "enable", "register", "mark"} =>
           p \in {"activate", "found", "enable", "register", "mark"}
  PROVE  KeepWays'
<1> DEFINE Down == {"activate", "found", "enable", "register", "mark"}
           Up   == {"start", "unmark", "deregister", "toggle"}
<1>1. /\ Past(cfg.list, pc["lpa"], "tko", Down, Up)
           <=> (IF at = "sleep" THEN part \in Down ELSE part \in Up)
      /\ Past(cfg'.list, pc'["lpa"], "tko", Down, Up)
           <=> (IF at = "sleep" THEN p \in Down ELSE p \in Up)
      /\ At("lpa", at, "tko", p)'
  BY LpaGoesTo
<1>2. ToldToSend => ToldToSend' BY <1>1 DEF ToldToSend, Told
<1>3. CASE "tko" \in ctx BY <1>2, <1>3, KeepSame
<1>4. CASE "tko" \notin ctx /\ at = "sleep"
  <2>1. InSleep("tko") BY <1>4 DEF InSleep, Inside, At, Walking
  <2>2. KeepFaults \cap faults # {} BY <1>4, <2>1 DEF KeepWays
  <2> QED BY <2>2 DEF KeepWays
<1>5. CASE at = "awake"
  <2>1. ~InSleep("tko")' BY <1>1, <1>5 DEF InSleep, At
  <2> QED BY <1>2, <2>1, KeepSame
<1> QED BY <1>3, <1>4, <1>5

\* A connection is handed over with the number before the host's next.
LEMMA KeepActivate ==
  ASSUME TlsInv, PlainWays, KeepWays, DevShape, NEW part \in {"activate", "found"},
         TkoActivate(part)
  PROVE  KeepWays' /\ DevShape'
<1>inv. PcInv /\ Ranges /\ SocketInv BY DEF TlsInv, WakeInv
<1> DEFINE k == pc["lpa"].k
<1>int. k \in Nat BY <1>inv DEF PcInv, PcType, Threads, Place
<1>next. k + 1 \in Nat BY <1>int
<1>1. /\ At("lpa", "sleep", "tko", part) /\ UNCHANGED <<cfg, ctx, sock, peer>>
      /\ faults \subseteq faults'
  BY FaultsGrow DEF TkoActivate, tcp
<1>2. \E p \in {"activate", "found"} : Count("lpa", p, k + 1) BY DEF TkoActivate
<1>3. CASE tkoDev' = tkoDev
  <2>1. DevShape' BY <1>3 DEF DevShape
  <2>2. PICK p \in {"activate", "found"} : Count("lpa", p, k + 1) BY <1>2
  <2>3. /\ p \in Parts \ {"start"} /\ part # "start"
        /\ p \in {"activate", "found", "enable", "register", "mark"}
    BY DEF Parts
  <2> HIDE DEF k
  <2>4. KeepWays' BY <1>inv, <1>1, <1>3, <1>next, <2>2, <2>3, KeepGoes
  <2> QED BY <2>1, <2>4
<1>4. ASSUME NEW c \in SockStats(ports[k]), NEW hop \in NextHops, NoteHop(hop),
             tkoDev' = [tkoDev EXCEPT !.conns[k] = ConnectRecord(c, hop)]
      PROVE  KeepWays' /\ DevShape'
  <2> DEFINE r == ConnectRecord(c, hop)
  <2>1. /\ c \in Conns /\ c = ports[k]
        /\ r.conn = c /\ r.request = Dec(sock[c].tcp) /\ r.response = sock[c].tcp /\ r.mac = hop
    BY DEF SockStats, ConnectRecord
  <2>2. c \in SockStats(c) BY <2>1
  <2>3. Inc(Dec(sock[c].tcp)) = sock[c].tcp
    <3>1. sock[c].tcp \in SeqNums BY <1>inv, <2>1 DEF SocketInv, SocketRecord
    <3> QED BY <3>1, IncDec
  <2>4. Plain /\ sock[c].st = "open" => sock[c].tcp = peer[c].tcp
    BY <2>1 DEF PlainWays, AllInStep, InStep
  <2>5. "noNextHop" \notin faults' => hop \in {"peer", "gateway"}
    BY <1>4 DEF NextHops, NoteHop, Note
  <2> HIDE DEF k, r
  <2>6. /\ tkoDev' = [on |-> tkoDev.on, conns |-> [tkoDev.conns EXCEPT ![k] = r]]
    BY <1>4 DEF DevShape, k, r
  <2>7. /\ tkoDev'.on = tkoDev.on /\ tkoDev'.conns = [tkoDev.conns EXCEPT ![k] = r]
    BY <2>6
  <2>8. \A j \in 1 .. MaxTko : tkoDev'.conns[j] = IF j = k THEN r ELSE tkoDev.conns[j]
    BY <2>7 DEF DevShape
  <2>9. DevShape'
    <3>1. DOMAIN tkoDev.conns = 1 .. MaxTko BY DEF DevShape
    <3>2. tkoDev'.conns = [j \in 1 .. MaxTko |-> tkoDev'.conns[j]] BY <2>7, <3>1
    <3> QED BY <2>6, <2>7, <3>2 DEF DevShape
  <2> SUFFICES ASSUME KeepFaults \cap faults' = {}
               PROVE  /\ InSleep("tko")' => "tko" \in ctx'
                      /\ \A j \in 1 .. MaxTko :
                           tkoDev'.conns[j].conn # NoConn => ToldToSend' /\ Live(j)'
    BY <2>9 DEF KeepWays
  <2>10. "tko" \in ctx
    <3>1. InSleep("tko") BY <1>1, <1>inv DEF InSleep, Inside, At, Walking
    <3> QED BY <1>1, <3>1 DEF KeepWays
  <2>11. ToldToSend'
    <3>1. PICK p \in {"activate", "found"} : Count("lpa", p, k + 1) BY <1>2 DEF k
    <3>2. k + 1 \in Nat /\ p \in Parts BY <1>next DEF k, Parts
    <3>3. Past(cfg'.list, pc'["lpa"], "tko", {"activate", "found", "enable", "register", "mark"},
               {"start", "unmark", "deregister", "toggle"})
      BY <1>inv, <1>1, <3>1, <3>2, LpaGoesTo
    <3> QED BY <1>1, <2>10, <3>3 DEF ToldToSend, Told
  <2>12. ASSUME NEW j \in 1 .. MaxTko, tkoDev'.conns[j].conn # NoConn PROVE Live(j)'
    <3>1. CASE j = k
      <4>1. tkoDev'.conns[j] = r BY <2>8, <3>1
      <4>2. SockStats(c)' # {} BY <1>1, <2>2 DEF SockStats
      <4>3. Plain' = Plain BY <1>1 DEF Plain
      <4> QED BY <1>1, <2>1, <2>3, <2>4, <2>5, <4>1, <4>2, <4>3 DEF Live
    <3>2. CASE j # k
      <4>1. tkoDev'.conns[j] = tkoDev.conns[j] BY <2>8, <3>2
      <4>2. Live(j) BY <1>1, <2>12, <4>1 DEF KeepWays
      <4> QED BY <1>1, <4>1, <4>2, LiveStays
    <3> QED BY <3>1, <3>2
  <2> QED BY <1>1, <2>10, <2>11, <2>12
<1> QED BY <1>3, <1>4 DEF TkoActivate

\* Both threads disable the offload: the connections go with the switch, unless it
\* fails.
LEMMA KeepDisable ==
  ASSUME PcInv, Ranges, KeepWays, DevShape, NEW t \in Threads,
         TkoDisable(t) \/ TkoUnmark(t) \/ TkoDeregister(t) \/ TkoToggleOff(t)
  PROVE  KeepWays' /\ DevShape'
<1>zero. 0 \in Nat OBVIOUS
<1>1. UNCHANGED <<cfg, ctx, sock, peer>> /\ faults \subseteq faults'
  BY FaultsGrow DEF TkoDisable, TkoUnmark, TkoDeregister, TkoToggleOff, tcp
<1>2. CASE TkoDisable(t)
  <2>1. tkoDev' = tkoDev /\ DevShape' BY <1>2 DEF TkoDisable, DevShape, tko
  <2>2. CASE t = "net"
    <3>1. pc'["lpa"] = pc["lpa"]
      BY <1>1, <1>2, <2>2, NetGoesOn, NetGoesTo DEF TkoDisable, Parts
    <3> QED BY <1>1, <2>1, <3>1, KeepNet
  <2>3. CASE t = "lpa"
    <3>1. /\ At("lpa", "awake", "tko", "start")
          /\ \/ "tko" \notin ctx /\ NextOffload("lpa")
             \/ "tko" \in ctx /\ \E p \in {"unmark", "toggle"} : Goto("lpa", p)
      BY <1>2, <2>3 DEF TkoDisable, Disabling, At
    <3>2. CASE "tko" \notin ctx /\ NextOffload("lpa") BY <1>1, <2>1, <3>1, <3>2, KeepNext
    <3>3. ASSUME "tko" \in ctx, NEW p \in {"unmark", "toggle"}, Goto("lpa", p)
          PROVE  KeepWays'
      BY <1>1, <1>zero, <2>1, <3>1, <3>3, KeepGoes DEF Parts
    <3> QED BY <2>1, <3>1, <3>2, <3>3
  <2> QED BY <2>1, <2>2, <2>3 DEF Threads
<1>3. CASE TkoDeregister(t)
  <2>1. tkoDev' = tkoDev /\ DevShape' BY <1>3 DEF TkoDeregister, DevShape, tko
  <2>2. CASE t = "net"
    <3>1. pc'["lpa"] = pc["lpa"] BY <1>1, <1>3, <2>2, NetGoesTo DEF TkoDeregister, Parts
    <3> QED BY <1>1, <2>1, <3>1, KeepNet
  <2>3. CASE t = "lpa"
    <3>1. PICK at \in {"sleep", "awake"} : At("lpa", at, "tko", "deregister")
      BY <1>3, <2>3, InsideTko DEF TkoDeregister
    <3>2. Goto("lpa", "toggle") BY <1>3, <2>3 DEF TkoDeregister
    <3>3. "deregister" # "start" /\ "toggle" \in Parts \ {"start"}
          /\ "deregister" \notin {"activate", "found", "enable", "register", "mark"}
      BY DEF Parts
    <3>4. KeepWays' BY <1>1, <1>zero, <2>1, <3>1, <3>2, <3>3, KeepGoes
    <3> QED BY <2>1, <3>4
  <2> QED BY <2>1, <2>2, <2>3 DEF Threads
<1>5. CASE TkoUnmark(t)
  <2>1. tkoDev' = tkoDev /\ DevShape' BY <1>5 DEF TkoUnmark, DevShape
  <2>2. CASE t = "net"
    <3>1. pc'["lpa"] = pc["lpa"] BY <1>1, <1>5, <2>2, NetGoesTo DEF TkoUnmark, Parts
    <3> QED BY <1>1, <2>1, <3>1, KeepNet
  <2>3. CASE t = "lpa"
    <3>1. PICK at \in {"sleep", "awake"} : At("lpa", at, "tko", "unmark")
      BY <1>5, <2>3, InsideTko DEF TkoUnmark
    <3>2. Goto("lpa", "deregister") BY <1>5, <2>3 DEF TkoUnmark
    <3>3. "unmark" # "start" /\ "deregister" \in Parts \ {"start"}
          /\ "unmark" \notin {"activate", "found", "enable", "register", "mark"}
      BY DEF Parts
    <3>4. KeepWays' BY <1>1, <1>zero, <2>1, <3>1, <3>2, <3>3, KeepGoes
    <3> QED BY <2>1, <3>4
  <2> QED BY <2>1, <2>2, <2>3 DEF Threads
<1>4. CASE TkoToggleOff(t)
  <2>1. /\ At(t, pc[t].at, "tko", "toggle") /\ NextOffload(t)
        /\ \/ tkoDev' = [on |-> FALSE, conns |-> [k \in 1 .. MaxTko |-> NoRecord]]
           \/ tkoDev' = tkoDev /\ "tkoToggle" \in faults'
    BY <1>4 DEF TkoToggleOff, Command, Faulty
  <2>2. DevShape'
    <3>1. CASE tkoDev' = tkoDev BY <3>1 DEF DevShape
    <3>2. CASE tkoDev' = [on |-> FALSE, conns |-> [k \in 1 .. MaxTko |-> NoRecord]]
      <4>1. tkoDev'.on = FALSE /\ tkoDev'.conns = [k \in 1 .. MaxTko |-> NoRecord] BY <3>2
      <4> QED BY <3>2, <4>1 DEF DevShape
    <3> QED BY <2>1, <3>1, <3>2
  <2>3. ASSUME KeepFaults \cap faults' = {} PROVE KeepWays'
    <3>1. \A k \in 1 .. MaxTko : tkoDev'.conns[k].conn = NoConn
      <4>1. tkoDev' = [on |-> FALSE, conns |-> [k \in 1 .. MaxTko |-> NoRecord]]
        BY <2>1, <2>3 DEF KeepFaults
      <4>2. NoRecord.conn = NoConn BY DEF NoRecord
      <4> QED BY <4>1, <4>2
    <3>2. InSleep("tko")' => "tko" \in ctx'
      <4>1. CASE t = "net"
        <5>1. pc'["lpa"] = pc["lpa"] BY <1>1, <2>1, <4>1, NetGoesOn
        <5> QED BY <1>1, <2>3, <5>1 DEF KeepWays, InSleep, Inside
      <4>2. CASE t = "lpa"
        <5>1. PICK at \in {"sleep", "awake"} : At("lpa", at, "tko", "toggle")
          BY <2>1, <4>2, InsideTko
        <5>2. pc'["lpa"].part = "start" BY <1>1, <2>1, <4>2, <5>1, LpaGoesOn
        <5> QED BY <5>2 DEF InSleep, Inside
      <4> QED BY <4>1, <4>2 DEF Threads
    <3> QED BY <3>1, <3>2 DEF KeepWays
  <2> QED BY <2>2, <2>3 DEF KeepWays
<1> QED BY <1>2, <1>3, <1>4, <1>5

\* An init that empties the context either finds the host awake or is noted.
LEMMA KeepInit ==
  ASSUME PcInv, Ranges, KeepWays, TkoInit \/ (InitClear("tko") /\ UNCHANGED <<tcp, tko>>)
  PROVE  KeepWays' /\ tkoDev' = tkoDev
<1>1. CASE TkoInit
  <2>1. /\ UNCHANGED <<cfg, faults, sock, peer, tkoDev>> /\ ("tko" \in ctx => "tko" \in ctx')
        /\ NextOffload("net")
    BY <1>1 DEF TkoInit, HasContext, tcp
  <2>2. pc'["lpa"] = pc["lpa"] BY <2>1, NetGoesOn
  <2> QED BY <2>1, <2>2, KeepNet
<1>2. CASE InitClear("tko") /\ UNCHANGED <<tcp, tko>>
  <2>1. /\ UNCHANGED <<cfg, sock, peer, tkoDev>> /\ faults \subseteq faults'
        /\ "reinit" \in faults' \/ ~Suspended
        /\ At("net", "init", "tko", "start") /\ Goto("net", "fill")
    BY <1>2 DEF InitClear, Note, tcp, tko
  <2>2. pc'["lpa"] = pc["lpa"] BY <2>1, NetGoesTo DEF Parts
  <2> QED BY <2>1, <2>2, KeepNet
<1> QED BY <1>1, <1>2

\* On the way to sleep the connections stay as they were handed over.
LEMMA KeepSleep ==
  ASSUME PcInv, Ranges, KeepWays, DevShape,
         TkoSleep \/ TkoActivated \/ TkoToggleOn \/ TkoRegister \/ TkoMark
  PROVE  KeepWays' /\ DevShape'
<1>parts. /\ {"activate", "found", "enable", "register", "mark"} \subseteq Parts \ {"start"}
          /\ "start" \notin {"activate", "found", "enable", "register", "mark"}
          /\ 0 \in Nat /\ 1 \in Nat
  BY DEF Parts
<1>1. CASE TkoSleep
  <2>1. /\ UNCHANGED <<cfg, ctx, sock, peer, tkoDev>> /\ faults \subseteq faults'
        /\ At("lpa", "sleep", "tko", "start")
    BY <1>1 DEF TkoSleep, Note, tcp, tko
  <2>2. \/ NextOffload("lpa")
        \/ "tko" \in ctx /\ (Goto("lpa", "enable") \/ Count("lpa", "activate", 1))
    BY <1>1 DEF TkoSleep
  <2>3. CASE NextOffload("lpa") BY <2>1, <2>3, KeepNext DEF DevShape
  <2>4. CASE "tko" \in ctx /\ Goto("lpa", "enable")
    <3>1. KeepWays' BY <1>parts, <2>1, <2>4, KeepGoes
    <3> QED BY <2>1, <3>1 DEF DevShape
  <2>5. CASE "tko" \in ctx /\ Count("lpa", "activate", 1)
    <3>1. KeepWays' BY <1>parts, <2>1, <2>5, KeepGoes
    <3> QED BY <2>1, <3>1 DEF DevShape
  <2> QED BY <2>2, <2>3, <2>4, <2>5
<1>2. CASE TkoActivated
  <2>1. UNCHANGED <<cfg, ctx, faults, sock, peer, tkoDev>> BY <1>2 DEF TkoActivated, tcp, tko
  <2>2. CASE At("lpa", "sleep", "tko", "activate") /\ NextOffload("lpa")
    BY <2>1, <2>2, KeepNext DEF DevShape
  <2>3. CASE At("lpa", "sleep", "tko", "found") /\ Goto("lpa", "enable")
    <3>1. "found" # "start" OBVIOUS
    <3>2. KeepWays' BY <1>parts, <2>1, <2>3, <3>1, KeepGoes
    <3> QED BY <2>1, <3>2 DEF DevShape
  <2> QED BY <1>2, <2>2, <2>3 DEF TkoActivated
<1>3. CASE TkoToggleOn
  <2>1. /\ UNCHANGED <<cfg, ctx, sock, peer>> /\ faults \subseteq faults'
        /\ At("lpa", "sleep", "tko", "enable") /\ Goto("lpa", "register")
    BY <1>3, FaultsGrow DEF TkoToggleOn, tcp
  <2>2. PICK ok \in BOOLEAN : tkoDev' = [tkoDev EXCEPT !.on = @ \/ ok] BY <1>3 DEF TkoToggleOn
  <2>3. /\ tkoDev'.conns = tkoDev.conns
        /\ tkoDev' = [on |-> tkoDev'.on, conns |-> tkoDev'.conns]
    BY <2>2 DEF DevShape
  <2>4. "enable" # "start" OBVIOUS
  <2>5. KeepWays' BY <1>parts, <2>1, <2>3, <2>4, KeepGoes
  <2> QED BY <2>3, <2>5 DEF DevShape
<1>4. CASE TkoRegister
  <2>1. /\ UNCHANGED <<cfg, ctx, sock, peer, tkoDev>>
        /\ At("lpa", "sleep", "tko", "register") /\ Goto("lpa", "mark")
    BY <1>4 DEF TkoRegister, tcp
  <2>2. faults \subseteq faults' BY <1>4 DEF TkoRegister, Register, Note
  <2>3. "register" # "start" OBVIOUS
  <2>4. KeepWays' BY <1>parts, <2>1, <2>2, <2>3, KeepGoes
  <2> QED BY <2>1, <2>4 DEF DevShape
<1>5. CASE TkoMark
  <2>1. /\ UNCHANGED <<cfg, ctx, faults, sock, peer, tkoDev>>
        /\ At("lpa", "sleep", "tko", "mark") /\ NextOffload("lpa")
    BY <1>5 DEF TkoMark, tcp
  <2> QED BY <2>1, KeepNext DEF DevShape
<1> QED BY <1>1, <1>2, <1>3, <1>4, <1>5

\* The other threads write the offload's own data.
LEMMA KeepAside ==
  ASSUME KeepWays, TkoEvent \/ TkoHandler \/ UpdateClear \/ UpdateWrite
  PROVE  KeepWays' /\ tkoDev' = tkoDev
<1>1. UNCHANGED <<cfg, pc, ctx, sock, peer, tkoDev>>
  BY DEF TkoEvent, TkoHandler, UpdateClear, UpdateWrite, env, tcp, tko
<1>2. faults \subseteq faults'
  BY DEF TkoEvent, TkoHandler, UpdateClear, UpdateWrite, env, Note
<1> QED BY <1>1, <1>2, KeepNet

KeepInv == TlsInv /\ PlainWays /\ DevShape /\ KeepWays

\* The device begins without a connection.
LEMMA KeepInitially == Init => KeepInv
<1> SUFFICES ASSUME Init PROVE KeepInv OBVIOUS
<1>1. /\ session = NoSession /\ pc["lpa"].part = "start"
      /\ tkoDev = [on |-> FALSE, conns |-> [k \in 1 .. MaxTko |-> NoRecord]]
      /\ peer = [c \in Conns |-> [tcp |-> 0, tls |-> 0]]
  BY DEF Init, EnvInit, SocketsInit, TkoInitial, TlsInitial
<1>2. tkoDev.on = FALSE /\ tkoDev.conns = [k \in 1 .. MaxTko |-> NoRecord] BY <1>1
<1>3. DevShape BY <1>1, <1>2 DEF DevShape
<1>4. KeepWays
  <2>1. ~InSleep("tko") BY <1>1 DEF InSleep, Inside
  <2>2. \A k \in 1 .. MaxTko : tkoDev.conns[k].conn = NoConn BY <1>2 DEF NoRecord
  <2> QED BY <2>1, <2>2 DEF KeepWays
<1>5. AllInStep
  <2> DEFINE opened == [NoSocket EXCEPT !.st = "open", !.ka = TRUE]
  <2>1. /\ opened.tcp = 0 /\ opened.tls = 0 /\ NoSocket.tcp = 0 /\ NoSocket.tls = 0
    BY DEF NoSocket
  <2>2. sock = [c \in Conns |-> IF c \in MqttConns THEN opened ELSE NoSocket]
    BY DEF Init, SocketsInit
  <2> HIDE DEF opened
  <2> QED BY <1>1, <2>1, <2>2 DEF AllInStep, InStep
<1> QED BY <1>1, <1>3, <1>4, <1>5, TlsInitially DEF KeepInv, PlainWays

\* Every step keeps to it.
LEMMA KeepInvKeeps == KeepInv /\ [Next]_system => KeepInv'
<1> SUFFICES ASSUME KeepInv, [Next]_system PROVE KeepInv' OBVIOUS
<1>inv. TlsInv /\ PlainWays /\ DevShape /\ KeepWays BY DEF KeepInv
<1>pc. PcInv /\ Ranges /\ TableType BY <1>inv DEF TlsInv, WakeInv
<1>1. TlsInv' /\ PlainWays' BY <1>inv, TlsInvKeeps, PlainKeeps
<1>dev. tkoDev' = tkoDev => DevShape' BY <1>inv DEF DevShape
<1>2. CASE ~Own("tko")
  <2>1. tkoDev' = tkoDev BY <1>pc, <1>2, OthersLeaveTko DEF tko
  <2>2. KeepWays' BY <1>inv, <1>2, KeepOthers
  <2> QED BY <1>1, <1>dev, <2>1, <2>2 DEF KeepInv
<1>3. CASE Own("tko")
  <2>1. TkoStep \/ (InitClear("tko") /\ UNCHANGED <<tcp, tko>>) BY <1>3 DEF Own
  <2>2. CASE TkoInit \/ (InitClear("tko") /\ UNCHANGED <<tcp, tko>>)
    BY <1>inv, <1>pc, <1>1, <1>dev, <2>2, KeepInit DEF KeepInv
  <2>3. CASE TkoSleep \/ TkoActivated \/ TkoToggleOn \/ TkoRegister \/ TkoMark
    BY <1>inv, <1>pc, <1>1, <2>3, KeepSleep DEF KeepInv
  <2>4. CASE TkoActivate("activate") \/ TkoActivate("found")
    BY <1>inv, <1>1, <2>4, KeepActivate DEF KeepInv
  <2>5. CASE \E t \in Threads :
               TkoDisable(t) \/ TkoUnmark(t) \/ TkoDeregister(t) \/ TkoToggleOff(t)
    BY <1>inv, <1>pc, <1>1, <2>5, KeepDisable DEF KeepInv
  <2>6. CASE TkoEvent \/ TkoHandler \/ UpdateClear \/ UpdateWrite
    BY <1>inv, <1>1, <1>dev, <2>6, KeepAside DEF KeepInv
  <2> QED BY <2>1, <2>2, <2>3, <2>4, <2>5, <2>6 DEF TkoStep, Threads
<1> QED BY <1>2, <1>3

\* Asleep, the keep-alives of the device are about connections the host has, carry the
\* number before the one the peer expects next, and go to the peer or the gateway.  It is
\* not claimed once the device refused to be switched off or an init emptied the context
\* while the host slept, nor are the numbers beside a TLS offload, nor the address once
\* the search of NetX's ARP table found nothing and could not tell.
THEOREM KeepalivesAreLive == Spec => []KeepalivesLive
<1>1. KeepInv => KeepalivesLive
  <2> SUFFICES ASSUME KeepInv, Asleep, KeepFaults \cap faults = {},
                      NEW k \in 1 .. MaxTko, tkoDev.conns[k].conn # NoConn
               PROVE  LET r == tkoDev.conns[k] IN
                      /\ SockStats(r.conn) # {}
                      /\ sock[r.conn].st = "open" /\ "tls" \notin Range(cfg.list) =>
                           Inc(r.request) = peer[r.conn].tcp /\ r.response = peer[r.conn].tcp
                      /\ "noNextHop" \notin faults => r.mac \in {"peer", "gateway"}
    BY DEF KeepalivesLive, KeepFaults
  <2>1. Live(k) BY DEF KeepInv, KeepWays
  <2> QED BY <2>1 DEF Live, Plain
<1> QED BY <1>1, KeepInitially, KeepInvKeeps, PTL DEF Spec

-----------------------------------------------------------------------------
(* The types                                                               *)

\* A set of indices has a least one.
LEMMA LeastIndex == ASSUME NEW I, I \subseteq Nat, I # {} PROVE Min(I) \in I
<1> DEFINE less == OpToRel(<, Nat)
<1>1. IsWellFoundedOn(less, Nat) BY NatLessThanWellFounded
<1> HIDE DEF less
<1>2. PICK x \in I : \A y \in I : ~(<<y, x>> \in less) BY <1>1, WFMin
<1>3. ASSUME NEW y \in I PROVE x <= y
  <2>1. ~(y < x) BY <1>2 DEF OpToRel, less
  <2> QED BY <2>1
<1> QED BY <1>3 DEF Min

\* A list out of which a socket is taken is a list of sockets.
LEMMA RemovedType ==
  ASSUME NEW s \in Seq(Conns), NEW c
  PROVE  RemoveFirst(s, c) \in Seq(Conns)
<1>1. CASE \E i \in 1 .. Len(s) : s[i] = c
  <2> DEFINE k == SelectInSeq(s, LAMBDA v : v = c)
             I == { i \in 1 .. Len(s) : s[i] = c }
  <2>1. k \in 1 .. Len(s)
    <3>1. I \subseteq Nat /\ I # {} /\ I \subseteq 1 .. Len(s) BY <1>1
    <3>2. k = Min(I) BY <3>1 DEF SelectInSeq
    <3> HIDE DEF I, k
    <3> QED BY <3>1, <3>2, LeastIndex
  <2>2. RemoveFirst(s, c) = SubSeq(s, 1, k - 1) \o SubSeq(s, k + 1, Len(s))
    BY <1>1 DEF RemoveFirst, RemoveAt
  <2> HIDE DEF k
  <2>3. SubSeq(s, 1, k - 1) \in Seq(Conns) /\ SubSeq(s, k + 1, Len(s)) \in Seq(Conns)
    BY <2>1, SubSeqProperties
  <2> QED BY <2>2, <2>3, ConcatProperties
<1>2. CASE ~ \E i \in 1 .. Len(s) : s[i] = c BY <1>2 DEF RemoveFirst
<1> QED BY <1>1, <1>2

\* The application's thread has a connection while it is at work, and the list of
\* the created sockets holds connections.
AppType ==
  /\ created \in Seq(Conns)
  /\ app \in [at : {"idle", "created", "connecting", "connected", "send", "clearEntry",
                    "writeEntry", "copyConfig", "noteSocket", "setAddress"},
              conn : Conns \cup {NoConn}]
  /\ app.at # "idle" => app.conn \in Conns

\* It begins idle, with the sockets of the client in some order.
LEMMA AppInitially == Init => AppType
<1> SUFFICES ASSUME Init PROVE AppType OBVIOUS
<1>1. app = [at |-> "idle", conn |-> NoConn] BY DEF Init, SocketsInit
<1>2. MqttConns \subseteq Conns /\ IsFiniteSet(MqttConns)
  <2>1. cfg.conns \subseteq Conns /\ IsFiniteSet(cfg.conns)
    BY SocketAssumption DEF Init, EnvInit
  <2> QED BY <2>1, FS_EmptySet DEF MqttConns
<1>3. Cardinality(MqttConns) \in Nat BY <1>2, FS_CardinalityType
<1>4. created \in [1 .. Cardinality(MqttConns) -> MqttConns]
  BY DEF Init, SocketsInit, SetToSeqs
<1>5. created \in Seq(Conns) BY <1>2, <1>3, <1>4, SeqDef
<1> QED BY <1>1, <1>5 DEF AppType

\* Every step of the application's thread and of the stack keeps to it.
LEMMA AppKeeps ==
  ASSUME AppType, owned \subseteq Conns, [Next]_system
  PROVE  AppType'
<1> USE DEF AppGoto
<1>goto. ASSUME NEW at \in {"idle", "created", "connecting", "connected", "send", "clearEntry",
                    "writeEntry", "copyConfig", "noteSocket", "setAddress"},
                NEW c \in Conns \cup {NoConn}, at # "idle" => c \in Conns,
                app' = [at |-> at, conn |-> c], created' \in Seq(Conns)
         PROVE  AppType'
  BY <1>goto DEF AppType
<1>type. created \in Seq(Conns) /\ (app.at # "idle" => app.conn \in Conns) BY DEF AppType
<1>same. ASSUME app' = app, created' \in Seq(Conns) PROVE AppType' BY <1>same DEF AppType
<1>1. ASSUME NEW c \in Conns, SocketCreate(c) PROVE AppType'
  <2>1. created' = Append(created, c) /\ app' = [at |-> "created", conn |-> c]
    BY <1>1 DEF SocketCreate
  <2>2. created' \in Seq(Conns) BY <2>1, <1>type, AppendProperties
  <2> QED BY <1>goto, <2>1, <2>2
<1>2. CASE BindFails \/ ConnectFails
  <2>1. created' \in Seq(Conns)
    BY <1>2, <1>type, RemovedType DEF BindFails, ConnectFails, DeleteSocket
  <2>2. app' = [at |-> "idle", conn |-> NoConn] BY <1>2 DEF BindFails, ConnectFails
  <2> QED BY <1>goto, <2>1, <2>2
<1>3. CASE BindConnect BY <1>3, <1>type, <1>goto DEF BindConnect
<1>4. CASE Connected BY <1>4, <1>type, <1>goto DEF Connected
<1>5. CASE \E k \in KeepaliveChoices : SetOptions(k) BY <1>5, <1>type, <1>goto DEF SetOptions
<1>6. CASE SendFirst BY <1>6, <1>type, <1>goto DEF SendFirst
<1>7. ASSUME NEW c \in Conns, Close(c) PROVE AppType'
  <2>1. created' \in Seq(Conns) BY <1>7, <1>type, RemovedType DEF Close
  <2>2. app' = app BY <1>7 DEF Close
  <2> QED BY <1>same, <2>1, <2>2
<1>8. CASE \E c \in Conns : Transfer(c) \/ TimeWaitEnds(c)
  BY <1>8, <1>type, <1>same DEF Transfer, TimeWaitEnds
<1>9. CASE SocketsStep
  BY <1>1, <1>2, <1>3, <1>4, <1>5, <1>6, <1>7, <1>8, <1>9 DEF SocketsStep
<1>10. CASE UpdateClear BY <1>10, <1>type, <1>goto DEF UpdateClear
<1>11. CASE UpdateWrite BY <1>11, <1>type, <1>goto DEF UpdateWrite
<1>12. CASE TkoStep /\ ~UpdateClear /\ ~UpdateWrite
  BY <1>12, <1>type, <1>same
  DEF TkoStep, TkoInit, TkoSleep, TkoActivate, TkoActivated, TkoToggleOn, TkoRegister, TkoMark,
      TkoDisable, TkoUnmark, TkoDeregister, TkoToggleOff, TkoEvent, TkoHandler, tcp
<1>13. ASSUME NEW c \in Conns, ConfigClear(c) \/ SetPorts(c) PROVE AppType'
  BY <1>13, <1>type, <1>goto DEF ConfigClear, SetPorts
<1>14. CASE ConfigCopy BY <1>14, <1>type, <1>goto DEF ConfigCopy
<1>15. CASE ConfigSocket \/ SetAddress BY <1>15, <1>type, <1>goto, SMTT(40) DEF ConfigSocket, SetAddress
<1>16. CASE \/ TlsInit \/ TlsDeinit
            \/ TlsSleep \/ TlsPattern \/ TlsActivate \/ TlsCleanUp \/ TlsProtect \/ TlsRegister
            \/ TlsWake \/ TlsRestore \/ TlsRelease \/ TlsClear \/ TlsDeregister
            \/ DeviceSends \/ WakeEvent \/ TlsHandler
  BY <1>16, <1>type, <1>same
  DEF TlsInit, TlsDeinit, TlsSleep, TlsPattern, TlsActivate, TlsCleanUp, TlsProtect, TlsRegister,
      TlsWake, TlsRestore, TlsRelease, TlsClear, TlsDeregister, DeviceSends, WakeEvent,
      TlsHandler, tcp
<1>17. CASE TlsStep BY <1>13, <1>14, <1>15, <1>16, <1>17 DEF TlsStep
<1>18. CASE ~SocketsStep /\ ~TkoStep /\ ~TlsStep
  <2>1. UNCHANGED <<created, app>>
    BY <1>18 DEF Next, ManagerStep, Connect, Disconnect, LoopDone, Inactive, SleepDone, WakeUp,
      AwakeDone, OthersUnchanged, WowlStep, WowlInit, WowlDeinit, WowlConfigure, WowlSet,
      WowlActivate, WowlUndo, WowlWake, WowlDelete, WowlDone, WowlVars, system, tcp
  <2> QED BY <2>1, <1>type, <1>same, SMTT(40)
<1> QED BY <1>9, <1>10, <1>11, <1>12, <1>17, <1>18

\* The application's thread writes the entry that it has cleared, and nobody else is
\* about to.
TableIndex == app.at = "writeEntry" => portsIx < MaxTko

KeepRecords ==
  [conn : Conns \cup {NoConn}, request : SeqNums, response : SeqNums,
   mac : {"none", "peer", "gateway", "unset"}]

\* The offload begins without connections, and its device too.
LEMMA TkoTypeInitially == Init => TkoType /\ TableIndex
<1> SUFFICES ASSUME Init PROVE TkoType /\ TableIndex OBVIOUS
<1>1. NoRecord \in KeepRecords BY SocketValues DEF NoRecord, KeepRecords
<1>2. [k \in 1 .. MaxTko |-> NoRecord] \in [1 .. MaxTko -> KeepRecords] BY <1>1
<1>3. 0 \in 0 .. MaxTko BY TkoAssumption
<1>4. TkoType BY <1>2, <1>3 DEF Init, TkoInitial, TkoType, KeepRecords
<1>5. TableIndex BY DEF Init, SocketsInit, TableIndex
<1> QED BY <1>4, <1>5

\* The index is that of an entry whenever one is written, although it counts up to the
\* size of the table before it begins again.
LEMMA TkoTypeKeeps ==
  ASSUME PcInv, TableType, AppType, sock \in [Conns -> SocketRecord], TkoType, TableIndex,
         [Next]_system
  PROVE  TkoType' /\ TableIndex'
<1>type. /\ ports \in [1 .. MaxTko -> Conns \cup {NoConn}] /\ portsIx \in 0 .. MaxTko
         /\ tkoOn \in BOOLEAN /\ tkoEntry \in Slots \cup {NoEntry}
         /\ tkoDev \in [on : BOOLEAN, conns : [1 .. MaxTko -> KeepRecords]]
         /\ MaxTko \in Nat \ {0}
  BY TkoAssumption DEF TkoType, KeepRecords
<1>same. ASSUME UNCHANGED <<ports, portsIx, app>>, tkoOn' \in BOOLEAN,
                tkoEntry' \in Slots \cup {NoEntry},
                tkoDev' \in [on : BOOLEAN, conns : [1 .. MaxTko -> KeepRecords]]
         PROVE  TkoType' /\ TableIndex'
  BY <1>same, <1>type DEF TkoType, TableIndex, KeepRecords
<1>off. [on |-> FALSE, conns |-> [k \in 1 .. MaxTko |-> NoRecord]]
          \in [on : BOOLEAN, conns : [1 .. MaxTko -> KeepRecords]]
  <2>1. NoRecord \in KeepRecords BY SocketValues DEF NoRecord, KeepRecords
  <2> QED BY <2>1
<1>1. CASE TkoInit
  <2>1. ports' \in [1 .. MaxTko -> Conns \cup {NoConn}]
    BY <1>1, <1>type, TkoAssumption DEF TkoInit, PcInv
  <2>2. UNCHANGED <<portsIx, tkoOn, tkoEntry, tkoDev, app>> BY <1>1 DEF TkoInit, tcp
  <2> QED BY <1>type, <2>1, <2>2 DEF TkoType, TableIndex, KeepRecords
<1>2. CASE TkoSleep \/ TkoActivated \/ TkoEvent
  BY <1>2, <1>type, <1>same DEF TkoSleep, TkoActivated, TkoEvent, tko, tcp
<1>3. ASSUME NEW part, TkoActivate(part) PROVE TkoType' /\ TableIndex'
  <2> DEFINE k == pc["lpa"].k
  <2>1. UNCHANGED <<ports, portsIx, tkoOn, tkoEntry, app>> BY <1>3 DEF TkoActivate, tcp
  <2>2. CASE UNCHANGED tkoDev BY <1>type, <1>same, <2>1, <2>2
  <2>3. ASSUME NEW c \in SockStats(ports[k]), NEW hop \in NextHops,
               tkoDev' = [tkoDev EXCEPT !.conns[k] = ConnectRecord(c, hop)]
        PROVE  TkoType' /\ TableIndex'
    <3>1. c \in Conns BY DEF SockStats
    <3>2. hop \in {"peer", "gateway", "unset"} BY DEF NextHops
    <3>3. sock[c].tcp \in SeqNums BY <3>1 DEF SocketRecord
    <3>4. \A n \in SeqNums : Dec(n) \in SeqNums BY SocketAssumption DEF SeqNums, Dec
    <3>5. ConnectRecord(c, hop) \in KeepRecords
      BY <3>1, <3>2, <3>3, <3>4 DEF ConnectRecord, KeepRecords
    <3> HIDE DEF k
    <3>6. tkoDev' \in [on : BOOLEAN, conns : [1 .. MaxTko -> KeepRecords]]
      BY <1>type, <2>3, <3>5
    <3> QED BY <1>type, <1>same, <2>1, <3>6
  <2>4. \/ UNCHANGED tkoDev
        \/ \E c \in SockStats(ports[k]) : \E hop \in NextHops :
             tkoDev' = [tkoDev EXCEPT !.conns[k] = ConnectRecord(c, hop)]
    BY <1>3 DEF TkoActivate
  <2> QED BY <2>2, <2>3, <2>4
<1>4. CASE TkoToggleOn
  <2>1. PICK ok \in BOOLEAN : tkoDev' = [tkoDev EXCEPT !.on = @ \/ ok]
    BY <1>4 DEF TkoToggleOn
  <2>2. tkoDev' \in [on : BOOLEAN, conns : [1 .. MaxTko -> KeepRecords]] BY <2>1, <1>type
  <2> QED BY <1>4, <1>type, <1>same, <2>2 DEF TkoToggleOn, tcp
<1>5. CASE TkoRegister BY <1>5, <1>type, <1>same DEF TkoRegister, tcp
<1>6. CASE TkoMark BY <1>6, <1>type, <1>same DEF TkoMark, tcp
<1>7. ASSUME NEW t, TkoDisable(t) \/ TkoUnmark(t) \/ TkoDeregister(t)
      PROVE  TkoType' /\ TableIndex'
  BY <1>7, <1>type, <1>same DEF TkoDisable, TkoUnmark, TkoDeregister, tko, tcp
<1>8. ASSUME NEW t, TkoToggleOff(t) PROVE TkoType' /\ TableIndex'
  BY <1>8, <1>type, <1>off, <1>same DEF TkoToggleOff, tcp
<1>9. CASE TkoHandler BY <1>9, <1>type, <1>same DEF TkoHandler, tcp
<1>10. CASE UpdateClear
  <2> DEFINE ix == IF portsIx = MaxTko THEN 0 ELSE portsIx
  <2>1. /\ portsIx' = ix /\ ports' = [ports EXCEPT ![ix + 1] = NoConn]
        /\ UNCHANGED <<tkoOn, tkoEntry, tkoDev>>
    BY <1>10 DEF UpdateClear
  <2>2. ix \in 0 .. MaxTko /\ ix < MaxTko BY <1>type
  <2> HIDE DEF ix
  <2>3. ports' \in [1 .. MaxTko -> Conns \cup {NoConn}] BY <1>type, <2>1
  <2> QED BY <1>type, <2>1, <2>2, <2>3 DEF TkoType, TableIndex, KeepRecords
<1>11. CASE UpdateWrite
  <2>1. /\ portsIx' = portsIx + 1 /\ ports' = [ports EXCEPT ![portsIx + 1] = app.conn]
        /\ UNCHANGED <<tkoOn, tkoEntry, tkoDev>>
        /\ app.at = "writeEntry" /\ app' = [at |-> "idle", conn |-> NoConn]
    BY <1>11 DEF UpdateWrite, AppGoto
  <2>2. portsIx' \in 0 .. MaxTko BY <1>type, <2>1 DEF TableIndex
  <2>3. app.conn \in Conns BY <2>1 DEF AppType
  <2>4. ports' \in [1 .. MaxTko -> Conns \cup {NoConn}] BY <1>type, <2>1, <2>3
  <2>5. app'.at # "writeEntry" BY <2>1
  <2> QED BY <1>type, <2>1, <2>2, <2>4, <2>5 DEF TkoType, TableIndex, KeepRecords
<1>12. CASE TkoStep
  BY <1>1, <1>2, <1>3, <1>4, <1>5, <1>6, <1>7, <1>8, <1>9, <1>10, <1>11, <1>12 DEF TkoStep
<1>13. CASE InitClear("tko") /\ UNCHANGED <<tcp, tko>>
  BY <1>13, <1>type, <1>same DEF tcp, tko
<1>14. CASE ~Own("tko")
  <2>1. UNCHANGED tko BY <1>14, OthersLeaveTko
  <2>2. app' = app \/ app'.at # "writeEntry"
    <3>0. \A from, to, c : AppGoto(from, to, c) => app'.at = to BY DEF AppGoto
    <3>1. CASE SocketsStep
      BY <3>0, <3>1 DEF SocketsStep, SocketCreate, Transfer, Close, TimeWaitEnds, BindFails, BindConnect,
         ConnectFails, Connected, SetOptions, SendFirst
    <3>2. CASE TlsStep
      BY <3>0, <3>2 DEF TlsStep, TlsInit, TlsDeinit, TlsSleep, TlsPattern, TlsActivate, TlsCleanUp,
         TlsProtect, TlsRegister, TlsWake, TlsRestore, TlsRelease, TlsClear, TlsDeregister,
         DeviceSends, WakeEvent, TlsHandler, ConfigClear, SetPorts, ConfigCopy, ConfigSocket,
         SetAddress, tcp
    <3>3. CASE ~SocketsStep /\ ~TlsStep /\ ~TkoStep
      BY <3>3 DEF Next, ManagerStep, Connect, Disconnect, LoopDone, Inactive, SleepDone, WakeUp,
        AwakeDone, OthersUnchanged, WowlStep, WowlInit, WowlDeinit, WowlConfigure, WowlSet,
        WowlActivate, WowlUndo, WowlWake, WowlDelete, WowlDone, WowlVars, system, tcp
    <3> QED BY <1>14, <3>1, <3>2, <3>3 DEF Own
  <2>3. UNCHANGED <<ports, portsIx, tkoOn, tkoEntry, tkoDev>> BY <2>1 DEF tko
  <2> QED BY <2>2, <2>3 DEF TkoType, TableIndex
<1> QED BY <1>12, <1>13, <1>14 DEF Own

\* A session is that of a connection.
SessionConn == Holds => session.conn \in Conns

\* There is no session at first.
LEMMA TlsTypeInitially == Init => TlsType /\ SessionConn
<1> SUFFICES ASSUME Init PROVE TlsType /\ SessionConn OBVIOUS
<1>1. /\ mqtt = NoMqtt /\ tcpReset = FALSE /\ tlsEntry = NoEntry
      /\ session = NoSession /\ woken = {} /\ protection = 0
  BY DEF Init, TlsInitial
<1>2. mqtt \in [conn : Conns \cup {NoConn}, socket : Conns \cup {NoConn}, pattern : BOOLEAN]
  BY <1>1 DEF NoMqtt
<1>3. session \in [conn : Conns \cup {NoConn}, tcp : SeqNums, tls : SeqNums]
  BY <1>1, SocketValues DEF NoSession
<1> QED BY <1>1, <1>2, <1>3 DEF TlsType, SessionConn, Holds

\* The entry and the session are about connections.
LEMMA TlsTypeKeeps ==
  ASSUME PcInv, WowlShape, AppType, owned \subseteq Conns, TlsType, SessionConn,
         session' \in SessionRecord, [Next]_system
  PROVE  TlsType' /\ SessionConn'
<1> DEFINE entries == [conn : Conns \cup {NoConn}, socket : Conns \cup {NoConn},
                       pattern : BOOLEAN]
<1>type. /\ mqtt \in entries /\ tcpReset \in BOOLEAN /\ tlsEntry \in Slots \cup {NoEntry}
         /\ woken \subseteq Conns /\ protection \in Nat
  BY DEF TlsType
<1>app. app.at # "idle" => app.conn \in Conns BY DEF AppType
<1>same. ASSUME mqtt' \in entries, tcpReset' \in BOOLEAN, tlsEntry' \in Slots \cup {NoEntry},
                woken' \subseteq Conns, protection' \in Nat,
                session' = session \/ session'.conn \in Conns \/ session' = NoSession
         PROVE  TlsType' /\ SessionConn'
  BY <1>same DEF TlsType, SessionConn, Holds, SessionRecord
<1>0. NoMqtt \in entries BY DEF NoMqtt
<1> HIDE DEF entries
<1>1. CASE TlsInit BY <1>1, <1>0, <1>type, <1>same DEF TlsInit
<1>2. CASE TlsDeinit \/ TlsSleep \/ TlsPattern \/ TlsCleanUp \/ TlsWake \/ TlsDeregister
  BY <1>2, <1>type, <1>same
  DEF TlsDeinit, TlsSleep, TlsPattern, TlsCleanUp, TlsWake, TlsDeregister, tls
<1>3. CASE TlsActivate
  <2>1. session' = session \/ \E c \in SecureStats(mqtt.conn) :
          session' = [conn |-> c, tcp |-> sock[c].tcp, tls |-> sock[mqtt.socket].tls]
    BY <1>3 DEF TlsActivate
  <2>2. session' = session \/ session'.conn \in Conns BY <2>1 DEF SecureStats
  <2> QED BY <1>3, <1>type, <1>same, <2>2 DEF TlsActivate
<1>4. CASE TlsProtect
  <2>1. protection' \in Nat BY <1>4, <1>type DEF TlsProtect
  <2> QED BY <1>4, <1>type, <1>same, <2>1 DEF TlsProtect
<1>5. CASE TlsRegister BY <1>5, <1>type, <1>same DEF TlsRegister
<1>6. CASE TlsRestore BY <1>6, <1>type, <1>same DEF TlsRestore, tls
<1>7. CASE TlsRelease
  <2>1. protection' \in Nat BY <1>7, <1>type DEF TlsRelease
  <2> QED BY <1>7, <1>type, <1>same, <2>1 DEF TlsRelease
<1>8. CASE TlsClear BY <1>8, <1>type, <1>same DEF TlsClear, TlsCommand
<1>9. CASE DeviceSends
  <2>1. session.conn \in Conns BY <1>9 DEF DeviceSends, SessionConn, Holds
  <2>2. session \in SessionRecord BY DEF TlsType, SessionRecord
  <2>3. session'.conn = session.conn BY <1>9, <2>2 DEF DeviceSends, SessionRecord
  <2> QED BY <1>9, <1>type, <1>same, <2>1, <2>3 DEF DeviceSends
<1>10. CASE WakeEvent
  <2>1. session.conn \in Conns BY <1>10 DEF WakeEvent, SessionConn, Holds
  <2> QED BY <1>10, <1>type, <1>same, <2>1 DEF WakeEvent
<1>11. CASE TlsHandler BY <1>11, <1>type, <1>same DEF TlsHandler
<1>12. ASSUME NEW c \in Conns, ConfigClear(c) \/ SetPorts(c) PROVE TlsType' /\ SessionConn'
  <2>1. mqtt' \in entries
    BY <1>0, <1>12, <1>type DEF ConfigClear, SetPorts, entries
  <2> QED BY <1>12, <1>type, <1>same, <2>1 DEF ConfigClear, SetPorts
<1>13. CASE ConfigCopy \/ ConfigSocket \/ SetAddress
  <2>1. app.conn \in Conns BY <1>13, <1>app DEF ConfigCopy, ConfigSocket, SetAddress, AppGoto
  <2>2. mqtt' \in entries
    BY <1>13, <1>type, <2>1 DEF ConfigCopy, ConfigSocket, SetAddress, entries
  <2> QED BY <1>13, <1>type, <1>same, <2>2 DEF ConfigCopy, ConfigSocket, SetAddress
<1>14. CASE ~TlsStep BY <1>14, <1>type, <1>same, OthersLeaveTls DEF tls
<1> QED
  BY <1>1, <1>2, <1>3, <1>4, <1>5, <1>6, <1>7, <1>8, <1>9, <1>10, <1>11, <1>12, <1>13, <1>14
  DEF TlsStep

\* The offloads with a context, and the handler that the WHD thread runs.
EventType == ctx \subseteq Offloads /\ whd \in [runs : {"tko", "tls", Free}, late : BOOLEAN]

\* No offload has one at first, and no handler runs.
LEMMA EventInitially == Init => EventType
BY DEF Init, EnvInit, EventType, Free

\* The WHD thread runs the handlers of the two offloads only.
LEMMA EventKeeps == ASSUME EventType, [Next]_system PROVE EventType'
<1> USE DEF EventType
<1>late. \A client \in {"tko", "tls", Free} : \A late \in BOOLEAN :
           whd' = [runs |-> client, late |-> late]
             => whd' \in [runs : {"tko", "tls", Free}, late : BOOLEAN]
  OBVIOUS
<1>has. /\ HasContext("tko") \subseteq Offloads /\ HasContext("tls") \subseteq Offloads
        /\ HasContext("wowl") \subseteq Offloads /\ HasContext("nko") \subseteq Offloads
        /\ HasContext("nullko") \subseteq Offloads
  BY DEF HasContext, Offloads
<1>1. CASE ManagerStep
  <2>1. UNCHANGED ctx BY <1>1 DEF ManagerStep, Connect, Disconnect, LoopDone, Inactive,
          SleepDone, WakeUp, AwakeDone, OthersUnchanged
  <2>2. UNCHANGED whd \/ OvertakeHandler
    BY <1>1 DEF ManagerStep, Connect, Disconnect, LoopDone, Inactive, SleepDone, WakeUp,
       AwakeDone, OthersUnchanged
  <2>3. OvertakeHandler => whd' \in [runs : {"tko", "tls", Free}, late : BOOLEAN]
    BY DEF OvertakeHandler
  <2> QED BY <2>1, <2>2, <2>3
<1>2. CASE SocketsStep
  BY <1>2 DEF SocketsStep, SocketCreate, Transfer, Close, TimeWaitEnds, BindFails, BindConnect,
      ConnectFails, Connected, SetOptions, SendFirst, env
<1>3. CASE TkoInit \/ TkoEvent \/ TkoHandler
  <2>1. CASE TkoInit BY <1>has, <2>1 DEF TkoInit
  <2>2. CASE TkoEvent BY <1>late, <2>2 DEF TkoEvent, Pick
  <2>3. CASE TkoHandler BY <1>late, <2>3 DEF TkoHandler
  <2> QED BY <1>3, <2>1, <2>2, <2>3
<1>4. CASE TkoStep /\ ~TkoInit /\ ~TkoEvent /\ ~TkoHandler
  BY <1>4 DEF TkoStep, TkoSleep, TkoActivate, TkoActivated, TkoToggleOn, TkoRegister, TkoMark,
      TkoDisable, TkoUnmark, TkoDeregister, TkoToggleOff, UpdateClear, UpdateWrite, env
<1>5. CASE TlsInit \/ WakeEvent \/ TlsHandler
  <2>1. CASE TlsInit BY <1>has, <2>1 DEF TlsInit
  <2>2. CASE WakeEvent BY <1>late, <2>2 DEF WakeEvent, Pick
  <2>3. CASE TlsHandler BY <1>late, <2>3, SMTT(40) DEF TlsHandler
  <2> QED BY <1>5, <2>1, <2>2, <2>3
<1>6. CASE TlsStep /\ ~TlsInit /\ ~WakeEvent /\ ~TlsHandler
  BY <1>6 DEF TlsStep, TlsDeinit, TlsSleep, TlsPattern, TlsActivate, TlsCleanUp,
     TlsProtect, TlsRegister, TlsWake, TlsRestore, TlsRelease, TlsClear, TlsDeregister,
     DeviceSends, ConfigClear, SetPorts, ConfigCopy, ConfigSocket, SetAddress
<1>7. CASE WowlStep
  BY <1>7, <1>has DEF WowlStep, WowlInit, WowlDeinit, WowlConfigure, WowlSet, WowlActivate,
     WowlUndo, WowlWake, WowlDelete, WowlDone, WowlVars
<1>8. CASE NatStep
  BY <1>8, <1>has
  DEF NatStep, NkoInit, NkoUnregister, NkoDisable, NkoForget, KeepAlivePm, AddressChanges,
      UpdateConfig, Details, Send, NullkoInit, NullkoDeinit
<1>9. CASE StackStep
  <2>1. UNCHANGED ctx
    BY <1>9 DEF StackStep, LwipSuspend, LwipResume, NetxSuspendIp, NetxStopTimers,
       NetxSuspendDhcp, NetxResumeDhcp, NetxResumeIp, BadState, DhcpChanges, StackVars, GoToSleep
  <2>2. UNCHANGED whd \/ OvertakeHandler
    BY <1>9 DEF StackStep, LwipSuspend, LwipResume, NetxSuspendIp, NetxStopTimers,
       NetxSuspendDhcp, NetxResumeDhcp, NetxResumeIp, BadState, DhcpChanges, StackVars, GoToSleep
  <2>3. OvertakeHandler => whd' \in [runs : {"tko", "tls", Free}, late : BOOLEAN]
    BY DEF OvertakeHandler
  <2> QED BY <2>1, <2>2, <2>3
<1>10. CASE AppRegister \/ \E o \in Offloads : InitClear(o)
  BY <1>10 DEF AppRegister, InitClear
<1>11. CASE UNCHANGED system BY <1>11 DEF system, env
<1> QED BY <1>1, <1>2, <1>3, <1>4, <1>5, <1>6, <1>7, <1>8, <1>9, <1>10, <1>11 DEF Next

\* The capabilities and the patterns that the device was given.
AllCaps     == {"MAGIC", "NET", "SECURE"}
DevPatterns == [offset : Nat, pattern : Seq(0 .. 255), mask : Seq(0 .. 255)]

WowlType ==
  /\ WowlShape
  /\ wowl.caps \subseteq AllCaps /\ wowl.armed \in BOOLEAN /\ wowl.patterns \subseteq DevPatterns

\* A text is converted to bytes, and so is a mask.
LEMMA ConvertedType ==
  ASSUME cfg \in Configs, NEW i \in DOMAIN Entries
  PROVE  Converted(Entries[i]) \in DevPatterns
<1> DEFINE e == Entries[i]
<1>1. Text(e.pattern, 128) /\ Text(e.mask, 16) /\ e.offset \in Nat BY EntryFacts, SMTT(40)
<1> HIDE DEF e
<1>2. /\ Size(e.pattern) \in Nat /\ TextBytes(e.pattern) \in [1 .. Size(e.pattern) -> 0 .. 255]
      /\ Size(e.mask) \in Nat /\ TextBytes(e.mask) \in [1 .. Size(e.mask) -> 0 .. 255]
  <2>1. 128 \in 3 .. 256 /\ 16 \in 3 .. 256 OBVIOUS
  <2> QED BY <1>1, <2>1, Bytes
<1>seq. \A n \in Nat : \A f : f \in [1 .. n -> 0 .. 255] => f \in Seq(0 .. 255)
  <2> DEFINE B == 0 .. 255
  <2>1. Seq(B) = UNION { [1 .. n -> B] : n \in Nat } BY SeqDef
  <2> HIDE DEF B
  <2>2. \A n \in Nat : \A f : f \in [1 .. n -> B] => f \in Seq(B) BY <2>1
  <2> QED BY <2>2 DEF B
<1>3. TextBytes(e.pattern) \in Seq(0 .. 255) BY <1>2, <1>seq
<1>4. \A b \in 0 .. 255 : ReverseBits(b) \in 0 .. 255
  <2> SUFFICES ASSUME NEW b \in 0 .. 255 PROVE ReverseBits(b) \in 0 .. 255 OBVIOUS
  <2>1. \A k \in 0 .. 7 : Bit(b, k) \in {0, 1} BY Bits
  <2> QED BY <2>1, SMTT(40) DEF ReverseBits
<1>5. MaskBytes(e.mask) \in [1 .. Size(e.mask) -> 0 .. 255]
  <2> DEFINE b == TextBytes(e.mask)
             B == 0 .. 255
             D == 1 .. Size(e.mask)
  <2>1. MaskBytes(e.mask) = [n \in DOMAIN b |-> ReverseBits(b[n])] BY Zenon DEF MaskBytes
  <2>2. b \in [D -> B] BY <1>2, SMTT(40)
  <2>3. \A m \in B : ReverseBits(m) \in B BY <1>4
  <2>4. SUFFICES MaskBytes(e.mask) \in [D -> B] OBVIOUS
  <2> HIDE DEF b, B, D
  <2>5. DOMAIN b = D /\ \A n \in D : ReverseBits(b[n]) \in B BY <2>2, <2>3, Zenon
  <2>6. MaskBytes(e.mask) = [n \in D |-> ReverseBits(b[n])] BY <2>1, <2>5, Zenon
  <2> QED BY <2>5, <2>6, Zenon
<1>6. MaskBytes(e.mask) \in Seq(0 .. 255) BY <1>2, <1>5, <1>seq
<1>7. Converted(e) = [offset |-> e.offset, pattern |-> TextBytes(e.pattern), mask |-> MaskBytes(e.mask)]
  BY DEF Converted
<1>8. Converted(e) \in DevPatterns BY <1>1, <1>3, <1>6, <1>7 DEF DevPatterns
<1> QED BY <1>8 DEF e

\* The device begins without capabilities and patterns.
LEMMA WowlInitially == Init => WowlType
<1> SUFFICES ASSUME Init PROVE WowlType OBVIOUS
<1>1. wowl = [caps |-> {}, armed |-> FALSE, patterns |-> {}, secure |-> FALSE]
  BY DEF Init, EnvInit
<1> QED BY <1>1 DEF WowlType, WowlShape

\* The entries are counted from the first.
Counted == At("lpa", "sleep", "wowl", "set") => pc["lpa"].k >= 1

\* Every step of the filter goes on from there.
LEMMA CountedKeeps == ASSUME PcInv, Ranges, Counted, [Next]_system PROVE Counted'
<1>type. /\ pc["lpa"] \in Place /\ PcType /\ "lpa" \in Threads /\ "net" \in Threads
  BY DEF PcInv, PcType, Threads
<1>count. \A p, k : Count("lpa", p, k) => pc'["lpa"].part = p /\ pc'["lpa"].k = k
  BY <1>type DEF Count, PcType, Place
<1>goto. \A p : Goto("lpa", p) => pc'["lpa"].part = p
  BY <1>type DEF Goto, PcType, Place
<1>next. NextOffload("lpa") => pc'["lpa"].part = "start"
  BY <1>type DEF NextOffload, PcType
<1>1. CASE ~Own("wowl")
  <2>1. Apart("wowl") BY <1>1, StepPlaces DEF Offloads
  <2>2. ASSUME At("lpa", "sleep", "wowl", "set")' PROVE pc'["lpa"].k >= 1
    <3>1. Inside("lpa", "wowl")' BY <2>2 DEF At, Inside, Walking
    <3>2. pc'["lpa"] = pc["lpa"] /\ cfg' = cfg BY <1>type, <2>1, <3>1 DEF Apart
    <3> QED BY <2>2, <3>2 DEF At, Counted
  <2> QED BY <2>2 DEF Counted
<1>2. CASE pc'["lpa"] = pc["lpa"] /\ cfg' = cfg BY <1>2 DEF Counted, At
<1>3. CASE InitClear("wowl")
  BY <1>2, <1>3, <1>type DEF InitClear, Goto, PcType
<1>4. CASE WowlInit
  BY <1>2, <1>4, <1>type DEF WowlInit, NextOffload, InitFails, Walk, PcType
<1>5. CASE pc'["lpa"].part # "set" \/ pc'["lpa"].k >= 1 BY <1>5 DEF Counted, At
<1>6. CASE WowlDeinit
  BY <1>2, <1>6, <1>type DEF WowlDeinit, NextOffload, PcType, WowlVars
<1>7. CASE WowlConfigure
  <2>1. pc'["lpa"].part = "start" \/ pc'["lpa"].k = 1
    BY <1>7, <1>next, <1>count DEF WowlConfigure
  <2> QED BY <1>5, <2>1
<1>8. CASE WowlSet
  <2>1. pc["lpa"].k >= 1 /\ pc["lpa"].k \in Nat
    BY <1>8, <1>type DEF WowlSet, WowlAt, Counted, Place
  <2>2. pc'["lpa"].k = pc["lpa"].k + 1 BY <1>8, <1>count DEF WowlSet
  <2> QED BY <1>5, <2>1, <2>2
<1>9. CASE WowlActivate
  <2>1. pc'["lpa"].part \in {"start", "undo"} BY <1>9, <1>next, <1>goto DEF WowlActivate
  <2> QED BY <1>5, <2>1
<1>10. CASE WowlUndo \/ WowlDone BY <1>5, <1>10, <1>next DEF WowlUndo, WowlDone
<1>11. CASE WowlWake \/ WowlDelete
  <2>1. pc'["lpa"].part \in {"start", "delete"}
    BY <1>11, <1>next, <1>count DEF WowlWake, WowlDelete
  <2> QED BY <1>5, <2>1
<1> QED BY <1>1, <1>3, <1>4, <1>6, <1>7, <1>8, <1>9, <1>10, <1>11 DEF Own, WowlStep

\* The device gets the capabilities and the converted patterns, and nothing else.
LEMMA WowlKeeps ==
  ASSUME PcInv, WowlType, Counted, mqtt.pattern \in BOOLEAN, [Next]_system
  PROVE  WowlType'
<1>type. /\ WowlShape /\ wowl.caps \subseteq AllCaps /\ wowl.armed \in BOOLEAN
         /\ wowl.patterns \subseteq DevPatterns /\ wowl.secure \in BOOLEAN
  BY DEF WowlType, WowlShape
<1>same. UNCHANGED wowl => WowlType' BY <1>type DEF WowlType, WowlShape
<1>clear. WowlClear => WowlType' BY <1>type, WowlWrites, ZenonT(40) DEF WowlClear, WowlType
<1>delete. ASSUME NEW ok \in BOOLEAN, DeletePattern(ok) PROVE WowlType'
  <2> DEFINE s == IF mqtt.pattern THEN PatternAfter(FALSE, ok) ELSE wowl.secure
  <2>1. s \in BOOLEAN BY <1>type DEF PatternAfter
  <2>2. wowl' = [wowl EXCEPT !.secure = s] BY <1>delete DEF DeletePattern
  <2> HIDE DEF s
  <2> QED BY <1>type, <2>1, <2>2, WowlWrites DEF WowlType
<1>1. CASE TlsPattern
  <2>1. PICK capsSet \in BOOLEAN, added \in BOOLEAN :
          wowl' = [wowl EXCEPT
            !.caps = IF capsSet /\ wowl.caps \cap SecureCaps # SecureCaps
                     THEN SecureCaps ELSE @,
            !.secure = IF mqtt.pattern THEN PatternAfter(TRUE, added) ELSE @]
    BY <1>1 DEF TlsPattern
  <2> DEFINE c == IF capsSet /\ wowl.caps \cap SecureCaps # SecureCaps
                  THEN SecureCaps ELSE wowl.caps
             s == IF mqtt.pattern THEN PatternAfter(TRUE, added) ELSE wowl.secure
  <2>2. wowl' = [wowl EXCEPT !.caps = c, !.secure = s] BY <2>1
  <2>3. c \subseteq AllCaps BY <1>type DEF SecureCaps, AllCaps
  <2>4. s \in BOOLEAN BY <1>type DEF PatternAfter
  <2> HIDE DEF c, s
  <2>5. /\ WowlShape' /\ wowl'.patterns = wowl.patterns /\ wowl'.caps = c
        /\ wowl'.armed = wowl.armed
    BY <1>type, <2>2, <2>4 DEF WowlShape
  <2> QED BY <1>type, <2>3, <2>5 DEF WowlType
<1>2. CASE TlsCleanUp BY <1>2, <1>delete DEF TlsCleanUp
<1>3. CASE TlsWake BY <1>3, <1>same, <1>delete DEF TlsWake
<1>4. CASE TlsClear BY <1>4, <1>same, <1>clear DEF TlsClear, TlsCommand
<1>5. CASE TlsStep /\ ~TlsPattern /\ ~TlsCleanUp /\ ~TlsWake /\ ~TlsClear
  BY <1>5, <1>same DEF TlsStep, TlsInit, TlsDeinit, TlsSleep, TlsActivate,
     TlsProtect, TlsRegister, TlsRestore, TlsRelease, TlsDeregister,
     DeviceSends, WakeEvent, TlsHandler, ConfigClear, SetPorts, ConfigCopy, ConfigSocket, SetAddress
<1>6. CASE WowlInit \/ WowlUndo BY <1>6, <1>same DEF WowlInit, WowlUndo
<1>7. CASE WowlDeinit \/ WowlDone BY <1>7, <1>same, <1>clear DEF WowlDeinit, WowlDone
<1>8. CASE WowlConfigure
  <2>1. ConfiguredCaps \subseteq AllCaps BY DEF ConfiguredCaps, AllCaps
  <2>2. UNCHANGED wowl \/ wowl' = [wowl EXCEPT !.caps = ConfiguredCaps]
    BY <1>8 DEF WowlConfigure
  <2> HIDE DEF ConfiguredCaps
  <2> QED BY <1>type, <1>same, <2>1, <2>2, WowlWrites DEF WowlType
<1>entry. ASSUME NEW k \in Nat, k \in DOMAIN Entries PROVE Converted(Entries[k]) \in DevPatterns
  BY <1>entry, ConvertedType DEF PcInv
<1>k. pc["lpa"].k \in Nat BY DEF PcInv, PcType, Place, Threads
<1>9. CASE WowlSet
  <2> DEFINE k == pc["lpa"].k
  <2>1. PICK ok \in BOOLEAN :
          wowl' = [wowl EXCEPT
            !.caps = IF "NET" \in @ THEN @ ELSE {"NET"},
            !.patterns = IF ok /\ ~MaskInvalid(Entries[k].mask)
                         THEN @ \cup {Converted(Entries[k])} ELSE @]
    BY <1>9 DEF WowlSet
  <2> DEFINE c == IF "NET" \in wowl.caps THEN wowl.caps ELSE {"NET"}
             p == IF ok /\ ~MaskInvalid(Entries[k].mask)
                  THEN wowl.patterns \cup {Converted(Entries[k])} ELSE wowl.patterns
  <2>2. wowl' = [wowl EXCEPT !.caps = c, !.patterns = p] BY <2>1
  <2>3. c \subseteq AllCaps BY <1>type DEF AllCaps
  <2>4. p \subseteq DevPatterns
    <3>1. k >= 1 /\ k <= Len(Entries) BY <1>9 DEF WowlSet, WowlAt, Counted
    <3>2. k \in Nat BY <1>k
    <3> HIDE DEF k
    <3>3. Len(Entries) \in Nat /\ DOMAIN Entries = 1 .. Len(Entries) BY EntryFacts DEF PcInv
    <3>4. Converted(Entries[k]) \in DevPatterns BY <1>entry, <3>1, <3>2, <3>3
    <3> QED BY <1>type, <3>4
  <2> HIDE DEF c, p
  <2>5. WowlShape' /\ wowl'.patterns = p /\ wowl'.caps = c /\ wowl'.armed = wowl.armed
    BY <1>type, <2>2, WowlWrites
  <2> QED BY <1>type, <2>3, <2>4, <2>5 DEF WowlType
<1>10. CASE WowlDelete
  <2> DEFINE k == pc["lpa"].k
  <2>1. PICK ok \in BOOLEAN :
          wowl' = [wowl EXCEPT
            !.patterns = IF ok /\ ~MaskInvalid(Entries[k].mask)
                         THEN @ \ {Converted(Entries[k])} ELSE @]
    BY <1>10 DEF WowlDelete
  <2> DEFINE p == IF ok /\ ~MaskInvalid(Entries[k].mask)
                  THEN wowl.patterns \ {Converted(Entries[k])} ELSE wowl.patterns
  <2>2. wowl' = [wowl EXCEPT !.patterns = p] BY <2>1
  <2>3. p \subseteq DevPatterns BY <1>type
  <2> HIDE DEF p
  <2>4. /\ WowlShape' /\ wowl'.patterns = p /\ wowl'.caps = wowl.caps
        /\ wowl'.armed = wowl.armed
    BY <1>type, <2>2, WowlWrites
  <2> QED BY <1>type, <2>3, <2>4 DEF WowlType
<1>11. CASE WowlActivate BY <1>11, <1>type, <1>same, WowlWrites DEF WowlActivate, WowlType
<1>12. CASE WowlWake
  <2>1. UNCHANGED wowl \/ \E ok \in BOOLEAN : wowl' = [wowl EXCEPT !.armed = @ /\ ~ok]
    BY <1>12 DEF WowlWake
  <2>2. ASSUME NEW ok \in BOOLEAN, wowl' = [wowl EXCEPT !.armed = @ /\ ~ok] PROVE WowlType'
    <3> DEFINE a == wowl.armed /\ ~ok
    <3>1. wowl' = [wowl EXCEPT !.armed = a] /\ a \in BOOLEAN BY <2>2
    <3> HIDE DEF a
    <3> QED BY <1>type, <3>1, WowlWrites DEF WowlType
  <2> QED BY <1>same, <2>1, <2>2
<1>13. CASE ~TlsStep /\ ~WowlStep BY <1>13, <1>same, OthersLeaveDevice
<1> QED
  BY <1>1, <1>2, <1>3, <1>4, <1>5, <1>6, <1>7, <1>8, <1>9, <1>10, <1>11, <1>12, <1>13
  DEF WowlStep

\* With what the earlier invariants say of the two threads, the stack, the sockets
\* and the session.
TypeInv ==
  /\ TlsInv /\ StackInv /\ NatType
  /\ AppType /\ TkoType /\ TableIndex /\ TlsType /\ SessionConn /\ EventType /\ Counted /\ WowlType

\* Every variable of the system stays in its type: the indices of the walk and of the
\* tables, what the device is given and every part a thread can be at.
THEOREM TypesAreCorrect == Spec => []TypeOK
<1>inv. TlsInv => /\ cfg \in Configs /\ PcInv /\ PcType /\ Ranges /\ TableType /\ WowlShape
                  /\ sock \in [Conns -> SocketRecord] /\ session \in SessionRecord
                  /\ owned \subseteq Conns /\ peer \in [Conns -> [tcp : SeqNums, tls : SeqNums]]
  BY DEF TlsInv, WakeInv, PcInv, SocketInv, SocketWays
<1>1. Init => TypeInv
  <2> SUFFICES ASSUME Init PROVE TypeInv OBVIOUS
  <2>1. TlsInv /\ StackInv BY TlsInitially, StackInitially
  <2>2. AppType /\ TkoType /\ TableIndex /\ TlsType /\ SessionConn /\ EventType /\ WowlType
    BY AppInitially, TkoTypeInitially, TlsTypeInitially, EventInitially, WowlInitially
  <2>3. Counted BY DEF Init, EnvInit, Counted, At
  <2>4. NatType BY DEF Init, NatInitial, NatType, NoPacket, Resting
  <2> QED BY <2>1, <2>2, <2>3, <2>4 DEF TypeInv
<1>2. TypeInv /\ [Next]_system => TypeInv'
  <2> SUFFICES ASSUME TypeInv, [Next]_system PROVE TypeInv' OBVIOUS
  <2>inv. /\ TlsInv /\ StackInv /\ NatType
          /\ AppType /\ TkoType /\ TableIndex /\ TlsType /\ SessionConn /\ EventType /\ Counted /\ WowlType
    BY DEF TypeInv
  <2>1. TlsInv' BY <2>inv, TlsInvKeeps
  <2>2. StackInv' /\ NatType' BY <2>inv, <1>inv, StepKeeps, NatTypeKeeps
  <2>3. AppType' BY <2>inv, <1>inv, AppKeeps
  <2>4. TkoType' /\ TableIndex' BY <2>inv, <1>inv, TkoTypeKeeps
  <2>5. TlsType' /\ SessionConn'
    <3>1. session' \in SessionRecord BY <2>1 DEF TlsInv, SocketInv
    <3> QED BY <2>inv, <1>inv, <3>1, TlsTypeKeeps
  <2>6. EventType' BY <2>inv, EventKeeps
  <2>7. Counted' BY <2>inv, <1>inv, CountedKeeps
  <2>8. WowlType'
    <3>1. mqtt.pattern \in BOOLEAN BY <2>inv DEF TlsType
    <3> QED BY <2>inv, <1>inv, <3>1, WowlKeeps
  <2> QED BY <2>1, <2>2, <2>3, <2>4, <2>5, <2>6, <2>7, <2>8 DEF TypeInv
<1>3. TypeInv => TypeOK
  <2> SUFFICES ASSUME TypeInv PROVE TypeOK OBVIOUS
  <2>inv. /\ TlsInv /\ StackInv /\ NatType /\ AppType /\ TkoType /\ TlsType /\ EventType
          /\ WowlType
    BY DEF TypeInv
  <2>1. pc \in [{"lpa", "net"} -> [at : Phases, i : Nat, last : Nat, part : Parts, k : Nat]]
    <3>1. pc \in [{"lpa", "net"} -> Place] BY <2>inv, <1>inv DEF PcType, Threads
    <3>2. Place \subseteq [at : Phases, i : Nat, last : Nat, part : Parts, k : Nat] BY DEF Place
    <3> QED BY <3>1, <3>2
  <2>2. wowl \in [caps : SUBSET {"MAGIC", "NET", "SECURE"}, armed : BOOLEAN,
                  patterns : SUBSET [offset : Nat, pattern : Seq(0 .. 255),
                                     mask : Seq(0 .. 255)],
                  secure : BOOLEAN]
    BY <2>inv DEF WowlType, WowlShape, AllCaps, DevPatterns
  <2>3. EnvType BY <2>inv, <1>inv, <2>1, <2>2 DEF EnvType, EventType, TableType
  <2>4. sock \in [Conns -> [st : {"none", "new", "syn", "open", "timeWait", "finWait2"},
                            ka : BOOLEAN, tcp : SeqNums, tls : SeqNums]]
    <3>1. SocketRecord = [st : {"none", "new", "syn", "open", "timeWait", "finWait2"},
                          ka : BOOLEAN, tcp : SeqNums, tls : SeqNums]
      <4>1. OpenStates \cup {"none", "timeWait", "finWait2"}
              = {"none", "new", "syn", "open", "timeWait", "finWait2"}
        BY DEF OpenStates
      <4> QED BY <4>1 DEF SocketRecord
    <3> QED BY <2>inv, <1>inv, <3>1
  <2>5. SocketsType BY <2>inv, <1>inv, <2>4 DEF SocketsType, AppType
  <2>6. StackType BY <2>inv DEF StackInv
  <2> QED BY <2>inv, <2>3, <2>5, <2>6 DEF TypeOK
<1> QED BY <1>1, <1>2, <1>3, PTL DEF Spec

-----------------------------------------------------------------------------
(* The packets                                                             *)

\* Whatever connections and payloads there are, a receiver accepts the TCP and NAT
\* keep-alives that prep_packet and cylpa_nko_prep_packet leave with the device:
\* the header, its checksum and that of the segment or datagram agree.
THEOREM PacketsAreAccepted == Spec => []ChecksumsVerify
<1>1. ChecksumsVerify BY SegmentsAreAccepted, DatagramsAreAccepted DEF ChecksumsVerify
<1> QED BY <1>1, PTL
=============================================================================
