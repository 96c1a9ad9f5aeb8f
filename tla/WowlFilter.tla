----------------------------- MODULE WowlFilter -----------------------------
(***************************************************************************)
(* The wake-on-WLAN pattern filter (source/cy_lpa_wifi_wowlpf_ol.c): on    *)
(* the way to sleep the capabilities and the patterns of the configuration *)
(* are written to the device and activated, on the way back they are       *)
(* removed.  Every command may fail.                                       *)
(*                                                                         *)
(* The manual excludes it together with the TLS offload ("only on non      *)
(* secure mode").                                                          *)
(***************************************************************************)
EXTENDS TlsOffload, WowlPatterns

CONSTANT Frames     \* the frames that may arrive for a sleeping host

ASSUME WowlAssumption ==
  /\ Frames \subseteq Seq(0 .. 255)
  /\ \A c \in Configs :
       /\ ~({"tls", "wowl"} \subseteq Range(c.list))
       \* The entries before the one with CY_WOWLPF_OL_FEAT_LAST, in the arrays of
       \* cy_wowlpf_ol_cfg_t: MAX_PATTERN_LEN, MAX_MASK_LEN.
       /\ c.wake \in Seq([pattern : Seq(0 .. 127), mask : Seq(0 .. 127), offset : Nat])
       /\ \A i \in DOMAIN c.wake : Text(c.wake[i].pattern, 128) /\ Text(c.wake[i].mask, 16)

Entries == cfg.wake

WowlAt(at, part) == At("lpa", at, "wowl", part)

WowlVars == <<cfg, ctx, table, whd, tcp, tko, tls>>

\* The text of the terminating entry, which is empty.
LastEntry == [pattern |-> <<>>, mask |-> <<>>, offset |-> 0]

-----------------------------------------------------------------------------
WowlInit ==
  /\ At("net", "init", "wowl", "fill")
  /\ ctx' = HasContext("wowl")
  /\ IF "wowl" \in cfg.given THEN NextOffload("net") ELSE InitFails
  /\ UNCHANGED <<cfg, table, whd, wowl, faults, tcp, tko, tls>>

\* Without the new infrastructure nothing is done, here and below.
Supported(o) == o \in ctx /\ cfg.newInfra

WowlDeinit ==
  /\ pc["net"].at \in {"deinit", "undo"} /\ At("net", pc["net"].at, "wowl", "start")
  /\ NextOffload("net")
  /\ IF Supported("wowl")
     THEN \/ WowlClear /\ UNCHANGED faults
          \/ UNCHANGED wowl /\ Faulty("wowlClear")
     ELSE UNCHANGED <<wowl, faults>>
  /\ UNCHANGED WowlVars

\* whd_configure_wowl: a magic packet if it is built in, patterns if the first
\* entry is one.
ConfiguredCaps ==
  { cap \in {"MAGIC", "NET"} : IF cap = "MAGIC" THEN cfg.magic ELSE Entries # <<>> }

WowlConfigure ==
  /\ WowlAt("sleep", "start")
  /\ \/ ~Supported("wowl") /\ NextOffload("lpa") /\ UNCHANGED <<wowl, faults>>
     \/ Supported("wowl") /\ Count("lpa", "set", 1)
        /\ wowl' = [wowl EXCEPT !.caps = ConfiguredCaps] /\ UNCHANGED faults
     \/ Supported("wowl") /\ NextOffload("lpa")
        /\ UNCHANGED wowl /\ Faulty("wowlConfigure")
  /\ UNCHANGED WowlVars

\* cylpa_set_wowl_pattern with mode TRUE: capabilities other than NET are lost
\* when NET was not among them.  An invalid mask is not sent.
WowlSet ==
  LET k == pc["lpa"].k IN
  /\ WowlAt("sleep", "set") /\ k <= Len(Entries) /\ Count("lpa", "set", k + 1)
  /\ \E ok \in BOOLEAN :
       /\ Command(ok, "wowlPattern")
       /\ wowl' = [wowl EXCEPT
            !.caps = IF "NET" \in @ THEN @ ELSE {"NET"},
            !.patterns = IF ok /\ ~MaskInvalid(Entries[k].mask)
                         THEN @ \cup {Converted(Entries[k])} ELSE @]
  /\ UNCHANGED WowlVars

WowlActivate ==
  /\ WowlAt("sleep", "set") /\ pc["lpa"].k > Len(Entries)
  /\ \/ NextOffload("lpa") /\ wowl' = [wowl EXCEPT !.armed = TRUE] /\ UNCHANGED faults
     \/ Goto("lpa", "undo") /\ UNCHANGED wowl /\ Faulty("wowlActivate")
  /\ UNCHANGED WowlVars

\* The pattern to remove is that of the entry at which the loop has ended.  Its text
\* is empty and its size comes out as 255: the conversion overruns the text and both
\* buffers, and a pattern of 255 bytes is deleted, which no pattern of the device
\* has.  What lies behind the buffers is not modelled; overrun tells that it is lost.
WowlUndo ==
  /\ WowlAt("sleep", "undo") /\ NextOffload("lpa")
  /\ Overruns(LastEntry.pattern)
  /\ Note("overrun")
  /\ UNCHANGED <<wowl, WowlVars>>

WowlWake ==
  /\ WowlAt("awake", "start")
  /\ IF ~Supported("wowl") THEN NextOffload("lpa") /\ UNCHANGED <<wowl, faults>>
     ELSE \E ok \in BOOLEAN :
            /\ Command(ok, "wowlDeactivate") /\ Count("lpa", "delete", 1)
            /\ wowl' = [wowl EXCEPT !.armed = @ /\ ~ok]
  /\ UNCHANGED WowlVars

\* The last pattern of the list is forgotten.
WowlDelete_ButLast ==
  LET k == pc["lpa"].k IN
  /\ WowlAt("awake", "delete") /\ k <= Len(Entries) /\ Count("lpa", "delete", k + 1)
  /\ \E ok \in BOOLEAN :
       /\ Command(ok, "wowlDelete")
       /\ wowl' = [wowl EXCEPT
            !.patterns = IF ok /\ k < Len(Entries)
                         THEN @ \ {Converted(Entries[k])} ELSE @]
  /\ UNCHANGED WowlVars

WowlDelete ==
  LET k == pc["lpa"].k IN
  /\ WowlAt("awake", "delete") /\ k <= Len(Entries) /\ Count("lpa", "delete", k + 1)
  /\ \E ok \in BOOLEAN :
       /\ Command(ok, "wowlDelete")
       /\ wowl' = [wowl EXCEPT
            !.patterns = IF ok /\ ~MaskInvalid(Entries[k].mask)
                         THEN @ \ {Converted(Entries[k])} ELSE @]
  /\ UNCHANGED WowlVars

WowlDone ==
  /\ WowlAt("awake", "delete") /\ pc["lpa"].k > Len(Entries) /\ NextOffload("lpa")
  /\ \/ WowlClear /\ UNCHANGED faults
     \/ UNCHANGED wowl /\ Faulty("wowlClear")
  /\ UNCHANGED WowlVars

WowlStep ==
  \/ WowlInit \/ WowlDeinit
  \/ WowlConfigure \/ WowlSet \/ WowlActivate \/ WowlUndo
  \/ WowlWake \/ WowlDelete \/ WowlDone

-----------------------------------------------------------------------------
(* Properties                                                              *)

\* The device wakes a host with this frame.
Wakes(frame) ==
  wowl.armed /\ "NET" \in wowl.caps /\ \E p \in wowl.patterns : DeviceMatches(p, frame)

\* A connected host that sleeps is woken by the frames the user's patterns and
\* masks describe and by no others, also after any number of earlier sleeps,
\* if every command of this offload succeeded and it was initialised before.
\* An entry with a mask of odd length is left out.
WakesExactly ==
  /\ Asleep /\ Supported("wowl") /\ "wowl" \in Range(cfg.list) /\ pc["net"].at = "up"
  /\ faults = {}
  => /\ \A frame \in Frames :
          Wakes(frame) <=>
            \E i \in DOMAIN Entries :
              ~MaskInvalid(Entries[i].mask) /\ UserMatches(Entries[i], frame)
     /\ "MAGIC" \in wowl.caps <=> cfg.magic

\* Awake, the device has no wake-up pattern left, neither of this offload nor of
\* the TLS offload: only a failed deletion or a configuration that was exchanged
\* leaves one behind.  Nothing is claimed once the filter could not be activated,
\* as its own undoing then writes past pattern_array and mask_array.
PatternsGone ==
  /\ ~Suspended
  /\ {"wowlDelete", "tlsDelete", "tlsConfig", "reinit", "overrun"} \cap faults = {}
  => wowl.patterns = {} /\ ~wowl.secure
=============================================================================
