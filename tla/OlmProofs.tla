------------------------------ MODULE OlmProofs ------------------------------
(***************************************************************************)
(* Proofs about the Offload Manager, for every set of offloads and every   *)
(* set of lists without repetitions.                                       *)
(***************************************************************************)
EXTENDS Olm, Integers, TLAPS

Slice(l, a, b) == { l[j] : j \in a .. b }

\* What the three loops of the connection manager's thread have done so far.
LoopInv ==
  /\ net.at = "idle" => up = {} \/ (up = Members(list) /\ connected)
  /\ net.at = "restart" => ~connected /\ up = {}
  /\ net.at = "init" => connected /\ up = Slice(list, 1, net.i - 1)
  /\ net.at = "undo" => connected /\ up = Slice(list, net.i, net.failed - 1)
  /\ net.at = "deinit" => ~connected /\ up \subseteq Slice(list, net.i, Len(list))

\* Outside of a restart a manager that was created has the worker it needs.
WorkerInv == list # NoList /\ net.at # "restart" /\ ~newInfra => worker

ConfigInv ==
  /\ created => configured
  /\ net.at = "init" \/ up # {} => configured

\* A dispatch that was not skipped has had a list and an interface, which are there
\* from then on.
KnownInv ==
  lpa.at = "loop" \/ asleep # {} \/ (slept /\ "skipped" \notin spoilt)
    => list # NoList /\ whd

\* Between the two dispatches, and outside of them.
ToBeRestored == IF lpa.at = "loop" THEN lpa.st = "SLEEP" ELSE slept

\* Where the value of pm2_sleep_ret is kept at each point of a sleep cycle.
PmInv ==
  /\ lpa.at = "loop" => slept = (lpa.st = "AWAKE")
  /\ ToBeRestored /\ spoilt = {} => saved = before
  /\ ToBeRestored /\ spoilt = {"skipped"} => pm2 = before
  /\ ~ToBeRestored /\ spoilt = {} => pm2 = before

\* A dispatch of AWAKE has only offloads of the rest of its list to reach,
\* whatever is initialised meanwhile.
AwakeInv ==
  /\ lpa.at = "loop" /\ lpa.st = "AWAKE" =>
       up \cap asleep \subseteq Slice(lpa.over, lpa.i, Len(lpa.over))
  /\ AwakeReachesAll

Inv == TypeOK /\ LoopInv /\ WorkerInv /\ ConfigInv /\ KnownInv /\ PmInv /\ AwakeInv

-----------------------------------------------------------------------------
(* Lists and their slices                                                  *)

\* A list the manager may be given is a sequence of offloads without repetition.
LEMMA ListFacts ==
  ASSUME NEW l \in Lists
  PROVE  /\ l \in Seq(Offloads)
         /\ Len(l) \in Nat
         /\ DOMAIN l = 1 .. Len(l)
         /\ \A j \in 1 .. Len(l) : l[j] \in Offloads
         /\ \A j, k \in 1 .. Len(l) : l[j] = l[k] => j = k
         /\ Members(l) = Slice(l, 1, Len(l))
<1>1. l \in Seq(Offloads) /\ l # NoList
  BY ConstAssumption
<1>2. Len(l) \in Nat /\ DOMAIN l = 1 .. Len(l)
  BY <1>1
<1>3. \A j \in 1 .. Len(l) : l[j] \in Offloads
  BY <1>1, <1>2
<1>4. \A j, k \in 1 .. Len(l) : l[j] = l[k] => j = k
  BY <1>2, ConstAssumption
<1>5. Members(l) = Slice(l, 1, Len(l))
  BY <1>1, <1>2 DEF Members, Slice
<1> QED BY <1>1, <1>2, <1>3, <1>4, <1>5

\* One step of a loop forward: a slice grows at its end, an empty one is empty.
LEMMA SliceGrows ==
  ASSUME NEW l, NEW a \in Int, NEW b \in Int, a <= b
  PROVE  Slice(l, a, b) = Slice(l, a, b - 1) \cup {l[b]}
<1>1. a .. b = (a .. (b - 1)) \cup {b}
  OBVIOUS
<1> QED BY <1>1 DEF Slice

\* A slice of such a list loses its first element and keeps the rest.
LEMMA SliceShrinks ==
  ASSUME NEW l \in Lists, NEW a \in Int, NEW b \in Int, 1 <= a, a <= b, b <= Len(l)
  PROVE  Slice(l, a, b) \ {l[a]} = Slice(l, a + 1, b)
<1>1. a .. b = ((a + 1) .. b) \cup {a}
  OBVIOUS
<1>2. \A j \in (a + 1) .. b : l[j] # l[a]
  <2> SUFFICES ASSUME NEW j \in (a + 1) .. b PROVE l[j] # l[a]
    OBVIOUS
  <2>1. j \in 1 .. Len(l) /\ a \in 1 .. Len(l) /\ j # a
    BY ListFacts
  <2> QED BY <2>1, ListFacts
<1> QED BY <1>1, <1>2 DEF Slice

\* A slice whose last index lies before its first is empty.
LEMMA SliceEmpty ==
  ASSUME NEW l, NEW a \in Int, NEW b \in Int, b < a
  PROVE  Slice(l, a, b) = {}
<1>1. a .. b = {}
  OBVIOUS
<1> QED BY <1>1 DEF Slice

\* What is initialised is always part of the list in force.
LEMMA UpInList ==
  ASSUME TypeOK, LoopInv
  PROVE  /\ up # {} => list \in Lists
         /\ list \in Lists => up \subseteq Slice(list, 1, Len(list))
<1>1. list = NoList => up = {}
  BY DEF TypeOK, ManagerType, NetType, LoopInv, Members
<1>2. ASSUME list \in Lists PROVE up \subseteq Slice(list, 1, Len(list))
  <2>1. Len(list) \in Nat /\ Members(list) = Slice(list, 1, Len(list))
    BY <1>2, ListFacts
  <2>2. list # NoList
    BY <1>2, ConstAssumption
  <2>3. CASE net.at \in {"idle", "restart"}
    BY <2>1, <2>3 DEF LoopInv
  <2>4. CASE net.at = "init"
    BY <2>1, <2>4 DEF LoopInv, TypeOK, NetType, Slice
  <2>5. CASE net.at = "undo"
    BY <2>1, <2>5 DEF LoopInv, TypeOK, NetType, Slice
  <2>6. CASE net.at = "deinit"
    BY <2>1, <2>6 DEF LoopInv, TypeOK, NetType, Slice
  <2> QED BY <2>3, <2>4, <2>5, <2>6 DEF TypeOK, NetType
<1> QED BY <1>1, <1>2 DEF TypeOK, ManagerType

-----------------------------------------------------------------------------
(* Initially                                                               *)

\* At the start there is no list and nothing is initialised.
LEMMA InitInv ==
  ASSUME Init
  PROVE  Inv
<1>1. TypeOK
  BY DEF Init, TypeOK, ManagerType, SetType, PowerType, NetType, LpaType, Values
<1>2. LoopInv /\ WorkerInv /\ ConfigInv
  BY DEF Init, LoopInv, WorkerInv, ConfigInv
<1>3. KnownInv /\ PmInv /\ AwakeInv
  BY DEF Init, KnownInv, PmInv, ToBeRestored, AwakeInv, AwakeReachesAll
<1> QED BY <1>1, <1>2, <1>3 DEF Inv

-----------------------------------------------------------------------------
(* Every step keeps each part of the invariant                             *)

\* The list in force is a sequence with a length, in every state.
LEMMA ListLength ==
  ASSUME TypeOK
  PROVE  /\ list # NoList => list \in Lists /\ Len(list) \in Nat
         /\ lpa.over \in Lists \cup {<<>>} /\ Len(lpa.over) \in Nat
<1>1. list # NoList => list \in Lists
  BY DEF TypeOK, ManagerType
<1>2. lpa.over \in Lists \cup {<<>>}
  BY DEF TypeOK, LpaType
<1>3. Len(<<>>) \in Nat
  OBVIOUS
<1> QED BY <1>1, <1>2, <1>3, ListFacts

\* Every step keeps the types of the manager's list and flags.
LEMMA ManagerTypeStep ==
  ASSUME TypeOK, [Next]_vars
  PROVE  ManagerType'
<1> USE DEF TypeOK, ManagerType
<1>1. ASSUME NEW l \in Lists, Create(l) PROVE ManagerType'
  BY <1>1 DEF Create, OlmInit, InitWlanConfig
<1>2. ASSUME NEW l \in Lists, RestartInit(l) PROVE ManagerType'
  BY <1>2 DEF RestartInit, OlmInit, InitWlanConfig
<1>3. CASE RestartDeinit
  BY <1>3 DEF RestartDeinit
<1>4. CASE InitOls
  BY <1>4 DEF InitOls, InitWlanConfig
<1>5. CASE DeinitOls
  BY <1>5 DEF DeinitOls, manager
<1>6. CASE UNCHANGED <<manager, connected>>
  BY <1>6 DEF manager
<1> QED
  BY <1>1, <1>2, <1>3, <1>4, <1>5, <1>6
     DEF Next, InitOne, UndoOne, DeinitOne, LoopDone, Dispatch, DispatchOne,
         DispatchDone, vars, link

\* Every step keeps the sets of offloads among the offloads there are.
LEMMA SetTypeStep ==
  ASSUME TypeOK, [Next]_vars
  PROVE  SetType'
<1> USE DEF SetType
<1>1. SetType
  BY DEF TypeOK
<1>2. CASE InitOne
  <2>1. list \in Lists /\ net.i \in 1 .. Len(list)
    BY <1>2, ListLength DEF InitOne, TypeOK, NetType
  <2>2. list[net.i] \in Offloads
    BY <2>1, ListFacts
  <2> QED BY <1>1, <1>2, <2>2 DEF InitOne
<1>3. CASE UndoOne \/ DeinitOne
  BY <1>1, <1>3 DEF UndoOne, DeinitOne
<1>4. CASE DispatchOne
  <2>1. lpa.over \in Lists /\ lpa.i \in 1 .. Len(lpa.over)
    BY <1>4, ListLength DEF DispatchOne, TypeOK, LpaType
  <2>2. lpa.over[lpa.i] \in Offloads
    BY <2>1, ListFacts
  <2> QED BY <1>1, <1>4, <2>2 DEF DispatchOne, link
<1>5. CASE UNCHANGED <<up, asleep>>
  BY <1>1, <1>5
<1> QED
  BY <1>2, <1>3, <1>4, <1>5
     DEF Next, Create, RestartInit, RestartDeinit, InitOls, DeinitOls, LoopDone,
         Dispatch, DispatchDone, vars, link

\* Every step keeps the types of the values of the power-save mode.
LEMMA PowerTypeStep ==
  ASSUME TypeOK, [Next]_vars
  PROVE  PowerType'
<1> USE DEF PowerType, Values
<1>1. PowerType
  BY DEF TypeOK
<1>2. ASSUME NEW st \in {"SLEEP", "AWAKE"}, Dispatch(st) PROVE PowerType'
  BY <1>1, <1>2 DEF Dispatch, ConfigureWlanPmode, SaveAndLower, Restore
<1>3. CASE DispatchDone
  BY <1>1, <1>3 DEF DispatchDone
<1>4. CASE UNCHANGED <<slept, pm2, saved, before, spoilt>>
  BY <1>1, <1>4
<1> QED
  BY <1>2, <1>3, <1>4
     DEF Next, Create, RestartInit, RestartDeinit, InitOls, InitOne, UndoOne,
         DeinitOls, DeinitOne, LoopDone, DispatchOne, vars, dispatch

\* Every step keeps the indices of the connection manager's loops in their lists.
LEMMA NetTypeStep ==
  ASSUME TypeOK, [Next]_vars
  PROVE  NetType'
<1> USE ListLength DEF NetType, NetGoto
<1>1. NetType
  BY DEF TypeOK
<1>2. ASSUME NEW l \in Lists, Create(l) \/ RestartInit(l) PROVE NetType'
  BY <1>1, <1>2 DEF Create, RestartInit
<1>3. CASE RestartDeinit
  BY <1>1, <1>3 DEF RestartDeinit
<1>4. CASE InitOls
  BY <1>1, <1>4 DEF InitOls
<1>5. CASE InitOne
  BY <1>1, <1>5 DEF InitOne, manager
<1>6. CASE UndoOne
  BY <1>1, <1>6 DEF UndoOne, manager
<1>7. CASE DeinitOls
  BY <1>1, <1>7 DEF DeinitOls, manager
<1>8. CASE DeinitOne
  BY <1>1, <1>8 DEF DeinitOne, manager
<1>9. CASE LoopDone
  BY <1>1, <1>9 DEF LoopDone, manager
<1>10. CASE UNCHANGED <<net, list>>
  BY <1>1, <1>10
<1> QED
  BY <1>2, <1>3, <1>4, <1>5, <1>6, <1>7, <1>8, <1>9, <1>10
     DEF Next, Dispatch, DispatchOne, DispatchDone, vars, manager, link

\* Every step keeps the index of the dispatch in its list.
LEMMA LpaTypeStep ==
  ASSUME TypeOK, [Next]_vars
  PROVE  LpaType'
<1> USE ListLength DEF LpaType
<1>1. LpaType
  BY DEF TypeOK
<1>2. ASSUME NEW st \in {"SLEEP", "AWAKE"}, Dispatch(st) PROVE LpaType'
  BY <1>1, <1>2 DEF Dispatch
<1>3. CASE DispatchOne
  BY <1>1, <1>3 DEF DispatchOne
<1>4. CASE DispatchDone
  BY <1>1, <1>4 DEF DispatchDone
<1>5. CASE UNCHANGED lpa
  BY <1>1, <1>5
<1> QED
  BY <1>2, <1>3, <1>4, <1>5
     DEF Next, Create, RestartInit, RestartDeinit, InitOls, InitOne, UndoOne,
         DeinitOls, DeinitOne, LoopDone, vars, dispatch

\* All five together: no step leaves the types.
LEMMA TypeStep ==
  ASSUME TypeOK, [Next]_vars
  PROVE  TypeOK'
BY ManagerTypeStep, SetTypeStep, PowerTypeStep, NetTypeStep, LpaTypeStep DEF TypeOK

\* Every step of cylpa_olm_init_ols and cylpa_olm_deinit_ols keeps the offloads
\* initialised so far a slice of the list: an init adds the next, the undoing of a
\* failed init and a deinit take the next away.
LEMMA LoopStep ==
  ASSUME TypeOK, LoopInv, [Next]_vars
  PROVE  LoopInv'
<1> USE DEF NetGoto
<1>1. NetType
  BY DEF TypeOK
<1>2. ASSUME NEW l \in Lists, Create(l) PROVE LoopInv'
  <2>1. up = {}
    BY <1>2 DEF Create, LoopInv, Members
  <2> QED BY <1>2, <2>1 DEF Create, LoopInv
<1>3. ASSUME NEW l \in Lists, RestartInit(l) PROVE LoopInv'
  BY <1>3 DEF RestartInit, LoopInv
<1>4. CASE RestartDeinit
  BY <1>4 DEF RestartDeinit, LoopInv
<1>5. CASE InitOls
  <2>1. up = {} /\ net.at = "idle"
    BY <1>5 DEF InitOls, LoopInv
  <2>2. Slice(list, 1, 0) = {}
    BY SliceEmpty
  <2> QED BY <1>5, <2>1, <2>2 DEF InitOls, LoopInv, Slice
<1>6. CASE InitOne
  <2>1. list \in Lists /\ net.i \in 1 .. Len(list) /\ Len(list) \in Nat
    BY <1>1, <1>6, ListLength DEF InitOne, NetType
  <2>2. Slice(list, 1, net.i) = Slice(list, 1, net.i - 1) \cup {list[net.i]}
    BY <2>1, SliceGrows
  <2>3. connected /\ up = Slice(list, 1, net.i - 1)
    BY <1>6 DEF InitOne, LoopInv
  <2>4. list' = list /\ connected' = connected
    BY <1>6 DEF InitOne, manager
  <2>5. CASE NetGoto("init", "init", net.i + 1) /\ up' = up \cup {list[net.i]}
    <3>1. net'.at = "init" /\ net'.i - 1 = net.i
      BY <2>1, <2>5
    <3> QED BY <2>2, <2>3, <2>4, <2>5, <3>1 DEF LoopInv
  <2>6. CASE net' = [at |-> "undo", i |-> 1, failed |-> net.i] /\ up' = up
    BY <2>3, <2>4, <2>6 DEF LoopInv
  <2> QED BY <1>6, <2>5, <2>6 DEF InitOne
<1>7. CASE UndoOne
  <2>1. /\ list \in Lists /\ Len(list) \in Nat
        /\ net.i \in Int /\ net.failed - 1 \in Int
        /\ 1 <= net.i /\ net.i <= net.failed - 1 /\ net.failed - 1 <= Len(list)
    BY <1>1, <1>7, ListLength DEF UndoOne, NetType
  <2>2. Slice(list, net.i, net.failed - 1) \ {list[net.i]}
          = Slice(list, net.i + 1, net.failed - 1)
    BY <2>1, SliceShrinks
  <2> QED BY <1>7, <2>1, <2>2 DEF UndoOne, LoopInv, manager
<1>8. CASE DeinitOls
  <2>1. list # NoList => up \subseteq Slice(list, 1, Len(list))
    BY UpInList DEF TypeOK, ManagerType
  <2>2. list = NoList => up = {}
    BY UpInList, ConstAssumption
  <2> QED BY <1>8, <2>1, <2>2 DEF DeinitOls, LoopInv, manager
<1>9. CASE DeinitOne
  <2>1. /\ list \in Lists /\ Len(list) \in Int
        /\ net.i \in Int /\ 1 <= net.i /\ net.i <= Len(list)
    BY <1>1, <1>9, ListLength DEF DeinitOne, NetType
  <2>2. Slice(list, net.i, Len(list)) \ {list[net.i]}
          = Slice(list, net.i + 1, Len(list))
    BY <2>1, SliceShrinks
  <2> QED BY <1>9, <2>1, <2>2 DEF DeinitOne, LoopInv, manager
<1>10. CASE LoopDone
  <2>1. list # NoList => list \in Lists /\ Len(list) \in Nat
    BY ListLength
  <2>2. UNCHANGED <<list, connected, up>> /\ net'.at = "idle"
    BY <1>10 DEF LoopDone, manager
  <2>3. CASE net.at = "init" /\ net.i > Len(list)
    <3>1. list \in Lists /\ net.i - 1 = Len(list)
      BY <1>1, <2>1, <2>3 DEF NetType
    <3>2. up = Members(list) /\ connected
      BY <2>3, <3>1, ListFacts DEF LoopInv
    <3> QED BY <2>2, <3>2 DEF LoopInv, Members
  <2>4. CASE net.at = "undo" /\ net.i = net.failed
    <3>1. Slice(list, net.failed, net.failed - 1) = {}
      BY <1>1, SliceEmpty DEF NetType
    <3> QED BY <2>2, <2>4, <3>1 DEF LoopInv
  <2>5. CASE net.at = "deinit" /\ net.i > Len(list)
    <3>1. list \in Lists /\ Slice(list, net.i, Len(list)) = {}
      BY <1>1, <2>1, <2>5, SliceEmpty DEF NetType
    <3> QED BY <2>2, <2>5, <3>1 DEF LoopInv
  <2> QED BY <1>10, <2>3, <2>4, <2>5 DEF LoopDone
<1>11. CASE UNCHANGED <<list, link>>
  BY <1>11 DEF LoopInv, Members, link
<1> QED
  BY <1>2, <1>3, <1>4, <1>5, <1>6, <1>7, <1>8, <1>9, <1>10, <1>11
     DEF Next, Dispatch, DispatchOne, DispatchDone, vars, manager

\* Every step keeps the worker with the manager that needs it.
LEMMA WorkerStep ==
  ASSUME TypeOK, WorkerInv, [Next]_vars
  PROVE  WorkerInv'
<1> USE DEF WorkerInv, NetGoto
<1>1. ASSUME NEW l \in Lists, Create(l) \/ RestartInit(l) PROVE WorkerInv'
  BY <1>1 DEF Create, RestartInit, OlmInit
<1>2. CASE RestartDeinit
  BY <1>2 DEF RestartDeinit
<1>3. CASE /\ UNCHANGED <<list, newInfra, worker>>
           /\ net.at = "restart" => net'.at = "restart"
  BY <1>3
<1>4. CASE InitOls \/ DeinitOls \/ InitOne \/ UndoOne \/ DeinitOne \/ LoopDone
  BY <1>3, <1>4 DEF InitOls, DeinitOls, InitOne, UndoOne, DeinitOne, LoopDone, manager
<1> QED
  BY <1>1, <1>2, <1>3, <1>4
     DEF Next, Dispatch, DispatchOne, DispatchDone, vars, manager, link

\* Every step keeps an offload from being initialised before the configuration is there.
LEMMA ConfigStep ==
  ASSUME TypeOK, LoopInv, ConfigInv, [Next]_vars
  PROVE  ConfigInv'
<1> USE DEF ConfigInv, NetGoto
<1>1. ASSUME NEW l \in Lists, Create(l) \/ RestartInit(l) PROVE ConfigInv'
  <2>1. created' = (created \/ whd')
    BY <1>1 DEF Create, RestartInit, OlmInit, InitWlanConfig
  <2>2. configured' = (configured \/ whd')
    BY <1>1 DEF Create, RestartInit, OlmInit, InitWlanConfig
  <2>3. up' = up /\ net'.at = "idle"
    BY <1>1 DEF Create, RestartInit
  <2>4. ASSUME configured \/ whd' PROVE configured'
    BY <2>2, <2>4, Zenon
  <2>5. ASSUME created' PROVE created \/ whd'
    BY <2>1, <2>5, Zenon
  <2> QED BY <2>3, <2>4, <2>5
<1>2. CASE RestartDeinit
  BY <1>2 DEF RestartDeinit
<1>3. CASE InitOls
  <2>1. CASE list = NoList
    BY <1>3, <2>1 DEF InitOls, InitWlanConfig
  <2>2. CASE list # NoList
    <3>1. created' = TRUE /\ configured' = (configured \/ ~created)
      BY <1>3, <2>2 DEF InitOls, InitWlanConfig
    <3>2. configured'
      BY <3>1, Zenon
    <3> QED BY <3>2
  <2> QED BY <2>1, <2>2
<1>4. CASE InitOne
  <2>1. configured
    BY <1>4 DEF InitOne
  <2> QED BY <1>4, <2>1 DEF InitOne, manager
<1>5. CASE UndoOne
  BY <1>5 DEF UndoOne, manager
<1>6. CASE DeinitOls \/ DeinitOne \/ LoopDone
  BY <1>6 DEF DeinitOls, DeinitOne, LoopDone, manager
<1>7. CASE UNCHANGED <<manager, link>>
  BY <1>7 DEF manager, link
<1> QED
  BY <1>1, <1>2, <1>3, <1>4, <1>5, <1>6, <1>7
     DEF Next, Dispatch, DispatchOne, DispatchDone, vars

\* Every step keeps the list and the interface a dispatch has found.
LEMMA KnownStep ==
  ASSUME TypeOK, KnownInv, [Next]_vars
  PROVE  KnownInv'
<1> USE DEF KnownInv
<1>1. LpaType
  BY DEF TypeOK
<1>2. ASSUME NEW l \in Lists, Create(l) \/ RestartInit(l) PROVE KnownInv'
  <2>1. list' # NoList
    BY <1>2, ConstAssumption DEF Create, RestartInit, OlmInit
  <2>2. UNCHANGED <<dispatch, asleep>>
    BY <1>2 DEF Create, RestartInit
  <2>3. list # NoList => whd' = whd
    BY <1>2 DEF Create, RestartInit
  <2> QED BY <2>1, <2>2, <2>3 DEF dispatch
<1>3. ASSUME NEW st \in {"SLEEP", "AWAKE"}, Dispatch(st) PROVE KnownInv'
  <2>1. UNCHANGED <<list, whd, asleep>>
    BY <1>3 DEF Dispatch, manager
  <2>2. CASE list # NoList /\ whd
    BY <2>1, <2>2
  <2>3. CASE list = NoList \/ ~whd
    BY <1>3, <2>1, <2>3 DEF Dispatch
  <2> QED BY <2>2, <2>3
<1>4. CASE DispatchOne
  BY <1>1, <1>4 DEF DispatchOne, LpaType, manager
<1>5. CASE DispatchDone
  BY <1>1, <1>5 DEF DispatchDone, LpaType, manager
<1>6. CASE /\ UNCHANGED <<list, dispatch>> /\ asleep' \subseteq asleep
           /\ whd => whd'
  BY <1>6 DEF dispatch
<1>7. CASE RestartDeinit \/ InitOls \/ DeinitOls \/ LoopDone
  BY <1>6, <1>7 DEF RestartDeinit, InitOls, DeinitOls, LoopDone, manager
<1>8. CASE InitOne \/ UndoOne \/ DeinitOne
  BY <1>6, <1>8 DEF InitOne, UndoOne, DeinitOne, manager
<1> QED
  BY <1>2, <1>3, <1>4, <1>5, <1>6, <1>7, <1>8 DEF Next, vars, manager

\* Every step keeps pm2_sleep_ret in one place: in WHD or saved for the wake-up.
LEMMA PmStep ==
  ASSUME TypeOK, KnownInv, PmInv, [Next]_vars
  PROVE  PmInv'
<1> USE DEF PmInv, ToBeRestored
<1>1. LpaType /\ slept \in BOOLEAN
  BY DEF TypeOK, PowerType
<1>2. ASSUME NEW st \in {"SLEEP", "AWAKE"}, Dispatch(st) PROVE PmInv'
  <2>1. lpa.at = "idle" /\ st = IF slept THEN "AWAKE" ELSE "SLEEP"
    BY <1>2 DEF Dispatch
  <2>2. CASE list = NoList \/ ~whd
    <3>1. slept' = ~slept /\ UNCHANGED <<lpa, pm2, saved>>
      BY <1>2, <2>2 DEF Dispatch
    <3>2. CASE slept
      <4>1. st = "AWAKE" /\ "skipped" \in spoilt
        BY <2>1, <2>2, <3>2 DEF KnownInv
      <4>2. before' = before /\ spoilt' = spoilt \ {"skipped"}
        BY <1>2, <2>2, <4>1 DEF Dispatch
      <4>3. spoilt' = {} => spoilt = {"skipped"}
        BY <4>1, <4>2
      <4> QED BY <1>1, <2>1, <3>1, <3>2, <4>2, <4>3
    <3>3. CASE ~slept
      <4>1. before' = pm2 /\ spoilt' = {"skipped"}
        BY <1>2, <2>1, <2>2, <3>3 DEF Dispatch
      <4> QED BY <1>1, <2>1, <3>1, <3>3, <4>1
    <3> QED BY <3>2, <3>3
  <2>3. CASE list # NoList /\ whd
    <3>1. /\ ConfigureWlanPmode(st) /\ slept' = slept
          /\ lpa' = [at |-> "loop", st |-> st, i |-> 1, over |-> list]
      BY <1>2, <2>3 DEF Dispatch
    <3>2. CASE slept
      <4>1. st = "AWAKE" /\ Restore
        BY <2>1, <3>1, <3>2 DEF ConfigureWlanPmode
      <4>2. spoilt' = {} => spoilt = {} /\ pm2' = saved /\ before' = before
        BY <4>1 DEF Restore
      <4> QED BY <2>1, <3>1, <3>2, <4>1, <4>2
    <3>3. CASE ~slept
      <4>1. st = "SLEEP" /\ SaveAndLower
        BY <2>1, <3>1, <3>3 DEF ConfigureWlanPmode
      <4>2. before' = pm2 /\ ((spoilt' = {} /\ saved' = pm2) \/ spoilt' = {"get"})
        BY <4>1 DEF SaveAndLower
      <4>3. "get" \notin {} /\ "get" \notin {"skipped"} /\ "get" \in {"get"}
        OBVIOUS
      <4>4. lpa'.at = "loop" /\ lpa'.st = "SLEEP" /\ slept' = FALSE
        BY <1>1, <3>1, <3>3, <4>1
      <4>5. spoilt' # {"skipped"} /\ (spoilt' = {} => saved' = before')
        BY <4>2, <4>3
      <4> QED BY <4>4, <4>5
    <3> QED BY <3>2, <3>3
  <2> QED BY <2>2, <2>3
<1>3. CASE DispatchOne
  BY <1>1, <1>3 DEF DispatchOne, LpaType
<1>4. CASE DispatchDone
  BY <1>1, <1>4 DEF DispatchDone, LpaType
<1>5. CASE UNCHANGED dispatch
  BY <1>5 DEF dispatch
<1> QED
  BY <1>2, <1>3, <1>4, <1>5
     DEF Next, Create, RestartInit, RestartDeinit, InitOls, InitOne, UndoOne,
         DeinitOls, DeinitOne, LoopDone, vars

\* Every step of a dispatch of AWAKE keeps the offloads it has yet to tell in the rest
\* of its list.
LEMMA AwakeStep ==
  ASSUME TypeOK, LoopInv, KnownInv, AwakeInv, [Next]_vars
  PROVE  AwakeInv'
<1>1. LpaType
  BY DEF TypeOK
<1>2. ASSUME NEW st \in {"SLEEP", "AWAKE"}, Dispatch(st) PROVE AwakeInv'
  <2>1. up' = up /\ asleep' = asleep
    BY <1>2 DEF Dispatch, link
  <2>2. CASE list = NoList \/ ~whd
    <3>1. asleep = {} /\ lpa' = lpa /\ lpa.at = "idle"
      BY <1>2, <2>2 DEF Dispatch, KnownInv
    <3> QED BY <2>1, <3>1 DEF AwakeInv, AwakeReachesAll
  <2>3. CASE list # NoList /\ whd
    <3>1. list \in Lists /\ up \subseteq Slice(list, 1, Len(list))
      BY <2>3, UpInList, ListLength
    <3>2. lpa' = [at |-> "loop", st |-> st, i |-> 1, over |-> list]
      BY <1>2, <2>3 DEF Dispatch
    <3>3. up' \cap asleep' \subseteq Slice(lpa'.over, lpa'.i, Len(lpa'.over))
      BY <2>1, <3>1, <3>2
    <3> QED BY <3>2, <3>3 DEF AwakeInv, AwakeReachesAll
  <2> QED BY <2>2, <2>3
<1>3. CASE DispatchOne
  <2>1. /\ lpa.at = "loop" /\ lpa.over \in Lists /\ Len(lpa.over) \in Int
        /\ lpa.i \in Int /\ 1 <= lpa.i /\ lpa.i <= Len(lpa.over)
    BY <1>1, <1>3, ListLength DEF DispatchOne, LpaType
  <2>2. PICK l \in Lists, a \in Int : l = lpa.over /\ a = lpa.i
    BY <2>1
  <2>3. Slice(l, a, Len(l)) \ {l[a]} = Slice(l, a + 1, Len(l))
    <3>1. Len(l) \in Int /\ 1 <= a /\ a <= Len(l)
      BY <2>1, <2>2
    <3> HIDE <2>2
    <3> QED BY <3>1, SliceShrinks
  <2>4. /\ lpa'.at = "loop" /\ lpa'.st = lpa.st /\ lpa'.i = lpa.i + 1
        /\ lpa'.over = lpa.over /\ up' = up
        /\ lpa.st = "AWAKE" => asleep' = asleep \ {lpa.over[lpa.i]}
    BY <1>1, <1>3, <2>1 DEF DispatchOne, LpaType, link
  <2> QED BY <2>1, <2>2, <2>3, <2>4 DEF AwakeInv, AwakeReachesAll
<1>4. CASE DispatchDone
  <2>1. lpa.at = "loop" /\ lpa'.at = "idle" /\ up' = up /\ asleep' = asleep
        /\ slept' = (lpa.st = "SLEEP")
    BY <1>1, <1>4 DEF DispatchDone, LpaType, link
  <2>2. Slice(lpa.over, lpa.i, Len(lpa.over)) = {}
    <3>1. Len(lpa.over) \in Int /\ lpa.i \in Int /\ Len(lpa.over) < lpa.i
      BY <1>1, <1>4, ListLength DEF DispatchDone, LpaType
    <3> QED BY <3>1, SliceEmpty
  <2> QED BY <1>1, <2>1, <2>2 DEF LpaType, AwakeInv, AwakeReachesAll
<1>5. CASE /\ UNCHANGED dispatch
           /\ up' \cap asleep' \subseteq up \cap asleep
  BY <1>5 DEF dispatch, AwakeInv, AwakeReachesAll
<1>6. CASE InitOne \/ UndoOne \/ DeinitOne
  BY <1>5, <1>6 DEF InitOne, UndoOne, DeinitOne
<1> QED
  BY <1>2, <1>3, <1>4, <1>5, <1>6
     DEF Next, Create, RestartInit, RestartDeinit, InitOls, DeinitOls, LoopDone,
         vars, link

-----------------------------------------------------------------------------
(* The invariant, and what it gives                                        *)

\* For any offloads and any lists without repetitions, the loops of the connection
\* manager's thread initialise all of the list or nothing, the worker and the
\* configuration are there when needed, the power-save value comes back, and a wake-up
\* reaches every offload that was put to sleep.
THEOREM InvHolds == Spec => []Inv
<1>1. Init => Inv
  BY InitInv
<1>2. Inv /\ [Next]_vars => Inv'
  BY TypeStep, LoopStep, WorkerStep, ConfigStep, KnownStep, PmStep, AwakeStep DEF Inv
<1> QED BY <1>1, <1>2, PTL DEF Spec

\* The indices of the loops of cylpa_olm_init_ols, deinit_ols and the dispatch
\* stay inside their lists.
THEOREM TypeCorrect == Spec => []TypeOK
BY InvHolds, PTL DEF Inv

\* cylpa_olm_init_ols and cylpa_olm_deinit_ols: all offloads or none.
THEOREM InitIsAllOrNothing == Spec => []AllOrNothing
<1>1. Inv => AllOrNothing
  BY DEF Inv, LoopInv, AllOrNothing
<1> QED BY <1>1, InvHolds, PTL

\* cylpa_restart_olm: no offload runs without the worker thread it needs.
THEOREM WorkerIsThere == Spec => []WorkerWhileUp
<1>1. Inv => WorkerWhileUp
  <2> SUFFICES ASSUME Inv, up # {}, ~newInfra PROVE worker
    BY DEF WorkerWhileUp
  <2>1. list # NoList
    BY UpInList, ConstAssumption DEF Inv
  <2>2. net.at # "restart"
    BY DEF Inv, LoopInv
  <2> QED BY <2>1, <2>2 DEF Inv, WorkerInv
<1> QED BY <1>1, InvHolds, PTL

\* cylpa_olm_init_wlan_config has run before any offload is initialised.
THEOREM ConfiguredFirst == Spec => []ConfiguredBeforeUp
<1>1. Inv => ConfiguredBeforeUp
  BY DEF Inv, ConfigInv, ConfiguredBeforeUp
<1> QED BY <1>1, InvHolds, PTL

\* cylpa_olm_configure_wlan_pmode gives back the value it found, in every cycle in
\* which SLEEP was not skipped alone and neither the reading nor the restoring failed.
THEOREM Pm2IsRestored == Spec => []Pm2Restored
<1>1. Inv => Pm2Restored
  BY DEF Inv, PmInv, ToBeRestored, Pm2Restored
<1> QED BY <1>1, InvHolds, PTL

\* cylpa_olm_dispatch_pm_notification: AWAKE reaches every initialised offload.
THEOREM AwakeIsComplete == Spec => []AwakeReachesAll
<1>1. Inv => AwakeReachesAll
  BY DEF Inv, AwakeInv
<1> QED BY <1>1, InvHolds, PTL
=============================================================================
