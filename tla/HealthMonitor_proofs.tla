------------------------ MODULE HealthMonitor_proofs ------------------------
(***************************************************************************)
(* Theorems about the monitors' clock for any number of controllers, any   *)
(* thresholds and any number of VMs, failures, absences and restarts.      *)
(*                                                                         *)
(* The inductive invariant is the type invariant, TriggeredIsLeaving and   *)
(* ReportIsHonest, which says what a report that a controller still holds  *)
(* is worth, with Blank: a controller that nothing refers to holds none.   *)
(* ReportIsFresh, inductive on top of it, ties the age of a report to the  *)
(* count of checks since it was fetched.                                   *)
(***************************************************************************)
EXTENDS HealthMonitor, TLAPS

(* A controller that is not in use is a new one when it is taken.          *)
Blank == \A c \in Controllers : ctl[c].st = "unused" => ctl[c] = Unused

IInv == TypeOK /\ Blank /\ TriggeredIsLeaving /\ ReportIsHonest

USE ControllersAssumption, IntervalAssumption, BoundAssumption

-----------------------------------------------------------------------------
(* Operators *)

(* An unused controller, and a new one of either kind, have their type.    *)
LEMMA NewControllerType ==
  ASSUME NEW st \in CtlStates, NEW disc \in BOOLEAN
  PROVE  /\ Unused \in CtlType
         /\ NewController(st, disc) \in CtlType
         /\ NewController(st, disc).triggered = FALSE
         /\ NewController(st, disc).active = Never
         /\ NewController(st, disc).from = 0
         /\ NewController(st, disc).st = st
<1>1. 0 \in 0..(StatsInterval - 1) /\ 0 \in 0..MaxVMs /\ 0 \in Ages
  BY DEF Ages
<1>2. Unused \in CtlType
  BY <1>1 DEF Unused, CtlType, CtlStates, Never
<1>3. NewController(st, disc) \in CtlType
  BY <1>2 DEF NewController, CtlType
<1>4. /\ NewController(st, disc).triggered = FALSE
      /\ NewController(st, disc).active = Never
      /\ NewController(st, disc).from = 0
      /\ NewController(st, disc).st = st
  BY <1>1 DEF NewController, Unused
<1> QED
  BY <1>2, <1>3, <1>4

(* Growing older keeps an age an age and keeps the order of ages.          *)
LEMMA OlderAges ==
  /\ \A a \in Ages : Older(a) \in Ages
  /\ \A a \in Ages \cup {Never} : /\ Older(a) \in Ages \cup {Never}
                                  /\ Older(a) = Never <=> a = Never
  /\ \A a, b \in Ages : a <= b => Older(a) <= Older(b)
BY DEF Older, Ages, Never

LEMMA NextCountType ==
  \A n \in 0..(StatsInterval - 1) : NextCount(n) \in 0..(StatsInterval - 1)
BY SMTT(30) DEF NextCount

(* A report has the type of a controller, and is what the node says.       *)
LEMMA ReportFacts ==
  ASSUME TypeOK, NEW c \in Controllers
  PROVE  /\ Report(c) \in CtlType
         /\ Report(c).active = node.idle /\ Report(c).from = node.vm
         /\ Report(c).triggered = ctl[c].triggered
         /\ Report(c).st = ctl[c].st
         /\ Report(c).heard = 0 /\ Report(c).watched = ctl[c].watched
<1>1. /\ ctl[c] \in CtlType
      /\ node.idle \in Ages /\ node.vm \in 0..MaxVMs /\ 0 \in Ages
  BY DEF TypeOK, NodeType, Ages
<1>2. Report(c) \in CtlType
  BY <1>1 DEF Report, CtlType
<1> QED
  BY <1>1, <1>2 DEF Report, CtlType

-----------------------------------------------------------------------------
(* Type correctness *)

LEMMA InitType == Init => TypeOK
<1> SUFFICES ASSUME Init PROVE TypeOK
  OBVIOUS
<1>1. Unused \in CtlType
  BY NewControllerType DEF CtlStates
<1>2. node \in NodeType
  BY DEF Init, NodeType, NodeStages, Ages
<1> QED
  BY <1>1, <1>2 DEF Init, TypeOK

(* What taking the entry out and deleting its VM do to the types.          *)
LEMMA TakeOutType ==
  ASSUME TypeOK, TakeOut
  PROVE  reg' \in Controllers \cup {NoCtl} /\ ctl' \in [Controllers -> CtlType]
<1>1. Unused \in CtlType
  BY NewControllerType DEF CtlStates
<1> QED
  BY <1>1 DEF TypeOK, TakeOut

LEMMA DeviceAndVMType ==
  ASSUME TypeOK, DeviceAndVM
  PROVE  node' \in NodeType /\ faults' \in 0..MaxFaults
BY DEF TypeOK, DeviceAndVM, NodeType, NodeStages, Fault, NoFault

(* A check that judges a controller of the right type leaves one.          *)
LEMMA JudgeType ==
  ASSUME TypeOK, NEW c \in Controllers, NEW k \in CtlType, Judge(c, k)
  PROVE  ctl' \in [Controllers -> CtlType] /\ idleCb' \in Nat
<1>1. NextCount(k.count) \in 0..(StatsInterval - 1)
  BY NextCountType DEF CtlType
<1> DEFINE fires == ShouldIdleShutdown(k) /\ ~k.triggered
           j == [k EXCEPT !.st = "running", !.checked = TRUE,
                          !.count = NextCount(k.count),
                          !.triggered = k.triggered \/ fires]
<1>2. (k.triggered \/ fires) \in BOOLEAN
  BY DEF CtlType
<1>3. j \in CtlType
  BY <1>1, <1>2 DEF CtlType, CtlStates
<1>4. ctl' = [ctl EXCEPT ![c] = j]
  BY DEF Judge
<1>5. idleCb' \in Nat
  BY DEF Judge, TypeOK
<1> QED
  BY <1>3, <1>4, <1>5 DEF TypeOK

LEMMA NextType == TypeOK /\ [Next]_vars => TypeOK'
<1> SUFFICES ASSUME TypeOK, [Next]_vars PROVE TypeOK'
  OBVIOUS
<1> USE DEF bounds
<1>0. /\ node.idle \in Ages /\ node.vm \in 0..MaxVMs /\ 0 \in Ages
      /\ node.silent \in BOOLEAN /\ node.st \in NodeStages
  BY DEF TypeOK, NodeType, Ages
<1>1. CASE Boot \/ Used \/ DropsOut \/ Returns \/ Destroyed
  <2>1. CASE Boot
    BY <2>1, <1>0 DEF TypeOK, NodeType, NodeStages, Boot
  <2>2. CASE Used
    BY <2>2, <1>0 DEF TypeOK, NodeType, NodeStages, Used
  <2>3. CASE DropsOut
    BY <2>3, <1>0 DEF TypeOK, NodeType, NodeStages, DropsOut
  <2>4. CASE Returns
    <3>1. PICK i \in Ages : node' = [node EXCEPT !.st = "up", !.idle = i]
      BY <2>4, <1>0 DEF Returns
    <3>2. node' \in NodeType
      BY <3>1, <1>0 DEF TypeOK, NodeType, NodeStages
    <3> QED
      BY <2>4, <3>2 DEF TypeOK, Returns
  <2>5. CASE Destroyed
    BY <2>5, <1>0 DEF TypeOK, NodeType, NodeStages, Destroyed
  <2> QED
    BY <1>1, <2>1, <2>2, <2>3, <2>4, <2>5
<1>2. ASSUME NEW c \in Controllers, Create(c) PROVE TypeOK'
  <2>1. NewController("launching", FALSE) \in CtlType
    BY NewControllerType DEF CtlStates
  <2>2. node' \in NodeType
    BY <1>2 DEF TypeOK, Create, NodeType, NodeStages, Ages
  <2> QED
    BY <1>2, <2>1, <2>2 DEF TypeOK, Create
<1>3. ASSUME NEW c \in Controllers, Discover(c) PROVE TypeOK'
  <2>1. NewController("running", TRUE) \in CtlType
    BY NewControllerType DEF CtlStates
  <2> QED
    BY <1>3, <2>1 DEF TypeOK, Discover
<1>4. CASE UserDelete \/ RunIdleCallback \/ RunGoneCallback
  <2>1. CASE TakeOut /\ DeviceAndVM
    BY <1>4, <2>1, TakeOutType, DeviceAndVMType
    DEF TypeOK, UserDelete, RunIdleCallback, RunGoneCallback, DeleteInstance, NothingThere
  <2>2. CASE TakeOut /\ UNCHANGED <<node, bounds>>
    BY <1>4, <2>2, TakeOutType
    DEF TypeOK, UserDelete, RunIdleCallback, RunGoneCallback, DeleteInstance, NothingThere
  <2>3. CASE NothingThere
    BY <1>4, <2>3
    DEF TypeOK, UserDelete, RunIdleCallback, RunGoneCallback, DeleteInstance, NothingThere
  <2> QED
    BY <1>4, <2>1, <2>2, <2>3 DEF UserDelete, RunIdleCallback, RunGoneCallback, DeleteInstance
<1>5. ASSUME NEW c \in Controllers, CheckFails(c) \/ CheckPeerAbsent(c) PROVE TypeOK'
  <2>1. ctl' \in [Controllers -> CtlType]
    <3>1. ctl[c] \in CtlType
      BY DEF TypeOK
    <3>2. /\ [ctl[c] EXCEPT !.checked = TRUE] \in CtlType
          /\ [ctl[c] EXCEPT !.checked = TRUE, !.st = "idle"] \in CtlType
      BY <3>1 DEF CtlType, CtlStates
    <3>3. ctl'[c] \in {[ctl[c] EXCEPT !.checked = TRUE],
                       [ctl[c] EXCEPT !.checked = TRUE, !.st = "idle"]}
      BY <1>5, <3>1 DEF TypeOK, CtlType, CheckFails, CheckPeerAbsent
    <3> QED
      BY <1>5, <3>2, <3>3 DEF TypeOK, CheckFails, CheckPeerAbsent
  <2> QED
    BY <1>5, <2>1 DEF TypeOK, CheckFails, CheckPeerAbsent, Fault
<1>6. ASSUME NEW c \in Controllers, CheckPeerPresent(c) PROVE TypeOK'
  <2>1. PICK k \in {Report(c), ctl[c]} : Judge(c, k)
    BY <1>6 DEF CheckPeerPresent
  <2>2. k \in CtlType
    BY ReportFacts DEF TypeOK
  <2>3. ctl' \in [Controllers -> CtlType] /\ idleCb' \in Nat
    BY <2>1, <2>2, JudgeType
  <2> QED
    BY <1>6, <2>3 DEF TypeOK, CheckPeerPresent, Fault, NoFault
<1>7. CASE Tick
  <2>1. node' \in NodeType
    BY <1>0, <1>7, OlderAges DEF TypeOK, Tick, NodeType
  <2>2. ASSUME NEW c \in Controllers PROVE ctl'[c] \in CtlType
    <3>1. ctl[c] \in CtlType
      BY DEF TypeOK
    <3>2. /\ Older(ctl[c].active) \in Ages \cup {Never}
          /\ Older(ctl[c].heard) \in Ages /\ Older(ctl[c].watched) \in Ages
      BY <3>1, OlderAges DEF CtlType
    <3>3. [ctl[c] EXCEPT !.active = Older(@), !.heard = Older(@),
                         !.watched = Older(@), !.checked = FALSE] \in CtlType
      BY <3>1, <3>2 DEF CtlType
    <3> QED
      BY <1>7, <3>1, <3>3 DEF Tick
  <2> QED
    BY <1>7, <2>1, <2>2 DEF TypeOK, Tick
<1>8. CASE Restart
  <2>1. Unused \in CtlType
    BY NewControllerType DEF CtlStates
  <2> QED
    BY <1>8, <2>1 DEF TypeOK, Restart
<1>9. CASE UNCHANGED vars
  BY <1>9 DEF TypeOK, vars
<1> QED
  BY <1>1, <1>2, <1>3, <1>4, <1>5, <1>6, <1>7, <1>8, <1>9 DEF Next, Check

(* Every state the monitors, their node and the registry can be in has the *)
(* shape that controller.go's fields have.                                 *)
THEOREM TypeCorrect == Spec => []TypeOK
<1> QED
  BY InitType, NextType, PTL DEF Spec

-----------------------------------------------------------------------------
(* The invariant *)

LEMMA InitIInv == Init => IInv
<1> SUFFICES ASSUME Init PROVE IInv
  OBVIOUS
<1>1. Blank /\ TriggeredIsLeaving
  BY DEF Init, Blank, TriggeredIsLeaving
<1>2. ReportIsHonest
  BY DEF Init, ReportIsHonest, Unused, Never
<1> QED
  BY <1>1, <1>2, InitType DEF IInv

(* What a check of one controller changes of it: it may enter a state, get *)
(* a report, and trigger if it then wants to, which starts a callback.     *)
LEMMA CheckFacts ==
  ASSUME TypeOK, NEW c \in Controllers, Check(c)
  PROVE  /\ UNCHANGED <<node, reg>>
         /\ ctl[c].st # "unused" /\ ctl'[c].st # "unused"
         /\ \A d \in Controllers \ {c} : ctl'[d] = ctl[d]
         /\ \/ /\ ctl'[c].active = ctl[c].active
               /\ ctl'[c].from = ctl[c].from
               /\ ctl'[c].heard = ctl[c].heard
            \/ /\ ctl'[c].active = node.idle
               /\ ctl'[c].from = node.vm
         /\ ctl'[c].watched = ctl[c].watched
         /\ \/ ctl'[c].triggered = ctl[c].triggered /\ idleCb' = idleCb
            \/ idleCb' = idleCb + 1 /\ ShouldIdleShutdown(ctl'[c])
<1>1. ctl[c] \in CtlType
  BY DEF TypeOK
<1>2. CASE CheckFails(c) \/ CheckPeerAbsent(c)
  <2>1. /\ UNCHANGED <<node, reg, idleCb>>
        /\ \A d \in Controllers \ {c} : ctl'[d] = ctl[d]
    BY <1>2 DEF TypeOK, CheckFails, CheckPeerAbsent, bounds
  <2>2. ctl'[c] \in {[ctl[c] EXCEPT !.checked = TRUE],
                     [ctl[c] EXCEPT !.checked = TRUE, !.st = "idle"]}
    BY <1>1, <1>2 DEF TypeOK, CtlType, CheckFails, CheckPeerAbsent
  <2>3. ctl[c].st # "unused"
    BY <1>2 DEF CheckFails, CheckPeerAbsent, MustCheck, Monitors
  <2> QED
    BY <1>1, <2>1, <2>2, <2>3 DEF CtlType
<1>3. CASE CheckPeerPresent(c)
  <2>1. PICK k \in {Report(c), ctl[c]} : Judge(c, k)
    BY <1>3 DEF CheckPeerPresent
  <2>2. k \in CtlType
    BY <1>1, ReportFacts
  <2>3. /\ k.triggered = ctl[c].triggered /\ k.watched = ctl[c].watched
        /\ \/ k = ctl[c]
           \/ k.active = node.idle /\ k.from = node.vm
    BY ReportFacts
  <2> DEFINE fires == ShouldIdleShutdown(k) /\ ~k.triggered
             j == [k EXCEPT !.st = "running", !.checked = TRUE,
                            !.count = NextCount(k.count),
                            !.triggered = k.triggered \/ fires]
  <2>4. /\ ctl' = [ctl EXCEPT ![c] = j]
        /\ idleCb' = IF fires THEN idleCb + 1 ELSE idleCb
    BY <2>1 DEF Judge
  <2>5. ctl'[c] = j /\ \A d \in Controllers \ {c} : ctl'[d] = ctl[d]
    BY <2>4 DEF TypeOK
  <2>6. /\ j.st = "running" /\ j.active = k.active /\ j.from = k.from
        /\ j.heard = k.heard /\ j.watched = k.watched
    BY <2>2 DEF CtlType
  <2>7. CASE fires
    <3>1. ShouldIdleShutdown(j)
      BY <2>6, <2>7 DEF ShouldIdleShutdown
    <3> QED
      BY <1>3, <2>3, <2>4, <2>5, <2>6, <2>7, <3>1
      DEF CheckPeerPresent, MustCheck, Monitors
  <2>8. CASE ~fires
    <3>1. j.triggered = k.triggered
      BY <2>2, <2>8 DEF CtlType
    <3> QED
      BY <1>3, <2>3, <2>4, <2>5, <2>6, <2>8, <3>1
      DEF CheckPeerPresent, MustCheck, Monitors
  <2> QED
    BY <2>7, <2>8
<1> QED
  BY <1>2, <1>3 DEF Check

(* Nobody new triggers or reports where the entry goes or nothing happens. *)
LEMMA RemovalFacts ==
  ASSUME TypeOK, UserDelete \/ RunIdleCallback \/ RunGoneCallback
  PROVE  /\ reg' = NoCtl
         /\ node'.vm = node.vm /\ node'.idle = node.idle
         /\ node'.st \in {node.st, "none", "orphan"}
         /\ \A c \in Controllers : ctl'[c] \in {ctl[c], Unused}
<1>1. /\ reg' = NoCtl
      /\ \A c \in Controllers : ctl'[c] \in {ctl[c], Unused}
  BY DEF TypeOK, UserDelete, RunIdleCallback, RunGoneCallback, DeleteInstance,
         NothingThere, TakeOut
<1>2. \/ node' = node
      \/ node' = [node EXCEPT !.st = "none"]
      \/ node' = [node EXCEPT !.st = IF @ = "none" THEN @ ELSE "orphan"]
  BY DEF UserDelete, RunIdleCallback, RunGoneCallback, DeleteInstance,
         NothingThere, DeviceAndVM
<1> QED
  BY <1>1, <1>2 DEF TypeOK, NodeType

(* The node's own steps: its VM is not replaced, and its activity is new or*)
(* what it was.                                                            *)
LEMMA NodeFacts ==
  ASSUME TypeOK, Boot \/ Used \/ DropsOut \/ Returns \/ Destroyed
  PROVE  /\ UNCHANGED <<reg, ctl, idleCb>>
         /\ node'.vm = node.vm
         /\ \/ node'.idle = 0
            \/ /\ node'.idle = node.idle
               /\ node'.st \in {"up", "away"} => node.st \in {"up", "away"}
BY DEF TypeOK, NodeType, Boot, Used, DropsOut, Returns, Destroyed, bounds

LEMMA NextInv ==
  ASSUME IInv, [Next]_vars
  PROVE  (Blank /\ TriggeredIsLeaving /\ ReportIsHonest)'
<1> USE DEF IInv
<1>0. \A c \in Controllers : ctl[c].heard \in Nat /\ ctl[c].from \in Nat
  BY DEF TypeOK, CtlType, Ages
<1>a. /\ Unused.active = Never /\ Unused.from = 0 /\ Unused.triggered = FALSE
      /\ node.vm \in Nat /\ node.idle \in Nat
  BY DEF Unused, TypeOK, NodeType, Ages
<1>1. CASE Boot \/ Used \/ DropsOut \/ Returns \/ Destroyed
  <2>1. (Blank /\ TriggeredIsLeaving)'
    BY <1>1, NodeFacts DEF Blank, TriggeredIsLeaving
  <2>2. ReportIsHonest'
    BY <1>0, <1>1, NodeFacts DEF ReportIsHonest
  <2> QED
    BY <2>1, <2>2
<1>2. ASSUME NEW c \in Controllers, Create(c) \/ Discover(c)
      PROVE  (Blank /\ TriggeredIsLeaving /\ ReportIsHonest)'
  <2>1. PICK st \in {"launching", "running"}, disc \in BOOLEAN :
           ctl' = [ctl EXCEPT ![c] = NewController(st, disc)]
    BY <1>2 DEF Create, Discover
  <2>2. /\ ctl'[c].st = st /\ st # "unused" /\ ctl'[c].triggered = FALSE
        /\ ctl'[c].active = Never /\ ctl'[c].from = 0
        /\ \A d \in Controllers \ {c} : ctl'[d] = ctl[d]
    BY <2>1, NewControllerType DEF TypeOK, CtlStates
  <2>3. Blank' /\ TriggeredIsLeaving'
    BY <1>2, <2>2 DEF Blank, TriggeredIsLeaving, Create, Discover
  <2>4. \/ node' = node
        \/ node'.vm = node.vm + 1 /\ node'.st = "booting"
    <3>1. CASE Create(c)
      BY <3>1 DEF Create
    <3>2. CASE Discover(c)
      BY <3>2 DEF Discover
    <3> QED
      BY <1>2, <3>1, <3>2
  <2>5. ReportIsHonest'
    BY <1>0, <1>a, <2>2, <2>4 DEF ReportIsHonest
  <2> QED
    BY <2>3, <2>5
<1>3. CASE UserDelete \/ RunIdleCallback \/ RunGoneCallback
  <2>1. Blank' /\ TriggeredIsLeaving'
    BY <1>3, RemovalFacts DEF Blank, TriggeredIsLeaving
  <2>2. ReportIsHonest'
    BY <1>a, <1>3, RemovalFacts DEF ReportIsHonest
  <2> QED
    BY <2>1, <2>2
<1>4. ASSUME NEW c \in Controllers, Check(c)
      PROVE  (Blank /\ TriggeredIsLeaving /\ ReportIsHonest)'
  <2>1. Blank'
    BY <1>4, CheckFacts DEF Blank
  <2>2. TriggeredIsLeaving'
    BY <1>4, CheckFacts DEF TriggeredIsLeaving, TypeOK
  <2>3. ReportIsHonest'
    BY <1>0, <1>a, <1>4, CheckFacts DEF ReportIsHonest
  <2> QED
    BY <2>1, <2>2, <2>3
<1>5. CASE Tick
  <2>1. ASSUME NEW c \in Controllers
        PROVE  \/ ctl'[c] = ctl[c] /\ ctl[c] = Unused
               \/ /\ ctl'[c].active = Older(ctl[c].active)
                  /\ ctl'[c].heard = Older(ctl[c].heard)
                  /\ ctl'[c].from = ctl[c].from
                  /\ ctl'[c].st = ctl[c].st /\ ctl[c].st # "unused"
                  /\ ctl'[c].triggered = ctl[c].triggered
    BY <1>5 DEF Tick, Monitors, Blank, TypeOK, CtlType
  <2>2. node'.vm = node.vm /\ node'.st = node.st
    BY <1>5 DEF Tick, TypeOK, NodeType
  <2>3. node.st \in {"up", "away"} => node'.idle = Older(node.idle)
    BY <1>5 DEF Tick, TypeOK, NodeType
  <2>4. Blank' /\ TriggeredIsLeaving'
    BY <1>5, <2>1 DEF Blank, TriggeredIsLeaving, Tick, TypeOK
  <2>5. ASSUME NEW c \in Controllers, ctl'[c].active # Never,
               ctl'[c].from = node'.vm, node'.st \in {"up", "away"}
        PROVE  node'.idle = ctl'[c].active \/ node'.idle <= ctl'[c].heard
    <3>1. ctl[c] \in CtlType /\ ctl[c].heard \in Ages /\ node.idle \in Ages
      BY DEF TypeOK, CtlType, NodeType
    <3>2. /\ ctl'[c].active = Older(ctl[c].active)
          /\ ctl'[c].heard = Older(ctl[c].heard)
          /\ ctl'[c].from = ctl[c].from
      BY <1>a, <2>1, <2>5
    <3>3. ctl[c].active # Never
      BY <2>5, <3>2 DEF Older
    <3>4. node.idle = ctl[c].active \/ node.idle <= ctl[c].heard
      BY <2>2, <2>5, <3>2, <3>3 DEF ReportIsHonest
    <3> QED
      BY <2>2, <2>3, <2>5, <3>1, <3>2, <3>4, OlderAges
  <2>6. ReportIsHonest'
    BY <2>1, <2>2, <2>5 DEF ReportIsHonest
  <2> QED
    BY <2>4, <2>6
<1>6. CASE Restart
  <2>1. Blank' /\ TriggeredIsLeaving'
    BY <1>6 DEF Restart, Blank, TriggeredIsLeaving
  <2>2. ReportIsHonest'
    BY <1>6, <1>a DEF Restart, ReportIsHonest
  <2> QED
    BY <2>1, <2>2
<1>7. CASE UNCHANGED vars
  BY <1>7 DEF vars, Blank, TriggeredIsLeaving, ReportIsHonest
<1> QED
  BY <1>1, <1>2, <1>3, <1>4, <1>5, <1>6, <1>7 DEF Next

LEMMA SpecIInv == Spec => []IInv
<1>1. IInv /\ [Next]_vars => IInv'
  BY NextType, NextInv DEF IInv
<1> QED
  BY InitIInv, <1>1, PTL DEF Spec

-----------------------------------------------------------------------------
(* The results *)

(* A registered controller that used up its one idle shutdown always has a *)
(* callback on its way that takes it out (controller.go:426-438).          *)
THEOREM TriggeredLeaves == Spec => []TriggeredIsLeaving
<1> QED
  BY SpecIInv, PTL DEF IInv

(* Only a check that finds the peer triggers, when it finds reason to.     *)
LEMMA TriggerFacts ==
  ASSUME IInv, Next, NEW c \in Controllers, Triggers(c)
  PROVE  /\ ShouldIdleShutdown(ctl'[c]) /\ node' = node /\ node.st = "up"
         /\ CheckPeerPresent(c)
<1> USE DEF IInv
<1>0. Unused.triggered = FALSE
  BY DEF Unused
<1>1. ASSUME Boot \/ Used \/ DropsOut \/ Returns \/ Destroyed PROVE FALSE
  BY <1>1, NodeFacts DEF Triggers
<1>2. ASSUME NEW d \in Controllers, Create(d) \/ Discover(d) PROVE FALSE
  <2>1. PICK st \in {"launching", "running"}, disc \in BOOLEAN :
           ctl' = [ctl EXCEPT ![d] = NewController(st, disc)]
    BY <1>2 DEF Create, Discover
  <2> QED
    BY <2>1, NewControllerType DEF TypeOK, CtlStates, Triggers
<1>3. ASSUME UserDelete \/ RunIdleCallback \/ RunGoneCallback PROVE FALSE
  BY <1>0, <1>3, RemovalFacts DEF Triggers
<1>4. ASSUME Tick PROVE FALSE
  <2>1. ctl[c] \in CtlType
    BY DEF TypeOK
  <2>2. ctl'[c].triggered = ctl[c].triggered
    BY <1>4, <2>1 DEF Tick, CtlType
  <2> QED
    BY <2>2 DEF Triggers
<1>5. ASSUME Restart PROVE FALSE
  BY <1>0, <1>5 DEF Restart, Triggers
<1>6. ASSUME NEW d \in Controllers, Check(d)
      PROVE  /\ ShouldIdleShutdown(ctl'[c]) /\ node' = node /\ node.st = "up"
             /\ CheckPeerPresent(c)
  <2>1. d = c
    BY <1>6, CheckFacts DEF Triggers
  <2>2. ctl[c] \in CtlType /\ idleCb \in Nat
    BY DEF TypeOK
  <2>3. CASE CheckFails(c) \/ CheckPeerAbsent(c)
    <3>1. ctl'[c].triggered = ctl[c].triggered
      BY <2>2, <2>3 DEF TypeOK, CtlType, CheckFails, CheckPeerAbsent
    <3> QED
      BY <3>1 DEF Triggers
  <2>4. CASE CheckPeerPresent(c)
    BY <1>6, <2>1, <2>4, CheckFacts DEF Triggers, CheckPeerPresent
  <2> QED
    BY <1>6, <2>1, <2>3, <2>4 DEF Check
<1> QED
  BY <1>1, <1>2, <1>3, <1>4, <1>5, <1>6 DEF Next

(* A step triggers an idle shutdown only for one of the reasons of         *)
(* shouldIdleShutdown (controller.go:302-320), whichever VM the controller *)
(* looks at, whatever it missed and however often the process died.        *)
THEOREM TriggersMeanIdle == Spec => TriggerMeansIdle
<1> DEFINE Reason(c) == \/ node.idle > IdleTimeout
                        \/ /\ ctl'[c].active = Never
                           /\ ctl'[c].watched > Watchdog
                        \/ /\ ctl'[c].active > IdleTimeout
                           /\ \/ node.idle <= ctl'[c].heard
                              \/ ctl'[c].from # node.vm
<1>1. ASSUME IInv, IInv', Next, NEW c \in Controllers, Triggers(c)
      PROVE  Reason(c)
  <2>1. ShouldIdleShutdown(ctl'[c]) /\ node' = node /\ node.st = "up"
    BY <1>1, TriggerFacts
  <2>2. CASE ctl'[c].active = Never
    BY <2>1, <2>2 DEF ShouldIdleShutdown
  <2>3. CASE ctl'[c].active # Never
    <3>1. ctl'[c].active > IdleTimeout
      BY <2>1, <2>3 DEF ShouldIdleShutdown
    <3>2. ReportIsHonest'
      BY <1>1 DEF IInv
    <3>3. ctl'[c].from = node.vm
             => node.idle = ctl'[c].active \/ node.idle <= ctl'[c].heard
      BY <2>1, <2>3, <3>2 DEF ReportIsHonest
    <3> QED
      BY <3>1, <3>3
  <2> QED
    BY <2>2, <2>3
<1>2. IInv /\ IInv' /\ [Next]_vars
        => [\A c \in Controllers : Triggers(c) => Reason(c)]_vars
  BY <1>1
<1> QED
  BY SpecIInv, <1>2, PTL DEF Spec, TriggerMeansIdle

-----------------------------------------------------------------------------
(* The report of a discovered controller *)

(* c is registered and discovered, its peer was never found absent (the    *)
(* callback would be pending) and no call failed.                          *)
Followed(c) == reg = c /\ ctl[c].disc /\ goneCb = 0 /\ faults = 0

(* How many checks ago c last fetched; count is 0 when it is to fetch.     *)
ChecksAgo(c) == IF ctl[c].checked THEN ctl[c].count - 1 ELSE ctl[c].count

(* Every check of such a controller found the peer, which is still the     *)
(* same VM, and counted on; so between two fetches the report is of that   *)
(* VM and no older than the checks since.                                  *)
ReportIsFresh == \A c \in Controllers : Followed(c) =>
    /\ ctl[c].st = "running"
    /\ node.st # "booting"
    /\ (~node.silent /\ ctl[c].count # 0) => /\ ctl[c].from = node.vm
                                             /\ ctl[c].heard <= ChecksAgo(c)

(* A check that judges, of a followed controller: it counts on, and what   *)
(* it judges by is what it holds afterwards.                               *)
LEMMA JudgeFacts ==
  ASSUME TypeOK, NEW c \in Controllers, NEW k \in CtlType, Judge(c, k)
  PROVE  /\ ctl'[c].st = "running" /\ ctl'[c].checked = TRUE
         /\ ctl'[c].count = NextCount(k.count)
         /\ ctl'[c].from = k.from /\ ctl'[c].heard = k.heard
         /\ ctl'[c].disc = k.disc
         /\ \A d \in Controllers \ {c} : ctl'[d] = ctl[d]
<1> DEFINE fires == ShouldIdleShutdown(k) /\ ~k.triggered
           j == [k EXCEPT !.st = "running", !.checked = TRUE,
                          !.count = NextCount(k.count),
                          !.triggered = k.triggered \/ fires]
<1>1. ctl' = [ctl EXCEPT ![c] = j]
  BY DEF Judge
<1>2. /\ j.st = "running" /\ j.checked = TRUE /\ j.count = NextCount(k.count)
      /\ j.from = k.from /\ j.heard = k.heard /\ j.disc = k.disc
  BY DEF CtlType
<1> HIDE DEF j
<1> QED
  BY <1>1, <1>2 DEF TypeOK

(* The next count, where the fetches are StatsInterval checks apart.       *)
LEMMA Remainder ==
  ASSUME NEW m \in Nat, NEW s \in Nat \ {0}, m <= s
  PROVE  m % s = IF m < s THEN m ELSE 0
<1>1. CASE m < s
  BY <1>1
<1>2. CASE m = s
  <2>1. m = 1 * s + 0 BY <1>2
  <2> QED BY <1>2, <2>1
<1> QED
  BY <1>1, <1>2

LEMMA NextCountFacts ==
  ASSUME NEW n \in 0..(StatsInterval - 1), NextCount(n) # 0
  PROVE  NextCount(n) = n + 1
<1>1. n + 1 \in Nat /\ n + 1 <= StatsInterval
  OBVIOUS
<1>2. (n + 1) % StatsInterval = IF n + 1 < StatsInterval THEN n + 1 ELSE 0
  BY <1>1, Remainder
<1> QED
  BY <1>2 DEF NextCount

(* When no call fails, the report a check judges a followed controller by  *)
(* is of the VM that is there and less than StatsInterval checks old.      *)
LEMMA PresentIsFresh ==
  ASSUME IInv, ReportIsFresh, NEW c \in Controllers, Followed(c),
         CheckPeerPresent(c), faults' = 0, ~node.silent
  PROVE  /\ ctl'[c].from = node.vm
         /\ ctl'[c].heard \in Nat
         /\ ctl'[c].heard <= ctl[c].count
         /\ ctl'[c].count = NextCount(ctl[c].count)
         /\ ctl'[c].st = "running" /\ ctl'[c].checked = TRUE
<1>0. /\ TypeOK /\ ctl[c] \in CtlType /\ Report(c) \in CtlType
      /\ ctl[c].count \in 0..(StatsInterval - 1) /\ ctl[c].heard \in Nat
  BY ReportFacts DEF IInv, TypeOK, CtlType, Ages
<1>1. CASE Judge(c, Report(c))
  <2>1. Report(c).count = ctl[c].count
    BY <1>0 DEF Report, CtlType
  <2>2. PICK k \in CtlType : k = Report(c)
    BY <1>0
  <2>3. Judge(c, k)
    BY <1>1, <2>2
  <2>4. /\ ctl'[c].st = "running" /\ ctl'[c].checked = TRUE
        /\ ctl'[c].count = NextCount(k.count)
        /\ ctl'[c].from = k.from /\ ctl'[c].heard = k.heard
    BY <1>0, <2>3, JudgeFacts
  <2>5. Report(c).from = node.vm /\ Report(c).heard = 0
    BY <1>0, ReportFacts
  <2> QED
    BY <1>0, <2>1, <2>2, <2>4, <2>5
<1>2. CASE ~Fetches(c) /\ Judge(c, ctl[c])
  <2>1. ctl[c].count # 0 /\ ~ctl[c].checked
    BY <1>2 DEF Fetches, CheckPeerPresent, MustCheck
  <2>2. ctl[c].from = node.vm /\ ctl[c].heard <= ctl[c].count
    BY <2>1 DEF ReportIsFresh, ChecksAgo
  <2> QED
    BY <1>0, <1>2, <2>2, JudgeFacts
<1>3. ~Fault
  BY <1>0 DEF Fault, TypeOK
<1> QED
  BY <1>1, <1>2, <1>3 DEF CheckPeerPresent, KeepsReport

(* What a step must leave alone to keep the report of c fresh.             *)
LEMMA FreshUnlessTouched ==
  ASSUME TypeOK, ReportIsFresh, NEW c \in Controllers, Followed(c), Followed(c)',
         ctl'[c] = ctl[c], node'.vm = node.vm, node'.silent = node.silent,
         node'.st # "booting"
  PROVE  /\ ctl'[c].st = "running"
         /\ node'.st # "booting"
         /\ (~node'.silent /\ ctl'[c].count # 0) =>
                /\ ctl'[c].from = node'.vm
                /\ ctl'[c].heard <= ChecksAgo(c)'
BY DEF ReportIsFresh, ChecksAgo

LEMMA FreshPreserved == IInv /\ ReportIsFresh /\ [Next]_vars => ReportIsFresh'
<1> SUFFICES ASSUME IInv, ReportIsFresh, [Next]_vars,
                    NEW c \in Controllers, Followed(c)'
             PROVE  /\ ctl'[c].st = "running"
                    /\ node'.st # "booting"
                    /\ (~node'.silent /\ ctl'[c].count # 0) =>
                           /\ ctl'[c].from = node'.vm
                           /\ ctl'[c].heard <= ChecksAgo(c)'
  BY DEF ReportIsFresh
<1> DEFINE Goal == /\ ctl'[c].st = "running"
                   /\ node'.st # "booting"
                   /\ (~node'.silent /\ ctl'[c].count # 0) =>
                          /\ ctl'[c].from = node'.vm
                          /\ ctl'[c].heard <= ChecksAgo(c)'
<1> SUFFICES Goal OBVIOUS
<1> USE DEF bounds
<1>a. reg' = c /\ ctl'[c].disc /\ goneCb' = 0 /\ faults' = 0
  BY DEF Followed
<1>b. TypeOK /\ c # NoCtl
  BY DEF IInv
<1>c. /\ ctl[c] \in CtlType /\ node \in NodeType
      /\ goneCb \in Nat /\ faults \in Nat
  BY <1>b DEF TypeOK
<1>0. /\ TypeOK /\ ctl[c] \in CtlType /\ node \in NodeType
      /\ goneCb \in Nat /\ faults \in Nat /\ c # NoCtl
      /\ ctl[c].count \in 0..(StatsInterval - 1) /\ ctl[c].heard \in Ages
      /\ reg' = c /\ ctl'[c].disc /\ goneCb' = 0 /\ faults' = 0
  BY <1>a, <1>b, <1>c DEF CtlType
<1>1. ASSUME Boot \/ Used \/ DropsOut \/ Returns \/ Destroyed PROVE Goal
  <2>1. Followed(c)
    BY <1>0, <1>1 DEF Followed, Boot, Used, DropsOut, Returns, Destroyed
  <2>2. node.st # "booting" BY <2>1 DEF ReportIsFresh
  <2>3. /\ ctl' = ctl /\ node'.vm = node.vm /\ node'.silent = node.silent
        /\ node'.st # "booting"
    BY <1>0, <1>1, <2>2 DEF NodeType, Boot, Used, DropsOut, Returns, Destroyed
  <2> QED BY <1>0, <2>1, <2>3, FreshUnlessTouched
<1>2. ASSUME NEW d \in Controllers, Create(d) PROVE Goal
  <2>1. c = d BY <1>0, <1>2 DEF Create
  <2>2. ctl'[c] = NewController("launching", FALSE)
    BY <1>0, <1>2, <2>1 DEF Create, TypeOK
  <2>3. NewController("launching", FALSE).disc = FALSE
    BY DEF NewController, Unused
  <2> QED BY <1>0, <2>2, <2>3
<1>3. ASSUME NEW d \in Controllers, Discover(d) PROVE Goal
  <2>1. c = d /\ node' = node /\ node.st = "up"
    BY <1>0, <1>3 DEF Discover
  <2>2. ctl'[c] = NewController("running", TRUE)
    BY <1>0, <1>3, <2>1 DEF Discover, TypeOK
  <2>3. NewController("running", TRUE).st = "running"
        /\ NewController("running", TRUE).count = 0
    BY DEF NewController, Unused
  <2> QED BY <2>1, <2>2, <2>3
<1>4. ASSUME UserDelete \/ RunIdleCallback \/ RunGoneCallback PROVE Goal
  BY <1>0, <1>4, RemovalFacts
<1>5. ASSUME NEW d \in Controllers, d # c, Check(d) PROVE Goal
  <2>1. goneCb' >= goneCb /\ faults' >= faults
    BY <1>0, <1>5 DEF Check, CheckFails, CheckPeerAbsent, CheckPeerPresent, Fault, NoFault
  <2>2. node' = node /\ reg' = reg /\ ctl'[c] = ctl[c]
    BY <1>0, <1>5, CheckFacts
  <2>3. Followed(c)
    BY <1>0, <2>1, <2>2 DEF Followed
  <2>4. node.st # "booting" BY <2>3 DEF ReportIsFresh
  <2> QED BY <1>0, <2>2, <2>3, <2>4, FreshUnlessTouched
<1>6. ASSUME Check(c) PROVE Goal
  <2>1. goneCb' >= goneCb /\ faults' >= faults
    BY <1>0, <1>6 DEF Check, CheckFails, CheckPeerAbsent, CheckPeerPresent, Fault, NoFault
  <2>2. node' = node /\ reg' = reg
    BY <1>0, <1>6, CheckFacts
  <2>3. ctl'[c].disc = ctl[c].disc
    <3>1. CASE CheckFails(c) \/ CheckPeerAbsent(c)
      <4>1. ctl'[c] \in {[ctl[c] EXCEPT !.checked = TRUE],
                         [ctl[c] EXCEPT !.checked = TRUE, !.st = "idle"]}
        BY <1>0, <3>1 DEF TypeOK, CtlType, CheckFails, CheckPeerAbsent
      <4> QED BY <1>0, <4>1 DEF CtlType
    <3>2. CASE CheckPeerPresent(c)
      <4>1. PICK k \in {Report(c), ctl[c]} : Judge(c, k)
        BY <3>2 DEF CheckPeerPresent
      <4>2. k \in CtlType /\ k.disc = ctl[c].disc
        BY <1>0, ReportFacts DEF Report, CtlType
      <4> QED BY <1>0, <4>1, <4>2, JudgeFacts
    <3> QED BY <1>6, <3>1, <3>2 DEF Check
  <2>4. Followed(c)
    BY <1>0, <2>1, <2>2, <2>3 DEF Followed
  <2>5. ctl[c].st = "running" /\ node.st # "booting"
    BY <2>4 DEF ReportIsFresh
  <2>6. ~CheckFails(c)
    BY <1>0 DEF CheckFails, Fault
  <2>7. ~CheckPeerAbsent(c)
    BY <1>0, <2>4, <2>5 DEF CheckPeerAbsent, Followed
  <2>8. CheckPeerPresent(c)
    BY <1>6, <2>6, <2>7 DEF Check
  <2>9. CASE node.silent
    <3>1. PICK k \in {Report(c), ctl[c]} : Judge(c, k)
      BY <2>8 DEF CheckPeerPresent
    <3>2. k \in CtlType
      BY <1>0, ReportFacts
    <3> QED BY <1>0, <2>2, <2>5, <2>9, <3>1, <3>2, JudgeFacts
  <2>10. CASE ~node.silent
    <3>1. /\ ctl'[c].from = node.vm
          /\ ctl'[c].heard <= ctl[c].count
          /\ ctl'[c].count = NextCount(ctl[c].count)
          /\ ctl'[c].st = "running" /\ ctl'[c].checked = TRUE
      BY <1>0, <2>4, <2>8, <2>10, PresentIsFresh
    <3>2. ctl'[c].count # 0 => ctl'[c].count = ctl[c].count + 1
      BY <1>0, <3>1, NextCountFacts
    <3>3. ctl'[c].count # 0 => ChecksAgo(c)' = ctl[c].count
      BY <1>0, <3>1, <3>2 DEF ChecksAgo
    <3> QED BY <2>2, <2>5, <3>1, <3>3
  <2> QED BY <2>9, <2>10
<1>7. ASSUME Tick PROVE Goal
  <2>1. /\ node'.vm = node.vm /\ node'.st = node.st
        /\ node'.silent = node.silent /\ reg' = reg
    BY <1>0, <1>7 DEF Tick, NodeType
  <2>2. ctl[c].st # "unused"
    BY <1>0, <1>7, <2>1 DEF IInv, TriggeredIsLeaving
  <2>3. /\ ctl[c].checked
        /\ ctl'[c] = [ctl[c] EXCEPT !.active = Older(@), !.heard = Older(@),
                                    !.watched = Older(@), !.checked = FALSE]
    BY <1>7, <2>2 DEF Tick, Monitors
  <2>4. /\ ctl'[c].st = ctl[c].st /\ ctl'[c].disc = ctl[c].disc
        /\ ctl'[c].count = ctl[c].count /\ ctl'[c].from = ctl[c].from
        /\ ctl'[c].heard = Older(ctl[c].heard) /\ ctl'[c].checked = FALSE
    BY <1>0, <2>3 DEF CtlType
  <2>5. Followed(c)
    BY <1>0, <1>7, <2>1, <2>4 DEF Followed, Tick
  <2>6. Older(ctl[c].heard) <= ctl[c].heard + 1
    BY <1>0 DEF Older, Ages
  <2>7. Older(ctl[c].heard) \in Nat
    BY <1>0, OlderAges DEF Ages
  <2>8. ctl'[c].count # 0 /\ ~node.silent =>
           /\ ctl[c].from = node.vm
           /\ ctl[c].heard <= ctl[c].count - 1
    BY <2>3, <2>4, <2>5 DEF ReportIsFresh, ChecksAgo
  <2>9. ctl'[c].count # 0 /\ ~node.silent => ctl'[c].heard <= ctl'[c].count
    BY <1>0, <2>4, <2>6, <2>7, <2>8 DEF Ages
  <2>10. ctl[c].st = "running" /\ node.st # "booting"
    BY <2>5 DEF ReportIsFresh
  <2>11. ChecksAgo(c)' = ctl'[c].count
    BY <2>4 DEF ChecksAgo
  <2> QED BY <2>1, <2>4, <2>8, <2>9, <2>10, <2>11
<1>8. ASSUME Restart PROVE Goal
  BY <1>0, <1>8 DEF Restart
<1>9. ASSUME UNCHANGED vars PROVE Goal
  <2>1. Followed(c) BY <1>0, <1>9 DEF vars, Followed
  <2>2. node.st # "booting" BY <2>1 DEF ReportIsFresh
  <2> QED BY <1>0, <1>9, <2>1, <2>2, FreshUnlessTouched DEF vars
<1> HIDE DEF Goal
<1> QED
  BY <1>1, <1>2, <1>3, <1>4, <1>5, <1>6, <1>7, <1>8, <1>9 DEF Next

(* A controller that discovery made and that is still registered, with no  *)
(* peer-gone callback pending, triggers an idle shutdown by a report of    *)
(* the VM that is there, less than StatsInterval checks old, or of a VM    *)
(* that never answers, as long as no call fails (controller.go:268-276,    *)
(* 420-424).                                                               *)
THEOREM JudgedFresh == Spec => JudgedByFreshReport
<1> DEFINE Fresh(c) == (reg = c /\ ctl[c].disc /\ goneCb = 0 /\ faults' = 0 /\ Triggers(c))
                           => FreshlyJudged(c)
<1>1. Init => ReportIsFresh
  <2> SUFFICES ASSUME Init, NEW c \in Controllers PROVE ~Followed(c)
    BY DEF ReportIsFresh
  <2> QED
    BY DEF Init, Followed
<1>2. ASSUME IInv, ReportIsFresh, Next, NEW c \in Controllers PROVE Fresh(c)
  <2> SUFFICES ASSUME reg = c, ctl[c].disc, goneCb = 0, faults' = 0, Triggers(c),
                      ~node.silent
               PROVE  ctl'[c].from = node.vm /\ ctl'[c].heard < StatsInterval
    BY DEF FreshlyJudged
  <2>1. CheckPeerPresent(c)
    BY <1>2, TriggerFacts
  <2>2. ctl[c].count \in 0..(StatsInterval - 1) /\ faults \in Nat
    BY <1>2 DEF IInv, TypeOK, CtlType
  <2>3. faults = 0
    BY <2>1, <2>2 DEF CheckPeerPresent, Fault, NoFault
  <2>4. /\ ctl'[c].from = node.vm
        /\ ctl'[c].heard \in Nat /\ ctl'[c].heard <= ctl[c].count
    BY <1>2, <2>1, <2>3, PresentIsFresh DEF Followed
  <2> QED
    BY <2>2, <2>4
<1>3. IInv /\ ReportIsFresh /\ [Next]_vars => [\A c \in Controllers : Fresh(c)]_vars
  BY <1>2
<1> QED
  BY SpecIInv, <1>1, FreshPreserved, <1>3, PTL DEF Spec, JudgedByFreshReport

=============================================================================
