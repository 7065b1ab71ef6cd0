--------------------------- MODULE HealthMonitor ---------------------------
(***************************************************************************)
(* The clock of an instance: how the monitor of internal/instances/        *)
(* controller.go learns when a node was last active (fetchStats), how long *)
(* it believes that (nodeStats, healthCheckCount), when it gives a node up *)
(* (shouldIdleShutdown with its watchdog), and what the callback it then   *)
(* starts does to whatever is registered under the key by that time.       *)
(* InstanceRegistry has the same monitors without time, step by step; here *)
(* a health check is one step and there is one key, whose VMs come, sleep, *)
(* drop out of the tailnet and return.                                     *)
(*                                                                         *)
(* One Tick is one health check period.  Every time.Time of the code is    *)
(* held as its age in ticks, up to Cap: no comparison looks further.       *)
(***************************************************************************)
EXTENDS Integers, FiniteSets

CONSTANTS
    Controllers,    \* Controller values, used again when nothing refers to one
    NoCtl,          \* no registry entry
    StatsInterval,  \* statsFetchInterval, in health checks
    IdleTimeout,    \* the service's IdleTimeout, in health check periods
    Watchdog,       \* statsWatchdogThreshold, in health check periods
    Cap,            \* ages are not told apart above this
    MaxVMs,         \* bound: VMs created under the key
    MaxFaults,      \* bound: calls that may fail
    MaxAbsences,    \* bound: how often a node may drop out of the tailnet
    MaxRestarts     \* bound: how often the process may die

ASSUME ControllersAssumption == NoCtl \notin Controllers
ASSUME IntervalAssumption == /\ StatsInterval \in Nat \ {0}
                             /\ IdleTimeout \in Nat \ {0}
                             /\ Watchdog \in Nat \ {0}
                             /\ Cap \in Nat
                             /\ IdleTimeout < Cap /\ Watchdog < Cap
ASSUME BoundAssumption == /\ MaxVMs \in Nat /\ MaxFaults \in Nat
                          /\ MaxAbsences \in Nat /\ MaxRestarts \in Nat

VARIABLES
    node,       \* the VM under the key and when it was last active
    reg,        \* the registry's entry: a controller or NoCtl
    ctl,        \* the controllers whose monitor may run, leaked ones too
    idleCb,     \* goroutines of makeIdleShutdownCallback that have not run
    goneCb,     \* goroutines of makePeerGoneCallback that have not run
    faults, absences, restarts

vars   == <<node, reg, ctl, idleCb, goneCb, faults, absences, restarts>>
bounds == <<faults, absences, restarts>>

(* "orphan": the VM runs without its device, the collector's to delete.     *)
(* "silent": the node's stats endpoint never answers, as when its service  *)
(* did not start.                                                          *)
NodeStages == {"none", "booting", "up", "away", "orphan"}
CtlStates  == {"unused", "launching", "running", "idle"}
Ages       == 0..Cap
Never      == -1            \* nodeStats is nil

NodeType == [st : NodeStages, idle : Ages, silent : BOOLEAN, vm : 0..MaxVMs]
CtlType  == [st : CtlStates, disc : BOOLEAN, active : Ages \cup {Never},
             heard : Ages, from : 0..MaxVMs, watched : Ages,
             count : 0..(StatsInterval - 1), triggered : BOOLEAN,
             checked : BOOLEAN]

(* active, heard: the ages of nodeStats.LastActive and .ReceivedAt; from:  *)
(* the VM that sent them; watched: the age of watchingSince; disc: it has  *)
(* an onPeerGone callback; checked: it did its check of this period.       *)
Unused == [st |-> "unused", disc |-> FALSE, active |-> Never, heard |-> 0,
           from |-> 0, watched |-> 0, count |-> 0, triggered |-> FALSE,
           checked |-> FALSE]

NewController(st, disc) == [Unused EXCEPT !.st = st, !.disc = disc]

Init == /\ node = [st |-> "none", idle |-> 0, silent |-> FALSE, vm |-> 0]
        /\ reg = NoCtl
        /\ ctl = [c \in Controllers |-> Unused]
        /\ idleCb = 0 /\ goneCb = 0
        /\ faults = 0 /\ absences = 0 /\ restarts = 0

Fault == faults < MaxFaults /\ faults' = faults + 1
NoFault == faults' = faults

-----------------------------------------------------------------------------
(* The node: its VM boots, is used, drops out of the tailnet (a reboot, an *)
(* outage, an expired netmap) and comes back or not, and is destroyed by   *)
(* its cloud.                                                              *)
Boot ==
    /\ node.st = "booting"
    /\ \E s \in BOOLEAN : node' = [node EXCEPT !.st = "up", !.idle = 0, !.silent = s]
    /\ UNCHANGED <<reg, ctl, idleCb, goneCb, bounds>>

Used ==
    /\ node.st = "up" /\ node.idle > 0
    /\ node' = [node EXCEPT !.idle = 0]
    /\ UNCHANGED <<reg, ctl, idleCb, goneCb, bounds>>

DropsOut ==
    /\ node.st = "up" /\ absences < MaxAbsences
    /\ node' = [node EXCEPT !.st = "away"]
    /\ absences' = absences + 1
    /\ UNCHANGED <<reg, ctl, idleCb, goneCb, faults, restarts>>

Returns ==
    /\ node.st = "away"
    /\ \E i \in {0, node.idle} : node' = [node EXCEPT !.st = "up", !.idle = i]
    /\ UNCHANGED <<reg, ctl, idleCb, goneCb, bounds>>

Destroyed ==
    /\ node.st = "away"
    /\ node' = [node EXCEPT !.st = "none"]
    /\ UNCHANGED <<reg, ctl, idleCb, goneCb, bounds>>

-----------------------------------------------------------------------------
(* The registry's entries.  CreateInstance overwrites an idle entry and    *)
(* leaves its controller running.                                          *)
Replaceable == reg # NoCtl => ctl[reg].st = "idle"

Create(c) ==
    /\ Replaceable
    /\ node.st \in {"none", "orphan"} /\ node.vm < MaxVMs
    /\ ctl[c].st = "unused"
    /\ ctl' = [ctl EXCEPT ![c] = NewController("launching", FALSE)]
    /\ reg' = c
    /\ node' = [st |-> "booting", idle |-> 0, silent |-> FALSE, vm |-> node.vm + 1]
    /\ UNCHANGED <<idleCb, goneCb, bounds>>

Discover(c) ==
    /\ reg = NoCtl /\ node.st = "up" /\ ctl[c].st = "unused"
    /\ ctl' = [ctl EXCEPT ![c] = NewController("running", TRUE)]
    /\ reg' = c
    /\ UNCHANGED <<node, idleCb, goneCb, bounds>>

(* DeleteInstance: the entry goes, then the device, then the VM, then the  *)
(* controller stops.  Each deletion may fail, which is only logged: the VM *)
(* alone stays behind, or both do and discovery finds them again.          *)
TakeOut == /\ reg # NoCtl
           /\ reg' = NoCtl
           /\ ctl' = [ctl EXCEPT ![reg] = Unused]

DeviceAndVM ==
    \/ node' = [node EXCEPT !.st = "none"] /\ NoFault
    \/ node' = [node EXCEPT !.st = IF @ = "none" THEN @ ELSE "orphan"] /\ Fault
    \/ node' = node /\ faults + 2 <= MaxFaults /\ faults' = faults + 2

\* mutant: an instance whose VM could not be deleted is kept
DeleteInstance_KeepsEntry ==
    /\ reg # NoCtl /\ DeviceAndVM
    /\ IF node'.st = "none" THEN TakeOut ELSE UNCHANGED <<reg, ctl>>
    /\ UNCHANGED <<absences, restarts>>

DeleteInstance == TakeOut /\ DeviceAndVM /\ UNCHANGED <<absences, restarts>>

NothingThere == reg = NoCtl /\ UNCHANGED <<node, reg, ctl, bounds>>

UserDelete == DeleteInstance /\ UNCHANGED <<idleCb, goneCb>>

RunIdleCallback ==
    /\ idleCb > 0 /\ idleCb' = idleCb - 1
    /\ DeleteInstance \/ NothingThere
    /\ UNCHANGED goneCb

RunGoneCallback ==
    /\ goneCb > 0 /\ goneCb' = goneCb - 1
    /\ (TakeOut /\ UNCHANGED <<node, bounds>>) \/ NothingThere
    /\ UNCHANGED idleCb

-----------------------------------------------------------------------------
(* The health check.                                                       *)
Monitors(c) == ctl[c].st # "unused"

MustCheck(c) == Monitors(c) /\ ~ctl[c].checked

(* GetPeers answers with an error, for this monitor only. *)
CheckFails(c) ==
    /\ MustCheck(c) /\ Fault
    /\ ctl' = [ctl EXCEPT ![c].checked = TRUE]
    /\ UNCHANGED <<node, reg, idleCb, goneCb, absences, restarts>>

CheckPeerAbsent(c) ==
    /\ MustCheck(c) /\ node.st # "up"
    /\ ctl' = [ctl EXCEPT ![c].checked = TRUE,
                          ![c].st = IF @ = "running" THEN "idle" ELSE @]
    /\ goneCb' = IF ctl[c].st = "running" /\ ctl[c].disc THEN goneCb + 1 ELSE goneCb
    /\ UNCHANGED <<node, reg, idleCb, bounds>>

(* fetchStats: every StatsInterval-th check that finds the peer asks the   *)
(* node, and a failure leaves the report of an earlier one.                *)
\* mutant: a report is asked for until there is one
Fetches_Once(c) == ctl[c].active = Never

Fetches(c) == ctl[c].count = 0

Report(c) == [ctl[c] EXCEPT !.active = node.idle, !.heard = 0, !.from = node.vm]

KeepsReport(c) == ~Fetches(c) \/ node.silent

(* shouldIdleShutdown of the controller after the fetch. *)
\* mutant: the watchdog fires whether or not there is a report
ShouldIdleShutdown_WatchdogToo(k) ==
    k.active > IdleTimeout \/ k.watched > Watchdog

\* mutant: a node that never reports is never given up
ShouldIdleShutdown_NoWatchdog(k) == k.active > IdleTimeout

ShouldIdleShutdown(k) == IF k.active # Never THEN k.active > IdleTimeout
                                             ELSE k.watched > Watchdog

\* mutant: the checks are counted on, and only the first one fetches
NextCount_On(n) == n + 1

NextCount(n) == (n + 1) % StatsInterval

(* The rest of a check with the peer in the list: k is the controller with *)
(* whatever report it now holds.                                           *)
Judge(c, k) ==
    LET fires == ShouldIdleShutdown(k) /\ ~k.triggered
    IN  /\ ctl' = [ctl EXCEPT ![c] =
                     [k EXCEPT !.st = "running", !.checked = TRUE,
                               !.count = NextCount(k.count),
                               !.triggered = k.triggered \/ fires]]
        /\ idleCb' = IF fires THEN idleCb + 1 ELSE idleCb

CheckPeerPresent(c) ==
    /\ MustCheck(c) /\ node.st = "up"
    /\ \/ Fetches(c) /\ ~node.silent /\ NoFault /\ Judge(c, Report(c))
       \/ KeepsReport(c) /\ NoFault /\ Judge(c, ctl[c])
       \/ Fetches(c) /\ Fault /\ Judge(c, ctl[c])
    /\ UNCHANGED <<node, reg, goneCb, absences, restarts>>

Check(c) == CheckFails(c) \/ CheckPeerAbsent(c) \/ CheckPeerPresent(c)

(* Time passes once every monitor did its check of the period. *)
Older(a) == IF a = Never \/ a = Cap THEN a ELSE a + 1

Tick ==
    /\ \A c \in Controllers : Monitors(c) => ctl[c].checked
    /\ node' = IF node.st \in {"up", "away"} THEN [node EXCEPT !.idle = Older(@)]
                                             ELSE node
    /\ ctl' = [c \in Controllers |->
                 IF Monitors(c)
                 THEN [ctl[c] EXCEPT !.active = Older(@), !.heard = Older(@),
                                     !.watched = Older(@), !.checked = FALSE]
                 ELSE ctl[c]]
    /\ UNCHANGED <<reg, idleCb, goneCb, bounds>>

(* The process dies and starts again: nothing of it was persisted. *)
Restart ==
    /\ restarts < MaxRestarts /\ restarts' = restarts + 1
    /\ reg' = NoCtl
    /\ ctl' = [c \in Controllers |-> Unused]
    /\ idleCb' = 0 /\ goneCb' = 0
    /\ UNCHANGED <<node, faults, absences>>

Next == \/ Boot \/ Used \/ DropsOut \/ Returns \/ Destroyed
        \/ UserDelete \/ RunIdleCallback \/ RunGoneCallback
        \/ Tick \/ Restart
        \/ \E c \in Controllers : Create(c) \/ Discover(c) \/ Check(c)

Spec == Init /\ [][Next]_vars

(* Time passes, a node's monitors run, callbacks' goroutines are scheduled *)
(* and the discovery loop's ticker fires.                                  *)
Fairness == /\ WF_vars(Tick)
            /\ \A c \in Controllers : WF_vars(Check(c))
            /\ WF_vars(\E c \in Controllers : Discover(c))
            /\ WF_vars(RunIdleCallback)
            /\ WF_vars(RunGoneCallback)

FairSpec == Spec /\ Fairness

-----------------------------------------------------------------------------
TypeOK == /\ node \in NodeType
          /\ reg \in Controllers \cup {NoCtl}
          /\ ctl \in [Controllers -> CtlType]
          /\ idleCb \in Nat /\ goneCb \in Nat
          /\ faults \in 0..MaxFaults
          /\ absences \in 0..MaxAbsences
          /\ restarts \in 0..MaxRestarts

(* A registered controller that triggered the idle shutdown, which it does *)
(* only once (idleShutdownTriggered, controller.go:426-438), still has a   *)
(* goroutine on its way to take it out: otherwise nobody would ever delete *)
(* its instance for being idle, however often deletions fail.              *)
TriggeredIsLeaving ==
    reg # NoCtl => /\ ctl[reg].st # "unused"
                   /\ ctl[reg].triggered => idleCb > 0

(* What a held report is worth (controller.go:268-300): of the VM that is  *)
(* there now, it is its last activity or the VM was used since.            *)
ReportIsHonest ==
    \A c \in Controllers :
        /\ ctl[c].from <= node.vm
        /\ /\ ctl[c].active # Never
           /\ ctl[c].from = node.vm
           /\ node.st \in {"up", "away"}
           => node.idle = ctl[c].active \/ node.idle <= ctl[c].heard

Triggers(c) == ~ctl[c].triggered /\ ctl'[c].triggered

(* An idle shutdown is triggered only for a VM that has been idle for the  *)
(* timeout, was used after the last report, is not the one that reported,  *)
(* or has not reported since the watch began, the watchdog's time ago      *)
(* (shouldIdleShutdown, controller.go:302-320).                            *)
TriggerMeansIdle ==
    [][\A c \in Controllers :
          Triggers(c) => \/ node.idle > IdleTimeout
                         \/ /\ ctl'[c].active = Never
                            /\ ctl'[c].watched > Watchdog
                         \/ /\ ctl'[c].active > IdleTimeout
                            /\ \/ node.idle <= ctl'[c].heard
                               \/ ctl'[c].from # node.vm]_vars

FreshlyJudged(c) ==
    node.silent \/ (ctl'[c].from = node.vm /\ ctl'[c].heard < StatsInterval)

(* A discovered controller, which ends when its peer drops out, judges its *)
(* node by a report of that node less than one stats interval old, as long *)
(* as no call fails (fetchStats keeps an older report, and healthCheckCount*)
(* decides when it is called: controller.go:268-276, 420-424).             *)
JudgedByFreshReport ==
    [][\A c \in Controllers :
          reg = c /\ ctl[c].disc /\ goneCb = 0 /\ faults' = 0 /\ Triggers(c)
              => FreshlyJudged(c)]_vars

GivenUp == node.st # "up" \/ (~node.silent /\ node.idle <= IdleTimeout)

(* A node that is idle for longer than the timeout, or that never reports, *)
(* does not stay: it is deleted, loses its device or is used again, though *)
(* deletions fail, callbacks hit another entry and the process restarts    *)
(* (controller.go:302-320, 426-438, registry.go:352-363).                  *)
UnusedNodesGo == []<>GivenUp

=============================================================================
