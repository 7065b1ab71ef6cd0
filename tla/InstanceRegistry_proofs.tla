---------------------- MODULE InstanceRegistry_proofs ----------------------
(***************************************************************************)
(* Theorems about the registry for any set of keys, any services, any      *)
(* number of controllers, failing calls and crashes.                       *)
(*                                                                         *)
(* The inductive invariant IInv is the type invariant, RegisteredIsDriven  *)
(* and what these two need of the goroutines: a controller that does not   *)
(* exist yet has none (Fresh, NoVM), which of them a controller can have   *)
(* at once (Phases), and that the registered controller of a key is the    *)
(* one being provisioned (CreationRegistered) and the newest (Newest).     *)
(*                                                                         *)
(* What DeleteInstance achieves for an instance's token and VM is proved   *)
(* from IInv and from how one step changes each variable (Steps); a proof  *)
(* about it then goes through the few steps its goroutine has, and not     *)
(* through the actions of all the others.                                  *)
(***************************************************************************)
EXTENDS InstanceRegistry, TLAPS

(* Controllers that do not exist yet have no goroutine and no callback.    *)
Fresh == \A c \in Ctl :
    /\ c >= next => /\ ctl[c] = NewController(None)
                    /\ crt[c] = NotYet
                    /\ rem[c] = NotRemoved
                    /\ c \notin idleCb
                    /\ goneCb[c] = 0
    /\ c < next => ctl[c].key \in Keys

(* Nor has anyone created a VM for them.                                   *)
NoVM == \A c \in Ctl : c >= next => vm[c] = "none" /\ c \notin device

(* A controller being provisioned is launching and has no monitor yet; a   *)
(* failed one has none and never gets one.                                 *)
Phases == \A c \in Ctl :
    /\ Creating(c) => /\ ctl[c].state = "launching"
                      /\ ~ctl[c].started
                      /\ ctl[c].mon = "off"
    /\ ctl[c].state = "failed" => ctl[c].mon = "off"

(* A provisioning goroutine nobody removed the controller of works for the *)
(* controller that is registered.                                          *)
CreationRegistered == \A c \in Ctl :
    (Creating(c) /\ rem[c].pc = "none") => reg[ctl[c].key] = c

(* The registered controller is the last one created for its key.          *)
Newest == \A k \in Keys, d \in Ctl :
    (reg[k] # None /\ ctl[d].key = k) => d <= reg[k]

(* The conjuncts about controllers and their goroutines.                   *)
Core == Fresh /\ Phases /\ RegisteredIsDriven /\ CreationRegistered /\ Newest

IInv == TypeOK /\ Core /\ NoVM

-----------------------------------------------------------------------------
(* Type correctness *)

(* What the helpers of the removing and the provisioning goroutines        *)
(* assign.                                                                 *)
LEMMA RemGotoType ==
  ASSUME rem \in [Ctl -> Removal], NEW c \in Ctl, NEW pc, RemGoto(c, pc),
         pc \in {"none", "removed", "fence", "revoke", "control", "cloud",
                 "queued", "stop", "wait", "done"}
  PROVE  rem' \in [Ctl -> Removal]
BY DEF RemGoto, RemAt, Removal

LEMMA CrtGotoType ==
  ASSUME TypeOK, NEW c \in Ctl, NEW pc, CrtGoto(c, pc),
         pc \in {"none", "acquire", "revoke", "mint", "provision",
                 "launched", "failing", "done"}
  PROVE  crt' \in [Ctl -> Creation]
BY DEF TypeOK, CrtGoto, Creation

LEMMA FaultType == ASSUME TypeOK, Fault PROVE faults' \in 0 .. MaxFaults
BY BoundAssumption DEF TypeOK, Fault

LEMMA TakeOutType ==
  ASSUME reg \in [Keys -> Ctl \cup {None}], rem \in [Ctl -> Removal],
         ctl \in [Ctl -> Controller], NEW k \in Keys,
         NEW pc \in {"removed", "stop"}, NEW by \in {"delete", "cancel", "gone"},
         TakeOut(k, pc, by)
  PROVE  reg' \in [Keys -> Ctl \cup {None}] /\ rem' \in [Ctl -> Removal]
BY DEF TakeOut, TakenOut, Removal, Controller

(* The changes the actions make to a controller.                           *)
LEMMA ControllerUpdate ==
  ASSUME NEW r \in Controller, NEW s \in States, NEW m \in MonitorPCs
  PROVE  /\ [r EXCEPT !.mon = m] \in Controller
         /\ [r EXCEPT !.cancelled = TRUE] \in Controller
         /\ [r EXCEPT !.mon = m, !.state = s] \in Controller
         /\ [r EXCEPT !.mon = m, !.state = s, !.triggered = TRUE] \in Controller
         /\ [r EXCEPT !.started = TRUE, !.mon = m] \in Controller
         /\ [r EXCEPT !.cancelled = TRUE, !.mon = m] \in Controller
         /\ [r EXCEPT !.state = s, !.cancelled = TRUE] \in Controller
<1>1. [r EXCEPT !.mon = m] \in Controller BY DEF Controller
<1>2. [r EXCEPT !.cancelled = TRUE] \in Controller BY DEF Controller
<1>3. [r EXCEPT !.mon = m, !.state = s] \in Controller BY DEF Controller
<1>4. [r EXCEPT !.mon = m, !.state = s, !.triggered = TRUE] \in Controller
  BY DEF Controller
<1>5. [r EXCEPT !.started = TRUE, !.mon = m] \in Controller BY DEF Controller
<1>6. [r EXCEPT !.cancelled = TRUE, !.mon = m] \in Controller BY DEF Controller
<1>7. [r EXCEPT !.state = s, !.cancelled = TRUE] \in Controller BY DEF Controller
<1> QED BY <1>1, <1>2, <1>3, <1>4, <1>5, <1>6, <1>7

(* One step of a health check.                                             *)
LEMMA CheckUpdate ==
  ASSUME ctl \in [Ctl -> Controller], NEW c \in Ctl,
         ReadPeers(c) \/ PeerAbsent(c) \/ PeerPresent(c)
  PROVE  \E r \in Controller :
            /\ ctl' = [ctl EXCEPT ![c] = r]
            /\ r.key = ctl[c].key
            /\ r.state \in {ctl[c].state, "idle", "running"}
            /\ r.cancelled = ctl[c].cancelled
            /\ r.discovered = ctl[c].discovered
            /\ r.mon \in {"select", "absent", "present"}
<1> DEFINE Next1(r) == /\ r.key = ctl[c].key
                      /\ r.state \in {ctl[c].state, "idle", "running"}
                      /\ r.cancelled = ctl[c].cancelled
                      /\ r.discovered = ctl[c].discovered
                      /\ r.mon \in {"select", "absent", "present"}
<1>0. ctl[c] \in Controller OBVIOUS
<1>1. ASSUME NEW m \in {"absent", "present"}, ctl' = [ctl EXCEPT ![c].mon = m]
      PROVE  \E r \in Controller : ctl' = [ctl EXCEPT ![c] = r] /\ Next1(r)
  <2> DEFINE r == [ctl[c] EXCEPT !.mon = m]
  <2>1. m \in MonitorPCs BY DEF MonitorPCs
  <2>4. r \in Controller BY <1>0, <2>1 DEF Controller
  <2>2. Next1(r) BY <1>0 DEF Controller
  <2>3. ctl' = [ctl EXCEPT ![c] = r] BY <1>1
  <2> QED BY <2>4, <2>2, <2>3
<1>2. ASSUME NEW s \in {"idle", "running"},
             ctl' = [ctl EXCEPT ![c] = [@ EXCEPT !.mon = "select", !.state = s]]
      PROVE  \E r \in Controller : ctl' = [ctl EXCEPT ![c] = r] /\ Next1(r)
  <2> DEFINE r == [ctl[c] EXCEPT !.mon = "select", !.state = s]
  <2>1. r \in Controller BY <1>0, ControllerUpdate DEF MonitorPCs, States
  <2>2. Next1(r) BY <1>0 DEF Controller
  <2>3. ctl' = [ctl EXCEPT ![c] = r] BY <1>2
  <2> QED BY <2>1, <2>2, <2>3
<1>3. ASSUME ctl' = [ctl EXCEPT ![c] = [@ EXCEPT !.mon = "select", !.state = "running",
                                                 !.triggered = TRUE]]
      PROVE  \E r \in Controller : ctl' = [ctl EXCEPT ![c] = r] /\ Next1(r)
  <2> DEFINE r == [ctl[c] EXCEPT !.mon = "select", !.state = "running",
                                 !.triggered = TRUE]
  <2>1. r \in Controller BY <1>0, ControllerUpdate DEF MonitorPCs, States
  <2>2. Next1(r) BY <1>0 DEF Controller
  <2>3. ctl' = [ctl EXCEPT ![c] = r] BY <1>3
  <2> QED BY <2>1, <2>2, <2>3
<1>4. \/ \E m \in {"absent", "present"} : ctl' = [ctl EXCEPT ![c].mon = m]
      \/ \E s \in {"idle", "running"} :
            ctl' = [ctl EXCEPT ![c] = [@ EXCEPT !.mon = "select", !.state = s]]
      \/ ctl' = [ctl EXCEPT ![c] = [@ EXCEPT !.mon = "select", !.state = "running",
                                             !.triggered = TRUE]]
  BY DEF ReadPeers, PeerAbsent, PeerPresent
<1> QED BY <1>1, <1>2, <1>3, <1>4

(* Every action keeps the variables in their types.                        *)
LEMMA TypePreserved == TypeOK /\ Fresh /\ NoVM /\ [Next]_vars => TypeOK'
<1> SUFFICES ASSUME TypeOK, Fresh, NoVM, [Next]_vars PROVE TypeOK' OBVIOUS
<1> USE DEF ctlVars, cbVars, envVars
<1>0. ctl \in [Ctl -> Controller] BY DEF TypeOK
<1>1. ASSUME NEW k \in Keys, CreateInstance(k) PROVE TypeOK'
  <2>1. next \in Ctl /\ next' \in 1 .. MaxCtl + 1
    BY <1>1, BoundAssumption DEF TypeOK, CreateInstance, Ctl
  <2>2. reg' \in [Keys -> Ctl \cup {None}]
    BY <1>1, <2>1 DEF TypeOK, CreateInstance
  <2>3. [NewController(k) EXCEPT !.state = "launching"] \in Controller
    BY DEF NewController, Controller, States, MonitorPCs
  <2>4. ctl' \in [Ctl -> Controller]
    BY <1>1, <2>1, <2>3 DEF TypeOK, CreateInstance
  <2>5. crt \in [Ctl -> Creation]
    BY DEF TypeOK
  <2>6. crt' \in [Ctl -> Creation]
    BY <1>1, <2>1, <2>5 DEF CreateInstance, Creation
  <2> QED BY <1>1, <2>1, <2>2, <2>3, <2>4, <2>5, <2>6 DEF TypeOK, CreateInstance
<1>2. ASSUME NEW k \in Keys, CreateRejected(k) PROVE TypeOK'
  <2>1. reg' \in [Keys -> Ctl \cup {None}]
    BY <1>2 DEF TypeOK, CreateRejected
  <2> QED BY <1>2, <2>1 DEF TypeOK, CreateRejected
<1>3. ASSUME NEW k \in Keys, UserDelete(k) PROVE TypeOK'
  BY <1>3, TakeOutType DEF TypeOK, UserDelete, Unregister
<1>4. ASSUME NEW c \in Ctl, AcquireList(c) PROVE TypeOK'
  <2>1. VolumeTokens(ctl[c].key) \in SUBSET Ctl
    BY DEF TypeOK, VolumeTokens
  <2>2. crt' \in [Ctl -> Creation]
    BY <1>4, <2>1, CrtGotoType DEF TypeOK, AcquireList, Creation
  <2>3. faults' \in 0 .. MaxFaults
    BY <1>4, FaultType DEF TypeOK, AcquireList, NoFault
  <2> QED BY <1>4, <2>1, <2>2, <2>3 DEF TypeOK, AcquireList
<1>5. ASSUME NEW c \in Ctl, AcquireRevoke(c) PROVE TypeOK'
  <2>1. crt' \in [Ctl -> Creation]
    BY <1>5, CrtGotoType DEF AcquireRevoke
  <2>2. tokens' \in SUBSET Ctl
    BY <1>5 DEF TypeOK, AcquireRevoke
  <2>3. faults' \in 0 .. MaxFaults
    BY <1>5, FaultType DEF TypeOK, AcquireRevoke, NoFault
  <2> QED BY <1>5, <2>1, <2>2, <2>3 DEF TypeOK, AcquireRevoke
<1>6. ASSUME NEW c \in Ctl, AcquireMint(c) PROVE TypeOK'
  <2>1. crt' \in [Ctl -> Creation]
    BY <1>6, CrtGotoType DEF AcquireMint
  <2>2. tokens' \in SUBSET Ctl
    BY <1>6 DEF TypeOK, AcquireMint
  <2>3. faults' \in 0 .. MaxFaults
    BY <1>6, FaultType DEF TypeOK, AcquireMint, NoFault
  <2> QED BY <1>6, <2>1, <2>2, <2>3 DEF TypeOK, AcquireMint
<1>7. ASSUME NEW c \in Ctl, Provision(c) PROVE TypeOK'
  <2>1. crt' \in [Ctl -> Creation]
    BY <1>7, CrtGotoType DEF Provision
  <2>2. vm' \in [VMs -> {"none", "booting", "up", "gone"}]
    BY <1>7 DEF TypeOK, Provision, VMs
  <2>3. faults' \in 0 .. MaxFaults
    BY <1>7, FaultType DEF TypeOK, Provision, NoFault
  <2> QED BY <1>7, <2>1, <2>2, <2>3 DEF TypeOK, Provision
<1>8. ASSUME NEW c \in Ctl, CreateSucceeded(c) PROVE TypeOK'
  <2>1. crt' \in [Ctl -> Creation]
    BY <1>8, CrtGotoType DEF CreateSucceeded
  <2>2. ctl' \in [Ctl -> Controller]
    BY <1>8, <1>0, ControllerUpdate DEF CreateSucceeded, States, MonitorPCs
  <2> QED BY <1>8, <2>1, <2>2 DEF TypeOK, CreateSucceeded
<1>9. ASSUME NEW c \in Ctl, CreateFailed(c) PROVE TypeOK'
  <2>1. crt' \in [Ctl -> Creation]
    BY <1>9, CrtGotoType DEF CreateFailed
  <2>2. [ctl[c] EXCEPT !.state = "failed", !.cancelled = TRUE] \in Controller
    BY <1>9, <1>0 DEF Controller, States
  <2>3. ctl' \in [Ctl -> Controller]
    BY <1>9, <2>2 DEF TypeOK, CreateFailed, SetFailed
  <2> QED BY <1>9, <2>1, <2>2, <2>3 DEF TypeOK, CreateFailed
<1>10. ASSUME NEW c \in Ctl, DeleteCheck(c) PROVE TypeOK'
  <2>1. rem' \in [Ctl -> Removal]
    BY <1>10, RemGotoType DEF TypeOK, DeleteCheck
  <2> QED BY <1>10, <2>1 DEF TypeOK, DeleteCheck
<1>11. ASSUME NEW c \in Ctl, ReleaseList(c) PROVE TypeOK'
  <2>1. VolumeTokens(ctl[c].key) \in SUBSET Ctl
    BY DEF TypeOK, VolumeTokens
  <2>2. rem' \in [Ctl -> Removal]
    BY <1>11, <2>1, RemGotoType DEF TypeOK, ReleaseList, RemAt, Removal
  <2>3. faults' \in 0 .. MaxFaults
    BY <1>11, FaultType DEF TypeOK, ReleaseList, NoFault
  <2> QED BY <1>11, <2>1, <2>2, <2>3 DEF TypeOK, ReleaseList
<1>12. ASSUME NEW c \in Ctl, ReleaseRevoke(c) PROVE TypeOK'
  <2>1. rem' \in [Ctl -> Removal]
    BY <1>12, RemGotoType DEF TypeOK, ReleaseRevoke
  <2>2. tokens' \in SUBSET Ctl
    BY <1>12 DEF TypeOK, ReleaseRevoke
  <2>3. faults' \in 0 .. MaxFaults
    BY <1>12, FaultType DEF TypeOK, ReleaseRevoke, NoFault
  <2> QED BY <1>12, <2>1, <2>2, <2>3 DEF TypeOK, ReleaseRevoke
<1>13. ASSUME NEW c \in Ctl, DeleteDevice(c) PROVE TypeOK'
  <2>1. rem' \in [Ctl -> Removal]
    BY <1>13, RemGotoType DEF TypeOK, DeleteDevice
  <2>2. device' \in SUBSET VMs
    BY <1>13 DEF TypeOK, DeleteDevice
  <2>3. faults' \in 0 .. MaxFaults
    BY <1>13, FaultType DEF TypeOK, DeleteDevice, NoFault
  <2> QED BY <1>13, <2>1, <2>2, <2>3 DEF TypeOK, DeleteDevice
<1>14. ASSUME NEW c \in Ctl, DeleteVM(c) PROVE TypeOK'
  <2>1. rem' \in [Ctl -> Removal]
    BY <1>14, RemGotoType DEF TypeOK, DeleteVM
  <2>2. vm' \in [VMs -> {"none", "booting", "up", "gone"}]
    BY <1>14 DEF TypeOK, DeleteVM, Listed, InCloud
  <2>3. faults' \in 0 .. MaxFaults
    BY <1>14, FaultType DEF TypeOK, DeleteVM, NoFault
  <2> QED BY <1>14, <2>1, <2>2, <2>3 DEF TypeOK, DeleteVM
<1>15. ASSUME NEW c \in Ctl, StopCancel(c) PROVE TypeOK'
  <2>1. rem' \in [Ctl -> Removal]
    BY <1>15, RemGotoType DEF TypeOK, StopCancel
  <2>2. ctl' \in [Ctl -> Controller]
    BY <1>15, <1>0, ControllerUpdate DEF StopCancel, States, MonitorPCs
  <2> QED BY <1>15, <2>1, <2>2 DEF TypeOK, StopCancel
<1>16. ASSUME NEW c \in Ctl, StopReturns(c) PROVE TypeOK'
  <2>1. rem' \in [Ctl -> Removal]
    BY <1>16, RemGotoType DEF TypeOK, StopReturns
  <2> QED BY <1>16, <2>1 DEF TypeOK, StopReturns
<1>17. ASSUME NEW c \in Ctl, ReadPeers(c) PROVE TypeOK'
  <2>1. ctl' \in [Ctl -> Controller]
    BY <1>17, <1>0, CheckUpdate
  <2> QED BY <1>17, <2>1 DEF TypeOK, ReadPeers
<1>18. ASSUME NEW c \in Ctl, PeerAbsent(c) PROVE TypeOK'
  <2>1. ctl' \in [Ctl -> Controller]
    BY <1>18, <1>0, CheckUpdate
  <2>2. goneCb' \in [Ctl -> Nat]
    BY <1>18 DEF TypeOK, PeerAbsent
  <2> QED BY <1>18, <2>1, <2>2 DEF TypeOK, PeerAbsent
<1>19. ASSUME NEW c \in Ctl, PeerPresent(c) PROVE TypeOK'
  <2>1. ctl' \in [Ctl -> Controller]
    BY <1>19, <1>0, CheckUpdate
  <2>2. idleCb' \in SUBSET Ctl
    BY <1>19 DEF TypeOK, PeerPresent
  <2> QED BY <1>19, <2>1, <2>2 DEF TypeOK, PeerPresent
<1>20. ASSUME NEW c \in Ctl, MonitorExits(c) PROVE TypeOK'
  <2>1. ctl' \in [Ctl -> Controller]
    BY <1>20, <1>0, ControllerUpdate DEF MonitorExits, States, MonitorPCs
  <2> QED BY <1>20, <2>1 DEF TypeOK, MonitorExits
<1>21. ASSUME NEW c \in Ctl, RunIdleCallback(c) PROVE TypeOK'
  <2>1. idleCb' \in SUBSET Ctl
    BY <1>21 DEF TypeOK, RunIdleCallback
  <2>2. ctl[c].key \in Keys
    BY <1>21 DEF Fresh, RunIdleCallback, TypeOK, Ctl
  <2>3. reg' \in [Keys -> Ctl \cup {None}] /\ rem' \in [Ctl -> Removal]
    BY <1>21, <2>2, TakeOutType DEF RunIdleCallback, Unregister, TypeOK
  <2> QED BY <1>21, <2>1, <2>3 DEF TypeOK, RunIdleCallback
<1>22. ASSUME NEW c \in Ctl, RunGoneCallback(c) PROVE TypeOK'
  <2>1. goneCb' \in [Ctl -> Nat]
    BY <1>22 DEF TypeOK, RunGoneCallback, Pending
  <2>2. ctl[c].key \in Keys
    BY <1>22 DEF Fresh, RunGoneCallback, Pending, TypeOK, Ctl
  <2>3. reg' \in [Keys -> Ctl \cup {None}] /\ rem' \in [Ctl -> Removal]
    BY <1>22, <2>2, TakeOutType DEF RunGoneCallback, TypeOK
  <2> QED BY <1>22, <2>1, <2>3 DEF TypeOK, RunGoneCallback
<1>23. ASSUME DiscoverList PROVE TypeOK'
  <2>1. \A v \in device : KeyOf(v) \in Keys
    BY KeyAssumption DEF TypeOK, Fresh, NoVM, KeyOf, VMs, Ctl
  <2>2. {KeyOf(v) : v \in device} \in SUBSET Keys
    BY <2>1
  <2>3. disc' \in Round
    BY <1>23, <2>2 DEF TypeOK, DiscoverList, Round
  <2> QED BY <1>23, <2>1, <2>2, <2>3 DEF TypeOK, DiscoverList, Round
<1>24. ASSUME DiscoverSkipTracked PROVE TypeOK'
  BY <1>24 DEF TypeOK, DiscoverSkipTracked, Continue, Round
<1>25. ASSUME NEW k \in Keys, DiscoverIdentity(k) PROVE TypeOK'
  <2>1. disc \in Round
    BY DEF TypeOK
  <2>2. disc' \in Round
    <3>1. \/ disc' = [disc EXCEPT !.todo = @ \ {k}, !.found = k]
          \/ disc' = [disc EXCEPT !.pc = Continue(disc.todo \ {k}), !.todo = @ \ {k}]
      BY <1>25 DEF DiscoverIdentity
    <3>2. [disc EXCEPT !.todo = @ \ {k}, !.found = k] \in Round
      BY <2>1 DEF Round
    <3>3. [disc EXCEPT !.pc = Continue(disc.todo \ {k}), !.todo = @ \ {k}] \in Round
      BY <2>1 DEF Round, Continue
    <3> QED BY <3>1, <3>2, <3>3
  <2>3. faults' \in 0 .. MaxFaults
    BY <1>25, FaultType DEF TypeOK, DiscoverIdentity, NoFault
  <2> QED BY <1>25, <2>1, <2>2, <2>3 DEF TypeOK, DiscoverIdentity
<1>26. ASSUME DiscoverRegister PROVE TypeOK'
  <2>1. disc.found \in Keys /\ disc' \in Round
    BY <1>26 DEF TypeOK, DiscoverRegister, Continue, Round
  <2>2. Free(disc.found) => next \in Ctl
    BY BoundAssumption DEF TypeOK, Free, Ctl
  <2>3. next' \in 1 .. MaxCtl + 1
    BY <1>26, <2>2, BoundAssumption DEF TypeOK, DiscoverRegister, ctlVars, Ctl
  <2>4. reg' \in [Keys -> Ctl \cup {None}]
    BY <1>26, <2>1, <2>2 DEF TypeOK, DiscoverRegister
  <2>5. [NewController(disc.found) EXCEPT !.state = "running", !.started = TRUE,
         !.discovered = TRUE, !.mon = "select"] \in Controller
    BY <2>1 DEF NewController, Controller, States, MonitorPCs
  <2>6. ctl' \in [Ctl -> Controller]
    BY <1>26, <2>2, <2>5 DEF TypeOK, DiscoverRegister
  <2> QED BY <1>26, <2>1, <2>2, <2>3, <2>4, <2>5, <2>6 DEF TypeOK, DiscoverRegister
<1>27. ASSUME ShutdownBegin PROVE TypeOK'
  <2>1. reg' \in [Keys -> Ctl \cup {None}]
    BY <1>27 DEF TypeOK, ShutdownBegin
  <2>2. rem' \in [Ctl -> Removal]
    BY <1>27 DEF TypeOK, ShutdownBegin, TakenOut, Removal, Controller
  <2> QED BY <1>27, <2>1, <2>2 DEF TypeOK, ShutdownBegin
<1>28. ASSUME NEW c \in Ctl, ShutdownStop(c) PROVE TypeOK'
  <2>1. rem' \in [Ctl -> Removal]
    BY <1>28, RemGotoType DEF TypeOK, ShutdownStop
  <2> QED BY <1>28, <2>1 DEF TypeOK, ShutdownStop
<1>29. ASSUME ShutdownNext PROVE TypeOK'
  BY <1>29 DEF TypeOK, ShutdownNext
<1>30. ASSUME ShutdownReturns PROVE TypeOK'
  BY <1>30 DEF TypeOK, ShutdownReturns
<1>31. ASSUME Crash PROVE TypeOK'
  <2>1. reg' \in [Keys -> Ctl \cup {None}]
    BY <1>31 DEF TypeOK, Crash
  <2>2. ctl' \in [Ctl -> Controller]
    BY <1>31, <1>0, ControllerUpdate DEF Crash, States, MonitorPCs
  <2>3. crt' \in [Ctl -> Creation]
    BY <1>31 DEF TypeOK, Crash, Creation
  <2>4. rem' \in [Ctl -> Removal]
    BY <1>31 DEF TypeOK, Crash, Removal, NotRemoved
  <2>5. goneCb' \in [Ctl -> Nat]
    BY <1>31 DEF TypeOK, Crash
  <2>6. crashes \in Nat /\ MaxCrashes \in Nat
    BY BoundAssumption DEF TypeOK
  <2>7. crashes < MaxCrashes /\ crashes' = crashes + 1
    BY <1>31 DEF Crash
  <2>8. crashes' \in 0 .. MaxCrashes
    BY <2>6, <2>7
  <2>9. disc' \in Round BY <1>31 DEF Crash, Round
  <2> QED BY <1>31, <2>1, <2>2, <2>3, <2>4, <2>5, <2>8, <2>9 DEF TypeOK, Crash
<1>32. ASSUME NEW v \in VMs, Boot(v) PROVE TypeOK'
  <2>1. vm' \in [VMs -> {"none", "booting", "up", "gone"}]
    BY <1>32 DEF TypeOK, Boot
  <2> QED BY <1>32, <2>1 DEF TypeOK, Boot
<1>33. ASSUME NEW v \in VMs, OtherCreates(v) PROVE TypeOK'
  <2>1. vm' \in [VMs -> {"none", "booting", "up", "gone"}]
    BY <1>33 DEF TypeOK, OtherCreates
  <2> QED BY <1>33, <2>1 DEF TypeOK, OtherCreates
<1>34. ASSUME NEW v \in VMs, Lost(v) PROVE TypeOK'
  <2>1. vm' \in [VMs -> {"none", "booting", "up", "gone"}]
    BY <1>34 DEF TypeOK, Lost
  <2> QED BY <1>34, <2>1 DEF TypeOK, Lost
<1>35. ASSUME NEW v \in VMs, DeviceExpires(v) PROVE TypeOK'
  BY <1>35 DEF TypeOK, DeviceExpires
<1>36. CASE UNCHANGED vars BY <1>36 DEF TypeOK, vars
<1> QED
  BY <1>1, <1>2, <1>3, <1>4, <1>5, <1>6, <1>7, <1>8, <1>9, <1>10,
     <1>11, <1>12, <1>13, <1>14, <1>15, <1>16, <1>17, <1>18, <1>19, <1>20,
     <1>21, <1>22, <1>23, <1>24, <1>25, <1>26, <1>27, <1>28, <1>29, <1>30,
     <1>31, <1>32, <1>33, <1>34, <1>35, <1>36
     DEF Next, CreateGoroutine, RemoveGoroutine, Monitor, Discovery,
         Shutdown, Environment

-----------------------------------------------------------------------------
(* The goroutines of a controller *)

(* A registered controller exists and is registered under its own key.     *)
LEMMA RegisteredAllocated ==
  ASSUME TypeOK, Core, NEW c \in Registered
  PROVE  c < next /\ ctl[c].key \in Keys /\ reg[ctl[c].key] = c
<1>1. PICK k \in Keys : reg[k] = c
  BY DEF Registered
<1>2. c \in Ctl /\ ctl[c].key = k
  BY <1>1, IdAssumption DEF Registered, Core, RegisteredIsDriven, Ctl
<1>3. CASE c >= next
  BY <1>2, <1>3, KeyAssumption DEF Core, Fresh, NewController
<1> QED BY <1>1, <1>2, <1>3 DEF TypeOK, Ctl

(* Two provisionings of one key: if the older one were not removed it      *)
(* would be registered, and then the newest.                               *)
LEMMA OneCreation == TypeOK /\ Core => OneCreationPerKey
<1> SUFFICES ASSUME TypeOK, Core, NEW c \in Ctl, NEW d \in Ctl, c < d,
                    Creating(c), Creating(d), ctl[c].key = ctl[d].key,
                    rem[c].pc = "none"
             PROVE  FALSE
  BY DEF OneCreationPerKey
<1>1. reg[ctl[c].key] = c
  BY DEF Core, CreationRegistered
<1>2. ctl[c].key \in Keys
  BY DEF Core, Fresh, Creating, NotYet, TypeOK, Ctl
<1>3. d <= c
  BY <1>1, <1>2, IdAssumption DEF Core, Newest, Ctl
<1> QED BY <1>3 DEF Ctl

(* Steps of the services, of discovery and of Shutdown that touch neither  *)
(* the registry nor a goroutine of a controller.                           *)
LEMMA Frame ==
  ASSUME Core, UNCHANGED <<ctlVars, crt, rem, cbVars>>
  PROVE  Core'
<1> USE DEF ctlVars, cbVars
<1>1. Fresh' BY DEF Core, Fresh
<1>2. Phases' BY DEF Core, Phases, Creating
<1>3. RegisteredIsDriven' BY DEF Core, RegisteredIsDriven, Creating, Monitored
<1>4. CreationRegistered' BY DEF Core, CreationRegistered, Creating
<1>5. Newest' BY DEF Core, Newest
<1> QED BY <1>1, <1>2, <1>3, <1>4, <1>5 DEF Core

(* A provisioning goroutine moves on without finishing.                    *)
LEMMA CreationStep ==
  ASSUME TypeOK, Core, NEW c \in Ctl, Creating(c), NEW r,
         crt' = [crt EXCEPT ![c] = r], r.pc \notin {"none", "done"},
         UNCHANGED <<ctlVars, rem, cbVars>>
  PROVE  Core'
<1> USE DEF ctlVars, cbVars
<1>1. \A d \in Ctl : Creating(d)' <=> Creating(d)
  BY DEF TypeOK, Creating
<1>2. Fresh'
  <2>1. c < next
    BY DEF Core, Fresh, TypeOK, Creating, NotYet, Ctl
  <2> QED BY <2>1 DEF Core, Fresh, TypeOK, Ctl
<1>3. Phases' BY <1>1 DEF Core, Phases
<1>4. RegisteredIsDriven'
  BY <1>1 DEF Core, RegisteredIsDriven, TypeOK, Monitored
<1>5. CreationRegistered' BY <1>1 DEF Core, CreationRegistered
<1>6. Newest' BY DEF Core, Newest
<1> QED BY <1>2, <1>3, <1>4, <1>5, <1>6 DEF Core

(* A goroutine that removes a controller moves on.                         *)
LEMMA RemovalStep ==
  ASSUME TypeOK, Core, NEW c \in Ctl, rem[c].pc # "none", NEW r,
         rem' = [rem EXCEPT ![c] = r], r.pc # "none",
         UNCHANGED <<ctlVars, crt, cbVars>>
  PROVE  Core'
<1> USE DEF ctlVars, cbVars
<1>1. \A d \in Ctl : (rem'[d].pc = "none") <=> (rem[d].pc = "none")
  BY DEF TypeOK
<1>2. Fresh'
  <2>1. c < next
    BY DEF Core, Fresh, TypeOK, NotRemoved, Ctl
  <2> QED BY <2>1 DEF Core, Fresh, TypeOK, Ctl
<1>3. Phases' BY DEF Core, Phases, Creating
<1>4. RegisteredIsDriven'
  BY <1>1 DEF Core, RegisteredIsDriven, TypeOK, Monitored, Creating
<1>5. CreationRegistered' BY <1>1 DEF Core, CreationRegistered, Creating
<1>6. Newest' BY DEF Core, Newest
<1> QED BY <1>2, <1>3, <1>4, <1>5, <1>6 DEF Core

(* An entry is taken out of the registry, by DeleteInstance or by the      *)
(* peer-gone callback.                                                     *)
LEMMA TakeOutStep ==
  ASSUME TypeOK, Core, NEW k \in Keys, NEW pc, NEW by, pc # "none",
         TakeOut(k, pc, by), UNCHANGED <<ctl, next, crt>>,
         idleCb' \subseteq idleCb, \A d \in Ctl : goneCb[d] = 0 => goneCb'[d] = 0
  PROVE  Core'
<1>1. /\ reg[k] \in Ctl
      /\ ctl[reg[k]].key = k
      /\ reg' = [reg EXCEPT ![k] = None]
      /\ rem' = [rem EXCEPT ![reg[k]] = TakenOut(pc, by)]
      /\ TakenOut(pc, by).pc # "none"
  BY DEF TakeOut, TakenOut, Core, RegisteredIsDriven, TypeOK
<1>2. reg[k] < next
  BY <1>1, KeyAssumption DEF Core, Fresh, TypeOK, NewController, Ctl
<1>3. Fresh'
  BY <1>1, <1>2 DEF Core, Fresh, TypeOK, Ctl
<1>4. Phases' BY DEF Core, Phases, Creating
<1>5. RegisteredIsDriven'
  BY <1>1 DEF Core, RegisteredIsDriven, TypeOK, Monitored, Creating
<1>6. CreationRegistered'
  BY <1>1 DEF Core, CreationRegistered, Creating, TypeOK
<1>7. Newest' BY <1>1 DEF Core, Newest, TypeOK
<1> QED BY <1>3, <1>4, <1>5, <1>6, <1>7 DEF Core

(* The health monitor of a controller finishes or begins a check.          *)
LEMMA MonitorStep ==
  ASSUME TypeOK, Core, NEW c \in Ctl, Monitored(c), NEW r \in Controller,
         ctl' = [ctl EXCEPT ![c] = r], r.key = ctl[c].key,
         r.state # "failed", r.cancelled = ctl[c].cancelled,
         r.mon \in {"select", "absent", "present"},
         UNCHANGED <<reg, next, crt, rem>>,
         idleCb' \subseteq idleCb \cup {c},
         \A d \in Ctl \ {c} : goneCb'[d] = goneCb[d]
  PROVE  Core'
<1>1. c < next
  BY DEF Core, Fresh, Monitored, NewController, TypeOK, Ctl
<1>2. ~Creating(c)
  BY DEF Core, Phases, Monitored
<1>3. Fresh'
  BY <1>1 DEF Core, Fresh, TypeOK, Ctl
<1>4. Phases'
  BY <1>2 DEF Core, Phases, Creating, TypeOK
<1>5. RegisteredIsDriven'
  <2> SUFFICES ASSUME NEW k \in Keys, reg[k] # None
               PROVE  /\ ctl'[reg[k]].key = k
                      /\ rem[reg[k]].pc = "none"
                      /\ \/ Creating(reg[k]) /\ ~ctl'[reg[k]].started /\ ~ctl'[reg[k]].cancelled
                         \/ ctl'[reg[k]].mon \in {"select", "absent", "present"} /\ ~ctl'[reg[k]].cancelled
                         \/ ctl'[reg[k]].state = "failed"
    BY DEF RegisteredIsDriven, Monitored, Creating
  <2>1. reg[k] \in Ctl BY DEF TypeOK
  <2>2. CASE reg[k] = c
    BY <1>2, <2>2 DEF Core, RegisteredIsDriven, Phases, Monitored, TypeOK
  <2>3. CASE reg[k] # c
    BY <2>1, <2>3 DEF Core, RegisteredIsDriven, Monitored, TypeOK
  <2> QED BY <2>2, <2>3
<1>6. CreationRegistered'
  BY <1>2 DEF Core, CreationRegistered, Creating, TypeOK
<1>7. Newest' BY DEF Core, Newest, TypeOK
<1> QED BY <1>3, <1>4, <1>5, <1>6, <1>7 DEF Core

(* Every action preserves the conjuncts about controllers.                 *)
LEMMA CorePreserved == TypeOK /\ Core /\ [Next]_vars => Core'
<1> SUFFICES ASSUME TypeOK, Core, [Next]_vars PROVE Core' OBVIOUS
<1> USE DEF ctlVars, cbVars
<1>0. /\ reg \in [Keys -> Ctl \cup {None}]
      /\ ctl \in [Ctl -> Controller]
      /\ next \in 1 .. MaxCtl + 1
      /\ crt \in [Ctl -> Creation]
      /\ rem \in [Ctl -> Removal]
  BY DEF TypeOK
<1>1. ASSUME NEW k \in Keys, CreateInstance(k) PROVE Core'
  <2>1. next \in Ctl /\ next \notin Registered
    BY <1>1, <1>0, RegisteredAllocated, BoundAssumption DEF CreateInstance, Ctl
  <2>2. Fresh'
    <3>1. /\ ctl' = [ctl EXCEPT ![next] = [NewController(k) EXCEPT !.state = "launching"]]
          /\ next' = next + 1
          /\ UNCHANGED <<rem, cbVars>>
          /\ \A d \in Ctl \ {next} : crt'[d] = crt[d]
      BY <1>0, <1>1 DEF CreateInstance
    <3>2. \A d \in Ctl : d < next + 1 => d < next \/ d = next
      BY <1>0 DEF Ctl
    <3>3. [NewController(k) EXCEPT !.state = "launching"].key = k
      BY DEF NewController
    <3> QED BY <1>0, <2>1, <3>1, <3>2, <3>3 DEF Core, Fresh, Ctl
  <2>3. Phases'
    BY <1>0, <1>1, <2>1 DEF Core, Fresh, Phases, Creating, CreateInstance, NewController, Controller
  <2>4. RegisteredIsDriven'
    BY <1>0, <1>1, <2>1 DEF Core, Fresh, RegisteredIsDriven, Creating, Monitored, Registered, CreateInstance, NewController, NotRemoved, NotYet
  <2>5. CreationRegistered'
    <3>1. /\ reg' = [reg EXCEPT ![k] = next]
          /\ ctl'[next].key = k
          /\ \A d \in Ctl \ {next} : ctl'[d] = ctl[d] /\ crt'[d] = crt[d]
          /\ rem' = rem
      BY <1>0, <1>1, <2>1 DEF CreateInstance, NewController
    <3> SUFFICES ASSUME NEW d \in Ctl \ {next}, Creating(d), rem[d].pc = "none",
                        reg[ctl[d].key] = d, ctl[d].key = k
                 PROVE  FALSE
      BY <1>0, <2>1, <3>1 DEF Core, CreationRegistered, Creating
    <3> QED BY <1>1, IdAssumption
            DEF CreateInstance, Replaceable, Core, Phases, Ctl
  <2>6. Newest'
    BY <1>0, <1>1, <2>1, KeyAssumption DEF Core, Fresh, Newest, CreateInstance, NewController, Ctl
  <2> QED BY <2>2, <2>3, <2>4, <2>5, <2>6 DEF Core
<1>2. ASSUME NEW k \in Keys, CreateRejected(k) PROVE Core'
  <2>1. Fresh' BY <1>2 DEF Core, Fresh, CreateRejected
  <2>2. Phases' BY <1>2 DEF Core, Phases, Creating, CreateRejected
  <2>3. RegisteredIsDriven'
    BY <1>0, <1>2 DEF Core, RegisteredIsDriven, Creating, Monitored, CreateRejected
  <2>4. CreationRegistered'
    BY <1>0, <1>2 DEF Core, CreationRegistered, Phases, Creating, CreateRejected
  <2>5. Newest' BY <1>0, <1>2 DEF Core, Newest, CreateRejected
  <2> QED BY <2>1, <2>2, <2>3, <2>4, <2>5 DEF Core
<1>3. ASSUME NEW k \in Keys, UserDelete(k) PROVE Core'
  BY <1>3, TakeOutStep DEF UserDelete, Unregister
<1>4. ASSUME NEW c \in Ctl, AcquireList(c) \/ AcquireRevoke(c) \/ AcquireMint(c) \/ Provision(c)
      PROVE  Core'
  <2>1. Creating(c)
    BY <1>4 DEF AcquireList, AcquireRevoke, AcquireMint, Provision, Creating
  <2>2. PICK r : /\ crt' = [crt EXCEPT ![c] = r]
                 /\ r.pc \notin {"none", "done"}
    BY <1>4 DEF AcquireList, AcquireRevoke, AcquireMint, Provision, CrtGoto
  <2>3. UNCHANGED <<ctlVars, rem, cbVars>>
    BY <1>4 DEF AcquireList, AcquireRevoke, AcquireMint, Provision
  <2> QED BY <2>1, <2>2, <2>3, CreationStep
<1>5. ASSUME NEW c \in Ctl, CreateSucceeded(c) PROVE Core'
  <2>1. Creating(c) /\ ~Creating(c)' /\ c < next
    BY <1>0, <1>5 DEF CreateSucceeded, Creating, CrtGoto, Core, Fresh, NotYet, Ctl
  <2>2. Fresh'
    BY <1>0, <1>5, <2>1 DEF Core, Fresh, CreateSucceeded, CrtGoto, Ctl
  <2>3. Phases'
    BY <1>0, <1>5, <2>1 DEF Core, Phases, Creating, CreateSucceeded, CrtGoto, Controller
  <2>4. RegisteredIsDriven'
    BY <1>0, <1>5, <2>1 DEF Core, RegisteredIsDriven, Phases, Creating, Monitored, CreateSucceeded, CrtGoto, Controller
  <2>5. CreationRegistered'
    BY <1>0, <1>5, <2>1 DEF Core, CreationRegistered, Creating, CreateSucceeded, CrtGoto, Controller
  <2>6. Newest' BY <1>0, <1>5 DEF Core, Newest, CreateSucceeded, Controller
  <2> QED BY <2>2, <2>3, <2>4, <2>5, <2>6 DEF Core
<1>6. ASSUME NEW c \in Ctl, CreateFailed(c) PROVE Core'
  <2>1. Creating(c) /\ ~Creating(c)' /\ c < next
    BY <1>0, <1>6 DEF CreateFailed, Creating, CrtGoto, Core, Fresh, NotYet, Ctl
  <2>2. Fresh'
    BY <1>0, <1>6, <2>1 DEF Core, Fresh, CreateFailed, SetFailed, CrtGoto, Ctl, Controller
  <2>3. Phases'
    BY <1>0, <1>6, <2>1 DEF Core, Phases, Creating, CreateFailed, SetFailed, CrtGoto, Controller
  <2>4. RegisteredIsDriven'
    BY <1>0, <1>6, <2>1 DEF Core, RegisteredIsDriven, Phases, Creating, Monitored, CreateFailed, SetFailed, CrtGoto, Controller
  <2>5. CreationRegistered'
    BY <1>0, <1>6, <2>1 DEF Core, CreationRegistered, Creating, CreateFailed, SetFailed, CrtGoto, Controller
  <2>6. Newest' BY <1>0, <1>6 DEF Core, Newest, CreateFailed, SetFailed, Controller
  <2> QED BY <2>2, <2>3, <2>4, <2>5, <2>6 DEF Core
<1>7. ASSUME NEW c \in Ctl, \/ DeleteCheck(c) \/ ReleaseList(c) \/ ReleaseRevoke(c)
                            \/ DeleteDevice(c) \/ DeleteVM(c) \/ StopReturns(c)
                            \/ ShutdownStop(c)
      PROVE  Core'
  <2>1. rem[c].pc # "none"
    BY <1>7 DEF DeleteCheck, ReleaseList, ReleaseRevoke, DeleteDevice, DeleteVM,
                StopReturns, ShutdownStop, Queued
  <2>2. PICK r : rem' = [rem EXCEPT ![c] = r] /\ r.pc # "none"
    BY <1>7 DEF DeleteCheck, ReleaseList, ReleaseRevoke, DeleteDevice, DeleteVM,
                StopReturns, ShutdownStop, RemGoto, RemAt
  <2>3. UNCHANGED <<ctlVars, crt, cbVars>>
    BY <1>7 DEF DeleteCheck, ReleaseList, ReleaseRevoke, DeleteDevice, DeleteVM,
                StopReturns, ShutdownStop
  <2> QED BY <2>1, <2>2, <2>3, RemovalStep
<1>8. ASSUME NEW c \in Ctl, StopCancel(c) PROVE Core'
  <2>1. c \notin Registered /\ c < next
    <3>1. rem[c].pc = "stop" BY <1>8 DEF StopCancel
    <3>2. c < next
      BY <1>0, <3>1 DEF Core, Fresh, NotRemoved, Ctl
    <3>3. c \notin Registered
      BY <3>1, IdAssumption DEF Core, RegisteredIsDriven, Registered, Ctl
    <3> QED BY <3>2, <3>3
  <2>2. ctl' = [ctl EXCEPT ![c].cancelled = TRUE] /\ UNCHANGED <<reg, next, crt, cbVars>>
    BY <1>8 DEF StopCancel
  <2>3. PICK r : rem' = [rem EXCEPT ![c] = r] /\ r.pc # "none"
    <3>1. PICK pc \in {"wait", "done"} : RemGoto(c, pc)
      BY <1>8 DEF StopCancel
    <3> DEFINE r == RemAt(c, pc, {})
    <3>2. r.pc # "none" BY DEF RemAt
    <3>3. rem' = [rem EXCEPT ![c] = r] BY <3>1 DEF RemGoto
    <3> QED BY <3>2, <3>3
  <2>4. Fresh'
    BY <1>0, <2>1, <2>2, <2>3 DEF Core, Fresh, Ctl
  <2>5. Phases'
    BY <1>0, <2>2 DEF Core, Phases, Creating, Controller
  <2>6. RegisteredIsDriven'
    BY <1>0, <2>1, <2>2, <2>3 DEF Core, RegisteredIsDriven, Registered, Creating, Monitored
  <2>7. CreationRegistered'
    BY <1>0, <1>8, <2>2, <2>3 DEF Core, CreationRegistered, Creating, StopCancel, Controller
  <2>8. Newest' BY <1>0, <2>2 DEF Core, Newest, Controller
  <2> QED BY <2>4, <2>5, <2>6, <2>7, <2>8 DEF Core
<1>9. ASSUME NEW c \in Ctl, ReadPeers(c) \/ PeerAbsent(c) \/ PeerPresent(c) PROVE Core'
  <2>1. Monitored(c)
    BY <1>9 DEF ReadPeers, PeerAbsent, PeerPresent, Monitored
  <2>2. ctl[c].state # "failed"
    BY <2>1 DEF Core, Phases, Monitored
  <2>3. PICK r \in Controller :
              /\ ctl' = [ctl EXCEPT ![c] = r]
              /\ r.key = ctl[c].key
              /\ r.state # "failed"
              /\ r.cancelled = ctl[c].cancelled
              /\ r.mon \in {"select", "absent", "present"}
    BY <1>0, <1>9, <2>2, CheckUpdate
  <2>4. /\ UNCHANGED <<reg, next, crt, rem>>
        /\ idleCb' \subseteq idleCb \cup {c}
        /\ \A d \in Ctl \ {c} : goneCb'[d] = goneCb[d]
    BY <1>9 DEF ReadPeers, PeerAbsent, PeerPresent, TypeOK
  <2> QED BY <2>1, <2>3, <2>4, MonitorStep
<1>10. ASSUME NEW c \in Ctl, MonitorExits(c) PROVE Core'
  <2>1. /\ c \notin Registered
        /\ c < next
        /\ ~Creating(c)
    <3>1. ctl[c].mon = "select" /\ ctl[c].cancelled
      BY <1>10 DEF MonitorExits
    <3>2. ~Creating(c) /\ ctl[c].state # "failed"
      BY <3>1 DEF Core, Phases
    <3>3. c \notin Registered
      BY <3>1, <3>2, IdAssumption DEF Core, RegisteredIsDriven, Registered, Ctl
    <3>4. c < next
      BY <1>0, <3>1 DEF Core, Fresh, NewController, Ctl
    <3> QED BY <3>2, <3>3, <3>4
  <2>2. ctl' = [ctl EXCEPT ![c].mon = "exited"] /\ UNCHANGED <<reg, next, crt, rem, cbVars>>
    BY <1>10 DEF MonitorExits
  <2>3. ctl[c].state # "failed"
    BY <1>10 DEF MonitorExits, Core, Phases
  <2>4. Fresh' BY <1>0, <2>1, <2>2 DEF Core, Fresh, Ctl, Controller
  <2>5. Phases' BY <1>0, <2>1, <2>2, <2>3 DEF Core, Phases, Creating, Controller
  <2>6. RegisteredIsDriven'
    BY <1>0, <2>1, <2>2 DEF Core, RegisteredIsDriven, Registered, Creating, Monitored
  <2>7. CreationRegistered'
    BY <1>0, <2>2 DEF Core, CreationRegistered, Creating, Controller
  <2>8. Newest' BY <1>0, <2>2 DEF Core, Newest, Controller
  <2> QED BY <2>4, <2>5, <2>6, <2>7, <2>8 DEF Core
<1>11. ASSUME NEW c \in Ctl, RunIdleCallback(c) PROVE Core'
  <2>1. ctl[c].key \in Keys
    BY <1>0, <1>11 DEF RunIdleCallback, Core, Fresh, Ctl
  <2>2. CASE Unregister(ctl[c].key)
    BY <1>11, <2>1, <2>2, TakeOutStep DEF RunIdleCallback, Unregister
  <2>3. CASE UNCHANGED <<reg, rem>>
    <3>1. Fresh' BY <1>11, <2>3 DEF RunIdleCallback, Core, Fresh
    <3>2. Phases' BY <1>11, <2>3 DEF RunIdleCallback, Core, Phases, Creating
    <3>3. RegisteredIsDriven'
      BY <1>11, <2>3 DEF RunIdleCallback, Core, RegisteredIsDriven, Creating, Monitored
    <3>4. CreationRegistered'
      BY <1>11, <2>3 DEF RunIdleCallback, Core, CreationRegistered, Creating
    <3>5. Newest' BY <1>11, <2>3 DEF RunIdleCallback, Core, Newest
    <3> QED BY <3>1, <3>2, <3>3, <3>4, <3>5 DEF Core
  <2> QED BY <1>11, <2>2, <2>3 DEF RunIdleCallback
<1>12. ASSUME NEW c \in Ctl, RunGoneCallback(c) PROVE Core'
  <2>1. ctl[c].key \in Keys
    BY <1>0, <1>12 DEF RunGoneCallback, Pending, Core, Fresh, Ctl
  <2>2. \A d \in Ctl : goneCb[d] = 0 => goneCb'[d] = 0
    BY <1>12 DEF RunGoneCallback, Pending, TypeOK
  <2>3. CASE TakeOut(ctl[c].key, "stop", "gone")
    BY <1>12, <2>1, <2>2, <2>3, TakeOutStep DEF RunGoneCallback
  <2>4. CASE UNCHANGED <<reg, rem>>
    <3>1. Fresh' BY <1>12, <2>2, <2>4 DEF RunGoneCallback, Core, Fresh
    <3>2. Phases' BY <1>12, <2>4 DEF RunGoneCallback, Core, Phases, Creating
    <3>3. RegisteredIsDriven'
      BY <1>12, <2>4 DEF RunGoneCallback, Core, RegisteredIsDriven, Creating, Monitored
    <3>4. CreationRegistered'
      BY <1>12, <2>4 DEF RunGoneCallback, Core, CreationRegistered, Creating
    <3>5. Newest' BY <1>12, <2>4 DEF RunGoneCallback, Core, Newest
    <3> QED BY <3>1, <3>2, <3>3, <3>4, <3>5 DEF Core
  <2> QED BY <1>12, <2>3, <2>4 DEF RunGoneCallback
<1>13. CASE DiscoverRegister
  <2>1. disc.found \in Keys
    BY <1>13 DEF DiscoverRegister, TypeOK, Round
  <2>2. CASE UNCHANGED ctlVars
    BY <1>13, <2>2, Frame DEF DiscoverRegister
  <2> DEFINE k == disc.found
             r == [NewController(k) EXCEPT !.state = "running", !.started = TRUE,
                                           !.discovered = TRUE, !.mon = "select"]
  <2>3. CASE /\ Free(k)
             /\ ctl' = [ctl EXCEPT ![next] = r]
             /\ reg' = [reg EXCEPT ![k] = next]
             /\ next' = next + 1
    <3>1. next \in Ctl /\ next \notin Registered /\ reg[k] = None
      BY <1>0, <2>3, RegisteredAllocated, BoundAssumption DEF Free, Ctl
    <3>2. /\ r.key = k /\ r.state = "running" /\ r.mon = "select"
          /\ r.started = TRUE /\ r.cancelled = FALSE
      BY DEF NewController
    <3> HIDE DEF r
    <3>3. UNCHANGED <<crt, rem, cbVars>>
      BY <1>13 DEF DiscoverRegister
    <3>4. Fresh'
      BY <1>0, <2>1, <2>3, <3>1, <3>2, <3>3 DEF Core, Fresh, Ctl
    <3>5. Phases'
      BY <1>0, <2>3, <3>1, <3>2, <3>3 DEF Core, Fresh, NotYet, Phases, Creating
    <3>6. RegisteredIsDriven'
      BY <1>0, <2>1, <2>3, <3>1, <3>2, <3>3
         DEF Core, Fresh, NotRemoved, RegisteredIsDriven, Registered, Creating, Monitored
    <3>7. CreationRegistered'
      BY <1>0, <2>1, <2>3, <3>1, <3>2, <3>3, IdAssumption
         DEF Core, Fresh, NotYet, CreationRegistered, Creating, Ctl
    <3>8. Newest'
      BY <1>0, <2>1, <2>3, <3>1, <3>2, KeyAssumption
         DEF Core, Fresh, NewController, Newest, Ctl
    <3> QED BY <3>4, <3>5, <3>6, <3>7, <3>8 DEF Core
  <2> QED BY <1>13, <2>2, <2>3 DEF DiscoverRegister
<1>14. CASE ShutdownBegin
  <2>1. /\ reg' = [k \in Keys |-> None]
        /\ UNCHANGED <<ctl, next, crt, cbVars>>
        /\ \A c \in Ctl : IF c \in Registered THEN rem'[c].pc = "queued"
                                              ELSE rem'[c] = rem[c]
    BY <1>14 DEF ShutdownBegin, TakenOut
  <2>2. \A c \in Registered : c < next
    BY RegisteredAllocated
  <2>3. Fresh'
    <3>1. \A c \in Ctl : c >= next => c \notin Registered
      BY <1>0, <2>2 DEF Ctl
    <3>2. UNCHANGED <<ctl, next, crt, cbVars>>
      BY <2>1
    <3> QED BY <2>1, <3>1, <3>2 DEF Core, Fresh
  <2>4. Phases' BY <2>1 DEF Core, Phases, Creating
  <2>5. RegisteredIsDriven' BY <2>1 DEF RegisteredIsDriven
  <2>6. CreationRegistered'
    <3> SUFFICES ASSUME NEW c \in Ctl, Creating(c), rem'[c].pc = "none" PROVE FALSE
      BY <2>1 DEF CreationRegistered, Creating
    <3>1. c \notin Registered /\ rem[c].pc = "none" BY <2>1
    <3>2. ctl[c].key \in Keys
      BY <1>0 DEF Core, Fresh, Creating, NotYet, Ctl
    <3> QED BY <3>1, <3>2 DEF Core, CreationRegistered, Registered
  <2>7. Newest' BY <2>1 DEF Newest
  <2> QED BY <2>3, <2>4, <2>5, <2>6, <2>7 DEF Core
<1>15. CASE Crash
  <2>1. /\ reg' = [k \in Keys |-> None]
        /\ \A c \in Ctl : rem'[c] = NotRemoved /\ goneCb'[c] = 0
        /\ idleCb' = {}
        /\ next' = next
    BY <1>15 DEF Crash
  <2>2. \A c \in Ctl : /\ ~Creating(c)'
                       /\ crt[c].pc = "none" => crt'[c] = crt[c]
    BY <1>15 DEF Crash, Creating
  <2>3. ASSUME NEW c \in Ctl
        PROVE  /\ ctl'[c].key = ctl[c].key
               /\ ctl'[c].state = ctl[c].state
               /\ ctl[c].mon = "off" => ctl'[c].mon = "off"
               /\ ctl[c].key = None => ctl'[c] = ctl[c]
    <3>1. ctl[c] \in Controller BY <1>0
    <3>2. \/ ctl'[c] = ctl[c]
          \/ /\ ctl[c].key # None
             /\ ctl'[c] = [ctl[c] EXCEPT !.cancelled = TRUE,
                            !.mon = IF @ = "off" THEN @ ELSE "exited"]
      BY <1>15 DEF Crash
    <3> QED BY <3>1, <3>2 DEF Controller
  <2>4. Fresh'
    <3>1. NotYet.pc = "none" /\ NewController(None).key = None
      BY DEF NotYet, NewController
    <3> QED BY <2>1, <2>2, <2>3, <3>1 DEF Core, Fresh
  <2>5. Phases' BY <2>2, <2>3 DEF Core, Phases
  <2>6. RegisteredIsDriven' BY <2>1 DEF RegisteredIsDriven
  <2>7. CreationRegistered' BY <2>2 DEF CreationRegistered
  <2>8. Newest' BY <2>1 DEF Newest
  <2> QED BY <2>4, <2>5, <2>6, <2>7, <2>8 DEF Core
<1>16. CASE DiscoverList \/ DiscoverSkipTracked \/ \E k \in Keys : DiscoverIdentity(k)
  BY <1>16, Frame DEF DiscoverList, DiscoverSkipTracked, DiscoverIdentity
<1>17. CASE ShutdownNext \/ ShutdownReturns
  BY <1>17, Frame DEF ShutdownNext, ShutdownReturns
<1>18. CASE Environment
  BY <1>18, Frame DEF Environment, Boot, OtherCreates, Lost, DeviceExpires
<1>19. CASE UNCHANGED vars
  BY <1>19, Frame DEF vars
<1> QED
  BY <1>1, <1>2, <1>3, <1>4, <1>5, <1>6, <1>7, <1>8, <1>9, <1>10, <1>11, <1>12,
     <1>13, <1>14, <1>15, <1>16, <1>17, <1>18, <1>19
     DEF Next, CreateGoroutine, RemoveGoroutine, Monitor, Discovery, Shutdown

-----------------------------------------------------------------------------
(* Only provisioning and other orchestrators make a VM exist.              *)
LEMMA NoVMPreserved == IInv /\ [Next]_vars => NoVM'
<1> SUFFICES ASSUME IInv, [Next]_vars PROVE NoVM' OBVIOUS
<1> USE DEF IInv, NoVM
<1>0. /\ next \in 1 .. MaxCtl + 1
      /\ vm \in [VMs -> {"none", "booting", "up", "gone"}]
      /\ next' = next \/ next' = next + 1
  <2>1. next \in 1 .. MaxCtl + 1 /\ vm \in [VMs -> {"none", "booting", "up", "gone"}]
    BY DEF TypeOK
  <2>2. next' = next \/ next' = next + 1
    <3>1. ASSUME NEW k \in Keys, CreateInstance(k) \/ CreateRejected(k) \/ UserDelete(k)
          PROVE  next' = next \/ next' = next + 1
      BY <3>1 DEF CreateInstance, CreateRejected, UserDelete
    <3>2. ASSUME NEW c \in Ctl, CreateGoroutine(c) PROVE next' = next
      BY <3>2 DEF CreateGoroutine, AcquireList, AcquireRevoke, AcquireMint, Provision,
                  CreateSucceeded, CreateFailed, ctlVars
    <3>3. ASSUME NEW c \in Ctl, RemoveGoroutine(c) PROVE next' = next
      BY <3>3 DEF RemoveGoroutine, DeleteCheck, ReleaseList, ReleaseRevoke, DeleteDevice,
                  DeleteVM, StopCancel, StopReturns, ctlVars
    <3>4. ASSUME NEW c \in Ctl, Monitor(c) \/ RunIdleCallback(c) \/ RunGoneCallback(c)
          PROVE  next' = next
      BY <3>4 DEF Monitor, ReadPeers, PeerAbsent, PeerPresent, MonitorExits,
                  RunIdleCallback, RunGoneCallback
    <3>5. CASE Discovery
      BY <3>5 DEF Discovery, DiscoverList, DiscoverSkipTracked, DiscoverIdentity,
                  DiscoverRegister, ctlVars
    <3>6. CASE ShutdownBegin \/ Shutdown \/ Crash
      BY <3>6 DEF ShutdownBegin, Shutdown, ShutdownStop, ShutdownNext, ShutdownReturns,
                  Crash, ctlVars
    <3>7. CASE Environment
      BY <3>7 DEF Environment, Boot, OtherCreates, Lost, DeviceExpires, ctlVars
    <3>8. CASE UNCHANGED vars
      BY <3>8 DEF vars
    <3> QED BY <3>1, <3>2, <3>3, <3>4, <3>5, <3>6, <3>7, <3>8 DEF Next
  <2> QED BY <2>1, <2>2
<1>1. ASSUME UNCHANGED vm, device' \subseteq device PROVE NoVM'
  BY <1>0, <1>1 DEF Ctl
<1>2. ASSUME NEW c \in Ctl, Provision(c) PROVE NoVM'
  <2>1. c < next
    BY <1>0, <1>2 DEF Provision, Core, Fresh, NotYet, Ctl
  <2>2. \A d \in Ctl \ {c} : vm'[d] = vm[d]
    BY <1>0, <1>2 DEF Provision, VMs
  <2>3. UNCHANGED <<next, device>>
    BY <1>2 DEF Provision, ctlVars
  <2> QED BY <1>0, <2>1, <2>2, <2>3 DEF Ctl
<1>3. ASSUME NEW c \in Ctl, DeleteVM(c) PROVE NoVM'
  BY <1>0, <1>3 DEF DeleteVM, Listed, InCloud, ctlVars, VMs
<1>4. ASSUME NEW v \in VMs, Boot(v) \/ Lost(v) PROVE NoVM'
  BY <1>0, <1>4 DEF Boot, Lost, ctlVars, VMs
<1>5. ASSUME NEW v \in VMs, OtherCreates(v) PROVE NoVM'
  BY <1>0, <1>5, IdAssumption DEF OtherCreates, ctlVars, VMs, Ctl
<1>6. ASSUME NEW c \in Ctl, DeleteDevice(c) PROVE NoVM'
  BY <1>1, <1>6 DEF DeleteDevice
<1>7. ASSUME NEW v \in VMs, DeviceExpires(v) PROVE NoVM'
  BY <1>1, <1>7 DEF DeviceExpires
<1> HIDE DEF NoVM
<1> QED
  BY <1>1, <1>2, <1>3, <1>4, <1>5, <1>6, <1>7
     DEF Next, CreateGoroutine, RemoveGoroutine, Monitor, Discovery, Shutdown,
         Environment, CreateInstance, CreateRejected, UserDelete, AcquireList,
         AcquireRevoke, AcquireMint, CreateSucceeded, CreateFailed,
         DeleteCheck, ReleaseList, ReleaseRevoke, StopCancel, StopReturns,
         RunIdleCallback, RunGoneCallback, ReadPeers, PeerAbsent, PeerPresent,
         MonitorExits, DiscoverList, DiscoverSkipTracked, DiscoverIdentity,
         DiscoverRegister, ShutdownBegin, ShutdownStop, ShutdownNext,
         ShutdownReturns, Crash, envVars, vars

-----------------------------------------------------------------------------
(* Discovered controllers whose peer is gone.                              *)

(* A step after which no more entries name a discovered, idle controller,  *)
(* and which runs no peer-gone callback of one of them.                    *)
LEMMA LeavingStep ==
  ASSUME TypeOK, GoneIsLeaving,
         \A k \in Keys : reg'[k] \in {reg[k], None},
         \A c \in Ctl : (ctl'[c].discovered /\ ctl'[c].state = "idle")
                            => /\ ctl[c].discovered /\ ctl[c].state = "idle"
                               /\ goneCb'[c] = goneCb[c]
  PROVE  GoneIsLeaving'
<1> SUFFICES ASSUME NEW k \in Keys, reg'[k] # None, ctl'[reg'[k]].discovered,
                    ctl'[reg'[k]].state = "idle"
             PROVE  goneCb'[reg'[k]] > 0
  BY DEF GoneIsLeaving
<1>1. reg'[k] = reg[k] /\ reg[k] \in Ctl BY DEF TypeOK
<1> QED BY <1>1 DEF GoneIsLeaving

(* A step that registers a new controller.                                 *)
LEMMA NewEntryStays ==
  ASSUME TypeOK, GoneIsLeaving, NEW k \in Keys, NEW r, next \in Ctl,
         ~r.discovered \/ r.state # "idle",
         reg' = [reg EXCEPT ![k] = next], ctl' = [ctl EXCEPT ![next] = r],
         UNCHANGED goneCb
  PROVE  GoneIsLeaving'
<1> SUFFICES ASSUME NEW j \in Keys, reg'[j] # None, ctl'[reg'[j]].discovered,
                    ctl'[reg'[j]].state = "idle"
             PROVE  goneCb[reg'[j]] > 0
  BY DEF GoneIsLeaving
<1>1. reg'[j] # next BY DEF TypeOK
<1>2. reg'[j] = reg[j] /\ reg[j] \in Ctl BY <1>1 DEF TypeOK
<1> QED BY <1>1, <1>2 DEF GoneIsLeaving, TypeOK

LEMMA GonePreserved == IInv /\ GoneIsLeaving /\ [Next]_vars => GoneIsLeaving'
<1> SUFFICES ASSUME IInv, GoneIsLeaving, [Next]_vars PROVE GoneIsLeaving' OBVIOUS
<1> USE DEF ctlVars, cbVars
<1>0. /\ TypeOK
      /\ reg \in [Keys -> Ctl \cup {None}]
      /\ ctl \in [Ctl -> Controller]
      /\ goneCb \in [Ctl -> Nat]
      /\ next \in 1 .. MaxCtl + 1
  BY DEF IInv, TypeOK
<1>1. ASSUME UNCHANGED <<reg, ctl, goneCb>> PROVE GoneIsLeaving'
  BY <1>1 DEF GoneIsLeaving
<1>2. ASSUME NEW k \in Keys, CreateInstance(k) PROVE GoneIsLeaving'
  <2> DEFINE r == [NewController(k) EXCEPT !.state = "launching"]
  <2>1. ~r.discovered /\ next \in Ctl
    BY <1>0, <1>2, BoundAssumption DEF NewController, CreateInstance, Ctl
  <2>2. /\ reg' = [reg EXCEPT ![k] = next]
        /\ ctl' = [ctl EXCEPT ![next] = r]
        /\ UNCHANGED goneCb
    BY <1>2 DEF CreateInstance
  <2> HIDE DEF r
  <2> QED BY <1>0, <2>1, <2>2, NewEntryStays
<1>3. ASSUME NEW k \in Keys, CreateRejected(k) \/ UserDelete(k) PROVE GoneIsLeaving'
  <2>1. UNCHANGED <<ctl, goneCb>> /\ reg' = [reg EXCEPT ![k] = None]
    BY <1>3 DEF CreateRejected, UserDelete, Unregister, TakeOut
  <2> QED BY <1>0, <2>1, LeavingStep
<1>4. ASSUME NEW c \in Ctl,
             CreateSucceeded(c) \/ CreateFailed(c) \/ StopCancel(c) \/ ReadPeers(c)
                 \/ PeerPresent(c) \/ MonitorExits(c)
      PROVE  GoneIsLeaving'
  <2>1. UNCHANGED <<reg, goneCb>>
    BY <1>4 DEF CreateSucceeded, CreateFailed, StopCancel, ReadPeers, PeerPresent,
                MonitorExits
  <2>2. ASSUME NEW d \in Ctl, ctl'[d].discovered, ctl'[d].state = "idle"
        PROVE  ctl[d].discovered /\ ctl[d].state = "idle"
    <3>1. CASE CreateSucceeded(c)
      BY <1>0, <2>2, <3>1 DEF CreateSucceeded, Controller
    <3>2. CASE CreateFailed(c)
      BY <1>0, <2>2, <3>2 DEF CreateFailed, SetFailed, Controller
    <3>3. CASE StopCancel(c)
      BY <1>0, <2>2, <3>3 DEF StopCancel, Controller
    <3>4. CASE ReadPeers(c)
      <4>1. PICK m : ctl' = [ctl EXCEPT ![c].mon = m] BY <3>4 DEF ReadPeers
      <4> QED BY <1>0, <2>2, <4>1 DEF Controller
    <3>5. CASE PeerPresent(c)
      <4>1. PICK r : ctl' = [ctl EXCEPT ![c] = r] /\ r.state = "running"
        <5> DEFINE a == [ctl[c] EXCEPT !.mon = "select", !.state = "running"]
                   b == [a EXCEPT !.triggered = TRUE]
        <5>1. a.state = "running" /\ b.state = "running"
          BY <1>0 DEF Controller
        <5>2. ctl' = [ctl EXCEPT ![c] = a] \/ ctl' = [ctl EXCEPT ![c] = b]
          BY <1>0, <3>5 DEF PeerPresent, Controller
        <5> HIDE DEF a, b
        <5> QED BY <5>1, <5>2
      <4> QED BY <1>0, <2>2, <4>1
    <3>6. CASE MonitorExits(c)
      BY <1>0, <2>2, <3>6 DEF MonitorExits, Controller
    <3> QED BY <1>4, <3>1, <3>2, <3>3, <3>4, <3>5, <3>6
  <2> QED BY <1>0, <2>1, <2>2, LeavingStep
<1>5. ASSUME NEW c \in Ctl, PeerAbsent(c) PROVE GoneIsLeaving'
  <2>1. /\ UNCHANGED reg
        /\ \A d \in Ctl \ {c} : ctl'[d] = ctl[d] /\ goneCb'[d] = goneCb[d]
        /\ ctl'[c].discovered => goneCb'[c] > 0
    BY <1>0, <1>5 DEF PeerAbsent, CallsPeerGone, Controller
  <2> QED BY <1>0, <2>1 DEF GoneIsLeaving
<1>6. ASSUME NEW c \in Ctl, RunIdleCallback(c) PROVE GoneIsLeaving'
  <2>1. /\ UNCHANGED <<ctl, goneCb>>
        /\ reg' = [reg EXCEPT ![ctl[c].key] = None] \/ UNCHANGED reg
    BY <1>6 DEF RunIdleCallback, Unregister, TakeOut
  <2> QED BY <1>0, <2>1, LeavingStep
<1>7. ASSUME NEW c \in Ctl, RunGoneCallback(c) PROVE GoneIsLeaving'
  <2>1. /\ UNCHANGED ctl
        /\ \A d \in Ctl \ {c} : goneCb'[d] = goneCb[d]
        /\ \A k \in Keys : reg'[k] \in {reg[k], None}
    BY <1>0, <1>7 DEF RunGoneCallback, TakeOut
  <2>2. ASSUME NEW k \in Keys PROVE reg'[k] # c
    <3>1. c # None BY IdAssumption DEF Ctl
    <3>2. reg[k] = c => ctl[c].key = k
      BY <3>1 DEF IInv, Core, RegisteredIsDriven
    <3>3. ctl[c].key \in Keys => reg'[ctl[c].key] = None
      BY <1>0, <1>7 DEF RunGoneCallback, TakeOut
    <3> QED BY <2>1, <3>1, <3>2, <3>3
  <2> QED BY <1>0, <2>1, <2>2 DEF GoneIsLeaving
<1>8. CASE DiscoverRegister
  <2> DEFINE r == [NewController(disc.found) EXCEPT
                      !.state = "running", !.started = TRUE,
                      !.discovered = TRUE, !.mon = "select"]
  <2>1. disc.found \in Keys /\ r.state = "running"
    BY <1>0, <1>8 DEF DiscoverRegister, NewController, TypeOK, Round
  <2>2. \/ UNCHANGED <<reg, ctl, goneCb>>
        \/ /\ next \in Ctl
           /\ reg' = [reg EXCEPT ![disc.found] = next]
           /\ ctl' = [ctl EXCEPT ![next] = r]
           /\ UNCHANGED goneCb
    BY <1>0, <1>8, BoundAssumption DEF DiscoverRegister, Free, Ctl
  <2> HIDE DEF r
  <2> QED BY <1>0, <1>1, <2>1, <2>2, NewEntryStays
<1>9. CASE ShutdownBegin \/ Crash
  <2>1. \A k \in Keys : reg'[k] = None BY <1>9 DEF ShutdownBegin, Crash
  <2> QED BY <2>1 DEF GoneIsLeaving
<1>10. ASSUME NEW c \in Ctl, CreateGoroutine(c) PROVE GoneIsLeaving'
  BY <1>1, <1>4, <1>10 DEF CreateGoroutine, AcquireList, AcquireRevoke,
                           AcquireMint, Provision
<1>11. ASSUME NEW c \in Ctl, RemoveGoroutine(c) PROVE GoneIsLeaving'
  BY <1>1, <1>4, <1>11 DEF RemoveGoroutine, DeleteCheck, ReleaseList, ReleaseRevoke,
                           DeleteDevice, DeleteVM, StopReturns
<1>12. CASE DiscoverList \/ DiscoverSkipTracked \/ \E k \in Keys : DiscoverIdentity(k)
  BY <1>1, <1>12 DEF DiscoverList, DiscoverSkipTracked, DiscoverIdentity
<1>13. CASE Shutdown \/ Environment
  BY <1>1, <1>13 DEF Shutdown, ShutdownStop, ShutdownNext, ShutdownReturns,
                     Environment, Boot, OtherCreates, Lost, DeviceExpires
<1>14. CASE UNCHANGED vars
  BY <1>1, <1>14 DEF vars
<1> QED
  BY <1>2, <1>3, <1>4, <1>5, <1>6, <1>7, <1>8, <1>9, <1>10, <1>11, <1>12, <1>13,
     <1>14 DEF Next, Monitor, Discovery

-----------------------------------------------------------------------------
(* Theorems *)

LEMMA InitIInv == Init => IInv
<1> SUFFICES ASSUME Init PROVE IInv OBVIOUS
<1> USE DEF Init
<1>0. 1 \in 1 .. MaxCtl + 1 /\ 0 \in 0 .. MaxFaults /\ 0 \in 0 .. MaxCrashes
  BY BoundAssumption
<1>1. NewController(None) \in Controller /\ NewController(None).state = "idle"
  BY DEF NewController, Controller, States, MonitorPCs
<1>2. NotYet \in Creation /\ NotRemoved \in Removal
  BY DEF NotYet, Creation, NotRemoved, Removal
<1>3. disc \in Round BY DEF Round
<1>10. TypeOK BY <1>0, <1>1, <1>2, <1>3 DEF TypeOK
<1>4. Fresh BY DEF Fresh, Ctl
<1>5. Phases BY <1>1 DEF Phases, Creating, NotYet
<1>6. RegisteredIsDriven BY DEF RegisteredIsDriven
<1>7. CreationRegistered BY DEF CreationRegistered, Creating, NotYet
<1>8. Newest BY DEF Newest
<1>9. NoVM BY DEF NoVM, VMs
<1> QED BY <1>10, <1>4, <1>5, <1>6, <1>7, <1>8, <1>9 DEF IInv, Core

LEMMA Inductive == Spec => []IInv
<1>1. IInv /\ [Next]_vars => IInv'
  BY TypePreserved, CorePreserved, NoVMPreserved DEF IInv, Core
<1> QED BY InitIInv, <1>1, PTL DEF Spec

(* Type correctness: the counters stay in range, goroutines are where the  *)
(* code can have them, and registry.go never looks up a controller or a    *)
(* key that does not exist.                                                *)
THEOREM TypeCorrect == Spec => []TypeOK
<1>1. IInv => TypeOK BY DEF IInv
<1> QED BY Inductive, <1>1, PTL

(* The registry never holds a dead entry: whatever the callbacks, deletes, *)
(* discovery, Shutdown and crashes do, a registered controller is for its  *)
(* key, nobody has taken it out, and it is provisioned, monitored or       *)
(* marked failed.                                                          *)
THEOREM EntriesAreDriven == Spec => []RegisteredIsDriven
<1>1. IInv => RegisteredIsDriven BY DEF IInv, Core
<1> QED BY Inductive, <1>1, PTL

(* Creation requests alone never run two provisionings of one instance:    *)
(* the older of two has been taken out of the registry.                    *)
THEOREM CreationsAreExclusive == Spec => []OneCreationPerKey
<1>1. IInv => OneCreationPerKey BY OneCreation DEF IInv
<1> QED BY Inductive, <1>1, PTL

(* A registered discovered controller whose peer is gone is on its way     *)
(* out: a peer-gone callback is pending for it, and none of them runs      *)
(* without taking the entry for its key out (registry.go:366-385).         *)
THEOREM GoneLeaves == Spec => []GoneIsLeaving
<1>1. Init => GoneIsLeaving BY DEF Init, GoneIsLeaving
<1> QED BY Inductive, <1>1, GonePreserved, PTL DEF Spec

(* Neither CreateInstance nor discovery overwrites a controller that is    *)
(* launching or running.                                                   *)
THEOREM WorkIsKept == Spec => WorkingNeverReplaced
<1> DEFINE Kept == \A k \in Keys :
               (reg[k] # None /\ reg'[k] \notin {None, reg[k]})
                   => ctl[reg[k]].state \in {"idle", "failed"}
<1>1. IInv /\ [Next]_vars => [Kept]_vars
  <2> SUFFICES ASSUME IInv, Next PROVE Kept OBVIOUS
  <2>0. reg \in [Keys -> Ctl \cup {None}] /\ disc.found \in Keys \cup {None}
    BY DEF IInv, TypeOK, Round
  <2>1. ASSUME UNCHANGED reg PROVE Kept
    BY <2>1
  <2>2. ASSUME NEW k \in Keys, reg' = [reg EXCEPT ![k] = None] PROVE Kept
    BY <2>0, <2>2
  <2>3. ASSUME NEW k \in Keys, CreateInstance(k) PROVE Kept
    BY <2>0, <2>3 DEF CreateInstance, Replaceable
  <2>4. ASSUME DiscoverRegister PROVE Kept
    BY <2>0, <2>4 DEF DiscoverRegister, Free, ctlVars
  <2>5. ASSUME ShutdownBegin \/ Crash PROVE Kept
    BY <2>5 DEF ShutdownBegin, Crash
  <2>6. ASSUME NEW c \in Ctl, RunIdleCallback(c) \/ RunGoneCallback(c) PROVE Kept
    <3>1. ctl[c].key \in Keys
      BY <2>6 DEF IInv, TypeOK, Core, Fresh, RunIdleCallback, RunGoneCallback, Pending, Ctl
    <3>2. reg' = [reg EXCEPT ![ctl[c].key] = None] \/ UNCHANGED reg
      BY <2>6 DEF RunIdleCallback, RunGoneCallback, Unregister, TakeOut
    <3> QED BY <2>1, <2>2, <3>1, <3>2
  <2> HIDE DEF Kept
  <2>7. ASSUME NEW k \in Keys, CreateRejected(k) \/ UserDelete(k) PROVE Kept
    BY <2>2, <2>7 DEF CreateRejected, UserDelete, Unregister, TakeOut
  <2>8. ASSUME NEW c \in Ctl, CreateGoroutine(c) PROVE Kept
    BY <2>1, <2>8 DEF CreateGoroutine, AcquireList, AcquireRevoke, AcquireMint,
                      Provision, CreateSucceeded, CreateFailed, ctlVars
  <2>9. ASSUME NEW c \in Ctl, RemoveGoroutine(c) PROVE Kept
    BY <2>1, <2>9 DEF RemoveGoroutine, DeleteCheck, ReleaseList, ReleaseRevoke,
                      DeleteDevice, DeleteVM, StopCancel, StopReturns, ctlVars
  <2>10. ASSUME NEW c \in Ctl, Monitor(c) PROVE Kept
    BY <2>1, <2>10 DEF Monitor, ReadPeers, PeerAbsent, PeerPresent, MonitorExits
  <2>11. CASE Discovery
    BY <2>1, <2>4, <2>11 DEF Discovery, DiscoverList, DiscoverSkipTracked,
                             DiscoverIdentity, ctlVars
  <2>12. CASE Shutdown \/ Environment
    BY <2>1, <2>12 DEF Shutdown, ShutdownStop, ShutdownNext, ShutdownReturns,
                       Environment, Boot, OtherCreates, Lost, DeviceExpires, ctlVars
  <2> QED
    BY <2>3, <2>5, <2>6, <2>7, <2>8, <2>9, <2>10, <2>11, <2>12 DEF Next
<1> QED BY Inductive, <1>1, PTL DEF Spec, WorkingNeverReplaced

-----------------------------------------------------------------------------
(* What DeleteInstance achieves.                                           *)

(* Taken out by DeleteInstance; of a service with a volume, and complete   *)
(* by then.                                                                *)
ByDelete(c) == rem[c].by \in {"delete", "cancel"}
Deleted(c) == rem[c].by = "delete" /\ ctl[c].key \in Persistent

(* Only a failing call makes a creation fail.                              *)
FailureIsFault == \A c \in Ctl :
    (crt[c].pc = "failing" \/ ctl[c].state = "failed") => faults > 0

(* A controller that DeleteInstance took out is at one of its steps, and   *)
(* is not provisioned any more unless the deletion is a "cancel".          *)
DeletedIsMade == \A c \in Ctl :
    /\ rem[c].pc \in {"removed", "fence", "revoke", "control", "cloud"} => ByDelete(c)
    /\ ByDelete(c) => rem[c].pc \notin {"none", "queued"}
    /\ Deleted(c) => ~Creating(c)

(* Its token is among those listed, and then dead.                         *)
TokenGoes == \A c \in Ctl : Deleted(c) =>
    /\ (rem[c].pc = "revoke" /\ c \in tokens) => c \in rem[c].saw
    /\ (rem[c].pc \notin {"removed", "fence", "revoke"} /\ faults = 0)
          => c \notin tokens

(* A controller this process provisioned has a VM, while it is registered  *)
(* and while DeleteInstance works on it.                                   *)
HasVM == \A c \in Ctl :
    /\ crt[c].pc = "launched" => vm[c] # "none"
    /\ (/\ c \in Registered \/ ByDelete(c)
        /\ crt[c].pc = "done" /\ faults = 0) => vm[c] # "none"

-----------------------------------------------------------------------------
(* How the steps of the system change each of the variables.               *)

(* The failing calls are counted, never forgotten.                         *)
LEMMA FaultsGrow == TypeOK /\ [Next]_vars => (faults' = 0 => faults = 0) /\ faults' \in Nat
<1> SUFFICES ASSUME TypeOK, [Next]_vars
             PROVE  (faults' = 0 => faults = 0) /\ faults' \in Nat
  OBVIOUS
<1>1. faults \in Nat BY BoundAssumption DEF TypeOK
<1>2. ASSUME Fault \/ NoFault PROVE (faults' = 0 => faults = 0) /\ faults' \in Nat
  BY <1>1, <1>2 DEF Fault, NoFault
<1>3. ASSUME UNCHANGED faults PROVE (faults' = 0 => faults = 0) /\ faults' \in Nat
  BY <1>1, <1>3
<1> QED
  BY <1>2, <1>3
     DEF Next, CreateGoroutine, RemoveGoroutine, Monitor, Discovery, Shutdown,
         Environment, CreateInstance, CreateRejected, UserDelete, AcquireList,
         AcquireRevoke, AcquireMint, Provision, CreateSucceeded, CreateFailed,
         DeleteCheck, ReleaseList, ReleaseRevoke, DeleteDevice, DeleteVM, StopCancel,
         StopReturns, RunIdleCallback, RunGoneCallback, ReadPeers, PeerAbsent, PeerPresent,
         MonitorExits, DiscoverList, DiscoverSkipTracked, DiscoverIdentity,
         DiscoverRegister, ShutdownBegin, ShutdownStop, ShutdownNext,
         ShutdownReturns, Crash, Boot, OtherCreates, Lost, DeviceExpires, vars

(* A VM that was made stays made, and one that is gone stays gone unless   *)
(* its provisioning is still under way.                                    *)
VMsKept == /\ \A v \in VMs : vm[v] # "none" => vm'[v] # "none"
           /\ \A c \in Ctl : (vm[c] = "gone" /\ ~Creating(c)) => vm'[c] = "gone"

LEMMA VMsAreKept == TypeOK /\ [Next]_vars => VMsKept
<1> SUFFICES ASSUME TypeOK, [Next]_vars PROVE VMsKept OBVIOUS
<1>0. vm \in [VMs -> {"none", "booting", "up", "gone"}] /\ Ctl \subseteq VMs
  BY DEF TypeOK, VMs
<1>1. ASSUME UNCHANGED vm PROVE VMsKept
  BY <1>0, <1>1 DEF VMsKept
<1>2. ASSUME NEW c \in Ctl, Provision(c) PROVE VMsKept
  BY <1>0, <1>2 DEF VMsKept, Provision, Creating
<1>3. ASSUME NEW c \in Ctl, DeleteVM(c) PROVE VMsKept
  BY <1>0, <1>3 DEF VMsKept, DeleteVM, Listed, InCloud
<1>4. ASSUME NEW v \in VMs, Boot(v) \/ Lost(v) \/ OtherCreates(v) PROVE VMsKept
  BY <1>0, <1>4 DEF VMsKept, Boot, Lost, OtherCreates
<1> HIDE DEF VMsKept
<1> QED
  BY <1>1, <1>2, <1>3, <1>4
     DEF Next, CreateGoroutine, RemoveGoroutine, Monitor, Discovery, Shutdown,
         Environment, CreateInstance, CreateRejected, UserDelete, AcquireList,
         AcquireRevoke, AcquireMint, CreateSucceeded, CreateFailed,
         DeleteCheck, ReleaseList, ReleaseRevoke, DeleteDevice, StopCancel,
         StopReturns, RunIdleCallback, RunGoneCallback, ReadPeers, PeerAbsent, PeerPresent,
         MonitorExits, DiscoverList, DiscoverSkipTracked, DiscoverIdentity,
         DiscoverRegister, ShutdownBegin, ShutdownStop, ShutdownNext,
         ShutdownReturns, Crash, DeviceExpires, envVars, vars

(* Only a provisioning goroutine makes a token, for its own controller.    *)
TokensKept == \A c \in Ctl : c \in tokens' => (c \in tokens \/ Creating(c))

LEMMA TokensAreKept == TypeOK /\ [Next]_vars => TokensKept
<1> SUFFICES ASSUME TypeOK, [Next]_vars PROVE TokensKept OBVIOUS
<1>1. ASSUME UNCHANGED tokens PROVE TokensKept
  BY <1>1 DEF TokensKept
<1>2. ASSUME NEW c \in Ctl, AcquireRevoke(c) \/ ReleaseRevoke(c) PROVE TokensKept
  BY <1>2 DEF TokensKept, AcquireRevoke, ReleaseRevoke
<1>3. ASSUME NEW c \in Ctl, AcquireMint(c) PROVE TokensKept
  BY <1>3 DEF TokensKept, AcquireMint, Creating
<1> QED
  BY <1>1, <1>2, <1>3
     DEF Next, CreateGoroutine, RemoveGoroutine, Monitor, Discovery, Shutdown,
         Environment, CreateInstance, CreateRejected, UserDelete, AcquireList,
         Provision, CreateSucceeded, CreateFailed,
         DeleteCheck, ReleaseList, DeleteDevice, DeleteVM, StopCancel,
         StopReturns, RunIdleCallback, RunGoneCallback, ReadPeers, PeerAbsent, PeerPresent,
         MonitorExits, DiscoverList, DiscoverSkipTracked, DiscoverIdentity,
         DiscoverRegister, ShutdownBegin, ShutdownStop, ShutdownNext,
         ShutdownReturns, Crash, Boot, OtherCreates, Lost, DeviceExpires, envVars, vars

(* A controller keeps its key and its origin, and is marked failed by its  *)
(* failing creation only.                                                  *)
Keeps(c) ==
    /\ ctl'[c].key = ctl[c].key
    /\ ctl'[c].discovered = ctl[c].discovered
    /\ ctl'[c].state = "failed" => ctl[c].state = "failed" \/ crt[c].pc = "failing"

NewKeeps ==
    /\ \A c \in Ctl : c # next => Keeps(c)
    /\ (next \in Ctl /\ ~Keeps(next)) =>
          /\ ctl'[next].discovered \/ crt'[next].pc \in {"acquire", "provision"}
          /\ ctl'[next].state # "failed"

LEMMA ControllersKept == TypeOK /\ Fresh /\ [Next]_vars => NewKeeps
<1> SUFFICES ASSUME TypeOK, Fresh, [Next]_vars PROVE NewKeeps OBVIOUS
<1>0. /\ ctl \in [Ctl -> Controller] /\ crt \in [Ctl -> Creation]
      /\ next \in 1 .. MaxCtl + 1
  BY DEF TypeOK
<1>1. ASSUME UNCHANGED ctl PROVE NewKeeps
  BY <1>1 DEF NewKeeps, Keeps
<1>2. ASSUME NEW c \in Ctl, NEW r, ctl' = [ctl EXCEPT ![c] = r],
             r.key = ctl[c].key, r.discovered = ctl[c].discovered,
             r.state = "failed" => ctl[c].state = "failed" \/ crt[c].pc = "failing"
      PROVE  NewKeeps
  BY <1>0, <1>2 DEF NewKeeps, Keeps
<1>3. ASSUME NEW k \in Keys, CreateInstance(k) PROVE NewKeeps
  <2>1. next \in Ctl BY <1>0, <1>3, BoundAssumption DEF CreateInstance, Ctl
  <2>2. \A c \in Ctl \ {next} : ctl'[c] = ctl[c]
    BY <1>0, <1>3, <2>1 DEF CreateInstance
  <2>3. ctl'[next].state = "launching"
    BY <1>0, <1>3, <2>1 DEF CreateInstance, NewController
  <2>4. crt'[next].pc \in {"acquire", "provision"}
    BY <1>0, <1>3, <2>1 DEF CreateInstance, Creation
  <2> QED BY <2>2, <2>3, <2>4 DEF NewKeeps, Keeps
<1>4. ASSUME DiscoverRegister PROVE NewKeeps
  <2>1. CASE UNCHANGED ctl BY <1>1, <2>1
  <2> DEFINE r == [NewController(disc.found) EXCEPT
                      !.state = "running", !.started = TRUE,
                      !.discovered = TRUE, !.mon = "select"]
  <2>2. CASE next <= MaxCtl /\ ctl' = [ctl EXCEPT ![next] = r]
    <3>1. r.discovered = TRUE /\ r.state = "running" BY DEF NewController
    <3> HIDE DEF r
    <3>2. next \in Ctl BY <1>0, <2>2, BoundAssumption DEF Ctl
    <3> QED BY <1>0, <2>2, <3>1, <3>2 DEF NewKeeps, Keeps
  <2> QED BY <1>4, <2>1, <2>2 DEF DiscoverRegister, Free, ctlVars
<1>5. ASSUME NEW c \in Ctl, CreateSucceeded(c) PROVE NewKeeps
  <2> DEFINE r == [ctl[c] EXCEPT !.started = TRUE, !.mon = "select"]
  <2>1. /\ r.key = ctl[c].key /\ r.discovered = ctl[c].discovered
        /\ r.state = ctl[c].state
    BY <1>0 DEF Controller
  <2>2. ctl' = [ctl EXCEPT ![c] = r] BY <1>5 DEF CreateSucceeded
  <2> HIDE DEF r
  <2> QED BY <1>2, <2>1, <2>2
<1>6. ASSUME NEW c \in Ctl, CreateFailed(c) PROVE NewKeeps
  <2> DEFINE r == [ctl[c] EXCEPT !.state = "failed", !.cancelled = TRUE]
  <2>1. r.key = ctl[c].key /\ r.discovered = ctl[c].discovered
    BY <1>0 DEF Controller
  <2>2. ctl' = [ctl EXCEPT ![c] = r] /\ crt[c].pc = "failing"
    BY <1>6 DEF CreateFailed, SetFailed
  <2> HIDE DEF r
  <2> QED BY <1>2, <2>1, <2>2
<1>7. ASSUME NEW c \in Ctl, StopCancel(c) PROVE NewKeeps
  BY <1>0, <1>7 DEF NewKeeps, Keeps, StopCancel, Controller
<1>8. ASSUME NEW c \in Ctl, MonitorExits(c) PROVE NewKeeps
  BY <1>0, <1>8 DEF NewKeeps, Keeps, MonitorExits, Controller
<1>9. ASSUME NEW c \in Ctl, ReadPeers(c) \/ PeerAbsent(c) \/ PeerPresent(c) PROVE NewKeeps
  <2>1. PICK r \in Controller :
              /\ ctl' = [ctl EXCEPT ![c] = r]
              /\ r.key = ctl[c].key /\ r.discovered = ctl[c].discovered
              /\ r.state \in {ctl[c].state, "idle", "running"}
    BY <1>0, <1>9, CheckUpdate
  <2> QED BY <1>2, <2>1
<1>10. ASSUME Crash PROVE NewKeeps
  <2>1. ASSUME NEW c \in Ctl
        PROVE  /\ ctl'[c].key = ctl[c].key
               /\ ctl'[c].state = ctl[c].state
               /\ ctl'[c].discovered = ctl[c].discovered
    <3>1. ctl[c] \in Controller BY <1>0
    <3>2. \/ ctl'[c] = ctl[c]
          \/ ctl'[c] = [ctl[c] EXCEPT !.cancelled = TRUE,
                            !.mon = IF @ = "off" THEN @ ELSE "exited"]
      BY <1>10 DEF Crash
    <3> QED BY <3>1, <3>2 DEF Controller
  <2> QED BY <2>1 DEF NewKeeps, Keeps
<1> HIDE DEF NewKeeps
<1> QED
  BY <1>1, <1>3, <1>4, <1>5, <1>6, <1>7, <1>8, <1>9, <1>10
     DEF Next, CreateGoroutine, RemoveGoroutine, Monitor, Discovery, Shutdown,
         Environment, CreateRejected, UserDelete, AcquireList, AcquireRevoke, AcquireMint,
         Provision, DeleteCheck, ReleaseList, ReleaseRevoke, DeleteDevice, DeleteVM,
         StopReturns, RunIdleCallback, RunGoneCallback, DiscoverList,
         DiscoverSkipTracked, DiscoverIdentity, ShutdownBegin, ShutdownStop, ShutdownNext,
         ShutdownReturns, Boot, OtherCreates, Lost, DeviceExpires, ctlVars, vars

(* The steps of a provisioning goroutine.                                  *)
CreationSteps(c) ==
    \/ crt'[c] = crt[c]
    \/ c = next /\ crt'[c].pc \in {"acquire", "provision"}
    \/ Creating(c) /\ crt'[c].pc \in {"revoke", "mint", "provision"}
    \/ Creating(c) /\ crt'[c].pc = "failing" /\ faults' > 0
    \/ crt[c].pc = "provision" /\ crt'[c].pc = "launched" /\ vm'[c] = "booting"
    \/ crt[c].pc = "launched" /\ crt'[c].pc = "done" /\ UNCHANGED vm
    \/ crt[c].pc = "failing" /\ crt'[c].pc = "done"
    \/ /\ crt[c].pc # "none" /\ crt'[c].pc = "done"
       /\ reg' = [k \in Keys |-> None] /\ rem'[c] = NotRemoved

LEMMA FaultCounts == ASSUME TypeOK, Fault PROVE faults' > 0
BY BoundAssumption DEF TypeOK, Fault

LEMMA CreationMoves ==
  ASSUME TypeOK, [Next]_vars PROVE \A c \in Ctl : CreationSteps(c)
<1> DEFINE Moved == \A c \in Ctl : CreationSteps(c)
<1> SUFFICES Moved OBVIOUS
<1>0. crt \in [Ctl -> Creation] /\ Ctl \subseteq VMs
      /\ vm \in [VMs -> {"none", "booting", "up", "gone"}]
  BY DEF TypeOK, VMs
<1>1. ASSUME UNCHANGED crt PROVE Moved BY <1>1 DEF CreationSteps
<1>2. ASSUME NEW c \in Ctl, \A d \in Ctl \ {c} : crt'[d] = crt[d], CreationSteps(c)
      PROVE  Moved
  BY <1>2 DEF CreationSteps
<1>3. ASSUME NEW k \in Keys, CreateInstance(k) PROVE Moved
  <2>1. \A d \in Ctl \ {next} : crt'[d] = crt[d]
    BY <1>0, <1>3 DEF CreateInstance
  <2>2. next \in Ctl => crt'[next].pc \in {"acquire", "provision"}
    BY <1>0, <1>3 DEF CreateInstance, Creation
  <2> QED BY <2>1, <2>2 DEF CreationSteps
<1>4. ASSUME NEW c \in Ctl, NEW pc, CrtGoto(c, pc)
      PROVE  (\A d \in Ctl \ {c} : crt'[d] = crt[d]) /\ crt'[c].pc = pc
  BY <1>0, <1>4 DEF CrtGoto
<1>5. ASSUME NEW c \in Ctl, AcquireList(c) PROVE Moved
  <2>1. Creating(c) BY <1>5 DEF AcquireList, Creating
  <2>2. CASE CrtGoto(c, "failing") /\ Fault
    BY <1>2, <1>4, <2>1, <2>2, FaultCounts DEF CreationSteps
  <2>3. CASE crt' = [crt EXCEPT ![c] = [pc |-> "revoke", saw |-> VolumeTokens(ctl[c].key)]]
    BY <1>0, <1>2, <2>1, <2>3 DEF CreationSteps
  <2> QED BY <1>5, <2>2, <2>3 DEF AcquireList
<1>6. ASSUME NEW c \in Ctl, AcquireRevoke(c) \/ AcquireMint(c) PROVE Moved
  <2>1. Creating(c) BY <1>6 DEF AcquireRevoke, AcquireMint, Creating
  <2>2. CASE CrtGoto(c, "failing") /\ Fault
    BY <1>2, <1>4, <2>1, <2>2, FaultCounts DEF CreationSteps
  <2>3. ASSUME NEW pc \in {"mint", "provision"}, CrtGoto(c, pc) PROVE Moved
    BY <1>2, <1>4, <2>1, <2>3 DEF CreationSteps
  <2> QED BY <1>6, <2>2, <2>3 DEF AcquireRevoke, AcquireMint
<1>7. ASSUME NEW c \in Ctl, Provision(c) PROVE Moved
  <2>1. Creating(c) /\ crt[c].pc = "provision" BY <1>7 DEF Provision, Creating
  <2>2. CASE CrtGoto(c, "failing") /\ Fault
    BY <1>2, <1>4, <2>1, <2>2, FaultCounts DEF CreationSteps
  <2>3. CASE vm' = [vm EXCEPT ![c] = "booting"] /\ CrtGoto(c, "launched")
    <3>1. vm'[c] = "booting" BY <1>0, <2>3
    <3> QED BY <1>2, <1>4, <2>1, <2>3, <3>1 DEF CreationSteps
  <2> QED BY <1>7, <2>2, <2>3 DEF Provision
<1>8. ASSUME NEW c \in Ctl, CreateSucceeded(c) \/ CreateFailed(c) PROVE Moved
  <2>1. CrtGoto(c, "done") /\ UNCHANGED vm /\ crt[c].pc \in {"launched", "failing"}
    BY <1>8 DEF CreateSucceeded, CreateFailed, envVars
  <2> QED BY <1>2, <1>4, <2>1 DEF CreationSteps
<1>9. ASSUME Crash PROVE Moved
  <2>1. ASSUME NEW c \in Ctl PROVE CreationSteps(c)
    BY <1>9 DEF Crash, CreationSteps
  <2> QED BY <2>1
<1> HIDE DEF Moved
<1>10. ASSUME NEW c \in Ctl, CreateGoroutine(c) PROVE Moved
  BY <1>5, <1>6, <1>7, <1>8, <1>10 DEF CreateGoroutine
<1>11. ASSUME NEW c \in Ctl, RemoveGoroutine(c) PROVE Moved
  BY <1>1, <1>11 DEF RemoveGoroutine, DeleteCheck, ReleaseList, ReleaseRevoke,
                     DeleteDevice, DeleteVM, StopCancel, StopReturns
<1>12. ASSUME NEW c \in Ctl, Monitor(c) \/ RunIdleCallback(c) \/ RunGoneCallback(c)
       PROVE  Moved
  BY <1>1, <1>12 DEF Monitor, ReadPeers, PeerAbsent, PeerPresent, MonitorExits,
                     RunIdleCallback, RunGoneCallback
<1>13. CASE Discovery \/ ShutdownBegin \/ Shutdown
  BY <1>1, <1>13 DEF Discovery, DiscoverList, DiscoverSkipTracked, DiscoverIdentity,
                     DiscoverRegister, Shutdown, ShutdownBegin, ShutdownStop,
                     ShutdownNext, ShutdownReturns
<1>14. CASE Environment \/ UNCHANGED vars
  BY <1>1, <1>14 DEF Environment, Boot, OtherCreates, Lost, DeviceExpires, vars
<1>15. ASSUME NEW k \in Keys, CreateRejected(k) \/ UserDelete(k) PROVE Moved
  BY <1>1, <1>15 DEF CreateRejected, UserDelete
<1> QED BY <1>3, <1>9, <1>10, <1>11, <1>12, <1>13, <1>14, <1>15 DEF Next

(* A step registers no controller but a new one.                           *)
LEMMA OnlyNewRegistered ==
  ASSUME TypeOK, Fresh, [Next]_vars
  PROVE  \A c \in Ctl : c \in Registered' => c \in Registered \/ c = next
<1> DEFINE Kept == \A k \in Keys : reg'[k] \in {reg[k], None, next}
<1>0. reg \in [Keys -> Ctl \cup {None}] BY DEF TypeOK
<1>1. ASSUME UNCHANGED reg PROVE Kept BY <1>1
<1>2. ASSUME NEW k, reg' = [reg EXCEPT ![k] = None] PROVE Kept BY <1>0, <1>2
<1>3. ASSUME NEW k \in Keys, CreateInstance(k) PROVE Kept
  BY <1>0, <1>3 DEF CreateInstance
<1>4. ASSUME DiscoverRegister PROVE Kept
  BY <1>0, <1>4 DEF DiscoverRegister, ctlVars
<1>5. ASSUME ShutdownBegin \/ Crash PROVE Kept
  BY <1>5 DEF ShutdownBegin, Crash
<1>6. Kept
  <2> HIDE DEF Kept
  <2> QED
    BY <1>1, <1>2, <1>3, <1>4, <1>5
       DEF Next, CreateGoroutine, RemoveGoroutine, Monitor, Discovery, Shutdown,
           Environment, CreateRejected, UserDelete, Unregister, TakeOut, AcquireList,
           AcquireRevoke, AcquireMint, Provision, CreateSucceeded, CreateFailed,
           DeleteCheck, ReleaseList, ReleaseRevoke,
           DeleteDevice, DeleteVM, StopCancel,
           StopReturns, RunIdleCallback, RunGoneCallback, ReadPeers, PeerAbsent, PeerPresent,
           MonitorExits, DiscoverList, DiscoverSkipTracked, DiscoverIdentity,
           ShutdownStop, ShutdownNext,
           ShutdownReturns, Boot, OtherCreates, Lost, DeviceExpires, ctlVars, vars
<1>7. \A c \in Ctl : c # None BY IdAssumption DEF Ctl
<1> QED BY <1>6, <1>7 DEF Registered

(* The steps of a DeleteInstance on the controller it took out.            *)
Unregisters(c) ==
    /\ c \in Registered
    /\ ByDelete(c)' /\ rem'[c].pc = "removed"
    /\ rem'[c].by = "delete" => ~UnderWay(c)
    /\ UNCHANGED <<ctl, crt, vm, tokens, faults>>

DeletionSteps(c) ==
    \/ rem[c].pc = "removed" /\ rem'[c].pc = "fence"
    \/ rem[c].pc = "removed" /\ rem'[c].pc = "done" /\ ctl[c].state = "failed"
    \/ rem[c].pc = "removed" /\ rem'[c].pc = "control" /\ ctl[c].key \notin Persistent
    \/ /\ rem[c].pc = "fence" /\ rem'[c].pc = "revoke"
       /\ rem'[c].saw = VolumeTokens(ctl[c].key) /\ UNCHANGED tokens
    \/ rem[c].pc = "fence" /\ rem'[c].pc = "control" /\ faults' > 0
    \/ /\ rem[c].pc = "revoke" /\ rem'[c].pc = "control"
       /\ tokens' = tokens \ rem[c].saw \/ faults' > 0
    \/ rem[c].pc = "control" /\ rem'[c].pc = "cloud"
    \/ /\ rem[c].pc = "cloud" /\ rem'[c].pc = "stop"
       /\ \/ \E v \in Listed(ctl[c].key) : vm' = [vm EXCEPT ![v] = "gone"]
          \/ Listed(ctl[c].key) = {} /\ UNCHANGED vm
          \/ faults' > 0
    \/ rem[c].pc = "stop" /\ rem'[c].pc \in {"wait", "done"}
    \/ rem[c].pc = "wait" /\ rem'[c].pc = "done"

RemovalSteps(c) ==
    \/ rem'[c] = rem[c]
    \/ Unregisters(c)
    \/ rem'[c].by = rem[c].by /\ DeletionSteps(c)
    \/ ~ByDelete(c)' /\ rem'[c].pc \in {"none", "queued"}
    \/ ~ByDelete(c) /\ ~ByDelete(c)' /\ rem'[c].pc = "stop"

(* By every goroutine that takes an entry out, or works on one taken out.  *)
LEMMA RemGotoEffect ==
  ASSUME TypeOK, NEW c \in Ctl, NEW pc, RemGoto(c, pc)
  PROVE  /\ \A d \in Ctl \ {c} : rem'[d] = rem[d]
         /\ rem'[c].pc = pc
         /\ rem'[c].by = rem[c].by
BY DEF TypeOK, RemGoto, RemAt

LEMMA UnregisterEffect ==
  ASSUME TypeOK, RegisteredIsDriven, NEW k \in Keys, Unregister(k),
         UNCHANGED <<ctl, crt, vm, tokens, faults>>
  PROVE  \A c \in Ctl : RemovalSteps(c)
<1>0. rem \in [Ctl -> Removal] /\ reg[k] \in Ctl
  BY DEF TypeOK, Unregister, TakeOut
<1>1. \A d \in Ctl \ {reg[k]} : rem'[d] = rem[d]
  BY <1>0 DEF Unregister, TakeOut
<1>2. /\ rem'[reg[k]].pc = "removed"
      /\ rem'[reg[k]].by \in {"delete", "cancel"}
      /\ rem'[reg[k]].by = "delete" => ~UnderWay(reg[k])
  BY <1>0 DEF Unregister, TakeOut, TakenOut
<1>3. reg[k] \in Registered BY <1>0 DEF Registered
<1> QED BY <1>1, <1>2, <1>3 DEF RemovalSteps, ByDelete, Unregisters

LEMMA RemovalMoves ==
  ASSUME TypeOK, Fresh, RegisteredIsDriven, DeletedIsMade, [Next]_vars
  PROVE  \A c \in Ctl : RemovalSteps(c)
<1> DEFINE Moved == \A c \in Ctl : RemovalSteps(c)
<1> SUFFICES Moved OBVIOUS
<1>0. rem \in [Ctl -> Removal] BY DEF TypeOK
<1>1. ASSUME UNCHANGED rem PROVE Moved BY <1>1 DEF RemovalSteps, ByDelete
<1>2. ASSUME NEW c \in Ctl, \A d \in Ctl \ {c} : rem'[d] = rem[d], RemovalSteps(c)
      PROVE  Moved
  BY <1>2 DEF RemovalSteps, ByDelete
<1>3. ASSUME NEW c \in Ctl, NEW pc, RemGoto(c, pc), DeletionSteps(c) PROVE Moved
  BY <1>2, <1>3, RemGotoEffect DEF RemovalSteps, ByDelete
<1>4. ASSUME NEW k \in Keys, UserDelete(k) PROVE Moved
  BY <1>4, UnregisterEffect DEF UserDelete, envVars
<1>5. ASSUME NEW c \in Ctl, RunIdleCallback(c) PROVE Moved
  <2>1. ctl[c].key \in Keys BY <1>5 DEF Fresh, RunIdleCallback, TypeOK, Ctl
  <2> QED BY <1>1, <1>5, <2>1, UnregisterEffect DEF RunIdleCallback, envVars
<1>6. ASSUME NEW c \in Ctl, RunGoneCallback(c) PROVE Moved
  <2>1. CASE UNCHANGED rem BY <1>1, <2>1
  <2>2. CASE TakeOut(ctl[c].key, "stop", "gone")
    <3>1. ctl[c].key \in Keys BY <1>6 DEF Fresh, RunGoneCallback, Pending, TypeOK, Ctl
    <3>2. PICK d \in Ctl : d = reg[ctl[c].key] BY <2>2, <3>1 DEF TypeOK, TakeOut
    <3>3. ~ByDelete(d)
      BY <2>2, <3>1, <3>2 DEF TakeOut, RegisteredIsDriven, DeletedIsMade
    <3>4. /\ rem'[d].by = "gone" /\ rem'[d].pc = "stop"
          /\ \A x \in Ctl \ {d} : rem'[x] = rem[x]
      BY <1>0, <2>2, <3>2 DEF TakeOut, TakenOut
    <3>5. RemovalSteps(d) BY <3>3, <3>4 DEF RemovalSteps, ByDelete
    <3> QED BY <1>2, <3>4, <3>5
  <2> QED BY <1>6, <2>1, <2>2 DEF RunGoneCallback
<1>7. ASSUME NEW c \in Ctl, DeleteCheck(c) PROVE Moved
  <2>1. PICK pc : /\ RemGoto(c, pc)
                  /\ \/ pc = "done" /\ ctl[c].state = "failed"
                     \/ pc = "fence"
                     \/ pc = "control" /\ (ctl[c].key \notin Persistent)
    <3>1. CASE ctl[c].state = "failed"
      BY <1>7, <3>1 DEF DeleteCheck
    <3>2. CASE ctl[c].state # "failed" /\ ctl[c].key \in Persistent
      BY <1>7, <3>2 DEF DeleteCheck
    <3>3. CASE ctl[c].state # "failed" /\ ctl[c].key \notin Persistent
      BY <1>7, <3>3 DEF DeleteCheck
    <3> QED BY <3>1, <3>2, <3>3
  <2> QED BY <1>3, <1>7, <2>1, RemGotoEffect DEF DeleteCheck, DeletionSteps
<1>8. ASSUME NEW c \in Ctl, ReleaseList(c) PROVE Moved
  <2>1. CASE RemGoto(c, "control") /\ Fault
    BY <1>3, <1>8, <2>1, RemGotoEffect, FaultCounts DEF ReleaseList, DeletionSteps
  <2>2. CASE rem' = [rem EXCEPT ![c] = RemAt(c, "revoke", VolumeTokens(ctl[c].key))]
    <3>1. /\ \A d \in Ctl \ {c} : rem'[d] = rem[d]
          /\ rem'[c].pc = "revoke"
          /\ rem'[c].by = rem[c].by
          /\ rem'[c].saw = VolumeTokens(ctl[c].key)
      BY <1>0, <2>2 DEF RemAt
    <3>2. DeletionSteps(c)
      BY <1>8, <3>1 DEF ReleaseList, DeletionSteps, envVars
    <3> QED BY <1>2, <3>1, <3>2 DEF RemovalSteps, ByDelete
  <2> QED BY <1>8, <2>1, <2>2 DEF ReleaseList
<1>9. ASSUME NEW c \in Ctl, ReleaseRevoke(c) PROVE Moved
  BY <1>3, <1>9, RemGotoEffect, FaultCounts DEF ReleaseRevoke, DeletionSteps
<1>10. ASSUME NEW c \in Ctl, DeleteDevice(c) PROVE Moved
  BY <1>3, <1>10, RemGotoEffect DEF DeleteDevice, DeletionSteps
<1>11. ASSUME NEW c \in Ctl, DeleteVM(c) PROVE Moved
  BY <1>3, <1>11, RemGotoEffect, FaultCounts DEF DeleteVM, DeletionSteps
<1>12. ASSUME NEW c \in Ctl, StopCancel(c) PROVE Moved
  <2>1. PICK pc \in {"wait", "done"} : RemGoto(c, pc) BY <1>12 DEF StopCancel
  <2> QED BY <1>3, <1>12, <2>1, RemGotoEffect DEF StopCancel, DeletionSteps
<1>13. ASSUME NEW c \in Ctl, StopReturns(c) PROVE Moved
  BY <1>3, <1>13, RemGotoEffect DEF StopReturns, DeletionSteps
<1>14. ASSUME ShutdownBegin PROVE Moved
  <2>1. \A c \in Ctl : \/ rem'[c] = rem[c]
                       \/ rem'[c].by = "shutdown" /\ rem'[c].pc = "queued"
    BY <1>14 DEF ShutdownBegin, TakenOut
  <2> QED BY <2>1 DEF RemovalSteps, ByDelete
<1>15. ASSUME NEW c \in Ctl, ShutdownStop(c) PROVE Moved
  <2>1. ~ByDelete(c) BY <1>15 DEF ShutdownStop, Queued, DeletedIsMade
  <2> QED BY <1>2, <1>15, <2>1, RemGotoEffect DEF ShutdownStop, RemovalSteps, ByDelete
<1>16. ASSUME Crash PROVE Moved
  BY <1>16 DEF Crash, NotRemoved, RemovalSteps, ByDelete
<1> HIDE DEF Moved
<1>17. ASSUME NEW c \in Ctl, CreateGoroutine(c) PROVE Moved
  BY <1>1, <1>17 DEF CreateGoroutine, AcquireList, AcquireRevoke, AcquireMint,
                     Provision, CreateSucceeded, CreateFailed
<1>18. ASSUME NEW c \in Ctl, RemoveGoroutine(c) PROVE Moved
  BY <1>7, <1>8, <1>9, <1>10, <1>11, <1>12, <1>13, <1>18 DEF RemoveGoroutine
<1>19. ASSUME NEW c \in Ctl, Monitor(c) PROVE Moved
  BY <1>1, <1>19 DEF Monitor, ReadPeers, PeerAbsent, PeerPresent, MonitorExits
<1>20. CASE Discovery
  BY <1>1, <1>20 DEF Discovery, DiscoverList, DiscoverSkipTracked, DiscoverIdentity,
                     DiscoverRegister
<1>21. CASE Shutdown
  BY <1>1, <1>15, <1>21 DEF Shutdown, ShutdownNext, ShutdownReturns
<1>22. CASE Environment \/ UNCHANGED vars
  BY <1>1, <1>22 DEF Environment, Boot, OtherCreates, Lost, DeviceExpires, vars
<1>23. ASSUME NEW k \in Keys, CreateInstance(k) \/ CreateRejected(k) PROVE Moved
  BY <1>1, <1>23 DEF CreateInstance, CreateRejected
<1> QED
  BY <1>4, <1>5, <1>6, <1>14, <1>16, <1>17, <1>18, <1>19, <1>20, <1>21, <1>22, <1>23
     DEF Next

(* What the two theorems about DeleteInstance rest on.                     *)
Deletions == FailureIsFault /\ DeletedIsMade /\ TokenGoes /\ HasVM

(* The facts above, together.                                              *)
Steps == /\ faults' = 0 => faults = 0
         /\ VMsKept /\ TokensKept /\ NewKeeps
         /\ \A c \in Ctl : CreationSteps(c) /\ RemovalSteps(c)
         /\ \A c \in Ctl : c \in Registered' => c \in Registered \/ c = next

LEMMA NextSteps == IInv /\ DeletedIsMade /\ [Next]_vars => Steps
BY FaultsGrow, VMsAreKept, TokensAreKept, ControllersKept, CreationMoves,
   RemovalMoves, OnlyNewRegistered DEF IInv, Core, Steps

(* An existing controller keeps what DeleteInstance read of it.            *)
LEMMA ExistingKept ==
  ASSUME IInv, NewKeeps, NEW c \in Ctl,
         ByDelete(c) \/ c \in Registered \/ crt[c].pc # "none"
  PROVE  Keeps(c) /\ c # next
<1>1. c # next
  <2> SUFFICES ASSUME c = next PROVE FALSE OBVIOUS
  <2>1. c >= next BY DEF Ctl
  <2>2. crt[c] = NotYet /\ rem[c] = NotRemoved
    BY <2>1 DEF IInv, Core, Fresh
  <2>3. crt[c].pc = "none" /\ rem[c].by = "none"
    BY <2>2 DEF NotYet, NotRemoved
  <2>4. c \in Registered BY <2>3 DEF ByDelete
  <2>5. c < next BY <2>4, RegisteredAllocated DEF IInv
  <2> QED BY <2>1, <2>5 DEF IInv, TypeOK, Ctl
<1> QED BY <1>1 DEF NewKeeps

(* The controller a step creates has no goroutine and no entry before it.  *)
LEMMA NextIsNew ==
  ASSUME IInv, next \in Ctl
  PROVE  /\ crt[next].pc = "none" /\ rem[next].by = "none"
         /\ ctl[next].key = None /\ ctl[next].state = "idle"
         /\ vm[next] = "none"
<1>1. next >= next BY DEF Ctl
<1>2. /\ crt[next] = NotYet /\ rem[next] = NotRemoved
      /\ ctl[next] = NewController(None) /\ vm[next] = "none"
  BY <1>1 DEF IInv, Core, Fresh, NoVM
<1> QED BY <1>2 DEF NotYet, NotRemoved, NewController

LEMMA FailurePreserved ==
  ASSUME IInv, FailureIsFault, Steps, faults' \in Nat PROVE FailureIsFault'
<1> SUFFICES ASSUME NEW c \in Ctl, crt'[c].pc = "failing" \/ ctl'[c].state = "failed",
                    faults' = 0
             PROVE  FALSE
  BY DEF FailureIsFault
<1>1. faults = 0 /\ crt[c].pc # "failing" /\ ctl[c].state # "failed"
  BY DEF Steps, FailureIsFault
<1>2. crt'[c].pc # "failing"
  BY <1>1 DEF Steps, CreationSteps
<1>3. CASE Keeps(c) BY <1>1, <1>2, <1>3 DEF Keeps
<1>4. CASE ~Keeps(c) BY <1>2, <1>4 DEF Steps, NewKeeps
<1> QED BY <1>3, <1>4

LEMMA MadePreserved ==
  ASSUME IInv, DeletedIsMade, Steps PROVE DeletedIsMade'
<1> SUFFICES ASSUME NEW c \in Ctl, ByDelete(c)'
             PROVE  /\ rem'[c].pc \notin {"none", "queued"}
                    /\ Deleted(c)' => ~Creating(c)'
  <2>1. ASSUME NEW c \in Ctl,
               rem'[c].pc \in {"removed", "fence", "revoke", "control", "cloud"}
        PROVE  ByDelete(c)'
    BY <2>1 DEF Steps, RemovalSteps, Unregisters, DeletionSteps, DeletedIsMade, ByDelete
  <2> QED BY <2>1 DEF DeletedIsMade, Deleted, ByDelete
<1>1. CASE Unregisters(c)
  BY <1>1 DEF Unregisters, UnderWay, Deleted, Creating
<1>2. CASE ~Unregisters(c)
  <2>1. /\ rem'[c] = rem[c] \/ DeletionSteps(c)
        /\ rem[c].by = rem'[c].by
    BY <1>2 DEF Steps, RemovalSteps
  <2>2. ByDelete(c) /\ rem[c].pc \notin {"none", "queued"}
    BY <2>1 DEF ByDelete, DeletedIsMade
  <2>3. rem'[c].pc \notin {"none", "queued"}
    BY <2>1, <2>2 DEF DeletionSteps
  <2>4. Keeps(c) /\ c # next BY <2>2, ExistingKept DEF Steps
  <2>5. Deleted(c)' => ~Creating(c)
    BY <2>1, <2>4 DEF Keeps, Deleted, DeletedIsMade
  <2>6. ~Creating(c) => ~Creating(c)'
    BY <2>4 DEF Steps, CreationSteps, Creating
  <2> QED BY <2>3, <2>5, <2>6
<1> QED BY <1>1, <1>2

LEMMA TokenPreserved ==
  ASSUME IInv, FailureIsFault, DeletedIsMade, TokenGoes, Steps PROVE TokenGoes'
<1> SUFFICES ASSUME NEW c \in Ctl, Deleted(c)'
             PROVE  /\ (rem'[c].pc = "revoke" /\ c \in tokens') => c \in rem'[c].saw
                    /\ (rem'[c].pc \notin {"removed", "fence", "revoke"} /\ faults' = 0)
                           => c \notin tokens'
  BY DEF TokenGoes
<1>1. CASE Unregisters(c) BY <1>1 DEF Unregisters
<1>2. CASE ~Unregisters(c)
  <2>1. rem[c].by = "delete" /\ (rem'[c] = rem[c] \/ DeletionSteps(c))
    BY <1>2 DEF Steps, RemovalSteps, Deleted, ByDelete
  <2>2. ctl'[c].key = ctl[c].key
    BY <2>1, ExistingKept DEF Steps, Keeps, ByDelete
  <2>3. Deleted(c) /\ ~Creating(c)
    BY <2>1, <2>2 DEF Deleted, DeletedIsMade
  <2>4. c \in tokens' => c \in tokens
    BY <2>3 DEF Steps, TokensKept
  <2>5. CASE rem'[c] = rem[c]
    BY <2>3, <2>4, <2>5 DEF Steps, TokenGoes
  <2>6. CASE DeletionSteps(c)
    <3>1. ctl[c].state = "failed" => faults # 0 /\ faults' # 0
      BY DEF FailureIsFault, Steps
    <3>2. c \in tokens => c \in VolumeTokens(ctl[c].key)
      BY DEF VolumeTokens
    <3>3. /\ (rem[c].pc = "revoke" /\ c \in tokens) => c \in rem[c].saw
          /\ (rem[c].pc \notin {"removed", "fence", "revoke"} /\ faults' = 0)
                => c \notin tokens
      BY <2>3 DEF TokenGoes, Steps
    <3>4. ctl[c].key \in Persistent BY <2>3 DEF Deleted
    <3>5. faults' > 0 => faults' # 0 OBVIOUS
    <3> QED BY <2>4, <2>6, <3>1, <3>2, <3>3, <3>4, <3>5 DEF DeletionSteps
  <2> QED BY <2>1, <2>5, <2>6
<1> QED BY <1>1, <1>2

LEMMA HasVMPreserved ==
  ASSUME IInv, FailureIsFault, DeletedIsMade, HasVM, Steps PROVE HasVM'
<1>0. Ctl \subseteq VMs BY DEF VMs
<1>1. ASSUME NEW c \in Ctl, crt'[c].pc = "launched" PROVE vm'[c] # "none"
  <2>1. CASE crt'[c] = crt[c]
    BY <1>0, <1>1, <2>1 DEF HasVM, Steps, VMsKept
  <2> QED BY <1>1, <2>1 DEF Steps, CreationSteps
<1>2. ASSUME NEW c \in Ctl, c \in Registered' \/ ByDelete(c)',
             crt'[c].pc = "done", faults' = 0
      PROVE  vm'[c] # "none"
  <2>1. \/ reg' # [k \in Keys |-> None] /\ c \in Registered'
        \/ ByDelete(c)' /\ (rem'[c] # NotRemoved)
    BY <1>2, IdAssumption DEF Registered, Ctl, ByDelete, NotRemoved
  <2>2. crt[c].pc \in {"launched", "done"} \/ crt[c].pc = "failing"
    BY <1>2, <2>1 DEF Steps, CreationSteps
  <2>3. faults = 0 /\ crt[c].pc # "failing"
    BY <1>2 DEF Steps, FailureIsFault
  <2>4. c # next
    BY <2>2, ExistingKept DEF Steps
  <2>5. c \in Registered \/ ByDelete(c)
    BY <1>2, <2>4 DEF Steps, RemovalSteps, Unregisters, ByDelete
  <2>6. vm[c] # "none" BY <2>2, <2>3, <2>5 DEF HasVM
  <2> QED BY <1>0, <2>6 DEF Steps, VMsKept
<1> QED BY <1>1, <1>2 DEF HasVM

LEMMA DeletionsInductive == Spec => [](IInv /\ Deletions)
<1>1. Init => Deletions
  <2> SUFFICES ASSUME Init PROVE Deletions OBVIOUS
  <2>1. \A c \in Ctl : /\ crt[c].pc = "none" /\ rem[c].by = "none"
                       /\ rem[c].pc = "none" /\ ctl[c].state = "idle"
                       /\ c \notin Registered
    BY IdAssumption DEF Init, NotYet, NotRemoved, NewController, Registered, Ctl
  <2> QED BY <2>1 DEF Deletions, FailureIsFault, DeletedIsMade, TokenGoes, HasVM,
                      ByDelete, Deleted, Creating
<1>2. IInv /\ Deletions /\ [Next]_vars => Deletions'
  <2> SUFFICES ASSUME IInv, Deletions, [Next]_vars PROVE Deletions' OBVIOUS
  <2>1. Steps BY NextSteps DEF Deletions
  <2>2. faults' \in Nat BY FaultsGrow DEF IInv
  <2> QED BY <2>1, <2>2, FailurePreserved, MadePreserved, TokenPreserved,
             HasVMPreserved DEF Deletions
<1> QED BY Inductive, <1>1, <1>2, PTL DEF Spec

(* "Instant fencing": once DeleteInstance of a persistent instance that    *)
(* was complete goes on to its device and VM, its R2 token is dead and     *)
(* stays dead, as long as no call fails.  That includes tokens of a        *)
(* creation which ended just before, and holds however many controllers    *)
(* of the same name come after (registry.go:248-254, r2.go:90-142).        *)
THEOREM Fenced == Spec => []RunningIsFenced
<1>1. Deletions => RunningIsFenced
  BY DEF Deletions, TokenGoes, RunningIsFenced, PastFence, Deleted
<1> QED BY DeletionsInductive, <1>1, PTL

(* DeleteInstance of a complete instance, of any service, leaves its VM    *)
(* gone once it has been to the cloud, if the provider lists the VM under  *)
(* its Tailscale hostname, no call failed and no other VM was listed under *)
(* that name (registry.go:216-265).                                        *)
THEOREM DeletedIsGone == Spec => DeleteRemovesVM
<1>1. ASSUME IInv, Deletions, [Next]_vars, NEW c \in Ctl,
             rem[c].pc = "cloud", rem'[c].pc = "stop", crt[c].pc = "done",
             ListedAs[ctl[c].key] = ctl[c].key, OnlyVM(c), faults' = 0
      PROVE  vm'[c] = "gone"
  <2>0. /\ Ctl \subseteq VMs /\ Ctl \cap Others = {}
        /\ vm \in [VMs -> {"none", "booting", "up", "gone"}]
    BY <1>1, IdAssumption DEF VMs, Ctl, IInv, TypeOK
  <2>1. Steps BY <1>1, NextSteps DEF Deletions
  <2>2. ByDelete(c) /\ ByDelete(c)'
    BY <1>1, <2>1 DEF Deletions, DeletedIsMade, Steps, RemovalSteps, Unregisters,
                      DeletionSteps, ByDelete
  <2>3. vm[c] # "none"
    BY <1>1, <2>1, <2>2 DEF Deletions, HasVM, Steps
  <2>4. \/ \E v \in Listed(ctl[c].key) : vm' = [vm EXCEPT ![v] = "gone"]
        \/ Listed(ctl[c].key) = {} /\ UNCHANGED vm
    BY <1>1, <2>1, <2>2 DEF Steps, RemovalSteps, Unregisters, DeletionSteps, ByDelete
  <2>5. KeyOf(c) = ctl[c].key BY <2>0 DEF KeyOf
  <2>6. \A v \in Listed(ctl[c].key) : v = c
    BY <1>1 DEF Listed, InCloud, OnlyVM
  <2>7. CASE vm[c] = "gone"
    BY <2>0, <2>4, <2>6, <2>7
  <2>8. CASE vm[c] # "gone"
    <3>1. c \in Listed(ctl[c].key)
      BY <1>1, <2>0, <2>3, <2>5, <2>8 DEF Listed, InCloud
    <3> QED BY <2>0, <2>4, <2>6, <3>1
  <2> QED BY <2>7, <2>8
<1> DEFINE Gone(c) == (/\ rem[c].pc = "cloud" /\ rem'[c].pc = "stop"
                       /\ crt[c].pc = "done" /\ ListedAs[ctl[c].key] = ctl[c].key
                       /\ OnlyVM(c) /\ faults' = 0) => vm'[c] = "gone"
<1>2. IInv /\ Deletions /\ [Next]_vars => [\A c \in Ctl : Gone(c)]_vars
  BY <1>1
<1> QED BY DeletionsInductive, <1>2, PTL DEF Spec, DeleteRemovesVM

-----------------------------------------------------------------------------
(* What Stop and Shutdown wait for.                                        *)

(* A started controller has its monitor; whom Shutdown took out waits for  *)
(* its turn, has it, or is cancelled and done.                             *)
StopsInOrder == \A c \in Ctl :
    /\ ctl[c].started => ctl[c].mon # "off"
    /\ rem[c].pc = "wait" => ctl[c].started /\ ctl[c].cancelled
    /\ rem[c].by = "shutdown" =>
         /\ rem[c].pc \in {"queued", "stop", "wait", "done"}
         /\ rem[c].pc = "done" => ctl[c].cancelled
         /\ rem[c].pc # "done" => /\ shut.pc = "stopping"
                                  /\ rem[c].pc = "queued" \/ shut.cur = c
    /\ rem[c].pc = "queued" => rem[c].by = "shutdown"
    /\ shut.cur = c => /\ shut.pc = "stopping"
                       /\ rem[c].by = "shutdown" /\ rem[c].pc # "queued"

(* A controller changes, and stays started, monitored and cancelled.       *)
StaysStopped(c) ==
    /\ ctl[c].started => ctl'[c].started
    /\ ctl[c].cancelled => ctl'[c].cancelled
    /\ ctl'[c].started => ctl'[c].mon # "off"

LEMMA ControllersMove ==
  ASSUME StopsInOrder, UNCHANGED <<rem, shut>>,
         \A c \in Ctl : StaysStopped(c) \/ (/\ rem[c] = NotRemoved /\ shut.cur # c
                                            /\ ctl'[c].started => ctl'[c].mon # "off")
  PROVE  StopsInOrder'
BY DEF StopsInOrder, StaysStopped, NotRemoved

(* A controller that nobody removed is taken out. *)
LEMMA TakenOutInOrder ==
  ASSUME TypeOK, Core, StopsInOrder, NEW k \in Keys, NEW pc, NEW by,
         TakeOut(k, pc, by), pc \notin {"wait", "queued"}, by # "shutdown",
         UNCHANGED <<ctl, shut>>
  PROVE  StopsInOrder'
<1>1. /\ reg[k] \in Ctl /\ rem[reg[k]].pc = "none"
      /\ rem' = [rem EXCEPT ![reg[k]] = TakenOut(pc, by)]
      /\ TakenOut(pc, by).pc = pc /\ TakenOut(pc, by).by = by
  BY DEF TakeOut, TakenOut, Core, RegisteredIsDriven, TypeOK
<1>2. PICK d \in Ctl : d = reg[k] BY <1>1
<1>3. shut.cur # d BY <1>1, <1>2 DEF StopsInOrder
<1> QED BY <1>1, <1>2, <1>3 DEF StopsInOrder, TypeOK

(* A goroutine goes on with its removal, but for its last two steps. *)
LEMMA RemovalInOrder ==
  ASSUME TypeOK, StopsInOrder, NEW c \in Ctl, NEW r,
         rem' = [rem EXCEPT ![c] = r], r.by = rem[c].by,
         rem[c].pc \in {"removed", "fence", "revoke", "control", "cloud"},
         r.pc \notin {"wait", "queued"}, UNCHANGED <<ctl, shut>>
  PROVE  StopsInOrder'
<1>1. rem[c].by # "shutdown" /\ shut.cur # c BY DEF StopsInOrder
<1> QED BY <1>1 DEF StopsInOrder, TypeOK

LEMMA StopInOrder ==
  ASSUME TypeOK, StopsInOrder, NEW c \in Ctl, StopCancel(c) \/ StopReturns(c)
  PROVE  StopsInOrder'
<1>0. rem \in [Ctl -> Removal] /\ ctl \in [Ctl -> Controller] BY DEF TypeOK
<1>1. CASE StopCancel(c)
  <2> DEFINE r == RemAt(c, IF ctl[c].started THEN "wait" ELSE "done", {})
             a == [ctl[c] EXCEPT !.cancelled = TRUE]
  <2>1. /\ r.by = rem[c].by /\ r.pc = IF ctl[c].started THEN "wait" ELSE "done"
        /\ a.cancelled /\ a.started = ctl[c].started /\ a.mon = ctl[c].mon
    BY <1>0 DEF RemAt, Controller
  <2>2. /\ rem[c].pc = "stop"
        /\ rem' = [rem EXCEPT ![c] = r] /\ ctl' = [ctl EXCEPT ![c] = a]
        /\ UNCHANGED shut
    BY <1>0, <1>1 DEF StopCancel, RemGoto
  <2> HIDE DEF r, a
  <2>3. /\ \A d \in Ctl \ {c} : rem'[d] = rem[d] /\ ctl'[d] = ctl[d]
        /\ rem'[c] = r /\ ctl'[c] = a
    BY <1>0, <2>2
  <2> QED BY <2>1, <2>2, <2>3 DEF StopsInOrder
<1>2. CASE StopReturns(c)
  <2> DEFINE r == RemAt(c, "done", {})
  <2>1. r.by = rem[c].by /\ r.pc = "done" BY DEF RemAt
  <2>2. /\ rem[c].pc = "wait" /\ rem' = [rem EXCEPT ![c] = r]
        /\ UNCHANGED <<ctl, shut>>
    BY <1>2 DEF StopReturns, RemGoto, ctlVars
  <2> HIDE DEF r
  <2>3. rem'[c] = r /\ \A d \in Ctl \ {c} : rem'[d] = rem[d] BY <1>0, <2>2
  <2> QED BY <2>1, <2>2, <2>3 DEF StopsInOrder
<1> QED BY <1>1, <1>2

LEMMA ShutdownInOrder ==
  ASSUME TypeOK, Core, StopsInOrder, ShutdownBegin \/ Shutdown
  PROVE  StopsInOrder'
<1>0. /\ rem \in [Ctl -> Removal] /\ shut.cur \in Ctl \cup {None}
      /\ None \notin Ctl
      /\ DOMAIN shut = {"pc", "cur"} /\ shut = [pc |-> shut.pc, cur |-> shut.cur]
  BY IdAssumption DEF TypeOK, Ctl
<1>1. CASE ShutdownBegin
  <2> DEFINE q == TakenOut("queued", "shutdown")
  <2>1. /\ rem' = [c \in Ctl |-> IF c \in Registered THEN q ELSE rem[c]]
        /\ shut.pc = "no" /\ shut'.pc = "stopping" /\ shut'.cur = shut.cur
        /\ UNCHANGED ctl
    BY <1>0, <1>1 DEF ShutdownBegin
  <2>2. q.pc = "queued" /\ q.by = "shutdown" BY DEF TakenOut
  <2> HIDE DEF q
  <2>3. \A c \in Ctl : shut'.cur # c BY <2>1 DEF StopsInOrder
  <2> QED BY <2>1, <2>2, <2>3 DEF StopsInOrder
<1>2. ASSUME NEW c \in Ctl, ShutdownStop(c) PROVE StopsInOrder'
  <2> DEFINE r == RemAt(c, "stop", {})
  <2>1. /\ shut.pc = "stopping" /\ shut.cur = None /\ rem[c].pc = "queued"
        /\ rem' = [rem EXCEPT ![c] = r]
        /\ shut'.pc = "stopping" /\ shut'.cur = c
        /\ UNCHANGED ctl
    BY <1>0, <1>2 DEF ShutdownStop, Queued, RemGoto, ctlVars
  <2>2. r.pc = "stop" /\ r.by = rem[c].by BY DEF RemAt
  <2> HIDE DEF r
  <2>3. rem'[c] = r /\ \A d \in Ctl \ {c} : rem'[d] = rem[d] BY <1>0, <2>1
  <2>4. \A d \in Ctl : shut.cur # d BY <1>0, <2>1
  <2> QED BY <2>1, <2>2, <2>3, <2>4 DEF StopsInOrder
<1>3. CASE ShutdownNext
  <2>1. /\ shut.cur \in Ctl /\ rem[shut.cur].pc = "done"
        /\ shut'.pc = shut.pc /\ shut'.cur = None
        /\ UNCHANGED <<ctl, rem>>
    BY <1>0, <1>3 DEF ShutdownNext, ctlVars
  <2>2. \A d \in Ctl : shut'.cur # d BY <1>0, <2>1
  <2> QED BY <2>1, <2>2 DEF StopsInOrder
<1>4. CASE ShutdownReturns
  <2>1. /\ shut.cur = None /\ \A c \in Ctl : rem[c].pc # "queued"
        /\ shut'.cur = None
        /\ UNCHANGED <<ctl, rem>>
    BY <1>0, <1>4 DEF ShutdownReturns, Queued, ctlVars
  <2>2. \A d \in Ctl : shut.cur # d /\ shut'.cur # d BY <1>0, <2>1
  <2>3. \A d \in Ctl : rem[d].by = "shutdown" => rem[d].pc = "done"
    BY <2>1, <2>2 DEF StopsInOrder
  <2> QED BY <2>1, <2>2, <2>3 DEF StopsInOrder
<1> QED BY <1>1, <1>2, <1>3, <1>4 DEF Shutdown

LEMMA OrderPreserved == IInv /\ StopsInOrder /\ [Next]_vars => StopsInOrder'
<1> SUFFICES ASSUME IInv, StopsInOrder, [Next]_vars PROVE StopsInOrder' OBVIOUS
<1>0. /\ TypeOK /\ Core /\ Fresh /\ Phases
      /\ ctl \in [Ctl -> Controller] /\ rem \in [Ctl -> Removal]
      /\ next \in 1 .. MaxCtl + 1 /\ None \notin Ctl
  BY IdAssumption DEF IInv, Core, TypeOK, Ctl
<1>1. ASSUME UNCHANGED <<ctl, rem, shut>> PROVE StopsInOrder'
  BY <1>1 DEF StopsInOrder
<1>2. ASSUME NEW c \in Ctl, NEW r, ctl' = [ctl EXCEPT ![c] = r], UNCHANGED <<rem, shut>>,
             ctl[c].started => r.started, ctl[c].cancelled => r.cancelled,
             r.started => r.mon # "off"
      PROVE  StopsInOrder'
  <2>1. \A d \in Ctl : StaysStopped(d)
    BY <1>0, <1>2 DEF StaysStopped, StopsInOrder
  <2> QED BY <1>2, <2>1, ControllersMove
<1>3. ASSUME next \in Ctl, NEW r, ctl' = [ctl EXCEPT ![next] = r], UNCHANGED <<rem, shut>>,
             r.started => r.mon # "off"
      PROVE  StopsInOrder'
  <2>1. \A d \in Ctl \ {next} : StaysStopped(d)
    BY <1>0, <1>3 DEF StaysStopped, StopsInOrder
  <2>2. PICK n \in Ctl : n = next BY <1>3
  <2>3. rem[n] = NotRemoved BY <1>0, <2>2 DEF Fresh, Ctl
  <2>4. shut.cur # n BY <2>3 DEF StopsInOrder, NotRemoved
  <2>5. ctl'[n] = r BY <1>0, <1>3, <2>2
  <2> QED BY <1>3, <2>1, <2>2, <2>3, <2>4, <2>5, ControllersMove
<1>4. ASSUME NEW k \in Keys, CreateInstance(k) PROVE StopsInOrder'
  <2> DEFINE r == [NewController(k) EXCEPT !.state = "launching"]
  <2>1. ~r.started /\ next \in Ctl
    BY <1>0, <1>4, BoundAssumption DEF NewController, CreateInstance, Ctl
  <2>2. ctl' = [ctl EXCEPT ![next] = r] /\ UNCHANGED <<rem, shut>>
    BY <1>4 DEF CreateInstance
  <2> HIDE DEF r
  <2> QED BY <1>3, <2>1, <2>2
<1>5. ASSUME NEW k \in Keys, CreateRejected(k) \/ UserDelete(k) PROVE StopsInOrder'
  <2>1. CASE CreateRejected(k) BY <1>1, <2>1 DEF CreateRejected
  <2>2. CASE UserDelete(k)
    <3>1. \E by \in {"cancel", "delete"} : TakeOut(k, "removed", by)
      BY <2>2 DEF UserDelete, Unregister
    <3> QED BY <1>0, <2>2, <3>1, TakenOutInOrder DEF UserDelete
  <2> QED BY <1>5, <2>1, <2>2
<1>6. ASSUME NEW c \in Ctl, CreateGoroutine(c) PROVE StopsInOrder'
  <2>1. CASE AcquireList(c) \/ AcquireRevoke(c) \/ AcquireMint(c) \/ Provision(c)
    BY <1>1, <2>1 DEF AcquireList, AcquireRevoke, AcquireMint, Provision, ctlVars
  <2>2. CASE CreateSucceeded(c)
    <3> DEFINE r == [ctl[c] EXCEPT !.started = TRUE, !.mon = "select"]
    <3>1. r.started /\ r.mon = "select" /\ r.cancelled = ctl[c].cancelled
      BY <1>0 DEF Controller
    <3>2. ctl' = [ctl EXCEPT ![c] = r] /\ UNCHANGED <<rem, shut>>
      BY <1>0, <2>2 DEF CreateSucceeded
    <3> HIDE DEF r
    <3> QED BY <1>2, <3>1, <3>2
  <2>3. CASE CreateFailed(c)
    <3> DEFINE r == SetFailed(ctl[c])
    <3>1. r.started = ctl[c].started /\ r.mon = ctl[c].mon /\ r.cancelled
      BY <1>0 DEF Controller, SetFailed
    <3>2. ctl' = [ctl EXCEPT ![c] = r] /\ UNCHANGED <<rem, shut>>
      BY <1>0, <2>3 DEF CreateFailed
    <3>3. ctl[c].started => ctl[c].mon # "off" BY DEF StopsInOrder
    <3> HIDE DEF r
    <3> QED BY <1>2, <3>1, <3>2, <3>3
  <2> QED BY <1>6, <2>1, <2>2, <2>3 DEF CreateGoroutine
<1>7. ASSUME NEW c \in Ctl, RemoveGoroutine(c) PROVE StopsInOrder'
  <2>1. CASE DeleteCheck(c) \/ ReleaseList(c) \/ ReleaseRevoke(c)
             \/ DeleteDevice(c) \/ DeleteVM(c)
    <3>1. /\ \E pc, saw : /\ rem' = [rem EXCEPT ![c] = RemAt(c, pc, saw)]
                          /\ pc \notin {"wait", "queued"}
          /\ rem[c].pc \in {"removed", "fence", "revoke", "control", "cloud"}
          /\ UNCHANGED <<ctl, shut>>
      BY <2>1 DEF DeleteCheck, ReleaseList, ReleaseRevoke, DeleteDevice, DeleteVM,
                  RemGoto, ctlVars
    <3>2. PICK pc, saw : /\ rem' = [rem EXCEPT ![c] = RemAt(c, pc, saw)]
                         /\ pc \notin {"wait", "queued"}
      BY <3>1
    <3> DEFINE r == RemAt(c, pc, saw)
    <3>3. r.pc = pc /\ r.by = rem[c].by BY DEF RemAt
    <3>4. rem' = [rem EXCEPT ![c] = r] BY <3>2
    <3> HIDE DEF r
    <3> QED BY <1>0, <3>1, <3>2, <3>3, <3>4, RemovalInOrder
  <2> QED BY <1>0, <1>7, <2>1, StopInOrder DEF RemoveGoroutine
<1>8. ASSUME NEW c \in Ctl, Monitor(c) PROVE StopsInOrder'
  <2>1. ctl[c] \in Controller BY <1>0
  <2> DEFINE Checked(r) == /\ ctl' = [ctl EXCEPT ![c] = r]
                           /\ r.started = ctl[c].started
                           /\ r.cancelled = ctl[c].cancelled
                           /\ r.mon # "off"
  <2>2. \E r : Checked(r)
    <3>1. CASE ReadPeers(c) \/ MonitorExits(c)
      <4>1. PICK m \in {"present", "absent", "exited"} : ctl' = [ctl EXCEPT ![c].mon = m]
        BY <3>1 DEF ReadPeers, MonitorExits
      <4> DEFINE r == [ctl[c] EXCEPT !.mon = m]
      <4>2. Checked(r) BY <2>1, <4>1 DEF Controller
      <4> QED BY <4>2
    <3>2. CASE PeerAbsent(c) \/ PeerPresent(c)
      <4> DEFINE a == [ctl[c] EXCEPT !.mon = "select", !.state = "idle"]
                 p == [ctl[c] EXCEPT !.mon = "select", !.state = "running"]
                 t == [ctl[c] EXCEPT !.mon = "select", !.state = "running",
                                     !.triggered = TRUE]
      <4>1. \A r \in {a, p, t} : /\ r.started = ctl[c].started
                                 /\ r.cancelled = ctl[c].cancelled
                                 /\ r.mon = "select"
        BY <2>1 DEF Controller
      <4>2. \/ ctl' = [ctl EXCEPT ![c] = a]
            \/ ctl' = [ctl EXCEPT ![c] = p]
            \/ ctl' = [ctl EXCEPT ![c] = t]
        BY <2>1, <3>2 DEF PeerAbsent, PeerPresent, Controller
      <4> HIDE DEF a, p, t
      <4> QED BY <4>1, <4>2
    <3> QED BY <1>8, <3>1, <3>2 DEF Monitor
  <2>3. UNCHANGED <<rem, shut>>
    BY <1>8 DEF Monitor, ReadPeers, PeerAbsent, PeerPresent, MonitorExits
  <2>4. PICK r : Checked(r) BY <2>2
  <2> QED BY <1>2, <2>3, <2>4
<1>9. ASSUME NEW c \in Ctl, RunIdleCallback(c) \/ RunGoneCallback(c) PROVE StopsInOrder'
  <2>1. ctl[c].key \in Keys
    BY <1>0, <1>9 DEF TypeOK, Fresh, RunIdleCallback, RunGoneCallback, Pending, Ctl
  <2>2. /\ \/ UNCHANGED rem
           \/ \E pc \in {"removed", "stop"}, by \in {"delete", "cancel", "gone"} :
                TakeOut(ctl[c].key, pc, by)
        /\ UNCHANGED <<ctl, shut>>
    BY <1>9 DEF RunIdleCallback, RunGoneCallback, Unregister
  <2> QED BY <1>0, <1>1, <2>1, <2>2, TakenOutInOrder
<1>10. CASE Discovery
  <2>1. CASE DiscoverRegister
    <3>1. CASE Free(disc.found)
      <4> DEFINE r == [NewController(disc.found) EXCEPT
                         !.state = "running", !.started = TRUE,
                         !.discovered = TRUE, !.mon = "select"]
      <4>1. r.mon = "select" BY DEF NewController
      <4>2. ctl' = [ctl EXCEPT ![next] = r] /\ UNCHANGED <<rem, shut>>
        BY <2>1, <3>1 DEF DiscoverRegister
      <4>3. next \in Ctl BY <1>0, <3>1, BoundAssumption DEF Free, Ctl
      <4> HIDE DEF r
      <4> QED BY <1>3, <4>1, <4>2, <4>3
    <3>2. CASE ~Free(disc.found)
      BY <1>1, <2>1, <3>2 DEF DiscoverRegister, ctlVars
    <3> QED BY <3>1, <3>2
  <2> QED BY <1>1, <1>10, <2>1 DEF Discovery, DiscoverList, DiscoverSkipTracked,
                                   DiscoverIdentity, ctlVars
<1>11. CASE Crash
  <2>1. /\ rem' = [c \in Ctl |-> NotRemoved]
        /\ shut'.cur = None
        /\ \A c \in Ctl : ctl'[c].started = ctl[c].started
                          /\ (ctl[c].mon # "off" => ctl'[c].mon # "off")
    BY <1>0, <1>11 DEF Crash, Controller
  <2>2. \A c \in Ctl : shut'.cur # c BY <1>0, <2>1
  <2> QED BY <2>1, <2>2 DEF StopsInOrder, NotRemoved
<1>12. CASE Environment \/ UNCHANGED vars
  BY <1>1, <1>12 DEF Environment, Boot, OtherCreates, Lost, DeviceExpires, ctlVars, vars
<1> QED BY <1>0, <1>4, <1>5, <1>6, <1>7, <1>8, <1>9, <1>10, <1>11, <1>12, ShutdownInOrder
        DEF Next

(* Nobody waits in vain: a waiting Stop has cancelled a controller whose   *)
(* monitor runs or has run, Shutdown waits for a Stop that is under way,   *)
(* and leaves nothing of what it took out running; for any keys, bounds    *)
(* and crashes, with every callback and deletion that races it.            *)
THEOREM NobodyWaitsInVain == Spec => []ShutdownStopsEntries
<1>1. Init => StopsInOrder
  BY IdAssumption DEF Init, StopsInOrder, NewController, NotRemoved, Ctl
<1>2. IInv /\ StopsInOrder => ShutdownStopsEntries
  <2> SUFFICES ASSUME IInv, StopsInOrder PROVE ShutdownStopsEntries OBVIOUS
  <2>1. shut.cur \in Ctl \cup {None} BY DEF IInv, TypeOK
  <2>2. shut.cur # None => rem[shut.cur].pc \in {"stop", "wait", "done"}
    <3>1. ASSUME NEW c \in Ctl, shut.cur = c PROVE rem[c].pc \in {"stop", "wait", "done"}
      BY <3>1 DEF StopsInOrder
    <3> QED BY <2>1, <3>1
  <2> QED BY <2>2 DEF ShutdownStopsEntries, StopsInOrder
<1> QED BY Inductive, OrderPreserved, <1>1, <1>2, PTL DEF Spec

=============================================================================
