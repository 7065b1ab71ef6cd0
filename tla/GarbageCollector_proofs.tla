----------------------- MODULE GarbageCollector_proofs -----------------------
(***************************************************************************)
(* Type correctness of the garbage collector, and the proof that it never  *)
(* deletes a live VM that the cloud lists under the hostname it registers  *)
(* with.                                                                   *)
(***************************************************************************)
EXTENDS GarbageCollector, TLAPS

(* Every step of a cycle stays in the record's type.                       *)
LEMMA CollectType ==
    ASSUME TypeOK, Collect
    PROVE  TypeOK'
<1> USE DEF TypeOK, world
<1>0. Idle \in Cycle
  BY DEF Idle, Cycle, Steps
<1>1. CASE ListDevices
  <2>1. DeviceHosts \subseteq Hosts
    BY HostAssumption DEF DeviceHosts
  <2>2. [Idle EXCEPT !.pc = "providers", !.hosts = DeviceHosts,
                     !.left = Providers] \in Cycle
    BY <2>1 DEF Idle, Cycle, Steps
  <2>3. gc' \in Cycle /\ elapsed' \in 0..CycleTime
    BY <1>1, <2>2, TimeAssumption DEF ListDevices
  <2>4. faults' \in 0..MaxFaults
    BY <1>1, BoundAssumption DEF ListDevices, Fault
  <2> QED
    BY <1>1, <2>3, <2>4 DEF ListDevices
<1>2. CASE NextProvider
  <2>1. PICK p \in gc.left :
             gc' = [gc EXCEPT !.pc = "listing", !.left = gc.left \ {p},
                              !.regions = {r \in Regions : ProviderOf[r] = p},
                              !.found = {}]
    BY <1>2 DEF NextProvider
  <2>2. {r \in Regions : ProviderOf[r] = p} \subseteq Regions
    OBVIOUS
  <2>3. gc' \in Cycle
    BY <2>1, <2>2 DEF Cycle, Steps
  <2> QED
    BY <1>2, <2>3 DEF NextProvider
<1>3. CASE CycleEnds
  BY <1>0, <1>3 DEF CycleEnds
<1>4. CASE ListRegion
  <2>1. PICK r \in gc.regions :
             \/ /\ gc' = [gc EXCEPT
                          !.regions = gc.regions \ {r},
                          !.found = gc.found \union
                              {v \in VMs : RegionOf[v] = r /\ InCloud(v)}]
                /\ UNCHANGED faults
             \/ /\ ListingFails
                /\ UNCHANGED faults \/ Fault
    BY <1>4 DEF ListRegion
  <2> DEFINE listed == {v \in VMs : RegionOf[v] = r /\ InCloud(v)}
  <2>2. gc' \in Cycle
    <3>1. listed \subseteq VMs
      OBVIOUS
    <3>2. CASE gc' = [gc EXCEPT !.regions = gc.regions \ {r},
                                !.found = gc.found \union listed]
      <4> HIDE DEF listed
      <4> QED
        BY <3>1, <3>2 DEF Cycle
    <3>3. CASE ListingFails
      BY <3>3 DEF ListingFails, Cycle, Steps
    <3> QED
      BY <2>1, <3>2, <3>3
  <2>3. faults' \in 0..MaxFaults
    BY <2>1, BoundAssumption DEF Fault
  <2> QED
    BY <1>4, <2>2, <2>3 DEF ListRegion
<1>5. CASE Listed
  BY <1>5 DEF Listed, Cycle, Steps
<1>6. CASE Check
  <2>1. PICK v \in gc.found :
             gc' = IF Known(v) \/ Young(v)
                   THEN [gc EXCEPT !.found = gc.found \ {v}]
                   ELSE [gc EXCEPT !.found = gc.found \ {v},
                                   !.pc = "deleting", !.target = v]
    BY <1>6 DEF Check
  <2>2. gc' \in Cycle
    BY <2>1 DEF Cycle, Steps
  <2> QED
    BY <1>6, <2>2 DEF Check
<1>7. CASE Checked
  BY <1>7 DEF Checked, Cycle, Steps
<1>8. CASE Delete
  <2>1. gc' \in Cycle
    BY <1>8 DEF Delete, Cycle, Steps
  <2>2. vm' \in [VMs -> Stages]
    BY <1>8 DEF Delete, Stages
  <2>3. faults' \in 0..MaxFaults
    BY <1>8, BoundAssumption DEF Delete, Fault
  <2> QED
    BY <1>8, <2>1, <2>2, <2>3 DEF Delete
<1> QED
  BY <1>1, <1>2, <1>3, <1>4, <1>5, <1>6, <1>7, <1>8 DEF Collect

(* The VMs, the clock and a restart keep the types.                        *)
LEMMA WorldType ==
    ASSUME TypeOK, Next, ~Collect
    PROVE  TypeOK'
<1> USE DEF TypeOK
<1>1. CASE Restart
  BY <1>1, BoundAssumption DEF Restart, Idle, Cycle, Steps
<1>2. CASE Tick
  <2>1. age' \in [VMs -> 0..Grace]
    BY <1>2, TimeAssumption DEF Tick
  <2>2. elapsed' \in 0..CycleTime
    BY <1>2, TimeAssumption DEF Tick
  <2> QED
    BY <1>2, <2>1, <2>2 DEF Tick
<1>3. ASSUME NEW v \in VMs, Create(v)
      PROVE  TypeOK'
  BY <1>3, TimeAssumption DEF Create, Stages
<1>4. ASSUME NEW v \in VMs, Boots(v) \/ DeviceDeleted(v) \/ VMDeleted(v)
                                \/ DeviceExpires(v)
      PROVE  TypeOK'
  BY <1>4 DEF Boots, DeviceDeleted, VMDeleted, DeviceExpires, Stages
<1> QED
  BY <1>1, <1>2, <1>3, <1>4 DEF Next

LEMMA TypeInductive ==
    ASSUME TypeOK, [Next]_vars
    PROVE  TypeOK'
<1>1. CASE UNCHANGED vars
  BY <1>1 DEF TypeOK, vars
<1> QED
  BY <1>1, CollectType, WorldType

LEMMA TypeInit == Init => TypeOK
BY TimeAssumption, BoundAssumption
   DEF Init, TypeOK, Stages, Idle, Cycle, Steps

(* Every variable keeps its type, and the counters their bounds.           *)
THEOREM TypeCorrect == Spec => []TypeOK
BY TypeInit, TypeInductive, PTL DEF Spec

-----------------------------------------------------------------------------
(***************************************************************************)
(* The inductive invariant.  NoListedLiveDeleted speaks of one step; what  *)
(* makes it true is that the VM picked for deletion was an orphan when it  *)
(* was picked (TargetIsOrphan) and orphans do not come back.  It was one   *)
(* because a live VM is either in the device snapshot or too young: a      *)
(* booting VM has not reached BootTime, and a VM that registered after the *)
(* snapshot is at most as much older as the cycle has lasted               *)
(* (UnseenIsYoung), and BootTime + CycleTime < Grace.                      *)
(***************************************************************************)
Ages == BootingIsYoung /\ UnseenIsYoung /\ UpHasDevice

LEMMA IInvInit == Init => IInv
BY TypeInit, TimeAssumption
   DEF Init, IInv, BootingIsYoung, UnseenIsYoung, UpHasDevice,
       FoundExists, TargetIsOrphan, Idle

(* The device snapshot names every VM that is up.                          *)
LEMMA SnapshotIsComplete ==
    ASSUME TypeOK, Ages, ListDevices
    PROVE  Ages'
<1> USE DEF Ages, BootingIsYoung, UnseenIsYoung, UpHasDevice, world
<1>1. CASE gc' = [Idle EXCEPT !.pc = "providers", !.hosts = DeviceHosts,
                              !.left = Providers]
  <2>1. gc'.hosts = DeviceHosts
    BY <1>1 DEF Idle
  <2>2. \A v \in VMs : vm[v] = "up" => HostOf[v] \in DeviceHosts
    BY DEF DeviceHosts
  <2>3. UNCHANGED <<vm, age, devices>>
    BY DEF ListDevices
  <2> QED
    BY <2>1, <2>2, <2>3
<1>2. CASE UNCHANGED <<gc, elapsed>>
  BY <1>2 DEF ListDevices
<1> QED
  BY <1>1, <1>2 DEF ListDevices

(* The other steps of a cycle keep the snapshot or end the cycle.          *)
LEMMA CycleKeepsAges ==
    ASSUME TypeOK, Ages, Collect, ~ListDevices
    PROVE  Ages'
<1> USE DEF Ages, BootingIsYoung, UnseenIsYoung, UpHasDevice, world
<1>1. gc \in Cycle
  BY DEF TypeOK
<1>2. CASE NextProvider
  <2>1. gc'.hosts = gc.hosts /\ gc.pc # "idle"
    BY <1>1, <1>2 DEF NextProvider, Cycle
  <2> QED
    BY <1>2, <2>1 DEF NextProvider
<1>3. CASE CycleEnds
  <2>1. gc'.pc = "idle"
    BY <1>3 DEF CycleEnds, Idle
  <2> QED
    BY <1>3, <2>1 DEF CycleEnds
<1>4. CASE ListRegion
  <2>1. gc'.hosts = gc.hosts /\ gc.pc # "idle"
    BY <1>1, <1>4 DEF ListRegion, ListingFails, Cycle
  <2> QED
    BY <1>4, <2>1 DEF ListRegion
<1>5. CASE Listed
  <2>1. gc'.hosts = gc.hosts /\ gc.pc # "idle"
    BY <1>1, <1>5 DEF Listed, Cycle
  <2> QED
    BY <1>5, <2>1 DEF Listed
<1>6. CASE Check
  <2>1. gc'.hosts = gc.hosts /\ gc.pc # "idle"
    BY <1>1, <1>6 DEF Check, Cycle
  <2> QED
    BY <1>6, <2>1 DEF Check
<1>7. CASE Checked
  <2>1. gc'.hosts = gc.hosts /\ gc.pc # "idle"
    BY <1>1, <1>7 DEF Checked, Cycle
  <2> QED
    BY <1>7, <2>1 DEF Checked
<1>8. CASE Delete
  <2>1. gc'.hosts = gc.hosts /\ gc.pc # "idle"
    BY <1>1, <1>8 DEF Delete, Cycle
  <2>2. \A v \in VMs : vm'[v] \in {"booting", "up"} => vm'[v] = vm[v]
    BY <1>8 DEF Delete, TypeOK
  <2> QED
    BY <1>8, <2>1, <2>2 DEF Delete
<1> QED
  BY <1>2, <1>3, <1>4, <1>5, <1>6, <1>7, <1>8 DEF Collect

(* A VM registers within BootTime, and the clock that makes it older makes *)
(* the cycle longer.                                                       *)
LEMMA WorldKeepsAges ==
    ASSUME TypeOK, Ages, Next, ~Collect
    PROVE  Ages'
<1> USE DEF Ages, BootingIsYoung, UnseenIsYoung, UpHasDevice
<1>0. /\ vm \in [VMs -> Stages] /\ age \in [VMs -> 0..Grace]
      /\ elapsed \in 0..CycleTime /\ devices \in SUBSET VMs
  BY DEF TypeOK
<1>1. CASE Restart
  <2>1. gc'.pc = "idle"
    BY <1>1 DEF Restart, Idle
  <2> QED
    BY <1>1, <2>1 DEF Restart
<1>2. CASE Tick
  <2>1. \A v \in VMs : age'[v] \in Nat /\ age[v] \in Nat
                        /\ age'[v] <= age[v] + 1
    BY <1>0, <1>2, TimeAssumption DEF Tick
  <2>2. \A v \in VMs : vm[v] = "booting" => age[v] < BootTime
    BY <1>2 DEF Tick
  <2>3. BootingIsYoung' /\ UpHasDevice'
    BY <1>2, <2>1, <2>2, TimeAssumption DEF Tick
  <2>4. UnseenIsYoung'
    BY <1>0, <1>2, <2>1, TimeAssumption DEF Tick
  <2> QED
    BY <2>3, <2>4
<1>3. ASSUME NEW v \in VMs, Create(v)
      PROVE  Ages'
  BY <1>0, <1>3, TimeAssumption DEF Create
<1>4. ASSUME NEW v \in VMs, Boots(v)
      PROVE  Ages'
  BY <1>0, <1>4, TimeAssumption DEF Boots
<1>5. ASSUME NEW v \in VMs,
             DeviceDeleted(v) \/ VMDeleted(v) \/ DeviceExpires(v)
      PROVE  Ages'
  BY <1>0, <1>5 DEF DeviceDeleted, VMDeleted, DeviceExpires
<1> QED
  BY <1>1, <1>2, <1>3, <1>4, <1>5 DEF Next

(* The VM that Check picks is an orphan, if it is listed by its hostname.  *)
LEMMA PickedIsOrphan ==
    ASSUME TypeOK, Ages, FoundExists, Check
    PROVE  TargetIsOrphan'
<1>1. gc \in Cycle
  BY DEF TypeOK
<1>2. PICK v \in gc.found :
           gc' = IF Known(v) \/ Young(v)
                 THEN [gc EXCEPT !.found = gc.found \ {v}]
                 ELSE [gc EXCEPT !.found = gc.found \ {v},
                                 !.pc = "deleting", !.target = v]
  BY DEF Check
<1>3. gc.pc = "checking" /\ UNCHANGED vm
  BY DEF Check, world
<1>4. CASE Known(v) \/ Young(v)
  <2>1. gc'.pc = "checking"
    BY <1>1, <1>2, <1>3, <1>4 DEF Cycle
  <2> QED
    BY <2>1 DEF TargetIsOrphan
<1>5. CASE ~Known(v) /\ ~Young(v)
  <2>1. gc'.target = v /\ v \in VMs
    BY <1>1, <1>2, <1>5 DEF Cycle
  <2> SUFFICES ASSUME ListedByHost(v)
               PROVE  vm[v] \in {"dead", "gone"}
    BY <1>3, <2>1 DEF TargetIsOrphan
  <2>2. HostOf[v] \notin gc.hosts
    BY <1>5 DEF Known, ListedByHost
  <2>3. ~(age[v] < Grace) /\ age[v] \in Nat /\ elapsed \in 0..CycleTime
    BY <1>5, <2>1, TimeAssumption DEF Young, TypeOK
  <2>4. vm[v] # "booting"
    BY <2>1, <2>3, TimeAssumption DEF Ages, BootingIsYoung
  <2>5. vm[v] # "up"
    BY <1>3, <2>1, <2>2, <2>3, TimeAssumption DEF Ages, UnseenIsYoung
  <2>6. gc \in Cycle /\ v \in gc.found /\ vm[v] \in Stages
    BY <1>1, <2>1 DEF TypeOK
  <2>7. vm[v] # "none"
    BY <2>6 DEF FoundExists
  <2> QED
    BY <2>4, <2>5, <2>6, <2>7 DEF Stages
<1> QED
  BY <1>4, <1>5

(* What was found in the clouds existed, and a VM does not come back.      *)
LEMMA FoundKept ==
    ASSUME TypeOK, FoundExists, Next
    PROVE  FoundExists'
<1> USE DEF FoundExists
<1>0. gc \in Cycle /\ vm \in [VMs -> Stages]
  BY DEF TypeOK
<1>1. CASE Collect
  <2>1. \A v \in VMs : vm[v] # "none" => vm'[v] # "none"
    BY <1>0, <1>1
       DEF Collect, ListDevices, NextProvider, CycleEnds, ListRegion, Listed,
           Check, Checked, Delete, world
  <2>2. CASE ListDevices \/ NextProvider \/ CycleEnds
    <3>1. CASE ListDevices
      BY <1>0, <2>1, <3>1 DEF ListDevices, Idle, Cycle
    <3>2. CASE NextProvider
      <4>1. gc'.found = {}
        BY <1>0, <3>2 DEF NextProvider, Cycle
      <4> QED
        BY <4>1
    <3>3. CASE CycleEnds
      BY <3>3 DEF CycleEnds, Idle
    <3> QED
      BY <2>2, <3>1, <3>2, <3>3
  <2>3. CASE ListRegion
    <3>1. PICK r \in gc.regions :
               gc'.found = gc.found \/
               gc'.found = gc.found \union
                              {v \in VMs : RegionOf[v] = r /\ InCloud(v)}
      BY <1>0, <2>3 DEF ListRegion, ListingFails, Cycle
    <3> QED
      BY <1>0, <2>1, <3>1 DEF InCloud, Cycle
  <2>4. CASE Listed \/ Checked \/ Delete
    <3>1. gc'.found = gc.found
      BY <1>0, <2>4 DEF Listed, Checked, Delete, Cycle
    <3> QED
      BY <1>0, <2>1, <3>1 DEF Cycle
  <2>5. CASE Check
    <3>1. gc'.found \subseteq gc.found
      BY <1>0, <2>5 DEF Check, Cycle
    <3> QED
      BY <1>0, <2>1, <3>1 DEF Cycle
  <2> QED
    BY <1>1, <2>2, <2>3, <2>4, <2>5 DEF Collect
<1>2. CASE Restart
  BY <1>2 DEF Restart, Idle
<1>3. CASE Tick
  BY <1>3 DEF Tick
<1>4. ASSUME NEW v \in VMs, Create(v)
      PROVE  FoundExists'
  BY <1>0, <1>4 DEF Create, Cycle
<1>5. ASSUME NEW v \in VMs, Boots(v) \/ DeviceDeleted(v) \/ VMDeleted(v)
                                \/ DeviceExpires(v)
      PROVE  FoundExists'
  BY <1>0, <1>5
     DEF Boots, DeviceDeleted, VMDeleted, DeviceExpires, Cycle
<1> QED
  BY <1>1, <1>2, <1>3, <1>4, <1>5 DEF Next

(* Between the check and the call the orphan stays one or is deleted by    *)
(* somebody else.                                                          *)
LEMMA TargetKept ==
    ASSUME TypeOK, TargetIsOrphan, Next, ~Check
    PROVE  TargetIsOrphan'
<1> USE DEF TargetIsOrphan
<1>0. gc \in Cycle /\ vm \in [VMs -> Stages]
  BY DEF TypeOK
<1>1. CASE Collect
  <2>1. CASE ListDevices \/ CycleEnds
    <3>1. CASE ListDevices
      <4>1. gc.pc = "idle" /\ (gc'.pc = "providers" \/ gc' = gc)
        BY <3>1 DEF ListDevices, Idle
      <4> QED
        BY <4>1
    <3>2. CASE CycleEnds
      BY <3>2 DEF CycleEnds, Idle
    <3> QED
      BY <2>1, <3>1, <3>2
  <2>2. CASE NextProvider
    <3>1. gc'.pc = "listing"
      BY <1>0, <2>2 DEF NextProvider, Cycle
    <3> QED
      BY <3>1
  <2>3. CASE ListRegion
    <3>1. gc'.pc \in {"listing", "providers"}
      BY <1>0, <2>3 DEF ListRegion, ListingFails, Cycle
    <3> QED
      BY <3>1
  <2>4. CASE Listed \/ Checked \/ Delete
    <3>1. gc'.pc \in {"checking", "providers"}
      BY <1>0, <2>4 DEF Listed, Checked, Delete, Cycle
    <3> QED
      BY <3>1
  <2> QED
    BY <1>1, <2>1, <2>2, <2>3, <2>4 DEF Collect
<1>2. CASE Restart
  BY <1>2 DEF Restart, Idle
<1>3. CASE Tick
  BY <1>3 DEF Tick
<1>4. ASSUME NEW v \in VMs, Create(v)
      PROVE  TargetIsOrphan'
  BY <1>0, <1>4 DEF Create
<1>5. ASSUME NEW v \in VMs, Boots(v) \/ DeviceDeleted(v) \/ VMDeleted(v)
                                \/ DeviceExpires(v)
      PROVE  TargetIsOrphan'
  BY <1>0, <1>5 DEF Boots, DeviceDeleted, VMDeleted, DeviceExpires
<1> QED
  BY <1>1, <1>2, <1>3, <1>4, <1>5 DEF Next

LEMMA IInvInductive ==
    ASSUME IInv, [Next]_vars
    PROVE  IInv'
<1>1. TypeOK /\ Ages /\ FoundExists /\ TargetIsOrphan
  BY DEF IInv, Ages
<1>2. CASE Next
  <2>1. TypeOK'
    BY <1>1, <1>2, TypeInductive
  <2>2. Ages'
    BY <1>1, <1>2, SnapshotIsComplete, CycleKeepsAges, WorldKeepsAges
  <2>3. FoundExists'
    BY <1>1, <1>2, FoundKept
  <2>4. TargetIsOrphan'
    BY <1>1, <1>2, PickedIsOrphan, TargetKept
  <2> QED
    BY <2>1, <2>2, <2>3, <2>4 DEF IInv, Ages
<1>3. CASE UNCHANGED vars
  BY <1>1, <1>3
     DEF vars, IInv, Ages, TypeOK, BootingIsYoung, UnseenIsYoung,
         UpHasDevice, FoundExists, TargetIsOrphan
<1> QED
  BY <1>2, <1>3

LEMMA Inductive == Spec => []IInv
BY IInvInit, IInvInductive, PTL DEF Spec

(* The collector never deletes a VM that is booting or up and is listed    *)
(* under the hostname it registers with, for any number of VMs, regions    *)
(* and clouds, any failures and restarts, and whatever names the other VMs *)
(* are listed under.                                                       *)
THEOREM LiveIsKept == Spec => NoListedLiveDeleted
<1>1. IInv /\ [Next]_vars =>
          [\A v \in VMs : Delete /\ vm'[v] = "gone" /\ ListedByHost(v)
                             => vm[v] \notin {"booting", "up"}]_vars
  <2> SUFFICES ASSUME IInv, NEW v \in VMs, Delete, vm'[v] = "gone", ListedByHost(v)
               PROVE  vm[v] \notin {"booting", "up"}
    OBVIOUS
  <2>1. vm'[v] = vm[v] \/ v = gc.target
    BY DEF Delete, IInv, TypeOK
  <2>2. ListedByHost(gc.target) => vm[gc.target] \in {"dead", "gone"}
    BY DEF Delete, IInv, TargetIsOrphan
  <2> QED
    BY <2>1, <2>2
<1> QED
  BY Inductive, <1>1, PTL DEF Spec, NoListedLiveDeleted

(* So no live VM is deleted at all where the clouds list every VM by its   *)
(* hostname.                                                               *)
COROLLARY AllAreKept ==
    ASSUME \A v \in VMs : ListedByHost(v)
    PROVE  Spec => NoLiveDeleted
<1>1. [\A v \in VMs : Delete /\ vm'[v] = "gone" /\ ListedByHost(v)
                          => vm[v] \notin {"booting", "up"}]_vars
      => [\A v \in VMs : Delete /\ vm'[v] = "gone"
                             => vm[v] \notin {"booting", "up"}]_vars
  OBVIOUS
<1> QED
  BY LiveIsKept, <1>1, PTL DEF NoListedLiveDeleted, NoLiveDeleted
=============================================================================
