-------------------------- MODULE GarbageCollector --------------------------
(***************************************************************************)
(* The garbage collector of internal/instances/gc.go: it compares what the *)
(* clouds list with one snapshot of the tailnet's devices and deletes the  *)
(* VMs that are old enough and have no device.  Around it run the VMs:     *)
(* created by the registry, by another process or by a creation whose      *)
(* answer was lost, registering their device some time later or never.     *)
(*                                                                         *)
(* Time is a count of ticks.  The code compares ages with a wall clock and *)
(* relies on two facts it never checks, the assumptions named here: a VM   *)
(* that will ever register does so within BootTime, and a cycle is over    *)
(* CycleTime after it read the devices.                                    *)
(***************************************************************************)
EXTENDS Naturals, FiniteSets

CONSTANTS
    Providers,      \* the configured clouds
    Regions,        \* every region of every cloud
    ProviderOf,     \* region -> cloud
    VMs,            \* VMs that may be created
    RegionOf,       \* VM -> region
    Hosts,          \* hostnames
    HostOf,         \* VM -> the hostname its device registers with
    ListedHost,     \* VM -> the Hostname field of the cloud's listing
    Broken,         \* clouds whose listing may fail again and again
    Grace,          \* gcGracePeriod
    BootTime,       \* longest time from creation to registration
    CycleTime,      \* longest time from the device list to a cycle's end
    MaxFaults,      \* how many other calls may fail
    MaxRestarts,    \* how many times the process may end and start again
    NoVM            \* no VM is being deleted

ASSUME PlaceAssumption == /\ ProviderOf \in [Regions -> Providers]
                          /\ RegionOf \in [VMs -> Regions]
                          /\ Broken \subseteq Providers
                          /\ NoVM \notin VMs
ASSUME HostAssumption  == /\ HostOf \in [VMs -> Hosts]
                          /\ ListedHost \in [VMs -> Hosts]
ASSUME TimeAssumption  == /\ Grace \in Nat
                          /\ BootTime \in Nat
                          /\ CycleTime \in Nat
                          /\ BootTime + CycleTime < Grace
ASSUME BoundAssumption == MaxFaults \in Nat /\ MaxRestarts \in Nat

VARIABLES
    vm,         \* the clouds: the stage of every VM
    age,        \* ticks since the VM was created, up to Grace
    devices,    \* the tailnet: the VMs whose device record exists
    gc,         \* the collector's cycle
    elapsed,    \* ticks since this cycle read the devices
    faults,     \* calls that failed
    restarts    \* times the process started again

vars == <<vm, age, devices, gc, elapsed, faults, restarts>>

(* "dead" is an orphan: the VM runs but its device never registered, or    *)
(* was removed.                                                            *)
Stages == {"none", "booting", "up", "dead", "gone"}
Steps  == {"idle", "providers", "listing", "checking", "deleting"}

Cycle == [pc : Steps, hosts : SUBSET Hosts, left : SUBSET Providers,
          regions : SUBSET Regions, found : SUBSET VMs,
          target : VMs \union {NoVM}]

Idle == [pc |-> "idle", hosts |-> {}, left |-> {}, regions |-> {},
         found |-> {}, target |-> NoVM]

TypeOK ==
    /\ vm \in [VMs -> Stages]
    /\ age \in [VMs -> 0..Grace]
    /\ devices \in SUBSET VMs
    /\ gc \in Cycle
    /\ elapsed \in 0..CycleTime
    /\ faults \in 0..MaxFaults
    /\ restarts \in 0..MaxRestarts

Init ==
    /\ vm = [v \in VMs |-> "none"]
    /\ age = [v \in VMs |-> 0]
    /\ devices = {}
    /\ gc = Idle
    /\ elapsed = 0
    /\ faults = 0
    /\ restarts = 0

world == <<vm, age, devices, restarts>>

Fault == faults < MaxFaults /\ faults' = faults + 1

(***************************************************************************)
(* One cycle of collect.                                                   *)
(***************************************************************************)
(* Mutant: the set is built from the devices instead of their hostnames.   *)
DeviceHosts_Devices == devices

DeviceHosts == {HostOf[v] : v \in devices}

(* The ticker fires, or Run starts: list the devices.  A failed call ends  *)
(* the cycle.                                                              *)
ListDevices ==
    /\ gc.pc = "idle"
    /\ \/ /\ gc' = [Idle EXCEPT !.pc = "providers",
                                !.hosts = DeviceHosts,
                                !.left = Providers]
          /\ elapsed' = 0
          /\ UNCHANGED faults
       \/ Fault /\ UNCHANGED <<gc, elapsed>>
    /\ UNCHANGED world

(* The next cloud of the map, in no fixed order.                           *)
NextProvider ==
    /\ gc.pc = "providers"
    /\ \E p \in gc.left :
          gc' = [gc EXCEPT !.pc = "listing", !.left = gc.left \ {p},
                           !.regions = {r \in Regions : ProviderOf[r] = p},
                           !.found = {}]
    /\ UNCHANGED <<elapsed, faults, world>>

CycleEnds ==
    /\ gc.pc = "providers" /\ gc.left = {}
    /\ gc' = Idle
    /\ UNCHANGED <<elapsed, faults, world>>

InCloud(v) == vm[v] \in {"booting", "up", "dead"}

(* Mutant: the cycle is given up when one cloud cannot be listed.          *)
ListingFails_GivesUp == gc' = Idle

(* A failed listing drops what this cloud's other regions returned and     *)
(* goes on with the next cloud.                                            *)
ListingFails == gc' = [gc EXCEPT !.pc = "providers"]

ListRegion ==
    /\ gc.pc = "listing"
    /\ \E r \in gc.regions :
          \/ /\ gc' = [gc EXCEPT
                          !.regions = gc.regions \ {r},
                          !.found = gc.found \union
                              {v \in VMs : RegionOf[v] = r /\ InCloud(v)}]
             /\ UNCHANGED faults
          \/ /\ ListingFails
             /\ \/ ProviderOf[r] \in Broken /\ UNCHANGED faults
                \/ Fault
    /\ UNCHANGED <<elapsed, world>>

Listed ==
    /\ gc.pc = "listing" /\ gc.regions = {}
    /\ gc' = [gc EXCEPT !.pc = "checking"]
    /\ UNCHANGED <<elapsed, faults, world>>

Known(v) == ListedHost[v] \in gc.hosts

(* Mutant: the grace period is measured one tick short.                    *)
Young_Short(v) == age[v] + 1 < Grace

Young(v) == age[v] < Grace

Check ==
    /\ gc.pc = "checking"
    /\ \E v \in gc.found :
          gc' = IF Known(v) \/ Young(v)
                THEN [gc EXCEPT !.found = gc.found \ {v}]
                ELSE [gc EXCEPT !.found = gc.found \ {v},
                                !.pc = "deleting", !.target = v]
    /\ UNCHANGED <<elapsed, faults, world>>

Checked ==
    /\ gc.pc = "checking" /\ gc.found = {}
    /\ gc' = [gc EXCEPT !.pc = "providers"]
    /\ UNCHANGED <<elapsed, faults, world>>

(* provider.DeleteInstance; a failure is logged and left to a later cycle. *)
Delete ==
    /\ gc.pc = "deleting"
    /\ gc' = [gc EXCEPT !.pc = "checking", !.target = NoVM]
    /\ \/ /\ vm' = [vm EXCEPT ![gc.target] = "gone"]
          /\ UNCHANGED faults
       \/ Fault /\ UNCHANGED vm
    /\ UNCHANGED <<age, devices, restarts, elapsed>>

Collect == \/ ListDevices
           \/ NextProvider
           \/ CycleEnds
           \/ ListRegion
           \/ Listed
           \/ Check
           \/ Checked
           \/ Delete

(* The context is cancelled or the process dies; the next process starts a *)
(* collector that remembers nothing.                                       *)
Restart ==
    /\ restarts < MaxRestarts
    /\ restarts' = restarts + 1
    /\ gc' = Idle
    /\ UNCHANGED <<vm, age, devices, elapsed, faults>>

(***************************************************************************)
(* The VMs, their devices and the clock.                                   *)
(***************************************************************************)
Create(v) ==
    /\ vm[v] = "none"
    /\ vm' = [vm EXCEPT ![v] = "booting"]
    /\ age' = [age EXCEPT ![v] = 0]
    /\ UNCHANGED <<devices, gc, elapsed, faults, restarts>>

(* The VM's tailscaled joins the tailnet, or its init script fails.        *)
Boots(v) ==
    /\ vm[v] = "booting"
    /\ \/ vm' = [vm EXCEPT ![v] = "up"] /\ devices' = devices \union {v}
       \/ vm' = [vm EXCEPT ![v] = "dead"] /\ UNCHANGED devices
    /\ UNCHANGED <<age, gc, elapsed, faults, restarts>>

(* The device of a running VM is deleted (the first half of a user's       *)
(* deletion, or an administrator).                                         *)
DeviceDeleted(v) ==
    /\ vm[v] = "up"
    /\ vm' = [vm EXCEPT ![v] = "dead"]
    /\ devices' = devices \ {v}
    /\ UNCHANGED <<age, gc, elapsed, faults, restarts>>

(* Somebody else deletes the VM: the second half of a user's deletion, the *)
(* cloud's console, the cloud itself.  Its device record stays a while.    *)
VMDeleted(v) ==
    /\ InCloud(v)
    /\ vm' = [vm EXCEPT ![v] = "gone"]
    /\ UNCHANGED <<age, devices, gc, elapsed, faults, restarts>>

(* The keys are ephemeral: the record of a VM that is no more goes away.   *)
DeviceExpires(v) ==
    /\ v \in devices /\ vm[v] = "gone"
    /\ devices' = devices \ {v}
    /\ UNCHANGED <<vm, age, gc, elapsed, faults, restarts>>

Tick ==
    /\ \A v \in VMs : vm[v] = "booting" => age[v] < BootTime
    /\ gc.pc # "idle" => elapsed < CycleTime
    /\ age' = [v \in VMs |-> IF InCloud(v) /\ age[v] < Grace
                             THEN age[v] + 1 ELSE age[v]]
    /\ elapsed' = IF gc.pc = "idle" THEN elapsed ELSE elapsed + 1
    /\ UNCHANGED <<vm, devices, gc, faults, restarts>>

Next == \/ Collect
        \/ Restart
        \/ Tick
        \/ \E v \in VMs : \/ Create(v)
                          \/ Boots(v)
                          \/ DeviceDeleted(v)
                          \/ VMDeleted(v)
                          \/ DeviceExpires(v)

Spec == Init /\ [][Next]_vars

(* The collector's goroutine runs and its ticker fires; time passes, a     *)
(* boot ends one way or the other, and ephemeral records expire.           *)
Fairness == /\ WF_vars(Collect)
            /\ WF_vars(Tick)
            /\ \A v \in VMs : WF_vars(Boots(v)) /\ WF_vars(DeviceExpires(v))

FairSpec == Spec /\ Fairness

-----------------------------------------------------------------------------
(* The collector deletes "instances that exist in the cloud but not in     *)
(* Tailscale" (gc.go:21-22), whatever their cloud and service: never one   *)
(* that is booting or whose device is registered.                          *)
NoLiveDeleted ==
    [][\A v \in VMs :
          Delete /\ vm'[v] = "gone" => vm[v] \notin {"booting", "up"}]_vars

(* Whatever becomes of the VMs that are listed under some other name, the  *)
(* collector never deletes a live one that is listed under its hostname,   *)
(* although it decides from a device list that may be CycleTime old and    *)
(* from a listing taken later than that list (gc.go:91-100 against         *)
(* gc.go:114-136).                                                         *)
ListedByHost(v) == ListedHost[v] = HostOf[v]

NoListedLiveDeleted ==
    [][\A v \in VMs :
          Delete /\ vm'[v] = "gone" /\ ListedByHost(v)
              => vm[v] \notin {"booting", "up"}]_vars

(* An orphan of a cloud that can be listed does not stay: in the end it is *)
(* gone, unless a device with the hostname it is listed under is there     *)
(* again and again, and however often another cloud's listing fails        *)
(* (gc.go:108-112) or the process restarts in the middle of a cycle.       *)
Masked(v) == ListedHost[v] \in DeviceHosts

OrphansGo ==
    \A v \in VMs : ProviderOf[RegionOf[v]] \notin Broken =>
                      []<>(vm[v] # "dead" \/ Masked(v))

(* Why the snapshot may be old: a VM that registered after the cycle read  *)
(* the devices is too young to be taken for an orphan in that cycle.       *)
BootingIsYoung == \A v \in VMs : vm[v] = "booting" => age[v] <= BootTime

UnseenIsYoung ==
    gc.pc # "idle" =>
        \A v \in VMs : vm[v] = "up" /\ HostOf[v] \notin gc.hosts =>
                          age[v] <= BootTime + elapsed

UpHasDevice == \A v \in VMs : vm[v] = "up" => v \in devices

TargetIsOrphan ==
    gc.pc = "deleting" => /\ gc.target \in VMs
                          /\ ListedByHost(gc.target)
                                => vm[gc.target] \in {"dead", "gone"}

FoundExists == \A v \in gc.found : vm[v] # "none"

IInv == /\ TypeOK
        /\ BootingIsYoung
        /\ UnseenIsYoung
        /\ UpHasDevice
        /\ FoundExists
        /\ TargetIsOrphan

=============================================================================
