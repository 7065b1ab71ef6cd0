-------------------------- MODULE InstanceRegistry --------------------------
(***************************************************************************)
(* The registry of instance controllers (internal/instances/registry.go)   *)
(* and the controllers it owns (internal/instances/controller.go),         *)
(* together with every goroutine that works on them:                       *)
(*                                                                         *)
(*   - the goroutine CreateInstance starts to provision the VM,            *)
(*   - the health monitor of each started controller,                      *)
(*   - DeleteInstance, called by the user or by an idle-shutdown callback, *)
(*   - the peer-gone callback of a discovered controller,                  *)
(*   - the discovery loop, and Shutdown,                                   *)
(*                                                                         *)
(* against the services they call: the control API (devices), the tailnet  *)
(* (peers), the cloud provider (VMs) and the R2 token service.  A call to  *)
(* one of those is a step of its own, because r.mu is not held across it   *)
(* (discovery's cost lookup is the one call made under r.mu; nothing of    *)
(* the registry can move meanwhile, so it is part of its step).            *)
(*                                                                         *)
(* A key stands for the registry key and for the Tailscale hostname of the *)
(* instance: both are made of the service and the instance name.  A        *)
(* controller is named by the order of its creation, and the VM and the R2 *)
(* token created on its behalf carry its name.                             *)
(***************************************************************************)
EXTENDS Naturals, FiniteSets

CONSTANTS Keys,         \* "service-name", e.g. exit-do-nyc1
          Persistent,   \* the keys of services with an R2 volume
          IdleTimeout,  \* the keys of services with an idle timeout
          ListedAs,     \* the Hostname the provider lists a key's VMs under
          Fragile,      \* the VMs that may be destroyed from outside
          MaxCtl,       \* bound: controllers created in one behaviour
          Others,       \* VMs created by another tscloudvpn
          KeyOfOther,   \* their keys
          MaxFaults,    \* bound: failing calls
          MaxCrashes,   \* bound: crashes of this process
          MayShutdown,  \* whether Shutdown may be called
          None

ASSUME KeyAssumption ==
    /\ Persistent \subseteq Keys
    /\ IdleTimeout \subseteq Keys
    /\ ListedAs \in [Keys -> Keys \cup {None}]
    /\ KeyOfOther \in [Others -> Keys]
    /\ None \notin Keys
ASSUME BoundAssumption == /\ {MaxCtl, MaxFaults, MaxCrashes} \subseteq Nat
                          /\ MayShutdown \in BOOLEAN
ASSUME IdAssumption == /\ None \notin Nat
                       /\ Others \cap (Nat \cup {None}) = {}

Ctl == 1 .. MaxCtl
VMs == Ctl \cup Others

VARIABLES
    reg,      \* Registry.controllers: key -> controller
    ctl,      \* the Controller structs
    next,     \* the name the next controller gets
    crt,      \* per controller, the goroutine provisioning its VM
    rem,      \* per controller, the goroutine that took it out of the registry
    idleCb,   \* controllers whose idle-shutdown callback goroutine is to run
    goneCb,   \* per controller, its peer-gone callback goroutines still to run
    disc,     \* the discovery loop
    shut,     \* Shutdown
    vm,       \* the VMs in the cloud
    device,   \* the VMs with a device in the control plane, a tailnet peer
    tokens,   \* the live R2 tokens
    faults, crashes

ctlVars == <<reg, ctl, next>>
cbVars  == <<idleCb, goneCb>>
envVars == <<vm, device, tokens>>
vars == <<reg, ctl, next, crt, rem, idleCb, goneCb, disc, shut,
          vm, device, tokens, faults, crashes>>

States == {"idle", "launching", "running", "failed"}
MonitorPCs == {"off", "select", "absent", "present", "exited"}

(* state, started and onPeerGone (discovered) are fields of the struct;    *)
(* cancelled is its context, triggered is idleShutdownTriggered, and mon   *)
(* is where the goroutine of monitorHealth is: not started, waiting in     *)
(* its select, holding a peer list with or without our peer, or returned   *)
(* (done is closed).                                                       *)
Controller ==
    [key : Keys \cup {None}, state : States, started : BOOLEAN,
     cancelled : BOOLEAN, discovered : BOOLEAN, triggered : BOOLEAN,
     mon : MonitorPCs]

NewController(k) ==
    [key |-> k, state |-> "idle", started |-> FALSE, cancelled |-> FALSE,
     discovered |-> FALSE, triggered |-> FALSE, mon |-> "off"]

Creation == [pc : {"none", "acquire", "revoke", "mint", "provision",
                   "launched", "failing", "done"},
             saw : SUBSET Ctl]

Removal == [pc : {"none", "removed", "fence", "revoke", "control", "cloud",
                  "queued", "stop", "wait", "done"},
            by : {"none", "delete", "cancel", "gone", "shutdown"},
            saw : SUBSET Ctl]

Round == [pc : {"sleep", "listed", "scan"}, todo : SUBSET Keys,
          found : Keys \cup {None}]

NotYet == [pc |-> "none", saw |-> {}]
NotRemoved == [pc |-> "none", by |-> "none", saw |-> {}]

TypeOK ==
    /\ reg \in [Keys -> Ctl \cup {None}]
    /\ ctl \in [Ctl -> Controller]
    /\ next \in 1 .. MaxCtl + 1
    /\ crt \in [Ctl -> Creation]
    /\ rem \in [Ctl -> Removal]
    /\ idleCb \in SUBSET Ctl
    /\ goneCb \in [Ctl -> Nat]
    /\ disc \in Round
    /\ shut \in [pc : {"no", "stopping", "done"}, cur : Ctl \cup {None}]
    /\ vm \in [VMs -> {"none", "booting", "up", "gone"}]
    /\ device \in SUBSET VMs
    /\ tokens \in SUBSET Ctl
    /\ faults \in 0 .. MaxFaults
    /\ crashes \in 0 .. MaxCrashes

Init ==
    /\ reg = [k \in Keys |-> None]
    /\ ctl = [c \in Ctl |-> NewController(None)]
    /\ next = 1
    /\ crt = [c \in Ctl |-> NotYet]
    /\ rem = [c \in Ctl |-> NotRemoved]
    /\ idleCb = {}
    /\ goneCb = [c \in Ctl |-> 0]
    /\ disc = [pc |-> "sleep", todo |-> {}, found |-> None]
    /\ shut = [pc |-> "no", cur |-> None]
    /\ vm = [v \in VMs |-> "none"]
    /\ device = {}
    /\ tokens = {}
    /\ faults = 0
    /\ crashes = 0

KeyOf(v) == IF v \in Others THEN KeyOfOther[v] ELSE ctl[v].key

(* A call to an outside service fails.                                     *)
Fault == faults < MaxFaults /\ faults' = faults + 1
NoFault == UNCHANGED faults

-----------------------------------------------------------------------------
(* CreateInstance.  It runs under r.mu up to the go statement.             *)

(* An entry in one of these states gives way to a new controller; in the   *)
(* others ("already running", "already launching") the call changes        *)
(* nothing.  The controller that gives way is not stopped.                 *)
Replaceable_Launching == {"idle", "failed", "launching"}       \* mutant
Replaceable == {"idle", "failed"}

CreateInstance(k) ==
    /\ next <= MaxCtl
    /\ reg[k] # None => ctl[reg[k]].state \in Replaceable
    /\ reg' = [reg EXCEPT ![k] = next]
    /\ ctl' = [ctl EXCEPT ![next] =
                  [NewController(k) EXCEPT !.state = "launching"]]
    /\ next' = next + 1
    /\ crt' = [crt EXCEPT ![next].pc =
                  IF k \in Persistent THEN "acquire" ELSE "provision"]
    /\ UNCHANGED <<rem, cbVars, disc, shut, envVars, faults, crashes>>

(* A request for a provider that is not configured.  A failed entry is     *)
(* dropped before the provider is looked up.                               *)
CreateRejected(k) ==
    /\ reg[k] # None
    /\ ctl[reg[k]].state = "failed"
    /\ reg' = [reg EXCEPT ![k] = None]
    /\ UNCHANGED <<ctl, next, crt, rem, cbVars, disc, shut, envVars,
                   faults, crashes>>

-----------------------------------------------------------------------------
(* The provisioning goroutine of CreateInstance, createCloudInstance.      *)

CrtGoto(c, pc) == crt' = [crt EXCEPT ![c] = [pc |-> pc, saw |-> {}]]

(* The tokens revokeTokenByName finds under the volume's token name.       *)
VolumeTokens_OtherName(k) == {t \in tokens : ctl[t].key # k}   \* mutant
VolumeTokens(k) == {t \in tokens : ctl[t].key = k}

(* TokenManager.Acquire: list the tokens of the volume, ...                *)
AcquireList(c) ==
    /\ crt[c].pc = "acquire"
    /\ \/ /\ crt' = [crt EXCEPT ![c] =
                 [pc |-> "revoke", saw |-> VolumeTokens(ctl[c].key)]]
          /\ NoFault
       \/ CrtGoto(c, "failing") /\ Fault
    /\ UNCHANGED <<ctlVars, rem, cbVars, disc, shut, envVars, crashes>>

(* ... delete those listed (a failing delete leaves the rest alive), ...   *)
AcquireRevoke(c) ==
    /\ crt[c].pc = "revoke"
    /\ \/ tokens' = tokens \ crt[c].saw /\ CrtGoto(c, "mint") /\ NoFault
       \/ /\ \E S \in SUBSET crt[c].saw : S # crt[c].saw /\ tokens' = tokens \ S
          /\ CrtGoto(c, "failing")
          /\ Fault
    /\ UNCHANGED <<ctlVars, rem, cbVars, disc, shut, vm, device, crashes>>

(* ... and create the new one.  When the answer is lost or unreadable the  *)
(* token exists all the same.                                              *)
AcquireMint(c) ==
    /\ crt[c].pc = "mint"
    /\ \/ tokens' = tokens \cup {c} /\ CrtGoto(c, "provision") /\ NoFault
       \/ /\ tokens' \in {tokens, tokens \cup {c}}
          /\ CrtGoto(c, "failing")
          /\ Fault
    /\ UNCHANGED <<ctlVars, rem, cbVars, disc, shut, vm, device, crashes>>

(* CreateKey, RenderUserData and provider.CreateInstance.  The VM is in    *)
(* the cloud from here on; a provider may also report an error for a VM    *)
(* that it did create (gcp gives up waiting for the operation).            *)
Provision(c) ==
    /\ crt[c].pc = "provision"
    /\ \/ vm' = [vm EXCEPT ![c] = "booting"] /\ CrtGoto(c, "launched") /\ NoFault
       \/ /\ vm' \in {vm, [vm EXCEPT ![c] = "booting"]}
          /\ CrtGoto(c, "failing")
          /\ Fault
    /\ UNCHANGED <<ctlVars, rem, cbVars, disc, shut, device, tokens, crashes>>

(* SetHourlyCost and Start.                                                *)
CreateSucceeded(c) ==
    /\ crt[c].pc = "launched"
    /\ ctl' = [ctl EXCEPT ![c] = [@ EXCEPT !.started = TRUE, !.mon = "select"]]
    /\ CrtGoto(c, "done")
    /\ UNCHANGED <<reg, next, rem, cbVars, disc, shut, envVars,
                   faults, crashes>>

(* SetFailed.  It ends in Stop, which finds the controller not started.    *)
SetFailed(r) == [r EXCEPT !.state = "failed", !.cancelled = TRUE]

CreateFailed(c) ==
    /\ crt[c].pc = "failing"
    /\ ctl' = [ctl EXCEPT ![c] = SetFailed(@)]
    /\ CrtGoto(c, "done")
    /\ UNCHANGED <<reg, next, rem, cbVars, disc, shut, envVars,
                   faults, crashes>>

CreateGoroutine(c) ==
    \/ AcquireList(c) \/ AcquireRevoke(c) \/ AcquireMint(c)
    \/ Provision(c) \/ CreateSucceeded(c) \/ CreateFailed(c)

-----------------------------------------------------------------------------
(* DeleteInstance.  Taking the entry out of the registry under r.mu makes  *)
(* this goroutine the only one to work on that controller's removal.       *)

RemAt(c, pc, saw) == [pc |-> pc, by |-> rem[c].by, saw |-> saw]
RemGoto(c, pc) == rem' = [rem EXCEPT ![c] = RemAt(c, pc, {})]

TakenOut(pc, by) == [pc |-> pc, by |-> by, saw |-> {}]

(* Look up and delete an entry; the caller goes on with the controller.    *)
TakeOut(k, pc, by) ==
    /\ reg[k] # None
    /\ reg' = [reg EXCEPT ![k] = None]
    /\ rem' = [rem EXCEPT ![reg[k]] = TakenOut(pc, by)]

(* The first step of DeleteInstance(k).  The code does the same whether or *)
(* not the creation is still under way; what it achieves for the token of  *)
(* a persistent instance is not the same, so the properties tell the two   *)
(* apart ("cancel").                                                       *)
UnderWay(c) == ctl[c].key \in Persistent /\ crt[c].pc \notin {"none", "done"}

Unregister(k) ==
    TakeOut(k, "removed", IF UnderWay(reg[k]) THEN "cancel" ELSE "delete")

UserDelete(k) ==
    /\ Unregister(k)
    /\ UNCHANGED <<ctl, next, crt, cbVars, disc, shut, envVars,
                   faults, crashes>>

(* "If the controller failed, no cloud resources to clean up": it returns  *)
(* without stopping the controller (SetFailed does).                       *)
DeleteCheck(c) ==
    /\ rem[c].pc = "removed"
    /\ RemGoto(c, CASE ctl[c].state = "failed" -> "done"
                    [] ctl[c].state # "failed" /\ ctl[c].key \in Persistent -> "fence"
                    [] OTHER -> "control")
    /\ UNCHANGED <<ctlVars, crt, cbVars, disc, shut, envVars, faults, crashes>>

(* TokenManager.Release: list the volume's tokens, delete those listed.    *)
(* A failure is logged and the deletion goes on.                           *)
ReleaseList(c) ==
    /\ rem[c].pc = "fence"
    /\ \/ /\ rem' = [rem EXCEPT ![c] =
                         RemAt(c, "revoke", VolumeTokens(ctl[c].key))]
          /\ NoFault
       \/ RemGoto(c, "control") /\ Fault
    /\ UNCHANGED <<ctlVars, crt, cbVars, disc, shut, envVars, crashes>>

ReleaseRevoke(c) ==
    /\ rem[c].pc = "revoke"
    /\ RemGoto(c, "control")
    /\ \/ tokens' = tokens \ rem[c].saw /\ NoFault
       \/ /\ \E S \in SUBSET rem[c].saw : S # rem[c].saw /\ tokens' = tokens \ S
          /\ Fault
    /\ UNCHANGED <<ctlVars, crt, cbVars, disc, shut, vm, device, crashes>>

(* deleteFromControlPlane: the first device listed with the hostname.      *)
DeleteDevice(c) ==
    LET Matching == {v \in device : KeyOf(v) = ctl[c].key}
    IN  /\ rem[c].pc = "control"
        /\ RemGoto(c, "cloud")
        /\ \/ /\ \/ \E v \in Matching : device' = device \ {v}
                 \/ Matching = {} /\ UNCHANGED device
              /\ NoFault
           \/ UNCHANGED device /\ Fault
        /\ UNCHANGED <<ctlVars, crt, cbVars, disc, shut, vm, tokens, crashes>>

(* deleteFromCloudProvider: the first VM the provider lists under the      *)
(* hostname; with none, nothing is deleted and nothing reported.           *)
InCloud == {v \in VMs : vm[v] \in {"booting", "up"}}

Listed_Others(k) == {v \in InCloud : ListedAs[KeyOf(v)] # k}   \* mutant
Listed(k) == {v \in InCloud : ListedAs[KeyOf(v)] = k}

DeleteVM(c) ==
    /\ rem[c].pc = "cloud"
    /\ RemGoto(c, "stop")
    /\ \/ /\ \/ \E v \in Listed(ctl[c].key) : vm' = [vm EXCEPT ![v] = "gone"]
             \/ Listed(ctl[c].key) = {} /\ UNCHANGED vm
          /\ NoFault
       \/ UNCHANGED vm /\ Fault
    /\ UNCHANGED <<ctlVars, crt, cbVars, disc, shut, device, tokens, crashes>>

(* Stop: cancel the context; when the monitor was started, wait for it.    *)
StopCancel_NoCancel(c) ==                                      \* mutant
    /\ rem[c].pc = "stop"
    /\ RemGoto(c, IF ctl[c].started THEN "wait" ELSE "done")
    /\ UNCHANGED <<ctlVars, crt, cbVars, disc, shut, envVars, faults, crashes>>

StopCancel(c) ==
    /\ rem[c].pc = "stop"
    /\ ctl' = [ctl EXCEPT ![c].cancelled = TRUE]
    /\ RemGoto(c, IF ctl[c].started THEN "wait" ELSE "done")
    /\ UNCHANGED <<reg, next, crt, cbVars, disc, shut, envVars,
                   faults, crashes>>

StopReturns(c) ==
    /\ rem[c].pc = "wait"
    /\ ctl[c].mon = "exited"
    /\ RemGoto(c, "done")
    /\ UNCHANGED <<ctlVars, crt, cbVars, disc, shut, envVars, faults, crashes>>

RemoveGoroutine(c) ==
    \/ DeleteCheck(c) \/ ReleaseList(c) \/ ReleaseRevoke(c)
    \/ DeleteDevice(c) \/ DeleteVM(c) \/ StopCancel(c) \/ StopReturns(c)

-----------------------------------------------------------------------------
(* The callbacks of the health monitor each run in a goroutine of their    *)
(* own and find the controller to act on by its key.                       *)

(* makeIdleShutdownCallback: DeleteInstance, an error is only logged.      *)
RunIdleCallback(c) ==
    /\ c \in idleCb
    /\ idleCb' = idleCb \ {c}
    /\ \/ Unregister(ctl[c].key)
       \/ reg[ctl[c].key] = None /\ UNCHANGED <<reg, rem>>
    /\ UNCHANGED <<ctl, next, crt, goneCb, disc, shut, envVars,
                   faults, crashes>>

(* makePeerGoneCallback: take the entry out under r.mu, then Stop it.      *)
Pending_Spurious(c) == ctl[c].started                          \* mutant
Pending(c) == goneCb[c] > 0

RunGoneCallback_KeepsEntry(c) ==                               \* mutant
    /\ Pending(c)
    /\ goneCb' = [goneCb EXCEPT ![c] = @ - 1]
    /\ reg[ctl[c].key] # None
    /\ rem' = [rem EXCEPT ![reg[ctl[c].key]] =
                  TakenOut("stop", "gone")]
    /\ UNCHANGED <<reg, ctl, next, crt, idleCb, disc, shut, envVars,
                   faults, crashes>>

RunGoneCallback(c) ==
    /\ Pending(c)
    /\ goneCb' = [goneCb EXCEPT ![c] = @ - 1]
    /\ \/ TakeOut(ctl[c].key, "stop", "gone")
       \/ reg[ctl[c].key] = None /\ UNCHANGED <<reg, rem>>
    /\ UNCHANGED <<ctl, next, crt, idleCb, disc, shut, envVars,
                   faults, crashes>>

-----------------------------------------------------------------------------
(* monitorHealth and performHealthCheck.  The outcome of the ping and the  *)
(* statistics of the node are left out here: whether a running node counts *)
(* as idle at a check is a free choice.                                    *)

(* shouldIdleShutdown, for a running controller.                           *)
MayTrigger(c) == ctl[c].key \in IdleTimeout /\ ~ctl[c].triggered

(* The ticker fires and GetPeers answers.  Under a cancelled context it    *)
(* fails, and the check changes nothing; nor does it when the answer calls *)
(* for no reaction (only this goroutine makes the state running or idle,   *)
(* so that is known here).                                                 *)
PeerListed(c) == \E v \in device : KeyOf(v) = ctl[c].key

ReadPeers(c) ==
    /\ ctl[c].mon = "select"
    /\ ~ctl[c].cancelled
    /\ \/ /\ PeerListed(c)
          /\ ctl[c].state # "running" \/ MayTrigger(c)
          /\ ctl' = [ctl EXCEPT ![c].mon = "present"]
       \/ /\ ~PeerListed(c)
          /\ ctl[c].state = "running"
          /\ ctl' = [ctl EXCEPT ![c].mon = "absent"]
    /\ UNCHANGED <<reg, next, crt, rem, cbVars, disc, shut, envVars,
                   faults, crashes>>

(* onPeerGone is set for discovered controllers only.                      *)
CallsPeerGone_Never(c) == FALSE                                \* mutant
CallsPeerGone(c) == ctl[c].discovered

(* Our peer is not in the list: the running instance is gone.              *)
PeerAbsent(c) ==
    /\ ctl[c].mon = "absent"
    /\ ctl' = [ctl EXCEPT ![c] = [@ EXCEPT !.mon = "select", !.state = "idle"]]
    /\ goneCb' = [goneCb EXCEPT ![c] = IF CallsPeerGone(c) THEN @ + 1 ELSE @]
    /\ UNCHANGED <<reg, next, crt, rem, idleCb, disc, shut, envVars,
                   faults, crashes>>

(* Our peer is in the list: the instance is running.  If it is idle beyond *)
(* its timeout the idle-shutdown callback is started, once.                *)
PeerPresent(c) ==
    /\ ctl[c].mon = "present"
    /\ \/ /\ ctl' = [ctl EXCEPT ![c] = [@ EXCEPT !.mon = "select",
                                                !.state = "running"]]
          /\ UNCHANGED idleCb
       \/ /\ MayTrigger(c)
          /\ ctl' = [ctl EXCEPT ![c] = [@ EXCEPT !.mon = "select",
                                                !.state = "running",
                                                !.triggered = TRUE]]
          /\ idleCb' = idleCb \cup {c}
    /\ UNCHANGED <<reg, next, crt, rem, goneCb, disc, shut, envVars,
                   faults, crashes>>

MonitorExits(c) ==
    /\ ctl[c].mon = "select"
    /\ ctl[c].cancelled
    /\ ctl' = [ctl EXCEPT ![c].mon = "exited"]
    /\ UNCHANGED <<reg, next, crt, rem, cbVars, disc, shut, envVars,
                   faults, crashes>>

Monitor(c) == ReadPeers(c) \/ PeerAbsent(c) \/ PeerPresent(c) \/ MonitorExits(c)

-----------------------------------------------------------------------------
(* discoverInstances, once a second.                                       *)

(* The round ends with the last device.                                    *)
Continue(todo) == IF todo = {} THEN "sleep" ELSE "scan"

(* ListDevices; a failure ends the round before it begins.                 *)
DiscoverList ==
    /\ disc.pc = "sleep"
    /\ disc' = [disc EXCEPT !.pc = "listed",
                            !.todo = {KeyOf(v) : v \in device}]
    /\ UNCHANGED <<ctlVars, crt, rem, cbVars, shut, envVars, faults, crashes>>

(* The hostnames of all entries, failed ones included, are skipped.        *)
Tracked_Stale == {k \in Keys : \E c \in Ctl : ctl[c].key = k}  \* mutant
Tracked == {k \in Keys : reg[k] # None}

DiscoverSkipTracked ==
    /\ disc.pc = "listed"
    /\ disc' = [disc EXCEPT !.pc = Continue(disc.todo \ Tracked),
                            !.todo = @ \ Tracked]
    /\ UNCHANGED <<ctlVars, crt, rem, cbVars, shut, envVars, faults, crashes>>

(* FetchNodeIdentity of the next device: only a VM that is up answers.     *)
DiscoverIdentity(k) ==
    /\ disc.pc = "scan"
    /\ disc.found = None
    /\ k \in disc.todo
    /\ \/ /\ \E v \in device : KeyOf(v) = k /\ vm[v] = "up"
          /\ disc' = [disc EXCEPT !.todo = @ \ {k}, !.found = k]
          /\ NoFault
       \/ /\ ~\E v \in device : KeyOf(v) = k /\ vm[v] = "up"
          /\ disc' = [disc EXCEPT !.pc = Continue(disc.todo \ {k}),
                                  !.todo = @ \ {k}]
          /\ NoFault
       \/ /\ disc' = [disc EXCEPT !.pc = Continue(disc.todo \ {k}),
                                  !.todo = @ \ {k}]
          /\ Fault
    /\ UNCHANGED <<ctlVars, crt, rem, cbVars, shut, envVars, crashes>>

(* Under r.mu: check the key again, then register a running, started       *)
(* controller with both callbacks.  (With no name left the model stops     *)
(* registering.)                                                           *)
Free_Unchecked(k) == next <= MaxCtl                            \* mutant
Free(k) == reg[k] = None /\ next <= MaxCtl

DiscoverRegister ==
    /\ disc.found # None
    /\ disc' = [disc EXCEPT !.pc = Continue(disc.todo), !.found = None]
    /\ \/ /\ Free(disc.found)
          /\ ctl' = [ctl EXCEPT ![next] =
                        [NewController(disc.found) EXCEPT
                            !.state = "running", !.started = TRUE,
                            !.discovered = TRUE, !.mon = "select"]]
          /\ reg' = [reg EXCEPT ![disc.found] = next]
          /\ next' = next + 1
       \/ /\ ~Free(disc.found)
          /\ UNCHANGED ctlVars
    /\ UNCHANGED <<crt, rem, cbVars, shut, envVars, faults, crashes>>

Discovery ==
    \/ DiscoverList \/ DiscoverSkipTracked
    \/ \E k \in Keys : DiscoverIdentity(k)
    \/ DiscoverRegister

-----------------------------------------------------------------------------
(* Shutdown: empty the registry under r.mu, then Stop the entries it held, *)
(* one after the other.  Discovery and the callbacks keep running.         *)

Registered == {c \in Ctl : \E k \in Keys : reg[k] = c}
Queued == {c \in Ctl : rem[c].pc = "queued"}

ShutdownBegin ==
    /\ MayShutdown
    /\ shut.pc = "no"
    /\ shut' = [shut EXCEPT !.pc = "stopping"]
    /\ rem' = [c \in Ctl |-> IF c \in Registered
                             THEN TakenOut("queued", "shutdown")
                             ELSE rem[c]]
    /\ reg' = [k \in Keys |-> None]
    /\ UNCHANGED <<ctl, next, crt, cbVars, disc, envVars, faults, crashes>>

ShutdownStop(c) ==
    /\ shut.pc = "stopping"
    /\ shut.cur = None
    /\ c \in Queued
    /\ RemGoto(c, "stop")
    /\ shut' = [shut EXCEPT !.cur = c]
    /\ UNCHANGED <<ctlVars, crt, cbVars, disc, envVars, faults, crashes>>

ShutdownNext_Async ==                                          \* mutant
    /\ shut.cur # None
    /\ shut' = [shut EXCEPT !.cur = None]
    /\ UNCHANGED <<ctlVars, crt, rem, cbVars, disc, envVars, faults, crashes>>

ShutdownNext ==
    /\ shut.cur # None
    /\ rem[shut.cur].pc = "done"
    /\ shut' = [shut EXCEPT !.cur = None]
    /\ UNCHANGED <<ctlVars, crt, rem, cbVars, disc, envVars, faults, crashes>>

ShutdownReturns ==
    /\ shut.pc = "stopping"
    /\ shut.cur = None
    /\ Queued = {}
    /\ shut' = [shut EXCEPT !.pc = "done"]
    /\ UNCHANGED <<ctlVars, crt, rem, cbVars, disc, envVars, faults, crashes>>

Shutdown == \/ \E c \in Ctl : ShutdownStop(c)
            \/ ShutdownNext \/ ShutdownReturns

(* The process dies and starts again: the registry and all goroutines are  *)
(* gone, what they had requested from the services stays.                  *)
Crash ==
    /\ crashes < MaxCrashes
    /\ crashes' = crashes + 1
    /\ reg' = [k \in Keys |-> None]
    /\ ctl' = [c \in Ctl |->
                  IF ctl[c].key = None THEN ctl[c]
                  ELSE [ctl[c] EXCEPT !.cancelled = TRUE,
                           !.mon = IF @ = "off" THEN @ ELSE "exited"]]
    /\ crt' = [c \in Ctl |-> IF crt[c].pc = "none" THEN crt[c]
                             ELSE [pc |-> "done", saw |-> {}]]
    /\ rem' = [c \in Ctl |-> NotRemoved]
    /\ idleCb' = {}
    /\ goneCb' = [c \in Ctl |-> 0]
    /\ disc' = [pc |-> "sleep", todo |-> {}, found |-> None]
    /\ shut' = [pc |-> "no", cur |-> None]
    /\ UNCHANGED <<next, envVars, faults>>

-----------------------------------------------------------------------------
(* The services and the VMs, on their own.                                 *)

(* A VM finishes booting and registers with the control plane.             *)
Boot(v) ==
    /\ vm[v] = "booting"
    /\ vm' = [vm EXCEPT ![v] = "up"]
    /\ device' = device \cup {v}
    /\ UNCHANGED <<ctlVars, crt, rem, cbVars, disc, shut, tokens, faults, crashes>>

(* Another tscloudvpn creates a VM.                                        *)
OtherCreates(v) ==
    /\ v \in Others
    /\ vm[v] = "none"
    /\ vm' = [vm EXCEPT ![v] = "booting"]
    /\ UNCHANGED <<ctlVars, crt, rem, cbVars, disc, shut, device, tokens,
                   faults, crashes>>

(* A VM is destroyed from outside.                                         *)
Lost(v) ==
    /\ v \in Fragile
    /\ vm[v] = "up"
    /\ vm' = [vm EXCEPT ![v] = "gone"]
    /\ UNCHANGED <<ctlVars, crt, rem, cbVars, disc, shut, device, tokens,
                   faults, crashes>>

(* The node key is ephemeral: the control plane drops the device of a VM   *)
(* that is gone.                                                           *)
DeviceExpires(v) ==
    /\ v \in device
    /\ vm[v] = "gone"
    /\ device' = device \ {v}
    /\ UNCHANGED <<ctlVars, crt, rem, cbVars, disc, shut, vm, tokens,
                   faults, crashes>>

Environment ==
    \E v \in VMs : Boot(v) \/ OtherCreates(v) \/ Lost(v) \/ DeviceExpires(v)

Next ==
    \/ \E k \in Keys : CreateInstance(k) \/ CreateRejected(k) \/ UserDelete(k)
    \/ \E c \in Ctl : \/ CreateGoroutine(c) \/ RemoveGoroutine(c) \/ Monitor(c)
                      \/ RunIdleCallback(c) \/ RunGoneCallback(c)
    \/ Discovery
    \/ ShutdownBegin \/ Shutdown
    \/ Crash
    \/ Environment

Spec == Init /\ [][Next]_vars

(* Every goroutine that can take a step is scheduled, and every call to a  *)
(* service returns.  Users, VMs, other orchestrators and the environment   *)
(* owe nothing, except that expired devices go away.                       *)
Fairness ==
    /\ \A c \in Ctl : /\ WF_vars(CreateGoroutine(c))
                      /\ WF_vars(RemoveGoroutine(c))
                      /\ WF_vars(Monitor(c))
                      /\ WF_vars(RunIdleCallback(c))
                      /\ WF_vars(RunGoneCallback(c))
    /\ WF_vars(Discovery)
    /\ WF_vars(Shutdown)
    /\ \A v \in VMs : WF_vars(DeviceExpires(v))

FairSpec == Spec /\ Fairness

-----------------------------------------------------------------------------
(* Properties *)

Allocated(c) == ctl[c].key # None
Creating(c) == crt[c].pc \notin {"none", "done"}
Monitored(c) == ctl[c].mon \in {"select", "absent", "present"}

(* An entry of the registry is never a dead one: under key k is a          *)
(* controller for k that no one has stopped or is about to stop, and it is *)
(* being provisioned, or monitored, or it is marked failed.                *)
RegisteredIsDriven ==
    \A k \in Keys : reg[k] # None =>
        LET c == reg[k]
        IN  /\ ctl[c].key = k
            /\ rem[c].pc = "none"
            /\ \/ Creating(c) /\ ~ctl[c].started /\ ~ctl[c].cancelled
               \/ Monitored(c) /\ ~ctl[c].cancelled
               \/ ctl[c].state = "failed"

(* A controller loses its entry to another controller only when it is idle *)
(* or failed: neither CreateInstance nor discovery, racing each other and  *)
(* the callbacks, overwrites one that is launching or running.             *)
WorkingNeverReplaced ==
    [][\A k \in Keys :
          (reg[k] # None /\ reg'[k] \notin {None, reg[k]})
              => ctl[reg[k]].state \in {"idle", "failed"}]_vars

(* Two goroutines provision the same instance at once only when the older  *)
(* one's entry was deleted (or shut down) under it: creation requests      *)
(* alone never pay for a second VM.                                        *)
OneCreationPerKey ==
    \A c, d \in Ctl :
        (c < d /\ Creating(c) /\ Creating(d) /\ ctl[c].key = ctl[d].key)
            => rem[c].pc # "none"

(* A registered discovered controller whose peer is gone is on its way     *)
(* out: the callback that will remove it is pending.                       *)
GoneIsLeaving ==
    \A k \in Keys :
        (reg[k] # None /\ ctl[reg[k]].discovered /\ ctl[reg[k]].state = "idle")
            => goneCb[reg[k]] > 0

(* Stop always returns, in whatever state it finds the controller, and so  *)
(* a deletion always comes to its end.                                     *)
RemovalEnds ==
    \A c \in Ctl : (rem[c].pc \notin {"none", "queued", "done"})
                       ~> (rem[c].pc \in {"none", "done"})

ShutdownEnds == (shut.pc = "stopping") ~> (shut.pc # "stopping")

(* A VM that is up and in the tailnet gets a registry entry under its      *)
(* hostname, whoever created it and whatever this process lost.            *)
UpIsTracked ==
    \A v \in VMs :
        (vm[v] = "up" /\ v \in device)
            ~> \/ ~(vm[v] = "up" /\ v \in device)
               \/ reg[KeyOf(v)] # None
               \/ next > MaxCtl

OnlyVM(c) == \A v \in VMs \ {c} :
    vm[v] \in {"booting", "up"} => ListedAs[KeyOf(v)] # ctl[c].key

(* When DeleteInstance has been to the cloud for an instance that this     *)
(* process created and that is complete, the VM of that instance is gone,  *)
(* unless a call failed or another VM was listed under the same name       *)
(* (registry.go:216-265).  It rests on the provider listing the VM under   *)
(* its Tailscale hostname, which most do for exit nodes only.              *)
DeleteRemovesVM ==
    [][\A c \in Ctl :
          (/\ rem[c].pc = "cloud" /\ rem'[c].pc = "stop"
           /\ crt[c].pc = "done" /\ ListedAs[ctl[c].key] = ctl[c].key
           /\ OnlyVM(c) /\ faults' = 0) => vm'[c] = "gone"]_vars

(* How far DeleteInstance has come with a persistent instance that this    *)
(* process created and that was complete when it was taken out.            *)
PastFence(c) ==
    /\ rem[c].by = "delete" /\ ctl[c].key \in Persistent /\ ~ctl[c].discovered
    /\ rem[c].pc \in {"control", "cloud", "stop", "wait", "done"}

(* "Instant fencing": from the moment DeleteInstance of such an instance   *)
(* moves on to the device and the VM, the instance's R2 token is dead, and *)
(* it stays dead, whatever is created meanwhile under the same name        *)
(* (registry.go:248-254, r2.go:90-142).                                    *)
RunningIsFenced ==
    \A c \in Ctl : PastFence(c) /\ faults = 0 => c \notin tokens

(* Stop and Shutdown wait for nothing that cannot come: a Stop that waits  *)
(* (controller.go:334-342) has cancelled a controller whose monitor was    *)
(* started, Shutdown waits for a Stop it began (registry.go:388-402), and  *)
(* once it has returned all it took out is cancelled and stopped, although *)
(* callbacks and deletions stop controllers of the same keys meanwhile.    *)
ShutdownStopsEntries ==
    /\ \A c \in Ctl : rem[c].pc = "wait" => ctl[c].cancelled /\ ctl[c].mon # "off"
    /\ shut.cur # None => rem[shut.cur].pc \in {"stop", "wait", "done"}
    /\ shut.pc = "done" =>
          \A c \in Ctl : rem[c].by = "shutdown" =>
                            ctl[c].cancelled /\ rem[c].pc = "done"

-----------------------------------------------------------------------------
(* What comments and documents say of the program and it does not do.      *)

(* "Shutdown stops all controllers" (registry.go:388): a controller whose  *)
(* monitor runs when Shutdown begins is one it is going to stop, or some   *)
(* other goroutine is already removing it.                                 *)
ShutdownStopsAll ==
    [][\A c \in Ctl :
          (shut.pc = "no" /\ shut'.pc = "stopping" /\ Monitored(c))
              => rem'[c].pc # "none"]_vars

(* The peer-gone callback is "used for discovered controllers only"        *)
(* (registry.go:366): it never stops and removes a controller that         *)
(* CreateInstance made.                                                    *)
GoneRemovesOnlyDiscovered ==
    \A c \in Ctl : rem[c].by = "gone" => ctl[c].discovered

(* "Each VM gets a scoped R2 API token.  To fence an old writer,           *)
(* tscloudvpn deletes the token" (docs/service-runner-plan.md:61): the     *)
(* token of a registered, provisioned instance is not the one deleted.     *)
CurrentKeepsToken ==
    \A c \in Registered :
        (ctl[c].key \in Persistent /\ ctl[c].started /\ ~ctl[c].discovered)
            => c \in tokens

=============================================================================
