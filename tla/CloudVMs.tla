------------------------------ MODULE CloudVMs ------------------------------
(***************************************************************************)
(* Creating, listing and deleting VMs of one region, call by call, in the  *)
(* eight clouds of internal/providers: the network resources a creation    *)
(* looks for or makes first, the ladder of sizes of Azure and GCP, names   *)
(* that are unique per region or zone and names that are not, answers that *)
(* are lost, and a deletion that lists first and deletes by id afterwards. *)
(* InstanceRegistry takes each of these as one step with an outcome; here  *)
(* several creations and deletions are under way at once.                  *)
(*                                                                         *)
(* A VM is what its tags say: its owner, its service's instance and the    *)
(* call that made it.  Which sizes there are and what they cost is module  *)
(* Catalogue's.  The listing's hostname is taken to be the instance's.     *)
(***************************************************************************)
EXTENDS Naturals, FiniteSets

CONSTANTS
    Services,       \* the services with an instance in the region
    Zones,          \* the VM names of a cloud that names VMs by place
    LastSize,       \* the sizes of the region are 1..LastSize, cheapest first
    PageSize,       \* VMs on the one page of DigitalOcean's list that is read
    MaxCalls,       \* bound: creations
    MaxFaults,      \* bound: calls that fail or whose answer is lost
    MaxLost,        \* bound: VMs destroyed from outside
    NoVM            \* no VM of that id

ASSUME SizeAssumption  == LastSize \in Nat \ {0} /\ PageSize \in Nat \ {0}
ASSUME BoundAssumption == MaxCalls \in Nat /\ MaxFaults \in Nat /\ MaxLost \in Nat
ASSUME PlaceAssumption == Services # {} /\ Zones # {} /\ Zones \cap Nat = {}

VARIABLES
    cloud,      \* which of the clouds this is
    vm,         \* its VMs, by ProviderID
    net,        \* its network resources and tags that exist
    op,         \* CreateInstance calls, by number
    del,        \* DeleteInstance calls, by the creation of what they delete
    inst,       \* the registry's entries
    calls, faults, lost

vars == <<cloud, vm, net, op, del, inst, calls, faults, lost>>

Clouds == {"ec2", "gcp", "azure", "do", "hetzner", "linode", "vultr", "ssh"}

(* Azure and GCP name a VM after its region or zone, and the name is its   *)
(* ProviderID; the other clouds hand out a new id, here the call's number. *)
Calls == 1..MaxCalls
Ids   == Zones \cup (0..MaxCalls)
Sizes == 1..LastSize

Resources == {"group", "rule", "pip", "vnet", "nic", "tags"}
Needs(c)  == CASE c = "ec2"   -> {"group", "rule"}
               [] c = "gcp"   -> {"rule"}
               [] c = "azure" -> {"pip", "vnet", "nic"}
               [] c = "do"    -> {"tags"}
               [] OTHER       -> {}

Owners == {"me", "other", "untagged"}
VMType == [owner : Owners, svc : Services, call : 0..MaxCalls, size : Sizes]

ASSUME NoVMAssumption == NoVM \notin VMType

OpPCs  == {"unused", "look", "group", "rule", "pip", "vnet", "nic", "tags",
           "create", "wait", "created", "failed"}
OpType == [pc : OpPCs, svc : Services, zone : Zones \cup {0}, size : Sizes]

DelPCs  == {"none", "list", "inspect", "delete", "done"}
DelType == [pc : DelPCs, seen : SUBSET Ids, id : Ids]

(* size: the size whose hourly cost was recorded (SetHourlyCost). *)
InstType == [st : {"none", "launching", "up", "failed"},
             call : 0..MaxCalls, size : Sizes]

NoInst == [st |-> "none", call |-> 0, size |-> 1]
NoDel  == [pc |-> "none", seen |-> {}, id |-> 0]

Empty == [i \in Ids |-> NoVM]

AnyService == CHOOSE s \in Services : TRUE

(* The names a VM may get: GCP's is the zone's, Azure's the region's.      *)
RegionName == CHOOSE z \in Zones : TRUE

Places == CASE cloud = "gcp"   -> Zones
            [] cloud = "azure" -> {RegionName}
            [] OTHER           -> {0}

(* Another owner's VM, or one without an owner's tag, may be there first.  *)
Init ==
    /\ cloud \in Clouds
    /\ net = {}
    /\ \/ vm = Empty
       \/ \E o \in {"other", "untagged"}, i \in Places :
            vm = [Empty EXCEPT ![i] = [owner |-> o, svc |-> AnyService, call |-> 0, size |-> 1]]
    /\ op = [k \in Calls |-> [pc |-> "unused", svc |-> AnyService, zone |-> 0, size |-> 1]]
    /\ del = [k \in Calls |-> NoDel]
    /\ inst = [s \in Services |-> NoInst]
    /\ calls = 0 /\ faults = 0 /\ lost = 0

Fault   == faults < MaxFaults /\ faults' = faults + 1
NoFault == faults' = faults

(* What the tags of the region's VMs say.                                  *)
Exists == {i \in Ids : vm[i] # NoVM}

\* mutant: every VM of the program, whoever owns it
Mine_AnyOwner == {i \in Exists : vm[i].owner # "untagged"}

Mine == {i \in Exists : vm[i].owner = "me"}

-----------------------------------------------------------------------------
(* A creation ends with an instance or an error.  The registry's entry may *)
(* have been taken out meanwhile: then nobody records the answer.          *)
Goto(k, pc) == /\ op' = [op EXCEPT ![k].pc = pc]
               /\ UNCHANGED inst

Ends(k, pc, i) ==
    /\ op' = [op EXCEPT ![k].pc = pc]
    /\ inst' = [s \in Services |->
                  IF s = op[k].svc /\ inst[s].call = k THEN i ELSE inst[s]]

\* mutant: the cost of the cheapest size
Created_Cheapest(k) ==
    Ends(k, "created", [st |-> "up", call |-> k, size |-> 1])

Created(k) == Ends(k, "created", [st |-> "up", call |-> k, size |-> op[k].size])
Fails(k)   == Ends(k, "failed", [st |-> "failed", call |-> k, size |-> 1])

At(k, c, pc) == cloud = c /\ op[k].pc = pc

(* A resource created under its fixed name: refused when it exists. *)
Insert(k, r, next) ==
    /\ \/ r \notin net /\ net' = net \cup {r} /\ Goto(k, next) /\ NoFault
       \/ r \in net /\ UNCHANGED net /\ Fails(k) /\ NoFault
       \/ Fault /\ Fails(k) /\ net' \in {net, net \cup {r}}
    /\ UNCHANGED <<cloud, vm, del, calls, lost>>

(* A resource created or left as it is. *)
Upsert(k, r, next) ==
    /\ \/ net' = net \cup {r} /\ Goto(k, next) /\ NoFault
       \/ Fault /\ Fails(k) /\ net' \in {net, net \cup {r}}
    /\ UNCHANGED <<cloud, vm, del, calls, lost>>

(* EC2: the security group and its port rule, each made if it is missing.  *)
\* mutant: a group that exists is taken for complete
EC2DescribeGroup_AsIs(k) ==
    /\ At(k, "ec2", "look")
    /\ \/ Goto(k, IF "group" \notin net THEN "group" ELSE "create") /\ NoFault
       \/ Fault /\ Fails(k)
    /\ UNCHANGED <<cloud, vm, net, del, calls, lost>>

EC2DescribeGroup(k) ==
    /\ At(k, "ec2", "look")
    /\ \/ /\ Goto(k, IF "group" \notin net THEN "group"
                     ELSE IF "rule" \notin net THEN "rule" ELSE "create")
          /\ NoFault
       \/ Fault /\ Fails(k)
    /\ UNCHANGED <<cloud, vm, net, del, calls, lost>>

EC2CreateGroup(k) == At(k, "ec2", "group") /\ Insert(k, "group", "rule")

EC2AddPortRule(k) == At(k, "ec2", "rule") /\ Insert(k, "rule", "create")

(* GCP: any error of Get counts as a missing rule.  The zones listed before*)
(* it may fail.                                                            *)
GCPGetFirewall(k) ==
    /\ At(k, "gcp", "look")
    /\ \/ Goto(k, IF "rule" \in net THEN "create" ELSE "rule") /\ NoFault
       \/ Fault /\ (Fails(k) \/ Goto(k, "rule"))
    /\ UNCHANGED <<cloud, vm, net, del, calls, lost>>

GCPInsertFirewall(k) == At(k, "gcp", "rule") /\ Insert(k, "rule", "create")

(* Azure: public IP, network and interface of the region, all by upsert.   *)
(* A resource is there when its creation is accepted; a fault is a refusal *)
(* or a poll that fails.  What is made needs what it refers to: the cloud  *)
(* deletes interface and address with their VM (DeleteOptionsDelete).      *)
AzurePublicIP(k) == At(k, "azure", "pip")  /\ Upsert(k, "pip", "vnet")
AzureNetwork(k)  == At(k, "azure", "vnet") /\ Upsert(k, "vnet", "nic")

AzureNIC(k) ==
    /\ At(k, "azure", "nic")
    /\ \/ {"pip", "vnet"} \subseteq net /\ Upsert(k, "nic", "create")
       \/ /\ ~({"pip", "vnet"} \subseteq net) /\ Fails(k) /\ NoFault
          /\ UNCHANGED <<cloud, vm, net, del, calls, lost>>

WithoutVM(i) == IF cloud = "azure" /\ vm[i] # NoVM THEN net \ {"pip", "nic"} ELSE net

(* DigitalOcean: the tags exist before the droplet, and a name that does   *)
(* not do is refused here.                                                 *)
DOEnsureTags(k) ==
    /\ At(k, "do", "tags")
    /\ \/ Upsert(k, "tags", "create")
       \/ Fails(k) /\ NoFault /\ UNCHANGED <<cloud, vm, net, del, calls, lost>>

(* Vultr: the operating systems are listed for the image's id. *)
VultrListOS(k) ==
    /\ At(k, "vultr", "look")
    /\ \/ Goto(k, "create") /\ NoFault
       \/ Fault /\ Fails(k)
    /\ UNCHANGED <<cloud, vm, net, del, calls, lost>>

-----------------------------------------------------------------------------
(* The VM itself.                                                          *)
NewVM(k) == [owner |-> "me", svc |-> op[k].svc, call |-> k, size |-> op[k].size]

(* One call that answers with the VM's id, where free: the cloud may refuse*)
(* at any time, and a lost answer leaves a VM nobody knows of.             *)
CreateOnce(k, free) ==
    /\ \/ free /\ vm' = [vm EXCEPT ![k] = NewVM(k)] /\ Created(k) /\ NoFault
       \/ UNCHANGED vm /\ Fails(k) /\ NoFault
       \/ Fault /\ Fails(k) /\ free /\ vm' = [vm EXCEPT ![k] = NewVM(k)]
    /\ UNCHANGED <<cloud, net, del, calls, lost>>

(* Hetzner and Linode take a name once: all owners give the region's. *)
NameFree == \A i \in Exists : vm[i].owner = "untagged"

\* mutant: the droplet is tagged when it exists, and a bad tag is an error
DOCreateDroplet_TagsAfter(k) ==
    /\ At(k, "do", "create")
    /\ vm' = [vm EXCEPT ![k] = NewVM(k)]
    /\ Created(k) \/ Fails(k)
    /\ NoFault /\ UNCHANGED <<cloud, net, del, calls, lost>>

EC2RunInstances(k)   == At(k, "ec2", "create")     /\ CreateOnce(k, TRUE)
DOCreateDroplet(k)   == At(k, "do", "create")      /\ CreateOnce(k, TRUE)
HetznerCreate(k)     == At(k, "hetzner", "create") /\ CreateOnce(k, NameFree)
LinodeCreate(k)      == At(k, "linode", "create")  /\ CreateOnce(k, NameFree)
VultrCreate(k)       == At(k, "vultr", "create")   /\ CreateOnce(k, TRUE)
SSHDockerRun(k)      == At(k, "ssh", "create")     /\ CreateOnce(k, TRUE)

(* The ladder: after an error of any kind the next size is tried. *)
\* mutant: one size too many
NextSize_Beyond(k) ==
    IF op[k].size > LastSize THEN Fails(k)
    ELSE /\ op' = [op EXCEPT ![k].pc = "create", ![k].size = @ + 1]
         /\ UNCHANGED inst

NextSize(k) ==
    IF op[k].size = LastSize THEN Fails(k)
    ELSE /\ op' = [op EXCEPT ![k].pc = "create", ![k].size = @ + 1]
         /\ UNCHANGED inst

(* The zone is picked once for all sizes. *)
\* mutant: a zone for each attempt
Target_Any(k) == Zones

Target(k) == {op[k].zone}

GCPInsertVM(k) ==
    /\ At(k, "gcp", "create")
    /\ \E z \in Target(k) :
          \/ /\ vm[z] = NoVM /\ vm' = [vm EXCEPT ![z] = NewVM(k)]
             /\ Goto(k, "wait") /\ NoFault
          \/ UNCHANGED vm /\ NextSize(k) /\ NoFault
          \/ /\ Fault /\ NextSize(k)
             /\ vm[z] = NoVM /\ vm' = [vm EXCEPT ![z] = NewVM(k)]
    /\ UNCHANGED <<cloud, net, del, calls, lost>>

(* The operation may end with an error, then there is no VM, or the wait   *)
(* for it may fail, then there is.                                         *)
MadeBy(i, k) == vm[i] # NoVM /\ vm[i].call = k

\* mutant: the wait's error is dropped
GCPWait_Unchecked(k) ==
    /\ At(k, "gcp", "wait")
    /\ vm' \in {vm, [i \in Ids |-> IF MadeBy(i, k) THEN NoVM ELSE vm[i]]}
    /\ Created(k)
    /\ NoFault /\ UNCHANGED <<cloud, net, del, calls, lost>>

GCPWait(k) ==
    /\ At(k, "gcp", "wait")
    /\ \/ UNCHANGED vm /\ Created(k) /\ NoFault
       \/ /\ vm' = [i \in Ids |-> IF MadeBy(i, k) THEN NoVM ELSE vm[i]]
          /\ NextSize(k) /\ NoFault
       \/ UNCHANGED vm /\ NextSize(k) /\ Fault
    /\ UNCHANGED <<cloud, net, del, calls, lost>>

(* CreateOrUpdate over a VM of the same name changes its size and tags or  *)
(* is refused; whose VM it is makes no difference.                         *)
AzureBegin(k) ==
    /\ At(k, "azure", "create")
    /\ \E z \in Target(k) :
          \/ /\ "nic" \in net /\ vm' = [vm EXCEPT ![z] = NewVM(k)]
             /\ Goto(k, "wait") /\ NoFault
          \/ UNCHANGED vm /\ NextSize(k) /\ NoFault
          \/ /\ "nic" \in net /\ vm' = [vm EXCEPT ![z] = NewVM(k)]
             /\ NextSize(k) /\ Fault
    /\ UNCHANGED <<cloud, net, del, calls, lost>>

(* A VM that cannot be allocated stays as a resource, or does not. *)
AzurePoll(k) ==
    /\ At(k, "azure", "wait")
    /\ \/ UNCHANGED vm /\ Created(k) /\ NoFault
       \/ /\ vm' \in {vm, [i \in Ids |-> IF MadeBy(i, k) THEN NoVM ELSE vm[i]]}
          /\ NextSize(k) /\ NoFault
       \/ UNCHANGED vm /\ NextSize(k) /\ Fault
    /\ UNCHANGED <<cloud, net, del, calls, lost>>

(* The registry starts a creation when it has no entry or a failed one.    *)
First(c) == CASE c \in {"ec2", "gcp", "vultr"} -> "look"
              [] c = "azure" -> "pip"
              [] c = "do"    -> "tags"
              [] OTHER       -> "create"

CreateInstance(s) ==
    /\ inst[s].st \in {"none", "failed"}
    /\ calls < MaxCalls
    /\ LET k == calls + 1
       IN  /\ calls' = k
           /\ inst' = [inst EXCEPT ![s] = [st |-> "launching", call |-> k, size |-> 1]]
           /\ \E z \in Places :
                op' = [op EXCEPT ![k] = [pc |-> First(cloud), svc |-> s,
                                         zone |-> z, size |-> 1]]
    /\ UNCHANGED <<cloud, vm, net, del, faults, lost>>

Creation(k) ==
    \/ EC2DescribeGroup(k) \/ EC2CreateGroup(k) \/ EC2AddPortRule(k)
    \/ GCPGetFirewall(k) \/ GCPInsertFirewall(k)
    \/ AzurePublicIP(k) \/ AzureNetwork(k) \/ AzureNIC(k)
    \/ DOEnsureTags(k) \/ VultrListOS(k)
    \/ EC2RunInstances(k) \/ DOCreateDroplet(k) \/ HetznerCreate(k)
    \/ LinodeCreate(k) \/ VultrCreate(k) \/ SSHDockerRun(k)
    \/ GCPInsertVM(k) \/ GCPWait(k) \/ AzureBegin(k) \/ AzurePoll(k)

-----------------------------------------------------------------------------
(* What each cloud lists of the region: the VMs with this owner's tag.     *)
EC2List     == {Mine}
GCPList     == {Mine}
HetznerList == {Mine}
LinodeList  == {Mine}
VultrList   == {Mine}

(* Azure gets the VM of the region's name: without an owner tag it passes. *)
AzureList == {{i \in Exists : vm[i].owner # "other"}}

(* DigitalOcean reads one page. *)
DOList == {p \in SUBSET Mine :
              Cardinality(p) = PageSize \/ (p = Mine /\ Cardinality(p) < PageSize)}

SSHPs == {Mine}

Listing == CASE cloud = "ec2"     -> EC2List
             [] cloud = "gcp"     -> GCPList
             [] cloud = "azure"   -> AzureList
             [] cloud = "do"      -> DOList
             [] cloud = "hetzner" -> HetznerList
             [] cloud = "linode"  -> LinodeList
             [] cloud = "vultr"   -> VultrList
             [] cloud = "ssh"     -> SSHPs

(* The registry takes the entry out and then deletes the first VM listed   *)
(* under the instance's name.  A failed entry has nothing to delete.       *)
DeleteInstance(s) ==
    /\ inst[s].st # "none"
    /\ inst' = [inst EXCEPT ![s] = NoInst]
    /\ del' = IF inst[s].st = "failed" THEN del
              ELSE [del EXCEPT ![inst[s].call].pc = "list"]
    /\ UNCHANGED <<cloud, vm, net, op, calls, faults, lost>>

DelEnds(k) == del' = [del EXCEPT ![k] = [NoDel EXCEPT !.pc = "done"]]

Choose(k, found) ==
    LET named == {i \in found : vm[i].svc = op[k].svc}
    IN  IF named = {} THEN DelEnds(k)
        ELSE \E i \in named :
                del' = [del EXCEPT ![k] = [pc |-> "delete", seen |-> {}, id |-> i]]

ListInstances(k) ==
    /\ del[k].pc = "list"
    /\ \/ Fault /\ DelEnds(k)
       \/ /\ NoFault
          /\ \E found \in Listing :
               IF cloud = "ssh" /\ found # {}
               THEN del' = [del EXCEPT ![k] = [pc |-> "inspect", seen |-> found, id |-> 0]]
               ELSE Choose(k, found)
    /\ UNCHANGED <<cloud, vm, net, op, inst, calls, lost>>

(* docker inspect fails as a whole when one of the containers is gone. *)
SSHInspect(k) ==
    /\ del[k].pc = "inspect"
    /\ \/ Fault /\ DelEnds(k)
       \/ /\ NoFault
          /\ IF del[k].seen \subseteq Exists THEN Choose(k, del[k].seen)
                                             ELSE DelEnds(k)
    /\ UNCHANGED <<cloud, vm, net, op, inst, calls, lost>>

(* By id, whatever runs under it by now. *)
DeleteVM(k) ==
    /\ del[k].pc = "delete"
    /\ \/ vm' = [vm EXCEPT ![del[k].id] = NoVM] /\ net' = WithoutVM(del[k].id) /\ NoFault
       \/ UNCHANGED <<vm, net>> /\ Fault
    /\ DelEnds(k)
    /\ UNCHANGED <<cloud, op, inst, calls, lost>>

Deletion(k) == ListInstances(k) \/ SSHInspect(k) \/ DeleteVM(k)

(* A VM ends without the program: through the console, by the cloud, as a  *)
(* container that exits, or collected as an orphan.                        *)
Lost(i) ==
    /\ lost < MaxLost /\ lost' = lost + 1
    /\ vm[i] # NoVM
    /\ vm' = [vm EXCEPT ![i] = NoVM]
    /\ net' = WithoutVM(i)
    /\ UNCHANGED <<cloud, op, del, inst, calls, faults>>

Next == \/ \E s \in Services : CreateInstance(s) \/ DeleteInstance(s)
        \/ \E k \in Calls : Creation(k) \/ Deletion(k)
        \/ \E i \in Ids : Lost(i)

Spec == Init /\ [][Next]_vars

-----------------------------------------------------------------------------
TypeOK == /\ cloud \in Clouds
          /\ vm \in [Ids -> VMType \cup {NoVM}]
          /\ net \subseteq Resources
          /\ op \in [Calls -> OpType]
          /\ del \in [Calls -> DelType]
          /\ inst \in [Services -> InstType]
          /\ calls \in 0..MaxCalls
          /\ faults \in 0..MaxFaults
          /\ lost \in 0..MaxLost

(* However many sizes a creation tries and whatever answers it loses, it   *)
(* never leaves two VMs behind: the name is chosen before the ladder       *)
(* (gcp.go:643-644, azure.go:192) and the other clouds get one call.       *)
OneVMPerCall ==
    \A i, j \in Exists : (vm[i].call = vm[j].call /\ vm[i].call > 0) => i = j

(* "If the controller failed, no cloud resources to clean up"              *)
(* (registry.go:228) is true unless an answer was lost; Azure may keep a VM*)
(* it could not allocate.                                                  *)
FailedLeavesNothing ==
    \A i \in Exists :
        /\ vm[i].call > 0
        /\ op[vm[i].call].pc = "failed"
        => faults > 0 \/ cloud = "azure"

(* The hourly cost recorded for an instance is that of the size it runs on,*)
(* although earlier sizes were refused or are thought to have failed.      *)
BilledAsBuilt ==
    \A s \in Services : \A i \in Exists :
        inst[s].st = "up" /\ vm[i].call = inst[s].call => vm[i].size = inst[s].size

(* No VM comes up behind a closed port: whoever made the group or the rule,*)
(* and however that ended, a VM of ours has all it needs around it         *)
(* (getOrCreateSecurityGroup, getOrCreateFirewallRule).                    *)
NetworkFirst == \A i \in Mine : Needs(cloud) \subseteq net

OthersVMs == {i \in Exists : vm[i].owner = "other"}

(* What the contract sees: a call with its answer, who made the VM of an   *)
(* id, and whether VMs are being taken away.                               *)
Asked(k) == CASE op[k].pc \in {"unused", "created", "failed"} -> op[k].pc
              [] OTHER -> "asked"

Maker(i) == IF vm[i] = NoVM THEN 0 ELSE vm[i].call

Disturbed == lost > 0 \/ \E k \in Calls : del[k].pc # "none"

Contract == INSTANCE Provider WITH
    Nobody   <- 0,
    byName   <- cloud = "azure",
    call     <- [k \in Calls |-> Asked(k)],
    made     <- [i \in Ids |-> Maker(i)],
    trouble  <- faults > 0,
    removing <- Disturbed

(* Every cloud promises what the registry counts on when it records the    *)
(* outcome of a creation (registry.go:145-157), however the calls of       *)
(* several creations and deletions interleave: one that reports an         *)
(* instance has made one VM, one that reports an error none.               *)
ImplementsProvider == Contract!ProviderSpec

(* Nothing this owner does touches a VM that carries another owner's tag,  *)
(* though deletions go by id and ids are used again (registry.go:288-306). *)
(* Azure is the exception: its creation overwrites by name.                *)
OthersAreKept ==
    [][cloud = "azure" \/ lost' # lost \/
       \A i \in OthersVMs : vm'[i] = vm[i]]_vars

=============================================================================
