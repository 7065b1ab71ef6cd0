-------------------------- MODULE CloudVMs_proofs --------------------------
(***************************************************************************)
(* Theorems about CloudVMs, for any number of services, zones, sizes,      *)
(* calls and failures.                                                     *)
(***************************************************************************)
EXTENDS CloudVMs, TLAPS

-----------------------------------------------------------------------------
(* The inductive invariant.                                                *)

(* The id of the VM that call k makes: chosen before its first attempt.    *)
Home(k) == IF cloud \in {"gcp", "azure"} THEN op[k].zone ELSE k

(* Calls are given out in order, and a VM's call is one of them. *)
Allocated ==
    /\ \A k \in Calls : k > calls <=> op[k].pc = "unused"
    /\ \A i \in Exists : vm[i].call <= calls

(* A call's VM is in the call's place, and is ours; the VMs that were      *)
(* there before are somebody else's, in a place a call may want.           *)
Placed ==
    /\ \A i \in Exists : /\ vm[i].call > 0 => i = Home(vm[i].call) /\ vm[i].owner = "me"
                         /\ vm[i].call = 0 => i \in Places /\ vm[i].owner # "me"
    /\ \A k \in Calls : op[k].pc # "unused" => op[k].zone \in Places

(* From the cloud's answer on, a call's VM has the size of its last try.   *)
Sized ==
    \A k \in Calls : op[k].pc \in {"wait", "created"} =>
        \A i \in Exists : vm[i].call = k => vm[i].size = op[k].size

(* Without lost answers a VM belongs to a call that waits or has ended     *)
(* well; Azure may keep what it could not allocate.                        *)
Accounted ==
    \/ faults > 0 \/ cloud = "azure"
    \/ \A i \in Exists : vm[i].call > 0 => op[vm[i].call].pc \in {"wait", "created"}

(* An instance that is up is a call that ended well, at its size. *)
Recorded ==
    \A s \in Services : inst[s].st = "up" =>
        /\ inst[s].call \in Calls
        /\ op[inst[s].call].pc = "created"
        /\ inst[s].size = op[inst[s].call].size

(* What a deletion has chosen is ours, or gone. *)
OursOrGone(i) == i \in Exists => vm[i].owner = "me"
Chosen ==
    cloud # "azure" =>
        \A k \in Calls : /\ del[k].pc = "delete" => OursOrGone(del[k].id)
                         /\ del[k].pc = "inspect" => \A i \in del[k].seen : OursOrGone(i)

(* The network is complete where a VM may be made; Azure's interface needs *)
(* the other two.                                                          *)
Networked ==
    /\ cloud # "azure" => \A k \in Calls : op[k].pc \in {"create", "wait"}
                                              => Needs(cloud) \subseteq net
    /\ cloud = "ec2" => \A k \in Calls : op[k].pc = "rule" => "group" \in net
    /\ cloud = "azure" /\ "nic" \in net => {"pip", "vnet"} \subseteq net

IInv == /\ TypeOK /\ Allocated /\ Placed /\ Sized /\ Accounted /\ Recorded
        /\ Chosen /\ Networked /\ NetworkFirst

-----------------------------------------------------------------------------
(* How a step of a creation moves the call, its entry and the VMs.         *)

(* The call goes on to r. *)
Step(k, r) ==
    /\ op[k].pc \notin {"unused", "created", "failed"}
    /\ r \in OpType /\ r.svc = op[k].svc /\ r.zone = op[k].zone
    /\ r.pc # "unused"
    /\ r.pc \in {"wait", "created"} => r.size = op[k].size
    /\ op' = [op EXCEPT ![k] = r]

(* The registry hears nothing, or the call's end.                          *)
Answer(k, r) ==
    \/ UNCHANGED inst
    \/ \E a \in InstType :
          /\ a.st = "up" => a.call = k /\ r.pc = "created" /\ a.size = r.size
          /\ inst' = [s \in Services |->
                        IF s = op[k].svc /\ inst[s].call = k THEN a ELSE inst[s]]

Moves(k, pcs) == \E r : Step(k, r) /\ Answer(k, r) /\ r.pc \in pcs

(* The VMs stay, the call's VM is made, or it is taken away. *)
Same(k) == /\ vm' = vm
           /\ op'[k].pc \in {"wait", "created"} => op[k].pc = "wait"
           /\ op[k].pc = "wait" => \/ op'[k].pc \in {"wait", "created"}
                                   \/ faults' > 0 \/ cloud = "azure"

Makes(k) == /\ vm' = [vm EXCEPT ![Home(k)] = NewVM(k)]
            /\ op'[k].pc \in {"wait", "created"} \/ faults' > 0
            /\ cloud = "gcp" => vm[Home(k)] = NoVM

Unmakes(k) == /\ vm' = [i \in Ids |-> IF MadeBy(i, k) THEN NoVM ELSE vm[i]]
              /\ op'[k].pc \notin {"wait", "created"}

Effect(k) == /\ Moves(k, OpPCs)
             /\ Same(k) \/ Makes(k) \/ Unmakes(k)
             /\ faults' = faults \/ (faults < MaxFaults /\ faults' = faults + 1)
             /\ UNCHANGED <<cloud, del, calls, lost>>

LEMMA GotoMoves ==
  ASSUME TypeOK, NEW k \in Calls, NEW pc \in OpPCs \ {"unused"},
         op[k].pc \notin {"unused", "created", "failed"}, Goto(k, pc)
  PROVE  Moves(k, {pc}) /\ op'[k].pc = pc
<1> DEFINE r == [op[k] EXCEPT !.pc = pc]
<1>1. op[k] \in OpType BY DEF TypeOK
<1>2. r \in OpType /\ r.pc = pc /\ r.svc = op[k].svc /\ r.zone = op[k].zone /\ r.size = op[k].size
  BY <1>1 DEF OpType
<1>3. op' = [op EXCEPT ![k] = r] /\ UNCHANGED inst
  BY <1>1 DEF Goto, TypeOK
<1> HIDE DEF r
<1> QED BY <1>2, <1>3 DEF Moves, Step, Answer, TypeOK

LEMMA EndMoves ==
  ASSUME TypeOK, NEW k \in Calls,
         op[k].pc \notin {"unused", "created", "failed"}
  PROVE  /\ Created(k) => Moves(k, {"created"}) /\ op'[k].pc = "created"
         /\ Fails(k) => Moves(k, {"failed"}) /\ op'[k].pc = "failed"
<1>1. ASSUME NEW pc \in {"created", "failed"}, NEW a \in InstType, Ends(k, pc, a),
             a.st = "up" => a.call = k /\ pc = "created" /\ a.size = op[k].size
      PROVE  Moves(k, {pc}) /\ op'[k].pc = pc
  <2> DEFINE r == [op[k] EXCEPT !.pc = pc]
  <2>1. op[k] \in OpType BY DEF TypeOK
  <2>2. r \in OpType /\ r.pc = pc /\ r.svc = op[k].svc /\ r.zone = op[k].zone /\ r.size = op[k].size
    BY <2>1 DEF OpType, OpPCs
  <2>3. /\ op' = [op EXCEPT ![k] = r]
        /\ inst' = [s \in Services |->
                      IF s = op[k].svc /\ inst[s].call = k THEN a ELSE inst[s]]
    BY <1>1, <2>1 DEF Ends, TypeOK
  <2> HIDE DEF r
  <2>4. Answer(k, r) BY <1>1, <2>2, <2>3 DEF Answer
  <2> QED BY <2>2, <2>3, <2>4 DEF Moves, Step, TypeOK
<1>2. op[k].size \in Sizes /\ k \in 0..MaxCalls /\ 1 \in Sizes
  BY SizeAssumption, BoundAssumption DEF TypeOK, OpType, Calls, Sizes
<1>3. /\ [st |-> "up", call |-> k, size |-> op[k].size] \in InstType
      /\ [st |-> "failed", call |-> k, size |-> 1] \in InstType
  BY <1>2 DEF InstType
<1> QED BY <1>1, <1>3 DEF Created, Fails

LEMMA NextSizeMoves ==
  ASSUME TypeOK, NEW k \in Calls, NextSize(k),
         op[k].pc \notin {"unused", "created", "failed"}
  PROVE  Moves(k, {"create", "failed"}) /\ op'[k].pc \in {"create", "failed"}
<1>1. CASE op[k].size = LastSize
  BY <1>1, EndMoves DEF NextSize, Moves
<1>2. CASE op[k].size # LastSize
  <2> DEFINE r == [op[k] EXCEPT !.pc = "create", !.size = @ + 1]
  <2>1. op[k] \in OpType BY DEF TypeOK
  <2>2. op[k].size + 1 \in Sizes
    BY <1>2, <2>1, SizeAssumption DEF OpType, Sizes
  <2>3. r \in OpType /\ r.pc = "create" /\ r.svc = op[k].svc /\ r.zone = op[k].zone
    BY <2>1, <2>2 DEF OpType, OpPCs
  <2>4. op' = [op EXCEPT ![k] = r] /\ UNCHANGED inst
    BY <1>2, <2>1 DEF NextSize, TypeOK, OpType
  <2> HIDE DEF r
  <2> QED BY <2>3, <2>4 DEF Moves, Step, Answer, TypeOK
<1> QED BY <1>1, <1>2
LEMMA MoreMoves ==
  ASSUME NEW k, NEW pcs \in SUBSET OpPCs, Moves(k, pcs)
  PROVE  Moves(k, OpPCs)
BY DEF Moves

(* A call that looks for or makes a resource makes no VM. *)
LEMMA ResourceStep ==
  ASSUME TypeOK, NEW k \in Calls, NEW next \in OpPCs \ {"unused", "wait", "created"},
         op[k].pc \notin {"unused", "wait", "created", "failed"},
         Goto(k, next) \/ Fails(k), UNCHANGED <<cloud, vm, del, calls, lost>>,
         NoFault \/ Fault
  PROVE  Effect(k)
<1>1. Moves(k, OpPCs) /\ op'[k].pc \notin {"wait", "created"}
  <2>1. CASE Goto(k, next)
    BY <2>1, GotoMoves, MoreMoves
  <2>2. CASE Fails(k)
    BY <2>2, EndMoves, MoreMoves DEF OpPCs
  <2> QED BY <2>1, <2>2
<1> QED BY <1>1 DEF Effect, Same, NoFault, Fault

LEMMA CreateOnceStep ==
  ASSUME TypeOK, NEW k \in Calls, NEW free, op[k].pc = "create",
         cloud \notin {"gcp", "azure"}, CreateOnce(k, free)
  PROVE  Effect(k)
<1>1. \/ Created(k) /\ NoFault /\ vm' = [vm EXCEPT ![k] = NewVM(k)]
      \/ Fails(k) /\ NoFault /\ UNCHANGED vm
      \/ Fails(k) /\ Fault /\ vm' = [vm EXCEPT ![k] = NewVM(k)]
  BY DEF CreateOnce
<1>2. Home(k) = k /\ faults \in Nat
  BY BoundAssumption DEF Home, TypeOK
<1>3. /\ Created(k) => Moves(k, OpPCs) /\ op'[k].pc = "created"
      /\ Fails(k) => Moves(k, OpPCs) /\ op'[k].pc = "failed"
  BY EndMoves, MoreMoves DEF OpPCs
<1>4. UNCHANGED <<cloud, del, calls, lost>>
  BY DEF CreateOnce
<1> QED BY <1>1, <1>2, <1>3, <1>4 DEF Effect, Same, Makes, NoFault, Fault

LEMMA LadderStep ==
  ASSUME TypeOK, NEW k \in Calls, GCPInsertVM(k) \/ AzureBegin(k)
  PROVE  Effect(k)
<1>1. /\ cloud \in {"gcp", "azure"} /\ op[k].pc = "create"
      /\ UNCHANGED <<cloud, del, calls, lost>>
  BY DEF GCPInsertVM, AzureBegin, At
<1> DEFINE z == op[k].zone
     Made == /\ vm' = [vm EXCEPT ![z] = NewVM(k)]
             /\ cloud = "gcp" => vm[z] = NoVM
<1>2. \/ Goto(k, "wait") /\ NoFault /\ Made
      \/ NextSize(k) /\ NoFault /\ UNCHANGED vm
      \/ NextSize(k) /\ Fault /\ Made
  BY DEF GCPInsertVM, AzureBegin, At, Target
<1>3. Home(k) = z /\ faults \in Nat
  BY <1>1, BoundAssumption DEF Home, TypeOK
<1> HIDE DEF z
<1>4. CASE Goto(k, "wait") /\ NoFault /\ Made
  <2>1. Moves(k, OpPCs) /\ op'[k].pc = "wait"
    BY <1>1, <1>4, GotoMoves, MoreMoves DEF OpPCs
  <2> QED BY <1>1, <1>3, <1>4, <2>1 DEF Effect, Makes, NoFault
<1>5. CASE NextSize(k) /\ NoFault /\ UNCHANGED vm
  <2>1. Moves(k, OpPCs) /\ op'[k].pc \in {"create", "failed"}
    BY <1>1, <1>5, NextSizeMoves, MoreMoves DEF OpPCs
  <2> QED BY <1>1, <1>5, <2>1 DEF Effect, Same, NoFault
<1>6. CASE NextSize(k) /\ Fault /\ Made
  <2>1. Moves(k, OpPCs) /\ op'[k].pc \in {"create", "failed"}
    BY <1>1, <1>6, NextSizeMoves, MoreMoves DEF OpPCs
  <2> QED BY <1>1, <1>3, <1>6, <2>1 DEF Effect, Makes, Fault
<1> QED BY <1>2, <1>4, <1>5, <1>6

LEMMA WaitStep ==
  ASSUME TypeOK, NEW k \in Calls, GCPWait(k) \/ AzurePoll(k)
  PROVE  Effect(k)
<1>1. /\ cloud \in {"gcp", "azure"} /\ op[k].pc = "wait"
      /\ UNCHANGED <<cloud, del, calls, lost>>
  BY DEF GCPWait, AzurePoll, At
<1>2. \/ UNCHANGED vm /\ Created(k) /\ NoFault
      \/ UNCHANGED vm /\ NextSize(k) /\ (Fault \/ (cloud = "azure" /\ NoFault))
      \/ /\ vm' = [i \in Ids |-> IF MadeBy(i, k) THEN NoVM ELSE vm[i]]
         /\ NextSize(k) /\ NoFault
  BY DEF GCPWait, AzurePoll, At
<1>3. faults \in Nat BY BoundAssumption DEF TypeOK
<1>4. CASE UNCHANGED vm /\ Created(k) /\ NoFault
  <2>1. Moves(k, OpPCs) /\ op'[k].pc = "created"
    BY <1>1, <1>4, EndMoves, MoreMoves DEF OpPCs
  <2> QED BY <1>1, <1>4, <2>1 DEF Effect, Same, NoFault
<1>5. ASSUME NextSize(k) PROVE Moves(k, OpPCs) /\ op'[k].pc \in {"create", "failed"}
  BY <1>1, <1>5, NextSizeMoves, MoreMoves DEF OpPCs
<1>6. CASE UNCHANGED vm /\ NextSize(k) /\ (Fault \/ (cloud = "azure" /\ NoFault))
  BY <1>1, <1>3, <1>5, <1>6 DEF Effect, Same, Fault, NoFault
<1>7. CASE /\ vm' = [i \in Ids |-> IF MadeBy(i, k) THEN NoVM ELSE vm[i]]
           /\ NextSize(k) /\ NoFault
  BY <1>1, <1>5, <1>7 DEF Effect, Unmakes, NoFault
<1> QED BY <1>2, <1>4, <1>6, <1>7

LEMMA CreationEffect ==
  ASSUME TypeOK, NEW k \in Calls, Creation(k)
  PROVE  Effect(k)
<1>1. CASE \/ EC2DescribeGroup(k) \/ EC2CreateGroup(k) \/ EC2AddPortRule(k)
           \/ GCPGetFirewall(k) \/ GCPInsertFirewall(k) \/ AzurePublicIP(k)
           \/ AzureNetwork(k) \/ AzureNIC(k) \/ DOEnsureTags(k) \/ VultrListOS(k)
  <2>1. /\ op[k].pc \notin {"unused", "wait", "created", "failed"}
        /\ UNCHANGED <<cloud, vm, del, calls, lost>>
        /\ NoFault \/ Fault
    BY <1>1 DEF EC2DescribeGroup, EC2CreateGroup, EC2AddPortRule, GCPGetFirewall,
         GCPInsertFirewall, AzurePublicIP, AzureNetwork, AzureNIC, DOEnsureTags,
         VultrListOS, At, Insert, Upsert
  <2>2. \E next \in {"group", "rule", "create", "vnet", "nic"} : Goto(k, next) \/ Fails(k)
    BY <1>1 DEF EC2DescribeGroup, EC2CreateGroup, EC2AddPortRule, GCPGetFirewall,
         GCPInsertFirewall, AzurePublicIP, AzureNetwork, AzureNIC, DOEnsureTags,
         VultrListOS, Insert, Upsert
  <2>3. {"group", "rule", "create", "vnet", "nic"} \subseteq OpPCs \ {"unused", "wait", "created"}
    BY DEF OpPCs
  <2> QED BY <2>1, <2>2, <2>3, ResourceStep
<1>2. CASE \/ EC2RunInstances(k) \/ DOCreateDroplet(k) \/ HetznerCreate(k)
           \/ LinodeCreate(k) \/ VultrCreate(k) \/ SSHDockerRun(k)
  <2>1. PICK free : /\ op[k].pc = "create" /\ cloud \notin {"gcp", "azure"}
                    /\ CreateOnce(k, free)
    BY <1>2 DEF EC2RunInstances, DOCreateDroplet, HetznerCreate, LinodeCreate,
         VultrCreate, SSHDockerRun, At
  <2> QED BY <2>1, CreateOnceStep
<1> QED BY <1>1, <1>2, LadderStep, WaitStep DEF Creation
-----------------------------------------------------------------------------
(* Types. *)

LEMMA PlacesAreIds == Places \subseteq Ids /\ Places \subseteq Zones \cup {0}
<1>1. RegionName \in Zones BY PlaceAssumption DEF RegionName
<1>2. 0 \in 0..MaxCalls BY BoundAssumption
<1> QED BY <1>1, <1>2 DEF Places, Ids

LEMMA HomeIsId ==
  ASSUME TypeOK, NEW k \in Calls
  PROVE  Home(k) \in Ids
<1>1. k \in 0..MaxCalls /\ 0 \in 0..MaxCalls BY BoundAssumption DEF Calls
<1>2. op[k].zone \in Zones \cup {0} BY DEF TypeOK, OpType
<1> QED BY <1>1, <1>2 DEF Home, Ids

LEMMA NewIsVM ==
  ASSUME TypeOK, NEW k \in Calls
  PROVE  NewVM(k) \in VMType /\ NewVM(k) # NoVM /\ NewVM(k).call = k
<1>1. op[k] \in OpType BY DEF TypeOK
<1>2. k \in 0..MaxCalls BY BoundAssumption DEF Calls
<1> QED BY <1>1, <1>2, NoVMAssumption DEF NewVM, VMType, OpType, Owners

LEMMA EffectType ==
  ASSUME TypeOK, NEW k \in Calls, Effect(k), net' \subseteq Resources
  PROVE  TypeOK'
<1>1. op' \in [Calls -> OpType]
  BY DEF TypeOK, Effect, Moves, Step
<1>2. inst' \in [Services -> InstType]
  <2>1. PICK r : Answer(k, r) BY DEF Effect, Moves
  <2> QED BY <2>1 DEF TypeOK, Answer
<1>3. NewVM(k) \in VMType BY NewIsVM
<1>4. vm' \in [Ids -> VMType \cup {NoVM}]
  BY <1>3, HomeIsId DEF TypeOK, Effect, Same, Makes, Unmakes
<1>5. faults' \in 0..MaxFaults
  BY BoundAssumption DEF TypeOK, Effect
<1> QED BY <1>1, <1>2, <1>4, <1>5 DEF TypeOK, Effect

LEMMA NetType ==
  ASSUME TypeOK, NEW k \in Calls, Creation(k)
  PROVE  net' \subseteq Resources
BY DEF TypeOK, Resources, Creation, EC2DescribeGroup, EC2CreateGroup, EC2AddPortRule,
   GCPGetFirewall, GCPInsertFirewall, AzurePublicIP, AzureNetwork, AzureNIC,
   DOEnsureTags, VultrListOS, EC2RunInstances, DOCreateDroplet, HetznerCreate,
   LinodeCreate, VultrCreate, SSHDockerRun, GCPInsertVM, GCPWait, AzureBegin,
   AzurePoll, Insert, Upsert, CreateOnce

LEMMA ListingIsIds == TypeOK => \A found \in Listing : found \subseteq Exists
BY DEF TypeOK, Listing, EC2List, GCPList, HetznerList, LinodeList, VultrList,
       AzureList, DOList, SSHPs, Mine, Clouds

LEMMA ChooseType ==
  ASSUME TypeOK, NEW k \in Calls, NEW found \in SUBSET Ids, Choose(k, found)
  PROVE  del' \in [Calls -> DelType]
<1>1. 0 \in Ids BY BoundAssumption DEF Ids
<1>2. \A i \in Ids : [pc |-> "delete", seen |-> {}, id |-> i] \in DelType
  BY DEF DelType, DelPCs
<1>3. [NoDel EXCEPT !.pc = "done"] \in DelType
  BY <1>1 DEF NoDel, DelType, DelPCs
<1> QED BY <1>2, <1>3 DEF Choose, DelEnds, TypeOK

LEMMA DeletionType ==
  ASSUME TypeOK, NEW k \in Calls, Deletion(k)
  PROVE  TypeOK'
<1>1. 0 \in Ids BY BoundAssumption DEF Ids
<1>2. [NoDel EXCEPT !.pc = "done"] \in DelType
  BY <1>1 DEF NoDel, DelType, DelPCs
<1>3. DelEnds(k) => del' \in [Calls -> DelType]
  BY <1>2 DEF DelEnds, TypeOK
<1>4. NoFault \/ Fault => faults' \in 0..MaxFaults
  BY BoundAssumption DEF TypeOK, NoFault, Fault
<1>5. CASE ListInstances(k)
  <2>1. del' \in [Calls -> DelType]
    <3>1. CASE DelEnds(k) BY <3>1, <1>3
    <3>2. ASSUME NEW found \in Listing,
                 del' = [del EXCEPT ![k] = [pc |-> "inspect", seen |-> found, id |-> 0]]
          PROVE  del' \in [Calls -> DelType]
      <4>1. found \subseteq Ids BY ListingIsIds DEF Exists
      <4>2. [pc |-> "inspect", seen |-> found, id |-> 0] \in DelType
        BY <1>1, <4>1 DEF DelType, DelPCs
      <4> QED BY <3>2, <4>2 DEF TypeOK
    <3>3. ASSUME NEW found \in Listing, Choose(k, found)
          PROVE  del' \in [Calls -> DelType]
      BY <3>3, ListingIsIds, ChooseType DEF Exists
    <3> QED BY <1>5, <3>1, <3>2, <3>3 DEF ListInstances
  <2> QED BY <1>4, <1>5, <2>1 DEF ListInstances, TypeOK
<1>6. CASE SSHInspect(k)
  <2>1. del[k].seen \in SUBSET Ids BY DEF TypeOK, DelType
  <2>2. del' \in [Calls -> DelType]
    BY <1>3, <1>6, <2>1, ChooseType DEF SSHInspect
  <2> QED BY <1>4, <1>6, <2>2 DEF SSHInspect, TypeOK
<1>7. CASE DeleteVM(k)
  <2>1. vm' \in [Ids -> VMType \cup {NoVM}] /\ net' \subseteq Resources
    BY <1>7 DEF DeleteVM, TypeOK, WithoutVM
  <2> QED BY <1>3, <1>4, <1>7, <2>1 DEF DeleteVM, TypeOK
<1> QED BY <1>5, <1>6, <1>7 DEF Deletion

LEMMA TypePreserved == TypeOK /\ [Next]_vars => TypeOK'
<1> SUFFICES ASSUME TypeOK, [Next]_vars PROVE TypeOK' OBVIOUS
<1>0. 1 \in Sizes /\ 0 \in Ids /\ 0 \in 0..MaxCalls
  BY SizeAssumption, BoundAssumption DEF Sizes, Ids
<1>1. ASSUME NEW s \in Services, CreateInstance(s) PROVE TypeOK'
  <2>1. calls + 1 \in Calls /\ calls + 1 \in 0..MaxCalls
    BY <1>1, BoundAssumption DEF CreateInstance, TypeOK, Calls
  <2>2. [st |-> "launching", call |-> calls + 1, size |-> 1] \in InstType
    BY <1>0, <2>1 DEF InstType
  <2>3. inst' \in [Services -> InstType]
    BY <1>1, <2>2 DEF CreateInstance, TypeOK
  <2>4. \A z \in Places : [pc |-> First(cloud), svc |-> s, zone |-> z, size |-> 1] \in OpType
    BY <1>0, PlacesAreIds DEF OpType, OpPCs, First, TypeOK
  <2>5. op' \in [Calls -> OpType]
    BY <1>1, <2>4 DEF CreateInstance, TypeOK
  <2> QED BY <1>1, <2>1, <2>3, <2>5 DEF CreateInstance, TypeOK
<1>2. ASSUME NEW s \in Services, DeleteInstance(s) PROVE TypeOK'
  <2>1. NoInst \in InstType BY <1>0 DEF NoInst, InstType
  <2>2. inst' \in [Services -> InstType]
    BY <1>2, <2>1 DEF DeleteInstance, TypeOK
  <2>3. \A k \in Calls : [del[k] EXCEPT !.pc = "list"] \in DelType
    BY DEF TypeOK, DelType, DelPCs
  <2>4. del' \in [Calls -> DelType]
    BY <1>2, <2>3 DEF DeleteInstance, TypeOK
  <2> QED BY <1>2, <2>2, <2>4 DEF DeleteInstance, TypeOK
<1>3. ASSUME NEW k \in Calls, Creation(k) PROVE TypeOK'
  BY <1>3, CreationEffect, NetType, EffectType
<1>4. ASSUME NEW k \in Calls, Deletion(k) PROVE TypeOK'
  BY <1>4, DeletionType
<1>5. ASSUME NEW i \in Ids, Lost(i) PROVE TypeOK'
  BY <1>5, BoundAssumption DEF Lost, WithoutVM, TypeOK
<1>6. CASE UNCHANGED vars
  BY <1>6 DEF vars, TypeOK
<1> QED BY <1>1, <1>2, <1>3, <1>4, <1>5, <1>6 DEF Next
-----------------------------------------------------------------------------
(* Calls and their VMs. *)

VMFacts == Allocated /\ Placed /\ Sized /\ Accounted

(* A VM of call k is in k's place, and k has been given out. *)
LEMMA OwnVM ==
  ASSUME TypeOK, VMFacts, NEW i \in Exists, vm[i].call > 0
  PROVE  /\ vm[i] \in VMType /\ vm[i].call \in Calls
         /\ vm[i].call <= calls
         /\ i = Home(vm[i].call)
<1>1. vm[i] \in VMType BY DEF Exists, TypeOK
<1>2. vm[i].call \in Calls
  BY <1>1, BoundAssumption DEF VMType, Calls
<1> QED BY <1>1, <1>2 DEF VMFacts, Allocated, Placed

(* A call that was given out is used. *)
LEMMA GivenOut ==
  ASSUME TypeOK, VMFacts, NEW k \in Calls, op[k].pc # "unused"
  PROVE  k <= calls /\ op[k].zone \in Places
BY BoundAssumption DEF TypeOK, VMFacts, Allocated, Placed, Calls

LEMMA EffectFacts ==
  ASSUME TypeOK, VMFacts, NEW k \in Calls, Effect(k)
  PROVE  VMFacts'
<1>1. PICK r \in OpType : Step(k, r)
  BY DEF Effect, Moves, Step
<1>2. /\ op' = [op EXCEPT ![k] = r] /\ op'[k] = r
      /\ r.zone = op[k].zone /\ r.pc # "unused"
      /\ r.pc \in {"wait", "created"} => r.size = op[k].size
      /\ op[k].pc \notin {"unused", "created", "failed"}
      /\ \A j \in Calls \ {k} : op'[j] = op[j]
      /\ op' \in [Calls -> OpType]
  BY <1>1 DEF Step, TypeOK
<1>3. k <= calls /\ op[k].zone \in Places
  BY <1>2, GivenOut
<1>4. UNCHANGED <<cloud, calls>> /\ faults \in Nat /\ faults' >= faults
  BY BoundAssumption DEF Effect, TypeOK
<1>5. \A j \in Calls : Home(j)' = Home(j) /\ op'[j].zone = op[j].zone
  BY <1>2, <1>4 DEF Home
<1>6. Home(k) \in Ids BY HomeIsId
<1>7. k \in Nat /\ k > 0 /\ calls \in Nat
  BY BoundAssumption DEF Calls, TypeOK
<1>8. Places' = Places BY <1>4 DEF Places
<1>9. /\ NewVM(k).call = k /\ NewVM(k).owner = "me" /\ NewVM(k).size = op[k].size
  BY DEF NewVM
<1>10. ASSUME NEW i \in Exists'
       PROVE  \/ i \in Exists /\ vm'[i] = vm[i] /\ (Unmakes(k) => vm[i].call # k)
              \/ i = Home(k) /\ vm'[i] = NewVM(k) /\ Makes(k)
  BY <1>6, <1>10 DEF Effect, Same, Makes, Unmakes, MadeBy, Exists, TypeOK
<1> HIDE DEF Exists
<1>11. Allocated'
  <2>1. \A j \in Calls : j > calls' <=> op'[j].pc = "unused"
    BY <1>2, <1>3, <1>4, <1>7 DEF VMFacts, Allocated, Calls
  <2>2. \A i \in Exists' : vm'[i].call <= calls'
    BY <1>3, <1>4, <1>9, <1>10 DEF VMFacts, Allocated
  <2> QED BY <2>1, <2>2 DEF Allocated
<1>12. Placed'
  <2>1. ASSUME NEW i \in Exists'
        PROVE  /\ vm'[i].call > 0 => /\ vm'[i].call \in Calls
                                     /\ i = Home(vm'[i].call) /\ vm'[i].owner = "me"
               /\ vm'[i].call = 0 => i \in Places /\ vm'[i].owner # "me"
    <3>1. CASE i \in Exists /\ vm'[i] = vm[i]
      BY <3>1, OwnVM DEF VMFacts, Placed
    <3>2. CASE i = Home(k) /\ vm'[i] = NewVM(k)
      BY <1>7, <1>9, <3>2
    <3> QED BY <1>10, <2>1, <3>1, <3>2
  <2>2. \A j \in Calls : op'[j].pc # "unused" => op'[j].zone \in Places'
    BY <1>2, <1>3, <1>5, <1>8 DEF VMFacts, Placed
  <2>3. \A j \in Calls : op'[j].zone = op[j].zone /\ cloud' = cloud
    BY <1>4, <1>5
  <2> QED BY <1>8, <2>1, <2>2, <2>3 DEF Placed, Home
<1>13. Sized'
  <2> SUFFICES ASSUME NEW j \in Calls, op'[j].pc \in {"wait", "created"},
                      NEW i \in Exists', vm'[i].call = j
               PROVE  vm'[i].size = op'[j].size
    BY DEF Sized
  <2>1. CASE i \in Exists /\ vm'[i] = vm[i] /\ j # k
    BY <1>2, <2>1 DEF VMFacts, Sized
  <2>2. CASE i \in Exists /\ vm'[i] = vm[i] /\ j = k
    <3>1. i = Home(k) BY <1>7, <2>2, OwnVM
    <3>2. CASE Same(k)
      BY <1>2, <2>2, <3>2 DEF Same, VMFacts, Sized
    <3>3. CASE Makes(k)
      BY <1>2, <1>6, <1>9, <2>2, <3>1, <3>3 DEF Makes, TypeOK
    <3>4. CASE Unmakes(k)
      BY <2>2, <3>4 DEF Unmakes
    <3> QED BY <3>2, <3>3, <3>4 DEF Effect
  <2>3. CASE i = Home(k) /\ vm'[i] = NewVM(k)
    BY <1>2, <1>9, <2>3
  <2> QED BY <1>10, <2>1, <2>2, <2>3
<1>14. Accounted'
  <2> SUFFICES ASSUME faults' = 0, cloud # "azure", NEW i \in Exists', vm'[i].call > 0
               PROVE  op'[vm'[i].call].pc \in {"wait", "created"}
    BY <1>4, BoundAssumption DEF Accounted, Effect, TypeOK
  <2>0. faults = 0 BY <1>4
  <2>1. CASE i \in Exists /\ vm'[i] = vm[i] /\ (Unmakes(k) => vm[i].call # k)
    <3>1. op[vm[i].call].pc \in {"wait", "created"} /\ vm[i].call \in Calls
      BY <2>0, <2>1, OwnVM DEF VMFacts, Accounted
    <3>2. CASE vm[i].call # k BY <1>2, <2>1, <3>1, <3>2
    <3>3. CASE vm[i].call = k
      BY <1>2, <2>0, <2>1, <3>1, <3>3 DEF Effect, Same, Makes
    <3> QED BY <3>2, <3>3
  <2>2. CASE i = Home(k) /\ vm'[i] = NewVM(k) /\ Makes(k)
    BY <1>9, <2>0, <2>2 DEF Makes
  <2> QED BY <1>10, <2>1, <2>2
<1> QED BY <1>11, <1>12, <1>13, <1>14 DEF VMFacts

(* A step that only takes VMs away. *)
LEMMA ShrinkFacts ==
  ASSUME TypeOK, VMFacts, \A i \in Ids : vm'[i] \in {vm[i], NoVM},
         UNCHANGED <<cloud, op, calls>>, faults' \in Nat, faults' >= faults
  PROVE  VMFacts'
<1>1. \A i \in Exists' : i \in Exists /\ vm'[i] = vm[i]
  BY DEF Exists
<1>2. /\ \A k : Home(k)' = Home(k)
      /\ Places' = Places
  BY DEF Home, Places
<1>3. faults \in Nat BY BoundAssumption DEF TypeOK
<1>4. Allocated' BY <1>1 DEF VMFacts, Allocated
<1>5. Placed' BY <1>1, <1>2 DEF VMFacts, Placed
<1>6. Sized' BY <1>1 DEF VMFacts, Sized
<1>7. Accounted' BY <1>1, <1>3 DEF VMFacts, Accounted
<1> QED BY <1>4, <1>5, <1>6, <1>7 DEF VMFacts

LEMMA NewCallFacts ==
  ASSUME TypeOK, VMFacts, NEW s \in Services, CreateInstance(s)
  PROVE  VMFacts'
<1> DEFINE k == calls + 1
<1>1. /\ k \in Calls /\ calls \in Nat /\ calls' = k
      /\ UNCHANGED <<cloud, vm, faults>>
  BY BoundAssumption DEF CreateInstance, TypeOK, Calls
<1>2. PICK z \in Places :
        op' = [op EXCEPT ![k] = [pc |-> First(cloud), svc |-> s, zone |-> z, size |-> 1]]
  BY DEF CreateInstance
<1>3. /\ op'[k].zone = z
      /\ op'[k].pc \notin {"unused", "wait", "created"}
      /\ \A j \in Calls \ {k} : op'[j] = op[j]
  BY <1>1, <1>2 DEF TypeOK, First
<1>4. Exists' = Exists /\ Places' = Places
  BY <1>1 DEF Exists, Places
<1>5. \A i \in Exists : vm[i].call # k /\ vm[i].call <= calls
  BY <1>1 DEF VMFacts, Allocated, Exists, TypeOK, VMType
<1> HIDE DEF Exists
<1>7. Allocated'
  <2>1. \A j \in Calls : j > k <=> op'[j].pc = "unused"
    BY <1>1, <1>3 DEF VMFacts, Allocated, Calls
  <2>2. \A i \in Exists : vm[i].call <= k
    <3> SUFFICES ASSUME NEW i \in Exists PROVE vm[i].call <= k OBVIOUS
    <3>1. vm[i].call \in Nat BY BoundAssumption DEF TypeOK, Exists, VMType
    <3> QED BY <1>1, <1>5, <3>1
  <2> QED BY <1>1, <1>4, <2>1, <2>2 DEF Allocated
<1>8. Placed'
  <2>1. ASSUME NEW i \in Exists, vm[i].call > 0
        PROVE  /\ vm[i].call \in Calls \ {k}
               /\ i = Home(vm[i].call) /\ vm[i].owner = "me"
    BY <1>5, <2>1, OwnVM DEF VMFacts, Placed
  <2>2. \A j \in Calls : op'[j].pc # "unused" => op'[j].zone \in Places
    BY <1>2, <1>3 DEF VMFacts, Placed
  <2>3. \A i \in Exists : vm[i].call = 0 => i \in Places /\ vm[i].owner # "me"
    BY DEF VMFacts, Placed
  <2> QED BY <1>1, <1>3, <1>4, <2>1, <2>2, <2>3 DEF Placed, Home
<1>9. Sized'
  BY <1>1, <1>3, <1>4 DEF VMFacts, Sized
<1>10. Accounted'
  BY <1>1, <1>3, <1>4, <1>5, OwnVM DEF VMFacts, Accounted
<1> QED BY <1>7, <1>8, <1>9, <1>10 DEF VMFacts
-----------------------------------------------------------------------------
(* What the registry records and what a deletion chooses. *)

LEMMA EffectRecorded ==
  ASSUME TypeOK, Recorded, NEW k \in Calls, Effect(k)
  PROVE  Recorded'
<1>1. PICK r : Step(k, r) /\ Answer(k, r) BY DEF Effect, Moves
<1>2. /\ op[k].pc # "created" /\ op'[k] = r
      /\ \A j \in Calls \ {k} : op'[j] = op[j]
  BY <1>1 DEF Step, TypeOK
<1> SUFFICES ASSUME NEW s \in Services, inst'[s].st = "up"
             PROVE  /\ inst'[s].call \in Calls
                    /\ op'[inst'[s].call].pc = "created"
                    /\ inst'[s].size = op'[inst'[s].call].size
  BY DEF Recorded
<1>3. CASE inst'[s] = inst[s]
  BY <1>2, <1>3 DEF Recorded
<1>4. CASE inst'[s] # inst[s]
  <2>1. inst'[s].call = k /\ r.pc = "created" /\ inst'[s].size = r.size
    BY <1>1, <1>4 DEF Answer, TypeOK
  <2> QED BY <1>2, <2>1
<1> QED BY <1>3, <1>4

LEMMA NewCallRecorded ==
  ASSUME TypeOK, Allocated, Recorded, NEW s \in Services, CreateInstance(s)
  PROVE  Recorded'
<1> DEFINE k == calls + 1
<1>1. k \in Calls /\ op[k].pc = "unused"
  BY BoundAssumption DEF CreateInstance, TypeOK, Calls, Allocated
<1>2. /\ \A j \in Calls \ {k} : op'[j] = op[j]
      /\ inst'[s].st = "launching"
      /\ \A t \in Services \ {s} : inst'[t] = inst[t]
  BY DEF CreateInstance, TypeOK
<1> HIDE DEF k
<1> QED BY <1>1, <1>2 DEF Recorded

(* A VM that is ours or gone stays so: nobody else gets a new one. *)
LEMMA StaysOurs ==
  ASSUME NEW i \in Ids, OursOrGone(i),
         vm'[i] \in {vm[i], NoVM} \/ vm'[i].owner = "me"
  PROVE  OursOrGone(i)'
BY DEF OursOrGone, Exists

LEMMA ChosenKept ==
  ASSUME TypeOK, Chosen, UNCHANGED <<cloud, del>>,
         \A i \in Ids : vm'[i] \in {vm[i], NoVM} \/ vm'[i].owner = "me"
  PROVE  Chosen'
<1>1. \A k \in Calls : del[k].id \in Ids /\ del[k].seen \subseteq Ids
  BY DEF TypeOK, DelType
<1>2. \A i \in Ids : OursOrGone(i) => OursOrGone(i)'
  BY StaysOurs
<1> QED BY <1>1, <1>2 DEF Chosen

LEMMA EffectChosen ==
  ASSUME TypeOK, Chosen, NEW k \in Calls, Effect(k)
  PROVE  Chosen'
<1>1. \A i \in Ids : vm'[i] \in {vm[i], NoVM} \/ vm'[i].owner = "me"
  BY HomeIsId DEF Effect, Same, Makes, Unmakes, NewVM, TypeOK
<1> QED BY <1>1, ChosenKept DEF Effect

LEMMA DeletionChosen ==
  ASSUME TypeOK, Chosen, NEW k \in Calls, Deletion(k)
  PROVE  Chosen'
<1> SUFFICES ASSUME cloud # "azure" PROVE Chosen'
  BY DEF Chosen, Deletion, ListInstances, SSHInspect, DeleteVM
<1>1. \A found \in Listing : \A i \in found : i \in Ids /\ OursOrGone(i)
  BY DEF TypeOK, Listing, EC2List, GCPList, HetznerList, LinodeList, VultrList,
         DOList, SSHPs, Mine, Exists, OursOrGone, Clouds
<1>2. \A i \in Ids : vm'[i] \in {vm[i], NoVM}
  BY DEF TypeOK, Deletion, ListInstances, SSHInspect, DeleteVM
<1>3. \A j \in Calls : del[j].id \in Ids /\ del[j].seen \subseteq Ids
  BY DEF TypeOK, DelType
<1>4. \A j \in Calls \ {k} : del'[j] = del[j]
  BY DEF TypeOK, Deletion, ListInstances, SSHInspect, DeleteVM, Choose, DelEnds
<1> DEFINE Good ==
             /\ del'[k].pc = "delete" => del'[k].id \in Ids /\ OursOrGone(del'[k].id)
             /\ del'[k].pc = "inspect" => \A i \in del'[k].seen : i \in Ids /\ OursOrGone(i)
<1>5. Good
  <2>1. CASE DelEnds(k)
    <3>1. del'[k].pc = "done" BY <2>1 DEF DelEnds, NoDel, TypeOK
    <3> QED BY <3>1
  <2>2. ASSUME NEW found, Choose(k, found), \A i \in found : i \in Ids /\ OursOrGone(i)
        PROVE  Good
    <3>1. CASE DelEnds(k) BY <2>1, <3>1
    <3>2. ASSUME NEW i \in found,
                 del' = [del EXCEPT ![k] = [pc |-> "delete", seen |-> {}, id |-> i]]
          PROVE  Good
      BY <2>2, <3>2 DEF TypeOK
    <3> QED BY <2>2, <3>1, <3>2 DEF Choose
  <2>3. ASSUME NEW found \in Listing,
               del' = [del EXCEPT ![k] = [pc |-> "inspect", seen |-> found, id |-> 0]]
        PROVE  Good
    BY <1>1, <2>3 DEF TypeOK
  <2>4. CASE ListInstances(k)
    BY <1>1, <2>1, <2>2, <2>3, <2>4 DEF ListInstances
  <2>5. CASE SSHInspect(k)
    BY <1>3, <2>1, <2>2, <2>5 DEF SSHInspect, Chosen
  <2>6. CASE DeleteVM(k)
    BY <2>1, <2>6 DEF DeleteVM
  <2> QED BY <2>4, <2>5, <2>6 DEF Deletion
<1>6. \A i \in Ids : OursOrGone(i) => OursOrGone(i)'
  BY <1>2, StaysOurs
<1>7. cloud' = cloud
  BY DEF Deletion, ListInstances, SSHInspect, DeleteVM
<1> HIDE DEF OursOrGone
<1>8. \A j \in Calls : /\ del'[j].pc = "delete" => del'[j].id \in Ids /\ OursOrGone(del'[j].id)
                       /\ del'[j].pc = "inspect" => \A i \in del'[j].seen : i \in Ids /\ OursOrGone(i)
  BY <1>3, <1>4, <1>5 DEF Chosen
<1>9. \A i \in Ids : OursOrGone(i) => vm'[i] = NoVM \/ vm'[i].owner = "me"
  BY <1>2 DEF OursOrGone, Exists
<1> QED BY <1>8, <1>9 DEF Chosen, OursOrGone, Exists
-----------------------------------------------------------------------------
(* The network around a VM. *)

NetStep(k) == /\ net \subseteq net'
              /\ cloud # "azure" /\ op'[k].pc \in {"create", "wait"}
                     => Needs(cloud) \subseteq net'
              /\ cloud = "ec2" /\ op'[k].pc = "rule" => "group" \in net'
              /\ cloud = "azure" /\ "nic" \in net' => {"pip", "vnet"} \subseteq net'

LEMMA EndPcs ==
  ASSUME TypeOK, NEW k \in Calls
  PROVE  /\ \A pc : Goto(k, pc) => op'[k].pc = pc
         /\ Created(k) => op'[k].pc = "created"
         /\ Fails(k) => op'[k].pc = "failed"
         /\ NextSize(k) => op'[k].pc \in {"create", "failed"}
<1>1. /\ \A pc : Goto(k, pc) => op'[k].pc = pc
      /\ Created(k) => op'[k].pc = "created"
      /\ Fails(k) => op'[k].pc = "failed"
  BY DEF TypeOK, OpType, Goto, Created, Fails, Ends
<1>2. NextSize(k) => op'[k].pc \in {"create", "failed"}
  <2>1. CASE op[k].size = LastSize BY <1>1, <2>1 DEF NextSize
  <2>2. CASE op[k].size # LastSize BY <2>2 DEF NextSize, TypeOK, OpType
  <2> QED BY <2>1, <2>2
<1> QED BY <1>1, <1>2

LEMMA CreationNet ==
  ASSUME TypeOK, Networked, NEW k \in Calls, Creation(k)
  PROVE  NetStep(k)
<1> USE EndPcs DEF Networked, NetStep, Needs
<1>1. CASE EC2DescribeGroup(k)
  BY <1>1 DEF EC2DescribeGroup, At
<1>2. CASE EC2CreateGroup(k)
  BY <1>2 DEF EC2CreateGroup, Insert, At
<1>3. CASE EC2AddPortRule(k)
  BY <1>3 DEF EC2AddPortRule, Insert, At
<1>4. CASE GCPGetFirewall(k)
  BY <1>4 DEF GCPGetFirewall, At
<1>5. CASE GCPInsertFirewall(k)
  BY <1>5 DEF GCPInsertFirewall, Insert, At
<1>6. CASE AzurePublicIP(k) \/ AzureNetwork(k)
  BY <1>6 DEF AzurePublicIP, AzureNetwork, Upsert, At
<1>7. CASE AzureNIC(k)
  BY <1>7 DEF AzureNIC, Upsert, At
<1>8. CASE DOEnsureTags(k)
  BY <1>8 DEF DOEnsureTags, Upsert, At
<1>9. CASE VultrListOS(k)
  BY <1>9 DEF VultrListOS, At
<1>10. ASSUME NEW free, op[k].pc = "create", cloud \notin {"gcp", "azure"}, CreateOnce(k, free)
       PROVE  NetStep(k)
  BY <1>10 DEF CreateOnce
<1>11. CASE \/ EC2RunInstances(k) \/ DOCreateDroplet(k) \/ HetznerCreate(k)
            \/ LinodeCreate(k) \/ VultrCreate(k) \/ SSHDockerRun(k)
  <2> HIDE DEF NetStep
  <2> QED BY <1>10, <1>11 DEF EC2RunInstances, DOCreateDroplet, HetznerCreate,
             LinodeCreate, VultrCreate, SSHDockerRun, At
<1>12. CASE GCPInsertVM(k) \/ AzureBegin(k)
  BY <1>12 DEF GCPInsertVM, AzureBegin, At
<1>13. CASE GCPWait(k) \/ AzurePoll(k)
  BY <1>13 DEF GCPWait, AzurePoll, At
<1> HIDE DEF NetStep
<1> QED BY <1>1, <1>2, <1>3, <1>4, <1>5, <1>6, <1>7, <1>8, <1>9, <1>11, <1>12, <1>13
        DEF Creation

(* A VM of ours comes up in a complete network only. *)
LEMMA MineGrows ==
  ASSUME TypeOK, Networked, NEW k \in Calls, Creation(k)
  PROVE  \A i \in Mine' : i \in Mine \/ Needs(cloud) \subseteq net
<1>1. CASE vm' = vm
  BY <1>1 DEF Mine, Exists
<1>2. CASE op[k].pc = "create" /\ cloud # "azure"
  BY <1>2 DEF Networked
<1>3. CASE AzureBegin(k)
  BY <1>3, <1>1 DEF AzureBegin, At, Networked, Needs
<1>4. CASE GCPWait(k) \/ AzurePoll(k)
  BY <1>4 DEF GCPWait, AzurePoll, Mine, Exists, MadeBy
<1> QED
  BY <1>1, <1>2, <1>3, <1>4
     DEF Creation, EC2DescribeGroup, EC2CreateGroup, EC2AddPortRule, GCPGetFirewall,
         GCPInsertFirewall, AzurePublicIP, AzureNetwork, AzureNIC, DOEnsureTags,
         VultrListOS, EC2RunInstances, DOCreateDroplet, HetznerCreate, LinodeCreate,
         VultrCreate, SSHDockerRun, GCPInsertVM, At, Insert, Upsert

LEMMA CreationNetworked ==
  ASSUME TypeOK, Networked, NetworkFirst, NEW k \in Calls, Creation(k)
  PROVE  Networked' /\ NetworkFirst'
<1>1. NetStep(k) BY CreationNet
<1>2. cloud' = cloud /\ \A j \in Calls \ {k} : op'[j] = op[j]
  BY CreationEffect DEF Effect, Moves, Step, TypeOK
<1>3. Networked'
  BY <1>1, <1>2 DEF NetStep, Networked
<1>4. NetworkFirst'
  BY <1>1, <1>2, MineGrows DEF NetStep, NetworkFirst
<1> QED BY <1>3, <1>4

(* At Azure there is one name, so the VM that goes was the only one. *)
LEMMA AzureAlone ==
  ASSUME TypeOK, VMFacts, cloud = "azure", NEW i \in Exists
  PROVE  i = RegionName
<1>1. CASE vm[i].call > 0
  <2>1. vm[i].call \in Calls /\ vm[i].call <= calls /\ i = Home(vm[i].call)
    BY <1>1, OwnVM
  <2>2. op[vm[i].call].pc # "unused"
    BY <2>1, BoundAssumption DEF VMFacts, Allocated, Calls, TypeOK
  <2> QED BY <2>1, <2>2, GivenOut DEF Home, Places
<1>2. CASE ~(vm[i].call > 0)
  <2>1. vm[i].call = 0 BY <1>2, BoundAssumption DEF Exists, TypeOK, VMType
  <2> QED BY <2>1 DEF VMFacts, Placed, Places
<1> QED BY <1>1, <1>2

LEMMA GoneNetworked ==
  ASSUME TypeOK, VMFacts, Networked, NetworkFirst, NEW i \in Ids,
         vm' = [vm EXCEPT ![i] = NoVM], net' = WithoutVM(i), UNCHANGED <<cloud, op>>
  PROVE  Networked' /\ NetworkFirst'
<1>1. Mine' \subseteq Mine
  BY DEF Mine, Exists, TypeOK
<1>2. CASE net' = net
  BY <1>1, <1>2 DEF Networked, NetworkFirst
<1>3. CASE net' # net
  <2>1. cloud = "azure" /\ i \in Exists /\ net' = net \ {"pip", "nic"}
    BY <1>3 DEF WithoutVM, Exists
  <2>2. Mine' = {}
    <3>1. ASSUME NEW j \in Mine' PROVE FALSE
      <4>1. j \in Exists /\ j # i
        BY <1>1, <3>1 DEF Mine, Exists, TypeOK
      <4> QED BY <2>1, <4>1, AzureAlone
    <3> QED BY <3>1
  <2> QED BY <2>1, <2>2 DEF Networked, NetworkFirst
<1> QED BY <1>2, <1>3

-----------------------------------------------------------------------------
(* The invariant is inductive. *)

Facts == VMFacts /\ Recorded /\ Chosen /\ Networked /\ NetworkFirst

LEMMA FactsAreIInv == TypeOK /\ Facts <=> IInv
BY DEF Facts, VMFacts, IInv

LEMMA FactsPreserved == TypeOK /\ Facts /\ [Next]_vars => Facts'
<1> SUFFICES ASSUME TypeOK, Facts, [Next]_vars PROVE Facts' OBVIOUS
<1> USE DEF Facts
<1>0. faults \in Nat BY BoundAssumption DEF TypeOK
<1>1. ASSUME NEW s \in Services, CreateInstance(s) PROVE Facts'
  <2>1. VMFacts' BY <1>1, NewCallFacts
  <2>2. Recorded' BY <1>1, NewCallRecorded DEF VMFacts
  <2>3. UNCHANGED <<cloud, vm, net, del>> BY <1>1 DEF CreateInstance
  <2>4. Chosen' BY <2>3, ChosenKept
  <2>5. Networked'
    <3>1. \E z \in Places : op' = [op EXCEPT ![calls + 1] =
              [pc |-> First(cloud), svc |-> s, zone |-> z, size |-> 1]]
      BY <1>1 DEF CreateInstance
    <3>2. \A j \in Calls : op'[j].pc \in {op[j].pc, First(cloud)}
      BY <3>1 DEF TypeOK
    <3>3. /\ First(cloud) \notin {"wait", "rule"}
          /\ cloud # "azure" /\ First(cloud) = "create" => Needs(cloud) = {}
      BY DEF First, Needs, TypeOK
    <3> QED BY <2>3, <3>2, <3>3 DEF Networked
  <2>6. NetworkFirst' BY <2>3 DEF NetworkFirst, Mine, Exists
  <2> QED BY <2>1, <2>2, <2>4, <2>5, <2>6
<1>2. ASSUME NEW s \in Services, DeleteInstance(s) PROVE Facts'
  <2>1. UNCHANGED <<cloud, vm, net, op, calls, faults>> BY <1>2 DEF DeleteInstance
  <2>2. VMFacts' BY <1>0, <2>1, ShrinkFacts
  <2>3. Recorded' BY <1>2, <2>1 DEF DeleteInstance, Recorded, NoInst, TypeOK
  <2>4. Chosen'
    <3>1. \A k \in Calls : del'[k] = del[k] \/ del'[k].pc = "list"
      BY <1>2 DEF DeleteInstance, TypeOK, DelType
    <3> QED BY <2>1, <3>1 DEF Chosen, OursOrGone, Exists
  <2>5. Networked' /\ NetworkFirst' BY <2>1 DEF Networked, NetworkFirst, Mine, Exists
  <2> QED BY <2>2, <2>3, <2>4, <2>5
<1>3. ASSUME NEW k \in Calls, Creation(k) PROVE Facts'
  <2>1. Effect(k) BY <1>3, CreationEffect
  <2> QED BY <1>3, <2>1, EffectFacts, EffectRecorded, EffectChosen, CreationNetworked
<1>4. ASSUME NEW k \in Calls, Deletion(k) PROVE Facts'
  <2>1. /\ \A i \in Ids : vm'[i] \in {vm[i], NoVM}
        /\ UNCHANGED <<cloud, op, inst, calls>>
        /\ faults' \in Nat /\ faults' >= faults
    BY <1>0, <1>4 DEF TypeOK, Deletion, ListInstances, SSHInspect, DeleteVM, NoFault, Fault
  <2>2. VMFacts' BY <2>1, ShrinkFacts
  <2>3. Recorded' BY <2>1 DEF Recorded
  <2>4. Chosen' BY <1>4, DeletionChosen
  <2>5. Networked' /\ NetworkFirst'
    <3>1. CASE UNCHANGED <<vm, net>>
      BY <2>1, <3>1 DEF Networked, NetworkFirst, Mine, Exists
    <3>2. CASE vm' = [vm EXCEPT ![del[k].id] = NoVM] /\ net' = WithoutVM(del[k].id)
      <4>1. del[k].id \in Ids BY DEF TypeOK, DelType
      <4> QED BY <2>1, <3>2, <4>1, GoneNetworked
    <3> QED BY <1>4, <3>1, <3>2 DEF Deletion, ListInstances, SSHInspect, DeleteVM
  <2> QED BY <2>2, <2>3, <2>4, <2>5
<1>5. ASSUME NEW i \in Ids, Lost(i) PROVE Facts'
  <2>1. /\ \A j \in Ids : vm'[j] \in {vm[j], NoVM}
        /\ UNCHANGED <<cloud, op, inst, calls, faults, del>>
    BY <1>5 DEF TypeOK, Lost
  <2>2. VMFacts' BY <1>0, <2>1, ShrinkFacts
  <2>3. Recorded' BY <2>1 DEF Recorded
  <2>4. Chosen' BY <2>1, ChosenKept
  <2>5. Networked' /\ NetworkFirst' BY <1>5, GoneNetworked DEF Lost
  <2> QED BY <2>2, <2>3, <2>4, <2>5
<1>6. CASE UNCHANGED vars
  <2>1. UNCHANGED <<cloud, vm, net, op, del, inst, calls, faults>> BY <1>6 DEF vars
  <2>2. VMFacts' BY <1>0, <2>1, ShrinkFacts
  <2>3. Recorded' BY <2>1 DEF Recorded
  <2>4. Chosen' BY <2>1, ChosenKept
  <2>5. Networked' /\ NetworkFirst' BY <2>1 DEF Networked, NetworkFirst, Mine, Exists
  <2> QED BY <2>2, <2>3, <2>4, <2>5
<1> HIDE DEF Facts
<1> QED BY <1>1, <1>2, <1>3, <1>4, <1>5, <1>6 DEF Next

LEMMA InitIInv == Init => IInv
<1> SUFFICES ASSUME Init PROVE IInv OBVIOUS
<1> USE DEF Init
<1>0. /\ 1 \in Sizes /\ 0 \in Ids /\ 0 \in 0..MaxCalls /\ 0 \in 0..MaxFaults /\ 0 \in 0..MaxLost
      /\ AnyService \in Services
  BY SizeAssumption, BoundAssumption, PlaceAssumption DEF Sizes, Ids, AnyService
<1>1. \/ vm = Empty
      \/ \E o \in {"other", "untagged"}, i \in Places :
            /\ i \in Ids
            /\ [owner |-> o, svc |-> AnyService, call |-> 0, size |-> 1] \in VMType
            /\ vm = [Empty EXCEPT ![i] = [owner |-> o, svc |-> AnyService, call |-> 0, size |-> 1]]
  BY <1>0, PlacesAreIds DEF VMType, Owners
<1>2. /\ vm \in [Ids -> VMType \cup {NoVM}]
      /\ \A i \in Exists : i \in Places /\ vm[i].call = 0 /\ vm[i].owner \in {"other", "untagged"}
  <2>1. CASE vm = Empty BY <2>1 DEF Empty, Exists
  <2>2. CASE vm # Empty BY <1>1, <2>2 DEF Empty, Exists
  <2> QED BY <2>1, <2>2
<1>3. TypeOK
  <2>1. op \in [Calls -> OpType]
    BY <1>0 DEF OpType, OpPCs
  <2>2. NoDel \in DelType /\ NoInst \in InstType
    BY <1>0 DEF NoDel, DelType, DelPCs, NoInst, InstType
  <2> QED BY <1>0, <1>2, <2>1, <2>2 DEF TypeOK
<1>4. Allocated BY <1>2 DEF Allocated, Calls
<1>5. Placed BY <1>2 DEF Placed
<1>6. Sized BY DEF Sized
<1>7. Accounted BY <1>2 DEF Accounted
<1>8. Recorded BY DEF Recorded, NoInst
<1>9. Chosen BY DEF Chosen, NoDel
<1>10. Networked BY DEF Networked
<1>11. NetworkFirst BY <1>2 DEF NetworkFirst, Mine
<1> QED BY <1>3, <1>4, <1>5, <1>6, <1>7, <1>8, <1>9, <1>10, <1>11 DEF IInv

LEMMA Inductive == Spec => []IInv
<1>1. IInv /\ [Next]_vars => IInv'
  BY TypePreserved, FactsPreserved, FactsAreIInv DEF IInv, Facts, VMFacts
<1> QED BY InitIInv, <1>1, PTL DEF Spec
-----------------------------------------------------------------------------
(* Theorems *)

(* Type correctness: no creation tries a size its region does not have     *)
(* (gcp.go, azure.go: the ladder ends with the last), and every listing,   *)
(* choice and deletion is of an id the cloud can have given out.           *)
THEOREM TypeCorrect == Spec => []TypeOK
<1>1. IInv => TypeOK BY DEF IInv
<1> QED BY Inductive, <1>1, PTL

(* A creation leaves at most one VM, however many sizes it tries and       *)
(* whatever answers it loses, since all its attempts have one name.        *)
THEOREM OneEach == Spec => []OneVMPerCall
<1>1. IInv => OneVMPerCall
  <2> SUFFICES ASSUME IInv, NEW i \in Exists, NEW j \in Exists,
                      vm[i].call = vm[j].call, vm[i].call > 0
               PROVE  i = j
    BY DEF OneVMPerCall
  <2> QED BY OwnVM DEF IInv, VMFacts
<1> QED BY Inductive, <1>1, PTL

(* Without lost answers, and outside Azure, a failed creation leaves no VM,*)
(* which is what a deletion of a failed entry relies on.                   *)
THEOREM FailuresLeaveNothing == Spec => []FailedLeavesNothing
<1>1. IInv => FailedLeavesNothing
  BY BoundAssumption DEF IInv, Accounted, FailedLeavesNothing, TypeOK
<1> QED BY Inductive, <1>1, PTL

(* The hourly cost recorded for an instance is that of the size it has.    *)
THEOREM BillsAreRight == Spec => []BilledAsBuilt
<1>1. IInv => BilledAsBuilt
  BY DEF IInv, Recorded, Sized, BilledAsBuilt
<1> QED BY Inductive, <1>1, PTL

(* A VM of ours has all the network it needs around it, whatever order the *)
(* creations and deletions of a region's instances take their steps in.    *)
THEOREM NetworkIsFirst == Spec => []NetworkFirst
<1>1. IInv => NetworkFirst BY DEF IInv
<1> QED BY Inductive, <1>1, PTL

(* Another owner's VMs are left alone, outside Azure.                      *)
THEOREM OthersAreLeftAlone == Spec => OthersAreKept
<1> DEFINE Kept == \/ cloud = "azure" \/ lost' # lost
                   \/ \A i \in OthersVMs : vm'[i] = vm[i]
<1>1. IInv /\ [Next]_vars => [Kept]_vars
  <2> SUFFICES ASSUME IInv, Next, cloud # "azure", lost' = lost, NEW i \in OthersVMs
               PROVE  vm'[i] = vm[i]
    OBVIOUS
  <2>0. TypeOK /\ VMFacts /\ Chosen BY DEF IInv, VMFacts
  <2>1. i \in Exists /\ vm[i].owner = "other" BY DEF OthersVMs
  <2>2. vm[i].call = 0 /\ i \in Places
    <3>1. vm[i].call \in Nat BY <2>0, <2>1, BoundAssumption DEF Exists, TypeOK, VMType
    <3> QED BY <2>0, <2>1, <3>1 DEF VMFacts, Placed
  <2>3. ASSUME NEW k \in Calls, Creation(k) PROVE vm'[i] = vm[i]
    <3>1. Effect(k) BY <2>0, <2>3, CreationEffect
    <3>2. ~MadeBy(i, k) BY <2>2 DEF MadeBy, Calls
    <3>3. Makes(k) => i # Home(k)
      <4>1. cloud = "gcp" => (Makes(k) => i # Home(k))
        BY <2>1 DEF Makes, Exists
      <4>2. cloud # "gcp" => i = 0 /\ Home(k) # 0
        BY <2>2 DEF Places, Home, Calls
      <4> QED BY <4>1, <4>2
    <3> QED BY <2>0, <2>1, <3>1, <3>2, <3>3 DEF Effect, Same, Makes, Unmakes, Exists, TypeOK
  <2>4. ASSUME NEW k \in Calls, Deletion(k) PROVE vm'[i] = vm[i]
    BY <2>0, <2>1, <2>4 DEF Deletion, ListInstances, SSHInspect, DeleteVM, Chosen,
         OursOrGone, TypeOK, Exists
  <2>5. ASSUME NEW s \in Services, CreateInstance(s) \/ DeleteInstance(s)
        PROVE  vm'[i] = vm[i]
    BY <2>5 DEF CreateInstance, DeleteInstance
  <2>6. ASSUME NEW j \in Ids, Lost(j) PROVE FALSE
    BY <2>0, <2>6, BoundAssumption DEF Lost, TypeOK
  <2> QED BY <2>3, <2>4, <2>5, <2>6 DEF Next
<1> QED BY Inductive, <1>1, PTL DEF Spec, OthersAreKept

-----------------------------------------------------------------------------
(* The clouds implement the contract of module Provider. *)

(* A call that waits has its VM, unless VMs are being taken away. *)
Waiting ==
    \A k \in Calls : op[k].pc = "wait" =>
        cloud = "azure" \/ Disturbed \/ \E i \in Ids : MadeBy(i, k)

LEMMA DisturbedStays == TypeOK /\ [Next]_vars /\ Disturbed => Disturbed'
<1> SUFFICES ASSUME TypeOK, [Next]_vars, Disturbed PROVE Disturbed' OBVIOUS
<1>1. lost \in Nat BY BoundAssumption DEF TypeOK
<1>2. ASSUME lost' >= lost, lost' \in Nat,
             \A k \in Calls : del[k].pc # "none" => del'[k].pc # "none"
      PROVE  Disturbed'
  BY <1>1, <1>2 DEF Disturbed
<1>3. CASE UNCHANGED <<del, lost>>
  BY <1>1, <1>2, <1>3
<1>4. ASSUME NEW k \in Calls, Deletion(k) PROVE Disturbed'
  <2>1. lost' = lost BY <1>4 DEF Deletion, ListInstances, SSHInspect, DeleteVM
  <2>2. \E d : d.pc # "none" /\ del' = [del EXCEPT ![k] = d]
    BY <1>4 DEF Deletion, ListInstances, SSHInspect, DeleteVM, Choose, DelEnds, NoDel
  <2> QED BY <1>1, <1>2, <2>1, <2>2 DEF TypeOK
<1>5. ASSUME NEW s \in Services, DeleteInstance(s) PROVE Disturbed'
  <2>1. /\ lost' = lost
        /\ \A k \in Calls : del'[k] = del[k] \/ del'[k].pc = "list"
    BY <1>5 DEF DeleteInstance, TypeOK, DelType
  <2> QED BY <1>1, <1>2, <2>1
<1>6. ASSUME NEW i \in Ids, Lost(i) PROVE Disturbed'
  BY <1>1, <1>2, <1>6 DEF Lost
<1>7. ASSUME NEW k \in Calls, Creation(k) PROVE Disturbed'
  BY <1>3, <1>7, CreationEffect DEF Effect
<1>8. ASSUME NEW s \in Services, CreateInstance(s) PROVE Disturbed'
  BY <1>3, <1>8 DEF CreateInstance
<1>9. CASE UNCHANGED vars
  BY <1>3, <1>9 DEF vars
<1> QED BY <1>4, <1>5, <1>6, <1>7, <1>8, <1>9 DEF Next

LEMMA RemovalDisturbs ==
  ASSUME TypeOK,
         (\E k \in Calls : Deletion(k)) \/ (\E i \in Ids : Lost(i))
  PROVE  Disturbed'
<1>1. lost \in Nat BY BoundAssumption DEF TypeOK
<1>2. ASSUME NEW k \in Calls, Deletion(k) PROVE Disturbed'
  BY <1>2 DEF Deletion, ListInstances, SSHInspect, DeleteVM, Choose, DelEnds, NoDel,
              Disturbed, TypeOK, DelType
<1>3. ASSUME NEW i \in Ids, Lost(i) PROVE Disturbed'
  BY <1>1, <1>3 DEF Lost, Disturbed
<1> QED BY <1>2, <1>3

(* A creation leaves the VMs of the other calls where they are. *)
LEMMA OthersStay ==
  ASSUME TypeOK, VMFacts, NEW k \in Calls, Effect(k), cloud # "azure",
         NEW i \in Ids, NEW j \in Calls \ {k}, MadeBy(i, j)
  PROVE  vm'[i] = vm[i]
<1>1. j > 0 BY DEF Calls
<1>2. vm[i].call = j /\ vm[i] # NoVM /\ i \in Exists /\ i = Home(j)
  BY <1>1, OwnVM DEF MadeBy, Exists
<1>3. Makes(k) => i # Home(k)
  <2>1. CASE cloud = "gcp" BY <1>2, <2>1 DEF Makes
  <2>2. CASE cloud # "gcp" BY <1>2, <2>2 DEF Home
  <2> QED BY <2>1, <2>2
<1> QED BY <1>2, <1>3 DEF Effect, Same, Makes, Unmakes, MadeBy, TypeOK

LEMMA WaitingStays == IInv /\ Waiting /\ [Next]_vars => Waiting'
<1> SUFFICES ASSUME IInv, Waiting, [Next]_vars, NEW j \in Calls,
                    op'[j].pc = "wait", cloud' # "azure", ~Disturbed'
             PROVE  \E i \in Ids : MadeBy(i, j)'
  BY DEF Waiting
<1>1. TypeOK /\ VMFacts BY DEF IInv, VMFacts
<1>2. ~Disturbed BY <1>1, DisturbedStays
<1>3. ASSUME op[j].pc = "wait", UNCHANGED <<vm, cloud>> PROVE \E i \in Ids : MadeBy(i, j)'
  BY <1>2, <1>3 DEF Waiting, MadeBy
<1>4. ASSUME NEW k \in Calls, Creation(k) PROVE \E i \in Ids : MadeBy(i, j)'
  <2>1. Effect(k) /\ cloud # "azure" BY <1>1, <1>4, CreationEffect DEF Effect
  <2>2. CASE j # k
    <3>1. op[j].pc = "wait" BY <1>1, <2>1, <2>2 DEF Effect, Moves, Step, TypeOK
    <3>2. PICK i \in Ids : MadeBy(i, j) BY <1>2, <2>1, <3>1 DEF Waiting
    <3>3. vm'[i] = vm[i] BY <1>1, <2>1, <2>2, <3>2, OthersStay
    <3> QED BY <3>2, <3>3 DEF MadeBy
  <2>3. CASE j = k /\ Makes(k)
    <3>1. Home(k) \in Ids /\ NewVM(k).call = k /\ NewVM(k) # NoVM
      BY <1>1, HomeIsId, NewIsVM
    <3>2. vm'[Home(k)] = NewVM(k)
      BY <1>1, <2>3, <3>1 DEF Makes, TypeOK
    <3> DEFINE h == Home(k)
    <3>3. PICK i \in Ids : i = h BY <3>1
    <3>4. MadeBy(i, k)' BY <3>1, <3>2, <3>3 DEF MadeBy
    <3> QED BY <2>3, <3>4
  <2>4. CASE j = k /\ ~Makes(k)
    <3>1. vm' = vm /\ op[k].pc = "wait"
      BY <2>1, <2>4 DEF Effect, Same, Unmakes
    <3> QED BY <1>3, <2>1, <2>4, <3>1 DEF Effect
  <2> QED BY <2>2, <2>3, <2>4
<1>5. ASSUME NEW s \in Services, CreateInstance(s) PROVE \E i \in Ids : MadeBy(i, j)'
  <2>1. op[j].pc = "wait"
    BY <1>1, <1>5 DEF CreateInstance, First, TypeOK
  <2> QED BY <1>3, <1>5, <2>1 DEF CreateInstance
<1>6. ASSUME NEW s \in Services, DeleteInstance(s) PROVE \E i \in Ids : MadeBy(i, j)'
  BY <1>3, <1>6 DEF DeleteInstance
<1>7. CASE UNCHANGED vars
  BY <1>3, <1>7 DEF vars
<1> QED BY <1>1, <1>4, <1>5, <1>6, <1>7, RemovalDisturbs DEF Next

(* The call's VM is made, taken back or left, as the contract has it. *)
LEMMA VMsMap ==
  ASSUME TypeOK, VMFacts, NEW k \in Calls, Effect(k)
  PROVE  Contract!MakeVM(k) \/ Contract!TakeBack(k) \/ \A i \in Ids : Maker(i)' = Maker(i)
<1>1. CASE Same(k)
  BY <1>1 DEF Same, Maker
<1>2. CASE Unmakes(k)
  <2>1. \A i \in Ids : Maker(i)' = IF Maker(i) = k THEN 0 ELSE Maker(i)
    BY <1>2 DEF Unmakes, Maker, MadeBy, Calls
  <2> QED BY <2>1 DEF Contract!TakeBack
<1>3. CASE Makes(k)
  <2>1. PICK h \in Ids : h = Home(k) BY HomeIsId
  <2>2. vm' = [vm EXCEPT ![h] = NewVM(k)] /\ NewVM(k) # NoVM /\ NewVM(k).call = k
    BY <1>3, <2>1, NewIsVM DEF Makes
  <2>3. \A i \in Ids : Maker(i)' = IF i = h THEN k ELSE Maker(i)
    BY <2>2 DEF Maker, TypeOK
  <2>4. ASSUME NEW j \in Ids, Maker(j) = k PROVE j = h
    <3>1. j \in Exists /\ vm[j].call = k /\ k > 0
      BY <2>4 DEF Maker, Exists, Calls
    <3> QED BY <2>1, <3>1, OwnVM
  <2>5. ASSUME cloud # "azure" PROVE Maker(h) \in {k, 0}
    <3>1. CASE cloud = "gcp"
      BY <1>3, <2>1, <3>1 DEF Makes, Maker
    <3>2. CASE cloud # "gcp" /\ h \in Exists /\ vm[h].call > 0
      <4>1. h = Home(vm[h].call) BY <3>2, OwnVM
      <4> QED BY <2>1, <2>5, <3>2, <4>1 DEF Home, Maker
    <3>3. CASE ~(h \in Exists /\ vm[h].call > 0)
      BY <3>3, BoundAssumption DEF Exists, Maker, TypeOK, VMType
    <3> QED BY <3>1, <3>2, <3>3
  <2> QED BY <2>3, <2>4, <2>5 DEF Contract!MakeVM
<1> QED BY <1>1, <1>2, <1>3 DEF Effect

(* A call ends as it says it does. *)
LEMMA EndsMap ==
  ASSUME IInv, IInv', Waiting, NEW k \in Calls, Effect(k)
  PROVE  Contract!Ends(k, Asked(k)')
<1>1. TypeOK /\ VMFacts /\ TypeOK' /\ VMFacts' BY DEF IInv, VMFacts
<1>2. cloud' = cloud /\ faults' \in Nat BY <1>1, BoundAssumption DEF Effect, TypeOK
<1>3. op'[k].pc \in {"created", "failed"} => Asked(k)' = op'[k].pc
  BY DEF Asked
<1>4. ASSUME op'[k].pc = "created", ~Disturbed, cloud # "azure"
      PROVE  \E i \in Ids : Maker(i)' = k
  <2>1. CASE Makes(k)
    <3>1. PICK h \in Ids : h = Home(k) BY <1>1, HomeIsId
    <3>2. vm' = [vm EXCEPT ![h] = NewVM(k)] /\ NewVM(k) # NoVM /\ NewVM(k).call = k
      BY <1>1, <2>1, <3>1, NewIsVM DEF Makes
    <3> QED BY <1>1, <3>2 DEF Maker, TypeOK
  <2>2. CASE ~Makes(k)
    <3>1. vm' = vm /\ op[k].pc = "wait"
      BY <1>4, <2>2 DEF Effect, Same, Unmakes
    <3>2. PICK i \in Ids : MadeBy(i, k) BY <1>4, <3>1 DEF Waiting
    <3> QED BY <3>1, <3>2 DEF MadeBy, Maker
  <2> QED BY <2>1, <2>2
<1>5. ASSUME op'[k].pc = "failed", ~(faults' > 0), cloud # "azure", NEW i \in Ids, Maker(i)' = k
      PROVE  FALSE
  <2>1. vm'[i] # NoVM /\ vm'[i].call = k /\ k > 0
    BY <1>5 DEF Maker, Calls
  <2> QED BY <1>1, <1>2, <1>5, <2>1 DEF VMFacts, Accounted, Exists
<1>6. Asked(k)' \in {"created", "failed"} => op'[k].pc = Asked(k)'
  BY DEF Asked
<1>7. Asked(k)' = "created" => Contract!Has(k)' \/ Disturbed \/ cloud = "azure"
  BY <1>4, <1>6 DEF Contract!Has
<1>8. Asked(k)' = "failed" => ~Contract!Has(k)' \/ (faults > 0)' \/ cloud = "azure"
  BY <1>5, <1>6 DEF Contract!Has
<1> QED BY <1>7, <1>8 DEF Contract!Ends

LEMMA WorkMaps ==
  ASSUME IInv, IInv', Waiting, NEW k \in Calls, Effect(k)
  PROVE  Contract!Work(k)
<1> DEFINE pc == Asked(k)'
<1>1. TypeOK /\ VMFacts BY DEF IInv, VMFacts
<1>2. PICK r : Step(k, r) BY DEF Effect, Moves
<1>3. /\ Asked(k) = "asked" /\ pc \in {"asked", "created", "failed"}
      /\ \A j \in Calls : Asked(j)' = IF j = k THEN pc ELSE Asked(j)
  BY <1>1, <1>2 DEF Step, Asked, TypeOK
<1>4. \/ Contract!MakeVM(k) \/ Contract!TakeBack(k)
      \/ UNCHANGED [i \in Ids |-> Maker(i)]
  BY <1>1, VMsMap
<1>5. Contract!Ends(k, pc) BY EndsMap
<1>6. Contract!Troubled
  BY <1>1, BoundAssumption DEF Effect, TypeOK, Contract!Troubled
<1>7. UNCHANGED <<cloud = "azure", Disturbed>>
  BY DEF Effect, Disturbed
<1> HIDE DEF pc
<1> QED BY <1>3, <1>4, <1>5, <1>6, <1>7 DEF Contract!Work

LEMMA AskMaps ==
  ASSUME IInv, NEW s \in Services, CreateInstance(s)
  PROVE  \E k \in Calls : Contract!Ask(k)
<1>1. TypeOK /\ VMFacts BY DEF IInv, VMFacts
<1> DEFINE k == calls + 1
<1>2. /\ k \in Calls /\ k > calls
      /\ UNCHANGED <<cloud, vm, del, faults, lost>>
      /\ \E z \in Places : op' = [op EXCEPT ![k] = [pc |-> First(cloud), svc |-> s,
                                                     zone |-> z, size |-> 1]]
  <2>1. calls \in Nat /\ calls < MaxCalls
    BY <1>1, BoundAssumption DEF CreateInstance, TypeOK
  <2>2. k \in Calls /\ k > calls BY <2>1, BoundAssumption DEF Calls
  <2> QED BY <2>2 DEF CreateInstance
<1>3. op[k].pc = "unused" BY <1>1, <1>2 DEF VMFacts, Allocated
<1>4. First(cloud) \notin {"unused", "created", "failed"} BY DEF First
<1> HIDE DEF k
<1>5. \A j \in Calls : Asked(j)' = IF j = k THEN "asked" ELSE Asked(j)
  BY <1>1, <1>2, <1>4 DEF Asked, TypeOK
<1>6. Asked(k) = "unused" BY <1>3 DEF Asked
<1>7. UNCHANGED <<cloud = "azure", [i \in Ids |-> Maker(i)], faults > 0, Disturbed>>
  BY <1>2 DEF Maker, Disturbed
<1>8. Contract!Ask(k) BY <1>2, <1>5, <1>6, <1>7 DEF Contract!Ask
<1> QED BY <1>2, <1>8

(* What leaves the calls alone removes VMs or is not seen. *)
LEMMA RemoveMaps ==
  ASSUME TypeOK, NEW i \in Ids, vm' = vm \/ vm' = [vm EXCEPT ![i] = NoVM],
         UNCHANGED <<cloud, op>>, Disturbed', faults' \in Nat, faults' >= faults
  PROVE  Contract!Remove
<1>1. faults \in Nat BY BoundAssumption DEF TypeOK
<1>2. Contract!Troubled BY <1>1 DEF Contract!Troubled
<1>3. \/ UNCHANGED [j \in Ids |-> Maker(j)]
      \/ [j \in Ids |-> Maker(j)]' = [[j \in Ids |-> Maker(j)] EXCEPT ![i] = 0]
  BY DEF Maker, TypeOK
<1>4. UNCHANGED <<cloud = "azure", [k \in Calls |-> Asked(k)]>>
  BY DEF Asked
<1> QED BY <1>2, <1>3, <1>4 DEF Contract!Remove

LEMMA StepMaps ==
  ASSUME IInv, IInv', Waiting, [Next]_vars
  PROVE  [Contract!ProviderNext]_(Contract!providerVars)
<1>1. TypeOK BY DEF IInv
<1>2. faults \in Nat BY <1>1, BoundAssumption DEF TypeOK
<1>3. ASSUME UNCHANGED <<cloud, vm, op, faults>>, Disturbed' = Disturbed
      PROVE  UNCHANGED Contract!providerVars
  BY <1>3 DEF Contract!providerVars, Asked, Maker
<1>4. ASSUME NEW s \in Services, CreateInstance(s)
      PROVE  Contract!ProviderNext
  BY <1>4, AskMaps DEF Contract!ProviderNext
<1>5. ASSUME NEW k \in Calls, Creation(k)
      PROVE  Contract!ProviderNext
  BY <1>1, <1>5, CreationEffect, WorkMaps DEF Contract!ProviderNext
<1>6. ASSUME NEW k \in Calls, Deletion(k)
      PROVE  Contract!ProviderNext
  <2>1. /\ vm' = vm \/ vm' = [vm EXCEPT ![del[k].id] = NoVM]
        /\ UNCHANGED <<cloud, op>>
        /\ faults' \in Nat /\ faults' >= faults
    BY <1>2, <1>6 DEF Deletion, ListInstances, SSHInspect, DeleteVM, NoFault, Fault
  <2>2. Disturbed' BY <1>1, <1>6, RemovalDisturbs
  <2>3. del[k].id \in Ids BY <1>1 DEF TypeOK, DelType
  <2>4. PICK i \in Ids : i = del[k].id BY <2>3
  <2>5. Contract!Remove BY <1>1, <2>1, <2>2, <2>4, RemoveMaps
  <2> QED BY <2>5 DEF Contract!ProviderNext
<1>7. ASSUME NEW i \in Ids, Lost(i)
      PROVE  Contract!ProviderNext
  <2>1. Disturbed' BY <1>1, <1>7, RemovalDisturbs
  <2>2. vm' = [vm EXCEPT ![i] = NoVM] /\ UNCHANGED <<cloud, op, faults>>
    BY <1>7 DEF Lost
  <2>3. faults' \in Nat /\ faults' >= faults BY <1>2, <2>2
  <2>4. Contract!Remove BY <1>1, <2>1, <2>2, <2>3, RemoveMaps
  <2> QED BY <2>4 DEF Contract!ProviderNext
<1>8. ASSUME NEW s \in Services, DeleteInstance(s)
      PROVE  Contract!ProviderNext \/ UNCHANGED Contract!providerVars
  <2>1. UNCHANGED <<cloud, vm, op, faults>> BY <1>8 DEF DeleteInstance
  <2>2. CASE Disturbed'
    <3>1. 0 \in Ids BY BoundAssumption DEF Ids
    <3>2. Contract!Remove BY <1>1, <1>2, <2>1, <2>2, <3>1, RemoveMaps
    <3> QED BY <3>2 DEF Contract!ProviderNext
  <2>3. CASE ~Disturbed'
    <3>1. ~Disturbed BY <1>1, <2>3, DisturbedStays
    <3>2. Disturbed' = Disturbed BY <2>3, <3>1 DEF Disturbed
    <3> QED BY <1>3, <2>1, <3>2
  <2> QED BY <2>2, <2>3
<1>9. CASE UNCHANGED vars
  BY <1>3, <1>9 DEF vars, Disturbed
<1> QED BY <1>4, <1>5, <1>6, <1>7, <1>8, <1>9 DEF Next

LEMMA InitMaps == Init => Waiting /\ Contract!ProviderInit
<1> SUFFICES ASSUME Init PROVE Waiting /\ Contract!ProviderInit OBVIOUS
<1> USE DEF Init
<1>1. \A k \in Calls : op[k].pc = "unused" OBVIOUS
<1>2. \A i \in Ids : Maker(i) = 0
  BY DEF Maker, Empty
<1>3. ~(faults > 0) /\ ~Disturbed
  BY DEF Disturbed, NoDel
<1>4. Waiting BY <1>1 DEF Waiting
<1>5. \A k \in Calls : Asked(k) = "unused" BY <1>1 DEF Asked
<1>6. (cloud = "azure") \in BOOLEAN OBVIOUS
<1>7. (faults > 0) = FALSE /\ Disturbed = FALSE BY <1>3 DEF Disturbed
<1> QED BY <1>2, <1>4, <1>5, <1>6, <1>7 DEF Contract!ProviderInit

(* Each of the clouds keeps the contract the registry relies on, for any   *)
(* number of creations and deletions at once: a creation that reports an   *)
(* instance has made exactly one VM, and one that reports an error none,   *)
(* but for lost answers, removals and Azure's overwriting by name.         *)
THEOREM CloudsKeepTheContract == Spec => ImplementsProvider
<1>1. IInv /\ Waiting /\ [Next]_vars /\ IInv'
        => Waiting' /\ [Contract!ProviderNext]_(Contract!providerVars)
  BY WaitingStays, StepMaps
<1>2. Init => Waiting /\ Contract!ProviderInit BY InitMaps
<1> QED BY Inductive, <1>1, <1>2, PTL DEF Spec, ImplementsProvider, Contract!ProviderSpec

=============================================================================
