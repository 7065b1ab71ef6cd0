------------------------------ MODULE Provider ------------------------------
(***************************************************************************)
(* What the registry takes a cloud to promise of CreateInstance and        *)
(* DeleteInstance (interface Provider, internal/providers/provider.go): a  *)
(* creation makes at most one VM, and only while it is under way; one that *)
(* succeeds has made it, one that fails has not, unless something went     *)
(* wrong on the way.  How the eight clouds go about it is module CloudVMs, *)
(* which implements this one.                                              *)
(***************************************************************************)
CONSTANTS Calls,        \* CreateInstance calls
          Ids,          \* ProviderIDs
          Nobody        \* made by no call

VARIABLES byName,       \* a creation overwrites the VM that has its name
          call,         \* what the registry knows of each call
          made,         \* per id, the call that made the VM there, if any
          trouble,      \* a call has failed on the way or its answer is lost
          removing      \* deletions have begun, or VMs ended on their own

providerVars == <<byName, call, made, trouble, removing>>

ProviderInit ==
    /\ byName \in BOOLEAN
    /\ call = [k \in Calls |-> "unused"]
    /\ made = [i \in Ids |-> Nobody]
    /\ trouble = FALSE
    /\ removing = FALSE

Has(k) == \E i \in Ids : made[i] = k

(* Trouble comes, or does not, and is never forgotten. *)
Troubled == trouble' \in BOOLEAN /\ (trouble => trouble')

Ask(k) == /\ call[k] = "unused"
          /\ call' = [call EXCEPT ![k] = "asked"]
          /\ UNCHANGED <<byName, made, trouble, removing>>

(* A call makes its VM where no other call's is, and never a second one.   *)
MakeVM(k) == \E i \in Ids : /\ made[i] \in {k, Nobody} \/ byName
                            /\ \A j \in Ids : made[j] = k => j = i
                            /\ made' = [made EXCEPT ![i] = k]

(* It takes back a VM that failed to start. *)
TakeBack(k) == made' = [i \in Ids |-> IF made[i] = k THEN Nobody ELSE made[i]]

(* What may be relied on at the end of a call. *)
Ends(k, pc) ==
    /\ pc = "created" => Has(k)' \/ removing \/ byName
    /\ pc = "failed" => ~Has(k)' \/ trouble' \/ byName

Work(k) ==
    /\ call[k] = "asked"
    /\ UNCHANGED made \/ MakeVM(k) \/ TakeBack(k)
    /\ \E pc \in {"asked", "created", "failed"} :
          call' = [call EXCEPT ![k] = pc] /\ Ends(k, pc)
    /\ Troubled
    /\ UNCHANGED <<byName, removing>>

Remove ==
    /\ removing' = TRUE
    /\ UNCHANGED made \/ \E i \in Ids : made' = [made EXCEPT ![i] = Nobody]
    /\ Troubled
    /\ UNCHANGED <<byName, call>>

ProviderNext == (\E k \in Calls : Ask(k) \/ Work(k)) \/ Remove

ProviderSpec == ProviderInit /\ [][ProviderNext]_providerVars

=============================================================================
