------------------------- MODULE MCInstanceRegistry -------------------------
(***************************************************************************)
(* Values for the constants of InstanceRegistry.                           *)
(***************************************************************************)
EXTENDS InstanceRegistry

(* An exit node's VM is listed under the instance name, which is also its  *)
(* Tailscale hostname; SSH lists a container of any service under it.      *)
ListedAsHost == [k \in Keys |-> k]

All == VMs
AllOne == [v \in Others |-> CHOOSE k \in Keys : TRUE]
=============================================================================
