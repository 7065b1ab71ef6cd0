------------------------- MODULE MCGarbageCollector -------------------------
(***************************************************************************)
(* Values for the constants of GarbageCollector: a cloud of two regions    *)
(* with a VM in each, both of one instance name, and a cloud whose listing *)
(* may always fail.                                                        *)
(***************************************************************************)
EXTENDS GarbageCollector, TLC

CONSTANTS steady, flaky, s1, s2, f1, a, b, host, label

TwoClouds == s1 :> steady @@ s2 :> steady @@ f1 :> flaky
Places    == a :> s1 @@ b :> s2

OneHost   == [v \in VMs |-> host]

(* What the clouds list for a service that prefixes its hostnames: the     *)
(* instance name of the tag (registry.go:202, provider.go:103-111), which  *)
(* is not the hostname (services/service.go:155, 176).                     *)
ListedAsName == [v \in VMs |-> label]

(* An exit node and a speed test of one instance name: both are listed     *)
(* under it, and only the exit node has it as its hostname.                *)
TwoServices == a :> host @@ b :> label
=============================================================================
