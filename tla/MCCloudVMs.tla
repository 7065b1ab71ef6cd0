----------------------------- MODULE MCCloudVMs -----------------------------
(***************************************************************************)
(* CloudVMs with two services in a region of two zones.                    *)
(***************************************************************************)
EXTENDS CloudVMs

CONSTANTS exit, speedtest, za, zb
=============================================================================
