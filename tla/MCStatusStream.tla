--------------------------- MODULE MCStatusStream ---------------------------
(***************************************************************************)
(* StatusStream with one page (pages share nothing but the registry), the  *)
(* exit service, one more service in the grid and one named instance.      *)
(***************************************************************************)
EXTENDS StatusStream

CONSTANTS p
=============================================================================
