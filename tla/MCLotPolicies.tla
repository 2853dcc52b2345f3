--------------------------- MODULE MCLotPolicies ---------------------------
(***************************************************************************)
(* Lots and policies for TLC: two bags of one mint are a rebuy.             *)
(***************************************************************************)
EXTENDS LotPolicies
============================================================================
