-------------------------------- MODULE MCAdmin --------------------------------
(***************************************************************************)
(* Admin for TLC. Requests and clients are interchangeable: no action and  *)
(* no property names one of them.                                          *)
(***************************************************************************)
EXTENDS Admin, TLC

Symmetry == Permutations(Requests) \cup Permutations(Clients)
=============================================================================
