------------------------------ MODULE MCActivity ------------------------------
(***************************************************************************)
(* Activity for TLC. Feeds are interchangeable: no action and no property  *)
(* names one of them.                                                      *)
(***************************************************************************)
EXTENDS Activity, TLC

Symmetry == Permutations(Feeds)
=============================================================================
