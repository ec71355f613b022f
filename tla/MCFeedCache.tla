----------------------------- MODULE MCFeedCache -----------------------------
(***************************************************************************)
(* FeedCache for TLC. Requests and origins are interchangeable: no action  *)
(* or invariant names one of them.                                         *)
(***************************************************************************)
EXTENDS FeedCache, TLC

Symmetry == Permutations(Requests) \cup Permutations(Origins)
=============================================================================
