----------------------------- MODULE MCVideoRounds -----------------------------
(***************************************************************************)
(* VideoRounds for TLC: the newest episode's last clip never answers, and  *)
(* the video of the oldest one's is a trailer.                             *)
(***************************************************************************)
EXTENDS VideoRounds

NewestClip == {<<Episodes, Versions>>}
OldestClip == {<<1, 1>>}
=============================================================================
