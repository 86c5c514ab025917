---------------------------- MODULE MCRetention ----------------------------
(* Two runs on a session of three artifacts: what is retained of its media, *)
(* the directory, the MP4.                                                  *)
EXTENDS Retention, TLC

CONSTANTS first, second
MCSymmetry == Permutations(Runs)
=============================================================================
