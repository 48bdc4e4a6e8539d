---------------------------- MODULE MCPageCache ----------------------------
(***************************************************************************)
(* A cache of three slugs whose cap holds three of the shortest bodies but *)
(* only one of the longest, with bodies that are empty and bodies that     *)
(* exceed the cap.                                                         *)
(***************************************************************************)
EXTENDS PageCache, TLC

MCSizes == 0..4
MCTimes == 0..1
=============================================================================
