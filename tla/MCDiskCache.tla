---------------------------- MODULE MCDiskCache ----------------------------
(***************************************************************************)
(* Values for the model checker: a catalogue source and a page body that   *)
(* fit the budget together or not, and a directory that lists the page     *)
(* first.                                                                  *)
(***************************************************************************)
EXTENDS DiskCache

CONSTANTS p1, p2, idx, a

Sizes == idx :> {1} @@ a :> {1, 2}
PagesFirst == <<a, idx>>
=============================================================================
