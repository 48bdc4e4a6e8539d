--------------------------- MODULE MCPageService ---------------------------
(***************************************************************************)
(* Values for the model checker: two requests for one page, which share    *)
(* its flight, its cache entry and the cool-down, or one and a search,     *)
(* which share the cool-down.                                              *)
(***************************************************************************)
EXTENDS PageService, TLC

CONSTANTS c1, c2, s1, q1

Symmetry == Permutations(Callers)
=============================================================================
