--------------------------- MODULE MCFetchClient ---------------------------
(***************************************************************************)
(* Values for the model checker.  A unit of time is a quarter of a second. *)
(***************************************************************************)
EXTENDS FetchClient

CONSTANTS f1, f2
=============================================================================
