----------------------------- MODULE MCServer -----------------------------
(***************************************************************************)
(* Three connections, and requests that take no time, less than the grace, *)
(* as long as it, or longer.  A process that has ended does nothing more,  *)
(* so deadlock is not checked; StopEnds tells an end from being stuck.     *)
(***************************************************************************)
EXTENDS Server
=============================================================================
