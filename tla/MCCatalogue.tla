---------------------------- MODULE MCCatalogue ----------------------------
(***************************************************************************)
(* Values for the model checker: the English view, which has two sources,  *)
(* or one of the others, which have one.                                   *)
(***************************************************************************)
EXTENDS Catalogue

CONSTANTS curated, listed, r1, h1, h2
=============================================================================
