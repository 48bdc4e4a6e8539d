--------------------------- MODULE MCContinuation ---------------------------
(***************************************************************************)
(* Values for the model checker.  Pages that do not change: all short      *)
(* texts, some with a literal U+FFFD, and all short sequences of bytes.  A *)
(* few sources of the other kinds that do change, cut into several windows *)
(* and groups.                                                             *)
(***************************************************************************)
EXTENDS Continuation

Runes == {<<"x">>, <<"n">>, <<"L2", "C">>, <<"L3", "C", "C">>, <<"L4", "C", "C", "C">>, <<"R3", "C", "C">>}

Text == {FlattenSeq(runes) : runes \in UNION {[1..k -> Runes] : k \in 0..5}}

Raw == UNION {[1..k -> {"x", "n", "C", "L3"}] : k \in 0..6}

Long  == <<"x", "L3", "C", "C", "L2", "C", "x">>
Lines == <<"n", "x", "x", "L4", "C", "C", "C", "n">>
Short == <<"x">>

Sources ==
    [page     |-> {<<bytes>> : bytes \in Text \cup Raw},
     heading  |-> {<<Long>>, <<Lines>>, <<Short>>},
     sections |-> {<<>>, <<Long, Short>>, <<Short, Lines, Long, Short>>, <<Lines, Long, Long, Long, Lines>>},
     list     |-> {<<>>, <<Short, Short, Long>>, <<Short, Long, Short, Short>>}]

Changes == [page |-> 0, heading |-> 2, sections |-> 2, list |-> 2]

Offsets == {-1} \cup 0..3 \cup {20}
=============================================================================
