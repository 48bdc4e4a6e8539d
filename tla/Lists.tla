------------------------------- MODULE Lists -------------------------------
(***************************************************************************)
(* Lists that are sorted and filtered, by an order that is a set of pairs  *)
(* and by places, so that theorems can be stated of all orders and all     *)
(* choices.                                                                *)
(***************************************************************************)
EXTENDS Integers, FiniteSets, Sequences

\* The members of S, each once, as the pairs of an order have them.
Sorted(S, order) ==
    CHOOSE s \in [1..Cardinality(S) -> S] : \A i, j \in DOMAIN s : i < j => <<s[i], s[j]>> \in order

\* What a list has at some of its places, in its order.
Taken(list, places) ==
    LET kept == Sorted(places, {p \in places \X places : p[1] < p[2]})
    IN  [n \in DOMAIN kept |-> list[kept[n]]]
=============================================================================
