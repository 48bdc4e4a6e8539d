---------------------------- MODULE AtomicDisk ----------------------------
(***************************************************************************)
(* What a directory of cached values promises, whatever is going on inside *)
(* it: a key is missing or has one complete value; a value is put at once, *)
(* and dropped only to make room; what a loss of power brings back is a    *)
(* state the directory was in, whole, since the last one written back.     *)
(***************************************************************************)
EXTENDS Integers

CONSTANTS Keys, Values,
          Total(_, _), \* the bytes that the values of some keys take together
          MaxBytes,    \* the bytes that all of them may take
          Missing      \* the value of a key that has none

VARIABLES value,    \* the value of each key
          durable   \* the value each key has after a loss of power

vars == <<value, durable>>

Present == {k \in Keys : value[k] # Missing}

Init ==
    /\ value = [k \in Keys |-> Missing]
    /\ durable = value

Put(k) ==
    /\ value'[k] \in Values
    /\ value' = [value EXCEPT ![k] = value'[k]]
    /\ durable' = durable

Drop(k) ==
    /\ Total(value, Present) > MaxBytes
    /\ value' = [value EXCEPT ![k] = Missing]
    /\ durable' = durable

Persist ==
    /\ durable' = value
    /\ value' = value

Lose ==
    /\ value' = durable
    /\ durable' = durable

Next ==
    \/ \E k \in Keys : Put(k) \/ Drop(k)
    \/ Persist \/ Lose

Spec == Init /\ [][Next]_vars
=============================================================================
