------------------------------ MODULE LruStore ------------------------------
(***************************************************************************)
(* What the in-memory page cache promises, without its list, its map or    *)
(* its running byte count: a set of entries under a byte cap, ordered by    *)
(* recency of use, that loses entries only to a write that needs the room, *)
(* and then loses the least recently used ones and no more than it must.   *)
(* PageCache implements this specification.                                *)
(***************************************************************************)
EXTENDS Integers, Functions

CONSTANTS Keys,      \* page slugs
          Sizes,     \* lengths a page body can have
          Times,     \* fetch times
          MaxBytes   \* byte cap of the cache

VARIABLES store,  \* the entries held: a function from keys to [size, storedAt]
          uses    \* the pairs of keys of which the first was used after the second

vars == <<store, uses>>

\* The bytes that the entries of some keys take together.
Total(contents, keys) == SumFunctionOnSet([k \in keys |-> contents[k].size], keys)

\* The order of use once k has been used.
UsedLast(k) == {k} \X (Keys \ {k}) \cup {u \in uses : u[2] # k}

Init ==
    /\ store = <<>>
    /\ uses = {}

Read(k) ==
    /\ k \in DOMAIN store
    /\ uses' = UsedLast(k)
    /\ store' = store

\* What stays was used after what goes, and the last used of what goes had no
\* room left.
Write(k, size, at) ==
    LET held == DOMAIN store \cup {k}
        contents == [j \in held |-> IF j = k THEN [size |-> size, storedAt |-> at]
                                             ELSE store[j]]
    IN  /\ size <= MaxBytes
        /\ uses' = UsedLast(k)
        /\ \E keep \in SUBSET held :
              /\ Total(contents, keep) <= MaxBytes
              /\ \A e \in held \ keep :
                    /\ \A j \in keep : <<j, e>> \in uses'
                    /\ \/ \E f \in held \ keep : <<f, e>> \in uses'
                       \/ Total(contents, keep \cup {e}) > MaxBytes
              /\ store' = [j \in keep |-> contents[j]]

Next ==
    \/ \E k \in Keys : Read(k)
    \/ \E k \in Keys, size \in Sizes, at \in Times : Write(k, size, at)

Spec == Init /\ [][Next]_vars
=============================================================================
