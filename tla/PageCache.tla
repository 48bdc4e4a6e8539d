----------------------------- MODULE PageCache -----------------------------
(***************************************************************************)
(* The in-memory page cache: a map from slug to entry, a doubly linked list *)
(* in order of use and a running byte count.  Every operation holds the    *)
(* cache's mutex from start to end, so each is one action.  Operations     *)
(* that change nothing (a lookup that misses, a write larger than the cap, *)
(* Size) are stuttering steps.  Reading an entry's age is left to          *)
(* PageService: nothing here depends on it, expiry never evicts.           *)
(***************************************************************************)
EXTENDS Integers, SequencesExt

CONSTANTS Slugs,     \* page slugs
          Sizes,     \* lengths a page body can have
          Times,     \* fetch times, which entries carry
          Cap        \* byte cap of the cache

ASSUME BytesAssumption == Sizes \subseteq Nat /\ Cap \in Nat

VARIABLES entries,   \* slug -> [size, storedAt], for the slugs cached
          lru,       \* the slugs cached, most recently used first
          curBytes,  \* running count of the bytes held
          uses       \* history: the pairs of slugs of which the first was used after the second

cacheVars == <<entries, lru, curBytes, uses>>

Entry == [size : Sizes, storedAt : Times]

\* The history once k has been used; no code reads it.
UsedLast(k) == {k} \X (Slugs \ {k}) \cup {u \in uses : u[2] # k}

\* A faulty variant of ToFront: the old element stays linked.
ToFrontStillLinked(k) == Cons(k, lru)

\* The list with k at its front: moved there, or pushed when it is new.
ToFront(k) ==
    IF k \in DOMAIN entries
    THEN Cons(k, RemoveAt(lru, CHOOSE i \in 1..Len(lru) : lru[i] = k))
    ELSE Cons(k, lru)

\* A faulty variant of CountWith: a replaced body is not given back.
CountWithOld(k, size) == curBytes + size

\* The running count once a body of this size is stored under k.
CountWith(k, size) ==
    curBytes + size - (IF k \in DOMAIN entries THEN entries[k].size ELSE 0)

\* The bytes a list of entries gives back when it is cut after its first n.
CutBytes(contents, order, n) ==
    SumFunctionOnSet([i \in 1..Len(order) |-> contents[order[i]].size], (n + 1)..Len(order))

-----------------------------------------------------------------------------
CacheInit ==
    /\ entries = <<>>
    /\ lru = <<>>
    /\ curBytes = 0
    /\ uses = {}

\* A faulty variant of Lookup: a read leaves the list as it is.
LookupInPlace(k) ==
    /\ k \in DOMAIN entries
    /\ uses' = UsedLast(k)
    /\ UNCHANGED <<entries, lru, curBytes>>

Lookup(k) ==
    /\ k \in DOMAIN entries
    /\ lru' = ToFront(k)
    /\ uses' = UsedLast(k)
    /\ UNCHANGED <<entries, curBytes>>

\* Replace or insert, then drop entries from the back of the list until the
\* running count is within the cap: n entries are left.
Put(k, size, at) ==
    LET order    == ToFront(k)
        contents == [j \in DOMAIN entries \cup {k} |->
                        IF j = k THEN [size |-> size, storedAt |-> at] ELSE entries[j]]
        left(n)  == CountWith(k, size) - CutBytes(contents, order, n)
    IN  /\ size <= Cap
        /\ uses' = UsedLast(k)
        /\ \E n \in 0..Len(order) :
              /\ n = 0 \/ left(n) <= Cap
              /\ \A m \in (n + 1)..Len(order) : left(m) > Cap
              /\ lru' = SubSeq(order, 1, n)
              /\ entries' = [j \in {order[i] : i \in 1..n} |-> contents[j]]
              /\ curBytes' = left(n)

CacheNext ==
    \/ \E k \in Slugs : Lookup(k)
    \/ \E k \in Slugs, size \in Sizes, at \in Times : Put(k, size, at)

CacheSpec == CacheInit /\ [][CacheNext]_cacheVars

-----------------------------------------------------------------------------
(* Properties *)

\* Every variable has its type, and the running count never goes negative.
CacheTypeOK ==
    /\ DOMAIN entries \subseteq Slugs
    /\ entries \in [DOMAIN entries -> Entry]
    /\ lru \in Seq(Slugs)
    /\ curBytes \in Nat
    /\ uses \subseteq Slugs \X Slugs

\* The list and the map hold the same slugs, each once: an entry missing from
\* the list could never be evicted, one missing from the map is bytes leaked.
ListMatchesMap ==
    /\ {lru[i] : i \in 1..Len(lru)} = DOMAIN entries
    /\ \A i, j \in 1..Len(lru) : lru[i] = lru[j] => i = j

\* The running count is the number of bytes held, after any sequence of
\* replacements by longer and shorter bodies and of evictions, and is within
\* the cap.
BytesBounded ==
    /\ curBytes = SumFunctionOnSet([k \in DOMAIN entries |-> entries[k].size], DOMAIN entries)
    /\ curBytes <= Cap

\* The cache behaves as the recency store: a read counts as a use, and a write
\* evicts the least recently used entries and only as many as the cap requires.
Store == INSTANCE LruStore WITH Keys <- Slugs, MaxBytes <- Cap, store <- entries
ImplementsLruStore == Store!Spec
=============================================================================
