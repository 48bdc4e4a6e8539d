---------------------------- MODULE CacheProofs ----------------------------
(***************************************************************************)
(* The two caches, for every set of keys, every length of the values and   *)
(* every cap.  The page cache: its list, its map and its byte count agree  *)
(* whatever is read and written, and implement the recency store.  The     *)
(* disk cache, whatever is killed, fails or loses power: the lock excludes, *)
(* a load only ever finds values that were stored whole, the catalogue     *)
(* outlives the pages and always loads.                                    *)
(***************************************************************************)
EXTENDS PageCache, DiskCache, SequenceTheorems, FiniteSetTheorems, DataTheorems, TLAPS

-----------------------------------------------------------------------------
(* The page cache: its list *)

Elements(s) == {s[i] : i \in 1..Len(s)}
NoRepetition(s) == \A i, j \in 1..Len(s) : s[i] = s[j] => i = j

\* The part of the state the correspondence depends on: no step reads more.
ListInv ==
    /\ lru \in Seq(Slugs)
    /\ Elements(lru) = DOMAIN entries
    /\ NoRepetition(lru)

\* Removing position p keeps what is before it and shifts what is after it.
LEMMA RemoveAtProperties ==
    ASSUME NEW S, NEW s \in Seq(S), NEW p \in 1..Len(s)
    PROVE  /\ RemoveAt(s, p) \in Seq(S)
           /\ Len(RemoveAt(s, p)) = Len(s) - 1
           /\ \A i \in 1..(p - 1) : RemoveAt(s, p)[i] = s[i]
           /\ \A i \in p..(Len(s) - 1) : RemoveAt(s, p)[i] = s[i + 1]
  <1> DEFINE front == SubSeq(s, 1, p - 1)
             back  == SubSeq(s, p + 1, Len(s))
  <1>1. /\ front \in Seq(S)
        /\ Len(front) = p - 1
        /\ \A i \in 1..(p - 1) : front[i] = s[i]
    OBVIOUS
  <1>2. /\ back \in Seq(S)
        /\ Len(back) = Len(s) - p
        /\ \A i \in 1..(Len(s) - p) : back[i] = s[p + i]
    OBVIOUS
  <1>3. RemoveAt(s, p) = front \o back
    BY DEF RemoveAt
  <1> HIDE DEF front, back
  <1> DEFINE cut == front \o back
  <1>4. /\ cut \in Seq(S)
        /\ Len(cut) = Len(s) - 1
        /\ \A i \in 1..(Len(s) - 1) :
              cut[i] = IF i <= p - 1 THEN front[i] ELSE back[i - (p - 1)]
    <2>1. Len(s) \in Nat /\ Len(front) + Len(back) = Len(s) - 1
      BY <1>1, <1>2
    <2>2. /\ cut \in Seq(S)
          /\ Len(cut) = Len(front) + Len(back)
          /\ \A i \in 1..(Len(front) + Len(back)) :
                cut[i] = IF i <= Len(front) THEN front[i] ELSE back[i - Len(front)]
      BY <1>1, <1>2, ConcatProperties
    <2> HIDE DEF cut
    <2>3. QED
      BY <1>1, <2>1, <2>2
  <1> HIDE DEF cut
  <1>5. \A i \in 1..(p - 1) : cut[i] = s[i]
    <2>1. \A i \in 1..(p - 1) : i \in 1..(Len(s) - 1) /\ i <= p - 1
      OBVIOUS
    <2>2. QED
      BY <1>1, <1>4, <2>1
  <1>6. \A i \in p..(Len(s) - 1) : cut[i] = s[i + 1]
    <2> SUFFICES ASSUME NEW i \in p..(Len(s) - 1)
                 PROVE  cut[i] = s[i + 1]
      OBVIOUS
    <2>1. /\ i \in 1..(Len(s) - 1) /\ ~(i <= p - 1)
          /\ i - (p - 1) \in 1..(Len(s) - p) /\ p + (i - (p - 1)) = i + 1
      OBVIOUS
    <2>2. QED
      BY <1>2, <1>4, <2>1
  <1>7. QED
    BY <1>3, <1>4, <1>5, <1>6 DEF cut

LEMMA ConsIs ==
    ASSUME NEW S, NEW k \in S, NEW s \in Seq(S)
    PROVE  /\ Cons(k, s) \in Seq(S)
           /\ Len(Cons(k, s)) = Len(s) + 1
           /\ Cons(k, s)[1] = k
           /\ \A i \in 2..(Len(s) + 1) : i - 1 \in 1..Len(s) /\ Cons(k, s)[i] = s[i - 1]
  <1> DEFINE t == Cons(k, s)
  <1>1. /\ t \in Seq(S)
        /\ Len(t) = Len(s) + 1
        /\ t[1] = k
        /\ \A i \in 1..Len(s) : t[i + 1] = s[i]
    BY DEF Cons
  <1> HIDE DEF t
  <1>2. \A i \in 2..(Len(s) + 1) : i - 1 \in 1..Len(s) /\ (i - 1) + 1 = i
    OBVIOUS
  <1>3. QED
    BY <1>1, <1>2 DEF t

\* Pushing a new element on a list without repetition.
LEMMA ConsProperties ==
    ASSUME NEW S, NEW k \in S, NEW s \in Seq(S), NoRepetition(s), k \notin Elements(s)
    PROVE  /\ Cons(k, s) \in Seq(S)
           /\ Elements(Cons(k, s)) = Elements(s) \cup {k}
           /\ NoRepetition(Cons(k, s))
  <1> DEFINE t == Cons(k, s)
  <1>1. /\ t \in Seq(S)
        /\ Len(t) = Len(s) + 1
        /\ t[1] = k
        /\ \A i \in 1..Len(s) : t[i + 1] = s[i]
    BY DEF Cons
  <1> HIDE DEF t
  <1>2. \A i \in 2..Len(t) : i - 1 \in 1..Len(s) /\ t[i] = s[i - 1]
    <2> SUFFICES ASSUME NEW i \in 2..Len(t)
                 PROVE  i - 1 \in 1..Len(s) /\ t[i] = s[i - 1]
      OBVIOUS
    <2>1. i - 1 \in 1..Len(s) /\ (i - 1) + 1 = i
      BY <1>1
    <2>2. QED
      BY <1>1, <2>1
  <1>3. \A i \in 2..Len(t) : t[i] \in Elements(s)
    BY <1>2 DEF Elements
  <1>4. \A i \in 1..Len(t) : i = 1 \/ i \in 2..Len(t)
    BY <1>1
  <1>5. NoRepetition(t)
    <2> SUFFICES ASSUME NEW i \in 1..Len(t), NEW j \in 1..Len(t), t[i] = t[j]
                 PROVE  i = j
      BY DEF NoRepetition
    <2>1. CASE i \in 2..Len(t) /\ j \in 2..Len(t)
      <3>1. /\ i - 1 \in 1..Len(s) /\ j - 1 \in 1..Len(s)
            /\ s[i - 1] = s[j - 1]
        BY <1>2, <2>1
      <3>2. i - 1 = j - 1
        BY <3>1 DEF NoRepetition
      <3>3. QED
        BY <2>1, <3>2
    <2>2. CASE i = 1 /\ j \in 2..Len(t)
      BY <1>1, <1>3, <2>2
    <2>3. CASE j = 1 /\ i \in 2..Len(t)
      BY <1>1, <1>3, <2>3
    <2>4. QED
      BY <1>4, <2>1, <2>2, <2>3
  <1>6. Elements(t) \subseteq Elements(s) \cup {k}
    <2> SUFFICES ASSUME NEW i \in 1..Len(t)
                 PROVE  t[i] \in Elements(s) \cup {k}
      BY DEF Elements
    <2>1. CASE i = 1
      BY <1>1, <2>1
    <2>2. CASE i \in 2..Len(t)
      BY <1>3, <2>2
    <2>3. QED
      BY <1>4, <2>1, <2>2
  <1>7. Elements(s) \cup {k} \subseteq Elements(t)
    <2>1. k \in Elements(t)
      BY <1>1 DEF Elements
    <2>2. \A i \in 1..Len(s) : i + 1 \in 1..Len(t) /\ t[i + 1] = s[i]
      BY <1>1
    <2>3. QED
      BY <2>1, <2>2 DEF Elements
  <1>8. QED
    BY <1>1, <1>5, <1>6, <1>7 DEF t

\* Taking the element at p out of a list without repetition.
LEMMA RemoveAtElements ==
    ASSUME NEW S, NEW s \in Seq(S), NEW p \in 1..Len(s), NoRepetition(s)
    PROVE  /\ NoRepetition(RemoveAt(s, p))
           /\ Elements(RemoveAt(s, p)) = Elements(s) \ {s[p]}
  <1> DEFINE t == RemoveAt(s, p)
             from(i) == IF i < p THEN i ELSE i + 1
  <1>1. Len(t) = Len(s) - 1 /\ Len(s) \in Nat
    BY RemoveAtProperties
  <1>2. \A i \in 1..Len(t) : from(i) \in 1..Len(s) /\ from(i) # p /\ t[i] = s[from(i)]
    <2> SUFFICES ASSUME NEW i \in 1..Len(t)
                 PROVE  from(i) \in 1..Len(s) /\ from(i) # p /\ t[i] = s[from(i)]
      OBVIOUS
    <2>1. CASE i \in 1..(p - 1)
      BY <1>1, <2>1, RemoveAtProperties
    <2>2. CASE i \in p..(Len(s) - 1)
      BY <1>1, <2>2, RemoveAtProperties
    <2>3. QED
      BY <1>1, <2>1, <2>2
  <1>3. \A i \in 1..Len(s) : i # p => \E j \in 1..Len(t) : from(j) = i
    <2> SUFFICES ASSUME NEW i \in 1..Len(s), i # p
                 PROVE  \E j \in 1..Len(t) : from(j) = i
      OBVIOUS
    <2>1. CASE i < p
      <3>1. i \in 1..Len(t) /\ from(i) = i
        BY <1>1, <2>1
      <3>2. QED
        BY <3>1
    <2>2. CASE i > p
      <3>1. i - 1 \in 1..Len(t) /\ from(i - 1) = i
        BY <1>1, <2>2
      <3>2. QED
        BY <3>1
    <2>3. QED
      BY <2>1, <2>2
  <1>4. \A i, j \in 1..Len(t) : from(i) = from(j) => i = j
    BY <1>1
  <1> HIDE DEF t, from
  <1>5. NoRepetition(t)
    <2> SUFFICES ASSUME NEW i \in 1..Len(t), NEW j \in 1..Len(t), t[i] = t[j]
                 PROVE  i = j
      BY DEF NoRepetition
    <2>1. from(i) = from(j)
      BY <1>2 DEF NoRepetition
    <2>2. QED
      BY <1>4, <2>1
  <1>6. Elements(t) \subseteq Elements(s) \ {s[p]}
    BY <1>2 DEF Elements, NoRepetition
  <1>7. Elements(s) \ {s[p]} \subseteq Elements(t)
    BY <1>2, <1>3 DEF Elements
  <1>8. QED
    BY <1>5, <1>6, <1>7 DEF t

\* Moving a cached slug to the front, or pushing a new one, keeps the list a
\* list of slugs without repetition and adds exactly that slug.
LEMMA ToFrontList ==
    ASSUME NEW k \in Slugs, ListInv
    PROVE  /\ ToFront(k) \in Seq(Slugs)
           /\ Elements(ToFront(k)) = DOMAIN entries \cup {k}
           /\ NoRepetition(ToFront(k))
  <1>1. CASE k \notin DOMAIN entries
    <2>1. ToFront(k) = Cons(k, lru)
      BY <1>1 DEF ToFront
    <2>2. QED
      BY <1>1, <2>1, ConsProperties DEF ListInv
  <1>2. CASE k \in DOMAIN entries
    <2> DEFINE p == CHOOSE i \in 1..Len(lru) : lru[i] = k
    <2>1. p \in 1..Len(lru) /\ lru[p] = k
      BY <1>2 DEF ListInv, Elements
    <2>2. ToFront(k) = Cons(k, RemoveAt(lru, p))
      BY <1>2 DEF ToFront
    <2> HIDE DEF p
    <2>3. /\ RemoveAt(lru, p) \in Seq(Slugs)
          /\ NoRepetition(RemoveAt(lru, p))
          /\ Elements(RemoveAt(lru, p)) = DOMAIN entries \ {k}
      BY <2>1, RemoveAtProperties, RemoveAtElements DEF ListInv
    <2>4. QED
      BY <1>2, <2>2, <2>3, ConsProperties
  <1>3. QED
    BY <1>1, <1>2

-----------------------------------------------------------------------------
(* The byte count *)

USE BytesAssumption

SizeOf(contents) == [j \in DOMAIN contents |-> contents[j].size]

\* The count is that of the entries held.
CountInv ==
    /\ DOMAIN entries \subseteq Slugs
    /\ entries \in [DOMAIN entries -> Entry]
    /\ curBytes = SumFunctionOnSet(SizeOf(entries), DOMAIN entries)
    /\ curBytes <= Cap

LEMMA ElementsFinite ==
    ASSUME NEW S, NEW s \in Seq(S)
    PROVE  IsFiniteSet(Elements(s)) /\ Elements(s) \subseteq S
  <1> DEFINE f == [i \in 1..Len(s) |-> s[i]]
  <1>1. IsFiniteSet(1..Len(s))
    BY FS_Interval
  <1>2. f \in Surjection(1..Len(s), Elements(s))
    BY DEF Surjection, Elements
  <1>3. IsFiniteSet(Elements(s))
    BY <1>1, <1>2, FS_Surjection
  <1>4. QED
    BY <1>3 DEF Elements

LEMMA EntrySize == \A e \in Entry : e.size \in Nat
  <1>1. \A e \in Entry : e.size \in Sizes
    BY Zenon DEF Entry
  <1>2. QED
    BY <1>1

\* The entries and the count of bytes once a body is written, before any is
\* evicted.
Written(k, size, at) ==
    [j \in DOMAIN entries \cup {k} |->
        IF j = k THEN [size |-> size, storedAt |-> at] ELSE entries[j]]

LEMMA CountWithIsSum ==
    ASSUME ListInv, CountInv, NEW k \in Slugs, NEW size \in Sizes, NEW at \in Times
    PROVE  /\ Written(k, size, at) \in [DOMAIN entries \cup {k} -> Entry]
           /\ CountWith(k, size) =
                 SumFunctionOnSet(SizeOf(Written(k, size, at)), DOMAIN entries \cup {k})
  <1> DEFINE held == DOMAIN entries \cup {k}
             rest == DOMAIN entries \ {k}
             c == Written(k, size, at)
  <1>1. c \in [held -> Entry]
    BY DEF Written, CountInv, Entry
  <1>2. /\ \A j \in held : SizeOf(c)[j] = c[j].size /\ SizeOf(c)[j] \in Nat
        /\ SizeOf(c)[k] = size
        /\ \A j \in rest : SizeOf(c)[j] = SizeOf(entries)[j]
        /\ \A j \in DOMAIN entries : SizeOf(entries)[j] = entries[j].size /\ entries[j].size \in Nat
    BY <1>1 DEF SizeOf, Written, CountInv, Entry
  <1>3. IsFiniteSet(DOMAIN entries) /\ IsFiniteSet(rest)
    BY ElementsFinite, FS_Subset DEF ListInv
  <1>4. rest \cup {k} = held /\ k \notin rest
    OBVIOUS
  <1>5. size \in Nat /\ size \in Int
    OBVIOUS
  <1>6. \A j \in rest : SizeOf(c)[j] \in Int /\ SizeOf(entries)[j] \in Int
    BY <1>2
  <1> HIDE DEF c, held, rest
  <1>7. SumFunctionOnSet(SizeOf(c), held) = size + SumFunctionOnSet(SizeOf(c), rest)
    BY <1>2, <1>3, <1>4, <1>5, <1>6, SumAdd
  <1>8. SumFunctionOnSet(SizeOf(c), rest) = SumFunctionOnSet(SizeOf(entries), rest)
    BY <1>2, <1>3, <1>6, SumSame
  <1>9. SumFunctionOnSet(SizeOf(entries), rest) \in Int
    BY <1>3, <1>6, SumIsInt
  <1>10. CountWith(k, size) = size + SumFunctionOnSet(SizeOf(entries), rest)
    <2>1. CASE k \in DOMAIN entries
      <3>1. curBytes = entries[k].size + SumFunctionOnSet(SizeOf(entries), rest)
        <4>1. \A j \in DOMAIN entries : SizeOf(entries)[j] \in Int
          BY <1>2
        <4>2. QED
          BY <1>2, <1>3, <2>1, <4>1, SumRemove DEF rest, CountInv
      <3>2. CountWith(k, size) = curBytes + size - entries[k].size
        BY <2>1 DEF CountWith
      <3>3. QED
        BY <1>2, <1>5, <1>9, <2>1, <3>1, <3>2
    <2>2. CASE k \notin DOMAIN entries
      <3>1. rest = DOMAIN entries
        BY <2>2 DEF rest
      <3>2. curBytes = SumFunctionOnSet(SizeOf(entries), rest)
        BY <3>1 DEF CountInv
      <3>3. CountWith(k, size) = curBytes + size
        BY <2>2, <1>5, <1>9, <3>2 DEF CountWith
      <3>4. QED
        BY <1>5, <1>9, <3>2, <3>3
    <2>3. QED
      BY <2>1, <2>2
  <1>11. QED
    BY <1>1, <1>7, <1>8, <1>10 DEF c, held

\* What is left of a list of entries without repetition is what the entries
\* held take, without what those cut off took.
LEMMA CutIsSum ==
    ASSUME NEW order \in Seq(Slugs), NoRepetition(order),
           NEW c \in [Elements(order) -> Entry]
    PROVE  \A n \in 0..Len(order) :
              SumFunctionOnSet(SizeOf(c), Elements(order)) - CutBytes(c, order, n)
                 = SumFunctionOnSet(SizeOf(c), {order[i] : i \in 1..n})
  <1>0. PICK L \in Nat : L = Len(order)
    OBVIOUS
  <1> DEFINE at == [i \in 1..L |-> c[order[i]].size]
             First(n) == {order[i] : i \in 1..n}
             f == SizeOf(c)
             T == {m \in Nat : m <= L =>
                      SumFunctionOnSet(f, First(L))
                         = SumFunctionOnSet(at, (L - m + 1)..L)
                              + SumFunctionOnSet(f, First(L - m))}
  <1>1. /\ \A i \in 1..L : /\ order[i] \in Elements(order)
                                    /\ at[i] = f[order[i]]
                                    /\ at[i] \in Int
        /\ \A j \in Elements(order) : f[j] \in Int
    <2>1. \A j \in Elements(order) : f[j] = c[j].size /\ c[j].size \in Int
      <3>1. DOMAIN c = Elements(order) /\ \A j \in Elements(order) : c[j] \in Entry
        OBVIOUS
      <3>2. \A e \in Entry : e.size \in Int
        BY EntrySize
      <3>3. QED
        BY <3>1, <3>2 DEF SizeOf
    <2>2. \A i \in 1..L : order[i] \in Elements(order)
      BY <1>0 DEF Elements
    <2>3. \A i \in 1..L : at[i] = c[order[i]].size
      OBVIOUS
    <2> HIDE DEF at, f
    <2>4. QED
      BY <2>1, <2>2, <2>3
  <1>2. First(L) = Elements(order)
    BY <1>0 DEF Elements
  <1>3. \A n \in 0..L : First(n) \subseteq Elements(order)
    BY <1>0 DEF Elements
  <1>4. \A n \in 0..L : /\ IsFiniteSet(First(n))
                                 /\ SumFunctionOnSet(f, First(n)) \in Int
    <2> TAKE n \in 0..L
    <2>1. IsFiniteSet(First(n))
      BY <1>3, ElementsFinite, FS_Subset
    <2>2. \A j \in First(n) : f[j] \in Int
      BY <1>1, <1>3
    <2> HIDE DEF First, f
    <2>3. QED
      BY <2>1, <2>2, SumIsInt
  <1>5. \A n \in 0..L : /\ IsFiniteSet((n + 1)..L)
                                 /\ SumFunctionOnSet(at, (n + 1)..L) \in Int
    <2> TAKE n \in 0..L
    <2>1. IsFiniteSet((n + 1)..L)
      BY <1>1, FS_Interval
    <2>2. \A i \in (n + 1)..L : at[i] \in Int
      BY <1>1
    <2> HIDE DEF at
    <2>3. QED
      BY <2>1, <2>2, SumIsInt
  <1>6. 0 \in T
    <2>1. (L - 0 + 1)..L = {} /\ L - 0 = L
      BY <1>1
    <2>2. SumFunctionOnSet(at, (L - 0 + 1)..L) = 0
      BY <2>1, SumEmpty
    <2> HIDE DEF f, at, First
    <2>3. SumFunctionOnSet(f, First(L)) \in Int
      BY <1>4
    <2>4. QED
      BY <2>1, <2>2, <2>3
  <1>7. ASSUME NEW m \in Nat, m \in T PROVE m + 1 \in T
    <2> SUFFICES ASSUME m + 1 <= L
                 PROVE  SumFunctionOnSet(f, First(L))
                           = SumFunctionOnSet(at, (L - (m + 1) + 1)..L)
                                + SumFunctionOnSet(f, First(L - (m + 1)))
      OBVIOUS
    <2> DEFINE n == L - m
    <2>1. n \in 1..L /\ n = L - m
      OBVIOUS
    <2> HIDE DEF n
    <2>2. /\ L - (m + 1) + 1 = n /\ L - (m + 1) = n - 1
          /\ L - m + 1 = n + 1
          /\ n \in 0..L /\ n - 1 \in 0..L /\ n \in Nat
      BY <1>1, <2>1
    <2>3. SumFunctionOnSet(f, First(L))
             = SumFunctionOnSet(at, (n + 1)..L) + SumFunctionOnSet(f, First(n))
      <3>1. m <= L
        BY <1>1
      <3>2. QED
        BY <1>7, <2>1, <2>2, <3>1
    <2>4. First(n) = First(n - 1) \cup {order[n]} /\ order[n] \notin First(n - 1)
      <3>1. 1..n = (1..(n - 1)) \cup {n}
        BY <2>2
      <3>2. First(n) = First(n - 1) \cup {order[n]}
        BY <3>1
      <3>3. \A i \in 1..(n - 1) : i \in 1..L /\ i # n
        BY <2>1
      <3>4. QED
        BY <1>0, <2>1, <3>2, <3>3 DEF NoRepetition
    <2>5. n..L = ((n + 1)..L) \cup {n} /\ n \notin (n + 1)..L
      BY <2>1
    <2>6. at[n] = f[order[n]] /\ at[n] \in Int
      BY <1>1, <2>1
    <2>7. /\ \A i \in (n + 1)..L : at[i] \in Int
          /\ \A j \in First(n - 1) : f[j] \in Int
      BY <1>1, <1>3, <2>2
    <2>8. /\ IsFiniteSet(First(n - 1)) /\ IsFiniteSet((n + 1)..L)
          /\ SumFunctionOnSet(f, First(n - 1)) \in Int
          /\ SumFunctionOnSet(at, (n + 1)..L) \in Int
      BY <1>4, <1>5, <2>2
    <2> HIDE DEF f, at, First
    <2>9. SumFunctionOnSet(f, First(n)) = f[order[n]] + SumFunctionOnSet(f, First(n - 1))
      BY <2>4, <2>6, <2>7, <2>8, SumAdd
    <2>10. SumFunctionOnSet(at, n..L) = at[n] + SumFunctionOnSet(at, (n + 1)..L)
      BY <2>5, <2>6, <2>7, <2>8, SumAdd
    <2>11. QED
      BY <2>2, <2>3, <2>6, <2>8, <2>9, <2>10
  <1> HIDE DEF T
  <1>8. \A m \in Nat : m \in T
    BY <1>6, <1>7, Induction
  <1>9. ASSUME NEW n \in 0..L
        PROVE  SumFunctionOnSet(f, First(L))
                  = SumFunctionOnSet(at, (n + 1)..L) + SumFunctionOnSet(f, First(n))
    <2> DEFINE m == L - n
    <2>1. m \in Nat /\ m = L - n
      OBVIOUS
    <2> HIDE DEF m
    <2>2. L - m = n /\ m <= L /\ m \in T
      BY <1>1, <1>8, <2>1
    <2> HIDE DEF f, at, First
    <2>3. QED
      BY <2>2 DEF T
  <1>10. QED
    <2> SUFFICES ASSUME NEW n \in 0..L
                 PROVE  SumFunctionOnSet(SizeOf(c), Elements(order)) - CutBytes(c, order, n)
                           = SumFunctionOnSet(SizeOf(c), {order[i] : i \in 1..n})
      BY <1>0
    <2>1. CutBytes(c, order, n) = SumFunctionOnSet(at, (n + 1)..L)
      BY <1>0 DEF CutBytes
    <2>2. /\ SumFunctionOnSet(at, (n + 1)..L) \in Int
          /\ SumFunctionOnSet(f, First(n)) \in Int
      BY <1>4, <1>5
    <2>3. SumFunctionOnSet(f, Elements(order))
             = SumFunctionOnSet(at, (n + 1)..L) + SumFunctionOnSet(f, First(n))
      BY <1>2, <1>9
    <2> HIDE DEF f, at
    <2>4. SumFunctionOnSet(f, Elements(order)) - CutBytes(c, order, n) = SumFunctionOnSet(f, First(n))
      BY <2>1, <2>2, <2>3
    <2>5. QED
      BY <2>4 DEF f

\* What a write leaves behind, for some number of entries kept.
LEMMA PutKeeps ==
    ASSUME ListInv, CountInv, NEW k \in Slugs, NEW size \in Sizes, NEW at \in Times, Put(k, size, at)
    PROVE  LET order == ToFront(k)
               c == Written(k, size, at)
               kept(n) == {order[i] : i \in 1..n}
           IN  \E n \in 0..Len(order) :
                  /\ lru' = SubSeq(order, 1, n)
                  /\ entries' = [j \in kept(n) |-> c[j]]
                  /\ curBytes' = SumFunctionOnSet(SizeOf(c), kept(n))
                  /\ curBytes' <= Cap
                  /\ \A m \in (n + 1)..Len(order) : SumFunctionOnSet(SizeOf(c), kept(m)) > Cap
  <1> DEFINE order == ToFront(k)
             c == Written(k, size, at)
             kept(n) == {order[i] : i \in 1..n}
             left(n) == CountWith(k, size) - CutBytes(c, order, n)
  <1>1. PICK n \in 0..Len(order) :
           /\ n = 0 \/ left(n) <= Cap
           /\ \A m \in (n + 1)..Len(order) : left(m) > Cap
           /\ lru' = SubSeq(order, 1, n)
           /\ entries' = [j \in kept(n) |-> c[j]]
           /\ curBytes' = left(n)
    BY DEF Put, Written
  <1>2. \A m \in 0..Len(order) : left(m) = SumFunctionOnSet(SizeOf(c), kept(m))
    <2>1. order \in Seq(Slugs) /\ NoRepetition(order) /\ Elements(order) = DOMAIN entries \cup {k}
      BY ToFrontList
    <2>2. /\ c \in [Elements(order) -> Entry]
          /\ CountWith(k, size) = SumFunctionOnSet(SizeOf(c), Elements(order))
      BY <2>1, CountWithIsSum
    <2> HIDE DEF order, c
    <2>3. QED
      BY <2>1, <2>2, CutIsSum
  <1>3. n = 0 => left(n) = 0
    <2>1. kept(0) = {}
      OBVIOUS
    <2>2. QED
      BY <1>2, <2>1, SumEmpty
  <1> HIDE DEF order, c, left
  <1>4. \A m \in (n + 1)..Len(order) : m \in 0..Len(order)
    BY <1>1
  <1>5. curBytes' <= Cap
    BY <1>1, <1>3
  <1>6. QED
    BY <1>1, <1>2, <1>4, <1>5 DEF order, c

LEMMA CountStep ==
    ASSUME ListInv, CountInv, [CacheNext]_cacheVars
    PROVE  CountInv'
  <1>1. ASSUME NEW k \in Slugs, Lookup(k)
        PROVE  CountInv'
    BY <1>1 DEF Lookup, CountInv, SizeOf
  <1>2. ASSUME NEW k \in Slugs, NEW size \in Sizes, NEW at \in Times, Put(k, size, at)
        PROVE  CountInv'
    <2> DEFINE order == ToFront(k)
               c == Written(k, size, at)
               kept(n) == {order[i] : i \in 1..n}
    <2>1. PICK n \in 0..Len(order) :
                  /\ entries' = [j \in kept(n) |-> c[j]]
                  /\ curBytes' = SumFunctionOnSet(SizeOf(c), kept(n))
                  /\ curBytes' <= Cap
      BY <1>2, PutKeeps
    <2>2. order \in Seq(Slugs) /\ Elements(order) = DOMAIN entries \cup {k}
      BY ToFrontList
    <2>3. c \in [DOMAIN entries \cup {k} -> Entry]
      BY CountWithIsSum
    <2> HIDE DEF order, c
    <2>4. kept(n) \subseteq Elements(order) /\ IsFiniteSet(kept(n))
      <3>1. kept(n) \subseteq Elements(order)
        BY <2>2 DEF Elements
      <3>2. QED
        BY <2>2, <3>1, ElementsFinite, FS_Subset
    <2> HIDE DEF kept
    <2>5. /\ DOMAIN entries' = kept(n)
          /\ \A j \in kept(n) : c[j] \in Entry /\ entries'[j] = c[j]
          /\ DOMAIN c = DOMAIN entries \cup {k}
      BY <2>1, <2>2, <2>3, <2>4
    <2>6. entries' \in [DOMAIN entries' -> Entry]
      BY <2>1, <2>5
    <2>7. \A j \in kept(n) : SizeOf(c)[j] \in Int /\ SizeOf(entries')[j] = SizeOf(c)[j]
      <3> SUFFICES ASSUME NEW j \in kept(n)
                   PROVE  SizeOf(c)[j] \in Int /\ SizeOf(entries')[j] = SizeOf(c)[j]
        OBVIOUS
      <3>1. c[j].size \in Int
        BY <2>5, EntrySize
      <3>2. SizeOf(c)[j] = c[j].size
        BY <2>2, <2>4, <2>5 DEF SizeOf
      <3>3. SizeOf(entries')[j] = c[j].size
        BY <2>5 DEF SizeOf
      <3>4. QED
        BY <3>1, <3>2, <3>3
    <2>8. SumFunctionOnSet(SizeOf(entries'), DOMAIN entries') = curBytes'
      BY <2>1, <2>4, <2>5, <2>7, SumSame
    <2>9. DOMAIN entries' \subseteq Slugs
      BY <2>2, <2>4, <2>5, ElementsFinite
    <2>10. QED
      BY <2>1, <2>6, <2>8, <2>9 DEF CountInv, SizeOf
  <1>3. CASE UNCHANGED cacheVars
    BY <1>3 DEF cacheVars, CountInv, SizeOf
  <1>4. QED
    BY <1>1, <1>2, <1>3 DEF CacheNext

LEMMA ListStep ==
    ASSUME ListInv, [CacheNext]_cacheVars
    PROVE  ListInv'
  <1>1. ASSUME NEW k \in Slugs, Lookup(k)
        PROVE  ListInv'
    <2>1. lru' = ToFront(k) /\ entries' = entries /\ DOMAIN entries \cup {k} = DOMAIN entries
      BY <1>1 DEF Lookup
    <2>2. /\ lru' \in Seq(Slugs)
          /\ Elements(lru') = DOMAIN entries'
          /\ NoRepetition(lru')
      BY <2>1, ToFrontList
    <2>3. QED
      BY <2>2 DEF ListInv
  <1>2. ASSUME NEW k \in Slugs, NEW size \in Sizes, NEW at \in Times, Put(k, size, at)
        PROVE  ListInv'
    <2> DEFINE order == ToFront(k)
    <2>1. PICK n \in 0..Len(order) :
             /\ lru' = SubSeq(order, 1, n)
             /\ DOMAIN entries' = {order[i] : i \in 1..n}
      BY <1>2 DEF Put
    <2>2. order \in Seq(Slugs) /\ NoRepetition(order)
      BY ToFrontList
    <2> HIDE DEF order
    <2>3. /\ lru' \in Seq(Slugs)
          /\ Len(lru') = n
          /\ \A i \in 1..n : lru'[i] = order[i]
      BY <2>1, <2>2
    <2>4. Elements(lru') = DOMAIN entries'
      BY <2>1, <2>3 DEF Elements
    <2>5. \A i \in 1..n : i \in 1..Len(order)
      BY <2>2
    <2>6. NoRepetition(lru')
      BY <2>2, <2>3, <2>5 DEF NoRepetition
    <2>7. QED
      BY <2>3, <2>4, <2>6 DEF ListInv
  <1>3. CASE UNCHANGED cacheVars
    BY <1>3 DEF cacheVars, ListInv, Elements, NoRepetition
  <1>4. QED
    BY <1>1, <1>2, <1>3 DEF CacheNext

-----------------------------------------------------------------------------
(* The order of use *)

\* The list is in the order of use.
OrderInv ==
    /\ uses \subseteq Slugs \X Slugs
    /\ \A i, j \in 1..Len(lru) : i < j => <<lru[i], lru[j]>> \in uses

CacheInv == ListInv /\ CountInv /\ OrderInv

\* The slug used comes first, and the others keep their order.
LEMMA ToFrontOrder ==
    ASSUME NEW k \in Slugs, ListInv
    PROVE  LET order == ToFront(k)
           IN  /\ Len(order) \in Nat /\ order[1] = k
               /\ \A i, j \in 2..Len(order) : i < j =>
                     \E a, b \in 1..Len(lru) : a < b /\ order[i] = lru[a] /\ order[j] = lru[b]
  <1>1. CASE k \notin DOMAIN entries
    <2>1. ToFront(k) = Cons(k, lru)
      BY <1>1 DEF ToFront
    <2>2. /\ Len(Cons(k, lru)) = Len(lru) + 1 /\ Cons(k, lru)[1] = k
          /\ \A i \in 2..(Len(lru) + 1) : i - 1 \in 1..Len(lru) /\ Cons(k, lru)[i] = lru[i - 1]
      BY ConsIs DEF ListInv
    <2>3. Len(lru) \in Nat
      BY DEF ListInv
    <2>4. QED
      BY <2>1, <2>2, <2>3
  <1>2. CASE k \in DOMAIN entries
    <2> DEFINE p == CHOOSE i \in 1..Len(lru) : lru[i] = k
               t == RemoveAt(lru, p)
    <2>1. p \in 1..Len(lru)
      BY <1>2 DEF ListInv, Elements
    <2>2. ToFront(k) = Cons(k, t)
      BY <1>2 DEF ToFront
    <2> HIDE DEF p
    <2>3. /\ t \in Seq(Slugs) /\ Len(t) = Len(lru) - 1
          /\ \A i \in 1..(p - 1) : t[i] = lru[i]
          /\ \A i \in p..(Len(lru) - 1) : t[i] = lru[i + 1]
      BY <2>1, RemoveAtProperties DEF ListInv
    <2> HIDE DEF t
    <2>4. /\ Len(Cons(k, t)) = Len(t) + 1 /\ Cons(k, t)[1] = k
          /\ \A i \in 2..(Len(t) + 1) : i - 1 \in 1..Len(t) /\ Cons(k, t)[i] = t[i - 1]
      BY <2>3, ConsIs
    <2>5. Len(lru) \in Nat
      BY DEF ListInv
    <2>6. \A i, j \in 1..Len(t) : i < j =>
             \E a, b \in 1..Len(lru) : a < b /\ t[i] = lru[a] /\ t[j] = lru[b]
      <3> SUFFICES ASSUME NEW i \in 1..Len(t), NEW j \in 1..Len(t), i < j
                   PROVE  \E a, b \in 1..Len(lru) : a < b /\ t[i] = lru[a] /\ t[j] = lru[b]
        OBVIOUS
      <3> DEFINE from(x) == IF x < p THEN x ELSE x + 1
      <3>1. \A x \in 1..Len(t) : from(x) \in 1..Len(lru) /\ t[x] = lru[from(x)]
        BY <2>1, <2>3, <2>5
      <3>2. from(i) < from(j)
        BY <2>1
      <3> HIDE DEF from
      <3>3. QED
        BY <3>1, <3>2
    <2>7. ASSUME NEW i \in 2..(Len(t) + 1), NEW j \in 2..(Len(t) + 1), i < j
          PROVE  \E a, b \in 1..Len(lru) :
                    a < b /\ Cons(k, t)[i] = lru[a] /\ Cons(k, t)[j] = lru[b]
      <3>1. /\ i - 1 \in 1..Len(t) /\ j - 1 \in 1..Len(t)
            /\ Cons(k, t)[i] = t[i - 1] /\ Cons(k, t)[j] = t[j - 1]
        BY <2>4
      <3>2. i - 1 < j - 1
        BY <2>7, <2>3, <2>5
      <3>3. QED
        BY <2>6, <3>1, <3>2
    <2>8. Len(t) + 1 \in Nat
      BY <2>3, <2>5
    <2>9. QED
      BY <2>2, <2>4, <2>7, <2>8
  <1>3. QED
    BY <1>1, <1>2

\* Once k has been used the list with k in front is in the order of use.
LEMMA ToFrontByUse ==
    ASSUME NEW k \in Slugs, ListInv, OrderInv
    PROVE  /\ UsedLast(k) \subseteq Slugs \X Slugs
           /\ \A i, j \in 1..Len(ToFront(k)) : i < j => <<ToFront(k)[i], ToFront(k)[j]>> \in UsedLast(k)
  <1>1. UsedLast(k) \subseteq Slugs \X Slugs
    BY DEF UsedLast, OrderInv
  <1> DEFINE order == ToFront(k)
  <1>2. /\ Len(order) \in Nat /\ order[1] = k
        /\ \A i, j \in 2..Len(order) : i < j =>
              \E a, b \in 1..Len(lru) : a < b /\ order[i] = lru[a] /\ order[j] = lru[b]
    BY ToFrontOrder
  <1>3. /\ \A i \in 1..Len(order) : order[i] \in Slugs
        /\ NoRepetition(order)
    BY ToFrontList
  <1> HIDE DEF order
  <1>4. ASSUME NEW i \in 1..Len(order), NEW j \in 1..Len(order), i < j
        PROVE  <<order[i], order[j]>> \in UsedLast(k)
    <2>1. order[j] # k
      BY <1>2, <1>3, <1>4 DEF NoRepetition
    <2>2. CASE i = 1
      BY <1>2, <1>3, <2>1, <2>2 DEF UsedLast
    <2>3. CASE i # 1
      <3>1. i \in 2..Len(order) /\ j \in 2..Len(order)
        BY <1>2, <1>4, <2>3
      <3>2. <<order[i], order[j]>> \in uses
        BY <1>2, <1>4, <3>1 DEF OrderInv
      <3>3. QED
        BY <2>1, <3>2 DEF UsedLast
    <2>4. QED
      BY <2>2, <2>3
  <1>5. QED
    BY <1>1, <1>4 DEF order

LEMMA OrderStep ==
    ASSUME ListInv, CountInv, OrderInv, [CacheNext]_cacheVars
    PROVE  OrderInv'
  <1>1. ASSUME NEW k \in Slugs, Lookup(k)
        PROVE  OrderInv'
    BY <1>1, ToFrontByUse DEF Lookup, OrderInv
  <1>2. ASSUME NEW k \in Slugs, NEW size \in Sizes, NEW at \in Times, Put(k, size, at)
        PROVE  OrderInv'
    <2> DEFINE order == ToFront(k)
    <2>1. PICK n \in 0..Len(order) : lru' = SubSeq(order, 1, n)
      BY <1>2, PutKeeps
    <2>2. uses' = UsedLast(k)
      BY <1>2 DEF Put
    <2>3. order \in Seq(Slugs)
      BY ToFrontList
    <2>4. /\ uses' \subseteq Slugs \X Slugs
          /\ \A i, j \in 1..Len(order) : i < j => <<order[i], order[j]>> \in uses'
      BY <2>2, ToFrontByUse
    <2> HIDE DEF order
    <2>5. Len(lru') = n /\ \A i \in 1..n : i \in 1..Len(order) /\ lru'[i] = order[i]
      BY <2>1, <2>3
    <2>6. QED
      BY <2>4, <2>5 DEF OrderInv
  <1>3. CASE UNCHANGED cacheVars
    BY <1>3 DEF cacheVars, OrderInv
  <1>4. QED
    BY <1>1, <1>2, <1>3 DEF CacheNext

LEMMA CacheInvariant == CacheSpec => []CacheInv
  <1>1. CacheInit => CacheInv
    <2> SUFFICES ASSUME CacheInit PROVE CacheInv
      OBVIOUS
    <2>1. ListInv /\ OrderInv
      BY DEF CacheInit, ListInv, OrderInv, Elements, NoRepetition
    <2>2. DOMAIN entries = {} /\ entries \in [DOMAIN entries -> Entry]
      BY DEF CacheInit
    <2>3. CountInv
      BY <2>2, SumEmpty DEF CacheInit, CountInv
    <2>4. QED
      BY <2>1, <2>3 DEF CacheInv
  <1>2. CacheInv /\ [CacheNext]_cacheVars => CacheInv'
    BY ListStep, CountStep, OrderStep DEF CacheInv
  <1>3. QED
    BY <1>1, <1>2, PTL DEF CacheSpec

\* The list and the map agree on the slugs cached after any number of reads,
\* writes, replacements and evictions (the code behind ListMatchesMap).
THEOREM ListAlwaysMatchesMap == CacheSpec => []ListMatchesMap
  <1>1. CacheInv => ListMatchesMap
    BY DEF CacheInv, ListInv, ListMatchesMap, Elements, NoRepetition
  <1>2. QED
    BY <1>1, CacheInvariant, PTL

\* The running byte count is always the sum of the lengths of the bodies held,
\* and within the cap, for every cap and every sequence of writes.
THEOREM BytesAlwaysBounded == CacheSpec => []BytesBounded
  <1>1. CacheInv => BytesBounded
    BY DEF CacheInv, CountInv, BytesBounded, SizeOf
  <1>2. QED
    BY <1>1, CacheInvariant, PTL

\* Every variable keeps its type; the count, a difference, is never negative.
THEOREM CacheTypesHold == CacheSpec => []CacheTypeOK
  <1>1. ASSUME CacheInv PROVE CacheTypeOK
    <2>1. \A j \in DOMAIN entries : SizeOf(entries)[j] \in Nat
      BY <1>1, EntrySize DEF CacheInv, CountInv, SizeOf
    <2>2. IsFiniteSet(DOMAIN entries)
      BY <1>1, ElementsFinite DEF CacheInv, ListInv
    <2>3. curBytes \in Nat
      BY <1>1, <2>1, <2>2, SumIsNat DEF CacheInv, CountInv
    <2>4. QED
      BY <1>1, <2>3 DEF CacheInv, ListInv, CountInv, OrderInv, CacheTypeOK
  <1>2. QED
    BY <1>1, CacheInvariant, PTL

-----------------------------------------------------------------------------
(* Refinement *)

\* The sum is the same in both specifications.
LEMMA StoreSum == \A f, S : Store!SumFunctionOnSet(f, S) = SumFunctionOnSet(f, S)
  BY DEF Store!SumFunctionOnSet, Store!FoldFunctionOnSet, Store!MapThenFoldSet,
         SumFunctionOnSet, FoldFunctionOnSet, MapThenFoldSet

\* A write that keeps the first entries of the list keeps those used last, and
\* the first one it evicts had no room.
LEMMA PutRefines ==
    ASSUME CacheInv, NEW k \in Slugs, NEW size \in Sizes, NEW at \in Times, Put(k, size, at)
    PROVE  Store!Write(k, size, at)
  <1> DEFINE order == ToFront(k)
             c == Written(k, size, at)
             kept(n) == {order[i] : i \in 1..n}
             held == DOMAIN entries \cup {k}
  <1>1. PICK n \in 0..Len(order) :
           /\ entries' = [j \in kept(n) |-> c[j]]
           /\ curBytes' = SumFunctionOnSet(SizeOf(c), kept(n))
           /\ curBytes' <= Cap
           /\ \A m \in (n + 1)..Len(order) : SumFunctionOnSet(SizeOf(c), kept(m)) > Cap
    BY PutKeeps DEF CacheInv
  <1>2. /\ order \in Seq(Slugs)
        /\ Elements(order) = held
        /\ NoRepetition(order)
    BY ToFrontList DEF CacheInv
  <1>3. c \in [held -> Entry]
    BY CountWithIsSum DEF CacheInv
  <1>4. size <= Cap /\ uses' = UsedLast(k) /\ Store!UsedLast(k) = UsedLast(k)
    BY DEF Put, UsedLast, Store!UsedLast
  <1>5. \A i, j \in 1..Len(order) : i < j => <<order[i], order[j]>> \in uses'
    BY <1>4, ToFrontByUse DEF CacheInv
  <1> HIDE DEF order
  <1>6. PICK L \in Nat : L = Len(order)
    BY <1>2
  <1>7. \A m \in 0..L : kept(m) \subseteq held /\ IsFiniteSet(kept(m))
    <2> TAKE m \in 0..L
    <2>1. kept(m) \subseteq held
      BY <1>2, <1>6 DEF Elements
    <2>2. QED
      BY <1>2, <2>1, ElementsFinite, FS_Subset
  <1>8. \A m \in 0..L : Store!Total(c, kept(m)) = SumFunctionOnSet(SizeOf(c), kept(m))
    <2> TAKE m \in 0..L
    <2>1. Store!Total(c, kept(m)) = SumFunctionOnSet([j \in kept(m) |-> c[j].size], kept(m))
      BY StoreSum DEF Store!Total
    <2>2. \A j \in kept(m) : SizeOf(c)[j] \in Int /\ [i \in kept(m) |-> c[i].size][j] = SizeOf(c)[j]
      <3> HIDE DEF kept, c
      <3> SUFFICES ASSUME NEW j \in kept(m) PROVE SizeOf(c)[j] \in Int /\ c[j].size = SizeOf(c)[j]
        OBVIOUS
      <3>1. c[j] \in Entry /\ j \in DOMAIN c
        BY <1>3, <1>7
      <3>2. QED
        BY <3>1, EntrySize DEF SizeOf
    <2> HIDE DEF kept, c
    <2>3. QED
      BY <1>7, <2>1, <2>2, SumSame
  <1> DEFINE keep == kept(n)
  <1>9. Store!Total(c, keep) <= Cap
    BY <1>1, <1>6, <1>8
  <1>10. ASSUME NEW e \in held \ keep
         PROVE  /\ \A j \in keep : <<j, e>> \in uses'
                /\ \/ \E f \in held \ keep : <<f, e>> \in uses'
                   \/ Store!Total(c, keep \cup {e}) > Cap
    <2>1. PICK m \in 1..L : e = order[m]
      BY <1>2, <1>6 DEF Elements
    <2>2. m > n
      BY <1>10, <2>1, <1>1, <1>6
    <2>3. \A j \in keep : <<j, e>> \in uses'
      <3> SUFFICES ASSUME NEW i \in 1..n PROVE <<order[i], e>> \in uses'
        OBVIOUS
      <3>1. i \in 1..L /\ i < m
        BY <1>1, <1>6, <2>2
      <3>2. QED
        BY <1>5, <1>6, <2>1, <3>1
    <2>4. CASE m = n + 1
      <3>1. 1..m = (1..n) \cup {m}
        BY <2>4, <1>1, <1>6
      <3>2. keep \cup {e} = kept(m)
        BY <2>1, <3>1
      <3>3. SumFunctionOnSet(SizeOf(c), kept(m)) > Cap
        BY <1>1, <1>6, <2>4
      <3>4. m \in 0..L
        BY <1>6
      <3> HIDE DEF kept, c, keep
      <3>5. Store!Total(c, keep \cup {e}) > Cap
        BY <1>8, <3>2, <3>3, <3>4
      <3>6. QED
        BY <2>3, <3>5
    <2>5. CASE m > n + 1
      <3>1. n + 1 \in 1..L /\ n + 1 < m
        BY <1>1, <1>6, <2>5
      <3>2. order[n + 1] \in held
        BY <1>2, <1>6, <3>1 DEF Elements
      <3>3. order[n + 1] \notin keep
        <4>1. \A i \in 1..n : i \in 1..L /\ i # n + 1
          BY <1>1, <1>6
        <4>2. QED
          BY <1>2, <1>6, <3>1, <4>1 DEF NoRepetition
      <3>4. <<order[n + 1], e>> \in uses'
        BY <1>5, <1>6, <2>1, <3>1
      <3> HIDE DEF kept, c, keep
      <3>5. QED
        BY <2>3, <3>2, <3>3, <3>4
    <2>6. m = n + 1 \/ m > n + 1
      BY <1>1, <1>6, <2>2
    <2> HIDE DEF kept, c, keep
    <2>7. QED
      BY <2>4, <2>5, <2>6
  <1>11. keep \in SUBSET held
    BY <1>1, <1>6, <1>7
  <1>12. c = [j \in held |-> IF j = k THEN [size |-> size, storedAt |-> at] ELSE entries[j]]
    BY DEF Written
  <1>13. entries' = [j \in keep |-> c[j]]
    BY <1>1
  <1> HIDE DEF c, keep, kept
  <1>14. QED
    BY <1>4, <1>9, <1>10, <1>11, <1>12, <1>13 DEF Store!Write

\* The list, the map and the running count together are the recency store: no
\* write ever evicts an entry used after one it keeps, or more than it must.
THEOREM CacheIsLruStore == CacheSpec => ImplementsLruStore
  <1>1. CacheInit => Store!Init
    BY DEF CacheInit, Store!Init
  <1>2. ASSUME CacheInv, [CacheNext]_cacheVars
        PROVE  [Store!Next]_<<entries, uses>>
    <2>1. ASSUME NEW k \in Slugs, Lookup(k)
          PROVE  Store!Read(k)
      BY <2>1 DEF Lookup, Store!Read, UsedLast, Store!UsedLast
    <2>2. ASSUME NEW k \in Slugs, NEW size \in Sizes, NEW at \in Times, Put(k, size, at)
          PROVE  Store!Write(k, size, at)
      BY <1>2, <2>2, PutRefines
    <2>3. CASE UNCHANGED cacheVars
      BY <2>3 DEF cacheVars
    <2>4. QED
      BY <1>2, <2>1, <2>2, <2>3 DEF CacheNext, Store!Next
  <1>3. QED
    BY <1>1, <1>2, CacheInvariant, PTL DEF CacheSpec, ImplementsLruStore, Store!Spec, Store!vars

-----------------------------------------------------------------------------
(* The disk cache *)

\* What a store has done to its temporary file by the time it reaches a step:
\* by the rename it is whole, synced and dated.
TempStages ==
    \A p \in Procs :
        /\ temp[p] # Missing => temp[p].fetched = job[p].fetched
        /\ pc[p] \in {"sync", "date", "rename"} => temp[p].whole = TRUE
        /\ pc[p] \in {"date", "rename"} => temp[p].synced = TRUE
        /\ pc[p] = "rename" => temp[p].mtime = temp[p].fetched

\* Both images of the directory hold only genuine entries whose bytes are safe;
\* a power loss turns the platter's image into the running one.
Safe(file) == file # Missing => Genuine(file) /\ file.synced = TRUE
ImagesSafe == \A k \in Keys : Safe(files[k]) /\ Safe(platter[k])

\* The running total of a pruning is the bytes of the listed files still there.
TotalRight == \A p \in Procs : pc[p] = "prune" => total = Total(files, Listed)

IInv ==
    /\ TypeOK
    /\ LockExcludes
    /\ TempStages
    /\ ImagesSafe
    /\ TotalRight

USE KeysAssumption, SizesAssumption, BoundsAssumption, NoneAssumption

LEMMA InitInv == Init => IInv
  BY DEF Init, IInv, TypeOK, LockExcludes, TempStages, ImagesSafe, TotalRight, Safe, Critical, Writing

LEMMA KeysFinite == IsFiniteSet(Keys) /\ IsFiniteSet(Catalogue)
  <1>1. Keys = Elements(Listing)
    BY ListingAssumption DEF ToSet, Elements
  <1>2. Listing \in Seq(Keys)
    BY ListingAssumption
  <1>3. IsFiniteSet(Keys)
    BY <1>1, <1>2, ElementsFinite
  <1>4. Catalogue \subseteq Keys
    BY DEF Keys
  <1>5. QED
    BY <1>3, <1>4, FS_Subset

\* The bytes of some files: fewer files, fewer bytes.
LEMMA TotalGrows ==
    ASSUME TypeOK, NEW S \in SUBSET Present, NEW R \in SUBSET S
    PROVE  /\ Total(files, R) \in Nat /\ Total(files, S) \in Nat
           /\ Total(files, R) <= Total(files, S)
  <1>1. PICK f : f = [k \in S |-> files[k].size]
    OBVIOUS
  <1>2. PICK h : h = [k \in R |-> files[k].size]
    OBVIOUS
  <1>3. IsFiniteSet(S) /\ IsFiniteSet(R)
    BY KeysFinite, FS_Subset DEF Present
  <1>4. \A k \in S : f[k] \in Nat /\ f[k] \in Int
    BY <1>1 DEF TypeOK, Present, File
  <1>5. \A k \in R : f[k] \in Int /\ h[k] = f[k]
    BY <1>1, <1>2, <1>4
  <1>6. Total(files, S) = SumFunctionOnSet(f, S) /\ Total(files, R) = SumFunctionOnSet(h, R)
    BY <1>1, <1>2 DEF Total
  <1>7. SumFunctionOnSet(h, R) = SumFunctionOnSet(f, R)
    BY <1>3, <1>5, SumSame
  <1>8. SumFunctionOnSet(f, S) \in Nat /\ SumFunctionOnSet(f, R) \in Nat
    <2>1. \A k \in R : f[k] \in Nat
      BY <1>4
    <2>2. QED
      BY <1>3, <1>4, <2>1, SumIsNat
  <1>9. SumFunctionOnSet(f, R) <= SumFunctionOnSet(f, S)
    BY <1>3, <1>4, SumGrows
  <1>10. QED
    BY <1>6, <1>7, <1>8, <1>9

\* A file that goes takes its bytes with it, and no others.
LEMMA TotalRemove ==
    ASSUME TypeOK, NEW S \in SUBSET Present, NEW k \in S, files' = [files EXCEPT ![k] = Missing]
    PROVE  Total(files', S \ {k}) = Total(files, S) - files[k].size
  <1>1. PICK f : f = [j \in S |-> files[j].size]
    OBVIOUS
  <1>2. PICK h : h = [j \in S \ {k} |-> files'[j].size]
    OBVIOUS
  <1>3. IsFiniteSet(S) /\ IsFiniteSet(S \ {k})
    BY KeysFinite, FS_Subset DEF Present
  <1>4. \A j \in S : f[j] \in Nat /\ f[j] \in Int
    BY <1>1 DEF TypeOK, Present, File
  <1>5. \A j \in S \ {k} : f[j] \in Int /\ h[j] = f[j]
    BY <1>1, <1>2, <1>4 DEF TypeOK, Present
  <1>6. Total(files, S) = SumFunctionOnSet(f, S) /\ Total(files', S \ {k}) = SumFunctionOnSet(h, S \ {k})
    BY <1>1, <1>2 DEF Total
  <1>7. SumFunctionOnSet(h, S \ {k}) = SumFunctionOnSet(f, S \ {k})
    BY <1>3, <1>5, SumSame
  <1>8. SumFunctionOnSet(f, S) = f[k] + SumFunctionOnSet(f, S \ {k})
    BY <1>3, <1>4, SumRemove
  <1>9. SumFunctionOnSet(f, S \ {k}) \in Nat /\ f[k] = files[k].size /\ f[k] \in Nat
    <2>1. \A j \in S \ {k} : f[j] \in Nat
      BY <1>4
    <2>2. QED
      BY <1>1, <1>3, <1>4, <2>1, SumIsNat
  <1>10. QED
    BY <1>6, <1>7, <1>8, <1>9

\* Steps that touch neither the entry files nor the pruning leave its total right.
LEMMA TotalKept ==
    ASSUME TotalRight, UNCHANGED <<pruning, files>>,
           \A p \in Procs : pc'[p] = "prune" => pc[p] = "prune"
    PROVE  TotalRight'
  BY DEF TotalRight, Listed, Present, pruning

\* The file operations a store performs, on any file.
LEMMA FileUpdates ==
    ASSUME NEW f \in File, NEW t \in 0..MaxTime
    PROVE  /\ [f EXCEPT !.whole = TRUE, !.mtime = t] \in File
           /\ [f EXCEPT !.whole = TRUE, !.mtime = t].fetched = f.fetched
           /\ [f EXCEPT !.whole = TRUE, !.mtime = t].whole = TRUE
           /\ [f EXCEPT !.synced = TRUE] \in File
           /\ [f EXCEPT !.synced = TRUE].fetched = f.fetched
           /\ [f EXCEPT !.synced = TRUE].whole = f.whole
           /\ [f EXCEPT !.synced = TRUE].synced = TRUE
  BY DEF File

LEMMA FileDated ==
    ASSUME NEW f \in File, NEW t \in 0..MaxTime
    PROVE  /\ [f EXCEPT !.mtime = t] \in File
           /\ [f EXCEPT !.mtime = t].fetched = f.fetched
           /\ [f EXCEPT !.mtime = t].mtime = t
           /\ [f EXCEPT !.mtime = t].whole = f.whole
           /\ [f EXCEPT !.mtime = t].synced = f.synced
  BY DEF File

\* Every way an operation ends keeps the invariant: the process that leaves is
\* idle, without a file, and without the lock if it had it.
LEMMA LeaveInv ==
    ASSUME IInv, NEW p \in Procs, Leave(p), UNCHANGED <<files, platter, now>>,
           leftovers' \subseteq 0..MaxTime
    PROVE  IInv'
  <1>1. TypeOK'
    BY DEF IInv, TypeOK, Leave, pruning, Critical, Writing
  <1>2. LockExcludes'
    BY DEF IInv, TypeOK, LockExcludes, Leave, Critical, Writing
  <1>3. TempStages'
    BY DEF IInv, TypeOK, TempStages, Leave
  <1>4. ImagesSafe'
    BY DEF IInv, ImagesSafe, Safe, Genuine
  <1>5. TotalRight'
    <2> SUFFICES ASSUME NEW q \in Procs, pc'[q] = "prune"
                 PROVE  total' = Total(files', Listed')
      BY DEF TotalRight
    <2>1. q # p /\ pc[q] = "prune"
      BY DEF Leave, IInv, TypeOK
    <2>2. lock # p
      BY <2>1 DEF IInv, LockExcludes, Critical
    <2>3. UNCHANGED <<unlisted, total, files>>
      BY <2>2 DEF Leave, pruning
    <2>4. QED
      BY <2>1, <2>3 DEF IInv, TotalRight, Listed, Present
  <1>6. QED
    BY <1>1, <1>2, <1>3, <1>4, <1>5 DEF IInv

LEMMA RemainsType ==
    ASSUME TypeOK, NEW p \in Procs
    PROVE  Remains(p) \subseteq 0..MaxTime
  BY DEF Remains, TypeOK, File

LEMMA AbandonType ==
    ASSUME TypeOK, NEW p \in Procs, Abandon(p)
    PROVE  leftovers' \subseteq 0..MaxTime
  BY RemainsType DEF Abandon, TypeOK

\* One step of one process keeps the invariant.
LEMMA StepInv ==
    ASSUME IInv, NEW p \in Procs, BeginStore(p) \/ BeginLoad(p) \/ Step(p) \/ Kill(p)
    PROVE  IInv'
  <1>1. CASE BeginStore(p)
    <2>1. PICK j \in Job : job' = [job EXCEPT ![p] = j]
      <3>1. PICK k \in Keys : \E size \in SizesOf[k], fetched \in 0..now :
               job' = [job EXCEPT ![p] = [key |-> k, size |-> size, fetched |-> fetched]]
        BY <1>1 DEF BeginStore
      <3>2. PICK size \in SizesOf[k], fetched \in 0..now :
               job' = [job EXCEPT ![p] = [key |-> k, size |-> size, fetched |-> fetched]]
        BY <3>1
      <3>3. size \in Nat /\ fetched \in 0..MaxTime
        BY <3>2 DEF IInv, TypeOK
      <3>4. QED
        BY <3>2, <3>3 DEF Job
    <2>2. TypeOK'
      BY <1>1, <2>1 DEF IInv, TypeOK, BeginStore, pruning, Critical, Writing
    <2>3. LockExcludes' /\ TempStages' /\ ImagesSafe'
      BY <1>1, <2>1 DEF IInv, TypeOK, BeginStore, LockExcludes, TempStages, ImagesSafe, Safe, Genuine,
                        Critical, Writing
    <2>4. TotalRight'
      BY <1>1, TotalKept DEF IInv, TypeOK, BeginStore
    <2>5. QED
      BY <2>2, <2>3, <2>4 DEF IInv
  <1>2. CASE BeginLoad(p)
    <2>1. TypeOK' /\ LockExcludes' /\ TempStages' /\ ImagesSafe'
      BY <1>2 DEF BeginLoad, pruning, IInv, TypeOK, LockExcludes, TempStages, ImagesSafe, Safe, Genuine,
                  Critical, Writing
    <2>2. TotalRight'
      BY <1>2, TotalKept DEF BeginLoad, IInv, TypeOK
    <2>3. QED
      BY <2>1, <2>2 DEF IInv
  <1>3. CASE TryLock(p)
    <2>1. TypeOK' /\ LockExcludes' /\ TempStages' /\ ImagesSafe'
      BY <1>3 DEF TryLock, pruning, IInv, TypeOK, LockExcludes, TempStages, ImagesSafe, Safe, Genuine,
                  Critical, Writing
    <2>2. TotalRight'
      BY <1>3, TotalKept DEF TryLock, IInv, TypeOK
    <2>3. QED
      BY <2>1, <2>2 DEF IInv
  <1>4. CASE LockFails(p)
    BY <1>4, LeaveInv DEF LockFails, IInv, TypeOK
  <1>5. CASE Create(p)
    <2>1. PICK f \in File : /\ temp' = [temp EXCEPT ![p] = f]
                            /\ f.fetched = job[p].fetched
      <3>1. job[p] \in Job /\ now \in 0..MaxTime
        BY <1>5 DEF Create, IInv, TypeOK, Writing
      <3>2. [size |-> job[p].size, fetched |-> job[p].fetched,
             mtime |-> now, whole |-> FALSE, synced |-> FALSE] \in File
        BY <3>1 DEF File, Job
      <3>3. QED
        BY <1>5, <3>2 DEF Create
    <2>2. TypeOK'
      BY <1>5, <2>1 DEF Create, pruning, IInv, TypeOK, Critical, Writing
    <2>3. LockExcludes' /\ TempStages' /\ ImagesSafe'
      BY <1>5, <2>1 DEF Create, IInv, TypeOK, LockExcludes, TempStages, ImagesSafe, Safe, Genuine,
                        Critical, Writing
    <2>4. TotalRight'
      BY <1>5, TotalKept DEF Create, IInv, TypeOK
    <2>5. QED
      BY <2>2, <2>3, <2>4 DEF IInv
  <1>6. CASE Write(p)
    <2>1. PICK f \in File : /\ temp' = [temp EXCEPT ![p] = f]
                            /\ f.fetched = temp[p].fetched
                            /\ f.whole = TRUE
      <3>1. temp[p] \in File /\ now \in 0..MaxTime
        BY <1>6 DEF Write, IInv, TypeOK, Writing
      <3> DEFINE f == [temp[p] EXCEPT !.whole = TRUE, !.mtime = now]
      <3>2. f \in File /\ f.fetched = temp[p].fetched /\ f.whole = TRUE
        BY <3>1, FileUpdates
      <3>3. temp' = [temp EXCEPT ![p] = f]
        BY <1>6 DEF Write
      <3> HIDE DEF f
      <3>4. QED
        BY <3>2, <3>3
    <2>2. TypeOK'
      BY <1>6, <2>1 DEF Write, pruning, IInv, TypeOK, Critical, Writing
    <2>3. LockExcludes' /\ ImagesSafe'
      BY <1>6, <2>1 DEF Write, IInv, TypeOK, LockExcludes, ImagesSafe, Safe, Genuine, Critical, Writing
    <2>4. TempStages'
      BY <1>6, <2>1 DEF Write, IInv, TypeOK, TempStages, Writing
    <2>5. TotalRight'
      BY <1>6, TotalKept DEF Write, IInv, TypeOK
    <2>6. QED
      BY <2>2, <2>3, <2>4, <2>5 DEF IInv
  <1>7. CASE Sync(p)
    <2>1. PICK f \in File : /\ temp' = [temp EXCEPT ![p] = f]
                            /\ f.fetched = temp[p].fetched
                            /\ f.whole = temp[p].whole
                            /\ f.synced = TRUE
      <3>1. temp[p] \in File /\ now \in 0..MaxTime
        BY <1>7 DEF Sync, IInv, TypeOK, Writing
      <3>2. QED
        BY <1>7, <3>1, FileUpdates DEF Sync
    <2>2. TypeOK'
      <3>1. /\ pc' \in [Procs -> {"idle", "lock"} \cup Critical]
            /\ job' \in [Procs -> Job \cup {Missing}]
            /\ unlisted' \subseteq Keys /\ tried' \subseteq Keys /\ total' \in Nat
            /\ lock' \in Procs \cup {NoProc}
            /\ files' \in [Keys -> File \cup {Missing}]
            /\ platter' \in [Keys -> File \cup {Missing}]
            /\ leftovers' \subseteq 0..MaxTime /\ now' \in 0..MaxTime
        BY <1>7 DEF Sync, pruning, IInv, TypeOK, Critical, Writing
      <3>2. /\ temp' \in [Procs -> File \cup {Missing}]
            /\ \A q \in Procs : /\ pc'[q] \in Writing => job'[q] # Missing
                                /\ pc'[q] \in Writing \ {"create"} <=> temp'[q] # Missing
        BY <1>7, <2>1 DEF Sync, IInv, TypeOK, Writing
      <3>3. QED
        BY <3>1, <3>2 DEF TypeOK
    <2>3. LockExcludes' /\ ImagesSafe'
      BY <1>7, <2>1 DEF Sync, IInv, TypeOK, LockExcludes, ImagesSafe, Safe, Genuine, Critical, Writing
    <2>4. TempStages'
      BY <1>7, <2>1 DEF Sync, IInv, TypeOK, TempStages, Writing
    <2>5. TotalRight'
      BY <1>7, TotalKept DEF Sync, IInv, TypeOK
    <2>6. QED
      BY <2>2, <2>3, <2>4, <2>5 DEF IInv
  <1>8. CASE Chtimes(p)
    <2>1. PICK f \in File : /\ temp' = [temp EXCEPT ![p] = f]
                            /\ f.fetched = temp[p].fetched
                            /\ f.mtime = job[p].fetched
                            /\ f.whole = temp[p].whole
                            /\ f.synced = temp[p].synced
      <3>1. pc[p] = "date" /\ job[p] \in Job \cup {Missing} /\ temp[p] \in File \cup {Missing}
        BY <1>8 DEF Chtimes, IInv, TypeOK
      <3>2. temp[p] # Missing /\ job[p] # Missing
        BY <3>1 DEF IInv, TypeOK, Writing
      <3>3. temp[p] \in File /\ job[p].fetched \in 0..MaxTime
        BY <3>1, <3>2 DEF Job
      <3>4. PICK g \in File, t \in 0..MaxTime : g = temp[p] /\ t = job[p].fetched
        BY <3>3
      <3> DEFINE dated == [g EXCEPT !.mtime = t]
      <3>5. temp' = [temp EXCEPT ![p] = dated]
        BY <1>8, <3>4 DEF Chtimes
      <3>6. /\ dated \in File /\ dated.fetched = temp[p].fetched /\ dated.mtime = job[p].fetched
            /\ dated.whole = temp[p].whole /\ dated.synced = temp[p].synced
        BY <3>4, FileDated
      <3> HIDE DEF dated
      <3>7. QED
        BY Zenon, <3>5, <3>6
    <2>2. TypeOK'
      BY <1>8, <2>1 DEF Chtimes, pruning, IInv, TypeOK, Critical, Writing
    <2>3. LockExcludes' /\ ImagesSafe'
      BY <1>8, <2>1 DEF Chtimes, IInv, TypeOK, LockExcludes, ImagesSafe, Safe, Genuine, Critical, Writing
    <2>4. TempStages'
      BY <1>8, <2>1 DEF Chtimes, IInv, TypeOK, TempStages, Writing
    <2>5. TotalRight'
      BY <1>8, TotalKept DEF Chtimes, IInv, TypeOK
    <2>6. QED
      BY <2>2, <2>3, <2>4, <2>5 DEF IInv
  <1>9. CASE Rename(p)
    <2>1. /\ temp[p] \in File /\ temp[p] # Missing
          /\ Safe(temp[p])
          /\ job[p].key \in Keys
      BY <1>9 DEF Rename, IInv, TypeOK, TempStages, Safe, Genuine, Writing, Job
    <2>2. TypeOK' /\ LockExcludes' /\ TempStages'
      BY <1>9, <2>1 DEF Rename, pruning, IInv, TypeOK, LockExcludes, TempStages, Critical, Writing
    <2>3. ImagesSafe'
      BY <1>9, <2>1 DEF Rename, IInv, TypeOK, ImagesSafe
    <2>4. TotalRight'
      <3>1. \A q \in Procs : pc'[q] # "prune"
        BY <1>9 DEF Rename, IInv, TypeOK, LockExcludes, Critical, Writing
      <3>2. QED
        BY <3>1 DEF TotalRight
    <2>5. QED
      BY <2>2, <2>3, <2>4 DEF IInv
  <1>10. CASE StoreFails(p)
    BY <1>10, LeaveInv, AbandonType DEF StoreFails, IInv, TypeOK
  <1>11. CASE ListFiles(p)
    <2>1. unlisted' \in SUBSET Keys /\ Present \ unlisted' \in SUBSET Present
      BY <1>11 DEF ListFiles, Present
    <2>2. Total(files, Present \ unlisted') \in Nat
      BY <2>1, TotalGrows DEF IInv
    <2>3. TypeOK'
      BY <1>11, <2>1, <2>2 DEF ListFiles, IInv, TypeOK, Critical, Writing
    <2>4. LockExcludes' /\ TempStages' /\ ImagesSafe'
      BY <1>11 DEF ListFiles, IInv, TypeOK, LockExcludes, TempStages, ImagesSafe, Safe, Genuine,
                   Critical, Writing
    <2>5. TotalRight'
      BY <1>11 DEF ListFiles, TotalRight, Listed, Present
    <2>6. QED
      BY <2>3, <2>4, <2>5 DEF IInv
  <1>12. CASE ListFails(p)
    BY <1>12, LeaveInv DEF ListFails, IInv, TypeOK
  <1>13. CASE PruneNext(p)
    <2>1. total = Total(files, Listed) /\ Listed \in SUBSET Present
      BY <1>13 DEF PruneNext, IInv, TotalRight, Listed
    <2>2. PICK k \in Keys :
             /\ NextToPrune(k)
             /\ \/ /\ files' = [files EXCEPT ![k] = Missing]
                   /\ total' = total - files[k].size
                   /\ tried' = tried
                \/ /\ tried' = tried \cup {k}
                   /\ UNCHANGED <<files, total>>
      BY <1>13 DEF PruneNext
    <2>3. UNCHANGED <<pc, job, temp, unlisted, lock, platter, leftovers, now>>
      BY <1>13 DEF PruneNext
    <2>4. k \in Listed
      BY <2>2 DEF NextToPrune
    <2>5. total' = Total(files', Listed') /\ total' \in Nat
      <3>1. CASE files' = [files EXCEPT ![k] = Missing] /\ total' = total - files[k].size
        <4>1. Listed' = Listed \ {k}
          BY <2>3, <3>1 DEF Listed, Present, IInv, TypeOK
        <4>2. Total(files', Listed \ {k}) = Total(files, Listed) - files[k].size
          BY <2>1, <2>4, <3>1, TotalRemove DEF IInv
        <4>3. Total(files', Listed \ {k}) \in Nat
          <5>1. \A j \in Listed \ {k} : files'[j] = files[j]
            BY <2>1, <3>1 DEF IInv, TypeOK, Present
          <5>2. Total(files', Listed \ {k}) = Total(files, Listed \ {k})
            BY <5>1 DEF Total
          <5>3. Listed \ {k} \in SUBSET Listed
            OBVIOUS
          <5>4. Total(files, Listed \ {k}) \in Nat
            BY <2>1, <5>3, TotalGrows DEF IInv
          <5>5. QED
            BY <5>2, <5>4
        <4>4. QED
          BY <2>1, <3>1, <4>1, <4>2, <4>3
      <3>2. CASE UNCHANGED <<files, total>>
        BY <2>1, <2>3, <3>2 DEF Listed, Present, IInv, TypeOK
      <3>3. QED
        BY <2>2, <3>1, <3>2
    <2>6. /\ tried' \subseteq Keys
          /\ files' \in [Keys -> File \cup {Missing}]
          /\ \A j \in Keys : files'[j] = files[j] \/ files'[j] = Missing
      BY <2>2 DEF IInv, TypeOK
    <2>7. TypeOK' /\ LockExcludes' /\ TempStages' /\ ImagesSafe'
      BY <2>3, <2>5, <2>6 DEF IInv, TypeOK, LockExcludes, TempStages, ImagesSafe, Safe, Genuine
    <2>8. TotalRight'
      BY <2>5 DEF TotalRight
    <2>9. QED
      BY <2>7, <2>8 DEF IInv
  <1>14. CASE PruneEnds(p)
    BY <1>14, LeaveInv DEF PruneEnds, IInv, TypeOK
  <1>15. CASE Load(p)
    BY <1>15, LeaveInv DEF Load, IInv, TypeOK
  <1>16. CASE Kill(p)
    BY <1>16, LeaveInv, AbandonType DEF Kill, IInv
  <1>17. QED
    BY <1>1, <1>2, <1>3, <1>4, <1>5, <1>6, <1>7, <1>8, <1>9, <1>10, <1>11, <1>12, <1>13,
       <1>14, <1>15, <1>16 DEF Step

LEMMA PowerLossInv == ASSUME IInv, PowerLoss PROVE IInv'
  <1>1. \A k \in Keys : /\ files'[k] \in File \cup {Missing}
                        /\ Safe(files'[k])
    <2> SUFFICES ASSUME NEW k \in Keys, platter[k] # Missing
                 PROVE  files'[k] \in File /\ Safe(files'[k])
      BY DEF PowerLoss, Safe
    <2>1. /\ platter[k] \in File
          /\ platter[k].whole /\ platter[k].synced
          /\ platter[k].mtime = platter[k].fetched
      BY DEF IInv, TypeOK, ImagesSafe, Safe, Genuine
    <2>2. files'[k] = [platter[k] EXCEPT !.whole = @ /\ platter[k].synced, !.synced = TRUE]
      BY DEF PowerLoss
    <2>3. [platter[k] EXCEPT !.whole = @ /\ platter[k].synced, !.synced = TRUE]
             = [[platter[k] EXCEPT !.whole = TRUE] EXCEPT !.synced = TRUE]
      <3>1. (platter[k].whole /\ platter[k].synced) = TRUE
        BY <2>1
      <3>2. QED
        BY <2>1, <3>1 DEF File
    <2>4. [platter[k] EXCEPT !.whole = TRUE] = platter[k]
      BY <2>1 DEF File
    <2>5. [platter[k] EXCEPT !.synced = TRUE] = platter[k]
      BY <2>1 DEF File
    <2>6. QED
      BY <2>1, <2>2, <2>3, <2>4, <2>5 DEF Safe, Genuine
  <1>2. leftovers' \subseteq 0..MaxTime
    <2>1. \A p \in Procs : Remains(p) \subseteq 0..MaxTime
      BY RemainsType DEF IInv
    <2>2. UNION {Remains(p) : p \in Procs} \subseteq 0..MaxTime
      BY <2>1
    <2>3. leftovers' \subseteq leftovers \cup UNION {Remains(p) : p \in Procs}
      BY DEF PowerLoss
    <2>4. QED
      BY <2>2, <2>3 DEF IInv, TypeOK
  <1>3. TypeOK'
    BY <1>1, <1>2 DEF PowerLoss, IInv, TypeOK, Writing
  <1>4. LockExcludes' /\ TempStages'
    BY DEF PowerLoss, LockExcludes, TempStages, Critical, Writing
  <1>5. ImagesSafe'
    BY <1>1 DEF PowerLoss, ImagesSafe
  <1>6. TotalRight'
    BY DEF PowerLoss, TotalRight
  <1>7. QED
    BY <1>3, <1>4, <1>5, <1>6 DEF IInv

\* What the platter holds is safe, so a power loss brings it back unchanged.
LEMMA PowerLossRestores == ASSUME IInv, PowerLoss PROVE files' = platter
  <1> DEFINE Back(k) == [platter[k] EXCEPT !.whole = @ /\ platter[k].synced, !.synced = TRUE]
  <1>1. ASSUME NEW k \in Keys, platter[k] # Missing
        PROVE  Back(k) = platter[k]
    <2>1. /\ platter[k] \in File
          /\ platter[k].whole = TRUE /\ platter[k].synced = TRUE
      BY <1>1 DEF IInv, TypeOK, ImagesSafe, Safe, Genuine, File
    <2>2. (platter[k].whole /\ platter[k].synced) = TRUE
      BY <2>1
    <2>3. QED
      BY <2>1, <2>2 DEF File
  <1>2. platter = [k \in Keys |-> platter[k]]
    BY DEF IInv, TypeOK
  <1>3. files' = [k \in Keys |-> IF platter[k] = Missing THEN Missing ELSE Back(k)]
    BY DEF PowerLoss
  <1> HIDE DEF Back
  <1>4. QED
    BY <1>1, <1>2, <1>3

LEMMA NextInv == IInv /\ [Next]_vars => IInv'
  <1> SUFFICES ASSUME IInv, [Next]_vars
               PROVE  IInv'
    OBVIOUS
  <1>1. ASSUME NEW p \in Procs, BeginStore(p) \/ BeginLoad(p) \/ Step(p) \/ Kill(p)
        PROVE  IInv'
    BY <1>1, StepInv
  <1>2. CASE Flush
    <2>1. TypeOK' /\ LockExcludes' /\ TempStages' /\ ImagesSafe'
      BY <1>2 DEF Flush, pruning, IInv, TypeOK, LockExcludes, TempStages, ImagesSafe, Safe, Genuine
    <2>2. TotalRight'
      BY <1>2, TotalKept DEF Flush, IInv
    <2>3. QED
      BY <2>1, <2>2 DEF IInv
  <1>3. CASE PowerLoss
    BY <1>3, PowerLossInv
  <1>4. CASE Tick
    <2>1. TypeOK' /\ LockExcludes' /\ TempStages' /\ ImagesSafe'
      BY <1>4 DEF Tick, pruning, IInv, TypeOK, LockExcludes, TempStages, ImagesSafe, Safe, Genuine
    <2>2. TotalRight'
      BY <1>4, TotalKept DEF Tick, IInv
    <2>3. QED
      BY <2>1, <2>2 DEF IInv
  <1>5. CASE UNCHANGED vars
    <2>1. TypeOK' /\ LockExcludes' /\ TempStages' /\ ImagesSafe'
      BY <1>5 DEF vars, pruning, IInv, TypeOK, LockExcludes, TempStages, ImagesSafe, Safe, Genuine
    <2>2. TotalRight'
      BY <1>5, TotalKept DEF vars, IInv
    <2>3. QED
      BY <2>1, <2>2 DEF IInv
  <1>6. QED
    BY <1>1, <1>2, <1>3, <1>4, <1>5 DEF Next

LEMMA Invariant == Spec => []IInv
  BY InitInv, NextInv, PTL DEF Spec

\* Between taking the lock and closing it a process is alone, however many
\* there are and whichever die there (diskcache.go, disklock.go).
THEOREM LockAlwaysExcludes == Spec => []LockExcludes
  <1>1. IInv => LockExcludes
    BY DEF IInv
  <1>2. QED
    BY <1>1, Invariant, PTL

\* Every variable keeps its type, and a process has a temporary file exactly
\* from its creation to its rename (diskcache.go:68-111).
THEOREM TypesHold == Spec => []TypeOK
  <1>1. IInv => TypeOK
    BY DEF IInv
  <1>2. QED
    BY <1>1, Invariant, PTL

\* No load ever returns a torn value or one with a wrong fetch time.
THEOREM EntriesAlwaysGenuine == Spec => []OnlyGenuineEntries
  <1>1. IInv => OnlyGenuineEntries
    BY DEF IInv, OnlyGenuineEntries, ImagesSafe, Safe
  <1>2. QED
    BY <1>1, Invariant, PTL

\* Only a power loss, a file that refuses to be removed or a catalogue too
\* large for the budget ever takes a catalogue source off a running system's
\* disk: no amount of page bodies does (diskcache.go, prune).
THEOREM CatalogueAlwaysOutlivesPages == Spec => CatalogueOutlivesPages
  <1> DEFINE Justified(k) == \/ PowerLoss
                             \/ tried # {}
                             \/ Total(files, Present \cap Catalogue) > MaxBytes
             Outlives == \A k \in Catalogue :
                            files[k] # Missing /\ files'[k] = Missing => Justified(k)
  <1>1. ASSUME IInv, [Next]_vars
        PROVE  [Outlives]_vars
    <2> SUFFICES ASSUME NEW k \in Catalogue, files[k] # Missing, files'[k] = Missing, Next
                 PROVE  Justified(k)
      BY <1>1
    <2>1. k \in Keys
      BY DEF Keys
    <2>2. PowerLoss \/ \E p \in Procs : Rename(p) \/ PruneNext(p)
      BY <1>1 DEF Next, BeginStore, BeginLoad, Step, Kill, Flush, Tick, TryLock, LockFails, Create,
                  Write, Sync, Chtimes, StoreFails, ListFiles, ListFails, PruneEnds, Load
    <2>3. ASSUME NEW p \in Procs, Rename(p)
          PROVE  FALSE
      <3>1. temp[p] # Missing
        BY <1>1, <2>3 DEF Rename, IInv, TypeOK, Writing
      <3>2. QED
        BY <1>1, <2>1, <2>3, <3>1 DEF Rename, IInv, TypeOK
    <2>4. ASSUME NEW p \in Procs, PruneNext(p), tried = {}
          PROVE  Total(files, Present \cap Catalogue) > MaxBytes
      <3>1. PICK j \in Listed : /\ \A l \in Listed : ~PrunedBefore(l, j)
                                /\ files' = [files EXCEPT ![j] = Missing] \/ files' = files
        BY <2>4 DEF PruneNext, NextToPrune
      <3>2. j = k
        BY <1>1, <2>1, <3>1 DEF IInv, TypeOK
      <3>3. Listed \subseteq Catalogue
        BY <3>1, <3>2 DEF PrunedBefore, Listed, Present, Keys
      <3>4. /\ Listed \in SUBSET (Present \cap Catalogue)
            /\ Present \cap Catalogue \in SUBSET Present
        BY <3>3 DEF Listed
      <3>5. total = Total(files, Listed) /\ total > MaxBytes
        BY <1>1, <2>4 DEF PruneNext, IInv, TotalRight
      <3>6. /\ Total(files, Listed) <= Total(files, Present \cap Catalogue)
            /\ Total(files, Listed) \in Nat /\ Total(files, Present \cap Catalogue) \in Nat
        BY <1>1, <3>4, TotalGrows DEF IInv
      <3>7. QED
        BY <3>5, <3>6
    <2>5. QED
      BY <2>2, <2>3, <2>4
  <1>2. QED
    BY <1>1, Invariant, PTL DEF Spec, CatalogueOutlivesPages

\* When a store has pruned, the running total by which it stopped is right
\* about the directory: the listed files are within the budget or have refused
\* to be removed, whatever earlier stores left behind (diskcache.go:237-273).
THEOREM StoreAlwaysKeepsBudget == Spec => StoreKeepsBudget
  <1> DEFINE Kept == \A p \in Procs :
                        PruneEnds(p) => Total(files', Listed) <= MaxBytes \/ Listed \subseteq tried
  <1>1. ASSUME IInv
        PROVE  Kept
    <2> SUFFICES ASSUME NEW p \in Procs, PruneEnds(p)
                 PROVE  Total(files', Listed) <= MaxBytes \/ Listed \subseteq tried
      OBVIOUS
    <2>1. files' = files /\ pc[p] = "prune" /\ (total <= MaxBytes \/ Listed \subseteq tried)
      BY DEF PruneEnds
    <2>2. total = Total(files, Listed)
      BY <1>1, <2>1 DEF IInv, TotalRight
    <2>3. QED
      BY <2>1, <2>2
  <1>2. IInv => [Kept]_vars
    BY <1>1
  <1>3. QED
    BY <1>2, Invariant, PTL DEF StoreKeepsBudget

-----------------------------------------------------------------------------
(* A load *)

\* Every value is as long as values of its key can be.
Fits(k, file) == file # Missing => file.size \in SizesOf[k]
SizesInv ==
    /\ \A k \in Keys : Fits(k, files[k]) /\ Fits(k, platter[k])
    /\ \A p \in Procs : /\ job[p] # Missing => job[p].size \in SizesOf[job[p].key]
                        /\ temp[p] # Missing => job[p] # Missing /\ temp[p].size = job[p].size

LEMMA SizesStep == ASSUME IInv, SizesInv, [Next]_vars PROVE SizesInv'
  <1>1. ASSUME NEW p \in Procs, Leave(p), UNCHANGED <<files, platter>>
        PROVE  SizesInv'
    BY <1>1 DEF Leave, IInv, TypeOK, SizesInv, Fits
  <1>2. ASSUME NEW p \in Procs, BeginStore(p)
        PROVE  SizesInv'
    <2>1. PICK k \in Keys : \E size \in SizesOf[k], fetched \in 0..now :
             job' = [job EXCEPT ![p] = [key |-> k, size |-> size, fetched |-> fetched]]
      BY <1>2 DEF BeginStore
    <2>2. PICK size \in SizesOf[k], fetched \in 0..now :
             job' = [job EXCEPT ![p] = [key |-> k, size |-> size, fetched |-> fetched]]
      BY <2>1
    <2>3. temp[p] = Missing
      BY <1>2 DEF BeginStore, IInv, TypeOK, Writing
    <2>4. QED
      BY <1>2, <2>2, <2>3 DEF BeginStore, IInv, TypeOK, SizesInv, Fits
  <1>3. ASSUME NEW p \in Procs, Create(p)
        PROVE  SizesInv'
    <2>1. job[p] # Missing
      BY <1>3 DEF Create, IInv, TypeOK, Writing
    <2>2. temp' = [temp EXCEPT ![p] = [size |-> job[p].size, fetched |-> job[p].fetched,
                                       mtime |-> now, whole |-> FALSE, synced |-> FALSE]]
      BY <1>3 DEF Create
    <2>3. QED
      BY <1>3, <2>1, <2>2 DEF Create, IInv, TypeOK, SizesInv, Fits
  <1>4. ASSUME NEW p \in Procs, Write(p) \/ Sync(p) \/ Chtimes(p)
        PROVE  SizesInv'
    <2>1. temp[p] \in File /\ temp[p] # Missing
      BY <1>4 DEF Write, Sync, Chtimes, IInv, TypeOK, Writing
    <2>2. \E f : temp' = [temp EXCEPT ![p] = f] /\ f.size = temp[p].size
      <3>1. CASE Write(p)
        <4>1. temp' = [temp EXCEPT ![p] = [temp[p] EXCEPT !.whole = TRUE, !.mtime = now]]
          BY <3>1 DEF Write
        <4>2. [temp[p] EXCEPT !.whole = TRUE, !.mtime = now].size = temp[p].size
          BY <2>1 DEF File
        <4>3. QED
          BY <4>1, <4>2
      <3>2. CASE Sync(p)
        <4>1. temp' = [temp EXCEPT ![p] = [temp[p] EXCEPT !.synced = TRUE]]
          BY <3>2 DEF Sync
        <4>2. [temp[p] EXCEPT !.synced = TRUE].size = temp[p].size
          BY <2>1 DEF File
        <4>3. QED
          BY <4>1, <4>2
      <3>3. CASE Chtimes(p)
        <4>1. temp' = [temp EXCEPT ![p] = [temp[p] EXCEPT !.mtime = job[p].fetched]]
          BY <3>3 DEF Chtimes
        <4>2. [temp[p] EXCEPT !.mtime = job[p].fetched].size = temp[p].size
          BY <2>1 DEF File
        <4>3. QED
          BY <4>1, <4>2
      <3>4. QED
        BY <1>4, <3>1, <3>2, <3>3
    <2>3. UNCHANGED <<job, files, platter>>
      BY <1>4 DEF Write, Sync, Chtimes
    <2>4. PICK f : temp' = [temp EXCEPT ![p] = f] /\ f.size = temp[p].size
      BY <2>2
    <2>5. QED
      BY <2>1, <2>3, <2>4 DEF IInv, TypeOK, SizesInv, Fits
  <1>5. ASSUME NEW p \in Procs, Rename(p)
        PROVE  SizesInv'
    <2>1. job[p].key \in Keys /\ Fits(job[p].key, temp[p])
      BY <1>5 DEF Rename, IInv, TypeOK, Writing, Job, SizesInv, Fits
    <2>2. QED
      BY <1>5, <2>1 DEF Rename, IInv, TypeOK, SizesInv
  <1>6. ASSUME NEW p \in Procs, PruneNext(p)
        PROVE  SizesInv'
    <2>1. /\ UNCHANGED <<job, temp, platter>>
          /\ \A k \in Keys : files'[k] = files[k] \/ files'[k] = Missing
      BY <1>6 DEF PruneNext, IInv, TypeOK
    <2>2. QED
      BY <2>1 DEF SizesInv, Fits
  <1>7. CASE PowerLoss
    BY <1>7, PowerLossRestores DEF PowerLoss, SizesInv, Fits
  <1>8. ASSUME NEW p \in Procs, BeginLoad(p) \/ TryLock(p) \/ ListFiles(p)
        PROVE  SizesInv'
    BY <1>8 DEF BeginLoad, TryLock, ListFiles, SizesInv, Fits
  <1>9. CASE Flush \/ Tick \/ UNCHANGED vars
    BY <1>9 DEF Flush, Tick, vars, SizesInv, Fits
  <1>10. ASSUME NEW p \in Procs, LockFails(p) \/ StoreFails(p) \/ ListFails(p) \/ PruneEnds(p)
                                   \/ Load(p) \/ Kill(p)
         PROVE  SizesInv'
    BY <1>1, <1>10 DEF LockFails, StoreFails, ListFails, PruneEnds, Load, Kill
  <1>11. QED
    BY <1>2, <1>3, <1>4, <1>5, <1>6, <1>7, <1>8, <1>9, <1>10 DEF Next, Step

LEMMA SizesAlwaysFit == Spec => []SizesInv
  <1>1. Init => SizesInv
    BY DEF Init, SizesInv, Fits
  <1>2. IInv /\ SizesInv /\ [Next]_vars => SizesInv'
    BY SizesStep
  <1>3. QED
    BY <1>1, <1>2, Invariant, PTL DEF Spec

USE ListingAssumption

\* What a load does with one file.
Take(group, loaded, k) ==
    IF k \in group \cap Present /\ Total(files, loaded \cup {k}) <= LoadBudget
    THEN loaded \cup {k}
    ELSE loaded

Takes(before, group, iter) ==
    iter = [s \in SUBSET (1..Len(Listing)) |->
               IF s = {} THEN before ELSE Take(group, iter[s \ {Max(s)}], Listing[Max(s)])]

LEMMA LoadGroupIs ==
    ASSUME NEW before, NEW group
    PROVE  LoadGroup(before, group) =
              (CHOOSE iter : Takes(before, group, iter))[1..Len(Listing)]
  <1>1. DOMAIN Listing = 1..Len(Listing)
    OBVIOUS
  <1>2. QED
    BY <1>1 DEF LoadGroup, FoldLeft, MapThenFoldSet, Takes, Take

\* A load of a group, file by file.
LoadSteps(before, group, u) ==
    /\ u[0] = before
    /\ \A i \in 1..Len(Listing) : u[i] = Take(group, u[i - 1], Listing[i])
    /\ LoadGroup(before, group) = u[Len(Listing)]

LEMMA LoadGroupSteps ==
    ASSUME NEW before \in SUBSET Keys, NEW group
    PROVE  \E u : LoadSteps(before, group, u)
  <1>1. PICK n \in Nat : n = Len(Listing)
    OBVIOUS
  <1> DEFINE C == [s \in SUBSET (1..n) |-> Max(s)]
             X == SUBSET Keys
             G == [v \in X \X (1..n) |-> Take(group, v[1], Listing[v[2]])]
  <1>2. /\ IsFiniteSet(1..n)
        /\ \A s \in SUBSET (1..n) : s # {} => C[s] \in s /\ C[s] = Max(s)
    BY LastOfPrefix
  <1>3. G \in [X \X (1..n) -> X]
    <2>1. \A loaded \in X, i \in 1..n : Take(group, loaded, Listing[i]) \in X
      BY <1>1 DEF Take, Present
    <2>2. QED
      BY <2>1
  <1>4. \A loaded \in X, i \in 1..n : G[<<loaded, i>>] = Take(group, loaded, Listing[i])
    OBVIOUS
  <1>5. before \in X
    OBVIOUS
  <1> HIDE DEF C, G, X
  <1>6. PICK g \in [SUBSET (1..n) -> X] : IsFold(1..n, before, C, G, g)
    BY <1>2, <1>3, <1>5, FoldExists
  <1>7. Takes(before, group, g)
    <2>1. ASSUME NEW s \in SUBSET (1..n), s # {}
          PROVE  g[s] = Take(group, g[s \ {Max(s)}], Listing[Max(s)])
      <3>1. g[s] = G[<<g[s \ {Max(s)}], Max(s)>>]
        BY <1>2, <1>6, <2>1 DEF IsFold
      <3>2. Max(s) \in 1..n /\ g[s \ {Max(s)}] \in X
        BY <1>2, <2>1
      <3>3. QED
        BY <1>4, <3>1, <3>2
    <2>2. g[{}] = before
      BY <1>6 DEF IsFold
    <2>3. QED
      BY <1>1, <2>1, <2>2 DEF Takes
  <1>8. PICK iter : Takes(before, group, iter) /\ LoadGroup(before, group) = iter[1..n]
    BY <1>1, <1>7, LoadGroupIs
  <1> DEFINE u == [i \in 0..n |-> iter[1..i]]
  <1>9. u[0] = before
    BY <1>1, <1>8, LastOfPrefix DEF Takes
  <1>10. ASSUME NEW i \in 1..n
         PROVE  u[i] = Take(group, u[i - 1], Listing[i])
    <2>1. /\ 1..i \in SUBSET (1..n) /\ i \in 0..n /\ i - 1 \in 0..n
      OBVIOUS
    <2>2. Max(1..i) = i /\ (1..i) \ {i} = 1..(i - 1) /\ 1..i # {}
      BY LastOfPrefix
    <2>3. iter[1..i] = Take(group, iter[(1..i) \ {Max(1..i)}], Listing[Max(1..i)])
      BY <1>1, <1>8, <2>1, <2>2 DEF Takes
    <2>4. QED
      BY <2>1, <2>2, <2>3
  <1>11. u[n] = LoadGroup(before, group)
    BY <1>8
  <1> HIDE DEF u
  <1>12. LoadSteps(before, group, u)
    BY <1>1, <1>9, <1>10, <1>11 DEF LoadSteps
  <1>13. QED
    BY <1>12

\* A load only adds entries to those it has.
LEMMA LoadGroupAdds ==
    ASSUME NEW before \in SUBSET Keys, NEW group
    PROVE  before \subseteq LoadGroup(before, group)
  <1>1. PICK n \in Nat : n = Len(Listing)
    OBVIOUS
  <1>a. PICK u : LoadSteps(before, group, u)
    BY LoadGroupSteps
  <1>2. /\ u[0] = before
        /\ \A i \in 1..n : u[i] = Take(group, u[i - 1], Listing[i])
        /\ LoadGroup(before, group) = u[n]
    BY <1>1, <1>a DEF LoadSteps
  <1> DEFINE T == {i \in Nat : i <= n => before \subseteq u[i]}
  <1>3. 0 \in T
    BY <1>2
  <1>4. ASSUME NEW i \in Nat, i \in T PROVE i + 1 \in T
    <2> SUFFICES ASSUME i + 1 <= n PROVE before \subseteq u[i + 1]
      OBVIOUS
    <2>1. i + 1 \in 1..n /\ (i + 1) - 1 = i /\ i <= n
      OBVIOUS
    <2>2. before \subseteq u[i] /\ u[i + 1] = Take(group, u[i], Listing[i + 1])
      BY <1>2, <1>4, <2>1
    <2>3. QED
      BY <2>2 DEF Take
  <1> HIDE DEF T
  <1>5. n \in T
    BY <1>3, <1>4, Induction
  <1>6. QED
    BY <1>2, <1>5 DEF T

\* Any number of catalogue sources fits in the budget of a load.
LEMMA CatalogueFits ==
    ASSUME IInv, SizesInv, NEW loaded \in SUBSET (Catalogue \cap Present)
    PROVE  Total(files, loaded) <= LoadBudget
  <1> DEFINE f == [k \in loaded |-> files[k].size]
  <1>1. SourceMax \in Nat /\ CacheBytes \in Nat
    OBVIOUS
  <1>2. \A k \in loaded : f[k] \in 0..SourceMax
    <2> SUFFICES ASSUME NEW k \in loaded PROVE files[k].size \in 0..SourceMax
      OBVIOUS
    <2>1. k \in Catalogue /\ k \in Keys /\ files[k] # Missing
      BY DEF Present, Keys
    <2>2. files[k].size \in SizesOf[k]
      BY <2>1 DEF SizesInv, Fits
    <2>3. QED
      BY <2>1, <2>2
  <1>3. /\ IsFiniteSet(loaded) /\ IsFiniteSet(Catalogue)
        /\ Cardinality(loaded) <= Cardinality(Catalogue)
        /\ Cardinality(loaded) \in Nat /\ Cardinality(Catalogue) \in Nat
    BY KeysFinite, FS_Subset, FS_CardinalityType
  <1> HIDE DEF f
  <1>4. SumFunctionOnSet(f, loaded) \in 0..(Cardinality(loaded) * SourceMax)
    BY <1>1, <1>2, <1>3, SumBounds
  <1>5. \A a, b, c \in Nat : a <= b => a * c <= b * c /\ a * c \in Nat /\ b * c \in Nat
    OBVIOUS
  <1>6. /\ Cardinality(loaded) * SourceMax <= Cardinality(Catalogue) * SourceMax
        /\ Cardinality(loaded) * SourceMax \in Nat
        /\ Cardinality(Catalogue) * SourceMax \in Nat
    BY <1>1, <1>3, <1>5
  <1>7. Total(files, loaded) = SumFunctionOnSet(f, loaded)
    BY DEF Total, f
  <1>8. QED
    BY <1>1, <1>4, <1>6, <1>7 DEF LoadBudget

\* The first group of a load is the catalogue, all of it that can be read.
LEMMA LoadsCatalogue ==
    ASSUME IInv, SizesInv, NEW group \in SUBSET Catalogue
    PROVE  LoadGroup({}, group) = Present \cap group
  <1>1. PICK n \in Nat : n = Len(Listing)
    OBVIOUS
  <1>a. PICK u : LoadSteps({}, group, u)
    BY LoadGroupSteps
  <1>2. /\ u[0] = {}
        /\ \A i \in 1..n : u[i] = Take(group, u[i - 1], Listing[i])
        /\ LoadGroup({}, group) = u[n]
    BY <1>1, <1>a DEF LoadSteps
  <1> DEFINE There(i) == {Listing[j] : j \in 1..i} \cap Present \cap group
             T == {i \in Nat : i <= n => u[i] = There(i)}
  <1>3. 0 \in T
    BY <1>2
  <1>4. ASSUME NEW i \in Nat, i \in T PROVE i + 1 \in T
    <2> SUFFICES ASSUME i + 1 <= n PROVE u[i + 1] = There(i + 1)
      OBVIOUS
    <2>1. i + 1 \in 1..n /\ (i + 1) - 1 = i /\ i <= n /\ 1..(i + 1) = (1..i) \cup {i + 1}
      OBVIOUS
    <2>2. u[i] = There(i) /\ u[i + 1] = Take(group, u[i], Listing[i + 1])
      BY <1>2, <1>4, <2>1
    <2>3. There(i + 1) = There(i) \cup ({Listing[i + 1]} \cap Present \cap group)
      BY <2>1
    <2>4. CASE Listing[i + 1] \in group \cap Present
      <3>1. There(i) \cup {Listing[i + 1]} \in SUBSET (Catalogue \cap Present)
        BY <2>4
      <3> HIDE DEF There
      <3>2. Total(files, u[i] \cup {Listing[i + 1]}) <= LoadBudget
        BY <2>2, <3>1, CatalogueFits
      <3>3. QED
        BY <2>2, <2>3, <2>4, <3>2 DEF Take
    <2>5. CASE Listing[i + 1] \notin group \cap Present
      BY <2>2, <2>3, <2>5 DEF Take
    <2>6. QED
      BY <2>4, <2>5
  <1> HIDE DEF T
  <1>5. n \in T
    BY <1>3, <1>4, Induction
  <1>6. u[n] = There(n)
    BY <1>5 DEF T
  <1>7. There(n) = Present \cap group
    BY <1>1 DEF ToSet, Keys
  <1>8. QED
    BY <1>2, <1>6, <1>7

\* A starting process gets every catalogue source that is on disk and can be
\* read, for every number of sources and page bodies and every listing order
\* (diskcache.go:117-198).
THEOREM CatalogueAlwaysLoads == Spec => []CatalogueLoads
  <1>1. ASSUME IInv, SizesInv PROVE CatalogueLoads
    <2> SUFFICES ASSUME NEW broken \in SUBSET Keys
                 PROVE  (Present \cap Catalogue) \ broken \subseteq Loaded(broken)
      BY DEF CatalogueLoads
    <2>1. PICK group \in SUBSET Catalogue : group = Catalogue \ broken
      OBVIOUS
    <2>2. LoadGroup({}, group) = Present \cap group
      BY <1>1, LoadsCatalogue
    <2>3. LoadGroup({}, group) \in SUBSET Keys
      BY <2>2 DEF Keys
    <2>4. LoadGroup({}, group) \subseteq Loaded(broken)
      BY <2>1, <2>3, LoadGroupAdds DEF Loaded
    <2>5. QED
      BY <2>1, <2>2, <2>4
  <1>2. QED
    BY <1>1, Invariant, SizesAlwaysFit, PTL

-----------------------------------------------------------------------------
(* Refinement *)

LEMMA StepRefines ==
    ASSUME IInv, NEW p \in Procs, BeginStore(p) \/ BeginLoad(p) \/ Step(p) \/ Kill(p)
    PROVE  (\E k \in Keys : Atomic!Put(k) \/ Atomic!Drop(k)) \/ UNCHANGED <<files, platter>>
  <1>1. CASE Rename(p)
    <2> DEFINE k == job[p].key
    <2>1. /\ temp[p] \in Values
          /\ k \in Keys
      BY <1>1 DEF Rename, IInv, TypeOK, TempStages, Genuine, Writing, Job, Values
    <2>2. files'[k] = temp[p]
      BY <1>1, <2>1 DEF Rename, IInv, TypeOK
    <2>3. Atomic!Put(k)
      BY <1>1, <2>1, <2>2 DEF Rename, Atomic!Put
    <2>4. QED
      BY <2>1, <2>3
  <1>2. CASE PruneNext(p)
    <2>1. PICK k \in Keys : files' = [files EXCEPT ![k] = Missing] \/ files' = files
      BY <1>2 DEF PruneNext
    <2>2. platter' = platter /\ Total(files, Atomic!Present) > MaxBytes
      <3>1. platter' = platter /\ total > MaxBytes /\ total = Total(files, Listed)
        BY <1>2 DEF PruneNext, IInv, TotalRight
      <3>2. Listed \in SUBSET Present /\ Present \in SUBSET Present /\ Atomic!Present = Present
        BY DEF Listed, Present, Atomic!Present
      <3>3. /\ Total(files, Listed) <= Total(files, Present)
            /\ Total(files, Listed) \in Nat /\ Total(files, Present) \in Nat
        BY <3>2, TotalGrows DEF IInv
      <3>4. QED
        BY <3>1, <3>2, <3>3
    <2>3. QED
      BY <2>1, <2>2 DEF Atomic!Drop
  <1>3. CASE ~(Rename(p) \/ PruneNext(p))
    BY <1>3 DEF BeginStore, BeginLoad, Step, Kill, TryLock, LockFails, Create, Write, Sync,
                Chtimes, StoreFails, ListFiles, ListFails, PruneEnds, Load
  <1>4. QED
    BY <1>1, <1>2, <1>3

\* Through any interleaving of stores, loads, prunings, kills, failing file
\* operations and power losses, the directory behaves as one of complete
\* values that change at once (diskcache.go, disklock.go).
THEOREM DiskIsAtomic == Spec => ImplementsAtomicDisk
  <1>1. Init => Atomic!Init
    BY DEF Init, Atomic!Init
  <1>2. ASSUME IInv, [Next]_vars
        PROVE  [Atomic!Next]_<<files, platter>>
    <2>1. ASSUME NEW p \in Procs, BeginStore(p) \/ BeginLoad(p) \/ Step(p) \/ Kill(p)
          PROVE  [Atomic!Next]_<<files, platter>>
      BY <1>2, <2>1, StepRefines DEF Atomic!Next
    <2>2. CASE Flush
      BY <2>2 DEF Flush, Atomic!Next, Atomic!Persist
    <2>3. CASE PowerLoss
      BY <1>2, <2>3, PowerLossRestores DEF PowerLoss, Atomic!Next, Atomic!Lose
    <2>4. CASE Tick \/ UNCHANGED vars
      BY <2>4 DEF Tick, vars
    <2>5. QED
      BY <1>2, <2>1, <2>2, <2>3, <2>4 DEF Next
  <1>3. QED
    BY <1>1, <1>2, Invariant, PTL DEF Spec, ImplementsAtomicDisk, Atomic!Spec, Atomic!vars
=============================================================================
