------------------------------ MODULE Windows ------------------------------
(***************************************************************************)
(* A document is returned a window at a time: at most MaxWindow bytes, cut *)
(* before a newline where there is one and before a split rune otherwise.  *)
(* A byte is one of a few kinds, all that the cut can tell apart.          *)
(***************************************************************************)
EXTENDS Integers, Sequences, FiniteSetsExt

CONSTANT MaxWindow

\* Room for the longest rune.
ASSUME WindowAssumption == MaxWindow \in Nat /\ MaxWindow >= 4

\* Bytes of one, and first bytes of more than one; R3 begins the literal
\* U+FFFD, which the decoder returns for what it cannot decode, too.
Width == [x |-> 1, n |-> 1, L2 |-> 2, L3 |-> 3, L4 |-> 4, R3 |-> 3]
Bytes == DOMAIN Width \cup {"C"}

RuneStart(byte) == byte # "C"

\* The rune that starts at i is whole.
Complete(b, i) ==
    /\ RuneStart(b[i])
    /\ i + Width[b[i]] - 1 <= Len(b)
    /\ \A j \in i + 1 .. i + Width[b[i]] - 1 : b[j] = "C"

\* utf8.DecodeRune returns RuneError.
RuneError(b, i) == ~Complete(b, i) \/ b[i] = "R3"

\* Faulty: a split rune is left.
TrimNothing(b) == b

\* The last rune that starts in the last three bytes goes unless it decodes.
TrimPartialRune(b) ==
    LET starts == {i \in DOMAIN b : i > Len(b) - 3 /\ RuneStart(b[i])}
    IN  IF starts # {} /\ RuneError(b, Max(starts))
        THEN SubSeq(b, 1, Max(starts) - 1)
        ELSE b

\* Faulty: a newline that comes first cuts off everything.
CutAtAnyNewline(b) ==
    LET newlines == {i \in DOMAIN b : b[i] = "n"}
    IN  IF newlines # {} THEN SubSeq(b, 1, Max(newlines) - 1) ELSE TrimPartialRune(b)

\* Where a full window ends: before its last newline, unless that is all of it.
Cut(b) ==
    LET newlines == {i \in DOMAIN b \ {1} : b[i] = "n"}
    IN  IF newlines # {} THEN SubSeq(b, 1, Max(newlines) - 1) ELSE TrimPartialRune(b)

Paginate(content, offset) ==
    LET total == Len(content)
        rest  == SubSeq(content, offset + 1, total)
        shown == IF Len(rest) <= MaxWindow THEN rest ELSE Cut(SubSeq(rest, 1, MaxWindow))
    IN  [content |-> shown,
         next    |-> IF offset >= total THEN total ELSE offset + Len(shown),
         total   |-> total]

Truncated(window) == window.next < window.total

\* Made of whole runes.
IsText(b) ==
    \A i \in DOMAIN b :
        \E start \in {j \in DOMAIN b : j > i - 4 /\ j <= i} :
            Complete(b, start) /\ i < start + Width[b[start]]
=============================================================================
