---------------------------- MODULE Continuation ----------------------------
(***************************************************************************)
(* A client reads a page, a page's sections that match a query, or the     *)
(* list of pages, following the cursor that each answer but the last       *)
(* holds.  The server keeps nothing of the client: a cursor says what was  *)
(* read, of which version, and where to go on, and what it points into may *)
(* have changed since.                                                     *)
(***************************************************************************)
EXTENDS Windows, SequencesExt

CONSTANTS Contents,       \* of each kind, the values the source may have
          SectionLimit,   \* sections in an answer
          ListLimits,     \* entries a client may ask for
          ListDefault,    \* what it gets when it does not say
          ListMax,        \* the most it gets
          FirstOffsets,   \* offsets a client may start from
          MaxChanges      \* for each kind, a bound on the changes of the source

ASSUME LimitsAssumption ==
    /\ SectionLimit \in Nat \ {0}
    /\ ListMax \in Nat \ {0}
    /\ ListDefault \in 1..ListMax
    /\ ListLimits \subseteq Int
    /\ FirstOffsets \subseteq Int
    /\ MaxChanges \in [DOMAIN Contents -> Nat]

\* What is read is a page, what is under one of its headings, its sections that
\* match, or the list.  A source is its pieces: the sections in the order of
\* their ranks, the entries, or one.
Kinds == DOMAIN Contents

\* A section begins with its breadcrumb or the line of its heading, an entry
\* with its slug: neither is empty, and both begin where a rune does.
ASSUME ContentsAssumption ==
    \A k \in Kinds : \A src \in Contents[k] :
        /\ src \in Seq(Seq(Bytes))
        /\ IF k \in {"sections", "list"}
           THEN \A i \in DOMAIN src : src[i] # <<>> /\ RuneStart(src[i][1])
           ELSE Len(src) = 1

VARIABLES kind, source, changes,
          large,      \* what is selected does not fit a cursor
          pc,
          resuming,   \* the call has a cursor
          cursor

\* History: the source of the first answer, where reading started in it, and
\* what was received.
VARIABLES first, start, received

readVars == <<kind, source, changes, large, pc, resuming, cursor, first, start, received>>

NoSnapshot == <<<<"none">>>>

\* The snapshot is a digest of the source, here the source itself.
Cursors == [position : Nat, offset : Nat, limit : Int, snapshot : Seq(Seq(Bytes)) \cup {NoSnapshot}]

\* How a read ends.
Ends == {"complete",
         "restart",     \* the source changed
         "refused",     \* the cursor is invalid
         "overshoot",   \* the first offset is past the end
         "toolarge"}    \* no cursor for so long a selection

Joined(pieces) ==
    FlattenSeq([i \in DOMAIN pieces |-> IF i = 1 THEN pieces[i] ELSE <<"n">> \o pieces[i]])

Least(a, b) == IF a <= b THEN a ELSE b

GroupEnd(src, position, limit) == position + Least(limit, Len(src) - position)

\* What an answer is taken from, as far as it is known by its position.
Group(src, position) ==
    IF kind = "sections"
    THEN Joined(SubSeq(src, position + 1, GroupEnd(src, position, SectionLimit)))
    ELSE src[1]

NextGroup(src, position) ==
    LET end == GroupEnd(src, position, SectionLimit)
    IN  IF kind = "sections" /\ end < Len(src) THEN end ELSE 0

-----------------------------------------------------------------------------
ReadInit ==
    /\ kind \in Kinds
    /\ source \in Contents[kind]
    /\ changes = 0
    /\ large \in BOOLEAN
    /\ pc = "idle"
    /\ resuming = FALSE
    /\ cursor = [position |-> 0, offset |-> 0, limit |-> 0, snapshot |-> NoSnapshot]
    /\ first = NoSnapshot
    /\ start = 0
    /\ received = <<>>

Publish ==
    /\ changes < MaxChanges[kind]
    /\ pc \in {"asked", "answered"}
    /\ \E new \in Contents[kind] \ {source} : source' = new
    /\ changes' = changes + 1
    /\ UNCHANGED <<kind, large, pc, resuming, cursor, first, start, received>>

\* The first call has a selection, and an offset or a limit.
AskPage ==
    /\ pc = "idle"
    /\ kind # "list"
    /\ \E offset \in FirstOffsets :
          /\ start' = Max({0, offset})
          /\ cursor' = [cursor EXCEPT !.offset = Max({0, offset}),
                                      !.limit = IF kind = "sections" THEN SectionLimit ELSE MaxWindow]
    /\ pc' = "asked"
    /\ UNCHANGED <<kind, source, changes, large, resuming, first, received>>

AskList ==
    /\ pc = "idle"
    /\ kind = "list"
    /\ \E limit \in ListLimits :
          cursor' = [cursor EXCEPT !.limit = IF limit <= 0 THEN ListDefault ELSE Least(limit, ListMax)]
    /\ pc' = "asked"
    /\ UNCHANGED <<kind, source, changes, large, resuming, first, start, received>>

\* Later calls have nothing but the cursor.
Follow ==
    /\ pc = "answered"
    /\ pc' = "asked"
    /\ resuming' = TRUE
    /\ UNCHANGED <<kind, source, changes, large, cursor, first, start, received>>

\* continuation.validate
ValidCursor ==
    IF kind = "list"
    THEN cursor.limit \in 1..ListMax /\ cursor.offset = 0 /\ cursor.position > 0
    ELSE /\ IF kind = "sections"
            THEN cursor.limit = SectionLimit /\ cursor.position % SectionLimit = 0
            ELSE cursor.limit = MaxWindow /\ cursor.position = 0
         /\ cursor.position > 0 \/ cursor.offset > 0

SnapshotIsCurrent == resuming => cursor.snapshot = source

ValidBytePosition(content, offset) == offset < Len(content) /\ RuneStart(content[offset + 1])

\* The place the cursor points to is in the source.
ValidPlace ==
    CASE kind = "list"     -> resuming => cursor.position < Len(source)
      [] kind = "sections" -> /\ cursor.position > 0 => cursor.position < Len(source)
                              /\ resuming => ValidBytePosition(Group(source, cursor.position), cursor.offset)
      [] OTHER             -> resuming => ValidBytePosition(source[1], cursor.offset)

End(how) == pc' = how /\ UNCHANGED <<kind, source, changes, large, resuming, cursor, first, start, received>>

Refuse ==
    /\ pc = "asked"
    /\ \/ resuming /\ ~ValidCursor
       \/ SnapshotIsCurrent /\ ~ValidPlace
    /\ End("refused")

Restart ==
    /\ pc = "asked"
    /\ resuming => ValidCursor
    /\ ~SnapshotIsCurrent
    /\ End("restart")

Accepted == (resuming => ValidCursor) /\ SnapshotIsCurrent /\ ValidPlace

\* The answer: text, and a cursor when there is more.  An answer whose cursor
\* cannot be written is an error instead.
Show(text, more, position, offset) ==
    /\ first' = IF resuming THEN first ELSE source
    /\ cursor' = [cursor EXCEPT !.snapshot = source, !.position = position, !.offset = offset]
    /\ IF more /\ large
       THEN pc' = "toolarge" /\ UNCHANGED received
       ELSE /\ pc' = IF more THEN "answered" ELSE "complete"
            /\ received' = received \o text
    /\ UNCHANGED <<kind, source, changes, large, resuming, start>>

ListPage ==
    LET end == GroupEnd(source, cursor.position, cursor.limit)
    IN  /\ pc = "asked"
        /\ kind = "list"
        /\ Accepted
        /\ Show(FlattenSeq(SubSeq(source, cursor.position + 1, end)),
                end < Len(source), IF end < Len(source) THEN end ELSE cursor.position, 0)

Overshoot ==
    /\ pc = "asked"
    /\ kind # "list"
    /\ Accepted
    /\ cursor.offset > 0
    /\ Paginate(Group(source, cursor.position), cursor.offset).content = <<>>
    /\ End("overshoot")

\* Faulty: the next group starts at the last window's offset.
DocPageKeepsOffset ==
    LET window == Paginate(Group(source, cursor.position), cursor.offset)
        next   == NextGroup(source, cursor.position)
    IN  /\ pc = "asked"
        /\ kind # "list"
        /\ Accepted
        /\ cursor.offset > 0 => window.content # <<>>
        /\ IF Truncated(window)
           THEN Show(window.content, TRUE, cursor.position, window.next)
           ELSE Show(window.content, next > 0, IF next > 0 THEN next ELSE cursor.position, cursor.offset)

\* Faulty: a group ends with its first window.
DocPageSkipsWindows ==
    LET window == Paginate(Group(source, cursor.position), cursor.offset)
        next   == NextGroup(source, cursor.position)
    IN  /\ pc = "asked"
        /\ kind # "list"
        /\ Accepted
        /\ cursor.offset > 0 => window.content # <<>>
        /\ IF next > 0
           THEN Show(window.content, TRUE, next, 0)
           ELSE Show(window.content, Truncated(window), cursor.position, window.next)

\* A window of the group, then the next group.
DocPage ==
    LET window == Paginate(Group(source, cursor.position), cursor.offset)
        next   == NextGroup(source, cursor.position)
    IN  /\ pc = "asked"
        /\ kind # "list"
        /\ Accepted
        /\ cursor.offset > 0 => window.content # <<>>
        /\ IF Truncated(window)
           THEN Show(window.content, TRUE, cursor.position, window.next)
           ELSE Show(window.content, next > 0, IF next > 0 THEN next ELSE cursor.position, 0)

Done == pc \in Ends /\ UNCHANGED readVars

Respond == Refuse \/ Restart \/ ListPage \/ Overshoot \/ DocPage

ReadNext == Publish \/ AskPage \/ AskList \/ Follow \/ Respond \/ Done

ReadSpec == ReadInit /\ [][ReadNext]_readVars

-----------------------------------------------------------------------------
(* Properties *)

\* Every variable has its type, and a cursor a client holds has a place in
\* the source it was made for.
ReadTypeOK ==
    /\ kind \in Kinds
    /\ source \in Seq(Seq(Bytes))
    /\ changes \in 0..MaxChanges[kind]
    /\ {large, resuming} \subseteq BOOLEAN
    /\ pc \in {"idle", "asked", "answered"} \cup Ends
    /\ cursor \in Cursors
    /\ first \in Seq(Seq(Bytes)) \cup {NoSnapshot}
    /\ start \in Nat
    /\ received \in Seq(Bytes)
    /\ pc = "answered" => cursor.snapshot = first /\ first # NoSnapshot

\* The groups of the source, and all of them one after another.
Groups(src) ==
    IF kind = "sections"
    THEN [i \in 1 .. (Len(src) + SectionLimit - 1) \div SectionLimit |->
             Group(src, (i - 1) * SectionLimit)]
    ELSE src

Whole(src) == FlattenSeq(Groups(src))

\* What a client has received is a stretch of one version of the source,
\* without a gap, a repetition or a mixture of versions, and when it is told
\* that there is no more, it has all of it (extract.go:150-152,
\* pagination.go:106-108, 236-245).
Reassembled ==
    /\ pc \in {"answered", "complete"} =>
          received = SubSeq(Whole(first), start + 1, start + Len(received))
    /\ pc = "complete" => start + Len(received) = Len(Whole(first))

\* Each window is made of whole characters, so that the transport changes no
\* byte of it (extract.go:184-188).
WindowsAreText ==
    pc \in {"answered", "complete"} /\ IsText(Whole(first)) /\ IsText(SubSeq(Whole(first), 1, start)) =>
        IsText(received)

\* The server accepts each of its cursors into a text, and asks for a restart
\* only of a source that has changed (README.md:207).
CursorsAccepted ==
    /\ IsText(Whole(source)) => pc # "refused"
    /\ pc = "restart" => source # first

\* An answer with a cursor has text, however the window is cut, so a client
\* that follows the cursors of an unchanged source comes to its end.
EveryAnswerAdvances == [][pc' = "answered" /\ pc # pc' => Len(received') > Len(received)]_readVars
=============================================================================
