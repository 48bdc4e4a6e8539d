------------------------------ MODULE Headings ------------------------------
(***************************************************************************)
(* The headings of a page, found in one pass over its lines that skips     *)
(* fenced code, and what is made of them: sections with breadcrumbs, the   *)
(* extract under a heading, and anchors.                                   *)
(*                                                                         *)
(* A line is a record of what the pass can tell: its form, the columns of  *)
(* blanks before it, the column where the content of the list item it      *)
(* begins starts (0 when it begins none), and of its form a heading's      *)
(* level and text or a fence's character, length and rest.  The page is    *)
(* what has been read, so that every state is that at the end of a page.   *)
(***************************************************************************)
EXTENDS Integers, SequencesExt

CONSTANTS Lines,     \* lines of pages
          MaxLines,  \* bound on the length of a page
          Texts,     \* texts of lines
          Lower,     \* a text in lower case
          Slug,      \* its words joined by hyphens
          PlainText, \* the text as a reader sees it
          Anchor,    \* its anchor, as a sequence, so that a suffix is an element
          Ids        \* ids of headings of the published page: any anchors

ASSUME TextsAssumption ==
    /\ \A f \in {Lower, Slug, PlainText, Anchor} : DOMAIN f = Texts
    /\ \A text \in Texts :
          LET anchor == Anchor[text]
          IN  Len(anchor) \in Nat /\ anchor = [i \in 1..Len(anchor) |-> anchor[i]]
    /\ <<>> \notin Ids
    /\ MaxLines \in Nat

Line == [form : {"blank", "text", "atx", "under", "fence"}, indent : Nat, item : Nat,
         level : 0..6, text : Texts,
         mark : {"none", "tick", "tilde"}, length : Nat, rest : {"none", "info", "ticks"}]

ASSUME LinesAssumption ==
    /\ Lines \subseteq Line
    /\ \A line \in Lines : line.form \in {"atx", "under"} => line.level > 0
    /\ \A line \in Lines : line.form = "fence" => line.length >= 3

VARIABLES doc,        \* the lines read
          fence,      \* the open fence
          previous,   \* line an underline would make a heading; 0 when none
          headings

\* History: the line that opened the last fence; the lines taken for code.
VARIABLES opener, code

vars == <<doc, fence, previous, headings, opener, code>>

NoFence == [mark |-> "none", length |-> 0, indent |-> 0]

-----------------------------------------------------------------------------
(* Fences *)

\* Faulty: a fence in an item outlives the item.
NeverLeaves(f, line) == FALSE

\* A line that is not indented like its item's content ends the item's fence.
Leaves(f, line) ==
    f.length > 0 /\ f.indent > 0 /\ line.form # "blank" /\ line.indent < f.indent

Held(f, line) == IF Leaves(f, line) THEN NoFence ELSE f

\* The line without what its container adds.
Inner(f, line) ==
    IF Held(f, line).length > 0
    THEN [line EXCEPT !.indent = @ - f.indent]
    ELSE IF line.item > 0 /\ line.indent <= 3
         THEN [line EXCEPT !.indent = 0, !.item = 0]
         ELSE line

Marks(f, line) ==
    LET inner == Inner(f, line)
    IN  inner.form = "fence" /\ inner.item = 0 /\ inner.indent <= 3

\* Faulty: any fence closes.
ClosesAny(f, line) == Held(f, line).length > 0 /\ Marks(f, line)

Closes(f, line) ==
    /\ Held(f, line).length > 0
    /\ Marks(f, line)
    /\ line.mark = f.mark /\ line.length >= f.length /\ line.rest = "none"

\* A back-tick later in the line makes it a code span.
Opens(f, line) ==
    /\ Held(f, line).length = 0
    /\ Marks(f, line)
    /\ ~(line.mark = "tick" /\ line.rest = "ticks")

FenceOf(line) == [mark |-> line.mark, length |-> line.length, indent |-> line.item]

FenceAfter(f, line) ==
    IF Opens(f, line) THEN FenceOf(line)
    ELSE IF Closes(f, line) THEN NoFence ELSE Held(f, line)

IsCode(f, line) == Opens(f, line) \/ Held(f, line).length > 0

-----------------------------------------------------------------------------
(* The pass *)

ParseHeading(line) == IF line.form = "atx" /\ line.item = 0 /\ line.indent <= 3 THEN line.level ELSE 0

SetextLevel(line) == IF line.form = "under" /\ line.indent <= 3 THEN line.level ELSE 0

IndentedCode(line) == line.indent >= 4

Init ==
    /\ doc = <<>>
    /\ fence = NoFence
    /\ previous = 0
    /\ headings = <<>>
    /\ opener = 0
    /\ code = {}

\* Faulty: a line before code is still taken for the one before.
ReadCodeKeepsPrevious(line) ==
    /\ IsCode(fence, line)
    /\ code' = code \cup {Len(doc) + 1}
    /\ opener' = IF Opens(fence, line) THEN Len(doc) + 1 ELSE opener
    /\ UNCHANGED <<headings, previous>>

ReadCode(line) ==
    /\ IsCode(fence, line)
    /\ previous' = 0
    /\ code' = code \cup {Len(doc) + 1}
    /\ opener' = IF Opens(fence, line) THEN Len(doc) + 1 ELSE opener
    /\ UNCHANGED headings

AddHeading(level, text, start) ==
    headings' = Append(headings, [level |-> level, text |-> text, start |-> start])

ReadHeading(line) ==
    /\ ~IsCode(fence, line)
    /\ ParseHeading(line) > 0
    /\ AddHeading(line.level, line.text, Len(doc) + 1)
    /\ previous' = 0
    /\ UNCHANGED <<opener, code>>

\* Faulty: the line is still the one before after its underline.
ReadUnderlineKeepsPrevious(line) ==
    /\ ~IsCode(fence, line)
    /\ SetextLevel(line) > 0 /\ previous > 0
    /\ AddHeading(line.level, doc[previous].text, previous)
    /\ UNCHANGED <<opener, code, previous>>

ReadUnderline(line) ==
    /\ ~IsCode(fence, line)
    /\ SetextLevel(line) > 0 /\ previous > 0
    /\ AddHeading(line.level, doc[previous].text, previous)
    /\ previous' = 0
    /\ UNCHANGED <<opener, code>>

ReadText(line) ==
    /\ ~IsCode(fence, line)
    /\ ParseHeading(line) = 0
    /\ SetextLevel(line) = 0 \/ previous = 0
    /\ previous' = IF line.form = "blank" \/ IndentedCode(line) THEN 0 ELSE Len(doc) + 1
    /\ UNCHANGED <<headings, opener, code>>

Read(line) ==
    /\ Len(doc) < MaxLines
    /\ ReadCode(line) \/ ReadHeading(line) \/ ReadUnderline(line) \/ ReadText(line)
    /\ fence' = FenceAfter(fence, line)
    /\ doc' = Append(doc, line)

Next == \E line \in Lines : Read(line)

Spec == Init /\ [][Next]_vars

-----------------------------------------------------------------------------
(* What is made of the headings *)

NoText == ""

Indices == DOMAIN headings

\* Faulty: sections of the same level belong to the one before.
ExtractEndAtHigher(i) ==
    LET later == {j \in Indices : j > i /\ headings[j].level < headings[i].level}
    IN  IF later = {} THEN Len(doc) + 1 ELSE headings[Min(later)].start

\* Where the extract under a heading ends.
ExtractEnd(i) ==
    LET later == {j \in Indices : j > i /\ headings[j].level <= headings[i].level}
    IN  IF later = {} THEN Len(doc) + 1 ELSE headings[Min(later)].start

\* The last heading of each level, cleared by those above it, after heading i.
CrumbAfter(crumb, i) ==
    [level \in 1..6 |-> IF level < headings[i].level THEN crumb[level]
                        ELSE IF level = headings[i].level THEN i ELSE 0]

Crumbs(i) == FoldLeft(CrumbAfter, [level \in 1..6 |-> 0], [k \in 1..i |-> k])

Breadcrumb(i) == LET crumb == Crumbs(i) IN {crumb[level] : level \in 1 .. headings[i].level} \ {0}

\* Faulty: the number counts the headings of the same text before.
NumberedAnchor(text, seen) ==
    LET same == {a \in seen : a = Anchor[text] \/ \E k \in 1..Len(doc) : a = Append(Anchor[text], k)}
    IN  IF same = {} THEN Anchor[text] ELSE Append(Anchor[text], Cardinality(same))

\* The anchor, or the first free number after it.
UniqueAnchor(text, seen) ==
    IF Anchor[text] \notin seen
    THEN Anchor[text]
    ELSE Append(Anchor[text], Min({k \in 1 .. Cardinality(seen) + 1 : Append(Anchor[text], k) \notin seen}))

AddAnchor(anchors, heading) == Append(anchors, UniqueAnchor(heading.text, Range(anchors)))

Anchors == FoldLeft(AddAnchor, <<>>, headings)

\* The headings an anchor, or a text, asks for: the first is taken.
OfAnchor(anchors, wanted) == {i \in Indices : anchors[i] = wanted}

HeadingMatches(text, want) ==
    Lower[text] = Lower[want] \/ (Slug[want] # NoText /\ Slug[text] = Slug[want])

OfText(want) == {i \in Indices : HeadingMatches(headings[i].text, want)}

ExtractHeading(wanted) == Min(wanted)

\* The published page gives headings ids of its own: published is the sequence
\* of its headings, the empty one when it cannot be had.  An id stands for a
\* text when all who carry it agree.
NoId == <<>>

TextOfId(published, target) ==
    LET found == {i \in DOMAIN published : published[i].id = target}
    IN  IF found # {} /\ \A i, j \in found : i < j => published[i].text \in {NoText, published[j].text}
        THEN published[Max(found)].text ELSE NoText

\* Faulty: the first heading of the text is taken.
ResolveToFirst(published, target) ==
    LET text == TextOfId(published, target)
        same == {i \in Indices : PlainText[headings[i].text] = text}
    IN  IF text # NoText /\ same # {} THEN {Anchors[Min(same)]} ELSE {}

\* The anchor of the one heading that has this text, or none.
ResolvePublishedHeading(published, target) ==
    LET text == TextOfId(published, target)
        same == {i \in Indices : PlainText[headings[i].text] = text}
    IN  IF text # NoText /\ Cardinality(same) = 1 THEN {Anchors[Min(same)]} ELSE {}

\* An anchor of the page itself is taken without a look at the published one.
ResolveHeading(published, target) ==
    IF OfAnchor(Anchors, target) # {} THEN {target} ELSE ResolvePublishedHeading(published, target)

-----------------------------------------------------------------------------
(* Properties *)

\* Every variable has its type; the line before, when there is one, is the
\* line just read, and a fence is as its opener says.
TypeOK ==
    /\ doc \in Seq(Lines)
    /\ fence \in [mark : {"none", "tick", "tilde"}, length : Nat, indent : Nat]
    /\ fence.length > 0 => opener > 0 /\ fence = FenceOf(doc[opener])
    /\ previous \in {0, Len(doc)}
    /\ headings \in Seq([level : 1..6, text : Texts, start : 1..Len(doc)])
    /\ opener \in 0..Len(doc)
    /\ code \subseteq 1..Len(doc)

\* A line that ends the block the opening line begins: a fence of its kind, at
\* least as long, with nothing after it, or one outside its list item.
EndsBlock(opening, line) ==
    \/ opening.item > 0 /\ line.form # "blank" /\ line.indent < opening.item
    \/ /\ line.form = "fence" /\ line.item = 0
       /\ line.indent - opening.item \in 0..3
       /\ line.mark = opening.mark /\ line.length >= opening.length /\ line.rest = "none"

\* The pass is in a fence exactly while no line since its opener ended it
\* (fence.go:14-16, 46-52), so that no comment in code becomes a heading and
\* no heading after code is lost.
FenceIsOpen ==
    (fence.length > 0) <=>
        (opener > 0 /\ \A i \in opener + 1 .. Len(doc) : ~EndsBlock(doc[opener], doc[i]))

\* Headings come in the order of the page, each on a line of its own outside
\* code, marked by itself or by the very next line (section.go:20-22): a
\* heading that started at or after the next would make a slice panic.
HeadingsAreReal ==
    /\ \A i, j \in Indices : i < j => headings[i].start < headings[j].start
    /\ \A i \in Indices :
          LET start == headings[i].start
          IN  /\ start \notin code
              /\ \/ doc[start].form = "atx" /\ doc[start].level = headings[i].level
                 \/ /\ start + 1 \in 1..Len(doc) \ code
                    /\ doc[start + 1].form = "under" /\ doc[start + 1].level = headings[i].level

\* The sections that name a heading in their breadcrumb are those in the
\* extract under it (section.go:34-41, extract.go:38-45).
CrumbsEnclose ==
    \A i, j \in Indices :
        i \in Breadcrumb(j) <=> i <= j /\ headings[j].start < ExtractEnd(i)

\* Each heading's anchor leads to that heading, also when texts repeat or a
\* text looks like another's numbered anchor.
AnchorFindsHeading ==
    LET anchors == Anchors
    IN  \A i \in Indices : ExtractHeading(OfAnchor(anchors, anchors[i])) = i

\* The published headings, with the ids they carry there.
Shown(ids) == [i \in Indices |-> [id |-> ids[i], text |-> PlainText[headings[i].text]]]

\* Where the id of heading i may lead.
Leads(ids, i, resolved) ==
    /\ \A anchor \in resolved :
          \/ ExtractHeading(OfAnchor(Anchors, anchor)) = i
          \/ \E j \in Indices \ {i} : anchor = ids[i] /\ Anchors[j] = ids[i]
    /\ resolved = {} =>
          \E j \in Indices \ {i} : \/ Shown(ids)[j].id = ids[i]
                                   \/ Shown(ids)[j].text = Shown(ids)[i].text

\* An id of the published page leads to the heading that carries it there, to
\* another one only when the id is that one's own anchor in the page, or
\* nowhere: also when texts repeat, ids do, or a heading has none; and it does
\* lead somewhere when no other heading has the id or the text
\* (anchor_resolution.go:20-39, 41-83).
PublishedHeadingFound ==
    \A ids \in [Indices -> Ids \cup {NoId}], i \in Indices :
        ids[i] \in Ids /\ Shown(ids)[i].text # NoText =>
            Leads(ids, i, ResolveHeading(Shown(ids), ids[i]))

\* What the comment at anchor_resolution.go:19 says, that published ids are
\* verified before they are mapped: an id leads to the heading that carries it.
PublishedIdsVerified ==
    \A ids \in [Indices -> Ids \cup {NoId}] :
        LET shown == Shown(ids)
        IN  \A i \in Indices : ids[i] \in Ids /\ shown[i].text # NoText =>
                \A anchor \in ResolveHeading(shown, ids[i]) :
                    ExtractHeading(OfAnchor(Anchors, anchor)) = i

\* The extract for a heading's text is under a heading of that text, in
\* whatever case (extract.go:15-16).
ExactHeadingFound ==
    \A i \in Indices :
        LET found == ExtractHeading(OfText(headings[i].text))
        IN  Lower[headings[found].text] = Lower[headings[i].text]
=============================================================================
