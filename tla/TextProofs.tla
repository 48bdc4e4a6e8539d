----------------------------- MODULE TextProofs -----------------------------
(***************************************************************************)
(* What is read of a page, and how.  For pages of any length, made of any  *)
(* lines: the pass is in a fence exactly while one is open; the headings   *)
(* it finds are real, apart and in order, so that no slice between two of  *)
(* them can panic; breadcrumbs and extracts agree; and anchors and         *)
(* published ids lead to their headings.  For sources of any size that     *)
(* change at any time: a read that follows the cursors puts one version    *)
(* together again, in windows of whole characters, and every answer adds   *)
(* to it.                                                                  *)
(***************************************************************************)
EXTENDS Headings, Continuation, DataTheorems, TLAPS

-----------------------------------------------------------------------------
(* The pass over the lines *)

\* The line an underline would make a heading is not code, and lies after the
\* headings found so far.
Previous ==
    /\ previous \notin code
    /\ \A i \in Indices : previous > 0 => headings[i].start < previous

IInv == TypeOK /\ FenceIsOpen /\ Previous /\ HeadingsAreReal

Heading(n) == [level : 1..6, text : Texts, start : 1..n]

LEMMA InitInv == Init => IInv
  <1> SUFFICES ASSUME Init PROVE IInv
    OBVIOUS
  <1>1. /\ doc = <<>> /\ fence = NoFence /\ previous = 0 /\ headings = <<>>
        /\ opener = 0 /\ code = {}
    BY DEF Init
  <1>2. TypeOK
    <2>1. headings \in Seq(Heading(0)) /\ doc \in Seq(Lines) /\ Len(doc) = 0
      BY <1>1
    <2>2. fence.length = 0 /\ fence \in [mark : {"none", "tick", "tilde"}, length : Nat, indent : Nat]
      BY <1>1 DEF NoFence
    <2>3. QED
      BY <1>1, <2>1, <2>2 DEF TypeOK, Heading
  <1>3. FenceIsOpen
    BY <1>1 DEF FenceIsOpen, NoFence
  <1>4. Previous /\ HeadingsAreReal
    BY <1>1 DEF Previous, HeadingsAreReal, Indices
  <1>5. QED
    BY <1>2, <1>3, <1>4 DEF IInv

\* The page after a line.
LEMMA PageGrows ==
    ASSUME doc \in Seq(Lines), NEW line \in Lines, Read(line)
    PROVE  /\ doc' \in Seq(Lines)
           /\ Len(doc) \in Nat
           /\ Len(doc') = Len(doc) + 1
           /\ doc'[Len(doc) + 1] = line
           /\ \A i \in 1..Len(doc) : doc'[i] = doc[i]
  BY DEF Read

LEMMA OpenerFollows ==
    ASSUME NEW line \in Lines, Read(line)
    PROVE  opener' = IF Opens(fence, line) THEN Len(doc) + 1 ELSE opener
  BY DEF Read, ReadCode, ReadHeading, ReadUnderline, ReadText, IsCode

\* A fence that is open stays so, or is closed, as the lines of its block say.
LEMMA FenceCloses ==
    ASSUME NEW opening \in Lines, NEW line \in Lines, fence = FenceOf(opening), fence.length > 0
    PROVE  /\ ~EndsBlock(opening, line) => FenceAfter(fence, line) = fence
           /\ EndsBlock(opening, line) /\ ~Opens(fence, line) => FenceAfter(fence, line) = NoFence
  <1>1. /\ fence.mark = opening.mark /\ fence.length = opening.length
        /\ fence.indent = opening.item
    BY DEF FenceOf
  <1>2. line \in Line /\ opening \in Line
    BY LinesAssumption
  <1>3. CASE Leaves(fence, line)
    <2>1. EndsBlock(opening, line)
      BY <1>1, <1>3 DEF Leaves, EndsBlock
    <2>2. Held(fence, line) = NoFence /\ Held(fence, line).length = 0
      BY <1>3 DEF Held, NoFence
    <2>3. ~Closes(fence, line)
      BY <2>2 DEF Closes
    <2>4. QED
      BY <2>1, <2>2, <2>3 DEF FenceAfter
  <1>4. CASE ~Leaves(fence, line)
    <2>1. Held(fence, line) = fence
      BY <1>4 DEF Held
    <2> DEFINE inner == Inner(fence, line)
    <2>2. inner = [line EXCEPT !.indent = @ - fence.indent]
      BY <2>1 DEF Inner
    <2>3. inner.form = line.form /\ inner.item = line.item /\ inner.indent = line.indent - opening.item
      BY <2>2, <1>1, <1>2 DEF Line
    <2>4. Marks(fence, line) <=> line.form = "fence" /\ line.item = 0 /\ line.indent - opening.item <= 3
      BY <2>3 DEF Marks
    <2>5. ~Opens(fence, line)
      BY <2>1 DEF Opens
    <2>6. Closes(fence, line) => EndsBlock(opening, line)
      <3>1. SUFFICES ASSUME Closes(fence, line) PROVE EndsBlock(opening, line)
        OBVIOUS
      <3>2. /\ line.form = "fence" /\ line.item = 0 /\ line.indent - opening.item <= 3
            /\ line.mark = opening.mark /\ line.length >= opening.length /\ line.rest = "none"
        BY <3>1, <2>4, <1>1 DEF Closes
      <3>3. line.indent - opening.item \in 0..3
        <4>1. line.indent \in Nat /\ opening.item \in Nat
          BY <1>2 DEF Line
        <4>2. opening.item > 0 => line.indent >= opening.item
          BY <1>4, <3>2, <1>1, <4>1 DEF Leaves
        <4>3. QED
          BY <3>2, <4>1, <4>2
      <3>4. QED
        BY <3>2, <3>3 DEF EndsBlock
    <2>7. EndsBlock(opening, line) => Closes(fence, line)
      <3>1. SUFFICES ASSUME EndsBlock(opening, line) PROVE Closes(fence, line)
        OBVIOUS
      <3>2. ~(opening.item > 0 /\ line.form # "blank" /\ line.indent < opening.item)
        BY <1>1, <1>4 DEF Leaves
      <3>3. /\ line.form = "fence" /\ line.item = 0 /\ line.indent - opening.item \in 0..3
            /\ line.mark = opening.mark /\ line.length >= opening.length /\ line.rest = "none"
        BY <3>1, <3>2 DEF EndsBlock
      <3>4. QED
        BY <3>3, <2>1, <2>4, <1>1 DEF Closes
    <2>8. QED
      BY <2>1, <2>5, <2>6, <2>7 DEF FenceAfter
  <1>5. QED
    BY <1>3, <1>4

LEMMA FenceStaysOpen ==
    ASSUME TypeOK, FenceIsOpen, NEW line \in Lines, Read(line)
    PROVE  FenceIsOpen'
  <1> DEFINE n == Len(doc)
  <1>1. /\ doc \in Seq(Lines) /\ opener \in 0..n /\ n \in Nat
        /\ fence.length > 0 => opener > 0 /\ fence = FenceOf(doc[opener])
        /\ fence.length \in Nat
    BY DEF TypeOK
  <1>2. /\ Len(doc') = n + 1 /\ doc'[n + 1] = line
        /\ \A i \in 1..n : doc'[i] = doc[i]
    BY <1>1, PageGrows
  <1>3. fence' = FenceAfter(fence, line)
    BY DEF Read
  <1>4. CASE Opens(fence, line)
    <2>1. opener' = n + 1 /\ fence' = FenceOf(line)
      BY <1>4, <1>3, OpenerFollows DEF FenceAfter
    <2>2. line.form = "fence"
      <3>1. line \in Line
        BY LinesAssumption
      <3>2. Inner(fence, line).form = line.form
        BY <3>1 DEF Inner, Line
      <3>3. QED
        BY <1>4, <3>2 DEF Opens, Marks
    <2>3. fence'.length > 0
      <3>1. line.length \in Nat /\ line.length >= 3
        BY <2>2, LinesAssumption DEF Line
      <3>2. QED
        BY <2>1, <3>1 DEF FenceOf
    <2>4. QED
      BY <2>1, <2>3, <1>1, <1>2 DEF FenceIsOpen
  <1>5. CASE ~Opens(fence, line)
    <2>1. opener' = opener
      BY <1>5, OpenerFollows
    <2>2. CASE fence.length = 0
      <3>1. Held(fence, line) = fence
        BY <2>2 DEF Held, Leaves
      <3>2. fence' = fence
        BY <1>3, <1>5, <2>2, <3>1 DEF FenceAfter, Closes
      <3>3. CASE opener = 0
        BY <2>1, <2>2, <3>2, <3>3 DEF FenceIsOpen
      <3>4. CASE opener > 0
        <4>1. PICK i \in opener + 1 .. n : EndsBlock(doc[opener], doc[i])
          BY <2>2, <3>4 DEF FenceIsOpen
        <4>2. i \in opener + 1 .. n + 1 /\ doc'[i] = doc[i] /\ doc'[opener] = doc[opener]
          BY <4>1, <1>1, <1>2, <3>4
        <4>3. ~\A j \in opener' + 1 .. Len(doc') : ~EndsBlock(doc'[opener'], doc'[j])
          BY <4>1, <4>2, <2>1, <1>2
        <4>4. QED
          BY <4>3, <2>2, <3>2 DEF FenceIsOpen
      <3>5. QED
        BY <3>3, <3>4, <1>1
    <2>3. CASE fence.length > 0
      <3>1. /\ opener > 0 /\ fence = FenceOf(doc[opener])
            /\ \A i \in opener + 1 .. n : ~EndsBlock(doc[opener], doc[i])
        BY <1>1, <2>3 DEF FenceIsOpen
      <3>2. doc[opener] \in Lines /\ doc'[opener'] = doc[opener]
        BY <1>1, <1>2, <2>1, <3>1
      <3>3. CASE EndsBlock(doc[opener], line)
        <4>1. fence'.length = 0
          BY <3>1, <3>2, <3>3, <1>3, <1>5, <2>3, FenceCloses DEF NoFence
        <4>2. n + 1 \in opener' + 1 .. Len(doc') /\ EndsBlock(doc'[opener'], doc'[n + 1])
          BY <1>1, <1>2, <2>1, <3>2, <3>3
        <4>3. QED
          BY <4>1, <4>2 DEF FenceIsOpen
      <3>4. CASE ~EndsBlock(doc[opener], line)
        <4>1. fence' = fence
          BY <3>1, <3>2, <3>4, <1>3, <2>3, FenceCloses
        <4>2. \A i \in opener + 1 .. n + 1 : ~EndsBlock(doc[opener], doc'[i])
          <5> TAKE i \in opener + 1 .. n + 1
          <5>1. i = n + 1 \/ (i \in opener + 1 .. n /\ i \in 1..n)
            BY <1>1
          <5>2. QED
            BY <5>1, <3>1, <3>4, <1>2
        <4>3. QED
          BY <4>1, <4>2, <1>2, <2>1, <2>3, <3>1, <3>2 DEF FenceIsOpen
      <3>5. QED
        BY <3>3, <3>4
    <2>4. QED
      BY <2>2, <2>3, <1>1
  <1>6. QED
    BY <1>4, <1>5


LEMMA StartsInPage ==
    ASSUME TypeOK
    PROVE  /\ Len(headings) \in Nat /\ Indices = 1..Len(headings)
           /\ \A i \in Indices : /\ headings[i].start \in 1..Len(doc)
                                  /\ headings[i].level \in 1..6 /\ headings[i].text \in Texts
  <1>1. headings \in Seq(Heading(Len(doc)))
    BY DEF TypeOK, Heading
  <1>2. Len(headings) \in Nat /\ Indices = 1..Len(headings)
    BY <1>1 DEF Indices
  <1>3. \A i \in 1..Len(headings) : headings[i] \in Heading(Len(doc))
    BY <1>1
  <1>4. QED
    BY <1>2, <1>3 DEF Heading

\* What a line adds: nothing, or one heading after all others, which it or the
\* line before it marks.
LEMMA HeadingsGrow ==
    ASSUME TypeOK, Previous, NEW line \in Lines, Read(line)
    PROVE  \/ headings' = headings
           \/ \E h \in Heading(Len(doc) + 1) :
                /\ headings' = Append(headings, h)
                /\ h.start \notin code' /\ previous' = 0
                /\ \A i \in Indices : headings[i].start < h.start
                /\ \/ h.start = Len(doc) + 1 /\ line.form = "atx" /\ line.level = h.level
                   \/ /\ h.start = Len(doc) /\ Len(doc) > 0 /\ Len(doc) + 1 \notin code'
                      /\ line.form = "under" /\ line.level = h.level
  <1> DEFINE n == Len(doc)
  <1>1. /\ n \in Nat /\ doc \in Seq(Lines) /\ headings \in Seq(Heading(n))
        /\ previous \in {0, n} /\ code \subseteq 1..n
    BY DEF TypeOK, Heading
  <1>2. line \in Line /\ line.text \in Texts
    BY LinesAssumption DEF Line
  <1>3. CASE ReadCode(line) \/ ReadText(line)
    BY <1>3 DEF ReadCode, ReadText
  <1>4. CASE ReadHeading(line)
    <2> DEFINE h == [level |-> line.level, text |-> line.text, start |-> n + 1]
    <2>1. headings' = Append(headings, h) /\ code' = code /\ previous' = 0
      BY <1>4 DEF ReadHeading, AddHeading
    <2>2. line.form = "atx"
      BY <1>4 DEF ReadHeading, ParseHeading
    <2>3. line.level \in 1..6
      <3>1. line.level > 0 /\ line.level \in 0..6
        BY <1>2, <2>2, LinesAssumption DEF Line
      <3>2. QED
        BY <3>1
    <2>4. h \in Heading(n + 1)
      BY <2>3, <1>1, <1>2 DEF Heading
    <2>5. \A i \in Indices : headings[i].start \in 1..n
      BY StartsInPage
    <2>6. h.start = n + 1 /\ h.level = line.level /\ h.start \notin code'
      BY <1>1, <2>1
    <2>7. \A i \in Indices : headings[i].start < h.start
      BY <2>5, <2>6, <1>1
    <2> HIDE DEF h
    <2>8. QED
      BY <2>1, <2>2, <2>4, <2>6, <2>7
  <1>5. CASE ReadUnderline(line)
    <2> DEFINE h == [level |-> line.level, text |-> doc[previous].text, start |-> previous]
    <2>1. /\ headings' = Append(headings, h) /\ code' = code /\ previous' = 0
          /\ previous > 0 /\ previous = n
      BY <1>1, <1>5 DEF ReadUnderline, AddHeading
    <2>2. line.form = "under"
      BY <1>5 DEF ReadUnderline, SetextLevel
    <2>3. line.level \in 1..6
      <3>1. line.level > 0 /\ line.level \in 0..6
        BY <1>2, <2>2, LinesAssumption DEF Line
      <3>2. QED
        BY <3>1
    <2>4. doc[previous] \in Line /\ doc[previous].text \in Texts
      BY <1>1, <2>1, LinesAssumption DEF Line
    <2>5. h \in Heading(n + 1)
      BY <1>1, <2>1, <2>3, <2>4 DEF Heading
    <2>6. h.start = n /\ h.level = line.level /\ h.start \notin code' /\ n + 1 \notin code'
      BY <1>1, <2>1 DEF Previous
    <2>7. \A i \in Indices : headings[i].start < h.start
      BY <2>1, <2>6 DEF Previous
    <2> HIDE DEF h
    <2>8. QED
      BY <2>1, <2>2, <2>5, <2>6, <2>7
  <1>6. QED
    BY <1>3, <1>4, <1>5 DEF Read

LEMMA TypesPreserved ==
    ASSUME TypeOK, Previous, NEW line \in Lines, Read(line)
    PROVE  TypeOK'
  <1> DEFINE n == Len(doc)
  <1>1. /\ n \in Nat /\ doc \in Seq(Lines) /\ headings \in Seq(Heading(n))
        /\ opener \in 0..n /\ code \subseteq 1..n
        /\ fence \in [mark : {"none", "tick", "tilde"}, length : Nat, indent : Nat]
        /\ fence.length > 0 => opener > 0 /\ fence = FenceOf(doc[opener])
    BY DEF TypeOK, Heading
  <1>2. /\ doc' \in Seq(Lines) /\ Len(doc') = n + 1 /\ doc'[n + 1] = line
        /\ \A i \in 1..n : doc'[i] = doc[i]
    BY <1>1, PageGrows
  <1>3. previous' \in {0, n + 1} /\ code' \subseteq 1 .. n + 1
    <2>1. /\ previous' \in {0, n + 1}
          /\ code' = code \/ code' = code \cup {n + 1}
      BY DEF Read, ReadCode, ReadHeading, ReadUnderline, ReadText
    <2>2. 1..n \subseteq 1 .. n + 1 /\ {n + 1} \subseteq 1 .. n + 1
      BY <1>1
    <2>3. code' \subseteq 1 .. n + 1
      BY <1>1, <2>1, <2>2
    <2>4. QED
      BY <2>1, <2>3
  <1>4. headings' \in Seq(Heading(n + 1))
    <2>1. headings \in Seq(Heading(n + 1))
      <3>1. Heading(n) \subseteq Heading(n + 1)
        BY <1>1 DEF Heading
      <3>2. QED
        BY <1>1, <3>1
    <2>2. QED
      BY <2>1, HeadingsGrow
  <1>5. opener' \in 0 .. n + 1
    BY <1>1, OpenerFollows
  <1>6. /\ fence' \in [mark : {"none", "tick", "tilde"}, length : Nat, indent : Nat]
        /\ fence'.length > 0 => opener' > 0 /\ fence' = FenceOf(doc'[opener'])
    <2>1. fence' = FenceAfter(fence, line)
      BY DEF Read
    <2>2. CASE Opens(fence, line)
      <3>1. fence' = FenceOf(line) /\ opener' = n + 1
        BY <2>1, <2>2, OpenerFollows DEF FenceAfter
      <3>2. line \in Line
        BY LinesAssumption
      <3>3. FenceOf(line) \in [mark : {"none", "tick", "tilde"}, length : Nat, indent : Nat]
        BY <3>2 DEF FenceOf, Line
      <3>4. QED
        BY <3>1, <3>3, <1>1, <1>2
    <2>3. CASE ~Opens(fence, line)
      <3>1. opener' = opener
        BY <2>3, OpenerFollows
      <3>2. fence' \in {fence, NoFence}
        BY <2>1, <2>3 DEF FenceAfter, Held
      <3>3. CASE fence' = fence
        <4>1. fence.length > 0 => doc'[opener] = doc[opener]
          BY <1>1, <1>2
        <4>2. QED
          BY <1>1, <3>1, <3>3, <4>1
      <3>4. CASE fence' = NoFence
        BY <3>4 DEF NoFence
      <3>5. QED
        BY <3>2, <3>3, <3>4
    <2>4. QED
      BY <2>2, <2>3
  <1>7. QED
    BY <1>2, <1>3, <1>4, <1>5, <1>6 DEF TypeOK, Heading

LEMMA PreviousPreserved ==
    ASSUME TypeOK, Previous, NEW line \in Lines, Read(line)
    PROVE  Previous'
  <1> DEFINE n == Len(doc)
  <1>1. /\ n \in Nat /\ headings \in Seq(Heading(n)) /\ code \subseteq 1..n
    BY DEF TypeOK, Heading
  <1>2. CASE previous' = 0
    <2>1. 0 \notin code'
      BY <1>1 DEF Read, ReadCode, ReadHeading, ReadUnderline, ReadText
    <2>2. QED
      BY <1>2, <2>1 DEF Previous
  <1>3. CASE previous' # 0
    <2>1. ReadText(line)
      BY <1>3 DEF Read, ReadCode, ReadHeading, ReadUnderline
    <2>2. previous' = n + 1 /\ headings' = headings /\ code' = code
      BY <1>3, <2>1 DEF ReadText
    <2>3. \A i \in Indices : headings[i].start \in 1..n
      BY StartsInPage
    <2>4. QED
      BY <1>1, <2>2, <2>3 DEF Previous, Indices
  <1>4. QED
    BY <1>2, <1>3

LEMMA HeadingsStayReal ==
    ASSUME TypeOK, Previous, HeadingsAreReal, NEW line \in Lines, Read(line)
    PROVE  HeadingsAreReal'
  <1> DEFINE n == Len(doc)
             Marked(h, d, c) ==
                 /\ h.start \notin c
                 /\ \/ d[h.start].form = "atx" /\ d[h.start].level = h.level
                    \/ /\ h.start + 1 \in (1 .. Len(d)) \ c
                       /\ d[h.start + 1].form = "under" /\ d[h.start + 1].level = h.level
  <1>1. /\ n \in Nat /\ doc \in Seq(Lines) /\ headings \in Seq(Heading(n)) /\ code \subseteq 1..n
    BY DEF TypeOK, Heading
  <1>2. /\ doc' \in Seq(Lines) /\ Len(doc') = n + 1 /\ doc'[n + 1] = line
        /\ \A i \in 1..n : doc'[i] = doc[i]
    BY <1>1, PageGrows
  <1>3. code' \subseteq code \cup {n + 1}
    BY DEF Read, ReadCode, ReadHeading, ReadUnderline, ReadText
  <1>4. \A i \in Indices : headings[i].start \in 1..n
    BY StartsInPage
  <1>5. \A i \in Indices : Marked(headings[i], doc', code')
    <2> TAKE i \in Indices
    <2>1. Marked(headings[i], doc, code)
      BY DEF HeadingsAreReal
    <2>2. headings[i].start \notin code' /\ doc'[headings[i].start] = doc[headings[i].start]
      BY <1>1, <1>2, <1>3, <1>4, <2>1
    <2>3. headings[i].start + 1 \in (1..n) \ code =>
            /\ headings[i].start + 1 \in (1 .. n + 1) \ code'
            /\ doc'[headings[i].start + 1] = doc[headings[i].start + 1]
      BY <1>1, <1>2, <1>3, <1>4
    <2>4. QED
      BY <1>2, <2>1, <2>2, <2>3
  <1>6. CASE headings' = headings
    BY <1>5, <1>6 DEF HeadingsAreReal, Indices
  <1>7. CASE headings' # headings
    <2>1. PICK h \in Heading(n + 1) :
             /\ headings' = Append(headings, h)
             /\ h.start \notin code'
             /\ \A i \in Indices : headings[i].start < h.start
             /\ \/ h.start = n + 1 /\ line.form = "atx" /\ line.level = h.level
                \/ /\ h.start = n /\ n > 0 /\ n + 1 \notin code'
                   /\ line.form = "under" /\ line.level = h.level
      BY <1>7, HeadingsGrow
    <2>2. Marked(h, doc', code')
      <3>1. CASE h.start = n + 1 /\ line.form = "atx" /\ line.level = h.level
        BY <1>1, <1>2, <2>1, <3>1
      <3>2. CASE h.start = n /\ n + 1 \notin code' /\ line.form = "under" /\ line.level = h.level
        <4>1. h.start + 1 = n + 1 /\ n + 1 \in (1 .. Len(doc')) \ code'
          BY <1>1, <1>2, <3>2
        <4>2. QED
          BY <1>2, <2>1, <3>2, <4>1
      <3>3. QED
        BY <2>1, <3>1, <3>2
    <2>3. Indices' = 1 .. Len(headings) + 1 /\ Indices = 1 .. Len(headings) /\ Len(headings) \in Nat
      BY <1>1, <2>1 DEF Indices
    <2>4. /\ headings'[Len(headings) + 1] = h
          /\ \A i \in Indices : headings'[i] = headings[i]
      BY <1>1, <2>1 DEF Indices
    <2>5. \A i \in Indices' : Marked(headings'[i], doc', code')
      <3> TAKE i \in Indices'
      <3>1. i \in Indices \/ i = Len(headings) + 1
        BY <2>3
      <3>2. QED
        BY <3>1, <2>2, <2>4, <1>5
    <2>6. \A i, j \in Indices' : i < j => headings'[i].start < headings'[j].start
      <3> TAKE i, j \in Indices'
      <3>1. SUFFICES ASSUME i < j PROVE headings'[i].start < headings'[j].start
        OBVIOUS
      <3>2. i \in Indices /\ (j \in Indices \/ j = Len(headings) + 1)
        BY <2>3, <3>1
      <3>3. QED
        BY <3>1, <3>2, <2>1, <2>4 DEF HeadingsAreReal
    <2>7. QED
      BY <2>5, <2>6 DEF HeadingsAreReal
  <1>8. QED
    BY <1>6, <1>7

LEMMA NextPreserves ==
    ASSUME IInv, [Next]_vars
    PROVE  IInv'
  <1>1. CASE Next
    <2>1. PICK line \in Lines : Read(line)
      BY <1>1 DEF Next
    <2>2. QED
      BY <2>1, TypesPreserved, FenceStaysOpen, PreviousPreserved, HeadingsStayReal DEF IInv
  <1>2. CASE UNCHANGED vars
    BY <1>2 DEF IInv, vars, TypeOK, FenceIsOpen, Previous, HeadingsAreReal, Indices
  <1>3. QED
    BY <1>1, <1>2

\* Every variable keeps its type, whatever the lines are: the fence is as its
\* opener says, and the line before is the line just read (headings.go:31-65).
THEOREM TypesHold == Spec => []TypeOK
  <1>1. IInv => TypeOK
    BY DEF IInv
  <1>2. QED
    BY InitInv, NextPreserves, <1>1, PTL DEF Spec

\* The pass takes a line for code exactly while a fence is open, on pages of
\* any length (fence.go:53-87).
THEOREM FencesAlwaysOpen == Spec => []FenceIsOpen
  <1>1. IInv => FenceIsOpen
    BY DEF IInv
  <1>2. QED
    BY InitInv, NextPreserves, <1>1, PTL DEF Spec

\* Headings are in order, apart and outside code, each marked by itself or by
\* the next line, on pages of any length (headings.go:31-65).
THEOREM HeadingsAlwaysReal == Spec => []HeadingsAreReal
  <1>1. IInv => HeadingsAreReal
    BY DEF IInv
  <1>2. QED
    BY InitInv, NextPreserves, <1>1, PTL DEF Spec
-----------------------------------------------------------------------------
(* Anchors *)

\* A text's anchor, or a numbered one, of any text.
SomeAnchor == {Anchor[text] : text \in Texts} \cup {Append(Anchor[text], k) : text \in Texts, k \in Nat}

LEMMA AnchorsNumbered ==
    ASSUME NEW text \in Texts, NEW j \in Nat, NEW k \in Nat,
           Append(Anchor[text], j) = Append(Anchor[text], k)
    PROVE  j = k
  <1>0. PICK a : a = Anchor[text]
    OBVIOUS
  <1>1. PICK d \in Nat : d = Len(a) /\ a = [i \in 1..d |-> a[i]]
    BY <1>0, TextsAssumption
  <1>2. PICK S : S = Range(a) \cup Nat
    OBVIOUS
  <1>3. a \in Seq(Range(a)) /\ Len(a) = d
    BY <1>1, FunctionIsList
  <1>4. a \in Seq(S) /\ j \in S /\ k \in S
    BY <1>2, <1>3
  <1>5. Append(a, j)[d + 1] = j /\ Append(a, k)[d + 1] = k
    BY <1>3, <1>4
  <1>6. QED
    BY <1>0, <1>5

\* Among one more number than there are anchors, one gives a new anchor.
LEMMA AnchorIsNew ==
    ASSUME NEW text \in Texts, NEW seen, IsFiniteSet(seen)
    PROVE  UniqueAnchor(text, seen) \in SomeAnchor \ seen
  <1>1. PICK c \in Nat : c = Cardinality(seen)
    BY FS_CardinalityType
  <1>2. CASE Anchor[text] \notin seen
    BY <1>2 DEF UniqueAnchor, SomeAnchor
  <1>3. CASE Anchor[text] \in seen
    <2>1. PICK K : K = {k \in 1 .. c + 1 : Append(Anchor[text], k) \notin seen}
      OBVIOUS
    <2>2. K # {}
      <3> SUFFICES ASSUME K = {} PROVE FALSE
        OBVIOUS
      <3> DEFINE f == [k \in 1 .. c + 1 |-> Append(Anchor[text], k)]
      <3>1. f \in [1 .. c + 1 -> seen]
        BY <2>1
      <3>2. IsFiniteSet(1 .. c + 1) /\ Cardinality(1 .. c + 1) = c + 1
        <4>1. 1 \in Int /\ c + 1 \in Int /\ ~(1 > c + 1) /\ (c + 1) - 1 + 1 = c + 1
          OBVIOUS
        <4>2. QED
          BY <4>1, FS_Interval
      <3>3. Cardinality(seen) < Cardinality(1 .. c + 1)
        BY <1>1, <3>2
      <3> HIDE DEF f
      <3>4. PICK j, k \in 1 .. c + 1 : j # k /\ f[j] = f[k]
        BY <3>1, <3>2, <3>3, FS_PigeonHole
      <3>5. j \in Nat /\ k \in Nat /\ Append(Anchor[text], j) = Append(Anchor[text], k)
        BY <3>4 DEF f
      <3>6. QED
        BY <3>4, <3>5, AnchorsNumbered
    <2>3. K \in SUBSET Nat
      BY <2>1
    <2>4. Min(K) \in K
      BY <2>2, <2>3, FirstOf
    <2>5. UniqueAnchor(text, seen) = Append(Anchor[text], Min(K))
      BY <1>1, <1>3, <2>1 DEF UniqueAnchor
    <2>6. PICK k \in Nat : k = Min(K)
      BY <2>3, <2>4
    <2>7. Append(Anchor[text], k) \notin seen
      BY <2>1, <2>4, <2>6
    <2>8. Append(Anchor[text], k) \in SomeAnchor
      BY DEF SomeAnchor
    <2>9. QED
      BY <2>5, <2>6, <2>7, <2>8
  <1>4. QED
    BY <1>2, <1>3

LEMMA RangeFinite ==
    ASSUME NEW S, NEW s \in Seq(S)
    PROVE  IsFiniteSet(Range(s)) /\ \A i \in 1..Len(s) : s[i] \in Range(s)
  <1>1. PICK n \in Nat : n = Len(s) /\ DOMAIN s = 1..n
    OBVIOUS
  <1>2. IsFiniteSet(1..n)
    BY FS_Interval
  <1>3. s \in [1..n -> Range(s)] /\ \A y \in Range(s) : \E i \in 1..n : s[i] = y
    <2>1. s \in [1..n -> S]
      BY <1>1
    <2>2. Range(s) = {s[i] : i \in 1..n}
      BY <1>1 DEF Range
    <2>3. QED
      BY <2>1, <2>2
  <1>4. s \in Surjection(1..n, Range(s))
    BY <1>3 DEF Surjection
  <1>5. QED
    BY <1>1, <1>2, <1>3, <1>4, FS_Surjection

\* An anchor after those of the headings before: a new one.
LEMMA AddAnchorAdds ==
    ASSUME NEW anchors \in Seq(SomeAnchor), NEW heading, heading.text \in Texts
    PROVE  /\ AddAnchor(anchors, heading) \in Seq(SomeAnchor)
           /\ Len(AddAnchor(anchors, heading)) = Len(anchors) + 1
           /\ \A i \in 1..Len(anchors) : /\ AddAnchor(anchors, heading)[i] = anchors[i]
                                         /\ AddAnchor(anchors, heading)[Len(anchors) + 1] # anchors[i]
  <1>1. PICK new : new = UniqueAnchor(heading.text, Range(anchors))
    OBVIOUS
  <1>2. new \in SomeAnchor \ Range(anchors)
    BY <1>1, RangeFinite, AnchorIsNew
  <1>3. AddAnchor(anchors, heading) = Append(anchors, new)
    BY <1>1 DEF AddAnchor
  <1>4. \A i \in 1..Len(anchors) : anchors[i] # new
    BY <1>2, RangeFinite
  <1>5. QED
    BY <1>2, <1>3, <1>4

Adds(iter) ==
    iter = [s \in SUBSET (1..Len(headings)) |->
               IF s = {} THEN <<>> ELSE AddAnchor(iter[s \ {Max(s)}], headings[Max(s)])]

LEMMA AnchorsIs ==
    ASSUME TypeOK
    PROVE  Anchors = (CHOOSE iter : Adds(iter))[1..Len(headings)]
  <1>1. DOMAIN headings = 1..Len(headings)
    BY DEF TypeOK
  <1>2. QED
    BY <1>1 DEF Anchors, FoldLeft, MapThenFoldSet, Adds

\* The anchors, heading by heading.
AnchorSteps(u) ==
    /\ u[0] = <<>>
    /\ \A i \in Indices : u[i] = AddAnchor(u[i - 1], headings[i])
    /\ Anchors = u[Len(headings)]

LEMMA AnchorsStep ==
    ASSUME TypeOK
    PROVE  \E u : AnchorSteps(u)
  <1>1. PICK n \in Nat : n = Len(headings) /\ Indices = 1..n
    BY StartsInPage
  <1>a. \A i \in 1..n : headings[i].text \in Texts
    BY <1>1, StartsInPage
  <1> DEFINE C == [s \in SUBSET (1..n) |-> Max(s)]
             X == Seq(SomeAnchor)
             G == [v \in X \X (1..n) |-> AddAnchor(v[1], headings[v[2]])]
  <1>2. /\ IsFiniteSet(1..n)
        /\ \A s \in SUBSET (1..n) : s # {} => C[s] \in s /\ C[s] = Max(s)
    BY LastOfPrefix
  <1>3. G \in [X \X (1..n) -> X]
    <2>1. \A anchors \in X, i \in 1..n : AddAnchor(anchors, headings[i]) \in X
      BY <1>a, AddAnchorAdds
    <2>2. QED
      BY <2>1
  <1>4. \A anchors \in X, i \in 1..n : G[<<anchors, i>>] = AddAnchor(anchors, headings[i])
    OBVIOUS
  <1>5. <<>> \in X
    OBVIOUS
  <1> HIDE DEF C, G, X
  <1>6. PICK g \in [SUBSET (1..n) -> X] : IsFold(1..n, <<>>, C, G, g)
    BY <1>2, <1>3, <1>5, FoldExists
  <1>7. Adds(g)
    <2>1. ASSUME NEW s \in SUBSET (1..n), s # {}
          PROVE  g[s] = AddAnchor(g[s \ {Max(s)}], headings[Max(s)])
      <3>1. g[s] = G[<<g[s \ {Max(s)}], Max(s)>>]
        BY <1>2, <1>6, <2>1 DEF IsFold
      <3>2. Max(s) \in 1..n /\ g[s \ {Max(s)}] \in X
        BY <1>2, <2>1
      <3>3. QED
        BY <1>4, <3>1, <3>2
    <2>2. g[{}] = <<>>
      BY <1>6 DEF IsFold
    <2>3. QED
      BY <1>1, <2>1, <2>2 DEF Adds
  <1>8. PICK iter : Adds(iter) /\ Anchors = iter[1..n]
    BY <1>1, <1>7, AnchorsIs
  <1> DEFINE u == [i \in 0..n |-> iter[1..i]]
  <1>9. u[0] = <<>>
    BY <1>1, <1>8, LastOfPrefix DEF Adds
  <1>10. ASSUME NEW i \in 1..n
         PROVE  u[i] = AddAnchor(u[i - 1], headings[i])
    <2>1. /\ 1..i \in SUBSET (1..n) /\ i \in 0..n /\ i - 1 \in 0..n
      OBVIOUS
    <2>2. Max(1..i) = i /\ (1..i) \ {i} = 1..(i - 1) /\ 1..i # {}
      BY LastOfPrefix
    <2>3. iter[1..i] = AddAnchor(iter[(1..i) \ {Max(1..i)}], headings[Max(1..i)])
      BY <1>1, <1>8, <2>1, <2>2 DEF Adds
    <2>4. QED
      BY <2>1, <2>2, <2>3
  <1>11. u[n] = Anchors
    BY <1>8
  <1> HIDE DEF u
  <1>12. AnchorSteps(u)
    BY <1>1, <1>9, <1>10, <1>11 DEF AnchorSteps
  <1>13. QED
    BY <1>12

\* No two headings have the same anchor.
LEMMA AnchorsDiffer ==
    ASSUME TypeOK
    PROVE  \A i, j \in Indices : i # j => Anchors[i] # Anchors[j]
  <1>1. PICK n \in Nat : n = Len(headings) /\ Indices = 1..n
    BY StartsInPage
  <1>2. PICK u : AnchorSteps(u)
    BY AnchorsStep
  <1>3. /\ u[0] = <<>> /\ Anchors = u[n]
        /\ \A i \in 1..n : u[i] = AddAnchor(u[i - 1], headings[i])
        /\ \A i \in 1..n : headings[i].text \in Texts
    BY <1>1, <1>2, StartsInPage DEF AnchorSteps
  <1> DEFINE T == {m \in Nat : m <= n =>
                     /\ u[m] \in Seq(SomeAnchor) /\ Len(u[m]) = m
                     /\ \A i, j \in 1..m : i # j => u[m][i] # u[m][j]}
  <1>4. 0 \in T
    <2>1. <<>> \in Seq(SomeAnchor) /\ Len(<<>>) = 0 /\ 1..0 = {}
      OBVIOUS
    <2>2. QED
      BY <1>3, <2>1
  <1>5. ASSUME NEW m \in Nat, m \in T PROVE m + 1 \in T
    <2> SUFFICES ASSUME m + 1 <= n
                 PROVE  /\ u[m + 1] \in Seq(SomeAnchor) /\ Len(u[m + 1]) = m + 1
                        /\ \A i, j \in 1..(m + 1) : i # j => u[m + 1][i] # u[m + 1][j]
      OBVIOUS
    <2>1. PICK v, w : v = u[m] /\ w = u[m + 1]
      OBVIOUS
    <2>2. /\ v \in Seq(SomeAnchor) /\ Len(v) = m
          /\ \A i, j \in 1..m : i # j => v[i] # v[j]
      BY <1>5, <2>1
    <2>3. m + 1 \in 1..n /\ (m + 1) - 1 = m
      OBVIOUS
    <2>4. w = AddAnchor(v, headings[m + 1]) /\ headings[m + 1].text \in Texts
      BY <1>3, <2>1, <2>3
    <2>5. /\ w \in Seq(SomeAnchor) /\ Len(w) = m + 1
          /\ \A i \in 1..m : w[i] = v[i] /\ w[m + 1] # v[i]
      <3>1. PICK h : h = headings[m + 1]
        OBVIOUS
      <3>2. h.text \in Texts /\ w = AddAnchor(v, h)
        BY <2>4, <3>1
      <3>3. v \in Seq(SomeAnchor) /\ Len(v) = m
        BY <2>2
      <3>4. QED
        BY <3>2, <3>3, AddAnchorAdds
    <2>6. \A i, j \in 1..(m + 1) : i # j => w[i] # w[j]
      <3> TAKE i, j \in 1..(m + 1)
      <3>1. (i \in 1..m \/ i = m + 1) /\ (j \in 1..m \/ j = m + 1)
        OBVIOUS
      <3>2. QED
        BY <3>1, <2>2, <2>5
    <2>7. QED
      BY <2>1, <2>5, <2>6
  <1> HIDE DEF T
  <1>6. n \in T
    BY <1>4, <1>5, Induction
  <1>7. QED
    BY <1>1, <1>3, <1>6 DEF T

LEMMA AnchorFinds ==
    ASSUME TypeOK, NEW i \in Indices
    PROVE  ExtractHeading(OfAnchor(Anchors, Anchors[i])) = i
  <1>1. PICK all : all = Anchors
    OBVIOUS
  <1>2. \A j \in Indices : j # i => all[j] # all[i]
    BY <1>1, AnchorsDiffer
  <1>3. OfAnchor(all, all[i]) = {i}
    BY <1>2 DEF OfAnchor
  <1>4. i \in Nat
    BY StartsInPage
  <1>5. {i} \in SUBSET Nat /\ {i} # {}
    BY <1>4
  <1>6. Min({i}) \in {i}
    BY <1>5, FirstOf
  <1>7. QED
    BY <1>1, <1>3, <1>6 DEF ExtractHeading

\* On pages of any length every heading's anchor leads to that heading,
\* however texts and numbered anchors coincide (extract.go:20-29, 67-78).
THEOREM AnchorsAlwaysFind == Spec => []AnchorFindsHeading
  <1>1. TypeOK => AnchorFindsHeading
    BY AnchorFinds DEF AnchorFindsHeading
  <1>2. QED
    BY TypesHold, <1>1, PTL

-----------------------------------------------------------------------------
(* Ids of the published page *)

LEMMA TextFound ==
    ASSUME TypeOK, NEW ids \in [Indices -> Ids \cup {NoId}], NEW i \in Indices,
           Shown(ids)[i].text # NoText
    PROVE  /\ TextOfId(Shown(ids), ids[i]) \in {NoText, Shown(ids)[i].text}
           /\ (\A j \in Indices \ {i} : ids[j] # ids[i]) =>
                 TextOfId(Shown(ids), ids[i]) = Shown(ids)[i].text
  <1>1. PICK n \in Nat : n = Len(headings) /\ Indices = 1..n
    BY StartsInPage
  <1>2. PICK shown : shown = Shown(ids)
    OBVIOUS
  <1>3. DOMAIN shown = 1..n /\ \A j \in 1..n : shown[j].id = ids[j]
    BY <1>1, <1>2 DEF Shown
  <1>4. PICK K : K = {j \in 1..n : ids[j] = ids[i]}
    OBVIOUS
  <1>5. K \in SUBSET (1..n) /\ i \in K
    BY <1>1, <1>4
  <1>6. PICK m \in K : m = Max(K) /\ i <= m
    BY <1>5, LastOf
  <1>7. {j \in DOMAIN shown : shown[j].id = ids[i]} = K
    BY <1>3, <1>4
  <1>8. TextOfId(shown, ids[i]) =
            IF \A j, k \in K : j < k => shown[j].text \in {NoText, shown[k].text}
            THEN shown[m].text ELSE NoText
    BY <1>5, <1>6, <1>7 DEF TextOfId
  <1>9. CASE i = m
    <2>1. (\A j \in Indices \ {i} : ids[j] # ids[i]) => \A j, k \in K : ~(j < k)
      BY <1>1, <1>4
    <2>2. QED
      BY <1>2, <1>8, <1>9, <2>1
  <1>10. CASE i # m
    <2>1. i < m /\ m \in Indices /\ m # i /\ ids[m] = ids[i]
      BY <1>1, <1>4, <1>6, <1>10
    <2>2. TextOfId(shown, ids[i]) \in {NoText, shown[i].text}
      BY <1>2, <1>5, <1>8, <2>1
    <2>3. QED
      BY <1>2, <2>1, <2>2
  <1>11. QED
    BY <1>9, <1>10

LEMMA PublishedFinds ==
    ASSUME TypeOK, NEW ids \in [Indices -> Ids \cup {NoId}], NEW i \in Indices,
           Shown(ids)[i].text # NoText,
           NEW resolved, resolved = ResolvePublishedHeading(Shown(ids), ids[i])
    PROVE  /\ \A anchor \in resolved : ExtractHeading(OfAnchor(Anchors, anchor)) = i
           /\ resolved = {} =>
                \E j \in Indices \ {i} : \/ Shown(ids)[j].id = ids[i]
                                         \/ Shown(ids)[j].text = Shown(ids)[i].text
  <1>1. PICK n \in Nat : n = Len(headings) /\ Indices = 1..n
    BY StartsInPage
  <1>2. PICK own, text : own = Shown(ids)[i].text /\ text = TextOfId(Shown(ids), ids[i])
    OBVIOUS
  <1>3. /\ own # NoText /\ text \in {NoText, own}
        /\ (\A j \in Indices \ {i} : ids[j] # ids[i]) => text = own
    BY <1>2, TextFound
  <1>4. /\ own = PlainText[headings[i].text]
        /\ \A j \in Indices : /\ Shown(ids)[j].id = ids[j]
                              /\ Shown(ids)[j].text = PlainText[headings[j].text]
    BY <1>2 DEF Shown
  <1>5. PICK same : same = {j \in Indices : PlainText[headings[j].text] = text}
    OBVIOUS
  <1>6. resolved = IF text # NoText /\ Cardinality(same) = 1 THEN {Anchors[Min(same)]} ELSE {}
    BY <1>2, <1>5 DEF ResolvePublishedHeading
  <1>7. IsFiniteSet(same)
    <2>1. IsFiniteSet(1..n) /\ same \subseteq 1..n
      BY <1>1, <1>5, FS_Interval
    <2>2. QED
      BY <2>1, FS_Subset
  <1>8. Min({i}) = i
    <2>1. {i} \in SUBSET Nat /\ {i} # {}
      BY <1>1
    <2>2. QED
      BY <2>1, FirstOf
  <1>9. ASSUME NEW anchor \in resolved PROVE ExtractHeading(OfAnchor(Anchors, anchor)) = i
    <2>1. text # NoText /\ Cardinality(same) = 1 /\ anchor = Anchors[Min(same)]
      BY <1>6, <1>9
    <2>2. i \in same
      BY <1>3, <1>4, <1>5, <2>1
    <2>3. same = {i}
      BY <1>7, <2>1, <2>2, FS_Singleton
    <2>4. QED
      BY <1>8, <2>1, <2>3, AnchorFinds
  <1>10. ASSUME \A j \in Indices \ {i} : /\ Shown(ids)[j].id # ids[i]
                                         /\ Shown(ids)[j].text # own
         PROVE  resolved # {}
    <2>1. text = own
      BY <1>3, <1>4, <1>10
    <2>2. same = {i}
      BY <1>4, <1>5, <1>10, <2>1
    <2>3. Cardinality(same) = 1
      BY <2>2, FS_Singleton
    <2>4. QED
      BY <1>3, <1>6, <2>1, <2>3
  <1>11. QED
    BY <1>2, <1>9, <1>10

LEMMA PublishedResolves ==
    ASSUME TypeOK, NEW ids \in [Indices -> Ids \cup {NoId}], NEW i \in Indices,
           Shown(ids)[i].text # NoText,
           NEW resolved, resolved = ResolveHeading(Shown(ids), ids[i])
    PROVE  Leads(ids, i, resolved)
  <1>1. CASE OfAnchor(Anchors, ids[i]) = {}
    <2>1. resolved = ResolvePublishedHeading(Shown(ids), ids[i])
      BY <1>1 DEF ResolveHeading
    <2>2. /\ \A anchor \in resolved : ExtractHeading(OfAnchor(Anchors, anchor)) = i
          /\ resolved = {} =>
                \E j \in Indices \ {i} : \/ Shown(ids)[j].id = ids[i]
                                         \/ Shown(ids)[j].text = Shown(ids)[i].text
      BY Zenon, <2>1, PublishedFinds
    <2>3. QED
      BY Zenon, <2>2 DEF Leads
  <1>2. CASE OfAnchor(Anchors, ids[i]) # {}
    <2>1. resolved = {ids[i]}
      BY <1>2 DEF ResolveHeading
    <2>2. PICK j \in Indices : Anchors[j] = ids[i]
      BY Zenon, <1>2 DEF OfAnchor
    <2>3. CASE j = i
      <3>1. ExtractHeading(OfAnchor(Anchors, ids[i])) = i
        BY <2>2, <2>3, AnchorFinds
      <3>2. QED
        BY Zenon, <2>1, <3>1 DEF Leads
    <2>4. CASE j # i
      <3>1. j \in Indices \ {i}
        BY <2>4
      <3>2. QED
        BY Zenon, <2>1, <2>2, <3>1 DEF Leads
    <2>5. QED
      BY <2>3, <2>4
  <1>3. QED
    BY <1>1, <1>2

\* On pages of any length, whatever ids the published headings carry, also
\* ids that are anchors of other headings of the page, an id leads to the
\* heading that carries it, to the one whose own anchor it is, or nowhere;
\* and somewhere when id and text are its own (anchor_resolution.go:20-83).
THEOREM PublishedAlwaysFound == Spec => []PublishedHeadingFound
  <1>1. TypeOK => PublishedHeadingFound
    <2> SUFFICES ASSUME TypeOK, NEW ids \in [Indices -> Ids \cup {NoId}], NEW i \in Indices,
                        Shown(ids)[i].text # NoText
                 PROVE  Leads(ids, i, ResolveHeading(Shown(ids), ids[i]))
      BY Zenon DEF PublishedHeadingFound
    <2>1. QED
      BY PublishedResolves
  <1>2. QED
    BY TypesHold, <1>1, PTL

-----------------------------------------------------------------------------
(* Breadcrumbs *)

NoCrumbs == [level \in 1..6 |-> 0]

Follows(n, iter) ==
    iter = [s \in SUBSET (1..n) |->
               IF s = {} THEN NoCrumbs ELSE CrumbAfter(iter[s \ {Max(s)}], [k \in 1..n |-> k][Max(s)])]

LEMMA CrumbsAre ==
    ASSUME NEW n
    PROVE  Crumbs(n) = (CHOOSE iter : Follows(n, iter))[1..n]
  <1>1. DOMAIN [k \in 1..n |-> k] = 1..n
    OBVIOUS
  <1>2. QED
    BY <1>1 DEF Crumbs, FoldLeft, MapThenFoldSet, Follows, NoCrumbs

\* The crumbs up to heading n, heading by heading.
CrumbSteps(n, u) ==
    /\ u[0] = NoCrumbs
    /\ \A i \in 1..n : u[i] = CrumbAfter(u[i - 1], i)
    /\ Crumbs(n) = u[n]

LEMMA CrumbsStep ==
    ASSUME NEW n \in Nat
    PROVE  \E u : CrumbSteps(n, u)
  <1> DEFINE C == [s \in SUBSET (1..n) |-> Max(s)]
             X == [1..6 -> Int]
             G == [v \in X \X (1..n) |-> CrumbAfter(v[1], v[2])]
             id == [k \in 1..n |-> k]
  <1>1. /\ IsFiniteSet(1..n)
        /\ \A s \in SUBSET (1..n) : s # {} => C[s] \in s /\ C[s] = Max(s)
    BY LastOfPrefix
  <1>2. G \in [X \X (1..n) -> X]
    <2>1. \A crumb \in X, i \in 1..n : CrumbAfter(crumb, i) \in X
      BY DEF CrumbAfter
    <2>2. QED
      BY <2>1
  <1>3. \A crumb \in X, i \in 1..n : G[<<crumb, i>>] = CrumbAfter(crumb, i)
    OBVIOUS
  <1>4. NoCrumbs \in X
    BY DEF NoCrumbs
  <1>5. \A i \in 1..n : id[i] = i
    OBVIOUS
  <1> HIDE DEF C, G, X
  <1>6. PICK g \in [SUBSET (1..n) -> X] : IsFold(1..n, NoCrumbs, C, G, g)
    BY <1>1, <1>2, <1>4, FoldExists
  <1>7. Follows(n, g)
    <2>1. ASSUME NEW s \in SUBSET (1..n), s # {}
          PROVE  g[s] = CrumbAfter(g[s \ {Max(s)}], id[Max(s)])
      <3>1. g[s] = G[<<g[s \ {Max(s)}], Max(s)>>]
        BY <1>1, <1>6, <2>1 DEF IsFold
      <3>2. Max(s) \in 1..n /\ g[s \ {Max(s)}] \in X /\ id[Max(s)] = Max(s)
        BY <1>1, <2>1
      <3>3. QED
        BY <1>3, <3>1, <3>2
    <2>2. g[{}] = NoCrumbs
      BY <1>6 DEF IsFold
    <2> HIDE DEF id
    <2>3. g = [s \in SUBSET (1..n) |->
                 IF s = {} THEN NoCrumbs ELSE CrumbAfter(g[s \ {Max(s)}], id[Max(s)])]
      BY <2>1, <2>2
    <2>4. QED
      BY <2>3 DEF Follows, id
  <1>8. PICK iter : Follows(n, iter) /\ Crumbs(n) = iter[1..n]
    BY <1>7, CrumbsAre
  <1>a. /\ iter[{}] = NoCrumbs
        /\ \A s \in SUBSET (1..n) : s # {} => iter[s] = CrumbAfter(iter[s \ {Max(s)}], id[Max(s)])
    BY <1>8 DEF Follows
  <1> HIDE DEF id
  <1> DEFINE u == [i \in 0..n |-> iter[1..i]]
  <1>9. u[0] = NoCrumbs
    BY <1>a, LastOfPrefix
  <1>10. ASSUME NEW i \in 1..n
         PROVE  u[i] = CrumbAfter(u[i - 1], i)
    <2>1. /\ 1..i \in SUBSET (1..n) /\ i \in 0..n /\ i - 1 \in 0..n
      OBVIOUS
    <2>2. Max(1..i) = i /\ (1..i) \ {i} = 1..(i - 1) /\ 1..i # {}
      BY LastOfPrefix
    <2>3. iter[1..i] = CrumbAfter(iter[(1..i) \ {Max(1..i)}], id[Max(1..i)])
      BY <1>a, <2>1, <2>2
    <2>4. QED
      BY <1>5, <2>1, <2>2, <2>3
  <1>11. u[n] = Crumbs(n)
    BY <1>8
  <1> HIDE DEF u
  <1>12. CrumbSteps(n, u)
    BY <1>9, <1>10, <1>11 DEF CrumbSteps
  <1>13. QED
    BY <1>12

\* The crumb of a level is the last heading of that level that none of a
\* higher or the same one follows.
Encloses(i, j) == i <= j /\ \A p \in (i + 1)..j : headings[p].level > headings[i].level

Trail(crumb, j) ==
    /\ crumb \in [1..6 -> 0..j]
    /\ \A level \in 1..6, i \in 1..j :
          crumb[level] = i <=> headings[i].level = level /\ Encloses(i, j)

LEMMA TrailFollows ==
    ASSUME TypeOK, NEW j \in Nat, j + 1 \in Indices, NEW crumb, Trail(crumb, j)
    PROVE  Trail(CrumbAfter(crumb, j + 1), j + 1)
  <1>1. PICK n \in Nat : n = Len(headings) /\ Indices = 1..n
    BY StartsInPage
  <1>2. PICK next : next = CrumbAfter(crumb, j + 1)
    OBVIOUS
  <1>3. PICK top \in 1..6 : top = headings[j + 1].level
    BY StartsInPage
  <1>4. \A level \in 1..6 : next[level] = IF level < top THEN crumb[level]
                                          ELSE IF level = top THEN j + 1 ELSE 0
    BY <1>2, <1>3 DEF CrumbAfter
  <1>5. \A level \in 1..6 : crumb[level] \in 0..j
    BY DEF Trail
  <1>6. next \in [1..6 -> 0..(j + 1)]
    <2>1. next = [level \in 1..6 |-> next[level]]
      BY <1>2 DEF CrumbAfter
    <2>2. \A level \in 1..6 : next[level] \in 0..(j + 1)
      BY <1>4, <1>5
    <2>3. QED
      BY <2>1, <2>2
  <1>7. ASSUME NEW level \in 1..6, NEW i \in 1..(j + 1)
        PROVE  next[level] = i <=> headings[i].level = level /\ Encloses(i, j + 1)
    <2>1. CASE i = j + 1
      <3>1. Encloses(i, j + 1)
        BY <2>1 DEF Encloses
      <3>2. next[level] = j + 1 <=> level = top
        BY <1>4, <1>5
      <3>3. QED
        BY <1>3, <2>1, <3>1, <3>2
    <2>2. CASE i \in 1..j
      <3>1. /\ i + 1 \in Int /\ j + 1 \in (i + 1)..(j + 1)
            /\ \A p \in (i + 1)..(j + 1) : p = j + 1 \/ p \in (i + 1)..j
            /\ \A p \in (i + 1)..j : p \in (i + 1)..(j + 1)
        BY <2>2
      <3>2. headings[i].level \in 1..6
        BY <1>1, <2>2, StartsInPage
      <3>3. Encloses(i, j + 1) <=> Encloses(i, j) /\ top > headings[i].level
        BY <1>3, <2>2, <3>1 DEF Encloses
      <3>4. next[level] = i <=> level < top /\ crumb[level] = i
        BY <1>4, <2>2
      <3>5. crumb[level] = i <=> headings[i].level = level /\ Encloses(i, j)
        BY <2>2 DEF Trail
      <3>6. QED
        BY <3>2, <3>3, <3>4, <3>5
    <2>3. QED
      BY <2>1, <2>2
  <1>8. QED
    BY <1>2, <1>6, <1>7 DEF Trail

LEMMA CrumbsTrail ==
    ASSUME TypeOK, NEW j \in Indices
    PROVE  Trail(Crumbs(j), j)
  <1>1. PICK n \in Nat : n = Len(headings) /\ Indices = 1..n
    BY StartsInPage
  <1>2. PICK m \in 1..n : m = j
    BY <1>1
  <1>3. m \in Nat
    OBVIOUS
  <1>4. PICK u : CrumbSteps(m, u)
    BY <1>3, CrumbsStep
  <1>5. u[0] = NoCrumbs /\ Crumbs(m) = u[m] /\ \A i \in 1..m : u[i] = CrumbAfter(u[i - 1], i)
    BY <1>4 DEF CrumbSteps
  <1> DEFINE T == {i \in Nat : i <= m => Trail(u[i], i)}
  <1>6. 0 \in T
    <2>1. NoCrumbs \in [1..6 -> 0..0] /\ 1..0 = {}
      BY DEF NoCrumbs
    <2>2. QED
      BY <1>5, <2>1 DEF Trail
  <1>7. ASSUME NEW i \in Nat, i \in T PROVE i + 1 \in T
    <2> SUFFICES ASSUME i + 1 <= m PROVE Trail(u[i + 1], i + 1)
      OBVIOUS
    <2>1. i <= m /\ i + 1 \in 1..m /\ (i + 1) - 1 = i /\ i + 1 \in 1..n
      OBVIOUS
    <2>2. Trail(u[i], i) /\ i + 1 \in Indices
      BY <1>1, <1>7, <2>1
    <2>3. u[i + 1] = CrumbAfter(u[i], i + 1)
      BY <1>5, <2>1
    <2>4. QED
      BY <2>2, <2>3, TrailFollows
  <1> HIDE DEF T
  <1>8. m \in T
    BY <1>3, <1>6, <1>7, Induction
  <1>9. QED
    BY <1>2, <1>5, <1>8 DEF T

LEMMA BreadcrumbEncloses ==
    ASSUME TypeOK, NEW i \in Indices, NEW j \in Indices
    PROVE  i \in Breadcrumb(j) <=> Encloses(i, j)
  <1>1. PICK n \in Nat : n = Len(headings) /\ Indices = 1..n
    BY StartsInPage
  <1>2. PICK crumb : crumb = Crumbs(j)
    OBVIOUS
  <1>3. Trail(crumb, j)
    BY <1>2, CrumbsTrail
  <1>4. PICK own, top \in 1..6 : own = headings[i].level /\ top = headings[j].level
    BY StartsInPage
  <1>5. own \in 1..6 /\ i \in 1..n /\ j \in 1..n
    BY <1>1, <1>4, StartsInPage
  <1>6. i \in Breadcrumb(j) <=> \E level \in 1..top : crumb[level] = i
    BY <1>2, <1>4, <1>5 DEF Breadcrumb
  <1>7. ASSUME NEW level \in 1..top, crumb[level] = i PROVE Encloses(i, j)
    <2>1. level \in 1..6
      OBVIOUS
    <2>2. i \in 1..j
      BY <1>3, <1>5, <1>7, <2>1 DEF Trail
    <2>3. QED
      BY <1>3, <1>7, <2>1, <2>2 DEF Trail
  <1>8. ASSUME Encloses(i, j) PROVE \E level \in 1..top : crumb[level] = i
    <2>1. i \in 1..j
      BY <1>5, <1>8 DEF Encloses
    <2>2. own <= top
      <3>1. CASE i = j
        BY <1>4, <3>1
      <3>2. CASE i # j
        <4>1. j \in (i + 1)..j
          BY <1>5, <2>1, <3>2
        <4>2. headings[j].level > headings[i].level
          BY <1>8, <4>1 DEF Encloses
        <4>3. QED
          BY <1>4, <1>5, <4>2
      <3>3. QED
        BY <3>1, <3>2
    <2>3. crumb[own] = i
      BY <1>3, <1>4, <1>5, <1>8, <2>1 DEF Trail
    <2>4. own \in 1..top
      BY <1>5, <2>2
    <2>5. QED
      BY <2>3, <2>4
  <1>9. QED
    BY <1>6, <1>7, <1>8

LEMMA ExtractEncloses ==
    ASSUME TypeOK, HeadingsAreReal, NEW i \in Indices, NEW j \in Indices
    PROVE  Encloses(i, j) <=> i <= j /\ headings[j].start < ExtractEnd(i)
  <1>1. PICK n \in Nat : n = Len(headings) /\ Indices = 1..n
    BY StartsInPage
  <1>2. i \in 1..n /\ j \in 1..n
    BY <1>1
  <1>3. PICK later : later = {p \in 1..n : p > i /\ headings[p].level <= headings[i].level}
    OBVIOUS
  <1>4. ExtractEnd(i) = IF later = {} THEN Len(doc) + 1 ELSE headings[Min(later)].start
    BY <1>1, <1>3 DEF ExtractEnd
  <1>5. \A p \in 1..n : headings[p].level \in 1..6 /\ headings[p].start \in 1..Len(doc)
    BY <1>1, StartsInPage
  <1>6. Encloses(i, j) <=> i <= j /\ \A p \in later : p > j
    <2>1. \A p \in (i + 1)..j : p \in 1..n /\ p > i /\ ~(p > j)
      BY <1>2
    <2>2. \A p \in 1..n : p > i /\ ~(p > j) => p \in (i + 1)..j
      BY <1>2
    <2>3. \A p \in 1..n : headings[p].level > headings[i].level <=> ~(headings[p].level <= headings[i].level)
      <3> TAKE p \in 1..n
      <3>1. headings[p].level \in 1..6 /\ headings[i].level \in 1..6
        BY <1>2, <1>5
      <3>2. QED
        BY <3>1
    <2>4. QED
      BY <1>3, <2>1, <2>2, <2>3 DEF Encloses
  <1>7. CASE later = {}
    <2>1. Len(doc) \in Nat
      BY DEF TypeOK
    <2>2. headings[j].start < Len(doc) + 1
      BY <1>2, <1>5, <2>1
    <2>3. QED
      BY <1>4, <1>6, <1>7, <2>2
  <1>8. CASE later # {}
    <2>1. later \in SUBSET Nat
      BY <1>3
    <2>2. PICK q : q = Min(later) /\ q \in later /\ \A p \in later : q <= p
      BY <1>8, <2>1, FirstOf
    <2>3. q \in 1..n /\ q \in Indices
      BY <1>1, <1>3, <2>2
    <2>4. (\A p \in later : p > j) <=> j < q
      BY <1>2, <1>3, <2>2, <2>3
    <2>5. headings[j].start < headings[q].start <=> j < q
      <3>1. j < q => headings[j].start < headings[q].start
        BY <2>3 DEF HeadingsAreReal
      <3>2. q < j => headings[q].start < headings[j].start
        BY <2>3 DEF HeadingsAreReal
      <3>3. headings[j].start \in Int /\ headings[q].start \in Int
        BY <1>2, <1>5, <2>3
      <3>4. QED
        BY <1>2, <2>3, <3>1, <3>2, <3>3
    <2>6. QED
      BY <1>4, <1>6, <1>8, <2>2, <2>4, <2>5
  <1>9. QED
    BY <1>7, <1>8

\* On pages of any length the sections whose breadcrumb names a heading are
\* those in the extract under it (extract.go:34-43, section.go:23-55).
THEOREM CrumbsAlwaysEnclose == Spec => []CrumbsEnclose
  <1>1. TypeOK /\ HeadingsAreReal => CrumbsEnclose
    BY BreadcrumbEncloses, ExtractEncloses DEF CrumbsEnclose
  <1>2. QED
    BY TypesHold, HeadingsAlwaysReal, <1>1, PTL

-----------------------------------------------------------------------------
(* Runes *)

\* The w bytes from s on are a rune.
Rune(b, s, w) ==
    /\ s \in 1..Len(b) /\ w \in 1..4 /\ w = Width[b[s]]
    /\ RuneStart(b[s])
    /\ s + w - 1 <= Len(b)
    /\ \A j \in (s + 1)..(s + w - 1) : b[j] = "C"

\* A place between two runes, or at the end.
Bound(b, p) == p \in 0..Len(b) /\ (p < Len(b) => RuneStart(b[p + 1]))

LEMMA Widths == \A byte \in Bytes : RuneStart(byte) => Width[byte] \in 1..4
  BY DEF Width, Bytes, RuneStart

LEMMA RuneIs ==
    ASSUME NEW b \in Seq(Bytes), NEW s \in 1..Len(b)
    PROVE  Complete(b, s) <=> Rune(b, s, Width[b[s]])
  <1>1. b[s] \in Bytes
    OBVIOUS
  <1>2. RuneStart(b[s]) => Width[b[s]] \in 1..4
    BY <1>1, Widths
  <1>3. QED
    BY <1>2 DEF Complete, Rune

LEMMA RuneAt ==
    ASSUME NEW b \in Seq(Bytes), IsText(b), NEW i \in 1..Len(b)
    PROVE  \E s, w : Rune(b, s, w) /\ s <= i /\ i < s + w
  <1>1. DOMAIN b = 1..Len(b)
    OBVIOUS
  <1>2. PICK s \in 1..Len(b) : s <= i /\ Complete(b, s) /\ i < s + Width[b[s]]
    BY <1>1 DEF IsText
  <1>3. Rune(b, s, Width[b[s]])
    BY <1>2, RuneIs
  <1>4. QED
    BY <1>2, <1>3

LEMMA TextIf ==
    ASSUME NEW b \in Seq(Bytes),
           \A i \in 1..Len(b) : \E s, w : Rune(b, s, w) /\ s <= i /\ i < s + w
    PROVE  IsText(b)
  <1>1. DOMAIN b = 1..Len(b)
    OBVIOUS
  <1>2. ASSUME NEW i \in 1..Len(b)
        PROVE  \E at \in {j \in DOMAIN b : j > i - 4 /\ j <= i} :
                   Complete(b, at) /\ i < at + Width[b[at]]
    <2>1. PICK s, w : Rune(b, s, w) /\ s <= i /\ i < s + w
      OBVIOUS
    <2>2. s \in 1..Len(b) /\ w = Width[b[s]] /\ w \in 1..4
      BY <2>1 DEF Rune
    <2>3. Complete(b, s) /\ i < s + Width[b[s]] /\ s > i - 4
      BY <2>1, <2>2, RuneIs
    <2>4. QED
      BY <1>1, <2>1, <2>2, <2>3
  <1>3. QED
    BY <1>1, <1>2 DEF IsText

LEMMA NotStart == ~RuneStart("C") /\ RuneStart("n")
  BY DEF RuneStart

\* In a text a rune starts where another ends.
LEMMA RuneEnds ==
    ASSUME NEW b \in Seq(Bytes), IsText(b), NEW s, NEW w, Rune(b, s, w)
    PROVE  Bound(b, s + w - 1)
  <1>1. PICK n \in Nat : n = Len(b)
    OBVIOUS
  <1>2. /\ s \in 1..n /\ w \in 1..4 /\ s + w - 1 <= n /\ RuneStart(b[s])
        /\ \A j \in (s + 1)..(s + w - 1) : b[j] = "C"
    BY <1>1 DEF Rune
  <1>3. ASSUME s + w - 1 < n PROVE RuneStart(b[s + w])
    <2>1. s + w \in 1..n
      BY <1>2, <1>3
    <2>2. PICK t, v : Rune(b, t, v) /\ t <= s + w /\ s + w < t + v
      BY <1>1, <2>1, RuneAt
    <2>3. /\ t \in 1..n /\ v \in 1..4 /\ RuneStart(b[t])
          /\ \A j \in (t + 1)..(t + v - 1) : b[j] = "C"
      BY <1>1, <2>2 DEF Rune
    <2>4. ~(t \in (s + 1)..(s + w - 1))
      BY <1>2, <2>3, NotStart
    <2>5. ~(s \in (t + 1)..(t + v - 1))
      BY <1>2, <2>3, NotStart
    <2>6. s <= t => t = s + w \/ t = s
      BY <1>2, <2>2, <2>3, <2>4
    <2>7. t # s
      <3>1. SUFFICES ASSUME t = s PROVE FALSE
        OBVIOUS
      <3>2. v = w
        BY <2>2, <3>1 DEF Rune
      <3>3. QED
        BY <1>2, <2>2, <3>1, <3>2
    <2>8. ~(t < s)
      BY <1>2, <2>2, <2>3, <2>5
    <2>9. t = s + w
      BY <1>2, <2>3, <2>6, <2>7, <2>8
    <2>10. QED
      BY <2>3, <2>9
  <1>4. s + w - 1 \in 0..n /\ (s + w - 1) + 1 = s + w
    BY <1>2
  <1>5. QED
    BY <1>1, <1>3, <1>4 DEF Bound

\* What lies between two such places is text.
LEMMA TextCut ==
    ASSUME NEW b \in Seq(Bytes), IsText(b), NEW p, NEW q, Bound(b, p), Bound(b, q), p <= q
    PROVE  IsText(SubSeq(b, p + 1, q))
  <1>1. PICK n \in Nat : n = Len(b)
    OBVIOUS
  <1>2. /\ p \in 0..n /\ q \in 0..n
        /\ p < n => RuneStart(b[p + 1])
        /\ q < n => RuneStart(b[q + 1])
    BY <1>1 DEF Bound
  <1>3. PICK c : c = SubSeq(b, p + 1, q)
    OBVIOUS
  <1>4. c \in Seq(Bytes) /\ Len(c) = q - p /\ \A i \in 1..(q - p) : c[i] = b[p + i]
    BY <1>1, <1>2, <1>3
  <1>5. ASSUME NEW i \in 1..Len(c) PROVE \E s, w : Rune(c, s, w) /\ s <= i /\ i < s + w
    <2>1. i \in 1..(q - p) /\ p + i \in 1..n
      BY <1>2, <1>4
    <2>2. PICK s, w : Rune(b, s, w) /\ s <= p + i /\ p + i < s + w
      BY <1>1, <2>1, RuneAt
    <2>3. /\ s \in 1..n /\ w \in 1..4 /\ RuneStart(b[s]) /\ w = Width[b[s]] /\ s + w - 1 <= n
          /\ \A j \in (s + 1)..(s + w - 1) : ~RuneStart(b[j])
      BY <1>1, <2>2, NotStart DEF Rune
    <2>4. p < s
      <3>1. SUFFICES ASSUME s <= p PROVE FALSE
        BY <1>2, <2>3
      <3>2. p + 1 \in (s + 1)..(s + w - 1) /\ p < n
        BY <1>2, <2>1, <2>2, <2>3, <3>1
      <3>3. QED
        BY <1>2, <2>3, <3>2
    <2>5. s + w - 1 <= q
      <3>1. SUFFICES ASSUME q < s + w - 1 PROVE FALSE
        BY <1>2, <2>3
      <3>2. q + 1 \in (s + 1)..(s + w - 1) /\ q < n
        <4>1. q \in Nat /\ p \in Nat /\ n \in Nat /\ p <= q
          BY <1>1, <1>2
        <4>2. s \in Nat /\ w \in Nat /\ s + w - 1 <= n
          BY <2>3
        <4>3. i \in Nat /\ i <= q - p
          BY <2>1, <4>1
        <4>4. s <= p + i
          BY <2>2
        <4>5. s <= q /\ q + 1 <= s + w - 1
          BY <3>1, <4>1, <4>2, <4>3, <4>4
        <4>6. QED
          BY <4>1, <4>2, <4>5
      <3>3. QED
        BY <1>2, <2>3, <3>2
    <2>a. p \in Nat /\ q \in Nat /\ s \in Nat /\ w \in Nat /\ i \in Nat /\ w >= 1
      <3>1. p \in Nat /\ q \in Nat
        BY <1>2
      <3>2. s \in Nat /\ w \in Nat /\ w >= 1
        BY <2>3
      <3>3. i \in Nat
        BY <2>1
      <3>4. QED
        BY <3>1, <3>2, <3>3
    <2>b. s - p \in 1..(q - p) /\ (s - p) + w - 1 <= q - p /\ p + (s - p) = s /\ s - p \in Nat
      BY <2>4, <2>5, <2>a
    <2>6. PICK t \in Nat : t = s - p /\ t \in 1..(q - p) /\ t + w - 1 <= q - p /\ p + t = s
      BY <2>b
    <2>7. c[t] = b[s]
      BY <1>2, <1>4, <2>3, <2>6
    <2>8. \A j \in (t + 1)..(t + w - 1) : c[j] = "C"
      <3> TAKE j \in (t + 1)..(t + w - 1)
      <3>1. j \in 1..(q - p) /\ p + j \in (s + 1)..(s + w - 1)
        BY <2>6, <2>a
      <3>2. b[p + j] = "C"
        BY <2>2, <3>1 DEF Rune
      <3>3. QED
        BY <1>4, <3>1, <3>2
    <2>9. Rune(c, t, w)
      BY <1>4, <2>3, <2>6, <2>7, <2>8 DEF Rune
    <2>10. t <= i /\ i < t + w
      BY <2>2, <2>6, <2>a
    <2>11. QED
      BY <2>9, <2>10
  <1>6. QED
    BY <1>3, <1>4, <1>5, TextIf

\* A text that begins with a text goes on between two runes.
LEMMA TextGoesOn ==
    ASSUME NEW b \in Seq(Bytes), IsText(b), NEW p \in 0..Len(b), IsText(SubSeq(b, 1, p))
    PROVE  Bound(b, p)
  <1>1. PICK n \in Nat : n = Len(b) /\ p \in 0..n
    OBVIOUS
  <1>2. PICK c : c = SubSeq(b, 1, p)
    OBVIOUS
  <1>3. c \in Seq(Bytes) /\ Len(c) = p /\ \A i \in 1..p : c[i] = b[i]
    BY <1>1, <1>2
  <1>4. ASSUME p < n PROVE RuneStart(b[p + 1])
    <2>1. p + 1 \in 1..n
      BY <1>1, <1>4
    <2>2. PICK s, w : Rune(b, s, w) /\ s <= p + 1 /\ p + 1 < s + w
      BY <1>1, <2>1, RuneAt
    <2>3. /\ s \in 1..n /\ w \in 1..4 /\ RuneStart(b[s]) /\ w = Width[b[s]]
      BY <1>1, <2>2 DEF Rune
    <2>4. CASE s = p + 1
      BY <2>3, <2>4
    <2>5. CASE s # p + 1
      <3>1. s \in 1..p
        BY <1>1, <2>2, <2>3, <2>5
      <3>2. PICK t, v : Rune(c, t, v) /\ t <= s /\ s < t + v
        BY <1>2, <1>3, <3>1, RuneAt
      <3>3. /\ t \in 1..p /\ v \in 1..4 /\ v = Width[c[t]] /\ t + v - 1 <= p
            /\ \A j \in (t + 1)..(t + v - 1) : c[j] = "C"
        BY <1>3, <3>2 DEF Rune
      <3>4. ~(s \in (t + 1)..(t + v - 1))
        <4>1. c[s] = b[s]
          BY <1>3, <3>1
        <4>2. QED
          BY <2>3, <3>3, <4>1, NotStart
      <3>5. t = s
        BY <3>1, <3>2, <3>3, <3>4
      <3>6. v = w
        BY <1>3, <2>3, <3>3, <3>5
      <3>7. QED
        BY <2>2, <2>3, <3>3, <3>5, <3>6
    <2>6. QED
      BY <2>4, <2>5
  <1>5. QED
    BY <1>1, <1>4 DEF Bound

-----------------------------------------------------------------------------
(* Windows *)

\* The bytes end as runes do, as far as the last three tell.
Ending(b) ==
    LET n == Len(b)
    IN  \/ \A j \in (n - 2)..n : ~RuneStart(b[j])
        \/ \E s \in (n - 2)..n : Complete(b, s) /\ \A j \in (s + 1)..n : ~RuneStart(b[j])

\* How many bytes of a full window are shown.
CutsAt(b, c) ==
    /\ c \in 1..Len(b) /\ Cut(b) = SubSeq(b, 1, c)
    /\ c < Len(b) => RuneStart(b[c + 1])
    /\ c = Len(b) => Ending(b)

LEMMA CutIs ==
    ASSUME NEW b \in Seq(Bytes), Len(b) >= 4
    PROVE  \E c : CutsAt(b, c)
  <1>1. PICK n \in Nat : n = Len(b) /\ DOMAIN b = 1..n /\ n >= 4
    OBVIOUS
  <1>2. PICK newlines : newlines = {i \in DOMAIN b \ {1} : b[i] = "n"}
    OBVIOUS
  <1>3. CASE newlines # {}
    <2>1. newlines \in SUBSET (1..n)
      BY <1>1, <1>2
    <2>2. PICK m \in newlines : m = Max(newlines)
      BY <1>3, <2>1, LastOf
    <2>3. m \in 2..n /\ b[m] = "n"
      BY <1>1, <1>2, <2>2
    <2>4. Cut(b) = SubSeq(b, 1, m - 1)
      BY <1>2, <1>3, <2>2 DEF Cut
    <2>5. PICK c : c = m - 1
      OBVIOUS
    <2>6. c \in 1..n /\ c < n /\ c + 1 = m
      BY <2>3, <2>5
    <2>7. CutsAt(b, c)
      BY <1>1, <2>3, <2>4, <2>5, <2>6, NotStart DEF CutsAt
    <2>8. QED
      BY <2>7
  <1>4. CASE newlines = {}
    <2>1. Cut(b) = TrimPartialRune(b)
      BY <1>2, <1>4 DEF Cut
    <2>2. PICK starts : starts = {i \in DOMAIN b : i > Len(b) - 3 /\ RuneStart(b[i])}
      OBVIOUS
    <2>3. \A i \in (n - 2)..n : i \in 1..n /\ (RuneStart(b[i]) => i \in starts)
      BY <1>1, <2>2
    <2>4. starts \in SUBSET (1..n) /\ \A i \in starts : i \in (n - 2)..n /\ RuneStart(b[i])
      BY <1>1, <2>2
    <2>5. CASE starts = {}
      <3>1. Cut(b) = b
        BY <2>1, <2>2, <2>5 DEF TrimPartialRune
      <3>2. Ending(b)
        BY <1>1, <2>3, <2>5 DEF Ending
      <3>3. SubSeq(b, 1, n) = b
        BY <1>1
      <3>4. CutsAt(b, n)
        BY <1>1, <3>1, <3>2, <3>3 DEF CutsAt
      <3>5. QED
        BY <3>4
    <2>6. CASE starts # {}
      <3>1. PICK m \in starts : m = Max(starts) /\ \A i \in starts : i <= m
        BY <2>4, <2>6, LastOf
      <3>2. m \in (n - 2)..n /\ m \in 1..n /\ RuneStart(b[m])
        BY <1>1, <2>4
      <3>3. CASE RuneError(b, m)
        <4>1. Cut(b) = SubSeq(b, 1, m - 1)
          BY <2>1, <2>2, <2>6, <3>1, <3>3 DEF TrimPartialRune
        <4>2. PICK c : c = m - 1
          OBVIOUS
        <4>3. c \in 1..n /\ c < n /\ c + 1 = m
          BY <1>1, <3>2, <4>2
        <4>4. CutsAt(b, c)
          BY <1>1, <3>2, <4>1, <4>2, <4>3 DEF CutsAt
        <4>5. QED
          BY <4>4
      <3>4. CASE ~RuneError(b, m)
        <4>1. Cut(b) = b
          BY <2>1, <2>2, <2>6, <3>1, <3>4 DEF TrimPartialRune
        <4>2. Complete(b, m)
          BY <3>4 DEF RuneError
        <4>3. \A j \in (m + 1)..n : ~RuneStart(b[j])
          <5> TAKE j \in (m + 1)..n
          <5>1. j \in (n - 2)..n /\ ~(j <= m)
            BY <3>2
          <5>2. QED
            BY <2>3, <3>1, <5>1
        <4>4. Ending(b)
          BY <1>1, <3>2, <4>2, <4>3 DEF Ending
        <4>5. SubSeq(b, 1, n) = b
          BY <1>1
        <4>6. CutsAt(b, n)
          BY <1>1, <4>1, <4>4, <4>5 DEF CutsAt
        <4>7. QED
          BY <4>6
      <3>5. QED
        BY <3>3, <3>4
    <2>7. QED
      BY <2>5, <2>6
  <1>5. QED
    BY <1>3, <1>4

\* A stretch of a text that ends as runes do ends between two runes.
LEMMA EndingIsBound ==
    ASSUME NEW b \in Seq(Bytes), IsText(b), NEW p \in Nat, NEW q \in Nat, q <= Len(b), p + 4 <= q,
           Ending(SubSeq(b, p + 1, q))
    PROVE  Bound(b, q)
  <1>1. PICK n \in Nat : n = Len(b)
    OBVIOUS
  <1>2. PICK c : c = SubSeq(b, p + 1, q)
    OBVIOUS
  <1>3. PICK m \in Nat : m = q - p /\ m >= 4
    OBVIOUS
  <1>4. c \in Seq(Bytes) /\ Len(c) = m /\ \A i \in 1..m : c[i] = b[p + i]
    BY <1>1, <1>2, <1>3
  <1>5. CASE \A j \in (m - 2)..m : ~RuneStart(c[j])
    <2>1. q \in 1..n
      BY <1>1, <1>3
    <2>2. PICK s, w : Rune(b, s, w) /\ s <= q /\ q < s + w
      BY <1>1, <2>1, RuneAt
    <2>3. s \in 1..n /\ w \in 1..4 /\ RuneStart(b[s])
      BY <1>1, <2>2 DEF Rune
    <2>4. ~(s \in (q - 2)..q)
      <3>1. SUFFICES ASSUME s \in (q - 2)..q PROVE FALSE
        OBVIOUS
      <3>2. PICK j : j = s - p /\ j \in (m - 2)..m /\ j \in 1..m /\ p + j = s
        BY <1>3, <2>3, <3>1
      <3>3. QED
        BY <1>4, <1>5, <2>3, <3>2
    <2>5. s + w - 1 = q
      BY <2>2, <2>3, <2>4
    <2>6. QED
      BY <2>2, <2>5, RuneEnds
  <1>6. ASSUME NEW s \in (m - 2)..m, Complete(c, s), \A j \in (s + 1)..m : ~RuneStart(c[j])
        PROVE  Bound(b, q)
    <2>1. s \in 1..Len(c)
      BY <1>3, <1>4
    <2>2. PICK w : Rune(c, s, w)
      BY <1>4, <1>6, <2>1, RuneIs
    <2>3. /\ s \in 1..m /\ w \in 1..4 /\ w = Width[c[s]] /\ RuneStart(c[s])
          /\ s + w - 1 <= m /\ \A j \in (s + 1)..(s + w - 1) : c[j] = "C"
      BY <1>4, <2>2 DEF Rune
    <2>4. PICK t : t = p + s /\ t \in 1..n /\ t + w - 1 <= q
      BY <1>1, <1>3, <2>3
    <2>5. \A j \in (t + 1)..(t + w - 1) : b[j] = "C"
      <3> TAKE j \in (t + 1)..(t + w - 1)
      <3>1. PICK i : i = j - p /\ i \in (s + 1)..(s + w - 1) /\ i \in 1..m /\ p + i = j
        <4>1. t = p + s /\ p \in Nat /\ s \in Nat /\ w \in Nat /\ m \in Nat /\ s >= 1 /\ s + w - 1 <= m
          BY <1>3, <2>3, <2>4
        <4>2. j - p \in (s + 1)..(s + w - 1) /\ j - p \in 1..m /\ p + (j - p) = j
          BY <4>1
        <4>3. QED
          BY <4>2
      <3>2. QED
        BY <1>4, <2>3, <3>1
    <2>6. b[t] = c[s]
      BY <1>4, <2>3, <2>4
    <2>7. Rune(b, t, w)
      BY <1>1, <2>3, <2>4, <2>5, <2>6 DEF Rune
    <2>8. Bound(b, t + w - 1)
      BY <2>7, RuneEnds
    <2>9. t + w - 1 = q
      <3>1. SUFFICES ASSUME t + w - 1 < q PROVE FALSE
        BY <2>3, <2>4
      <3>2. RuneStart(b[(t + w - 1) + 1])
        BY <2>3, <2>4, <2>8, <3>1 DEF Bound
      <3>a. s \in Nat /\ w \in Nat /\ w >= 1 /\ t \in Nat
        <4>1. s \in 1..m /\ w \in 1..4 /\ t \in 1..n
          BY Zenon, <2>3, <2>4
        <4>2. s \in Nat /\ w \in Nat /\ w >= 1 /\ t \in Nat
          BY <4>1
        <4>3. QED
          BY <4>2
      <3>b. s + w \in (s + 1)..m /\ s + w \in 1..m /\ p + (s + w) = (t + w - 1) + 1
        BY <1>3, <2>4, <3>1, <3>a
      <3>3. PICK j : j = s + w /\ j \in (s + 1)..m /\ j \in 1..m /\ p + j = (t + w - 1) + 1
        BY <3>b
      <3>4. QED
        BY <1>4, <1>6, <3>2, <3>3
    <2>10. QED
      BY <2>8, <2>9
  <1>7. QED
    BY <1>2, <1>4, <1>5, <1>6 DEF Ending

\* A window is a stretch from its offset on, not empty unless the content
\* ends there, and of a text it ends between two runes.
LEMMA WindowIs ==
    ASSUME NEW b \in Seq(Bytes), NEW offset \in Nat, NEW window, window = Paginate(b, offset)
    PROVE  /\ window.total = Len(b)
           /\ offset >= Len(b) => window.content = <<>> /\ window.next = Len(b)
           /\ offset < Len(b) =>
                /\ window.next \in (offset + 1)..Len(b)
                /\ window.content = SubSeq(b, offset + 1, window.next)
                /\ IsText(b) => Bound(b, window.next)
  <1>1. PICK n \in Nat : n = Len(b)
    OBVIOUS
  <1>2. PICK rest : rest = SubSeq(b, offset + 1, n)
    OBVIOUS
  <1>3. PICK shown : shown = IF Len(rest) <= MaxWindow THEN rest ELSE Cut(SubSeq(rest, 1, MaxWindow))
    OBVIOUS
  <1>4. /\ window.total = n /\ window.content = shown
        /\ window.next = IF offset >= n THEN n ELSE offset + Len(shown)
    BY <1>1, <1>2, <1>3 DEF Paginate
  <1>5. MaxWindow \in Nat /\ MaxWindow >= 4
    BY WindowAssumption
  <1>6. CASE offset >= n
    <2>1. rest = <<>> /\ Len(rest) = 0
      BY <1>1, <1>2, <1>6, SubSeqEmpty
    <2>2. shown = <<>>
      BY <1>3, <1>5, <2>1
    <2>3. QED
      BY <1>1, <1>4, <1>6, <2>2
  <1>7. CASE offset < n
    <2>1. rest \in Seq(Bytes) /\ Len(rest) = n - offset
      BY <1>1, <1>2, <1>7
    <2>2. CASE Len(rest) <= MaxWindow
      <3>1. window.next = n /\ window.content = SubSeq(b, offset + 1, n)
        BY <1>2, <1>3, <1>4, <1>7, <2>1, <2>2
      <3>2. Bound(b, n)
        BY <1>1 DEF Bound
      <3>3. n \in (offset + 1)..n /\ ~(offset >= n)
        BY <1>7
      <3>4. QED
        BY Zenon, <1>1, <1>4, <3>1, <3>2, <3>3
    <2>3. CASE Len(rest) > MaxWindow
      <3>1. PICK q \in Nat : q = offset + MaxWindow
        BY <1>5
      <3>2. q <= n /\ offset + 4 <= q
        BY <1>5, <2>1, <2>3, <3>1
      <3>3. PICK c : c = SubSeq(rest, 1, MaxWindow)
        OBVIOUS
      <3>4. c = SubSeq(b, offset + 1, q)
        BY <1>1, <1>2, <1>5, <1>7, <3>1, <3>2, <3>3
      <3>5. c \in Seq(Bytes) /\ Len(c) = MaxWindow /\ \A i \in 1..MaxWindow : c[i] = b[offset + i]
        BY <1>1, <1>5, <3>1, <3>2, <3>4
      <3>6. PICK k : CutsAt(c, k)
        BY <1>5, <3>5, CutIs
      <3>7. /\ k \in 1..MaxWindow /\ Cut(c) = SubSeq(c, 1, k)
            /\ k < MaxWindow => RuneStart(c[k + 1])
            /\ k = MaxWindow => Ending(c)
        BY <3>5, <3>6 DEF CutsAt
      <3>8. shown = SubSeq(c, 1, k) /\ Len(shown) = k
        BY <1>3, <1>5, <2>1, <2>3, <3>3, <3>5, <3>7
      <3>9. window.next = offset + k
        <4>1. ~(offset >= n)
          BY <1>7
        <4>2. QED
          BY <1>4, <3>8, <4>1
      <3>10. shown = SubSeq(b, offset + 1, offset + k)
        BY <1>1, <1>5, <3>1, <3>2, <3>4, <3>7, <3>8
      <3>11. offset + k \in (offset + 1)..n
        <4>1. k \in Nat /\ 1 <= k /\ k <= MaxWindow
          BY <1>5, <3>7
        <4>2. QED
          BY <1>5, <3>1, <3>2, <4>1
      <3>12. ASSUME IsText(b) PROVE Bound(b, offset + k)
        <4>1. CASE k < MaxWindow
          <5>1. k + 1 \in 1..MaxWindow /\ offset + (k + 1) = (offset + k) + 1 /\ offset + k \in 0..n
            BY <1>5, <3>7, <3>11, <4>1
          <5>2. RuneStart(b[(offset + k) + 1])
            BY <3>5, <3>7, <4>1, <5>1
          <5>3. QED
            BY <1>1, <5>1, <5>2 DEF Bound
        <4>2. CASE k = MaxWindow
          <5>1. Ending(SubSeq(b, offset + 1, q)) /\ q = offset + k
            BY <3>1, <3>4, <3>7, <4>2
          <5>2. q <= Len(b) /\ offset + 4 <= q
            BY <1>1, <3>2
          <5>3. Bound(b, q)
            BY <3>12, <5>1, <5>2, EndingIsBound
          <5>4. QED
            BY <5>1, <5>3
        <4>3. QED
          BY <1>5, <3>7, <4>1, <4>2
      <3>13. ~(offset >= n)
        BY <1>7
      <3>14. QED
        BY Zenon, <1>1, <1>4, <3>9, <3>10, <3>11, <3>12, <3>13
    <2>4. QED
      BY <1>5, <2>1, <2>2, <2>3
  <1>8. QED
    BY <1>1, <1>6, <1>7

-----------------------------------------------------------------------------
(* Groups, of one kind of source *)

GroupOf(k, src, position) ==
    IF k = "sections"
    THEN Joined(SubSeq(src, position + 1, GroupEnd(src, position, SectionLimit)))
    ELSE src[1]

NextOf(k, src, position) ==
    LET end == GroupEnd(src, position, SectionLimit)
    IN  IF k = "sections" /\ end < Len(src) THEN end ELSE 0

GroupsOf(k, src) ==
    IF k = "sections"
    THEN [i \in 1 .. (Len(src) + SectionLimit - 1) \div SectionLimit |->
             GroupOf(k, src, (i - 1) * SectionLimit)]
    ELSE src

AllOf(k, src) == FlattenSeq(GroupsOf(k, src))

\* Group g begins at position.
Begins(k, src, g, position) ==
    /\ g \in Nat
    /\ position = g * SectionLimit
    /\ k # "sections" => g = 0
    /\ position > 0 => position < Len(src)

\* How much there is before it.
Before(k, src, g) == Len(FlatTo(GroupsOf(k, src), g))

-----------------------------------------------------------------------------
(* A read *)

\* What was read is a stretch, and the cursor points to its end.
Reading(k, src, position, offset, from, text) ==
    LET all == AllOf(k, src)
        end == from + Len(text)
    IN  /\ src \in Contents[k]
        /\ end <= Len(all)
        /\ text = SubSeq(all, from + 1, end)
        /\ IsText(all) => Bound(all, end)
        /\ position > 0 \/ offset > 0
        /\ IF k = "list"
           THEN position < Len(src) /\ offset = 0 /\ Len(FlatTo(src, position)) = end
           ELSE \E g \in 0..Len(src) :
                    /\ Begins(k, src, g, position)
                    /\ Before(k, src, g) + offset = end
                    /\ offset < Len(GroupOf(k, src, position))
                    /\ IsText(all) => RuneStart(GroupOf(k, src, position)[offset + 1])

LimitIs == CASE kind = "list"     -> cursor.limit \in 1..ListMax
             [] kind = "sections" -> cursor.limit = SectionLimit
             [] OTHER             -> cursor.limit = MaxWindow

ReadInv ==
    /\ ReadTypeOK
    /\ source \in Contents[kind]
    /\ pc = "idle" => ~resuming
    /\ pc \in {"asked", "answered"} => LimitIs
    /\ pc \in {"idle", "asked"} /\ ~resuming =>
          received = <<>> /\ cursor.position = 0 /\ cursor.offset = start /\ (kind = "list" => start = 0)
    /\ pc = "answered" \/ (pc = "asked" /\ resuming) =>
          /\ cursor.snapshot = first
          /\ Reading(kind, first, cursor.position, cursor.offset, start, received)
    /\ pc = "complete" =>
          /\ first \in Contents[kind]
          /\ start + Len(received) = Len(AllOf(kind, first))
          /\ received = SubSeq(AllOf(kind, first), start + 1, start + Len(received))
    /\ pc = "refused" => ~IsText(AllOf(kind, source))
    /\ pc = "restart" => source # first

-----------------------------------------------------------------------------
(* Facts about groups *)

LEMMA SourceIs ==
    ASSUME NEW k \in Kinds, NEW src \in Contents[k]
    PROVE  /\ src \in Seq(Seq(Bytes))
           /\ src # NoSnapshot
           /\ k \in {"sections", "list"} => \A i \in 1..Len(src) : src[i] # <<>> /\ RuneStart(src[i][1])
           /\ k \notin {"sections", "list"} => Len(src) = 1
  <1>1. src \in Seq(Seq(Bytes))
    BY ContentsAssumption
  <1>2. DOMAIN src = 1..Len(src)
    BY <1>1
  <1>3. src # NoSnapshot
    <2>1. SUFFICES ASSUME src = <<<<"none">>>> PROVE FALSE
      BY DEF NoSnapshot
    <2>2. src[1] \in Seq(Bytes) /\ src[1] = <<"none">>
      BY <1>1, <2>1
    <2>3. "none" \in Bytes
      BY <2>2
    <2>4. QED
      BY <2>3 DEF Bytes, Width
  <1>4. QED
    BY <1>1, <1>2, <1>3, ContentsAssumption

\* Pieces that begin where a rune starts make a group that does.
LEMMA JoinedIs ==
    ASSUME NEW pieces \in Seq(Seq(Bytes)),
           \A i \in 1..Len(pieces) : pieces[i] # <<>> /\ RuneStart(pieces[i][1])
    PROVE  /\ Joined(pieces) \in Seq(Bytes)
           /\ pieces = <<>> => Joined(pieces) = <<>>
           /\ pieces # <<>> => Len(Joined(pieces)) > 0 /\ RuneStart(Joined(pieces)[1])
  <1>1. PICK n \in Nat : n = Len(pieces)
    OBVIOUS
  <1>2. DOMAIN pieces = 1..n
    BY <1>1
  <1>3. PICK parts : parts = [i \in 1..n |-> IF i = 1 THEN pieces[i] ELSE <<"n">> \o pieces[i]]
    OBVIOUS
  <1>4. "n" \in Bytes
    BY DEF Bytes, Width
  <1>5. ASSUME NEW i \in 1..n PROVE parts[i] \in Seq(Bytes)
    <2>1. pieces[i] \in Seq(Bytes)
      BY <1>1
    <2>2. <<"n">> \in Seq(Bytes)
      BY <1>4
    <2>3. <<"n">> \o pieces[i] \in Seq(Bytes)
      BY <2>1, <2>2
    <2>4. QED
      BY <1>3, <2>1, <2>3
  <1>6. parts \in Seq(Seq(Bytes)) /\ Len(parts) = n
    <2>1. parts \in [1..n -> Seq(Bytes)]
      BY <1>3, <1>5
    <2>2. QED
      BY <2>1
  <1>7. Joined(pieces) = FlattenSeq(parts)
    BY <1>2, <1>3 DEF Joined
  <1>8. Joined(pieces) \in Seq(Bytes)
    BY <1>6, <1>7, FlattenType
  <1>9. CASE n = 0
    <2>1. pieces = <<>> /\ parts = <<>>
      BY <1>1, <1>6, <1>9, EmptySeq
    <2>2. QED
      BY <1>7, <1>8, <2>1, FlattenEmpty
  <1>10. CASE n > 0
    <2>1. 1 \in 1..n /\ parts[1] = pieces[1]
      BY <1>3, <1>10
    <2>2. pieces # <<>> /\ parts # <<>>
      BY <1>1, <1>6, <1>10
    <2>3. parts[1] # <<>> /\ RuneStart(parts[1][1])
      BY <1>1, <2>1
    <2>4. Len(FlattenSeq(parts)) > 0 /\ FlattenSeq(parts)[1] = parts[1][1]
      BY <1>6, <2>2, <2>3, FlattenHead
    <2>5. QED
      BY <1>7, <1>8, <2>2, <2>3, <2>4
  <1>11. n = 0 \/ n > 0
    OBVIOUS
  <1>12. QED
    BY Zenon, <1>9, <1>10, <1>11

\* Where a group of sections ends.
LEMMA GroupEndIs ==
    ASSUME NEW src \in Seq(Seq(Bytes)), NEW position \in Nat, position <= Len(src), NEW limit \in Nat
    PROVE  /\ GroupEnd(src, position, limit) \in position..Len(src)
           /\ position + limit < Len(src) => GroupEnd(src, position, limit) = position + limit
           /\ ~(position + limit < Len(src)) => GroupEnd(src, position, limit) = Len(src)
  <1>1. PICK n \in Nat : n = Len(src)
    OBVIOUS
  <1>2. QED
    BY <1>1 DEF GroupEnd, Least

\* A group of sections is text of its own.
LEMMA SectionsAre ==
    ASSUME "sections" \in Kinds, NEW src \in Contents["sections"], NEW position \in Nat, position <= Len(src)
    PROVE  /\ GroupOf("sections", src, position) \in Seq(Bytes)
           /\ position < Len(src) =>
                 /\ Len(GroupOf("sections", src, position)) > 0
                 /\ RuneStart(GroupOf("sections", src, position)[1])
           /\ position = Len(src) => GroupOf("sections", src, position) = <<>>
  <1>1. PICK n \in Nat : n = Len(src)
    BY SourceIs
  <1>2. src \in Seq(Seq(Bytes)) /\ \A i \in 1..n : src[i] # <<>> /\ RuneStart(src[i][1])
    BY <1>1, SourceIs
  <1>3. SectionLimit \in Nat /\ SectionLimit > 0
    BY LimitsAssumption
  <1>4. PICK end : end = GroupEnd(src, position, SectionLimit)
    OBVIOUS
  <1>5. end \in position..n /\ (position < n => end > position)
    <2>1. position <= Len(src) /\ src \in Seq(Seq(Bytes))
      BY <1>1, <1>2
    <2>2. /\ GroupEnd(src, position, SectionLimit) \in position..Len(src)
          /\ position + SectionLimit < Len(src) => GroupEnd(src, position, SectionLimit) = position + SectionLimit
          /\ ~(position + SectionLimit < Len(src)) => GroupEnd(src, position, SectionLimit) = Len(src)
      BY <1>3, <2>1, GroupEndIs
    <2>3. /\ end \in position..n
          /\ position + SectionLimit < n => end = position + SectionLimit
          /\ ~(position + SectionLimit < n) => end = n
      BY Zenon, <1>1, <1>4, <2>2
    <2>4. n \in Nat /\ position \in Nat
      BY <1>1
    <2>5. QED
      BY <1>3, <2>3, <2>4
  <1>6. PICK pieces : pieces = SubSeq(src, position + 1, end)
    OBVIOUS
  <1>7. pieces \in Seq(Seq(Bytes)) /\ Len(pieces) = end - position
    BY <1>1, <1>2, <1>5, <1>6
  <1>8. ASSUME NEW i \in 1..Len(pieces) PROVE pieces[i] # <<>> /\ RuneStart(pieces[i][1])
    <2>1. pieces[i] = src[position + i] /\ position + i \in 1..n
      BY <1>1, <1>2, <1>5, <1>6, <1>7
    <2>2. QED
      BY <1>2, <2>1
  <1>9. GroupOf("sections", src, position) = Joined(pieces)
    BY <1>4, <1>6 DEF GroupOf
  <1>10. position < n => pieces # <<>>
    BY <1>5, <1>7
  <1>11. position = n => pieces = <<>>
    BY <1>5, <1>7, EmptySeq
  <1>12. QED
    BY <1>1, <1>7, <1>8, <1>9, <1>10, <1>11, JoinedIs

\* How many groups there are.
LEMMA GroupCount ==
    ASSUME NEW n \in Nat
    PROVE  /\ (n + SectionLimit - 1) \div SectionLimit \in Nat
           /\ \A g \in Nat : g < (n + SectionLimit - 1) \div SectionLimit <=> g * SectionLimit < n
           /\ n = 0 => (n + SectionLimit - 1) \div SectionLimit = 0
  <1>1. PICK L \in Nat : L = SectionLimit /\ L > 0
    BY LimitsAssumption
  <1>2. (n + L - 1) \div L \in Nat
    BY <1>1
  <1>3. \A g \in Nat : g < (n + L - 1) \div L <=> g * L < n
    BY <1>1
  <1>4. n = 0 => (n + L - 1) \div L = 0
    <2>1. SUFFICES ASSUME n = 0, 0 < (n + L - 1) \div L PROVE FALSE
      BY <1>2
    <2>2. 0 * L < n
      BY <1>3, <2>1
    <2>3. QED
      BY <1>1, <2>1, <2>2
  <1>5. QED
    BY <1>1, <1>2, <1>3, <1>4

LEMMA GroupsAre ==
    ASSUME "sections" \in Kinds, NEW src \in Contents["sections"]
    PROVE  /\ GroupsOf("sections", src) \in Seq(Seq(Bytes))
           /\ Len(GroupsOf("sections", src)) = (Len(src) + SectionLimit - 1) \div SectionLimit
           /\ \A g \in Nat : g * SectionLimit < Len(src) =>
                  GroupsOf("sections", src)[g + 1] = GroupOf("sections", src, g * SectionLimit)
  <1>1. PICK n \in Nat : n = Len(src)
    BY SourceIs
  <1>2. PICK L \in Nat : L = SectionLimit /\ L > 0
    BY LimitsAssumption
  <1>3. PICK m \in Nat : m = (n + L - 1) \div L /\ \A g \in Nat : g < m <=> g * L < n
    BY <1>2, GroupCount
  <1>4. PICK groups : groups = [i \in 1..m |-> GroupOf("sections", src, (i - 1) * L)]
    OBVIOUS
  <1>5. GroupsOf("sections", src) = groups
    BY <1>1, <1>2, <1>3, <1>4 DEF GroupsOf
  <1>6. ASSUME NEW i \in 1..m PROVE groups[i] \in Seq(Bytes)
    <2>1. PICK g \in Nat : g = i - 1 /\ g < m
      OBVIOUS
    <2>2. PICK position \in Nat : position = g * L
      BY <1>2
    <2>3. position <= n
      BY <1>3, <2>1, <2>2
    <2>4. GroupOf("sections", src, position) \in Seq(Bytes)
      BY <1>1, <2>3, SectionsAre
    <2>5. QED
      BY <1>4, <2>1, <2>2, <2>4
  <1>7. groups \in Seq(Seq(Bytes)) /\ Len(groups) = m
    <2>1. groups \in [1..m -> Seq(Bytes)]
      BY <1>4, <1>6
    <2>2. QED
      BY <2>1
  <1>8. ASSUME NEW g \in Nat, g * L < n PROVE groups[g + 1] = GroupOf("sections", src, g * L)
    <2>1. g < m
      BY <1>3, <1>8
    <2>2. g + 1 \in 1..m /\ (g + 1) - 1 = g
      BY <2>1
    <2>3. QED
      BY <1>4, <2>2
  <1>9. QED
    BY <1>1, <1>2, <1>3, <1>5, <1>7, <1>8

\* A source is what its groups make.
LEMMA AllIs ==
    ASSUME NEW k \in Kinds, NEW src \in Contents[k]
    PROVE  GroupsOf(k, src) \in Seq(Seq(Bytes)) /\ AllOf(k, src) \in Seq(Bytes)
  <1>1. GroupsOf(k, src) \in Seq(Seq(Bytes))
    <2>1. CASE k = "sections"
      BY <2>1, GroupsAre
    <2>2. CASE k # "sections"
      BY <2>2, SourceIs DEF GroupsOf
    <2>3. QED
      BY <2>1, <2>2
  <1>2. AllOf(k, src) \in Seq(Bytes)
    BY <1>1, FlattenType DEF AllOf
  <1>3. QED
    BY <1>1, <1>2

\* A group is a stretch of the whole, and the next begins where it ends.
GroupLies(k, src, g, position) ==
    LET all   == AllOf(k, src)
        group == GroupOf(k, src, position)
        from  == Before(k, src, g)
        next  == NextOf(k, src, position)
    IN  /\ group \in Seq(Bytes)
        /\ from \in Nat /\ from + Len(group) <= Len(all)
        /\ group = SubSeq(all, from + 1, from + Len(group))
        /\ next = 0 => from + Len(group) = Len(all)
        /\ next # 0 => /\ Begins(k, src, g + 1, next) /\ next > 0
                       /\ Before(k, src, g + 1) = from + Len(group)
                       /\ Len(group) > 0
                       /\ Len(GroupOf(k, src, next)) > 0
                       /\ RuneStart(GroupOf(k, src, next)[1])
                       /\ RuneStart(all[from + Len(group) + 1])
                       /\ from + Len(group) < Len(all)

\* A group is one of the groups.
OneGroup(groups, g) ==
    LET all  == FlattenSeq(groups)
        from == Len(FlatTo(groups, g))
    IN  /\ groups[g + 1] \in Seq(Bytes) /\ from \in Nat
        /\ from + Len(groups[g + 1]) <= Len(all)
        /\ groups[g + 1] = SubSeq(all, from + 1, from + Len(groups[g + 1]))
        /\ Len(FlatTo(groups, g + 1)) = from + Len(groups[g + 1])
        /\ g + 1 = Len(groups) => from + Len(groups[g + 1]) = Len(all)

LEMMA OneOfGroups ==
    ASSUME NEW groups \in Seq(Seq(Bytes)), NEW g \in Nat, g < Len(groups)
    PROVE  OneGroup(groups, g)
  <1>1. g \in 0..Len(groups) /\ g + 1 \in g..Len(groups) /\ g + 1 \in 1..Len(groups) /\ (g + 1) - 1 = g
    OBVIOUS
  <1>2. PICK all : all = FlattenSeq(groups)
    OBVIOUS
  <1>3. PICK from : from = Len(FlatTo(groups, g))
    OBVIOUS
  <1>4. PICK to : to = Len(FlatTo(groups, g + 1))
    OBVIOUS
  <1>5. PICK group \in Seq(Bytes) : group = groups[g + 1]
    BY <1>1
  <1>6. SubSeq(groups, g + 1, g + 1) = <<group>>
    BY <1>1, <1>5, SubSeqOne
  <1>7. FlattenSeq(SubSeq(groups, g + 1, g + 1)) = group
    BY <1>6, FlattenOne
  <1>8. /\ all \in Seq(Bytes) /\ from \in 0..to /\ to \in 0..Len(all)
        /\ group = SubSeq(all, from + 1, to) /\ Len(group) = to - from
    <2>1. FlatCut(Bytes, groups, g, g + 1)
      BY <1>1, FlattenCut
    <2>2. QED
      BY Zenon, <1>2, <1>3, <1>4, <1>7, <2>1 DEF FlatCut
  <1>9. from \in Nat /\ to = from + Len(group) /\ to <= Len(all)
    BY <1>8
  <1>10. g + 1 = Len(groups) => to = Len(all)
    BY <1>2, <1>4, FlatSteps
  <1>11. QED
    BY <1>2, <1>3, <1>4, <1>5, <1>8, <1>9, <1>10 DEF OneGroup

LEMMA GroupIs ==
    ASSUME NEW k \in Kinds \ {"list"}, NEW src \in Contents[k], NEW g, NEW position, Begins(k, src, g, position)
    PROVE  GroupLies(k, src, g, position)
  <1>1. PICK L \in Nat : L = SectionLimit /\ L > 0
    BY LimitsAssumption
  <1>2. PICK all : all = AllOf(k, src)
    OBVIOUS
  <1>3. PICK group : group = GroupOf(k, src, position)
    OBVIOUS
  <1>4. PICK groups \in Seq(Seq(Bytes)) : groups = GroupsOf(k, src)
    BY AllIs
  <1>5. PICK from : from = Before(k, src, g)
    OBVIOUS
  <1>6. PICK next : next = NextOf(k, src, position)
    OBVIOUS
  <1>7. all \in Seq(Bytes) /\ all = FlattenSeq(groups) /\ from = Len(FlatTo(groups, g))
    BY <1>2, <1>4, <1>5, AllIs DEF AllOf, Before
  <1>8. g \in Nat /\ position = g * L /\ position \in Nat
    BY <1>1 DEF Begins
  <1>9. CASE k # "sections"
    <2>1. groups = src /\ Len(groups) = 1 /\ g = 0 /\ group = groups[1] /\ next = 0
      BY <1>3, <1>4, <1>6, <1>9, SourceIs DEF GroupsOf, GroupOf, NextOf, Begins
    <2>2. g < Len(groups) /\ g + 1 = Len(groups) /\ g + 1 = 1
      BY <2>1
    <2>3. /\ groups[g + 1] \in Seq(Bytes) /\ from \in Nat
          /\ from + Len(groups[g + 1]) <= Len(all)
          /\ groups[g + 1] = SubSeq(all, from + 1, from + Len(groups[g + 1]))
          /\ from + Len(groups[g + 1]) = Len(all)
      BY <1>7, <1>8, <2>2, OneOfGroups DEF OneGroup
    <2>4. QED
      BY <1>2, <1>3, <1>5, <1>6, <2>1, <2>2, <2>3 DEF GroupLies
  <1>10. CASE k = "sections"
    <2>1. "sections" \in Kinds /\ src \in Contents["sections"]
      BY <1>10
    <2>2. PICK n \in Nat : n = Len(src) /\ src \in Seq(Seq(Bytes))
      BY <2>1, SourceIs
    <2>3. /\ Len(groups) \in Nat
          /\ \A h \in Nat : h < Len(groups) <=> h * L < n
          /\ n = 0 => Len(groups) = 0
          /\ \A h \in Nat : h * L < n => groups[h + 1] = GroupOf("sections", src, h * L)
      <3>1. /\ groups = GroupsOf("sections", src)
            /\ Len(groups) = (n + SectionLimit - 1) \div SectionLimit
            /\ \A h \in Nat : h * SectionLimit < n =>
                   groups[h + 1] = GroupOf("sections", src, h * SectionLimit)
        BY <1>4, <1>10, <2>1, <2>2, GroupsAre
      <3>2. PICK m : m = (n + SectionLimit - 1) \div SectionLimit
        OBVIOUS
      <3>3. m \in Nat /\ (\A h \in Nat : h < m <=> h * SectionLimit < n) /\ (n = 0 => m = 0)
        BY <3>2, GroupCount
      <3>4. QED
        BY <1>1, <3>1, <3>2, <3>3
    <2>4. CASE position < n
      <3>1. g < Len(groups) /\ groups[g + 1] = group
        BY <1>3, <1>8, <1>10, <2>3, <2>4
      <3>2. /\ group \in Seq(Bytes) /\ from \in Nat
            /\ from + Len(group) <= Len(all)
            /\ group = SubSeq(all, from + 1, from + Len(group))
            /\ Len(FlatTo(groups, g + 1)) = from + Len(group)
            /\ g + 1 = Len(groups) => from + Len(group) = Len(all)
        BY <1>7, <1>8, <3>1, OneOfGroups DEF OneGroup
      <3>3. Len(group) > 0
        <4>1. position \in Nat /\ position <= Len(src) /\ position < Len(src)
          BY <1>8, <2>2, <2>4
        <4>2. Len(GroupOf("sections", src, position)) > 0
          BY <2>1, <4>1, SectionsAre
        <4>3. QED
          BY <1>3, <1>10, <4>2
      <3>4. (g + 1) * L = position + L /\ g + 1 \in Nat
        <4>1. g \in Nat /\ L \in Nat
          BY <1>1, <1>8
        <4>2. (g + 1) * L = g * L + L
          BY <4>1
        <4>3. QED
          BY <1>8, <4>1, <4>2
      <3>5. PICK end : end = GroupEnd(src, position, SectionLimit)
        OBVIOUS
      <3>6. /\ position + L < n => end = position + L
            /\ ~(position + L < n) => end = n
        <4>1. position <= Len(src) /\ L \in Nat /\ SectionLimit = L /\ src \in Seq(Seq(Bytes))
          BY <1>1, <1>8, <2>2, <2>4
        <4>2. /\ position + L < Len(src) => GroupEnd(src, position, L) = position + L
              /\ ~(position + L < Len(src)) => GroupEnd(src, position, L) = Len(src)
          BY <1>8, <4>1, GroupEndIs
        <4>3. QED
          BY <2>2, <3>5, <4>1, <4>2
      <3>7. next = IF end < n THEN end ELSE 0
        BY <1>6, <1>10, <2>2, <3>5 DEF NextOf
      <3>8. CASE position + L < n
        <4>1. next = position + L /\ next > 0 /\ next \in Nat /\ next < n /\ next = (g + 1) * L
          BY <1>1, <1>8, <3>4, <3>6, <3>7, <3>8
        <4>2. g + 1 < Len(groups) /\ groups[(g + 1) + 1] = GroupOf("sections", src, next)
          BY <2>3, <3>4, <4>1
        <4>3. PICK following : following = GroupOf("sections", src, next)
          OBVIOUS
        <4>4. following \in Seq(Bytes) /\ Len(following) > 0 /\ RuneStart(following[1])
          BY <2>1, <2>2, <4>1, <4>3, SectionsAre
        <4>5. PICK to : to = from + Len(group) /\ to \in Nat
          BY <3>2
        <4>6. to + Len(following) <= Len(all) /\ following = SubSeq(all, to + 1, to + Len(following))
          <5>1. g + 1 \in Nat /\ groups \in Seq(Seq(Bytes))
            BY <3>4
          <5>2. OneGroup(groups, g + 1)
            BY <4>2, <5>1, OneOfGroups
          <5>3. Len(FlatTo(groups, g + 1)) = to
            BY <3>2, <4>5
          <5>4. QED
            BY Zenon, <1>7, <4>2, <4>3, <5>2, <5>3 DEF OneGroup
        <4>7. to < Len(all) /\ all[to + 1] = following[1]
          <5>1. PICK m \in Nat : m = Len(following) /\ m > 0
            BY <4>4
          <5>2. PICK l \in Nat : l = Len(all)
            BY <1>7
          <5>3. to \in Nat /\ to + m <= l
            BY <4>5, <4>6, <5>1, <5>2
          <5>4. SubSeq(all, to + 1, to + m)[1] = all[to + 1]
            BY <1>7, <5>1, <5>2, <5>3
          <5>5. following = SubSeq(all, to + 1, to + m)
            BY Zenon, <4>6, <5>1
          <5>6. to < l
            BY <5>1, <5>2, <5>3
          <5>7. QED
            BY Zenon, <5>2, <5>4, <5>5, <5>6
        <4>8. Begins(k, src, g + 1, next)
          BY <1>1, <1>10, <2>2, <3>4, <4>1 DEF Begins
        <4>9. Before(k, src, g + 1) = to
          BY <1>4, <3>2, <4>5 DEF Before
        <4>10. QED
          <5>1. GroupOf(k, src, next) = following
            BY <1>10, <4>3
          <5>2. /\ from + Len(group) = to /\ next # 0 /\ next > 0 /\ Len(following) > 0
                /\ RuneStart(all[to + 1]) /\ to <= Len(all)
            BY <3>2, <4>1, <4>4, <4>5, <4>7
          <5>3. QED
            BY <1>2, <1>3, <1>5, <1>6, <3>2, <3>3, <4>4, <4>7, <4>8, <4>9, <5>1, <5>2, Zenon DEF GroupLies
      <3>9. CASE ~(position + L < n)
        <4>1. next = 0
          BY <3>6, <3>7, <3>9
        <4>2. ~(g + 1 < Len(groups))
          BY <2>3, <3>4, <3>9
        <4>3. g + 1 = Len(groups)
          BY <1>8, <2>3, <3>1, <4>2
        <4>4. QED
          BY <1>2, <1>3, <1>5, <1>6, <3>2, <4>1, <4>3 DEF GroupLies
      <3>10. QED
        BY <3>8, <3>9
    <2>5. CASE ~(position < n)
      <3>1. position = 0 /\ n = 0
        BY <1>8, <2>2, <2>5 DEF Begins
      <3>2. g = 0
        BY <1>1, <1>8, <3>1
      <3>3. group = <<>>
        <4>1. position \in Nat /\ position <= Len(src) /\ position = Len(src)
          BY <1>8, <2>2, <3>1
        <4>2. GroupOf("sections", src, position) = <<>>
          BY <2>1, <4>1, SectionsAre
        <4>3. QED
          BY <1>3, <1>10, <4>2
      <3>4. groups = <<>>
        BY <2>3, <3>1, EmptySeq
      <3>5. all = <<>> /\ from = 0
        <4>1. FlatTo(groups, 0) = <<>>
          BY FlatSteps
        <4>2. QED
          BY <1>7, <3>2, <3>4, <4>1, FlattenEmpty
      <3>6. GroupEnd(src, position, SectionLimit) = n
        <4>1. position <= Len(src) /\ L \in Nat /\ SectionLimit = L /\ src \in Seq(Seq(Bytes))
          BY <1>1, <1>8, <2>2, <3>1
        <4>2. ~(position + L < Len(src)) => GroupEnd(src, position, L) = Len(src)
          BY <1>8, <4>1, GroupEndIs
        <4>3. ~(position + L < Len(src))
          BY <1>1, <2>2, <3>1
        <4>4. QED
          BY <2>2, <4>1, <4>2, <4>3
      <3>7. next = 0
        BY <1>6, <2>2, <3>6 DEF NextOf
      <3>8. group \in Seq(Bytes) /\ Len(group) = 0 /\ Len(all) = 0 /\ SubSeq(all, 1, 0) = <<>>
        BY <1>7, <3>3, <3>5
      <3>9. QED
        BY <1>2, <1>3, <1>5, <1>6, <3>3, <3>5, <3>7, <3>8 DEF GroupLies
    <2>6. QED
      BY <2>4, <2>5
  <1>11. QED
    BY <1>9, <1>10

-----------------------------------------------------------------------------
(* What an answer adds *)

Adjoins(all, from, q, r) ==
    LET sum == SubSeq(all, from + 1, q) \o SubSeq(all, q + 1, r)
    IN  /\ sum \in Seq(Bytes)
        /\ sum = SubSeq(all, from + 1, r)
        /\ from + Len(sum) = r

LEMMA Grows ==
    ASSUME NEW all \in Seq(Bytes), NEW from \in Nat, NEW q \in Nat, NEW r \in Nat, from <= q, q <= r, r <= Len(all)
    PROVE  Adjoins(all, from, q, r)
  <1>1. PICK n \in Nat : n = Len(all)
    OBVIOUS
  <1>2. PICK text, more : text = SubSeq(all, from + 1, q) /\ more = SubSeq(all, q + 1, r)
    OBVIOUS
  <1>3. text \in Seq(Bytes) /\ more \in Seq(Bytes) /\ Len(more) = r - q /\ Len(text) = q - from
    BY <1>1, <1>2
  <1>4. text \o more = SubSeq(all, from + 1, r)
    <2>1. from + 1 \in 1..(Len(all) + 1) /\ q \in ((from + 1) - 1)..Len(all) /\ r \in q..Len(all)
      BY <1>1
    <2>2. QED
      BY <1>2, <2>1, ConcatAdjacentSubSeq
  <1>5. text \o more \in Seq(Bytes) /\ Len(text \o more) = Len(text) + Len(more)
    BY <1>3
  <1>6. QED
    BY <1>2, <1>3, <1>4, <1>5 DEF Adjoins

\* A group after the first begins where a rune starts, and the first at 0.
LEMMA GroupStarts ==
    ASSUME NEW k \in Kinds \ {"list"}, NEW src \in Contents[k], NEW g, NEW position, Begins(k, src, g, position)
    PROVE  /\ g = 0 => Before(k, src, g) = 0
           /\ g # 0 => RuneStart(GroupOf(k, src, position)[1]) /\ Len(GroupOf(k, src, position)) > 0
           /\ g \in 0..Len(src)
           /\ position \in Nat
  <1>1. PICK L \in Nat : L = SectionLimit /\ L > 0
    BY LimitsAssumption
  <1>2. PICK n \in Nat : n = Len(src)
    BY SourceIs
  <1>3. g \in Nat /\ position = g * L /\ position \in Nat /\ (position > 0 => position < n) /\ (k # "sections" => g = 0)
    BY <1>1, <1>2 DEF Begins
  <1>4. g = 0 => Before(k, src, g) = 0
    <2>1. FlatTo(GroupsOf(k, src), 0) = <<>>
      BY AllIs, FlatSteps
    <2>2. QED
      BY <2>1 DEF Before
  <1>5. g # 0 => position > 0 /\ position >= g
    <2>1. g # 0 => g >= 1
      BY <1>3
    <2>2. g * L >= g * 1
      BY <1>1, <1>3
    <2>3. QED
      BY <1>3, <2>1, <2>2
  <1>6. ASSUME g # 0
        PROVE  RuneStart(GroupOf(k, src, position)[1]) /\ Len(GroupOf(k, src, position)) > 0
    <2>1. k = "sections" /\ position \in Nat /\ position <= Len(src) /\ position < Len(src)
      BY <1>2, <1>3, <1>5, <1>6
    <2>2. "sections" \in Kinds /\ src \in Contents["sections"]
      BY <2>1
    <2>3. QED
      BY <2>1, <2>2, SectionsAre
  <1>7. g \in 0..n
    BY <1>3, <1>5
  <1>8. QED
    BY <1>2, <1>3, <1>4, <1>6, <1>7

\* In a text, a place between two runes of a group is one of the whole.
LEMMA GroupIsText ==
    ASSUME NEW k \in Kinds \ {"list"}, NEW src \in Contents[k], NEW g, NEW position, Begins(k, src, g, position),
           IsText(AllOf(k, src))
    PROVE  /\ IsText(GroupOf(k, src, position))
           /\ \A p : Bound(GroupOf(k, src, position), p) => Bound(AllOf(k, src), Before(k, src, g) + p)
  <1>1. PICK all \in Seq(Bytes) : all = AllOf(k, src)
    BY AllIs
  <1>2. PICK group : group = GroupOf(k, src, position)
    OBVIOUS
  <1>3. PICK from : from = Before(k, src, g)
    OBVIOUS
  <1>4. PICK next : next = NextOf(k, src, position)
    OBVIOUS
  <1>5. /\ group \in Seq(Bytes)
        /\ from \in Nat /\ from + Len(group) <= Len(all)
        /\ group = SubSeq(all, from + 1, from + Len(group))
        /\ next = 0 => from + Len(group) = Len(all)
        /\ next # 0 => RuneStart(all[from + Len(group) + 1]) /\ from + Len(group) < Len(all)
    BY <1>1, <1>2, <1>3, <1>4, GroupIs DEF GroupLies
  <1>6. PICK m \in Nat : m = Len(group)
    <2>1. group \in Seq(Bytes)
      BY <1>5
    <2>2. QED
      BY <2>1
  <1>7. PICK n \in Nat : n = Len(all)
    OBVIOUS
  <1>8. \A i \in 1..m : group[i] = all[from + i]
    BY <1>5, <1>6, <1>7
  <1>9. Bound(all, from)
    <2>1. CASE g = 0
      <3>1. from = 0 /\ SubSeq(all, 1, 0) = <<>>
        BY <1>3, <2>1, GroupStarts
      <3>2. IsText(<<>>)
        BY DEF IsText
      <3>3. 0 \in 0..Len(all) /\ IsText(SubSeq(all, 1, 0))
        <4>1. 0 \in 0..Len(all)
          OBVIOUS
        <4>2. QED
          BY Zenon, <3>1, <3>2, <4>1
      <3>4. Bound(all, 0)
        BY <1>1, <3>3, TextGoesOn
      <3>5. QED
        BY <3>1, <3>4
    <2>2. CASE g # 0
      <3>1. RuneStart(group[1]) /\ m > 0
        BY <1>2, <1>6, <2>2, GroupStarts
      <3>2. RuneStart(all[from + 1])
        BY <1>8, <3>1
      <3>3. QED
        BY <1>5, <1>6, <1>7, <3>2 DEF Bound
    <2>3. QED
      BY <2>1, <2>2
  <1>10. Bound(all, from + m)
    <2>1. next = 0 => from + m = n
      BY <1>5, <1>6, <1>7
    <2>2. next # 0 => RuneStart(all[(from + m) + 1])
      BY <1>5, <1>6
    <2>3. from + m \in 0..n
      BY <1>5, <1>6, <1>7
    <2>4. QED
      BY <1>7, <2>1, <2>2, <2>3 DEF Bound
  <1>11. IsText(group)
    <2>1. IsText(SubSeq(all, from + 1, from + m))
      <3>1. IsText(all) /\ from <= from + m
        BY <1>1, <1>5, <1>6
      <3>2. QED
        BY <1>9, <1>10, <3>1, TextCut
    <2>2. QED
      BY <1>5, <1>6, <2>1
  <1>12. ASSUME NEW p, Bound(group, p) PROVE Bound(all, from + p)
    <2>1. p \in 0..m /\ (p < m => RuneStart(group[p + 1]))
      BY <1>6, <1>12 DEF Bound
    <2>2. CASE p = m
      BY <1>10, <2>2
    <2>3. CASE p < m
      <3>1. p + 1 \in 1..m /\ from + (p + 1) = (from + p) + 1 /\ from + p \in 0..n
        BY <1>5, <1>6, <1>7, <2>1, <2>3
      <3>2. RuneStart(all[(from + p) + 1])
        BY <1>8, <2>1, <2>3, <3>1
      <3>3. QED
        BY <1>7, <3>1, <3>2 DEF Bound
    <2>4. QED
      BY <2>1, <2>2, <2>3
  <1>13. QED
    BY <1>1, <1>2, <1>3, <1>11, <1>12

\* What a window adds: a stretch of the whole, from where the last one ended.
WindowAdds(k, src, g, position, offset, window) ==
    LET all   == AllOf(k, src)
        group == GroupOf(k, src, position)
        from  == Before(k, src, g)
        q     == from + offset
        r     == q + Len(window.content)
        next  == NextOf(k, src, position)
    IN  /\ q \in Nat /\ r \in Nat /\ q <= r /\ r <= Len(all)
        /\ window.content = SubSeq(all, q + 1, r)
        /\ IsText(all) => Bound(all, r)
        /\ Truncated(window) => /\ Len(window.content) > 0
                                /\ window.next \in Nat /\ window.next > 0
                                /\ from + window.next = r
                                /\ window.next < Len(group)
                                /\ IsText(all) => RuneStart(group[window.next + 1])
        /\ ~Truncated(window) => /\ from + Len(group) = r
                                 /\ next # 0 => Len(window.content) > 0

LEMMA DocWindow ==
    ASSUME NEW k \in Kinds \ {"list"}, NEW src \in Contents[k], NEW g, NEW position, Begins(k, src, g, position),
           NEW offset \in Nat, NEW window, window = Paginate(GroupOf(k, src, position), offset),
           offset > 0 => window.content # <<>>
    PROVE  WindowAdds(k, src, g, position, offset, window)
  <1>1. PICK all \in Seq(Bytes) : all = AllOf(k, src)
    BY AllIs
  <1>2. PICK group : group = GroupOf(k, src, position)
    OBVIOUS
  <1>3. PICK from : from = Before(k, src, g)
    OBVIOUS
  <1>4. PICK following : following = NextOf(k, src, position)
    OBVIOUS
  <1>5. /\ group \in Seq(Bytes)
        /\ from \in Nat /\ from + Len(group) <= Len(all)
        /\ group = SubSeq(all, from + 1, from + Len(group))
        /\ following = 0 => from + Len(group) = Len(all)
        /\ following # 0 => Len(group) > 0
    BY <1>1, <1>2, <1>3, <1>4, GroupIs DEF GroupLies
  <1>6. PICK m \in Nat : m = Len(group)
    <2>1. group \in Seq(Bytes)
      BY <1>5
    <2>2. QED
      BY <2>1
  <1>7. PICK n \in Nat : n = Len(all) /\ from + m <= n
    <2>1. from + m <= Len(all) /\ Len(all) \in Nat
      BY <1>5, <1>6
    <2>2. QED
      BY <2>1
  <1>8. PICK content, next : content = window.content /\ next = window.next
    OBVIOUS
  <1>9. /\ window.total = m
        /\ offset >= m => content = <<>> /\ next = m
        /\ offset < m =>
              /\ next \in (offset + 1)..m
              /\ content = SubSeq(group, offset + 1, next)
              /\ IsText(group) => Bound(group, next)
    <2>1. group \in Seq(Bytes) /\ window = Paginate(group, offset)
      BY <1>2, <1>5
    <2>2. /\ window.total = Len(group)
          /\ offset >= Len(group) => window.content = <<>> /\ window.next = Len(group)
          /\ offset < Len(group) =>
                /\ window.next \in (offset + 1)..Len(group)
                /\ window.content = SubSeq(group, offset + 1, window.next)
                /\ IsText(group) => Bound(group, window.next)
      BY <2>1, WindowIs, Zenon
    <2>3. QED
      BY <1>6, <1>8, <2>2, Zenon
  <1>10. Truncated(window) <=> next < m
    BY <1>8, <1>9 DEF Truncated
  <1>11. PICK q \in Nat : q = from + offset
    BY <1>5
  <1>12. CASE offset >= m
    <2>1. content = <<>> /\ next = m /\ Len(content) = 0 /\ ~(next < m)
      BY <1>9, <1>12
    <2>2. offset = 0 /\ m = 0
      BY <1>6, <1>8, <1>12, <2>1
    <2>3. following = 0
      BY <1>4, <1>5, <1>6, <2>2
    <2>4. q = from /\ q = n
      BY <1>5, <1>6, <1>7, <1>11, <2>2, <2>3
    <2>5. SubSeq(all, q + 1, q) = <<>>
      BY <1>7, <2>4
    <2>6. Bound(all, q)
      BY <1>7, <2>4 DEF Bound
    <2>7. q + Len(content) = q
      BY <2>1
    <2>8. content = SubSeq(all, q + 1, q)
      BY <2>1, <2>5
    <2>9. from + m = q
      BY <1>5, <2>2, <2>4
    <2>10. ~Truncated(window)
      BY <1>10, <2>1
    <2>11. q <= Len(all) /\ q <= q
      BY <1>7, <2>4
    <2>12. QED
      BY <1>1, <1>2, <1>3, <1>4, <1>6, <1>8, <1>11, <2>3, <2>6, <2>7, <2>8, <2>9, <2>10, <2>11
         DEF WindowAdds
  <1>13. CASE offset < m
    <2>1. next \in (offset + 1)..m /\ content = SubSeq(group, offset + 1, next)
      BY <1>9, <1>13
    <2>2. next \in Nat /\ next > 0 /\ next <= m /\ offset < next
      BY <2>1
    <2>3. PICK r \in Nat : r = from + next
      BY <1>5, <2>2
    <2>4. q < r /\ r <= n
      BY <1>5, <1>7, <1>11, <2>2, <2>3
    <2>5. Len(content) = next - offset /\ Len(content) \in Nat
      BY <1>5, <1>6, <2>1, <2>2
    <2>6. q + Len(content) = r /\ Len(content) > 0
      BY <1>5, <1>11, <2>2, <2>3, <2>5
    <2>7. content = SubSeq(all, q + 1, r)
      <3>1. group = SubSeq(all, from + 1, from + m)
        BY <1>5, <1>6
      <3>2. SubSeq(SubSeq(all, from + 1, from + m), offset + 1, next) = SubSeq(all, q + 1, r)
        BY <1>5, <1>7, <1>11, <1>13, <2>2, <2>3, <2>4
      <3>3. QED
        BY <2>1, <3>1, <3>2
    <2>8. ASSUME IsText(all)
          PROVE  Bound(all, r) /\ (next < m => RuneStart(group[next + 1]))
      <3>1. IsText(group) /\ \A p : Bound(group, p) => Bound(all, from + p)
        BY <1>1, <1>2, <1>3, <2>8, GroupIsText
      <3>2. Bound(group, next)
        BY <1>9, <1>13, <3>1
      <3>3. next < m => RuneStart(group[next + 1])
        BY <1>6, <3>2 DEF Bound
      <3>4. QED
        BY <2>3, <3>1, <3>2, <3>3
    <2>9. ~(next < m) => from + m = r
      BY <1>5, <2>2, <2>3
    <2>10. q <= r /\ r <= Len(all)
      BY <1>7, <2>4
    <2>11. QED
      BY <1>1, <1>2, <1>3, <1>4, <1>6, <1>8, <1>10, <1>11, <2>2, <2>3, <2>6, <2>7, <2>8, <2>9, <2>10
         DEF WindowAdds
  <1>14. QED
    BY <1>6, <1>12, <1>13

\* An answer with a window continues a read, or completes it.
DocAnswer(k, src, position, window, next, from, text, sum) ==
    /\ sum \in Seq(Bytes)
    /\ Truncated(window) \/ next # 0 => Len(sum) > Len(text)
    /\ Truncated(window) =>
          /\ window.next \in Nat
          /\ Reading(k, src, position, window.next, from, sum)
    /\ ~Truncated(window) /\ next # 0 =>
          /\ next \in Nat /\ next > 0
          /\ Reading(k, src, next, 0, from, sum)
    /\ ~Truncated(window) /\ next = 0 =>
          /\ sum = SubSeq(AllOf(k, src), from + 1, from + Len(sum))
          /\ from + Len(sum) = Len(AllOf(k, src))

LEMMA DocReading ==
    ASSUME NEW k \in Kinds \ {"list"}, NEW src \in Contents[k], NEW g, NEW position, Begins(k, src, g, position),
           NEW offset \in Nat, NEW window, window = Paginate(GroupOf(k, src, position), offset),
           offset > 0 => window.content # <<>>,
           NEW from \in Nat, NEW text \in Seq(Bytes),
           from + Len(text) = Before(k, src, g) + offset,
           text = SubSeq(AllOf(k, src), from + 1, from + Len(text)),
           NEW next, next = NextOf(k, src, position)
    PROVE  DocAnswer(k, src, position, window, next, from, text, text \o window.content)
  <1>1. PICK all \in Seq(Bytes) : all = AllOf(k, src)
    BY AllIs
  <1>2. PICK group : group = GroupOf(k, src, position)
    OBVIOUS
  <1>3. PICK before : before = Before(k, src, g)
    OBVIOUS
  <1>4. PICK content, follows : content = window.content /\ follows = window.next
    OBVIOUS
  <1>5. PICK q, r : q = before + offset /\ r = q + Len(content)
    OBVIOUS
  <1>6. /\ q \in Nat /\ r \in Nat /\ q <= r /\ r <= Len(all)
        /\ content = SubSeq(all, q + 1, r)
        /\ IsText(all) => Bound(all, r)
        /\ Truncated(window) => /\ Len(content) > 0
                                /\ follows \in Nat /\ follows > 0
                                /\ before + follows = r
                                /\ follows < Len(group)
                                /\ IsText(all) => RuneStart(group[follows + 1])
        /\ ~Truncated(window) => /\ before + Len(group) = r
                                 /\ next # 0 => Len(content) > 0
    <2>1. WindowAdds(k, src, g, position, offset, window)
      BY DocWindow
    <2>2. QED
      BY Zenon, <1>1, <1>2, <1>3, <1>4, <1>5, <2>1 DEF WindowAdds
  <1>7. PICK sum : sum = text \o content
    OBVIOUS
  <1>8. sum \in Seq(Bytes) /\ sum = SubSeq(all, from + 1, r) /\ from + Len(sum) = r
    <2>1. from + Len(text) = q /\ text = SubSeq(all, from + 1, q) /\ Len(text) \in Nat
      BY <1>1, <1>3, <1>5
    <2>2. q \in Nat /\ r \in Nat /\ q <= r /\ r <= Len(all) /\ content = SubSeq(all, q + 1, r)
      BY <1>6
    <2>3. QED
      <3>1. from <= q
        BY <2>1, <2>2
      <3>2. PICK joined : joined = SubSeq(all, from + 1, q) \o SubSeq(all, q + 1, r)
        OBVIOUS
      <3>3. joined \in Seq(Bytes) /\ joined = SubSeq(all, from + 1, r) /\ from + Len(joined) = r
        <4>1. Adjoins(all, from, q, r)
          BY <2>2, <3>1, Grows
        <4>2. QED
          BY Zenon, <3>2, <4>1 DEF Adjoins
      <3>4. QED
        BY Zenon, <1>7, <2>1, <2>2, <3>2, <3>3
  <1>9. Len(content) > 0 => Len(sum) > Len(text)
    <2>1. content \in Seq(Bytes)
      BY <1>6
    <2>2. Len(sum) = Len(text) + Len(content) /\ Len(text) \in Nat /\ Len(content) \in Nat
      BY <1>7, <2>1
    <2>3. QED
      BY <2>2
  <1>10. Truncated(window) \/ next # 0 => Len(sum) > Len(text)
    BY <1>6, <1>9
  <1>11. g \in 0..Len(src) /\ position \in Nat
    BY GroupStarts
  <1>12. ASSUME Truncated(window) PROVE Reading(k, src, position, follows, from, sum)
    BY <1>1, <1>2, <1>3, <1>6, <1>8, <1>11, <1>12, Zenon DEF Reading
  <1>13. ASSUME ~Truncated(window), next # 0
         PROVE  next \in Nat /\ next > 0 /\ Reading(k, src, next, 0, from, sum)
    <2>1. PICK following : following = GroupOf(k, src, next)
      OBVIOUS
    <2>2. /\ Begins(k, src, g + 1, next) /\ next > 0
          /\ Before(k, src, g + 1) = before + Len(group)
          /\ Len(following) > 0 /\ RuneStart(following[1])
      <3>1. GroupLies(k, src, g, position)
        BY GroupIs
      <3>2. QED
        BY Zenon, <1>2, <1>3, <1>13, <2>1, <3>1 DEF GroupLies
    <2>3. Before(k, src, g + 1) + 0 = from + Len(sum)
      <3>1. before + Len(group) = r /\ r \in Nat
        BY <1>6, <1>13
      <3>2. Before(k, src, g + 1) = r
        BY <2>2, <3>1
      <3>3. QED
        BY <1>8, <3>1, <3>2
    <2>4. 0 < Len(following) /\ RuneStart(following[0 + 1])
      BY <2>2
    <2>5. g + 1 \in 0..Len(src) /\ next \in Nat
      BY <2>2, GroupStarts
    <2>6. r <= Len(all) /\ from + Len(sum) = r /\ sum = SubSeq(all, from + 1, from + Len(sum))
          /\ (IsText(all) => Bound(all, r))
      BY <1>6, <1>8
    <2>7. Reading(k, src, next, 0, from, sum)
      BY <1>1, <2>1, <2>2, <2>3, <2>4, <2>5, <2>6, Zenon DEF Reading
    <2>8. QED
      BY <2>2, <2>5, <2>7
  <1>14. ASSUME ~Truncated(window), next = 0
         PROVE  sum = SubSeq(all, from + 1, from + Len(sum)) /\ from + Len(sum) = Len(all)
    <2>1. before + Len(group) = Len(all)
      BY <1>1, <1>2, <1>3, <1>14, GroupIs DEF GroupLies
    <2>2. QED
      BY <1>6, <1>8, <1>14, <2>1
  <1>15. Truncated(window) => follows \in Nat
    BY <1>6
  <1>16. QED
    BY <1>1, <1>4, <1>7, <1>8, <1>10, <1>12, <1>13, <1>14, <1>15, Zenon DEF DocAnswer

\* So does an answer with entries of the list.
ListAnswer(src, end, from, text, sum) ==
    /\ sum \in Seq(Bytes)
    /\ end < Len(src) =>
          /\ end \in Nat
          /\ Len(sum) > Len(text)
          /\ Reading("list", src, end, 0, from, sum)
    /\ ~(end < Len(src)) =>
          /\ sum = SubSeq(AllOf("list", src), from + 1, from + Len(sum))
          /\ from + Len(sum) = Len(AllOf("list", src))

LEMMA ListReading ==
    ASSUME "list" \in Kinds, NEW src \in Contents["list"], NEW position \in Nat,
           position > 0 => position < Len(src),
           NEW limit \in 1..ListMax, NEW end, end = GroupEnd(src, position, limit),
           NEW content, content = FlattenSeq(SubSeq(src, position + 1, end)),
           NEW from \in Nat, NEW text \in Seq(Bytes),
           from + Len(text) = Len(FlatTo(src, position)),
           text = SubSeq(AllOf("list", src), from + 1, from + Len(text))
    PROVE  ListAnswer(src, end, from, text, text \o content)
  <1>1. PICK all \in Seq(Bytes) : all = AllOf("list", src) /\ all = FlattenSeq(src)
    BY AllIs DEF AllOf, GroupsOf
  <1>a. src \in Seq(Seq(Bytes)) /\ \A i \in 1..Len(src) : src[i] # <<>> /\ RuneStart(src[i][1])
    BY SourceIs
  <1>2. PICK n \in Nat : n = Len(src)
    <2>1. src \in Seq(Seq(Bytes))
      BY <1>a
    <2>2. QED
      BY <2>1
  <1>3. src \in Seq(Seq(Bytes)) /\ \A i \in 1..n : src[i] # <<>> /\ RuneStart(src[i][1])
    BY <1>2, <1>a
  <1>4. limit \in Nat /\ limit > 0
    BY LimitsAssumption
  <1>5. position <= n
    BY <1>2
  <1>6. end \in position..n /\ (end < n => end > position)
    <2>1. /\ end \in position..n
          /\ position + limit < n => end = position + limit
          /\ ~(position + limit < n) => end = n
      BY <1>2, <1>3, <1>4, <1>5, GroupEndIs
    <2>2. QED
      BY <1>4, <2>1
  <1>7. PICK q, r : q = Len(FlatTo(src, position)) /\ r = Len(FlatTo(src, end))
    OBVIOUS
  <1>8. /\ q \in 0..r /\ r \in 0..Len(all)
        /\ content = SubSeq(all, q + 1, r) /\ Len(content) = r - q
    <2>1. position \in 0..Len(src) /\ end \in position..Len(src)
      BY <1>2, <1>5, <1>6
    <2>2. QED
      <3>1. FlatCut(Bytes, src, position, end)
        BY <1>3, <2>1, FlattenCut
      <3>2. QED
        BY Zenon, <1>1, <1>7, <3>1 DEF FlatCut
  <1>9. q \in Nat /\ r \in Nat /\ q <= r /\ r <= Len(all) /\ from + Len(text) = q
    BY <1>7, <1>8
  <1>10. PICK sum : sum = text \o content
    OBVIOUS
  <1>11. sum \in Seq(Bytes) /\ sum = SubSeq(all, from + 1, r) /\ from + Len(sum) = r
    <2>1. Len(text) \in Nat
      OBVIOUS
    <2>2. text = SubSeq(all, from + 1, q)
      BY Zenon, <1>1, <1>9
    <2>3. content = SubSeq(all, q + 1, r)
      BY <1>8
    <2>4. QED
      <3>1. from <= q
        BY <1>9, <2>1
      <3>2. PICK joined : joined = SubSeq(all, from + 1, q) \o SubSeq(all, q + 1, r)
        OBVIOUS
      <3>3. joined \in Seq(Bytes) /\ joined = SubSeq(all, from + 1, r) /\ from + Len(joined) = r
        <4>1. from \in Nat /\ q \in Nat /\ r \in Nat /\ q <= r /\ r <= Len(all)
          BY <1>9
        <4>2. Adjoins(all, from, q, r)
          BY <3>1, <4>1, Grows
        <4>3. QED
          BY Zenon, <3>2, <4>2 DEF Adjoins
      <3>4. QED
        BY Zenon, <1>10, <2>2, <2>3, <3>2, <3>3
  <1>12. ASSUME end < n
         PROVE  end \in Nat /\ Len(sum) > Len(text) /\ Reading("list", src, end, 0, from, sum)
    <2>1. SubSeq(src, position + 1, end) \in Seq(Seq(Bytes))
      BY <1>2, <1>3, <1>5, <1>6
    <2>2. PICK entries \in Seq(Seq(Bytes)) : entries = SubSeq(src, position + 1, end)
      BY <2>1
    <2>a. position + 1 \in 1..n /\ end \in 1..n /\ position + 1 <= end
      BY <1>5, <1>6, <1>12
    <2>3. Len(entries) = end - position /\ entries[1] = src[position + 1] /\ position + 1 \in 1..n
      <3>1. src \in Seq(Seq(Bytes)) /\ position + 1 \in 1..Len(src) /\ end \in 1..Len(src)
        BY <1>2, <1>3, <2>a
      <3>2. /\ Len(SubSeq(src, position + 1, end)) = end - (position + 1) + 1
            /\ SubSeq(src, position + 1, end)[1] = src[position + 1]
        BY <2>a, <3>1, SubSeqFrom, Zenon
      <3>3. end - (position + 1) + 1 = end - position
        BY <1>5, <1>6
      <3>4. QED
        BY <2>2, <2>a, <3>2, <3>3, Zenon
    <2>4. entries # <<>> /\ entries[1] # <<>>
      BY <1>3, <1>6, <1>12, <2>3
    <2>5. Len(content) > 0
      BY <2>2, <2>4, FlattenHead
    <2>6. q < r /\ Len(sum) > Len(text)
      BY <1>8, <1>9, <1>11, <2>5
    <2>7. end \in Nat /\ end < Len(src) /\ end + 1 \in 1..n /\ end > 0
      BY <1>2, <1>6, <1>12
    <2>8. PICK entry \in Seq(Bytes) : entry = src[end + 1] /\ Len(entry) > 0 /\ RuneStart(entry[1])
      <3>1. src[end + 1] \in Seq(Bytes) /\ src[end + 1] # <<>> /\ RuneStart(src[end + 1][1])
        BY <1>2, <1>3, <2>7
      <3>2. QED
        BY <3>1, EmptySeq
    <2>9. r + Len(entry) <= Len(all) /\ entry = SubSeq(all, r + 1, r + Len(entry))
      <3>1. src \in Seq(Seq(Bytes))
        BY <1>3
      <3>2. /\ r + Len(src[end + 1]) <= Len(all)
            /\ src[end + 1] = SubSeq(all, r + 1, r + Len(src[end + 1]))
        BY <1>1, <1>7, <2>7, <3>1, OneOfGroups DEF OneGroup
      <3>3. QED
        BY <2>8, <3>2
    <2>10. all[r + 1] = entry[1]
      <3>1. PICK m \in Nat : m = Len(entry) /\ m > 0
        BY <2>8
      <3>2. SubSeq(all, r + 1, r + m)[1] = all[r + 1]
        BY <1>9, <2>9, <3>1
      <3>3. QED
        BY <2>9, <3>1, <3>2
    <2>11. Bound(all, r)
      BY <1>9, <2>8, <2>10 DEF Bound
    <2>12. from + Len(sum) <= Len(all) /\ sum = SubSeq(all, from + 1, from + Len(sum))
           /\ Bound(all, from + Len(sum)) /\ Len(FlatTo(src, end)) = from + Len(sum)
      BY <1>7, <1>9, <1>11, <2>11
    <2>13. Reading("list", src, end, 0, from, sum)
      BY <1>1, <2>7, <2>12 DEF Reading
    <2>14. QED
      BY <2>6, <2>7, <2>13
  <1>13. ASSUME ~(end < n)
         PROVE  sum = SubSeq(all, from + 1, from + Len(sum)) /\ from + Len(sum) = Len(all)
    <2>1. end = Len(src)
      BY <1>2, <1>6, <1>13
    <2>2. r = Len(all)
      BY <1>1, <1>3, <1>7, <2>1, FlatSteps
    <2>3. QED
      BY <1>11, <2>2
  <1>14. QED
    BY <1>1, <1>2, <1>10, <1>11, <1>12, <1>13, Zenon DEF ListAnswer

-----------------------------------------------------------------------------
(* What a read keeps *)

LEMMA Views ==
    ASSUME NEW src, NEW position
    PROVE  /\ Group(src, position) = GroupOf(kind, src, position)
           /\ NextGroup(src, position) = NextOf(kind, src, position)
           /\ Whole(src) = AllOf(kind, src)
  BY DEF Group, GroupOf, NextGroup, NextOf, Whole, AllOf, Groups, GroupsOf

LEMMA SourcesAreSources ==
    ASSUME NEW k \in Kinds
    PROVE  /\ Contents[k] \subseteq Seq(Seq(Bytes))
           /\ NoSnapshot \notin Contents[k]
  BY SourceIs

LEMMA ReadInvStart == ReadInit => ReadInv
  <1> SUFFICES ASSUME ReadInit PROVE ReadInv
    OBVIOUS
  <1>1. kind \in Kinds /\ source \in Contents[kind]
    BY DEF ReadInit
  <1>2. source \in Seq(Seq(Bytes)) /\ MaxChanges[kind] \in Nat
    BY <1>1, SourcesAreSources, LimitsAssumption DEF Kinds
  <1>3. cursor \in Cursors
    BY DEF ReadInit, Cursors
  <1>4. ReadTypeOK
    <2>1. received \in Seq(Bytes) /\ start \in Nat
      BY DEF ReadInit
    <2>2. changes \in 0..MaxChanges[kind]
      BY <1>2 DEF ReadInit
    <2>3. QED
      BY Zenon, <1>1, <1>2, <1>3, <2>1, <2>2 DEF ReadInit, ReadTypeOK
  <1>5. QED
    BY <1>1, <1>4 DEF ReadInit, ReadInv

LEMMA PublishKeeps == ReadInv /\ Publish => ReadInv'
  <1> SUFFICES ASSUME ReadInv, Publish PROVE ReadInv'
    OBVIOUS
  <1>1. source' \in Contents[kind] /\ kind' = kind /\ kind \in Kinds
    BY DEF Publish, ReadInv, ReadTypeOK
  <1>2. source' \in Seq(Seq(Bytes)) /\ MaxChanges[kind] \in Nat
    BY <1>1, SourcesAreSources, LimitsAssumption DEF Kinds
  <1>3. ReadTypeOK'
    BY <1>1, <1>2 DEF Publish, ReadInv, ReadTypeOK
  <1>4. LimitIs' <=> LimitIs
    BY DEF Publish, LimitIs
  <1>5. pc \in {"asked", "answered"}
    BY DEF Publish
  <1>6. QED
    BY <1>1, <1>3, <1>4, <1>5 DEF Publish, ReadInv

LEMMA AskPageKeeps == ReadInv /\ AskPage => ReadInv'
  <1> SUFFICES ASSUME ReadInv, AskPage PROVE ReadInv'
    OBVIOUS
  <1>1. PICK offset \in FirstOffsets :
            /\ start' = Max({0, offset})
            /\ cursor' = [cursor EXCEPT !.offset = Max({0, offset}),
                                        !.limit = IF kind = "sections" THEN SectionLimit ELSE MaxWindow]
    BY DEF AskPage
  <1>2. Max({0, offset}) \in Nat
    <2>1. offset \in Int
      BY LimitsAssumption
    <2>2. Max({0, offset}) = IF offset <= 0 THEN 0 ELSE offset
      BY <2>1 DEF Max
    <2>3. QED
      BY <2>1, <2>2
  <1>3. /\ cursor \in Cursors /\ ~resuming /\ received = <<>> /\ cursor.position = 0
        /\ kind # "list" /\ pc' = "asked" /\ kind' = kind /\ resuming' = resuming /\ received' = received
        /\ source' = source
    BY DEF AskPage, ReadInv, ReadTypeOK
  <1>4. SectionLimit \in Int /\ MaxWindow \in Int
    BY LimitsAssumption, WindowAssumption
  <1>5. /\ cursor' \in Cursors /\ cursor'.position = 0 /\ cursor'.offset = start'
        /\ cursor'.limit = IF kind = "sections" THEN SectionLimit ELSE MaxWindow
    BY <1>1, <1>2, <1>3, <1>4 DEF Cursors
  <1>6. ReadTypeOK'
    BY <1>1, <1>2, <1>5 DEF AskPage, ReadInv, ReadTypeOK
  <1>7. LimitIs'
    BY <1>3, <1>5 DEF LimitIs
  <1>8. QED
    BY <1>3, <1>5, <1>6, <1>7 DEF AskPage, ReadInv

LEMMA AskListKeeps == ReadInv /\ AskList => ReadInv'
  <1> SUFFICES ASSUME ReadInv, AskList PROVE ReadInv'
    OBVIOUS
  <1>1. PICK limit \in ListLimits :
            cursor' = [cursor EXCEPT !.limit = IF limit <= 0 THEN ListDefault ELSE Least(limit, ListMax)]
    BY DEF AskList
  <1>2. (IF limit <= 0 THEN ListDefault ELSE Least(limit, ListMax)) \in 1..ListMax
    <2>1. limit \in Int /\ ListMax \in Nat /\ ListDefault \in 1..ListMax /\ ListMax > 0
      BY LimitsAssumption
    <2>2. QED
      BY <2>1 DEF Least
  <1>3. /\ cursor \in Cursors /\ ~resuming /\ received = <<>> /\ cursor.position = 0 /\ cursor.offset = start
        /\ kind = "list" /\ start = 0 /\ pc' = "asked" /\ kind' = kind /\ resuming' = resuming
        /\ received' = received /\ source' = source /\ start' = start
    BY DEF AskList, ReadInv, ReadTypeOK
  <1>4. /\ cursor' \in Cursors /\ cursor'.position = 0 /\ cursor'.offset = start'
        /\ cursor'.limit \in 1..ListMax
    BY <1>1, <1>2, <1>3 DEF Cursors
  <1>5. ReadTypeOK'
    BY <1>4 DEF AskList, ReadInv, ReadTypeOK
  <1>6. LimitIs'
    BY <1>3, <1>4 DEF LimitIs
  <1>7. QED
    BY <1>3, <1>4, <1>5, <1>6 DEF AskList, ReadInv

LEMMA FollowKeeps == ReadInv /\ Follow => ReadInv'
  <1> SUFFICES ASSUME ReadInv, Follow PROVE ReadInv'
    OBVIOUS
  <1>1. ReadTypeOK'
    BY DEF Follow, ReadInv, ReadTypeOK
  <1>2. LimitIs' <=> LimitIs
    BY DEF Follow, LimitIs
  <1>3. QED
    BY <1>1, <1>2 DEF Follow, ReadInv

\* Where a call goes on, it does so in what was read from the first.
LEMMA AcceptedIs ==
    ASSUME ReadInv, pc = "asked", SnapshotIsCurrent
    PROVE  /\ kind \in Kinds /\ source \in Contents[kind]
           /\ cursor \in Cursors /\ cursor.position \in Nat /\ cursor.offset \in Nat
           /\ start \in Nat /\ received \in Seq(Bytes) /\ resuming \in BOOLEAN
           /\ resuming => /\ first = source /\ cursor.snapshot = source
                          /\ Reading(kind, source, cursor.position, cursor.offset, start, received)
           /\ ~resuming => /\ received = <<>> /\ cursor.position = 0 /\ cursor.offset = start
                           /\ kind = "list" => start = 0
           /\ LimitIs
  <1>1. ReadTypeOK /\ source \in Contents[kind] /\ LimitIs
    BY DEF ReadInv
  <1>2. cursor \in Cursors /\ start \in Nat /\ received \in Seq(Bytes) /\ resuming \in BOOLEAN /\ kind \in Kinds
    BY <1>1 DEF ReadTypeOK
  <1>3. cursor.position \in Nat /\ cursor.offset \in Nat
    BY <1>2 DEF Cursors
  <1>4. QED
    BY <1>1, <1>2, <1>3 DEF ReadInv, SnapshotIsCurrent

LEMMA DocBase ==
    ASSUME ReadInv, pc = "asked", SnapshotIsCurrent, kind # "list"
    PROVE  \E g : /\ Begins(kind, source, g, cursor.position)
                  /\ start + Len(received) = Before(kind, source, g) + cursor.offset
                  /\ received = SubSeq(AllOf(kind, source), start + 1, start + Len(received))
  <1>1. CASE resuming
    <2>1. Reading(kind, source, cursor.position, cursor.offset, start, received)
      BY <1>1, AcceptedIs
    <2>2. PICK g \in 0..Len(source) :
              /\ Begins(kind, source, g, cursor.position)
              /\ Before(kind, source, g) + cursor.offset = start + Len(received)
      BY <2>1 DEF Reading
    <2>3. received = SubSeq(AllOf(kind, source), start + 1, start + Len(received))
      BY <2>1 DEF Reading
    <2>4. QED
      BY <2>2, <2>3
  <1>2. CASE ~resuming
    <2>1. /\ received = <<>> /\ cursor.position = 0 /\ cursor.offset = start /\ start \in Nat
          /\ kind \in Kinds /\ source \in Contents[kind]
      BY <1>2, AcceptedIs
    <2>2. Begins(kind, source, 0, cursor.position)
      <3>1. 0 * SectionLimit = 0
        BY LimitsAssumption
      <3>2. QED
        BY <2>1, <3>1 DEF Begins
    <2>3. Before(kind, source, 0) = 0
      BY <2>1, <2>2, GroupStarts
    <2>4. SubSeq(AllOf(kind, source), start + 1, start + 0) = <<>>
      <3>1. AllOf(kind, source) \in Seq(Bytes)
        BY <2>1, AllIs
      <3>2. QED
        BY <2>1, <3>1, SubSeqEmpty
    <2>5. Len(received) = 0
      BY <2>1
    <2>6. start + 0 = 0 + start
      BY <2>1
    <2>7. QED
      BY <2>1, <2>2, <2>3, <2>4, <2>5, <2>6
  <1>3. QED
    BY <1>1, <1>2

LEMMA ListBase ==
    ASSUME ReadInv, pc = "asked", SnapshotIsCurrent, kind = "list"
    PROVE  /\ cursor.position > 0 => cursor.position < Len(source)
           /\ cursor.limit \in 1..ListMax
           /\ start + Len(received) = Len(FlatTo(source, cursor.position))
           /\ received = SubSeq(AllOf("list", source), start + 1, start + Len(received))
  <1>1. cursor.limit \in 1..ListMax
    BY AcceptedIs DEF LimitIs
  <1>2. CASE resuming
    <2>1. Reading(kind, source, cursor.position, cursor.offset, start, received)
      BY <1>2, AcceptedIs
    <2>2. QED
      BY <1>1, <2>1 DEF Reading
  <1>3. CASE ~resuming
    <2>1. /\ received = <<>> /\ cursor.position = 0 /\ start = 0
          /\ kind \in Kinds /\ source \in Contents[kind]
      BY <1>3, AcceptedIs
    <2>2. FlatTo(source, 0) = <<>>
      BY <2>1, SourceIs, FlatSteps
    <2>3. SubSeq(AllOf(kind, source), 0 + 1, 0) = <<>>
      <3>1. AllOf(kind, source) \in Seq(Bytes)
        BY <2>1, AllIs
      <3>2. QED
        BY <3>1, SubSeqEmpty
    <2>4. Len(<<>>) = 0
      OBVIOUS
    <2>5. QED
      BY <1>1, <2>1, <2>2, <2>3, <2>4
  <1>4. QED
    BY <1>2, <1>3

\* An answer keeps it when what it adds fits.
LEMMA ShowKeeps ==
    ASSUME ReadInv, pc = "asked", SnapshotIsCurrent,
           NEW text, NEW more \in BOOLEAN, NEW position \in Nat, NEW offset \in Nat,
           Show(text, more, position, offset),
           received \o text \in Seq(Bytes),
           more => Reading(kind, source, position, offset, start, received \o text),
           ~more => /\ received \o text =
                          SubSeq(AllOf(kind, source), start + 1, start + Len(received \o text))
                    /\ start + Len(received \o text) = Len(AllOf(kind, source))
    PROVE  ReadInv'
  <1>1. /\ kind \in Kinds /\ source \in Contents[kind] /\ cursor \in Cursors
        /\ resuming => first = source
        /\ LimitIs
    BY AcceptedIs
  <1>2. source \in Seq(Seq(Bytes)) /\ source # NoSnapshot
    BY <1>1, SourcesAreSources
  <1>3. /\ kind' = kind /\ source' = source /\ changes' = changes /\ large' = large
        /\ resuming' = resuming /\ start' = start
        /\ cursor' = [cursor EXCEPT !.snapshot = source, !.position = position, !.offset = offset]
        /\ first' = source
    BY <1>1 DEF Show
  <1>4. /\ cursor' \in Cursors /\ cursor'.position = position /\ cursor'.offset = offset
        /\ cursor'.snapshot = source /\ cursor'.limit = cursor.limit
    BY <1>1, <1>2, <1>3 DEF Cursors
  <1>5. LimitIs'
    BY <1>1, <1>3, <1>4 DEF LimitIs
  <1>6. received \in Seq(Bytes)
    BY DEF ReadInv, ReadTypeOK
  <1>7. \/ pc' = "toolarge" /\ received' = received
        \/ more /\ pc' = "answered" /\ received' = received \o text
        \/ ~more /\ pc' = "complete" /\ received' = received \o text
    BY DEF Show
  <1>8. pc' \in {"idle", "asked", "answered"} \cup Ends /\ received' \in Seq(Bytes)
    BY <1>6, <1>7 DEF Ends
  <1>9. ReadTypeOK'
    BY <1>2, <1>3, <1>4, <1>8 DEF ReadInv, ReadTypeOK
  <1>10. CASE pc' = "toolarge"
    BY <1>1, <1>3, <1>9, <1>10 DEF ReadInv
  <1>11. CASE more /\ pc' = "answered" /\ received' = received \o text
    <2>1. Reading(kind', first', cursor'.position, cursor'.offset, start', received')
      BY <1>3, <1>4, <1>11
    <2>2. QED
      BY <1>1, <1>3, <1>4, <1>5, <1>9, <1>11, <2>1 DEF ReadInv
  <1>12. CASE ~more /\ pc' = "complete" /\ received' = received \o text
    <2>1. /\ first' \in Contents[kind']
          /\ start' + Len(received') = Len(AllOf(kind', first'))
          /\ received' = SubSeq(AllOf(kind', first'), start' + 1, start' + Len(received'))
      BY <1>1, <1>3, <1>12
    <2>2. QED
      BY <1>1, <1>3, <1>9, <1>12, <2>1 DEF ReadInv
  <1>13. QED
    BY <1>7, <1>10, <1>11, <1>12

\* An answer that goes on from what was read, or completes it.
Answers(text, more, position, offset) ==
    LET sum == received \o text
    IN  /\ more \in BOOLEAN /\ position \in Nat /\ offset \in Nat
        /\ Show(text, more, position, offset)
        /\ sum \in Seq(Bytes)
        /\ more => Reading(kind, source, position, offset, start, sum) /\ Len(sum) > Len(received)
        /\ ~more => /\ sum = SubSeq(AllOf(kind, source), start + 1, start + Len(sum))
                    /\ start + Len(sum) = Len(AllOf(kind, source))

LEMMA ListPageShows ==
    ASSUME ReadInv, ListPage
    PROVE  \E text, more, position, offset : Answers(text, more, position, offset)
  <1>1. pc = "asked" /\ SnapshotIsCurrent /\ kind = "list"
    BY DEF ListPage, Accepted
  <1>2. PICK end : end = GroupEnd(source, cursor.position, cursor.limit)
    OBVIOUS
  <1>3. PICK text : text = FlattenSeq(SubSeq(source, cursor.position + 1, end))
    OBVIOUS
  <1>4. Show(text, end < Len(source), IF end < Len(source) THEN end ELSE cursor.position, 0)
    BY <1>2, <1>3, Zenon DEF ListPage
  <1>7. /\ "list" \in Kinds /\ source \in Contents["list"] /\ cursor.position \in Nat
        /\ start \in Nat /\ received \in Seq(Bytes)
    BY <1>1, AcceptedIs
  <1>8. /\ cursor.position > 0 => cursor.position < Len(source)
        /\ cursor.limit \in 1..ListMax
        /\ start + Len(received) = Len(FlatTo(source, cursor.position))
        /\ received = SubSeq(AllOf("list", source), start + 1, start + Len(received))
    BY <1>1, ListBase
  <1>9. /\ received \o text \in Seq(Bytes)
        /\ end < Len(source) =>
              /\ end \in Nat
              /\ Len(received \o text) > Len(received)
              /\ Reading("list", source, end, 0, start, received \o text)
        /\ ~(end < Len(source)) =>
              /\ received \o text = SubSeq(AllOf("list", source), start + 1, start + Len(received \o text))
              /\ start + Len(received \o text) = Len(AllOf("list", source))
    <2>1. ListAnswer(source, end, start, received, received \o text)
      BY <1>2, <1>3, <1>7, <1>8, ListReading
    <2>2. QED
      BY Zenon, <2>1 DEF ListAnswer
  <1>10. 0 \in Nat /\ TRUE \in BOOLEAN /\ FALSE \in BOOLEAN
    OBVIOUS
  <1>11. CASE end < Len(source)
    <2>1. Show(text, TRUE, end, 0)
      <3>1. (end < Len(source)) = TRUE
        BY <1>11
      <3>2. QED
        BY <1>4, <1>11, <3>1, Zenon
    <2>2. Answers(text, TRUE, end, 0)
      BY <1>1, <1>9, <1>10, <1>11, <2>1, Zenon DEF Answers
    <2>3. QED
      BY <2>2
  <1>12. CASE ~(end < Len(source))
    <2>1. Show(text, FALSE, cursor.position, 0)
      <3>1. (end < Len(source)) = FALSE
        BY <1>12
      <3>2. QED
        BY <1>4, <1>12, <3>1, Zenon
    <2>2. Answers(text, FALSE, cursor.position, 0)
      BY <1>1, <1>7, <1>9, <1>10, <1>12, <2>1, Zenon DEF Answers
    <2>3. QED
      BY <2>2
  <1>13. QED
    BY <1>11, <1>12

LEMMA DocPageShows ==
    ASSUME ReadInv, DocPage
    PROVE  \E text, more, position, offset : Answers(text, more, position, offset)
  <1>1. pc = "asked" /\ SnapshotIsCurrent /\ kind # "list"
    BY DEF DocPage, Accepted
  <1>2. PICK window : window = Paginate(GroupOf(kind, source, cursor.position), cursor.offset)
    OBVIOUS
  <1>3. PICK next : next = NextOf(kind, source, cursor.position)
    OBVIOUS
  <1>4. /\ cursor.offset > 0 => window.content # <<>>
        /\ IF Truncated(window)
           THEN Show(window.content, TRUE, cursor.position, window.next)
           ELSE Show(window.content, next > 0, IF next > 0 THEN next ELSE cursor.position, 0)
    BY <1>2, <1>3, Views, Zenon DEF DocPage
  <1>5. /\ kind \in Kinds \ {"list"} /\ source \in Contents[kind] /\ cursor.position \in Nat
        /\ cursor.offset \in Nat /\ start \in Nat /\ received \in Seq(Bytes)
    BY <1>1, AcceptedIs
  <1>6. PICK g : /\ Begins(kind, source, g, cursor.position)
                 /\ start + Len(received) = Before(kind, source, g) + cursor.offset
                 /\ received = SubSeq(AllOf(kind, source), start + 1, start + Len(received))
    BY <1>1, DocBase
  <1>7. PICK sum : sum = received \o window.content
    OBVIOUS
  <1>8. /\ sum \in Seq(Bytes)
        /\ Truncated(window) \/ next # 0 => Len(sum) > Len(received)
        /\ Truncated(window) =>
              /\ window.next \in Nat
              /\ Reading(kind, source, cursor.position, window.next, start, sum)
        /\ ~Truncated(window) /\ next # 0 =>
              /\ next \in Nat /\ next > 0
              /\ Reading(kind, source, next, 0, start, sum)
        /\ ~Truncated(window) /\ next = 0 =>
              /\ sum = SubSeq(AllOf(kind, source), start + 1, start + Len(sum))
              /\ start + Len(sum) = Len(AllOf(kind, source))
    <2>1. DocAnswer(kind, source, cursor.position, window, next, start, received, received \o window.content)
      BY <1>2, <1>3, <1>4, <1>5, <1>6, DocReading
    <2>2. QED
      BY Zenon, <1>7, <2>1 DEF DocAnswer
  <1>9. 0 \in Nat /\ ~(0 > 0) /\ TRUE \in BOOLEAN /\ FALSE \in BOOLEAN
    OBVIOUS
  <1>10. CASE Truncated(window)
    <2>1. Answers(window.content, TRUE, cursor.position, window.next)
      BY <1>4, <1>5, <1>7, <1>8, <1>9, <1>10, Zenon DEF Answers
    <2>2. QED
      BY <2>1
  <1>11. CASE ~Truncated(window) /\ next # 0
    <2>1. Show(window.content, TRUE, next, 0)
      <3>1. (next > 0) = TRUE
        BY <1>8, <1>11
      <3>2. QED
        BY <1>4, <1>11, <3>1, Zenon
    <2>2. Answers(window.content, TRUE, next, 0)
      BY <1>7, <1>8, <1>9, <1>11, <2>1, Zenon DEF Answers
    <2>3. QED
      BY <2>2
  <1>12. CASE ~Truncated(window) /\ next = 0
    <2>1. Show(window.content, FALSE, cursor.position, 0)
      <3>1. (next > 0) = FALSE
        BY <1>9, <1>12
      <3>2. QED
        BY <1>4, <1>12, <3>1, Zenon
    <2>2. Answers(window.content, FALSE, cursor.position, 0)
      BY <1>5, <1>7, <1>8, <1>9, <1>12, <2>1, Zenon DEF Answers
    <2>3. QED
      BY <2>2
  <1>13. QED
    BY <1>10, <1>11, <1>12, Zenon

\* An end that is not an answer.
LEMMA EndKeeps ==
    ASSUME ReadInv, NEW how \in Ends \ {"complete"}, End(how),
           how = "refused" => ~IsText(AllOf(kind, source)),
           how = "restart" => source # first
    PROVE  ReadInv'
  <1>1. /\ kind' = kind /\ source' = source /\ changes' = changes /\ large' = large
        /\ resuming' = resuming /\ start' = start /\ cursor' = cursor /\ first' = first
        /\ received' = received /\ pc' = how
    BY DEF End
  <1>2. ReadTypeOK'
    BY <1>1 DEF ReadInv, ReadTypeOK, Ends
  <1>3. pc' \notin {"idle", "asked", "answered", "complete"}
    BY <1>1 DEF Ends
  <1>4. QED
    BY <1>1, <1>2, <1>3 DEF ReadInv

\* Of a text, the place a cursor points to is valid.
LEMMA CursorIsGood ==
    ASSUME ReadInv, pc = "asked"
    PROVE  /\ resuming => ValidCursor
           /\ SnapshotIsCurrent /\ ~ValidPlace => ~IsText(AllOf(kind, source))
  <1>1. ASSUME resuming PROVE ValidCursor
    <2>1. LimitIs /\ Reading(kind, first, cursor.position, cursor.offset, start, received)
      BY <1>1 DEF ReadInv
    <2>2. cursor.position \in Nat /\ cursor.offset \in Nat
      BY DEF ReadInv, ReadTypeOK, Cursors
    <2>3. CASE kind = "list"
      <3>1. cursor.offset = 0 /\ (cursor.position > 0 \/ cursor.offset > 0)
        BY <2>1, <2>3 DEF Reading
      <3>2. cursor.position > 0
        BY <2>2, <3>1
      <3>3. QED
        BY <2>1, <2>3, <3>1, <3>2 DEF ValidCursor, LimitIs
    <2>4. CASE kind # "list"
      <3>1. PICK g \in 0..Len(first) : Begins(kind, first, g, cursor.position)
        BY <2>1, <2>4 DEF Reading
      <3>2. cursor.position > 0 \/ cursor.offset > 0
        BY <2>1 DEF Reading
      <3>3. PICK L \in Nat : L = SectionLimit /\ L > 0
        BY LimitsAssumption
      <3>4. g \in Nat /\ cursor.position = g * L /\ (kind # "sections" => g = 0)
        BY <3>1, <3>3 DEF Begins
      <3>5. cursor.position % L = 0
        <4>1. (g * L) % L = 0
          BY <3>3, <3>4
        <4>2. QED
          BY <3>4, <4>1
      <3>6. kind # "sections" => cursor.position = 0
        <4>1. 0 * L = 0
          BY <3>3
        <4>2. QED
          BY <3>4, <4>1
      <3>7. QED
        BY <2>1, <2>4, <3>2, <3>3, <3>5, <3>6 DEF ValidCursor, LimitIs
    <2>5. QED
      BY <2>3, <2>4
  <1>2. ASSUME SnapshotIsCurrent, IsText(AllOf(kind, source)) PROVE ValidPlace
    <2>1. CASE ~resuming
      <3>1. cursor.position = 0
        BY <1>2, <2>1, AcceptedIs
      <3>2. QED
        BY <2>1, <3>1 DEF ValidPlace
    <2>2. CASE resuming
      <3>1. Reading(kind, source, cursor.position, cursor.offset, start, received)
        BY <1>2, <2>2, AcceptedIs
      <3>2. CASE kind = "list"
        BY <3>1, <3>2 DEF Reading, ValidPlace
      <3>3. CASE kind # "list"
        <4>1. PICK g \in 0..Len(source) :
                  /\ Begins(kind, source, g, cursor.position)
                  /\ cursor.offset < Len(GroupOf(kind, source, cursor.position))
                  /\ RuneStart(GroupOf(kind, source, cursor.position)[cursor.offset + 1])
          BY <1>2, <3>1, <3>3 DEF Reading
        <4>2. cursor.position > 0 => cursor.position < Len(source)
          BY <4>1 DEF Begins
        <4>3. CASE kind = "sections"
          <5>1. ValidBytePosition(Group(source, cursor.position), cursor.offset)
            BY <4>1, Views DEF ValidBytePosition
          <5>2. QED
            BY <4>2, <4>3, <5>1 DEF ValidPlace
        <4>4. CASE kind # "sections"
          <5>1. ValidBytePosition(source[1], cursor.offset)
            BY <4>1, <4>4 DEF ValidBytePosition, GroupOf
          <5>2. QED
            BY <3>3, <4>4, <5>1 DEF ValidPlace
        <4>5. QED
          BY <4>3, <4>4
      <3>4. QED
        BY <3>2, <3>3
    <2>3. QED
      BY <2>1, <2>2
  <1>3. QED
    BY <1>1, <1>2

LEMMA AnswersKeep ==
    ASSUME ReadInv, pc = "asked", SnapshotIsCurrent,
           NEW text, NEW more, NEW position, NEW offset, Answers(text, more, position, offset)
    PROVE  ReadInv'
  BY ShowKeeps DEF Answers

LEMMA StepKeeps == ReadInv /\ [ReadNext]_readVars => ReadInv'
  <1> SUFFICES ASSUME ReadInv, [ReadNext]_readVars PROVE ReadInv'
    OBVIOUS
  <1>1. CASE Publish
    BY <1>1, PublishKeeps
  <1>2. CASE AskPage
    BY <1>2, AskPageKeeps
  <1>3. CASE AskList
    BY <1>3, AskListKeeps
  <1>4. CASE Follow
    BY <1>4, FollowKeeps
  <1>5. CASE Refuse
    <2>1. pc = "asked" /\ End("refused") /\ ((resuming /\ ~ValidCursor) \/ (SnapshotIsCurrent /\ ~ValidPlace))
      BY <1>5 DEF Refuse
    <2>2. ~IsText(AllOf(kind, source))
      BY <2>1, CursorIsGood
    <2>3. "refused" \in Ends \ {"complete"} /\ "refused" # "restart"
      BY DEF Ends
    <2>4. QED
      BY <2>1, <2>2, <2>3, EndKeeps
  <1>6. CASE Restart
    <2>1. pc = "asked" /\ End("restart") /\ resuming /\ cursor.snapshot # source
      BY <1>6 DEF Restart, SnapshotIsCurrent
    <2>2. source # first
      BY <2>1 DEF ReadInv
    <2>3. "restart" \in Ends \ {"complete"} /\ "refused" # "restart"
      BY DEF Ends
    <2>4. QED
      BY <2>1, <2>2, <2>3, EndKeeps
  <1>7. CASE ListPage
    <2>1. pc = "asked" /\ SnapshotIsCurrent
      BY <1>7 DEF ListPage, Accepted
    <2>2. PICK text, more, position, offset : Answers(text, more, position, offset)
      BY <1>7, ListPageShows
    <2>3. QED
      BY <2>1, <2>2, AnswersKeep
  <1>8. CASE Overshoot
    <2>1. End("overshoot") /\ "overshoot" \in Ends \ {"complete"}
      BY <1>8 DEF Overshoot, Ends
    <2>2. "overshoot" # "refused" /\ "overshoot" # "restart"
      OBVIOUS
    <2>3. QED
      BY <2>1, <2>2, EndKeeps
  <1>9. CASE DocPage
    <2>1. pc = "asked" /\ SnapshotIsCurrent
      BY <1>9 DEF DocPage, Accepted
    <2>2. PICK text, more, position, offset : Answers(text, more, position, offset)
      BY <1>9, DocPageShows
    <2>3. QED
      BY <2>1, <2>2, AnswersKeep
  <1>10. CASE UNCHANGED readVars
    <2>1. UNCHANGED <<kind, source, changes, large, pc, resuming, cursor, first, start, received>>
      BY <1>10 DEF readVars
    <2>2. ReadTypeOK' /\ (LimitIs' <=> LimitIs)
      BY <2>1 DEF ReadInv, ReadTypeOK, LimitIs
    <2>3. QED
      BY <2>1, <2>2 DEF ReadInv
  <1>11. \/ Publish \/ AskPage \/ AskList \/ Follow \/ Refuse \/ Restart \/ ListPage
         \/ Overshoot \/ DocPage \/ UNCHANGED readVars
    BY DEF ReadNext, Respond, Done
  <1>12. QED
    BY Zenon, <1>1, <1>2, <1>3, <1>4, <1>5, <1>6, <1>7, <1>8, <1>9, <1>10, <1>11

LEMMA ReadInvHolds == ReadSpec => []ReadInv
  BY ReadInvStart, StepKeeps, PTL DEF ReadSpec

\* Every variable of a read has its type, and a cursor a client holds has a
\* place in the source it was made for.
THEOREM ReadTypesHold == ReadSpec => []ReadTypeOK
  <1>1. ReadInv => ReadTypeOK
    BY DEF ReadInv
  <1>2. QED
    BY <1>1, ReadInvHolds, PTL

\* What was read is a stretch, and all that there is from the first offset on
\* when nothing more is announced.
LEMMA ReadIs ==
    ASSUME ReadInv, pc \in {"answered", "complete"}
    PROVE  /\ kind \in Kinds /\ first \in Contents[kind] /\ start \in Nat
           /\ received = SubSeq(AllOf(kind, first), start + 1, start + Len(received))
           /\ start + Len(received) <= Len(AllOf(kind, first))
           /\ IsText(AllOf(kind, first)) => Bound(AllOf(kind, first), start + Len(received))
           /\ pc = "complete" => start + Len(received) = Len(AllOf(kind, first))
  <1>1. kind \in Kinds /\ start \in Nat /\ received \in Seq(Bytes)
    BY DEF ReadInv, ReadTypeOK
  <1>2. CASE pc = "answered"
    <2>1. Reading(kind, first, cursor.position, cursor.offset, start, received)
      BY <1>2 DEF ReadInv
    <2>2. QED
      BY <1>1, <1>2, <2>1 DEF Reading
  <1>3. CASE pc = "complete"
    <2>1. /\ first \in Contents[kind]
          /\ start + Len(received) = Len(AllOf(kind, first))
          /\ received = SubSeq(AllOf(kind, first), start + 1, start + Len(received))
      BY <1>3 DEF ReadInv
    <2>2. PICK all \in Seq(Bytes) : all = AllOf(kind, first)
      BY <1>1, <2>1, AllIs
    <2>3. Bound(all, Len(all))
      BY DEF Bound
    <2>4. Len(all) <= Len(all)
      OBVIOUS
    <2>5. QED
      BY Zenon, <1>1, <1>3, <2>1, <2>2, <2>3, <2>4
  <1>4. QED
    BY <1>2, <1>3

\* What a client receives is a stretch of one version of the source, and all
\* of it from the first offset on when no more is announced.
THEOREM AlwaysReassembled == ReadSpec => []Reassembled
  <1>1. ReadInv => Reassembled
    <2> SUFFICES ASSUME ReadInv PROVE Reassembled
      OBVIOUS
    <2>1. Whole(first) = AllOf(kind, first)
      BY Views
    <2>2. QED
      BY <2>1, ReadIs DEF Reassembled
  <1>2. QED
    BY <1>1, ReadInvHolds, PTL

\* Of a text, every window is made of whole characters: the cut at a full
\* window (extract.go:179-207) never splits one.
THEOREM WindowsAlwaysText == ReadSpec => []WindowsAreText
  <1>1. ReadInv => WindowsAreText
    <2> SUFFICES ASSUME ReadInv, pc \in {"answered", "complete"}, IsText(Whole(first)),
                        IsText(SubSeq(Whole(first), 1, start))
                 PROVE  IsText(received)
      BY DEF WindowsAreText
    <2>1. /\ kind \in Kinds /\ first \in Contents[kind] /\ start \in Nat
          /\ received = SubSeq(AllOf(kind, first), start + 1, start + Len(received))
          /\ start + Len(received) <= Len(AllOf(kind, first))
          /\ IsText(AllOf(kind, first)) => Bound(AllOf(kind, first), start + Len(received))
      BY ReadIs
    <2>2. PICK all \in Seq(Bytes) : all = AllOf(kind, first)
      BY <2>1, AllIs
    <2>3. all = Whole(first)
      BY <2>2, Views
    <2>4. PICK end : end = start + Len(received)
      OBVIOUS
    <2>5. received \in Seq(Bytes)
      BY DEF ReadInv, ReadTypeOK
    <2>6. end \in Nat /\ start <= end /\ end <= Len(all)
      BY <2>1, <2>2, <2>4, <2>5
    <2>7. IsText(all) /\ IsText(SubSeq(all, 1, start))
      BY <2>3
    <2>8. start \in 0..Len(all)
      BY <2>1, <2>6
    <2>9. Bound(all, start)
      BY <2>7, <2>8, TextGoesOn
    <2>10. Bound(all, end)
      BY <2>1, <2>2, <2>4, <2>7
    <2>11. IsText(SubSeq(all, start + 1, end))
      BY <2>6, <2>7, <2>9, <2>10, TextCut
    <2>12. QED
      BY Zenon, <2>1, <2>2, <2>4, <2>11
  <1>2. QED
    BY <1>1, ReadInvHolds, PTL

\* The server takes its own cursors, and asks for a restart only when the
\* source has changed (pagination.go:100-115).
THEOREM CursorsAlwaysAccepted == ReadSpec => []CursorsAccepted
  <1>1. ReadInv => CursorsAccepted
    <2>1. Whole(source) = AllOf(kind, source)
      BY Views
    <2>2. QED
      BY <2>1 DEF ReadInv, CursorsAccepted
  <1>2. QED
    BY <1>1, ReadInvHolds, PTL

\* An answer with a cursor has text (pagination.go:224-261).
THEOREM AnswersAlwaysAdvance == ReadSpec => EveryAnswerAdvances
  <1>1. ReadInv /\ [ReadNext]_readVars => [pc' = "answered" /\ pc # pc' => Len(received') > Len(received)]_readVars
    <2> SUFFICES ASSUME ReadInv, ReadNext, pc' = "answered", pc # pc'
                 PROVE  Len(received') > Len(received)
      OBVIOUS
    <2>1. ListPage \/ DocPage
      BY DEF ReadNext, Respond, Done, Publish, AskPage, AskList, Follow, Refuse, Restart, Overshoot, End, readVars
    <2>2. PICK text, more, position, offset : Answers(text, more, position, offset)
      BY <2>1, ListPageShows, DocPageShows
    <2>3. more /\ received' = received \o text
      BY <2>2 DEF Answers, Show
    <2>4. QED
      BY <2>2, <2>3 DEF Answers
  <1>2. QED
    BY <1>1, ReadInvHolds, PTL DEF ReadSpec, EveryAnswerAdvances
=============================================================================
