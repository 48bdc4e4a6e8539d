----------------------------- MODULE MCHeadings -----------------------------
(***************************************************************************)
(* Values for the model checker: lines that open, close or stay in code,   *)
(* and headings with texts that are alike; and two headings whose texts    *)
(* differ in punctuation alone.                                            *)
(***************************************************************************)
EXTENDS Headings

L(form, indent, item) ==
    [form |-> form, indent |-> indent, item |-> item, level |-> 0, text |-> "a",
     mark |-> "none", length |-> 0, rest |-> "none"]

Atx(level, text) == [L("atx", 0, 0) EXCEPT !.level = level, !.text = text]
Under(level) == [L("under", 0, 0) EXCEPT !.level = level, !.text = "-"]
Fence(mark, length, rest, indent, item) ==
    [L("fence", indent, item) EXCEPT !.mark = mark, !.length = length, !.rest = rest]

CodeLines ==
    {L("blank", 0, 0), L("text", 0, 0), L("text", 2, 0), L("text", 4, 0), Under(2),
     Fence("tick", 3, "none", 0, 0), Fence("tick", 4, "none", 0, 0), Fence("tilde", 3, "none", 0, 0),
     Fence("tick", 3, "info", 0, 0), Fence("tick", 3, "ticks", 0, 0),
     Fence("tick", 3, "none", 2, 0), Fence("tick", 3, "none", 0, 2), Fence("tick", 3, "none", 4, 0),
     Fence("tick", 3, "none", 6, 0)}

HeadingLines ==
    {Atx(1, "a"), Atx(2, "a"), Atx(2, "A"), Atx(3, "a"), Atx(1, "a-1"), Atx(3, "a-1"),
     Atx(2, "*a*"), Atx(2, "<b>")}

PageLines == CodeLines \cup HeadingLines
SlugLines == {Atx(2, "C"), Atx(1, "C++")}

T == {"a", "A", "*a*", "a-1", "-", "<b>", "C", "C++"}

Lowers == [t \in T |-> CASE t = "A" -> "a" [] t = "C" -> "c" [] t = "C++" -> "c++" [] OTHER -> t]
Slugs == [t \in T |-> CASE t \in {"A", "*a*"} -> "a" [] t \in {"C", "C++"} -> "c" [] t = "-" -> "" [] t = "<b>" -> "b" [] OTHER -> t]
Plains == [t \in T |-> CASE t = "*a*" -> "a" [] t = "<b>" -> "" [] OTHER -> t]
Anchoring ==
    [t \in T |-> CASE t \in {"a", "A", "*a*"} -> <<"a">> [] t = "a-1" -> <<"a", 1>>
                   [] t \in {"C", "C++"} -> <<"c">> [] t = "-" -> <<"-">> [] t = "<b>" -> <<"">>]

\* Two that may be anchors of the page too, and one that never is.
PublishedIds == {<<"a">>, <<"a", 1>>, <<"x">>}
=============================================================================
