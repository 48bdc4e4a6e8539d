----------------------------- MODULE MCSearch -----------------------------
(***************************************************************************)
(* Values for the model checker: every path of up to three segments, an    *)
(* origin with a base path of its own, redirects to pages, lists and       *)
(* searches of two languages and out of scope, and catalogues of up to     *)
(* three pages.                                                            *)
(***************************************************************************)
EXTENDS Search

Root == <<Plain("docs")>>

Page(language, name) == <<Plain(language), Plain(name)>>

\* Inputs of get_doc.
Stem == {"en", "fr", "xx", "docs", "a", "v@1", "backslash", "x%y", "", ".", "..", "api"}
Suffixed(stems, md) == [i \in DOMAIN stems |-> <<stems[i], IF i = Len(stems) THEN md ELSE 0>>]
PathInputs ==
    {[AsReference(Suffixed(stems, md)) EXCEPT !.rooted = rooted] :
        stems \in UNION {[1..n -> Stem] : n \in 1..3}, md \in 0..1, rooted \in BOOLEAN}
SuffixedInputs ==
    {AsReference(Suffixed(stems, md)) :
        stems \in [1..2 -> {"en", "fr", "a", "v@1", "", "."}], md \in 2..4}
URLInputs ==
    {[origin |-> origin, userinfo |-> flag = "userinfo", query |-> flag = "query",
      encoded |-> flag = "encoded", rooted |-> TRUE, path |-> Root \o path] :
        origin \in {"none", "schemeless", "base", "other"},
        flag \in {"userinfo", "query", "encoded", "none"},
        path \in {Page("en", "a"), Page("fr", "a") \o <<Empty>>, Page("en", "v@1")}}
AnyInput == PathInputs \cup SuffixedInputs \cup URLInputs

\* Locations of redirects.
Location(u, written) == [scheme |-> "base", written |-> written, url |-> u]
To(path) == Location(URL(path, None), BasePath \o path)
SomeRedirects ==
    {To(Page("en", "b")), To(Page("fr", "a")), To(Page("en", "v@1")), To(<<Plain("llms.txt")>>),
     To(PageListPath \o <<Plain("fr"), Plain("version")>>), To(<<Plain("en"), Empty>>)}
    \cup {Location(searchURL(language), Root \o SearchPath) : language \in {"en", "fr"}}
    \cup {[To(Page("en", "b")) EXCEPT !.scheme = "other"],
          [To(Page("en", "b")) EXCEPT !.written = <<Plain("..")>> \o Page("en", "b")],
          [To(Page("en", "b")) EXCEPT !.url.path = Page("en", "b")],
          [To(Page("en", "b")) EXCEPT !.url.origin = "other"],
          [To(Page("en", "b")) EXCEPT !.url.userinfo = TRUE],
          [To(Page("en", "b")) EXCEPT !.url.encoded = TRUE]}

\* Lists of the origin.
Link(path) == [AsReference(Root \o path) EXCEPT !.origin = "base", !.rooted = TRUE]
Links == {Link(Page("en", "a")), Link(Page("en", "a") \o <<Empty>>), Link(Page("en", "b")),
          Link(Page("fr", "a")), Link(<<Plain("en"), <<"a", 1>>>>), Link(<<Plain("en"), <<"a", 2>>>>), Link(Page("en", "v@1")),
          [Link(Page("en", "a")) EXCEPT !.origin = "other"]}
SomeHitLists == UNION {[1..n -> Links] : n \in 0..3}

SomeCurated == {<<>>, <<Page("en", "b")>>, <<Page("en", "c") \o <<Empty>>, Page("en", "a")>>}
SomePageLists == {<<Page("en", "a"), Page("fr", "a"), Page("en", "a") \o <<Empty>>, Page("en", "b")>>,
                  <<Page("fr", "b"), Page("fr", "a"), Page("en", "c")>>}
SomeTexts == {[t1 |-> "name", t2 |-> "name"], [t1 |-> "name", t2 |-> "none"],
              [t1 |-> "description", t2 |-> "description"], [t1 |-> "none", t2 |-> "none"]}
SomeBodies == {NoBody} \cup [cached : {TRUE}, full : {TRUE}, stale : BOOLEAN]
                       \cup [cached : {TRUE}, full : {FALSE}, stale : {TRUE}]
=============================================================================
