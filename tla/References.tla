----------------------------- MODULE References -----------------------------
(***************************************************************************)
(* What a reference to a page may be, and what a request may ask for: the  *)
(* validators that stand before the catalogue (ParseReference), before     *)
(* every request (validateFetchScope) and behind every redirect            *)
(* (validateRedirectLocation), written apart in the code.                  *)
(*                                                                         *)
(* A path is a sequence of segments; a segment is a stem, and how often    *)
(* ".md" follows it: <<"page", 1>> is "page.md".  The path "" has one      *)
(* segment, <<"", 0>>, and so has what follows a slash at the end.         *)
(***************************************************************************)
EXTENDS Integers, SequencesExt

CONSTANTS Languages,  \* the supported languages
          English,    \* the one that is meant when none is named
          BasePath,   \* the path of the configured origin, as segments
          Versioned,  \* stems of products with a version, or enterprise products
          Slashed,    \* stems with a backslash
          Unclean     \* stems with other characters that no page's path has

Segments == STRING \X Nat

\* The stems the code itself writes are none of the others.
ASSUME LanguagesAssumption == English \in Languages /\ Languages \subseteq STRING
ASSUME StemsAssumption ==
    /\ Languages \cap {"api", "none", "", ".", ".."} = {}
    /\ (Languages \cup {"api", "search", "v1"}) \cap (Versioned \cup Slashed \cup Unclean) = {}
ASSUME BasePathAssumption == BasePath \in Seq(Segments)

Plain(stem) == <<stem, 0>>
Empty == Plain("")
Dots == {Plain("."), Plain("..")}
SearchPath == <<Plain("api"), Plain("search"), Plain("v1")>>
PageListPath == <<Plain("api"), Plain("pagelist")>>

None == "none"

Stems(path) == {path[i][1] : i \in DOMAIN path}

\* A path with a slash before it, below the base path: a slash must follow.
UnderBase(path) == Len(path) > Len(BasePath) /\ SubSeq(path, 1, Len(BasePath)) = BasePath
FromBase(path) == SubSeq(path, Len(BasePath) + 1, Len(path))

LastTo(path, segment) == Append(Front(path), segment)

TrimSlash(path) == IF Len(path) > 1 /\ Last(path) = Empty THEN Front(path) ELSE path
TrimMd(path) ==
    IF Last(path)[2] > 0 THEN LastTo(path, <<Last(path)[1], Last(path)[2] - 1>>) ELSE path

cleanSlug(path) == TrimMd(TrimSlash(path))

IsLanguage(segment) == segment[2] = 0 /\ segment[1] \in Languages

\* The language of the view that has a slug.
SlugLanguage(slug) ==
    LET path == cleanSlug(slug) IN IF Len(path) > 1 THEN path[1][1] ELSE English

languagePath(path) == IF IsLanguage(path[1]) THEN path[1][1] ELSE None

-----------------------------------------------------------------------------
(* References *)

\* An input, as url.Parse reads it.  origin is "none" for a path alone,
\* "schemeless" for //host, "base" or "other" for a full URL.
IsReferenceURL(r) ==
    /\ ~r.userinfo
    /\ r.origin \in {"none", "base"}
    /\ ~r.query
    /\ ~r.encoded

validateReferencePath(path) ==
    /\ Stems(path) \cap (Slashed \cup Unclean) = {}
    /\ \A i \in DOMAIN path : path[i] \notin {Empty} \cup Dots
    /\ Len(path) > 1
    /\ path[2][1] \notin Versioned

\* The slug a reference would have.
ReferencePath(r) == cleanSlug(IF r.rooted THEN FromBase(r.path) ELSE r.path)

IsReference(r) ==
    /\ IsReferenceURL(r)
    /\ r.rooted => UnderBase(r.path)
    /\ validateReferencePath(ReferencePath(r))
    /\ IsLanguage(ReferencePath(r)[1])

\* The same page in English.
EnglishAlternative(slug) == <<Plain(English)>> \o Tail(slug)

\* A slug, given as a reference.
AsReference(slug) ==
    [origin |-> "none", userinfo |-> FALSE, query |-> FALSE, encoded |-> FALSE,
     rooted |-> FALSE, path |-> slug]

-----------------------------------------------------------------------------
(* Requests *)

\* language is that of a query, which only a search has.
URL(path, language) ==
    [origin |-> "base", userinfo |-> FALSE, encoded |-> FALSE,
     path |-> BasePath \o path, language |-> language]

markdownURL(slug) == URL(LastTo(slug, <<Last(slug)[1], Last(slug)[2] + 1>>), None)
searchURL(language) == URL(SearchPath, language)
pageListURL(language) == URL(PageListPath \o <<Plain(language), Plain("version")>>, None)
curatedURL == URL(<<Plain("llms.txt")>>, None)

validateFetchScope(u) ==
    /\ u.origin = "base" /\ ~u.userinfo
    /\ UnderBase(u.path)
    /\ \A i \in DOMAIN FromBase(u.path) : FromBase(u.path)[i] \notin Dots
    /\ Stems(FromBase(u.path)) \cap Slashed = {}
    /\ ~u.encoded
    /\ languagePath(FromBase(u.path)) # None => validateReferencePath(FromBase(u.path))

\* The language a request asks for, if it can be told.
requestLanguage(u) ==
    LET path == FromBase(u.path)
    IN  IF path = SearchPath THEN u.language
        ELSE IF Len(path) > 2 /\ SubSeq(path, 1, 2) = PageListPath /\ IsLanguage(path[3])
             THEN path[3][1]
             ELSE languagePath(path)

\* The location of a redirect, before it is resolved.
validateRedirectLocation(path) == \A i \in DOMAIN path : path[i] \notin Dots
=============================================================================
