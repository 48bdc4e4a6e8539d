---------------------------- MODULE SearchProofs ----------------------------
(***************************************************************************)
(* For any base path, languages, references and chains of redirects: what  *)
(* the validator of references lets through, the validator of requests     *)
(* never refuses, no request leaves the origin or the language, and each   *)
(* page that an answer names can be asked for.  For any catalogue, query   *)
(* and changes of the cache: a caller that waits gets an answer, and that  *)
(* of the search without the origin is complete, ranked and justified.     *)
(***************************************************************************)
EXTENDS Search, SequenceTheorems, FiniteSetTheorems, DataTheorems, TLAPS

USE DEF None

\* A page's path that the validator of references accepts.
ValidPath(p) ==
    /\ p \in Seq(Segments)
    /\ validateReferencePath(p)
    /\ IsLanguage(p[1])

-----------------------------------------------------------------------------
(* Paths *)

LEMMA PartOf ==
    ASSUME NEW S, NEW s \in Seq(S), NEW m \in Nat, NEW n \in Nat, Len(s) = m + n
    PROVE  /\ SubSeq(s, 1, m) \in Seq(S)
           /\ Len(SubSeq(s, 1, m)) = m
           /\ \A i \in 1..m : SubSeq(s, 1, m)[i] = s[i]
           /\ SubSeq(s, m + 1, Len(s)) \in Seq(S)
           /\ Len(SubSeq(s, m + 1, Len(s))) = n
           /\ \A i \in 1..n : SubSeq(s, m + 1, Len(s))[i] = s[m + i]
  OBVIOUS

LEMMA FrontOf ==
    ASSUME NEW S, NEW s \in Seq(S), s # <<>>
    PROVE  \E n \in Nat :
              /\ Len(s) = n + 1
              /\ Front(s) \in Seq(S)
              /\ Len(Front(s)) = n
              /\ \A i \in 1..n : Front(s)[i] = s[i]
  <1>1. PICK n \in Nat : Len(s) = n + 1 /\ Len(s) - 1 = n
    OBVIOUS
  <1>2. /\ SubSeq(s, 1, n) \in Seq(S)
        /\ Len(SubSeq(s, 1, n)) = n
        /\ \A i \in 1..n : SubSeq(s, 1, n)[i] = s[i]
    BY <1>1, PartOf
  <1>3. Front(s) = SubSeq(s, 1, n)
    BY <1>1 DEF Front
  <1>4. QED
    BY <1>1, <1>2, <1>3

LEMMA LastToPath ==
    ASSUME NEW s \in Seq(Segments), s # <<>>, NEW e \in Segments
    PROVE  /\ LastTo(s, e) \in Seq(Segments) \ {<<>>}
           /\ Len(LastTo(s, e)) = Len(s)
           /\ \A i \in 1 .. Len(s) : i # Len(s) => LastTo(s, e)[i] = s[i]
           /\ LastTo(s, e)[Len(s)] = e
  <1>1. PICK n \in Nat :
              /\ Len(s) = n + 1
              /\ Front(s) \in Seq(Segments)
              /\ Len(Front(s)) = n
              /\ \A i \in 1..n : Front(s)[i] = s[i]
    BY FrontOf
  <1> DEFINE whole == Append(Front(s), e)
  <1>2. /\ whole \in Seq(Segments)
        /\ Len(whole) = n + 1
        /\ \A i \in 1..n : whole[i] = Front(s)[i]
        /\ whole[n + 1] = e
    BY <1>1
  <1>3. LastTo(s, e) = whole
    BY DEF LastTo
  <1> HIDE DEF whole
  <1>4. QED
    BY <1>1, <1>2, <1>3

\* A path given to URL is what follows the base path.
LEMMA BelowBase ==
    ASSUME NEW S, BasePath \in Seq(S), NEW p \in Seq(S), p # <<>>
    PROVE  /\ BasePath \o p \in Seq(S)
           /\ UnderBase(BasePath \o p)
           /\ FromBase(BasePath \o p) = p
  <1> DEFINE whole == BasePath \o p
  <1>1. BasePath \in Seq(S)
    OBVIOUS
  <1>2. /\ whole \in Seq(S)
        /\ Len(whole) = Len(BasePath) + Len(p)
        /\ \A i \in 1..Len(BasePath) : whole[i] = BasePath[i]
        /\ \A i \in 1..Len(p) : whole[Len(BasePath) + i] = p[i]
    BY <1>1
  <1>3. Len(BasePath) \in Nat /\ Len(p) \in Nat \ {0}
    BY <1>1
  <1> HIDE DEF whole
  <1>4. SubSeq(whole, 1, Len(BasePath)) = BasePath
    <2>1. /\ SubSeq(whole, 1, Len(BasePath)) \in Seq(S)
          /\ Len(SubSeq(whole, 1, Len(BasePath))) = Len(BasePath)
          /\ \A i \in 1..Len(BasePath) : SubSeq(whole, 1, Len(BasePath))[i] = whole[i]
      BY <1>2, <1>3, PartOf
    <2>2. QED
      BY <1>1, <1>2, <2>1, SeqEqual
  <1>5. SubSeq(whole, Len(BasePath) + 1, Len(whole)) = p
    <2> DEFINE rest == SubSeq(whole, Len(BasePath) + 1, Len(whole))
    <2>1. /\ rest \in Seq(S)
          /\ Len(rest) = Len(p)
          /\ \A i \in 1..Len(p) : rest[i] = whole[Len(BasePath) + i]
      BY <1>2, <1>3, PartOf
    <2> HIDE DEF rest
    <2>2. rest = p
      BY <1>2, <2>1, SeqEqual
    <2>3. QED
      BY <2>2 DEF rest
  <1>6. QED
    BY <1>2, <1>3, <1>4, <1>5 DEF UnderBase, FromBase, whole

\* What is made of a path to have its slug.
LEMMA CleanPath ==
    ASSUME NEW p \in Seq(Segments), p # <<>>
    PROVE  cleanSlug(p) \in Seq(Segments) \ {<<>>}
  <1> DEFINE q == TrimSlash(p)
  <1>1. q \in Seq(Segments) \ {<<>>}
    <2>1. CASE Len(p) > 1 /\ Last(p) = Empty
      <3>1. PICK n \in Nat : Len(p) = n + 1 /\ Front(p) \in Seq(Segments) /\ Len(Front(p)) = n
        BY FrontOf
      <3>2. n > 0
        BY <2>1, <3>1
      <3>3. Front(p) # <<>>
        BY <3>1, <3>2
      <3>4. TrimSlash(p) = Front(p)
        BY <2>1 DEF TrimSlash
      <3>5. QED
        BY <3>1, <3>3, <3>4
    <2>2. CASE ~(Len(p) > 1 /\ Last(p) = Empty)
      BY <2>2 DEF TrimSlash
    <2>3. QED
      BY <2>1, <2>2
  <1> HIDE DEF q
  <1>2. TrimMd(q) \in Seq(Segments) \ {<<>>}
    <2>1. Len(q) \in 1..Len(q) /\ q[Len(q)] \in Segments
      BY <1>1
    <2>2. Last(q) \in Segments
      BY <2>1 DEF Last
    <2>3. CASE Last(q)[2] > 0
      <3>1. <<Last(q)[1], Last(q)[2] - 1>> \in Segments
        BY <2>2, <2>3 DEF Segments
      <3>2. QED
        BY <1>1, <2>3, <3>1, LastToPath DEF TrimMd
    <2>4. CASE ~(Last(q)[2] > 0)
      BY <1>1, <2>4 DEF TrimMd
    <2>5. QED
      BY <2>3, <2>4
  <1>3. QED
    BY <1>2 DEF cleanSlug, q

\* A reference is for a valid path.
LEMMA ReferencesAreValid ==
    ASSUME NEW r, r.path \in Seq(Segments) \ {<<>>}, IsReference(r)
    PROVE  ValidPath(ReferencePath(r))
  <1> DEFINE p == IF r.rooted THEN FromBase(r.path) ELSE r.path
  <1>1. p \in Seq(Segments) \ {<<>>}
    <2>1. CASE r.rooted
      <3>1. Len(r.path) > Len(BasePath) /\ Len(BasePath) \in Nat /\ Len(r.path) \in Nat
        BY <2>1, BasePathAssumption DEF IsReference, UnderBase
      <3>2. Len(r.path) - Len(BasePath) \in Nat \ {0}
        BY <3>1
      <3> DEFINE n == Len(r.path) - Len(BasePath)
      <3>3. FromBase(r.path) \in Seq(Segments) /\ Len(FromBase(r.path)) = n
        BY <3>1, <3>2, PartOf, BasePathAssumption DEF FromBase
      <3>4. FromBase(r.path) # <<>>
        BY <3>2, <3>3
      <3>5. QED
        BY <2>1, <3>3, <3>4
    <2>2. CASE ~r.rooted
      BY <2>2
    <2>3. QED
      BY <2>1, <2>2
  <1> HIDE DEF p
  <1>2. cleanSlug(p) \in Seq(Segments)
    BY <1>1, CleanPath
  <1>3. ReferencePath(r) = cleanSlug(p)
    BY DEF ReferencePath, p
  <1>4. QED
    BY <1>2, <1>3 DEF ValidPath, IsReference

\* The slug of a valid path, by the service's rules, is in its language.
LEMMA LanguageOfPath ==
    ASSUME NEW p, ValidPath(p)
    PROVE  SlugLanguage(p) = p[1][1]
  <1>1. /\ p \in Seq(Segments) /\ Len(p) \in Nat /\ Len(p) > 1
        /\ \A i \in 1..Len(p) : p[i] # Empty /\ p[i] \in Segments
    BY DEF ValidPath, validateReferencePath
  <1>2. TrimSlash(p) = p
    BY <1>1 DEF TrimSlash, Last
  <1>3. TrimMd(p)[1] = p[1] /\ Len(TrimMd(p)) = Len(p)
    <2>1. Last(p) \in Segments
      BY <1>1 DEF Last
    <2>2. CASE Last(p)[2] > 0
      <3>1. <<Last(p)[1], Last(p)[2] - 1>> \in Segments
        BY <2>1, <2>2 DEF Segments
      <3>2. QED
        BY <1>1, <2>2, <3>1, LastToPath DEF TrimMd
    <2>3. CASE ~(Last(p)[2] > 0)
      BY <2>3 DEF TrimMd
    <2>4. QED
      BY <2>2, <2>3
  <1>4. QED
    BY <1>1, <1>2, <1>3 DEF SlugLanguage, cleanSlug

-----------------------------------------------------------------------------
(* Requests *)

LEMMA PlainSegments == \A stem : Plain(stem)[1] = stem /\ Plain(stem)[2] = 0
  BY DEF Plain

LEMMA PlainDiffer == ASSUME NEW a, NEW b, a # b PROVE Plain(a) # Plain(b)
  <1>1. Plain(a)[1] = a /\ Plain(b)[1] = b
    BY PlainSegments
  <1>2. QED
    BY <1>1, Zenon

\* The request for the published page is in scope, and in the page's language.
LEMMA PageInScope ==
    ASSUME NEW p, ValidPath(p)
    PROVE  /\ validateFetchScope(URL(p, None))
           /\ requestLanguage(URL(p, None)) = p[1][1]
  <1> DEFINE u == URL(p, None)
  <1>1. /\ p \in Seq(Segments) /\ p # <<>>
        /\ p[1][1] \in Languages
        /\ \A i \in DOMAIN p : p[i] \notin Dots
        /\ Stems(p) \cap Slashed = {}
    BY DEF ValidPath, validateReferencePath, IsLanguage
  <1>2. UnderBase(BasePath \o p) /\ FromBase(BasePath \o p) = p
    BY <1>1, BelowBase, BasePathAssumption
  <1>3. u.path = BasePath \o p /\ u.origin = "base" /\ u.userinfo = FALSE /\ u.encoded = FALSE
    BY DEF URL
  <1> HIDE DEF u
  <1>4. validateFetchScope(u)
    <2>1. UnderBase(u.path) /\ FromBase(u.path) = p /\ validateReferencePath(p)
      BY <1>2, <1>3 DEF ValidPath
    <2>2. QED
      BY <1>1, <1>3, <2>1, Zenon DEF validateFetchScope
  <1>5. requestLanguage(u) = p[1][1]
    <2>1. p[1] # Plain("api")
      BY <1>1, PlainSegments, StemsAssumption
    <2>2. p # SearchPath
      BY <2>1 DEF SearchPath
    <2>3. SubSeq(p, 1, 2) # PageListPath
      <3>1. Len(p) > 1
        BY DEF ValidPath, validateReferencePath
      <3>2. SubSeq(p, 1, 2)[1] = p[1]
        <4>1. PICK n \in Nat : Len(p) = 2 + n
          BY <1>1, <3>1
        <4>2. \A i \in 1..2 : SubSeq(p, 1, 2)[i] = p[i]
          BY <1>1, <4>1, PartOf
        <4>3. QED
          BY <4>2
      <3>3. QED
        <4>1. PageListPath[1] = Plain("api")
          BY DEF PageListPath
        <4>2. QED
          BY <2>1, <3>2, <4>1, Zenon
    <2>4. languagePath(p) = p[1][1]
      BY DEF languagePath, ValidPath
    <2>5. QED
      BY <1>2, <1>3, <2>2, <2>3, <2>4 DEF requestLanguage
  <1>6. QED
    BY <1>3, <1>4, <1>5 DEF u

\* So is the one for its source.
LEMMA SourceInScope ==
    ASSUME NEW p, ValidPath(p)
    PROVE  /\ validateFetchScope(markdownURL(p))
           /\ requestLanguage(markdownURL(p)) = p[1][1]
  <1> DEFINE e == <<Last(p)[1], Last(p)[2] + 1>>
             q == LastTo(p, e)
  <1>1. /\ p \in Seq(Segments) /\ p # <<>> /\ Len(p) \in Nat /\ Len(p) > 1
        /\ \A i \in 1..Len(p) : p[i] \in Segments
    BY DEF ValidPath, validateReferencePath
  <1>2. e \in Segments /\ e[1] = p[Len(p)][1] /\ e[2] # 0
    BY <1>1 DEF Last, Segments
  <1> HIDE DEF e
  <1>3. /\ q \in Seq(Segments)
        /\ Len(q) = Len(p)
        /\ \A i \in 1..Len(p) : i # Len(p) => q[i] = p[i]
        /\ q[Len(p)] = e
    BY <1>1, <1>2, LastToPath
  <1> HIDE DEF q
  <1>4. DOMAIN q = 1..Len(p) /\ DOMAIN p = 1..Len(p)
    BY <1>1, <1>3
  <1>5. \A i \in 1..Len(p) : q[i][1] = p[i][1]
    BY <1>2, <1>3
  <1>6. Stems(q) = Stems(p)
    BY <1>4, <1>5 DEF Stems
  <1>7. e \notin {Empty} \cup Dots
    BY <1>2, PlainSegments, Zenon DEF Empty, Dots
  <1>8. \A i \in 1..Len(p) : q[i] \notin {Empty} \cup Dots
    BY <1>3, <1>4, <1>7 DEF ValidPath, validateReferencePath
  <1>9. q[1] = p[1] /\ q[2][1] = p[2][1]
    BY <1>1, <1>3, <1>5
  <1>10. ValidPath(q)
    BY <1>1, <1>3, <1>4, <1>6, <1>8, <1>9 DEF ValidPath, validateReferencePath
  <1>11. markdownURL(p) = URL(q, None)
    BY DEF markdownURL, q, e
  <1>12. QED
    BY <1>9, <1>10, <1>11, PageInScope

\* And the one for a search.
LEMMA QueryInScope ==
    ASSUME NEW language \in Languages
    PROVE  /\ validateFetchScope(searchURL(language))
           /\ requestLanguage(searchURL(language)) = language
  <1> DEFINE u == searchURL(language)
             steps == {Plain("api"), Plain("search"), Plain("v1")}
  <1>1. /\ SearchPath \in Seq(steps) /\ SearchPath # <<>>
        /\ DOMAIN SearchPath = 1..3
        /\ SearchPath[1] = Plain("api") /\ SearchPath[2] = Plain("search") /\ SearchPath[3] = Plain("v1")
    BY DEF SearchPath
  <1>2. UnderBase(BasePath \o SearchPath) /\ FromBase(BasePath \o SearchPath) = SearchPath
    <2>1. BasePath \in Seq(Segments \cup steps) /\ SearchPath \in Seq(Segments \cup steps)
      BY <1>1, BasePathAssumption
    <2>2. QED
      BY <1>1, <2>1, BelowBase
  <1>3. /\ u.path = BasePath \o SearchPath /\ u.origin = "base" /\ u.userinfo = FALSE
        /\ u.encoded = FALSE /\ u.language = language
    BY DEF searchURL, URL
  <1> HIDE DEF u
  <1>4. \A i \in DOMAIN SearchPath : SearchPath[i] \notin Dots
    <2>1. Plain("api") \notin Dots /\ Plain("search") \notin Dots /\ Plain("v1") \notin Dots
      BY DEF Plain, Dots
    <2>2. QED
      BY <1>1, <2>1
  <1>5. Stems(SearchPath) \cap Slashed = {}
    <2>1. Stems(SearchPath) \subseteq {"api", "search", "v1"}
      BY <1>1, PlainSegments DEF Stems
    <2>2. QED
      BY <2>1, StemsAssumption
  <1>6. languagePath(SearchPath) = None
    <2>1. SearchPath[1][1] = "api"
      BY <1>1, PlainSegments
    <2>2. QED
      BY <2>1, StemsAssumption DEF languagePath, IsLanguage
  <1>7. UnderBase(u.path) /\ FromBase(u.path) = SearchPath
    BY <1>2, <1>3
  <1>8. validateFetchScope(u)
    BY <1>3, <1>4, <1>5, <1>6, <1>7, Zenon DEF validateFetchScope
  <1>9. requestLanguage(u) = language
    BY <1>3, <1>7 DEF requestLanguage
  <1>10. QED
    BY <1>3, <1>8, <1>9 DEF u

-----------------------------------------------------------------------------
(* One fetch *)

\* The requests of an attempt begin with the one asked for.
RequestInv ==
    /\ via \in Seq({asked} \cup {location.url : location \in Redirects})
    /\ phase = "sent" => via # <<>>
    /\ via # <<>> => via[1] = asked /\ validateFetchScope(asked)
    /\ phase # "refused"
    /\ RequestsStayInScope

LEMMA FetchBegins ==
    ASSUME NEW u, validateFetchScope(u), NEW forAnchor \in BOOLEAN, Fetch(u, forAnchor)
    PROVE  RequestInv' /\ asked' = u
  <1>1. asked' = u /\ phase' = "sent" /\ via' = <<u>> /\ accepted' = NoAnswer
    BY DEF Fetch
  <1>2. u.origin = "base" /\ UnderBase(u.path)
    BY DEF validateFetchScope
  <1>3. RequestsStayInScope'
    BY <1>1, <1>2 DEF RequestsStayInScope
  <1>4. QED
    BY <1>1, <1>3 DEF RequestInv

LEMMA EndInScope ==
    ASSUME RequestInv, NEW outcome \in {"missing", "html", "failed", "oversized"}, End(outcome)
    PROVE  RequestInv' /\ asked' = asked
  <1>1. outcome # "body" /\ outcome # "sent" /\ outcome # "refused"
    OBVIOUS
  <1>2. RequestsStayInScope'
    BY <1>1 DEF RequestInv, RequestsStayInScope, End
  <1>3. QED
    BY <1>1, <1>2 DEF RequestInv, End

LEMMA RetryInScope ==
    ASSUME RequestInv, phase = "sent", Retry
    PROVE  RequestInv' /\ asked' = asked
  <1>1. CASE attempt = MaxAttempts
    BY <1>1, EndInScope DEF Retry
  <1>2. CASE attempt # MaxAttempts
    <2>1. via' = <<asked>> /\ asked' = asked /\ phase' = "sent"
      BY <1>2 DEF Retry
    <2>2. asked.origin = "base" /\ UnderBase(asked.path) /\ validateFetchScope(asked)
      BY DEF RequestInv, validateFetchScope
    <2>3. RequestsStayInScope'
      BY <2>1, <2>2 DEF RequestsStayInScope
    <2>4. QED
      BY <2>1, <2>2, <2>3 DEF RequestInv
  <1>3. QED
    BY <1>1, <1>2

LEMMA RequestsInScope ==
    ASSUME RequestInv, RequestStep
    PROVE  RequestInv' /\ asked' = asked
  <1>1. CASE Redirect
    <2>1. phase = "sent" /\ via # <<>> /\ via[1] = asked /\ validateFetchScope(asked)
      BY <1>1 DEF Redirect, RequestInv
    <2>2. PICK location \in Redirects :
            \/ ~Followable(location) /\ Retry
            \/ Followable(location) /\ ~StaysInLanguage(location.url) /\ End("missing")
            \/ /\ Followable(location) /\ StaysInLanguage(location.url)
               /\ via' = Append(via, location.url)
               /\ UNCHANGED <<phase, asked, anchor, attempt, accepted>>
      BY <1>1 DEF Redirect
    <2>3. CASE Retry
      BY <2>1, <2>3, RetryInScope
    <2>4. CASE End("missing")
      BY <2>4, EndInScope
    <2>5. CASE /\ Followable(location) /\ StaysInLanguage(location.url)
               /\ via' = Append(via, location.url)
               /\ UNCHANGED <<phase, asked, anchor, attempt, accepted>>
      <3> DEFINE u == location.url
                 Reached == {asked} \cup {l.url : l \in Redirects}
      <3>1. u.origin = "base" /\ UnderBase(u.path)
        BY <2>5 DEF Followable, validateFetchScope
      <3>2. requestLanguage(asked) # None => requestLanguage(u) = requestLanguage(asked)
        BY <2>1, <2>5 DEF StaysInLanguage
      <3>3. u \in Reached /\ via \in Seq(Reached)
        BY DEF RequestInv
      <3> HIDE DEF u, Reached
      <3>4. /\ Append(via, u) \in Seq(Reached)
            /\ Append(via, u) # <<>>
            /\ Append(via, u)[1] = via[1]
            /\ \A i \in DOMAIN Append(via, u) :
                  \/ i \in DOMAIN via /\ Append(via, u)[i] = via[i]
                  \/ Append(via, u)[i] = u
        BY <2>1, <3>3
      <3>5. via' = Append(via, u) /\ asked' = asked /\ phase' = phase /\ anchor' = anchor /\ accepted' = accepted
        BY <2>5 DEF u
      <3>6. RequestsStayInScope'
        BY <3>1, <3>2, <3>4, <3>5 DEF RequestInv, RequestsStayInScope
      <3>7. via' \in Seq({asked'} \cup {l.url : l \in Redirects})
        BY <3>4, <3>5 DEF Reached
      <3>8. QED
        BY <2>1, <3>4, <3>5, <3>6, <3>7 DEF RequestInv
    <2>6. QED
      BY <2>2, <2>3, <2>4, <2>5
  <1>2. CASE AttemptFails
    BY <1>2, RetryInScope DEF AttemptFails
  <1>3. CASE Missing
    BY <1>3, EndInScope DEF Missing
  <1>4. CASE FinalStatus
    BY <1>4, EndInScope DEF FinalStatus
  <1>5. CASE Answer
    <2>1. PICK language \in Languages \cup {None}, isHTML \in BOOLEAN, tooLong \in BOOLEAN :
            \/ \E outcome \in {"missing", "html", "oversized"} : End(outcome)
            \/ /\ ContentLanguageMatches(language) /\ (isHTML => anchor)
               /\ phase' = "body"
               /\ accepted' = [language |-> language, html |-> isHTML,
                               cap |-> IF anchor THEN "catalogue" ELSE bodyCap(asked)]
               /\ UNCHANGED <<asked, anchor, via, attempt>>
      BY <1>5 DEF Answer
    <2>2. CASE \E outcome \in {"missing", "html", "oversized"} : End(outcome)
      BY <2>2, EndInScope
    <2>3. CASE /\ ContentLanguageMatches(language) /\ (isHTML => anchor)
               /\ phase' = "body"
               /\ accepted' = [language |-> language, html |-> isHTML,
                               cap |-> IF anchor THEN "catalogue" ELSE bodyCap(asked)]
               /\ UNCHANGED <<asked, anchor, via, attempt>>
      <3>1. accepted'.language = language /\ accepted'.html = isHTML
        BY <2>3
      <3>2. requestLanguage(asked) # None => language \in {None, requestLanguage(asked)}
        BY <2>3 DEF ContentLanguageMatches
      <3>3. RequestsStayInScope'
        BY <2>3, <3>1, <3>2 DEF RequestInv, RequestsStayInScope
      <3>4. QED
        BY <2>3, <3>3 DEF RequestInv
    <2>4. QED
      BY <2>1, <2>2, <2>3
  <1>6. QED
    BY <1>1, <1>2, <1>3, <1>4, <1>5 DEF RequestStep

-----------------------------------------------------------------------------
(* A call *)

SearchInv ==
    /\ RequestInv
    /\ pc \in {"page", "anchor", "origin"} => requestLanguage(asked) = view
    /\ pc \in {"find", "page", "anchor"} => ValidPath(slug) /\ view = slug[1][1]
    /\ pc = "index" => view \in Languages

LEMMA ForgetInScope ==
    ASSUME Forget
    PROVE  RequestInv'
  <1>1. phase' = "idle" /\ via' = <<>>
    BY DEF Forget
  <1>2. RequestsStayInScope'
    BY <1>1 DEF RequestsStayInScope
  <1>3. QED
    BY <1>1, <1>2 DEF RequestInv

LEMMA IdleInScope ==
    ASSUME RequestInv, UNCHANGED fetchVars
    PROVE  RequestInv' /\ asked' = asked
  BY DEF RequestInv, RequestsStayInScope, fetchVars

LEMMA InvImplies == SearchInv => CallsStayInScope
  BY DEF SearchInv, RequestInv, CallsStayInScope

LEMMA InitEstablishes == Init => SearchInv
  <1> SUFFICES ASSUME Init PROVE SearchInv
    OBVIOUS
  <1>1. phase = "idle" /\ via = <<>> /\ pc = "idle"
    BY DEF Init, RequestInit
  <1>2. RequestsStayInScope
    BY <1>1 DEF RequestsStayInScope
  <1>3. QED
    BY <1>1, <1>2 DEF SearchInv, RequestInv

\* The page a call of get_doc is for.
LEMMA PageOf ==
    ASSUME GetDoc
    PROVE  /\ UNCHANGED fetchVars /\ pc' \in {"find", "rejected"}
           /\ pc' = "find" => ValidPath(slug') /\ view' = slug'[1][1]
  <1>1. CASE pc' # "find"
    BY <1>1 DEF GetDoc
  <1>2. CASE pc' = "find"
    <2>1. PICK r \in Inputs :
            /\ IsReference(r) /\ IsReference(AsReference(ReferencePath(r)))
            /\ slug' = ReferencePath(AsReference(ReferencePath(r))) /\ view' = SlugLanguage(slug')
      BY <1>2 DEF GetDoc
    <2>2. PICK path : path = ReferencePath(r)
      OBVIOUS
    <2>3. ValidPath(path)
      BY <2>1, <2>2, InputsAssumption, ReferencesAreValid
    <2>4. AsReference(path).path \in Seq(Segments) \ {<<>>}
      BY <2>3 DEF AsReference, ValidPath, validateReferencePath
    <2>5. ValidPath(slug')
      BY <2>1, <2>2, <2>4, ReferencesAreValid
    <2>6. SlugLanguage(slug') = slug'[1][1]
      BY <2>5, LanguageOfPath
    <2>7. QED
      BY <1>2, <2>1, <2>5, <2>6 DEF GetDoc
  <1>3. QED
    BY <1>1, <1>2

LEMMA GetDocInScope ==
    ASSUME SearchInv, GetDoc
    PROVE  SearchInv'
  <1>1. /\ UNCHANGED fetchVars /\ pc' \in {"find", "rejected"}
        /\ pc' = "find" => ValidPath(slug') /\ view' = slug'[1][1]
    BY PageOf
  <1>2. RequestInv'
    BY <1>1, IdleInScope DEF SearchInv
  <1>3. pc' = "find" => ValidPath(slug)' /\ view' = slug'[1][1]
    BY <1>1 DEF ValidPath
  <1>4. QED
    BY <1>1, <1>2, <1>3 DEF SearchInv

LEMMA FindPageInScope ==
    ASSUME SearchInv, FindPage
    PROVE  SearchInv'
  <1>1. /\ ValidPath(slug) /\ view = slug[1][1] /\ slug' = slug /\ view' = view
        /\ \/ pc' = "page" /\ Fetch(markdownURL(slug), FALSE)
           \/ pc' = "absent" /\ UNCHANGED fetchVars
    BY DEF SearchInv, FindPage
  <1>2. CASE pc' = "absent" /\ UNCHANGED fetchVars
    BY <1>2, IdleInScope DEF SearchInv
  <1>3. CASE pc' = "page" /\ Fetch(markdownURL(slug), FALSE)
    <2>1. validateFetchScope(markdownURL(slug)) /\ requestLanguage(markdownURL(slug)) = slug[1][1]
      BY <1>1, SourceInScope
    <2>2. RequestInv' /\ asked' = markdownURL(slug)
      BY <1>3, <2>1, FetchBegins
    <2>3. QED
      BY <1>1, <1>3, <2>1, <2>2 DEF SearchInv
  <1>4. QED
    BY <1>1, <1>2, <1>3

LEMMA SearchDocsInScope ==
    ASSUME SearchInv, SearchDocs
    PROVE  SearchInv'
  <1>1. /\ UNCHANGED fetchVars /\ pc' \in {"index", "rejected"}
        /\ pc' = "index" => view' \in Languages
    BY DEF SearchDocs
  <1>2. QED
    BY <1>1, IdleInScope DEF SearchInv

LEMMA SearchWithSourcesInScope ==
    ASSUME SearchInv, SearchWithSources
    PROVE  SearchInv'
  <1>1. CASE pc' # "origin"
    <2>1. UNCHANGED fetchVars /\ pc' \in {"answered", "fallback"}
      BY <1>1 DEF SearchWithSources
    <2>2. QED
      BY <2>1, IdleInScope DEF SearchInv
  <1>2. CASE pc' = "origin"
    <2>1. view \in Languages /\ view' = view /\ Fetch(searchURL(view), FALSE)
      BY <1>2 DEF SearchWithSources, SearchInv
    <2>2. validateFetchScope(searchURL(view)) /\ requestLanguage(searchURL(view)) = view
      BY <2>1, QueryInScope
    <2>3. RequestInv' /\ asked' = searchURL(view)
      BY <2>1, <2>2, FetchBegins
    <2>4. QED
      BY <1>2, <2>1, <2>2, <2>3 DEF SearchInv
  <1>3. QED
    BY <1>1, <1>2

LEMMA ResolveInScope ==
    ASSUME SearchInv, ResolveHeading
    PROVE  SearchInv'
  <1>1. /\ ValidPath(slug) /\ view = slug[1][1]
        /\ slug' = slug /\ view' = view /\ pc' = "anchor"
        /\ Fetch(URL(slug, None), TRUE)
    BY DEF SearchInv, ResolveHeading
  <1>2. validateFetchScope(URL(slug, None)) /\ requestLanguage(URL(slug, None)) = slug[1][1]
    BY <1>1, PageInScope
  <1>3. RequestInv' /\ asked' = URL(slug, None)
    BY <1>1, <1>2, FetchBegins
  <1>4. QED
    BY <1>1, <1>2, <1>3 DEF SearchInv

LEMMA NextPreserves ==
    ASSUME SearchInv, [Next]_vars
    PROVE  SearchInv'
  <1> DEFINE Elsewhere == {"upstream", "fallback", "failed", "answered", "absent", "metadata", "local", "degraded",
                         "unavailable"}
  <1>1. CASE GetDoc \/ FindPage
    BY <1>1, GetDocInScope, FindPageInScope
  <1>2. CASE SearchDocs \/ SearchWithSources
    BY <1>2, SearchDocsInScope, SearchWithSourcesInScope
  <1>3. CASE OriginStep
    <2>1. RequestInv' /\ asked' = asked
      BY <1>3, RequestsInScope DEF OriginStep, SearchInv
    <2>2. QED
      BY <1>3, <2>1 DEF OriginStep, SearchInv
  <1>4. CASE ResolveHeading
    BY <1>4, ResolveInScope
  <1>5. CASE SearchOrigin \/ SearchOriginFails
    <2>1. Forget /\ pc' \in Elsewhere
      BY <1>5 DEF SearchOrigin, SearchOriginFails, OriginFailed
    <2>2. QED
      BY <2>1, ForgetInScope DEF SearchInv
  <1>6. CASE PageDone \/ IndexUnavailable \/ GiveUp \/ BeginLocal \/ SearchMetadata \/ FinishLocal \/ StopLocal
    <2>1. UNCHANGED fetchVars /\ pc' \in Elsewhere
      BY <1>6 DEF PageDone, IndexUnavailable, GiveUp, BeginLocal, SearchMetadata, FinishLocal, StopLocal
    <2>2. QED
      BY <2>1, IdleInScope DEF SearchInv
  <1>7. CASE LookUp \/ CacheChanges \/ Cancel \/ Finished \/ UNCHANGED vars
    <2>1. UNCHANGED <<fetchVars, pc, view, slug>>
      BY <1>7 DEF LookUp, CacheChanges, Cancel, Finished, vars
    <2>2. QED
      BY <2>1, IdleInScope DEF SearchInv
  <1>8. QED
    BY <1>1, <1>2, <1>3, <1>4, <1>5, <1>6, <1>7 DEF Next

\* Whatever get_doc or search_docs is given, and wherever the origin
\* redirects, no request is refused by the client's own check, and none leaves
\* the origin, its base path or the language of the call
\* (reference.go, client_scope.go, client.go:106-135).
THEOREM CallsAlwaysStayInScope == Spec => []CallsStayInScope
  <1>1. SearchInv /\ [Next]_vars => SearchInv'
    BY NextPreserves
  <1>2. QED
    BY InitEstablishes, <1>1, InvImplies, PTL DEF Spec

-----------------------------------------------------------------------------
(* The pages that an answer names *)

LEMMA SettledStays ==
    ASSUME NEW p, ValidPath(p), Settled(p)
    PROVE  cleanSlug(p) = p
  <1>1. p \in Seq(Segments) /\ Len(p) \in Nat /\ Len(p) > 1 /\ \A i \in DOMAIN p : p[i] # Empty
    BY DEF ValidPath, validateReferencePath
  <1>2. Last(p) # Empty
    BY <1>1 DEF Last
  <1>3. TrimSlash(p) = p
    BY <1>2 DEF TrimSlash
  <1>4. QED
    BY <1>3 DEF cleanSlug, TrimMd, Settled

LEMMA UnsettledChanges ==
    ASSUME NEW p, ValidPath(p), ~Settled(p)
    PROVE  cleanSlug(p) # p
  <1>1. p \in Seq(Segments) /\ p # <<>> /\ Len(p) \in Nat /\ Len(p) > 1 /\ \A i \in DOMAIN p : p[i] # Empty
    BY DEF ValidPath, validateReferencePath
  <1>2. Len(p) \in DOMAIN p /\ Last(p) = p[Len(p)] /\ Last(p) \in Segments
    BY <1>1 DEF Last
  <1>3. TrimSlash(p) = p
    BY <1>1, <1>2 DEF TrimSlash
  <1>4. Last(p)[2] \in Nat /\ Last(p)[2] # 0
    BY <1>2 DEF Segments, Settled
  <1>5. PICK e : e = <<Last(p)[1], Last(p)[2] - 1>>
    OBVIOUS
  <1>6. e \in Segments /\ e # Last(p)
    BY <1>2, <1>4, <1>5 DEF Segments
  <1>7. cleanSlug(p) = LastTo(p, e)
    BY <1>3, <1>4, <1>5 DEF cleanSlug, TrimMd
  <1>8. LastTo(p, e)[Len(p)] = e
    BY <1>1, <1>6, LastToPath
  <1>9. QED
    BY <1>2, <1>6, <1>7, <1>8

\* The slug of a page is a reference to that page, unless it ends in ".md".
LEMMA SlugOpens ==
    ASSUME NEW p, ValidPath(p)
    PROVE  (TakenFor(p) <=> Settled(p)) /\ SlugLanguage(p) = p[1][1]
  <1>1. ReferencePath(AsReference(p)) = cleanSlug(p)
    BY DEF ReferencePath, AsReference
  <1>2. CASE Settled(p)
    <2>1. ReferencePath(AsReference(p)) = p
      BY <1>1, <1>2, SettledStays
    <2>2. IsReference(AsReference(p))
      BY <2>1 DEF IsReference, IsReferenceURL, AsReference, ValidPath
    <2>3. QED
      BY <1>2, <2>1, <2>2, LanguageOfPath DEF TakenFor
  <1>3. CASE ~Settled(p)
    BY <1>1, <1>3, UnsettledChanges, LanguageOfPath DEF TakenFor
  <1>4. QED
    BY <1>2, <1>3

LEMMA EnglishOpens ==
    ASSUME NEW p, ValidPath(p)
    PROVE  LET english == EnglishAlternative(p)
           IN  (TakenFor(english) <=> Settled(p)) /\ SlugLanguage(english) = English
  <1> DEFINE e == EnglishAlternative(p)
  <1>1. p \in Seq(Segments) /\ p # <<>> /\ Len(p) > 1 /\ Plain(English) \in Segments
    <2>1. English \in STRING
      BY LanguagesAssumption
    <2>2. Plain(English) \in Segments
      BY <2>1 DEF Plain, Segments
    <2>3. QED
      BY <2>2 DEF ValidPath, validateReferencePath
  <1>2. PICK n \in Nat : Len(p) = n + 1 /\ n >= 1
    <2>1. Len(p) - 1 \in Nat /\ Len(p) = (Len(p) - 1) + 1 /\ Len(p) - 1 >= 1
      BY <1>1
    <2>2. QED
      BY <2>1
  <1>3. /\ e \in Seq(Segments) /\ Len(e) = n + 1 /\ e[1] = Plain(English)
        /\ \A i \in 2..(n + 1) : e[i] = p[i]
    <2>1. PICK t : t = Tail(p)
      OBVIOUS
    <2>2. t \in Seq(Segments) /\ Len(t) = n /\ \A i \in 1..n : t[i] = p[i + 1]
      BY <1>1, <1>2, <2>1
    <2>3. PICK h : h = <<Plain(English)>> \o t
      OBVIOUS
    <2>4. h \in Seq(Segments) /\ Len(h) = n + 1 /\ h[1] = Plain(English)
          /\ \A i \in 2..(n + 1) : h[i] = t[i - 1]
      BY <1>1, <2>2, <2>3
    <2>5. \A i \in 2..(n + 1) : i - 1 \in 1..n /\ (i - 1) + 1 = i
      BY <1>2
    <2>6. QED
      BY <2>1, <2>2, <2>3, <2>4, <2>5 DEF EnglishAlternative
  <1> HIDE DEF e
  <1>4. ValidPath(e) /\ (Settled(e) <=> Settled(p))
    <2>1. \A i \in DOMAIN e : i = 1 \/ (i \in DOMAIN p /\ e[i] = p[i])
      BY <1>1, <1>2, <1>3
    <2>2. Stems(e) \subseteq Stems(p) \cup {English}
      BY <1>3, <2>1, PlainSegments DEF Stems
    <2>3. English \notin Slashed \cup Unclean /\ English \notin {"", ".", ".."}
      BY LanguagesAssumption, StemsAssumption
    <2>4. Stems(e) \cap (Slashed \cup Unclean) = {}
      BY <2>2, <2>3 DEF ValidPath, validateReferencePath
    <2>5. Plain(English) \notin {Empty} \cup Dots
      <3>1. English # "" /\ English # "." /\ English # ".."
        BY <2>3
      <3>2. Plain(English) # Plain("") /\ Plain(English) # Plain(".") /\ Plain(English) # Plain("..")
        BY <3>1, PlainDiffer
      <3>3. QED
        BY <3>2 DEF Empty, Dots
    <2>6. \A i \in DOMAIN e : e[i] \notin {Empty} \cup Dots
      BY <1>3, <2>1, <2>5 DEF ValidPath, validateReferencePath
    <2>7. Len(e) > 1 /\ e[2] = p[2] /\ Last(e) = Last(p)
      <3>1. 2 \in 2..(n + 1) /\ n + 1 \in 2..(n + 1) /\ n + 1 > 1
        BY <1>2
      <3>2. QED
        BY <1>2, <1>3, <3>1 DEF Last
    <2>8. IsLanguage(e[1])
      BY <1>3, PlainSegments, LanguagesAssumption DEF IsLanguage
    <2>9. QED
      BY <1>3, <2>4, <2>6, <2>7, <2>8 DEF ValidPath, validateReferencePath, Settled
  <1>5. QED
    BY <1>3, <1>4, SlugOpens, PlainSegments DEF e

\* What is left of a list that may be cut.
LEMMA Truncated ==
    ASSUME NEW S, NEW s \in Seq(S), NEW n \in Nat
    PROVE  \E m \in Nat :
              /\ Truncate(s, n) \in Seq(S) /\ Len(Truncate(s, n)) = m /\ m <= Len(s)
              /\ \A i \in 1..m : Truncate(s, n)[i] = s[i]
              /\ m = Len(s) \/ (n > 0 /\ m = n)
  <1>1. CASE n > 0 /\ Len(s) > n
    <2>1. PICK r \in Nat : Len(s) = n + r
      <3>1. Len(s) - n \in Nat /\ Len(s) = n + (Len(s) - n)
        BY <1>1
      <3>2. QED
        BY <3>1
    <2>2. /\ SubSeq(s, 1, n) \in Seq(S)
          /\ Len(SubSeq(s, 1, n)) = n
          /\ \A i \in 1..n : SubSeq(s, 1, n)[i] = s[i]
      BY <2>1, PartOf
    <2>3. Truncate(s, n) = SubSeq(s, 1, n)
      BY <1>1 DEF Truncate
    <2>4. QED
      BY <1>1, <2>1, <2>2, <2>3
  <1>2. CASE ~(n > 0 /\ Len(s) > n)
    <2>1. Truncate(s, n) = s
      BY <1>2 DEF Truncate
    <2>2. QED
      BY <2>1
  <1>3. QED
    BY <1>1, <1>2

\* Elements that are taken where they come first are taken once.
LEMMA FirstsDiffer ==
    ASSUME NEW list, NEW n \in Nat, NEW q, NEW k,
           NEW places, places \subseteq {i \in 1..n : \A j \in 1 .. i - 1 : list[j] # list[i]},
           TakesFrom(q, list, places, k), NEW d \in Nat, DOMAIN q = 1..d
    PROVE  \A i, j \in 1..d : i < j => q[i] # q[j]
  <1> SUFFICES ASSUME NEW i \in 1..d, NEW j \in 1..d, i < j PROVE q[i] # q[j]
    OBVIOUS
  <1>1. /\ k[i] \in places /\ k[j] \in places
        /\ k[i] < k[j] /\ q[i] = list[k[i]] /\ q[j] = list[k[j]]
    BY DEF TakesFrom
  <1>2. PICK a \in 1..n, b \in 1..n : a = k[i] /\ b = k[j] /\ \A h \in 1 .. b - 1 : list[h] # list[b]
    BY <1>1
  <1>3. a \in 1 .. b - 1
    BY <1>1, <1>2
  <1>4. QED
    BY <1>1, <1>2, <1>3

\* The slugs of the origin's hits.
OpensInView(s) == (TakenFor(s) <=> Settled(s)) /\ SlugLanguage(s) = view

\* The hits of the origin, cut or not, are as an answer has to name them.
HitsNamed(list, index) ==
    /\ \A i \in DOMAIN list : OpensInView(list[i].slug) /\ (list[i].notice <=> list[i].slug \notin Slugs(index))
    /\ \A i, j \in DOMAIN list : i < j => list[i].slug # list[j].slug /\ list[i].score > list[j].score

LEMMA OriginHitsNamed ==
    ASSUME NEW list \in HitLists, Acceptable(list), NEW index, NEW n \in Limits
    PROVE  HitsNamed(Truncate(OriginHits(list, index), n), index)
  <1>1. list \in Seq(Range(list)) /\ n \in Nat
    BY ListsAssumption
  <1>2. PICK c \in Nat : c = Len(list) /\ DOMAIN list = 1..c
    BY <1>1
  <1>3. ASSUME NEW i \in 1..c PROVE OpensInView(ReferencePath(list[i]))
    <2>1. list[i].path \in Seq(Segments) \ {<<>>} /\ IsReference(list[i])
          /\ languagePath(ReferencePath(list[i])) = view
      BY <1>2, ListsAssumption DEF Acceptable
    <2>2. ValidPath(ReferencePath(list[i]))
      BY <2>1, ReferencesAreValid
    <2>3. ReferencePath(list[i])[1][1] = view
      BY <2>1, <2>2 DEF languagePath, ValidPath
    <2>4. QED
      BY <2>2, <2>3, SlugOpens DEF OpensInView
  <1>4. PICK paths : paths = [i \in 1..c |-> ReferencePath(list[i])]
    OBVIOUS
  <1>5. PICK places : places = {i \in 1..c : \A j \in 1 .. i - 1 : paths[j] # paths[i]}
    OBVIOUS
  <1>6. PICK q : q = Taken(paths, places)
    OBVIOUS
  <1>7. PICK k : TakesFrom(q, paths, places, k)
    BY <1>5, <1>6, TakenTakes
  <1>8. PICK d \in Nat : DOMAIN q = 1..d /\ \A i \in 1..d : k[i] \in 1..c /\ q[i] = paths[k[i]]
    BY <1>5, <1>7 DEF TakesFrom
  <1>9. \A i, j \in 1..d : i < j => q[i] # q[j]
    <2>1. DOMAIN q = 1..d
      BY <1>8
    <2>2. QED
      BY <1>5, <1>7, <2>1, FirstsDiffer
  <1>10. \A i \in 1..d : OpensInView(q[i])
    BY <1>3, <1>4, <1>8
  <1>11. PICK h : h = OriginHits(list, index)
    OBVIOUS
  <1>12. h = [i \in 1..d |-> [slug |-> q[i], score |-> c + 1 - i, body |-> TRUE, stale |-> FALSE,
                              notice |-> q[i] \notin Slugs(index)]]
    <2>1. paths = [i \in DOMAIN list |-> ReferencePath(list[i])]
      BY <1>2, <1>4
    <2>2. places = {i \in DOMAIN list : \A j \in 1 .. i - 1 : paths[j] # paths[i]}
      BY <1>2, <1>5
    <2>3. DOMAIN q = 1..d /\ Len(list) = c
      BY <1>2, <1>8
    <2> DEFINE P == [i \in DOMAIN list |-> ReferencePath(list[i])]
               K == Taken(P, {i \in DOMAIN list : \A j \in 1 .. i - 1 : P[j] # P[i]})
    <2>4. OriginHits(list, index)
            = [i \in DOMAIN K |-> [slug |-> K[i], score |-> Len(list) + 1 - i, body |-> TRUE,
                                   stale |-> FALSE, notice |-> K[i] \notin Slugs(index)]]
      BY Zenon DEF OriginHits
    <2>5. K = q
      BY <1>6, <2>1, <2>2
    <2> HIDE DEF K
    <2>6. h = [i \in DOMAIN q |-> [slug |-> q[i], score |-> Len(list) + 1 - i, body |-> TRUE,
                                   stale |-> FALSE, notice |-> q[i] \notin Slugs(index)]]
      BY <1>11, <2>4, <2>5
    <2>7. QED
      BY <2>3, <2>6
  <1>13. /\ h \in Seq(Range(h)) /\ Len(h) = d
         /\ \A i \in 1..d : h[i].slug = q[i] /\ h[i].score = c + 1 - i
                            /\ (h[i].notice <=> q[i] \notin Slugs(index))
    <2>1. h \in Seq(Range(h)) /\ Len(h) = d
      <3>1. h = [i \in 1..d |-> h[i]]
        BY <1>12
      <3>2. QED
        BY <3>1, FunctionIsList
    <2>2. ASSUME NEW i \in 1..d
          PROVE  h[i].slug = q[i] /\ h[i].score = c + 1 - i /\ (h[i].notice <=> q[i] \notin Slugs(index))
      <3>1. PICK b \in BOOLEAN : b = (q[i] \notin Slugs(index))
        OBVIOUS
      <3>2. h[i] = [slug |-> q[i], score |-> c + 1 - i, body |-> TRUE, stale |-> FALSE, notice |-> b]
        BY <1>12, <3>1
      <3>3. h[i].slug = q[i] /\ h[i].score = c + 1 - i /\ h[i].notice = b
        BY <3>2
      <3>4. QED
        BY <3>1, <3>3
    <2>3. QED
      BY <2>1, <2>2
  <1>14. PICK m \in Nat :
            /\ DOMAIN Truncate(h, n) = 1..m /\ m <= d
            /\ \A i \in 1..m : Truncate(h, n)[i] = h[i]
    <2>1. PICK S : S = Range(h)
      OBVIOUS
    <2>2. h \in Seq(S) /\ Len(h) = d
      BY <1>13, <2>1
    <2>3. PICK m \in Nat :
             /\ Truncate(h, n) \in Seq(S) /\ Len(Truncate(h, n)) = m /\ m <= Len(h)
             /\ \A i \in 1..m : Truncate(h, n)[i] = h[i]
      BY <1>1, <2>2, Truncated
    <2>4. DOMAIN Truncate(h, n) = 1..m
      BY <2>3
    <2>5. QED
      BY <2>2, <2>3, <2>4
  <1>15. PICK t : t = Truncate(h, n)
    OBVIOUS
  <1>16. DOMAIN t = 1..m /\ \A i \in 1..m : i \in 1..d /\ t[i] = h[i]
    BY <1>14, <1>15
  <1>17. \A i \in 1..m : OpensInView(t[i].slug) /\ (t[i].notice <=> t[i].slug \notin Slugs(index))
    BY <1>10, <1>13, <1>16
  <1>18. ASSUME NEW i \in 1..m, NEW j \in 1..m, i < j
         PROVE  t[i].slug # t[j].slug /\ t[i].score > t[j].score
    <2>1. t[i].slug = q[i] /\ t[j].slug = q[j] /\ t[i].score = c + 1 - i /\ t[j].score = c + 1 - j
      BY <1>13, <1>16
    <2>2. c + 1 - i > c + 1 - j
      BY <1>18
    <2>3. QED
      BY <1>9, <1>16, <1>18, <2>1, <2>2
  <1>19. QED
    BY <1>11, <1>15, <1>16, <1>17, <1>18 DEF HitsNamed

\* The page of a call, from when it is asked for to when it is found missing.
NamesInv ==
    /\ pc \in {"find", "page", "anchor", "absent"} => ValidPath(slug)
    /\ pc = "upstream" => HitsNamed(hits, docs)

LEMMA NamesImply == NamesInv => NamedPagesOpen
  <1> SUFFICES ASSUME NamesInv PROVE NamedPagesOpen
    OBVIOUS
  <1>1. pc = "absent" => LET english == EnglishAlternative(slug)
                         IN  (TakenFor(english) <=> Settled(slug)) /\ SlugLanguage(english) = English
    BY EnglishOpens DEF NamesInv
  <1>2. QED
    BY <1>1 DEF NamesInv, NamedPagesOpen, HitsNamed, OpensInView

LEMMA NextKeepsNames ==
    ASSUME NamesInv, [Next]_vars
    PROVE  NamesInv'
  <1>1. CASE GetDoc
    <2>1. pc' \in {"find", "rejected"} /\ (pc' = "find" => ValidPath(slug'))
      BY <1>1, PageOf
    <2>2. QED
      BY <2>1 DEF NamesInv, ValidPath
  <1>2. CASE SearchOrigin
    <2>1. CASE pc' # "upstream"
      BY <1>2, <2>1 DEF SearchOrigin, OriginFailed, NamesInv
    <2>2. CASE pc' = "upstream"
      <3>1. PICK list \in HitLists, curated \in Curated, listed \in PageLists, n \in Limits :
               /\ Acceptable(list)
               /\ docs' = Catalogue(curated, listed)
               /\ hits' = Truncate(OriginHits(list, Catalogue(curated, listed)), n)
        BY <1>2, <2>2 DEF SearchOrigin, OriginFailed
      <3>2. HitsNamed(hits', docs')
        BY <3>1, OriginHitsNamed
      <3>3. view' = view
        BY <1>2 DEF SearchOrigin
      <3>4. HitsNamed(hits, docs)'
        BY <3>2, <3>3 DEF HitsNamed, OpensInView, TakenFor, Settled, Slugs
      <3>5. QED
        BY <2>2, <3>4 DEF NamesInv
    <2>3. QED
      BY <2>1, <2>2
  <1>3. CASE FindPage \/ OriginStep \/ ResolveHeading \/ PageDone
    <2>1. /\ pc' # "upstream" /\ pc' # "find"
          /\ pc' \in {"page", "anchor", "absent"} => pc \in {"find", "page", "anchor"}
          /\ slug' = slug
      BY <1>3 DEF FindPage, OriginStep, ResolveHeading, PageDone
    <2>2. QED
      BY <2>1 DEF NamesInv, ValidPath
  <1>4. CASE SearchDocs \/ SearchWithSources \/ IndexUnavailable \/ SearchOriginFails \/ GiveUp
             \/ BeginLocal \/ SearchMetadata \/ FinishLocal \/ StopLocal
    <2>1. pc' \notin {"find", "page", "anchor", "absent", "upstream"}
      BY <1>4 DEF SearchDocs, SearchWithSources, IndexUnavailable, SearchOriginFails, OriginFailed, GiveUp, BeginLocal, SearchMetadata,
                  FinishLocal, StopLocal
    <2>2. QED
      BY <2>1 DEF NamesInv
  <1>5. CASE LookUp \/ CacheChanges
    <2>1. pc' = "local"
      BY <1>5 DEF LookUp, CacheChanges
    <2>2. QED
      BY <2>1 DEF NamesInv
  <1>6. CASE Cancel \/ Finished \/ UNCHANGED vars
    <2>1. UNCHANGED <<pc, view, slug, searchVars>>
      BY <1>6 DEF Cancel, Finished, vars
    <2>2. UNCHANGED <<pc, view, slug, docs, hits>>
      BY <2>1 DEF searchVars
    <2>3. QED
      BY <2>2 DEF NamesInv, HitsNamed, OpensInView, TakenFor, Settled, ValidPath
  <1>7. QED
    BY <1>1, <1>2, <1>3, <1>4, <1>5, <1>6 DEF Next

\* Whatever is given or listed, each page that an answer of the origin's
\* search or of a missing page names is in the language meant, and get_doc
\* takes its slug for a reference to that page just when no ".md" is left at
\* its end; each hit is named once, in order, and with the notice if the
\* catalogue does not have it (apisearch.go:66-70, 93-130,
\* languages.go:116-117).
THEOREM NamedPagesAlwaysOpen == Spec => []NamedPagesOpen
  <1>1. Init => NamesInv
    BY DEF Init, NamesInv
  <1>2. NamesInv /\ [Next]_vars => NamesInv'
    BY NextKeepsNames
  <1>3. QED
    BY <1>1, <1>2, NamesImply, PTL DEF Spec

-----------------------------------------------------------------------------
(* The search without the origin is answered *)

\* In a search without the origin its cool-down has begun.
DegradeInv ==
    /\ pc \in {"fallback", "metadata", "local", "degraded"} => cooling
    /\ pc = "failed" => cancelled
    /\ pc = "degraded" => ~cancelled

\* What a step of the search without the origin does to the call.
LEMMA LocalGoesOn ==
    ASSUME BeginLocal \/ SearchMetadata \/ LookUp \/ FinishLocal \/ StopLocal \/ CacheChanges
    PROVE  /\ pc \in {"fallback", "metadata", "local"} /\ cooling' = cooling
           /\ \/ pc' \in {"metadata", "local"}
              \/ pc' = "degraded" /\ ~cancelled /\ cancelled' = cancelled
              \/ pc' = "failed" /\ cancelled' = TRUE
  <1>1. CASE BeginLocal \/ SearchMetadata
    BY <1>1 DEF BeginLocal, SearchMetadata
  <1>2. CASE LookUp
    BY <1>2 DEF LookUp
  <1>3. CASE CacheChanges
    BY <1>3 DEF CacheChanges
  <1>4. CASE FinishLocal \/ StopLocal
    BY <1>4 DEF FinishLocal, StopLocal
  <1>5. QED
    BY <1>1, <1>2, <1>3, <1>4

LEMMA StepDegrades ==
    ASSUME DegradeInv, [Next]_vars
    PROVE  DegradeInv'
  <1> USE DEF DegradeInv
  <1>1. CASE GetDoc \/ FindPage \/ IndexUnavailable \/ ResolveHeading \/ PageDone
    BY <1>1 DEF GetDoc, FindPage, IndexUnavailable, ResolveHeading, PageDone
  <1>2. CASE SearchDocs \/ SearchWithSources
    BY <1>2 DEF SearchDocs, SearchWithSources
  <1>3. CASE SearchOrigin \/ SearchOriginFails
    BY <1>3 DEF SearchOrigin, SearchOriginFails, OriginFailed
  <1>4. CASE BeginLocal \/ SearchMetadata \/ LookUp \/ FinishLocal \/ StopLocal \/ CacheChanges
    <2>1. /\ pc \in {"fallback", "metadata", "local"} /\ cooling' = cooling
          /\ \/ pc' \in {"metadata", "local"}
             \/ pc' = "degraded" /\ ~cancelled /\ cancelled' = cancelled
             \/ pc' = "failed" /\ cancelled' = TRUE
      BY Zenon, <1>4, LocalGoesOn
    <2>2. QED
      BY <2>1
  <1>5. CASE OriginStep \/ Cancel \/ GiveUp \/ Finished \/ UNCHANGED vars
    BY <1>5 DEF OriginStep, Cancel, GiveUp, Waits, Finished, vars
  <1>6. QED
    BY <1>1, <1>2, <1>3, <1>4, <1>5 DEF Next

\* Once there is a catalogue, only a caller that gave up gets no answer, and
\* the search without the origin begins where the origin's has just failed, or
\* had failed before, which no caller that gave up makes of its failure
\* (search.go:207-260).
THEOREM SearchAlwaysDegrades == Spec => SearchDegrades
  <1> DEFINE Degrades ==
        /\ pc' = "failed" => cancelled'
        /\ pc' = "unavailable" => pc \in {"find", "index", "unavailable"}
        /\ pc' = "degraded" => cooling' /\ ~cancelled'
        /\ cooling' # cooling => ~cancelled /\ pc = "origin" /\ phase \in Failures \cup {"body"}
  <1>1. Init => DegradeInv
    BY DEF Init, DegradeInv
  <1>2. DegradeInv /\ [Next]_vars => DegradeInv'
    BY StepDegrades
  <1>3. DegradeInv /\ [Next]_vars => [Degrades]_vars
    <2> SUFFICES ASSUME DegradeInv, Next PROVE Degrades
      OBVIOUS
    <2> USE DEF DegradeInv
    <2>1. CASE GetDoc \/ FindPage \/ IndexUnavailable \/ ResolveHeading \/ PageDone
      BY <2>1 DEF GetDoc, FindPage, IndexUnavailable, ResolveHeading, PageDone
    <2>2. CASE SearchDocs \/ SearchWithSources
      BY <2>2 DEF SearchDocs, SearchWithSources
    <2>3. CASE SearchOrigin \/ SearchOriginFails
      BY <2>3 DEF SearchOrigin, SearchOriginFails, OriginFailed
    <2>4. CASE BeginLocal \/ SearchMetadata \/ LookUp \/ FinishLocal \/ StopLocal \/ CacheChanges
      <3>1. /\ pc \in {"fallback", "metadata", "local"} /\ cooling' = cooling
            /\ \/ pc' \in {"metadata", "local"}
               \/ pc' = "degraded" /\ ~cancelled /\ cancelled' = cancelled
               \/ pc' = "failed" /\ cancelled' = TRUE
        BY Zenon, <2>4, LocalGoesOn
      <3>2. QED
        BY <3>1
    <2>5. CASE OriginStep \/ Cancel \/ GiveUp
      BY <2>5 DEF OriginStep, Cancel, GiveUp, Waits
    <2>6. CASE Finished
      BY <2>6 DEF Finished, vars
    <2>7. QED
      BY <2>1, <2>2, <2>3, <2>4, <2>5, <2>6 DEF Next
  <1>4. QED
    BY <1>1, <1>2, <1>3, PTL DEF Spec, SearchDegrades

-----------------------------------------------------------------------------
(* What the search without the origin finds: the catalogue *)

Listed(index) ==
    /\ index \in Seq(Range(index))
    /\ \A i, j \in DOMAIN index : i # j => index[i].slug # index[j].slug

LEMMA Joined ==
    ASSUME NEW S, NEW s \in Seq(S), NEW z \in Seq(S), NEW a \in Nat, NEW c \in Nat,
           Len(s) = a, Len(z) = c
    PROVE  /\ s \o z \in Seq(S) /\ Len(s \o z) = a + c
           /\ \A i \in 1..a : (s \o z)[i] = s[i]
           /\ \A i \in 1..c : (s \o z)[a + i] = z[i]
  OBVIOUS

LEMMA EntriesListed ==
    ASSUME NEW paths, paths \in Seq(Range(paths)), NEW curated, NEW language
    PROVE  Listed(Entries(paths, curated, language))
  <1>1. PICK c \in Nat : DOMAIN paths = 1..c
    OBVIOUS
  <1> DEFINE all == [i \in DOMAIN paths |-> [slug |-> cleanSlug(paths[i]), curated |-> curated]]
             kept == {i \in DOMAIN paths : InLanguage(all[i].slug, language)
                                             /\ \A j \in 1 .. i - 1 : all[j] # all[i]}
  <1>2. Entries(paths, curated, language) = Taken(all, kept)
    BY Zenon DEF Entries
  <1>3. \A i \in 1..c : all[i] = [slug |-> cleanSlug(paths[i]), curated |-> curated]
    BY <1>1
  <1>4. kept \subseteq {i \in 1..c : \A j \in 1 .. i - 1 : all[j] # all[i]} /\ kept \subseteq 1..c
    BY <1>1
  <1> HIDE DEF all, kept
  <1>5. PICK q : q = Taken(all, kept)
    OBVIOUS
  <1>6. PICK k : TakesFrom(q, all, kept, k)
    BY <1>4, <1>5, TakenTakes
  <1>7. PICK d \in Nat : DOMAIN q = 1..d /\ \A i \in 1..d : k[i] \in kept /\ q[i] = all[k[i]]
    BY <1>6 DEF TakesFrom
  <1>8. \A i, j \in 1..d : i < j => q[i] # q[j]
    <2>1. DOMAIN q = 1..d
      BY <1>7
    <2>2. kept \subseteq {i \in 1..c : \A j \in 1 .. i - 1 : all[j] # all[i]}
      BY <1>4
    <2>3. QED
      BY <1>6, <2>1, <2>2, FirstsDiffer
  <1>9. ASSUME NEW i \in 1..d, NEW j \in 1..d, i # j PROVE q[i].slug # q[j].slug
    <2>1. q[i] # q[j]
      BY <1>8, <1>9
    <2>2. PICK a \in 1..c, b \in 1..c : q[i] = all[a] /\ q[j] = all[b]
      <3>1. k[i] \in kept /\ q[i] = all[k[i]] /\ k[j] \in kept /\ q[j] = all[k[j]]
        BY <1>7, <1>9
      <3>2. k[i] \in 1..c /\ k[j] \in 1..c
        BY <1>4, <3>1
      <3>3. QED
        BY <3>1, <3>2
    <2>3. PICK s, z : q[i] = [slug |-> s, curated |-> curated] /\ q[j] = [slug |-> z, curated |-> curated]
      BY <1>3, <2>2
    <2>4. s # z
      BY <2>1, <2>3
    <2>5. QED
      BY <2>3, <2>4
  <1>10. q \in Seq(Range(q))
    BY <1>4, <1>5, TakenIsList
  <1>11. QED
    BY <1>2, <1>5, <1>7, <1>9, <1>10 DEF Listed

LEMMA MergeListed ==
    ASSUME NEW primary, NEW extra, Listed(primary), Listed(extra)
    PROVE  Listed(MergeIndex(primary, extra))
  <1>1. PICK a \in Nat, b \in Nat : DOMAIN primary = 1..a /\ Len(primary) = a /\ DOMAIN extra = 1..b
    BY DEF Listed
  <1>2. PICK places : places = {i \in DOMAIN extra : extra[i].slug \notin Slugs(primary)}
    OBVIOUS
  <1>3. places \subseteq 1..b
    BY <1>1, <1>2
  <1>4. PICK q : q = Taken(extra, places)
    OBVIOUS
  <1>5. PICK k : TakesFrom(q, extra, places, k)
    BY <1>3, <1>4, TakenTakes
  <1>6. PICK c \in Nat : DOMAIN q = 1..c /\ \A i \in 1..c : k[i] \in places /\ q[i] = extra[k[i]]
    BY <1>5 DEF TakesFrom
  <1>7. \A i, j \in 1..c : i < j => k[i] < k[j]
    BY <1>5, <1>6 DEF TakesFrom
  <1>8. q \in Seq(Range(q)) /\ Len(q) = c
    <2>1. q \in Seq(Range(q))
      BY <1>3, <1>4, TakenIsList
    <2>2. QED
      BY <1>6, <2>1
  <1>9. \A i \in 1..c : q[i].slug \notin Slugs(primary)
    BY <1>2, <1>6
  <1>10. ASSUME NEW i \in 1..c, NEW j \in 1..c, i < j PROVE q[i].slug # q[j].slug
    <2>1. PICK x \in DOMAIN extra, y \in DOMAIN extra : x = k[i] /\ y = k[j]
      BY <1>1, <1>3, <1>6
    <2>2. x # y
      BY <1>1, <1>7, <1>10, <2>1
    <2>3. QED
      BY <1>6, <2>1, <2>2 DEF Listed
  <1>11. \A i, j \in 1..c : i # j => q[i].slug # q[j].slug
    <2>1. \A i, j \in 1..c : i # j => i < j \/ j < i
      OBVIOUS
    <2>2. QED
      BY <1>10, <2>1
  <1>12. PICK w : w = primary \o q
    OBVIOUS
  <1>13. PICK S : S = Range(primary) \cup Range(q)
    OBVIOUS
  <1>14. primary \in Seq(S) /\ q \in Seq(S)
    <2>1. primary \in Seq(Range(primary))
      BY DEF Listed
    <2>2. QED
      BY <1>8, <1>13, <2>1
  <1>15. w \in Seq(S) /\ DOMAIN w = 1 .. a + c /\ w = [i \in 1 .. a + c |-> w[i]]
         /\ (\A i \in 1..a : w[i] = primary[i]) /\ (\A i \in 1..c : w[a + i] = q[i])
    <2>1. Len(primary) = a /\ Len(q) = c
      BY <1>1, <1>8
    <2>2. w \in Seq(S) /\ Len(w) = a + c
          /\ (\A i \in 1..a : w[i] = primary[i]) /\ (\A i \in 1..c : w[a + i] = q[i])
      BY <1>12, <1>14, <2>1, Joined
    <2>3. DOMAIN w = 1 .. a + c /\ w = [i \in 1 .. a + c |-> w[i]]
      BY <2>2
    <2>4. QED
      BY <2>2, <2>3
  <1>16. w \in Seq(Range(w))
    BY <1>15, FunctionIsList
  <1>17. \A i \in 1..a : w[i].slug \in Slugs(primary)
    BY <1>1, <1>15 DEF Slugs
  <1>18. ASSUME NEW i \in 1 .. a + c, NEW j \in 1 .. a + c, i < j PROVE w[i].slug # w[j].slug
    <2>1. CASE j <= a
      <3>1. i \in 1..a /\ j \in 1..a /\ i # j
        BY <1>18, <2>1
      <3>2. primary[i].slug # primary[j].slug
        BY <1>1, <3>1 DEF Listed
      <3>3. QED
        BY <1>15, <3>1, <3>2
    <2>2. CASE j > a
      <3>1. PICK y \in 1..c : j = a + y
        <4>1. j - a \in 1..c /\ j = a + (j - a)
          BY <2>2
        <4>2. QED
          BY <4>1
      <3>2. CASE i <= a
        <4>1. w[j] = q[y] /\ q[y].slug \notin Slugs(primary)
          BY <1>9, <1>15, <3>1
        <4>2. w[i].slug \in Slugs(primary)
          BY <1>17, <3>2
        <4>3. QED
          BY <4>1, <4>2
      <3>3. CASE i > a
        <4>1. PICK x \in 1..c : i = a + x
          <5>1. i - a \in 1..c /\ i = a + (i - a)
            BY <3>3
          <5>2. QED
            BY <5>1
        <4>2. x # y
          BY <1>18, <3>1, <4>1
        <4>3. w[i] = q[x] /\ w[j] = q[y]
          BY <1>15, <3>1, <4>1
        <4>4. QED
          BY <1>11, <4>2, <4>3
      <3>4. QED
        BY <3>2, <3>3
    <2>3. QED
      BY <2>1, <2>2
  <1>19. \A i, j \in 1 .. a + c : i # j => w[i].slug # w[j].slug
    <2>1. \A i, j \in 1 .. a + c : i # j => i < j \/ j < i
      OBVIOUS
    <2>2. QED
      BY <1>18, <2>1
  <1>20. MergeIndex(primary, extra) = w
    BY <1>2, <1>4, <1>12 DEF MergeIndex
  <1>21. QED
    BY <1>15, <1>16, <1>19, <1>20 DEF Listed

LEMMA CatalogueListed ==
    ASSUME NEW curated \in Curated, NEW listed \in PageLists
    PROVE  Listed(Catalogue(curated, listed))
  <1>1. curated \in Seq(Range(curated)) /\ listed \in Seq(Range(listed))
    BY ListsAssumption
  <1>2. Listed(ParseIndex(curated)) /\ Listed(ParsePageList(listed, view))
    BY <1>1, EntriesListed DEF ParseIndex, ParsePageList
  <1>3. Listed(<<>>)
    BY DEF Listed
  <1>4. QED
    BY <1>2, <1>3, MergeListed DEF Catalogue

-----------------------------------------------------------------------------
(* What pages deserve *)

\* By its metadata; the body, a word each, is for those that have nothing there.
Points(d) == IF StrictMatches # {} \/ Words = 1 THEN scoreDoc(d) ELSE scoreDocAny(d)

\* For each page of the catalogue: what it gets, may get at all, and is due.
Merits == [i \in DOMAIN docs |-> Points(docs[i])]
Marks == [i \in DOMAIN docs |-> scoreDocAny(docs[i])]
Dues == [i \in DOMAIN docs |-> Deserved(docs[i])]

LEMMA MeritsAreNat ==
    ASSUME IsFiniteSet(tokens), NEW i \in DOMAIN docs
    PROVE  Merits[i] \in Nat /\ Marks[i] \in Nat /\ (Merits[i] > 0 => Marks[i] > 0)
  <1>1. PICK f : f = [token \in tokens |-> Weight(docs[i], token)]
    OBVIOUS
  <1>2. ASSUME NEW x \in tokens PROVE f[x] \in Nat
    <2>1. f[x] = Weight(docs[i], x)
      BY <1>1
    <2>2. QED
      BY <2>1 DEF Weight
  <1>3. SumFunctionOnSet(f, tokens) \in Nat
    BY <1>2, SumIsNat
  <1>4. scoreDocAny(docs[i]) = SumFunctionOnSet(f, tokens)
    BY <1>1 DEF scoreDocAny
  <1>5. scoreDoc(docs[i]) \in {0, scoreDocAny(docs[i])}
    BY DEF scoreDoc
  <1>6. Points(docs[i]) \in {0, scoreDocAny(docs[i])}
    BY <1>5 DEF Points
  <1>7. Merits[i] = Points(docs[i]) /\ Marks[i] = scoreDocAny(docs[i])
    BY DEF Merits, Marks
  <1>8. QED
    BY <1>3, <1>4, <1>6, <1>7

LEMMA DuesAre ==
    ASSUME NEW i \in DOMAIN docs
    PROVE  Dues[i] = IF Merits[i] > 0 THEN Merits[i]
                     ELSE IF docs[i].slug \in matching THEN Words ELSE 0
  <1>1. Dues[i] = Deserved(docs[i]) /\ Merits[i] = Points(docs[i])
    BY DEF Dues, Merits
  <1>2. QED
    BY <1>1 DEF Deserved, Points

LEMMA WordsCounted ==
    ASSUME IsFiniteSet(tokens), tokens # {}
    PROVE  Words \in Nat /\ Words > 0
  BY FS_CardinalityType, FS_EmptySet DEF Words

LEMMA TablesStay ==
    ASSUME UNCHANGED <<tokens, docs, text>>
    PROVE  /\ Merits' = Merits /\ Marks' = Marks /\ Words' = Words
           /\ matching' = matching => Dues' = Dues
  <1>1. Words' = Words
    BY DEF Words
  <1>2. ASSUME NEW d PROVE scoreDocAny(d)' = scoreDocAny(d) /\ scoreDoc(d)' = scoreDoc(d)
    <2>1. ASSUME NEW token PROVE Weight(d, token)' = Weight(d, token)
      BY DEF Weight
    <2>2. scoreDocAny(d)' = scoreDocAny(d)
      BY <2>1 DEF scoreDocAny
    <2>3. QED
      BY <2>1, <2>2 DEF scoreDoc
  <1>3. StrictMatches' = StrictMatches
    BY <1>2 DEF StrictMatches
  <1>4. ASSUME NEW d PROVE Points(d)' = Points(d)
    BY <1>1, <1>2, <1>3 DEF Points
  <1>5. ASSUME NEW d, matching' = matching PROVE Deserved(d)' = Deserved(d)
    BY <1>1, <1>2, <1>3, <1>5 DEF Deserved
  <1>6. Merits' = Merits /\ Marks' = Marks
    BY <1>2, <1>4 DEF Merits, Marks
  <1>7. matching' = matching => Dues' = Dues
    BY <1>5 DEF Dues
  <1>8. QED
    BY <1>1, <1>6, <1>7

-----------------------------------------------------------------------------
(* Its hits *)

\* A hit of the i-th page.
HitOf(h, i) ==
    /\ h.slug = docs[i].slug
    /\ h.body <=> Merits[i] = 0
    /\ h.body => i <= done /\ docs[i].slug \in matched
    /\ h.score = IF Merits[i] = 0 THEN Words ELSE Merits[i]
    /\ h.stale => staleBodies

HitsInv ==
    /\ Listed(hits)
    /\ \A i \in DOMAIN docs :
          Merits[i] > 0 \/ (docs[i].slug \in matching /\ i <= done) => docs[i].slug \in Slugs(hits)
    /\ \A n \in DOMAIN hits : \E i \in DOMAIN docs : HitOf(hits[n], i)

\* The metadata's matches, by all words or by any.
LEMMA IndexSearched ==
    ASSUME Listed(docs), IsFiniteSet(tokens), tokens # {}
    PROVE  SearchIndex = ByMetadata(Merits)
  <1>1. PICK c \in Nat : DOMAIN docs = 1..c
    BY DEF Listed
  <1>2. PICK f : f = [i \in DOMAIN docs |-> scoreDoc(docs[i])]
    OBVIOUS
  <1>3. PICK places : places = {i \in DOMAIN docs : f[i] > 0}
    OBVIOUS
  <1>4. PICK all : all = [i \in DOMAIN docs |->
                            [slug |-> docs[i].slug, score |-> f[i], body |-> FALSE, stale |-> FALSE]]
    OBVIOUS
  <1>5. PICK strict : strict = ByMetadata(f)
    OBVIOUS
  <1>6. strict = Taken(all, places)
    BY <1>3, <1>4, <1>5 DEF ByMetadata
  <1>7. places \subseteq 1..c /\ places = StrictMatches
    BY <1>1, <1>2, <1>3 DEF StrictMatches
  <1>8. PICK k : TakesFrom(strict, all, places, k)
    BY <1>6, <1>7, TakenTakes
  <1>9. strict = <<>> <=> StrictMatches = {}
    <2>1. IsFiniteSet(places)
      <3>1. IsFiniteSet(1..c)
        BY FS_Interval
      <3>2. QED
        BY <1>7, <3>1, FS_Subset
    <2>2. PICK m \in Nat : m = Cardinality(places) /\ (m = 0 <=> places = {})
      BY <2>1, FS_CardinalityType, FS_EmptySet
    <2>3. strict \in Seq(Range(strict)) /\ Len(strict) = m
      BY <1>6, <1>7, <2>2, TakenIsList
    <2>4. strict = <<>> <=> m = 0
      BY <2>3
    <2>5. QED
      BY <1>7, <2>2, <2>4
  <1>10. Words \in Nat /\ Words > 0
    BY WordsCounted
  <1>11. SearchIndex = IF strict = <<>> /\ Words > 1
                       THEN ByMetadata([i \in DOMAIN docs |-> scoreDocAny(docs[i])]) ELSE strict
    BY <1>2, <1>5, Zenon DEF SearchIndex
  <1>12. CASE StrictMatches = {} /\ Words > 1
    <2>1. Merits = [i \in DOMAIN docs |-> scoreDocAny(docs[i])]
      BY <1>12 DEF Merits, Points
    <2>2. QED
      BY <1>9, <1>11, <1>12, <2>1
  <1>13. CASE ~(StrictMatches = {} /\ Words > 1)
    <2>1. StrictMatches # {} \/ Words = 1
      BY <1>10, <1>13
    <2>2. Merits = [i \in DOMAIN docs |-> scoreDoc(docs[i])]
      BY <2>1 DEF Merits, Points
    <2>3. QED
      BY <1>2, <1>5, <1>9, <1>11, <1>13, <2>2
  <1>14. QED
    BY <1>12, <1>13

CatalogueInv ==
    /\ Listed(docs)
    /\ DOMAIN cache = Slugs(docs)
    /\ matching \subseteq Full(cache) /\ Full(cache) \subseteq matched
    /\ done \in 0 .. Len(docs)

LEMMA MetadataFinds ==
    ASSUME CatalogueInv, IsFiniteSet(tokens), tokens # {}, done = 0, SearchMetadata
    PROVE  HitsInv'
  <1>1. PICK c \in Nat : DOMAIN docs = 1..c
    BY DEF CatalogueInv, Listed
  <1>2. PICK m : m = Merits
    OBVIOUS
  <1>3. ASSUME NEW i \in 1..c PROVE m[i] \in Nat
    BY <1>1, <1>2, <1>3, MeritsAreNat
  <1>4. UNCHANGED <<tokens, docs, text, matching, matched, done, staleBodies>>
    BY DEF SearchMetadata
  <1>5. Merits' = m /\ Words' = Words
    BY <1>2, <1>4, TablesStay
  <1>6. PICK places : places = {i \in DOMAIN docs : m[i] > 0}
    OBVIOUS
  <1>7. PICK all : all = [i \in DOMAIN docs |->
                            [slug |-> docs[i].slug, score |-> m[i], body |-> FALSE, stale |-> FALSE]]
    OBVIOUS
  <1>8. hits' = Taken(all, places)
    <2>1. hits' = ByMetadata(m)
      BY <1>2, IndexSearched DEF SearchMetadata, CatalogueInv
    <2>2. QED
      BY <1>6, <1>7, <2>1 DEF ByMetadata
  <1>9. PICK q : q = hits'
    OBVIOUS
  <1>10. places \subseteq 1..c
    BY <1>1, <1>6
  <1>11. PICK k : TakesFrom(q, all, places, k)
    BY <1>8, <1>9, <1>10, TakenTakes
  <1>12. PICK d \in Nat : DOMAIN q = 1..d /\ \A n \in 1..d : k[n] \in places /\ q[n] = all[k[n]]
    BY <1>11 DEF TakesFrom
  <1>13. (\A n, o \in 1..d : n < o => k[n] < k[o]) /\ \A p \in places : \E n \in 1..d : k[n] = p
    BY <1>11, <1>12 DEF TakesFrom
  <1>14. ASSUME NEW n \in 1..d
         PROVE  /\ k[n] \in 1..c /\ m[k[n]] > 0
                /\ q[n].slug = docs[k[n]].slug /\ q[n].score = m[k[n]]
                /\ q[n].body = FALSE /\ q[n].stale = FALSE
    <2>1. PICK p \in 1..c : p = k[n] /\ m[p] > 0
      BY <1>1, <1>6, <1>12
    <2>2. q[n] = [slug |-> docs[p].slug, score |-> m[p], body |-> FALSE, stale |-> FALSE]
      BY <1>1, <1>7, <1>12, <2>1
    <2>3. QED
      BY <2>1, <2>2
  <1>15. Listed(q)
    <2>1. q \in Seq(Range(q))
      BY <1>8, <1>9, <1>10, TakenIsList
    <2>2. ASSUME NEW n \in 1..d, NEW o \in 1..d, n # o PROVE q[n].slug # q[o].slug
      <3>1. PICK x \in 1..c, y \in 1..c : x = k[n] /\ y = k[o] /\ q[n].slug = docs[x].slug /\ q[o].slug = docs[y].slug
        BY <1>14
      <3>2. x # y
        <4>1. n < o \/ o < n
          BY <2>2
        <4>2. QED
          BY <1>13, <3>1, <4>1
      <3>3. QED
        BY <1>1, <3>1, <3>2 DEF CatalogueInv, Listed
    <2>3. QED
      BY <1>12, <2>1, <2>2 DEF Listed
  <1>16. ASSUME NEW i \in 1..c, m[i] > 0 \/ i <= 0 PROVE docs[i].slug \in Slugs(q)
    <2>1. i \in places
      BY <1>1, <1>6, <1>16
    <2>2. PICK n \in 1..d : k[n] = i
      BY <1>13, <2>1
    <2>3. q[n].slug = docs[i].slug
      BY <1>14, <2>2
    <2>4. QED
      BY <1>12, <2>3 DEF Slugs
  <1>17. ASSUME NEW n \in 1..d
         PROVE  \E i \in 1..c :
                   /\ q[n].slug = docs[i].slug
                   /\ q[n].body <=> m[i] = 0
                   /\ ~q[n].body /\ ~q[n].stale
                   /\ q[n].score = IF m[i] = 0 THEN Words ELSE m[i]
    <2>1. PICK p \in 1..c : p = k[n] /\ m[p] > 0
      BY <1>14
    <2>2. m[p] # 0
      BY <1>3, <2>1
    <2>3. QED
      BY <1>14, <2>1, <2>2
  <1>18. /\ Listed(hits')
         /\ \A i \in DOMAIN docs' :
               Merits'[i] > 0 \/ (docs'[i].slug \in matching' /\ i <= done') => docs'[i].slug \in Slugs(hits')
    BY <1>1, <1>4, <1>5, <1>9, <1>15, <1>16
  <1>19. ASSUME NEW n \in 1..d PROVE \E i \in DOMAIN docs' : HitOf(hits[n], i)'
    <2>1. PICK i \in 1..c :
             /\ q[n].slug = docs[i].slug
             /\ q[n].body <=> m[i] = 0
             /\ ~q[n].body /\ ~q[n].stale
             /\ q[n].score = IF m[i] = 0 THEN Words ELSE m[i]
      BY <1>17
    <2>2. HitOf(hits[n], i)'
      BY <1>4, <1>5, <1>9, <2>1 DEF HitOf
    <2>3. QED
      BY <1>1, <1>4, <2>2
  <1>20. (\A n \in DOMAIN hits : \E i \in DOMAIN docs : HitOf(hits[n], i))'
    BY <1>9, <1>12, <1>19
  <1>21. QED
    BY <1>18, <1>20 DEF HitsInv, Slugs, Listed

\* A hit with a page's slug is that page's.
LEMMA HitsKnown ==
    ASSUME Listed(docs), HitsInv, NEW j \in DOMAIN docs, NEW n \in DOMAIN hits,
           hits[n].slug = docs[j].slug
    PROVE  HitOf(hits[n], j)
  <1>1. PICK i \in DOMAIN docs : HitOf(hits[n], i)
    BY DEF HitsInv
  <1>2. docs[i].slug = docs[j].slug
    BY <1>1 DEF HitOf
  <1>3. i = j
    BY <1>2 DEF Listed
  <1>4. QED
    BY <1>1, <1>3

LEMMA Appended ==
    ASSUME NEW list, Listed(list), NEW e, e.slug \notin Slugs(list)
    PROVE  \E b \in Nat :
              /\ DOMAIN list = 1..b /\ DOMAIN Append(list, e) = 1 .. b + 1
              /\ \A i \in 1..b : Append(list, e)[i] = list[i]
              /\ Append(list, e)[b + 1] = e
              /\ Listed(Append(list, e))
  <1>1. PICK b \in Nat : DOMAIN list = 1..b /\ Len(list) = b
    BY DEF Listed
  <1>2. PICK w : w = Append(list, e)
    OBVIOUS
  <1>3. PICK S : S = Range(list) \cup {e}
    OBVIOUS
  <1>4. list \in Seq(S)
    <2>1. list \in Seq(Range(list))
      BY DEF Listed
    <2>2. QED
      BY <1>3, <2>1
  <1>5. /\ w \in Seq(S) /\ Len(w) = b + 1 /\ (\A i \in 1..b : w[i] = list[i]) /\ w[b + 1] = e
    BY <1>1, <1>2, <1>3, <1>4
  <1>6. DOMAIN w = 1 .. b + 1 /\ w = [i \in 1 .. b + 1 |-> w[i]]
    BY <1>5
  <1>7. w \in Seq(Range(w))
    BY <1>6, FunctionIsList
  <1>8. \A i \in 1..b : w[i].slug \in Slugs(list)
    BY <1>1, <1>5 DEF Slugs
  <1>9. ASSUME NEW i \in 1 .. b + 1, NEW j \in 1 .. b + 1, i # j PROVE w[i].slug # w[j].slug
    <2>1. CASE i \in 1..b /\ j \in 1..b
      <3>1. list[i].slug # list[j].slug
        BY <1>1, <1>9, <2>1 DEF Listed
      <3>2. QED
        BY <1>5, <2>1, <3>1
    <2>2. CASE i = b + 1 /\ j \in 1..b
      BY <1>5, <1>8, <2>2
    <2>3. CASE i \in 1..b /\ j = b + 1
      BY <1>5, <1>8, <2>3
    <2>4. QED
      BY <1>9, <2>1, <2>2, <2>3
  <1>10. QED
    <2>1. Listed(w)
      BY <1>6, <1>7, <1>9 DEF Listed
    <2>2. QED
      BY <1>1, <1>2, <1>5, <1>6, <2>1

LEMMA LookUpFinds ==
    ASSUME CatalogueInv, HitsInv, IsFiniteSet(tokens), LookUp
    PROVE  CatalogueInv' /\ HitsInv'
  <1>1. PICK c \in Nat : DOMAIN docs = 1..c /\ Len(docs) = c /\ done \in 0..c
    BY DEF CatalogueInv, Listed
  <1>2. PICK j \in 1..c : j = done + 1
    BY <1>1 DEF LookUp
  <1>3. PICK d : d = docs[j]
    OBVIOUS
  <1>4. PICK body : body = cache[d.slug]
    OBVIOUS
  <1>5. /\ staleBodies' = (staleBodies \/ body.stale)
        /\ hits' = IF body.full /\ ~SeenAlready(d)
                   THEN Append(hits, [slug |-> d.slug, score |-> Words, body |-> TRUE, stale |-> body.stale])
                   ELSE hits
        /\ done' = j
        /\ UNCHANGED <<tokens, docs, text, cache, matching, matched>>
    BY <1>2, <1>3, <1>4 DEF LookUp
  <1>6. PICK m : m = Merits
    OBVIOUS
  <1>7. Merits' = m /\ Words' = Words /\ m[j] \in Nat
    BY <1>1, <1>5, <1>6, TablesStay, MeritsAreNat
  <1>8. CatalogueInv'
    BY <1>1, <1>5 DEF CatalogueInv, Listed, Slugs, Full
  <1>9. d.slug \in matching => body.full
    BY <1>4 DEF CatalogueInv, Full
  <1>10. body.full => d.slug \in matched
    <2>1. d.slug \in DOMAIN cache
      BY <1>1, <1>3 DEF CatalogueInv, Slugs
    <2>2. QED
      BY <1>4, <2>1 DEF CatalogueInv, Full
  <1>11. ASSUME NEW h, NEW i \in 1..c, HitOf(h, i) PROVE HitOf(h, i)'
    <2>1. i <= done => i <= done'
      BY <1>1, <1>2, <1>5
    <2>2. QED
      BY <1>5, <1>6, <1>7, <1>11, <2>1 DEF HitOf
  <1>12. ASSUME NEW i \in 1..c, i <= done' PROVE i <= done \/ i = j
    BY <1>1, <1>2, <1>5, <1>12
  <1>13. ASSUME d.slug \in Slugs(hits) PROVE SeenAlready(d)
    <2>1. PICK n \in DOMAIN hits : hits[n].slug = d.slug
      BY <1>13 DEF Slugs
    <2>2. HitOf(hits[n], j)
      BY <1>1, <1>3, <2>1, HitsKnown DEF CatalogueInv
    <2>3. ~(j <= done)
      BY <1>1, <1>2
    <2>4. ~hits[n].body
      BY <2>2, <2>3 DEF HitOf
    <2>5. QED
      BY <2>1, <2>4 DEF SeenAlready
  <1>14. m[j] > 0 => d.slug \in Slugs(hits)
    BY <1>1, <1>3, <1>6 DEF HitsInv
  <1>15. CASE body.full /\ ~SeenAlready(d)
    <2>1. PICK e : e = [slug |-> d.slug, score |-> Words, body |-> TRUE, stale |-> body.stale]
      OBVIOUS
    <2>2. hits' = Append(hits, e) /\ e.slug = d.slug /\ e.score = Words /\ e.body = TRUE /\ e.stale = body.stale
      BY <1>5, <1>15, <2>1
    <2>3. e.slug \notin Slugs(hits)
      BY <1>13, <1>15, <2>2
    <2>4. PICK b \in Nat :
             /\ DOMAIN hits = 1..b /\ DOMAIN hits' = 1 .. b + 1
             /\ \A i \in 1..b : hits'[i] = hits[i]
             /\ hits'[b + 1] = e
             /\ Listed(hits')
      BY <2>2, <2>3, Appended DEF HitsInv
    <2>5. m[j] = 0
      BY <1>7, <1>14, <2>2, <2>3
    <2>6. HitOf(e, j)'
      <3>1. docs'[j].slug = d.slug /\ d.slug \in matched' /\ j <= done'
        BY <1>3, <1>5, <1>10, <1>15
      <3>2. Merits'[j] = 0 /\ Words' = Words
        BY <1>7, <2>5
      <3>3. body.stale => staleBodies'
        BY <1>5, Zenon
      <3>4. e.stale => staleBodies'
        BY <2>2, <3>3, Zenon
      <3>5. QED
        BY <2>2, <3>1, <3>2, <3>4 DEF HitOf
    <2>7. ASSUME NEW n \in 1 .. b + 1 PROVE \E i \in DOMAIN docs' : HitOf(hits[n], i)'
      <3>1. CASE n \in 1..b
        <4>1. PICK i \in 1..c : HitOf(hits[n], i)
          BY <1>1, <2>4, <3>1 DEF HitsInv
        <4>2. PICK h : h = hits[n]
          OBVIOUS
        <4>3. HitOf(h, i)' /\ hits'[n] = h
          BY <1>11, <2>4, <3>1, <4>1, <4>2
        <4>4. HitOf(hits[n], i)'
          BY <4>3 DEF HitOf
        <4>5. QED
          BY <1>1, <1>5, <4>4
      <3>2. CASE n = b + 1
        <4>1. HitOf(hits[n], j)'
          BY <2>4, <2>6, <3>2 DEF HitOf
        <4>2. QED
          BY <1>1, <1>5, <4>1
      <3>3. QED
        BY <3>1, <3>2
    <2>8. Slugs(hits) \subseteq Slugs(hits') /\ d.slug \in Slugs(hits')
      <3>1. b + 1 \in DOMAIN hits' /\ hits'[b + 1].slug = d.slug
        BY <2>2, <2>4
      <3>2. \A i \in DOMAIN hits : i \in DOMAIN hits' /\ hits'[i] = hits[i]
        BY <2>4
      <3>3. QED
        BY <3>1, <3>2 DEF Slugs
    <2>9. ASSUME NEW i \in 1..c, m[i] > 0 \/ (docs[i].slug \in matching /\ i <= done')
          PROVE  docs[i].slug \in Slugs(hits')
      <3>1. CASE i = j
        BY <1>3, <2>8, <3>1
      <3>2. CASE i # j
        BY <1>1, <1>6, <1>12, <2>8, <2>9, <3>2 DEF HitsInv
      <3>3. QED
        BY <3>1, <3>2
    <2>10. (\A n \in DOMAIN hits : \E i \in DOMAIN docs : HitOf(hits[n], i))'
      BY <2>4, <2>7
    <2>11. (\A i \in DOMAIN docs : Merits[i] > 0 \/ (docs[i].slug \in matching /\ i <= done)
               => docs[i].slug \in Slugs(hits))'
      BY <1>1, <1>5, <1>7, <2>9 DEF Slugs
    <2>12. QED
      BY <1>8, <2>4, <2>10, <2>11 DEF HitsInv, Listed
  <1>16. CASE ~(body.full /\ ~SeenAlready(d))
    <2>1. hits' = hits
      BY <1>5, <1>16
    <2>2. ASSUME NEW n \in DOMAIN hits' PROVE \E i \in DOMAIN docs' : HitOf(hits[n], i)'
      <3>1. PICK i \in 1..c : HitOf(hits[n], i)
        BY <1>1, <2>1 DEF HitsInv
      <3>2. PICK h : h = hits[n]
        OBVIOUS
      <3>3. HitOf(h, i)' /\ hits'[n] = h
        BY <1>11, <2>1, <3>1, <3>2
      <3>4. HitOf(hits[n], i)'
        BY <3>3 DEF HitOf
      <3>5. QED
        BY <1>1, <1>5, <3>4
    <2>3. SeenAlready(d) => d.slug \in Slugs(hits)
      BY DEF SeenAlready, Slugs
    <2>4. d.slug \in matching => d.slug \in Slugs(hits)
      BY <1>9, <1>16, <2>3
    <2>5. ASSUME NEW i \in 1..c, m[i] > 0 \/ (docs[i].slug \in matching /\ i <= done')
          PROVE  docs[i].slug \in Slugs(hits)
      <3>1. CASE i = j
        BY <1>3, <1>14, <2>4, <2>5, <3>1
      <3>2. CASE i # j
        BY <1>1, <1>6, <1>12, <2>5, <3>2 DEF HitsInv
      <3>3. QED
        BY <3>1, <3>2
    <2>6. (\A i \in DOMAIN docs : Merits[i] > 0 \/ (docs[i].slug \in matching /\ i <= done)
               => docs[i].slug \in Slugs(hits))'
      BY <1>1, <1>5, <1>7, <2>1, <2>5 DEF Slugs
    <2>7. Listed(hits)'
      BY <2>1 DEF HitsInv, Listed
    <2>8. QED
      BY <1>8, <2>2, <2>6, <2>7 DEF HitsInv
  <1>17. QED
    BY <1>15, <1>16

LEMMA ChangesKeepHits ==
    ASSUME CatalogueInv, HitsInv, CacheChanges
    PROVE  CatalogueInv' /\ HitsInv'
  <1>1. PICK k \in DOMAIN cache : \E b : cache' = [cache EXCEPT ![k] = b]
    BY DEF CacheChanges
  <1>2. /\ matching' = matching \cap Full(cache') /\ matched' = matched \cup Full(cache')
        /\ UNCHANGED <<tokens, docs, text, done, hits, staleBodies>>
    BY DEF CacheChanges
  <1>3. DOMAIN cache' = DOMAIN cache
    BY <1>1
  <1>4. CatalogueInv'
    <2>1. Slugs(docs)' = Slugs(docs) /\ Listed(docs)' = Listed(docs) /\ Full(cache)' = Full(cache')
      BY <1>2 DEF Slugs, Listed, Full
    <2>2. matching' \subseteq Full(cache') /\ Full(cache') \subseteq matched'
      BY <1>2
    <2>3. QED
      BY <1>2, <1>3, <2>1, <2>2 DEF CatalogueInv
  <1>5. PICK m : m = Merits
    OBVIOUS
  <1>6. Merits' = m /\ Words' = Words
    BY <1>2, <1>5, TablesStay
  <1>7. ASSUME NEW h, NEW i, HitOf(h, i) PROVE HitOf(h, i)'
    BY <1>2, <1>5, <1>6, <1>7 DEF HitOf
  <1>8. ASSUME NEW n \in DOMAIN hits PROVE \E i \in DOMAIN docs : HitOf(hits[n], i)'
    <2>1. PICK i \in DOMAIN docs : HitOf(hits[n], i)
      BY DEF HitsInv
    <2>2. PICK h : h = hits[n]
      OBVIOUS
    <2>3. HitOf(h, i)' /\ hits'[n] = h
      BY <1>2, <1>7, <2>2, <2>1
    <2>4. HitOf(hits[n], i)'
      BY <2>3 DEF HitOf
    <2>5. QED
      BY <2>4
  <1>9. (\A i \in DOMAIN docs : Merits[i] > 0 \/ (docs[i].slug \in matching /\ i <= done)
             => docs[i].slug \in Slugs(hits))'
    BY <1>2, <1>5, <1>6 DEF HitsInv, Slugs
  <1>10. Listed(hits)'
    BY <1>2 DEF HitsInv, Listed
  <1>11. (\A n \in DOMAIN hits : \E i \in DOMAIN docs : HitOf(hits[n], i))'
    BY <1>2, <1>8
  <1>12. QED
    BY <1>4, <1>9, <1>10, <1>11 DEF HitsInv

-----------------------------------------------------------------------------
(* Its answer *)

\* Sorting keeps the hits, each in one place, the best first.
RankedBy(r, list, c, k) ==
    /\ k \in [1..c -> 1..c]
    /\ r \in Seq(Range(r)) /\ DOMAIN r = 1..c
    /\ \A n \in 1..c : r[n] = list[k[n]]
    /\ \A n, o \in 1..c : n # o => k[n] # k[o]
    /\ \A n, o \in 1..c : n < o => list[k[n]].score >= list[k[o]].score
    /\ \A x \in 1..c : \E n \in 1..c : k[n] = x

LEMMA HitsRanked ==
    ASSUME NEW list, list \in Seq(Range(list)), NEW c \in Nat, DOMAIN list = 1..c,
           \A n \in 1..c : list[n].score \in Nat
    PROVE  \E k : RankedBy(ByScore(list), list, c, k)
  <1>1. PICK R : R = {p \in (1..c) \X (1..c) : Better(list, p[1], p[2])}
    OBVIOUS
  <1>2. \A i, j \in 1..c : <<i, j>> \in R <=> Better(list, i, j)
    BY <1>1
  <1>3. Orders(1..c, R)
    <2>1. ASSUME NEW x \in 1..c, NEW y \in 1..c, NEW z \in 1..c
          PROVE  /\ ~Better(list, x, x)
                 /\ x # y => Better(list, x, y) \/ Better(list, y, x)
                 /\ Better(list, x, y) /\ Better(list, y, z) => Better(list, x, z)
      <3>1. PICK a \in Nat, b \in Nat, e \in Nat :
               a = list[x].score /\ b = list[y].score /\ e = list[z].score
        OBVIOUS
      <3>2. QED
        BY <3>1 DEF Better
    <2>2. QED
      BY <1>2, <2>1 DEF Orders
  <1>4. PICK k : k = Sorted(1..c, R)
    OBVIOUS
  <1>5. Ranks(k, c, 1..c, R)
    <2>1. IsFiniteSet(1..c) /\ Cardinality(1..c) = c
      BY FS_Interval
    <2>2. QED
      BY <1>3, <1>4, <2>1, SortedRanks
  <1>6. k \in [1..c -> 1..c] /\ \A n, o \in 1..c : n < o => Better(list, k[n], k[o])
    BY <1>2, <1>5 DEF Ranks, Ascends
  <1>7. PICK r : r = ByScore(list)
    OBVIOUS
  <1>8. r = [n \in 1..c |-> list[k[n]]]
    BY <1>1, <1>4, <1>7 DEF ByScore
  <1>9. r \in Seq(Range(r)) /\ DOMAIN r = 1..c
    BY <1>8, FunctionIsList
  <1>10. ASSUME NEW n \in 1..c, NEW o \in 1..c, n < o PROVE list[k[n]].score >= list[k[o]].score
    <2>1. Better(list, k[n], k[o]) /\ k[n] \in 1..c /\ k[o] \in 1..c
      BY <1>6, <1>10
    <2>2. list[k[n]].score \in Nat /\ list[k[o]].score \in Nat
      BY <2>1
    <2>3. QED
      BY <2>1, <2>2 DEF Better
  <1>11. RankedBy(r, list, c, k)
    <2>1. \A n \in 1..c : r[n] = list[k[n]]
      BY <1>8
    <2>2. QED
      BY <1>5, <1>6, <1>9, <1>10, <2>1 DEF Ranks, RankedBy
  <1>12. QED
    BY <1>7, <1>11

\* An answer that has n hits at most, or all that there are when n is 0.
Answers(t, n, index, due, mark, with, stale) ==
    /\ \A i \in DOMAIN index :
          \/ due[i] = 0
          \/ index[i].slug \in Slugs(t)
          \/ n > 0 /\ Len(t) = n /\ \A j \in DOMAIN t : t[j].score >= due[i]
    /\ \A i, j \in DOMAIN t : i < j => t[i].slug # t[j].slug /\ t[i].score >= t[j].score
    /\ \A i \in DOMAIN t :
          \/ ~t[i].body /\ \E j \in DOMAIN index : index[j].slug = t[i].slug /\ mark[j] > 0
          \/ t[i].body /\ t[i].slug \in with
    /\ (\E i \in DOMAIN t : t[i].stale) => stale

LEMMA AnswersAreComplete ==
    LocalSearchIsComplete
      <=> (pc = "degraded" => Answers(hits, limit, docs, Dues, Marks, matched, staleBodies))
  <1>1. \A i \in DOMAIN docs : Dues[i] = Deserved(docs[i]) /\ Marks[i] = scoreDocAny(docs[i])
    BY DEF Dues, Marks
  <1>2. QED
    BY <1>1 DEF LocalSearchIsComplete, Answers

LEMMA FinishAnswers ==
    ASSUME CatalogueInv, HitsInv, IsFiniteSet(tokens), tokens # {}, done = Len(docs), NEW n \in Nat
    PROVE  Answers(Ranked(n), n, docs, Dues, Marks, matched, staleBodies)
  <1>1. PICK c \in Nat : DOMAIN docs = 1..c /\ done = c
    BY DEF CatalogueInv, Listed
  <1>2. PICK b \in Nat : DOMAIN hits = 1..b
    BY DEF HitsInv, Listed
  <1>3. PICK w \in Nat : w = Words /\ w > 0
    BY WordsCounted
  <1>4. ASSUME NEW i \in 1..c
        PROVE  Merits[i] \in Nat /\ Marks[i] \in Nat /\ (Merits[i] > 0 => Marks[i] > 0)
    BY <1>1, MeritsAreNat
  <1>5. ASSUME NEW x \in 1..b
        PROVE  /\ hits[x].score \in Nat
               /\ \E i \in 1..c : HitOf(hits[x], i)
    <2>1. PICK i \in 1..c : HitOf(hits[x], i)
      BY <1>1, <1>2 DEF HitsInv
    <2>2. Merits[i] \in Nat
      BY <1>4
    <2>3. QED
      BY <1>3, <2>1, <2>2 DEF HitOf
  <1>6. PICK r : r = ByScore(hits)
    OBVIOUS
  <1>7. hits \in Seq(Range(hits))
    BY DEF HitsInv, Listed
  <1>8. PICK k : RankedBy(r, hits, b, k)
    BY <1>2, <1>5, <1>6, <1>7, HitsRanked
  <1>9. /\ k \in [1..b -> 1..b]
        /\ r \in Seq(Range(r)) /\ DOMAIN r = 1..b
        /\ \A x \in 1..b : r[x] = hits[k[x]]
        /\ \A x, y \in 1..b : x # y => k[x] # k[y]
        /\ \A x, y \in 1..b : x < y => hits[k[x]].score >= hits[k[y]].score
        /\ \A x \in 1..b : \E y \in 1..b : k[y] = x
    BY <1>8 DEF RankedBy
  <1>10. PICK S : S = Range(r)
    OBVIOUS
  <1>11. r \in Seq(S) /\ Len(r) = b
    BY <1>9, <1>10
  <1>12. PICK t : t = Truncate(r, n)
    OBVIOUS
  <1>13. PICK m \in Nat :
             /\ Truncate(r, n) \in Seq(S) /\ Len(Truncate(r, n)) = m /\ m <= Len(r)
             /\ \A x \in 1..m : Truncate(r, n)[x] = r[x]
             /\ m = Len(r) \/ (n > 0 /\ m = n)
    BY <1>11, Truncated
  <1>14. /\ t \in Seq(S) /\ Len(t) = m /\ m <= b
         /\ \A x \in 1..m : t[x] = r[x]
         /\ m = b \/ (n > 0 /\ m = n)
    BY <1>11, <1>12, <1>13
  <1>15. /\ DOMAIN t = 1..m /\ Len(t) = m
         /\ \A x \in 1..m : x \in 1..b /\ k[x] \in 1..b /\ t[x] = hits[k[x]]
         /\ m = b \/ (n > 0 /\ m = n)
    <2>1. DOMAIN t = 1..m
      BY <1>14
    <2>2. \A x \in 1..m : x \in 1..b
      BY <1>14
    <2>3. QED
      BY <1>9, <1>14, <2>1, <2>2
  <1>16. ASSUME NEW i \in 1..c, Dues[i] # 0, docs[i].slug \notin Slugs(t)
         PROVE  n > 0 /\ m = n /\ \A j \in 1..m : t[j].score >= Dues[i]
    <2>1. Merits[i] > 0 \/ docs[i].slug \in matching
      BY <1>1, <1>16, DuesAre
    <2>2. docs[i].slug \in Slugs(hits)
      BY <1>1, <2>1 DEF HitsInv
    <2>3. PICK x \in 1..b : hits[x].slug = docs[i].slug
      BY <1>2, <2>2 DEF Slugs
    <2>4. HitOf(hits[x], i)
      BY <1>1, <1>2, <2>3, HitsKnown DEF CatalogueInv
    <2>5. hits[x].score = Dues[i]
      <3>1. hits[x].score = IF Merits[i] = 0 THEN Words ELSE Merits[i]
        BY <2>4 DEF HitOf
      <3>2. Dues[i] = IF Merits[i] > 0 THEN Merits[i]
                      ELSE IF docs[i].slug \in matching THEN Words ELSE 0
        BY <1>1, DuesAre
      <3>3. Merits[i] \in Nat
        BY <1>4
      <3>4. QED
        BY <1>16, <3>1, <3>2, <3>3
    <2>6. PICK p \in 1..b : k[p] = x
      BY <1>9
    <2>7. p \notin 1..m
      <3>1. ASSUME p \in 1..m PROVE FALSE
        <4>1. t[p].slug = docs[i].slug /\ p \in DOMAIN t
          BY <1>15, <2>3, <2>6, <3>1
        <4>2. QED
          BY <1>16, <4>1 DEF Slugs
      <3>2. QED
        BY <3>1
    <2>8. n > 0 /\ m = n /\ m < p
      BY <1>15, <2>7
    <2>9. ASSUME NEW j \in 1..m PROVE t[j].score >= Dues[i]
      <3>1. j \in 1..b /\ j < p
        BY <1>15, <2>8
      <3>2. hits[k[j]].score >= hits[k[p]].score
        BY <1>9, <3>1
      <3>3. QED
        BY <1>15, <2>5, <2>6, <3>2
    <2>10. QED
      BY <2>8, <2>9
  <1>17. ASSUME NEW x \in 1..m, NEW y \in 1..m, x < y
         PROVE  t[x].slug # t[y].slug /\ t[x].score >= t[y].score
    <2>1. x \in 1..b /\ y \in 1..b /\ t[x] = hits[k[x]] /\ t[y] = hits[k[y]]
          /\ k[x] \in 1..b /\ k[y] \in 1..b
      BY <1>15
    <2>2. k[x] # k[y] /\ hits[k[x]].score >= hits[k[y]].score
      BY <1>9, <1>17, <2>1
    <2>3. hits[k[x]].slug # hits[k[y]].slug
      BY <1>2, <2>1, <2>2 DEF HitsInv, Listed
    <2>4. QED
      BY <2>1, <2>2, <2>3
  <1>18. ASSUME NEW x \in 1..m
         PROVE  \/ ~t[x].body /\ \E j \in 1..c : docs[j].slug = t[x].slug /\ Marks[j] > 0
                \/ t[x].body /\ t[x].slug \in matched
    <2>1. PICK h : h = t[x]
      OBVIOUS
    <2>2. PICK i \in 1..c : HitOf(h, i)
      BY <1>5, <1>15, <2>1
    <2>3. CASE h.body
      BY <2>1, <2>2, <2>3 DEF HitOf
    <2>4. CASE ~h.body
      <3>1. Merits[i] # 0 /\ Merits[i] \in Nat
        BY <1>4, <2>2, <2>4 DEF HitOf
      <3>2. Marks[i] > 0
        BY <1>4, <3>1
      <3>3. h.slug = docs[i].slug
        BY <2>2 DEF HitOf
      <3>4. QED
        BY <2>1, <2>4, <3>2, <3>3
    <2>5. QED
      BY <2>3, <2>4
  <1>19. ASSUME NEW x \in 1..m, t[x].stale PROVE staleBodies
    <2>1. PICK h : h = t[x]
      OBVIOUS
    <2>2. PICK i \in 1..c : HitOf(h, i)
      BY <1>5, <1>15, <2>1
    <2>3. h.stale
      BY <1>19, <2>1
    <2>4. QED
      BY <2>2, <2>3 DEF HitOf
  <1>20. Ranked(n) = t
    BY <1>6, <1>12 DEF Ranked
  <1>21. QED
    <2>1. \A i \in DOMAIN docs :
             \/ Dues[i] = 0
             \/ docs[i].slug \in Slugs(t)
             \/ n > 0 /\ Len(t) = n /\ \A j \in DOMAIN t : t[j].score >= Dues[i]
      BY <1>1, <1>15, <1>16
    <2>2. \A i, j \in DOMAIN t : i < j => t[i].slug # t[j].slug /\ t[i].score >= t[j].score
      BY <1>15, <1>17
    <2>3. \A i \in DOMAIN t :
             \/ ~t[i].body /\ \E j \in DOMAIN docs : docs[j].slug = t[i].slug /\ Marks[j] > 0
             \/ t[i].body /\ t[i].slug \in matched
      BY <1>1, <1>15, <1>18
    <2>4. (\E i \in DOMAIN t : t[i].stale) => staleBodies
      BY <1>15, <1>19
    <2>5. QED
      BY <1>20, <2>1, <2>2, <2>3, <2>4 DEF Answers

-----------------------------------------------------------------------------
(* A search without the origin, from its query to its answer *)

LocalInv ==
    /\ pc \in {"index", "origin", "fallback", "metadata", "local"} => IsFiniteSet(tokens)
    /\ pc \in {"origin", "fallback", "metadata", "local"} => tokens # {}
    /\ pc \in {"idle", "index", "origin", "fallback", "metadata"} => done = 0
    /\ pc \in {"metadata", "local"} => CatalogueInv
    /\ pc = "local" => HitsInv
    /\ LocalSearchIsComplete

LEMMA BeginLocalLists ==
    ASSUME LocalInv, BeginLocal
    PROVE  CatalogueInv'
  <1>1. Listed(docs')
    BY CatalogueListed DEF BeginLocal
  <1>2. cache' \in [Slugs(docs') -> Bodies] /\ matching' = Full(cache') /\ matched' = matching'
    BY DEF BeginLocal
  <1>3. done' = 0
    BY DEF BeginLocal, LocalInv
  <1>4. PICK c \in Nat : Len(docs') = c
    BY <1>1 DEF Listed
  <1>5. done' \in 0 .. Len(docs')
    BY <1>3, <1>4
  <1>6. DOMAIN cache' = Slugs(docs')
    BY <1>2
  <1>7. matching' \subseteq Full(cache') /\ Full(cache') \subseteq matched'
    BY <1>2
  <1>8. QED
    BY <1>1, <1>5, <1>6, <1>7 DEF CatalogueInv, Listed, Slugs, Full

LEMMA NextKeepsLocal ==
    ASSUME LocalInv, [Next]_vars
    PROVE  LocalInv'
  <1> USE DEF LocalInv
  <1>1. CASE GetDoc \/ FindPage \/ IndexUnavailable \/ ResolveHeading \/ PageDone \/ GiveUp
    <2>1. pc' \in {"find", "page", "absent", "rejected", "anchor", "answered", "failed", "unavailable"}
      BY <1>1 DEF GetDoc, FindPage, IndexUnavailable, ResolveHeading, PageDone, GiveUp
    <2>2. QED
      BY <2>1 DEF LocalSearchIsComplete
  <1>2. CASE SearchDocs
    <2>1. done' = done /\ pc = "idle" /\ pc' \in {"rejected", "index"}
      BY <1>2 DEF SearchDocs
    <2>2. pc' = "index" => tokens' \in Queries
      BY <1>2 DEF SearchDocs
    <2>3. QED
      BY <2>1, <2>2, ListsAssumption DEF LocalSearchIsComplete
  <1>a. CASE SearchWithSources
    <2>1. /\ pc = "index" /\ pc' \in {"answered", "fallback", "origin"}
          /\ pc' # "answered" => tokens # {}
          /\ UNCHANGED <<tokens, done>>
      BY <1>a DEF SearchWithSources, searchVars
    <2>2. QED
      BY <2>1 DEF LocalSearchIsComplete
  <1>3. CASE SearchOrigin \/ SearchOriginFails
    <2>1. pc = "origin" /\ pc' \in {"upstream", "failed", "fallback"} /\ tokens' = tokens /\ done' = done
      BY <1>3 DEF SearchOrigin, SearchOriginFails, OriginFailed, searchVars
    <2>2. QED
      BY <2>1 DEF LocalSearchIsComplete
  <1>4. CASE BeginLocal
    <2>1. pc = "fallback" /\ pc' = "metadata" /\ tokens' = tokens /\ done' = done
      BY <1>4 DEF BeginLocal
    <2>2. QED
      BY <1>4, <2>1, BeginLocalLists DEF LocalSearchIsComplete
  <1>5. CASE SearchMetadata
    <2>1. /\ pc = "metadata" /\ pc' = "local"
          /\ UNCHANGED <<tokens, docs, cache, done, matching, matched>>
      BY <1>5 DEF SearchMetadata
    <2>2. CatalogueInv'
      BY <2>1 DEF CatalogueInv, Listed, Slugs, Full
    <2>3. QED
      BY <1>5, <2>1, <2>2, MetadataFinds DEF LocalSearchIsComplete
  <1>6. CASE LookUp
    <2>1. pc = "local" /\ pc' = "local" /\ tokens' = tokens
      BY <1>6 DEF LookUp
    <2>2. QED
      BY <1>6, <2>1, LookUpFinds DEF LocalSearchIsComplete
  <1>7. CASE CacheChanges
    <2>1. pc = "local" /\ pc' = "local" /\ tokens' = tokens
      BY <1>7 DEF CacheChanges
    <2>2. QED
      BY <1>7, <2>1, ChangesKeepHits DEF LocalSearchIsComplete
  <1>8. CASE FinishLocal
    <2>1. /\ pc = "local" /\ pc' = "degraded" /\ done = Len(docs) /\ limit' \in Limits
          /\ hits' = Ranked(limit')
          /\ UNCHANGED <<tokens, docs, text, matching, matched, staleBodies>>
      BY <1>8 DEF FinishLocal
    <2>2. Answers(hits', limit', docs, Dues, Marks, matched, staleBodies)
      <3>1. limit' \in Nat
        BY <2>1, ListsAssumption
      <3>2. QED
        BY <2>1, <3>1, FinishAnswers
    <2>3. Dues' = Dues /\ Marks' = Marks
      BY <2>1, TablesStay
    <2>4. Answers(hits, limit, docs, Dues, Marks, matched, staleBodies)'
      BY <2>1, <2>2, <2>3 DEF Answers, Slugs
    <2>5. LocalSearchIsComplete'
      BY <2>4, AnswersAreComplete, PTL
    <2>6. QED
      BY <2>1, <2>5
  <1>9. CASE StopLocal
    BY <1>9 DEF StopLocal, LocalSearchIsComplete
  <1>10. CASE OriginStep \/ Cancel
    <2>1. UNCHANGED <<pc, searchVars>> /\ pc \in {"find", "index", "page", "anchor", "origin"}
      BY <1>10 DEF OriginStep, Cancel, Waits
    <2>2. UNCHANGED <<pc, tokens, done>>
      BY <2>1 DEF searchVars
    <2>3. QED
      BY <2>1, <2>2 DEF LocalSearchIsComplete
  <1>11. CASE Finished \/ UNCHANGED vars
    <2>1. UNCHANGED <<pc, searchVars>>
      BY <1>11 DEF Finished, vars
    <2>2. UNCHANGED <<pc, tokens, docs, text, cache, done, hits, staleBodies, limit, matching, matched>>
      BY <2>1 DEF searchVars
    <2>3. Merits' = Merits /\ Marks' = Marks /\ Words' = Words /\ Dues' = Dues
      BY <2>2, TablesStay
    <2>4. LocalSearchIsComplete'
      <3>1. Answers(hits, limit, docs, Dues, Marks, matched, staleBodies)'
              <=> Answers(hits, limit, docs, Dues, Marks, matched, staleBodies)
        BY <2>2, <2>3 DEF Answers, Slugs
      <3>2. LocalSearchIsComplete'
              <=> (pc = "degraded" => Answers(hits, limit, docs, Dues, Marks, matched, staleBodies))'
        BY AnswersAreComplete, PTL
      <3>3. pc' = "degraded" => Answers(hits, limit, docs, Dues, Marks, matched, staleBodies)'
        BY <2>2, <3>1, AnswersAreComplete
      <3>4. QED
        BY <3>2, <3>3
    <2>5. CatalogueInv' <=> CatalogueInv
      BY <2>2 DEF CatalogueInv, Listed, Slugs, Full
    <2>6. HitsInv' <=> HitsInv
      BY <2>2, <2>3 DEF HitsInv, HitOf, Listed, Slugs
    <2>7. QED
      BY <2>2, <2>4, <2>5, <2>6
  <1>12. QED
    BY <1>1, <1>2, <1>a, <1>3, <1>4, <1>5, <1>6, <1>7, <1>8, <1>9, <1>10, <1>11 DEF Next

\* Whatever other calls store, evict or let grow stale while a search without
\* the origin goes through the cached bodies, its answer has every page that
\* deserves to be in it, or as many as it may have that deserve it as much, each
\* once, none without a cause, and says so when one of them comes of a stale
\* body (search.go:28-122, 207-322).
THEOREM LocalSearchAlwaysComplete == Spec => []LocalSearchIsComplete
  <1>1. Init => LocalInv
    BY DEF Init, LocalInv, LocalSearchIsComplete
  <1>2. LocalInv /\ [Next]_vars => LocalInv'
    BY NextKeepsLocal
  <1>3. LocalInv => LocalSearchIsComplete
    BY DEF LocalInv
  <1>4. QED
    BY <1>1, <1>2, <1>3, PTL DEF Spec
=============================================================================
