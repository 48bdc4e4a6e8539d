------------------------------- MODULE Search -------------------------------
(***************************************************************************)
(* One call of a tool, get_doc or search_docs, from the reference or the   *)
(* language it names to what the origin is asked, and from the origin's    *)
(* hits, or without it the catalogue and the cached bodies, to the ranked  *)
(* answer.  While a search goes through the cached bodies one by one,      *)
(* other calls replace and evict them, and its caller may give up.         *)
(*                                                                         *)
(* What a search reads only later is chosen when it is read: the catalogue *)
(* and the bodies are any there could be.                                  *)
(***************************************************************************)
EXTENDS Requests, Lists

CONSTANTS Inputs,     \* what get_doc may be given
          HitLists,   \* what the origin's search may list: references, in order
          Curated,    \* the curated lists there may be, as paths; <<>> for none
          PageLists,  \* the page lists there may be, as lines
          Queries,    \* the words of each query there may be
          Texts,      \* where a page may have each of them, in its metadata
          Bodies,     \* what the cache may have of a page
          Limits,     \* caps on the number of hits; 0 is no cap
          MaxChanges  \* bound on the changes of the cache during a search

ASSUME InputsAssumption == \A r \in Inputs : r.path \in Seq(Segments) \ {<<>>}
ASSUME ListsAssumption ==
    /\ \A list \in HitLists \cup Curated \cup PageLists : list \in Seq(Range(list))
    /\ \A list \in HitLists : \A i \in DOMAIN list : list[i].path \in Seq(Segments) \ {<<>>}
    /\ \A query \in Queries : IsFiniteSet(query)
    /\ Bodies \subseteq [cached : BOOLEAN, full : BOOLEAN, stale : BOOLEAN]
    /\ Limits \subseteq Nat

VARIABLES pc,       \* where the call is
          view,     \* the language of the view it uses
          slug,     \* the page it is for
          cancelled,
          cooling,  \* the view's cool-down after a failure
          tokens,   \* the words of the query
          docs,     \* the catalogue the search read
          text,     \* where the metadata of each page has each word
          cache,    \* the body each page has in the cache
          done,     \* the pages of the catalogue looked up so far
          hits,
          staleBodies,
          limit,
          changes,
          matching, \* the pages whose body has had all words since the search began
          matched   \* those whose body has had them at some time since

searchVars == <<tokens, docs, text, cache, done, hits, staleBodies, limit, changes, matching, matched>>
vars == <<fetchVars, pc, view, slug, cancelled, cooling, searchVars>>

-----------------------------------------------------------------------------
(* The catalogue *)

Slugs(index) == {index[i].slug : i \in DOMAIN index}

InLanguage(path, language) == Len(path) > 1 /\ path[1] = Plain(language)

\* Entries are kept once, and only those in the list's language.
Entries(paths, curated, language) ==
    LET all  == [i \in DOMAIN paths |-> [slug |-> cleanSlug(paths[i]), curated |-> curated]]
        kept == {i \in DOMAIN paths : InLanguage(all[i].slug, language)
                                        /\ \A j \in 1 .. i - 1 : all[j] # all[i]}
    IN  Taken(all, kept)

\* A curated list without entries counts as none.
ParseIndex(paths) == Entries(paths, TRUE, English)
ParsePageList(paths, language) == Entries(paths, FALSE, language)

\* A faulty variant of MergeIndex: the lists one after the other.
MergeAll(primary, extra) == primary \o extra

\* Curated entries first, and instead of the listed ones.
MergeIndex(primary, extra) ==
    primary \o Taken(extra, {i \in DOMAIN extra : extra[i].slug \notin Slugs(primary)})

Catalogue(curated, listed) ==
    MergeIndex(IF view = English THEN ParseIndex(curated) ELSE <<>>,
               ParsePageList(listed, view))

-----------------------------------------------------------------------------
(* Ranking *)

Words == Cardinality(tokens)

\* The title, which is often made of the slug, and the slug count three; the
\* description, which only a curated entry has, two.
Weight(d, token) ==
    IF text[d.slug][token] = "name" THEN 3
    ELSE IF text[d.slug][token] = "description" /\ d.curated THEN 2 ELSE 0

scoreDocAny(d) == SumFunctionOnSet([token \in tokens |-> Weight(d, token)], tokens)
scoreDoc(d) == IF \E token \in tokens : Weight(d, token) = 0 THEN 0 ELSE scoreDocAny(d)

ByMetadata(score) ==
    Taken([i \in DOMAIN docs |->
              [slug |-> docs[i].slug, score |-> score[i], body |-> FALSE, stale |-> FALSE]],
          {i \in DOMAIN docs : score[i] > 0})

\* Entries with all words, or, if there are none, with any of several.
SearchIndex ==
    LET strict == ByMetadata([i \in DOMAIN docs |-> scoreDoc(docs[i])])
    IN  IF strict = <<>> /\ Words > 1
        THEN ByMetadata([i \in DOMAIN docs |-> scoreDocAny(docs[i])])
        ELSE strict

\* A stable sort.
Better(list, i, j) == list[i].score > list[j].score \/ (list[i].score = list[j].score /\ i < j)

ByScore(list) ==
    LET places == DOMAIN list
        ranked == Sorted(places, {p \in places \X places : Better(list, p[1], p[2])})
    IN  [n \in places |-> list[ranked[n]]]

Truncate(list, n) == IF n > 0 /\ Len(list) > n THEN SubSeq(list, 1, n) ELSE list

-----------------------------------------------------------------------------
(* The calls *)

Init ==
    /\ RequestInit
    /\ pc = "idle" /\ view = English /\ slug = <<Empty>>
    /\ cancelled = FALSE
    /\ cooling \in BOOLEAN
    /\ tokens = {} /\ docs = <<>> /\ text = <<>> /\ cache = <<>>
    /\ done = 0 /\ hits = <<>> /\ staleBodies = FALSE /\ limit = 0 /\ changes = 0
    /\ matching = {} /\ matched = {}

\* The reference is read by the tool and, as the slug it then is, by the
\* service.
GetDoc ==
    /\ pc = "idle"
    /\ \E r \in Inputs :
          LET path == ReferencePath(r)
              page == ReferencePath(AsReference(path))
          IN  IF IsReference(r) /\ IsReference(AsReference(path))
              THEN /\ slug' = page /\ view' = SlugLanguage(page)
                   /\ pc' = "find"
              ELSE /\ pc' = "rejected"
                   /\ UNCHANGED <<slug, view>>
    /\ UNCHANGED <<fetchVars, cancelled, cooling, searchVars>>

\* The page's URL comes from its entry in the catalogue, if it has one.
FindPage ==
    /\ pc = "find"
    /\ \/ pc' = "page" /\ Fetch(markdownURL(slug), FALSE)
       \/ pc' = "absent" /\ UNCHANGED fetchVars
    /\ UNCHANGED <<view, slug, cancelled, cooling, searchVars>>

\* There is no catalogue: a call that waits is told so, whatever it is for.
IndexUnavailable ==
    /\ pc \in {"find", "index"}
    /\ pc' = "unavailable"
    /\ UNCHANGED <<fetchVars, view, slug, cancelled, cooling, searchVars>>

\* A heading that the page's text does not have is looked up in the page as
\* published.
ResolveHeading ==
    /\ pc = "page" /\ phase = "body"
    /\ pc' = "anchor"
    /\ Fetch(URL(slug, None), TRUE)
    /\ UNCHANGED <<view, slug, cancelled, cooling, searchVars>>

PageDone ==
    /\ pc \in {"page", "anchor"} /\ phase \in Outcomes
    /\ pc' = IF pc = "page" /\ phase = "missing" THEN "absent" ELSE "answered"
    /\ UNCHANGED <<fetchVars, view, slug, cancelled, cooling, searchVars>>

\* No language named is English; an unknown one is an error.
SearchDocs ==
    /\ pc = "idle"
    /\ \E language \in Languages \cup {None, "unknown"}, query \in Queries :
          LET chosen == IF language = None THEN English ELSE language
          IN  IF chosen \in Languages
              THEN pc' = "index" /\ view' = chosen /\ tokens' = query
              ELSE pc' = "rejected" /\ UNCHANGED <<view, tokens>>
    /\ UNCHANGED <<fetchVars, slug, cancelled, cooling, docs, text, cache, done, hits, staleBodies,
                   limit, changes, matching, matched>>

\* There is a catalogue, which is read below.  A query without words finds
\* nothing.
SearchWithSources ==
    /\ pc = "index"
    /\ IF tokens # {} /\ ~cooling
       THEN pc' = "origin" /\ Fetch(searchURL(view), FALSE)
       ELSE pc' = (IF tokens = {} THEN "answered" ELSE "fallback") /\ UNCHANGED fetchVars
    /\ UNCHANGED <<view, slug, cancelled, cooling, searchVars>>

\* The fetch is over and its answer is read.
Forget ==
    /\ phase' = "idle" /\ asked' = curatedURL /\ anchor' = FALSE
    /\ via' = <<>> /\ attempt' = 0 /\ accepted' = NoAnswer

\* A faulty variant of OriginFailed: its failure is the search's.
OriginFailedFinally == pc' = "failed" /\ UNCHANGED cooling

\* The origin's search failed, or answered something that cannot be used.
OriginFailed ==
    IF cancelled
    THEN pc' = "failed" /\ UNCHANGED cooling
    ELSE pc' = "fallback" /\ cooling' = TRUE

\* A faulty variant: hits of any language are taken.
AcceptableReferences(list) == \A i \in DOMAIN list : IsReference(list[i])

\* Each hit must be a reference in the view's language; a page is kept once,
\* where it comes first, and scored by its place.
Acceptable(list) ==
    \A i \in DOMAIN list : IsReference(list[i]) /\ languagePath(ReferencePath(list[i])) = view

OriginHits(list, index) ==
    LET paths == [i \in DOMAIN list |-> ReferencePath(list[i])]
        kept  == Taken(paths, {i \in DOMAIN list : \A j \in 1 .. i - 1 : paths[j] # paths[i]})
    IN  [n \in DOMAIN kept |->
            [slug |-> kept[n], score |-> Len(list) + 1 - n, body |-> TRUE, stale |-> FALSE,
             notice |-> kept[n] \notin Slugs(index)]]

SearchOrigin ==
    /\ pc = "origin" /\ phase = "body"
    /\ \E list \in HitLists, curated \in Curated, listed \in PageLists, n \in Limits :
          LET index == Catalogue(curated, listed)
          IN  /\ index # <<>>
              /\ IF Acceptable(list)
                 THEN /\ pc' = "upstream"
                      /\ docs' = index
                      /\ hits' = Truncate(OriginHits(list, index), n)
                      /\ UNCHANGED cooling
                 ELSE OriginFailed /\ UNCHANGED <<docs, hits>>
    /\ Forget
    /\ UNCHANGED <<view, slug, cancelled, tokens, text, cache, done, staleBodies, limit, changes,
                   matching, matched>>

SearchOriginFails ==
    /\ pc = "origin" /\ phase \in Failures
    /\ OriginFailed
    /\ Forget
    /\ UNCHANGED <<view, slug, cancelled, searchVars>>

\* What a call waits for: the catalogue or a fetch.
Waits == pc \in {"find", "index", "page", "anchor", "origin"}

\* The caller is gone: it waits no longer, though what it waits for goes on.
Cancel ==
    /\ Waits /\ ~cancelled
    /\ cancelled' = TRUE
    /\ UNCHANGED <<fetchVars, pc, view, slug, cooling, searchVars>>

GiveUp ==
    /\ Waits /\ cancelled
    /\ pc' = "failed"
    /\ UNCHANGED <<fetchVars, view, slug, cancelled, cooling, searchVars>>

-----------------------------------------------------------------------------
(* The search without the origin *)

\* A body in the cache: with all words or not, in its lifetime or past it.
NoBody == [cached |-> FALSE, full |-> FALSE, stale |-> FALSE]

Full(bodies) == {k \in DOMAIN bodies : bodies[k].full}

\* The catalogue's metadata first.
BeginLocal ==
    /\ pc = "fallback"
    /\ \E curated \in Curated, listed \in PageLists : docs' = Catalogue(curated, listed)
    /\ docs' # <<>>
    /\ text' \in [Slugs(docs') -> Texts]
    /\ cache' \in [Slugs(docs') -> Bodies]
    /\ matching' = Full(cache') /\ matched' = matching'
    /\ pc' = "metadata"
    /\ UNCHANGED <<fetchVars, view, slug, cancelled, cooling, tokens, done, hits, staleBodies, limit, changes>>

SearchMetadata ==
    /\ pc = "metadata"
    /\ hits' = SearchIndex
    /\ pc' = "local"
    /\ UNCHANGED <<fetchVars, view, slug, cancelled, cooling, tokens, docs, text, cache, done,
                   staleBodies, limit, changes, matching, matched>>

\* A faulty variant of SeenAlready: what was found before is found again.
NotSeen(d) == FALSE

SeenAlready(d) == \E i \in DOMAIN hits : hits[i].slug = d.slug /\ ~hits[i].body

\* The next page's body.
LookUp ==
    /\ pc = "local" /\ done < Len(docs) /\ ~cancelled
    /\ LET d    == docs[done + 1]
           body == cache[d.slug]
       IN  /\ staleBodies' = (staleBodies \/ body.stale)
           /\ hits' = IF body.full /\ ~SeenAlready(d)
                      THEN Append(hits, [slug |-> d.slug, score |-> Words, body |-> TRUE,
                                         stale |-> body.stale])
                      ELSE hits
    /\ done' = done + 1
    /\ UNCHANGED <<fetchVars, pc, view, slug, cancelled, cooling, tokens, docs, text, cache,
                   limit, changes, matching, matched>>

\* A faulty variant of Ranked: the hits are cut before they are sorted.
CutThenRanked(n) == ByScore(Truncate(hits, n))

Ranked(n) == Truncate(ByScore(hits), n)

FinishLocal ==
    /\ pc = "local" /\ done = Len(docs) /\ ~cancelled
    /\ limit' \in Limits
    /\ hits' = Ranked(limit')
    /\ pc' = "degraded"
    /\ UNCHANGED <<fetchVars, view, slug, cancelled, cooling, tokens, docs, text, cache, done,
                   staleBodies, changes, matching, matched>>

\* The caller is gone, and is told so at the next page, or in the end.
StopLocal ==
    /\ pc = "local"
    /\ cancelled' = TRUE
    /\ pc' = "failed"
    /\ hits' = <<>>
    /\ UNCHANGED <<fetchVars, view, slug, cooling, tokens, docs, text, cache, done, staleBodies,
                   limit, changes, matching, matched>>

\* Another call stores a page, evicts one, or one's lifetime ends.
CacheChanges ==
    /\ pc = "local" /\ changes < MaxChanges
    /\ \E k \in DOMAIN cache :
          /\ cache' \in {[cache EXCEPT ![k] = b] :
                            b \in {NoBody, [cache[k] EXCEPT !.stale = @ \/ cache[k].cached]}
                                    \cup [cached : {TRUE}, full : BOOLEAN, stale : {FALSE}]}
          /\ cache' # cache
    /\ changes' = changes + 1
    /\ matching' = matching \cap Full(cache')
    /\ matched' = matched \cup Full(cache')
    /\ UNCHANGED <<fetchVars, pc, view, slug, cancelled, cooling, tokens, docs, text, done, hits,
                   staleBodies, limit>>

Finished ==
    /\ pc \in {"answered", "absent", "upstream", "degraded", "rejected", "unavailable", "failed"}
    /\ UNCHANGED vars

\* The answer of the origin matters to a caller that is there.
OriginStep ==
    /\ pc \in {"page", "anchor", "origin"} /\ RequestStep
    /\ UNCHANGED <<pc, view, slug, cancelled, cooling, searchVars>>

Next ==
    \/ GetDoc \/ FindPage \/ IndexUnavailable \/ OriginStep \/ ResolveHeading \/ PageDone
    \/ SearchDocs \/ SearchWithSources \/ SearchOrigin \/ SearchOriginFails
    \/ BeginLocal \/ SearchMetadata \/ LookUp \/ FinishLocal \/ StopLocal \/ CacheChanges
    \/ Cancel \/ GiveUp \/ Finished

Spec == Init /\ [][Next]_vars

-----------------------------------------------------------------------------
(* Properties *)

\* A page that get_doc accepts is always asked for, from the view of its
\* language: what ParseReference lets through, validateFetchScope, which looks
\* at URLs by itself, never refuses; and nothing is accepted as its answer,
\* or asked on the way, that is outside the origin or in another language
\* (reference.go, client_scope.go, client.go:100-130).
CallsStayInScope ==
    /\ phase # "refused"
    /\ pc \in {"page", "anchor", "origin"} => requestLanguage(asked) = view
    /\ RequestsStayInScope

\* Given the slug of a page, get_doc takes it for that page, and not for
\* another or none: just when the slug ends in no ".md", as get_doc takes one
\* off.
Settled(path) == Last(path)[2] = 0
TakenFor(path) == IsReference(AsReference(path)) /\ ReferencePath(AsReference(path)) = path

\* Each page that an answer names is in the language meant, and get_doc takes
\* its slug for a reference to it, unless the slug still ends in ".md" when
\* one is taken off: the hits of the origin, which are the language's that was
\* searched, each once, the best first, with the notice if the catalogue does
\* not have them; and the English alternative to a page that is missing
\* (apisearch.go:66-70, 93-130, languages.go:116-117).
NamedPagesOpen ==
    /\ pc = "absent" /\ view # English =>
          LET english == EnglishAlternative(slug)
          IN  /\ TakenFor(english) <=> Settled(slug)
              /\ SlugLanguage(english) = English
    /\ pc = "upstream" =>
        /\ \A i \in DOMAIN hits :
              /\ TakenFor(hits[i].slug) <=> Settled(hits[i].slug)
              /\ SlugLanguage(hits[i].slug) = view
              /\ hits[i].notice <=> hits[i].slug \notin Slugs(docs)
        /\ \A i, j \in DOMAIN hits :
              i < j => hits[i].slug # hits[j].slug /\ hits[i].score > hits[j].score

\* What a page deserves: by its metadata, or, by the body it has had all
\* along, a point for each word.
StrictMatches == {i \in DOMAIN docs : scoreDoc(docs[i]) > 0}
Deserved(d) ==
    IF StrictMatches # {} \/ Words = 1
    THEN IF scoreDoc(d) > 0 THEN scoreDoc(d) ELSE IF d.slug \in matching THEN Words ELSE 0
    ELSE IF scoreDocAny(d) > 0 THEN scoreDocAny(d) ELSE IF d.slug \in matching THEN Words ELSE 0

\* The answer without the origin has every page that deserves to be in it, or
\* as many as it may have that deserve it as much; it has each page once,
\* none without a cause, and says that it used stale bodies when one of its
\* hits is one; whatever other calls do to the cache meanwhile
\* (search.go:207-209, 252-254).
LocalSearchIsComplete ==
    pc = "degraded" =>
        /\ \A i \in DOMAIN docs :
              LET d == docs[i]
              IN  \/ Deserved(d) = 0
                  \/ d.slug \in Slugs(hits)
                  \/ /\ limit > 0 /\ Len(hits) = limit
                     /\ \A j \in DOMAIN hits : hits[j].score >= Deserved(d)
        /\ \A i, j \in DOMAIN hits :
              i < j => hits[i].slug # hits[j].slug /\ hits[i].score >= hits[j].score
        /\ \A i \in DOMAIN hits :
              \/ ~hits[i].body /\ \E j \in DOMAIN docs : docs[j].slug = hits[i].slug /\ scoreDocAny(docs[j]) > 0
              \/ hits[i].body /\ hits[i].slug \in matched
        /\ (\E i \in DOMAIN hits : hits[i].stale) => staleBodies

\* Once there is a catalogue, a caller that waits gets an answer, whatever the
\* origin does: only one that gave up does not, and the catalogue's error comes
\* before anything is asked of the origin.  The search without the origin
\* follows a failure of it, and no caller that gave up, and nothing but an
\* answer that failed, starts the cool-down (search.go:207-209, 217-223,
\* 242-252).
SearchDegrades ==
    [][/\ pc' = "failed" => cancelled'
       /\ pc' = "unavailable" => pc \in {"find", "index", "unavailable"}
       /\ pc' = "degraded" => cooling' /\ ~cancelled'
       /\ cooling' # cooling => ~cancelled /\ pc = "origin" /\ phase \in Failures \cup {"body"}
      ]_vars
=============================================================================
