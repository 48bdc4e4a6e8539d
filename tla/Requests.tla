------------------------------ MODULE Requests ------------------------------
(***************************************************************************)
(* One fetch as the origin sees it: a request, the redirects that are      *)
(* followed from it, the checks of the answer, and the same from the start *)
(* for each attempt.  When attempts are made is FetchClient's subject.     *)
(***************************************************************************)
EXTENDS References

CONSTANTS Redirects,    \* the locations an origin may redirect to
          MaxHops,      \* the requests of one attempt
          MaxAttempts   \* the attempts of one fetch

ASSUME RequestsAssumption == {MaxHops, MaxAttempts} \subseteq Nat \ {0}

VARIABLES phase,    \* where the fetch is
          asked,    \* the URL it is for
          anchor,   \* it is for the published page, to look an anchor up
          via,      \* the requests of this attempt
          attempt,
          accepted  \* what is known of the answer accepted

fetchVars == <<phase, asked, anchor, via, attempt, accepted>>

NoAnswer == [language |-> None, html |-> FALSE, cap |-> None]

\* The outcomes of a fetch.
Failures == {"refused", "missing", "html", "failed", "oversized"}
Outcomes == Failures \cup {"body"}

RequestInit ==
    /\ phase = "idle"
    /\ asked = curatedURL
    /\ anchor = FALSE
    /\ via = <<>>
    /\ attempt = 0
    /\ accepted = NoAnswer

\* Client.Fetch up to its first request.
Fetch(u, forAnchor) ==
    /\ asked' = u
    /\ anchor' = forAnchor
    /\ accepted' = NoAnswer
    /\ IF validateFetchScope(u)
       THEN phase' = "sent" /\ via' = <<u>> /\ attempt' = 1
       ELSE phase' = "refused" /\ via' = <<>> /\ attempt' = 0

End(outcome) ==
    /\ phase' = outcome
    /\ UNCHANGED <<asked, anchor, via, attempt, accepted>>

\* A failure that is worth another attempt, while there is one.
Retry ==
    IF attempt = MaxAttempts
    THEN End("failed")
    ELSE /\ attempt' = attempt + 1
         /\ via' = <<asked>>
         /\ UNCHANGED <<phase, asked, anchor, accepted>>

\* The checks of a redirect that make it a failed attempt.
Followable(location) ==
    /\ Len(via) < MaxHops
    /\ location.scheme = "base"
    /\ validateRedirectLocation(location.written)
    /\ validateFetchScope(location.url)

\* A faulty variant of StaysInLanguage: a location without a language is
\* followed from any.
StaysOrHasNone(u) ==
    requestLanguage(u) \in {None, requestLanguage(via[1])} \/ requestLanguage(via[1]) = None

StaysInLanguage(u) ==
    requestLanguage(via[1]) # None => requestLanguage(u) = requestLanguage(via[1])

\* The origin redirects.  One that leaves the language is as good as a page
\* that is missing.
Redirect ==
    /\ phase = "sent"
    /\ \E location \in Redirects :
          \/ ~Followable(location) /\ Retry
          \/ Followable(location) /\ ~StaysInLanguage(location.url) /\ End("missing")
          \/ /\ Followable(location) /\ StaysInLanguage(location.url)
             /\ via' = Append(via, location.url)
             /\ UNCHANGED <<phase, asked, anchor, attempt, accepted>>

\* The origin does not answer, or with 429, a 5xx, or a body that breaks off.
AttemptFails == phase = "sent" /\ Retry

\* A 404, or another status that is final.
Missing == phase = "sent" /\ End("missing")
FinalStatus == phase = "sent" /\ End("failed")

bodyCap(u) ==
    IF Last(u.path) = Plain("llms.txt")
       \/ \E i \in 1 .. Len(u.path) - 2 : SubSeq(u.path, i, i + 1) = PageListPath
    THEN "catalogue" ELSE "page"

\* An answer that does not say its language is taken to be in it.
ContentLanguageMatches(language) ==
    requestLanguage(asked) # None => language \in {None, requestLanguage(asked)}

\* A 200.  The language is looked at before the type, the type before the size.
Answer ==
    /\ phase = "sent"
    /\ \E language \in Languages \cup {None}, isHTML, tooLong \in BOOLEAN :
          \/ ~ContentLanguageMatches(language) /\ End("missing")
          \/ ContentLanguageMatches(language) /\ isHTML /\ ~anchor /\ End("html")
          \/ /\ ContentLanguageMatches(language) /\ (isHTML => anchor)
             /\ tooLong
             /\ End("oversized")
          \/ /\ ContentLanguageMatches(language) /\ (isHTML => anchor)
             /\ ~tooLong
             /\ phase' = "body"
             /\ accepted' = [language |-> language, html |-> isHTML,
                             cap |-> IF anchor THEN "catalogue" ELSE bodyCap(asked)]
             /\ UNCHANGED <<asked, anchor, via, attempt>>

RequestStep == Redirect \/ AttemptFails \/ Missing \/ FinalStatus \/ Answer

-----------------------------------------------------------------------------
(* Properties *)

\* Whatever redirects an origin chains, in whatever attempt, each request goes
\* to the configured origin, below its base path, and, when a language was
\* asked for, to something in that language (client.go:100-102, 120-128); and
\* what is accepted as its answer is in that language too, if it says so.
RequestsStayInScope ==
    LET language == requestLanguage(asked)
    IN  /\ \A i \in DOMAIN via :
              /\ via[i].origin = "base" /\ UnderBase(via[i].path)
              /\ language # None => requestLanguage(via[i]) = language
        /\ phase = "body" /\ language # None => accepted.language \in {None, language}
        /\ phase = "body" /\ accepted.html => anchor
=============================================================================
