---------------------------- MODULE PageService ----------------------------
(***************************************************************************)
(* How one language view answers requests for pages: the page cache, the   *)
(* shared flight that fetches a page once for all who wait for it, callers *)
(* that give up, the cool-down after an origin failure that searches also  *)
(* start and end, the disk cache and restarts.  Each caller runs get and   *)
(* fetchShared; a flight runs the function get passes to the single-flight *)
(* group, on its own context.                                              *)
(*                                                                         *)
(* A page body is known by the time it was fetched.  The catalogue is the  *)
(* set of slugs it lists; the cache is what PageCache promises: an entry   *)
(* stays until another page's write takes its room.                        *)
(***************************************************************************)
EXTENDS Integers

CONSTANTS Callers,   \* concurrent requests for pages
          Searchers, \* concurrent searches
          Slugs,     \* pages
          TTL,       \* lifetime of a cached page
          Cooldown,  \* how long after an origin failure fetches are put off
          MaxTime,   \* bound of the model's clock
          None       \* no such thing

ASSUME TimesAssumption == TTL \in Nat /\ Cooldown \in Nat /\ MaxTime \in Nat

VARIABLES pc,         \* where each caller is
          slug,       \* the page it asked for
          cancelled,  \* its context is done
          copy,       \* the copy its first lookup found
          inbox,      \* what its flight, or its own context, answered
          result,     \* what it was returned
          cache,      \* the memory cache: slug -> [fetched, storedAt]
          disk,       \* the disk cache: slug -> fetch time
          flight,     \* the flights under way: slug -> [stage, answer]
          search,     \* where each search at the origin is
          failedAt,   \* when an origin failure was last noted
          listed,     \* the slugs of the catalogue in memory
          refreshing, \* a forced catalogue refresh is running
          up,         \* the origin can be reached
          exists,     \* the pages it has
          now

\* History: the start of each call, whether the page was in the cache all
\* along, whether this process ever saw the origin fail and saw it fail last.
VARIABLES start, held, everFailed, lastFailed

callers == <<pc, slug, cancelled, copy, inbox, result>>
stores  == <<cache, disk>>
service == <<stores, flight, failedAt, listed, refreshing>>
world   == <<up, exists, now>>
history == <<start, held, everFailed, lastFailed>>
vars == <<callers, service, search, world, history>>

Times == 0..MaxTime
Entry == [fetched : Times, storedAt : Times]

\* An answer: a page body, or why there is none.
Answer == [kind : {"page"}, at : Times]
            \cup [kind : {"notfound", "failed", "cancelled"}, at : {0}]
Fail(kind) == [kind |-> kind, at |-> 0]
Body(at)   == [kind |-> "page", at |-> at]

\* What a caller is returned; hit: taken from the cache, not from a flight;
\* expired: past its lifetime when it was returned.
Returned == [kind : {"page", "notfound", "failed", "cancelled"}, at : Times,
             stale : BOOLEAN, hit : BOOLEAN, expired : BOOLEAN]

Flight == [stage : {"fetch", "store", "healthy", "deliver"}, answer : Answer \cup {None}]

ASSUME NoneAssumption ==
    None \notin Slugs \cup Times \cup Entry \cup Answer \cup Returned \cup Flight

Expired(t) == now - t >= TTL
CoolingDown == failedAt # None /\ now - failedAt < Cooldown

-----------------------------------------------------------------------------
Init ==
    /\ pc = [c \in Callers |-> "idle"]
    /\ slug = [c \in Callers |-> None]
    /\ cancelled = [c \in Callers |-> FALSE]
    /\ copy = [c \in Callers |-> None]
    /\ inbox = [c \in Callers |-> None]
    /\ result = [c \in Callers |-> None]
    /\ cache = [s \in Slugs |-> None]
    /\ disk = [s \in Slugs |-> None]
    /\ flight = [s \in Slugs |-> None]
    /\ search = [q \in Searchers |-> "idle"]
    /\ failedAt = None
    /\ listed = Slugs
    /\ refreshing = FALSE
    /\ up = TRUE
    /\ exists = Slugs
    /\ now = 0
    /\ start = [c \in Callers |-> 0]
    /\ held = [c \in Callers |-> FALSE]
    /\ everFailed = FALSE
    /\ lastFailed = FALSE

-----------------------------------------------------------------------------
(* A caller *)

\* A slug the catalogue does not list is refused at once: no step.
Call(c, s) ==
    /\ pc[c] = "idle"
    /\ s \in listed
    /\ pc' = [pc EXCEPT ![c] = "lookup"]
    /\ slug' = [slug EXCEPT ![c] = s]
    /\ start' = [start EXCEPT ![c] = now]
    /\ held' = [held EXCEPT ![c] = cache[s] # None]
    /\ UNCHANGED <<cancelled, copy, inbox, result, service, search, world, everFailed, lastFailed>>

\* The caller has its answer; what it held on the way is gone with its frame.
Finish(c, r) ==
    /\ pc' = [pc EXCEPT ![c] = "done"]
    /\ copy' = [copy EXCEPT ![c] = None]
    /\ inbox' = [inbox EXCEPT ![c] = None]
    /\ result' = [result EXCEPT ![c] = r]

ServeCopy(c, entry, stale) ==
    Finish(c, [kind |-> "page", at |-> entry.fetched, stale |-> stale, hit |-> TRUE,
               expired |-> Expired(entry.storedAt)])

ServeAnswer(c, answer) ==
    Finish(c, [kind |-> answer.kind, at |-> answer.at, stale |-> FALSE, hit |-> FALSE,
               expired |-> FALSE])

Lookup(c) ==
    LET entry == cache[slug[c]]
    IN  /\ pc[c] = "lookup"
        /\ \/ /\ entry # None
              /\ ~Expired(entry.storedAt)
              /\ ServeCopy(c, entry, FALSE)
           \/ /\ entry # None
              /\ Expired(entry.storedAt)
              /\ pc' = [pc EXCEPT ![c] = "cooldown"]
              /\ copy' = [copy EXCEPT ![c] = entry]
              /\ UNCHANGED <<inbox, result>>
           \/ /\ entry = None
              /\ pc' = [pc EXCEPT ![c] = "join"]
              /\ UNCHANGED <<copy, inbox, result>>
        /\ UNCHANGED <<slug, cancelled, service, search, world, history>>

\* During a cool-down the copy found is served without another fetch.
CheckCooldown(c) ==
    /\ pc[c] = "cooldown"
    /\ \/ CoolingDown /\ ServeCopy(c, copy[c], TRUE)
       \/ /\ ~CoolingDown
          /\ pc' = [pc EXCEPT ![c] = "join"]
          /\ copy' = [copy EXCEPT ![c] = None]
          /\ UNCHANGED <<inbox, result>>
    /\ UNCHANGED <<slug, cancelled, service, search, world, history>>

\* The caller waits for the flight under way, or starts one.
Join(c) ==
    LET s == slug[c]
    IN  /\ pc[c] = "join"
        /\ ~cancelled[c]
        /\ pc' = [pc EXCEPT ![c] = "wait"]
        /\ flight' = IF flight[s] = None
                     THEN [flight EXCEPT ![s] = [stage |-> "fetch", answer |-> None]]
                     ELSE flight
        /\ UNCHANGED <<slug, cancelled, copy, inbox, result, stores, failedAt, listed,
                       refreshing, search, world, history>>

\* Faulty: the flight runs on its first caller's context and ends with it.
GiveUpEndsFlight(c) ==
    LET s == slug[c]
    IN  /\ pc[c] \in {"join", "wait"}
        /\ cancelled[c]
        /\ pc' = [pc EXCEPT ![c] = "error"]
        /\ flight' = [flight EXCEPT ![s] = None]
        /\ inbox' = [d \in Callers |->
                        IF d = c \/ (pc[d] = "wait" /\ slug[d] = s)
                        THEN Fail("cancelled") ELSE inbox[d]]
        /\ UNCHANGED <<slug, cancelled, copy, result, stores, failedAt, listed, refreshing,
                       search, world,
                       history>>

\* A caller whose context is done stops waiting, or never starts; the flight
\* goes on without it.
GiveUp(c) ==
    /\ pc[c] \in {"join", "wait"}
    /\ cancelled[c]
    /\ pc' = [pc EXCEPT ![c] = "error"]
    /\ inbox' = [inbox EXCEPT ![c] = Fail("cancelled")]
    /\ UNCHANGED <<slug, cancelled, copy, result, service, search, world, history>>

Receive(c) ==
    /\ pc[c] = "wait"
    /\ inbox[c] # None
    /\ \/ inbox[c].kind = "page" /\ ServeAnswer(c, inbox[c])
       \/ /\ inbox[c].kind # "page"
          /\ pc' = [pc EXCEPT ![c] = "error"]
          /\ UNCHANGED <<copy, inbox, result>>
    /\ UNCHANGED <<slug, cancelled, service, search, world, history>>

\* The three ways to handle an error, in the order the code tries them.  A
\* caller whose context is done by now is given the error it has, which may be
\* its flight's and not a cancellation: nothing is refreshed, noted or served.
ReportCancelled(c) ==
    /\ pc[c] = "error"
    /\ cancelled[c]
    /\ ServeAnswer(c, inbox[c])
    /\ UNCHANGED <<slug, cancelled, service, search, world, history>>

ReportNotFound(c) ==
    /\ pc[c] = "error"
    /\ ~cancelled[c]
    /\ inbox[c].kind = "notfound"
    /\ refreshing' = TRUE
    /\ ServeAnswer(c, inbox[c])
    /\ UNCHANGED <<slug, cancelled, stores, flight, failedAt, listed, search, world, history>>

\* Faulty: a caller's own cancellation passes for an origin failure.
NoteAnyFailure(c) ==
    /\ pc[c] = "error"
    /\ inbox[c].kind # "notfound"
    /\ failedAt' = now
    /\ pc' = [pc EXCEPT ![c] = "fallback"]
    /\ UNCHANGED <<slug, cancelled, copy, inbox, result, stores, flight, listed, refreshing,
                   search, world, history>>

NoteFailure(c) ==
    /\ pc[c] = "error"
    /\ ~cancelled[c]
    /\ inbox[c].kind # "notfound"
    /\ failedAt' = now
    /\ pc' = [pc EXCEPT ![c] = "fallback"]
    /\ UNCHANGED <<slug, cancelled, copy, inbox, result, stores, flight, listed, refreshing,
                   search, world, history>>

\* Faulty: an expired copy does not count.
FallbackToFresh(c) ==
    LET entry == cache[slug[c]]
        usable == entry # None /\ ~Expired(entry.storedAt)
    IN  /\ pc[c] = "fallback"
        /\ \/ usable /\ ServeCopy(c, entry, TRUE)
           \/ ~usable /\ ServeAnswer(c, inbox[c])
        /\ UNCHANGED <<slug, cancelled, service, search, world, history>>

\* Any copy in the cache by now beats the error, and is marked stale.
Fallback(c) ==
    LET entry == cache[slug[c]]
    IN  /\ pc[c] = "fallback"
        /\ \/ entry # None /\ ServeCopy(c, entry, TRUE)
           \/ entry = None /\ ServeAnswer(c, inbox[c])
        /\ UNCHANGED <<slug, cancelled, service, search, world, history>>

Return(c) ==
    /\ pc[c] = "done"
    /\ pc' = [pc EXCEPT ![c] = "idle"]
    /\ slug' = [slug EXCEPT ![c] = None]
    /\ cancelled' = [cancelled EXCEPT ![c] = FALSE]
    /\ copy' = [copy EXCEPT ![c] = None]
    /\ inbox' = [inbox EXCEPT ![c] = None]
    /\ result' = [result EXCEPT ![c] = None]
    /\ start' = [start EXCEPT ![c] = 0]
    /\ held' = [held EXCEPT ![c] = FALSE]
    /\ UNCHANGED <<service, search, world, everFailed, lastFailed>>

\* The client cancels, or its deadline passes.
Cancel(c) ==
    /\ pc[c] \notin {"idle", "done"}
    /\ cancelled' = [cancelled EXCEPT ![c] = TRUE]
    /\ UNCHANGED <<pc, slug, copy, inbox, result, service, search, world, history>>

-----------------------------------------------------------------------------
(* A flight: the fetch and, when it succeeds, what it must do before it ends *)

\* The body is cached, unless it exceeds the cache's cap, at the time it came.
FetchSucceeds(s) ==
    /\ flight[s] # None /\ flight[s].stage = "fetch"
    /\ up /\ s \in exists
    /\ flight' = [flight EXCEPT ![s] = [stage |-> "store", answer |-> Body(now)]]
    /\ \/ cache' = [cache EXCEPT ![s] = [fetched |-> now, storedAt |-> now]]
       \/ cache' = cache
    /\ lastFailed' = FALSE
    /\ UNCHANGED <<callers, disk, failedAt, listed, refreshing, search, world, start, held,
                   everFailed>>

\* Faulty: the fetch is tried again for as long as the origin is down.
FetchFailsOnlyNotFound(s) ==
    /\ flight[s] # None /\ flight[s].stage = "fetch"
    /\ up /\ s \notin exists
    /\ flight' = [flight EXCEPT ![s] = [stage |-> "deliver", answer |-> Fail("notfound")]]
    /\ lastFailed' = FALSE
    /\ UNCHANGED <<callers, stores, failedAt, listed, refreshing, search, world, start, held,
                   everFailed>>

FetchFails(s) ==
    /\ flight[s] # None /\ flight[s].stage = "fetch"
    /\ \/ /\ up /\ s \notin exists
          /\ flight' = [flight EXCEPT ![s] = [stage |-> "deliver", answer |-> Fail("notfound")]]
          /\ lastFailed' = FALSE
          /\ everFailed' = everFailed
       \/ /\ ~up
          /\ flight' = [flight EXCEPT ![s] = [stage |-> "deliver", answer |-> Fail("failed")]]
          /\ lastFailed' = TRUE
          /\ everFailed' = TRUE
    /\ UNCHANGED <<callers, stores, failedAt, listed, refreshing, search, world, start, held>>

\* Writing the disk cache can fail, or the entry be pruned at once; the
\* answer does not depend on it.
StoreDisk(s) ==
    /\ flight[s] # None /\ flight[s].stage = "store"
    /\ flight' = [flight EXCEPT ![s].stage = "healthy"]
    /\ \E kept \in {flight[s].answer.at, disk[s], None} : disk' = [disk EXCEPT ![s] = kept]
    /\ UNCHANGED <<callers, cache, failedAt, listed, refreshing, search, world, history>>

NoteHealthy(s) ==
    /\ flight[s] # None /\ flight[s].stage = "healthy"
    /\ flight' = [flight EXCEPT ![s].stage = "deliver"]
    /\ failedAt' = None
    /\ UNCHANGED <<callers, stores, listed, refreshing, search, world, history>>

\* Faulty: only one of the waiting callers is answered.
DeliverToOne(s) ==
    /\ flight[s] # None /\ flight[s].stage = "deliver"
    /\ flight' = [flight EXCEPT ![s] = None]
    /\ \E c \in Callers :
          /\ pc[c] = "wait" /\ slug[c] = s /\ inbox[c] = None
          /\ inbox' = [inbox EXCEPT ![c] = flight[s].answer]
    /\ UNCHANGED <<pc, slug, cancelled, copy, result, stores, failedAt, listed, refreshing,
                   search, world,
                   history>>

\* The flight leaves the group and its answer goes to all who still wait.
Deliver(s) ==
    /\ flight[s] # None /\ flight[s].stage = "deliver"
    /\ flight' = [flight EXCEPT ![s] = None]
    /\ inbox' = [c \in Callers |->
                    IF pc[c] = "wait" /\ slug[c] = s /\ inbox[c] = None
                    THEN flight[s].answer ELSE inbox[c]]
    /\ UNCHANGED <<pc, slug, cancelled, copy, result, stores, failedAt, listed, refreshing,
                   search, world,
                   history>>

-----------------------------------------------------------------------------
(* A search at the origin shares the cool-down with the pages *)

\* During a cool-down the search is local and touches none of this state.
SearchOrigin(q) ==
    /\ search[q] = "idle"
    /\ ~CoolingDown
    /\ search' = [search EXCEPT ![q] = "fetch"]
    /\ UNCHANGED <<callers, service, world, history>>

\* The search's flight notes the origin healthy; what came may still be
\* unreadable, which its caller takes for a failure.
SearchAnswered(q) ==
    /\ search[q] \in {"fetch", "abandoned"}
    /\ up
    /\ failedAt' = None
    /\ lastFailed' = FALSE
    /\ \/ /\ search' = [search EXCEPT ![q] = "idle"]
          /\ everFailed' = everFailed
       \/ /\ search[q] = "fetch"
          /\ search' = [search EXCEPT ![q] = "failed"]
          /\ everFailed' = TRUE
    /\ UNCHANGED <<callers, stores, flight, listed, refreshing, world, start, held>>

SearchRefused(q) ==
    /\ search[q] \in {"fetch", "abandoned"}
    /\ ~up
    /\ search' = [search EXCEPT ![q] = IF search[q] = "fetch" THEN "failed" ELSE "idle"]
    /\ lastFailed' = TRUE
    /\ everFailed' = TRUE
    /\ UNCHANGED <<callers, service, world, start, held>>

SearchNotesFailure(q) ==
    /\ search[q] = "failed"
    /\ search' = [search EXCEPT ![q] = "idle"]
    /\ failedAt' = now
    /\ UNCHANGED <<callers, stores, flight, listed, refreshing, world, history>>

\* Faulty: the caller's own cancellation counts as a failure.
SearchCancelledNotes(q) ==
    /\ search[q] \in {"fetch", "failed"}
    /\ search' = [search EXCEPT ![q] = IF search[q] = "fetch" THEN "abandoned" ELSE "idle"]
    /\ failedAt' = now
    /\ UNCHANGED <<callers, stores, flight, listed, refreshing, world, history>>

\* The flight of a search whose caller has gone runs on, and a failure that
\* finds its caller gone is not noted.
SearchCancelled(q) ==
    /\ search[q] \in {"fetch", "failed"}
    /\ search' = [search EXCEPT ![q] = IF search[q] = "fetch" THEN "abandoned" ELSE "idle"]
    /\ UNCHANGED <<callers, service, world, history>>

SearchStep(q) ==
    \/ SearchOrigin(q) \/ SearchAnswered(q) \/ SearchRefused(q)
    \/ SearchNotesFailure(q) \/ SearchCancelled(q)

-----------------------------------------------------------------------------
(* The rest of the system *)

\* The forced catalogue refresh ends: it fails, or brings a list of pages read
\* at some moment while it ran.
RefreshEnds ==
    /\ refreshing
    /\ refreshing' = FALSE
    /\ \/ listed' = listed
       \/ up /\ \E stillListed \in SUBSET (listed \ exists) : listed' = exists \cup stillListed
    /\ UNCHANGED <<callers, stores, flight, failedAt, search, world, history>>

\* A write for another page, of this or another language, takes the room.
Evict(s) ==
    /\ cache[s] # None
    /\ cache' = [cache EXCEPT ![s] = None]
    /\ held' = [c \in Callers |-> IF slug[c] = s THEN FALSE ELSE held[c]]
    /\ UNCHANGED <<callers, disk, flight, failedAt, listed, refreshing, search, world, start,
                   everFailed,
                   lastFailed>>

\* Only the disk outlives the process; the catalogue comes back from it as it
\* was last stored, which may be before its last refresh.
Crash ==
    /\ pc' = [c \in Callers |-> "idle"]
    /\ slug' = [c \in Callers |-> None]
    /\ cancelled' = [c \in Callers |-> FALSE]
    /\ copy' = [c \in Callers |-> None]
    /\ inbox' = [c \in Callers |-> None]
    /\ result' = [c \in Callers |-> None]
    /\ flight' = [s \in Slugs |-> None]
    /\ search' = [q \in Searchers |-> "idle"]
    /\ failedAt' = None
    /\ \E older \in SUBSET (Slugs \ listed) : listed' = listed \cup older
    /\ refreshing' = FALSE
    /\ start' = [c \in Callers |-> 0]
    /\ held' = [c \in Callers |-> FALSE]
    /\ everFailed' = FALSE
    /\ lastFailed' = FALSE

\* Faulty: what is loaded starts a new lifetime.
RestartYoung ==
    /\ Crash
    /\ \E loaded \in SUBSET {s \in Slugs : disk[s] # None} :
          cache' = [s \in Slugs |-> IF s \in loaded
                                   THEN [fetched |-> disk[s], storedAt |-> now] ELSE None]
    /\ UNCHANGED <<disk, world>>

\* The process restarts and loads the entries that fit, each with its own age.
Restart ==
    /\ Crash
    /\ \E loaded \in SUBSET {s \in Slugs : disk[s] # None} :
          cache' = [s \in Slugs |-> IF s \in loaded
                                   THEN [fetched |-> disk[s], storedAt |-> disk[s]] ELSE None]
    /\ UNCHANGED <<disk, world>>

OriginChanges ==
    /\ \/ up' = ~up /\ exists' = exists
       \/ up' = up /\ \E s \in exists : exists' = exists \ {s}
    /\ UNCHANGED <<callers, service, search, now, history>>

Tick ==
    /\ now < MaxTime
    /\ now' = now + 1
    /\ UNCHANGED <<callers, service, search, up, exists, history>>

CallerStep(c) ==
    \/ Lookup(c) \/ CheckCooldown(c) \/ Join(c) \/ GiveUp(c) \/ Receive(c)
    \/ ReportCancelled(c) \/ ReportNotFound(c) \/ NoteFailure(c) \/ Fallback(c) \/ Return(c)

FlightStep(s) ==
    \/ FetchSucceeds(s) \/ FetchFails(s) \/ StoreDisk(s) \/ NoteHealthy(s) \/ Deliver(s)

Next ==
    \/ \E c \in Callers : CallerStep(c) \/ Cancel(c) \/ \E s \in Slugs : Call(c, s)
    \/ \E s \in Slugs : FlightStep(s) \/ Evict(s)
    \/ \E q \in Searchers : SearchStep(q)
    \/ RefreshEnds \/ Restart \/ OriginChanges \/ Tick

Spec == Init /\ [][Next]_vars

\* A request's goroutine runs on, and a flight ends: its context times out.
FairSpec ==
    /\ Spec
    /\ \A c \in Callers : WF_vars(CallerStep(c))
    /\ \A s \in Slugs : WF_vars(FlightStep(s))
    /\ WF_vars(RefreshEnds)

-----------------------------------------------------------------------------
(* Properties *)

\* Every variable has its type, and a caller waits without an answer only
\* while a flight for its page is under way.
TypeOK ==
    /\ pc \in [Callers -> {"idle", "lookup", "cooldown", "join", "wait", "error", "fallback", "done"}]
    /\ slug \in [Callers -> Slugs \cup {None}]
    /\ cancelled \in [Callers -> BOOLEAN]
    /\ copy \in [Callers -> Entry \cup {None}]
    /\ inbox \in [Callers -> Answer \cup {None}]
    /\ result \in [Callers -> Returned \cup {None}]
    /\ cache \in [Slugs -> Entry \cup {None}]
    /\ disk \in [Slugs -> Times \cup {None}]
    /\ flight \in [Slugs -> Flight \cup {None}]
    /\ search \in [Searchers -> {"idle", "fetch", "abandoned", "failed"}]
    /\ failedAt \in Times \cup {None}
    /\ listed \subseteq Slugs
    /\ exists \subseteq Slugs
    /\ refreshing \in BOOLEAN /\ up \in BOOLEAN
    /\ everFailed \in BOOLEAN /\ lastFailed \in BOOLEAN
    /\ now \in Times
    /\ start \in [Callers -> Times]
    /\ held \in [Callers -> BOOLEAN]
    /\ \A c \in Callers : pc[c] = "wait" /\ inbox[c] = None => flight[slug[c]] # None

\* Stale beats error: a caller that still waits is not refused over an origin
\* failure when the page was in the cache when it called and has not been
\* evicted since, however the flight it shared, other callers and the clock
\* went.  Only one that gave up may get the flight's failure all the same
\* (service.go:250).
StaleBeatsError ==
    \A c \in Callers :
        result[c] # None /\ result[c].kind = "failed" => ~held[c] \/ cancelled[c]

\* Only the origin makes a cool-down, a stale answer or a refusal: a caller
\* that gives up, whether it started the flight or joined it, causes none of
\* them for itself or for the others.
FailuresHaveCause ==
    failedAt # None \/ (\E c \in Callers : result[c] # None
                                            /\ (result[c].stale \/ result[c].kind = "failed"))
        => everFailed

\* A caller is told its request was cancelled only when it was, and never
\* takes the answer of a flight for a cancellation.
OnlyCancelledAreCancelled ==
    \A c \in Callers : result[c] # None /\ result[c].kind = "cancelled" => cancelled[c]

\* A copy served as fresh was really fetched within its lifetime before the
\* call, also when it has been to the disk and back across restarts.
FreshCopiesAreRecent ==
    \A c \in Callers :
        LET r == result[c]
        IN  r # None /\ r.kind = "page" /\ r.hit /\ ~r.stale => start[c] - r.at < TTL

\* A fetched page marked stale is past its lifetime (service.go:25-26).
StaleMeansExpired ==
    \A c \in Callers : result[c] # None /\ result[c].stale => result[c].expired

\* When the last contact with the origin failed and nobody is still handling
\* that failure, the cool-down has been started (service.go:20-22).
CooldownAfterFailure ==
    /\ lastFailed
    /\ \A c \in Callers : pc[c] = "idle"
    /\ \A s \in Slugs : flight[s] = None
    /\ \A q \in Searchers : search[q] = "idle"
    => failedAt # None

\* Every request is answered: nobody waits for a flight that has gone, and
\* no error path leads back to waiting.
EveryCallEnds == \A c \in Callers : pc[c] # "idle" ~> pc[c] = "idle"
=============================================================================
