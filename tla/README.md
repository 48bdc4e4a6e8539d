# A verification project for github-docs-mcp

github-docs-mcp is an MCP server that answers an agent's questions from the
GitHub documentation. It fetches a catalogue of pages and the pages
themselves from one origin, keeps them in memory and on disk, and serves them
whole, by section or by search. This directory holds TLA+ models of its
stateful parts, the TLC runs that check them on small instances, and TLAPS
proofs for instances of any size. Every definition is taken from the Go code
under `src/`; `PROJECT.json` gives the lines each one stands for.

## 1. The system

| Component | Code | State | Operations | Correct when |
|---|---|---|---|---|
| page cache | `internal/docs/cache.go` | map of entries, recency list, byte count | `lookup`, `putSource` (`Put`, `putAged`), `Size` | list, map and count agree; the cap holds; what goes is the least recently used and no more than needed |
| disk cache | `diskcache.go`, `disklock*.go` | one file per key, temporary files, a lock file, shared by processes | `storeAt`, `loadBounded`, `prune`, `lock` | a load returns only complete values with their own age; the catalogue survives the pages; nobody keeps the lock |
| page service | `service.go` | page cache, flights (`sf`), `lastFailAt`, language views | `Get`, `fetchShared`, `loadDisk`, `storeDisk`, `refreshIndexAsync` | stale beats error; a cancellation stays its caller's own; every call ends |
| catalogue | `catalogue.go` | two sources, each with its index, its time and its last failure | `index`, `refreshIndex`, `refreshComponent` | the last good copy is kept; a 404 heals; refreshes do not trample each other |
| origin client | `client.go` | none between fetches; token bucket | `Fetch`, `doOnce` | at most three attempts, begun within the rate; `Retry-After` is honoured; no sleep into the deadline |
| scope and references | `client_scope.go`, `reference.go`, `languages.go` | none | validation, slugs, choice of a view | what one validator lets through another does not refuse; fetches stay under the base and in one language |
| catalogue parsing | `index.go` | none | `ParseIndex`, `MergeIndex`, `BySlug`, `FilterDocs` | one entry per slug, the curated one first |
| local search | `search.go` | none | `SearchIndex`, `searchLocal` | what deserves to be found is, although the cache changes meanwhile |
| origin search | `apisearch.go` | none | API search, fall back to the local one | `get_doc` takes each hit for its page; an API failure is not a failure of the tool |
| sections | `section.go`, `extract.go`, `headings.go`, `fence.go`, `anchor_resolution.go` | none | split, unique anchors, extract by heading, by an id of the published page | headings are real; an anchor leads to its heading |
| provenance, trace | `provenance.go`, `cache_trace.go` | records | - | no decision reads them |
| pagination | `mcpserver/pagination.go`, `cursor.go` | the cursor the client holds | windows, continuations | windows cover the text once; a cursor of another snapshot is refused |
| tools | `mcpserver/tools.go`, `errors.go`, `server.go` | none | handlers | arguments checked before the service is called |
| HTTP, command | `mcpserver/http.go`, `cmd/` | listener, requests under way | start, graceful shutdown | a request that fits the grace is answered; the exit code is that of what happened; a stop ends |

How they interact. A tool handler runs on its request's goroutine and calls
`Service.Get`. `get` asks the catalogue for the slug, reads the page cache, and
on a miss joins the page's single flight. The flight runs on a goroutine of its
own with a context that no caller can cancel: it fetches, writes the page
cache, writes the disk cache and clears `lastFailAt`, in this order, and only
then are the callers woken. Callers note failures, flights note recoveries. A
404 starts a catalogue refresh in the background. A search asks the catalogue first too; without
one it fails before it asks the origin. The page cache and the flights
are shared by goroutines, the disk cache also by processes. Every request to
the origin, whoever makes it, passes `validateFetchScope` and the redirect check
of the one HTTP client. The listener runs on a goroutine of its own and reports
to the main goroutine on a channel.

The hard behaviours: callers that are cancelled before, during and after the
flight they share; a flight that fails while another succeeds; the cool-down
written from both sides; entries that vanish or are refreshed between two looks;
processes killed, or the machine losing power, between any two file
operations; files that cannot be written, removed or locked in time; refreshes
of two kinds in one flight; waits that do not fit the time left; cursors into
what has changed; code that looks like headings; chains of redirects; bodies
that come and go while a search reads them; a stop that races the listener's
error and the last answers.
`PROJECT.json` lists each of them under `hazards`, at its line.

## 2. The modules

| Module | What it is |
|---|---|
| `LruStore` | the abstract recency store: a read counts as a use, a write makes room by dropping the least recently used entries, as few as it can |
| `PageCache` | the cache as coded: `entries`, `lru`, `curBytes` |
| `AtomicDisk` | the abstract directory: a key has one complete value or none |
| `DiskCache` | the directory, its lock and any number of processes |
| `PageService` | callers, searches and flights of one language view |
| `Catalogue` | the sources of one view, readers, background refreshes and their flight |
| `FetchClient` | fetches with attempts, waits and deadlines, and their token bucket |
| `Windows` | cutting a text into windows, as operators |
| `Continuation` | a client that follows cursors through a source that changes; on `Windows` |
| `Headings` | one pass over the lines of a page, and what is made of its headings |
| `References` | what a reference and a request may be, as operators |
| `Requests` | one fetch as the origin sees it: requests, redirects, checks of the answer; on `References` |
| `Search` | one call of `get_doc` or `search_docs`, with the catalogue's lists and both searches; on `Requests` |
| `Server` | the process: transports, listener, graceful stop, exit code |
| `Lists` | sorting a set by an order, and taking some places of a list; used by `Search` |
| `CacheProofs` | theorems about `PageCache` and `DiskCache`, and that they implement `LruStore` and `AtomicDisk` |
| `TextProofs` | theorems about `Headings`, `Windows` and `Continuation` |
| `PageServiceProofs`, `CatalogueProofs`, `FetchClientProofs`, `SearchProofs`, `ServerProofs` | theorems about the module each is named for |
| `DataTheorems` | what these proofs share: induction, sums, folds, sorted lists, lists of lists |
| `MC...` | values for TLC |

A definition whose comment begins with "Faulty" or "A faulty variant" is not part
of the model. It is
the definition after it with a plausible bug, and stands there to show
that the properties notice it (`mutants` in `PROJECT.json`).

**PageCache.** Each operation holds the mutex throughout and is one action.
`Put` is the whole of `putSource`: replace or insert, move to the front, then
drop entries from the back until the running count fits. `uses` is a history
variable, which slugs were used after which others, which the code does not have:
`LruStore` needs it to say what "least recently used" means, and the
refinement is `INSTANCE LruStore WITH Keys <- Slugs, MaxBytes <- Cap, store <- entries`.

**DiskCache.** `pc` follows a process through `storeAt` or `loadBounded`; the
names are those of the file operations. An entry file is a record: its length,
when its value was fetched, its modification time, whether it holds all its
bytes and whether these would survive a power loss. `files` is the directory as
processes see it, `platter` as a power loss would leave it. `Flush` copies one
to the other at any moment, and bytes reach the platter by `Sync` alone: this
is why the sync must come before the rename. `Leave` is the deferred close of the
lock handle. `LockFails` covers the failure to open or lock the file and
the deadline; as time is not tied to the attempts it can occur at any try. The
listing of `prune` and the reading of `loadBounded` happen under the lock, so
each is one step. The listing leaves out any files (`unlisted`), as `prune` does when it cannot
have a file's size and time (`diskcache.go:247-250`), and `total` is its running
total of the others. Removals are steps of their own, because each can be refused
and the process can die between two; a file that refuses still counts and is in `tried`.
A load passes over any files it cannot open, stat or read (`broken`). Keys are model values: their encoding as file
names, and files that are not entries, are left out. `AtomicDisk` is what all this
promises: a `Put`, a `Drop` that only happens over the budget, a `Persist` and a
`Lose` that are about the whole directory. The mapping takes the file of a key
for its value, in `files` and in `platter`; a value is a file that holds all its bytes,
synced, with its own age. Temporary files, locks and the stages of a
store have no counterpart, and those steps stutter.

**PageService.** `pc` follows a caller through `get`: `lookup` (line 211),
`cooldown` (217), `join` (227, 323-332), `wait` (334), `error` (248-260),
`fallback` (264), `done`. A caller whose context is done when it looks at its error is
returned that error, wrapped, and nothing else is done with it (`ReportCancelled`, 248-252): it is
the caller's cancellation, or what its flight ended with if the `select` took that first. A flight is a record in `flight`: `fetch` (228),
`store` (after the page cache was written, 237), `healthy` (239), `deliver`. A body
is known by its fetch time. The catalogue is the set `listed`, the disk cache the
fetch time it holds for each page, and the page cache a function that loses an
entry when `Evict` takes it. `FetchSucceeds` may leave the cache as it is, for a
body longer than the cap. `Restart` keeps the disk only, and the catalogue that
was last stored on it. A searcher (`search`) asks the origin's search in a flight
of its own and otherwise answers from the catalogue; it reads, starts and ends the
same cool-down as the callers (`apisearch.go`). History variables: `start` is when
a call began, `held` whether its page has been in the cache ever since,
`everFailed` and `lastFailed` whether this process saw the origin fail, ever and at
last contact.

**Catalogue.** A source's component is its copy, the time of it and its last
failure. A copy is the version of the source it was read from, `origin` the version
now published. A reader goes through `Check`, `Join`, wait, `Snapshot`; a healer, the
forced refresh after a 404, joins at once and joins again while the flight
that answered it was an ordinary one. In the flight one worker to a source reads
the component, fetches without the lock, stores on disk and writes the component
back, the four steps in which it can be overtaken. `Restart` restores what
`disk` holds, or nothing when a file is lost. How sources are parsed and merged is
not part of it. `PageService` has the effect of this module only (`listed`).

**FetchClient.** The constants of the code in quarter seconds: back-off
2, cap 32, deadline 180, attempts of up to 120. Time goes from event to event, and
code between two waits takes none. All fetches go through `fetchShared`
(`service.go:323-332`), so a context ends by its deadline and by nothing else. The
bucket is `golang.org/x/time/rate`, which is not in the repository: `full` is
the time at which it would be full again if nobody took a token, which says the
same as a level and a time and stays an integer. `Attempt` takes one token and is the
first request of `http.Client.Do`; `Redirect` is each request the HTTP client makes after
it, for no token, until there are `MaxHops` (`client.go:99-102`) or the client's own time is over
(`ClientTimeout`, 97-98). A request's answer is one of a redirect, a
body, an error that no retry helps with, and a failure that may be retried and may
announce a wait; where redirects may go and what an answer must be is in `Requests`.
History: `sent`, when attempts were made, `asked`, all requests with their attempts, `allowed`,
the earliest time the origin allowed the next one, and `fits`, whether a duration could hold what it announced.

**Windows and Continuation.** A text is a sequence of bytes of seven kinds: ASCII,
newline, the first bytes of runes of two, three and four bytes, that of a literal
U+FFFD, and a byte that continues a rune; Go's decoder and the cut tell no
more apart. `kind` is what is read: a whole page, what is under a heading,
the sections that match, the list of pages. The client has a cursor or a first call; the
server has the source, which `Publish` may replace at any moment. The digest
in a cursor is the source itself (no collisions), base64 and JSON are left out. `large` says
that what was selected is too long to be put in a cursor; that a cursor's length
also varies by the digits of its numbers is left out. Errors of the
service below are its own and no outcome here. `ReadSpec` is the specification
(`Headings`, which the proofs extend too, has `Spec`). `ContentsAssumption` says of a source
only what the splitting of a page and the rendering of the list ensure: a page and the
text under a heading are one piece, and no section and no entry is empty or begins within a rune.

**Headings.** A line is a record of what the pass can tell; a step reads one, so
every page of up to `MaxLines` lines is a state. `Leaves`, `Inner`, `Closes`,
`Opens` are `fence.go`; `ReadCode`, `ReadHeading`, `ReadUnderline`, `ReadText` are the
branches of the loop of `headingRanges`. Extracts, breadcrumbs and anchors are
operators over the headings found. Lower case, slug and anchor of a text are constant
functions, given for the texts of a run; an anchor is a sequence, so that a
numbered one is the anchor and a number. The published page is the sequence of its
headings, each with an id or none. `ResolveHeading` first takes an id that is an anchor
of the page's own text for that anchor, without a look at the published page
(`anchor_resolution.go:25-27`); any other goes to `ResolvePublishedHeading`, which looks
for the one heading with the text that carries the id there. Headings without text, and
items whose content begins more than four columns after the marker, are left out.

**References, Requests and Search.** A path is a sequence of segments, a segment a
stem and the number of ".md" after it, because `cleanSlug` takes one such suffix off
and `markdownURL` puts one on. White space, fragments, two slashes in a row below
the base and the port of an origin are left out. `Requests` begins with
`validateFetchScope`; `Redirect` is `CheckRedirect` in its order, `Answer` the checks of a
200 in theirs. When attempts are made is `FetchClient`'s subject, that there are
several is kept: a retry starts from the first URL. `Search` begins with an input of
`get_doc` or a language and a query, and goes on with the requests these lead to. Before
any of them both ask for the catalogue (`service.go:200-203`, `search.go:217-223`), and its error is
returned to a caller that waits (`IndexUnavailable`); with it, `FindPage` has the page's entry
or not, and `SearchWithSources` goes to the origin, or past it in the cool-down.
The catalogue, the places of the words and the bodies are chosen when they are
first read, so that no state is spent on calls that do not read them; from then on
`CacheChanges` lets other calls store, evict and outlive bodies between two steps of
`LookUp`. A cancelled caller may still take an answer that comes in the same moment, or
give up (`GiveUp`), as the `select` of `fetchShared` draws. History: `matching`, the
pages whose bodies have had all words ever since the search began, `matched`, those
that had them at some time. A call of `Search` does not share flights;
`PageService` has those, and the cool-down that `cooling` stands for.

**Server.** `pc` is the main goroutine: `select` (`http.go:45`), `shutdown` (54), `await`
(58). `listener` and `errCh` are the listener's goroutine and its channel, which has room
for one error. A connection has one request, which needs `need` units of time;
`Drained` is the return of `http.Server.Shutdown`, `GraceOver` its deadline, and when
both are there either happens. `cut` is a connection that the end of the process
closes. History: `within`, the requests that needed less than the grace when the stop began.

## 3. What TLC checks

| Run | Instance | Shows |
|---|---|---|
| `page_cache` | 3 slugs, bodies of several lengths, 2 ages | `ListMatchesMap`, `BytesBounded`, and that the cache implements `LruStore` |
| `disk` | 2 processes, a catalogue source and a page of 1 or 2 bytes, room for 2, listings that leave files out and removals that are refused, clock 0..1, fairness | `LockExcludes`, `CatalogueLoads`, `StoreKeepsBudget`, `CatalogueOutlivesPages`, `OperationsEnd`, and that the directory implements `AtomicDisk` |
| `page_service` | 2 callers, 1 page, clock 0..1, lifetime and cool-down 1 | types, `StaleBeatsError`, `FailuresHaveCause`, `OnlyCancelledAreCancelled`, `FreshCopiesAreRecent` |
| `page_service_ends` | 1 caller, 1 search, 1 page, clock 0..1, fairness | `EveryCallEnds` |
| `catalogue` | 2 sources, 1 reader, 1 healer, 2 versions, no clock | types, `ServedDespiteOutage`, `HealerReplacesAll` |
| `catalogue_clock` | 1 source that is always old, 1 reader, 1 healer, clock 0..1, fairness | `KeepsLastGood`, `OutageSparesOrigin`, `RefreshesEnd` |
| `fetch_client` | 2 fetches that start in the first 25 s, a token each 20 s, attempts of up to 2 requests that take a quarter or 20 s, `Retry-After` of none, 5, 30 or 40 s, of which 40 do not fit the width of a duration | types, `RateLimited`, `RetryAfterHonoured`, `GivesUpOnlyWhenItMust` |
| `continuation` | windows of 4 bytes, groups of 2 sections, lists of up to 3; all texts of up to 5 runes and byte sequences of up to 6 as pages, a few other sources with 2 changes | `WindowsAreText`, `Reassembled`, `CursorsAccepted`, `EveryAnswerAdvances` |
| `headings` | pages of up to 4 lines of 20 kinds, published with every choice of ids, among them two that can be anchors of the page | `FenceIsOpen`, `HeadingsAreReal`, `CrumbsEnclose`, `AnchorFindsHeading`, `PublishedHeadingFound` |
| `search` | every path of up to 3 segments of 12 stems, of up to 2 with ".md" up to four times at its end, URLs of 4 origins, 14 redirects, up to 3 hits, catalogues of up to 3 pages, queries of up to 2 words, 2 languages | `CallsStayInScope`, `NamedPagesOpen`, `LocalSearchIsComplete`, `SearchDegrades` |
| `server` | 3 connections, a grace of 2, requests of 0 to 3, fairness | `ExitIsHonest`, `StopEnds` |
| `wrong_heading` | two headings that differ in punctuation | a violation, see below |

The types of `PageCache`, `DiskCache`, `Headings`, `Continuation` and `Server` are proved rather
than run; those of `page_service`, `catalogue` and `fetch_client` are both.

Why the bounds are enough. Three slugs in the page cache are the smallest number
at which a write can drop two entries, or one and keep another. Two processes on
the disk are enough for one to die, time out or publish while the other holds
the lock; a source of one byte and a page of one or two, with room for two, fit
together or do not, so that a store prunes, is refused, or has nothing to prune, and a load has
room for both or for the source alone. Two callers of one page are the starter and the joiner of
a flight, or the late caller of an old flight and the starter of a new one; a
second page would only share the cool-down, as the search of `page_service_ends` does.
With the clock at 0..1 an entry and a cool-down both begin and end. In the
catalogue a reader and a healer are one client of each kind of flight, which is
enough for each to join the other's, and two versions let a refresh overtake
one. Two fetches compete for a bucket so slow (`-fetch-rps 0.05`, which the
command accepts, with a burst of 1) that a third attempt can be past the deadline; one
redirect to an attempt (the code allows nine) is one request without a token, and the width of a
duration is so scaled down that an announced wait can overflow. Windows of four bytes are the shortest that always have room for a
rune; texts of up to five runes are cut up to five times, at each place a rune can
be split, and two changes let a source change and change back. Four lines are an
opener, its end and something on either side, or four headings of three
levels. Paths of three segments reach every check of the validators, which look at
the first two and at each alone. Three requests in an attempt (the code allows ten)
and two attempts (three) let a chain leave the language in its last step, end at its
limit, and start again. Three pages are the fewest of which one can be missed,
one found and one cut by the limit, and one change of the cache at each place of
the search is enough for a body to come, go or grow old before or after it is read.
With a grace of two, three connections are one that ends in time, one as the
grace does and one after. The only bounds in guards are `MaxTime`, `MaxVersion`, `LastStart`,
`MaxChanges`, `MaxLines`, and, as limits the code has too, `MaxHops` and `MaxAttempts`.
Only `page_service` uses symmetry, of callers, and it checks no liveness. `headings` and
`wrong_heading` allow deadlock, as the page has its last line, and `server`, as a
process that ended does nothing; `StopEnds` tells an end from being stuck.

Fairness. `DiskCache!FairSpec` says that a process that is in an operation takes its next
step: file operations return and the lock is polled every five milliseconds
against a deadline (`disklock.go:20-39`). `PageService!FairSpec` says that a
request's goroutine runs on, and that a flight goes on: its context times
out after `fetchTimeout` (`service.go:328`), so the fetch answers or fails.
`Catalogue!FairSpec` says the same of clients and workers, and that a healer's own
time ends; it does not say that a forced flight ever answers it.
`Server!FairSpec` says that goroutines run on, that a request takes the time it
needs, that the grace's timer runs out and that the stdio transport ends when told
to. Nothing is assumed of the clock elsewhere, of clients that give up or stay
silent, of the origin or of crashes.

### Disagreements with the documentation

One is kept as a run that must fail.

- `wrong_heading` (`ExactHeadingFound`): `tools.go:52` says that `heading` is
  "matched by exact text or its #kebab-anchor". `ExtractHeading` takes the first
  heading whose text or slug is that of the one wanted, and slugs have no
  punctuation, so "C++" after "C" cannot be had by its text (`extract.go:26`).

Others can be reproduced with the configurations that no run lists; TLC reports
a violation for each.

- `MCFetchClientOverflow.cfg` (`RetryAfterIsAFloor`): `client.go:148-149` promises
  `Retry-After` as a floor. The announced seconds are multiplied into a 64-bit
  `time.Duration` before they are capped (line 298), and wrap to a negative
  wait from about 9.2e9 seconds on. The configuration scales the width down.
  `RetryAfterHonoured`, which holds in `fetch_client`, says the same of the announced waits
  that a duration can hold, with others among them.
- `MCFetchClientRedirects.cfg` (`RequestsRateLimited`): `client.go:67-68` says that the
  bucket is one of requests to the second. A token is taken for an attempt (line 184), in which the
  HTTP client may follow nine redirects, each a request (line 213). What does hold is `RateLimited`.
- `MCHeadingsIds.cfg` (`PublishedIdsVerified`): `anchor_resolution.go:19` says that published
  ids are verified before they are mapped. An id that is an anchor of the page's own text is
  taken for that (lines 25-27), although the published page may give it to another heading.
- `MCPageServiceStale.cfg` (`StaleMeansExpired`): `service.go:25-26` says that
  `Stale` marks content past its lifetime. After a failed flight `get` looks the
  page up again and marks whatever it finds (line 264). If another flight has
  succeeded in between, a page fetched this moment is returned as stale.
- `MCPageServiceCooldown.cfg` (`CooldownAfterFailure`): `service.go:20-22` promises
  stale content at once for a while after an origin failure. The failure is noted
  by callers that still wait (line 262), so a flight whose callers have all been
  cancelled fails without starting a cool-down, and the next request pays for
  the full fetch.
- `MCCatalogueHeals.cfg` (`NotFoundHeals`): `service.go:255-256` says that the refresh
  after a 404 heals the catalogue. A second healer joins the forced flight of a first
  (the key dedups, as the comment says), which may have fetched the list before the
  page vanished; the page stays listed until the next 404 or the end of the lifetime.
- `MCFetchClientLimited.cfg` (`DegradesToLastError`): `client.go:171-174` says that
  the attempts must degrade to the last fetch error. After a wait that does fit,
  the limiter may refuse, and its error is returned instead (line 184).
- `MCFetchClientBudget.cfg` (`BudgetFitsAttempts`): `client.go:32-36` says that two
  capped waits plus request time cannot exhaust the budget. A request may take up to
  30 seconds of the 45; after two of 15 and one wait of 8 a second wait does not fit.
- Without a configuration: `service.go:248-249` says that a cancelled caller gets its
  cancellation. It gets the error it has, which is the flight's failure when the `select` of
  `fetchShared` took that and the cancellation came after, also when a stale copy is in the
  cache. This is why `StaleBeatsError` is about callers that still wait.
- Without a configuration: `apisearch.go:66-70` keeps every hit because a real page must not be
  invisible. A hit `a.md.md` is named `a.md`, which `get_doc` takes for `a` (`service.go:185`), so the page
  it names cannot be had by that name. `NamedPagesOpen` says that this happens to no other slug. It says that
  `get_doc` takes a slug for its page, not that it returns it: a hit that the catalogue does not have
  is refused, as its notice says (`apisearch.go:122`).
- Without a configuration: `section.go:10-12` says that a section runs to the next heading of
  the same or a higher level. `SplitSections` ends it at the next heading of any level (lines 29-32); the
  extract under a heading runs as the comment says, and `CrumbsEnclose` is about that.
- Without a configuration: `README.md:207` says that cursors work while content is
  unchanged. A page that is not UTF-8 may be cut before a stray
  continuation byte, and the next call refuses the server's own cursor
  (`pagination.go:113`). This is why `CursorsAccepted` asks for a text.
- Without a configuration: `shutdown_test.go:56-58` says that `ServeHTTP` does not truncate a
  request under way. It waits ten seconds (`http.go:20`) and a page may take 45
  (`fetchTimeout`), so a long one is cut, which `GraceOver` allows and the exit code
  tells of. This is why `ExitIsHonest` asks for a request that fits the grace.

## 4. What TLAPS proves

The theorems hold for all values of the constants that satisfy the modules'
assumptions. Every invariant and every action property that a passing run checks is the
statement of a theorem, and so are both refinements; liveness is not.

**The page cache** (`CacheProofs`).

- `ListAlwaysMatchesMap` and `CacheTypesHold`. `ListInv` adds the type of the
  list. The work is in `ToFrontList`: removing one position of a list without
  repetition and putting its slug in front keeps both the elements and their
  being distinct. Cutting the list at the back keeps both as well.
- `BytesAlwaysBounded`. `CountInv` says that the running count is the sum of the lengths
  held, and within the cap. The code keeps it by differences: what a write
  replaces goes off (`CountWithIsSum`), then each body that is dropped (`CutIsSum`). That it
  is never negative, which the difference of two lengths does not show, comes from there.
- `CacheIsLruStore`. `OrderInv` says that the list has the slugs in the reverse order of their last
  uses, although the list is moved and cut and `uses` also knows what was evicted. Then cutting from
  the back is dropping the least recently used, and as the cut stops at the first
  body with which the rest fits, no fewer would do.

**The disk cache** (`CacheProofs`).

- `LockAlwaysExcludes`, `EntriesAlwaysGenuine`, `CatalogueAlwaysOutlivesPages` and
  `TypesHold`. `OnlyGenuineEntries` is not inductive: a
  rename publishes a temporary file, a power loss brings the platter back. The
  invariant adds `TempStages` (what is already true of a temporary file at each
  stage: written, synced, dated) and `ImagesSafe` (every file in either image is
  complete, synced and dated by its fetch), and `TotalRight`: while a process prunes, its running
  total is the bytes of the files it listed that are still there. A removal takes one file off
  both (`TotalRemove`), a refusal nothing off either, and nobody else writes meanwhile, as the lock is held.
  That more files are no fewer bytes (`TotalGrows`) makes the listed ones' total a lower bound
  for the directory's, which is what the catalogue's survival needs.
- `DiskIsAtomic`, the refinement of `AtomicDisk`, from the same
  invariant: a rename is a `Put`, because a temporary file is then complete; a removal by
  `prune` is a `Drop`, because the stage it happens in is only reached over the
  budget, by `TotalRight`; the removal of temporary files and everything else is a stutter.
- `StoreAlwaysKeepsBudget`: the loop stops by the running total, and by `TotalRight` that is
  what the listed files have, or when every file left has refused to go.
- `CatalogueAlwaysLoads`. `SizesInv` says that every file in either image, and every job and
  temporary file, has a length that values of its key can have. The load adds
  the catalogue's files to a budget of their own, one by one in the order of the listing;
  `LoadGroupSteps` unfolds that, `CatalogueFits` shows that the values of any part of the
  catalogue never exceed it, so that whichever files cannot be read, none of the others is skipped.

**The page service** (`PageServiceProofs`): the four safety properties of `page_service` and the
types, with any number of searches. `Shape` says what a caller or a flight holds
at each stage; `Causes` traces each failure and cancellation, also those still in
an inbox or a flight, to the origin or to the caller itself; `Kept` ties `held` to
the cache, for as long as its caller waits: one that was cancelled is returned whatever error
it has (`ReportCancelled`); `Ages` ties an entry's lifetime to its fetch.

**The catalogue** (`CatalogueProofs`): `TypesHold`, `OutageNeverHidesCatalogue`, `HealersAlwaysReplace`,
`LastGoodIsKept` and `OutageAlwaysSparesOrigin`, for any sources, readers, healers and
lifetimes. The invariant follows a worker through the stages in which it can be
overtaken: `Replaces` compares what it is about to write with what it overwrites, the
source's last failure and the versions clients were promised. `NothingAhead` says that no
copy is newer than the origin, and `ToldTruly` ties what a client is told to the
components, also while the answer is still in its inbox. That a forced and an ordinary flight
exclude each other is what makes `Replaces` inductive: there is one flight.

**The origin client** (`FetchClientProofs`), for any fetches, bucket, back-off and answers.

- `TypesHold` and `NeverGivesUpEarly`. `StageInv` says what a fetch has done at each stage,
  and `WaitBounds` that a wait lies between what was announced and the longest there is.
- `RetryAfterIsFloor`, for any announced numbers. The history `fits` tells those that overflow
  (see `MCFetchClientOverflow.cfg` above) from the others, which `Wrap` leaves as they
  are (`WrapFits`); `FloorInv` hands the announced time on from
  the answer to the wait and from the wait to the next request, redirected ones included. The provers know nothing of
  powers, so `BackoffAssumption` says that they double up to the last attempt.
- `RequestsAlwaysLimited`. A token is reserved before the wait for it, so that a fetch may
  hold one for later while others are sent. The property about the requests sent is not
  inductive; `BucketInv` counts them together with the
  tokens held, as `Times`. `OrderInv` puts the sent ones in the past and the held ones
  between now and when the bucket gives the last; `GivenInv` says that from any of these times on the
  bucket will be full again only after it has gained what was taken since, and `SpacedInv` is the
  rate itself, for all of them. The new reservation's place follows from `GivenInv`. That is the attempts. `HopInv` says that a
  request is one of at most `MaxHops` of its attempt, and comes within the client's timeout of it; so the
  requests of a stretch belong to the attempts of it and of the time before it that the
  timeout has, and are no more than these times `MaxHops` (`HopsLimit`).

**Scope and search** (`SearchProofs`), for any base path, languages, references, redirects,
catalogues, queries and caps.

- `CallsAlwaysStayInScope`. First about paths: what `validateReferencePath` accepts remains
  acceptable after ".md" is put on and the base path put in front
  (`PageInScope`, `SourceInScope`, `QueryInScope`), although the two validators are written apart and
  look at different things. Then `RequestInv` says that the first request of an
  attempt is the one asked for and every one is in scope, and `SearchInv` that the
  page of a call is valid and in its view. The assumptions on the stems are that no language is called
  "api", and that the words in the code's own paths have no version and no odd characters.
- `NamedPagesAlwaysOpen`. What one pass of `cleanSlug` leaves, a second leaves alone when no ".md" is
  left at its end (`SettledStays`), and changes otherwise (`UnsettledChanges`); so `get_doc` takes a slug for its page in the one case and
  for another, or none, in the other. Each hit was accepted as a reference in the view's language, and
  the English alternative of a page that was asked for is one too (`EnglishOpens`).
- `SearchAlwaysDegrades`, with `DegradeInv`: the local search begins in the cool-down or with a
  failure that starts one, and goes on until its caller gives up (`LocalGoesOn`). The catalogue's
  error is the one other end, and only before anything was asked of the origin.
- `LocalSearchAlwaysComplete`. `CatalogueInv` says that the merged catalogue lists each page once
  (`MergeListed`), and that the bodies with all words now are among those that had them once
  (`matched`) and include those that had them all along (`matching`); `HitsInv` that after the first `done` pages the hits are
  those the metadata gives and those of `matching` found so far, none of them twice and
  none without a cause. A page whose body comes while the search runs may be found or missed,
  and both are kept by `ChangesKeepHits`. At the end the hits are sorted and cut: `HitsRanked`
  shows that what is cut off deserves no more than what stays.

**Sections** (`TextProofs`), for pages of any length.

- `TypesHold`, `FencesAlwaysOpen` and `HeadingsAlwaysReal`. `FenceIsOpen` is about all lines
  since the opener, the code keeps only the opener's
  character, length and indentation: `FenceCloses` shows that this is enough, by the line's
  every kind. `Previous` adds that the line an underline may use is not code and lies after
  every heading. `LinesAssumption` says that headings have a level and that fences are at least
  three characters long.
- `AnchorsAlwaysFind`. A heading takes the first number with which its anchor is new. That there is one
  is the pigeonhole (`AnchorIsNew`): more numbered anchors than headings before it. So anchors differ
  (`AnchorsDiffer`), also when a text's own anchor looks like another's numbered one.
- `PublishedAlwaysFound`. An id that is an anchor of the page leads to the one heading with that
  anchor (`AnchorFinds`). Of any other, the text it stands for is that of the heading which
  carries it, or none when several carry it and disagree (`TextFound`), and it leads to the one
  heading with that text (`PublishedFinds`).
- `CrumbsAlwaysEnclose`. The code has two ways to say that a section lies under a heading, the
  stack of `breadcrumb` and the end of `ExtractHeading`. `Encloses` states both at once, no heading in
  between of that level or above, and each is shown to be it
  (`BreadcrumbEncloses`, `ExtractEncloses`).

**Reading by cursors** (`TextProofs`), for any sources, window and group sizes, and any changes.

- `ReadTypesHold`, `AlwaysReassembled`, `WindowsAlwaysText`, `CursorsAlwaysAccepted` and
  `AnswersAlwaysAdvance`, from one invariant. `ReadInv` says what a cursor means: it
  points to a group of the first source and to a place in it, that place is where reading
  started plus what was received, what was received is the stretch between the two, and in a
  text the place is between two runes.
- Under it, about runes: `WindowIs` says that a window of a text begins and ends where it
  should and has something in it, unless the content is at its end; `CutIs`
  that the cut of a full window leaves something, and goes to a place where the next rune
  begins or to the window's end when its last rune is whole, as four bytes have room for one; `TextCut` and `TextGoesOn` that both sides
  of such a place are texts. The code only looks at the byte after the cut.
- About groups: `GroupIs` says that a group of sections, joined as the answer joins them, is
  the stretch of the whole between its places, the whole being all groups one after
  another, and `GroupStarts` that a group after the first has something in it and begins with a rune.

**The server** (`ServerProofs`): `TypesHold` and `ExitIsAlwaysHonest`, for any connections, grace and lengths.
The invariant adds `ListenerRoles` (only a stop has the listener report "closed", and
while the process runs nothing is cut) and `InTime` (what a request that fitted the
grace still needs, and what the stop has waited, are together less than the grace).

**Data** (`DataTheorems`). The library's induction theorems take a predicate, which the provers
here cannot instantiate. `Induction` and `FiniteInduction` take a set in its place, the
numbers or the parts of a finite set for which something holds, and follow from
the well-foundedness of the naturals. With them the recursive functions behind the community
modules' operators are shown to exist and are unfolded: sums over a finite set (`SumAdd`, `SumRemove`,
`SumGrows`, `SumBounds`), the first and last element of a set of numbers, lists sorted by an order (`SortedExists`,
`TakenTakes`), and lists of lists (`FlattenAppend`, `FlattenCut`). The modules themselves fold with
the community modules' operators and have no recursive operator of their own.

Only model-checked: what must eventually happen (`OperationsEnd`, `EveryCallEnds`, `RefreshesEnd`,
`StopEnds`), which is out of this prover's reach, and `ExactHeadingFound` with the other
disagreements, which are counterexamples.

## 5. What is left out, and the plan

Left out for good: text formats, tokenising, rendering, logging, TLS and HTTP
themselves, the fixture server. Of the parts that are modelled: how an entry's key
becomes a file name, and which keys on disk are of which language; white space and
fragments in references; titles, snippets and the suggestions for an unknown slug;
`FilterDocs`, which matches text; `NewClient`'s look at its base URL; timeouts of
`net/http` other than the grace. `PROJECT.json` gives a reason for each component.

Planned, in this order:

1. `DocsServer`, the composition of `PageService` with `Catalogue` and `AtomicDisk`,
   in place of `listed` and the fetch times, and the theorem that `PageService` is what a
   caller sees of it.
2. The ranking of `SearchSections` on `Headings`, and that the sections which
   `Continuation` reads are in that order.
3. The flights of a late caller in `PageService` told apart by the failure they belong to, so as to say
   how old a failure may be that starts a cool-down (`service.go:262`).
