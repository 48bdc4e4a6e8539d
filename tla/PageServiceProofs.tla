------------------------- MODULE PageServiceProofs -------------------------
(***************************************************************************)
(* The safety properties of the page service, for any number of callers    *)
(* and pages and any lifetimes.  One inductive invariant carries them all: *)
(* the types, what a caller and a flight hold at each stage (Shape), where *)
(* failures and cancellations come from (Causes), that a page held stays   *)
(* in the cache (Kept) and that an entry's lifetime began with its fetch   *)
(* (Ages).                                                                 *)
(***************************************************************************)
EXTENDS PageService, TLAPS

Shape ==
    /\ \A c \in Callers :
          /\ pc[c] # "idle" => slug[c] \in Slugs
          /\ pc[c] = "cooldown" => copy[c] # None
          /\ pc[c] \in {"error", "fallback"} => inbox[c] # None /\ inbox[c].kind # "page"
    /\ \A s \in Slugs :
          flight[s] # None /\ flight[s].stage # "fetch" =>
              /\ flight[s].answer # None
              /\ flight[s].stage # "deliver" => flight[s].answer.kind = "page"

\* A failure on its way to a caller, noted or returned is the origin's; a
\* cancellation is that of the caller who has it.
Causes ==
    /\ failedAt # None => everFailed = TRUE
    /\ \A s \in Slugs :
          flight[s] # None /\ flight[s].answer # None =>
              /\ flight[s].answer.kind # "cancelled"
              /\ flight[s].answer.kind = "failed" => everFailed = TRUE
    /\ \A c \in Callers :
          /\ inbox[c] # None =>
                /\ inbox[c].kind = "cancelled" => cancelled[c] = TRUE
                /\ inbox[c].kind = "failed" => everFailed = TRUE
          /\ pc[c] = "fallback" => everFailed = TRUE /\ inbox[c].kind = "failed"
          /\ result[c] # None =>
                /\ result[c].kind = "cancelled" => cancelled[c] = TRUE
                /\ result[c].kind = "failed" \/ result[c].stale = TRUE => everFailed = TRUE
    /\ \A q \in Searchers : search[q] = "failed" => everFailed = TRUE

Kept ==
    \A c \in Callers :
        /\ pc[c] = "done" <=> result[c] # None
        /\ held[c] = TRUE /\ pc[c] \notin {"idle", "done"} => cache[slug[c]] # None
        /\ result[c] # None /\ result[c].kind = "failed" => held[c] = FALSE \/ cancelled[c] = TRUE

Ages ==
    /\ \A s \in Slugs : cache[s] # None => cache[s].fetched = cache[s].storedAt
    /\ \A c \in Callers :
          /\ start[c] <= now
          /\ result[c] # None /\ result[c].kind = "page"
                /\ result[c].hit = TRUE /\ result[c].stale = FALSE
             => start[c] - result[c].at < TTL

Inv == TypeOK /\ Shape /\ Causes /\ Kept /\ Ages

-----------------------------------------------------------------------------
\* What a caller that is served a copy ends up with.
LEMMA ServedCopy ==
    ASSUME NEW c \in Callers, NEW entry \in Entry, NEW stale \in BOOLEAN,
           ServeCopy(c, entry, stale)
    PROVE  \E r \in Returned :
              /\ r # None
              /\ r.kind = "page" /\ r.at = entry.fetched
              /\ r.stale = stale /\ r.hit = TRUE
              /\ pc' = [pc EXCEPT ![c] = "done"]
              /\ copy' = [copy EXCEPT ![c] = None]
              /\ inbox' = [inbox EXCEPT ![c] = None]
              /\ result' = [result EXCEPT ![c] = r]
  <1> DEFINE r == [kind |-> "page", at |-> entry.fetched, stale |-> stale, hit |-> TRUE,
                   expired |-> Expired(entry.storedAt)]
  <1>1. Expired(entry.storedAt) \in BOOLEAN
    BY DEF Expired
  <1>2. r \in Returned
    BY <1>1 DEF Returned, Entry
  <1>3. r.kind = "page" /\ r.at = entry.fetched /\ r.stale = stale /\ r.hit = TRUE
    OBVIOUS
  <1>4. Finish(c, r)
    BY DEF ServeCopy
  <1> HIDE DEF r
  <1>5. r # None
    BY <1>2, NoneAssumption
  <1>6. QED
    BY <1>2, <1>3, <1>4, <1>5 DEF Finish

\* What a caller that is given a flight's answer, or an error, ends up with.
LEMMA ServedAnswer ==
    ASSUME NEW c \in Callers, NEW answer \in Answer, ServeAnswer(c, answer)
    PROVE  \E r \in Returned :
              /\ r # None
              /\ r.kind = answer.kind /\ r.stale = FALSE /\ r.hit = FALSE
              /\ pc' = [pc EXCEPT ![c] = "done"]
              /\ copy' = [copy EXCEPT ![c] = None]
              /\ inbox' = [inbox EXCEPT ![c] = None]
              /\ result' = [result EXCEPT ![c] = r]
  <1> DEFINE r == [kind |-> answer.kind, at |-> answer.at, stale |-> FALSE, hit |-> FALSE,
                   expired |-> FALSE]
  <1>1. answer.kind \in {"page", "notfound", "failed", "cancelled"} /\ answer.at \in Times
    BY TimesAssumption DEF Answer, Times
  <1>2. r \in Returned
    BY <1>1 DEF Returned
  <1>3. r # None
    <2> HIDE DEF r
    <2> QED
      BY <1>2, NoneAssumption
  <1>4. QED
    BY <1>2, <1>3 DEF ServeAnswer, Finish

\* The errors are answers.
LEMMA FailIsAnswer ==
    ASSUME NEW kind \in {"notfound", "failed", "cancelled"}
    PROVE  /\ Fail(kind) \in Answer
           /\ Fail(kind) # None
           /\ Fail(kind).kind = kind
  <1>1. Fail(kind) \in Answer /\ Fail(kind).kind = kind
    BY DEF Fail, Answer
  <1>2. QED
    BY <1>1, NoneAssumption

\* A caller is through with any result that has its cause: the one step that
\* all ways out of get have in common.
LEMMA FinishPreservesInv ==
    ASSUME Inv, NEW c \in Callers, NEW r \in Returned,
           pc[c] \notin {"idle", "done"},
           r # None,
           r.kind = "cancelled" => cancelled[c] = TRUE,
           r.kind = "failed" \/ r.stale = TRUE => everFailed = TRUE,
           r.kind = "failed" => held[c] = FALSE \/ cancelled[c] = TRUE,
           r.kind = "page" /\ r.hit = TRUE /\ r.stale = FALSE => start[c] - r.at < TTL,
           pc' = [pc EXCEPT ![c] = "done"],
           copy' = [copy EXCEPT ![c] = None],
           inbox' = [inbox EXCEPT ![c] = None],
           result' = [result EXCEPT ![c] = r],
           refreshing' \in BOOLEAN,
           UNCHANGED <<slug, cancelled, stores, flight, failedAt, listed, search, world, history>>
    PROVE  Inv'
  <1> USE DEF Inv, TypeOK, stores, world, history
  <1>1. TypeOK'
    OBVIOUS
  <1>2. Shape'
    BY DEF Shape
  <1>3. Causes'
    BY DEF Causes
  <1>4. Kept'
    BY DEF Kept
  <1>5. Ages'
    BY DEF Ages
  <1>6. QED
    BY <1>1, <1>2, <1>3, <1>4, <1>5

\* The states a flight is put in.
LEMMA BodyIsAnswer ==
    ASSUME NEW at \in Times
    PROVE  Body(at) \in Answer /\ Body(at) # None /\ Body(at).kind = "page"
  <1>1. Body(at) \in Answer /\ Body(at).kind = "page"
    BY DEF Body, Answer
  <1>2. QED
    BY <1>1, NoneAssumption

LEMMA FlightTyped ==
    ASSUME NEW stage \in {"fetch", "store", "healthy", "deliver"},
           NEW answer \in Answer \cup {None}
    PROVE  /\ [stage |-> stage, answer |-> answer] \in Flight
           /\ [stage |-> stage, answer |-> answer] # None
  <1> DEFINE f == [stage |-> stage, answer |-> answer]
  <1>1. f \in Flight
    BY DEF Flight
  <1> HIDE DEF f
  <1>2. f # None
    BY <1>1, NoneAssumption
  <1>3. QED
    BY <1>1, <1>2 DEF f


\* The invariant is inductive: one step for each action, and in it one for
\* each part of the invariant.
LEMMA StepPreservesInv == Inv /\ [Next]_vars => Inv'
  <1> SUFFICES ASSUME Inv, [Next]_vars
               PROVE  Inv'
    OBVIOUS
  <1> USE TimesAssumption, NoneAssumption
  <1>1. ASSUME NEW c \in Callers, NEW s \in Slugs, Call(c, s)
        PROVE  Inv'
    <2>1. TypeOK'
      BY <1>1 DEF Call, service, world, stores, Inv, TypeOK, Shape, Times,
             Entry, Answer, Returned, Flight
    <2>2. Shape'
      BY <1>1 DEF Call, service, world, stores, Inv, TypeOK, Shape
    <2>3. Causes'
      BY <1>1 DEF Call, service, world, stores, Inv, TypeOK, Shape, Causes
    <2>4. Kept'
      BY <1>1 DEF Call, service, world, stores, Inv, TypeOK, Shape, Kept,
             Causes, Entry
    <2>5. Ages'
      BY <1>1 DEF Call, service, world, stores, Inv, TypeOK, Shape, Ages,
             Kept, Times, Entry
    <2>6. QED
      BY <2>1, <2>2, <2>3, <2>4, <2>5 DEF Inv
  <1>2. ASSUME NEW c \in Callers, Lookup(c)
        PROVE  Inv'
    <2> DEFINE entry == cache[slug[c]]
    <2>1. CASE entry = None
      <3>1. pc' = [pc EXCEPT ![c] = "join"] /\ UNCHANGED <<copy, inbox, result>>
        BY <1>2, <2>1 DEF Lookup
      <3>2. TypeOK'
        BY <1>2, <3>1 DEF Lookup, Inv, TypeOK, service, stores, world, history
      <3>3. Shape' /\ Causes' /\ Ages'
        BY <1>2, <3>1 DEF Lookup, Inv, TypeOK, Shape, Causes, Ages, service, stores, world, history
      <3>4. Kept'
        BY <1>2, <3>1 DEF Lookup, Inv, TypeOK, Kept, service, stores, world, history
      <3>5. QED
        BY <3>2, <3>3, <3>4 DEF Inv
    <2>2. CASE entry # None /\ Expired(entry.storedAt)
      <3>1. /\ pc' = [pc EXCEPT ![c] = "cooldown"]
            /\ copy' = [copy EXCEPT ![c] = entry]
            /\ UNCHANGED <<inbox, result>>
        BY <1>2, <2>2 DEF Lookup
      <3>2. entry \in Entry
        BY <1>2, <2>2 DEF Lookup, Inv, TypeOK, Shape
      <3> HIDE DEF entry
      <3>3. TypeOK'
        BY <1>2, <3>1, <3>2 DEF Lookup, Inv, TypeOK, service, stores, world, history
      <3>4. Shape' /\ Causes' /\ Ages'
        BY <1>2, <2>2, <3>1 DEF Lookup, Inv, TypeOK, Shape, Causes, Ages, service, stores, world,
               history
      <3>5. Kept'
        BY <1>2, <3>1 DEF Lookup, Inv, TypeOK, Kept, service, stores, world, history
      <3>6. QED
        BY <3>3, <3>4, <3>5 DEF Inv
    <2>3. CASE entry # None /\ ~Expired(entry.storedAt)
      <3>1. entry \in Entry /\ entry.fetched = entry.storedAt
        BY <1>2, <2>3 DEF Lookup, Inv, TypeOK, Shape, Ages
      <3>2. ServeCopy(c, entry, FALSE)
        BY <1>2, <2>3 DEF Lookup
      <3>3. start[c] - entry.fetched < TTL
        BY <2>3, <3>1, TimesAssumption DEF Expired, Inv, TypeOK, Ages, Times, Entry
      <3> HIDE DEF entry
      <3>4. PICK r \in Returned :
               /\ r # None
               /\ r.kind = "page" /\ r.at = entry.fetched
               /\ r.stale = FALSE /\ r.hit = TRUE
               /\ pc' = [pc EXCEPT ![c] = "done"]
               /\ copy' = [copy EXCEPT ![c] = None]
               /\ inbox' = [inbox EXCEPT ![c] = None]
               /\ result' = [result EXCEPT ![c] = r]
        BY <3>1, <3>2, ServedCopy
      <3>5. QED
        BY <1>2, <3>3, <3>4, FinishPreservesInv DEF Lookup, service, Inv, TypeOK
    <2>4. QED
      BY <2>1, <2>2, <2>3
  <1>3. ASSUME NEW c \in Callers, CheckCooldown(c)
        PROVE  Inv'
    <2>1. CASE CoolingDown
      <3>1. copy[c] \in Entry /\ everFailed = TRUE
        BY <1>3, <2>1 DEF CheckCooldown, CoolingDown, Inv, TypeOK, Shape, Causes
      <3>2. ServeCopy(c, copy[c], TRUE)
        BY <1>3, <2>1 DEF CheckCooldown
      <3>3. PICK r \in Returned :
               /\ r # None
               /\ r.kind = "page" /\ r.stale = TRUE
               /\ pc' = [pc EXCEPT ![c] = "done"]
               /\ copy' = [copy EXCEPT ![c] = None]
               /\ inbox' = [inbox EXCEPT ![c] = None]
               /\ result' = [result EXCEPT ![c] = r]
        BY <3>1, <3>2, ServedCopy
      <3>4. QED
        BY <1>3, <3>1, <3>3, FinishPreservesInv DEF CheckCooldown, service, Inv, TypeOK
    <2>2. CASE ~CoolingDown
      <3>1. /\ pc' = [pc EXCEPT ![c] = "join"]
            /\ copy' = [copy EXCEPT ![c] = None]
            /\ UNCHANGED <<inbox, result>>
        BY <1>3, <2>2 DEF CheckCooldown
      <3>2. TypeOK'
        BY <1>3, <3>1 DEF CheckCooldown, Inv, TypeOK, service, stores, world, history
      <3>3. Shape' /\ Causes' /\ Ages'
        BY <1>3, <3>1 DEF CheckCooldown, Inv, TypeOK, Shape, Causes, Ages, service, stores,
               world, history
      <3>4. Kept'
        BY <1>3, <3>1 DEF CheckCooldown, Inv, TypeOK, Kept, service, stores, world, history
      <3>5. QED
        BY <3>2, <3>3, <3>4 DEF Inv
    <2>3. QED
      BY <2>1, <2>2
  <1>4. ASSUME NEW c \in Callers, Join(c)
        PROVE  Inv'
    <2>1. TypeOK'
      BY <1>4 DEF Join, stores, world, history, Inv, TypeOK, Shape, Times,
             Entry, Answer, Returned, Flight
    <2>2. Shape'
      BY <1>4 DEF Join, stores, world, history, Inv, TypeOK, Shape
    <2>3. Causes'
      BY <1>4 DEF Join, stores, world, history, Inv, TypeOK, Shape, Causes
    <2>4. Kept'
      BY <1>4 DEF Join, stores, world, history, Inv, TypeOK, Shape, Kept,
             Causes, Entry
    <2>5. Ages'
      BY <1>4 DEF Join, stores, world, history, Inv, TypeOK, Shape, Ages,
             Kept, Times, Entry
    <2>6. QED
      BY <2>1, <2>2, <2>3, <2>4, <2>5 DEF Inv
  <1>5. ASSUME NEW c \in Callers, GiveUp(c)
        PROVE  Inv'
    <2> DEFINE a == Fail("cancelled")
    <2>1. a \in Answer /\ a # None /\ a.kind = "cancelled"
      BY FailIsAnswer
    <2>2. /\ pc[c] \in {"join", "wait"}
          /\ cancelled[c] = TRUE
          /\ pc' = [pc EXCEPT ![c] = "error"]
          /\ inbox' = [inbox EXCEPT ![c] = a]
          /\ UNCHANGED <<slug, cancelled, copy, result, service, search, world, history>>
      BY <1>5 DEF GiveUp, Inv, TypeOK
    <2> HIDE DEF a
    <2>3. TypeOK'
      BY <2>1, <2>2 DEF Inv, TypeOK, service, stores, world, history
    <2>4. Shape' /\ Causes'
      BY <2>1, <2>2 DEF Inv, TypeOK, Shape, Causes, service, stores, world, history
    <2>5. Kept' /\ Ages'
      BY <2>2 DEF Inv, TypeOK, Kept, Ages, service, stores, world, history
    <2>6. QED
      BY <2>3, <2>4, <2>5 DEF Inv
  <1>6. ASSUME NEW c \in Callers, Receive(c)
        PROVE  Inv'
    <2>1. CASE inbox[c].kind = "page"
      <3>1. inbox[c] \in Answer /\ ServeAnswer(c, inbox[c])
        BY <1>6, <2>1 DEF Receive, Inv, TypeOK
      <3>2. PICK r \in Returned :
               /\ r # None
               /\ r.kind = inbox[c].kind /\ r.stale = FALSE /\ r.hit = FALSE
               /\ pc' = [pc EXCEPT ![c] = "done"]
               /\ copy' = [copy EXCEPT ![c] = None]
               /\ inbox' = [inbox EXCEPT ![c] = None]
               /\ result' = [result EXCEPT ![c] = r]
        BY <2>1, <3>1, ServedAnswer
      <3>3. QED
        BY <1>6, <2>1, <3>2, FinishPreservesInv DEF Receive, service, Inv, TypeOK
    <2>2. CASE inbox[c].kind # "page"
      <3>1. pc' = [pc EXCEPT ![c] = "error"] /\ UNCHANGED <<copy, inbox, result>>
        BY <1>6, <2>2 DEF Receive
      <3>2. TypeOK'
        BY <1>6, <3>1 DEF Receive, Inv, TypeOK, service, stores, world, history
      <3>3. Shape' /\ Causes' /\ Ages'
        BY <1>6, <2>2, <3>1 DEF Receive, Inv, TypeOK, Shape, Causes, Ages, service, stores,
               world, history
      <3>4. Kept'
        BY <1>6, <3>1 DEF Receive, Inv, TypeOK, Kept, service, stores, world, history
      <3>5. QED
        BY <3>2, <3>3, <3>4 DEF Inv
    <2>3. QED
      BY <2>1, <2>2
  <1>7. ASSUME NEW c \in Callers, ReportCancelled(c)
        PROVE  Inv'
    <2>1. /\ ServeAnswer(c, inbox[c]) /\ cancelled[c] = TRUE
          /\ inbox[c] \in Answer /\ inbox[c].kind # "page"
          /\ inbox[c].kind = "failed" => everFailed = TRUE
      BY <1>7 DEF ReportCancelled, Inv, TypeOK, Shape, Causes
    <2>2. PICK r \in Returned :
               /\ r # None
               /\ r.kind = inbox[c].kind /\ r.stale = FALSE /\ r.hit = FALSE
               /\ pc' = [pc EXCEPT ![c] = "done"]
               /\ copy' = [copy EXCEPT ![c] = None]
               /\ inbox' = [inbox EXCEPT ![c] = None]
               /\ result' = [result EXCEPT ![c] = r]
      BY <2>1, ServedAnswer
    <2>3. QED
      BY <1>7, <2>1, <2>2, FinishPreservesInv DEF ReportCancelled, service, Inv, TypeOK
  <1>8. ASSUME NEW c \in Callers, ReportNotFound(c)
        PROVE  Inv'
    <2>1. ServeAnswer(c, inbox[c]) /\ inbox[c] \in Answer /\ inbox[c].kind = "notfound"
      BY <1>8 DEF ReportNotFound, Inv, TypeOK, Shape
    <2>2. PICK r \in Returned :
               /\ r # None
               /\ r.kind = inbox[c].kind /\ r.stale = FALSE /\ r.hit = FALSE
               /\ pc' = [pc EXCEPT ![c] = "done"]
               /\ copy' = [copy EXCEPT ![c] = None]
               /\ inbox' = [inbox EXCEPT ![c] = None]
               /\ result' = [result EXCEPT ![c] = r]
      BY <2>1, ServedAnswer
    <2>3. QED
      BY <1>8, <2>1, <2>2, FinishPreservesInv DEF ReportNotFound, Inv, TypeOK
  <1>9. ASSUME NEW c \in Callers, NoteFailure(c)
        PROVE  Inv'
    <2>1. inbox[c].kind = "failed" /\ everFailed = TRUE
      BY <1>9 DEF NoteFailure, Inv, TypeOK, Shape, Causes, Answer
    <2>2. TypeOK'
      BY <1>9 DEF NoteFailure, Inv, TypeOK, stores, world, history
    <2>3. Shape' /\ Kept' /\ Ages'
      BY <1>9 DEF NoteFailure, Inv, TypeOK, Shape, Kept, Ages, stores, world, history
    <2>4. Causes'
      BY <1>9, <2>1 DEF NoteFailure, Inv, TypeOK, Causes, stores, world, history
    <2>5. QED
      BY <2>2, <2>3, <2>4 DEF Inv
  <1>10. ASSUME NEW c \in Callers, Fallback(c)
        PROVE  Inv'
    <2> DEFINE entry == cache[slug[c]]
    <2>1. everFailed = TRUE
      BY <1>10 DEF Fallback, Inv, Causes
    <2>2. CASE entry # None
      <3>1. ServeCopy(c, entry, TRUE) /\ entry \in Entry
        BY <1>10, <2>2 DEF Fallback, Inv, TypeOK, Shape
      <3> HIDE DEF entry
      <3>2. PICK r \in Returned :
               /\ r # None
               /\ r.kind = "page" /\ r.stale = TRUE
               /\ pc' = [pc EXCEPT ![c] = "done"]
               /\ copy' = [copy EXCEPT ![c] = None]
               /\ inbox' = [inbox EXCEPT ![c] = None]
               /\ result' = [result EXCEPT ![c] = r]
        BY <3>1, ServedCopy
      <3>3. QED
        BY <1>10, <2>1, <3>2, FinishPreservesInv DEF Fallback, service, Inv, TypeOK
    <2>3. CASE entry = None
      <3>1. ServeAnswer(c, inbox[c]) /\ inbox[c] \in Answer /\ inbox[c].kind = "failed"
        BY <1>10, <2>3 DEF Fallback, Inv, TypeOK, Shape, Causes
      <3>2. held[c] = FALSE
        BY <1>10, <2>3 DEF Fallback, Inv, TypeOK, Kept
      <3>3. PICK r \in Returned :
               /\ r # None
               /\ r.kind = inbox[c].kind /\ r.stale = FALSE /\ r.hit = FALSE
               /\ pc' = [pc EXCEPT ![c] = "done"]
               /\ copy' = [copy EXCEPT ![c] = None]
               /\ inbox' = [inbox EXCEPT ![c] = None]
               /\ result' = [result EXCEPT ![c] = r]
        BY <3>1, ServedAnswer
      <3>4. QED
        BY <1>10, <2>1, <3>1, <3>2, <3>3, FinishPreservesInv DEF Fallback, service, Inv, TypeOK
    <2>4. QED
      BY <2>2, <2>3
  <1>11. ASSUME NEW c \in Callers, Return(c)
        PROVE  Inv'
    <2>1. TypeOK'
      BY <1>11 DEF Return, service, world, stores, Inv, TypeOK, Shape, Times,
             Entry, Answer, Returned, Flight
    <2>2. Shape'
      BY <1>11 DEF Return, service, world, stores, Inv, TypeOK, Shape
    <2>3. Causes'
      BY <1>11 DEF Return, service, world, stores, Inv, TypeOK, Shape, Causes
    <2>4. Kept'
      BY <1>11 DEF Return, service, world, stores, Inv, TypeOK, Shape, Kept,
             Causes, Entry
    <2>5. Ages'
      BY <1>11 DEF Return, service, world, stores, Inv, TypeOK, Shape, Ages,
             Kept, Times, Entry
    <2>6. QED
      BY <2>1, <2>2, <2>3, <2>4, <2>5 DEF Inv
  <1>12. ASSUME NEW c \in Callers, Cancel(c)
        PROVE  Inv'
    <2>1. TypeOK'
      BY <1>12 DEF Cancel, service, world, history, stores, Inv, TypeOK,
             Shape, Times, Entry, Answer, Returned, Flight
    <2>2. Shape'
      BY <1>12 DEF Cancel, service, world, history, stores, Inv, TypeOK, Shape
    <2>3. Causes'
      BY <1>12 DEF Cancel, service, world, history, stores, Inv, TypeOK,
             Shape, Causes
    <2>4. Kept'
      BY <1>12 DEF Cancel, service, world, history, stores, Inv, TypeOK,
             Shape, Kept, Causes, Entry
    <2>5. Ages'
      BY <1>12 DEF Cancel, service, world, history, stores, Inv, TypeOK,
             Shape, Ages, Kept, Times, Entry
    <2>6. QED
      BY <2>1, <2>2, <2>3, <2>4, <2>5 DEF Inv
  <1>13. ASSUME NEW s \in Slugs, FetchSucceeds(s)
        PROVE  Inv'
    <2> DEFINE f == [stage |-> "store", answer |-> Body(now)]
               entry == [fetched |-> now, storedAt |-> now]
    <2>1. now \in Times
      BY DEF Inv, TypeOK
    <2>2. f \in Flight /\ f # None /\ Body(now) # None /\ Body(now).kind = "page"
      BY <2>1, BodyIsAnswer, FlightTyped
    <2>3. f.stage = "store" /\ f.answer = Body(now)
      OBVIOUS
    <2>4. entry \in Entry /\ entry.fetched = entry.storedAt
      BY <2>1 DEF Entry
    <2>5. /\ flight[s] # None
          /\ flight' = [flight EXCEPT ![s] = f]
          /\ \/ cache' = [cache EXCEPT ![s] = entry]
             \/ cache' = cache
          /\ lastFailed' = FALSE
          /\ UNCHANGED <<callers, disk, failedAt, listed, refreshing, search, world, start, held,
                         everFailed>>
      BY <1>13 DEF FetchSucceeds
    <2> HIDE DEF f, entry
    <2>6. entry # None
      BY <2>4, NoneAssumption
    <2>7. TypeOK'
      <3>1. lastFailed' \in BOOLEAN
        BY <2>5, Zenon
      <3>2. QED
        BY <3>1, <2>2, <2>4, <2>5 DEF Inv, TypeOK, callers, world
    <2>8. Shape' /\ Causes'
      BY <2>2, <2>3, <2>5 DEF Inv, TypeOK, Shape, Causes, callers, world
    <2>9. Kept' /\ Ages'
      BY <2>4, <2>5, <2>6 DEF Inv, TypeOK, Shape, Kept, Ages, callers, world
    <2>10. QED
      BY <2>7, <2>8, <2>9 DEF Inv
  <1>14. ASSUME NEW s \in Slugs, FetchFails(s)
        PROVE  Inv'
    <2>1. PICK kind \in {"notfound", "failed"} :
             /\ flight[s] # None
             /\ flight' = [flight EXCEPT ![s] = [stage |-> "deliver", answer |-> Fail(kind)]]
             /\ lastFailed' \in BOOLEAN
             /\ everFailed' = IF kind = "failed" THEN TRUE ELSE everFailed
             /\ UNCHANGED <<callers, stores, failedAt, listed, refreshing, search, world, start,
                            held>>
      BY <1>14 DEF FetchFails
    <2> DEFINE f == [stage |-> "deliver", answer |-> Fail(kind)]
    <2>2. Fail(kind) # None /\ Fail(kind).kind = kind /\ f \in Flight /\ f # None
      BY FailIsAnswer, FlightTyped
    <2>3. f.stage = "deliver" /\ f.answer = Fail(kind)
      OBVIOUS
    <2>4. flight' = [flight EXCEPT ![s] = f]
      BY <2>1
    <2> HIDE DEF f
    <2>5. everFailed' \in BOOLEAN /\ (everFailed = TRUE => everFailed' = TRUE)
      BY <2>1 DEF Inv, TypeOK
    <2>6. TypeOK'
      <3>1. /\ lastFailed' \in BOOLEAN
            /\ UNCHANGED <<callers, stores, failedAt, listed, refreshing, search, world, start,
                           held>>
        BY <2>1
      <3>2. QED
        BY <3>1, <2>2, <2>4, <2>5 DEF Inv, TypeOK, callers, stores, world
    <2>7. Shape'
      BY <2>1, <2>2, <2>3, <2>4 DEF Inv, TypeOK, Shape, callers
    <2>8. Causes'
      BY <2>1, <2>2, <2>3, <2>4, <2>5 DEF Inv, TypeOK, Causes, callers
    <2>9. Kept' /\ Ages'
      BY <2>1 DEF Inv, TypeOK, Kept, Ages, callers, stores, world
    <2>10. QED
      BY <2>6, <2>7, <2>8, <2>9 DEF Inv
  <1>15. ASSUME NEW s \in Slugs, StoreDisk(s)
        PROVE  Inv'
    <2>1. TypeOK'
      BY <1>15 DEF StoreDisk, callers, world, history, Inv, TypeOK, Shape,
             Times, Entry, Answer, Returned, Flight
    <2>2. Shape'
      BY <1>15 DEF StoreDisk, callers, world, history, Inv, TypeOK, Shape
    <2>3. Causes'
      BY <1>15 DEF StoreDisk, callers, world, history, Inv, TypeOK, Shape,
             Causes
    <2>4. Kept'
      BY <1>15 DEF StoreDisk, callers, world, history, Inv, TypeOK, Shape,
             Kept, Causes, Entry
    <2>5. Ages'
      BY <1>15 DEF StoreDisk, callers, world, history, Inv, TypeOK, Shape,
             Ages, Kept, Times, Entry
    <2>6. QED
      BY <2>1, <2>2, <2>3, <2>4, <2>5 DEF Inv
  <1>16. ASSUME NEW s \in Slugs, NoteHealthy(s)
        PROVE  Inv'
    <2>1. TypeOK'
      BY <1>16 DEF NoteHealthy, callers, stores, world, history, Inv, TypeOK,
             Shape, Times, Entry, Answer, Returned, Flight
    <2>2. Shape'
      BY <1>16 DEF NoteHealthy, callers, stores, world, history, Inv, TypeOK,
             Shape
    <2>3. Causes'
      BY <1>16 DEF NoteHealthy, callers, stores, world, history, Inv, TypeOK,
             Shape, Causes
    <2>4. Kept'
      BY <1>16 DEF NoteHealthy, callers, stores, world, history, Inv, TypeOK,
             Shape, Kept, Causes, Entry
    <2>5. Ages'
      BY <1>16 DEF NoteHealthy, callers, stores, world, history, Inv, TypeOK,
             Shape, Ages, Kept, Times, Entry
    <2>6. QED
      BY <2>1, <2>2, <2>3, <2>4, <2>5 DEF Inv
  <1>17. ASSUME NEW s \in Slugs, Deliver(s)
        PROVE  Inv'
    <2>1. TypeOK'
      BY <1>17 DEF Deliver, stores, world, history, Inv, TypeOK, Shape, Times,
             Entry, Answer, Returned, Flight
    <2>2. Shape'
      BY <1>17 DEF Deliver, stores, world, history, Inv, TypeOK, Shape
    <2>3. Causes'
      BY <1>17 DEF Deliver, stores, world, history, Inv, TypeOK, Shape, Causes
    <2>4. Kept'
      BY <1>17 DEF Deliver, stores, world, history, Inv, TypeOK, Shape, Kept,
             Causes, Entry
    <2>5. Ages'
      BY <1>17 DEF Deliver, stores, world, history, Inv, TypeOK, Shape, Ages,
             Kept, Times, Entry
    <2>6. QED
      BY <2>1, <2>2, <2>3, <2>4, <2>5 DEF Inv
  <1>18. ASSUME NEW s \in Slugs, Evict(s)
        PROVE  Inv'
    <2>1. TypeOK'
      BY <1>18 DEF Evict, callers, world, Inv, TypeOK, Shape, Times, Entry,
             Answer, Returned, Flight
    <2>2. Shape'
      BY <1>18 DEF Evict, callers, world, Inv, TypeOK, Shape
    <2>3. Causes'
      BY <1>18 DEF Evict, callers, world, Inv, TypeOK, Shape, Causes
    <2>4. Kept'
      BY <1>18 DEF Evict, callers, world, Inv, TypeOK, Shape, Kept, Causes,
             Entry
    <2>5. Ages'
      BY <1>18 DEF Evict, callers, world, Inv, TypeOK, Shape, Ages, Kept,
             Times, Entry
    <2>6. QED
      BY <2>1, <2>2, <2>3, <2>4, <2>5 DEF Inv
  <1>19. ASSUME NEW q \in Searchers, SearchOrigin(q)
        PROVE  Inv'
    <2>1. TypeOK'
      BY <1>19 DEF SearchOrigin, CoolingDown, callers, service, world,
             history, stores, Inv, TypeOK, Shape, Times, Entry, Answer,
             Returned, Flight
    <2>2. Shape'
      BY <1>19 DEF SearchOrigin, CoolingDown, callers, service, world,
             history, stores, Inv, TypeOK, Shape
    <2>3. Causes'
      BY <1>19 DEF SearchOrigin, CoolingDown, callers, service, world,
             history, stores, Inv, TypeOK, Shape, Causes
    <2>4. Kept'
      BY <1>19 DEF SearchOrigin, CoolingDown, callers, service, world,
             history, stores, Inv, TypeOK, Shape, Kept, Causes, Entry
    <2>5. Ages'
      BY <1>19 DEF SearchOrigin, CoolingDown, callers, service, world,
             history, stores, Inv, TypeOK, Shape, Ages, Kept, Times, Entry
    <2>6. QED
      BY <2>1, <2>2, <2>3, <2>4, <2>5 DEF Inv
  <1>20. ASSUME NEW q \in Searchers, SearchAnswered(q)
        PROVE  Inv'
    <2>1. /\ search' \in [Searchers -> {"idle", "fetch", "abandoned", "failed"}]
          /\ \A p \in Searchers : search'[p] = "failed" => search[p] = "failed" \/ everFailed' = TRUE
          /\ UNCHANGED <<callers, stores, flight, listed, refreshing, world, start, held>>
      BY <1>20 DEF SearchAnswered, Inv, TypeOK, service
    <2>2. lastFailed' \in BOOLEAN /\ everFailed' \in BOOLEAN
      BY <1>20, Zenon DEF SearchAnswered, Inv, TypeOK
    <2>3. everFailed = TRUE => everFailed' = TRUE
      BY <1>20 DEF SearchAnswered
    <2>4. failedAt' \in {None, failedAt}
      BY <1>20 DEF SearchAnswered, service
    <2>5. TypeOK'
      BY <2>1, <2>2, <2>4 DEF Inv, TypeOK, callers, stores, world
    <2>6. Shape'
      BY <2>1 DEF Inv, TypeOK, Shape, callers, stores
    <2>7. Causes'
      BY <2>1, <2>3, <2>4 DEF Inv, TypeOK, Causes, callers, stores
    <2>8. Kept' /\ Ages'
      BY <2>1 DEF Inv, TypeOK, Kept, Ages, callers, stores, world
    <2>9. QED
      BY <2>5, <2>6, <2>7, <2>8 DEF Inv
  <1>21. ASSUME NEW q \in Searchers, SearchRefused(q)
        PROVE  Inv'
    <2>1. /\ search' \in [Searchers -> {"idle", "fetch", "abandoned", "failed"}]
          /\ \A p \in Searchers : search'[p] = "failed" => search[p] = "failed" \/ everFailed' = TRUE
          /\ UNCHANGED <<callers, stores, flight, listed, refreshing, world, start, held>>
      BY <1>21 DEF SearchRefused, Inv, TypeOK, service
    <2>2. lastFailed' \in BOOLEAN /\ everFailed' \in BOOLEAN
      BY <1>21, Zenon DEF SearchRefused, Inv, TypeOK
    <2>3. everFailed = TRUE => everFailed' = TRUE
      BY <1>21 DEF SearchRefused
    <2>4. failedAt' \in {None, failedAt}
      BY <1>21 DEF SearchRefused, service
    <2>5. TypeOK'
      BY <2>1, <2>2, <2>4 DEF Inv, TypeOK, callers, stores, world
    <2>6. Shape'
      BY <2>1 DEF Inv, TypeOK, Shape, callers, stores
    <2>7. Causes'
      BY <2>1, <2>3, <2>4 DEF Inv, TypeOK, Causes, callers, stores
    <2>8. Kept' /\ Ages'
      BY <2>1 DEF Inv, TypeOK, Kept, Ages, callers, stores, world
    <2>9. QED
      BY <2>5, <2>6, <2>7, <2>8 DEF Inv
  <1>22. ASSUME NEW q \in Searchers, SearchNotesFailure(q)
        PROVE  Inv'
    <2>1. TypeOK'
      BY <1>22 DEF SearchNotesFailure, callers, stores, world, history, Inv,
             TypeOK, Shape, Times, Entry, Answer, Returned, Flight
    <2>2. Shape'
      BY <1>22 DEF SearchNotesFailure, callers, stores, world, history, Inv,
             TypeOK, Shape
    <2>3. Causes'
      BY <1>22 DEF SearchNotesFailure, callers, stores, world, history, Inv,
             TypeOK, Shape, Causes
    <2>4. Kept'
      BY <1>22 DEF SearchNotesFailure, callers, stores, world, history, Inv,
             TypeOK, Shape, Kept, Causes, Entry
    <2>5. Ages'
      BY <1>22 DEF SearchNotesFailure, callers, stores, world, history, Inv,
             TypeOK, Shape, Ages, Kept, Times, Entry
    <2>6. QED
      BY <2>1, <2>2, <2>3, <2>4, <2>5 DEF Inv
  <1>23. ASSUME NEW q \in Searchers, SearchCancelled(q)
        PROVE  Inv'
    <2>1. TypeOK'
      BY <1>23 DEF SearchCancelled, callers, service, world, history, stores,
             Inv, TypeOK, Shape, Times, Entry, Answer, Returned, Flight
    <2>2. Shape'
      BY <1>23 DEF SearchCancelled, callers, service, world, history, stores,
             Inv, TypeOK, Shape
    <2>3. Causes'
      BY <1>23 DEF SearchCancelled, callers, service, world, history, stores,
             Inv, TypeOK, Shape, Causes
    <2>4. Kept'
      BY <1>23 DEF SearchCancelled, callers, service, world, history, stores,
             Inv, TypeOK, Shape, Kept, Causes, Entry
    <2>5. Ages'
      BY <1>23 DEF SearchCancelled, callers, service, world, history, stores,
             Inv, TypeOK, Shape, Ages, Kept, Times, Entry
    <2>6. QED
      BY <2>1, <2>2, <2>3, <2>4, <2>5 DEF Inv
  <1>24. ASSUME RefreshEnds
        PROVE  Inv'
    <2>1. TypeOK'
      BY <1>24 DEF RefreshEnds, callers, stores, world, history, Inv, TypeOK,
             Shape, Times, Entry, Answer, Returned, Flight
    <2>2. Shape'
      BY <1>24 DEF RefreshEnds, callers, stores, world, history, Inv, TypeOK,
             Shape
    <2>3. Causes'
      BY <1>24 DEF RefreshEnds, callers, stores, world, history, Inv, TypeOK,
             Shape, Causes
    <2>4. Kept'
      BY <1>24 DEF RefreshEnds, callers, stores, world, history, Inv, TypeOK,
             Shape, Kept, Causes, Entry
    <2>5. Ages'
      BY <1>24 DEF RefreshEnds, callers, stores, world, history, Inv, TypeOK,
             Shape, Ages, Kept, Times, Entry
    <2>6. QED
      BY <2>1, <2>2, <2>3, <2>4, <2>5 DEF Inv
  <1>25. ASSUME Restart
        PROVE  Inv'
    <2>1. cache' \in [Slugs -> Entry \cup {None}]
      BY <1>25 DEF Restart, Inv, TypeOK, Entry
    <2>2. \A s \in Slugs : cache'[s] # None => cache'[s].fetched = cache'[s].storedAt
      BY <1>25 DEF Restart
    <2>3. /\ pc' = [c \in Callers |-> "idle"]
          /\ slug' = [c \in Callers |-> None]
          /\ cancelled' = [c \in Callers |-> FALSE]
          /\ copy' = [c \in Callers |-> None]
          /\ inbox' = [c \in Callers |-> None]
          /\ result' = [c \in Callers |-> None]
          /\ flight' = [s \in Slugs |-> None]
          /\ search' = [q \in Searchers |-> "idle"]
          /\ failedAt' = None
          /\ listed' \subseteq Slugs
          /\ start' = [c \in Callers |-> 0]
          /\ held' = [c \in Callers |-> FALSE]
          /\ refreshing' = FALSE /\ everFailed' = FALSE /\ lastFailed' = FALSE
          /\ UNCHANGED <<disk, world>>
      BY <1>25 DEF Restart, Crash, Inv, TypeOK
    <2>4. TypeOK'
      <3>1. refreshing' \in BOOLEAN /\ everFailed' \in BOOLEAN /\ lastFailed' \in BOOLEAN
        BY <2>3, Zenon
      <3>2. QED
        BY <3>1, <2>1, <2>3 DEF Inv, TypeOK, Times, world
    <2>5. Shape' /\ Causes' /\ Kept'
      BY <2>3 DEF Shape, Causes, Kept
    <2>6. Ages'
      BY <2>2, <2>3 DEF Inv, TypeOK, Ages, Times, world
    <2>7. QED
      BY <2>4, <2>5, <2>6 DEF Inv
  <1>26. ASSUME OriginChanges
        PROVE  Inv'
    <2>1. TypeOK'
      BY <1>26 DEF OriginChanges, callers, service, history, stores, Inv,
             TypeOK, Shape, Times, Entry, Answer, Returned, Flight
    <2>2. Shape'
      BY <1>26 DEF OriginChanges, callers, service, history, stores, Inv,
             TypeOK, Shape
    <2>3. Causes'
      BY <1>26 DEF OriginChanges, callers, service, history, stores, Inv,
             TypeOK, Shape, Causes
    <2>4. Kept'
      BY <1>26 DEF OriginChanges, callers, service, history, stores, Inv,
             TypeOK, Shape, Kept, Causes, Entry
    <2>5. Ages'
      BY <1>26 DEF OriginChanges, callers, service, history, stores, Inv,
             TypeOK, Shape, Ages, Kept, Times, Entry
    <2>6. QED
      BY <2>1, <2>2, <2>3, <2>4, <2>5 DEF Inv
  <1>27. ASSUME Tick
        PROVE  Inv'
    <2>1. TypeOK'
      BY <1>27 DEF Tick, callers, service, history, stores, Inv, TypeOK,
             Shape, Times, Entry, Answer, Returned, Flight
    <2>2. Shape'
      BY <1>27 DEF Tick, callers, service, history, stores, Inv, TypeOK, Shape
    <2>3. Causes'
      BY <1>27 DEF Tick, callers, service, history, stores, Inv, TypeOK,
             Shape, Causes
    <2>4. Kept'
      BY <1>27 DEF Tick, callers, service, history, stores, Inv, TypeOK,
             Shape, Kept, Causes, Entry
    <2>5. Ages'
      BY <1>27 DEF Tick, callers, service, history, stores, Inv, TypeOK,
             Shape, Ages, Kept, Times, Entry
    <2>6. QED
      BY <2>1, <2>2, <2>3, <2>4, <2>5 DEF Inv
  <1>28. ASSUME UNCHANGED vars
        PROVE  Inv'
    <2>1. TypeOK'
      BY <1>28 DEF vars, callers, service, world, history, stores, Inv,
             TypeOK, Shape, Times, Entry, Answer, Returned, Flight
    <2>2. Shape'
      BY <1>28 DEF vars, callers, service, world, history, stores, Inv,
             TypeOK, Shape
    <2>3. Causes'
      BY <1>28 DEF vars, callers, service, world, history, stores, Inv,
             TypeOK, Shape, Causes
    <2>4. Kept'
      BY <1>28 DEF vars, callers, service, world, history, stores, Inv,
             TypeOK, Shape, Kept, Causes, Entry
    <2>5. Ages'
      BY <1>28 DEF vars, callers, service, world, history, stores, Inv,
             TypeOK, Shape, Ages, Kept, Times, Entry
    <2>6. QED
      BY <2>1, <2>2, <2>3, <2>4, <2>5 DEF Inv
  <1> QED
    BY <1>1, <1>2, <1>3, <1>4, <1>5, <1>6, <1>7, <1>8, <1>9, <1>10,
       <1>11, <1>12, <1>13, <1>14, <1>15, <1>16, <1>17, <1>18, <1>19, <1>20,
       <1>21, <1>22, <1>23, <1>24, <1>25, <1>26, <1>27, <1>28 DEF Next,
       CallerStep, FlightStep, SearchStep

LEMMA InvHolds == Spec => []Inv
  <1>1. Init => Inv
    <2> SUFFICES ASSUME Init
                 PROVE  Inv
      OBVIOUS
    <2>1. TypeOK
      <3>1. /\ refreshing \in BOOLEAN /\ up \in BOOLEAN
            /\ everFailed \in BOOLEAN /\ lastFailed \in BOOLEAN
        BY Zenon DEF Init
      <3>2. QED
        BY <3>1, TimesAssumption DEF Init, TypeOK, Times
    <2>2. Shape /\ Causes /\ Kept
      BY DEF Init, Shape, Causes, Kept
    <2>3. Ages
      BY DEF Init, Ages
    <2>4. QED
      BY <2>1, <2>2, <2>3 DEF Inv
  <1>2. QED
    BY <1>1, StepPreservesInv, PTL DEF Spec

-----------------------------------------------------------------------------
\* Every variable keeps its type, and a caller that waits without an answer
\* has a flight to wait for (the singleflight channel of fetchShared).
THEOREM TypesHold == Spec => []TypeOK
  <1>1. Inv => TypeOK
    BY DEF Inv
  <1>2. QED
    BY <1>1, InvHolds, PTL

\* However callers, flights, the clock and the origin interleave, a caller that
\* still waits and whose page stayed in the cache is not refused over an origin
\* failure (the lookup after a failed flight in get).
THEOREM StaleAlwaysBeatsError == Spec => []StaleBeatsError
  <1>1. Inv => StaleBeatsError
    BY DEF Inv, Kept, TypeOK, StaleBeatsError
  <1>2. QED
    BY <1>1, InvHolds, PTL

\* A cool-down, a stale answer or a refusal always goes back to the origin's
\* failing, never to a caller's giving up (the detached context of fetchShared
\* and the order of get's error branches).
THEOREM FailuresAlwaysHaveCause == Spec => []FailuresHaveCause
  <1>1. Inv => FailuresHaveCause
    BY DEF Inv, Causes, TypeOK, Returned, FailuresHaveCause
  <1>2. QED
    BY <1>1, InvHolds, PTL

\* One caller's cancellation is never another caller's answer (fetchShared).
THEOREM OnlyCancelledAreEverCancelled == Spec => []OnlyCancelledAreCancelled
  <1>1. Inv => OnlyCancelledAreCancelled
    BY DEF Inv, Causes, OnlyCancelledAreCancelled
  <1>2. QED
    BY <1>1, InvHolds, PTL

\* A copy served as fresh was fetched within its lifetime before the call,
\* whatever restarts it has been through (loadDisk and the cache's lookup).
THEOREM FreshCopiesAreAlwaysRecent == Spec => []FreshCopiesAreRecent
  <1>1. Inv => FreshCopiesAreRecent
    BY DEF Inv, Ages, TypeOK, Returned, FreshCopiesAreRecent
  <1>2. QED
    BY <1>1, InvHolds, PTL
=============================================================================
