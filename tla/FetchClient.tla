---------------------------- MODULE FetchClient ----------------------------
(***************************************************************************)
(* The origin client: fetches that share one token bucket, each with its   *)
(* own deadline, up to three attempts, and a wait before each attempt but  *)
(* the first that is the longer of a jittered back-off and what the origin *)
(* announced in Retry-After.  An attempt takes one token, however often    *)
(* the origin redirects it, and the HTTP client ends it after a time of    *)
(* its own.                                                                *)
(*                                                                         *)
(* Time is an integer and goes from one event to the next: code between    *)
(* two waits takes none.  A fetch is called on the context of a flight,    *)
(* which nobody cancels before its deadline (fetchShared).                 *)
(***************************************************************************)
EXTENDS Integers, Sequences, FiniteSets

CONSTANTS Fetches,        \* calls of Fetch
          MaxAttempts,    \* attempts a fetch may make
          MaxHops,        \* requests of an attempt, redirected ones included
          ClientTimeout,  \* time an attempt has, with all its redirects
          BaseBackoff,    \* back-off before the second
          Second,         \* a second
          MaxRetryAfter,  \* cap on an announced wait
          Deadline,       \* time a fetch has from its start
          Interval,       \* time in which the bucket gains a token
          Burst,          \* tokens it holds
          IntMax,         \* greatest integer of the width of time.Duration
          Announced,      \* seconds the origin may announce; 0 is no header
          Durations,      \* how long a request may take
          LastStart       \* bound on the time at which a fetch starts

ASSUME TimesAssumption ==
    /\ {Deadline, MaxRetryAfter, LastStart} \subseteq Nat
    /\ {MaxAttempts, MaxHops, ClientTimeout} \subseteq Nat \ {0}
    /\ {BaseBackoff, Second, Interval, Burst, IntMax} \subseteq Nat \ {0}
    /\ Announced \subseteq Nat
    /\ Durations \subseteq Nat \ {0}

\* Powers of two are what they are; the provers do not know it.
ASSUME BackoffAssumption ==
    \A n \in 0..MaxAttempts :
        /\ BaseBackoff * 2^n \in Nat
        /\ n < MaxAttempts => 2 * (BaseBackoff * 2^n) <= BaseBackoff * 2^MaxAttempts

VARIABLES now,
          pc,          \* where each fetch is
          due,         \* when its wait or its request ends
          deadline,    \* when its context ends
          attempt,     \* attempts made
          hops,        \* requests made in the last attempt
          limit,       \* when the HTTP client ends it
          retryAfter,  \* what the last answer announced, as parsed
          result,      \* how it ended
          full         \* when the bucket is full again, at the latest

\* History: when each attempt was made, and which is a fetch's last; the
\* requests, each with its attempt, its place in it and its time; the earliest
\* time the origin allowed each fetch's next request, and whether a duration
\* could hold what it announced; when each fetch ended.
VARIABLES sent, current, asked, allowed, fits, ended

progress == <<pc, due, deadline, attempt, hops, limit, retryAfter, result>>
requests == <<sent, current, asked, allowed, fits>>
history  == <<requests, ended>>
vars == <<now, progress, full, history>>

Results == {"body",      \* the document
            "terminal",  \* an error no retry helps with
            "last",      \* the error of the last attempt
            "limited",   \* no token before the deadline
            "slept",     \* the deadline came while it waited for a retry
            "cut"}       \* the deadline came during a request

Least(a, b) == IF a <= b THEN a ELSE b
Greatest(a, b) == IF a >= b THEN a ELSE b

\* Signed arithmetic of the width of time.Duration.
Wrap(n) == ((n + IntMax + 1) % (2 * (IntMax + 1))) - (IntMax + 1)

\* Faulty: not capped.
ParseUncapped(secs) == Wrap(secs * Second)

ParseRetryAfter(secs) == Least(Wrap(secs * Second), MaxRetryAfter)

Backoffs(f) ==
    LET base == BaseBackoff * 2^(attempt[f] - 1)
    IN  {base + jitter : jitter \in 0..Greatest(0, base \div 2 - 1)}

\* Faulty: the back-off alone decides.
WaitsOfBackoff(f) == Backoffs(f)

\* What may be waited before the next attempt: the back-off, which doubles and
\* grows by a jitter of less than a half, or what was announced.
Waits(f) == {Greatest(backoff, retryAfter[f]) : backoff \in Backoffs(f)}

-----------------------------------------------------------------------------
Init ==
    /\ now = 0
    /\ pc = [f \in Fetches |-> "idle"]
    /\ due = [f \in Fetches |-> 0]
    /\ deadline = [f \in Fetches |-> 0]
    /\ attempt = [f \in Fetches |-> 0]
    /\ hops = [f \in Fetches |-> 0]
    /\ limit = [f \in Fetches |-> 0]
    /\ retryAfter = [f \in Fetches |-> 0]
    /\ result = [f \in Fetches |-> "none"]
    /\ full = 0
    /\ sent = <<>>
    /\ current = [f \in Fetches |-> 0]
    /\ asked = {}
    /\ allowed = [f \in Fetches |-> 0]
    /\ fits = [f \in Fetches |-> TRUE]
    /\ ended = [f \in Fetches |-> 0]

Go(f, stage) == pc' = [pc EXCEPT ![f] = stage]

End(f, how) ==
    /\ Go(f, "done")
    /\ result' = [result EXCEPT ![f] = how]
    /\ ended' = [ended EXCEPT ![f] = now]

Start(f) ==
    /\ pc[f] = "idle"
    /\ now <= LastStart
    /\ Go(f, "reserve")
    /\ deadline' = [deadline EXCEPT ![f] = now + Deadline]
    /\ UNCHANGED <<now, due, attempt, hops, limit, retryAfter, result, full, history>>

\* Faulty: only a fetch's first request takes a token.
ReserveOnce(f) ==
    LET next == IF attempt[f] = 0 THEN Greatest(full, now) + Interval ELSE full
        wait == Greatest(0, next - now - Burst * Interval)
    IN  /\ pc[f] = "reserve"
        /\ \/ /\ now + wait > deadline[f]
              /\ End(f, "limited")
              /\ UNCHANGED <<due, full>>
           \/ /\ now + wait <= deadline[f]
              /\ Go(f, "token")
              /\ due' = [due EXCEPT ![f] = now + wait]
              /\ full' = next
              /\ UNCHANGED <<result, ended>>
        /\ UNCHANGED <<now, deadline, attempt, hops, limit, retryAfter, requests>>

\* The limiter takes a token, if need be one that is still to come, and says
\* how long to wait for it, or refuses when that is past the deadline.
Reserve(f) ==
    LET next == Greatest(full, now) + Interval
        wait == Greatest(0, next - now - Burst * Interval)
    IN  /\ pc[f] = "reserve"
        /\ \/ /\ now + wait > deadline[f]
              /\ End(f, "limited")
              /\ UNCHANGED <<due, full>>
           \/ /\ now + wait <= deadline[f]
              /\ Go(f, "token")
              /\ due' = [due EXCEPT ![f] = now + wait]
              /\ full' = next
              /\ UNCHANGED <<result, ended>>
        /\ UNCHANGED <<now, deadline, attempt, hops, limit, retryAfter, requests>>

\* The attempt's first request, and the time from which the HTTP client counts.
Attempt(f) ==
    /\ pc[f] = "token"
    /\ due[f] = now
    /\ Go(f, "request")
    /\ attempt' = [attempt EXCEPT ![f] = @ + 1]
    /\ hops' = [hops EXCEPT ![f] = 1]
    /\ limit' = [limit EXCEPT ![f] = now + ClientTimeout]
    /\ sent' = Append(sent, now)
    /\ current' = [current EXCEPT ![f] = Len(sent) + 1]
    /\ asked' = asked \cup {[attempt |-> Len(sent) + 1, hop |-> 1, at |-> now]}
    /\ UNCHANGED <<now, deadline, retryAfter, result, full, allowed, fits, ended>>

\* Faulty: the request does not end with its context.
RequestUnbounded(f) ==
    /\ Attempt(f)
    /\ \E d \in Durations : due' = [due EXCEPT ![f] = Least(now + d, limit'[f])]

Request(f) ==
    /\ Attempt(f)
    /\ \E d \in Durations :
          due' = [due EXCEPT ![f] = Least(now + d, Least(limit'[f], deadline[f]))]

\* The origin's answer is another place to look, and the HTTP client asks there
\* at once, for no token and in what time the attempt has left.
Redirect(f) ==
    /\ pc[f] = "request"
    /\ due[f] = now
    /\ now < deadline[f] /\ now < limit[f]
    /\ hops[f] < MaxHops
    /\ hops' = [hops EXCEPT ![f] = @ + 1]
    /\ \E d \in Durations :
          due' = [due EXCEPT ![f] = Least(now + d, Least(limit[f], deadline[f]))]
    /\ asked' = asked \cup {[attempt |-> current[f], hop |-> hops[f] + 1, at |-> now]}
    /\ UNCHANGED <<now, pc, deadline, attempt, limit, retryAfter, result, full, sent, current,
                   allowed, fits, ended>>

\* The request ends with its context, with the client's own time, which no
\* retry follows, or with an answer.
Answer(f) ==
    /\ pc[f] = "request"
    /\ due[f] = now
    /\ IF now = deadline[f]
       THEN End(f, "cut")
       ELSE \E how \in {"body", "terminal"} : (now = limit[f] => how = "terminal") /\ End(f, how)
    /\ UNCHANGED <<now, due, deadline, attempt, hops, limit, retryAfter, full, requests>>

\* Status 429 or 5xx, which may announce a wait, a transport failure or one
\* redirect too many.
AnswerRetryable(f) ==
    /\ pc[f] = "request"
    /\ due[f] = now
    /\ now < deadline[f] /\ now < limit[f]
    /\ \E secs \in Announced :
          /\ retryAfter' = [retryAfter EXCEPT ![f] = ParseRetryAfter(secs)]
          /\ allowed' = [allowed EXCEPT ![f] = now + Least(secs * Second, MaxRetryAfter)]
          /\ fits' = [fits EXCEPT ![f] = secs * Second <= IntMax]
    /\ Go(f, "failed")
    /\ UNCHANGED <<now, due, deadline, attempt, hops, limit, result, full, sent, current, asked,
                   ended>>

\* A retry that would come too late is not waited for.
Retry(f) ==
    /\ pc[f] = "failed"
    /\ \E wait \in Waits(f) :
          \/ /\ attempt[f] = MaxAttempts \/ deadline[f] - now <= wait
             /\ End(f, "last")
             /\ UNCHANGED due
          \/ /\ attempt[f] < MaxAttempts /\ deadline[f] - now > wait
             /\ Go(f, "sleep")
             /\ due' = [due EXCEPT ![f] = Least(now + wait, deadline[f])]
             /\ UNCHANGED <<result, ended>>
    /\ UNCHANGED <<now, deadline, attempt, hops, limit, retryAfter, full, requests>>

Wake(f) ==
    /\ pc[f] = "sleep"
    /\ due[f] = now
    /\ IF now = deadline[f]
       THEN End(f, "slept")
       ELSE Go(f, "reserve") /\ UNCHANGED <<result, ended>>
    /\ UNCHANGED <<now, due, deadline, attempt, hops, limit, retryAfter, full, requests>>

Waiting == {f \in Fetches : pc[f] \in {"token", "request", "sleep"} /\ due[f] > now}
Ready == {f \in Fetches : pc[f] \notin {"idle", "done"}} \ Waiting

\* Time goes to the next event when nobody has anything to do before it.
Tick ==
    /\ Ready = {}
    /\ Waiting # {}
    /\ \E f \in Waiting : now' = due[f] /\ \A g \in Waiting : due[f] <= due[g]
    /\ UNCHANGED <<progress, full, history>>

\* All fetches have ended, or come after the time the model looks at.
AllDone ==
    /\ \A f \in Fetches : pc[f] = "done" \/ (pc[f] = "idle" /\ now > LastStart)
    /\ UNCHANGED vars

Step(f) ==
    \/ Reserve(f) \/ Request(f) \/ Redirect(f) \/ Answer(f) \/ AnswerRetryable(f)
    \/ Retry(f) \/ Wake(f)

Next == (\E f \in Fetches : Start(f) \/ Step(f)) \/ Tick \/ AllDone

Spec == Init /\ [][Next]_vars

-----------------------------------------------------------------------------
(* Properties *)

\* Every variable has its type, and no fetch lives past its deadline.
TypeOK ==
    /\ {now, full} \subseteq Nat
    /\ pc \in [Fetches -> {"idle", "reserve", "token", "request", "failed", "sleep", "done"}]
    /\ due \in [Fetches -> Nat]
    /\ deadline \in [Fetches -> Nat]
    /\ attempt \in [Fetches -> 0..MaxAttempts]
    /\ hops \in [Fetches -> 0..MaxHops]
    /\ limit \in [Fetches -> Nat]
    /\ retryAfter \in [Fetches -> Int]
    /\ result \in [Fetches -> Results \cup {"none"}]
    /\ sent \in Seq(Nat)
    /\ current \in [Fetches -> Nat]
    /\ asked \subseteq [attempt : Nat, hop : Nat, at : Nat]
    /\ allowed \in [Fetches -> Nat]
    /\ fits \in [Fetches -> BOOLEAN]
    /\ ended \in [Fetches -> Nat]
    /\ \A f \in Fetches :
          pc[f] \notin {"idle", "done"} => now <= deadline[f] /\ due[f] <= deadline[f]

\* The origin gets no request from a fetch, redirected or not, before the time
\* it announced, or the cap on it, has passed (client.go:148-149): neither the
\* back-off, nor the token's time, nor other fetches shorten it.  A number of
\* seconds too large for a duration is the code's exception (client.go:298).
RetryAfterHonoured ==
    [][\A f \in Fetches :
          /\ attempt'[f] # attempt[f] \/ hops'[f] # hops[f]
          /\ fits[f]
          => now >= allowed[f]]_vars

\* The same of whatever number the origin announces (client.go:148-149).
RetryAfterIsAFloor ==
    [][\A f \in Fetches : attempt'[f] # attempt[f] => now >= allowed[f]]_vars

\* The requests the origin got from time s to time t.
Asked(s, t) == {r \in asked : s <= r.at /\ r.at <= t}

AttemptsLimited ==
    \A i, j \in DOMAIN sent :
        i < j => j - i + 1 <= Burst + (sent[j] - sent[i]) \div Interval

RequestsLimited ==
    \A q, r \in asked :
        q.at <= r.at => Cardinality(Asked(q.at, r.at))
                          <= MaxHops * (Burst + (r.at - q.at + ClientTimeout) \div Interval)

\* In any stretch of time no more attempts begin than a full bucket holds
\* tokens and the stretch gains, whichever fetches they belong to
\* (client.go:67-68).  A redirected request takes no token, so that what the
\* origin gets in it is only bounded by the attempts of the stretch and of the
\* time one may have begun before it, each as often as redirects are followed.
RateLimited == AttemptsLimited /\ RequestsLimited

\* In any stretch of time the origin gets at most a full bucket of requests
\* and one for each token gained in it (client.go:67-68).
RequestsRateLimited ==
    \A q, r \in asked :
        q.at <= r.at => Cardinality(Asked(q.at, r.at)) <= Burst + (r.at - q.at) \div Interval

\* A fetch never sleeps into its deadline, and gives up before its last attempt
\* only when less time is left than the longest wait there is
\* (client.go:171-174).
GivesUpOnlyWhenItMust ==
    \A f \in Fetches :
        /\ result[f] # "slept"
        /\ result[f] = "last" /\ attempt[f] < MaxAttempts =>
              deadline[f] - ended[f] <= Greatest(MaxRetryAfter, BaseBackoff * 2^MaxAttempts)

\* A fetch that has seen an attempt fail ends in an attempt's error, never in
\* one of the limiter's or of its context's (client.go:171-174).
DegradesToLastError ==
    \A f \in Fetches : attempt[f] > 0 => result[f] \notin {"limited", "slept"}

\* The deadline leaves room for all attempts (client.go:32-36).
BudgetFitsAttempts ==
    \A f \in Fetches : result[f] = "last" => attempt[f] = MaxAttempts
=============================================================================
