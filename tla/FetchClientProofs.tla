-------------------------- MODULE FetchClientProofs --------------------------
(***************************************************************************)
(* For any number of fetches and attempts, any bucket, deadline, answers   *)
(* and back-off: no fetch sleeps into its deadline or gives up while it    *)
(* has time; the attempts of any stretch of time are within the bucket's   *)
(* limit, and the requests within as many times that as redirects are      *)
(* followed; and none asks again before the time the origin announced,     *)
(* when a duration can hold it.                                            *)
(***************************************************************************)
EXTENDS FetchClient, DataTheorems, TLAPS

\* What a fetch has done and holds at each stage.
StageInv ==
    \A f \in Fetches :
        /\ pc[f] = "idle" => attempt[f] = 0 /\ due[f] = 0 /\ allowed[f] = 0
        /\ pc[f] \in {"reserve", "token", "sleep"} => attempt[f] < MaxAttempts
        /\ pc[f] \in {"request", "failed"} => attempt[f] > 0
        /\ pc[f] = "sleep" => due[f] < deadline[f]
        /\ pc[f] # "done" => result[f] = "none"
        /\ retryAfter[f] <= MaxRetryAfter

IInv == TypeOK /\ StageInv /\ GivesUpOnlyWhenItMust

\* The time the origin announced, as it passes from the answer to the wait, and
\* to the next request.
FloorInv ==
    \A f \in Fetches :
        fits[f] = TRUE =>
            /\ pc[f] \in {"reserve", "token", "request"} => now >= allowed[f]
            /\ pc[f] = "sleep" => due[f] >= allowed[f]
            /\ pc[f] = "failed" => now + retryAfter[f] >= allowed[f]

Stages == {"idle", "reserve", "token", "request", "failed", "sleep", "done"}
Longest == Greatest(MaxRetryAfter, BaseBackoff * 2^MaxAttempts)

-----------------------------------------------------------------------------
(* Arithmetic *)

LEMMA Parameters ==
    /\ Deadline \in Nat /\ MaxRetryAfter \in Nat /\ LastStart \in Nat
    /\ MaxAttempts \in Nat \ {0} /\ BaseBackoff \in Nat \ {0} /\ Second \in Nat \ {0}
    /\ Interval \in Nat \ {0} /\ Burst \in Nat \ {0} /\ IntMax \in Nat \ {0}
    /\ MaxHops \in Nat \ {0} /\ ClientTimeout \in Nat \ {0}
  BY TimesAssumption

LEMMA Product == ASSUME NEW a \in Nat, NEW b \in Nat PROVE a * b \in Nat
  OBVIOUS

LEMMA SmallRemainder ==
    ASSUME NEW a \in Nat, NEW b \in Nat \ {0}, a < b
    PROVE  a % b = a
  BY SMT

LEMMA Half == ASSUME NEW a \in Nat PROVE a \div 2 \in Int /\ 2 * (a \div 2) <= a
  BY SMT

LEMMA WrapIsInt == ASSUME NEW n \in Int PROVE Wrap(n) \in Int
  <1> DEFINE width == 2 * (IntMax + 1)
  <1>1. width \in Nat \ {0} /\ n + IntMax + 1 \in Int
    BY Parameters
  <1>2. \A a \in Int, b \in Nat \ {0} : a % b \in Int
    BY SMT
  <1>3. (n + IntMax + 1) % width \in Int
    BY <1>1, <1>2
  <1> HIDE DEF width
  <1>4. QED
    BY <1>3, Parameters DEF Wrap, width

\* A number that fits stays what it is.
LEMMA WrapFits == ASSUME NEW n \in Nat, n <= IntMax PROVE Wrap(n) = n
  <1> DEFINE width == 2 * (IntMax + 1)
  <1>1. width \in Nat \ {0} /\ n + IntMax + 1 \in Nat /\ n + IntMax + 1 < width
    BY Parameters
  <1> HIDE DEF width
  <1>2. (n + IntMax + 1) % width = n + IntMax + 1
    BY <1>1, SmallRemainder
  <1>3. QED
    BY <1>2, Parameters DEF Wrap, width

\* A wait before another attempt is at least what was announced, and at most
\* the longest back-off or the cap.
LEMMA WaitBounds ==
    ASSUME TypeOK, StageInv, NEW f \in Fetches, pc[f] = "failed", NEW wait \in Waits(f)
    PROVE  /\ wait \in Nat /\ wait >= retryAfter[f]
           /\ attempt[f] < MaxAttempts => wait <= Longest
  <1> DEFINE base == BaseBackoff * 2^(attempt[f] - 1)
             grown == Greatest(0, base \div 2 - 1)
             most == BaseBackoff * 2^MaxAttempts
  <1>1. attempt[f] \in 0..MaxAttempts /\ attempt[f] > 0 /\ retryAfter[f] \in Int
        /\ retryAfter[f] <= MaxRetryAfter
    BY DEF TypeOK, StageInv
  <1>2. /\ attempt[f] - 1 \in 0..MaxAttempts /\ attempt[f] - 1 < MaxAttempts
        /\ MaxAttempts \in 0..MaxAttempts
    BY <1>1, Parameters
  <1>3. base \in Nat /\ most \in Nat /\ 2 * base <= most
    BY <1>2, BackoffAssumption
  <1> HIDE DEF base, most
  <1>4. base \div 2 \in Int /\ 2 * (base \div 2) <= base
    BY <1>3, Half
  <1>5. grown \in Nat /\ grown <= base
    BY <1>3, <1>4 DEF Greatest
  <1>6. PICK jitter \in 0..grown : wait = Greatest(base + jitter, retryAfter[f])
    BY DEF Waits, Backoffs, base
  <1> HIDE DEF grown
  <1>7. base + jitter \in Nat /\ base + jitter <= most
    BY <1>3, <1>5, <1>6
  <1>8. wait \in Nat /\ wait >= retryAfter[f]
    BY <1>1, <1>6, <1>7 DEF Greatest
  <1>9. wait <= Longest
    BY <1>1, <1>3, <1>6, <1>7, Parameters DEF Greatest, Longest, most
  <1>10. QED
    BY <1>8, <1>9

-----------------------------------------------------------------------------
(* The invariant *)

LEMMA InitInv == Init => IInv /\ FloorInv
  <1> SUFFICES ASSUME Init PROVE IInv /\ FloorInv
    OBVIOUS
  <1>1. TypeOK
    BY Parameters DEF Init, TypeOK
  <1>2. StageInv /\ FloorInv
    BY Parameters DEF Init, StageInv, FloorInv
  <1>3. GivesUpOnlyWhenItMust
    BY DEF Init, GivesUpOnlyWhenItMust
  <1>4. QED
    BY <1>1, <1>2, <1>3 DEF IInv

\* A step leaves the fetches that do not take it as they are.
LEMMA OthersStay ==
    ASSUME TypeOK, NEW f \in Fetches, Start(f) \/ Step(f), NEW g \in Fetches, g # f
    PROVE  /\ pc'[g] = pc[g] /\ due'[g] = due[g] /\ deadline'[g] = deadline[g]
           /\ attempt'[g] = attempt[g] /\ retryAfter'[g] = retryAfter[g]
           /\ hops'[g] = hops[g] /\ limit'[g] = limit[g] /\ current'[g] = current[g]
           /\ result'[g] = result[g] /\ allowed'[g] = allowed[g] /\ ended'[g] = ended[g]
           /\ fits'[g] = fits[g] /\ now' = now
  <1>1. CASE Start(f)
    BY <1>1 DEF Start, Go, history, requests, TypeOK
  <1>2. CASE Reserve(f)
    <2>1. /\ UNCHANGED <<now, deadline, attempt, hops, limit, retryAfter, current, allowed, fits>>
          /\ \/ End(f, "limited") /\ due' = due
             \/ \E t : Go(f, "token") /\ due' = [due EXCEPT ![f] = t] /\ UNCHANGED <<result, ended>>
      BY <1>2 DEF Reserve, requests
    <2>2. UNCHANGED <<now, deadline, attempt, hops, limit, retryAfter, current, allowed, fits>>
      BY <2>1
    <2>3. pc'[g] = pc[g] /\ due'[g] = due[g] /\ result'[g] = result[g] /\ ended'[g] = ended[g]
      BY <2>1 DEF Go, End, TypeOK
    <2>4. QED
      BY <2>2, <2>3
  <1>3. CASE Request(f)
    BY <1>3 DEF Request, Attempt, Go, TypeOK
  <1>4. CASE Answer(f)
    <2>1. \E how \in {"cut", "body", "terminal"} : End(f, how)
      BY <1>4 DEF Answer
    <2>2. UNCHANGED <<now, due, deadline, attempt, hops, limit, retryAfter, current, allowed, fits>>
      BY <1>4 DEF Answer, requests
    <2>3. pc'[g] = pc[g] /\ result'[g] = result[g] /\ ended'[g] = ended[g]
      BY <2>1 DEF Go, End, TypeOK
    <2>4. QED
      BY <2>2, <2>3
  <1>5. CASE AnswerRetryable(f)
    BY <1>5 DEF AnswerRetryable, Go, TypeOK
  <1>6. CASE Retry(f)
    BY <1>6 DEF Retry, Go, End, requests, TypeOK
  <1>7. CASE Wake(f)
    <2>1. CASE now = deadline[f]
      BY <1>7, <2>1 DEF Wake, Go, End, requests, TypeOK
    <2>2. CASE now # deadline[f]
      BY <1>7, <2>2 DEF Wake, Go, requests, TypeOK
    <2>3. QED
      BY <2>1, <2>2
  <1>8. CASE Redirect(f)
    BY <1>8 DEF Redirect, TypeOK
  <1>9. QED
    BY <1>1, <1>2, <1>3, <1>4, <1>5, <1>6, <1>7, <1>8 DEF Step

\* What a fetch that takes a step must keep of the invariant.
Sound(f) ==
    /\ pc[f] \notin {"idle", "done"} => now <= deadline[f] /\ due[f] <= deadline[f]
    /\ pc[f] = "idle" => attempt[f] = 0 /\ due[f] = 0 /\ allowed[f] = 0
    /\ pc[f] \in {"reserve", "token", "sleep"} => attempt[f] < MaxAttempts
    /\ pc[f] \in {"request", "failed"} => attempt[f] > 0
    /\ pc[f] = "sleep" => due[f] < deadline[f]
    /\ pc[f] # "done" => result[f] = "none"
    /\ retryAfter[f] <= MaxRetryAfter
    /\ result[f] # "slept"
    /\ result[f] = "last" /\ attempt[f] < MaxAttempts => deadline[f] - ended[f] <= Longest

Typed(f) ==
    /\ pc[f] \in Stages /\ due[f] \in Nat /\ deadline[f] \in Nat
    /\ attempt[f] \in 0..MaxAttempts /\ retryAfter[f] \in Int
    /\ result[f] \in Results \cup {"none"} /\ allowed[f] \in Nat /\ ended[f] \in Nat
    /\ hops[f] \in 0..MaxHops /\ limit[f] \in Nat /\ current[f] \in Nat
    /\ fits[f] \in BOOLEAN /\ now \in Nat

LEMMA InvParts == IInv => \A f \in Fetches : Typed(f) /\ Sound(f)
  BY DEF IInv, TypeOK, StageInv, GivesUpOnlyWhenItMust, Typed, Sound, Longest, Stages

\* The types that do not follow a fetch.
Frame ==
    /\ {now, full} \subseteq Nat /\ sent \in Seq(Nat)
    /\ pc \in [Fetches -> Stages] /\ due \in [Fetches -> Nat] /\ deadline \in [Fetches -> Nat]
    /\ attempt \in [Fetches -> 0..MaxAttempts] /\ retryAfter \in [Fetches -> Int]
    /\ result \in [Fetches -> Results \cup {"none"}]
    /\ allowed \in [Fetches -> Nat] /\ ended \in [Fetches -> Nat]
    /\ hops \in [Fetches -> 0..MaxHops] /\ limit \in [Fetches -> Nat]
    /\ current \in [Fetches -> Nat] /\ fits \in [Fetches -> BOOLEAN]
    /\ asked \subseteq [attempt : Nat, hop : Nat, at : Nat]

LEMMA PartsInv == Frame' /\ (\A f \in Fetches : Sound(f)') => IInv'
  BY DEF IInv, TypeOK, StageInv, GivesUpOnlyWhenItMust, Frame, Sound, Longest, Stages

LEMMA InvFrame == IInv => Frame
  BY DEF IInv, TypeOK, Frame, Stages

LEMMA StartKeeps ==
    ASSUME IInv, NEW f \in Fetches, Start(f)
    PROVE  Frame' /\ Sound(f)'
  <1>1. Frame /\ Sound(f) /\ Typed(f) /\ now + Deadline \in Nat
    BY InvParts, InvFrame, Parameters DEF Typed
  <1>2. Frame'
    BY <1>1 DEF Start, Go, history, requests, Frame, Stages
  <1>3. /\ pc'[f] = "reserve" /\ deadline'[f] = now + Deadline /\ pc[f] = "idle"
        /\ UNCHANGED <<now, due, attempt, retryAfter, result, allowed, ended>>
    BY <1>1 DEF Start, Go, history, requests, Frame
  <1>4. Sound(f)'
    BY <1>1, <1>3, Parameters DEF Sound, Typed
  <1>5. QED
    BY <1>2, <1>4

LEMMA ReserveKeeps ==
    ASSUME IInv, NEW f \in Fetches, Reserve(f)
    PROVE  Frame' /\ Sound(f)'
  <1> DEFINE next == Greatest(full, now) + Interval
             room == Burst * Interval
             wait == Greatest(0, next - now - room)
  <1>1. Frame /\ Sound(f) /\ Typed(f)
    BY InvParts, InvFrame
  <1>2. room \in Nat
    BY Parameters, Product
  <1> HIDE DEF room
  <1>3. next \in Nat /\ wait \in Nat /\ now + wait \in Nat
    <2>1. full \in Nat /\ now \in Nat /\ Interval \in Nat
      BY <1>1, Parameters DEF Frame
    <2>2. next \in Nat
      BY <2>1 DEF Greatest
    <2> HIDE DEF next
    <2>3. wait \in Nat
      BY <1>2, <2>1, <2>2 DEF Greatest
    <2>4. now + wait \in Nat
      BY <2>1, <2>3
    <2>5. QED
      BY <2>2, <2>3, <2>4
  <1>4. /\ pc[f] = "reserve"
        /\ \/ now + wait > deadline[f] /\ End(f, "limited") /\ UNCHANGED <<due, full>>
           \/ /\ now + wait <= deadline[f] /\ Go(f, "token")
              /\ due' = [due EXCEPT ![f] = now + wait] /\ full' = next
              /\ UNCHANGED <<result, ended>>
        /\ UNCHANGED <<now, deadline, attempt, hops, limit, retryAfter, requests>>
    BY DEF Reserve, room
  <1> HIDE DEF next, wait
  <1>5. Frame'
    <2>1. CASE End(f, "limited") /\ UNCHANGED <<due, full>>
      BY <1>1, <1>4, <2>1 DEF Go, End, requests, Frame, Stages, Results
    <2>2. CASE /\ Go(f, "token") /\ UNCHANGED <<result, ended>>
               /\ due' = [due EXCEPT ![f] = now + wait] /\ full' = next
      BY <1>1, <1>3, <1>4, <2>2 DEF Go, requests, Frame, Stages
    <2>3. QED
      BY <1>4, <2>1, <2>2
  <1>6. Sound(f)'
    BY <1>1, <1>3, <1>4 DEF Go, End, requests, Frame, Sound, Typed
  <1>7. QED
    BY <1>5, <1>6

\* When a request ends at the latest.
LEMMA EndsInTime ==
    ASSUME NEW t \in Nat, NEW d \in Durations, NEW l \in Nat, NEW e \in Nat
    PROVE  LET end == Least(t + d, Least(l, e))
           IN  end \in Nat /\ end <= l /\ end <= e
  BY TimesAssumption DEF Least

LEMMA RequestKeeps ==
    ASSUME IInv, NEW f \in Fetches, Request(f)
    PROVE  Frame' /\ Sound(f)'
  <1>1. Frame /\ Sound(f) /\ Typed(f)
    BY InvParts, InvFrame
  <1>2. Attempt(f) /\ limit'[f] = now + ClientTimeout /\ now + ClientTimeout \in Nat
    <2>1. Attempt(f)
      BY DEF Request
    <2>2. limit' = [limit EXCEPT ![f] = now + ClientTimeout] /\ now \in Nat /\ limit \in [Fetches -> Nat]
      BY <1>1, <2>1 DEF Attempt, Frame
    <2>3. ClientTimeout \in Nat
      BY Parameters
    <2>4. QED
      BY <2>1, <2>2, <2>3
  <1>3. PICK d \in Durations :
          due' = [due EXCEPT ![f] = Least(now + d, Least(now + ClientTimeout, deadline[f]))]
    BY <1>2 DEF Request
  <1> DEFINE end == Least(now + d, Least(now + ClientTimeout, deadline[f]))
  <1>4. end \in Nat /\ end <= deadline[f]
    BY <1>1, <1>2, EndsInTime DEF Typed
  <1>5. due' = [due EXCEPT ![f] = end]
    BY <1>3
  <1> HIDE DEF end
  <1>6. attempt[f] + 1 \in 0..MaxAttempts /\ attempt[f] + 1 > 0 /\ 1 \in 0..MaxHops
    <2>1. attempt[f] \in 0..MaxAttempts /\ attempt[f] < MaxAttempts
      BY <1>1, <1>2 DEF Attempt, Sound, Typed
    <2>2. QED
      BY <2>1, Parameters
  <1>7. Len(sent) + 1 \in Nat /\ sent' \in Seq(Nat)
    BY <1>1, <1>2 DEF Attempt, Frame
  <1>8. asked' \subseteq [attempt : Nat, hop : Nat, at : Nat]
    BY <1>1, <1>2, <1>7 DEF Attempt, Frame
  <1>9. Frame'
    BY <1>1, <1>2, <1>4, <1>5, <1>6, <1>7, <1>8 DEF Attempt, Go, Frame, Stages
  <1>10. Sound(f)'
    BY <1>1, <1>2, <1>4, <1>5, <1>6 DEF Attempt, Go, Frame, Sound
  <1>11. QED
    BY <1>9, <1>10

LEMMA RedirectKeeps ==
    ASSUME IInv, NEW f \in Fetches, Redirect(f)
    PROVE  Frame' /\ Sound(f)'
  <1>1. Frame /\ Sound(f) /\ Typed(f)
    BY InvParts, InvFrame
  <1>2. PICK d \in Durations :
          due' = [due EXCEPT ![f] = Least(now + d, Least(limit[f], deadline[f]))]
    BY DEF Redirect
  <1> DEFINE end == Least(now + d, Least(limit[f], deadline[f]))
  <1>3. end \in Nat /\ end <= deadline[f]
    BY <1>1, EndsInTime DEF Typed
  <1>4. due' = [due EXCEPT ![f] = end]
    BY <1>2
  <1> HIDE DEF end
  <1>5. hops[f] + 1 \in 0..MaxHops /\ hops[f] + 1 \in Nat
    BY <1>1, Parameters DEF Redirect, Typed
  <1>6. asked' \subseteq [attempt : Nat, hop : Nat, at : Nat]
    BY <1>1, <1>5 DEF Redirect, Frame, Typed
  <1>7. Frame'
    BY <1>1, <1>3, <1>4, <1>5, <1>6 DEF Redirect, Frame
  <1>8. Sound(f)'
    BY <1>1, <1>3, <1>4 DEF Redirect, Frame, Sound
  <1>9. QED
    BY <1>7, <1>8

LEMMA EndKeeps ==
    ASSUME IInv, NEW f \in Fetches, pc[f] # "done", NEW how \in Results \ {"last", "slept"},
           End(f, how), UNCHANGED <<now, due, deadline, attempt, hops, limit, retryAfter, full, requests>>
    PROVE  Frame' /\ Sound(f)'
  <1>1. Frame /\ Sound(f) /\ Typed(f)
    BY InvParts, InvFrame
  <1>2. Frame'
    BY <1>1 DEF End, Go, requests, Frame, Stages
  <1>3. pc'[f] = "done" /\ result'[f] = how
    BY <1>1 DEF End, Go, Frame
  <1>4. QED
    BY <1>1, <1>2, <1>3 DEF Sound

LEMMA AnswerKeeps ==
    ASSUME IInv, NEW f \in Fetches, Answer(f)
    PROVE  Frame' /\ Sound(f)'
  <1>1. PICK how \in {"body", "terminal", "cut"} : End(f, how)
    BY DEF Answer
  <1>2. pc[f] # "done" /\ how \in Results \ {"last", "slept"}
    BY DEF Answer, Results
  <1>3. QED
    BY <1>1, <1>2, EndKeeps DEF Answer

\* A wait that began ends before the deadline.
LEMMA WakeKeeps ==
    ASSUME IInv, NEW f \in Fetches, Wake(f)
    PROVE  Frame' /\ Sound(f)'
  <1>1. Frame /\ Sound(f) /\ Typed(f)
    BY InvParts, InvFrame
  <1>2. now # deadline[f]
    BY <1>1 DEF Wake, Sound, Typed
  <1>3. Go(f, "reserve") /\ UNCHANGED <<result, ended>>
    BY <1>2 DEF Wake
  <1>4. Frame'
    BY <1>1, <1>3 DEF Wake, Go, requests, Frame, Stages
  <1>5. pc'[f] = "reserve" /\ pc[f] = "sleep"
    BY <1>1, <1>3 DEF Wake, Go, Frame
  <1>6. QED
    BY <1>1, <1>3, <1>4, <1>5 DEF Wake, Sound

\* What is kept of an announced wait, and the time the origin allows.
LEMMA AnnouncedWait ==
    ASSUME NEW secs \in Announced
    PROVE  /\ ParseRetryAfter(secs) \in Int /\ ParseRetryAfter(secs) <= MaxRetryAfter
           /\ Least(secs * Second, MaxRetryAfter) \in Nat
           /\ secs * Second <= IntMax => ParseRetryAfter(secs) = Least(secs * Second, MaxRetryAfter)
  <1>1. secs * Second \in Nat
    BY TimesAssumption, Parameters, Product
  <1>2. Wrap(secs * Second) \in Int
    BY <1>1, WrapIsInt
  <1>3. secs * Second <= IntMax => Wrap(secs * Second) = secs * Second
    BY <1>1, WrapFits
  <1>4. QED
    BY <1>1, <1>2, <1>3, Parameters DEF ParseRetryAfter, Least

LEMMA AnswerRetryableKeeps ==
    ASSUME IInv, NEW f \in Fetches, AnswerRetryable(f)
    PROVE  Frame' /\ Sound(f)'
  <1>1. Frame /\ Sound(f) /\ Typed(f)
    BY InvParts, InvFrame
  <1>2. PICK secs \in Announced :
          /\ retryAfter' = [retryAfter EXCEPT ![f] = ParseRetryAfter(secs)]
          /\ allowed' = [allowed EXCEPT ![f] = now + Least(secs * Second, MaxRetryAfter)]
          /\ fits' = [fits EXCEPT ![f] = secs * Second <= IntMax]
    BY DEF AnswerRetryable
  <1>3. /\ ParseRetryAfter(secs) \in Int /\ ParseRetryAfter(secs) <= MaxRetryAfter
        /\ now + Least(secs * Second, MaxRetryAfter) \in Nat
    BY <1>1, AnnouncedWait DEF Typed
  <1>4. Frame'
    <2>1. fits' \in [Fetches -> BOOLEAN]
      BY <1>1, <1>2 DEF Frame
    <2>2. QED
      BY <1>1, <1>2, <1>3, <2>1 DEF AnswerRetryable, Go, Frame, Stages
  <1>5. Sound(f)'
    BY <1>1, <1>2, <1>3 DEF AnswerRetryable, Go, Frame, Sound
  <1>6. QED
    BY <1>4, <1>5

LEMMA RetryKeeps ==
    ASSUME IInv, NEW f \in Fetches, Retry(f)
    PROVE  Frame' /\ Sound(f)'
  <1>1. Frame /\ Sound(f) /\ Typed(f) /\ pc[f] = "failed"
    BY InvParts, InvFrame DEF Retry
  <1>2. PICK wait \in Waits(f) :
          \/ /\ attempt[f] = MaxAttempts \/ deadline[f] - now <= wait
             /\ End(f, "last") /\ UNCHANGED due
          \/ /\ attempt[f] < MaxAttempts /\ deadline[f] - now > wait
             /\ Go(f, "sleep")
             /\ due' = [due EXCEPT ![f] = Least(now + wait, deadline[f])]
             /\ UNCHANGED <<result, ended>>
    BY DEF Retry
  <1>3. wait \in Nat /\ (attempt[f] < MaxAttempts => wait <= Longest)
    BY <1>1, WaitBounds DEF IInv
  <1>4. Longest \in Int
    <2>1. MaxAttempts \in 0..MaxAttempts
      BY Parameters
    <2>2. QED
      BY <2>1, BackoffAssumption, Parameters DEF Longest, Greatest
  <1>5. /\ UNCHANGED <<now, deadline, attempt, hops, limit, retryAfter, full, requests>>
        /\ Least(now + wait, deadline[f]) \in Nat
    BY <1>1, <1>3 DEF Retry, Least, Typed
  <1>6. CASE End(f, "last") /\ UNCHANGED due
            /\ (attempt[f] = MaxAttempts \/ deadline[f] - now <= wait)
    <2>1. Frame'
      BY <1>1, <1>5, <1>6 DEF End, Go, requests, Frame, Typed, Stages, Results
    <2>2. pc'[f] = "done" /\ result'[f] = "last" /\ ended'[f] = now
      BY <1>1, <1>6 DEF End, Go, Frame
    <2>3. attempt[f] < MaxAttempts => deadline[f] - now <= Longest
      BY <1>1, <1>3, <1>4, <1>6, Parameters DEF Typed
    <2>4. QED
      BY <1>1, <1>5, <2>1, <2>2, <2>3 DEF Sound
  <1>7. CASE /\ attempt[f] < MaxAttempts /\ deadline[f] - now > wait
             /\ Go(f, "sleep")
             /\ due' = [due EXCEPT ![f] = Least(now + wait, deadline[f])]
             /\ UNCHANGED <<result, ended>>
    <2>1. Frame'
      BY <1>1, <1>5, <1>7 DEF Go, requests, Frame, Stages
    <2>2. pc'[f] = "sleep" /\ due'[f] = Least(now + wait, deadline[f])
      BY <1>1, <1>7 DEF Go, Frame
    <2>3. due'[f] < deadline[f]
      BY <1>1, <1>3, <1>7, <2>2 DEF Least, Typed
    <2>4. QED
      BY <1>1, <1>5, <1>7, <2>1, <2>2, <2>3 DEF Sound, Typed
  <1>8. QED
    BY <1>2, <1>6, <1>7

LEMMA TickKeeps ==
    ASSUME IInv, Tick
    PROVE  IInv' /\ now' > now
  <1>1. Frame /\ \A f \in Fetches : Sound(f) /\ Typed(f)
    BY InvParts, InvFrame
  <1>2. PICK h \in Waiting : now' = due[h] /\ \A g \in Waiting : due[h] <= due[g]
    BY DEF Tick
  <1>3. h \in Fetches /\ due[h] > now /\ now' \in Nat /\ now' > now
    BY <1>1, <1>2 DEF Waiting, Typed
  <1>4. UNCHANGED <<progress, full, history>>
    BY DEF Tick
  <1>5. Frame'
    BY <1>1, <1>3, <1>4 DEF progress, history, requests, Frame
  <1>6. ASSUME NEW f \in Fetches PROVE Sound(f)'
    <2>1. pc[f] \notin {"idle", "done"} => f \in Waiting
      BY DEF Tick, Ready
    <2>2. pc[f] \notin {"idle", "done"} => now' <= deadline[f]
      BY <1>1, <1>2, <1>3, <2>1 DEF Sound, Typed
    <2>3. QED
      BY <1>1, <1>4, <2>2 DEF progress, history, requests, Sound
  <1>7. QED
    BY <1>3, <1>5, <1>6, PartsInv

LEMMA StepKeeps ==
    ASSUME IInv, NEW f \in Fetches, Start(f) \/ Step(f)
    PROVE  IInv'
  <1>1. Frame' /\ Sound(f)'
    BY StartKeeps, ReserveKeeps, RequestKeeps, RedirectKeeps, AnswerKeeps, AnswerRetryableKeeps,
       RetryKeeps, WakeKeeps DEF Step
  <1>2. ASSUME NEW g \in Fetches, g # f PROVE Sound(g)'
    BY <1>2, OthersStay, InvParts DEF IInv, Sound
  <1>3. QED
    BY <1>1, <1>2, PartsInv

LEMMA NextKeeps == IInv /\ [Next]_vars => IInv'
  <1> SUFFICES ASSUME IInv, [Next]_vars PROVE IInv'
    OBVIOUS
  <1>1. CASE UNCHANGED vars
    BY <1>1 DEF vars, progress, history, requests, IInv, TypeOK, StageInv, GivesUpOnlyWhenItMust
  <1>2. CASE Next
    BY <1>1, <1>2, StepKeeps, TickKeeps DEF Next, AllDone
  <1>3. QED
    BY <1>1, <1>2

\* Types: no fetch makes more than its attempts or lives past its deadline, for
\* any bucket and answers.
THEOREM TypesHold == Spec => []TypeOK
  <1>1. Init => IInv
    BY InitInv
  <1>2. IInv => TypeOK
    BY DEF IInv
  <1>3. QED
    BY <1>1, <1>2, NextKeeps, PTL DEF Spec

\* GivesUpOnlyWhenItMust: for any back-off and cap, and announced waits that
\* overflow or not, the loop of client.go:160-193 neither sleeps into the
\* deadline nor ends early with more time left than the longest wait.
THEOREM NeverGivesUpEarly == Spec => []GivesUpOnlyWhenItMust
  <1>1. Init => IInv
    BY InitInv
  <1>2. IInv => GivesUpOnlyWhenItMust
    BY DEF IInv
  <1>3. QED
    BY <1>1, <1>2, NextKeeps, PTL DEF Spec

-----------------------------------------------------------------------------
(* What the origin announced *)

LEMMA StepKeepsFloor ==
    ASSUME IInv, FloorInv, NEW f \in Fetches, Start(f) \/ Step(f)
    PROVE  FloorInv'
  <1>1. Frame /\ \A g \in Fetches : Sound(g) /\ Typed(g)
    BY InvParts, InvFrame
  <1> DEFINE Floor(g) ==
        fits[g] = TRUE =>
            /\ pc[g] \in {"reserve", "token", "request"} => now >= allowed[g]
            /\ pc[g] = "sleep" => due[g] >= allowed[g]
            /\ pc[g] = "failed" => now + retryAfter[g] >= allowed[g]
  <1>2. \A g \in Fetches : Floor(g)
    BY DEF FloorInv
  <1>3. ASSUME NEW g \in Fetches, g # f PROVE Floor(g)'
    BY <1>2, <1>3, OthersStay DEF IInv
  <1>4. CASE Start(f)
    <2>1. pc'[f] = "reserve" /\ allowed'[f] = 0 /\ now' = now /\ now \in Nat
      BY <1>1, <1>4 DEF Start, Go, history, requests, Frame, Sound, Typed
    <2>2. Floor(f)'
      BY <2>1
    <2>3. QED
      BY <1>3, <2>2 DEF FloorInv
  <1>5. CASE Reserve(f)
    <2>1. /\ pc[f] = "reserve" /\ pc'[f] \in {"token", "done"}
          /\ allowed' = allowed /\ fits' = fits /\ now' = now
      BY <1>1, <1>5 DEF Reserve, End, Go, requests, Frame
    <2>2. Floor(f)'
      BY <1>2, <2>1
    <2>3. QED
      BY <1>3, <2>2 DEF FloorInv
  <1>6. CASE Request(f) \/ Redirect(f) \/ Answer(f)
    <2>1. /\ pc[f] \in {"token", "request"} /\ pc'[f] \in {"request", "done"}
          /\ allowed' = allowed /\ fits' = fits /\ now' = now
      BY <1>1, <1>6 DEF Request, Attempt, Redirect, Answer, End, Go, requests, Frame
    <2>2. Floor(f)'
      BY <1>2, <2>1
    <2>3. QED
      BY <1>3, <2>2 DEF FloorInv
  <1>7. CASE AnswerRetryable(f)
    <2>1. PICK secs \in Announced :
            /\ retryAfter' = [retryAfter EXCEPT ![f] = ParseRetryAfter(secs)]
            /\ allowed' = [allowed EXCEPT ![f] = now + Least(secs * Second, MaxRetryAfter)]
            /\ fits' = [fits EXCEPT ![f] = secs * Second <= IntMax]
      BY <1>7 DEF AnswerRetryable
    <2>2. /\ fits'[f] = (secs * Second <= IntMax)
          /\ secs * Second <= IntMax => ParseRetryAfter(secs) = Least(secs * Second, MaxRetryAfter)
      BY <1>1, <2>1, AnnouncedWait DEF Frame
    <2>3. Least(secs * Second, MaxRetryAfter) \in Nat /\ now \in Nat
      BY <1>1, AnnouncedWait DEF Typed
    <2>4. /\ pc'[f] = "failed" /\ now' = now
          /\ fits'[f] = TRUE => retryAfter'[f] = Least(secs * Second, MaxRetryAfter)
          /\ allowed'[f] = now + Least(secs * Second, MaxRetryAfter)
      BY <1>1, <1>7, <2>1, <2>2 DEF AnswerRetryable, Go, Frame
    <2>5. Floor(f)'
      BY <2>3, <2>4
    <2>6. QED
      BY <1>3, <2>5 DEF FloorInv
  <1>8. CASE Retry(f)
    <2>1. PICK wait \in Waits(f) :
            \/ Go(f, "done")
            \/ /\ Go(f, "sleep") /\ deadline[f] - now > wait
               /\ due' = [due EXCEPT ![f] = Least(now + wait, deadline[f])]
      BY <1>8 DEF Retry, End
    <2>2. wait \in Nat /\ wait >= retryAfter[f] /\ pc[f] = "failed"
      BY <1>8, WaitBounds DEF Retry, IInv
    <2>3. allowed' = allowed /\ fits' = fits /\ now' = now
      BY <1>8 DEF Retry, requests
    <2>4. CASE Go(f, "done")
      BY <1>1, <1>3, <2>3, <2>4 DEF Go, Frame, FloorInv
    <2>5. CASE /\ Go(f, "sleep") /\ deadline[f] - now > wait
               /\ due' = [due EXCEPT ![f] = Least(now + wait, deadline[f])]
      <3>1. pc'[f] = "sleep" /\ due'[f] = Least(now + wait, deadline[f])
        BY <1>1, <2>5 DEF Go, Frame
      <3>2. due'[f] = now + wait
        BY <1>1, <2>2, <2>5, <3>1 DEF Least, Typed
      <3>3. Floor(f)'
        BY <1>1, <1>2, <2>2, <2>3, <3>1, <3>2 DEF Typed
      <3>4. QED
        BY <1>3, <3>3 DEF FloorInv
    <2>6. QED
      BY <2>1, <2>4, <2>5
  <1>9. CASE Wake(f)
    <2>1. /\ pc[f] = "sleep" /\ due[f] = now /\ pc'[f] \in {"reserve", "done"}
          /\ allowed' = allowed /\ fits' = fits /\ now' = now
      BY <1>1, <1>9 DEF Wake, End, Go, requests, Frame
    <2>2. Floor(f)'
      BY <1>2, <2>1
    <2>3. QED
      BY <1>3, <2>2 DEF FloorInv
  <1>10. QED
    BY <1>4, <1>5, <1>6, <1>7, <1>8, <1>9 DEF Step

LEMMA NextKeepsFloor == IInv /\ FloorInv /\ [Next]_vars => FloorInv'
  <1> SUFFICES ASSUME IInv, FloorInv, [Next]_vars PROVE FloorInv'
    OBVIOUS
  <1>1. CASE UNCHANGED vars
    BY <1>1 DEF vars, progress, history, requests, FloorInv
  <1>2. CASE Tick
    <2>1. \A f \in Fetches : pc[f] # "failed"
      BY <1>2 DEF Tick, Ready, Waiting
    <2>2. UNCHANGED <<pc, due, retryAfter, allowed, fits>> /\ now' > now
      BY <1>2, TickKeeps DEF Tick, progress, history, requests
    <2>3. \A f \in Fetches : allowed[f] \in Nat
      BY DEF IInv, TypeOK
    <2>4. now \in Nat /\ now' \in Nat
      BY <1>2, TickKeeps DEF IInv, TypeOK
    <2>5. QED
      BY <2>1, <2>2, <2>3, <2>4 DEF FloorInv
  <1>3. CASE \E f \in Fetches : Start(f) \/ Step(f)
    BY <1>3, StepKeepsFloor
  <1>4. QED
    BY <1>1, <1>2, <1>3 DEF Next, AllDone

\* A fetch counts an attempt or a redirect only when it makes one.
LEMMA RequestsAreAllowed ==
    FloorInv /\ IInv /\ [Next]_vars
        => [\A f \in Fetches :
               /\ attempt'[f] # attempt[f] \/ hops'[f] # hops[f]
               /\ fits[f]
               => now >= allowed[f]]_vars
  <1> SUFFICES ASSUME FloorInv, IInv, Next, NEW g \in Fetches,
                      attempt'[g] # attempt[g] \/ hops'[g] # hops[g], fits[g]
               PROVE  now >= allowed[g]
    OBVIOUS
  <1>1. PICK f \in Fetches : Request(f) \/ Redirect(f)
    BY DEF Next, Step, Start, Reserve, Answer, AnswerRetryable, Retry, Wake, Tick, AllDone, vars,
       progress
  <1>2. f = g
    BY <1>1, OthersStay DEF Step, IInv
  <1>3. fits[g] = TRUE
    BY DEF IInv, TypeOK
  <1>4. QED
    BY <1>1, <1>2, <1>3 DEF Request, Attempt, Redirect, FloorInv

\* RetryAfterHonoured: for any bucket, back-off, deadline and number of
\* fetches, and announced waits that overflow or not, a wait that a duration
\* can hold is a floor for the next request (client.go:148-149).
THEOREM RetryAfterIsFloor == Spec => RetryAfterHonoured
  <1>1. Init => IInv /\ FloorInv
    BY InitInv
  <1>2. IInv /\ FloorInv /\ [Next]_vars => FloorInv'
    BY NextKeepsFloor
  <1>3. QED
    BY <1>1, <1>2, NextKeeps, RequestsAreAllowed, PTL DEF Spec, RetryAfterHonoured

-----------------------------------------------------------------------------
(* The bucket *)

\* The fetches that hold a token whose time has not come.
Tokens == {f \in Fetches : pc[f] = "token"}

\* The requests made, and those that have a token, at some times.
SentAt(S) == {i \in 1..Len(sent) : sent[i] \in S}
HeldAt(S) == {f \in Tokens : due[f] \in S}
Count(S) == Cardinality(SentAt(S)) + Cardinality(HeldAt(S))

Times == {sent[i] : i \in 1..Len(sent)} \cup {due[f] : f \in Tokens}
From(a) == {t \in Nat : t >= a}

\* What a full bucket holds and n tokens are, as the time that gains them.
Room == Burst * Interval
Gain(n) == Interval * n

\* A request that has its token is as good as made: from any such time on, the
\* bucket has given as many tokens as there are requests, and is full again
\* only when it has gained them; and none is later than the bucket allows.
OrderInv ==
    /\ IsFiniteSet(Tokens)
    /\ \A i \in 1..Len(sent) : sent[i] <= now
    /\ \A i, j \in 1..Len(sent) : i <= j => sent[i] <= sent[j]
    /\ \A f \in Tokens : due[f] >= now
    /\ \A t \in Times : t <= now \/ t <= full - Room
GivenInv == \A a \in Times : full >= a + Gain(Count(From(a)))
SpacedInv == \A a, b \in Times : a <= b => b - a + Room >= Gain(Count(a..b))
BucketInv == OrderInv /\ GivenInv /\ SpacedInv

LEMMA Gains ==
    /\ Room \in Nat /\ Room >= Interval /\ Interval \in Nat \ {0}
    /\ \A n \in Nat : Gain(n) \in Nat /\ Gain(n + 1) = Gain(n) + Interval
    /\ Gain(0) = 0 /\ Gain(1) = Interval
  <1>1. Interval \in Nat \ {0} /\ Burst \in Nat \ {0}
    BY Parameters
  <1>2. \A a, b \in Nat \ {0} : a * b \in Nat /\ a * b >= b
    <2> SUFFICES ASSUME NEW b \in Nat \ {0} PROVE \A a \in Nat \ {0} : a * b \in Nat /\ a * b >= b
      OBVIOUS
    <2> DEFINE T == {n \in Nat : (n + 1) * b \in Nat /\ (n + 1) * b >= b}
    <2>1. 0 \in T
      OBVIOUS
    <2>2. ASSUME NEW n \in Nat, n \in T PROVE n + 1 \in T
      <3>1. ((n + 1) + 1) * b = (n + 1) * b + b
        OBVIOUS
      <3>2. QED
        BY <2>2, <3>1
    <2> HIDE DEF T
    <2>3. \A n \in Nat : n \in T
      BY <2>1, <2>2, Induction
    <2>4. \A a \in Nat \ {0} : a - 1 \in Nat /\ (a - 1) + 1 = a
      OBVIOUS
    <2>5. QED
      BY <2>3, <2>4 DEF T
  <1>3. \A n \in Nat : Interval * n \in Nat /\ Interval * (n + 1) = Interval * n + Interval
    BY <1>1
  <1>4. QED
    BY <1>1, <1>2, <1>3 DEF Room, Gain

LEMMA GainGrows == ASSUME NEW m \in Nat, NEW n \in Nat, m <= n PROVE Gain(m) <= Gain(n)
  <1> DEFINE T == {k \in Nat : Gain(m) <= Gain(m + k)}
  <1>1. 0 \in T
    BY Gains
  <1>2. ASSUME NEW k \in Nat, k \in T PROVE k + 1 \in T
    <2>1. m + k \in Nat /\ m + (k + 1) = (m + k) + 1
      OBVIOUS
    <2>2. Gain((m + k) + 1) = Gain(m + k) + Interval /\ Gain(m + k) \in Nat /\ Gain(m) \in Nat
      BY <2>1, Gains
    <2>3. QED
      BY <1>2, <2>1, <2>2, Gains
  <1> HIDE DEF T
  <1>3. n - m \in Nat /\ m + (n - m) = n
    OBVIOUS
  <1>4. n - m \in T
    BY <1>1, <1>2, <1>3, Induction
  <1>5. QED
    BY <1>3, <1>4 DEF T

\* Tokens gained in a stretch of time, by division.
LEMMA GainDivides ==
    ASSUME NEW n \in Nat, NEW D \in Nat, D + Room >= Gain(n)
    PROVE  n <= Burst + D \div Interval
  <1> DEFINE q == D \div Interval
  <1>1. \A a \in Nat, b \in Nat \ {0} : a \div b \in Nat /\ a < b * (a \div b + 1)
    BY SMT
  <1>2. q \in Nat /\ D < Gain(q + 1)
    BY <1>1, Gains DEF Gain
  <1> HIDE DEF q
  <1>3. Burst \in Nat /\ Interval \in Nat
    BY Parameters
  <1>4. \A a, b, c \in Nat : c * a + c * b = c * (a + b) /\ a * c = c * a
    OBVIOUS
  <1>5. Gain(q + 1) + Room = Gain(q + 1 + Burst)
    BY <1>2, <1>3, <1>4 DEF Gain, Room
  <1>6. CASE n <= Burst + q
    BY <1>6 DEF q
  <1>7. CASE n > Burst + q
    <2>1. Gain(q + 1 + Burst) <= Gain(n)
      BY <1>2, <1>3, <1>7, GainGrows
    <2>2. Gain(q + 1) \in Nat /\ Gain(n) \in Nat /\ Gain(q + 1 + Burst) \in Nat /\ Room \in Nat
      BY <1>2, <1>3, Gains
    <2>3. QED
      BY <1>2, <1>5, <2>1, <2>2
  <1>8. QED
    BY <1>2, <1>3, <1>6, <1>7

LEMMA Counted ==
    ASSUME Frame, IsFiniteSet(Tokens)
    PROVE  /\ Len(sent) \in Nat /\ \A i \in 1..Len(sent) : sent[i] \in Nat
           /\ Times \subseteq Nat
           /\ \A S : /\ IsFiniteSet(SentAt(S)) /\ IsFiniteSet(HeldAt(S)) /\ Count(S) \in Nat
                     /\ Cardinality(SentAt(S)) \in Nat /\ Cardinality(HeldAt(S)) \in Nat
  <1>1. Len(sent) \in Nat /\ \A i \in 1..Len(sent) : sent[i] \in Nat
    BY DEF Frame
  <1>2. Times \subseteq Nat
    BY <1>1 DEF Frame, Times, Tokens
  <1>3. ASSUME NEW S
        PROVE  /\ IsFiniteSet(SentAt(S)) /\ IsFiniteSet(HeldAt(S))
    <2>1. IsFiniteSet(1..Len(sent))
      BY <1>1, FS_Interval
    <2>2. SentAt(S) \subseteq 1..Len(sent) /\ HeldAt(S) \subseteq Tokens
      BY DEF SentAt, HeldAt
    <2>3. QED
      BY <2>1, <2>2, FS_Subset
  <1>4. QED
    BY <1>1, <1>2, <1>3, FS_CardinalityType DEF Count

\* Fewer times, fewer requests.
LEMMA CountGrows ==
    ASSUME Frame, IsFiniteSet(Tokens), NEW S, NEW R, \A t \in Times : t \in S => t \in R
    PROVE  Count(S) <= Count(R)
  <1>1. SentAt(S) \subseteq SentAt(R) /\ HeldAt(S) \subseteq HeldAt(R)
    BY DEF SentAt, HeldAt, Times
  <1>2. Cardinality(SentAt(S)) <= Cardinality(SentAt(R)) /\ Cardinality(HeldAt(S)) <= Cardinality(HeldAt(R))
    BY <1>1, Counted, FS_Subset
  <1>3. QED
    BY <1>2, Counted DEF Count

LEMMA CountNone ==
    ASSUME NEW S, \A t \in Times : t \notin S
    PROVE  Count(S) = 0
  <1>1. SentAt(S) = {} /\ HeldAt(S) = {}
    BY DEF SentAt, HeldAt, Times
  <1>2. QED
    BY <1>1, FS_EmptySet DEF Count

\* Steps that neither take a token nor make a request.
LEMMA BucketStays ==
    ASSUME BucketInv, Tokens' = Tokens, \A f \in Tokens : due'[f] = due[f], UNCHANGED <<sent, now, full>>
    PROVE  BucketInv'
  <1>1. \A S : SentAt(S)' = SentAt(S) /\ HeldAt(S)' = HeldAt(S)
    BY DEF SentAt, HeldAt
  <1>2. \A S : Count(S)' = Count(S)
    BY <1>1 DEF Count
  <1>3. Times' = Times
    BY DEF Times
  <1>4. OrderInv'
    BY <1>3 DEF BucketInv, OrderInv
  <1>5. GivenInv'
    BY <1>2, <1>3 DEF BucketInv, GivenInv
  <1>6. SpacedInv'
    BY <1>2, <1>3 DEF BucketInv, SpacedInv
  <1>7. QED
    BY <1>4, <1>5, <1>6 DEF BucketInv

LEMMA TickKeepsBucket ==
    ASSUME IInv, BucketInv, Tick
    PROVE  BucketInv'
  <1>1. Frame /\ now' \in Nat /\ now' > now /\ now \in Nat
    BY InvFrame, TickKeeps DEF Frame, IInv, TypeOK
  <1>2. UNCHANGED <<pc, due, sent, full>>
    BY DEF Tick, progress, history, requests
  <1>3. Tokens' = Tokens /\ Times' = Times
    BY <1>2 DEF Tokens, Times
  <1>4. \A S : Count(S)' = Count(S)
    BY <1>2, <1>3 DEF Count, SentAt, HeldAt
  <1>5. \A f \in Tokens : due[f] >= now'
    <2>1. PICK h \in Waiting : now' = due[h] /\ \A g \in Waiting : due[h] <= due[g]
      BY DEF Tick
    <2>2. \A f \in Tokens : f \in Waiting
      BY DEF Tokens, Tick, Ready
    <2>3. \A f \in Tokens : due[f] \in Nat
      BY <1>1 DEF Frame, Tokens
    <2>4. QED
      BY <1>1, <2>1, <2>2, <2>3
  <1>6. Len(sent) \in Nat /\ (\A i \in 1..Len(sent) : sent[i] \in Nat) /\ Times \subseteq Nat
    BY <1>1, Counted DEF BucketInv, OrderInv
  <1>7. OrderInv'
    <2>1. \A i \in 1..Len(sent) : sent[i] <= now'
      BY <1>1, <1>6 DEF BucketInv, OrderInv
    <2>2. \A t \in Times : t <= now' \/ t <= full - Room
      <3> SUFFICES ASSUME NEW t \in Times PROVE t <= now' \/ t <= full - Room
        OBVIOUS
      <3>1. t \in Nat /\ (t <= now \/ t <= full - Room)
        BY <1>6 DEF BucketInv, OrderInv
      <3>2. QED
        BY <1>1, <3>1
    <2>3. QED
      BY <1>2, <1>3, <1>5, <2>1, <2>2 DEF BucketInv, OrderInv
  <1>8. GivenInv'
    BY <1>2, <1>3, <1>4 DEF BucketInv, GivenInv
  <1>9. SpacedInv'
    BY <1>3, <1>4 DEF BucketInv, SpacedInv
  <1>10. QED
    BY <1>7, <1>8, <1>9 DEF BucketInv

\* A request is made at the time of its token.
LEMMA RequestKeepsBucket ==
    ASSUME IInv, BucketInv, NEW f \in Fetches, Request(f)
    PROVE  BucketInv'
  <1>1. Frame /\ IsFiniteSet(Tokens) /\ now \in Nat /\ pc \in [Fetches -> Stages]
    BY InvFrame DEF BucketInv, OrderInv, Frame
  <1>2. PICK n : n = Len(sent) /\ n \in Nat
    BY <1>1, Counted
  <1>3. /\ sent \in Seq(Nat) /\ sent' = Append(sent, now) /\ UNCHANGED <<now, full>>
        /\ f \in Tokens /\ due[f] = now
    BY <1>1 DEF Request, Attempt, Frame, Tokens
  <1>4. /\ Len(sent') = n + 1 /\ sent'[n + 1] = now
        /\ \A i \in 1..n : sent'[i] = sent[i]
    BY <1>1, <1>2, <1>3
  <1>5. Tokens' = Tokens \ {f}
    BY <1>1, <1>3 DEF Request, Attempt, Go, Tokens, Stages
  <1>6. \A g \in Tokens \ {f} : due'[g] = due[g]
    BY OthersStay DEF Tokens, Step, IInv
  <1>7. Times' = Times
    <2>1. 1..(n + 1) = 1..n \cup {n + 1}
      BY <1>2
    <2>2. {sent'[i] : i \in 1..(n + 1)} = {sent[i] : i \in 1..n} \cup {now}
      BY <1>4, <2>1
    <2>3. {due'[g] : g \in Tokens \ {f}} = {due[g] : g \in Tokens \ {f}}
      BY <1>6
    <2>4. {due[g] : g \in Tokens} = {due[g] : g \in Tokens \ {f}} \cup {now}
      BY <1>3
    <2>5. Times' = {sent'[i] : i \in 1..(n + 1)} \cup {due'[g] : g \in Tokens \ {f}}
      BY <1>4, <1>5 DEF Times
    <2>6. QED
      BY <1>2, <2>2, <2>3, <2>4, <2>5 DEF Times
  <1>8. ASSUME NEW S PROVE Count(S)' = Count(S)
    <2>1. SentAt(S)' = {i \in 1..(n + 1) : sent'[i] \in S}
      BY <1>4 DEF SentAt
    <2>2. HeldAt(S)' = HeldAt(S) \ {f}
      BY <1>5, <1>6 DEF HeldAt
    <2>3. /\ IsFiniteSet(SentAt(S)) /\ IsFiniteSet(HeldAt(S))
          /\ Cardinality(SentAt(S)) \in Nat /\ Cardinality(HeldAt(S)) \in Nat
      BY <1>1, Counted
    <2>4. CASE now \in S
      <3>1. SentAt(S)' = SentAt(S) \cup {n + 1} /\ n + 1 \notin SentAt(S)
        BY <1>2, <1>4, <2>1, <2>4 DEF SentAt
      <3>2. f \in HeldAt(S)
        BY <1>3, <2>4 DEF HeldAt
      <3>3. Cardinality(SentAt(S)') = Cardinality(SentAt(S)) + 1
        BY <2>3, <3>1, FS_AddElement
      <3>4. Cardinality(HeldAt(S)') = Cardinality(HeldAt(S)) - 1
        BY <2>2, <2>3, <3>2, FS_RemoveElement
      <3>5. QED
        BY <2>3, <3>3, <3>4 DEF Count
    <2>5. CASE now \notin S
      <3>1. SentAt(S)' = SentAt(S)
        BY <1>2, <1>4, <2>1, <2>5 DEF SentAt
      <3>2. HeldAt(S)' = HeldAt(S)
        BY <1>3, <2>2, <2>5 DEF HeldAt
      <3>3. QED
        BY <3>1, <3>2 DEF Count
    <2>6. QED
      BY <2>4, <2>5
  <1>9. OrderInv'
    <2>1. /\ \A i \in 1..n : sent[i] <= now /\ sent[i] \in Nat
          /\ \A i, j \in 1..n : i <= j => sent[i] <= sent[j]
      BY <1>1, <1>2, Counted DEF BucketInv, OrderInv
    <2>2. \A i \in 1..(n + 1) : sent'[i] <= now
      BY <1>1, <1>2, <1>4, <2>1
    <2>3. ASSUME NEW i \in 1..(n + 1), NEW j \in 1..(n + 1), i <= j PROVE sent'[i] <= sent'[j]
      <3>1. CASE j = n + 1
        BY <1>4, <2>2, <3>1
      <3>2. CASE j # n + 1
        <4>1. i \in 1..n /\ j \in 1..n
          BY <1>2, <2>3, <3>2
        <4>2. QED
          BY <1>4, <2>1, <2>3, <4>1
      <3>3. QED
        BY <3>1, <3>2
    <2>4. IsFiniteSet(Tokens')
      BY <1>1, <1>5, FS_Subset
    <2>5. \A g \in Tokens' : due'[g] >= now'
      BY <1>3, <1>5, <1>6 DEF BucketInv, OrderInv
    <2>6. \A t \in Times' : t <= now' \/ t <= full' - Room
      BY <1>3, <1>7 DEF BucketInv, OrderInv
    <2>7. QED
      BY <1>3, <1>4, <2>2, <2>3, <2>4, <2>5, <2>6 DEF OrderInv
  <1>10. GivenInv'
    BY <1>3, <1>7, <1>8 DEF BucketInv, GivenInv
  <1>11. SpacedInv'
    BY <1>7, <1>8 DEF BucketInv, SpacedInv
  <1>12. QED
    BY <1>9, <1>10, <1>11 DEF BucketInv

\* A token that is given is later than all others, or theirs is now too.
LEMMA ReserveKeepsBucket ==
    ASSUME IInv, BucketInv, NEW f \in Fetches, Reserve(f)
    PROVE  BucketInv'
  <1>1. Frame /\ IsFiniteSet(Tokens) /\ now \in Nat /\ full \in Nat /\ pc \in [Fetches -> Stages]
    BY InvFrame DEF BucketInv, OrderInv, Frame
  <1>2. PICK next, d : /\ next = Greatest(full, now) + Interval
                       /\ d = now + Greatest(0, next - now - Room)
    OBVIOUS
  <1>3. /\ next \in Nat /\ next >= full + Interval /\ next >= now + Interval
        /\ d \in Nat /\ d >= now /\ d >= next - Room /\ (d = now \/ d = next - Room)
    BY <1>1, <1>2, Gains DEF Greatest
  <1>4. /\ \/ End(f, "limited") /\ UNCHANGED <<due, full>>
           \/ Go(f, "token") /\ due' = [due EXCEPT ![f] = d] /\ full' = next
        /\ pc[f] = "reserve" /\ f \notin Tokens /\ UNCHANGED <<now, sent>>
    BY <1>2 DEF Reserve, requests, Room, Tokens
  <1>5. CASE End(f, "limited") /\ UNCHANGED <<due, full>>
    <2>1. Tokens' = Tokens
      BY <1>1, <1>4, <1>5 DEF End, Go, Tokens, Stages
    <2>2. QED
      BY <1>4, <1>5, <2>1, BucketStays
  <1>6. CASE Go(f, "token") /\ due' = [due EXCEPT ![f] = d] /\ full' = next
    <2>1. Tokens' = Tokens \cup {f}
      BY <1>1, <1>4, <1>6 DEF Go, Tokens, Stages
    <2>2. due'[f] = d /\ \A g \in Tokens : due'[g] = due[g]
      BY <1>1, <1>4, <1>6 DEF Frame, Tokens
    <2>3. Times' = Times \cup {d} /\ Times \subseteq Nat
      BY <1>1, <1>4, <2>1, <2>2, Counted DEF Times
    <2>4. IsFiniteSet(Tokens') /\ Frame'
      BY <1>1, <2>1, FS_AddElement, ReserveKeeps
    <2>5. \A t \in Times : t <= d
      <3> SUFFICES ASSUME NEW t \in Times PROVE t <= d
        OBVIOUS
      <3>1. t \in Nat /\ (t <= now \/ t <= full - Room)
        BY <2>3 DEF BucketInv, OrderInv
      <3>2. QED
        BY <1>1, <1>3, <3>1, Gains
    <2>6. ASSUME NEW S
          PROVE  /\ Count(S) \in Nat /\ Count(S)' \in Nat
                 /\ d \in S => Count(S)' = Count(S) + 1
                 /\ d \notin S => Count(S)' = Count(S)
      <3>1. SentAt(S)' = SentAt(S)
        BY <1>4 DEF SentAt
      <3>2. /\ IsFiniteSet(SentAt(S)) /\ IsFiniteSet(HeldAt(S)) /\ Count(S) \in Nat
            /\ Cardinality(SentAt(S)) \in Nat /\ Cardinality(HeldAt(S)) \in Nat
        BY <1>1, Counted
      <3>3. CASE d \in S
        <4>1. HeldAt(S)' = HeldAt(S) \cup {f} /\ f \notin HeldAt(S)
          BY <1>4, <2>1, <2>2, <3>3 DEF HeldAt
        <4>2. Cardinality(HeldAt(S)') = Cardinality(HeldAt(S)) + 1
          BY <3>2, <4>1, FS_AddElement
        <4>3. QED
          BY <3>1, <3>2, <3>3, <4>2 DEF Count
      <3>4. CASE d \notin S
        <4>1. HeldAt(S)' = HeldAt(S)
          BY <1>4, <2>1, <2>2, <3>4 DEF HeldAt
        <4>2. QED
          BY <3>1, <3>2, <3>4, <4>1 DEF Count
      <3>5. QED
        BY <3>3, <3>4
    <2>7. OrderInv'
      <3>1. \A g \in Tokens' : due'[g] >= now'
        BY <1>3, <1>4, <2>1, <2>2 DEF BucketInv, OrderInv
      <3>2. \A t \in Times' : t <= now' \/ t <= full' - Room
        <4> SUFFICES ASSUME NEW t \in Times' PROVE t <= now \/ t <= next - Room
          BY <1>4, <1>6
        <4>1. CASE t \in Times
          <5>1. t \in Nat /\ (t <= now \/ t <= full - Room)
            BY <2>3, <4>1 DEF BucketInv, OrderInv
          <5>2. QED
            BY <1>1, <1>3, <5>1, Gains
        <4>2. CASE t = d
          BY <1>3, <4>2, <1>1, Gains
        <4>3. QED
          BY <2>3, <4>1, <4>2
      <3>3. QED
        BY <1>4, <2>4, <3>1, <3>2 DEF BucketInv, OrderInv
    <2>8. ASSUME NEW a \in Times' PROVE next >= a + Gain(Count(From(a))')
      <3>1. PICK m \in Nat, k \in Nat : m = Count(From(a)) /\ k = Count(From(a))' /\ k <= m + 1
                                         /\ (a <= d => k = m + 1)
        <4>1. a <= d => d \in From(a)
          BY <1>3 DEF From
        <4>2. QED
          BY <2>6, <4>1
      <3>2. Gain(m) \in Nat /\ Gain(m + 1) = Gain(m) + Interval
        BY <3>1, Gains
      <3>3. Gain(k) \in Nat /\ Gain(k) <= Gain(m) + Interval
        BY <3>1, <3>2, GainGrows, Gains
      <3>4. CASE a \in Times
        <4>1. a \in Nat /\ full >= a + Gain(m)
          BY <2>3, <3>1, <3>4 DEF BucketInv, GivenInv
        <4>2. next >= a + Gain(k)
          BY <1>1, <1>3, <3>2, <3>3, <4>1, Gains
        <4>3. QED
          BY <3>1, <4>2
      <3>5. CASE a = d /\ a \notin Times
        <4>1. \A t \in Times : t \notin From(a)
          BY <1>3, <2>3, <2>5, <3>5 DEF From
        <4>2. m = 0 /\ k = 1
          BY <3>1, <3>5, <1>3, <4>1, CountNone
        <4>3. next >= d + Interval
          BY <1>1, <1>3, Gains
        <4>4. QED
          BY <3>1, <3>5, <4>2, <4>3, Gains
      <3>6. QED
        BY <2>3, <3>4, <3>5
    <2>9. GivenInv'
      BY <1>6, <2>8 DEF GivenInv
    <2>10. ASSUME NEW a \in Times', NEW b \in Times', a <= b
           PROVE  b - a + Room >= Gain(Count(a..b)')
      <3>1. a \in Nat /\ b \in Nat /\ a <= d /\ b <= d
        BY <1>3, <2>3, <2>5
      <3>2. CASE b = d
        <4>1. (\A t \in Times : t \in a..b => t \in From(a)) /\ d \in a..b /\ d \in From(a)
          BY <1>3, <2>3, <3>1, <3>2 DEF From
        <4>2. Count(a..b)' <= Count(From(a))'
          <5>1. Count(a..b) <= Count(From(a))
            BY <1>1, <4>1, CountGrows
          <5>2. /\ Count(a..b)' = Count(a..b) + 1 /\ Count(a..b) \in Nat
                /\ Count(From(a))' = Count(From(a)) + 1 /\ Count(From(a)) \in Nat
            BY <2>6, <4>1
          <5>3. QED
            BY <5>1, <5>2
        <4>3. Count(a..b)' \in Nat /\ Count(From(a))' \in Nat
          BY <2>6
        <4>4. Gain(Count(a..b)') <= Gain(Count(From(a))')
          BY <4>2, <4>3, GainGrows
        <4>5. next >= a + Gain(Count(From(a))')
          BY <2>8
        <4>6. Gain(Count(a..b)') \in Nat /\ Gain(Count(From(a))') \in Nat
          BY <4>3, Gains
        <4>7. QED
          <5>1. PICK g, h : g = Gain(Count(a..b)') /\ h = Gain(Count(From(a))')
            OBVIOUS
          <5>2. g \in Nat /\ h \in Nat /\ g <= h /\ next >= a + h
            BY <4>4, <4>5, <4>6, <5>1
          <5>3. b - a + Room >= g
            BY <1>3, <3>1, <3>2, <5>2, Gains
          <5>4. QED
            BY <5>1, <5>3
      <3>3. CASE b # d
        <4>1. a \in Times /\ b \in Times /\ d \notin a..b
          BY <1>3, <2>3, <2>10, <3>1, <3>3
        <4>2. Count(a..b)' = Count(a..b)
          BY <2>6, <4>1
        <4>3. QED
          BY <2>10, <4>1, <4>2 DEF BucketInv, SpacedInv
      <3>4. QED
        BY <3>2, <3>3
    <2>11. SpacedInv'
      BY <2>10 DEF SpacedInv
    <2>12. QED
      BY <2>7, <2>9, <2>11 DEF BucketInv
  <1>7. QED
    BY <1>4, <1>5, <1>6

LEMMA NextKeepsBucket == IInv /\ BucketInv /\ [Next]_vars => BucketInv'
  <1> SUFFICES ASSUME IInv, BucketInv, [Next]_vars PROVE BucketInv'
    OBVIOUS
  <1>1. CASE UNCHANGED vars
    BY <1>1, BucketStays DEF vars, progress, history, requests, Tokens
  <1>2. ASSUME NEW f \in Fetches,
               Start(f) \/ Redirect(f) \/ Answer(f) \/ AnswerRetryable(f) \/ Retry(f) \/ Wake(f)
        PROVE  BucketInv'
    <2>1. pc \in [Fetches -> Stages] /\ due \in [Fetches -> Nat]
      BY InvFrame DEF Frame
    <2>2. pc[f] # "token" /\ pc'[f] # "token" /\ UNCHANGED <<now, sent, full>>
      BY <1>2, <2>1 DEF Start, Redirect, Answer, AnswerRetryable, Retry, Wake, End, Go, history,
             requests
    <2>3. \A g \in Fetches : g # f => pc'[g] = pc[g] /\ due'[g] = due[g]
      BY <1>2, OthersStay DEF Step, IInv
    <2>4. Tokens' = Tokens /\ \A g \in Tokens : due'[g] = due[g]
      BY <2>2, <2>3 DEF Tokens
    <2>5. QED
      BY <2>2, <2>4, BucketStays
  <1>3. QED
    BY <1>1, <1>2, TickKeepsBucket, RequestKeepsBucket, ReserveKeepsBucket DEF Next, Step, AllDone

LEMMA BucketLimits ==
    ASSUME IInv, BucketInv
    PROVE  AttemptsLimited
  <1>1. Frame /\ IsFiniteSet(Tokens)
    BY InvFrame DEF BucketInv, OrderInv
  <1> SUFFICES ASSUME NEW i \in DOMAIN sent, NEW j \in DOMAIN sent, i < j
               PROVE  j - i + 1 <= Burst + (sent[j] - sent[i]) \div Interval
    BY DEF AttemptsLimited
  <1>2. PICK a, b : a = sent[i] /\ b = sent[j]
    OBVIOUS
  <1>3. i \in 1..Len(sent) /\ j \in 1..Len(sent) /\ Len(sent) \in Nat
    BY <1>1 DEF Frame
  <1>4. a \in Nat /\ b \in Nat /\ a <= b /\ a \in Times /\ b \in Times
    BY <1>1, <1>2, <1>3, Counted DEF BucketInv, OrderInv, Times
  <1>5. b - a + Room >= Gain(Count(a..b))
    BY <1>4 DEF BucketInv, SpacedInv
  <1>6. j - i + 1 <= Count(a..b)
    <2>1. i..j \subseteq SentAt(a..b)
      <3> SUFFICES ASSUME NEW k \in i..j PROVE k \in SentAt(a..b)
        OBVIOUS
      <3>1. k \in 1..Len(sent) /\ i <= k /\ k <= j
        BY <1>3
      <3>2. a <= sent[k] /\ sent[k] <= b /\ sent[k] \in Nat
        BY <1>1, <1>2, <1>3, <3>1, Counted DEF BucketInv, OrderInv
      <3>3. QED
        BY <1>4, <3>1, <3>2 DEF SentAt
    <2>2. IsFiniteSet(i..j) /\ Cardinality(i..j) = j - i + 1
      <3>1. i \in Int /\ j \in Int /\ ~(i > j)
        BY <1>3
      <3>2. QED
        BY <3>1, FS_Interval
    <2>3. /\ IsFiniteSet(SentAt(a..b)) /\ Cardinality(SentAt(a..b)) \in Nat
          /\ Cardinality(HeldAt(a..b)) \in Nat
      BY <1>1, Counted
    <2>4. j - i + 1 <= Cardinality(SentAt(a..b))
      BY <2>1, <2>2, <2>3, FS_Subset
    <2>5. QED
      BY <1>3, <2>3, <2>4 DEF Count
  <1>7. Count(a..b) \in Nat /\ j - i + 1 \in Nat
    BY <1>1, <1>3, Counted
  <1>8. Gain(j - i + 1) <= Gain(Count(a..b))
    BY <1>6, <1>7, GainGrows
  <1>9. b - a \in Nat /\ (b - a) + Room >= Gain(j - i + 1)
    <2>1. PICK g, h : g = Gain(j - i + 1) /\ h = Gain(Count(a..b))
      OBVIOUS
    <2>2. g \in Nat /\ h \in Nat /\ g <= h /\ b - a + Room >= h
      BY <1>5, <1>7, <1>8, <2>1, Gains
    <2>3. b - a \in Nat /\ (b - a) + Room >= g
      BY <1>4, <2>2, Gains
    <2>4. QED
      BY <2>1, <2>3
  <1>10. j - i + 1 <= Burst + (b - a) \div Interval
    BY <1>7, <1>9, GainDivides
  <1>11. QED
    BY <1>2, <1>10

LEMMA InitBucket == Init => BucketInv
  <1> SUFFICES ASSUME Init PROVE BucketInv
    OBVIOUS
  <1>1. Tokens = {} /\ Len(sent) = 0
    BY DEF Init, Tokens
  <1>2. Times = {}
    BY <1>1 DEF Times
  <1>3. QED
    BY <1>1, <1>2, FS_EmptySet DEF BucketInv, OrderInv, GivenInv, SpacedInv

-----------------------------------------------------------------------------
(* The redirects *)

\* What an attempt under way has asked for so far.
UnderWay(f) ==
    /\ current[f] \in 1..Len(sent) /\ hops[f] \in 1..MaxHops
    /\ limit[f] = sent[current[f]] + ClientTimeout
    /\ sent[current[f]] <= now /\ now <= limit[f] /\ due[f] <= limit[f]
    /\ \A r \in asked : r.attempt = current[f] => r.hop <= hops[f]

\* An attempt belongs to one fetch; its requests are numbered, and come within
\* the client's time from its beginning.
HopInv ==
    /\ \A f \in Fetches : pc[f] = "request" => UnderWay(f)
    /\ \A f, g \in Fetches :
          pc[f] = "request" /\ pc[g] = "request" /\ current[f] = current[g] => f = g
    /\ \A r \in asked :
          /\ r.attempt \in 1..Len(sent) /\ r.hop \in 1..MaxHops
          /\ sent[r.attempt] <= r.at /\ r.at <= sent[r.attempt] + ClientTimeout
    /\ \A q, r \in asked : q.attempt = r.attempt /\ q.hop = r.hop => q = r

LEMMA InitHops == Init => HopInv
  BY DEF Init, HopInv

\* Steps of fetches that ask for nothing.
LEMMA HopsStay ==
    ASSUME HopInv, UNCHANGED <<now, sent, asked>>,
           \A f \in Fetches :
              pc'[f] = "request" => /\ pc[f] = "request" /\ current'[f] = current[f]
                                   /\ hops'[f] = hops[f] /\ limit'[f] = limit[f]
                                   /\ due'[f] = due[f]
    PROVE  HopInv'
  BY DEF HopInv, UnderWay

LEMMA TickKeepsHops ==
    ASSUME IInv, HopInv, Tick
    PROVE  HopInv'
  <1>1. Frame /\ now' \in Nat
    BY InvFrame, TickKeeps DEF Frame, IInv, TypeOK
  <1>2. UNCHANGED <<pc, due, sent, current, asked, hops, limit>>
    BY DEF Tick, progress, history, requests
  <1>3. ASSUME NEW f \in Fetches, pc[f] = "request"
        PROVE  now' <= limit[f] /\ sent[current[f]] <= now'
    <2>1. PICK h \in Waiting : now' = due[h] /\ \A g \in Waiting : due[h] <= due[g]
      BY DEF Tick
    <2>2. f \in Waiting
      BY <1>3 DEF Tick, Ready
    <2>3. due[f] <= limit[f] /\ due[f] \in Nat /\ limit[f] \in Nat
      BY <1>1, <1>3 DEF HopInv, UnderWay, Frame
    <2>4. sent[current[f]] <= now /\ sent[current[f]] \in Nat
      BY <1>1, <1>3 DEF HopInv, UnderWay, Frame
    <2>5. now \in Nat /\ now' > now
      BY <1>1, TickKeeps DEF Frame
    <2>6. now' <= due[f] /\ now' \in Nat
      BY <1>1, <2>1, <2>2
    <2>7. QED
      BY <2>3, <2>4, <2>5, <2>6
  <1>4. QED
    BY <1>2, <1>3 DEF HopInv, UnderWay

LEMMA RequestKeepsHops ==
    ASSUME IInv, HopInv, NEW f \in Fetches, Request(f)
    PROVE  HopInv'
  <1>1. Frame /\ Typed(f) /\ now \in Nat /\ MaxHops \in Nat \ {0} /\ ClientTimeout \in Nat
    BY InvFrame, InvParts, Parameters DEF Frame
  <1>2. PICK n : n = Len(sent) /\ n \in Nat
    <2>1. Len(sent) \in Nat
      BY <1>1 DEF Frame
    <2>2. QED
      BY <2>1
  <1>3. PICK new : new = [attempt |-> n + 1, hop |-> 1, at |-> now]
    OBVIOUS
  <1>4. /\ sent' = Append(sent, now) /\ asked' = asked \cup {new} /\ now' = now
        /\ pc'[f] = "request" /\ hops'[f] = 1 /\ current'[f] = n + 1
        /\ limit'[f] = now + ClientTimeout
    BY <1>1, <1>2, <1>3 DEF Request, Attempt, Go, Frame
  <1>5. /\ Len(sent') = n + 1 /\ sent'[n + 1] = now
        /\ \A i \in 1..n : sent'[i] = sent[i]
    BY <1>1, <1>2, <1>4 DEF Frame
  <1>6. due'[f] <= limit'[f]
    <2>1. PICK d \in Durations :
            due' = [due EXCEPT ![f] = Least(now + d, Least(limit'[f], deadline[f]))]
      BY DEF Request
    <2>2. due'[f] = Least(now + d, Least(now + ClientTimeout, deadline[f]))
      BY <1>1, <1>4, <2>1 DEF Frame
    <2>3. now \in Nat /\ now + ClientTimeout \in Nat /\ deadline[f] \in Nat
      BY <1>1 DEF Typed, Frame
    <2>4. Least(now + d, Least(now + ClientTimeout, deadline[f])) <= now + ClientTimeout
      BY <2>3, EndsInTime
    <2>5. QED
      BY <1>4, <2>2, <2>4
  <1>7. \A r \in asked : r.attempt \in 1..n /\ r.attempt # n + 1
    BY <1>2 DEF HopInv
  <1>8. ASSUME NEW g \in Fetches, g # f, pc'[g] = "request"
        PROVE  /\ pc[g] = "request" /\ UnderWay(g)' /\ current'[g] = current[g]
               /\ current'[g] # current'[f]
    <2>1. /\ pc'[g] = pc[g] /\ current'[g] = current[g] /\ hops'[g] = hops[g]
          /\ limit'[g] = limit[g] /\ due'[g] = due[g]
      BY <1>8, OthersStay DEF Step, IInv
    <2>2. UnderWay(g) /\ current[g] \in 1..n
      BY <1>2, <1>8, <2>1 DEF HopInv, UnderWay
    <2>3. current[g] # n + 1 /\ current[g] \in 1..(n + 1)
      BY <1>2, <2>2
    <2>4. \A r \in asked' : r.attempt = current[g] => r.hop <= hops[g]
      BY <1>3, <1>4, <2>2, <2>3 DEF UnderWay
    <2>5. QED
      BY <1>4, <1>5, <1>8, <2>1, <2>2, <2>3, <2>4 DEF UnderWay
  <1>9. UnderWay(f)'
    <2>1. \A r \in asked' : r.attempt = n + 1 => r.hop <= 1
      BY <1>3, <1>4, <1>7
    <2>2. now <= now + ClientTimeout /\ n + 1 \in 1..(n + 1) /\ 1 \in 1..MaxHops
      BY <1>1, <1>2
    <2>3. QED
      BY <1>1, <1>4, <1>5, <1>6, <2>1, <2>2 DEF UnderWay
  <1>10. \A r \in asked' :
            /\ r.attempt \in 1..Len(sent') /\ r.hop \in 1..MaxHops
            /\ sent'[r.attempt] <= r.at /\ r.at <= sent'[r.attempt] + ClientTimeout
    <2>1. ASSUME NEW r \in asked
          PROVE  /\ r.attempt \in 1..(n + 1) /\ r.hop \in 1..MaxHops
                 /\ sent'[r.attempt] <= r.at /\ r.at <= sent'[r.attempt] + ClientTimeout
      BY <1>2, <1>5, <1>7 DEF HopInv
    <2>2. /\ new.attempt \in 1..(n + 1) /\ new.hop \in 1..MaxHops
          /\ sent'[new.attempt] <= new.at /\ new.at <= sent'[new.attempt] + ClientTimeout
      BY <1>1, <1>2, <1>3, <1>5
    <2>3. QED
      BY <1>4, <1>5, <2>1, <2>2
  <1>11. \A q, r \in asked' : q.attempt = r.attempt /\ q.hop = r.hop => q = r
    BY <1>3, <1>4, <1>7 DEF HopInv
  <1>12. \A g, h \in Fetches :
            pc'[g] = "request" /\ pc'[h] = "request" /\ current'[g] = current'[h] => g = h
    BY <1>8 DEF HopInv
  <1>13. \A g \in Fetches : pc'[g] = "request" => UnderWay(g)'
    BY <1>8, <1>9
  <1>14. QED
    BY <1>10, <1>11, <1>12, <1>13 DEF HopInv

LEMMA RedirectKeepsHops ==
    ASSUME IInv, HopInv, NEW f \in Fetches, Redirect(f)
    PROVE  HopInv'
  <1>1. Frame /\ Typed(f) /\ now \in Nat /\ UnderWay(f) /\ pc[f] = "request"
    BY InvFrame, InvParts DEF Frame, HopInv, Redirect
  <1>2. PICK new : new = [attempt |-> current[f], hop |-> hops[f] + 1, at |-> now]
    OBVIOUS
  <1>3. /\ asked' = asked \cup {new} /\ UNCHANGED <<now, pc, sent, current, limit>>
        /\ hops'[f] = hops[f] + 1 /\ hops[f] + 1 \in 1..MaxHops
    BY <1>1, <1>2, Parameters DEF Redirect, Frame, Typed
  <1>4. due'[f] <= limit[f]
    <2>1. PICK d \in Durations :
            due' = [due EXCEPT ![f] = Least(now + d, Least(limit[f], deadline[f]))]
      BY DEF Redirect
    <2>2. due'[f] = Least(now + d, Least(limit[f], deadline[f]))
      BY <1>1, <2>1 DEF Frame
    <2>3. now \in Nat /\ limit[f] \in Nat /\ deadline[f] \in Nat
      BY <1>1 DEF Typed, Frame
    <2>4. QED
      BY <2>2, <2>3, EndsInTime
  <1>5. \A r \in asked : r.hop \in Nat /\ (r.attempt = current[f] => r.hop # hops[f] + 1)
    BY <1>1 DEF HopInv, UnderWay, Typed
  <1>6. ASSUME NEW g \in Fetches, g # f, pc[g] = "request" PROVE UnderWay(g)'
    <2>1. hops'[g] = hops[g] /\ due'[g] = due[g]
      BY <1>6, OthersStay DEF Step, IInv
    <2>2. UnderWay(g) /\ current[g] # current[f]
      BY <1>1, <1>6 DEF HopInv
    <2>3. QED
      BY <1>2, <1>3, <2>1, <2>2 DEF UnderWay
  <1>7. UnderWay(f)'
    <2>1. \A r \in asked' : r.attempt = current[f] => r.hop <= hops[f] + 1
      <3>1. hops[f] \in Nat
        BY <1>1 DEF Typed
      <3>2. QED
        BY <1>1, <1>2, <1>3, <1>5, <3>1 DEF UnderWay
    <2>2. QED
      BY <1>1, <1>3, <1>4, <2>1 DEF UnderWay
  <1>8. ASSUME NEW r \in asked'
        PROVE  /\ r.attempt \in 1..Len(sent) /\ r.hop \in 1..MaxHops
               /\ sent[r.attempt] <= r.at /\ r.at <= sent[r.attempt] + ClientTimeout
    <2>1. CASE r \in asked
      BY <2>1 DEF HopInv
    <2>2. CASE r = new
      BY <1>1, <1>2, <1>3, <2>2 DEF UnderWay
    <2>3. QED
      BY <1>3, <2>1, <2>2
  <1>9. \A q, r \in asked' : q.attempt = r.attempt /\ q.hop = r.hop => q = r
    BY <1>2, <1>3, <1>5 DEF HopInv
  <1>10. QED
    BY <1>3, <1>6, <1>7, <1>8, <1>9 DEF HopInv

LEMMA NextKeepsHops == IInv /\ HopInv /\ [Next]_vars => HopInv'
  <1> SUFFICES ASSUME IInv, HopInv, [Next]_vars PROVE HopInv'
    OBVIOUS
  <1>1. CASE UNCHANGED vars
    BY <1>1 DEF vars, progress, history, requests, HopInv, UnderWay
  <1>2. ASSUME NEW f \in Fetches,
               \/ Start(f) \/ Reserve(f) \/ Answer(f) \/ AnswerRetryable(f) \/ Retry(f) \/ Wake(f)
        PROVE  HopInv'
    <2>1. pc \in [Fetches -> Stages]
      BY InvFrame DEF Frame
    <2>2. pc'[f] # "request" /\ UNCHANGED <<now, sent, asked>>
      BY <1>2, <2>1 DEF Start, Reserve, Answer, AnswerRetryable, Retry, Wake, End, Go, history,
             requests
    <2>3. ASSUME NEW g \in Fetches, pc'[g] = "request"
          PROVE  /\ pc[g] = "request" /\ current'[g] = current[g] /\ hops'[g] = hops[g]
                 /\ limit'[g] = limit[g] /\ due'[g] = due[g]
      BY <1>2, <2>2, <2>3, OthersStay DEF Step, IInv
    <2>4. QED
      BY <2>2, <2>3, HopsStay
  <1>3. QED
    BY <1>1, <1>2, TickKeepsHops, RequestKeepsHops, RedirectKeepsHops DEF Next, Step, AllDone

\* The quotient grows with the dividend, the product with its factor.
LEMMA Monotone ==
    /\ \A a, b \in Nat, d \in Nat \ {0} : a <= b => a \div d \in Nat /\ a \div d <= b \div d
    /\ \A a, b, c \in Nat : a <= b => a * c \in Nat /\ a * c <= c * b
  <1>1. ASSUME NEW a \in Nat, NEW b \in Nat, NEW d \in Nat \ {0}, a <= b
        PROVE  a \div d \in Nat /\ a \div d <= b \div d
    BY <1>1, SMT
  <1>2. ASSUME NEW a \in Nat, NEW b \in Nat, NEW c \in Nat, a <= b
        PROVE  a * c \in Nat /\ a * c <= c * b
    <2>1. b - a \in Nat /\ (b - a) * c \in Nat
      BY <1>2, Product
    <2>2. c * b = a * c + (b - a) * c
      BY <1>2, SMT
    <2>3. a * c \in Nat
      BY Product
    <2>4. QED
      BY <2>1, <2>2, <2>3
  <1>3. QED
    BY <1>1, <1>2

\* The requests of a stretch are told apart by their attempt and their place in
\* it, and their attempts are close to each other.
LEMMA HopsLimit ==
    ASSUME IInv, BucketInv, HopInv, AttemptsLimited
    PROVE  RequestsLimited
  <1> SUFFICES ASSUME NEW q \in asked, NEW r \in asked, q.at <= r.at
               PROVE  Cardinality(Asked(q.at, r.at))
                        <= MaxHops * (Burst + (r.at - q.at + ClientTimeout) \div Interval)
    BY DEF RequestsLimited
  <1> DEFINE S == Asked(q.at, r.at)
             N == {x.attempt : x \in S}
             D == r.at - q.at + ClientTimeout
  <1>1. /\ Frame /\ MaxHops \in Nat /\ Burst \in Nat \ {0} /\ Interval \in Nat \ {0}
        /\ ClientTimeout \in Nat /\ IsFiniteSet(Tokens)
    BY InvFrame, Parameters DEF BucketInv, OrderInv
  <1>2. Len(sent) \in Nat /\ \A i \in 1..Len(sent) : sent[i] \in Nat
    BY <1>1, Counted
  <1>3. /\ \A x \in S : /\ x \in asked /\ x.attempt \in 1..Len(sent) /\ x.hop \in 1..MaxHops
                         /\ x.at \in Nat /\ q.at <= x.at /\ x.at <= r.at
                         /\ sent[x.attempt] <= x.at /\ x.at <= sent[x.attempt] + ClientTimeout
        /\ q \in S /\ q.at \in Nat /\ r.at \in Nat
    BY <1>1 DEF Asked, HopInv, Frame
  <1>4. D \in Nat
    BY <1>1, <1>3
  <1>5. N \subseteq 1..Len(sent) /\ q.attempt \in N
    BY <1>3
  <1> HIDE DEF D
  <1>6. PICK i \in N, j \in N : \A n \in N : i <= n /\ n <= j
    <2> HIDE DEF N
    <2>1. N \in SUBSET Nat /\ N \in SUBSET (1..Len(sent)) /\ N # {}
      BY <1>2, <1>5
    <2>2. (Min(N) \in N /\ \A k \in N : Min(N) <= k) /\ (Max(N) \in N /\ \A k \in N : k <= Max(N))
      BY <1>2, <2>1, FirstOf, LastOf
    <2>3. QED
      BY <2>2
  <1>7. PICK x \in S, y \in S : x.attempt = i /\ y.attempt = j
    OBVIOUS
  <1>8. i \in 1..Len(sent) /\ j \in 1..Len(sent) /\ i <= j
    BY <1>5, <1>6
  <1>9. sent[j] - sent[i] \in Nat /\ sent[j] - sent[i] <= D
    <2> HIDE DEF S, N
    <2>1. /\ x.at \in Nat /\ q.at <= x.at /\ x.at <= sent[i] + ClientTimeout
          /\ y.at \in Nat /\ y.at <= r.at /\ sent[j] <= y.at
      BY <1>3, <1>7
    <2>2. sent[i] <= sent[j]
      BY <1>8 DEF BucketInv, OrderInv
    <2>3. sent[i] \in Nat /\ sent[j] \in Nat
      BY <1>2, <1>8
    <2>4. q.at \in Nat /\ r.at \in Nat
      BY <1>3
    <2>5. QED
      BY <1>1, <2>1, <2>2, <2>3, <2>4 DEF D
  <1>10. j - i + 1 \in Nat /\ D \div Interval \in Nat /\ j - i + 1 <= Burst + D \div Interval
    <2>1. /\ (sent[j] - sent[i]) \div Interval \in Nat /\ D \div Interval \in Nat
          /\ (sent[j] - sent[i]) \div Interval <= D \div Interval
      BY <1>1, <1>4, <1>9, Monotone
    <2>2. i < j => j - i + 1 <= Burst + (sent[j] - sent[i]) \div Interval
      <3>1. DOMAIN sent = 1..Len(sent)
        BY <1>1 DEF Frame
      <3> HIDE DEF N
      <3>2. QED
        BY <1>8, <3>1 DEF AttemptsLimited
    <2>3. QED
      BY <1>1, <1>8, <2>1, <2>2
  <1>11. IsFiniteSet(N) /\ Cardinality(N) \in Nat /\ Cardinality(N) <= j - i + 1
    <2>1. N \in SUBSET (i..j)
      BY <1>5, <1>6, <1>8
    <2>2. IsFiniteSet(i..j) /\ Cardinality(i..j) = j - i + 1
      BY <1>8, FS_Interval
    <2> HIDE DEF N
    <2>3. QED
      BY <2>1, <2>2, FS_Subset, FS_CardinalityType
  <1>12. Cardinality(S) \in Nat /\ Cardinality(S) <= Cardinality(N) * MaxHops
    <2> DEFINE place == [s \in S |-> <<s.attempt, s.hop>>]
               P == N \X (1..MaxHops)
    <2>1. place \in [S -> P]
      BY <1>3
    <2>2. ASSUME NEW s \in S, NEW t \in S, place[s] = place[t] PROVE s = t
      BY <1>3, <2>2 DEF HopInv
    <2>3. place \in Injection(S, P)
      <3>1. IsInjective(place)
        BY <2>2 DEF IsInjective
      <3>2. QED
        BY <2>1, <3>1 DEF Injection
    <2>4. IsFiniteSet(1..MaxHops) /\ Cardinality(1..MaxHops) = MaxHops
      BY <1>1, FS_Interval
    <2> HIDE DEF place, N, S
    <2>5. IsFiniteSet(P) /\ Cardinality(P) = Cardinality(N) * MaxHops
      BY <1>11, <2>4, FS_Product
    <2> HIDE DEF P
    <2>6. IsFiniteSet(S) /\ Cardinality(S) <= Cardinality(P)
      BY <2>3, <2>5, FS_Injection
    <2>7. QED
      BY <2>5, <2>6, FS_CardinalityType
  <1>13. Cardinality(N) * MaxHops <= MaxHops * (Burst + D \div Interval)
    <2>1. Burst + D \div Interval \in Nat /\ Cardinality(N) <= Burst + D \div Interval
      BY <1>1, <1>10, <1>11
    <2> HIDE DEF N
    <2>2. QED
      BY <1>1, <1>11, <2>1, Monotone
  <1>14. Cardinality(N) * MaxHops \in Nat /\ MaxHops * (Burst + D \div Interval) \in Nat
    <2>1. Burst + D \div Interval \in Nat
      BY <1>1, <1>10
    <2> HIDE DEF N
    <2>2. QED
      BY <1>1, <1>11, <2>1, Product
  <1>15. Cardinality(S) <= MaxHops * (Burst + D \div Interval)
    <2> DEFINE a == Cardinality(S)
               b == Cardinality(N) * MaxHops
               c == MaxHops * (Burst + D \div Interval)
    <2>1. a \in Nat /\ b \in Nat /\ c \in Nat /\ a <= b /\ b <= c
      BY <1>12, <1>13, <1>14
    <2> HIDE DEF a, b, c
    <2>2. a <= c
      BY <2>1
    <2>3. QED
      BY <2>2 DEF a, c
  <1>16. QED
    BY <1>15 DEF D

\* RateLimited: for any number of fetches and attempts that share the limiter,
\* whatever each waits for, no more attempts begin in a stretch of time than a
\* full bucket and what it gains (client.go:67-68), and the origin gets no more
\* requests than they may redirect, within the time of the HTTP client.
THEOREM RequestsAlwaysLimited == Spec => []RateLimited
  <1>1. Init => IInv /\ BucketInv /\ HopInv
    BY InitInv, InitBucket, InitHops
  <1>2. IInv /\ BucketInv /\ HopInv => RateLimited
    BY BucketLimits, HopsLimit DEF RateLimited
  <1>3. QED
    BY <1>1, <1>2, NextKeeps, NextKeepsBucket, NextKeepsHops, PTL DEF Spec
=============================================================================
