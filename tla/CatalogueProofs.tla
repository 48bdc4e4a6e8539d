-------------------------- MODULE CatalogueProofs --------------------------
(***************************************************************************)
(* For any sources, readers, healers, lifetimes and versions: a source     *)
(* keeps its last good copy, an outage neither hides the catalogue nor     *)
(* has the origin asked again too early, and a forced refresh replaces     *)
(* what it is there to replace.                                            *)
(***************************************************************************)
EXTENDS Catalogue, TLAPS

\* Nothing known is newer than what there is.
NothingAhead ==
    /\ \A s \in Sources :
          /\ component[s].copy # None => component[s].copy <= origin
          /\ component[s].at <= now
          /\ disk[s] # None => disk[s].copy <= origin /\ disk[s].at <= now
    /\ startedAt <= origin
    /\ \A c \in Clients : answeredAsOf[c] <= origin

\* What a worker is about to write, against what it overwrites: a copy as
\* recent or the same, the last failure of its source, and, after a success, a
\* copy no older than the flight, or any refresh a client was told of.
Replaces(mine, old, failure) ==
    /\ mine.failedAt = failure
    /\ mine.at >= old.at /\ mine.at <= now
    /\ mine.copy # None => mine.copy <= origin
    /\ old.copy # None => mine.copy # None /\ mine.copy >= old.copy
    /\ mine.failedAt = None =>
          /\ mine.copy # None /\ mine.copy >= startedAt
          /\ \A c \in Clients : mine.copy >= answeredAsOf[c]

AsOf(c, version) == c.failedAt # None \/ (c.copy # None /\ c.copy >= version)

WorkerInv(w, s) ==
    /\ w.stage = "fetch" => w.mine = component[s]
    /\ w.stage = "store" => w.mine.failedAt = None
    /\ w.stage \in {"store", "write"} => Replaces(w.mine, component[s], lastFailure[s])
    /\ w.stage \notin {"store", "write"} => component[s].failedAt = lastFailure[s]
    /\ flight.forced /\ w.stage = "end" => AsOf(component[s], startedAt)

FlightInv ==
    \A s \in Sources :
        /\ flight # None => WorkerInv(flight.worker[s], s)
        /\ flight = None => component[s].failedAt = lastFailure[s]

\* What a client was told, or is about to be, and what there was when it came.
ToldTruly ==
    \A c \in Clients :
        /\ inbox[c] # None => pc[c] = "wait"
        /\ hadCopy[c] => Available
        /\ inbox[c] # None /\ ~inbox[c].ok => ~hadCopy[c]
        /\ pc[c] = "unavailable" => ~hadCopy[c]
        /\ (inbox[c] # None /\ inbox[c].forced) \/ pc[c] = "healed" => AsRecentAs(answeredAsOf[c])

IInv == TypeOK /\ NothingAhead /\ FlightInv /\ ToldTruly

-----------------------------------------------------------------------------
(* Types *)

LEMMA NoneApart ==
    /\ None \notin Versions /\ None \notin Times /\ None \notin Stored
    /\ None \notin Flight /\ None \notin Answer
  BY NoneAssumption

LEMMA Bounds == 0 \in Versions /\ 0 \in Times /\ Versions \subseteq Nat /\ Times \subseteq Nat
  BY BoundsAssumption DEF Versions, Times

LEMMA Numbers ==
    ASSUME TypeOK
    PROVE  /\ origin \in Int /\ now \in Int /\ startedAt \in Int
           /\ 0 <= origin /\ 0 <= now /\ 0 <= startedAt
           /\ origin # None /\ now # None
           /\ \A c \in Clients : answeredAsOf[c] \in Int /\ 0 <= answeredAsOf[c]
           /\ \A s \in Sources :
                 /\ component[s].at \in Int
                 /\ component[s].copy # None => component[s].copy \in Int
                 /\ disk[s] # None => disk[s].copy \in Int /\ disk[s].at \in Int
  <1>1. \A x : x \in Versions \/ x \in Times => x \in Int /\ 0 <= x /\ x # None
    <2>1. MaxVersion \in Nat /\ MaxTime \in Nat
      BY BoundsAssumption
    <2>2. QED
      BY <2>1, NoneApart DEF Versions, Times
  <1>2. origin \in Versions /\ startedAt \in Versions /\ now \in Times
    BY DEF TypeOK
  <1>3. \A c \in Clients : answeredAsOf[c] \in Versions
    BY DEF TypeOK
  <1>4. \A s \in Sources :
          /\ component[s].at \in Times /\ component[s].copy \in Versions \cup {None}
          /\ disk[s] # None => disk[s].copy \in Versions /\ disk[s].at \in Times
    BY DEF TypeOK, Component, Stored
  <1>5. QED
    BY <1>1, <1>2, <1>3, <1>4

LEMMA CopyNumbers ==
    ASSUME NEW c \in Component
    PROVE  /\ c.at \in Int
           /\ c.copy # None => c.copy \in Int /\ 0 <= c.copy
  <1>1. c.at \in Times /\ c.copy \in Versions \cup {None}
    BY DEF Component
  <1>2. QED
    BY <1>1, BoundsAssumption DEF Versions, Times

\* A step of one worker leaves the others and the kind of the flight alone.
LEMMA Advances ==
    ASSUME NEW s \in Sources, flight \in Flight, NEW stage \in {"read", "fetch", "store", "write", "end"},
           NEW mine \in Component, Advance(s, stage, mine)
    PROVE  /\ flight' \in Flight /\ flight' # None
           /\ flight'.forced = flight.forced
           /\ flight'.worker[s].stage = stage /\ flight'.worker[s].mine = mine
           /\ \A t \in Sources : t # s => flight'.worker[t] = flight.worker[t]
  <1>1. flight' = [flight EXCEPT !.worker = [flight.worker EXCEPT ![s] = [stage |-> stage, mine |-> mine]]]
    BY DEF Advance, Flight
  <1>2. flight.worker \in [Sources -> Worker] /\ flight.forced \in BOOLEAN
    BY DEF Flight
  <1>3. [stage |-> stage, mine |-> mine] \in Worker
    BY DEF Worker
  <1> DEFINE workers == [flight.worker EXCEPT ![s] = [stage |-> stage, mine |-> mine]]
  <1>4. workers \in [Sources -> Worker]
    BY <1>2, <1>3
  <1>5. flight' = [forced |-> flight.forced, worker |-> workers]
    BY <1>1 DEF Flight
  <1>6. flight' \in Flight
    BY <1>2, <1>4, <1>5 DEF Flight
  <1>7. QED
    BY <1>2, <1>5, <1>6, NoneApart

LEMMA InitInv == Init => IInv
  <1> SUFFICES ASSUME Init PROVE IInv
    OBVIOUS
  <1>1. TypeOK
    <2>1. Empty \in Component
      BY Bounds DEF Empty, Component
    <2>2. QED
      BY <2>1, Bounds DEF Init, TypeOK
  <1>2. NothingAhead
    <2>1. \A s \in Sources : component[s] = Empty /\ disk[s] = None
      BY DEF Init
    <2>2. Empty.copy = None /\ Empty.at = 0
      BY DEF Empty
    <2>3. startedAt = 0 /\ origin = 0 /\ now = 0 /\ \A c \in Clients : answeredAsOf[c] = 0
      BY DEF Init
    <2>4. QED
      BY <2>1, <2>2, <2>3 DEF NothingAhead
  <1>3. FlightInv
    BY DEF Init, FlightInv, Empty
  <1>4. ToldTruly
    BY DEF Init, ToldTruly
  <1>5. QED
    BY <1>1, <1>2, <1>3, <1>4 DEF IInv

LEMMA TypesPreserved ==
    ASSUME IInv, Next
    PROVE  TypeOK'
  <1>1. TypeOK
    BY DEF IInv
  <1>2. ASSUME NEW c \in Clients, Begin(c) PROVE TypeOK'
    BY <1>1, <1>2 DEF Begin, TypeOK, Go, service, Available
  <1>3. ASSUME NEW c \in Clients, Check(c) \/ Snapshot(c) PROVE TypeOK'
    BY <1>1, <1>3 DEF Check, Snapshot, TypeOK, Go, service, history
  <1>4. ASSUME NEW c \in Clients, Join(c) PROVE TypeOK'
    <2>1. flight' \in Flight /\ flight' # None
      <3>1. Empty \in Component
        BY Bounds DEF Empty, Component
      <3>2. [s \in Sources |-> [stage |-> "read", mine |-> Empty]] \in [Sources -> Worker]
        BY <3>1 DEF Worker
      <3>3. [forced |-> c \in Healers, worker |-> [s \in Sources |-> [stage |-> "read", mine |-> Empty]]] \in Flight
        BY <3>2 DEF Flight
      <3>4. QED
        BY <1>1, <1>4, <3>3, NoneApart DEF Join, TypeOK
    <2>2. QED
      BY <1>1, <1>4, <2>1 DEF Join, TypeOK, Go
  <1>5. ASSUME NEW c \in Clients, Receive(c) \/ GiveUp(c) PROVE TypeOK'
    BY <1>1, <1>5 DEF Receive, GiveUp, TypeOK, Go, service, history
  <1>6. ASSUME NEW c \in Clients, Return(c) PROVE TypeOK'
    BY <1>1, <1>6, Bounds DEF Return, TypeOK, Go, service
  <1>7. ASSUME NEW s \in Sources, WorkerStep(s) PROVE TypeOK'
    <2>1. flight \in Flight /\ flight.worker[s].mine \in Component /\ component[s] \in Component
      BY <1>1, <1>7 DEF WorkerStep, Read, FetchSucceeds, FetchFails, Store, Write, At, TypeOK, Flight, Worker
    <2>2. CASE Read(s)
      <3>1. flight' \in Flight /\ flight' # None
        BY <2>1, <2>2, Advances DEF Read
      <3>2. QED
        BY <1>1, <2>2, <3>1 DEF Read, TypeOK, history
    <2>3. CASE FetchSucceeds(s)
      <3>1. [copy |-> origin, at |-> now, failedAt |-> None] \in Component
        BY <1>1 DEF TypeOK, Component
      <3>2. flight' \in Flight /\ flight' # None
        BY <2>1, <2>3, <3>1, Advances DEF FetchSucceeds
      <3>3. QED
        BY <1>1, <2>3, <3>2 DEF FetchSucceeds, TypeOK
    <2>4. CASE FetchFails(s)
      <3>1. [flight.worker[s].mine EXCEPT !.failedAt = now] \in Component
        BY <1>1, <2>1 DEF TypeOK, Component
      <3>2. flight' \in Flight /\ flight' # None
        BY <2>1, <2>4, <3>1, Advances DEF FetchFails
      <3>3. QED
        BY <1>1, <2>4, <3>2 DEF FetchFails, TypeOK
    <2>5. CASE Store(s)
      <3>1. flight' \in Flight /\ flight' # None
        BY <2>1, <2>5, Advances DEF Store
      <3> DEFINE mine == flight.worker[s].mine
      <3>2. mine.copy \in Versions /\ mine.at \in Times
        <4>1. mine.copy # None
          BY <2>5, <2>1, NoneApart DEF Store, At, IInv, FlightInv, WorkerInv, Replaces
        <4>2. QED
          BY <2>1, <4>1 DEF Component
      <3>3. [copy |-> mine.copy, at |-> mine.at] \in Stored
        BY <3>2 DEF Stored
      <3>4. disk' \in [Sources -> Stored \cup {None}]
        BY <1>1, <2>5, <3>3 DEF Store, TypeOK
      <3>5. QED
        BY <1>1, <2>5, <3>1, <3>4 DEF Store, TypeOK, history
    <2>6. CASE Write(s)
      <3>1. flight' \in Flight /\ flight' # None
        BY <2>1, <2>6, Advances DEF Write
      <3>2. QED
        BY <1>1, <2>1, <2>6, <3>1 DEF Write, TypeOK, history
    <2>7. QED
      BY <1>7, <2>2, <2>3, <2>4, <2>5, <2>6 DEF WorkerStep
  <1>8. CASE Deliver
    <2>1. flight.forced \in BOOLEAN /\ Available \in BOOLEAN
      BY <1>1, <1>8 DEF Deliver, TypeOK, Flight, Available
    <2>2. [ok |-> Available, forced |-> flight.forced] \in Answer
      BY <2>1 DEF Answer
    <2>3. inbox' \in [Clients -> Answer \cup {None}]
      BY <1>1, <1>8, <2>2 DEF Deliver, TypeOK
    <2>4. \A c \in Clients : pc'[c] = "wait" => inbox'[c] # None
      BY <1>8, <2>2, NoneApart DEF Deliver
    <2>5. answeredAsOf' \in [Clients -> Versions]
      BY <1>1, <1>8 DEF Deliver, TypeOK
    <2>6. QED
      BY <1>1, <1>8, <2>3, <2>4, <2>5, Bounds DEF Deliver, TypeOK
  <1>9. CASE Restart
    <2>1. component' \in [Sources -> Component]
      <3>1. Empty \in Component
        BY Bounds DEF Empty, Component
      <3>2. \A s \in Sources : disk[s] # None =>
              [copy |-> disk[s].copy, at |-> disk[s].at, failedAt |-> None] \in Component
        BY <1>1 DEF TypeOK, Stored, Component
      <3>3. PICK lost \in SUBSET Sources :
              component' = [s \in Sources |->
                  IF s \in lost \/ disk[s] = None THEN Empty
                  ELSE [copy |-> disk[s].copy, at |-> disk[s].at, failedAt |-> None]]
        BY <1>9 DEF Restart
      <3>4. QED
        BY <3>1, <3>2, <3>3
    <2>2. QED
      BY <1>1, <1>9, <2>1, Bounds DEF Restart, TypeOK
  <1>10. CASE Publish \/ Tick
    <2>1. origin' \in Versions /\ now' \in Times
      BY <1>1, <1>10, BoundsAssumption DEF Publish, Tick, TypeOK, Versions, Times
    <2>2. QED
      BY <1>1, <1>10, <2>1 DEF Publish, Tick, TypeOK, service, history
  <1>11. QED
    BY <1>2, <1>3, <1>4, <1>5, <1>6, <1>7, <1>8, <1>9, <1>10 DEF Next, ClientStep

-----------------------------------------------------------------------------
(* What a worker holds *)

LEMMA WorkerTyped ==
    ASSUME IInv, NEW s \in Sources, NEW stage, At(s, stage)
    PROVE  /\ flight \in Flight /\ flight # None
           /\ flight.worker[s].stage = stage /\ flight.worker[s].mine \in Component
           /\ component[s] \in Component /\ WorkerInv(flight.worker[s], s)
           /\ \A t \in Sources : WorkerInv(flight.worker[t], t)
  BY DEF At, IInv, FlightInv, TypeOK, Flight, Worker

\* A worker's write is never a step back.
LEMMA WriteReplaces ==
    ASSUME IInv, NEW s \in Sources, Write(s)
    PROVE  /\ component'[s] = flight.worker[s].mine
           /\ Replaces(component'[s], component[s], lastFailure[s])
           /\ \A t \in Sources : t # s => component'[t] = component[t]
  <1>1. At(s, "write")
    BY DEF Write
  <1>2. component \in [Sources -> Component]
    BY DEF IInv, TypeOK
  <1>3. component'[s] = flight.worker[s].mine /\ \A t \in Sources : t # s => component'[t] = component[t]
    BY <1>2 DEF Write
  <1>4. Replaces(flight.worker[s].mine, component[s], lastFailure[s])
    BY <1>1, WorkerTyped DEF WorkerInv
  <1>5. QED
    BY <1>3, <1>4

LEMMA NothingAheadPreserved ==
    ASSUME IInv, Next
    PROVE  NothingAhead'
  <1>1. TypeOK /\ NothingAhead
    BY DEF IInv
  <1>2. ASSUME NEW c \in Clients, Begin(c) \/ Check(c) \/ Snapshot(c) \/ Receive(c) \/ GiveUp(c)
        PROVE  NothingAhead'
    BY <1>1, <1>2 DEF Begin, Check, Snapshot, Receive, GiveUp, NothingAhead, service, history
  <1>3. ASSUME NEW c \in Clients, Join(c) PROVE NothingAhead'
    <2>1. startedAt' <= origin
      BY <1>1, <1>3, Numbers DEF Join, NothingAhead
    <2>2. QED
      BY <1>1, <1>3, <2>1 DEF Join, NothingAhead
  <1>4. ASSUME NEW c \in Clients, Return(c) PROVE NothingAhead'
    <2>1. \A d \in Clients : answeredAsOf'[d] <= origin
      <3>1. \A d \in Clients : answeredAsOf'[d] \in {0, answeredAsOf[d]}
        BY <1>1, <1>4 DEF Return, TypeOK
      <3>2. QED
        BY <1>1, <3>1, Numbers DEF NothingAhead
    <2>2. QED
      BY <1>1, <1>4, <2>1 DEF Return, NothingAhead, service
  <1>5. ASSUME NEW s \in Sources, Read(s) \/ FetchSucceeds(s) \/ FetchFails(s) PROVE NothingAhead'
    BY <1>1, <1>5 DEF Read, FetchSucceeds, FetchFails, NothingAhead, history
  <1>6. ASSUME NEW s \in Sources, Store(s) PROVE NothingAhead'
    <2> DEFINE mine == flight.worker[s].mine
    <2>1. At(s, "store")
      BY <1>6 DEF Store
    <2>2. mine \in Component /\ mine.copy # None /\ mine.copy <= origin /\ mine.at <= now
      BY <2>1, WorkerTyped DEF WorkerInv, Replaces
    <2>3. \A t \in Sources : disk'[t] # None => disk'[t].copy <= origin /\ disk'[t].at <= now
      BY <1>1, <1>6, <2>2 DEF Store, NothingAhead, TypeOK
    <2>4. QED
      BY <1>1, <1>6, <2>3 DEF Store, NothingAhead, history
  <1>7. ASSUME NEW s \in Sources, Write(s) PROVE NothingAhead'
    BY <1>1, <1>7, WriteReplaces DEF Write, NothingAhead, Replaces, history
  <1>8. CASE Deliver
    <2>1. \A c \in Clients : answeredAsOf'[c] \in {startedAt, answeredAsOf[c]}
      BY <1>8 DEF Deliver
    <2>2. \A c \in Clients : answeredAsOf'[c] <= origin
      BY <1>1, <2>1 DEF NothingAhead
    <2>3. 0 <= origin
      BY <1>1, Numbers
    <2>4. QED
      BY <1>1, <1>8, <2>2, <2>3 DEF Deliver, NothingAhead
  <1>9. CASE Restart
    <2>1. PICK lost \in SUBSET Sources :
            component' = [s \in Sources |->
                IF s \in lost \/ disk[s] = None THEN Empty
                ELSE [copy |-> disk[s].copy, at |-> disk[s].at, failedAt |-> None]]
      BY <1>9 DEF Restart
    <2>2. 0 <= origin /\ 0 <= now
      BY <1>1, Numbers
    <2>3. \A s \in Sources : /\ component'[s].copy # None => component'[s].copy <= origin
                             /\ component'[s].at <= now
      BY <1>1, <2>1, <2>2 DEF NothingAhead, Empty
    <2>4. QED
      BY <1>1, <1>9, <2>2, <2>3 DEF Restart, NothingAhead
  <1>10. CASE Publish \/ Tick
    <2>1. /\ origin <= origin' /\ origin \in Int /\ origin' \in Int
          /\ now <= now' /\ now \in Int /\ now' \in Int
      BY <1>1, <1>10, Numbers DEF Publish, Tick
    <2>4. UNCHANGED <<component, disk, startedAt, answeredAsOf>>
      BY <1>10 DEF Publish, Tick, service, history
    <2>5. QED
      BY <1>1, <2>1, <2>4, Numbers DEF NothingAhead
  <1>11. QED
    BY <1>2, <1>3, <1>4, <1>5, <1>6, <1>7, <1>8, <1>9, <1>10 DEF Next, ClientStep, WorkerStep

-----------------------------------------------------------------------------
(* The flight *)

\* What a step of one worker has to show: the others keep what they have.
LEMMA OneWorkerMoves ==
    ASSUME IInv, NEW s \in Sources, NEW stage \in {"read", "fetch", "store", "write", "end"},
           NEW mine \in Component, flight \in Flight, flight # None, Advance(s, stage, mine),
           \A t \in Sources : t # s => component'[t] = component[t] /\ lastFailure'[t] = lastFailure[t],
           UNCHANGED <<origin, now, startedAt, answeredAsOf>>,
           WorkerInv([stage |-> stage, mine |-> mine], s)'
    PROVE  FlightInv'
  <1>1. /\ flight' # None /\ flight'.forced = flight.forced
        /\ flight'.worker[s].stage = stage /\ flight'.worker[s].mine = mine
        /\ \A t \in Sources : t # s => flight'.worker[t] = flight.worker[t]
    BY Advances
  <1>2. \A t \in Sources : t # s => WorkerInv(flight.worker[t], t)'
    <2> TAKE t \in Sources
    <2>1. SUFFICES ASSUME t # s PROVE WorkerInv(flight.worker[t], t)'
      OBVIOUS
    <2>2. WorkerInv(flight.worker[t], t)
      BY DEF IInv, FlightInv
    <2>3. /\ component'[t] = component[t] /\ lastFailure'[t] = lastFailure[t]
          /\ flight'.worker[t] = flight.worker[t]
      BY <1>1, <2>1
    <2>4. QED
      BY <1>1, <2>2, <2>3 DEF WorkerInv, Replaces, AsOf
  <1>3. WorkerInv(flight.worker[s], s)'
    BY <1>1 DEF WorkerInv
  <1>4. QED
    BY <1>1, <1>2, <1>3 DEF FlightInv

LEMMA FlightPreserved ==
    ASSUME IInv, Next
    PROVE  FlightInv'
  <1>1. TypeOK /\ NothingAhead /\ FlightInv
    BY DEF IInv
  <1>2. ASSUME NEW c \in Clients, Begin(c) \/ Check(c) \/ Snapshot(c) \/ Receive(c) \/ GiveUp(c)
        PROVE  FlightInv'
    <2>1. UNCHANGED <<component, flight, lastFailure, startedAt, answeredAsOf, origin, now>>
      BY <1>2 DEF Begin, Check, Snapshot, Receive, GiveUp, service, history
    <2>2. QED
      BY <1>1, <2>1 DEF FlightInv, WorkerInv, Replaces, AsOf
  <1>3. ASSUME NEW c \in Clients, Join(c) PROVE FlightInv'
    <2>1. UNCHANGED <<component, lastFailure, answeredAsOf, origin, now>>
      BY <1>3 DEF Join
    <2>2. CASE flight # None
      <3>1. flight' = flight /\ startedAt' = startedAt
        BY <1>3, <2>2 DEF Join
      <3>2. QED
        BY <1>1, <2>1, <3>1 DEF FlightInv, WorkerInv, Replaces, AsOf
    <2>3. CASE flight = None
      <3>1. flight' = [forced |-> c \in Healers,
                       worker |-> [s \in Sources |-> [stage |-> "read", mine |-> Empty]]]
        BY <1>3, <2>3 DEF Join
      <3>2. \A s \in Sources : flight'.worker[s].stage = "read" /\ component[s].failedAt = lastFailure[s]
        BY <1>1, <2>3, <3>1 DEF FlightInv
      <3>3. flight' # None
        <4>1. Empty \in Component
          BY Bounds DEF Empty, Component
        <4>2. [s \in Sources |-> [stage |-> "read", mine |-> Empty]] \in [Sources -> Worker]
          BY <4>1 DEF Worker
        <4>3. flight' \in Flight
          BY <3>1, <4>2 DEF Flight
        <4>4. QED
          BY <4>3, NoneApart
      <3>4. QED
        BY <2>1, <3>2, <3>3 DEF FlightInv, WorkerInv
    <2>4. QED
      BY <2>2, <2>3
  <1>4. ASSUME NEW c \in Clients, Return(c) PROVE FlightInv'
    <2>1. UNCHANGED <<component, flight, lastFailure, startedAt, origin, now>>
      BY <1>4 DEF Return, service
    <2>2. \A d \in Clients : answeredAsOf'[d] \in {0, answeredAsOf[d]}
      BY <1>1, <1>4 DEF Return, TypeOK
    <2>3. ASSUME flight # None, NEW s \in Sources PROVE WorkerInv(flight.worker[s], s)'
      <3> DEFINE w == flight.worker[s]
      <3>1. WorkerInv(w, s) /\ w.mine \in Component
        BY <1>1, <2>3 DEF FlightInv, TypeOK, Flight, Worker
      <3>2. w.mine.copy # None => w.mine.copy >= 0
        BY <3>1, CopyNumbers
      <3>3. Replaces(w.mine, component[s], lastFailure[s]) => Replaces(w.mine, component[s], lastFailure[s])'
        BY <2>1, <2>2, <3>2 DEF Replaces
      <3>4. QED
        BY <2>1, <3>1, <3>3 DEF WorkerInv, AsOf
    <2>4. QED
      BY <1>1, <2>1, <2>3 DEF FlightInv
  <1>5. ASSUME NEW s \in Sources, Read(s) PROVE FlightInv'
    <2>1. /\ flight \in Flight /\ flight # None /\ component[s] \in Component
          /\ component[s].failedAt = lastFailure[s]
      BY <1>5, WorkerTyped DEF Read, WorkerInv
    <2>2. UNCHANGED <<component, lastFailure, startedAt, answeredAsOf, origin, now>>
      BY <1>5 DEF Read, history
    <2>3. PICK stage \in {"fetch", "end"} :
            Advance(s, stage, component[s]) /\ (flight.forced => stage = "fetch")
      BY <1>5 DEF Read
    <2>4. flight'.forced = flight.forced
      BY <2>1, <2>3, Advances
    <2>5. WorkerInv([stage |-> stage, mine |-> component[s]], s)'
      BY <2>1, <2>2, <2>3, <2>4 DEF WorkerInv
    <2>6. QED
      BY <2>1, <2>2, <2>3, <2>5, OneWorkerMoves
  <1>6. ASSUME NEW s \in Sources, FetchSucceeds(s) PROVE FlightInv'
    <2>1. /\ flight \in Flight /\ flight # None /\ component[s] \in Component
      BY <1>6, WorkerTyped DEF FetchSucceeds
    <2>2. UNCHANGED <<component, startedAt, answeredAsOf, origin, now>>
      BY <1>6 DEF FetchSucceeds
    <2>3. lastFailure'[s] = None /\ \A t \in Sources : t # s => lastFailure'[t] = lastFailure[t]
      BY <1>1, <1>6 DEF FetchSucceeds, TypeOK
    <2>4. PICK mine \in Component : mine = [copy |-> origin, at |-> now, failedAt |-> None]
      BY <1>1 DEF TypeOK, Component
    <2>5. mine.copy = origin /\ mine.at = now /\ mine.failedAt = None
      BY <2>4
    <2>6. Replaces(mine, component[s], lastFailure[s])'
      BY <1>1, <2>2, <2>3, <2>5, Numbers DEF Replaces, NothingAhead
    <2>7. WorkerInv([stage |-> "store", mine |-> mine], s)'
      BY <2>5, <2>6 DEF WorkerInv
    <2>8. Advance(s, "store", mine)
      BY <1>6, <2>4 DEF FetchSucceeds
    <2>9. QED
      BY <2>1, <2>2, <2>3, <2>4, <2>7, <2>8, OneWorkerMoves
  <1>7. ASSUME NEW s \in Sources, FetchFails(s) PROVE FlightInv'
    <2>1. /\ flight \in Flight /\ flight # None /\ component[s] \in Component
          /\ flight.worker[s].mine = component[s]
      BY <1>7, WorkerTyped DEF FetchFails, WorkerInv
    <2>2. UNCHANGED <<component, startedAt, answeredAsOf, origin, now>>
      BY <1>7 DEF FetchFails
    <2>3. lastFailure'[s] = now /\ \A t \in Sources : t # s => lastFailure'[t] = lastFailure[t]
      BY <1>1, <1>7 DEF FetchFails, TypeOK
    <2>4. PICK mine \in Component : mine = [flight.worker[s].mine EXCEPT !.failedAt = now]
      BY <1>1, <2>1 DEF TypeOK, Component
    <2>5. mine.copy = component[s].copy /\ mine.at = component[s].at /\ mine.failedAt = now
      BY <2>1, <2>4 DEF Component
    <2>6. Replaces(mine, component[s], lastFailure[s])'
      BY <1>1, <2>2, <2>3, <2>5, Numbers DEF Replaces, NothingAhead
    <2>7. WorkerInv([stage |-> "write", mine |-> mine], s)'
      BY <2>6 DEF WorkerInv
    <2>8. Advance(s, "write", mine)
      BY <1>7, <2>4 DEF FetchFails
    <2>9. QED
      BY <2>1, <2>2, <2>3, <2>4, <2>7, <2>8, OneWorkerMoves
  <1>8. ASSUME NEW s \in Sources, Store(s) PROVE FlightInv'
    <2>1. /\ flight \in Flight /\ flight # None
          /\ \E mine \in Component : mine = flight.worker[s].mine /\ Replaces(mine, component[s], lastFailure[s])
      BY <1>8, WorkerTyped DEF Store, WorkerInv
    <2>2. UNCHANGED <<component, lastFailure, startedAt, answeredAsOf, origin, now>>
      BY <1>8 DEF Store, history
    <2>3. PICK mine \in Component : Advance(s, "write", mine) /\ Replaces(mine, component[s], lastFailure[s])
      BY <1>8, <2>1 DEF Store
    <2>4. WorkerInv([stage |-> "write", mine |-> mine], s)'
      BY <2>2, <2>3 DEF WorkerInv, Replaces
    <2>5. QED
      BY <2>1, <2>2, <2>3, <2>4, OneWorkerMoves
  <1>9. ASSUME NEW s \in Sources, Write(s) PROVE FlightInv'
    <2>1. flight \in Flight /\ flight # None /\ \E mine \in Component : mine = flight.worker[s].mine
      BY <1>9, WorkerTyped DEF Write
    <2>2. UNCHANGED <<lastFailure, startedAt, answeredAsOf, origin, now>>
      BY <1>9 DEF Write, history
    <2>3. PICK mine \in Component : mine = flight.worker[s].mine /\ Advance(s, "end", mine)
      BY <1>9, <2>1 DEF Write
    <2>4. /\ component'[s] = mine /\ Replaces(mine, component[s], lastFailure[s])
          /\ \A t \in Sources : t # s => component'[t] = component[t]
      BY <1>9, <2>3, WriteReplaces
    <2>5. WorkerInv([stage |-> "end", mine |-> mine], s)'
      BY <2>2, <2>4 DEF WorkerInv, Replaces, AsOf
    <2>6. QED
      BY <2>1, <2>2, <2>3, <2>4, <2>5, OneWorkerMoves
  <1>10. CASE Deliver
    <2>1. \A s \in Sources : component[s].failedAt = lastFailure[s]
      <3> TAKE s \in Sources
      <3>1. At(s, "end")
        BY <1>10 DEF Deliver
      <3>2. QED
        BY <3>1, WorkerTyped DEF WorkerInv
    <2>2. QED
      BY <1>10, <2>1 DEF Deliver, FlightInv
  <1>11. CASE Restart
    <2>1. PICK lost \in SUBSET Sources :
            component' = [s \in Sources |->
                IF s \in lost \/ disk[s] = None THEN Empty
                ELSE [copy |-> disk[s].copy, at |-> disk[s].at, failedAt |-> None]]
      BY <1>11 DEF Restart
    <2>2. \A s \in Sources : component'[s].failedAt = None /\ lastFailure'[s] = None
      BY <1>11, <2>1 DEF Restart, Empty
    <2>3. QED
      BY <1>11, <2>2 DEF Restart, FlightInv
  <1>12. CASE Publish \/ Tick
    <2>1. /\ origin <= origin' /\ origin \in Int /\ origin' \in Int
          /\ now <= now' /\ now \in Int /\ now' \in Int
          /\ UNCHANGED <<component, flight, lastFailure, startedAt, answeredAsOf>>
      BY <1>1, <1>12, Numbers DEF Publish, Tick, service, history
    <2>2. ASSUME flight # None, NEW s \in Sources PROVE WorkerInv(flight.worker[s], s)'
      <3> DEFINE w == flight.worker[s]
      <3>1. WorkerInv(w, s) /\ w.mine \in Component
        BY <1>1, <2>2 DEF FlightInv, TypeOK, Flight, Worker
      <3>2. w.mine.at \in Int /\ (w.mine.copy # None => w.mine.copy \in Int)
        BY <3>1, CopyNumbers
      <3>3. Replaces(w.mine, component[s], lastFailure[s]) => Replaces(w.mine, component[s], lastFailure[s])'
        BY <2>1, <3>2 DEF Replaces
      <3>4. QED
        BY <2>1, <3>1, <3>3 DEF WorkerInv, AsOf
    <2>3. QED
      BY <1>1, <2>1, <2>2 DEF FlightInv
  <1>13. QED
    BY <1>2, <1>3, <1>4, <1>5, <1>6, <1>7, <1>8, <1>9, <1>10, <1>11, <1>12 DEF Next, ClientStep, WorkerStep

-----------------------------------------------------------------------------
(* Clients *)

\* A write keeps what clients were told true.
LEMMA WriteKeeps ==
    ASSUME IInv, NEW s \in Sources, Write(s)
    PROVE  /\ Available => Available'
           /\ \A c \in Clients : AsRecentAs(answeredAsOf[c]) => AsRecentAs(answeredAsOf[c])'
  <1>1. TypeOK
    BY DEF IInv
  <1>2. /\ Replaces(component'[s], component[s], lastFailure[s])
        /\ \A t \in Sources : t # s => component'[t] = component[t]
    BY WriteReplaces
  <1>3. Available => Available'
    <2>1. SUFFICES ASSUME Available PROVE Available'
      OBVIOUS
    <2>2. PICK t \in Sources : component[t].copy # None
      BY <2>1 DEF Available
    <2>3. component'[t].copy # None
      BY <1>2, <2>2 DEF Replaces
    <2>4. QED
      BY <2>3 DEF Available
  <1>4. UNCHANGED answeredAsOf
    BY DEF Write, history
  <1>5. ASSUME NEW c \in Clients, AsRecentAs(answeredAsOf[c])
        PROVE  AsRecentAs(answeredAsOf[c])'
    <2>1. AsOf(component'[s], answeredAsOf[c])
      BY <1>2 DEF Replaces, AsOf
    <2>2. \A t \in Sources : AsOf(component'[t], answeredAsOf[c])
      BY <1>2, <1>5, <2>1 DEF AsRecentAs, AsOf
    <2>3. QED
      BY <1>4, <2>2 DEF AsRecentAs, AsOf
  <1>6. QED
    BY <1>3, <1>5

LEMMA ToldTrulyPreserved ==
    ASSUME IInv, Next
    PROVE  ToldTruly'
  <1>1. TypeOK /\ ToldTruly /\ FlightInv
    BY DEF IInv
  <1>2. ASSUME NEW c \in Clients, Begin(c) PROVE ToldTruly'
    <2>1. UNCHANGED <<component, inbox, answeredAsOf>>
      BY <1>2 DEF Begin, service
    <2>2. /\ pc'[c] \in {"join", "check"}
          /\ \A d \in Clients : d # c => pc'[d] = pc[d]
      BY <1>1, <1>2 DEF Begin, Go, TypeOK
    <2>3. hadCopy'[c] = Available /\ \A d \in Clients : d # c => hadCopy'[d] = hadCopy[d]
      BY <1>1, <1>2 DEF Begin, TypeOK
    <2>4. inbox[c] = None
      BY <1>1, <1>2 DEF Begin, ToldTruly
    <2>5. QED
      BY <1>1, <2>1, <2>2, <2>3, <2>4 DEF ToldTruly, Available, AsRecentAs
  <1>3. ASSUME NEW c \in Clients, Check(c) \/ Join(c) \/ Snapshot(c) \/ Receive(c) \/ GiveUp(c)
        PROVE  ToldTruly'
    <2>1. UNCHANGED <<component, hadCopy, answeredAsOf>>
      BY <1>3 DEF Check, Join, Snapshot, Receive, GiveUp, service, history
    <2>2. \A d \in Clients : d # c => pc'[d] = pc[d] /\ inbox'[d] = inbox[d]
      BY <1>1, <1>3 DEF Check, Join, Snapshot, Receive, GiveUp, Go, TypeOK
    <2>3. inbox'[c] \in {None, inbox[c]}
      BY <1>1, <1>3 DEF Check, Join, Snapshot, Receive, GiveUp, TypeOK
    <2>4. pc'[c] = "unavailable" => ~hadCopy[c]
      BY <1>1, <1>3 DEF Check, Join, Snapshot, Receive, GiveUp, Go, TypeOK, ToldTruly
    <2>5. pc'[c] = "healed" => inbox[c] # None /\ inbox[c].forced
      BY <1>1, <1>3 DEF Check, Join, Snapshot, Receive, GiveUp, Go, TypeOK
    <2>6. inbox'[c] # None => pc'[c] = "wait"
      BY <1>1, <1>3 DEF Check, Join, Snapshot, Receive, GiveUp, Go, TypeOK, ToldTruly
    <2>7. QED
      BY <1>1, <2>1, <2>2, <2>3, <2>4, <2>5, <2>6 DEF ToldTruly, Available, AsRecentAs
  <1>4. ASSUME NEW c \in Clients, Return(c) PROVE ToldTruly'
    <2>1. UNCHANGED <<component, inbox>>
      BY <1>4 DEF Return, service
    <2>2. /\ pc'[c] = "idle" /\ hadCopy'[c] = FALSE
          /\ \A d \in Clients : d # c =>
                pc'[d] = pc[d] /\ hadCopy'[d] = hadCopy[d] /\ answeredAsOf'[d] = answeredAsOf[d]
      BY <1>1, <1>4 DEF Return, Go, TypeOK
    <2>3. inbox[c] = None
      BY <1>1, <1>4 DEF Return, ToldTruly
    <2>4. QED
      BY <1>1, <2>1, <2>2, <2>3 DEF ToldTruly, Available, AsRecentAs
  <1>5. ASSUME NEW s \in Sources, Read(s) \/ FetchSucceeds(s) \/ FetchFails(s) \/ Store(s)
        PROVE  ToldTruly'
    <2>1. UNCHANGED <<component, pc, inbox, hadCopy, answeredAsOf>>
      BY <1>5 DEF Read, FetchSucceeds, FetchFails, Store, history
    <2>2. QED
      BY <1>1, <2>1 DEF ToldTruly, Available, AsRecentAs
  <1>6. ASSUME NEW s \in Sources, Write(s) PROVE ToldTruly'
    <2>1. UNCHANGED <<pc, inbox, hadCopy, answeredAsOf>>
      BY <1>6 DEF Write, history
    <2>2. /\ Available => Available'
          /\ \A c \in Clients : AsRecentAs(answeredAsOf[c]) => AsRecentAs(answeredAsOf[c])'
      BY <1>6, WriteKeeps
    <2>3. QED
      BY <1>1, <2>1, <2>2 DEF ToldTruly
  <1>7. CASE Deliver
    <2>1. UNCHANGED <<component, pc, hadCopy>>
      BY <1>7 DEF Deliver
    <2>2. flight.forced => AsRecentAs(startedAt)
      <3>1. SUFFICES ASSUME flight.forced, NEW s \in Sources PROVE AsOf(component[s], startedAt)
        BY DEF AsRecentAs, AsOf
      <3>2. At(s, "end")
        BY <1>7 DEF Deliver
      <3>3. QED
        BY <3>1, <3>2, WorkerTyped DEF WorkerInv
    <2>3. ASSUME NEW c \in Clients, pc[c] = "wait" /\ inbox[c] = None
          PROVE  /\ inbox'[c].ok = Available /\ inbox'[c].forced = flight.forced
                 /\ answeredAsOf'[c] = startedAt
      BY <1>7, <2>3 DEF Deliver
    <2>4. ASSUME NEW c \in Clients, ~(pc[c] = "wait" /\ inbox[c] = None)
          PROVE  inbox'[c] = inbox[c] /\ answeredAsOf'[c] = answeredAsOf[c]
      BY <1>7, <2>4 DEF Deliver
    <2>5. QED
      BY <1>1, <2>1, <2>2, <2>3, <2>4 DEF ToldTruly, Available, AsRecentAs
  <1>8. CASE Restart
    BY <1>8 DEF Restart, ToldTruly
  <1>9. CASE Publish \/ Tick
    <2>1. UNCHANGED <<component, pc, inbox, hadCopy, answeredAsOf>>
      BY <1>9 DEF Publish, Tick, service, history
    <2>2. QED
      BY <1>1, <2>1 DEF ToldTruly, Available, AsRecentAs
  <1>10. QED
    BY <1>2, <1>3, <1>4, <1>5, <1>6, <1>7, <1>8, <1>9 DEF Next, ClientStep, WorkerStep

LEMMA NextPreserves ==
    ASSUME IInv, [Next]_vars
    PROVE  IInv'
  <1>1. CASE Next
    BY <1>1, TypesPreserved, NothingAheadPreserved, FlightPreserved, ToldTrulyPreserved DEF IInv
  <1>2. CASE UNCHANGED vars
    <2>1. UNCHANGED <<component, disk, flight, pc, inbox, origin, now, hadCopy, began, startedAt,
                      answeredAsOf, lastFailure>>
      BY <1>2 DEF vars, service, history
    <2>2. TypeOK' /\ NothingAhead'
      BY <2>1 DEF IInv, TypeOK, NothingAhead
    <2>3. FlightInv'
      BY <2>1 DEF IInv, FlightInv, WorkerInv, Replaces, AsOf
    <2>4. ToldTruly'
      BY <2>1 DEF IInv, ToldTruly, Available, AsRecentAs
    <2>5. QED
      BY <2>2, <2>3, <2>4 DEF IInv
  <1>3. QED
    BY <1>1, <1>2

-----------------------------------------------------------------------------
(* The properties *)

\* Every variable keeps its type, and nobody waits for a flight that is over
\* (catalogue.go:73-160).
THEOREM TypesHold == Spec => []TypeOK
  <1>1. IInv => TypeOK
    BY DEF IInv
  <1>2. QED
    BY InitInv, NextPreserves, <1>1, PTL DEF Spec

\* Whatever fails while a client waits, it is not told that there is no
\* catalogue when there was a copy as it came (catalogue.go:141-148).
THEOREM OutageNeverHidesCatalogue == Spec => []ServedDespiteOutage
  <1>1. IInv => ServedDespiteOutage
    BY DEF IInv, ToldTruly, ServedDespiteOutage
  <1>2. QED
    BY InitInv, NextPreserves, <1>1, PTL DEF Spec

\* When a forced refresh is through, each source was replaced since the flight
\* was started, or has failed (catalogue.go:150).
THEOREM HealersAlwaysReplace == Spec => []HealerReplacesAll
  <1>1. IInv => HealerReplacesAll
    <2>1. Healers \subseteq Clients
      BY DEF Clients
    <2>2. QED
      BY <2>1 DEF IInv, ToldTruly, HealerReplacesAll
  <1>2. QED
    BY InitInv, NextPreserves, <1>1, PTL DEF Spec

\* A source's copy is never lost to a failed refresh, nor exchanged for an
\* older one (catalogue.go:160-215).
LEMMA StepKeepsLastGood ==
    ASSUME IInv, [Next]_vars, ~Restart, NEW s \in Sources, component[s].copy # None
    PROVE  /\ component'[s].copy # None
           /\ component'[s].copy >= component[s].copy
           /\ component'[s].at >= component[s].at
  <1>1. component[s].copy \in Int /\ component[s].at \in Int
    BY Numbers DEF IInv
  <1>2. ASSUME NEW t \in Sources, Write(t)
        PROVE  /\ component'[s].copy # None
               /\ component'[s].copy >= component[s].copy
               /\ component'[s].at >= component[s].at
    BY <1>1, <1>2, WriteReplaces DEF Replaces
  <1>3. CASE \A t \in Sources : ~Write(t)
    <2>1. component' = component
      BY <1>3 DEF Next, ClientStep, WorkerStep, Begin, Check, Join, Receive, GiveUp, Snapshot, Return,
                  Read, FetchSucceeds, FetchFails, Store, Deliver, Publish, Tick, vars, service
    <2>2. QED
      BY <1>1, <2>1
  <1>4. QED
    BY <1>2, <1>3

\* While the process runs, no step takes a source's copy away or exchanges it
\* for an older one (catalogue.go:157-196).
THEOREM LastGoodIsKept == Spec => KeepsLastGood
  <1> DEFINE Keeps == \A s \in Sources :
          component[s].copy # None =>
              \/ Restart
              \/ /\ component'[s].copy # None
                 /\ component'[s].copy >= component[s].copy
                 /\ component'[s].at >= component[s].at
  <1>1. IInv /\ [Next]_vars => Keeps
    BY StepKeepsLastGood
  <1>2. QED
    BY InitInv, NextPreserves, <1>1, PTL DEF Spec, KeepsLastGood

\* An ordinary refresh asks no source during the cool-down of its last failure
\* (catalogue.go:86-95, 160-175).
LEMMA ReadsAreDue ==
    ASSUME IInv, [Next]_vars, NEW s \in Sources, At(s, "read"), ~flight.forced,
           flight' # None, flight'.worker[s].stage = "fetch"
    PROVE  lastFailure[s] = None \/ now - lastFailure[s] >= Cooldown
  <1>1. /\ flight \in Flight /\ flight # None /\ flight.worker[s].stage = "read"
        /\ component[s] \in Component /\ component[s].failedAt = lastFailure[s]
    BY WorkerTyped DEF WorkerInv
  <1>2. CASE Read(s)
    <2>1. PICK stage \in {"fetch", "end"} :
            Advance(s, stage, component[s]) /\ (stage = "fetch" => Due(component[s]))
      BY <1>2 DEF Read
    <2>2. stage = "fetch"
      BY <1>1, <2>1, Advances
    <2>3. QED
      BY <1>1, <2>1, <2>2 DEF Due
  <1>3. CASE ~Read(s)
    <2>1. ASSUME NEW t \in Sources, WorkerStep(t) PROVE flight'.worker[s] = flight.worker[s]
      <3>1. t # s
        BY <1>1, <1>3, <2>1 DEF WorkerStep, FetchSucceeds, FetchFails, Store, Write, At
      <3>2. \E stage, mine : flight' = [flight EXCEPT !.worker[t] = [stage |-> stage, mine |-> mine]]
        BY <2>1 DEF WorkerStep, Read, FetchSucceeds, FetchFails, Store, Write, Advance
      <3>3. QED
        BY <1>1, <3>1, <3>2 DEF Flight
    <2>2. flight' = flight \/ flight' = None \/ \E t \in Sources : WorkerStep(t)
      BY <1>1 DEF Next, ClientStep, Begin, Check, Join, Receive, GiveUp, Snapshot, Return,
                  Deliver, Restart, Publish, Tick, vars, service
    <2>3. QED
      BY <1>1, <2>1, <2>2
  <1>4. QED
    BY <1>2, <1>3

\* An ordinary refresh asks a source only when the cool-down of its last failure
\* is over, whenever it was decided on (catalogue.go:167-169).
THEOREM OutageAlwaysSparesOrigin == Spec => OutageSparesOrigin
  <1> DEFINE Spares == \A s \in Sources :
          /\ At(s, "read") /\ ~flight.forced
          /\ flight' # None /\ flight'.worker[s].stage = "fetch"
          => lastFailure[s] = None \/ now - lastFailure[s] >= Cooldown
  <1>1. IInv /\ [Next]_vars => Spares
    BY ReadsAreDue
  <1>2. QED
    BY InitInv, NextPreserves, <1>1, PTL DEF Spec, OutageSparesOrigin
=============================================================================
