----------------------------- MODULE Catalogue -----------------------------
(***************************************************************************)
(* The catalogue of one language view: its sources (the curated index and  *)
(* the page list for English, the page list alone for the others), each    *)
(* with its last good copy, and the single flight that refreshes them, one *)
(* goroutine to a source.  Readers come with every request and refresh     *)
(* what is due; healers run in the background after a page the catalogue   *)
(* lists was not found, and refresh everything.                            *)
(*                                                                         *)
(* A copy is known by the version of the source it was read from.  A copy  *)
(* is never empty: a source without entries does not parse.                *)
(***************************************************************************)
EXTENDS Integers, FiniteSets

CONSTANTS Sources,     \* the sources of the view
          Readers,     \* requests that need the catalogue
          Healers,     \* background refreshes
          TTL,         \* lifetime of a copy
          Cooldown,    \* how long after a failure a source is left alone
          MaxTime,     \* bound of the model's clock
          MaxVersion,  \* bound on the versions the origin publishes
          None         \* no such thing

Clients == Readers \cup Healers
Times == 0..MaxTime
Versions == 0..MaxVersion

VARIABLES component,  \* source -> [copy, at, failedAt]
          disk,       \* source -> [copy, at], as last stored
          flight,     \* the refresh under way: [forced, worker]
          pc,         \* where each client is
          inbox,      \* what its flight answered: [ok, forced]
          origin,     \* the version the origin serves
          now

\* History: whether some source had a copy, and the version the origin served,
\* when a client began; that version when the flight under way was started, and
\* when the one that answered a client was; the last failure of a source that
\* no success has followed.
VARIABLES hadCopy, began, startedAt, answeredAsOf, lastFailure

service == <<component, disk, flight>>
history == <<hadCopy, began, startedAt, answeredAsOf, lastFailure>>
vars == <<service, pc, inbox, origin, now, history>>

Component == [copy : Versions \cup {None}, at : Times, failedAt : Times \cup {None}]
Stored    == [copy : Versions, at : Times]

\* A goroutine of the flight: the component it read or is about to write.
Worker == [stage : {"read", "fetch", "store", "write", "end"}, mine : Component]
Flight == [forced : BOOLEAN, worker : [Sources -> Worker]]
Answer == [ok : BOOLEAN, forced : BOOLEAN]

ASSUME BoundsAssumption == {TTL, Cooldown, MaxTime, MaxVersion} \subseteq Nat
ASSUME ClientsAssumption == Readers \cap Healers = {}
ASSUME NoneAssumption == None \notin Versions \cup Times \cup Stored \cup Flight \cup Answer

Empty == [copy |-> None, at |-> 0, failedAt |-> None]

Available == \E s \in Sources : component[s].copy # None

\* A source is due when it has no copy, an old one, or a failure behind it,
\* but not while it cools down.
Due(c) ==
    /\ c.failedAt = None \/ now - c.failedAt >= Cooldown
    /\ c.copy = None \/ c.failedAt # None \/ now - c.at >= TTL

-----------------------------------------------------------------------------
Init ==
    /\ component = [s \in Sources |-> Empty]
    /\ disk = [s \in Sources |-> None]
    /\ flight = None
    /\ pc = [c \in Clients |-> "idle"]
    /\ inbox = [c \in Clients |-> None]
    /\ origin = 0
    /\ now = 0
    /\ hadCopy = [c \in Clients |-> FALSE]
    /\ began = [c \in Clients |-> 0]
    /\ startedAt = 0
    /\ answeredAsOf = [c \in Clients |-> 0]
    /\ lastFailure = [s \in Sources |-> None]

-----------------------------------------------------------------------------
(* Clients *)

Go(c, stage) == pc' = [pc EXCEPT ![c] = stage]

\* A healer is started by a page that was listed, and refreshes at once.
Begin(c) ==
    /\ pc[c] = "idle"
    /\ c \in Healers => Available
    /\ Go(c, IF c \in Healers THEN "join" ELSE "check")
    /\ hadCopy' = [hadCopy EXCEPT ![c] = Available]
    /\ began' = [began EXCEPT ![c] = origin]
    /\ UNCHANGED <<service, inbox, origin, now, startedAt, answeredAsOf, lastFailure>>

Check(c) ==
    /\ pc[c] = "check"
    /\ Go(c, IF \E s \in Sources : Due(component[s]) THEN "join" ELSE "snapshot")
    /\ UNCHANGED <<service, inbox, origin, now, history>>

\* The client waits for the flight under way, or starts one of its own kind.
Join(c) ==
    /\ pc[c] = "join"
    /\ Go(c, "wait")
    /\ flight' = IF flight # None THEN flight
                 ELSE [forced |-> c \in Healers,
                       worker |-> [s \in Sources |-> [stage |-> "read", mine |-> Empty]]]
    /\ startedAt' = IF flight # None THEN startedAt ELSE origin
    /\ UNCHANGED <<component, disk, inbox, origin, now, hadCopy, began, answeredAsOf, lastFailure>>

\* Faulty: healers have no deadline.
GiveUpReaders(c) ==
    /\ pc[c] \in {"check", "join", "wait"}
    /\ c \in Readers
    /\ Go(c, "cancelled")
    /\ inbox' = [inbox EXCEPT ![c] = None]
    /\ UNCHANGED <<service, origin, now, history>>

\* A reader's request is cancelled, a healer's time is up.
GiveUp(c) ==
    /\ pc[c] \in {"check", "join", "wait"}
    /\ Go(c, "cancelled")
    /\ inbox' = [inbox EXCEPT ![c] = None]
    /\ UNCHANGED <<service, origin, now, history>>

\* Faulty: a healer takes the answer of any flight.
ReceiveAny(c) ==
    /\ pc[c] = "wait"
    /\ inbox[c] # None
    /\ Go(c, IF ~inbox[c].ok THEN "unavailable"
             ELSE IF c \in Readers THEN "snapshot" ELSE "healed")
    /\ inbox' = [inbox EXCEPT ![c] = None]
    /\ UNCHANGED <<service, origin, now, history>>

Receive(c) ==
    /\ pc[c] = "wait"
    /\ inbox[c] # None
    /\ Go(c, IF ~inbox[c].ok THEN "unavailable"
             ELSE IF c \in Readers THEN "snapshot"
             ELSE IF inbox[c].forced THEN "healed" ELSE "join")
    /\ inbox' = [inbox EXCEPT ![c] = None]
    /\ UNCHANGED <<service, origin, now, history>>

Snapshot(c) ==
    /\ pc[c] = "snapshot"
    /\ Go(c, IF Available THEN "served" ELSE "unavailable")
    /\ UNCHANGED <<service, inbox, origin, now, history>>

Return(c) ==
    /\ pc[c] \in {"served", "unavailable", "healed", "cancelled"}
    /\ Go(c, "idle")
    /\ hadCopy' = [hadCopy EXCEPT ![c] = FALSE]
    /\ began' = [began EXCEPT ![c] = 0]
    /\ answeredAsOf' = [answeredAsOf EXCEPT ![c] = 0]
    /\ UNCHANGED <<service, inbox, origin, now, startedAt, lastFailure>>

-----------------------------------------------------------------------------
(* The flight's goroutines *)

At(s, stage) == flight # None /\ flight.worker[s].stage = stage

Advance(s, stage, mine) ==
    flight' = [flight EXCEPT !.worker[s] = [stage |-> stage, mine |-> mine]]

\* Faulty: the due check is not made again.
ReadUnchecked(s) ==
    /\ At(s, "read")
    /\ Advance(s, "fetch", component[s])
    /\ UNCHANGED <<component, disk, pc, inbox, origin, now, history>>

\* The due check is made again: another flight may have ended since a reader
\* made it.
Read(s) ==
    /\ At(s, "read")
    /\ Advance(s, IF flight.forced \/ Due(component[s]) THEN "fetch" ELSE "end", component[s])
    /\ UNCHANGED <<component, disk, pc, inbox, origin, now, history>>

FetchSucceeds(s) ==
    /\ At(s, "fetch")
    /\ Advance(s, "store", [copy |-> origin, at |-> now, failedAt |-> None])
    /\ lastFailure' = [lastFailure EXCEPT ![s] = None]
    /\ UNCHANGED <<component, disk, pc, inbox, origin, now, hadCopy, began, startedAt,
                   answeredAsOf>>

\* Faulty: a failure replaces the component.
FetchFailsEmpty(s) ==
    /\ At(s, "fetch")
    /\ Advance(s, "write", [Empty EXCEPT !.failedAt = now])
    /\ lastFailure' = [lastFailure EXCEPT ![s] = now]
    /\ UNCHANGED <<component, disk, pc, inbox, origin, now, hadCopy, began, startedAt,
                   answeredAsOf>>

\* The fetch fails, or what came does not parse.
FetchFails(s) ==
    /\ At(s, "fetch")
    /\ Advance(s, "write", [flight.worker[s].mine EXCEPT !.failedAt = now])
    /\ lastFailure' = [lastFailure EXCEPT ![s] = now]
    /\ UNCHANGED <<component, disk, pc, inbox, origin, now, hadCopy, began, startedAt,
                   answeredAsOf>>

\* Storing on disk can fail without consequence.
Store(s) ==
    LET mine == flight.worker[s].mine
    IN  /\ At(s, "store")
        /\ Advance(s, "write", mine)
        /\ disk' \in {disk, [disk EXCEPT ![s] = [copy |-> mine.copy, at |-> mine.at]]}
        /\ UNCHANGED <<component, pc, inbox, origin, now, history>>

Write(s) ==
    /\ At(s, "write")
    /\ component' = [component EXCEPT ![s] = flight.worker[s].mine]
    /\ Advance(s, "end", flight.worker[s].mine)
    /\ UNCHANGED <<disk, pc, inbox, origin, now, history>>

\* Faulty: only clients of the flight's own kind are answered.
DeliverToItsKind ==
    /\ flight # None
    /\ \A s \in Sources : At(s, "end")
    /\ inbox' = [c \in Clients |-> IF /\ pc[c] = "wait" /\ inbox[c] = None
                                      /\ flight.forced <=> c \in Healers
                                   THEN [ok |-> Available, forced |-> flight.forced]
                                   ELSE inbox[c]]
    /\ flight' = None
    /\ startedAt' = 0
    /\ UNCHANGED <<component, disk, pc, origin, now, hadCopy, began, answeredAsOf, lastFailure>>

\* Faulty: the failure of one source fails the refresh.
DeliverAllOrNothing ==
    /\ flight # None
    /\ \A s \in Sources : At(s, "end")
    /\ inbox' = [c \in Clients |-> IF pc[c] = "wait" /\ inbox[c] = None
                                   THEN [ok |-> \A s \in Sources : component[s].failedAt = None,
                                         forced |-> flight.forced]
                                   ELSE inbox[c]]
    /\ flight' = None
    /\ startedAt' = 0
    /\ answeredAsOf' = [c \in Clients |-> IF pc[c] = "wait" /\ inbox[c] = None
                                          THEN startedAt ELSE answeredAsOf[c]]
    /\ UNCHANGED <<component, disk, pc, origin, now, hadCopy, began, lastFailure>>

\* The flight ends and all who wait learn its outcome and its kind.
Deliver ==
    /\ flight # None
    /\ \A s \in Sources : At(s, "end")
    /\ inbox' = [c \in Clients |-> IF pc[c] = "wait" /\ inbox[c] = None
                                   THEN [ok |-> Available, forced |-> flight.forced]
                                   ELSE inbox[c]]
    /\ flight' = None
    /\ startedAt' = 0
    /\ answeredAsOf' = [c \in Clients |-> IF pc[c] = "wait" /\ inbox[c] = None
                                          THEN startedAt ELSE answeredAsOf[c]]
    /\ UNCHANGED <<component, disk, pc, origin, now, hadCopy, began, lastFailure>>

-----------------------------------------------------------------------------
(* The rest of the system *)

\* The process restarts; each source comes back from disk, unless its file is
\* lost or damaged.
Restart ==
    /\ \E lost \in SUBSET Sources :
          component' = [s \in Sources |->
              IF s \in lost \/ disk[s] = None THEN Empty
              ELSE [copy |-> disk[s].copy, at |-> disk[s].at, failedAt |-> None]]
    /\ flight' = None
    /\ pc' = [c \in Clients |-> "idle"]
    /\ inbox' = [c \in Clients |-> None]
    /\ hadCopy' = [c \in Clients |-> FALSE]
    /\ began' = [c \in Clients |-> 0]
    /\ startedAt' = 0
    /\ answeredAsOf' = [c \in Clients |-> 0]
    /\ lastFailure' = [s \in Sources |-> None]
    /\ UNCHANGED <<disk, origin, now>>

Publish ==
    /\ origin < MaxVersion
    /\ origin' = origin + 1
    /\ UNCHANGED <<service, pc, inbox, now, history>>

Tick ==
    /\ now < MaxTime
    /\ now' = now + 1
    /\ UNCHANGED <<service, pc, inbox, origin, history>>

ClientStep(c) == Check(c) \/ Join(c) \/ Receive(c) \/ Snapshot(c) \/ Return(c)
WorkerStep(s) == Read(s) \/ FetchSucceeds(s) \/ FetchFails(s) \/ Store(s) \/ Write(s)

Next ==
    \/ \E c \in Clients : Begin(c) \/ ClientStep(c) \/ GiveUp(c)
    \/ \E s \in Sources : WorkerStep(s)
    \/ Deliver \/ Restart \/ Publish \/ Tick

Spec == Init /\ [][Next]_vars

\* Goroutines run on, a fetch ends with its flight's context, and a healer's
\* own context ends as well.
FairSpec ==
    /\ Spec
    /\ \A c \in Clients : WF_vars(ClientStep(c))
    /\ \A h \in Healers : WF_vars(GiveUp(h))
    /\ \A s \in Sources : WF_vars(WorkerStep(s))
    /\ WF_vars(Deliver)

-----------------------------------------------------------------------------
(* Properties *)

\* Every variable has its type, and a client waits without an answer only
\* while a flight is under way.
TypeOK ==
    /\ component \in [Sources -> Component]
    /\ disk \in [Sources -> Stored \cup {None}]
    /\ flight \in Flight \cup {None}
    /\ pc \in [Clients -> {"idle", "check", "join", "wait", "snapshot",
                          "served", "unavailable", "healed", "cancelled"}]
    /\ inbox \in [Clients -> Answer \cup {None}]
    /\ {origin, startedAt} \subseteq Versions
    /\ now \in Times
    /\ hadCopy \in [Clients -> BOOLEAN]
    /\ began \in [Clients -> Versions]
    /\ answeredAsOf \in [Clients -> Versions]
    /\ lastFailure \in [Sources -> Times \cup {None}]
    /\ \A c \in Clients : pc[c] = "wait" /\ inbox[c] = None => flight # None

\* While the process runs a source never loses its last good copy to a failed
\* refresh, nor exchanges it for an older one, although each refresh reads the
\* component, lets go of it for a whole fetch, and then overwrites it.
KeepsLastGood ==
    [][\A s \in Sources :
          component[s].copy # None =>
              \/ Restart
              \/ /\ component'[s].copy # None
                 /\ component'[s].copy >= component[s].copy
                 /\ component'[s].at >= component[s].at]_vars

\* An ordinary refresh asks no source during the cool-down of its last
\* failure, also when it was decided on before that failure.
OutageSparesOrigin ==
    [][\A s \in Sources :
          /\ At(s, "read") /\ ~flight.forced
          /\ flight' # None /\ flight'.worker[s].stage = "fetch"
          => lastFailure[s] = None \/ now - lastFailure[s] >= Cooldown]_vars

\* A client that came while any source had a copy is not told that there is no
\* catalogue, whatever fails while it waits.
ServedDespiteOutage ==
    \A c \in Clients : pc[c] = "unavailable" => ~hadCopy[c]

\* A source is as recent as it was at some version, or its refresh failed.
AsRecentAs(version) ==
    \A s \in Sources :
        \/ component[s].failedAt # None
        \/ component[s].copy # None /\ component[s].copy >= version

\* When a healer is through, every source has been replaced since its flight
\* was started, or has failed: joining ordinary refreshes, which leave fresh
\* copies alone, is not enough (catalogue.go:150).
HealerReplacesAll ==
    \A h \in Healers : pc[h] = "healed" => AsRecentAs(answeredAsOf[h])

\* When a healer is through, the catalogue is as recent as the missing page
\* that started it, or a refresh failed (service.go:255-256).
NotFoundHeals ==
    \A h \in Healers : pc[h] = "healed" => AsRecentAs(began[h])

\* Nobody waits for ever: a flight's end reaches all who wait for it, and a
\* healer does not go from one ordinary flight to the next for good.
RefreshesEnd == \A c \in Clients : pc[c] # "idle" ~> pc[c] = "idle"
=============================================================================
