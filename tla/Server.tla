------------------------------- MODULE Server -------------------------------
(***************************************************************************)
(* The process: it starts, serves one transport, and stops on a signal or  *)
(* an error, with an exit code that says which.  Over HTTP the listener    *)
(* runs in a goroutine of its own and reports on a channel; a stop closes  *)
(* it and gives the requests under way a grace before the process ends.    *)
(***************************************************************************)
EXTENDS Integers

CONSTANTS Conns,      \* connections clients make, each with one request
          Grace,      \* how long a stop waits for requests
          MaxNeed     \* the longest a request takes

ASSUME TimesAssumption == Grace \in Nat /\ MaxNeed \in Nat

VARIABLES pc,         \* where the main goroutine is
          listener,   \* where the listener's goroutine is
          errCh,      \* the error it has reported
          signalled,
          conn,       \* the state of each connection
          need,       \* the time its request still takes
          waited,     \* how long the stop has waited
          exit,       \* the exit code
          within      \* the requests that had the time they needed when the stop began

vars == <<pc, listener, errCh, signalled, conn, need, waited, exit, within>>

None == "none"

Active == {c \in Conns : conn[c] \in {"open", "running"}}

Init ==
    /\ pc = "start"
    /\ listener = None /\ errCh = None
    /\ signalled = FALSE
    /\ conn = [c \in Conns |-> None]
    /\ need = [c \in Conns |-> 0]
    /\ waited = 0
    /\ exit = None
    /\ within = {}

-----------------------------------------------------------------------------
(* The main goroutine *)

\* The process ends: what is under way is cut.
Exit(code) ==
    /\ pc' = "exited"
    /\ exit' = code
    /\ conn' = [c \in Conns |-> IF c \in Active THEN "cut" ELSE conn[c]]
    /\ UNCHANGED <<listener, errCh, signalled, need, waited, within>>

\* An error in the flags, the question for the version, a base URL refused.
Quit == pc = "start" /\ \E code \in {"usage", "ok", "runtime"} : Exit(code)

\* A disk cache that cannot be opened is done without.
ServeStdio ==
    /\ pc = "start"
    /\ pc' = "stdio"
    /\ UNCHANGED <<listener, errCh, signalled, conn, need, waited, exit, within>>

ServeHTTP ==
    /\ pc = "start"
    /\ pc' = "select" /\ listener' = "binding"
    /\ UNCHANGED <<errCh, signalled, conn, need, waited, exit, within>>

\* The stdio transport fails, or ends with its input or because it must stop.
StdioEnds ==
    /\ pc = "stdio"
    /\ \E failed \in BOOLEAN : Exit(IF failed /\ ~signalled THEN "runtime" ELSE "ok")

\* The listener's error came first, or was drawn.
SelectError == pc = "select" /\ errCh # None /\ Exit("runtime")

\* The stop came first, or was drawn: the listener is closed.
SelectDone ==
    /\ pc = "select" /\ signalled
    /\ pc' = "shutdown"
    /\ within' = {c \in Conns : conn[c] = "running" /\ need[c] < Grace}
    /\ UNCHANGED <<listener, errCh, signalled, conn, need, waited, exit>>

Awaiting ==
    /\ pc' = "await"
    /\ UNCHANGED <<listener, errCh, signalled, conn, need, waited, exit, within>>

\* A faulty variant of Drained: the stop closes the server at once.
DrainedAtOnce == pc = "shutdown" /\ Awaiting

\* No connection has a request under way any more.
Drained == pc = "shutdown" /\ Active = {} /\ Awaiting

GraceOver == pc = "shutdown" /\ waited = Grace /\ Exit("runtime")

\* What the listener reported says how it ended, whenever that was.
Await == pc = "await" /\ errCh # None /\ Exit(IF errCh = "closed" THEN "ok" ELSE "runtime")

-----------------------------------------------------------------------------
(* The listener *)

\* A faulty variant of Report: only failures are reported.
ReportFailures(error) ==
    /\ errCh' = IF error = "closed" THEN errCh ELSE error
    /\ listener' = "returned"
    /\ UNCHANGED <<pc, signalled, conn, need, waited, exit, within>>

Report(error) ==
    /\ errCh' = error
    /\ listener' = "returned"
    /\ UNCHANGED <<pc, signalled, conn, need, waited, exit, within>>

Stopping == pc \in {"shutdown", "await"}

Bind ==
    /\ listener = "binding" /\ ~Stopping
    /\ listener' = "serving"
    /\ UNCHANGED <<pc, errCh, signalled, conn, need, waited, exit, within>>

\* The address is taken, or accepting fails before a stop.
ListenerFails ==
    /\ \/ listener = "binding"
       \/ listener = "serving" /\ ~Stopping
    /\ Report("failed")

\* The stop has closed it.
ListenerCloses == listener \in {"binding", "serving"} /\ Stopping /\ Report("closed")

-----------------------------------------------------------------------------
(* Connections and requests *)

Becomes(c, state) ==
    /\ conn' = [conn EXCEPT ![c] = state]
    /\ UNCHANGED <<pc, listener, errCh, signalled, waited, exit, within>>

Connect(c) ==
    /\ listener = "serving" /\ ~Stopping
    /\ conn[c] = None /\ Becomes(c, "open") /\ UNCHANGED need

\* A request that a foreign page sent is turned away; the process's health is
\* answered at once, a call takes its time.
Request(c) ==
    /\ conn[c] = "open"
    /\ \/ Becomes(c, "forbidden") /\ UNCHANGED need
       \/ /\ Becomes(c, "running")
          /\ \E n \in 0..MaxNeed : need' = [need EXCEPT ![c] = n]

\* The answer; a panic is answered as an error.
Answer(c) ==
    /\ conn[c] = "running" /\ need[c] = 0
    /\ \E result \in {"answered", "error"} : Becomes(c, result)
    /\ UNCHANGED need

\* A connection without a request is closed: by its client, or by a stop.
Close(c) == conn[c] = "open" /\ Becomes(c, "closed") /\ UNCHANGED need

-----------------------------------------------------------------------------
(* The environment *)

\* A second signal changes nothing: the first one's handler stays.
Signal ==
    /\ pc # "start" /\ ~signalled
    /\ signalled' = TRUE
    /\ UNCHANGED <<pc, listener, errCh, conn, need, waited, exit, within>>

\* Time passes while requests run or a stop waits, and for nobody who has
\* something to do at once.
Tick ==
    /\ \E c \in Conns : conn[c] = "running" \/ pc = "shutdown"
    /\ \A c \in Conns : conn[c] = "running" => need[c] > 0
    /\ pc = "shutdown" => Active # {} /\ waited < Grace
    /\ need' = [c \in Conns |-> IF conn[c] = "running" THEN need[c] - 1 ELSE need[c]]
    /\ waited' = IF pc = "shutdown" THEN waited + 1 ELSE waited
    /\ UNCHANGED <<pc, listener, errCh, signalled, conn, exit, within>>

Main == SelectError \/ SelectDone \/ Drained \/ GraceOver \/ Await
Connection(c) == Connect(c) \/ Request(c) \/ Answer(c) \/ Close(c)
Around == Bind \/ ListenerFails \/ ListenerCloses \/ Signal \/ Tick \/ \E c \in Conns : Connection(c)

Next ==
    \/ Quit \/ ServeStdio \/ ServeHTTP \/ StdioEnds
    \/ Main
    \/ pc # "exited" /\ Around

Spec == Init /\ [][Next]_vars

\* The goroutines go on, a transport that is told to stop ends, and a timer
\* runs out; clients may do nothing.
FairSpec ==
    /\ Spec
    /\ WF_vars(Main)
    /\ WF_vars(signalled /\ StdioEnds)
    /\ WF_vars(pc # "exited" /\ (Bind \/ ListenerCloses))
    /\ WF_vars(pc # "exited" /\ Tick)
    /\ \A c \in Conns : WF_vars(pc # "exited" /\ Answer(c))

-----------------------------------------------------------------------------
(* Properties *)

\* Every variable has a value of its type.
TypeOK ==
    /\ pc \in {"start", "stdio", "select", "shutdown", "await", "exited"}
    /\ listener \in {None, "binding", "serving", "returned"}
    /\ errCh \in {None, "closed", "failed"}
    /\ signalled \in BOOLEAN
    /\ conn \in [Conns -> {None, "open", "running", "answered", "error", "forbidden", "closed", "cut"}]
    /\ need \in [Conns -> 0..MaxNeed]
    /\ waited \in 0..Grace
    /\ exit \in {None, "ok", "usage", "runtime"}
    /\ within \subseteq Conns

\* The exit code tells of every failure and of none that was not: however the
\* signal, the listener's error, the grace and the last answers race, a
\* process that ends well over HTTP was asked to, had its listener closed by
\* the stop and cut no request; and a request that had the time it needed when
\* the stop began is answered, whatever the others take (http.go:45-62,
\* main.go:78-85).
ExitIsHonest ==
    /\ exit = "ok" /\ listener # None =>
        /\ signalled /\ errCh = "closed"
        /\ \A c \in Conns : conn[c] # "cut"
    /\ exit = "runtime" /\ listener # None =>
        errCh = "failed" \/ (signalled /\ waited = Grace)
    /\ pc = "exited" => \A c \in within : conn[c] \in {"answered", "error"}

\* A process that is told to stop ends, whatever its clients and its listener
\* do: the stop has an end of its own, and what it then waits for is always
\* reported (http.go:51-60).
StopEnds == signalled ~> (pc = "exited")
=============================================================================
