---------------------------- MODULE ServerProofs ----------------------------
(***************************************************************************)
(* For any connections, any grace and requests of any length: the exit     *)
(* code is honest, and a request that had its time is answered.            *)
(***************************************************************************)
EXTENDS Server, TLAPS

\* The listener exists where HTTP is served, and only a stop closes it.
ListenerRoles ==
    /\ pc \in {"start", "stdio"} => listener = None
    /\ pc \in {"select", "shutdown", "await"} => listener # None
    /\ pc \in {"shutdown", "await"} => signalled
    /\ errCh = "closed" => signalled /\ pc \in {"shutdown", "await", "exited"}
    /\ pc # "exited" => exit = None /\ \A c \in Conns : conn[c] # "cut"

\* A request that had its time when the stop began still has it, by as much as
\* the stop has waited and it has run.
InTime ==
    /\ pc \in {"start", "stdio", "select"} => within = {} /\ waited = 0
    /\ pc = "await" => Active = {}
    /\ \A c \in within :
          /\ conn[c] \in {"running", "answered", "error"}
          /\ conn[c] = "running" => pc = "shutdown" /\ need[c] + waited < Grace

IInv == TypeOK /\ ListenerRoles /\ InTime /\ ExitIsHonest

USE TimesAssumption DEF None

LEMMA InitInv == Init => IInv
  <1> SUFFICES ASSUME Init PROVE IInv
    OBVIOUS
  <1>1. TypeOK
    <2>1. 0 \in 0..MaxNeed /\ 0 \in 0..Grace
      OBVIOUS
    <2>2. need \in [Conns -> 0..MaxNeed]
      BY <2>1 DEF Init
    <2>3. QED
      BY <2>1, <2>2 DEF Init, TypeOK
  <1>2. ListenerRoles /\ InTime /\ ExitIsHonest
    BY DEF Init, ListenerRoles, InTime, ExitIsHonest
  <1>3. QED
    BY <1>1, <1>2 DEF IInv

\* Every way the process ends leaves nothing to wait for: it is enough that the
\* code is honest and no request that has its time is under way.
LEMMA ExitInv ==
    ASSUME IInv, pc # "exited", NEW code \in {"ok", "usage", "runtime"}, Exit(code),
           \A c \in within : conn[c] # "running",
           listener # None =>
              \/ code = "ok" /\ signalled /\ errCh = "closed" /\ Active = {}
              \/ code = "runtime" /\ (errCh = "failed" \/ (signalled /\ waited = Grace))
    PROVE  IInv'
  <1>1. TypeOK'
    BY DEF IInv, TypeOK, Exit
  <1>2. ListenerRoles'
    BY DEF IInv, ListenerRoles, Exit
  <1>3. InTime'
    <2>1. within \subseteq Conns
      BY DEF IInv, TypeOK
    <2>2. \A c \in within : conn'[c] = conn[c] /\ conn[c] \in {"answered", "error"}
      BY <2>1 DEF IInv, InTime, Exit, Active
    <2>3. QED
      BY <2>2 DEF InTime, Exit
  <1>4. ExitIsHonest'
    <2>1. listener # None /\ code = "ok" => \A c \in Conns : conn'[c] # "cut"
      <3>1. ASSUME listener # None, code = "ok", NEW c \in Conns
            PROVE  conn'[c] # "cut"
        <4>1. conn'[c] = conn[c] /\ Active = {}
          BY <3>1 DEF Exit
        <4>2. conn[c] # "cut"
          BY <3>1 DEF IInv, ListenerRoles, Exit
        <4>3. QED
          BY <4>1, <4>2
      <3>2. QED
        BY <3>1
    <2>2. QED
      BY <1>3, <2>1 DEF InTime, ExitIsHonest, Exit
  <1>5. QED
    BY <1>1, <1>2, <1>3, <1>4 DEF IInv

LEMMA StepInv == IInv /\ [Next]_vars => IInv'
  <1> SUFFICES ASSUME IInv, [Next]_vars PROVE IInv'
    OBVIOUS
  <1>1. CASE Quit
    BY <1>1, ExitInv DEF Quit, IInv, ListenerRoles, InTime
  <1>2. CASE ServeStdio
    BY <1>2 DEF ServeStdio, IInv, TypeOK, ListenerRoles, InTime, ExitIsHonest, Active
  <1>3. CASE ServeHTTP
    BY <1>3 DEF ServeHTTP, IInv, TypeOK, ListenerRoles, InTime, ExitIsHonest, Active
  <1>4. CASE StdioEnds
    BY <1>4, ExitInv DEF StdioEnds, IInv, ListenerRoles, InTime
  <1>5. CASE SelectError
    <2>1. errCh = "failed" /\ within = {}
      BY <1>5 DEF SelectError, IInv, TypeOK, ListenerRoles, InTime
    <2>2. QED
      BY <1>5, <2>1, ExitInv DEF SelectError, IInv, ListenerRoles
  <1>6. CASE SelectDone
    <2>1. TypeOK'
      BY <1>6 DEF SelectDone, IInv, TypeOK
    <2>2. ListenerRoles' /\ ExitIsHonest'
      BY <1>6 DEF SelectDone, IInv, ListenerRoles, ExitIsHonest
    <2>3. InTime'
      BY <1>6 DEF SelectDone, IInv, TypeOK, InTime
    <2>4. QED
      BY <2>1, <2>2, <2>3 DEF IInv
  <1>7. CASE Drained
    <2>1. \A c \in within : conn[c] # "running"
      BY <1>7 DEF Drained, Active, IInv, TypeOK
    <2>2. TypeOK' /\ ListenerRoles' /\ ExitIsHonest'
      BY <1>7 DEF Drained, Awaiting, IInv, TypeOK, ListenerRoles, ExitIsHonest
    <2>3. InTime'
      BY <1>7, <2>1 DEF Drained, Awaiting, Active, IInv, InTime
    <2>4. QED
      BY <2>2, <2>3 DEF IInv
  <1>8. CASE GraceOver
    <2>1. \A c \in within : conn[c] # "running"
      <3>1. ASSUME NEW c \in within, conn[c] = "running"
            PROVE  FALSE
        <4>1. need[c] \in Nat /\ need[c] + waited < Grace
          BY <3>1 DEF IInv, TypeOK, InTime
        <4>2. QED
          BY <1>8, <4>1 DEF GraceOver
      <3>2. QED
        BY <3>1
    <2>2. QED
      BY <1>8, <2>1, ExitInv DEF GraceOver, IInv, ListenerRoles
  <1>9. CASE Await
    <2>1. Active = {} /\ \A c \in within : conn[c] # "running"
      BY <1>9 DEF Await, IInv, InTime
    <2>2. errCh \in {"closed", "failed"}
      BY <1>9 DEF Await, IInv, TypeOK
    <2>3. QED
      BY <1>9, <2>1, <2>2, ExitInv DEF Await, IInv, ListenerRoles
  <1>10. CASE pc # "exited" /\ (Bind \/ ListenerFails \/ ListenerCloses \/ Signal)
    <2>1. TypeOK'
      BY <1>10 DEF Bind, ListenerFails, ListenerCloses, Report, Signal, IInv, TypeOK
    <2>2. ListenerRoles' /\ ExitIsHonest'
      BY <1>10 DEF Bind, ListenerFails, ListenerCloses, Report, Stopping, Signal, IInv, ListenerRoles,
                   ExitIsHonest
    <2>3. InTime'
      BY <1>10 DEF Bind, ListenerFails, ListenerCloses, Report, Signal, IInv, InTime, Active
    <2>4. QED
      BY <2>1, <2>2, <2>3 DEF IInv
  <1>11. CASE pc # "exited" /\ Tick
    <2>1. /\ need' \in [Conns -> 0..MaxNeed] /\ waited' \in 0..Grace
          /\ \A c \in Conns : conn[c] = "running" => need'[c] = need[c] - 1
      BY <1>11 DEF Tick, IInv, TypeOK
    <2>2. TypeOK' /\ ListenerRoles' /\ ExitIsHonest'
      BY <1>11, <2>1 DEF Tick, IInv, TypeOK, ListenerRoles, ExitIsHonest
    <2>3. \A c \in within : conn[c] = "running" => need'[c] + waited' < Grace
      BY <1>11, <2>1 DEF Tick, IInv, TypeOK, InTime
    <2>4. InTime'
      BY <1>11, <2>3 DEF Tick, IInv, InTime, Active
    <2>5. QED
      BY <2>2, <2>4 DEF IInv
  <1>12. ASSUME pc # "exited", NEW c \in Conns, Connection(c)
         PROVE  IInv'
    <2>1. TypeOK'
      BY <1>12 DEF Connection, Connect, Request, Answer, Close, Becomes, IInv, TypeOK
    <2>2. ListenerRoles' /\ ExitIsHonest'
      BY <1>12 DEF Connection, Connect, Request, Answer, Close, Becomes, IInv, TypeOK, ListenerRoles,
                   ExitIsHonest
    <2>3. c \in within => Answer(c)
      BY <1>12 DEF Connection, Connect, Request, Close, Becomes, IInv, InTime
    <2>4. InTime'
      <3>1. pc = "await" => Active' = {}
        BY <1>12 DEF Connection, Connect, Request, Answer, Close, Becomes, Active, Stopping, IInv, TypeOK, InTime
      <3>2. ASSUME NEW d \in within
            PROVE  /\ conn'[d] \in {"running", "answered", "error"}
                   /\ conn'[d] = "running" => pc = "shutdown" /\ need'[d] + waited < Grace
        <4>1. d \in Conns
          BY DEF IInv, TypeOK
        <4>2. CASE d = c
          BY <4>1, <4>2, <2>3 DEF Answer, Becomes, IInv, TypeOK
        <4>3. CASE d # c
          BY <1>12, <4>1, <4>3 DEF Connection, Connect, Request, Answer, Close, Becomes, IInv, TypeOK, InTime
        <4>4. QED
          BY <4>2, <4>3
      <3>3. QED
        BY <1>12, <3>1, <3>2 DEF Connection, Connect, Request, Answer, Close, Becomes, IInv, InTime
    <2>5. QED
      BY <2>1, <2>2, <2>4 DEF IInv
  <1>13. CASE UNCHANGED vars
    BY <1>13 DEF vars, IInv, TypeOK, ListenerRoles, InTime, ExitIsHonest, Active
  <1>14. QED
    BY <1>1, <1>2, <1>3, <1>4, <1>5, <1>6, <1>7, <1>8, <1>9, <1>10, <1>11, <1>12, <1>13
    DEF Next, Main, Around

\* Every variable of the process keeps its type.
THEOREM TypesHold == Spec => []TypeOK
  <1>1. IInv => TypeOK
    BY DEF IInv
  <1>2. QED
    BY InitInv, StepInv, <1>1, PTL DEF Spec

\* For any number of connections, any grace and requests of any length, a
\* process that ends well over HTTP was asked to, cut nothing and had no
\* failure of its listener, one that fails had a reason, and a request with
\* time enough is answered (http.go:44-62).
THEOREM ExitIsAlwaysHonest == Spec => []ExitIsHonest
  <1>1. IInv => ExitIsHonest
    BY DEF IInv
  <1>2. QED
    BY InitInv, StepInv, <1>1, PTL DEF Spec
=============================================================================
