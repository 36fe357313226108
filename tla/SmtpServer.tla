---------------------------- MODULE SmtpServer -----------------------------
(***************************************************************************)
(* The server's life cycle (smtpserver: Server.Serve, Shutdown, Close in   *)
(* server.go) and the connection-level part of handleConn (session.go):    *)
(* the accept loop with its connection semaphore, one goroutine per        *)
(* session with the watcher goroutine that closes the connection when the  *)
(* quit channel is closed, and an application goroutine that calls         *)
(* Shutdown and/or Close.  What a session does between two reads is the    *)
(* business of SmtpSession; here a command either keeps the session going  *)
(* or ends it (QUIT, invalid-command cap).                                 *)
(***************************************************************************)
EXTENDS Naturals, Sequences, FiniteSets

CONSTANTS
  Conns,           \* the client connections that may dial (model values)
  Limits,          \* the values WithMaxConnections may set; 0 = unlimited
  CallSeqs,        \* the call sequences the application may make
  Deadlines,       \* whether the context given to Shutdown may expire
  NoConn           \* Serve holds no accepted connection

ASSUME Limits \subseteq Nat
ASSUME CallSeqs \subseteq Seq({"Shutdown", "Close"})
ASSUME Deadlines \subseteq BOOLEAN

ASSUME NoConn \notin Conns

(***************************************************************************)
(* Phases of a connection.  "idle": not dialed; "backlog": connected, not  *)
(* accepted yet; "accepted": returned by Accept, being placed by Serve;   *)
(* "refused": reset when the listener closed under it;                     *)
(* "rejected": sent 421 at the connection cap; "greet", "top", "read",     *)
(* "cmd": the session goroutine before the banner, at the top of the       *)
(* command loop, blocked in ReadLine, inside a command handler; "gone":    *)
(* the goroutine has returned and run its deferred calls.                  *)
(***************************************************************************)
Live == {"greet", "top", "read", "cmd"}
Phases == {"idle", "backlog", "accepted", "refused", "rejected", "gone"}
            \cup Live

VARIABLES
  listener,    \* Server.listener: "nil", "open", "closed"
  semOn,       \* Server.connSem # nil
  sem,         \* len(Server.connSem): slots held
  wg,          \* the counter of Server.wg
  quitClosed,  \* Server.quit has been closed
  panicked,    \* close of a closed channel: the process has crashed
  servePc,     \* where the Serve goroutine is
  cur,         \* the connection Serve has accepted and is placing
  sess,        \* phase of each connection
  ctxDone,     \* the session's context has been cancelled
  ncClosed,    \* the session's net.Conn has been closed
  watcher,     \* the watcher goroutine: "wait", "closing" (cancelled), "done"
  exitCause,   \* why a session ended: "none", "client", "shutdown421", "dropped"
  ctl,         \* the application goroutine: "idle", "wait" (in Shutdown), "calls"
  calls,       \* the calls the application makes, in order
  callIdx,     \* the next call of calls to make
  shutResult,  \* what Shutdown returned: "none", "nil", "deadline"
  MaxConnections, \* Server.maxConnections, fixed by NewServer
  DeadlineFires   \* the Shutdown context has a deadline that can expire

vars == <<listener, semOn, sem, wg, quitClosed, panicked, servePc, cur, sess,
          ctxDone, ncClosed, watcher, exitCause, ctl, calls, callIdx, shutResult,
          MaxConnections, DeadlineFires>>

connVars == <<sess, ctxDone, ncClosed, watcher, exitCause>>
serverVars == <<listener, semOn, sem, wg, quitClosed, servePc, cur>>
appVars == <<ctl, calls, callIdx, shutResult>>

(***************************************************************************)
(* Helpers translated from the code, each after a plausible-bug variant.   *)
(***************************************************************************)

HasRoomOffByOne == sem <= MaxConnections

\* The non-blocking send "case s.connSem <- struct{}{}" of Serve.
HasRoom == sem < MaxConnections

WgDoneTwice == wg' = wg - 2

WgDoneMissing == wg' = wg

\* defer s.wg.Done() of the session goroutine.
WgDone == wg' = wg - 1

ReleaseSlotMissing == sem' = sem

\* defer func() { <-s.connSem }(), only when a semaphore exists.
ReleaseSlot == sem' = IF semOn THEN sem - 1 ELSE sem

\* close(s.quit): closing it a second time panics.
CloseQuit ==
  IF quitClosed
    THEN panicked' = TRUE /\ UNCHANGED quitClosed
    ELSE quitClosed' = TRUE /\ UNCHANGED panicked

\* ln.Close(): pending connections in the backlog are reset.
CloseListener ==
  /\ listener' = IF listener = "nil" THEN "nil" ELSE "closed"
  /\ sess' = [c \in Conns |->
                IF listener # "nil" /\ sess[c] = "backlog" THEN "refused"
                ELSE sess[c]]

(***************************************************************************)
(* The clients.                                                            *)
(***************************************************************************)

\* A client connects while the listener is open.
Dial(c) ==
  /\ ~panicked
  /\ listener = "open"
  /\ sess[c] = "idle"
  /\ sess' = [sess EXCEPT ![c] = "backlog"]
  /\ UNCHANGED <<serverVars, panicked, ctxDone, ncClosed, watcher, exitCause,
                 appVars>>

(***************************************************************************)
(* Serve.                                                                  *)
(***************************************************************************)

\* Under s.mu: record the listener and create the semaphore.
ServeStart ==
  /\ ~panicked
  /\ servePc = "start"
  /\ listener' = "open"
  /\ semOn' = (MaxConnections > 0)
  /\ servePc' = "accept"
  /\ UNCHANGED <<sem, wg, quitClosed, panicked, cur, connVars, appVars>>

\* ln.Accept returns a connection.
Accept ==
  /\ ~panicked
  /\ servePc = "accept"
  /\ listener = "open"
  /\ \E c \in Conns :
       /\ sess[c] = "backlog"
       /\ cur' = c
       /\ sess' = [sess EXCEPT ![c] = "accepted"]
  /\ servePc' = "limit"
  /\ UNCHANGED <<listener, semOn, sem, wg, quitClosed, panicked, ctxDone,
                 ncClosed, watcher, exitCause, appVars>>

\* ln.Accept fails: Serve returns if quit is closed, else loops.
AcceptFails ==
  /\ ~panicked
  /\ servePc = "accept"
  /\ listener = "closed"
  /\ quitClosed
  /\ servePc' = "returned"
  /\ UNCHANGED <<listener, semOn, sem, wg, quitClosed, panicked, cur, connVars,
                 appVars>>

\* Connection limiting: take a slot, or write 421 and close.
Limit ==
  /\ ~panicked
  /\ servePc = "limit"
  /\ \/ /\ ~semOn
        /\ servePc' = "spawn"
        /\ UNCHANGED <<sem, sess>>
     \/ /\ semOn
        /\ HasRoom
        /\ sem' = sem + 1
        /\ servePc' = "spawn"
        /\ UNCHANGED sess
     \/ /\ semOn
        /\ ~HasRoom
        /\ sess' = [sess EXCEPT ![cur] = "rejected"]
        /\ servePc' = "accept"
        /\ UNCHANGED sem
  /\ UNCHANGED <<listener, semOn, wg, quitClosed, panicked, cur, ctxDone,
                 ncClosed, watcher, exitCause, appVars>>

\* s.wg.Add(1) and go handleConn: the session and its watcher start.
Spawn ==
  /\ ~panicked
  /\ servePc = "spawn"
  /\ wg' = wg + 1
  /\ sess' = [sess EXCEPT ![cur] = "greet"]
  /\ watcher' = [watcher EXCEPT ![cur] = "wait"]
  /\ servePc' = "accept"
  /\ cur' = NoConn
  /\ UNCHANGED <<listener, semOn, sem, quitClosed, panicked, ctxDone, ncClosed,
                 exitCause, appVars>>

(***************************************************************************)
(* A session goroutine (handleConn) and its watcher.  Exit runs the        *)
(* deferred calls: conn.Close, cancel, the semaphore release, wg.Done.     *)
(***************************************************************************)
Exit(c, cause) ==
  /\ sess' = [sess EXCEPT ![c] = "gone"]
  /\ ncClosed' = [ncClosed EXCEPT ![c] = TRUE]
  /\ ctxDone' = [ctxDone EXCEPT ![c] = TRUE]
  /\ exitCause' = [exitCause EXCEPT ![c] = cause]
  /\ ReleaseSlot
  /\ WgDone
  /\ UNCHANGED <<listener, semOn, quitClosed, panicked, servePc, cur, watcher,
                 appVars>>

\* Enter the next phase of the session, nothing else changes.
Step(c, p) ==
  /\ sess' = [sess EXCEPT ![c] = p]
  /\ UNCHANGED <<serverVars, panicked, ctxDone, ncClosed, watcher, exitCause,
                 appVars>>

\* OnConnect may refuse the connection; then the 220 banner is written,
\* which fails on a closed connection.
SessGreet(c) ==
  /\ ~panicked
  /\ sess[c] = "greet"
  /\ \/ Exit(c, "client")
     \/ ncClosed[c] /\ Exit(c, "dropped")
     \/ ~ncClosed[c] /\ Step(c, "top")

\* The select at the top of the command loop: a cancelled context makes
\* the session write 421 (lost if the watcher already closed the
\* connection) and return.
SessTop(c) ==
  /\ ~panicked
  /\ sess[c] = "top"
  /\ IF ctxDone[c]
       THEN Exit(c, IF ncClosed[c] THEN "dropped" ELSE "shutdown421")
       ELSE Step(c, "read")

\* conn.ReadLine under the read deadline: a line arrives, or the client
\* closes or stays silent past the deadline, or the connection was closed
\* by the watcher; an error ends the loop without a reply.
SessRead(c) ==
  /\ ~panicked
  /\ sess[c] = "read"
  /\ \/ ncClosed[c] /\ Exit(c, "dropped")
     \/ ~ncClosed[c] /\ Step(c, "cmd")
     \/ ~ncClosed[c] /\ Exit(c, "client")

\* A command handler: the loop goes on, or the command ends the session
\* (QUIT, the invalid-command cap).
SessCmd(c) ==
  /\ ~panicked
  /\ sess[c] = "cmd"
  /\ \/ Step(c, "top")
     \/ Exit(c, "client")

\* The watcher's select: quit closed (cancel, then close the connection),
\* or the session's context done (the session has returned).
Watch(c) ==
  /\ ~panicked
  /\ watcher[c] = "wait"
  /\ \/ /\ quitClosed
        /\ ctxDone' = [ctxDone EXCEPT ![c] = TRUE]
        /\ watcher' = [watcher EXCEPT ![c] = "closing"]
     \/ /\ ctxDone[c]
        /\ watcher' = [watcher EXCEPT ![c] = "done"]
        /\ UNCHANGED ctxDone
  /\ UNCHANGED <<serverVars, panicked, sess, ncClosed, exitCause, appVars>>

WatchClose(c) ==
  /\ ~panicked
  /\ watcher[c] = "closing"
  /\ ncClosed' = [ncClosed EXCEPT ![c] = TRUE]
  /\ watcher' = [watcher EXCEPT ![c] = "done"]
  /\ UNCHANGED <<serverVars, panicked, sess, ctxDone, exitCause, appVars>>

(***************************************************************************)
(* The application: Shutdown and Close.                                    *)
(***************************************************************************)
NextCall == calls[callIdx]

\* Shutdown up to the wait: close(quit), then under s.mu read the listener
\* and close it if Serve has set one.
ShutdownBegin ==
  /\ ~panicked
  /\ ctl = "idle"
  /\ callIdx <= Len(calls)
  /\ NextCall = "Shutdown"
  /\ CloseQuit
  /\ IF quitClosed
       THEN UNCHANGED <<listener, sess, ctl>>
       ELSE CloseListener /\ ctl' = "wait"
  /\ UNCHANGED <<semOn, sem, wg, servePc, cur, ctxDone, ncClosed, watcher,
                 exitCause, calls, callIdx, shutResult>>

\* The goroutine running wg.Wait closes done; Shutdown returns nil.
ShutdownDone ==
  /\ ~panicked
  /\ ctl = "wait"
  /\ wg = 0
  /\ ctl' = "idle"
  /\ shutResult' = "nil"
  /\ callIdx' = callIdx + 1
  /\ UNCHANGED <<serverVars, panicked, connVars, calls>>

\* The context expires first: Shutdown returns ctx.Err().
ShutdownDeadline ==
  /\ ~panicked
  /\ DeadlineFires
  /\ ctl = "wait"
  /\ ctl' = "idle"
  /\ shutResult' = "deadline"
  /\ callIdx' = callIdx + 1
  /\ UNCHANGED <<serverVars, panicked, connVars, calls>>

\* Close: close(quit), then close the listener if there is one.
Close ==
  /\ ~panicked
  /\ ctl = "idle"
  /\ callIdx <= Len(calls)
  /\ NextCall = "Close"
  /\ CloseQuit
  /\ IF quitClosed
       THEN UNCHANGED <<listener, sess, callIdx>>
       ELSE CloseListener /\ callIdx' = callIdx + 1
  /\ UNCHANGED <<semOn, sem, wg, servePc, cur, ctxDone, ncClosed, watcher,
                 exitCause, ctl, calls, shutResult>>

(***************************************************************************)
(* The specification.                                                      *)
(***************************************************************************)

\* NewServer, and Serve started in its own goroutine.
Init ==
  /\ listener = "nil"
  /\ semOn = FALSE
  /\ sem = 0
  /\ wg = 0
  /\ quitClosed = FALSE
  /\ panicked = FALSE
  /\ servePc = "start"
  /\ cur = NoConn
  /\ sess = [c \in Conns |-> "idle"]
  /\ ctxDone = [c \in Conns |-> FALSE]
  /\ ncClosed = [c \in Conns |-> FALSE]
  /\ watcher = [c \in Conns |-> "none"]
  /\ exitCause = [c \in Conns |-> "none"]
  /\ ctl = "idle"
  /\ calls \in CallSeqs
  /\ callIdx = 1
  /\ shutResult = "none"
  /\ MaxConnections \in Limits
  /\ DeadlineFires \in Deadlines

\* The server's options do not change once it is built.
Fixed == UNCHANGED <<MaxConnections, DeadlineFires>>

ServeLoop == (ServeStart \/ Accept \/ AcceptFails \/ Limit \/ Spawn) /\ Fixed

SessionGoroutine(c) ==
  (SessGreet(c) \/ SessTop(c) \/ SessRead(c) \/ SessCmd(c)) /\ Fixed

WatcherGoroutine(c) == (Watch(c) \/ WatchClose(c)) /\ Fixed

App == (ShutdownBegin \/ ShutdownDone \/ ShutdownDeadline \/ Close) /\ Fixed

Next ==
  \/ \E c \in Conns : (Dial(c) /\ Fixed) \/ SessionGoroutine(c) \/ WatcherGoroutine(c)
  \/ ServeLoop
  \/ App

\* Every goroutine that can run eventually runs (the Go scheduler), and a
\* blocked ReadLine returns by the read deadline.  wg.Wait is released when
\* the counter reaches zero, even if it leaves zero again later: strong
\* fairness.  Clients dialing and the application calling Shutdown or
\* Close are not forced to happen.
Fairness ==
  /\ WF_vars(ServeLoop)
  /\ \A c \in Conns : WF_vars(SessionGoroutine(c)) /\ WF_vars(WatcherGoroutine(c))
  /\ SF_vars(ShutdownDone /\ Fixed)
  /\ WF_vars(ShutdownDeadline /\ Fixed)

Spec == Init /\ [][Next]_vars /\ Fairness

(***************************************************************************)
(* Properties.                                                             *)
(***************************************************************************)

LiveConns == {c \in Conns : sess[c] \in Live}

TypeOK ==
  /\ listener \in {"nil", "open", "closed"}
  /\ {semOn, quitClosed, panicked} \subseteq BOOLEAN
  /\ sem \in Nat /\ wg \in Nat
  /\ servePc \in {"start", "accept", "limit", "spawn", "returned"}
  /\ cur \in Conns \cup {NoConn}
  /\ sess \in [Conns -> Phases]
  /\ ctxDone \in [Conns -> BOOLEAN] /\ ncClosed \in [Conns -> BOOLEAN]
  /\ watcher \in [Conns -> {"none", "wait", "closing", "done"}]
  /\ exitCause \in [Conns -> {"none", "client", "shutdown421", "dropped"}]
  /\ ctl \in {"idle", "wait"}
  /\ callIdx \in 1..Len(calls) + 1
  /\ shutResult \in {"none", "nil", "deadline"}

\* spec.md §8 connection cap: with maxConnections = N > 0, at most N
\* sessions run at once; the (N+1)th is answered 421 by Serve.
ConnectionCap ==
  MaxConnections > 0 => Cardinality(LiveConns) <= MaxConnections

\* spec.md §5: the semaphore is released on every exit path.  A slot is
\* held exactly by the running sessions and the one Serve is spawning.
SlotsAccounted ==
  semOn => sem = Cardinality(LiveConns) + (IF servePc = "spawn" THEN 1 ELSE 0)

\* Shutdown without a deadline returns: the watchers cancel and close every
\* session, each returns and calls wg.Done, and the Wait goroutine sees 0.
ShutdownTerminates == (ctl = "wait") ~> (ctl = "idle")

(***************************************************************************)
(* Statements of the spec and of the documentation that the code does not  *)
(* meet; each is checked by a run that expects a violation.                *)
(***************************************************************************)

\* spec.md §4.4 / graceful-shutdown.md: Shutdown "waits for all active
\* sessions to finish": once it has returned nil, having closed the
\* listener Serve set, no session is running.
ShutdownWaitsForSessions ==
  shutResult = "nil" /\ listener = "closed" => LiveConns = {}

\* After Shutdown or Close the Serve loop returns (ListenAndServe unblocks).
ServeStops == quitClosed ~> servePc = "returned"

====
