----------------------------- MODULE SyncClient -----------------------------
(***************************************************************************)
(* SyncWebSocket (sync_client.py): the thread that owns the client and     *)
(* calls connect() and close(), the background thread with the event loop, *)
(* and other threads that receive, iterate, send and register handlers.    *)
(* A step of a thread ends where it blocks, or where what it read of the   *)
(* shared fields may be stale when it is used.                             *)
(*                                                                         *)
(* Messages are numbered as they reach _on_message(); _SHUTDOWN is 0.      *)
(***************************************************************************)
EXTENDS Naturals, Sequences, Filters

CONSTANTS Consumers,       \* threads that call recv() or iterate
          Senders,         \* threads that call send() or send_raw()
          Handlers,        \* event handlers
          RecursionLimit,  \* nested __next__() calls that Python allows
          MaxConnects,     \* bound: calls of connect()
          MaxMsgs          \* bound: messages

VARIABLES
    opc, connects,  \* the owner: where it blocks, how often it called connect()
    thread,         \* _thread is not None
    lpc, stop,      \* the background thread, and whether loop.stop() was called
    started,        \* _started
    loop, mgr,      \* _loop ("none", "open", "closed"), _manager is not None
    live,           \* the WebSocket delivers messages
    closed,         \* _closed
    queue, count,   \* _message_queue, and the messages put into it
    cpc, depth,     \* each consumer, and the nesting of its __next__()
    got,            \* history: what the consumers got, in the order they got it
    marker,         \* history: _SHUTDOWN was not "put", is "queued", or "taken"
    spc,            \* each sender
    pending, mgrH,  \* _pending_handlers, and the handlers of the WebSocket
    want, lostH     \* history: registered by the user, gone with a failed connect()

loopVars == <<lpc, stop, started, loop, mgr, live>>
ownVars == <<opc, connects, thread, closed>>
msgVars == <<queue, count, cpc, depth, got, marker>>
handVars == <<pending, mgrH, want, lostH>>
vars == <<loopVars, ownVars, msgVars, spc, handVars>>

SyncInit == /\ opc = "idle" /\ connects = 0 /\ thread = FALSE
            /\ lpc = "none" /\ stop = FALSE /\ started = FALSE
            /\ loop = "none" /\ mgr = FALSE /\ live = FALSE
            /\ closed = FALSE
            /\ queue = <<>> /\ count = 0
            /\ cpc = [c \in Consumers |-> "idle"]
            /\ depth = [c \in Consumers |-> 0]
            /\ got = <<>> /\ marker = "none"
            /\ spc = [s \in Senders |-> "idle"]
            /\ pending = {} /\ mgrH = {} /\ want = {} /\ lostH = {}
-----------------------------------------------------------------------------
(***************************************************************************)
(* The owner.                                                              *)
(***************************************************************************)
\* connect(): it raises on a closed client or while the thread is alive.
Connect == /\ opc = "idle"
           /\ ~closed
           /\ thread => lpc = "ended"
           /\ connects < MaxConnects
           /\ connects' = connects + 1
           /\ started' = FALSE
           /\ thread' = TRUE
           /\ lpc' = "new"
           /\ stop' = FALSE
           /\ opc' = "starting"
           /\ UNCHANGED <<loop, mgr, live, closed, msgVars, spc, handVars>>

\* _started is set and connect() hands WebSocket.connect() to the loop, which may
\* never run if the thread has failed; one that is closed already refuses.
Submit == /\ opc = "starting"
          /\ started
          /\ opc' = IF loop = "open" THEN "connecting" ELSE "idle"
          /\ UNCHANGED <<connects, thread, closed, loopVars, msgVars, spc, handVars>>

\* Mutant of ShutdownLoop: the loop is not told to stop.
ShutdownLoopSilent == /\ loop' = "none"
                      /\ mgr' = FALSE
                      /\ thread' = FALSE
                      /\ opc' = "joining"
                      /\ lostH' = lostH \cup mgrH
                      /\ mgrH' = {}
                      /\ UNCHANGED stop

\* _shutdown_loop(), up to the join.  It clears _loop before the thread gets to
\* its "finally", which then does nothing.  Handlers go with the WebSocket.
ShutdownLoop == /\ loop' = "none"
                /\ mgr' = FALSE
                /\ thread' = FALSE
                /\ stop' = (stop \/ loop = "open")
                /\ opc' = "joining"
                /\ lostH' = lostH \cup mgrH
                /\ mgrH' = {}

Connected == /\ opc = "connecting"
             /\ lpc = "run"
             /\ opc' = "idle"
             /\ live' = TRUE
             /\ UNCHANGED <<connects, thread, closed, lpc, stop, started, loop, mgr, msgVars,
                            spc, handVars>>

\* The connection fails, or the future does not complete in time.
ConnectFails == /\ opc = "connecting"
                /\ ShutdownLoop
                /\ UNCHANGED <<connects, closed, lpc, started, live, msgVars, spc, pending, want>>

\* close(): one marker, however many consumers wait.
Close == /\ opc = "idle"
         /\ ~closed
         /\ closed' = TRUE
         /\ queue' = Append(queue, 0)
         /\ marker' = "queued"
         /\ IF loop # "none" /\ mgr
            THEN opc' = "closing" /\ UNCHANGED <<thread, stop, loop, mgr, mgrH, lostH>>
            ELSE ShutdownLoop
         /\ UNCHANGED <<connects, lpc, started, live, count, cpc, depth, got, spc, pending,
                        want>>

\* WebSocket.close() returns, raises, or is given up on; it may still be at it.
CloseGoesOn == /\ opc = "closing"
               /\ live' \in {FALSE, live}
               /\ ShutdownLoop
               /\ UNCHANGED <<connects, closed, lpc, started, msgVars, spc, pending, want>>

\* thread.join(): the loop is taken to stop within the five seconds that the
\* join allows, so there is never a second thread.
Joined == /\ opc = "joining"
          /\ lpc \in {"ended", "none"}
          /\ opc' = "idle"
          /\ UNCHANGED <<connects, thread, closed, loopVars, msgVars, spc, handVars>>
-----------------------------------------------------------------------------
(***************************************************************************)
(* The background thread, _run_event_loop().                               *)
(***************************************************************************)
NewLoop == /\ lpc = "new"
           /\ lpc' = "loop"
           /\ loop' = "open"
           /\ UNCHANGED <<stop, started, mgr, live, ownVars, msgVars, spc, handVars>>

NewManager == /\ lpc = "loop"
              /\ lpc' = "manager"
              /\ mgr' = TRUE
              /\ UNCHANGED <<stop, started, loop, live, ownVars, msgVars, spc, handVars>>

\* The WebSocket cannot be made: connect() is released while the loop is open ...
ThreadFails == /\ lpc = "loop"
               /\ lpc' = "failed"
               /\ started' = TRUE
               /\ UNCHANGED <<stop, loop, mgr, live, ownVars, msgVars, spc, handVars>>

\* ... and the "finally" closes it, if _shutdown_loop() has not cleared _loop.
ThreadCleansUp == /\ lpc = "failed"
                  /\ lpc' = "ended"
                  /\ loop' = IF loop = "open" THEN "closed" ELSE loop
                  /\ UNCHANGED <<stop, started, mgr, live, ownVars, msgVars, spc, handVars>>

\* Mutant of MoveHandlers: the handlers of the WebSocket are replaced.
MoveHandlersReplaces == /\ lpc = "manager"
                        /\ lpc' = "run"
                        /\ mgrH' = pending
                        /\ pending' = {}
                        /\ started' = TRUE
                        /\ UNCHANGED <<stop, loop, mgr, live, ownVars, msgVars, spc, want,
                                       lostH>>

\* Under the lock; a handler may have gone to the WebSocket directly meanwhile.
MoveHandlers == /\ lpc = "manager"
                /\ lpc' = "run"
                /\ mgrH' = mgrH \cup pending
                /\ pending' = {}
                /\ started' = TRUE
                /\ UNCHANGED <<stop, loop, mgr, live, ownVars, msgVars, spc, want, lostH>>

\* Mutant of OnMessage: the newest message overtakes.
OnMessageFront == /\ lpc = "run"
                  /\ live
                  /\ count < MaxMsgs
                  /\ count' = count + 1
                  /\ queue' = <<count + 1>> \o queue
                  /\ UNCHANGED <<cpc, depth, got, marker, loopVars, ownVars, spc, handVars>>

OnMessage == /\ lpc = "run"
             /\ live
             /\ count < MaxMsgs
             /\ count' = count + 1
             /\ queue' = Append(queue, count + 1)
             /\ UNCHANGED <<cpc, depth, got, marker, loopVars, ownVars, spc, handVars>>

LoopStops == /\ lpc = "run"
             /\ stop
             /\ lpc' = "ended"
             /\ live' = FALSE
             /\ UNCHANGED <<stop, started, loop, mgr, ownVars, msgVars, spc, handVars>>
-----------------------------------------------------------------------------
(***************************************************************************)
(* Consumers.  "block" is recv() without, "timed" with a timeout, "poll"   *)
(* is __next__(), which asks again every 0.1 s by calling itself.          *)
(***************************************************************************)
Call(c) == /\ cpc[c] = "idle"
           /\ ~(closed /\ queue = <<>>)
           /\ \E how \in {"block", "timed", "poll"} : cpc' = [cpc EXCEPT ![c] = how]
           /\ depth' = [depth EXCEPT ![c] = 1]
           /\ UNCHANGED <<queue, count, got, marker, loopVars, ownVars, spc, handVars>>

Get(c) == /\ cpc[c] \in {"block", "timed", "poll"}
          /\ queue # <<>>
          /\ queue' = Tail(queue)
          /\ IF Head(queue) = 0 THEN marker' = "taken" /\ UNCHANGED got
             ELSE got' = Append(got, Head(queue)) /\ UNCHANGED marker
          /\ cpc' = [cpc EXCEPT ![c] = "idle"]
          /\ depth' = [depth EXCEPT ![c] = 0]
          /\ UNCHANGED <<count, loopVars, ownVars, spc, handVars>>

RecvTimesOut(c) == /\ cpc[c] = "timed"
                   /\ queue = <<>>
                   /\ cpc' = [cpc EXCEPT ![c] = "idle"]
                   /\ depth' = [depth EXCEPT ![c] = 0]
                   /\ UNCHANGED <<queue, count, got, marker, loopVars, ownVars, spc, handVars>>

\* Nothing for 0.1 s: the iteration ends if the client is closed, and otherwise
\* __next__() calls itself, as long as Python lets it.
PollAgain(c) == /\ cpc[c] = "poll"
                /\ queue = <<>>
                /\ IF closed
                   THEN cpc' = [cpc EXCEPT ![c] = "idle"] /\ depth' = [depth EXCEPT ![c] = 0]
                   ELSE IF depth[c] < RecursionLimit
                   THEN depth' = [depth EXCEPT ![c] = @ + 1] /\ UNCHANGED cpc
                   ELSE cpc' = [cpc EXCEPT ![c] = "RecursionError"] /\ UNCHANGED depth
                /\ UNCHANGED <<queue, count, got, marker, loopVars, ownVars, spc, handVars>>
-----------------------------------------------------------------------------
(***************************************************************************)
(* Senders and handlers.                                                   *)
(***************************************************************************)
\* send() looks at _loop and _manager ...
Send(s) == /\ spc[s] = "idle"
           /\ loop # "none" /\ mgr
           /\ spc' = [spc EXCEPT ![s] = "checked"]
           /\ UNCHANGED <<loopVars, ownVars, msgVars, handVars>>

\* ... and uses them, which fails where close() came in between.
SendSubmits(s) == /\ spc[s] = "checked"
                  /\ spc' = [spc EXCEPT ![s] = IF mgr /\ loop = "open" THEN "waiting" ELSE "idle"]
                  /\ UNCHANGED <<loopVars, ownVars, msgVars, handVars>>

\* The future completes; on a stopped loop it never does, and 30 s pass.
SendReturns(s) == /\ spc[s] = "waiting"
                  /\ spc' = [spc EXCEPT ![s] = "idle"]
                  /\ UNCHANGED <<loopVars, ownVars, msgVars, handVars>>

AddHandler(h) == /\ h \notin want
                 /\ want' = want \cup {h}
                 /\ lostH' = lostH \ {h}
                 /\ IF mgr THEN mgrH' = mgrH \cup {h} /\ UNCHANGED pending
                    ELSE pending' = pending \cup {h} /\ UNCHANGED mgrH
                 /\ UNCHANGED <<loopVars, ownVars, msgVars, spc>>

RemoveHandler(h) == /\ h \in want \ lostH
                    /\ want' = want \ {h}
                    /\ IF mgr THEN mgrH' = mgrH \ {h} /\ UNCHANGED pending
                       ELSE pending' = pending \ {h} /\ UNCHANGED mgrH
                    /\ UNCHANGED <<lostH, loopVars, ownVars, msgVars, spc>>

SyncNext == \/ Connect \/ Submit \/ Connected \/ ConnectFails \/ Close \/ CloseGoesOn \/ Joined
            \/ NewLoop \/ NewManager \/ ThreadFails \/ ThreadCleansUp \/ MoveHandlers \/ OnMessage
            \/ LoopStops
            \/ \E c \in Consumers : Call(c) \/ Get(c) \/ RecvTimesOut(c) \/ PollAgain(c)
            \/ \E s \in Senders : Send(s) \/ SendSubmits(s) \/ SendReturns(s)
            \/ \E h \in Handlers : AddHandler(h) \/ RemoveHandler(h)

\* Threads run; futures are waited for with timeouts, a loop told to stop stops.
SyncFairness == /\ WF_vars(Submit) /\ WF_vars(ConnectFails) /\ WF_vars(CloseGoesOn)
                /\ WF_vars(Joined) /\ WF_vars(LoopStops)
                /\ WF_vars(NewLoop) /\ WF_vars(NewManager \/ ThreadFails)
                /\ WF_vars(ThreadCleansUp) /\ WF_vars(MoveHandlers)
                /\ \A c \in Consumers : /\ WF_vars(Get(c)) /\ WF_vars(RecvTimesOut(c))
                                        /\ WF_vars(PollAgain(c))
                /\ \A s \in Senders : WF_vars(SendSubmits(s)) /\ WF_vars(SendReturns(s))

SyncSpec == SyncInit /\ [][SyncNext]_vars /\ SyncFairness
-----------------------------------------------------------------------------
\* Every message that reached the client is received once and in order, by
\* whichever consumer, or still in the queue; the marker costs none.
MessagesKept == got \o Filter(queue, Nat \ {0}) = [i \in 1 .. count |-> i]

\* A handler that was registered, before connect(), while the thread starts or
\* after, is waiting or on the WebSocket.  Only a WebSocket that was given up
\* takes handlers with it: connect() again does not bring them back.
HandlersKept == want \subseteq pending \cup mgrH \cup lostH

\* No caller is left blocked.  After close() a consumer that blocks in recv() is
\* released, unless another consumer has taken the only marker there is, and an
\* iteration ends with the marker or at its next poll.  connect() and close()
\* return: the thread gets as far as releasing connect(), and the one they leave
\* behind ends although its "finally" has lost the loop.  send() returns, also
\* where close() stops the loop under it.
CallersReleased ==
    /\ \A c \in Consumers :
          /\ (closed /\ cpc[c] = "block") ~> (cpc[c] # "block" \/ marker = "taken")
          /\ (closed /\ cpc[c] = "poll") ~> (cpc[c] # "poll")
    /\ (opc # "idle") ~> (opc = "idle")
    /\ \A s \in Senders : (spc[s] # "idle") ~> (spc[s] = "idle")
=============================================================================
