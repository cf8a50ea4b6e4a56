------------------------------ MODULE Manager -------------------------------
(***************************************************************************)
(* The connection lifecycle of WebSocket (manager.py): connect(), close()  *)
(* and run(), the message loop, the heartbeat and the age timer as asyncio *)
(* tasks that share one object.  A step runs a task from one suspension    *)
(* point to the next; event handlers are taken not to suspend.             *)
(*                                                                         *)
(* Connections (AsyncTransport objects) are numbered in the order they are *)
(* dialled; the n-th one, once established, has a message loop L(n), and a *)
(* heartbeat H(n) or an age timer A(n) if configured.  connect() runs in   *)
(* the task Caller.  Any of them may be the one that reconnects.           *)
(***************************************************************************)
EXTENDS Naturals, FiniteSets

CONSTANTS Reconnect,    \* reconnect=True
          Timer,        \* "none", "heartbeat" or "age": the timer configured
          Replays,      \* a replay mode is configured
          MaxAttempts,  \* max_attempts of the backoff; 0 is unlimited
          DialErrors,   \* how transport.connect may fail
          Closers,      \* the calls of close()
          MaxConns      \* bound: connections dialled

ASSUME ReconnectAssumption == Reconnect \in BOOLEAN
ASSUME TimerAssumption == Timer \in {"none", "heartbeat", "age"}
ASSUME ReplaysAssumption == Replays \in BOOLEAN
ASSUME MaxAttemptsAssumption == MaxAttempts \in Nat
ASSUME MaxConnsAssumption == MaxConns \in Nat \ {0}
\* "refused": ConnectionError, HandshakeError or TimeoutError of exceptions.py;
\* "raw": any other exception, such as the OSError connection_lost() passes on.
ASSUME DialErrorsAssumption == DialErrors \subseteq {"refused", "raw"}

VARIABLES
    state,            \* _state
    user_closed,      \* _user_closed
    running,          \* _running
    attempt,          \* _attempt: also the number of connections dialled
    boff,             \* _backoff._attempt
    transport,        \* _transport: the connection's number, 0 for None
    heartbeat,        \* _heartbeat: that of connection n, 0 for None
    hbTask,           \* _heartbeat._task is not None
    ageTask,          \* _age_task: A(n), 0 for None
    messageTask,      \* _message_task: L(n), 0 for None
    sock,             \* what became of the socket of each connection
    connected,        \* the connections whose _connected is set
    closing,          \* the connections whose _closing is set
    pc, on,           \* where each task is suspended, and on which connection
    cancelled,        \* tasks with a cancellation to be delivered
    kpc, kon,         \* the same of each close()
    rpc, ron          \* the same of run()

sockVars == <<sock, connected, closing>>
taskVars == <<pc, on, cancelled>>
timerVars == <<heartbeat, hbTask, ageTask>>
callVars == <<user_closed, running>>
closeVars == <<kpc, kon>>
runVars == <<rpc, ron>>
vars == <<state, attempt, boff, transport, messageTask, sockVars, taskVars, timerVars,
          callVars, closeVars, runVars>>

Conns == 1 .. MaxConns
Caller == <<"U", 0>>
L(n) == <<"L", n>>
H(n) == <<"H", n>>
A(n) == <<"A", n>>
Task == {Caller} \cup ({"L", "H", "A"} \X Conns)

Terminal == {"FAILED", "CLOSED"}
States == {"IDLE", "CONNECTING", "CONNECTED", "DISCONNECTING", "BACKING_OFF"} \cup Terminal

Ended(t) == pc[t] \in {"done", "crashed"}

Init == /\ state = "IDLE"
        /\ user_closed = FALSE
        /\ running = FALSE
        /\ attempt = 0
        /\ boff = 0
        /\ transport = 0
        /\ heartbeat = 0
        /\ hbTask = FALSE
        /\ ageTask = 0
        /\ messageTask = 0
        /\ sock = [c \in Conns |-> "none"]
        /\ connected = {}
        /\ closing = {}
        /\ pc = [t \in Task |-> "idle"]
        /\ on = [t \in Task |-> 0]
        /\ cancelled = {}
        /\ kpc = [k \in Closers |-> "idle"]
        /\ kon = [k \in Closers |-> 0]
        /\ rpc = "idle"
        /\ ron = 0
-----------------------------------------------------------------------------
(***************************************************************************)
(* Suspension.  A task that awaits a task it has just cancelled passes its *)
(* own cancellation on to that task (a task that awaits itself does not).  *)
(***************************************************************************)
Awaited(t) == CASE pc[t] = "hbstop"  -> H(on[t])
                [] pc[t] = "agestop" -> A(on[t])
                [] OTHER             -> t

Victim(t) == IF Ended(Awaited(t)) THEN t ELSE Awaited(t)

\* Task t suspends at p, concerning connection c.
Suspend(t, p, c) == /\ pc' = [pc EXCEPT ![t] = p]
                    /\ on' = [on EXCEPT ![t] = c]
                    /\ cancelled' = cancelled \ {t}

\* Task t cancels task u and awaits it at p.
CancelAndAwait(t, p, c, u) == /\ pc' = [pc EXCEPT ![t] = p]
                              /\ on' = [on EXCEPT ![t] = c]
                              /\ cancelled' = (cancelled \ {t}) \cup {Victim(u)}

Return(t) == Suspend(t, "done", 0)

\* An exception leaves task t.  _heartbeat_loop() swallows it and ends.
Raise(t) == Suspend(t, IF t[1] = "H" THEN "done" ELSE "crashed", 0)

HeartbeatLive == heartbeat # 0 /\ hbTask /\ ~Ended(H(heartbeat))
AgeTimerLive == ageTask # 0 /\ ~Ended(A(ageTask))
-----------------------------------------------------------------------------
(***************************************************************************)
(* Connecting and reconnecting.                                            *)
(***************************************************************************)
ConnectInternal(t) == /\ attempt < MaxConns
                      /\ attempt' = attempt + 1
                      /\ state' = "CONNECTING"
                      /\ transport' = attempt + 1
                      /\ Suspend(t, "dial", attempt + 1)
                      /\ UNCHANGED boff

Exhausted == MaxAttempts # 0 /\ boff >= MaxAttempts

\* Mutant of ScheduleReconnect: one attempt too many before giving up.
ScheduleReconnectOnceMore(t) ==
    \/ /\ MaxAttempts # 0 /\ boff > MaxAttempts
       /\ state' = "FAILED"
       /\ Return(t)
       /\ UNCHANGED <<boff, transport, attempt>>
    \/ /\ ~(MaxAttempts # 0 /\ boff > MaxAttempts)
       /\ state' = "BACKING_OFF"
       /\ boff' = boff + 1
       /\ Suspend(t, "sleep", 0)
       /\ UNCHANGED <<transport, attempt>>

\* Mutant of ScheduleReconnect: giving up is not recorded as FAILED.
ScheduleReconnectSilent(t) ==
    \/ /\ Exhausted
       /\ Return(t)
       /\ UNCHANGED <<state, boff, transport, attempt>>
    \/ /\ ~Exhausted
       /\ state' = "BACKING_OFF"
       /\ boff' = boff + 1
       /\ Suspend(t, "sleep", 0)
       /\ UNCHANGED <<transport, attempt>>

ScheduleReconnect(t) == \/ /\ Exhausted
                           /\ state' = "FAILED"
                           /\ Return(t)
                           /\ UNCHANGED <<boff, transport, attempt>>
                        \/ /\ ~Exhausted
                           /\ state' = "BACKING_OFF"
                           /\ boff' = boff + 1
                           /\ Suspend(t, "sleep", 0)
                           /\ UNCHANGED <<transport, attempt>>

\* connect(): only a new object passes the test of the state, because
\* DISCONNECTED never outlives a step.
Connect == /\ pc[Caller] = "idle"
           /\ IF state = "IDLE"
              THEN /\ user_closed' = FALSE
                   /\ running' = TRUE
                   /\ ConnectInternal(Caller)
              ELSE /\ Raise(Caller)
                   /\ UNCHANGED <<callVars, state, attempt, transport, boff>>
           /\ UNCHANGED <<timerVars, messageTask, sockVars, closeVars, runVars>>

\* Mutant of WakeUp: close() is not looked for after the delay.
WakeUpUnchecked(t) == /\ pc[t] = "sleep"
                      /\ t \notin cancelled
                      /\ ConnectInternal(t)
                      /\ UNCHANGED <<callVars, timerVars, messageTask, sockVars,
                                     closeVars, runVars>>

\* The backoff delay of t is over.
WakeUp(t) == /\ pc[t] = "sleep"
             /\ t \notin cancelled
             /\ IF ~running \/ user_closed
                THEN Return(t) /\ UNCHANGED <<state, attempt, transport, boff>>
                ELSE ConnectInternal(t)
             /\ UNCHANGED <<callVars, timerVars, messageTask, sockVars,
                            closeVars, runVars>>

\* Mutant of StartTasks: a message loop that reconnected goes on receiving.
StartTasksLoopGoesOn(t, c) ==
    /\ messageTask' = c
    /\ pc' = [pc EXCEPT ![t] = IF t = Caller THEN "done" ELSE "start",
                        ![L(c)] = "start"]
    /\ on' = [on EXCEPT ![t] = 0]
    /\ UNCHANGED <<cancelled, timerVars>>

\* t has connected c: the tasks of the connection are created, and t ends.
StartTasks(t, c) ==
    /\ IF Timer = "heartbeat" THEN heartbeat' = c /\ hbTask' = TRUE
                              ELSE UNCHANGED <<heartbeat, hbTask>>
    /\ ageTask' = IF Timer = "age" THEN c ELSE ageTask
    /\ messageTask' = c
    /\ pc' = [pc EXCEPT ![t] = "done",
                        ![L(c)] = "start",
                        ![H(c)] = IF Timer = "heartbeat" THEN "beat" ELSE @,
                        ![A(c)] = IF Timer = "age" THEN "age" ELSE @]
    /\ on' = [on EXCEPT ![t] = 0]
    /\ UNCHANGED cancelled

\* transport.connect() succeeds: whatever happened to the object meanwhile, it
\* is CONNECTED again.  After a reconnection the replay comes first.
DialSucceeds(t) ==
    /\ pc[t] = "dial"
    /\ t \notin cancelled
    /\ sock' = [sock EXCEPT ![on[t]] = "open"]
    /\ connected' = connected \cup {on[t]}
    /\ state' = "CONNECTED"
    /\ IF Replays /\ attempt > 1
       THEN Suspend(t, "replay", on[t]) /\ UNCHANGED <<timerVars, messageTask>>
       ELSE StartTasks(t, on[t])
    /\ UNCHANGED <<closing, attempt, boff, transport, callVars, closeVars, runVars>>

\* _replay_on_reconnect() returns: it has swallowed what its callback or its
\* sends raised.  Until then nothing reads the connection.
Replayed(t) == /\ pc[t] = "replay"
               /\ t \notin cancelled
               /\ StartTasks(t, on[t])
               /\ UNCHANGED <<state, attempt, boff, transport, sockVars, callVars,
                              closeVars, runVars>>

\* Mutant of DialRefused: the error is passed on without a reconnection.
DialRefusedRaises(t) == /\ "refused" \in DialErrors
                        /\ pc[t] = "dial"
                        /\ t \notin cancelled
                        /\ Raise(t)
                        /\ UNCHANGED <<state, boff, transport, attempt, callVars, timerVars,
                                       messageTask, sockVars, closeVars, runVars>>

\* transport.connect() fails with an error that _connect_internal() catches.
\* No such error is fatal: HandshakeError is raised without its status code.
DialRefused(t) == /\ "refused" \in DialErrors
                  /\ pc[t] = "dial"
                  /\ t \notin cancelled
                  /\ IF Reconnect
                     THEN ScheduleReconnect(t)
                     ELSE /\ state' = "FAILED"
                          /\ Raise(t)
                          /\ UNCHANGED <<boff, transport, attempt>>
                  /\ UNCHANGED <<callVars, timerVars, messageTask, sockVars,
                                 closeVars, runVars>>

\* transport.connect() fails with an error that nothing in manager.py catches.
DialRaises(t) == /\ "raw" \in DialErrors
                 /\ pc[t] = "dial"
                 /\ t \notin cancelled
                 /\ Raise(t)
                 /\ UNCHANGED <<state, attempt, transport, boff, callVars, timerVars,
                                messageTask, sockVars, closeVars, runVars>>
-----------------------------------------------------------------------------
(***************************************************************************)
(* _handle_disconnect(), in the three pieces its two awaits make of it.    *)
(* None of its callers passes a fatal close code: the message loop passes  *)
(* ABNORMAL whatever code the server sent.                                 *)
(***************************************************************************)
\* Mutant of Disconnected: the disconnect of a closed object is left half done.
DisconnectedNotClosed(t) == \/ /\ Reconnect /\ ~user_closed
                               /\ ScheduleReconnect(t)
                            \/ /\ ~(Reconnect /\ ~user_closed)
                               /\ state' = "DISCONNECTED"
                               /\ Return(t)
                               /\ UNCHANGED <<boff, transport, attempt>>

Disconnected(t) == \/ /\ Reconnect /\ ~user_closed
                      /\ ScheduleReconnect(t)
                   \/ /\ ~(Reconnect /\ ~user_closed)
                      /\ state' = "CLOSED"
                      /\ Return(t)
                      /\ UNCHANGED <<boff, transport, attempt>>

StopAgeTimer(t) == \/ /\ AgeTimerLive
                      /\ CancelAndAwait(t, "agestop", ageTask, A(ageTask))
                      /\ UNCHANGED <<ageTask, state, boff, transport, attempt>>
                   \/ /\ ~AgeTimerLive
                      /\ ageTask' = 0
                      /\ Disconnected(t)

HandleDisconnect(t) == \/ /\ HeartbeatLive
                          /\ CancelAndAwait(t, "hbstop", heartbeat, H(heartbeat))
                          /\ UNCHANGED <<timerVars, state, boff, transport, attempt>>
                       \/ /\ ~HeartbeatLive
                          /\ hbTask' = FALSE
                          /\ UNCHANGED heartbeat
                          /\ StopAgeTimer(t)

Resumable(t) == Ended(Awaited(t)) \/ t \in cancelled

\* The heartbeat task that t stopped has ended; close() may have dropped the
\* HeartbeatManager meanwhile, and then _heartbeat.reset() fails.
HeartbeatStopped(t) ==
    /\ pc[t] = "hbstop"
    /\ Resumable(t)
    /\ hbTask' = (hbTask /\ heartbeat # on[t])
    /\ UNCHANGED heartbeat
    /\ IF heartbeat = 0
       THEN Raise(t) /\ UNCHANGED <<ageTask, state, boff, transport, attempt>>
       ELSE StopAgeTimer(t)
    /\ UNCHANGED <<callVars, messageTask, sockVars, closeVars, runVars>>

AgeTimerStopped(t) ==
    /\ pc[t] = "agestop"
    /\ Resumable(t)
    /\ IF pc[Awaited(t)] = "crashed"
       THEN Raise(t) /\ UNCHANGED <<ageTask, state, boff, transport, attempt>>
       ELSE ageTask' = 0 /\ Disconnected(t)
    /\ UNCHANGED <<heartbeat, hbTask, callVars, messageTask, sockVars,
                   closeVars, runVars>>
-----------------------------------------------------------------------------
(***************************************************************************)
(* The message loop.  It asks for the transport anew at every turn.        *)
(***************************************************************************)

\* recv() meets the end of connection c and raises ConnectionError.
LoseConnection(t, c) == /\ sock' = [sock EXCEPT ![c] = "shut"]
                        /\ connected' = connected \ {c}
                        /\ closing' = IF sock[c] = "closeframe"
                                      THEN closing \cup {c} ELSE closing
                        /\ HandleDisconnect(t)

\* One turn of the loop.  A connection lost before recv() is called leaves no
\* frame and an event that recv() clears: it waits for ever.
LoopTurn(t) ==
    \/ /\ ~(running /\ state = "CONNECTED" /\ transport # 0)
       /\ Return(t)
       /\ UNCHANGED <<sockVars, timerVars, state, boff, transport, attempt>>
    \/ /\ running /\ state = "CONNECTED" /\ transport # 0
       /\ \/ /\ transport \notin connected
             /\ HandleDisconnect(t)
             /\ UNCHANGED sockVars
          \/ /\ transport \in connected
             /\ sock[transport] = "closeframe"
             /\ LoseConnection(t, transport)
          \/ /\ transport \in connected
             /\ sock[transport] # "closeframe"
             /\ Suspend(t, IF sock[transport] = "open" THEN "recv" ELSE "hung", transport)
             /\ UNCHANGED <<sockVars, timerVars, state, boff, transport, attempt>>

MessageLoopStarts(n) == /\ pc[L(n)] = "start"
                        /\ L(n) \notin cancelled
                        /\ LoopTurn(L(n))
                        /\ UNCHANGED <<callVars, messageTask, closeVars, runVars>>

\* A data frame arrives; the loop handles it and goes round.
MessageArrives(n) == /\ pc[L(n)] = "recv"
                     /\ L(n) \notin cancelled
                     /\ sock[on[L(n)]] = "open"
                     /\ LoopTurn(L(n))
                     /\ UNCHANGED <<callVars, messageTask, closeVars, runVars>>

\* The end of the connection the loop waits on wakes it.
MessageLoopLoses(n) == /\ pc[L(n)] = "recv"
                       /\ L(n) \notin cancelled
                       /\ sock[on[L(n)]] # "open"
                       /\ LoseConnection(L(n), on[L(n)])
                       /\ UNCHANGED <<callVars, messageTask, closeVars, runVars>>
-----------------------------------------------------------------------------
(***************************************************************************)
(* The timers, and the delivery of a cancellation.                         *)
(***************************************************************************)
\* Mutant of HandleHeartbeatTimeout: the disconnect is not handled.
HandleHeartbeatTimeoutOnlyMarks(n) ==
    /\ pc[H(n)] = "beat"
    /\ H(n) \notin cancelled
    /\ connected' = connected \ {transport}
    /\ Return(H(n))
    /\ UNCHANGED <<state, attempt, boff, transport, timerVars, sock, closing, callVars,
                   messageTask, closeVars, runVars>>

\* No pong in time.  The transport is only marked as not connected: its socket
\* stays open and its message loop keeps waiting.
HandleHeartbeatTimeout(n) ==
    /\ pc[H(n)] = "beat"
    /\ H(n) \notin cancelled
    /\ connected' = connected \ {transport}
    /\ HandleDisconnect(H(n))
    /\ UNCHANGED <<sock, closing, callVars, messageTask, closeVars, runVars>>

ConnectionAgeTimer(n) ==
    /\ pc[A(n)] = "age"
    /\ A(n) \notin cancelled
    /\ IF state = "CONNECTED"
       THEN connected' = connected \ {transport} /\ HandleDisconnect(A(n))
       ELSE /\ Return(A(n))
            /\ UNCHANGED <<connected, timerVars, state, boff, transport, attempt>>
    /\ UNCHANGED <<sock, closing, callVars, messageTask, closeVars, runVars>>

\* CancelledError ends a task, except where it is suppressed (HeartbeatStopped
\* and AgeTimerStopped take that case).
TaskCancelled(t) ==
    /\ t \in cancelled
    /\ pc[t] \notin {"hbstop", "agestop"}
    /\ Return(t)
    /\ UNCHANGED <<state, attempt, boff, transport, messageTask, sockVars,
                   timerVars, callVars, closeVars, runVars>>
-----------------------------------------------------------------------------
(***************************************************************************)
(* close(), in the pieces its awaits make of it; st is the state it leaves *)
(* while it waits.                                                         *)
(***************************************************************************)
CloseWaits(k, p, c) == /\ kpc' = [kpc EXCEPT ![k] = p]
                       /\ kon' = [kon EXCEPT ![k] = c]

\* Mutant of CloseMessageTask: the message loop is awaited and not cancelled.
CloseMessageTaskNoCancel(k, st) ==
    \/ /\ messageTask # 0 /\ ~Ended(L(messageTask))
       /\ CloseWaits(k, "mtstop", messageTask)
       /\ state' = st
       /\ UNCHANGED <<messageTask, cancelled>>
    \/ /\ messageTask # 0 => Ended(L(messageTask))
       /\ messageTask' = 0
       /\ CloseWaits(k, "returned", 0)
       /\ state' = "CLOSED"
       /\ UNCHANGED cancelled

\* Mutant of CloseMessageTask: the message loop is left alone.
CloseMessageTaskLeft(k, st) == /\ messageTask' = 0
                               /\ CloseWaits(k, "returned", 0)
                               /\ state' = "CLOSED"
                               /\ UNCHANGED cancelled

CloseMessageTask(k, st) ==
    \/ /\ messageTask # 0 /\ ~Ended(L(messageTask))
       /\ cancelled' = cancelled \cup {Victim(L(messageTask))}
       /\ CloseWaits(k, "mtstop", messageTask)
       /\ state' = st
       /\ UNCHANGED messageTask
    \/ /\ messageTask # 0 /\ pc[L(messageTask)] = "crashed"
       /\ CloseWaits(k, "raised", 0)
       /\ state' = st
       /\ UNCHANGED <<messageTask, cancelled>>
    \/ /\ messageTask # 0 => pc[L(messageTask)] = "done"
       /\ messageTask' = 0
       /\ CloseWaits(k, "returned", 0)
       /\ state' = "CLOSED"
       /\ UNCHANGED cancelled

CloseTransport(k, st) ==
    \/ /\ transport \in connected \ closing
       /\ closing' = closing \cup {transport}
       /\ CloseWaits(k, "closing", transport)
       /\ state' = st
       /\ UNCHANGED <<transport, messageTask, cancelled>>
    \/ /\ transport \notin connected \ closing
       /\ transport' = 0
       /\ CloseMessageTask(k, st)
       /\ UNCHANGED closing

CloseAgeTimer(k, st) ==
    \/ /\ AgeTimerLive
       /\ cancelled' = cancelled \cup {Victim(A(ageTask))}
       /\ CloseWaits(k, "agestop", ageTask)
       /\ state' = st
       /\ UNCHANGED <<ageTask, transport, closing, messageTask>>
    \/ /\ ~AgeTimerLive
       /\ ageTask' = 0
       /\ CloseTransport(k, st)

CloseHeartbeat(k, st) ==
    \/ /\ HeartbeatLive
       /\ cancelled' = cancelled \cup {Victim(H(heartbeat))}
       /\ CloseWaits(k, "hbstop", heartbeat)
       /\ state' = st
       /\ UNCHANGED <<timerVars, transport, closing, messageTask>>
    \/ /\ ~HeartbeatLive
       /\ heartbeat' = 0
       /\ hbTask' = FALSE
       /\ CloseAgeTimer(k, st)

Close(k) ==
    /\ kpc[k] = "idle"
    /\ user_closed' = TRUE
    /\ running' = FALSE
    /\ IF state \in Terminal
       THEN /\ CloseWaits(k, "returned", 0)
            /\ UNCHANGED <<state, timerVars, transport, closing, messageTask, cancelled>>
       ELSE CloseHeartbeat(k, IF state = "CONNECTED" THEN "DISCONNECTING" ELSE state)
    /\ UNCHANGED <<attempt, boff, sock, connected, pc, on, runVars>>

\* close() goes on when the heartbeat task it stopped has ended.
CloseHeartbeatStopped(k) ==
    /\ kpc[k] = "hbstop"
    /\ Ended(H(kon[k]))
    /\ heartbeat' = 0
    /\ hbTask' = FALSE
    /\ CloseAgeTimer(k, state)
    /\ UNCHANGED <<callVars, attempt, boff, sock, connected, pc, on, runVars>>

CloseAgeTimerStopped(k) ==
    /\ kpc[k] = "agestop"
    /\ Ended(A(kon[k]))
    /\ IF pc[A(kon[k])] = "crashed"
       THEN /\ CloseWaits(k, "raised", 0)
            /\ UNCHANGED <<state, ageTask, transport, closing, messageTask, cancelled>>
       ELSE ageTask' = 0 /\ CloseTransport(k, state)
    /\ UNCHANGED <<heartbeat, hbTask, callVars, attempt, boff, sock, connected,
                   pc, on, runVars>>

\* transport.close() returns: the close frame came, or a second passed.
CloseTransportClosed(k) ==
    /\ kpc[k] = "closing"
    /\ sock' = [sock EXCEPT ![kon[k]] = "shut"]
    /\ connected' = connected \ {kon[k]}
    /\ transport' = 0
    /\ CloseMessageTask(k, state)
    /\ UNCHANGED <<closing, timerVars, callVars, attempt, boff, pc, on, runVars>>

\* The peer keeps sending and close_timeout cancels transport.close() halfway.
CloseTransportTimesOut(k) ==
    /\ kpc[k] = "closing"
    /\ sock[kon[k]] = "open"
    /\ transport' = 0
    /\ CloseMessageTask(k, state)
    /\ UNCHANGED <<sockVars, timerVars, callVars, attempt, boff, pc, on, runVars>>

CloseMessageTaskStopped(k) ==
    /\ kpc[k] = "mtstop"
    /\ Ended(L(kon[k]))
    /\ IF pc[L(kon[k])] = "crashed"
       THEN CloseWaits(k, "raised", 0) /\ UNCHANGED <<state, messageTask>>
       ELSE /\ messageTask' = 0
            /\ state' = "CLOSED"
            /\ CloseWaits(k, "returned", 0)
    /\ UNCHANGED <<sockVars, taskVars, timerVars, callVars, transport, attempt, boff,
                   runVars>>
-----------------------------------------------------------------------------
\* run() waits for the message loop of the connection it finds.
Run == /\ rpc = "idle"
       /\ pc[Caller] = "done"
       /\ rpc' = IF state \notin {"CONNECTED", "BACKING_OFF"} THEN "raised"
                 ELSE IF messageTask = 0 THEN "returned" ELSE "waiting"
       /\ ron' = IF rpc' = "waiting" THEN messageTask ELSE 0
       /\ UNCHANGED <<state, attempt, boff, transport, messageTask, sockVars,
                      taskVars, timerVars, callVars, closeVars>>

RunEnds == /\ rpc = "waiting"
           /\ Ended(L(ron))
           /\ rpc' = IF pc[L(ron)] = "crashed" THEN "raised" ELSE "returned"
           /\ ron' = 0
           /\ UNCHANGED <<state, attempt, boff, transport, messageTask, sockVars,
                          taskVars, timerVars, callVars, closeVars>>

\* The peer sends a close frame, or the network takes the connection away.
PeerEnds(c) == /\ sock[c] = "open"
               /\ \E how \in {"closeframe", "eof"} :
                     sock' = [sock EXCEPT ![c] = how]
               /\ UNCHANGED <<state, attempt, boff, transport, messageTask,
                              connected, closing, taskVars, timerVars, callVars,
                              closeVars, runVars>>

-----------------------------------------------------------------------------
TaskStep(t) == \/ WakeUp(t)
               \/ DialSucceeds(t)
               \/ DialRefused(t)
               \/ DialRaises(t)
               \/ HeartbeatStopped(t)
               \/ AgeTimerStopped(t)
               \/ TaskCancelled(t)

LoopStep(n) == MessageLoopStarts(n) \/ MessageLoopLoses(n)

CloseStep(k) == \/ CloseHeartbeatStopped(k)
                \/ CloseAgeTimerStopped(k)
                \/ CloseTransportClosed(k)
                \/ CloseTransportTimesOut(k)
                \/ CloseMessageTaskStopped(k)

Next == \/ Connect
        \/ \E t \in Task : TaskStep(t) \/ Replayed(t)
        \/ \E n \in Conns : \/ LoopStep(n)
                            \/ MessageArrives(n)
                            \/ HandleHeartbeatTimeout(n)
                            \/ ConnectionAgeTimer(n)
                            \/ PeerEnds(n)
        \/ \E k \in Closers : Close(k) \/ CloseStep(k)
        \/ Run
        \/ RunEnds

Spec == Init /\ [][Next]_vars
-----------------------------------------------------------------------------
(***************************************************************************)
(* Fairness.  The event loop runs every ready task, sleeps end, a dial has *)
(* a timeout and a silent peer lets the heartbeat time out.  Callers and   *)
(* the peer owe nothing, and a replay need not end: its callback is the    *)
(* application's, and a send may wait for a lost connection to drain.      *)
(***************************************************************************)
PeerIsGone == transport # 0 /\ sock[transport] \in {"closeframe", "eof"}

Fairness == /\ \A t \in Task : WF_vars(TaskStep(t))
            /\ \A n \in Conns : /\ WF_vars(LoopStep(n))
                               /\ WF_vars(PeerIsGone /\ HandleHeartbeatTimeout(n))
                               /\ WF_vars(ConnectionAgeTimer(n))
            /\ \A k \in Closers : WF_vars(CloseStep(k))
            /\ WF_vars(RunEnds)

FairSpec == Spec /\ Fairness
-----------------------------------------------------------------------------
\* Type correctness of the object's fields, its connections and its tasks.
TypeOK == /\ state \in States
          /\ user_closed \in BOOLEAN
          /\ running \in BOOLEAN
          /\ attempt \in 0 .. MaxConns
          /\ boff \in Nat
          /\ transport \in 0 .. MaxConns
          /\ heartbeat \in 0 .. MaxConns
          /\ hbTask \in BOOLEAN
          /\ ageTask \in 0 .. MaxConns
          /\ messageTask \in 0 .. MaxConns
          /\ sock \in [Conns -> {"none", "open", "closeframe", "eof", "shut"}]
          /\ connected \subseteq Conns
          /\ closing \subseteq Conns
          /\ pc \in [Task -> {"idle", "dial", "sleep", "replay", "start", "recv", "hung", "beat",
                              "age", "hbstop", "agestop", "done", "crashed"}]
          /\ on \in [Task -> 0 .. MaxConns]
          /\ cancelled \subseteq Task
          /\ kpc \in [Closers -> {"idle", "hbstop", "agestop", "closing", "mtstop",
                                  "returned", "raised"}]
          /\ kon \in [Closers -> 0 .. MaxConns]
          /\ rpc \in {"idle", "waiting", "returned", "raised"}
          /\ ron \in 0 .. MaxConns

Sleepers == {t \in Task : pc[t] = "sleep"}
Diallers == {t \in Task : pc[t] = "dial"}
Replayers == {t \in Task : pc[t] = "replay"}
Readers == {n \in Conns : pc[L(n)] \in {"start", "recv", "hung"}}

\* However many tasks reconnect at once, the object dials no more often than
\* once per backoff delay it was granted, and max_attempts bounds those.  The
\* count is of the object's whole life: no success resets it.
ReconnectBudget == /\ attempt <= 1 + boff
                   /\ MaxAttempts # 0 => boff <= MaxAttempts

\* Once close() has been called no task starts a new connection, not even one
\* that was asleep in its backoff delay, and nothing takes the call back.
NoDialAfterClose == [][user_closed => user_closed' /\ attempt' = attempt]_vars

\* While nobody has closed the object, CONNECTING means that a task is
\* dialling and BACKING_OFF that a task is waiting to: it cannot be stuck there.
SomeoneReconnects == ~user_closed => /\ state = "CONNECTING" => Diallers # {}
                                     /\ state = "BACKING_OFF" => Sleepers # {}

\* Without timers, one task at most receives, reconnects or replays; the message
\* loop that receives reads the current transport; the sockets of earlier
\* connections are closed.
OneTaskInCharge ==
    /\ Cardinality(Sleepers) + Cardinality(Diallers) + Cardinality(Replayers)
          + Cardinality(Readers) <= 1 \/ user_closed
    /\ \A n \in Readers : pc[L(n)] # "start" => on[L(n)] = transport \/ user_closed
    /\ \A c \in Conns \ {transport} : sock[c] \in {"none", "shut"} \/ user_closed

\* CLOSED and FAILED are final once connect() has returned or raised.
TerminalIsFinal == [][Ended(Caller) /\ state \in Terminal => state' = state]_vars

\* Every call of close() returns, and ends a run() that is waiting, whichever
\* connection that one found.
CloseReturns == /\ \A k \in Closers : kpc[k] # "idle" ~> kpc[k] = "returned"
                /\ user_closed /\ rpc = "waiting" ~> rpc # "waiting"

\* Reconnecting comes to an end: connected again, out of attempts, or closed.
ReconnectSettles ==
    state \in {"CONNECTING", "BACKING_OFF"}
        ~> user_closed \/ state \in {"CONNECTED"} \cup Terminal

\* A connection whose peer is gone does not stay CONNECTED for ever, unless the
\* replay on it never ends: the heartbeat starts after the replay.
DeadConnectionNoticed == \A c \in Conns :
    state = "CONNECTED" /\ transport = c /\ PeerIsGone
        ~> ~(state = "CONNECTED" /\ transport = c) \/ Replayers # {}
=============================================================================
