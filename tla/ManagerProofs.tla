---------------------------- MODULE ManagerProofs ---------------------------
(***************************************************************************)
(* Type correctness of the connection manager, its reconnect budget, the   *)
(* finality of close(), that a reconnection always has a task behind it,   *)
(* and, without timers, that it has one task only and that terminal states *)
(* are final: for every configuration, every number of callers of close()  *)
(* and every bound on the connections.                                     *)
(***************************************************************************)
EXTENDS Manager, FiniteSetTheorems, TLAPS

Pcs == {"idle", "dial", "sleep", "replay", "start", "recv", "hung", "beat", "age",
        "hbstop", "agestop", "done", "crashed"}

\* Where a suspended task has a connection on its mind.
Bound == {"dial", "replay", "recv", "hung", "hbstop", "agestop"}

TaskOK == /\ pc \in [Task -> Pcs]
          /\ on \in [Task -> 0 .. MaxConns]
          /\ cancelled \subseteq Task
          /\ \A t \in Task : pc[t] \in Bound => on[t] \in Conns

CoreOK == /\ state \in States
          /\ attempt \in 0 .. MaxConns
          /\ boff \in Nat
          /\ transport \in 0 .. MaxConns

TimerOK == /\ heartbeat \in 0 .. MaxConns
           /\ hbTask \in BOOLEAN
           /\ ageTask \in 0 .. MaxConns

TypeInv == TypeOK /\ \A t \in Task : pc[t] \in Bound => on[t] \in Conns

LEMMA ConnFacts ==
    /\ 0 \in 0 .. MaxConns /\ Conns \subseteq 0 .. MaxConns
    /\ \A c \in 0 .. MaxConns : c # 0 => c \in Conns
    /\ Caller \in Task
    /\ \A n \in Conns : L(n) \in Task /\ H(n) \in Task /\ A(n) \in Task
BY MaxConnsAssumption DEF Conns, Task, Caller, L, H, A

LEMMA SuspendOK ==
    ASSUME TaskOK, NEW t \in Task, NEW p \in Pcs, NEW c \in 0 .. MaxConns,
           p \in Bound => c \in Conns, Suspend(t, p, c)
    PROVE  TaskOK'
BY DEF TaskOK, Suspend, Pcs, Bound, Task, Conns

\* Cancelling a task, or the one it waits for, concerns a task.
LEMMA VictimOK ==
    ASSUME TaskOK, NEW u \in Task
    PROVE  Victim(u) \in Task
<1>1. Awaited(u) \in Task
  BY ConnFacts DEF Awaited, TaskOK, Bound
<1>. QED
  BY <1>1 DEF Victim

LEMMA CancelOK ==
    ASSUME TaskOK, NEW t \in Task, NEW p \in Pcs, NEW c \in Conns, NEW u \in Task,
           CancelAndAwait(t, p, c, u)
    PROVE  TaskOK'
BY VictimOK, ConnFacts DEF TaskOK, CancelAndAwait, Pcs, Bound, Task, Conns

LEMMA ReturnOK ==
    ASSUME TaskOK, NEW t \in Task, Return(t) \/ Raise(t)
    PROVE  TaskOK'
<1>1. Return(t) => TaskOK'
  BY SuspendOK, ConnFacts DEF Return, Pcs, Bound
<1>2. Raise(t) => TaskOK'
  BY SuspendOK, ConnFacts DEF Raise, Pcs, Bound
<1>. QED
  BY <1>1, <1>2
-----------------------------------------------------------------------------
(***************************************************************************)
(* What every step but a dial does to the reconnect budget, and every step *)
(* but close() to an object that is still IDLE.                            *)
(***************************************************************************)
Calm == /\ attempt' = attempt
        /\ \/ boff' = boff /\ Sleepers' \subseteq Sleepers
           \/ /\ ~Exhausted
              /\ boff' = boff + 1
              /\ \E t \in Task : Sleepers' \subseteq Sleepers \cup {t}

\* A connection without a task, and the tasks that dial or replay: each has a
\* connection of its own, whose tasks do not run yet.
Over == {"done", "crashed"}
Dormant == {"idle"} \cup Over
Dialled == {"dial", "replay"}
Unborn(n) == \A u \in {L(n), H(n), A(n)} : pc[u] \in Dormant

FreshInv == /\ \A n \in Conns : n > attempt => Unborn(n)
            /\ \A t \in Task : pc[t] \in Dialled => on[t] <= attempt /\ Unborn(on[t])
            /\ \A t, u \in Task : pc[t] \in Dialled /\ pc[u] \in Dialled /\ on[t] = on[u]
                                  => t = u

\* The two kinds of step that dial: connect(), and the end of a backoff delay.
FirstDial == /\ state = "IDLE" /\ state' = "CONNECTING"
             /\ attempt' = attempt + 1
             /\ boff' = boff
             /\ Sleepers' \subseteq Sleepers

Redial == /\ ~user_closed /\ state' = "CONNECTING"
          /\ attempt' = attempt + 1
          /\ boff' = boff
          /\ \E t \in Sleepers : Sleepers' = Sleepers \ {t}

StaysIdle == state' = "IDLE" => /\ state = "IDLE"
                                /\ user_closed' = user_closed
                                /\ heartbeat' \in {0, heartbeat}
                                /\ ageTask' \in {0, ageTask}
                                /\ messageTask' \in {0, messageTask}
                                /\ connected' \subseteq connected

\* A task that suspends anywhere but in a delay is no sleeper.
LEMMA SuspendSleepers ==
    ASSUME TaskOK, NEW t \in Task, NEW p, NEW c, p # "sleep", Suspend(t, p, c)
    PROVE  Sleepers' = Sleepers \ {t}
BY DEF TaskOK, Suspend, Sleepers

LEMMA SleepSleepers ==
    ASSUME TaskOK, NEW t \in Task, NEW c, Suspend(t, "sleep", c)
    PROVE  Sleepers' = Sleepers \cup {t}
BY DEF TaskOK, Suspend, Sleepers

LEMMA CancelSleepers ==
    ASSUME TaskOK, NEW t \in Task, NEW p, NEW c, NEW u, p # "sleep",
           CancelAndAwait(t, p, c, u)
    PROVE  Sleepers' \subseteq Sleepers
BY DEF TaskOK, CancelAndAwait, Sleepers

LEMMA ReturnSleepers ==
    ASSUME TaskOK, NEW t \in Task, Return(t) \/ Raise(t)
    PROVE  Sleepers' = Sleepers \ {t}
<1>1. Return(t) => Sleepers' = Sleepers \ {t}
  BY SuspendSleepers DEF Return
<1>2. Raise(t) => Sleepers' = Sleepers \ {t}
  BY SuspendSleepers DEF Raise
<1>. QED
  BY <1>1, <1>2
-----------------------------------------------------------------------------
(***************************************************************************)
(* The pieces of _schedule_reconnect() and _handle_disconnect().           *)
(***************************************************************************)
LEMMA ScheduleReconnectOK ==
    ASSUME TaskOK, CoreOK, NEW t \in Task, ScheduleReconnect(t)
    PROVE  TaskOK' /\ CoreOK' /\ Calm /\ state' # "IDLE"
<1>1. CASE Exhausted
  <2>1. Return(t) /\ state' = "FAILED" /\ UNCHANGED <<boff, transport, attempt>>
    BY <1>1 DEF ScheduleReconnect
  <2>2. TaskOK' /\ Sleepers' \subseteq Sleepers
    BY <2>1, ReturnOK, ReturnSleepers
  <2>. QED
    BY <2>1, <2>2 DEF CoreOK, Calm, States, Terminal
<1>2. CASE ~Exhausted
  <2>1. /\ Suspend(t, "sleep", 0)
        /\ state' = "BACKING_OFF"
        /\ boff' = boff + 1
        /\ UNCHANGED <<transport, attempt>>
    BY <1>2 DEF ScheduleReconnect
  <2>2. TaskOK'
    BY <2>1, SuspendOK, ConnFacts DEF Pcs, Bound
  <2>3. Sleepers' = Sleepers \cup {t}
    BY <2>1, SleepSleepers
  <2>4. Calm
    BY <1>2, <2>1, <2>3 DEF Calm
  <2>. QED
    BY <2>1, <2>2, <2>4 DEF CoreOK, States, Terminal
<1>. QED
  BY <1>1, <1>2

LEMMA DisconnectedOK ==
    ASSUME TaskOK, CoreOK, NEW t \in Task, Disconnected(t)
    PROVE  TaskOK' /\ CoreOK' /\ Calm /\ state' # "IDLE"
<1>1. CASE Reconnect /\ ~user_closed
  BY <1>1, ScheduleReconnectOK DEF Disconnected
<1>2. CASE ~(Reconnect /\ ~user_closed)
  <2>1. Return(t) /\ state' = "CLOSED" /\ UNCHANGED <<boff, transport, attempt>>
    BY <1>2 DEF Disconnected
  <2>2. TaskOK' /\ Sleepers' \subseteq Sleepers
    BY <2>1, ReturnOK, ReturnSleepers
  <2>. QED
    BY <2>1, <2>2 DEF CoreOK, Calm, States, Terminal
<1>. QED
  BY <1>1, <1>2

\* A step of t that leaves everything but t itself as it is.
LEMMA QuietOK ==
    ASSUME TaskOK, CoreOK, NEW t \in Task, Return(t) \/ Raise(t),
           UNCHANGED <<state, boff, transport, attempt>>
    PROVE  TaskOK' /\ CoreOK' /\ Calm
BY ReturnOK, ReturnSleepers DEF CoreOK, Calm

LEMMA AwaitOK ==
    ASSUME TaskOK, CoreOK, NEW t \in Task, NEW u \in Task, NEW c \in Conns,
           NEW p \in {"hbstop", "agestop"},
           CancelAndAwait(t, p, c, u), UNCHANGED <<state, boff, transport, attempt>>
    PROVE  TaskOK' /\ CoreOK' /\ Calm
<1>1. TaskOK'
  BY CancelOK DEF Pcs
<1>2. Sleepers' \subseteq Sleepers
  BY CancelSleepers
<1>. QED
  BY <1>1, <1>2 DEF CoreOK, Calm

LEMMA StopAgeTimerOK ==
    ASSUME TaskOK, CoreOK, TimerOK, NEW t \in Task, StopAgeTimer(t)
    PROVE  /\ TaskOK' /\ CoreOK' /\ Calm
           /\ ageTask' \in {0, ageTask}
           /\ state' = "IDLE" => state = "IDLE"
<1>1. CASE AgeTimerLive
  <2>1. /\ CancelAndAwait(t, "agestop", ageTask, A(ageTask))
        /\ UNCHANGED <<ageTask, state, boff, transport, attempt>>
    BY <1>1 DEF StopAgeTimer
  <2>2. ageTask \in Conns /\ A(ageTask) \in Task
    BY <1>1, ConnFacts DEF AgeTimerLive, TimerOK
  <2>. QED
    BY <2>1, <2>2, AwaitOK
<1>2. CASE ~AgeTimerLive
  BY <1>2, DisconnectedOK DEF StopAgeTimer
<1>. QED
  BY <1>1, <1>2

LEMMA HandleDisconnectOK ==
    ASSUME TaskOK, CoreOK, TimerOK, NEW t \in Task, HandleDisconnect(t)
    PROVE  /\ TaskOK' /\ CoreOK' /\ TimerOK' /\ Calm
           /\ heartbeat' = heartbeat /\ ageTask' \in {0, ageTask}
           /\ state' = "IDLE" => state = "IDLE"
<1>1. CASE HeartbeatLive
  <2>1. /\ CancelAndAwait(t, "hbstop", heartbeat, H(heartbeat))
        /\ UNCHANGED <<heartbeat, hbTask, ageTask, state, boff, transport, attempt>>
    BY <1>1 DEF HandleDisconnect, timerVars
  <2>2. heartbeat \in Conns /\ H(heartbeat) \in Task
    BY <1>1, ConnFacts DEF HeartbeatLive, TimerOK
  <2>3. TaskOK' /\ CoreOK' /\ Calm
    BY <2>1, <2>2, AwaitOK
  <2>. QED
    BY <2>1, <2>3 DEF TimerOK
<1>2. CASE ~HeartbeatLive
  <2>1. hbTask' = FALSE /\ heartbeat' = heartbeat /\ StopAgeTimer(t)
    BY <1>2 DEF HandleDisconnect
  <2>. QED
    BY <2>1, StopAgeTimerOK, ConnFacts DEF TimerOK
<1>. QED
  BY <1>1, <1>2
-----------------------------------------------------------------------------
(***************************************************************************)
(* One step of each task.                                                  *)
(***************************************************************************)
NetOK == /\ sock \in [Conns -> {"none", "open", "closeframe", "eof", "shut"}]
         /\ connected \subseteq Conns
         /\ closing \subseteq Conns

CallOK == /\ user_closed \in BOOLEAN
          /\ running \in BOOLEAN
          /\ messageTask \in 0 .. MaxConns
          /\ kpc \in [Closers -> {"idle", "hbstop", "agestop", "closing", "mtstop",
                                  "returned", "raised"}]
          /\ kon \in [Closers -> 0 .. MaxConns]
          /\ rpc \in {"idle", "waiting", "returned", "raised"}
          /\ ron \in 0 .. MaxConns

LEMMA TypeInvIs ==
    /\ TypeInv => TaskOK /\ CoreOK /\ TimerOK /\ NetOK /\ CallOK
    /\ TaskOK' /\ CoreOK' /\ TimerOK' /\ NetOK' /\ CallOK' => TypeInv'
BY DEF TypeInv, TypeOK, TaskOK, CoreOK, TimerOK, NetOK, CallOK, Pcs

\* What each step but connect() and close() is shown to do.
Tame == TypeInv' /\ Calm /\ StaysIdle /\ user_closed' = user_closed

LEMMA ConnectInternalOK ==
    ASSUME TaskOK, CoreOK, NEW t \in Task, ConnectInternal(t)
    PROVE  /\ TaskOK' /\ CoreOK'
           /\ Sleepers' = Sleepers \ {t}
           /\ attempt' = attempt + 1 /\ boff' = boff /\ state' = "CONNECTING"
<1>1. attempt + 1 \in Conns
  BY MaxConnsAssumption DEF ConnectInternal, CoreOK, Conns
<1>2. TaskOK'
  BY <1>1, ConnFacts, SuspendOK DEF ConnectInternal, Pcs
<1>3. Sleepers' = Sleepers \ {t}
  BY SuspendSleepers DEF ConnectInternal
<1>4. CoreOK'
  BY <1>1, ConnFacts DEF ConnectInternal, CoreOK, States
<1>. QED
  BY <1>2, <1>3, <1>4 DEF ConnectInternal

LEMMA WakeUpOK ==
    ASSUME TypeInv, NEW t \in Task, WakeUp(t)
    PROVE  TypeInv' /\ StaysIdle /\ user_closed' = user_closed /\ (Calm \/ Redial)
<1>. USE TypeInvIs
<1>1. /\ TimerOK' /\ NetOK' /\ CallOK'
      /\ UNCHANGED <<user_closed, heartbeat, ageTask, messageTask, connected>>
  BY DEF WakeUp, callVars, timerVars, sockVars, closeVars, runVars, TimerOK, NetOK, CallOK
<1>2. CASE ~running \/ user_closed
  <2>1. Return(t) /\ UNCHANGED <<state, attempt, transport, boff>>
    BY <1>2 DEF WakeUp
  <2>. QED
    BY <1>1, <2>1, QuietOK DEF StaysIdle
<1>3. CASE ~(~running \/ user_closed)
  <2>1. ConnectInternal(t) /\ t \in Sleepers
    BY <1>3 DEF WakeUp, Sleepers
  <2>. QED
    BY <1>1, <1>3, <2>1, ConnectInternalOK DEF StaysIdle, Redial
<1>. QED
  BY <1>2, <1>3

\* The tasks of connection c start, and t is over.
LEMMA StartTasksMoves ==
    ASSUME TaskOK, NEW t \in Task, NEW c \in Conns, StartTasks(t, c)
    PROVE  /\ pc' \in [Task -> Pcs] /\ on' \in [Task -> 0 .. MaxConns]
           /\ cancelled' = cancelled
           /\ \A u \in Task : \/ pc'[u] \in {"done", "start", "beat", "age"}
                              \/ u # t /\ pc'[u] = pc[u] /\ on'[u] = on[u]
           /\ \A u \in Task : \/ u \in {L(c), H(c), A(c)}
                              \/ u = t /\ pc'[u] = "done"
                              \/ u # t /\ pc'[u] = pc[u] /\ on'[u] = on[u]
<1>1. L(c) \in Task /\ H(c) \in Task /\ A(c) \in Task
  BY ConnFacts
<1>2. /\ pc' = [pc EXCEPT ![t] = "done",
                          ![L(c)] = "start",
                          ![H(c)] = IF Timer = "heartbeat" THEN "beat" ELSE @,
                          ![A(c)] = IF Timer = "age" THEN "age" ELSE @]
      /\ on' = [on EXCEPT ![t] = 0]
      /\ cancelled' = cancelled
  BY DEF StartTasks
<1>3. \A u \in Task : \/ pc'[u] \in {"done", "start", "beat", "age"}
                      \/ u # t /\ pc'[u] = pc[u] /\ on'[u] = on[u]
  BY <1>1, <1>2 DEF TaskOK
<1>4. \A u \in Task : \/ u \in {L(c), H(c), A(c)}
                      \/ u = t /\ pc'[u] = "done"
                      \/ u # t /\ pc'[u] = pc[u] /\ on'[u] = on[u]
  BY <1>1, <1>2 DEF TaskOK
<1>5. pc' \in [Task -> Pcs]
  BY <1>1, <1>2 DEF TaskOK, Pcs
<1>6. on' \in [Task -> 0 .. MaxConns]
  BY <1>2, ConnFacts DEF TaskOK
<1>. QED
  BY <1>2, <1>3, <1>4, <1>5, <1>6

LEMMA StartTasksOK ==
    ASSUME TaskOK, TimerOK, NEW t \in Task, NEW c \in Conns, StartTasks(t, c)
    PROVE  TaskOK' /\ TimerOK' /\ messageTask' \in 0 .. MaxConns /\ Sleepers' \subseteq Sleepers
<1>1. TaskOK'
  BY StartTasksMoves DEF TaskOK, Bound
<1>2. TimerOK' /\ messageTask' \in 0 .. MaxConns
  BY ConnFacts DEF StartTasks, TimerOK
<1>3. Sleepers' \subseteq Sleepers
  BY StartTasksMoves DEF Sleepers
<1>. QED
  BY <1>1, <1>2, <1>3

LEMMA DialSucceedsOK ==
    ASSUME TypeInv, NEW t \in Task, DialSucceeds(t)
    PROVE  Tame
<1>. USE TypeInvIs
<1>. DEFINE c == on[t]
<1>1. c \in Conns
  BY DEF DialSucceeds, TaskOK, Bound
<1>2. TaskOK' /\ TimerOK' /\ messageTask' \in 0 .. MaxConns /\ Sleepers' \subseteq Sleepers
  <2>1. CASE Suspend(t, "replay", c) /\ UNCHANGED <<timerVars, messageTask>>
    <3>1. TaskOK'
      BY <1>1, <2>1, SuspendOK, ConnFacts DEF Pcs
    <3>2. Sleepers' \subseteq Sleepers
      BY <2>1, SuspendSleepers
    <3>. QED
      BY <2>1, <3>1, <3>2 DEF TimerOK, timerVars, CallOK
  <2>2. CASE StartTasks(t, c)
    BY <1>1, <2>2, StartTasksOK
  <2>. QED
    BY <2>1, <2>2 DEF DialSucceeds
<1>3. CoreOK' /\ state' = "CONNECTED"
  BY DEF DialSucceeds, CoreOK, States
<1>4. NetOK'
  BY <1>1 DEF DialSucceeds, NetOK
<1>5. CallOK' /\ user_closed' = user_closed
  BY <1>2 DEF DialSucceeds, CallOK, callVars, closeVars, runVars
<1>6. Calm
  BY <1>2 DEF DialSucceeds, Calm
<1>. QED
  BY <1>2, <1>3, <1>4, <1>5, <1>6 DEF Tame, StaysIdle

\* A replay is only ever part of a reconnection.
LEMMA ReplayedOK ==
    ASSUME TypeInv, FreshInv, state = "IDLE" => attempt = 0, NEW t \in Task, Replayed(t)
    PROVE  Tame
<1>. USE TypeInvIs
<1>. DEFINE c == on[t]
<1>1. c \in Conns /\ pc[t] = "replay"
  BY DEF Replayed, TaskOK, Bound
<1>2. state # "IDLE"
  <2>1. c <= attempt
    BY <1>1 DEF FreshInv, Dialled
  <2>2. attempt # 0
    BY <1>1, <2>1, MaxConnsAssumption DEF Conns
  <2>. QED
    BY <2>2
<1>3. StartTasks(t, c)
  BY DEF Replayed
<1>. HIDE DEF c
<1>4. TaskOK' /\ TimerOK' /\ messageTask' \in 0 .. MaxConns /\ Sleepers' \subseteq Sleepers
  BY <1>1, <1>3, StartTasksOK
<1>5. /\ CoreOK' /\ NetOK' /\ CallOK'
      /\ UNCHANGED <<state, attempt, boff, user_closed>>
  BY <1>4 DEF Replayed, CoreOK, NetOK, CallOK, sockVars, callVars, closeVars, runVars
<1>. QED
  BY <1>2, <1>4, <1>5 DEF Tame, StaysIdle, Calm

LEMMA DialFailsOK ==
    ASSUME TypeInv, NEW t \in Task, DialRefused(t) \/ DialRaises(t)
    PROVE  Tame
<1>. USE TypeInvIs
<1>1. /\ TimerOK' /\ NetOK' /\ CallOK'
      /\ UNCHANGED <<user_closed, heartbeat, ageTask, messageTask, connected>>
  BY DEF DialRefused, DialRaises, callVars, timerVars, sockVars, closeVars, runVars,
         TimerOK, NetOK, CallOK
<1>2. CASE DialRefused(t) /\ Reconnect
  BY <1>1, <1>2, ScheduleReconnectOK DEF DialRefused, Tame, StaysIdle
<1>3. CASE DialRefused(t) /\ ~Reconnect
  <2>1. Raise(t) /\ state' = "FAILED" /\ UNCHANGED <<boff, transport, attempt>>
    BY <1>3 DEF DialRefused
  <2>2. TaskOK' /\ Sleepers' \subseteq Sleepers
    BY <2>1, ReturnOK, ReturnSleepers
  <2>. QED
    BY <1>1, <2>1, <2>2 DEF CoreOK, Calm, States, Terminal, Tame, StaysIdle
<1>4. CASE DialRaises(t)
  <2>1. Raise(t) /\ UNCHANGED <<state, attempt, transport, boff>>
    BY <1>4 DEF DialRaises
  <2>. QED
    BY <1>1, <2>1, QuietOK DEF Tame, StaysIdle
<1>. QED
  BY <1>2, <1>3, <1>4

LEMMA HeartbeatStoppedOK ==
    ASSUME TypeInv, NEW t \in Task, HeartbeatStopped(t)
    PROVE  Tame
<1>. USE TypeInvIs
<1>1. /\ NetOK' /\ CallOK'
      /\ UNCHANGED <<user_closed, heartbeat, messageTask, connected>>
  BY DEF HeartbeatStopped, callVars, sockVars, closeVars, runVars, NetOK, CallOK
<1>2. hbTask' \in BOOLEAN
  BY DEF HeartbeatStopped
<1>3. CASE heartbeat = 0
  <2>1. Raise(t) /\ UNCHANGED <<ageTask, state, boff, transport, attempt>>
    BY <1>3 DEF HeartbeatStopped
  <2>. QED
    BY <1>1, <1>2, <2>1, QuietOK DEF Tame, StaysIdle, TimerOK
<1>4. CASE heartbeat # 0
  <2>1. StopAgeTimer(t)
    BY <1>4 DEF HeartbeatStopped
  <2>. QED
    BY <1>1, <1>2, <2>1, StopAgeTimerOK, ConnFacts DEF Tame, StaysIdle, TimerOK
<1>. QED
  BY <1>3, <1>4

LEMMA AgeTimerStoppedOK ==
    ASSUME TypeInv, NEW t \in Task, AgeTimerStopped(t)
    PROVE  Tame
<1>. USE TypeInvIs
<1>1. /\ NetOK' /\ CallOK'
      /\ UNCHANGED <<user_closed, heartbeat, hbTask, messageTask, connected>>
  BY DEF AgeTimerStopped, callVars, sockVars, closeVars, runVars, NetOK, CallOK
<1>2. CASE pc[Awaited(t)] = "crashed"
  <2>1. Raise(t) /\ UNCHANGED <<ageTask, state, boff, transport, attempt>>
    BY <1>2 DEF AgeTimerStopped
  <2>. QED
    BY <1>1, <2>1, QuietOK DEF Tame, StaysIdle, TimerOK
<1>3. CASE pc[Awaited(t)] # "crashed"
  <2>1. ageTask' = 0 /\ Disconnected(t)
    BY <1>3 DEF AgeTimerStopped
  <2>. QED
    BY <1>1, <2>1, DisconnectedOK, ConnFacts DEF Tame, StaysIdle, TimerOK
<1>. QED
  BY <1>2, <1>3

LEMMA TaskCancelledOK ==
    ASSUME TypeInv, NEW t \in Task, TaskCancelled(t)
    PROVE  Tame
<1>. USE TypeInvIs
<1>1. /\ TimerOK' /\ NetOK' /\ CallOK'
      /\ UNCHANGED <<user_closed, heartbeat, ageTask, messageTask, connected>>
  BY DEF TaskCancelled, callVars, timerVars, sockVars, closeVars, runVars,
         TimerOK, NetOK, CallOK
<1>2. Return(t) /\ UNCHANGED <<state, boff, transport, attempt>>
  BY DEF TaskCancelled
<1>. QED
  BY <1>1, <1>2, QuietOK DEF Tame, StaysIdle

\* What a turn of the message loop needs besides _handle_disconnect().
LEMMA LoseConnectionOK ==
    ASSUME TypeInv, NEW t \in Task, NEW c \in Conns, LoseConnection(t, c),
           UNCHANGED <<callVars, messageTask, closeVars, runVars>>
    PROVE  Tame
<1>. USE TypeInvIs
<1>1. NetOK' /\ connected' \subseteq connected
  BY DEF LoseConnection, NetOK
<1>2. CallOK' /\ UNCHANGED <<user_closed, messageTask>>
  BY DEF CallOK, callVars, closeVars, runVars
<1>3. HandleDisconnect(t)
  BY DEF LoseConnection
<1>. QED
  BY <1>1, <1>2, <1>3, HandleDisconnectOK DEF Tame, StaysIdle

LEMMA LoopTurnOK ==
    ASSUME TypeInv, NEW t \in Task, LoopTurn(t),
           UNCHANGED <<callVars, messageTask, closeVars, runVars>>
    PROVE  Tame
<1>. USE TypeInvIs
<1>1. CallOK' /\ UNCHANGED <<user_closed, messageTask>>
  BY DEF CallOK, callVars, closeVars, runVars
<1>2. CASE ~(running /\ state = "CONNECTED" /\ transport # 0)
  <2>1. /\ Return(t)
        /\ UNCHANGED <<sock, connected, closing, heartbeat, hbTask, ageTask, state, boff,
                       transport, attempt>>
    BY <1>2 DEF LoopTurn, sockVars, timerVars
  <2>. QED
    BY <1>1, <2>1, QuietOK DEF Tame, StaysIdle, NetOK, TimerOK
<1>3. CASE running /\ state = "CONNECTED" /\ transport # 0
  <2>1. transport \in Conns
    BY <1>3, ConnFacts DEF CoreOK
  <2>2. CASE transport \notin connected
    <3>1. HandleDisconnect(t) /\ UNCHANGED <<sock, connected, closing>>
      BY <1>3, <2>2 DEF LoopTurn, sockVars
    <3>. QED
      BY <1>1, <3>1, HandleDisconnectOK DEF Tame, StaysIdle, NetOK
  <2>3. CASE transport \in connected /\ sock[transport] = "closeframe"
    BY <1>3, <2>1, <2>3, LoseConnectionOK DEF LoopTurn
  <2>4. CASE transport \in connected /\ sock[transport] # "closeframe"
    <3>. DEFINE p == IF sock[transport] = "open" THEN "recv" ELSE "hung"
    <3>1. /\ Suspend(t, p, transport)
          /\ UNCHANGED <<sock, connected, closing, heartbeat, hbTask, ageTask, state, boff,
                         transport, attempt>>
      BY <1>3, <2>4 DEF LoopTurn, sockVars, timerVars
    <3>2. p \in Pcs /\ p # "sleep"
      BY DEF Pcs
    <3>. HIDE DEF p
    <3>3. TaskOK'
      BY <2>1, <3>1, <3>2, SuspendOK, ConnFacts
    <3>4. Sleepers' \subseteq Sleepers
      BY <3>1, <3>2, SuspendSleepers
    <3>. QED
      BY <1>1, <3>1, <3>3, <3>4 DEF Tame, StaysIdle, Calm, CoreOK, NetOK, TimerOK
  <2>. QED
    BY <2>2, <2>3, <2>4
<1>. QED
  BY <1>2, <1>3

LEMMA MessageLoopOK ==
    ASSUME TypeInv, NEW n \in Conns,
           MessageLoopStarts(n) \/ MessageArrives(n) \/ MessageLoopLoses(n)
    PROVE  Tame
<1>1. L(n) \in Task
  BY ConnFacts
<1>2. CASE MessageLoopStarts(n)
  BY <1>1, <1>2, LoopTurnOK DEF MessageLoopStarts
<1>3. CASE MessageArrives(n)
  BY <1>1, <1>3, LoopTurnOK DEF MessageArrives
<1>4. CASE MessageLoopLoses(n)
  <2>1. on[L(n)] \in Conns
    BY <1>1, <1>4, TypeInvIs DEF MessageLoopLoses, TaskOK, Bound
  <2>. QED
    BY <1>1, <1>4, <2>1, LoseConnectionOK DEF MessageLoopLoses
<1>. QED
  BY <1>2, <1>3, <1>4

LEMMA TimersOK ==
    ASSUME TypeInv, NEW n \in Conns, HandleHeartbeatTimeout(n) \/ ConnectionAgeTimer(n)
    PROVE  Tame
<1>. USE TypeInvIs
<1>1. /\ NetOK' /\ CallOK'
      /\ UNCHANGED <<user_closed, messageTask>>
      /\ connected' \subseteq connected
  BY DEF HandleHeartbeatTimeout, ConnectionAgeTimer, callVars, closeVars, runVars,
         NetOK, CallOK
<1>2. H(n) \in Task /\ A(n) \in Task
  BY ConnFacts
<1>3. CASE HandleHeartbeatTimeout(n)
  BY <1>1, <1>2, <1>3, HandleDisconnectOK DEF HandleHeartbeatTimeout, Tame, StaysIdle
<1>4. CASE ConnectionAgeTimer(n) /\ state = "CONNECTED"
  BY <1>1, <1>2, <1>4, HandleDisconnectOK DEF ConnectionAgeTimer, Tame, StaysIdle
<1>5. CASE ConnectionAgeTimer(n) /\ state # "CONNECTED"
  <2>1. /\ Return(A(n))
        /\ UNCHANGED <<heartbeat, hbTask, ageTask, state, boff, transport, attempt>>
    BY <1>5 DEF ConnectionAgeTimer, timerVars
  <2>. QED
    BY <1>1, <1>2, <2>1, QuietOK DEF Tame, StaysIdle, TimerOK
<1>. QED
  BY <1>3, <1>4, <1>5
-----------------------------------------------------------------------------
(***************************************************************************)
(* The pieces of close(): none of them moves a task.                       *)
(***************************************************************************)
Kpcs == {"idle", "hbstop", "agestop", "closing", "mtstop", "returned", "raised"}

\* What a piece of close(), in state st, may change.
Closing(st) == /\ kpc' \in [Closers -> Kpcs]
               /\ kon' \in [Closers -> 0 .. MaxConns]
               /\ cancelled' \subseteq Task
               /\ messageTask' \in {0, messageTask}
               /\ transport' \in {0, transport}
               /\ closing' \subseteq Conns
               /\ state' \in {st, "CLOSED"}

LEMMA CloseWaitsOK ==
    ASSUME CallOK, NEW k \in Closers, NEW p \in Kpcs, NEW c \in 0 .. MaxConns,
           CloseWaits(k, p, c)
    PROVE  kpc' \in [Closers -> Kpcs] /\ kon' \in [Closers -> 0 .. MaxConns]
BY DEF CallOK, CloseWaits, Kpcs

LEMMA CloseMessageTaskOK ==
    ASSUME TypeInv, NEW k \in Closers, NEW st, CloseMessageTask(k, st),
           transport' \in {0, transport}, closing' = closing
    PROVE  Closing(st)
<1>. USE TypeInvIs
<1>1. CASE messageTask # 0 /\ ~Ended(L(messageTask)) /\ state' = st
  <2>1. /\ cancelled' = cancelled \cup {Victim(L(messageTask))}
        /\ CloseWaits(k, "mtstop", messageTask)
        /\ messageTask' = messageTask
    BY <1>1 DEF CloseMessageTask, Ended
  <2>2. Victim(L(messageTask)) \in Task
    BY <1>1, VictimOK, ConnFacts DEF CallOK
  <2>3. kpc' \in [Closers -> Kpcs] /\ kon' \in [Closers -> 0 .. MaxConns]
    BY <2>1, CloseWaitsOK DEF Kpcs, CallOK
  <2>. QED
    BY <1>1, <2>1, <2>2, <2>3 DEF Closing, TaskOK, NetOK
<1>2. CASE CloseWaits(k, "raised", 0) /\ state' = st /\ UNCHANGED <<messageTask, cancelled>>
  BY <1>2, CloseWaitsOK, ConnFacts DEF Closing, TaskOK, NetOK, Kpcs
<1>3. CASE /\ CloseWaits(k, "returned", 0)
           /\ state' = "CLOSED" /\ messageTask' = 0 /\ cancelled' = cancelled
  BY <1>3, CloseWaitsOK, ConnFacts DEF Closing, TaskOK, NetOK, Kpcs
<1>. QED
  BY <1>1, <1>2, <1>3 DEF CloseMessageTask

LEMMA CloseTransportOK ==
    ASSUME TypeInv, NEW k \in Closers, NEW st, CloseTransport(k, st)
    PROVE  Closing(st)
<1>. USE TypeInvIs
<1>1. CASE transport \in connected \ closing
  <2>1. /\ closing' = closing \cup {transport}
        /\ CloseWaits(k, "closing", transport)
        /\ state' = st
        /\ UNCHANGED <<transport, messageTask, cancelled>>
    BY <1>1 DEF CloseTransport
  <2>2. kpc' \in [Closers -> Kpcs] /\ kon' \in [Closers -> 0 .. MaxConns]
    BY <2>1, CloseWaitsOK DEF Kpcs, CoreOK
  <2>. QED
    BY <1>1, <2>1, <2>2 DEF Closing, TaskOK, NetOK
<1>2. CASE transport \notin connected \ closing
  BY <1>2, CloseMessageTaskOK DEF CloseTransport
<1>. QED
  BY <1>1, <1>2

LEMMA CloseAgeTimerOK ==
    ASSUME TypeInv, NEW k \in Closers, NEW st, CloseAgeTimer(k, st)
    PROVE  Closing(st) /\ ageTask' \in {0, ageTask}
<1>. USE TypeInvIs
<1>1. CASE AgeTimerLive
  <2>1. /\ cancelled' = cancelled \cup {Victim(A(ageTask))}
        /\ CloseWaits(k, "agestop", ageTask)
        /\ state' = st
        /\ UNCHANGED <<ageTask, transport, closing, messageTask>>
    BY <1>1 DEF CloseAgeTimer
  <2>2. Victim(A(ageTask)) \in Task
    BY <1>1, VictimOK, ConnFacts DEF AgeTimerLive, TimerOK
  <2>3. kpc' \in [Closers -> Kpcs] /\ kon' \in [Closers -> 0 .. MaxConns]
    BY <2>1, CloseWaitsOK DEF Kpcs, TimerOK
  <2>. QED
    BY <2>1, <2>2, <2>3 DEF Closing, TaskOK, NetOK
<1>2. CASE ~AgeTimerLive
  BY <1>2, CloseTransportOK DEF CloseAgeTimer
<1>. QED
  BY <1>1, <1>2

LEMMA CloseHeartbeatOK ==
    ASSUME TypeInv, NEW k \in Closers, NEW st, CloseHeartbeat(k, st)
    PROVE  /\ Closing(st)
           /\ ageTask' \in {0, ageTask}
           /\ heartbeat' \in {0, heartbeat}
           /\ hbTask' \in BOOLEAN
<1>. USE TypeInvIs
<1>1. CASE HeartbeatLive
  <2>1. /\ cancelled' = cancelled \cup {Victim(H(heartbeat))}
        /\ CloseWaits(k, "hbstop", heartbeat)
        /\ state' = st
        /\ UNCHANGED <<heartbeat, hbTask, ageTask, transport, closing, messageTask>>
    BY <1>1 DEF CloseHeartbeat, timerVars
  <2>2. Victim(H(heartbeat)) \in Task
    BY <1>1, VictimOK, ConnFacts DEF HeartbeatLive, TimerOK
  <2>3. kpc' \in [Closers -> Kpcs] /\ kon' \in [Closers -> 0 .. MaxConns]
    BY <2>1, CloseWaitsOK DEF Kpcs, TimerOK
  <2>. QED
    BY <2>1, <2>2, <2>3 DEF Closing, TaskOK, NetOK, TimerOK
<1>2. CASE ~HeartbeatLive
  BY <1>2, CloseAgeTimerOK DEF CloseHeartbeat
<1>. QED
  BY <1>1, <1>2

\* A piece of close() leaves the types and the budget alone.
LEMMA ClosingOK ==
    ASSUME TypeInv, NEW st \in States, Closing(st),
           sock' \in [Conns -> {"none", "open", "closeframe", "eof", "shut"}],
           connected' \subseteq connected, user_closed' \in BOOLEAN, running' \in BOOLEAN,
           heartbeat' \in {0, heartbeat}, hbTask' \in BOOLEAN, ageTask' \in {0, ageTask},
           UNCHANGED <<attempt, boff, pc, on, rpc, ron>>
    PROVE  TypeInv' /\ Calm
<1>. USE TypeInvIs
<1>1. TaskOK'
  BY DEF TaskOK, Closing
<1>2. CoreOK'
  BY ConnFacts DEF CoreOK, Closing, States, Terminal
<1>3. TimerOK'
  BY ConnFacts DEF TimerOK
<1>4. NetOK'
  BY DEF NetOK, Closing
<1>5. CallOK'
  BY ConnFacts DEF CallOK, Closing, Kpcs
<1>6. Calm
  BY DEF Calm, Sleepers
<1>. QED
  BY <1>1, <1>2, <1>3, <1>4, <1>5, <1>6

LEMMA CloseStepOK ==
    ASSUME TypeInv, NEW k \in Closers, CloseStep(k)
    PROVE  Tame
<1>. USE TypeInvIs
<1>1. state \in States /\ user_closed \in BOOLEAN /\ running \in BOOLEAN /\ hbTask \in BOOLEAN
  BY DEF CoreOK, CallOK, TimerOK
<1>2. sock \in [Conns -> {"none", "open", "closeframe", "eof", "shut"}]
  BY DEF NetOK
<1>3. CASE CloseHeartbeatStopped(k)
  <2>1. /\ Closing(state) /\ ageTask' \in {0, ageTask}
        /\ heartbeat' = 0 /\ hbTask' = FALSE
        /\ UNCHANGED <<user_closed, running, attempt, boff, sock, connected, pc, on, rpc, ron>>
    BY <1>3, CloseAgeTimerOK DEF CloseHeartbeatStopped, callVars, runVars
  <2>. QED
    BY <1>1, <1>2, <2>1, ClosingOK DEF Tame, StaysIdle, Closing
<1>4. CASE CloseAgeTimerStopped(k)
  <2>1. /\ UNCHANGED <<heartbeat, hbTask, user_closed, running, attempt, boff, sock,
                       connected, pc, on, rpc, ron>>
    BY <1>4 DEF CloseAgeTimerStopped, callVars, runVars
  <2>2. Closing(state) /\ ageTask' \in {0, ageTask}
    <3>1. CASE pc[A(kon[k])] = "crashed"
      <4>1. /\ CloseWaits(k, "raised", 0)
            /\ UNCHANGED <<state, ageTask, transport, closing, messageTask, cancelled>>
        BY <1>4, <3>1 DEF CloseAgeTimerStopped
      <4>. QED
        BY <4>1, CloseWaitsOK, ConnFacts DEF Closing, Kpcs, TaskOK, NetOK
    <3>2. CASE pc[A(kon[k])] # "crashed"
      BY <1>4, <3>2, CloseTransportOK DEF CloseAgeTimerStopped
    <3>. QED
      BY <3>1, <3>2
  <2>. QED
    BY <1>1, <1>2, <2>1, <2>2, ClosingOK DEF Tame, StaysIdle, Closing
<1>5. CASE CloseTransportClosed(k) \/ CloseTransportTimesOut(k)
  <2>1. /\ UNCHANGED <<heartbeat, hbTask, ageTask, user_closed, running, attempt, boff,
                       pc, on, rpc, ron, closing>>
        /\ transport' = 0
        /\ CloseMessageTask(k, state)
    BY <1>5 DEF CloseTransportClosed, CloseTransportTimesOut, sockVars, timerVars,
                callVars, runVars
  <2>2. connected' \subseteq connected
    BY <1>5 DEF CloseTransportClosed, CloseTransportTimesOut, sockVars
  <2>3. sock' \in [Conns -> {"none", "open", "closeframe", "eof", "shut"}]
    BY <1>2, <1>5 DEF CloseTransportClosed, CloseTransportTimesOut, sockVars
  <2>4. Closing(state)
    BY <2>1, CloseMessageTaskOK
  <2>. QED
    BY <1>1, <2>1, <2>2, <2>3, <2>4, ClosingOK DEF Tame, StaysIdle, Closing
<1>6. CASE CloseMessageTaskStopped(k)
  <2>1. UNCHANGED <<sock, connected, closing, pc, on, cancelled, heartbeat, hbTask, ageTask,
                    user_closed, running, transport, attempt, boff, rpc, ron>>
    BY <1>6 DEF CloseMessageTaskStopped, sockVars, taskVars, timerVars, callVars, runVars
  <2>2. Closing(state)
    <3>1. CASE CloseWaits(k, "raised", 0) /\ UNCHANGED <<state, messageTask>>
      BY <2>1, <3>1, CloseWaitsOK, ConnFacts DEF Closing, Kpcs, TaskOK, NetOK
    <3>2. CASE CloseWaits(k, "returned", 0) /\ messageTask' = 0 /\ state' = "CLOSED"
      BY <2>1, <3>2, CloseWaitsOK, ConnFacts DEF Closing, Kpcs, TaskOK, NetOK
    <3>. QED
      BY <1>6, <3>1, <3>2 DEF CloseMessageTaskStopped
  <2>. QED
    BY <1>1, <1>2, <2>1, <2>2, ClosingOK DEF Tame, StaysIdle, Closing
<1>. QED
  BY <1>3, <1>4, <1>5, <1>6 DEF CloseStep

\* close() of an object that never connected ends at once: nothing is there to
\* be awaited.
IdleInv == state = "IDLE" => /\ ~user_closed
                             /\ attempt = 0
                             /\ heartbeat = 0
                             /\ ageTask = 0
                             /\ messageTask = 0
                             /\ connected = {}

LEMMA CloseOK ==
    ASSUME TypeInv, IdleInv, NEW k \in Closers, Close(k)
    PROVE  TypeInv' /\ Calm /\ state' # "IDLE" /\ user_closed'
<1>. USE TypeInvIs
<1>1. /\ UNCHANGED <<attempt, boff, sock, connected, pc, on, rpc, ron>>
      /\ user_closed' = TRUE /\ running' = FALSE
  BY DEF Close, runVars
<1>2. sock \in [Conns -> {"none", "open", "closeframe", "eof", "shut"}] /\ hbTask \in BOOLEAN
  BY DEF NetOK, TimerOK
<1>3. CASE state \in Terminal
  <2>1. /\ CloseWaits(k, "returned", 0)
        /\ UNCHANGED <<state, heartbeat, hbTask, ageTask, transport, closing, messageTask,
                       cancelled>>
    BY <1>3 DEF Close, timerVars
  <2>2. Closing(state)
    BY <2>1, CloseWaitsOK, ConnFacts DEF Closing, Kpcs, TaskOK, NetOK
  <2>. QED
    BY <1>1, <1>2, <1>3, <2>1, <2>2, ClosingOK DEF Terminal, CoreOK
<1>4. CASE state \notin Terminal
  <2>. DEFINE st == IF state = "CONNECTED" THEN "DISCONNECTING" ELSE state
  <2>1. CloseHeartbeat(k, st)
    BY <1>4 DEF Close
  <2>2. st \in States /\ (st = "IDLE" => state = "IDLE")
    BY DEF CoreOK, States
  <2>3. state = "IDLE" => state' = "CLOSED"
    BY <2>1 DEF IdleInv, CloseHeartbeat, HeartbeatLive, CloseAgeTimer, AgeTimerLive,
                CloseTransport, CloseMessageTask
  <2>. HIDE DEF st
  <2>4. /\ Closing(st) /\ ageTask' \in {0, ageTask} /\ heartbeat' \in {0, heartbeat}
        /\ hbTask' \in BOOLEAN
    BY <2>1, CloseHeartbeatOK
  <2>5. TypeInv' /\ Calm
    BY <1>1, <1>2, <2>2, <2>4, ClosingOK
  <2>6. state' # "IDLE"
    BY <2>2, <2>3, <2>4 DEF Closing
  <2>. QED
    BY <1>1, <2>5, <2>6
<1>. QED
  BY <1>3, <1>4

LEMMA ConnectOK ==
    ASSUME TypeInv, Connect
    PROVE  /\ TypeInv'
           /\ \/ Calm /\ StaysIdle /\ user_closed' = user_closed
              \/ FirstDial
<1>. USE TypeInvIs
<1>1. /\ UNCHANGED <<heartbeat, hbTask, ageTask, messageTask, sock, connected, closing,
                     kpc, kon, rpc, ron>>
  BY DEF Connect, timerVars, sockVars, closeVars, runVars
<1>2. CASE state = "IDLE"
  <2>1. ConnectInternal(Caller) /\ user_closed' = FALSE /\ running' = TRUE
    BY <1>2 DEF Connect
  <2>2. TimerOK' /\ NetOK' /\ CallOK'
    BY <1>1, <2>1 DEF TimerOK, NetOK, CallOK
  <2>. QED
    BY <1>2, <2>1, <2>2, ConnectInternalOK, ConnFacts DEF FirstDial
<1>3. CASE state # "IDLE"
  <2>1. /\ Raise(Caller)
        /\ UNCHANGED <<user_closed, running, state, attempt, transport, boff>>
    BY <1>3 DEF Connect, callVars
  <2>2. TimerOK' /\ NetOK' /\ CallOK'
    BY <1>1, <2>1 DEF TimerOK, NetOK, CallOK
  <2>. QED
    BY <1>1, <2>1, <2>2, QuietOK, ConnFacts DEF StaysIdle
<1>. QED
  BY <1>2, <1>3

LEMMA SurroundingsOK ==
    ASSUME TypeInv,
           Run \/ RunEnds \/ (\E c \in Conns : PeerEnds(c)) \/ UNCHANGED vars
    PROVE  Tame
<1>. USE TypeInvIs
<1>1. /\ UNCHANGED <<pc, on, cancelled, state, attempt, boff, transport, heartbeat, hbTask,
                     ageTask, connected, closing, user_closed, running, messageTask, kpc,
                     kon>>
  BY DEF Run, RunEnds, PeerEnds, vars, sockVars, taskVars, timerVars, callVars, closeVars
<1>2. sock' \in [Conns -> {"none", "open", "closeframe", "eof", "shut"}]
  BY DEF NetOK, Run, RunEnds, PeerEnds, vars, sockVars
<1>3. rpc' \in {"idle", "waiting", "returned", "raised"} /\ ron' \in 0 .. MaxConns
  BY ConnFacts DEF CallOK, Run, RunEnds, PeerEnds, vars, runVars
<1>4. TaskOK' /\ CoreOK' /\ TimerOK' /\ NetOK' /\ CallOK'
  BY <1>1, <1>2, <1>3 DEF TaskOK, CoreOK, TimerOK, NetOK, CallOK
<1>5. Calm
  BY <1>1 DEF Calm, Sleepers
<1>. QED
  BY <1>1, <1>4, <1>5 DEF Tame, StaysIdle
-----------------------------------------------------------------------------
(***************************************************************************)
(* Every connection is dialled by one task, and its own tasks wait for it. *)
(***************************************************************************)
\* What every step does to the tasks but a dial and the start of others.
Settles == /\ attempt' = attempt
           /\ \A u \in Task : /\ pc[u] \in Dormant => pc'[u] \in Dormant
                              /\ pc'[u] \in Dialled => pc[u] \in Dialled /\ on'[u] = on[u]

LEMMA SettlesFresh ==
    ASSUME TypeInv, FreshInv, Settles
    PROVE  FreshInv'
<1>1. ASSUME NEW n \in Conns, Unborn(n)
      PROVE  Unborn(n)'
  BY <1>1, ConnFacts DEF Unborn, Settles
<1>2. \A n \in Conns : n > attempt' => Unborn(n)'
  BY <1>1 DEF FreshInv, Settles
<1>3. ASSUME NEW t \in Task, pc'[t] \in Dialled
      PROVE  on'[t] <= attempt' /\ Unborn(on[t])'
  <2>1. pc[t] \in Dialled /\ on'[t] = on[t]
    BY <1>3 DEF Settles
  <2>2. on[t] \in Conns
    BY <2>1 DEF TypeInv, Bound, Dialled
  <2>3. on[t] <= attempt /\ Unborn(on[t])
    BY <2>1 DEF FreshInv
  <2>. DEFINE c == on[t]
  <2>4. Unborn(c)'
    <3>1. on'[t] \in Conns /\ Unborn(on[t])
      BY <2>1, <2>2, <2>3
    <3>2. \A u \in Task : pc[u] \in Dormant => pc'[u] \in Dormant
      BY DEF Settles
    <3>. QED
      BY <2>1, <2>2, <3>1, <3>2, ConnFacts DEF Unborn
  <2>. QED
    BY <2>1, <2>3, <2>4 DEF Settles
<1>4. \A t, u \in Task : pc'[t] \in Dialled /\ pc'[u] \in Dialled /\ on'[t] = on'[u] => t = u
  BY DEF FreshInv, Settles
<1>. QED
  BY <1>2, <1>3, <1>4 DEF FreshInv

\* Task t goes on to p, wherever its mind then is.
Goes(t, p) == /\ pc' = [pc EXCEPT ![t] = p]
              /\ attempt' = attempt

LEMMA GoesSettles ==
    ASSUME TypeInv, NEW t \in Task, NEW p, Goes(t, p),
           \A u \in Task : u # t => on'[u] = on[u],
           p \in Over \/ pc[t] \notin Dormant, p \notin Dialled
    PROVE  Settles
BY DEF TypeInv, TypeOK, Goes, Settles, Dormant, Over, Dialled

LEMMA SuspendSettles ==
    ASSUME TypeInv, NEW t \in Task, NEW p, NEW c, Suspend(t, p, c), attempt' = attempt,
           p \in Over \/ pc[t] \notin Dormant, p \notin Dialled
    PROVE  Settles
BY GoesSettles DEF Goes, Suspend, TypeInv, TypeOK

LEMMA EndSettles ==
    ASSUME TypeInv, NEW t \in Task, Return(t) \/ Raise(t), attempt' = attempt
    PROVE  Settles
<1>1. Return(t) => Settles
  BY SuspendSettles DEF Return, Over, Dialled
<1>2. Raise(t) => Settles
  BY SuspendSettles DEF Raise, Over, Dialled
<1>. QED
  BY <1>1, <1>2

LEMMA CancelSettles ==
    ASSUME TypeInv, NEW t \in Task, NEW p \in {"hbstop", "agestop"}, NEW c, NEW u,
           CancelAndAwait(t, p, c, u), attempt' = attempt, pc[t] \notin Dormant
    PROVE  Settles
BY GoesSettles DEF Goes, CancelAndAwait, TypeInv, TypeOK, Dialled

LEMMA ScheduleReconnectSettles ==
    ASSUME TypeInv, NEW t \in Task, ScheduleReconnect(t), pc[t] \notin Dormant
    PROVE  Settles
<1>1. CASE Return(t) /\ attempt' = attempt
  BY <1>1, EndSettles
<1>2. CASE Suspend(t, "sleep", 0) /\ attempt' = attempt
  BY <1>2, SuspendSettles DEF Dialled
<1>. QED
  BY <1>1, <1>2 DEF ScheduleReconnect

LEMMA StopAgeTimerSettles ==
    ASSUME TypeInv, NEW t \in Task, StopAgeTimer(t) \/ Disconnected(t), pc[t] \notin Dormant
    PROVE  Settles
<1>1. CASE Disconnected(t)
  BY <1>1, EndSettles, ScheduleReconnectSettles DEF Disconnected
<1>2. CASE CancelAndAwait(t, "agestop", ageTask, A(ageTask)) /\ attempt' = attempt
  BY <1>2, CancelSettles
<1>. QED
  BY <1>1, <1>2 DEF StopAgeTimer

LEMMA HandleDisconnectSettles ==
    ASSUME TypeInv, NEW t \in Task, HandleDisconnect(t), pc[t] \notin Dormant
    PROVE  Settles
<1>1. CASE StopAgeTimer(t)
  BY <1>1, StopAgeTimerSettles
<1>2. CASE CancelAndAwait(t, "hbstop", heartbeat, H(heartbeat)) /\ attempt' = attempt
  BY <1>2, CancelSettles
<1>. QED
  BY <1>1, <1>2 DEF HandleDisconnect

LEMMA LoopTurnSettles ==
    ASSUME TypeInv, NEW t \in Task, LoopTurn(t), pc[t] \notin Dormant
    PROVE  Settles
<1>1. CASE HandleDisconnect(t)
  BY <1>1, HandleDisconnectSettles
<1>2. CASE Return(t) /\ attempt' = attempt
  BY <1>2, EndSettles
<1>3. CASE /\ Suspend(t, IF sock[transport] = "open" THEN "recv" ELSE "hung", transport)
           /\ attempt' = attempt
  BY <1>3, SuspendSettles DEF Dialled
<1>. QED
  BY <1>1, <1>2, <1>3 DEF LoopTurn, LoseConnection

LEMMA LoopSettles ==
    ASSUME TypeInv, NEW n \in Conns,
           \/ MessageLoopStarts(n) \/ MessageArrives(n) \/ MessageLoopLoses(n)
           \/ HandleHeartbeatTimeout(n) \/ ConnectionAgeTimer(n)
    PROVE  Settles
<1>1. L(n) \in Task /\ H(n) \in Task /\ A(n) \in Task
  BY ConnFacts
<1>2. CASE MessageLoopStarts(n) \/ MessageArrives(n)
  BY <1>1, <1>2, LoopTurnSettles DEF MessageLoopStarts, MessageArrives, Dormant, Over
<1>3. CASE MessageLoopLoses(n)
  BY <1>1, <1>3, HandleDisconnectSettles DEF MessageLoopLoses, LoseConnection, Dormant, Over
<1>4. CASE HandleHeartbeatTimeout(n)
  BY <1>1, <1>4, HandleDisconnectSettles DEF HandleHeartbeatTimeout, Dormant, Over
<1>5. CASE ConnectionAgeTimer(n)
  <2>1. CASE HandleDisconnect(A(n))
    BY <1>1, <1>5, <2>1, HandleDisconnectSettles DEF ConnectionAgeTimer, Dormant, Over
  <2>2. CASE Return(A(n)) /\ attempt' = attempt
    BY <1>1, <2>2, EndSettles
  <2>. QED
    BY <1>5, <2>1, <2>2 DEF ConnectionAgeTimer
<1>. QED
  BY <1>2, <1>3, <1>4, <1>5

\* connect() and the end of a backoff delay: t takes a number nobody has.
LEMMA ConnectInternalFresh ==
    ASSUME TypeInv, FreshInv, NEW t \in Task, ConnectInternal(t),
           t = Caller \/ pc[t] \notin Dormant, pc[t] \notin Dialled
    PROVE  FreshInv'
<1>0. attempt \in Nat /\ attempt + 1 \in Conns /\ \A u \in Task : on[u] \in Nat
  BY MaxConnsAssumption DEF TypeInv, TypeOK, ConnectInternal, Conns
<1>. PICK c \in Conns : c = attempt + 1
  BY <1>0
<1>1. /\ pc'[t] = "dial" /\ on'[t] = c /\ attempt' = c
      /\ \A u \in Task : u # t => pc'[u] = pc[u] /\ on'[u] = on[u]
  BY DEF ConnectInternal, Suspend, TypeInv, TypeOK
<1>2. c \in Nat /\ c > attempt
  BY <1>0
<1>3. ASSUME NEW n \in Conns, Unborn(n)
      PROVE  Unborn(n)' /\ t \notin {L(n), H(n), A(n)}
  <2>1. L(n) \in Task /\ H(n) \in Task /\ A(n) \in Task /\ Caller \notin {L(n), H(n), A(n)}
    BY ConnFacts DEF L, H, A, Caller
  <2>2. t \notin {L(n), H(n), A(n)}
    BY <1>3, <2>1 DEF Unborn
  <2>. QED
    BY <1>1, <1>3, <2>1, <2>2 DEF Unborn
<1>4. \A n \in Conns : n > attempt => Unborn(n)'
  BY <1>3 DEF FreshInv
<1>5. \A n \in Conns : n > attempt' => Unborn(n)'
  BY <1>0, <1>1, <1>4 DEF Conns
<1>6. ASSUME NEW u \in Task, pc'[u] \in Dialled
      PROVE  /\ on'[u] <= attempt' /\ Unborn(on[u])'
             /\ u # t => pc[u] \in Dialled /\ on'[u] = on[u] /\ on'[u] # c
  <2>1. CASE u = t
    <3>1. Unborn(c)'
      BY <1>2, <1>4
    <3>2. on'[u] = c /\ on'[u] <= attempt'
      BY <1>1, <1>2, <2>1
    <3>. QED
      BY <2>1, <3>1, <3>2 DEF Unborn
  <2>2. CASE u # t
    <3>1. pc[u] \in Dialled /\ on'[u] = on[u]
      BY <1>1, <1>6, <2>2
    <3>2. on[u] <= attempt /\ Unborn(on[u]) /\ on[u] \in Conns
      BY <3>1 DEF FreshInv, TypeInv, Bound, Dialled
    <3>3. on[u] <= c /\ on[u] # c
      BY <1>0, <1>2, <3>2
    <3>4. Unborn(on[u])'
      BY <1>3, <3>1, <3>2 DEF Unborn
    <3>. QED
      BY <1>1, <3>1, <3>3, <3>4 DEF Unborn
  <2>. QED
    BY <2>1, <2>2
<1>7. \A u, v \in Task : pc'[u] \in Dialled /\ pc'[v] \in Dialled /\ on'[u] = on'[v] => u = v
  BY <1>1, <1>6 DEF FreshInv
<1>. QED
  BY <1>5, <1>6, <1>7 DEF FreshInv

\* The tasks of a connection start: no other task has that connection.
LEMMA StartTasksFresh ==
    ASSUME TypeInv, FreshInv, NEW t \in Task, pc[t] \in Dialled, StartTasks(t, on[t]),
           attempt' = attempt
    PROVE  FreshInv'
<1>. DEFINE c == on[t]
<1>1. c \in Conns /\ c <= attempt
  BY DEF TypeInv, Bound, Dialled, FreshInv
<1>2. StartTasks(t, c)
  OBVIOUS
<1>. HIDE DEF c
<1>3. \A u \in Task : \/ pc'[u] \in {"done", "start", "beat", "age"}
                      \/ u # t /\ pc'[u] = pc[u] /\ on'[u] = on[u]
  BY <1>1, <1>2, StartTasksMoves, TypeInvIs
<1>4. \A u \in Task : \/ u \in {L(c), H(c), A(c)}
                      \/ u = t /\ pc'[u] = "done"
                      \/ u # t /\ pc'[u] = pc[u] /\ on'[u] = on[u]
  BY <1>1, <1>2, StartTasksMoves, TypeInvIs
<1>5. ASSUME NEW n \in Conns, n # c, Unborn(n)
      PROVE  \A u \in {L(n), H(n), A(n)} : pc'[u] \in Dormant
  <2>1. L(n) \in Task /\ H(n) \in Task /\ A(n) \in Task
    BY ConnFacts
  <2>2. {L(n), H(n), A(n)} \cap {L(c), H(c), A(c)} = {}
    BY <1>5 DEF L, H, A
  <2>. QED
    BY <1>4, <1>5, <2>1, <2>2 DEF Unborn, Dormant, Over
<1>6. \A n \in Conns : n > attempt' => Unborn(n)'
  <2>1. \A n \in Conns : n > attempt => n # c
    BY <1>1, MaxConnsAssumption DEF Conns, TypeInv, TypeOK
  <2>. QED
    BY <1>5, <2>1 DEF FreshInv, Unborn
<1>7. ASSUME NEW u \in Task, pc'[u] \in Dialled
      PROVE  /\ pc[u] \in Dialled /\ on'[u] = on[u]
             /\ on'[u] <= attempt' /\ Unborn(on[u])'
  <2>1. u # t /\ pc'[u] = pc[u] /\ on'[u] = on[u] /\ pc[u] \in Dialled
    BY <1>3, <1>7 DEF Dialled
  <2>2. on[u] # c
    BY <2>1 DEF FreshInv, c
  <2>3. on[u] <= attempt /\ Unborn(on[u]) /\ on[u] \in Conns
    BY <2>1 DEF FreshInv, TypeInv, Bound, Dialled
  <2>4. \A v \in {L(on[u]), H(on[u]), A(on[u])} : pc'[v] \in Dormant
    BY <1>5, <2>2, <2>3
  <2>. QED
    BY <2>1, <2>3, <2>4 DEF Unborn
<1>8. \A u, v \in Task : pc'[u] \in Dialled /\ pc'[v] \in Dialled /\ on'[u] = on'[v] => u = v
  BY <1>7 DEF FreshInv
<1>. QED
  BY <1>6, <1>7, <1>8 DEF FreshInv

LEMMA FreshStep ==
    ASSUME TypeInv, FreshInv, [Next]_vars
    PROVE  FreshInv'
<1>1. ASSUME NEW t \in Task, TaskStep(t) \/ Replayed(t)
      PROVE  FreshInv'
  <2>1. CASE WakeUp(t)
    <3>1. CASE Return(t) /\ attempt' = attempt
      BY <3>1, EndSettles, SettlesFresh
    <3>2. CASE ConnectInternal(t)
      BY <2>1, <3>2, ConnectInternalFresh DEF WakeUp, Dormant, Over, Dialled
    <3>. QED
      BY <2>1, <3>1, <3>2 DEF WakeUp
  <2>2. CASE DialSucceeds(t)
    <3>1. pc[t] \in Dialled /\ attempt' = attempt
      BY <2>2 DEF DialSucceeds, Dialled
    <3>2. CASE Suspend(t, "replay", on[t])
      <4>1. Settles
        BY <3>1, <3>2 DEF Settles, Suspend, TypeInv, TypeOK, Dialled, Dormant, Over
      <4>. QED
        BY <4>1, SettlesFresh
    <3>3. CASE StartTasks(t, on[t])
      BY <3>1, <3>3, StartTasksFresh
    <3>. QED
      BY <2>2, <3>2, <3>3 DEF DialSucceeds
  <2>3. CASE DialRefused(t)
    <3>1. pc[t] \notin Dormant
      BY <2>3 DEF DialRefused, Dormant, Over
    <3>. QED
      BY <2>3, <3>1, EndSettles, ScheduleReconnectSettles, SettlesFresh DEF DialRefused
  <2>4. CASE DialRaises(t)
    BY <2>4, EndSettles, SettlesFresh DEF DialRaises
  <2>5. CASE HeartbeatStopped(t)
    <3>1. pc[t] \notin Dormant
      BY <2>5 DEF HeartbeatStopped, Dormant, Over
    <3>. QED
      BY <2>5, <3>1, EndSettles, StopAgeTimerSettles, SettlesFresh DEF HeartbeatStopped
  <2>6. CASE AgeTimerStopped(t)
    <3>1. pc[t] \notin Dormant
      BY <2>6 DEF AgeTimerStopped, Dormant, Over
    <3>. QED
      BY <2>6, <3>1, EndSettles, StopAgeTimerSettles, SettlesFresh DEF AgeTimerStopped
  <2>7. CASE TaskCancelled(t)
    BY <2>7, EndSettles, SettlesFresh DEF TaskCancelled
  <2>8. CASE Replayed(t)
    BY <2>8, StartTasksFresh DEF Replayed, Dialled
  <2>. QED
    BY <1>1, <2>1, <2>2, <2>3, <2>4, <2>5, <2>6, <2>7, <2>8 DEF TaskStep
<1>2. ASSUME NEW n \in Conns, \/ LoopStep(n) \/ MessageArrives(n) \/ HandleHeartbeatTimeout(n)
                              \/ ConnectionAgeTimer(n)
      PROVE  FreshInv'
  BY <1>2, LoopSettles, SettlesFresh DEF LoopStep
<1>3. CASE Connect
  <2>1. pc[Caller] = "idle" /\ Caller \in Task
    BY <1>3, ConnFacts DEF Connect
  <2>2. CASE ConnectInternal(Caller)
    BY <2>1, <2>2, ConnectInternalFresh DEF Dialled
  <2>3. CASE Raise(Caller) /\ attempt' = attempt
    BY <2>1, <2>3, EndSettles, SettlesFresh
  <2>. QED
    BY <1>3, <2>2, <2>3 DEF Connect
<1>4. CASE UNCHANGED <<pc, on, attempt>>
  <2>1. Settles
    BY <1>4 DEF Settles
  <2>. QED
    BY <2>1, SettlesFresh
<1>5. ASSUME NEW k \in Closers, Close(k) \/ CloseStep(k)
      PROVE  UNCHANGED <<pc, on, attempt>>
  BY <1>5 DEF Close, CloseStep, CloseHeartbeatStopped, CloseAgeTimerStopped,
              CloseTransportClosed, CloseTransportTimesOut, CloseMessageTaskStopped, taskVars
<1>6. Run \/ RunEnds \/ (\E c \in Conns : PeerEnds(c)) \/ UNCHANGED vars
          => UNCHANGED <<pc, on, attempt>>
  BY DEF Run, RunEnds, PeerEnds, vars, taskVars
<1>. QED
  BY <1>1, <1>2, <1>3, <1>4, <1>5, <1>6 DEF Next

-----------------------------------------------------------------------------
(***************************************************************************)
(* The theorems.                                                           *)
(***************************************************************************)
LEMMA InitOK == Init => TypeInv /\ IdleInv /\ FreshInv /\ Sleepers = {}
<1>. SUFFICES ASSUME Init
              PROVE  TypeInv /\ IdleInv /\ FreshInv /\ Sleepers = {}
  OBVIOUS
<1>1. pc = [t \in Task |-> "idle"] /\ on = [t \in Task |-> 0] /\ cancelled = {}
  BY DEF Init
<1>2. TypeOK
  BY <1>1, ConnFacts DEF Init, TypeOK, States, Terminal
<1>3. \A t \in Task : pc[t] = "idle"
  BY <1>1
<1>4. IdleInv
  BY DEF Init, IdleInv
<1>5. FreshInv
  BY <1>3, ConnFacts DEF FreshInv, Unborn, Dormant, Dialled
<1>. QED
  BY <1>2, <1>3, <1>4, <1>5 DEF TypeInv, Sleepers, Bound

LEMMA NextOK ==
    ASSUME TypeInv, IdleInv, FreshInv, [Next]_vars
    PROVE  /\ TypeInv' /\ IdleInv'
           /\ state' = "IDLE" => state = "IDLE"
           /\ Calm \/ FirstDial \/ Redial
           /\ user_closed => user_closed' /\ attempt' = attempt
<1>1. CASE Tame
  BY <1>1 DEF Tame, StaysIdle, IdleInv, Calm
<1>2. CASE Connect
  <2>1. CASE FirstDial
    BY <1>2, <2>1, ConnectOK DEF FirstDial, IdleInv
  <2>2. CASE Calm /\ StaysIdle /\ user_closed' = user_closed
    BY <1>2, <2>2, ConnectOK DEF StaysIdle, IdleInv, Calm
  <2>. QED
    BY <1>2, <2>1, <2>2, ConnectOK
<1>3. ASSUME NEW t \in Task, WakeUp(t)
      PROVE  /\ TypeInv' /\ IdleInv'
             /\ state' = "IDLE" => state = "IDLE"
             /\ Calm \/ FirstDial \/ Redial
             /\ user_closed => user_closed' /\ attempt' = attempt
  BY <1>3, WakeUpOK DEF StaysIdle, IdleInv, Calm, Redial
<1>4. ASSUME NEW k \in Closers, Close(k)
      PROVE  /\ TypeInv' /\ IdleInv'
             /\ state' = "IDLE" => state = "IDLE"
             /\ Calm \/ FirstDial \/ Redial
             /\ user_closed => user_closed' /\ attempt' = attempt
  BY <1>4, CloseOK DEF IdleInv, Calm
<1>5. \/ Connect
      \/ \E t \in Task : WakeUp(t)
      \/ \E k \in Closers : Close(k)
      \/ Tame
  <2>1. ASSUME NEW t \in Task, TaskStep(t)
        PROVE  WakeUp(t) \/ Tame
    BY <2>1, DialSucceedsOK, DialFailsOK, HeartbeatStoppedOK, AgeTimerStoppedOK,
       TaskCancelledOK DEF TaskStep
  <2>2. ASSUME NEW n \in Conns, LoopStep(n) \/ MessageArrives(n)
        PROVE  Tame
    BY <2>2, MessageLoopOK DEF LoopStep
  <2>3. ASSUME NEW n \in Conns, HandleHeartbeatTimeout(n) \/ ConnectionAgeTimer(n)
        PROVE  Tame
    BY <2>3, TimersOK
  <2>4. ASSUME NEW k \in Closers, CloseStep(k)
        PROVE  Tame
    BY <2>4, CloseStepOK
  <2>5. ASSUME NEW t \in Task, Replayed(t)
        PROVE  Tame
    BY <2>5, ReplayedOK DEF IdleInv
  <2>. QED
    BY <2>1, <2>2, <2>3, <2>4, <2>5, SurroundingsOK DEF Next
<1>. QED
  BY <1>1, <1>2, <1>3, <1>4, <1>5

LEMMA TasksFinite ==
    ASSUME NEW S, S \subseteq Task
    PROVE  IsFiniteSet(S) /\ Cardinality(S) \in Nat
<1>1. IsFiniteSet(Conns)
  BY FS_Interval, MaxConnsAssumption DEF Conns
<1>2. IsFiniteSet({"L", "H", "A"})
  <2>1. IsFiniteSet({"L"} \cup {"H"})
    BY FS_Singleton, FS_Union
  <2>2. IsFiniteSet(({"L"} \cup {"H"}) \cup {"A"})
    BY <2>1, FS_Singleton, FS_Union
  <2>3. {"L", "H", "A"} = ({"L"} \cup {"H"}) \cup {"A"}
    OBVIOUS
  <2>. QED
    BY <2>2, <2>3
<1>3. IsFiniteSet({"L", "H", "A"} \X Conns)
  BY <1>1, <1>2, FS_Product
<1>4. IsFiniteSet(Task)
  BY <1>3, FS_Singleton, FS_Union DEF Task
<1>. QED
  BY <1>4, FS_Subset, FS_CardinalityType

\* The inductive form of ReconnectBudget: a task asleep has its delay granted
\* but not yet spent, and the first connection needs none.
BudgetInv ==
    /\ attempt + Cardinality(Sleepers) <= boff + (IF state = "IDLE" THEN 0 ELSE 1)
    /\ MaxAttempts # 0 => boff <= MaxAttempts

LEMMA BudgetStep ==
    ASSUME TypeInv, IdleInv, FreshInv, BudgetInv, [Next]_vars
    PROVE  BudgetInv'
<1>. DEFINE n == Cardinality(Sleepers)
<1>. DEFINE m == Cardinality(Sleepers')
<1>1. TypeInv' /\ (state' = "IDLE" => state = "IDLE")
  BY NextOK
<1>2. IsFiniteSet(Sleepers) /\ n \in Nat
  BY TasksFinite DEF Sleepers
<1>3. IsFiniteSet(Sleepers') /\ m \in Nat
  BY TasksFinite DEF Sleepers
<1>4. attempt \in Nat /\ boff \in Nat
  BY DEF TypeInv, TypeOK
<1>5. Sleepers' \subseteq Sleepers => m <= n
  BY <1>2, FS_Subset
<1>6. \A t : Sleepers' \subseteq Sleepers \cup {t} => m <= n + 1
  <2>1. TAKE t
  <2>2. /\ IsFiniteSet(Sleepers \cup {t})
        /\ Cardinality(Sleepers \cup {t}) <= n + 1
    BY <1>2, FS_AddElement
  <2>3. Cardinality(Sleepers \cup {t}) \in Nat
    BY <2>2, FS_CardinalityType
  <2>. QED
    BY <1>2, <1>3, <2>2, <2>3, FS_Subset
<1>7. \A t \in Sleepers : Sleepers' = Sleepers \ {t} => m = n - 1
  BY <1>2, FS_RemoveElement
<1>8. CASE Calm
  <2>1. CASE boff' = boff /\ Sleepers' \subseteq Sleepers
    BY <1>1, <1>2, <1>3, <1>4, <1>5, <1>8, <2>1 DEF BudgetInv, Calm
  <2>2. CASE ~Exhausted /\ boff' = boff + 1 /\ m <= n + 1
    BY <1>1, <1>2, <1>3, <1>4, <1>8, <2>2, MaxAttemptsAssumption
       DEF BudgetInv, Calm, Exhausted
  <2>. QED
    BY <1>6, <1>8, <2>1, <2>2 DEF Calm
<1>9. CASE FirstDial
  BY <1>2, <1>3, <1>4, <1>5, <1>9 DEF BudgetInv, FirstDial
<1>10. CASE Redial
  BY <1>1, <1>2, <1>3, <1>4, <1>7, <1>10 DEF BudgetInv, Redial
<1>. QED
  BY <1>8, <1>9, <1>10, NextOK

\* The fields of the object, its connections and its tasks keep their types, in
\* every interleaving of connect(), close(), run(), the loops and the timers.
THEOREM TypeCorrect == Spec => []TypeOK
<1>1. Init => TypeInv /\ IdleInv /\ FreshInv
  BY InitOK
<1>2. TypeInv /\ IdleInv /\ FreshInv /\ [Next]_vars => (TypeInv /\ IdleInv /\ FreshInv)'
  BY NextOK, FreshStep
<1>3. TypeInv => TypeOK
  BY DEF TypeInv
<1>. QED
  BY <1>1, <1>2, <1>3, PTL DEF Spec

\* The tasks that reconnect never dial more often than _schedule_reconnect()
\* granted delays, and max_attempts bounds those.
THEOREM BudgetKept == Spec => []ReconnectBudget
<1>1. Init => TypeInv /\ IdleInv /\ FreshInv /\ BudgetInv
  <2>1. Init => Cardinality(Sleepers) = 0
    BY InitOK, FS_EmptySet
  <2>. QED
    BY <2>1, InitOK, MaxAttemptsAssumption DEF Init, BudgetInv
<1>2. TypeInv /\ IdleInv /\ FreshInv /\ BudgetInv /\ [Next]_vars
        => (TypeInv /\ IdleInv /\ FreshInv /\ BudgetInv)'
  BY NextOK, FreshStep, BudgetStep
<1>3. TypeInv /\ BudgetInv => ReconnectBudget
  <2>1. Cardinality(Sleepers) \in Nat
    BY TasksFinite DEF Sleepers
  <2>. QED
    BY <2>1, MaxConnsAssumption DEF TypeInv, TypeOK, BudgetInv, ReconnectBudget
<1>. QED
  BY <1>1, <1>2, <1>3, PTL DEF Spec

\* After close() nothing dials, not even a task asleep in _schedule_reconnect().
THEOREM CloseIsFinal == Spec => NoDialAfterClose
<1>1. Init => TypeInv /\ IdleInv /\ FreshInv
  BY InitOK
<1>2. TypeInv /\ IdleInv /\ FreshInv /\ [Next]_vars => (TypeInv /\ IdleInv /\ FreshInv)'
  BY NextOK, FreshStep
<1>3. TypeInv /\ IdleInv /\ FreshInv /\ [Next]_vars
        => [user_closed => user_closed' /\ attempt' = attempt]_vars
  BY NextOK
<1>. QED
  BY <1>1, <1>2, <1>3, PTL DEF Spec, NoDialAfterClose
-----------------------------------------------------------------------------
(***************************************************************************)
(* Who is on the way back to a connection cannot be stopped, except by     *)
(* close().  Stopping a timer task cancels it; one that is reconnecting    *)
(* has given up its place as the timer of the object, and is spared.       *)
(***************************************************************************)
Away == {"sleep", "dial"}

TimerInv ==
    /\ heartbeat # 0 => Timer = "heartbeat"
    /\ ageTask # 0 => Timer = "age"
    /\ \A t \in Task : /\ pc[t] = "hbstop" => Timer = "heartbeat"
                       /\ pc[t] = "agestop" => Timer = "age"
    /\ \A n \in Conns : /\ pc[H(n)] \in Away => hbTask = FALSE \/ heartbeat # n
                        /\ pc[H(n)] = "hbstop" => on[H(n)] = n \/ heartbeat # n
                        /\ pc[A(n)] \in Away => ageTask # n
                        /\ pc[A(n)] = "agestop" => on[A(n)] = n \/ ageTask # n

Unstopped == \A t \in Task : pc[t] \in Away => t \notin cancelled

CallInv == /\ \A k \in Closers : kpc[k] # "idle" => user_closed
           /\ ~user_closed /\ ~running => /\ state = "IDLE" /\ cancelled = {}
                                          /\ \A t \in Task : pc[t] = "idle"

HandoverInv == /\ TimerInv
               /\ CallInv
               /\ ~user_closed => Unstopped
               /\ SomeoneReconnects

\* The timer task that is stopped is itself what gets cancelled.
LEMMA HeartbeatVictim ==
    ASSUME TypeInv, TimerInv, HeartbeatLive
    PROVE  /\ heartbeat \in Conns /\ H(heartbeat) \in Task /\ Timer = "heartbeat"
           /\ Victim(H(heartbeat)) = H(heartbeat)
           /\ pc[H(heartbeat)] \notin Away
<1>1. heartbeat \in Conns /\ H(heartbeat) \in Task
  BY ConnFacts DEF HeartbeatLive, TypeInv, TypeOK
<1>2. Timer = "heartbeat" /\ pc[H(heartbeat)] # "agestop"
  BY <1>1 DEF TimerInv, HeartbeatLive
<1>3. Awaited(H(heartbeat)) = H(heartbeat)
  BY <1>1, <1>2 DEF Awaited, TimerInv
<1>4. pc[H(heartbeat)] \notin Away
  BY <1>1 DEF TimerInv, HeartbeatLive
<1>. QED
  BY <1>1, <1>2, <1>3, <1>4 DEF Victim

LEMMA AgeTimerVictim ==
    ASSUME TypeInv, TimerInv, AgeTimerLive
    PROVE  /\ ageTask \in Conns /\ A(ageTask) \in Task /\ Timer = "age"
           /\ Victim(A(ageTask)) = A(ageTask)
           /\ pc[A(ageTask)] \notin Away
<1>1. ageTask \in Conns /\ A(ageTask) \in Task
  BY ConnFacts DEF AgeTimerLive, TypeInv, TypeOK
<1>2. Timer = "age" /\ pc[A(ageTask)] # "hbstop"
  BY <1>1 DEF TimerInv, AgeTimerLive
<1>3. Awaited(A(ageTask)) = A(ageTask)
  BY <1>1, <1>2 DEF Awaited, TimerInv
<1>4. pc[A(ageTask)] \notin Away
  BY <1>1 DEF TimerInv, AgeTimerLive
<1>. QED
  BY <1>1, <1>2, <1>3, <1>4 DEF Victim

\* What a step of t that does not dial does to the tasks ...
Turn(t) ==
    /\ pc[t] # "idle" \/ t \in cancelled
    /\ \A u \in Task : u # t => pc'[u] = pc[u] /\ on'[u] = on[u]
    /\ pc'[t] \in {"sleep", "replay", "recv", "hung", "hbstop", "agestop", "done", "crashed"}
    /\ \A u \in cancelled' : (u \in cancelled /\ u # t) \/ pc'[u] \notin Away

\* ... to the timers ...
TimersGivenUp(t) ==
    /\ heartbeat' = heartbeat
    /\ hbTask' \in {FALSE, hbTask}
    /\ ageTask' \in {0, ageTask}
    /\ pc'[t] = "hbstop" => Timer = "heartbeat" /\ on'[t] = heartbeat
    /\ pc'[t] = "agestop" => Timer = "age" /\ on'[t] = ageTask
    /\ pc'[t] = "sleep" => /\ \A n \in Conns : t = H(n) => hbTask' = FALSE \/ heartbeat # n
                           /\ \A n \in Conns : t = A(n) => ageTask' # n

\* ... and to the object's state.
Reports(t) == \/ state' = "BACKING_OFF" /\ pc'[t] = "sleep"
              \/ state' \in Terminal
              \/ state' = state /\ pc[t] \notin Away

\* A task that reaches for the timers as it suspends.
LEMMA TurnTimers ==
    ASSUME TypeInv, TimerInv, NEW t \in Task, Turn(t), TimersGivenUp(t)
    PROVE  TimerInv'
<1>1. /\ (heartbeat # 0)' => Timer = "heartbeat"
      /\ (ageTask # 0)' => Timer = "age"
  BY DEF TimerInv, TimersGivenUp
<1>2. ASSUME NEW u \in Task
      PROVE  /\ pc'[u] = "hbstop" => Timer = "heartbeat"
             /\ pc'[u] = "agestop" => Timer = "age"
  BY <1>2 DEF TimerInv, TimersGivenUp, Turn
<1>3. ASSUME NEW n \in Conns
      PROVE  /\ pc'[H(n)] \in Away => hbTask' = FALSE \/ heartbeat' # n
             /\ pc'[H(n)] = "hbstop" => on'[H(n)] = n \/ heartbeat' # n
  <2>1. H(n) \in Task
    BY ConnFacts
  <2>2. CASE H(n) = t
    BY <2>2 DEF TimersGivenUp, Turn, Away
  <2>3. CASE H(n) # t
    BY <2>1, <2>3 DEF TimersGivenUp, Turn, TimerInv
  <2>. QED
    BY <2>2, <2>3
<1>4. ASSUME NEW n \in Conns
      PROVE  /\ pc'[A(n)] \in Away => ageTask' # n
             /\ pc'[A(n)] = "agestop" => on'[A(n)] = n \/ ageTask' # n
  <2>0. n # 0
    BY DEF Conns
  <2>1. A(n) \in Task
    BY ConnFacts
  <2>2. CASE A(n) = t
    BY <2>0, <2>2 DEF TimersGivenUp, Turn, Away
  <2>3. CASE A(n) # t
    BY <2>0, <2>1, <2>3 DEF TimersGivenUp, Turn, TimerInv
  <2>. QED
    BY <2>2, <2>3
<1>. QED
  BY <1>1, <1>2, <1>3, <1>4 DEF TimerInv

\* Nobody but t leaves the way back, and t says so.
LEMMA TurnHandsOver ==
    ASSUME TypeInv, HandoverInv, NEW t \in Task, Turn(t), TimersGivenUp(t),
           user_closed \/ Reports(t), UNCHANGED <<user_closed, running, kpc>>
    PROVE  HandoverInv'
<1>1. TimerInv'
  BY TurnTimers DEF HandoverInv
<1>2. CallInv'
  <2>1. user_closed \/ running
    BY DEF HandoverInv, CallInv, Turn
  <2>. QED
    BY <2>1 DEF HandoverInv, CallInv
<1>3. ~user_closed' => Unstopped'
  <2>. SUFFICES ASSUME ~user_closed, NEW u \in Task, pc'[u] \in Away, u \in cancelled'
                PROVE  FALSE
    BY DEF Unstopped
  <2>1. u \in cancelled /\ u # t
    BY DEF Turn
  <2>2. pc[u] \in Away
    BY <2>1 DEF Turn
  <2>. QED
    BY <2>1, <2>2 DEF HandoverInv, Unstopped
<1>4. SomeoneReconnects'
  <2>. SUFFICES ASSUME ~user_closed, Reports(t)
                PROVE  /\ state' = "CONNECTING" => Diallers' # {}
                       /\ state' = "BACKING_OFF" => Sleepers' # {}
    BY DEF SomeoneReconnects
  <2>1. CASE state' = "BACKING_OFF" /\ pc'[t] = "sleep"
    BY <2>1 DEF Sleepers
  <2>2. CASE state' \in Terminal
    BY <2>2 DEF Terminal
  <2>3. CASE state' = state /\ pc[t] \notin Away
    <3>1. state = "CONNECTING" => Diallers' # {}
      <4>. SUFFICES ASSUME state = "CONNECTING"
                    PROVE  Diallers' # {}
        OBVIOUS
      <4>1. PICK u \in Task : pc[u] = "dial"
        BY DEF HandoverInv, SomeoneReconnects, Diallers
      <4>. QED
        BY <2>3, <4>1 DEF Turn, Diallers, Away
    <3>2. state = "BACKING_OFF" => Sleepers' # {}
      <4>. SUFFICES ASSUME state = "BACKING_OFF"
                    PROVE  Sleepers' # {}
        OBVIOUS
      <4>1. PICK u \in Task : pc[u] = "sleep"
        BY DEF HandoverInv, SomeoneReconnects, Sleepers
      <4>. QED
        BY <2>3, <4>1 DEF Turn, Sleepers, Away
    <3>. QED
      BY <2>3, <3>1, <3>2
  <2>. QED
    BY <2>1, <2>2, <2>3 DEF Reports
<1>. QED
  BY <1>1, <1>2, <1>3, <1>4 DEF HandoverInv
Up(t) == pc[t] # "idle" \/ t \in cancelled

LEMMA SuspendTurn ==
    ASSUME TypeInv, NEW t \in Task, Up(t), NEW c,
           NEW p \in {"sleep", "replay", "recv", "hung", "done", "crashed"}, Suspend(t, p, c)
    PROVE  Turn(t) /\ pc'[t] = p
BY DEF TypeInv, TypeOK, Up, Suspend, Turn

LEMMA EndTurn ==
    ASSUME TypeInv, NEW t \in Task, Up(t), Return(t) \/ Raise(t)
    PROVE  Turn(t) /\ pc'[t] \in {"done", "crashed"}
<1>1. CASE Return(t)
  BY <1>1, SuspendTurn DEF Return
<1>2. CASE Raise(t)
  BY <1>2, SuspendTurn DEF Raise
<1>. QED
  BY <1>1, <1>2

LEMMA CancelTurn ==
    ASSUME TypeInv, NEW t \in Task, Up(t), NEW c, NEW p \in {"hbstop", "agestop"},
           NEW u \in Task, Victim(u) = u, pc[u] \notin Away, CancelAndAwait(t, p, c, u)
    PROVE  Turn(t) /\ pc'[t] = p /\ on'[t] = c
BY DEF TypeInv, TypeOK, Up, CancelAndAwait, Turn, Away

LEMMA ScheduleReconnectTurn ==
    ASSUME TypeInv, NEW t \in Task, Up(t), ScheduleReconnect(t)
    PROVE  Turn(t) /\ Reports(t) /\ pc'[t] \notin {"hbstop", "agestop"}
<1>1. CASE Exhausted
  <2>1. Return(t) /\ state' = "FAILED"
    BY <1>1 DEF ScheduleReconnect
  <2>. QED
    BY <2>1, EndTurn DEF Reports, Terminal
<1>2. CASE ~Exhausted
  <2>1. Suspend(t, "sleep", 0) /\ state' = "BACKING_OFF"
    BY <1>2 DEF ScheduleReconnect
  <2>. QED
    BY <2>1, SuspendTurn DEF Reports
<1>. QED
  BY <1>1, <1>2

LEMMA DisconnectedTurn ==
    ASSUME TypeInv, NEW t \in Task, Up(t), Disconnected(t)
    PROVE  Turn(t) /\ Reports(t) /\ pc'[t] \notin {"hbstop", "agestop"}
<1>1. CASE Reconnect /\ ~user_closed
  BY <1>1, ScheduleReconnectTurn DEF Disconnected
<1>2. CASE ~(Reconnect /\ ~user_closed)
  <2>1. Return(t) /\ state' = "CLOSED"
    BY <1>2 DEF Disconnected
  <2>. QED
    BY <2>1, EndTurn DEF Reports, Terminal
<1>. QED
  BY <1>1, <1>2

LEMMA StopAgeTimerTurn ==
    ASSUME TypeInv, TimerInv, NEW t \in Task, Up(t), pc[t] \notin Away, StopAgeTimer(t)
    PROVE  /\ Turn(t) /\ Reports(t) /\ ageTask' \in {0, ageTask}
           /\ pc'[t] # "hbstop"
           /\ pc'[t] = "agestop" => Timer = "age" /\ on'[t] = ageTask
           /\ pc'[t] = "sleep" => ageTask' = 0
<1>1. CASE AgeTimerLive
  <2>1. /\ CancelAndAwait(t, "agestop", ageTask, A(ageTask))
        /\ ageTask' = ageTask /\ state' = state
    BY <1>1 DEF StopAgeTimer
  <2>2. Turn(t) /\ pc'[t] = "agestop" /\ on'[t] = ageTask /\ Timer = "age"
    BY <1>1, <2>1, AgeTimerVictim, CancelTurn
  <2>. QED
    BY <2>1, <2>2 DEF Reports
<1>2. CASE ~AgeTimerLive
  BY <1>2, DisconnectedTurn DEF StopAgeTimer
<1>. QED
  BY <1>1, <1>2

LEMMA HandleDisconnectTurn ==
    ASSUME TypeInv, TimerInv, NEW t \in Task, Up(t), pc[t] \notin Away, HandleDisconnect(t)
    PROVE  Turn(t) /\ Reports(t) /\ TimersGivenUp(t)
<1>1. CASE HeartbeatLive
  <2>1. /\ CancelAndAwait(t, "hbstop", heartbeat, H(heartbeat))
        /\ heartbeat' = heartbeat /\ hbTask' = hbTask /\ ageTask' = ageTask /\ state' = state
    BY <1>1 DEF HandleDisconnect, timerVars
  <2>2. Turn(t) /\ pc'[t] = "hbstop" /\ on'[t] = heartbeat /\ Timer = "heartbeat"
    BY <1>1, <2>1, HeartbeatVictim, CancelTurn
  <2>. QED
    BY <2>1, <2>2 DEF Reports, TimersGivenUp
<1>2. CASE ~HeartbeatLive
  <2>1. hbTask' = FALSE /\ heartbeat' = heartbeat /\ StopAgeTimer(t)
    BY <1>2 DEF HandleDisconnect
  <2>2. 0 \notin Conns
    BY DEF Conns
  <2>. QED
    BY <2>1, <2>2, StopAgeTimerTurn DEF TimersGivenUp
<1>. QED
  BY <1>1, <1>2

\* A step that leaves the timers alone gives up nothing.
LEMMA TimersLeft ==
    ASSUME TypeInv, TimerInv, NEW t \in Task, UNCHANGED <<heartbeat, hbTask, ageTask>>,
           pc'[t] \notin {"hbstop", "agestop"}, pc'[t] = "sleep" => pc[t] \in Away
    PROVE  TimersGivenUp(t)
BY DEF TimersGivenUp, TimerInv
-----------------------------------------------------------------------------
\* What the steps of the tasks but WakeUp and DialSucceeds are.
Steady(t) == /\ Turn(t) /\ TimersGivenUp(t)
             /\ user_closed \/ Reports(t)
             /\ UNCHANGED <<user_closed, running, kpc>>

LEMMA DialRefusedTurn ==
    ASSUME TypeInv, TimerInv, NEW t \in Task, DialRefused(t)
    PROVE  Steady(t)
<1>1. /\ pc[t] = "dial" /\ Up(t) /\ pc[t] \in Away
      /\ UNCHANGED <<user_closed, running, kpc, heartbeat, hbTask, ageTask>>
  BY DEF DialRefused, Up, Away, callVars, timerVars, closeVars
<1>2. Turn(t) /\ Reports(t) /\ pc'[t] \notin {"hbstop", "agestop"}
  <2>1. CASE Reconnect
    BY <1>1, <2>1, ScheduleReconnectTurn DEF DialRefused
  <2>2. CASE ~Reconnect
    <3>1. Raise(t) /\ state' = "FAILED"
      BY <2>2 DEF DialRefused
    <3>. QED
      BY <1>1, <3>1, EndTurn DEF Reports, Terminal
  <2>. QED
    BY <2>1, <2>2
<1>. QED
  BY <1>1, <1>2, TimersLeft DEF Steady

\* Task t suspends nowhere near the timers, and was not on its way back.
LEMMA PlainTurn ==
    ASSUME TypeInv, TimerInv, NEW t \in Task, Turn(t),
           pc'[t] \in {"recv", "hung", "done", "crashed"}, user_closed \/ pc[t] \notin Away,
           UNCHANGED <<state, user_closed, running, kpc, heartbeat, hbTask, ageTask>>
    PROVE  Steady(t)
<1>1. TimersGivenUp(t)
  BY TimersLeft
<1>2. user_closed \/ Reports(t)
  BY DEF Reports
<1>. QED
  BY <1>1, <1>2 DEF Steady

LEMMA TaskCancelledTurn ==
    ASSUME TypeInv, HandoverInv, NEW t \in Task, TaskCancelled(t)
    PROVE  Steady(t)
<1>1. /\ t \in cancelled /\ Return(t)
      /\ UNCHANGED <<state, user_closed, running, kpc, heartbeat, hbTask, ageTask>>
  BY DEF TaskCancelled, callVars, timerVars, closeVars
<1>2. user_closed \/ pc[t] \notin Away
  BY <1>1 DEF HandoverInv, Unstopped
<1>3. Turn(t) /\ pc'[t] \in {"done", "crashed"}
  BY <1>1, EndTurn DEF Up
<1>. QED
  BY <1>1, <1>2, <1>3, PlainTurn DEF HandoverInv

LEMMA HeartbeatStoppedTurn ==
    ASSUME TypeInv, HandoverInv, NEW t \in Task, HeartbeatStopped(t)
    PROVE  Steady(t)
<1>1. /\ pc[t] = "hbstop" /\ Up(t) /\ pc[t] \notin Away /\ TimerInv
      /\ UNCHANGED <<user_closed, running, kpc, heartbeat>>
      /\ hbTask' = (hbTask /\ heartbeat # on[t])
  BY DEF HeartbeatStopped, Up, Away, callVars, closeVars, HandoverInv
<1>2. Timer = "heartbeat" /\ ageTask = 0
  BY <1>1 DEF TimerInv
<1>3. hbTask' \in {FALSE, hbTask}
  BY <1>1
<1>4. CASE heartbeat = 0
  <2>1. Raise(t) /\ state' = state /\ ageTask' = ageTask
    BY <1>4 DEF HeartbeatStopped
  <2>2. Turn(t) /\ pc'[t] \in {"done", "crashed"}
    BY <1>1, <2>1, EndTurn
  <2>. QED
    BY <1>1, <1>3, <2>1, <2>2 DEF Steady, TimersGivenUp, Reports
<1>5. CASE heartbeat # 0
  <2>1. StopAgeTimer(t)
    BY <1>5 DEF HeartbeatStopped
  <2>2. /\ Turn(t) /\ Reports(t) /\ ageTask' = 0
        /\ pc'[t] # "hbstop"
        /\ pc'[t] # "agestop"
    BY <1>1, <1>2, <2>1, StopAgeTimerTurn
  <2>3. \A n \in Conns : t = H(n) => hbTask' = FALSE \/ heartbeat # n
    <3>. SUFFICES ASSUME NEW n \in Conns, t = H(n), heartbeat = n
                  PROVE  hbTask' = FALSE
      OBVIOUS
    <3>1. on[t] = n
      BY <1>1 DEF TimerInv
    <3>. QED
      BY <1>1, <3>1
  <2>4. \A n \in Conns : ageTask' # n
    BY <2>2 DEF Conns
  <2>. QED
    BY <1>1, <1>2, <1>3, <2>2, <2>3, <2>4 DEF Steady, TimersGivenUp
<1>. QED
  BY <1>4, <1>5

LEMMA AgeTimerStoppedTurn ==
    ASSUME TypeInv, HandoverInv, NEW t \in Task, AgeTimerStopped(t)
    PROVE  Steady(t)
<1>1. /\ pc[t] = "agestop" /\ Up(t) /\ pc[t] \notin Away /\ TimerInv
      /\ UNCHANGED <<user_closed, running, kpc, heartbeat, hbTask>>
  BY DEF AgeTimerStopped, Up, Away, callVars, closeVars, HandoverInv
<1>2. heartbeat = 0 /\ \A n \in Conns : n # 0
  BY <1>1 DEF TimerInv, Conns
<1>3. CASE pc[Awaited(t)] = "crashed"
  <2>1. Raise(t) /\ state' = state /\ ageTask' = ageTask
    BY <1>3 DEF AgeTimerStopped
  <2>2. Turn(t) /\ pc'[t] \in {"done", "crashed"}
    BY <1>1, <2>1, EndTurn
  <2>. QED
    BY <1>1, <2>1, <2>2 DEF Steady, TimersGivenUp, Reports
<1>4. CASE pc[Awaited(t)] # "crashed"
  <2>1. ageTask' = 0 /\ Disconnected(t)
    BY <1>4 DEF AgeTimerStopped
  <2>2. Turn(t) /\ Reports(t) /\ pc'[t] \notin {"hbstop", "agestop"}
    BY <1>1, <2>1, DisconnectedTurn
  <2>. QED
    BY <1>1, <1>2, <2>1, <2>2 DEF Steady, TimersGivenUp
<1>. QED
  BY <1>3, <1>4
LEMMA LoopTurnTurn ==
    ASSUME TypeInv, TimerInv, NEW t \in Task, Up(t), pc[t] \notin Away, LoopTurn(t),
           UNCHANGED <<user_closed, running, kpc>>
    PROVE  Steady(t)
<1>1. CASE HandleDisconnect(t)
  BY <1>1, HandleDisconnectTurn DEF Steady
<1>2. CASE /\ Return(t)
           /\ UNCHANGED <<heartbeat, hbTask, ageTask, state>>
  BY <1>2, EndTurn, PlainTurn
<1>3. CASE /\ Suspend(t, IF sock[transport] = "open" THEN "recv" ELSE "hung", transport)
           /\ UNCHANGED <<heartbeat, hbTask, ageTask, state>>
  <2>. DEFINE p == IF sock[transport] = "open" THEN "recv" ELSE "hung"
  <2>1. p \in {"recv", "hung"} /\ Suspend(t, p, transport)
    BY <1>3
  <2>. HIDE DEF p
  <2>2. Turn(t) /\ pc'[t] \in {"recv", "hung"}
    BY <2>1, SuspendTurn
  <2>. QED
    BY <1>3, <2>2, PlainTurn
<1>. QED
  BY <1>1, <1>2, <1>3 DEF LoopTurn, LoseConnection, timerVars

LEMMA MessageLoopTurn ==
    ASSUME TypeInv, TimerInv, NEW n \in Conns,
           MessageLoopStarts(n) \/ MessageArrives(n) \/ MessageLoopLoses(n)
    PROVE  Steady(L(n))
<1>1. /\ L(n) \in Task
      /\ Up(L(n)) /\ pc[L(n)] \notin Away /\ UNCHANGED <<user_closed, running, kpc>>
  BY ConnFacts DEF MessageLoopStarts, MessageArrives, MessageLoopLoses, Up, Away, callVars,
                   closeVars
<1>2. CASE MessageLoopStarts(n) \/ MessageArrives(n)
  BY <1>1, <1>2, LoopTurnTurn DEF MessageLoopStarts, MessageArrives
<1>3. CASE MessageLoopLoses(n)
  <2>1. HandleDisconnect(L(n))
    BY <1>3 DEF MessageLoopLoses, LoseConnection
  <2>. QED
    BY <1>1, <2>1, HandleDisconnectTurn DEF Steady
<1>. QED
  BY <1>2, <1>3

LEMMA TimersTurn ==
    ASSUME TypeInv, TimerInv, NEW n \in Conns,
           HandleHeartbeatTimeout(n) \/ ConnectionAgeTimer(n)
    PROVE  \E t \in Task : Steady(t)
<1>1. H(n) \in Task /\ A(n) \in Task /\ UNCHANGED <<user_closed, running, kpc>>
  BY ConnFacts DEF HandleHeartbeatTimeout, ConnectionAgeTimer, callVars, closeVars
<1>2. CASE HandleHeartbeatTimeout(n)
  <2>1. Up(H(n)) /\ pc[H(n)] \notin Away /\ HandleDisconnect(H(n))
    BY <1>2 DEF HandleHeartbeatTimeout, Up, Away
  <2>. QED
    BY <1>1, <2>1, HandleDisconnectTurn DEF Steady
<1>3. CASE ConnectionAgeTimer(n)
  <2>1. Up(A(n)) /\ pc[A(n)] \notin Away
    BY <1>3 DEF ConnectionAgeTimer, Up, Away
  <2>2. CASE HandleDisconnect(A(n))
    BY <1>1, <2>1, <2>2, HandleDisconnectTurn DEF Steady
  <2>3. CASE Return(A(n)) /\ UNCHANGED <<heartbeat, hbTask, ageTask, state>>
    BY <1>1, <2>1, <2>3, EndTurn, PlainTurn
  <2>. QED
    BY <1>3, <2>2, <2>3 DEF ConnectionAgeTimer, timerVars
<1>. QED
  BY <1>2, <1>3
-----------------------------------------------------------------------------
\* The steps that dial, the one that connects, and close().
LEMMA ConnectInternalHandsOver ==
    ASSUME TypeInv, HandoverInv, NEW t \in Task, ConnectInternal(t), running',
           \A n \in Conns : t = H(n) => hbTask = FALSE \/ heartbeat # n,
           \A n \in Conns : t = A(n) => ageTask # n,
           user_closed' = FALSE, UNCHANGED <<heartbeat, hbTask, ageTask, kpc>>,
           user_closed = FALSE
    PROVE  HandoverInv'
<1>1. /\ pc'[t] = "dial" /\ state' = "CONNECTING"
      /\ cancelled' = cancelled \ {t}
      /\ \A u \in Task : u # t => pc'[u] = pc[u] /\ on'[u] = on[u]
  BY DEF ConnectInternal, Suspend, TypeInv, TypeOK
<1>2. TimerInv'
  <2>1. TimerInv
    BY DEF HandoverInv
  <2>2. /\ (heartbeat # 0)' => Timer = "heartbeat"
        /\ (ageTask # 0)' => Timer = "age"
        /\ \A u \in Task : /\ pc'[u] = "hbstop" => Timer = "heartbeat"
                           /\ pc'[u] = "agestop" => Timer = "age"
    BY <1>1, <2>1 DEF TimerInv
  <2>3. ASSUME NEW n \in Conns
        PROVE  /\ pc'[H(n)] \in Away => hbTask' = FALSE \/ heartbeat' # n
               /\ pc'[H(n)] = "hbstop" => on'[H(n)] = n \/ heartbeat' # n
    <3>1. H(n) \in Task
      BY ConnFacts
    <3>2. CASE H(n) = t
      BY <1>1, <3>2
    <3>3. CASE H(n) # t
      BY <1>1, <2>1, <3>1, <3>3 DEF TimerInv
    <3>. QED
      BY <3>2, <3>3
  <2>4. ASSUME NEW n \in Conns
        PROVE  /\ pc'[A(n)] \in Away => ageTask' # n
               /\ pc'[A(n)] = "agestop" => on'[A(n)] = n \/ ageTask' # n
    <3>1. A(n) \in Task
      BY ConnFacts
    <3>2. CASE A(n) = t
      BY <1>1, <3>2
    <3>3. CASE A(n) # t
      BY <1>1, <2>1, <3>1, <3>3 DEF TimerInv
    <3>. QED
      BY <3>2, <3>3
  <2>. QED
    BY <2>2, <2>3, <2>4 DEF TimerInv
<1>3. CallInv'
  BY DEF HandoverInv, CallInv
<1>4. Unstopped'
  BY <1>1 DEF HandoverInv, Unstopped
<1>5. SomeoneReconnects'
  BY <1>1 DEF SomeoneReconnects, Diallers
<1>. QED
  BY <1>2, <1>3, <1>4, <1>5 DEF HandoverInv

LEMMA WakeUpHandsOver ==
    ASSUME TypeInv, HandoverInv, NEW t \in Task, WakeUp(t)
    PROVE  HandoverInv'
<1>1. /\ pc[t] = "sleep" /\ Up(t) /\ pc[t] \in Away
      /\ UNCHANGED <<user_closed, running, kpc, heartbeat, hbTask, ageTask>>
      /\ TimerInv
  BY DEF WakeUp, Up, Away, callVars, timerVars, closeVars, HandoverInv
<1>2. CASE ~running \/ user_closed
  <2>1. user_closed
    BY <1>1, <1>2 DEF HandoverInv, CallInv
  <2>2. Return(t) /\ state' = state
    BY <1>2 DEF WakeUp
  <2>3. Steady(t)
    BY <1>1, <2>1, <2>2, EndTurn, PlainTurn
  <2>. QED
    BY <2>3, TurnHandsOver DEF Steady
<1>3. CASE ~(~running \/ user_closed)
  <2>1. ConnectInternal(t) /\ running' /\ user_closed = FALSE /\ user_closed' = FALSE
    BY <1>1, <1>3 DEF WakeUp, TypeInv, TypeOK
  <2>2. /\ \A n \in Conns : t = H(n) => hbTask = FALSE \/ heartbeat # n
        /\ \A n \in Conns : t = A(n) => ageTask # n
    BY <1>1 DEF TimerInv
  <2>. QED
    BY <1>1, <2>1, <2>2, ConnectInternalHandsOver
<1>. QED
  BY <1>2, <1>3

LEMMA ConnectHandsOver ==
    ASSUME TypeInv, IdleInv, HandoverInv, Connect
    PROVE  HandoverInv'
<1>1. UNCHANGED <<heartbeat, hbTask, ageTask, kpc>> /\ pc[Caller] = "idle" /\ Caller \in Task
  BY ConnFacts DEF Connect, timerVars, closeVars
<1>2. CASE state = "IDLE"
  <2>1. ConnectInternal(Caller) /\ running' /\ user_closed' = FALSE /\ user_closed = FALSE
    BY <1>2 DEF Connect, IdleInv, TypeInv, TypeOK
  <2>2. \A n \in Conns : Caller # H(n) /\ Caller # A(n)
    BY DEF Caller, H, A
  <2>. QED
    BY <1>1, <2>1, <2>2, ConnectInternalHandsOver
<1>3. CASE state # "IDLE"
  <2>1. Raise(Caller) /\ UNCHANGED <<user_closed, running, state>>
    BY <1>3 DEF Connect, callVars
  <2>2. user_closed \/ running
    BY <1>3 DEF HandoverInv, CallInv
  <2>3. /\ pc'[Caller] = "crashed" /\ cancelled' \subseteq cancelled
        /\ \A u \in Task : u # Caller => pc'[u] = pc[u] /\ on'[u] = on[u]
    BY <2>1, <1>1 DEF Raise, Suspend, Caller, TypeInv, TypeOK
  <2>4. TimerInv'
    <3>1. \A n \in Conns : /\ H(n) \in Task /\ A(n) \in Task
                           /\ Caller # H(n) /\ Caller # A(n)
      BY ConnFacts DEF Caller, H, A
    <3>. QED
      BY <1>1, <2>3, <3>1 DEF HandoverInv, TimerInv
  <2>5. CallInv' /\ (~user_closed' => Unstopped')
    BY <1>1, <2>1, <2>2, <2>3 DEF HandoverInv, CallInv, Unstopped, Away
  <2>6. SomeoneReconnects'
    BY <1>1, <2>1, <2>3 DEF HandoverInv, SomeoneReconnects, Diallers, Sleepers
  <2>. QED
    BY <2>4, <2>5, <2>6 DEF HandoverInv
<1>. QED
  BY <1>2, <1>3

\* A connection's own tasks have not run yet, so none of them reconnects.
LEMMA StartTasksHandsOver ==
    ASSUME TypeInv, HandoverInv, NEW t \in Task, pc[t] # "idle", NEW c \in Conns,
           StartTasks(t, c), UNCHANGED <<user_closed, running, kpc>>
    PROVE  TimerInv' /\ CallInv' /\ (~user_closed' => Unstopped')
<1>1. L(c) \in Task /\ H(c) \in Task /\ A(c) \in Task
  BY ConnFacts
<1>2. /\ pc' = [pc EXCEPT ![t] = "done",
                          ![L(c)] = "start",
                          ![H(c)] = IF Timer = "heartbeat" THEN "beat" ELSE @,
                          ![A(c)] = IF Timer = "age" THEN "age" ELSE @]
      /\ cancelled' = cancelled
  BY DEF StartTasks
<1>3. \A u \in Task : \/ pc'[u] = pc[u] /\ on'[u] = on[u]
                      \/ pc'[u] \in {"done", "start", "beat", "age"}
  BY StartTasksMoves, TypeInvIs
<1>4. /\ Timer = "heartbeat" => heartbeat' = c /\ pc'[H(c)] = "beat"
      /\ Timer # "heartbeat" => heartbeat' = heartbeat /\ hbTask' = hbTask
      /\ Timer = "age" => ageTask' = c /\ pc'[A(c)] = "age"
      /\ Timer # "age" => ageTask' = ageTask
  <2>1. H(c) # A(c)
    BY DEF H, A
  <2>2. /\ Timer = "heartbeat" => pc'[H(c)] = "beat"
        /\ Timer = "age" => pc'[A(c)] = "age"
    BY <1>1, <1>2, <2>1 DEF TypeInv, TypeOK
  <2>. QED
    BY <2>2 DEF StartTasks
<1>5. TimerInv'
  <2>1. TimerInv
    BY DEF HandoverInv
  <2>2. /\ (heartbeat # 0)' => Timer = "heartbeat"
        /\ (ageTask # 0)' => Timer = "age"
        /\ \A u \in Task : /\ pc'[u] = "hbstop" => Timer = "heartbeat"
                           /\ pc'[u] = "agestop" => Timer = "age"
    BY <1>3, <1>4, <2>1 DEF TimerInv
  <2>3. ASSUME NEW n \in Conns
        PROVE  /\ pc'[H(n)] \in Away => hbTask' = FALSE \/ heartbeat' # n
               /\ pc'[H(n)] = "hbstop" => on'[H(n)] = n \/ heartbeat' # n
    <3>1. H(n) \in Task
      BY ConnFacts
    <3>2. CASE Timer = "heartbeat"
      BY <1>4, <3>2 DEF Away
    <3>3. CASE Timer # "heartbeat"
      BY <1>3, <1>4, <2>1, <3>1, <3>3 DEF Away, TimerInv
    <3>. QED
      BY <3>2, <3>3
  <2>4. ASSUME NEW n \in Conns
        PROVE  /\ pc'[A(n)] \in Away => ageTask' # n
               /\ pc'[A(n)] = "agestop" => on'[A(n)] = n \/ ageTask' # n
    <3>1. A(n) \in Task
      BY ConnFacts
    <3>2. CASE Timer = "age"
      BY <1>4, <3>2 DEF Away
    <3>3. CASE Timer # "age"
      BY <1>3, <1>4, <2>1, <3>1, <3>3 DEF Away, TimerInv
    <3>. QED
      BY <3>2, <3>3
  <2>. QED
    BY <2>2, <2>3, <2>4 DEF TimerInv
<1>6. CallInv'
  <2>1. user_closed \/ running
    BY DEF HandoverInv, CallInv
  <2>. QED
    BY <2>1 DEF HandoverInv, CallInv
<1>7. ~user_closed' => Unstopped'
  BY <1>2, <1>3 DEF HandoverInv, Unstopped, Away
<1>. QED
  BY <1>5, <1>6, <1>7

LEMMA DialSucceedsHandsOver ==
    ASSUME TypeInv, HandoverInv, NEW t \in Task, DialSucceeds(t)
    PROVE  HandoverInv'
<1>1. /\ pc[t] = "dial" /\ state' = "CONNECTED"
      /\ UNCHANGED <<user_closed, running, kpc>>
  BY DEF DialSucceeds, callVars, closeVars
<1>2. on[t] \in Conns
  BY <1>1 DEF TypeInv, Bound
<1>3. TimerInv' /\ CallInv' /\ (~user_closed' => Unstopped')
  <2>1. CASE StartTasks(t, on[t])
    BY <1>1, <1>2, <2>1, StartTasksHandsOver
  <2>2. CASE Suspend(t, "replay", on[t]) /\ UNCHANGED timerVars
    <3>1. Turn(t) /\ pc'[t] = "replay"
      BY <1>1, <2>2, SuspendTurn DEF Up
    <3>2. TimersGivenUp(t)
      BY <2>2, <3>1, TimersLeft DEF timerVars, HandoverInv
    <3>3. TimerInv'
      BY <3>1, <3>2, TurnTimers DEF HandoverInv
    <3>4. user_closed \/ running
      BY <1>1 DEF HandoverInv, CallInv
    <3>5. CallInv'
      BY <1>1, <3>4 DEF HandoverInv, CallInv
    <3>6. ~user_closed' => Unstopped'
      BY <1>1, <3>1 DEF HandoverInv, Unstopped, Turn
    <3>. QED
      BY <3>3, <3>5, <3>6
  <2>. QED
    BY <2>1, <2>2 DEF DialSucceeds
<1>4. SomeoneReconnects'
  BY <1>1 DEF SomeoneReconnects
<1>. QED
  BY <1>3, <1>4 DEF HandoverInv

LEMMA ReplayedHandsOver ==
    ASSUME TypeInv, FreshInv, HandoverInv, NEW t \in Task, Replayed(t)
    PROVE  HandoverInv'
<1>. DEFINE c == on[t]
<1>1. /\ pc[t] = "replay" /\ StartTasks(t, c)
      /\ UNCHANGED <<state, user_closed, running, kpc>>
  BY DEF Replayed, callVars, closeVars
<1>2. c \in Conns
  BY <1>1 DEF TypeInv, Bound
<1>3. \A u \in {L(c), H(c), A(c)} : pc[u] \in Dormant
  BY <1>1 DEF FreshInv, Dialled, Unborn
<1>. HIDE DEF c
<1>4. TimerInv' /\ CallInv' /\ (~user_closed' => Unstopped')
  BY <1>1, <1>2, StartTasksHandsOver
<1>5. \A u \in Task : pc[u] \in Away => pc'[u] = pc[u]
  <2>1. \A u \in Task : \/ u \in {L(c), H(c), A(c)}
                        \/ u = t /\ pc'[u] = "done"
                        \/ u # t /\ pc'[u] = pc[u] /\ on'[u] = on[u]
    BY <1>1, <1>2, StartTasksMoves, TypeInvIs
  <2>. QED
    BY <1>1, <1>3, <2>1 DEF Away, Dormant, Over
<1>6. Diallers \subseteq Diallers' /\ Sleepers \subseteq Sleepers'
  BY <1>5 DEF Diallers, Sleepers, Away
<1>7. SomeoneReconnects'
  <2>1. \/ user_closed
        \/ /\ state = "CONNECTING" => Diallers # {}
           /\ state = "BACKING_OFF" => Sleepers # {}
    BY DEF HandoverInv, SomeoneReconnects
  <2>. QED
    BY <1>1, <1>6, <2>1 DEF SomeoneReconnects
<1>. QED
  BY <1>4, <1>7 DEF HandoverInv

\* Whatever leaves the tasks where they are and only takes timers away.
LEMMA TimersTaken ==
    ASSUME TimerInv, UNCHANGED <<pc, on>>, heartbeat' \in {0, heartbeat},
           hbTask' \in {FALSE, hbTask}, ageTask' \in {0, ageTask}
    PROVE  TimerInv'
<1>1. \A n \in Conns : n # 0
  BY DEF Conns
<1>2. /\ (heartbeat # 0)' => Timer = "heartbeat"
      /\ (ageTask # 0)' => Timer = "age"
      /\ \A t \in Task : /\ pc'[t] = "hbstop" => Timer = "heartbeat"
                         /\ pc'[t] = "agestop" => Timer = "age"
  BY DEF TimerInv
<1>3. ASSUME NEW n \in Conns
      PROVE  /\ pc'[H(n)] \in Away => hbTask' = FALSE \/ heartbeat' # n
             /\ pc'[H(n)] = "hbstop" => on'[H(n)] = n \/ heartbeat' # n
             /\ pc'[A(n)] \in Away => ageTask' # n
             /\ pc'[A(n)] = "agestop" => on'[A(n)] = n \/ ageTask' # n
  BY <1>1 DEF TimerInv
<1>. QED
  BY <1>2, <1>3 DEF TimerInv

LEMMA ClosersHandOver ==
    ASSUME TypeInv, HandoverInv, NEW k \in Closers, Close(k) \/ CloseStep(k)
    PROVE  HandoverInv'
<1>1. UNCHANGED <<pc, on>>
  BY DEF Close, CloseStep, CloseHeartbeatStopped, CloseAgeTimerStopped, CloseTransportClosed,
         CloseTransportTimesOut, CloseMessageTaskStopped, taskVars
<1>2. user_closed'
  BY DEF Close, CloseStep, CloseHeartbeatStopped, CloseAgeTimerStopped, CloseTransportClosed,
         CloseTransportTimesOut, CloseMessageTaskStopped, callVars, HandoverInv, CallInv
<1>3. heartbeat' \in {0, heartbeat} /\ hbTask' \in {FALSE, hbTask} /\ ageTask' \in {0, ageTask}
  <2>1. ASSUME NEW st, CloseAgeTimer(k, st)
        PROVE  ageTask' \in {0, ageTask}
    BY <2>1 DEF CloseAgeTimer
  <2>2. ASSUME NEW st, CloseHeartbeat(k, st)
        PROVE  /\ heartbeat' \in {0, heartbeat} /\ hbTask' \in {FALSE, hbTask}
               /\ ageTask' \in {0, ageTask}
    <3>1. CASE UNCHANGED timerVars
      BY <3>1 DEF timerVars
    <3>2. CASE heartbeat' = 0 /\ hbTask' = FALSE /\ CloseAgeTimer(k, st)
      BY <2>1, <3>2
    <3>. QED
      BY <2>2, <3>1, <3>2 DEF CloseHeartbeat
  <2>3. CASE Close(k)
    BY <2>2, <2>3 DEF Close, timerVars
  <2>4. CASE CloseHeartbeatStopped(k)
    BY <2>1, <2>4 DEF CloseHeartbeatStopped
  <2>5. CASE CloseAgeTimerStopped(k)
    BY <2>5 DEF CloseAgeTimerStopped
  <2>6. CASE CloseTransportClosed(k) \/ CloseTransportTimesOut(k) \/ CloseMessageTaskStopped(k)
    BY <2>6 DEF CloseTransportClosed, CloseTransportTimesOut, CloseMessageTaskStopped, timerVars
  <2>. QED
    BY <2>3, <2>4, <2>5, <2>6 DEF CloseStep
<1>4. TimerInv'
  BY <1>1, <1>3, TimersTaken DEF HandoverInv
<1>. QED
  BY <1>2, <1>4 DEF HandoverInv, CallInv, SomeoneReconnects

LEMMA SurroundingsHandOver ==
    ASSUME TypeInv, HandoverInv,
           Run \/ RunEnds \/ (\E c \in Conns : PeerEnds(c)) \/ UNCHANGED vars
    PROVE  HandoverInv'
<1>1. UNCHANGED <<pc, on, cancelled, state, heartbeat, hbTask, ageTask, user_closed, running, kpc>>
  BY DEF Run, RunEnds, PeerEnds, vars, taskVars, timerVars, callVars, closeVars
<1>2. TimerInv'
  BY <1>1, TimersTaken DEF HandoverInv
<1>. QED
  BY <1>1, <1>2 DEF HandoverInv, CallInv, Unstopped, SomeoneReconnects, Diallers, Sleepers

LEMMA HandoverStep ==
    ASSUME "raw" \notin DialErrors, TypeInv, IdleInv, FreshInv, HandoverInv, [Next]_vars
    PROVE  HandoverInv'
<1>0. TimerInv
  BY DEF HandoverInv
<1>1. ASSUME NEW t \in Task, Steady(t)
      PROVE  HandoverInv'
  BY <1>1, TurnHandsOver DEF Steady
<1>2. ASSUME NEW t \in Task, TaskStep(t)
      PROVE  HandoverInv'
  <2>1. CASE WakeUp(t)
    BY <2>1, WakeUpHandsOver
  <2>2. CASE DialSucceeds(t)
    BY <2>2, DialSucceedsHandsOver
  <2>3. CASE DialRefused(t)
    BY <1>0, <1>1, <2>3, DialRefusedTurn
  <2>4. ~DialRaises(t)
    BY DEF DialRaises
  <2>5. CASE HeartbeatStopped(t)
    BY <1>1, <2>5, HeartbeatStoppedTurn
  <2>6. CASE AgeTimerStopped(t)
    BY <1>1, <2>6, AgeTimerStoppedTurn
  <2>7. CASE TaskCancelled(t)
    BY <1>1, <2>7, TaskCancelledTurn
  <2>. QED
    BY <1>2, <2>1, <2>2, <2>3, <2>4, <2>5, <2>6, <2>7 DEF TaskStep
<1>3. ASSUME NEW n \in Conns, LoopStep(n) \/ MessageArrives(n)
      PROVE  HandoverInv'
  <2>1. L(n) \in Task /\ Steady(L(n))
    BY <1>0, <1>3, ConnFacts, MessageLoopTurn DEF LoopStep
  <2>. QED
    BY <1>1, <2>1
<1>4. ASSUME NEW n \in Conns, HandleHeartbeatTimeout(n) \/ ConnectionAgeTimer(n)
      PROVE  HandoverInv'
  BY <1>0, <1>1, <1>4, TimersTurn
<1>5. ASSUME NEW t \in Task, Replayed(t)
      PROVE  HandoverInv'
  BY <1>5, ReplayedHandsOver
<1>. QED
  BY <1>2, <1>3, <1>4, <1>5, ConnectHandsOver, ClosersHandOver, SurroundingsHandOver DEF Next

\* An object that is CONNECTING or BACKING_OFF has a task that will bring it out
\* of there, whatever timers it has and whoever of the loops and the timers
\* reconnects, provided that transport.connect() fails only with the errors
\* that _connect_internal() catches.
THEOREM ReconnectionTheorem ==
    ASSUME "raw" \notin DialErrors
    PROVE  Spec => []SomeoneReconnects
<1>1. Init => TypeInv /\ IdleInv /\ FreshInv /\ HandoverInv
  <2>. SUFFICES ASSUME Init
                PROVE  TypeInv /\ IdleInv /\ FreshInv /\ HandoverInv
    OBVIOUS
  <2>1. /\ \A t \in Task : pc[t] = "idle"
        /\ \A k \in Closers : kpc[k] = "idle"
        /\ \A n \in Conns : H(n) \in Task /\ A(n) \in Task
    BY ConnFacts DEF Init
  <2>2. heartbeat = 0 /\ ageTask = 0 /\ cancelled = {} /\ state = "IDLE"
    BY DEF Init
  <2>3. TimerInv
    BY <2>1, <2>2 DEF TimerInv, Away
  <2>4. CallInv /\ Unstopped /\ SomeoneReconnects
    BY <2>1, <2>2 DEF CallInv, Unstopped, SomeoneReconnects
  <2>. QED
    BY <2>3, <2>4, InitOK DEF HandoverInv
<1>2. TypeInv /\ IdleInv /\ FreshInv /\ HandoverInv /\ [Next]_vars
        => (TypeInv /\ IdleInv /\ FreshInv /\ HandoverInv)'
  BY NextOK, FreshStep, HandoverStep
<1>3. HandoverInv => SomeoneReconnects
  BY DEF HandoverInv
<1>. QED
  BY <1>1, <1>2, <1>3, PTL DEF Spec
-----------------------------------------------------------------------------
(***************************************************************************)
(* An object without timers: one task is in charge of it.                  *)
(***************************************************************************)
Active == {t \in Task : pc[t] \notin {"idle"} \cup Over}
Waiting == {"closing", "mtstop"}

\* No timer ever runs, and nobody waits for one.
NoTimers == /\ heartbeat = 0 /\ hbTask = FALSE /\ ageTask = 0
            /\ \A t \in Active : /\ t = Caller \/ \E n \in Conns : t = L(n)
                                 /\ pc[t] \in {"sleep", "dial", "replay", "start", "recv", "hung"}
            /\ \A k \in Closers : kpc[k] \notin {"hbstop", "agestop"}

\* One task at most is active; a message loop that is active is the object's.
OneActive == /\ \A t, u \in Active : t = u
             /\ \A n \in Conns : L(n) \in Active => messageTask = n

\* Until connect() has ended there is nothing but its task, and until it
\* replays no connection.
BeforeInv == /\ ~Ended(Caller) => /\ messageTask = 0 /\ cancelled = {}
                                  /\ \A n \in Conns : pc[L(n)] = "idle"
                                  /\ \A k \in Closers : kpc[k] # "mtstop"
             /\ ~Ended(Caller) /\ pc[Caller] # "replay"
                    => connected = {} /\ \A k \in Closers : kpc[k] # "closing"
             /\ state = "IDLE" => pc[Caller] = "idle"

\* Who reconnects has no connection, and a connection given up is shut.
NetInv == /\ \A t \in Task : pc[t] \in Away => connected = {}
          /\ \A c \in Conns : c \notin connected => sock[c] \in {"none", "shut"}
          /\ ~user_closed => /\ connected \subseteq {transport}
                             /\ \A t \in Task : pc[t] \in {"recv", "hung", "dial"}
                                                   => on[t] = transport

\* close() waits for a message loop that it has cancelled, or for the socket of
\* one that is not reconnecting.
StopInv == /\ \A k \in Closers :
                 /\ kpc[k] # "idle" => user_closed
                 /\ kpc[k] = "mtstop" => /\ kon[k] \in Conns
                                         /\ messageTask \in {0, kon[k]}
                                         /\ Ended(L(kon[k])) \/ L(kon[k]) \in cancelled
                 /\ kpc[k] = "closing" => \A t \in Task : pc[t] \notin Away
                 /\ kpc[k] \in Waiting => state # "FAILED"

\* Nothing but connect() is active once the object is CLOSED or FAILED, and the
\* message loop of a connect() that replayed while close() returned.
FinalInv == state \in Terminal =>
    \A t \in Active : \/ t = Caller /\ (pc[t] = "replay" => user_closed)
                      \/ pc[t] = "start" /\ user_closed

SoloInv == NoTimers /\ OneActive /\ BeforeInv /\ NetInv /\ StopInv /\ FinalInv

\* Task t, active or cancelled, goes on to p; everyone else stays.
SoloTurn(t, p) ==
    /\ \/ t \in Active /\ t \notin cancelled
       \/ t \in cancelled /\ p \in Over /\ state' = state
    /\ p \in {"sleep", "dial", "recv", "hung"} \cup Over
    /\ pc[t] = "replay" \/ (state \in Terminal /\ t # Caller) => p \in Over
    /\ pc' = [pc EXCEPT ![t] = p]
    /\ \A u \in Task : u # t => on'[u] = on[u]
    /\ cancelled' = cancelled \ {t}
    /\ connected' \subseteq connected
    /\ heartbeat' = 0 /\ hbTask' = FALSE /\ ageTask' = 0
    /\ UNCHANGED <<messageTask, user_closed, kpc, kon>>
    /\ state' = state \/ state' # "IDLE"

LEMMA SoloTurnMoves ==
    ASSUME TypeInv, SoloInv, NEW t \in Task, NEW p, SoloTurn(t, p)
    PROVE  /\ pc'[t] = p
           /\ \A u \in Task : u # t => pc'[u] = pc[u]
           /\ Active' \subseteq Active
           /\ p \in Over => Active' = Active \ {t}
           /\ t \in Active => \A u \in Active' : u = t
<1>1. pc'[t] = p /\ \A u \in Task : u # t => pc'[u] = pc[u]
  BY DEF SoloTurn, TypeInv, TypeOK
<1>2. Active' \subseteq Active
  BY <1>1 DEF SoloTurn, Active, Over
<1>3. p \in Over => Active' = Active \ {t}
  BY <1>1 DEF Active
<1>4. t \in Active => \A u \in Active' : u = t
  BY <1>2 DEF SoloInv, OneActive
<1>. QED
  BY <1>1, <1>2, <1>3, <1>4

LEMMA SoloTurnKeeps ==
    ASSUME TypeInv, SoloInv, NEW t \in Task, NEW p, SoloTurn(t, p)
    PROVE  /\ NoTimers' /\ OneActive' /\ BeforeInv'
           /\ \A k \in Closers :
                 /\ kpc'[k] # "idle" => user_closed'
                 /\ kpc'[k] = "mtstop" => /\ kon'[k] \in Conns /\ messageTask' \in {0, kon'[k]}
                                          /\ Ended(L(kon[k]))' \/ (L(kon[k]) \in cancelled)'
<1>. USE DEF SoloInv
<1>1. /\ pc'[t] = p /\ \A u \in Task : u # t => pc'[u] = pc[u]
      /\ Active' \subseteq Active
  BY SoloTurnMoves
<1>2. NoTimers'
  <2>1. \A u \in Active' : /\ u = Caller \/ \E n \in Conns : u = L(n)
                           /\ pc'[u] \in {"sleep", "dial", "replay", "start", "recv", "hung"}
    BY <1>1 DEF NoTimers, SoloTurn, Active, Over
  <2>. QED
    BY <2>1 DEF NoTimers, SoloTurn
<1>3. OneActive'
  BY <1>1 DEF OneActive, SoloTurn
<1>4. Ended(Caller) \/ t = Caller
  <2>. SUFFICES ASSUME ~Ended(Caller)
                PROVE  t = Caller
    OBVIOUS
  <2>1. t \in Active
    BY DEF BeforeInv, SoloTurn
  <2>2. \A n \in Conns : t # L(n)
    BY <2>1 DEF BeforeInv, Active
  <2>. QED
    BY <2>1, <2>2 DEF NoTimers
<1>5. BeforeInv'
  <2>0. Caller \in Task /\ \A n \in Conns : L(n) \in Task /\ L(n) # Caller
    BY ConnFacts DEF L, Caller
  <2>1. state # "IDLE" /\ state' # "IDLE"
    <3>1. ASSUME state = "IDLE"
          PROVE  FALSE
      <4>1. pc[Caller] = "idle" /\ cancelled = {}
        BY <3>1 DEF BeforeInv, Ended
      <4>. QED
        BY <1>4, <4>1 DEF SoloTurn, Active, Ended
    <3>. QED
      BY <3>1 DEF SoloTurn
  <2>2. ASSUME ~Ended(Caller)'
        PROVE  ~Ended(Caller) /\ t = Caller
    <3>1. CASE t = Caller
      <4>1. Caller \notin cancelled
        BY <1>1, <2>2, <3>1 DEF SoloTurn, Ended, Over
      <4>2. Caller \in Active
        BY <3>1, <4>1 DEF SoloTurn
      <4>. QED
        BY <3>1, <4>2 DEF Active, Over, Ended
    <3>2. CASE t # Caller
      BY <1>1, <1>4, <2>0, <2>2, <3>2 DEF Ended
    <3>. QED
      BY <3>1, <3>2
  <2>3. ASSUME ~Ended(Caller)'
        PROVE  /\ messageTask' = 0 /\ cancelled' = {} /\ connected' = {}
               /\ \A n \in Conns : pc'[L(n)] = "idle"
               /\ \A k \in Closers : kpc'[k] \notin Waiting
    <3>1. ~Ended(Caller) /\ t = Caller
      BY <2>2, <2>3
    <3>2. p \notin Over
      BY <1>1, <2>3, <3>1 DEF Ended, Over
    <3>3. pc[Caller] # "replay"
      BY <3>1, <3>2 DEF SoloTurn
    <3>4. /\ messageTask = 0 /\ cancelled = {} /\ connected = {}
          /\ \A n \in Conns : pc[L(n)] = "idle"
          /\ \A k \in Closers : kpc[k] \notin Waiting
      BY <3>1, <3>3 DEF BeforeInv, Waiting
    <3>5. /\ messageTask' = messageTask /\ kpc' = kpc
          /\ cancelled' = cancelled \ {t} /\ connected' \subseteq connected
      BY DEF SoloTurn
    <3>6. \A n \in Conns : pc'[L(n)] = "idle"
      BY <1>1, <2>0, <3>1, <3>4
    <3>. QED
      BY <3>4, <3>5, <3>6
  <2>. QED
    BY <2>1, <2>3 DEF BeforeInv, Waiting
<1>6. ASSUME NEW k \in Closers
      PROVE  /\ kpc'[k] # "idle" => user_closed'
             /\ kpc'[k] = "mtstop" => /\ kon'[k] \in Conns /\ messageTask' \in {0, kon'[k]}
                                      /\ Ended(L(kon[k]))' \/ (L(kon[k]) \in cancelled)'
  <2>1. UNCHANGED <<kpc, kon, messageTask, user_closed>>
    BY DEF SoloTurn
  <2>2. ASSUME kpc[k] = "mtstop"
        PROVE  Ended(L(kon[k]))' \/ (L(kon[k]) \in cancelled)'
    <3>0. Ended(L(kon[k])) \/ L(kon[k]) \in cancelled
      BY <2>2 DEF StopInv
    <3>1. CASE L(kon[k]) = t
      <4>1. p \in Over
        BY <3>0, <3>1 DEF SoloTurn, Active, Ended, Over
      <4>. QED
        BY <1>1, <2>1, <3>1, <4>1 DEF Ended, Over
    <3>2. CASE L(kon[k]) # t /\ L(kon[k]) \in cancelled
      BY <2>1, <3>2 DEF SoloTurn
    <3>3. CASE L(kon[k]) # t /\ Ended(L(kon[k]))
      <4>1. pc'[L(kon[k])] = pc[L(kon[k])]
        BY <1>1, <2>2, <3>3, ConnFacts DEF StopInv
      <4>. QED
        BY <2>1, <3>3, <4>1 DEF Ended
    <3>. QED
      BY <3>0, <3>1, <3>2, <3>3
  <2>. QED
    BY <2>1, <2>2 DEF StopInv
<1>. QED
  BY <1>2, <1>3, <1>5, <1>6

\* What a turn of t leaves to be shown.
LEMMA SoloTurnOK ==
    ASSUME TypeInv, SoloInv, NEW t \in Task, NEW p, SoloTurn(t, p),
           p \in Away => /\ ~user_closed \/ pc[t] \in Away
                         /\ connected' = {},
           \A c \in Conns : c \notin connected' => sock'[c] \in {"none", "shut"},
           ~user_closed => /\ connected' \subseteq {transport'}
                           /\ p \in {"recv", "hung", "dial"} => on'[t] = transport'
                           /\ transport' = transport \/ t \in Active,
           \/ state' = state
           \/ state' \notin Terminal
           \/ state' = "CLOSED" /\ p \in Over /\ t \in Active
           \/ /\ state' = "FAILED" /\ p \in Over /\ t \in Active
              /\ ~user_closed \/ pc[t] \in Away
    PROVE  SoloInv'
<1>1. /\ pc'[t] = p /\ \A u \in Task : u # t => pc'[u] = pc[u] /\ on'[u] = on[u]
      /\ Active' \subseteq Active
      /\ p \in Over => Active' = Active \ {t}
      /\ t \in Active => \A u \in Active' : u = t
  BY SoloTurnMoves DEF SoloTurn
<1>2. /\ NoTimers' /\ OneActive' /\ BeforeInv'
      /\ \A k \in Closers :
            /\ kpc'[k] # "idle" => user_closed'
            /\ kpc'[k] = "mtstop" => /\ kon'[k] \in Conns /\ messageTask' \in {0, kon'[k]}
                                     /\ Ended(L(kon[k]))' \/ (L(kon[k]) \in cancelled)'
  BY SoloTurnKeeps
<1>3. NetInv'
  <2>1. \A u \in Task : pc'[u] \in Away => connected' = {}
    <3>. SUFFICES ASSUME NEW u \in Task, pc'[u] \in Away
                  PROVE  connected' = {}
      OBVIOUS
    <3>1. CASE u = t
      BY <1>1, <3>1
    <3>2. CASE u # t
      BY <1>1, <3>2 DEF SoloInv, NetInv, SoloTurn
    <3>. QED
      BY <3>1, <3>2
  <2>2. ASSUME ~user_closed'
        PROVE  /\ connected' \subseteq {transport'}
               /\ \A u \in Task : pc'[u] \in {"recv", "hung", "dial"} => on'[u] = transport'
    <3>0. ~user_closed
      BY <2>2 DEF SoloTurn
    <3>. SUFFICES ASSUME NEW u \in Task, pc'[u] \in {"recv", "hung", "dial"}
                  PROVE  on'[u] = transport'
      BY <3>0
    <3>1. CASE u = t
      BY <1>1, <3>0, <3>1
    <3>2. CASE u # t
      <4>1. u \in Active'
        BY DEF Active, Over
      <4>2. transport' = transport
        BY <1>1, <3>0, <3>2, <4>1
      <4>. QED
        BY <1>1, <3>0, <3>2, <4>2 DEF SoloInv, NetInv
    <3>. QED
      BY <3>1, <3>2
  <2>. QED
    BY <2>1, <2>2 DEF NetInv
<1>4. ASSUME NEW k \in Closers
      PROVE  /\ kpc'[k] = "closing" => \A u \in Task : pc'[u] \notin Away
             /\ kpc'[k] \in Waiting => state' # "FAILED"
  <2>1. kpc' = kpc
    BY DEF SoloTurn
  <2>2. kpc[k] # "idle" => user_closed
    BY DEF SoloInv, StopInv
  <2>3. ASSUME kpc[k] = "closing", NEW u \in Task
        PROVE  pc'[u] \notin Away
    <3>1. \A v \in Task : pc[v] \notin Away
      BY <2>3 DEF SoloInv, StopInv
    <3>. QED
      BY <1>1, <2>2, <2>3, <3>1
  <2>4. ASSUME kpc[k] \in Waiting, state' = "FAILED"
        PROVE  FALSE
    <3>1. user_closed /\ state # "FAILED"
      BY <2>2, <2>4 DEF SoloInv, StopInv, Waiting
    <3>2. t \in Active /\ pc[t] \in Away
      BY <2>4, <3>1 DEF Terminal
    <3>3. kpc[k] = "mtstop"
      BY <2>4, <3>2 DEF SoloInv, StopInv, Waiting
    <3>4. Ended(Caller) /\ t # Caller
      BY <3>2, <3>3, <2>4 DEF SoloInv, BeforeInv, Active, Ended, Over
    <3>5. PICK n \in Conns : t = L(n)
      BY <3>2, <3>4 DEF SoloInv, NoTimers
    <3>6. messageTask = n /\ messageTask \in {0, kon[k]} /\ n # 0
      BY <3>2, <3>3, <3>5 DEF SoloInv, OneActive, StopInv, Conns
    <3>7. Ended(t) \/ t \in cancelled
      BY <3>3, <3>5, <3>6 DEF SoloInv, StopInv
    <3>8. t \in cancelled
      BY <3>2, <3>7 DEF Active, Ended, Over
    <3>. QED
      BY <2>4, <3>1, <3>8 DEF SoloTurn
  <2>. QED
    BY <2>1, <2>3, <2>4
<1>5. FinalInv'
  <2>1. CASE state' = state
    <3>. SUFFICES ASSUME state \in Terminal, NEW u \in Active'
                  PROVE  \/ u = Caller /\ (pc'[u] = "replay" => user_closed')
                         \/ pc'[u] = "start" /\ user_closed'
      BY <2>1 DEF FinalInv
    <3>1. user_closed' = user_closed /\ u \in Active /\ u \in Task
      BY <1>1 DEF SoloTurn, Active
    <3>2. \/ u = Caller /\ (pc[u] = "replay" => user_closed)
          \/ pc[u] = "start" /\ user_closed
      BY <3>1 DEF SoloInv, FinalInv
    <3>3. CASE u # t
      <4>1. pc'[u] = pc[u]
        BY <1>1, <3>1, <3>3
      <4>. QED
        BY <3>1, <3>2, <4>1
    <3>4. CASE u = t
      <4>1. p \notin Over
        BY <1>1, <3>4 DEF Active
      <4>2. t = Caller
        BY <4>1 DEF SoloTurn
      <4>3. pc'[u] # "replay"
        BY <1>1, <3>4 DEF SoloTurn, Over
      <4>. QED
        BY <3>4, <4>2, <4>3
    <3>. QED
      BY <3>3, <3>4
  <2>2. CASE p \in Over /\ t \in Active
    <3>1. Active' = {}
      BY <1>1, <2>2
    <3>. QED
      BY <3>1 DEF FinalInv
  <2>3. CASE state' \notin Terminal
    BY <2>3 DEF FinalInv
  <2>. QED
    BY <2>1, <2>2, <2>3
<1>. QED
  BY <1>2, <1>3, <1>4, <1>5 DEF SoloInv, StopInv
\* With no timer to stop, _handle_disconnect() runs in one piece.
LEMMA DisconnectSolo ==
    ASSUME TypeInv, SoloInv, NEW t \in Task, t \in Active, t \notin cancelled,
           pc[t] # "replay", HandleDisconnect(t), connected' \subseteq connected,
           user_closed = FALSE => connected' = {},
           \A c \in Conns : c \notin connected' => sock'[c] \in {"none", "shut"},
           UNCHANGED <<messageTask, user_closed, kpc, kon>>
    PROVE  SoloInv'
<1>0. user_closed \in BOOLEAN
  BY DEF TypeInv, TypeOK
<1>1. heartbeat = 0 /\ ageTask = 0
  BY DEF SoloInv, NoTimers
<1>2. heartbeat' = 0 /\ hbTask' = FALSE /\ ageTask' = 0 /\ Disconnected(t)
  BY <1>1 DEF HandleDisconnect, HeartbeatLive, StopAgeTimer, AgeTimerLive
<1>3. ASSUME NEW p, NEW c, Suspend(t, p, c), p \in {"sleep", "done"}, transport' = transport,
             \/ p = "sleep" /\ user_closed = FALSE /\ state' = "BACKING_OFF"
             \/ p = "done" /\ user_closed = FALSE /\ state' = "FAILED"
             \/ p = "done" /\ state' = "CLOSED"
      PROVE  SoloInv'
  <2>1. SoloTurn(t, p)
    <3>1. \A u \in Task : u # t => on'[u] = on[u]
      BY <1>3 DEF Suspend, TypeInv, TypeOK
    <3>2. state \in Terminal /\ t # Caller => user_closed
      BY DEF SoloInv, FinalInv
    <3>3. pc[t] = "replay" \/ (state \in Terminal /\ t # Caller) => p \in Over
      BY <1>3, <3>2 DEF Over
    <3>. QED
      BY <1>2, <1>3, <3>1, <3>3 DEF SoloTurn, Suspend, Over
  <2>2. p \in Away => user_closed = FALSE /\ connected' = {}
    BY <1>3 DEF Away
  <2>3. user_closed = FALSE => connected' \subseteq {transport'}
    OBVIOUS
  <2>4. p \notin {"recv", "hung", "dial"}
    BY <1>3
  <2>5. \/ state' \notin Terminal
        \/ state' = "CLOSED" /\ p \in Over /\ t \in Active
        \/ state' = "FAILED" /\ p \in Over /\ t \in Active /\ user_closed = FALSE
    BY <1>3 DEF Terminal, Over
  <2>. QED
    BY <1>3, <2>1, <2>2, <2>3, <2>4, <2>5, SoloTurnOK
<1>4. CASE Reconnect /\ ~user_closed
  <2>0. user_closed = FALSE
    BY <1>0, <1>4
  <2>1. ScheduleReconnect(t)
    BY <1>2, <1>4 DEF Disconnected
  <2>2. CASE Exhausted
    BY <1>3, <2>0, <2>1, <2>2 DEF ScheduleReconnect, Return
  <2>3. CASE ~Exhausted
    BY <1>3, <2>0, <2>1, <2>3 DEF ScheduleReconnect
  <2>. QED
    BY <2>2, <2>3
<1>5. CASE ~(Reconnect /\ ~user_closed)
  BY <1>2, <1>3, <1>5 DEF Disconnected, Return
<1>. QED
  BY <1>4, <1>5

\* A task in none of the suspensions that only timers make.
LEMMA SoloActive ==
    ASSUME SoloInv, NEW t \in Active
    PROVE  /\ t = Caller \/ \E n \in Conns : t = L(n)
           /\ pc[t] \in {"sleep", "dial", "replay", "start", "recv", "hung"}
BY DEF SoloInv, NoTimers

LEMMA LoseConnectionSolo ==
    ASSUME TypeInv, SoloInv, NEW t \in Task, t \in Active, t \notin cancelled,
           pc[t] # "replay", NEW c \in Conns,
           user_closed = FALSE => c = transport, LoseConnection(t, c),
           UNCHANGED <<messageTask, user_closed, kpc, kon>>
    PROVE  SoloInv'
<1>1. connected' = connected \ {c} /\ HandleDisconnect(t)
  BY DEF LoseConnection
<1>2. user_closed = FALSE => connected' = {}
  BY <1>1 DEF SoloInv, NetInv
<1>3. \A d \in Conns : d \notin connected' => sock'[d] \in {"none", "shut"}
  BY <1>1 DEF LoseConnection, SoloInv, NetInv, TypeInv, TypeOK
<1>. QED
  BY <1>1, <1>2, <1>3, DisconnectSolo

LEMMA LoopTurnSolo ==
    ASSUME TypeInv, SoloInv, NEW t \in Task, t \in Active, t \notin cancelled,
           pc[t] \in {"start", "recv"}, LoopTurn(t), UNCHANGED <<messageTask, user_closed, kpc, kon>>
    PROVE  SoloInv'
<1>0. user_closed \in BOOLEAN /\ heartbeat = 0 /\ hbTask = FALSE /\ ageTask = 0
  BY DEF TypeInv, TypeOK, SoloInv, NoTimers
<1>1. ASSUME NEW p, NEW c, Suspend(t, p, c), p \in {"recv", "hung", "done"},
             p # "done" => c = transport /\ state = "CONNECTED",
             UNCHANGED <<sockVars, timerVars, state, boff, transport, attempt>>
      PROVE  SoloInv'
  <2>1. SoloTurn(t, p)
    <3>1. \A u \in Task : u # t => on'[u] = on[u]
      BY <1>1 DEF Suspend, TypeInv, TypeOK
    <3>2. heartbeat' = 0 /\ hbTask' = FALSE /\ ageTask' = 0
      BY <1>0, <1>1 DEF timerVars
    <3>3. pc[t] = "replay" \/ (state \in Terminal /\ t # Caller) => p \in Over
      BY <1>1 DEF Over, Terminal
    <3>. QED
      BY <1>1, <3>1, <3>2, <3>3 DEF SoloTurn, Suspend, Over, sockVars
  <2>2. p \notin Away
    BY <1>1 DEF Away
  <2>3. /\ \A d \in Conns : d \notin connected' => sock'[d] \in {"none", "shut"}
        /\ ~user_closed => connected' \subseteq {transport'}
    BY <1>1 DEF SoloInv, NetInv, sockVars
  <2>4. p \in {"recv", "hung", "dial"} => on'[t] = transport'
    BY <1>1 DEF Suspend, TypeInv, TypeOK
  <2>. QED
    BY <1>1, <2>1, <2>2, <2>3, <2>4, SoloTurnOK
<1>2. CASE ~(running /\ state = "CONNECTED" /\ transport # 0)
  BY <1>1, <1>2 DEF LoopTurn, Return
<1>3. CASE /\ running /\ state = "CONNECTED" /\ transport # 0
           /\ transport \notin connected
  <2>1. HandleDisconnect(t) /\ UNCHANGED sockVars
    BY <1>3 DEF LoopTurn
  <2>2. user_closed = FALSE => connected' = {}
    BY <1>3, <2>1 DEF SoloInv, NetInv, sockVars
  <2>3. \A d \in Conns : d \notin connected' => sock'[d] \in {"none", "shut"}
    BY <2>1 DEF SoloInv, NetInv, sockVars
  <2>. QED
    BY <2>1, <2>2, <2>3, DisconnectSolo DEF sockVars
<1>4. CASE /\ running /\ state = "CONNECTED" /\ transport # 0
           /\ transport \in connected /\ sock[transport] = "closeframe"
  <2>1. LoseConnection(t, transport) /\ transport \in Conns
    BY <1>4, ConnFacts DEF LoopTurn, TypeInv, TypeOK
  <2>. QED
    BY <2>1, LoseConnectionSolo
<1>5. CASE /\ running /\ state = "CONNECTED" /\ transport # 0
           /\ transport \in connected /\ sock[transport] # "closeframe"
  BY <1>1, <1>5 DEF LoopTurn
<1>. QED
  BY <1>2, <1>3, <1>4, <1>5

LEMMA MessageLoopSolo ==
    ASSUME TypeInv, SoloInv, NEW n \in Conns,
           MessageLoopStarts(n) \/ MessageArrives(n) \/ MessageLoopLoses(n)
    PROVE  SoloInv'
<1>1. /\ L(n) \in Task /\ pc[L(n)] \in {"start", "recv"} /\ L(n) \notin cancelled
      /\ UNCHANGED <<messageTask, user_closed, kpc, kon>>
  BY ConnFacts DEF MessageLoopStarts, MessageArrives, MessageLoopLoses, callVars, closeVars
<1>2. L(n) \in Active
  BY <1>1 DEF Active, Over
<1>3. CASE MessageLoopStarts(n) \/ MessageArrives(n)
  <2>1. LoopTurn(L(n))
    BY <1>3 DEF MessageLoopStarts, MessageArrives
  <2>. QED
    BY <1>1, <1>2, <2>1, LoopTurnSolo
<1>4. CASE MessageLoopLoses(n)
  <2>1. LoseConnection(L(n), on[L(n)]) /\ pc[L(n)] = "recv"
    BY <1>4 DEF MessageLoopLoses
  <2>2. on[L(n)] \in Conns
    BY <1>1, <2>1 DEF TypeInv, Bound
  <2>3. user_closed = FALSE => on[L(n)] = transport
    BY <1>1, <2>1 DEF SoloInv, NetInv
  <2>. QED
    BY <1>1, <1>2, <2>1, <2>2, <2>3, LoseConnectionSolo
<1>. QED
  BY <1>3, <1>4

\* The timers do not run, and nobody waits for one.
LEMMA TimersSolo ==
    ASSUME TypeInv, SoloInv
    PROVE  /\ \A t \in Task : ~HeartbeatStopped(t) /\ ~AgeTimerStopped(t)
           /\ \A n \in Conns : ~HandleHeartbeatTimeout(n) /\ ~ConnectionAgeTimer(n)
<1>1. ASSUME NEW t \in Task
      PROVE  pc[t] \notin {"hbstop", "agestop", "beat", "age"}
  BY SoloActive DEF Active, Over
<1>. QED
  BY <1>1, ConnFacts DEF HeartbeatStopped, AgeTimerStopped, HandleHeartbeatTimeout,
                         ConnectionAgeTimer

\* A task that reconnects, or is cancelled, touches no connection.
LEMMA SuspendSolo ==
    ASSUME TypeInv, SoloInv, NEW t \in Task, NEW p, NEW c, Suspend(t, p, c),
           \/ pc[t] \in Away /\ t \notin cancelled
           \/ t \in cancelled /\ p \in Over /\ state' = state /\ transport' = transport,
           p \in Away \cup Over,
           p \in Away => ~user_closed \/ pc[t] \in Away,
           p = "dial" => c = transport',
           \/ state' = state
           \/ state' \notin Terminal \cup {"IDLE"}
           \/ state' = "FAILED" /\ p \in Over,
           UNCHANGED <<sockVars, timerVars, messageTask, user_closed, kpc, kon>>
    PROVE  SoloInv'
<1>1. SoloTurn(t, p)
  <2>1. \A u \in Task : u # t => on'[u] = on[u]
    BY DEF Suspend, TypeInv, TypeOK
  <2>2. heartbeat' = 0 /\ hbTask' = FALSE /\ ageTask' = 0
    BY DEF timerVars, SoloInv, NoTimers
  <2>3. pc[t] \in Away => t \in Active
    BY DEF Away, Active, Over
  <2>4. pc[t] = "replay" \/ (state \in Terminal /\ t # Caller) => p \in Over
    BY <2>3 DEF SoloInv, FinalInv, Away
  <2>. QED
    BY <2>1, <2>2, <2>3, <2>4 DEF SoloTurn, Suspend, Over, Away, sockVars, Terminal
<1>2. /\ \A d \in Conns : d \notin connected' => sock'[d] \in {"none", "shut"}
      /\ pc[t] \in Away => connected' = {}
      /\ t \in cancelled /\ ~user_closed => connected' \subseteq {transport'}
  BY DEF SoloInv, NetInv, sockVars
<1>3. p \in {"recv", "hung", "dial"} => on'[t] = transport'
  BY DEF Suspend, TypeInv, TypeOK, Away, Over
<1>4. p \in Away => p \notin Over
  BY DEF Away, Over
<1>5. pc[t] \in Away => t \in Active
  BY DEF Away, Active, Over
<1>6. \/ state' = state
      \/ state' \notin Terminal
      \/ state' = "FAILED" /\ p \in Over /\ t \in Active /\ (~user_closed \/ pc[t] \in Away)
  BY <1>5
<1>. QED
  BY <1>1, <1>2, <1>3, <1>4, <1>5, <1>6, SoloTurnOK

LEMMA ReconnectSolo ==
    ASSUME TypeInv, SoloInv, NEW t \in Task,
           WakeUp(t) \/ DialRefused(t) \/ DialRaises(t) \/ TaskCancelled(t)
    PROVE  SoloInv'
<1>0. UNCHANGED <<sockVars, timerVars, messageTask, user_closed, kpc, kon>>
  BY DEF WakeUp, DialRefused, DialRaises, TaskCancelled, callVars, closeVars
<1>1. Raise(t) => \E p \in Over : Suspend(t, p, 0)
  BY DEF Raise, Over
<1>2. CASE WakeUp(t)
  <2>1. pc[t] \in Away /\ t \notin cancelled
    BY <1>2 DEF WakeUp, Away
  <2>2. CASE ~running \/ user_closed
    <3>1. Suspend(t, "done", 0) /\ state' = state
      BY <1>2, <2>2 DEF WakeUp, Return
    <3>. QED
      BY <1>0, <2>1, <3>1, SuspendSolo DEF Over, Away
  <2>3. CASE ~(~running \/ user_closed)
    <3>1. Suspend(t, "dial", attempt + 1) /\ state' = "CONNECTING" /\ transport' = attempt + 1
      BY <1>2, <2>3 DEF WakeUp, ConnectInternal
    <3>. QED
      BY <1>0, <2>1, <3>1, SuspendSolo DEF Over, Away, Terminal
  <2>. QED
    BY <2>2, <2>3
<1>3. CASE DialRefused(t)
  <2>1. pc[t] \in Away /\ t \notin cancelled
    BY <1>3 DEF DialRefused, Away
  <2>2. CASE Reconnect /\ Exhausted
    <3>1. Suspend(t, "done", 0) /\ state' = "FAILED"
      BY <1>3, <2>2 DEF DialRefused, ScheduleReconnect, Return
    <3>. QED
      BY <1>0, <2>1, <3>1, SuspendSolo DEF Over, Away
  <2>3. CASE Reconnect /\ ~Exhausted
    <3>1. Suspend(t, "sleep", 0) /\ state' = "BACKING_OFF"
      BY <1>3, <2>3 DEF DialRefused, ScheduleReconnect
    <3>. QED
      BY <1>0, <2>1, <3>1, SuspendSolo DEF Over, Away, Terminal
  <2>4. CASE ~Reconnect
    <3>1. Raise(t) /\ state' = "FAILED"
      BY <1>3, <2>4 DEF DialRefused
    <3>2. PICK p \in Over : Suspend(t, p, 0)
      BY <1>1, <3>1
    <3>. QED
      BY <1>0, <2>1, <3>1, <3>2, SuspendSolo DEF Over, Away
  <2>. QED
    BY <2>2, <2>3, <2>4
<1>4. CASE DialRaises(t)
  <2>1. pc[t] \in Away /\ t \notin cancelled /\ Raise(t) /\ state' = state
    BY <1>4 DEF DialRaises, Away
  <2>2. PICK p \in Over : Suspend(t, p, 0)
    BY <1>1, <2>1
  <2>. QED
    BY <1>0, <2>1, <2>2, SuspendSolo DEF Over, Away
<1>5. CASE TaskCancelled(t)
  <2>1. t \in cancelled /\ Suspend(t, "done", 0) /\ state' = state /\ transport' = transport
    BY <1>5 DEF TaskCancelled, Return
  <2>. QED
    BY <1>0, <2>1, SuspendSolo DEF Over, Away
<1>. QED
  BY <1>2, <1>3, <1>4, <1>5

\* A task that is not cancelled is not one that a close() waits for.
LEMMA NoStopper ==
    ASSUME SoloInv, NEW t \in Active, t \notin cancelled, NEW k \in Closers
    PROVE  kpc[k] \notin {"mtstop", "hbstop", "agestop"}
<1>. SUFFICES ASSUME kpc[k] = "mtstop"
              PROVE  FALSE
  BY DEF SoloInv, NoTimers
<1>1. Ended(Caller) /\ t # Caller
  BY DEF SoloInv, BeforeInv, Active, Ended, Over
<1>2. PICK n \in Conns : t = L(n)
  BY <1>1, SoloActive
<1>3. messageTask = n /\ messageTask \in {0, kon[k]} /\ n # 0
  BY <1>2 DEF SoloInv, OneActive, StopInv, Conns
<1>4. Ended(t) \/ t \in cancelled
  BY <1>2, <1>3 DEF SoloInv, StopInv
<1>. QED
  BY <1>4 DEF Active, Ended, Over

\* The message loop of connection c is all that is active once t is over.
LEMMA StartTasksSolo ==
    ASSUME Timer = "none", TypeInv, SoloInv, NEW t \in Active, t \notin cancelled,
           NEW c \in Conns, StartTasks(t, c), state' # "IDLE",
           UNCHANGED <<kpc, kon, user_closed>>
    PROVE  /\ Active' = {L(c)} /\ pc'[L(c)] = "start"
           /\ \A u \in Task : pc'[u] \in {"idle", "start"} \cup Over
           /\ NoTimers' /\ OneActive' /\ BeforeInv'
           /\ \A k \in Closers : kpc'[k] # "mtstop"
<1>1. /\ L(c) \in Task /\ L(c) # Caller /\ t \in Task /\ messageTask' = c
      /\ UNCHANGED <<heartbeat, hbTask, ageTask>>
  BY ConnFacts DEF L, Caller, Active, StartTasks
<1>2. /\ pc'[L(c)] = "start"
      /\ t # L(c) => pc'[t] = "done"
      /\ \A u \in Task : u # t /\ u # L(c) => pc'[u] = pc[u]
  <2>1. pc' = [pc EXCEPT ![t] = "done", ![L(c)] = "start", ![H(c)] = @, ![A(c)] = @]
    BY DEF StartTasks
  <2>2. H(c) # L(c) /\ A(c) # L(c) /\ A(c) # H(c) /\ H(c) \in Task /\ A(c) \in Task
    BY ConnFacts DEF H, A, L
  <2>3. H(c) # t /\ A(c) # t
    BY SoloActive DEF H, A, L, Caller
  <2>. QED
    BY <1>1, <2>1, <2>2, <2>3 DEF TypeInv, TypeOK
<1>3. \A u \in Active : u = t
  BY DEF SoloInv, OneActive
<1>4. \A u \in Task : u # L(c) => pc'[u] \in {"idle"} \cup Over
  BY <1>2, <1>3 DEF Active, Over
<1>5. Active' = {L(c)}
  <2>1. pc'[L(c)] \notin {"idle"} \cup Over
    BY <1>2 DEF Over
  <2>. QED
    BY <1>1, <1>4, <2>1 DEF Active
<1>6. \A k \in Closers : kpc'[k] \notin {"mtstop", "hbstop", "agestop"}
  BY NoStopper
<1>7. NoTimers'
  BY <1>1, <1>2, <1>5, <1>6 DEF SoloInv, NoTimers
<1>8. OneActive'
  <2>1. \A n \in Conns : L(n) = L(c) => n = c
    BY DEF L
  <2>. QED
    BY <1>1, <1>5, <2>1 DEF OneActive
<1>9. Ended(Caller)'
  <2>1. CASE t = Caller
    BY <1>1, <1>2, <2>1 DEF Ended
  <2>2. CASE t # Caller
    <3>1. Ended(Caller)
      BY <2>2, SoloActive DEF SoloInv, BeforeInv, Active
    <3>. QED
      BY <1>1, <1>2, <2>2, <3>1, ConnFacts DEF Ended
  <2>. QED
    BY <2>1, <2>2
<1>10. BeforeInv'
  BY <1>9 DEF BeforeInv
<1>. QED
  BY <1>2, <1>4, <1>5, <1>6, <1>7, <1>8, <1>10

LEMMA DialSucceedsSolo ==
    ASSUME Timer = "none", TypeInv, SoloInv, NEW t \in Task, DialSucceeds(t)
    PROVE  SoloInv'
<1>. DEFINE c == on[t]
<1>1. /\ pc[t] = "dial" /\ t \notin cancelled /\ state' = "CONNECTED"
      /\ sock' = [sock EXCEPT ![c] = "open"]
      /\ connected' = connected \cup {c}
      /\ UNCHANGED <<transport, user_closed, kpc, kon>>
  BY DEF DialSucceeds, callVars, closeVars
<1>2. c \in Conns
  BY <1>1 DEF TypeInv, Bound
<1>3. t \in Active /\ connected = {}
  BY <1>1 DEF Active, Over, Away, SoloInv, NetInv
<1>4. \A k \in Closers : kpc'[k] \notin {"mtstop", "hbstop", "agestop", "closing"}
  BY <1>1, <1>3, NoStopper DEF SoloInv, StopInv, Away
<1>5. /\ \A d \in Conns : d \notin connected' => sock'[d] \in {"none", "shut"}
      /\ ~user_closed' => connected' \subseteq {transport'}
  <2>1. ~user_closed => transport = c
    BY <1>1 DEF SoloInv, NetInv
  <2>. HIDE DEF c
  <2>2. \A d \in Conns : d # c => sock'[d] = sock[d]
    BY <1>1 DEF TypeInv, TypeOK
  <2>. QED
    BY <1>1, <1>3, <2>1, <2>2 DEF SoloInv, NetInv
<1>6. StopInv'
  BY <1>1, <1>4 DEF SoloInv, StopInv, Waiting
<1>7. FinalInv'
  BY <1>1 DEF FinalInv, Terminal
<1>8. CASE StartTasks(t, c)
  <2>1. /\ \A u \in Task : pc'[u] \in {"idle", "start"} \cup Over
        /\ NoTimers' /\ OneActive' /\ BeforeInv'
    BY <1>1, <1>2, <1>3, <1>8, StartTasksSolo
  <2>2. NetInv'
    BY <1>5, <2>1 DEF NetInv, Away, Over
  <2>. QED
    BY <1>6, <1>7, <2>1, <2>2 DEF SoloInv
<1>9. CASE Suspend(t, "replay", c) /\ UNCHANGED <<timerVars, messageTask>>
  <2>1. /\ pc'[t] = "replay" /\ cancelled' = cancelled \ {t}
        /\ \A u \in Task : u # t => pc'[u] = pc[u]
    BY <1>9 DEF Suspend, TypeInv, TypeOK
  <2>2. \A u \in Task : u # t => pc'[u] \in {"idle"} \cup Over
    BY <1>3, <2>1 DEF SoloInv, OneActive, Active
  <2>3. Active' = {t} /\ Active = {t}
    BY <1>3, <2>1, <2>2 DEF Active, Over, SoloInv, OneActive
  <2>4. NoTimers'
    BY <1>4, <1>9, <2>1, <2>3 DEF SoloInv, NoTimers, timerVars
  <2>5. OneActive'
    BY <1>9, <2>3 DEF SoloInv, OneActive
  <2>6. BeforeInv'
    <3>1. t # Caller => Ended(Caller)'
      BY <1>1, <1>3, <2>1, ConnFacts, SoloActive DEF SoloInv, BeforeInv, Active, Ended
    <3>2. t = Caller => /\ messageTask' = 0 /\ cancelled' = {}
                        /\ \A n \in Conns : pc'[L(n)] = "idle"
      <4>1. \A n \in Conns : L(n) \in Task /\ L(n) # Caller
        BY ConnFacts DEF L, Caller
      <4>. QED
        BY <1>1, <1>9, <2>1, <4>1 DEF SoloInv, BeforeInv, Ended
    <3>. QED
      BY <1>1, <1>4, <2>1, <3>1, <3>2 DEF BeforeInv
  <2>7. NetInv'
    BY <1>5, <2>1, <2>2 DEF NetInv, Away, Over
  <2>. QED
    BY <1>6, <1>7, <2>4, <2>5, <2>6, <2>7 DEF SoloInv
<1>. QED
  BY <1>8, <1>9 DEF DialSucceeds

LEMMA ReplayedSolo ==
    ASSUME Timer = "none", TypeInv, SoloInv, NEW t \in Task, Replayed(t)
    PROVE  SoloInv'
<1>. DEFINE c == on[t]
<1>1. /\ pc[t] = "replay" /\ t \notin cancelled /\ StartTasks(t, c)
      /\ UNCHANGED <<state, transport, sock, connected, user_closed, kpc, kon>>
  BY DEF Replayed, callVars, closeVars, sockVars
<1>2. c \in Conns
  BY <1>1 DEF TypeInv, Bound
<1>. HIDE DEF c
<1>3. t \in Active
  BY <1>1 DEF Active, Over
<1>4. state # "IDLE"
  BY <1>1, <1>3, SoloActive DEF SoloInv, BeforeInv, Active, Ended, Caller
<1>5. /\ Active' = {L(c)} /\ pc'[L(c)] = "start"
      /\ \A u \in Task : pc'[u] \in {"idle", "start"} \cup Over
      /\ NoTimers' /\ OneActive' /\ BeforeInv'
      /\ \A k \in Closers : kpc'[k] # "mtstop"
  BY <1>1, <1>2, <1>3, <1>4, StartTasksSolo
<1>6. \A u \in Task : pc'[u] \notin Away \cup {"recv", "hung", "dial"}
  BY <1>5 DEF Away, Over
<1>7. NetInv'
  BY <1>1, <1>6 DEF SoloInv, NetInv
<1>8. StopInv'
  BY <1>1, <1>5, <1>6 DEF SoloInv, StopInv
<1>9. FinalInv'
  <2>1. state \in Terminal => user_closed
    BY <1>1, <1>3 DEF SoloInv, FinalInv
  <2>. QED
    BY <1>1, <1>5, <2>1 DEF FinalInv
<1>. QED
  BY <1>5, <1>7, <1>8, <1>9 DEF SoloInv

LEMMA ConnectSolo ==
    ASSUME TypeInv, IdleInv, SoloInv, Connect
    PROVE  SoloInv'
<1>0. /\ pc[Caller] = "idle" /\ Caller \in Task
      /\ UNCHANGED <<heartbeat, hbTask, ageTask, messageTask, sock, connected, kpc, kon>>
  BY ConnFacts DEF Connect, timerVars, sockVars, closeVars
<1>1. ~Ended(Caller)
  BY <1>0 DEF Ended
<1>2. Active = {}
  BY <1>0, <1>1, SoloActive DEF SoloInv, BeforeInv, Active
<1>3. /\ messageTask = 0 /\ connected = {} /\ cancelled = {}
      /\ \A n \in Conns : pc[L(n)] = "idle"
      /\ \A k \in Closers : kpc[k] \notin Waiting
  BY <1>0, <1>1 DEF SoloInv, BeforeInv, Waiting
<1>4. CASE state = "IDLE"
  <2>1. /\ Suspend(Caller, "dial", attempt + 1)
        /\ transport' = attempt + 1 /\ state' = "CONNECTING" /\ user_closed' = FALSE
    BY <1>4 DEF Connect, ConnectInternal
  <2>2. \A k \in Closers : kpc[k] = "idle"
    BY <1>4 DEF IdleInv, SoloInv, StopInv
  <2>3. /\ pc'[Caller] = "dial" /\ on'[Caller] = transport' /\ cancelled' = {}
        /\ \A u \in Task : u # Caller => pc'[u] = pc[u]
    BY <1>0, <1>3, <2>1 DEF Suspend, TypeInv, TypeOK
  <2>4. \A u \in Task : u # Caller => pc'[u] \in {"idle"} \cup Over
    BY <1>2, <2>3 DEF Active
  <2>5. Active' = {Caller}
    BY <1>0, <2>3, <2>4 DEF Active, Over
  <2>6. \A n \in Conns : L(n) # Caller /\ L(n) \in Task
    BY ConnFacts DEF L, Caller
  <2>7. NoTimers'
    BY <1>0, <2>2, <2>3, <2>5 DEF SoloInv, NoTimers
  <2>8. OneActive'
    BY <2>5, <2>6 DEF OneActive
  <2>9. BeforeInv'
    <3>1. ~Ended(Caller)' => /\ messageTask' = 0 /\ cancelled' = {} /\ connected' = {}
                             /\ \A n \in Conns : pc'[L(n)] = "idle"
                             /\ \A k \in Closers : kpc'[k] \notin Waiting
      BY <1>0, <1>3, <2>3, <2>6
    <3>2. state' # "IDLE"
      BY <2>1
    <3>. QED
      BY <3>1, <3>2 DEF BeforeInv, Waiting
  <2>10. NetInv'
    <3>1. \A u \in Task : pc'[u] \in {"recv", "hung", "dial"} => on'[u] = transport'
      BY <2>3, <2>4 DEF Over
    <3>. QED
      BY <1>0, <1>3, <3>1 DEF SoloInv, NetInv
  <2>11. StopInv'
    BY <1>0, <2>2 DEF StopInv, Waiting
  <2>12. FinalInv'
    BY <2>1 DEF FinalInv, Terminal
  <2>. QED
    BY <2>7, <2>8, <2>9, <2>10, <2>11, <2>12 DEF SoloInv
<1>5. CASE state # "IDLE"
  <2>1. Raise(Caller) /\ UNCHANGED <<user_closed, state, transport>>
    BY <1>5 DEF Connect, callVars
  <2>2. PICK p \in Over : Suspend(Caller, p, 0)
    BY <2>1 DEF Raise, Over
  <2>3. /\ pc'[Caller] = p
        /\ \A u \in Task : u # Caller => pc'[u] = pc[u] /\ on'[u] = on[u]
    BY <1>0, <2>2 DEF Suspend, TypeInv, TypeOK
  <2>4. \A u \in Task : pc'[u] \in {"idle"} \cup Over
    BY <1>2, <2>3 DEF Active
  <2>5. Active' = {}
    BY <2>4 DEF Active
  <2>6. Ended(Caller)'
    BY <2>3 DEF Ended, Over
  <2>7. NoTimers'
    BY <1>0, <2>5 DEF SoloInv, NoTimers
  <2>8. OneActive'
    BY <2>5 DEF OneActive
  <2>9. BeforeInv'
    BY <1>5, <2>1, <2>6 DEF BeforeInv
  <2>10. NetInv'
    BY <1>0, <2>1, <2>4 DEF SoloInv, NetInv, Over, Away
  <2>11. StopInv'
    BY <1>0, <1>3, <2>1 DEF SoloInv, StopInv, Waiting
  <2>12. FinalInv'
    BY <2>5 DEF FinalInv
  <2>. QED
    BY <2>7, <2>8, <2>9, <2>10, <2>11, <2>12 DEF SoloInv
<1>. QED
  BY <1>4, <1>5
-----------------------------------------------------------------------------
\* What a piece of close() does to an object without timers: it goes on to p.
ClosesSolo(k, p, c) ==
    /\ CloseWaits(k, p, c)
    /\ p \in Waiting \cup {"returned", "raised"}
    /\ cancelled \subseteq cancelled'
    /\ cancelled' = cancelled \/ Ended(Caller)
    /\ messageTask' \in {0, messageTask}
    /\ messageTask' = 0 => \A n \in Conns : L(n) \notin Active
    /\ p = "mtstop" => /\ Ended(Caller) /\ c \in Conns /\ messageTask' \in {0, c}
                       /\ L(c) \in cancelled'
    /\ p = "closing" => connected # {}
    /\ p \in Waiting => state' # "FAILED"
    /\ \/ state' = state
       \/ state' = "DISCONNECTING"
       \/ state' = "CLOSED" /\ Active \subseteq {Caller}

LEMMA ClosesSoloOK ==
    ASSUME TypeInv, SoloInv, NEW k \in Closers, NEW p, NEW c, ClosesSolo(k, p, c),
           pc' = pc, on' = on, user_closed' = TRUE,
           heartbeat' = 0, hbTask' = FALSE, ageTask' = 0,
           connected' \subseteq connected,
           \A d \in Conns : d \notin connected' => sock'[d] \in {"none", "shut"}
    PROVE  SoloInv'
<1>1. /\ kpc'[k] = p /\ kon'[k] = c
      /\ \A j \in Closers : j # k => kpc'[j] = kpc[j] /\ kon'[j] = kon[j]
  BY DEF ClosesSolo, CloseWaits, TypeInv, TypeOK
<1>2. Active' = Active
  BY DEF Active
<1>3. p \notin {"hbstop", "agestop", "idle"}
  BY DEF ClosesSolo, Waiting
<1>4. NoTimers'
  BY <1>1, <1>2, <1>3 DEF SoloInv, NoTimers
<1>5. OneActive'
  BY <1>2 DEF SoloInv, OneActive, ClosesSolo
<1>6. /\ p = "mtstop" => Ended(Caller)
      /\ p = "closing" => Ended(Caller) \/ pc[Caller] = "replay"
  BY DEF ClosesSolo, SoloInv, BeforeInv
<1>7. BeforeInv'
  <2>1. ASSUME ~Ended(Caller)
        PROVE  /\ messageTask' = 0 /\ cancelled' = {}
               /\ \A n \in Conns : pc'[L(n)] = "idle"
               /\ \A j \in Closers : kpc'[j] # "mtstop"
               /\ pc[Caller] # "replay" => /\ connected' = {}
                                           /\ \A j \in Closers : kpc'[j] # "closing"
    BY <1>1, <1>6, <2>1 DEF SoloInv, BeforeInv, ClosesSolo
  <2>2. state' = "IDLE" => state = "IDLE"
    BY DEF ClosesSolo
  <2>. QED
    BY <2>1, <2>2 DEF SoloInv, BeforeInv, Ended
<1>8. NetInv'
  BY DEF SoloInv, NetInv
<1>9. StopInv'
  <2>. SUFFICES ASSUME NEW j \in Closers
                PROVE  /\ kpc'[j] = "mtstop" => /\ kon'[j] \in Conns
                                                /\ messageTask' \in {0, kon'[j]}
                                                /\ Ended(L(kon[j]))' \/ (L(kon[j]) \in cancelled)'
                       /\ kpc'[j] = "closing" => \A t \in Task : pc'[t] \notin Away
                       /\ kpc'[j] \in Waiting => state' # "FAILED"
    BY DEF StopInv
  <2>1. CASE j = k
    <3>1. p = "mtstop" => /\ kon'[j] \in Conns /\ messageTask' \in {0, kon'[j]}
                          /\ (L(kon[j]) \in cancelled)'
      BY <1>1, <2>1 DEF ClosesSolo, L
    <3>2. p = "closing" => \A t \in Task : pc'[t] \notin Away
      BY DEF ClosesSolo, SoloInv, NetInv
    <3>3. p \in Waiting => state' # "FAILED"
      BY DEF ClosesSolo
    <3>. QED
      BY <1>1, <2>1, <3>1, <3>2, <3>3
  <2>2. CASE j # k
    <3>1. kpc'[j] = kpc[j] /\ kon'[j] = kon[j]
      BY <1>1, <2>2
    <3>2. kpc[j] = "mtstop" => /\ kon[j] \in Conns /\ messageTask' \in {0, kon[j]}
                               /\ Ended(L(kon[j])) \/ L(kon[j]) \in cancelled'
      BY DEF ClosesSolo, SoloInv, StopInv
    <3>3. L(kon'[j]) = L(kon[j])
      BY <3>1
    <3>4. kpc[j] = "mtstop" => Ended(L(kon[j]))' \/ (L(kon[j]) \in cancelled)'
      BY <3>2, <3>3 DEF Ended
    <3>5. kpc[j] \in Waiting => state' # "FAILED"
      BY DEF ClosesSolo, SoloInv, StopInv
    <3>. QED
      BY <3>1, <3>2, <3>4, <3>5 DEF SoloInv, StopInv
  <2>. QED
    BY <2>1, <2>2
<1>10. FinalInv'
  BY <1>2 DEF ClosesSolo, SoloInv, FinalInv, Terminal
<1>. QED
  BY <1>4, <1>5, <1>7, <1>8, <1>9, <1>10 DEF SoloInv

\* No message loop runs but the object's own.
LEMMA LoopsOver ==
    ASSUME SoloInv, messageTask # 0 => L(messageTask) \notin Active
    PROVE  (\A n \in Conns : L(n) \notin Active) /\ Active \subseteq {Caller}
<1>1. \A n \in Conns : L(n) \notin Active
  BY DEF SoloInv, OneActive, Conns
<1>. QED
  BY <1>1, SoloActive

LEMMA CloseMessageTaskSolo ==
    ASSUME TypeInv, SoloInv, NEW k \in Closers, NEW st \in {state, "DISCONNECTING"},
           st # "FAILED", CloseMessageTask(k, st)
    PROVE  \E p \in Waiting \cup {"returned", "raised"}, c \in 0 .. MaxConns : ClosesSolo(k, p, c)
<1>0. messageTask # 0 => messageTask \in Conns /\ L(messageTask) \in Task /\ Ended(Caller)
  BY ConnFacts DEF TypeInv, TypeOK, SoloInv, BeforeInv
<1>1. CASE messageTask # 0 /\ ~Ended(L(messageTask))
  <2>1. /\ cancelled' = cancelled \cup {Victim(L(messageTask))}
        /\ CloseWaits(k, "mtstop", messageTask) /\ state' = st /\ messageTask' = messageTask
    BY <1>1 DEF CloseMessageTask, Ended
  <2>2. pc[L(messageTask)] \notin {"hbstop", "agestop"}
    BY <1>0, <1>1, SoloActive DEF Active, Over
  <2>3. Victim(L(messageTask)) = L(messageTask)
    BY <1>1, <2>2 DEF Victim, Awaited
  <2>4. ClosesSolo(k, "mtstop", messageTask)
    BY <1>0, <1>1, <2>1, <2>3 DEF ClosesSolo, Waiting
  <2>. QED
    BY <1>0, <1>1, <2>4, ConnFacts DEF Waiting
<1>2. CASE messageTask # 0 /\ pc[L(messageTask)] = "crashed"
  <2>1. /\ CloseWaits(k, "raised", 0) /\ state' = st
        /\ messageTask' = messageTask /\ cancelled' = cancelled
    BY <1>2 DEF CloseMessageTask, Ended
  <2>2. ClosesSolo(k, "raised", 0)
    BY <1>2, <2>1 DEF ClosesSolo, Waiting
  <2>. QED
    BY <2>2, ConnFacts
<1>3. CASE messageTask # 0 => pc[L(messageTask)] = "done"
  <2>1. /\ messageTask' = 0 /\ CloseWaits(k, "returned", 0)
        /\ state' = "CLOSED" /\ cancelled' = cancelled
    BY <1>3 DEF CloseMessageTask, Ended
  <2>2. messageTask # 0 => L(messageTask) \notin Active
    BY <1>3 DEF Active, Over
  <2>3. ClosesSolo(k, "returned", 0)
    BY <2>1, <2>2, LoopsOver DEF ClosesSolo, Waiting
  <2>. QED
    BY <2>3, ConnFacts
<1>. QED
  BY <1>1, <1>2, <1>3 DEF CloseMessageTask
LEMMA CloseTransportSolo ==
    ASSUME TypeInv, SoloInv, NEW k \in Closers, NEW st \in {state, "DISCONNECTING"},
           st # "FAILED", CloseTransport(k, st)
    PROVE  \E p \in Waiting \cup {"returned", "raised"}, c \in 0 .. MaxConns : ClosesSolo(k, p, c)
<1>1. CASE transport \in connected \ closing
  <2>1. /\ CloseWaits(k, "closing", transport) /\ state' = st
        /\ messageTask' = messageTask /\ cancelled' = cancelled
    BY <1>1 DEF CloseTransport
  <2>2. messageTask = 0 => \A n \in Conns : L(n) \notin Active
    BY LoopsOver
  <2>3. ClosesSolo(k, "closing", transport)
    BY <1>1, <2>1, <2>2 DEF ClosesSolo, Waiting
  <2>. QED
    BY <2>3 DEF Waiting, TypeInv, TypeOK
<1>2. CASE transport \notin connected \ closing
  BY <1>2, CloseMessageTaskSolo DEF CloseTransport
<1>. QED
  BY <1>1, <1>2

LEMMA CloseSolo ==
    ASSUME TypeInv, SoloInv, NEW k \in Closers, Close(k)
    PROVE  SoloInv'
<1>. DEFINE st == IF state = "CONNECTED" THEN "DISCONNECTING" ELSE state
<1>1. pc' = pc /\ on' = on /\ user_closed' = TRUE /\ connected' = connected /\ sock' = sock
  BY DEF Close
<1>2. heartbeat = 0 /\ hbTask = FALSE /\ ageTask = 0
  BY DEF SoloInv, NoTimers
<1>3. \A d \in Conns : d \notin connected' => sock'[d] \in {"none", "shut"}
  BY <1>1 DEF SoloInv, NetInv
<1>4. CASE state \in Terminal
  <2>1. /\ CloseWaits(k, "returned", 0) /\ UNCHANGED <<state, timerVars, messageTask, cancelled>>
    BY <1>4 DEF Close
  <2>2. messageTask = 0 => \A n \in Conns : L(n) \notin Active
    BY LoopsOver
  <2>3. ClosesSolo(k, "returned", 0)
    BY <2>1, <2>2 DEF ClosesSolo, Waiting
  <2>4. heartbeat' = 0 /\ hbTask' = FALSE /\ ageTask' = 0
    BY <1>2, <2>1 DEF timerVars
  <2>. QED
    BY <1>1, <1>3, <2>3, <2>4, ClosesSoloOK
<1>5. CASE state \notin Terminal
  <2>1. CloseHeartbeat(k, st)
    BY <1>5 DEF Close
  <2>2. st \in {state, "DISCONNECTING"} /\ st # "FAILED"
    BY <1>5 DEF Terminal
  <2>. HIDE DEF st
  <2>3. heartbeat' = 0 /\ hbTask' = FALSE /\ CloseAgeTimer(k, st)
    BY <1>2, <2>1 DEF CloseHeartbeat, HeartbeatLive
  <2>4. ageTask' = 0 /\ CloseTransport(k, st)
    BY <1>2, <2>3 DEF CloseAgeTimer, AgeTimerLive
  <2>5. PICK p \in Waiting \cup {"returned", "raised"}, c \in 0 .. MaxConns : ClosesSolo(k, p, c)
    BY <2>2, <2>4, CloseTransportSolo
  <2>. QED
    BY <1>1, <1>3, <2>3, <2>4, <2>5, ClosesSoloOK
<1>. QED
  BY <1>4, <1>5

LEMMA CloseMessageTaskStoppedSolo ==
    ASSUME TypeInv, SoloInv, NEW k \in Closers, CloseMessageTaskStopped(k)
    PROVE  \E p \in {"returned", "raised"} : ClosesSolo(k, p, 0)
<1>1. kpc[k] = "mtstop" /\ Ended(L(kon[k])) /\ cancelled' = cancelled
  BY DEF CloseMessageTaskStopped, taskVars
<1>2. messageTask \in {0, kon[k]}
  BY <1>1 DEF SoloInv, StopInv
<1>3. messageTask # 0 => L(messageTask) \notin Active
  BY <1>1, <1>2 DEF Active, Ended, Over
<1>4. (\A n \in Conns : L(n) \notin Active) /\ Active \subseteq {Caller}
  BY <1>3, LoopsOver
<1>5. CASE pc[L(kon[k])] = "crashed"
  <2>1. CloseWaits(k, "raised", 0) /\ UNCHANGED <<state, messageTask>>
    BY <1>5 DEF CloseMessageTaskStopped
  <2>. QED
    BY <1>1, <1>4, <2>1 DEF ClosesSolo, Waiting
<1>6. CASE pc[L(kon[k])] # "crashed"
  <2>1. messageTask' = 0 /\ state' = "CLOSED" /\ CloseWaits(k, "returned", 0)
    BY <1>6 DEF CloseMessageTaskStopped
  <2>. QED
    BY <1>1, <1>4, <2>1 DEF ClosesSolo, Waiting
<1>. QED
  BY <1>5, <1>6

LEMMA CloseStepSolo ==
    ASSUME TypeInv, SoloInv, NEW k \in Closers, CloseStep(k)
    PROVE  SoloInv'
<1>1. CloseTransportClosed(k) \/ CloseTransportTimesOut(k) \/ CloseMessageTaskStopped(k)
  BY DEF CloseStep, CloseHeartbeatStopped, CloseAgeTimerStopped, SoloInv, NoTimers
<1>2. kpc[k] \in Waiting
  BY <1>1 DEF CloseTransportClosed, CloseTransportTimesOut, CloseMessageTaskStopped, Waiting
<1>3. user_closed = TRUE /\ state # "FAILED"
  BY <1>2 DEF SoloInv, StopInv, Waiting, TypeInv, TypeOK
<1>4. pc' = pc /\ on' = on /\ UNCHANGED <<timerVars, callVars>>
  BY <1>1 DEF CloseTransportClosed, CloseTransportTimesOut, CloseMessageTaskStopped, taskVars
<1>5. /\ heartbeat' = 0 /\ hbTask' = FALSE /\ ageTask' = 0
      /\ user_closed' = TRUE
  BY <1>3, <1>4 DEF timerVars, callVars, SoloInv, NoTimers
<1>6. /\ connected' \subseteq connected
      /\ \A d \in Conns : d \notin connected' => sock'[d] \in {"none", "shut"}
  <2>1. CASE CloseTransportClosed(k)
    BY <2>1 DEF CloseTransportClosed, SoloInv, NetInv, TypeInv, TypeOK
  <2>2. CASE CloseTransportTimesOut(k) \/ CloseMessageTaskStopped(k)
    BY <2>2 DEF CloseTransportTimesOut, CloseMessageTaskStopped, sockVars, SoloInv, NetInv
  <2>. QED
    BY <1>1, <2>1, <2>2
<1>7. CASE CloseTransportClosed(k) \/ CloseTransportTimesOut(k)
  <2>1. CloseMessageTask(k, state)
    BY <1>7 DEF CloseTransportClosed, CloseTransportTimesOut
  <2>2. PICK p \in Waiting \cup {"returned", "raised"}, c \in 0 .. MaxConns : ClosesSolo(k, p, c)
    BY <1>3, <2>1, CloseMessageTaskSolo
  <2>. QED
    BY <1>4, <1>5, <1>6, <2>2, ClosesSoloOK
<1>8. CASE CloseMessageTaskStopped(k)
  <2>1. PICK p \in {"returned", "raised"} : ClosesSolo(k, p, 0)
    BY <1>8, CloseMessageTaskStoppedSolo
  <2>. QED
    BY <1>4, <1>5, <1>6, <2>1, ClosesSoloOK
<1>. QED
  BY <1>1, <1>7, <1>8

LEMMA SurroundingsSolo ==
    ASSUME TypeInv, SoloInv, Run \/ RunEnds \/ (\E c \in Conns : PeerEnds(c)) \/ UNCHANGED vars
    PROVE  SoloInv'
<1>1. UNCHANGED <<state, transport, messageTask, connected, taskVars, timerVars, callVars, closeVars>>
  BY DEF Run, RunEnds, PeerEnds, vars, sockVars, taskVars, timerVars, callVars, closeVars, runVars
<1>2. \A d \in Conns : d \notin connected => sock'[d] \in {"none", "shut"}
  <2>1. CASE \E c \in Conns : PeerEnds(c)
    BY <2>1 DEF PeerEnds, SoloInv, NetInv, TypeInv, TypeOK
  <2>2. CASE UNCHANGED sock
    BY <2>2 DEF SoloInv, NetInv
  <2>. QED
    BY <2>1, <2>2 DEF Run, RunEnds, vars, sockVars
<1>3. UNCHANGED <<pc, on, cancelled, heartbeat, hbTask, ageTask, user_closed, kpc, kon>>
  BY <1>1 DEF taskVars, timerVars, callVars, closeVars
<1>4. Active' = Active /\ Ended(Caller)' = Ended(Caller)
  BY <1>3 DEF Active, Ended
<1>5. NoTimers' /\ OneActive' /\ BeforeInv' /\ FinalInv'
  BY <1>1, <1>3, <1>4 DEF SoloInv, NoTimers, OneActive, BeforeInv, FinalInv
<1>6. NetInv'
  BY <1>1, <1>2, <1>3 DEF SoloInv, NetInv
<1>7. StopInv'
  BY <1>1, <1>3 DEF SoloInv, StopInv, Ended
<1>. QED
  BY <1>5, <1>6, <1>7 DEF SoloInv

LEMMA SoloStep ==
    ASSUME Timer = "none", TypeInv, IdleInv, SoloInv, [Next]_vars
    PROVE  SoloInv'
<1>1. ASSUME NEW t \in Task, TaskStep(t)
      PROVE  SoloInv'
  BY <1>1, DialSucceedsSolo, ReconnectSolo, TimersSolo DEF TaskStep
<1>2. ASSUME NEW n \in Conns, \/ LoopStep(n) \/ MessageArrives(n) \/ HandleHeartbeatTimeout(n)
                              \/ ConnectionAgeTimer(n)
      PROVE  SoloInv'
  BY <1>2, MessageLoopSolo, TimersSolo DEF LoopStep
<1>3. ASSUME NEW k \in Closers, Close(k) \/ CloseStep(k)
      PROVE  SoloInv'
  BY <1>3, CloseSolo, CloseStepSolo
<1>. QED
  BY <1>1, <1>2, <1>3, ConnectSolo, ReplayedSolo, SurroundingsSolo DEF Next

LEMMA SoloAlways ==
    ASSUME Timer = "none"
    PROVE  Spec => [](TypeInv /\ IdleInv /\ FreshInv /\ SoloInv)
<1>1. Init => TypeInv /\ IdleInv /\ FreshInv /\ SoloInv
  <2>. SUFFICES ASSUME Init
                PROVE  TypeInv /\ IdleInv /\ FreshInv /\ SoloInv
    OBVIOUS
  <2>1. /\ \A t \in Task : pc[t] = "idle"
        /\ \A k \in Closers : kpc[k] = "idle"
        /\ \A c \in Conns : sock[c] = "none"
        /\ Caller \in Task /\ \A n \in Conns : L(n) \in Task
    BY ConnFacts DEF Init
  <2>2. /\ heartbeat = 0 /\ hbTask = FALSE /\ ageTask = 0 /\ messageTask = 0
        /\ connected = {} /\ cancelled = {} /\ state = "IDLE"
    BY DEF Init
  <2>3. Active = {}
    BY <2>1 DEF Active
  <2>4. NoTimers /\ OneActive
    BY <2>1, <2>2, <2>3 DEF NoTimers, OneActive
  <2>5. BeforeInv /\ NetInv
    BY <2>1, <2>2 DEF BeforeInv, NetInv, Waiting, Away
  <2>6. StopInv /\ FinalInv
    BY <2>1, <2>3 DEF StopInv, FinalInv, Waiting
  <2>. QED
    BY <2>4, <2>5, <2>6, InitOK DEF SoloInv
<1>2. TypeInv /\ IdleInv /\ FreshInv /\ SoloInv /\ [Next]_vars
        => (TypeInv /\ IdleInv /\ FreshInv /\ SoloInv)'
  BY NextOK, FreshStep, SoloStep
<1>. QED
  BY <1>1, <1>2, PTL DEF Spec

\* Without timers one task at most receives, reconnects or replays, whatever close()
\* and run() do meanwhile; it receives from the current transport, and the
\* socket of every connection that was given up is shut.
THEOREM OneTaskTheorem ==
    ASSUME Timer = "none"
    PROVE  Spec => []OneTaskInCharge
<1>1. TypeInv /\ SoloInv => OneTaskInCharge
  <2>. SUFFICES ASSUME TypeInv, SoloInv, ~user_closed
                PROVE  OneTaskInCharge
    BY DEF OneTaskInCharge
  <2>1. \A n \in Conns : L(n) \in Task /\ \A m \in Conns : L(n) = L(m) => n = m
    BY ConnFacts DEF L
  <2>2. Cardinality({}) = 0 /\ \A x : Cardinality({x}) = 1
    BY FS_EmptySet, FS_Singleton
  <2>3. /\ \A t \in Sleepers \cup Diallers \cup Replayers : t \in Active
        /\ \A n \in Readers : L(n) \in Active
    BY <2>1 DEF Sleepers, Diallers, Replayers, Readers, Active, Over
  <2>4. Cardinality(Sleepers) + Cardinality(Diallers) + Cardinality(Replayers)
           + Cardinality(Readers) <= 1
    <3>1. CASE Sleepers # {}
      <4>1. PICK t \in Sleepers : TRUE
        BY <3>1
      <4>2. \A u \in Active : u = t
        BY <2>3 DEF SoloInv, OneActive
      <4>3. Sleepers = {t} /\ Diallers = {} /\ Replayers = {} /\ Readers = {}
        BY <2>3, <4>1, <4>2 DEF Sleepers, Diallers, Replayers, Readers
      <4>4. /\ Cardinality(Sleepers) = 1 /\ Cardinality(Diallers) = 0
            /\ Cardinality(Replayers) = 0 /\ Cardinality(Readers) = 0
        BY <2>2, <4>3
      <4>. QED
        BY <4>4
    <3>2. CASE Diallers # {}
      <4>1. PICK t \in Diallers : TRUE
        BY <3>2
      <4>2. \A u \in Active : u = t
        BY <2>3 DEF SoloInv, OneActive
      <4>3. Diallers = {t} /\ Sleepers = {} /\ Replayers = {} /\ Readers = {}
        BY <2>3, <4>1, <4>2 DEF Sleepers, Diallers, Replayers, Readers
      <4>4. /\ Cardinality(Diallers) = 1 /\ Cardinality(Sleepers) = 0
            /\ Cardinality(Replayers) = 0 /\ Cardinality(Readers) = 0
        BY <2>2, <4>3
      <4>. QED
        BY <4>4
    <3>3. CASE Replayers # {}
      <4>1. PICK t \in Replayers : TRUE
        BY <3>3
      <4>2. \A u \in Active : u = t
        BY <2>3 DEF SoloInv, OneActive
      <4>3. Replayers = {t} /\ Sleepers = {} /\ Diallers = {} /\ Readers = {}
        BY <2>3, <4>1, <4>2 DEF Sleepers, Diallers, Replayers, Readers
      <4>4. /\ Cardinality(Replayers) = 1 /\ Cardinality(Sleepers) = 0
            /\ Cardinality(Diallers) = 0 /\ Cardinality(Readers) = 0
        BY <2>2, <4>3
      <4>. QED
        BY <4>4
    <3>4. CASE Sleepers = {} /\ Diallers = {} /\ Replayers = {} /\ Readers # {}
      <4>1. PICK n \in Readers : TRUE
        BY <3>4
      <4>2. \A u \in Active : u = L(n)
        BY <2>3 DEF SoloInv, OneActive
      <4>3. \A m \in Readers : m = n
        BY <2>1, <2>3, <4>2 DEF Readers
      <4>4. Readers = {n}
        BY <4>1, <4>3
      <4>5. /\ Cardinality(Sleepers) = 0 /\ Cardinality(Diallers) = 0
            /\ Cardinality(Replayers) = 0 /\ Cardinality(Readers) = 1
        BY <2>2, <3>4, <4>4
      <4>. QED
        BY <4>5
    <3>5. CASE Sleepers = {} /\ Diallers = {} /\ Replayers = {} /\ Readers = {}
      BY <2>2, <3>5
    <3>. QED
      BY <3>1, <3>2, <3>3, <3>4, <3>5
  <2>5. \A n \in Readers : pc[L(n)] # "start" => on[L(n)] = transport
    BY <2>1 DEF Readers, SoloInv, NetInv
  <2>6. \A c \in Conns \ {transport} : sock[c] \in {"none", "shut"}
    BY DEF SoloInv, NetInv
  <2>. QED
    BY <2>4, <2>5, <2>6 DEF OneTaskInCharge
<1>. QED
  BY <1>1, SoloAlways, PTL

\* Once connect() is over, an object without timers that is CLOSED or FAILED
\* stays so: no loop, no delay, no dial and no waiting close() brings it back.
THEOREM TerminalTheorem ==
    ASSUME Timer = "none"
    PROVE  Spec => TerminalIsFinal
<1>1. TypeInv /\ SoloInv /\ [Next]_vars
          => [Ended(Caller) /\ state \in Terminal => state' = state]_vars
  <2>. SUFFICES ASSUME TypeInv, SoloInv, Next, Ended(Caller), state \in Terminal
                PROVE  state' = state
    BY DEF vars
  <2>1. \A t \in Task : pc[t] \notin {"sleep", "dial", "replay", "recv", "hung"}
    BY DEF SoloInv, FinalInv, Active, Ended, Over
  <2>2. CASE Connect
    BY <2>2 DEF Connect, Ended
  <2>3. ASSUME NEW t \in Task, TaskStep(t)
        PROVE  state' = state
    <3>1. TaskCancelled(t)
      BY <2>1, <2>3, TimersSolo DEF TaskStep, WakeUp, DialSucceeds, DialRefused, DialRaises
    <3>. QED
      BY <3>1 DEF TaskCancelled
  <2>4. ASSUME NEW n \in Conns
        PROVE  /\ LoopStep(n) => state' = state
               /\ ~MessageArrives(n) /\ ~HandleHeartbeatTimeout(n) /\ ~ConnectionAgeTimer(n)
    <3>1. ~MessageLoopLoses(n) /\ ~MessageArrives(n)
      BY <2>1, ConnFacts DEF MessageLoopLoses, MessageArrives
    <3>2. MessageLoopStarts(n) => state' = state
      BY DEF MessageLoopStarts, LoopTurn, Terminal
    <3>. QED
      BY <3>1, <3>2, TimersSolo DEF LoopStep
  <2>5. ASSUME NEW k \in Closers, Close(k)
        PROVE  state' = state
    BY <2>5 DEF Close
  <2>6. ASSUME NEW k \in Closers, CloseStep(k)
        PROVE  state' = state
    <3>1. CloseTransportClosed(k) \/ CloseTransportTimesOut(k) \/ CloseMessageTaskStopped(k)
      BY <2>6 DEF CloseStep, CloseHeartbeatStopped, CloseAgeTimerStopped, SoloInv, NoTimers
    <3>2. kpc[k] \in Waiting
      BY <3>1 DEF CloseTransportClosed, CloseTransportTimesOut, CloseMessageTaskStopped, Waiting
    <3>3. state = "CLOSED"
      BY <3>2 DEF SoloInv, StopInv, Terminal
    <3>4. state' = state \/ state' = "CLOSED"
      BY <3>1 DEF CloseTransportClosed, CloseTransportTimesOut, CloseMessageTaskStopped,
                  CloseMessageTask
    <3>. QED
      BY <3>3, <3>4
  <2>7. CASE Run \/ RunEnds \/ \E c \in Conns : PeerEnds(c)
    BY <2>7 DEF Run, RunEnds, PeerEnds
  <2>8. \A t \in Task : ~Replayed(t)
    BY <2>1 DEF Replayed
  <2>. QED
    BY <2>2, <2>3, <2>4, <2>5, <2>6, <2>7, <2>8 DEF Next
<1>. QED
  BY <1>1, SoloAlways, PTL DEF Spec, TerminalIsFinal
=============================================================================
