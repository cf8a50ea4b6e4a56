-------------------------------- MODULE Pool --------------------------------
(***************************************************************************)
(* ConnectionPool (pool.py): acquire() and release() by concurrent users,  *)
(* the health check, the cleanup of idle connections and close().  A step  *)
(* runs a task from one suspension point to the next.  No section under    *)
(* _lock suspends except that of close(), so only close() is ever seen to  *)
(* hold it.                                                                *)
(*                                                                         *)
(* Connections are numbered as they are opened.  Of a WebSocket the pool   *)
(* sees the state: CONNECTED, BACKING_OFF, "busy" (CONNECTING or           *)
(* DISCONNECTING) or "terminal" (FAILED or CLOSED, which is final, as its  *)
(* connect() has returned and no timers are configured).  A task may be    *)
(* cancelled wherever acquire() and release() wait.                        *)
(***************************************************************************)
EXTENDS Naturals, FiniteSets, FiniteSetsExt

CONSTANTS Users,           \* tasks that acquire and release
          Uris,            \* what they connect to
          MaxConnections,  \* max_connections
          Closers,         \* the calls of close()
          MaxConns         \* bound: connections opened

ASSUME MaxConnectionsAssumption == MaxConnections \in Nat \ {0}
ASSUME PoolMaxConnsAssumption == MaxConns \in Nat
ASSUME UsersAssumption == IsFiniteSet(Users)
ASSUME UrisAssumption == Uris # {}

VARIABLES
    pc, want, held,  \* of each user: where it is suspended, its URI, its connection
    permits,         \* the value of _semaphore
    lost,            \* history: permits that cancelled acquires took with them
    made,            \* how many connections were opened
    conns,           \* _connections: those registered
    at,              \* the URI of each
    in_use,          \* those whose in_use is set
    mstate,          \* the state of each one's WebSocket
    shut,            \* those not terminal whose WebSocket.close() was called
    dropped,         \* history: removed by acquire() while reconnecting
    orphans,         \* history: left behind by a cancelled acquire()
    kept,            \* history: left behind by a cancelled release()
    background,      \* the two background tasks are running
    todo, cur,       \* the cleanup loop: what it collected, what it is closing
    closed,          \* _closed
    lock,            \* _lock is held, by close()
    kpc, gathering   \* each close(), and the connections it waits for

userVars == <<pc, want, held>>
connVars == <<conns, at, in_use>>
wsVars == <<mstate, shut>>
leftVars == <<dropped, orphans, kept>>
poolVars == <<closed, lock, kpc, gathering>>
cleanVars == <<background, todo, cur>>
vars == <<userVars, permits, lost, made, connVars, wsVars, leftVars, cleanVars, poolVars>>

Ids == 1 .. MaxConns
Usable == {"CONNECTED", "BACKING_OFF"}
WsStates == Usable \cup {"busy", "terminal"}

AnyUri == CHOOSE x \in Uris : TRUE

PoolInit == /\ pc = [u \in Users |-> "idle"]
            /\ want = [u \in Users |-> AnyUri]
            /\ held = [u \in Users |-> 0]
            /\ permits = MaxConnections
            /\ lost = 0
            /\ made = 0
            /\ conns = {}
            /\ at = [c \in Ids |-> AnyUri]
            /\ in_use = {}
            /\ mstate = [c \in Ids |-> "terminal"]
            /\ shut = {}
            /\ dropped = {}
            /\ orphans = {}
            /\ kept = {}
            /\ background = FALSE
            /\ todo = {}
            /\ cur = 0
            /\ closed = FALSE
            /\ lock = FALSE
            /\ kpc = [k \in Closers |-> "idle"]
            /\ gathering = [k \in Closers |-> {}]

Idle == conns \ in_use
Dead == {c \in Ids : mstate[c] = "terminal"}
\* User u goes to p; the URI it asked for is local to acquire().
Goto(u, p) == /\ pc' = [pc EXCEPT ![u] = p]
              /\ want' = IF p \in {"lock", "dial"} THEN want
                         ELSE [want EXCEPT ![u] = AnyUri]

\* WebSocket.close() is called on the connections of C.
CloseBegins(C) == /\ shut' = shut \cup (C \ Dead)
                  /\ mstate' = [c \in Ids |-> IF c \in C /\ mstate[c] = "CONNECTED"
                                              THEN "busy" ELSE mstate[c]]

CloseEnds(c) == /\ mstate' = [mstate EXCEPT ![c] = "terminal"]
                /\ shut' = shut \ {c}
-----------------------------------------------------------------------------
(***************************************************************************)
(* acquire().                                                              *)
(***************************************************************************)
\* The bound counts the connections that the calls under way may still make.
Acquire(u) == /\ pc[u] = "idle"
              /\ ~closed
              /\ made + Cardinality({v \in Users : pc[v] \in {"sem", "lock", "dial"}})
                   < MaxConns
              /\ \E x \in Uris : want' = [want EXCEPT ![u] = x]
              /\ pc' = [pc EXCEPT ![u] = "sem"]
              /\ UNCHANGED <<held, permits, lost, made, connVars, wsVars, leftVars,
                             cleanVars, poolVars>>

\* PoolExhaustedError after acquire_timeout.
AcquireTimesOut(u) == /\ pc[u] = "sem"
                      /\ Goto(u, "idle")
                      /\ UNCHANGED <<held, permits, lost, made, connVars, wsVars,
                                     leftVars, cleanVars, poolVars>>

\* Mutant of Lookup: the connection found is not marked as used.
LookupUnmarked(u) ==
    LET found == {c \in Idle : at[c] = want[u]} IN
    /\ IF found = {} THEN Goto(u, "dial") /\ UNCHANGED held
       ELSE held' = [held EXCEPT ![u] = Min(found)] /\ Goto(u, "hold")
    /\ UNCHANGED <<conns, dropped, in_use>>

\* What follows once user u has the lock: the idle connection registered first
\* is taken if it is usable, and otherwise removed (and not closed) to dial anew.
Lookup(u) ==
    LET found == {c \in Idle : at[c] = want[u]}
        first == IF found = {} THEN 0 ELSE Min(found)
    IN  \/ /\ first # 0
           /\ mstate[first] \in Usable
           /\ held' = [held EXCEPT ![u] = first]
           /\ in_use' = in_use \cup {first}
           /\ Goto(u, "hold")
           /\ UNCHANGED <<conns, dropped>>
        \/ /\ first # 0 => mstate[first] \notin Usable
           /\ conns' = conns \ {first}
           /\ dropped' = IF first # 0 /\ mstate[first] = "busy"
                         THEN dropped \cup {first} ELSE dropped
           /\ Goto(u, "dial")
           /\ UNCHANGED <<held, in_use>>

GetPermit(u) == /\ pc[u] = "sem"
                /\ permits > 0
                /\ permits' = permits - 1
                /\ IF lock
                   THEN Goto(u, "lock") /\ UNCHANGED <<held, conns, in_use, dropped>>
                   ELSE Lookup(u)
                /\ UNCHANGED <<lost, made, at, wsVars, orphans, kept, cleanVars, poolVars>>

GetLock(u) == /\ pc[u] = "lock"
              /\ ~lock
              /\ Lookup(u)
              /\ UNCHANGED <<permits, lost, made, at, wsVars, orphans, kept, cleanVars, poolVars>>

\* connect() has opened a connection for user u; it may have lost it already and
\* return in any state.
Opens(u) == /\ made' = made + 1
            /\ at' = [at EXCEPT ![made + 1] = want[u]]
            /\ \E s \in WsStates : mstate' = [mstate EXCEPT ![made + 1] = s]

\* _create_connection() registers connection c, whatever became of the pool and
\* of the connection meanwhile.
Register(u, c) == /\ conns' = conns \cup {c}
                  /\ in_use' = in_use \cup {c}
                  /\ held' = [held EXCEPT ![u] = c]
                  /\ Goto(u, "hold")

DialSucceeds(u) == /\ pc[u] = "dial"
                   /\ Opens(u)
                   /\ IF lock
                      THEN /\ held' = [held EXCEPT ![u] = made + 1]
                           /\ Goto(u, "reg")
                           /\ UNCHANGED <<conns, in_use>>
                      ELSE Register(u, made + 1)
                   /\ UNCHANGED <<permits, lost, shut, leftVars, cleanVars, poolVars>>

RegisterLate(u) == /\ pc[u] = "reg"
                   /\ ~lock
                   /\ Register(u, held[u])
                   /\ UNCHANGED <<permits, lost, made, at, wsVars, leftVars, cleanVars,
                                  poolVars>>

\* Mutant of DialFails: the permit is not given back.
DialFailsKeepsPermit(u) == /\ pc[u] = "dial"
                           /\ Goto(u, "idle")
                           /\ UNCHANGED <<held, permits, lost, made, connVars, wsVars,
                                          leftVars, cleanVars, poolVars>>

\* connect() raises; acquire() gives the permit back.
DialFails(u) == /\ pc[u] = "dial"
                /\ permits' = permits + 1
                /\ Goto(u, "idle")
                /\ UNCHANGED <<held, lost, made, connVars, wsVars, leftVars,
                               cleanVars, poolVars>>

\* The task that acquires is cancelled: "except Exception" lets CancelledError
\* pass and the permit is gone, and with it a connection that was opened: nobody
\* registers or closes it.
AcquireCancelled(u) == /\ pc[u] \in {"lock", "dial", "reg"}
                       /\ lost' = lost + 1
                       /\ Goto(u, "idle")
                       /\ \/ /\ pc[u] # "reg"
                             /\ UNCHANGED <<held, made, at, mstate, orphans>>
                          \/ /\ pc[u] = "dial"
                             /\ Opens(u)
                             /\ orphans' = orphans \cup {made + 1}
                             /\ UNCHANGED held
                          \/ /\ pc[u] = "reg"
                             /\ orphans' = orphans \cup {held[u]}
                             /\ held' = [held EXCEPT ![u] = 0]
                             /\ UNCHANGED <<made, at, mstate>>
                       /\ UNCHANGED <<permits, conns, in_use, shut, dropped, kept,
                                      cleanVars, poolVars>>
-----------------------------------------------------------------------------
(***************************************************************************)
(* release().                                                              *)
(***************************************************************************)
\* The connection c that user u released is closed.
Unregister(u) == IF lock THEN Goto(u, "unreg") /\ UNCHANGED <<conns, held>>
                 ELSE /\ conns' = conns \ {held[u]}
                      /\ held' = [held EXCEPT ![u] = 0]
                      /\ Goto(u, "idle")

\* Mutant of Release: a connection released to a closed pool is kept.
ReleaseKeeps(u) == /\ pc[u] = "hold"
                   /\ in_use' = in_use \ {held[u]}
                   /\ permits' = permits + 1
                   /\ Goto(u, "idle")
                   /\ held' = [held EXCEPT ![u] = 0]
                   /\ UNCHANGED <<wsVars, conns, lost, made, at, leftVars, cleanVars,
                                  poolVars>>

Release(u) == /\ pc[u] = "hold"
              /\ in_use' = in_use \ {held[u]}
              /\ permits' = permits + 1
              /\ \/ /\ ~closed /\ held[u] \notin Dead
                    /\ Goto(u, "idle")
                    /\ held' = [held EXCEPT ![u] = 0]
                    /\ UNCHANGED <<wsVars, conns>>
                 \/ /\ held[u] \in Dead
                    /\ Unregister(u)
                    /\ UNCHANGED wsVars
                 \/ /\ closed /\ held[u] \notin Dead
                    /\ CloseBegins({held[u]})
                    /\ Goto(u, "rel")
                    /\ UNCHANGED <<conns, held>>
              /\ UNCHANGED <<lost, made, at, leftVars, cleanVars, poolVars>>

ReleaseClosed(u) == /\ pc[u] = "rel"
                    /\ CloseEnds(held[u])
                    /\ Unregister(u)
                    /\ UNCHANGED <<permits, lost, made, at, in_use, leftVars,
                                   cleanVars, poolVars>>

ReleaseRemoves(u) == /\ pc[u] = "unreg"
                     /\ ~lock
                     /\ Unregister(u)
                     /\ UNCHANGED <<permits, lost, made, at, in_use, wsVars, leftVars,
                                    cleanVars, poolVars>>

\* The task that releases is cancelled, inside WebSocket.close() or while it waits
\* for the lock: suppress(Exception) lets CancelledError pass and the connection
\* stays registered.
ReleaseCancelled(u) == /\ pc[u] \in {"rel", "unreg"}
                       /\ kept' = kept \cup {held[u]}
                       /\ held' = [held EXCEPT ![u] = 0]
                       /\ Goto(u, "idle")
                       /\ UNCHANGED <<permits, lost, made, connVars, wsVars, dropped,
                                      orphans, cleanVars, poolVars>>
-----------------------------------------------------------------------------
(***************************************************************************)
(* The background tasks.                                                   *)
(***************************************************************************)
\* __aenter__() starts them; on a closed pool they end at once.
Enter == /\ ~background
         /\ ~closed
         /\ background' = TRUE
         /\ UNCHANGED <<userVars, permits, lost, made, connVars, wsVars, leftVars, todo, cur,
                        poolVars>>

\* One round of the health check: it never waits.
HealthCheck == /\ background
               /\ Idle \cap Dead # {}
               /\ conns' = conns \ (Idle \cap Dead)
               /\ UNCHANGED <<userVars, permits, lost, made, at, in_use, wsVars, leftVars,
                              cleanVars, poolVars>>

\* The cleanup is done with the connections of gone and goes through the rest S
\* of its list, up to a connection whose close() takes time.
CleanupGoesOn(S, gone) ==
    \E T \in SUBSET (S \cap Dead), c \in (S \ Dead) \cup {0} :
        /\ c = 0 => S = T
        /\ cur' = c
        /\ todo' = S \ (T \cup {c})
        /\ conns' = conns \ (gone \cup T)
        /\ shut' = (shut \ gone) \cup ({c} \ {0})
        /\ mstate' = [d \in Ids |-> IF d \in gone THEN "terminal"
                                    ELSE IF d = c /\ mstate[d] = "CONNECTED" THEN "busy"
                                    ELSE mstate[d]]

\* A round of the cleanup collects connections that were idle for too long.
CleanupCollects == /\ background
                   /\ cur = 0
                   /\ \E S \in SUBSET Idle \ {{}} : CleanupGoesOn(S, {})
                   /\ UNCHANGED <<userVars, permits, lost, made, at, in_use, leftVars,
                                  background, poolVars>>

\* Its list is not looked at again: what was idle may be in use by now.
CleanupCloses == /\ cur # 0
                 /\ CleanupGoesOn(todo, {cur})
                 /\ UNCHANGED <<userVars, permits, lost, made, at, in_use, leftVars,
                                background, poolVars>>

\* The WebSocket of c moves: it loses its connection, backs off, dials again,
\* gives up.  After its close() it can only end.  Nobody looks at one that was
\* left behind.
Moves == {<<"CONNECTED", "BACKING_OFF">>, <<"BACKING_OFF", "busy">>,
          <<"busy", "CONNECTED">>, <<"busy", "BACKING_OFF">>,
          <<"CONNECTED", "terminal">>, <<"busy", "terminal">>}

WebSocketMoves(c) == /\ c \in conns \cup in_use \cup {held[u] : u \in Users}
                     /\ \E s \in WsStates : /\ <<mstate[c], s>> \in Moves
                                            /\ c \in shut => s = "terminal"
                                            /\ IF s = "terminal" THEN CloseEnds(c)
                                               ELSE /\ mstate' = [mstate EXCEPT ![c] = s]
                                                    /\ UNCHANGED shut
                     /\ UNCHANGED <<userVars, permits, lost, made, connVars, leftVars,
                                    cleanVars, poolVars>>
-----------------------------------------------------------------------------
(***************************************************************************)
(* close().                                                                *)
(***************************************************************************)
\* It cancels the background tasks.  Where the cleanup is inside a
\* WebSocket.close(), the cancellation ends it halfway, or is swallowed there
\* and the cleanup goes on with its list.
PoolClose(k) == /\ kpc[k] = "idle"
                /\ closed' = TRUE
                /\ background' = FALSE
                /\ \/ cur' = 0 /\ todo' = {}
                   \/ cur # 0 /\ UNCHANGED <<cur, todo>>
                /\ kpc' = [kpc EXCEPT ![k] = "tasks"]
                /\ UNCHANGED <<userVars, permits, lost, made, connVars, wsVars, leftVars, lock,
                               gathering>>

\* Mutant of CloseAll: the background tasks are not waited for, nor the lock.
CloseAllUnlocked(k) ==
    /\ kpc[k] = "tasks"
    /\ CloseBegins(conns)
    /\ conns' = {}
    /\ kpc' = [kpc EXCEPT ![k] = "done"]
    /\ UNCHANGED <<lock, gathering, userVars, permits, lost, made, at, in_use, leftVars,
                   cleanVars, closed>>

\* Mutant of CloseAll: the lock is not released where nothing is to be closed.
CloseAllKeepsLock(k) ==
    /\ kpc[k] = "tasks"
    /\ cur = 0
    /\ ~lock
    /\ CloseBegins(conns)
    /\ gathering' = [gathering EXCEPT ![k] = conns \ Dead]
    /\ lock' = TRUE
    /\ kpc' = [kpc EXCEPT ![k] = "gather"]
    /\ UNCHANGED <<conns, userVars, permits, lost, made, at, in_use, leftVars, cleanVars,
                   closed>>

\* With the tasks ended and the lock taken, it closes whatever is registered.
CloseAll(k) ==
    /\ kpc[k] = "tasks"
    /\ cur = 0
    /\ ~lock
    /\ CloseBegins(conns)
    /\ gathering' = [gathering EXCEPT ![k] = conns \ Dead]
    /\ IF conns \subseteq Dead
       THEN /\ conns' = {}
            /\ kpc' = [kpc EXCEPT ![k] = "done"]
            /\ UNCHANGED lock
       ELSE /\ lock' = TRUE
            /\ kpc' = [kpc EXCEPT ![k] = "gather"]
            /\ UNCHANGED conns
    /\ UNCHANGED <<userVars, permits, lost, made, at, in_use, leftVars, cleanVars, closed>>

\* One of the WebSocket.close() calls ends; with the last one close() is done.
GatherOne(k, c) ==
    /\ c \in gathering[k]
    /\ CloseEnds(c)
    /\ gathering' = [gathering EXCEPT ![k] = @ \ {c}]
    /\ IF gathering[k] = {c}
       THEN /\ conns' = {}
            /\ lock' = FALSE
            /\ kpc' = [kpc EXCEPT ![k] = "done"]
       ELSE UNCHANGED <<conns, lock, kpc>>
    /\ UNCHANGED <<userVars, permits, lost, made, at, in_use, leftVars, cleanVars, closed>>

UserNext(u) == \/ Acquire(u) \/ AcquireTimesOut(u) \/ GetPermit(u) \/ GetLock(u)
               \/ DialSucceeds(u) \/ RegisterLate(u) \/ DialFails(u) \/ AcquireCancelled(u)
               \/ Release(u) \/ ReleaseClosed(u) \/ ReleaseRemoves(u) \/ ReleaseCancelled(u)

CloserNext(k) == \/ PoolClose(k) \/ CloseAll(k)
                 \/ \E c \in Ids : GatherOne(k, c)

PoolNext == \/ \E u \in Users : UserNext(u)
            \/ \E k \in Closers : CloserNext(k)
            \/ \E c \in Ids : WebSocketMoves(c)
            \/ Enter \/ HealthCheck \/ CleanupCollects \/ CleanupCloses

\* Whoever waits for the lock gets it in turn, and WebSocket.close() returns;
\* nothing obliges a user to call or the peer to answer a dial.
PoolFairness == /\ \A u \in Users : /\ WF_vars(GetLock(u)) /\ WF_vars(RegisterLate(u))
                                     /\ WF_vars(ReleaseClosed(u)) /\ WF_vars(ReleaseRemoves(u))
                /\ \A k \in Closers : /\ WF_vars(CloseAll(k))
                                       /\ \A c \in Ids : WF_vars(GatherOne(k, c))
                /\ WF_vars(CleanupCloses)

PoolSpec == PoolInit /\ [][PoolNext]_vars /\ PoolFairness
-----------------------------------------------------------------------------
\* Every permit of the semaphore is free, with a user inside acquire() or holding
\* a connection, or was lost with a cancelled acquire(): none is given back
\* twice, none is forgotten on an error path.
Holders == {u \in Users : pc[u] \in {"lock", "dial", "reg", "hold"}}
PermitsAccounted == permits + Cardinality(Holders) + lost = MaxConnections

\* acquire() hands a connection to one user at a time, and it stays marked as in
\* use until that user releases it, whatever the cleanup and close() do.
Exclusive == /\ \A u, v \in Users : (u # v /\ pc[u] = "hold" /\ pc[v] = "hold") =>
                                     held[u] # held[v]
             /\ in_use = {held[u] : u \in {v \in Users : pc[v] = "hold"}}

\* The pool has or closes every connection that was opened, whatever the order in
\* which acquire(), release(), the background tasks and close() let go of it: it is
\* registered, about to be, or closed.  Two ways to lose an open one are left:
\* acquire() took it for dead while it was reconnecting, and removed it without
\* closing it, or acquire() was cancelled once it was open.
NothingLeaks == \A c \in 1 .. made : \/ c \in conns
                                     \/ \E u \in Users : pc[u] = "reg" /\ held[u] = c
                                     \/ mstate[c] = "terminal"
                                     \/ c \in dropped \cup orphans

\* When no close() is in progress, a closed pool keeps only connections that are
\* in use or on their way out, also the one an acquire() registered too late, and
\* those whose release() was cancelled.
NothingIdleOnceClosed ==
    (closed /\ \A k \in Closers : kpc[k] \in {"idle", "done"}) =>
        \A c \in conns : c \in kept \/ \E u \in Users : held[u] = c

\* close() of the pool returns, whatever the cleanup was doing and whoever was
\* waiting for the lock, and a user that waits for the lock, to look up, register
\* or remove a connection, gets past it even while the pool is being closed.
PoolCloseReturns ==
    /\ \A k \in Closers : (kpc[k] = "tasks") ~> (kpc[k] = "done")
    /\ \A u \in Users : (pc[u] \in {"lock", "reg", "unreg"}) ~>
                            (pc[u] \notin {"lock", "reg", "unreg"})
=============================================================================
