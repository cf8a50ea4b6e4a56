----------------------------- MODULE Multiplex ------------------------------
(***************************************************************************)
(* Multiplex and Subscription (multiplex.py): one connection, a router     *)
(* task that hands messages to bounded queues, one per subscription, and   *)
(* consumers that wait on them while channels are unsubscribed and the     *)
(* whole is closed.  Subscriptions are numbered as they are created.       *)
(*                                                                         *)
(* Messages are numbered in the order the router takes them; the marker    *)
(* that ends a subscription (None in the code) is 0.  A queue has at most  *)
(* one consumer, which recv() and iteration serve alike.                   *)
(***************************************************************************)
EXTENDS Naturals, Sequences, Filters

CONSTANTS Channels,
          QueueSize,  \* queue_size
          MaxSubs,    \* bound: subscriptions
          MaxMsgs     \* bound: messages

ASSUME QueueSizeAssumption == QueueSize \in Nat \ {0}
ASSUME MaxSubsAssumption == MaxSubs \in Nat
ASSUME MaxMsgsAssumption == MaxMsgs \in Nat

VARIABLES
    mgr,         \* the state of _manager, "none" before connect() and after close()
    cpc,         \* connect()
    router,      \* _router_task
    closed,      \* _closed
    kpc,         \* close()
    subs,        \* _subscriptions: channel to subscription, 0 where there is none
    nsubs, chan, \* how many were created, and the channel of each
    active,      \* those whose _active is set
    late,        \* history: those created after close() was called
    queue,       \* the queue of each
    wait,        \* those whose consumer waits in queue.get()
    count,       \* messages that reached the router
    routed, got  \* history: what each was routed, what its consumer got

subVars == <<subs, nsubs, chan, late>>
connVars == <<mgr, cpc, router>>
callVars == <<closed, kpc>>
flowVars == <<queue, wait, got>>
histVars == <<count, routed>>
vars == <<subVars, connVars, callVars, active, flowVars, histVars>>

Subs == 1 .. MaxSubs
Registered == {s \in Subs : \E c \in Channels : subs[c] = s}

MuxInit == /\ mgr = "none" /\ cpc = "idle" /\ router = "none"
           /\ closed = FALSE /\ kpc = "idle"
           /\ subs = [c \in Channels |-> 0]
           /\ nsubs = 0
           /\ chan = [s \in Subs |-> CHOOSE c \in Channels : TRUE]
           /\ active = {}
           /\ late = {}
           /\ queue = [s \in Subs |-> <<>>]
           /\ wait = {}
           /\ count = 0
           /\ routed = [s \in Subs |-> <<>>]
           /\ got = [s \in Subs |-> <<>>]
-----------------------------------------------------------------------------
(***************************************************************************)
(* The connection.                                                         *)
(***************************************************************************)
\* connect(); once it has failed, _manager stays and it cannot be tried again.
MuxConnect == /\ cpc = "idle"
              /\ ~closed
              /\ mgr = "none"
              /\ mgr' = "down"
              /\ cpc' = "dial"
              /\ UNCHANGED <<router, subVars, callVars, active, flowVars, histVars>>

\* WebSocket.connect() returns, also where close() has dropped _manager, and then
\* the router ends at once.
ConnectReturns == /\ cpc = "dial"
                  /\ cpc' = "done"
                  /\ mgr' = IF mgr = "none" THEN mgr ELSE "connected"
                  /\ router' = IF mgr = "none" THEN "ended" ELSE "run"
                  /\ UNCHANGED <<subVars, callVars, active, flowVars, histVars>>

ConnectRaises == /\ cpc = "dial"
                 /\ cpc' = "raised"
                 /\ mgr' = IF mgr = "none" THEN mgr ELSE "failed"
                 /\ UNCHANGED <<router, subVars, callVars, active, flowVars, histVars>>

\* The connection is lost and comes back, or the WebSocket gives up.  Nothing is
\* subscribed anew, and nobody is told.
ManagerMoves == /\ cpc = "done"
                /\ kpc # "manager"
                /\ \/ mgr = "connected" /\ mgr' = "down"
                   \/ mgr = "down" /\ mgr' \in {"connected", "failed"}
                /\ UNCHANGED <<cpc, router, subVars, callVars, active, flowVars, histVars>>
-----------------------------------------------------------------------------
(***************************************************************************)
(* subscribe(), unsubscribe(), Subscription.close().                       *)
(***************************************************************************)
\* subscribe() of a channel that has no subscription.  _closed is not asked for,
\* and a failing send leaves what it did in place.
Subscribe(c) == /\ mgr = "connected"
                /\ subs[c] = 0
                /\ nsubs < MaxSubs
                /\ nsubs' = nsubs + 1
                /\ subs' = [subs EXCEPT ![c] = nsubs + 1]
                /\ chan' = [chan EXCEPT ![nsubs + 1] = c]
                /\ active' = active \cup {nsubs + 1}
                /\ late' = IF closed THEN late \cup {nsubs + 1} ELSE late
                /\ UNCHANGED <<connVars, callVars, flowVars, histVars>>

\* Mutant of Mark: the marker is not put.
MarkNone(S) == UNCHANGED queue

\* The marker goes into the queues of S that have room for it.
Mark(S) == queue' = [s \in Subs |-> IF s \in S /\ Len(queue[s]) < QueueSize
                                    THEN Append(queue[s], 0) ELSE queue[s]]

\* unsubscribe(), also by way of Subscription.close(), which acts only on an
\* active subscription.
Unsubscribe(c) == /\ subs[c] # 0
                  /\ subs' = [subs EXCEPT ![c] = 0]
                  /\ active' = active \ {subs[c]}
                  /\ Mark({subs[c]})
                  /\ UNCHANGED <<nsubs, chan, late, connVars, callVars, wait, got, histVars>>

SubscriptionClose(s) == /\ s \in active
                        /\ active' = active \ {s}
                        /\ subs' = [subs EXCEPT ![chan[s]] = 0]
                        /\ Mark({subs[chan[s]]})
                        /\ UNCHANGED <<nsubs, chan, late, connVars, callVars, wait, got, histVars>>
-----------------------------------------------------------------------------
(***************************************************************************)
(* The router and the consumers.                                           *)
(***************************************************************************)
\* Mutant of Deliver: a full queue loses its newest message.
DeliverNewest(s) == queue' = [queue EXCEPT ![s] = IF Len(@) < QueueSize THEN Append(@, count + 1)
                                                  ELSE @]

\* put_nowait(); a full queue loses its oldest message.
Deliver(s) == queue' = [queue EXCEPT ![s] = IF Len(@) < QueueSize THEN Append(@, count + 1)
                                            ELSE Append(Tail(@), count + 1)]

\* The router takes the next message, which concerns channel c.
Route(c) == /\ router = "run"
            /\ mgr # "none"
            /\ count < MaxMsgs
            /\ count' = count + 1
            /\ LET s == subs[c] IN
               IF s = 0 \/ s \notin active THEN UNCHANGED <<queue, routed>>
               ELSE /\ Deliver(s)
                    /\ routed' = [routed EXCEPT ![s] = Append(@, count + 1)]
            /\ UNCHANGED <<subVars, connVars, callVars, active, wait, got>>

\* channel_extractor() raises on the next message: the router ends with its
\* exception, which nobody sees before close().
RouterRaises == /\ router = "run"
                /\ mgr # "none"
                /\ count < MaxMsgs
                /\ count' = count + 1
                /\ router' = "raised"
                /\ UNCHANGED <<mgr, cpc, subVars, callVars, active, flowVars, routed>>

\* The consumer of s is given the head of its queue.
Take(s) == /\ queue' = [queue EXCEPT ![s] = Tail(@)]
           /\ IF Head(queue[s]) = 0
              THEN active' = active \ {s} /\ UNCHANGED got
              ELSE /\ got' = [got EXCEPT ![s] = Append(@, Head(queue[s]))]
                   /\ UNCHANGED active
           /\ UNCHANGED <<subVars, connVars, callVars, histVars>>

SubRecv(s) == /\ s \in active \ wait
              /\ IF queue[s] = <<>>
                 THEN /\ wait' = wait \cup {s}
                      /\ UNCHANGED <<subVars, connVars, callVars, active, queue, got, histVars>>
                 ELSE Take(s) /\ UNCHANGED wait

SubRecvResumes(s) == /\ s \in wait
                     /\ queue[s] # <<>>
                     /\ wait' = wait \ {s}
                     /\ Take(s)

\* The timeout of recv() is over, or the consumer is cancelled.
SubRecvGivesUp(s) == /\ s \in wait
                     /\ wait' = wait \ {s}
                     /\ UNCHANGED <<subVars, connVars, callVars, active, queue, got, histVars>>
-----------------------------------------------------------------------------
(***************************************************************************)
(* close().                                                                *)
(***************************************************************************)
\* After the router has ended: WebSocket.close(), if there is one to be closed.
CloseManager == IF mgr = "none"
                THEN kpc' = "done" /\ subs' = [c \in Channels |-> 0] /\ UNCHANGED mgr
                ELSE /\ kpc' = "manager"
                     /\ mgr' = IF mgr = "connected" THEN "down" ELSE mgr
                     /\ UNCHANGED subs

\* The exception of the router leaves close() before it gets to the connection.
MuxClose == /\ kpc = "idle"
            /\ ~closed
            /\ closed' = TRUE
            /\ active' = active \ Registered
            /\ Mark(Registered)
            /\ \/ /\ router = "run"
                  /\ router' = "cancelled"
                  /\ kpc' = "router"
                  /\ UNCHANGED <<mgr, subs>>
               \/ /\ router = "raised"
                  /\ kpc' = "raised"
                  /\ UNCHANGED <<router, mgr, subs>>
               \/ /\ router \in {"none", "ended"}
                  /\ CloseManager
                  /\ UNCHANGED router
            /\ UNCHANGED <<cpc, nsubs, chan, late, wait, got, histVars>>

RouterEnds == /\ router = "cancelled"
              /\ router' = "ended"
              /\ UNCHANGED <<mgr, cpc, subVars, callVars, active, flowVars, histVars>>

RouterStopped == /\ kpc = "router"
                 /\ router = "ended"
                 /\ CloseManager
                 /\ UNCHANGED <<cpc, router, nsubs, chan, late, closed, active, flowVars, histVars>>

\* WebSocket.close() returns; a subscription made meanwhile is forgotten.
ManagerClosed == /\ kpc = "manager"
                 /\ mgr' = "none"
                 /\ kpc' = "done"
                 /\ subs' = [c \in Channels |-> 0]
                 /\ UNCHANGED <<cpc, router, nsubs, chan, late, closed, active, flowVars, histVars>>

MuxNext == \/ MuxConnect \/ ConnectReturns \/ ConnectRaises \/ ManagerMoves
           \/ \E c \in Channels : Subscribe(c) \/ Unsubscribe(c) \/ Route(c)
           \/ \E s \in Subs : \/ SubscriptionClose(s) \/ SubRecv(s) \/ SubRecvResumes(s)
                              \/ SubRecvGivesUp(s)
           \/ RouterRaises \/ MuxClose \/ RouterEnds \/ RouterStopped \/ ManagerClosed

\* Tasks that can run do run, and WebSocket.close() returns.
MuxFairness == /\ \A s \in Subs : WF_vars(SubRecvResumes(s))
               /\ WF_vars(RouterEnds) /\ WF_vars(RouterStopped) /\ WF_vars(ManagerClosed)

MuxSpec == MuxInit /\ [][MuxNext]_vars /\ MuxFairness
-----------------------------------------------------------------------------
\* Each queue holds the newest messages routed to its subscription, in order: what
\* overflow costs is always the oldest, and the marker costs nothing.  What its
\* consumer has got comes before all of them, in order and without repetition.
QueueHoldsNewest ==
    \A s \in Subs :
        LET q == Filter(queue[s], Nat \ {0})
            all == got[s] \o q
        IN
        /\ \A i, j \in DOMAIN all : i < j => all[i] < all[j]
        /\ Len(q) <= Len(routed[s])
        /\ q = SubSeq(routed[s], Len(routed[s]) - Len(q) + 1, Len(routed[s]))

\* Whoever waits on a subscription that was unsubscribed or closed is released by
\* the marker, which is left out only where the queue is full.  A subscription
\* made while close() waits is not covered: close() forgets it.
ConsumerEnds == \A s \in Subs : (s \in wait /\ s \notin active \cup late) ~> (s \notin wait)
=============================================================================
