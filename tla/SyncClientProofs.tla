-------------------------- MODULE SyncClientProofs --------------------------
(***************************************************************************)
(* The queue and the handlers of the synchronous client, for any number of *)
(* consumers, senders, handlers, messages and calls of connect().          *)
(***************************************************************************)
EXTENDS SyncClient, FilterTheorems

Numbers == Nat \ {0}

QueueTypeInv == /\ queue \in Seq(Nat)
                /\ got \in Seq(Numbers)
                /\ count \in Nat

\* What a step does to the queue and to what was taken out of it.
QueueStays == UNCHANGED <<queue, count, got>>
Arrives == queue' = Append(queue, count + 1) /\ count' = count + 1 /\ got' = got
EndsUp == queue' = Append(queue, 0) /\ UNCHANGED <<count, got>>
IsTaken == /\ queue # <<>>
           /\ queue' = Tail(queue)
           /\ count' = count
           /\ got' = IF Head(queue) = 0 THEN got ELSE Append(got, Head(queue))

LEMMA QueueSteps == SyncNext => QueueStays \/ Arrives \/ EndsUp \/ IsTaken
<1>. SUFFICES ASSUME SyncNext
              PROVE  QueueStays \/ Arrives \/ EndsUp \/ IsTaken
  OBVIOUS
<1>. USE DEF QueueStays, Arrives, EndsUp, IsTaken, msgVars
<1>1. CASE \/ Connect \/ Submit \/ Connected \/ ConnectFails \/ CloseGoesOn \/ Joined
           \/ NewLoop \/ NewManager \/ ThreadFails \/ ThreadCleansUp \/ MoveHandlers
           \/ LoopStops
  BY <1>1 DEF Connect, Submit, Connected, ConnectFails, CloseGoesOn, Joined, NewLoop,
     NewManager, ThreadFails, ThreadCleansUp, MoveHandlers, LoopStops
<1>2. CASE Close
  BY <1>2, Zenon DEF Close
<1>3. CASE OnMessage
  BY <1>3 DEF OnMessage
<1>4. ASSUME NEW c \in Consumers, Call(c) \/ RecvTimesOut(c) \/ PollAgain(c)
      PROVE  QueueStays
  BY <1>4 DEF Call, RecvTimesOut, PollAgain
<1>5. ASSUME NEW c \in Consumers, Get(c)
      PROVE  IsTaken
  BY <1>5 DEF Get
<1>6. ASSUME NEW s \in Senders, Send(s) \/ SendSubmits(s) \/ SendReturns(s)
      PROVE  QueueStays
  BY <1>6 DEF Send, SendSubmits, SendReturns
<1>7. ASSUME NEW h \in Handlers, AddHandler(h) \/ RemoveHandler(h)
      PROVE  QueueStays
  BY <1>7 DEF AddHandler, RemoveHandler
<1>. QED
  BY <1>1, <1>2, <1>3, <1>4, <1>5, <1>6, <1>7 DEF SyncNext

LEMMA QueueTypeStep ==
    ASSUME QueueTypeInv, QueueStays \/ Arrives \/ EndsUp \/ IsTaken
    PROVE  QueueTypeInv'
<1>. USE DEF QueueTypeInv
<1>1. CASE QueueStays
  BY <1>1 DEF QueueStays
<1>2. CASE Arrives
  BY <1>2 DEF Arrives
<1>3. CASE EndsUp
  BY <1>3 DEF EndsUp
<1>4. CASE IsTaken
  <2>1. Head(queue) \in Nat /\ Tail(queue) \in Seq(Nat)
    BY <1>4 DEF IsTaken
  <2>. QED
    BY <1>4, <2>1 DEF IsTaken, Numbers
<1>. QED
  BY <1>1, <1>2, <1>3, <1>4

\* Moving the head of one sequence to the end of another.
LEMMA MoveHead ==
    ASSUME NEW X, NEW s \in Seq(X), NEW x \in X, NEW t \in Seq(X)
    PROVE  s \o (<<x>> \o t) = Append(s, x) \o t
BY SMTT(40)

LEMMA KeptStep ==
    ASSUME QueueTypeInv, MessagesKept, QueueStays \/ Arrives \/ EndsUp \/ IsTaken
    PROVE  MessagesKept'
<1>. DEFINE kept == Filter(queue, Numbers)
<1>0. /\ got \in Seq(Numbers) /\ kept \in Seq(Numbers) /\ count \in Nat
      /\ queue \in Seq(Nat) /\ 0 \in Nat /\ 0 \notin Numbers
      /\ count + 1 \in Nat /\ count + 1 \in Numbers
      /\ \A n \in Nat : n # 0 => n \in Numbers
  <2>1. kept \in Seq(Nat \cap Numbers) /\ Nat \cap Numbers = Numbers
    BY FilterType DEF QueueTypeInv, Numbers
  <2>. QED
    BY <2>1 DEF QueueTypeInv, Numbers
<1>1. got \o kept = [i \in 1 .. count |-> i]
  BY DEF MessagesKept, Numbers
<1>2. MessagesKept' <=> (got' \o Filter(queue', Numbers) = [i \in 1 .. count' |-> i])
  BY DEF MessagesKept, Numbers
<1>3. CASE QueueStays
  BY <1>1, <1>2, <1>3 DEF QueueStays
<1>4. CASE Arrives
  <2>1. Filter(Append(queue, count + 1), Numbers) = Append(kept, count + 1)
    <3>1. \A a \in Seq(Nat), x \in Nat :
              x \in Numbers => Filter(Append(a, x), Numbers) = Append(Filter(a, Numbers), x)
      BY FilterAppend
    <3>. QED
      BY <1>0, <3>1, Zenon
  <2>. HIDE DEF kept
  <2>2. got \o Append(kept, count + 1) = Append(got \o kept, count + 1)
    <3>1. \A a, b \in Seq(Numbers), x \in Numbers : a \o Append(b, x) = Append(a \o b, x)
      BY AppendToConcat
    <3>. QED
      BY <1>0, <3>1, Zenon
  <2>3. Append([i \in 1 .. count |-> i], count + 1) = [i \in 1 .. count + 1 |-> i]
    BY <1>0
  <2>. QED
    BY <1>1, <1>2, <1>4, <2>1, <2>2, <2>3, Zenon DEF Arrives
<1>5. CASE EndsUp
  <2>1. Filter(Append(queue, 0), Numbers) = kept
    BY <1>0, FilterAppend
  <2>. QED
    BY <1>1, <1>2, <1>5, <2>1, Zenon DEF EndsUp
<1>6. CASE IsTaken
  <2>1. Head(queue) \in Nat /\ queue # <<>>
    BY <1>0, <1>6 DEF IsTaken
  <2>. DEFINE rest == Filter(Tail(queue), Numbers)
  <2>2. /\ Head(queue) \in Numbers => kept = <<Head(queue)>> \o rest
        /\ Head(queue) \notin Numbers => kept = rest
    BY <1>0, <2>1, FilterTail
  <2>3. rest \in Seq(Numbers)
    <3>1. Tail(queue) \in Seq(Nat) /\ Nat \cap Numbers = Numbers
      BY <1>0, <2>1 DEF Numbers
    <3>2. rest \in Seq(Nat \cap Numbers)
      BY <3>1, FilterType
    <3>. QED
      BY <3>1, <3>2
  <2>. HIDE DEF rest
  <2>4. CASE Head(queue) = 0
    BY <1>0, <1>1, <1>2, <1>6, <2>2, <2>4, Zenon DEF IsTaken, rest
  <2>5. CASE Head(queue) # 0
    <3>1. got \o (<<Head(queue)>> \o rest) = Append(got, Head(queue)) \o rest
      <4>1. Head(queue) \in Numbers
        BY <1>0, <2>1, <2>5
      <4>2. \A a, b \in Seq(Numbers), x \in Numbers : a \o (<<x>> \o b) = Append(a, x) \o b
        BY MoveHead
      <4>. QED
        BY <1>0, <2>3, <4>1, <4>2, Zenon
    <3>2. got' = Append(got, Head(queue)) /\ queue' = Tail(queue) /\ count' = count
      BY <1>6, <2>5 DEF IsTaken
    <3>3. kept = <<Head(queue)>> \o rest
      BY <1>0, <2>1, <2>2, <2>5
    <3>. QED
      BY <1>1, <1>2, <3>1, <3>2, <3>3, Zenon DEF rest
  <2>. QED
    BY <2>4, <2>5
<1>. QED
  BY <1>3, <1>4, <1>5, <1>6

\* Every message that _on_message() put into the queue is received once and in
\* order or still there, whichever threads call recv() or iterate, and wherever
\* among the messages close() puts its marker.
THEOREM MessagesTheorem == SyncSpec => []MessagesKept
<1>1. SyncInit => QueueTypeInv /\ MessagesKept
  <2>. SUFFICES ASSUME SyncInit
                PROVE  QueueTypeInv /\ MessagesKept
    OBVIOUS
  <2>1. Filter(queue, Nat \ {0}) = <<>> /\ got = <<>> /\ count = 0 /\ queue = <<>>
    BY FilterEmpty DEF SyncInit
  <2>. QED
    BY <2>1 DEF QueueTypeInv, MessagesKept
<1>2. QueueTypeInv /\ MessagesKept /\ [SyncNext]_vars => (QueueTypeInv /\ MessagesKept)'
  <2>. SUFFICES ASSUME QueueTypeInv, MessagesKept, [SyncNext]_vars
                PROVE  QueueTypeInv' /\ MessagesKept'
    OBVIOUS
  <2>1. QueueStays \/ Arrives \/ EndsUp \/ IsTaken
    BY QueueSteps DEF vars, msgVars, QueueStays
  <2>. QED
    BY <2>1, QueueTypeStep, KeptStep
<1>. QED
  BY <1>1, <1>2, PTL DEF SyncSpec
-----------------------------------------------------------------------------
\* A handler that the user registered, whenever that was, is waiting for the
\* WebSocket or on it, or went with a WebSocket that connect() or close() gave up.
THEOREM HandlersTheorem == SyncSpec => []HandlersKept
<1>1. SyncInit => HandlersKept
  BY DEF SyncInit, HandlersKept
<1>2. HandlersKept /\ [SyncNext]_vars => HandlersKept'
  <2>. SUFFICES ASSUME HandlersKept, [SyncNext]_vars
                PROVE  HandlersKept'
    OBVIOUS
  <2>. USE DEF HandlersKept, handVars
  <2>1. ASSUME UNCHANGED handVars
        PROVE  HandlersKept'
    BY <2>1
  <2>2. ASSUME ShutdownLoop, UNCHANGED <<pending, want>>
        PROVE  HandlersKept'
    BY <2>2 DEF ShutdownLoop
  <2>3. CASE \/ Connect \/ Submit \/ Connected \/ Joined \/ NewLoop \/ NewManager
             \/ ThreadFails \/ ThreadCleansUp \/ OnMessage \/ LoopStops \/ UNCHANGED vars
    BY <2>1, <2>3 DEF Connect, Submit, Connected, Joined, NewLoop, NewManager, ThreadFails,
       ThreadCleansUp, OnMessage, LoopStops, vars
  <2>4. CASE ConnectFails \/ CloseGoesOn
    BY <2>2, <2>4 DEF ConnectFails, CloseGoesOn
  <2>5. CASE Close
    BY <2>2, <2>5 DEF Close
  <2>6. CASE MoveHandlers
    BY <2>6 DEF MoveHandlers
  <2>7. ASSUME NEW c \in Consumers, Call(c) \/ Get(c) \/ RecvTimesOut(c) \/ PollAgain(c)
        PROVE  HandlersKept'
    BY <2>1, <2>7 DEF Call, Get, RecvTimesOut, PollAgain
  <2>8. ASSUME NEW s \in Senders, Send(s) \/ SendSubmits(s) \/ SendReturns(s)
        PROVE  HandlersKept'
    BY <2>1, <2>8 DEF Send, SendSubmits, SendReturns
  <2>9. ASSUME NEW h \in Handlers, AddHandler(h) \/ RemoveHandler(h)
        PROVE  HandlersKept'
    BY <2>9 DEF AddHandler, RemoveHandler
  <2>. QED
    BY <2>3, <2>4, <2>5, <2>6, <2>7, <2>8, <2>9 DEF SyncNext
<1>. QED
  BY <1>1, <1>2, PTL DEF SyncSpec
=============================================================================
