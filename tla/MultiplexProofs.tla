-------------------------- MODULE MultiplexProofs ---------------------------
(***************************************************************************)
(* The bounded queues of the multiplexer, for any number of channels,      *)
(* subscriptions and messages and every size of the queues.                *)
(***************************************************************************)
EXTENDS Multiplex, FilterTheorems

Numbers == Nat \ {0}

Increasing(s) == \A i, j \in 1 .. Len(s) : i < j => s[i] < s[j]
UpTo(s, n) == \A i \in 1 .. Len(s) : s[i] <= n
Before(s, t) == \A i \in 1 .. Len(s), j \in 1 .. Len(t) : s[i] < t[j]
IsNewest(q, r) == /\ Len(q) <= Len(r)
                  /\ \A i \in 1 .. Len(q) : q[i] = r[Len(r) - Len(q) + i]

\* One subscription: q is what its queue holds of messages, g what its consumer
\* got, r what it was routed, of n messages in all.
Flow(q, g, r, n) == /\ q \in Seq(Numbers) /\ g \in Seq(Numbers) /\ r \in Seq(Numbers)
                    /\ Increasing(g) /\ Increasing(q) /\ Before(g, q)
                    /\ UpTo(g, n) /\ UpTo(q, n)
                    /\ IsNewest(q, r)

Queued(s) == Filter(queue[s], Numbers)

MuxTypeInv == /\ queue \in [Subs -> Seq(Nat)]
              /\ got \in [Subs -> Seq(Numbers)]
              /\ routed \in [Subs -> Seq(Numbers)]
              /\ count \in Nat

\* No queue grows past queue_size, and what flows through each is in order.
MuxInv == /\ MuxTypeInv
          /\ \A s \in Subs : Len(queue[s]) <= QueueSize
          /\ \A s \in Subs : Flow(Queued(s), got[s], routed[s], count)
-----------------------------------------------------------------------------
\* A new message goes to the end of the queue ...
LEMMA FlowAppend ==
    ASSUME NEW q, NEW g, NEW r, NEW n \in Nat, Flow(q, g, r, n)
    PROVE  Flow(Append(q, n + 1), g, Append(r, n + 1), n + 1)
<1>. DEFINE p == Append(q, n + 1)
            t == Append(r, n + 1)
<1>1. /\ q \in Seq(Numbers) /\ g \in Seq(Numbers) /\ r \in Seq(Numbers)
      /\ \A x \in Numbers : x \in Nat
      /\ n + 1 \in Numbers
  BY DEF Flow, Numbers
<1>2. /\ p \in Seq(Numbers) /\ Len(p) = Len(q) + 1
      /\ \A i \in 1 .. Len(q) : p[i] = q[i]
      /\ p[Len(q) + 1] = n + 1
  BY <1>1
<1>3. /\ t \in Seq(Numbers) /\ Len(t) = Len(r) + 1
      /\ \A i \in 1 .. Len(r) : t[i] = r[i]
      /\ t[Len(r) + 1] = n + 1
  BY <1>1
<1>4. Len(q) \in Nat /\ Len(r) \in Nat /\ Len(g) \in Nat
  BY <1>1
<1>5. /\ \A i \in 1 .. Len(q) : q[i] \in Nat /\ q[i] < n + 1
      /\ \A i \in 1 .. Len(g) : g[i] \in Nat /\ g[i] < n + 1
  <2>1. /\ \A i \in 1 .. Len(q) : q[i] \in Nat
        /\ \A i \in 1 .. Len(g) : g[i] \in Nat
    BY <1>1
  <2>. QED
    BY <2>1 DEF Flow, UpTo
<1>. HIDE DEF p, t
<1>6. Increasing(p)
  <2>. SUFFICES ASSUME NEW i \in 1 .. Len(p), NEW j \in 1 .. Len(p), i < j
                PROVE  p[i] < p[j]
    BY DEF Increasing
  <2>1. i \in 1 .. Len(q) /\ p[i] = q[i]
    BY <1>2, <1>4
  <2>2. CASE j = Len(q) + 1
    BY <1>2, <1>5, <2>1, <2>2
  <2>3. CASE j \in 1 .. Len(q)
    BY <1>2, <2>1, <2>3 DEF Flow, Increasing
  <2>. QED
    BY <1>2, <1>4, <2>2, <2>3
<1>7. Before(g, p)
  BY <1>2, <1>4, <1>5 DEF Flow, Before
<1>8. UpTo(g, n + 1) /\ UpTo(p, n + 1)
  <2>1. UpTo(g, n + 1)
    BY <1>5 DEF UpTo
  <2>2. ASSUME NEW i \in 1 .. Len(p)
        PROVE  p[i] <= n + 1
    <3>1. CASE i = Len(q) + 1
      BY <1>2, <3>1
    <3>2. CASE i \in 1 .. Len(q)
      BY <1>2, <1>5, <3>2
    <3>. QED
      BY <1>2, <1>4, <3>1, <3>2
  <2>. QED
    BY <2>1, <2>2 DEF UpTo
<1>9. IsNewest(p, t)
  <2>1. Len(q) <= Len(r) /\ \A i \in 1 .. Len(q) : q[i] = r[Len(r) - Len(q) + i]
    BY DEF Flow, IsNewest
  <2>2. Len(p) <= Len(t) /\ Len(t) - Len(p) = Len(r) - Len(q)
    BY <1>2, <1>3, <1>4, <2>1
  <2>3. ASSUME NEW i \in 1 .. Len(p)
        PROVE  p[i] = t[Len(r) - Len(q) + i]
    <3>1. CASE i = Len(q) + 1
      BY <1>2, <1>3, <1>4, <3>1
    <3>2. CASE i \in 1 .. Len(q)
      <4>1. Len(r) - Len(q) + i \in 1 .. Len(r)
        BY <1>4, <2>1, <3>2
      <4>. QED
        BY <1>2, <1>3, <2>1, <3>2, <4>1
    <3>. QED
      BY <1>2, <1>4, <3>1, <3>2
  <2>. QED
    BY <2>2, <2>3 DEF IsNewest
<1>. QED
  BY <1>1, <1>2, <1>3, <1>6, <1>7, <1>8, <1>9 DEF Flow, p, t

\* ... and the oldest one leaves it, to be lost or taken.
LEMMA FlowTail ==
    ASSUME NEW q, NEW g, NEW r, NEW n \in Nat, Flow(q, g, r, n), q # <<>>
    PROVE  /\ Flow(Tail(q), g, r, n)
           /\ Flow(Tail(q), Append(g, Head(q)), r, n)
<1>. DEFINE p == Tail(q)
            x == Head(q)
            h == Append(g, Head(q))
<1>1. /\ q \in Seq(Numbers) /\ g \in Seq(Numbers) /\ r \in Seq(Numbers)
      /\ \A y \in Numbers : y \in Nat
  BY DEF Flow, Numbers
<1>2. /\ p \in Seq(Numbers) /\ Len(p) = Len(q) - 1 /\ x = q[1] /\ x \in Numbers
      /\ \A i \in 1 .. Len(p) : p[i] = q[i + 1]
  BY <1>1
<1>3. /\ h \in Seq(Numbers) /\ Len(h) = Len(g) + 1 /\ h[Len(g) + 1] = x
      /\ \A i \in 1 .. Len(g) : h[i] = g[i]
  BY <1>1, <1>2
<1>4. Len(q) \in Nat /\ Len(r) \in Nat /\ Len(g) \in Nat /\ Len(p) \in Nat /\ 1 \in 1 .. Len(q)
  BY <1>1, <1>2
<1>5. /\ \A i \in 1 .. Len(q) : q[i] \in Nat /\ q[i] <= n
      /\ \A i \in 1 .. Len(g) : g[i] \in Nat /\ g[i] <= n
  <2>1. /\ \A i \in 1 .. Len(q) : q[i] \in Nat
        /\ \A i \in 1 .. Len(g) : g[i] \in Nat
    BY <1>1
  <2>. QED
    BY <2>1 DEF Flow, UpTo
<1>. HIDE DEF p, h, x
<1>6. Increasing(p) /\ Before(g, p) /\ UpTo(p, n)
  <2>1. \A i \in 1 .. Len(p) : i + 1 \in 1 .. Len(q) /\ p[i] = q[i + 1]
    BY <1>2, <1>4
  <2>2. Increasing(p)
    <3>. SUFFICES ASSUME NEW i \in 1 .. Len(p), NEW j \in 1 .. Len(p), i < j
                  PROVE  p[i] < p[j]
      BY DEF Increasing
    <3>1. i + 1 < j + 1
      BY <1>4
    <3>. QED
      BY <2>1, <3>1 DEF Flow, Increasing
  <2>3. Before(g, p)
    BY <2>1 DEF Flow, Before
  <2>4. UpTo(p, n)
    BY <1>5, <2>1 DEF UpTo
  <2>. QED
    BY <2>2, <2>3, <2>4
<1>7. IsNewest(p, r)
  BY <1>2, <1>4 DEF Flow, IsNewest
<1>8. Increasing(h)
  <2>. SUFFICES ASSUME NEW i \in 1 .. Len(h), NEW j \in 1 .. Len(h), i < j
                PROVE  h[i] < h[j]
    BY DEF Increasing
  <2>1. i \in 1 .. Len(g) /\ h[i] = g[i]
    BY <1>3, <1>4
  <2>2. CASE j = Len(g) + 1
    BY <1>2, <1>3, <1>4, <2>1, <2>2 DEF Flow, Before
  <2>3. CASE j \in 1 .. Len(g)
    BY <1>3, <2>1, <2>3 DEF Flow, Increasing
  <2>. QED
    BY <1>3, <1>4, <2>2, <2>3
<1>9. Before(h, p)
  <2>. SUFFICES ASSUME NEW i \in 1 .. Len(h), NEW j \in 1 .. Len(p)
                PROVE  h[i] < p[j]
    BY DEF Before
  <2>1. j + 1 \in 1 .. Len(q) /\ p[j] = q[j + 1] /\ q[1] < q[j + 1]
    BY <1>2, <1>4 DEF Flow, Increasing
  <2>2. CASE i = Len(g) + 1
    BY <1>2, <1>3, <2>1, <2>2
  <2>3. CASE i \in 1 .. Len(g)
    BY <1>3, <2>1, <2>3 DEF Flow, Before
  <2>. QED
    BY <1>3, <1>4, <2>2, <2>3
<1>10. UpTo(h, n)
  BY <1>2, <1>3, <1>4, <1>5 DEF UpTo
<1>. QED
  BY <1>1, <1>2, <1>3, <1>6, <1>7, <1>8, <1>9, <1>10 DEF Flow, p, h, x

LEMMA FlowGrows ==
    ASSUME NEW q, NEW g, NEW r, NEW n \in Nat, Flow(q, g, r, n)
    PROVE  Flow(q, g, r, n + 1)
<1>1. /\ \A i \in 1 .. Len(q) : q[i] \in Nat
      /\ \A i \in 1 .. Len(g) : g[i] \in Nat
  BY DEF Flow, Numbers
<1>2. UpTo(g, n + 1) /\ UpTo(q, n + 1)
  BY <1>1 DEF Flow, UpTo
<1>. QED
  BY <1>2 DEF Flow

\* The order and the position of the messages, as the property states them.
LEMMA FlowShows ==
    ASSUME NEW q, NEW g, NEW r, NEW n \in Nat, Flow(q, g, r, n)
    PROVE  /\ \A i, j \in DOMAIN (g \o q) : i < j => (g \o q)[i] < (g \o q)[j]
           /\ Len(q) <= Len(r)
           /\ q = SubSeq(r, Len(r) - Len(q) + 1, Len(r))
<1>1. q \in Seq(Numbers) /\ g \in Seq(Numbers) /\ r \in Seq(Numbers)
  BY DEF Flow
<1>2. Len(q) \in Nat /\ Len(r) \in Nat /\ Len(g) \in Nat /\ Len(q) <= Len(r)
  BY <1>1 DEF Flow, IsNewest
<1>3. \A i, j \in DOMAIN (g \o q) : i < j => (g \o q)[i] < (g \o q)[j]
  <2>. DEFINE a == g \o q
  <2>1. /\ DOMAIN a = 1 .. Len(g) + Len(q)
        /\ \A i \in 1 .. Len(g) : a[i] = g[i]
        /\ \A i \in Len(g) + 1 .. Len(g) + Len(q) :
              i - Len(g) \in 1 .. Len(q) /\ a[i] = q[i - Len(g)]
    BY <1>1, <1>2
  <2>. HIDE DEF a
  <2>2. ASSUME NEW i \in DOMAIN a, NEW j \in DOMAIN a, i < j
        PROVE  a[i] < a[j]
    <3>1. CASE i \in 1 .. Len(g) /\ j \in 1 .. Len(g)
      BY <2>1, <2>2, <3>1 DEF Flow, Increasing
    <3>2. CASE i \in 1 .. Len(g) /\ j \in Len(g) + 1 .. Len(g) + Len(q)
      BY <2>1, <3>2 DEF Flow, Before
    <3>3. CASE i \in Len(g) + 1 .. Len(g) + Len(q) /\ j \in Len(g) + 1 .. Len(g) + Len(q)
      <4>1. i - Len(g) < j - Len(g)
        BY <1>2, <2>2, <3>3
      <4>. QED
        BY <2>1, <3>3, <4>1 DEF Flow, Increasing
    <3>. QED
      BY <1>2, <2>1, <2>2, <3>1, <3>2, <3>3
  <2>. QED
    BY <2>2 DEF a
<1>4. q = SubSeq(r, Len(r) - Len(q) + 1, Len(r))
  <2>. DEFINE m == Len(r) - Len(q) + 1
              u == SubSeq(r, m, Len(r))
  <2>1. m \in Int /\ Len(r) \in Int /\ \A i \in m .. Len(r) : r[i] \in Numbers
    BY <1>1, <1>2
  <2>2. /\ u \in Seq(Numbers)
        /\ Len(u) = IF m <= Len(r) THEN Len(r) - m + 1 ELSE 0
        /\ \A i \in 1 .. Len(r) - m + 1 : u[i] = r[m + i - 1]
    BY <2>1, SubSeqProperties
  <2>3. Len(u) = Len(q) /\ \A i \in 1 .. Len(q) : u[i] = r[Len(r) - Len(q) + i]
    BY <1>2, <2>2
  <2>. HIDE DEF u
  <2>4. u = q
    BY <1>1, <2>2, <2>3, SeqEqual DEF Flow, IsNewest
  <2>. QED
    BY <2>4 DEF u
<1>. QED
  BY <1>2, <1>3, <1>4
-----------------------------------------------------------------------------
\* The messages in a queue when something is put into it or taken out of it.
LEMMA QueuePut ==
    ASSUME NEW Q \in Seq(Nat), NEW n \in Nat
    PROVE  /\ Filter(Append(Q, 0), Numbers) = Filter(Q, Numbers)
           /\ Filter(Append(Q, n + 1), Numbers) = Append(Filter(Q, Numbers), n + 1)
<1>1. \A x \in Nat : Filter(Append(Q, x), Numbers) = IF x \in Numbers
                                                     THEN Append(Filter(Q, Numbers), x)
                                                     ELSE Filter(Q, Numbers)
  BY FilterAppend
<1>2. 0 \in Nat /\ 0 \notin Numbers /\ n + 1 \in Nat /\ n + 1 \in Numbers
  BY DEF Numbers
<1>. QED
  BY <1>1, <1>2, Zenon

LEMMA QueueTake ==
    ASSUME NEW Q \in Seq(Nat), Q # <<>>
    PROVE  /\ Head(Q) = 0 => Filter(Tail(Q), Numbers) = Filter(Q, Numbers)
           /\ Head(Q) # 0 => /\ Head(Q) \in Numbers
                             /\ Filter(Q, Numbers) # <<>>
                             /\ Head(Filter(Q, Numbers)) = Head(Q)
                             /\ Tail(Filter(Q, Numbers)) = Filter(Tail(Q), Numbers)
<1>. DEFINE q == Filter(Tail(Q), Numbers)
            x == Head(Q)
<1>1. x \in Nat /\ Tail(Q) \in Seq(Nat) /\ (x # 0 => x \in Numbers) /\ 0 \notin Numbers
  BY DEF Numbers
<1>2. q \in Seq(Nat \cap Numbers)
  BY <1>1, FilterType
<1>3. q \in Seq(Nat)
  BY <1>2
<1>4. /\ x \in Numbers => Filter(Q, Numbers) = <<x>> \o q
      /\ x \notin Numbers => Filter(Q, Numbers) = q
  BY FilterTail
<1>. HIDE DEF q, x
<1>5. <<x>> \o q # <<>> /\ Head(<<x>> \o q) = x /\ Tail(<<x>> \o q) = q
  BY <1>1, <1>3
<1>. QED
  BY <1>1, <1>4, <1>5, Zenon DEF q, x

\* What a step does to the queue Q of subscription s, of which g was taken and r
\* routed, when n messages have been routed in all.
Stays(s) == queue'[s] = queue[s] /\ got'[s] = got[s] /\ routed'[s] = routed[s]
Marked(s) == /\ Len(queue[s]) < QueueSize
             /\ queue'[s] = Append(queue[s], 0)
             /\ got'[s] = got[s] /\ routed'[s] = routed[s] /\ count' = count
Delivered(s) == /\ queue'[s] = IF Len(queue[s]) < QueueSize THEN Append(queue[s], count + 1)
                               ELSE Append(Tail(queue[s]), count + 1)
                /\ got'[s] = got[s] /\ routed'[s] = Append(routed[s], count + 1)
                /\ count' = count + 1
Taken(s) == /\ queue[s] # <<>>
            /\ queue'[s] = Tail(queue[s])
            /\ got'[s] = IF Head(queue[s]) = 0 THEN got[s] ELSE Append(got[s], Head(queue[s]))
            /\ routed'[s] = routed[s] /\ count' = count

SubSteps == /\ queue' \in [Subs -> Seq(Nat)]
            /\ got' \in [Subs -> Seq(Numbers)]
            /\ routed' \in [Subs -> Seq(Numbers)]
            /\ count' \in {count, count + 1}
            /\ \A s \in Subs : Stays(s) \/ Marked(s) \/ Delivered(s) \/ Taken(s)

LEMMA SubStepsKeep ==
    ASSUME MuxInv, SubSteps
    PROVE  MuxInv'
<1>1. MuxTypeInv'
  BY DEF MuxInv, MuxTypeInv, SubSteps
<1>2. ASSUME NEW s \in Subs
      PROVE  /\ Len(queue'[s]) <= QueueSize
             /\ Flow(Filter(queue'[s], Numbers), got'[s], routed'[s], count')
  <2>. DEFINE Q == queue[s]
              q == Filter(Q, Numbers)
  <2>1. /\ Q \in Seq(Nat) /\ Len(Q) \in Nat /\ Len(Q) <= QueueSize /\ count \in Nat
        /\ QueueSize \in Nat /\ QueueSize # 0
    BY QueueSizeAssumption DEF MuxInv, MuxTypeInv
  <2>2. Flow(q, got[s], routed[s], count)
    BY DEF MuxInv, Queued
  <2>. HIDE DEF Q
  <2>3. CASE Stays(s)
    <3>1. count' = count \/ count' = count + 1
      BY DEF SubSteps
    <3>2. Flow(q, got[s], routed[s], count')
      BY <2>1, <2>2, <3>1, FlowGrows
    <3>. QED
      BY <2>1, <2>3, <3>2 DEF Stays, Q
  <2>4. CASE Marked(s)
    <3>1. queue'[s] = Append(Q, 0) /\ Len(Append(Q, 0)) <= QueueSize
      BY <2>1, <2>4 DEF Marked, Q
    <3>2. Filter(Append(Q, 0), Numbers) = q
      BY <2>1, QueuePut
    <3>. QED
      BY <2>2, <2>4, <3>1, <3>2 DEF Marked
  <2>5. CASE Delivered(s)
    <3>1. CASE Len(Q) < QueueSize
      <4>1. queue'[s] = Append(Q, count + 1) /\ Len(Append(Q, count + 1)) <= QueueSize
        BY <2>1, <2>5, <3>1 DEF Delivered, Q
      <4>2. Filter(Append(Q, count + 1), Numbers) = Append(q, count + 1)
        BY <2>1, QueuePut
      <4>3. Flow(Append(q, count + 1), got[s], Append(routed[s], count + 1), count + 1)
        BY <2>1, <2>2, FlowAppend
      <4>. QED
        BY <2>5, <4>1, <4>2, <4>3 DEF Delivered
    <3>2. CASE ~(Len(Q) < QueueSize)
      <4>. DEFINE T == Tail(Q)
                  t == Filter(T, Numbers)
      <4>1. Q # <<>> /\ T \in Seq(Nat) /\ Len(T) = Len(Q) - 1
        BY <2>1, <3>2
      <4>2. t = q \/ (q # <<>> /\ t = Tail(q))
        BY <2>1, <4>1, QueueTake
      <4>. HIDE DEF T
      <4>3. queue'[s] = Append(T, count + 1) /\ Len(Append(T, count + 1)) <= QueueSize
        BY <2>1, <2>5, <3>2, <4>1 DEF Delivered, Q, T
      <4>4. Filter(Append(T, count + 1), Numbers) = Append(t, count + 1)
        BY <2>1, <4>1, QueuePut
      <4>5. Flow(t, got[s], routed[s], count)
        BY <2>1, <2>2, <4>2, FlowTail
      <4>6. Flow(Append(t, count + 1), got[s], Append(routed[s], count + 1), count + 1)
        BY <2>1, <4>5, FlowAppend
      <4>. QED
        BY <2>5, <4>3, <4>4, <4>6 DEF Delivered
    <3>. QED
      BY <3>1, <3>2
  <2>6. CASE Taken(s)
    <3>. DEFINE T == Tail(Q)
                t == Filter(T, Numbers)
    <3>1. Q # <<>> /\ T \in Seq(Nat) /\ Len(T) = Len(Q) - 1 /\ queue'[s] = T
      BY <2>1, <2>6 DEF Taken, Q
    <3>2. CASE Head(Q) = 0
      <4>1. t = q
        BY <2>1, <3>1, <3>2, QueueTake
      <4>. QED
        BY <2>1, <2>2, <2>6, <3>1, <3>2, <4>1 DEF Taken, Q
    <3>3. CASE Head(Q) # 0
      <4>1. q # <<>> /\ t = Tail(q) /\ Head(q) = Head(Q)
        BY <2>1, <3>1, <3>3, QueueTake
      <4>2. Flow(Tail(q), Append(got[s], Head(q)), routed[s], count)
        BY <2>1, <2>2, <4>1, FlowTail
      <4>3. got'[s] = Append(got[s], Head(q)) /\ routed'[s] = routed[s] /\ count' = count
        BY <2>6, <3>3, <4>1 DEF Taken, Q
      <4>4. Flow(t, got'[s], routed'[s], count')
        BY <4>1, <4>2, <4>3
      <4>5. Len(T) <= QueueSize
        BY <2>1, <3>1
      <4>. QED
        BY <3>1, <4>4, <4>5
    <3>. QED
      BY <3>2, <3>3
  <2>. QED
    BY <2>3, <2>4, <2>5, <2>6 DEF SubSteps
<1>. QED
  BY <1>1, <1>2 DEF MuxInv, Queued

LEMMA MarkSteps ==
    ASSUME MuxInv, NEW S, Mark(S), UNCHANGED <<got, histVars>>
    PROVE  SubSteps
<1>0. MuxTypeInv
  BY DEF MuxInv
<1>1. queue' \in [Subs -> Seq(Nat)]
  BY <1>0 DEF MuxTypeInv, Mark
<1>2. \A s \in Subs : Stays(s) \/ Marked(s)
  BY <1>0 DEF MuxTypeInv, Mark, Stays, Marked, histVars
<1>. QED
  BY <1>0, <1>1, <1>2 DEF MuxTypeInv, SubSteps, histVars

LEMMA StillSteps ==
    ASSUME MuxInv, UNCHANGED <<queue, got, histVars>>
    PROVE  SubSteps
BY DEF MuxInv, MuxTypeInv, SubSteps, Stays, histVars

LEMMA RaiseSteps ==
    ASSUME MuxInv, RouterRaises
    PROVE  SubSteps
<1>1. MuxTypeInv /\ UNCHANGED <<queue, got, routed>> /\ count' = count + 1
  BY DEF MuxInv, RouterRaises, flowVars
<1>. QED
  BY <1>1 DEF MuxTypeInv, SubSteps, Stays

LEMMA RouteSteps ==
    ASSUME MuxInv, NEW c \in Channels, Route(c)
    PROVE  SubSteps
<1>. DEFINE s == subs[c]
<1>0. /\ MuxTypeInv /\ count' = count + 1 /\ got' = got /\ count + 1 \in Nat
      /\ count + 1 \in Numbers
  BY DEF MuxInv, MuxTypeInv, Route, Numbers
<1>1. CASE s = 0 \/ s \notin active
  <2>1. UNCHANGED <<queue, routed>>
    BY <1>1 DEF Route
  <2>. QED
    BY <1>0, <2>1 DEF MuxTypeInv, SubSteps, Stays
<1>2. CASE ~(s = 0 \/ s \notin active)
  <2>1. Deliver(s) /\ routed' = [routed EXCEPT ![s] = Append(@, count + 1)]
    BY <1>2 DEF Route
  <2>. HIDE DEF s
  <2>2. \A t \in Subs : t # s => queue'[t] = queue[t] /\ routed'[t] = routed[t]
    BY <1>0, <2>1 DEF Deliver, MuxTypeInv
  <2>3. s \in Subs => Delivered(s)
    BY <1>0, <2>1 DEF Deliver, Delivered, MuxTypeInv
  <2>4. \A t \in Subs : Stays(t) \/ Delivered(t)
    BY <1>0, <2>2, <2>3 DEF Stays
  <2>5. routed' \in [Subs -> Seq(Numbers)]
    <3>1. s \in Subs => Append(routed[s], count + 1) \in Seq(Numbers)
      BY <1>0, AppendProperties DEF MuxTypeInv
    <3>. QED
      BY <1>0, <2>1, <3>1 DEF MuxTypeInv
  <2>6. queue' \in [Subs -> Seq(Nat)]
    <3>1. s \in Subs => /\ Append(queue[s], count + 1) \in Seq(Nat)
                        /\ Len(queue[s]) < QueueSize
                              \/ Append(Tail(queue[s]), count + 1) \in Seq(Nat)
      <4>. SUFFICES ASSUME s \in Subs
                    PROVE  /\ Append(queue[s], count + 1) \in Seq(Nat)
                           /\ Len(queue[s]) < QueueSize
                                 \/ Append(Tail(queue[s]), count + 1) \in Seq(Nat)
        OBVIOUS
      <4>1. queue[s] \in Seq(Nat) /\ count + 1 \in Nat
        BY <1>0 DEF MuxTypeInv
      <4>2. CASE queue[s] = <<>>
        BY <4>1, <4>2, QueueSizeAssumption
      <4>3. CASE queue[s] # <<>>
        BY <4>1, <4>3
      <4>. QED
        BY <4>2, <4>3
    <3>. QED
      BY <1>0, <2>1, <3>1 DEF Deliver, MuxTypeInv
  <2>. QED
    BY <1>0, <2>4, <2>5, <2>6 DEF SubSteps, MuxTypeInv
<1>. QED
  BY <1>1, <1>2

LEMMA TakeSteps ==
    ASSUME MuxInv, NEW s \in Subs, queue[s] # <<>>, Take(s)
    PROVE  SubSteps
<1>0. MuxTypeInv /\ UNCHANGED <<routed, count>>
  BY DEF MuxInv, Take, histVars
<1>1. /\ queue[s] \in Seq(Nat) /\ Tail(queue[s]) \in Seq(Nat) /\ Head(queue[s]) \in Nat
      /\ Head(queue[s]) # 0 => Head(queue[s]) \in Numbers
  BY <1>0 DEF MuxTypeInv, Numbers
<1>2. queue' \in [Subs -> Seq(Nat)]
  BY <1>0, <1>1 DEF Take, MuxTypeInv
<1>3. got' \in [Subs -> Seq(Numbers)]
  <2>1. Head(queue[s]) # 0 => Append(got[s], Head(queue[s])) \in Seq(Numbers)
    BY <1>0, <1>1, AppendProperties DEF MuxTypeInv
  <2>. QED
    BY <1>0, <2>1 DEF Take, MuxTypeInv
<1>4. \A t \in Subs : t # s => Stays(t)
  BY <1>0 DEF Take, MuxTypeInv, Stays
<1>5. Taken(s)
  BY <1>0 DEF Take, MuxTypeInv, Taken
<1>. QED
  BY <1>0, <1>2, <1>3, <1>4, <1>5 DEF SubSteps, MuxTypeInv

LEMMA MuxSteps ==
    ASSUME MuxInv, [MuxNext]_vars
    PROVE  SubSteps
<1>. USE DEF flowVars
<1>1. CASE \/ MuxConnect \/ ConnectReturns \/ ConnectRaises \/ ManagerMoves \/ RouterEnds
           \/ RouterStopped \/ ManagerClosed \/ UNCHANGED vars
  <2>1. UNCHANGED <<queue, got, histVars>>
    BY <1>1 DEF MuxConnect, ConnectReturns, ConnectRaises, ManagerMoves, RouterEnds,
       RouterStopped, ManagerClosed, vars
  <2>. QED
    BY <2>1, StillSteps
<1>2. CASE MuxClose
  BY <1>2, MarkSteps DEF MuxClose
<1>3. ASSUME NEW c \in Channels, Subscribe(c)
      PROVE  SubSteps
  BY <1>3, StillSteps DEF Subscribe
<1>4. ASSUME NEW c \in Channels, Unsubscribe(c)
      PROVE  SubSteps
  BY <1>4, MarkSteps DEF Unsubscribe
<1>5. ASSUME NEW c \in Channels, Route(c)
      PROVE  SubSteps
  BY <1>5, RouteSteps
<1>6. ASSUME NEW s \in Subs, SubscriptionClose(s)
      PROVE  SubSteps
  BY <1>6, MarkSteps DEF SubscriptionClose
<1>7. ASSUME NEW s \in Subs, SubRecv(s)
      PROVE  SubSteps
  BY <1>7, TakeSteps, StillSteps DEF SubRecv
<1>8. ASSUME NEW s \in Subs, SubRecvResumes(s)
      PROVE  SubSteps
  BY <1>8, TakeSteps DEF SubRecvResumes
<1>9. ASSUME NEW s \in Subs, SubRecvGivesUp(s)
      PROVE  SubSteps
  BY <1>9, StillSteps DEF SubRecvGivesUp
<1>10. CASE RouterRaises
  BY <1>10, RaiseSteps
<1>. QED
  BY <1>1, <1>2, <1>3, <1>4, <1>5, <1>6, <1>7, <1>8, <1>9, <1>10 DEF MuxNext

LEMMA MuxInvHolds == MuxSpec => []MuxInv
<1>1. MuxInit => MuxInv
  <2>. SUFFICES ASSUME MuxInit
                PROVE  MuxInv
    OBVIOUS
  <2>1. MuxTypeInv /\ \A s \in Subs : Len(queue[s]) <= QueueSize
    BY QueueSizeAssumption DEF MuxInit, MuxTypeInv
  <2>2. \A s \in Subs : Queued(s) = <<>> /\ got[s] = <<>> /\ routed[s] = <<>>
    BY FilterEmpty DEF MuxInit, Queued
  <2>3. Flow(<<>>, <<>>, <<>>, 0)
    BY DEF Flow, Increasing, Before, UpTo, IsNewest
  <2>. QED
    BY <2>1, <2>2, <2>3 DEF MuxInit, MuxInv
<1>2. MuxInv /\ [MuxNext]_vars => MuxInv'
  BY MuxSteps, SubStepsKeep
<1>. QED
  BY <1>1, <1>2, PTL DEF MuxSpec

\* Whatever is subscribed, unsubscribed and closed meanwhile, the queue of each
\* subscription holds the newest of the messages routed to it, in order, and its
\* consumer got earlier ones, in order and none twice: a full queue costs the
\* oldest message, and the marker of unsubscribe() and close() costs none.
THEOREM NewestTheorem == MuxSpec => []QueueHoldsNewest
<1>1. MuxInv => QueueHoldsNewest
  <2>. SUFFICES ASSUME MuxInv, NEW s \in Subs
                PROVE  LET q == Filter(queue[s], Nat \ {0})
                           all == got[s] \o q
                       IN  /\ \A i, j \in DOMAIN all : i < j => all[i] < all[j]
                           /\ Len(q) <= Len(routed[s])
                           /\ q = SubSeq(routed[s], Len(routed[s]) - Len(q) + 1,
                                         Len(routed[s]))
    BY DEF QueueHoldsNewest
  <2>1. count \in Nat /\ Flow(Filter(queue[s], Nat \ {0}), got[s], routed[s], count)
    BY DEF MuxInv, MuxTypeInv, Queued, Numbers
  <2>. QED
    BY <2>1, FlowShows
<1>. QED
  BY <1>1, MuxInvHolds, PTL

\* No queue of a subscription ever holds more than queue_size entries, markers
\* included.
QueuesBounded == \A s \in Subs : Len(queue[s]) <= QueueSize

\* The router and the marker respect queue_size in every reachable state.
THEOREM BoundedTheorem == MuxSpec => []QueuesBounded
<1>1. MuxInv => QueuesBounded
  BY DEF MuxInv, QueuesBounded
<1>. QED
  BY <1>1, MuxInvHolds, PTL
=============================================================================
