-------------------------- MODULE TransportProofs ---------------------------
(***************************************************************************)
(* Proofs about the asynchronous transport: data frames reach recv() in    *)
(* the order sent, none missing while the connection is left alone, and    *)
(* one close frame is written at most, for any number of frames, senders   *)
(* and addresses.                                                          *)
(***************************************************************************)
EXTENDS Transport, FilterTheorems

Ops == {"response", "refusal", "data", "ping", "pong", "close", "bad"}
Frame == Ops \X Nat
DataSet == {"data"} \X Nat
-----------------------------------------------------------------------------
(***************************************************************************)
(* The numbers of the data frames in a sequence of frames.                 *)
(***************************************************************************)
LEMMA NumbersType ==
    ASSUME NEW s \in Seq(Frame)
    PROVE  /\ Numbers(s) \in Seq(Nat)
           /\ Len(Numbers(s)) = Len(s)
           /\ \A i \in 1 .. Len(s) : Numbers(s)[i] = s[i][2]
<1>1. Len(s) \in Nat /\ DOMAIN s = 1 .. Len(s) /\ \A i \in 1 .. Len(s) : s[i] \in Frame
  OBVIOUS
<1>2. \A i \in 1 .. Len(s) : s[i][2] \in Nat
  BY <1>1 DEF Frame
<1>3. Numbers(s) = [i \in 1 .. Len(s) |-> s[i][2]]
  BY <1>1, Zenon DEF Numbers
<1>4. Numbers(s) \in [1 .. Len(s) -> Nat]
  BY <1>2, <1>3
<1>5. Numbers(s) \in Seq(Nat) /\ Len(Numbers(s)) = Len(s)
  BY <1>1, <1>4
<1>6. \A i \in 1 .. Len(s) : Numbers(s)[i] = s[i][2]
  BY <1>3
<1>. QED
  BY <1>5, <1>6

LEMMA ConcatParts ==
    ASSUME NEW X, NEW u \in Seq(X), NEW v \in Seq(X)
    PROVE  /\ u \o v \in Seq(X) /\ Len(u \o v) = Len(u) + Len(v)
           /\ Len(u) \in Nat /\ Len(v) \in Nat
           /\ \A i \in 1 .. Len(u) : (u \o v)[i] = u[i]
           /\ \A i \in 1 .. Len(v) : (u \o v)[Len(u) + i] = v[i]
OBVIOUS

LEMMA NumbersConcat ==
    ASSUME NEW a \in Seq(Frame), NEW b \in Seq(Frame)
    PROVE  Numbers(a \o b) = Numbers(a) \o Numbers(b)
<1>. DEFINE na == Numbers(a)
            nb == Numbers(b)
            c == a \o b
            nc == Numbers(c)
<1>1. /\ c \in Seq(Frame) /\ Len(c) = Len(a) + Len(b) /\ Len(a) \in Nat /\ Len(b) \in Nat
      /\ \A i \in 1 .. Len(a) : c[i] = a[i]
      /\ \A i \in 1 .. Len(b) : c[Len(a) + i] = b[i]
  BY ConcatParts
<1>. HIDE DEF c
<1>2. /\ na \in Seq(Nat) /\ Len(na) = Len(a) /\ \A i \in 1 .. Len(a) : na[i] = a[i][2]
      /\ nb \in Seq(Nat) /\ Len(nb) = Len(b) /\ \A i \in 1 .. Len(b) : nb[i] = b[i][2]
      /\ nc \in Seq(Nat) /\ Len(nc) = Len(c) /\ \A i \in 1 .. Len(c) : nc[i] = c[i][2]
  BY <1>1, NumbersType
<1>. HIDE DEF na, nb, nc
<1>. DEFINE d == na \o nb
<1>3. /\ d \in Seq(Nat) /\ Len(d) = Len(na) + Len(nb)
      /\ \A i \in 1 .. Len(na) : d[i] = na[i]
      /\ \A i \in 1 .. Len(nb) : d[Len(na) + i] = nb[i]
  <2>1. \A u, v \in Seq(Nat) : /\ u \o v \in Seq(Nat) /\ Len(u \o v) = Len(u) + Len(v)
                               /\ \A i \in 1 .. Len(u) : (u \o v)[i] = u[i]
                               /\ \A i \in 1 .. Len(v) : (u \o v)[Len(u) + i] = v[i]
    BY ConcatParts
  <2>. QED
    BY <1>2, <2>1, Zenon
<1>. HIDE DEF d
<1>4. ASSUME NEW i \in 1 .. Len(a)
      PROVE  nc[i] = d[i]
  <2>1. i \in 1 .. Len(c) /\ i \in 1 .. Len(na)
    BY <1>1, <1>2
  <2>2. nc[i] = c[i][2]
    BY <1>2, <2>1, Zenon
  <2>3. c[i] = a[i]
    BY <1>1, Zenon
  <2>4. d[i] = na[i] /\ na[i] = a[i][2]
    BY <1>2, <1>3, <2>1, Zenon
  <2>. QED
    BY <2>2, <2>3, <2>4, Zenon
<1>5. ASSUME NEW i \in 1 .. Len(b)
      PROVE  nc[Len(a) + i] = d[Len(a) + i]
  <2>1. Len(a) + i \in 1 .. Len(c) /\ i \in 1 .. Len(nb)
    BY <1>1, <1>2
  <2>2. nc[Len(a) + i] = c[Len(a) + i][2]
    BY <1>2, <2>1, Zenon
  <2>3. c[Len(a) + i] = b[i]
    BY <1>1, Zenon
  <2>4. d[Len(na) + i] = nb[i] /\ nb[i] = b[i][2] /\ Len(na) = Len(a)
    BY <1>2, <1>3, <2>1, Zenon
  <2>. QED
    BY <2>2, <2>3, <2>4, Zenon
<1>6. ASSUME NEW i \in 1 .. Len(c)
      PROVE  nc[i] = d[i]
  <2>1. CASE i <= Len(a)
    BY <1>1, <1>4, <2>1
  <2>2. CASE ~(i <= Len(a))
    <3>1. i - Len(a) \in 1 .. Len(b) /\ i = Len(a) + (i - Len(a))
      BY <1>1, <2>2
    <3>. QED
      BY <1>5, <3>1
  <2>. QED
    BY <2>1, <2>2
<1>7. nc = d
  BY <1>1, <1>2, <1>3, <1>6, SeqEqual
<1>. QED
  BY <1>7, Zenon DEF na, nb, nc, c, d

LEMMA DataType ==
    ASSUME NEW s \in Seq(Frame)
    PROVE  Filter(s, DataSet) \in Seq(Frame) /\ Data(s) \in Seq(Nat)
<1>1. Filter(s, DataSet) \in Seq(Frame \cap DataSet)
  BY FilterType
<1>2. Filter(s, DataSet) \in Seq(Frame)
  BY <1>1
<1>3. \A u \in Seq(Frame) : Numbers(u) \in Seq(Nat)
  BY NumbersType
<1>. QED
  BY <1>2, <1>3, Zenon DEF Data, DataSet

LEMMA DataConcat ==
    ASSUME NEW s \in Seq(Frame), NEW t \in Seq(Frame)
    PROVE  Data(s \o t) = Data(s) \o Data(t)
<1>1. Filter(s, DataSet) \in Seq(Frame) /\ Filter(t, DataSet) \in Seq(Frame)
  BY DataType
<1>2. Filter(s \o t, DataSet) = Filter(s, DataSet) \o Filter(t, DataSet)
  BY FilterConcat
<1>3. \A a, b \in Seq(Frame) : Numbers(a \o b) = Numbers(a) \o Numbers(b)
  BY NumbersConcat
<1>. QED
  BY <1>1, <1>2, <1>3, Zenon DEF Data, DataSet

LEMMA DataEmpty == Data(<<>>) = <<>>
<1>1. Numbers(<<>>) = <<>>
  BY DEF Numbers
<1>. QED
  BY <1>1, FilterEmpty, Zenon DEF Data

LEMMA DataOne ==
    ASSUME NEW f \in Frame
    PROVE  Data(<<f>>) = IF f[1] = "data" THEN <<f[2]>> ELSE <<>>
<1>1. Filter(<<f>>, DataSet) = IF f \in DataSet THEN <<f>> ELSE <<>>
  BY FilterOne
<1>2. f \in DataSet <=> f[1] = "data"
  BY DEF Frame, Ops, DataSet
<1>3. Numbers(<<f>>) = <<f[2]>> /\ Numbers(<<>>) = <<>>
  BY DEF Numbers
<1>. QED
  BY <1>1, <1>2, <1>3 DEF Data, DataSet

LEMMA DataNone ==
    ASSUME NEW s \in Seq(Frame), \A i \in 1 .. Len(s) : s[i][1] # "data"
    PROVE  Data(s) = <<>>
<1>1. \A i \in 1 .. Len(s) : s[i] \notin DataSet
  BY DEF Frame, DataSet
<1>2. Filter(s, DataSet) = <<>>
  BY <1>1, FilterNone
<1>3. Numbers(<<>>) = <<>>
  BY DEF Numbers
<1>. QED
  BY <1>2, <1>3 DEF Data, DataSet

\* data_received() keeps every data frame of a chunk that is not rejected.
LEMMA DataFramesKeepData ==
    ASSUME NEW s \in Seq(Frame)
    PROVE  /\ DataFrames(s) \in Seq(Frame)
           /\ Data(DataFrames(s)) = Data(s)
           /\ \A i \in 1 .. Len(DataFrames(s)) : DataFrames(s)[i][1] \in {"data", "pong", "close"}
<1>. DEFINE K == {"data", "pong", "close"} \X Nat
<1>1. DataFrames(s) \in Seq(Frame \cap K)
  BY FilterType DEF DataFrames
<1>2. DataFrames(s) \in Seq(Frame)
  BY <1>1
<1>3. \A i \in 1 .. Len(DataFrames(s)) : DataFrames(s)[i][1] \in {"data", "pong", "close"}
  BY <1>1
<1>4. DataSet \in SUBSET K
  BY DEF DataSet
<1>5. Filter(DataFrames(s), DataSet) = Filter(s, DataSet)
  BY <1>4, FilterTwice DEF DataFrames
<1>. QED
  BY <1>2, <1>3, <1>5 DEF Data, DataSet
-----------------------------------------------------------------------------
(***************************************************************************)
(* Sequences of numbers in increasing order.                               *)
(***************************************************************************)
Ordered(s, n) == /\ \A i, j \in 1 .. Len(s) : i < j => s[i] < s[j]
                 /\ \A i \in 1 .. Len(s) : s[i] <= n

LEMMA Assoc ==
    \A a, b, c \in Seq(Nat) : (a \o b) \o c = a \o (b \o c)
BY ConcatAssociative, SMTT(40)

LEMMA Closed ==
    \A a, b \in Seq(Nat) : a \o b \in Seq(Nat)
OBVIOUS

LEMMA AssocFour ==
    ASSUME NEW a \in Seq(Nat), NEW b \in Seq(Nat), NEW c \in Seq(Nat), NEW d \in Seq(Nat)
    PROVE  ((a \o b) \o c) \o d = a \o (b \o (c \o d))
<1>. DEFINE ab == a \o b
            cd == c \o d
<1>1. ab \in Seq(Nat)
  BY Closed, Zenon
<1>2. cd \in Seq(Nat)
  BY Closed, Zenon
<1>3. a \o (b \o cd) = ab \o cd
  <2>. HIDE DEF cd
  <2>. QED
    BY <1>2, Assoc, ZenonT(60)
<1>4. (ab \o c) \o d = ab \o cd
  <2>. HIDE DEF ab
  <2>. QED
    BY <1>1, Assoc, Zenon
<1>. QED
  BY <1>3, <1>4, Zenon

LEMMA AssocEnd ==
    ASSUME NEW a \in Seq(Nat), NEW b \in Seq(Nat), NEW c \in Seq(Nat), NEW d \in Seq(Nat),
           NEW y \in Seq(Nat)
    PROVE  a \o (b \o (c \o (d \o y))) = (a \o (b \o (c \o d))) \o y
<1>. DEFINE cd == c \o d
            bcd == b \o cd
<1>1. c \o (d \o y) = cd \o y
  BY Assoc, SMTT(40)
<1>2. cd \in Seq(Nat)
  BY Closed, Zenon
<1>. HIDE DEF cd
<1>3. b \o (cd \o y) = bcd \o y
  <2>1. \A q \in Seq(Nat) : b \o (q \o y) = (b \o q) \o y
    BY Assoc, ZenonT(60)
  <2>. QED
    BY <1>2, <2>1, Zenon
<1>4. bcd \in Seq(Nat)
  BY <1>2, Closed, Zenon
<1>. HIDE DEF bcd
<1>5. a \o (bcd \o y) = (a \o bcd) \o y
  <2>1. \A q \in Seq(Nat) : a \o (q \o y) = (a \o q) \o y
    BY Assoc, ZenonT(60)
  <2>. QED
    BY <1>4, <2>1, Zenon
<1>. QED
  BY <1>1, <1>3, <1>5, Zenon DEF cd, bcd

LEMMA Algebra ==
    /\ <<>> \in Seq(Nat)
    /\ \A a, b \in Seq(Nat) : a \o b \in Seq(Nat)
    /\ \A a, b, c \in Seq(Nat) : (a \o b) \o c = a \o (b \o c)
    /\ \A a \in Seq(Nat) : <<>> \o a = a /\ a \o <<>> = a
    /\ \A a \in Seq(Nat), x \in Nat : Append(a, x) = a \o <<x>> /\ <<x>> \in Seq(Nat)
<1>1. \A a, b, c \in Seq(Nat) : (a \o b) \o c = a \o (b \o c)
  BY ConcatAssociative, SMTT(40)
<1>2. \A a \in Seq(Nat) : <<>> \o a = a /\ a \o <<>> = a
  BY ConcatEmptySeq
<1>3. \A a \in Seq(Nat), x \in Nat : Append(a, x) = a \o <<x>> /\ <<x>> \in Seq(Nat)
  BY AppendIsConcat
<1>. QED
  BY <1>1, <1>2, <1>3, SMTT(40)

\* What is left of an ordered sequence when a part is cut out is ordered.
LEMMA OrderedCut ==
    ASSUME NEW a \in Seq(Nat), NEW b \in Seq(Nat), NEW c \in Seq(Nat), NEW n \in Nat,
           Ordered(a \o (b \o c), n)
    PROVE  Ordered(a \o c, n)
<1>. DEFINE s == a \o (b \o c)
            t == a \o c
            m(i) == IF i <= Len(a) THEN i ELSE i + Len(b)
<1>1. /\ Len(a) \in Nat /\ Len(b) \in Nat /\ Len(c) \in Nat
      /\ Len(s) = Len(a) + Len(b) + Len(c) /\ Len(t) = Len(a) + Len(c)
  OBVIOUS
<1>2. \A i \in 1 .. Len(t) : m(i) \in 1 .. Len(s) /\ t[i] = s[m(i)]
  BY SMTT(40)
<1>3. \A i, j \in 1 .. Len(t) : i < j => m(i) < m(j)
  BY <1>1
<1>4. /\ \A i, j \in 1 .. Len(s) : i < j => s[i] < s[j]
      /\ \A i \in 1 .. Len(s) : s[i] <= n
  BY DEF Ordered
<1>. HIDE DEF s, t, m
<1>5. \A i, j \in 1 .. Len(t) : i < j => t[i] < t[j]
  BY <1>2, <1>3, <1>4
<1>6. \A i \in 1 .. Len(t) : t[i] <= n
  BY <1>2, <1>4
<1>7. Ordered(t, n)
  BY <1>5, <1>6 DEF Ordered
<1>. QED
  BY <1>7 DEF t

LEMMA OrderedAppend ==
    ASSUME NEW s \in Seq(Nat), NEW n \in Nat, Ordered(s, n)
    PROVE  Ordered(Append(s, n + 1), n + 1)
BY DEF Ordered

LEMMA OrderedFront ==
    ASSUME NEW a \in Seq(Nat), NEW b \in Seq(Nat), NEW n \in Nat, Ordered(a \o b, n)
    PROVE  Ordered(a, n)
<1>1. <<>> \in Seq(Nat) /\ b \o <<>> = b /\ a \o <<>> = a
  BY Algebra, Zenon
<1>2. \A x, y, z \in Seq(Nat) : Ordered(x \o (y \o z), n) => Ordered(x \o z, n)
  BY OrderedCut
<1>3. Ordered(a \o (b \o <<>>), n) => Ordered(a \o <<>>, n)
  BY <1>1, <1>2, Zenon
<1>. QED
  BY <1>1, <1>3, Zenon

LEMMA UpToNext ==
    ASSUME NEW n \in Nat
    PROVE  Append([i \in 1 .. n |-> i], n + 1) = [i \in 1 .. n + 1 |-> i]
OBVIOUS
-----------------------------------------------------------------------------
(***************************************************************************)
(* The inductive invariant: the numbers of the data frames given to recv() *)
(* and under way, in the order in which they will be given, increase; as   *)
(* long as nothing disturbs the connection, no number is missing.          *)
(***************************************************************************)
FlowTypes == /\ got \in Seq(Nat) /\ sent \in Nat
             /\ net \in Seq(Frame) /\ hsbuf \in Seq(Frame) /\ frames \in Seq(Frame)
             /\ \A i \in 1 .. Len(frames) : frames[i][1] \in {"data", "pong", "close"}

Phases == /\ cpc \in Dialling \cup {"new", "open", "failed", "cancelled"}
          /\ cpc \in {"new", "dns", "tcp"} => sock = "none"
          /\ cpc \in {"made", "hs", "answered", "hslost", "open"} => sock # "none"
          /\ cpc # "open" => frames = <<>>
          /\ cpc = "open" => hsbuf = <<>>
          /\ cpc = "answered" => hsbuf # <<>>
          /\ sock \in {"none", "open", "closing", "gone"}
          /\ sock = "gone" => lost
          /\ kpc \in {"wait", "woken"} => closing

All == got \o (Data(frames) \o (Data(hsbuf) \o Data(net)))
Undisturbed == /\ cpc \in Dialling \cup {"new", "open"}
               /\ ~closing /\ sock # "closing" /\ ~lost
Complete == Undisturbed => All = [i \in 1 .. sent |-> i]
FlowInv == Ordered(All, sent) /\ Complete

LEMMA PartsAreSequences ==
    ASSUME FlowTypes
    PROVE  /\ got \in Seq(Nat)
           /\ Data(frames) \in Seq(Nat) /\ Data(hsbuf) \in Seq(Nat) /\ Data(net) \in Seq(Nat)
           /\ All \in Seq(Nat)
<1>1. /\ got \in Seq(Nat)
      /\ Data(frames) \in Seq(Nat) /\ Data(hsbuf) \in Seq(Nat) /\ Data(net) \in Seq(Nat)
  BY DataType DEF FlowTypes
<1>. QED
  BY <1>1, Algebra, Zenon DEF All

\* What a step does to the data frames under way: nothing but move them, cut
\* some out of a connection that is disturbed, or add the next.
Kept == All' = All /\ sent' = sent /\ (Undisturbed' => Undisturbed)
Cut == /\ \E a, b, c \in Seq(Nat) : All = a \o (b \o c) /\ All' = a \o c
       /\ sent' = sent /\ ~Undisturbed'
Added == /\ All' = Append(All, sent + 1) /\ sent' = sent + 1
         /\ Undisturbed' => Undisturbed

LEMMA FlowStep ==
    ASSUME FlowTypes, FlowInv, Kept \/ Cut \/ Added
    PROVE  FlowInv'
<1>0. All \in Seq(Nat) /\ sent \in Nat /\ Ordered(All, sent)
  BY PartsAreSequences DEF FlowTypes, FlowInv
<1>1. CASE Kept
  <2>1. Ordered(All', sent')
    BY <1>0, <1>1 DEF Kept
  <2>2. Complete'
    BY <1>1, Zenon DEF FlowInv, Complete, Kept
  <2>. QED
    BY <2>1, <2>2 DEF FlowInv
<1>2. CASE Cut
  <2>1. PICK a \in Seq(Nat), b \in Seq(Nat), c \in Seq(Nat) :
            All = a \o (b \o c) /\ All' = a \o c
    BY <1>2, Zenon DEF Cut
  <2>2. Ordered(a \o (b \o c), sent)
    BY <1>0, <2>1, Zenon
  <2>3. Ordered(a \o c, sent)
    BY <1>0, <2>2, OrderedCut
  <2>4. sent' = sent /\ ~Undisturbed'
    BY <1>2, Zenon DEF Cut
  <2>5. Ordered(All', sent')
    BY <2>1, <2>3, <2>4, Zenon
  <2>. QED
    BY <2>4, <2>5, Zenon DEF FlowInv, Complete
<1>3. CASE Added
  <2>1. Ordered(Append(All, sent + 1), sent + 1)
    BY <1>0, OrderedAppend
  <2>2. Ordered(All', sent')
    BY <1>3, <2>1, Zenon DEF Added
  <2>3. ASSUME Undisturbed'
        PROVE  All' = [i \in 1 .. sent' |-> i]
    <3>1. All = [i \in 1 .. sent |-> i]
      BY <1>3, <2>3, Zenon DEF Added, FlowInv, Complete
    <3>2. Append([i \in 1 .. sent |-> i], sent + 1) = [i \in 1 .. sent + 1 |-> i]
      BY <1>0, UpToNext
    <3>. QED
      BY <1>3, <3>1, <3>2, Zenon DEF Added
  <2>. QED
    BY <2>2, <2>3, Zenon DEF FlowInv, Complete
<1>. QED
  BY <1>1, <1>2, <1>3
-----------------------------------------------------------------------------
(***************************************************************************)
(* The frame that recv() or close() acts on.                               *)
(***************************************************************************)
LEMMA LeastIsMin ==
    ASSUME NEW S \in SUBSET Nat, S # {}
    PROVE  Min(S) \in S /\ \A x \in S : Min(S) <= x
BY LeastNumber DEF Min

LEMMA FirstIs ==
    ASSUME FlowTypes
    PROVE  /\ First \in 0 .. Len(frames)
           /\ First = 0 => \A i \in 1 .. Len(frames) : frames[i][1] = "pong"
           /\ First # 0 => /\ frames[First][1] # "pong"
                           /\ \A i \in 1 .. First - 1 : frames[i][1] = "pong"
<1>. DEFINE I == {i \in 1 .. Len(frames) : frames[i][1] # "pong"}
<1>1. First = IF I # {} THEN Min(I) ELSE 0
  BY Zenon DEF First, SelectInSeq
<1>2. Len(frames) \in Nat
  BY DEF FlowTypes
<1>3. CASE I = {}
  BY <1>1, <1>2, <1>3
<1>4. CASE I # {}
  <2>1. I \in SUBSET Nat
    BY <1>2
  <2>2. First \in I /\ \A x \in I : First <= x
    <3>. HIDE DEF I
    <3>. QED
      BY <1>1, <1>4, <2>1, LeastIsMin
  <2>. QED
    BY <1>2, <2>2
<1>. QED
  BY <1>3, <1>4

CloseAt == SelectInSeq(frames, LAMBDA f : f[1] = "close")

LEMMA CloseAtIs ==
    ASSUME FlowTypes
    PROVE  CloseAt \in 0 .. Len(frames)
<1>. DEFINE I == {i \in 1 .. Len(frames) : frames[i][1] = "close"}
<1>1. CloseAt = IF I # {} THEN Min(I) ELSE 0
  BY Zenon DEF CloseAt, SelectInSeq
<1>2. Len(frames) \in Nat
  BY DEF FlowTypes
<1>3. CASE I = {}
  BY <1>1, <1>2, <1>3
<1>4. CASE I # {}
  <2>1. I \in SUBSET Nat
    BY <1>2
  <2>2. CloseAt \in I
    <3>. HIDE DEF I
    <3>. QED
      BY <1>1, <1>4, <2>1, LeastIsMin
  <2>. QED
    BY <1>2, <2>2
<1>. QED
  BY <1>3, <1>4

\* Rest(n) is what is left of the list once n frames are taken.
Rest(n) == SubSeq(frames, n + 1, Len(frames))

LEMMA RestIs ==
    ASSUME FlowTypes, NEW n \in 0 .. Len(frames)
    PROVE  /\ SubSeq(frames, 1, n) \in Seq(Frame) /\ Rest(n) \in Seq(Frame)
           /\ Data(frames) = Data(SubSeq(frames, 1, n)) \o Data(Rest(n))
           /\ \A i \in 1 .. Len(Rest(n)) : Rest(n)[i][1] \in {"data", "pong", "close"}
<1>1. SubSeq(frames, 1, n) \in Seq(Frame) /\ Rest(n) \in Seq(Frame)
  BY FilterSplit DEF FlowTypes, Rest
<1>2. frames = SubSeq(frames, 1, n) \o Rest(n)
  <2>1. frames \in Seq(Frame) /\ Len(frames) \in Nat
    BY DEF FlowTypes
  <2>2. /\ 1 \in 1 .. Len(frames) + 1 /\ n \in 1 - 1 .. Len(frames)
        /\ Len(frames) \in n .. Len(frames)
    BY <2>1
  <2>3. SubSeq(frames, 1, n) \o SubSeq(frames, n + 1, Len(frames)) = SubSeq(frames, 1, Len(frames))
    BY <2>1, <2>2, ConcatAdjacentSubSeq, Zenon
  <2>4. SubSeq(frames, 1, Len(frames)) = frames
    BY <2>1, SubSeqFull
  <2>. QED
    BY <2>3, <2>4, Zenon DEF Rest
<1>3. \A a, b \in Seq(Frame) : Data(a \o b) = Data(a) \o Data(b)
  BY DataConcat
<1>4. Data(SubSeq(frames, 1, n) \o Rest(n)) = Data(SubSeq(frames, 1, n)) \o Data(Rest(n))
  BY <1>1, <1>3, Zenon
<1>5. \A i \in 1 .. Len(Rest(n)) : Rest(n)[i][1] \in {"data", "pong", "close"}
  <2>1. Len(Rest(n)) = Len(frames) - n /\ Len(frames) \in Nat
    BY SubSeqProperties DEF Rest, FlowTypes
  <2>2. \A i \in 1 .. Len(frames) - n : Rest(n)[i] = frames[n + i]
    BY DEF Rest, FlowTypes
  <2>3. \A i \in 1 .. Len(frames) - n : n + i \in 1 .. Len(frames)
    BY <2>1
  <2>. QED
    BY <2>1, <2>2, <2>3, Zenon DEF FlowTypes
<1>. QED
  BY <1>1, <1>2, <1>4, <1>5, Zenon

\* The data frames behind the one that recv() takes.
LEMMA FirstTaken ==
    ASSUME FlowTypes, First # 0
    PROVE  /\ frames[First] \in Frame /\ frames[First][1] \in {"data", "close"}
           /\ frames[First][1] = "close" => Data(frames) = Data(Rest(First))
           /\ frames[First][1] # "close" => Data(frames) = <<frames[First][2]>> \o Data(Rest(First))
<1>1. First \in 1 .. Len(frames) /\ First - 1 \in 0 .. Len(frames) /\ Len(frames) \in Nat
  BY FirstIs DEF FlowTypes
<1>2. frames[First] \in Frame /\ frames[First][1] \in {"data", "close"}
  BY <1>1, FirstIs DEF FlowTypes
<1>. DEFINE p == SubSeq(frames, 1, First - 1)
            q == SubSeq(frames, 1, First)
            f == frames[First]
<1>3. q = Append(p, f) /\ p \in Seq(Frame) /\ q \in Seq(Frame)
  BY <1>1 DEF FlowTypes
<1>4. \A i \in 1 .. Len(p) : p[i][1] = "pong"
  <2>1. Len(p) = First - 1 /\ \A i \in 1 .. First - 1 : p[i] = frames[i]
    BY <1>1 DEF FlowTypes
  <2>. QED
    BY <2>1, FirstIs, Zenon
<1>. HIDE DEF p, q, f
<1>5. Data(p) = <<>>
  <2>1. \A i \in 1 .. Len(p) : p[i][1] # "data"
    BY <1>4
  <2>. QED
    BY <1>3, <2>1, DataNone
<1>6. f \in Frame /\ <<f>> \in Seq(Frame) /\ q = p \o <<f>>
  BY <1>2, <1>3 DEF f
<1>7. Data(q) = Data(p) \o Data(<<f>>)
  <2>1. \A a, b \in Seq(Frame) : Data(a \o b) = Data(a) \o Data(b)
    BY DataConcat
  <2>. QED
    BY <1>3, <1>6, <2>1, Zenon
<1>8. Data(<<f>>) \in Seq(Nat) /\ Data(<<f>>) = IF f[1] = "data" THEN <<f[2]>> ELSE <<>>
  BY <1>6, DataType, DataOne
<1>9. Data(q) = IF f[1] = "data" THEN <<f[2]>> ELSE <<>>
  BY <1>5, <1>7, <1>8, Algebra, Zenon
<1>10. Data(frames) = Data(q) \o Data(Rest(First)) /\ Rest(First) \in Seq(Frame)
  <2>1. First \in 0 .. Len(frames)
    BY <1>1
  <2>. QED
    BY <2>1, RestIs DEF q
<1>11. <<>> \o Data(Rest(First)) = Data(Rest(First))
  <2>1. Data(Rest(First)) \in Seq(Nat)
    BY <1>10, DataType
  <2>. QED
    BY <2>1, Algebra, Zenon
<1>12. f[1] \in {"data", "close"}
  BY <1>2 DEF f
<1>. QED
  BY <1>2, <1>9, <1>10, <1>11, <1>12 DEF f
-----------------------------------------------------------------------------
(***************************************************************************)
(* One lemma per action that touches a frame; the other actions are quiet. *)
(***************************************************************************)
FlowIInv == FlowTypes /\ Phases /\ FlowInv

Quiet == UNCHANGED <<got, frames, hsbuf, net, sent>>

LEMMA QuietFlow ==
    ASSUME FlowTypes, Quiet, Undisturbed' => Undisturbed
    PROVE  FlowTypes' /\ Kept
<1>1. FlowTypes'
  BY DEF FlowTypes, Quiet
<1>2. Kept
  BY Zenon DEF Quiet, Kept, All
<1>. QED
  BY <1>1, <1>2

\* Actions that leave the phases, the socket and the flags alone.
Still == UNCHANGED <<cpc, sock, lost, closing, kpc>>

LEMMA StillFlow ==
    ASSUME FlowTypes, Phases, Quiet, Still
    PROVE  FlowTypes' /\ Phases' /\ Kept
<1>1. Undisturbed' => Undisturbed
  BY Zenon DEF Still, Undisturbed
<1>2. Phases'
  BY Zenon DEF Phases, Still, Quiet
<1>. QED
  BY <1>1, <1>2, QuietFlow

LEMMA ConnectFlow ==
    ASSUME FlowTypes, Phases,
           Connect \/ Resolve \/ DialFails \/ ConnectionMade \/ StartHandshake \/ HandshakeFails
               \/ ConnectCancelled
    PROVE  FlowTypes' /\ Phases' /\ Kept
<1>0. Quiet /\ lost' = lost /\ closing' = closing /\ kpc' = kpc
  BY Zenon DEF Connect, Resolve, DialFails, ConnectionMade, StartHandshake, HandshakeFails,
        ConnectCancelled, Quiet, netVars, sockVars, flagVars, readVars
<1>. SUFFICES (Undisturbed' => Undisturbed) /\ Phases'
  BY <1>0, QuietFlow
<1>1. CASE Connect \/ Resolve \/ DialFails \/ StartHandshake \/ ConnectCancelled
  <2>1. sock' = sock
    BY <1>1, Zenon DEF Connect, Resolve, DialFails, StartHandshake, ConnectCancelled, sockVars
  <2>2. \/ cpc = "new" /\ cpc' = "dns"
        \/ cpc = "dns" /\ cpc' \in {"failed", "tcp"}
        \/ cpc = "tcp" /\ cpc' \in {"failed", "tcp"}
        \/ cpc = "made" /\ cpc' = "hs"
        \/ cpc \in {"dns", "tcp", "hs", "answered"} /\ cpc' = "cancelled"
    BY <1>1 DEF Connect, Resolve, DialFails, StartHandshake, ConnectCancelled
  <2>3. Undisturbed' => Undisturbed
    BY <1>0, <2>1, <2>2 DEF Undisturbed, Dialling
  <2>4. Phases'
    BY <1>0, <2>1, <2>2 DEF Phases, Quiet, Dialling
  <2>. QED
    BY <2>3, <2>4
<1>2. CASE ConnectionMade
  <2>1. cpc = "tcp" /\ cpc' = "made" /\ sock' = "open" /\ sock = "none"
    BY <1>2 DEF ConnectionMade, Phases
  <2>2. Undisturbed' => Undisturbed
    BY <1>0, <2>1 DEF Undisturbed, Dialling
  <2>3. Phases'
    BY <1>0, <2>1 DEF Phases, Quiet, Dialling
  <2>. QED
    BY <2>2, <2>3
<1>3. CASE HandshakeFails
  <2>1. cpc \in {"hs", "hslost", "answered"} /\ cpc' = "failed"
    BY <1>3 DEF HandshakeFails
  <2>2. sock' = sock \/ (sock = "open" /\ sock' = "closing")
    BY <1>3 DEF HandshakeFails, CloseTransport
  <2>3. Undisturbed' => Undisturbed
    BY <2>1 DEF Undisturbed, Dialling
  <2>4. Phases'
    BY <1>0, <2>1, <2>2 DEF Phases, Quiet, Dialling
  <2>. QED
    BY <2>3, <2>4
<1>. QED
  BY <1>1, <1>2, <1>3

LEMMA LostFlow ==
    ASSUME FlowTypes, Phases, ConnectionLost
    PROVE  FlowTypes' /\ Phases' /\ Kept
<1>1. Quiet /\ closing' = closing /\ lost' /\ sock' = "gone" /\ sock \in {"open", "closing"}
  BY Zenon DEF ConnectionLost, Quiet, netVars, flagVars
<1>2. Undisturbed' => Undisturbed
  BY <1>1, Zenon DEF Undisturbed
<1>3. cpc' = cpc \/ (cpc = "hs" /\ cpc' = "hslost")
  BY DEF ConnectionLost
<1>4. kpc' = kpc \/ (kpc = "wait" /\ kpc' = "woken")
  BY DEF ConnectionLost, Wake
<1>5. Phases'
  <2>1. /\ cpc' \in Dialling \cup {"new", "open", "failed", "cancelled"}
        /\ cpc' \in {"new", "dns", "tcp"} => sock' = "none"
        /\ cpc' \in {"made", "hs", "answered", "hslost", "open"} => sock' # "none"
        /\ cpc' # "open" => frames' = <<>>
        /\ cpc' = "open" => hsbuf' = <<>>
        /\ cpc' = "answered" => hsbuf' # <<>>
        /\ sock' \in {"none", "open", "closing", "gone"}
    BY <1>1, <1>3 DEF Phases, Quiet, Dialling
  <2>2. kpc' \in {"wait", "woken"} => closing'
    BY <1>1, <1>4 DEF Phases
  <2>. QED
    BY <1>1, <2>1, <2>2, Zenon DEF Phases
<1>. QED
  BY <1>1, <1>2, <1>5, QuietFlow

LEMMA CloseFlow ==
    ASSUME FlowTypes, Phases, Close \/ CloseTimesOut
    PROVE  FlowTypes' /\ Phases' /\ Kept
<1>0. Quiet /\ lost' = lost /\ cpc' = cpc
  BY Zenon DEF Close, CloseTimesOut, Quiet, connVars, netVars, sockVars, readVars
<1>. SUFFICES (Undisturbed' => Undisturbed) /\ Phases'
  BY <1>0, QuietFlow
<1>1. CASE Close
  <2>1. sock' = sock
    BY <1>1, Zenon DEF Close, sockVars
  <2>2. \/ kpc' = "done" /\ closing' = closing
        \/ kpc' = "wait" /\ closing'
    BY <1>1, Zenon DEF Close
  <2>3. kpc' = "done" \/ closing'
    BY <2>2, Zenon
  <2>4. ~closing' => ~closing
    BY <1>1, Zenon DEF Close
  <2>5. Undisturbed' => Undisturbed
    BY <1>0, <2>1, <2>4, Zenon DEF Undisturbed
  <2>6. kpc' \in {"wait", "woken"} => closing'
    BY <2>3
  <2>. QED
    BY <1>0, <2>1, <2>5, <2>6, Zenon DEF Phases, Quiet
<1>2. CASE CloseTimesOut
  <2>1. closing' = closing /\ kpc' = "done" /\ kpc = "wait"
    BY <1>2, Zenon DEF CloseTimesOut, CloseFinishes
  <2>2. closing
    BY <2>1 DEF Phases
  <2>3. Undisturbed' => Undisturbed
    BY <2>1, <2>2, Zenon DEF Undisturbed
  <2>4. sock' = sock \/ (sock = "open" /\ sock' = "closing")
    BY <1>2 DEF CloseTimesOut, CloseFinishes, CloseTransport
  <2>5. Phases'
    BY <1>0, <2>1, <2>4 DEF Phases, Quiet, Dialling
  <2>. QED
    BY <2>3, <2>5
<1>. QED
  BY <1>1, <1>2
LEMMA ServerFlow ==
    ASSUME FlowTypes, Phases, ServerSends
    PROVE  FlowTypes' /\ Phases' /\ (Kept \/ Added)
<1>0. UNCHANGED <<got, frames, hsbuf>> /\ Still
  BY Zenon DEF ServerSends, connVars, sockVars, flagVars, readVars, Still
<1>1. PICK op \in Ops : /\ sent' = IF op = "data" THEN sent + 1 ELSE sent
                        /\ net' = Append(net, <<op, sent'>>)
  BY DEF ServerSends, Ops
<1>2. sent \in Nat /\ sent' \in Nat /\ net \in Seq(Frame)
  BY <1>1 DEF FlowTypes
<1>. DEFINE f == <<op, sent'>>
<1>3. f \in Frame /\ f[1] = op /\ f[2] = sent' /\ <<f>> \in Seq(Frame) /\ net' = net \o <<f>>
  BY <1>1, <1>2 DEF Frame
<1>. HIDE DEF f
<1>4. FlowTypes'
  BY <1>0, <1>2, <1>3 DEF FlowTypes
<1>5. Phases'
  BY <1>0, Zenon DEF Phases, Still
<1>6. Undisturbed' => Undisturbed
  BY <1>0, Zenon DEF Still, Undisturbed
<1>7. Data(net') = Data(net) \o Data(<<f>>)
  <2>1. \A a, b \in Seq(Frame) : Data(a \o b) = Data(a) \o Data(b)
    BY DataConcat
  <2>. QED
    BY <1>2, <1>3, <2>1, Zenon
<1>8. Data(<<f>>) = IF f[1] = "data" THEN <<f[2]>> ELSE <<>>
  BY <1>3, DataOne
<1>9. CASE op # "data"
  <2>1. Data(net') = Data(net)
    BY <1>3, <1>7, <1>8, <1>9, PartsAreSequences, Algebra, Zenon
  <2>2. sent' = sent
    BY <1>1, <1>9
  <2>. QED
    BY <1>0, <1>4, <1>5, <1>6, <2>1, <2>2, Zenon DEF Kept, All
<1>10. CASE op = "data"
  <2>1. sent' = sent + 1
    BY <1>1, <1>10
  <2>2. Data(net') = Data(net) \o <<sent'>>
    BY <1>3, <1>7, <1>8, <1>10, Zenon
  <2>. DEFINE F == Data(frames)
              H == Data(hsbuf)
              N == Data(net)
              x == <<sent'>>
  <2>3. got \in Seq(Nat) /\ F \in Seq(Nat) /\ H \in Seq(Nat) /\ N \in Seq(Nat) /\ x \in Seq(Nat)
    BY <1>2, PartsAreSequences, Algebra, Zenon
  <2>4. All \in Seq(Nat) /\ All = got \o (F \o (H \o N))
    BY PartsAreSequences, Zenon DEF All
  <2>5. All' = got \o (F \o (H \o (N \o x)))
    BY <1>0, <2>2, Zenon DEF All
  <2>. HIDE DEF F, H, N, x
  <2>6. \A a, b \in Seq(Nat) : \A c, d \in Seq(Nat) : \A y \in Seq(Nat) :
            a \o (b \o (c \o (d \o y))) = (a \o (b \o (c \o d))) \o y
    BY AssocEnd
  <2>7. \A c, d \in Seq(Nat) : \A y \in Seq(Nat) :
            got \o (F \o (c \o (d \o y))) = (got \o (F \o (c \o d))) \o y
    BY <2>3, <2>6, ZenonT(60)
  <2>8. got \o (F \o (H \o (N \o x))) = (got \o (F \o (H \o N))) \o x
    BY <2>3, <2>7, ZenonT(60)
  <2>9. All' = All \o x
    BY <2>4, <2>5, <2>8, Zenon
  <2>10. Append(All, sent') = All \o <<sent'>>
    BY <1>2, <2>4, Algebra, Zenon
  <2>. QED
    BY <1>4, <1>5, <1>6, <2>1, <2>9, <2>10, Zenon DEF Added, x
<1>. QED
  BY <1>9, <1>10

LEMMA HandshakeDoneFlow ==
    ASSUME FlowTypes, Phases, HandshakeDone
    PROVE  FlowTypes' /\ Phases' /\ (Kept \/ Cut)
<1>. DEFINE chunk == Tail(hsbuf)
            H == Data(hsbuf)
            N == Data(net)
<1>0. /\ cpc = "answered" /\ cpc' = "open" /\ hsbuf' = <<>> /\ Head(hsbuf)[1] = "response"
      /\ UNCHANGED <<got, net, sent, lost, closing, kpc>>
  BY Zenon DEF HandshakeDone, netVars
<1>1. hsbuf # <<>> /\ hsbuf \in Seq(Frame) /\ frames = <<>> /\ sock # "none"
  BY <1>0 DEF Phases, FlowTypes
<1>2. /\ Head(hsbuf) \in Frame /\ <<Head(hsbuf)>> \in Seq(Frame) /\ chunk \in Seq(Frame)
      /\ hsbuf = <<Head(hsbuf)>> \o chunk
  BY <1>1
<1>3. H = Data(chunk)
  <2>1. \A a, b \in Seq(Frame) : Data(a \o b) = Data(a) \o Data(b)
    BY DataConcat
  <2>2. H = Data(<<Head(hsbuf)>>) \o Data(chunk)
    BY <1>2, <2>1, Zenon
  <2>3. Data(<<Head(hsbuf)>>) = <<>>
    BY <1>0, <1>2, DataOne
  <2>4. Data(chunk) \in Seq(Nat)
    BY <1>2, DataType
  <2>. QED
    BY <2>2, <2>3, <2>4, Algebra, Zenon
<1>4. got \in Seq(Nat) /\ H \in Seq(Nat) /\ N \in Seq(Nat)
  BY PartsAreSequences
<1>5. Data(frames) = <<>> /\ Data(hsbuf') = <<>>
  BY <1>0, <1>1, DataEmpty, Zenon
<1>6. H \o N \in Seq(Nat) /\ <<>> \o (H \o N) = H \o N /\ <<>> \o N = N
  BY <1>4, Algebra, Zenon
<1>7. All = got \o (H \o N)
  BY <1>5, <1>6, Zenon DEF All
<1>8. CASE Rejected(chunk)
  <2>1. sock' = (IF sock = "open" THEN "closing" ELSE sock) /\ frames' = frames
    BY <1>8, Zenon DEF HandshakeDone
  <2>2. FlowTypes'
    BY <1>0, <1>1, <2>1 DEF FlowTypes
  <2>3. Phases'
    BY <1>0, <1>1, <2>1 DEF Phases, Dialling
  <2>4. ~Undisturbed'
    <3>1. sock' \in {"closing", "gone"}
      BY <1>1, <2>1 DEF Phases
    <3>2. sock' = "gone" => sock = "gone"
      BY <2>1
    <3>. QED
      BY <1>0, <3>1, <3>2 DEF Phases, Undisturbed
  <2>5. All' = got \o N
    BY <1>0, <1>5, <1>6, <2>1, Zenon DEF All
  <2>6. Cut
    <3>. HIDE DEF H, N
    <3>. QED
      BY <1>0, <1>4, <1>7, <2>4, <2>5, Zenon DEF Cut
  <2>. QED
    BY <2>2, <2>3, <2>6
<1>9. CASE ~Rejected(chunk)
  <2>1. frames' = DataFrames(chunk) /\ sock' = sock
    BY <1>9, Zenon DEF HandshakeDone
  <2>2. /\ DataFrames(chunk) \in Seq(Frame)
        /\ Data(DataFrames(chunk)) = Data(chunk)
        /\ \A i \in 1 .. Len(DataFrames(chunk)) :
               DataFrames(chunk)[i][1] \in {"data", "pong", "close"}
    <3>. HIDE DEF chunk
    <3>. QED
      BY <1>2, DataFramesKeepData
  <2>3. FlowTypes'
    <3>1. got' \in Seq(Nat) /\ sent' \in Nat /\ net' \in Seq(Frame) /\ hsbuf' \in Seq(Frame)
      BY <1>0 DEF FlowTypes
    <3>. QED
      BY <2>1, <2>2, <3>1, Zenon DEF FlowTypes
  <2>4. Phases'
    BY <1>0, <1>1, <2>1 DEF Phases, Dialling
  <2>5. Undisturbed' => Undisturbed
    BY <1>0, <2>1 DEF Undisturbed, Dialling
  <2>6. All' = got \o (H \o (<<>> \o N))
    BY <1>0, <1>3, <1>5, <2>1, <2>2, Zenon DEF All
  <2>7. Kept
    BY <1>0, <1>6, <1>7, <2>5, <2>6, Zenon DEF Kept
  <2>. QED
    BY <2>3, <2>4, <2>7
<1>. QED
  BY <1>8, <1>9
LEMMA ReceivedFlow ==
    ASSUME FlowTypes, Phases, NEW n \in 1 .. MaxFrames, DataReceived(n)
    PROVE  FlowTypes' /\ Phases' /\ (Kept \/ Cut)
<1>. DEFINE chunk == SubSeq(net, 1, n)
            rest == SubSeq(net, n + 1, Len(net))
            F == Data(frames)
            H == Data(hsbuf)
            C == Data(chunk)
            R == Data(rest)
<1>0. /\ sock = "open" /\ n <= Len(net) /\ net' = rest
      /\ UNCHANGED <<got, sent, lost, closing>>
  BY Zenon DEF DataReceived, flagVars
<1>1. n \in Nat \ {0} /\ n \in 0 .. Len(net) /\ net \in Seq(Frame)
  BY <1>0, BoundsAssumption DEF FlowTypes
<1>2. chunk \in Seq(Frame) /\ rest \in Seq(Frame) /\ chunk # <<>> /\ net = chunk \o rest
  <2>1. chunk \in Seq(Frame) /\ rest \in Seq(Frame)
    BY <1>1, FilterSplit
  <2>2. Len(chunk) = n
    BY <1>1
  <2>3. /\ 1 \in 1 .. Len(net) + 1 /\ n \in 1 - 1 .. Len(net) /\ Len(net) \in n .. Len(net)
    BY <1>1
  <2>4. chunk \o rest = SubSeq(net, 1, Len(net))
    BY <1>1, <2>3, ConcatAdjacentSubSeq, Zenon
  <2>5. SubSeq(net, 1, Len(net)) = net
    BY <1>1, SubSeqFull
  <2>6. chunk # <<>>
    BY <1>1, <2>2
  <2>. QED
    BY <2>1, <2>4, <2>5, <2>6, Zenon
<1>3. Data(net) = C \o R
  <2>1. \A a, b \in Seq(Frame) : Data(a \o b) = Data(a) \o Data(b)
    BY DataConcat
  <2>. QED
    BY <1>2, <2>1, Zenon
<1>4. /\ got \in Seq(Nat) /\ F \in Seq(Nat) /\ H \in Seq(Nat)
      /\ C \in Seq(Nat) /\ R \in Seq(Nat)
  BY <1>2, PartsAreSequences, DataType
<1>5. All = got \o (F \o (H \o (C \o R)))
  BY <1>3, Zenon DEF All
<1>6. CASE cpc # "open"
  <2>1. /\ hsbuf' = hsbuf \o chunk
        /\ cpc' = IF cpc = "hs" THEN "answered" ELSE cpc
        /\ UNCHANGED <<sock, frames, kpc>>
    BY <1>6, Zenon DEF DataReceived
  <2>2. hsbuf' \in Seq(Frame) /\ hsbuf' # <<>>
    <3>1. hsbuf \in Seq(Frame)
      BY DEF FlowTypes
    <3>2. \A a, b \in Seq(Frame) : a \o b \in Seq(Frame) /\ (b # <<>> => a \o b # <<>>)
      OBVIOUS
    <3>. QED
      BY <1>2, <2>1, <3>1, <3>2, Zenon
  <2>3. FlowTypes'
    BY <1>0, <1>2, <2>1, <2>2 DEF FlowTypes
  <2>4. Phases'
    BY <1>0, <1>6, <2>1, <2>2 DEF Phases, Dialling
  <2>5. Undisturbed' => Undisturbed
    BY <1>0, <2>1 DEF Undisturbed, Dialling
  <2>6. Data(hsbuf') = H \o C
    <3>1. \A a, b \in Seq(Frame) : Data(a \o b) = Data(a) \o Data(b)
      BY DataConcat
    <3>2. hsbuf \in Seq(Frame)
      BY DEF FlowTypes
    <3>. QED
      BY <1>2, <2>1, <3>1, <3>2, Zenon
  <2>7. (H \o C) \o R = H \o (C \o R)
    BY <1>4, Assoc, ZenonT(60)
  <2>8. All' = All
    BY <1>0, <1>5, <2>1, <2>6, <2>7, Zenon DEF All
  <2>. QED
    BY <1>0, <2>3, <2>4, <2>5, <2>8, Zenon DEF Kept
<1>7. CASE cpc = "open"
  <2>0. H = <<>> /\ hsbuf = <<>>
    BY <1>7, DataEmpty DEF Phases
  <2>1. hsbuf' = hsbuf /\ cpc' = cpc
    BY <1>7, Zenon DEF DataReceived, connVars
  <2>2. C \o R \in Seq(Nat) /\ <<>> \o (C \o R) = C \o R /\ <<>> \o R = R
    BY <1>4, Algebra, SMT
  <2>3. All = got \o (F \o (C \o R))
    BY <1>5, <2>0, <2>2, Zenon
  <2>4. CASE Rejected(chunk)
    <3>1. sock' = "closing" /\ UNCHANGED <<frames, kpc>>
      BY <1>7, <2>4, Zenon DEF DataReceived
    <3>2. FlowTypes'
      BY <1>0, <1>2, <2>1, <3>1 DEF FlowTypes
    <3>3. Phases'
      BY <1>0, <1>7, <2>1, <3>1 DEF Phases, Dialling
    <3>4. ~Undisturbed'
      BY <3>1, Zenon DEF Undisturbed
    <3>5. All' = got \o (F \o R)
      BY <1>0, <2>0, <2>1, <2>2, <3>1, Zenon DEF All
    <3>6. got \o F \in Seq(Nat)
      BY <1>4, Closed, Zenon
    <3>7. (got \o F) \o (C \o R) = got \o (F \o (C \o R))
      BY <1>4, <2>2, Assoc, ZenonT(60)
    <3>8. (got \o F) \o R = got \o (F \o R)
      BY <1>4, Assoc, ZenonT(60)
    <3>9. Cut
      <4>. HIDE DEF C, R, F
      <4>. QED
        BY <1>0, <1>4, <2>3, <3>4, <3>5, <3>6, <3>7, <3>8, Zenon DEF Cut
    <3>. QED
      BY <3>2, <3>3, <3>9
  <2>5. CASE ~Rejected(chunk)
    <3>1. frames' = frames \o DataFrames(chunk) /\ sock' = sock
      BY <1>7, <2>5, Zenon DEF DataReceived
    <3>2. kpc' = kpc \/ (kpc = "wait" /\ kpc' = "woken")
      BY <1>7, <2>5 DEF DataReceived, Wake
    <3>. DEFINE d == DataFrames(chunk)
    <3>3. /\ d \in Seq(Frame) /\ Data(d) = C
          /\ \A i \in 1 .. Len(d) : d[i][1] \in {"data", "pong", "close"}
      <4>. HIDE DEF chunk
      <4>. QED
        BY <1>2, DataFramesKeepData
    <3>. HIDE DEF d
    <3>4. FlowTypes'
      <4>1. frames' = frames \o d /\ frames \in Seq(Frame)
        BY <3>1 DEF FlowTypes, d
      <4>2. frames' \in Seq(Frame)
        BY <3>3, <4>1
      <4>3. \A i \in 1 .. Len(frames') : frames'[i][1] \in {"data", "pong", "close"}
        <5>1. /\ Len(frames') = Len(frames) + Len(d) /\ Len(frames) \in Nat /\ Len(d) \in Nat
              /\ \A i \in 1 .. Len(frames) : frames'[i] = frames[i]
              /\ \A i \in 1 .. Len(d) : frames'[Len(frames) + i] = d[i]
          BY <3>3, <4>1, ConcatParts
        <5>. SUFFICES ASSUME NEW i \in 1 .. Len(frames')
                      PROVE  frames'[i][1] \in {"data", "pong", "close"}
          OBVIOUS
        <5>2. CASE i <= Len(frames)
          BY <5>1, <5>2 DEF FlowTypes
        <5>3. CASE ~(i <= Len(frames))
          <6>1. i - Len(frames) \in 1 .. Len(d) /\ i = Len(frames) + (i - Len(frames))
            BY <5>1, <5>3
          <6>2. frames'[i] = d[i - Len(frames)]
            BY <5>1, <6>1
          <6>. QED
            BY <3>3, <6>1, <6>2
        <5>. QED
          BY <5>2, <5>3
      <4>4. got' \in Seq(Nat) /\ sent' \in Nat /\ net' \in Seq(Frame) /\ hsbuf' \in Seq(Frame)
        BY <1>0, <1>2, <2>1 DEF FlowTypes
      <4>. QED
        BY <4>2, <4>3, <4>4, Zenon DEF FlowTypes
    <3>5. Phases'
      BY <1>0, <1>7, <2>1, <3>1, <3>2 DEF Phases, Dialling
    <3>6. Undisturbed' => Undisturbed
      BY <1>0, <2>1, <3>1, Zenon DEF Undisturbed
    <3>7. Data(frames') = F \o C
      <4>1. \A a, b \in Seq(Frame) : Data(a \o b) = Data(a) \o Data(b)
        BY DataConcat
      <4>2. frames \in Seq(Frame) /\ frames' = frames \o d
        BY <3>1 DEF FlowTypes, d
      <4>. QED
        BY <3>3, <4>1, <4>2, Zenon
    <3>8. (F \o C) \o R = F \o (C \o R)
      BY <1>4, Assoc, ZenonT(60)
    <3>9. All' = got \o ((F \o C) \o R)
      BY <1>0, <2>0, <2>1, <2>2, <3>7, Zenon DEF All
    <3>. QED
      BY <1>0, <2>3, <3>4, <3>5, <3>6, <3>8, <3>9, Zenon DEF Kept
  <2>. QED
    BY <2>4, <2>5
<1>. QED
  BY <1>6, <1>7
LEMMA ReceiveLoopFlow ==
    ASSUME FlowTypes, Phases, ReceiveLoop, UNCHANGED <<connVars, netVars, lost, kpc>>
    PROVE  FlowTypes' /\ Phases' /\ Kept
<1>. DEFINE F == Data(frames)
            X == Data(hsbuf) \o Data(net)
<1>0. UNCHANGED <<cpc, hsbuf, net, sent, lost, kpc>>
  BY Zenon DEF connVars, netVars
<1>1. got \in Seq(Nat) /\ F \in Seq(Nat) /\ X \in Seq(Nat)
  BY PartsAreSequences, Closed, Zenon
<1>2. All = got \o (F \o X) /\ All' = got' \o (Data(frames') \o X)
  BY <1>0, Zenon DEF All
<1>. HIDE DEF X
<1>3. CASE First = 0
  <2>1. frames' = <<>> /\ UNCHANGED <<got, closing, sock>>
    BY <1>3, Zenon DEF ReceiveLoop, flagVars
  <2>2. FlowTypes'
    BY <1>0, <2>1 DEF FlowTypes
  <2>3. Phases'
    BY <1>0, <2>1 DEF Phases
  <2>4. F = <<>> /\ Data(frames') = <<>>
    <3>1. \A i \in 1 .. Len(frames) : frames[i][1] # "data"
      BY <1>3, FirstIs
    <3>2. frames \in Seq(Frame)
      BY DEF FlowTypes
    <3>. QED
      BY <2>1, <3>1, <3>2, DataNone, DataEmpty
  <2>5. Undisturbed' => Undisturbed
    BY <1>0, <2>1 DEF Undisturbed
  <2>. QED
    BY <1>0, <1>2, <2>1, <2>2, <2>3, <2>4, <2>5, Zenon DEF Kept
<1>4. CASE First # 0
  <2>1. frames' = Rest(First)
    BY <1>4, Zenon DEF ReceiveLoop, Rest
  <2>2. /\ Rest(First) \in Seq(Frame)
        /\ \A i \in 1 .. Len(Rest(First)) : Rest(First)[i][1] \in {"data", "pong", "close"}
    BY FirstIs, RestIs
  <2>3. frames # <<>> /\ cpc = "open"
    BY <1>4, FirstIs DEF Phases
  <2>. DEFINE f == frames[First]
  <2>4. /\ f \in Frame
        /\ f[1] = "close" => F = Data(frames')
        /\ f[1] # "close" => F = <<f[2]>> \o Data(frames')
    BY <1>4, <2>1, FirstTaken
  <2>5. f[2] \in Nat
    BY <2>4 DEF Frame
  <2>6. CASE f[1] = "close"
    <3>1. closing' /\ got' = got
      BY <1>4, <2>6, Zenon DEF ReceiveLoop, CloseFrameTaken
    <3>2. sock' = sock \/ (sock = "open" /\ sock' = "closing")
      BY <1>4, <2>6 DEF ReceiveLoop, CloseFrameTaken, CloseTransport
    <3>3. FlowTypes'
      <4>1. got' \in Seq(Nat) /\ sent' \in Nat /\ net' \in Seq(Frame) /\ hsbuf' \in Seq(Frame)
        BY <1>0, <3>1 DEF FlowTypes
      <4>. QED
        BY <2>1, <2>2, <4>1, Zenon DEF FlowTypes
    <3>4. Phases'
      <4>1. /\ cpc' \in Dialling \cup {"new", "open", "failed", "cancelled"}
            /\ cpc' \in {"new", "dns", "tcp"} => sock' = "none"
            /\ cpc' \in {"made", "hs", "answered", "hslost", "open"} => sock' # "none"
            /\ cpc' # "open" => frames' = <<>>
            /\ cpc' = "open" => hsbuf' = <<>>
            /\ cpc' = "answered" => hsbuf' # <<>>
            /\ sock' \in {"none", "open", "closing", "gone"}
        BY <1>0, <2>3, <3>2 DEF Phases, Dialling
      <4>2. sock' = "gone" => lost'
        BY <1>0, <3>2 DEF Phases
      <4>. QED
        BY <3>1, <4>1, <4>2, Zenon DEF Phases
    <3>5. Undisturbed' => Undisturbed
      BY <3>1, Zenon DEF Undisturbed
    <3>. QED
      BY <1>0, <1>2, <2>4, <2>6, <3>1, <3>3, <3>4, <3>5, Zenon DEF Kept
  <2>7. CASE f[1] # "close"
    <3>1. got' = Append(got, f[2]) /\ UNCHANGED <<closing, sock>>
      BY <1>4, <2>7, Zenon DEF ReceiveLoop, flagVars
    <3>2. FlowTypes'
      <4>1. got' \in Seq(Nat) /\ sent' \in Nat /\ net' \in Seq(Frame) /\ hsbuf' \in Seq(Frame)
        BY <1>0, <2>5, <3>1 DEF FlowTypes
      <4>. QED
        BY <2>1, <2>2, <4>1, Zenon DEF FlowTypes
    <3>3. Phases'
      BY <1>0, <2>3, <3>1 DEF Phases
    <3>4. Undisturbed' => Undisturbed
      BY <1>0, <3>1 DEF Undisturbed
    <3>. DEFINE G == Data(frames')
                x == <<f[2]>>
    <3>5. G \in Seq(Nat)
      BY <2>1, <2>2, DataType
    <3>6. got' = got \o x /\ x \in Seq(Nat) /\ F = x \o G
      BY <1>1, <2>4, <2>5, <2>7, <3>1, Algebra, Zenon
    <3>. HIDE DEF G, x, F
    <3>7. G \o X \in Seq(Nat)
      BY <1>1, <3>5, Closed, Zenon
    <3>8. (got \o x) \o (G \o X) = got \o (x \o (G \o X))
      <4>. DEFINE gx == G \o X
      <4>. HIDE DEF gx
      <4>1. gx \in Seq(Nat) /\ x \in Seq(Nat)
        BY <3>6, <3>7 DEF gx
      <4>2. (got \o x) \o gx = got \o (x \o gx)
        BY <1>1, <4>1, Assoc, SMTT(40)
      <4>. QED
        BY <4>2 DEF gx
    <3>9. (x \o G) \o X = x \o (G \o X)
      BY <1>1, <3>5, <3>6, Assoc, ZenonT(60)
    <3>10. All' = All
      BY <1>2, <3>6, <3>8, <3>9, Zenon DEF G
    <3>. QED
      BY <1>0, <3>2, <3>3, <3>4, <3>10, Zenon DEF Kept
  <2>. QED
    BY <2>6, <2>7
<1>. QED
  BY <1>3, <1>4

LEMMA CloseResumesFlow ==
    ASSUME FlowTypes, Phases, CloseResumes
    PROVE  FlowTypes' /\ Phases' /\ Cut
<1>. DEFINE F == Data(frames)
            X == Data(hsbuf) \o Data(net)
<1>0. UNCHANGED <<cpc, hsbuf, net, sent, lost, closing, got>> /\ kpc = "woken"
  BY Zenon DEF CloseResumes, connVars, netVars
<1>1. closing' /\ ~Undisturbed'
  <2>1. closing
    BY <1>0 DEF Phases
  <2>2. closing'
    BY <1>0, <2>1, Zenon
  <2>. QED
    BY <2>2, Zenon DEF Undisturbed
<1>2. sock' = sock \/ (sock = "open" /\ sock' = "closing")
  BY DEF CloseResumes, CloseFinishes, CloseTransport
<1>3. got \in Seq(Nat) /\ F \in Seq(Nat) /\ X \in Seq(Nat)
  BY PartsAreSequences, Closed, Zenon
<1>4. All = got \o (F \o X) /\ All' = got \o (Data(frames') \o X)
  BY <1>0, Zenon DEF All
<1>. HIDE DEF X
<1>5. frames' = <<>> \/ frames' = Rest(CloseAt)
  BY Zenon DEF CloseResumes, Rest, CloseAt
<1>6. CASE frames' = <<>>
  <2>1. FlowTypes'
    BY <1>0, <1>6 DEF FlowTypes
  <2>2. Phases'
    BY <1>0, <1>1, <1>2, <1>6 DEF Phases, Dialling
  <2>3. All' = got \o X
    BY <1>3, <1>4, <1>6, DataEmpty, Algebra, Zenon
  <2>4. Cut
    <3>. HIDE DEF F
    <3>. QED
      BY <1>0, <1>1, <1>3, <1>4, <2>3, Zenon DEF Cut
  <2>. QED
    BY <2>1, <2>2, <2>4
<1>7. CASE frames' = Rest(CloseAt)
  <2>. DEFINE P == Data(SubSeq(frames, 1, CloseAt))
              G == Data(frames')
  <2>1. /\ SubSeq(frames, 1, CloseAt) \in Seq(Frame) /\ Rest(CloseAt) \in Seq(Frame)
        /\ F = P \o G
        /\ \A i \in 1 .. Len(Rest(CloseAt)) : Rest(CloseAt)[i][1] \in {"data", "pong", "close"}
    BY <1>7, CloseAtIs, RestIs
  <2>2. FlowTypes'
    <3>1. got' \in Seq(Nat) /\ sent' \in Nat /\ net' \in Seq(Frame) /\ hsbuf' \in Seq(Frame)
      BY <1>0 DEF FlowTypes
    <3>. QED
      BY <1>7, <2>1, <3>1, Zenon DEF FlowTypes
  <2>3. Phases'
    <3>1. frames = <<>> => frames' = <<>>
      BY <1>7, CloseAtIs DEF Rest
    <3>. QED
      BY <1>0, <1>1, <1>2, <3>1 DEF Phases, Dialling
  <2>4. P \in Seq(Nat) /\ G \in Seq(Nat)
    BY <1>7, <2>1, DataType
  <2>. HIDE DEF P, G, F
  <2>5. G \o X \in Seq(Nat)
    BY <1>3, <2>4, Closed, Zenon
  <2>6. (P \o G) \o X = P \o (G \o X)
    BY <1>3, <2>4, Assoc, SMTT(40)
  <2>7. All = got \o (P \o (G \o X)) /\ All' = got \o (G \o X)
    BY <1>4, <2>1, <2>6, Zenon DEF G
  <2>8. Cut
    BY <1>0, <1>1, <1>3, <2>4, <2>5, <2>7, Zenon DEF Cut
  <2>. QED
    BY <2>2, <2>3, <2>8
<1>. QED
  BY <1>5, <1>6, <1>7
-----------------------------------------------------------------------------
LEMMA FlowInit == TransportInit => FlowIInv
<1>. SUFFICES ASSUME TransportInit PROVE FlowIInv
  OBVIOUS
<1>1. FlowTypes
  BY DEF TransportInit, FlowTypes
<1>2. Phases
  BY DEF TransportInit, Phases
<1>3. All = <<>> /\ sent = 0
  <2>1. got = <<>> /\ frames = <<>> /\ hsbuf = <<>> /\ net = <<>> /\ sent = 0
    BY DEF TransportInit
  <2>2. All = <<>> \o (<<>> \o (<<>> \o <<>>))
    BY <2>1, DataEmpty, Zenon DEF All
  <2>3. <<>> \o <<>> = <<>>
    BY Algebra, Zenon
  <2>. QED
    BY <2>1, <2>2, <2>3, Zenon
<1>4. FlowInv
  <2>1. Ordered(<<>>, 0)
    BY DEF Ordered
  <2>2. <<>> = [i \in 1 .. 0 |-> i]
    OBVIOUS
  <2>. QED
    BY <1>3, <2>1, <2>2, Zenon DEF FlowInv, Complete
<1>. QED
  BY <1>1, <1>2, <1>4 DEF FlowIInv

LEMMA FlowNext == FlowIInv /\ [TransportNext]_vars => FlowIInv'
<1>. SUFFICES ASSUME FlowIInv, [TransportNext]_vars PROVE FlowIInv'
  OBVIOUS
<1>0. FlowTypes /\ Phases /\ FlowInv
  BY DEF FlowIInv
<1>. SUFFICES FlowTypes' /\ Phases' /\ (Kept \/ Cut \/ Added)
  BY <1>0, FlowStep DEF FlowIInv
<1>1. CASE ConnectNext
  <2>1. CASE HandshakeDone
    BY <1>0, <2>1, HandshakeDoneFlow
  <2>2. CASE ~HandshakeDone
    BY <1>0, <1>1, <2>2, ConnectFlow DEF ConnectNext
  <2>. QED
    BY <2>1, <2>2
<1>2. CASE ServerSends
  BY <1>0, <1>2, ServerFlow
<1>3. CASE ConnectionLost
  BY <1>0, <1>3, LostFlow
<1>4. CASE ResumeWriting
  <2>1. Quiet /\ Still
    BY <1>4, Zenon DEF ResumeWriting, Quiet, Still, connVars, netVars, sockVars, flagVars, readVars
  <2>. QED
    BY <1>0, <2>1, StillFlow
<1>5. CASE \E n \in 1 .. MaxFrames : DataReceived(n)
  BY <1>0, <1>5, ReceivedFlow
<1>6. CASE Recv
  <2>1. ReceiveLoop /\ UNCHANGED <<connVars, netVars, lost, kpc>>
    BY <1>6, Zenon DEF Recv
  <2>. QED
    BY <1>0, <2>1, ReceiveLoopFlow
<1>7. CASE RecvResumes
  <2>1. UNCHANGED <<connVars, netVars, lost, kpc>>
    BY <1>7, Zenon DEF RecvResumes
  <2>2. CASE lost /\ frames = <<>>
    <3>1. Quiet /\ Still
      BY <1>7, <2>1, <2>2, Zenon DEF RecvResumes, Quiet, Still, connVars, netVars
    <3>. QED
      BY <1>0, <3>1, StillFlow
  <2>3. CASE ~(lost /\ frames = <<>>)
    <3>1. ReceiveLoop
      BY <1>7, <2>3, Zenon DEF RecvResumes
    <3>. QED
      BY <1>0, <2>1, <3>1, ReceiveLoopFlow
  <2>. QED
    BY <2>2, <2>3
<1>8. CASE RecvCancelled
  <2>1. Quiet /\ Still
    BY <1>8, Zenon DEF RecvCancelled, Quiet, Still, connVars, netVars, sockVars, flagVars
  <2>. QED
    BY <1>0, <2>1, StillFlow
<1>9. CASE Close \/ CloseTimesOut
  BY <1>0, <1>9, CloseFlow
<1>10. CASE CloseResumes
  BY <1>0, <1>10, CloseResumesFlow
<1>11. CASE (\E s \in Senders : Send(s) \/ SendResumes(s)) \/ SendPing
  <2>1. Quiet /\ Still
    BY <1>11, Zenon DEF Send, SendResumes, SendPing, Quiet, Still, connVars, netVars, sockVars,
          flagVars, readVars
  <2>. QED
    BY <1>0, <2>1, StillFlow
<1>12. CASE UNCHANGED vars
  <2>1. Quiet /\ Still
    BY <1>12, Zenon DEF vars, Quiet, Still, connVars, netVars, sockVars, flagVars, readVars
  <2>. QED
    BY <1>0, <2>1, StillFlow
<1>. QED
  BY <1>1, <1>2, <1>3, <1>4, <1>5, <1>6, <1>7, <1>8, <1>9, <1>10, <1>11, <1>12, Zenon
     DEF TransportNext, PeerNext, CallNext

\* recv() is given the data frames in the order in which the server sent them,
\* however they were cut into chunks and whether or not some came with the
\* handshake response; and until someone closes, a frame is rejected or the
\* connection is lost, no frame is missing (data_received(), recv(), close()).
THEOREM InOrderTheorem == TransportSpec => []InOrder
<1>1. FlowIInv => InOrder
  <2>. SUFFICES ASSUME FlowIInv PROVE InOrder
    OBVIOUS
  <2>0. FlowTypes /\ FlowInv /\ sent \in Nat
    BY DEF FlowIInv, FlowTypes
  <2>. DEFINE F == Data(frames)
              H == Data(hsbuf)
              N == Data(net)
  <2>1. got \in Seq(Nat) /\ F \in Seq(Nat) /\ H \in Seq(Nat) /\ N \in Seq(Nat)
    BY <2>0, PartsAreSequences
  <2>2. All = got \o (F \o (H \o N))
    BY Zenon DEF All
  <2>. HIDE DEF F, H, N
  <2>3. H \o N \in Seq(Nat) /\ F \o (H \o N) \in Seq(Nat)
    BY <2>1, Closed, Zenon
  <2>4. ((got \o F) \o H) \o N = got \o (F \o (H \o N))
    <3>1. \A a, b, c, d \in Seq(Nat) : ((a \o b) \o c) \o d = a \o (b \o (c \o d))
      BY AssocFour
    <3>2. \A c, d \in Seq(Nat) : ((got \o F) \o c) \o d = got \o (F \o (c \o d))
      BY <2>1, <3>1, Zenon
    <3>. QED
      BY <2>1, <3>2, Zenon
  <2>6. Ordered(got, sent)
    BY <2>0, <2>1, <2>2, <2>3, OrderedFront DEF FlowInv
  <2>7. \A i, j \in DOMAIN got : i < j => got[i] < got[j]
    <3>1. DOMAIN got = 1 .. Len(got)
      BY <2>1
    <3>. QED
      BY <2>6, <3>1, Zenon DEF Ordered
  <2>8. (cpc \in Dialling \cup {"open"} /\ ~closing /\ sock # "closing" /\ ~lost) =>
            All = [i \in 1 .. sent |-> i]
    BY <2>0 DEF FlowInv, Complete, Undisturbed
  <2>. QED
    BY <2>2, <2>4, <2>7, <2>8, Zenon DEF InOrder, F, H, N
<1>. QED
  BY <1>1, FlowInit, FlowNext, PTL DEF TransportSpec
-----------------------------------------------------------------------------
(***************************************************************************)
(* The close frame.                                                        *)
(***************************************************************************)
CloseInv == closes = 0 \/ (closes = 1 /\ closing)

\* recv(), which answers the server's close frame, and close(), which sends our
\* own, write one close frame between them, in whatever order they run.
THEOREM OneCloseTheorem == TransportSpec => []OneCloseFrame
<1>1. TransportInit => CloseInv
  BY DEF TransportInit, CloseInv
<1>2. CloseInv /\ [TransportNext]_vars => CloseInv'
  <2>. SUFFICES ASSUME CloseInv, [TransportNext]_vars PROVE CloseInv'
    OBVIOUS
  <2>1. \/ closes' = closes /\ closing' = closing
        \/ closes' = closes /\ closing'
        \/ ~closing /\ closes' = closes + 1 /\ closing'
    <3>1. CASE ConnectNext \/ PeerNext
      BY <3>1, Zenon DEF ConnectNext, PeerNext, Connect, Resolve, DialFails, ConnectionMade,
            StartHandshake, HandshakeFails, HandshakeDone, ConnectCancelled, ServerSends,
            ConnectionLost, ResumeWriting, DataReceived, flagVars
    <3>2. ASSUME ReceiveLoop
          PROVE  \/ closes' = closes /\ closing' = closing
                 \/ closes' = closes /\ closing'
                 \/ ~closing /\ closes' = closes + 1 /\ closing'
      BY <3>2, Zenon DEF ReceiveLoop, CloseFrameTaken, flagVars
    <3>3. CASE Recv \/ RecvResumes
      BY <3>2, <3>3, Zenon DEF Recv, RecvResumes
    <3>4. CASE RecvCancelled \/ CloseResumes \/ CloseTimesOut
      BY <3>4, Zenon DEF RecvCancelled, CloseResumes, CloseTimesOut, flagVars
    <3>5. CASE Close
      BY <3>5, Zenon DEF Close
    <3>6. CASE (\E s \in Senders : Send(s) \/ SendResumes(s)) \/ SendPing
      BY <3>6, Zenon DEF Send, SendResumes, SendPing, flagVars
    <3>7. CASE UNCHANGED vars
      BY <3>7, Zenon DEF vars, flagVars
    <3>. QED
      BY <3>1, <3>3, <3>4, <3>5, <3>6, <3>7, Zenon DEF TransportNext, CallNext
  <2>2. CASE closing
    <3>1. closing' /\ closes' = closes
      BY <2>1, <2>2, Zenon
    <3>2. closes' \in {0, 1}
      BY <3>1 DEF CloseInv
    <3>. QED
      BY <3>1, <3>2 DEF CloseInv
  <2>3. CASE ~closing
    <3>1. closes = 0
      BY <2>3, Zenon DEF CloseInv
    <3>2. closes' = 0 \/ (closes' = 1 /\ closing')
      <4>1. closes' = closes \/ (closes' = closes + 1 /\ closing')
        BY <2>1, Zenon
      <4>2. 0 + 1 = 1
        OBVIOUS
      <4>. QED
        BY <3>1, <4>1, <4>2, Zenon
    <3>. QED
      BY <3>2, Zenon DEF CloseInv
  <2>. QED
    BY <2>2, <2>3
<1>3. CloseInv => OneCloseFrame
  BY DEF CloseInv, OneCloseFrame
<1>. QED
  BY <1>1, <1>2, <1>3, PTL DEF TransportSpec
=============================================================================
