--------------------------- MODULE FilterTheorems ---------------------------
(***************************************************************************)
(* What Filter does to the empty sequence, to Append, to concatenation and *)
(* to the tail of a sequence.  The provers cannot instantiate an induction *)
(* principle, so each induction looks at the least counterexample.         *)
(***************************************************************************)
EXTENDS Filters, SequenceTheorems, WellFoundedInduction, TLAPS

LEMMA LeastNumber ==
    ASSUME NEW T \in SUBSET Nat, T # {}
    PROVE  \E x \in T : \A y \in T : x <= y
<1>1. IsWellFoundedOn(OpToRel(<, Nat), Nat)
  BY NatLessThanWellFounded
<1>2. \E x \in T : \A y \in T : ~(<<y, x>> \in OpToRel(<, Nat))
  BY <1>1, WFMin
<1>3. \A x, y \in Nat : x < y => <<x, y>> \in OpToRel(<, Nat)
  BY DEF OpToRel
<1>4. \E x \in T : \A y \in T : ~(y < x)
  BY <1>2, <1>3, Zenon
<1>. QED
  BY <1>4

\* f holds what is kept of the prefixes of s of length 0 to n.
Step(f, s, S, i) == IF i = 0 THEN <<>>
                    ELSE IF s[i] \in S THEN Append(f[i - 1], s[i]) ELSE f[i - 1]
Keeps(f, s, S, n) == f = [i \in 0 .. n |-> Step(f, s, S, i)]

LEMMA KeepsExists ==
    ASSUME NEW s, NEW S, NEW n \in Nat
    PROVE  \E f : Keeps(f, s, S, n)
<1>. DEFINE T == {m \in Nat : ~(\E f : Keeps(f, s, S, m))}
<1>1. ASSUME T # {}
      PROVE  FALSE
  <2>1. PICK m \in T : \A k \in T : m <= k
    <3>1. T \in SUBSET Nat
      OBVIOUS
    <3>. HIDE DEF T
    <3>. QED
      BY <1>1, <3>1, LeastNumber
  <2>2. m # 0
    <3>1. Keeps([i \in 0 .. 0 |-> <<>>], s, S, 0)
      BY DEF Keeps, Step
    <3>. QED
      BY <3>1
  <2>3. m - 1 \in Nat /\ m - 1 \notin T
    BY <2>1, <2>2
  <2>4. PICK f : Keeps(f, s, S, m - 1)
    BY <2>3
  <2>. DEFINE g == [i \in 0 .. m |-> IF i < m THEN f[i] ELSE Step(f, s, S, m)]
  <2>5. \A i \in 0 .. m - 1 : f[i] = Step(f, s, S, i)
    BY <2>4 DEF Keeps
  <2>6. \A i \in 0 .. m : g[i] = Step(g, s, S, i)
    <3>. SUFFICES ASSUME NEW i \in 0 .. m
                  PROVE  g[i] = Step(g, s, S, i)
      OBVIOUS
    <3>1. i # 0 => i - 1 \in 0 .. m /\ i - 1 < m /\ g[i - 1] = f[i - 1]
      OBVIOUS
    <3>2. Step(g, s, S, i) = Step(f, s, S, i)
      BY <3>1 DEF Step
    <3>3. CASE i = m
      BY <3>2, <3>3
    <3>4. CASE i < m
      BY <2>5, <3>2, <3>4
    <3>. QED
      BY <3>3, <3>4
  <2>7. Keeps(g, s, S, m)
    BY <2>6 DEF Keeps
  <2>. QED
    BY <2>1, <2>7
<1>. QED
  BY <1>1

LEMMA FilterIs ==
    ASSUME NEW s, NEW S, Len(s) \in Nat
    PROVE  \E f : Keeps(f, s, S, Len(s)) /\ Filter(s, S) = f[Len(s)]
<1>. DEFINE P(f) == f = [i \in 0 .. Len(s) |->
                            IF i = 0 THEN <<>>
                            ELSE IF s[i] \in S THEN Append(f[i - 1], s[i]) ELSE f[i - 1]]
            c == CHOOSE f : P(f)
<1>1. \E f : P(f)
  <2>1. PICK f : Keeps(f, s, S, Len(s))
    BY KeepsExists
  <2>2. P(f)
    BY <2>1, Zenon DEF Keeps, Step
  <2>. QED
    BY <2>2
<1>2. P(c)
  BY <1>1, Zenon
<1>3. Keeps(c, s, S, Len(s))
  BY <1>2, Zenon DEF Keeps, Step
<1>4. Filter(s, S) = c[Len(s)]
  BY Zenon DEF Filter
<1>. QED
  BY <1>3, <1>4, Zenon

\* What is kept is a sequence of elements of S.
LEMMA KeepsType ==
    ASSUME NEW X, NEW s \in Seq(X), NEW S, NEW n \in 0 .. Len(s), NEW f, Keeps(f, s, S, n)
    PROVE  \A i \in 0 .. n : f[i] \in Seq(X \cap S)
<1>. DEFINE Y == X \cap S
            T == {m \in 0 .. n : f[m] \notin Seq(Y)}
<1>0. /\ <<>> \in Seq(Y)
      /\ \A y \in Y, u \in Seq(Y) : Append(u, y) \in Seq(Y)
      /\ \A x \in X : x \in S => x \in Y
  OBVIOUS
<1>. HIDE DEF Y
<1>1. \A i \in 0 .. n : f[i] = Step(f, s, S, i)
  BY DEF Keeps
<1>2. ASSUME T # {}
      PROVE  FALSE
  <2>1. PICK m \in T : \A k \in T : m <= k
    <3>1. T \in SUBSET Nat
      OBVIOUS
    <3>. HIDE DEF T
    <3>. QED
      BY <1>2, <3>1, LeastNumber
  <2>2. m # 0
    BY <1>0, <1>1 DEF Step
  <2>3. m - 1 \in 0 .. n /\ m - 1 \notin T
    BY <2>1, <2>2
  <2>4. f[m - 1] \in Seq(Y) /\ s[m] \in X
    BY <2>2, <2>3
  <2>5. f[m] = IF s[m] \in S THEN Append(f[m - 1], s[m]) ELSE f[m - 1]
    BY <1>1, <2>2 DEF Step
  <2>6. f[m] \in Seq(Y)
    BY <1>0, <2>4, <2>5
  <2>. QED
    BY <2>6
<1>. QED
  BY <1>2 DEF Y

LEMMA FilterType ==
    ASSUME NEW X, NEW s \in Seq(X), NEW S
    PROVE  Filter(s, S) \in Seq(X \cap S)
<1>1. PICK f : Keeps(f, s, S, Len(s)) /\ Filter(s, S) = f[Len(s)]
  BY FilterIs
<1>2. Len(s) \in 0 .. Len(s)
  OBVIOUS
<1>. QED
  BY <1>1, <1>2, KeepsType

LEMMA FilterEmpty == ASSUME NEW S PROVE Filter(<<>>, S) = <<>>
<1>1. PICK f : Keeps(f, <<>>, S, 0) /\ Filter(<<>>, S) = f[0]
  BY FilterIs
<1>. QED
  BY <1>1 DEF Keeps, Step

LEMMA FilterAppend ==
    ASSUME NEW X, NEW s \in Seq(X), NEW x \in X, NEW S
    PROVE  Filter(Append(s, x), S) = IF x \in S THEN Append(Filter(s, S), x)
                                     ELSE Filter(s, S)
<1>. DEFINE t == Append(s, x)
<1>0. t \in Seq(X) /\ Len(t) = Len(s) + 1 /\ Len(s) \in Nat /\ t[Len(s) + 1] = x
      /\ \A i \in 1 .. Len(s) : t[i] = s[i]
  OBVIOUS
<1>1. PICK f : Keeps(f, s, S, Len(s)) /\ Filter(s, S) = f[Len(s)]
  BY FilterIs
<1>. HIDE DEF t
<1>2. PICK g : Keeps(g, t, S, Len(t)) /\ Filter(t, S) = g[Len(t)]
  BY <1>0, FilterIs
<1>. DEFINE T == {m \in 0 .. Len(s) : f[m] # g[m]}
<1>3. \A i \in 0 .. Len(s) : f[i] = Step(f, s, S, i) /\ g[i] = Step(g, t, S, i)
  <2>1. \A i \in 0 .. Len(s) : f[i] = Step(f, s, S, i)
    BY <1>1 DEF Keeps
  <2>2. \A i \in 0 .. Len(t) : g[i] = Step(g, t, S, i)
    BY <1>2 DEF Keeps
  <2>. QED
    BY <1>0, <2>1, <2>2
<1>4. ASSUME T # {}
      PROVE  FALSE
  <2>1. PICK m \in T : \A k \in T : m <= k
    <3>1. T \in SUBSET Nat
      OBVIOUS
    <3>. HIDE DEF T
    <3>. QED
      BY <1>4, <3>1, LeastNumber
  <2>2. m # 0
    BY <1>3 DEF Step
  <2>3. m - 1 \in 0 .. Len(s) /\ m - 1 \notin T
    BY <1>0, <2>1, <2>2
  <2>4. f[m - 1] = g[m - 1] /\ s[m] = t[m]
    BY <1>0, <2>2, <2>3
  <2>5. f[m] = g[m]
    BY <1>3, <2>2, <2>4 DEF Step
  <2>. QED
    BY <2>5
<1>5. g[Len(s)] = Filter(s, S)
  BY <1>0, <1>1, <1>4
<1>6. g[Len(t)] = Step(g, t, S, Len(t))
  BY <1>0, <1>2, SMTT(40) DEF Keeps
<1>7. Step(g, t, S, Len(t)) = IF x \in S THEN Append(g[Len(s)], x) ELSE g[Len(s)]
  BY <1>0 DEF Step
<1>. QED
  BY <1>2, <1>5, <1>6, <1>7 DEF t

LEMMA AppendToConcat ==
    ASSUME NEW X, NEW s \in Seq(X), NEW t \in Seq(X), NEW x \in X
    PROVE  s \o Append(t, x) = Append(s \o t, x) /\ s \o t \in Seq(X)
OBVIOUS

LEMMA FilterConcat ==
    ASSUME NEW X, NEW s \in Seq(X), NEW S, NEW t \in Seq(X)
    PROVE  Filter(s \o t, S) = Filter(s, S) \o Filter(t, S)
<1>. DEFINE Good(u) == Filter(s \o u, S) = Filter(s, S) \o Filter(u, S)
            T == {n \in Nat : \E u \in Seq(X) : Len(u) = n /\ ~Good(u)}
<1>0. Filter(s, S) \in Seq(X) /\ \A u \in Seq(X) : Filter(u, S) \in Seq(X)
  <2>1. \A u \in Seq(X) : Filter(u, S) \in Seq(X \cap S)
    BY FilterType
  <2>2. \A u \in Seq(X \cap S) : u \in Seq(X)
    OBVIOUS
  <2>. QED
    BY <2>1, <2>2
<1>1. ASSUME T # {}
      PROVE  FALSE
  <2>1. PICK n \in T : \A k \in T : n <= k
    <3>1. T \in SUBSET Nat
      OBVIOUS
    <3>. HIDE DEF T
    <3>. QED
      BY <1>1, <3>1, LeastNumber
  <2>2. PICK u \in Seq(X) : Len(u) = n /\ ~Good(u)
    OBVIOUS
  <2>3. u # <<>>
    <3>1. Good(<<>>)
      BY <1>0, FilterEmpty
    <3>. QED
      BY <2>2, <3>1
  <2>4. PICK v \in Seq(X), x \in X : u = Append(v, x)
    BY <2>3, SequenceEmptyOrAppend
  <2>5. Len(v) \in Nat /\ n = Len(v) + 1
    BY <2>2, <2>4
  <2>6. Good(v)
    <3>1. ~(n <= Len(v))
      BY <2>5
    <3>2. Len(v) \notin T
      BY <2>1, <3>1, Zenon
    <3>. QED
      BY <2>5, <3>2
  <2>7. s \o v \in Seq(X) /\ s \o u = Append(s \o v, x)
    BY <2>4
  <2>8. /\ Filter(s \o u, S) = IF x \in S THEN Append(Filter(s \o v, S), x)
                               ELSE Filter(s \o v, S)
        /\ Filter(u, S) = IF x \in S THEN Append(Filter(v, S), x) ELSE Filter(v, S)
    <3>. DEFINE w == s \o v
    <3>1. w \in Seq(X) /\ s \o u = Append(w, x)
      BY <2>7
    <3>. HIDE DEF w
    <3>2. \A z \in Seq(X) : Filter(Append(z, x), S) = IF x \in S THEN Append(Filter(z, S), x)
                                                      ELSE Filter(z, S)
      BY FilterAppend, SMTT(40)
    <3>. QED
      BY <2>4, <3>1, <3>2, Zenon DEF w
  <2>9. Filter(s, S) \o Append(Filter(v, S), x) = Append(Filter(s, S) \o Filter(v, S), x)
    <3>1. \A a, b \in Seq(X) : a \o Append(b, x) = Append(a \o b, x)
      BY AppendToConcat, SMTT(40)
    <3>. QED
      BY <1>0, <3>1, Zenon
  <2>10. Good(u)
    BY <2>6, <2>8, <2>9, Zenon
  <2>. QED
    BY <2>2, <2>10
<1>2. Len(t) \in Nat /\ Len(t) \notin T
  BY <1>1
<1>. QED
  BY <1>2

LEMMA FilterOne ==
    ASSUME NEW X, NEW x \in X, NEW S
    PROVE  Filter(<<x>>, S) = IF x \in S THEN <<x>> ELSE <<>>
<1>1. <<>> \in Seq(X) /\ <<x>> = Append(<<>>, x)
  OBVIOUS
<1>2. Filter(Append(<<>>, x), S) = IF x \in S THEN Append(Filter(<<>>, S), x)
                                   ELSE Filter(<<>>, S)
  BY <1>1, FilterAppend
<1>. QED
  BY <1>1, <1>2, FilterEmpty

LEMMA FilterTail ==
    ASSUME NEW X, NEW s \in Seq(X), s # <<>>, NEW S
    PROVE  /\ Head(s) \in S => Filter(s, S) = <<Head(s)>> \o Filter(Tail(s), S)
           /\ Head(s) \notin S => Filter(s, S) = Filter(Tail(s), S)
<1>1. Head(s) \in X /\ Tail(s) \in Seq(X) /\ <<Head(s)>> \in Seq(X)
      /\ s = <<Head(s)>> \o Tail(s)
  OBVIOUS
<1>2. Filter(s, S) = Filter(<<Head(s)>>, S) \o Filter(Tail(s), S)
  <2>1. \A a, b \in Seq(X) : Filter(a \o b, S) = Filter(a, S) \o Filter(b, S)
    BY FilterConcat
  <2>. QED
    BY <1>1, <2>1, Zenon
<1>3. Filter(Tail(s), S) \in Seq(X \cap S)
  BY <1>1, FilterType
<1>4. <<>> \o Filter(Tail(s), S) = Filter(Tail(s), S)
  BY <1>3, ConcatEmptySeq, Zenon
<1>5. Filter(<<Head(s)>>, S) = IF Head(s) \in S THEN <<Head(s)>> ELSE <<>>
  BY <1>1, FilterOne, Zenon
<1>. QED
  BY <1>2, <1>4, <1>5, Zenon

\* A sequence is cut in two.
LEMMA FilterSplit ==
    ASSUME NEW X, NEW s \in Seq(X), NEW n \in 0 .. Len(s), NEW S
    PROVE  /\ SubSeq(s, 1, n) \in Seq(X)
           /\ SubSeq(s, n + 1, Len(s)) \in Seq(X)
           /\ Filter(s, S) = Filter(SubSeq(s, 1, n), S) \o Filter(SubSeq(s, n + 1, Len(s)), S)
<1>1. SubSeq(s, 1, n) \in Seq(X) /\ SubSeq(s, n + 1, Len(s)) \in Seq(X)
  BY SubSeqProperties
<1>2. s = SubSeq(s, 1, n) \o SubSeq(s, n + 1, Len(s))
  <2>1. /\ 1 \in 1 .. Len(s) + 1 /\ n \in 1 - 1 .. Len(s) /\ Len(s) \in n .. Len(s)
    OBVIOUS
  <2>2. SubSeq(s, 1, n) \o SubSeq(s, n + 1, Len(s)) = SubSeq(s, 1, Len(s))
    BY <2>1, ConcatAdjacentSubSeq, Zenon
  <2>3. SubSeq(s, 1, Len(s)) = s
    BY SubSeqFull
  <2>. QED
    BY <2>2, <2>3, Zenon
<1>3. Filter(SubSeq(s, 1, n) \o SubSeq(s, n + 1, Len(s)), S)
        = Filter(SubSeq(s, 1, n), S) \o Filter(SubSeq(s, n + 1, Len(s)), S)
  <2>1. \A a, b \in Seq(X) : Filter(a \o b, S) = Filter(a, S) \o Filter(b, S)
    BY FilterConcat
  <2>. QED
    BY <1>1, <2>1, Zenon
<1>. QED
  BY <1>1, <1>2, <1>3, Zenon

LEMMA FilterNone ==
    ASSUME NEW X, NEW s \in Seq(X), NEW S, \A i \in 1 .. Len(s) : s[i] \notin S
    PROVE  Filter(s, S) = <<>>
<1>. DEFINE Y == X \ S
<1>1. s \in Seq(Y)
  OBVIOUS
<1>2. Filter(s, S) \in Seq(Y \cap S)
  BY <1>1, FilterType
<1>3. Y \cap S = {}
  OBVIOUS
<1>. QED
  BY <1>2, <1>3

\* To filter twice is to filter by the smaller set.
LEMMA FilterTwice ==
    ASSUME NEW X, NEW s \in Seq(X), NEW S, NEW R \in SUBSET S
    PROVE  Filter(Filter(s, S), R) = Filter(s, R)
<1>. DEFINE Good(u) == Filter(Filter(u, S), R) = Filter(u, R)
            T == {n \in Nat : \E u \in Seq(X) : Len(u) = n /\ ~Good(u)}
<1>0. \A u \in Seq(X) : Filter(u, S) \in Seq(X)
  <2>1. \A u \in Seq(X) : Filter(u, S) \in Seq(X \cap S)
    BY FilterType
  <2>2. \A u \in Seq(X \cap S) : u \in Seq(X)
    OBVIOUS
  <2>. QED
    BY <2>1, <2>2
<1>1. ASSUME T # {}
      PROVE  FALSE
  <2>1. PICK n \in T : \A k \in T : n <= k
    <3>1. T \in SUBSET Nat
      OBVIOUS
    <3>. HIDE DEF T
    <3>. QED
      BY <1>1, <3>1, LeastNumber
  <2>2. PICK u \in Seq(X) : Len(u) = n /\ ~Good(u)
    OBVIOUS
  <2>3. u # <<>>
    <3>1. Good(<<>>)
      BY FilterEmpty, Zenon
    <3>. QED
      BY <2>2, <3>1
  <2>4. PICK v \in Seq(X), x \in X : u = Append(v, x)
    BY <2>3, SequenceEmptyOrAppend
  <2>5. Len(v) \in Nat /\ n = Len(v) + 1
    BY <2>2, <2>4
  <2>6. Good(v)
    <3>1. ~(n <= Len(v))
      BY <2>5
    <3>2. Len(v) \notin T
      BY <2>1, <3>1, Zenon
    <3>. QED
      BY <2>5, <3>2
  <2>7. \A Q : \A z \in Seq(X) :
            Filter(Append(z, x), Q) = IF x \in Q THEN Append(Filter(z, Q), x) ELSE Filter(z, Q)
    BY FilterAppend
  <2>8. Filter(v, S) \in Seq(X)
    BY <1>0, Zenon
  <2>9. x \in R => x \in S
    OBVIOUS
  <2>10. CASE x \notin S
    <3>1. Filter(u, S) = Filter(v, S) /\ Filter(u, R) = Filter(v, R)
      BY <2>4, <2>7, <2>9, <2>10, Zenon
    <3>. QED
      BY <2>2, <2>6, <3>1, Zenon
  <2>11. CASE x \in S
    <3>1. Filter(u, S) = Append(Filter(v, S), x)
      BY <2>4, <2>7, <2>11, Zenon
    <3>2. Filter(Append(Filter(v, S), x), R) = IF x \in R THEN Append(Filter(Filter(v, S), R), x)
                                               ELSE Filter(Filter(v, S), R)
      BY <2>7, <2>8, Zenon
    <3>3. Filter(u, R) = IF x \in R THEN Append(Filter(v, R), x) ELSE Filter(v, R)
      BY <2>4, <2>7, Zenon
    <3>4. Filter(Filter(v, S), R) = Filter(v, R)
      BY <2>6
    <3>5. Good(u)
      BY <3>1, <3>2, <3>3, <3>4, Zenon
    <3>. QED
      BY <2>2, <3>5
  <2>. QED
    BY <2>10, <2>11
<1>2. Len(s) \in Nat /\ Len(s) \notin T
  BY <1>1
<1>. QED
  BY <1>2
\* A filter that lets everything pass.
LEMMA FilterAll ==
    ASSUME NEW S, NEW s \in Seq(S)
    PROVE  Filter(s, S) = s
<1>. DEFINE T == {n \in Nat : \E u \in Seq(S) : Len(u) = n /\ Filter(u, S) # u}
<1>1. ASSUME T # {}
      PROVE  FALSE
  <2>1. PICK n \in T : \A k \in T : n <= k
    <3>1. T \in SUBSET Nat
      OBVIOUS
    <3>. HIDE DEF T
    <3>. QED
      BY <1>1, <3>1, LeastNumber
  <2>2. PICK u \in Seq(S) : Len(u) = n /\ Filter(u, S) # u
    OBVIOUS
  <2>3. u # <<>>
    BY <2>2, FilterEmpty
  <2>4. PICK v \in Seq(S), x \in S : u = Append(v, x)
    BY <2>3, SequenceEmptyOrAppend
  <2>5. Len(v) \in Nat /\ n = Len(v) + 1
    BY <2>2, <2>4
  <2>6. Filter(v, S) = v
    <3>1. Len(v) \notin T
      <4>. HIDE DEF T
      <4>1. n \in T /\ \A k \in T : n <= k
        BY <2>1
      <4>. QED
        BY <2>5, <4>1
    <3>. QED
      BY <2>5, <3>1
  <2>7. Filter(Append(v, x), S) = Append(Filter(v, S), x)
    BY FilterAppend
  <2>. QED
    BY <2>2, <2>4, <2>6, <2>7, Zenon
<1>2. Len(s) \in Nat /\ Len(s) \notin T
  BY <1>1
<1>. QED
  BY <1>2
=============================================================================
