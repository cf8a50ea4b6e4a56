------------------------- MODULE SyncTransportProofs -------------------------
(***************************************************************************)
(* The frame parser and the synchronous transport, for all widths of the   *)
(* length fields, all limits and any number of frames: what is encoded is  *)
(* decoded again, feed() does not depend on how the bytes are cut into     *)
(* chunks, and so recv() loses nothing and the server can read what is     *)
(* written.                                                                *)
(***************************************************************************)
EXTENDS SyncTransport, FilterTheorems

(***************************************************************************)
(* Induction, over sets in place of predicates.                            *)
(***************************************************************************)
LEMMA Induct ==
    ASSUME NEW n \in Nat, NEW S, 0 \in S,
           \A i \in 0 .. n - 1 : i \in S => i + 1 \in S
    PROVE  \A i \in 0 .. n : i \in S
<1>. DEFINE T == {i \in 0 .. n : i \notin S}
<1>1. ASSUME T # {}
      PROVE  FALSE
  <2>1. PICK m \in T : \A k \in T : m <= k
    <3>1. T \in SUBSET Nat
      OBVIOUS
    <3>. HIDE DEF T
    <3>. QED
      BY <1>1, <3>1, LeastNumber
  <2>2. m - 1 \in 0 .. n - 1 /\ m - 1 \notin T
    BY <2>1
  <2>. QED
    BY <2>1, <2>2
<1>. QED
  BY <1>1

LEMMA StrongInduct ==
    ASSUME NEW S, \A n \in Nat : (\A m \in Nat : m < n => m \in S) => n \in S
    PROVE  \A n \in Nat : n \in S
<1>. DEFINE T == {i \in Nat : i \notin S}
<1>1. ASSUME T # {}
      PROVE  FALSE
  <2>1. PICK m \in T : \A k \in T : m <= k
    <3>1. T \in SUBSET Nat
      OBVIOUS
    <3>. HIDE DEF T
    <3>. QED
      BY <1>1, <3>1, LeastNumber
  <2>. QED
    BY <2>1
<1>. QED
  BY <1>1

\* A function may be defined by what it does at 0 and from i to i + 1.
Iterates(f, m, V, c, h) == /\ f \in [0 .. m -> V]
                           /\ f[0] = c
                           /\ \A i \in 1 .. m : f[i] = h[i][f[i - 1]]

LEMMA Iteration ==
    ASSUME NEW V, NEW c \in V, NEW n \in Nat, NEW h \in [1 .. n -> [V -> V]]
    PROVE  \E f : Iterates(f, n, V, c, h)
<1>. DEFINE S == {m \in 0 .. n : \E f : Iterates(f, m, V, c, h)}
<1>1. 0 \in S
  <2>1. Iterates([i \in 0 .. 0 |-> c], 0, V, c, h)
    BY DEF Iterates
  <2>. QED
    BY <2>1
<1>2. ASSUME NEW m \in 0 .. n - 1, m \in S
      PROVE  m + 1 \in S
  <2>0. PICK f : Iterates(f, m, V, c, h)
    BY <1>2
  <2>1. /\ f \in [0 .. m -> V] /\ f[0] = c
        /\ \A i \in 1 .. m : f[i] = h[i][f[i - 1]]
    BY <2>0 DEF Iterates
  <2>. DEFINE g == [i \in 0 .. m + 1 |-> IF i <= m THEN f[i] ELSE h[m + 1][f[m]]]
  <2>2. f[m] \in V /\ m + 1 \in 1 .. n /\ h[m + 1][f[m]] \in V
    BY <2>1
  <2>3. g \in [0 .. m + 1 -> V] /\ g[0] = c
    BY <2>1, <2>2
  <2>4. ASSUME NEW i \in 1 .. m + 1
        PROVE  g[i] = h[i][g[i - 1]]
    <3>1. i - 1 \in 0 .. m /\ g[i - 1] = f[i - 1]
      OBVIOUS
    <3>2. CASE i <= m
      BY <2>1, <3>1, <3>2
    <3>3. CASE i = m + 1
      <4>1. g[i] = h[m + 1][f[m]] /\ i - 1 = m
        BY <3>3
      <4>. QED
        BY <3>1, <3>3, <4>1
    <3>. QED
      BY <3>2, <3>3
  <2>5. Iterates(g, m + 1, V, c, h)
    BY <2>3, <2>4 DEF Iterates
  <2>6. m + 1 \in 0 .. n
    OBVIOUS
  <2>. HIDE DEF g
  <2>. QED
    BY <2>5, <2>6
<1>3. n \in S
  <2>. HIDE DEF S
  <2>1. \A i \in 0 .. n : i \in S
    BY <1>1, <1>2, Induct, Zenon
  <2>. QED
    BY <2>1
<1>. QED
  BY <1>3

\* Two functions that begin alike and go on alike are alike.
LEMMA Alike ==
    ASSUME NEW n \in Nat, NEW f, NEW g, f[0] = g[0],
           \A i \in 0 .. n - 1 : f[i] = g[i] => f[i + 1] = g[i + 1]
    PROVE  \A i \in 0 .. n : f[i] = g[i]
<1>. DEFINE S == {i \in 0 .. n : f[i] = g[i]}
<1>1. 0 \in S /\ \A i \in 0 .. n - 1 : i \in S => i + 1 \in S
  OBVIOUS
<1>2. \A i \in 0 .. n : i \in S
  <2>. HIDE DEF S
  <2>. QED
    BY <1>1, Induct
<1>. QED
  BY <1>2
-----------------------------------------------------------------------------
(***************************************************************************)
(* Powers of the base, and the digits of a number.                         *)
(***************************************************************************)
LEMMA Widths == /\ Inline \in Nat /\ Base \in Nat \ {0} /\ Wide \in Nat /\ MaxFrame \in Nat
                /\ Base <= 256 /\ Inline + 2 < 128
                /\ Inline < Base * Base /\ MaxFrame < Power(Wide)
BY WidthsAssumption

PowerFun(f, n) == /\ f \in [0 .. n -> Nat \ {0}] /\ f[0] = 1
                  /\ \A i \in 1 .. n : f[i] = Base * f[i - 1]

LEMMA PowerIs ==
    ASSUME NEW n \in Nat
    PROVE  \E f : PowerFun(f, n) /\ Power(n) = f[n]
<1>. DEFINE P(f) == f = [i \in 0 .. n |-> IF i = 0 THEN 1 ELSE Base * f[i - 1]]
            c == CHOOSE f : P(f)
            h == [i \in 1 .. n |-> [v \in Nat \ {0} |-> Base * v]]
<1>1. PICK f : Iterates(f, n, Nat \ {0}, 1, h)
  <2>1. h \in [1 .. n -> [Nat \ {0} -> Nat \ {0}]] /\ 1 \in Nat \ {0}
    BY Widths
  <2>. HIDE DEF h
  <2>. QED
    BY <2>1, Iteration
<1>2. /\ f \in [0 .. n -> Nat \ {0}] /\ f[0] = 1
      /\ \A i \in 1 .. n : f[i] = Base * f[i - 1]
  <2>1. \A i \in 1 .. n : \A v \in Nat \ {0} : h[i][v] = Base * v
    OBVIOUS
  <2>. HIDE DEF h
  <2>2. f \in [0 .. n -> Nat \ {0}] /\ f[0] = 1 /\ \A i \in 1 .. n : f[i] = h[i][f[i - 1]]
    BY <1>1 DEF Iterates
  <2>3. \A i \in 1 .. n : f[i - 1] \in Nat \ {0}
    BY <2>2
  <2>. QED
    BY <2>1, <2>2, <2>3
<1>3. P(f)
  BY <1>2
<1>4. P(c)
  BY <1>3, Zenon
<1>5. c[0] = f[0] /\ \A i \in 1 .. n : c[i] = Base * c[i - 1]
  <2>. HIDE DEF c
  <2>. QED
    BY <1>2, <1>4
<1>6. \A i \in 0 .. n : c[i] = f[i]
  <2>1. \A i \in 0 .. n - 1 : c[i] = f[i] => c[i + 1] = f[i + 1]
    <3>. HIDE DEF c
    <3>. QED
      BY <1>2, <1>5
  <2>. HIDE DEF c
  <2>. QED
    BY <1>5, <2>1, Alike, SMTT(30)
<1>7. Power(n) = c[n]
  BY Zenon DEF Power
<1>. HIDE DEF c
<1>. QED
  BY <1>2, <1>6, <1>7 DEF PowerFun

LEMMA PowerProperties ==
    /\ Power(0) = 1
    /\ \A n \in Nat : Power(n) \in Nat \ {0} /\ Power(n + 1) = Base * Power(n)
<1>1. Power(0) = 1
  <2>1. PICK f : PowerFun(f, 0) /\ Power(0) = f[0]
    BY PowerIs
  <2>. QED
    BY <2>1 DEF PowerFun
<1>2. ASSUME NEW n \in Nat
      PROVE  Power(n) \in Nat \ {0} /\ Power(n + 1) = Base * Power(n)
  <2>1. PICK f : PowerFun(f, n) /\ Power(n) = f[n]
    BY PowerIs
  <2>2. PICK g : PowerFun(g, n + 1) /\ Power(n + 1) = g[n + 1]
    BY PowerIs
  <2>3. g[0] = f[0] /\ \A i \in 0 .. n - 1 : g[i] = f[i] => g[i + 1] = f[i + 1]
    BY <2>1, <2>2 DEF PowerFun
  <2>4. \A i \in 0 .. n : g[i] = f[i]
    BY <2>3, Alike
  <2>. QED
    BY <2>1, <2>2, <2>4 DEF PowerFun
<1>. QED
  BY <1>1, <1>2

LEMMA Division ==
    ASSUME NEW n \in Nat, NEW p \in Nat \ {0}
    PROVE  n \div p \in Nat /\ n % p \in 0 .. p - 1 /\ n = (n \div p) * p + (n % p)
OBVIOUS

LEMMA DivisionUnique ==
    ASSUME NEW n \in Nat, NEW p \in Nat \ {0}, NEW q \in Nat, NEW r \in 0 .. p - 1, n = q * p + r
    PROVE  n \div p = q
OBVIOUS

\* To divide by p and then by b is to divide by b * p.
LEMMA DivisionTwice ==
    ASSUME NEW n \in Nat, NEW p \in Nat \ {0}, NEW b \in Nat \ {0}
    PROVE  n \div (b * p) = (n \div p) \div b
<1>. DEFINE m == n \div p
            r == n % p
            q == m \div b
            s == m % b
<1>1. m \in Nat /\ r \in 0 .. p - 1 /\ n = m * p + r
  BY Division
<1>2. q \in Nat /\ s \in 0 .. b - 1 /\ m = q * b + s
  BY <1>1, Division
<1>. HIDE DEF m, r, q, s
<1>3. n = q * (b * p) + (s * p + r)
  <2>1. m * p = (q * b) * p + s * p
    BY <1>2
  <2>2. (q * b) * p = q * (b * p)
    BY <1>2
  <2>. QED
    BY <1>1, <1>2, <2>1, <2>2
<1>4. s * p + r \in 0 .. b * p - 1
  <2>1. s * p <= (b - 1) * p
    BY <1>2
  <2>2. (b - 1) * p = b * p - p
    OBVIOUS
  <2>3. s * p \in Nat
    BY <1>2
  <2>. QED
    BY <1>1, <2>1, <2>2, <2>3
<1>5. b * p \in Nat \ {0}
  OBVIOUS
<1>6. n \div (b * p) = q
  BY <1>2, <1>3, <1>4, <1>5, DivisionUnique
<1>. QED
  BY <1>6 DEF q, m

LEMMA DivisionStep ==
    ASSUME NEW n \in Nat, NEW p \in Nat \ {0}, NEW b \in Nat \ {0}
    PROVE  (n \div (b * p)) * b + ((n \div p) % b) = n \div p
<1>. DEFINE m == n \div p
<1>1. m \in Nat /\ n \div (b * p) = m \div b
  BY DivisionTwice, Division
<1>. HIDE DEF m
<1>2. (m \div b) * b + (m % b) = m
  BY <1>1, Division
<1>. QED
  BY <1>1, <1>2 DEF m
LEMMA ByteOf ==
    ASSUME NEW s \in Seq(Byte)
    PROVE  Len(s) \in Nat /\ \A i \in 1 .. Len(s) : s[i] \in Byte /\ s[i] \in Nat
<1>1. \A i \in 1 .. Len(s) : s[i] \in Byte
  BY ElementOfSeq
<1>2. \A x \in Byte : x \in Nat
  BY DEF Byte
<1>3. Len(s) \in Nat
  BY LenProperties
<1>. QED
  BY <1>1, <1>2, <1>3, Zenon

NumberFun(f, d) == /\ f \in [0 .. Len(d) -> Nat]
                   /\ f[0] = 0
                   /\ \A i \in 1 .. Len(d) : f[i] = f[i - 1] * Base + d[i]

LEMMA NumberIs ==
    ASSUME NEW d \in Seq(Byte)
    PROVE  /\ \E f : NumberFun(f, d) /\ Number(d) = f[Len(d)]
           /\ Number(d) \in Nat
<1>. DEFINE n == Len(d)
            P(f) == f = [i \in 0 .. Len(d) |-> IF i = 0 THEN 0 ELSE f[i - 1] * Base + d[i]]
            c == CHOOSE f : P(f)
            h == [i \in 1 .. n |-> [v \in Nat |-> v * Base + d[i]]]
<1>0. n \in Nat /\ \A i \in 1 .. n : d[i] \in Nat
  BY ByteOf
<1>1. PICK f : Iterates(f, n, Nat, 0, h)
  <2>0. \A i \in 1 .. n : [v \in Nat |-> v * Base + d[i]] \in [Nat -> Nat]
    BY <1>0, Widths
  <2>1. h \in [1 .. n -> [Nat -> Nat]] /\ 0 \in Nat
    BY <2>0
  <2>. HIDE DEF h, n
  <2>. QED
    BY <1>0, <2>1, Iteration
<1>2. /\ f \in [0 .. n -> Nat] /\ f[0] = 0
      /\ \A i \in 1 .. n : f[i] = f[i - 1] * Base + d[i]
  <2>1. \A i \in 1 .. n : \A v \in Nat : h[i][v] = v * Base + d[i]
    OBVIOUS
  <2>. HIDE DEF h
  <2>2. f \in [0 .. n -> Nat] /\ f[0] = 0 /\ \A i \in 1 .. n : f[i] = h[i][f[i - 1]]
    BY <1>1 DEF Iterates
  <2>3. \A i \in 1 .. n : f[i - 1] \in Nat
    BY <2>2, SMTT(30)
  <2>. QED
    BY <2>1, <2>2, <2>3
<1>3. P(f)
  BY <1>2
<1>4. P(c)
  BY <1>3, Zenon
<1>5. c[0] = f[0] /\ \A i \in 1 .. n : c[i] = c[i - 1] * Base + d[i]
  <2>. HIDE DEF c
  <2>. QED
    BY <1>2, <1>4
<1>6. \A i \in 0 .. n : c[i] = f[i]
  <2>1. \A i \in 0 .. n - 1 : c[i] = f[i] => c[i + 1] = f[i + 1]
    <3>1. \A i \in 0 .. n - 1 : i + 1 \in 1 .. n /\ (i + 1) - 1 = i
      BY <1>0
    <3>. HIDE DEF c
    <3>. QED
      BY <1>2, <1>5, <3>1
  <2>. HIDE DEF c
  <2>. QED
    BY <1>0, <1>5, <2>1, Alike, ZenonT(40)
<1>7. Number(d) = c[n]
  BY Zenon DEF Number
<1>. HIDE DEF c
<1>8. Number(d) = f[n] /\ f[n] \in Nat
  BY <1>0, <1>2, <1>6, <1>7
<1>9. NumberFun(f, d)
  BY <1>2 DEF NumberFun
<1>. QED
  BY <1>8, <1>9

LEMMA NumberOfDigits ==
    ASSUME NEW n \in Nat, NEW w \in Nat, n < Power(w)
    PROVE  /\ Digits(n, w) \in Seq(Byte) /\ Len(Digits(n, w)) = w
           /\ Number(Digits(n, w)) = n
<1>. DEFINE d == Digits(n, w)
            g == [i \in 0 .. w |-> n \div Power(w - i)]
<1>0. \A i \in 0 .. w : w - i \in Nat /\ Power(w - i) \in Nat \ {0}
  BY PowerProperties
<1>1. \A i \in 1 .. w : /\ d[i] = (n \div Power(w - i)) % Base
                        /\ d[i] \in Byte
  <2>. SUFFICES ASSUME NEW i \in 1 .. w
                PROVE  /\ d[i] = (n \div Power(w - i)) % Base
                       /\ d[i] \in Byte
    OBVIOUS
  <2>1. d[i] = (n \div Power(w - i)) % Base
    BY DEF Digits
  <2>2. n \div Power(w - i) \in Nat
    BY <1>0, Division, SMTT(30)
  <2>3. (n \div Power(w - i)) % Base \in 0 .. Base - 1
    BY <2>2, Widths, Division
  <2>. QED
    BY <2>1, <2>3, Widths DEF Byte
<1>2. d \in Seq(Byte) /\ Len(d) = w
  BY <1>1 DEF Digits
<1>3. PICK f : NumberFun(f, d) /\ Number(d) = f[Len(d)]
  BY <1>2, NumberIs
<1>4. f[0] = g[0]
  <2>1. g[0] = n \div Power(w)
    OBVIOUS
  <2>2. n \div Power(w) = 0
    <3>1. n = 0 * Power(w) + n /\ n \in 0 .. Power(w) - 1 /\ Power(w) \in Nat \ {0}
      BY PowerProperties
    <3>. QED
      BY <3>1, DivisionUnique
  <2>. QED
    BY <1>3, <2>1, <2>2 DEF NumberFun
<1>5. ASSUME NEW i \in 0 .. w - 1, f[i] = g[i]
      PROVE  f[i + 1] = g[i + 1]
  <2>. DEFINE k == w - (i + 1)
  <2>1. k \in Nat /\ w - i = k + 1 /\ Power(k) \in Nat \ {0} /\ Power(k + 1) = Base * Power(k)
    BY PowerProperties
  <2>2. g[i] = n \div (Base * Power(k)) /\ g[i + 1] = n \div Power(k)
    BY <2>1
  <2>3. i + 1 \in 1 .. Len(d) /\ (i + 1) - 1 = i
    BY <1>2
  <2>4. f[i + 1] = f[i] * Base + d[i + 1]
    BY <1>3, <2>3 DEF NumberFun
  <2>5. d[i + 1] = (n \div Power(k)) % Base
    BY <1>1, <1>2, <2>3
  <2>6. (n \div (Base * Power(k))) * Base + ((n \div Power(k)) % Base) = n \div Power(k)
    BY <2>1, Widths, DivisionStep
  <2>. HIDE DEF k, d, g
  <2>. QED
    BY <1>5, <2>2, <2>4, <2>5, <2>6
<1>6. \A i \in 0 .. w : f[i] = g[i]
  <2>. HIDE DEF g, d
  <2>. QED
    BY <1>4, <1>5, Alike
<1>7. g[w] = n
  <2>1. g[w] = n \div Power(0)
    OBVIOUS
  <2>. QED
    BY <2>1, PowerProperties
<1>. QED
  BY <1>2, <1>3, <1>6, <1>7
-----------------------------------------------------------------------------
(***************************************************************************)
(* Masking.                                                                *)
(***************************************************************************)
BitOf(n, w) == (n \div w) % 2

LEMMA ByteIsBits ==
    ASSUME NEW a \in Byte
    PROVE  a = BitOf(a, 1) + 2 * BitOf(a, 2) + 4 * BitOf(a, 4) + 8 * BitOf(a, 8) + 16 * BitOf(a, 16)
               + 32 * BitOf(a, 32) + 64 * BitOf(a, 64) + 128 * BitOf(a, 128)
BY SMTT(100) DEF BitOf, Byte

LEMMA BitsOfByte ==
    ASSUME NEW a \in 0 .. 1, NEW b \in 0 .. 1, NEW c \in 0 .. 1, NEW d \in 0 .. 1, NEW e \in 0 .. 1,
           NEW f \in 0 .. 1, NEW g \in 0 .. 1, NEW h \in 0 .. 1, NEW x,
           x = a + 2 * b + 4 * c + 8 * d + 16 * e + 32 * f + 64 * g + 128 * h
    PROVE  /\ x \in Byte
           /\ BitOf(x, 1) = a /\ BitOf(x, 2) = b /\ BitOf(x, 4) = c /\ BitOf(x, 8) = d
           /\ BitOf(x, 16) = e /\ BitOf(x, 32) = f /\ BitOf(x, 64) = g /\ BitOf(x, 128) = h
BY SMTT(100) DEF BitOf, Byte

\* The bit of weight w of the exclusive or.
Differ(a, b, w) == (BitOf(a, w) + BitOf(b, w)) % 2

LEMMA XorBits ==
    ASSUME NEW a \in Byte, NEW b \in Byte
    PROVE  /\ Xor(a, b) \in Byte
           /\ \A w \in {1, 2, 4, 8, 16, 32, 64, 128} : BitOf(Xor(a, b), w) = Differ(a, b, w)
<1>. DEFINE D(w) == Differ(a, b, w)
<1>1. \A w \in {1, 2, 4, 8, 16, 32, 64, 128} :
          D(w) \in 0 .. 1 /\ XorBit(a, b, w) = w * D(w)
  BY DEF Differ, BitOf, XorBit, Byte
<1>2. Xor(a, b) = D(1) + 2 * D(2) + 4 * D(4) + 8 * D(8) + 16 * D(16) + 32 * D(32) + 64 * D(64)
                  + 128 * D(128)
  BY <1>1 DEF Xor
<1>. HIDE DEF D
<1>3. /\ Xor(a, b) \in Byte
      /\ BitOf(Xor(a, b), 1) = D(1) /\ BitOf(Xor(a, b), 2) = D(2) /\ BitOf(Xor(a, b), 4) = D(4)
      /\ BitOf(Xor(a, b), 8) = D(8) /\ BitOf(Xor(a, b), 16) = D(16) /\ BitOf(Xor(a, b), 32) = D(32)
      /\ BitOf(Xor(a, b), 64) = D(64) /\ BitOf(Xor(a, b), 128) = D(128)
  BY <1>1, <1>2, BitsOfByte
<1>. QED
  BY <1>3 DEF D

\* To mask twice is not to mask.
LEMMA XorTwice ==
    ASSUME NEW a \in Byte, NEW b \in Byte
    PROVE  Xor(a, b) \in Byte /\ Xor(Xor(a, b), b) = a
<1>. DEFINE x == Xor(a, b)
            W == {1, 2, 4, 8, 16, 32, 64, 128}
<1>1. x \in Byte /\ Xor(x, b) \in Byte
  BY XorBits
<1>2. \A w \in W : BitOf(x, w) = Differ(a, b, w) /\ BitOf(Xor(x, b), w) = Differ(x, b, w)
  BY <1>1, XorBits
<1>. HIDE DEF x
<1>3. \A w \in W : BitOf(a, w) \in 0 .. 1 /\ BitOf(b, w) \in 0 .. 1
  BY DEF BitOf, Byte
<1>4. \A p, q \in 0 .. 1 : (((p + q) % 2) + q) % 2 = p
  OBVIOUS
<1>5. \A w \in W : BitOf(Xor(x, b), w) = BitOf(a, w)
  BY <1>2, <1>3, <1>4 DEF Differ
<1>6. Xor(x, b) = a
  BY <1>1, <1>5, ByteIsBits
<1>. QED
  BY <1>1, <1>6 DEF x

LEMMA MaskTwice ==
    ASSUME NEW s \in Seq(Byte), NEW key \in Seq(Byte), Len(key) = 4
    PROVE  /\ ApplyMask(s, key) \in Seq(Byte) /\ Len(ApplyMask(s, key)) = Len(s)
           /\ ApplyMask(ApplyMask(s, key), key) = s
<1>. DEFINE k(i) == key[((i - 1) % 4) + 1]
            t == ApplyMask(s, key)
<1>1. \A i \in 1 .. Len(s) : s[i] \in Byte /\ k(i) \in Byte
  <2>1. \A i \in 1 .. Len(s) : ((i - 1) % 4) + 1 \in 1 .. 4
    OBVIOUS
  <2>. QED
    BY <2>1, ByteOf
<1>2. t = [i \in 1 .. Len(s) |-> Xor(s[i], k(i))]
  BY DEF ApplyMask
<1>3. \A i \in 1 .. Len(s) : t[i] = Xor(s[i], k(i)) /\ t[i] \in Byte
  BY <1>1, <1>2, XorTwice
<1>4. t \in Seq(Byte) /\ Len(t) = Len(s)
  BY <1>2, <1>3
<1>5. ApplyMask(t, key) = [i \in 1 .. Len(s) |-> Xor(t[i], k(i))]
  BY <1>4 DEF ApplyMask
<1>6. \A i \in 1 .. Len(s) : Xor(t[i], k(i)) = s[i]
  BY <1>1, <1>3, XorTwice
<1>7. ApplyMask(t, key) = s
  BY <1>5, <1>6
<1>. QED
  BY <1>4, <1>7
-----------------------------------------------------------------------------
(***************************************************************************)
(* The header of a frame and what it says of the bytes behind it.          *)
(***************************************************************************)
LEMMA SubSeqIs ==
    ASSUME NEW X, NEW s \in Seq(X), NEW m \in Nat \ {0}, NEW n \in Nat, n <= Len(s)
    PROVE  /\ SubSeq(s, m, n) \in Seq(X)
           /\ m <= n + 1 => Len(SubSeq(s, m, n)) = n + 1 - m
           /\ \A i \in 1 .. n + 1 - m : SubSeq(s, m, n)[i] = s[m + i - 1]
OBVIOUS

LEMMA SubSeqOfPrefix ==
    ASSUME NEW X, NEW s \in Seq(X), NEW t \in Seq(X), NEW m \in Nat \ {0}, NEW n \in Nat, n <= Len(s)
    PROVE  SubSeq(s \o t, m, n) = SubSeq(s, m, n)
OBVIOUS

LEMMA Prefix ==
    ASSUME NEW X, NEW s \in Seq(X), NEW t \in Seq(X)
    PROVE  /\ s \o t \in Seq(X) /\ Len(s \o t) = Len(s) + Len(t)
           /\ \A i \in 1 .. Len(s) : (s \o t)[i] = s[i]
OBVIOUS

\* The first two bytes alone.
LEMMA HeaderType ==
    ASSUME NEW b \in Seq(Byte), Len(b) >= 2
    PROVE  /\ OpcodeOf(b) \in 0 .. 15 /\ Fin(b) \in BOOLEAN /\ Masked(b) \in BOOLEAN
           /\ ReservedBits(b) \in Nat /\ ShortLen(b) \in 0 .. 127
           /\ Extra(b) \in Nat /\ Extra(b) \in {0, 2, Wide}
           /\ HeaderSize(b) \in Nat /\ HeaderSize(b) = 2 + Extra(b) + (IF Masked(b) THEN 4 ELSE 0)
<1>1. b[1] \in Nat /\ b[2] \in Nat
  BY ByteOf
<1>2. Extra(b) \in Nat /\ Extra(b) \in {0, 2, Wide}
  BY Widths DEF Extra
<1>3. HeaderSize(b) \in Nat /\ HeaderSize(b) = 2 + Extra(b) + (IF Masked(b) THEN 4 ELSE 0)
  BY <1>2 DEF HeaderSize
<1>4. Fin(b) \in BOOLEAN /\ Masked(b) \in BOOLEAN
  BY DEF Fin, Masked
<1>5. OpcodeOf(b) \in 0 .. 15 /\ ShortLen(b) \in 0 .. 127
  <2>1. \A n \in Nat : n % 16 \in 0 .. 15 /\ n % 128 \in 0 .. 127
    OBVIOUS
  <2>. QED
    BY <1>1, <2>1 DEF OpcodeOf, ShortLen
<1>6. ReservedBits(b) \in Nat
  BY <1>1 DEF ReservedBits
<1>. QED
  BY <1>2, <1>3, <1>4, <1>5, <1>6

LEMMA LengthType ==
    ASSUME NEW b \in Seq(Byte), Len(b) >= 2, Len(b) >= 2 + Extra(b)
    PROVE  /\ PayloadLen(b) \in Nat /\ TotalSize(b) \in Nat
           /\ TotalSize(b) = HeaderSize(b) + PayloadLen(b) /\ TotalSize(b) >= 2
<1>1. PayloadLen(b) \in Nat
  <2>1. CASE Extra(b) = 0
    <3>1. ShortLen(b) \in 0 .. 127
      BY HeaderType
    <3>2. PayloadLen(b) = ShortLen(b)
      BY <2>1 DEF PayloadLen
    <3>3. \A n \in 0 .. 127 : n \in Nat
      OBVIOUS
    <3>. QED
      BY <3>1, <3>2, <3>3, Zenon
  <2>2. CASE Extra(b) # 0
    <3>1. SubSeq(b, 3, 2 + Extra(b)) \in Seq(Byte)
      BY SubSeqIs, HeaderType, LenProperties
    <3>. QED
      BY <2>2, <3>1, NumberIs DEF PayloadLen
  <2>. QED
    BY <2>1, <2>2
<1>. QED
  BY <1>1, HeaderType DEF TotalSize

LEMMA HeaderOfPrefix ==
    ASSUME NEW a \in Seq(Byte), NEW b \in Seq(Byte), Len(a) >= 2
    PROVE  /\ a \o b \in Seq(Byte) /\ Len(a \o b) = Len(a) + Len(b)
           /\ OpcodeOf(a \o b) = OpcodeOf(a) /\ ReservedBits(a \o b) = ReservedBits(a)
           /\ Fin(a \o b) = Fin(a) /\ Masked(a \o b) = Masked(a)
           /\ Extra(a \o b) = Extra(a) /\ HeaderSize(a \o b) = HeaderSize(a)
           /\ Len(a) >= 2 + Extra(a) => /\ PayloadLen(a \o b) = PayloadLen(a)
                                        /\ TotalSize(a \o b) = TotalSize(a)
<1>1. /\ a \o b \in Seq(Byte) /\ Len(a \o b) = Len(a) + Len(b)
      /\ (a \o b)[1] = a[1] /\ (a \o b)[2] = a[2]
  <2>1. 1 \in 1 .. Len(a) /\ 2 \in 1 .. Len(a)
    BY LenProperties
  <2>. QED
    BY <2>1, Prefix
<1>2. ShortLen(a \o b) = ShortLen(a) /\ Masked(a \o b) = Masked(a)
  BY <1>1 DEF ShortLen, Masked
<1>3. Extra(a \o b) = Extra(a) /\ HeaderSize(a \o b) = HeaderSize(a)
  BY <1>2 DEF Extra, HeaderSize
<1>4. ASSUME Len(a) >= 2 + Extra(a)
      PROVE  PayloadLen(a \o b) = PayloadLen(a)
  <2>1. SubSeq(a \o b, 3, 2 + Extra(a)) = SubSeq(a, 3, 2 + Extra(a))
    <3>1. /\ Extra(a) \in Nat /\ Len(a) \in Nat
          /\ 3 \in Nat \ {0} /\ 2 + Extra(a) \in Nat /\ 2 + Extra(a) <= Len(a)
      BY <1>4, HeaderType, LenProperties
    <3>. QED
      BY <3>1, SubSeqOfPrefix
  <2>2. Number(SubSeq(a \o b, 3, 2 + Extra(a \o b))) = Number(SubSeq(a, 3, 2 + Extra(a)))
    BY <1>3, <2>1, Zenon
  <2>. QED
    BY <1>2, <1>3, <2>2, Zenon DEF PayloadLen
<1>5. Len(a) >= 2 + Extra(a) => TotalSize(a \o b) = TotalSize(a)
  BY <1>3, <1>4 DEF TotalSize
<1>. QED
  BY <1>1, <1>2, <1>3, <1>4, <1>5 DEF OpcodeOf, ReservedBits, Fin

\* What FrontOf tells of a header.
LEMMA FrontCases ==
    ASSUME NEW b \in Seq(Byte)
    PROVE  /\ FrontOf(b) \in {"more", "error", "frame"}
           /\ FrontOf(b) = "frame" =>
                 /\ Len(b) >= 2 /\ Len(b) >= 2 + Extra(b) /\ OpcodeOf(b) \in Opcodes
                 /\ ReservedBits(b) = 0 /\ PayloadLen(b) <= MaxFrame
                 /\ IsControl(OpcodeOf(b)) => PayloadLen(b) <= Inline /\ Fin(b)
                 /\ TotalSize(b) \in 2 .. Len(b)
<1>1. FrontOf(b) \in {"more", "error", "frame"}
  BY DEF FrontOf
<1>2. ASSUME FrontOf(b) = "frame"
      PROVE  Len(b) >= 2 /\ Len(b) >= 2 + Extra(b) /\ Len(b) >= TotalSize(b)
  <2>0. Len(b) \in Nat
    BY LenProperties
  <2>1. Len(b) >= 2
    BY <1>2, <2>0 DEF FrontOf
  <2>2. Len(b) >= 2 + Extra(b)
    BY <1>2, <2>0, <2>1, HeaderType DEF FrontOf
  <2>3. Len(b) >= TotalSize(b)
    BY <1>2, <2>0, <2>1, <2>2, LengthType DEF FrontOf
  <2>. QED
    BY <2>1, <2>2, <2>3
<1>3. ASSUME FrontOf(b) = "frame"
      PROVE  /\ OpcodeOf(b) \in Opcodes /\ ReservedBits(b) = 0 /\ PayloadLen(b) <= MaxFrame
             /\ IsControl(OpcodeOf(b)) => PayloadLen(b) <= Inline /\ Fin(b)
  <2>1. PayloadLen(b) \in Nat /\ Fin(b) \in BOOLEAN
    BY <1>2, <1>3, LengthType, HeaderType
  <2>2. OpcodeOf(b) \in Opcodes /\ ReservedBits(b) = 0
    BY <1>3 DEF FrontOf
  <2>3. ~(PayloadLen(b) > MaxFrame)
    BY <1>3 DEF FrontOf
  <2>4. ~(IsControl(OpcodeOf(b)) /\ (PayloadLen(b) > Inline \/ ~Fin(b)))
    BY <1>3 DEF FrontOf
  <2>. QED
    BY <2>1, <2>2, <2>3, <2>4, Widths
<1>4. FrontOf(b) = "frame" => TotalSize(b) \in 2 .. Len(b)
  BY <1>2, LengthType, LenProperties
<1>. QED
  BY <1>1, <1>2, <1>3, <1>4

\* A frame, or an error, at the front stays there whatever follows.
LEMMA FrontStays ==
    ASSUME NEW a \in Seq(Byte), NEW b \in Seq(Byte)
    PROVE  /\ FrontOf(a) # "more" => FrontOf(a \o b) = FrontOf(a)
           /\ FrontOf(a) = "frame" => /\ TotalSize(a \o b) = TotalSize(a)
                                      /\ FrameOf(a \o b) = FrameOf(a)
<1>0. Len(a) \in Nat /\ Len(b) \in Nat
  BY LenProperties
<1>1. ASSUME FrontOf(a) # "more"
      PROVE  FrontOf(a \o b) = FrontOf(a)
  <2>1. Len(a) >= 2
    BY <1>0, <1>1 DEF FrontOf
  <2>2. Extra(a) \in Nat
    BY <2>1, HeaderType
  <2>3. CASE OpcodeOf(a) \notin Opcodes \/ ReservedBits(a) # 0
    BY <1>0, <2>1, <2>3, HeaderOfPrefix DEF FrontOf
  <2>4. CASE ~(OpcodeOf(a) \notin Opcodes \/ ReservedBits(a) # 0)
    <3>1. Len(a) >= 2 + Extra(a)
      BY <1>0, <1>1, <2>1, <2>2, <2>4 DEF FrontOf
    <3>2. TotalSize(a) \in Nat /\ PayloadLen(a) \in Nat
      BY <2>1, <3>1, LengthType
    <3>3. FrontOf(a) = "frame" => Len(a \o b) >= TotalSize(a)
      BY <1>0, <2>1, FrontCases, HeaderOfPrefix
    <3>4. ~(Len(a \o b) < 2) /\ ~(Len(a \o b) < 2 + Extra(a \o b))
      BY <1>0, <2>1, <2>2, <3>1, HeaderOfPrefix
    <3>5. /\ OpcodeOf(a \o b) = OpcodeOf(a) /\ ReservedBits(a \o b) = ReservedBits(a)
          /\ Fin(a \o b) = Fin(a) /\ PayloadLen(a \o b) = PayloadLen(a)
          /\ TotalSize(a \o b) = TotalSize(a) /\ Len(a \o b) = Len(a) + Len(b)
      BY <2>1, <3>1, HeaderOfPrefix
    <3>6. CASE FrontOf(a) = "frame"
      <4>1. ~(Len(a \o b) < TotalSize(a))
        BY <1>0, <3>2, <3>3, <3>5, <3>6
      <4>2. /\ ~(PayloadLen(a) > MaxFrame)
            /\ ~(IsControl(OpcodeOf(a)) /\ (PayloadLen(a) > Inline \/ ~Fin(a)))
        BY <3>6 DEF FrontOf
      <4>. QED
        BY <2>4, <3>4, <3>5, <3>6, <4>1, <4>2 DEF FrontOf
    <3>7. CASE FrontOf(a) = "error"
      <4>1. \/ PayloadLen(a) > MaxFrame
            \/ IsControl(OpcodeOf(a)) /\ (PayloadLen(a) > Inline \/ ~Fin(a))
        BY <2>4, <3>7 DEF FrontOf
      <4>. QED
        BY <2>4, <3>4, <3>5, <3>7, <4>1 DEF FrontOf
    <3>. QED
      BY <1>1, <3>6, <3>7, FrontCases
  <2>. QED
    BY <2>3, <2>4
<1>2. ASSUME FrontOf(a) = "frame"
      PROVE  /\ TotalSize(a \o b) = TotalSize(a)
             /\ FrameOf(a \o b) = FrameOf(a)
  <2>1. Len(a) >= 2 /\ Len(a) >= 2 + Extra(a) /\ TotalSize(a) \in 2 .. Len(a)
    BY <1>2, FrontCases
  <2>2. /\ OpcodeOf(a \o b) = OpcodeOf(a) /\ Fin(a \o b) = Fin(a) /\ Masked(a \o b) = Masked(a)
        /\ HeaderSize(a \o b) = HeaderSize(a) /\ TotalSize(a \o b) = TotalSize(a)
    BY <2>1, HeaderOfPrefix
  <2>3. /\ HeaderSize(a) \in Nat /\ HeaderSize(a) <= Len(a)
        /\ Masked(a) => HeaderSize(a) - 3 \in Nat \ {0}
    BY <1>0, <2>1, HeaderType, LengthType, SMTT(30)
  <2>4. SubSeq(a \o b, HeaderSize(a) + 1, TotalSize(a)) = SubSeq(a, HeaderSize(a) + 1, TotalSize(a))
    <3>1. HeaderSize(a) + 1 \in Nat \ {0} /\ TotalSize(a) \in Nat /\ TotalSize(a) <= Len(a)
      BY <1>0, <2>1, <2>3
    <3>. QED
      BY <3>1, SubSeqOfPrefix
  <2>5. Masked(a) => SubSeq(a \o b, HeaderSize(a) - 3, HeaderSize(a))
                         = SubSeq(a, HeaderSize(a) - 3, HeaderSize(a))
    BY <2>3, SubSeqOfPrefix
  <2>. QED
    BY <2>2, <2>4, <2>5 DEF FrameOf
<1>. QED
  BY <1>1, <1>2

\* What is parsed is within the limits.
LEMMA FrameType ==
    ASSUME NEW b \in Seq(Byte), FrontOf(b) = "frame"
    PROVE  /\ FrameOf(b) \in Frames(Opcodes) /\ Acceptable(FrameOf(b))
           /\ IsControl(FrameOf(b).op) => FrameOf(b).fin = TRUE
<1>. DEFINE body == SubSeq(b, HeaderSize(b) + 1, TotalSize(b))
            key == SubSeq(b, HeaderSize(b) - 3, HeaderSize(b))
<1>1. Len(b) >= 2 /\ Len(b) >= 2 + Extra(b) /\ TotalSize(b) \in 2 .. Len(b) /\ Len(b) \in Nat
  BY FrontCases, LenProperties
<1>2. /\ HeaderSize(b) \in Nat /\ PayloadLen(b) \in Nat
      /\ TotalSize(b) = HeaderSize(b) + PayloadLen(b)
      /\ Masked(b) => HeaderSize(b) - 3 \in Nat \ {0}
  BY <1>1, HeaderType, LengthType
<1>3. body \in Seq(Byte) /\ Len(body) = PayloadLen(b)
  BY <1>1, <1>2, SubSeqIs
<1>4. Masked(b) => key \in Seq(Byte) /\ Len(key) = 4
  BY <1>1, <1>2, SubSeqIs
<1>. HIDE DEF body, key
<1>5. Masked(b) => ApplyMask(body, key) \in Seq(Byte) /\ Len(ApplyMask(body, key)) = PayloadLen(b)
  BY <1>3, <1>4, MaskTwice
<1>6. FrameOf(b) = [op |-> OpcodeOf(b), fin |-> Fin(b),
                    payload |-> IF Masked(b) THEN ApplyMask(body, key) ELSE body]
  BY DEF FrameOf, body, key
<1>7. /\ OpcodeOf(b) \in Opcodes /\ Fin(b) \in BOOLEAN
      /\ PayloadLen(b) <= MaxFrame /\ (IsControl(OpcodeOf(b)) => PayloadLen(b) <= Inline)
      /\ IsControl(OpcodeOf(b)) => Fin(b) = TRUE
  BY <1>1, FrontCases, HeaderType
<1>8. FrameOf(b).payload \in Seq(Byte) /\ Len(FrameOf(b).payload) = PayloadLen(b)
  BY <1>3, <1>5, <1>6
<1>. QED
  BY <1>6, <1>7, <1>8 DEF Frames, Acceptable
-----------------------------------------------------------------------------
(***************************************************************************)
(* What is encoded is decoded again, or refused for a reason.              *)
(***************************************************************************)
LEMMA Middle ==
    ASSUME NEW X, NEW s \in Seq(X), NEW t \in Seq(X)
    PROVE  /\ SubSeq(s \o t, Len(s) + 1, Len(s) + Len(t)) = t
           /\ \A u \in Seq(X) : SubSeq((s \o t) \o u, Len(s) + 1, Len(s) + Len(t)) = t
OBVIOUS

LEMMA LengthForms ==
    ASSUME NEW n \in Nat, n < Power(Wide)
    PROVE  /\ LengthForm(n)[1] \in 0 .. Inline + 2 /\ LengthForm(n)[2] \in Seq(Byte)
           /\ \/ n <= Inline /\ LengthForm(n)[1] = n /\ LengthForm(n)[2] = <<>>
              \/ /\ LengthForm(n)[1] = Inline + 1 /\ Len(LengthForm(n)[2]) = 2
                 /\ Number(LengthForm(n)[2]) = n
              \/ /\ LengthForm(n)[1] = Inline + 2 /\ Len(LengthForm(n)[2]) = Wide /\ Wide # 0
                 /\ Number(LengthForm(n)[2]) = n
<1>1. CASE n <= Inline
  <2>1. LengthForm(n)[1] = n /\ LengthForm(n)[2] = <<>>
    BY <1>1 DEF LengthForm
  <2>. QED
    BY <1>1, <2>1, Widths
<1>2. CASE ~(n <= Inline) /\ n < Base * Base
  <2>1. Power(2) = Base * Base
    <3>1. Power(0 + 1) = Base * 1 /\ Power(1 + 1) = Base * Power(1)
      BY PowerProperties
    <3>. QED
      BY <3>1, Widths
  <2>2. /\ Digits(n, 2) \in Seq(Byte) /\ Len(Digits(n, 2)) = 2 /\ Number(Digits(n, 2)) = n
    BY <1>2, <2>1, NumberOfDigits
  <2>3. LengthForm(n)[1] = Inline + 1 /\ LengthForm(n)[2] = Digits(n, 2)
    BY <1>2 DEF LengthForm
  <2>. QED
    BY <2>2, <2>3, Widths
<1>3. CASE ~(n <= Inline) /\ ~(n < Base * Base)
  <2>1. /\ Digits(n, Wide) \in Seq(Byte) /\ Len(Digits(n, Wide)) = Wide
        /\ Number(Digits(n, Wide)) = n
    BY Widths, NumberOfDigits
  <2>2. LengthForm(n)[1] = Inline + 2 /\ LengthForm(n)[2] = Digits(n, Wide)
    BY <1>3 DEF LengthForm
  <2>3. Wide # 0
    BY <1>3, PowerProperties, Widths
  <2>. QED
    BY <2>1, <2>2, <2>3, Widths
<1>. QED
  BY <1>1, <1>2, <1>3

\* The frames that are written: none is a fragment, and the length fits.
Whole == {f \in Frames(0 .. 15) : f.fin = TRUE /\ Len(f.payload) < Power(Wide)}

LEMMA WholeIs ==
    ASSUME NEW f \in Whole
    PROVE  /\ f = [op |-> f.op, fin |-> TRUE, payload |-> f.payload]
           /\ f.op \in 0 .. 15 /\ f.payload \in Seq(Byte)
           /\ Len(f.payload) \in Nat /\ Len(f.payload) < Power(Wide)
BY DEF Whole, Frames

\* Hypotheses that are cited as one fact.
Joined(e, a, b, u, v) == /\ a \in Byte /\ b \in Byte /\ u \in Seq(Byte) /\ v \in Seq(Byte)
                         /\ e = (<<a, b>> \o u) \o v

LEMMA Parts ==
    ASSUME NEW a, NEW b, NEW u, NEW v, NEW e, Joined(e, a, b, u, v)
    PROVE  /\ e \in Seq(Byte) /\ Len(e) = 2 + Len(u) + Len(v) /\ e[1] = a /\ e[2] = b
           /\ SubSeq(e, 3, 2 + Len(u)) = u
           /\ SubSeq(e, 3 + Len(u), 2 + Len(u) + Len(v)) = v
BY DEF Joined

LEMMA ElementsOfConcat ==
    ASSUME NEW X, NEW s \in Seq(X), NEW t \in Seq(X)
    PROVE  /\ Len(s) \in Nat /\ Len(t) \in Nat /\ Len(s \o t) = Len(s) + Len(t)
           /\ \A i \in 1 .. Len(s) : (s \o t)[i] = s[i]
           /\ \A i \in 1 .. Len(t) : (s \o t)[Len(s) + i] = t[i]
OBVIOUS

LEMMA SameSeq ==
    ASSUME NEW X, NEW s \in Seq(X), NEW t \in Seq(X), Len(s) = Len(t),
           \A i \in 1 .. Len(s) : s[i] = t[i]
    PROVE  s = t
OBVIOUS

\* s consists of k in i .. p and v in j .. q from i on.
Cut(s, k, v, i, p, j, q) ==
    /\ s \in Seq(Byte) /\ k \in Seq(Byte) /\ v \in Seq(Byte) /\ Len(s) \in Nat
    /\ i \in Nat /\ j \in Nat /\ p \in Nat /\ i # 0 /\ p + 1 = j
    /\ j = i + Len(k) /\ Len(s) + 1 = j + Len(v) /\ q = Len(s)
    /\ SubSeq(s, i, q) = k \o v

LEMMA PartsOfTwo ==
    ASSUME NEW s, NEW k, NEW v, NEW i, NEW j, NEW p, NEW q, Cut(s, k, v, i, p, j, q)
    PROVE  SubSeq(s, i, p) = k /\ SubSeq(s, j, q) = v
<1>. s \in Seq(Byte) /\ k \in Seq(Byte) /\ v \in Seq(Byte) /\ Len(s) \in Nat
     /\ i \in Nat /\ j \in Nat /\ p \in Nat /\ i # 0 /\ p + 1 = j
     /\ j = i + Len(k) /\ Len(s) + 1 = j + Len(v) /\ q = Len(s)
     /\ SubSeq(s, i, q) = k \o v
  BY DEF Cut
<1>0. /\ Len(k) \in Nat /\ Len(v) \in Nat /\ p <= Len(s) /\ q <= Len(s)
      /\ i \in Nat \ {0} /\ j \in Nat \ {0} /\ q \in Nat
      /\ p + 1 - i = Len(k) /\ i <= p + 1 /\ q + 1 - j = Len(v) /\ j <= q + 1
      /\ q + 1 - i = Len(k) + Len(v)
  BY LenProperties
<1>1. \A m \in 1 .. Len(k) + Len(v) : (k \o v)[m] = s[i + m - 1]
  <2>1. \A m \in 1 .. q + 1 - i : SubSeq(s, i, q)[m] = s[i + m - 1]
    BY <1>0, SubSeqIs
  <2>. QED
    BY <1>0, <2>1
<1>2. \A m \in 1 .. Len(k) : s[i + m - 1] = k[m]
  <2>1. \A m \in 1 .. Len(k) : m \in 1 .. Len(k) + Len(v)
    BY <1>0
  <2>. QED
    BY <1>1, <2>1, ElementsOfConcat
<1>3. \A m \in 1 .. Len(v) : s[j + m - 1] = v[m]
  <2>. SUFFICES ASSUME NEW m \in 1 .. Len(v)
                PROVE  s[j + m - 1] = v[m]
    OBVIOUS
  <2>1. /\ Len(k) + m \in 1 .. Len(k) + Len(v)
        /\ i + (Len(k) + m) - 1 = j + m - 1
    BY <1>0
  <2>2. (k \o v)[Len(k) + m] = s[i + (Len(k) + m) - 1]
    BY <1>1, <2>1
  <2>3. (k \o v)[Len(k) + m] = v[m]
    BY ElementsOfConcat, SMTT(30)
  <2>. QED
    BY <2>1, <2>2, <2>3
<1>4. SubSeq(s, i, p) = k
  <2>1. /\ SubSeq(s, i, p) \in Seq(Byte) /\ Len(SubSeq(s, i, p)) = Len(k)
        /\ \A m \in 1 .. Len(k) : SubSeq(s, i, p)[m] = s[i + m - 1]
    BY <1>0, SubSeqIs
  <2>. QED
    BY <1>2, <2>1, SameSeq
<1>5. SubSeq(s, j, q) = v
  <2>1. /\ SubSeq(s, j, q) \in Seq(Byte) /\ Len(SubSeq(s, j, q)) = Len(v)
        /\ \A m \in 1 .. Len(v) : SubSeq(s, j, q)[m] = s[j + m - 1]
    BY <1>0, SubSeqIs
  <2>. QED
    BY <1>3, <2>1, SameSeq
<1>. QED
  BY <1>4, <1>5

\* The first two bytes.
Begins(e, o, x, masked) ==
    /\ e \in Seq(Byte) /\ o \in 0 .. 15 /\ x \in 0 .. 127 /\ masked \in BOOLEAN
    /\ e[1] = o + 128 /\ (masked = FALSE => e[2] = x) /\ (masked = TRUE => e[2] = x + 128)

LEMMA FirstTwo ==
    ASSUME NEW e, NEW o, NEW x, NEW masked, Begins(e, o, x, masked)
    PROVE  /\ OpcodeOf(e) = o /\ Fin(e) = TRUE /\ ReservedBits(e) = 0
           /\ ShortLen(e) = x /\ Masked(e) = masked
<1>. /\ e \in Seq(Byte) /\ o \in 0 .. 15 /\ x \in 0 .. 127 /\ masked \in BOOLEAN
     /\ e[1] = o + 128 /\ (masked = FALSE => e[2] = x) /\ (masked = TRUE => e[2] = x + 128)
  BY DEF Begins
<1>1. (o + 128) % 16 = o /\ o + 128 >= 128 /\ ((o + 128) \div 16) % 4 = 0
  OBVIOUS
<1>2. x % 128 = x /\ (x + 128) % 128 = x /\ ~(x >= 128) /\ x + 128 >= 128
  OBVIOUS
<1>3. OpcodeOf(e) = o /\ Fin(e) = TRUE /\ ReservedBits(e) = 0
  BY <1>1 DEF OpcodeOf, Fin, ReservedBits
<1>4. CASE masked = TRUE
  BY <1>2, <1>3, <1>4, ZenonT(40) DEF ShortLen, Masked
<1>5. CASE masked = FALSE
  BY <1>2, <1>3, <1>5 DEF ShortLen, Masked
<1>. QED
  BY <1>4, <1>5

\* The bytes of the length.
LEMMA LengthRead ==
    ASSUME NEW e \in Seq(Byte), NEW n \in Nat, n < Power(Wide), ShortLen(e) = LengthForm(n)[1],
           SubSeq(e, 3, 2 + Len(LengthForm(n)[2])) = LengthForm(n)[2]
    PROVE  Extra(e) = Len(LengthForm(n)[2]) /\ PayloadLen(e) = n
<1>. DEFINE x == LengthForm(n)[1]
            form == LengthForm(n)[2]
<1>1. CASE n <= Inline /\ x = n /\ form = <<>>
  <2>1. Extra(e) = 0
    BY <1>1 DEF Extra
  <2>. QED
    BY <1>1, <2>1 DEF PayloadLen
<1>2. CASE x = Inline + 1 /\ Len(form) = 2 /\ Number(form) = n
  <2>1. Extra(e) = 2
    BY <1>2, Widths DEF Extra
  <2>2. PayloadLen(e) = Number(SubSeq(e, 3, 2 + 2)) /\ SubSeq(e, 3, 2 + 2) = form
    BY <1>2, <2>1 DEF PayloadLen
  <2>. QED
    BY <1>2, <2>1, <2>2
<1>3. CASE x = Inline + 2 /\ Len(form) = Wide /\ Wide # 0 /\ Number(form) = n
  <2>1. Extra(e) = Wide
    BY <1>3, Widths DEF Extra
  <2>. QED
    BY <1>3, <2>1 DEF PayloadLen
<1>. QED
  BY <1>1, <1>2, <1>3, LengthForms

Body(f, masked) == IF masked THEN ApplyMask(f.payload, MaskKey) ELSE f.payload
Behind(f, masked) == IF masked THEN MaskKey \o Body(f, masked) ELSE Body(f, masked)

LEMMA BodyIs ==
    ASSUME NEW f \in Whole, NEW masked \in BOOLEAN
    PROVE  /\ MaskKey \in Seq(Byte) /\ Len(MaskKey) = 4
           /\ Body(f, masked) \in Seq(Byte) /\ Len(Body(f, masked)) = Len(f.payload)
           /\ masked = TRUE => ApplyMask(Body(f, masked), MaskKey) = f.payload
           /\ masked = FALSE => Body(f, masked) = f.payload
           /\ Behind(f, masked) \in Seq(Byte)
           /\ Len(Behind(f, masked)) = Len(f.payload) + (IF masked THEN 4 ELSE 0)
           /\ masked = TRUE => Behind(f, masked) = MaskKey \o Body(f, masked)
           /\ masked = FALSE => Behind(f, masked) = f.payload
<1>0. f.payload \in Seq(Byte) /\ Len(f.payload) \in Nat
  BY WholeIs
<1>1. MaskKey \in Seq(Byte) /\ Len(MaskKey) = 4
  BY DEF MaskKey, Byte
<1>2. CASE masked = TRUE
  <2>1. Body(f, masked) = ApplyMask(f.payload, MaskKey)
        /\ Behind(f, masked) = MaskKey \o Body(f, masked)
    BY <1>2 DEF Body, Behind
  <2>2. /\ Body(f, masked) \in Seq(Byte) /\ Len(Body(f, masked)) = Len(f.payload)
        /\ ApplyMask(Body(f, masked), MaskKey) = f.payload
    BY <1>0, <1>1, <2>1, MaskTwice
  <2>3. Behind(f, masked) \in Seq(Byte) /\ Len(Behind(f, masked)) = Len(f.payload) + 4
    <3>1. /\ MaskKey \o Body(f, masked) \in Seq(Byte)
          /\ Len(MaskKey \o Body(f, masked)) = 4 + Len(f.payload)
      <4>1. \A s, t \in Seq(Byte) : s \o t \in Seq(Byte) /\ Len(s \o t) = Len(s) + Len(t)
        BY Prefix
      <4>. QED
        BY <1>1, <2>2, <4>1
    <3>2. 4 + Len(f.payload) = Len(f.payload) + 4
      BY <1>0
    <3>. QED
      BY <2>1, <3>1, <3>2, Zenon
  <2>. QED
    BY <1>1, <1>2, <2>1, <2>2, <2>3
<1>3. CASE masked = FALSE
  <2>1. Body(f, masked) = f.payload /\ Behind(f, masked) = f.payload
    BY <1>3 DEF Body, Behind
  <2>. QED
    BY <1>0, <1>1, <1>3, <2>1
<1>. QED
  BY <1>2, <1>3

LEMMA EncodeHeader ==
    ASSUME NEW f \in Whole, NEW masked \in BOOLEAN, NEW e, e = Encode(f, masked)
    PROVE  /\ e \in Seq(Byte) /\ Len(e) >= 2 /\ Len(e) >= 2 + Extra(e)
           /\ OpcodeOf(e) = f.op /\ Fin(e) = TRUE /\ ReservedBits(e) = 0
           /\ PayloadLen(e) = Len(f.payload) /\ TotalSize(e) = Len(e) /\ FrameOf(e) = f
<1>. DEFINE n == Len(f.payload)
            x == LengthForm(n)[1]
            form == LengthForm(n)[2]
            a == f.op + 128
            b == x + (IF masked THEN 128 ELSE 0)
            v == Behind(f, masked)
            body == Body(f, masked)
            k == 2 + Len(form)
<1>1. /\ f = [op |-> f.op, fin |-> TRUE, payload |-> f.payload] /\ f.fin = TRUE
      /\ f.op \in 0 .. 15 /\ f.payload \in Seq(Byte) /\ n \in Nat /\ n < Power(Wide)
  BY WholeIs
<1>2. form \in Seq(Byte) /\ Len(form) \in Nat /\ k \in Nat
  BY <1>1, LengthForms, LenProperties
<1>3. x \in 0 .. 127
  <2>1. x \in 0 .. Inline + 2
    BY <1>1, LengthForms
  <2>2. \A y \in 0 .. Inline + 2 : y \in 0 .. 127
    BY Widths
  <2>. QED
    BY <2>1, <2>2, Zenon
<1>4. a \in Byte /\ b \in Byte
  <2>1. \A y \in 0 .. 127 : y + 128 \in Byte /\ y + 0 \in Byte
    BY DEF Byte
  <2>2. \A y \in 0 .. 15 : y + 128 \in Byte
    BY DEF Byte
  <2>3. CASE masked = TRUE
    BY <1>1, <1>3, <2>1, <2>2, <2>3
  <2>4. CASE masked = FALSE
    BY <1>1, <1>3, <2>1, <2>2, <2>4
  <2>. QED
    BY <2>3, <2>4
<1>5. v \in Seq(Byte) /\ Len(v) = n + (IF masked THEN 4 ELSE 0)
  BY BodyIs
<1>6. e = (<<a, b>> \o form) \o v
  BY <1>1 DEF Encode, Behind, Body
<1>. HIDE DEF v, body, a, b, form, x
<1>7. /\ e \in Seq(Byte) /\ Len(e) = k + Len(v) /\ e[1] = a /\ e[2] = b
      /\ SubSeq(e, 3, k) = form /\ SubSeq(e, k + 1, k + Len(v)) = v
  <2>1. /\ e \in Seq(Byte) /\ Len(e) = 2 + Len(form) + Len(v) /\ e[1] = a /\ e[2] = b
        /\ SubSeq(e, 3, 2 + Len(form)) = form
        /\ SubSeq(e, 3 + Len(form), 2 + Len(form) + Len(v)) = v
    <3>1. Joined(e, a, b, form, v)
      BY <1>2, <1>4, <1>5, <1>6, Zenon DEF Joined
    <3>. QED
      BY <3>1, Parts
  <2>2. 3 + Len(form) = k + 1
    BY <1>2
  <2>. QED
    BY <2>1, <2>2
<1>8. /\ OpcodeOf(e) = f.op /\ Fin(e) = TRUE /\ ReservedBits(e) = 0
      /\ ShortLen(e) = x /\ Masked(e) = masked
  <2>1. a = f.op + 128 /\ (masked = FALSE => b = x) /\ (masked = TRUE => b = x + 128)
    <3>1. \A y \in 0 .. 127 : y + 0 = y
      OBVIOUS
    <3>. QED
      BY <1>3, <3>1 DEF a, b
  <2>. QED
    <3>1. Begins(e, f.op, x, masked)
      BY <1>1, <1>3, <1>7, <2>1, Zenon DEF Begins
    <3>. QED
      BY <3>1, FirstTwo
<1>9. Extra(e) = Len(form) /\ PayloadLen(e) = n
  BY <1>1, <1>7, <1>8, LengthRead DEF x, form
<1>10. HeaderSize(e) = k + (IF masked THEN 4 ELSE 0)
  BY <1>8, <1>9 DEF HeaderSize
<1>. HIDE DEF k, n
<1>11. TotalSize(e) = Len(e) /\ k + Len(v) = HeaderSize(e) + n
  <2>1. CASE masked = TRUE
    BY <1>1, <1>2, <1>5, <1>7, <1>9, <1>10, <2>1, SMTT(30) DEF TotalSize
  <2>2. CASE masked = FALSE
    BY <1>1, <1>2, <1>5, <1>7, <1>9, <1>10, <2>2 DEF TotalSize
  <2>. QED
    BY <2>1, <2>2
<1>12. FrameOf(e) = f
  <2>1. CASE masked = TRUE
    <3>1. /\ v = MaskKey \o body /\ MaskKey \in Seq(Byte) /\ Len(MaskKey) = 4
          /\ body \in Seq(Byte) /\ Len(body) = n /\ ApplyMask(body, MaskKey) = f.payload
      BY <2>1, BodyIs DEF v, body, n
    <3>2. Len(v) = 4 + n /\ HeaderSize(e) = k + 4 /\ HeaderSize(e) - 3 = k + 1
          /\ TotalSize(e) = k + 4 + n
      BY <1>1, <1>2, <1>5, <1>9, <1>10, <2>1 DEF TotalSize
    <3>3. Len(e) = k + 4 + n /\ SubSeq(e, k + 1, k + 4 + n) = MaskKey \o body
      <4>1. k + Len(v) = k + 4 + n
        BY <1>1, <1>2, <3>2
      <4>. QED
        BY <1>7, <3>1, <4>1
    <3>4. /\ SubSeq(e, k + 1, k + 4) = MaskKey
          /\ SubSeq(e, k + 4 + 1, k + 4 + n) = body
      <4>. DEFINE i == k + 1
                  p == k + 4
                  j == k + 4 + 1
                  q == k + 4 + n
      <4>1. /\ i \in Nat /\ j \in Nat /\ p \in Nat /\ i # 0 /\ p + 1 = j
            /\ j = i + Len(MaskKey) /\ Len(e) \in Nat
            /\ Len(e) + 1 = j + Len(body) /\ q = Len(e)
        <5>1. k \in Nat /\ n \in Nat /\ Len(MaskKey) = 4 /\ Len(body) = n /\ Len(e) = k + 4 + n
          BY <1>1, <1>2, <3>1, <3>3, Zenon
        <5>. QED
          BY <5>1
      <4>2. SubSeq(e, i, q) = MaskKey \o body
        BY <3>3
      <4>. HIDE DEF i, p, j, q
      <4>3. SubSeq(e, i, p) = MaskKey /\ SubSeq(e, j, q) = body
        <5>1. Cut(e, MaskKey, body, i, p, j, q)
          BY <1>7, <3>1, <4>1, <4>2, Zenon DEF Cut
        <5>. QED
          BY <5>1, PartsOfTwo
      <4>. QED
        BY <4>3 DEF i, p, j, q
    <3>5. FrameOf(e) = [op |-> f.op, fin |-> TRUE, payload |-> ApplyMask(body, MaskKey)]
      BY <1>8, <2>1, <3>2, <3>4 DEF FrameOf
    <3>. QED
      BY <1>1, <3>1, <3>5, Zenon
  <2>2. CASE masked = FALSE
    <3>1. v = f.payload
      BY <2>2, BodyIs DEF v
    <3>2. HeaderSize(e) = k /\ TotalSize(e) = k + Len(v)
      BY <1>1, <1>2, <1>5, <1>7, <1>10, <1>11, <2>2
    <3>3. FrameOf(e) = [op |-> f.op, fin |-> TRUE, payload |-> f.payload]
      BY <1>7, <1>8, <2>2, <3>1, <3>2 DEF FrameOf
    <3>. QED
      BY <1>1, <3>3, Zenon
  <2>. QED
    BY <2>1, <2>2
<1>13. Len(e) >= 2 /\ Len(e) >= 2 + Extra(e)
  <2>1. Len(v) \in Nat
    BY <1>5, LenProperties
  <2>. QED
    BY <1>2, <1>7, <1>9, <2>1 DEF k
<1>. QED
  BY <1>7, <1>8, <1>9, <1>11, <1>12, <1>13 DEF n

\* The front of an encoded frame is that frame if the parser takes it.
LEMMA EncodedFront ==
    ASSUME NEW f \in Whole, NEW masked \in BOOLEAN, NEW t \in Seq(Byte)
    PROVE  LET e == Encode(f, masked)
           IN /\ e \in Seq(Byte) /\ e \o t \in Seq(Byte)
              /\ Acceptable(f) => /\ FrontOf(e \o t) = "frame"
                                  /\ TotalSize(e \o t) = Len(e) /\ FrameOf(e \o t) = f
              /\ ~Acceptable(f) => FrontOf(e \o t) = "error"
<1>. DEFINE e == Encode(f, masked)
            n == Len(f.payload)
<1>1. /\ e \in Seq(Byte) /\ Len(e) >= 2 /\ Len(e) >= 2 + Extra(e)
      /\ OpcodeOf(e) = f.op /\ Fin(e) = TRUE /\ ReservedBits(e) = 0
      /\ PayloadLen(e) = n /\ TotalSize(e) = Len(e) /\ FrameOf(e) = f
  <2>1. e = Encode(f, masked)
    OBVIOUS
  <2>. HIDE DEF e
  <2>. QED
    BY <2>1, EncodeHeader
<1>2. n \in Nat /\ Len(e) \in Nat /\ Extra(e) \in Nat
  BY <1>1, WholeIs, HeaderType, LenProperties
<1>. HIDE DEF e, n
<1>3. ~(Len(e) < 2) /\ ~(Len(e) < 2 + Extra(e)) /\ ~(Len(e) < TotalSize(e))
  BY <1>1, <1>2
<1>4. Acceptable(f) <=> /\ f.op \in Opcodes /\ ~(n > MaxFrame)
                        /\ ~(IsControl(f.op) /\ n > Inline)
  BY <1>2, Widths DEF Acceptable, n
<1>5. Acceptable(f) => FrontOf(e) = "frame"
  BY <1>1, <1>3, <1>4 DEF FrontOf
<1>6. ~Acceptable(f) => FrontOf(e) = "error"
  BY <1>1, <1>3, <1>4 DEF FrontOf
<1>7. e \o t \in Seq(Byte)
  BY <1>1, Prefix
<1>. QED
  BY <1>1, <1>5, <1>6, <1>7, FrontStays DEF e
-----------------------------------------------------------------------------
(***************************************************************************)
(* feed() takes the first frame and goes on with what is behind it.        *)
(***************************************************************************)
\* What Feed's function has at i.
Put(frame, v) == [v EXCEPT !.frames = <<frame>> \o @]
Stop(b) == [frames |-> <<>>, rest |-> b, ok |-> FrontOf(b) = "more"]
At(f, b, i) == IF FrontOf(SubSeq(b, i, Len(b))) = "frame"
               THEN Put(FrameOf(SubSeq(b, i, Len(b))), f[i + TotalSize(SubSeq(b, i, Len(b)))])
               ELSE Stop(SubSeq(b, i, Len(b)))
FeedFun(f, b, m) == f = [i \in m .. Len(b) + 1 |-> At(f, b, i)]

LEMMA Rest ==
    ASSUME NEW b \in Seq(Byte), NEW i \in 1 .. Len(b) + 1
    PROVE  /\ SubSeq(b, i, Len(b)) \in Seq(Byte) /\ Len(SubSeq(b, i, Len(b))) = Len(b) + 1 - i
           /\ FrontOf(SubSeq(b, i, Len(b))) = "frame" =>
                 /\ TotalSize(SubSeq(b, i, Len(b))) \in 2 .. Len(b) + 1 - i
                 /\ i + TotalSize(SubSeq(b, i, Len(b))) \in i + 2 .. Len(b) + 1
<1>0. Len(b) \in Nat /\ i \in Nat \ {0} /\ i <= Len(b) + 1
  BY LenProperties
<1>. DEFINE r == SubSeq(b, i, Len(b))
<1>1. r \in Seq(Byte) /\ Len(r) = Len(b) + 1 - i
  BY <1>0, SubSeqIs
<1>. HIDE DEF r
<1>2. FrontOf(r) = "frame" => TotalSize(r) \in 2 .. Len(b) + 1 - i
  BY <1>1, FrontCases
<1>3. \A t \in 2 .. Len(b) + 1 - i : i + t \in i + 2 .. Len(b) + 1
  BY <1>0
<1>4. FrontOf(r) = "frame" => i + TotalSize(r) \in i + 2 .. Len(b) + 1
  BY <1>2, <1>3, Zenon
<1>. QED
  BY <1>1, <1>2, <1>4 DEF r

LEMMA SameAt ==
    ASSUME NEW b \in Seq(Byte), NEW i \in 1 .. Len(b) + 1, NEW f, NEW g,
           \A j \in i + 1 .. Len(b) + 1 : f[j] = g[j]
    PROVE  At(f, b, i) = At(g, b, i)
<1>. DEFINE r == SubSeq(b, i, Len(b))
<1>1. CASE FrontOf(r) = "frame"
  <2>1. i + TotalSize(r) \in i + 2 .. Len(b) + 1
    BY <1>1, Rest
  <2>2. \A j \in i + 2 .. Len(b) + 1 : j \in i + 1 .. Len(b) + 1
    BY LenProperties
  <2>3. f[i + TotalSize(r)] = g[i + TotalSize(r)]
    BY <2>1, <2>2, Zenon
  <2>. QED
    BY <1>1, <2>3, Zenon DEF At
<1>2. CASE FrontOf(r) # "frame"
  BY <1>2, Zenon DEF At
<1>. QED
  BY <1>1, <1>2

LEMMA FeedFunExists ==
    ASSUME NEW b \in Seq(Byte)
    PROVE  \E f : FeedFun(f, b, 1)
<1>. DEFINE n == Len(b)
            S == {d \in 0 .. n : \E f : FeedFun(f, b, n + 1 - d)}
<1>0. n \in Nat
  BY LenProperties
<1>1. 0 \in S
  <2>. DEFINE f == [i \in n + 1 .. n + 1 |-> At(<<>>, b, i)]
  <2>1. \A i \in n + 1 .. n + 1 : At(<<>>, b, i) = At(f, b, i)
    <3>. SUFFICES ASSUME NEW i \in n + 1 .. n + 1
                  PROVE  At(<<>>, b, i) = At(f, b, i)
      OBVIOUS
    <3>1. i \in 1 .. Len(b) + 1 /\ ~ \E j : j \in i + 1 .. Len(b) + 1
      BY <1>0
    <3>. HIDE DEF f
    <3>. QED
      BY <3>1, SameAt, Zenon
  <2>2. FeedFun(f, b, n + 1)
    BY <2>1, Zenon DEF FeedFun
  <2>3. n + 1 - 0 = n + 1 /\ 0 \in 0 .. n
    BY <1>0
  <2>. HIDE DEF f
  <2>. QED
    BY <2>2, <2>3
<1>2. ASSUME NEW d \in 0 .. n - 1, d \in S
      PROVE  d + 1 \in S
  <2>. DEFINE m == n + 1 - d
  <2>1. PICK f : FeedFun(f, b, m)
    BY <1>2
  <2>. DEFINE g == [i \in m - 1 .. n + 1 |-> At(f, b, i)]
  <2>2. \A j \in m .. n + 1 : g[j] = f[j]
    <3>1. \A j \in m .. n + 1 : j \in m - 1 .. n + 1
      BY <1>0
    <3>2. \A j \in m .. n + 1 : f[j] = At(f, b, j)
      BY <2>1 DEF FeedFun
    <3>3. \A j \in m - 1 .. n + 1 : g[j] = At(f, b, j)
      OBVIOUS
    <3>. QED
      BY <3>1, <3>2, <3>3, Zenon
  <2>3. \A i \in m - 1 .. n + 1 : At(f, b, i) = At(g, b, i)
    <3>. SUFFICES ASSUME NEW i \in m - 1 .. n + 1
                  PROVE  At(f, b, i) = At(g, b, i)
      BY Zenon
    <3>1. i \in 1 .. Len(b) + 1 /\ \A j \in i + 1 .. Len(b) + 1 : j \in m .. n + 1
      BY <1>0
    <3>2. \A j \in i + 1 .. Len(b) + 1 : f[j] = g[j]
      BY <2>2, <3>1, Zenon
    <3>. HIDE DEF g
    <3>. QED
      BY <3>1, <3>2, SameAt, Zenon
  <2>4. FeedFun(g, b, m - 1)
    BY <2>3, Zenon DEF FeedFun
  <2>5. m - 1 = n + 1 - (d + 1) /\ d + 1 \in 0 .. n
    BY <1>0
  <2>. HIDE DEF g, m
  <2>. QED
    BY <2>4, <2>5
<1>3. n \in S
  <2>. HIDE DEF S, n
  <2>1. \A i \in 0 .. n : i \in S
    BY <1>0, <1>1, <1>2, Induct, Zenon
  <2>. QED
    BY <1>0, <2>1
<1>4. n + 1 - n = 1
  BY <1>0
<1>. QED
  BY <1>3, <1>4

LEMMA FeedIs ==
    ASSUME NEW b \in Seq(Byte)
    PROVE  \E f : FeedFun(f, b, 1) /\ Feed(b) = f[1]
<1>. DEFINE P(f) == f = [i \in 1 .. Len(b) + 1 |->
                            LET rest == SubSeq(b, i, Len(b))
                                front == FrontOf(rest)
                            IN IF front = "frame"
                               THEN LET next == f[i + TotalSize(rest)]
                                    IN [next EXCEPT !.frames = <<FrameOf(rest)>> \o @]
                               ELSE [frames |-> <<>>, rest |-> rest, ok |-> front = "more"]]
            c == CHOOSE f : P(f)
<1>1. ASSUME NEW f
      PROVE  P(f) <=> FeedFun(f, b, 1)
  BY Zenon DEF FeedFun, At, Put, Stop
<1>2. PICK f : P(f)
  BY <1>1, FeedFunExists, Zenon
<1>3. P(c)
  BY <1>2, Zenon
<1>4. Feed(b) = c[1]
  BY Zenon DEF Feed
<1>5. FeedFun(c, b, 1)
  BY <1>1, <1>3, Zenon
<1>. QED
  BY <1>4, <1>5, Zenon
LEMMA SubSeqTwice ==
    ASSUME NEW X, NEW b \in Seq(X), NEW k \in 1 .. Len(b) + 1, NEW i \in 1 .. Len(b) + 2 - k
    PROVE  SubSeq(SubSeq(b, k, Len(b)), i, Len(SubSeq(b, k, Len(b)))) = SubSeq(b, k - 1 + i, Len(b))
OBVIOUS

LEMMA FeedAt ==
    ASSUME NEW b \in Seq(Byte), NEW f, FeedFun(f, b, 1)
    PROVE  \A i \in 1 .. Len(b) + 1 : f[i] = At(f, b, i)
BY Zenon DEF FeedFun

\* From k on, b is parsed as its rest from k on is.
LEMMA FeedOfRest ==
    ASSUME NEW b \in Seq(Byte), NEW k \in 1 .. Len(b) + 1, NEW f, FeedFun(f, b, 1)
    PROVE  f[k] = Feed(SubSeq(b, k, Len(b)))
<1>. DEFINE n == Len(b)
            r == SubSeq(b, k, Len(b))
<1>0. n \in Nat /\ k \in Nat /\ k >= 1 /\ k <= n + 1
  BY LenProperties
<1>1. r \in Seq(Byte) /\ Len(r) = n + 1 - k
  BY Rest
<1>2. PICK g : FeedFun(g, r, 1) /\ Feed(r) = g[1]
  BY <1>1, FeedIs
<1>. DEFINE S == {d \in Nat : \A i \in 1 .. n + 2 - k : n + 2 - k - i = d => f[k - 1 + i] = g[i]}
<1>3. ASSUME NEW d \in Nat, \A e \in Nat : e < d => e \in S
      PROVE  d \in S
  <2>. SUFFICES ASSUME NEW i \in 1 .. n + 2 - k, n + 2 - k - i = d
                PROVE  f[k - 1 + i] = g[i]
    OBVIOUS
  <2>. DEFINE j == k - 1 + i
              q == SubSeq(b, j, n)
              t == TotalSize(q)
  <2>1. j \in 1 .. n + 1 /\ i \in 1 .. Len(r) + 1
    BY <1>0, <1>1
  <2>2. q = SubSeq(r, i, Len(r))
    BY <1>0, SubSeqTwice
  <2>3. f[j] = At(f, b, j) /\ g[i] = At(g, r, i)
    BY <1>1, <1>2, <2>1, FeedAt
  <2>4. CASE FrontOf(q) = "frame"
    <3>1. t \in 2 .. n + 1 - j
      BY <2>1, <2>4, Rest
    <3>2. t \in Nat /\ i + t \in 1 .. n + 2 - k /\ k - 1 + (i + t) = j + t
          /\ n + 2 - k - (i + t) \in Nat /\ n + 2 - k - (i + t) < d
      <4>1. \A x \in 2 .. n + 1 - j :
               x \in Nat /\ i + x \in 1 .. n + 2 - k /\ k - 1 + (i + x) = j + x
               /\ n + 2 - k - (i + x) \in Nat /\ n + 2 - k - (i + x) < d
        BY <1>0
      <4>. QED
        BY <3>1, <4>1, Zenon
    <3>3. f[j + t] = g[i + t]
      <4>. HIDE DEF t, j
      <4>. QED
        BY <1>3, <3>2
    <3>4. f[j] = Put(FrameOf(q), f[j + t])
      BY <2>3, <2>4, Zenon DEF At
    <3>5. g[i] = Put(FrameOf(q), g[i + t])
      <4>. HIDE DEF q
      <4>. QED
        BY <2>2, <2>3, <2>4, Zenon DEF At, t
    <3>. QED
      BY <3>3, <3>4, <3>5, Zenon
  <2>5. CASE FrontOf(q) # "frame"
    <3>1. f[j] = Stop(q)
      BY <2>3, <2>5, Zenon DEF At
    <3>2. g[i] = Stop(q)
      <4>. HIDE DEF q
      <4>. QED
        BY <2>2, <2>3, <2>5, Zenon DEF At
    <3>. QED
      BY <3>1, <3>2, Zenon
  <2>. QED
    BY <2>4, <2>5
<1>4. \A d \in Nat : d \in S
  <2>. HIDE DEF S
  <2>. QED
    BY <1>3, StrongInduct, Zenon
<1>5. f[k] = g[1]
  <2>1. n + 1 - k \in Nat /\ 1 \in 1 .. n + 2 - k /\ n + 2 - k - 1 = n + 1 - k /\ k - 1 + 1 = k
    BY <1>0
  <2>2. n + 1 - k \in S
    BY <1>4, <2>1
  <2>. QED
    BY <2>1, <2>2
<1>. QED
  BY <1>2, <1>5, Zenon

LEMMA FeedUnroll ==
    ASSUME NEW b \in Seq(Byte)
    PROVE  /\ FrontOf(b) = "frame" =>
                 Feed(b) = Put(FrameOf(b), Feed(SubSeq(b, TotalSize(b) + 1, Len(b))))
           /\ FrontOf(b) # "frame" => Feed(b) = Stop(b)
<1>1. PICK f : FeedFun(f, b, 1) /\ Feed(b) = f[1]
  BY FeedIs
<1>2. Len(b) \in Nat /\ 1 \in 1 .. Len(b) + 1
  BY LenProperties
<1>3. SubSeq(b, 1, Len(b)) = b
  OBVIOUS
<1>4. f[1] = At(f, b, 1)
  BY <1>1, <1>2, FeedAt
<1>5. ASSUME FrontOf(b) = "frame"
      PROVE  Feed(b) = Put(FrameOf(b), Feed(SubSeq(b, TotalSize(b) + 1, Len(b))))
  <2>1. TotalSize(b) \in 2 .. Len(b)
    BY <1>5, FrontCases
  <2>2. TotalSize(b) + 1 \in 1 .. Len(b) + 1 /\ 1 + TotalSize(b) = TotalSize(b) + 1
    <3>1. \A x \in 2 .. Len(b) : x + 1 \in 1 .. Len(b) + 1 /\ 1 + x = x + 1
      BY <1>2
    <3>. QED
      BY <2>1, <3>1, Zenon
  <2>3. f[TotalSize(b) + 1] = Feed(SubSeq(b, TotalSize(b) + 1, Len(b)))
    BY <1>1, <2>2, FeedOfRest
  <2>4. f[1] = Put(FrameOf(b), f[TotalSize(b) + 1])
    BY <1>3, <1>4, <1>5, <2>2, Zenon DEF At
  <2>. QED
    BY <1>1, <2>3, <2>4, Zenon
<1>6. FrontOf(b) # "frame" => Feed(b) = Stop(b)
  BY <1>1, <1>3, <1>4, Zenon DEF At
<1>. QED
  BY <1>5, <1>6

\* The frames that the parser takes.
Taken == {f \in Frames(Opcodes) : Acceptable(f) /\ (IsControl(f.op) => f.fin = TRUE)}
Results == [frames : Seq(Taken), rest : Seq(Byte), ok : BOOLEAN]

LEMMA PutType ==
    ASSUME NEW f \in Taken, NEW v \in Results
    PROVE  /\ Put(f, v) \in Results /\ Put(f, v).frames = <<f>> \o v.frames
           /\ Put(f, v).rest = v.rest /\ Put(f, v).ok = v.ok
<1>1. v.frames \in Seq(Taken) /\ v = [frames |-> v.frames, rest |-> v.rest, ok |-> v.ok]
      /\ v.rest \in Seq(Byte) /\ v.ok \in BOOLEAN
  BY DEF Results
<1>2. <<f>> \o v.frames \in Seq(Taken)
  BY <1>1
<1>3. Put(f, v) = [frames |-> <<f>> \o v.frames, rest |-> v.rest, ok |-> v.ok]
  <2>1. \A x, p, q, r : [[frames |-> p, rest |-> q, ok |-> r] EXCEPT !.frames = x]
                          = [frames |-> x, rest |-> q, ok |-> r]
    OBVIOUS
  <2>. DEFINE x == <<f>> \o v.frames
  <2>2. Put(f, v) = [v EXCEPT !.frames = x]
    BY DEF Put
  <2>. HIDE DEF x
  <2>3. Put(f, v) = [frames |-> x, rest |-> v.rest, ok |-> v.ok]
    BY <1>1, <2>1, <2>2, Zenon
  <2>. QED
    BY <2>3 DEF x
<1>. QED
  BY <1>1, <1>2, <1>3 DEF Results

\* What is behind the frame at the front.
Later(b) == SubSeq(b, TotalSize(b) + 1, Len(b))

LEMMA LaterIs ==
    ASSUME NEW b \in Seq(Byte), FrontOf(b) = "frame"
    PROVE  /\ Later(b) \in Seq(Byte) /\ Len(Later(b)) \in Nat /\ Len(Later(b)) < Len(b)
           /\ FrameOf(b) \in Taken /\ Feed(b) = Put(FrameOf(b), Feed(Later(b)))
<1>0. Len(b) \in Nat
  BY LenProperties
<1>1. TotalSize(b) \in 2 .. Len(b)
  BY FrontCases
<1>2. TotalSize(b) + 1 \in 1 .. Len(b) + 1
      /\ Len(b) + 1 - (TotalSize(b) + 1) \in Nat /\ Len(b) + 1 - (TotalSize(b) + 1) < Len(b)
  <2>1. \A x \in 2 .. Len(b) : /\ x + 1 \in 1 .. Len(b) + 1
                               /\ Len(b) + 1 - (x + 1) \in Nat /\ Len(b) + 1 - (x + 1) < Len(b)
    BY <1>0
  <2>. QED
    BY <1>1, <2>1, Zenon
<1>3. Later(b) \in Seq(Byte) /\ Len(Later(b)) = Len(b) + 1 - (TotalSize(b) + 1)
  BY <1>2, Rest, Zenon DEF Later
<1>4. Feed(b) = Put(FrameOf(b), Feed(Later(b)))
  BY FeedUnroll, Zenon DEF Later
<1>5. FrameOf(b) \in Taken
  BY FrameType DEF Taken
<1>. QED
  BY <1>2, <1>3, <1>4, <1>5, Zenon

LEMMA StopIs ==
    ASSUME NEW b \in Seq(Byte), FrontOf(b) # "frame"
    PROVE  /\ Feed(b) = Stop(b) /\ Feed(b) \in Results
           /\ Feed(b).frames = <<>> /\ Feed(b).rest = b
           /\ \/ FrontOf(b) = "more" /\ Feed(b).ok = TRUE
              \/ FrontOf(b) = "error" /\ Feed(b).ok = FALSE
<1>1. Feed(b) = [frames |-> <<>>, rest |-> b, ok |-> FrontOf(b) = "more"]
  BY FeedUnroll, Zenon DEF Stop
<1>2. <<>> \in Seq(Taken) /\ (FrontOf(b) = "more") \in BOOLEAN
  OBVIOUS
<1>3. CASE FrontOf(b) = "more"
  <2>1. Feed(b) = [frames |-> <<>>, rest |-> b, ok |-> TRUE]
    BY <1>1, <1>3
  <2>2. Feed(b) = Stop(b)
    BY FeedUnroll
  <2>3. Feed(b) \in Results
    BY <1>2, <2>1 DEF Results
  <2>4. Feed(b).frames = <<>> /\ Feed(b).rest = b /\ Feed(b).ok = TRUE
    BY <2>1
  <2>. QED
    BY <1>3, <2>2, <2>3, <2>4
<1>4. CASE FrontOf(b) = "error"
  <2>1. Feed(b) = [frames |-> <<>>, rest |-> b, ok |-> FALSE]
    BY <1>1, <1>4
  <2>2. Feed(b) = Stop(b)
    BY FeedUnroll
  <2>3. Feed(b) \in Results
    BY <1>2, <2>1 DEF Results
  <2>4. Feed(b).frames = <<>> /\ Feed(b).rest = b /\ Feed(b).ok = FALSE
    BY <2>1
  <2>. QED
    BY <1>4, <2>2, <2>3, <2>4
<1>. QED
  BY <1>3, <1>4, FrontCases

LEMMA FeedType ==
    ASSUME NEW b \in Seq(Byte)
    PROVE  /\ Feed(b) \in Results
           /\ Feed(b).ok = TRUE => FrontOf(Feed(b).rest) = "more"
           /\ Feed(b).ok = FALSE => FrontOf(Feed(b).rest) = "error"
<1>. DEFINE Good(a) == /\ Feed(a) \in Results
                       /\ Feed(a).ok = TRUE => FrontOf(Feed(a).rest) = "more"
                       /\ Feed(a).ok = FALSE => FrontOf(Feed(a).rest) = "error"
            S == {n \in Nat : \A a \in Seq(Byte) : Len(a) = n => Good(a)}
<1>1. ASSUME NEW n \in Nat, \A m \in Nat : m < n => m \in S
      PROVE  n \in S
  <2>. SUFFICES ASSUME NEW a \in Seq(Byte), Len(a) = n
                PROVE  Good(a)
    OBVIOUS
  <2>1. CASE FrontOf(a) = "frame"
    <3>1. Good(Later(a)) /\ Feed(a) = Put(FrameOf(a), Feed(Later(a))) /\ FrameOf(a) \in Taken
      BY <1>1, <2>1, LaterIs
    <3>. QED
      BY <3>1, PutType
  <2>2. CASE FrontOf(a) # "frame"
    BY <2>2, StopIs
  <2>. QED
    BY <2>1, <2>2
<1>2. \A n \in Nat : n \in S
  <2>. HIDE DEF S
  <2>. QED
    BY <1>1, StrongInduct, Zenon
<1>. QED
  BY <1>2, LenProperties
(***************************************************************************)
(* How the bytes are cut into chunks makes no difference.                  *)
(***************************************************************************)
\* What feed() makes of a and then of b.
Then(v, w) == [frames |-> v.frames \o w.frames, rest |-> w.rest, ok |-> w.ok]

LEMMA PutThen ==
    ASSUME NEW f \in Taken, NEW v \in Results, NEW w \in Results
    PROVE  Put(f, Then(v, w)) = Then(Put(f, v), w) /\ Then(v, w) \in Results
<1>1. /\ v.frames \in Seq(Taken) /\ w.frames \in Seq(Taken) /\ w.rest \in Seq(Byte)
      /\ w.ok \in BOOLEAN
  BY DEF Results
<1>2. <<f>> \in Seq(Taken) /\ v.frames \o w.frames \in Seq(Taken)
      /\ <<f>> \o (v.frames \o w.frames) = (<<f>> \o v.frames) \o w.frames
  <2>1. \A p, q, r \in Seq(Taken) : p \o q \in Seq(Taken) /\ p \o (q \o r) = (p \o q) \o r
    OBVIOUS
  <2>2. <<f>> \in Seq(Taken)
    OBVIOUS
  <2>. QED
    BY <1>1, <2>1, <2>2, Zenon
<1>3. Then(v, w) \in Results /\ Then(v, w).frames = v.frames \o w.frames
      /\ Then(v, w).rest = w.rest /\ Then(v, w).ok = w.ok
  BY <1>1, <1>2 DEF Then, Results
<1>4. /\ Put(f, Then(v, w)) \in Results
      /\ Put(f, Then(v, w)).frames = <<f>> \o (v.frames \o w.frames)
      /\ Put(f, Then(v, w)).rest = w.rest /\ Put(f, Then(v, w)).ok = w.ok
  BY <1>3, PutType, ZenonT(40)
<1>5. Put(f, Then(v, w)) = [frames |-> <<f>> \o (v.frames \o w.frames), rest |-> w.rest, ok |-> w.ok]
  <2>1. \A u \in Results : u = [frames |-> u.frames, rest |-> u.rest, ok |-> u.ok]
    BY DEF Results
  <2>. QED
    BY <1>4, <2>1, Zenon
<1>6. Then(Put(f, v), w) = [frames |-> (<<f>> \o v.frames) \o w.frames, rest |-> w.rest, ok |-> w.ok]
  <2>1. Put(f, v).frames = <<f>> \o v.frames
    BY PutType
  <2>. QED
    BY <2>1, Zenon DEF Then
<1>. QED
  BY <1>2, <1>3, <1>5, <1>6, Zenon

LEMMA SuffixOfConcat ==
    ASSUME NEW X, NEW a \in Seq(X), NEW b \in Seq(X), NEW i \in 1 .. Len(a) + 1
    PROVE  SubSeq(a \o b, i, Len(a \o b)) = SubSeq(a, i, Len(a)) \o b
BY SMTT(60)

LEMMA LaterOfConcat ==
    ASSUME NEW a \in Seq(Byte), NEW b \in Seq(Byte), FrontOf(a) = "frame"
    PROVE  /\ FrontOf(a \o b) = "frame" /\ FrameOf(a \o b) = FrameOf(a)
           /\ Later(a \o b) = Later(a) \o b
<1>1. FrontOf(a \o b) = "frame" /\ FrameOf(a \o b) = FrameOf(a) /\ TotalSize(a \o b) = TotalSize(a)
  BY FrontStays
<1>2. TotalSize(a) + 1 \in 1 .. Len(a) + 1
  <2>1. TotalSize(a) \in 2 .. Len(a) /\ Len(a) \in Nat
    BY FrontCases, LenProperties
  <2>2. \A x \in 2 .. Len(a) : x + 1 \in 1 .. Len(a) + 1
    BY <2>1
  <2>. QED
    BY <2>1, <2>2, Zenon
<1>3. SubSeq(a \o b, TotalSize(a) + 1, Len(a \o b)) = SubSeq(a, TotalSize(a) + 1, Len(a)) \o b
  BY <1>2, SuffixOfConcat, Zenon
<1>. QED
  BY <1>1, <1>3, Zenon DEF Later

\* feed() of two chunks, one after the other, is feed() of both together; after
\* an error nothing more is taken.
LEMMA FeedChunks ==
    ASSUME NEW a \in Seq(Byte), NEW b \in Seq(Byte)
    PROVE  /\ Feed(a).ok = TRUE => Feed(a \o b) = Then(Feed(a), Feed(Feed(a).rest \o b))
           /\ Feed(a).ok = FALSE => /\ Feed(a \o b).ok = FALSE
                                    /\ Feed(a \o b).frames = Feed(a).frames
                                    /\ Feed(a \o b).rest = Feed(a).rest \o b
<1>. DEFINE Good(u) == /\ Feed(u).ok = TRUE => Feed(u \o b) = Then(Feed(u), Feed(Feed(u).rest \o b))
                       /\ Feed(u).ok = FALSE => /\ Feed(u \o b).ok = FALSE
                                                /\ Feed(u \o b).frames = Feed(u).frames
                                                /\ Feed(u \o b).rest = Feed(u).rest \o b
            S == {n \in Nat : \A u \in Seq(Byte) : Len(u) = n => Good(u)}
<1>1. ASSUME NEW n \in Nat, \A m \in Nat : m < n => m \in S
      PROVE  n \in S
  <2>. SUFFICES ASSUME NEW u \in Seq(Byte), Len(u) = n
                PROVE  Good(u)
    OBVIOUS
  <2>1. CASE FrontOf(u) = "frame"
    <3>. DEFINE t == Later(u)
                x == FrameOf(u)
    <3>1. Good(t) /\ t \in Seq(Byte) /\ x \in Taken /\ Feed(u) = Put(x, Feed(t))
      BY <1>1, <2>1, LaterIs
    <3>2. u \o b \in Seq(Byte) /\ t \o b \in Seq(Byte)
      BY <3>1, Prefix
    <3>3. Feed(u \o b) = Put(x, Feed(t \o b))
      BY <2>1, <3>2, LaterIs, LaterOfConcat
    <3>4. Feed(t) \in Results /\ Feed(t \o b) \in Results
      BY <3>1, <3>2, FeedType
    <3>. HIDE DEF t, x
    <3>5. /\ Feed(u).frames = <<x>> \o Feed(t).frames /\ Feed(u).rest = Feed(t).rest
          /\ Feed(u).ok = Feed(t).ok
      BY <3>1, <3>4, PutType, SMTT(30)
    <3>6. /\ Feed(u \o b).frames = <<x>> \o Feed(t \o b).frames
          /\ Feed(u \o b).rest = Feed(t \o b).rest /\ Feed(u \o b).ok = Feed(t \o b).ok
      BY <3>1, <3>3, <3>4, PutType, SMTT(30)
    <3>7. ASSUME Feed(u).ok = TRUE
          PROVE  Feed(u \o b) = Then(Feed(u), Feed(Feed(u).rest \o b))
      <4>. DEFINE w == Feed(Feed(t).rest \o b)
      <4>1. w \in Results
        <5>1. Feed(t).rest \in Seq(Byte)
          BY <3>4 DEF Results
        <5>2. Feed(t).rest \o b \in Seq(Byte)
          BY <5>1, Prefix
        <5>. QED
          BY <5>2, FeedType
      <4>2. Feed(t \o b) = Then(Feed(t), w)
        BY <3>1, <3>5, <3>7
      <4>. HIDE DEF w
      <4>3. Put(x, Then(Feed(t), w)) = Then(Put(x, Feed(t)), w)
        BY <3>1, <3>4, <4>1, PutThen
      <4>4. Feed(u \o b) = Then(Feed(u), w)
        BY <3>1, <3>3, <4>2, <4>3, Zenon
      <4>. QED
        BY <3>5, <4>4, Zenon DEF w
    <3>. QED
      BY <3>1, <3>5, <3>6, <3>7
  <2>2. CASE FrontOf(u) = "more"
    <3>1. Feed(u).frames = <<>> /\ Feed(u).rest = u /\ Feed(u).ok = TRUE
      BY <2>2, StopIs
    <3>2. u \o b \in Seq(Byte)
      BY Prefix
    <3>3. Feed(u \o b) \in Results
      BY <3>2, FeedType
    <3>4. Then(Feed(u), Feed(u \o b)) = Feed(u \o b)
      <4>1. \A w \in Results : /\ w = [frames |-> w.frames, rest |-> w.rest, ok |-> w.ok]
                               /\ <<>> \o w.frames = w.frames
        BY DEF Results
      <4>. QED
        BY <3>1, <3>3, <4>1, SMTT(30) DEF Then
    <3>. QED
      BY <3>1, <3>4
  <2>3. CASE FrontOf(u) = "error"
    <3>1. Feed(u).frames = <<>> /\ Feed(u).rest = u /\ Feed(u).ok = FALSE
      BY <2>3, StopIs
    <3>2. u \o b \in Seq(Byte) /\ FrontOf(u \o b) = "error"
      BY <2>3, Prefix, FrontStays
    <3>3. Feed(u \o b).frames = <<>> /\ Feed(u \o b).rest = u \o b /\ Feed(u \o b).ok = FALSE
      BY <3>2, StopIs
    <3>. QED
      BY <3>1, <3>3
  <2>. QED
    BY <2>1, <2>2, <2>3, FrontCases
<1>2. \A n \in Nat : n \in S
  <2>. HIDE DEF S
  <2>. QED
    BY <1>1, StrongInduct, Zenon
<1>. QED
  BY <1>2, LenProperties
-----------------------------------------------------------------------------
(***************************************************************************)
(* Frames one after the other on the wire.                                 *)
(***************************************************************************)
LEMMA SeqInduct ==
    ASSUME NEW X, NEW S, <<>> \in S, \A s \in Seq(X) : \A x \in X : s \in S => Append(s, x) \in S
    PROVE  \A s \in Seq(X) : s \in S
<1>. DEFINE T == {n \in Nat : \A s \in Seq(X) : Len(s) = n => s \in S}
<1>1. \A s \in Seq(X) : Len(s) = 0 => s = <<>>
  OBVIOUS
<1>2. 0 \in T
  BY <1>1
<1>3. \A n \in Nat : n \in T => n + 1 \in T
  <2>. SUFFICES ASSUME NEW n \in Nat, n \in T, NEW s \in Seq(X), Len(s) = n + 1
                PROVE  s \in S
    OBVIOUS
  <2>. DEFINE r == SubSeq(s, 1, n)
              x == s[n + 1]
  <2>1. r \in Seq(X) /\ Len(r) = n /\ x \in X /\ s = Append(r, x)
    OBVIOUS
  <2>. HIDE DEF r, x
  <2>2. r \in S
    BY <2>1
  <2>. QED
    BY <2>1, <2>2
<1>4. \A n \in Nat : n \in T
  <2>. HIDE DEF T
  <2>. SUFFICES ASSUME NEW n \in Nat
                PROVE  n \in T
    OBVIOUS
  <2>1. \A i \in 0 .. n - 1 : i \in T => i + 1 \in T
    BY <1>3
  <2>2. \A i \in 0 .. n : i \in T
    BY <1>2, <2>1, Induct, Zenon
  <2>. QED
    BY <2>2
<1>. QED
  BY <1>4, LenProperties

BytesFun(f, s, masked) == /\ f \in [0 .. Len(s) -> Seq(Byte)] /\ f[0] = <<>>
                          /\ \A i \in 1 .. Len(s) : f[i] = f[i - 1] \o Encode(s[i], masked)

LEMMA BytesIs ==
    ASSUME NEW s \in Seq(Whole), NEW masked \in BOOLEAN
    PROVE  /\ \E f : BytesFun(f, s, masked) /\ Bytes(s, masked) = f[Len(s)]
           /\ Bytes(s, masked) \in Seq(Byte)
<1>. DEFINE n == Len(s)
            P(f) == f = [i \in 0 .. Len(s) |->
                            IF i = 0 THEN <<>> ELSE f[i - 1] \o Encode(s[i], masked)]
            c == CHOOSE f : P(f)
            h == [i \in 1 .. n |-> [v \in Seq(Byte) |-> v \o Encode(s[i], masked)]]
<1>0. n \in Nat /\ \A i \in 1 .. n : Encode(s[i], masked) \in Seq(Byte)
  <2>1. n \in Nat /\ \A i \in 1 .. n : s[i] \in Whole
    BY LenProperties, ElementOfSeq
  <2>2. \A f \in Whole : Encode(f, masked) \in Seq(Byte)
    BY EncodeHeader
  <2>. QED
    BY <2>1, <2>2, Zenon
<1>1. PICK f : Iterates(f, n, Seq(Byte), <<>>, h)
  <2>0. \A v, w \in Seq(Byte) : v \o w \in Seq(Byte)
    BY Prefix
  <2>1. \A i \in 1 .. n : [v \in Seq(Byte) |-> v \o Encode(s[i], masked)] \in [Seq(Byte) -> Seq(Byte)]
    BY <1>0, <2>0, Zenon
  <2>2. h \in [1 .. n -> [Seq(Byte) -> Seq(Byte)]]
    BY <2>1, Zenon
  <2>3. <<>> \in Seq(Byte)
    OBVIOUS
  <2>. HIDE DEF h, n
  <2>. QED
    BY <1>0, <2>2, <2>3, Iteration, Zenon
<1>2. /\ f \in [0 .. n -> Seq(Byte)] /\ f[0] = <<>>
      /\ \A i \in 1 .. n : f[i] = f[i - 1] \o Encode(s[i], masked)
  <2>1. \A i \in 1 .. n : \A v \in Seq(Byte) : h[i][v] = v \o Encode(s[i], masked)
    BY Zenon
  <2>. HIDE DEF h
  <2>2. f \in [0 .. n -> Seq(Byte)] /\ f[0] = <<>> /\ \A i \in 1 .. n : f[i] = h[i][f[i - 1]]
    BY <1>1, Zenon DEF Iterates
  <2>3. \A i \in 1 .. n : i - 1 \in 0 .. n
    BY <1>0
  <2>4. \A i \in 1 .. n : f[i - 1] \in Seq(Byte)
    BY <2>2, <2>3, Zenon
  <2>5. \A i \in 1 .. n : f[i] = f[i - 1] \o Encode(s[i], masked)
    BY <2>1, <2>2, <2>4, Zenon
  <2>. QED
    BY <2>2, <2>5, Zenon
<1>3. P(f)
  <2>1. \A i \in 0 .. n : i = 0 \/ i \in 1 .. n
    BY <1>0
  <2>2. \A i \in 0 .. n : f[i] = IF i = 0 THEN <<>> ELSE f[i - 1] \o Encode(s[i], masked)
    BY <1>2, <2>1, Zenon
  <2>3. f = [i \in 0 .. n |-> f[i]]
    BY <1>2, Zenon
  <2>. QED
    BY <2>2, <2>3, Zenon
<1>4. P(c)
  BY <1>3, Zenon
<1>5. c[0] = f[0] /\ \A i \in 1 .. n : c[i] = c[i - 1] \o Encode(s[i], masked)
  <2>. HIDE DEF c
  <2>1. 0 \in 0 .. n /\ \A i \in 1 .. n : i \in 0 .. n /\ i # 0
    BY <1>0
  <2>2. \A i \in 0 .. n : c[i] = IF i = 0 THEN <<>> ELSE c[i - 1] \o Encode(s[i], masked)
    BY <1>4, Zenon
  <2>. QED
    BY <1>2, <2>1, <2>2, Zenon
<1>6. \A i \in 0 .. n : c[i] = f[i]
  <2>1. \A i \in 0 .. n - 1 : c[i] = f[i] => c[i + 1] = f[i + 1]
    <3>1. \A i \in 0 .. n - 1 : i + 1 \in 1 .. n /\ (i + 1) - 1 = i
      BY <1>0
    <3>. HIDE DEF c
    <3>. QED
      BY <1>2, <1>5, <3>1, Zenon
  <2>. HIDE DEF c
  <2>. QED
    BY <1>0, <1>5, <2>1, Alike, ZenonT(40)
<1>7. Bytes(s, masked) = c[n]
  BY Zenon DEF Bytes
<1>. HIDE DEF c
<1>8. Bytes(s, masked) = f[n] /\ f[n] \in Seq(Byte)
  <2>1. n \in 0 .. n
    BY <1>0
  <2>. QED
    BY <1>2, <1>6, <1>7, <2>1, Zenon
<1>9. BytesFun(f, s, masked)
  BY <1>2, Zenon DEF BytesFun
<1>. QED
  BY <1>8, <1>9, Zenon

LEMMA BytesEmpty == ASSUME NEW masked \in BOOLEAN PROVE Bytes(<<>>, masked) = <<>>
<1>1. <<>> \in Seq(Whole) /\ Len(<<>>) = 0
  OBVIOUS
<1>2. PICK f : BytesFun(f, <<>>, masked) /\ Bytes(<<>>, masked) = f[Len(<<>>)]
  BY <1>1, BytesIs
<1>. QED
  BY <1>1, <1>2, Zenon DEF BytesFun

LEMMA BytesAppend ==
    ASSUME NEW s \in Seq(Whole), NEW x \in Whole, NEW masked \in BOOLEAN
    PROVE  Bytes(Append(s, x), masked) = Bytes(s, masked) \o Encode(x, masked)
<1>. DEFINE t == Append(s, x)
            n == Len(s)
<1>1. t \in Seq(Whole) /\ Len(t) = n + 1 /\ n \in Nat /\ t[n + 1] = x
      /\ \A i \in 1 .. n : t[i] = s[i]
  OBVIOUS
<1>2. PICK f : BytesFun(f, s, masked) /\ Bytes(s, masked) = f[n]
  BY BytesIs
<1>3. PICK g : BytesFun(g, t, masked) /\ Bytes(t, masked) = g[Len(t)]
  BY <1>1, BytesIs
<1>. HIDE DEF t, n
<1>4. \A i \in 0 .. n : f[i] = g[i]
  <2>1. f[0] = g[0]
    BY <1>2, <1>3, Zenon DEF BytesFun
  <2>2. \A i \in 0 .. n - 1 : f[i] = g[i] => f[i + 1] = g[i + 1]
    <3>1. \A i \in 0 .. n - 1 : i + 1 \in 1 .. n /\ i + 1 \in 1 .. n + 1 /\ (i + 1) - 1 = i
      BY <1>1
    <3>2. \A i \in 1 .. n : f[i] = f[i - 1] \o Encode(s[i], masked)
      BY <1>2, Zenon DEF BytesFun, n
    <3>3. \A i \in 1 .. n + 1 : g[i] = g[i - 1] \o Encode(t[i], masked)
      BY <1>1, <1>3, Zenon DEF BytesFun
    <3>. SUFFICES ASSUME NEW i \in 0 .. n - 1, f[i] = g[i]
                  PROVE  f[i + 1] = g[i + 1]
      BY Zenon
    <3>4. f[i + 1] = f[i] \o Encode(s[i + 1], masked)
      BY <3>1, <3>2
    <3>5. g[i + 1] = g[i] \o Encode(t[i + 1], masked)
      BY <3>1, <3>3
    <3>6. t[i + 1] = s[i + 1]
      BY <1>1, <3>1, Zenon
    <3>. QED
      BY <3>4, <3>5, <3>6, Zenon
  <2>3. n \in Nat
    BY <1>1
  <2>. QED
    BY <2>1, <2>2, <2>3, Alike
<1>5. g[n + 1] = g[n] \o Encode(x, masked)
  <2>1. n + 1 \in 1 .. n + 1 /\ (n + 1) - 1 = n
    BY <1>1
  <2>2. \A i \in 1 .. n + 1 : g[i] = g[i - 1] \o Encode(t[i], masked)
    BY <1>1, <1>3, Zenon DEF BytesFun
  <2>. QED
    BY <1>1, <2>1, <2>2
<1>6. n \in 0 .. n
  BY <1>1
<1>7. f[n] = g[n]
  BY <1>4, <1>6, Zenon
<1>. QED
  BY <1>1, <1>2, <1>3, <1>5, <1>7, Zenon DEF t

LEMMA BytesOne ==
    ASSUME NEW x \in Whole, NEW masked \in BOOLEAN
    PROVE  Bytes(<<x>>, masked) = Encode(x, masked)
<1>1. <<>> \in Seq(Whole) /\ <<x>> = Append(<<>>, x)
  OBVIOUS
<1>2. Bytes(Append(<<>>, x), masked) = Bytes(<<>>, masked) \o Encode(x, masked)
  BY <1>1, BytesAppend, Zenon
<1>3. Encode(x, masked) \in Seq(Byte)
  BY EncodeHeader
<1>4. \A u \in Seq(Byte) : <<>> \o u = u
  OBVIOUS
<1>. QED
  BY <1>1, <1>2, <1>3, <1>4, BytesEmpty, Zenon

LEMMA BytesConcat ==
    ASSUME NEW s \in Seq(Whole), NEW t \in Seq(Whole), NEW masked \in BOOLEAN
    PROVE  Bytes(s \o t, masked) = Bytes(s, masked) \o Bytes(t, masked)
<1>. DEFINE S == {u \in Seq(Whole) : Bytes(s \o u, masked) = Bytes(s, masked) \o Bytes(u, masked)}
<1>1. <<>> \in S
  <2>1. <<>> \in Seq(Whole) /\ s \o <<>> = s
    OBVIOUS
  <2>2. \A u \in Seq(Byte) : u \o <<>> = u
    OBVIOUS
  <2>3. Bytes(s, masked) \in Seq(Byte)
    BY BytesIs
  <2>. QED
    BY <2>1, <2>2, <2>3, BytesEmpty, Zenon
<1>2. ASSUME NEW u \in Seq(Whole), NEW x \in Whole, u \in S
      PROVE  Append(u, x) \in S
  <2>1. Append(u, x) \in Seq(Whole)
    OBVIOUS
  <2>2. s \o Append(u, x) = Append(s \o u, x) /\ s \o u \in Seq(Whole)
    BY AppendToConcat
  <2>3. Bytes(s \o Append(u, x), masked) = Bytes(s \o u, masked) \o Encode(x, masked)
    BY <2>2, BytesAppend, Zenon
  <2>4. Bytes(Append(u, x), masked) = Bytes(u, masked) \o Encode(x, masked)
    BY BytesAppend, Zenon
  <2>5. Bytes(s \o u, masked) = Bytes(s, masked) \o Bytes(u, masked)
    BY <1>2, Zenon
  <2>6. Bytes(s, masked) \in Seq(Byte) /\ Bytes(u, masked) \in Seq(Byte)
        /\ Encode(x, masked) \in Seq(Byte)
    BY BytesIs, EncodeHeader
  <2>7. \A p, q, r \in Seq(Byte) : (p \o q) \o r = p \o (q \o r)
    BY SMTT(30)
  <2>8. Bytes(s \o Append(u, x), masked) = Bytes(s, masked) \o Bytes(Append(u, x), masked)
    <3>1. (Bytes(s, masked) \o Bytes(u, masked)) \o Encode(x, masked)
              = Bytes(s, masked) \o (Bytes(u, masked) \o Encode(x, masked))
      BY <2>6, <2>7, Zenon
    <3>. QED
      BY <2>3, <2>4, <2>5, <3>1, Zenon
  <2>. QED
    BY <2>1, <2>8, Zenon
<1>3. \A u \in Seq(Whole) : u \in S
  <2>. HIDE DEF S
  <2>. QED
    BY <1>1, <1>2, SeqInduct, Zenon
<1>. QED
  BY <1>3, Zenon
LEMMA BytesHead ==
    ASSUME NEW s \in Seq(Whole), s # <<>>, NEW masked \in BOOLEAN
    PROVE  /\ Head(s) \in Whole /\ Tail(s) \in Seq(Whole) /\ Bytes(Tail(s), masked) \in Seq(Byte)
           /\ Bytes(s, masked) = Encode(Head(s), masked) \o Bytes(Tail(s), masked)
<1>1. Head(s) \in Whole /\ Tail(s) \in Seq(Whole) /\ <<Head(s)>> \in Seq(Whole)
      /\ s = <<Head(s)>> \o Tail(s)
  OBVIOUS
<1>2. Bytes(<<Head(s)>> \o Tail(s), masked) = Bytes(<<Head(s)>>, masked) \o Bytes(Tail(s), masked)
  BY <1>1, BytesConcat, Zenon
<1>3. Bytes(<<Head(s)>>, masked) = Encode(Head(s), masked)
  BY <1>1, BytesOne, Zenon
<1>4. Bytes(Tail(s), masked) \in Seq(Byte)
  BY <1>1, BytesIs
<1>. QED
  BY <1>1, <1>2, <1>3, <1>4, Zenon

\* One frame, with more behind it.
LEMMA DecodeOne ==
    ASSUME NEW f \in Whole, NEW masked \in BOOLEAN, NEW t \in Seq(Byte)
    PROVE  /\ Acceptable(f) =>
                 /\ Feed(Encode(f, masked) \o t).frames = <<f>> \o Feed(t).frames
                 /\ Feed(Encode(f, masked) \o t).rest = Feed(t).rest
                 /\ Feed(Encode(f, masked) \o t).ok = Feed(t).ok
           /\ ~Acceptable(f) => /\ Feed(Encode(f, masked) \o t).frames = <<>>
                                /\ Feed(Encode(f, masked) \o t).ok = FALSE
<1>. DEFINE e == Encode(f, masked)
<1>1. /\ e \in Seq(Byte) /\ e \o t \in Seq(Byte)
      /\ Acceptable(f) => /\ FrontOf(e \o t) = "frame"
                          /\ TotalSize(e \o t) = Len(e) /\ FrameOf(e \o t) = f
      /\ ~Acceptable(f) => FrontOf(e \o t) = "error"
  BY EncodedFront
<1>. HIDE DEF e
<1>2. ASSUME Acceptable(f)
      PROVE  /\ Feed(e \o t).frames = <<f>> \o Feed(t).frames
             /\ Feed(e \o t).rest = Feed(t).rest /\ Feed(e \o t).ok = Feed(t).ok
  <2>1. f \in Taken /\ Feed(e \o t) = Put(f, Feed(Later(e \o t)))
    <3>1. FrontOf(e \o t) = "frame" /\ FrameOf(e \o t) = f
      BY <1>1, <1>2
    <3>. QED
      BY <1>1, <3>1, LaterIs
  <2>2. Later(e \o t) = t
    <3>1. SubSeq(e \o t, Len(e) + 1, Len(e) + Len(t)) = t
      BY <1>1, Middle
    <3>2. Len(e \o t) = Len(e) + Len(t)
      BY <1>1, Prefix
    <3>. QED
      BY <1>1, <1>2, <3>1, <3>2, Zenon DEF Later
  <2>3. Feed(t) \in Results
    BY FeedType
  <2>. QED
    BY <2>1, <2>2, <2>3, PutType
<1>3. ASSUME ~Acceptable(f)
      PROVE  Feed(e \o t).frames = <<>> /\ Feed(e \o t).ok = FALSE
  BY <1>1, <1>3, StopIs
<1>. QED
  BY <1>2, <1>3 DEF e

LEMMA ConcatOfAppend ==
    ASSUME NEW X, NEW p \in Seq(X), NEW q \in Seq(X), NEW y \in X
    PROVE  p \o (<<y>> \o q) = Append(p, y) \o q
<1>1. <<y>> \in Seq(X) /\ Append(p, y) = p \o <<y>>
  OBVIOUS
<1>2. \A a, b, c \in Seq(X) : (a \o b) \o c = a \o (b \o c)
  OBVIOUS
<1>3. (p \o <<y>>) \o q = p \o (<<y>> \o q)
  BY <1>1, <1>2, Zenon
<1>. QED
  BY <1>1, <1>3, Zenon

\* p has the first n elements of s and q the others.
Split(X, s, n, p, q) == /\ p \in Seq(X) /\ q \in Seq(X) /\ s = p \o q
                        /\ Len(p) = n /\ Len(q) = Len(s) - n
                        /\ \A i \in 1 .. n : p[i] = s[i]
                        /\ n < Len(s) => q # <<>> /\ Head(q) = s[n + 1]
                        /\ n = Len(s) => q = <<>> /\ p = s

LEMMA SplitAt ==
    ASSUME NEW X, NEW s \in Seq(X), NEW n \in 0 .. Len(s)
    PROVE  Split(X, s, n, SubSeq(s, 1, n), SubSeq(s, n + 1, Len(s)))
<1>1. SubSeq(s, 1, n) \in Seq(X) /\ SubSeq(s, n + 1, Len(s)) \in Seq(X)
  OBVIOUS
<1>2. s = SubSeq(s, 1, n) \o SubSeq(s, n + 1, Len(s))
  <2>1. /\ 1 \in 1 .. Len(s) + 1 /\ n \in 1 - 1 .. Len(s) /\ Len(s) \in n .. Len(s)
    OBVIOUS
  <2>2. SubSeq(s, 1, n) \o SubSeq(s, n + 1, Len(s)) = SubSeq(s, 1, Len(s))
    BY <2>1, ConcatAdjacentSubSeq, Zenon
  <2>3. SubSeq(s, 1, Len(s)) = s
    BY SubSeqFull
  <2>. QED
    BY <2>2, <2>3, Zenon
<1>3. Len(SubSeq(s, 1, n)) = n /\ Len(SubSeq(s, n + 1, Len(s))) = Len(s) - n
  OBVIOUS
<1>4. \A i \in 1 .. n : SubSeq(s, 1, n)[i] = s[i]
  OBVIOUS
<1>5. n < Len(s) => SubSeq(s, n + 1, Len(s)) # <<>> /\ Head(SubSeq(s, n + 1, Len(s))) = s[n + 1]
  <2>. DEFINE q == SubSeq(s, n + 1, Len(s))
  <2>. SUFFICES ASSUME n < Len(s)
                PROVE  q # <<>> /\ Head(q) = s[n + 1]
    OBVIOUS
  <2>1. Len(q) # 0 /\ q[1] = s[n + 1] /\ q \in Seq(X)
    <3>1. /\ n \in Nat /\ Len(s) \in Nat /\ n + 1 \in Nat \ {0} /\ Len(s) <= Len(s)
          /\ 1 \in 1 .. Len(s) + 1 - (n + 1) /\ (n + 1) + 1 - 1 = n + 1 /\ Len(s) - n # 0
      OBVIOUS
    <3>2. \A i \in 1 .. Len(s) + 1 - (n + 1) : q[i] = s[(n + 1) + i - 1]
      BY <3>1, SubSeqIs
    <3>. HIDE DEF q
    <3>3. q[1] = s[n + 1]
      BY <3>1, <3>2
    <3>. QED
      BY <1>1, <1>3, <3>1, <3>3 DEF q
  <2>2. \A u \in Seq(X) : Len(u) # 0 => u # <<>> /\ Head(u) = u[1]
    OBVIOUS
  <2>. QED
    BY <2>1, <2>2, Zenon
<1>6. n = Len(s) => SubSeq(s, n + 1, Len(s)) = <<>> /\ SubSeq(s, 1, n) = s
  OBVIOUS
<1>. QED
  BY <1>1, <1>2, <1>3, <1>4, <1>5, <1>6, Zenon DEF Split

\* Frames that the parser takes, with more behind them.
LEMMA DecodeAll ==
    ASSUME NEW s \in Seq(Whole), NEW masked \in BOOLEAN, NEW t \in Seq(Byte),
           \A i \in 1 .. Len(s) : Acceptable(s[i])
    PROVE  /\ Feed(Bytes(s, masked) \o t).frames = s \o Feed(t).frames
           /\ Feed(Bytes(s, masked) \o t).rest = Feed(t).rest
           /\ Feed(Bytes(s, masked) \o t).ok = Feed(t).ok
<1>. DEFINE W == {f \in Whole : Acceptable(f)}
            Good(u, v) == /\ Feed(Bytes(u, masked) \o v).frames = u \o Feed(v).frames
                          /\ Feed(Bytes(u, masked) \o v).rest = Feed(v).rest
                          /\ Feed(Bytes(u, masked) \o v).ok = Feed(v).ok
            S == {u \in Seq(W) : \A v \in Seq(Byte) : Good(u, v)}
<1>0. /\ \A u \in Seq(W) : u \in Seq(Whole)
      /\ \A v \in Seq(Byte) : Feed(v).frames \in Seq(Taken)
  <2>1. \A u \in Seq(W) : u \in Seq(Whole)
    <3>1. \A x \in W : x \in Whole
      OBVIOUS
    <3>. HIDE DEF W
    <3>. QED
      BY <3>1
  <2>2. \A v \in Seq(Byte) : Feed(v).frames \in Seq(Taken)
    BY FeedType DEF Results
  <2>. QED
    BY <2>1, <2>2
<1>1. <<>> \in S
  <2>1. <<>> \in Seq(W) /\ \A v \in Seq(Byte) : <<>> \o v = v
    OBVIOUS
  <2>2. \A v \in Seq(Taken) : <<>> \o v = v
    OBVIOUS
  <2>3. \A v \in Seq(Byte) : Good(<<>>, v)
    BY <1>0, <2>1, <2>2, BytesEmpty, Zenon
  <2>. QED
    BY <2>1, <2>3, Zenon
<1>2. ASSUME NEW u \in Seq(W), NEW x \in W, u \in S
      PROVE  Append(u, x) \in S
  <2>0. Append(u, x) \in Seq(W) /\ u \in Seq(Whole) /\ x \in Whole /\ Acceptable(x)
    <3>1. Append(u, x) \in Seq(W)
      <4>. HIDE DEF W
      <4>. QED
        OBVIOUS
    <3>. QED
      BY <1>0, <3>1, Zenon
  <2>. SUFFICES ASSUME NEW v \in Seq(Byte)
                PROVE  Good(Append(u, x), v)
    BY <2>0, Zenon
  <2>. DEFINE e == Encode(x, masked)
  <2>1. e \in Seq(Byte) /\ Bytes(u, masked) \in Seq(Byte) /\ e \o v \in Seq(Byte)
    BY <2>0, BytesIs, EncodedFront
  <2>2. Bytes(Append(u, x), masked) \o v = Bytes(u, masked) \o (e \o v)
    <3>1. Bytes(Append(u, x), masked) = Bytes(u, masked) \o e
      BY <2>0, BytesAppend, Zenon
    <3>2. \A p, q, r \in Seq(Byte) : (p \o q) \o r = p \o (q \o r)
      BY SMTT(30)
    <3>3. (Bytes(u, masked) \o e) \o v = Bytes(u, masked) \o (e \o v)
      BY <2>1, <3>2, ZenonT(40)
    <3>. QED
      BY <3>1, <3>3, Zenon
  <2>3. Good(u, e \o v)
    BY <1>2, <2>1, Zenon
  <2>4. /\ Feed(e \o v).frames = <<x>> \o Feed(v).frames
        /\ Feed(e \o v).rest = Feed(v).rest /\ Feed(e \o v).ok = Feed(v).ok
    BY <2>0, DecodeOne, Zenon
  <2>5. u \o (<<x>> \o Feed(v).frames) = Append(u, x) \o Feed(v).frames
    <3>. DEFINE X == Whole \cup Taken
    <3>1. \A p \in Seq(Whole), q \in Seq(Taken) : p \in Seq(X) /\ q \in Seq(X)
      OBVIOUS
    <3>2. x \in X
      BY <2>0
    <3>. HIDE DEF X
    <3>3. \A p, q \in Seq(X) : \A y \in X : p \o (<<y>> \o q) = Append(p, y) \o q
      BY ConcatOfAppend
    <3>4. Feed(v).frames \in Seq(Taken)
      BY <1>0
    <3>. QED
      BY <2>0, <3>1, <3>2, <3>3, <3>4, Zenon
  <2>. HIDE DEF e
  <2>. QED
    BY <2>2, <2>3, <2>4, <2>5, Zenon
<1>3. \A u \in Seq(W) : u \in S
  <2>. HIDE DEF S, W
  <2>. QED
    BY <1>1, <1>2, SeqInduct, Zenon
<1>4. s \in Seq(W)
  <2>1. \A i \in 1 .. Len(s) : s[i] \in W
    BY ElementOfSeq
  <2>. HIDE DEF W
  <2>. QED
    BY <2>1
<1>. QED
  BY <1>3, <1>4, Zenon

LEMMA FeedNothing == Feed(<<>>).frames = <<>> /\ Feed(<<>>).rest = <<>> /\ Feed(<<>>).ok = TRUE
<1>1. <<>> \in Seq(Byte) /\ Len(<<>>) = 0
  OBVIOUS
<1>2. FrontOf(<<>>) = "more"
  BY <1>1 DEF FrontOf
<1>. QED
  BY <1>1, <1>2, StopIs

\* A stream of frames is parsed up to the first one that is refused.
LEMMA DecodeStream ==
    ASSUME NEW s \in Seq(Whole), NEW masked \in BOOLEAN, NEW n \in 0 .. Len(s),
           \A i \in 1 .. n : Acceptable(s[i]), n < Len(s) => ~Acceptable(s[n + 1])
    PROVE  /\ Feed(Bytes(s, masked)).frames = SubSeq(s, 1, n)
           /\ n = Len(s) => Feed(Bytes(s, masked)).rest = <<>> /\ Feed(Bytes(s, masked)).ok = TRUE
<1>. DEFINE p == SubSeq(s, 1, n)
            q == SubSeq(s, n + 1, Len(s))
            t == Bytes(q, masked)
<1>0. Len(s) \in Nat /\ n \in Nat /\ n <= Len(s)
  BY LenProperties
<1>1. /\ p \in Seq(Whole) /\ q \in Seq(Whole) /\ s = p \o q
      /\ Len(p) = n /\ Len(q) = Len(s) - n
      /\ \A i \in 1 .. n : p[i] = s[i]
      /\ n < Len(s) => q # <<>> /\ Head(q) = s[n + 1]
      /\ n = Len(s) => q = <<>> /\ p = s
  <2>1. Split(Whole, s, n, p, q)
    BY SplitAt, Zenon
  <2>. HIDE DEF p, q
  <2>. QED
    BY <2>1, Zenon DEF Split
<1>2. t \in Seq(Byte) /\ Bytes(s, masked) = Bytes(p, masked) \o t
  <2>. HIDE DEF p, q
  <2>. QED
    BY <1>1, BytesIs, BytesConcat
<1>3. \A i \in 1 .. Len(p) : Acceptable(p[i])
  BY <1>1, Zenon
<1>. HIDE DEF p, q
<1>4. /\ Feed(Bytes(s, masked)).frames = p \o Feed(t).frames
      /\ Feed(Bytes(s, masked)).rest = Feed(t).rest /\ Feed(Bytes(s, masked)).ok = Feed(t).ok
  BY <1>1, <1>2, <1>3, DecodeAll, SMTT(30)
<1>. HIDE DEF t
<1>5. CASE n = Len(s)
  <2>1. t = <<>>
    BY <1>1, <1>5, BytesEmpty, Zenon DEF t
  <2>2. p \o <<>> = p
    BY <1>1
  <2>. QED
    BY <1>4, <2>1, <2>2, FeedNothing, Zenon DEF p
<1>6. CASE n < Len(s)
  <2>1. t = Encode(Head(q), masked) \o Bytes(Tail(q), masked) /\ Head(q) \in Whole
        /\ Bytes(Tail(q), masked) \in Seq(Byte) /\ ~Acceptable(Head(q))
    BY <1>1, <1>6, BytesHead DEF t
  <2>2. Feed(t).frames = <<>>
    BY <2>1, DecodeOne, Zenon
  <2>3. p \o <<>> = p
    BY <1>1
  <2>. QED
    BY <1>0, <1>4, <1>6, <2>2, <2>3 DEF p
<1>7. n = Len(s) \/ n < Len(s)
  BY <1>0
<1>. QED
  BY <1>5, <1>6, <1>7, Zenon
-----------------------------------------------------------------------------
(***************************************************************************)
(* The socket.                                                             *)
(***************************************************************************)
\* Whether there is a socket, from where the owner is and what it has done.
Sockets == /\ connected \in BOOLEAN /\ closing \in BOOLEAN /\ sock \in BOOLEAN
           /\ connected => sock
           /\ opc = "handshake" => ~sock /\ ~closing
           /\ opc = "recv" => connected /\ ~closing
           /\ opc = "answer" => connected
           /\ opc \in {"closing", "wait"} => connected /\ closing
           /\ closing /\ opc \notin {"closing", "wait", "answer"} => ~sock

LEMMA SocketsInit == Init => Sockets
BY DEF Init, Sockets

LEMMA SocketsNext == Sockets /\ [Next]_vars => Sockets'
<1>. SUFFICES ASSUME Sockets, [Next]_vars
              PROVE  Sockets'
  OBVIOUS
<1>0. CASE UNCHANGED vars
  BY <1>0, Zenon DEF vars, Sockets
<1>1. CASE Connect
  BY <1>1 DEF Connect, Sockets
<1>2. CASE ConnectFails
  BY <1>2 DEF ConnectFails, Sockets
<1>3. CASE ConnectDone
  BY <1>3 DEF ConnectDone, Sockets
<1>4. CASE Close
  BY <1>4 DEF Close, Sockets
<1>13. CASE CloseWrites
  <2>1. opc = "closing" /\ closing' = closing
    BY <1>13 DEF CloseWrites
  <2>2. CASE sent' # sent
    <3>1. opc' = "wait" /\ UNCHANGED <<connected, sock>>
      BY <1>13, <2>2 DEF CloseWrites
    <3>. QED
      BY <2>1, <3>1 DEF Sockets
  <2>3. CASE ~(sent' # sent)
    <3>1. opc' = "idle" /\ CloseSocket
      BY <1>13, <2>3 DEF CloseWrites
    <3>. QED
      BY <2>1, <3>1 DEF CloseSocket, Sockets
  <2>. QED
    BY <2>2, <2>3
<1>5. CASE WaitForClose
  <2>1. opc = "wait" /\ closing' = closing
    BY <1>5 DEF WaitForClose
  <2>2. \/ CloseSocket /\ opc' = "idle"
        \/ UNCHANGED <<connected, sock, opc>>
    BY <1>5, Zenon DEF WaitForClose
  <2>3. CASE CloseSocket /\ opc' = "idle"
    BY <2>1, <2>3 DEF CloseSocket, Sockets
  <2>4. CASE UNCHANGED <<connected, sock, opc>>
    BY <2>1, <2>4 DEF Sockets
  <2>. QED
    BY <2>2, <2>3, <2>4
<1>6. CASE WaitEnds
  BY <1>6 DEF WaitEnds, CloseSocket, Sockets
<1>7. CASE Recv
  BY <1>7 DEF Recv, Sockets
<1>8. CASE RecvChunk
  <2>1. UNCHANGED <<connected, closing, sock>> /\ opc = "recv" /\ opc' \in {"answer", "idle"}
    BY <1>8 DEF RecvChunk
  <2>. QED
    BY <2>1 DEF Sockets
<1>14. CASE Answer
  <2>1. UNCHANGED <<connected, sock, opc>> /\ opc = "answer" /\ closing' = (closing \/ Head(todo).op = CLOSE)
    BY <1>14 DEF Answer
  <2>2. closing' \in BOOLEAN
    BY <2>1
  <2>. QED
    BY <2>1, <2>2 DEF Sockets
<1>15. CASE Answered
  <2>1. closing' = closing /\ opc = "answer"
    BY <1>15 DEF Answered
  <2>2. CASE closing
    <3>1. CloseSocket /\ opc' = "idle"
      BY <1>15, <2>2 DEF Answered
    <3>. QED
      BY <2>1, <3>1 DEF CloseSocket, Sockets
  <2>3. CASE ~closing
    <3>1. UNCHANGED <<connected, sock>> /\ opc' \in {"idle", "recv"}
      BY <1>15, <2>3 DEF Answered
    <3>. QED
      BY <2>1, <2>3, <3>1 DEF Sockets
  <2>. QED
    BY <2>2, <2>3
<1>9. CASE RecvEnds
  BY <1>9 DEF RecvEnds, Sockets
<1>10. CASE RecvTimesOut
  BY <1>10 DEF RecvTimesOut, Sockets
<1>11. CASE Send
  BY <1>11 DEF Send, Sockets
<1>12. CASE SendEnds
  BY <1>12 DEF SendEnds, Sockets
<1>. QED
  BY <1>0, <1>1, <1>2, <1>3, <1>4, <1>5, <1>6, <1>7, <1>8, <1>9, <1>10, <1>11, <1>12, <1>13,
     <1>14, <1>15 DEF Next

\* A transport whose close handshake has begun and that is not connected any
\* more has closed its socket: _close_socket() is reached on every path of
\* close(), of its wait, and of the answer to a close frame.
THEOREM SocketTheorem == Spec => []SocketReleased
<1>1. Sockets => SocketReleased
  BY DEF Sockets, SocketReleased
<1>. QED
  BY <1>1, SocketsInit, SocketsNext, PTL DEF Spec
-----------------------------------------------------------------------------
(***************************************************************************)
(* What is written.                                                        *)
(***************************************************************************)
\* Frames that the client writes; a close frame may be one that is refused.
Mine == {f \in Whole : Acceptable(f) \/ f.op = CLOSE}

NoClose(s) == \A i \in 1 .. Len(s) : s[i].op # CLOSE
OneClose(s) == \A i, j \in 1 .. Len(s) : s[i].op = CLOSE /\ s[j].op = CLOSE => i = j

LEMMA CloseOfConcat ==
    ASSUME NEW X, NEW s \in Seq(X), NEW t \in Seq(X)
    PROVE  /\ NoClose(s) /\ NoClose(t) => NoClose(s \o t)
           /\ NoClose(s) /\ OneClose(t) => OneClose(s \o t)
           /\ OneClose(s) /\ NoClose(t) => OneClose(s \o t)
<1>0. Len(s) \in Nat /\ Len(t) \in Nat /\ Len(s \o t) = Len(s) + Len(t)
  BY ElementsOfConcat
<1>1. \A i \in 1 .. Len(s \o t) :
          \/ i \in 1 .. Len(s) /\ (s \o t)[i] = s[i]
          \/ i - Len(s) \in 1 .. Len(t) /\ (s \o t)[i] = t[i - Len(s)]
  <2>. SUFFICES ASSUME NEW i \in 1 .. Len(s) + Len(t)
                PROVE  \/ i \in 1 .. Len(s) /\ (s \o t)[i] = s[i]
                       \/ i - Len(s) \in 1 .. Len(t) /\ (s \o t)[i] = t[i - Len(s)]
    BY <1>0
  <2>1. CASE i <= Len(s)
    BY <1>0, <2>1, ElementsOfConcat
  <2>2. CASE ~(i <= Len(s))
    <3>1. i - Len(s) \in 1 .. Len(t) /\ Len(s) + (i - Len(s)) = i
      BY <1>0, <2>2
    <3>2. (s \o t)[Len(s) + (i - Len(s))] = t[i - Len(s)]
      BY <3>1, ElementsOfConcat
    <3>. QED
      BY <3>1, <3>2
  <2>. QED
    BY <2>1, <2>2
<1>2. NoClose(s) /\ NoClose(t) => NoClose(s \o t)
  BY <1>1, Zenon DEF NoClose
<1>3. ASSUME NoClose(s), OneClose(t)
      PROVE  OneClose(s \o t)
  <2>. SUFFICES ASSUME NEW i \in 1 .. Len(s \o t), NEW j \in 1 .. Len(s \o t),
                       (s \o t)[i].op = CLOSE, (s \o t)[j].op = CLOSE
                PROVE  i = j
    BY Zenon DEF OneClose
  <2>1. i - Len(s) \in 1 .. Len(t) /\ t[i - Len(s)].op = CLOSE
    BY <1>1, <1>3, Zenon DEF NoClose
  <2>2. j - Len(s) \in 1 .. Len(t) /\ t[j - Len(s)].op = CLOSE
    BY <1>1, <1>3, Zenon DEF NoClose
  <2>3. i - Len(s) = j - Len(s)
    BY <1>3, <2>1, <2>2, Zenon DEF OneClose
  <2>. QED
    BY <1>0, <2>3
<1>4. ASSUME OneClose(s), NoClose(t)
      PROVE  OneClose(s \o t)
  <2>. SUFFICES ASSUME NEW i \in 1 .. Len(s \o t), NEW j \in 1 .. Len(s \o t),
                       (s \o t)[i].op = CLOSE, (s \o t)[j].op = CLOSE
                PROVE  i = j
    BY Zenon DEF OneClose
  <2>1. i \in 1 .. Len(s) /\ s[i].op = CLOSE
    BY <1>1, <1>4, Zenon DEF NoClose
  <2>2. j \in 1 .. Len(s) /\ s[j].op = CLOSE
    BY <1>1, <1>4, Zenon DEF NoClose
  <2>. QED
    BY <1>4, <2>1, <2>2, Zenon DEF OneClose
<1>. QED
  BY <1>2, <1>3, <1>4

LEMMA CloseOfTail ==
    ASSUME NEW X, NEW s \in Seq(X), s # <<>>
    PROVE  /\ Head(s) \in X /\ Tail(s) \in Seq(X)
           /\ NoClose(s) => NoClose(Tail(s)) /\ Head(s).op # CLOSE
           /\ OneClose(s) => OneClose(Tail(s))
           /\ OneClose(s) /\ Head(s).op = CLOSE => NoClose(Tail(s))
<1>1. /\ Head(s) \in X /\ Tail(s) \in Seq(X) /\ Head(s) = s[1] /\ 1 \in 1 .. Len(s)
      /\ \A i \in 1 .. Len(Tail(s)) : Tail(s)[i] = s[i + 1] /\ i + 1 \in 1 .. Len(s) /\ i + 1 # 1
      /\ \A i, j \in 1 .. Len(Tail(s)) : i + 1 = j + 1 => i = j
  OBVIOUS
<1>. DEFINE t == Tail(s)
<1>. HIDE DEF t
<1>2. NoClose(s) => NoClose(t) /\ Head(s).op # CLOSE
  BY <1>1, Zenon DEF NoClose, t
<1>3. ASSUME OneClose(s), NEW i \in 1 .. Len(t), NEW j \in 1 .. Len(t),
             t[i].op = CLOSE, t[j].op = CLOSE
      PROVE  i = j
  <2>1. s[i + 1].op = CLOSE /\ s[j + 1].op = CLOSE /\ i + 1 \in 1 .. Len(s) /\ j + 1 \in 1 .. Len(s)
    BY <1>1, <1>3, Zenon DEF t
  <2>2. i + 1 = j + 1
    BY <1>3, <2>1, Zenon DEF OneClose
  <2>. QED
    BY <1>1, <2>2, Zenon DEF t
<1>4. OneClose(s) /\ Head(s).op = CLOSE => NoClose(t)
  BY <1>1, Zenon DEF OneClose, NoClose, t
<1>5. OneClose(s) => OneClose(t)
  BY <1>3, Zenon DEF OneClose
<1>. QED
  BY <1>1, <1>2, <1>4, <1>5, Zenon DEF t

LEMMA CloseOfAppend ==
    ASSUME NEW X, NEW s \in Seq(X), NEW x \in X
    PROVE  /\ Append(s, x) \in Seq(X)
           /\ NoClose(s) /\ x.op # CLOSE => NoClose(Append(s, x))
           /\ NoClose(s) => OneClose(Append(s, x))
           /\ OneClose(s) /\ x.op # CLOSE => OneClose(Append(s, x))
<1>1. <<x>> \in Seq(X) /\ Append(s, x) = s \o <<x>> /\ Append(s, x) \in Seq(X)
      /\ Len(<<x>>) = 1 /\ <<x>>[1] = x
  OBVIOUS
<1>2. OneClose(<<x>>) /\ (x.op # CLOSE => NoClose(<<x>>))
  <2>1. \A i \in 1 .. Len(<<x>>) : i = 1
    BY <1>1
  <2>. QED
    BY <1>1, <2>1, Zenon DEF OneClose, NoClose
<1>. QED
  BY <1>1, <1>2, CloseOfConcat, Zenon

\* The bytes written so far are the frames written so far.
Written == /\ torn \in BOOLEAN /\ sent \in Seq(Mine) /\ todo \in Seq(Mine)
           /\ torn = FALSE => out = Bytes(sent, TRUE)
\* A close frame has been written only if the close handshake has begun, and one
\* is written or to be written at most; recv() alone has one to write.
Closes == /\ OneClose(sent) /\ OneClose(todo) /\ (NoClose(sent) \/ NoClose(todo))
          /\ opc # "answer" => NoClose(todo)
          /\ closing = FALSE \/ opc = "closing" => NoClose(sent)

LEMMA MineIs == \A s \in Seq(Mine) : s \in Seq(Whole)
<1>1. \A f \in Mine : f \in Whole
  BY DEF Mine
<1>. QED
  BY <1>1

\* The outcomes of a write, for the bytes and for the close frames.
LEMMA WriteWrites ==
    ASSUME Written, NEW f \in Mine, Write(f)
    PROVE  /\ torn' \in BOOLEAN /\ sent' \in Seq(Mine)
           /\ torn' = FALSE => out' = Bytes(sent', TRUE)
           /\ NoClose(sent) /\ f.op # CLOSE => NoClose(sent')
           /\ NoClose(sent) => OneClose(sent')
           /\ OneClose(sent) /\ f.op # CLOSE => OneClose(sent')
<1>1. /\ torn \in BOOLEAN /\ sent \in Seq(Mine) /\ (torn = FALSE => out = Bytes(sent, TRUE))
  BY Zenon DEF Written
<1>2. sent' = sent \/ sent' = Append(sent, f)
  BY Zenon DEF Write, outVars
<1>3. NoClose(sent) => OneClose(sent)
  BY Zenon DEF NoClose, OneClose
<1>4. /\ sent' \in Seq(Mine)
      /\ NoClose(sent) /\ f.op # CLOSE => NoClose(sent')
      /\ NoClose(sent) => OneClose(sent')
      /\ OneClose(sent) /\ f.op # CLOSE => OneClose(sent')
  BY <1>1, <1>2, <1>3, CloseOfAppend, Zenon
<1>5. torn' \in BOOLEAN
  BY <1>1, Zenon DEF Write, outVars
<1>6. torn' = FALSE => out' = Bytes(sent', TRUE)
  <2>1. CASE out' = out \o Encode(f, TRUE) /\ sent' = Append(sent, f) /\ UNCHANGED torn
    <3>1. sent \in Seq(Whole) /\ f \in Whole
      BY <1>1, MineIs, Zenon DEF Mine
    <3>2. Bytes(Append(sent, f), TRUE) = Bytes(sent, TRUE) \o Encode(f, TRUE)
      BY <3>1, BytesAppend
    <3>. QED
      BY <1>1, <2>1, <3>2, Zenon
  <2>2. CASE UNCHANGED outVars
    BY <1>1, <2>2, Zenon DEF outVars
  <2>3. CASE torn' = TRUE
    BY <2>3
  <2>. QED
    BY <2>1, <2>2, <2>3, Zenon DEF Write
<1>. QED
  BY <1>4, <1>5, <1>6

\* What decoding with replacement and encoding again makes of a byte, and of all.
Piece(b) == IF b < 128 THEN <<b>> ELSE <<239, 191, 189>>

LEMMA PieceIs == \A b \in Byte : Piece(b) \in Seq(Byte) /\ Len(Piece(b)) <= 3
<1>1. \A b \in Byte : <<b>> \in Seq(Byte) /\ Len(<<b>>) = 1
  OBVIOUS
<1>2. 239 \in Byte /\ 191 \in Byte /\ 189 \in Byte
  BY DEF Byte
<1>3. <<239, 191, 189>> \in Seq(Byte) /\ Len(<<239, 191, 189>>) = 3
  BY <1>2
<1>. QED
  BY <1>1, <1>3 DEF Piece

LEMMA ReencodedIs ==
    ASSUME NEW s \in Seq(Byte)
    PROVE  Reencoded(s) \in Seq(Byte) /\ Len(Reencoded(s)) <= 3 * Len(s)
<1>. DEFINE n == Len(s)
            P(f) == f = [i \in 0 .. Len(s) |->
                            IF i = 0 THEN <<>> ELSE f[i - 1] \o Piece(s[i])]
            c == CHOOSE f : P(f)
            h == [i \in 1 .. n |-> [v \in Seq(Byte) |-> v \o Piece(s[i])]]
<1>0. n \in Nat /\ \A i \in 1 .. n : Piece(s[i]) \in Seq(Byte) /\ Len(Piece(s[i])) <= 3
  <2>1. n \in Nat /\ \A i \in 1 .. n : s[i] \in Byte
    BY LenProperties, ElementOfSeq
  <2>. QED
    BY <2>1, PieceIs, Zenon
<1>1. PICK f : Iterates(f, n, Seq(Byte), <<>>, h)
  <2>0. \A v, w \in Seq(Byte) : v \o w \in Seq(Byte)
    BY Prefix
  <2>1. \A i \in 1 .. n : [v \in Seq(Byte) |-> v \o Piece(s[i])] \in [Seq(Byte) -> Seq(Byte)]
    BY <1>0, <2>0, Zenon
  <2>2. h \in [1 .. n -> [Seq(Byte) -> Seq(Byte)]]
    BY <2>1, Zenon
  <2>3. <<>> \in Seq(Byte)
    OBVIOUS
  <2>. HIDE DEF h, n
  <2>. QED
    BY <1>0, <2>2, <2>3, Iteration, Zenon
<1>2. /\ f \in [0 .. n -> Seq(Byte)] /\ f[0] = <<>>
      /\ \A i \in 1 .. n : f[i] = f[i - 1] \o Piece(s[i])
  <2>1. \A i \in 1 .. n : \A v \in Seq(Byte) : h[i][v] = v \o Piece(s[i])
    BY Zenon
  <2>. HIDE DEF h
  <2>2. f \in [0 .. n -> Seq(Byte)] /\ f[0] = <<>> /\ \A i \in 1 .. n : f[i] = h[i][f[i - 1]]
    BY <1>1, Zenon DEF Iterates
  <2>3. \A i \in 1 .. n : i - 1 \in 0 .. n
    BY <1>0
  <2>4. \A i \in 1 .. n : f[i - 1] \in Seq(Byte)
    BY <2>2, <2>3, Zenon
  <2>5. \A i \in 1 .. n : f[i] = f[i - 1] \o Piece(s[i])
    BY <2>1, <2>2, <2>4, Zenon
  <2>. QED
    BY <2>2, <2>5, Zenon
<1>3. P(f)
  <2>1. \A i \in 0 .. n : i = 0 \/ i \in 1 .. n
    BY <1>0
  <2>2. \A i \in 0 .. n : f[i] = IF i = 0 THEN <<>> ELSE f[i - 1] \o Piece(s[i])
    BY <1>2, <2>1, Zenon
  <2>3. f = [i \in 0 .. n |-> f[i]]
    BY <1>2, Zenon
  <2>. QED
    BY <2>2, <2>3, Zenon
<1>4. P(c)
  BY <1>3, Zenon
<1>5. c[0] = <<>> /\ \A i \in 1 .. n : c[i] = c[i - 1] \o Piece(s[i])
  <2>. HIDE DEF c
  <2>1. 0 \in 0 .. n /\ \A i \in 1 .. n : i \in 0 .. n /\ i # 0
    BY <1>0
  <2>2. \A i \in 0 .. n : c[i] = IF i = 0 THEN <<>> ELSE c[i - 1] \o Piece(s[i])
    BY <1>4, Zenon
  <2>. QED
    BY <2>1, <2>2, Zenon
<1>6. Reencoded(s) = c[n]
  BY Zenon DEF Reencoded, Piece
<1>. HIDE DEF c
<1>. DEFINE S == {i \in 0 .. n : c[i] \in Seq(Byte) /\ Len(c[i]) <= 3 * i}
<1>7. \A i \in 0 .. n : i \in S
  <2>1. 0 \in S
    <3>1. <<>> \in Seq(Byte) /\ Len(<<>>) <= 3 * 0 /\ 0 \in 0 .. n
      BY <1>0
    <3>. QED
      BY <1>5, <3>1, Zenon
  <2>2. ASSUME NEW i \in 0 .. n - 1, i \in S
        PROVE  i + 1 \in S
    <3>1. i + 1 \in 1 .. n /\ i + 1 - 1 = i /\ i + 1 \in 0 .. n /\ i \in Nat
      BY <1>0
    <3>2. PICK u \in Seq(Byte) : u = Piece(s[i + 1]) /\ Len(u) <= 3
      BY <1>0, <3>1, Zenon
    <3>3. PICK v \in Seq(Byte) : v = c[i] /\ Len(v) <= 3 * i
      BY <2>2, Zenon
    <3>4. c[i + 1] = v \o u
      <4>1. c[i + 1] = c[(i + 1) - 1] \o Piece(s[i + 1])
        BY <1>5, <3>1, Zenon
      <4>2. c[(i + 1) - 1] = c[i]
        BY <3>1
      <4>3. v \o u = c[i] \o Piece(s[i + 1])
        BY <3>2, <3>3, Zenon
      <4>. QED
        BY <4>1, <4>2, <4>3, Zenon
    <3>5. v \o u \in Seq(Byte) /\ Len(v \o u) = Len(v) + Len(u) /\ Len(v) \in Nat /\ Len(u) \in Nat
      BY Prefix, LenProperties
    <3>6. Len(v \o u) <= 3 * (i + 1)
      <4>1. \A a, b, k \in Nat : a <= 3 * k /\ b <= 3 => a + b <= 3 * (k + 1)
        OBVIOUS
      <4>. QED
        BY <3>1, <3>2, <3>3, <3>5, <4>1, Zenon
    <3>. QED
      BY <3>1, <3>4, <3>5, <3>6, Zenon
  <2>. HIDE DEF S, n
  <2>. QED
    BY <1>0, <2>1, <2>2, Induct, Zenon
<1>8. n \in S
  <2>1. n \in 0 .. n
    BY <1>0
  <2>. HIDE DEF S
  <2>. QED
    BY <1>7, <2>1, Zenon
<1>. QED
  BY <1>6, <1>8
\* The answer to a ping or to a close frame.
AnswerTo(f) == IF f.op = PING THEN [f EXCEPT !.op = PONG] ELSE Echo(f)
Asking == Frames({PING, CLOSE})

LEMMA MineFrame ==
    ASSUME NEW op \in Opcodes, NEW payload \in Seq(Byte), Len(payload) <= MaxFrame,
           IsControl(op) => Len(payload) <= Inline
    PROVE  [op |-> op, fin |-> TRUE, payload |-> payload] \in Mine
<1>. DEFINE f == [op |-> op, fin |-> TRUE, payload |-> payload]
<1>1. f.op = op /\ f.fin = TRUE /\ f.payload = payload
  OBVIOUS
<1>2. op \in 0 .. 15
  BY DEF Opcodes, TEXT, CLOSE, PING, PONG
<1>3. f \in Frames(0 .. 15)
  BY <1>2 DEF Frames
<1>4. Len(payload) < Power(Wide)
  <2>1. Len(payload) \in Nat /\ Power(Wide) \in Nat
    BY LenProperties, PowerProperties, Widths
  <2>. QED
    BY <2>1, Widths
<1>. HIDE DEF f
<1>5. f \in Whole
  BY <1>1, <1>3, <1>4 DEF Whole
<1>6. Acceptable(f)
  BY <1>1 DEF Acceptable
<1>. QED
  BY <1>5, <1>6 DEF Mine, f

LEMMA ShortPayload ==
    ASSUME NEW a \in Byte, NEW b \in Byte
    PROVE  <<a, b>> \in Seq(Byte) /\ Len(<<a, b>>) <= MaxFrame /\ Len(<<a, b>>) <= Inline
<1>1. <<a, b>> \in Seq(Byte) /\ Len(<<a, b>>) = 2
  OBVIOUS
<1>2. 2 <= MaxFrame /\ 2 <= Inline
  BY LengthsAssumption, Widths
<1>. QED
  BY <1>1, <1>2

LEMMA AskingIs ==
    ASSUME NEW f \in Taken \cap Asking
    PROVE  /\ f = [op |-> f.op, fin |-> TRUE, payload |-> f.payload]
           /\ f.op \in {PING, CLOSE} /\ f.payload \in Seq(Byte)
           /\ Len(f.payload) <= MaxFrame /\ Len(f.payload) <= Inline
<1>1. f \in Taken /\ f \in Asking
  OBVIOUS
<1>2. /\ f = [op |-> f.op, fin |-> f.fin, payload |-> f.payload]
      /\ f.op \in {PING, CLOSE} /\ f.payload \in Seq(Byte)
  BY <1>1 DEF Asking, Frames
<1>3. Acceptable(f) /\ (IsControl(f.op) => f.fin = TRUE)
  BY <1>1 DEF Taken
<1>4. IsControl(f.op)
  BY <1>2 DEF IsControl, PING, CLOSE
<1>5. f.fin = TRUE
  BY <1>3, <1>4
<1>6. f = [op |-> f.op, fin |-> TRUE, payload |-> f.payload]
  BY <1>2, <1>5, Zenon
<1>7. Len(f.payload) <= MaxFrame /\ Len(f.payload) <= Inline
  BY <1>3, <1>4 DEF Acceptable
<1>. QED
  BY <1>2, <1>6, <1>7, Zenon

\* The echo of a close frame that was taken fits on the wire, however its reason
\* grows.
LEMMA EchoIs ==
    ASSUME NEW payload \in Seq(Byte), Len(payload) <= Inline,
           NEW f, f = [op |-> CLOSE, fin |-> TRUE, payload |-> payload]
    PROVE  Echo(f) \in Mine
<1>. DEFINE code == IF Len(payload) < 2 \/ SubSeq(payload, 1, 2) = <<0, 0>> THEN <<3, 237>>
                    ELSE SubSeq(payload, 1, 2)
            reason == SubSeq(payload, 3, Len(payload))
            p == code \o Reencoded(reason)
<1>1. f.payload = payload
  OBVIOUS
<1>2. Echo(f) = [op |-> CLOSE, fin |-> TRUE, payload |-> p]
  <2>1. Echo(f) = [f EXCEPT !.payload = p]
    BY <1>1, Zenon DEF Echo
  <2>2. \A o, t, q, x : [[op |-> o, fin |-> t, payload |-> q] EXCEPT !.payload = x]
                            = [op |-> o, fin |-> t, payload |-> x]
    OBVIOUS
  <2>. HIDE DEF p
  <2>. QED
    BY <2>1, <2>2, Zenon
<1>3. code \in Seq(Byte) /\ Len(code) = 2
  <2>1. 3 \in Byte /\ 237 \in Byte
    BY DEF Byte
  <2>2. <<3, 237>> \in Seq(Byte) /\ Len(<<3, 237>>) = 2
    BY <2>1
  <2>3. ~(Len(payload) < 2) => SubSeq(payload, 1, 2) \in Seq(Byte) /\ Len(SubSeq(payload, 1, 2)) = 2
    OBVIOUS
  <2>. QED
    BY <2>2, <2>3, Zenon
<1>4. reason \in Seq(Byte) /\ (Len(reason) = 0 \/ Len(reason) = Len(payload) - 2)
  OBVIOUS
<1>5. 2 <= Inline /\ Inline \in Nat /\ 3 * Inline < Power(Wide) /\ Power(Wide) \in Nat
  BY LengthsAssumption, Widths, PowerProperties
<1>. HIDE DEF code, reason
<1>6. Reencoded(reason) \in Seq(Byte) /\ Len(Reencoded(reason)) <= 3 * Len(reason)
  BY <1>4, ReencodedIs
<1>7. p \in Seq(Byte) /\ Len(p) = Len(code) + Len(Reencoded(reason))
  BY <1>3, <1>6, Prefix, Zenon
<1>8. Len(p) < Power(Wide)
  <2>1. Len(payload) \in Nat /\ Len(Reencoded(reason)) \in Nat
    BY <1>6, LenProperties
  <2>. HIDE DEF p
  <2>. QED
    BY <1>3, <1>4, <1>5, <1>6, <1>7, <2>1
<1>. HIDE DEF p
<1>9. CLOSE \in 0 .. 15
  BY DEF CLOSE
<1>10. Echo(f) \in Frames(0 .. 15)
  <2>1. \A o \in 0 .. 15 : \A q \in Seq(Byte) :
            [op |-> o, fin |-> TRUE, payload |-> q] \in Frames(0 .. 15)
    BY DEF Frames
  <2>. QED
    BY <1>2, <1>7, <1>9, <2>1, Zenon
<1>11. Echo(f).op = CLOSE /\ Echo(f).fin = TRUE /\ Echo(f).payload = p
  BY <1>2
<1>12. Echo(f) \in Whole
  BY <1>8, <1>10, <1>11, Zenon DEF Whole
<1>. QED
  BY <1>11, <1>12, Zenon DEF Mine

LEMMA AnswerIs ==
    ASSUME NEW f \in Taken \cap Asking
    PROVE  AnswerTo(f) \in Mine /\ (f.op # CLOSE => AnswerTo(f).op # CLOSE)
<1>1. /\ f = [op |-> f.op, fin |-> TRUE, payload |-> f.payload]
      /\ f.op \in {PING, CLOSE} /\ f.payload \in Seq(Byte)
      /\ Len(f.payload) <= MaxFrame /\ Len(f.payload) <= Inline
  BY AskingIs
<1>2. PICK op, payload : op = f.op /\ payload = f.payload
  OBVIOUS
<1>3. /\ f = [op |-> op, fin |-> TRUE, payload |-> payload]
      /\ op \in {PING, CLOSE} /\ payload \in Seq(Byte)
      /\ Len(payload) <= MaxFrame /\ Len(payload) <= Inline
  BY <1>1, <1>2, Zenon
<1>4. PONG \in Opcodes
  BY DEF Opcodes
<1>5. CASE op = PING
  <2>1. AnswerTo(f) = [op |-> PONG, fin |-> TRUE, payload |-> payload]
    <3>1. AnswerTo(f) = [f EXCEPT !.op = PONG]
      BY <1>2, <1>5, Zenon DEF AnswerTo
    <3>2. \A o, t, p, x : [[op |-> o, fin |-> t, payload |-> p] EXCEPT !.op = x]
                              = [op |-> x, fin |-> t, payload |-> p]
      OBVIOUS
    <3>. QED
      BY <1>3, <3>1, <3>2, Zenon
  <2>2. AnswerTo(f) \in Mine
    BY <1>3, <1>4, <2>1, MineFrame, Zenon
  <2>3. AnswerTo(f).op # CLOSE
    BY <2>1 DEF PONG, CLOSE
  <2>. QED
    BY <2>2, <2>3
<1>6. CASE op = CLOSE
  <2>1. AnswerTo(f) = Echo(f)
    <3>1. f.op # PING
      BY <1>2, <1>6 DEF PING, CLOSE
    <3>. QED
      BY <3>1, Zenon DEF AnswerTo
  <2>2. Echo(f) \in Mine
    BY <1>3, <1>6, EchoIs, Zenon
  <2>. QED
    BY <1>2, <1>6, <2>1, <2>2
<1>. QED
  BY <1>3, <1>5, <1>6
\* What is heard of the frames: all of them, or those up to the first close frame.
Firsts(frames) == {i \in DOMAIN frames : /\ frames[i].op = CLOSE
                                         /\ \A j \in 1 .. i - 1 : frames[j].op # CLOSE}
Heard(frames) == IF Firsts(frames) = {} THEN frames
                 ELSE SubSeq(frames, 1, CHOOSE i \in Firsts(frames) : TRUE)

LEMMA AnswersAre ==
    ASSUME NEW fs
    PROVE  Answers(fs) = [i \in DOMAIN Filter(Heard(fs), Asking) |->
                             AnswerTo(Filter(Heard(fs), Asking)[i])]
BY DEF Answers, Heard, Firsts, AnswerTo, Asking

LEMMA FirstClose ==
    ASSUME NEW fs \in Seq(Taken), Firsts(fs) = {}
    PROVE  NoClose(fs)
<1>. DEFINE T == {i \in 1 .. Len(fs) : fs[i].op = CLOSE}
<1>1. ASSUME T # {}
      PROVE  FALSE
  <2>1. PICK m \in T : \A k \in T : m <= k
    <3>1. T \in SUBSET Nat
      OBVIOUS
    <3>. HIDE DEF T
    <3>. QED
      BY <1>1, <3>1, LeastNumber
  <2>2. m \in 1 .. Len(fs) /\ fs[m].op = CLOSE /\ DOMAIN fs = 1 .. Len(fs) /\ Len(fs) \in Nat
    BY <2>1, LenProperties
  <2>3. \A j \in 1 .. m - 1 : j \in 1 .. Len(fs) /\ ~(m <= j)
    BY <2>2
  <2>4. \A j \in 1 .. m - 1 : fs[j].op # CLOSE
    BY <2>1, <2>3, Zenon
  <2>5. m \in Firsts(fs)
    BY <2>2, <2>4, Zenon DEF Firsts
  <2>. QED
    BY <2>5, Zenon
<1>. QED
  BY <1>1, Zenon DEF NoClose

\* Frames that ask, and what is answered to them.
LEMMA AnsweredAre ==
    ASSUME NEW a \in Seq(Taken \cap Asking), NEW r, r = [i \in DOMAIN a |-> AnswerTo(a[i])]
    PROVE  /\ r \in Seq(Mine) /\ Len(r) = Len(a)
           /\ \A i \in 1 .. Len(r) : a[i].op # CLOSE => r[i].op # CLOSE
<1>1. \A i \in 1 .. Len(a) : a[i] \in Taken \cap Asking
  BY ElementOfSeq
<1>2. DOMAIN a = 1 .. Len(a) /\ Len(a) \in Nat
  BY LenProperties
<1>3. \A i \in 1 .. Len(a) : r[i] = AnswerTo(a[i])
  BY <1>2, Zenon
<1>4. \A i \in 1 .. Len(a) : r[i] \in Mine /\ (a[i].op # CLOSE => r[i].op # CLOSE)
  BY <1>1, <1>3, AnswerIs, Zenon
<1>5. r = [i \in 1 .. Len(a) |-> r[i]]
  BY <1>2, Zenon
<1>6. r \in [1 .. Len(a) -> Mine]
  BY <1>4, <1>5, Zenon
<1>7. \A n \in Nat : \A g \in [1 .. n -> Mine] : g \in Seq(Mine) /\ Len(g) = n
  OBVIOUS
<1>8. r \in Seq(Mine) /\ Len(r) = Len(a)
  BY <1>2, <1>6, <1>7, Zenon
<1>. QED
  BY <1>4, <1>8, Zenon

LEMMA AnswersType ==
    ASSUME NEW fs \in Seq(Taken)
    PROVE  /\ Answers(fs) \in Seq(Mine) /\ OneClose(Answers(fs))
           /\ NoClose(fs) => NoClose(Answers(fs))
<1>. DEFINE Other == {f \in Taken : f.op # CLOSE}
            a == Filter(Heard(fs), Asking)
            r == Answers(fs)
<1>1. r = [i \in DOMAIN a |-> AnswerTo(a[i])]
  BY AnswersAre, Zenon
<1>2. DOMAIN fs = 1 .. Len(fs) /\ Len(fs) \in Nat
  BY LenProperties
<1>3. \A x \in Other \cap Asking : x \in Taken \cap Asking /\ x.op # CLOSE
  OBVIOUS
<1>4. ASSUME Firsts(fs) = {}
      PROVE  r \in Seq(Mine) /\ OneClose(r) /\ NoClose(r)
  <2>1. Heard(fs) = fs
    BY <1>4, Zenon DEF Heard
  <2>2. NoClose(fs)
    BY <1>4, FirstClose
  <2>3. \A i \in 1 .. Len(fs) : fs[i] \in Other
    <3>1. \A i \in 1 .. Len(fs) : fs[i] \in Taken
      BY ElementOfSeq
    <3>. QED
      BY <2>2, <3>1, Zenon DEF NoClose
  <2>. HIDE DEF Other
  <2>4. fs \in Seq(Other)
    BY <2>3
  <2>5. a \in Seq(Other \cap Asking)
    BY <2>1, <2>4, FilterType
  <2>. HIDE DEF a, r
  <2>6. \A i \in 1 .. Len(a) : a[i].op # CLOSE
    BY <1>3, <2>5, ElementOfSeq
  <2>7. a \in Seq(Taken \cap Asking)
    BY <1>3, <2>5
  <2>8. /\ r \in Seq(Mine) /\ Len(r) = Len(a)
        /\ \A i \in 1 .. Len(r) : a[i].op # CLOSE => r[i].op # CLOSE
    BY <1>1, <2>7, AnsweredAre, Zenon
  <2>9. NoClose(r)
    BY <2>6, <2>8, Zenon DEF NoClose
  <2>10. OneClose(r)
    BY <2>9, Zenon DEF NoClose, OneClose
  <2>. QED
    BY <2>8, <2>9, <2>10
<1>5. ASSUME Firsts(fs) # {}
      PROVE  r \in Seq(Mine) /\ OneClose(r) /\ ~NoClose(fs)
  <2>1. PICK m : m \in Firsts(fs) /\ Heard(fs) = SubSeq(fs, 1, m)
    BY <1>5, Zenon DEF Heard
  <2>2. m \in 1 .. Len(fs) /\ fs[m].op = CLOSE /\ \A j \in 1 .. m - 1 : fs[j].op # CLOSE
    BY <1>2, <2>1, Zenon DEF Firsts
  <2>. DEFINE u == SubSeq(fs, 1, m - 1)
              x == fs[m]
  <2>3. /\ u \in Seq(Taken) /\ Len(u) = m - 1 /\ \A i \in 1 .. m - 1 : u[i] = fs[i]
        /\ x \in Taken /\ SubSeq(fs, 1, m) = Append(u, x)
    <3>1. ASSUME NEW X, NEW s \in Seq(X), NEW k \in 1 .. Len(s)
          PROVE  /\ SubSeq(s, 1, k - 1) \in Seq(X) /\ Len(SubSeq(s, 1, k - 1)) = k - 1
                 /\ \A i \in 1 .. k - 1 : SubSeq(s, 1, k - 1)[i] = s[i]
                 /\ s[k] \in X /\ SubSeq(s, 1, k) = Append(SubSeq(s, 1, k - 1), s[k])
      OBVIOUS
    <3>. QED
      BY <2>2, <3>1
  <2>4. x.op = CLOSE /\ \A i \in 1 .. Len(u) : u[i].op # CLOSE
    BY <2>2, <2>3, Zenon
  <2>5. Heard(fs) = Append(u, x)
    BY <2>1, <2>3, Zenon
  <2>. HIDE DEF u, x
  <2>6. x \in Taken \cap Asking
    <3>1. x \in Frames(Opcodes)
      BY <2>3 DEF Taken
    <3>2. x \in Frames({PING, CLOSE})
      BY <2>4, <3>1 DEF Frames
    <3>. QED
      BY <2>3, <3>2 DEF Asking
  <2>. DEFINE v == Filter(u, Asking)
  <2>7. a = Append(v, x)
    BY <2>3, <2>5, <2>6, FilterAppend
  <2>8. v \in Seq(Other \cap Asking)
    <3>1. \A i \in 1 .. Len(u) : u[i] \in Other
      BY <2>3, <2>4, ElementOfSeq
    <3>. HIDE DEF Other
    <3>2. u \in Seq(Other)
      BY <2>3, <3>1
    <3>. QED
      BY <3>2, FilterType
  <2>. HIDE DEF v, a, r, Other
  <2>9. v \in Seq(Taken \cap Asking) /\ \A i \in 1 .. Len(v) : v[i].op # CLOSE
    BY <1>3, <2>8, ElementOfSeq
  <2>10. /\ a \in Seq(Taken \cap Asking) /\ Len(a) = Len(v) + 1 /\ Len(v) \in Nat
         /\ \A i \in 1 .. Len(v) : a[i] = v[i]
    <3>1. ASSUME NEW X, NEW s \in Seq(X), NEW y \in X
          PROVE  /\ Append(s, y) \in Seq(X) /\ Len(Append(s, y)) = Len(s) + 1 /\ Len(s) \in Nat
                 /\ \A i \in 1 .. Len(s) : Append(s, y)[i] = s[i]
      OBVIOUS
    <3>. QED
      BY <2>6, <2>7, <2>9, <3>1
  <2>11. /\ r \in Seq(Mine) /\ Len(r) = Len(a)
         /\ \A i \in 1 .. Len(r) : a[i].op # CLOSE => r[i].op # CLOSE
    BY <1>1, <2>10, AnsweredAre, Zenon
  <2>12. \A i \in 1 .. Len(r) : r[i].op = CLOSE => i = Len(r)
    <3>1. \A i \in 1 .. Len(r) : i = Len(r) \/ i \in 1 .. Len(v)
      BY <2>10, <2>11
    <3>. QED
      BY <2>9, <2>10, <2>11, <3>1, Zenon
  <2>13. OneClose(r)
    BY <2>12, Zenon DEF OneClose
  <2>. QED
    BY <2>2, <2>11, <2>13, Zenon DEF NoClose
<1>. QED
  BY <1>4, <1>5, Zenon
(***************************************************************************)
(* The bytes that come in.                                                 *)
(***************************************************************************)
Streams == buffer \in Seq(Byte) /\ wire \in Seq(Byte) /\ served \in Seq(Whole)

LEMMA ServerFramesAreWhole ==
    ASSUME NEW i \in 1 .. MaxFrames, NEW f \in ServerFrames(i)
    PROVE  f \in Whole
<1>. DEFINE payload(n) == [j \in 1 .. n |-> i]
            garbled(n) == [j \in 1 .. n |-> IF j <= 2 THEN i ELSE 255]
            Lens == DataLens \cup ControlLens \cup GarbledLens
<1>1. i \in Byte /\ 255 \in Byte
  BY BoundsAssumption DEF Byte
<1>2. \A n \in Lens : n \in Nat /\ n < Power(Wide)
  <2>1. Power(Wide) \in Nat
    BY PowerProperties, Widths
  <2>2. \A n \in 0 .. Power(Wide) - 1 : n \in Nat /\ n < Power(Wide)
    BY <2>1
  <2>3. Lens \subseteq 0 .. Power(Wide) - 1
    BY LengthsAssumption
  <2>. QED
    BY <2>2, <2>3, Zenon
<1>3. \A n \in Lens : /\ payload(n) \in Seq(Byte) /\ Len(payload(n)) < Power(Wide)
                      /\ garbled(n) \in Seq(Byte) /\ Len(garbled(n)) < Power(Wide)
  <2>1. \A n \in Nat : payload(n) \in Seq(Byte) /\ Len(payload(n)) = n
    BY <1>1
  <2>2. \A n \in Nat : garbled(n) \in Seq(Byte) /\ Len(garbled(n)) = n
    BY <1>1
  <2>. QED
    BY <1>2, <2>1, <2>2, Zenon
<1>. DEFINE D == {payload(n) : n \in DataLens}
            C == {payload(n) : n \in ControlLens}
            G == {garbled(n) : n \in GarbledLens}
            Ps == D \cup C \cup G
<1>4. \A p \in Ps : p \in Seq(Byte) /\ Len(p) < Power(Wide)
  <2>1. \A n \in DataLens \cup ControlLens : payload(n) \in Seq(Byte) /\ Len(payload(n)) < Power(Wide)
    BY <1>3, Zenon
  <2>2. \A n \in GarbledLens : garbled(n) \in Seq(Byte) /\ Len(garbled(n)) < Power(Wide)
    BY <1>3, Zenon
  <2>. HIDE DEF payload, garbled
  <2>3. \A p \in D : p \in Seq(Byte) /\ Len(p) < Power(Wide)
    BY <2>1, Zenon
  <2>4. \A p \in C : p \in Seq(Byte) /\ Len(p) < Power(Wide)
    BY <2>1, Zenon
  <2>5. \A p \in G : p \in Seq(Byte) /\ Len(p) < Power(Wide)
    BY <2>2, Zenon
  <2>. HIDE DEF D, C, G
  <2>. QED
    BY <2>3, <2>4, <2>5, Zenon
<1>. DEFINE Ops == {TEXT, CLOSE, PING, 11}
<1>5. f \in [op : Ops, fin : {TRUE}, payload : Ps]
  <2>1. f \in [op : {TEXT}, fin : {TRUE}, payload : D]
              \cup [op : {CLOSE, PING, 11}, fin : {TRUE}, payload : C]
              \cup [op : {CLOSE}, fin : {TRUE}, payload : G]
    BY Zenon DEF ServerFrames
  <2>. HIDE DEF D, C, G
  <2>. QED
    BY <2>1
<1>. HIDE DEF Ps, Ops
<1>6. f.op \in 0 .. 15 /\ f.fin = TRUE /\ f.payload \in Ps
      /\ f = [op |-> f.op, fin |-> f.fin, payload |-> f.payload]
  <2>1. \A O, F, P : \A g \in [op : O, fin : F, payload : P] :
            g.op \in O /\ g.fin \in F /\ g.payload \in P
            /\ g = [op |-> g.op, fin |-> g.fin, payload |-> g.payload]
    OBVIOUS
  <2>2. f.op \in Ops /\ f.fin \in {TRUE} /\ f.payload \in Ps
        /\ f = [op |-> f.op, fin |-> f.fin, payload |-> f.payload]
    BY <1>5, <2>1, Zenon
  <2>3. Ops \subseteq 0 .. 15
    BY DEF Ops, TEXT, CLOSE, PING
  <2>. QED
    BY <2>2, <2>3, Zenon
<1>7. f.payload \in Seq(Byte) /\ Len(f.payload) < Power(Wide)
  BY <1>4, <1>6, Zenon
<1>8. f \in Frames(0 .. 15)
  BY <1>6, <1>7 DEF Frames
<1>. QED
  BY <1>6, <1>7, <1>8, Zenon DEF Whole
LEMMA StreamsInit == Init => Streams
<1>. SUFFICES ASSUME Init
              PROVE  Streams
  OBVIOUS
<1>1. PICK n \in 0 .. MaxFrames :
          served \in {s \in [1 .. n -> UNION {ServerFrames(i) : i \in 1 .. n}] :
                         \A i \in 1 .. n : s[i] \in ServerFrames(i)}
  BY DEF Init
<1>2. \A i \in 1 .. n : i \in 1 .. MaxFrames /\ n \in Nat
  BY BoundsAssumption
<1>3. served = [i \in 1 .. n |-> served[i]] /\ \A i \in 1 .. n : served[i] \in ServerFrames(i)
  BY <1>1, Zenon
<1>4. \A i \in 1 .. n : served[i] \in Whole
  BY <1>2, <1>3, ServerFramesAreWhole, Zenon
<1>5. served \in [1 .. n -> Whole]
  BY <1>3, <1>4, Zenon
<1>6. n \in Nat
  BY BoundsAssumption
<1>7. served \in Seq(Whole)
  <2>1. \A m \in Nat : \A g \in [1 .. m -> Whole] : g \in Seq(Whole)
    OBVIOUS
  <2>. QED
    BY <1>5, <1>6, <2>1, Zenon
<1>8. Bytes(served, FALSE) \in Seq(Byte)
  BY <1>7, BytesIs
<1>9. <<>> \in Seq(Byte)
  OBVIOUS
<1>. QED
  BY <1>7, <1>8, <1>9 DEF Init, Streams

\* What recv() does with a chunk of n bytes.
Chunk(n, fed, frames) ==
    /\ fed = Feed(buffer \o SubSeq(wire, 1, n))
    /\ \/ fed.ok = TRUE /\ frames = fed.frames /\ broken' = broken /\ opc' = "answer"
       \/ fed.ok = FALSE /\ frames = <<>> /\ broken' = TRUE /\ opc' = "idle"
    /\ todo' = Answers(frames) /\ pending' = pending \o DataOf(frames)
    /\ buffer' = fed.rest /\ wire' = SubSeq(wire, n + 1, Len(wire))
    /\ UNCHANGED <<connected, closing, sock, got, skipped, served, outVars>>

LEMMA ChunkOf ==
    ASSUME Streams, broken \in BOOLEAN, RecvChunk
    PROVE  \E n \in 1 .. Len(wire), fed \in Results, frames \in Seq(Taken) : Chunk(n, fed, frames)
<1>. DEFINE fd(n) == Feed(buffer \o SubSeq(wire, 1, n))
            fr(n) == IF fd(n).ok THEN fd(n).frames ELSE <<>>
<1>1. PICK n \in 1 .. Len(wire) :
           /\ broken' = (broken \/ ~fd(n).ok)
           /\ todo' = Answers(fr(n))
           /\ pending' = pending \o DataOf(fr(n))
           /\ buffer' = fd(n).rest
           /\ wire' = SubSeq(wire, n + 1, Len(wire))
           /\ opc' = IF fd(n).ok THEN "answer" ELSE "idle"
  BY Zenon DEF RecvChunk
<1>2. fd(n) \in Results
  <2>1. SubSeq(wire, 1, n) \in Seq(Byte)
    BY SubSeqIs, LenProperties DEF Streams
  <2>2. buffer \o SubSeq(wire, 1, n) \in Seq(Byte)
    BY <2>1, Prefix DEF Streams
  <2>. QED
    BY <2>2, FeedType
<1>3. PICK fed \in Results : fed = fd(n)
  BY <1>2, Zenon
<1>4. fed.ok \in BOOLEAN /\ fed.frames \in Seq(Taken) /\ <<>> \in Seq(Taken)
  BY <1>3 DEF Results
<1>5. PICK frames \in Seq(Taken) : frames = fr(n)
  <2>1. fr(n) = IF fed.ok THEN fed.frames ELSE <<>>
    BY <1>3, Zenon
  <2>2. fr(n) \in Seq(Taken)
    BY <1>4, <2>1, Zenon
  <2>. QED
    BY <2>2, Zenon
<1>6. \/ fed.ok = TRUE /\ frames = fed.frames /\ broken' = broken /\ opc' = "answer"
      \/ fed.ok = FALSE /\ frames = <<>> /\ broken' = TRUE /\ opc' = "idle"
  <2>1. /\ broken' = (broken \/ ~fed.ok) /\ frames = IF fed.ok THEN fed.frames ELSE <<>>
        /\ opc' = IF fed.ok THEN "answer" ELSE "idle"
    BY <1>1, <1>3, <1>5, Zenon
  <2>2. CASE fed.ok = TRUE
    BY <2>1, <2>2, Zenon
  <2>3. CASE fed.ok = FALSE
    BY <2>1, <2>3, Zenon
  <2>. QED
    BY <1>4, <2>2, <2>3, Zenon
<1>7. /\ todo' = Answers(frames) /\ pending' = pending \o DataOf(frames)
      /\ buffer' = fed.rest /\ wire' = SubSeq(wire, n + 1, Len(wire))
  BY <1>1, <1>3, <1>5, Zenon
<1>8. UNCHANGED <<connected, closing, sock, got, skipped, served, outVars>>
  BY Zenon DEF RecvChunk
<1>9. Chunk(n, fed, frames)
  BY <1>3, <1>6, <1>7, <1>8, Zenon DEF Chunk
<1>. QED
  BY <1>9, Zenon
Flags == broken \in BOOLEAN /\ skipped \in BOOLEAN

\* The rest of the wire after n bytes, and what Feed() leaves, are bytes.
LEMMA RestTyped ==
    ASSUME Streams, NEW n \in 0 .. Len(wire)
    PROVE  /\ SubSeq(wire, 1, n) \in Seq(Byte) /\ SubSeq(wire, n + 1, Len(wire)) \in Seq(Byte)
           /\ wire = SubSeq(wire, 1, n) \o SubSeq(wire, n + 1, Len(wire))
           /\ buffer \o SubSeq(wire, 1, n) \in Seq(Byte)
           /\ Feed(buffer \o SubSeq(wire, 1, n)) \in Results
           /\ Feed(buffer \o SubSeq(wire, 1, n)).rest \in Seq(Byte)
<1>. DEFINE p == SubSeq(wire, 1, n)
            q == SubSeq(wire, n + 1, Len(wire))
<1>1. Split(Byte, wire, n, p, q)
  BY SplitAt DEF Streams
<1>. HIDE DEF p, q
<1>2. p \in Seq(Byte) /\ q \in Seq(Byte) /\ wire = p \o q
  BY <1>1, Zenon DEF Split
<1>3. buffer \o p \in Seq(Byte)
  BY <1>2, Prefix DEF Streams
<1>4. Feed(buffer \o p) \in Results
  BY <1>3, FeedType
<1>5. Feed(buffer \o p).rest \in Seq(Byte)
  BY <1>4 DEF Results
<1>. QED
  BY <1>2, <1>3, <1>4, <1>5, Zenon DEF p, q

LEMMA NothingTyped == CloseSocket => buffer' \in Seq(Byte) /\ wire' \in Seq(Byte)
<1>1. <<>> \in Seq(Byte)
  OBVIOUS
<1>. QED
  BY <1>1 DEF CloseSocket

LEMMA StreamsNext == Streams /\ Flags /\ Sockets /\ [Next]_vars => Streams' /\ Flags'
<1>. SUFFICES ASSUME Streams, Flags, Sockets, [Next]_vars
              PROVE  Streams' /\ Flags'
  OBVIOUS
<1>a. ASSUME UNCHANGED <<buffer, peerVars, broken, skipped>>
      PROVE  Streams' /\ Flags'
  BY <1>a, Zenon DEF peerVars, Streams, Flags
<1>b. ASSUME CloseSocket, UNCHANGED <<served, broken, skipped>>
      PROVE  Streams' /\ Flags'
  BY <1>b, NothingTyped, Zenon DEF Streams, Flags
<1>c. Len(wire) \in Nat
  BY LenProperties DEF Streams
<1>0. CASE UNCHANGED vars
  BY <1>0, <1>a, Zenon DEF vars
<1>1. CASE Connect
  BY <1>1, <1>a, Zenon DEF Connect
<1>2. CASE ConnectFails
  BY <1>2, <1>a, Zenon DEF ConnectFails
<1>3. CASE ConnectDone
  <2>1. PICK n \in 0 .. Len(wire) : wire' = SubSeq(wire, n + 1, Len(wire)) /\ skipped' = (n > 0)
    BY <1>3, Zenon DEF ConnectDone
  <2>2. wire' \in Seq(Byte)
    BY <2>1, RestTyped
  <2>3. skipped' \in BOOLEAN
    BY <2>1
  <2>4. UNCHANGED <<buffer, served, broken>>
    BY <1>3, Zenon DEF ConnectDone
  <2>. QED
    BY <2>2, <2>3, <2>4, Zenon DEF Streams, Flags
<1>4. CASE Close
  BY <1>4, <1>a, Zenon DEF Close
<1>13. CASE CloseWrites
  <2>1. UNCHANGED <<served, broken, skipped>>
    BY <1>13, Zenon DEF CloseWrites
  <2>2. CloseSocket \/ UNCHANGED <<buffer, wire>>
    BY <1>13, Zenon DEF CloseWrites
  <2>. QED
    BY <1>a, <1>b, <2>1, <2>2, Zenon DEF peerVars
<1>5. CASE WaitForClose
  <2>1. UNCHANGED <<served, broken, skipped>>
    BY <1>5, Zenon DEF WaitForClose
  <2>2. PICK n \in 1 .. Len(wire) :
            \/ CloseSocket
            \/ /\ buffer' = Feed(buffer \o SubSeq(wire, 1, n)).rest
               /\ wire' = SubSeq(wire, n + 1, Len(wire))
    BY <1>5, Zenon DEF WaitForClose
  <2>3. n \in 0 .. Len(wire)
    BY <1>c
  <2>4. CASE CloseSocket
    BY <1>b, <2>1, <2>4, Zenon
  <2>5. CASE /\ buffer' = Feed(buffer \o SubSeq(wire, 1, n)).rest
             /\ wire' = SubSeq(wire, n + 1, Len(wire))
    <3>1. buffer' \in Seq(Byte) /\ wire' \in Seq(Byte)
      BY <2>3, <2>5, RestTyped
    <3>. QED
      BY <2>1, <3>1, Zenon DEF Streams, Flags
  <2>. QED
    BY <2>2, <2>4, <2>5, Zenon
<1>6. CASE WaitEnds
  BY <1>6, <1>b, Zenon DEF WaitEnds
<1>7. CASE Recv
  BY <1>7, <1>a, Zenon DEF Recv
<1>8. CASE RecvChunk
  <2>1. PICK n \in 1 .. Len(wire), fed \in Results, frames \in Seq(Taken) : Chunk(n, fed, frames)
    BY <1>8, ChunkOf DEF Flags
  <2>2. n \in 0 .. Len(wire)
    BY <1>c
  <2>3. UNCHANGED <<served, skipped>> /\ buffer' = fed.rest /\ wire' = SubSeq(wire, n + 1, Len(wire))
    BY <2>1, Zenon DEF Chunk
  <2>4. broken' \in BOOLEAN
    BY <2>1, Zenon DEF Chunk, Flags
  <2>5. fed.rest \in Seq(Byte)
    BY DEF Results
  <2>6. SubSeq(wire, n + 1, Len(wire)) \in Seq(Byte)
    BY <2>2, RestTyped
  <2>. QED
    BY <2>3, <2>4, <2>5, <2>6, Zenon DEF Streams, Flags
<1>14. CASE Answer
  BY <1>14, <1>a, Zenon DEF Answer
<1>15. CASE Answered
  <2>1. UNCHANGED <<served, broken, skipped>>
    BY <1>15, Zenon DEF Answered
  <2>2. CloseSocket \/ UNCHANGED <<buffer, wire>>
    BY <1>15, Zenon DEF Answered
  <2>. QED
    BY <1>a, <1>b, <2>1, <2>2, Zenon DEF peerVars
<1>9. CASE RecvEnds
  BY <1>9, <1>a, Zenon DEF RecvEnds
<1>10. CASE RecvTimesOut
  BY <1>10, <1>a, Zenon DEF RecvTimesOut
<1>11. CASE Send
  BY <1>11, <1>a, Zenon DEF Send
<1>12. CASE SendEnds
  BY <1>12, <1>a, Zenon DEF SendEnds
<1>. QED
  BY <1>0, <1>1, <1>2, <1>3, <1>4, <1>5, <1>6, <1>7, <1>8, <1>9, <1>10, <1>11, <1>12, <1>13,
     <1>14, <1>15, Zenon DEF Next
\* The close frame of close(), and a frame of send().
CloseFrame == [op |-> CLOSE, fin |-> TRUE, payload |-> <<3, 232>>]
SentFrame(n) == [op |-> TEXT, fin |-> TRUE, payload |-> [j \in 1 .. n |-> 9]]

LEMMA CloseFrameIs == CloseFrame \in Mine
<1>1. 3 \in Byte /\ 232 \in Byte
  BY DEF Byte
<1>2. <<3, 232>> \in Seq(Byte) /\ Len(<<3, 232>>) <= MaxFrame /\ Len(<<3, 232>>) <= Inline
  BY <1>1, ShortPayload
<1>3. CLOSE \in Opcodes
  BY DEF Opcodes
<1>. QED
  BY <1>2, <1>3, MineFrame, Zenon DEF CloseFrame

LEMMA SentFrameIs ==
    ASSUME NEW n \in SendLens
    PROVE  SentFrame(n) \in Mine /\ SentFrame(n).op # CLOSE
<1>. DEFINE p == [j \in 1 .. n |-> 9]
<1>1. n \in Nat /\ n <= MaxFrame /\ 9 \in Byte
  BY LengthsAssumption, Widths DEF Byte
<1>2. p \in Seq(Byte) /\ Len(p) = n
  BY <1>1
<1>3. TEXT \in Opcodes /\ ~IsControl(TEXT) /\ TEXT # CLOSE
  BY DEF Opcodes, IsControl, TEXT, CLOSE
<1>. HIDE DEF p
<1>4. [op |-> TEXT, fin |-> TRUE, payload |-> p] \in Mine
  BY <1>1, <1>2, <1>3, MineFrame
<1>5. [op |-> TEXT, fin |-> TRUE, payload |-> p].op = TEXT
  OBVIOUS
<1>. QED
  BY <1>3, <1>4, <1>5, Zenon DEF SentFrame, p

LEMMA WrittenInit == Init => Written /\ Closes
<1>. SUFFICES ASSUME Init
              PROVE  Written /\ Closes
  OBVIOUS
<1>1. sent = <<>> /\ todo = <<>> /\ out = <<>> /\ torn = FALSE
  BY DEF Init
<1>2. <<>> \in Seq(Mine)
  OBVIOUS
<1>3. Bytes(<<>>, TRUE) = <<>>
  BY BytesEmpty, Zenon
<1>4. NoClose(<<>>) /\ OneClose(<<>>)
  BY DEF NoClose, OneClose
<1>. QED
  BY <1>1, <1>2, <1>3, <1>4, Zenon DEF Written, Closes

LEMMA WrittenNext ==
    Written /\ Closes /\ Streams /\ Flags /\ Sockets /\ [Next]_vars => Written' /\ Closes'
<1>. SUFFICES ASSUME Written, Closes, Streams, Flags, Sockets, [Next]_vars
              PROVE  Written' /\ Closes'
  OBVIOUS
\* Nothing is written, and neither close() nor recv() begins or ends to write.
<1>a. ASSUME UNCHANGED <<closing, todo, outVars>>, opc' # "closing" \/ opc = "closing",
             opc' = "answer" \/ opc # "answer"
      PROVE  Written' /\ Closes'
  BY <1>a, Zenon DEF outVars, Written, Closes
<1>b. NoClose(sent) => OneClose(sent)
  BY Zenon DEF NoClose, OneClose
<1>0. CASE UNCHANGED vars
  <2>1. UNCHANGED <<closing, todo, outVars, opc>>
    BY <1>0, Zenon DEF vars
  <2>. QED
    BY <1>a, <2>1, Zenon
<1>1. CASE Connect
  <2>1. opc' # "closing" /\ opc # "answer"
    BY <1>1 DEF Connect
  <2>. QED
    BY <1>1, <1>a, <2>1, Zenon DEF Connect
<1>2. CASE ConnectFails
  <2>1. opc' # "closing" /\ opc # "answer"
    BY <1>2 DEF ConnectFails
  <2>. QED
    BY <1>2, <1>a, <2>1, Zenon DEF ConnectFails
<1>3. CASE ConnectDone
  <2>1. opc' # "closing" /\ opc # "answer"
    BY <1>3 DEF ConnectDone
  <2>. QED
    BY <1>3, <1>a, <2>1, Zenon DEF ConnectDone
<1>4. CASE Close
  <2>1. closing = FALSE /\ opc # "answer"
    BY <1>4 DEF Close, Sockets
  <2>2. NoClose(sent) /\ NoClose(todo)
    BY <2>1, Zenon DEF Closes
  <2>3. UNCHANGED <<todo, outVars>>
    BY <1>4, Zenon DEF Close
  <2>. QED
    BY <2>2, <2>3, Zenon DEF outVars, Written, Closes
<1>13. CASE CloseWrites
  <2>1. opc = "closing" /\ Write(CloseFrame) /\ UNCHANGED <<closing, todo>>
    BY <1>13, Zenon DEF CloseWrites, CloseFrame
  <2>2. closing' = TRUE
    BY <2>1, Zenon DEF Sockets
  <2>3. opc' # "closing" /\ opc # "answer"
    BY <1>13 DEF CloseWrites
  <2>4. NoClose(sent) /\ NoClose(todo)
    BY <2>1, <2>3, Zenon DEF Closes
  <2>5. /\ torn' \in BOOLEAN /\ sent' \in Seq(Mine)
        /\ torn' = FALSE => out' = Bytes(sent', TRUE)
        /\ OneClose(sent')
    BY <2>1, <2>4, CloseFrameIs, WriteWrites, Zenon
  <2>. QED
    BY <2>1, <2>2, <2>3, <2>4, <2>5, Zenon DEF Written, Closes
<1>5. CASE WaitForClose
  <2>1. opc = "wait" /\ (opc' = "idle" \/ opc' = opc) /\ UNCHANGED <<closing, todo, outVars>>
    BY <1>5, Zenon DEF WaitForClose
  <2>2. opc' # "closing" /\ opc # "answer"
    BY <2>1
  <2>. QED
    BY <1>a, <2>1, <2>2, Zenon
<1>6. CASE WaitEnds
  <2>1. opc' # "closing" /\ opc # "answer"
    BY <1>6 DEF WaitEnds
  <2>. QED
    BY <1>6, <1>a, <2>1, Zenon DEF WaitEnds
<1>7. CASE Recv
  <2>1. opc' # "closing" /\ opc # "answer"
    BY <1>7 DEF Recv
  <2>. QED
    BY <1>7, <1>a, <2>1, Zenon DEF Recv
<1>8. CASE RecvChunk
  <2>1. PICK n \in 1 .. Len(wire), fed \in Results, frames \in Seq(Taken) : Chunk(n, fed, frames)
    BY <1>8, ChunkOf DEF Flags
  <2>2. closing = FALSE /\ opc' # "closing"
    BY <1>8 DEF Sockets, RecvChunk
  <2>3. NoClose(sent)
    BY <2>2, Zenon DEF Closes
  <2>4. /\ Answers(frames) \in Seq(Mine) /\ OneClose(Answers(frames))
        /\ NoClose(frames) => NoClose(Answers(frames))
    BY AnswersType
  <2>5. todo' = Answers(frames) /\ UNCHANGED <<closing, outVars>>
    BY <2>1, Zenon DEF Chunk
  <2>6. opc' # "answer" => NoClose(frames)
    <3>1. NoClose(<<>>)
      BY DEF NoClose
    <3>. QED
      BY <2>1, <3>1, Zenon DEF Chunk
  <2>. QED
    BY <1>b, <2>2, <2>3, <2>4, <2>5, <2>6, Zenon DEF outVars, Written, Closes
<1>14. CASE Answer
  <2>1. /\ opc = "answer" /\ todo # <<>> /\ Write(Head(todo)) /\ todo' = Tail(todo)
        /\ closing' = (closing \/ Head(todo).op = CLOSE) /\ opc' = opc
    BY <1>14, Zenon DEF Answer
  <2>2. todo \in Seq(Mine) /\ opc' = "answer" /\ opc' # "closing"
    BY <2>1 DEF Written
  <2>3. /\ Head(todo) \in Mine /\ Tail(todo) \in Seq(Mine)
        /\ NoClose(todo) => NoClose(Tail(todo)) /\ Head(todo).op # CLOSE
        /\ OneClose(todo) => OneClose(Tail(todo))
        /\ OneClose(todo) /\ Head(todo).op = CLOSE => NoClose(Tail(todo))
    BY <2>1, <2>2, CloseOfTail, Zenon
  <2>4. /\ torn' \in BOOLEAN /\ sent' \in Seq(Mine)
        /\ torn' = FALSE => out' = Bytes(sent', TRUE)
        /\ NoClose(sent) /\ Head(todo).op # CLOSE => NoClose(sent')
        /\ NoClose(sent) => OneClose(sent')
        /\ OneClose(sent) /\ Head(todo).op # CLOSE => OneClose(sent')
    BY <2>1, <2>3, WriteWrites, Zenon
  <2>5. Written'
    BY <2>1, <2>3, <2>4, Zenon DEF Written
  <2>6. closing' = FALSE => closing = FALSE /\ Head(todo).op # CLOSE
    BY <2>1, Zenon DEF Sockets
  <2>7. /\ OneClose(sent) /\ OneClose(todo) /\ (NoClose(sent) \/ NoClose(todo))
        /\ closing = FALSE => NoClose(sent)
    BY Zenon DEF Closes
  <2>8. OneClose(sent') /\ OneClose(todo') /\ (closing' = FALSE => NoClose(sent'))
    BY <2>1, <2>3, <2>4, <2>6, <2>7, Zenon
  <2>9. NoClose(sent') \/ NoClose(todo')
    BY <2>1, <2>3, <2>4, <2>7, Zenon
  <2>. QED
    BY <2>2, <2>5, <2>8, <2>9, Zenon DEF Closes
<1>15. CASE Answered
  <2>1. todo = <<>> /\ opc' # "closing" /\ UNCHANGED <<closing, todo, outVars>>
    BY <1>15 DEF Answered
  <2>2. NoClose(todo)
    BY <2>1 DEF NoClose
  <2>. QED
    BY <2>1, <2>2, Zenon DEF outVars, Written, Closes
<1>9. CASE RecvEnds
  <2>1. opc' # "closing" /\ opc # "answer"
    BY <1>9 DEF RecvEnds
  <2>. QED
    BY <1>9, <1>a, <2>1, Zenon DEF RecvEnds
<1>10. CASE RecvTimesOut
  <2>1. opc' # "closing" /\ opc # "answer"
    BY <1>10 DEF RecvTimesOut
  <2>. QED
    BY <1>10, <1>a, <2>1, Zenon DEF RecvTimesOut
<1>11. CASE Send
  <2>1. UNCHANGED <<closing, todo, outVars, opc>>
    BY <1>11, Zenon DEF Send
  <2>. QED
    BY <1>a, <2>1, Zenon
<1>12. CASE SendEnds
  <2>1. UNCHANGED <<closing, todo, opc>>
    BY <1>12, Zenon DEF SendEnds
  <2>2. CASE sock
    <3>1. PICK n \in SendLens : Write(SentFrame(n))
      BY <1>12, <2>2, Zenon DEF SendEnds, SentFrame
    <3>2. /\ torn' \in BOOLEAN /\ sent' \in Seq(Mine)
          /\ torn' = FALSE => out' = Bytes(sent', TRUE)
          /\ (NoClose(sent) => NoClose(sent')) /\ (OneClose(sent) => OneClose(sent'))
      BY <3>1, SentFrameIs, WriteWrites, Zenon
    <3>. QED
      BY <2>1, <3>2, Zenon DEF Written, Closes
  <2>3. CASE ~sock
    <3>1. UNCHANGED outVars
      BY <1>12, <2>3, Zenon DEF SendEnds
    <3>. QED
      BY <1>a, <2>1, <3>1, Zenon
  <2>. QED
    BY <2>2, <2>3
<1>. QED
  BY <1>0, <1>1, <1>2, <1>3, <1>4, <1>5, <1>6, <1>7, <1>8, <1>9, <1>10, <1>11, <1>12, <1>13,
     <1>14, <1>15, Zenon DEF Next
\* n frames are those before the first one that is refused.
Reads(s, n) == /\ \A i \in 1 .. n : Acceptable(s[i])
               /\ n < Len(s) => ~Acceptable(s[n + 1])

LEMMA ReadableAt ==
    ASSUME NEW s \in Seq(Whole)
    PROVE  \E n \in 0 .. Len(s) : Reads(s, n) /\ Readable(s) = SubSeq(s, 1, n)
<1>. DEFINE Bad == {n \in Nat : n = Len(s) \/ (n < Len(s) /\ ~Acceptable(s[n + 1]))}
<1>1. Len(s) \in Nat
  BY LenProperties
<1>2. Bad \in SUBSET Nat /\ Bad # {}
  BY <1>1
<1>3. PICK n \in Bad : \A k \in Bad : n <= k
  <2>. HIDE DEF Bad
  <2>. QED
    BY <1>2, LeastNumber
<1>4. n \in 0 .. Len(s) /\ (n < Len(s) => ~Acceptable(s[n + 1]))
  BY <1>1, <1>3
<1>5. \A i \in 1 .. n : Acceptable(s[i])
  <2>. SUFFICES ASSUME NEW i \in 1 .. n
                PROVE  Acceptable(s[i])
    OBVIOUS
  <2>1. i - 1 \in Nat /\ i - 1 < n /\ i - 1 < Len(s) /\ i - 1 + 1 = i
    BY <1>1, <1>4
  <2>2. i - 1 \notin Bad
    <3>1. \A k \in Bad : ~(k < n)
      BY <1>1, <1>3
    <3>. HIDE DEF Bad
    <3>. QED
      BY <2>1, <3>1, Zenon
  <2>. QED
    BY <2>1, <2>2
<1>6. \E k \in 0 .. Len(s) : Reads(s, k)
  BY <1>4, <1>5, Zenon DEF Reads
<1>7. PICK m \in 0 .. Len(s) : m = (CHOOSE k \in 0 .. Len(s) : Reads(s, k)) /\ Reads(s, m)
  BY <1>6, Zenon
<1>8. Readable(s) = SubSeq(s, 1, CHOOSE k \in 0 .. Len(s) : Reads(s, k))
  BY Zenon DEF Readable, Reads
<1>. QED
  BY <1>7, <1>8, Zenon

\* The parser reads the Readable frames from the bytes of a stream.
LEMMA ReadableIsRead ==
    ASSUME NEW s \in Seq(Whole), NEW masked \in BOOLEAN
    PROVE  /\ Feed(Bytes(s, masked)).frames = Readable(s)
           /\ Readable(s) = s => Feed(Bytes(s, masked)).rest = <<>>
           /\ Readable(s) \in Seq(Whole)
<1>1. PICK n \in 0 .. Len(s) : Reads(s, n) /\ Readable(s) = SubSeq(s, 1, n)
  BY ReadableAt
<1>2. /\ Feed(Bytes(s, masked)).frames = SubSeq(s, 1, n)
      /\ n = Len(s) => Feed(Bytes(s, masked)).rest = <<>>
  <2>1. (\A i \in 1 .. n : Acceptable(s[i])) /\ (n < Len(s) => ~Acceptable(s[n + 1]))
    BY <1>1, Zenon DEF Reads
  <2>. QED
    BY <2>1, DecodeStream, Zenon
<1>3. SubSeq(s, 1, n) \in Seq(Whole) /\ (SubSeq(s, 1, n) = s => n = Len(s))
  OBVIOUS
<1>. QED
  BY <1>1, <1>2, <1>3, Zenon

LEMMA WrittenImplies == Written /\ Closes => WrittenIsReadable
<1>. SUFFICES ASSUME Written, Closes
              PROVE  WrittenIsReadable
  OBVIOUS
<1>1. sent \in Seq(Mine) /\ sent \in Seq(Whole)
  BY MineIs, Zenon DEF Written
<1>2. /\ Feed(Bytes(sent, TRUE)).frames = Readable(sent)
      /\ Readable(sent) = sent => Feed(Bytes(sent, TRUE)).rest = <<>>
  BY <1>1, ReadableIsRead
<1>3. torn = FALSE => /\ Feed(out).frames = Readable(sent)
                      /\ Readable(sent) = sent => Feed(out).rest = <<>>
  BY <1>2, Zenon DEF Written
<1>4. DOMAIN sent = 1 .. Len(sent)
  BY <1>1, LenProperties
<1>5. \A i \in 1 .. Len(sent) : Acceptable(sent[i]) \/ sent[i].op = CLOSE
  <2>1. \A i \in 1 .. Len(sent) : sent[i] \in Mine
    BY <1>1, ElementOfSeq
  <2>. QED
    BY <2>1, Zenon DEF Mine
<1>. QED
  BY <1>3, <1>4, <1>5, Zenon DEF Written, Closes, OneClose, WrittenIsReadable

\* A server that runs the same parser over the bytes written so far reads the
\* frames that were sent, whoever wrote them: pongs and the echo of recv(), the
\* frame of close() and those of the sending thread; unless a write was given up
\* inside a frame.  It reads all of them or stops at a close frame that is too
\* long for it, which only an echo can be.  Two close frames are never written.
THEOREM WrittenTheorem == Spec => []WrittenIsReadable
<1>1. Init => Flags
  BY Zenon DEF Init, Flags
<1>. QED
  BY <1>1, SocketsInit, SocketsNext, StreamsInit, StreamsNext, WrittenInit, WrittenNext,
     WrittenImplies, PTL DEF Spec
-----------------------------------------------------------------------------
(***************************************************************************)
(* What is received.                                                       *)
(***************************************************************************)
All == Frames(0 .. 15)

\* g has been returned, p waits, t is still to come: together they are r.
Kept(g, p, t, r) == /\ g \in Seq(All) /\ p \in Seq(All) /\ t \in Seq(All)
                    /\ (g \o p) \o t = r

LEMMA Unit ==
    ASSUME NEW X
    PROVE  <<>> \in Seq(X) /\ \A s \in Seq(X) : <<>> \o s = s /\ s \o <<>> = s
OBVIOUS

LEMMA Concat == ASSUME NEW X PROVE \A s, u \in Seq(X) : s \o u \in Seq(X)
OBVIOUS

LEMMA Associative == \A s, u, v \in Seq(All) : (s \o u) \o v = s \o (u \o v)
OBVIOUS

LEMMA LastOne ==
    ASSUME NEW X
    PROVE  \A s \in Seq(X) : \A x \in X : <<x>> \in Seq(X) /\ Append(s, x) = s \o <<x>>
OBVIOUS

LEMMA FirstOne ==
    ASSUME NEW X
    PROVE  \A s \in Seq(X) : s # <<>> => /\ Head(s) \in X /\ Tail(s) \in Seq(X)
                                         /\ s = <<Head(s)>> \o Tail(s)
OBVIOUS

\* A frame that waited is returned.
LEMMA KeptMove ==
    ASSUME NEW g, NEW p, NEW t, NEW r, Kept(g, p, t, r), p # <<>>
    PROVE  Kept(Append(g, Head(p)), Tail(p), t, r)
<1>1. g \in Seq(All) /\ p \in Seq(All) /\ t \in Seq(All) /\ (g \o p) \o t = r
  BY Zenon DEF Kept
<1>2. Head(p) \in All /\ Tail(p) \in Seq(All) /\ p = <<Head(p)>> \o Tail(p)
  BY <1>1, FirstOne, Zenon
<1>3. /\ <<Head(p)>> \in Seq(All)
      /\ Append(g, Head(p)) = g \o <<Head(p)>> /\ g \o <<Head(p)>> \in Seq(All)
  <2>1. <<Head(p)>> \in Seq(All) /\ Append(g, Head(p)) = g \o <<Head(p)>>
    BY <1>1, <1>2, LastOne, Zenon
  <2>. QED
    BY <1>1, <2>1, Concat, Zenon
<1>4. (g \o <<Head(p)>>) \o Tail(p) = g \o (<<Head(p)>> \o Tail(p))
  <2>1. g \in Seq(All) /\ <<Head(p)>> \in Seq(All) /\ Tail(p) \in Seq(All)
    BY <1>1, <1>2, <1>3, Zenon
  <2>. QED
    BY <2>1, Associative, Zenon
<1>5. Append(g, Head(p)) \o Tail(p) = g \o p
  BY <1>2, <1>3, <1>4, Zenon
<1>. QED
  BY <1>1, <1>2, <1>3, <1>5, Zenon DEF Kept

\* The first frames of what is to come arrive and wait.
LEMMA KeptTake ==
    ASSUME NEW g, NEW p, NEW d, NEW t, NEW r, d \in Seq(All), t \in Seq(All), Kept(g, p, d \o t, r)
    PROVE  Kept(g, p \o d, t, r)
<1>1. g \in Seq(All) /\ p \in Seq(All) /\ (g \o p) \o (d \o t) = r
  BY Zenon DEF Kept
<1>2. g \o p \in Seq(All) /\ p \o d \in Seq(All)
  BY <1>1, Concat, Zenon
<1>3. ((g \o p) \o d) \o t = (g \o p) \o (d \o t)
  <2>1. g \o p \in Seq(All) /\ d \in Seq(All) /\ t \in Seq(All)
    BY <1>2, Zenon
  <2>. QED
    BY <2>1, Associative, ZenonT(40)
<1>4. (g \o p) \o d = g \o (p \o d)
  <2>1. g \in Seq(All) /\ p \in Seq(All) /\ d \in Seq(All)
    BY <1>1, Zenon
  <2>. QED
    BY <2>1, Associative, ZenonT(40)
<1>. QED
  BY <1>1, <1>2, <1>3, <1>4, Zenon DEF Kept

\* What is kept of r is kept of more.
LEMMA KeptMore ==
    ASSUME NEW g, NEW p, NEW t, NEW r, NEW u \in Seq(All), Kept(g, p, t, r)
    PROVE  Kept(g, p, t \o u, r \o u)
<1>1. g \in Seq(All) /\ p \in Seq(All) /\ t \in Seq(All) /\ (g \o p) \o t = r
  BY Zenon DEF Kept
<1>2. g \o p \in Seq(All) /\ t \o u \in Seq(All)
  BY <1>1, Concat, Zenon
<1>3. ((g \o p) \o t) \o u = (g \o p) \o (t \o u)
  <2>1. g \o p \in Seq(All) /\ t \in Seq(All)
    BY <1>1, <1>2, Zenon
  <2>. QED
    BY <2>1, Associative, Zenon
<1>. QED
  BY <1>1, <1>2, <1>3, Zenon DEF Kept

LEMMA KeptIsPrefix ==
    ASSUME NEW g, NEW p, NEW t, NEW r, Kept(g, p, t, r)
    PROVE  IsPrefix(g, r)
<1>1. g \in Seq(All) /\ p \in Seq(All) /\ t \in Seq(All) /\ (g \o p) \o t = r
  BY Zenon DEF Kept
<1>2. PICK v \in Seq(All) : v = p \o t
  BY <1>1, Concat, Zenon
<1>3. r = g \o v
  <2>1. (g \o p) \o t = g \o (p \o t)
    <3>1. g \in Seq(All) /\ p \in Seq(All) /\ t \in Seq(All)
      BY <1>1, Zenon
    <3>. QED
      BY <3>1, Associative, SMTT(30)
  <2>. QED
    BY <1>1, <1>2, <2>1, Zenon
<1>4. \A x, y \in Seq(All) : /\ Len(x) <= Len(x \o y)
                             /\ SubSeq(x, 1, Len(x)) = SubSeq(x \o y, 1, Len(x))
  OBVIOUS
<1>. QED
  BY <1>1, <1>3, <1>4, Zenon DEF IsPrefix
-----------------------------------------------------------------------------
LEMMA DataType ==
    ASSUME NEW X \in SUBSET All, NEW s \in Seq(X)
    PROVE  DataOf(s) \in Seq(All)
<1>1. Filter(s, Frames(0 .. 7)) \in Seq(X \cap Frames(0 .. 7))
  BY FilterType
<1>2. X \cap Frames(0 .. 7) \subseteq All
  OBVIOUS
<1>. DEFINE Y == X \cap Frames(0 .. 7)
<1>3. \A Z \in SUBSET All : \A v \in Seq(Z) : v \in Seq(All)
  OBVIOUS
<1>4. Y \in SUBSET All
  BY <1>2, Zenon
<1>5. DataOf(s) \in Seq(Y)
  BY <1>1, Zenon DEF DataOf
<1>. HIDE DEF Y
<1>. QED
  BY <1>3, <1>4, <1>5, Zenon

LEMMA TakenAreAll == Taken \in SUBSET All /\ Whole \in SUBSET All
<1>1. Opcodes \subseteq 0 .. 15
  BY DEF Opcodes, TEXT, CLOSE, PING, PONG
<1>2. Frames(Opcodes) \subseteq Frames(0 .. 15)
  <2>. HIDE DEF Opcodes
  <2>. QED
    BY <1>1 DEF Frames
<1>. QED
  BY <1>2, Zenon DEF Taken, Whole, All

LEMMA DataOfConcat ==
    ASSUME NEW X, NEW s \in Seq(X), NEW u \in Seq(X)
    PROVE  DataOf(s \o u) = DataOf(s) \o DataOf(u)
BY FilterConcat DEF DataOf

\* What is read of a stream comes first in it.
LEMMA ReadableDataFirst ==
    ASSUME NEW s \in Seq(Whole)
    PROVE  \E u \in Seq(All) : DataOf(s) = DataOf(Readable(s)) \o u
<1>1. PICK n \in 0 .. Len(s) : Reads(s, n) /\ Readable(s) = SubSeq(s, 1, n)
  BY ReadableAt
<1>2. SubSeq(s, n + 1, Len(s)) \in Seq(Whole)
      /\ DataOf(s) = DataOf(SubSeq(s, 1, n)) \o DataOf(SubSeq(s, n + 1, Len(s)))
  BY FilterSplit DEF DataOf
<1>3. DataOf(SubSeq(s, n + 1, Len(s))) \in Seq(All)
  BY <1>2, TakenAreAll, DataType
<1>. QED
  BY <1>1, <1>2, <1>3, Zenon
LEMMA BytesAssociative == \A s, u, v \in Seq(Byte) : (s \o u) \o v = s \o (u \o v)
OBVIOUS

\* The data of the chunk that is read, and the data still to come after it.
LEMMA Arrive ==
    ASSUME Streams, NEW n \in 0 .. Len(wire), NEW fed,
           fed = Feed(buffer \o SubSeq(wire, 1, n)), fed.ok = TRUE
    PROVE  /\ DataOf(fed.frames) \in Seq(All)
           /\ DataOf(Feed(fed.rest \o SubSeq(wire, n + 1, Len(wire))).frames) \in Seq(All)
           /\ DataOf(Feed(buffer \o wire).frames)
                = DataOf(fed.frames)
                  \o DataOf(Feed(fed.rest \o SubSeq(wire, n + 1, Len(wire))).frames)
<1>. DEFINE p == SubSeq(wire, 1, n)
            q == SubSeq(wire, n + 1, Len(wire))
            later == Feed(fed.rest \o q)
<1>1. /\ p \in Seq(Byte) /\ q \in Seq(Byte) /\ wire = p \o q /\ buffer \o p \in Seq(Byte)
      /\ fed \in Results /\ fed.rest \in Seq(Byte) /\ fed = Feed(buffer \o p)
  BY RestTyped, Zenon
<1>. HIDE DEF p, q
<1>2. fed.rest \o q \in Seq(Byte)
  BY <1>1, Concat, Zenon
<1>3. later \in Results
  BY <1>2, FeedType, Zenon
<1>4. buffer \o wire = (buffer \o p) \o q
  <2>1. (buffer \o p) \o q = buffer \o (p \o q)
    <3>1. buffer \in Seq(Byte) /\ p \in Seq(Byte) /\ q \in Seq(Byte)
      BY <1>1, Zenon DEF Streams
    <3>. QED
      BY <3>1, BytesAssociative, Zenon
  <2>. QED
    BY <1>1, <2>1, Zenon
<1>5. Feed(buffer \o wire) = Then(fed, later)
  <2>1. \A a, b \in Seq(Byte) :
            Feed(a).ok = TRUE => Feed(a \o b) = Then(Feed(a), Feed(Feed(a).rest \o b))
    BY FeedChunks
  <2>2. Feed((buffer \o p) \o q) = Then(Feed(buffer \o p), Feed(Feed(buffer \o p).rest \o q))
    BY <1>1, <2>1, Zenon
  <2>. QED
    BY <1>1, <1>4, <2>2, Zenon
<1>. HIDE DEF later
<1>6. /\ fed.frames \in Seq(Taken) /\ later.frames \in Seq(Taken)
  BY <1>1, <1>3 DEF Results
<1>7. Feed(buffer \o wire).frames = fed.frames \o later.frames
  <2>1. \A v, w : Then(v, w).frames = v.frames \o w.frames
    BY DEF Then
  <2>2. Then(fed, later).frames = fed.frames \o later.frames
    BY <2>1, Zenon
  <2>3. Feed(buffer \o wire).frames = Then(fed, later).frames
    BY <1>5, Zenon
  <2>. QED
    BY <2>2, <2>3, Zenon
<1>8. DataOf(fed.frames \o later.frames) = DataOf(fed.frames) \o DataOf(later.frames)
  BY <1>6, DataOfConcat
<1>9. DataOf(fed.frames) \in Seq(All) /\ DataOf(later.frames) \in Seq(All)
  BY <1>6, DataType, TakenAreAll
<1>. QED
  BY <1>7, <1>8, <1>9, Zenon DEF later, q

\* Before connect() nothing has been read.
Fresh == /\ wire = Bytes(served, FALSE) /\ buffer = <<>> /\ got = <<>> /\ pending = <<>>
         /\ broken = FALSE /\ skipped = FALSE
\* recv() can still return a frame.
CanRecv == connected /\ opc # "wait"

\* The data frames of the server, in their order, are those returned, those that
\* wait and those still in the bytes; up to a frame that is refused, while there
\* is a connection to read from, and up to some point otherwise.  After an error
\* what caused it stays at the front of the buffer.
Lossless ==
    /\ got \in Seq(All) /\ pending \in Seq(All)
    /\ opc = "recv" => pending = <<>>
    /\ ~sock /\ ~closing => Fresh
    /\ CanRecv /\ broken => FrontOf(buffer) = "error"
    /\ ~skipped => \E t : Kept(got, pending, t, DataOf(served))
    /\ ~skipped /\ CanRecv /\ ~broken =>
           Kept(got, pending, DataOf(Feed(buffer \o wire).frames), DataOf(Readable(served)))

LEMMA LosslessInit == Streams /\ Init => Lossless
<1>. SUFFICES ASSUME Streams, Init
              PROVE  Lossless
  OBVIOUS
<1>1. /\ connected = FALSE /\ opc = "idle" /\ Fresh
  BY Zenon DEF Init, Fresh
<1>2. DataOf(served) \in Seq(All)
  BY DataType, TakenAreAll DEF Streams
<1>3. Kept(<<>>, <<>>, DataOf(served), DataOf(served))
  <2>1. <<>> \in Seq(All) /\ <<>> \o <<>> = <<>> /\ <<>> \o DataOf(served) = DataOf(served)
    BY <1>2, Unit, Zenon
  <2>. QED
    BY <1>2, <2>1, Zenon DEF Kept
<1>4. opc # "recv"
  BY <1>1
<1>. QED
  BY <1>1, <1>3, <1>4, Zenon DEF Lossless, Fresh, Kept, CanRecv

\* Steps that read nothing.
LEMMA LosslessSame ==
    ASSUME Lossless, UNCHANGED <<got, pending, buffer, wire, served, broken, skipped>>,
           opc' = "recv" => pending = <<>>,
           ~sock' /\ ~closing' => ~sock /\ ~closing,
           CanRecv' => CanRecv
    PROVE  Lossless'
<1>1. Fresh' <=> Fresh
  BY Zenon DEF Fresh
<1>. QED
  BY <1>1, Zenon DEF Lossless

\* Steps after which nothing is read any more.
LEMMA LosslessEnd ==
    ASSUME Lossless, UNCHANGED <<got, pending, served, skipped>>,
           opc' # "recv", closing', ~CanRecv'
    PROVE  Lossless'
BY Zenon DEF Lossless
\* connect(): the first byte of the server is read, or some have been dropped.
LEMMA LosslessConnect ==
    ASSUME Lossless, Streams, Flags, Sockets, ConnectDone
    PROVE  Lossless'
<1>1. PICK n \in 0 .. Len(wire) : wire' = SubSeq(wire, n + 1, Len(wire)) /\ skipped' = (n > 0)
  BY Zenon DEF ConnectDone
<1>2. Fresh /\ sock' /\ opc' = "idle" /\ UNCHANGED <<buffer, pending, got, broken, served>>
  BY Zenon DEF ConnectDone, Sockets, Lossless
<1>3. opc' # "recv"
  BY <1>2
<1>4. CASE n > 0
  <2>1. skipped'
    BY <1>1, <1>4, Zenon
  <2>2. got' \in Seq(All) /\ pending' \in Seq(All) /\ ~broken'
    BY <1>2, Zenon DEF Lossless, Fresh
  <2>. QED
    BY <1>2, <1>3, <2>1, <2>2, Zenon DEF Lossless
<1>5. CASE n = 0
  <2>0. wire' = wire
    <3>1. Split(Byte, wire, n, SubSeq(wire, 1, n), SubSeq(wire, n + 1, Len(wire)))
      BY SplitAt DEF Streams
    <3>2. \A s, u, v \in Seq(Byte) : s = u \o v /\ Len(u) = 0 => s = v
      OBVIOUS
    <3>3. SubSeq(wire, n + 1, Len(wire)) = wire
      BY <1>5, <3>1, <3>2, Zenon DEF Split, Streams
    <3>. QED
      BY <1>1, <3>3, Zenon
  <2>1. buffer' \o wire' = Bytes(served, FALSE)
    <3>1. <<>> \o wire = wire
      BY Unit, Zenon DEF Streams
    <3>. QED
      BY <1>2, <2>0, <3>1, Zenon DEF Fresh
  <2>2. Feed(buffer' \o wire').frames = Readable(served)
    BY <2>1, ReadableIsRead DEF Streams
  <2>. DEFINE r == DataOf(Readable(served))
  <2>3. r \in Seq(All)
    <3>1. Readable(served) \in Seq(Whole)
      BY ReadableIsRead DEF Streams
    <3>. QED
      BY <3>1, DataType, TakenAreAll
  <2>4. Kept(<<>>, <<>>, r, r)
    <3>. HIDE DEF r
    <3>1. <<>> \in Seq(All) /\ <<>> \o <<>> = <<>> /\ <<>> \o r = r
      BY <2>3, Unit, Zenon
    <3>. QED
      BY <2>3, <3>1, Zenon DEF Kept
  <2>5. PICK u \in Seq(All) : DataOf(served) = r \o u
    BY ReadableDataFirst DEF Streams
  <2>6. Kept(<<>>, <<>>, r \o u, DataOf(served))
    BY <2>4, <2>5, KeptMore, Zenon
  <2>7. got' = <<>> /\ pending' = <<>> /\ broken' = FALSE /\ served' = served
    BY <1>2, Zenon DEF Fresh
  <2>8. Kept(got', pending', DataOf(Feed(buffer' \o wire').frames), DataOf(Readable(served')))
    BY <2>2, <2>4, <2>7, Zenon
  <2>9. \E t : Kept(got', pending', t, DataOf(served'))
    BY <2>6, <2>7, Zenon
  <2>10. got' \in Seq(All) /\ pending' \in Seq(All)
    BY <2>8, Zenon DEF Kept
  <2>. QED
    BY <1>2, <1>3, <2>7, <2>8, <2>9, <2>10, Zenon DEF Lossless
<1>6. n > 0 \/ n = 0
  BY LenProperties DEF Streams
<1>. QED
  BY <1>4, <1>5, <1>6, Zenon

\* recv(): a chunk is read.
LEMMA LosslessChunk ==
    ASSUME Lossless, Streams, Flags, Sockets, RecvChunk
    PROVE  Lossless'
<1>0. opc = "recv" /\ Len(wire) \in Nat
  BY LenProperties, Zenon DEF RecvChunk, Streams
<1>1. connected /\ CanRecv /\ sock /\ got \in Seq(All) /\ pending \in Seq(All)
  <2>1. opc # "wait"
    BY <1>0
  <2>. QED
    BY <1>0, <2>1, Zenon DEF Lossless, Sockets, CanRecv
<1>2. PICK n \in 1 .. Len(wire), fed \in Results, frames \in Seq(Taken) : Chunk(n, fed, frames)
  BY ChunkOf DEF Flags
<1>. DEFINE w == SubSeq(wire, n + 1, Len(wire))
            d == DataOf(frames)
<1>3. n \in 0 .. Len(wire)
  BY <1>0
<1>4. fed = Feed(buffer \o SubSeq(wire, 1, n)) /\ fed.ok \in BOOLEAN
  BY <1>2, Zenon DEF Chunk, Results
<1>5. /\ pending' = pending \o d /\ buffer' = fed.rest /\ wire' = w
      /\ UNCHANGED <<got, sock, connected, closing, served, skipped>>
  BY <1>2, Zenon DEF Chunk
<1>6. opc' # "recv"
  BY <1>2 DEF Chunk
<1>7. CASE fed.ok = FALSE
  <2>1. frames = <<>> /\ broken' = TRUE
    BY <1>2, <1>7, Zenon DEF Chunk
  <2>2. pending' = pending
    <3>1. DataOf(<<>>) = <<>>
      BY FilterEmpty DEF DataOf
    <3>2. pending \o <<>> = pending
      BY <1>1, Unit, Zenon
    <3>. QED
      BY <1>5, <2>1, <3>1, <3>2, Zenon
  <2>3. FrontOf(fed.rest) = "error"
    <3>1. buffer \o SubSeq(wire, 1, n) \in Seq(Byte)
      BY <1>3, RestTyped, Zenon
    <3>. QED
      BY <1>4, <1>7, <3>1, FeedType, Zenon
  <2>. HIDE DEF w, d
  <2>. QED
    BY <1>1, <1>5, <1>6, <2>1, <2>2, <2>3, Zenon DEF Lossless
<1>8. CASE fed.ok = TRUE
  <2>. DEFINE after == DataOf(Feed(fed.rest \o w).frames)
              r == DataOf(Readable(served))
  <2>1. frames = fed.frames /\ broken' = broken
    BY <1>2, <1>8, Zenon DEF Chunk
  <2>2. ~broken
    <3>1. SUFFICES ASSUME broken
                   PROVE  FALSE
      BY Zenon
    <3>2. FrontOf(buffer) = "error"
      BY <1>1, <3>1, Zenon DEF Lossless
    <3>3. buffer \in Seq(Byte) /\ SubSeq(wire, 1, n) \in Seq(Byte)
          /\ buffer \o SubSeq(wire, 1, n) \in Seq(Byte)
      BY <1>3, RestTyped, Zenon DEF Streams
    <3>4. FrontOf(buffer \o SubSeq(wire, 1, n)) = "error"
      BY <3>2, <3>3, FrontStays
    <3>5. fed.ok = FALSE
      BY <1>4, <3>3, <3>4, StopIs
    <3>. QED
      BY <1>8, <3>5
  <2>3. /\ DataOf(fed.frames) \in Seq(All) /\ after \in Seq(All)
        /\ DataOf(Feed(buffer \o wire).frames) = DataOf(fed.frames) \o after
    BY <1>3, <1>4, <1>8, Arrive
  <2>4. d \in Seq(All) /\ DataOf(Feed(buffer \o wire).frames) = d \o after
    BY <2>1, <2>3, Zenon
  <2>. HIDE DEF d, after, r
  <2>5. got' \in Seq(All) /\ pending' \in Seq(All)
    BY <1>1, <1>5, <2>4, Concat, Zenon
  <2>6. ~skipped => Kept(got', pending', after, r)
    <3>1. SUFFICES ASSUME ~skipped
                   PROVE  Kept(got', pending', after, r)
      OBVIOUS
    <3>2. Kept(got, pending, d \o after, r)
      BY <1>1, <2>2, <2>4, <3>1, Zenon DEF Lossless, r
    <3>. QED
      BY <1>5, <2>3, <2>4, <3>2, KeptTake, Zenon
  <2>7. ~skipped => \E t : Kept(got', pending', t, DataOf(served))
    <3>1. PICK u \in Seq(All) : DataOf(served) = r \o u
      BY ReadableDataFirst DEF Streams, r
    <3>. QED
      BY <2>6, <3>1, KeptMore, Zenon
  <2>8. buffer' \o wire' = fed.rest \o w
    BY <1>5, Zenon
  <2>. HIDE DEF w
  <2>. QED
    BY <1>1, <1>5, <1>6, <2>1, <2>2, <2>5, <2>6, <2>7, <2>8, Zenon DEF Lossless, r, after
<1>. QED
  BY <1>4, <1>7, <1>8, Zenon

\* recv(): a frame that waited is returned; the socket may be closed then.
LEMMA LosslessReturn ==
    ASSUME Lossless, pending # <<>>, got' = Append(got, Head(pending)), pending' = Tail(pending),
           UNCHANGED <<served, skipped>>, opc' # "recv", sock' \/ closing',
           CanRecv' => CanRecv /\ UNCHANGED <<buffer, wire, broken>>
    PROVE  Lossless'
<1>1. got \in Seq(All) /\ pending \in Seq(All)
  BY Zenon DEF Lossless
<1>2. Head(pending) \in All /\ Tail(pending) \in Seq(All)
  BY <1>1, FirstOne, Zenon
<1>3. \A s \in Seq(All) : \A x \in All : Append(s, x) \in Seq(All)
  OBVIOUS
<1>4. got' \in Seq(All) /\ pending' \in Seq(All)
  BY <1>1, <1>2, <1>3, Zenon
<1>5. \A t, r : Kept(got, pending, t, r) => Kept(got', pending', t, r)
  BY KeptMove, Zenon
<1>6. ~skipped' => \E t : Kept(got', pending', t, DataOf(served'))
  BY <1>5, Zenon DEF Lossless
<1>7. CASE CanRecv'
  <2>1. CanRecv /\ buffer' = buffer /\ wire' = wire /\ broken' = broken
        /\ served' = served /\ skipped' = skipped
    BY <1>7, Zenon
  <2>2. broken => FrontOf(buffer) = "error"
    BY <2>1, Zenon DEF Lossless
  <2>3. ~skipped /\ ~broken =>
            Kept(got, pending, DataOf(Feed(buffer \o wire).frames), DataOf(Readable(served)))
    BY <2>1, Zenon DEF Lossless
  <2>4. ~skipped /\ ~broken =>
            Kept(got', pending', DataOf(Feed(buffer \o wire).frames), DataOf(Readable(served)))
    BY <1>5, <2>3, Zenon
  <2>5. broken' => FrontOf(buffer') = "error"
    BY <2>1, <2>2, Zenon
  <2>6. ~skipped' /\ ~broken' =>
            Kept(got', pending', DataOf(Feed(buffer' \o wire').frames), DataOf(Readable(served')))
    <3>1. buffer' \o wire' = buffer \o wire /\ Readable(served') = Readable(served)
      BY <2>1, Zenon
    <3>2. ~skipped' /\ ~broken' => ~skipped /\ ~broken
      BY <2>1
    <3>. QED
      BY <2>4, <3>1, <3>2, Zenon
  <2>. QED
    BY <1>4, <1>6, <2>5, <2>6, Zenon DEF Lossless
<1>8. CASE ~CanRecv'
  BY <1>4, <1>6, <1>8, Zenon DEF Lossless
<1>. QED
  BY <1>7, <1>8
LEMMA LosslessNext ==
    Lossless /\ Streams /\ Flags /\ Sockets /\ [Next]_vars => Lossless'
<1>. SUFFICES ASSUME Lossless, Streams, Flags, Sockets, [Next]_vars
              PROVE  Lossless'
  OBVIOUS
<1>0. CASE UNCHANGED vars
  <2>1. UNCHANGED <<got, pending, buffer, wire, served, broken, skipped, opc, sock, closing, connected>>
    BY <1>0, Zenon DEF vars, peerVars
  <2>2. (opc' = "recv" => pending = <<>>) /\ (~sock' /\ ~closing' => ~sock /\ ~closing)
        /\ (CanRecv' => CanRecv)
    BY <2>1, Zenon DEF Lossless, CanRecv
  <2>. QED
    BY <2>1, <2>2, LosslessSame, Zenon
<1>1. CASE Connect
  <2>1. UNCHANGED <<got, pending, buffer, wire, served, broken, skipped, sock, closing>>
    BY <1>1, Zenon DEF Connect, peerVars
  <2>2. opc' # "recv" /\ ~CanRecv'
    BY <1>1 DEF Connect, CanRecv
  <2>3. ~sock' /\ ~closing' => ~sock /\ ~closing
    BY <2>1, Zenon
  <2>. QED
    BY <2>1, <2>2, <2>3, LosslessSame, Zenon
<1>2. CASE ConnectFails
  <2>1. UNCHANGED <<got, pending, buffer, wire, served, broken, skipped, sock, closing>>
    BY <1>2, Zenon DEF ConnectFails, peerVars
  <2>2. opc' # "recv" /\ (CanRecv' => CanRecv)
    BY <1>2 DEF ConnectFails, CanRecv
  <2>3. ~sock' /\ ~closing' => ~sock /\ ~closing
    BY <2>1, Zenon
  <2>. QED
    BY <2>1, <2>2, <2>3, LosslessSame, Zenon
<1>3. CASE ConnectDone
  BY <1>3, LosslessConnect
<1>4. CASE Close
  <2>1. UNCHANGED <<got, pending, buffer, wire, served, broken, skipped, connected, sock>>
    BY <1>4, Zenon DEF Close, peerVars
  <2>2. opc' # "recv" /\ closing' /\ (CanRecv' => CanRecv)
    BY <1>4 DEF Close, CanRecv
  <2>. QED
    BY <2>1, <2>2, LosslessSame, Zenon
<1>13. CASE CloseWrites
  <2>1. UNCHANGED <<got, pending, served, skipped>> /\ opc = "closing" /\ closing'
    BY <1>13, Zenon DEF CloseWrites, Sockets
  <2>2. opc' = "wait" \/ (opc' = "idle" /\ connected' = FALSE)
    BY <1>13, Zenon DEF CloseWrites, CloseSocket
  <2>3. opc' # "recv" /\ ~CanRecv'
    BY <2>2 DEF CanRecv
  <2>. QED
    BY <2>1, <2>3, LosslessEnd, Zenon
<1>5. CASE WaitForClose
  <2>1. UNCHANGED <<got, pending, served, skipped>> /\ opc = "wait" /\ closing'
    BY <1>5, Zenon DEF WaitForClose, Sockets
  <2>2. opc' = "wait" \/ (opc' = "idle" /\ connected' = FALSE)
    BY <1>5, Zenon DEF WaitForClose, CloseSocket
  <2>3. opc' # "recv" /\ ~CanRecv'
    BY <2>2 DEF CanRecv
  <2>. QED
    BY <2>1, <2>3, LosslessEnd, Zenon
<1>6. CASE WaitEnds
  <2>1. UNCHANGED <<got, pending, served, skipped>> /\ opc = "wait" /\ closing'
    BY <1>6, Zenon DEF WaitEnds, Sockets
  <2>2. opc' = "idle" /\ connected' = FALSE
    BY <1>6, Zenon DEF WaitEnds, CloseSocket
  <2>3. opc' # "recv" /\ ~CanRecv'
    BY <2>2 DEF CanRecv
  <2>. QED
    BY <2>1, <2>3, LosslessEnd, Zenon
<1>7. CASE Recv
  <2>1. UNCHANGED <<buffer, wire, served, broken, skipped, connected, sock, closing>>
        /\ opc = "idle"
    BY <1>7, Zenon DEF Recv, peerVars
  <2>2. opc # "wait"
    BY <2>1
  <2>3. CanRecv' => CanRecv
    BY <2>1, <2>2, Zenon DEF CanRecv
  <2>4. CASE pending = <<>>
    <3>1. UNCHANGED <<got, pending>>
      BY <1>7, <2>4, Zenon DEF Recv
    <3>. QED
      BY <2>1, <2>3, <2>4, <3>1, LosslessSame, Zenon
  <2>5. CASE pending # <<>>
    <3>1. got' = Append(got, Head(pending)) /\ pending' = Tail(pending) /\ opc' = "idle"
      BY <1>7, <2>1, <2>5, Zenon DEF Recv
    <3>2. opc' # "recv"
      BY <3>1
    <3>3. sock'
      <4>1. connected /\ sock
        BY <1>7, Zenon DEF Recv, Sockets
      <4>. QED
        BY <2>1, <4>1
    <3>. QED
      BY <2>1, <2>3, <2>5, <3>1, <3>2, <3>3, LosslessReturn, Zenon
  <2>. QED
    BY <2>4, <2>5
<1>8. CASE RecvChunk
  BY <1>8, LosslessChunk
<1>14. CASE Answer
  <2>1. UNCHANGED <<got, pending, buffer, wire, served, broken, skipped, connected, sock, opc>>
        /\ opc = "answer" /\ sock
    BY <1>14, Zenon DEF Answer, peerVars, Sockets
  <2>2. (opc' = "recv" => pending = <<>>) /\ (CanRecv' => CanRecv)
    BY <2>1, Zenon DEF Lossless, CanRecv
  <2>. QED
    BY <2>1, <2>2, LosslessSame, Zenon
<1>15. CASE Answered
  <2>1. UNCHANGED <<served, skipped, broken, closing>> /\ opc = "answer" /\ connected /\ sock
    BY <1>15, Zenon DEF Answered, Sockets
  <2>2. /\ (CloseSocket /\ closing) \/ UNCHANGED <<connected, sock, buffer, wire>>
        /\ opc' = (IF pending # <<>> \/ closing THEN "idle" ELSE "recv")
    BY <1>15, Zenon DEF Answered
  <2>3. opc # "wait" /\ (pending # <<>> \/ closing => opc' # "recv")
    BY <2>1, <2>2
  <2>4. CanRecv /\ (CloseSocket => ~CanRecv')
    BY <2>1, <2>3, Zenon DEF CanRecv, CloseSocket
  <2>5. CASE pending = <<>>
    <3>1. UNCHANGED <<got, pending>>
      BY <1>15, <2>5, Zenon DEF Answered
    <3>2. CASE CloseSocket /\ closing
      BY <2>1, <2>3, <2>4, <3>1, <3>2, LosslessEnd, Zenon
    <3>3. CASE UNCHANGED <<connected, sock, buffer, wire>>
      BY <2>1, <2>4, <2>5, <3>1, <3>3, LosslessSame, Zenon
    <3>. QED
      BY <2>2, <3>2, <3>3, Zenon
  <2>6. CASE pending # <<>>
    <3>1. got' = Append(got, Head(pending)) /\ pending' = Tail(pending) /\ opc' # "recv"
      BY <1>15, <2>3, <2>6, Zenon DEF Answered
    <3>2. sock' \/ closing'
      BY <2>1, <2>2, Zenon
    <3>3. CanRecv' => CanRecv /\ UNCHANGED <<buffer, wire, broken>>
      BY <2>1, <2>2, <2>4, Zenon
    <3>. QED
      BY <2>1, <2>6, <3>1, <3>2, <3>3, LosslessReturn, Zenon
  <2>. QED
    BY <2>5, <2>6
<1>9. CASE RecvEnds
  <2>1. UNCHANGED <<got, pending, buffer, wire, served, broken, skipped, sock, closing>>
    BY <1>9, Zenon DEF RecvEnds, peerVars
  <2>2. opc' # "recv" /\ ~CanRecv'
    BY <1>9 DEF RecvEnds, CanRecv
  <2>3. ~sock' /\ ~closing' => ~sock /\ ~closing
    BY <2>1, Zenon
  <2>. QED
    BY <2>1, <2>2, <2>3, LosslessSame, Zenon
<1>10. CASE RecvTimesOut
  <2>1. UNCHANGED <<got, pending, buffer, wire, served, broken, skipped, sock, closing>>
    BY <1>10, Zenon DEF RecvTimesOut, peerVars
  <2>2. opc' # "recv" /\ (CanRecv' => CanRecv)
    BY <1>10 DEF RecvTimesOut, CanRecv
  <2>3. ~sock' /\ ~closing' => ~sock /\ ~closing
    BY <2>1, Zenon
  <2>. QED
    BY <2>1, <2>2, <2>3, LosslessSame, Zenon
<1>11. CASE Send
  <2>1. UNCHANGED <<got, pending, buffer, wire, served, broken, skipped, opc, sock, closing, connected>>
    BY <1>11, Zenon DEF Send, peerVars
  <2>2. (opc' = "recv" => pending = <<>>) /\ (~sock' /\ ~closing' => ~sock /\ ~closing)
        /\ (CanRecv' => CanRecv)
    BY <2>1, Zenon DEF Lossless, CanRecv
  <2>. QED
    BY <2>1, <2>2, LosslessSame, Zenon
<1>12. CASE SendEnds
  <2>1. UNCHANGED <<got, pending, buffer, wire, served, broken, skipped, opc, sock, closing, connected>>
    BY <1>12, Zenon DEF SendEnds, peerVars
  <2>2. (opc' = "recv" => pending = <<>>) /\ (~sock' /\ ~closing' => ~sock /\ ~closing)
        /\ (CanRecv' => CanRecv)
    BY <2>1, Zenon DEF Lossless, CanRecv
  <2>. QED
    BY <2>1, <2>2, LosslessSame, Zenon
<1>. QED
  BY <1>0, <1>1, <1>2, <1>3, <1>4, <1>5, <1>6, <1>7, <1>8, <1>9, <1>10, <1>11, <1>12, <1>13,
     <1>14, <1>15, Zenon DEF Next

LEMMA LosslessImplies == Lossless => NothingLost
<1>. SUFFICES ASSUME Lossless, ~skipped
              PROVE  /\ IsPrefix(got, DataOf(served))
                     /\ (connected /\ opc # "wait" /\ ~broken) =>
                            got \o pending \o DataOf(Feed(buffer \o wire).frames) = DataOf(Readable(served))
  BY Zenon DEF NothingLost
<1>1. PICK t : Kept(got, pending, t, DataOf(served))
  BY Zenon DEF Lossless
<1>2. IsPrefix(got, DataOf(served))
  BY <1>1, KeptIsPrefix, Zenon
<1>3. ASSUME connected, opc # "wait", ~broken
      PROVE  got \o pending \o DataOf(Feed(buffer \o wire).frames) = DataOf(Readable(served))
  <2>1. Kept(got, pending, DataOf(Feed(buffer \o wire).frames), DataOf(Readable(served)))
    BY <1>3, Zenon DEF Lossless, CanRecv
  <2>. QED
    BY <2>1, Zenon DEF Kept
<1>. QED
  BY <1>2, <1>3, Zenon

\* recv() returns the server's data frames in order and without a gap, for every
\* stream of frames and every way of cutting its bytes into chunks; while the
\* transport is connected and feed() has not raised, none of them has vanished
\* between the bytes, _pending_frames and what was returned.
THEOREM NothingLostTheorem == Spec => []NothingLost
<1>1. Init => Flags
  BY Zenon DEF Init, Flags
<1>2. Init => Lossless
  BY StreamsInit, LosslessInit
<1>. QED
  BY <1>1, <1>2, SocketsInit, SocketsNext, StreamsInit, StreamsNext, LosslessNext,
     LosslessImplies, PTL DEF Spec
=============================================================================
