----------------------------- MODULE PoolProofs -----------------------------
(***************************************************************************)
(* The connection pool for every number of users, of calls of close() and  *)
(* of connections: its permits, the exclusive use of its connections, what *)
(* it lets go of and what a closed pool keeps.                             *)
(***************************************************************************)
EXTENDS Pool, FiniteSetTheorems, WellFoundedInduction, TLAPS

Places == {"idle", "sem", "lock", "dial", "reg", "hold", "rel", "unreg"}

\* Whoever may still open a connection.
Callers == {u \in Users : pc[u] \in {"sem", "lock", "dial"}}

UserOK == /\ pc \in [Users -> Places]
          /\ want \in [Users -> Uris]
          /\ held \in [Users -> 0 .. made]
          /\ permits \in Nat
          /\ lost \in Nat

ConnOK == /\ made \in 0 .. MaxConns
          /\ conns \subseteq 1 .. made
          /\ at \in [Ids -> Uris]
          /\ in_use \subseteq 1 .. made
          /\ mstate \in [Ids -> WsStates]
          /\ shut \subseteq 1 .. made
          /\ dropped \subseteq 1 .. made
          /\ orphans \subseteq 1 .. made
          /\ kept \subseteq 1 .. made

FlagsOK == background \in BOOLEAN /\ closed \in BOOLEAN /\ lock \in BOOLEAN

TaskOK == /\ todo \subseteq 1 .. made
          /\ cur \in 0 .. made
          /\ kpc \in [Closers -> {"idle", "tasks", "gather", "done"}]
          /\ gathering \in [Closers -> SUBSET (1 .. made)]

\* Connections are numbered in the order in which they were opened, a user has one
\* exactly from the end of its dial to the end of release(), and what is opened
\* stays within the bound that acquire() looks at.
PoolTypeInv == /\ UserOK
               /\ ConnOK
               /\ TaskOK
               /\ FlagsOK
               /\ made + Cardinality(Callers) <= MaxConns
               /\ \A u \in Users : (held[u] # 0) <=> (pc[u] \in {"reg", "hold", "rel", "unreg"})

\* The number of the users at the places of W follows each of them.
LEMMA CountAt ==
    ASSUME NEW f \in [Users -> Places], NEW u \in Users, NEW p \in Places, NEW W
    PROVE  LET S == {v \in Users : f[v] \in W}
               T == {v \in Users : [f EXCEPT ![u] = p][v] \in W}
           IN  /\ Cardinality(S) \in Nat
               /\ Cardinality(T) \in Nat
               /\ (f[u] \in W /\ p \in W) => Cardinality(T) = Cardinality(S)
               /\ (f[u] \notin W /\ p \notin W) => Cardinality(T) = Cardinality(S)
               /\ (f[u] \notin W /\ p \in W) => Cardinality(T) = Cardinality(S) + 1
               /\ (f[u] \in W /\ p \notin W) => Cardinality(T) = Cardinality(S) - 1
               /\ f[u] \in W => Cardinality(S) > 0
<1>. DEFINE S == {v \in Users : f[v] \in W}
            T == {v \in Users : [f EXCEPT ![u] = p][v] \in W}
<1>1. IsFiniteSet(S) /\ IsFiniteSet(T)
  BY UsersAssumption, FS_Subset
<1>2. Cardinality(S) \in Nat /\ Cardinality(T) \in Nat
  BY <1>1, FS_CardinalityType
<1>3. ASSUME f[u] \in W <=> p \in W
      PROVE  Cardinality(T) = Cardinality(S)
  <2>1. T = S
    BY <1>3
  <2>. QED
    BY <2>1
<1>4. ASSUME f[u] \notin W, p \in W
      PROVE  Cardinality(T) = Cardinality(S) + 1
  <2>1. T = S \cup {u} /\ u \notin S
    BY <1>4
  <2>. QED
    BY <1>1, <2>1, FS_AddElement
<1>5. ASSUME f[u] \in W, p \notin W
      PROVE  Cardinality(T) = Cardinality(S) - 1
  <2>1. T = S \ {u} /\ u \in S
    BY <1>5
  <2>. QED
    BY <1>1, <2>1, FS_RemoveElement
<1>6. ASSUME f[u] \in W
      PROVE  Cardinality(S) > 0
  <2>1. S # {}
    BY <1>6
  <2>. QED
    BY <1>1, <1>2, <2>1, FS_EmptySet
<1>. QED
  BY <1>2, <1>3, <1>4, <1>5, <1>6

\* A set of numbers that is not empty has a least element.
LEMMA MinIsMember ==
    ASSUME NEW S \in SUBSET Nat, S # {}
    PROVE  Min(S) \in S
<1>1. IsWellFoundedOn(OpToRel(<, Nat), Nat)
  BY NatLessThanWellFounded
<1>2. \E x \in S : \A y \in S : ~(<<y, x>> \in OpToRel(<, Nat))
  BY <1>1, WFMin
<1>3. \A x, y \in Nat : x < y => <<x, y>> \in OpToRel(<, Nat)
  BY DEF OpToRel
<1>4. \E x \in S : \A y \in S : ~(y < x)
  BY <1>2, <1>3, Zenon
<1>5. \E x \in S : \A y \in S : x <= y
  BY <1>4
<1>. QED
  BY <1>5 DEF Min
-----------------------------------------------------------------------------
(***************************************************************************)
(* Type correctness.                                                       *)
(***************************************************************************)
LEMMA AnyUriOK == AnyUri \in Uris
BY UrisAssumption DEF AnyUri

LEMMA IdsFacts ==
    ASSUME ConnOK
    PROVE  /\ 1 .. made \subseteq Ids
           /\ made \in Nat
           /\ made < MaxConns => made + 1 \in Ids
BY PoolMaxConnsAssumption DEF ConnOK, Ids

LEMMA TypeInit == PoolInit => PoolTypeInv
<1>. SUFFICES ASSUME PoolInit
              PROVE  PoolTypeInv
  OBVIOUS
<1>1. Callers = {}
  BY DEF PoolInit, Callers
<1>2. Cardinality(Callers) = 0
  BY <1>1, FS_EmptySet
<1>3. UserOK
  BY AnyUriOK, MaxConnectionsAssumption DEF PoolInit, UserOK, Places
<1>4. ConnOK
  BY AnyUriOK, PoolMaxConnsAssumption DEF PoolInit, ConnOK, WsStates, Ids
<1>5. TaskOK
  BY DEF PoolInit, TaskOK
<1>6. FlagsOK
  BY Zenon DEF PoolInit, FlagsOK
<1>. QED
  BY <1>2, <1>3, <1>4, <1>5, <1>6, PoolMaxConnsAssumption DEF PoolInit, PoolTypeInv

\* A user that goes on leaves the room that is left as it was or larger, as long
\* as it was among the callers or does not become one.
LEMMA GotoOK ==
    ASSUME UserOK, NEW u \in Users, NEW p \in Places, Goto(u, p)
    PROVE  /\ pc' \in [Users -> Places]
           /\ pc' = [pc EXCEPT ![u] = p]
           /\ want' \in [Users -> Uris]
BY AnyUriOK DEF UserOK, Goto

LEMMA RoomKept ==
    ASSUME UserOK, ConnOK, made + Cardinality(Callers) <= MaxConns,
           NEW u \in Users, NEW p \in Places, pc' = [pc EXCEPT ![u] = p],
           \/ made' = made /\ (u \in Callers \/ p \notin {"sem", "lock", "dial"})
           \/ made' = made + 1 /\ u \in Callers /\ p \notin {"sem", "lock", "dial"}
    PROVE  /\ made' + Cardinality(Callers') <= MaxConns
           /\ u \in Callers => made < MaxConns
<1>. DEFINE W == {"sem", "lock", "dial"}
            g == [pc EXCEPT ![u] = p]
<1>1. pc \in [Users -> Places] /\ made \in Nat /\ MaxConns \in Nat
  BY PoolMaxConnsAssumption DEF UserOK, ConnOK
<1>2. Callers = {v \in Users : pc[v] \in W} /\ Callers' = {v \in Users : g[v] \in W}
  BY DEF Callers
<1>3. u \in Callers <=> pc[u] \in W
  BY <1>2
<1>. HIDE DEF W, g
<1>4. /\ Cardinality(Callers) \in Nat
      /\ Cardinality(Callers') \in Nat
      /\ (pc[u] \in W /\ p \in W) => Cardinality(Callers') = Cardinality(Callers)
      /\ (pc[u] \notin W /\ p \notin W) => Cardinality(Callers') = Cardinality(Callers)
      /\ (pc[u] \in W /\ p \notin W) => Cardinality(Callers') = Cardinality(Callers) - 1
      /\ pc[u] \in W => Cardinality(Callers) > 0
  BY <1>1, <1>2, CountAt DEF g
<1>5. \/ made' = made /\ (pc[u] \in W \/ p \notin W)
      \/ made' = made + 1 /\ pc[u] \in W /\ p \notin W
  BY <1>3 DEF W
<1>. QED
  BY <1>1, <1>3, <1>4, <1>5

\* The flags are only set, cleared or left alone.
LEMMA FlagsStep == FlagsOK /\ PoolNext => FlagsOK'
<1>. SUFFICES ASSUME FlagsOK, PoolNext
              PROVE  FlagsOK'
  OBVIOUS
<1>. USE DEF FlagsOK, poolVars, cleanVars
<1>1. ASSUME NEW u \in Users, UserNext(u)
      PROVE  UNCHANGED <<background, closed, lock>>
  BY <1>1 DEF UserNext, Acquire, AcquireTimesOut, GetPermit, GetLock, DialSucceeds,
     RegisterLate, DialFails, AcquireCancelled, Release, ReleaseClosed, ReleaseRemoves,
     ReleaseCancelled
<1>2. ASSUME NEW k \in Closers, CloserNext(k)
      PROVE  FlagsOK'
  <2>1. CASE PoolClose(k)
    BY <2>1, Zenon DEF PoolClose
  <2>2. CASE CloseAll(k)
    BY <2>2, Zenon DEF CloseAll
  <2>3. ASSUME NEW c \in Ids, GatherOne(k, c)
        PROVE  FlagsOK'
    BY <2>3, Zenon DEF GatherOne
  <2>. QED
    BY <1>2, <2>1, <2>2, <2>3 DEF CloserNext
<1>3. CASE Enter
  BY <1>3, Zenon DEF Enter
<1>4. CASE HealthCheck \/ CleanupCollects \/ CleanupCloses \/ \E c \in Ids : WebSocketMoves(c)
  BY <1>4 DEF HealthCheck, CleanupCollects, CleanupCloses, WebSocketMoves
<1>. QED
  BY <1>1, <1>2, <1>3, <1>4 DEF PoolNext

\* What lookup finds is idle and registered.
LEMMA LookupFinds ==
    ASSUME ConnOK, NEW u \in Users,
           {c \in Idle : at[c] = want[u]} # {}
    PROVE  /\ Min({c \in Idle : at[c] = want[u]}) \in 1 .. made
           /\ Min({c \in Idle : at[c] = want[u]}) \in conns \ in_use
<1>1. {c \in Idle : at[c] = want[u]} \in SUBSET Nat
  <2>1. conns \subseteq Nat
    BY PoolMaxConnsAssumption DEF ConnOK
  <2>. QED
    BY <2>1, Zenon DEF Idle
<1>2. Min({c \in Idle : at[c] = want[u]}) \in {c \in Idle : at[c] = want[u]}
  BY <1>1, MinIsMember
<1>. QED
  BY <1>2 DEF ConnOK, Idle

\* What a lookup does: it hands out an idle connection that is usable, or it
\* removes one that is not, or finds none.
Found(u, c) == /\ c \in conns \ in_use
               /\ mstate[c] \in Usable
               /\ held' = [held EXCEPT ![u] = c]
               /\ in_use' = in_use \cup {c}
               /\ Goto(u, "hold")
               /\ UNCHANGED <<conns, dropped>>
Removed(u, C) == /\ C \subseteq conns \ in_use
                 /\ \A c \in C : mstate[c] \notin Usable
                 /\ conns' = conns \ C
                 /\ dropped' = dropped \cup {c \in C : mstate[c] = "busy"}
                 /\ Goto(u, "dial")
                 /\ UNCHANGED <<held, in_use>>

LEMMA LookupCases ==
    ASSUME ConnOK, NEW u \in Users, Lookup(u)
    PROVE  (\E c \in 1 .. made : Found(u, c)) \/ (\E C \in SUBSET (1 .. made) : Removed(u, C))
<1>. DEFINE found == {c \in Idle : at[c] = want[u]}
            first == IF found = {} THEN 0 ELSE Min(found)
<1>1. first # 0 => first \in 1 .. made /\ first \in conns \ in_use
  BY LookupFinds
<1>2. 0 \notin conns /\ conns \subseteq 1 .. made
  BY DEF ConnOK
<1>. DEFINE A == /\ first # 0
                 /\ mstate[first] \in Usable
                 /\ held' = [held EXCEPT ![u] = first]
                 /\ in_use' = in_use \cup {first}
                 /\ Goto(u, "hold")
                 /\ UNCHANGED <<conns, dropped>>
            B == /\ first # 0 => mstate[first] \notin Usable
                 /\ conns' = conns \ {first}
                 /\ dropped' = IF first # 0 /\ mstate[first] = "busy"
                               THEN dropped \cup {first} ELSE dropped
                 /\ Goto(u, "dial")
                 /\ UNCHANGED <<held, in_use>>
<1>3. A \/ B
  BY Zenon DEF Lookup
<1>. HIDE DEF first, found
<1>4. ASSUME A
      PROVE  first \in 1 .. made /\ Found(u, first)
  BY <1>1, <1>4 DEF Found
<1>5. ASSUME B, first = 0
      PROVE  {} \in SUBSET (1 .. made) /\ Removed(u, {})
  BY <1>2, <1>5 DEF Removed
<1>6. ASSUME B, first # 0
      PROVE  {first} \in SUBSET (1 .. made) /\ Removed(u, {first})
  BY <1>1, <1>6 DEF Removed
<1>. QED
  BY <1>3, <1>4, <1>5, <1>6, Zenon

HeldOK == \A u \in Users : (held[u] # 0) <=> (pc[u] \in {"reg", "hold", "rel", "unreg"})

\* What a user does with the connections that exist.
LEMMA UserMovesOK ==
    ASSUME PoolTypeInv, NEW u \in Users, NEW p \in Places, pc' = [pc EXCEPT ![u] = p],
           want' \in [Users -> Uris], permits' \in Nat, lost' \in Nat,
           UNCHANGED <<made, at, cleanVars, poolVars>>, orphans' \subseteq 1 .. made,
           kept' \subseteq 1 .. made, u \in Callers \/ p \notin {"sem", "lock", "dial"},
           \/ /\ UNCHANGED held
              /\ pc[u] \in {"reg", "hold", "rel", "unreg"} <=> p \in {"reg", "hold", "rel", "unreg"}
           \/ \E c \in 0 .. made : /\ held' = [held EXCEPT ![u] = c]
                                   /\ c # 0 <=> p \in {"reg", "hold", "rel", "unreg"},
           conns' \subseteq 1 .. made, in_use' \subseteq 1 .. made,
           dropped' \subseteq 1 .. made, shut' \subseteq 1 .. made,
           mstate' \in [Ids -> WsStates]
    PROVE  PoolTypeInv'
<1>1. UserOK'
  BY DEF PoolTypeInv, UserOK
<1>2. ConnOK'
  BY DEF PoolTypeInv, ConnOK
<1>3. TaskOK'
  BY DEF PoolTypeInv, TaskOK, cleanVars, poolVars
<1>4. FlagsOK'
  BY DEF PoolTypeInv, FlagsOK, cleanVars, poolVars
<1>5. (made + Cardinality(Callers) <= MaxConns)'
  BY RoomKept DEF PoolTypeInv
<1>6. HeldOK'
  BY DEF PoolTypeInv, HeldOK, UserOK
<1>. QED
  BY <1>1, <1>2, <1>3, <1>4, <1>5, <1>6 DEF PoolTypeInv, HeldOK

\* A dial that succeeds makes one of the connections that acquire() counted.
LEMMA OpensOK ==
    ASSUME PoolTypeInv, NEW u \in Users, pc[u] = "dial", Opens(u),
           NEW p \in Places, p \notin {"sem", "lock", "dial"}, pc' = [pc EXCEPT ![u] = p],
           want' \in [Users -> Uris], permits' \in Nat, lost' \in Nat,
           UNCHANGED <<shut, dropped, kept, cleanVars, poolVars>>,
           orphans' \subseteq orphans \cup {made + 1},
           conns' \subseteq conns \cup {made + 1}, in_use' \subseteq in_use \cup {made + 1},
           \/ UNCHANGED held /\ p = "idle"
           \/ held' = [held EXCEPT ![u] = made + 1] /\ p \in {"reg", "hold"}
    PROVE  PoolTypeInv'
<1>1. u \in Callers
  BY DEF Callers
<1>3. /\ (made + Cardinality(Callers) <= MaxConns)'
      /\ made < MaxConns
  BY <1>1, RoomKept DEF Opens, PoolTypeInv
<1>4. made \in Nat /\ made + 1 \in Ids /\ made' = made + 1 /\ made' \in 0 .. MaxConns
  BY <1>3, IdsFacts, PoolMaxConnsAssumption DEF Opens, PoolTypeInv, ConnOK
<1>5. UserOK'
  <2>1. /\ pc \in [Users -> Places] /\ held \in [Users -> 0 .. made]
        /\ 0 .. made \subseteq 0 .. (made + 1) /\ made + 1 \in 0 .. (made + 1)
    BY <1>4 DEF PoolTypeInv, UserOK
  <2>2. held' \in [Users -> 0 .. made']
    <3>1. CASE UNCHANGED held
      BY <1>4, <2>1, <3>1
    <3>2. CASE held' = [held EXCEPT ![u] = made + 1]
      BY <1>4, <2>1, <3>2
    <3>. QED
      BY <3>1, <3>2
  <2>3. pc' \in [Users -> Places]
    BY <2>1
  <2>. QED
    BY <2>2, <2>3 DEF UserOK
<1>6. ConnOK'
  BY <1>4 DEF PoolTypeInv, ConnOK, UserOK, Opens
<1>7. TaskOK'
  BY <1>4 DEF PoolTypeInv, TaskOK, cleanVars, poolVars
<1>8. FlagsOK'
  BY DEF PoolTypeInv, FlagsOK, cleanVars, poolVars
<1>9. HeldOK'
  BY <1>4 DEF PoolTypeInv, HeldOK, UserOK
<1>. QED
  BY <1>3, <1>5, <1>6, <1>7, <1>8, <1>9 DEF PoolTypeInv, HeldOK

LEMMA AcquireOK ==
    ASSUME PoolTypeInv, NEW u \in Users, Acquire(u)
    PROVE  PoolTypeInv'
<1>. DEFINE W == {"sem", "lock", "dial"}
<1>1. "sem" \in Places /\ pc \in [Users -> Places] /\ pc[u] \notin W /\ "sem" \in W
  BY DEF Places, PoolTypeInv, UserOK, Acquire
<1>2. Callers = {v \in Users : pc[v] \in W}
      /\ Callers' = {v \in Users : [pc EXCEPT ![u] = "sem"][v] \in W}
  BY DEF Callers, Acquire
<1>3. made + Cardinality(Callers) < MaxConns /\ made' = made
  BY <1>2 DEF Acquire
<1>. HIDE DEF W
<1>4. Cardinality(Callers) \in Nat /\ Cardinality(Callers') = Cardinality(Callers) + 1
  BY <1>1, <1>2, CountAt
<1>5. (made + Cardinality(Callers) <= MaxConns)'
  BY <1>3, <1>4, PoolMaxConnsAssumption DEF PoolTypeInv, ConnOK
<1>6. UserOK'
  BY <1>1 DEF PoolTypeInv, UserOK, Acquire
<1>7. ConnOK'
  BY DEF PoolTypeInv, ConnOK, Acquire, connVars, wsVars, leftVars
<1>8. TaskOK'
  BY DEF PoolTypeInv, TaskOK, Acquire, cleanVars, poolVars
<1>9. FlagsOK'
  BY DEF PoolTypeInv, FlagsOK, Acquire, cleanVars, poolVars
<1>10. HeldOK'
  BY DEF PoolTypeInv, HeldOK, UserOK, Acquire
<1>. QED
  BY <1>5, <1>6, <1>7, <1>8, <1>9, <1>10 DEF PoolTypeInv, HeldOK

LEMMA LookupOK ==
    ASSUME PoolTypeInv, NEW u \in Users, pc[u] \in {"sem", "lock"}, Lookup(u),
           permits' \in Nat, UNCHANGED <<lost, made, at, wsVars, orphans, kept, cleanVars, poolVars>>
    PROVE  PoolTypeInv'
<1>1. u \in Callers /\ "hold" \in Places /\ "dial" \in Places /\ lost' \in Nat
  BY DEF Callers, Places, PoolTypeInv, UserOK
<1>2. /\ mstate' \in [Ids -> WsStates] /\ shut' \subseteq 1 .. made
      /\ orphans' \subseteq 1 .. made /\ kept' \subseteq 1 .. made
  BY DEF PoolTypeInv, ConnOK, wsVars
<1>3. CASE \E c \in 1 .. made : Found(u, c)
  <2>1. PICK c \in 1 .. made : Found(u, c)
    BY <1>3
  <2>2. /\ pc' = [pc EXCEPT ![u] = "hold"] /\ want' \in [Users -> Uris]
        /\ c \in 0 .. made /\ c # 0 /\ held' = [held EXCEPT ![u] = c]
        /\ conns' \subseteq 1 .. made /\ in_use' \subseteq 1 .. made
        /\ dropped' \subseteq 1 .. made
    BY <1>1, <2>1, GotoOK DEF Found, PoolTypeInv, ConnOK
  <2>. QED
    BY <1>1, <1>2, <2>2, UserMovesOK
<1>4. CASE \E C \in SUBSET (1 .. made) : Removed(u, C)
  <2>1. PICK C \in SUBSET (1 .. made) : Removed(u, C)
    BY <1>4
  <2>2. /\ pc' = [pc EXCEPT ![u] = "dial"] /\ want' \in [Users -> Uris]
        /\ conns' \subseteq 1 .. made /\ in_use' \subseteq 1 .. made
        /\ dropped' \subseteq 1 .. made
        /\ UNCHANGED held
    BY <1>1, <2>1, GotoOK DEF Removed, PoolTypeInv, ConnOK
  <2>. QED
    BY <1>1, <1>2, <2>2, UserMovesOK
<1>. QED
  BY <1>3, <1>4, LookupCases DEF PoolTypeInv

\* A user with a connection puts the permit back, or closes and removes it.
LEMMA UnregisterOK ==
    ASSUME PoolTypeInv, NEW u \in Users, pc[u] \in {"reg", "hold", "rel", "unreg"}, Unregister(u),
           permits' \in Nat, UNCHANGED <<lost, made, at, leftVars, cleanVars, poolVars>>,
           in_use' \subseteq 1 .. made, shut' \subseteq 1 .. made,
           mstate' \in [Ids -> WsStates]
    PROVE  PoolTypeInv'
<1>1. "unreg" \in Places /\ "idle" \in Places /\ lost' \in Nat /\ 0 \in 0 .. made
  BY IdsFacts DEF Places, PoolTypeInv, UserOK
<1>2. /\ conns' \subseteq 1 .. made /\ dropped' \subseteq 1 .. made
      /\ orphans' \subseteq 1 .. made /\ kept' \subseteq 1 .. made
  BY DEF PoolTypeInv, ConnOK, Unregister, leftVars
<1>3. CASE lock
  <2>1. pc' = [pc EXCEPT ![u] = "unreg"] /\ want' \in [Users -> Uris] /\ UNCHANGED held
    BY <1>1, <1>3, GotoOK DEF Unregister, PoolTypeInv
  <2>. QED
    BY <1>1, <1>2, <2>1, UserMovesOK
<1>4. CASE ~lock
  <2>1. /\ pc' = [pc EXCEPT ![u] = "idle"] /\ want' \in [Users -> Uris]
        /\ held' = [held EXCEPT ![u] = 0]
    BY <1>1, <1>4, GotoOK DEF Unregister, PoolTypeInv
  <2>. QED
    BY <1>1, <1>2, <2>1, UserMovesOK
<1>. QED
  BY <1>3, <1>4

LEMMA UserTypeOK ==
    ASSUME PoolTypeInv, NEW u \in Users, UserNext(u)
    PROVE  PoolTypeInv'
<1>. USE DEF PoolTypeInv, connVars, wsVars, leftVars
<1>1. /\ permits \in Nat /\ lost \in Nat /\ conns \subseteq 1 .. made
      /\ in_use \subseteq 1 .. made /\ dropped \subseteq 1 .. made /\ shut \subseteq 1 .. made
      /\ orphans \subseteq 1 .. made /\ kept \subseteq 1 .. made
      /\ mstate \in [Ids -> WsStates] /\ permits + 1 \in Nat /\ lost + 1 \in Nat
      /\ made \in Nat /\ 0 \in 0 .. made /\ "idle" \in Places /\ "lock" \in Places /\ "reg" \in Places
      /\ "rel" \in Places /\ "hold" \in Places
  BY PoolMaxConnsAssumption DEF UserOK, ConnOK, Places
<1>2. CASE Acquire(u)
  BY <1>2, AcquireOK
<1>3. CASE AcquireTimesOut(u)
  <2>1. pc' = [pc EXCEPT ![u] = "idle"] /\ want' \in [Users -> Uris]
    BY <1>1, <1>3, GotoOK DEF AcquireTimesOut
  <2>. QED
    BY <1>1, <1>3, <2>1, UserMovesOK DEF AcquireTimesOut
<1>4. CASE GetPermit(u)
  <2>1. permits' \in Nat /\ pc[u] = "sem"
    BY <1>1, <1>4 DEF GetPermit
  <2>2. CASE lock
    <3>1. pc' = [pc EXCEPT ![u] = "lock"] /\ want' \in [Users -> Uris]
      BY <1>1, <1>4, <2>2, GotoOK DEF GetPermit
    <3>. QED
      BY <1>1, <1>4, <2>1, <2>2, <3>1, UserMovesOK DEF GetPermit, Callers
  <2>3. CASE ~lock
    BY <1>4, <2>1, <2>3, LookupOK DEF GetPermit
  <2>. QED
    BY <2>2, <2>3
<1>5. CASE GetLock(u)
  BY <1>1, <1>5, LookupOK DEF GetLock
<1>6. CASE DialSucceeds(u)
  <2>1. CASE lock
    <3>1. pc' = [pc EXCEPT ![u] = "reg"] /\ want' \in [Users -> Uris]
      BY <1>1, <1>6, <2>1, GotoOK DEF DialSucceeds
    <3>. QED
      BY <1>1, <1>6, <2>1, <3>1, OpensOK DEF DialSucceeds
  <2>2. CASE ~lock
    <3>1. pc' = [pc EXCEPT ![u] = "hold"] /\ want' \in [Users -> Uris]
      BY <1>1, <1>6, <2>2, GotoOK DEF DialSucceeds, Register
    <3>. QED
      BY <1>1, <1>6, <2>2, <3>1, OpensOK DEF DialSucceeds, Register
  <2>. QED
    BY <2>1, <2>2
<1>7. CASE RegisterLate(u)
  <2>1. pc' = [pc EXCEPT ![u] = "hold"] /\ want' \in [Users -> Uris]
    BY <1>1, <1>7, GotoOK DEF RegisterLate, Register
  <2>2. held[u] \in 1 .. made /\ pc[u] = "reg"
    <3>1. pc[u] = "reg" /\ held[u] \in 0 .. made /\ held[u] # 0
      BY <1>7 DEF RegisterLate, UserOK
    <3>. QED
      BY <1>1, <3>1
  <2>3. /\ held' = [held EXCEPT ![u] = held[u]]
        /\ conns' \subseteq 1 .. made /\ in_use' \subseteq 1 .. made
    BY <1>1, <1>7, <2>2 DEF RegisterLate, Register
  <2>4. UNCHANGED held
    BY <2>3 DEF UserOK
  <2>. QED
    BY <1>1, <1>7, <2>1, <2>2, <2>3, <2>4, UserMovesOK DEF RegisterLate
<1>8. CASE DialFails(u)
  <2>1. pc' = [pc EXCEPT ![u] = "idle"] /\ want' \in [Users -> Uris]
    BY <1>1, <1>8, GotoOK DEF DialFails
  <2>. QED
    BY <1>1, <1>8, <2>1, UserMovesOK DEF DialFails
<1>9. CASE AcquireCancelled(u)
  <2>1. pc' = [pc EXCEPT ![u] = "idle"] /\ want' \in [Users -> Uris]
    BY <1>1, <1>9, GotoOK DEF AcquireCancelled
  <2>2. CASE pc[u] # "reg" /\ UNCHANGED <<held, made, at, mstate, orphans>>
    BY <1>1, <1>9, <2>1, <2>2, UserMovesOK DEF AcquireCancelled
  <2>3. CASE /\ pc[u] = "dial"
             /\ Opens(u)
             /\ orphans' = orphans \cup {made + 1}
             /\ UNCHANGED held
    BY <1>1, <1>9, <2>1, <2>3, OpensOK DEF AcquireCancelled
  <2>4. CASE /\ pc[u] = "reg"
             /\ orphans' = orphans \cup {held[u]}
             /\ held' = [held EXCEPT ![u] = 0]
             /\ UNCHANGED <<made, at, mstate>>
    <3>1. orphans' \subseteq 1 .. made
      <4>1. held[u] \in 0 .. made /\ held[u] # 0
        BY <2>4 DEF UserOK
      <4>2. held[u] \in 1 .. made
        BY <1>1, <4>1
      <4>. QED
        BY <1>1, <2>4, <4>2, Zenon
    <3>. QED
      BY <1>1, <1>9, <2>1, <2>4, <3>1, UserMovesOK DEF AcquireCancelled
  <2>. QED
    BY <1>9, <2>2, <2>3, <2>4 DEF AcquireCancelled
<1>10. CASE Release(u)
  <2>0. pc[u] = "hold" /\ held[u] \in 1 .. made
    <3>1. pc[u] = "hold" /\ held[u] \in 0 .. made /\ held[u] # 0
      BY <1>10 DEF Release, UserOK
    <3>. QED
      BY <1>1, <3>1
  <2>1. /\ pc[u] = "hold" /\ permits' \in Nat /\ in_use' \subseteq 1 .. made
        /\ held[u] \in 1 .. made
        /\ UNCHANGED <<lost, made, at, leftVars, cleanVars, poolVars>>
    BY <1>1, <1>10, <2>0 DEF Release
  <2>2. CASE /\ Goto(u, "idle")
             /\ held' = [held EXCEPT ![u] = 0]
             /\ UNCHANGED <<wsVars, conns>>
    <3>1. pc' = [pc EXCEPT ![u] = "idle"] /\ want' \in [Users -> Uris]
      BY <1>1, <2>2, GotoOK
    <3>. QED
      BY <1>1, <2>1, <2>2, <3>1, UserMovesOK
  <2>3. CASE Unregister(u) /\ UNCHANGED wsVars
    BY <1>1, <2>1, <2>3, UnregisterOK
  <2>4. CASE CloseBegins({held[u]}) /\ Goto(u, "rel") /\ UNCHANGED <<conns, held>>
    <3>1. pc' = [pc EXCEPT ![u] = "rel"] /\ want' \in [Users -> Uris]
      BY <1>1, <2>4, GotoOK
    <3>2. shut' \subseteq 1 .. made /\ mstate' \in [Ids -> WsStates]
      BY <1>1, <2>1, <2>4 DEF CloseBegins, WsStates
    <3>. QED
      BY <1>1, <2>1, <2>4, <3>1, <3>2, UserMovesOK
  <2>. QED
    BY <1>10, <2>2, <2>3, <2>4 DEF Release
<1>11. CASE ReleaseClosed(u)
  <2>1. shut' \subseteq 1 .. made /\ mstate' \in [Ids -> WsStates]
    BY <1>1, <1>11 DEF ReleaseClosed, CloseEnds, WsStates
  <2>. QED
    BY <1>1, <1>11, <2>1, UnregisterOK DEF ReleaseClosed
<1>12. CASE ReleaseRemoves(u)
  BY <1>1, <1>12, UnregisterOK DEF ReleaseRemoves
<1>13. CASE ReleaseCancelled(u)
  <2>1. pc' = [pc EXCEPT ![u] = "idle"] /\ want' \in [Users -> Uris]
    BY <1>1, <1>13, GotoOK DEF ReleaseCancelled
  <2>2. kept' \subseteq 1 .. made
    <3>1. held[u] \in 0 .. made /\ held[u] # 0
      BY <1>13 DEF ReleaseCancelled, UserOK
    <3>2. held[u] \in 1 .. made
      BY <1>1, <3>1
    <3>3. kept' = kept \cup {held[u]}
      BY <1>13 DEF ReleaseCancelled
    <3>. QED
      BY <1>1, <3>2, <3>3, Zenon
  <2>. QED
    BY <1>1, <1>13, <2>1, <2>2, UserMovesOK DEF ReleaseCancelled
<1>. QED
  BY <1>2, <1>3, <1>4, <1>5, <1>6, <1>7, <1>8, <1>9, <1>10, <1>11, <1>12, <1>13 DEF UserNext

\* The other steps leave the users alone.
LEMMA OthersOK ==
    ASSUME PoolTypeInv, UNCHANGED <<userVars, permits, lost, made, at, in_use, leftVars>>,
           conns' \subseteq 1 .. made, shut' \subseteq 1 .. made,
           mstate' \in [Ids -> WsStates], TaskOK', FlagsOK'
    PROVE  PoolTypeInv'
<1>1. UserOK'
  BY DEF PoolTypeInv, UserOK, userVars
<1>2. ConnOK'
  BY DEF PoolTypeInv, ConnOK, leftVars
<1>3. Callers' = Callers /\ HeldOK'
  BY DEF PoolTypeInv, HeldOK, userVars, Callers
<1>. QED
  BY <1>1, <1>2, <1>3 DEF PoolTypeInv, HeldOK

LEMMA CleanupTypeOK ==
    ASSUME PoolTypeInv, NEW S \in SUBSET (1 .. made), NEW gone \in SUBSET (1 .. made),
           CleanupGoesOn(S, gone)
    PROVE  /\ conns' \subseteq conns
           /\ shut' \subseteq 1 .. made
           /\ mstate' \in [Ids -> WsStates]
           /\ todo' \subseteq 1 .. made
           /\ cur' \in 0 .. made
<1>1. PICK T \in SUBSET (S \cap Dead), c \in (S \ Dead) \cup {0} :
          /\ c = 0 => S = T
          /\ cur' = c
          /\ todo' = S \ (T \cup {c})
          /\ conns' = conns \ (gone \cup T)
          /\ shut' = (shut \ gone) \cup ({c} \ {0})
          /\ mstate' = [d \in Ids |-> IF d \in gone THEN "terminal"
                                      ELSE IF d = c /\ mstate[d] = "CONNECTED" THEN "busy"
                                      ELSE mstate[d]]
  BY DEF CleanupGoesOn
<1>2. made \in Nat
  BY IdsFacts DEF PoolTypeInv
<1>3. mstate' \in [Ids -> WsStates]
  BY <1>1 DEF PoolTypeInv, ConnOK, WsStates
<1>4. conns' \subseteq conns /\ todo' \subseteq 1 .. made
  BY <1>1
<1>5. c # 0 => c \in 1 .. made
  BY <1>1
<1>6. shut \subseteq 1 .. made
  BY DEF PoolTypeInv, ConnOK
<1>7. shut' \subseteq 1 .. made
  BY <1>1, <1>5, <1>6
<1>8. cur' \in 0 .. made
  BY <1>1, <1>2, <1>5
<1>. QED
  BY <1>3, <1>4, <1>7, <1>8

LEMMA TypeStep == PoolTypeInv /\ [PoolNext]_vars => PoolTypeInv'
<1>. SUFFICES ASSUME PoolTypeInv, [PoolNext]_vars
              PROVE  PoolTypeInv'
  OBVIOUS
<1>0. /\ conns \subseteq 1 .. made /\ shut \subseteq 1 .. made
      /\ in_use \subseteq 1 .. made /\ mstate \in [Ids -> WsStates]
      /\ TaskOK /\ FlagsOK /\ made \in Nat
  BY IdsFacts DEF PoolTypeInv, ConnOK
<1>. USE DEF connVars, wsVars, poolVars, cleanVars
<1>1. ASSUME NEW u \in Users, UserNext(u)
      PROVE  PoolTypeInv'
  BY <1>1, UserTypeOK
<1>2. ASSUME NEW k \in Closers, PoolClose(k)
      PROVE  PoolTypeInv'
  <2>1. TaskOK'
    <3>0. \/ cur' = 0 /\ todo' = {}
          \/ cur' = cur /\ todo' = todo
      BY <1>2, Zenon DEF PoolClose
    <3>1. cur' \in 0 .. made
      BY <1>0, <3>0 DEF TaskOK
    <3>3. todo' \subseteq 1 .. made
      BY <1>0, <3>0, Zenon DEF TaskOK
    <3>2. kpc' \in [Closers -> {"idle", "tasks", "gather", "done"}]
      BY <1>0, <1>2 DEF PoolClose, TaskOK
    <3>. QED
      BY <1>0, <1>2, <3>1, <3>2, <3>3 DEF PoolClose, TaskOK
  <2>2. FlagsOK'
    BY <1>0, <1>2, FlagsStep DEF PoolNext, CloserNext
  <2>. QED
    BY <1>0, <1>2, <2>1, <2>2, OthersOK DEF PoolClose
<1>3. ASSUME NEW k \in Closers, CloseAll(k)
      PROVE  PoolTypeInv'
  <2>1. TaskOK'
    BY <1>0, <1>3 DEF CloseAll, TaskOK
  <2>2. FlagsOK'
    BY <1>0, <1>3, FlagsStep DEF PoolNext, CloserNext
  <2>3. conns' \subseteq 1 .. made /\ shut' \subseteq 1 .. made /\ mstate' \in [Ids -> WsStates]
    BY <1>0, <1>3 DEF CloseAll, CloseBegins, WsStates
  <2>. QED
    BY <1>3, <2>1, <2>2, <2>3, OthersOK DEF CloseAll
<1>4. ASSUME NEW k \in Closers, NEW c \in Ids, GatherOne(k, c)
      PROVE  PoolTypeInv'
  <2>1. TaskOK'
    BY <1>0, <1>4 DEF GatherOne, TaskOK
  <2>2. FlagsOK'
    BY <1>0, <1>4, FlagsStep DEF PoolNext, CloserNext
  <2>3. conns' \subseteq 1 .. made /\ shut' \subseteq 1 .. made /\ mstate' \in [Ids -> WsStates]
    BY <1>0, <1>4 DEF GatherOne, CloseEnds, WsStates
  <2>. QED
    BY <1>4, <2>1, <2>2, <2>3, OthersOK DEF GatherOne
<1>5. ASSUME NEW c \in Ids, WebSocketMoves(c)
      PROVE  PoolTypeInv'
  <2>1. TaskOK' /\ FlagsOK'
    BY <1>0, <1>5 DEF WebSocketMoves, TaskOK, FlagsOK
  <2>2. shut' \subseteq 1 .. made /\ mstate' \in [Ids -> WsStates]
    BY <1>0, <1>5 DEF WebSocketMoves, CloseEnds, WsStates
  <2>. QED
    BY <1>0, <1>5, <2>1, <2>2, OthersOK DEF WebSocketMoves
<1>6. CASE Enter
  <2>1. TaskOK'
    BY <1>0, <1>6 DEF Enter, TaskOK
  <2>2. FlagsOK'
    BY <1>0, <1>6, FlagsStep DEF PoolNext
  <2>. QED
    BY <1>0, <1>6, <2>1, <2>2, OthersOK DEF Enter
<1>7. CASE HealthCheck
  <2>1. TaskOK' /\ FlagsOK'
    BY <1>0, <1>7 DEF HealthCheck, TaskOK, FlagsOK
  <2>2. conns' \subseteq 1 .. made
    BY <1>0, <1>7 DEF HealthCheck
  <2>. QED
    BY <1>0, <1>7, <2>1, <2>2, OthersOK DEF HealthCheck
<1>8. ASSUME NEW S \in SUBSET (1 .. made), NEW gone \in SUBSET (1 .. made),
             CleanupGoesOn(S, gone),
             UNCHANGED <<userVars, permits, lost, made, at, in_use, leftVars,
                         background, poolVars>>
      PROVE  PoolTypeInv'
  <2>1. /\ conns' \subseteq 1 .. made /\ shut' \subseteq 1 .. made
        /\ mstate' \in [Ids -> WsStates]
        /\ todo' \subseteq 1 .. made /\ cur' \in 0 .. made
    BY <1>0, <1>8, CleanupTypeOK
  <2>2. TaskOK' /\ FlagsOK'
    BY <1>0, <1>8, <2>1 DEF TaskOK, FlagsOK
  <2>. QED
    BY <1>8, <2>1, <2>2, OthersOK
<1>9. CASE CleanupCollects
  <2>1. PICK S \in SUBSET Idle \ {{}} : CleanupGoesOn(S, {})
    BY <1>9 DEF CleanupCollects
  <2>2. S \in SUBSET (1 .. made) /\ {} \in SUBSET (1 .. made)
    BY <1>0, <2>1 DEF Idle
  <2>. QED
    BY <1>8, <1>9, <2>1, <2>2 DEF CleanupCollects
<1>10. CASE CleanupCloses
  <2>1. todo \in SUBSET (1 .. made) /\ {cur} \in SUBSET (1 .. made)
    BY <1>0, <1>10 DEF CleanupCloses, TaskOK
  <2>. QED
    BY <1>8, <1>10, <2>1 DEF CleanupCloses
<1>11. CASE UNCHANGED vars
  <2>1. TaskOK' /\ FlagsOK'
    BY <1>0, <1>11 DEF vars, TaskOK, FlagsOK
  <2>. QED
    BY <1>0, <1>11, <2>1, OthersOK DEF vars
<1>. QED
  BY <1>1, <1>2, <1>3, <1>4, <1>5, <1>6, <1>7, <1>9, <1>10, <1>11 DEF PoolNext, CloserNext

\* In every state of the pool its variables have their types, the connections
\* are numbered in the order in which they were opened, and a user has one exactly
\* while it is between the end of its dial and the end of release().
THEOREM PoolTypes == PoolSpec => []PoolTypeInv
<1>1. PoolInit => PoolTypeInv
  BY TypeInit
<1>2. PoolTypeInv /\ [PoolNext]_vars => PoolTypeInv'
  BY TypeStep
<1>. QED
  BY <1>1, <1>2, PTL DEF PoolSpec
-----------------------------------------------------------------------------
(***************************************************************************)
(* The permits of the semaphore.                                           *)
(***************************************************************************)
Inside == {"lock", "dial", "reg", "hold"}

\* Where the step of a user takes it, and what becomes of its permit.
Permit(u, p) ==
    /\ pc' = [pc EXCEPT ![u] = p]
    /\ \/ pc[u] \notin Inside /\ p \in Inside /\ permits' = permits - 1 /\ lost' = lost
       \/ pc[u] \in Inside /\ p \notin Inside /\ permits' = permits + 1 /\ lost' = lost
       \/ pc[u] \in Inside /\ p \notin Inside /\ permits' = permits /\ lost' = lost + 1
       \/ (pc[u] \in Inside <=> p \in Inside) /\ permits' = permits /\ lost' = lost

LEMMA UserPermit ==
    ASSUME PoolTypeInv, NEW u \in Users, UserNext(u)
    PROVE  \E p \in Places : Permit(u, p)
<1>. USE DEF Permit, Places, Inside
<1>0. UserOK /\ ConnOK
  BY DEF PoolTypeInv
<1>1. ASSUME Lookup(u)
      PROVE  \E p \in {"hold", "dial"} : pc' = [pc EXCEPT ![u] = p]
  BY <1>0, <1>1, LookupCases DEF Found, Removed, Goto
<1>2. ASSUME Unregister(u)
      PROVE  \E p \in {"idle", "unreg"} : pc' = [pc EXCEPT ![u] = p]
  BY <1>2 DEF Unregister, Goto
<1>3. CASE Acquire(u) \/ AcquireTimesOut(u)
  BY <1>3 DEF Acquire, AcquireTimesOut, Goto
<1>4. CASE GetPermit(u)
  <2>1. \E p \in {"lock", "hold", "dial"} : pc' = [pc EXCEPT ![u] = p]
    BY <1>1, <1>4 DEF GetPermit, Goto
  <2>. QED
    BY <1>4, <2>1 DEF GetPermit
<1>5. CASE GetLock(u)
  BY <1>1, <1>5 DEF GetLock
<1>6. CASE DialSucceeds(u) \/ RegisterLate(u)
  BY <1>6 DEF DialSucceeds, RegisterLate, Register, Goto
<1>7. CASE DialFails(u) \/ AcquireCancelled(u)
  BY <1>7 DEF DialFails, AcquireCancelled, Goto
<1>8. CASE Release(u)
  <2>1. \E p \in {"idle", "rel", "unreg"} : pc' = [pc EXCEPT ![u] = p]
    BY <1>2, <1>8 DEF Release, Goto
  <2>. QED
    BY <1>8, <2>1 DEF Release
<1>9. CASE ReleaseClosed(u) \/ ReleaseRemoves(u) \/ ReleaseCancelled(u)
  BY <1>2, <1>9 DEF ReleaseClosed, ReleaseRemoves, ReleaseCancelled, Goto
<1>. QED
  BY <1>3, <1>4, <1>5, <1>6, <1>7, <1>8, <1>9 DEF UserNext

LEMMA PermitsStep ==
    ASSUME PoolTypeInv, PermitsAccounted, [PoolNext]_vars
    PROVE  PermitsAccounted'
<1>1. ASSUME NEW u \in Users, NEW p \in Places, Permit(u, p)
      PROVE  PermitsAccounted'
  <2>. DEFINE g == [pc EXCEPT ![u] = p]
  <2>1. pc \in [Users -> Places] /\ permits \in Nat /\ lost \in Nat /\ MaxConnections \in Nat
    BY MaxConnectionsAssumption DEF PoolTypeInv, UserOK
  <2>2. /\ Holders = {v \in Users : pc[v] \in Inside}
        /\ Holders' = {v \in Users : g[v] \in Inside}
    BY <1>1 DEF Holders, Permit, Inside
  <2>3. /\ Cardinality(Holders) \in Nat
        /\ Cardinality(Holders') \in Nat
        /\ (pc[u] \in Inside <=> p \in Inside) => Cardinality(Holders') = Cardinality(Holders)
        /\ (pc[u] \notin Inside /\ p \in Inside) =>
              Cardinality(Holders') = Cardinality(Holders) + 1
        /\ (pc[u] \in Inside /\ p \notin Inside) =>
              Cardinality(Holders') = Cardinality(Holders) - 1
    BY <2>1, <2>2, CountAt
  <2>. QED
    BY <1>1, <2>1, <2>3 DEF Permit, PermitsAccounted
<1>2. ASSUME NEW u \in Users, UserNext(u)
      PROVE  PermitsAccounted'
  BY <1>1, <1>2, UserPermit
<1>3. ASSUME UNCHANGED <<userVars, permits, lost>>
      PROVE  PermitsAccounted'
  BY <1>3 DEF PermitsAccounted, Holders, userVars
<1>4. \/ \E u \in Users : UserNext(u)
      \/ UNCHANGED <<userVars, permits, lost>>
  BY DEF PoolNext, CloserNext, PoolClose, CloseAll, GatherOne, WebSocketMoves, Enter,
     HealthCheck, CleanupCollects, CleanupCloses, vars
<1>. QED
  BY <1>2, <1>3, <1>4

\* Whatever the number of users and of permits, every permit of the semaphore is
\* free, with a user between its acquire() and its release(), or was lost with a
\* cancelled acquire(): no path of acquire() or release() gives one back twice.
THEOREM PermitsTheorem == PoolSpec => []PermitsAccounted
<1>1. PoolInit => PermitsAccounted
  <2>. SUFFICES ASSUME PoolInit
                PROVE  PermitsAccounted
    OBVIOUS
  <2>1. Holders = {}
    BY DEF PoolInit, Holders
  <2>2. Cardinality(Holders) = 0
    BY <2>1, FS_EmptySet
  <2>. QED
    BY <2>2, MaxConnectionsAssumption DEF PoolInit, PermitsAccounted
<1>2. PoolTypeInv /\ PermitsAccounted /\ [PoolNext]_vars => PermitsAccounted'
  BY PermitsStep
<1>. QED
  BY <1>1, <1>2, PoolTypes, PTL DEF PoolSpec
-----------------------------------------------------------------------------
(***************************************************************************)
(* Who has a connection.                                                   *)
(***************************************************************************)
\* A connection that waits to be registered is nobody else's, and not in the pool.
RegOK == \A u \in Users : pc[u] = "reg" =>
            /\ held[u] \notin conns \cup in_use
            /\ \A v \in Users : (v # u /\ pc[v] = "reg") => held[v] # held[u]

LEMMA RegStep ==
    ASSUME PoolTypeInv, RegOK, [PoolNext]_vars
    PROVE  RegOK'
<1>. USE DEF connVars
<1>0. /\ UserOK /\ ConnOK /\ pc \in [Users -> Places] /\ held \in [Users -> 0 .. made]
      /\ made \in Nat /\ conns \subseteq 1 .. made /\ in_use \subseteq 1 .. made
  BY IdsFacts DEF PoolTypeInv, UserOK, ConnOK
\* User u moves on; what the pool gets is not what another one waits with.
<1>1. ASSUME NEW u \in Users, NEW p, NEW c, pc' = [pc EXCEPT ![u] = p], p # "reg",
             \A v \in Users : v # u => held'[v] = held[v],
             conns' \subseteq conns \cup {c}, in_use' \subseteq in_use \cup {c},
             \A v \in Users : (v # u /\ pc[v] = "reg") => held[v] # c
      PROVE  RegOK'
  <2>1. \A v \in Users : pc'[v] = "reg" => v # u /\ pc[v] = "reg" /\ held'[v] = held[v]
    BY <1>0, <1>1
  <2>. QED
    BY <1>1, <2>1 DEF RegOK
<1>2. ASSUME UNCHANGED <<pc, held, in_use>>, conns' \subseteq conns
      PROVE  RegOK'
  BY <1>2 DEF RegOK
\* User u moves on and the pool gets nothing.
<1>3. ASSUME NEW u \in Users, NEW p, pc' = [pc EXCEPT ![u] = p], p # "reg",
             \A v \in Users : v # u => held'[v] = held[v],
             conns' \subseteq conns, in_use' \subseteq in_use
      PROVE  RegOK'
  <2>1. \A v \in Users : held[v] # made + 1
    BY <1>0
  <2>2. conns' \subseteq conns \cup {made + 1} /\ in_use' \subseteq in_use \cup {made + 1}
    BY <1>3
  <2>. QED
    BY <1>1, <1>3, <2>1, <2>2, ZenonT(40)
<1>4. ASSUME NEW u \in Users, Lookup(u)
      PROVE  RegOK'
  <2>1. ASSUME NEW c \in 1 .. made, Found(u, c)
        PROVE  RegOK'
    <3>1. /\ pc' = [pc EXCEPT ![u] = "hold"] /\ held' = [held EXCEPT ![u] = c]
          /\ conns' = conns /\ in_use' = in_use \cup {c} /\ c \in conns
      BY <2>1 DEF Found, Goto
    <3>2. \A v \in Users : pc[v] = "reg" => held[v] # c
      BY <3>1 DEF RegOK
    <3>3. \A v \in Users : v # u => held'[v] = held[v]
      BY <1>0, <3>1
    <3>. QED
      BY <1>1, <3>1, <3>2, <3>3, ZenonT(40)
  <2>2. ASSUME NEW C \in SUBSET (1 .. made), Removed(u, C)
        PROVE  RegOK'
    BY <1>3, <2>2 DEF Removed, Goto
  <2>. QED
    BY <1>0, <1>4, <2>1, <2>2, LookupCases
<1>5. ASSUME NEW u \in Users, Unregister(u), in_use' \subseteq in_use
      PROVE  RegOK'
  BY <1>0, <1>3, <1>5 DEF Unregister, Goto
<1>6. ASSUME NEW u \in Users, NEW c, Register(u, c),
             \A v \in Users : (v # u /\ pc[v] = "reg") => held[v] # c
      PROVE  RegOK'
  <2>1. \A v \in Users : v # u => held'[v] = held[v]
    BY <1>0, <1>6 DEF Register
  <2>. QED
    BY <1>1, <1>6, <2>1, ZenonT(40) DEF Register, Goto
<1>7. ASSUME NEW u \in Users, UserNext(u)
      PROVE  RegOK'
  <2>1. CASE Acquire(u) \/ AcquireTimesOut(u) \/ DialFails(u)
    BY <1>3, <2>1 DEF Acquire, AcquireTimesOut, DialFails, Goto
  <2>2. CASE GetPermit(u)
    BY <1>3, <1>4, <2>2 DEF GetPermit, Goto
  <2>3. CASE GetLock(u)
    BY <1>4, <2>3 DEF GetLock
  <2>4. CASE DialSucceeds(u)
    <3>0. \A v \in Users : held[v] # made + 1
      BY <1>0
    <3>1. CASE lock
      <4>1. \A v \in Users : /\ pc'[v] = (IF v = u THEN "reg" ELSE pc[v])
                             /\ held'[v] = (IF v = u THEN made + 1 ELSE held[v])
        BY <1>0, <2>4, <3>1 DEF DialSucceeds, Goto
      <4>2. made + 1 \notin conns \cup in_use /\ UNCHANGED <<conns, in_use>>
        BY <1>0, <2>4, <3>1 DEF DialSucceeds
      <4>. QED
        BY <3>0, <4>1, <4>2 DEF RegOK
    <3>2. CASE ~lock
      BY <1>6, <2>4, <3>0, <3>2 DEF DialSucceeds
    <3>. QED
      BY <3>1, <3>2
  <2>5. CASE RegisterLate(u)
    BY <1>6, <2>5 DEF RegisterLate, RegOK
  <2>6. CASE AcquireCancelled(u)
    <3>1. /\ pc' = [pc EXCEPT ![u] = "idle"] /\ conns' = conns /\ in_use' = in_use
          /\ \A v \in Users : v # u => held'[v] = held[v]
      BY <1>0, <2>6 DEF AcquireCancelled, Goto
    <3>. QED
      BY <1>3, <3>1
  <2>7. CASE Release(u)
    <3>1. in_use' \subseteq in_use
      BY <2>7 DEF Release
    <3>2. CASE /\ Goto(u, "idle")
               /\ held' = [held EXCEPT ![u] = 0]
               /\ UNCHANGED <<wsVars, conns>>
      BY <1>0, <1>3, <3>1, <3>2 DEF Goto
    <3>3. CASE Unregister(u)
      BY <1>5, <3>1, <3>3
    <3>4. CASE Goto(u, "rel") /\ UNCHANGED <<conns, held>>
      BY <1>3, <3>1, <3>4 DEF Goto
    <3>. QED
      BY <2>7, <3>2, <3>3, <3>4 DEF Release
  <2>8. CASE ReleaseClosed(u) \/ ReleaseRemoves(u)
    BY <1>5, <2>8 DEF ReleaseClosed, ReleaseRemoves
  <2>9. CASE ReleaseCancelled(u)
    <3>1. /\ pc' = [pc EXCEPT ![u] = "idle"] /\ conns' = conns /\ in_use' = in_use
          /\ \A v \in Users : v # u => held'[v] = held[v]
      BY <1>0, <2>9 DEF ReleaseCancelled, Goto
    <3>. QED
      BY <1>3, <3>1
  <2>. QED
    BY <1>7, <2>1, <2>2, <2>3, <2>4, <2>5, <2>6, <2>7, <2>8, <2>9 DEF UserNext
\* The others only remove connections.
<1>8. ASSUME NEW S, NEW gone, CleanupGoesOn(S, gone)
      PROVE  conns' \subseteq conns
  BY <1>8 DEF CleanupGoesOn
<1>9. CASE CleanupCollects \/ CleanupCloses
  <2>1. UNCHANGED <<pc, held, in_use>> /\ conns' \subseteq conns
    BY <1>8, <1>9 DEF CleanupCollects, CleanupCloses, userVars
  <2>. QED
    BY <1>2, <2>1
<1>10. CASE \/ \E k \in Closers : CloserNext(k)
            \/ HealthCheck \/ Enter \/ UNCHANGED vars
            \/ \E c \in Ids : WebSocketMoves(c)
  <2>1. UNCHANGED <<pc, held, in_use>> /\ conns' \subseteq conns
    BY <1>10 DEF CloserNext, PoolClose, CloseAll, GatherOne, HealthCheck, WebSocketMoves,
       Enter, vars, userVars
  <2>. QED
    BY <1>2, <2>1
<1>. QED
  BY <1>7, <1>9, <1>10 DEF PoolNext

LEMMA RegTheorem == PoolSpec => []RegOK
<1>1. PoolInit => RegOK
  BY DEF PoolInit, RegOK
<1>2. PoolTypeInv /\ RegOK /\ [PoolNext]_vars => RegOK'
  BY RegStep
<1>. QED
  BY <1>1, <1>2, PoolTypes, PTL DEF PoolSpec

LEMMA ExclusiveStep ==
    ASSUME PoolTypeInv, RegOK, Exclusive, [PoolNext]_vars
    PROVE  Exclusive'
<1>0. /\ UserOK /\ ConnOK /\ pc \in [Users -> Places] /\ held \in [Users -> 0 .. made]
      /\ made \in Nat /\ in_use \subseteq 1 .. made /\ "hold" \in Places
      /\ \A v \in Users : pc[v] = "hold" => held[v] \in in_use
      /\ \A c \in in_use : \E v \in Users : pc[v] = "hold" /\ held[v] = c
  BY IdsFacts DEF PoolTypeInv, UserOK, ConnOK, Exclusive, Places
\* A user starts to hold a connection that nobody holds.
<1>1. ASSUME NEW u \in Users, NEW c \in Nat, pc[u] # "hold", c \notin in_use,
             pc' = [pc EXCEPT ![u] = "hold"], held' = [held EXCEPT ![u] = c],
             in_use' = in_use \cup {c}
      PROVE  Exclusive'
  <2>1. \A v \in Users : /\ pc'[v] = (IF v = u THEN "hold" ELSE pc[v])
                         /\ held'[v] = (IF v = u THEN c ELSE held[v])
    BY <1>0, <1>1
  <2>2. \A v, w \in Users : (v # w /\ pc'[v] = "hold" /\ pc'[w] = "hold") => held'[v] # held'[w]
    BY <1>0, <1>1, <2>1 DEF Exclusive
  <2>3. in_use' = {held'[v] : v \in {w \in Users : pc'[w] = "hold"}}
    <3>1. ASSUME NEW d \in in_use'
          PROVE  \E v \in Users : pc'[v] = "hold" /\ held'[v] = d
      BY <1>0, <1>1, <2>1, <3>1
    <3>2. ASSUME NEW v \in Users, pc'[v] = "hold"
          PROVE  held'[v] \in in_use'
      BY <1>0, <1>1, <2>1, <3>2
    <3>. QED
      BY <3>1, <3>2
  <2>. QED
    BY <2>2, <2>3 DEF Exclusive
\* A user moves on without one.
<1>2. ASSUME NEW u \in Users, NEW p, pc[u] # "hold", p # "hold",
             pc' = [pc EXCEPT ![u] = p], UNCHANGED in_use,
             \A v \in Users : v # u => held'[v] = held[v]
      PROVE  Exclusive'
  <2>1. \A v \in Users : /\ pc'[v] = "hold" <=> pc[v] = "hold"
                         /\ pc[v] = "hold" => held'[v] = held[v]
    BY <1>0, <1>2
  <2>. QED
    BY <1>0, <1>2, <2>1 DEF Exclusive
\* A user gives up its own.
<1>3. ASSUME NEW u \in Users, NEW p, pc[u] = "hold", p # "hold",
             pc' = [pc EXCEPT ![u] = p], in_use' = in_use \ {held[u]},
             \A v \in Users : v # u => held'[v] = held[v]
      PROVE  Exclusive'
  <2>1. \A v \in Users : /\ pc'[v] = "hold" <=> pc[v] = "hold" /\ v # u
                         /\ v # u => held'[v] = held[v]
    BY <1>0, <1>3
  <2>2. \A v, w \in Users : (v # w /\ pc'[v] = "hold" /\ pc'[w] = "hold") => held'[v] # held'[w]
    BY <2>1 DEF Exclusive
  <2>3. in_use' = {held'[v] : v \in {w \in Users : pc'[w] = "hold"}}
    BY <1>0, <1>3, <2>1 DEF Exclusive
  <2>. QED
    BY <2>2, <2>3 DEF Exclusive
<1>4. ASSUME NEW u \in Users, Lookup(u), pc[u] # "hold"
      PROVE  Exclusive'
  <2>1. ASSUME NEW c \in 1 .. made, Found(u, c)
        PROVE  Exclusive'
    <3>1. c \in Nat /\ c \notin in_use
      BY <1>0, <2>1 DEF Found
    <3>. QED
      BY <1>1, <1>4, <2>1, <3>1 DEF Found, Goto
  <2>2. ASSUME NEW C \in SUBSET (1 .. made), Removed(u, C)
        PROVE  Exclusive'
    BY <1>0, <1>2, <1>4, <2>2 DEF Removed, Goto
  <2>. QED
    BY <1>0, <1>4, <2>1, <2>2, LookupCases
<1>5. ASSUME NEW u \in Users, NEW c \in Nat, c \notin in_use, Register(u, c), pc[u] # "hold"
      PROVE  Exclusive'
  BY <1>0, <1>1, <1>5 DEF Register, Goto
<1>6. ASSUME NEW u \in Users, Unregister(u)
      PROVE  /\ \E p \in {"unreg", "idle"} : pc' = [pc EXCEPT ![u] = p]
             /\ \A v \in Users : v # u => held'[v] = held[v]
  BY <1>0, <1>6 DEF Unregister, Goto
<1>7. ASSUME NEW u \in Users, UserNext(u)
      PROVE  Exclusive'
  <2>. USE DEF connVars
  <2>1. CASE Acquire(u) \/ AcquireTimesOut(u) \/ DialFails(u)
    BY <1>0, <1>2, <2>1 DEF Acquire, AcquireTimesOut, DialFails, Goto
  <2>8. CASE AcquireCancelled(u) \/ ReleaseCancelled(u)
    <3>1. /\ pc' = [pc EXCEPT ![u] = "idle"] /\ pc[u] # "hold" /\ in_use' = in_use
          /\ \A v \in Users : v # u => held'[v] = held[v]
      BY <1>0, <2>8 DEF AcquireCancelled, ReleaseCancelled, Goto
    <3>. QED
      BY <1>2, <3>1
  <2>2. CASE GetPermit(u)
    BY <1>0, <1>2, <1>4, <2>2 DEF GetPermit, Goto
  <2>3. CASE GetLock(u)
    BY <1>4, <2>3 DEF GetLock
  <2>4. CASE DialSucceeds(u)
    <3>1. CASE lock
      <4>1. /\ pc' = [pc EXCEPT ![u] = "reg"] /\ pc[u] # "hold" /\ in_use' = in_use
            /\ \A v \in Users : v # u => held'[v] = held[v]
        BY <1>0, <2>4, <3>1 DEF DialSucceeds, Goto
      <4>. QED
        BY <1>2, <4>1
    <3>2. CASE ~lock
      <4>1. made + 1 \in Nat /\ made + 1 \notin in_use
        BY <1>0
      <4>. QED
        BY <1>5, <2>4, <3>2, <4>1 DEF DialSucceeds
    <3>. QED
      BY <3>1, <3>2
  <2>5. CASE RegisterLate(u)
    <3>1. held[u] \in Nat /\ held[u] \notin in_use
      BY <1>0, <2>5 DEF RegisterLate, RegOK
    <3>. QED
      BY <1>5, <2>5, <3>1 DEF RegisterLate
  <2>6. CASE Release(u)
    <3>1. /\ \E p \in {"unreg", "idle", "rel"} : pc' = [pc EXCEPT ![u] = p]
          /\ \A v \in Users : v # u => held'[v] = held[v]
      BY <1>0, <1>6, <2>6 DEF Release, Goto
    <3>. QED
      BY <1>3, <2>6, <3>1 DEF Release
  <2>7. CASE ReleaseClosed(u) \/ ReleaseRemoves(u)
    BY <1>2, <1>6, <2>7 DEF ReleaseClosed, ReleaseRemoves
  <2>. QED
    BY <1>7, <2>1, <2>2, <2>3, <2>4, <2>5, <2>6, <2>7, <2>8 DEF UserNext
<1>8. ASSUME UNCHANGED <<userVars, in_use>>
      PROVE  Exclusive'
  BY <1>8 DEF Exclusive, userVars
<1>9. \/ \E u \in Users : UserNext(u)
      \/ UNCHANGED <<userVars, in_use>>
  BY DEF PoolNext, CloserNext, PoolClose, CloseAll, GatherOne, WebSocketMoves, Enter,
     HealthCheck, CleanupCollects, CleanupCloses, vars, connVars
<1>. QED
  BY <1>7, <1>8, <1>9

\* Whatever the number of users and of connections, a connection is handed to one
\* user at a time and is marked as in use from acquire() to release().
THEOREM ExclusiveTheorem == PoolSpec => []Exclusive
<1>1. PoolInit => Exclusive
  BY DEF PoolInit, Exclusive
<1>2. PoolTypeInv /\ RegOK /\ Exclusive /\ [PoolNext]_vars => Exclusive'
  BY ExclusiveStep
<1>. QED
  BY <1>1, <1>2, PoolTypes, RegTheorem, PTL DEF PoolSpec
-----------------------------------------------------------------------------
(***************************************************************************)
(* What the pool lets go of.                                               *)
(***************************************************************************)
\* A user that waits for the lock to remove its connection has closed it.
UnregOK == \A u \in Users : pc[u] = "unreg" => mstate[held[u]] = "terminal"

\* Only one close() gathers, with the lock, and nothing is registered meanwhile
\* that it does not wait for.
GatherOK == \A k \in Closers :
               /\ kpc[k] = "gather" => /\ lock
                                       /\ \A j \in Closers : kpc[j] = "gather" => j = k
                                       /\ \A c \in conns : mstate[c] = "terminal"
                                                             \/ c \in gathering[k]
               /\ kpc[k] # "gather" => gathering[k] = {}

KeepInv == UnregOK /\ GatherOK /\ NothingLeaks

\* What the pool has or is about to have.
Coming == {held[u] : u \in {v \in Users : pc[v] = "reg"}}
Known == conns \cup Coming
Left == dropped \cup orphans

\* A step forgets connections that are closed, and those of the set D, which are
\* among the ones left behind.
LetsGo(D) == /\ \A c \in 1 .. made : mstate[c] = "terminal" => mstate'[c] = "terminal"
             /\ \A c \in Known : c \in Known' \/ mstate'[c] = "terminal" \/ c \in D
             /\ Left \cup D \subseteq Left'
             /\ made' # made => made' = made + 1 /\ made + 1 \in Known' \cup D
             /\ lock => conns' \subseteq conns

\* A user that does not come from "reg" or go there changes nothing of that.
LEMMA ComingSame ==
    ASSUME PoolTypeInv, NEW u \in Users, NEW p, p # "reg", pc[u] # "reg",
           pc' = [pc EXCEPT ![u] = p], \A v \in Users : v # u => held'[v] = held[v]
    PROVE  Coming' = Coming
<1>1. pc \in [Users -> Places]
  BY DEF PoolTypeInv, UserOK
<1>2. \A v \in Users : pc'[v] = "reg" <=> pc[v] = "reg"
  BY <1>1
<1>3. \A v \in Users : pc[v] = "reg" => held'[v] = held[v]
  OBVIOUS
<1>. QED
  BY <1>2, <1>3 DEF Coming

\* A step that opens no connection and gives none up but closed ones.
LEMMA NothingGoes ==
    ASSUME Coming' = Coming, UNCHANGED <<made, dropped, orphans>>, conns' \subseteq conns,
           \A c \in 1 .. made : mstate[c] = "terminal" => mstate'[c] = "terminal",
           \A c \in conns : c \in conns' \/ mstate'[c] = "terminal"
    PROVE  LetsGo({})
BY DEF LetsGo, Known, Left

LEMMA LookupLetsGo ==
    ASSUME PoolTypeInv, NEW u \in Users, Lookup(u), pc[u] # "reg",
           UNCHANGED <<made, wsVars, orphans>>
    PROVE  \E D : LetsGo(D)
<1>0. /\ ConnOK /\ made \in Nat /\ 1 .. made \subseteq Ids
      /\ held \in [Users -> 0 .. made]
  BY IdsFacts DEF PoolTypeInv, UserOK
<1>1. ASSUME NEW c \in 1 .. made, Found(u, c)
      PROVE  LetsGo({})
  <2>1. Coming' = Coming
    BY <1>0, <1>1, ComingSame DEF Found, Goto
  <2>. QED
    BY <1>1, <2>1, NothingGoes DEF Found, wsVars
<1>2. ASSUME NEW C \in SUBSET (1 .. made), Removed(u, C)
      PROVE  LetsGo({c \in C : mstate[c] = "busy"})
  <2>1. \A c \in C : mstate[c] = "terminal" \/ mstate[c] = "busy"
    BY <1>0, <1>2 DEF Removed, ConnOK, WsStates
  <2>2. \A c \in conns : c \in conns' \/ mstate'[c] = "terminal"
                            \/ c \in {d \in C : mstate[d] = "busy"}
    BY <1>2, <2>1 DEF Removed, wsVars
  <2>3. Coming' = Coming
    BY <1>0, <1>2, ComingSame DEF Removed, Goto
  <2>4. /\ dropped' = dropped \cup {c \in C : mstate[c] = "busy"}
        /\ conns' \subseteq conns /\ UNCHANGED mstate
    BY <1>2 DEF Removed, wsVars
  <2>. QED
    BY <2>2, <2>3, <2>4 DEF LetsGo, Known, Left
<1>. QED
  BY <1>0, <1>1, <1>2, LookupCases

LEMMA UnregisterLetsGo ==
    ASSUME PoolTypeInv, NEW u \in Users, Unregister(u), pc[u] # "reg",
           UNCHANGED <<made, dropped, orphans>>, mstate'[held[u]] = "terminal",
           \A c \in 1 .. made : mstate[c] = "terminal" => mstate'[c] = "terminal"
    PROVE  LetsGo({})
<1>1. held \in [Users -> 0 .. made]
  BY DEF PoolTypeInv, UserOK
<1>2. Coming' = Coming
  BY <1>1, ComingSame DEF Unregister, Goto
<1>3. conns' \subseteq conns /\ \A c \in conns : c \in conns' \/ c = held[u]
  BY DEF Unregister
<1>. QED
  BY <1>2, <1>3, NothingGoes

\* A dial succeeds: the connection is known, or an orphan.
LEMMA OpensLetsGo ==
    ASSUME PoolTypeInv, NEW u \in Users, Opens(u), NEW D, D \subseteq {made + 1},
           Known \cup ({made + 1} \ D) \subseteq Known', Left \cup D \subseteq Left',
           lock => conns' \subseteq conns
    PROVE  LetsGo(D)
<1>1. made \in Nat /\ 1 .. made \subseteq Ids
  BY IdsFacts DEF PoolTypeInv
<1>2. \A c \in 1 .. made : mstate'[c] = mstate[c]
  <2>1. mstate \in [Ids -> WsStates]
    BY DEF PoolTypeInv, ConnOK
  <2>. QED
    BY <1>1, <2>1 DEF Opens
<1>3. made' = made + 1 /\ made + 1 \in Known' \cup D
  BY DEF Opens
<1>. QED
  BY <1>2, <1>3 DEF LetsGo

LEMMA UserLetsGo ==
    ASSUME PoolTypeInv, KeepInv, NEW u \in Users, UserNext(u)
    PROVE  \E D : LetsGo(D)
<1>. USE DEF connVars, wsVars, leftVars
<1>0. /\ made \in Nat /\ 1 .. made \subseteq Ids /\ mstate \in [Ids -> WsStates]
      /\ held \in [Users -> 0 .. made] /\ conns \subseteq 1 .. made
      /\ pc \in [Users -> Places]
      /\ \A v \in Users : pc[v] \in {"hold", "rel", "unreg"} => held[v] \in 1 .. made
  BY IdsFacts DEF PoolTypeInv, ConnOK, UserOK
<1>1. ASSUME NEW p, p # "reg", pc[u] # "reg", pc' = [pc EXCEPT ![u] = p],
             \A v \in Users : v # u => held'[v] = held[v],
             UNCHANGED <<made, conns, mstate, dropped, orphans>>
      PROVE  \E D : LetsGo(D)
  <2>1. LetsGo({})
    BY <1>1, ComingSame, NothingGoes
  <2>. QED
    BY <2>1
<1>2. CASE Acquire(u) \/ AcquireTimesOut(u) \/ DialFails(u)
  BY <1>1, <1>2 DEF Acquire, AcquireTimesOut, DialFails, Goto
<1>3. CASE GetPermit(u) \/ GetLock(u)
  <2>1. CASE Lookup(u)
    BY <1>3, <2>1, LookupLetsGo DEF GetPermit, GetLock
  <2>2. CASE ~Lookup(u)
    BY <1>1, <1>3, <2>2 DEF GetPermit, GetLock, Goto
  <2>. QED
    BY <2>1, <2>2
\* Who else waits to register keeps waiting.
<1>4. ASSUME NEW p, NEW c, pc' = [pc EXCEPT ![u] = p], held' = [held EXCEPT ![u] = c]
      PROVE  /\ \A v \in Users : (v # u /\ pc[v] = "reg") => held[v] \in Coming'
             /\ p = "reg" => c \in Coming'
  <2>1. \A v \in Users : /\ pc'[v] = (IF v = u THEN p ELSE pc[v])
                         /\ held'[v] = (IF v = u THEN c ELSE held[v])
    BY <1>0, <1>4
  <2>. QED
    BY <2>1 DEF Coming
<1>5. CASE DialSucceeds(u)
  <2>0. /\ pc[u] = "dial" /\ Opens(u) /\ UNCHANGED <<dropped, orphans>>
        /\ held' = [held EXCEPT ![u] = made + 1]
    BY <1>5 DEF DialSucceeds, Register
  <2>1. CASE lock
    <3>1. pc' = [pc EXCEPT ![u] = "reg"] /\ conns' = conns
      BY <1>5, <2>1 DEF DialSucceeds, Goto
    <3>2. Coming \cup {made + 1} \subseteq Coming'
      BY <1>4, <2>0, <3>1 DEF Coming
    <3>3. LetsGo({})
      BY <2>0, <3>1, <3>2, OpensLetsGo DEF Known, Left
    <3>. QED
      BY <3>3
  <2>2. CASE ~lock
    <3>1. pc' = [pc EXCEPT ![u] = "hold"] /\ conns' = conns \cup {made + 1}
      BY <1>5, <2>2 DEF DialSucceeds, Register, Goto
    <3>2. Coming \subseteq Coming'
      BY <1>4, <2>0, <3>1 DEF Coming
    <3>3. LetsGo({})
      BY <2>0, <2>2, <3>1, <3>2, OpensLetsGo DEF Known, Left
    <3>. QED
      BY <3>3
  <2>. QED
    BY <2>1, <2>2
<1>6. CASE RegisterLate(u)
  <2>1. /\ pc' = [pc EXCEPT ![u] = "hold"] /\ held' = [held EXCEPT ![u] = held[u]]
        /\ conns' = conns \cup {held[u]} /\ ~lock
        /\ UNCHANGED <<made, mstate, dropped, orphans>>
    BY <1>6 DEF RegisterLate, Register, Goto
  <2>2. Known \subseteq Known'
    BY <1>4, <2>1 DEF Coming, Known
  <2>3. LetsGo({})
    BY <2>1, <2>2 DEF LetsGo, Left
  <2>. QED
    BY <2>3
<1>7. CASE AcquireCancelled(u)
  <2>1. pc' = [pc EXCEPT ![u] = "idle"] /\ UNCHANGED <<conns, dropped>>
    BY <1>7 DEF AcquireCancelled, Goto
  <2>2. CASE pc[u] # "reg" /\ UNCHANGED <<held, made, at, mstate, orphans>>
    BY <1>1, <2>1, <2>2
  <2>3. CASE /\ pc[u] = "dial"
             /\ Opens(u)
             /\ orphans' = orphans \cup {made + 1}
             /\ UNCHANGED held
    <3>1. Coming' = Coming
      BY <2>1, <2>3, ComingSame
    <3>2. LetsGo({made + 1})
      BY <2>1, <2>3, <3>1, OpensLetsGo DEF Known, Left
    <3>. QED
      BY <3>2
  <2>4. CASE /\ pc[u] = "reg"
             /\ orphans' = orphans \cup {held[u]}
             /\ held' = [held EXCEPT ![u] = 0]
             /\ UNCHANGED <<made, at, mstate>>
    <3>1. \A c \in Known : c \in Known' \/ c = held[u]
      BY <1>4, <2>1, <2>4 DEF Coming, Known
    <3>2. LetsGo({held[u]})
      BY <2>1, <2>4, <3>1 DEF LetsGo, Left
    <3>. QED
      BY <3>2
  <2>. QED
    BY <1>7, <2>2, <2>3, <2>4 DEF AcquireCancelled
<1>8. CASE Release(u)
  <2>0. pc[u] = "hold" /\ UNCHANGED <<made, dropped, orphans>>
    BY <1>8 DEF Release
  <2>1. CASE Goto(u, "idle") /\ held' = [held EXCEPT ![u] = 0] /\ UNCHANGED <<wsVars, conns>>
    BY <1>0, <1>1, <2>0, <2>1 DEF Goto
  <2>2. CASE held[u] \in Dead /\ Unregister(u) /\ UNCHANGED wsVars
    <3>1. LetsGo({})
      BY <1>0, <2>0, <2>2, UnregisterLetsGo DEF Dead
    <3>. QED
      BY <3>1
  <2>3. CASE CloseBegins({held[u]}) /\ Goto(u, "rel") /\ UNCHANGED <<conns, held>>
    <3>1. Coming' = Coming
      BY <2>0, <2>3, ComingSame DEF Goto
    <3>2. \A c \in 1 .. made : mstate[c] = "terminal" => mstate'[c] = "terminal"
      BY <1>0, <2>3 DEF CloseBegins
    <3>3. LetsGo({})
      BY <2>0, <2>3, <3>1, <3>2, NothingGoes
    <3>. QED
      BY <3>3
  <2>. QED
    BY <1>8, <2>1, <2>2, <2>3 DEF Release
<1>9. CASE ReleaseClosed(u)
  <2>1. /\ mstate'[held[u]] = "terminal"
        /\ \A c \in 1 .. made : mstate[c] = "terminal" => mstate'[c] = "terminal"
    BY <1>0, <1>9 DEF ReleaseClosed, CloseEnds
  <2>2. LetsGo({})
    BY <1>9, <2>1, UnregisterLetsGo DEF ReleaseClosed
  <2>. QED
    BY <2>2
<1>10. CASE ReleaseRemoves(u)
  <2>1. mstate'[held[u]] = "terminal"
    BY <1>10 DEF ReleaseRemoves, KeepInv, UnregOK
  <2>2. LetsGo({})
    BY <1>10, <2>1, UnregisterLetsGo DEF ReleaseRemoves
  <2>. QED
    BY <2>2
<1>11. CASE ReleaseCancelled(u)
  BY <1>0, <1>1, <1>11 DEF ReleaseCancelled, Goto
<1>. QED
  BY <1>2, <1>3, <1>5, <1>6, <1>7, <1>8, <1>9, <1>10, <1>11 DEF UserNext

LEMMA CloserLetsGo ==
    ASSUME PoolTypeInv, KeepInv, NEW k \in Closers, CloserNext(k)
    PROVE  LetsGo({})
<1>. USE DEF connVars, wsVars, leftVars
<1>0. /\ made \in Nat /\ 1 .. made \subseteq Ids /\ mstate \in [Ids -> WsStates]
      /\ conns \subseteq 1 .. made
  BY IdsFacts DEF PoolTypeInv, ConnOK
<1>4. UNCHANGED userVars
  BY DEF CloserNext, PoolClose, CloseAll, GatherOne
<1>5. Coming' = Coming
  BY <1>4 DEF userVars, Coming
<1>1. CASE PoolClose(k)
  BY <1>1, <1>5, NothingGoes DEF PoolClose
<1>2. CASE CloseAll(k)
  <2>1. \A c \in 1 .. made : mstate[c] = "terminal" => mstate'[c] = "terminal"
    BY <1>0, <1>2 DEF CloseAll, CloseBegins
  <2>2. \A c \in conns : c \in conns' \/ mstate[c] = "terminal"
    BY <1>2 DEF CloseAll, Dead
  <2>3. conns' \subseteq conns /\ UNCHANGED <<made, dropped, orphans>>
    BY <1>2 DEF CloseAll
  <2>. QED
    BY <1>0, <1>5, <2>1, <2>2, <2>3, NothingGoes
<1>3. ASSUME NEW c \in Ids, GatherOne(k, c)
      PROVE  LetsGo({})
  <2>1. mstate'[c] = "terminal" /\ \A d \in Ids : d # c => mstate'[d] = mstate[d]
    BY <1>0, <1>3 DEF GatherOne, CloseEnds
  <2>2. kpc[k] = "gather"
    BY <1>3 DEF GatherOne, KeepInv, GatherOK
  <2>3. \A d \in conns : d \in conns' \/ mstate[d] = "terminal" \/ d = c
    <3>1. CASE gathering[k] = {c}
      BY <2>2, <3>1 DEF KeepInv, GatherOK
    <3>2. CASE gathering[k] # {c}
      BY <1>3, <3>2 DEF GatherOne
    <3>. QED
      BY <3>1, <3>2
  <2>4. conns' \subseteq conns /\ UNCHANGED <<made, dropped, orphans>>
    BY <1>3 DEF GatherOne
  <2>5. \A d \in 1 .. made : mstate[d] = "terminal" => mstate'[d] = "terminal"
    BY <1>0, <2>1
  <2>6. \A d \in conns : d \in conns' \/ mstate'[d] = "terminal"
    BY <1>0, <2>1, <2>3, <2>5
  <2>. QED
    BY <1>5, <2>4, <2>5, <2>6, NothingGoes
<1>. QED
  BY <1>1, <1>2, <1>3 DEF CloserNext

LEMMA CleanupLetsGo ==
    ASSUME PoolTypeInv, NEW S \in SUBSET (1 .. made), NEW gone \in SUBSET (1 .. made),
           CleanupGoesOn(S, gone), UNCHANGED <<userVars, made, dropped, orphans>>
    PROVE  LetsGo({})
<1>0. /\ made \in Nat /\ 1 .. made \subseteq Ids /\ conns \subseteq 1 .. made
  BY IdsFacts DEF PoolTypeInv, ConnOK
<1>1. PICK T \in SUBSET (S \cap Dead), c \in (S \ Dead) \cup {0} :
          /\ conns' = conns \ (gone \cup T)
          /\ mstate' = [d \in Ids |-> IF d \in gone THEN "terminal"
                                      ELSE IF d = c /\ mstate[d] = "CONNECTED" THEN "busy"
                                      ELSE mstate[d]]
  BY DEF CleanupGoesOn
<1>2. \A d \in 1 .. made : mstate[d] = "terminal" \/ d \in gone => mstate'[d] = "terminal"
  BY <1>0, <1>1
<1>3. \A d \in T : mstate[d] = "terminal"
  BY <1>1 DEF Dead
<1>4. Coming' = Coming
  BY DEF userVars, Coming
<1>. QED
  BY <1>0, <1>1, <1>2, <1>3, <1>4, NothingGoes

LEMMA StepLetsGo ==
    ASSUME PoolTypeInv, KeepInv, PoolNext
    PROVE  \E D : LetsGo(D)
<1>. USE DEF connVars, wsVars, leftVars
<1>0. /\ made \in Nat /\ 1 .. made \subseteq Ids /\ mstate \in [Ids -> WsStates]
      /\ conns \subseteq 1 .. made /\ todo \subseteq 1 .. made /\ cur \in 0 .. made
  BY IdsFacts DEF PoolTypeInv, ConnOK, TaskOK
<1>1. CASE \E u \in Users : UserNext(u)
  BY <1>1, UserLetsGo
<1>2. CASE \E k \in Closers : CloserNext(k)
  BY <1>2, CloserLetsGo
<1>3. ASSUME NEW c \in Ids, WebSocketMoves(c)
      PROVE  LetsGo({})
  <2>1. \A d \in Ids : mstate[d] = "terminal" => mstate'[d] = "terminal"
    BY <1>0, <1>3 DEF WebSocketMoves, CloseEnds, Moves
  <2>2. Coming' = Coming
    BY <1>3 DEF WebSocketMoves, userVars, Coming
  <2>. QED
    BY <1>0, <1>3, <2>1, <2>2, NothingGoes DEF WebSocketMoves
<1>4. CASE Enter
  <2>2. Coming' = Coming
    BY <1>4 DEF Enter, userVars, Coming
  <2>1. LetsGo({})
    BY <1>4, <2>2, NothingGoes DEF Enter
  <2>. QED
    BY <2>1
<1>5. CASE HealthCheck
  <2>2. Coming' = Coming
    BY <1>5 DEF HealthCheck, userVars, Coming
  <2>1. LetsGo({})
    BY <1>5, <2>2, NothingGoes DEF HealthCheck, Dead
  <2>. QED
    BY <2>1
<1>6. CASE CleanupCollects
  <2>1. PICK S \in SUBSET Idle \ {{}} : CleanupGoesOn(S, {})
    BY <1>6 DEF CleanupCollects
  <2>2. S \in SUBSET (1 .. made) /\ {} \in SUBSET (1 .. made)
    BY <1>0, <2>1 DEF Idle
  <2>. QED
    BY <1>6, <2>1, <2>2, CleanupLetsGo DEF CleanupCollects
<1>7. CASE CleanupCloses
  <2>1. todo \in SUBSET (1 .. made) /\ {cur} \in SUBSET (1 .. made)
    BY <1>0, <1>7 DEF CleanupCloses
  <2>. QED
    BY <1>7, <2>1, CleanupLetsGo DEF CleanupCloses
<1>. QED
  BY <1>1, <1>2, <1>3, <1>4, <1>5, <1>6, <1>7 DEF PoolNext

LEMMA LeaksIff ==
    NothingLeaks <=> \A c \in 1 .. made : c \in Known \/ mstate[c] = "terminal" \/ c \in Left
BY DEF NothingLeaks, Known, Coming, Left

LEMMA LeaksStep ==
    ASSUME PoolTypeInv, NothingLeaks, NEW D, LetsGo(D)
    PROVE  NothingLeaks'
<1>1. made \in Nat
  BY IdsFacts DEF PoolTypeInv
<1>. DEFINE Fine(c) == c \in Known' \/ mstate'[c] = "terminal" \/ c \in Left'
<1>2. ASSUME NEW c \in 1 .. made', c \in 1 .. made
      PROVE  Fine(c)
  BY <1>2, LeaksIff DEF LetsGo
<1>3. ASSUME NEW c \in 1 .. made', c \notin 1 .. made
      PROVE  Fine(c)
  <2>1. c = made + 1 /\ made + 1 \in Known' \cup D
    BY <1>1, <1>3 DEF LetsGo
  <2>. QED
    BY <2>1 DEF LetsGo
<1>4. \A c \in 1 .. made' : Fine(c)
  BY <1>2, <1>3
<1>. QED
  BY <1>4 DEF NothingLeaks, Known, Coming, Left

LEMMA UnregStep ==
    ASSUME PoolTypeInv, UnregOK, PoolNext, NEW D, LetsGo(D)
    PROVE  UnregOK'
<1>. USE DEF connVars, wsVars, userVars
<1>0. /\ pc \in [Users -> Places] /\ made \in Nat /\ mstate \in [Ids -> WsStates]
      /\ held \in [Users -> 0 .. made] /\ 1 .. made \subseteq Ids /\ UserOK /\ ConnOK
      /\ \A v \in Users : pc[v] \in {"reg", "hold", "rel", "unreg"} => held[v] \in 1 .. made
  BY IdsFacts DEF PoolTypeInv, ConnOK, UserOK
<1>1. \A v \in Users : pc[v] = "unreg" => mstate'[held[v]] = "terminal"
  BY <1>0 DEF UnregOK, LetsGo
<1>2. ASSUME UNCHANGED <<pc, held>>
      PROVE  UnregOK'
  BY <1>1, <1>2 DEF UnregOK
<1>3. ASSUME NEW u \in Users, NEW p, pc' = [pc EXCEPT ![u] = p],
             \A v \in Users : v # u => held'[v] = held[v],
             p = "unreg" => held'[u] = held[u] /\ mstate'[held[u]] = "terminal"
      PROVE  UnregOK'
  BY <1>0, <1>1, <1>3 DEF UnregOK
<1>4. ASSUME NEW u \in Users, Unregister(u), mstate'[held[u]] = "terminal"
      PROVE  UnregOK'
  BY <1>0, <1>3, <1>4 DEF Unregister, Goto
<1>5. ASSUME NEW u \in Users, Lookup(u)
      PROVE  UnregOK'
  BY <1>0, <1>3, <1>5, LookupCases DEF Found, Removed, Goto
<1>6. ASSUME NEW u \in Users, UserNext(u)
      PROVE  UnregOK'
  <2>1. CASE Acquire(u) \/ AcquireTimesOut(u) \/ DialFails(u)
    BY <1>3, <2>1 DEF Acquire, AcquireTimesOut, DialFails, Goto
  <2>7. CASE AcquireCancelled(u) \/ ReleaseCancelled(u)
    <3>1. /\ pc' = [pc EXCEPT ![u] = "idle"]
          /\ \A v \in Users : v # u => held'[v] = held[v]
      BY <1>0, <2>7 DEF AcquireCancelled, ReleaseCancelled, Goto
    <3>. QED
      BY <1>3, <3>1
  <2>2. CASE GetPermit(u) \/ GetLock(u)
    BY <1>3, <1>5, <2>2 DEF GetPermit, GetLock, Goto
  <2>3. CASE DialSucceeds(u) \/ RegisterLate(u)
    <3>1. \E p \in {"reg", "hold"} : pc' = [pc EXCEPT ![u] = p]
      BY <2>3 DEF DialSucceeds, RegisterLate, Register, Goto
    <3>2. \A v \in Users : v # u => held'[v] = held[v]
      BY <1>0, <2>3 DEF DialSucceeds, RegisterLate, Register
    <3>. QED
      BY <1>3, <3>1, <3>2
  <2>4. CASE Release(u)
    <3>1. CASE held[u] \in Dead /\ Unregister(u) /\ UNCHANGED wsVars
      BY <1>4, <3>1 DEF Dead
    <3>2. CASE Goto(u, "idle") /\ held' = [held EXCEPT ![u] = 0]
      BY <1>0, <1>3, <3>2 DEF Goto
    <3>3. CASE Goto(u, "rel") /\ UNCHANGED <<conns, held>>
      BY <1>0, <1>3, <3>3 DEF Goto
    <3>. QED
      BY <2>4, <3>1, <3>2, <3>3 DEF Release
  <2>5. CASE ReleaseClosed(u)
    <3>1. mstate'[held[u]] = "terminal"
      BY <1>0, <2>5 DEF ReleaseClosed, CloseEnds
    <3>. QED
      BY <1>4, <2>5, <3>1 DEF ReleaseClosed
  <2>6. CASE ReleaseRemoves(u)
    BY <1>1, <1>4, <2>6 DEF ReleaseRemoves
  <2>. QED
    BY <1>6, <2>1, <2>2, <2>3, <2>4, <2>5, <2>6, <2>7 DEF UserNext
<1>7. \/ \E u \in Users : UserNext(u)
      \/ UNCHANGED <<pc, held>>
  BY DEF PoolNext, CloserNext, PoolClose, CloseAll, GatherOne, WebSocketMoves, Enter,
     HealthCheck, CleanupCollects, CleanupCloses
<1>. QED
  BY <1>2, <1>6, <1>7

LEMMA GatherStep ==
    ASSUME PoolTypeInv, GatherOK, PoolNext, NEW D, LetsGo(D)
    PROVE  GatherOK'
<1>. USE DEF poolVars
<1>0. /\ kpc \in [Closers -> {"idle", "tasks", "gather", "done"}]
      /\ gathering \in [Closers -> SUBSET (1 .. made)]
      /\ conns \subseteq 1 .. made /\ made \in Nat /\ 1 .. made \subseteq Ids
      /\ mstate \in [Ids -> WsStates]
  BY IdsFacts DEF PoolTypeInv, TaskOK, ConnOK
\* What else a step does, what close() gathers has closed or is waited for.
<1>1. ASSUME NEW k \in Closers, kpc[k] = "gather", conns' \subseteq conns
      PROVE  \A c \in conns' : mstate'[c] = "terminal" \/ c \in gathering[k]
  BY <1>0, <1>1 DEF GatherOK, LetsGo
<1>2. ASSUME UNCHANGED <<lock, kpc, gathering>>
      PROVE  GatherOK'
  <2>1. CASE lock
    BY <1>1, <1>2, <2>1 DEF GatherOK, LetsGo
  <2>2. CASE ~lock
    <3>1. \A k \in Closers : kpc[k] # "gather"
      BY <2>2 DEF GatherOK
    <3>. QED
      BY <1>2, <3>1 DEF GatherOK
  <2>. QED
    BY <2>1, <2>2
<1>3. ASSUME NEW k \in Closers, PoolClose(k)
      PROVE  GatherOK'
  <2>1. /\ \A j \in Closers : kpc'[j] = IF j = k THEN "tasks" ELSE kpc[j]
        /\ kpc[k] # "gather" /\ lock' = lock /\ gathering' = gathering /\ conns' = conns
    BY <1>0, <1>3 DEF PoolClose, connVars
  <2>. QED
    BY <1>1, <2>1 DEF GatherOK
<1>4. ASSUME NEW k \in Closers, CloseAll(k)
      PROVE  GatherOK'
  <2>1. \A j \in Closers : kpc[j] # "gather" /\ gathering[j] = {}
    BY <1>4 DEF CloseAll, GatherOK
  <2>2. \A j \in Closers : gathering'[j] = IF j = k THEN conns \ Dead ELSE {}
    BY <1>0, <1>4, <2>1 DEF CloseAll
  <2>3. CASE conns \subseteq Dead
    <3>1. \A j \in Closers : kpc'[j] # "gather" /\ gathering'[j] = {}
      BY <1>0, <1>4, <2>1, <2>2, <2>3 DEF CloseAll
    <3>. QED
      BY <3>1 DEF GatherOK
  <2>4. CASE ~(conns \subseteq Dead)
    <3>1. /\ \A j \in Closers : kpc'[j] = "gather" <=> j = k
          /\ lock' /\ conns' = conns
      BY <1>0, <1>4, <2>1, <2>4 DEF CloseAll
    <3>2. \A c \in conns : c \in Dead => mstate'[c] = "terminal"
      BY <1>0 DEF Dead, LetsGo
    <3>. QED
      BY <2>2, <3>1, <3>2 DEF GatherOK
  <2>. QED
    BY <2>3, <2>4
<1>5. ASSUME NEW k \in Closers, NEW c \in Ids, GatherOne(k, c)
      PROVE  GatherOK'
  <2>1. kpc[k] = "gather" /\ lock /\ \A j \in Closers : j # k => kpc[j] # "gather"
    BY <1>5 DEF GatherOne, GatherOK
  <2>2. \A j \in Closers : gathering'[j] = IF j = k THEN gathering[k] \ {c} ELSE {}
    BY <1>0, <1>5, <2>1 DEF GatherOne, GatherOK
  <2>3. CASE gathering[k] = {c}
    <3>1. \A j \in Closers : kpc'[j] # "gather" /\ gathering'[j] = {}
      BY <1>0, <1>5, <2>1, <2>2, <2>3 DEF GatherOne
    <3>. QED
      BY <3>1 DEF GatherOK
  <2>4. CASE gathering[k] # {c}
    <3>1. UNCHANGED <<conns, lock, kpc>>
      BY <1>5, <2>4 DEF GatherOne
    <3>2. mstate'[c] = "terminal"
      BY <1>0, <1>5 DEF GatherOne, CloseEnds
    <3>3. \A d \in conns : mstate'[d] = "terminal" \/ d \in gathering[k]
      BY <1>1, <2>1, <3>1
    <3>. QED
      BY <2>1, <2>2, <3>1, <3>2, <3>3 DEF GatherOK
  <2>. QED
    BY <2>3, <2>4
<1>6. ASSUME NEW u \in Users, UserNext(u)
      PROVE  UNCHANGED <<lock, kpc, gathering>>
  BY <1>6 DEF UserNext, Acquire, AcquireTimesOut, GetPermit, GetLock, DialSucceeds,
     RegisterLate, DialFails, AcquireCancelled, Release, ReleaseClosed, ReleaseRemoves,
     ReleaseCancelled
<1>7. CASE \/ HealthCheck \/ CleanupCollects \/ CleanupCloses \/ Enter
           \/ \E c \in Ids : WebSocketMoves(c)
  <2>1. UNCHANGED <<lock, kpc, gathering>>
    BY <1>7 DEF HealthCheck, CleanupCollects, CleanupCloses, Enter, WebSocketMoves
  <2>. QED
    BY <1>2, <2>1
<1>. QED
  BY <1>2, <1>3, <1>4, <1>5, <1>6, <1>7 DEF PoolNext, CloserNext

LEMMA KeepStep == PoolTypeInv /\ KeepInv /\ [PoolNext]_vars => KeepInv'
<1>. SUFFICES ASSUME PoolTypeInv, KeepInv, [PoolNext]_vars
              PROVE  KeepInv'
  OBVIOUS
<1>1. CASE PoolNext
  <2>1. PICK D : LetsGo(D)
    BY <1>1, StepLetsGo
  <2>. QED
    BY <1>1, <2>1, LeaksStep, UnregStep, GatherStep DEF KeepInv
<1>2. CASE UNCHANGED vars
  BY <1>2 DEF vars, userVars, connVars, wsVars, leftVars, poolVars, KeepInv, UnregOK,
     GatherOK, NothingLeaks
<1>. QED
  BY <1>1, <1>2

\* Whatever users, background tasks and calls of close() do to each other, and
\* whenever users are cancelled, every connection that was opened is registered, is
\* about to be, or has ended, but for those of a cancelled acquire() and those that
\* acquire() took for dead while they were reconnecting.
THEOREM LeaksTheorem == PoolSpec => []NothingLeaks
<1>1. PoolInit => KeepInv
  BY DEF PoolInit, KeepInv, UnregOK, GatherOK, NothingLeaks
<1>2. PoolTypeInv /\ KeepInv /\ [PoolNext]_vars => KeepInv'
  BY KeepStep
<1>3. KeepInv => NothingLeaks
  BY DEF KeepInv
<1>. QED
  BY <1>1, <1>2, <1>3, PoolTypes, PTL DEF PoolSpec
-----------------------------------------------------------------------------
(***************************************************************************)
(* What a closed pool keeps.                                               *)
(***************************************************************************)
AllHeld == \A c \in conns : c \in kept \/ \E u \in Users : held[u] = c

LEMMA UserKeepsHeld ==
    ASSUME PoolTypeInv, RegOK, NEW u \in Users, UserNext(u), closed, AllHeld
    PROVE  AllHeld'
<1>. USE DEF connVars, leftVars
<1>0. /\ held \in [Users -> 0 .. made] /\ conns \subseteq 1 .. made /\ made \in Nat /\ ConnOK
      /\ \A v \in Users : (held[v] # 0) <=> (pc[v] \in {"reg", "hold", "rel", "unreg"})
      /\ pc[u] = "reg" => held[u] \notin conns
  BY IdsFacts DEF PoolTypeInv, ConnOK, UserOK, RegOK
\* A user that had no connection, and so holds none of conns, gets one, or a
\* user goes without one that the pool forgets too.
<1>1. ASSUME NEW c, held' = [held EXCEPT ![u] = c],
             conns' \subseteq (conns \cup {c}) \ ({held[u]} \ {c}), kept' = kept
      PROVE  AllHeld'
  <2>1. \A v \in Users : held'[v] = IF v = u THEN c ELSE held[v]
    BY <1>0, <1>1
  <2>. QED
    BY <1>1, <2>1 DEF AllHeld
<1>2. ASSUME UNCHANGED <<held, kept>>, conns' \subseteq conns
      PROVE  AllHeld'
  BY <1>2 DEF AllHeld
<1>3. ASSUME Unregister(u), kept' = kept
      PROVE  AllHeld'
  <2>1. CASE lock
    BY <1>2, <1>3, <2>1 DEF Unregister
  <2>2. CASE ~lock
    BY <1>1, <1>3, <2>2 DEF Unregister
  <2>. QED
    BY <2>1, <2>2
<1>4. ASSUME Lookup(u), held[u] = 0, kept' = kept
      PROVE  AllHeld'
  <2>1. ASSUME NEW c \in 1 .. made, Found(u, c)
        PROVE  AllHeld'
    <3>1. held' = [held EXCEPT ![u] = c]
      BY <2>1 DEF Found
    <3>2. conns' \subseteq (conns \cup {c}) \ ({held[u]} \ {c})
      BY <1>0, <1>4, <2>1 DEF Found
    <3>. QED
      BY <1>1, <1>4, <3>1, <3>2
  <2>2. ASSUME NEW C \in SUBSET (1 .. made), Removed(u, C)
        PROVE  AllHeld'
    BY <1>2, <1>4, <2>2 DEF Removed
  <2>. QED
    BY <1>0, <1>4, <2>1, <2>2, LookupCases
<1>5. ASSUME NEW c, Register(u, c), held[u] \in {0, c}, kept' = kept
      PROVE  AllHeld'
  <2>1. held' = [held EXCEPT ![u] = c] /\ conns' = conns \cup {c}
    BY <1>5 DEF Register
  <2>2. conns' \subseteq (conns \cup {c}) \ ({held[u]} \ {c})
    BY <1>0, <1>5, <2>1
  <2>. QED
    BY <1>1, <1>5, <2>1, <2>2
<1>6. CASE Acquire(u) \/ AcquireTimesOut(u) \/ DialFails(u)
  BY <1>2, <1>6 DEF Acquire, AcquireTimesOut, DialFails
<1>11. CASE AcquireCancelled(u)
  <2>1. conns' = conns /\ kept' = kept
    BY <1>11 DEF AcquireCancelled
  <2>2. CASE UNCHANGED held
    BY <1>2, <2>1, <2>2
  <2>3. CASE pc[u] = "reg" /\ held' = [held EXCEPT ![u] = 0]
    BY <1>0, <1>1, <2>1, <2>3
  <2>. QED
    BY <1>11, <2>2, <2>3 DEF AcquireCancelled
<1>12. CASE ReleaseCancelled(u)
  <2>1. \A v \in Users : v # u => held'[v] = held[v]
    BY <1>0, <1>12 DEF ReleaseCancelled
  <2>2. conns' = conns /\ kept' = kept \cup {held[u]}
    BY <1>12 DEF ReleaseCancelled
  <2>. QED
    BY <2>1, <2>2 DEF AllHeld
<1>7. CASE GetPermit(u) \/ GetLock(u)
  <2>1. held[u] = 0
    BY <1>0, <1>7 DEF GetPermit, GetLock
  <2>. QED
    BY <1>2, <1>4, <1>7, <2>1 DEF GetPermit, GetLock
<1>8. CASE DialSucceeds(u)
  <2>1. held[u] = 0 /\ kept' = kept /\ made + 1 \notin conns
    BY <1>0, <1>8 DEF DialSucceeds
  <2>2. CASE lock
    <3>1. held' = [held EXCEPT ![u] = made + 1] /\ conns' = conns
      BY <1>8, <2>2 DEF DialSucceeds
    <3>2. conns' \subseteq (conns \cup {made + 1}) \ ({held[u]} \ {made + 1})
      BY <1>0, <2>1, <3>1
    <3>. QED
      BY <1>1, <2>1, <3>1, <3>2
  <2>3. CASE ~lock
    BY <1>5, <1>8, <2>1, <2>3 DEF DialSucceeds
  <2>. QED
    BY <2>2, <2>3
<1>13. CASE RegisterLate(u)
  BY <1>5, <1>13 DEF RegisterLate
<1>9. CASE Release(u)
  BY <1>2, <1>3, <1>9 DEF Release
<1>10. CASE ReleaseClosed(u) \/ ReleaseRemoves(u)
  BY <1>3, <1>10 DEF ReleaseClosed, ReleaseRemoves
<1>. QED
  BY <1>6, <1>7, <1>8, <1>9, <1>10, <1>11, <1>12, <1>13 DEF UserNext

LEMMA ClosedStep ==
    ASSUME PoolTypeInv, RegOK, KeepInv, NothingIdleOnceClosed, [PoolNext]_vars
    PROVE  NothingIdleOnceClosed'
<1>. USE DEF poolVars, connVars, leftVars
<1>0. kpc \in [Closers -> {"idle", "tasks", "gather", "done"}] /\ conns \subseteq 1 .. made
  BY DEF PoolTypeInv, TaskOK, ConnOK
<1>. DEFINE Quiet == \A k \in Closers : kpc[k] \in {"idle", "done"}
<1>1. NothingIdleOnceClosed <=> ((closed /\ Quiet) => AllHeld)
  BY DEF NothingIdleOnceClosed, AllHeld
<1>2. NothingIdleOnceClosed' <=> ((closed' /\ Quiet') => AllHeld')
  BY DEF NothingIdleOnceClosed, AllHeld
<1>3. ASSUME NEW u \in Users, UserNext(u), closed', Quiet'
      PROVE  AllHeld'
  <2>1. UNCHANGED <<closed, kpc>>
    BY <1>3 DEF UserNext, Acquire, AcquireTimesOut, GetPermit, GetLock, DialSucceeds,
       RegisterLate, DialFails, AcquireCancelled, Release, ReleaseClosed, ReleaseRemoves,
     ReleaseCancelled
  <2>2. closed /\ AllHeld
    BY <1>1, <1>3, <2>1
  <2>. QED
    BY <1>3, <2>2, UserKeepsHeld
<1>4. ASSUME NEW k \in Closers, CloserNext(k), Quiet'
      PROVE  AllHeld'
  <2>1. CASE PoolClose(k)
    BY <1>0, <1>4, <2>1 DEF PoolClose
  <2>2. CASE CloseAll(k)
    BY <1>0, <1>4, <2>2 DEF CloseAll, AllHeld
  <2>3. ASSUME NEW c \in Ids, GatherOne(k, c)
        PROVE  AllHeld'
    <3>1. kpc[k] = "gather"
      BY <2>3 DEF GatherOne, KeepInv, GatherOK
    <3>2. gathering[k] = {c}
      BY <1>4, <2>3, <3>1 DEF GatherOne
    <3>. QED
      BY <2>3, <3>2 DEF GatherOne, AllHeld
  <2>. QED
    BY <1>4, <2>1, <2>2, <2>3 DEF CloserNext
\* The others only remove connections.
<1>5. ASSUME closed', Quiet', UNCHANGED <<closed, kpc, held, kept>>, conns' \subseteq conns
      PROVE  AllHeld'
  BY <1>1, <1>5 DEF AllHeld
<1>6. CASE Enter
  BY <1>2, <1>5, <1>6 DEF Enter, userVars
<1>7. CASE HealthCheck \/ \E c \in Ids : WebSocketMoves(c)
  <2>1. UNCHANGED <<closed, kpc, held, kept>> /\ conns' \subseteq conns
    BY <1>7 DEF HealthCheck, WebSocketMoves, userVars
  <2>. QED
    BY <1>2, <1>5, <2>1
<1>8. ASSUME NEW S, NEW gone, CleanupGoesOn(S, gone)
      PROVE  conns' \subseteq conns
  BY <1>8 DEF CleanupGoesOn
<1>9. CASE CleanupCollects \/ CleanupCloses
  <2>1. UNCHANGED <<closed, kpc, held, kept>> /\ conns' \subseteq conns
    BY <1>8, <1>9 DEF CleanupCollects, CleanupCloses, userVars
  <2>. QED
    BY <1>2, <1>5, <2>1
<1>10. CASE UNCHANGED vars
  BY <1>2, <1>5, <1>10 DEF vars, userVars
<1>. QED
  BY <1>2, <1>3, <1>4, <1>6, <1>7, <1>9, <1>10 DEF PoolNext

\* Once every close() that was called has returned, a closed pool keeps only
\* connections that a user has, however late acquire() registered them: release()
\* will close those, unless it was cancelled.
THEOREM ClosedTheorem == PoolSpec => []NothingIdleOnceClosed
<1>1. PoolInit => KeepInv /\ NothingIdleOnceClosed
  BY DEF PoolInit, KeepInv, UnregOK, GatherOK, NothingLeaks, NothingIdleOnceClosed
<1>2. PoolTypeInv /\ KeepInv /\ [PoolNext]_vars => KeepInv'
  BY KeepStep
<1>3. PoolTypeInv /\ RegOK /\ KeepInv /\ NothingIdleOnceClosed /\ [PoolNext]_vars =>
          NothingIdleOnceClosed'
  BY ClosedStep
<1>. QED
  BY <1>1, <1>2, <1>3, PoolTypes, RegTheorem, PTL DEF PoolSpec
=============================================================================
