--------------------------- MODULE EventTimerProofs ---------------------------
(* Proofs about the timers, for any connections, life time and margins, and  *)
(* about the tree that holds them, for any nodes and any keys.               *)
EXTENDS EventTimer, RBTreeLemmas

\* The products of milliseconds and keys per millisecond are integers; with
\* this fact the steps below need linear arithmetic only.
LEMMA Products == ASSUME NEW m \in Nat, NEW n \in Nat PROVE m * n \in Nat
  OBVIOUS

\* A counter within the slack keeps a deadline within its margins.
LEMMA WithinSlack ==
  ASSUME NEW d \in Int, NEW l \in Nat \ {0}, NEW t \in Nat, NEW s \in Nat, t <= s
  PROVE  d - l < d + t /\ d + t < d + l + s
  OBVIOUS

\* Setting a timer moves the counter by one, and the slack never shrinks by it.
LEMMA CounterMoves ==
  ASSUME TypeOK, sign = "plus" => times <= burst, sign' = sign, Counted
  PROVE  /\ times' = times + 1 /\ times' \in Nat /\ burst' \in Nat
         /\ sign' = "plus" => times' <= burst'
         /\ Slack \in Nat /\ Slack' \in Nat /\ Slack <= Slack' /\ times' <= Slack'
<1>1. times \in Nat /\ burst \in Nat /\ sign \in {"plus", "minus"} /\ times' = times + 1
  BY DEF TypeOK, Counted
<1>2. CASE sign = "minus"
  <2>1. burst' = burst
    BY <1>2 DEF Counted
  <2>2. Slack = burst + times /\ Slack' = burst + (times + 1)
    BY <1>1, <1>2, <2>1 DEF Slack
  <2> QED BY <1>1, <1>2, <2>1, <2>2
<1>3. CASE sign = "plus"
  <2>1. burst' = IF burst < times + 1 THEN times + 1 ELSE burst
    BY <1>3 DEF Counted
  <2>2. Slack = burst /\ Slack' = burst'
    BY <1>3 DEF Slack
  <2> QED BY <1>1, <1>3, <2>1, <2>2
<1> QED BY <1>1, <1>2, <1>3

\* A timer that is set, or left alone because it is near enough, ends up in the
\* window around the deadline of this read; no other timer is touched.
LEMMA AddedInWindow ==
  ASSUME TypeOK, NEW c \in Conns, sign = "plus" => times <= burst,
         sign' = sign, TimerAdd(c)
  PROVE  /\ armed' = armed \union {c}
         /\ key' \in [Conns -> Int]
         /\ \A d \in Conns \ {c} : key'[d] = key[d]
         /\ times' \in Nat /\ burst' \in Nat
         /\ sign' = "plus" => times' <= burst'
         /\ Slack \in Nat /\ Slack' \in Nat /\ Slack <= Slack'
         /\ (cur + Life) * K - Lazy < key'[c]
         /\ key'[c] < (cur + Life) * K + Lazy + Slack'
<1> DEFINE D == (cur + Life) * K
<1>1. D \in Int /\ times \in Nat /\ burst \in Nat /\ Lazy \in Nat \ {0}
  BY KeyAssumption, LifeAssumption, Products DEF TypeOK
<1>2. key \in [Conns -> Int] /\ sign \in {"plus", "minus"}
  BY DEF TypeOK
<1> HIDE DEF D
<1>3. CASE Skips(c) /\ UNCHANGED <<armed, key, times, burst>>
  <2>1. c \in armed /\ Abs(Deadline(times) - key[c]) < Lazy
    BY <1>3 DEF Skips
  <2>2. Deadline(times) = D + times
    BY DEF Deadline, D
  <2>3. Slack' = Slack
    BY <1>3 DEF Slack
  <2>5. Slack \in Nat /\ times <= Slack
    BY <1>1, <1>2 DEF Slack
  <2>4. D - Lazy < key[c] /\ key[c] < D + Lazy + Slack
    BY <2>1, <2>2, <2>5, <1>1, <1>2 DEF Abs
  <2>6. armed' = armed \union {c} /\ key' = key /\ times' = times /\ burst' = burst
    BY <2>1, <1>3
  <2> QED BY <2>3, <2>4, <2>5, <2>6, <1>1, <1>2 DEF D
<1>4. CASE /\ Counted
           /\ key' = [key EXCEPT ![c] = Deadline(times + 1)]
           /\ armed' = armed \union {c}
  <2>0. /\ times' = times + 1 /\ times' \in Nat /\ burst' \in Nat
        /\ sign' = "plus" => times' <= burst'
        /\ Slack \in Nat /\ Slack' \in Nat /\ Slack <= Slack' /\ times' <= Slack'
    BY <1>4, CounterMoves
  <2>1. Deadline(times + 1) = D + (times + 1)
    BY DEF Deadline, D
  <2>2. key'[c] = D + times'
    BY <2>0, <2>1, <1>2, <1>4
  <2>3. D - Lazy < key'[c] /\ key'[c] < D + Lazy + Slack'
    <3>1. times' \in Nat /\ Slack' \in Nat /\ times' <= Slack' /\ Lazy \in Nat /\ 0 < Lazy
      BY <2>0, <1>1
    <3>2. D - Lazy < D + times' /\ D + times' < D + Lazy + Slack'
      BY <3>1, <1>1, WithinSlack
    <3> QED BY <3>2, <2>2
  <2>4. key' \in [Conns -> Int] /\ \A d \in Conns \ {c} : key'[d] = key[d]
    <3>1. Deadline(times + 1) \in Int
      BY <2>1, <1>1
    <3>2. key' = [key EXCEPT ![c] = Deadline(times + 1)]
      BY <1>4
    <3> QED BY <3>1, <3>2, <1>2
  <2> QED BY <2>0, <2>3, <2>4, <1>4 DEF D
<1>5. \/ Skips(c) /\ UNCHANGED <<armed, key, times, burst>>
      \/ /\ Counted
         /\ key' = [key EXCEPT ![c] = Deadline(times + 1)]
         /\ armed' = armed \union {c}
  BY DEF TimerAdd
<1> QED BY <1>3, <1>4, <1>5

\* An update of the time leaves the slack as it is: the counter starts again
\* only where it did not count towards it.
LEMMA SlackKept ==
  ASSUME TypeOK, TimeUpdate, burst' = burst
  PROVE  /\ Slack' = Slack /\ times' \in Nat /\ sign' \in {"plus", "minus"} /\ cur' \in Nat
         /\ sign' = "plus" => times' = 0
<1>1. CASE sign = "minus"
  BY <1>1 DEF TimeUpdate, TypeOK, Slack
<1>2. CASE sign = "plus"
  <2>1. times' = 0 /\ cur' \in Nat /\ sign' \in {"plus", "minus"}
    BY <1>2 DEF TimeUpdate, TypeOK
  <2>2. Slack = burst
    BY <1>2 DEF Slack
  <2>3. Slack' = burst
    BY <2>1 DEF Slack, TypeOK
  <2> QED BY <2>1, <2>2, <2>3
<1> QED BY <1>1, <1>2 DEF TypeOK

\* The window of the other connections outlives a slack that grows.
LEMMA WindowGrows ==
  ASSUME TypeOK, NEW d \in open, Window, Slack \in Nat, Slack' \in Nat, Slack <= Slack'
  PROVE  /\ (last[d] + Life) * K - Lazy < key[d]
         /\ key[d] < (last[d] + Life) * K + Lazy + Slack'
<1>1. d \in Conns /\ last[d] \in Nat /\ key[d] \in Int /\ Lazy \in Int
  BY KeyAssumption DEF TypeOK
<1>2. (last[d] + Life) * K \in Int
  BY <1>1, KeyAssumption, LifeAssumption, Products
<1>3. /\ (last[d] + Life) * K - Lazy < key[d]
      /\ key[d] < (last[d] + Life) * K + Lazy + Slack
  BY DEF Window
<1> QED BY <1>1, <1>2, <1>3

\* A connection that is read, be it for the first time, keeps the invariant.
LEMMA ReadKeeps ==
  ASSUME IInv, NEW c \in Conns, pc = "events", TimerAdd(c),
         last' = [last EXCEPT ![c] = cur], open' = open \union {c},
         UNCHANGED <<pc, clock, cur, sign>>
  PROVE  IInv'
<1>1. /\ armed' = armed \union {c}
      /\ key' \in [Conns -> Int]
      /\ \A d \in Conns \ {c} : key'[d] = key[d]
      /\ times' \in Nat /\ burst' \in Nat
      /\ sign' = "plus" => times' <= burst'
      /\ Slack \in Nat /\ Slack' \in Nat /\ Slack <= Slack'
      /\ (cur + Life) * K - Lazy < key'[c]
      /\ key'[c] < (cur + Life) * K + Lazy + Slack'
  BY AddedInWindow DEF IInv
<1>2. TypeOK'
  BY <1>1 DEF IInv, TypeOK
<1>3. Window'
  <2> SUFFICES ASSUME NEW d \in open'
               PROVE  /\ (last'[d] + Life) * K - Lazy < key'[d]
                      /\ key'[d] < (last'[d] + Life) * K + Lazy + Slack'
    BY DEF Window
  <2>1. CASE d = c
    BY <2>1, <1>1 DEF IInv, TypeOK
  <2>2. CASE d # c
    <3>1. d \in open /\ d \in Conns /\ key'[d] = key[d] /\ last'[d] = last[d]
      BY <2>2, <1>1 DEF IInv, TypeOK
    <3> QED BY <3>1, <1>1, WindowGrows DEF IInv
  <2> QED BY <2>1, <2>2
<1>4. armed' = open' /\ pc' = "events"
  BY <1>1 DEF IInv
<1> QED BY <1>1, <1>2, <1>3, <1>4 DEF IInv

-----------------------------------------------------------------------------
\* The invariant holds initially.
LEMMA InitInv == Init => IInv
  BY DEF Init, IInv, TypeOK, Window, Due

\* Every step keeps the invariant.
LEMMA NextInv == IInv /\ [Next]_vars => IInv'
<1> SUFFICES ASSUME IInv, [Next]_vars PROVE IInv'
  OBVIOUS
<1>1. CASE Clock
  BY <1>1, BoundAssumption DEF Clock, IInv, TypeOK, Window, Due, Slack
<1>2. CASE Cycle \/ (Wait /\ pc' = "events" /\ TimeUpdate)
  <2>1. /\ TimeUpdate /\ UNCHANGED <<clock, open, armed, key, last, burst>>
        /\ pc' \in {"wait", "events"}
    BY <1>2 DEF Cycle, Wait
  <2>2. /\ Slack' = Slack /\ times' \in Nat /\ sign' \in {"plus", "minus"} /\ cur' \in Nat
        /\ sign' = "plus" => times' = 0
    BY <2>1, SlackKept DEF IInv
  <2>3. TypeOK'
    BY <2>1, <2>2 DEF IInv, TypeOK
  <2>4. Window'
    BY <2>1, <2>2 DEF IInv, Window
  <2>5. sign' = "plus" => times' <= burst'
    BY <2>1, <2>2 DEF IInv, TypeOK
  <2> QED BY <2>1, <2>3, <2>4, <2>5 DEF IInv
<1>3. CASE Wait
  <2>1. CASE pc' = "expire" /\ UNCHANGED <<cur, times, sign>>
    BY <1>3, <2>1 DEF Wait, IInv, TypeOK, Window, Slack
  <2> QED BY <1>2, <1>3, <2>1 DEF Wait
<1>4. ASSUME NEW c \in Conns, Read(c) PROVE IInv'
  <2>1. open' = open \union {c}
    BY <1>4 DEF Read
  <2> QED BY <1>4, <2>1, ReadKeeps DEF Read
<1>5. ASSUME NEW c \in Conns, Accept(c) PROVE IInv'
  BY <1>5, ReadKeeps DEF Accept
<1>6. CASE AcceptEnded
  <2>1. /\ times' \in Nat /\ burst' \in Nat
        /\ sign' = "plus" => times' <= burst'
        /\ Slack \in Nat /\ Slack' \in Nat /\ Slack <= Slack'
    BY <1>6, CounterMoves DEF AcceptEnded, IInv
  <2>2. TypeOK'
    BY <1>6, <2>1 DEF AcceptEnded, IInv, TypeOK
  <2>3. Window'
    <3> SUFFICES ASSUME NEW d \in open
                 PROVE  /\ (last[d] + Life) * K - Lazy < key[d]
                        /\ key[d] < (last[d] + Life) * K + Lazy + Slack'
      BY <1>6 DEF AcceptEnded, Window
    <3> QED BY <2>1, WindowGrows DEF IInv
  <2> QED BY <1>6, <2>1, <2>2, <2>3 DEF AcceptEnded, IInv
<1>7. ASSUME NEW c \in Conns, Close(c) PROVE IInv'
  <2>1. /\ times' \in Nat /\ burst' \in Nat
        /\ sign' = "plus" => times' <= burst'
        /\ Slack \in Nat /\ Slack' \in Nat /\ Slack <= Slack'
    <3>1. CASE UNCHANGED <<times, burst>>
      <4>1. times' = times /\ burst' = burst /\ sign' = sign
        BY <1>7, <3>1 DEF Close
      <4>2. Slack' = Slack
        BY <4>1 DEF Slack
      <4>3. Slack \in Nat /\ times \in Nat /\ burst \in Nat
        BY DEF IInv, TypeOK, Slack
      <4> QED BY <4>1, <4>2, <4>3 DEF IInv
    <3>2. CASE Counted
      BY <1>7, <3>2, CounterMoves DEF Close, IInv
    <3> QED BY <1>7, <3>1, <3>2 DEF Close
  <2>2. TypeOK'
    BY <1>7, <2>1 DEF Close, IInv, TypeOK
  <2>3. Window'
    <3> SUFFICES ASSUME NEW d \in open \ {c}
                 PROVE  /\ (last[d] + Life) * K - Lazy < key[d]
                        /\ key[d] < (last[d] + Life) * K + Lazy + Slack'
      BY <1>7 DEF Close, Window
    <3> QED BY <2>1, WindowGrows DEF IInv
  <2> QED BY <1>7, <2>1, <2>2, <2>3 DEF Close, IInv
<1>8. CASE EndEvents
  BY <1>8 DEF EndEvents, IInv, TypeOK, Window, Slack
<1>9. ASSUME NEW c \in Conns, Expire(c) PROVE IInv'
  BY <1>9 DEF Expire, IInv, TypeOK, Window, Slack
<1>10. CASE EndExpire
  BY <1>10 DEF EndExpire, IInv, TypeOK, Window, Due, Slack
<1>11. CASE UNCHANGED vars
  BY <1>11 DEF vars, IInv, TypeOK, Window, Due, Slack
<1> QED BY <1>1, <1>2, <1>3, <1>4, <1>5, <1>6, <1>7, <1>8, <1>9, <1>10, <1>11 DEF Next

\* In every reachable state every open connection has a timer, its key is within
\* its window, whatever the clock did and however many connections one event
\* accepted, and the loop restarts only when nothing is due.
THEOREM TimerInvariance == Spec => []IInv
  BY InitInv, NextInv, PTL DEF Spec

-----------------------------------------------------------------------------
\* No connection is closed for silence before its life time less the margin,
\* since it was accepted or last read (ws_event_timer.c:86-92, ws_net.c:90).
THEOREM NeverEarly == Spec => NotEarly
<1>1. IInv /\ [Next]_vars =>
        [\A c \in Conns : pc = "expire" /\ c \in open \ open'
            => cur * K > (last[c] + Life) * K - Lazy]_vars
  <2> SUFFICES ASSUME IInv, Next, NEW c \in Conns, pc = "expire", c \in open \ open'
               PROVE  cur * K > (last[c] + Life) * K - Lazy
    OBVIOUS
  <2>1. Expire(c)
    BY DEF Next, Clock, Cycle, Wait, Read, Accept, AcceptEnded, Close, EndEvents,
           EndExpire, Expire
  <2>2. c \in open /\ key[c] <= cur * K
    BY <2>1 DEF Expire, Due
  <2>3. (last[c] + Life) * K - Lazy < key[c]
    BY <2>2 DEF IInv, Window
  <2>4. cur * K \in Int /\ (last[c] + Life) * K \in Int /\ key[c] \in Int /\ Lazy \in Int
    BY KeyAssumption, LifeAssumption, Products DEF IInv, TypeOK
  <2> QED BY <2>2, <2>3, <2>4
<1> QED BY <1>1, TimerInvariance, PTL DEF Spec, NotEarly

\* When the loop starts again no connection, not even one that never sent
\* anything, has been silent for too long (ws_event_timer.c:78-98).
THEOREM AlwaysInTime == Spec => []InTime
<1>1. IInv => InTime
  <2> SUFFICES ASSUME IInv, pc = "top", NEW c \in open
               PROVE  cur * K < (last[c] + Life) * K + Lazy + Slack
    BY DEF InTime
  <2>1. c \in Conns /\ c \in armed /\ cur \in Nat /\ key[c] \in Int /\ last[c] \in Nat
    BY DEF IInv, TypeOK
  <2>2. cur * K < key[c]
    BY <2>1, KeyAssumption, Products DEF IInv, Due
  <2>3. key[c] < (last[c] + Life) * K + Lazy + Slack
    BY DEF IInv, Window
  <2>4. /\ cur * K \in Int /\ (last[c] + Life) * K \in Int
        /\ Lazy \in Int /\ Slack \in Int
    BY <2>1, KeyAssumption, LifeAssumption, Products DEF IInv, TypeOK, Slack
  <2> QED BY <2>1, <2>2, <2>3, <2>4
<1> QED BY <1>1, TimerInvariance, PTL

(* The root m goes, and its one child c is painted black.                    *)
LEMMA RootGone ==
  ASSUME NEW u \in Trees, NEW M, Linked(u, M), NEW height, Calm(u, M, height),
         NEW m \in M, m = u.root, NEW s \in Sides, u.ch[Other(s)][m] = Nil,
         NEW c, c = u.ch[s][m],
         NEW v, v.root = c, \A n \in M \ {m} : \A d \in Sides : v.ch[d][n] = u.ch[d][n],
         v.red = [u.red EXCEPT ![c] = FALSE]
  PROVE  \E height2 : Calm(v, M \ {m}, height2)
<1> DEFINE M2 == M \ {m}
<1>1. M \subseteq All /\ Nil \in All /\ Nil \notin M /\ c \in All /\ M2 \subseteq All
      /\ \A n \in M : \A d \in Sides : u.ch[d][n] \in All /\
            (u.ch[d][n] # Nil => u.p[u.ch[d][n]] = n)
  BY DEF Linked
<1>2. \A n \in All : v.red[n] <=> n # c /\ u.red[n]
  BY <1>1 DEF Trees
<1>3. Level(u.ch, u.red, M, height)
  BY LevelFacts DEF Calm
<1>4. /\ height \in [All -> Nat] /\ height[Nil] = 0
      /\ \A n \in M : \A d \in Sides : height[n] = height[u.ch[d][n]] + Weight(u.red[n])
  BY <1>3 DEF Level
<1>5. ~ u.red[Nil] /\ \A n \in M : \A d \in Sides : ~ (u.red[n] /\ u.red[u.ch[d][n]])
  BY DEF Calm, Rosy
<1>6. ASSUME NEW n \in M2, NEW d \in Sides, c # Nil PROVE u.ch[d][n] # c
  BY <1>1, <1>6
<1> DEFINE height2 == [height EXCEPT ![c] = IF u.red[c] THEN height[c] + 1 ELSE height[c]]
<1>7. /\ height2 \in [All -> Nat]
      /\ height2[c] = IF u.red[c] THEN height[c] + 1 ELSE height[c]
      /\ \A n \in All \ {c} : height2[n] = height[n]
  BY <1>1, <1>4
<1> HIDE DEF height2
<1>8. height2[Nil] = 0
  BY <1>1, <1>4, <1>5, <1>7
<1>9. ASSUME NEW n \in M2, NEW d \in Sides
      PROVE  height2[n] = height2[v.ch[d][n]] + Weight(v.red[n])
  <2>1. height2[v.ch[d][n]] = height[u.ch[d][n]] /\ height[u.ch[d][n]] \in Nat
    BY <1>1, <1>4, <1>6, <1>7, <1>8
  <2>2. height[n] = height[u.ch[d][n]] + Weight(u.red[n])
    BY <1>4
  <2>3. CASE n = c
    <3>1. n \in All /\ ~ v.red[n]
      BY <1>1, <1>2, <2>3
    <3>2. Weight(v.red[n]) = 1
      BY <3>1 DEF Weight
    <3>3. Weight(u.red[n]) = IF u.red[c] THEN 0 ELSE 1
      BY <2>3 DEF Weight
    <3>4. height2[n] = IF u.red[c] THEN height[n] + 1 ELSE height[n]
      BY <1>7, <2>3
    <3>5. height[n] = height[u.ch[d][n]] + IF u.red[c] THEN 0 ELSE 1
      BY <2>2, <3>3
    <3>6. height2[n] = height[u.ch[d][n]] + 1
      BY <2>1, <3>4, <3>5
    <3> QED BY <2>1, <3>2, <3>6
  <2>4. CASE n # c
    <3>1. Weight(v.red[n]) = Weight(u.red[n]) /\ height2[n] = height[n]
      BY <1>1, <1>2, <1>7, <2>4 DEF Weight
    <3> QED BY <2>1, <2>2, <3>1
  <2> QED BY <2>3, <2>4
<1>10. Heights(v.ch, v.red, M2, {}, height2)
  <2>1. Level(v.ch, v.red, M2, height2)
    BY <1>7, <1>8, <1>9 DEF Level
  <2>2. \A n \in M2 : \A d \in Sides : v.ch[d][n] \in All
    BY <1>1
  <2> QED BY <1>1, <2>1, <2>2, NoLack
<1>11. Rosy(v.ch, v.red, M2, {}) /\ ~ v.red[v.root]
  BY <1>1, <1>2, <1>5 DEF Rosy
<1> QED BY <1>10, <1>11 DEF Calm

(* Another node m goes, and its one child c takes its place.                 *)
Gone(u, M, m, c, v, height) ==
    IF u.red[m] THEN Calm(v, M \ {m}, height) ELSE Lowered(v, M \ {m}, c, height)

(* A red node that goes breaks nothing; after a black one its child is short *)
(* of a black node.                                                          *)
LEMMA PrunedHues ==
  ASSUME NEW u \in Trees, NEW M, NEW R, NEW sub,
         Strict(R), Shape(u.root, u.ch, u.p, M, R, sub), NEW height, Calm(u, M, height),
         NEW m \in M, m # u.root, NEW s \in Sides, u.ch[Other(s)][m] = Nil,
         NEW c, c = u.ch[s][m],
         NEW v \in Trees, v.root = u.root, v.red = u.red, v.p[c] = u.p[m],
         \A n \in M \ {m} : \A d \in Sides :
            v.ch[d][n] = IF u.ch[d][n] = m THEN c ELSE u.ch[d][n],
         Linked(v, M \ {m})
  PROVE  Gone(u, M, m, c, v, height)
<1> DEFINE M2 == M \ {m}
           q == u.p[m]
           d == SideOf(u, m)
<1>0. Linked(u, M)
  BY LinkedFacts
<1>1. M \subseteq All /\ Nil \in All /\ Nil \notin M /\ c \in M \union {Nil} /\ c \in All /\ m # Nil
      /\ u.root \in M2 /\ c # u.root
      /\ \A n \in M : \A e \in Sides : u.ch[e][n] \in All /\
            (u.ch[e][n] # Nil => u.p[u.ch[e][n]] = n /\ u.ch[e][n] # u.root)
  BY <1>0 DEF Linked
<1>2. Hangs(u.ch, M, m, d, q)
  BY SideOfFacts
<1> HIDE DEF d, q
<1>3. /\ d \in Sides /\ q \in M /\ u.ch[d][q] = m
      /\ \A k \in M : \A e \in Sides : u.ch[e][k] = m <=> k = q /\ e = d
  BY <1>2 DEF Hangs
<1>4. q # m /\ q \in M2 /\ v.p[c] = q
  <2>1. u.ch[d][q] # Nil
    BY <1>1, <1>3
  <2> QED BY <1>3, <2>1, ChildFacts DEF q
<1>5. c # m
  BY <1>1, ChildFacts
<1>6. Level(u.ch, u.red, M, height)
  BY <1>0, LevelFacts DEF Calm
<1>7. /\ height \in [All -> Nat] /\ height[Nil] = 0
      /\ \A n \in M : \A e \in Sides : height[n] = height[u.ch[e][n]] + Weight(u.red[n])
  BY <1>6 DEF Level
<1>8. ~ u.red[Nil] /\ \A n \in M : \A e \in Sides : ~ (u.red[n] /\ u.red[u.ch[e][n]])
  BY DEF Calm, Rosy
<1>9. ~ v.red[v.root]
  BY DEF Calm
<1>10. height[m] = height[c] + Weight(u.red[m]) /\ height[c] \in Nat
  BY <1>1, <1>7
<1>11. CASE u.red[m]
  <2>1. height[m] = height[c] + 0
    BY <1>10, <1>11 DEF Weight
  <2>2. ASSUME NEW n \in M2, NEW e \in Sides
        PROVE  height[n] = height[v.ch[e][n]] + Weight(v.red[n])
    <3>1. height[v.ch[e][n]] = height[u.ch[e][n]]
      BY <1>10, <2>1
    <3> QED BY <1>7, <3>1
  <2>3. Heights(v.ch, v.red, M2, {}, height)
    <3>1. Level(v.ch, v.red, M2, height)
      BY <1>7, <2>2 DEF Level
    <3> QED BY <3>1, LevelFacts
  <2>4. ~ u.red[c]
    BY <1>8, <1>11
  <2>5. Rosy(v.ch, v.red, M2, {})
    BY <1>8, <2>4 DEF Rosy
  <2>6. Calm(v, M2, height)
    BY <1>9, <2>3, <2>5 DEF Calm
  <2> QED BY <1>11, <2>6 DEF Gone
<1>12. CASE ~ u.red[m]
  <2>1. height[m] = height[c] + 1
    BY <1>10, <1>12 DEF Weight
  <2>2. /\ v.ch[d][q] = c
        /\ \A n \in M2 : \A e \in Sides : ~ (n = q /\ e = d) => v.ch[e][n] = u.ch[e][n]
    BY <1>3, <1>4
  <2>3. Other(d) \in Sides /\ Other(d) # d
    BY <1>3, SideCases
  <2>4. v.ch[Other(d)][q] # c
    <3>1. v.ch[Other(d)][q] = u.ch[Other(d)][q]
      BY <1>4, <2>2, <2>3
    <3>2. CASE c # Nil
      <4>1. u.p[c] = m
        BY <1>1, <3>2
      <4> QED BY <1>1, <1>3, <1>4, <2>3, <3>1, <3>2, <4>1
    <3>3. CASE c = Nil
      <4>1. height[m] = 1 /\ height[q] = height[m] + Weight(u.red[q])
        BY <1>3, <1>7, <2>1, <3>3
      <4>2. height[q] = height[u.ch[Other(d)][q]] + Weight(u.red[q])
        BY <1>3, <1>7, <2>3
      <4>3. u.ch[Other(d)][q] = Nil => height[u.ch[Other(d)][q]] = 0
        BY <1>7
      <4>4. Weight(u.red[q]) \in {0, 1}
        BY DEF Weight
      <4> QED BY <3>1, <3>3, <4>1, <4>2, <4>3, <4>4
    <3> QED BY <3>2, <3>3
  <2>5. SideOf(v, c) = d
    BY <1>3, <1>4, <2>2, <2>4, SideIs
  <2>6. Deep(v.ch, v.red, M2, c, q, d, height)
    <3>1. height[q] = height[c] + 1 + Weight(v.red[q])
      <4>1. height[q] = height[m] + Weight(u.red[q])
        BY <1>3, <1>7
      <4> QED BY <2>1, <4>1
    <3>2. ASSUME NEW n \in M2, NEW e \in Sides, ~ (n = q /\ e = d)
          PROVE  height[n] = height[v.ch[e][n]] + Weight(v.red[n])
      BY <1>7, <2>2, <3>2
    <3> QED BY <1>7, <3>1, <3>2 DEF Deep
  <2>7. \A n \in M2 : \A e \in Sides :
            v.red[n] /\ v.red[v.ch[e][n]] => (n = q /\ e = d) \/ n = c
    BY <1>8, <2>2
  <2>8. c \in M2 \union {Nil} /\ v.root \in M2 /\ c # v.root
    BY <1>1, <1>5
  <2>9. Lowered(v, M2, c, height)
    BY <1>3, <1>4, <1>8, <1>9, <2>2, <2>5, <2>6, <2>7, <2>8, LoweredBy
  <2> QED BY <1>12, <2>9 DEF Gone
<1> QED BY <1>11, <1>12

(* The node m takes the place and the colour of n.                           *)
LEMMA ReplacedHeights ==
  ASSUME NEW u \in Trees, NEW M, Linked(u, M), NEW n \in M, NEW m \in Nodes \ M,
         NEW v, Replaced(u.root, u.ch, u.p, M, n, m, v.root, v.ch, v.p),
         v.red = [u.red EXCEPT ![m] = u.red[n]],
         NEW lack, NEW loose, NEW lack2, NEW loose2, NEW height,
         \A a \in M \ {n} : \A d \in Sides : /\ <<a, d>> \in lack2 <=> <<a, d>> \in lack
                                             /\ <<a, d>> \in loose2 <=> <<a, d>> \in loose,
         \A d \in Sides : /\ <<m, d>> \in lack2 <=> <<n, d>> \in lack
                          /\ <<m, d>> \in loose2 <=> <<n, d>> \in loose,
         Heights(u.ch, u.red, M, lack, height), Rosy(u.ch, u.red, M, loose)
  PROVE  /\ Heights(v.ch, v.red, (M \ {n}) \union {m}, lack2, [height EXCEPT ![m] = height[n]])
         /\ Rosy(v.ch, v.red, (M \ {n}) \union {m}, loose2)
<1> DEFINE M2 == (M \ {n}) \union {m}
           height2 == [height EXCEPT ![m] = height[n]]
<1>1. M \subseteq All /\ Nil \in All /\ Nil \notin M /\ m \in All /\ m # Nil /\ m \notin M
      /\ \A a \in M : \A d \in Sides : u.ch[d][a] \in M \union {Nil} /\ u.ch[d][a] \in All
  BY NodesAssumption DEF Linked, All
<1>2. /\ height \in [All -> Nat] /\ height[Nil] = 0
      /\ \A a \in M : \A d \in Sides :
            height[a] = height[u.ch[d][a]] + Weight(<<a, d>> \notin lack) + Weight(u.red[a])
  BY DEF Heights
<1>3. /\ height2 \in [All -> Nat] /\ height2[m] = height[n] /\ height2[Nil] = 0
      /\ \A a \in All \ {m} : height2[a] = height[a]
  BY <1>1, <1>2
<1> HIDE DEF height2
<1>4. (v.red[m] <=> u.red[n]) /\ \A a \in All \ {m} : v.red[a] <=> u.red[a]
  BY <1>1 DEF Trees
<1>5. /\ \A d \in Sides : v.ch[d][m] = u.ch[d][n]
      /\ \A a \in M \ {n} : \A d \in Sides : v.ch[d][a] = IF u.ch[d][a] = n THEN m ELSE u.ch[d][a]
  BY DEF Replaced
<1>6. ASSUME NEW a \in M \ {n}, NEW d \in Sides
      PROVE  /\ height2[v.ch[d][a]] = height[u.ch[d][a]]
             /\ v.red[v.ch[d][a]] <=> u.red[u.ch[d][a]]
  BY <1>1, <1>3, <1>4, <1>5
<1>7. ASSUME NEW d \in Sides
      PROVE  /\ u.ch[d][n] # n => height2[v.ch[d][m]] = height[u.ch[d][n]]
             /\ height2[u.ch[d][n]] = height[u.ch[d][n]]
             /\ v.red[v.ch[d][m]] <=> u.red[u.ch[d][n]]
  BY <1>1, <1>3, <1>4, <1>5
<1>8. Heights(v.ch, v.red, M2, lack2, height2)
  <2>1. ASSUME NEW d \in Sides
        PROVE  height2[m] = height2[v.ch[d][m]] + Weight(<<m, d>> \notin lack2) + Weight(v.red[m])
    <3>1. height2[v.ch[d][m]] = height[u.ch[d][n]]
      BY <1>5, <1>7
    <3>2. Weight(<<m, d>> \notin lack2) = Weight(<<n, d>> \notin lack)
      BY DEF Weight
    <3>3. Weight(v.red[m]) = Weight(u.red[n])
      BY <1>4 DEF Weight
    <3> QED BY <1>2, <1>3, <3>1, <3>2, <3>3
  <2>2. ASSUME NEW a \in M \ {n}, NEW d \in Sides
        PROVE  height2[a] = height2[v.ch[d][a]] + Weight(<<a, d>> \notin lack2) + Weight(v.red[a])
    <3>2. Weight(<<a, d>> \notin lack2) = Weight(<<a, d>> \notin lack)
      BY DEF Weight
    <3>3. Weight(v.red[a]) = Weight(u.red[a]) /\ height2[a] = height[a]
      BY <1>1, <1>3, <1>4 DEF Weight
    <3> QED BY <1>2, <1>6, <3>2, <3>3
  <2> QED BY <1>3, <2>1, <2>2 DEF Heights
<1>9. Rosy(v.ch, v.red, M2, loose2)
  <2>1. ~ u.red[Nil] /\ \A a \in M : \A d \in Sides :
            u.red[a] /\ u.red[u.ch[d][a]] => <<a, d>> \in loose
    BY DEF Rosy
  <2>2. ASSUME NEW d \in Sides, v.red[m], v.red[v.ch[d][m]] PROVE <<m, d>> \in loose2
    BY <1>4, <1>7, <2>1, <2>2
  <2>3. ASSUME NEW a \in M \ {n}, NEW d \in Sides, v.red[a], v.red[v.ch[d][a]]
        PROVE  <<a, d>> \in loose2
    BY <1>1, <1>4, <1>6, <2>1, <2>3
  <2>4. ~ v.red[Nil]
    BY <1>1, <1>4, <2>1
  <2> QED BY <2>2, <2>3, <2>4 DEF Rosy
<1> QED BY <1>8, <1>9 DEF height2

(* A node with the colour of another may take its place.                     *)
LEMMA ReplacedCalm ==
  ASSUME NEW u \in Trees, NEW M, Linked(u, M), NEW n \in M, NEW m \in Nodes \ M,
         NEW v, Replaced(u.root, u.ch, u.p, M, n, m, v.root, v.ch, v.p),
         v.red = [u.red EXCEPT ![m] = u.red[n]], NEW height, Calm(u, M, height)
  PROVE  \E height2 : Calm(v, (M \ {n}) \union {m}, height2)
<1> DEFINE M2 == (M \ {n}) \union {m}
           height2 == [height EXCEPT ![m] = height[n]]
<1>1. Heights(u.ch, u.red, M, {}, height) /\ Rosy(u.ch, u.red, M, {})
  BY DEF Calm
<1>2. Heights(v.ch, v.red, M2, {}, height2) /\ Rosy(v.ch, v.red, M2, {})
  <2> DEFINE none == {}
  <2>1. /\ \A a \in M \ {n} : \A d \in Sides : /\ <<a, d>> \in none <=> <<a, d>> \in none
                                              /\ <<a, d>> \in none <=> <<a, d>> \in none
        /\ \A d \in Sides : /\ <<m, d>> \in none <=> <<n, d>> \in none
                            /\ <<m, d>> \in none <=> <<n, d>> \in none
    OBVIOUS
  <2>2. Heights(u.ch, u.red, M, none, height) /\ Rosy(u.ch, u.red, M, none)
    BY <1>1
  <2> HIDE DEF none
  <2>3. Heights(v.ch, v.red, M2, none, height2) /\ Rosy(v.ch, v.red, M2, none)
    BY <2>1, <2>2, ReplacedHeights
  <2>4. none = {}
    BY DEF none
  <2> HIDE DEF M2, height2
  <2> QED BY <2>3, <2>4
<1>3. ~ v.red[v.root]
  <2>1. u.root \in M /\ M \subseteq All /\ m \in All /\ m # u.root
    BY DEF Linked, All
  <2>2. (v.red[m] <=> u.red[n]) /\ \A a \in All \ {m} : v.red[a] <=> u.red[a]
    BY <2>1 DEF Trees
  <2>3. ~ u.red[u.root] /\ v.root = IF n = u.root THEN m ELSE u.root
    BY DEF Calm, Replaced
  <2> QED BY <2>1, <2>2, <2>3
<1> HIDE DEF height2
<1> QED BY <1>2, <1>3 DEF Calm

(* So it may where a black node is missing elsewhere.                        *)
LEMMA ReplacedLowered ==
  ASSUME NEW u \in Trees, NEW M, Linked(u, M), NEW n \in M, NEW m \in Nodes \ M,
         NEW v, Replaced(u.root, u.ch, u.p, M, n, m, v.root, v.ch, v.p),
         v.red = [u.red EXCEPT ![m] = u.red[n]],
         NEW c, c # n, c # u.root, v.p[c] = IF u.p[c] = n THEN m ELSE u.p[c],
         NEW height, Lowered(u, M, c, height)
  PROVE  \E height2 : Lowered(v, (M \ {n}) \union {m}, c, height2)
<1> DEFINE M2 == (M \ {n}) \union {m}
           height2 == [height EXCEPT ![m] = height[n]]
           q == u.p[c]
           d == SideOf(u, c)
           q2 == v.p[c]
<1>1. /\ c \in M \union {Nil} /\ q \in M /\ u.ch[d][q] = c /\ u.root \in M /\ ~ u.red[u.root]
      /\ Heights(u.ch, u.red, M, Gap(u, c), height)
      /\ Rosy(u.ch, u.red, M, Gap(u, c) \union ({c} \X Sides))
  BY DEF Lowered
<1>2. M \subseteq All /\ Nil \notin M /\ m \in All /\ m \notin M /\ m # Nil /\ c # m
      /\ \A a \in M : \A e \in Sides : u.ch[e][a] # m
  BY <1>1, NodesAssumption DEF Linked, All
<1>3. d \in Sides
  BY DEF SideOf, Sides
<1>4. /\ \A e \in Sides : v.ch[e][m] = u.ch[e][n]
      /\ \A a \in M \ {n} : \A e \in Sides : v.ch[e][a] = IF u.ch[e][a] = n THEN m ELSE u.ch[e][a]
  BY DEF Replaced
<1>5. q2 = (IF q = n THEN m ELSE q) /\ q2 \in M2
  BY <1>1
<1>6. \A e \in Sides : v.ch[e][q2] = c <=> u.ch[e][q] = c
  BY <1>1, <1>2, <1>4, <1>5
<1>7. SideOf(v, c) = d
  BY <1>6 DEF SideOf, Sides, d, q2, q
<1>8. v.root \in M2 /\ c # v.root
  BY <1>1, <1>2 DEF Replaced
<1>9. Gap(u, c) = {<<q, d>>} /\ Gap(v, c) = {<<q2, d>>}
  BY <1>7, <1>8 DEF Gap
<1> HIDE DEF q, d, q2
<1>10. \A a \in M \ {n} : \A e \in Sides :
          /\ <<a, e>> \in {<<q2, d>>} <=> <<a, e>> \in {<<q, d>>}
          /\ <<a, e>> \in {<<q2, d>>} \union ({c} \X Sides)
                <=> <<a, e>> \in {<<q, d>>} \union ({c} \X Sides)
  BY <1>2, <1>5
<1>11. \A e \in Sides :
          /\ <<m, e>> \in {<<q2, d>>} <=> <<n, e>> \in {<<q, d>>}
          /\ <<m, e>> \in {<<q2, d>>} \union ({c} \X Sides)
                <=> <<n, e>> \in {<<q, d>>} \union ({c} \X Sides)
  BY <1>1, <1>2, <1>5
<1>12. /\ Heights(u.ch, u.red, M, {<<q, d>>}, height)
       /\ Rosy(u.ch, u.red, M, {<<q, d>>} \union ({c} \X Sides))
  BY <1>1, <1>9
<1>13. /\ Heights(v.ch, v.red, M2, {<<q2, d>>}, height2)
       /\ Rosy(v.ch, v.red, M2, {<<q2, d>>} \union ({c} \X Sides))
  <2> DEFINE lack == {<<q, d>>}
             lack2 == {<<q2, d>>}
             loose == {<<q, d>>} \union ({c} \X Sides)
             loose2 == {<<q2, d>>} \union ({c} \X Sides)
  <2>1. \A a \in M \ {n} : \A e \in Sides : /\ <<a, e>> \in lack2 <=> <<a, e>> \in lack
                                            /\ <<a, e>> \in loose2 <=> <<a, e>> \in loose
    BY <1>10
  <2>2. \A e \in Sides : /\ <<m, e>> \in lack2 <=> <<n, e>> \in lack
                         /\ <<m, e>> \in loose2 <=> <<n, e>> \in loose
    BY <1>11
  <2>3. Heights(u.ch, u.red, M, lack, height) /\ Rosy(u.ch, u.red, M, loose)
    BY <1>12
  <2> HIDE DEF lack, lack2, loose, loose2
  <2>4. Heights(v.ch, v.red, M2, lack2, height2) /\ Rosy(v.ch, v.red, M2, loose2)
    BY <2>1, <2>2, <2>3, ReplacedHeights
  <2> QED BY <2>4 DEF lack2, loose2
<1>14. ~ v.red[v.root]
  <2>1. (v.red[m] <=> u.red[n]) /\ \A a \in All \ {m} : v.red[a] <=> u.red[a]
    BY <1>2 DEF Trees
  <2>2. v.root = IF n = u.root THEN m ELSE u.root
    BY DEF Replaced
  <2> QED BY <1>1, <1>2, <2>1, <2>2
<1>15. v.ch[SideOf(v, c)][v.p[c]] = c /\ v.p[c] \in M2 /\ c \in M2 \union {Nil}
  BY <1>1, <1>3, <1>5, <1>6, <1>7 DEF q2, q
<1> HIDE DEF height2
<1>16. Lowered(v, M2, c, height2)
  BY <1>8, <1>9, <1>13, <1>14, <1>15 DEF Lowered, q2, d
<1> QED BY <1>16

-------------------------------------------------------------------------------
(* The fields after a node was taken out.                                    *)

(* What is a tree in one order is one in another that agrees with it on the  *)
(* nodes.                                                                    *)
LEMMA AgreeShape ==
  ASSUME NEW root, NEW ch, NEW p, NEW M, NEW R, NEW sub, NEW R2,
         Shape(root, ch, p, M, R, sub), Agree(R, R2, M)
  PROVE  Shape(root, ch, p, M, R2, sub)
<1>1. /\ \A n \in M : \A s \in Sides : ch[s][n] \in M \union {Nil}
      /\ sub \in [All -> SUBSET M] /\ M \subseteq All /\ Nil \in All
  BY DEF Shape, Links, Spans, All
<1>2. ASSUME NEW n \in M, NEW s \in Sides, NEW k \in sub[ch[s][n]] PROVE Prec(R2, s, k, n)
  <2>1. k \in M /\ Prec(R, s, k, n)
    BY <1>1 DEF Shape, Sorted
  <2> QED BY <2>1, AgreePrec
<1> QED BY <1>2 DEF Shape, Sorted

Cleared(u, n, v) ==
    /\ v \in Trees /\ v.root = u.root /\ v.red = u.red
    /\ \A k \in All \ {n} : /\ v.p[k] = u.p[k] /\ v.key[k] = u.key[k]
                            /\ \A d \in Sides : v.ch[d][k] = u.ch[d][k]

(* What Clear does: the node is not in the tree, so the tree does not        *)
(* change.                                                                   *)
LEMMA ClearFields ==
  ASSUME NEW u \in Trees, NEW n \in All
  PROVE  Cleared(u, n, Clear(u, n))
<1> DEFINE v1 == [u EXCEPT !.ch["l"][n] = Null]
           v2 == [v1 EXCEPT !.ch["r"][n] = Null]
           v3 == [v2 EXCEPT !.p[n] = Null]
           v == [v3 EXCEPT !.key[n] = 0]
<1>1. Clear(u, n) = v
  BY DEF Clear
<1>2. /\ v1 \in Trees /\ v1.root = u.root /\ v1.red = u.red /\ v1.p = u.p /\ v1.key = u.key
      /\ \A m \in All \ {n} : \A d \in Sides : v1.ch[d][m] = u.ch[d][m]
  BY DEF Trees, Sides
<1> HIDE DEF v1
<1>3. /\ v2 \in Trees /\ v2.root = u.root /\ v2.red = u.red /\ v2.p = u.p /\ v2.key = u.key
      /\ \A m \in All \ {n} : \A d \in Sides : v2.ch[d][m] = v1.ch[d][m]
  BY <1>2 DEF Trees, Sides
<1> HIDE DEF v2
<1>4. /\ v3 \in Trees /\ v3.root = u.root /\ v3.red = u.red /\ v3.ch = v2.ch /\ v3.key = u.key
      /\ \A m \in All \ {n} : v3.p[m] = u.p[m]
  BY <1>3 DEF Trees
<1> HIDE DEF v3
<1>5. /\ v \in Trees /\ v.root = u.root /\ v.red = u.red /\ v.ch = v2.ch /\ v.p = v3.p
      /\ \A m \in All \ {n} : v.key[m] = u.key[m]
  BY <1>4 DEF Trees
<1> HIDE DEF v
<1>6. Cleared(u, n, v)
  BY <1>2, <1>3, <1>4, <1>5 DEF Cleared
<1> QED BY <1>1, <1>6

(* The tree v is u without m, whose place c takes.                           *)
Taken(u, M, m, c, v) ==
    /\ v \in Trees /\ v.root = u.root /\ v.red = u.red /\ v.key = u.key
    /\ v.p = [u.p EXCEPT ![c] = u.p[m]]
    /\ \A a \in M \ {m} : \A d \in Sides : v.ch[d][a] = IF u.ch[d][a] = m THEN c ELSE u.ch[d][a]

(* What taking out a node does, when its child hangs in its place.           *)
LEMMA TakenFields ==
  ASSUME NEW u \in Trees, NEW M, NEW R, NEW sub,
         Strict(R), Shape(u.root, u.ch, u.p, M, R, sub), NEW m \in M, m # u.root, NEW c \in All
  PROVE  Taken(u, M, m, c, [Hang(u, m, c) EXCEPT !.p[c] = u.p[m]])
<1> DEFINE h == Hang(u, m, c)
<1>1. Hung(u, M, m, c, h)
  BY HangFields
<1> HIDE DEF h
<1>2. m \in All /\ u.p[m] \in All \union {Null}
  BY DEF Shape, Links, All, Trees
<1>3. [h EXCEPT !.p[c] = u.p[m]] \in Trees
  BY <1>1, <1>2 DEF Hung, Trees
<1> QED BY <1>1, <1>2, <1>3 DEF Hung, Taken, Trees, h

(* It is what PrunedShape is about.                                          *)
LEMMA TakenPruned ==
  ASSUME NEW u \in Trees, NEW M, NEW R, NEW sub,
         Strict(R), Shape(u.root, u.ch, u.p, M, R, sub), NEW m \in M, m # u.root,
         NEW c \in All, NEW v, Taken(u, M, m, c, v)
  PROVE  Pruned(u.root, u.ch, u.p, M, m, c, v.root, v.ch, v.p) /\ v.p[c] = u.p[m]
<1>1. M \subseteq All /\ u.p \in [All -> All \union {Null}]
  BY DEF Shape, Links, All, Trees
<1> QED BY <1>1 DEF Taken, Pruned

(* The tree v is u, from which m was taken out already, with m in the place  *)
(* of n; c, which took the place of m, may be the sentinel.                  *)
Swapped(u, M, n, m, c, v) ==
    /\ v \in Trees /\ v.red = [u.red EXCEPT ![m] = u.red[n]]
    /\ \A k \in All \ {n} : v.key[k] = u.key[k]
    /\ Replaced(u.root, u.ch, u.p, M, n, m, v.root, v.ch, v.p)
    /\ v.p[c] = IF u.p[c] = n THEN m ELSE u.p[c]

(* What Replace and Clear do when m takes the place of n, and the child of m *)
(* its parent.                                                               *)
LEMMA SwappedFields ==
  ASSUME NEW u \in Trees, NEW M, NEW R, NEW sub,
         Strict(R), Shape(u.root, u.ch, u.p, M, R, sub), NEW n \in M, NEW m \in Nodes \ M,
         NEW c \in All, c # n, c # m, c # Nil => c \in M, c # u.root,
         NEW w, w = [u EXCEPT !.p[c] = IF u.p[c] = n THEN m ELSE u.p[c]]
  PROVE  Swapped(u, M, n, m, c, Clear(Replace(w, n, m), n))
<1> DEFINE l == w.ch["l"][n]
           r == w.ch["r"][n]
           h == Hang(w, n, m)
           back(q) == [k \in All |-> CASE k = m -> w.p[n]
                                       [] k \in {l, r} \ {Nil} -> m
                                       [] OTHER -> q[k]]
           y == [h EXCEPT !.ch["l"][m] = l, !.ch["r"][m] = r, !.red[m] = w.red[n], !.p = back(@)]
           v == Clear(y, n)
<1>1. M \subseteq All /\ n \in All /\ m \in All /\ n # m /\ Nil \in All /\ n # Nil /\ m # Nil
      /\ \A a \in M : a # Nil /\ a # m
  BY NodesAssumption DEF Shape, Links, All
<1>2. \A a \in M : \A d \in Sides : u.ch[d][a] \in M \union {Nil} /\ u.ch[d][a] # m
  BY <1>1 DEF Shape, Links
<1>3. /\ w \in Trees /\ w.root = u.root /\ w.ch = u.ch /\ w.red = u.red /\ w.key = u.key
      /\ w.p \in [All -> All \union {Null}]
      /\ w.p[c] = IF u.p[c] = n THEN m ELSE u.p[c]
      /\ \A k \in All : k # c => w.p[k] = u.p[k]
  <2>1. u.p \in [All -> All \union {Null}]
    BY DEF Trees
  <2>2. w \in Trees
    BY <1>1, <2>1 DEF Trees
  <2> QED BY <2>1, <2>2 DEF Trees
<1>4. w.p[n] = u.p[n] /\ SideOf(w, n) = SideOf(u, n)
  BY <1>1, <1>3 DEF SideOf
<1>5. Hung(w, M, n, m, h)
  <2>1. CASE n = u.root
    <3>1. \A a \in M : \A d \in Sides : w.ch[d][a] # n
      BY <1>1, <1>3, <2>1, ChildFacts
    <3> QED BY <1>1, <1>3, <2>1, <3>1, HangBy
  <2>2. CASE n # u.root
    <3>1. Hangs(w.ch, M, n, SideOf(w, n), w.p[n])
      BY <1>3, <1>4, <2>2, SideOfFacts
    <3> QED BY <1>1, <1>3, <2>2, <3>1, HangBy
  <2> QED BY <2>1, <2>2
<1>6. Replace(w, n, m) = y
  BY DEF Replace
<1>7. l = u.ch["l"][n] /\ r = u.ch["r"][n] /\ l \in M \union {Nil} /\ r \in M \union {Nil}
      /\ l # n /\ r # n
  <2>1. l = u.ch["l"][n] /\ r = u.ch["r"][n]
    BY <1>3
  <2>2. l \in M \union {Nil} /\ r \in M \union {Nil}
    BY <1>2, <2>1 DEF Sides
  <2>3. ASSUME NEW d \in Sides PROVE u.ch[d][n] # n
    <3>1. CASE u.ch[d][n] = Nil
      BY <1>1, <3>1
    <3>2. CASE u.ch[d][n] # Nil
      BY <3>2, ChildFacts
    <3> QED BY <3>1, <3>2
  <2> QED BY <2>1, <2>2, <2>3 DEF Sides
<1> HIDE DEF l, r, h
<1>8. /\ h \in Trees /\ h.p = w.p /\ h.red = u.red /\ h.key = u.key
      /\ h.root = IF n = u.root THEN m ELSE u.root
      /\ \A a \in M : \A d \in Sides : h.ch[d][a] = IF u.ch[d][a] = n THEN m ELSE u.ch[d][a]
  BY <1>3, <1>5 DEF Hung
<1> DEFINE q == back(h.p)
<1>9. q \in [All -> All \union {Null}]
  BY <1>1, <1>3, <1>8
<1>10. \A k \in All : q[k] = IF k = m THEN u.p[n]
                             ELSE IF k \in {l, r} /\ k # Nil THEN m ELSE w.p[k]
  <2> SUFFICES ASSUME NEW k \in All
               PROVE  q[k] = IF k = m THEN u.p[n]
                             ELSE IF k \in {l, r} /\ k # Nil THEN m ELSE w.p[k]
    OBVIOUS
  <2>1. q[k] = CASE k = m -> u.p[n]
                 [] k \in {l, r} \ {Nil} -> m
                 [] OTHER -> w.p[k]
    BY <1>4, <1>8
  <2>2. CASE k = m
    BY <1>1, <1>7, <2>1, <2>2
  <2>3. CASE k # m
    BY <2>1, <2>3
  <2> QED BY <2>2, <2>3
<1>11. y = [h EXCEPT !.ch["l"][m] = l, !.ch["r"][m] = r, !.red[m] = u.red[n], !.p = q]
  BY <1>3
<1> HIDE DEF q, y, v, back
<1>12. /\ y \in Trees /\ y.root = h.root /\ y.key = u.key /\ y.p = q
       /\ y.red = [u.red EXCEPT ![m] = u.red[n]]
       /\ y.ch = [h.ch EXCEPT !["l"][m] = l, !["r"][m] = r]
  <2>1. l \in All /\ r \in All /\ u.red[n] \in BOOLEAN
    BY <1>1, <1>7 DEF Trees
  <2>2. y \in Trees
    BY <1>1, <1>8, <1>9, <1>11, <2>1 DEF Trees, Sides
  <2> QED BY <1>8, <1>11, <2>2 DEF Trees
<1>13. /\ \A d \in Sides : y.ch[d][m] = u.ch[d][n]
       /\ \A a \in M : \A d \in Sides : y.ch[d][a] = IF u.ch[d][a] = n THEN m ELSE u.ch[d][a]
  <2>1. h.ch \in [Sides -> [All -> All \union {Null}]]
    BY <1>8 DEF Trees
  <2>2. y.ch["l"][m] = l /\ y.ch["r"][m] = r
    BY <1>1, <1>12, <2>1 DEF Sides
  <2>3. \A a \in M : \A d \in Sides : y.ch[d][a] = h.ch[d][a]
    BY <1>1, <1>12, <2>1 DEF Sides
  <2> QED BY <1>7, <1>8, <2>2, <2>3 DEF Sides
<1>14. /\ v \in Trees /\ v.root = y.root /\ v.red = y.red
       /\ \A k \in All \ {n} : /\ v.p[k] = y.p[k] /\ v.key[k] = y.key[k]
                               /\ \A d \in Sides : v.ch[d][k] = y.ch[d][k]
  <2>1. Cleared(y, n, v)
    BY <1>1, <1>12, ClearFields DEF v
  <2> QED BY <2>1 DEF Cleared
<1>15. \A d \in Sides : v.ch[d][m] = u.ch[d][n]
  BY <1>1, <1>13, <1>14
<1>16. \A a \in M \ {n} : \A d \in Sides : v.ch[d][a] = IF u.ch[d][a] = n THEN m ELSE u.ch[d][a]
  BY <1>1, <1>13, <1>14
<1>17. v.p[m] = u.p[n]
  BY <1>1, <1>10, <1>12, <1>14
<1>18. ASSUME NEW a \in M \ {n}, a # u.root
       PROVE  v.p[a] = IF u.p[a] = n THEN m ELSE u.p[a]
  <2>1. v.p[a] = IF a \in {l, r} THEN m ELSE w.p[a]
    <3>1. a \in All /\ a # m /\ a # n /\ a # Nil
      BY <1>1
    <3>2. v.p[a] = q[a]
      BY <1>12, <1>14, <3>1
    <3> QED BY <1>10, <3>1, <3>2
  <2>2. CASE a \in {l, r}
    <3>1. u.p[a] = n
      BY <1>1, <1>7, <2>2 DEF Shape, Links, Sides
    <3> QED BY <2>1, <2>2, <3>1
  <2>3. CASE a \notin {l, r}
    <3>1. u.p[a] # n
      BY <1>7, <1>18, <2>3 DEF Shape, Links, Sides
    <3> QED BY <1>1, <1>3, <2>1, <2>3, <3>1
  <2> QED BY <2>2, <2>3
<1>19. v.p[c] = IF u.p[c] = n THEN m ELSE u.p[c]
  <2>1. CASE c = Nil
    BY <1>1, <1>3, <1>10, <1>12, <1>14, <2>1
  <2>2. CASE c # Nil
    BY <1>18, <2>2
  <2> QED BY <2>1, <2>2
<1>20. Replaced(u.root, u.ch, u.p, M, n, m, v.root, v.ch, v.p)
  BY <1>8, <1>12, <1>14, <1>15, <1>16, <1>17, <1>18 DEF Replaced
<1>21. Swapped(u, M, n, m, c, v)
  BY <1>12, <1>14, <1>19, <1>20 DEF Swapped
<1> QED BY <1>6, <1>21 DEF v

-------------------------------------------------------------------------------
(* The inductive invariant: M are the nodes in the tree, R is their order in *)
(* the list.                                                                 *)

(* The first of S, and one with whom all that may come before it is below.   *)
FirstOf(R, S, t) == t \in S /\ \A k \in S \ {t} : <<t, k>> \in R
Foremost(R, S, sub, t) == t \in S /\ \A k \in S \ sub[t] : <<t, k>> \in R

(* The new node x belongs below t.                                           *)
Placing(x, t, u, M, sub) ==
    /\ x \in Nodes \ M /\ t \in M /\ u.key[x] = KeyOf[x]
    /\ \A n \in M : \A s \in Sides : t \in sub[u.ch[s][n]] => s = SideFor(u, x, n)

(* On the way from x to the first node on its right.                         *)
Choosing(x, t, u, M, R, sub) ==
    /\ x \in M /\ \A s \in Sides : u.ch[s][x] # Nil
    /\ Foremost(R, sub[u.ch["r"][x]], sub, t)

(* The node to unlink for x is x, or the first one on its right.             *)
Leaving(x, t, u, M, R, sub) ==
    /\ x \in M
    /\ t = x => \E s \in Sides : u.ch[s][x] = Nil
    /\ t # x => /\ u.ch["l"][t] = Nil /\ FirstOf(R, sub[u.ch["r"][x]], t)
                /\ \A s \in Sides : u.ch[s][x] # Nil

(* Whoever has the key x is below t.                                         *)
Seeking(x, t, M, sub) ==
    t \in M \union {Nil} /\ \A n \in M : KeyOf[n] = x => n \in sub[t]

Found(x, t, M) ==
    IF \E n \in M : KeyOf[n] = x THEN t \in M /\ KeyOf[t] = x ELSE t = Nil

Stands(a, x, t, u, M, R, sub) ==
    /\ a = "place" => Placing(x, t, u, M, sub)
    /\ a = "subst" => Choosing(x, t, u, M, R, sub)
    /\ a = "unlink" => Leaving(x, t, u, M, R, sub)
    /\ a = "get" => Seeking(x, t, M, sub)
    /\ a = "found" => Found(x, t, M)
    /\ a = "min" => Foremost(R, M, sub, t)
    /\ a = "least" => FirstOf(R, M, t)

Hued(a, t, u, M, height) ==
    /\ a = "raise" => Raised(u, M, t, height)
    /\ a = "lower" => Lowered(u, M, t, height)
    /\ a \notin {"raise", "lower"} => Calm(u, M, height)

Sound(a, x, t, u, q) ==
    /\ u \in Trees /\ SortedList(q) /\ \A n \in Elems(q) : u.key[n] = KeyOf[n]
    /\ \E sub : /\ Shape(u.root, u.ch, u.p, Elems(q), Ranks(q), sub)
                /\ Stands(a, x, t, u, Elems(q), Ranks(q), sub)
    /\ \E height : Hued(a, t, u, Elems(q), height)

TreeIInv == Sound(at, arg, temp, tree, list) /\ (at = "get" => arg \in Nat)

-------------------------------------------------------------------------------
(* The walks down the tree: what a node stands for passes to its child.      *)

(* One step down keeps the place of a new node among those below.            *)
LEMMA DescendStands ==
  ASSUME NEW u, NEW M, NEW R, NEW sub, Strict(R), Shape(u.root, u.ch, u.p, M, R, sub),
         NEW x, NEW t, Placing(x, t, u, M, sub),
         NEW w, w = u.ch[SideFor(u, x, t)][t], w # Nil
  PROVE  Placing(x, w, u, M, sub)
<1> DEFINE s == SideFor(u, x, t)
<1>1. s \in Sides
  BY DEF SideFor, Sides
<1> HIDE DEF s
<1>2. t \in M /\ w = u.ch[s][t]
  BY DEF Placing, s
<1>3. w \in M /\ u.p[w] = t /\ M \subseteq Nodes /\ Nil \notin M
  BY <1>1, <1>2, ChildFacts, NodesAssumption DEF Shape, Links
<1>4. ASSUME NEW n \in M, NEW d \in Sides, w \in sub[u.ch[d][n]] PROVE d = SideFor(u, x, n)
  <2>1. u.ch[d][n] \in M
    <3>1. u.ch[d][n] \in M \union {Nil} /\ sub[Nil] = {}
      BY DEF Shape, Links, Spans
    <3> QED BY <1>4, <3>1
  <2>2. CASE u.ch[d][n] = w
    <3>1. n = t /\ d = s
      BY <1>1, <1>2, <2>2, OneParent
    <3> QED BY <3>1 DEF s
  <2>3. CASE u.ch[d][n] # w
    <3>1. t \in sub[u.ch[d][n]]
      BY <1>3, <1>4, <2>1, <2>3, AboveParent
    <3> QED BY <3>1 DEF Placing
  <2> QED BY <2>2, <2>3
<1> QED BY <1>3, <1>4 DEF Placing

(* A step to the left keeps the first node among those below.                *)
LEMMA WalkLeftForemost ==
  ASSUME NEW u, NEW M, NEW R, NEW sub, Strict(R), Shape(u.root, u.ch, u.p, M, R, sub),
         NEW n \in M, NEW t, Foremost(R, sub[n], sub, t), u.ch["l"][t] # Nil
  PROVE  Foremost(R, sub[n], sub, u.ch["l"][t])
<1> DEFINE w == u.ch["l"][t]
<1>1. sub \in [All -> SUBSET M] /\ M \subseteq Nodes /\ M \subseteq All /\ "l" \in Sides
  BY DEF Shape, Links, Spans, All, Sides
<1>2. t \in M /\ t \in sub[n]
  BY <1>1 DEF Foremost
<1>3. w \in M /\ w \in sub[w] /\ <<w, t>> \in R
  <2>1. w \in M /\ w \in sub[w]
    BY <1>1, <1>2, ChildFacts
  <2> QED BY <1>1, <1>2, <2>1 DEF Shape, Sorted, Prec
<1>4. w \in sub[t]
  BY <1>1, <1>2, <1>3 DEF Shape, Spans
<1>5. w \in sub[n]
  BY <1>2, <1>4, Nested
<1>6. ASSUME NEW k \in sub[n] \ sub[w] PROVE <<w, k>> \in R
  <2>1. k \in M
    BY <1>1
  <2>2. CASE k = t
    BY <1>3, <2>2
  <2>3. CASE k # t
    <3>1. <<t, k>> \in R
      <4>1. CASE k \notin sub[t]
        BY <4>1 DEF Foremost
      <4>2. CASE k \in sub[t]
        <5>1. k \in sub[u.ch["r"][t]]
          BY <1>2, <1>6, <2>1, <2>3, <4>2 DEF Shape, Spans, Sides
        <5> QED BY <1>2, <5>1 DEF Shape, Sorted, Prec, Sides
      <4> QED BY <4>1, <4>2
    <3> QED BY <1>1, <1>2, <1>3, <2>1, <3>1 DEF Strict
  <2> QED BY <2>2, <2>3
<1> QED BY <1>5, <1>6 DEF Foremost

(* A node without a left child is the first of those below it.               *)
LEMMA EndWalkFirst ==
  ASSUME NEW u, NEW M, NEW R, NEW sub, Strict(R), Shape(u.root, u.ch, u.p, M, R, sub),
         NEW n \in M, NEW t, Foremost(R, sub[n], sub, t), u.ch["l"][t] = Nil
  PROVE  FirstOf(R, sub[n], t)
<1>1. sub \in [All -> SUBSET M] /\ M \subseteq All /\ sub[Nil] = {}
  BY DEF Shape, Links, Spans, All
<1>2. t \in M /\ t \in sub[n]
  BY <1>1 DEF Foremost
<1>3. ASSUME NEW k \in sub[n] \ {t} PROVE <<t, k>> \in R
  <2>1. CASE k \notin sub[t]
    BY <2>1 DEF Foremost
  <2>2. CASE k \in sub[t]
    <3>1. k \in M
      BY <1>1
    <3>2. k \in sub[u.ch["r"][t]]
      BY <1>1, <1>2, <2>2, <3>1 DEF Shape, Spans, Sides
    <3> QED BY <1>2, <3>2 DEF Shape, Sorted, Prec, Sides
  <2> QED BY <2>1, <2>2
<1> QED BY <1>2, <1>3 DEF FirstOf

(* A step of the search keeps every node with the key among those below.     *)
LEMMA SeekStands ==
  ASSUME NEW u, NEW M, NEW R, NEW sub, Strict(R), Shape(u.root, u.ch, u.p, M, R, sub),
         \A m, n : <<m, n>> \in R => KeyOf[m] <= KeyOf[n],
         \A n \in M : u.key[n] = KeyOf[n],
         NEW x \in Nat, NEW t, Seeking(x, t, M, sub), t # Nil, u.key[t] # x
  PROVE  Seeking(x, u.ch[IF u.key[t] > x THEN "l" ELSE "r"][t], M, sub)
<1> DEFINE d == IF u.key[t] > x THEN "l" ELSE "r"
<1>1. t \in M /\ u.key[t] = KeyOf[t] /\ t \in Nodes
  BY DEF Seeking, Shape, Links
<1>2. d \in Sides /\ u.ch[d][t] \in M \union {Nil}
  BY <1>1 DEF Shape, Links, Sides
<1>3. ASSUME NEW n \in M, KeyOf[n] = x PROVE n \in sub[u.ch[d][t]]
  <2>1. n \in sub[t] /\ n # t /\ n \in Nodes
    BY <1>1, <1>3 DEF Seeking, Shape, Links
  <2>2. PICK s \in Sides : n \in sub[u.ch[s][t]]
    BY <1>1, <2>1 DEF Shape, Spans
  <2>3. Prec(R, s, n, t)
    BY <1>1, <2>2 DEF Shape, Sorted
  <2>4. KeyOf[n] \in Nat /\ KeyOf[t] \in Nat
    BY <1>1, <2>1, KeyOfAssumption
  <2>5. s = d
    <3>1. CASE s = "l"
      <4>1. KeyOf[n] <= KeyOf[t]
        BY <2>3, <3>1 DEF Prec
      <4> QED BY <1>1, <1>3, <2>4, <3>1, <4>1
    <3>2. CASE s # "l"
      <4>1. KeyOf[t] <= KeyOf[n]
        BY <2>3, <3>2 DEF Prec
      <4>2. s = "r"
        BY <3>2 DEF Sides
      <4> QED BY <1>1, <1>3, <2>4, <4>1, <4>2
    <3> QED BY <3>1, <3>2
  <2> QED BY <2>2, <2>5
<1> QED BY <1>2, <1>3 DEF Seeking

(* Where the search ends is a node with the key, or there is none.           *)
LEMMA EndGetFound ==
  ASSUME NEW u, NEW M, NEW R, NEW sub, Shape(u.root, u.ch, u.p, M, R, sub),
         \A n \in M : u.key[n] = KeyOf[n],
         NEW x, NEW t, Seeking(x, t, M, sub), t = Nil \/ u.key[t] = x
  PROVE  Found(x, t, M)
<1>1. sub[Nil] = {} /\ Nil \notin M
  BY NodesAssumption DEF Shape, Spans, Links
<1> QED BY <1>1 DEF Seeking, Found

-------------------------------------------------------------------------------
(* The new node is linked.                                                   *)

(* The fields of v, which is u with the red leaf x on the side s of t.       *)
WithLeaf(u, M, s, t, x, v) ==
    /\ v \in Trees /\ v.root = u.root /\ v.key = u.key /\ v.red = [u.red EXCEPT ![x] = TRUE]
    /\ Grown(u.ch, u.p, M, s, t, x, v.ch, v.p)

(* What linking a leaf writes.                                               *)
LEMMA LeafFields ==
  ASSUME NEW u \in Trees, NEW M \in SUBSET Nodes, NEW s \in Sides, NEW t \in M, NEW x \in Nodes \ M
  PROVE  WithLeaf(u, M, s, t, x,
            [u EXCEPT !.ch[s][t] = x, !.p[x] = t, !.ch["l"][x] = Nil, !.ch["r"][x] = Nil,
                      !.red[x] = TRUE])
<1> DEFINE v1 == [u EXCEPT !.ch[s][t] = x]
           v2 == [v1 EXCEPT !.p[x] = t]
           v3 == [v2 EXCEPT !.ch["l"][x] = Nil]
           v4 == [v3 EXCEPT !.ch["r"][x] = Nil]
           v == [v4 EXCEPT !.red[x] = TRUE]
<1>0. M \subseteq All /\ x \in All /\ t \in All /\ x # t /\ Nil \in All /\ x \notin M
  BY DEF All
<1>1. [u EXCEPT !.ch[s][t] = x, !.p[x] = t, !.ch["l"][x] = Nil, !.ch["r"][x] = Nil,
                !.red[x] = TRUE] = v
  OBVIOUS
<1>2. /\ v1 \in Trees /\ v1.root = u.root /\ v1.red = u.red /\ v1.p = u.p /\ v1.key = u.key
      /\ \A m \in All : \A d \in Sides : v1.ch[d][m] = IF m = t /\ d = s THEN x ELSE u.ch[d][m]
  BY <1>0 DEF Trees
<1> HIDE DEF v1
<1>3. /\ v2 \in Trees /\ v2.root = u.root /\ v2.red = u.red /\ v2.ch = v1.ch /\ v2.key = u.key
      /\ \A m \in All : v2.p[m] = IF m = x THEN t ELSE u.p[m]
  BY <1>0, <1>2 DEF Trees
<1> HIDE DEF v2
<1>4. /\ v3 \in Trees /\ v3.root = u.root /\ v3.red = u.red /\ v3.p = v2.p /\ v3.key = u.key
      /\ v3.ch["l"][x] = Nil
      /\ \A m \in All \ {x} : \A d \in Sides : v3.ch[d][m] = v2.ch[d][m]
  BY <1>0, <1>3 DEF Trees, Sides
<1> HIDE DEF v3
<1>5. /\ v4 \in Trees /\ v4.root = u.root /\ v4.red = u.red /\ v4.p = v2.p /\ v4.key = u.key
      /\ \A d \in Sides : v4.ch[d][x] = Nil
      /\ \A m \in All \ {x} : \A d \in Sides : v4.ch[d][m] = v3.ch[d][m]
  BY <1>0, <1>4 DEF Trees, Sides
<1> HIDE DEF v4
<1>6. /\ v \in Trees /\ v.root = u.root /\ v.ch = v4.ch /\ v.p = v2.p /\ v.key = u.key
      /\ v.red = [u.red EXCEPT ![x] = TRUE]
  BY <1>0, <1>5 DEF Trees
<1> HIDE DEF v
<1>7. \A m \in M \union {x} : \A d \in Sides :
          v.ch[d][m] = IF m = x THEN Nil ELSE IF m = t /\ d = s THEN x ELSE u.ch[d][m]
  BY <1>0, <1>2, <1>3, <1>4, <1>5, <1>6
<1>8. \A m \in M \union {x} : v.p[m] = IF m = x THEN t ELSE u.p[m]
  BY <1>0, <1>3, <1>6
<1>9. WithLeaf(u, M, s, t, x, v)
  BY <1>6, <1>7, <1>8 DEF WithLeaf, Grown
<1> QED BY <1>1, <1>9

(* Link: the new node stands where the list has it.                          *)
LEMMA LinkSound ==
  ASSUME NEW x, NEW t, NEW u, NEW q, Sound("place", x, t, u, q),
         NEW s, s = SideFor(u, x, t), u.ch[s][t] = Nil,
         NEW v, v = [u EXCEPT !.ch[s][t] = x, !.p[x] = t, !.ch["l"][x] = Nil,
                              !.ch["r"][x] = Nil, !.red[x] = TRUE],
         NEW w, Joined(q, x, w)
  PROVE  Sound("raise", x, x, v, w)
<1> DEFINE M == Elems(q)
           R == Ranks(q)
           R2 == Ranks(w)
<1>1. u \in Trees /\ SortedList(q) /\ \A n \in M : u.key[n] = KeyOf[n]
  BY DEF Sound
<1>2. PICK sub : Shape(u.root, u.ch, u.p, M, R, sub) /\ Placing(x, t, u, M, sub)
  BY DEF Sound, Stands
<1>3. PICK height : Calm(u, M, height)
  BY DEF Sound, Hued
<1>4. Strict(R) /\ M \in SUBSET Nodes
  BY <1>1, RankFacts
<1>5. x \in Nodes \ M /\ t \in M /\ u.key[x] = KeyOf[x] /\ s \in Sides
  BY <1>2 DEF Placing, SideFor, Sides
<1>6. SortedList(w) /\ Elems(w) = M \union {x} /\ Agree(R, R2, M)
  BY DEF Joined
<1>7. WithLeaf(u, M, s, t, x, v)
  BY <1>1, <1>4, <1>5, LeafFields
<1>8. ASSUME NEW m \in M PROVE Prec(R2, SideFor(u, x, m), x, m)
  <2>1. u.key[m] = KeyOf[m]
    BY <1>1
  <2>2. IF u.key[x] < u.key[m] THEN <<x, m>> \in R2 ELSE <<m, x>> \in R2
    BY <1>5, <2>1 DEF Joined
  <2> QED BY <2>2 DEF Prec, SideFor
<1>9. Prec(R2, s, x, t) /\ \A a \in M : \A d \in Sides : t \in sub[u.ch[d][a]] => Prec(R2, d, x, a)
  BY <1>2, <1>5, <1>8 DEF Placing
<1>10. Grown(u.ch, u.p, M, s, t, x, v.ch, v.p) /\ v.root = u.root /\ v \in Trees /\ v.key = u.key
       /\ v.red = [u.red EXCEPT ![x] = TRUE]
  BY <1>7 DEF WithLeaf
<1> HIDE DEF M, R, R2
<1>11. \E sub2 : Shape(v.root, v.ch, v.p, M \union {x}, R2, sub2)
  BY <1>2, <1>5, <1>6, <1>9, <1>10, GrownShape
<1>12. \E height2 : Raised(v, M \union {x}, x, height2)
  <2>1. Linked(u, M)
    BY <1>2, <1>4, LinkedFacts
  <2>2. Raised(v, M \union {x}, x, [height EXCEPT ![x] = 0])
    BY <1>1, <1>3, <1>5, <1>10, <2>1, LeafHues
  <2> QED BY <2>2
<1>13. \A n \in M \union {x} : v.key[n] = KeyOf[n]
  BY <1>1, <1>5, <1>10
<1>14. \A a, h : Stands("raise", x, x, v, M \union {x}, R2, a)
           /\ (Hued("raise", x, v, M \union {x}, h) <=> Raised(v, M \union {x}, x, h))
  BY DEF Stands, Hued
<1> QED BY <1>6, <1>10, <1>11, <1>12, <1>13, <1>14 DEF Sound, R2

(* The first node.                                                           *)
LEMMA FirstSound ==
  ASSUME NEW x, NEW t, NEW u, NEW q, Sound("idle", x, t, u, q), u.root = Nil, NEW n \in Nodes,
         NEW v, v = [u EXCEPT !.root = n, !.p[n] = Null, !.red[n] = FALSE,
                              !.ch["l"][n] = Nil, !.ch["r"][n] = Nil, !.key[n] = KeyOf[n]]
  PROVE  Sound("idle", x, t, v, <<n>>)
<1>1. u \in Trees /\ n \in All /\ Nil \in All /\ n # Nil /\ KeyOf[n] \in Nat
  BY NodesAssumption, KeyOfAssumption DEF Sound, All
<1>2. /\ v.root = n /\ v.key[n] = KeyOf[n] /\ ~ v.red[n] /\ (v.red[Nil] <=> u.red[Nil])
      /\ \A d \in Sides : v.ch[d][n] = Nil
  BY <1>1 DEF Trees, Sides
<1>3. v \in Trees
  <2> DEFINE v1 == [u EXCEPT !.root = n, !.p[n] = Null, !.red[n] = FALSE]
             v2 == [v1 EXCEPT !.ch["l"][n] = Nil]
             v3 == [v2 EXCEPT !.ch["r"][n] = Nil]
             v4 == [v3 EXCEPT !.key[n] = KeyOf[n]]
  <2>1. v = v4
    OBVIOUS
  <2>2. v1 \in Trees
    BY <1>1 DEF Trees
  <2> HIDE DEF v1
  <2>3. v2 \in Trees
    BY <1>1, <2>2 DEF Trees, Sides
  <2> HIDE DEF v2
  <2>4. v3 \in Trees
    BY <1>1, <2>3 DEF Trees, Sides
  <2> HIDE DEF v3
  <2>5. v4 \in Trees
    BY <1>1, <2>4 DEF Trees
  <2> QED BY <2>1, <2>5
<1>4. Elems(<<n>>) = {n} /\ SortedList(<<n>>)
  BY DEF Elems, SortedList
<1>5. ~ u.red[Nil]
  BY DEF Sound, Hued, Calm, Rosy
<1> DEFINE sub == [m \in All |-> IF m = n THEN {n} ELSE {}]
<1>6. Shape(v.root, v.ch, v.p, {n}, Ranks(<<n>>), sub)
  <2>1. sub[n] = {n} /\ sub[Nil] = {} /\ sub \in [All -> SUBSET {n}]
    BY <1>1
  <2> HIDE DEF sub
  <2>2. Links(v.root, v.ch, v.p, {n})
    BY <1>2, FS_Singleton DEF Links
  <2>3. Spans(v.root, v.ch, {n}, sub)
    BY <1>2, <2>1 DEF Spans
  <2>4. Sorted(v.ch, {n}, Ranks(<<n>>), sub)
    BY <1>2, <2>1 DEF Sorted
  <2> QED BY <2>2, <2>3, <2>4 DEF Shape
<1> HIDE DEF sub
<1>7. \E height : Calm(v, {n}, height)
  BY <1>2, <1>5, FirstHues
<1>8. \A h : Stands("idle", x, t, v, {n}, Ranks(<<n>>), sub)
           /\ (Hued("idle", t, v, {n}, h) <=> Calm(v, {n}, h))
  BY DEF Stands, Hued
<1> QED BY <1>2, <1>3, <1>4, <1>6, <1>7, <1>8 DEF Sound

-------------------------------------------------------------------------------
(* A node is unlinked.                                                       *)

OnlySide(u, t) == IF u.ch["l"][t] # Nil THEN "l" ELSE "r"

(* What the node t that is unlinked for x is.                                *)
Leaver(u, M, R, sub, x, t, s) ==
    /\ x \in M /\ t \in M /\ s \in Sides /\ u.ch[Other(s)][t] = Nil
    /\ t # x => /\ t # u.root /\ u.ch["l"][t] = Nil /\ u.ch["r"][x] \in M
                /\ t \in sub[u.ch["r"][x]]
                /\ \A k \in sub[u.ch["r"][x]] \ {t} : <<t, k>> \in R

(* The node that is unlinked is that of the caller, or the first on its      *)
(* right; it has one child at most.                                          *)
LEMMA LeavingFacts ==
  ASSUME NEW u, NEW M, NEW R, NEW sub, Strict(R), Shape(u.root, u.ch, u.p, M, R, sub),
         NEW x, NEW t, Leaving(x, t, u, M, R, sub)
  PROVE  Leaver(u, M, R, sub, x, t, OnlySide(u, t))
<1>1. sub \in [All -> SUBSET M] /\ M \subseteq All /\ M \subseteq Nodes /\ "r" \in Sides /\ "l" \in Sides
      /\ Other("l") = "r" /\ Other("r") = "l" /\ sub[u.root] = M
      /\ u.ch["r"][x] \in M \union {Nil} /\ u.root \in M \union {Nil}
  BY DEF Leaving, Shape, Links, Spans, All, Sides, Other
<1>2. CASE t = x
  <2>1. x \in M /\ \E s \in Sides : u.ch[s][x] = Nil
    BY <1>2 DEF Leaving
  <2>2. u.ch[Other(OnlySide(u, t))][t] = Nil
    BY <1>1, <1>2, <2>1 DEF OnlySide, Sides
  <2> QED BY <1>1, <1>2, <2>1, <2>2 DEF OnlySide, Leaver
<1>3. CASE t # x
  <2>1. /\ x \in M /\ u.ch["l"][t] = Nil /\ u.ch["r"][x] \in M
        /\ t \in sub[u.ch["r"][x]]
        /\ \A k \in sub[u.ch["r"][x]] \ {t} : <<t, k>> \in R
    BY <1>1, <1>3 DEF Leaving, FirstOf
  <2>2. t \in M
    BY <1>1, <2>1
  <2>3. t # u.root
    <3>1. SUFFICES ASSUME t = u.root PROVE FALSE
      OBVIOUS
    <3>2. M \subseteq sub[u.ch["r"][x]]
      BY <1>1, <2>1, <3>1, Nested
    <3>3. Prec(R, "r", x, x)
      BY <1>1, <2>1, <3>2 DEF Shape, Sorted
    <3> QED BY <1>1, <2>1, <3>3, PrecFacts
  <2> QED BY <1>1, <1>3, <2>1, <2>2, <2>3 DEF OnlySide, Leaver
<1> QED BY <1>2, <1>3

(* UnlinkRoot: the only child of the root is the whole tree.                 *)
LEMMA UnlinkRootSound ==
  ASSUME NEW x, NEW t, NEW u, NEW q, Sound("unlink", x, t, u, q), t = u.root,
         NEW c, c = u.ch[OnlySide(u, t)][t],
         NEW y \in Trees, y.root = c, y.ch = u.ch, y.p = u.p, y.key = u.key,
         y.red = [u.red EXCEPT ![c] = FALSE],
         NEW v, Cleared(y, x, v), NEW w, Left(q, x, w)
  PROVE  Sound("idle", Nil, Nil, v, w)
<1> DEFINE M == Elems(q)
           R == Ranks(q)
           R2 == Ranks(w)
           s == OnlySide(u, t)
<1>1. u \in Trees /\ SortedList(q) /\ \A n \in M : u.key[n] = KeyOf[n]
  BY DEF Sound
<1>2. PICK sub : Shape(u.root, u.ch, u.p, M, R, sub) /\ Leaving(x, t, u, M, R, sub)
  BY DEF Sound, Stands
<1>3. PICK height : Calm(u, M, height)
  BY DEF Sound, Hued
<1>4. Strict(R) /\ M \subseteq Nodes /\ M \subseteq All
  BY <1>1, RankFacts DEF All
<1>5. SortedList(w) /\ Elems(w) = M \ {x} /\ Agree(R, R2, M \ {x})
  BY DEF Left
<1> HIDE DEF M, R, R2, s
<1>6. x \in M /\ s \in Sides /\ u.ch[Other(s)][x] = Nil /\ t = x /\ c = u.ch[s][x] /\ x = u.root
  <2>1. Leaver(u, M, R, sub, x, t, s)
    BY <1>2, <1>4, LeavingFacts DEF s
  <2>2. c = u.ch[s][t]
    BY DEF s
  <2> QED BY <2>1, <2>2 DEF Leaver
<1>7. c \in M \union {Nil} /\ c \in All /\ c # x
  <2>1. c \in M \union {Nil} /\ Nil \notin M
    BY <1>2, <1>4, <1>6, NodesAssumption DEF Shape, Links
  <2>2. c # x
    BY <1>2, <1>4, <1>6, <2>1, ChildFacts
  <2> QED BY <1>4, <2>1, <2>2 DEF All
<1>10. /\ v \in Trees /\ v.root = c /\ v.red = [u.red EXCEPT ![c] = FALSE]
       /\ \A n \in M \ {x} : /\ v.p[n] = u.p[n] /\ v.key[n] = u.key[n]
                             /\ \A d \in Sides : v.ch[d][n] = u.ch[d][n]
  BY <1>4 DEF Cleared
<1>11. \A n \in M : \A d \in Sides : u.ch[d][n] # x
  <2>1. x # Nil
    BY <1>4, <1>6, NodesAssumption
  <2> QED BY <1>2, <1>4, <1>6, <2>1, ChildFacts
<1>12. Pruned(u.root, u.ch, u.p, M, x, c, v.root, v.ch, v.p)
  BY <1>6, <1>10, <1>11 DEF Pruned
<1>13. Shape(v.root, v.ch, v.p, M \ {x}, R2, Less(sub, x))
  BY <1>2, <1>4, <1>5, <1>6, <1>12, PrunedShape
<1>14. \E height2 : Calm(v, M \ {x}, height2)
  <2>1. Linked(u, M)
    BY <1>2, <1>4, LinkedFacts
  <2> QED BY <1>1, <1>3, <1>6, <1>10, <2>1, RootGone
<1>15. \A n \in M \ {x} : v.key[n] = KeyOf[n]
  BY <1>1, <1>10 DEF M
<1>16. \A a, h : Stands("idle", Nil, Nil, v, M \ {x}, R2, a)
           /\ (Hued("idle", Nil, v, M \ {x}, h) <=> Calm(v, M \ {x}, h))
  BY DEF Stands, Hued
<1> QED BY <1>5, <1>10, <1>13, <1>14, <1>15, <1>16 DEF Sound, R2

(* What comes after: nothing, or the loop that goes up from c.               *)
Settled(red, x, c, v, w) ==
    IF red THEN Sound("idle", Nil, Nil, v, w) ELSE Sound("lower", x, c, v, w)

(* After a node went, the tree is sound, or short of a black node at c.      *)
LEMMA Settle ==
  ASSUME NEW red, NEW x, NEW c, NEW v \in Trees, NEW w, SortedList(w),
         \A n \in Elems(w) : v.key[n] = KeyOf[n],
         \E sub : Shape(v.root, v.ch, v.p, Elems(w), Ranks(w), sub),
         red => \E height : Calm(v, Elems(w), height),
         ~ red => \E height : Lowered(v, Elems(w), c, height)
  PROVE  Settled(red, x, c, v, w)
<1>1. \A a : Stands("idle", Nil, Nil, v, Elems(w), Ranks(w), a)
             /\ Stands("lower", x, c, v, Elems(w), Ranks(w), a)
  BY DEF Stands
<1>2. \A h : /\ Hued("idle", Nil, v, Elems(w), h) <=> Calm(v, Elems(w), h)
             /\ Hued("lower", c, v, Elems(w), h) <=> Lowered(v, Elems(w), c, h)
  BY DEF Hued
<1> QED BY <1>1, <1>2 DEF Settled, Sound

(* UnlinkNode: the child of the node takes its place.                        *)
LEMMA UnlinkNodeSound ==
  ASSUME NEW x, NEW u, NEW q, Sound("unlink", x, x, u, q), x # u.root,
         NEW c, c = u.ch[OnlySide(u, x)][x],
         NEW y, Taken(u, Elems(q), x, c, y),
         NEW v, Cleared(y, x, v), NEW w, Left(q, x, w)
  PROVE  Settled(u.red[x], x, c, v, w)
<1> DEFINE M == Elems(q)
           R == Ranks(q)
           R2 == Ranks(w)
           s == OnlySide(u, x)
<1>1. u \in Trees /\ SortedList(q) /\ \A n \in M : u.key[n] = KeyOf[n]
  BY DEF Sound
<1>2. PICK sub : Shape(u.root, u.ch, u.p, M, R, sub) /\ Leaving(x, x, u, M, R, sub)
  BY DEF Sound, Stands
<1>3. PICK height : Calm(u, M, height)
  BY DEF Sound, Hued
<1>4. Strict(R) /\ M \subseteq Nodes /\ M \subseteq All
  BY <1>1, RankFacts DEF All
<1>5. SortedList(w) /\ Elems(w) = M \ {x} /\ Agree(R, R2, M \ {x})
  BY DEF Left
<1> HIDE DEF M, R, R2, s
<1>6. x \in M /\ s \in Sides /\ u.ch[Other(s)][x] = Nil /\ c = u.ch[s][x]
  <2>1. Leaver(u, M, R, sub, x, x, s)
    BY <1>2, <1>4, LeavingFacts DEF s
  <2>2. c = u.ch[s][x]
    BY DEF s
  <2> QED BY <2>1, <2>2 DEF Leaver
<1>7. c \in M \union {Nil} /\ c \in All /\ c # x
  <2>1. c \in M \union {Nil} /\ Nil \notin M
    BY <1>2, <1>4, <1>6, NodesAssumption DEF Shape, Links
  <2>2. c # x
    BY <1>2, <1>4, <1>6, <2>1, ChildFacts
  <2> QED BY <1>4, <2>1, <2>2 DEF All
<1>8. Taken(u, M, x, c, y)
  BY DEF M
<1>9. Pruned(u.root, u.ch, u.p, M, x, c, y.root, y.ch, y.p) /\ y.p[c] = u.p[x]
  <2>1. u.p \in [All -> All \union {Null}] /\ u.p[x] = u.p[x]
    BY <1>1 DEF Trees
  <2> QED BY <1>4, <1>6, <1>7, <1>8, <2>1 DEF Taken, Pruned
<1>11. /\ v \in Trees /\ v.root = u.root /\ v.red = u.red /\ v.p[c] = u.p[x]
       /\ \A n \in M \ {x} : /\ v.p[n] = y.p[n] /\ v.key[n] = u.key[n]
                             /\ \A d \in Sides : v.ch[d][n] = y.ch[d][n]
  BY <1>4, <1>7, <1>8, <1>9 DEF Cleared, Taken
<1>12. Pruned(u.root, u.ch, u.p, M, x, c, v.root, v.ch, v.p)
  BY <1>9, <1>11 DEF Pruned
<1>13. Shape(v.root, v.ch, v.p, M \ {x}, R2, Less(sub, x))
  BY <1>2, <1>4, <1>5, <1>6, <1>12, PrunedShape
<1>14. Linked(v, M \ {x})
  <2>1. Strict(R2)
    BY <1>5, RankFacts DEF R2
  <2> QED BY <1>13, <2>1, LinkedFacts
<1>15. Gone(u, M, x, c, v, height)
  <2>1. \A n \in M \ {x} : \A d \in Sides :
            v.ch[d][n] = IF u.ch[d][n] = x THEN c ELSE u.ch[d][n]
    BY <1>12 DEF Pruned
  <2> QED BY <1>1, <1>2, <1>3, <1>4, <1>6, <1>11, <1>14, <2>1, PrunedHues
<1>16. \A n \in M \ {x} : v.key[n] = KeyOf[n]
  BY <1>1, <1>11 DEF M
<1> QED BY <1>5, <1>11, <1>13, <1>15, <1>16, Settle DEF Gone, R2

(* The node x has two children, and t is the first one on its right: the     *)
(* tree y without t, and what is around x in it.                             *)
Freed(u, y, M, R, sub, x, t, c) ==
    /\ x \in M \ {t} /\ t \in Nodes \ (M \ {t}) /\ t # x
    /\ c \in All /\ c # x /\ c # t /\ (c # Nil => c \in M \ {t}) /\ c # y.root
    /\ y \in Trees /\ y.red = u.red /\ y.key = u.key
    /\ Shape(y.root, y.ch, y.p, M \ {t}, R, Less(sub, t))
    /\ \A d \in Sides : \A k \in Less(sub, t)[y.ch[d][x]] : Prec(R, d, k, t)
    /\ \A a \in M \ {t} : \A d \in Sides : x \in Less(sub, t)[y.ch[d][a]] => Prec(R, d, t, a)

(* With the first node on its right taken out, the node of the caller is     *)
(* still in a tree.                                                          *)
LEMMA FreedFacts ==
  ASSUME NEW u \in Trees, NEW M, NEW R, NEW sub, Strict(R), Shape(u.root, u.ch, u.p, M, R, sub),
         NEW x, NEW t, t # x, NEW s, Leaver(u, M, R, sub, x, t, s),
         NEW c, c = u.ch[s][t], NEW y, Taken(u, M, t, c, y)
  PROVE  Freed(u, y, M, R, sub, x, t, c)
<1> DEFINE z == u.ch["r"][x]
           M0 == M \ {t}
           less == Less(sub, t)
<1>1. /\ M \subseteq Nodes /\ M \subseteq All /\ Nil \notin M /\ Nil \in All
      /\ sub \in [All -> SUBSET M] /\ sub[Nil] = {} /\ u.root \in M \union {Nil}
      /\ "l" \in Sides /\ "r" \in Sides /\ \A d \in Sides : d = "l" \/ d = "r"
      /\ \A n \in M : \A d \in Sides : u.ch[d][n] \in M \union {Nil}
  BY NodesAssumption DEF Shape, Links, Spans, All, Sides
<1>2. /\ x \in M /\ t \in M /\ t # u.root /\ s \in Sides /\ u.ch[Other(s)][t] = Nil
      /\ u.ch["l"][t] = Nil /\ z \in M /\ t \in sub[z] /\ \A k \in sub[z] \ {t} : <<t, k>> \in R
  BY DEF Leaver
<1>3. x \notin sub[z] /\ <<x, t>> \in R
  <2>1. \A k \in sub[z] : Prec(R, "r", k, x)
    BY <1>1, <1>2 DEF Shape, Sorted
  <2>2. ~ Prec(R, "r", x, x)
    BY <1>1, <1>2, PrecFacts
  <2> QED BY <1>2, <2>1, <2>2 DEF Prec
<1> HIDE DEF z
<1>4. sub[t] \subseteq sub[z]
  BY <1>2, Nested
<1>5. c \in M \union {Nil} /\ c # t /\ (c # Nil => c # u.root /\ c \in sub[c] /\ c \in sub[t])
  <2>1. c \in M \union {Nil}
    BY <1>1, <1>2
  <2>2. CASE c = Nil
    BY <1>1, <1>2, <2>1, <2>2
  <2>3. CASE c # Nil
    <3>1. c \in M /\ c # t /\ c # u.root /\ c \in sub[c]
      BY <1>2, <2>3, ChildFacts
    <3>2. c \in sub[t]
      BY <1>2, <3>1 DEF Shape, Spans
    <3> QED BY <3>1, <3>2
  <2> QED BY <2>2, <2>3
<1>6. c # x
  BY <1>1, <1>2, <1>3, <1>4, <1>5
<1>7. sub[c] \subseteq sub[t]
  <2>1. CASE c = Nil
    BY <1>1, <2>1
  <2>2. CASE c # Nil
    BY <1>2, <1>5, <2>2, Nested
  <2> QED BY <2>1, <2>2
<1>8. y \in Trees /\ y.red = u.red /\ y.key = u.key /\ y.root = u.root
      /\ \A a \in M0 : \A d \in Sides : y.ch[d][a] = IF u.ch[d][a] = t THEN c ELSE u.ch[d][a]
  BY DEF Taken
<1>9. y.root # c
  <2>1. CASE c = Nil
    <3>1. u.root # Nil
      BY <1>1, <1>2 DEF Shape, Spans
    <3> QED BY <1>8, <2>1, <3>1
  <2>2. CASE c # Nil
    BY <1>5, <1>8, <2>2
  <2> QED BY <2>1, <2>2
<1>10. Shape(y.root, y.ch, y.p, M0, R, less)
  <2>1. Pruned(u.root, u.ch, u.p, M, t, c, y.root, y.ch, y.p)
    <3>1. u.p \in [All -> All \union {Null}]
      BY DEF Trees
    <3> QED BY <1>1, <1>2, <1>5, <3>1 DEF Taken, Pruned
  <2>2. Agree(R, R, M \ {t})
    BY DEF Agree
  <2> QED BY <1>2, <2>1, <2>2, PrunedShape
<1>11. \A k \in All : less[k] = sub[k] \ {t}
  BY <1>1 DEF Less
<1> HIDE DEF less
<1>12. ASSUME NEW a \in M0, NEW d \in Sides
       PROVE  /\ y.ch[d][a] \in All
              /\ less[y.ch[d][a]] \subseteq sub[u.ch[d][a]] \ {t}
  <2>1. y.ch[d][a] \in All /\ u.ch[d][a] \in All
    BY <1>1, <1>5, <1>8
  <2>2. less[y.ch[d][a]] = sub[y.ch[d][a]] \ {t}
    BY <1>11, <2>1
  <2>3. sub[y.ch[d][a]] \subseteq sub[u.ch[d][a]]
    BY <1>7, <1>8
  <2> QED BY <2>1, <2>2, <2>3
<1>13. ASSUME NEW d \in Sides, NEW k \in less[y.ch[d][x]] PROVE Prec(R, d, k, t)
  <2>1. k \in sub[u.ch[d][x]] /\ k # t /\ k \in M
    BY <1>1, <1>2, <1>12, <1>13
  <2>2. CASE d = "l"
    <3>1. <<k, x>> \in R
      BY <1>1, <1>2, <2>1, <2>2 DEF Shape, Sorted, Prec
    <3>2. <<k, t>> \in R
      BY <1>1, <1>2, <1>3, <2>1, <3>1 DEF Strict
    <3> QED BY <2>2, <3>2 DEF Prec
  <2>3. CASE d = "r"
    <3>1. <<t, k>> \in R
      BY <1>2, <2>1, <2>3 DEF z
    <3> QED BY <2>3, <3>1 DEF Prec
  <2> QED BY <1>1, <2>2, <2>3
<1>14. ASSUME NEW a \in M0, NEW d \in Sides, x \in less[y.ch[d][a]] PROVE Prec(R, d, t, a)
  <2>1. x \in sub[u.ch[d][a]]
    BY <1>12, <1>14
  <2>2. u.ch[d][a] \in M
    BY <1>1, <2>1
  <2>3. sub[x] \subseteq sub[u.ch[d][a]]
    BY <2>1, <2>2, Nested
  <2>4. t \in sub[x]
    BY <1>1, <1>2 DEF Shape, Spans, z
  <2>5. t \in sub[u.ch[d][a]]
    BY <2>3, <2>4
  <2> QED BY <2>5 DEF Shape, Sorted
<1>15. x \in M0 /\ t \in Nodes \ M0 /\ c \in All /\ (c # Nil => c \in M0)
  BY <1>1, <1>2, <1>5
<1> QED BY <1>5, <1>6, <1>8, <1>9, <1>10, <1>13, <1>14, <1>15 DEF Freed, less

(* UnlinkSubst: the node taken out takes the place and the colour of the     *)
(* other.                                                                    *)
LEMMA UnlinkSubstSound ==
  ASSUME NEW x, NEW t, NEW u, NEW q, Sound("unlink", x, t, u, q), t # u.root, t # x,
         NEW c, c = u.ch[OnlySide(u, t)][t],
         NEW y, Taken(u, Elems(q), t, c, y),
         NEW v, Swapped(y, Elems(q) \ {t}, x, t, c, v), NEW w, Left(q, x, w)
  PROVE  Settled(u.red[t], x, c, v, w)
<1> DEFINE M == Elems(q)
           M0 == M \ {t}
           R == Ranks(q)
           R2 == Ranks(w)
           s == OnlySide(u, t)
<1>1. u \in Trees /\ SortedList(q) /\ \A n \in M : u.key[n] = KeyOf[n]
  BY DEF Sound
<1>2. PICK sub : Shape(u.root, u.ch, u.p, M, R, sub) /\ Leaving(x, t, u, M, R, sub)
  BY DEF Sound, Stands
<1>3. PICK height : Calm(u, M, height)
  BY DEF Sound, Hued
<1>4. Strict(R) /\ M \subseteq Nodes /\ M \subseteq All
  BY <1>1, RankFacts DEF All
<1>5. SortedList(w) /\ Elems(w) = M \ {x} /\ Agree(R, R2, M \ {x})
  BY DEF Left
<1>6. Taken(u, M, t, c, y) /\ Swapped(y, M0, x, t, c, v)
  OBVIOUS
<1> HIDE DEF M, M0, R, R2, s
<1>7. Leaver(u, M, R, sub, x, t, s) /\ c = u.ch[s][t]
  BY <1>2, <1>4, LeavingFacts DEF s
<1>8. Freed(u, y, M, R, sub, x, t, c)
  BY <1>1, <1>2, <1>4, <1>6, <1>7, FreedFacts
<1> DEFINE less == Less(sub, t)
<1> HIDE DEF less
<1>9. /\ x \in M0 /\ t \in Nodes \ M0 /\ c \in All /\ c # x /\ c # t /\ c # y.root
      /\ y \in Trees /\ y.red = u.red /\ y.key = u.key
      /\ Shape(y.root, y.ch, y.p, M0, R, less)
      /\ \A d \in Sides : \A k \in less[y.ch[d][x]] : Prec(R, d, k, t)
      /\ \A a \in M0 : \A d \in Sides : x \in less[y.ch[d][a]] => Prec(R, d, t, a)
  BY <1>8 DEF Freed, M0, less
<1>10. /\ v \in Trees /\ v.red = [y.red EXCEPT ![t] = y.red[x]]
       /\ \A k \in All \ {x} : v.key[k] = y.key[k]
       /\ Replaced(y.root, y.ch, y.p, M0, x, t, v.root, v.ch, v.p)
       /\ v.p[c] = IF y.p[c] = x THEN t ELSE y.p[c]
  BY <1>6 DEF Swapped
<1> DEFINE M2 == (M0 \ {x}) \union {t}
<1>11. PICK sub2 : Shape(v.root, v.ch, v.p, M2, R, sub2)
  BY <1>4, <1>9, <1>10, ReplacedShape
<1>12. M2 = M \ {x}
  BY <1>7 DEF M0, Leaver
<1> HIDE DEF M2
<1>13. Shape(v.root, v.ch, v.p, M2, R2, sub2)
  BY <1>5, <1>11, <1>12, AgreeShape
<1>14. Linked(y, M0)
  BY <1>4, <1>9, LinkedFacts
<1>15. Gone(u, M, t, c, y, height)
  <2>1. /\ y.root = u.root
        /\ \A n \in M \ {t} : \A d \in Sides :
              y.ch[d][n] = IF u.ch[d][n] = t THEN c ELSE u.ch[d][n]
    BY <1>6 DEF Taken
  <2>2. y.p[c] = u.p[t]
    <3>1. u.p \in [All -> All \union {Null}]
      BY <1>1 DEF Trees
    <3> QED BY <1>6, <1>9, <3>1 DEF Taken
  <2>3. t \in M /\ s \in Sides /\ u.ch[Other(s)][t] = Nil /\ c = u.ch[s][t]
    BY <1>7 DEF Leaver
  <2>4. Linked(y, M \ {t})
    BY <1>14 DEF M0
  <2> QED BY <1>1, <1>2, <1>3, <1>4, <1>9, <2>1, <2>2, <2>3, <2>4, PrunedHues
<1>16. u.red[t] => \E height2 : Calm(v, M2, height2)
  <2>0. SUFFICES ASSUME u.red[t] PROVE \E height2 : Calm(v, M2, height2)
    OBVIOUS
  <2>1. Calm(y, M0, height)
    BY <1>15, <2>0 DEF Gone, M0
  <2>2. \E height2 : Calm(v, M2, height2)
    BY <1>9, <1>10, <1>14, <2>1, ReplacedCalm DEF M2
  <2> QED BY <2>2
<1>17. ~ u.red[t] => \E height2 : Lowered(v, M2, c, height2)
  <2>0. SUFFICES ASSUME ~ u.red[t] PROVE \E height2 : Lowered(v, M2, c, height2)
    OBVIOUS
  <2>1. Lowered(y, M0, c, height)
    BY <1>15, <2>0 DEF Gone, M0
  <2>2. \E height2 : Lowered(v, M2, c, height2)
    BY <1>9, <1>10, <1>14, <2>1, ReplacedLowered DEF M2
  <2> QED BY <2>2
<1>18. \A n \in M2 : v.key[n] = KeyOf[n]
  BY <1>1, <1>4, <1>9, <1>10, <1>12
<1>19. Elems(w) = M2
  BY <1>5, <1>12
<1> QED BY <1>5, <1>10, <1>13, <1>16, <1>17, <1>18, <1>19, Settle DEF R2

-------------------------------------------------------------------------------
(* The turns of the two re-balancing loops.                                  *)

Keyed(u, q) == SortedList(q) /\ \A n \in Elems(q) : u.key[n] = KeyOf[n]

(* Between operations, and in the loops, what is sound depends on the shape  *)
(* and the colours.                                                          *)
LEMMA Afresh ==
  ASSUME NEW a \in {"idle", "raise", "lower"}, NEW x, NEW t, NEW v \in Trees,
         NEW q, Keyed(v, q), \E sub : Shape(v.root, v.ch, v.p, Elems(q), Ranks(q), sub),
         \E height : Hued(a, t, v, Elems(q), height)
  PROVE  Sound(a, x, t, v, q)
<1>1. \A sub : Stands(a, x, t, v, Elems(q), Ranks(q), sub)
  BY DEF Stands
<1> QED BY <1>1 DEF Sound, Keyed

(* Of a sound tree, with M and R for the nodes and the order of the list.    *)
Parts(a, t, u, q, M, R, sub, height) ==
    /\ u \in Trees /\ Keyed(u, q) /\ Strict(R) /\ M \subseteq Nodes
    /\ Shape(u.root, u.ch, u.p, M, R, sub) /\ Hued(a, t, u, M, height)

(* What the lemmas above need of a sound tree.                               *)
LEMMA SoundParts ==
  ASSUME NEW a, NEW x, NEW t, NEW u, NEW q, Sound(a, x, t, u, q)
  PROVE  \E sub, height : Parts(a, t, u, q, Elems(q), Ranks(q), sub, height)
<1>1. u \in Trees /\ Keyed(u, q) /\ SortedList(q)
  BY DEF Sound, Keyed
<1>2. Strict(Ranks(q)) /\ Elems(q) \subseteq Nodes
  BY <1>1, RankFacts
<1>3. PICK sub : Shape(u.root, u.ch, u.p, Elems(q), Ranks(q), sub)
  BY DEF Sound
<1>4. PICK height : Hued(a, t, u, Elems(q), height)
  BY DEF Sound
<1>5. Parts(a, t, u, q, Elems(q), Ranks(q), sub, height)
  BY <1>1, <1>2, <1>3, <1>4 DEF Parts
<1> QED BY <1>5

(* Who is around t in a turn of the loop that goes up: the parent m, its     *)
(* parent g and the uncle e.                                                 *)
Above(u, t, m, g, s, e) ==
    /\ t # u.root /\ m = u.p[t] /\ u.red[m] /\ g = u.p[m] /\ s = SideOf(u, m)
    /\ e = u.ch[Other(s)][g]

IsRed(u, n) == u.red[n]
Inner(u, s, m, t) == t = u.ch[Other(s)][m]
RaisedEnough(u, t) == t = u.root \/ ~ u.red[u.p[t]]

(* And in a turn of the loop that makes up for a black node: the parent m    *)
(* and the sibling w.                                                        *)
Beside(u, t, m, d, w) ==
    t # u.root /\ ~ u.red[t] /\ m = u.p[t] /\ d = SideOf(u, t) /\ w = u.ch[Other(d)][m]

BlackNephews(u, w) == \A c \in Sides : ~ u.red[u.ch[c][w]]
NearRed(u, w, d, k) == k = u.ch[d][w] /\ u.red[k] /\ ~ u.red[u.ch[Other(d)][w]]
FarRed(u, w, d, f) == f = u.ch[Other(d)][w] /\ u.red[f]
HueOf(u, m, hue) == hue \in BOOLEAN /\ hue = u.red[m]
LoweredEnough(u, t) == t = u.root \/ u.red[t]

(* Other colours of u.                                                       *)
Blackened(u, n) == [u.red EXCEPT ![n] = FALSE]
Reddened(u, n) == [u.red EXCEPT ![n] = TRUE]
Exchanged(u, m, n) == [u.red EXCEPT ![m] = FALSE, ![n] = TRUE]
BothBlack(u, m, e, g) == [u.red EXCEPT ![m] = FALSE, ![e] = FALSE, ![g] = TRUE]
LastHues(u, w, hue, m, f) == [u.red EXCEPT ![w] = hue, ![m] = FALSE, ![f] = FALSE]

(* The tree v is u with other colours.                                       *)
Painted(u, red, v) ==
    /\ v \in Trees /\ v.root = u.root /\ v.ch = u.ch /\ v.p = u.p /\ v.key = u.key
    /\ v.red = red

(* Other colours, and the tree is sound if they are right.                   *)
LEMMA PaintedSound ==
  ASSUME NEW u, NEW q, Keyed(u, q), NEW sub, NEW red, NEW v, Painted(u, red, v),
         Shape(u.root, u.ch, u.p, Elems(q), Ranks(q), sub),
         NEW a \in {"idle", "raise", "lower"}, NEW x, NEW t,
         NEW height, Hued(a, t, v, Elems(q), height)
  PROVE  Sound(a, x, t, v, q)
<1>1. /\ v \in Trees /\ Keyed(v, q)
      /\ Shape(v.root, v.ch, v.p, Elems(q), Ranks(q), sub)
  BY DEF Painted, Keyed
<1> QED BY <1>1, Afresh

(* The tree v is a tree again after a rotation of w.                         *)
Spun(w, M, R, s, n, v) ==
    /\ Rotated(w, M, s, n, v) /\ Linked(v, M)
    /\ \E sub : Shape(v.root, v.ch, v.p, M, R, sub)

(* A rotation in a tree.                                                     *)
LEMMA RotateSpun ==
  ASSUME NEW w \in Trees, NEW M, NEW R, NEW sub,
         Strict(R), Shape(w.root, w.ch, w.p, M, R, sub), NEW s \in Sides, NEW n \in M,
         w.ch[Other(s)][n] # Nil
  PROVE  Spun(w, M, R, s, n, Rotate(w, s, n))
<1> DEFINE v == Rotate(w, s, n)
<1>1. Rotated(w, M, s, n, v)
  BY RotateFields
<1> HIDE DEF v
<1>2. PICK sub2 : Shape(v.root, v.ch, v.p, M, R, sub2)
  BY <1>1, TurnedShape DEF Rotated
<1>3. Linked(v, M)
  BY <1>2, LinkedFacts
<1>4. Spun(w, M, R, s, n, v)
  BY <1>1, <1>2, <1>3 DEF Spun
<1> QED BY <1>4 DEF v

(* A rotation, and the tree is sound if the colours are right.               *)
LEMMA SpunSound ==
  ASSUME NEW w, NEW q, Keyed(w, q), NEW s, NEW n, NEW v,
         Spun(w, Elems(q), Ranks(q), s, n, v),
         NEW a \in {"idle", "raise", "lower"}, NEW x, NEW t,
         NEW height, Hued(a, t, v, Elems(q), height)
  PROVE  Sound(a, x, t, v, q)
<1>1. v \in Trees /\ v.key = w.key
  BY DEF Spun, Rotated
<1>2. Keyed(v, q)
  BY <1>1 DEF Keyed
<1> QED BY <1>1, <1>2, Afresh DEF Spun

(* The loop that goes up: m is the parent, g its parent, e the uncle.        *)
LEMMA RaiseRedUncleSound ==
  ASSUME NEW x, NEW t, NEW u, NEW q, Sound("raise", x, t, u, q),
         NEW m, NEW g, NEW s, NEW e, Above(u, t, m, g, s, e), IsRed(u, e),
         NEW v, Painted(u, BothBlack(u, m, e, g), v)
  PROVE  Sound("raise", x, g, v, q)
<1> DEFINE M == Elems(q)
           R == Ranks(q)
<1>1. PICK sub, height : Parts("raise", t, u, q, M, R, sub, height)
  BY SoundParts
<1>2. u \in Trees /\ Keyed(u, q)
  BY <1>1 DEF Parts
<1>3. Strict(R) /\ Shape(u.root, u.ch, u.p, M, R, sub)
  BY <1>1 DEF Parts
<1>4. Nil \notin M
  BY <1>1, NodesAssumption DEF Parts
<1>5. Raised(u, M, t, height)
  BY <1>1 DEF Parts, Hued
<1> HIDE DEF M, R
<1>6. Family(u, M, t, m, g, s, e) /\ t # u.root
  <2>1. t # u.root /\ m = u.p[t] /\ u.red[m] /\ g = u.p[m] /\ s = SideOf(u, m)
        /\ e = u.ch[Other(s)][g]
    BY DEF Above
  <2>2. Family(u, M, t, m, g, s, e)
    BY <1>2, <1>3, <1>5, <2>1, FamilyFacts
  <2> QED BY <2>1, <2>2
<1>7. /\ v \in Trees /\ v.root = u.root /\ v.ch = u.ch /\ v.p = u.p
      /\ v.red = [u.red EXCEPT ![m] = FALSE, ![e] = FALSE, ![g] = TRUE]
  BY DEF Painted, BothBlack
<1>8. UnclePainted(u, m, e, g, v)
  BY <1>7 DEF UnclePainted, IsRed
<1>9. RaisedSome(v, M, g)
  BY <1>2, <1>3, <1>5, <1>6, <1>8, RedUncleHues
<1>10. PICK height2 : Raised(v, M, g, height2)
  BY <1>9 DEF RaisedSome
<1>11. Hued("raise", g, v, M, height2)
  BY <1>10 DEF Hued
<1> QED BY <1>2, <1>3, <1>11, PaintedSound DEF M, R

(* RaiseInner: the node is on the inner side.                                *)
LEMMA RaiseInnerSound ==
  ASSUME NEW x, NEW t, NEW u, NEW q, Sound("raise", x, t, u, q),
         NEW m, NEW g, NEW s, NEW e, Above(u, t, m, g, s, e), Inner(u, s, m, t),
         NEW v, v = Rotate(u, s, m)
  PROVE  Sound("raise", x, m, v, q)
<1> DEFINE M == Elems(q)
           R == Ranks(q)
<1>1. PICK sub, height : Parts("raise", t, u, q, M, R, sub, height)
  BY SoundParts
<1>2. u \in Trees /\ Keyed(u, q)
  BY <1>1 DEF Parts
<1>3. Strict(R) /\ Shape(u.root, u.ch, u.p, M, R, sub)
  BY <1>1 DEF Parts
<1>4. Nil \notin M
  BY <1>1, NodesAssumption DEF Parts
<1>5. Raised(u, M, t, height)
  BY <1>1 DEF Parts, Hued
<1> HIDE DEF M, R
<1>6. Family(u, M, t, m, g, s, e) /\ t # u.root
  <2>1. t # u.root /\ m = u.p[t] /\ u.red[m] /\ g = u.p[m] /\ s = SideOf(u, m)
        /\ e = u.ch[Other(s)][g]
    BY DEF Above
  <2>2. Family(u, M, t, m, g, s, e)
    BY <1>2, <1>3, <1>5, <2>1, FamilyFacts
  <2> QED BY <2>1, <2>2
<1>7. s \in Sides /\ m \in M /\ u.ch[Other(s)][m] # Nil
  BY <1>4, <1>5, <1>6 DEF Family, Raised, Inner
<1>8. Spun(u, M, R, s, m, v)
  BY <1>2, <1>3, <1>7, RotateSpun
<1>9. Rotated(u, M, s, m, v) /\ Linked(v, M)
  BY <1>8 DEF Spun
<1>10. Raised(v, M, m, height)
  BY <1>2, <1>3, <1>5, <1>6, <1>9, InnerHues DEF Inner
<1>11. Hued("raise", m, v, M, height)
  BY <1>10 DEF Hued
<1> QED BY <1>2, <1>8, <1>11, SpunSound DEF M, R

(* RaiseOuter: the node is on the outer side, or was brought there.          *)
LEMMA RaiseOuterSound ==
  ASSUME NEW x, NEW t, NEW u, NEW q, Sound("raise", x, t, u, q),
         NEW m, NEW g, NEW s, NEW e, Above(u, t, m, g, s, e), ~ Inner(u, s, m, t), ~ IsRed(u, e),
         NEW y, Painted(u, Exchanged(u, m, g), y),
         NEW o, o = Other(s), NEW v, v = Rotate(y, o, g)
  PROVE  Sound("raise", x, t, v, q)
<1> DEFINE M == Elems(q)
           R == Ranks(q)
<1>1. PICK sub, height : Parts("raise", t, u, q, M, R, sub, height)
  BY SoundParts
<1>2. u \in Trees /\ Keyed(u, q)
  BY <1>1 DEF Parts
<1>3. Strict(R) /\ Shape(u.root, u.ch, u.p, M, R, sub)
  BY <1>1 DEF Parts
<1>4. Nil \notin M
  BY <1>1, NodesAssumption DEF Parts
<1>5. Raised(u, M, t, height)
  BY <1>1 DEF Parts, Hued
<1> HIDE DEF M, R
<1>6. Family(u, M, t, m, g, s, e) /\ t # u.root
  <2>1. t # u.root /\ m = u.p[t] /\ u.red[m] /\ g = u.p[m] /\ s = SideOf(u, m)
        /\ e = u.ch[Other(s)][g]
    BY DEF Above
  <2>2. Family(u, M, t, m, g, s, e)
    BY <1>2, <1>3, <1>5, <2>1, FamilyFacts
  <2> QED BY <2>1, <2>2
<1>7. /\ y \in Trees /\ y.root = u.root /\ y.ch = u.ch /\ y.p = u.p
      /\ y.red = [u.red EXCEPT ![m] = FALSE, ![g] = TRUE]
  BY DEF Painted, Exchanged
<1>8. o \in Sides /\ g \in M /\ u.ch[Other(o)][g] # Nil
  BY <1>4, <1>6, SideCases DEF Family
<1>9. /\ y \in Trees /\ Shape(y.root, y.ch, y.p, M, R, sub) /\ y.ch[Other(o)][g] # Nil
      /\ o \in Sides /\ g \in M
  BY <1>3, <1>7, <1>8
<1>10. Spun(y, M, R, o, g, v)
  BY <1>3, <1>9, RotateSpun
<1>11. Rotated(y, M, o, g, v) /\ Linked(v, M)
  BY <1>10 DEF Spun
<1>12. PICK height2 : Raised(v, M, t, height2)
  BY <1>2, <1>3, <1>5, <1>6, <1>7, <1>11, OuterHues DEF Inner, IsRed
<1>13. Hued("raise", t, v, M, height2)
  BY <1>12 DEF Hued
<1>14. Keyed(y, q)
  BY <1>2 DEF Painted, Keyed
<1> QED BY <1>10, <1>13, <1>14, SpunSound DEF M, R

(* EndInsert: at the root or below a black node nothing is wrong.            *)
LEMMA EndInsertSound ==
  ASSUME NEW x, NEW t, NEW u, NEW q, Sound("raise", x, t, u, q),
         RaisedEnough(u, t),
         NEW v, Painted(u, Blackened(u, u.root), v)
  PROVE  Sound("idle", Nil, Nil, v, q)
<1> DEFINE M == Elems(q)
           R == Ranks(q)
<1>1. PICK sub, height : Parts("raise", t, u, q, M, R, sub, height)
  BY SoundParts
<1>2. u \in Trees /\ Keyed(u, q)
  BY <1>1 DEF Parts
<1>3. Strict(R) /\ Shape(u.root, u.ch, u.p, M, R, sub)
  BY <1>1 DEF Parts
<1>4. Nil \notin M
  BY <1>1, NodesAssumption DEF Parts
<1>5. Raised(u, M, t, height)
  BY <1>1 DEF Parts, Hued
<1> HIDE DEF M, R
<1>7. /\ v \in Trees /\ v.root = u.root /\ v.ch = u.ch /\ v.p = u.p
      /\ v.red = [u.red EXCEPT ![u.root] = FALSE]
  BY DEF Painted, Blackened
<1>8. PICK height2 : Calm(v, M, height2)
  BY <1>2, <1>3, <1>5, <1>7, RootPainted DEF RaisedEnough
<1>9. Hued("idle", Nil, v, M, height2)
  BY <1>8 DEF Hued
<1> QED BY <1>2, <1>3, <1>9, PaintedSound DEF M, R

(* The loop that makes up for a black node: m is the parent, w the sibling.  *)
LEMMA LowerRedSiblingSound ==
  ASSUME NEW x, NEW t, NEW u, NEW q, Sound("lower", x, t, u, q),
         NEW m, NEW d, NEW w, Beside(u, t, m, d, w), IsRed(u, w),
         NEW y, Painted(u, Exchanged(u, w, m), y),
         NEW v, v = Rotate(y, d, m)
  PROVE  Sound("lower", x, t, v, q)
<1> DEFINE M == Elems(q)
           R == Ranks(q)
<1>1. PICK sub, height : Parts("lower", t, u, q, M, R, sub, height)
  BY SoundParts
<1>2. u \in Trees /\ Keyed(u, q)
  BY <1>1 DEF Parts
<1>3. Strict(R) /\ Shape(u.root, u.ch, u.p, M, R, sub)
  BY <1>1 DEF Parts
<1>4. Nil \notin M
  BY <1>1, NodesAssumption DEF Parts
<1>5. Lowered(u, M, t, height)
  BY <1>1 DEF Parts, Hued
<1> HIDE DEF M, R
<1>6. Kin(u, M, t, m, d, w) /\ Deep(u.ch, u.red, M, t, m, d, height) /\ Calmly(u.ch, u.red, M)
  <2>1. t # u.root /\ ~ u.red[t] /\ m = u.p[t] /\ d = SideOf(u, t) /\ w = u.ch[Other(d)][m]
    BY DEF Beside
  <2> QED BY <1>2, <1>3, <1>5, <2>1, KinFacts
<1>7. /\ y \in Trees /\ y.root = u.root /\ y.ch = u.ch /\ y.p = u.p
      /\ y.red = [u.red EXCEPT ![w] = FALSE, ![m] = TRUE]
  BY DEF Painted, Exchanged
<1>8. d \in Sides /\ m \in M /\ u.ch[Other(d)][m] # Nil
  BY <1>4, <1>6 DEF Kin
<1>9. /\ y \in Trees /\ Shape(y.root, y.ch, y.p, M, R, sub) /\ y.ch[Other(d)][m] # Nil
      /\ d \in Sides /\ m \in M
  BY <1>3, <1>7, <1>8
<1>10. Spun(y, M, R, d, m, v)
  BY <1>3, <1>9, RotateSpun
<1>11. Rotated(y, M, d, m, v) /\ Linked(v, M)
  BY <1>10 DEF Spun
<1>12. SiblingPainted(u, w, m, y)
  BY <1>7 DEF SiblingPainted, IsRed
<1>13. LoweredSome(v, M, t)
  BY <1>2, <1>3, <1>6, <1>11, <1>12, RedSiblingHues
<1>14. PICK height2 : Lowered(v, M, t, height2)
  BY <1>13 DEF LoweredSome
<1>15. Hued("lower", t, v, M, height2)
  BY <1>14 DEF Hued
<1>16. Keyed(y, q)
  BY <1>2 DEF Painted, Keyed
<1> QED BY <1>10, <1>15, <1>16, SpunSound DEF M, R

(* LowerBlackNephews: what is missing moves up to the parent.                *)
LEMMA LowerBlackNephewsSound ==
  ASSUME NEW x, NEW t, NEW u, NEW q, Sound("lower", x, t, u, q),
         NEW m, NEW d, NEW w, Beside(u, t, m, d, w), ~ IsRed(u, w),
         BlackNephews(u, w),
         NEW v, Painted(u, Reddened(u, w), v)
  PROVE  Sound("lower", x, m, v, q)
<1> DEFINE M == Elems(q)
           R == Ranks(q)
<1>1. PICK sub, height : Parts("lower", t, u, q, M, R, sub, height)
  BY SoundParts
<1>2. u \in Trees /\ Keyed(u, q)
  BY <1>1 DEF Parts
<1>3. Strict(R) /\ Shape(u.root, u.ch, u.p, M, R, sub)
  BY <1>1 DEF Parts
<1>4. Nil \notin M
  BY <1>1, NodesAssumption DEF Parts
<1>5. Lowered(u, M, t, height)
  BY <1>1 DEF Parts, Hued
<1> HIDE DEF M, R
<1>6. Kin(u, M, t, m, d, w) /\ Deep(u.ch, u.red, M, t, m, d, height) /\ Calmly(u.ch, u.red, M)
  <2>1. t # u.root /\ ~ u.red[t] /\ m = u.p[t] /\ d = SideOf(u, t) /\ w = u.ch[Other(d)][m]
    BY DEF Beside
  <2> QED BY <1>2, <1>3, <1>5, <2>1, KinFacts
<1>7. /\ v \in Trees /\ v.root = u.root /\ v.ch = u.ch /\ v.p = u.p
      /\ v.red = [u.red EXCEPT ![w] = TRUE]
  BY DEF Painted, Reddened
<1>8. NephewsPainted(u, w, v)
  BY <1>7 DEF NephewsPainted, IsRed, BlackNephews
<1>9. LoweredSome(v, M, m)
  BY <1>2, <1>3, <1>6, <1>8, BlackNephewsHues
<1>10. PICK height2 : Lowered(v, M, m, height2)
  BY <1>9 DEF LoweredSome
<1>11. Hued("lower", m, v, M, height2)
  BY <1>10 DEF Hued
<1> QED BY <1>2, <1>3, <1>11, PaintedSound DEF M, R

(* LowerRedNear: the far nephew is red from now on.                          *)
LEMMA LowerRedNearSound ==
  ASSUME NEW x, NEW t, NEW u, NEW q, Sound("lower", x, t, u, q),
         NEW m, NEW d, NEW w, Beside(u, t, m, d, w), ~ IsRed(u, w),
         NEW k, NearRed(u, w, d, k),
         NEW o, o = Other(d),
         NEW y, Painted(u, Exchanged(u, k, w), y),
         NEW v, v = Rotate(y, o, w)
  PROVE  Sound("lower", x, t, v, q)
<1> DEFINE M == Elems(q)
           R == Ranks(q)
<1>1. PICK sub, height : Parts("lower", t, u, q, M, R, sub, height)
  BY SoundParts
<1>2. u \in Trees /\ Keyed(u, q)
  BY <1>1 DEF Parts
<1>3. Strict(R) /\ Shape(u.root, u.ch, u.p, M, R, sub)
  BY <1>1 DEF Parts
<1>4. Nil \notin M
  BY <1>1, NodesAssumption DEF Parts
<1>5. Lowered(u, M, t, height)
  BY <1>1 DEF Parts, Hued
<1> HIDE DEF M, R
<1>6. Kin(u, M, t, m, d, w) /\ Deep(u.ch, u.red, M, t, m, d, height) /\ Calmly(u.ch, u.red, M)
  <2>1. t # u.root /\ ~ u.red[t] /\ m = u.p[t] /\ d = SideOf(u, t) /\ w = u.ch[Other(d)][m]
    BY DEF Beside
  <2> QED BY <1>2, <1>3, <1>5, <2>1, KinFacts
<1>7. /\ y \in Trees /\ y.root = u.root /\ y.ch = u.ch /\ y.p = u.p
      /\ y.red = [u.red EXCEPT ![k] = FALSE, ![w] = TRUE]
  BY DEF Painted, Exchanged
<1>8. o \in Sides /\ w \in M /\ u.ch[Other(o)][w] # Nil
  <2>1. d \in Sides /\ w \in M /\ o \in Sides /\ Other(o) = d
    BY <1>6, SideCases DEF Kin
  <2>2. k # Nil /\ k = u.ch[d][w]
    BY <1>6 DEF Calmly, NearRed
  <2> QED BY <2>1, <2>2
<1>9. /\ y \in Trees /\ Shape(y.root, y.ch, y.p, M, R, sub) /\ y.ch[Other(o)][w] # Nil
      /\ o \in Sides /\ w \in M
  BY <1>3, <1>7, <1>8
<1>10. Spun(y, M, R, o, w, v)
  BY <1>3, <1>9, RotateSpun
<1>11. Rotated(y, M, o, w, v) /\ Linked(v, M)
  BY <1>10 DEF Spun
<1>12. PICK height2 : Lowered(v, M, t, height2)
  <2>1. NearPainted(u, w, d, k, y)
    BY <1>7 DEF NearPainted, IsRed, NearRed
  <2> QED BY <1>2, <1>3, <1>6, <1>11, <2>1, RedNearHues
<1>13. Hued("lower", t, v, M, height2)
  BY <1>12 DEF Hued
<1>14. Keyed(y, q)
  BY <1>2 DEF Painted, Keyed
<1> QED BY <1>10, <1>13, <1>14, SpunSound DEF M, R

(* LowerRedFar: the last turn of the loop.                                   *)
LEMMA LowerRedFarSound ==
  ASSUME NEW x, NEW t, NEW u, NEW q, Sound("lower", x, t, u, q),
         NEW m, NEW d, NEW w, Beside(u, t, m, d, w), ~ IsRed(u, w),
         NEW f, FarRed(u, w, d, f), NEW hue, HueOf(u, m, hue),
         NEW y, Painted(u, LastHues(u, w, hue, m, f), y),
         NEW v, v = Rotate(y, d, m)
  PROVE  Sound("lower", x, v.root, v, q)
<1> DEFINE M == Elems(q)
           R == Ranks(q)
<1>1. PICK sub, height : Parts("lower", t, u, q, M, R, sub, height)
  BY SoundParts
<1>2. u \in Trees /\ Keyed(u, q)
  BY <1>1 DEF Parts
<1>3. Strict(R) /\ Shape(u.root, u.ch, u.p, M, R, sub)
  BY <1>1 DEF Parts
<1>4. Nil \notin M
  BY <1>1, NodesAssumption DEF Parts
<1>5. Lowered(u, M, t, height)
  BY <1>1 DEF Parts, Hued
<1> HIDE DEF M, R
<1>6. Kin(u, M, t, m, d, w) /\ Deep(u.ch, u.red, M, t, m, d, height) /\ Calmly(u.ch, u.red, M)
  <2>1. t # u.root /\ ~ u.red[t] /\ m = u.p[t] /\ d = SideOf(u, t) /\ w = u.ch[Other(d)][m]
    BY DEF Beside
  <2> QED BY <1>2, <1>3, <1>5, <2>1, KinFacts
<1>7. /\ y \in Trees /\ y.root = u.root /\ y.ch = u.ch /\ y.p = u.p
      /\ y.red = [u.red EXCEPT ![w] = hue, ![m] = FALSE, ![f] = FALSE]
  BY DEF Painted, LastHues
<1>8. d \in Sides /\ m \in M /\ u.ch[Other(d)][m] # Nil
  BY <1>4, <1>6 DEF Kin
<1>9. /\ y \in Trees /\ Shape(y.root, y.ch, y.p, M, R, sub) /\ y.ch[Other(d)][m] # Nil
      /\ d \in Sides /\ m \in M
  BY <1>3, <1>7, <1>8
<1>10. Spun(y, M, R, d, m, v)
  BY <1>3, <1>9, RotateSpun
<1>11. Rotated(y, M, d, m, v) /\ Linked(v, M)
  BY <1>10 DEF Spun
<1>12. FarPainted(u, w, m, d, f, hue, y)
  BY <1>7 DEF FarPainted, IsRed, FarRed, HueOf
<1>13. LoweredSome(v, M, v.root)
  BY <1>2, <1>3, <1>6, <1>11, <1>12, RedFarHues
<1>14. PICK height2 : Lowered(v, M, v.root, height2)
  BY <1>13 DEF LoweredSome
<1>15. Hued("lower", v.root, v, M, height2)
  BY <1>14 DEF Hued
<1>16. Keyed(y, q)
  BY <1>2 DEF Painted, Keyed
<1> QED BY <1>10, <1>15, <1>16, SpunSound DEF M, R

(* EndDelete: at a red node, or at the root, black paint makes it good.      *)
LEMMA EndDeleteSound ==
  ASSUME NEW x, NEW t, NEW u, NEW q, Sound("lower", x, t, u, q), LoweredEnough(u, t),
         NEW v, Painted(u, Blackened(u, t), v)
  PROVE  Sound("idle", Nil, Nil, v, q)
<1> DEFINE M == Elems(q)
           R == Ranks(q)
<1>1. PICK sub, height : Parts("lower", t, u, q, M, R, sub, height)
  BY SoundParts
<1>2. u \in Trees /\ Keyed(u, q)
  BY <1>1 DEF Parts
<1>3. Strict(R) /\ Shape(u.root, u.ch, u.p, M, R, sub)
  BY <1>1 DEF Parts
<1>4. Nil \notin M
  BY <1>1, NodesAssumption DEF Parts
<1>5. Lowered(u, M, t, height)
  BY <1>1 DEF Parts, Hued
<1> HIDE DEF M, R
<1>7. /\ v \in Trees /\ v.root = u.root /\ v.ch = u.ch /\ v.p = u.p
      /\ v.red = [u.red EXCEPT ![t] = FALSE]
  BY DEF Painted, Blackened
<1>8. PICK height2 : Calm(v, M, height2)
  BY <1>2, <1>3, <1>5, <1>7, NodePainted DEF LoweredEnough
<1>9. Hued("idle", Nil, v, M, height2)
  BY <1>8 DEF Hued
<1> QED BY <1>2, <1>3, <1>9, PaintedSound DEF M, R

-------------------------------------------------------------------------------
(* The steps that only look, one lemma for each.                             *)

(* A search starts at the root, where every member is below.                 *)
LEMMA RootSub ==
  ASSUME NEW u, NEW M, NEW R, NEW sub, Shape(u.root, u.ch, u.p, M, R, sub)
  PROVE  /\ sub[u.root] = M /\ u.root \in M \union {Nil} /\ (M # {} => u.root \in M)
         /\ Nil \notin M /\ M \subseteq Nodes
         /\ \A n \in M : n \in sub[n] /\ n # Nil
<1>1. sub[u.root] = M /\ u.root \in M \union {Nil} /\ M \subseteq Nodes /\ sub[Nil] = {}
  BY DEF Shape, Links, Spans
<1>2. \A n \in M : n \in sub[n]
  BY DEF Shape, Spans
<1> QED BY <1>1, <1>2, NodesAssumption

(* No member is below one of its own children.                               *)
LEMMA NotBelowItself ==
  ASSUME NEW u, NEW M, NEW R, NEW sub, Strict(R), Shape(u.root, u.ch, u.p, M, R, sub),
         NEW n \in M, NEW s \in Sides
  PROVE  n \notin sub[u.ch[s][n]]
<1>1. n \in Nodes
  BY DEF Shape, Links
<1>2. \A k \in sub[u.ch[s][n]] : Prec(R, s, k, n)
  BY DEF Shape, Sorted
<1> QED BY <1>1, <1>2 DEF Prec, Strict

(* StartInsert: every place of the tree is below the root.                   *)
LEMMA StartInsertSound ==
  ASSUME NEW x, NEW t, NEW u, NEW q, Sound("idle", x, t, u, q), u.root # Nil,
         NEW n \in Nodes, n \notin Elems(q), NEW v, v = [u EXCEPT !.key[n] = KeyOf[n]]
  PROVE  Sound("place", n, u.root, v, q)
<1> DEFINE M == Elems(q)
           R == Ranks(q)
<1>1. PICK sub, height : Parts("idle", t, u, q, M, R, sub, height)
  BY SoundParts
<1>2. /\ u \in Trees /\ Keyed(u, q) /\ Strict(R) /\ Shape(u.root, u.ch, u.p, M, R, sub)
      /\ Calm(u, M, height)
  BY <1>1 DEF Parts, Hued
<1>3. \A k \in M : u.key[k] = KeyOf[k]
  BY <1>2 DEF Keyed
<1>4. SortedList(q)
  BY <1>2 DEF Keyed
<1>5. n \in Nodes \ M
  OBVIOUS
<1> HIDE DEF M, R
<1>6. /\ sub[u.root] = M /\ u.root \in M /\ M \subseteq Nodes
  BY <1>2, RootSub
<1>7. /\ v \in Trees /\ v.root = u.root /\ v.ch = u.ch /\ v.p = u.p /\ v.red = u.red
      /\ v.key[n] = KeyOf[n] /\ \A k \in All \ {n} : v.key[k] = u.key[k]
  BY <1>2, <1>5, KeyOfAssumption DEF Trees, All
<1>8. ASSUME NEW k \in M, NEW s \in Sides PROVE u.root \notin sub[u.ch[s][k]]
  <2>1. SUFFICES ASSUME u.root \in sub[u.ch[s][k]] PROVE FALSE
    OBVIOUS
  <2>2. u.ch[s][k] \in M
    BY <1>2, <2>1 DEF Shape, Links, Spans
  <2>3. sub[u.root] \subseteq sub[u.ch[s][k]]
    BY <1>2, <2>1, <2>2, Nested
  <2> QED BY <1>2, <1>6, <2>3, NotBelowItself
<1>9. Placing(n, u.root, v, M, sub)
  BY <1>5, <1>6, <1>7, <1>8 DEF Placing
<1>10. \A k \in M : v.key[k] = KeyOf[k]
  BY <1>3, <1>5, <1>6, <1>7 DEF All
<1>11. Stands("place", n, u.root, v, M, R, sub)
  BY <1>9 DEF Stands
<1>12. Shape(v.root, v.ch, v.p, M, R, sub)
  BY <1>2, <1>7
<1>13. Calm(v, M, height)
  BY <1>2, <1>7 DEF Calm
<1>14. Hued("place", u.root, v, M, height)
  BY <1>13 DEF Hued
<1> QED BY <1>4, <1>7, <1>10, <1>11, <1>12, <1>14 DEF Sound, M, R

(* A step that leaves the tree alone: what it stands for has to be shown.    *)
LEMMA LookSound ==
  ASSUME NEW a, NEW x, NEW t, NEW u, NEW q, Sound(a, x, t, u, q), a \notin {"raise", "lower"},
         NEW a2, a2 \notin {"raise", "lower"}, NEW x2, NEW t2,
         \A sub : /\ Strict(Ranks(q)) /\ Elems(q) \subseteq Nodes
                  /\ Shape(u.root, u.ch, u.p, Elems(q), Ranks(q), sub)
                  /\ Stands(a, x, t, u, Elems(q), Ranks(q), sub)
                  => Stands(a2, x2, t2, u, Elems(q), Ranks(q), sub)
  PROVE  Sound(a2, x2, t2, u, q)
<1>1. u \in Trees /\ SortedList(q) /\ \A n \in Elems(q) : u.key[n] = KeyOf[n]
  BY DEF Sound
<1>2. Strict(Ranks(q)) /\ Elems(q) \subseteq Nodes
  BY <1>1, RankFacts
<1>3. PICK sub : /\ Shape(u.root, u.ch, u.p, Elems(q), Ranks(q), sub)
                 /\ Stands(a, x, t, u, Elems(q), Ranks(q), sub)
  BY DEF Sound
<1>4. Stands(a2, x2, t2, u, Elems(q), Ranks(q), sub)
  BY <1>2, <1>3
<1>5. PICK height : Hued(a, t, u, Elems(q), height)
  BY DEF Sound
<1>6. Hued(a2, t2, u, Elems(q), height)
  BY <1>5 DEF Hued
<1> QED BY <1>1, <1>3, <1>4, <1>6 DEF Sound

(* Descend: the place of the new node is below the child on its side.        *)
LEMMA DescendSound ==
  ASSUME NEW x, NEW t, NEW u, NEW q, Sound("place", x, t, u, q),
         NEW w, w = u.ch[SideFor(u, x, t)][t], w # Nil
  PROVE  Sound("place", x, w, u, q)
<1> DEFINE M == Elems(q)
           R == Ranks(q)
<1> HIDE DEF M, R
<1>1. ASSUME NEW sub, Strict(R), Shape(u.root, u.ch, u.p, M, R, sub),
             Stands("place", x, t, u, M, R, sub)
      PROVE  Stands("place", x, w, u, M, R, sub)
  <2>1. Placing(x, t, u, M, sub)
    BY <1>1 DEF Stands
  <2>2. Placing(x, w, u, M, sub)
    BY <1>1, <2>1, DescendStands
  <2> QED BY <2>2 DEF Stands
<1> QED BY <1>1, LookSound DEF M, R

(* StartDelete: a node with two children is taken for the first on its       *)
(* right.                                                                    *)
LEMMA StartDeleteSound ==
  ASSUME NEW x, NEW t, NEW u, NEW q, Sound("idle", x, t, u, q), NEW n \in Elems(q)
  PROVE  IF u.ch["l"][n] # Nil /\ u.ch["r"][n] # Nil
         THEN Sound("subst", n, u.ch["r"][n], u, q) ELSE Sound("unlink", n, n, u, q)
<1> DEFINE M == Elems(q)
           R == Ranks(q)
<1>0. n \in M
  OBVIOUS
<1> HIDE DEF M, R
<1>1. ASSUME u.ch["l"][n] # Nil, u.ch["r"][n] # Nil PROVE Sound("subst", n, u.ch["r"][n], u, q)
  <2>1. ASSUME NEW sub, Strict(R), Shape(u.root, u.ch, u.p, M, R, sub)
        PROVE  Stands("subst", n, u.ch["r"][n], u, M, R, sub)
    <3>1. \A s \in Sides : u.ch[s][n] # Nil
      BY <1>1 DEF Sides
    <3>2. u.ch["r"][n] \in M
      BY <1>0, <1>1, <2>1 DEF Shape, Links, Sides
    <3>3. \A k \in M : k \in sub[k]
      BY <2>1, RootSub
    <3>4. u.ch["r"][n] \in sub[u.ch["r"][n]]
      BY <3>2, <3>3
    <3>5. Choosing(n, u.ch["r"][n], u, M, R, sub)
      BY <1>0, <3>1, <3>4 DEF Choosing, Foremost
    <3> QED BY <3>5 DEF Stands
  <2> QED BY <2>1, LookSound DEF M, R
<1>2. ASSUME ~ (u.ch["l"][n] # Nil /\ u.ch["r"][n] # Nil) PROVE Sound("unlink", n, n, u, q)
  <2>1. ASSUME NEW sub PROVE Stands("unlink", n, n, u, M, R, sub)
    <3>1. \E s \in Sides : u.ch[s][n] = Nil
      BY <1>2 DEF Sides
    <3>2. Leaving(n, n, u, M, R, sub)
      BY <1>0, <3>1 DEF Leaving
    <3> QED BY <3>2 DEF Stands
  <2> QED BY <2>1, LookSound DEF M, R
<1> QED BY <1>1, <1>2

(* The walk to the left, from the right child of the node to delete or from  *)
(* the root.                                                                 *)
LEMMA WalkLeftSound ==
  ASSUME NEW a \in {"subst", "min"}, NEW x, NEW t, NEW u, NEW q, Sound(a, x, t, u, q),
         u.ch["l"][t] # Nil
  PROVE  Sound(a, x, u.ch["l"][t], u, q)
<1> DEFINE M == Elems(q)
           R == Ranks(q)
           w == u.ch["l"][t]
<1> HIDE DEF M, R
<1>1. ASSUME NEW sub, Strict(R), M \subseteq Nodes, Shape(u.root, u.ch, u.p, M, R, sub),
             Stands(a, x, t, u, M, R, sub)
      PROVE  Stands(a, x, w, u, M, R, sub)
  <2>1. CASE a = "subst"
    <3>1. Choosing(x, t, u, M, R, sub)
      BY <1>1, <2>1 DEF Stands
    <3>2. u.ch["r"][x] \in M
      BY <1>1, <3>1 DEF Choosing, Shape, Links, Sides
    <3>3. Foremost(R, sub[u.ch["r"][x]], sub, t)
      BY <3>1 DEF Choosing
    <3>4. Foremost(R, sub[u.ch["r"][x]], sub, w)
      BY <1>1, <3>2, <3>3, WalkLeftForemost
    <3>5. Choosing(x, w, u, M, R, sub)
      BY <3>1, <3>4 DEF Choosing
    <3> QED BY <2>1, <3>5 DEF Stands
  <2>2. CASE a = "min"
    <3>1. Foremost(R, M, sub, t)
      BY <1>1, <2>2 DEF Stands
    <3>2. sub[u.root] = M /\ u.root \in M
      <4>1. M # {}
        BY <3>1 DEF Foremost
      <4> QED BY <1>1, <4>1, RootSub
    <3>3. Foremost(R, sub[u.root], sub, t)
      BY <3>1, <3>2
    <3>4. Foremost(R, sub[u.root], sub, w)
      BY <1>1, <3>2, <3>3, WalkLeftForemost
    <3>5. Foremost(R, M, sub, w)
      BY <3>2, <3>4
    <3> QED BY <2>2, <3>5 DEF Stands
  <2> QED BY <2>1, <2>2
<1>2. a \notin {"raise", "lower"}
  OBVIOUS
<1> HIDE DEF w
<1>3. Sound(a, x, w, u, q)
  BY <1>1, <1>2, LookSound DEF M, R
<1> QED BY <1>3 DEF w

(* EndWalk in a deletion: the first on the right is found.                   *)
LEMMA EndSubstSound ==
  ASSUME NEW x, NEW t, NEW u, NEW q, Sound("subst", x, t, u, q), u.ch["l"][t] = Nil
  PROVE  Sound("unlink", x, t, u, q)
<1> DEFINE M == Elems(q)
           R == Ranks(q)
<1> HIDE DEF M, R
<1>1. ASSUME NEW sub, Strict(R), M \subseteq Nodes, Shape(u.root, u.ch, u.p, M, R, sub),
             Stands("subst", x, t, u, M, R, sub)
      PROVE  Stands("unlink", x, t, u, M, R, sub)
  <2>1. Choosing(x, t, u, M, R, sub)
    BY <1>1 DEF Stands
  <2>2. u.ch["r"][x] \in M /\ x \in M
    BY <1>1, <2>1 DEF Choosing, Shape, Links, Sides
  <2>3. Foremost(R, sub[u.ch["r"][x]], sub, t)
    BY <2>1 DEF Choosing
  <2>4. FirstOf(R, sub[u.ch["r"][x]], t)
    BY <1>1, <2>2, <2>3, EndWalkFirst
  <2>5. x \notin sub[u.ch["r"][x]]
    BY <1>1, <2>2, NotBelowItself DEF Sides
  <2>6. t # x
    BY <2>4, <2>5 DEF FirstOf
  <2>7. Leaving(x, t, u, M, R, sub)
    BY <2>1, <2>2, <2>4, <2>6 DEF Choosing, Leaving
  <2> QED BY <2>7 DEF Stands
<1> QED BY <1>1, LookSound DEF M, R

(* EndWalk in ws_rbtree_min: the first of all is found.                      *)
LEMMA EndMinSound ==
  ASSUME NEW x, NEW t, NEW u, NEW q, Sound("min", x, t, u, q), u.ch["l"][t] = Nil
  PROVE  Sound("least", x, t, u, q)
<1> DEFINE M == Elems(q)
           R == Ranks(q)
<1> HIDE DEF M, R
<1>1. ASSUME NEW sub, Strict(R), M \subseteq Nodes, Shape(u.root, u.ch, u.p, M, R, sub),
             Stands("min", x, t, u, M, R, sub)
      PROVE  Stands("least", x, t, u, M, R, sub)
  <2>1. Foremost(R, M, sub, t)
    BY <1>1 DEF Stands
  <2>2. sub[u.root] = M /\ u.root \in M
    <3>1. M # {}
      BY <2>1 DEF Foremost
    <3> QED BY <1>1, <3>1, RootSub
  <2>3. Foremost(R, sub[u.root], sub, t)
    BY <2>1, <2>2
  <2>4. FirstOf(R, sub[u.root], t)
    BY <1>1, <2>2, <2>3, EndWalkFirst
  <2>5. FirstOf(R, M, t)
    BY <2>2, <2>4
  <2> QED BY <2>5 DEF Stands
<1> QED BY <1>1, LookSound DEF M, R

(* StartMin: the first of all is below the root.                             *)
LEMMA StartMinSound ==
  ASSUME NEW x, NEW t, NEW u, NEW q, Sound("idle", x, t, u, q), u.root # Nil
  PROVE  Sound("min", x, u.root, u, q)
<1> DEFINE M == Elems(q)
           R == Ranks(q)
<1> HIDE DEF M, R
<1>1. ASSUME NEW sub, Shape(u.root, u.ch, u.p, M, R, sub)
      PROVE  Stands("min", x, u.root, u, M, R, sub)
  <2>1. sub[u.root] = M /\ u.root \in M
    BY <1>1, RootSub
  <2>2. Foremost(R, M, sub, u.root)
    BY <2>1 DEF Foremost
  <2> QED BY <2>2 DEF Stands
<1> QED BY <1>1, LookSound DEF M, R

(* StartGet: every node with the key is below the root.                      *)
LEMMA StartGetSound ==
  ASSUME NEW x, NEW t, NEW u, NEW q, Sound("idle", x, t, u, q), NEW k
  PROVE  Sound("get", k, u.root, u, q)
<1> DEFINE M == Elems(q)
           R == Ranks(q)
<1> HIDE DEF M, R
<1>1. ASSUME NEW sub, Shape(u.root, u.ch, u.p, M, R, sub)
      PROVE  Stands("get", k, u.root, u, M, R, sub)
  <2>1. sub[u.root] = M /\ u.root \in M \union {Nil}
    BY <1>1, RootSub
  <2>2. Seeking(k, u.root, M, sub)
    BY <2>1 DEF Seeking
  <2> QED BY <2>2 DEF Stands
<1> QED BY <1>1, LookSound DEF M, R

(* Seek: a child on the wrong side has no node with the key below it.        *)
LEMMA SeekSound ==
  ASSUME NEW x \in Nat, NEW t, NEW u, NEW q, Sound("get", x, t, u, q), t # Nil, u.key[t] # x,
         NEW w, w = u.ch[IF u.key[t] > x THEN "l" ELSE "r"][t]
  PROVE  Sound("get", x, w, u, q)
<1> DEFINE M == Elems(q)
           R == Ranks(q)
<1>1. SortedList(q) /\ \A n \in M : u.key[n] = KeyOf[n]
  BY DEF Sound
<1>2. \A m, n : <<m, n>> \in R => KeyOf[m] <= KeyOf[n]
  BY <1>1, RankFacts
<1> HIDE DEF M, R
<1>3. ASSUME NEW sub, Strict(R), Shape(u.root, u.ch, u.p, M, R, sub),
             Stands("get", x, t, u, M, R, sub)
      PROVE  Stands("get", x, w, u, M, R, sub)
  <2>1. Seeking(x, t, M, sub)
    BY <1>3 DEF Stands
  <2>2. Seeking(x, w, M, sub)
    BY <1>1, <1>2, <1>3, <2>1, SeekStands
  <2> QED BY <2>2 DEF Stands
<1> QED BY <1>3, LookSound DEF M, R

(* EndGet: what was found.                                                   *)
LEMMA EndGetSound ==
  ASSUME NEW x, NEW t, NEW u, NEW q, Sound("get", x, t, u, q), t = Nil \/ u.key[t] = x
  PROVE  Sound("found", x, t, u, q)
<1> DEFINE M == Elems(q)
           R == Ranks(q)
<1>1. \A n \in M : u.key[n] = KeyOf[n]
  BY DEF Sound
<1> HIDE DEF M, R
<1>2. ASSUME NEW sub, Strict(R), Shape(u.root, u.ch, u.p, M, R, sub),
             Stands("get", x, t, u, M, R, sub)
      PROVE  Stands("found", x, t, u, M, R, sub)
  <2>1. Seeking(x, t, M, sub)
    BY <1>2 DEF Stands
  <2>2. Found(x, t, M)
    BY <1>1, <1>2, <2>1, EndGetFound
  <2> QED BY <2>2 DEF Stands
<1> QED BY <1>2, LookSound DEF M, R

(* An operation that only looked leaves the tree as it was.                  *)
LEMMA IdleSound ==
  ASSUME NEW a, NEW x, NEW t, NEW u, NEW q, Sound(a, x, t, u, q), a \notin {"raise", "lower"}
  PROVE  Sound("idle", Nil, Nil, u, q)
<1>1. ASSUME NEW sub PROVE Stands("idle", Nil, Nil, u, Elems(q), Ranks(q), sub)
  BY DEF Stands
<1> QED BY <1>1, LookSound

-------------------------------------------------------------------------------
(* The lists after an insertion and after a deletion.                        *)
LEMMA LinkedList ==
  ASSUME NEW q, SortedList(q), NEW n \in Nodes \ Elems(q), NEW i \in 0..Len(q),
         {j \in 1..Len(q) : KeyOf[q[j]] <= KeyOf[n]} = 1..i,
         NEW w, w = SubSeq(q, 1, i) \o <<n>> \o SubSeq(q, i + 1, Len(q))
  PROVE  Joined(q, n, w)
<1> DEFINE size == Len(q)
<1>1. q \in Seq(Nodes) /\ size \in Nat
  BY DEF SortedList
<1>2. Inserted(q, size, n, i, w)
  BY <1>1, InsertedAt
<1>3. i \in Nat
  OBVIOUS
<1>4. \A j \in 1..size : KeyOf[q[j]] <= KeyOf[n] <=> j <= i
  <2> SUFFICES ASSUME NEW j \in 1..size PROVE KeyOf[q[j]] <= KeyOf[n] <=> j <= i
    OBVIOUS
  <2>1. j \in 1..i <=> KeyOf[q[j]] <= KeyOf[n]
    OBVIOUS
  <2>2. j \in 1..i <=> j <= i
    BY <1>1, <1>3
  <2> QED BY <2>1, <2>2
<1>5. i \in 0..size /\ size = Len(q)
  OBVIOUS
<1> HIDE DEF size
<1> QED BY <1>1, <1>2, <1>4, <1>5, InsertRanks

(* What a deletion does to the list.                                         *)
LEMMA UnlinkedList ==
  ASSUME NEW q, SortedList(q), NEW i \in 1..Len(q),
         NEW w, w = SubSeq(q, 1, i - 1) \o SubSeq(q, i + 1, Len(q))
  PROVE  Left(q, q[i], w)
<1> DEFINE size == Len(q)
<1>1. q \in Seq(Nodes) /\ size \in Nat
  BY DEF SortedList
<1>2. Removed(q, size, i, w)
  BY <1>1, RemovedAt
<1>3. i \in 1..size /\ size = Len(q)
  OBVIOUS
<1> HIDE DEF size
<1> QED BY <1>1, <1>2, <1>3, RemoveRanks

-------------------------------------------------------------------------------
(* Every step keeps the invariant.                                           *)
LEMMA InsertFirstInv ==
  ASSUME TreeIInv, NEW n \in Nodes, InsertFirst(n)
  PROVE  TreeIInv'
<1>1. Sound("idle", arg, temp, tree, list) /\ at = "idle"
  BY DEF TreeIInv, InsertFirst
<1>2. Sound("idle", arg, temp, tree', <<n>>)
  BY <1>1, FirstSound DEF InsertFirst
<1> QED BY <1>1, <1>2 DEF TreeIInv, InsertFirst

LEMMA StartInsertInv ==
  ASSUME TreeIInv, NEW n \in Nodes, StartInsert(n)
  PROVE  TreeIInv'
<1>1. Sound("idle", arg, temp, tree, list) /\ at = "idle"
  BY DEF TreeIInv, StartInsert
<1>2. n \notin Elems(list)
  BY DEF StartInsert, Members, Elems
<1>3. Sound("place", n, tree.root, tree', list)
  BY <1>1, <1>2, StartInsertSound DEF StartInsert
<1> QED BY <1>1, <1>3 DEF TreeIInv, StartInsert

LEMMA DescendInv ==
  ASSUME TreeIInv, Descend
  PROVE  TreeIInv'
<1>1. Sound("place", arg, temp, tree, list) /\ at = "place"
  BY DEF TreeIInv, Descend
<1>2. Sound("place", arg, temp', tree, list)
  BY <1>1, DescendSound DEF Descend
<1> QED BY <1>1, <1>2 DEF TreeIInv, Descend

LEMMA LinkInv ==
  ASSUME TreeIInv, Link
  PROVE  TreeIInv'
<1>1. Sound("place", arg, temp, tree, list) /\ at = "place"
  BY DEF TreeIInv, Link
<1>2. SortedList(list) /\ arg \in Nodes \ Elems(list)
  BY <1>1 DEF Sound, Stands, Placing
<1>3. PICK i \in 0..Len(list) : Behind(arg) = 1..i /\ list' = InsertAt(i, arg)
  BY DEF Link
<1>4. Joined(list, arg, list')
  BY <1>2, <1>3, LinkedList DEF Behind, InsertAt
<1> DEFINE s == SideFor(tree, arg, temp)
<1>5. /\ tree.ch[s][temp] = Nil
      /\ tree' = [tree EXCEPT !.ch[s][temp] = arg, !.p[arg] = temp,
                              !.ch["l"][arg] = Nil, !.ch["r"][arg] = Nil, !.red[arg] = TRUE]
      /\ at' = "raise" /\ temp' = arg /\ arg' = arg
  BY DEF Link
<1>6. Sound("raise", arg, arg, tree', list')
  BY <1>1, <1>4, <1>5, LinkSound
<1> QED BY <1>5, <1>6 DEF TreeIInv

(* What the turns of the first loop find.                                    *)
LEMMA RaiseFacts ==
  ASSUME TreeIInv, Raising
  PROVE  /\ at = "raise" /\ Sound("raise", arg, temp, tree, list) /\ tree \in Trees
         /\ temp # tree.root /\ tree.red[tree.p[temp]]
BY DEF TreeIInv, Raising, Parent, Sound

(* A tree in which only colours are other ones.                              *)
LEMMA PaintFields ==
  ASSUME NEW u \in Trees, NEW red \in [All -> BOOLEAN], NEW v, v = [u EXCEPT !.red = red]
  PROVE  Painted(u, red, v)
BY DEF Painted, Trees

LEMMA RaiseRedUncleInv ==
  ASSUME TreeIInv, RaiseRedUncle
  PROVE  TreeIInv'
<1> DEFINE m == tree.p[temp]
           g == tree.p[m]
           s == SideOf(tree, m)
           e == tree.ch[Other(s)][g]
           red == BothBlack(tree, m, e, g)
<1>1. /\ at = "raise" /\ Sound("raise", arg, temp, tree, list) /\ tree \in Trees
      /\ temp # tree.root /\ tree.red[m]
  BY RaiseFacts DEF RaiseRedUncle
<1>2. tree.red[e] /\ at' = at /\ arg' = arg /\ temp' = g /\ list' = list
  BY DEF RaiseRedUncle, Uncle, Side, Grand, Parent
<1>3. tree' = [tree EXCEPT !.red[m] = FALSE, !.red[e] = FALSE, !.red[g] = TRUE]
  BY DEF RaiseRedUncle, Uncle, Side, Grand, Parent
<1>4. tree' = [tree EXCEPT !.red = red]
  BY <1>1, <1>3 DEF Trees, BothBlack
<1>5. red \in [All -> BOOLEAN]
  BY <1>1 DEF Trees, BothBlack
<1>6. Painted(tree, red, tree')
  BY <1>1, <1>4, <1>5, PaintFields
<1>7. Above(tree, temp, m, g, s, e) /\ IsRed(tree, e)
  BY <1>1, <1>2 DEF Above, IsRed
<1> HIDE DEF m, g, s, e
<1>8. Sound("raise", arg, g, tree', list)
  BY <1>1, <1>6, <1>7, RaiseRedUncleSound
<1> QED BY <1>1, <1>2, <1>8 DEF TreeIInv

LEMMA RaiseInnerInv ==
  ASSUME TreeIInv, RaiseInner
  PROVE  TreeIInv'
<1> DEFINE m == tree.p[temp]
           g == tree.p[m]
           s == SideOf(tree, m)
           e == tree.ch[Other(s)][g]
<1>1. /\ at = "raise" /\ Sound("raise", arg, temp, tree, list) /\ tree \in Trees
      /\ temp # tree.root /\ tree.red[m]
  BY RaiseFacts DEF RaiseInner
<1>2. /\ temp = tree.ch[Other(s)][m] /\ tree' = Rotate(tree, s, m)
      /\ at' = at /\ arg' = arg /\ temp' = m /\ list' = list
  BY DEF RaiseInner, Side, Parent
<1>3. Above(tree, temp, m, g, s, e) /\ Inner(tree, s, m, temp)
  BY <1>1, <1>2 DEF Above, Inner
<1> HIDE DEF m, g, s, e
<1>4. Sound("raise", arg, m, tree', list)
  BY <1>1, <1>2, <1>3, RaiseInnerSound
<1> QED BY <1>1, <1>2, <1>4 DEF TreeIInv

LEMMA RaiseOuterInv ==
  ASSUME TreeIInv, RaiseOuter
  PROVE  TreeIInv'
<1> DEFINE m == tree.p[temp]
           g == tree.p[m]
           s == SideOf(tree, m)
           o == Other(s)
           e == tree.ch[o][g]
           red == Exchanged(tree, m, g)
           y == [tree EXCEPT !.red[m] = FALSE, !.red[g] = TRUE]
<1>1. /\ at = "raise" /\ Sound("raise", arg, temp, tree, list) /\ tree \in Trees
      /\ temp # tree.root /\ tree.red[m]
  BY RaiseFacts DEF RaiseOuter
<1>2. ~ tree.red[e] /\ temp # tree.ch[o][m] /\ at' = at /\ arg' = arg /\ temp' = temp /\ list' = list
  BY DEF RaiseOuter, Uncle, Side, Grand, Parent
<1>3. tree' = Rotate(y, o, g)
  BY DEF RaiseOuter, Uncle, Side, Grand, Parent
<1>4. y = [tree EXCEPT !.red = red]
  BY <1>1 DEF Trees, Exchanged
<1>5. red \in [All -> BOOLEAN]
  BY <1>1 DEF Trees, Exchanged
<1> HIDE DEF y
<1>6. Painted(tree, red, y)
  BY <1>1, <1>4, <1>5, PaintFields
<1>7. Above(tree, temp, m, g, s, e) /\ ~ Inner(tree, s, m, temp) /\ ~ IsRed(tree, e)
  BY <1>1, <1>2 DEF Above, Inner, IsRed
<1>8. o = Other(s)
  OBVIOUS
<1> HIDE DEF m, g, s, e, o
<1>9. Sound("raise", arg, temp, tree', list)
  BY <1>1, <1>3, <1>6, <1>7, <1>8, RaiseOuterSound
<1> QED BY <1>1, <1>2, <1>9 DEF TreeIInv

LEMMA EndInsertInv ==
  ASSUME TreeIInv, EndInsert
  PROVE  TreeIInv'
<1> DEFINE red == Blackened(tree, tree.root)
<1>1. Sound("raise", arg, temp, tree, list) /\ tree \in Trees
  BY DEF TreeIInv, EndInsert, Sound
<1>2. RaisedEnough(tree, temp)
  BY DEF RaisedEnough, EndInsert, Raising, Parent
<1>3. tree' = [tree EXCEPT !.red = red] /\ list' = list /\ at' = "idle" /\ arg' = Nil /\ temp' = Nil
  BY <1>1 DEF EndInsert, Return, Trees, Blackened
<1>4. red \in [All -> BOOLEAN]
  BY <1>1 DEF Trees, Blackened
<1>5. Painted(tree, red, tree')
  BY <1>1, <1>3, <1>4, PaintFields
<1>6. Sound("idle", Nil, Nil, tree', list)
  BY <1>1, <1>2, <1>5, EndInsertSound
<1> QED BY <1>3, <1>6 DEF TreeIInv

-------------------------------------------------------------------------------
(* Deletion.                                                                 *)
LEMMA StartDeleteInv ==
  ASSUME TreeIInv, NEW n, StartDelete(n)
  PROVE  TreeIInv'
<1>1. Sound("idle", arg, temp, tree, list) /\ at = "idle" /\ n \in Elems(list)
  BY DEF TreeIInv, StartDelete, Members, Elems
<1>2. IF tree.ch["l"][n] # Nil /\ tree.ch["r"][n] # Nil
      THEN Sound("subst", n, tree.ch["r"][n], tree, list) ELSE Sound("unlink", n, n, tree, list)
  BY <1>1, StartDeleteSound
<1>3. arg' = n /\ tree' = tree /\ list' = list
  BY DEF StartDelete
<1>4. CASE tree.ch["l"][n] # Nil /\ tree.ch["r"][n] # Nil
  <2>1. at' = "subst" /\ temp' = tree.ch["r"][n]
    BY <1>4 DEF StartDelete
  <2> QED BY <1>2, <1>3, <1>4, <2>1 DEF TreeIInv
<1>5. CASE ~ (tree.ch["l"][n] # Nil /\ tree.ch["r"][n] # Nil)
  <2>1. at' = "unlink" /\ temp' = n
    BY <1>5 DEF StartDelete
  <2> QED BY <1>2, <1>3, <1>5, <2>1 DEF TreeIInv
<1> QED BY <1>4, <1>5

LEMMA WalkLeftInv ==
  ASSUME TreeIInv, WalkLeft
  PROVE  TreeIInv'
<1>1. Sound(at, arg, temp, tree, list) /\ at \in {"subst", "min"} /\ tree.ch["l"][temp] # Nil
  BY DEF TreeIInv, WalkLeft
<1>2. Sound(at, arg, tree.ch["l"][temp], tree, list)
  BY <1>1, WalkLeftSound
<1> QED BY <1>1, <1>2 DEF TreeIInv, WalkLeft

LEMMA EndWalkInv ==
  ASSUME TreeIInv, EndWalk
  PROVE  TreeIInv'
<1>1. Sound(at, arg, temp, tree, list) /\ at \in {"subst", "min"} /\ tree.ch["l"][temp] = Nil
  BY DEF TreeIInv, EndWalk
<1>2. CASE at = "subst"
  <2>1. Sound("unlink", arg, temp, tree, list)
    BY <1>1, <1>2, EndSubstSound
  <2> QED BY <1>2, <2>1 DEF TreeIInv, EndWalk
<1>3. CASE at = "min"
  <2>1. Sound("least", arg, temp, tree, list)
    BY <1>1, <1>3, EndMinSound
  <2> QED BY <1>3, <2>1 DEF TreeIInv, EndWalk
<1> QED BY <1>1, <1>2, <1>3

(* The list that Without leaves.                                             *)
LEMMA WithoutLeft ==
  ASSUME SortedList(list), NEW n, Without(n)
  PROVE  Left(list, n, list')
<1>1. PICK i \in 1..Len(list) :
        list[i] = n /\ list' = SubSeq(list, 1, i - 1) \o SubSeq(list, i + 1, Len(list))
  BY DEF Without
<1>2. Left(list, list[i], list')
  BY <1>1, UnlinkedList
<1> QED BY <1>1, <1>2

(* What a step that unlinks finds: c takes the place of temp.                *)
LEMMA UnlinkFacts ==
  ASSUME TreeIInv, at = "unlink", Without(arg), NEW c, c = Only
  PROVE  /\ Sound("unlink", arg, temp, tree, list) /\ tree \in Trees
         /\ Left(list, arg, list') /\ c = tree.ch[OnlySide(tree, temp)][temp]
         /\ arg \in All /\ c \in All /\ temp \in Elems(list)
         /\ \E sub : /\ Strict(Ranks(list))
                     /\ Shape(tree.root, tree.ch, tree.p, Elems(list), Ranks(list), sub)
                     /\ Leaver(tree, Elems(list), Ranks(list), sub, arg, temp, OnlySide(tree, temp))
<1> DEFINE M == Elems(list)
           R == Ranks(list)
<1>1. Sound("unlink", arg, temp, tree, list) /\ tree \in Trees /\ SortedList(list)
  BY DEF TreeIInv, Sound
<1>2. Left(list, arg, list')
  BY <1>1, WithoutLeft
<1>3. c = tree.ch[OnlySide(tree, temp)][temp]
  BY DEF Only, OnlySide
<1>4. PICK sub : /\ Shape(tree.root, tree.ch, tree.p, M, R, sub)
                 /\ Stands("unlink", arg, temp, tree, M, R, sub)
  BY <1>1 DEF Sound
<1>5. Strict(R) /\ M \subseteq Nodes
  BY <1>1, RankFacts
<1> HIDE DEF M, R
<1>6. Leaving(arg, temp, tree, M, R, sub)
  BY <1>4 DEF Stands
<1>7. Leaver(tree, M, R, sub, arg, temp, OnlySide(tree, temp))
  BY <1>4, <1>5, <1>6, LeavingFacts
<1>8. arg \in M /\ temp \in M /\ OnlySide(tree, temp) \in Sides
  BY <1>7 DEF Leaver
<1>9. c \in M \union {Nil}
  BY <1>3, <1>4, <1>8 DEF Shape, Links
<1>10. arg \in All /\ c \in All
  BY <1>5, <1>8, <1>9 DEF All
<1> QED BY <1>1, <1>2, <1>3, <1>4, <1>5, <1>7, <1>8, <1>10 DEF M, R

LEMMA UnlinkRootInv ==
  ASSUME TreeIInv, UnlinkRoot
  PROVE  TreeIInv'
<1> DEFINE c == Only
           red == [tree.red EXCEPT ![c] = FALSE]
           y == [tree EXCEPT !.root = c, !.red[c] = FALSE]
<1>1. at = "unlink" /\ temp = tree.root /\ Without(arg) /\ tree' = Clear(y, arg)
      /\ at' = "idle" /\ arg' = Nil /\ temp' = Nil
  BY DEF UnlinkRoot, Return
<1>2. /\ Sound("unlink", arg, temp, tree, list) /\ tree \in Trees
      /\ Left(list, arg, list') /\ c = tree.ch[OnlySide(tree, temp)][temp]
      /\ arg \in All /\ c \in All
  BY <1>1, UnlinkFacts
<1> HIDE DEF c
<1>3. /\ y \in Trees /\ y.root = c /\ y.ch = tree.ch /\ y.p = tree.p /\ y.key = tree.key
      /\ y.red = red
  BY <1>2 DEF Trees
<1> HIDE DEF y
<1>4. Cleared(y, arg, tree')
  BY <1>1, <1>2, <1>3, ClearFields
<1>5. Sound("idle", Nil, Nil, tree', list')
  BY <1>1, <1>2, <1>3, <1>4, UnlinkRootSound
<1> QED BY <1>1, <1>5 DEF TreeIInv

(* How a deletion goes on once the node is unlinked.                         *)
LEMMA UnlinkedInv ==
  ASSUME NEW c, c = Only, Unlinked, Settled(tree.red[temp], arg, c, tree', list')
  PROVE  TreeIInv'
<1>1. CASE tree.red[temp]
  <2>1. at' = "idle" /\ arg' = Nil /\ temp' = Nil
    BY <1>1 DEF Unlinked, Return
  <2>2. Sound("idle", Nil, Nil, tree', list')
    BY <1>1 DEF Settled
  <2> QED BY <2>1, <2>2 DEF TreeIInv
<1>2. CASE ~ tree.red[temp]
  <2>1. at' = "lower" /\ arg' = arg /\ temp' = c
    BY <1>2 DEF Unlinked
  <2>2. Sound("lower", arg, c, tree', list')
    BY <1>2 DEF Settled
  <2> QED BY <2>1, <2>2 DEF TreeIInv
<1> QED BY <1>1, <1>2

LEMMA UnlinkNodeInv ==
  ASSUME TreeIInv, UnlinkNode
  PROVE  TreeIInv'
<1> DEFINE c == Only
           y == [Hang(tree, arg, c) EXCEPT !.p[c] = tree.p[arg]]
<1>1. at = "unlink" /\ temp # tree.root /\ temp = arg /\ Without(arg) /\ Unlinked
  BY DEF UnlinkNode
<1>2. tree' = Clear(y, arg)
  BY <1>1 DEF UnlinkNode, Parent
<1>3. /\ Sound("unlink", arg, temp, tree, list) /\ tree \in Trees
      /\ Left(list, arg, list') /\ c = tree.ch[OnlySide(tree, temp)][temp]
      /\ arg \in All /\ c \in All /\ temp \in Elems(list)
      /\ \E sub : /\ Strict(Ranks(list))
                  /\ Shape(tree.root, tree.ch, tree.p, Elems(list), Ranks(list), sub)
                  /\ Leaver(tree, Elems(list), Ranks(list), sub, arg, temp, OnlySide(tree, temp))
  BY <1>1, UnlinkFacts
<1> HIDE DEF c
<1>4. Taken(tree, Elems(list), arg, c, y)
  BY <1>1, <1>3, TakenFields
<1> HIDE DEF y
<1>5. y \in Trees
  BY <1>4 DEF Taken
<1>6. Cleared(y, arg, tree')
  BY <1>2, <1>3, <1>5, ClearFields
<1>7. Settled(tree.red[arg], arg, c, tree', list')
  BY <1>1, <1>3, <1>4, <1>6, UnlinkNodeSound
<1> QED BY <1>1, <1>7, UnlinkedInv DEF c

LEMMA UnlinkSubstInv ==
  ASSUME TreeIInv, UnlinkSubst
  PROVE  TreeIInv'
<1> DEFINE M == Elems(list)
           R == Ranks(list)
           c == Only
           h == Hang(tree, temp, c)
           y == [h EXCEPT !.p[c] = tree.p[temp]]
           w == [y EXCEPT !.p[c] = IF y.p[c] = arg THEN temp ELSE y.p[c]]
<1>1. /\ at = "unlink" /\ temp # tree.root /\ temp # arg /\ Without(arg) /\ Unlinked
      /\ tree' = Clear(Replace(Cut(tree), arg, temp), arg)
  BY DEF UnlinkSubst
<1>2. /\ Sound("unlink", arg, temp, tree, list) /\ tree \in Trees
      /\ Left(list, arg, list') /\ c = tree.ch[OnlySide(tree, temp)][temp]
      /\ arg \in All /\ c \in All /\ temp \in M
      /\ \E sub : /\ Strict(R)
                  /\ Shape(tree.root, tree.ch, tree.p, M, R, sub)
                  /\ Leaver(tree, M, R, sub, arg, temp, OnlySide(tree, temp))
  BY <1>1, UnlinkFacts
<1>3. PICK sub : /\ Strict(R) /\ Shape(tree.root, tree.ch, tree.p, M, R, sub)
                 /\ Leaver(tree, M, R, sub, arg, temp, OnlySide(tree, temp))
  BY <1>2
<1>4. Cut(tree) = [h EXCEPT !.p[c] = IF tree.p[temp] = arg THEN temp ELSE tree.p[temp]]
  BY DEF Cut
<1> HIDE DEF c, M, R
<1>5. Taken(tree, M, temp, c, y)
  BY <1>1, <1>2, <1>3, TakenFields
<1>6. Freed(tree, y, M, R, sub, arg, temp, c)
  BY <1>1, <1>2, <1>3, <1>5, FreedFacts
<1>7. Hung(tree, M, temp, c, h)
  BY <1>1, <1>2, <1>3, HangFields
<1>8. Cut(tree) = w
  <2>1. h \in Trees /\ c \in All
    BY <1>2, <1>7 DEF Hung
  <2> HIDE DEF h
  <2>2. y.p[c] = tree.p[temp]
    BY <2>1 DEF Trees
  <2> QED BY <1>4, <2>1, <2>2 DEF Trees
<1> HIDE DEF y
<1>9. /\ arg \in M \ {temp} /\ temp \in Nodes \ (M \ {temp})
      /\ c # arg /\ c # temp /\ (c # Nil => c \in M \ {temp}) /\ c # y.root
      /\ y \in Trees /\ Shape(y.root, y.ch, y.p, M \ {temp}, R, Less(sub, temp))
  BY <1>6 DEF Freed
<1> DEFINE N == M \ {temp}
           sub2 == Less(sub, temp)
<1>10. /\ arg \in N /\ temp \in Nodes \ N
       /\ c # arg /\ c # temp /\ (c # Nil => c \in N) /\ c # y.root
       /\ y \in Trees /\ Shape(y.root, y.ch, y.p, N, R, sub2)
  BY <1>9
<1> HIDE DEF N, sub2
<1>11. Swapped(y, N, arg, temp, c, Clear(Replace(w, arg, temp), arg))
  BY <1>2, <1>3, <1>10, SwappedFields
<1>12. Swapped(y, N, arg, temp, c, tree')
  BY <1>1, <1>8, <1>11
<1>13. Swapped(y, Elems(list) \ {temp}, arg, temp, c, tree') /\ Taken(tree, Elems(list), temp, c, y)
  BY <1>5, <1>12 DEF N, M
<1>14. Settled(tree.red[temp], arg, c, tree', list')
  BY <1>1, <1>2, <1>13, UnlinkSubstSound
<1> QED BY <1>1, <1>14, UnlinkedInv DEF c

(* What the turns of the second loop find.                                   *)
LEMMA LowerFacts ==
  ASSUME TreeIInv, Lowering
  PROVE  /\ at = "lower" /\ Sound("lower", arg, temp, tree, list) /\ tree \in Trees
         /\ temp # tree.root /\ ~ tree.red[temp]
BY DEF TreeIInv, Lowering, Black, Sound

LEMMA LowerRedSiblingInv ==
  ASSUME TreeIInv, LowerRedSibling
  PROVE  TreeIInv'
<1> DEFINE m == tree.p[temp]
           d == SideOf(tree, temp)
           w == tree.ch[Other(d)][m]
           red == Exchanged(tree, w, m)
           y == [tree EXCEPT !.red[w] = FALSE, !.red[m] = TRUE]
<1>1. /\ at = "lower" /\ Sound("lower", arg, temp, tree, list) /\ tree \in Trees
      /\ temp # tree.root /\ ~ tree.red[temp]
  BY LowerFacts DEF LowerRedSibling
<1>2. tree.red[w] /\ at' = at /\ arg' = arg /\ temp' = temp /\ list' = list
  BY DEF LowerRedSibling, Sibling, SideDown, Parent
<1>3. tree' = Rotate(y, d, m)
  BY DEF LowerRedSibling, Sibling, SideDown, Parent
<1>4. y = [tree EXCEPT !.red = red]
  BY <1>1 DEF Trees, Exchanged
<1>5. red \in [All -> BOOLEAN]
  BY <1>1 DEF Trees, Exchanged
<1> HIDE DEF y
<1>6. Painted(tree, red, y)
  BY <1>1, <1>4, <1>5, PaintFields
<1>7. Beside(tree, temp, m, d, w) /\ IsRed(tree, w)
  BY <1>1, <1>2 DEF Beside, IsRed
<1> HIDE DEF m, d, w
<1>8. Sound("lower", arg, temp, tree', list)
  BY <1>1, <1>3, <1>6, <1>7, LowerRedSiblingSound
<1> QED BY <1>1, <1>2, <1>8 DEF TreeIInv

LEMMA LowerBlackNephewsInv ==
  ASSUME TreeIInv, LowerBlackNephews
  PROVE  TreeIInv'
<1> DEFINE m == tree.p[temp]
           d == SideOf(tree, temp)
           w == tree.ch[Other(d)][m]
           red == Reddened(tree, w)
<1>1. /\ at = "lower" /\ Sound("lower", arg, temp, tree, list) /\ tree \in Trees
      /\ temp # tree.root /\ ~ tree.red[temp]
  BY LowerFacts DEF LowerBlackNephews
<1>2. /\ ~ tree.red[w] /\ ~ tree.red[tree.ch[d][w]] /\ ~ tree.red[tree.ch[Other(d)][w]]
      /\ at' = at /\ arg' = arg /\ temp' = m /\ list' = list
  BY DEF LowerBlackNephews, Black, Near, Far, Sibling, SideDown, Parent
<1>3. tree' = [tree EXCEPT !.red[w] = TRUE]
  BY DEF LowerBlackNephews, Sibling, SideDown, Parent
<1>4. tree' = [tree EXCEPT !.red = red]
  BY <1>1, <1>3 DEF Trees, Reddened
<1>5. red \in [All -> BOOLEAN]
  BY <1>1 DEF Trees, Reddened
<1>6. Painted(tree, red, tree')
  BY <1>1, <1>4, <1>5, PaintFields
<1>7. \A c \in Sides : ~ tree.red[tree.ch[c][w]]
  <2>1. \A c \in Sides : c = d \/ c = Other(d)
    BY SideCases DEF SideOf, Sides
  <2> QED BY <1>2, <2>1
<1>8. Beside(tree, temp, m, d, w) /\ ~ IsRed(tree, w) /\ BlackNephews(tree, w)
  BY <1>1, <1>2, <1>7 DEF Beside, IsRed, BlackNephews
<1> HIDE DEF m, d, w
<1>9. Sound("lower", arg, m, tree', list)
  BY <1>1, <1>6, <1>8, LowerBlackNephewsSound
<1> QED BY <1>1, <1>2, <1>9 DEF TreeIInv

LEMMA LowerRedNearInv ==
  ASSUME TreeIInv, LowerRedNear
  PROVE  TreeIInv'
<1> DEFINE m == tree.p[temp]
           d == SideOf(tree, temp)
           o == Other(d)
           w == tree.ch[o][m]
           k == tree.ch[d][w]
           red == Exchanged(tree, k, w)
           y == [tree EXCEPT !.red[k] = FALSE, !.red[w] = TRUE]
<1>1. /\ at = "lower" /\ Sound("lower", arg, temp, tree, list) /\ tree \in Trees
      /\ temp # tree.root /\ ~ tree.red[temp]
  BY LowerFacts DEF LowerRedNear
<1>2. /\ ~ tree.red[w] /\ tree.red[k] /\ ~ tree.red[tree.ch[o][w]]
      /\ at' = at /\ arg' = arg /\ temp' = temp /\ list' = list
  BY DEF LowerRedNear, Black, Near, Far, Sibling, SideDown, Parent
<1>3. tree' = Rotate(y, o, w)
  BY DEF LowerRedNear, Near, Sibling, SideDown, Parent
<1>4. y = [tree EXCEPT !.red = red]
  BY <1>1 DEF Trees, Exchanged
<1>5. red \in [All -> BOOLEAN]
  BY <1>1 DEF Trees, Exchanged
<1> HIDE DEF y
<1>6. Painted(tree, red, y)
  BY <1>1, <1>4, <1>5, PaintFields
<1>7. Beside(tree, temp, m, d, w) /\ ~ IsRed(tree, w) /\ NearRed(tree, w, d, k)
  BY <1>1, <1>2 DEF Beside, IsRed, NearRed
<1>8. o = Other(d)
  OBVIOUS
<1> HIDE DEF m, d, w, k, o
<1>9. Sound("lower", arg, temp, tree', list)
  BY <1>1, <1>3, <1>6, <1>7, <1>8, LowerRedNearSound
<1> QED BY <1>1, <1>2, <1>9 DEF TreeIInv

(* The node that is short of a black one hangs below a node.                 *)
LEMMA LowerParent ==
  ASSUME NEW x, NEW t, NEW u, NEW q, Sound("lower", x, t, u, q), t # u.root
  PROVE  u.p[t] \in All
<1> DEFINE M == Elems(q)
           R == Ranks(q)
<1>1. PICK sub, height : Parts("lower", t, u, q, M, R, sub, height)
  BY SoundParts
<1>2. /\ u \in Trees /\ Strict(R) /\ Shape(u.root, u.ch, u.p, M, R, sub) /\ M \subseteq Nodes
      /\ Lowered(u, M, t, height)
  BY <1>1 DEF Parts, Hued
<1>3. u.p[t] \in M
  BY <1>2 DEF Lowered
<1> QED BY <1>2, <1>3 DEF All

LEMMA LowerRedFarInv ==
  ASSUME TreeIInv, LowerRedFar
  PROVE  TreeIInv'
<1> DEFINE m == tree.p[temp]
           d == SideOf(tree, temp)
           o == Other(d)
           w == tree.ch[o][m]
           f == tree.ch[o][w]
           hue == tree.red[m]
           red == LastHues(tree, w, hue, m, f)
           y == [tree EXCEPT !.red[w] = hue, !.red[m] = FALSE, !.red[f] = FALSE]
<1>1. /\ at = "lower" /\ Sound("lower", arg, temp, tree, list) /\ tree \in Trees
      /\ temp # tree.root /\ ~ tree.red[temp]
  BY LowerFacts DEF LowerRedFar
<1>2. /\ ~ tree.red[w] /\ tree.red[f] /\ at' = at /\ arg' = arg /\ temp' = tree'.root /\ list' = list
  BY DEF LowerRedFar, Black, Far, Sibling, SideDown, Parent
<1>3. tree' = Rotate(y, d, m)
  BY DEF LowerRedFar, Far, Sibling, SideDown, Parent
<1>4. hue \in BOOLEAN
  <2>1. m \in All
    BY <1>1, LowerParent
  <2> QED BY <1>1, <2>1 DEF Trees
<1>5. y = [tree EXCEPT !.red = red]
  BY <1>1 DEF Trees, LastHues
<1>6. red \in [All -> BOOLEAN]
  BY <1>1, <1>4 DEF Trees, LastHues
<1> HIDE DEF y
<1>7. Painted(tree, red, y)
  BY <1>1, <1>5, <1>6, PaintFields
<1>8. /\ Beside(tree, temp, m, d, w) /\ ~ IsRed(tree, w)
      /\ FarRed(tree, w, d, f) /\ HueOf(tree, m, hue)
  BY <1>1, <1>2, <1>4 DEF Beside, IsRed, FarRed, HueOf
<1> HIDE DEF m, d, w, f, hue
<1>9. Sound("lower", arg, tree'.root, tree', list)
  BY <1>1, <1>3, <1>7, <1>8, LowerRedFarSound
<1> QED BY <1>1, <1>2, <1>9 DEF TreeIInv

LEMMA EndDeleteInv ==
  ASSUME TreeIInv, EndDelete
  PROVE  TreeIInv'
<1> DEFINE red == Blackened(tree, temp)
<1>1. Sound("lower", arg, temp, tree, list) /\ tree \in Trees
  BY DEF TreeIInv, EndDelete, Sound
<1>2. LoweredEnough(tree, temp)
  BY DEF LoweredEnough, EndDelete, Lowering, Black
<1>3. tree' = [tree EXCEPT !.red = red] /\ list' = list /\ at' = "idle" /\ arg' = Nil /\ temp' = Nil
  BY <1>1 DEF EndDelete, Return, Trees, Blackened
<1>4. red \in [All -> BOOLEAN]
  BY <1>1 DEF Trees, Blackened
<1>5. Painted(tree, red, tree')
  BY <1>1, <1>3, <1>4, PaintFields
<1>6. Sound("idle", Nil, Nil, tree', list)
  BY <1>1, <1>2, <1>5, EndDeleteSound
<1> QED BY <1>3, <1>6 DEF TreeIInv

-------------------------------------------------------------------------------
(* Searches.                                                                 *)
LEMMA StartGetInv ==
  ASSUME TreeIInv, NEW k \in Keys, StartGet(k)
  PROVE  TreeIInv'
<1>1. Sound("idle", arg, temp, tree, list) /\ at = "idle"
  BY DEF TreeIInv, StartGet
<1>2. Sound("get", k, tree.root, tree, list)
  BY <1>1, StartGetSound
<1>3. k \in Nat
  BY KeyOfAssumption DEF Keys
<1> QED BY <1>2, <1>3 DEF TreeIInv, StartGet

LEMMA SeekInv ==
  ASSUME TreeIInv, Seek
  PROVE  TreeIInv'
<1>1. Sound("get", arg, temp, tree, list) /\ at = "get" /\ arg \in Nat
  BY DEF TreeIInv, Seek
<1>2. Sound("get", arg, temp', tree, list)
  BY <1>1, SeekSound DEF Seek
<1> QED BY <1>1, <1>2 DEF TreeIInv, Seek

LEMMA EndGetInv ==
  ASSUME TreeIInv, EndGet
  PROVE  TreeIInv'
<1>1. Sound("get", arg, temp, tree, list) /\ at = "get"
  BY DEF TreeIInv, EndGet
<1>2. Sound("found", arg, temp, tree, list)
  BY <1>1, EndGetSound DEF EndGet
<1> QED BY <1>2 DEF TreeIInv, EndGet

LEMMA StartMinInv ==
  ASSUME TreeIInv, StartMin
  PROVE  TreeIInv'
<1>1. Sound("idle", arg, temp, tree, list) /\ at = "idle"
  BY DEF TreeIInv, StartMin
<1>2. Sound("min", arg, tree.root, tree, list)
  BY <1>1, StartMinSound DEF StartMin
<1> QED BY <1>2 DEF TreeIInv, StartMin

LEMMA AnswerInv ==
  ASSUME TreeIInv, Answer
  PROVE  TreeIInv'
<1>1. Sound(at, arg, temp, tree, list) /\ at \in {"found", "least"}
  BY DEF TreeIInv, Answer
<1>2. Sound("idle", Nil, Nil, tree, list)
  BY <1>1, IdleSound
<1> QED BY <1>2 DEF TreeIInv, Answer, Return

-------------------------------------------------------------------------------
(* The empty tree.                                                           *)
LEMMA EmptySound ==
  ASSUME NEW u \in Trees, u.root = Nil, ~ u.red[Nil]
  PROVE  Sound("idle", Nil, Nil, u, << >>)
<1> DEFINE q == << >>
           none == {}
           sub == [n \in All |-> none]
           height == [n \in All |-> 0]
<1>1. SortedList(q) /\ Elems(q) = none
  BY DEF SortedList, Elems
<1>2. IsFiniteSet(none) /\ \A n : n \notin none
  BY FS_EmptySet
<1> HIDE DEF q, none
<1>3. Nil \in All
  BY DEF All
<1>4. sub \in [All -> SUBSET none] /\ sub[Nil] = none
  BY <1>3
<1>5. height \in [All -> Nat] /\ height[Nil] = 0
  BY <1>3
<1> HIDE DEF sub, height
<1>6. Shape(u.root, u.ch, u.p, none, Ranks(q), sub)
  BY <1>2, <1>4 DEF Shape, Links, Spans, Sorted, none
<1>7. Calm(u, none, height)
  <2>1. Heights(u.ch, u.red, none, {}, height)
    BY <1>2, <1>5 DEF Heights
  <2>2. Rosy(u.ch, u.red, none, {})
    BY <1>2 DEF Rosy
  <2> QED BY <2>1, <2>2, <1>2 DEF Calm
<1>8. Stands("idle", Nil, Nil, u, none, Ranks(q), sub)
  BY DEF Stands
<1>9. Hued("idle", Nil, u, none, height)
  BY <1>7 DEF Hued
<1>10. Sound("idle", Nil, Nil, u, q)
  BY <1>1, <1>2, <1>6, <1>8, <1>9 DEF Sound
<1> QED BY <1>10 DEF q

(* The invariant holds of the empty tree of ws_rbtree_init.                  *)
LEMMA TreeInitInv ==
  ASSUME TreeInit
  PROVE  TreeIInv
<1>1. tree \in Trees /\ tree.root = Nil /\ ~ tree.red[Nil]
  BY DEF TreeInit, Trees, All
<1>2. Sound("idle", Nil, Nil, tree, << >>)
  BY <1>1, EmptySound
<1> QED BY <1>2 DEF TreeInit, TreeIInv

(* Every step keeps the invariant.                                           *)
LEMMA TreeStep ==
  ASSUME TreeIInv, [TreeNext]_treeVars
  PROVE  TreeIInv'
<1>1. CASE UNCHANGED treeVars
  BY <1>1 DEF treeVars, TreeIInv
<1>2. CASE Start
  <2>1. ASSUME NEW n \in Nodes, InsertFirst(n) \/ StartInsert(n) \/ StartDelete(n)
        PROVE  TreeIInv'
    BY <2>1, InsertFirstInv, StartInsertInv, StartDeleteInv
  <2>2. ASSUME NEW k \in Keys, StartGet(k) PROVE TreeIInv'
    BY <2>2, StartGetInv
  <2>3. CASE StartMin
    BY <2>3, StartMinInv
  <2> QED BY <1>2, <2>1, <2>2, <2>3 DEF Start
<1>3. CASE Turn
  <2>1. CASE Descend \/ Link \/ RaiseRedUncle \/ RaiseInner \/ RaiseOuter \/ EndInsert
    BY <2>1, DescendInv, LinkInv, RaiseRedUncleInv, RaiseInnerInv, RaiseOuterInv, EndInsertInv
  <2>2. CASE WalkLeft \/ EndWalk \/ UnlinkRoot \/ UnlinkNode \/ UnlinkSubst
    BY <2>2, WalkLeftInv, EndWalkInv, UnlinkRootInv, UnlinkNodeInv, UnlinkSubstInv
  <2>3. CASE LowerRedSibling \/ LowerBlackNephews \/ LowerRedNear \/ LowerRedFar \/ EndDelete
    BY <2>3, LowerRedSiblingInv, LowerBlackNephewsInv, LowerRedNearInv, LowerRedFarInv, EndDeleteInv
  <2>4. CASE Seek \/ EndGet \/ Answer
    BY <2>4, SeekInv, EndGetInv, AnswerInv
  <2> QED BY <1>3, <2>1, <2>2, <2>3, <2>4 DEF Turn
<1> QED BY <1>1, <1>2, <1>3 DEF TreeNext

(* Through every insertion, deletion and search, and between any two of      *)
(* their steps, the links make a tree of the nodes of the list in its order, *)
(* the heights are right but for what the loop at hand has still to mend,    *)
(* and what the next step of ws_rbtree.c relies on holds.                    *)
THEOREM TreeInvariant == TreeSpec => []TreeIInv
<1>1. TreeInit => TreeIInv
  BY TreeInitInv
<1>2. TreeIInv /\ [TreeNext]_treeVars => TreeIInv'
  BY TreeStep
<1> QED BY <1>1, <1>2, PTL DEF TreeSpec

-------------------------------------------------------------------------------
(* The links of a tree that is in order, from the invariant.                 *)
LEMMA TreeParts ==
  ASSUME TreeIInv
  PROVE  /\ tree \in Trees /\ SortedList(list) /\ Strict(Ranks(list)) /\ Members \subseteq Nodes
         /\ \E sub : /\ Shape(tree.root, tree.ch, tree.p, Members, Ranks(list), sub)
                     /\ Stands(at, arg, temp, tree, Members, Ranks(list), sub)
<1>1. Members = Elems(list)
  BY DEF Members, Elems
<1>2. tree \in Trees /\ SortedList(list)
  BY DEF TreeIInv, Sound
<1>3. Strict(Ranks(list)) /\ Elems(list) \subseteq Nodes
  BY <1>2, RankFacts
<1>4. \E sub : /\ Shape(tree.root, tree.ch, tree.p, Elems(list), Ranks(list), sub)
               /\ Stands(at, arg, temp, tree, Elems(list), Ranks(list), sub)
  BY DEF TreeIInv, Sound
<1> QED BY <1>1, <1>2, <1>3, <1>4

(* LinksBack is in the shape.                                                *)
LEMMA LinksBackHolds ==
  ASSUME TreeIInv
  PROVE  LinksBack
<1>1. PICK sub : Shape(tree.root, tree.ch, tree.p, Members, Ranks(list), sub)
  BY TreeParts
<1> QED BY <1>1 DEF LinksBack, Shape, Links

(* Answers is what the searches found, and the list is in order.             *)
LEMMA AnswersHolds ==
  ASSUME TreeIInv
  PROVE  Answers
<1> DEFINE R == Ranks(list)
<1>1. SortedList(list) /\ Strict(R)
  BY TreeParts
<1>2. PICK sub : Stands(at, arg, temp, tree, Members, R, sub)
  BY TreeParts
<1>3. ASSUME at = "least" PROVE temp = list[1]
  <2>1. FirstOf(R, Members, temp)
    BY <1>2, <1>3 DEF Stands
  <2>2. PICK j \in 1..Len(list) : temp = list[j]
    BY <2>1 DEF FirstOf, Members
  <2>3. Len(list) \in Nat /\ 1 \in 1..Len(list) /\ list[1] \in Members
    BY <1>1, <2>2 DEF SortedList, Members
  <2>4. SUFFICES ASSUME temp # list[1] PROVE FALSE
    OBVIOUS
  <2>5. <<list[j], list[1]>> \in R
    BY <2>1, <2>2, <2>3, <2>4 DEF FirstOf
  <2>6. j < 1
    BY <1>1, <2>2, <2>3, <2>5, RankPair
  <2> QED BY <2>3, <2>6
<1>4. at = "found" => Found(arg, temp, Members)
  BY <1>2 DEF Stands
<1> QED BY <1>3, <1>4 DEF Answers, Found

-------------------------------------------------------------------------------
(* The recursive functions of the properties, unfolded once.                 *)

HeightLaw(f) ==
    f = [n \in All \union {Null} |->
            IF n \in Members THEN f[tree.ch["l"][n]] + (IF tree.red[n] THEN 0 ELSE 1) ELSE 0]

(* Height obeys its own definition, if any function does.                    *)
LEMMA HeightUnfolds ==
  ASSUME NEW f, HeightLaw(f)
  PROVE  HeightLaw(Height)
BY DEF HeightLaw, Height

(* Height counts what the heights of the proof count.                        *)
LEMMA HeightIs ==
  ASSUME NEW R, NEW sub, NEW height, Strict(R),
         Shape(tree.root, tree.ch, tree.p, Members, R, sub),
         Level(tree.ch, tree.red, Members, height)
  PROVE  \A n \in Members \union {Nil} : Height[n] = height[n]
<1> DEFINE M == Members
           D == All \union {Null}
           f == [n \in D |-> IF n \in M THEN height[n] ELSE 0]
<1>1. /\ M \subseteq All /\ Nil \in All /\ Nil \notin M
      /\ \A n \in M : tree.ch["l"][n] \in M \union {Nil}
  BY NodesAssumption DEF Shape, Links, All, Sides
<1>2. /\ height[Nil] = 0 /\ \A n \in All : height[n] \in Nat
      /\ \A n \in M : height[n] = height[tree.ch["l"][n]] + (IF tree.red[n] THEN 0 ELSE 1)
  BY DEF Level, Sides, Weight
<1>3. \A n \in M \union {Nil} : f[n] = height[n]
  BY <1>1, <1>2
<1>4. HeightLaw(f)
  <2>1. ASSUME NEW n \in D, n \in M
        PROVE  f[n] = f[tree.ch["l"][n]] + (IF tree.red[n] THEN 0 ELSE 1)
    BY <1>1, <1>2, <1>3, <2>1
  <2>2. ASSUME NEW n \in D, n \notin M PROVE f[n] = 0
    BY <2>2
  <2>3. f = [n \in D |-> IF n \in M THEN f[tree.ch["l"][n]] + (IF tree.red[n] THEN 0 ELSE 1) ELSE 0]
    BY <2>1, <2>2
  <2> QED BY <2>3 DEF HeightLaw
<1>5. HeightLaw(Height)
  BY <1>4, HeightUnfolds
<1>6. /\ Height[Nil] = 0
      /\ \A n \in M : Height[n] = Height[tree.ch["l"][n]] + (IF tree.red[n] THEN 0 ELSE 1)
  BY <1>1, <1>5 DEF HeightLaw
<1> DEFINE S == {n \in M : Height[n] # height[n]}
<1>7. S = {}
  <2>1. SUFFICES ASSUME S # {} PROVE FALSE
    OBVIOUS
  <2>2. PICK n \in S : \A s \in Sides : tree.ch[s][n] \notin S
    BY <2>1, Lowest
  <2>3. tree.ch["l"][n] \notin S /\ tree.ch["l"][n] \in M \union {Nil}
    BY <1>1, <2>2 DEF Sides
  <2>4. Height[tree.ch["l"][n]] = height[tree.ch["l"][n]]
    BY <1>2, <1>6, <2>3
  <2> QED BY <1>2, <1>6, <2>2, <2>4
<1> QED BY <1>2, <1>6, <1>7

(* Balanced is in the colours.                                               *)
LEMMA BalancedHolds ==
  ASSUME TreeIInv
  PROVE  Balanced
<1> SUFFICES ASSUME at = "idle" PROVE Balanced
  BY DEF Balanced
<1> DEFINE M == Members
           R == Ranks(list)
<1>1. PICK sub : Shape(tree.root, tree.ch, tree.p, M, R, sub)
  BY TreeParts
<1>2. Strict(R)
  BY TreeParts
<1>3. M = Elems(list)
  BY DEF Members, Elems
<1>4. PICK height : Calm(tree, M, height)
  BY <1>3 DEF TreeIInv, Sound, Hued
<1> HIDE DEF M, R
<1>5. Level(tree.ch, tree.red, M, height)
  <2>1. Linked(tree, M)
    BY <1>1, <1>2, LinkedFacts
  <2> QED BY <1>4, <2>1, LevelFacts DEF Calm
<1>6. \A n \in M \union {Nil} : Height[n] = height[n]
  BY <1>1, <1>2, <1>5, HeightIs DEF M
<1>7. ASSUME NEW n \in M
      PROVE  Height[tree.ch["l"][n]] = Height[tree.ch["r"][n]]
  <2>1. tree.ch["l"][n] \in M \union {Nil} /\ tree.ch["r"][n] \in M \union {Nil}
    BY <1>1 DEF Shape, Links, Sides
  <2>2. /\ height[n] = height[tree.ch["l"][n]] + Weight(tree.red[n])
        /\ height[n] = height[tree.ch["r"][n]] + Weight(tree.red[n])
    BY <1>5 DEF Level, Sides
  <2>3. height[tree.ch["l"][n]] \in Nat /\ height[tree.ch["r"][n]] \in Nat
    BY <1>1, <1>5, <2>1 DEF Level, Shape, Links, All
  <2>4. Weight(tree.red[n]) \in Nat
    BY DEF Weight
  <2>5. height[tree.ch["l"][n]] = height[tree.ch["r"][n]]
    BY <2>2, <2>3, <2>4
  <2> QED BY <1>6, <2>1, <2>5
<1>8. ~ tree.red[tree.root] /\ Rosy(tree.ch, tree.red, M, {})
  BY <1>4 DEF Calm
<1>9. \A n \in M : tree.red[n] => ~ tree.red[tree.ch["l"][n]] /\ ~ tree.red[tree.ch["r"][n]]
  BY <1>8 DEF Rosy, Sides
<1> QED BY <1>7, <1>8, <1>9 DEF Balanced, M

-------------------------------------------------------------------------------
(* The nodes of A, one after another in the order R.                         *)
Listing(s, A, R) ==
    /\ s \in Seq(Nodes) /\ Elems(s) = A
    /\ \A i, j \in 1..Len(s) : i < j => <<s[i], s[j]>> \in R

(* Two listings of a set begin alike as far as both go.                      *)
LEMMA SamePrefix ==
  ASSUME NEW R, Strict(R), NEW A, NEW s, NEW t, Listing(s, A, R), Listing(t, A, R)
  PROVE  \A i \in 1..Len(s) : i <= Len(t) /\ s[i] = t[i]
<1> DEFINE m == Len(s)
           n == Len(t)
           S == {i \in 1..m : ~ (i <= n /\ s[i] = t[i])}
<1>1. /\ m \in Nat /\ n \in Nat
      /\ \A i \in 1..m : s[i] \in Nodes /\ \E j \in 1..n : s[i] = t[j]
      /\ \A j \in 1..n : t[j] \in Nodes /\ \E i \in 1..m : t[j] = s[i]
  <2>1. \A i \in 1..m : s[i] \in A
    BY DEF Listing, Elems
  <2>2. \A j \in 1..n : t[j] \in A
    BY DEF Listing, Elems
  <2>3. \A k \in A : (\E i \in 1..m : k = s[i]) /\ (\E j \in 1..n : k = t[j])
    BY DEF Listing, Elems
  <2>4. m \in Nat /\ n \in Nat /\ (\A i \in 1..m : s[i] \in Nodes) /\ (\A j \in 1..n : t[j] \in Nodes)
    BY DEF Listing
  <2> QED BY <2>1, <2>2, <2>3, <2>4
<1>2. /\ \A i, j \in 1..m : i < j => <<s[i], s[j]>> \in R
      /\ \A i, j \in 1..n : i < j => <<t[i], t[j]>> \in R
  BY DEF Listing
<1>3. /\ \A k \in Nodes : <<k, k>> \notin R
      /\ \A k, l \in Nodes : <<k, l>> \in R => <<l, k>> \notin R
  BY DEF Strict
<1> HIDE DEF m, n
<1> SUFFICES ASSUME S # {} PROVE FALSE
  BY DEF m, n
<1>4. S \in SUBSET Nat
  BY <1>1
<1>5. PICK i \in S : \A k \in S : i <= k
  <2> HIDE DEF S
  <2> QED BY <1>4, LeastOf
<1>6. i \in 1..m /\ i \in Nat /\ \A k \in 1..m : k < i => k <= n /\ s[k] = t[k]
  BY <1>1, <1>5
<1>7. PICK j \in 1..n : s[i] = t[j]
  BY <1>1, <1>6
<1>8. ~ (j < i)
  <2>1. SUFFICES ASSUME j < i PROVE FALSE
    OBVIOUS
  <2>2. j \in 1..m /\ s[j] = t[j]
    BY <1>1, <1>6, <1>7, <2>1
  <2>3. <<s[j], s[i]>> \in R
    BY <1>2, <1>6, <2>1, <2>2
  <2> QED BY <1>1, <1>3, <1>6, <1>7, <2>2, <2>3
<1>9. i \in 1..n /\ s[i] # t[i] /\ i < j
  <2>1. i <= j /\ i \in 1..n
    BY <1>1, <1>6, <1>7, <1>8
  <2>2. s[i] # t[i]
    BY <1>5, <2>1
  <2>3. i # j
    BY <1>7, <2>2
  <2> QED BY <1>1, <1>6, <2>1, <2>2, <2>3
<1>10. <<t[i], s[i]>> \in R
  BY <1>2, <1>7, <1>9
<1>11. PICK k \in 1..m : t[i] = s[k]
  BY <1>1, <1>9
<1>12. ~ (k < i)
  <2>1. SUFFICES ASSUME k < i PROVE FALSE
    OBVIOUS
  <2>2. k \in 1..n /\ t[k] = t[i]
    BY <1>1, <1>6, <1>11, <2>1
  <2>3. <<t[k], t[i]>> \in R
    BY <1>2, <1>9, <2>1, <2>2
  <2> QED BY <1>1, <1>3, <1>9, <2>2, <2>3
<1>13. i < k
  <2>1. k # i
    BY <1>9, <1>11
  <2>2. k \in Nat
    BY <1>1, <1>11
  <2> QED BY <1>6, <1>12, <2>1, <2>2
<1>14. <<s[i], t[i]>> \in R
  BY <1>2, <1>6, <1>11, <1>13
<1> QED BY <1>1, <1>3, <1>6, <1>9, <1>10, <1>14

(* A set has one listing.                                                    *)
LEMMA OneListing ==
  ASSUME NEW R, Strict(R), NEW A, NEW s, NEW t, Listing(s, A, R), Listing(t, A, R)
  PROVE  s = t
<1>1. \A i \in 1..Len(s) : i <= Len(t) /\ s[i] = t[i]
  BY SamePrefix
<1>2. \A i \in 1..Len(t) : i <= Len(s)
  BY SamePrefix
<1>3. s \in Seq(Nodes) /\ t \in Seq(Nodes) /\ Len(s) \in Nat /\ Len(t) \in Nat
  BY DEF Listing
<1>4. Len(s) <= Len(t)
  BY <1>1, <1>3
<1>5. Len(t) <= Len(s)
  BY <1>2, <1>3
<1>6. Len(s) = Len(t)
  BY <1>3, <1>4, <1>5
<1> QED BY <1>1, <1>3, <1>6, SeqEqual

(* The listings of the nodes below on either side, with the node between,    *)
(* list what is below it.                                                    *)
LEMMA JoinListing ==
  ASSUME NEW R, Strict(R), NEW A, NEW B, NEW a, NEW b, Listing(a, A, R), Listing(b, B, R),
         NEW n \in Nodes, \A k \in A : <<k, n>> \in R, \A k \in B : <<n, k>> \in R
  PROVE  Listing(a \o <<n>> \o b, A \union {n} \union B, R)
<1> DEFINE x == a \o <<n>>
           y == x \o b
           lo == Len(a)
           hi == Len(b)
<1>1. /\ a \in Seq(Nodes) /\ b \in Seq(Nodes) /\ lo \in Nat /\ hi \in Nat
      /\ <<n>> \in Seq(Nodes) /\ Len(<<n>>) = 1 /\ <<n>>[1] = n
  BY DEF Listing
<1>2. /\ x \in Seq(Nodes) /\ Len(x) = lo + 1
      /\ \A i \in 1..(lo + 1) : x[i] = IF i <= lo THEN a[i] ELSE n
  <2>1. /\ x \in Seq(Nodes) /\ Len(x) = Len(a) + Len(<<n>>)
        /\ \A i \in 1..(Len(a) + Len(<<n>>)) : x[i] = IF i <= Len(a) THEN a[i] ELSE <<n>>[i - Len(a)]
    BY <1>1, ConcatProperties
  <2>2. \A i \in 1..(lo + 1) : ~ (i <= lo) => i - lo = 1
    BY <1>1
  <2> QED BY <1>1, <2>1, <2>2
<1>3. /\ y \in Seq(Nodes) /\ Len(y) = Len(x) + Len(b)
      /\ \A i \in 1..(Len(x) + Len(b)) : y[i] = IF i <= Len(x) THEN x[i] ELSE b[i - Len(x)]
  <2> HIDE DEF x
  <2> QED BY <1>1, <1>2, ConcatProperties
<1> HIDE DEF x, y
<1>4. Len(y) = lo + 1 + hi
  BY <1>2, <1>3
<1>5. ASSUME NEW i \in 1..lo PROVE i \in 1..Len(y) /\ y[i] = a[i]
  <2>1. i \in 1..Len(y) /\ i \in 1..(lo + 1) /\ i <= lo
    BY <1>1, <1>4
  <2>2. y[i] = x[i]
    BY <1>2, <1>3, <1>4, <2>1
  <2> QED BY <1>2, <2>1, <2>2
<1>6. lo + 1 \in 1..Len(y) /\ y[lo + 1] = n
  BY <1>1, <1>2, <1>3
<1>7. ASSUME NEW i \in 1..hi PROVE lo + 1 + i \in 1..Len(y) /\ y[lo + 1 + i] = b[i]
  <2>1. lo + 1 + i \in 1..Len(y) /\ ~ (lo + 1 + i <= lo + 1) /\ (lo + 1 + i) - (lo + 1) = i
    BY <1>1, <1>4
  <2>2. y[lo + 1 + i] = b[(lo + 1 + i) - (lo + 1)]
    BY <1>2, <1>3, <1>4, <2>1
  <2> QED BY <2>1, <2>2
<1>8. \A i \in 1..Len(y) : i \in 1..lo \/ i = lo + 1 \/ \E j \in 1..hi : i = lo + 1 + j
  <2> SUFFICES ASSUME NEW i \in 1..Len(y), i \notin 1..lo, i # lo + 1
               PROVE  \E j \in 1..hi : i = lo + 1 + j
    OBVIOUS
  <2>1. i - (lo + 1) \in 1..hi /\ i = lo + 1 + (i - (lo + 1))
    BY <1>1, <1>4
  <2> QED BY <2>1
<1>9. /\ (\A k \in A : \E i \in 1..lo : k = a[i]) /\ (\A i \in 1..lo : a[i] \in A)
      /\ (\A k \in B : \E i \in 1..hi : k = b[i]) /\ (\A i \in 1..hi : b[i] \in B)
      /\ (\A i, j \in 1..lo : i < j => <<a[i], a[j]>> \in R)
      /\ (\A i, j \in 1..hi : i < j => <<b[i], b[j]>> \in R)
      /\ A \subseteq Nodes /\ B \subseteq Nodes
  <2>1. A = {a[i] : i \in 1..lo} /\ B = {b[i] : i \in 1..hi}
    BY DEF Listing, Elems
  <2>2. /\ (\A i, j \in 1..lo : i < j => <<a[i], a[j]>> \in R)
        /\ (\A i, j \in 1..hi : i < j => <<b[i], b[j]>> \in R)
    BY DEF Listing
  <2>3. (\A i \in 1..lo : a[i] \in Nodes) /\ (\A i \in 1..hi : b[i] \in Nodes)
    BY <1>1
  <2> QED BY <2>1, <2>2, <2>3
<1>10. Elems(y) = A \union {n} \union B
  <2>1. ASSUME NEW i \in 1..Len(y) PROVE y[i] \in A \union {n} \union B
    <3>1. CASE i \in 1..lo
      BY <1>5, <1>9, <3>1
    <3>2. CASE i = lo + 1
      BY <1>6, <3>2
    <3>3. CASE \E j \in 1..hi : i = lo + 1 + j
      BY <1>7, <1>9, <3>3
    <3> QED BY <1>8, <3>1, <3>2, <3>3
  <2>2. \A k \in A \union {n} \union B : \E i \in 1..Len(y) : y[i] = k
    BY <1>5, <1>6, <1>7, <1>9
  <2> QED BY <2>1, <2>2 DEF Elems
<1>11. ASSUME NEW i \in 1..Len(y), NEW j \in 1..Len(y), i < j
       PROVE  <<y[i], y[j]>> \in R
  <2>1. \A k \in A, m \in B : <<k, m>> \in R
    BY <1>9 DEF Strict
  <2>2. CASE i \in 1..lo
    <3>1. y[i] = a[i] /\ a[i] \in A
      BY <1>5, <1>9, <2>2
    <3>2. CASE j \in 1..lo
      BY <1>5, <1>9, <1>11, <2>2, <3>1, <3>2
    <3>3. CASE j = lo + 1
      BY <1>6, <3>1, <3>3
    <3>4. CASE \E k \in 1..hi : j = lo + 1 + k
      BY <1>7, <1>9, <2>1, <3>1, <3>4
    <3> QED BY <1>8, <3>2, <3>3, <3>4
  <2>3. CASE i = lo + 1
    <3>1. PICK k \in 1..hi : j = lo + 1 + k
      BY <1>1, <1>8, <1>11, <2>3
    <3> QED BY <1>6, <1>7, <1>9, <2>3, <3>1
  <2>4. CASE \E k \in 1..hi : i = lo + 1 + k
    <3>1. PICK k \in 1..hi : i = lo + 1 + k
      BY <2>4
    <3>2. PICK l \in 1..hi : j = lo + 1 + l
      BY <1>1, <1>8, <1>11, <3>1
    <3>3. k < l
      BY <1>1, <1>11, <3>1, <3>2
    <3> QED BY <1>7, <1>9, <3>1, <3>2, <3>3
  <2> QED BY <1>8, <2>2, <2>3, <2>4
<1>12. Listing(y, A \union {n} \union B, R)
  BY <1>3, <1>10, <1>11 DEF Listing
<1> QED BY <1>12 DEF x, y

-------------------------------------------------------------------------------
(* The walk from left to right lists what is below a node.                   *)

(* The listing of nothing.                                                   *)
LEMMA EmptyListing ==
  ASSUME NEW R
  PROVE  Listing(<< >>, {}, R)
<1> DEFINE s == << >>
<1>1. s \in Seq(Nodes) /\ Len(s) = 0 /\ Elems(s) = {}
  BY DEF Elems
<1>2. \A i, j \in 1..Len(s) : i < j => <<s[i], s[j]>> \in R
  BY <1>1
<1>3. Listing(s, {}, R)
  BY <1>1, <1>2 DEF Listing
<1> QED BY <1>3

(* What is below a node, by its two sides.                                   *)
Split(R, sub, n, l, r) ==
    /\ n \in Nodes /\ sub[n] = sub[l] \union {n} \union sub[r]
    /\ \A k \in sub[l] : <<k, n>> \in R
    /\ \A k \in sub[r] : <<n, k>> \in R

(* What is below a node is the node and what is below either child.          *)
LEMMA TwoSides ==
  ASSUME NEW u, NEW M, NEW R, NEW sub, Strict(R), Shape(u.root, u.ch, u.p, M, R, sub), NEW n \in M
  PROVE  Split(R, sub, n, u.ch["l"][n], u.ch["r"][n])
<1> DEFINE l == u.ch["l"][n]
           r == u.ch["r"][n]
<1>1. n \in Nodes /\ n \in All /\ l \in M \union {Nil} /\ r \in M \union {Nil} /\ Nil \in All
      /\ M \subseteq All
  BY DEF Shape, Links, Sides, All
<1>2. sub \in [All -> SUBSET M]
  BY DEF Shape, Spans
<1>3. \A k \in M : k \in sub[n] <=> k = n \/ k \in sub[l] \/ k \in sub[r]
  BY DEF Shape, Spans, Sides
<1>4. sub[n] \subseteq M /\ sub[l] \subseteq M /\ sub[r] \subseteq M
  BY <1>1, <1>2
<1>5. sub[n] = sub[l] \union {n} \union sub[r]
  BY <1>3, <1>4
<1>6. /\ \A k \in sub[l] : Prec(R, "l", k, n)
      /\ \A k \in sub[r] : Prec(R, "r", k, n)
  BY DEF Shape, Sorted, Sides
<1>7. Split(R, sub, n, l, r)
  BY <1>1, <1>5, <1>6 DEF Prec, Split
<1> QED BY <1>7

(* What is below a node has a listing.                                       *)
LEMMA HasListing ==
  ASSUME NEW u, NEW M, NEW R, NEW sub, Strict(R), Shape(u.root, u.ch, u.p, M, R, sub)
  PROVE  \A n \in M \union {Nil} : \E s : Listing(s, sub[n], R)
<1> DEFINE Has(n) == \E s : Listing(s, sub[n], R)
           S == {n \in M : ~ Has(n)}
<1>1. Has(Nil)
  <2>1. sub[Nil] = {}
    BY DEF Shape, Spans
  <2> QED BY <2>1, EmptyListing
<1>2. ASSUME NEW n \in M, Has(u.ch["l"][n]), Has(u.ch["r"][n]) PROVE Has(n)
  <2> DEFINE l == u.ch["l"][n]
             r == u.ch["r"][n]
  <2>0. Split(R, sub, n, l, r)
    BY TwoSides
  <2>1. /\ n \in Nodes /\ sub[n] = sub[l] \union {n} \union sub[r]
        /\ \A k \in sub[l] : <<k, n>> \in R
        /\ \A k \in sub[r] : <<n, k>> \in R
    BY <2>0 DEF Split
  <2>2. PICK a : Listing(a, sub[l], R)
    BY <1>2
  <2>3. PICK b : Listing(b, sub[r], R)
    BY <1>2
  <2> HIDE DEF l, r
  <2>4. Listing(a \o <<n>> \o b, sub[l] \union {n} \union sub[r], R)
    BY <2>1, <2>2, <2>3, JoinListing
  <2> QED BY <2>1, <2>4
<1>3. \A n \in M : \A s \in Sides : u.ch[s][n] \in M \union {Nil}
  BY DEF Shape, Links
<1> HIDE DEF Has
<1>4. S = {}
  <2>1. SUFFICES ASSUME S # {} PROVE FALSE
    OBVIOUS
  <2>2. PICK n \in S : \A s \in Sides : u.ch[s][n] \notin S
    BY <2>1, Lowest
  <2>3. Has(u.ch["l"][n]) /\ Has(u.ch["r"][n])
    BY <1>1, <1>3, <2>2 DEF Sides
  <2> QED BY <1>2, <2>2, <2>3
<1>5. \A n \in M \union {Nil} : Has(n)
  BY <1>1, <1>4
<1> QED BY <1>5 DEF Has

WalkLaw(f) ==
    f = [n \in All \union {Null} |->
            IF n \in Members THEN f[tree.ch["l"][n]] \o <<n>> \o f[tree.ch["r"][n]] ELSE << >>]

(* Walk obeys its own definition, if any function does.                      *)
LEMMA WalkUnfolds ==
  ASSUME NEW f, WalkLaw(f)
  PROVE  WalkLaw(Walk)
BY DEF WalkLaw, Walk

(* Walk lists what is below a node.                                          *)
LEMMA WalkLists ==
  ASSUME NEW R, NEW sub, Strict(R), Shape(tree.root, tree.ch, tree.p, Members, R, sub)
  PROVE  \A n \in Members \union {Nil} : Listing(Walk[n], sub[n], R)
<1> DEFINE M == Members
           D == All \union {Null}
           At(n) == CHOOSE s : Listing(s, sub[n], R)
           f == [n \in D |-> IF n \in M THEN At(n) ELSE << >>]
<1>1. /\ M \subseteq All /\ Nil \in All /\ Nil \notin M
      /\ \A n \in M : tree.ch["l"][n] \in M \union {Nil} /\ tree.ch["r"][n] \in M \union {Nil}
  BY NodesAssumption DEF Shape, Links, All, Sides
<1>2. \A n \in M \union {Nil} : \E s : Listing(s, sub[n], R)
  BY HasListing
<1>3. \A n \in M \union {Nil} : Listing(At(n), sub[n], R)
  BY <1>2
<1> HIDE DEF At
<1>4. Listing(<< >>, sub[Nil], R)
  <2>1. sub[Nil] = {}
    BY DEF Shape, Spans
  <2> QED BY <2>1, EmptyListing
<1>5. \A n \in M \union {Nil} : Listing(f[n], sub[n], R)
  BY <1>1, <1>3, <1>4
<1>6. ASSUME NEW n \in M, NEW g, \A k \in M \union {Nil} : k # n => Listing(g[k], sub[k], R)
      PROVE  Listing(g[tree.ch["l"][n]] \o <<n>> \o g[tree.ch["r"][n]], sub[n], R)
  <2> DEFINE l == tree.ch["l"][n]
             r == tree.ch["r"][n]
  <2>0. Split(R, sub, n, l, r)
    BY TwoSides
  <2>1. /\ n \in Nodes /\ sub[n] = sub[l] \union {n} \union sub[r]
        /\ \A k \in sub[l] : <<k, n>> \in R
        /\ \A k \in sub[r] : <<n, k>> \in R
    BY <2>0 DEF Split
  <2>2. l \in M \union {Nil} /\ r \in M \union {Nil}
    BY <1>1
  <2>3. l # n /\ r # n
    <3>1. <<n, n>> \notin R
      BY <2>1 DEF Strict
    <3>2. n \in sub[n]
      BY <2>1
    <3> QED BY <2>1, <3>1, <3>2
  <2> HIDE DEF l, r
  <2>4. Listing(g[l], sub[l], R) /\ Listing(g[r], sub[r], R)
    BY <1>6, <2>2, <2>3
  <2>5. Listing(g[l] \o <<n>> \o g[r], sub[l] \union {n} \union sub[r], R)
    BY <2>1, <2>4, JoinListing
  <2>6. Listing(g[l] \o <<n>> \o g[r], sub[n], R)
    BY <2>1, <2>5
  <2> QED BY <2>6 DEF l, r
<1>7. WalkLaw(f)
  <2>1. ASSUME NEW n \in M
        PROVE  f[n] = f[tree.ch["l"][n]] \o <<n>> \o f[tree.ch["r"][n]]
    <3> HIDE DEF f
    <3>1. Listing(f[tree.ch["l"][n]] \o <<n>> \o f[tree.ch["r"][n]], sub[n], R)
      BY <1>5, <1>6
    <3>2. Listing(f[n], sub[n], R)
      BY <1>5
    <3> QED BY <3>1, <3>2, OneListing
  <2>2. ASSUME NEW n \in D, n \notin M PROVE f[n] = << >>
    BY <2>2
  <2> DEFINE e(n) == IF n \in M THEN f[tree.ch["l"][n]] \o <<n>> \o f[tree.ch["r"][n]] ELSE << >>
  <2>3. \A n \in D : f[n] = e(n)
    BY <2>1, <2>2
  <2>4. f = [n \in D |-> f[n]]
    OBVIOUS
  <2> HIDE DEF f, e
  <2>5. f = [n \in D |-> e(n)]
    BY <2>3, <2>4
  <2> QED BY <2>5 DEF WalkLaw, e
<1>8. WalkLaw(Walk)
  BY <1>7, WalkUnfolds
<1>9. /\ Walk[Nil] = << >>
      /\ \A n \in M : Walk[n] = Walk[tree.ch["l"][n]] \o <<n>> \o Walk[tree.ch["r"][n]]
  BY <1>1, <1>8 DEF WalkLaw
<1> DEFINE S == {n \in M : ~ Listing(Walk[n], sub[n], R)}
<1>10. S = {}
  <2>1. SUFFICES ASSUME S # {} PROVE FALSE
    OBVIOUS
  <2>2. PICK n \in S : \A s \in Sides : tree.ch[s][n] \notin S
    BY <2>1, Lowest
  <2> DEFINE l == tree.ch["l"][n]
             r == tree.ch["r"][n]
  <2>3. Listing(Walk[l], sub[l], R) /\ Listing(Walk[r], sub[r], R)
    BY <1>1, <1>4, <1>9, <2>2 DEF Sides
  <2>0. Split(R, sub, n, l, r)
    BY <2>2, TwoSides
  <2>4. /\ n \in Nodes /\ sub[n] = sub[l] \union {n} \union sub[r]
        /\ \A k \in sub[l] : <<k, n>> \in R
        /\ \A k \in sub[r] : <<n, k>> \in R
    BY <2>0 DEF Split
  <2>5. Walk[n] = Walk[l] \o <<n>> \o Walk[r]
    BY <1>9, <2>2
  <2> HIDE DEF l, r
  <2>6. Listing(Walk[l] \o <<n>> \o Walk[r], sub[l] \union {n} \union sub[r], R)
    BY <2>3, <2>4, JoinListing
  <2> QED BY <2>2, <2>4, <2>5, <2>6
<1> QED BY <1>4, <1>9, <1>10

(* The walk of the tree and the list are listings of the same nodes.         *)
LEMMA KeepsOrderHolds ==
  ASSUME TreeIInv
  PROVE  KeepsOrder
<1> DEFINE R == Ranks(list)
<1>1. SortedList(list) /\ Strict(R)
  BY TreeParts
<1>2. PICK sub : Shape(tree.root, tree.ch, tree.p, Members, R, sub)
  BY TreeParts
<1>3. sub[tree.root] = Members /\ tree.root \in Members \union {Nil}
  BY <1>2 DEF Shape, Links, Spans
<1>4. Listing(Walk[tree.root], Members, R)
  BY <1>1, <1>2, <1>3, WalkLists
<1>5. Listing(list, Members, R)
  <2>1. Elems(list) = Members /\ list \in Seq(Nodes)
    BY <1>1 DEF Elems, Members, SortedList
  <2>2. \A i, j \in 1..Len(list) : i < j => <<list[i], list[j]>> \in R
    BY <1>1, RankPair
  <2> QED BY <2>1, <2>2 DEF Listing
<1>6. Walk[tree.root] = list
  BY <1>1, <1>4, <1>5, OneListing
<1> QED BY <1>6 DEF KeepsOrder

(* At every step the tree read from left to right is the list of its nodes   *)
(* sorted by key, equal keys in the order they came (ws_rbtree.c:139).       *)
THEOREM TreeKeepsOrder == TreeSpec => []KeepsOrder
<1>1. TreeIInv => KeepsOrder
  BY KeepsOrderHolds
<1> QED BY <1>1, TreeInvariant, PTL

(* After every operation no red node has a red child, the root is black, and *)
(* every way down has as many black nodes: the two re-balancing loops        *)
(* (ws_rbtree.c:41, 316) did their work.                                     *)
THEOREM TreeBalanced == TreeSpec => []Balanced
<1>1. TreeIInv => Balanced
  BY BalancedHolds
<1> QED BY <1>1, TreeInvariant, PTL

(* At every step the parent of a child is the node it is the child of: the   *)
(* loops that go up by these links (ws_rbtree.c:43, 258, 318) find their     *)
(* way.                                                                      *)
THEOREM TreeLinksBack == TreeSpec => []LinksBack
<1>1. TreeIInv => LinksBack
  BY LinksBackHolds
<1> QED BY <1>1, TreeInvariant, PTL

(* ws_rbtree_get returns a node with the key exactly when there is one, and  *)
(* ws_rbtree_min the oldest of the nodes with the least key.                 *)
THEOREM TreeAnswers == TreeSpec => []Answers
<1>1. TreeIInv => Answers
  BY AnswersHolds
<1> QED BY <1>1, TreeInvariant, PTL
===============================================================================
