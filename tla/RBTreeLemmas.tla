----------------------------- MODULE RBTreeLemmas -----------------------------
(* What the steps of RBTree do to the shape and the colours of a tree, for   *)
(* any nodes and any keys.                                                   *)
EXTENDS RBTree, FunctionTheorems, FiniteSetTheorems, SequenceTheorems, TLAPS

-------------------------------------------------------------------------------
(* What a tree is, by its links: M are the nodes in it, R is an order of     *)
(* nodes as a set of pairs, sub[n] are the nodes below and with n.           *)

Prec(R, s, m, n) == IF s = "l" THEN <<m, n>> \in R ELSE <<n, m>> \in R

Strict(R) ==
    /\ \A n \in Nodes : <<n, n>> \notin R
    /\ \A k, m, n \in Nodes : <<k, m>> \in R /\ <<m, n>> \in R => <<k, n>> \in R

Links(root, ch, p, M) ==
    /\ IsFiniteSet(M) /\ M \subseteq Nodes /\ root \in M \union {Nil}
    /\ \A n \in M : \A s \in Sides : ch[s][n] \in M \union {Nil}
    /\ \A n \in M : \A s \in Sides : ch[s][n] # Nil => p[ch[s][n]] = n
    /\ \A n \in M : n # root => p[n] \in M /\ \E s \in Sides : ch[s][p[n]] = n

Spans(root, ch, M, sub) ==
    /\ sub \in [All -> SUBSET M] /\ sub[Nil] = {} /\ sub[root] = M
    /\ \A n \in M : \A k \in M :
          k \in sub[n] <=> k = n \/ \E s \in Sides : k \in sub[ch[s][n]]

Sorted(ch, M, R, sub) ==
    \A n \in M : \A s \in Sides : \A k \in sub[ch[s][n]] : Prec(R, s, k, n)

Shape(root, ch, p, M, R, sub) ==
    Links(root, ch, p, M) /\ Spans(root, ch, M, sub) /\ Sorted(ch, M, R, sub)

(* There are two sides, and each is the other one of the other.              *)
LEMMA SideCases ==
  ASSUME NEW s \in Sides
  PROVE  /\ Other(s) \in Sides /\ Other(s) # s /\ Other(Other(s)) = s
         /\ \A d \in Sides : d = s \/ d = Other(s)
BY DEF Sides, Other

(* On either side a strict order is a strict order, and its converse on the  *)
(* other.                                                                    *)
LEMMA PrecFacts ==
  ASSUME NEW R, Strict(R), NEW s \in Sides, NEW k \in Nodes, NEW m \in Nodes, NEW n \in Nodes
  PROVE  /\ ~ Prec(R, s, n, n)
         /\ Prec(R, s, k, m) /\ Prec(R, s, m, n) => Prec(R, s, k, n)
         /\ Prec(R, Other(s), m, n) <=> Prec(R, s, n, m)
         /\ ~ (Prec(R, s, m, n) /\ Prec(R, s, n, m))
<1>1. CASE s = "l"
  BY <1>1 DEF Prec, Strict, Sides, Other
<1>2. CASE s = "r"
  BY <1>2 DEF Prec, Strict, Sides, Other
<1> QED BY <1>1, <1>2 DEF Sides

-------------------------------------------------------------------------------
(* Every set of natural numbers has a least element, and every set of nodes  *)
(* of a tree one with none of the set below it.                              *)

Smaller == {ss \in Nat \X Nat : ss[1] < ss[2]}

(* Nothing descends for ever among the natural numbers.                      *)
LEMMA SmallerWellFounded == IsWellFoundedOn(Smaller, Nat)
BY NatLessThanWellFounded DEF OpToRel, Smaller

(* Every set of them that is not empty has a least one.                      *)
LEMMA LeastOf ==
  ASSUME NEW S \in SUBSET Nat, S # {}
  PROVE  \E m \in S : \A k \in S : m <= k
<1>1. PICK m \in S : \A k \in S : ~ (<<k, m>> \in Smaller)
  BY SmallerWellFounded, WFMin
<1>2. ASSUME NEW k \in S PROVE m <= k
  <2>1. <<k, m>> \in Nat \X Nat /\ <<k, m>>[1] = k /\ <<k, m>>[2] = m
    OBVIOUS
  <2>2. ~ (k < m)
    BY <1>1, <2>1 DEF Smaller
  <2> QED BY <2>2
<1> QED BY <1>2

(* Every set of nodes of a tree has one with no child in it: one with the    *)
(* fewest nodes below it.                                                    *)
LEMMA Lowest ==
  ASSUME NEW root, NEW ch, NEW p, NEW M, NEW R, NEW sub,
         Strict(R), Shape(root, ch, p, M, R, sub),
         NEW S \in SUBSET M, S # {}
  PROVE  \E n \in S : \A s \in Sides : ch[s][n] \notin S
<1> DEFINE size(n) == Cardinality(sub[n])
           sizes == {size(n) : n \in S}
<1>1. \A n \in M : sub[n] \in SUBSET M /\ IsFiniteSet(sub[n]) /\ size(n) \in Nat
  <2> SUFFICES ASSUME NEW n \in M PROVE sub[n] \in SUBSET M /\ IsFiniteSet(sub[n]) /\ size(n) \in Nat
    OBVIOUS
  <2>1. n \in All /\ IsFiniteSet(M) /\ sub \in [All -> SUBSET M]
    BY DEF Shape, Links, Spans, All
  <2>2. sub[n] \in SUBSET M
    BY <2>1
  <2>3. IsFiniteSet(sub[n])
    BY <2>1, <2>2, FS_Subset
  <2> QED BY <2>2, <2>3, FS_CardinalityType
<1>2. sizes \in SUBSET Nat /\ sizes # {}
  BY <1>1
<1>3. PICK least \in sizes : \A k \in sizes : least <= k
  BY <1>2, LeastOf
<1>4. PICK n \in S : least = size(n)
  OBVIOUS
<1>5. ASSUME NEW s \in Sides, ch[s][n] \in S PROVE FALSE
  <2> DEFINE c == ch[s][n]
  <2>1. n \in M /\ c \in M /\ n \in Nodes /\ c \in Nodes
    BY <1>5 DEF Shape, Links
  <2>2. sub[n] \subseteq M /\ sub[c] \subseteq M
    BY <1>1, <2>1
  <2>3. \A k \in M : k \in sub[n] <=> k = n \/ \E d \in Sides : k \in sub[ch[d][n]]
    BY <2>1 DEF Shape, Spans
  <2>4. n \in sub[n] /\ sub[c] \subseteq sub[n]
    BY <2>1, <2>2, <2>3
  <2>5. n \notin sub[c]
    <3>1. SUFFICES ASSUME n \in sub[c] PROVE FALSE
      OBVIOUS
    <3>2. Prec(R, s, n, n)
      BY <2>1, <3>1 DEF Shape, Sorted
    <3> QED BY <2>1, <3>2, PrecFacts
  <2>6. IsFiniteSet(sub[n]) /\ sub[c] \in SUBSET sub[n] /\ sub[c] # sub[n]
    BY <1>1, <2>1, <2>4, <2>5
  <2>7. Cardinality(sub[c]) <= Cardinality(sub[n]) /\ Cardinality(sub[c]) # Cardinality(sub[n])
    BY <2>6, FS_Subset
  <2>8. size(c) \in Nat /\ size(n) \in Nat /\ size(c) < size(n)
    BY <1>1, <2>1, <2>7
  <2>9. size(c) \in sizes
    BY <1>5
  <2>10. size(n) <= size(c)
    BY <1>3, <1>4, <2>9
  <2> HIDE DEF size
  <2> QED BY <2>8, <2>10
<1> QED BY <1>4, <1>5


(* What is below a node that is below n is below n.                          *)
LEMMA Nested ==
  ASSUME NEW root, NEW ch, NEW p, NEW M, NEW R, NEW sub,
         Strict(R), Shape(root, ch, p, M, R, sub), NEW n \in M, NEW m \in sub[n]
  PROVE  sub[m] \subseteq sub[n]
<1> DEFINE S == {a \in M : \E b \in sub[a] : ~ (sub[b] \subseteq sub[a])}
<1> SUFFICES ASSUME S # {} PROVE FALSE
  OBVIOUS
<1>1. PICK a \in S : \A s \in Sides : ch[s][a] \notin S
  BY Lowest
<1>2. PICK b \in sub[a] : ~ (sub[b] \subseteq sub[a])
  OBVIOUS
<1>3. a \in M /\ b \in M /\ sub[a] \subseteq M
  BY DEF Shape, Links, Spans, All
<1>4. b # a
  BY <1>2
<1>5. PICK s \in Sides : b \in sub[ch[s][a]]
  BY <1>3, <1>4 DEF Shape, Spans
<1>6. ch[s][a] \in M
  BY <1>3, <1>5 DEF Shape, Links, Spans
<1>7. sub[b] \subseteq sub[ch[s][a]]
  BY <1>1, <1>5, <1>6
<1>8. sub[ch[s][a]] \subseteq sub[a]
  BY <1>3, <1>6 DEF Shape, Spans, All, Links
<1> QED BY <1>2, <1>7, <1>8

(* Whoever is above a node, and not it, is above its parent.                 *)
LEMMA AboveParent ==
  ASSUME NEW root, NEW ch, NEW p, NEW M, NEW R, NEW sub,
         Strict(R), Shape(root, ch, p, M, R, sub),
         NEW n \in M, NEW m \in sub[n], m # n
  PROVE  p[m] \in sub[n]
<1> DEFINE S == {a \in M : \E b \in sub[a] : b # a /\ p[b] \notin sub[a]}
<1> SUFFICES ASSUME S # {} PROVE FALSE
  OBVIOUS
<1>1. PICK a \in S : \A s \in Sides : ch[s][a] \notin S
  BY Lowest
<1>2. PICK b \in sub[a] : b # a /\ p[b] \notin sub[a]
  OBVIOUS
<1>3. a \in M /\ b \in M /\ sub[a] \subseteq M
  BY DEF Shape, Links, Spans, All
<1>4. PICK s \in Sides : b \in sub[ch[s][a]]
  BY <1>2, <1>3 DEF Shape, Spans
<1>5. ch[s][a] \in M
  BY <1>3, <1>4 DEF Shape, Links, Spans
<1>6. a \in sub[a]
  BY <1>3 DEF Shape, Spans
<1>7. sub[ch[s][a]] \subseteq sub[a]
  BY <1>3, <1>5 DEF Shape, Spans, All, Links
<1>8. CASE b = ch[s][a]
  <2>1. ch[s][a] # Nil
    BY <1>5, NodesAssumption DEF Shape, Links
  <2>2. p[b] = a
    BY <1>3, <1>8, <2>1 DEF Shape, Links
  <2> QED BY <1>2, <1>6, <2>2
<1>9. CASE b # ch[s][a]
  BY <1>1, <1>2, <1>4, <1>5, <1>7, <1>9
<1> QED BY <1>8, <1>9

(* The root is nobody's child, and no node is on both sides of another.      *)
LEMMA ChildFacts ==
  ASSUME NEW root, NEW ch, NEW p, NEW M, NEW R, NEW sub,
         Strict(R), Shape(root, ch, p, M, R, sub),
         NEW n \in M, NEW s \in Sides, ch[s][n] # Nil
  PROVE  /\ ch[s][n] \in M /\ ch[s][n] # n /\ ch[s][n] # root
         /\ ch[Other(s)][n] # ch[s][n]
         /\ p[ch[s][n]] = n
         /\ ch[s][n] \in sub[ch[s][n]]
<1> DEFINE c == ch[s][n]
<1>1. c \in M /\ p[c] = n /\ c \in Nodes /\ n \in Nodes
  BY DEF Shape, Links
<1>2. c \in sub[c]
  BY <1>1 DEF Shape, Spans
<1>3. Prec(R, s, c, n)
  BY <1>2 DEF Shape, Sorted
<1>4. c # n
  BY <1>1, <1>3, PrecFacts
<1>5. ch[Other(s)][n] # c
  <2>1. SUFFICES ASSUME ch[Other(s)][n] = c PROVE FALSE
    OBVIOUS
  <2>2. Prec(R, Other(s), c, n)
    BY <1>2, <2>1, SideCases DEF Shape, Sorted
  <2> QED BY <1>1, <1>3, <2>2, PrecFacts
<1>6. c # root
  <2>1. SUFFICES ASSUME c = root PROVE FALSE
    OBVIOUS
  <2>2. n \in sub[root]
    BY DEF Shape, Spans
  <2>3. sub[n] \subseteq sub[c] /\ n \in sub[c]
    BY <1>1, <2>1, <2>2, Nested
  <2>4. Prec(R, s, n, n)
    BY <2>3 DEF Shape, Sorted
  <2> QED BY <1>1, <2>4, PrecFacts
<1> QED BY <1>1, <1>2, <1>4, <1>5, <1>6

(* Two nodes with the same child are one.                                    *)
LEMMA OneParent ==
  ASSUME NEW root, NEW ch, NEW p, NEW M, NEW R, NEW sub,
         Strict(R), Shape(root, ch, p, M, R, sub),
         NEW m \in M, NEW n \in M, NEW s \in Sides, NEW d \in Sides,
         ch[s][m] # Nil, ch[s][m] = ch[d][n]
  PROVE  m = n /\ s = d
<1>1. m = n
  BY DEF Shape, Links
<1>2. s = d
  BY <1>1, ChildFacts, SideCases
<1> QED BY <1>1, <1>2

(* A child of a node is not its parent.                                      *)
LEMMA NoCycle ==
  ASSUME NEW root, NEW ch, NEW p, NEW M, NEW R, NEW sub,
         Strict(R), Shape(root, ch, p, M, R, sub),
         NEW n \in M, NEW s \in Sides, ch[s][n] # Nil, NEW d \in Sides
  PROVE  ch[d][ch[s][n]] # n
<1> DEFINE y == ch[s][n]
<1>1. SUFFICES ASSUME ch[d][y] = n PROVE FALSE
  OBVIOUS
<1>2. y \in M /\ n \in Nodes /\ n # Nil
  BY NodesAssumption DEF Shape, Links
<1>3. n \in sub[n] /\ n \in sub[y]
  BY <1>1, <1>2 DEF Shape, Spans
<1>4. Prec(R, s, n, n)
  BY <1>3 DEF Shape, Sorted
<1> QED BY <1>2, <1>4, PrecFacts

-------------------------------------------------------------------------------
(* Rotations.                                                                *)

(* The links after the rotation to the side s of n with its other child y,   *)
(* whose child b changes sides.                                              *)
Turned(root, ch, p, M, s, n, y, b, root2, ch2, p2) ==
    /\ root2 = IF n = root THEN y ELSE root
    /\ \A m \in M : \A d \in Sides :
          ch2[d][m] = IF m = n /\ d = Other(s) THEN b
                      ELSE IF m = y /\ d = s THEN n
                      ELSE IF ch[d][m] = n THEN y ELSE ch[d][m]
    /\ \A m \in M : p2[m] = IF m = n THEN y ELSE IF m = y THEN p[n]
                             ELSE IF m = b THEN n ELSE p[m]

(* Where the nodes are that a rotation touches.                              *)
Around(root, ch, p, M, s, n, y, b, ch2) ==
    /\ y \in M /\ y # n /\ b \in M \union {Nil} /\ b # n /\ b # y
    /\ \A a \in {ch[s][n], ch[Other(s)][y]} : a \in M \union {Nil} /\ a # n /\ a # y
    /\ \A d \in Sides : ch[d][y] # n
    /\ ch2[s][n] = ch[s][n] /\ ch2[Other(s)][n] = b
    /\ ch2[s][y] = n /\ ch2[Other(s)][y] = ch[Other(s)][y]
    /\ \A m \in M \ {n, y} : \A d \in Sides :
          \/ ch[d][m] = n /\ ch2[d][m] = y /\ n # root /\ m = p[n]
          \/ ch2[d][m] = ch[d][m] /\ ch[d][m] # n /\ ch[d][m] # y

(* Who is where before and after a rotation.                                 *)
LEMMA TurnedFacts ==
  ASSUME NEW root, NEW ch, NEW p, NEW M, NEW R, NEW sub,
         Strict(R), Shape(root, ch, p, M, R, sub),
         NEW s \in Sides, NEW n \in M, NEW y, y = ch[Other(s)][n], y # Nil,
         NEW b, b = ch[s][y], NEW root2, NEW ch2, NEW p2,
         Turned(root, ch, p, M, s, n, y, b, root2, ch2, p2)
  PROVE  Around(root, ch, p, M, s, n, y, b, ch2)
<1> DEFINE o == Other(s)
<1>1. o \in Sides /\ o # s /\ Other(o) = s
  BY SideCases
<1>2. y \in M /\ y # n /\ p[y] = n /\ y \in sub[y] /\ ch[s][n] # y
  BY <1>1, ChildFacts
<1>3. y \in Nodes /\ n \in Nodes
  BY <1>2 DEF Shape, Links
<1>4. \A d \in Sides : ch[d][y] # n
  BY <1>1, NoCycle
<1>5. b \in M \union {Nil} /\ b # n /\ b # y
  <2>1. b \in M \union {Nil}
    BY <1>2 DEF Shape, Links
  <2>2. b # y
    BY <1>2, <1>3, ChildFacts, NodesAssumption
  <2> QED BY <1>4, <2>1, <2>2
<1>6. ASSUME NEW a \in {ch[s][n], ch[o][y]} PROVE a \in M \union {Nil} /\ a # n /\ a # y
  <2>1. a \in M \union {Nil}
    BY <1>1, <1>2 DEF Shape, Links
  <2>2. CASE a = Nil
    BY <1>3, <2>2, NodesAssumption
  <2>3. CASE a # Nil /\ a = ch[s][n]
    BY <1>2, <2>1, <2>3, ChildFacts
  <2>4. CASE a # Nil /\ a = ch[o][y]
    <3>1. a # y
      BY <1>1, <1>2, <2>4, ChildFacts
    <3> QED BY <1>1, <1>4, <2>1, <2>4, <3>1
  <2> QED BY <2>2, <2>3, <2>4
<1>7. ch2[s][n] = ch[s][n] /\ ch2[o][n] = b /\ ch2[s][y] = n /\ ch2[o][y] = ch[o][y]
  <2>1. ch[s][n] # n
    BY <1>6
  <2> QED BY <1>1, <1>2, <1>4, <2>1 DEF Turned
<1>8. ASSUME NEW m \in M \ {n, y}, NEW d \in Sides
      PROVE  \/ ch[d][m] = n /\ ch2[d][m] = y /\ n # root /\ m = p[n]
             \/ ch2[d][m] = ch[d][m] /\ ch[d][m] # n /\ ch[d][m] # y
  <2>1. ch2[d][m] = IF ch[d][m] = n THEN y ELSE ch[d][m]
    BY DEF Turned
  <2>2. ch[d][m] # y
    <3>1. SUFFICES ASSUME ch[d][m] = y PROVE FALSE
      OBVIOUS
    <3>2. m = n
      BY <1>1, <3>1, OneParent
    <3> QED BY <3>2
  <2>3. CASE ch[d][m] = n
    <3>1. n # Nil
      BY <1>3, NodesAssumption
    <3>2. n # root /\ p[n] = m
      BY <2>3, <3>1, ChildFacts
    <3> QED BY <2>1, <2>3, <3>2
  <2> QED BY <2>1, <2>2, <2>3
<1> QED BY <1>1, <1>2, <1>4, <1>5, <1>6, <1>7, <1>8 DEF Around

(* A rotation leaves a tree with the same nodes in the same order.           *)
LEMMA TurnedShape ==
  ASSUME NEW root, NEW ch, NEW p, NEW M, NEW R, NEW sub,
         Strict(R), Shape(root, ch, p, M, R, sub),
         NEW s \in Sides, NEW n \in M, NEW y, y = ch[Other(s)][n], y # Nil,
         NEW b, b = ch[s][y], NEW root2, NEW ch2, NEW p2,
         Turned(root, ch, p, M, s, n, y, b, root2, ch2, p2)
  PROVE  \E sub2 : Shape(root2, ch2, p2, M, R, sub2)
<1> DEFINE o == Other(s)
           a == ch[s][n]
           f == ch[o][y]
           low == {n} \union sub[a] \union sub[b]
           sub2 == [sub EXCEPT ![y] = sub[n], ![n] = low]
<1>1. o \in Sides /\ o # s /\ Other(o) = s /\ \A d \in Sides : d = s \/ d = o
  BY SideCases
<1> DEFINE around == Around(root, ch, p, M, s, n, y, b, ch2)
<1>a. around
  BY TurnedFacts
<1>2. /\ y \in M /\ y # n /\ b \in M \union {Nil} /\ b # n /\ b # y
      /\ a \in M \union {Nil} /\ a # n /\ a # y
      /\ f \in M \union {Nil} /\ f # n /\ f # y
      /\ \A d \in Sides : ch[d][y] # n
  BY <1>a DEF Around
<1>3. ch2[s][n] = a /\ ch2[o][n] = b /\ ch2[s][y] = n /\ ch2[o][y] = f
  BY <1>a DEF Around
<1>4. \A m \in M \ {n, y} : \A d \in Sides :
         \/ ch[d][m] = n /\ ch2[d][m] = y /\ n # root /\ m = p[n]
         \/ ch2[d][m] = ch[d][m] /\ ch[d][m] # n /\ ch[d][m] # y
  BY <1>a DEF Around
<1>5. M \subseteq Nodes /\ n \in Nodes /\ y \in Nodes /\ n # Nil /\ y # Nil
  BY <1>2, NodesAssumption DEF Shape, Links
<1>6. Links(root2, ch2, p2, M)
  <2>1. IsFiniteSet(M) /\ M \subseteq Nodes /\ root2 \in M \union {Nil}
    BY <1>2 DEF Shape, Links, Turned
  <2>2. \A m \in M : \A d \in Sides : ch2[d][m] \in M \union {Nil}
    BY <1>1, <1>2, <1>3, <1>4 DEF Shape, Links
  <2>3. ASSUME NEW m \in M, NEW d \in Sides, ch2[d][m] # Nil PROVE p2[ch2[d][m]] = m
    <3>1. ch2[d][m] \in M
      BY <2>2, <2>3
    <3>2. \A k \in M : p2[k] = IF k = n THEN y ELSE IF k = y THEN p[n]
                               ELSE IF k = b THEN n ELSE p[k]
      BY DEF Turned
    <3>3. CASE m = n /\ d = s
      <4>1. a # Nil /\ a \in M
        BY <1>3, <2>3, <3>1, <3>3
      <4>2. p[a] = n /\ a # b
        <5>1. p[a] = n
          BY <4>1 DEF Shape, Links
        <5>2. b # Nil => p[b] = y
          BY <1>2 DEF Shape, Links
        <5> QED BY <1>2, <4>1, <5>1, <5>2
      <4> QED BY <1>2, <1>3, <3>2, <3>3, <4>1, <4>2
    <3>4. CASE m = n /\ d = o
      BY <1>2, <1>3, <3>1, <3>2, <3>4
    <3>5. CASE m = y /\ d = s
      BY <1>2, <1>3, <3>1, <3>2, <3>5
    <3>6. CASE m = y /\ d = o
      <4>1. f # Nil /\ f \in M
        BY <1>3, <2>3, <3>1, <3>6
      <4>2. p[f] = y /\ f # b
        BY <1>1, <1>2, <4>1, ChildFacts
      <4> QED BY <1>2, <1>3, <3>2, <3>6, <4>1, <4>2
    <3>7. CASE m \notin {n, y} /\ ch[d][m] = n
      <4>1. ch2[d][m] = y /\ m = p[n]
        BY <1>4, <3>7, <1>2
      <4> QED BY <1>2, <3>2, <4>1
    <3>8. CASE m \notin {n, y} /\ ch[d][m] # n
      <4>1. ch2[d][m] = ch[d][m] /\ ch[d][m] # y
        BY <1>4, <3>8
      <4>2. p[ch[d][m]] = m
        BY <2>3, <4>1 DEF Shape, Links
      <4>3. ch[d][m] # b
        <5>1. b # Nil => p[b] = y
          BY <1>2 DEF Shape, Links
        <5> QED BY <2>3, <3>8, <4>1, <4>2, <5>1
      <4> QED BY <3>1, <3>2, <3>8, <4>1, <4>2, <4>3
    <3> QED BY <1>1, <3>3, <3>4, <3>5, <3>6, <3>7, <3>8
  <2>4. ASSUME NEW m \in M, m # root2
        PROVE  p2[m] \in M /\ \E d \in Sides : ch2[d][p2[m]] = m
    <3>1. p2[m] = IF m = n THEN y ELSE IF m = y THEN p[n] ELSE IF m = b THEN n ELSE p[m]
      BY DEF Turned
    <3>2. CASE m = n
      BY <1>2, <1>3, <3>1, <3>2
    <3>3. CASE m = y
      <4>1. n # root
        BY <2>4, <3>3 DEF Turned
      <4>2. p[n] \in M /\ \E d \in Sides : ch[d][p[n]] = n
        BY <4>1 DEF Shape, Links
      <4>3. PICK d \in Sides : ch[d][p[n]] = n
        BY <4>2
      <4>4. p[n] # n /\ p[n] # y
        BY <1>2, <1>5, <4>2, <4>3, ChildFacts
      <4>5. ch2[d][p[n]] = y
        BY <1>4, <4>2, <4>3, <4>4
      <4> QED BY <1>2, <3>1, <3>3, <4>2, <4>5
    <3>4. CASE m = b /\ m # n /\ m # y
      BY <1>1, <1>3, <3>1, <3>4
    <3>5. CASE m # b /\ m # n /\ m # y
      <4>1. m # root
        BY <1>5, <2>4, <3>5 DEF Turned, Shape, Spans
      <4>2. p[m] \in M /\ \E d \in Sides : ch[d][p[m]] = m
        BY <4>1 DEF Shape, Links
      <4>3. PICK d \in Sides : ch[d][p[m]] = m
        BY <4>2
      <4>4. \E e \in Sides : ch2[e][p[m]] = m
        <5>1. CASE p[m] = n
          BY <1>1, <1>3, <3>5, <4>3, <5>1
        <5>2. CASE p[m] = y
          BY <1>1, <1>3, <3>5, <4>3, <5>2
        <5>3. CASE p[m] # n /\ p[m] # y
          BY <1>4, <3>5, <4>2, <4>3, <5>3
        <5> QED BY <5>1, <5>2, <5>3
      <4> QED BY <3>1, <3>5, <4>2, <4>4
    <3> QED BY <3>2, <3>3, <3>4, <3>5
  <2> QED BY <2>1, <2>2, <2>3, <2>4 DEF Links
<1>7. sub \in [All -> SUBSET M] /\ sub[Nil] = {} /\ sub[root] = M
  BY DEF Shape, Spans
<1>8. low \in SUBSET M /\ sub[n] \in SUBSET M
  BY <1>2, <1>5, <1>7 DEF All
<1>9. /\ sub2 \in [All -> SUBSET M] /\ sub2[n] = low /\ sub2[y] = sub[n]
      /\ \A k \in M \union {Nil} : k # n /\ k # y => sub2[k] = sub[k]
  BY <1>2, <1>5, <1>7, <1>8 DEF All
<1> HIDE DEF sub2
<1>10. \A k \in M : k \in sub[n] <=> k = n \/ k \in sub[a] \/ k \in sub[y]
  BY <1>1 DEF Shape, Spans
<1>11. \A k \in M : k \in sub[y] <=> k = y \/ k \in sub[b] \/ k \in sub[f]
  BY <1>1, <1>2 DEF Shape, Spans
<1>12. Spans(root2, ch2, M, sub2)
  <2>1. sub2[Nil] = {}
    BY <1>5, <1>7, <1>9
  <2>2. sub2[root2] = M
    <3>1. CASE n = root
      BY <1>7, <1>9, <3>1 DEF Turned
    <3>2. CASE n # root
      <4>1. root # y
        BY <1>1, ChildFacts
      <4> QED BY <1>7, <1>9, <3>2, <4>1 DEF Turned, Shape, Links
    <3> QED BY <3>1, <3>2
  <2>3. ASSUME NEW m \in M, NEW k \in M
        PROVE  k \in sub2[m] <=> k = m \/ \E d \in Sides : k \in sub2[ch2[d][m]]
    <3>1. CASE m = n
      <4>1. sub2[a] = sub[a] /\ sub2[b] = sub[b]
        BY <1>2, <1>9
      <4> QED BY <1>1, <1>3, <1>9, <3>1, <4>1
    <3>2. CASE m = y
      <4>1. sub2[f] = sub[f]
        BY <1>2, <1>9
      <4>2. (\E d \in Sides : k \in sub2[ch2[d][y]]) <=> k \in sub2[n] \/ k \in sub2[f]
        BY <1>1, <1>3
      <4>3. k \in low <=> k = n \/ k \in sub[a] \/ k \in sub[b]
        OBVIOUS
      <4> HIDE DEF low
      <4> QED BY <1>9, <1>10, <1>11, <3>2, <4>1, <4>2, <4>3
    <3>3. CASE m # n /\ m # y
      <4>1. sub2[m] = sub[m]
        BY <1>9, <3>3
      <4>2. \A d \in Sides : sub2[ch2[d][m]] = sub[ch[d][m]]
        <5>1. \A d \in Sides : ch[d][m] \in M \union {Nil}
          BY DEF Shape, Links
        <5> QED BY <1>4, <1>9, <3>3, <5>1
      <4> QED BY <4>1, <4>2 DEF Shape, Spans
    <3> QED BY <3>1, <3>2, <3>3
  <2> QED BY <1>9, <2>1, <2>2, <2>3 DEF Spans
<1>13. Sorted(ch2, M, R, sub2)
  <2> SUFFICES ASSUME NEW m \in M, NEW d \in Sides, NEW k \in sub2[ch2[d][m]]
               PROVE  Prec(R, d, k, m)
    BY DEF Sorted
  <2>1. k \in M /\ k \in Nodes /\ m \in Nodes
    <3>1. ch2[d][m] \in All
      BY <1>5, <1>6 DEF Links, All
    <3> QED BY <1>5, <1>9, <3>1
  <2>2. Prec(R, s, n, y)
    <3>1. y \in sub[y]
      BY <1>2, <1>11
    <3>2. Prec(R, o, y, n)
      BY <1>1, <3>1 DEF Shape, Sorted
    <3> QED BY <1>1, <1>5, <3>2, PrecFacts
  <2>3. CASE m = n /\ d = s
    BY <1>2, <1>3, <1>9, <2>3 DEF Shape, Sorted
  <2>4. CASE m = n /\ d = o
    <3>1. k \in sub[b]
      BY <1>2, <1>3, <1>9, <2>4
    <3>2. k \in sub[y]
      BY <1>11, <2>1, <3>1
    <3> QED BY <1>1, <2>4, <3>2 DEF Shape, Sorted
  <2>5. CASE m = y /\ d = s
    <3>1. k = n \/ k \in sub[a] \/ k \in sub[b]
      BY <1>3, <1>9, <2>5
    <3>2. CASE k = n
      BY <2>2, <2>5, <3>2
    <3>3. CASE k \in sub[a]
      <4>1. Prec(R, s, k, n)
        BY <3>3 DEF Shape, Sorted
      <4> QED BY <1>5, <2>1, <2>2, <2>5, <4>1, PrecFacts
    <3>4. CASE k \in sub[b]
      BY <1>2, <2>5, <3>4 DEF Shape, Sorted
    <3> QED BY <3>1, <3>2, <3>3, <3>4
  <2>6. CASE m = y /\ d = o
    <3>1. k \in sub[f]
      BY <1>2, <1>3, <1>9, <2>6
    <3> QED BY <1>1, <1>2, <2>6, <3>1 DEF Shape, Sorted
  <2>7. CASE m # n /\ m # y
    <3>1. sub2[ch2[d][m]] = sub[ch[d][m]]
      <4>1. ch[d][m] \in M \union {Nil}
        BY DEF Shape, Links
      <4> QED BY <1>4, <1>9, <2>7, <4>1
    <3> QED BY <3>1 DEF Shape, Sorted
  <2> QED BY <1>1, <2>3, <2>4, <2>5, <2>6, <2>7
<1> QED BY <1>6, <1>12, <1>13 DEF Shape

-------------------------------------------------------------------------------
(* A leaf comes, a node goes, a node takes the place of another.             *)

Agree(R, R2, M) == \A m, n \in M : <<m, n>> \in R <=> <<m, n>> \in R2

(* Orders that agree on M agree on either side.                              *)
LEMMA AgreePrec ==
  ASSUME NEW R, NEW R2, NEW M, Agree(R, R2, M), NEW s \in Sides, NEW m \in M, NEW n \in M
  PROVE  Prec(R, s, m, n) <=> Prec(R2, s, m, n)
BY DEF Agree, Prec

(* The links after the leaf n was hung on the side s of x.                   *)
Grown(ch, p, M, s, x, n, ch2, p2) ==
    /\ \A m \in M \union {n} : \A d \in Sides :
          ch2[d][m] = IF m = n THEN Nil ELSE IF m = x /\ d = s THEN n ELSE ch[d][m]
    /\ \A m \in M \union {n} : p2[m] = IF m = n THEN x ELSE p[m]

(* A new leaf makes a tree of one node more, if it is where the order wants  *)
(* it.                                                                       *)
LEMMA GrownShape ==
  ASSUME NEW root, NEW ch, NEW p, NEW M, NEW R, NEW sub, NEW R2,
         Shape(root, ch, p, M, R, sub), Agree(R, R2, M),
         NEW s \in Sides, NEW x \in M, ch[s][x] = Nil, NEW n \in Nodes \ M,
         Prec(R2, s, n, x),
         \A a \in M : \A d \in Sides : x \in sub[ch[d][a]] => Prec(R2, d, n, a),
         NEW ch2, NEW p2, Grown(ch, p, M, s, x, n, ch2, p2)
  PROVE  \E sub2 : Shape(root, ch2, p2, M \union {n}, R2, sub2)
<1> DEFINE sub2 == [k \in All |-> IF k = n THEN {n}
                                  ELSE IF x \in sub[k] THEN sub[k] \union {n} ELSE sub[k]]
           M2 == M \union {n}
<1>1. /\ IsFiniteSet(M) /\ M \subseteq Nodes /\ n \in Nodes /\ n \notin M /\ n # Nil
      /\ x # n /\ root \in M \union {Nil} /\ x # Nil
  BY NodesAssumption DEF Shape, Links
<1>2. sub \in [All -> SUBSET M] /\ sub[Nil] = {} /\ sub[root] = M /\ root # Nil
  BY DEF Shape, Spans
<1>3. \A m \in M : \A d \in Sides : ch[d][m] \in M \union {Nil}
  BY DEF Shape, Links
<1>4. /\ ch2[s][x] = n
      /\ \A d \in Sides : ch2[d][n] = Nil
      /\ \A m \in M : \A d \in Sides : ~ (m = x /\ d = s) => ch2[d][m] = ch[d][m]
  BY <1>1 DEF Grown
<1>5. p2[n] = x /\ \A m \in M : p2[m] = p[m]
  BY <1>1 DEF Grown
<1>6. Links(root, ch2, p2, M2)
  <2>1. IsFiniteSet(M2)
    BY <1>1, FS_AddElement
  <2>2. \A m \in M2 : \A d \in Sides : ch2[d][m] \in M2 \union {Nil}
    BY <1>3, <1>4
  <2>3. ASSUME NEW m \in M2, NEW d \in Sides, ch2[d][m] # Nil PROVE p2[ch2[d][m]] = m
    <3>1. CASE m = x /\ d = s
      BY <1>4, <1>5, <3>1
    <3>2. CASE m \in M /\ ~ (m = x /\ d = s)
      BY <1>3, <1>4, <1>5, <2>3, <3>2 DEF Shape, Links
    <3> QED BY <1>4, <2>3, <3>1, <3>2
  <2>4. ASSUME NEW m \in M2, m # root
        PROVE  p2[m] \in M2 /\ \E d \in Sides : ch2[d][p2[m]] = m
    <3>1. CASE m = n
      BY <1>4, <1>5, <3>1
    <3>2. CASE m \in M
      <4>1. p[m] \in M /\ \E d \in Sides : ch[d][p[m]] = m
        BY <2>4, <3>2 DEF Shape, Links
      <4>2. PICK d \in Sides : ch[d][p[m]] = m
        BY <4>1
      <4>3. ch2[d][p[m]] = m
        BY <1>1, <1>4, <3>2, <4>1, <4>2, NodesAssumption
      <4> QED BY <1>5, <3>2, <4>1, <4>3
    <3> QED BY <3>1, <3>2
  <2> QED BY <1>1, <2>1, <2>2, <2>3, <2>4 DEF Links
<1>7. /\ sub2 \in [All -> SUBSET M2] /\ sub2[n] = {n} /\ sub2[Nil] = {}
      /\ \A k \in M \union {Nil} : sub2[k] = IF x \in sub[k] THEN sub[k] \union {n} ELSE sub[k]
  BY <1>1, <1>2 DEF All
<1> HIDE DEF sub2
<1>8. Spans(root, ch2, M2, sub2)
  <2>1. sub2[root] = M2
    BY <1>1, <1>2, <1>7
  <2>2. ASSUME NEW m \in M2, NEW k \in M2
        PROVE  k \in sub2[m] <=> k = m \/ \E d \in Sides : k \in sub2[ch2[d][m]]
    <3>1. CASE m = n
      <4>1. sub2[m] = {n}
        BY <1>1, <1>7, <3>1
      <4>2. \A d \in Sides : sub2[ch2[d][m]] = {}
        BY <1>1, <1>4, <1>7, <3>1
      <4> QED BY <3>1, <4>1, <4>2
    <3>2. CASE m \in M /\ k \in M
      <4>1. k \in sub2[m] <=> k \in sub[m]
        BY <1>1, <1>7, <3>2
      <4>2. \A d \in Sides : k \in sub2[ch2[d][m]] <=> k \in sub[ch[d][m]]
        <5> SUFFICES ASSUME NEW d \in Sides PROVE k \in sub2[ch2[d][m]] <=> k \in sub[ch[d][m]]
          OBVIOUS
        <5>1. CASE m = x /\ d = s
          <6>1. ch2[d][m] = n /\ ch[d][m] = Nil
            BY <1>4, <5>1
          <6>2. k # n /\ sub2[n] = {n} /\ sub[Nil] = {}
            BY <1>1, <1>2, <1>7, <3>2
          <6> QED BY <6>1, <6>2
        <5>2. CASE ~ (m = x /\ d = s)
          <6>1. ch2[d][m] = ch[d][m] /\ ch[d][m] \in M \union {Nil}
            BY <1>3, <1>4, <3>2, <5>2
          <6>2. k # n
            BY <1>1, <3>2
          <6>3. sub2[ch[d][m]] = IF x \in sub[ch[d][m]] THEN sub[ch[d][m]] \union {n}
                                                         ELSE sub[ch[d][m]]
            BY <1>7, <6>1
          <6>4. k \in sub2[ch[d][m]] <=> k \in sub[ch[d][m]]
            BY <6>2, <6>3
          <6> QED BY <6>1, <6>4
        <5> QED BY <5>1, <5>2
      <4> QED BY <3>2, <4>1, <4>2 DEF Shape, Spans
    <3>3. CASE m \in M /\ k = n
      <4>1. n \in sub2[m] <=> x \in sub[m]
        BY <1>1, <1>2, <1>7, <3>3 DEF All
      <4>2. x \in sub[m] <=> x = m \/ \E d \in Sides : x \in sub[ch[d][m]]
        BY <3>3 DEF Shape, Spans
      <4>3. \A d \in Sides : ~ (m = x /\ d = s) =>
               (n \in sub2[ch2[d][m]] <=> x \in sub[ch[d][m]])
        <5> SUFFICES ASSUME NEW d \in Sides, ~ (m = x /\ d = s)
                     PROVE  n \in sub2[ch2[d][m]] <=> x \in sub[ch[d][m]]
          OBVIOUS
        <5>1. ch2[d][m] = ch[d][m] /\ ch[d][m] \in M \union {Nil}
          BY <1>3, <1>4, <3>3
        <5> QED BY <1>1, <1>2, <1>7, <5>1 DEF All
      <4>4. n \in sub2[ch2[s][x]]
        BY <1>4, <1>7
      <4>5. m # n
        BY <1>1, <3>3
      <4> QED BY <3>3, <4>1, <4>2, <4>3, <4>4, <4>5
    <3> QED BY <3>1, <3>2, <3>3
  <2> QED BY <1>7, <2>1, <2>2 DEF Spans
<1>9. Sorted(ch2, M2, R2, sub2)
  <2> SUFFICES ASSUME NEW m \in M2, NEW d \in Sides, NEW k \in sub2[ch2[d][m]]
               PROVE  Prec(R2, d, k, m)
    BY DEF Sorted
  <2>1. m \in M
    BY <1>4, <1>7
  <2> DEFINE c == ch[d][m]
  <2>0. ~ (m = x /\ d = s) => /\ sub[c] \subseteq M /\ n \notin sub[c]
                             /\ k \in IF x \in sub[c] THEN sub[c] \union {n} ELSE sub[c]
    <3> SUFFICES ASSUME ~ (m = x /\ d = s)
                 PROVE  /\ sub[c] \subseteq M /\ n \notin sub[c]
                        /\ k \in IF x \in sub[c] THEN sub[c] \union {n} ELSE sub[c]
      OBVIOUS
    <3>1. ch2[d][m] = c /\ c \in M \union {Nil}
      BY <1>3, <1>4, <2>1
    <3>2. sub2[c] = IF x \in sub[c] THEN sub[c] \union {n} ELSE sub[c]
      BY <1>7, <3>1
    <3>3. sub[c] \subseteq M
      BY <1>1, <1>2, <3>1 DEF All
    <3> QED BY <1>1, <3>1, <3>2, <3>3
  <2>2. CASE m = x /\ d = s
    BY <1>4, <1>7, <2>2
  <2>3. CASE ~ (m = x /\ d = s) /\ k = n
    <3>1. x \in sub[ch[d][m]]
      BY <2>0, <2>3
    <3> QED BY <2>1, <2>3, <3>1
  <2>4. CASE ~ (m = x /\ d = s) /\ k # n
    <3>1. ch2[d][m] = ch[d][m] /\ ch[d][m] \in M \union {Nil}
      BY <1>3, <1>4, <2>1, <2>4
    <3>2. k \in sub[ch[d][m]] /\ k \in M
      BY <2>0, <2>4
    <3>3. Prec(R, d, k, m)
      BY <2>1, <3>2 DEF Shape, Sorted
    <3> QED BY <2>1, <3>2, <3>3, AgreePrec
  <2> QED BY <2>2, <2>3, <2>4
<1> QED BY <1>6, <1>8, <1>9 DEF Shape

(* The links after m, which has no child but c, was taken out.               *)
Pruned(root, ch, p, M, m, c, root2, ch2, p2) ==
    /\ root2 = IF m = root THEN c ELSE root
    /\ \A a \in M \ {m} : \A d \in Sides :
          ch2[d][a] = IF ch[d][a] = m THEN c ELSE ch[d][a]
    /\ \A a \in M \ {m} : a # c => p2[a] = p[a]
    /\ m # root /\ c # Nil => p2[c] = p[m]

Less(sub, m) == [k \in All |-> sub[k] \ {m}]

(* A node with one child at most goes, and leaves a tree of the others.      *)
LEMMA PrunedShape ==
  ASSUME NEW root, NEW ch, NEW p, NEW M, NEW R, NEW sub, NEW R2,
         Strict(R), Shape(root, ch, p, M, R, sub), NEW m \in M, Agree(R, R2, M \ {m}),
         NEW s \in Sides, ch[Other(s)][m] = Nil, NEW c, c = ch[s][m],
         NEW root2, NEW ch2, NEW p2, Pruned(root, ch, p, M, m, c, root2, ch2, p2)
  PROVE  Shape(root2, ch2, p2, M \ {m}, R2, Less(sub, m))
<1> DEFINE sub2 == [k \in All |-> sub[k] \ {m}]
           M2 == M \ {m}
<1>1. /\ IsFiniteSet(M) /\ M \subseteq Nodes /\ m \in Nodes /\ m # Nil
      /\ root \in M \union {Nil} /\ c \in M \union {Nil}
  BY NodesAssumption DEF Shape, Links
<1>2. sub \in [All -> SUBSET M] /\ sub[Nil] = {} /\ sub[root] = M
  BY DEF Shape, Spans
<1>3. c # m /\ (c # Nil => p[c] = m /\ c # root)
  BY <1>1, ChildFacts
<1>4. \A a \in M : \A d \in Sides : ch[d][a] \in M \union {Nil}
  BY DEF Shape, Links
<1>5. \A a \in M2 : \A d \in Sides :
         ch2[d][a] = IF ch[d][a] = m THEN c ELSE ch[d][a]
  BY DEF Pruned
<1>6. \A d \in Sides : d = s \/ d = Other(s)
  BY SideCases
<1>7. \A d \in Sides : ch[d][m] \in {c, Nil}
  BY <1>6
<1>8. Links(root2, ch2, p2, M2)
  <2>1. IsFiniteSet(M2) /\ M2 \subseteq Nodes
    BY <1>1, FS_RemoveElement
  <2>2. root2 \in M2 \union {Nil}
    BY <1>1, <1>3 DEF Pruned
  <2>3. \A a \in M2 : \A d \in Sides : ch2[d][a] \in M2 \union {Nil}
    BY <1>1, <1>3, <1>4, <1>5
  <2>4. ASSUME NEW a \in M2, NEW d \in Sides, ch2[d][a] # Nil PROVE p2[ch2[d][a]] = a
    <3>1. CASE ch[d][a] = m
      <4>1. ch2[d][a] = c /\ c # Nil
        BY <1>5, <2>4, <3>1
      <4>2. m # root /\ p[m] = a
        BY <1>1, <3>1, ChildFacts
      <4> QED BY <4>1, <4>2 DEF Pruned
    <3>2. CASE ch[d][a] # m
      <4>1. ch2[d][a] = ch[d][a] /\ ch[d][a] \in M2 /\ p[ch[d][a]] = a
        BY <1>4, <1>5, <2>4, <3>2 DEF Shape, Links
      <4>2. ch[d][a] # c
        BY <1>3, <2>4, <4>1
      <4> QED BY <4>1, <4>2 DEF Pruned
    <3> QED BY <3>1, <3>2
  <2>5. ASSUME NEW a \in M2, a # root2
        PROVE  p2[a] \in M2 /\ \E d \in Sides : ch2[d][p2[a]] = a
    <3>1. CASE a = c
      <4>1. m # root
        BY <2>5, <3>1 DEF Pruned
      <4>2. p[m] \in M /\ \E d \in Sides : ch[d][p[m]] = m
        BY <4>1 DEF Shape, Links
      <4>3. PICK d \in Sides : ch[d][p[m]] = m
        BY <4>2
      <4>4. p[m] # m
        BY <1>1, <4>2, <4>3, ChildFacts
      <4>5. p2[c] = p[m] /\ ch2[d][p[m]] = c
        BY <1>1, <1>5, <3>1, <4>1, <4>2, <4>3, <4>4, NodesAssumption DEF Pruned
      <4> QED BY <3>1, <4>2, <4>4, <4>5
    <3>2. CASE a # c
      <4>1. p2[a] = p[a]
        BY <3>2 DEF Pruned
      <4>2. a # root
        <5>1. SUFFICES ASSUME a = root PROVE FALSE
          OBVIOUS
        <5>2. root2 = root
          BY <5>1 DEF Pruned
        <5> QED BY <2>5, <5>1, <5>2
      <4>3. p[a] \in M /\ \E d \in Sides : ch[d][p[a]] = a
        BY <4>2 DEF Shape, Links
      <4>4. PICK d \in Sides : ch[d][p[a]] = a
        BY <4>3
      <4>5. p[a] # m
        BY <1>1, <1>7, <3>2, <4>4, NodesAssumption
      <4>6. ch2[d][p[a]] = a
        BY <1>5, <4>3, <4>4, <4>5
      <4> QED BY <4>1, <4>3, <4>5, <4>6
    <3> QED BY <3>1, <3>2
  <2> QED BY <2>1, <2>2, <2>3, <2>4, <2>5 DEF Links
<1>9. /\ sub2 \in [All -> SUBSET M2] /\ sub2[Nil] = {}
      /\ \A k \in M \union {Nil} : sub2[k] = sub[k] \ {m}
  BY <1>1, <1>2 DEF All
<1> HIDE DEF sub2
<1>10. \A k \in M : k \in sub[m] <=> k = m \/ k \in sub[c]
  BY <1>2, <1>6 DEF Shape, Spans
<1>11. \A a \in M2 : \A d \in Sides : sub2[ch2[d][a]] = sub2[ch[d][a]]
  <2> SUFFICES ASSUME NEW a \in M2, NEW d \in Sides PROVE sub2[ch2[d][a]] = sub2[ch[d][a]]
    OBVIOUS
  <2>1. CASE ch[d][a] # m
    BY <1>5, <2>1
  <2>2. CASE ch[d][a] = m
    <3>1. ch2[d][a] = c
      BY <1>5, <2>2
    <3>2. sub2[c] = sub[c] \ {m} /\ sub2[m] = sub[m] \ {m}
      BY <1>1, <1>9
    <3>3. sub[c] \subseteq M /\ sub[m] \subseteq M
      BY <1>1, <1>2 DEF All
    <3> QED BY <1>10, <2>2, <3>1, <3>2, <3>3
  <2> QED BY <2>1, <2>2
<1>12. Spans(root2, ch2, M2, sub2)
  <2>1. sub2[root2] = M2
    <3>1. CASE m = root
      <4>1. sub[c] \ {m} = M2
        <5>1. sub[c] \subseteq M /\ sub[m] = M
          BY <1>1, <1>2, <3>1 DEF All
        <5> QED BY <1>10, <5>1
      <4> QED BY <1>1, <1>9, <3>1, <4>1 DEF Pruned
    <3>2. CASE m # root
      BY <1>1, <1>2, <1>9, <3>2 DEF Pruned
    <3> QED BY <3>1, <3>2
  <2>2. ASSUME NEW a \in M2, NEW k \in M2
        PROVE  k \in sub2[a] <=> k = a \/ \E d \in Sides : k \in sub2[ch2[d][a]]
    <3>1. k \in sub2[a] <=> k \in sub[a]
      BY <1>9
    <3>2. \A d \in Sides : k \in sub2[ch2[d][a]] <=> k \in sub[ch[d][a]]
      BY <1>4, <1>9, <1>11
    <3> QED BY <3>1, <3>2 DEF Shape, Spans
  <2> QED BY <1>9, <2>1, <2>2 DEF Spans
<1>13. Sorted(ch2, M2, R2, sub2)
  <2> SUFFICES ASSUME NEW a \in M2, NEW d \in Sides, NEW k \in sub2[ch2[d][a]]
               PROVE  Prec(R2, d, k, a)
    BY DEF Sorted
  <2>1. k \in sub[ch[d][a]] \ {m}
    BY <1>4, <1>9, <1>11
  <2>2. k \in M2
    BY <1>1, <1>2, <1>4, <2>1 DEF All
  <2>3. Prec(R, d, k, a)
    BY <2>1 DEF Shape, Sorted
  <2> QED BY <2>2, <2>3, AgreePrec
<1>14. Shape(root2, ch2, p2, M2, R2, sub2)
  BY <1>8, <1>12, <1>13 DEF Shape
<1> QED BY <1>14 DEF sub2, Less

(* The links after m, that was not in the tree, has taken the place of n.    *)
Replaced(root, ch, p, M, n, m, root2, ch2, p2) ==
    /\ root2 = IF n = root THEN m ELSE root
    /\ \A d \in Sides : ch2[d][m] = ch[d][n]
    /\ \A a \in M \ {n} : \A d \in Sides :
          ch2[d][a] = IF ch[d][a] = n THEN m ELSE ch[d][a]
    /\ n # root => p2[m] = p[n]
    /\ \A a \in M \ {n} : a # root => p2[a] = IF p[a] = n THEN m ELSE p[a]

(* A node that fits in the order where n is may take its place.              *)
LEMMA ReplacedShape ==
  ASSUME NEW root, NEW ch, NEW p, NEW M, NEW R, NEW sub,
         Strict(R), Shape(root, ch, p, M, R, sub), NEW n \in M, NEW m \in Nodes \ M,
         \A d \in Sides : \A k \in sub[ch[d][n]] : Prec(R, d, k, m),
         \A a \in M : \A d \in Sides : n \in sub[ch[d][a]] => Prec(R, d, m, a),
         NEW root2, NEW ch2, NEW p2, Replaced(root, ch, p, M, n, m, root2, ch2, p2)
  PROVE  \E sub2 : Shape(root2, ch2, p2, (M \ {n}) \union {m}, R, sub2)
<1> DEFINE M2 == (M \ {n}) \union {m}
           swap(S) == IF n \in S THEN (S \ {n}) \union {m} ELSE S
           sub2 == [k \in All |-> IF k = m THEN swap(sub[n])
                                  ELSE IF k \in M \ {n} THEN swap(sub[k]) ELSE {}]
<1>1. /\ IsFiniteSet(M) /\ M \subseteq Nodes /\ n \in Nodes /\ m \in Nodes /\ m \notin M
      /\ n # m /\ n # Nil /\ m # Nil /\ Nil \notin M
      /\ root \in M \union {Nil}
  BY NodesAssumption DEF Shape, Links
<1>2. sub \in [All -> SUBSET M] /\ sub[Nil] = {} /\ sub[root] = M
  BY DEF Shape, Spans
<1>3. \A a \in M : \A d \in Sides : ch[d][a] \in M \union {Nil}
  BY DEF Shape, Links
<1>4. \A d \in Sides : ch[d][n] # n
  BY <1>1, ChildFacts
<1>5. /\ \A d \in Sides : ch2[d][m] = ch[d][n]
      /\ \A a \in M \ {n} : \A d \in Sides :
            ch2[d][a] = IF ch[d][a] = n THEN m ELSE ch[d][a]
  BY DEF Replaced
<1>6. Links(root2, ch2, p2, M2)
  <2>1. IsFiniteSet(M2) /\ M2 \subseteq Nodes
    BY <1>1, FS_AddElement, FS_RemoveElement
  <2>2. root2 \in M2 \union {Nil}
    BY <1>1 DEF Replaced
  <2>3. ASSUME NEW a \in M2, NEW d \in Sides PROVE ch2[d][a] \in M2 \union {Nil}
    BY <1>1, <1>3, <1>4, <1>5
  <2>4. ASSUME NEW a \in M2, NEW d \in Sides, ch2[d][a] # Nil PROVE p2[ch2[d][a]] = a
    <3>1. CASE a = m
      <4> DEFINE e == ch[d][n]
      <4>1. e # Nil /\ e \in M \ {n} /\ ch2[d][a] = e
        BY <1>3, <1>4, <1>5, <2>4, <3>1
      <4>2. p[e] = n /\ e # root
        BY <4>1, ChildFacts
      <4> QED BY <3>1, <4>1, <4>2 DEF Replaced
    <3>2. CASE a \in M \ {n} /\ ch[d][a] = n
      <4>1. p[n] = a /\ n # root
        BY <1>1, <3>2, ChildFacts
      <4>2. ch2[d][a] = m
        BY <1>5, <3>2
      <4> QED BY <4>1, <4>2 DEF Replaced
    <3>3. CASE a \in M \ {n} /\ ch[d][a] # n
      <4> DEFINE e == ch[d][a]
      <4>1. ch2[d][a] = e /\ e # Nil /\ e \in M \ {n}
        BY <1>3, <1>5, <2>4, <3>3
      <4>2. p[e] = a /\ e # root
        BY <3>3, <4>1, ChildFacts
      <4>3. p2[e] = a
        BY <3>3, <4>1, <4>2 DEF Replaced
      <4> QED BY <4>1, <4>3
    <3> QED BY <3>1, <3>2, <3>3
  <2>5. ASSUME NEW a \in M2, a # root2
        PROVE  p2[a] \in M2 /\ \E d \in Sides : ch2[d][p2[a]] = a
    <3>1. CASE a = m
      <4>1. n # root
        BY <2>5, <3>1 DEF Replaced
      <4>2. p[n] \in M /\ \E d \in Sides : ch[d][p[n]] = n
        BY <4>1 DEF Shape, Links
      <4>3. PICK d \in Sides : ch[d][p[n]] = n
        BY <4>2
      <4>4. p[n] # n
        BY <1>1, <1>4, <4>3
      <4>5. p2[m] = p[n] /\ ch2[d][p[n]] = m
        BY <1>5, <4>1, <4>2, <4>3, <4>4 DEF Replaced
      <4> QED BY <3>1, <4>2, <4>4, <4>5
    <3>2. CASE a \in M \ {n}
      <4>1. a # root
        <5>1. SUFFICES ASSUME a = root PROVE FALSE
          OBVIOUS
        <5>2. root2 = root
          BY <3>2, <5>1 DEF Replaced
        <5> QED BY <2>5, <5>1, <5>2
      <4>2. p[a] \in M /\ \E d \in Sides : ch[d][p[a]] = a
        BY <3>2, <4>1 DEF Shape, Links
      <4>3. PICK d \in Sides : ch[d][p[a]] = a
        BY <4>2
      <4>4. p2[a] = IF p[a] = n THEN m ELSE p[a]
        BY <3>2, <4>1 DEF Replaced
      <4>5. CASE p[a] = n
        BY <1>5, <4>3, <4>4, <4>5
      <4>6. CASE p[a] # n
        <5>1. ch2[d][p[a]] = a
          BY <1>5, <3>2, <4>2, <4>3, <4>6
        <5> QED BY <4>2, <4>4, <4>6, <5>1
      <4> QED BY <4>5, <4>6
    <3> QED BY <3>1, <3>2
  <2> QED BY <2>1, <2>2, <2>3, <2>4, <2>5 DEF Links
<1>7. \A S \in SUBSET M : /\ swap(S) \in SUBSET M2 /\ n \notin swap(S)
                          /\ m \in swap(S) <=> n \in S
                          /\ \A k \in M \ {n} : k \in swap(S) <=> k \in S
  BY <1>1
<1> HIDE DEF swap
<1>8. /\ sub2 \in [All -> SUBSET M2] /\ sub2[m] = swap(sub[n]) /\ sub2[Nil] = {}
      /\ \A k \in M \ {n} : sub2[k] = swap(sub[k])
  BY <1>1, <1>2, <1>7 DEF All
<1> HIDE DEF sub2
(* Below a child are the nodes that were below it, but for the swap.         *)
<1>9. /\ \A d \in Sides : sub2[ch2[d][m]] = swap(sub[ch[d][n]])
      /\ \A a \in M \ {n} : \A d \in Sides : sub2[ch2[d][a]] = swap(sub[ch[d][a]])
  <2>1. swap({}) = {}
    BY DEF swap
  <2>2. \A d \in Sides : ch[d][n] \in (M \ {n}) \union {Nil}
    BY <1>3, <1>4
  <2>3. \A d \in Sides : sub2[ch2[d][m]] = swap(sub[ch[d][n]])
    BY <1>2, <1>5, <1>8, <2>1, <2>2
  <2>4. ASSUME NEW a \in M \ {n}, NEW d \in Sides
        PROVE  sub2[ch2[d][a]] = swap(sub[ch[d][a]])
    <3>1. CASE ch[d][a] = n
      BY <1>5, <1>8, <3>1
    <3>2. CASE ch[d][a] = Nil
      <4>1. ch2[d][a] = Nil
        BY <1>1, <1>5, <3>2
      <4> QED BY <1>2, <1>8, <2>1, <3>2, <4>1
    <3>3. CASE ch[d][a] \in M \ {n}
      <4>1. ch2[d][a] = ch[d][a]
        BY <1>5, <3>3
      <4> QED BY <1>8, <3>3, <4>1
    <3> QED BY <1>3, <3>1, <3>2, <3>3
  <2> QED BY <2>3, <2>4
<1>10. \A a \in M : \A d \in Sides : sub[ch[d][a]] \in SUBSET M /\ sub[a] \in SUBSET M
  BY <1>1, <1>2, <1>3 DEF All
<1>11. Spans(root2, ch2, M2, sub2)
  <2>1. sub2[root2] = M2
    <3>1. n \in M /\ M \in SUBSET M
      OBVIOUS
    <3>2. swap(M) = M2
      BY <1>1 DEF swap
    <3>3. CASE n = root
      BY <1>2, <1>8, <3>2, <3>3 DEF Replaced
    <3>4. CASE n # root
      <4>1. root \in M \ {n}
        BY <1>1, <1>2, <3>4
      <4> QED BY <1>2, <1>8, <3>2, <3>4, <4>1 DEF Replaced
    <3> QED BY <3>3, <3>4
  <2>2. ASSUME NEW a \in M2, NEW k \in M2
        PROVE  k \in sub2[a] <=> k = a \/ \E d \in Sides : k \in sub2[ch2[d][a]]
    <3> DEFINE was(e) == IF e = m THEN n ELSE e
    <3>1. was(a) \in M /\ was(k) \in M /\ (was(k) = was(a) <=> k = a)
      BY <1>1
    <3>2. sub2[a] = swap(sub[was(a)])
      BY <1>8
    <3>3. \A d \in Sides : sub2[ch2[d][a]] = swap(sub[ch[d][was(a)]])
      BY <1>9
    <3>4. \A S \in SUBSET M : k \in swap(S) <=> was(k) \in S
      BY <1>7
    <3> HIDE DEF was
    <3>5. was(k) \in sub[was(a)] <=>
             was(k) = was(a) \/ \E d \in Sides : was(k) \in sub[ch[d][was(a)]]
      BY <3>1 DEF Shape, Spans
    <3>6. k \in sub2[a] <=> was(k) \in sub[was(a)]
      <4>1. sub[was(a)] \in SUBSET M
        BY <1>1, <1>2, <3>1 DEF All
      <4> QED BY <3>2, <3>4, <4>1
    <3>7. \A d \in Sides : k \in sub2[ch2[d][a]] <=> was(k) \in sub[ch[d][was(a)]]
      BY <1>10, <3>1, <3>3, <3>4
    <3> QED BY <3>1, <3>5, <3>6, <3>7
  <2> QED BY <1>8, <2>1, <2>2 DEF Spans
<1>12. Sorted(ch2, M2, R, sub2)
  <2> SUFFICES ASSUME NEW a \in M2, NEW d \in Sides, NEW k \in sub2[ch2[d][a]]
               PROVE  Prec(R, d, k, a)
    BY DEF Sorted
  <2>1. CASE a = m
    <3>1. k \in swap(sub[ch[d][n]])
      BY <1>9, <2>1
    <3>2. n \notin sub[ch[d][n]]
      <4>1. SUFFICES ASSUME n \in sub[ch[d][n]] PROVE FALSE
        OBVIOUS
      <4>2. Prec(R, d, n, n)
        BY <4>1 DEF Shape, Sorted
      <4> QED BY <1>1, <4>2, PrecFacts
    <3>3. k \in sub[ch[d][n]]
      BY <3>1, <3>2 DEF swap
    <3> QED BY <2>1, <3>3
  <2>2. CASE a \in M \ {n}
    <3>1. k \in swap(sub[ch[d][a]])
      BY <1>9, <2>2
    <3>2. CASE k = m
      <4>1. n \in sub[ch[d][a]]
        BY <1>7, <1>10, <2>2, <3>1, <3>2
      <4> QED BY <2>2, <3>2, <4>1
    <3>3. CASE k # m
      <4>1. k \in sub[ch[d][a]]
        BY <3>1, <3>3 DEF swap
      <4> QED BY <2>2, <4>1 DEF Shape, Sorted
    <3> QED BY <3>2, <3>3
  <2> QED BY <2>1, <2>2
<1> QED BY <1>6, <1>11, <1>12 DEF Shape

-------------------------------------------------------------------------------
(* The fields after each of the model's operators on trees.                  *)

Trees == [root : All, ch : [Sides -> [All -> All \union {Null}]],
          p : [All -> All \union {Null}], red : [All -> BOOLEAN], key : [All -> Nat]]

(* n hangs on the side d of a, and nowhere else.                             *)
Hangs(ch, M, n, d, a) ==
    /\ d \in Sides /\ a \in M /\ ch[d][a] = n
    /\ \A k \in M : \A s \in Sides : ch[s][k] = n <=> k = a /\ s = d

(* A node that is not the root hangs where SideOf says, below its parent.    *)
LEMMA SideOfFacts ==
  ASSUME NEW u, NEW M, NEW R, NEW sub,
         Strict(R), Shape(u.root, u.ch, u.p, M, R, sub), NEW n \in M, n # u.root
  PROVE  Hangs(u.ch, M, n, SideOf(u, n), u.p[n])
<1> DEFINE d == SideOf(u, n)
<1>1. u.p[n] \in M /\ n # Nil /\ \E s \in Sides : u.ch[s][u.p[n]] = n
  BY NodesAssumption DEF Shape, Links
<1>2. d \in Sides /\ u.ch[d][u.p[n]] = n
  BY <1>1 DEF SideOf, Sides
<1>3. ASSUME NEW a \in M, NEW s \in Sides, u.ch[s][a] = n PROVE a = u.p[n] /\ s = d
  <2>1. u.ch[s][a] # Nil /\ u.ch[s][a] = u.ch[d][u.p[n]]
    BY <1>1, <1>2, <1>3
  <2> HIDE DEF d
  <2> QED BY <1>1, <1>2, <2>1, OneParent
<1> HIDE DEF d
<1>4. Hangs(u.ch, M, n, d, u.p[n])
  BY <1>1, <1>2, <1>3 DEF Hangs
<1> QED BY <1>4 DEF d

(* The fields of v, which is u with m hung where n hung.                     *)
Hung(u, M, n, m, v) ==
    /\ v \in Trees /\ v.p = u.p /\ v.red = u.red /\ v.key = u.key
    /\ v.root = IF n = u.root THEN m ELSE u.root
    /\ \A a \in M : \A d \in Sides : v.ch[d][a] = IF u.ch[d][a] = n THEN m ELSE u.ch[d][a]
    /\ \A a \in All \ M : \A d \in Sides : v.ch[d][a] = u.ch[d][a]

(* What Hang does, by where n hangs.                                         *)
LEMMA HangBy ==
  ASSUME NEW u \in Trees, NEW M \in SUBSET All, NEW n \in M, NEW m \in All,
         n = u.root => \A a \in M : \A d \in Sides : u.ch[d][a] # n,
         n # u.root => Hangs(u.ch, M, n, SideOf(u, n), u.p[n])
  PROVE  Hung(u, M, n, m, Hang(u, n, m))
<1>1. CASE n = u.root
  <2>1. Hang(u, n, m) = [u EXCEPT !.root = m]
    BY <1>1 DEF Hang
  <2> QED BY <1>1, <2>1 DEF Hung, Trees
<1>2. CASE n # u.root
  <2> DEFINE d == SideOf(u, n)
             a == u.p[n]
  <2>0. Hangs(u.ch, M, n, d, a)
    BY <1>2
  <2>1. /\ d \in Sides /\ a \in M /\ u.ch[d][a] = n
        /\ \A k \in M : \A s \in Sides : u.ch[s][k] = n <=> k = a /\ s = d
    BY <2>0 DEF Hangs
  <2>2. Hang(u, n, m) = [u EXCEPT !.ch[d][a] = m]
    BY <1>2 DEF Hang
  <2> HIDE DEF d, a
  <2> DEFINE v == [u EXCEPT !.ch[d][a] = m]
  <2>3. v \in Trees /\ v.p = u.p /\ v.red = u.red /\ v.key = u.key /\ v.root = u.root
    BY <2>1 DEF Trees
  <2>4. \A k \in All : \A s \in Sides : v.ch[s][k] = IF k = a /\ s = d THEN m ELSE u.ch[s][k]
    BY <2>1 DEF Trees
  <2> QED BY <1>2, <2>1, <2>2, <2>3, <2>4 DEF Hung
<1> QED BY <1>1, <1>2

(* What Hang does in a tree.                                                 *)
LEMMA HangFields ==
  ASSUME NEW u \in Trees, NEW M, NEW R, NEW sub,
         Strict(R), Shape(u.root, u.ch, u.p, M, R, sub), NEW n \in M, NEW m \in All
  PROVE  Hung(u, M, n, m, Hang(u, n, m))
<1>1. M \in SUBSET All /\ n # Nil
  BY NodesAssumption DEF Shape, Links, All
<1>2. n = u.root => \A a \in M : \A d \in Sides : u.ch[d][a] # n
  BY <1>1, ChildFacts
<1> QED BY <1>1, <1>2, SideOfFacts, HangBy

(* The fields of v, which is u after a rotation to the side s of n.          *)
Rotated(u, M, s, n, v) ==
    /\ v \in Trees /\ v.red = u.red /\ v.key = u.key /\ v.p[Nil] = u.p[Nil]
    /\ Turned(u.root, u.ch, u.p, M, s, n, u.ch[Other(s)][n],
              u.ch[s][u.ch[Other(s)][n]], v.root, v.ch, v.p)

(* What Rotate does in a tree.                                               *)
LEMMA RotateFields ==
  ASSUME NEW u \in Trees, NEW M, NEW R, NEW sub,
         Strict(R), Shape(u.root, u.ch, u.p, M, R, sub), NEW s \in Sides, NEW n \in M,
         u.ch[Other(s)][n] # Nil
  PROVE  Rotated(u, M, s, n, Rotate(u, s, n))
<1> DEFINE o == Other(s)
           y == u.ch[o][n]
           b == u.ch[s][y]
           h == Hang(u, n, y)
           back(q) == [m \in All |-> CASE m = n -> y
                                     [] m = y -> u.p[n]
                                     [] m = b /\ b # Nil -> n
                                     [] OTHER -> q[m]]
           v == [h EXCEPT !.ch[o][n] = b, !.ch[s][y] = n, !.p = back(@)]
<1>1. o \in Sides /\ o # s /\ s \in Sides
  BY SideCases
<1>2. M \subseteq All /\ n \in M /\ n # Nil
  BY NodesAssumption DEF Shape, Links, All
<1>3. y \in M /\ y # n /\ b \in M \union {Nil} /\ b # n /\ b # y
  <2>1. y \in M /\ y # n /\ b # n
    BY <1>1, ChildFacts, NoCycle
  <2>2. b \in M \union {Nil}
    BY <2>1 DEF Shape, Links
  <2>3. y # Nil
    BY <2>1, NodesAssumption DEF Shape, Links
  <2>4. b # y
    BY <2>1, <2>3, ChildFacts
  <2> QED BY <2>1, <2>2, <2>4
<1>4. Hung(u, M, n, y, h)
  BY <1>2, <1>3, HangFields
<1>5. Rotate(u, s, n) = v
  BY DEF Rotate
<1> HIDE DEF o, y, b, h
<1>6. /\ h \in Trees /\ h.p = u.p /\ h.red = u.red /\ h.key = u.key
      /\ h.root = IF n = u.root THEN y ELSE u.root
      /\ \A a \in M : \A d \in Sides : h.ch[d][a] = IF u.ch[d][a] = n THEN y ELSE u.ch[d][a]
  BY <1>4 DEF Hung
<1>7. back(h.p) \in [All -> All \union {Null}]
  <2>1. h.p \in [All -> All \union {Null}] /\ u.p \in [All -> All \union {Null}]
    BY <1>6 DEF Trees
  <2> QED BY <1>2, <1>3, <2>1
<1>8. \A a \in M : back(h.p)[a] = IF a = n THEN y ELSE IF a = y THEN u.p[n]
                                  ELSE IF a = b THEN n ELSE u.p[a]
  <2> SUFFICES ASSUME NEW a \in M
               PROVE  back(h.p)[a] = IF a = n THEN y ELSE IF a = y THEN u.p[n]
                                     ELSE IF a = b THEN n ELSE u.p[a]
    OBVIOUS
  <2>1. a \in All /\ a # Nil
    BY <1>2, NodesAssumption DEF Shape, Links
  <2> QED BY <1>3, <1>6, <2>1
<1> DEFINE q == back(h.p)
<1>9. v = [h EXCEPT !.ch[o][n] = b, !.ch[s][y] = n, !.p = q]
  OBVIOUS
<1> HIDE DEF q, v, back
<1>10. /\ v \in Trees /\ v.red = h.red /\ v.key = h.key /\ v.root = h.root /\ v.p = q
       /\ \A a \in M : \A d \in Sides :
             v.ch[d][a] = IF a = y /\ d = s THEN n
                          ELSE IF a = n /\ d = o THEN b ELSE h.ch[d][a]
  <2>1. h.ch \in [Sides -> [All -> All \union {Null}]]
    BY <1>6 DEF Trees
  <2>2. n \in All /\ y \in All /\ b \in All \union {Null}
    BY <1>2, <1>3 DEF All
  <2>3. v \in Trees /\ v.red = h.red /\ v.key = h.key /\ v.root = h.root /\ v.p = q
    BY <1>1, <1>6, <1>7, <1>9, <2>2 DEF Trees, q
  <2>4. v.ch = [h.ch EXCEPT ![o][n] = b, ![s][y] = n]
    BY <1>6, <1>9 DEF Trees
  <2>5. \A a \in All : \A d \in Sides :
             v.ch[d][a] = IF a = y /\ d = s THEN n
                          ELSE IF a = n /\ d = o THEN b ELSE h.ch[d][a]
    BY <1>1, <2>1, <2>2, <2>4
  <2> QED BY <1>2, <2>3, <2>5
<1>11. Turned(u.root, u.ch, u.p, M, s, n, y, b, v.root, v.ch, v.p)
  BY <1>1, <1>3, <1>6, <1>8, <1>10 DEF Turned, o, q
<1>12. v.p[Nil] = u.p[Nil]
  <2>1. Nil \in All /\ Nil # n /\ Nil # y
    BY <1>2, <1>3, NodesAssumption DEF Shape, Links, All
  <2> QED BY <1>6, <1>10, <2>1 DEF q, back
<1> QED BY <1>5, <1>6, <1>10, <1>11, <1>12 DEF Rotated, y, b, o

-------------------------------------------------------------------------------
(* The sorted list as an order of its nodes.                                 *)

SortedList(q) ==
    /\ q \in Seq(Nodes)
    /\ \A i, j \in 1..Len(q) : i < j => q[i] # q[j] /\ KeyOf[q[i]] <= KeyOf[q[j]]

Elems(q) == {q[i] : i \in 1..Len(q)}

Ranks(q) == {mn \in Nodes \X Nodes :
                \E i, j \in 1..Len(q) : i < j /\ mn = <<q[i], q[j]>>}

(* The order of the nodes is that of their places in the list.               *)
LEMMA RankPair ==
  ASSUME NEW q, SortedList(q), NEW i \in 1..Len(q), NEW j \in 1..Len(q)
  PROVE  <<q[i], q[j]>> \in Ranks(q) <=> i < j
<1>1. q[i] \in Nodes /\ q[j] \in Nodes
  BY DEF SortedList
<1>2. ASSUME i < j PROVE <<q[i], q[j]>> \in Ranks(q)
  BY <1>1, <1>2 DEF Ranks
<1>3. ASSUME <<q[i], q[j]>> \in Ranks(q) PROVE i < j
  <2>1. PICK a \in 1..Len(q), b \in 1..Len(q) : a < b /\ <<q[i], q[j]>> = <<q[a], q[b]>>
    BY <1>3 DEF Ranks
  <2>2. q[i] = q[a] /\ q[j] = q[b]
    BY <2>1
  <2>3. Len(q) \in Nat
    BY DEF SortedList
  <2>4. i = a
    BY <2>2, <2>3 DEF SortedList
  <2>5. j = b
    BY <2>2, <2>3 DEF SortedList
  <2> QED BY <2>1, <2>4, <2>5
<1> QED BY <1>2, <1>3

(* It is strict, it compares any two nodes of the list, and keys never       *)
(* decrease along it.                                                        *)
LEMMA RankFacts ==
  ASSUME NEW q, SortedList(q)
  PROVE  /\ Strict(Ranks(q)) /\ Elems(q) \subseteq Nodes
         /\ \A m, n \in Elems(q) : m # n => <<m, n>> \in Ranks(q) \/ <<n, m>> \in Ranks(q)
         /\ \A m, n : <<m, n>> \in Ranks(q) =>
               m \in Elems(q) /\ n \in Elems(q) /\ KeyOf[m] <= KeyOf[n]
<1>1. Len(q) \in Nat /\ \A i \in 1..Len(q) : q[i] \in Nodes
  BY DEF SortedList
<1>2. \A m, n : <<m, n>> \in Ranks(q) =>
         \E i, j \in 1..Len(q) : i < j /\ m = q[i] /\ n = q[j]
  <2> SUFFICES ASSUME NEW m, NEW n, <<m, n>> \in Ranks(q)
               PROVE  \E i, j \in 1..Len(q) : i < j /\ m = q[i] /\ n = q[j]
    OBVIOUS
  <2>1. PICK i \in 1..Len(q), j \in 1..Len(q) : i < j /\ <<m, n>> = <<q[i], q[j]>>
    BY DEF Ranks
  <2> QED BY <2>1
<1>3. ASSUME NEW n \in Nodes PROVE <<n, n>> \notin Ranks(q)
  BY <1>1, <1>2 DEF SortedList
<1>4. ASSUME NEW k \in Nodes, NEW m \in Nodes, NEW n \in Nodes,
             <<k, m>> \in Ranks(q), <<m, n>> \in Ranks(q)
      PROVE  <<k, n>> \in Ranks(q)
  <2>1. PICK a \in 1..Len(q), b \in 1..Len(q) : a < b /\ k = q[a] /\ m = q[b]
    BY <1>2, <1>4
  <2>2. PICK c \in 1..Len(q), d \in 1..Len(q) : c < d /\ m = q[c] /\ n = q[d]
    BY <1>2, <1>4
  <2>3. b = c
    <3>1. ~ (b < c) /\ ~ (c < b)
      BY <2>1, <2>2 DEF SortedList
    <3> QED BY <1>1, <3>1
  <2>4. a < d
    BY <1>1, <2>1, <2>2, <2>3
  <2> QED BY <2>1, <2>2, <2>4, RankPair
<1>5. ASSUME NEW m \in Elems(q), NEW n \in Elems(q), m # n
      PROVE  <<m, n>> \in Ranks(q) \/ <<n, m>> \in Ranks(q)
  <2>1. PICK i \in 1..Len(q), j \in 1..Len(q) : m = q[i] /\ n = q[j]
    BY DEF Elems
  <2>2. i < j \/ j < i
    BY <1>1, <1>5, <2>1
  <2> QED BY <2>1, <2>2, RankPair
<1>6. \A m, n : <<m, n>> \in Ranks(q) =>
         m \in Elems(q) /\ n \in Elems(q) /\ KeyOf[m] <= KeyOf[n]
  BY <1>2 DEF Elems, SortedList
<1> QED BY <1>1, <1>3, <1>4, <1>5, <1>6 DEF Strict, Elems

(* The members keep their order when another comes or goes.                  *)
LEMMA ShiftedRanks ==
  ASSUME NEW q, SortedList(q), NEW w, SortedList(w), NEW M,
         NEW f \in [1..Len(q) -> 1..Len(w)],
         \A i, j \in 1..Len(q) : i < j => f[i] < f[j],
         M \subseteq Elems(q),
         \A i \in 1..Len(q) : q[i] \in M => w[f[i]] = q[i]
  PROVE  Agree(Ranks(q), Ranks(w), M)
<1> SUFFICES ASSUME NEW m \in M, NEW n \in M
             PROVE  <<m, n>> \in Ranks(q) <=> <<m, n>> \in Ranks(w)
  BY DEF Agree
<1>1. PICK i \in 1..Len(q) : m = q[i]
  BY DEF Elems
<1>2. PICK j \in 1..Len(q) : n = q[j]
  BY DEF Elems
<1>3. w[f[i]] = m /\ w[f[j]] = n /\ f[i] \in 1..Len(w) /\ f[j] \in 1..Len(w)
  BY <1>1, <1>2
<1>4. <<m, n>> \in Ranks(q) <=> i < j
  BY <1>1, <1>2, RankPair
<1>5. <<m, n>> \in Ranks(w) <=> f[i] < f[j]
  <2>1. <<w[f[i]], w[f[j]]>> \in Ranks(w) <=> f[i] < f[j]
    BY <1>3, RankPair
  <2> QED BY <1>3, <2>1
<1>6. i < j <=> f[i] < f[j]
  <2>1. Len(q) \in Nat /\ Len(w) \in Nat
    BY DEF SortedList
  <2>2. i < j \/ i = j \/ j < i
    BY <2>1
  <2> QED BY <1>3, <2>1, <2>2
<1> QED BY <1>4, <1>5, <1>6

(* The list with one more node, behind those with a key not above its own.   *)
Joined(q, n, w) ==
    /\ SortedList(w) /\ Elems(w) = Elems(q) \union {n}
    /\ Agree(Ranks(q), Ranks(w), Elems(q))
    /\ \A m \in Elems(q) : IF KeyOf[n] < KeyOf[m] THEN <<n, m>> \in Ranks(w)
                                                   ELSE <<m, n>> \in Ranks(w)

Inserted(q, size, n, i, w) ==
    /\ Len(w) = size + 1 /\ w \in Seq(Nodes)
    /\ \A j \in 1..(size + 1) :
          w[j] = IF j <= i THEN q[j] ELSE IF j = i + 1 THEN n ELSE q[j - 1]

(* The places in a list after one more was put behind place i.               *)
LEMMA InsertedAt ==
  ASSUME NEW q \in Seq(Nodes), NEW size, size = Len(q), NEW n \in Nodes, NEW i \in 0..size
  PROVE  Inserted(q, size, n, i, SubSeq(q, 1, i) \o <<n>> \o SubSeq(q, i + 1, Len(q)))
<1>1. size \in Nat /\ i \in Nat /\ i <= size
  OBVIOUS
<1> DEFINE x == SubSeq(q, 1, i)
           y == x \o <<n>>
           z == SubSeq(q, i + 1, Len(q))
           w == y \o z
<1>2. x \in Seq(Nodes) /\ Len(x) = i /\ \A j \in 1..i : x[j] = q[j]
  BY <1>1
<1>3. z \in Seq(Nodes) /\ Len(z) = size - i /\ \A j \in 1..(size - i) : z[j] = q[i + j]
  BY <1>1
<1> HIDE DEF x, z
<1>4. y \in Seq(Nodes) /\ Len(y) = i + 1
      /\ \A j \in 1..(i + 1) : y[j] = IF j <= i THEN q[j] ELSE n
  BY <1>1, <1>2
<1> HIDE DEF y
<1>5. /\ w \in Seq(Nodes) /\ Len(w) = Len(y) + Len(z)
      /\ \A j \in 1..(Len(y) + Len(z)) : w[j] = IF j <= Len(y) THEN y[j] ELSE z[j - Len(y)]
  BY <1>3, <1>4, ConcatProperties
<1> HIDE DEF w
<1>6. Len(w) = size + 1
  BY <1>1, <1>3, <1>4, <1>5
<1>7. ASSUME NEW j \in 1..(size + 1)
      PROVE  w[j] = IF j <= i THEN q[j] ELSE IF j = i + 1 THEN n ELSE q[j - 1]
  <2>1. CASE j <= i + 1
    <3>1. w[j] = y[j] /\ y[j] = IF j <= i THEN q[j] ELSE n
      <4>1. j \in 1..(Len(y) + Len(z)) /\ Len(y) = i + 1 /\ j <= Len(y) /\ j \in 1..(i + 1)
        BY <1>1, <1>3, <1>4, <2>1
      <4>2. w[j] = y[j]
        BY <1>5, <4>1
      <4> QED BY <1>4, <4>1, <4>2
    <3>2. ~ (j <= i) => j = i + 1
      BY <1>1, <2>1
    <3> QED BY <3>1, <3>2
  <2>2. CASE ~ (j <= i + 1)
    <3>1. w[j] = z[j - (i + 1)] /\ j - (i + 1) \in 1..(size - i)
      <4>1. j \in 1..(Len(y) + Len(z)) /\ Len(y) = i + 1 /\ ~ (j <= Len(y))
        BY <1>1, <1>3, <1>4, <2>2
      <4>2. w[j] = z[j - Len(y)]
        BY <1>5, <4>1
      <4> QED BY <1>1, <2>2, <4>1, <4>2
    <3>2. z[j - (i + 1)] = q[i + (j - (i + 1))]
      BY <1>3, <3>1
    <3>4. i + (j - (i + 1)) = j - 1
      BY <1>1
    <3>3. ~ (j <= i) /\ j # i + 1
      BY <1>1, <2>2
    <3> QED BY <3>1, <3>2, <3>3, <3>4
  <2> QED BY <2>1, <2>2
<1>8. Inserted(q, size, n, i, w)
  BY <1>5, <1>6, <1>7 DEF Inserted
<1> QED BY <1>8 DEF w, x, y, z

(* The list is sorted again if i are those with a key not above that of n.   *)
LEMMA InsertRanks ==
  ASSUME NEW q, SortedList(q), NEW size \in Nat, size = Len(q),
         NEW n \in Nodes \ Elems(q), NEW i \in 0..size,
         \A j \in 1..size : KeyOf[q[j]] <= KeyOf[n] <=> j <= i,
         NEW w, Inserted(q, size, n, i, w)
  PROVE  Joined(q, n, w)
<1>1. i \in Nat /\ i <= size
  OBVIOUS
<1>2. \A a, b \in 1..size : a < b => q[a] # q[b] /\ KeyOf[q[a]] <= KeyOf[q[b]]
  BY DEF SortedList
<1>3. Elems(q) = {q[j] : j \in 1..size}
  BY DEF Elems
<1>4. /\ w \in Seq(Nodes) /\ Len(w) = size + 1
      /\ \A j \in 1..(size + 1) : j <= i => w[j] = q[j]
      /\ w[i + 1] = n
      /\ \A j \in 1..(size + 1) : i + 1 < j => w[j] = q[j - 1]
  BY <1>1 DEF Inserted
<1>5. \A j \in 1..size : KeyOf[q[j]] \in Nat /\ q[j] \in Nodes /\ q[j] # n
                           /\ (KeyOf[q[j]] <= KeyOf[n] <=> j <= i)
  BY <1>3, KeyOfAssumption DEF SortedList
<1>6. KeyOf[n] \in Nat
  BY KeyOfAssumption
<1>7. SortedList(w)
  <2> SUFFICES ASSUME NEW a \in 1..(size + 1), NEW b \in 1..(size + 1), a < b
               PROVE  w[a] # w[b] /\ KeyOf[w[a]] <= KeyOf[w[b]]
    BY <1>4 DEF SortedList
  <2>1. CASE b <= i
    <3>1. a \in 1..size /\ b \in 1..size /\ a <= i
      BY <1>1, <2>1
    <3> QED BY <1>2, <1>4, <2>1, <3>1
  <2>2. CASE b = i + 1
    <3>1. a \in 1..size /\ a <= i
      BY <1>1, <2>2
    <3> QED BY <1>4, <1>5, <2>2, <3>1
  <2>3. CASE i + 1 < b /\ a <= i
    <3>1. a \in 1..size /\ b - 1 \in 1..size /\ a < b - 1
      BY <1>1, <2>3
    <3> QED BY <1>2, <1>4, <2>3, <3>1
  <2>4. CASE i + 1 < b /\ a = i + 1
    <3>1. b - 1 \in 1..size /\ ~ (b - 1 <= i)
      BY <1>1, <2>4
    <3>2. w[b] = q[b - 1] /\ w[a] = n
      BY <1>4, <2>4
    <3>3. q[b - 1] # n /\ KeyOf[q[b - 1]] \in Nat /\ ~ (KeyOf[q[b - 1]] <= KeyOf[n])
      BY <1>5, <3>1
    <3> QED BY <1>6, <3>2, <3>3
  <2>5. CASE i + 1 < a
    <3>1. a - 1 \in 1..size /\ b - 1 \in 1..size /\ a - 1 < b - 1 /\ i + 1 < b
      BY <1>1, <2>5
    <3>2. w[a] = q[a - 1] /\ w[b] = q[b - 1]
      BY <1>4, <2>5, <3>1
    <3> QED BY <1>2, <3>1, <3>2
  <2>6. b <= i \/ b = i + 1 \/ (i + 1 < b /\ (a <= i \/ a = i + 1 \/ i + 1 < a))
    BY <1>1
  <2> QED BY <2>1, <2>2, <2>3, <2>4, <2>5, <2>6
<1> DEFINE f == [j \in 1..size |-> IF j <= i THEN j ELSE j + 1]
<1>8. /\ f \in [1..size -> 1..(size + 1)]
      /\ \A a, b \in 1..size : a < b => f[a] < f[b]
      /\ \A j \in 1..size : w[f[j]] = q[j]
  <2>1. \A j \in 1..size : f[j] = (IF j <= i THEN j ELSE j + 1) /\ f[j] \in 1..(size + 1)
    BY <1>1
  <2>2. f \in [1..size -> 1..(size + 1)]
    BY <1>1
  <2> HIDE DEF f
  <2>3. ASSUME NEW j \in 1..size PROVE w[f[j]] = q[j]
    <3>1. CASE j <= i
      BY <1>1, <1>4, <2>1, <3>1
    <3>2. CASE ~ (j <= i)
      <4>1. f[j] = j + 1
        BY <2>1, <3>2
      <4>2. i + 1 < j + 1 /\ j + 1 \in 1..(size + 1) /\ (j + 1) - 1 = j
        BY <1>1, <3>2
      <4>3. w[j + 1] = q[(j + 1) - 1]
        BY <1>4, <4>2
      <4> QED BY <4>1, <4>2, <4>3
    <3> QED BY <3>1, <3>2
  <2>4. ASSUME NEW a \in 1..size, NEW b \in 1..size, a < b PROVE f[a] < f[b]
    BY <1>1, <2>1, <2>4
  <2> QED BY <2>2, <2>3, <2>4
<1> HIDE DEF f
<1>9. Elems(w) = Elems(q) \union {n}
  <2>0. Elems(w) = {w[j] : j \in 1..(size + 1)}
    BY <1>4 DEF Elems
  <2>1. ASSUME NEW j \in 1..(size + 1) PROVE w[j] \in Elems(q) \union {n}
    <3>1. CASE j <= i
      <4>1. j \in 1..size /\ w[j] = q[j]
        BY <1>1, <1>4, <3>1
      <4> QED BY <1>3, <4>1
    <3>2. CASE j = i + 1
      BY <1>4, <3>2
    <3>3. CASE i + 1 < j
      <4>1. j - 1 \in 1..size /\ w[j] = q[j - 1]
        BY <1>1, <1>4, <3>3
      <4> QED BY <1>3, <4>1
    <3> QED BY <1>1, <3>1, <3>2, <3>3
  <2>2. ASSUME NEW j \in 1..size PROVE q[j] \in Elems(w)
    <3>1. f[j] \in 1..(size + 1) /\ w[f[j]] = q[j]
      BY <1>8
    <3> QED BY <2>0, <3>1
  <2>3. n \in Elems(w)
    <3>1. i + 1 \in 1..(size + 1)
      BY <1>1
    <3> QED BY <1>4, <2>0, <3>1
  <2>4. Elems(w) \subseteq Elems(q) \union {n}
    BY <2>0, <2>1
  <2>5. Elems(q) \subseteq Elems(w)
    BY <1>3, <2>2
  <2> QED BY <2>3, <2>4, <2>5
<1>10. Agree(Ranks(q), Ranks(w), Elems(q))
  <2>1. f \in [1..Len(q) -> 1..Len(w)] /\ 1..Len(q) = 1..size
    BY <1>4, <1>8
  <2>2. /\ \A a, b \in 1..Len(q) : a < b => f[a] < f[b]
        /\ \A j \in 1..Len(q) : q[j] \in Elems(q) => w[f[j]] = q[j]
    BY <1>8, <2>1
  <2>3. Elems(q) \subseteq Elems(q)
    OBVIOUS
  <2> QED BY <1>7, <2>1, <2>2, <2>3, ShiftedRanks
<1>11. ASSUME NEW m \in Elems(q)
       PROVE  IF KeyOf[n] < KeyOf[m] THEN <<n, m>> \in Ranks(w) ELSE <<m, n>> \in Ranks(w)
  <2>1. PICK j \in 1..size : m = q[j]
    BY <1>3
  <2>2. w[f[j]] = m /\ f[j] \in 1..Len(w) /\ w[i + 1] = n /\ i + 1 \in 1..Len(w)
    BY <1>1, <1>4, <1>8, <2>1
  <2>3. f[j] = IF j <= i THEN j ELSE j + 1
    BY DEF f
  <2>4. KeyOf[m] \in Nat /\ (KeyOf[m] <= KeyOf[n] <=> j <= i)
    BY <1>5, <2>1
  <2>5. /\ <<w[f[j]], w[i + 1]>> \in Ranks(w) <=> f[j] < i + 1
        /\ <<w[i + 1], w[f[j]]>> \in Ranks(w) <=> i + 1 < f[j]
    BY <1>7, <2>2, RankPair
  <2>6. CASE j <= i
    <3>1. f[j] < i + 1
      BY <1>1, <2>3, <2>6
    <3>2. ~ (KeyOf[n] < KeyOf[m])
      BY <1>6, <2>4, <2>6
    <3> QED BY <2>2, <2>5, <3>1, <3>2
  <2>7. CASE ~ (j <= i)
    <3>1. i + 1 < f[j]
      BY <1>1, <2>3, <2>7
    <3>2. KeyOf[n] < KeyOf[m]
      BY <1>6, <2>4, <2>7
    <3> QED BY <2>2, <2>5, <3>1, <3>2
  <2> QED BY <2>6, <2>7
<1> QED BY <1>7, <1>9, <1>10, <1>11 DEF Joined

(* The list without one of its nodes.                                        *)
Left(q, n, w) ==
    /\ SortedList(w) /\ Elems(w) = Elems(q) \ {n}
    /\ Agree(Ranks(q), Ranks(w), Elems(q) \ {n})

Removed(q, size, i, w) ==
    /\ Len(w) = size - 1 /\ w \in Seq(Nodes)
    /\ \A j \in 1..(size - 1) : w[j] = IF j < i THEN q[j] ELSE q[j + 1]

(* The places in a list after place i went.                                  *)
LEMMA RemovedAt ==
  ASSUME NEW q \in Seq(Nodes), NEW size, size = Len(q), NEW i \in 1..size
  PROVE  Removed(q, size, i, SubSeq(q, 1, i - 1) \o SubSeq(q, i + 1, Len(q)))
<1>1. size \in Nat /\ i \in Nat /\ 1 <= i /\ i <= size
  OBVIOUS
<1> DEFINE x == SubSeq(q, 1, i - 1)
           z == SubSeq(q, i + 1, Len(q))
           w == x \o z
<1>2. x \in Seq(Nodes) /\ Len(x) = i - 1 /\ \A j \in 1..(i - 1) : x[j] = q[j]
  BY <1>1
<1>3. z \in Seq(Nodes) /\ Len(z) = size - i /\ \A j \in 1..(size - i) : z[j] = q[i + j]
  BY <1>1
<1> HIDE DEF x, z
<1>4. /\ w \in Seq(Nodes) /\ Len(w) = Len(x) + Len(z)
      /\ \A j \in 1..(Len(x) + Len(z)) : w[j] = IF j <= Len(x) THEN x[j] ELSE z[j - Len(x)]
  BY <1>2, <1>3, ConcatProperties
<1> HIDE DEF w
<1> DEFINE lx == Len(x)
           lz == Len(z)
<1>5. lx = i - 1 /\ lz = size - i
  BY <1>2, <1>3
<1>6. Len(w) = lx + lz
  BY <1>4
<1> HIDE DEF lx, lz
<1>7. lx + lz = size - 1
  BY <1>1, <1>5
<1>8. Len(w) = size - 1
  BY <1>6, <1>7
<1>9. Len(x) + Len(z) = size - 1 /\ Len(x) = i - 1
  BY <1>5, <1>7 DEF lx, lz
<1>10. ASSUME NEW j \in 1..(size - 1) PROVE w[j] = IF j < i THEN q[j] ELSE q[j + 1]
  <2>1. CASE j < i
    <3>1. Len(x) + Len(z) = size - 1 /\ Len(x) = i - 1
      BY <1>9
    <3>2. j \in 1..(Len(x) + Len(z)) /\ j <= Len(x) /\ j \in 1..(i - 1)
      BY <1>1, <2>1, <3>1
    <3>3. w[j] = x[j]
      BY <1>4, <3>2
    <3> QED BY <1>2, <2>1, <3>2, <3>3
  <2>2. CASE ~ (j < i)
    <3>1. w[j] = z[j - (i - 1)] /\ j - (i - 1) \in 1..(size - i)
      <4>1. Len(x) + Len(z) = size - 1 /\ Len(x) = i - 1
        BY <1>9
      <4>2. j \in 1..(Len(x) + Len(z))
        BY <4>1
      <4>3. ~ (j <= Len(x))
        BY <1>1, <2>2, <4>1
      <4>4. w[j] = z[j - Len(x)]
        BY <1>4, <4>2, <4>3
      <4>5. j - (i - 1) \in 1..(size - i)
        BY <1>1, <2>2
      <4> QED BY <4>1, <4>4, <4>5
    <3>2. z[j - (i - 1)] = q[i + (j - (i - 1))] /\ i + (j - (i - 1)) = j + 1
      BY <1>1, <1>3, <3>1
    <3> QED BY <2>2, <3>1, <3>2
  <2> QED BY <2>1, <2>2
<1>11. Removed(q, size, i, w)
  BY <1>4, <1>8, <1>10 DEF Removed
<1> QED BY <1>11 DEF w, x, z

(* A list with one less is sorted as well.                                   *)
LEMMA RemoveRanks ==
  ASSUME NEW q, SortedList(q), NEW size \in Nat, size = Len(q), NEW i \in 1..size,
         NEW w, Removed(q, size, i, w)
  PROVE  Left(q, q[i], w)
<1>1. \A a, b \in 1..size : a < b => q[a] # q[b] /\ KeyOf[q[a]] <= KeyOf[q[b]]
  BY DEF SortedList
<1>2. Elems(q) = {q[j] : j \in 1..size}
  BY DEF Elems
<1>3. /\ w \in Seq(Nodes) /\ Len(w) = size - 1 /\ size - 1 \in Nat
      /\ \A j \in 1..(size - 1) : w[j] = IF j < i THEN q[j] ELSE q[j + 1]
  BY DEF Removed
<1> DEFINE f == [j \in 1..(size - 1) |-> IF j < i THEN j ELSE j + 1]
<1>4. /\ f \in [1..(size - 1) -> 1..size]
      /\ \A a, b \in 1..(size - 1) : a < b => f[a] < f[b]
      /\ \A j \in 1..(size - 1) : q[f[j]] = w[j] /\ f[j] # i
  <2>1. f \in [1..(size - 1) -> 1..size]
    OBVIOUS
  <2>2. \A j \in 1..(size - 1) : f[j] = (IF j < i THEN j ELSE j + 1)
    OBVIOUS
  <2> HIDE DEF f
  <2>3. \A j \in 1..(size - 1) : q[f[j]] = w[j] /\ f[j] # i
    BY <1>3, <2>2
  <2>4. \A a, b \in 1..(size - 1) : a < b => f[a] < f[b]
    BY <2>2
  <2> QED BY <2>1, <2>3, <2>4
<1> HIDE DEF f
<1>5. SortedList(w)
  <2> SUFFICES ASSUME NEW a \in 1..(size - 1), NEW b \in 1..(size - 1), a < b
               PROVE  w[a] # w[b] /\ KeyOf[w[a]] <= KeyOf[w[b]]
    BY <1>3 DEF SortedList
  <2>1. f[a] \in 1..size /\ f[b] \in 1..size /\ f[a] < f[b] /\ w[a] = q[f[a]] /\ w[b] = q[f[b]]
    BY <1>4
  <2> QED BY <1>1, <2>1
<1>6. Elems(w) = Elems(q) \ {q[i]}
  <2>0. Elems(w) = {w[j] : j \in 1..(size - 1)}
    BY <1>3 DEF Elems
  <2>1. ASSUME NEW j \in 1..(size - 1) PROVE w[j] \in Elems(q) \ {q[i]}
    <3>1. f[j] \in 1..size /\ w[j] = q[f[j]] /\ f[j] # i
      BY <1>4
    <3>2. f[j] < i \/ i < f[j]
      BY <3>1
    <3>3. q[f[j]] # q[i]
      BY <1>1, <3>1, <3>2
    <3> QED BY <1>2, <3>1, <3>3
  <2>2. ASSUME NEW j \in 1..size, j # i PROVE q[j] \in Elems(w)
    <3>1. CASE j < i
      <4>1. j \in 1..(size - 1) /\ w[j] = q[j]
        BY <1>3, <3>1
      <4> QED BY <2>0, <4>1
    <3>2. CASE i < j
      <4>1. j - 1 \in 1..(size - 1) /\ ~ (j - 1 < i) /\ (j - 1) + 1 = j
        BY <3>2
      <4>2. w[j - 1] = q[j]
        BY <1>3, <4>1
      <4> QED BY <2>0, <4>1, <4>2
    <3> QED BY <2>2, <3>1, <3>2
  <2>3. Elems(w) \subseteq Elems(q) \ {q[i]}
    BY <2>0, <2>1
  <2>4. Elems(q) \ {q[i]} \subseteq Elems(w)
    BY <1>2, <2>2
  <2> QED BY <2>3, <2>4
<1>7. Agree(Ranks(w), Ranks(q), Elems(w))
  <2>1. f \in [1..Len(w) -> 1..Len(q)] /\ 1..Len(w) = 1..(size - 1)
    BY <1>3, <1>4
  <2>2. /\ \A a, b \in 1..Len(w) : a < b => f[a] < f[b]
        /\ \A j \in 1..Len(w) : w[j] \in Elems(w) => q[f[j]] = w[j]
    BY <1>4, <2>1
  <2>3. Elems(w) \subseteq Elems(w)
    OBVIOUS
  <2> QED BY <1>5, <2>1, <2>2, <2>3, ShiftedRanks
<1>8. Agree(Ranks(q), Ranks(w), Elems(q) \ {q[i]})
  BY <1>6, <1>7 DEF Agree
<1> QED BY <1>5, <1>6, <1>8 DEF Left

-------------------------------------------------------------------------------
(* The colours.  The height of a node counts the black nodes from it down,   *)
(* and one for each place in lack below it where a black node is missing.    *)

Weight(r) == IF r THEN 0 ELSE 1

Heights(ch, red, M, lack, height) ==
    /\ height \in [All -> Nat] /\ height[Nil] = 0
    /\ \A n \in M : \A s \in Sides :
          height[n] = height[ch[s][n]] + Weight(<<n, s>> \notin lack) + Weight(red[n])

Level(ch, red, M, height) ==
    /\ height \in [All -> Nat] /\ height[Nil] = 0
    /\ \A n \in M : \A s \in Sides : height[n] = height[ch[s][n]] + Weight(red[n])

(* Where nothing is missing, the height of a node is that of both children   *)
(* and its own weight.                                                       *)
LEMMA NoLack ==
  ASSUME NEW ch, NEW red, NEW M, M \subseteq All,
         \A n \in M : \A s \in Sides : ch[s][n] \in All, NEW height
  PROVE  Heights(ch, red, M, {}, height) <=> Level(ch, red, M, height)
<1>1. ASSUME height \in [All -> Nat], NEW n \in M, NEW s \in Sides
      PROVE  height[ch[s][n]] + Weight(<<n, s>> \notin {}) + Weight(red[n])
                = height[ch[s][n]] + Weight(red[n])
  <2>1. Weight(<<n, s>> \notin {}) = 0
    BY DEF Weight
  <2>2. height[ch[s][n]] \in Nat /\ Weight(red[n]) \in Nat
    BY <1>1 DEF Weight
  <2> HIDE DEF Weight
  <2> QED BY <2>1, <2>2
<1>2. CASE height \in [All -> Nat]
  <2>1. \A n \in M : \A s \in Sides :
           height[ch[s][n]] + Weight(<<n, s>> \notin {}) + Weight(red[n])
                = height[ch[s][n]] + Weight(red[n])
    BY <1>1, <1>2
  <2> QED BY <2>1 DEF Heights, Level
<1> QED BY <1>2 DEF Heights, Level

(* A red node has no red child but in the places of loose.                   *)
Rosy(ch, red, M, loose) ==
    /\ ~ red[Nil]
    /\ \A n \in M : \A s \in Sides : red[n] /\ red[ch[s][n]] => <<n, s>> \in loose

(* A red-black tree.                                                         *)
Calm(u, M, height) ==
    ~ u.red[u.root] /\ Heights(u.ch, u.red, M, {}, height) /\ Rosy(u.ch, u.red, M, {})

(* All that is wrong is that t may be red below a red parent, or at the root. *)
Places(ch, M, t) == {ns \in M \X Sides : ch[ns[2]][ns[1]] = t}

Raised(u, M, t, height) ==
    /\ t \in M /\ u.red[t] /\ (u.red[u.root] => t = u.root)
    /\ Heights(u.ch, u.red, M, {}, height)
    /\ Rosy(u.ch, u.red, M, Places(u.ch, M, t))

(* All that is wrong is a black node missing from t up to its parent; and t  *)
(* may be red.                                                               *)
Gap(u, t) == IF t = u.root THEN {} ELSE {<<u.p[t], SideOf(u, t)>>}

Lowered(u, M, t, height) ==
    /\ t \in M \union {Nil} /\ u.root \in M /\ ~ u.red[u.root]
    /\ t # u.root => u.p[t] \in M /\ u.ch[SideOf(u, t)][u.p[t]] = t
    /\ Heights(u.ch, u.red, M, Gap(u, t), height)
    /\ Rosy(u.ch, u.red, M, Gap(u, t) \union ({t} \X Sides))

(* Who is who in a turn of the loop that goes up.                            *)
Family(u, M, t, q, g, s, x) ==
    /\ q \in M /\ q # u.root /\ u.red[q] /\ u.p[t] = q /\ t # q
    /\ g \in M /\ ~ u.red[g] /\ u.p[q] = g /\ q # g
    /\ s \in Sides /\ u.ch[s][g] = q /\ u.ch[Other(s)][g] = x
    /\ x \in M \union {Nil} /\ x # q /\ (x # Nil => u.p[x] = g)

(* A red node with a red parent has a grandparent, which is black.           *)
LEMMA FamilyFacts ==
  ASSUME NEW u \in Trees, NEW M, NEW R, NEW sub,
         Strict(R), Shape(u.root, u.ch, u.p, M, R, sub),
         NEW t, NEW height, Raised(u, M, t, height), t # u.root, u.red[u.p[t]]
  PROVE  Family(u, M, t, u.p[t], u.p[u.p[t]], SideOf(u, u.p[t]),
                u.ch[Other(SideOf(u, u.p[t]))][u.p[u.p[t]]])
<1> DEFINE q == u.p[t]
           g == u.p[q]
           d == SideOf(u, t)
           s == SideOf(u, q)
           x == u.ch[Other(s)][g]
<1>1. t \in M /\ M \subseteq Nodes /\ Nil \notin M
  BY NodesAssumption DEF Raised, Shape, Links
<1>2. Hangs(u.ch, M, t, d, q)
  BY <1>1, SideOfFacts
<1> HIDE DEF q, d
<1>3. q \in M /\ d \in Sides /\ u.ch[d][q] = t /\ u.red[q]
  BY <1>2 DEF Hangs, q
<1>4. t # q /\ q # u.root
  <2>1. t # q
    BY <1>1, <1>3, ChildFacts
  <2>2. u.red[u.root] => t = u.root
    BY DEF Raised
  <2> QED BY <1>3, <2>1, <2>2
<1>5. Hangs(u.ch, M, q, s, g)
  BY <1>3, <1>4, SideOfFacts
<1> HIDE DEF g, s
<1>6. g \in M /\ s \in Sides /\ u.ch[s][g] = q
  BY <1>5 DEF Hangs
<1>7. q # g /\ x # q /\ x \in M \union {Nil}
  <2>1. q # Nil /\ Other(s) \in Sides
    BY <1>1, <1>3, <1>6, SideCases
  <2>2. q # g /\ x # q
    BY <1>6, <2>1, ChildFacts
  <2> QED BY <1>6, <2>1, <2>2 DEF Shape, Links
<1>8. x # Nil => u.p[x] = g
  BY <1>6, SideCases DEF Shape, Links
<1>9. ~ u.red[g]
  <2>1. SUFFICES ASSUME u.red[g] PROVE FALSE
    OBVIOUS
  <2>2. <<g, s>> \in Places(u.ch, M, t)
    BY <1>3, <1>6, <2>1 DEF Raised, Rosy
  <2>3. u.ch[s][g] = t
    BY <2>2 DEF Places
  <2> QED BY <1>4, <1>6, <2>3
<1>10. Family(u, M, t, q, g, s, x)
  BY <1>3, <1>4, <1>6, <1>7, <1>8, <1>9 DEF Family, g, q
<1> QED BY <1>10 DEF q, g, s

RaisedSome(v, M, t) == \E height : Raised(v, M, t, height)

UnclePainted(u, q, x, g, v) ==
    /\ u.red[x] /\ v \in Trees /\ v.root = u.root /\ v.ch = u.ch
    /\ v.red = [u.red EXCEPT ![q] = FALSE, ![x] = FALSE, ![g] = TRUE]

(* Parent and uncle turn black and the grandparent red: only it may be wrong *)
(* now.                                                                      *)
LEMMA RedUncleHues ==
  ASSUME NEW u \in Trees, NEW M, NEW R, NEW sub,
         Strict(R), Shape(u.root, u.ch, u.p, M, R, sub),
         NEW t, NEW height, Raised(u, M, t, height), t # u.root,
         NEW q, NEW g, NEW s, NEW x, Family(u, M, t, q, g, s, x),
         NEW v, UnclePainted(u, q, x, g, v)
  PROVE  RaisedSome(v, M, g)
<1>0. /\ u.red[x] /\ v \in Trees /\ v.root = u.root /\ v.ch = u.ch
      /\ v.red = [u.red EXCEPT ![q] = FALSE, ![x] = FALSE, ![g] = TRUE]
  BY DEF UnclePainted
<1> USE <1>0
<1>1. /\ q \in M /\ g \in M /\ x \in M /\ q # g /\ x # q /\ u.red[q] /\ ~ u.red[g]
      /\ u.p[q] = g /\ u.p[x] = g /\ u.p[t] = q /\ q # u.root /\ g # x
      /\ \A d \in Sides : u.ch[d][g] \in {q, x}
  <2>1. x \in M
    BY DEF Family, Raised, Rosy
  <2>2. \A d \in Sides : d = s \/ d = Other(s)
    BY SideCases DEF Family
  <2>3. x # Nil /\ Other(s) \in Sides
    BY <2>1, NodesAssumption, SideCases DEF Shape, Links, Family
  <2> QED BY <2>1, <2>2, <2>3 DEF Family
<1>2. M \subseteq All /\ Nil \in All /\ Nil \notin M
  BY NodesAssumption DEF Shape, Links, All
<1>3. \A n \in M : \A d \in Sides : /\ u.ch[d][n] \in M \union {Nil}
                                    /\ u.ch[d][n] # Nil => u.p[u.ch[d][n]] = n
  BY DEF Shape, Links
<1>4. \A n \in All : v.red[n] <=> n = g \/ (n # q /\ n # x /\ u.red[n])
  <2>1. u.red \in [All -> BOOLEAN]
    BY DEF Trees
  <2> QED BY <1>1, <1>2, <2>1
<1>5. /\ height \in [All -> Nat] /\ height[Nil] = 0
      /\ \A n \in M : \A d \in Sides : height[n] = height[u.ch[d][n]] + Weight(u.red[n])
  <2>1. Level(u.ch, u.red, M, height)
    <3>1. \A n \in M : \A d \in Sides : u.ch[d][n] \in All
      BY <1>2, <1>3
    <3> QED BY <1>2, <3>1, NoLack DEF Raised
  <2> QED BY <2>1 DEF Level
<1> DEFINE height2 == [height EXCEPT ![q] = height[q] + 1, ![x] = height[x] + 1]
<1>6. /\ height2 \in [All -> Nat]
      /\ \A n \in All : height2[n] = IF n = q \/ n = x THEN height[n] + 1 ELSE height[n]
  BY <1>1, <1>2, <1>5
<1> HIDE DEF height2
<1>7. ASSUME NEW n \in M, NEW d \in Sides
      PROVE  height2[n] = height2[v.ch[d][n]] + Weight(v.red[n])
  <2>1. n \in All /\ u.ch[d][n] \in All
    BY <1>2, <1>3
  <2>2. height[n] \in Nat /\ height[u.ch[d][n]] \in Nat
    BY <1>5, <2>1
  <2>3. height[n] = height[u.ch[d][n]] + Weight(u.red[n])
    BY <1>5
  <2>4. CASE n = g
    <3>1. u.ch[d][n] \in {q, x}
      BY <1>1, <2>4
    <3>2. height2[n] = height[n] /\ height2[u.ch[d][n]] = height[u.ch[d][n]] + 1
      BY <1>1, <1>6, <2>1, <2>4, <3>1
    <3>3. v.red[n] /\ ~ u.red[n]
      BY <1>1, <1>4, <2>1, <2>4
    <3> QED BY <2>2, <2>3, <3>2, <3>3 DEF Weight
  <2>5. CASE n # g
    <3>1. u.ch[d][n] # q /\ u.ch[d][n] # x
      BY <1>1, <1>2, <1>3, <2>5
    <3>2. height2[u.ch[d][n]] = height[u.ch[d][n]]
      BY <1>6, <2>1, <3>1
    <3>3. CASE n = q \/ n = x
      <4>1. u.red[n] /\ ~ v.red[n] /\ height2[n] = height[n] + 1
        BY <1>1, <1>4, <1>6, <2>1, <2>5, <3>3 DEF Trees
      <4> QED BY <2>2, <2>3, <3>2, <4>1 DEF Weight
    <3>4. CASE n # q /\ n # x
      <4>1. (v.red[n] <=> u.red[n]) /\ height2[n] = height[n]
        BY <1>4, <1>6, <2>1, <2>5, <3>4
      <4> QED BY <2>3, <3>2, <4>1 DEF Weight
    <3> QED BY <3>3, <3>4
  <2> QED BY <2>4, <2>5
<1>8. Heights(v.ch, v.red, M, {}, height2)
  <2>1. height2[Nil] = 0
    BY <1>1, <1>2, <1>5, <1>6
  <2>2. \A n \in M : \A d \in Sides : v.ch[d][n] \in All
    BY <1>2, <1>3
  <2>3. Level(v.ch, v.red, M, height2)
    BY <1>6, <1>7, <2>1 DEF Level
  <2> QED BY <1>2, <2>2, <2>3, NoLack
<1>9. Rosy(v.ch, v.red, M, Places(v.ch, M, g))
  <2>1. ~ u.red[Nil] /\ Nil # g
    BY <1>1, <1>2 DEF Raised, Rosy
  <2>2. ~ v.red[Nil]
    BY <1>2, <1>4, <2>1
  <2>3. ASSUME NEW n \in M, NEW d \in Sides, v.red[n], v.red[v.ch[d][n]]
        PROVE  v.ch[d][n] = g
    <3> DEFINE c == u.ch[d][n]
    <3>1. n \in All /\ c \in All /\ c # Nil
      BY <1>2, <1>3, <2>2, <2>3
    <3>2. SUFFICES ASSUME c # g PROVE FALSE
      OBVIOUS
    <3>3. c # q /\ c # x /\ u.red[c]
      BY <1>4, <2>3, <3>1, <3>2
    <3>4. n # g
      BY <1>1, <3>3
    <3>5. u.red[n] /\ n # q
      BY <1>4, <2>3, <3>1, <3>4
    <3>6. <<n, d>> \in Places(u.ch, M, t)
      BY <3>3, <3>5 DEF Raised, Rosy
    <3>7. c = t
      BY <3>6 DEF Places
    <3> QED BY <1>1, <1>3, <3>1, <3>5, <3>7
  <2> QED BY <2>2, <2>3 DEF Rosy, Places
<1>10. v.red[g] /\ (v.red[v.root] => g = v.root)
  <2>1. u.root \in M
    BY <1>1 DEF Shape, Links, Spans
  <2>2. u.red[u.root] => t = u.root
    BY DEF Raised
  <2> QED BY <1>1, <1>2, <1>4, <2>1, <2>2
<1> QED BY <1>1, <1>8, <1>9, <1>10 DEF Raised, RaisedSome

(* What every step about the colours needs of the links.                     *)
Linked(u, M) ==
    /\ M \subseteq Nodes /\ M \subseteq All /\ Nil \in All /\ Nil \notin M
    /\ u.root \in M \union {Nil} /\ (M # {} => u.root \in M)
    /\ \A n \in M : \A d \in Sides :
          /\ u.ch[d][n] \in M \union {Nil} /\ u.ch[d][n] \in All
          /\ u.ch[d][n] # Nil => u.p[u.ch[d][n]] = n /\ u.ch[d][n] # u.root

(* The links of a tree are all that the lemmas about colours use.            *)
LEMMA LinkedFacts ==
  ASSUME NEW u, NEW M, NEW R, NEW sub,
         Strict(R), Shape(u.root, u.ch, u.p, M, R, sub)
  PROVE  Linked(u, M)
<1>1. M \subseteq Nodes /\ M \subseteq All /\ Nil \in All /\ Nil \notin M
  BY NodesAssumption DEF Shape, Links, All
<1>2. u.root \in M \union {Nil} /\ (M # {} => u.root \in M)
  BY DEF Shape, Links, Spans
<1>3. ASSUME NEW n \in M, NEW d \in Sides
      PROVE  /\ u.ch[d][n] \in M \union {Nil} /\ u.ch[d][n] \in All
             /\ u.ch[d][n] # Nil => u.p[u.ch[d][n]] = n /\ u.ch[d][n] # u.root
  <2>1. u.ch[d][n] \in M \union {Nil} /\ (u.ch[d][n] # Nil => u.p[u.ch[d][n]] = n)
    BY DEF Shape, Links
  <2>2. u.ch[d][n] # Nil => u.ch[d][n] # u.root
    BY ChildFacts
  <2> QED BY <1>1, <2>1, <2>2
<1> QED BY <1>1, <1>2, <1>3 DEF Linked

(* The same as NoLack, of a tree.                                            *)
LEMMA LevelFacts ==
  ASSUME NEW u, NEW M, Linked(u, M), NEW red, NEW height
  PROVE  Heights(u.ch, red, M, {}, height) <=> Level(u.ch, red, M, height)
BY NoLack DEF Linked

(* The rotation that brings an inner node outside keeps every height.        *)
LEMMA InnerHues ==
  ASSUME NEW u \in Trees, NEW M, NEW R, NEW sub,
         Strict(R), Shape(u.root, u.ch, u.p, M, R, sub),
         NEW t, NEW height, Raised(u, M, t, height), t # u.root,
         NEW q, NEW g, NEW s, NEW x, Family(u, M, t, q, g, s, x),
         t = u.ch[Other(s)][q], NEW v, Rotated(u, M, s, q, v), Linked(v, M)
  PROVE  Raised(v, M, q, height)
<1> DEFINE o == Other(s)
           b == u.ch[s][t]
<1>1. /\ q \in M /\ q # u.root /\ u.red[q] /\ t \in M /\ u.red[t] /\ t # Nil /\ t # q
      /\ s \in Sides /\ o \in Sides /\ \A d \in Sides : d = s \/ d = o
  BY SideCases, NodesAssumption DEF Family, Raised, Shape, Links
<1>2. Linked(u, M)
  BY LinkedFacts
<1>3. Turned(u.root, u.ch, u.p, M, s, q, t, b, v.root, v.ch, v.p) /\ v.red = u.red
  BY DEF Rotated
<1>4. Around(u.root, u.ch, u.p, M, s, q, t, b, v.ch)
  BY <1>1, <1>3, TurnedFacts
<1> HIDE DEF o, b
<1>5. /\ b \in M \union {Nil} /\ u.ch[s][q] \in M \union {Nil} /\ u.ch[o][t] \in M \union {Nil}
      /\ b # t /\ u.ch[s][q] # t /\ u.ch[o][t] # t
      /\ v.ch[s][q] = u.ch[s][q] /\ v.ch[o][q] = b /\ v.ch[s][t] = q /\ v.ch[o][t] = u.ch[o][t]
      /\ \A m \in M \ {q, t} : \A d \in Sides :
            \/ u.ch[d][m] = q /\ v.ch[d][m] = t
            \/ v.ch[d][m] = u.ch[d][m] /\ u.ch[d][m] # q /\ u.ch[d][m] # t
  BY <1>4 DEF Around, o
<1>6. Level(u.ch, u.red, M, height)
  BY <1>2, LevelFacts DEF Raised
<1>7. /\ height \in [All -> Nat] /\ height[Nil] = 0
      /\ \A n \in M : \A d \in Sides : height[n] = height[u.ch[d][n]] + Weight(u.red[n])
  BY <1>6 DEF Level
<1>8. M \subseteq All /\ Nil \in All
  BY <1>2 DEF Linked
<1>9. /\ height[q] = height[u.ch[s][q]] /\ height[q] = height[t]
      /\ height[t] = height[b] /\ height[t] = height[u.ch[o][t]]
  <2>1. \A d \in Sides : /\ height[q] = height[u.ch[d][q]] + 0
                         /\ height[t] = height[u.ch[d][t]] + 0
    BY <1>1, <1>7 DEF Weight
  <2>2. height[u.ch[s][q]] \in Nat /\ height[t] \in Nat /\ height[b] \in Nat /\ height[u.ch[o][t]] \in Nat
    BY <1>1, <1>5, <1>7, <1>8
  <2>3. height[q] = height[t] + 0 /\ height[t] = height[b] + 0
    BY <1>1, <2>1 DEF o, b
  <2> QED BY <1>1, <2>1, <2>2, <2>3
<1>10. ASSUME NEW n \in M, NEW d \in Sides
       PROVE  height[n] = height[v.ch[d][n]] + Weight(v.red[n])
  <2>1. CASE n = q
    <3>1. v.ch[d][n] = u.ch[s][q] \/ v.ch[d][n] = b
      BY <1>1, <1>5, <2>1
    <3>2. height[v.ch[d][n]] = height[q] /\ Weight(v.red[n]) = 0 /\ height[q] \in Nat
      BY <1>1, <1>3, <1>7, <1>8, <1>9, <2>1, <3>1 DEF Weight
    <3> QED BY <2>1, <3>2
  <2>2. CASE n = t
    <3>1. v.ch[d][n] = q \/ v.ch[d][n] = u.ch[o][t]
      BY <1>1, <1>5, <2>2
    <3>2. height[v.ch[d][n]] = height[t] /\ Weight(v.red[n]) = 0 /\ height[t] \in Nat
      BY <1>1, <1>3, <1>7, <1>8, <1>9, <2>2, <3>1 DEF Weight
    <3> QED BY <2>2, <3>2
  <2>3. CASE n # q /\ n # t
    <3>1. height[v.ch[d][n]] = height[u.ch[d][n]]
      BY <1>5, <1>9, <2>3
    <3> QED BY <1>3, <1>7, <3>1
  <2> QED BY <2>1, <2>2, <2>3
<1>11. Heights(v.ch, v.red, M, {}, height)
  <2>1. Level(v.ch, v.red, M, height)
    BY <1>7, <1>10 DEF Level
  <2> QED BY <2>1, LevelFacts
<1>12. Rosy(v.ch, v.red, M, Places(v.ch, M, q))
  <2>1. /\ ~ u.red[Nil]
        /\ \A n \in M : \A d \in Sides : u.red[n] /\ u.red[u.ch[d][n]] => u.ch[d][n] = t
    BY DEF Raised, Rosy, Places
  <2>2. ASSUME NEW n \in M, NEW d \in Sides, v.red[n], v.red[v.ch[d][n]]
        PROVE  v.ch[d][n] = q
    <3>1. SUFFICES ASSUME v.ch[d][n] # q PROVE FALSE
      OBVIOUS
    <3>2. CASE n = q
      <4>1. v.ch[d][n] = u.ch[s][q] \/ v.ch[d][n] = b
        BY <1>1, <1>5, <3>2
      <4>2. ~ u.red[u.ch[s][q]]
        BY <1>1, <1>5, <2>1
      <4>3. ~ u.red[b]
        BY <1>1, <1>5, <2>1 DEF b
      <4> QED BY <1>3, <2>2, <4>1, <4>2, <4>3
    <3>3. CASE n = t
      <4>1. v.ch[d][n] = u.ch[o][t]
        BY <1>1, <1>5, <3>1, <3>3
      <4> QED BY <1>1, <1>3, <1>5, <2>1, <2>2, <4>1
    <3>4. CASE n # q /\ n # t /\ u.ch[d][n] = q
      <4>1. q = t
        BY <1>1, <1>3, <2>1, <2>2, <3>4
      <4> QED BY <1>1, <4>1
    <3>5. CASE n # q /\ n # t /\ u.ch[d][n] # q
      <4>1. v.ch[d][n] = u.ch[d][n] /\ u.ch[d][n] # t
        BY <1>5, <3>5
      <4> QED BY <1>3, <2>1, <2>2, <4>1
    <3> QED BY <3>2, <3>3, <3>4, <3>5
  <2> QED BY <1>3, <2>1, <2>2 DEF Rosy, Places
<1>13. v.red[q] /\ ~ v.red[v.root]
  <2>1. v.root = u.root
    BY <1>1, <1>3 DEF Turned
  <2> QED BY <1>1, <1>3, <2>1 DEF Raised
<1> QED BY <1>1, <1>11, <1>12, <1>13 DEF Raised

(* The rotation of the grandparent makes good what was wrong.                *)
LEMMA OuterHues ==
  ASSUME NEW u \in Trees, NEW M, NEW R, NEW sub,
         Strict(R), Shape(u.root, u.ch, u.p, M, R, sub),
         NEW t, NEW height, Raised(u, M, t, height), t # u.root,
         NEW q, NEW g, NEW s, NEW x, Family(u, M, t, q, g, s, x),
         t # u.ch[Other(s)][q], ~ u.red[x],
         NEW w \in Trees, w.root = u.root, w.ch = u.ch, w.p = u.p,
         w.red = [u.red EXCEPT ![q] = FALSE, ![g] = TRUE],
         NEW v, Rotated(w, M, Other(s), g, v), Linked(v, M)
  PROVE  \E height2 : Raised(v, M, t, height2)
<1> DEFINE o == Other(s)
           b == u.ch[o][q]
<1>1. /\ q \in M /\ q # u.root /\ u.red[q] /\ t \in M /\ u.red[t] /\ t # q
      /\ g \in M /\ ~ u.red[g] /\ q # g /\ u.p[t] = q
      /\ s \in Sides /\ o \in Sides /\ Other(o) = s /\ \A d \in Sides : d = s \/ d = o
      /\ u.ch[s][g] = q /\ u.ch[o][g] = x /\ q # Nil /\ b # t
  BY SideCases, NodesAssumption DEF Family, Raised, Shape, Links
<1>2. Linked(u, M)
  BY LinkedFacts
<1>3. Turned(u.root, u.ch, u.p, M, o, g, q, b, v.root, v.ch, v.p) /\ v.red = w.red
  BY <1>1 DEF Rotated
<1>4. Around(u.root, u.ch, u.p, M, o, g, q, b, v.ch)
  BY <1>1, <1>3, TurnedFacts
<1> HIDE DEF o, b
<1>5. /\ b \in M \union {Nil} /\ b # g /\ b # q /\ u.ch[s][q] \in M \union {Nil}
      /\ u.ch[s][q] # q /\ u.ch[s][q] # g /\ x \in M \union {Nil} /\ x # q /\ x # g
      /\ v.ch[o][g] = x /\ v.ch[s][g] = b /\ v.ch[o][q] = g /\ v.ch[s][q] = u.ch[s][q]
      /\ \A m \in M \ {q, g} : \A d \in Sides :
            \/ u.ch[d][m] = g /\ v.ch[d][m] = q
            \/ v.ch[d][m] = u.ch[d][m] /\ u.ch[d][m] # q /\ u.ch[d][m] # g
  BY <1>1, <1>4 DEF Around
<1>6. Level(u.ch, u.red, M, height)
  BY <1>2, LevelFacts DEF Raised
<1>7. /\ height \in [All -> Nat] /\ height[Nil] = 0
      /\ \A n \in M : \A d \in Sides : height[n] = height[u.ch[d][n]] + Weight(u.red[n])
  BY <1>6 DEF Level
<1>8. M \subseteq All /\ Nil \in All /\ Nil \notin M
  BY <1>2 DEF Linked
<1>9. \A n \in All : v.red[n] <=> n = g \/ (n # q /\ u.red[n])
  BY <1>1, <1>3, <1>8 DEF Trees
<1>10. /\ height[g] \in Nat /\ height[q] \in Nat /\ height[g] = height[q] + 1
       /\ height[x] = height[q] /\ height[b] = height[q] /\ height[u.ch[s][q]] = height[q]
  <2>1. \A d \in Sides : /\ height[q] = height[u.ch[d][q]] + 0
                         /\ height[g] = height[u.ch[d][g]] + 1
    BY <1>1, <1>7 DEF Weight
  <2>2. /\ height[g] \in Nat /\ height[q] \in Nat /\ height[x] \in Nat /\ height[b] \in Nat
        /\ height[u.ch[s][q]] \in Nat
    BY <1>1, <1>5, <1>7, <1>8
  <2>3. height[g] = height[q] + 1 /\ height[g] = height[x] + 1
    BY <1>1, <2>1
  <2>4. height[q] = height[b] + 0 /\ height[q] = height[u.ch[s][q]] + 0
    BY <1>1, <2>1 DEF b
  <2> QED BY <2>2, <2>3, <2>4
<1> DEFINE height2 == [height EXCEPT ![q] = height[g], ![g] = height[q]]
<1>11. /\ height2 \in [All -> Nat] /\ height2[q] = height[g] /\ height2[g] = height[q]
       /\ \A n \in All \ {q, g} : height2[n] = height[n]
  BY <1>1, <1>7, <1>8
<1> HIDE DEF height2
<1>12. ASSUME NEW n \in M, NEW d \in Sides
       PROVE  height2[n] = height2[v.ch[d][n]] + Weight(v.red[n])
  <2>1. CASE n = g
    <3>1. v.ch[d][n] = x \/ v.ch[d][n] = b
      BY <1>1, <1>5, <2>1
    <3>2. height2[v.ch[d][n]] = height[q]
      BY <1>5, <1>8, <1>10, <1>11, <3>1
    <3>3. Weight(v.red[n]) = 0
      BY <1>8, <1>9, <2>1 DEF Weight
    <3> QED BY <1>10, <1>11, <2>1, <3>2, <3>3
  <2>2. CASE n = q
    <3>1. v.ch[d][n] = g \/ v.ch[d][n] = u.ch[s][q]
      BY <1>1, <1>5, <2>2
    <3>2. height2[v.ch[d][n]] = height[q]
      BY <1>1, <1>5, <1>8, <1>10, <1>11, <3>1
    <3>3. Weight(v.red[n]) = 1
      BY <1>1, <1>8, <1>9, <2>2 DEF Weight
    <3> QED BY <1>10, <1>11, <2>2, <3>2, <3>3
  <2>3. CASE n # q /\ n # g
    <3>1. height2[v.ch[d][n]] = height[u.ch[d][n]]
      <4>1. u.ch[d][n] \in All
        BY <1>2 DEF Linked
      <4> QED BY <1>5, <1>11, <2>3, <4>1
    <3>2. height2[n] = height[n] /\ Weight(v.red[n]) = Weight(u.red[n])
      BY <1>8, <1>9, <1>11, <2>3 DEF Weight
    <3> QED BY <1>7, <3>1, <3>2
  <2> QED BY <2>1, <2>2, <2>3
<1>13. Heights(v.ch, v.red, M, {}, height2)
  <2>1. Level(v.ch, v.red, M, height2)
    <3>1. height2[Nil] = 0
      BY <1>1, <1>7, <1>8, <1>11
    <3> QED BY <1>11, <1>12, <3>1 DEF Level
  <2> QED BY <2>1, LevelFacts
<1>14. Rosy(v.ch, v.red, M, Places(v.ch, M, t))
  <2>1. /\ ~ u.red[Nil]
        /\ \A n \in M : \A d \in Sides : u.red[n] /\ u.red[u.ch[d][n]] => u.ch[d][n] = t
    BY DEF Raised, Rosy, Places
  <2>2. ~ v.red[Nil]
    BY <1>1, <1>8, <1>9, <2>1
  <2>3. ASSUME NEW n \in M, NEW d \in Sides, v.red[n], v.red[v.ch[d][n]]
        PROVE  v.ch[d][n] = t
    <3>1. CASE n = g
      <4>1. v.ch[d][n] = x \/ v.ch[d][n] = b
        BY <1>1, <1>5, <3>1
      <4>2. ~ v.red[x]
        BY <1>5, <1>8, <1>9
      <4>3. ~ v.red[b]
        <5>1. ~ u.red[b]
          BY <1>1, <2>1 DEF b
        <5> QED BY <1>5, <1>8, <1>9, <5>1
      <4> QED BY <2>3, <4>1, <4>2, <4>3
    <3>2. CASE n # g /\ u.ch[d][n] = g
      <4>1. v.ch[d][n] = q \/ n = q
        BY <1>5, <3>2
      <4> QED BY <1>1, <1>8, <1>9, <2>3, <4>1
    <3>3. CASE n # g /\ u.ch[d][n] # g
      <4>1. n # q /\ u.red[n]
        BY <1>8, <1>9, <2>3, <3>3
      <4>2. v.ch[d][n] = u.ch[d][n]
        BY <1>5, <3>3, <4>1
      <4>3. u.ch[d][n] \in All
        BY <1>2 DEF Linked
      <4>4. u.red[u.ch[d][n]]
        BY <1>9, <2>3, <3>3, <4>2, <4>3
      <4> QED BY <2>1, <4>1, <4>2, <4>4
    <3> QED BY <3>1, <3>2, <3>3
  <2> QED BY <2>2, <2>3 DEF Rosy, Places
<1>15. v.red[t] /\ ~ v.red[v.root]
  <2>1. t # g
    BY <1>1
  <2>2. v.root = (IF g = u.root THEN q ELSE u.root) /\ u.root \in All
    BY <1>2, <1>3 DEF Turned, Linked
  <2>3. ~ u.red[u.root]
    BY DEF Raised
  <2> QED BY <1>1, <1>8, <1>9, <2>1, <2>2, <2>3
<1> QED BY <1>1, <1>13, <1>14, <1>15 DEF Raised

(* The root is painted black.                                                *)
LEMMA RootPainted ==
  ASSUME NEW u \in Trees, NEW M, NEW R, NEW sub,
         Strict(R), Shape(u.root, u.ch, u.p, M, R, sub),
         NEW t, NEW height, Raised(u, M, t, height), t = u.root \/ ~ u.red[u.p[t]],
         NEW v, v.root = u.root, v.ch = u.ch, v.red = [u.red EXCEPT ![u.root] = FALSE]
  PROVE  \E height2 : Calm(v, M, height2)
<1> DEFINE z == u.root
<1>1. Linked(u, M) /\ t \in M
  BY LinkedFacts DEF Raised
<1>2. M \subseteq All /\ Nil \in All /\ Nil \notin M /\ z \in M
      /\ \A n \in M : \A d \in Sides : u.ch[d][n] \in All /\ u.ch[d][n] # z /\
            (u.ch[d][n] # Nil => u.p[u.ch[d][n]] = n)
  BY <1>1, NodesAssumption DEF Linked
<1> HIDE DEF z
<1>3. \A n \in All : v.red[n] <=> n # z /\ u.red[n]
  BY <1>2 DEF Trees, z
<1>4. Level(u.ch, u.red, M, height)
  BY <1>1, LevelFacts DEF Raised
<1>5. /\ height \in [All -> Nat] /\ height[Nil] = 0
      /\ \A n \in M : \A d \in Sides : height[n] = height[u.ch[d][n]] + Weight(u.red[n])
  BY <1>4 DEF Level
<1> DEFINE height2 == [height EXCEPT ![z] = height[z] + (IF u.red[z] THEN 1 ELSE 0)]
<1>6. /\ height2 \in [All -> Nat] /\ height2[z] = height[z] + (IF u.red[z] THEN 1 ELSE 0)
      /\ \A n \in All \ {z} : height2[n] = height[n]
  BY <1>2, <1>5
<1> HIDE DEF height2
<1>7. ASSUME NEW n \in M, NEW d \in Sides
      PROVE  height2[n] = height2[u.ch[d][n]] + Weight(v.red[n])
  <2>1. height2[u.ch[d][n]] = height[u.ch[d][n]] /\ height[u.ch[d][n]] \in Nat
    BY <1>2, <1>5, <1>6
  <2>2. height[n] = height[u.ch[d][n]] + Weight(u.red[n])
    BY <1>5
  <2>3. CASE n = z
    BY <1>2, <1>3, <1>6, <2>1, <2>2, <2>3 DEF Weight
  <2>4. CASE n # z
    <3>1. Weight(v.red[n]) = Weight(u.red[n]) /\ height2[n] = height[n]
      BY <1>2, <1>3, <1>6, <2>4 DEF Weight
    <3> QED BY <2>1, <2>2, <3>1
  <2> QED BY <2>3, <2>4
<1>8. Heights(v.ch, v.red, M, {}, height2)
  <2>1. height2[Nil] = 0
    BY <1>2, <1>5, <1>6
  <2>2. Level(u.ch, v.red, M, height2)
    BY <1>6, <1>7, <2>1 DEF Level
  <2> QED BY <1>1, <2>2, LevelFacts
<1>9. Rosy(v.ch, v.red, M, {})
  <2>1. /\ ~ u.red[Nil]
        /\ \A n \in M : \A d \in Sides : u.red[n] /\ u.red[u.ch[d][n]] => u.ch[d][n] = t
    BY DEF Raised, Rosy, Places
  <2>2. ~ v.red[Nil]
    BY <1>2, <1>3, <2>1
  <2>3. ASSUME NEW n \in M, NEW d \in Sides, v.red[n], v.red[u.ch[d][n]] PROVE FALSE
    <3>1. u.red[n] /\ n # z /\ u.red[u.ch[d][n]]
      BY <1>2, <1>3, <2>3
    <3>2. u.ch[d][n] = t /\ t # Nil
      BY <1>1, <1>2, <2>1, <3>1
    <3>3. u.p[t] = n /\ t # u.root
      BY <1>2, <3>2 DEF z
    <3> QED BY <3>1, <3>3
  <2> QED BY <2>2, <2>3 DEF Rosy
<1>10. ~ v.red[v.root]
  BY <1>2, <1>3 DEF z
<1> QED BY <1>8, <1>9, <1>10 DEF Calm

(* A red leaf n comes at the side s of x.                                    *)
LEMMA LeafHues ==
  ASSUME NEW u \in Trees, NEW M, Linked(u, M), NEW height, Calm(u, M, height),
         NEW s \in Sides, NEW x \in M, u.ch[s][x] = Nil, NEW n \in Nodes \ M,
         NEW v, v.root = u.root, Grown(u.ch, u.p, M, s, x, n, v.ch, v.p),
         v.red = [u.red EXCEPT ![n] = TRUE]
  PROVE  Raised(v, M \union {n}, n, [height EXCEPT ![n] = 0])
<1> DEFINE M2 == M \union {n}
           height2 == [height EXCEPT ![n] = 0]
<1>1. /\ M \subseteq All /\ Nil \in All /\ Nil \notin M /\ n \in All /\ n # Nil /\ n \notin M
      /\ u.root \in M /\ \A m \in M : \A d \in Sides : u.ch[d][m] \in M \union {Nil}
  BY NodesAssumption DEF Linked, All
<1>2. Level(u.ch, u.red, M, height)
  BY LevelFacts DEF Calm
<1>3. /\ height \in [All -> Nat] /\ height[Nil] = 0
      /\ \A m \in M : \A d \in Sides : height[m] = height[u.ch[d][m]] + Weight(u.red[m])
  BY <1>2 DEF Level
<1>4. /\ height2 \in [All -> Nat] /\ height2[n] = 0
      /\ \A m \in All \ {n} : height2[m] = height[m]
  BY <1>1, <1>3
<1> HIDE DEF height2
<1>5. \A m \in All : v.red[m] <=> m = n \/ u.red[m]
  BY <1>1 DEF Trees
<1>6. /\ \A d \in Sides : v.ch[d][n] = Nil
      /\ \A m \in M : \A d \in Sides :
            v.ch[d][m] = IF m = x /\ d = s THEN n ELSE u.ch[d][m]
  BY <1>1 DEF Grown
<1>7. Level(v.ch, v.red, M2, height2)
  <2>1. height2[Nil] = 0
    BY <1>1, <1>3, <1>4
  <2>2. ASSUME NEW d \in Sides PROVE height2[n] = height2[v.ch[d][n]] + Weight(v.red[n])
    BY <1>1, <1>4, <1>5, <1>6, <2>1 DEF Weight
  <2>3. ASSUME NEW m \in M, NEW d \in Sides
        PROVE  height2[m] = height2[v.ch[d][m]] + Weight(v.red[m])
    <3>1. height2[v.ch[d][m]] = height[u.ch[d][m]]
      BY <1>1, <1>3, <1>4, <1>6
    <3>2. height2[m] = height[m] /\ Weight(v.red[m]) = Weight(u.red[m])
      BY <1>1, <1>4, <1>5 DEF Weight
    <3> QED BY <1>3, <3>1, <3>2
  <2> QED BY <1>4, <2>1, <2>2, <2>3 DEF Level
<1>8. Heights(v.ch, v.red, M2, {}, height2)
  <2>1. M2 \subseteq All /\ \A m \in M2 : \A d \in Sides : v.ch[d][m] \in All
    BY <1>1, <1>6
  <2> QED BY <1>7, <2>1, NoLack
<1>9. Rosy(v.ch, v.red, M2, Places(v.ch, M2, n))
  <2>1. /\ ~ u.red[Nil]
        /\ \A m \in M : \A d \in Sides : ~ (u.red[m] /\ u.red[u.ch[d][m]])
    BY DEF Calm, Rosy
  <2>2. ~ v.red[Nil]
    BY <1>1, <1>5, <2>1
  <2>3. ASSUME NEW m \in M2, NEW d \in Sides, v.red[m], v.red[v.ch[d][m]]
        PROVE  v.ch[d][m] = n
    <3>1. m # n
      BY <1>6, <2>2, <2>3
    <3>2. SUFFICES ASSUME v.ch[d][m] # n PROVE FALSE
      OBVIOUS
    <3>3. v.ch[d][m] = u.ch[d][m] /\ m \in M
      BY <1>6, <3>1, <3>2
    <3> QED BY <1>1, <1>5, <2>1, <2>3, <3>1, <3>2, <3>3
  <2> QED BY <2>2, <2>3 DEF Rosy, Places
<1>10. v.red[n] /\ ~ v.red[v.root]
  BY <1>1, <1>5 DEF Calm
<1> QED BY <1>8, <1>9, <1>10 DEF Raised, height2

(* The first node.                                                           *)
LEMMA FirstHues ==
  ASSUME NEW n \in Nodes, NEW v, v.root = n, \A d \in Sides : v.ch[d][n] = Nil,
         ~ v.red[n], ~ v.red[Nil]
  PROVE  Calm(v, {n}, [m \in All |-> IF m = n THEN 1 ELSE 0])
<1> DEFINE height == [m \in All |-> IF m = n THEN 1 ELSE 0]
<1>1. n \in All /\ Nil \in All /\ n # Nil
  BY NodesAssumption DEF All
<1>2. height \in [All -> Nat] /\ height[Nil] = 0 /\ height[n] = 1
  BY <1>1
<1> HIDE DEF height
<1>3. Level(v.ch, v.red, {n}, height)
  BY <1>2 DEF Level, Weight
<1>4. Heights(v.ch, v.red, {n}, {}, height)
  BY <1>1, <1>3, NoLack
<1>5. Rosy(v.ch, v.red, {n}, {})
  BY DEF Rosy
<1> QED BY <1>4, <1>5 DEF Calm, height

(* Who is who in a turn of the loop that goes down's repair, and what is     *)
(* missing: t and its sibling w below q.                                     *)
Kin(u, M, t, q, d, w) ==
    /\ q \in M /\ d \in Sides /\ u.p[t] = q /\ t # q
    /\ u.ch[d][q] = t /\ u.ch[Other(d)][q] = w
    /\ t \in M \union {Nil} /\ t # u.root /\ ~ u.red[t] /\ u.root \in M /\ ~ u.red[u.root]
    /\ w \in M /\ w # q /\ w # t /\ w # u.root /\ u.p[w] = q

Deep(ch, red, M, t, q, d, height) ==
    /\ height \in [All -> Nat] /\ height[Nil] = 0
    /\ height[q] = height[t] + 1 + Weight(red[q])
    /\ \A n \in M : \A s \in Sides :
          ~ (n = q /\ s = d) => height[n] = height[ch[s][n]] + Weight(red[n])

Calmly(ch, red, M) ==
    ~ red[Nil] /\ \A n \in M : \A s \in Sides : ~ (red[n] /\ red[ch[s][n]])

(* The heights when one black node is missing below q at the side d.         *)
LEMMA DeepHeights ==
  ASSUME NEW ch, NEW red, NEW M, M \subseteq All, \A n \in M : \A s \in Sides : ch[s][n] \in All,
         NEW t \in All, NEW q \in M, NEW d \in Sides, ch[d][q] = t, NEW height
  PROVE  Heights(ch, red, M, {<<q, d>>}, height) <=> Deep(ch, red, M, t, q, d, height)
<1>1. ASSUME height \in [All -> Nat], NEW n \in M, NEW s \in Sides
      PROVE  height[ch[s][n]] + Weight(<<n, s>> \notin {<<q, d>>}) + Weight(red[n])
                = IF n = q /\ s = d THEN height[t] + 1 + Weight(red[q])
                                    ELSE height[ch[s][n]] + Weight(red[n])
  <2>1. Weight(<<n, s>> \notin {<<q, d>>}) = IF n = q /\ s = d THEN 1 ELSE 0
    <3>1. <<n, s>> \in {<<q, d>>} <=> n = q /\ s = d
      OBVIOUS
    <3> QED BY <3>1 DEF Weight
  <2>2. height[ch[s][n]] \in Nat /\ Weight(red[n]) \in Nat /\ height[t] \in Nat
    BY <1>1 DEF Weight
  <2> HIDE DEF Weight
  <2>3. CASE n = q /\ s = d
    BY <2>1, <2>2, <2>3
  <2>4. CASE ~ (n = q /\ s = d)
    BY <2>1, <2>2, <2>4
  <2> QED BY <2>3, <2>4
<1>2. CASE height \in [All -> Nat]
  <2>1. \A n \in M : \A s \in Sides :
           height[ch[s][n]] + Weight(<<n, s>> \notin {<<q, d>>}) + Weight(red[n])
                = IF n = q /\ s = d THEN height[t] + 1 + Weight(red[q])
                                    ELSE height[ch[s][n]] + Weight(red[n])
    BY <1>1, <1>2
  <2>2. ASSUME Heights(ch, red, M, {<<q, d>>}, height) PROVE Deep(ch, red, M, t, q, d, height)
    <3>1. \A n \in M : \A s \in Sides :
             height[n] = IF n = q /\ s = d THEN height[t] + 1 + Weight(red[q])
                                           ELSE height[ch[s][n]] + Weight(red[n])
      BY <2>1, <2>2 DEF Heights
    <3>2. height[Nil] = 0
      BY <2>2 DEF Heights
    <3>3. height[q] = height[t] + 1 + Weight(red[q])
      BY <3>1
    <3>4. \A n \in M : \A s \in Sides :
             ~ (n = q /\ s = d) => height[n] = height[ch[s][n]] + Weight(red[n])
      BY <3>1
    <3> QED BY <1>2, <3>2, <3>3, <3>4 DEF Deep
  <2>3. ASSUME Deep(ch, red, M, t, q, d, height) PROVE Heights(ch, red, M, {<<q, d>>}, height)
    <3>1. \A n \in M : \A s \in Sides :
             height[n] = IF n = q /\ s = d THEN height[t] + 1 + Weight(red[q])
                                           ELSE height[ch[s][n]] + Weight(red[n])
      BY <2>3 DEF Deep
    <3>2. \A n \in M : \A s \in Sides :
             height[n] = height[ch[s][n]] + Weight(<<n, s>> \notin {<<q, d>>}) + Weight(red[n])
      BY <2>1, <3>1
    <3> QED BY <2>3, <3>2 DEF Heights, Deep
  <2> QED BY <2>2, <2>3
<1>3. CASE height \notin [All -> Nat]
  BY <1>3 DEF Heights, Deep
<1> QED BY <1>2, <1>3

(* The side of a node, be it the sentinel, whose sibling is another.         *)
LEMMA SideIs ==
  ASSUME NEW u, NEW t, NEW q, NEW d \in Sides, u.p[t] = q, u.ch[d][q] = t,
         u.ch[Other(d)][q] # t
  PROVE  SideOf(u, t) = d
BY DEF SideOf, Sides, Other

(* Who is around a black node t that is short of a black one: its sibling is *)
(* a node.                                                                   *)
LEMMA KinFacts ==
  ASSUME NEW u \in Trees, NEW M, NEW R, NEW sub,
         Strict(R), Shape(u.root, u.ch, u.p, M, R, sub),
         NEW t, NEW height, Lowered(u, M, t, height), t # u.root, ~ u.red[t]
  PROVE  /\ Kin(u, M, t, u.p[t], SideOf(u, t), u.ch[Other(SideOf(u, t))][u.p[t]])
         /\ Deep(u.ch, u.red, M, t, u.p[t], SideOf(u, t), height)
         /\ Calmly(u.ch, u.red, M)
<1> DEFINE q == u.p[t]
           d == SideOf(u, t)
           w == u.ch[Other(d)][q]
<1>1. Linked(u, M)
  BY LinkedFacts
<1>2. q \in M /\ u.ch[d][q] = t /\ t \in M \union {Nil} /\ u.root \in M /\ ~ u.red[u.root]
  BY DEF Lowered
<1>3. d \in Sides /\ Other(d) \in Sides /\ Other(d) # d
  BY SideCases DEF SideOf, Sides, Other
<1>4. Gap(u, t) = {<<q, d>>}
  BY DEF Gap
<1> HIDE DEF q, d, w
<1>5. M \subseteq All /\ Nil \notin M /\ t \in All /\ \A n \in M : \A s \in Sides : u.ch[s][n] \in All
  BY <1>1, <1>2 DEF Linked
<1>6. Deep(u.ch, u.red, M, t, q, d, height)
  <2>1. Heights(u.ch, u.red, M, {<<q, d>>}, height)
    BY <1>4 DEF Lowered
  <2> QED BY <1>2, <1>3, <1>5, <2>1, DeepHeights
<1>7. Calmly(u.ch, u.red, M)
  <2>1. /\ ~ u.red[Nil]
        /\ \A n \in M : \A s \in Sides : u.red[n] /\ u.red[u.ch[s][n]] =>
              <<n, s>> \in {<<q, d>>} \union ({t} \X Sides)
    BY <1>4 DEF Lowered, Rosy
  <2>2. ASSUME NEW n \in M, NEW s \in Sides, u.red[n], u.red[u.ch[s][n]] PROVE FALSE
    <3>1. (n = q /\ s = d) \/ n = t
      BY <2>1, <2>2
    <3> QED BY <1>2, <2>2, <3>1
  <2> QED BY <2>1, <2>2 DEF Calmly
<1>8. w # Nil /\ w # t
  <2>1. /\ height[q] = height[t] + 1 + Weight(u.red[q])
        /\ height[q] = height[w] + Weight(u.red[q])
    BY <1>2, <1>3, <1>6 DEF Deep, w
  <2>2. height \in [All -> Nat] /\ height[Nil] = 0 /\ w \in All
    BY <1>2, <1>3, <1>5, <1>6 DEF Deep, w
  <2>3. height[t] \in Nat /\ height[w] \in Nat /\ Weight(u.red[q]) \in Nat
    BY <1>5, <2>2 DEF Weight
  <2>4. height[w] = height[t] + 1
    BY <2>1, <2>3
  <2> QED BY <2>2, <2>3, <2>4
<1>9. w \in M /\ w # q /\ w # u.root /\ u.p[w] = q
  <2>1. u.ch[Other(d)][q] # Nil
    BY <1>8 DEF w
  <2> QED BY <1>2, <1>3, <2>1, ChildFacts DEF w
<1>10. t # q
  <2>1. CASE t = Nil
    BY <1>2, <1>5, <2>1
  <2>2. CASE t # Nil
    BY <1>2, <1>3, <2>2, ChildFacts
  <2> QED BY <2>1, <2>2
<1>11. Kin(u, M, t, q, d, w)
  BY <1>2, <1>3, <1>8, <1>9, <1>10 DEF Kin, q, w
<1> QED BY <1>6, <1>7, <1>11 DEF q, d, w

(* The other way: a black node is missing from t up to q.                    *)
LEMMA LoweredBy ==
  ASSUME NEW v, NEW M, Linked(v, M), NEW t \in M \union {Nil}, v.root \in M, t # v.root,
         ~ v.red[v.root], NEW q \in M, NEW d \in Sides, v.p[t] = q, v.ch[d][q] = t,
         SideOf(v, t) = d, NEW height, Deep(v.ch, v.red, M, t, q, d, height), ~ v.red[Nil],
         \A n \in M : \A s \in Sides :
            v.red[n] /\ v.red[v.ch[s][n]] => (n = q /\ s = d) \/ n = t
  PROVE  Lowered(v, M, t, height)
<1>1. Gap(v, t) = {<<q, d>>}
  BY DEF Gap
<1>2. Heights(v.ch, v.red, M, {<<q, d>>}, height)
  <2>1. M \subseteq All /\ t \in All /\ \A n \in M : \A s \in Sides : v.ch[s][n] \in All
    BY DEF Linked
  <2> QED BY <2>1, DeepHeights
<1>3. Rosy(v.ch, v.red, M, {<<q, d>>} \union ({t} \X Sides))
  BY DEF Rosy
<1> QED BY <1>1, <1>2, <1>3 DEF Lowered

LoweredSome(v, M, t) == \E height : Lowered(v, M, t, height)

SiblingPainted(u, w, q, x) ==
    /\ u.red[w] /\ x \in Trees /\ x.root = u.root /\ x.ch = u.ch /\ x.p = u.p
    /\ x.red = [u.red EXCEPT ![w] = FALSE, ![q] = TRUE]

(* The sibling w is red: it comes above q, and a black nephew beside t.      *)
LEMMA RedSiblingHues ==
  ASSUME NEW u \in Trees, NEW M, NEW R, NEW sub,
         Strict(R), Shape(u.root, u.ch, u.p, M, R, sub),
         NEW t, NEW height, NEW q, NEW d, NEW w, Kin(u, M, t, q, d, w),
         Deep(u.ch, u.red, M, t, q, d, height), Calmly(u.ch, u.red, M),
         NEW x, SiblingPainted(u, w, q, x),
         NEW v, Rotated(x, M, d, q, v), Linked(v, M)
  PROVE  LoweredSome(v, M, t)
<1>0. /\ u.red[w] /\ x \in Trees /\ x.root = u.root /\ x.ch = u.ch /\ x.p = u.p
      /\ x.red = [u.red EXCEPT ![w] = FALSE, ![q] = TRUE]
  BY DEF SiblingPainted
<1> USE <1>0
<1> DEFINE o == Other(d)
           b == u.ch[d][w]
           f == u.ch[o][w]
<1>1. /\ q \in M /\ w \in M /\ q # w /\ t # w /\ t # q /\ w # Nil /\ q # Nil
      /\ d \in Sides /\ o \in Sides /\ d # o /\ \A e \in Sides : e = d \/ e = o
      /\ u.ch[d][q] = t /\ u.ch[o][q] = w /\ t \in M \union {Nil}
  BY SideCases, NodesAssumption DEF Kin, Shape, Links
<1>2. Linked(u, M)
  BY LinkedFacts
<1>3. M \subseteq All /\ Nil \in All /\ Nil \notin M /\ t \in All
  BY <1>1, <1>2 DEF Linked
<1>4. Turned(u.root, u.ch, u.p, M, d, q, w, b, v.root, v.ch, v.p) /\ v.red = x.red
      /\ v.p[Nil] = u.p[Nil]
  BY <1>1 DEF Rotated
<1>5. Around(u.root, u.ch, u.p, M, d, q, w, b, v.ch)
  BY <1>1, <1>4, TurnedFacts
<1>6. b \in M \union {Nil} /\ f \in M \union {Nil} /\ b # w /\ b # q /\ f # w /\ f # q
      /\ b \in All /\ f \in All
  BY <1>1, <1>3, <1>5 DEF Around
<1>7. /\ v.ch[d][q] = t /\ v.ch[o][q] = b /\ v.ch[d][w] = q /\ v.ch[o][w] = f
      /\ \A m \in M \ {q, w} : \A e \in Sides :
            \/ u.ch[e][m] = q /\ v.ch[e][m] = w
            \/ v.ch[e][m] = u.ch[e][m] /\ u.ch[e][m] # q /\ u.ch[e][m] # w
  BY <1>1, <1>5 DEF Around
<1>8. /\ height \in [All -> Nat] /\ height[Nil] = 0
      /\ height[q] = height[t] + 1 + Weight(u.red[q])
      /\ height[q] = height[w] + Weight(u.red[q])
      /\ height[w] = height[b] + Weight(u.red[w])
      /\ height[w] = height[f] + Weight(u.red[w])
      /\ \A n \in M \ {q} : \A e \in Sides : height[n] = height[u.ch[e][n]] + Weight(u.red[n])
  <2>1. /\ height \in [All -> Nat] /\ height[Nil] = 0
        /\ height[q] = height[t] + 1 + Weight(u.red[q])
        /\ \A n \in M : \A e \in Sides :
              ~ (n = q /\ e = d) => height[n] = height[u.ch[e][n]] + Weight(u.red[n])
    BY DEF Deep
  <2>2. height[q] = height[w] + Weight(u.red[q])
    BY <1>1, <2>1
  <2>3. height[w] = height[b] + Weight(u.red[w]) /\ height[w] = height[f] + Weight(u.red[w])
    BY <1>1, <2>1
  <2> QED BY <2>1, <2>2, <2>3
<1> HIDE DEF b, f
<1>9. ~ u.red[q] /\ ~ u.red[b] /\ ~ u.red[f] /\ ~ u.red[t] /\ ~ u.red[Nil]
  BY <1>1 DEF Calmly, Kin, b, f
<1> HIDE DEF o
<1>10. /\ height[t] \in Nat /\ height[w] = height[t] + 1 /\ height[q] = height[t] + 2
       /\ height[b] = height[t] + 1 /\ height[f] = height[t] + 1
  <2>1. Weight(u.red[q]) = 1 /\ Weight(u.red[w]) = 0
    BY <1>9 DEF Weight
  <2>2. height[t] \in Nat /\ height[w] \in Nat /\ height[b] \in Nat /\ height[f] \in Nat
    BY <1>1, <1>3, <1>6, <1>8
  <2>3. height[q] = height[t] + 1 + 1 /\ height[q] = height[w] + 1
        /\ height[w] = height[b] + 0 /\ height[w] = height[f] + 0
    BY <1>8, <2>1
  <2> QED BY <2>2, <2>3
<1>11. b # Nil /\ b # t
  BY <1>8, <1>10
<1>12. \A n \in All : v.red[n] <=> n = q \/ (n # w /\ u.red[n])
  BY <1>1, <1>3, <1>4 DEF Trees
<1> DEFINE height2 == [height EXCEPT ![w] = height[q], ![q] = height[w]]
<1>13. /\ height2 \in [All -> Nat] /\ height2[w] = height[q] /\ height2[q] = height[w]
       /\ \A n \in All \ {w, q} : height2[n] = height[n]
  BY <1>1, <1>3, <1>8
<1> HIDE DEF height2
<1>14. Deep(v.ch, v.red, M, t, q, d, height2)
  <2>1. height2[Nil] = 0 /\ height2[t] = height[t] /\ height2[b] = height[b] /\ height2[f] = height[f]
    BY <1>1, <1>3, <1>6, <1>8, <1>13
  <2>2. Weight(v.red[q]) = 0 /\ Weight(v.red[w]) = 1
    BY <1>1, <1>3, <1>12 DEF Weight
  <2>3. height2[q] = height2[t] + 1 + Weight(v.red[q])
    BY <1>10, <1>13, <2>1, <2>2
  <2>4. ASSUME NEW n \in M, NEW e \in Sides, ~ (n = q /\ e = d)
        PROVE  height2[n] = height2[v.ch[e][n]] + Weight(v.red[n])
    <3>1. CASE n = q
      <4>1. v.ch[e][n] = b
        BY <1>1, <1>7, <2>4, <3>1
      <4> QED BY <1>10, <1>13, <2>1, <2>2, <3>1, <4>1
    <3>2. CASE n = w
      <4>1. v.ch[e][n] = q \/ v.ch[e][n] = f
        BY <1>1, <1>7, <3>2
      <4>2. height2[v.ch[e][n]] = height[t] + 1
        BY <1>10, <1>13, <2>1, <4>1
      <4> QED BY <1>10, <1>13, <2>2, <3>2, <4>2
    <3>3. CASE n # q /\ n # w
      <4>1. height2[v.ch[e][n]] = height[u.ch[e][n]]
        <5>1. u.ch[e][n] \in All
          BY <1>2 DEF Linked
        <5> QED BY <1>7, <1>13, <3>3, <5>1
      <4>2. height2[n] = height[n] /\ Weight(v.red[n]) = Weight(u.red[n])
        BY <1>3, <1>12, <1>13, <3>3 DEF Weight
      <4> QED BY <1>8, <3>3, <4>1, <4>2
    <3> QED BY <3>1, <3>2, <3>3
  <2> QED BY <1>13, <2>1, <2>3, <2>4 DEF Deep
<1>15. v.p[t] = q
  <2>1. u.p[t] = q
    BY DEF Kin
  <2>2. CASE t = Nil
    BY <1>4, <2>1, <2>2
  <2>3. CASE t \in M
    BY <1>1, <1>4, <1>11, <2>1, <2>3 DEF Turned
  <2> QED BY <1>1, <2>2, <2>3
<1>16. SideOf(v, t) = d
  BY <1>1, <1>7, <1>11, <1>15, SideIs DEF o
<1>17. v.root \in M /\ t # v.root /\ ~ v.red[v.root]
  <2>1. v.root = (IF q = u.root THEN w ELSE u.root) /\ u.root \in M /\ t # u.root /\ ~ u.red[u.root]
    BY <1>4 DEF Turned, Kin
  <2> QED BY <1>1, <1>3, <1>12, <2>1
<1>18. ASSUME NEW n \in M, NEW e \in Sides, v.red[n], v.red[v.ch[e][n]] PROVE FALSE
  <2>1. CASE n = q
    <3>1. v.ch[e][n] = t \/ v.ch[e][n] = b
      BY <1>1, <1>7, <2>1
    <3> QED BY <1>1, <1>3, <1>6, <1>9, <1>12, <1>18, <3>1
  <2>2. CASE n # q
    <3>1. n # w /\ u.red[n]
      BY <1>3, <1>12, <1>18, <2>2
    <3>2. v.ch[e][n] # w
      BY <1>1, <1>3, <1>12, <1>18
    <3>3. v.ch[e][n] = u.ch[e][n] /\ u.ch[e][n] # q /\ u.ch[e][n] \in All
      BY <1>2, <1>7, <2>2, <3>1, <3>2 DEF Linked
    <3>4. u.red[u.ch[e][n]]
      BY <1>12, <1>18, <3>3
    <3> QED BY <3>1, <3>4 DEF Calmly
  <2> QED BY <2>1, <2>2
<1>19. ~ v.red[Nil]
  BY <1>1, <1>3, <1>9, <1>12
<1>20. Lowered(v, M, t, height2)
  BY <1>1, <1>7, <1>14, <1>15, <1>16, <1>17, <1>18, <1>19, LoweredBy
<1> QED BY <1>20 DEF LoweredSome

NephewsPainted(u, w, v) ==
    /\ ~ u.red[w] /\ \A e \in Sides : ~ u.red[u.ch[e][w]]
    /\ v \in Trees /\ v.root = u.root /\ v.ch = u.ch /\ v.p = u.p
    /\ v.red = [u.red EXCEPT ![w] = TRUE]

(* The nephews are black: the sibling turns red, and q is now missing one.   *)
LEMMA BlackNephewsHues ==
  ASSUME NEW u \in Trees, NEW M, NEW R, NEW sub,
         Strict(R), Shape(u.root, u.ch, u.p, M, R, sub),
         NEW t, NEW height, NEW q, NEW d, NEW w, Kin(u, M, t, q, d, w),
         Deep(u.ch, u.red, M, t, q, d, height), Calmly(u.ch, u.red, M),
         NEW v, NephewsPainted(u, w, v)
  PROVE  LoweredSome(v, M, q)
<1>0. /\ ~ u.red[w] /\ \A e \in Sides : ~ u.red[u.ch[e][w]]
      /\ v \in Trees /\ v.root = u.root /\ v.ch = u.ch /\ v.p = u.p
      /\ v.red = [u.red EXCEPT ![w] = TRUE]
  BY DEF NephewsPainted
<1> USE <1>0
<1> DEFINE o == Other(d)
<1>1. /\ q \in M /\ w \in M /\ q # w /\ t # w /\ t # q /\ w # Nil /\ q # Nil
      /\ d \in Sides /\ o \in Sides /\ d # o /\ \A e \in Sides : e = d \/ e = o
      /\ u.ch[d][q] = t /\ u.ch[o][q] = w /\ t \in M \union {Nil} /\ u.p[w] = q
      /\ w # u.root /\ u.root \in M /\ ~ u.red[u.root]
  BY SideCases, NodesAssumption DEF Kin, Shape, Links
<1>2. Linked(u, M)
  BY LinkedFacts
<1>3. M \subseteq All /\ Nil \in All /\ Nil \notin M /\ t \in All
      /\ \A n \in M : \A e \in Sides :
            u.ch[e][n] \in All /\ (u.ch[e][n] # Nil => u.p[u.ch[e][n]] = n)
  BY <1>1, <1>2 DEF Linked
<1> HIDE DEF o
<1>4. /\ height \in [All -> Nat] /\ height[Nil] = 0
      /\ height[q] = height[t] + 1 + Weight(u.red[q])
      /\ \A n \in M : \A e \in Sides :
            ~ (n = q /\ e = d) => height[n] = height[u.ch[e][n]] + Weight(u.red[n])
  BY DEF Deep
<1>5. \A n \in All : v.red[n] <=> n = w \/ u.red[n]
  BY <1>1, <1>3 DEF Trees
<1>6. /\ height[t] \in Nat /\ height[q] \in Nat /\ height[w] = height[t] + 1
      /\ height[q] = height[t] + 1 + Weight(u.red[q])
      /\ \A e \in Sides : height[u.ch[e][w]] = height[t]
  <2>1. height[t] \in Nat /\ height[q] \in Nat /\ height[w] \in Nat /\ Weight(u.red[q]) \in Nat
    BY <1>1, <1>3, <1>4 DEF Weight
  <2>2. height[q] = height[w] + Weight(u.red[q])
    BY <1>1, <1>4
  <2>3. height[w] = height[t] + 1
    BY <1>4, <2>1, <2>2
  <2>4. ASSUME NEW e \in Sides PROVE height[u.ch[e][w]] = height[t]
    <3>1. height[w] = height[u.ch[e][w]] + 1 /\ height[u.ch[e][w]] \in Nat
      BY <1>1, <1>3, <1>4 DEF Weight
    <3> QED BY <2>1, <2>3, <3>1
  <2> QED BY <1>4, <2>1, <2>3, <2>4
<1> DEFINE height2 == [height EXCEPT ![w] = height[w] - 1, ![q] = height[q] - 1]
<1>7. /\ height2 \in [All -> Nat] /\ height2[w] = height[t]
      /\ height2[q] = height[t] + Weight(u.red[q])
      /\ \A n \in All \ {w, q} : height2[n] = height[n]
  <2>1. height[w] - 1 = height[t] /\ height[q] - 1 = height[t] + Weight(u.red[q])
        /\ height[q] - 1 \in Nat
    BY <1>6 DEF Weight
  <2> QED BY <1>1, <1>3, <1>4, <1>6, <2>1
<1> HIDE DEF height2
<1>8. /\ height2[Nil] = 0 /\ height2[t] = height[t]
      /\ \A e \in Sides : height2[u.ch[e][w]] = height[t]
  <2>1. ASSUME NEW e \in Sides PROVE u.ch[e][w] # w /\ u.ch[e][w] # q
    <3>1. u.ch[e][w] # Nil => u.ch[e][w] # w
      BY <1>1, ChildFacts
    <3>2. u.ch[o][q] # Nil
      BY <1>1
    <3>3. u.ch[e][u.ch[o][q]] # q
      BY <1>1, <3>2, NoCycle
    <3> QED BY <1>1, <3>1, <3>3
  <2> QED BY <1>1, <1>3, <1>4, <1>6, <1>7, <2>1
<1>9. ASSUME NEW n \in M, NEW e \in Sides
      PROVE  /\ u.ch[e][n] # q => height2[n] = height2[u.ch[e][n]] + Weight(v.red[n])
             /\ u.ch[e][n] = q => height2[n] = height2[q] + 1 + Weight(v.red[n])
  <2>1. CASE n = q
    <3>1. u.ch[e][n] = t \/ u.ch[e][n] = w
      BY <1>1, <2>1
    <3>2. height2[u.ch[e][n]] = height[t] /\ u.ch[e][n] # q
      BY <1>1, <1>7, <1>8, <3>1
    <3>3. Weight(v.red[n]) = Weight(u.red[q])
      BY <1>1, <1>3, <1>5, <2>1 DEF Weight
    <3> QED BY <1>7, <2>1, <3>2, <3>3
  <2>2. CASE n = w
    <3>1. u.ch[e][n] # q
      <4>1. u.ch[o][q] # Nil
        BY <1>1
      <4>2. u.ch[e][u.ch[o][q]] # q
        BY <1>1, <4>1, NoCycle
      <4> QED BY <1>1, <2>2, <4>2
    <3>2. Weight(v.red[n]) = 0
      BY <1>1, <1>3, <1>5, <2>2 DEF Weight
    <3>3. height2[n] = height[t] /\ height2[u.ch[e][n]] = height[t] /\ height[t] \in Nat
      BY <1>6, <1>7, <1>8, <2>2
    <3>4. height2[n] = height2[u.ch[e][n]] + 0
      BY <3>3
    <3> QED BY <3>1, <3>2, <3>4
  <2>3. CASE n # q /\ n # w
    <3>1. height[n] = height[u.ch[e][n]] + Weight(u.red[n]) /\ height2[n] = height[n]
          /\ Weight(v.red[n]) = Weight(u.red[n])
      BY <1>3, <1>4, <1>5, <1>7, <2>3 DEF Weight
    <3>2. u.ch[e][n] # w
      BY <1>1, <1>3, <2>3
    <3>3. height[q] = height2[q] + 1
      <4>1. Weight(u.red[q]) \in Nat
        BY DEF Weight
      <4>2. height[t] \in Nat /\ height[q] = height[t] + 1 + Weight(u.red[q])
            /\ height2[q] = height[t] + Weight(u.red[q])
        BY <1>6, <1>7
      <4> QED BY <4>1, <4>2
    <3>4. u.ch[e][n] # q => height2[u.ch[e][n]] = height[u.ch[e][n]]
      BY <1>3, <1>7, <3>2
    <3>5. u.ch[e][n] = q => height2[n] = height2[q] + 1 + Weight(v.red[n])
      BY <3>1, <3>3
    <3> QED BY <3>1, <3>4, <3>5
  <2> QED BY <2>1, <2>2, <2>3
<1>10. ASSUME NEW n \in M, NEW e \in Sides, v.red[n], v.red[v.ch[e][n]] PROVE n = q
  <2>1. SUFFICES ASSUME n # q PROVE FALSE
    OBVIOUS
  <2>2. u.ch[e][n] # w
    BY <1>1, <1>3, <2>1
  <2>3. u.red[u.ch[e][n]]
    BY <1>3, <1>5, <1>10, <2>2
  <2>4. n # w
    BY <2>3
  <2> QED BY <1>3, <1>5, <1>10, <2>3, <2>4 DEF Calmly
<1>11. ~ v.red[Nil] /\ ~ v.red[v.root]
  BY <1>1, <1>3, <1>5 DEF Calmly
<1>12. CASE q = u.root
  <2>1. Gap(v, q) = {}
    BY <1>12 DEF Gap
  <2>2. Level(v.ch, v.red, M, height2)
    <3>1. ASSUME NEW n \in M, NEW e \in Sides
          PROVE  height2[n] = height2[v.ch[e][n]] + Weight(v.red[n])
      <4>1. v.ch[e][n] # q
        <5>1. u.ch[e][n] # Nil => u.ch[e][n] # u.root
          BY ChildFacts
        <5> QED BY <1>1, <1>12, <5>1
      <4> QED BY <1>9, <4>1
    <3> QED BY <1>7, <1>8, <3>1 DEF Level
  <2>3. Heights(v.ch, v.red, M, {}, height2)
    BY <1>2, <2>2, LevelFacts
  <2>4. Rosy(v.ch, v.red, M, {} \union ({q} \X Sides))
    BY <1>10, <1>11 DEF Rosy
  <2>5. Lowered(v, M, q, height2)
    BY <1>1, <1>11, <1>12, <2>1, <2>3, <2>4 DEF Lowered
  <2> QED BY <2>5 DEF LoweredSome
<1>13. CASE q # u.root
  <2> DEFINE g == u.p[q]
             s == SideOf(u, q)
  <2>1. Hangs(u.ch, M, q, s, g)
    BY <1>1, <1>13, SideOfFacts
  <2>2. SideOf(v, q) = s
    BY DEF SideOf
  <2> HIDE DEF g, s
  <2>3. /\ s \in Sides /\ g \in M /\ u.ch[s][g] = q
        /\ \A n \in M : \A e \in Sides : u.ch[e][n] = q <=> n = g /\ e = s
    BY <2>1 DEF Hangs
  <2>4. Deep(v.ch, v.red, M, q, g, s, height2)
    <3>1. height2[g] = height2[q] + 1 + Weight(v.red[g])
      BY <1>9, <2>3
    <3>2. ASSUME NEW n \in M, NEW e \in Sides, ~ (n = g /\ e = s)
          PROVE  height2[n] = height2[v.ch[e][n]] + Weight(v.red[n])
      <4>1. v.ch[e][n] # q
        BY <2>3, <3>2
      <4> QED BY <1>9, <4>1
    <3> QED BY <1>7, <1>8, <3>1, <3>2 DEF Deep
  <2>5. Linked(v, M)
    BY <1>2 DEF Linked
  <2>6. v.root \in M /\ q # v.root /\ v.p[q] = g /\ v.ch[s][g] = q /\ q \in M \union {Nil}
    BY <1>1, <1>13, <2>3 DEF g
  <2>7. Lowered(v, M, q, height2)
    BY <1>10, <1>11, <2>2, <2>3, <2>4, <2>5, <2>6, LoweredBy
  <2> QED BY <2>7 DEF LoweredSome
<1> QED BY <1>12, <1>13

NearPainted(u, w, d, y, x) ==
    /\ ~ u.red[w] /\ y = u.ch[d][w] /\ u.red[y] /\ ~ u.red[u.ch[Other(d)][w]]
    /\ x \in Trees /\ x.root = u.root /\ x.ch = u.ch /\ x.p = u.p
    /\ x.red = [u.red EXCEPT ![y] = FALSE, ![w] = TRUE]

(* The near nephew y is red: it comes above the sibling, and far of it.      *)
LEMMA RedNearHues ==
  ASSUME NEW u \in Trees, NEW M, NEW R, NEW sub,
         Strict(R), Shape(u.root, u.ch, u.p, M, R, sub),
         NEW t, NEW height, NEW q, NEW d, NEW w, Kin(u, M, t, q, d, w),
         Deep(u.ch, u.red, M, t, q, d, height), Calmly(u.ch, u.red, M),
         NEW y, NEW x, NearPainted(u, w, d, y, x),
         NEW v, Rotated(x, M, Other(d), w, v), Linked(v, M)
  PROVE  \E height2 : Lowered(v, M, t, height2)
<1>a. y = u.ch[d][w]
  BY DEF NearPainted
<1>b. ~ u.red[w] /\ u.red[y] /\ ~ u.red[u.ch[Other(d)][w]]
  BY DEF NearPainted
<1>c. /\ x \in Trees /\ x.root = u.root /\ x.ch = u.ch /\ x.p = u.p
      /\ x.red = [u.red EXCEPT ![y] = FALSE, ![w] = TRUE]
  BY DEF NearPainted
<1> DEFINE o == Other(d)
           b == u.ch[o][y]
           a == u.ch[d][y]
           f == u.ch[o][w]
<1>1. /\ q \in M /\ w \in M /\ q # w /\ t # w /\ t # q /\ w # Nil /\ q # Nil
      /\ d \in Sides /\ o \in Sides /\ d # o /\ Other(o) = d /\ \A e \in Sides : e = d \/ e = o
      /\ u.ch[d][q] = t /\ u.ch[o][q] = w /\ t \in M \union {Nil} /\ u.p[w] = q /\ u.p[t] = q
      /\ w # u.root /\ u.root \in M /\ ~ u.red[u.root] /\ t # u.root
  BY SideCases, NodesAssumption DEF Kin, Shape, Links
<1>2. Linked(u, M) /\ y # Nil
  BY <1>a, <1>b, LinkedFacts DEF Calmly
<1>3. M \subseteq All /\ Nil \in All /\ Nil \notin M /\ t \in All /\ y \in M /\ u.p[y] = w /\ y # u.root
  BY <1>1, <1>2, <1>a DEF Linked
<1>4. Turned(u.root, u.ch, u.p, M, o, w, y, b, v.root, v.ch, v.p) /\ v.red = x.red
      /\ v.p[Nil] = u.p[Nil]
  BY <1>1, <1>a, <1>c DEF Rotated
<1>5. Around(u.root, u.ch, u.p, M, o, w, y, b, v.ch)
  BY <1>1, <1>2, <1>4, <1>a, TurnedFacts
<1>6. b \in M \union {Nil} /\ f \in M \union {Nil} /\ a \in M \union {Nil} /\ y # w
      /\ b # w /\ b # y /\ f # w /\ f # y /\ a # w /\ a # y /\ b \in All /\ f \in All /\ a \in All
  BY <1>1, <1>3, <1>5 DEF Around
<1>7. /\ v.ch[o][w] = f /\ v.ch[d][w] = b /\ v.ch[o][y] = w /\ v.ch[d][y] = a
      /\ \A m \in M \ {w, y} : \A e \in Sides :
            \/ u.ch[e][m] = w /\ v.ch[e][m] = y
            \/ v.ch[e][m] = u.ch[e][m] /\ u.ch[e][m] # w /\ u.ch[e][m] # y
  BY <1>1, <1>5 DEF Around
<1>8. /\ height \in [All -> Nat] /\ height[Nil] = 0
      /\ height[q] = height[t] + 1 + Weight(u.red[q])
      /\ height[w] = height[y] + Weight(u.red[w])
      /\ height[w] = height[f] + Weight(u.red[w])
      /\ height[y] = height[a] + Weight(u.red[y])
      /\ height[y] = height[b] + Weight(u.red[y])
      /\ \A n \in M : \A e \in Sides :
              ~ (n = q /\ e = d) => height[n] = height[u.ch[e][n]] + Weight(u.red[n])
  <2>1. /\ height \in [All -> Nat] /\ height[Nil] = 0
        /\ height[q] = height[t] + 1 + Weight(u.red[q])
        /\ \A n \in M : \A e \in Sides :
              ~ (n = q /\ e = d) => height[n] = height[u.ch[e][n]] + Weight(u.red[n])
    BY DEF Deep
  <2>2. y # q
    <3>1. u.ch[o][q] # Nil /\ u.ch[d][u.ch[o][q]] # q
      BY <1>1, NoCycle
    <3> QED BY <1>1, <1>a, <3>1
  <2>3. height[w] = height[y] + Weight(u.red[w]) /\ height[w] = height[f] + Weight(u.red[w])
    BY <1>1, <1>a, <2>1
  <2>4. height[y] = height[a] + Weight(u.red[y]) /\ height[y] = height[b] + Weight(u.red[y])
    BY <1>1, <1>3, <2>1, <2>2
  <2> QED BY <2>1, <2>3, <2>4
<1>9. ~ u.red[a] /\ ~ u.red[b] /\ ~ u.red[f] /\ ~ u.red[t] /\ ~ u.red[Nil]
  BY <1>1, <1>3, <1>a, <1>b DEF Calmly, Kin
<1> HIDE DEF a, b, f, o
<1>10. /\ height[y] \in Nat /\ height[w] = height[y] + 1
       /\ height[a] = height[y] /\ height[b] = height[y] /\ height[f] = height[y]
  <2>1. Weight(u.red[w]) = 1 /\ Weight(u.red[y]) = 0
    BY <1>b DEF Weight
  <2>2. height[y] \in Nat /\ height[a] \in Nat /\ height[b] \in Nat /\ height[f] \in Nat
    BY <1>3, <1>6, <1>8
  <2>3. height[w] = height[y] + 1 /\ height[w] = height[f] + 1
        /\ height[y] = height[a] + 0 /\ height[y] = height[b] + 0
    BY <1>8, <2>1
  <2> QED BY <2>2, <2>3
<1>11. t # y /\ q # y
  <2>1. u.ch[o][q] # Nil /\ u.ch[d][u.ch[o][q]] # q
    BY <1>1, NoCycle
  <2> QED BY <1>1, <1>3, <1>a, <2>1
<1>12. \A n \in All : v.red[n] <=> n = w \/ (n # y /\ u.red[n])
  BY <1>1, <1>3, <1>4, <1>6, <1>c DEF Trees
<1> DEFINE height2 == [height EXCEPT ![w] = height[y], ![y] = height[w]]
<1>13. /\ height2 \in [All -> Nat] /\ height2[w] = height[y] /\ height2[y] = height[w]
       /\ \A n \in All \ {w, y} : height2[n] = height[n]
  BY <1>1, <1>3, <1>6, <1>8
<1> HIDE DEF height2
<1>14. \A n \in M \ {w, y} : \A e \in Sides :
          height2[v.ch[e][n]] = height[u.ch[e][n]] /\ height2[n] = height[n]
          /\ Weight(v.red[n]) = Weight(u.red[n])
  <2> SUFFICES ASSUME NEW n \in M \ {w, y}, NEW e \in Sides
               PROVE  height2[v.ch[e][n]] = height[u.ch[e][n]] /\ height2[n] = height[n]
                      /\ Weight(v.red[n]) = Weight(u.red[n])
    OBVIOUS
  <2>1. u.ch[e][n] \in All
    BY <1>2 DEF Linked
  <2>2. height2[v.ch[e][n]] = height[u.ch[e][n]]
    BY <1>7, <1>13, <2>1
  <2>3. height2[n] = height[n] /\ Weight(v.red[n]) = Weight(u.red[n])
    BY <1>3, <1>12, <1>13 DEF Weight
  <2> QED BY <2>2, <2>3
<1>15. Deep(v.ch, v.red, M, t, q, d, height2)
  <2>1. height2[Nil] = 0 /\ height2[t] = height[t] /\ height2[a] = height[a]
        /\ height2[b] = height[b] /\ height2[f] = height[f]
    BY <1>1, <1>3, <1>6, <1>8, <1>11, <1>13
  <2>2. Weight(v.red[w]) = 0 /\ Weight(v.red[y]) = 1
    BY <1>1, <1>3, <1>6, <1>12 DEF Weight
  <2>3. height2[q] = height2[t] + 1 + Weight(v.red[q])
    BY <1>1, <1>8, <1>11, <1>14, <2>1
  <2>4. ASSUME NEW n \in M, NEW e \in Sides, ~ (n = q /\ e = d)
        PROVE  height2[n] = height2[v.ch[e][n]] + Weight(v.red[n])
    <3>1. CASE n = w
      <4>1. v.ch[e][n] = b \/ v.ch[e][n] = f
        BY <1>1, <1>7, <3>1
      <4> QED BY <1>10, <1>13, <2>1, <2>2, <3>1, <4>1
    <3>2. CASE n = y
      <4>1. v.ch[e][n] = w \/ v.ch[e][n] = a
        BY <1>1, <1>7, <3>2
      <4>2. height2[v.ch[e][n]] = height[y]
        BY <1>10, <1>13, <2>1, <4>1
      <4> QED BY <1>10, <1>13, <2>2, <3>2, <4>2
    <3>3. CASE n # w /\ n # y
      BY <1>8, <1>14, <2>4, <3>3
    <3> QED BY <3>1, <3>2, <3>3
  <2> QED BY <1>13, <2>1, <2>3, <2>4 DEF Deep
<1>16. v.p[t] = q
  <2>1. CASE t = Nil
    BY <1>1, <1>4, <2>1
  <2>2. CASE t \in M
    <3>1. t # b
      <4>1. b # Nil => u.p[b] = y
        BY <1>1, <1>2, <1>3 DEF Linked, b
      <4> QED BY <1>1, <1>3, <1>11, <2>2, <4>1
    <3> QED BY <1>1, <1>4, <1>11, <2>2, <3>1 DEF Turned
  <2> QED BY <1>1, <2>1, <2>2
<1>17. v.ch[d][q] = t /\ v.ch[o][q] = y
  BY <1>1, <1>7, <1>11
<1>18. SideOf(v, t) = d
  BY <1>1, <1>11, <1>16, <1>17, SideIs DEF o
<1>19. v.root = u.root /\ ~ v.red[v.root]
  <2>1. v.root = u.root
    BY <1>1, <1>4 DEF Turned
  <2> QED BY <1>1, <1>3, <1>12, <2>1
<1>20. ASSUME NEW n \in M, NEW e \in Sides, v.red[n], v.red[v.ch[e][n]] PROVE FALSE
  <2>1. CASE n = w
    <3>1. v.ch[e][n] = b \/ v.ch[e][n] = f
      BY <1>1, <1>7, <2>1
    <3> QED BY <1>6, <1>9, <1>12, <1>20, <3>1
  <2>2. CASE n # w
    <3>1. n # y /\ u.red[n]
      BY <1>3, <1>12, <1>20, <2>2
    <3>2. v.ch[e][n] # y
      BY <1>3, <1>6, <1>12, <1>20
    <3>3. v.ch[e][n] = u.ch[e][n] /\ u.ch[e][n] # w /\ u.ch[e][n] \in All
      BY <1>2, <1>7, <2>2, <3>1, <3>2 DEF Linked
    <3>4. u.red[u.ch[e][n]]
      BY <1>12, <1>20, <3>3
    <3> QED BY <3>1, <3>4 DEF Calmly
  <2> QED BY <2>1, <2>2
<1>21. ~ v.red[Nil]
  BY <1>1, <1>3, <1>9, <1>12
<1>22. Lowered(v, M, t, height2)
  BY <1>1, <1>15, <1>16, <1>17, <1>18, <1>19, <1>20, <1>21, LoweredBy
<1> QED BY <1>22

FarPainted(u, w, q, d, f, hue, x) ==
    /\ ~ u.red[w] /\ f = u.ch[Other(d)][w] /\ u.red[f]
    /\ x \in Trees /\ x.root = u.root /\ x.ch = u.ch /\ x.p = u.p
    /\ hue \in BOOLEAN /\ hue = u.red[q]
    /\ x.red = [u.red EXCEPT ![w] = hue, ![q] = FALSE, ![f] = FALSE]

(* The far nephew f is red: the last turn.                                   *)
LEMMA RedFarHues ==
  ASSUME NEW u \in Trees, NEW M, NEW R, NEW sub,
         Strict(R), Shape(u.root, u.ch, u.p, M, R, sub),
         NEW t, NEW height, NEW q, NEW d, NEW w, Kin(u, M, t, q, d, w),
         Deep(u.ch, u.red, M, t, q, d, height), Calmly(u.ch, u.red, M),
         NEW f, NEW hue, NEW x, FarPainted(u, w, q, d, f, hue, x),
         NEW v, Rotated(x, M, d, q, v), Linked(v, M)
  PROVE  LoweredSome(v, M, v.root)
<1>a. f = u.ch[Other(d)][w]
  BY DEF FarPainted
<1>b. ~ u.red[w] /\ u.red[f]
  BY DEF FarPainted
<1>c. /\ x \in Trees /\ x.root = u.root /\ x.ch = u.ch /\ x.p = u.p
      /\ hue \in BOOLEAN /\ hue = u.red[q]
      /\ x.red = [u.red EXCEPT ![w] = hue, ![q] = FALSE, ![f] = FALSE]
  BY DEF FarPainted
<1> DEFINE o == Other(d)
           b == u.ch[d][w]
<1>1. /\ q \in M /\ w \in M /\ q # w /\ t # w /\ t # q /\ w # Nil /\ q # Nil
      /\ d \in Sides /\ o \in Sides /\ d # o /\ \A e \in Sides : e = d \/ e = o
      /\ u.ch[d][q] = t /\ u.ch[o][q] = w /\ t \in M \union {Nil} /\ u.p[w] = q /\ u.p[t] = q
      /\ w # u.root /\ u.root \in M /\ ~ u.red[u.root] /\ t # u.root
  BY SideCases, NodesAssumption DEF Kin, Shape, Links
<1>2. Linked(u, M) /\ f # Nil
  BY <1>a, <1>b, LinkedFacts DEF Calmly
<1>3. M \subseteq All /\ Nil \in All /\ Nil \notin M /\ t \in All /\ f \in M /\ u.p[f] = w /\ f # u.root
  BY <1>1, <1>2, <1>a DEF Linked
<1>4. Turned(u.root, u.ch, u.p, M, d, q, w, b, v.root, v.ch, v.p) /\ v.red = x.red
  BY <1>1, <1>c DEF Rotated
<1>5. Around(u.root, u.ch, u.p, M, d, q, w, b, v.ch)
  BY <1>1, <1>4, TurnedFacts
<1>6. b \in M \union {Nil} /\ b # w /\ b # q /\ f # w /\ f # q /\ b \in All
  BY <1>1, <1>3, <1>5, <1>a DEF Around
<1>7. /\ v.ch[d][q] = t /\ v.ch[o][q] = b /\ v.ch[d][w] = q /\ v.ch[o][w] = f
      /\ \A m \in M \ {q, w} : \A e \in Sides :
            \/ u.ch[e][m] = q /\ v.ch[e][m] = w
            \/ v.ch[e][m] = u.ch[e][m] /\ u.ch[e][m] # q /\ u.ch[e][m] # w
  BY <1>1, <1>5, <1>a DEF Around
<1>8. /\ height \in [All -> Nat] /\ height[Nil] = 0
      /\ height[q] = height[t] + 1 + Weight(u.red[q])
      /\ height[q] = height[w] + Weight(u.red[q])
      /\ height[w] = height[b] + Weight(u.red[w])
      /\ height[w] = height[f] + Weight(u.red[w])
      /\ \A n \in M : \A e \in Sides :
              ~ (n = q /\ e = d) => height[n] = height[u.ch[e][n]] + Weight(u.red[n])
  <2>1. /\ height \in [All -> Nat] /\ height[Nil] = 0
        /\ height[q] = height[t] + 1 + Weight(u.red[q])
        /\ \A n \in M : \A e \in Sides :
              ~ (n = q /\ e = d) => height[n] = height[u.ch[e][n]] + Weight(u.red[n])
    BY DEF Deep
  <2>2. height[q] = height[w] + Weight(u.red[q])
    BY <1>1, <1>a, <2>1
  <2>3. height[w] = height[b] + Weight(u.red[w]) /\ height[w] = height[f] + Weight(u.red[w])
    BY <1>1, <1>a, <2>1
  <2> QED BY <2>1, <2>2, <2>3
<1>9. ~ u.red[t] /\ ~ u.red[Nil]
      /\ \A n \in M : \A e \in Sides : ~ (u.red[n] /\ u.red[u.ch[e][n]])
  BY DEF Calmly, Kin
<1> HIDE DEF b, o
<1>10. /\ height[t] \in Nat /\ height[w] = height[t] + 1 /\ height[b] = height[t]
       /\ height[f] = height[t]
  <2>1. Weight(u.red[w]) = 1 /\ Weight(u.red[q]) \in Nat
    BY <1>b, <1>c DEF Weight
  <2>2. height[t] \in Nat /\ height[w] \in Nat /\ height[b] \in Nat /\ height[f] \in Nat
    BY <1>1, <1>3, <1>6, <1>8
  <2>3. height[w] = height[b] + 1 /\ height[w] = height[f] + 1
    BY <1>8, <2>1
  <2>4. height[t] + 1 + Weight(u.red[q]) = height[w] + Weight(u.red[q])
    BY <1>8
  <2> QED BY <2>1, <2>2, <2>3, <2>4
<1>11. t # f
  BY <1>1, <1>3, <1>a
<1>12. \A n \in All : v.red[n] <=> \/ n = w /\ u.red[q]
                                   \/ n # w /\ n # q /\ n # f /\ u.red[n]
  <2>1. u.red \in [All -> BOOLEAN] /\ q \in All /\ w \in All /\ f \in All
    BY <1>1, <1>3 DEF Trees
  <2>2. v.red = [u.red EXCEPT ![w] = hue, ![q] = FALSE, ![f] = FALSE]
    BY <1>4, <1>c
  <2>3. v.red[w] <=> u.red[q]
    BY <1>1, <1>6, <1>c, <2>1, <2>2
  <2>4. ~ v.red[q] /\ ~ v.red[f]
    BY <1>1, <1>6, <2>1, <2>2
  <2>5. \A n \in All : n # w /\ n # q /\ n # f => v.red[n] = u.red[n]
    BY <2>1, <2>2
  <2> QED BY <1>1, <1>6, <2>3, <2>4, <2>5
<1> DEFINE height2 == [height EXCEPT ![w] = height[q], ![q] = height[w], ![f] = height[w]]
<1>13. /\ height2 \in [All -> Nat] /\ height2[w] = height[q] /\ height2[q] = height[w]
       /\ height2[f] = height[w] /\ \A n \in All \ {w, q, f} : height2[n] = height[n]
  BY <1>1, <1>3, <1>6, <1>8
<1> HIDE DEF height2
<1>14. ASSUME NEW n \in M, NEW e \in Sides
       PROVE  height2[n] = height2[v.ch[e][n]] + Weight(v.red[n])
  <2>1. CASE n = q
    <3>1. v.ch[e][n] = t \/ v.ch[e][n] = b
      BY <1>1, <1>7, <2>1
    <3>2. b # f
      <4>1. u.ch[o][w] # Nil /\ u.ch[Other(o)][w] # u.ch[o][w] /\ Other(o) = d
        BY <1>1, <1>2, <1>a, ChildFacts, SideCases DEF o
      <4> QED BY <1>a, <4>1 DEF b, o
    <3>3. height2[v.ch[e][n]] = height[t]
      BY <1>1, <1>3, <1>6, <1>10, <1>11, <1>13, <3>1, <3>2
    <3>4. Weight(v.red[n]) = 1
      BY <1>1, <1>3, <1>12, <2>1 DEF Weight
    <3> QED BY <1>10, <1>13, <2>1, <3>3, <3>4
  <2>2. CASE n = w
    <3>1. v.ch[e][n] = q \/ v.ch[e][n] = f
      BY <1>1, <1>7, <2>2
    <3>2. height2[v.ch[e][n]] = height[w]
      BY <1>13, <3>1
    <3>3. Weight(v.red[n]) = Weight(u.red[q])
      BY <1>1, <1>3, <1>12, <2>2 DEF Weight
    <3> QED BY <1>8, <1>13, <2>2, <3>2, <3>3
  <2>3. CASE n = f
    <3>1. v.ch[e][n] = u.ch[e][n] /\ u.ch[e][n] # q /\ u.ch[e][n] # w
      <4>1. u.ch[e][n] # q
        <5>1. u.ch[e][n] = q => u.p[q] = f
          BY <1>1, <1>2, <2>3 DEF Linked
        <5>2. u.ch[o][q] # Nil /\ u.ch[o][w] # Nil
          BY <1>1, <1>2, <1>a DEF o
        <5>3. u.ch[e][n] # q
          <6>1. SUFFICES ASSUME u.ch[e][f] = q PROVE FALSE
            BY <2>3
          <6>2. q \in sub[f] /\ f \in sub[w] /\ w \in sub[w] /\ q \in sub[q]
            <7>1. sub[Nil] = {} /\ \A m \in M : \A k \in M :
                     k \in sub[m] <=> k = m \/ \E s \in Sides : k \in sub[u.ch[s][m]]
              BY DEF Shape, Spans
            <7>2. \A m \in M : m \in sub[m]
              BY <7>1
            <7>3. f \in sub[w]
              BY <1>1, <1>3, <1>a, <7>1, <7>2 DEF o
            <7>4. q \in sub[f]
              BY <1>1, <1>3, <6>1, <7>1, <7>2
            <7> QED BY <1>1, <7>2, <7>3, <7>4
          <6>3. sub[f] \subseteq sub[w]
            BY <1>1, <6>2, Nested
          <6>4. q \in sub[u.ch[o][q]]
            BY <1>1, <6>2, <6>3
          <6>5. Prec(R, o, q, q)
            BY <1>1, <6>4 DEF Shape, Sorted
          <6>6. q \in Nodes
            BY <1>1 DEF Shape, Links
          <6> QED BY <1>1, <6>5, <6>6, PrecFacts
        <5> QED BY <5>3
      <4> QED BY <1>1, <1>3, <1>6, <1>7, <2>3, <4>1
    <3>2. u.ch[e][n] \in All /\ u.ch[e][n] # f
      <4>1. u.ch[e][n] # Nil => u.ch[e][n] # n
        BY <1>3, <2>3, ChildFacts
      <4> QED BY <1>2, <1>3, <2>3, <4>1 DEF Linked
    <3>3. height[f] = height[u.ch[e][f]] + Weight(u.red[f])
      BY <1>3, <1>6, <1>8
    <3>4. Weight(u.red[f]) = 0 /\ Weight(v.red[n]) = 1
      BY <1>3, <1>6, <1>12, <1>b, <2>3 DEF Weight
    <3>5. height2[v.ch[e][n]] = height[u.ch[e][f]] /\ height[u.ch[e][f]] \in Nat
      BY <1>8, <1>13, <2>3, <3>1, <3>2
    <3>6. height[f] = height[u.ch[e][f]] + 0
      BY <3>3, <3>4
    <3>7. height[u.ch[e][f]] = height[t]
      BY <1>10, <3>5, <3>6
    <3>8. height2[n] = height[t] + 1
      BY <1>10, <1>13, <2>3
    <3> QED BY <3>4, <3>5, <3>7, <3>8
  <2>4. CASE n # q /\ n # w /\ n # f
    <3>1. u.ch[e][n] \in All /\ u.ch[e][n] # f
      BY <1>2, <1>3, <2>4 DEF Linked
    <3>2. height2[v.ch[e][n]] = height[u.ch[e][n]]
      BY <1>7, <1>13, <2>4, <3>1
    <3>3. height2[n] = height[n] /\ Weight(v.red[n]) = Weight(u.red[n])
      BY <1>3, <1>12, <1>13, <2>4 DEF Weight
    <3> QED BY <1>8, <2>4, <3>2, <3>3
  <2> QED BY <2>1, <2>2, <2>3, <2>4
<1>15. Heights(v.ch, v.red, M, {}, height2)
  <2>1. height2[Nil] = 0
    BY <1>1, <1>3, <1>8, <1>13
  <2>2. Level(v.ch, v.red, M, height2)
    BY <1>13, <1>14, <2>1 DEF Level
  <2> QED BY <2>2, LevelFacts
<1>16. v.root \in M /\ ~ v.red[v.root]
  <2>1. v.root = IF q = u.root THEN w ELSE u.root
    BY <1>4 DEF Turned
  <2> QED BY <1>1, <1>3, <1>12, <2>1
<1>17. ASSUME NEW n \in M, NEW e \in Sides, v.red[n], v.red[v.ch[e][n]] PROVE FALSE
  <2>1. CASE n = w
    <3>1. v.ch[e][n] = q \/ v.ch[e][n] = f
      BY <1>1, <1>7, <2>1
    <3> QED BY <1>1, <1>3, <1>6, <1>12, <1>17, <3>1
  <2>2. CASE n # w
    <3>1. n # q /\ u.red[n]
      BY <1>3, <1>12, <1>17, <2>2
    <3>2. CASE u.ch[e][n] = q
      <4>1. v.ch[e][n] = w
        BY <1>7, <2>2, <3>1, <3>2
      <4>2. u.red[q]
        BY <1>1, <1>3, <1>12, <1>17, <4>1
      <4> QED BY <1>9, <3>1, <3>2, <4>2
    <3>3. CASE u.ch[e][n] # q
      <4>1. v.ch[e][n] = u.ch[e][n] /\ u.ch[e][n] # w /\ u.ch[e][n] \in All
        BY <1>2, <1>7, <2>2, <3>1, <3>3 DEF Linked
      <4>2. u.red[u.ch[e][n]]
        BY <1>12, <1>17, <4>1
      <4> QED BY <1>9, <3>1, <4>2
    <3> QED BY <3>2, <3>3
  <2> QED BY <2>1, <2>2
<1>18. ~ v.red[Nil]
  BY <1>1, <1>3, <1>9, <1>12
<1>19. Gap(v, v.root) = {}
  BY DEF Gap
<1>20. Rosy(v.ch, v.red, M, {} \union ({v.root} \X Sides))
  BY <1>17, <1>18 DEF Rosy
<1> QED BY <1>15, <1>16, <1>19, <1>20 DEF Lowered, LoweredSome

(* The node the loop stops at is painted black.                              *)
LEMMA NodePainted ==
  ASSUME NEW u \in Trees, NEW M, NEW R, NEW sub,
         Strict(R), Shape(u.root, u.ch, u.p, M, R, sub),
         NEW t, NEW height, Lowered(u, M, t, height), t = u.root \/ u.red[t],
         NEW v, v.root = u.root, v.ch = u.ch, v.red = [u.red EXCEPT ![t] = FALSE]
  PROVE  \E height2 : Calm(v, M, height2)
<1>1. Linked(u, M)
  BY LinkedFacts
<1>2. M \subseteq All /\ Nil \in All /\ Nil \notin M /\ t \in All
      /\ u.root \in M /\ ~ u.red[u.root]
      /\ \A n \in M : \A e \in Sides : u.ch[e][n] \in All
  BY <1>1 DEF Linked, Lowered
<1>3. \A n \in All : v.red[n] <=> n # t /\ u.red[n]
  BY <1>2 DEF Trees
<1>4. ~ v.red[Nil] /\ ~ v.red[v.root]
  BY <1>2, <1>3 DEF Lowered, Rosy
<1>5. CASE t = u.root
  <2>1. Gap(u, t) = {}
    BY <1>5 DEF Gap
  <2>2. Level(u.ch, u.red, M, height)
    BY <1>1, <2>1, LevelFacts DEF Lowered
  <2>3. \A n \in M : Weight(v.red[n]) = Weight(u.red[n])
    <3>1. \A n \in M : v.red[n] <=> u.red[n]
      BY <1>2, <1>3, <1>5
    <3> QED BY <3>1 DEF Weight
  <2>4. Level(v.ch, v.red, M, height)
    <3>1. /\ height \in [All -> Nat] /\ height[Nil] = 0
          /\ \A n \in M : \A e \in Sides : height[n] = height[u.ch[e][n]] + Weight(u.red[n])
      BY <2>2 DEF Level
    <3>2. ASSUME NEW n \in M, NEW e \in Sides
          PROVE  height[n] = height[u.ch[e][n]] + Weight(v.red[n])
      <4>1. Weight(v.red[n]) = Weight(u.red[n])
        BY <2>3
      <4>2. height[n] = height[u.ch[e][n]] + Weight(u.red[n])
        BY <3>1
      <4> QED BY <4>1, <4>2
    <3>3. Level(u.ch, v.red, M, height)
      BY <3>1, <3>2 DEF Level
    <3> QED BY <3>3
  <2>5. Heights(v.ch, v.red, M, {}, height)
    BY <1>1, <2>4, LevelFacts
  <2>6. \A n \in M : \A e \in Sides : u.red[n] /\ u.red[u.ch[e][n]] => n = t
    BY <2>1 DEF Lowered, Rosy
  <2>7. Rosy(v.ch, v.red, M, {})
    BY <1>2, <1>3, <1>4, <2>6 DEF Rosy
  <2> QED BY <1>4, <2>5, <2>7 DEF Calm
<1>6. CASE t # u.root
  <2> DEFINE q == u.p[t]
             d == SideOf(u, t)
  <2>1. u.red[t] /\ t \in M
    BY <1>6 DEF Lowered, Rosy
  <2>2. Hangs(u.ch, M, t, d, q)
    BY <1>6, <2>1, SideOfFacts
  <2>3. Gap(u, t) = {<<q, d>>}
    BY <1>6 DEF Gap
  <2> HIDE DEF q, d
  <2>4. /\ d \in Sides /\ q \in M /\ u.ch[d][q] = t
        /\ \A n \in M : \A e \in Sides : u.ch[e][n] = t <=> n = q /\ e = d
    BY <2>2 DEF Hangs
  <2>5. Deep(u.ch, u.red, M, t, q, d, height)
    <3>1. Heights(u.ch, u.red, M, {<<q, d>>}, height)
      BY <2>3 DEF Lowered
    <3> QED BY <1>2, <2>4, <3>1, DeepHeights
  <2>6. /\ height \in [All -> Nat] /\ height[Nil] = 0
        /\ height[q] = height[t] + 1 + Weight(u.red[q])
        /\ \A n \in M : \A e \in Sides :
              ~ (n = q /\ e = d) => height[n] = height[u.ch[e][n]] + Weight(u.red[n])
    BY <2>5 DEF Deep
  <2>7. t # q /\ t # Nil /\ \A e \in Sides : u.ch[e][t] # t
    <3>1. t # Nil
      BY <1>2, <2>1
    <3>2. t # q
      BY <2>4, <3>1, ChildFacts
    <3> QED BY <2>1, <2>4, <3>1, <3>2
  <2> DEFINE height2 == [height EXCEPT ![t] = height[t] + 1]
  <2>8. /\ height2 \in [All -> Nat] /\ height2[t] = height[t] + 1 /\ height[t] \in Nat
        /\ \A n \in All \ {t} : height2[n] = height[n]
    BY <1>2, <2>6
  <2> HIDE DEF height2
  <2>9. ASSUME NEW n \in M, NEW e \in Sides
        PROVE  height2[n] = height2[u.ch[e][n]] + Weight(v.red[n])
    <3>1. CASE n = t
      <4>1. height[t] = height[u.ch[e][t]] + Weight(u.red[t])
        BY <2>1, <2>6, <2>7
      <4>2. Weight(u.red[t]) = 0 /\ Weight(v.red[n]) = 1
        BY <1>2, <1>3, <2>1, <3>1 DEF Weight
      <4>3. height2[u.ch[e][n]] = height[u.ch[e][t]] /\ height[u.ch[e][t]] \in Nat
        BY <1>2, <2>1, <2>6, <2>7, <2>8, <3>1
      <4>4. height[t] = height[u.ch[e][t]] + 0
        BY <4>1, <4>2
      <4>5. height2[n] = height[u.ch[e][t]] + 1
        BY <2>8, <3>1, <4>3, <4>4
      <4> QED BY <4>2, <4>3, <4>5
    <3>2. CASE n = q /\ e = d
      <4>1. height2[u.ch[e][n]] = height[t] + 1 /\ height2[n] = height[q]
        BY <1>2, <2>4, <2>7, <2>8, <3>2
      <4>2. Weight(v.red[n]) = Weight(u.red[q])
        BY <1>2, <1>3, <2>4, <2>7, <3>2 DEF Weight
      <4> QED BY <2>6, <4>1, <4>2
    <3>3. CASE n # t /\ ~ (n = q /\ e = d)
      <4>1. height2[u.ch[e][n]] = height[u.ch[e][n]] /\ height2[n] = height[n]
        BY <1>2, <2>4, <2>8, <3>3
      <4>2. Weight(v.red[n]) = Weight(u.red[n])
        BY <1>2, <1>3, <3>3 DEF Weight
      <4> QED BY <2>6, <3>3, <4>1, <4>2
    <3> QED BY <3>1, <3>2, <3>3
  <2>10. Heights(v.ch, v.red, M, {}, height2)
    <3>1. height2[Nil] = 0
      BY <1>2, <2>6, <2>7, <2>8
    <3>2. Level(u.ch, v.red, M, height2)
      BY <2>8, <2>9, <3>1 DEF Level
    <3> QED BY <1>1, <3>2, LevelFacts
  <2>11. \A n \in M : \A e \in Sides :
            u.red[n] /\ u.red[u.ch[e][n]] => (n = q /\ e = d) \/ n = t
    BY <2>3 DEF Lowered, Rosy
  <2>12. Rosy(v.ch, v.red, M, {})
    <3>1. ASSUME NEW n \in M, NEW e \in Sides, v.red[n], v.red[u.ch[e][n]] PROVE FALSE
      <4>1. n # t /\ u.red[n] /\ u.ch[e][n] # t /\ u.red[u.ch[e][n]]
        BY <1>2, <1>3, <3>1
      <4> QED BY <2>4, <2>11, <4>1
    <3> QED BY <1>4, <3>1 DEF Rosy
  <2> QED BY <1>4, <2>10, <2>12 DEF Calm
<1> QED BY <1>5, <1>6

-------------------------------------------------------------------------------
(* The colours when a node goes.                                             *)

===============================================================================
