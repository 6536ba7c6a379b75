---------------------------- MODULE ConnMemoryProofs ---------------------------
(***************************************************************************)
(* Proofs about ConnMemory, and about the pools and the chains it is made  *)
(* of, for any number of connections and pieces, any sizes, and any calls  *)
(* of malloc() that fail; and about SendPath, the bytes that go out on one *)
(* of the connections.                                                     *)
(***************************************************************************)
EXTENDS ConnMemory, SendPath, FunctionTheorems, FiniteSetTheorems, SequenceTheorems, TLAPS

-------------------------------------------------------------------------------
(* Every set of natural numbers has a least element: what the recursion in a *)
(* library operator computes is proved from it, as the first place where it  *)
(* would compute something else.                                             *)

Below == {ss \in Nat \X Nat : ss[1] < ss[2]}

LEMMA BelowWellFounded == IsWellFoundedOn(Below, Nat)
BY NatLessThanWellFounded DEF OpToRel, Below

LEMMA BelowPair ==
  ASSUME NEW x \in Nat, NEW y \in Nat, y < x
  PROVE  <<y, x>> \in Below
<1>1. <<y, x>> \in Nat \X Nat
  OBVIOUS
<1>2. <<y, x>>[1] = y /\ <<y, x>>[2] = x
  OBVIOUS
<1> QED BY <1>1, <1>2 DEF Below

LEMMA Least ==
  ASSUME NEW S \in SUBSET Nat, S # {}
  PROVE  \E m \in S : \A k \in S : m <= k
<1>1. \E x \in S : \A y \in S : ~ (<<y, x>> \in Below)
  BY BelowWellFounded, WFMin
<1>2. PICK x \in S : \A y \in S : ~ (<<y, x>> \in Below)
  BY <1>1
<1>3. ASSUME NEW y \in S PROVE x <= y
  <2>1. x \in Nat /\ y \in Nat
    OBVIOUS
  <2>2. ~ (<<y, x>> \in Below)
    BY <1>2
  <2>3. ~ (y < x)
    BY <2>1, <2>2, BelowPair
  <2> QED BY <2>1, <2>3
<1> QED BY <1>3

LEMMA MinFacts ==
  ASSUME NEW S \in SUBSET Nat, S # {}
  PROVE  Min(S) \in S /\ \A k \in S : Min(S) <= k
BY Least DEF Min

-------------------------------------------------------------------------------
(* Where the pieces are.                                                     *)

ItemType ==
    [piece : Pieces, len : Nat \ {0}, pos : Nat, first : BOOLEAN, before : Nat]

(* No element is twice in the sequence s; the sequences s and t share none.  *)
Once(s) == \A i, j \in 1..Len(s) : s[i] = s[j] => i = j
OncePiece(q) == \A i, j \in 1..Len(q) : q[i].piece = q[j].piece => i = j

ChainTypes ==
    /\ free \in Seq(Pieces) /\ count = Len(free)
    /\ chain \in [Conns -> Seq(ItemType)]
    /\ queued \in [Conns -> Nat]
    /\ out \in [Conns -> Seq(Nat)]

Placed ==
    /\ Once(free) /\ \A c \in Conns : OncePiece(chain[c])
    /\ \A c \in Conns : \A i \in 1..Len(free), j \in 1..Len(chain[c]) :
          free[i] # chain[c][j].piece
    /\ \A c, d \in Conns : c # d =>
          \A i \in 1..Len(chain[c]), j \in 1..Len(chain[d]) :
             chain[c][i].piece # chain[d][j].piece
    /\ \A p \in Pieces :
          \/ \E i \in 1..Len(free) : free[i] = p
          \/ \E c \in Conns : \E i \in 1..Len(chain[c]) : chain[c][i].piece = p

(* The bytes of a stream after its first a, up to its b-th.                  *)
Upto(a, b) == [i \in 1..(IF a < b THEN b - a ELSE 0) |-> a + i]
End(item) == item.before + item.len

(* How much of an item is sent when s bytes of the stream are.               *)
SentOf(item, s) ==
    IF s <= item.before THEN 0 ELSE IF s <= End(item) THEN s - item.before ELSE item.len

(* The chain q holds what follows the first s of e bytes.                    *)
Follows(q, s, e) ==
    /\ s <= e
    /\ q = <<>> => s = e
    /\ q # <<>> => q[1].before <= s /\ End(q[Len(q)]) = e
    /\ \A i \in 1..Len(q) : i > 1 => q[i].before = End(q[i - 1])
    /\ \A i \in 1..Len(q) : q[i].pos = SentOf(q[i], s)

InStep(c) == /\ out[c] = Upto(0, Len(out[c]))
             /\ Follows(chain[c], Len(out[c]), queued[c])

ChainInv == ChainTypes /\ Placed /\ \A c \in Conns : InStep(c)

-------------------------------------------------------------------------------
(* Who owns the memory.                                                      *)

Region == [obj : Nat, block : Nat, from : Nat, to : Nat]
ChunkType == [obj : Object, cap : Nat, last : Seq(Nat)]
PoolType == [max : Nat, chunks : Seq(ChunkType), large : SUBSET Object, taken : SUBSET Region]

(* A region lies behind the header of a block of the chunk k, in the part    *)
(* that was handed out.                                                      *)
In(r, k) ==
    /\ r.obj = k.obj /\ r.block \in 1..Len(k.last)
    /\ Header <= r.from /\ r.from <= r.to /\ r.to <= k.last[r.block]

GoodPool(p) ==
    /\ p \in PoolType /\ p.chunks # <<>>
    /\ \A i \in 1..Len(p.chunks) :
          /\ p.chunks[i].cap >= p.max + Extra /\ p.chunks[i].last # <<>>
          /\ \A b \in 1..Len(p.chunks[i].last) :
                Header <= p.chunks[i].last[b] /\ p.chunks[i].last[b] <= p.chunks[i].cap
    /\ \A i, j \in 1..Len(p.chunks) : p.chunks[i].obj = p.chunks[j].obj => i = j
    /\ \A r \in p.taken : \E i \in 1..Len(p.chunks) : In(r, p.chunks[i])
    /\ \A r, s \in p.taken :
          r # s /\ r.obj = s.obj /\ r.block = s.block => r.to <= s.from \/ s.to <= r.from

(* The memory as an operation of a pool finds it, when others own theirs.    *)
MemoryType ==
    [heap : SUBSET Nat, next : Object, left : Nat, orphans : SUBSET Nat,
     twice : BOOLEAN, pool : PoolType \cup {NoPool}, got : Region]

Holding(m, theirs) ==
    /\ m \in MemoryType /\ ~m.twice
    /\ m.heap = m.orphans \cup theirs \cup Objects(m.pool)
    /\ theirs \cap Objects(m.pool) = {} /\ theirs \cap m.orphans = {}
    /\ Objects(m.pool) \cap m.orphans = {}
    /\ \A x \in m.heap : x < m.next

Good(m, theirs) == Holding(m, theirs) /\ GoodPool(m.pool)

Owned(c) == Objects(pool[c]) \cup ({address[c]} \ {0})

(* The objects of everybody but c.                                           *)
Others(c) == UNION {Owned(d) : d \in Conns \ {c}}

MemoryInv ==
    /\ \A c \in Conns : pool[c] = NoPool \/ GoodPool(pool[c])
    /\ \A c \in Conns : /\ kind[c] # "tcp" => pool[c] = NoPool
                        /\ kind[c] = "tcp" => pool[c] # NoPool
                        /\ kind[c] # "udp" => address[c] = 0
                        /\ kind[c] = "udp" => address[c] # 0
    /\ DOMAIN kind = Conns /\ DOMAIN pool = Conns /\ DOMAIN address = Conns
    /\ blockSize \in BlockSizes /\ twice = FALSE
    /\ next \in Object /\ \A x \in heap : x \in Nat /\ x < next
    /\ HeapOwned

-------------------------------------------------------------------------------
(* Streams.                                                                  *)

LEMMA UptoFacts ==
  ASSUME NEW a \in Nat, NEW b \in Nat
  PROVE  /\ Upto(a, b) \in Seq(Nat)
         /\ Len(Upto(a, b)) = (IF a < b THEN b - a ELSE 0)
         /\ \A i \in 1..Len(Upto(a, b)) : Upto(a, b)[i] = a + i
<1> DEFINE n == IF a < b THEN b - a ELSE 0
<1>1. n \in Nat
  OBVIOUS
<1>2. Upto(a, b) = [i \in 1..n |-> a + i]
  BY DEF Upto
<1> HIDE DEF n
<1>3. \A i \in 1..n : a + i \in Nat
  OBVIOUS
<1>4. Upto(a, b) \in Seq(Nat) /\ Len(Upto(a, b)) = n
  BY <1>1, <1>2, <1>3
<1> QED BY <1>2, <1>4 DEF n

LEMMA UptoFull ==
  ASSUME NEW a \in Nat, NEW b \in Nat, a <= b
  PROVE  /\ Upto(a, b) \in Seq(Nat) /\ Len(Upto(a, b)) = b - a
         /\ \A i \in 1..(b - a) : Upto(a, b)[i] = a + i
<1>1. Upto(a, b) \in Seq(Nat)
  BY UptoFacts
<1>2. Len(Upto(a, b)) = b - a
  <2>1. Len(Upto(a, b)) = IF a < b THEN b - a ELSE 0
    BY UptoFacts
  <2> QED BY <2>1
<1>3. \A i \in 1..(b - a) : Upto(a, b)[i] = a + i
  <2>1. \A i \in 1..Len(Upto(a, b)) : Upto(a, b)[i] = a + i
    BY UptoFacts
  <2> QED BY <1>2, <2>1
<1> QED BY <1>1, <1>2, <1>3

(* The rest of the stream up to b, and what follows b.                       *)
LEMMA UptoJoins ==
  ASSUME NEW a \in Nat, NEW b \in Nat, NEW c \in Nat, a <= b, b <= c
  PROVE  Upto(a, b) \o Upto(b, c) = Upto(a, c)
<1>1. /\ Upto(a, b) \in Seq(Nat) /\ Len(Upto(a, b)) = b - a
      /\ \A i \in 1..(b - a) : Upto(a, b)[i] = a + i
  BY UptoFull
<1>2. /\ Upto(b, c) \in Seq(Nat) /\ Len(Upto(b, c)) = c - b
      /\ \A i \in 1..(c - b) : Upto(b, c)[i] = b + i
  BY UptoFull
<1>3. /\ Upto(a, c) \in Seq(Nat) /\ Len(Upto(a, c)) = c - a
      /\ \A i \in 1..(c - a) : Upto(a, c)[i] = a + i
  <2>1. a <= c
    OBVIOUS
  <2> QED BY <2>1, UptoFull
<1> DEFINE s == Upto(a, b)
           t == Upto(b, c)
<1> HIDE DEF s, t
<1>4. /\ s \o t \in Seq(Nat) /\ Len(s \o t) = Len(s) + Len(t)
      /\ \A i \in 1..(Len(s) + Len(t)) : (s \o t)[i] = IF i <= Len(s) THEN s[i] ELSE t[i - Len(s)]
  BY <1>1, <1>2, ConcatProperties DEF s, t
<1>5. Len(s) = b - a /\ Len(t) = c - b
  BY <1>1, <1>2 DEF s, t
<1>6. \A i \in 1..(c - a) : (s \o t)[i] = a + i
  <2> SUFFICES ASSUME NEW i \in 1..(c - a) PROVE (s \o t)[i] = a + i
    OBVIOUS
  <2>1. (s \o t)[i] = IF i <= b - a THEN s[i] ELSE t[i - (b - a)]
    BY <1>4, <1>5
  <2>2. CASE i <= b - a
    <3>1. i \in 1..(b - a)
      BY <2>2
    <3> QED BY <1>1, <2>1, <2>2, <3>1 DEF s
  <2>3. CASE ~(i <= b - a)
    <3>1. i - (b - a) \in 1..(c - b)
      BY <2>3
    <3>2. t[i - (b - a)] = b + (i - (b - a))
      BY <1>2, <3>1 DEF t
    <3> QED BY <2>1, <2>3, <3>2
  <2> QED BY <2>2, <2>3
<1>7. Len(s \o t) = c - a
  BY <1>4, <1>5
<1>8. s \o t = Upto(a, c)
  <2> DEFINE u == s \o t
             v == Upto(a, c)
  <2>1. u \in Seq(Nat) /\ v \in Seq(Nat) /\ Len(u) = Len(v)
    BY <1>3, <1>4, <1>7
  <2>2. \A i \in 1..Len(u) : u[i] = v[i]
    BY <1>3, <1>6, <1>7
  <2> HIDE DEF u, v
  <2>3. u = v
    BY <2>1, <2>2, SeqEqual
  <2> QED BY <2>3 DEF u, v
<1> QED BY <1>8 DEF s, t

LEMMA UptoEmpty ==
  ASSUME NEW a \in Nat, NEW b \in Nat, b <= a
  PROVE  Upto(a, b) = <<>>
<1>1. Upto(a, b) \in Seq(Nat)
  BY UptoFacts
<1>2. Len(Upto(a, b)) = 0
  <2>1. Len(Upto(a, b)) = IF a < b THEN b - a ELSE 0
    BY UptoFacts
  <2> QED BY <2>1
<1> QED BY <1>1, <1>2, EmptySeq

LEMMA EmptyJoins ==
  ASSUME NEW a \in Nat, NEW b \in Nat
  PROVE  <<>> \o Upto(a, b) = Upto(a, b) /\ Upto(a, b) \o <<>> = Upto(a, b)
BY UptoFacts, ConcatEmptySeq

LEMMA ItemFields ==
  ASSUME NEW x \in ItemType
  PROVE  /\ x.before \in Nat /\ x.len \in Nat \ {0} /\ x.pos \in Nat
         /\ End(x) \in Nat /\ End(x) = x.before + x.len
<1>1. x.before \in Nat /\ x.len \in Nat \ {0} /\ x.pos \in Nat
  BY DEF ItemType
<1> QED BY <1>1 DEF End

LEMMA SentOfNatural ==
  ASSUME NEW x \in ItemType, NEW s \in Nat
  PROVE  SentOf(x, s) \in Nat
<1>1. x.before \in Nat /\ x.len \in Nat
  BY ItemFields
<1> QED BY <1>1 DEF SentOf

(* The rest of an item of which s bytes of the stream cover a part.          *)
LEMMA RestIs ==
  ASSUME NEW x \in ItemType, NEW s \in Nat, x.pos = SentOf(x, s)
  PROVE  /\ x.before + x.pos \in Nat /\ End(x) \in Nat
         /\ Rest(x) = Upto(x.before + x.pos, End(x))
<1>1. x.before \in Nat /\ x.len \in Nat /\ x.pos \in Nat
  BY DEF ItemType
<1>2. x.pos <= x.len
  BY <1>1 DEF SentOf, End
<1>3. x.len - x.pos = IF x.before + x.pos < End(x) THEN End(x) - (x.before + x.pos) ELSE 0
  BY <1>1, <1>2 DEF End
<1>4. \A i \in 1..(x.len - x.pos) : x.before + x.pos + i = (x.before + x.pos) + i
  BY <1>1
<1>5. Rest(x) = Upto(x.before + x.pos, End(x))
  BY <1>3, <1>4 DEF Rest, Upto
<1> QED BY <1>1, <1>5 DEF End

(* One item more: what is unsent up to its end.                              *)
LEMMA RestJoins ==
  ASSUME NEW x \in ItemType, NEW s \in Nat, x.pos = SentOf(x, s)
  PROVE  Upto(s, x.before) \o Rest(x) = Upto(s, End(x))
<1>1. /\ x.before \in Nat /\ x.len \in Nat /\ x.pos \in Nat /\ End(x) \in Nat
      /\ x.before + x.pos \in Nat /\ End(x) = x.before + x.len
  BY DEF ItemType, End
<1>2. Rest(x) = Upto(x.before + x.pos, End(x))
  BY RestIs
<1>3. CASE s <= x.before
  <2>1. x.pos = 0 /\ x.before + x.pos = x.before /\ x.before <= End(x)
    BY <1>1, <1>3 DEF SentOf
  <2>2. Upto(s, x.before) \o Upto(x.before, End(x)) = Upto(s, End(x))
    BY <1>1, <1>3, <2>1, UptoJoins
  <2> QED BY <1>2, <2>1, <2>2
<1>4. CASE ~(s <= x.before) /\ s <= End(x)
  <2>1. x.before + x.pos = s /\ x.before <= s
    BY <1>1, <1>4 DEF SentOf
  <2>2. Upto(s, x.before) = <<>>
    BY <1>1, <2>1, UptoEmpty
  <2> QED BY <1>1, <1>2, <2>1, <2>2, EmptyJoins
<1>5. CASE ~(s <= x.before) /\ ~(s <= End(x))
  <2>1. x.before + x.pos = End(x) /\ x.before <= s /\ End(x) <= s
    BY <1>1, <1>5 DEF SentOf
  <2>2. Upto(s, x.before) = <<>> /\ Upto(End(x), End(x)) = <<>> /\ Upto(s, End(x)) = <<>>
    BY <1>1, <2>1, UptoEmpty
  <2>3. <<>> \o Upto(s, End(x)) = Upto(s, End(x))
    BY <1>1, EmptyJoins
  <2> QED BY <1>2, <2>1, <2>2, <2>3
<1> QED BY <1>3, <1>4, <1>5

(* FlattenSeq joins the rests of the items one after the other: the          *)
(* recursion that defines it has one solution, the stream up to each item's  *)
(* end.                                                                      *)
LEMMA UnsentIs ==
  ASSUME NEW q \in Seq(ItemType), NEW s \in Nat, NEW e \in Nat, Follows(q, s, e)
  PROVE  Unsent(q) = Upto(s, e)
<1>1. Len(q) \in Nat /\ DOMAIN q = 1..Len(q) /\ \A i \in 1..Len(q) : q[i] \in ItemType
  OBVIOUS
<1> DEFINE rests == [i \in DOMAIN q |-> Rest(q[i])]
           n == Len(q)
           Solves(f) == f = [i \in 1..Len(rests) |->
                                IF i = 1 THEN rests[i] ELSE f[i - 1] \o rests[i]]
           ends == [i \in 1..n |-> Upto(s, End(q[i]))]
<1>2. Len(rests) = n /\ \A i \in 1..n : rests[i] = Rest(q[i])
  BY <1>1
<1>3. CASE q = <<>>
  <2>1. Unsent(q) = <<>>
    BY <1>3 DEF Unsent, FlattenSeq
  <2>2. s = e
    BY <1>3 DEF Follows
  <2> QED BY <2>1, <2>2, UptoEmpty
<1>4. CASE q # <<>>
  <2>1. n \in Nat \ {0}
    BY <1>1, <1>4
  <2>2. Unsent(q) = (CHOOSE f : Solves(f))[n]
    BY <1>2, <2>1 DEF Unsent, FlattenSeq
  <2> HIDE DEF rests
  <2>3. ASSUME NEW i \in 1..n
        PROVE  /\ q[i] \in ItemType /\ q[i].pos = SentOf(q[i], s) /\ End(q[i]) \in Nat
               /\ i = 1 => Rest(q[i]) = Upto(s, End(q[i]))
               /\ i > 1 => i - 1 \in 1..n /\ Upto(s, End(q[i - 1])) \o Rest(q[i]) = Upto(s, End(q[i]))
    <3>1. q[i] \in ItemType /\ q[i].pos = SentOf(q[i], s)
      BY <1>1 DEF Follows
    <3>2. q[i].before \in Nat /\ q[i].len \in Nat /\ End(q[i]) \in Nat
      BY <3>1, ItemFields
    <3>3. Upto(s, q[i].before) \o Rest(q[i]) = Upto(s, End(q[i]))
      BY <3>1, RestJoins
    <3>4. ASSUME i = 1 PROVE Rest(q[i]) = Upto(s, End(q[i]))
      <4>1. q[i].before <= s
        BY <1>4, <3>4 DEF Follows
      <4>2. Upto(s, q[i].before) = <<>>
        BY <3>2, <4>1, UptoEmpty
      <4>3. Rest(q[i]) \in Seq(Nat)
        <5>1. q[i].before + q[i].pos \in Nat /\ Rest(q[i]) = Upto(q[i].before + q[i].pos, End(q[i]))
          BY <3>1, RestIs
        <5> QED BY <3>2, <5>1, UptoFacts
      <4> QED BY <3>3, <4>2, <4>3, ConcatEmptySeq
    <3>5. ASSUME i > 1 PROVE i - 1 \in 1..n /\ q[i].before = End(q[i - 1])
      BY <1>1, <3>5 DEF Follows
    <3> QED BY <3>1, <3>2, <3>3, <3>4, <3>5
  <2>4. Solves(ends)
    <3>1. ASSUME NEW i \in 1..n
          PROVE  ends[i] = IF i = 1 THEN rests[i] ELSE ends[i - 1] \o rests[i]
      <4>1. ends[i] = Upto(s, End(q[i])) /\ rests[i] = Rest(q[i])
        BY <1>2
      <4>2. CASE i = 1
        BY <2>3, <4>1, <4>2
      <4>3. CASE i # 1
        <5>1. i > 1 /\ i - 1 \in 1..n
          BY <2>1, <4>3
        <5>2. ends[i - 1] = Upto(s, End(q[i - 1]))
          BY <5>1
        <5>3. Upto(s, End(q[i - 1])) \o Rest(q[i]) = Upto(s, End(q[i]))
          BY <2>3, <5>1
        <5> QED BY <4>1, <4>3, <5>2, <5>3
      <4> QED BY <4>2, <4>3
    <3> QED BY <1>2, <3>1
  <2>5. ASSUME NEW f, Solves(f) PROVE f[n] = ends[n]
    <3> DEFINE Off == {i \in 1..n : f[i] # ends[i]}
    <3>1. \A i \in 1..n : f[i] = IF i = 1 THEN rests[i] ELSE f[i - 1] \o rests[i]
      BY <1>2, <2>5
    <3>2. ASSUME Off # {} PROVE FALSE
      <4>1. Off \in SUBSET Nat
        OBVIOUS
      <4>2. PICK m \in Off : \A k \in Off : m <= k
        BY <3>2, <4>1, Least
      <4> HIDE DEF ends
      <4>3. m \in 1..n /\ f[m] # ends[m]
        BY <4>2
      <4>4. ends[m] = Upto(s, End(q[m])) /\ (m > 1 => ends[m - 1] = Upto(s, End(q[m - 1])))
        BY <2>3, <4>3 DEF ends
      <4>5. CASE m = 1
        BY <1>2, <2>3, <3>1, <4>3, <4>4, <4>5
      <4>6. CASE m > 1
        <5>1. m - 1 \in 1..n /\ ~(m <= m - 1)
          BY <2>3, <4>3, <4>6
        <5>2. f[m - 1] = ends[m - 1]
          BY <4>2, <5>1
        <5>3. f[m] = f[m - 1] \o Rest(q[m])
          <6>1. f[m] = IF m = 1 THEN rests[m] ELSE f[m - 1] \o rests[m]
            BY <3>1, <4>3
          <6>2. rests[m] = Rest(q[m]) /\ m # 1
            BY <1>2, <4>3, <4>6
          <6> QED BY <6>1, <6>2
        <5>4. Upto(s, End(q[m - 1])) \o Rest(q[m]) = Upto(s, End(q[m]))
          BY <2>3, <4>3, <4>6
        <5> QED BY <4>3, <4>4, <4>6, <5>2, <5>3, <5>4
      <4>7. m = 1 \/ m > 1
        BY <2>1, <4>3
      <4> QED BY <4>5, <4>6, <4>7
    <3>3. n \in 1..n
      BY <2>1
    <3>4. ~(n \in Off)
      BY <3>2
    <3> HIDE DEF n, ends
    <3> QED BY <3>3, <3>4
  <2>6. (CHOOSE f : Solves(f))[n] = ends[n]
    <3> HIDE DEF Solves, ends
    <3>1. Solves(CHOOSE f : Solves(f))
      BY <2>4
    <3> QED BY <2>5, <3>1
  <2>7. ends[n] = Upto(s, End(q[n])) /\ End(q[n]) = e
    BY <1>4, <2>1 DEF Follows
  <2> QED BY <2>2, <2>6, <2>7
<1> QED BY <1>3, <1>4

-------------------------------------------------------------------------------
(* What ws_chain_get_next lets go of, what the kernel takes and what is      *)
(* appended leave the chain in step with the stream.                         *)

LEMMA PassedFacts ==
  ASSUME NEW q \in Seq(ItemType), q # <<>>
  PROVE  Passed(q) \in 0..(Len(q) - 1) /\ \A j \in 1..Passed(q) : IsSent(q[j])
<1> DEFINE cuts == {i \in 2..Len(q) : q[i].first /\ \A j \in 1..(i - 1) : IsSent(q[j])}
<1>1. Len(q) \in Nat \ {0}
  OBVIOUS
<1>2. Passed(q) = IF cuts = {} THEN 0 ELSE Min(cuts) - 1
  BY DEF Passed
<1>3. CASE cuts = {}
  BY <1>1, <1>2, <1>3
<1>4. CASE cuts # {}
  <2>1. cuts \in SUBSET Nat
    BY <1>1
  <2>2. Min(cuts) \in cuts
    <3> HIDE DEF cuts
    <3> QED BY <1>4, <2>1, MinFacts
  <2>3. /\ Min(cuts) \in 2..Len(q) /\ \A j \in 1..(Min(cuts) - 1) : IsSent(q[j])
    BY <2>2
  <2> HIDE DEF cuts
  <2> QED BY <1>1, <1>2, <1>4, <2>3
<1> QED BY <1>3, <1>4

LEMMA KeptFollows ==
  ASSUME NEW q \in Seq(ItemType), NEW s \in Nat, NEW e \in Nat, Follows(q, s, e),
         NEW k \in 0..(Len(q) - 1), \A j \in 1..k : IsSent(q[j])
  PROVE  LET kept == SubSeq(q, k + 1, Len(q)) IN
         /\ kept \in Seq(ItemType) /\ Len(kept) = Len(q) - k /\ kept # <<>>
         /\ \A i \in 1..Len(kept) : kept[i] = q[k + i]
         /\ Follows(kept, s, e)
<1> DEFINE kept == SubSeq(q, k + 1, Len(q))
<1>1. Len(q) \in Nat /\ k \in Nat /\ k < Len(q) /\ q # <<>> /\ \A i \in 1..Len(q) : q[i] \in ItemType
  OBVIOUS
<1>2. /\ kept \in Seq(ItemType)
      /\ Len(kept) = IF k + 1 <= Len(q) THEN Len(q) - (k + 1) + 1 ELSE 0
      /\ \A i \in 1..(Len(q) - (k + 1) + 1) : kept[i] = q[(k + 1) + i - 1]
  <2>1. \A i \in (k + 1)..Len(q) : q[i] \in ItemType
    BY <1>1
  <2> QED BY <1>1, <2>1, SubSeqProperties
<1>3. Len(kept) = Len(q) - k /\ Len(kept) > 0
  BY <1>1, <1>2
<1>4. \A i \in 1..Len(kept) : kept[i] = q[k + i] /\ k + i \in 1..Len(q)
  BY <1>1, <1>2, <1>3
<1> HIDE DEF kept
<1>5. kept # <<>>
  BY <1>3
<1>6. kept[1].before <= s
  <2>1. kept[1] = q[k + 1] /\ k + 1 \in 1..Len(q)
    BY <1>3, <1>4
  <2>2. CASE k = 0
    BY <1>1, <2>1, <2>2 DEF Follows
  <2>3. CASE k # 0
    <3>1. k \in 1..k /\ k \in 1..Len(q)
      BY <1>1, <2>3
    <3>2. q[k] \in ItemType /\ q[k].pos >= q[k].len /\ q[k].pos = SentOf(q[k], s)
      BY <1>1, <3>1 DEF IsSent, Follows
    <3>3. End(q[k]) <= s
      <4> DEFINE u == q[k].before
                 v == q[k].len
      <4>1. u \in Nat /\ v \in Nat /\ v # 0 /\ End(q[k]) = u + v
        BY <3>2 DEF ItemType, End
      <4>2. (IF s <= u THEN 0 ELSE IF s <= u + v THEN s - u ELSE v) >= v
        BY <3>2, <4>1 DEF SentOf
      <4> HIDE DEF u, v
      <4> QED BY <4>1, <4>2
    <3>4. k + 1 > 1 /\ (k + 1) - 1 = k
      BY <1>1, <2>3
    <3>5. q[k + 1].before = End(q[k])
      BY <2>1, <3>4 DEF Follows
    <3> QED BY <2>1, <3>3, <3>5
  <2> QED BY <2>2, <2>3
<1>7. End(kept[Len(kept)]) = e
  <2>1. k + Len(kept) = Len(q) /\ Len(kept) \in 1..Len(kept)
    BY <1>1, <1>3
  <2> QED BY <1>1, <1>4, <2>1 DEF Follows
<1>8. \A i \in 1..Len(kept) : i > 1 => kept[i].before = End(kept[i - 1])
  <2> SUFFICES ASSUME NEW i \in 1..Len(kept), i > 1 PROVE kept[i].before = End(kept[i - 1])
    OBVIOUS
  <2>1. i - 1 \in 1..Len(kept) /\ k + i > 1 /\ (k + i) - 1 = k + (i - 1)
    BY <1>1, <1>3
  <2>2. kept[i] = q[k + i] /\ kept[i - 1] = q[k + (i - 1)] /\ k + i \in 1..Len(q)
    BY <1>4, <2>1
  <2>3. q[k + i].before = End(q[(k + i) - 1])
    BY <2>1, <2>2 DEF Follows
  <2> QED BY <2>1, <2>2, <2>3
<1>9. \A i \in 1..Len(kept) : kept[i].pos = SentOf(kept[i], s)
  BY <1>4 DEF Follows
<1>10. Follows(kept, s, e)
  BY <1>5, <1>6, <1>7, <1>8, <1>9 DEF Follows
<1> QED BY <1>2, <1>3, <1>4, <1>5, <1>10 DEF kept

(* How far one item gets when the stream gets n bytes further.               *)
LEMMA ItemAdvances ==
  ASSUME NEW x \in ItemType, NEW s \in Nat, NEW n \in Nat, x.pos = SentOf(x, s)
  PROVE  x.pos + Cardinality(((s + 1)..(s + n)) \cap ToSet(Rest(x))) = SentOf(x, s + n)
<1>1. /\ x.before \in Nat /\ x.len \in Nat /\ x.pos \in Nat /\ End(x) = x.before + x.len
      /\ x.pos <= x.len
  BY DEF ItemType, SentOf, End
<1> DEFINE a == x.before + x.pos
<1>2. ToSet(Rest(x)) = (a + 1)..End(x)
  <2>1. a \in Nat /\ a <= End(x) /\ End(x) \in Nat
    BY <1>1
  <2>2. Rest(x) = Upto(a, End(x))
    BY RestIs
  <2>3. /\ Rest(x) \in Seq(Nat) /\ Len(Rest(x)) = End(x) - a
        /\ \A i \in 1..(End(x) - a) : Rest(x)[i] = a + i
    <3> HIDE DEF a
    <3> QED BY ZenonT(30), <2>1, <2>2, UptoFull
  <2>4. DOMAIN Rest(x) = 1..(End(x) - a)
    BY <2>3
  <2>5. ToSet(Rest(x)) = {a + i : i \in 1..(End(x) - a)}
    BY <2>3, <2>4 DEF ToSet
  <2>6. {a + i : i \in 1..(End(x) - a)} = (a + 1)..End(x)
    <3> HIDE DEF a
    <3>1. \A y \in (a + 1)..End(x) : y - a \in 1..(End(x) - a) /\ a + (y - a) = y
      BY <2>1
    <3>2. \A i \in 1..(End(x) - a) : a + i \in (a + 1)..End(x)
      BY <2>1
    <3> QED BY <3>1, <3>2
  <2> QED BY <2>5, <2>6
<1> DEFINE lo == IF s <= a THEN a ELSE s
           hi == IF s + n <= End(x) THEN s + n ELSE End(x)
<1>3. ((s + 1)..(s + n)) \cap ((a + 1)..End(x)) = (lo + 1)..hi
  BY <1>1
<1>4. lo \in Int /\ hi \in Int
  BY <1>1
<1>5. Cardinality((lo + 1)..hi) = IF lo + 1 > hi THEN 0 ELSE hi - (lo + 1) + 1
  <2> HIDE DEF lo, hi
  <2>1. lo + 1 \in Int
    BY <1>4
  <2> QED BY <1>4, <2>1, FS_Interval
<1>6. x.pos + (IF lo + 1 > hi THEN 0 ELSE hi - (lo + 1) + 1) = SentOf(x, s + n)
  <2>1. CASE s <= x.before
    BY <1>1, <2>1 DEF SentOf
  <2>2. CASE ~(s <= x.before) /\ s <= End(x)
    BY <1>1, <2>2 DEF SentOf
  <2>3. CASE ~(s <= x.before) /\ ~(s <= End(x))
    BY <1>1, <2>3 DEF SentOf
  <2> QED BY <2>1, <2>2, <2>3
<1> HIDE DEF lo, hi, a
<1> QED BY <1>2, <1>3, <1>5, <1>6

LEMMA AdvanceFollows ==
  ASSUME NEW q \in Seq(ItemType), q # <<>>, NEW s \in Nat, NEW e \in Nat, Follows(q, s, e),
         NEW n \in Nat, n < Len(Unsent(q))
  PROVE  /\ Advance(q, n) \in Seq(ItemType) /\ Len(Advance(q, n)) = Len(q)
         /\ \A i \in 1..Len(q) : Advance(q, n)[i].piece = q[i].piece
         /\ Follows(Advance(q, n), s + n, e)
         /\ SubSeq(Unsent(q), 1, n) = Upto(s, s + n) /\ s + n <= e
<1>1. Len(q) \in Nat \ {0} /\ DOMAIN q = 1..Len(q) /\ \A i \in 1..Len(q) : q[i] \in ItemType
  OBVIOUS
<1>2. Unsent(q) = Upto(s, e) /\ s <= e
  BY UnsentIs DEF Follows
<1>3. /\ Upto(s, e) \in Seq(Nat) /\ Len(Upto(s, e)) = e - s
      /\ \A i \in 1..(e - s) : Upto(s, e)[i] = s + i
  BY <1>2, UptoFull
<1>4. n < e - s /\ s + n <= e
  BY <1>2, <1>3
<1> DEFINE taken == {Unsent(q)[i] : i \in 1..n}
           moved(i) == [q[i] EXCEPT !.pos = @ + Cardinality(taken \cap ToSet(Rest(q[i]))),
                                    !.first = @ /\ i # 1]
           r == Advance(q, n)
<1>5. taken = (s + 1)..(s + n)
  <2>1. \A i \in 1..n : Unsent(q)[i] = s + i
    BY <1>2, <1>3, <1>4
  <2>2. taken = {s + i : i \in 1..n}
    BY <2>1
  <2>3. \A y \in (s + 1)..(s + n) : y - s \in 1..n /\ s + (y - s) = y
    OBVIOUS
  <2>4. \A i \in 1..n : s + i \in (s + 1)..(s + n)
    OBVIOUS
  <2>5. {s + i : i \in 1..n} = (s + 1)..(s + n)
    BY <2>3, <2>4
  <2> QED BY <2>2, <2>5
<1>6. r = [i \in 1..Len(q) |-> moved(i)]
  BY <1>1 DEF Advance
<1>7. ASSUME NEW i \in 1..Len(q)
      PROVE  /\ moved(i) \in ItemType /\ moved(i).pos = SentOf(q[i], s + n)
             /\ moved(i).before = q[i].before /\ moved(i).len = q[i].len
             /\ moved(i).piece = q[i].piece
  <2>1. q[i] \in ItemType /\ q[i].pos = SentOf(q[i], s)
    BY <1>1 DEF Follows
  <2>2. q[i].pos + Cardinality(taken \cap ToSet(Rest(q[i]))) = SentOf(q[i], s + n)
    <3> HIDE DEF taken
    <3> QED BY <1>5, <2>1, ItemAdvances
  <2>3. SentOf(q[i], s + n) \in Nat
    <3>1. s + n \in Nat
      OBVIOUS
    <3> QED BY <2>1, <3>1, SentOfNatural
  <2> HIDE DEF taken
  <2> DEFINE p == q[i].pos + Cardinality(taken \cap ToSet(Rest(q[i])))
  <2>4. moved(i) = [q[i] EXCEPT !.pos = p, !.first = q[i].first /\ i # 1]
    BY <2>1 DEF ItemType
  <2>5. p = SentOf(q[i], s + n) /\ p \in Nat
    BY <2>2, <2>3
  <2>6. (q[i].first /\ i # 1) \in BOOLEAN
    OBVIOUS
  <2> DEFINE x == q[i]
             f == x.first /\ i # 1
             y == [x EXCEPT !.pos = p, !.first = f]
  <2>7. x \in ItemType /\ f \in BOOLEAN
    BY <2>1, <2>6
  <2>8. moved(i) = y
    BY <2>4
  <2> HIDE DEF p, moved, x, f
  <2>9. /\ y \in ItemType /\ y.pos = p /\ y.before = x.before /\ y.len = x.len
        /\ y.piece = x.piece
    BY <2>5, <2>7 DEF ItemType
  <2> HIDE DEF y
  <2>10. moved(i) \in ItemType /\ moved(i).pos = SentOf(q[i], s + n)
    BY <2>5, <2>8, <2>9
  <2> QED BY <2>8, <2>9, <2>10 DEF x
<1> HIDE DEF moved
<1>8. r \in Seq(ItemType) /\ Len(r) = Len(q) /\ \A i \in 1..Len(q) : r[i] = moved(i)
  BY <1>1, <1>6, <1>7
<1> HIDE DEF r
<1>9. ASSUME NEW i \in 1..Len(q)
      PROVE  End(r[i]) = End(q[i]) /\ r[i].pos = SentOf(r[i], s + n)
  <2> DEFINE x == q[i]
             y == r[i]
             b == s + n
  <2>1. y.before = x.before /\ y.len = x.len /\ y.pos = SentOf(x, b)
    BY <1>7, <1>8
  <2> HIDE DEF x, y, b
  <2>2. End(y) = End(x)
    BY <2>1 DEF End
  <2>3. SentOf(y, b) = SentOf(x, b)
    BY <2>1, <2>2 DEF SentOf
  <2> QED BY <2>1, <2>2, <2>3 DEF x, y, b
<1>10. Follows(r, s + n, e)
  <2>1. r # <<>>
    BY <1>1, <1>8
  <2>2. r[1].before <= s + n
    <3>1. Len(q) \in Nat /\ Len(q) # 0
      BY <1>1
    <3>2. 1 \in 1..Len(q)
      BY <3>1
    <3>3. q[1] \in ItemType
      BY <1>1, <3>2
    <3>4. q[1].before \in Nat
      BY <3>3 DEF ItemType
    <3>5. q[1].before <= s
      BY <1>1 DEF Follows
    <3>6. r[1].before = q[1].before
      BY <1>7, <1>8, <3>2
    <3> QED BY <3>4, <3>5, <3>6
  <2>3. End(r[Len(r)]) = e
    <3>1. Len(q) \in 1..Len(q) /\ End(q[Len(q)]) = e
      BY <1>1 DEF Follows
    <3> QED BY <1>8, <1>9, <3>1
  <2>4. ASSUME NEW i \in 1..Len(r), i > 1 PROVE r[i].before = End(r[i - 1])
    <3>1. i \in 1..Len(q) /\ i - 1 \in 1..Len(q)
      BY <1>1, <1>8, <2>4
    <3>2. q[i].before = End(q[i - 1])
      BY <2>4, <3>1 DEF Follows
    <3> QED BY <1>7, <1>8, <1>9, <3>1, <3>2
  <2> QED BY <1>4, <1>8, <1>9, <2>1, <2>2, <2>3, <2>4 DEF Follows
<1>11. SubSeq(Unsent(q), 1, n) = Upto(s, s + n)
  <2> DEFINE u == SubSeq(Unsent(q), 1, n)
             v == Upto(s, s + n)
  <2>1. \A i \in 1..n : Unsent(q)[i] = s + i /\ Unsent(q)[i] \in Nat
    BY <1>2, <1>3, <1>4
  <2>2. /\ u \in Seq(Nat) /\ Len(u) = (IF 1 <= n THEN n - 1 + 1 ELSE 0)
        /\ \A i \in 1..(n - 1 + 1) : u[i] = Unsent(q)[1 + i - 1]
    BY <2>1, SubSeqProperties
  <2>3. /\ v \in Seq(Nat) /\ Len(v) = (s + n) - s
        /\ \A i \in 1..((s + n) - s) : v[i] = s + i
    <3>1. s <= s + n /\ s + n \in Nat
      OBVIOUS
    <3> QED BY <3>1, UptoFull
  <2> HIDE DEF u, v
  <2>4. Len(u) = n /\ Len(v) = n
    BY <2>2, <2>3
  <2>5. \A i \in 1..n : u[i] = s + i /\ v[i] = s + i
    BY <2>1, <2>2, <2>3
  <2>6. u = v
    BY <2>2, <2>3, <2>4, <2>5, SeqEqual
  <2> QED BY <2>6 DEF u, v
<1> QED BY <1>4, <1>7, <1>8, <1>10, <1>11 DEF r

(* The chain r is q, sent up to s and queued up to e, with one more piece.  *)
Longer(q, s, e, p, len, r) ==
  /\ r \in Seq(ItemType) /\ Len(r) = Len(q) + 1
  /\ \A i \in 1..Len(q) : r[i] = q[i]
  /\ r[Len(q) + 1].piece = p
  /\ Follows(r, s, e + len)

LEMMA AppendFollows ==
  ASSUME NEW q \in Seq(ItemType), NEW s \in Nat, NEW e \in Nat, Follows(q, s, e),
         NEW p \in Pieces, NEW len \in Nat \ {0}, NEW first \in BOOLEAN
  PROVE  Longer(q, s, e, p, len, Append(q, Item(p, len, first, e)))
<1> DEFINE x == Item(p, len, first, e)
           r == Append(q, x)
<1>1. /\ x \in ItemType /\ x.before = e /\ x.len = len /\ x.pos = 0 /\ x.piece = p
      /\ End(x) = e + len
  BY DEF Item, ItemType, End
<1> HIDE DEF x
<1>2. /\ r \in Seq(ItemType) /\ Len(r) = Len(q) + 1 /\ r # <<>>
      /\ \A i \in 1..Len(q) : r[i] = q[i]
      /\ r[Len(q) + 1] = x
  BY <1>1, AppendProperties
<1>3. Len(q) \in Nat
  OBVIOUS
<1> HIDE DEF r
<1>4. s <= e + len /\ s <= e
  BY DEF Follows
<1>5. r[1].before <= s
  <2>1. CASE q = <<>>
    BY <1>1, <1>2, <2>1 DEF Follows
  <2>2. CASE q # <<>>
    <3>1. 1 \in 1..Len(q)
      BY <1>3, <2>2
    <3> QED BY <1>2, <2>2, <3>1 DEF Follows
  <2> QED BY <2>1, <2>2
<1>6. ASSUME NEW i \in 1..Len(r)
      PROVE  /\ i > 1 => r[i].before = End(r[i - 1])
             /\ r[i].pos = SentOf(r[i], s)
  <2>1. CASE i = Len(q) + 1
    <3>1. r[i] = x /\ SentOf(x, s) = 0
      BY <1>1, <1>2, <1>4, <2>1 DEF SentOf
    <3>2. ASSUME i > 1 PROVE End(r[i - 1]) = e
      <4>1. q # <<>> /\ i - 1 = Len(q) /\ Len(q) \in 1..Len(q)
        BY <1>3, <2>1, <3>2
      <4> QED BY <1>2, <4>1 DEF Follows
    <3> QED BY <1>1, <3>1, <3>2
  <2>2. CASE i # Len(q) + 1
    <3>1. i \in 1..Len(q) /\ (i > 1 => i - 1 \in 1..Len(q))
      BY <1>2, <1>3, <2>2
    <3>2. r[i] = q[i] /\ (i > 1 => r[i - 1] = q[i - 1])
      BY <1>2, <3>1
    <3> QED BY <3>1, <3>2 DEF Follows
  <2> QED BY <2>1, <2>2
<1>7. Follows(r, s, e + len)
  BY <1>1, <1>2, <1>4, <1>5, <1>6 DEF Follows
<1> QED BY <1>1, <1>2, <1>7 DEF r, x, Longer
-------------------------------------------------------------------------------
(* Where the pieces go.                                                      *)

LEMMA PutBack ==
  ASSUME NEW p \in Seq(ItemType), NEW f \in Seq(Pieces)
  PROVE  LET b == Reverse(PiecesOf(p)) \o f IN
         /\ b \in Seq(Pieces) /\ Len(b) = Len(p) + Len(f)
         /\ \A i \in 1..Len(p) : b[i] = p[Len(p) + 1 - i].piece
         /\ \A i \in 1..Len(f) : b[Len(p) + i] = f[i]
<1> DEFINE t == PiecesOf(p)
           u == Reverse(t)
           b == u \o f
<1>1. Len(p) \in Nat /\ Len(f) \in Nat /\ DOMAIN p = 1..Len(p) /\ \A i \in 1..Len(p) : p[i].piece \in Pieces
  <2>1. \A i \in 1..Len(p) : p[i] \in ItemType
    OBVIOUS
  <2>2. \A i \in 1..Len(p) : p[i].piece \in Pieces
    BY <2>1 DEF ItemType
  <2> QED BY <2>2
<1>2. t = [i \in 1..Len(p) |-> p[i].piece]
  BY <1>1 DEF PiecesOf
<1>3. t \in Seq(Pieces) /\ Len(t) = Len(p) /\ \A i \in 1..Len(p) : t[i] = p[i].piece
  BY <1>1, <1>2
<1> HIDE DEF t
<1>4. u = [i \in 1..Len(p) |-> t[(Len(p) - i) + 1]]
  BY <1>3 DEF Reverse
<1>5. \A i \in 1..Len(p) : (Len(p) - i) + 1 \in 1..Len(p) /\ (Len(p) - i) + 1 = Len(p) + 1 - i
  BY <1>1
<1>6. u \in Seq(Pieces) /\ Len(u) = Len(p) /\ \A i \in 1..Len(p) : u[i] = p[Len(p) + 1 - i].piece
  BY <1>1, <1>3, <1>4, <1>5
<1> HIDE DEF u
<1>7. /\ b \in Seq(Pieces) /\ Len(b) = Len(u) + Len(f)
      /\ \A i \in 1..(Len(u) + Len(f)) : b[i] = IF i <= Len(u) THEN u[i] ELSE f[i - Len(u)]
  BY <1>6, ConcatProperties
<1>8. \A i \in 1..Len(f) : Len(p) + i \in 1..(Len(u) + Len(f)) /\ ~(Len(p) + i <= Len(u)) /\ (Len(p) + i) - Len(u) = i
  BY <1>1, <1>6
<1> HIDE DEF b
<1>9. \A i \in 1..Len(f) : b[Len(p) + i] = f[i]
  BY <1>7, <1>8
<1>10. ASSUME NEW i \in 1..Len(p) PROVE b[i] = p[Len(p) + 1 - i].piece
  <2>1. i \in 1..(Len(u) + Len(f)) /\ i <= Len(u)
    BY <1>1, <1>6
  <2>2. b[i] = u[i]
    BY <1>7, <2>1
  <2>3. u[i] = p[Len(p) + 1 - i].piece
    BY <1>6
  <2> QED BY <2>2, <2>3
<1> QED BY <1>6, <1>7, <1>9, <1>10 DEF b, u, t

(* The first k pieces of a chain go back to the free list, the others stay.  *)
LEMMA PutPlaced ==
  ASSUME ChainTypes, Placed, NEW c \in Conns, NEW k \in 0..Len(chain[c]),
         NEW p \in Seq(ItemType), Len(p) = k, \A i \in 1..k : p[i] = chain[c][i],
         NEW r \in Seq(ItemType), Len(r) = Len(chain[c]) - k,
         \A i \in 1..Len(r) : r[i].piece = chain[c][k + i].piece,
         Put(p), chain' = [chain EXCEPT ![c] = r]
  PROVE  /\ Placed' /\ free' \in Seq(Pieces) /\ count' = Len(free')
         /\ chain' \in [Conns -> Seq(ItemType)]
<1> DEFINE q == chain[c]
<1>1. /\ free \in Seq(Pieces) /\ count = Len(free) /\ Len(free) \in Nat
      /\ chain \in [Conns -> Seq(ItemType)] /\ q \in Seq(ItemType) /\ Len(q) \in Nat
      /\ k \in Nat /\ k <= Len(q)
  BY DEF ChainTypes
<1>2. /\ free' \in Seq(Pieces) /\ Len(free') = k + Len(free)
      /\ \A i \in 1..k : free'[i] = p[k + 1 - i].piece
      /\ \A i \in 1..Len(free) : free'[k + i] = free[i]
  BY <1>1, PutBack DEF Put
<1>3. \A i \in 1..k : free'[i] = q[k + 1 - i].piece /\ k + 1 - i \in 1..k /\ k + 1 - i \in 1..Len(q)
  <2>1. \A i \in 1..k : k + 1 - i \in 1..k /\ k + 1 - i \in 1..Len(q)
    BY <1>1
  <2> QED BY <1>2, <2>1
<1>4. ASSUME NEW i \in 1..Len(free'), ~(i <= k)
      PROVE  i - k \in 1..Len(free) /\ free'[i] = free[i - k]
  <2>1. i - k \in 1..Len(free) /\ k + (i - k) = i
    BY <1>1, <1>2, <1>4
  <2> QED BY <1>2, <2>1
<1>5. /\ chain' \in [Conns -> Seq(ItemType)] /\ chain'[c] = r
      /\ \A d \in Conns : d # c => chain'[d] = chain[d]
  BY <1>1
<1>6. \A j \in 1..Len(r) : r[j].piece = q[k + j].piece /\ k + j \in 1..Len(q) /\ k + j > k
  <2>1. \A j \in 1..Len(r) : k + j \in 1..Len(q) /\ k + j > k
    BY <1>1
  <2> QED BY <2>1
<1>7. /\ Once(free) /\ \A d \in Conns : OncePiece(chain[d])
      /\ \A d \in Conns : \A i \in 1..Len(free), j \in 1..Len(chain[d]) : free[i] # chain[d][j].piece
      /\ \A d, e \in Conns : d # e =>
            \A i \in 1..Len(chain[d]), j \in 1..Len(chain[e]) : chain[d][i].piece # chain[e][j].piece
      /\ \A x \in Pieces : \/ \E i \in 1..Len(free) : free[i] = x
                           \/ \E d \in Conns : \E i \in 1..Len(chain[d]) : chain[d][i].piece = x
  BY DEF Placed
<1>8. count' = Len(free')
  BY <1>1, <1>2 DEF Put
<1>9. /\ Once(free) /\ OncePiece(q) /\ \A i \in 1..Len(free), j \in 1..Len(q) : free[i] # q[j].piece
      /\ \A d \in Conns : d # c =>
            \A i \in 1..Len(q), j \in 1..Len(chain[d]) : q[i].piece # chain[d][j].piece
  BY <1>7
<1>10. q = chain[c]
  OBVIOUS
<1> HIDE DEF q
<1>11. Once(free')
  <2> SUFFICES ASSUME NEW i \in 1..Len(free'), NEW j \in 1..Len(free'), free'[i] = free'[j] PROVE i = j
    BY DEF Once
  <2>1. CASE i <= k /\ j <= k
    <3>1. i \in 1..k /\ j \in 1..k
      BY <2>1
    <3>2. PICK a \in 1..Len(q) : a = k + 1 - i /\ free'[i] = q[a].piece
      BY <1>3, <3>1
    <3>3. PICK b \in 1..Len(q) : b = k + 1 - j /\ free'[j] = q[b].piece
      BY <1>3, <3>1
    <3>4. q[a].piece = q[b].piece
      BY <3>2, <3>3
    <3>5. OncePiece(q)
      BY <1>9
    <3>6. a = b
      BY <3>4, <3>5 DEF OncePiece
    <3>7. k \in Nat /\ i \in Nat /\ j \in Nat
      BY <1>1
    <3> QED BY <3>2, <3>3, <3>6, <3>7
  <2>2. CASE i <= k /\ ~(j <= k)
    <3>1. i \in 1..k
      BY <2>2
    <3>2. PICK a \in 1..Len(q) : free'[i] = q[a].piece
      BY <1>3, <3>1
    <3>3. PICK b \in 1..Len(free) : free'[j] = free[b]
      BY <1>4, <2>2
    <3>4. free[b] # q[a].piece
      BY <1>9
    <3> QED BY <3>2, <3>3, <3>4
  <2>3. CASE ~(i <= k) /\ j <= k
    <3>1. j \in 1..k
      BY <2>3
    <3>2. PICK a \in 1..Len(q) : free'[j] = q[a].piece
      BY <1>3, <3>1
    <3>3. PICK b \in 1..Len(free) : free'[i] = free[b]
      BY <1>4, <2>3
    <3>4. free[b] # q[a].piece
      BY <1>9
    <3> QED BY <3>2, <3>3, <3>4
  <2>4. CASE ~(i <= k) /\ ~(j <= k)
    <3>1. PICK a \in 1..Len(free) : a = i - k /\ free'[i] = free[a]
      BY <1>4, <2>4
    <3>2. PICK b \in 1..Len(free) : b = j - k /\ free'[j] = free[b]
      BY <1>4, <2>4
    <3>3. free[a] = free[b]
      BY <3>1, <3>2
    <3>4. Once(free)
      BY <1>9
    <3>5. a = b
      BY <3>3, <3>4 DEF Once
    <3> QED BY <1>1, <3>1, <3>2, <3>5
  <2> QED BY <2>1, <2>2, <2>3, <2>4
<1>12. ASSUME NEW d \in Conns PROVE OncePiece(chain'[d])
  <2>1. CASE d = c
    <3> SUFFICES ASSUME NEW i \in 1..Len(r), NEW j \in 1..Len(r), r[i].piece = r[j].piece PROVE i = j
      BY <1>5, <2>1 DEF OncePiece
    <3>1. k + i = k + j
      BY <1>6, <1>9 DEF OncePiece
    <3> QED BY <1>1, <3>1
  <2>2. CASE d # c
    BY <1>5, <1>7, <2>2
  <2> QED BY <2>1, <2>2
<1>13. ASSUME NEW d \in Conns, NEW i \in 1..Len(free'), NEW j \in 1..Len(chain'[d])
       PROVE  free'[i] # chain'[d][j].piece
  <2>1. CASE d = c /\ i <= k
    <3>1. i \in 1..k /\ j \in 1..Len(r) /\ chain'[d] = r
      BY <1>5, <2>1
    <3>2. k + 1 - i # k + j
      BY <1>1, <3>1
    <3>3. PICK a \in 1..Len(q) : a = k + 1 - i /\ free'[i] = q[a].piece
      BY <1>3, <3>1
    <3>4. PICK b \in 1..Len(q) : b = k + j /\ r[j].piece = q[b].piece
      BY <1>6, <3>1
    <3>5. OncePiece(q) /\ a # b
      BY <1>9, <3>2, <3>3, <3>4
    <3>6. q[a].piece # q[b].piece
      BY <3>5 DEF OncePiece
    <3> QED BY <3>1, <3>3, <3>4, <3>6
  <2>2. CASE d = c /\ ~(i <= k)
    <3>1. j \in 1..Len(r) /\ chain'[d] = r
      BY <1>5, <2>2
    <3>2. r[j].piece = q[k + j].piece /\ k + j \in 1..Len(q)
      BY <1>6, <3>1
    <3>3. PICK b \in 1..Len(free) : free'[i] = free[b]
      BY <1>4, <2>2
    <3>4. free[b] # q[k + j].piece
      BY <1>9, <3>2
    <3> QED BY <3>1, <3>2, <3>3, <3>4
  <2>3. CASE d # c /\ i <= k
    <3>1. i \in 1..k /\ chain'[d] = chain[d] /\ j \in 1..Len(chain[d])
      BY <1>5, <2>3
    <3>2. free'[i] = q[k + 1 - i].piece /\ k + 1 - i \in 1..Len(q)
      BY <1>3, <3>1
    <3>3. q[k + 1 - i].piece # chain[d][j].piece
      BY <1>9, <2>3, <3>1, <3>2
    <3> QED BY <3>1, <3>2, <3>3
  <2>4. CASE d # c /\ ~(i <= k)
    <3>1. chain'[d] = chain[d] /\ j \in 1..Len(chain[d])
      BY <1>5, <2>4
    <3>2. PICK b \in 1..Len(free) : free'[i] = free[b]
      BY <1>4, <2>4
    <3> QED BY <1>7, <3>1, <3>2
  <2> QED BY <2>1, <2>2, <2>3, <2>4
<1>14. ASSUME NEW d \in Conns, NEW e \in Conns, d # e,
              NEW i \in 1..Len(chain'[d]), NEW j \in 1..Len(chain'[e])
       PROVE  chain'[d][i].piece # chain'[e][j].piece
  <2>1. CASE d = c
    <3>1. i \in 1..Len(r) /\ chain'[d] = r /\ e # c /\ chain'[e] = chain[e]
      BY <1>5, <1>14, <2>1
    <3>2. r[i].piece = q[k + i].piece /\ k + i \in 1..Len(q) /\ j \in 1..Len(chain[e])
      BY <1>6, <3>1
    <3>3. q[k + i].piece # chain[e][j].piece
      BY <1>9, <3>1, <3>2
    <3> QED BY <3>1, <3>2, <3>3
  <2>2. CASE e = c
    <3>1. j \in 1..Len(r) /\ chain'[e] = r /\ d # c /\ chain'[d] = chain[d]
      BY <1>5, <1>14, <2>2
    <3>2. r[j].piece = q[k + j].piece /\ k + j \in 1..Len(q) /\ i \in 1..Len(chain[d])
      BY <1>6, <3>1
    <3>3. q[k + j].piece # chain[d][i].piece
      BY <1>9, <3>1, <3>2
    <3> QED BY <3>1, <3>2, <3>3
  <2>3. CASE d # c /\ e # c
    BY <1>5, <1>7, <1>14, <2>3
  <2> QED BY <2>1, <2>2, <2>3
<1>15. ASSUME NEW x \in Pieces
       PROVE  \/ \E i \in 1..Len(free') : free'[i] = x
              \/ \E d \in Conns : \E i \in 1..Len(chain'[d]) : chain'[d][i].piece = x
  <2>1. CASE \E i \in 1..Len(free) : free[i] = x
    <3>1. PICK i \in 1..Len(free) : free[i] = x
      BY <2>1
    <3>2. k + i \in 1..Len(free') /\ free'[k + i] = x
      BY <1>1, <1>2, <3>1
    <3> QED BY <3>2
  <2>2. CASE \E i \in 1..Len(q) : q[i].piece = x
    <3>1. PICK i \in 1..Len(q) : q[i].piece = x
      BY <2>2
    <3>2. CASE i <= k
      <4>1. k + 1 - i \in 1..k /\ k + 1 - (k + 1 - i) = i /\ k + 1 - i \in 1..Len(free')
        BY <1>1, <1>2, <3>2
      <4>2. free'[k + 1 - i] = x
        BY <1>3, <3>1, <4>1
      <4> QED BY <4>1, <4>2
    <3>3. CASE ~(i <= k)
      <4>1. i - k \in 1..Len(r) /\ k + (i - k) = i
        BY <1>1, <1>10, <3>3
      <4>2. chain'[c][i - k].piece = x /\ i - k \in 1..Len(chain'[c])
        BY <1>5, <1>6, <3>1, <4>1
      <4> QED BY <4>2
    <3> QED BY <3>2, <3>3
  <2>3. CASE \E d \in Conns : d # c /\ \E i \in 1..Len(chain[d]) : chain[d][i].piece = x
    BY <1>5, <2>3
  <2>4. \/ \E i \in 1..Len(free) : free[i] = x
        \/ \E d \in Conns : \E i \in 1..Len(chain[d]) : chain[d][i].piece = x
    BY <1>7
  <2>5. \A d \in Conns : d = c => chain[d] = q
    BY <1>10
  <2> QED BY <2>1, <2>2, <2>3, <2>4, <2>5
<1>16. Placed'
  BY <1>11, <1>12, <1>13, <1>14, <1>15 DEF Placed
<1> QED BY <1>2, <1>5, <1>8, <1>16

LEMMA AppendPlaced ==
  ASSUME ChainTypes, Placed, NEW c \in Conns, free # <<>>, free' = Tail(free), count' = count - 1,
         NEW r \in Seq(ItemType), Len(r) = Len(chain[c]) + 1,
         \A i \in 1..Len(chain[c]) : r[i] = chain[c][i],
         r[Len(chain[c]) + 1].piece = Head(free),
         chain' = [chain EXCEPT ![c] = r]
  PROVE  /\ Placed' /\ free' \in Seq(Pieces) /\ count' = Len(free')
         /\ chain' \in [Conns -> Seq(ItemType)]
<1> DEFINE q == chain[c]
           n == Len(q)
<1>1. /\ free \in Seq(Pieces) /\ count = Len(free) /\ Len(free) \in Nat \ {0}
      /\ chain \in [Conns -> Seq(ItemType)] /\ q \in Seq(ItemType) /\ n \in Nat
  BY DEF ChainTypes
<1>2. /\ free' \in Seq(Pieces) /\ Len(free') = Len(free) - 1 /\ Head(free) = free[1]
      /\ \A i \in 1..(Len(free) - 1) : free'[i] = free[i + 1]
  BY <1>1, HeadTailProperties
<1>3. \A i \in 1..Len(free') : free'[i] = free[i + 1] /\ i + 1 \in 1..Len(free) /\ i + 1 # 1
  BY <1>1, <1>2
<1>4. /\ chain' \in [Conns -> Seq(ItemType)] /\ chain'[c] = r
      /\ \A d \in Conns : d # c => chain'[d] = chain[d]
  BY <1>1
<1>5. /\ Once(free) /\ \A d \in Conns : OncePiece(chain[d])
      /\ \A d \in Conns : \A i \in 1..Len(free), j \in 1..Len(chain[d]) : free[i] # chain[d][j].piece
      /\ \A d, e \in Conns : d # e =>
            \A i \in 1..Len(chain[d]), j \in 1..Len(chain[e]) : chain[d][i].piece # chain[e][j].piece
      /\ \A x \in Pieces : \/ \E i \in 1..Len(free) : free[i] = x
                           \/ \E d \in Conns : \E i \in 1..Len(chain[d]) : chain[d][i].piece = x
  BY DEF Placed
<1>6. /\ OncePiece(q) /\ \A i \in 1..Len(free), j \in 1..n : free[i] # q[j].piece
      /\ \A d \in Conns : d # c =>
            \A i \in 1..n, j \in 1..Len(chain[d]) : q[i].piece # chain[d][j].piece
  BY <1>5
<1>7. \A j \in 1..Len(r) : j # n + 1 => j \in 1..n /\ r[j] = q[j]
  BY <1>1
<1>8. r[n + 1].piece = free[1] /\ 1 \in 1..Len(free) /\ n + 1 \in 1..Len(r) /\ Len(r) = n + 1
  BY <1>1, <1>2
<1>9. q = chain[c] /\ n = Len(q)
  OBVIOUS
<1> HIDE DEF q, n
<1>10. Once(free')
  <2> SUFFICES ASSUME NEW i \in 1..Len(free'), NEW j \in 1..Len(free'), free'[i] = free'[j] PROVE i = j
    BY DEF Once
  <2>1. i + 1 = j + 1
    BY <1>3, <1>5 DEF Once
  <2> QED BY <2>1
<1>11. ASSUME NEW d \in Conns PROVE OncePiece(chain'[d])
  <2>1. CASE d = c
    <3> SUFFICES ASSUME NEW i \in 1..Len(r), NEW j \in 1..Len(r), r[i].piece = r[j].piece PROVE i = j
      BY <1>4, <2>1 DEF OncePiece
    <3>1. CASE i # n + 1 /\ j # n + 1
      <4>1. i \in 1..n /\ r[i] = q[i] /\ j \in 1..n /\ r[j] = q[j]
        BY <1>7, <3>1
      <4> QED BY <1>6, <1>9, <4>1 DEF OncePiece
    <3>2. CASE i = n + 1 /\ j # n + 1
      <4>1. r[i].piece = free[1] /\ j \in 1..n /\ r[j] = q[j]
        BY <1>7, <1>8, <3>2
      <4> QED BY <1>6, <1>8, <4>1
    <3>3. CASE i # n + 1 /\ j = n + 1
      <4>1. r[j].piece = free[1] /\ i \in 1..n /\ r[i] = q[i]
        BY <1>7, <1>8, <3>3
      <4> QED BY <1>6, <1>8, <4>1
    <3>4. CASE i = n + 1 /\ j = n + 1
      BY <3>4
    <3> QED BY <3>1, <3>2, <3>3, <3>4
  <2>2. CASE d # c
    BY <1>4, <1>5, <2>2
  <2> QED BY <2>1, <2>2
<1>12. ASSUME NEW d \in Conns, NEW i \in 1..Len(free'), NEW j \in 1..Len(chain'[d])
       PROVE  free'[i] # chain'[d][j].piece
  <2>1. free'[i] = free[i + 1] /\ i + 1 \in 1..Len(free) /\ i + 1 # 1
    BY <1>3
  <2>2. CASE d # c
    BY <1>4, <1>5, <2>1, <2>2
  <2>3. CASE d = c /\ j = n + 1
    BY <1>4, <1>5, <1>8, <2>1, <2>3 DEF Once
  <2>4. CASE d = c /\ j # n + 1
    BY <1>4, <1>6, <1>7, <2>1, <2>4
  <2> QED BY <2>2, <2>3, <2>4
<1>13. ASSUME NEW d \in Conns, d # c, NEW i \in 1..Len(r), NEW j \in 1..Len(chain[d])
       PROVE  r[i].piece # chain[d][j].piece
  <2>1. CASE i = n + 1
    BY <1>5, <1>8, <2>1
  <2>2. CASE i # n + 1
    <3>1. PICK a \in 1..n : r[i] = q[a]
      BY <1>7, <2>2
    <3>2. q[a].piece # chain[d][j].piece
      BY <1>6, <1>13
    <3> QED BY <3>1, <3>2
  <2> QED BY <2>1, <2>2
<1>14. ASSUME NEW d \in Conns, NEW e \in Conns, d # e,
              NEW i \in 1..Len(chain'[d]), NEW j \in 1..Len(chain'[e])
       PROVE  chain'[d][i].piece # chain'[e][j].piece
  <2>1. CASE d = c
    <3>1. i \in 1..Len(r) /\ chain'[d] = r /\ e # c /\ chain'[e] = chain[e]
      BY <1>4, <1>14, <2>1
    <3> QED BY <1>13, <3>1
  <2>2. CASE e = c
    <3>1. j \in 1..Len(r) /\ chain'[e] = r /\ d # c /\ chain'[d] = chain[d]
      BY <1>4, <1>14, <2>2
    <3> QED BY <1>13, <3>1
  <2>3. CASE d # c /\ e # c
    BY <1>4, <1>5, <1>14, <2>3
  <2> QED BY <2>1, <2>2, <2>3
<1>15. ASSUME NEW x \in Pieces
       PROVE  \/ \E i \in 1..Len(free') : free'[i] = x
              \/ \E d \in Conns : \E i \in 1..Len(chain'[d]) : chain'[d][i].piece = x
  <2>1. CASE \E i \in 1..Len(free) : free[i] = x
    <3>1. PICK i \in 1..Len(free) : free[i] = x
      BY <2>1
    <3>2. CASE i = 1
      <4>1. chain'[c][n + 1].piece = x /\ n + 1 \in 1..Len(chain'[c])
        BY <1>4, <1>8, <3>1, <3>2
      <4> QED BY <4>1
    <3>3. CASE i # 1
      <4>1. i - 1 \in 1..Len(free') /\ i - 1 \in 1..(Len(free) - 1) /\ (i - 1) + 1 = i
        BY <1>1, <1>2, <3>3
      <4>2. free'[i - 1] = x
        BY <1>2, <3>1, <4>1
      <4> QED BY <4>1, <4>2
    <3> QED BY <3>2, <3>3
  <2>2. CASE \E i \in 1..n : q[i].piece = x
    <3>1. PICK i \in 1..n : q[i].piece = x
      BY <2>2
    <3>2. i \in 1..Len(r) /\ r[i] = q[i]
      BY <1>1, <1>8, <1>9, <3>1
    <3>3. chain'[c][i].piece = x /\ i \in 1..Len(chain'[c])
      BY <1>4, <3>1, <3>2
    <3> QED BY <3>3
  <2>3. CASE \E d \in Conns : d # c /\ \E i \in 1..Len(chain[d]) : chain[d][i].piece = x
    BY <1>4, <2>3
  <2> QED BY <1>5, <1>9, <2>1, <2>2, <2>3
<1>16. Placed'
  BY <1>10, <1>11, <1>12, <1>13, <1>14, <1>15 DEF Placed
<1> QED BY <1>1, <1>2, <1>4, <1>16

-------------------------------------------------------------------------------
(* The chains are in order, step by step.                                    *)

(* The numbers from 1 to n are a finite set of n members: what the count of  *)
(* pieces the pool starts with is compared with.                             *)
LEMMA RangeSize ==
  ASSUME NEW n \in Nat
  PROVE  IsFiniteSet(1..n) /\ Cardinality(1..n) = n
<1>1. 1 \in Int /\ n \in Int
  OBVIOUS
<1>2. IsFiniteSet(1..n) /\ Cardinality(1..n) = IF 1 > n THEN 0 ELSE n - 1 + 1
  BY <1>1, FS_Interval, Zenon
<1>3. CASE n = 0
  BY <1>2, <1>3
<1>4. CASE 1 <= n
  BY <1>2, <1>4
<1> QED BY <1>3, <1>4

LEMMA ChainStarts == ChainInit => ChainInv
<1> SUFFICES ASSUME ChainInit PROVE ChainInv
  OBVIOUS
<1> DEFINE n == Cardinality(Pieces)
<1>1. IsFiniteSet(Pieces) /\ n \in Nat
  BY ChainAssumption, FS_CardinalityType
<1>2. free \in [1..n -> Pieces] /\ IsInjective(free)
  BY DEF ChainInit
<1>3. /\ chain = [c \in Conns |-> <<>>] /\ queued = [c \in Conns |-> 0]
      /\ out = [c \in Conns |-> <<>>] /\ count = n
  BY DEF ChainInit
<1>4. IsFiniteSet(1..n) /\ Cardinality(1..n) = n
  BY <1>1, RangeSize
<1>5. free \in Injection(1..n, Pieces)
  BY <1>2 DEF Injection
<1> HIDE DEF n
<1>6. free \in Surjection(1..n, Pieces)
  <2>1. Cardinality(1..n) = Cardinality(Pieces)
    BY <1>4 DEF n
  <2> QED BY <1>1, <1>5, <2>1, FS_Injection
<1>7. free \in Seq(Pieces) /\ Len(free) = n /\ DOMAIN free = 1..n
  BY <1>1, <1>2
<1>8. Once(free)
  BY <1>2, <1>7 DEF Once, IsInjective
<1>9. \A x \in Pieces : \E i \in 1..Len(free) : free[i] = x
  BY <1>6, <1>7, Fun_SurjectionProperties
<1>10. \A c \in Conns : chain[c] = <<>> /\ Len(chain[c]) = 0 /\ queued[c] = 0 /\ out[c] = <<>>
  BY <1>3
<1>11. ChainTypes
  BY <1>3, <1>7 DEF ChainTypes
<1>12. Placed
  BY <1>8, <1>9, <1>10 DEF Placed, OncePiece
<1>13. \A c \in Conns : InStep(c)
  <2> SUFFICES ASSUME NEW c \in Conns PROVE InStep(c)
    OBVIOUS
  <2>1. Upto(0, 0) = <<>>
    BY UptoEmpty
  <2>2. Len(out[c]) = 0 /\ out[c] = Upto(0, 0)
    BY <1>10, <2>1
  <2>3. Follows(<<>>, 0, 0)
    BY DEF Follows
  <2> QED BY <1>10, <2>2, <2>3 DEF InStep
<1> QED BY <1>11, <1>12, <1>13 DEF ChainInv

LEMMA ChainFacts ==
  ASSUME ChainInv, NEW c \in Conns
  PROVE  /\ chain[c] \in Seq(ItemType) /\ queued[c] \in Nat /\ out[c] \in Seq(Nat)
         /\ Len(out[c]) \in Nat /\ Len(chain[c]) \in Nat
         /\ out[c] = Upto(0, Len(out[c])) /\ Follows(chain[c], Len(out[c]), queued[c])
<1>1. chain[c] \in Seq(ItemType) /\ queued[c] \in Nat /\ out[c] \in Seq(Nat)
  BY DEF ChainInv, ChainTypes
<1>2. Len(out[c]) \in Nat /\ Len(chain[c]) \in Nat
  BY <1>1
<1> QED BY <1>1, <1>2 DEF ChainInv, InStep

(* What one connection's chain, bytes and stream have become, when the       *)
(* others are as before.                                                     *)
LEMMA ChainMoves ==
  ASSUME ChainInv, NEW c \in Conns, Placed', free' \in Seq(Pieces), count' = Len(free'),
         NEW r \in Seq(ItemType), NEW s \in Nat, NEW e \in Nat, Follows(r, s, e),
         chain' = [chain EXCEPT ![c] = r], queued' = [queued EXCEPT ![c] = e],
         out' = [out EXCEPT ![c] = Upto(0, s)]
  PROVE  ChainInv'
<1>1. /\ chain \in [Conns -> Seq(ItemType)] /\ queued \in [Conns -> Nat]
      /\ out \in [Conns -> Seq(Nat)]
  BY DEF ChainInv, ChainTypes
<1>2. Upto(0, s) \in Seq(Nat) /\ Len(Upto(0, s)) = s
  <2>1. Upto(0, s) \in Seq(Nat) /\ Len(Upto(0, s)) = s - 0
    BY UptoFull
  <2> QED BY <2>1
<1>3. /\ chain'[c] = r /\ queued'[c] = e /\ out'[c] = Upto(0, s)
      /\ \A d \in Conns : d # c =>
            chain'[d] = chain[d] /\ queued'[d] = queued[d] /\ out'[d] = out[d]
  BY <1>1
<1>4. ChainTypes'
  BY <1>1, <1>2 DEF ChainTypes
<1>5. ASSUME NEW d \in Conns PROVE InStep(d)'
  <2>1. CASE d = c
    BY <1>2, <1>3, <2>1 DEF InStep
  <2>2. CASE d # c
    BY <1>3, <2>2 DEF InStep, ChainInv
  <2> QED BY <2>1, <2>2
<1> QED BY <1>4, <1>5 DEF ChainInv

LEMMA AppendStep ==
  ASSUME ChainInv, NEW c \in Conns, NEW len \in PieceSizes, NEW first \in BOOLEAN,
         AppendPiece(c, len, first)
  PROVE  ChainInv'
<1> DEFINE q == chain[c]
           r == Append(q, Item(Head(free), len, first, queued[c]))
<1>1. /\ q \in Seq(ItemType) /\ queued[c] \in Nat /\ Len(out[c]) \in Nat
      /\ out[c] = Upto(0, Len(out[c])) /\ Follows(q, Len(out[c]), queued[c])
  BY ChainFacts
<1>2. free \in Seq(Pieces) /\ free # <<>> /\ Head(free) \in Pieces /\ len \in Nat \ {0}
  BY ChainAssumption DEF ChainInv, ChainTypes, AppendPiece
<1>3. /\ r \in Seq(ItemType) /\ Len(r) = Len(q) + 1
      /\ \A i \in 1..Len(q) : r[i] = q[i]
      /\ r[Len(q) + 1].piece = Head(free)
      /\ Follows(r, Len(out[c]), queued[c] + len)
  <2> DEFINE qq == q
             s == Len(out[c])
             e == queued[c]
             h == Head(free)
  <2>1. qq \in Seq(ItemType) /\ s \in Nat /\ e \in Nat /\ h \in Pieces /\ Follows(qq, s, e)
    BY <1>1, <1>2
  <2> HIDE DEF qq, s, e, h
  <2>2. Longer(qq, s, e, h, len, Append(qq, Item(h, len, first, e)))
    BY <1>2, <2>1, AppendFollows
  <2>3. r = Append(qq, Item(h, len, first, e)) /\ qq = q /\ h = Head(free)
        /\ s = Len(out[c]) /\ e = queued[c]
    BY DEF qq, s, e, h
  <2> HIDE DEF q, r
  <2>4. Longer(q, Len(out[c]), queued[c], Head(free), len, r)
    BY <2>2, <2>3
  <2> QED BY <2>4 DEF Longer
<1>4. /\ free' = Tail(free) /\ count' = count - 1 /\ chain' = [chain EXCEPT ![c] = r]
      /\ queued' = [queued EXCEPT ![c] = queued[c] + len] /\ out' = out
  BY DEF AppendPiece
<1> HIDE DEF r
<1>5. Placed' /\ free' \in Seq(Pieces) /\ count' = Len(free')
  BY <1>2, <1>3, <1>4, AppendPlaced DEF ChainInv
<1>6. out' = [out EXCEPT ![c] = Upto(0, Len(out[c]))]
  BY <1>1, <1>4 DEF ChainInv, ChainTypes
<1>7. queued[c] + len \in Nat
  BY <1>1, <1>2
<1> QED BY <1>1, <1>3, <1>4, <1>5, <1>6, <1>7, ChainMoves

LEMMA SendSomeStep ==
  ASSUME ChainInv, NEW c \in Conns, NEW n \in Nat, SendSome(c, n)
  PROVE  ChainInv'
<1> DEFINE q == chain[c]
           k == Passed(q)
           kept == SubSeq(q, k + 1, Len(q))
           p == SubSeq(q, 1, k)
           r == Advance(kept, n)
           s == Len(out[c])
           e == queued[c]
<1>1. /\ q \in Seq(ItemType) /\ e \in Nat /\ s \in Nat /\ out[c] = Upto(0, s)
      /\ Follows(q, s, e) /\ Len(q) \in Nat
  BY ChainFacts
<1>2. /\ q # <<>> /\ n < Len(Unsent(kept)) /\ Put(p)
      /\ chain' = [chain EXCEPT ![c] = r]
      /\ out' = [out EXCEPT ![c] = out[c] \o SubSeq(Unsent(kept), 1, n)]
      /\ queued' = queued
  BY DEF SendSome
<1>3. chain \in [Conns -> Seq(ItemType)] /\ queued \in [Conns -> Nat] /\ out \in [Conns -> Seq(Nat)]
  BY DEF ChainInv, ChainTypes
<1>4. q = chain[c]
  OBVIOUS
<1>5. s = Len(out[c]) /\ e = queued[c]
  OBVIOUS
<1> HIDE DEF q, s, e
<1>6. k \in 0..(Len(q) - 1) /\ \A j \in 1..k : IsSent(q[j])
  BY <1>1, <1>2, PassedFacts
<1> HIDE DEF k
<1>7. /\ kept \in Seq(ItemType) /\ Len(kept) = Len(q) - k /\ kept # <<>>
      /\ \A i \in 1..Len(kept) : kept[i] = q[k + i]
      /\ Follows(kept, s, e)
  BY <1>1, <1>6, KeptFollows
<1>8. p \in Seq(ItemType) /\ Len(p) = k /\ \A i \in 1..k : p[i] = q[i]
  <2>1. \A i \in 1..k : q[i] \in ItemType
    BY <1>1, <1>6
  <2>2. /\ p \in Seq(ItemType)
        /\ Len(p) = (IF 1 <= k THEN k - 1 + 1 ELSE 0)
        /\ \A i \in 1..(k - 1 + 1) : p[i] = q[1 + i - 1]
    BY <1>6, <2>1, SubSeqProperties
  <2>3. Len(p) = k
    BY <1>6, <2>2
  <2>4. \A i \in 1..k : p[i] = q[i]
    <3>1. \A i \in 1..k : i \in 1..(k - 1 + 1) /\ 1 + i - 1 = i
      BY <1>6
    <3> QED BY <2>2, <3>1
  <2> QED BY <2>2, <2>3, <2>4
<1> HIDE DEF kept, p
<1>9. /\ r \in Seq(ItemType) /\ Len(r) = Len(kept)
      /\ \A i \in 1..Len(kept) : r[i].piece = kept[i].piece
      /\ Follows(r, s + n, e)
      /\ SubSeq(Unsent(kept), 1, n) = Upto(s, s + n) /\ s + n <= e
  BY <1>1, <1>2, <1>7, AdvanceFollows
<1> HIDE DEF r
<1>10. Len(r) = Len(q) - k /\ \A i \in 1..Len(r) : r[i].piece = q[k + i].piece
  BY <1>7, <1>9
<1>11. k \in 0..Len(q)
  BY <1>1, <1>6
<1>12. Placed' /\ free' \in Seq(Pieces) /\ count' = Len(free')
  <2>1. ChainTypes /\ Placed
    BY DEF ChainInv
  <2> QED BY <1>2, <1>4, <1>8, <1>9, <1>10, <1>11, <2>1, PutPlaced
<1>13. out' = [out EXCEPT ![c] = Upto(0, s + n)]
  <2>1. Upto(0, s) \o Upto(s, s + n) = Upto(0, s + n)
    <3>1. s + n \in Nat /\ 0 <= s /\ s <= s + n
      BY <1>1
    <3> QED BY <1>1, <3>1, UptoJoins
  <2> QED BY <1>1, <1>2, <1>9, <2>1
<1>14. queued' = [queued EXCEPT ![c] = e]
  BY <1>2, <1>3, <1>5
<1>15. s + n \in Nat
  BY <1>1
<1> QED BY <1>1, <1>2, <1>9, <1>12, <1>13, <1>14, <1>15, ChainMoves

(* The whole chain goes back.                                                *)
LEMMA AllPlaced ==
  ASSUME ChainInv, NEW c \in Conns, Put(chain[c]), chain' = [chain EXCEPT ![c] = <<>>]
  PROVE  Placed' /\ free' \in Seq(Pieces) /\ count' = Len(free')
<1>1. ChainTypes /\ Placed /\ chain[c] \in Seq(ItemType) /\ Len(chain[c]) \in Nat
  BY ChainFacts DEF ChainInv
<1>2. <<>> \in Seq(ItemType) /\ Len(<<>>) = Len(chain[c]) - Len(chain[c])
  BY <1>1
<1>3. Len(chain[c]) \in 0..Len(chain[c])
  BY <1>1
<1>4. \A i \in 1..Len(<<>>) : <<>>[i].piece = chain[c][Len(chain[c]) + i].piece
  OBVIOUS
<1> QED BY <1>1, <1>2, <1>3, <1>4, PutPlaced

LEMMA SendAllStep ==
  ASSUME ChainInv, NEW c \in Conns, SendAll(c)
  PROVE  ChainInv'
<1>1. /\ chain[c] \in Seq(ItemType) /\ queued[c] \in Nat /\ Len(out[c]) \in Nat
      /\ out[c] = Upto(0, Len(out[c])) /\ Follows(chain[c], Len(out[c]), queued[c])
  BY ChainFacts
<1>2. /\ Put(chain[c]) /\ chain' = [chain EXCEPT ![c] = <<>>]
      /\ out' = [out EXCEPT ![c] = out[c] \o Unsent(chain[c])]
      /\ queued' = queued
  BY DEF SendAll
<1>3. Unsent(chain[c]) = Upto(Len(out[c]), queued[c])
  BY <1>1, UnsentIs
<1>4. Upto(0, Len(out[c])) \o Upto(Len(out[c]), queued[c]) = Upto(0, queued[c])
  <2>1. 0 <= Len(out[c]) /\ Len(out[c]) <= queued[c]
    BY <1>1 DEF Follows
  <2> QED BY <1>1, <2>1, UptoJoins
<1>5. out' = [out EXCEPT ![c] = Upto(0, queued[c])]
  BY <1>1, <1>2, <1>3, <1>4
<1>6. queued' = [queued EXCEPT ![c] = queued[c]]
  BY <1>2 DEF ChainInv, ChainTypes
<1>7. Follows(<<>>, queued[c], queued[c]) /\ <<>> \in Seq(ItemType)
  BY <1>1 DEF Follows
<1>8. Placed' /\ free' \in Seq(Pieces) /\ count' = Len(free')
  BY <1>2, AllPlaced
<1> QED BY <1>1, <1>2, <1>5, <1>6, <1>7, <1>8, ChainMoves

LEMMA DropStep ==
  ASSUME ChainInv, NEW c \in Conns, Drop(c)
  PROVE  ChainInv'
<1>1. /\ Put(chain[c]) /\ chain' = [chain EXCEPT ![c] = <<>>]
      /\ queued' = [queued EXCEPT ![c] = 0] /\ out' = [out EXCEPT ![c] = <<>>]
  BY DEF Drop
<1>2. Upto(0, 0) = <<>>
  BY UptoEmpty
<1>3. out' = [out EXCEPT ![c] = Upto(0, 0)]
  BY <1>1, <1>2
<1>4. Follows(<<>>, 0, 0) /\ <<>> \in Seq(ItemType)
  BY DEF Follows
<1>5. Placed' /\ free' \in Seq(Pieces) /\ count' = Len(free')
  BY <1>1, AllPlaced
<1> QED BY <1>1, <1>3, <1>4, <1>5, ChainMoves

LEMMA ChainSame == ChainInv /\ UNCHANGED <<free, count, chain, queued, out>> => ChainInv'
<1> SUFFICES ASSUME ChainInv, UNCHANGED <<free, count, chain, queued, out>> PROVE ChainInv'
  OBVIOUS
<1>1. free' = free /\ count' = count /\ chain' = chain /\ queued' = queued /\ out' = out
  OBVIOUS
<1>2. ChainTypes'
  BY <1>1 DEF ChainInv, ChainTypes
<1>3. Placed'
  BY <1>1 DEF ChainInv, Placed
<1>4. \A c \in Conns : InStep(c)'
  BY <1>1 DEF ChainInv, InStep
<1> QED BY <1>2, <1>3, <1>4 DEF ChainInv

LEMMA ChainStep == ChainInv /\ [Next]_vars => ChainInv'
<1> SUFFICES ASSUME ChainInv, [Next]_vars PROVE ChainInv'
  OBVIOUS
<1>1. CASE UNCHANGED vars
  BY <1>1, ChainSame DEF vars, chainVars
<1>2. CASE Next
  <2>1. PICK c \in Conns : \/ ConnGet(c) \/ Alloc(c) \/ ConnFree(c) \/ UdpGet(c) \/ UdpClose(c)
                           \/ Fill(c) \/ Send(c)
    BY <1>2 DEF Next
  <2>2. CASE ConnGet(c) \/ Alloc(c) \/ UdpGet(c) \/ UdpClose(c)
    <3>1. UNCHANGED chainVars
      BY <2>2 DEF ConnGet, Alloc, UdpGet, UdpClose
    <3> QED BY <3>1, ChainSame DEF chainVars
  <2>3. CASE ConnFree(c)
    BY <2>3, DropStep DEF ConnFree
  <2>4. CASE Fill(c)
    <3>1. CASE AppendNone
      BY <3>1, ChainSame DEF AppendNone
    <3>2. CASE \E len \in PieceSizes, first \in BOOLEAN : AppendPiece(c, len, first)
      BY <3>2, AppendStep
    <3> QED BY <2>4, <3>1, <3>2 DEF Fill
  <2>5. CASE Send(c)
    <3>1. CASE SendAll(c)
      BY <3>1, SendAllStep
    <3>2. CASE \E n \in 0..MaxBytes : SendSome(c, n)
      <4>1. PICK n \in 0..MaxBytes : SendSome(c, n)
        BY <3>2
      <4>2. n \in Nat
        BY ChainAssumption
      <4> QED BY <4>1, <4>2, SendSomeStep
    <3> QED BY <2>5, <3>1, <3>2 DEF Send
  <2> QED BY <2>1, <2>2, <2>3, <2>4, <2>5
<1> QED BY <1>1, <1>2

(* No piece is lost, free twice, or in two chains, and the count is the      *)
(* length of the free list, with any number of pieces and connections        *)
(* (ws_chain_get, ws_chain_put and the walk of ws_chain_get_next).           *)
THEOREM PiecesStayKept == Spec => []PiecesKept
<1>1. Init => ChainInv
  BY ChainStarts DEF Init
<1>2. ChainInv => PiecesKept
  <2> SUFFICES ASSUME ChainInv PROVE PiecesKept
    OBVIOUS
  <2> DEFINE holders(p) == {c \in Conns : p \in ToSet(PiecesOf(chain[c]))}
  <2>1. free \in Seq(Pieces) /\ count = Len(free) /\ DOMAIN free = 1..Len(free)
    BY DEF ChainInv, ChainTypes
  <2>2. ASSUME NEW c \in Conns
        PROVE  /\ DOMAIN PiecesOf(chain[c]) = 1..Len(chain[c])
               /\ \A i \in 1..Len(chain[c]) : PiecesOf(chain[c])[i] = chain[c][i].piece
    <3>1. chain[c] \in Seq(ItemType) /\ DOMAIN chain[c] = 1..Len(chain[c])
      BY ChainFacts
    <3> QED BY <3>1 DEF PiecesOf
  <2>3. IsInjective(free)
    BY <2>1 DEF ChainInv, Placed, Once, IsInjective
  <2>4. \A c \in Conns : IsInjective(PiecesOf(chain[c]))
    BY <2>2 DEF ChainInv, Placed, OncePiece, IsInjective
  <2>5. \A p : p \in ToSet(free) <=> \E i \in 1..Len(free) : free[i] = p
    BY <2>1 DEF ToSet
  <2>6. \A c \in Conns : \A p :
           p \in ToSet(PiecesOf(chain[c])) <=> \E i \in 1..Len(chain[c]) : chain[c][i].piece = p
    BY <2>2 DEF ToSet
  <2>7. ASSUME NEW p \in Pieces
        PROVE  IF p \in ToSet(free) THEN holders(p) = {} ELSE Cardinality(holders(p)) = 1
    <3>1. CASE p \in ToSet(free)
      <4>1. PICK i \in 1..Len(free) : free[i] = p
        BY <2>5, <3>1
      <4>2. ASSUME NEW c \in Conns PROVE p \notin ToSet(PiecesOf(chain[c]))
        <5> SUFFICES ASSUME p \in ToSet(PiecesOf(chain[c])) PROVE FALSE
          OBVIOUS
        <5>1. PICK j \in 1..Len(chain[c]) : chain[c][j].piece = p
          BY <2>6
        <5>2. free[i] # chain[c][j].piece
          BY DEF ChainInv, Placed
        <5> QED BY <4>1, <5>1, <5>2
      <4> QED BY <3>1, <4>2
    <3>2. CASE p \notin ToSet(free)
      <4>1. PICK c \in Conns : \E i \in 1..Len(chain[c]) : chain[c][i].piece = p
        BY <2>5, <3>2 DEF ChainInv, Placed
      <4>2. p \in ToSet(PiecesOf(chain[c]))
        BY <2>6, <4>1
      <4>3. ASSUME NEW d \in Conns, d # c PROVE p \notin ToSet(PiecesOf(chain[d]))
        <5> SUFFICES ASSUME p \in ToSet(PiecesOf(chain[d])) PROVE FALSE
          OBVIOUS
        <5>1. PICK j \in 1..Len(chain[d]) : chain[d][j].piece = p
          BY <2>6
        <5>2. PICK i \in 1..Len(chain[c]) : chain[c][i].piece = p
          BY <4>1
        <5> QED BY <4>3, <5>1, <5>2 DEF ChainInv, Placed
      <4>4. holders(p) = {c}
        BY <4>2, <4>3
      <4>5. Cardinality({c}) = 1
        BY FS_Singleton
      <4> QED BY <3>2, <4>4, <4>5
    <3> QED BY <3>1, <3>2
  <2> QED BY <2>1, <2>3, <2>4, <2>7 DEF PiecesKept
<1> QED BY <1>1, <1>2, ChainStep, PTL DEF Spec

(* What a connection has sent and what its chain still holds are the bytes   *)
(* it was given, each once and in order, for any pieces and any way the      *)
(* kernel cuts them (ws_conn_send_chain).                                    *)
THEOREM ChainsStayInOrder == Spec => []ChainInOrder
<1>1. Init => ChainInv
  BY ChainStarts DEF Init
<1>2. ChainInv => ChainInOrder
  <2> SUFFICES ASSUME ChainInv, NEW c \in Conns
               PROVE  out[c] \o Unsent(chain[c]) = [i \in 1..queued[c] |-> i]
    BY DEF ChainInOrder
  <2>1. /\ chain[c] \in Seq(ItemType) /\ queued[c] \in Nat /\ Len(out[c]) \in Nat
        /\ out[c] = Upto(0, Len(out[c])) /\ Follows(chain[c], Len(out[c]), queued[c])
    BY ChainFacts
  <2>2. Unsent(chain[c]) = Upto(Len(out[c]), queued[c])
    BY <2>1, UnsentIs
  <2>3. 0 <= Len(out[c]) /\ Len(out[c]) <= queued[c]
    BY <2>1 DEF Follows
  <2>4. Upto(0, Len(out[c])) \o Upto(Len(out[c]), queued[c]) = Upto(0, queued[c])
    BY <2>1, <2>3, UptoJoins
  <2>5. out[c] \o Unsent(chain[c]) = Upto(0, queued[c])
    BY <2>1, <2>2, <2>4
  <2>6. Upto(0, queued[c]) = [i \in 1..queued[c] |-> i]
    <3>1. (IF 0 < queued[c] THEN queued[c] - 0 ELSE 0) = queued[c]
      BY <2>1
    <3>2. \A i \in 1..queued[c] : 0 + i = i
      BY <2>1
    <3>3. Upto(0, queued[c]) = [i \in 1..queued[c] |-> 0 + i]
      BY <3>1 DEF Upto
    <3> QED BY <3>2, <3>3
  <2> QED BY <2>5, <2>6
<1> QED BY <1>1, <1>2, ChainStep, PTL DEF Spec

-------------------------------------------------------------------------------
(* Pools.                                                                    *)

LEMMA PoolFields ==
  ASSUME NEW p, GoodPool(p)
  PROVE  /\ p.max \in Nat /\ p.large \subseteq Object /\ p.taken \subseteq Region
         /\ p.chunks \in Seq(ChunkType) /\ Len(p.chunks) \in Nat \ {0}
         /\ DOMAIN p.chunks = 1..Len(p.chunks)
         /\ p = [max |-> p.max, chunks |-> p.chunks, large |-> p.large, taken |-> p.taken]
         /\ p # NoPool
         /\ Objects(p) = ChunkObjects(p) \cup p.large
<1>1. p \in PoolType /\ p.chunks # <<>>
  BY DEF GoodPool
<1>2. /\ p.max \in Nat /\ p.large \subseteq Object /\ p.taken \subseteq Region
      /\ p.chunks \in Seq(ChunkType)
      /\ p = [max |-> p.max, chunks |-> p.chunks, large |-> p.large, taken |-> p.taken]
  BY <1>1 DEF PoolType
<1>3. Len(p.chunks) \in Nat \ {0} /\ DOMAIN p.chunks = 1..Len(p.chunks)
  BY <1>1, <1>2
<1>4. p # NoPool
  <2>1. NoPool.chunks = <<>>
    BY DEF NoPool
  <2> QED BY <1>1, <2>1
<1> QED BY <1>2, <1>3, <1>4 DEF Objects

LEMMA ChunkFields ==
  ASSUME NEW p, GoodPool(p), NEW i \in 1..Len(p.chunks)
  PROVE  /\ p.chunks[i] \in ChunkType
         /\ p.chunks[i].obj \in Object /\ p.chunks[i].cap \in Nat /\ p.chunks[i].last \in Seq(Nat)
         /\ Len(p.chunks[i].last) \in Nat \ {0}
         /\ DOMAIN p.chunks[i].last = 1..Len(p.chunks[i].last)
         /\ p.chunks[i].cap >= p.max + Extra
<1>1. p.chunks \in Seq(ChunkType)
  BY PoolFields
<1>2. p.chunks[i] \in ChunkType
  BY <1>1
<1>3. p.chunks[i].cap >= p.max + Extra /\ p.chunks[i].last # <<>>
  BY DEF GoodPool
<1>4. p.chunks[i].obj \in Object /\ p.chunks[i].cap \in Nat /\ p.chunks[i].last \in Seq(Nat)
  BY <1>2 DEF ChunkType
<1>5. Len(p.chunks[i].last) \in Nat \ {0} /\ DOMAIN p.chunks[i].last = 1..Len(p.chunks[i].last)
  BY <1>3, <1>4
<1> QED BY <1>2, <1>3, <1>4, <1>5

(* The pool when size bytes of the block b of its chunk c are handed out.    *)
LEMMA CarvedPool ==
  ASSUME NEW p, GoodPool(p), NEW c \in 1..Len(p.chunks), NEW b \in 1..Len(p.chunks[c].last),
         NEW size \in Nat, p.chunks[c].last[b] + size <= p.chunks[c].cap,
         NEW r, r = [obj |-> p.chunks[c].obj, block |-> b, from |-> p.chunks[c].last[b],
                     to |-> p.chunks[c].last[b] + size],
         NEW k, k = [obj |-> p.chunks[c].obj, cap |-> p.chunks[c].cap,
                     last |-> [p.chunks[c].last EXCEPT ![b] = @ + size]],
         NEW u, u = [max |-> p.max, chunks |-> [p.chunks EXCEPT ![c] = k], large |-> p.large,
                     taken |-> p.taken \cup {r}]
  PROVE  GoodPool(u) /\ ChunkObjects(u) = ChunkObjects(p) /\ r \in Region
<1> DEFINE old == p.chunks[c]
           n == Len(p.chunks)
<1>1. /\ p.max \in Nat /\ p.large \subseteq Object /\ p.taken \subseteq Region
      /\ p.chunks \in Seq(ChunkType) /\ n \in Nat \ {0} /\ DOMAIN p.chunks = 1..n
  BY PoolFields
<1>2. /\ old \in ChunkType /\ old.obj \in Object /\ old.cap \in Nat /\ old.last \in Seq(Nat)
      /\ Len(old.last) \in Nat \ {0} /\ DOMAIN old.last = 1..Len(old.last)
      /\ old.cap >= p.max + Extra
  BY ChunkFields
<1>3. \A x \in 1..Len(old.last) : /\ old.last[x] \in Nat /\ Header <= old.last[x]
                                  /\ old.last[x] <= old.cap
  <2>1. \A x \in 1..Len(old.last) : Header <= old.last[x] /\ old.last[x] <= old.cap
    BY DEF GoodPool
  <2>2. \A x \in 1..Len(old.last) : old.last[x] \in Nat
    <3> DEFINE f == old.last
    <3>1. f \in Seq(Nat)
      BY <1>2
    <3> HIDE DEF f
    <3>2. \A x \in 1..Len(f) : f[x] \in Nat
      BY <3>1
    <3> QED BY <3>2 DEF f
  <2> QED BY <2>1, <2>2
<1>4. old = p.chunks[c] /\ n = Len(p.chunks)
  OBVIOUS
<1> HIDE DEF old, n
<1>5. /\ k.obj = old.obj /\ k.cap = old.cap /\ k.last = [old.last EXCEPT ![b] = @ + size]
      /\ k \in [obj : {k.obj}, cap : {k.cap}, last : {k.last}]
  BY <1>4
<1>6. /\ k.last \in Seq(Nat) /\ Len(k.last) = Len(old.last)
      /\ k.last[b] = old.last[b] + size /\ b \in 1..Len(old.last)
      /\ \A x \in 1..Len(old.last) : x # b => k.last[x] = old.last[x]
  <2> DEFINE f == old.last
             g == k.last
  <2>1. b \in 1..Len(f)
    BY <1>4
  <2>2. f \in Seq(Nat) /\ Len(f) \in Nat /\ DOMAIN f = 1..Len(f) /\ g = [f EXCEPT ![b] = @ + size]
    BY <1>2, <1>5
  <2> HIDE DEF f, g
  <2>3. f[b] + size \in Nat
    BY <2>1, <2>2
  <2>4. g \in Seq(Nat) /\ Len(g) = Len(f) /\ g[b] = f[b] + size
    BY <2>1, <2>2, <2>3
  <2>5. \A x \in 1..Len(f) : x # b => g[x] = f[x]
    BY <2>2
  <2> QED BY <2>1, <2>4, <2>5 DEF f, g
<1>7. k \in ChunkType
  BY <1>2, <1>5, <1>6 DEF ChunkType
<1>8. /\ u.max = p.max /\ u.large = p.large /\ u.taken = p.taken \cup {r}
      /\ u.chunks = [p.chunks EXCEPT ![c] = k]
  OBVIOUS
<1>9. /\ u.chunks \in Seq(ChunkType) /\ Len(u.chunks) = n /\ DOMAIN u.chunks = 1..n
      /\ u.chunks[c] = k /\ c \in 1..n
      /\ \A i \in 1..n : i # c => u.chunks[i] = p.chunks[i]
  BY <1>1, <1>4, <1>7, <1>8
<1>10. /\ r.obj = old.obj /\ r.block = b /\ r.from = old.last[b]
       /\ r.to = old.last[b] + size
  BY <1>4
<1>11. r \in Region
  <2>1. old.obj \in Nat /\ b \in Nat /\ old.last[b] \in Nat /\ old.last[b] + size \in Nat
    <3>1. old.last[b] \in Nat /\ b \in Nat
      BY <1>3, <1>6
    <3>2. old.last[b] + size \in Nat
      BY <3>1
    <3>3. old.obj \in Nat
      BY <1>2 DEF Object
    <3> QED BY <3>1, <3>2, <3>3
  <2> QED BY <1>4, <2>1 DEF Region
<1>12. u \in PoolType
  <2>1. p.taken \cup {r} \in SUBSET Region
    BY <1>1, <1>11
  <2> QED BY <1>1, <1>8, <1>9, <2>1 DEF PoolType
<1>13. \A i \in 1..n : u.chunks[i].obj = p.chunks[i].obj
  BY <1>4, <1>5, <1>9
<1>14. ASSUME NEW i \in 1..n
       PROVE  /\ u.chunks[i].cap >= u.max + Extra /\ u.chunks[i].last # <<>>
              /\ \A x \in 1..Len(u.chunks[i].last) :
                    Header <= u.chunks[i].last[x] /\ u.chunks[i].last[x] <= u.chunks[i].cap
  <2>1. CASE i = c
    <3>1. u.chunks[i] = k
      BY <1>9, <2>1
    <3>2. k.cap >= u.max + Extra /\ k.last # <<>>
      BY <1>2, <1>5, <1>6, <1>8
    <3>3. ASSUME NEW x \in 1..Len(k.last) PROVE Header <= k.last[x] /\ k.last[x] <= k.cap
      <4>1. CASE x = b
        <5>1. Header <= old.last[b] /\ old.last[b] \in Nat /\ old.last[b] + size <= old.cap
          BY <1>3, <1>4, <1>6
        <5>2. Header \in Nat
          BY PoolAssumption
        <5>3. k.last[x] = old.last[b] + size /\ k.cap = old.cap
          BY <1>5, <1>6, <4>1
        <5>4. old.cap \in Nat
          BY <1>2
        <5> DEFINE y == old.last[b]
                   z == k.last[x]
                   cap == old.cap
        <5>5. /\ Header \in Nat /\ y \in Nat /\ cap \in Nat /\ Header <= y
              /\ y + size <= cap /\ z = y + size
          BY <5>1, <5>2, <5>3, <5>4
        <5> HIDE DEF y, z, cap
        <5>6. Header <= z /\ z <= cap
          BY <5>5
        <5> QED BY <5>3, <5>6 DEF z, cap
      <4>2. CASE x # b
        BY <1>3, <1>5, <1>6, <4>2
      <4> QED BY <4>1, <4>2
    <3> QED BY <3>1, <3>2, <3>3
  <2>2. CASE i # c
    <3>1. u.chunks[i] = p.chunks[i] /\ i \in 1..Len(p.chunks)
      BY <1>4, <1>9, <2>2
    <3> QED BY <1>8, <3>1 DEF GoodPool
  <2> QED BY <2>1, <2>2
<1>15. ASSUME NEW i \in 1..n, NEW j \in 1..n, u.chunks[i].obj = u.chunks[j].obj PROVE i = j
  <2>1. p.chunks[i].obj = p.chunks[j].obj
    BY <1>13, <1>15
  <2> QED BY <1>4, <2>1 DEF GoodPool
<1>16. In(r, k)
  <2>1. Header <= old.last[b] /\ old.last[b] \in Nat
    BY <1>3, <1>6
  <2>2. old.last[b] <= old.last[b] + size
    BY <2>1
  <2>3. r.block \in 1..Len(k.last) /\ r.to = k.last[r.block]
    BY <1>6, <1>10
  <2>4. r.to <= k.last[r.block]
    BY <1>10, <2>1, <2>3
  <2> QED BY <1>5, <1>10, <2>1, <2>2, <2>3, <2>4 DEF In
(* What was handed out before lies in the same chunk, before what is now.    *)
<1>17. ASSUME NEW s \in p.taken
       PROVE  /\ \E i \in 1..n : In(s, u.chunks[i])
              /\ s.obj = r.obj /\ s.block = r.block => s.to <= r.from
  <2>1. PICK i \in 1..n : In(s, p.chunks[i])
    BY <1>4 DEF GoodPool
  <2>2. CASE i # c
    <3>1. In(s, u.chunks[i])
      BY <1>9, <2>1, <2>2
    <3>2. s.obj # r.obj
      <4>1. p.chunks[i].obj # p.chunks[c].obj
        BY <1>4, <1>9, <2>2 DEF GoodPool
      <4> QED BY <1>4, <1>10, <2>1, <4>1 DEF In
    <3> QED BY <3>1, <3>2
  <2>3. CASE i = c
    <3>1. /\ s.obj = old.obj /\ s.block \in 1..Len(old.last)
          /\ Header <= s.from /\ s.from <= s.to /\ s.to <= old.last[s.block]
      BY <1>4, <2>1, <2>3 DEF In
    <3>2. s.to \in Nat /\ old.last[s.block] \in Nat
      BY <1>1, <1>3, <3>1 DEF Region
    <3>3. s.to <= k.last[s.block]
      <4>1. CASE s.block = b
        <5>1. k.last[s.block] = old.last[s.block] + size
          BY <1>6, <4>1
        <5> QED BY <3>1, <3>2, <5>1
      <4>2. CASE s.block # b
        BY <1>6, <3>1, <4>2
      <4> QED BY <4>1, <4>2
    <3>4. In(s, k)
      BY <1>5, <1>6, <3>1, <3>3 DEF In
    <3>5. s.block = r.block => s.to <= r.from
      BY <1>10, <3>1
    <3> QED BY <1>9, <3>4, <3>5
  <2> QED BY <2>2, <2>3
<1>18. \A s \in u.taken : \E i \in 1..n : In(s, u.chunks[i])
  <2>1. In(r, u.chunks[c])
    BY <1>9, <1>16
  <2> SUFFICES ASSUME NEW s \in u.taken PROVE \E i \in 1..n : In(s, u.chunks[i])
    OBVIOUS
  <2>2. CASE s = r
    BY <1>9, <2>1, <2>2
  <2>3. CASE s \in p.taken
    BY <1>17, <2>3
  <2> QED BY <1>8, <2>2, <2>3
<1>19. \A s, t \in u.taken : s # t /\ s.obj = t.obj /\ s.block = t.block => s.to <= t.from \/ t.to <= s.from
  <2>1. \A s, t \in p.taken : s # t /\ s.obj = t.obj /\ s.block = t.block => s.to <= t.from \/ t.to <= s.from
    BY DEF GoodPool
  <2> SUFFICES ASSUME NEW s \in u.taken, NEW t \in u.taken,
                      s # t, s.obj = t.obj, s.block = t.block
               PROVE  s.to <= t.from \/ t.to <= s.from
    OBVIOUS
  <2>2. s \in p.taken \cup {r} /\ t \in p.taken \cup {r}
    BY <1>8
  <2>3. CASE s \in p.taken /\ t \in p.taken
    BY <2>1, <2>3
  <2>4. CASE s \in p.taken /\ t = r
    BY <1>17, <2>4
  <2>5. CASE s = r /\ t \in p.taken
    BY <1>17, <2>5
  <2> QED BY <2>2, <2>3, <2>4, <2>5
<1>20. GoodPool(u)
  <2>1. u.chunks # <<>>
    BY <1>1, <1>9
  <2> QED BY ZenonT(30), <1>9, <1>12, <1>14, <1>15, <1>18, <1>19, <2>1 DEF GoodPool
<1>21. ChunkObjects(u) = ChunkObjects(p)
  <2>1. ChunkObjects(u) = {u.chunks[i].obj : i \in 1..n}
    BY <1>9 DEF ChunkObjects
  <2>2. ChunkObjects(p) = {p.chunks[i].obj : i \in 1..n}
    BY <1>1 DEF ChunkObjects
  <2>3. {u.chunks[i].obj : i \in 1..n} = {p.chunks[i].obj : i \in 1..n}
    BY <1>13
  <2> QED BY <2>1, <2>2, <2>3
<1> QED BY <1>11, <1>20, <1>21

LEMMA InsertSecond ==
  ASSUME NEW s \in Seq(ChunkType), s # <<>>, NEW e \in ChunkType, NEW t, t = InsertAt(s, 2, e)
  PROVE  /\ t \in Seq(ChunkType) /\ Len(t) = Len(s) + 1 /\ t[1] = s[1] /\ t[2] = e
         /\ \A i \in 2..Len(s) : t[i + 1] = s[i]
<1> DEFINE a == SubSeq(s, 1, 1)
           b == <<e>>
           c == SubSeq(s, 2, Len(s))
<1>1. Len(s) \in Nat /\ Len(s) >= 1 /\ \A i \in 1..Len(s) : s[i] \in ChunkType
  OBVIOUS
<1>2. a \in Seq(ChunkType) /\ Len(a) = 1 /\ a[1] = s[1]
  <2>1. \A i \in 1..1 : s[i] \in ChunkType
    BY <1>1
  <2>2. /\ a \in Seq(ChunkType) /\ Len(a) = (IF 1 <= 1 THEN 1 - 1 + 1 ELSE 0)
        /\ \A i \in 1..(1 - 1 + 1) : a[i] = s[1 + i - 1]
    BY <2>1, SubSeqProperties
  <2> QED BY <2>2
<1>3. b \in Seq(ChunkType) /\ Len(b) = 1 /\ b[1] = e
  OBVIOUS
<1>4. c \in Seq(ChunkType) /\ Len(c) = Len(s) - 1 /\ \A i \in 1..(Len(s) - 1) : c[i] = s[i + 1]
  <2>1. \A i \in 2..Len(s) : s[i] \in ChunkType
    BY <1>1
  <2>2. /\ c \in Seq(ChunkType) /\ Len(c) = (IF 2 <= Len(s) THEN Len(s) - 2 + 1 ELSE 0)
        /\ \A i \in 1..(Len(s) - 2 + 1) : c[i] = s[2 + i - 1]
    BY <1>1, <2>1, SubSeqProperties
  <2>3. Len(c) = Len(s) - 1
    <3>1. Len(c) = IF 2 <= Len(s) THEN Len(s) - 2 + 1 ELSE 0
      BY <2>2
    <3> DEFINE n == Len(s)
               l == Len(c)
    <3>2. n \in Nat /\ n >= 1 /\ l = IF 2 <= n THEN n - 2 + 1 ELSE 0
      BY <1>1, <3>1
    <3> HIDE DEF n, l
    <3>3. l = n - 1
      <4>1. CASE 2 <= n
        BY <3>2, <4>1
      <4>2. CASE ~(2 <= n)
        BY <3>2, <4>2
      <4> QED BY <4>1, <4>2
    <3> QED BY <3>3 DEF n, l
  <2>4. \A i \in 1..(Len(s) - 1) : i \in 1..(Len(s) - 2 + 1) /\ 2 + i - 1 = i + 1
    BY <1>1
  <2>5. \A i \in 1..(Len(s) - 1) : c[i] = s[i + 1]
    BY <2>2, <2>4
  <2> QED BY <2>2, <2>3, <2>5
<1>5. t = (a \o b) \o c
  BY DEF InsertAt
<1> HIDE DEF a, b, c
<1>6. /\ a \o b \in Seq(ChunkType) /\ Len(a \o b) = 2
      /\ (a \o b)[1] = s[1] /\ (a \o b)[2] = e
  <2>1. /\ a \o b \in Seq(ChunkType) /\ Len(a \o b) = Len(a) + Len(b)
        /\ \A i \in 1..(Len(a) + Len(b)) : (a \o b)[i] = IF i <= Len(a) THEN a[i] ELSE b[i - Len(a)]
    BY <1>2, <1>3, ConcatProperties
  <2> QED BY <1>2, <1>3, <2>1
<1>7. /\ t \in Seq(ChunkType) /\ Len(t) = 2 + (Len(s) - 1)
      /\ \A i \in 1..(2 + (Len(s) - 1)) : t[i] = IF i <= 2 THEN (a \o b)[i] ELSE c[i - 2]
  <2> DEFINE d == a \o b
  <2>1. d \in Seq(ChunkType) /\ Len(d) = 2
    BY <1>6
  <2>2. t = d \o c
    BY <1>5
  <2> HIDE DEF d
  <2>3. /\ d \o c \in Seq(ChunkType) /\ Len(d \o c) = Len(d) + Len(c)
        /\ \A i \in 1..(Len(d) + Len(c)) : (d \o c)[i] = IF i <= Len(d) THEN d[i] ELSE c[i - Len(d)]
    BY <1>4, <2>1, ConcatProperties
  <2> QED BY <1>4, <2>1, <2>2, <2>3 DEF d
<1>8. Len(t) = Len(s) + 1
  BY <1>1, <1>7
<1>9. t[1] = s[1] /\ t[2] = e
  <2> DEFINE d == a \o b
             m == 2 + (Len(s) - 1)
  <2>1. 1 \in 1..m /\ 2 \in 1..m
    BY <1>1
  <2>2. \A i \in 1..m : i <= 2 => t[i] = d[i]
    BY <1>7
  <2>3. d[1] = s[1] /\ d[2] = e
    BY <1>6
  <2> HIDE DEF d, m
  <2>4. t[1] = d[1] /\ t[2] = d[2]
    BY <2>1, <2>2
  <2> QED BY <2>3, <2>4
<1>10. ASSUME NEW i \in 2..Len(s) PROVE t[i + 1] = s[i]
  <2>1. i - 1 \in 1..(Len(s) - 1) /\ (i - 1) + 1 = i
    BY <1>1
  <2>2. c[i - 1] = s[i]
    BY <1>4, <2>1
  <2>3. i + 1 \in 1..(2 + (Len(s) - 1)) /\ ~(i + 1 <= 2) /\ (i + 1) - 2 = i - 1
    BY <1>1
  <2>4. t[i + 1] = c[i - 1]
    BY <1>7, <2>3
  <2> QED BY <2>2, <2>4
<1> QED BY <1>7, <1>8, <1>9, <1>10

LEMMA InsertedSecond ==
  \A s \in Seq(ChunkType) : \A e \in ChunkType : s # <<>> =>
     \E t : /\ t = InsertAt(s, 2, e) /\ t[1] = s[1] /\ t[2] = e
            /\ \A i \in 2..Len(s) : t[i + 1] = s[i]
BY InsertSecond

(* The pool with a new chunk, inserted second.                               *)
LEMMA GrownPool ==
  ASSUME NEW p, GoodPool(p), NEW obj \in Object, \A i \in 1..Len(p.chunks) : p.chunks[i].obj # obj,
         NEW k, k = Chunk(obj, p.chunks[1].cap, Len(p.chunks[1].last)),
         NEW u, u = [max |-> p.max, chunks |-> InsertAt(p.chunks, 2, k), large |-> p.large,
                     taken |-> p.taken]
  PROVE  /\ GoodPool(u) /\ ChunkObjects(u) = ChunkObjects(p) \cup {obj}
         /\ Len(u.chunks) >= 2 /\ u.chunks[2] = k
         /\ 1 \in 1..Len(k.last) /\ k.last[1] = Header /\ k.cap >= p.max + Extra + Extra
<1> DEFINE n == Len(p.chunks)
           q == p.chunks
<1>1. /\ p.max \in Nat /\ p.large \subseteq Object /\ p.taken \subseteq Region
      /\ q \in Seq(ChunkType) /\ n \in Nat \ {0} /\ DOMAIN q = 1..n
  BY PoolFields
<1>2. /\ q[1].cap \in Nat /\ q[1].cap >= p.max + Extra /\ Len(q[1].last) \in Nat \ {0}
  <2>1. 1 \in 1..Len(p.chunks)
    BY <1>1
  <2> QED BY <2>1, ChunkFields
<1>3. Header \in Nat /\ Extra \in Nat /\ Header <= Extra
  BY PoolAssumption
<1>4. /\ k.obj = obj /\ k.cap = q[1].cap + Extra
      /\ k.last = [b \in 1..Len(q[1].last) |-> Header]
      /\ k = [obj |-> k.obj, cap |-> k.cap, last |-> k.last]
  BY DEF Chunk
<1>5. /\ k.last \in Seq(Nat) /\ Len(k.last) = Len(q[1].last)
      /\ \A b \in 1..Len(k.last) : k.last[b] = Header
  BY <1>2, <1>3, <1>4
<1>6. k.cap \in Nat /\ k.cap >= p.max + Extra + Extra /\ k.cap >= p.max + Extra /\ k.cap >= Header
  <2> DEFINE x == p.max
             y == q[1].cap
  <2>1. x \in Nat /\ y \in Nat /\ y >= x + Extra /\ k.cap = y + Extra
    BY <1>1, <1>2, <1>4
  <2> HIDE DEF x, y
  <2>2. k.cap \in Nat /\ k.cap >= x + Extra + Extra /\ k.cap >= x + Extra /\ k.cap >= Header
    BY <1>3, <2>1
  <2> QED BY <2>2 DEF x
<1>7. k \in ChunkType
  BY <1>4, <1>5, <1>6 DEF ChunkType
<1>8. /\ u.max = p.max /\ u.large = p.large /\ u.taken = p.taken /\ u.chunks = InsertAt(q, 2, k)
  OBVIOUS
<1>9. q = p.chunks /\ n = Len(q) /\ n = Len(p.chunks)
  OBVIOUS
<1> HIDE DEF n, q
<1>10. /\ u.chunks \in Seq(ChunkType) /\ Len(u.chunks) = n + 1
       /\ u.chunks[1] = q[1] /\ u.chunks[2] = k /\ \A i \in 2..n : u.chunks[i + 1] = q[i]
  <2>1. q # <<>>
    BY <1>1, <1>9
  <2>2. InsertAt(q, 2, k) \in Seq(ChunkType) /\ Len(InsertAt(q, 2, k)) = Len(q) + 1
    BY <1>1, <1>7, <2>1, InsertSecond
  <2>3. PICK t : /\ t = InsertAt(q, 2, k) /\ t[1] = q[1] /\ t[2] = k
                 /\ \A i \in 2..Len(q) : t[i + 1] = q[i]
    BY <1>1, <1>7, <2>1, InsertedSecond
  <2> QED BY <1>8, <1>9, <2>2, <2>3
<1>11. DOMAIN u.chunks = 1..(n + 1)
  BY <1>10
<1>12. u \in PoolType
  BY <1>1, <1>8, <1>10 DEF PoolType
(* Every chunk but the second is an old one, and no old one is missing.      *)
<1>13. ASSUME NEW i \in 1..(n + 1), i # 2
       PROVE  \E j \in 1..n : u.chunks[i] = q[j] /\ i = (IF j = 1 THEN 1 ELSE j + 1)
  <2>1. CASE i = 1
    BY <1>1, <1>10, <2>1
  <2>2. CASE i # 1
    <3>1. i - 1 \in 2..n /\ i - 1 \in 1..n /\ (i - 1) + 1 = i /\ i - 1 # 1
      BY <1>1, <1>13, <2>2
    <3>2. u.chunks[i] = q[i - 1]
      BY <1>10, <3>1
    <3> QED BY <3>1, <3>2
  <2> QED BY <2>1, <2>2
<1>14. ASSUME NEW j \in 1..n PROVE \E i \in 1..(n + 1) : u.chunks[i] = q[j]
  <2>1. CASE j = 1
    <3>1. 1 \in 1..(n + 1) /\ u.chunks[1] = q[1]
      BY <1>1, <1>10
    <3> QED BY <2>1, <3>1
  <2>2. CASE j # 1
    <3>1. j \in 2..n /\ j + 1 \in 1..(n + 1)
      BY <1>1, <2>2
    <3> QED BY <1>10, <3>1
  <2> QED BY <2>1, <2>2
<1>15. ASSUME NEW i \in 1..(n + 1)
       PROVE  /\ u.chunks[i].cap >= u.max + Extra /\ u.chunks[i].last # <<>>
              /\ \A x \in 1..Len(u.chunks[i].last) :
                    Header <= u.chunks[i].last[x] /\ u.chunks[i].last[x] <= u.chunks[i].cap
  <2>1. CASE i = 2
    <3>1. u.chunks[i] = k /\ k.last # <<>>
      BY <1>2, <1>5, <1>10, <2>1
    <3>2. k.cap >= u.max + Extra
      BY <1>6, <1>8
    <3>3. \A x \in 1..Len(k.last) : Header <= k.last[x] /\ k.last[x] <= k.cap
      <4> SUFFICES ASSUME NEW x \in 1..Len(k.last) PROVE Header <= k.last[x] /\ k.last[x] <= k.cap
        OBVIOUS
      <4>1. k.last[x] = Header
        BY <1>5
      <4>2. Header <= Header
        BY <1>3
      <4>3. Header <= k.cap
        BY <1>3, <1>6
      <4> QED BY <4>1, <4>2, <4>3
    <3> QED BY <3>1, <3>2, <3>3
  <2>2. CASE i # 2
    <3>1. PICK j \in 1..n : u.chunks[i] = q[j]
      BY <1>13, <2>2
    <3> QED BY ZenonT(30), <1>8, <1>9, <3>1 DEF GoodPool
  <2> QED BY <2>1, <2>2
<1>16. \A i, j \in 1..n : q[i].obj = q[j].obj => i = j
  BY <1>9 DEF GoodPool
<1>17. \A i \in 1..n : q[i].obj # obj
  BY <1>9
<1>18. ASSUME NEW i \in 1..(n + 1), NEW j \in 1..(n + 1), u.chunks[i].obj = u.chunks[j].obj PROVE i = j
  <2>1. CASE i = 2 /\ j = 2
    BY <2>1
  <2>2. CASE i = 2 /\ j # 2
    <3>1. PICK b \in 1..n : u.chunks[j] = q[b]
      BY <1>13, <2>2
    <3>2. u.chunks[i].obj = obj
      BY <1>4, <1>10, <2>2
    <3>3. u.chunks[j].obj # obj
      BY <1>17, <3>1
    <3> QED BY <1>18, <3>2, <3>3
  <2>3. CASE i # 2 /\ j = 2
    <3>1. PICK b \in 1..n : u.chunks[i] = q[b]
      BY <1>13, <2>3
    <3>2. u.chunks[j].obj = obj
      BY <1>4, <1>10, <2>3
    <3>3. u.chunks[i].obj # obj
      BY <1>17, <3>1
    <3> QED BY <1>18, <3>2, <3>3
  <2>4. CASE i # 2 /\ j # 2
    <3>1. PICK a \in 1..n : u.chunks[i] = q[a] /\ i = (IF a = 1 THEN 1 ELSE a + 1)
      BY <1>13, <2>4
    <3>2. PICK b \in 1..n : u.chunks[j] = q[b] /\ j = (IF b = 1 THEN 1 ELSE b + 1)
      BY <1>13, <2>4
    <3>3. a = b
      BY <1>16, <1>18, <3>1, <3>2
    <3> QED BY <3>1, <3>2, <3>3
  <2> QED BY <2>1, <2>2, <2>3, <2>4
<1>19. ASSUME NEW s \in u.taken PROVE \E i \in 1..(n + 1) : In(s, u.chunks[i])
  <2>1. PICK j \in 1..n : In(s, q[j])
    BY <1>8, <1>9 DEF GoodPool
  <2> QED BY <1>14, <2>1
<1>20. \A s, t \in u.taken : s # t /\ s.obj = t.obj /\ s.block = t.block => s.to <= t.from \/ t.to <= s.from
  BY <1>8 DEF GoodPool
<1>21. GoodPool(u)
  <2>1. u.chunks # <<>>
    BY <1>1, <1>10
  <2> DEFINE m == Len(u.chunks)
  <2>2. m = n + 1
    BY <1>10
  <2>3. \A i, j \in 1..m : u.chunks[i].obj = u.chunks[j].obj => i = j
    BY <1>18, <2>2
  <2>4. \A s \in u.taken : \E i \in 1..m : In(s, u.chunks[i])
    BY <1>19, <2>2
  <2>5. \A i \in 1..m :
          /\ u.chunks[i].cap >= u.max + Extra /\ u.chunks[i].last # <<>>
          /\ \A x \in 1..Len(u.chunks[i].last) :
                Header <= u.chunks[i].last[x] /\ u.chunks[i].last[x] <= u.chunks[i].cap
    BY <1>15, <2>2
  <2> QED BY <1>12, <1>20, <2>1, <2>3, <2>4, <2>5 DEF GoodPool
<1>22. ChunkObjects(u) = ChunkObjects(p) \cup {obj}
  <2>1. ChunkObjects(u) = {u.chunks[i].obj : i \in 1..(n + 1)}
    BY <1>11 DEF ChunkObjects
  <2>2. ChunkObjects(p) = {q[i].obj : i \in 1..n}
    BY <1>1, <1>9 DEF ChunkObjects
  <2>3. ASSUME NEW i \in 1..(n + 1) PROVE u.chunks[i].obj \in {q[j].obj : j \in 1..n} \cup {obj}
    <3>1. CASE i = 2
      BY <1>4, <1>10, <3>1
    <3>2. CASE i # 2
      BY <1>13, <3>2
    <3> QED BY <3>1, <3>2
  <2>4. \A j \in 1..n : q[j].obj \in {u.chunks[i].obj : i \in 1..(n + 1)}
    BY <1>14
  <2>5. obj \in {u.chunks[i].obj : i \in 1..(n + 1)}
    <3>0. 2 \in 1..(n + 1)
      BY <1>1
    <3>1. 2 \in 1..(n + 1) /\ u.chunks[2].obj = obj
      BY <1>4, <1>10, <3>0
    <3> QED BY <3>1
  <2>6. ChunkObjects(u) \subseteq ChunkObjects(p) \cup {obj}
    BY <2>1, <2>2, <2>3
  <2>7. ChunkObjects(p) \subseteq ChunkObjects(u)
    BY <2>1, <2>2, <2>4
  <2>8. obj \in ChunkObjects(u)
    BY <2>1, <2>5
  <2> QED BY <2>6, <2>7, <2>8
<1>23. 1 \in 1..Len(k.last) /\ k.last[1] = Header
  BY <1>2, <1>5
<1>24. Len(u.chunks) >= 2 /\ u.chunks[2] = k
  BY <1>1, <1>10
<1> QED BY <1>6, <1>21, <1>22, <1>23, <1>24

-------------------------------------------------------------------------------
(* The memory, operation by operation.                                       *)

LEMMA MemoryFields ==
  ASSUME NEW m \in MemoryType
  PROVE  /\ m.heap \subseteq Nat /\ m.next \in Object /\ m.next \in Nat /\ m.left \in Nat
         /\ m.orphans \subseteq Nat /\ m.twice \in BOOLEAN /\ m.pool \in PoolType \cup {NoPool}
         /\ m.got \in Region
         /\ m = [heap |-> m.heap, next |-> m.next, left |-> m.left, orphans |-> m.orphans,
                 twice |-> m.twice, pool |-> m.pool, got |-> m.got]
BY DEF MemoryType, Object

LEMMA NoRegionFacts == NoRegion \in Region /\ NoRegion.obj = 0
BY DEF NoRegion, Region

LEMMA MallocFails ==
  ASSUME NEW m \in MemoryType, m.left = 0
  PROVE  /\ Malloc(m) \in MemoryType /\ Failed(Malloc(m))
         /\ Malloc(m).heap = m.heap /\ Malloc(m).next = m.next /\ Malloc(m).orphans = m.orphans
         /\ Malloc(m).twice = m.twice /\ Malloc(m).pool = m.pool
<1>1. Malloc(m) = [m EXCEPT !.got = NoRegion]
  BY DEF Malloc
<1>2. Malloc(m) = [heap |-> m.heap, next |-> m.next, left |-> m.left, orphans |-> m.orphans,
                   twice |-> m.twice, pool |-> m.pool, got |-> NoRegion]
  BY <1>1, MemoryFields
<1> QED BY <1>2, MemoryFields, NoRegionFacts DEF MemoryType, Failed

LEMMA MallocGives ==
  ASSUME NEW m \in MemoryType, m.left # 0
  PROVE  /\ Malloc(m) \in MemoryType /\ ~Failed(Malloc(m)) /\ Malloc(m).got.obj = m.next
         /\ Malloc(m).heap = m.heap \cup {m.next} /\ Malloc(m).next = m.next + 1
         /\ Malloc(m).orphans = m.orphans
         /\ Malloc(m).twice = m.twice /\ Malloc(m).pool = m.pool
<1> DEFINE g == [obj |-> m.next, block |-> 0, from |-> 0, to |-> 0]
<1>1. [NoRegion EXCEPT !.obj = m.next] = g
  BY DEF NoRegion
<1>2. g \in Region /\ g.obj = m.next /\ g # NoRegion
  <2>1. g.obj = m.next /\ m.next \in Nat /\ m.next # 0
    BY MemoryFields DEF Object
  <2> QED BY <2>1, NoRegionFacts DEF Region
<1> HIDE DEF g
<1>3. Malloc(m) = [m EXCEPT !.heap = m.heap \cup {m.next}, !.next = m.next + 1,
                            !.left = m.left - 1, !.got = g]
  BY <1>1 DEF Malloc
<1>4. Malloc(m) = [heap |-> m.heap \cup {m.next}, next |-> m.next + 1, left |-> m.left - 1,
                   orphans |-> m.orphans, twice |-> m.twice, pool |-> m.pool, got |-> g]
  <2> DEFINE h == m.heap \cup {m.next}
             n == m.next + 1
             l == m.left - 1
  <2>1. m = [heap |-> m.heap, next |-> m.next, left |-> m.left, orphans |-> m.orphans,
             twice |-> m.twice, pool |-> m.pool, got |-> m.got]
    BY MemoryFields
  <2>2. Malloc(m) = [m EXCEPT !.heap = h, !.next = n, !.left = l, !.got = g]
    BY <1>3
  <2> HIDE DEF h, n, l
  <2>3. Malloc(m) = [heap |-> h, next |-> n, left |-> l, orphans |-> m.orphans,
                     twice |-> m.twice, pool |-> m.pool, got |-> g]
    BY <2>1, <2>2
  <2> QED BY <2>3 DEF h, n, l
<1>5. m.heap \cup {m.next} \in SUBSET Nat /\ m.next + 1 \in Object /\ m.left - 1 \in Nat
  BY MemoryFields DEF Object
<1>6. Malloc(m) \in MemoryType
  BY <1>2, <1>4, <1>5, MemoryFields DEF MemoryType
<1> QED BY <1>2, <1>4, <1>6 DEF Failed

(* What a new object does to a memory in which a pool lives: the object is   *)
(* nobody's yet.                                                             *)
LEMMA MallocGood ==
  ASSUME NEW m, NEW theirs, Good(m, theirs), m.left # 0
  PROVE  /\ Good(Malloc(m), theirs \cup {m.next}) /\ Malloc(m).pool = m.pool
         /\ m.next \notin theirs /\ m.next \notin Objects(m.pool) /\ m.next \notin m.orphans
<1>1. /\ m \in MemoryType /\ ~m.twice
      /\ m.heap = m.orphans \cup theirs \cup Objects(m.pool)
      /\ theirs \cap Objects(m.pool) = {} /\ theirs \cap m.orphans = {}
      /\ Objects(m.pool) \cap m.orphans = {}
      /\ \A x \in m.heap : x < m.next
      /\ GoodPool(m.pool)
  BY DEF Good, Holding
<1>2. m.heap \subseteq Nat /\ m.next \in Nat
  BY <1>1, MemoryFields
<1>3. m.next \notin m.heap
  BY <1>1, <1>2
<1> DEFINE a == Malloc(m)
<1>4. /\ a \in MemoryType /\ a.heap = m.heap \cup {m.next} /\ a.next = m.next + 1
      /\ a.orphans = m.orphans /\ a.twice = m.twice /\ a.pool = m.pool
  BY <1>1, MallocGives
<1> HIDE DEF a
<1>5. \A x \in a.heap : x < a.next
  BY <1>1, <1>2, <1>4
<1>6. Holding(a, theirs \cup {m.next})
  BY <1>1, <1>3, <1>4, <1>5 DEF Holding
<1>7. Good(a, theirs \cup {m.next})
  BY <1>1, <1>4, <1>6 DEF Good
<1> QED BY <1>1, <1>3, <1>4, <1>7 DEF a

LEMMA PoolRebuilt ==
  ASSUME NEW p \in PoolType, NEW cs, NEW ts, NEW q, q = [p EXCEPT !.chunks = cs, !.taken = ts]
  PROVE  q = [max |-> p.max, chunks |-> cs, large |-> p.large, taken |-> ts]
BY DEF PoolType

LEMMA CarveGood ==
  ASSUME NEW m, NEW theirs, Good(m, theirs), NEW c \in 1..Len(m.pool.chunks),
         NEW b \in 1..Len(m.pool.chunks[c].last), NEW size \in Nat,
         m.pool.chunks[c].last[b] + size <= m.pool.chunks[c].cap
  PROVE  /\ Good(Carve(m, c, b, size), theirs)
         /\ Carve(m, c, b, size).pool.max = m.pool.max
<1> DEFINE p == m.pool
           old == p.chunks[c]
           r == [obj |-> old.obj, block |-> b, from |-> old.last[b], to |-> old.last[b] + size]
           k == [obj |-> old.obj, cap |-> old.cap, last |-> [old.last EXCEPT ![b] = @ + size]]
           u == [max |-> p.max, chunks |-> [p.chunks EXCEPT ![c] = k], large |-> p.large,
                 taken |-> p.taken \cup {r}]
           v == Carve(m, c, b, size)
<1>1. /\ m \in MemoryType /\ ~m.twice
      /\ m.heap = m.orphans \cup theirs \cup Objects(p)
      /\ theirs \cap Objects(p) = {} /\ theirs \cap m.orphans = {}
      /\ Objects(p) \cap m.orphans = {}
      /\ \A x \in m.heap : x < m.next
      /\ GoodPool(p)
  BY DEF Good, Holding
<1>2. /\ GoodPool(u) /\ ChunkObjects(u) = ChunkObjects(p) /\ r \in Region
  BY <1>1, CarvedPool
<1>3. v = [heap |-> m.heap, next |-> m.next, left |-> m.left, orphans |-> m.orphans,
           twice |-> m.twice, pool |-> u, got |-> r]
  <2>1. old = [obj |-> old.obj, cap |-> old.cap, last |-> old.last]
    <3>1. old \in ChunkType
      BY <1>1, ChunkFields
    <3> HIDE DEF old
    <3> QED BY <3>1 DEF ChunkType
  <2>2. [old EXCEPT !.last[b] = @ + size] = k
    <3> DEFINE l == [old.last EXCEPT ![b] = @ + size]
    <3>1. [old EXCEPT !.last[b] = @ + size] = [old EXCEPT !.last = l]
      OBVIOUS
    <3> HIDE DEF l, old
    <3>2. [old EXCEPT !.last = l] = [obj |-> old.obj, cap |-> old.cap, last |-> l]
      BY <2>1
    <3> QED BY <3>1, <3>2 DEF l
  <2>3. p = [max |-> p.max, chunks |-> p.chunks, large |-> p.large, taken |-> p.taken]
    BY <1>1, PoolFields
  <2>4. m = [heap |-> m.heap, next |-> m.next, left |-> m.left, orphans |-> m.orphans,
             twice |-> m.twice, pool |-> m.pool, got |-> m.got]
    BY <1>1, MemoryFields
  <2>5. v = [m EXCEPT !.pool = [p EXCEPT !.chunks = [p.chunks EXCEPT ![c] = [old EXCEPT !.last[b] = @ + size]],
                                         !.taken = p.taken \cup {r}],
                      !.got = r]
    BY <2>3, <2>4 DEF Carve
  <2>6. v = [m EXCEPT !.pool = [p EXCEPT !.chunks = [p.chunks EXCEPT ![c] = k], !.taken = p.taken \cup {r}],
                      !.got = r]
    BY <2>2, <2>5
  <2> DEFINE cs == [p.chunks EXCEPT ![c] = k]
             ts == p.taken \cup {r}
  <2>7. p \in PoolType
    BY <1>1 DEF GoodPool
  <2>8. [p EXCEPT !.chunks = cs, !.taken = ts] = u
    <3> HIDE DEF cs, ts
    <3>1. [p EXCEPT !.chunks = cs, !.taken = ts]
            = [max |-> p.max, chunks |-> cs, large |-> p.large, taken |-> ts]
      BY <2>7, PoolRebuilt
    <3> QED BY <3>1 DEF cs, ts
  <2>9. v = [m EXCEPT !.pool = u, !.got = r]
    BY <2>6, <2>8
  <2> HIDE DEF u, r, v
  <2> QED BY <2>4, <2>9
<1>4. u.max = p.max /\ u.large = p.large
  OBVIOUS
<1> HIDE DEF u, r, v
<1>5. Objects(u) = Objects(p)
  <2>1. Objects(p) = ChunkObjects(p) \cup p.large /\ Objects(u) = ChunkObjects(u) \cup u.large
    BY <1>1, <1>2, PoolFields
  <2> QED BY <1>2, <1>4, <2>1
<1>6. u \in PoolType
  BY <1>2 DEF GoodPool
<1>7. /\ v.heap = m.heap /\ v.next = m.next /\ v.orphans = m.orphans /\ v.twice = m.twice
      /\ v.pool = u
  BY <1>3
<1>8. v \in MemoryType
  BY <1>1, <1>2, <1>3, <1>6, MemoryFields DEF MemoryType
<1>9. Holding(v, theirs)
  BY <1>1, <1>5, <1>7, <1>8 DEF Holding
<1> QED BY <1>2, <1>4, <1>7, <1>9 DEF Good, v

LEMMA SameGood ==
  ASSUME NEW m, NEW theirs, Good(m, theirs), NEW v \in MemoryType,
         v.heap = m.heap, v.next = m.next, v.orphans = m.orphans, v.twice = m.twice,
         v.pool = m.pool
  PROVE  Good(v, theirs)
BY DEF Good, Holding

LEMMA NothingFields ==
  ASSUME NEW m \in MemoryType
  PROVE  [m EXCEPT !.got = NoRegion]
           = [heap |-> m.heap, next |-> m.next, left |-> m.left, orphans |-> m.orphans,
              twice |-> m.twice, pool |-> m.pool, got |-> NoRegion]
BY MemoryFields

LEMMA NothingGood ==
  ASSUME NEW m, NEW theirs, Good(m, theirs)
  PROVE  /\ Good([m EXCEPT !.got = NoRegion], theirs)
         /\ [m EXCEPT !.got = NoRegion].pool = m.pool
<1> DEFINE v == [m EXCEPT !.got = NoRegion]
<1>1. m \in MemoryType
  BY DEF Good, Holding
<1>2. v = [heap |-> m.heap, next |-> m.next, left |-> m.left, orphans |-> m.orphans,
           twice |-> m.twice, pool |-> m.pool, got |-> NoRegion]
  BY <1>1, NothingFields
<1> HIDE DEF v
<1>3. v \in MemoryType
  BY <1>1, <1>2, MemoryFields, NoRegionFacts DEF MemoryType
<1>4. /\ v.heap = m.heap /\ v.next = m.next /\ v.orphans = m.orphans /\ v.twice = m.twice
      /\ v.pool = m.pool
  BY <1>2
<1>5. Good(v, theirs)
  BY <1>3, <1>4, SameGood
<1> QED BY <1>4, <1>5 DEF v

LEMMA FullGood ==
  ASSUME NEW m, NEW theirs, Good(m, theirs), m.left = 0
  PROVE  Good(Malloc(m), theirs) /\ Malloc(m).pool = m.pool /\ Failed(Malloc(m))
<1>1. m \in MemoryType
  BY DEF Good, Holding
<1> DEFINE a == Malloc(m)
<1>2. /\ a \in MemoryType /\ Failed(a) /\ a.heap = m.heap /\ a.next = m.next
      /\ a.orphans = m.orphans /\ a.twice = m.twice /\ a.pool = m.pool
  BY <1>1, MallocFails
<1> HIDE DEF a
<1>3. Good(a, theirs)
  BY <1>2, SameGood
<1> QED BY <1>2, <1>3 DEF a

LEMMA PallocBlockGood ==
  ASSUME NEW m, NEW theirs, Good(m, theirs), NEW size \in Nat, size <= m.pool.max
  PROVE  /\ Good(PallocBlock(m, size), theirs)
         /\ PallocBlock(m, size).pool.max = m.pool.max
<1>1. m \in MemoryType /\ GoodPool(m.pool)
  BY DEF Good, Holding
<1>2. CASE m.left = 0
  <2>1. Good(Malloc(m), theirs) /\ Malloc(m).pool = m.pool /\ Failed(Malloc(m))
    BY <1>2, FullGood
  <2>2. PallocBlock(m, size) = Malloc(m)
    BY <2>1 DEF PallocBlock
  <2> QED BY <2>1, <2>2
<1>3. CASE m.left # 0
  <2> DEFINE a == Malloc(m)
             p == m.pool
             k == Chunk(m.next, p.chunks[1].cap, Len(p.chunks[1].last))
             u == [max |-> p.max, chunks |-> InsertAt(p.chunks, 2, k), large |-> p.large,
                   taken |-> p.taken]
             g == [a EXCEPT !.pool.chunks = InsertAt(@, 2, k)]
  <2>1. /\ Good(a, theirs \cup {m.next}) /\ a.pool = p
        /\ m.next \notin theirs /\ m.next \notin Objects(p) /\ m.next \notin m.orphans
    BY <1>3, MallocGood
  <2>2. a \in MemoryType /\ ~Failed(a) /\ a.got.obj = m.next /\ a.orphans = m.orphans
    BY <1>1, <1>3, MallocGives
  <2>3. m.next \in Object
    BY <1>1, MemoryFields
  <2>4. \A i \in 1..Len(p.chunks) : p.chunks[i].obj # m.next
    <3>1. Objects(p) = ChunkObjects(p) \cup p.large /\ DOMAIN p.chunks = 1..Len(p.chunks)
      BY <1>1, PoolFields
    <3> QED BY <2>1, <3>1 DEF ChunkObjects
  <2>5. /\ GoodPool(u) /\ ChunkObjects(u) = ChunkObjects(p) \cup {m.next}
        /\ Len(u.chunks) >= 2 /\ u.chunks[2] = k
        /\ 1 \in 1..Len(k.last) /\ k.last[1] = Header /\ k.cap >= p.max + Extra + Extra
    BY <1>1, <2>3, <2>4, GrownPool
  <2>6. u.max = p.max /\ u.large = p.large
    OBVIOUS
  <2>7. PallocBlock(m, size) = Carve(g, 2, 1, size)
    BY <2>2 DEF PallocBlock
  <2>8. g = [heap |-> a.heap, next |-> a.next, left |-> a.left, orphans |-> a.orphans,
             twice |-> a.twice, pool |-> u, got |-> a.got]
    <3>1. a = [heap |-> a.heap, next |-> a.next, left |-> a.left, orphans |-> a.orphans,
               twice |-> a.twice, pool |-> a.pool, got |-> a.got]
      BY <2>2, MemoryFields
    <3> DEFINE cs == InsertAt(p.chunks, 2, k)
    <3>2. g = [a EXCEPT !.pool = [p EXCEPT !.chunks = cs]]
      BY <2>1, <2>2, <3>1
    <3>3. p = [max |-> p.max, chunks |-> p.chunks, large |-> p.large, taken |-> p.taken]
      BY <1>1, PoolFields
    <3>4. [p EXCEPT !.chunks = cs] = u
      <4> HIDE DEF cs
      <4>1. [p EXCEPT !.chunks = cs]
              = [max |-> p.max, chunks |-> cs, large |-> p.large, taken |-> p.taken]
        BY <3>3
      <4> QED BY <4>1 DEF cs
    <3>5. g = [a EXCEPT !.pool = u]
      BY <3>2, <3>4
    <3> HIDE DEF u, g, a
    <3> QED BY <3>1, <3>5
  <2> HIDE DEF u, g, a, k
  <2>9. u \in PoolType
    BY <2>5 DEF GoodPool
  <2>10. /\ g.heap = a.heap /\ g.next = a.next /\ g.orphans = a.orphans /\ g.twice = a.twice
         /\ g.pool = u
    BY <2>8
  <2>11. g \in MemoryType
    BY <2>2, <2>8, <2>9, MemoryFields DEF MemoryType
  <2>12. Objects(u) = Objects(p) \cup {m.next}
    <3>1. Objects(p) = ChunkObjects(p) \cup p.large /\ Objects(u) = ChunkObjects(u) \cup u.large
      BY <1>1, <2>5, PoolFields
    <3> QED BY <2>5, <2>6, <3>1
  <2>13. /\ ~a.twice
         /\ a.heap = a.orphans \cup (theirs \cup {m.next}) \cup Objects(p)
         /\ (theirs \cup {m.next}) \cap Objects(p) = {} /\ (theirs \cup {m.next}) \cap a.orphans = {}
         /\ Objects(p) \cap a.orphans = {}
         /\ \A x \in a.heap : x < a.next
    BY <2>1 DEF Good, Holding
  <2>14. Holding(g, theirs)
    BY <2>1, <2>10, <2>11, <2>12, <2>13 DEF Holding
  <2>15. Good(g, theirs)
    BY <2>5, <2>10, <2>14 DEF Good
  <2>16. Len(u.chunks) \in Nat /\ p.max \in Nat
    BY <1>1, <2>5, PoolFields
  <2>17. /\ 2 \in 1..Len(g.pool.chunks) /\ 1 \in 1..Len(g.pool.chunks[2].last)
         /\ g.pool.chunks[2].last[1] = Header /\ g.pool.chunks[2].cap = k.cap
    BY <2>5, <2>10, <2>16
  <2>18. Header + size <= k.cap
    <3>1. k.cap \in Nat
      <4>1. u.chunks[2].cap \in Nat
        <5>1. 2 \in 1..Len(u.chunks)
          BY <2>5, <2>16
        <5> QED BY <2>5, <5>1, ChunkFields
      <4> QED BY <2>5, <4>1
    <3>2. p.max \in Nat /\ size <= p.max /\ k.cap >= p.max + Extra + Extra
      BY <2>5, <2>16
    <3> QED BY <3>1, <3>2, PoolAssumption
  <2>19. g.pool.chunks[2].last[1] + size <= g.pool.chunks[2].cap
    BY <2>17, <2>18
  <2>20. Good(Carve(g, 2, 1, size), theirs) /\ Carve(g, 2, 1, size).pool.max = g.pool.max
    BY <2>15, <2>17, <2>19, CarveGood
  <2> QED BY <2>6, <2>7, <2>10, <2>20
<1> QED BY <1>2, <1>3

LEMMA FirstFitGood ==
  ASSUME NEW m, NEW theirs, Good(m, theirs), NEW size \in Nat, size <= m.pool.max
  PROVE  /\ Good(FirstFit(m, size), theirs)
         /\ FirstFit(m, size).pool.max = m.pool.max
<1> DEFINE c == CurrentIn(m.pool)
           fits == Fits(m.pool.chunks[c], size)
<1>1. GoodPool(m.pool)
  BY DEF Good
<1>2. c \in 1..Len(m.pool.chunks)
  <2>1. Len(m.pool.chunks) \in Nat \ {0}
    BY <1>1, PoolFields
  <2> DEFINE n == Len(m.pool.chunks)
  <2>2. n \in Nat \ {0} /\ c = IF n = 1 THEN 1 ELSE 2
    BY <2>1 DEF CurrentIn
  <2> HIDE DEF n, c
  <2>3. CASE n = 1
    BY <2>2, <2>3 DEF n
  <2>4. CASE n # 1
    <3>1. c = 2 /\ 2 \in 1..n
      BY <2>2, <2>4
    <3> QED BY <3>1 DEF n
  <2> QED BY <2>3, <2>4
<1> HIDE DEF c
<1>3. CASE fits = {}
  <2>1. FirstFit(m, size) = PallocBlock(m, size)
    BY <1>3 DEF FirstFit, c
  <2> QED BY <2>1, PallocBlockGood
<1>4. CASE fits # {}
  <2> DEFINE k == m.pool.chunks[c]
             b == Min(fits)
  <2>1. FirstFit(m, size) = Carve(m, c, b, size)
    BY <1>4 DEF FirstFit, c
  <2>2. k.cap \in Nat /\ k.last \in Seq(Nat) /\ DOMAIN k.last = 1..Len(k.last) /\ Len(k.last) \in Nat
    BY <1>1, <1>2, ChunkFields
  <2>3. fits \in SUBSET Nat
    BY <2>2 DEF Fits
  <2>4. b \in fits
    <3> HIDE DEF fits
    <3> QED BY <1>4, <2>3, MinFacts
  <2> HIDE DEF b
  <2>5. b \in 1..Len(k.last) /\ k.cap - k.last[b] >= size
    BY <2>2, <2>4 DEF Fits
  <2>6. k.last[b] \in Nat
    <3> DEFINE l == k.last
    <3>1. l \in Seq(Nat) /\ b \in 1..Len(l)
      BY <2>2, <2>5
    <3> HIDE DEF l
    <3>2. l[b] \in Nat
      BY <3>1
    <3> QED BY <3>2 DEF l
  <2>7. k.last[b] + size <= k.cap
    <3> DEFINE x == k.last[b]
               y == k.cap
    <3>1. x \in Nat /\ y \in Nat /\ y - x >= size
      BY <2>2, <2>5, <2>6
    <3> HIDE DEF x, y
    <3>2. x + size <= y
      BY <3>1
    <3> QED BY <3>2 DEF x, y
  <2> QED BY ZenonT(30), <1>2, <2>1, <2>5, <2>7, CarveGood
<1> QED BY <1>3, <1>4

LEMMA PoolMallocGood ==
  ASSUME NEW m, NEW theirs, Good(m, theirs), NEW size \in Nat
  PROVE  /\ Good(PoolMalloc(m, size), theirs)
         /\ PoolMalloc(m, size).pool.max = m.pool.max
<1>1. m.pool.max \in Nat
  BY PoolFields DEF Good
<1>2. CASE size > m.pool.max
  <2>1. PoolMalloc(m, size) = [m EXCEPT !.got = NoRegion]
    BY <1>2 DEF PoolMalloc
  <2> QED BY <2>1, NothingGood
<1>3. CASE ~(size > m.pool.max)
  <2>1. PoolMalloc(m, size) = FirstFit(m, size) /\ size <= m.pool.max
    BY <1>1, <1>3 DEF PoolMalloc
  <2> QED BY <2>1, FirstFitGood
<1> QED BY <1>2, <1>3

LEMMA PallocLargeGood ==
  ASSUME NEW m, NEW theirs, Good(m, theirs), NEW size \in Nat
  PROVE  Good(PallocLarge(m, size), theirs)
<1>1. m \in MemoryType /\ GoodPool(m.pool)
  BY DEF Good, Holding
<1>2. CASE m.left = 0
  <2>1. Good(Malloc(m), theirs) /\ Failed(Malloc(m))
    BY <1>2, FullGood
  <2>2. PallocLarge(m, size) = Malloc(m)
    BY <2>1 DEF PallocLarge
  <2> QED BY <2>1, <2>2
<1>3. CASE m.left # 0
  <2> DEFINE a == Malloc(m)
             data == m.next
             r == PoolMalloc(a, LargeRecord)
  <2>1. /\ Good(a, theirs \cup {data}) /\ a.pool = m.pool /\ data \notin theirs
    BY <1>3, MallocGood
  <2>2. ~Failed(a) /\ a.got.obj = data
    BY <1>1, <1>3, MallocGives
  <2>3. data \in Object /\ data \in Nat
    BY <1>1, MemoryFields
  <2>4. LargeRecord \in Nat
    BY PoolAssumption
  <2>5. Good(r, theirs \cup {data})
    <3> HIDE DEF a, data
    <3> QED BY <2>1, <2>4, PoolMallocGood
  <2>6. PallocLarge(m, size) =
          IF Failed(r) THEN [r EXCEPT !.orphans = @ \cup {data}]
          ELSE [r EXCEPT !.pool.large = @ \cup {data},
                         !.got = [obj |-> data, block |-> 0, from |-> 0, to |-> size]]
    BY <2>2 DEF PallocLarge
  <2> HIDE DEF a, data, r
  <2>7. /\ r \in MemoryType /\ ~r.twice
        /\ r.heap = r.orphans \cup (theirs \cup {data}) \cup Objects(r.pool)
        /\ (theirs \cup {data}) \cap Objects(r.pool) = {} /\ (theirs \cup {data}) \cap r.orphans = {}
        /\ Objects(r.pool) \cap r.orphans = {}
        /\ \A x \in r.heap : x < r.next
        /\ GoodPool(r.pool)
    BY <2>5 DEF Good, Holding
  <2>8. r = [heap |-> r.heap, next |-> r.next, left |-> r.left, orphans |-> r.orphans,
             twice |-> r.twice, pool |-> r.pool, got |-> r.got]
    BY <2>7, MemoryFields
  <2>9. CASE Failed(r)
    <3> DEFINE o == r.orphans \cup {data}
               v == [r EXCEPT !.orphans = o]
    <3>1. PallocLarge(m, size) = v
      BY <2>6, <2>9
    <3> HIDE DEF o
    <3>2. v = [heap |-> r.heap, next |-> r.next, left |-> r.left, orphans |-> o,
               twice |-> r.twice, pool |-> r.pool, got |-> r.got]
      BY <2>8
    <3> HIDE DEF v
    <3>3. o \in SUBSET Nat /\ o = r.orphans \cup {data}
      BY <2>3, <2>7, MemoryFields DEF o
    <3>4. v \in MemoryType
      BY <2>7, <3>2, <3>3, MemoryFields DEF MemoryType
    <3>5. /\ v.heap = r.heap /\ v.next = r.next /\ v.orphans = o /\ v.twice = r.twice
          /\ v.pool = r.pool
      BY <3>2
    <3>6. v.heap = v.orphans \cup theirs \cup Objects(v.pool)
      BY <2>7, <3>3, <3>5
    <3>7. theirs \cap Objects(v.pool) = {} /\ theirs \cap v.orphans = {} /\ Objects(v.pool) \cap v.orphans = {}
      BY <2>1, <2>7, <3>3, <3>5
    <3>8. Holding(v, theirs)
      BY <2>7, <3>4, <3>5, <3>6, <3>7 DEF Holding
    <3>9. Good(v, theirs)
      BY <2>7, <3>5, <3>8 DEF Good
    <3> QED BY <3>1, <3>9
  <2>10. CASE ~Failed(r)
    <3> DEFINE p == r.pool
               l == p.large \cup {data}
               u == [max |-> p.max, chunks |-> p.chunks, large |-> l, taken |-> p.taken]
               g == [obj |-> data, block |-> 0, from |-> 0, to |-> size]
               v == [r EXCEPT !.pool.large = l, !.got = g]
    <3>1. PallocLarge(m, size) = v
      BY <2>6, <2>10
    <3>2. [p EXCEPT !.large = l] = u
      <4>1. p = [max |-> p.max, chunks |-> p.chunks, large |-> p.large, taken |-> p.taken]
        BY <2>7, PoolFields
      <4> HIDE DEF l
      <4> QED BY <4>1
    <3>3. v = [r EXCEPT !.pool = u, !.got = g]
      BY <2>8, <3>2
    <3> DEFINE w == v
    <3>4. /\ p.max \in Nat /\ p.large \subseteq Object /\ p.taken \subseteq Region
          /\ p.chunks \in Seq(ChunkType) /\ Objects(p) = ChunkObjects(p) \cup p.large
      BY <2>7, PoolFields
    <3>5. l \in SUBSET Object
      BY <2>3, <3>4
    <3>6. /\ u.max = p.max /\ u.chunks = p.chunks /\ u.large = l /\ u.taken = p.taken
      OBVIOUS
    <3>7. u \in PoolType
      BY <3>4, <3>5 DEF PoolType
    <3>8. g \in Region
      BY <2>3 DEF Region
    <3>9. GoodPool(p)
      BY <2>7
    <3> HIDE DEF u, g, v, l, w, p
    <3>10. v = [heap |-> r.heap, next |-> r.next, left |-> r.left, orphans |-> r.orphans,
                twice |-> r.twice, pool |-> u, got |-> g]
      BY <2>8, <3>3
    <3>11. GoodPool(u)
      <4>1. u.chunks # <<>>
        BY <3>6, <3>9 DEF GoodPool
      <4> QED BY <3>6, <3>7, <3>9, <4>1 DEF GoodPool
    <3>12. Objects(u) = Objects(p) \cup {data}
      <4>1. Objects(u) = ChunkObjects(u) \cup u.large
        BY <3>11, PoolFields
      <4>2. ChunkObjects(u) = ChunkObjects(p)
        BY <3>6 DEF ChunkObjects
      <4> QED BY <3>4, <3>6, <4>1, <4>2 DEF l
    <3>13. v \in MemoryType
      BY <2>7, <3>7, <3>8, <3>10, MemoryFields DEF MemoryType
    <3>14. /\ v.heap = r.heap /\ v.next = r.next /\ v.orphans = r.orphans /\ v.twice = r.twice
           /\ v.pool = u
      BY <3>10
    <3>15. v.heap = v.orphans \cup theirs \cup Objects(v.pool)
      BY <2>7, <3>12, <3>14 DEF p
    <3>16. theirs \cap Objects(v.pool) = {} /\ theirs \cap v.orphans = {} /\ Objects(v.pool) \cap v.orphans = {}
      BY <2>1, <2>7, <3>12, <3>14 DEF p
    <3>17. Holding(v, theirs)
      BY <2>7, <3>13, <3>14, <3>15, <3>16 DEF Holding
    <3>18. Good(v, theirs)
      BY <3>11, <3>14, <3>17 DEF Good
    <3> QED BY <3>1, <3>18
  <2> QED BY <2>9, <2>10
<1> QED BY <1>2, <1>3

LEMMA BufAllocGood ==
  ASSUME NEW m, NEW theirs, Good(m, theirs), NEW size \in Nat
  PROVE  Good(BufAlloc(m, size), theirs)
<1> DEFINE h == PoolMalloc(m, BufHeader)
<1>1. BufHeader \in Nat
  BY PoolAssumption
<1>2. Good(h, theirs) /\ h.pool.max = m.pool.max
  BY <1>1, PoolMallocGood
<1>3. BufAlloc(m, size) = IF Failed(h) THEN h
                          ELSE IF size <= m.pool.max THEN FirstFit(h, size) ELSE PallocLarge(h, size)
  BY DEF BufAlloc
<1> HIDE DEF h
<1>4. CASE Failed(h)
  BY <1>2, <1>3, <1>4
<1>5. CASE ~Failed(h) /\ size <= m.pool.max
  <2>1. Good(FirstFit(h, size), theirs)
    BY <1>2, <1>5, FirstFitGood
  <2> QED BY <1>3, <1>5, <2>1
<1>6. CASE ~Failed(h) /\ ~(size <= m.pool.max)
  <2>1. Good(PallocLarge(h, size), theirs)
    BY <1>2, PallocLargeGood
  <2> QED BY <1>3, <1>6, <2>1
<1> QED BY <1>4, <1>5, <1>6

(* A pool is created, or nothing happens.                                    *)
LEMMA PoolCreateGood ==
  ASSUME NEW m, NEW theirs, Holding(m, theirs), m.pool = NoPool,
         NEW size \in Nat, NEW blocks \in Nat \ {0}
  PROVE  IF Failed(PoolCreate(m, size, blocks))
           THEN /\ Holding(PoolCreate(m, size, blocks), theirs)
                /\ PoolCreate(m, size, blocks).pool = NoPool
           ELSE Good(PoolCreate(m, size, blocks), theirs)
<1> DEFINE a == Malloc(m)
           w == PoolCreate(m, size, blocks)
<1>1. /\ m \in MemoryType /\ ~m.twice
      /\ m.heap = m.orphans \cup theirs \cup Objects(m.pool)
      /\ theirs \cap Objects(m.pool) = {} /\ theirs \cap m.orphans = {}
      /\ Objects(m.pool) \cap m.orphans = {}
      /\ \A x \in m.heap : x < m.next
      /\ Objects(m.pool) = {}
  BY DEF Holding, Objects
<1>2. ASSUME NEW v \in MemoryType, v.heap = m.heap, v.next = m.next, v.orphans = m.orphans,
             v.twice = m.twice, v.pool = m.pool
      PROVE  Holding(v, theirs) /\ v.pool = NoPool
  BY <1>2 DEF Holding
<1>3. CASE size < Header
  <2> DEFINE v == [m EXCEPT !.got = NoRegion]
  <2>1. w = v
    BY <1>3 DEF PoolCreate
  <2>2. v = [heap |-> m.heap, next |-> m.next, left |-> m.left, orphans |-> m.orphans,
             twice |-> m.twice, pool |-> m.pool, got |-> NoRegion]
    BY <1>1, NothingFields
  <2> HIDE DEF v, w
  <2>3. v \in MemoryType /\ Failed(v)
    BY <1>1, <2>2, MemoryFields, NoRegionFacts DEF MemoryType, Failed
  <2>4. /\ v.heap = m.heap /\ v.next = m.next /\ v.orphans = m.orphans /\ v.twice = m.twice
        /\ v.pool = m.pool
    BY <2>2
  <2>5. Holding(v, theirs) /\ v.pool = NoPool
    BY <1>2, <2>3, <2>4
  <2> QED BY <2>1, <2>3, <2>5 DEF w
<1>4. CASE ~(size < Header) /\ m.left = 0
  <2>1. /\ a \in MemoryType /\ Failed(a) /\ a.heap = m.heap /\ a.next = m.next
        /\ a.orphans = m.orphans /\ a.twice = m.twice /\ a.pool = m.pool
    BY <1>1, <1>4, MallocFails
  <2>2. w = a
    BY <1>4, <2>1 DEF PoolCreate
  <2> HIDE DEF a, w
  <2>3. Holding(a, theirs) /\ a.pool = NoPool
    BY <1>2, <2>1
  <2> QED BY <2>1, <2>2, <2>3 DEF w
<1>5. CASE ~(size < Header) /\ m.left # 0
  <2>1. /\ a \in MemoryType /\ ~Failed(a) /\ a.got.obj = m.next
        /\ a.heap = m.heap \cup {m.next} /\ a.next = m.next + 1
        /\ a.orphans = m.orphans /\ a.twice = m.twice /\ a.pool = m.pool
    BY <1>1, <1>5, MallocGives
  <2> DEFINE k == Chunk(m.next, size, blocks)
             u == [max |-> size, chunks |-> <<k>>, large |-> {}, taken |-> {}]
  <2>2. w = [a EXCEPT !.pool = u]
    BY <1>5, <2>1 DEF PoolCreate
  <2>3. w = [heap |-> a.heap, next |-> a.next, left |-> a.left, orphans |-> a.orphans,
             twice |-> a.twice, pool |-> u, got |-> a.got]
    <3>1. a = [heap |-> a.heap, next |-> a.next, left |-> a.left, orphans |-> a.orphans,
               twice |-> a.twice, pool |-> a.pool, got |-> a.got]
      BY <2>1, MemoryFields
    <3> HIDE DEF a, u, w
    <3> QED BY <2>2, <3>1
  <2>4. Header \in Nat /\ Extra \in Nat /\ Header <= Extra /\ m.next \in Nat /\ m.next \in Object
    BY <1>1, MemoryFields, PoolAssumption
  <2>5. /\ k.obj = m.next /\ k.cap = size + Extra /\ k.last = [b \in 1..blocks |-> Header]
        /\ k = [obj |-> k.obj, cap |-> k.cap, last |-> k.last]
    BY DEF Chunk
  <2>6. /\ k.last \in Seq(Nat) /\ Len(k.last) = blocks /\ \A b \in 1..blocks : k.last[b] = Header
    BY <2>4, <2>5
  <2>7. k \in ChunkType
    BY <2>4, <2>5, <2>6 DEF ChunkType
  <2>8. /\ u.max = size /\ u.chunks = <<k>> /\ u.large = {} /\ u.taken = {}
        /\ u = [max |-> u.max, chunks |-> u.chunks, large |-> u.large, taken |-> u.taken]
    OBVIOUS
  <2> HIDE DEF u, k, a, w
  <2>9. /\ <<k>> \in Seq(ChunkType) /\ Len(<<k>>) = 1 /\ <<k>>[1] = k /\ <<k>> # <<>>
        /\ DOMAIN <<k>> = 1..1
    BY <2>7
  <2>10. u \in PoolType
    BY <2>8, <2>9 DEF PoolType
  <2>11. k.cap >= size + Extra /\ k.last # <<>> /\ k.cap >= Header /\ k.cap \in Nat
    <3>1. k.last # <<>>
      BY <2>6
    <3>2. size + Extra \in Nat /\ size + Extra >= Header
      BY <2>4
    <3> QED BY <2>5, <3>1, <3>2
  <2>12. \A b \in 1..Len(k.last) : Header <= k.last[b] /\ k.last[b] <= k.cap
    BY <2>4, <2>6, <2>11
  <2>13. GoodPool(u)
    <3>1. \A i \in 1..Len(u.chunks) : i = 1 /\ u.chunks[i] = k
      BY <2>8, <2>9
    <3>2. \A i \in 1..Len(u.chunks) :
             /\ u.chunks[i].cap >= u.max + Extra /\ u.chunks[i].last # <<>>
             /\ \A b \in 1..Len(u.chunks[i].last) :
                   Header <= u.chunks[i].last[b] /\ u.chunks[i].last[b] <= u.chunks[i].cap
      BY <2>8, <2>11, <2>12, <3>1
    <3>3. u.chunks # <<>> /\ u.taken = {}
      BY <2>8, <2>9
    <3> QED BY <2>10, <3>1, <3>2, <3>3 DEF GoodPool
  <2>14. Objects(u) = {m.next}
    <3>1. Objects(u) = ChunkObjects(u) \cup u.large
      BY <2>13, PoolFields
    <3>2. ChunkObjects(u) = {m.next}
      BY <2>5, <2>8, <2>9 DEF ChunkObjects
    <3> QED BY <2>8, <3>1, <3>2
  <2>15. w \in MemoryType
    BY <2>1, <2>3, <2>10, MemoryFields DEF MemoryType
  <2>16. /\ w.heap = a.heap /\ w.next = a.next /\ w.orphans = a.orphans /\ w.twice = a.twice
         /\ w.pool = u /\ w.got = a.got
    BY <2>3
  <2>17. m.next \notin m.heap /\ \A x \in w.heap : x < w.next
    <3>1. m.heap \subseteq Nat
      BY <1>1, MemoryFields
    <3> QED BY <1>1, <2>1, <2>4, <2>16, <3>1
  <2>18. Holding(w, theirs)
    BY <1>1, <2>1, <2>14, <2>15, <2>16, <2>17 DEF Holding
  <2>19. ~Failed(w)
    BY <2>1, <2>16 DEF Failed
  <2>20. Good(w, theirs)
    BY <2>13, <2>16, <2>18 DEF Good
  <2> QED BY <2>19, <2>20 DEF w
<1> QED BY <1>3, <1>4, <1>5

(* A pool goes: what is left is what others own, and what is lost for good.  *)
LEMMA PoolFreeHolds ==
  ASSUME NEW m, NEW theirs, Good(m, theirs)
  PROVE  Holding(PoolFree(m), theirs) /\ PoolFree(m).pool = NoPool
<1> DEFINE o == Objects(m.pool)
           t == m.twice \/ ~(o \subseteq m.heap)
           h == m.heap \ o
           v == PoolFree(m)
<1>1. /\ m \in MemoryType /\ ~m.twice
      /\ m.heap = m.orphans \cup theirs \cup o
      /\ theirs \cap o = {} /\ theirs \cap m.orphans = {}
      /\ o \cap m.orphans = {}
      /\ \A x \in m.heap : x < m.next
  BY DEF Good, Holding
<1>2. v = [[m EXCEPT !.heap = h, !.twice = t] EXCEPT !.pool = NoPool]
  BY <1>1, MemoryFields DEF PoolFree, Free
<1>3. t = FALSE
  BY <1>1
<1> HIDE DEF o, t, h, v
<1>4. v = [heap |-> h, next |-> m.next, left |-> m.left, orphans |-> m.orphans,
           twice |-> t, pool |-> NoPool, got |-> m.got]
  <2>1. m = [heap |-> m.heap, next |-> m.next, left |-> m.left, orphans |-> m.orphans,
             twice |-> m.twice, pool |-> m.pool, got |-> m.got]
    BY <1>1, MemoryFields
  <2>2. PICK q : q = [m EXCEPT !.heap = h, !.twice = t]
    OBVIOUS
  <2>3. q = [heap |-> h, next |-> m.next, left |-> m.left, orphans |-> m.orphans,
             twice |-> t, pool |-> m.pool, got |-> m.got]
    BY <2>1, <2>2
  <2>4. v = [q EXCEPT !.pool = NoPool]
    BY <1>2, <2>2
  <2> QED BY <2>3, <2>4
<1>5. h = m.heap \ o
  BY DEF h
<1>6. v \in MemoryType
  BY <1>1, <1>3, <1>4, <1>5, MemoryFields DEF MemoryType
<1>7. /\ v.heap = h /\ v.next = m.next /\ v.orphans = m.orphans /\ v.twice = t /\ v.pool = NoPool
  BY <1>4
<1>8. Objects(NoPool) = {}
  BY DEF Objects
<1>9. Holding(v, theirs)
  BY <1>1, <1>3, <1>5, <1>6, <1>7, <1>8 DEF Holding
<1> QED BY <1>7, <1>9 DEF v

-------------------------------------------------------------------------------
(* Who owns what, step by step.                                              *)

LEMMA OwnedForm ==
  HeapOwned <=> /\ ~twice
                /\ heap = orphans \cup UNION {Owned(c) : c \in Conns}
                /\ \A c, d \in Conns : c # d => Owned(c) \cap Owned(d) = {}
                /\ \A c \in Conns : Owned(c) \cap orphans = {}
BY DEF HeapOwned, Owned

LEMMA OwnedParts ==
  ASSUME MemoryInv, NEW c \in Conns
  PROVE  /\ ~twice
         /\ heap = orphans \cup Others(c) \cup Owned(c)
         /\ Others(c) \cap Owned(c) = {} /\ Others(c) \cap orphans = {}
         /\ Owned(c) \cap orphans = {}
<1>1. /\ ~twice
      /\ heap = orphans \cup UNION {Owned(d) : d \in Conns}
      /\ \A d, e \in Conns : d # e => Owned(d) \cap Owned(e) = {}
      /\ \A d \in Conns : Owned(d) \cap orphans = {}
  BY OwnedForm DEF MemoryInv
<1>2. UNION {Owned(d) : d \in Conns} = Others(c) \cup Owned(c)
  BY DEF Others
<1>3. Others(c) \cap Owned(c) = {}
  BY <1>1 DEF Others
<1>4. Others(c) \cap orphans = {}
  BY <1>1 DEF Others
<1> QED BY <1>1, <1>2, <1>3, <1>4

(* A connection without an address of its own sees the memory as a pool's    *)
(* operations want it.                                                       *)
LEMMA MemoryHolds ==
  ASSUME MemoryInv, NEW c \in Conns, kind[c] # "udp", NEW rest \in Nat
  PROVE  Holding(Memory(pool[c], rest), Others(c))
<1> DEFINE m == Memory(pool[c], rest)
<1>1. Owned(c) = Objects(pool[c])
  <2>1. address[c] = 0
    BY DEF MemoryInv
  <2> QED BY <2>1 DEF Owned
<1>2. /\ ~twice
      /\ heap = orphans \cup Others(c) \cup Owned(c)
      /\ Others(c) \cap Owned(c) = {} /\ Others(c) \cap orphans = {}
      /\ Owned(c) \cap orphans = {}
  BY OwnedParts
<1>3. next \in Object /\ \A x \in heap : x \in Nat /\ x < next
  BY DEF MemoryInv
<1>4. heap \in SUBSET Nat /\ orphans \in SUBSET Nat
  BY <1>2, <1>3
<1>5. pool[c] \in PoolType \cup {NoPool}
  BY DEF MemoryInv, GoodPool
<1>6. m = [heap |-> heap, next |-> next, left |-> rest, orphans |-> orphans,
           twice |-> twice, pool |-> pool[c], got |-> NoRegion]
  BY DEF Memory
<1> HIDE DEF m
<1>7. /\ m.heap = heap /\ m.next = next /\ m.orphans = orphans /\ m.twice = twice
      /\ m.pool = pool[c]
  BY <1>6
<1>8. m \in MemoryType
  <2>1. twice \in BOOLEAN
    BY DEF MemoryInv
  <2> QED BY <1>3, <1>4, <1>5, <1>6, <2>1, NoRegionFacts DEF MemoryType
<1>9. Holding(m, Others(c))
  BY <1>1, <1>2, <1>3, <1>7, <1>8 DEF Holding
<1> QED BY <1>9 DEF m

(* Connection c has changed hands, and its memory with it.                   *)
LEMMA MemoryMoves ==
  ASSUME MemoryInv, NEW c \in Conns, NEW m, Now(c, m),
         DOMAIN address' = Conns, DOMAIN kind' = Conns,
         \A d \in Conns : d # c => address'[d] = address[d] /\ kind'[d] = kind[d],
         m.pool = NoPool \/ GoodPool(m.pool),
         kind'[c] = "tcp" <=> m.pool # NoPool,
         kind'[c] = "udp" <=> address'[c] # 0,
         m.next \in Object, \A x \in m.heap : x \in Nat /\ x < m.next, m.twice = FALSE,
         NEW mine, mine = Objects(m.pool) \cup ({address'[c]} \ {0}),
         m.heap = m.orphans \cup Others(c) \cup mine,
         Others(c) \cap mine = {}, Others(c) \cap m.orphans = {}, mine \cap m.orphans = {}
  PROVE  MemoryInv'
<1>1. /\ pool' = [pool EXCEPT ![c] = m.pool] /\ heap' = m.heap /\ next' = m.next
      /\ orphans' = m.orphans /\ twice' = m.twice /\ blockSize' = blockSize
  BY DEF Now
<1>2. DOMAIN pool = Conns /\ blockSize \in BlockSizes
  BY DEF MemoryInv
<1>3. /\ DOMAIN pool' = Conns /\ pool'[c] = m.pool
      /\ \A d \in Conns : d # c => pool'[d] = pool[d]
  BY <1>1, <1>2
<1>4. Owned(c)' = mine
  BY <1>3 DEF Owned
<1>5. \A d \in Conns : d # c => Owned(d)' = Owned(d)
  BY <1>3 DEF Owned
<1>6. ASSUME NEW d \in Conns
      PROVE  /\ pool'[d] = NoPool \/ GoodPool(pool'[d])
             /\ kind'[d] # "tcp" => pool'[d] = NoPool
             /\ kind'[d] = "tcp" => pool'[d] # NoPool
             /\ kind'[d] # "udp" => address'[d] = 0
             /\ kind'[d] = "udp" => address'[d] # 0
  <2>1. CASE d = c
    BY <1>3, <2>1
  <2>2. CASE d # c
    BY <1>3, <2>2 DEF MemoryInv
  <2> QED BY <2>1, <2>2
<1>7. \A d, e \in Conns : d # e => Owned(d) \cap Owned(e) = {}
  BY OwnedForm DEF MemoryInv
<1>8. HeapOwned'
  <2>1. UNION {Owned(d)' : d \in Conns} = Others(c) \cup mine
    <3>1. \A x : x \in UNION {Owned(d)' : d \in Conns} <=> \E d \in Conns : x \in Owned(d)'
      OBVIOUS
    <3>2. \A x : x \in Others(c) <=> \E d \in Conns \ {c} : x \in Owned(d)
      BY DEF Others
    <3>3. ASSUME NEW x, x \in UNION {Owned(d)' : d \in Conns} PROVE x \in Others(c) \cup mine
      <4>1. PICK d \in Conns : x \in Owned(d)'
        BY <3>1, <3>3
      <4>2. CASE d = c
        BY <1>4, <4>1, <4>2
      <4>3. CASE d # c
        BY <1>5, <3>2, <4>1, <4>3
      <4> QED BY <4>2, <4>3
    <3>4. ASSUME NEW x, x \in Others(c) \cup mine PROVE x \in UNION {Owned(d)' : d \in Conns}
      <4>1. CASE x \in mine
        BY <1>4, <3>1, <4>1
      <4>2. CASE x \in Others(c)
        <5>1. PICK d \in Conns \ {c} : x \in Owned(d)
          BY <3>2, <4>2
        <5>2. x \in Owned(d)'
          BY <1>5, <5>1
        <5> QED BY <3>1, <5>2
      <4> QED BY <3>4, <4>1, <4>2
    <3> QED BY <3>3, <3>4
  <2>2. \A d \in Conns : d # c => Owned(d) \subseteq Others(c)
    BY DEF Others
  <2>3. ASSUME NEW d \in Conns, NEW e \in Conns, d # e PROVE Owned(d)' \cap Owned(e)' = {}
    <3>1. CASE d = c
      <4>1. Owned(d)' = mine /\ Owned(e)' = Owned(e) /\ Owned(e) \subseteq Others(c)
        BY <1>4, <1>5, <2>2, <2>3, <3>1
      <4> QED BY <4>1
    <3>2. CASE e = c
      <4>1. Owned(e)' = mine /\ Owned(d)' = Owned(d) /\ Owned(d) \subseteq Others(c)
        BY <1>4, <1>5, <2>2, <2>3, <3>2
      <4> QED BY <4>1
    <3>3. CASE d # c /\ e # c
      <4>1. Owned(e)' = Owned(e) /\ Owned(d)' = Owned(d)
        BY <1>5, <3>3
      <4> QED BY <1>7, <2>3, <4>1
    <3> QED BY <3>1, <3>2, <3>3
  <2>4. ASSUME NEW d \in Conns PROVE Owned(d)' \cap orphans' = {}
    <3>1. CASE d = c
      BY <1>1, <1>4, <3>1
    <3>2. CASE d # c
      <4>1. Owned(d)' = Owned(d) /\ Owned(d) \subseteq Others(c)
        BY <1>5, <2>2, <3>2
      <4> QED BY <1>1, <4>1
    <3> QED BY <3>1, <3>2
  <2>5. heap' = orphans' \cup UNION {Owned(d)' : d \in Conns}
    BY <1>1, <2>1
  <2>6. HeapOwned' <=> /\ ~twice'
                       /\ heap' = orphans' \cup UNION {Owned(d)' : d \in Conns}
                       /\ \A d, e \in Conns : d # e => Owned(d)' \cap Owned(e)' = {}
                       /\ \A d \in Conns : Owned(d)' \cap orphans' = {}
    BY DEF HeapOwned, Owned
  <2> QED BY <1>1, <2>3, <2>4, <2>5, <2>6
<1>9. blockSize' \in BlockSizes /\ twice' = FALSE /\ next' \in Object /\ \A x \in heap' : x \in Nat /\ x < next'
  BY <1>1, <1>2
<1> QED BY <1>3, <1>6, <1>8, <1>9 DEF MemoryInv

(* The same for a step that leaves no address in c.                          *)
LEMMA HoldingMoves ==
  ASSUME MemoryInv, NEW c \in Conns, kind[c] # "udp", NEW m, Holding(m, Others(c)), Now(c, m),
         address' = address, DOMAIN kind' = Conns, \A d \in Conns : d # c => kind'[d] = kind[d],
         kind'[c] # "udp",
         \/ m.pool = NoPool /\ kind'[c] # "tcp"
         \/ GoodPool(m.pool) /\ kind'[c] = "tcp"
  PROVE  MemoryInv'
<1>1. address'[c] = 0 /\ DOMAIN address' = Conns
  BY DEF MemoryInv
<1>2. /\ m \in MemoryType /\ ~m.twice
      /\ m.heap = m.orphans \cup Others(c) \cup Objects(m.pool)
      /\ Others(c) \cap Objects(m.pool) = {} /\ Others(c) \cap m.orphans = {}
      /\ Objects(m.pool) \cap m.orphans = {}
      /\ \A x \in m.heap : x < m.next
  BY DEF Holding
<1>3. m.next \in Object /\ m.heap \subseteq Nat /\ m.twice = FALSE
  BY <1>2, MemoryFields
<1>4. Objects(m.pool) = Objects(m.pool) \cup ({address'[c]} \ {0})
  BY <1>1
<1>5. m.pool = NoPool \/ GoodPool(m.pool)
  OBVIOUS
<1>6. kind'[c] = "tcp" <=> m.pool # NoPool
  BY PoolFields
<1> QED BY <1>1, <1>2, <1>3, <1>4, <1>5, <1>6, MemoryMoves

LEMMA RoomsAreNumbers == next \in Object => \A rest \in Rooms : rest \in Nat
BY ConnMemoryAssumption DEF Rooms, Object

LEMMA ConnGetMoves == ASSUME MemoryInv, NEW c \in Conns, ConnGet(c) PROVE MemoryInv'
<1>1. /\ kind[c] = "free" /\ pool[c] = NoPool /\ next \in Object /\ DOMAIN kind = Conns
      /\ blockSize \in BlockSizes /\ address' = address
  BY DEF ConnGet, MemoryInv
<1>2. blockSize \in Nat /\ Blocks \in Nat \ {0} /\ SendBuf2 \in Nat
  BY <1>1, ConnMemoryAssumption
<1>3. PICK rest \in Rooms :
         LET a == PoolCreate(Memory(NoPool, rest), blockSize, Blocks)
             r == BufAlloc(a, blockSize)
             s == BufAlloc(r, blockSize)
             b == BufAlloc(s, SendBuf2)
             undo(m) == Now(c, PoolFree(m))
         IN  \/ Failed(a) /\ Now(c, a) /\ UNCHANGED kind
             \/ ~Failed(a) /\ Failed(r) /\ undo(r) /\ UNCHANGED kind
             \/ ~Failed(a) /\ ~Failed(r) /\ Failed(s) /\ undo(s) /\ UNCHANGED kind
             \/ /\ ~Failed(a) /\ ~Failed(r) /\ ~Failed(s) /\ Failed(b)
                /\ undo(b) /\ kind' = [kind EXCEPT ![c] = "lost"]
             \/ /\ ~Failed(a) /\ ~Failed(r) /\ ~Failed(s) /\ ~Failed(b)
                /\ Now(c, b) /\ kind' = [kind EXCEPT ![c] = "tcp"]
  BY DEF ConnGet
<1> DEFINE a == PoolCreate(Memory(NoPool, rest), blockSize, Blocks)
           r == BufAlloc(a, blockSize)
           s == BufAlloc(r, blockSize)
           b == BufAlloc(s, SendBuf2)
<1>4. \/ Failed(a) /\ Now(c, a) /\ UNCHANGED kind
      \/ ~Failed(a) /\ Now(c, PoolFree(r)) /\ UNCHANGED kind
      \/ ~Failed(a) /\ Now(c, PoolFree(s)) /\ UNCHANGED kind
      \/ ~Failed(a) /\ Now(c, PoolFree(b)) /\ kind' = [kind EXCEPT ![c] = "lost"]
      \/ ~Failed(a) /\ Now(c, b) /\ kind' = [kind EXCEPT ![c] = "tcp"]
  BY <1>3
<1>5. Holding(Memory(NoPool, rest), Others(c)) /\ Memory(NoPool, rest).pool = NoPool
  <2>1. rest \in Nat
    BY <1>1, RoomsAreNumbers
  <2>2. Holding(Memory(pool[c], rest), Others(c))
    BY <1>1, <2>1, MemoryHolds
  <2> QED BY <1>1, <2>2 DEF Memory
<1>6. IF Failed(a) THEN Holding(a, Others(c)) /\ a.pool = NoPool ELSE Good(a, Others(c))
  BY <1>2, <1>5, PoolCreateGood
<1>7. ASSUME ~Failed(a) PROVE Good(r, Others(c)) /\ Good(s, Others(c)) /\ Good(b, Others(c))
  <2>1. Good(a, Others(c))
    BY <1>6, <1>7
  <2> HIDE DEF a
  <2>2. Good(r, Others(c))
    BY <1>2, <2>1, BufAllocGood
  <2> HIDE DEF r
  <2>3. Good(s, Others(c))
    BY <1>2, <2>2, BufAllocGood
  <2> HIDE DEF s
  <2>4. Good(b, Others(c))
    BY <1>2, <2>3, BufAllocGood
  <2> QED BY <2>2, <2>3, <2>4
<1> HIDE DEF a, r, s, b
<1>8. ASSUME NEW y, kind' = [kind EXCEPT ![c] = y]
      PROVE  DOMAIN kind' = Conns /\ kind'[c] = y /\ \A d \in Conns : d # c => kind'[d] = kind[d]
  BY <1>1, <1>8
<1>9. ASSUME NEW m, Good(m, Others(c)), Now(c, PoolFree(m)), DOMAIN kind' = Conns,
             kind'[c] \in {"free", "lost"}, \A d \in Conns : d # c => kind'[d] = kind[d]
      PROVE  MemoryInv'
  <2>1. Holding(PoolFree(m), Others(c)) /\ PoolFree(m).pool = NoPool
    BY <1>9, PoolFreeHolds
  <2> QED BY <1>1, <1>9, <2>1, HoldingMoves
<1>10. CASE Failed(a) /\ Now(c, a) /\ UNCHANGED kind
  <2>1. Holding(a, Others(c)) /\ a.pool = NoPool
    BY <1>6, <1>10
  <2>2. DOMAIN kind' = Conns /\ kind'[c] = "free" /\ \A d \in Conns : d # c => kind'[d] = kind[d]
    BY <1>1, <1>10
  <2> QED BY <1>1, <1>10, <2>1, <2>2, HoldingMoves
<1>11. CASE ~Failed(a) /\ (Now(c, PoolFree(r)) \/ Now(c, PoolFree(s))) /\ UNCHANGED kind
  <2>1. DOMAIN kind' = Conns /\ kind'[c] = "free" /\ \A d \in Conns : d # c => kind'[d] = kind[d]
    BY <1>1, <1>11
  <2> QED BY <1>7, <1>9, <1>11, <2>1
<1>12. CASE ~Failed(a) /\ Now(c, PoolFree(b)) /\ kind' = [kind EXCEPT ![c] = "lost"]
  BY <1>7, <1>8, <1>9, <1>12
<1>13. CASE ~Failed(a) /\ Now(c, b) /\ kind' = [kind EXCEPT ![c] = "tcp"]
  <2>1. Holding(b, Others(c)) /\ GoodPool(b.pool)
    BY <1>7, <1>13 DEF Good
  <2>2. DOMAIN kind' = Conns /\ kind'[c] = "tcp" /\ \A d \in Conns : d # c => kind'[d] = kind[d]
    BY <1>8, <1>13
  <2> QED BY <1>1, <1>13, <2>1, <2>2, HoldingMoves
<1> QED BY <1>4, <1>10, <1>11, <1>12, <1>13

(* A connection in use, with its pool.                                       *)
LEMMA TcpHolds ==
  ASSUME MemoryInv, NEW c \in Conns, kind[c] = "tcp", NEW rest \in Nat
  PROVE  Good(Memory(pool[c], rest), Others(c))
<1>1. Holding(Memory(pool[c], rest), Others(c))
  BY MemoryHolds
<1>2. GoodPool(pool[c])
  BY DEF MemoryInv
<1>3. Memory(pool[c], rest).pool = pool[c]
  BY DEF Memory
<1> QED BY <1>1, <1>2, <1>3 DEF Good

LEMMA AllocMoves == ASSUME MemoryInv, NEW c \in Conns, Alloc(c) PROVE MemoryInv'
<1>1. kind[c] = "tcp" /\ kind' = kind /\ address' = address /\ next \in Object /\ DOMAIN kind = Conns
  BY DEF Alloc, MemoryInv
<1>2. PICK size \in UserSizes \cup {AddrSize}, rest \in Rooms :
         Now(c, BufAlloc(Memory(pool[c], rest), size))
  BY DEF Alloc
<1>3. size \in Nat /\ rest \in Nat
  BY <1>1, ConnMemoryAssumption, RoomsAreNumbers
<1> DEFINE m == BufAlloc(Memory(pool[c], rest), size)
<1>4. Good(m, Others(c))
  <2>1. Good(Memory(pool[c], rest), Others(c))
    BY <1>1, <1>3, TcpHolds
  <2> QED BY <1>3, <2>1, BufAllocGood
<1>5. Now(c, m)
  BY <1>2
<1> HIDE DEF m
<1>6. Holding(m, Others(c)) /\ GoodPool(m.pool)
  BY <1>4 DEF Good
<1> QED BY <1>1, <1>5, <1>6, HoldingMoves

LEMMA ConnFreeMoves == ASSUME MemoryInv, NEW c \in Conns, ConnFree(c) PROVE MemoryInv'
<1>1. /\ kind[c] = "tcp" /\ kind' = [kind EXCEPT ![c] = "free"] /\ address' = address
      /\ DOMAIN kind = Conns /\ Now(c, PoolFree(Memory(pool[c], 0)))
  BY DEF ConnFree, MemoryInv
<1>2. Good(Memory(pool[c], 0), Others(c))
  BY <1>1, TcpHolds
<1>3. /\ Holding(PoolFree(Memory(pool[c], 0)), Others(c))
      /\ PoolFree(Memory(pool[c], 0)).pool = NoPool
  BY <1>2, PoolFreeHolds
<1>4. DOMAIN kind' = Conns /\ kind'[c] = "free" /\ \A d \in Conns : d # c => kind'[d] = kind[d]
  BY <1>1
<1> QED BY <1>1, <1>3, <1>4, HoldingMoves

LEMMA UdpGetMoves == ASSUME MemoryInv, NEW c \in Conns, UdpGet(c) PROVE MemoryInv'
<1> DEFINE m == Memory(NoPool, 1)
           a == Malloc(m)
<1>1. /\ kind[c] = "free" /\ kind' = [kind EXCEPT ![c] = "udp"]
      /\ address' = [address EXCEPT ![c] = next] /\ Now(c, a)
      /\ DOMAIN kind = Conns /\ DOMAIN address = Conns /\ pool[c] = NoPool
      /\ next \in Object
  BY DEF UdpGet, MemoryInv
<1>2. Holding(m, Others(c))
  <2>1. Holding(Memory(pool[c], 1), Others(c))
    BY <1>1, MemoryHolds
  <2> QED BY <1>1, <2>1
<1>3. m.left = 1 /\ m.next = next /\ m.pool = NoPool
  BY DEF Memory
<1> HIDE DEF m
<1>4. /\ m \in MemoryType /\ ~m.twice
      /\ m.heap = m.orphans \cup Others(c) \cup Objects(m.pool)
      /\ Others(c) \cap m.orphans = {}
      /\ \A x \in m.heap : x < m.next
      /\ Objects(m.pool) = {}
  BY <1>2, <1>3 DEF Holding, Objects
<1>5. m.heap \subseteq Nat /\ m.next \in Nat /\ m.twice = FALSE
  BY <1>4, MemoryFields
<1>6. m.next \notin m.heap
  BY <1>4, <1>5
<1>7. /\ a \in MemoryType
      /\ a.heap = m.heap \cup {m.next} /\ a.next = m.next + 1
      /\ a.orphans = m.orphans /\ a.twice = m.twice /\ a.pool = m.pool
  <2>1. m.left # 0
    BY <1>3
  <2> QED BY <1>4, <2>1, MallocGives
<1> HIDE DEF a
<1>8. /\ DOMAIN kind' = Conns /\ DOMAIN address' = Conns /\ kind'[c] = "udp" /\ address'[c] = next
      /\ next # 0
      /\ \A d \in Conns : d # c => address'[d] = address[d] /\ kind'[d] = kind[d]
  BY <1>1 DEF Object
<1> DEFINE mine == Objects(a.pool) \cup ({address'[c]} \ {0})
<1>9. mine = {m.next}
  BY <1>3, <1>4, <1>7, <1>8
<1>10. /\ a.heap = a.orphans \cup Others(c) \cup mine
       /\ Others(c) \cap mine = {} /\ Others(c) \cap a.orphans = {} /\ mine \cap a.orphans = {}
  BY <1>4, <1>6, <1>7, <1>9
<1>11. a.next \in Object /\ \A x \in a.heap : x \in Nat /\ x < a.next
  BY <1>4, <1>5, <1>7 DEF Object
<1>12. a.pool = NoPool /\ a.twice = FALSE
  BY <1>3, <1>5, <1>7
<1> HIDE DEF mine
<1>13. mine = Objects(a.pool) \cup ({address'[c]} \ {0})
  BY DEF mine
<1>14. /\ Now(c, a)
       /\ (a.pool = NoPool \/ GoodPool(a.pool))
       /\ kind'[c] = "tcp" <=> a.pool # NoPool
       /\ kind'[c] = "udp" <=> address'[c] # 0
  BY <1>1, <1>8, <1>12
<1>15. DOMAIN address' = Conns /\ DOMAIN kind' = Conns
  BY <1>8
<1>16. \A d \in Conns : d # c => address'[d] = address[d] /\ kind'[d] = kind[d]
  BY <1>8
<1>17. a.twice = FALSE
  BY <1>12
<1> QED BY <1>10, <1>11, <1>13, <1>14, <1>15, <1>16, <1>17, MemoryMoves

LEMMA UdpCloseMoves == ASSUME MemoryInv, NEW c \in Conns, UdpClose(c) PROVE MemoryInv'
<1> DEFINE o == {address[c]}
           m == Free(Memory(NoPool, 0), o)
<1>1. /\ kind[c] = "udp" /\ kind' = [kind EXCEPT ![c] = "free"]
      /\ address' = [address EXCEPT ![c] = 0] /\ Now(c, m)
      /\ DOMAIN kind = Conns /\ DOMAIN address = Conns /\ pool[c] = NoPool /\ address[c] # 0
      /\ next \in Object /\ \A x \in heap : x \in Nat /\ x < next
      /\ twice = FALSE
  BY DEF UdpClose, MemoryInv
<1>2. /\ heap = orphans \cup Others(c) \cup Owned(c)
      /\ Others(c) \cap Owned(c) = {} /\ Others(c) \cap orphans = {}
      /\ Owned(c) \cap orphans = {}
  BY OwnedParts
<1>3. Objects(NoPool) = {}
  BY DEF Objects
<1>4. Owned(c) = o
  BY <1>1, <1>3 DEF Owned
<1>5. /\ m.heap = heap \ o /\ m.twice = (twice \/ ~(o \subseteq heap)) /\ m.next = next
      /\ m.orphans = orphans /\ m.pool = NoPool
  BY DEF Free, Memory
<1> HIDE DEF m, o
<1>6. m.twice = FALSE
  BY <1>1, <1>2, <1>4, <1>5
<1>7. /\ DOMAIN kind' = Conns /\ DOMAIN address' = Conns /\ kind'[c] = "free" /\ address'[c] = 0
      /\ \A d \in Conns : d # c => address'[d] = address[d] /\ kind'[d] = kind[d]
  BY <1>1
<1> DEFINE mine == Objects(m.pool) \cup ({address'[c]} \ {0})
<1>8. mine = {}
  BY <1>3, <1>5, <1>7
<1>9. m.heap = m.orphans \cup Others(c) \cup mine
  BY <1>2, <1>4, <1>5, <1>8
<1>10. m.next \in Object /\ \A x \in m.heap : x \in Nat /\ x < m.next
  BY <1>1, <1>5
<1>11. Others(c) \cap mine = {} /\ Others(c) \cap m.orphans = {} /\ mine \cap m.orphans = {}
  BY <1>2, <1>5, <1>8
<1> HIDE DEF mine
<1>12. mine = Objects(m.pool) \cup ({address'[c]} \ {0})
  BY DEF mine
<1>13. /\ m.pool = NoPool \/ GoodPool(m.pool)
       /\ kind'[c] = "tcp" <=> m.pool # NoPool
       /\ kind'[c] = "udp" <=> address'[c] # 0
  BY <1>5, <1>7
<1>14. Now(c, m)
  BY <1>1
<1> QED BY <1>6, <1>7, <1>9, <1>10, <1>11, <1>12, <1>13, <1>14, MemoryMoves

LEMMA MemoryStarts == Init => MemoryInv
<1> SUFFICES ASSUME Init PROVE MemoryInv
  OBVIOUS
<1>1. /\ kind = [c \in Conns |-> "free"] /\ pool = [c \in Conns |-> NoPool]
      /\ address = [c \in Conns |-> 0]
      /\ heap = {} /\ next = 1 /\ orphans = {} /\ twice = FALSE
      /\ blockSize \in BlockSizes
  BY DEF Init
<1>2. \A c \in Conns : kind[c] = "free" /\ pool[c] = NoPool /\ address[c] = 0
  BY <1>1
<1>3. \A c \in Conns : Owned(c) = {}
  BY <1>2 DEF Owned, Objects
<1>4. HeapOwned
  BY <1>1, <1>3, OwnedForm
<1>5. DOMAIN kind = Conns /\ DOMAIN pool = Conns /\ DOMAIN address = Conns
  BY <1>1
<1>6. next \in Object
  BY <1>1 DEF Object
<1> QED BY <1>1, <1>2, <1>4, <1>5, <1>6 DEF MemoryInv

LEMMA MemorySame == MemoryInv /\ UNCHANGED memVars => MemoryInv'
<1> SUFFICES ASSUME MemoryInv, UNCHANGED memVars PROVE MemoryInv'
  OBVIOUS
<1>1. /\ kind' = kind /\ pool' = pool /\ address' = address /\ heap' = heap /\ next' = next
      /\ orphans' = orphans /\ twice' = twice /\ blockSize' = blockSize
  BY DEF memVars
<1>2. HeapOwned'
  <2>1. HeapOwned
    BY DEF MemoryInv
  <2> QED BY <1>1, <2>1 DEF HeapOwned
<1> QED BY <1>1, <1>2 DEF MemoryInv

LEMMA MemoryStep == MemoryInv /\ [Next]_vars => MemoryInv'
<1> SUFFICES ASSUME MemoryInv, [Next]_vars PROVE MemoryInv'
  OBVIOUS
<1>1. CASE UNCHANGED vars
  BY <1>1, MemorySame DEF vars
<1>2. CASE Next
  <2>1. PICK c \in Conns : \/ ConnGet(c) \/ Alloc(c) \/ ConnFree(c) \/ UdpGet(c) \/ UdpClose(c)
                           \/ Fill(c) \/ Send(c)
    BY <1>2 DEF Next
  <2>2. CASE ConnGet(c)
    BY <2>2, ConnGetMoves
  <2>3. CASE Alloc(c)
    BY <2>3, AllocMoves
  <2>4. CASE ConnFree(c)
    BY <2>4, ConnFreeMoves
  <2>5. CASE UdpGet(c)
    BY <2>5, UdpGetMoves
  <2>6. CASE UdpClose(c)
    BY <2>6, UdpCloseMoves
  <2>7. CASE Fill(c) \/ Send(c)
    <3>1. UNCHANGED memVars
      BY <2>7 DEF Fill, Send
    <3> QED BY <3>1, MemorySame
  <2> QED BY <2>1, <2>2, <2>3, <2>4, <2>5, <2>6, <2>7
<1> QED BY <1>1, <1>2

(* Nothing is freed twice, and whatever malloc() gave has exactly one owner  *)
(* or is lost for good, for any connections, sizes and failures              *)
(* (ws_mem_pool_free, and each way ws_conn_get ends early).                  *)
THEOREM HeapStaysOwned == Spec => []HeapOwned
<1>1. MemoryInv => HeapOwned
  BY DEF MemoryInv
<1> QED BY <1>1, MemoryStarts, MemoryStep, PTL DEF Spec

(* What a pool hands out lies in one block, behind its header, and never     *)
(* overlaps what it handed out before, for any sizes asked of it and also in *)
(* a chunk made for what did not fit (ws_mem_buf_alloc,                      *)
(* ws_mem_palloc_block).                                                     *)
THEOREM RegionsStayApart == Spec => []Apart
<1>1. MemoryInv => Apart
  <2> SUFFICES ASSUME MemoryInv, NEW c \in Conns, pool[c] # NoPool
               PROVE  LET p == pool[c] IN
                      /\ \A r, s \in p.taken :
                           r # s /\ r.obj = s.obj /\ r.block = s.block
                             => r.to <= s.from \/ s.to <= r.from
                      /\ \A r \in p.taken :
                           /\ r.from >= Header
                           /\ \E i \in DOMAIN p.chunks :
                                p.chunks[i].obj = r.obj /\ r.to <= p.chunks[i].cap
    BY DEF Apart
  <2> DEFINE p == pool[c]
  <2>1. GoodPool(p)
    BY DEF MemoryInv
  <2> HIDE DEF p
  <2>2. /\ p.taken \subseteq Region /\ DOMAIN p.chunks = 1..Len(p.chunks)
    BY <2>1, PoolFields
  <2>3. ASSUME NEW r \in p.taken
        PROVE  /\ r.from >= Header
               /\ \E i \in DOMAIN p.chunks : p.chunks[i].obj = r.obj /\ r.to <= p.chunks[i].cap
    <3>1. PICK i \in 1..Len(p.chunks) : In(r, p.chunks[i])
      BY <2>1 DEF GoodPool
    <3> DEFINE k == p.chunks[i]
    <3>2. /\ r.obj = k.obj /\ r.block \in 1..Len(k.last)
          /\ Header <= r.from /\ r.from <= r.to /\ r.to <= k.last[r.block]
      BY <3>1 DEF In
    <3>3. k.last[r.block] <= k.cap
      BY <2>1, <3>2 DEF GoodPool
    <3>4. k.cap \in Nat /\ k.last \in Seq(Nat)
      BY <2>1, ChunkFields
    <3>5. k.last[r.block] \in Nat
      <4> DEFINE l == k.last
      <4>1. l \in Seq(Nat) /\ r.block \in 1..Len(l)
        BY <3>2, <3>4
      <4> HIDE DEF l
      <4>2. l[r.block] \in Nat
        BY <4>1
      <4> QED BY <4>2 DEF l
    <3>6. r.to \in Nat /\ r.from \in Nat
      BY <2>2 DEF Region
    <3>7. r.to <= k.cap
      <4> DEFINE x == k.last[r.block]
                 y == k.cap
                 z == r.to
      <4>1. x \in Nat /\ y \in Nat /\ z \in Nat /\ z <= x /\ x <= y
        BY <3>2, <3>3, <3>4, <3>5, <3>6
      <4> HIDE DEF x, y, z
      <4>2. z <= y
        BY <4>1
      <4> QED BY <4>2 DEF y, z
    <3>8. r.from >= Header
      BY <3>2, <3>6, PoolAssumption
    <3> QED BY <2>2, <3>2, <3>7, <3>8
  <2>4. \A r, s \in p.taken :
           r # s /\ r.obj = s.obj /\ r.block = s.block => r.to <= s.from \/ s.to <= r.from
    BY <2>1 DEF GoodPool
  <2> QED BY <2>3, <2>4 DEF p
<1> QED BY <1>1, MemoryStarts, MemoryStep, PTL DEF Spec

-----------------------------------------------------------------------------
(* What is sent on a connection, for every size of its buffer, room of the *)
(* socket, set of requests and number of bytes asked for.                  *)

(* TypeOK, InOrder and Armed are inductive together: InOrder needs the      *)
(* order of the two positions, Armed nothing but itself.                    *)
SendIInv == TypeOK /\ InOrder /\ Armed

-----------------------------------------------------------------------------
LEMMA SendStarts == SendInit => SendIInv
<1> SUFFICES ASSUME SendInit PROVE SendIInv
  OBVIOUS
<1>1. /\ send_wpos \in 0 .. BufSize - 1 /\ send_pos \in 0 .. send_wpos
      /\ send_buf \in [0 .. BufSize - 1 -> Nat] /\ room \in 0 .. Room
  BY BufSizeAssumption, RoomAssumption DEF SendInit
<1>2. asked \in Nat /\ accepted \in Nat /\ passed \in Nat
  BY DEF SendInit
<1>3. TypeOK
  BY <1>1, <1>2 DEF SendInit, TypeOK
<1>4. InOrder
  BY DEF SendInit, InOrder
<1>5. ~Pending
  BY DEF SendInit, Pending
<1> QED
  BY <1>3, <1>4, <1>5 DEF SendIInv, Armed

-----------------------------------------------------------------------------
(* The positions and the buffer.                                           *)

(* A request that fits leaves the append position inside the buffer.        *)
LEMMA RequestBounds ==
  ASSUME TypeOK, NEW n \in Sizes, FitsBehind(n)
  PROVE  /\ n \in Nat
         /\ send_wpos + n \in 0 .. BufSize - 1 /\ send_pos \in 0 .. send_wpos + n
  BY BufSizeAssumption, SizesAssumption DEF TypeOK, FitsBehind

LEMMA RequestTypes ==
  ASSUME TypeOK, NEW n \in Sizes, Request(n)
  PROVE  TypeOK'
<1>1. /\ n \in Nat
      /\ send_wpos + n \in 0 .. BufSize - 1 /\ send_pos \in 0 .. send_wpos + n
  BY RequestBounds DEF Request
<1>2. send_buf' \in [0 .. BufSize - 1 -> Nat]
  BY <1>1, BufSizeAssumption DEF Request, AppendBytes, TypeOK
<1>3. /\ send_wpos' \in 0 .. BufSize - 1 /\ send_pos' \in 0 .. send_wpos'
  BY <1>1 DEF Request, AppendBytes
<1>4. asked' \in Nat /\ accepted' \in Nat
  BY <1>1 DEF Request, TypeOK
<1> QED
  BY <1>2, <1>3, <1>4 DEF Request, TypeOK, eventVars, kernelVars

LEMMA SendStepTypes ==
  ASSUME TypeOK, SendNext
  PROVE  TypeOK'
<1>1. ASSUME NEW n \in Sizes, Request(n) PROVE TypeOK'
  BY <1>1, RequestTypes
<1>2. ASSUME NEW n \in Sizes, RequestDropped(n) PROVE TypeOK'
  BY <1>2, SizesAssumption
  DEF RequestDropped, TypeOK, bufVars, eventVars, kernelVars
<1>3. CASE ReadFlush
  BY <1>3 DEF ReadFlush, TypeOK, bufVars, kernelVars, historyVars
<1>4. CASE OutEvent
  BY <1>4 DEF OutEvent, TypeOK, bufVars, eventVars, historyVars
<1>5. CASE SendOut
  <2>1. PICK n \in 1 .. room : /\ n <= send_wpos - send_pos
                               /\ send_pos' = send_pos + n
                               /\ room' = room - n /\ passed' = passed + n
    BY <1>5 DEF SendOut
  <2>2. send_pos' \in 0 .. send_wpos /\ room' \in 0 .. Room /\ passed' \in Nat
    BY <2>1, RoomAssumption, BufSizeAssumption DEF TypeOK
  <2> QED
    BY <1>5, <2>2 DEF SendOut, TypeOK, eventVars
<1>6. CASE SendAgain
  BY <1>6 DEF SendAgain, EventAdd, TypeOK, bufVars, historyVars
<1>7. CASE SendError
  BY <1>7 DEF SendError, TypeOK, bufVars, eventVars, kernelVars, historyVars
<1>8. CASE FlushDone
  <2>1. send_wpos' \in 0 .. BufSize - 1 /\ send_pos' \in 0 .. send_wpos'
    BY <1>8, BufSizeAssumption DEF FlushDone
  <2>2. active' \in BOOLEAN /\ pc' \in {"idle", "flush", "closed"}
    BY <1>8 DEF FlushDone
  <2> QED
    BY <1>8, <2>1, <2>2 DEF FlushDone, TypeOK, kernelVars, historyVars
<1>9. CASE Drain
  <2>1. PICK n \in 1 .. Room - room : room' = room + n
    BY <1>9 DEF Drain
  <2>2. room' \in 0 .. Room
    BY <2>1, RoomAssumption DEF TypeOK
  <2> QED
    BY <1>9, <2>2 DEF Drain, TypeOK, bufVars, eventVars, historyVars
<1>10. CASE Input \/ Reset \/ Close
  BY <1>10 DEF Input, Reset, Close, TypeOK, bufVars, eventVars, kernelVars, historyVars
<1> QED
  BY <1>1, <1>2, <1>3, <1>4, <1>5, <1>6, <1>7, <1>8, <1>9, <1>10
  DEF SendNext, Requests, Flush

-----------------------------------------------------------------------------
(* The order of the output.                                                *)

LEMMA RequestInOrder ==
  ASSUME TypeOK, InOrder, NEW n \in Sizes, Request(n)
  PROVE  InOrder'
<1>1. /\ n \in Nat
      /\ send_wpos + n \in 0 .. BufSize - 1 /\ send_pos \in 0 .. send_wpos + n
  BY RequestBounds DEF Request
<1>2. /\ send_pos' = send_pos /\ send_wpos' = send_wpos + n
      /\ passed' = passed /\ accepted' = accepted + n
      /\ send_buf' = [k \in DOMAIN send_buf |->
                        IF k \in send_wpos .. send_wpos + n - 1
                          THEN accepted + (k - send_wpos) + 1 ELSE send_buf[k]]
  BY DEF Request, AppendBytes
<1>3. accepted' = passed' + (send_wpos' - send_pos')
  BY <1>1, <1>2 DEF TypeOK, InOrder
<1>4. ASSUME NEW k \in send_pos .. send_wpos + n - 1
      PROVE  send_buf'[k] = passed + (k - send_pos) + 1
  <2>1. k \in DOMAIN send_buf
    BY <1>1, <1>4, BufSizeAssumption DEF TypeOK
  <2>2. CASE k \in send_wpos .. send_wpos + n - 1
    BY <2>1, <2>2, <1>1, <1>2, BufSizeAssumption DEF TypeOK, InOrder
  <2>3. CASE k \notin send_wpos .. send_wpos + n - 1
    <3>1. k \in send_pos .. send_wpos - 1
      BY <1>1, <1>4, <2>3, BufSizeAssumption DEF TypeOK
    <3> QED
      BY <2>1, <2>3, <3>1, <1>2 DEF InOrder
  <2> QED BY <2>2, <2>3
<1>5. send_pos' = send_pos /\ send_wpos' = send_wpos + n /\ passed' = passed
  BY <1>2
<1>6. \A k \in send_pos' .. send_wpos' - 1 : send_buf'[k] = passed' + (k - send_pos') + 1
  <2> SUFFICES ASSUME NEW k \in send_pos' .. send_wpos' - 1
               PROVE  send_buf'[k] = passed' + (k - send_pos') + 1
    OBVIOUS
  <2>1. k \in send_pos .. send_wpos + n - 1
    BY <1>1, <1>5 DEF TypeOK
  <2>2. send_buf'[k] = passed + (k - send_pos) + 1
    BY <2>1, <1>4
  <2> QED
    BY <2>2, <1>5
<1> QED
  BY <1>3, <1>6 DEF InOrder

LEMMA SendInOrder ==
  ASSUME TypeOK, InOrder, SendOut
  PROVE  InOrder'
<1>1. PICK n \in 1 .. room : /\ n <= send_wpos - send_pos
                             /\ send_pos' = send_pos + n
                             /\ passed' = passed + n
  BY DEF SendOut
<1>2. send_wpos' = send_wpos /\ send_buf' = send_buf /\ accepted' = accepted
  BY DEF SendOut
<1>3. accepted' = passed' + (send_wpos' - send_pos')
  BY <1>1, <1>2 DEF TypeOK, InOrder
<1>4. ASSUME NEW k \in send_pos + n .. send_wpos - 1
      PROVE  send_buf[k] = passed + n + (k - (send_pos + n)) + 1
  <2>1. k \in send_pos .. send_wpos - 1
    BY <1>4, <1>1 DEF TypeOK
  <2>2. send_buf[k] = passed + (k - send_pos) + 1
    BY <2>1 DEF InOrder
  <2> QED
    BY <2>1, <2>2, <1>1 DEF TypeOK
<1>5. \A k \in send_pos' .. send_wpos' - 1 : send_buf'[k] = passed' + (k - send_pos') + 1
  BY <1>1, <1>2, <1>4
<1> QED
  BY <1>3, <1>5 DEF InOrder

LEMMA StepInOrder ==
  ASSUME TypeOK, InOrder, SendNext
  PROVE  InOrder'
<1>1. ASSUME NEW n \in Sizes, Request(n) PROVE InOrder'
  BY <1>1, RequestInOrder
<1>2. CASE SendOut
  BY <1>2, SendInOrder
<1>3. CASE FlushDone
  <2>1. send_pos' = 0 /\ send_wpos' = 0 /\ accepted' = accepted /\ passed' = passed
    BY <1>3 DEF FlushDone, historyVars
  <2>2. send_wpos = send_pos
    BY <1>3 DEF FlushDone, Pending, TypeOK
  <2>3. accepted = passed
    BY <2>2 DEF InOrder, TypeOK
  <2> QED
    BY <2>1, <2>3 DEF InOrder, TypeOK
<1>4. CASE UNCHANGED <<bufVars, accepted, passed>>
  BY <1>4 DEF InOrder, bufVars
<1>5. ASSUME NEW n \in Sizes, RequestDropped(n) PROVE UNCHANGED <<bufVars, accepted, passed>>
  BY <1>5 DEF RequestDropped
<1>6. CASE \/ ReadFlush \/ OutEvent \/ SendAgain \/ SendError
           \/ Drain \/ Input \/ Reset \/ Close
  BY <1>4, <1>6 DEF ReadFlush, OutEvent, SendAgain, SendError, Drain, Input, Reset, Close,
                    historyVars
<1> QED
  BY <1>1, <1>2, <1>3, <1>4, <1>5, <1>6 DEF SendNext, Requests, Flush

-----------------------------------------------------------------------------
(* Output that waits has an event coming.                                  *)

LEMMA StepArmed ==
  ASSUME TypeOK, Armed, SendNext
  PROVE  Armed'
<1>1. CASE pc' # "idle"
  BY <1>1 DEF Armed
<1>2. ASSUME NEW n \in Sizes, Request(n) PROVE pc' # "idle"
  BY <1>2 DEF Request
<1>3. CASE ReadFlush \/ SendOut \/ SendError \/ Close
  <2>1. pc' # "idle"
    BY <1>3 DEF ReadFlush, SendOut, SendError, Close
  <2> QED BY <1>1, <2>1
<1>4. ASSUME NEW n \in Sizes, RequestDropped(n) PROVE Armed'
  BY <1>4 DEF RequestDropped, Armed, Pending, bufVars, eventVars, kernelVars
<1>5. CASE OutEvent
  BY <1>5 DEF OutEvent, Armed, Pending, bufVars, eventVars
<1>6. CASE SendAgain
  BY <1>6 DEF SendAgain, EventAdd, Armed
<1>7. CASE FlushDone
  <2>1. ~Pending'
    BY <1>7 DEF FlushDone, Pending
  <2> QED BY <2>1 DEF Armed
<1>8. CASE Drain
  BY <1>8 DEF Drain, Armed, Pending, bufVars, eventVars
<1>9. CASE Input \/ Reset
  BY <1>9 DEF Input, Reset, Armed, Pending, bufVars, eventVars
<1> QED
  BY <1>1, <1>2, <1>3, <1>4, <1>5, <1>6, <1>7, <1>8, <1>9 DEF SendNext, Requests, Flush

-----------------------------------------------------------------------------
LEMMA SendStep ==
  ASSUME SendIInv, [SendNext]_sendVars
  PROVE  SendIInv'
<1>1. CASE SendNext
  BY <1>1, SendStepTypes, StepInOrder, StepArmed DEF SendIInv
<1>2. CASE UNCHANGED sendVars
  BY <1>2 DEF sendVars, bufVars, eventVars, kernelVars, historyVars,
              SendIInv, TypeOK, InOrder, Armed, Pending
<1> QED BY <1>1, <1>2

(* The inductive invariant holds in every reachable state.                  *)
THEOREM SendInvariance == SendSpec => []SendIInv
  BY SendStarts, SendStep, PTL DEF SendSpec

(* The socket is given every accepted byte once and in order, through any   *)
(* partial sends of ws_conn_send_event, whatever the sizes.                 *)
THEOREM OutputInOrder == SendSpec => []InOrder
<1>1. SendIInv => InOrder
  BY DEF SendIInv
<1> QED BY SendInvariance, <1>1, PTL

(* Pending output with ws_event_send installed always has an event coming.  *)
THEOREM OutputArmed == SendSpec => []Armed
<1>1. SendIInv => Armed
  BY DEF SendIInv
<1> QED BY SendInvariance, <1>1, PTL
===============================================================================
