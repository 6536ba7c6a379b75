---------------------------- MODULE ServersProofs -----------------------------
(***************************************************************************)
(* Proofs about Servers for every number of slots, descriptors, servers    *)
(* and requests: who owns a server's descriptor and slot, and which server *)
(* a send by UDP finds.                                                    *)
(***************************************************************************)
EXTENDS Servers, TLAPS

Server == [fd : Fds, asked : Kinds, sock : Kinds, slot : 0 .. NumSlots,
           at : {"registered", "made", "lost"}, closed : BOOLEAN]

Requests ==
  [cmd : {"add"}, id : Nat] \cup [cmd : {"del"}, index : Fds]
    \cup [cmd : {"udp"}, index : Fds, id : Nat] \cup [cmd : {"tcp"}, conn : Slots]

TypeOK ==
  /\ servers \in Seq(Server)
  /\ slots \in [Slots -> [use : {"free", "listen", "stream"}, fd : 0 .. NumFds]]
  /\ fds \subseteq Fds /\ known \subseteq Slots
  /\ queue \in Seq(Requests)

(* A slot in use has an open descriptor, and only a server that got a slot   *)
(* can lose it.                                                             *)
SlotsOpen ==
  /\ \A i \in Slots :
       \/ slots[i] = Unused
       \/ slots[i].fd \in fds /\ slots[i] \in {ListenOn(slots[i].fd), StreamOn(slots[i].fd)}
  /\ \A id \in Ids : servers[id].closed => servers[id].slot # 0

(* A server's descriptor is in no slot but its own.                         *)
OneSlot ==
  \A id \in Ids, i \in Slots :
    ~servers[id].closed /\ slots[i].fd = servers[id].fd => servers[id].slot = i

(* The requests at the inner socket: a server's registration once, and before *)
(* every send that names it.                                                *)
Announced(id, k) == \E j \in 1 .. k - 1 : queue[j].cmd = "add" /\ queue[j].id = id

Orderly(k) ==
  /\ queue[k].cmd = "add" =>
       /\ queue[k].id \in Ids
       /\ servers[queue[k].id].at = "made" /\ servers[queue[k].id].slot = 0
       /\ ~Announced(queue[k].id, k)
  /\ queue[k].cmd = "udp" =>
       /\ queue[k].id \in Ids /\ queue[k].index = servers[queue[k].id].fd
       /\ dispatch = "declared" /\ servers[queue[k].id].at = "made" => Announced(queue[k].id, k)

QueueOK == \A k \in 1 .. Len(queue) : Orderly(k)

(* A server in nobody's hands waits for its registration.                    *)
Coming ==
  \A id \in Ids :
    dispatch = "declared" /\ servers[id].at = "made" => Announced(id, Len(queue) + 1)

Owned == SlotsOpen /\ OneSlot /\ ServersOwn
Asked == \A v \in via : v.asked \in Ids

IInv == TypeOK /\ Owned /\ QueueOK /\ Coming /\ Asked /\ SendFindsServer

-----------------------------------------------------------------------------
(* What steps do to the servers and the slots.                             *)

LEMMA Numbers ==
  /\ NumSlots \in Nat /\ NumFds \in Nat
  /\ \A i \in Slots : i \in Nat /\ i # 0 /\ i \in 0 .. NumSlots
  /\ \A d \in Fds : d \in Nat /\ d # 0 /\ d \in 0 .. NumFds
  BY ServersAssumption DEF Slots, Fds

LEMMA OneServer ==
  ASSUME TypeOK
  PROVE  /\ Ids = 1 .. Len(servers) /\ Len(servers) \in Nat
         /\ \A id \in Ids :
              /\ servers[id] \in Server
              /\ servers[id].fd \in Fds /\ servers[id].slot \in 0 .. NumSlots
              /\ servers[id].closed \in BOOLEAN
              /\ servers[id].slot # 0 => servers[id].slot \in Slots
<1>1. Ids = 1 .. Len(servers) /\ Len(servers) \in Nat /\ \A id \in Ids : servers[id] \in Server
  BY DEF TypeOK, Ids
<1>2. \A s \in Server : s.fd \in Fds /\ s.slot \in 0 .. NumSlots /\ s.closed \in BOOLEAN
  BY DEF Server
<1>3. \A i \in 0 .. NumSlots : i # 0 => i \in Slots
  BY Numbers DEF Slots
<1> QED
  BY <1>1, <1>2, <1>3

LEMMA OneMore ==
  ASSUME TypeOK, NEW s \in Server, servers' = Append(servers, s)
  PROVE  LET n == Len(servers) + 1
         IN  /\ n \notin Ids /\ Ids' = Ids \cup {n} /\ servers'[n] = s
             /\ \A id \in Ids : servers'[id] = servers[id]
             /\ servers' \in Seq(Server)
<1> DEFINE n == Len(servers) + 1
<1>1. servers \in Seq(Server)
  BY DEF TypeOK
<1>2. /\ servers' \in Seq(Server) /\ Len(servers') = n /\ servers'[n] = s
      /\ \A id \in 1 .. Len(servers) : servers'[id] = servers[id]
      /\ Len(servers) \in Nat
  BY <1>1
<1>3. Ids = 1 .. Len(servers) /\ Ids' = 1 .. n
  BY <1>1, <1>2 DEF Ids
<1>4. n \notin 1 .. Len(servers) /\ 1 .. n = (1 .. Len(servers)) \cup {n}
  BY <1>2
<1> QED
  BY <1>2, <1>3, <1>4

(* A slot is taken for a listening socket, or none is.                       *)
LEMMA Taking ==
  ASSUME TypeOK, NEW i \in 0 .. NumSlots, NEW d \in Fds, SlotFor(i), Occupy(i, d)
  PROVE  /\ i # 0 => i \in Slots /\ slots[i] = Unused /\ slots'[i] = ListenOn(d)
         /\ \A j \in Slots : j # i => slots'[j] = slots[j]
         /\ slots' \in [Slots -> [use : {"free", "listen", "stream"}, fd : 0 .. NumFds]]
<1> DEFINE S == [use : {"free", "listen", "stream"}, fd : 0 .. NumFds]
<1>1. slots \in [Slots -> S]
  BY DEF TypeOK
<1>2. ListenOn(d) \in S
  BY Numbers DEF ListenOn
<1>3. slots' = [j \in Slots |-> IF j = i THEN ListenOn(d) ELSE slots[j]]
  BY DEF Occupy
<1>4. i # 0 => i \in Slots /\ slots[i] = Unused
  BY DEF SlotFor, FreeSlots
<1> HIDE DEF S
<1>5. slots' \in [Slots -> S]
  BY <1>1, <1>2, <1>3
<1> QED
  BY <1>3, <1>4, <1>5 DEF S

LEMMA SlotUse ==
  /\ \A d \in Fds : ListenOn(d) # Unused /\ ListenOn(d).fd = d /\ ListenOn(d).use = "listen"
  /\ \A d \in Fds : StreamOn(d) # Unused /\ StreamOn(d).fd = d /\ StreamOn(d).use = "stream"
  /\ \A d, e \in Fds : ListenOn(d) # StreamOn(e)
  /\ Unused.fd = 0 /\ Unused.use = "free"
<1>1. ASSUME NEW d \in Fds PROVE ListenOn(d) # Unused /\ StreamOn(d) # Unused
  <2>1. ListenOn(d).use = "listen" /\ StreamOn(d).use = "stream" /\ Unused.use = "free"
    BY DEF ListenOn, StreamOn, Unused
  <2> QED
    BY <2>1
<1> QED
  BY <1>1 DEF ListenOn, StreamOn, Unused

-----------------------------------------------------------------------------
(* Descriptors and slots.                                                  *)

(* What Owned says, slot by slot and server by server.                      *)
LEMMA OwnedFacts ==
  ASSUME TypeOK, Owned
  PROVE  /\ \A id \in Ids : ~servers[id].closed =>
              /\ servers[id].fd \in fds
              /\ servers[id].slot # 0 => slots[servers[id].slot] = ListenOn(servers[id].fd)
         /\ \A id, jd \in Ids :
              servers[id].fd = servers[jd].fd /\ ~servers[id].closed /\ ~servers[jd].closed => id = jd
         /\ \A i, j \in Slots : slots[i] # Unused /\ slots[i].fd = slots[j].fd => i = j
         /\ \A d \in fds : \/ d \in leaked
                           \/ \E i \in Slots : slots[i].fd = d
                           \/ \E id \in Ids : servers[id].fd = d
         /\ \A i \in Slots : slots[i] # Unused => slots[i].fd \in fds
         /\ \A i \in Slots : slots[i].use = "stream" => slots[i] # Unused /\ slots[i] = StreamOn(slots[i].fd)
         /\ \A i \in Slots : slots[i].use = "listen" => slots[i] # Unused /\ slots[i] = ListenOn(slots[i].fd)
         /\ fds \subseteq Fds
<1>1. \A i \in Slots : slots[i] # Unused =>
        slots[i].fd \in fds /\ (slots[i] = ListenOn(slots[i].fd) \/ slots[i] = StreamOn(slots[i].fd))
  BY DEF Owned, SlotsOpen
<1>2. fds \subseteq Fds
  BY DEF TypeOK
<1>3. \A i \in Slots : slots[i].use \in {"stream", "listen"} => slots[i] # Unused
  BY SlotUse
<1> QED
  BY <1>1, <1>2, <1>3, SlotUse DEF Owned, ServersOwn

(* A server is made on a new descriptor, with slot i or with none.           *)
LEMMA OwnMade ==
  ASSUME TypeOK, Owned, NEW s \in Server, NEW i \in 0 .. NumSlots,
         servers' = Append(servers, s), s.slot = i, ~s.closed, s.fd \notin fds,
         SlotFor(i), Occupy(i, s.fd) \/ (i = 0 /\ slots' = slots),
         fds' = fds \cup {s.fd}, leaked' = leaked
  PROVE  Owned'
<1> DEFINE n == Len(servers) + 1
           d == s.fd
<1>1. /\ n \notin Ids /\ Ids' = Ids \cup {n} /\ servers'[n] = s
      /\ \A id \in Ids : servers'[id] = servers[id]
  BY OneMore
<1> HIDE DEF n
<1>2. d \in Fds
  BY DEF Server
<1>3. /\ i # 0 => i \in Slots /\ slots[i] = Unused /\ slots'[i] = ListenOn(d)
      /\ \A j \in Slots : j # i => slots'[j] = slots[j]
  <2>1. CASE Occupy(i, d)
    BY <1>2, <2>1, Taking
  <2>2. CASE i = 0 /\ slots' = slots
    BY <2>2
  <2> QED
    BY <2>1, <2>2
<1>4. 0 \notin Slots /\ 0 \notin Fds /\ d # 0
  BY <1>2, Numbers
<1>5. \A j \in Slots : slots[j].fd # d
  <2>1. \A j \in Slots : slots[j] = Unused \/ slots[j].fd \in fds
    BY OwnedFacts
  <2> QED
    BY <1>4, <2>1, SlotUse
<1>6. SlotsOpen'
  <2>1. ASSUME NEW j \in Slots
        PROVE  \/ slots'[j] = Unused
               \/ slots'[j].fd \in fds' /\ slots'[j] \in {ListenOn(slots'[j].fd), StreamOn(slots'[j].fd)}
    <3>1. CASE j = i
      BY <1>2, <1>3, <1>4, <3>1, SlotUse
    <3>2. CASE j # i
      <4>1. slots'[j] = slots[j]
        BY <1>3, <3>2
      <4> QED
        BY <4>1 DEF Owned, SlotsOpen
    <3> QED
      BY <3>1, <3>2
  <2>2. ASSUME NEW id \in Ids', servers'[id].closed PROVE servers'[id].slot # 0
    BY <1>1, <2>2 DEF Owned, SlotsOpen
  <2> QED
    BY <2>1, <2>2 DEF SlotsOpen
<1>7. OneSlot'
  <2> SUFFICES ASSUME NEW id \in Ids', NEW j \in Slots, ~servers'[id].closed,
                      slots'[j].fd = servers'[id].fd
               PROVE  servers'[id].slot = j
    BY DEF OneSlot
  <2>1. CASE id = n
    <3>1. j = i
      BY <1>1, <1>3, <1>5, <2>1
    <3> QED
      BY <1>1, <2>1, <3>1
  <2>2. CASE id \in Ids
    <3>1. servers'[id] = servers[id] /\ servers[id].fd \in fds
      BY <1>1, <2>2, OwnedFacts
    <3>2. j # i
      BY <1>2, <1>3, <1>4, <3>1, SlotUse
    <3> QED
      BY <1>3, <2>2, <3>1, <3>2 DEF Owned, OneSlot
  <2> QED
    BY <1>1, <2>1, <2>2
<1>8. ServersOwn'
  <2>1. ASSUME NEW id \in Ids', ~servers'[id].closed
        PROVE  /\ servers'[id].fd \in fds'
               /\ servers'[id].slot # 0 => slots'[servers'[id].slot] = ListenOn(servers'[id].fd)
    <3>1. CASE id = n
      BY <1>1, <1>3, <3>1
    <3>2. CASE id \in Ids
      <4>1. servers'[id] = servers[id] /\ servers[id].fd \in fds
        BY <1>1, <2>1, <3>2, OwnedFacts
      <4>2. ASSUME servers[id].slot # 0
            PROVE  slots'[servers[id].slot] = ListenOn(servers[id].fd)
        <5>1. slots[servers[id].slot] = ListenOn(servers[id].fd) /\ servers[id].slot \in Slots
              /\ servers[id].fd \in Fds
          BY <2>1, <3>2, <4>1, <4>2, OwnedFacts, OneServer
        <5>2. servers[id].slot # i
          BY <1>3, <4>2, <5>1, SlotUse
        <5> QED
          BY <1>3, <5>1, <5>2
      <4> QED
        BY <4>1, <4>2
    <3> QED
      BY <1>1, <3>1, <3>2
  <2>2. ASSUME NEW id \in Ids', NEW jd \in Ids', servers'[id].fd = servers'[jd].fd,
               ~servers'[id].closed, ~servers'[jd].closed
        PROVE  id = jd
    <3>1. \A k \in Ids : ~servers[k].closed => servers[k].fd # d
      BY OwnedFacts
    <3>2. \A k, l \in Ids :
            servers[k].fd = servers[l].fd /\ ~servers[k].closed /\ ~servers[l].closed => k = l
      BY OwnedFacts
    <3> QED
      BY <1>1, <2>2, <3>1, <3>2
  <2>3. ASSUME NEW j \in Slots, NEW k \in Slots, slots'[j] # Unused, slots'[j].fd = slots'[k].fd
        PROVE  j = k
    <3>1. \A a, b \in Slots : slots[a] # Unused /\ slots[a].fd = slots[b].fd => a = b
      BY OwnedFacts
    <3>2. i \in Slots => slots'[i].fd = d
      BY <1>2, <1>3, <1>4, SlotUse
    <3> QED
      BY <1>3, <1>5, <2>3, <3>1, <3>2
  <2>4. ASSUME NEW e \in fds'
        PROVE  \/ e \in leaked'
               \/ \E j \in Slots : slots'[j].fd = e
               \/ \E id \in Ids' : servers'[id].fd = e
    <3>1. CASE e = d
      BY <1>1, <3>1
    <3>2. CASE e \in fds
      <4>1. \/ e \in leaked \/ (\E j \in Slots : slots[j].fd = e)
            \/ (\E id \in Ids : servers[id].fd = e)
        BY <3>2, OwnedFacts
      <4>2. \A j \in Slots : slots[j].fd = e => slots'[j].fd = e
        <5>1. \A j \in Slots : slots[j].fd = e => j # i
          BY <1>2, <1>3, <1>4, <3>2, SlotUse DEF TypeOK
        <5> QED
          BY <1>3, <5>1
      <4> QED
        BY <1>1, <4>1, <4>2
    <3> QED
      BY <3>1, <3>2
  <2> QED
    BY <2>1, <2>2, <2>3, <2>4 DEF ServersOwn
<1> QED
  BY <1>6, <1>7, <1>8 DEF Owned

LEMMA Replaced ==
  ASSUME NEW M, NEW q \in Seq(M), NEW r \in 1 .. Len(q), NEW s \in M
  PROVE  LET p == [q EXCEPT ![r] = s]
         IN  /\ p \in Seq(M) /\ Len(p) = Len(q) /\ p[r] = s
             /\ \A id \in 1 .. Len(q) : id # r => p[id] = q[id]
  OBVIOUS

(* The loop registers server r, which had no slot, with slot i or with none. *)
LEMMA OwnRegistered ==
  ASSUME TypeOK, Owned, NEW r \in Ids, NEW i \in 0 .. NumSlots,
         servers[r].slot = 0, SlotFor(i), Occupy(i, servers[r].fd),
         servers' = [servers EXCEPT ![r].slot = i, ![r].at = "registered"],
         UNCHANGED <<fds, leaked>>
  PROVE  /\ Owned' /\ servers' \in Seq(Server) /\ Ids' = Ids
         /\ \A id \in Ids : id # r => servers'[id] = servers[id]
         /\ servers'[r].fd = servers[r].fd /\ servers'[r].closed = servers[r].closed
         /\ servers'[r].at = "registered"
<1> DEFINE d == servers[r].fd
<1>0. servers[r] \in Server /\ d \in Fds /\ Ids = 1 .. Len(servers)
  BY OneServer
<1>1. ~servers[r].closed
  BY DEF Owned, SlotsOpen
<1> DEFINE s == [servers[r] EXCEPT !.slot = i, !.at = "registered"]
<1>2. /\ s \in Server /\ s.slot = i /\ s.fd = d /\ s.closed = servers[r].closed
      /\ s.at = "registered"
  BY <1>0 DEF Server
<1>3. servers' = [servers EXCEPT ![r] = s] /\ servers \in Seq(Server)
  <2>1. servers \in Seq(Server)
    BY DEF TypeOK
  <2> QED
    BY <1>0, <2>1
<1> HIDE DEF s
<1>4. /\ servers' \in Seq(Server) /\ Ids' = Ids /\ servers'[r] = s
      /\ \A id \in Ids : id # r => servers'[id] = servers[id]
  <2>1. servers' \in Seq(Server) /\ Len(servers') = Len(servers) /\ servers'[r] = s
        /\ \A id \in 1 .. Len(servers) : id # r => servers'[id] = servers[id]
    <3>1. r \in 1 .. Len(servers)
      BY <1>0
    <3>2. s \in Server /\ servers \in Seq(Server) /\ servers' = [servers EXCEPT ![r] = s]
      BY <1>2, <1>3
    <3>3. LET p == [servers EXCEPT ![r] = s]
          IN  /\ p \in Seq(Server) /\ Len(p) = Len(servers) /\ p[r] = s
              /\ \A id \in 1 .. Len(servers) : id # r => p[id] = servers[id]
      BY <3>1, <3>2, Replaced
    <3> QED
      BY <3>2, <3>3, Zenon
  <2>2. Ids' = 1 .. Len(servers')
    BY <2>1 DEF Ids
  <2> QED
    BY <1>0, <2>1, <2>2
<1>5. \A id \in Ids : servers'[id].fd = servers[id].fd /\ servers'[id].closed = servers[id].closed
  BY <1>2, <1>4
<1>6. /\ i # 0 => i \in Slots /\ slots[i] = Unused /\ slots'[i] = ListenOn(d)
      /\ \A j \in Slots : j # i => slots'[j] = slots[j]
  BY <1>0, Taking
<1>7. 0 \notin Slots /\ 0 \notin Fds /\ d # 0 /\ d \in fds
  BY <1>0, <1>1, Numbers, OwnedFacts
<1>8. \A j \in Slots : slots[j].fd # d
  <2>1. \A j \in Slots : slots[j].fd = d => servers[r].slot = j
    BY <1>1 DEF Owned, OneSlot
  <2> QED
    BY <1>7, <2>1
<1>9. SlotsOpen'
  <2>1. ASSUME NEW j \in Slots
        PROVE  \/ slots'[j] = Unused
               \/ slots'[j].fd \in fds' /\ slots'[j] \in {ListenOn(slots'[j].fd), StreamOn(slots'[j].fd)}
    <3>1. CASE j = i
      BY <1>0, <1>6, <1>7, <3>1, SlotUse
    <3>2. CASE j # i
      <4>1. slots'[j] = slots[j]
        BY <1>6, <3>2
      <4> QED
        BY <4>1 DEF Owned, SlotsOpen
    <3> QED
      BY <3>1, <3>2
  <2>2. ASSUME NEW id \in Ids, servers'[id].closed PROVE servers'[id].slot # 0
    BY <1>1, <1>2, <1>4, <2>2 DEF Owned, SlotsOpen
  <2> QED
    BY <1>4, <2>1, <2>2 DEF SlotsOpen
<1>10. OneSlot'
  <2> SUFFICES ASSUME NEW id \in Ids, NEW j \in Slots, ~servers'[id].closed,
                      slots'[j].fd = servers'[id].fd
               PROVE  servers'[id].slot = j
    BY <1>4 DEF OneSlot
  <2>1. CASE id = r
    <3>1. j = i
      BY <1>2, <1>4, <1>6, <1>8, <2>1
    <3> QED
      BY <1>2, <1>4, <2>1, <3>1
  <2>2. CASE id # r
    <3>1. servers'[id] = servers[id] /\ servers[id].fd # d
      BY <1>1, <1>4, <2>2, OwnedFacts
    <3>2. j # i
      BY <1>0, <1>6, <1>7, <3>1, SlotUse
    <3> QED
      BY <1>6, <3>1, <3>2 DEF Owned, OneSlot
  <2> QED
    BY <2>1, <2>2
<1>11. ServersOwn'
  <2>1. ASSUME NEW id \in Ids, ~servers'[id].closed
        PROVE  /\ servers'[id].fd \in fds'
               /\ servers'[id].slot # 0 => slots'[servers'[id].slot] = ListenOn(servers'[id].fd)
    <3>1. CASE id = r
      BY <1>2, <1>4, <1>6, <1>7, <3>1
    <3>2. CASE id # r
      <4>1. servers'[id] = servers[id] /\ servers[id].fd \in fds
        BY <1>4, <2>1, <3>2, OwnedFacts
      <4>2. ASSUME servers[id].slot # 0
            PROVE  slots'[servers[id].slot] = ListenOn(servers[id].fd)
        <5>1. slots[servers[id].slot] = ListenOn(servers[id].fd) /\ servers[id].slot \in Slots
              /\ servers[id].fd \in Fds
          BY <2>1, <4>1, <4>2, OwnedFacts, OneServer
        <5>2. servers[id].slot # i
          BY <1>6, <4>2, <5>1, SlotUse
        <5> QED
          BY <1>6, <5>1, <5>2
      <4>3. fds' = fds
        OBVIOUS
      <4> QED
        BY <4>1, <4>2, <4>3, Zenon
    <3> QED
      BY <3>1, <3>2
  <2>2. ASSUME NEW id \in Ids, NEW jd \in Ids, servers'[id].fd = servers'[jd].fd,
               ~servers'[id].closed, ~servers'[jd].closed
        PROVE  id = jd
    BY <1>5, <2>2, OwnedFacts
  <2>3. ASSUME NEW j \in Slots, NEW k \in Slots, slots'[j] # Unused, slots'[j].fd = slots'[k].fd
        PROVE  j = k
    <3>1. \A a, b \in Slots : slots[a] # Unused /\ slots[a].fd = slots[b].fd => a = b
      BY OwnedFacts
    <3>2. i \in Slots => slots'[i].fd = d
      BY <1>0, <1>6, <1>7, SlotUse
    <3> QED
      BY <1>6, <1>8, <2>3, <3>1, <3>2
  <2>4. ASSUME NEW e \in fds'
        PROVE  \/ e \in leaked'
               \/ \E j \in Slots : slots'[j].fd = e
               \/ \E id \in Ids' : servers'[id].fd = e
    <3>1. \/ e \in leaked \/ (\E j \in Slots : slots[j].fd = e)
          \/ (\E id \in Ids : servers[id].fd = e)
      BY OwnedFacts
    <3>2. ASSUME NEW j \in Slots, slots[j].fd = e PROVE slots'[j].fd = e
      <4>1. e \in Fds
        BY DEF TypeOK
      <4>2. j # i
        BY <1>6, <1>7, <3>2, <4>1, SlotUse
      <4> QED
        BY <1>6, <3>2, <4>2
    <3> QED
      BY <1>4, <1>5, <3>1, <3>2
  <2> QED
    BY <1>4, <2>1, <2>2, <2>3, <2>4 DEF ServersOwn
<1> QED
  BY <1>2, <1>4, <1>9, <1>10, <1>11 DEF Owned

(* A stream is closed.                                                      *)
LEMMA OwnEnded ==
  ASSUME TypeOK, Owned, NEW i \in Slots, slots[i].use = "stream",
         slots' = [slots EXCEPT ![i] = Unused], fds' = fds \ {slots[i].fd},
         UNCHANGED <<servers, leaked>>
  PROVE  Owned'
<1> DEFINE d == slots[i].fd
<1>0. Ids' = Ids
  BY DEF Ids
<1>1. slots[i] # Unused /\ slots[i] = StreamOn(d) /\ d \in fds /\ d \in Fds
  BY OwnedFacts
<1>2. slots'[i] = Unused /\ \A j \in Slots : j # i => slots'[j] = slots[j]
  BY DEF TypeOK
<1>3. \A j \in Slots : j # i => slots[j].fd # d
  BY <1>1, OwnedFacts
<1>4. \A id \in Ids : ~servers[id].closed => servers[id].fd # d /\ servers[id].fd \in fds'
  <2> SUFFICES ASSUME NEW id \in Ids, ~servers[id].closed, servers[id].fd = d PROVE FALSE
    BY OwnedFacts
  <2>1. servers[id].slot = i
    BY DEF Owned, OneSlot
  <2>2. i # 0
    BY Numbers
  <2>3. slots[i] = ListenOn(d)
    BY <2>1, <2>2, OwnedFacts
  <2> QED
    BY <1>1, <2>3, SlotUse
<1>5. Unused.fd = 0 /\ 0 \notin Fds
  BY SlotUse, Numbers
<1> HIDE DEF d
<1>6. SlotsOpen'
  <2>1. ASSUME NEW j \in Slots
        PROVE  \/ slots'[j] = Unused
               \/ slots'[j].fd \in fds' /\ slots'[j] \in {ListenOn(slots'[j].fd), StreamOn(slots'[j].fd)}
    <3>1. CASE j = i
      BY <1>2, <3>1
    <3>2. CASE j # i
      <4>1. slots'[j] = slots[j] /\ slots[j].fd # d
        BY <1>2, <1>3, <3>2
      <4> QED
        BY <4>1 DEF Owned, SlotsOpen, d
    <3> QED
      BY <3>1, <3>2
  <2> QED
    BY <1>0, <2>1 DEF Owned, SlotsOpen
<1>7. OneSlot'
  <2> SUFFICES ASSUME NEW id \in Ids, NEW j \in Slots, ~servers[id].closed,
                      slots'[j].fd = servers[id].fd
               PROVE  servers[id].slot = j
    BY <1>0 DEF OneSlot
  <2>1. j # i
    BY <1>2, <1>5, OneServer
  <2> QED
    BY <1>2, <2>1 DEF Owned, OneSlot
<1>8. ServersOwn'
  <2>1. ASSUME NEW id \in Ids, ~servers[id].closed, servers[id].slot # 0
        PROVE  slots'[servers[id].slot] = ListenOn(servers[id].fd)
    <3>1. slots[servers[id].slot] = ListenOn(servers[id].fd) /\ servers[id].slot \in Slots
          /\ servers[id].fd \in Fds
      BY <2>1, OwnedFacts, OneServer
    <3>2. servers[id].slot # i
      BY <1>1, <3>1, SlotUse
    <3> QED
      BY <1>2, <3>1, <3>2
  <2>2. ASSUME NEW j \in Slots, NEW k \in Slots, slots'[j] # Unused, slots'[j].fd = slots'[k].fd
        PROVE  j = k
    <3>1. j # i /\ slots'[j] = slots[j]
      BY <1>2, <2>2
    <3>2. slots[j].fd \in Fds
      BY <2>2, <3>1, OwnedFacts
    <3>3. k # i /\ slots'[k] = slots[k]
      BY <1>2, <1>5, <2>2, <3>1, <3>2
    <3> QED
      BY <2>2, <3>1, <3>3, OwnedFacts
  <2>3. ASSUME NEW e \in fds'
        PROVE  \/ e \in leaked
               \/ \E j \in Slots : slots'[j].fd = e
               \/ \E id \in Ids : servers[id].fd = e
    <3>1. e \in fds /\ e # d
      BY <2>3 DEF d
    <3>2. ASSUME NEW j \in Slots, slots[j].fd = e PROVE slots'[j].fd = e
      <4>1. j # i
        BY <3>1, <3>2 DEF d
      <4> QED
        BY <1>2, <3>2, <4>1
    <3> QED
      BY <3>1, <3>2, OwnedFacts
  <2> QED
    BY <1>0, <1>4, <2>1, <2>2, <2>3, OwnedFacts DEF ServersOwn
<1> QED
  BY <1>6, <1>7, <1>8 DEF Owned

(* A server's slot is closed because a request took it for a stream's.       *)
LEMMA OwnLost ==
  ASSUME TypeOK, Owned, NEW i \in Slots, slots[i].use = "listen",
         slots' = [slots EXCEPT ![i] = Unused], fds' = fds \ {slots[i].fd},
         servers' = [id \in Ids |-> IF servers[id].slot = i /\ ~servers[id].closed
                                    THEN [servers[id] EXCEPT !.closed = TRUE]
                                    ELSE servers[id]],
         UNCHANGED leaked
  PROVE  Owned' /\ servers' \in Seq(Server) /\ Ids' = Ids
<1> DEFINE d == slots[i].fd
<1>1. slots[i] # Unused /\ slots[i] = ListenOn(d) /\ d \in fds /\ d \in Fds
  BY OwnedFacts
<1>2. slots'[i] = Unused /\ \A j \in Slots : j # i => slots'[j] = slots[j]
  BY DEF TypeOK
<1>3. \A j \in Slots : j # i => slots[j].fd # d
  BY <1>1, OwnedFacts
<1>4. Ids' = Ids /\ Ids = 1 .. Len(servers) /\ Len(servers) \in Nat
  BY OneServer DEF Ids
<1>5. ASSUME NEW id \in Ids
      PROVE  /\ servers'[id].fd = servers[id].fd /\ servers'[id].slot = servers[id].slot
             /\ servers'[id].at = servers[id].at /\ servers'[id] \in Server
             /\ ~servers'[id].closed => ~servers[id].closed /\ servers[id].slot # i
             /\ servers'[id].closed => servers[id].closed \/ servers[id].slot = i
  <2>1. servers[id] \in Server
    BY OneServer
  <2>2. servers'[id] = IF servers[id].slot = i /\ ~servers[id].closed
                       THEN [servers[id] EXCEPT !.closed = TRUE] ELSE servers[id]
    OBVIOUS
  <2> QED
    BY <2>1, <2>2 DEF Server
<1>6. servers' \in Seq(Server)
  <2>1. servers' \in [1 .. Len(servers) -> Server]
    BY <1>4, <1>5
  <2> QED
    BY <1>4, <2>1
<1>7. \A id \in Ids : ~servers'[id].closed => servers[id].fd # d /\ servers[id].fd \in fds'
  <2> SUFFICES ASSUME NEW id \in Ids, ~servers'[id].closed, servers[id].fd = d PROVE FALSE
    BY <1>5, OwnedFacts
  <2>1. servers[id].slot = i
    BY <1>5 DEF Owned, OneSlot
  <2> QED
    BY <1>5, <2>1
<1>8. Unused.fd = 0 /\ 0 \notin Fds /\ i # 0
  BY SlotUse, Numbers
<1> HIDE DEF d
<1>9. SlotsOpen'
  <2>1. ASSUME NEW j \in Slots
        PROVE  \/ slots'[j] = Unused
               \/ slots'[j].fd \in fds' /\ slots'[j] \in {ListenOn(slots'[j].fd), StreamOn(slots'[j].fd)}
    <3>1. CASE j = i
      BY <1>2, <3>1
    <3>2. CASE j # i
      <4>1. slots'[j] = slots[j] /\ slots[j].fd # d
        BY <1>2, <1>3, <3>2
      <4> QED
        BY <4>1 DEF Owned, SlotsOpen, d
    <3> QED
      BY <3>1, <3>2
  <2>2. ASSUME NEW id \in Ids, servers'[id].closed PROVE servers'[id].slot # 0
    BY <1>5, <1>8, <2>2 DEF Owned, SlotsOpen
  <2> QED
    BY <1>4, <2>1, <2>2 DEF SlotsOpen
<1>10. OneSlot'
  <2> SUFFICES ASSUME NEW id \in Ids, NEW j \in Slots, ~servers'[id].closed,
                      slots'[j].fd = servers'[id].fd
               PROVE  servers'[id].slot = j
    BY <1>4 DEF OneSlot
  <2>1. j # i
    BY <1>2, <1>5, <1>8, OneServer
  <2> QED
    BY <1>2, <1>5, <2>1 DEF Owned, OneSlot
<1>11. ServersOwn'
  <2>1. ASSUME NEW id \in Ids, ~servers'[id].closed, servers[id].slot # 0
        PROVE  slots'[servers[id].slot] = ListenOn(servers[id].fd)
    <3>1. slots[servers[id].slot] = ListenOn(servers[id].fd) /\ servers[id].slot \in Slots
      BY <1>5, <2>1, OwnedFacts, OneServer
    <3>2. servers[id].slot # i
      BY <1>5, <2>1
    <3> QED
      BY <1>2, <3>1, <3>2
  <2>2. ASSUME NEW j \in Slots, NEW k \in Slots, slots'[j] # Unused, slots'[j].fd = slots'[k].fd
        PROVE  j = k
    <3>1. j # i /\ slots'[j] = slots[j]
      BY <1>2, <2>2
    <3>2. slots[j].fd \in Fds
      BY <2>2, <3>1, OwnedFacts
    <3>3. k # i /\ slots'[k] = slots[k]
      BY <1>2, <1>8, <2>2, <3>1, <3>2
    <3> QED
      BY <2>2, <3>1, <3>3, OwnedFacts
  <2>3. ASSUME NEW e \in fds'
        PROVE  \/ e \in leaked
               \/ \E j \in Slots : slots'[j].fd = e
               \/ \E id \in Ids : servers'[id].fd = e
    <3>1. e \in fds /\ e # d
      BY <2>3 DEF d
    <3>2. ASSUME NEW j \in Slots, slots[j].fd = e PROVE slots'[j].fd = e
      <4>1. j # i
        BY <3>1, <3>2 DEF d
      <4> QED
        BY <1>2, <3>2, <4>1
    <3> QED
      BY <1>5, <3>1, <3>2, OwnedFacts
  <2>4. ASSUME NEW id \in Ids, NEW jd \in Ids, servers'[id].fd = servers'[jd].fd,
               ~servers'[id].closed, ~servers'[jd].closed
        PROVE  id = jd
    BY <1>5, <2>4, OwnedFacts
  <2> QED
    BY <1>4, <1>5, <1>7, <2>1, <2>2, <2>3, <2>4 DEF ServersOwn
<1> QED
  BY <1>4, <1>6, <1>9, <1>10, <1>11 DEF Owned

(* A client is accepted.                                                    *)
LEMMA OwnAccepted ==
  ASSUME TypeOK, Owned, NEW i \in Slots, slots[i] = Unused, NEW d \in Fds, d \notin fds,
         slots' = [slots EXCEPT ![i] = StreamOn(d)], fds' = fds \cup {d},
         UNCHANGED <<servers, leaked>>
  PROVE  Owned'
<1>0. Ids' = Ids
  BY DEF Ids
<1>1. slots'[i] = StreamOn(d) /\ \A j \in Slots : j # i => slots'[j] = slots[j]
  BY DEF TypeOK
<1>2. Unused.fd = 0 /\ 0 \notin Fds /\ slots'[i].fd = d /\ slots'[i] # Unused
  BY <1>1, SlotUse, Numbers
<1>3. \A j \in Slots : slots[j].fd # d
  BY <1>2, OwnedFacts
<1>4. \A id \in Ids : ~servers[id].closed => servers[id].fd # d /\ servers[id].fd \in fds'
  BY OwnedFacts
<1>5. SlotsOpen'
  <2>1. ASSUME NEW j \in Slots
        PROVE  \/ slots'[j] = Unused
               \/ slots'[j].fd \in fds' /\ slots'[j] \in {ListenOn(slots'[j].fd), StreamOn(slots'[j].fd)}
    <3>1. CASE j = i
      BY <1>1, <1>2, <3>1
    <3>2. CASE j # i
      <4>1. slots'[j] = slots[j]
        BY <1>1, <3>2
      <4> QED
        BY <4>1 DEF Owned, SlotsOpen
    <3> QED
      BY <3>1, <3>2
  <2> QED
    BY <1>0, <2>1 DEF Owned, SlotsOpen
<1>6. OneSlot'
  <2> SUFFICES ASSUME NEW id \in Ids, NEW j \in Slots, ~servers[id].closed,
                      slots'[j].fd = servers[id].fd
               PROVE  servers[id].slot = j
    BY <1>0 DEF OneSlot
  <2>1. j # i
    BY <1>2, <1>4
  <2> QED
    BY <1>1, <2>1 DEF Owned, OneSlot
<1>7. ServersOwn'
  <2>1. ASSUME NEW id \in Ids, ~servers[id].closed, servers[id].slot # 0
        PROVE  slots'[servers[id].slot] = ListenOn(servers[id].fd)
    <3>1. slots[servers[id].slot] = ListenOn(servers[id].fd) /\ servers[id].slot \in Slots
          /\ servers[id].fd \in Fds
      BY <2>1, OwnedFacts, OneServer
    <3>2. servers[id].slot # i
      BY <3>1, SlotUse
    <3> QED
      BY <1>1, <3>1, <3>2
  <2>2. ASSUME NEW j \in Slots, NEW k \in Slots, slots'[j] # Unused, slots'[j].fd = slots'[k].fd
        PROVE  j = k
    <3>1. \A a, b \in Slots : slots[a] # Unused /\ slots[a].fd = slots[b].fd => a = b
      BY OwnedFacts
    <3> QED
      BY <1>1, <1>2, <1>3, <2>2, <3>1
  <2>3. ASSUME NEW e \in fds'
        PROVE  \/ e \in leaked
               \/ \E j \in Slots : slots'[j].fd = e
               \/ \E id \in Ids : servers[id].fd = e
    <3>1. CASE e = d
      BY <1>2, <3>1
    <3>2. CASE e \in fds
      <4>1. ASSUME NEW j \in Slots, slots[j].fd = e PROVE slots'[j].fd = e
        <5>1. e # 0
          BY <1>2, <3>2 DEF TypeOK
        <5>2. j # i
          BY <1>2, <4>1, <5>1
        <5> QED
          BY <1>1, <4>1, <5>2
      <4> QED
        BY <3>2, <4>1, OwnedFacts
    <3> QED
      BY <3>1, <3>2
  <2> QED
    BY <1>0, <1>4, <2>1, <2>2, <2>3, OwnedFacts DEF ServersOwn
<1> QED
  BY <1>5, <1>6, <1>7 DEF Owned

-----------------------------------------------------------------------------
(* The actions, by what they change.                                       *)

Quiet ==
  \/ CreateFails \/ ModulesFail \/ AlreadyStarted \/ ModulesInit \/ ProcessInit \/ AdapterInit
  \/ AddToNoTree \/ ServerRun \/ (\E id \in Ids : UdpOnTcp(id))
  \/ Wakeup \/ Drained \/ SigQuit \/ MainThread \/ ThreadEnds

Requested ==
  \/ \E id \in Ids : ServerDel(id)
  \/ \E id \in Ids : UdpSend(id)
  \/ \E i \in known : TcpSend(i)

Added == \E kind \in Kinds : AddBefore(kind) \/ AddAfter(kind)

Handled == HandleDeclared \/ HandleCompiled

Streams == (\E id \in Ids : Accept(id)) \/ (\E i \in Slots : StreamEnds(i))

LEMMA Moves == Next <=> Quiet \/ Requested \/ Added \/ Handled \/ Streams \/ AddLeaks
  BY DEF Next, Quiet, Requested, Added, Handled, Streams, Loop

LEMMA QuietKeeps ==
  ASSUME Quiet
  PROVE  UNCHANGED <<servers, slots, fds, known, queue, dispatch, leaked, via>>
  BY DEF Quiet, CreateFails, ModulesFail, AlreadyStarted, ModulesInit, ProcessInit, AdapterInit,
         AddToNoTree, ServerRun, UdpOnTcp, Wakeup, Drained, SigQuit, MainThread, ThreadEnds,
         started, resources, rest, EventInit

LEMMA RequestedKeeps ==
  ASSUME TypeOK, Requested
  PROVE  /\ UNCHANGED <<servers, slots, fds, known, dispatch, leaked, via>>
         /\ \/ queue' = queue
            \/ \E r \in Requests :
                 /\ queue' = Append(queue, r) /\ r.cmd # "add"
                 /\ r.cmd = "udp" => r.id \in Ids /\ r.index = servers[r.id].fd
<1>1. ASSUME NEW r \in Requests, Ask(r), r.cmd # "add",
             r.cmd = "udp" => r.id \in Ids /\ r.index = servers[r.id].fd
      PROVE  /\ UNCHANGED <<servers, slots, fds, known, dispatch, leaked, via>>
             /\ queue' = queue \/ (queue' = Append(queue, r))
  BY <1>1 DEF Ask, Sent, Lost, resources
<1>2. ASSUME NEW id \in Ids
      PROVE  /\ [cmd |-> "del", index |-> servers[id].fd] \in Requests
             /\ [cmd |-> "udp", index |-> servers[id].fd, id |-> id] \in Requests
  <2>1. id \in Nat /\ servers[id].fd \in Fds
    BY OneServer
  <2> QED
    BY <2>1 DEF Requests
<1>3. ASSUME NEW i \in known PROVE [cmd |-> "tcp", conn |-> i] \in Requests
  BY DEF TypeOK, Requests
<1>4. CASE \E id \in Ids : ServerDel(id)
  <2>1. PICK id \in Ids : Ask([cmd |-> "del", index |-> servers[id].fd])
    BY <1>4 DEF ServerDel
  <2> DEFINE r == [cmd |-> "del", index |-> servers[id].fd]
  <2>2. r \in Requests /\ r.cmd = "del" /\ Ask(r)
    BY <1>2, <2>1
  <2> HIDE DEF r
  <2> QED
    BY <1>1, <2>2
<1>5. CASE \E id \in Ids : UdpSend(id)
  <2>1. PICK id \in Ids : Ask([cmd |-> "udp", index |-> servers[id].fd, id |-> id])
    BY <1>5 DEF UdpSend
  <2> DEFINE r == [cmd |-> "udp", index |-> servers[id].fd, id |-> id]
  <2>2. r \in Requests /\ r.cmd = "udp" /\ r.id = id /\ r.index = servers[id].fd /\ Ask(r)
    BY <1>2, <2>1
  <2> HIDE DEF r
  <2> QED
    BY <1>1, <2>2
<1>6. CASE \E i \in known : TcpSend(i)
  <2>1. PICK i \in known : Ask([cmd |-> "tcp", conn |-> i])
    BY <1>6 DEF TcpSend
  <2> DEFINE r == [cmd |-> "tcp", conn |-> i]
  <2>2. r \in Requests /\ r.cmd = "tcp" /\ Ask(r)
    BY <1>3, <2>1
  <2> HIDE DEF r
  <2> QED
    BY <1>1, <2>2
<1> QED
  BY <1>4, <1>5, <1>6 DEF Requested

(* What a step may do to the servers there are.                              *)
Grown ==
  /\ Ids \subseteq Ids'
  /\ \A id \in Ids :
       /\ servers'[id].fd = servers[id].fd
       /\ servers[id].at = "lost" => servers'[id].at = "lost"
       /\ servers[id].closed => servers'[id].closed

LEMMA NewDescriptor ==
  ASSUME NEW d \in Lowest
  PROVE  d \in Fds /\ d \notin fds
  BY DEF Lowest

LEMMA AddedStep ==
  ASSUME TypeOK, Owned, Added
  PROVE  /\ Owned' /\ Grown /\ servers' \in Seq(Server) /\ UNCHANGED <<known, dispatch, via>>
         /\ slots' \in [Slots -> [use : {"free", "listen", "stream"}, fd : 0 .. NumFds]]
         /\ fds' \subseteq Fds
         /\ \A id \in Ids : servers'[id] = servers[id]
         /\ LET n == Len(servers) + 1
            IN  /\ n \notin Ids /\ Ids' = Ids \cup {n}
                /\ \/ queue' = queue /\ servers'[n].at # "made"
                   \/ /\ queue' = Append(queue, [cmd |-> "add", id |-> n])
                      /\ servers'[n].at = "made" /\ servers'[n].slot = 0
<1> DEFINE n == Len(servers) + 1
<1>0. NumSlots \in Nat /\ 0 \in 0 .. NumSlots /\ fds \subseteq Fds
  BY Numbers DEF TypeOK
<1>1. ASSUME NEW s \in Server, servers' = Append(servers, s)
      PROVE  /\ n \notin Ids /\ Ids' = Ids \cup {n} /\ servers'[n] = s
             /\ \A id \in Ids : servers'[id] = servers[id]
             /\ servers' \in Seq(Server) /\ Grown
  <2>1. /\ n \notin Ids /\ Ids' = Ids \cup {n} /\ servers'[n] = s
        /\ \A id \in Ids : servers'[id] = servers[id]
        /\ servers' \in Seq(Server)
    BY <1>1, OneMore
  <2> QED
    BY <2>1 DEF Grown
<1>2. ASSUME NEW kind \in Kinds, AddBefore(kind)
      PROVE  \E s \in Server :
               /\ servers' = Append(servers, s) /\ s.at # "made" /\ Owned'
               /\ slots' \in [Slots -> [use : {"free", "listen", "stream"}, fd : 0 .. NumFds]]
               /\ fds' \subseteq Fds /\ UNCHANGED <<known, dispatch, via, queue>>
  <2>1. PICK d \in Lowest, i \in 0 .. NumSlots :
          /\ SlotFor(i) /\ Occupy(i, d) /\ fds' = fds \cup {d}
          /\ servers' = Append(servers,
                [fd |-> d, asked |-> kind, sock |-> kind, slot |-> i,
                 at |-> "registered", closed |-> FALSE])
    BY <1>2 DEF AddBefore
  <2> DEFINE s == [fd |-> d, asked |-> kind, sock |-> kind, slot |-> i,
                   at |-> "registered", closed |-> FALSE]
  <2>2. d \in Fds /\ d \notin fds
    BY NewDescriptor
  <2>3. /\ s \in Server /\ s.fd = d /\ s.slot = i /\ s.closed = FALSE /\ s.at = "registered"
        /\ servers' = Append(servers, s)
    BY <2>1, <2>2 DEF Server
  <2> HIDE DEF s
  <2>4. UNCHANGED <<known, dispatch, via, queue, leaked>>
    BY <1>2 DEF AddBefore, rest
  <2>5. slots' \in [Slots -> [use : {"free", "listen", "stream"}, fd : 0 .. NumFds]]
    BY <2>1, <2>2, Taking
  <2>6. Owned'
    BY <2>1, <2>2, <2>3, <2>4, OwnMade
  <2> QED
    BY <1>0, <2>1, <2>2, <2>3, <2>4, <2>5, <2>6
<1>3. ASSUME NEW kind \in Kinds, AddAfter(kind)
      PROVE  \E s \in Server :
               /\ servers' = Append(servers, s) /\ Owned'
               /\ slots' \in [Slots -> [use : {"free", "listen", "stream"}, fd : 0 .. NumFds]]
               /\ fds' \subseteq Fds /\ UNCHANGED <<known, dispatch, via>>
               /\ \/ queue' = queue /\ s.at # "made"
                  \/ /\ queue' = Append(queue, [cmd |-> "add", id |-> n])
                     /\ s.at = "made" /\ s.slot = 0
  <2>1. PICK d \in Lowest, at \in {"made", "lost"} :
          /\ fds' = fds \cup {d}
          /\ servers' = Append(servers,
                [fd |-> d, asked |-> kind, sock |-> "tcp", slot |-> 0,
                 at |-> at, closed |-> FALSE])
          /\ IF at = "made" THEN Sent([cmd |-> "add", id |-> Len(servers) + 1]) ELSE Lost
    BY <1>3 DEF AddAfter
  <2> DEFINE s == [fd |-> d, asked |-> kind, sock |-> "tcp", slot |-> 0,
                   at |-> at, closed |-> FALSE]
  <2>2. d \in Fds /\ d \notin fds
    BY NewDescriptor
  <2>3. /\ s \in Server /\ s.fd = d /\ s.slot = 0 /\ s.closed = FALSE /\ s.at = at
        /\ servers' = Append(servers, s)
    BY <1>0, <2>1, <2>2 DEF Server, Kinds
  <2> HIDE DEF s
  <2>4. UNCHANGED <<known, dispatch, via, leaked, slots>>
    BY <1>3 DEF AddAfter, rest
  <2>5. SlotFor(0)
    BY DEF SlotFor
  <2>6. Owned'
    BY <1>0, <2>1, <2>2, <2>3, <2>4, <2>5, OwnMade
  <2>7. \/ queue' = queue /\ s.at # "made"
        \/ queue' = Append(queue, [cmd |-> "add", id |-> n]) /\ s.at = "made"
    BY <2>1, <2>3 DEF Sent, Lost
  <2> QED
    BY <1>0, <2>1, <2>2, <2>3, <2>4, <2>6, <2>7 DEF TypeOK
<1> HIDE DEF n
<1>4. PICK kind \in Kinds : AddBefore(kind) \/ AddAfter(kind)
  BY DEF Added
<1>5. CASE AddBefore(kind)
  <2>1. PICK s \in Server :
               /\ servers' = Append(servers, s) /\ s.at # "made" /\ Owned'
               /\ slots' \in [Slots -> [use : {"free", "listen", "stream"}, fd : 0 .. NumFds]]
               /\ fds' \subseteq Fds /\ UNCHANGED <<known, dispatch, via, queue>>
    BY <1>2, <1>5
  <2> QED
    BY <1>1, <2>1 DEF n
<1>6. CASE AddAfter(kind)
  <2>1. PICK s \in Server :
               /\ servers' = Append(servers, s) /\ Owned'
               /\ slots' \in [Slots -> [use : {"free", "listen", "stream"}, fd : 0 .. NumFds]]
               /\ fds' \subseteq Fds /\ UNCHANGED <<known, dispatch, via>>
               /\ \/ queue' = queue /\ s.at # "made"
                  \/ /\ queue' = Append(queue, [cmd |-> "add", id |-> n])
                     /\ s.at = "made" /\ s.slot = 0
    BY <1>3, <1>6
  <2> QED
    BY <1>1, <2>1 DEF n
<1> QED
  BY <1>4, <1>5, <1>6

(* The first request at the inner socket.                                   *)
LEMMA First ==
  ASSUME TypeOK, QueueOK, queue # <<>>
  PROVE  /\ Head(queue) = queue[1] /\ queue[1] \in Requests /\ Orderly(1)
         /\ \A id : ~Announced(id, 1)
         /\ Tail(queue) \in Seq(Requests) /\ Len(Tail(queue)) = Len(queue) - 1
         /\ Len(queue) \in Nat /\ Len(queue) > 0
         /\ \A k \in 1 .. Len(queue) - 1 : Tail(queue)[k] = queue[k + 1]
<1> HIDE DEF Requests
<1>1. queue \in Seq(Requests)
  BY DEF TypeOK
<1>2. Len(queue) \in Nat /\ Len(queue) > 0 /\ 1 \in 1 .. Len(queue)
  BY <1>1
<1>3. /\ Head(queue) = queue[1] /\ queue[1] \in Requests
      /\ Tail(queue) \in Seq(Requests) /\ Len(Tail(queue)) = Len(queue) - 1
      /\ \A k \in 1 .. Len(queue) - 1 : Tail(queue)[k] = queue[k + 1]
  BY <1>1, <1>2
<1>4. Orderly(1)
  BY <1>2 DEF QueueOK
<1>5. 1 .. 1 - 1 = {}
  OBVIOUS
<1>6. \A id : ~Announced(id, 1)
  BY <1>5 DEF Announced
<1> QED
  BY <1>2, <1>3, <1>4, <1>6

LEMMA RequestKinds ==
  ASSUME NEW r \in Requests
  PROVE  /\ r.cmd \in {"add", "del", "udp", "tcp"}
         /\ r.cmd = "tcp" => r.conn \in Slots
<1>1. CASE r \in [cmd : {"add"}, id : Nat]
  BY <1>1
<1>2. CASE r \in [cmd : {"del"}, index : Fds]
  BY <1>2
<1>3. CASE r \in [cmd : {"udp"}, index : Fds, id : Nat]
  BY <1>3
<1>4. CASE r \in [cmd : {"tcp"}, conn : Slots]
  BY <1>4
<1> QED
  BY <1>1, <1>2, <1>3, <1>4 DEF Requests

LEMMA EmptySlot ==
  /\ \A i \in Slots : Unused \in [use : {"free", "listen", "stream"}, fd : 0 .. NumFds]
  /\ \A d \in Fds : StreamOn(d) \in [use : {"free", "listen", "stream"}, fd : 0 .. NumFds]
  BY Numbers DEF Unused, StreamOn

(* A slot is given back, and its descriptor closed.                         *)
LEMMA Freed ==
  ASSUME TypeOK, NEW i \in Slots, slots' = [slots EXCEPT ![i] = Unused],
         fds' = fds \ {slots[i].fd}
  PROVE  /\ slots' \in [Slots -> [use : {"free", "listen", "stream"}, fd : 0 .. NumFds]]
         /\ fds' \subseteq Fds
<1> DEFINE S == [use : {"free", "listen", "stream"}, fd : 0 .. NumFds]
<1>1. slots \in [Slots -> S] /\ Unused \in S
  BY EmptySlot DEF TypeOK
<1> HIDE DEF S
<1>2. slots' \in [Slots -> S]
  BY <1>1
<1> QED
  BY <1>2 DEF TypeOK, S

LEMMA StreamsStep ==
  ASSUME TypeOK, Owned, Streams
  PROVE  /\ Owned' /\ UNCHANGED <<servers, queue, dispatch, via>>
         /\ slots' \in [Slots -> [use : {"free", "listen", "stream"}, fd : 0 .. NumFds]]
         /\ fds' \subseteq Fds /\ known' \subseteq Slots
<1>1. ASSUME NEW id \in Ids, Accept(id)
      PROVE  /\ Owned' /\ UNCHANGED <<servers, queue, dispatch, via>>
             /\ slots' \in [Slots -> [use : {"free", "listen", "stream"}, fd : 0 .. NumFds]]
             /\ fds' \subseteq Fds /\ known' \subseteq Slots
  <2>1. PICK d \in Lowest, i \in FreeSlots :
          /\ slots' = [slots EXCEPT ![i] = StreamOn(d)]
          /\ fds' = fds \cup {d} /\ known' = known \cup {i}
    BY <1>1 DEF Accept
  <2>2. d \in Fds /\ d \notin fds /\ i \in Slots /\ slots[i] = Unused
    BY NewDescriptor DEF FreeSlots
  <2>3. UNCHANGED <<servers, queue, dispatch, via, leaked>>
    BY <1>1 DEF Accept, rest
  <2>4. Owned'
    BY <2>1, <2>2, <2>3, OwnAccepted
  <2> DEFINE S == [use : {"free", "listen", "stream"}, fd : 0 .. NumFds]
  <2>5. slots \in [Slots -> S] /\ StreamOn(d) \in S
    BY <2>2, EmptySlot DEF TypeOK
  <2> HIDE DEF S
  <2>6. slots' \in [Slots -> S]
    BY <2>1, <2>5
  <2>7. fds' \subseteq Fds /\ known' \subseteq Slots
    BY <2>1, <2>2 DEF TypeOK
  <2> QED
    BY <2>3, <2>4, <2>6, <2>7 DEF S
<1>2. ASSUME NEW i \in Slots, StreamEnds(i)
      PROVE  /\ Owned' /\ UNCHANGED <<servers, queue, dispatch, via>>
             /\ slots' \in [Slots -> [use : {"free", "listen", "stream"}, fd : 0 .. NumFds]]
             /\ fds' \subseteq Fds /\ known' \subseteq Slots
  <2>1. /\ slots[i].use = "stream" /\ slots' = [slots EXCEPT ![i] = Unused]
        /\ fds' = fds \ {slots[i].fd} /\ UNCHANGED <<servers, queue, dispatch, via, leaked, known>>
    BY <1>2 DEF StreamEnds, rest
  <2>2. Owned'
    BY <2>1, OwnEnded
  <2> QED
    BY <2>1, <2>2, Freed DEF TypeOK
<1> QED
  BY <1>1, <1>2 DEF Streams

LEMMA LeakStep ==
  ASSUME TypeOK, Owned, AddLeaks
  PROVE  /\ Owned' /\ fds' \subseteq Fds
         /\ UNCHANGED <<servers, slots, known, queue, dispatch, via>>
<1>1. PICK d \in Lowest : fds' = fds \cup {d} /\ leaked' = leaked \cup {d}
  BY DEF AddLeaks
<1>2. UNCHANGED <<servers, slots, known, queue, dispatch, via>> /\ Ids' = Ids
  BY DEF AddLeaks, Ids
<1>3. SlotsOpen' /\ OneSlot'
  BY <1>1, <1>2 DEF Owned, SlotsOpen, OneSlot
<1>4. ServersOwn'
  BY <1>1, <1>2 DEF Owned, ServersOwn
<1> QED
  BY <1>1, <1>2, <1>3, <1>4, NewDescriptor DEF Owned, TypeOK

(* The loop takes the first request from the inner socket.                   *)
LEMMA HandledStep ==
  ASSUME TypeOK, Owned, QueueOK, Handled
  PROVE  /\ Owned' /\ Grown /\ Ids' = Ids /\ UNCHANGED <<known, dispatch>>
         /\ servers' \in Seq(Server)
         /\ slots' \in [Slots -> [use : {"free", "listen", "stream"}, fd : 0 .. NumFds]]
         /\ fds' \subseteq Fds /\ queue # <<>> /\ queue' = Tail(queue)
         /\ \A id \in Ids :
              \/ servers'[id].at = servers[id].at /\ servers'[id].slot = servers[id].slot
              \/ Head(queue).cmd = "add" /\ Head(queue).id = id
         /\ dispatch = "declared" /\ Head(queue).cmd = "add" => servers'[Head(queue).id].at # "made"
         /\ \/ via' = via
            \/ dispatch = "declared" /\ UNCHANGED servers /\ HandleUdp(Head(queue))
<1> DEFINE S == [use : {"free", "listen", "stream"}, fd : 0 .. NumFds]
           r == Head(queue)
<1>1. queue # <<>> /\ queue' = Tail(queue)
  BY DEF Handled, HandleDeclared, HandleCompiled, Recv
<1>2. UNCHANGED <<dispatch, leaked>>
  BY DEF Handled, HandleDeclared, HandleCompiled, rest
<1>3. r \in Requests /\ r.cmd \in {"add", "del", "udp", "tcp"} /\ Orderly(1) /\ r = queue[1]
      /\ (r.cmd = "tcp" => r.conn \in Slots)
  <2>1. r \in Requests /\ r = queue[1] /\ Orderly(1)
    BY <1>1, First
  <2> HIDE DEF r
  <2> QED
    BY <2>1, RequestKinds
<1> HIDE DEF r
<1>4. slots \in [Slots -> S] /\ fds \subseteq Fds /\ servers \in Seq(Server)
  BY DEF TypeOK
<1> HIDE DEF S
<1>5. UNCHANGED <<servers>> => Ids' = Ids /\ Grown
  BY DEF Ids, Grown
<1>6. CASE UNCHANGED <<servers, slots, fds, known>> /\ (via' = via \/ (dispatch = "declared" /\ HandleUdp(r)))
           /\ (dispatch = "declared" => r.cmd # "add")
  <2>1. Owned'
    BY <1>2, <1>5, <1>6 DEF Owned, SlotsOpen, OneSlot, ServersOwn
  <2> QED
    BY <1>1, <1>2, <1>4, <1>5, <1>6, <2>1 DEF r, S
<1>7. CASE HandleCompiled
  <2>1. UNCHANGED <<servers, slots, fds, known, via>> /\ dispatch # "declared"
    BY <1>7 DEF HandleCompiled, resources
  <2> QED
    BY <1>6, <2>1
<1>8. ASSUME dispatch = "declared", HandleDel(r) \/ HandleUdp(r)
      PROVE  /\ UNCHANGED <<servers, slots, fds, known>>
             /\ via' = via \/ HandleUdp(r)
             /\ r.cmd # "add"
  BY <1>8 DEF HandleDel, HandleUdp, resources
<1>9. CASE dispatch = "declared" /\ HandleAdd(r)
  <2>1. /\ r.cmd = "add" /\ UNCHANGED <<fds, known, via>>
        /\ r.id \in Ids /\ servers[r.id].at = "made" /\ servers[r.id].slot = 0
    BY <1>3, <1>9 DEF HandleAdd, Orderly
  <2>2. PICK i \in 0 .. NumSlots :
          /\ SlotFor(i) /\ Occupy(i, servers[r.id].fd)
          /\ servers' = [servers EXCEPT ![r.id].slot = i, ![r.id].at = "registered"]
    BY <1>9 DEF HandleAdd
  <2> DEFINE q == r.id
  <2>3. q \in Ids /\ servers[q].slot = 0 /\ SlotFor(i) /\ Occupy(i, servers[q].fd)
        /\ servers' = [servers EXCEPT ![q].slot = i, ![q].at = "registered"]
    BY <2>1, <2>2
  <2> HIDE DEF q
  <2>4. Owned' /\ servers' \in Seq(Server) /\ Ids' = Ids
    BY <1>2, <2>1, <2>3, OwnRegistered
  <2>5. slots' \in [Slots -> S]
    BY <2>3, Taking, OneServer DEF S
  <2>6. /\ \A id \in Ids : id # q => servers'[id] = servers[id]
        /\ servers'[q].fd = servers[q].fd /\ servers'[q].closed = servers[q].closed
        /\ servers'[q].at = "registered"
    BY <1>2, <2>1, <2>3, OwnRegistered
  <2>7. Grown
    BY <2>1, <2>4, <2>6 DEF Grown, q
  <2>8. \A id \in Ids :
              \/ servers'[id].at = servers[id].at /\ servers'[id].slot = servers[id].slot
              \/ r.cmd = "add" /\ r.id = id
    BY <2>1, <2>6 DEF q
  <2>9. servers'[r.id].at # "made"
    BY <2>6 DEF q
  <2> QED
    BY <1>1, <1>2, <1>4, <2>1, <2>4, <2>5, <2>7, <2>8, <2>9 DEF r, S
<1>10. CASE dispatch = "declared" /\ HandleTcp(r)
  <2>1. r.cmd = "tcp" /\ UNCHANGED <<servers, known, via>> /\ r.conn \in Slots
    BY <1>3, <1>10 DEF HandleTcp
  <2>2. CASE UNCHANGED <<slots, fds>>
    BY <1>6, <1>10, <2>1, <2>2
  <2>3. CASE /\ slots[r.conn].use = "stream" /\ slots' = [slots EXCEPT ![r.conn] = Unused]
             /\ fds' = fds \ {slots[r.conn].fd}
    <3>1. Owned'
      BY <1>2, <2>1, <2>3, OwnEnded
    <3>2. slots' \in [Slots -> S] /\ fds' \subseteq Fds
      BY <2>1, <2>3, Freed DEF S
    <3> QED
      BY <1>1, <1>2, <1>4, <1>5, <2>1, <3>1, <3>2 DEF r, S
  <2> QED
    BY <1>10, <2>2, <2>3 DEF HandleTcp
<1>11. CASE dispatch = "declared" /\ HandleTcpStale(r)
  <2>1. /\ r.cmd = "tcp" /\ UNCHANGED <<known, via>> /\ r.conn \in Slots
        /\ slots[r.conn].use = "listen" /\ slots' = [slots EXCEPT ![r.conn] = Unused]
        /\ fds' = fds \ {slots[r.conn].fd}
        /\ servers' = [id \in Ids |-> IF servers[id].slot = r.conn /\ ~servers[id].closed
                                      THEN [servers[id] EXCEPT !.closed = TRUE]
                                      ELSE servers[id]]
    BY <1>3, <1>11 DEF HandleTcpStale
  <2>2. Owned' /\ servers' \in Seq(Server) /\ Ids' = Ids
    BY <1>2, <2>1, OwnLost
  <2>3. slots' \in [Slots -> S] /\ fds' \subseteq Fds
    BY <2>1, Freed DEF S
  <2>4. ASSUME NEW id \in Ids
        PROVE  /\ servers'[id].fd = servers[id].fd /\ servers'[id].at = servers[id].at
               /\ servers'[id].slot = servers[id].slot
               /\ servers[id].closed => servers'[id].closed
    <3>1. servers[id] \in Server
      BY OneServer
    <3> QED
      BY <2>1, <3>1 DEF Server
  <2>5. Grown
    BY <2>2, <2>4 DEF Grown
  <2> QED
    BY <1>1, <1>2, <2>1, <2>2, <2>3, <2>4, <2>5 DEF r, S
<1> QED
  BY <1>6, <1>7, <1>8, <1>9, <1>10, <1>11 DEF Handled, HandleDeclared, r

-----------------------------------------------------------------------------
(* The requests that wait.                                                 *)

(* One more request, or none, and perhaps one more server.                   *)
LEMMA QueueGrows ==
  ASSUME TypeOK, QueueOK, Coming, dispatch' = dispatch, Ids \subseteq Ids',
         \A id \in Ids : servers'[id] = servers[id],
         \/ queue' = queue /\ \A id \in Ids' \ Ids : servers'[id].at # "made"
         \/ \E r \in Requests :
              /\ queue' = Append(queue, r)
              /\ \A id \in Ids' \ Ids : servers'[id].at = "made" => r.cmd = "add" /\ r.id = id
              /\ r.cmd = "add" => /\ r.id \in Ids' \ Ids
                                  /\ servers'[r.id].at = "made" /\ servers'[r.id].slot = 0
              /\ r.cmd = "udp" => r.id \in Ids /\ r.index = servers[r.id].fd
  PROVE  QueueOK' /\ Coming'
<1> HIDE DEF Requests
<1>0. Len(queue) \in Nat /\ queue \in Seq(Requests)
  BY DEF TypeOK
<1>1. PICK n : n = Len(queue) /\ n \in Nat
  BY <1>0
<1>2. CASE queue' = queue /\ \A id \in Ids' \ Ids : servers'[id].at # "made"
  <2>1. \A id, k : Announced(id, k)' <=> Announced(id, k)
    BY <1>2 DEF Announced
  <2>2. ASSUME NEW k \in 1 .. n PROVE Orderly(k)'
    BY <1>1, <1>2, <2>1 DEF QueueOK, Orderly
  <2>3. ASSUME NEW id \in Ids', dispatch' = "declared", servers'[id].at = "made"
        PROVE  Announced(id, n + 1)'
    BY <1>1, <1>2, <2>1, <2>3 DEF Coming
  <2> QED
    BY <1>1, <1>2, <2>2, <2>3 DEF QueueOK, Coming
<1>3. ASSUME NEW r \in Requests,
             queue' = Append(queue, r),
             \A id \in Ids' \ Ids : servers'[id].at = "made" => r.cmd = "add" /\ r.id = id,
             r.cmd = "add" => /\ r.id \in Ids' \ Ids
                              /\ servers'[r.id].at = "made" /\ servers'[r.id].slot = 0,
             r.cmd = "udp" => r.id \in Ids /\ r.index = servers[r.id].fd
      PROVE  QueueOK' /\ Coming'
  <2>1. /\ Len(queue') = n + 1 /\ queue'[n + 1] = r
        /\ \A k \in 1 .. n : queue'[k] = queue[k]
    BY <1>0, <1>1, <1>3
  <2>2. ASSUME NEW id, NEW k \in 1 .. n + 1 PROVE Announced(id, k)' <=> Announced(id, k)
    <3>1. \A j \in 1 .. k - 1 : j \in 1 .. n
      BY <1>1
    <3> QED
      BY <2>1, <3>1 DEF Announced
  <2>3. ASSUME NEW k \in 1 .. n PROVE Orderly(k)'
    <3>1. queue'[k] = queue[k] /\ Orderly(k) /\ k \in 1 .. n + 1
      BY <1>1, <2>1 DEF QueueOK
    <3> QED
      BY <2>2, <3>1 DEF Orderly
  <2>4. Orderly(n + 1)'
    <3>1. n + 1 \in 1 .. n + 1
      BY <1>1
    <3>2. ASSUME r.cmd = "add" PROVE ~Announced(r.id, n + 1)
      <4>1. \A j \in 1 .. n : queue[j].cmd = "add" => queue[j].id \in Ids
        BY <1>1 DEF QueueOK, Orderly
      <4>2. (n + 1) - 1 = n
        BY <1>1
      <4> QED
        BY <1>3, <3>2, <4>1, <4>2, Zenon DEF Announced
    <3>3. ASSUME r.cmd = "udp", dispatch = "declared", servers'[r.id].at = "made"
          PROVE  Announced(r.id, n + 1)
      BY <1>1, <1>3, <3>3 DEF Coming
    <3> QED
      BY <1>3, <2>1, <2>2, <3>1, <3>2, <3>3 DEF Orderly
  <2>5. \A k \in 1 .. n + 1 : k \in 1 .. n \/ k = n + 1
    BY <1>1
  <2>6. QueueOK'
    BY <2>1, <2>3, <2>4, <2>5 DEF QueueOK
  <2>7. ASSUME NEW id \in Ids', dispatch' = "declared", servers'[id].at = "made"
        PROVE  Announced(id, Len(queue) + 1)'
    <3>1. \/ id \in Ids /\ Announced(id, n + 1)
          \/ r.cmd = "add" /\ r.id = id
      BY <1>1, <1>3, <2>7 DEF Coming
    <3>2. CASE r.cmd = "add" /\ r.id = id
      <4>1. n + 1 \in 1 .. ((n + 1) + 1) - 1
        BY <1>1
      <4> QED
        BY <2>1, <3>2, <4>1 DEF Announced
    <3>3. CASE Announced(id, n + 1)
      <4>1. PICK j \in 1 .. (n + 1) - 1 : queue[j].cmd = "add" /\ queue[j].id = id
        BY <3>3, Zenon DEF Announced
      <4>2. j \in 1 .. n /\ j \in 1 .. ((n + 1) + 1) - 1
        BY <1>1, <4>1
      <4> QED
        BY <2>1, <4>1, <4>2 DEF Announced
    <3> QED
      BY <3>1, <3>2, <3>3
  <2> QED
    BY <2>6, <2>7 DEF Coming
<1> QED
  BY <1>2, <1>3

(* The first request is taken.                                              *)
LEMMA QueueTaken ==
  ASSUME TypeOK, QueueOK, Coming, queue # <<>>, queue' = Tail(queue), dispatch' = dispatch,
         Ids' = Ids, \A id \in Ids : servers'[id].fd = servers[id].fd,
         \A id \in Ids :
           \/ servers'[id].at = servers[id].at /\ servers'[id].slot = servers[id].slot
           \/ Head(queue).cmd = "add" /\ Head(queue).id = id,
         dispatch = "declared" /\ Head(queue).cmd = "add" => servers'[Head(queue).id].at # "made"
  PROVE  QueueOK' /\ Coming'
<1> HIDE DEF Requests
<1>0. PICK n, h : n = Len(queue) /\ h = queue[1]
  OBVIOUS
<1>1. /\ n \in Nat /\ n > 0 /\ Head(queue) = h /\ Len(queue') = n - 1
      /\ \A k \in 1 .. n - 1 : queue'[k] = queue[k + 1]
  BY <1>0, First
<1>2. \A k \in 1 .. n - 1 : k + 1 \in 1 .. n /\ k + 1 \in Nat /\ k \in Nat /\ k >= 1
  BY <1>1
<1>3. ASSUME NEW id, NEW k \in 1 .. n, Announced(id, k)'
      PROVE  Announced(id, k + 1)
  <2>1. PICK j \in 1 .. k - 1 : queue'[j].cmd = "add" /\ queue'[j].id = id
    BY <1>3 DEF Announced
  <2>2. j \in 1 .. n - 1 /\ j + 1 \in 1 .. k + 1 - 1
    BY <1>1
  <2> QED
    BY <1>1, <2>1, <2>2 DEF Announced
<1>4. ASSUME NEW id, NEW k \in 1 .. n, Announced(id, k + 1)
      PROVE  Announced(id, k)' \/ (h.cmd = "add" /\ h.id = id)
  <2>1. PICK j \in 1 .. k + 1 - 1 : queue[j].cmd = "add" /\ queue[j].id = id
    BY <1>4 DEF Announced
  <2>2. CASE j = 1
    BY <1>0, <2>1, <2>2
  <2>3. CASE j # 1
    <3> DEFINE i == j - 1
    <3>1. i \in 1 .. n - 1 /\ i \in 1 .. k - 1 /\ i + 1 = j
      BY <1>1, <2>3
    <3> HIDE DEF i
    <3>2. queue'[i].cmd = "add" /\ queue'[i].id = id
      BY <1>1, <2>1, <3>1
    <3> QED
      BY <3>1, <3>2 DEF Announced
  <2> QED
    BY <2>2, <2>3
<1>5. ASSUME NEW id \in Ids, dispatch = "declared", servers'[id].at = "made"
      PROVE  servers[id].at = "made" /\ ~(h.cmd = "add" /\ h.id = id)
  BY <1>1, <1>5
<1>6. ASSUME NEW k \in 1 .. n - 1 PROVE Orderly(k)'
  <2>1. queue'[k] = queue[k + 1] /\ Orderly(k + 1) /\ k \in 1 .. n
    BY <1>0, <1>1, <1>2 DEF QueueOK
  <2>0. PICK r : r = queue[k + 1]
    OBVIOUS
  <2>2. ASSUME r.cmd = "add"
        PROVE  /\ r.id \in Ids /\ servers'[r.id].at = "made" /\ servers'[r.id].slot = 0
               /\ ~Announced(r.id, k)'
    <3>1. /\ r.id \in Ids /\ servers[r.id].at = "made" /\ servers[r.id].slot = 0
          /\ ~Announced(r.id, k + 1)
      BY <2>0, <2>1, <2>2 DEF Orderly
    <3>2. ~(h.cmd = "add" /\ h.id = r.id)
      <4>1. 1 \in 1 .. k + 1 - 1
        BY <1>2
      <4> QED
        BY <1>0, <3>1, <4>1 DEF Announced
    <3>3. ~Announced(r.id, k)'
      BY <1>3, <2>1, <3>1
    <3> QED
      BY <1>1, <3>1, <3>2, <3>3
  <2>3. ASSUME r.cmd = "udp"
        PROVE  /\ r.id \in Ids /\ r.index = servers'[r.id].fd
               /\ dispatch = "declared" /\ servers'[r.id].at = "made" => Announced(r.id, k)'
    <3>1. /\ r.id \in Ids /\ r.index = servers[r.id].fd
          /\ dispatch = "declared" /\ servers[r.id].at = "made" => Announced(r.id, k + 1)
      BY <2>0, <2>1, <2>3 DEF Orderly
    <3> QED
      BY <1>4, <1>5, <2>1, <3>1
  <2>4. queue'[k] = r
    BY <2>0, <2>1
  <2> QED
    BY <2>2, <2>3, <2>4 DEF Orderly
<1>7. ASSUME NEW id \in Ids, dispatch = "declared", servers'[id].at = "made"
      PROVE  Announced(id, Len(queue) + 1)'
  <2>1. Announced(id, n + 1) /\ n \in 1 .. n
    BY <1>0, <1>1, <1>5, <1>7 DEF Coming
  <2>2. Announced(id, n)'
    BY <1>4, <1>5, <1>7, <2>1
  <2>3. Len(queue') + 1 = n
    BY <1>1
  <2> QED
    BY <2>2, <2>3 DEF Announced
<1> QED
  BY <1>1, <1>6, <1>7 DEF QueueOK, Coming

-----------------------------------------------------------------------------
(* The invariant.                                                          *)

LEMMA UdpFinds ==
  ASSUME TypeOK, Owned, QueueOK, queue # <<>>, dispatch = "declared", UNCHANGED servers,
         HandleUdp(Head(queue)), Asked, SendFindsServer
  PROVE  Asked' /\ SendFindsServer'
<1> DEFINE r == queue[1]
<1>1. Head(queue) = r /\ Orderly(1) /\ ~Announced(r.id, 1)
  BY First
<1>2. Ids' = Ids /\ r.cmd = "udp"
  BY <1>1 DEF HandleUdp, Ids
<1>3. r.id \in Ids /\ r.index = servers[r.id].fd /\ servers[r.id].at # "made"
  BY <1>1, <1>2 DEF Orderly
<1>4. servers[r.id].at \in {"registered", "lost"}
  <2>1. servers[r.id] \in Server
    BY <1>3, OneServer
  <2> QED
    BY <1>3, <2>1 DEF Server
<1>5. \A k \in Registered(r.index) :
        /\ k \in Ids /\ servers[k].fd = servers[r.id].fd
        /\ k = r.id \/ servers[k].closed \/ servers[r.id].closed
  <2>1. \A k \in Registered(r.index) : k \in Ids /\ servers[k].fd = servers[r.id].fd
    BY <1>3 DEF Registered
  <2> QED
    BY <1>3, <2>1, OwnedFacts
<1>6. servers[r.id].at = "lost" \/ r.id \in Registered(r.index)
  BY <1>3, <1>4 DEF Registered
<1>7. \E u : /\ via' = via \cup {[asked |-> r.id, used |-> u]}
             /\ \/ u \in Registered(r.index)
                \/ u = 0 /\ Registered(r.index) = {}
  BY <1>1 DEF HandleUdp
<1>8. PICK u : /\ via' = via \cup {[asked |-> r.id, used |-> u]}
               /\ u \in Registered(r.index) \/ Registered(r.index) = {}
  BY <1>7
<1>9. \/ u = r.id \/ servers[r.id].at = "lost"
      \/ \E id \in Ids : servers[id].closed /\ servers[id].fd = servers[r.id].fd
  BY <1>3, <1>5, <1>6, <1>8
<1> HIDE DEF r
<1>10. ASSUME NEW v \in via'
       PROVE  /\ v.asked \in Ids
              /\ \/ v.used = v.asked \/ servers[v.asked].at = "lost"
                 \/ \E id \in Ids : servers[id].closed /\ servers[id].fd = servers[v.asked].fd
  <2>1. CASE v \in via
    BY <2>1 DEF Asked, SendFindsServer
  <2>2. CASE v = [asked |-> r.id, used |-> u]
    BY <1>3, <1>9, <2>2
  <2> QED
    BY <1>8, <2>1, <2>2
<1> QED
  BY <1>2, <1>10 DEF Asked, SendFindsServer

LEMMA ViaKept ==
  ASSUME Grown, via' = via, Asked, SendFindsServer
  PROVE  Asked' /\ SendFindsServer'
<1>1. Asked'
  BY DEF Asked, Grown
<1>2. ASSUME NEW v \in via
      PROVE  \/ v.used = v.asked \/ servers'[v.asked].at = "lost"
             \/ \E id \in Ids' : servers'[id].closed /\ servers'[id].fd = servers'[v.asked].fd
  <2>1. v.asked \in Ids
    BY DEF Asked
  <2>2. \/ v.used = v.asked \/ servers[v.asked].at = "lost"
        \/ \E id \in Ids : servers[id].closed /\ servers[id].fd = servers[v.asked].fd
    BY DEF SendFindsServer
  <2> QED
    BY <2>1, <2>2 DEF Grown
<1> QED
  BY <1>1, <1>2 DEF SendFindsServer

LEMMA InitInv == Init => IInv
<1> SUFFICES ASSUME Init PROVE IInv
  OBVIOUS
<1> DEFINE S == [use : {"free", "listen", "stream"}, fd : 0 .. NumFds]
<1>1. servers = <<>> /\ queue = <<>> /\ Ids = {} /\ via = {} /\ fds = {} /\ known = {}
  BY DEF Init, Ids
<1>2. servers \in Seq(Server) /\ queue \in Seq(Requests) /\ Len(queue) = 0
  <2> HIDE DEF Server, Requests
  <2> QED
    BY <1>1
<1>3. Unused \in S
  BY Numbers DEF Unused
<1> HIDE DEF S
<1>4. slots \in [Slots -> S] /\ \A i \in Slots : slots[i] = Unused
  BY <1>3 DEF Init
<1>5. TypeOK
  BY <1>1, <1>2, <1>4 DEF TypeOK, S
<1>6. Owned
  BY <1>1, <1>4 DEF Owned, SlotsOpen, OneSlot, ServersOwn
<1>7. QueueOK /\ Coming /\ Asked /\ SendFindsServer
  BY <1>1, <1>2 DEF QueueOK, Coming, Asked, SendFindsServer
<1> QED
  BY <1>5, <1>6, <1>7 DEF IInv

LEMMA NextInv == ASSUME IInv, Next PROVE IInv'
<1> USE DEF IInv
<1>0. servers \in Seq(Server) /\ queue \in Seq(Requests)
  BY DEF TypeOK
<1>1. ASSUME UNCHANGED <<servers, queue, dispatch>>
      PROVE  QueueOK' /\ Coming'
  BY <1>1 DEF QueueOK, Orderly, Coming, Announced, Ids
<1>2. ASSUME UNCHANGED <<servers, via>>
      PROVE  Asked' /\ SendFindsServer'
  BY <1>2 DEF Asked, SendFindsServer, Ids
<1>3. CASE Quiet
  <2>1. UNCHANGED <<servers, slots, fds, known, queue, dispatch, leaked, via>>
    BY <1>3, QuietKeeps
  <2>2. TypeOK' /\ Owned'
    BY <2>1 DEF TypeOK, Owned, SlotsOpen, OneSlot, ServersOwn, Ids
  <2> QED
    BY <1>1, <1>2, <2>1, <2>2
<1>4. CASE Streams
  BY <1>0, <1>1, <1>2, <1>4, StreamsStep DEF TypeOK
<1>5. CASE AddLeaks
  <2>1. UNCHANGED <<servers, slots, known, queue, dispatch, via>> /\ Owned' /\ fds' \subseteq Fds
    BY <1>5, LeakStep
  <2> QED
    BY <1>1, <1>2, <2>1 DEF TypeOK
<1>6. CASE Requested
  <2>1. UNCHANGED <<servers, slots, fds, known, dispatch, leaked, via>> /\ Ids' = Ids
    BY <1>6, RequestedKeeps DEF Ids
  <2>2. \/ queue' = queue
        \/ \E r \in Requests :
             /\ queue' = Append(queue, r) /\ r.cmd # "add"
             /\ r.cmd = "udp" => r.id \in Ids /\ r.index = servers[r.id].fd
    BY <1>6, RequestedKeeps
  <2>3. queue' \in Seq(Requests)
    <3> HIDE DEF Requests
    <3> QED
      BY <1>0, <2>2
  <2>4. TypeOK' /\ Owned'
    BY <2>1, <2>3 DEF TypeOK, Owned, SlotsOpen, OneSlot, ServersOwn, Ids
  <2>5. QueueOK' /\ Coming'
    BY <2>1, <2>2, QueueGrows
  <2> QED
    BY <1>2, <2>1, <2>4, <2>5
<1>7. CASE Added
  <2> DEFINE n == Len(servers) + 1
             q == [cmd |-> "add", id |-> n]
  <2>1. /\ Owned' /\ Grown /\ servers' \in Seq(Server) /\ UNCHANGED <<known, dispatch, via>>
        /\ slots' \in [Slots -> [use : {"free", "listen", "stream"}, fd : 0 .. NumFds]]
        /\ fds' \subseteq Fds
        /\ \A id \in Ids : servers'[id] = servers[id]
        /\ n \notin Ids /\ Ids' = Ids \cup {n}
        /\ \/ queue' = queue /\ servers'[n].at # "made"
           \/ queue' = Append(queue, q) /\ servers'[n].at = "made" /\ servers'[n].slot = 0
    BY <1>7, AddedStep
  <2>2. q \in Requests /\ q.cmd = "add" /\ q.id = n
    <3>1. n \in Nat
      BY OneServer
    <3> HIDE DEF n
    <3> QED
      BY <3>1 DEF Requests
  <2> HIDE DEF n, q
  <2>3. queue' \in Seq(Requests)
    <3>1. queue' = queue \/ queue' = Append(queue, q)
      BY <2>1
    <3> HIDE DEF Requests
    <3> QED
      BY <1>0, <2>2, <3>1
  <2>4. Ids \subseteq Ids' /\ Ids' \ Ids = {n}
    BY <2>1
  <2>5. QueueOK' /\ Coming'
    BY <2>1, <2>2, <2>4, QueueGrows
  <2>6. Asked' /\ SendFindsServer'
    BY <2>1, ViaKept
  <2> QED
    BY <2>1, <2>3, <2>5, <2>6 DEF TypeOK
<1>8. CASE Handled
  <2>1. /\ Owned' /\ Grown /\ Ids' = Ids /\ UNCHANGED <<known, dispatch>>
        /\ servers' \in Seq(Server)
        /\ slots' \in [Slots -> [use : {"free", "listen", "stream"}, fd : 0 .. NumFds]]
        /\ fds' \subseteq Fds /\ queue # <<>> /\ queue' = Tail(queue)
        /\ \A id \in Ids :
              \/ servers'[id].at = servers[id].at /\ servers'[id].slot = servers[id].slot
              \/ Head(queue).cmd = "add" /\ Head(queue).id = id
        /\ dispatch = "declared" /\ Head(queue).cmd = "add" => servers'[Head(queue).id].at # "made"
        /\ \/ via' = via
           \/ dispatch = "declared" /\ UNCHANGED servers /\ HandleUdp(Head(queue))
    BY <1>8, HandledStep
  <2>2. queue' \in Seq(Requests)
    BY <2>1, First
  <2>3. \A id \in Ids : servers'[id].fd = servers[id].fd
    BY <2>1 DEF Grown
  <2>4. QueueOK' /\ Coming'
    BY <2>1, <2>3, QueueTaken
  <2>5. Asked' /\ SendFindsServer'
    BY <2>1, ViaKept, UdpFinds
  <2> QED
    BY <2>1, <2>2, <2>4, <2>5 DEF TypeOK
<1> QED
  BY <1>3, <1>4, <1>5, <1>6, <1>7, <1>8, Moves

(* Servers, slots, descriptors and waiting requests keep their relation, in   *)
(* whatever order threads add, remove and send while the loop registers.    *)
THEOREM Invariance == Spec => []IInv
<1>1. IInv /\ UNCHANGED vars => IInv'
  <2> SUFFICES ASSUME IInv, UNCHANGED vars PROVE IInv'
    OBVIOUS
  <2>1. Ids' = Ids
    BY DEF vars, Ids
  <2>2. TypeOK' /\ Owned'
    BY <2>1 DEF IInv, vars, TypeOK, Owned, SlotsOpen, OneSlot, ServersOwn
  <2>3. QueueOK' /\ Coming' /\ Asked' /\ SendFindsServer'
    BY <2>1 DEF IInv, vars, QueueOK, Orderly, Coming, Announced, Asked, SendFindsServer
  <2> QED
    BY <2>2, <2>3 DEF IInv
<1>2. IInv /\ [Next]_vars => IInv'
  BY <1>1, NextInv
<1> QED
  BY <1>2, InitInv, PTL DEF Spec

(* A server's descriptor is open and its own from the thread that made it to  *)
(* the loop that registers it, for every number of slots and descriptors.   *)
THEOREM ServersKeepTheirOwn == Spec => []ServersOwn
<1>1. IInv => ServersOwn
  BY DEF IInv, Owned
<1> QED
  BY <1>1, Invariance, PTL

(* A send by UDP finds the server it names, since its registration was asked  *)
(* for before, for every number of threads' requests.                       *)
THEOREM SendsFindTheirs == Spec => []SendFindsServer
<1>1. IInv => SendFindsServer
  BY DEF IInv
<1> QED
  BY <1>1, Invariance, PTL
=============================================================================
