------------------------------ MODULE ConnMemory -------------------------------
(***************************************************************************)
(* What a connection owns besides its slot: its memory pool with the three *)
(* buffers of ws_conn_get and the peer's address, the address of a UDP     *)
(* connection, and its chain of pieces to send.  Every malloc() may fail.  *)
(*                                                                         *)
(* Which slot a connection gets, and its descriptor, are ConnLife's.       *)
(***************************************************************************)
EXTENDS Pool, Chain

CONSTANTS
    BlockSizes,     \* conn_buf_reserve, or 40960 when that is 0
    SendBuf2,       \* YMZ_CONN_SEND_BUF_SIZE
    Blocks,         \* YMZ_CONN_BLOCK_NUM
    AddrSize,       \* sizeof(struct sockaddr_in)
    UserSizes,      \* what handlers ask of the connection's pool
    MaxObjects,     \* bound on the calls of malloc()
    MaxTaken        \* bound on the pieces a pool hands out

ASSUME ConnMemoryAssumption ==
    /\ BlockSizes \subseteq Nat \ {0} /\ \A s \in BlockSizes : s >= Header
    /\ {SendBuf2, Blocks, AddrSize} \subseteq Nat \ {0}
    /\ UserSizes \subseteq Nat \ {0} /\ MaxObjects \in Nat /\ MaxTaken \in Nat

VARIABLES
    kind,           \* per connection: "free", "tcp", "udp", or "lost"
    pool,           \* its c->pool
    address,        \* the object c->sockaddr of a UDP connection is
    heap, next, orphans, twice,     \* see Pool
    blockSize       \* conn_buf_reserve does not change while the process runs

memVars == <<kind, pool, address, heap, next, orphans, twice, blockSize>>
vars == <<memVars, chainVars>>

Init ==
    /\ ChainInit
    /\ kind = [c \in Conns |-> "free"]
    /\ pool = [c \in Conns |-> NoPool]
    /\ address = [c \in Conns |-> 0]
    /\ heap = {} /\ next = 1 /\ orphans = {} /\ twice = FALSE
    /\ blockSize \in BlockSizes

\* The memory as the operators of Pool see it, when room calls of malloc() succeed.
Memory(p, room) ==
    [heap |-> heap, next |-> next, left |-> room, orphans |-> orphans,
     twice |-> twice, pool |-> p, got |-> NoRegion]
Rooms == 0 .. (MaxObjects + 1 - next)

\* The memory is now m, and connection c has m's pool.
Now(c, m) ==
    /\ pool' = [pool EXCEPT ![c] = m.pool]
    /\ heap' = m.heap /\ next' = m.next
    /\ orphans' = m.orphans /\ twice' = m.twice
    /\ UNCHANGED blockSize

-------------------------------------------------------------------------------
(* ws_conn_get: the pool, then the receive buffer, the send buffer and       *)
(* send_buf2.  Whatever fails, the pool is freed again; when it is the last, *)
(* the slot is already off the free list, and it stays so.                   *)
ConnGet(c) ==
    /\ kind[c] = "free"
    /\ \E room \in Rooms :
         LET a == PoolCreate(Memory(NoPool, room), blockSize, Blocks)
             r == BufAlloc(a, blockSize)
             s == BufAlloc(r, blockSize)
             b == BufAlloc(s, SendBuf2)
             undo(m) == Now(c, PoolFree(m))
         IN  \/ Failed(a) /\ Now(c, a) /\ UNCHANGED kind
             \/ ~Failed(a) /\ Failed(r) /\ undo(r) /\ UNCHANGED kind
             \/ ~Failed(a) /\ ~Failed(r) /\ Failed(s) /\ undo(s) /\ UNCHANGED kind
             \/ /\ ~Failed(a) /\ ~Failed(r) /\ ~Failed(s) /\ Failed(b)
                /\ undo(b) /\ kind' = [kind EXCEPT ![c] = "lost"]
             \/ /\ ~Failed(a) /\ ~Failed(r) /\ ~Failed(s) /\ ~Failed(b)
                /\ Now(c, b) /\ kind' = [kind EXCEPT ![c] = "tcp"]
    /\ UNCHANGED <<address, chainVars>>

(* ws_event_accept keeps the peer's address in the pool, and the handlers    *)
(* may ask it for more.  What they get stays theirs until the pool goes.     *)
Alloc(c) ==
    /\ kind[c] = "tcp" /\ Cardinality(pool[c].taken) < MaxTaken
    /\ \E size \in UserSizes \cup {AddrSize}, room \in Rooms :
         Now(c, BufAlloc(Memory(pool[c], room), size))
    /\ UNCHANGED <<kind, address, chainVars>>

(* ws_conn_udp_get: no pool; the address is an object of its own.            *)
UdpGet(c) ==
    /\ kind[c] = "free" /\ 1 \in Rooms
    /\ kind' = [kind EXCEPT ![c] = "udp"]
    /\ address' = [address EXCEPT ![c] = next]
    /\ Now(c, Malloc(Memory(NoPool, 1)))
    /\ UNCHANGED chainVars

(* ws_conn_udp_close.                                                        *)
UdpClose(c) ==
    /\ kind[c] = "udp"
    /\ kind' = [kind EXCEPT ![c] = "free"]
    /\ address' = [address EXCEPT ![c] = 0]
    /\ Now(c, Free(Memory(NoPool, 0), {address[c]}))
    /\ UNCHANGED chainVars

ConnFreeKeepsChain(c) ==
    /\ kind[c] = "tcp"
    /\ kind' = [kind EXCEPT ![c] = "free"]
    /\ Now(c, PoolFree(Memory(pool[c], 0)))
    /\ chain' = [chain EXCEPT ![c] = <<>>]
    /\ UNCHANGED <<address, free, count, queued, out, broken>>

(* ws_conn_close, ws_conn_free: the pool with all that is in it, then the    *)
(* chain.                                                                    *)
ConnFree(c) ==
    /\ kind[c] = "tcp"
    /\ kind' = [kind EXCEPT ![c] = "free"]
    /\ Now(c, PoolFree(Memory(pool[c], 0)))
    /\ Drop(c)
    /\ UNCHANGED address

(* The chain belongs to a connection in use.                                 *)
Fill(c) ==
    /\ kind[c] = "tcp"
    /\ \/ \E len \in PieceSizes, first \in BOOLEAN : AppendPiece(c, len, first)
       \/ AppendNone
    /\ UNCHANGED memVars

Send(c) ==
    /\ kind[c] = "tcp"
    /\ SendAll(c) \/ \E n \in 0..MaxBytes : SendSome(c, n)
    /\ UNCHANGED memVars

Next ==
    /\ ~broken
    /\ \E c \in Conns :
         \/ ConnGet(c) \/ Alloc(c) \/ ConnFree(c)
         \/ UdpGet(c) \/ UdpClose(c)
         \/ Fill(c) \/ Send(c)

Spec == Init /\ [][Next]_vars

-------------------------------------------------------------------------------
(* What a pool hands out, buffer headers and records included, never         *)
(* overlaps something it handed out before, and lies in one block, behind    *)
(* its header: also in blocks taken for what did not fit, whose size nothing *)
(* tests (ws_mem_buf_alloc, ws_mem_palloc_block).                            *)
Apart ==
    \A c \in Conns : pool[c] # NoPool =>
        LET p == pool[c] IN
        /\ \A r, s \in p.taken :
             r # s /\ r.obj = s.obj /\ r.block = s.block => r.to <= s.from \/ s.to <= r.from
        /\ \A r \in p.taken :
             /\ r.from >= Header
             /\ \E i \in DOMAIN p.chunks :
                  p.chunks[i].obj = r.obj /\ r.to <= p.chunks[i].cap

(* Nothing is freed twice, and what is in the heap has exactly one owner: a  *)
(* pool, a UDP connection, or nobody for good, which only happens to a large *)
(* object that got no record (ws_mem_pool_free and each way ws_conn_get ends *)
(* early).                                                                   *)
HeapOwned ==
    LET owned(c) == Objects(pool[c]) \cup ({address[c]} \ {0}) IN
    /\ ~twice
    /\ heap = orphans \cup UNION {owned(c) : c \in Conns}
    /\ \A c, d \in Conns : c # d => owned(c) \cap owned(d) = {}
    /\ \A c \in Conns : owned(c) \cap orphans = {}
===============================================================================
