---------------------------------- MODULE Pool ---------------------------------
(***************************************************************************)
(* The memory pools (src/src/mem/ws_mem.c) as operators on a record of the *)
(* process's memory:                                                       *)
(*   heap     the objects malloc() returned and free() has not seen        *)
(*   next     the number the next object gets; numbers are never reused    *)
(*   left     how many calls of malloc() still succeed                     *)
(*   orphans  history: objects no pool will ever free                      *)
(*   twice    history: an object was freed that was not in the heap        *)
(*   pool     the pool the operation works on                              *)
(*   got      what the operation returns, NoRegion for NULL                *)
(* Sizes count bytes, with no padding: the code does not align either.     *)
(***************************************************************************)
EXTENDS Integers, Sequences, SequencesExt, FiniteSets, FiniteSetsExt

CONSTANTS
    Header,         \* sizeof(ws_mem_pool_t)
    Extra,          \* what ws_mem_pool_create adds to the size: 1024
    BufHeader,      \* sizeof(ws_mem_buf_t)
    LargeRecord     \* sizeof(ws_mem_pool_large_t)

ASSUME PoolAssumption ==
    /\ Header \in Nat /\ Extra \in Nat /\ Header <= Extra
    /\ BufHeader \in 1 .. Header /\ LargeRecord \in 1 .. Header

NoPool == [chunks |-> <<>>]
NoRegion == [obj |-> 0, block |-> 0, from |-> 0, to |-> 0]

Object == Nat \ {0}

-------------------------------------------------------------------------------
(* malloc() and free().                                                      *)

Malloc(m) ==
    IF m.left = 0
      THEN [m EXCEPT !.got = NoRegion]
      ELSE [m EXCEPT !.heap = @ \cup {m.next}, !.next = @ + 1, !.left = @ - 1,
                     !.got = [NoRegion EXCEPT !.obj = m.next]]

Free(m, objs) ==
    [m EXCEPT !.heap = @ \ objs, !.twice = @ \/ ~(objs \subseteq m.heap)]

Failed(m) == m.got = NoRegion

-------------------------------------------------------------------------------
(* A chunk is one malloc() of several blocks.  Each block starts with a      *)
(* header, whether anything in it is used or not, and last is the first byte *)
(* of the block nobody has.                                                  *)
Chunk(obj, size, blocks) ==
    [obj |-> obj, cap |-> size + Extra, last |-> [b \in 1..blocks |-> Header]]

(* ws_mem_pool_create: the pool is the first block's header.                 *)
PoolCreate(m, size, blocks) ==
    LET a == Malloc(m) IN
    IF size < Header THEN [m EXCEPT !.got = NoRegion]
    ELSE IF Failed(a) THEN a
    ELSE [a EXCEPT !.pool =
            [max |-> size, chunks |-> <<Chunk(a.got.obj, size, blocks)>>,
             large |-> {}, taken |-> {}]]

(* pool->current is the newest chunk: ws_mem_palloc_block inserts it after   *)
(* the first one in the list of chunks.  The blocks of older chunks are      *)
(* never looked at again.                                                    *)
CurrentIn(p) == IF Len(p.chunks) = 1 THEN 1 ELSE 2

FitsOneMore(chunk, size) ==
    {b \in DOMAIN chunk.last : chunk.cap - chunk.last[b] >= size - 1}
Fits(chunk, size) == {b \in DOMAIN chunk.last : chunk.cap - chunk.last[b] >= size}

(* The next size bytes of block b of the pool's chunk number c.              *)
Carve(m, c, b, size) ==
    LET chunk == m.pool.chunks[c]
        r == [obj |-> chunk.obj, block |-> b,
              from |-> chunk.last[b], to |-> chunk.last[b] + size]
    IN  [m EXCEPT !.pool.chunks[c].last[b] = @ + size,
                  !.pool.taken = @ \cup {r}, !.got = r]

(* ws_mem_palloc_block: a chunk of as many blocks, made with the size the    *)
(* pool's blocks have, to which ws_mem_pool_create adds once more.  Nothing  *)
(* tests that its first block is large enough.                               *)
PallocBlock(m, size) ==
    LET a == Malloc(m)
        first == m.pool.chunks[1]
        new == Chunk(a.got.obj, first.cap, Len(first.last))
    IN  IF Failed(a) THEN a
        ELSE Carve([a EXCEPT !.pool.chunks = InsertAt(@, 2, new)], 2, 1, size)

FirstFit(m, size) ==
    LET c == CurrentIn(m.pool)
        fits == Fits(m.pool.chunks[c], size)
    IN  IF fits = {} THEN PallocBlock(m, size) ELSE Carve(m, c, Min(fits), size)

PoolMalloc(m, size) ==
    IF size > m.pool.max THEN [m EXCEPT !.got = NoRegion] ELSE FirstFit(m, size)

(* ws_mem_palloc_large: when there is no memory for the record, the data     *)
(* already allocated is forgotten.                                           *)
PallocLarge(m, size) ==
    LET a == Malloc(m)
        data == a.got.obj
        r == PoolMalloc(a, LargeRecord)
    IN  IF Failed(a) THEN a
        ELSE IF Failed(r) THEN [r EXCEPT !.orphans = @ \cup {data}]
        ELSE [r EXCEPT !.pool.large = @ \cup {data},
                       !.got = [obj |-> data, block |-> 0, from |-> 0, to |-> size]]

(* ws_mem_buf_alloc: the buffer's header, then its data.                     *)
BufAlloc(m, size) ==
    LET h == PoolMalloc(m, BufHeader) IN
    IF Failed(h) THEN h
    ELSE IF size <= m.pool.max THEN FirstFit(h, size) ELSE PallocLarge(h, size)

ChunkObjects(p) == {p.chunks[c].obj : c \in DOMAIN p.chunks}
Objects(p) == IF p = NoPool THEN {} ELSE ChunkObjects(p) \cup p.large

PoolFreeFirst(m) ==
    [Free(m, m.pool.large \cup {m.pool.chunks[1].obj}) EXCEPT !.pool = NoPool]

(* ws_mem_pool_free: the large objects, then every chunk.                    *)
PoolFree(m) == [Free(m, Objects(m.pool)) EXCEPT !.pool = NoPool]
===============================================================================
