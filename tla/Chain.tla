--------------------------------- MODULE Chain ---------------------------------
(***************************************************************************)
(* Chains of fixed-size pieces waiting to be sent (src/src/mem/ws_chain.c  *)
(* and src/src/conn/ws_conn_send_chain.c): the list of free pieces all     *)
(* connections share, and per connection the chain of pieces to send.      *)
(*                                                                         *)
(* Nothing in the repository fills a chain; the user here does what the    *)
(* interface asks for: it appends a piece, fills it, marks the first piece *)
(* of each message, and sends whenever it likes.  A byte is identified by  *)
(* its place in the connection's stream.                                   *)
(***************************************************************************)
EXTENDS Integers, Sequences, SequencesExt, FiniteSets, FiniteSetsExt

CONSTANTS
    Conns,          \* the connections
    Pieces,         \* YMZ_CHAIN_MAX_NUM of them
    PieceSizes,     \* bytes a piece may be filled with
    MaxBytes        \* bound on the bytes a connection queues

ASSUME ChainAssumption ==
    /\ IsFiniteSet(Pieces) /\ MaxBytes \in Nat
    /\ PieceSizes \subseteq Nat \ {0}

VARIABLES
    free,           \* ws_chain_f, its head first
    count,          \* ws_chain_n
    chain,          \* per connection, send_chain, its head first
    queued,         \* how many bytes the connection was given to send
    out,            \* the bytes the kernel took from it, in order
    broken          \* whether ws_chain_get used a piece that is not there

chainVars == <<free, count, chain, queued, out, broken>>

(* ws_chain_module_init.  Its loop also leaves the last piece out of the     *)
(* initialisation and does it afterwards; the order of the list is no one's. *)
ChainInit ==
    /\ free \in {q \in [1..Cardinality(Pieces) -> Pieces] : IsInjective(q)}
    /\ count = Cardinality(Pieces)
    /\ chain = [c \in Conns |-> <<>>]
    /\ queued = [c \in Conns |-> 0]
    /\ out = [c \in Conns |-> <<>>]
    /\ broken = FALSE

(* A piece in a chain: io_len, io_pos, first_set, and how many bytes of the  *)
(* stream come before its own.                                               *)
Item(p, len, first, before) ==
    [piece |-> p, len |-> len, pos |-> 0, first |-> first, before |-> before]

PiecesOf(q) == [i \in DOMAIN q |-> q[i].piece]

-------------------------------------------------------------------------------
(* ws_chain_append and what its caller does with the piece.                  *)
AppendPiece(c, len, first) ==
    /\ free # <<>> /\ queued[c] + len <= MaxBytes
    /\ free' = Tail(free) /\ count' = count - 1
    /\ chain' = [chain EXCEPT ![c] = Append(@, Item(Head(free), len, first, queued[c]))]
    /\ queued' = [queued EXCEPT ![c] = @ + len]
    /\ UNCHANGED <<out, broken>>

(* ws_chain_get tests the address of a function instead of the list, so that *)
(* an empty list is used as if it had a piece.                               *)
AppendNone ==
    /\ free = <<>>
    /\ broken' = TRUE
    /\ UNCHANGED <<free, count, chain, queued, out>>

(* ws_chain_put for each piece of the chain q, one after the other.          *)
Put(q) ==
    /\ free' = Reverse(PiecesOf(q)) \o free
    /\ count' = count + Len(q)

IsSent(item) == item.pos >= item.len

(* ws_chain_get_next: how many pieces of the chain q are let go of.  The     *)
(* head's mark does not count; the walk stops at a piece not all sent, and   *)
(* only a marked piece makes it let go of those before.                      *)
Passed(q) ==
    LET cuts == {i \in 2..Len(q) : q[i].first /\ \A j \in 1..(i - 1) : IsSent(q[j])}
    IN  IF cuts = {} THEN 0 ELSE Min(cuts) - 1

(* The bytes of a piece, and of the chain q, that are still to be sent.      *)
Rest(item) == [i \in 1..(item.len - item.pos) |-> item.before + item.pos + i]
Unsent(q) == FlattenSeq([i \in DOMAIN q |-> Rest(q[i])])

AdvanceNothing(q, n) == [i \in DOMAIN q |-> [q[i] EXCEPT !.first = @ /\ i # 1]]

(* ws_send_conn_chain along the chain q when the kernel takes n bytes: every *)
(* piece records how far it got.  The head loses its mark.                   *)
Advance(q, n) ==
    LET taken == {Unsent(q)[i] : i \in 1..n}
    IN  [i \in DOMAIN q |->
            [q[i] EXCEPT !.pos = @ + Cardinality(taken \cap ToSet(Rest(q[i]))),
                         !.first = @ /\ i # 1]]

(* ws_conn_send_chain.  The kernel takes n bytes and then no more, or fails; *)
(* the chain is kept and what was sent is recorded.                          *)
SendSome(c, n) ==
    LET q == chain[c]
        kept == SubSeq(q, Passed(q) + 1, Len(q))
    IN  /\ q # <<>> /\ n < Len(Unsent(kept))
        /\ Put(SubSeq(q, 1, Passed(q)))
        /\ chain' = [chain EXCEPT ![c] = Advance(kept, n)]
        /\ out' = [out EXCEPT ![c] = @ \o SubSeq(Unsent(kept), 1, n)]
        /\ UNCHANGED <<queued, broken>>

(* The kernel takes it all: every piece is put back.                         *)
SendAll(c) ==
    LET q == chain[c] IN
    /\ q # <<>>
    /\ Put(q)
    /\ chain' = [chain EXCEPT ![c] = <<>>]
    /\ out' = [out EXCEPT ![c] = @ \o Unsent(q)]
    /\ UNCHANGED <<queued, broken>>

(* ws_chain_free(c->send_chain), in ws_conn_free.                            *)
Drop(c) ==
    /\ Put(chain[c])
    /\ chain' = [chain EXCEPT ![c] = <<>>]
    /\ queued' = [queued EXCEPT ![c] = 0]
    /\ out' = [out EXCEPT ![c] = <<>>]
    /\ UNCHANGED broken

-------------------------------------------------------------------------------
(* No piece is lost, free twice, or in two chains, and ws_chain_n is the     *)
(* length of the free list, whatever is sent in parts and whichever          *)
(* connection goes away in between (ws_chain_get, ws_chain_put and the walk  *)
(* of ws_chain_get_next).                                                    *)
PiecesKept ==
    LET holders(p) == {c \in Conns : p \in ToSet(PiecesOf(chain[c]))} IN
    /\ IsInjective(free) /\ \A c \in Conns : IsInjective(PiecesOf(chain[c]))
    /\ \A p \in Pieces :
         IF p \in ToSet(free) THEN holders(p) = {} ELSE Cardinality(holders(p)) = 1
    /\ count = Len(free)

(* What a connection has sent and what its chain still holds, one after the  *)
(* other, are the bytes it was given, each once and in order, however the    *)
(* kernel cuts them (ws_conn_send_chain).                                    *)
ChainInOrder ==
    \A c \in Conns : out[c] \o Unsent(chain[c]) = [i \in 1..queued[c] |-> i]
===============================================================================
