# A formal model of WhatsServer

WhatsServer is a TCP server in C: one process, or a master with workers, each
with a single event loop over epoll. The loop accepts connections, cuts
their byte streams into length-prefixed messages for the application, sends
what the application asks for, and closes connections that stay silent.

This directory holds TLA+ modules of its parts, the TLC configurations that
check them on small instances, and theorems that TLAPS proves for every value of
the constants. `PROJECT.json` lists the components, the runs, a mutant of the
code per property, the source lines each definition models, the hazards of the
code and the theorems.

    tlc -workers 2 -config ConnLife.cfg ConnLife      # one run
    tlapm ConnLifeProofs.tla                          # the proofs about it

Contents: [the system](#the-system) · [modules](#the-modules-and-the-code) ·
[runs](#the-runs) · [fairness](#fairness) · [proofs](#what-is-proved) ·
[findings](#findings) · [observations](#what-the-models-taught-about-the-code) ·
[limits](#what-is-not-modelled) · [what could follow](#what-could-follow)

Paths below are relative to `src/` of the repository, so `src/net/ws_net.c` is
`src/src/net/ws_net.c` in `PROJECT.json`.

## The system

### Components, their state and their operations

| Component | State | Operations | Code |
|---|---|---|---|
| Connection life cycle | array of `conn_reserve` slots, free list, two counters; per slot the descriptor, memory pool, read and write event | `ws_conn_get`, `ws_conn_free`, `ws_conn_close`, `ws_event_accept`, the epoll batch | `conn/ws_conn.c`, `event/` |
| Framing | `recv_buf` with `recv_pos`, `last_finish_recv_pos`, `handle_pos`, `recv_mark` | `ws_net_read`, `ws_conn_recv`, `ws_check_handle` | `net/ws_net.c`, `conn/ws_conn_recv.c` |
| Sending | `send_buf2` with `send_pos`, `send_wpos`; the write handler, `wev->active` | `ws_net_tcp_send`, `ws_conn_send_event`, `ws_event_send` | `conn/ws_conn_send.c`, `net/ws_net.c` |
| Idle timeouts | tree of timers, cached time and counter | `ws_event_timer_add`, `_del`, `_expire`, `ws_time_update` | `event/ws_event_timer.c`, `tools/ws_time.c` |
| Red-black tree | nodes with links, colour, key | insert, delete, minimum, get | `tools/ws_rbtree.c` |
| Master and workers | `ws_processes`, signal flags, a pipe per worker | master loop, signal handlers, respawn, worker loop | `os/ws_os.c`, `os/ws_process.c` |
| Servers and adapter | tree of servers; a UDP socket of the process to itself; what of the initialisation worked | initialise, run, add, remove; requests of application threads as datagrams | `core/`, `net/ws_net.c`, `conn/ws_listen.c` |
| Log | per log a descriptor, a size, a file number; one buffer for file names | an entry, turning a full file, set path or file, close | `log/ws_log.c` |
| Memory pools | chunks of blocks, list of large objects | create, allocate, free (the server never fills a block) | `mem/ws_mem.c` |
| Chained sends (library code the server does not use) | shared list of pieces; a chain per connection | append, send, let go, free | `conn/ws_conn_send_chain.c`, `mem/ws_chain.c` |
| UDP | the address object of a connection | get, close, send | `conn/ws_conn.c`, `net/ws_net.c` |
| Not modelled | | websocket, HTTP, ICMP, `select` event module, clean-up timers, configuration, string map, test client: see [limits](#what-is-not-modelled) | |

### How they interact

- `ws_cycling` runs one turn of the loop: it updates the cached time, takes a
  batch of events from epoll, handles each, then expires timers. A handler runs to
  its end before the next event. Everything inside one process is therefore
  ordered; what is *not* ordered is the batch (the kernel's choice), the
  moment bytes, clients, FINs and resets arrive, and the moment a request to send
  reaches the loop.
- An epoll event carries the address of a *slot*, and a slot is reused as soon
  as it is freed. `ws_event_epoll_process` tells a stale event by `c->s == -1`.
- Accepting announces the connection (`on_connect`) and reads from it at once,
  inside the accept loop. Reading rearms the idle timer, frames what came,
  calls `on_recv` per message and ends by flushing pending output, each of which
  may close the connection (`on_closed`).
- The application's requests to add or remove a server and to send reach the
  loop as datagrams the process sends to itself (`core/ws_core_adapter.c:51-107`).
  They may be lost, and name a connection or a server by an *index*, which may
  be stale. Before the loop runs, servers are added by the caller itself.
- The application's threads and the loop's write the same log files, without a lock.
- A connection's buffers come from its own memory pool, freed as a whole when it
  closes; a chain of pieces, had one been filled, goes back to a list all connections
  share. The server fills none: the call of `ws_chain_module_init` is commented out
  (`cycle/ws_cycle.c:223-225`).
- The master orders its workers through two channels, a command in a pipe and
  a signal; it learns of their end by SIGCHLD, which is blocked outside
  `sigsuspend`.

### What is hard, and what makes each component correct

| Component | Hard behaviour | Correctness |
|---|---|---|
| Life cycle | reuse of slots inside one batch; an allocation failing after the slot was popped; no descriptors left; stale indices | a slot is free or in use, never both; every descriptor has one owner; the application's view is the loop's; no event reaches a connection it was not raised for; waiting clients are served |
| Framing | messages that end at, before or behind the end of a window; edge-triggered reads that stop early; FIN together with data; a failing second pass | positions are message boundaries, only a length word no message may have lets a read leave the buffer, each message delivered once and in order, each end noticed |
| Sending | partial sends; three pieces of state must agree for a write event to come | bytes in order, none lost, none stuck |
| Timeouts | lazily moved timers, cached time, the clock set back, equal keys | closed neither early nor late |
| Tree | rebalancing after deletion | sorted, balanced, links consistent |
| Servers | failed steps of the initialisation that nobody notices; requests that are lost, late, or about something that is gone | each socket and slot belongs to one server; a send leaves from the server it names; an added server is served (as compiled it is not: see [findings](#findings)) |
| Log | two threads between the read of a descriptor or size and its use, while files are turned | an entry stays where it was written; no descriptor lost or closed by mistake; a full file is turned |
| Memory, chains | any `malloc()` may fail; pieces sent in part; a connection that goes in between | objects freed once, regions disjoint, pieces neither lost nor doubled |
| Master | death at any point, merged SIGCHLDs, failed forks, signals between test and sleep | one process per slot, orders arrive, the dead are replaced |

The full list, each hazard at its line with the properties that watch it, is
`hazards` in `PROJECT.json`.

## The modules and the code

| Module | Models | Proofs |
|---|---|---|
| `ConnLife` | connection life cycle of one process | `ConnLifeProofs` |
| `MsgStream` | what the receive path promises: a queue of messages and a close | |
| `RecvFrame` | `ws_net_read` and `ws_conn_recv` on one connection; implements `MsgStream` | `RecvFrameProofs` |
| `SendPath` | output of one connection | `ConnMemoryProofs` |
| `Servers` | initialisation, servers, the adapter and its datagrams | `ServersProofs` |
| `Supervisor` | master and workers | `SupervisorProofs` |
| `EventTimer` | idle timeouts over the cached time | `EventTimerProofs` |
| `RBTree` | the red-black tree; `MCRBTree` is its instance | `RBTreeLemmas`, `EventTimerProofs` |
| `Log` | log files, turned while several threads write | `LogProofs` |
| `LogNumbers` | how numbers are written; `MCLog` is the instance of both | |
| `Pool`, `Chain` | memory pools as operators; chains of pieces to send | `ConnMemoryProofs` |
| `ConnMemory` | what a connection owns in memory, composed of the two; `MCConnMemory` is its instance | `ConnMemoryProofs` |

Variables carry the names of the C fields. Beside the code's state each module
has a few *history* variables, marked as such, that only properties read.
Operators whose comment or name says they do something else than the code
(`WrapsInMessage`, `ConnFreeKeepsChain`, `FitsOneMore`, `AddBeforeCloses`...)
are the mutated forms `PROJECT.json` names: plausible mistakes each property
must catch. They are not reachable from `Next`.

The modules meet at interfaces and not in one state space. `ConnLife` is the
loop; `RecvFrame` and `SendPath` are what its handlers do to the bytes of one
connection, `ConnMemory` what `ws_conn_get` and `ws_conn_free` do to memory,
`EventTimer` when its expiry happens, `RBTree` how `EventTimer` finds the least
key. `Servers` sees connections as slots only and adds what the application's
threads do. A worker of `Supervisor` is such a process as a whole.

### ConnLife

`pc` is where the single thread is: `setup` (servers are added), `wait` (in
`epoll_wait`), `dispatch` (taking events of the batch), `accept`, `read`,
`write` (in a handler), `expire` (timers), `crashed`. An epoll batch is a set
of records *slot, kinds, owner*; `owner` is a history field: whose event it is,
of the slot's connection ("own"), of an earlier one of its slot ("other"), or of
one that a request to send closed in the middle of the batch ("cut"). `pool` tells an allocated memory pool
(`live`), none (`null`), and one that was freed while still referenced
(`dangling`, the failure at `ws_conn.c:181`). `crashed` is entered when a send or
an event reaches such a slot.

Every allocation on the accept path may fail, separately (`Faults`): the pool
itself (refuse), the second send buffer (`AcceptLeak`: the slot is lost), the
address (`AcceptHalf`: the connection stays without handlers). `accept4` itself
fails when the process has no descriptor left (`AcceptNoFd`). What a read or a
write does to bytes is left to the two modules below; here a handler keeps or
closes its connection, as any of them may.

### RecvFrame, MsgStream

One connection: the peer sends messages, their bytes arrive in pieces, epoll
raises an edge, the loop reads until it gets less than it asked for. The
buffer's window depends on `recv_mark`: the first window ends before the reserve of
the last message. `pass` distinguishes the two calls of `ws_conn_recv` in one
`ws_net_read`; `times` is how often `ws_net_read_cycle` may still repeat it.
Contents are abstracted to `(position, length)` of each message;
a length word is read from where the code reads it, so reading it inside
a message would yield a wrong length, which `Aligned` excludes. The peer may put
any 32-bit word into a header (`Headers`, from `-MaxWord - 1` to `MaxWord`), and the
code believes it before it checks it: when the first bytes of a message lie at
the end of the window, `ws_check_recv` takes the word for the room of the next read
(`conn/ws_conn_recv.c:43-45`), and the test of `:193` comes later, if the header is
in. A read with more room than the buffer has left ends in `overrun` when as many bytes
wait (`RecvOverrun`); nothing is stated of the process from there on. The
difference `psize - size` wraps at the word's end (`Wrapped`), and `all_size` may go
beyond it: the loop then ends at once, or not, as the compiler likes, and
both outcomes are taken (`RecvWraps`).

`MsgStream` is the abstract specification; `StreamSpec` is its specification
with `sent` mapped to the messages that arrived in full and `closed` to
`pc = "closed"`. Its close may drop messages, so that a message
that was framed and is lost with the connection is no matter of the refinement: when
that may happen is `FramedThenClosed`.

### SendPath

`send_buf2`, its two positions and, per byte, which byte of the output it holds.
The write side works only if three things agree: which handler is installed,
`wev->active`, and what epoll is registered for (edge-triggered from the start;
`ws_event_add` replaces it by a level-triggered registration). The socket takes
any part of what it is offered, up to its room.

### EventTimer, RBTree

A timer's key is `deadline * K + counter`. `K` is 10000, `Lazy` 300000 (30 ms
in key units), so skipped moves are measured against 30 ms. The counter, meant to make keys
unique, is reset when the milliseconds exceed `ws_last_static_msec`, which has
32 bits. Only its sign matters. Not negative, it is below the milliseconds since
1970, and the counter restarts at each update: equal keys are then normal, and the tree
is checked with equal keys. Negative (every other 24.8 days), it is taken for a
huge unsigned number, and the counter never restarts in that process: each timer
set adds a key unit to all later deadlines. `MaxTimes` stands for the
counter's own limit. The clock may be set to any value at any time.

A timer is set by a read, and accepting reads: `ws_event_accept.c:94` calls
`ws_net_handle2`, which calls the read handler, which arms the timer (`ws_net.c:90`) once
per connection and so any number of times in one event (`Accept`; `AcceptEnded` is
a client whose first read already ends it). How many timers are set between
two updates of the time has no bound in the code. `burst` is the most there ever
were, and `Slack` adds what was set since the counter stopped restarting.
`EventTimer` treats the tree as the set of armed connections with "least key
first"; `RBTree` justifies that, node by node, with the sentinel's own
parent link, which deletion uses.

In `RBTree` a step is one turn of a loop of `ws_rbtree.c`, or what lies between
two loops: `at` says which loop the operation is in ("place", "raise", "subst",
"unlink", "lower", "get", "min", or "idle" between operations), `arg` is its
argument and `temp` the pointer the loop moves. `tree` has the root and, per
node, children, parent, colour and key. The code writes each case once for the
left and once for the right; here the side is a parameter. `list` is history:
the nodes as a sorted list, in which a new node goes behind those with its key.

### Supervisor

The master's tests in their order (`reap`, `quit`, `noaccept`), `ws_processes`
with `pid` as *zero* (never forked), *live*, or *stale* (reaped), each worker's
loop with its pipe, and the signals. SIGCHLD is delivered only in `sigsuspend`;
QUIT, TERM and WINCH at any step. A signal, WINCH too, interrupts a blocked `read` of
the channel, and the worker crashes: the handler takes the EINTR for an error and closes the
channel (`os/ws_os.c:131-136`), and the first thing `ws_conn_close` calls is
`tcp_server.on_closed` (`conn/ws_conn.c:366`), which is NULL in a slot that was not
accepted. So does the kill that tells a worker to quit. The master ignores `ws_terminate`.
`procs[i].pid = "zero"` after a failed first fork makes `kill` hit the process
group, the master included. Whether `fork` can fail in a behaviour is chosen at
the start (`forkFails`): `KillsOnlyItsOwn` and `DeadAreReplaced` are stated of
behaviours in which it does not. The serving side of a worker is left to `ConnLife`.

### Servers

`phase` follows `ws_core_server_init` through its steps, each with the failures
the code overlooks, into `setup`, where the caller adds servers, and `running`.
`up` and `adapter` keep what of it worked. `servers` is the list of the indices
the application was given; `at` tells a server whose request is on its way
(`made`), was lost (`lost`), or which is in `ws_net_server_tree` (`registered`).
A socket gets the least free descriptor, and a server's index *is* its
descriptor, so indices come back. A request is a record in `queue`, or nowhere.
`Recv` takes it off and the handler runs to its end.

`dispatch` is chosen at the start. In "compiled" the adapter calls its handler
through a pointer of another type, as it does, and a request ends in a wild
pointer (see [findings](#findings)); in "declared" the handler gets what its
prototype says. Without the second nothing else about the adapter could be
asked: `AddServed` and `SendFindsServer` are about "declared" alone. In the program as
it is compiled a server added after the start is never registered, and no send
by UDP gets to the loop. Undefined behaviour (`ws_net.c:429`, a buffer that was never set) ends the
model in phase "undefined".

### Log, LogNumbers

A call of the log is cut where another thread can tell: the two arguments are
read (in either order, the compiler's choice), `pwrite`, the load and the store
of `size += n`, and the five steps of a turn. Files are byte sequences, a byte is
the number of its entry. `table` maps a descriptor to a file, and a number that
was closed is given to the next `open`, so that a thread holding the old number
may write into another log's file. `LogNumbers` takes a conversion as its bits
and decimal places; TLC compares what it writes with the shortest decimal, for
*every* value of the widths 5, 8 and 10.

### Pool, Chain, ConnMemory

`Pool` is the allocator as operators on a record of the process's memory:
chunks, the first free byte of each block, large objects, and a budget of
`malloc` calls that still succeed. The budget is chosen anew for every
operation, so that each `malloc` in it may be the one that fails. `Chain` has the
shared free list and the chains, with the walk that lets go of pieces only up to
a marked one. `ConnMemory` runs both through the life of connections.

Chains are library code. Nothing in the server fills one, and the call that
would set up the shared list is commented out (`cycle/ws_cycle.c:223-225`): the model's
user does what the interface asks for. Nor does the server fill a pool's
block: a connection takes three buffers and an address, which its four blocks
always hold, so the path of a full block (`mem/ws_mem.c:57`) is checked for the
library's sake.

## The runs

| Run | Instance | Checks |
|---|---|---|
| `conn_life` | 1 listener + 3 slots, 2 descriptors, 5 clients, all faults, sends at any time | `PoolConserved`, `FdOwned`, `TimersBelong`, `AppView`, `NoStaleEvent`, `ClosePaired`, `ListenerKept`, `BacklogServed` |
| `recv_frame` | buffer 10 + 5, header 3, three messages of length words 1, 5, 11, words up to 15 | framing (`OverrunByWord`, `Aligned`, `NothingHeldBack`, `StallsAtTheEnd`), refinement `StreamSpec`, `FramedThenClosed`, `MessageServed`, `EndNoticed` |
| `recv_word` | buffer 11 + 6, a message of 6 and one whose word says 13 | *violated*: `NoOverrun`, see [findings](#findings) |
| `send_path` | buffer 6, socket 2, requests of 0..3 bytes, 9 bytes in all | `InOrder`, `Armed`, `Flushed` |
| `servers` | 2 slots, 4 descriptors, 2 servers, 2 requests, queue of 2 | `ServersOwn`; of dispatch as declared `SendFindsServer`, `AddServed` |
| `server_calls` | the same, dispatch as compiled | *violated*: `RequestsSurvive`, see [findings](#findings) |
| `master` | 2 workers; forks may fail, or never do | `OneProcessPerSlot`, `ToldWorkersKnow`, `KillsOnlyItsOwn`, `DeadAreReplaced` |
| `worker_quit` | 2 workers, forks succeed | *violated*: `QuittersEnd`, see [findings](#findings) |
| `event_timer` | 2 connections, life 2, clock 0..5, `K`=2, `Lazy`=3, the sign bit from 3 on, counter up to 3 | closed in time (`InTime`) and not early (`NotEarly`) |
| `rbtree` | 6 nodes, keys 1,1,2,2,3,4 | every sequence of insertions, deletions and searches: `KeepsOrder`, `Balanced`, `LinksBack`; `OperationsEnd`: no loop runs for ever |
| `log_files` | 2 threads, 2 logs, both modes, 3 calls | `Kept`, `DescriptorsOwned`, `OverIsTurned`, `NumbersReadBack` |
| `conn_memory` | 2 connections, 3 pieces, 4 calls of `malloc`, two block sizes | `Apart`, `HeapOwned`, `PiecesKept`, `ChainInOrder` |

What each shows, in a sentence, is its `about` in `PROJECT.json`; the properties
are stated in the modules, with the code they are about.

### Bounds, and why they are enough

- **Slots, descriptors, clients.** Three connection slots beside the listener let one batch
  hold an accept, an error on one connection and a read on another; five
  clients let a closed slot be reused twice. Two descriptors are less than the slots, so
  `accept4` fails while clients wait (`AcceptNoFd`); slots lost to a failed
  allocation make the pool run out before the descriptors do, and clients are refused. The proofs
  remove these bounds for the invariants.
- **`MaxClients`, `MaxSent`, `MaxAsked`, `MaxBytes`, `MaxClock`** only bound counters that
  grow for ever. With three messages of 5 bytes a window ends before, in and at the end of
  one, in its length word and behind its header, and after the third the buffer has wrapped.
- **Length words.** 1 is too short, 5 the longest a message may have, 11 more than that, and
  more than is left of the buffer where it straddles the end; `MaxWord` is the buffer's size, so that
  the sum of position and room goes beyond it. The proofs take any words.
- **The send buffer** of 6 fills and drops requests while 2 bytes of socket room
  give partial sends; 9 bytes are one and a half buffers, so positions are reset
  in between.
- **Timers.** `Lazy` < `K * Life` < reach of the clock: moves are skipped, made, and due, both ways of the clock. A counter
  up to 3 is several timers set between two updates of the time by two connections.
- **Six nodes** reach both sides of every rebalancing case, deletion of the
  root and of nodes whose substitute is or is not their child, and every loop
  takes more than one turn. Two pairs have equal keys. For the invariants the
  proofs remove the bound; for `OperationsEnd` it stays.
- **Two workers** are one that ends while the other is told. The signals are one
  of each kind the handlers tell apart: the order to quit, the one that ends a
  worker, and one that only interrupts it (the master notes it as "no accept").
- **Servers.** Two slots let a server get the slot a stream had, which a stale
  send needs; four descriptors let an index come back while another server is
  open. Two requests are enough for a send beside an earlier registration or
  close, and a queue of two is then full, so that a datagram is dropped.
  `MaxServers` and `MaxRequests` only bound what grows; the proofs remove them.
- **Log.** A file is over its limit with its second byte, and its number comes
  back after two turns; three calls are a turn that overlaps an entry and another
  turn. Four descriptors are those of two logs and two turns. The threads are
  symmetric.
- **Memory.** A block holds one or two buffers of a connection, so that its
  three buffers fill blocks, take a new chunk, and become large objects; four
  objects are a pool, a chunk, a large object and the next pool. Three pieces are
  a chain of two and a free one, two chains, and an exhausted list. Connections
  and pieces are symmetric.
- **Widths.** 5, 8 and 10 bits have 2, 3 and 4 decimal places as 32 and 64 bits
  have 10 and 20; every value is tried, the least and the largest included.

`CHECK_DEADLOCK FALSE` is set where the modelled part really ends: a connection
that closed (`recv_frame`, `recv_word`, `send_path`), a loop that crashed (`conn_life`), a
process that failed, ended or is undefined (`servers`), and where the bounds stop
what could go on (`log_files`, `conn_memory`).

### Properties worth a word

- `NoStaleEvent` and `ClosePaired` name what a stale request to send does.
  `ws_net_tcp_send` may close a slot in the middle of a batch, the listener may give it
  away in the same batch, and an older event then reaches the new connection. `FdOwned`,
  `AppView` and `ListenerKept` hold all the same and show that the harm is bounded: at
  worst the new connection gets a spurious read, write or close. And a connection that a
  failed allocation left without handlers may be closed by the index of its slot's
  earlier connection, whose `on_closed` then runs a second time.
- `BacklogServed` is conditioned on descriptors: when `accept4` finds none the client
  waits (`event/ws_event_accept.c:66`), and connections that nothing closes, the half-taken
  ones without a timer among them, may hold the last ones for ever. As long as a descriptor
  is free again and again every client is accepted or refused.
- With a lost slot in play, a send or an event uses a freed pool
  (`TcpSendCrash`, `DispatchCrash`); `conn_life` stops there.
- `OverrunByWord` is what is left of "no read leaves the buffer", which `recv_word`
  refutes: where it does not hold, the straddling message's word is one the code
  refuses as soon as it looks at it.
- `Kept` and `DescriptorsOwned` of the log are conditioned on turns that do not
  overlap. Two turns at once do lose descriptors and entries: both may close the
  same number, and the buffer of the file's name is shared. `OverIsTurned` needs
  no such condition.
- `ServersOwn` names its only exception, a send by an index that was a stream's:
  it closes the listening socket of the server that got the slot.
- `AddServed` says that an added server is registered and watched *if* requests were
  dispatched as their handler is declared. As compiled none is (`server_calls`).
- `SendFindsServer`, under the same condition, relates a send to an earlier request: the inner socket is first
  in, first out, and a server's registration is sent before the application
  learns its index.
- `HeapOwned` allows one leak, the object whose record found no memory
  (`ws_mem.c:104`). `Apart` also speaks of chunks taken for what did not fit: nothing
  tests that their first block is large enough, and it is because a request
  is at most the blocks' size and the 1024 bytes added to it cover the header.
- `StallsAtTheEnd` and `MessageServed` name the one situation in which bytes
  lie in the socket without an event to come: a pass that used up its window. The
  next arriving byte or the idle timer ends it.
- `EndNoticed` allows the timer: a FIN that came in the same edge as data that
  was read short is not seen before.
- `Armed` and `Flushed` speak of connections whose read handler once saw pending
  output; before that the write handler is `ws_net_event_empty_send` and a
  write event does nothing.

## Fairness

| Specification | Assumed | Why |
|---|---|---|
| `ConnLife!FairSpec` | WF of the loop | one thread, `epoll_wait` returns within 500 ms, no handler blocks |
| `RecvFrame!FairSpec` | WF of reading; in `EndNoticed` also of the timeout | the same loop; the timer is armed by the first read and rearmed only by reads |
| `SendPath!FairSpec` | WF of flush and of write events; the peer keeps reading; a reset is reported | the loop, and the kernel's epoll contract; that the peer reads is the condition under which output can be flushed at all |
| `Servers!FairSpec` | WF of the loop's reading of the inner socket | one thread turns the loop, the socket is level-triggered, no handler blocks |
| `RBTree!TreeSpec` | WF of the steps of an operation | an operation is one function that nothing interrupts |
| `Supervisor!FairSpec` | WF of the master and of every worker | the kernel schedules runnable processes |

No fairness is assumed of clients, signals, faults or deaths.

## What is proved

For all values of the constants, from the named assumptions in the modules:
numbers are natural, a buffer is larger than the largest message and that than
a header, a length word is one of the word's width, `Faults` is a set of the known fault sites, the logs are distinct,
pieces are a finite set, keys are natural numbers and no node is the sentinel, the header of a block is no longer than the `Extra` bytes
that a new chunk gets beside its block, and a connection's block holds at least a
header. Each
invariant is reached by `Init => IInv`, `IInv /\ [Next]_vars => IInv'` and
`IInv => Inv`, one step per action.

| Module | Theorem | States |
|---|---|---|
| `ConnLifeProofs` | `Invariance`, `TypeCorrect` | `Spec => []IInv`, `Spec => []TypeOK` |
| | `PoolIsConserved` | a slot is free or in use, the counters agree |
| | `DescriptorsOwned` | an open descriptor has one owner |
| | `DeadlinesBelong`, `ApplicationView` | timers, and what the application was told, agree with the slots |
| | `ListenersStay` | no step takes a listener away, whatever indices sends use |
| | `EventsReachTheirOwn` | no event reaches a connection it was not raised for, but for those of a connection a send closed in the same batch |
| | `ClosesArePaired` | only what was announced, or was left without handlers, is reported closed |
| `RecvFrameProofs` | `Invariance`, `Overruns`, `Alignment` | for any length words: only one the code would refuse lets a read leave the buffer; until then positions are message boundaries |
| | `NoneHeldBack`, `StallsOnlyAtTheEnd` | what was framed is delivered; reads stall only with the window used up |
| | `ClosesWithNothingFramed` | a close loses framed messages in two ways only |
| | `ImplementsStream` | `Spec => StreamSpec`: the receive path implements a queue of messages |
| `ServersProofs` | `Invariance`, `ServersKeepTheirOwn`, `SendsFindTheirs` | whose sockets and slots are; a send finds its server |
| `SupervisorProofs` | `Invariance`, `SlotsHoldOneProcess`, `OrdersArrive`, `KillsAreSafe` | table and processes agree; orders to quit arrive; the master signals its own |
| `EventTimerProofs` | `TimerInvariance`, `NeverEarly`, `AlwaysInTime` | closed neither before nor after the life time and its margins |
| | `TreeInvariant` | the tree is one at every step of every operation, and the step at hand finds what it relies on |
| | `TreeKeepsOrder` | read from left to right it is the sorted list, equal keys as they came |
| | `TreeBalanced` | between operations it is a red-black tree |
| | `TreeLinksBack` | every child points back at its parent |
| | `TreeAnswers` | `Answers`: searches find what is there, and the oldest of the least; proved only |
| `LogProofs` | `FilesAreTurned` | a log over its limit is being turned, or its file could not be opened |
| | `DescriptorsAreOwned` | as long as turns do not overlap no descriptor is lost or closed by mistake |
| | `EntriesStay` | nor is an entry overwritten whose call overlapped no other |
| `ConnMemoryProofs` | `PiecesStayKept` | a piece is free or in one chain, once |
| | `ChainsStayInOrder` | what was sent and what the chain holds are the bytes given to it |
| | `HeapStaysOwned` | no double free; whatever `malloc()` gave has one owner, or is the known leak |
| | `RegionsStayApart` | what a pool hands out lies in one block and overlaps nothing |
| | `SendInvariance`, `OutputInOrder`, `OutputArmed` | bytes of a connection go out in order; pending output has an event to come |

**`ConnLife`.** The properties are not inductive one by one: that closing a
connection keeps descriptors owned needs that its slot is in use, which for a
timer needs `TimersBelong`, for a read handler needs that the handler's slot is a
stream; that a freed slot comes back only once needs that the free list is
duplicate-free and disjoint from the slots in use.

    IInv == TypeOK /\ FreeListExact /\ CountersExact /\ FdOwned
            /\ TimersBelong /\ AppView
            /\ ActiveInUse /\ HandlerLive /\ SetupFds

The last three are the strengthening: only slots in use are active in
epoll; the read handler's slot is a stream in use; before the loop runs the
listening socket is the only descriptor. `IInv` includes the states after
the leaking faults. The proof takes `ws_conn_get` (with, without success, and
leaking) and `ws_conn_close` as lemmas about the pool, its counters and the
descriptors, and then goes through the actions. Cardinalities change by one per
get and close, by the library's theorems on finite sets. `ListenersStay` adds
that no index the application knows and no error event names a listener
(`ListenerInv`); `EventsReachTheirOwn` and `ClosesArePaired`, that each event left in the
batch is of the connection in its slot, one per slot, or marked as cut off (`OwnEvents`).

**`RecvFrame`.** The invariant says where everything is. The messages sent lie
one behind another (`SentOK`); what is in the buffer, the socket and on the wire
is a stretch of them (`Sourced`); what is framed ends at a message's end
(`Framed`), and the next length word is where the code looks for it (`NextUp`).
A pass's window ends in the buffer's front part or with the message that
straddles it (`Windows`), and while there is room in front no read goes beyond
the front (`Reach`). The word that gives the latter's end is any word: where it is more
than the buffer has left, the invariant knows that it is one the check refuses (`Refused`),
and states nothing once a read has written beyond (`Overran`). `Marked`, `Errors` and `Waiting` tie `recv_mark`, the
returned codes and the pending edge to these positions. For the refinement each
action is shown to be one of `MsgStream` or to leave its three variables alone.

**`SendPath`.** `TypeOK`, which has the order of the two positions, `InOrder` and
`Armed` are inductive together.

**`Servers`.** `IInv` adds that the descriptors of slots are open and in one slot
each (`SlotsOpen`, `OneSlot`), and that the request of a server not yet
registered waits in the queue, once, before every send that names it (`QueueOK`,
`Coming`).

**`Supervisor`.** `PidsExact`: the table has the pid of every process and of no
other. `Staffed`: while `fork` succeeds, a slot is without a process only between
the reaping and the respawning, and the master knows of it. `AtFirst`: the inner
loops start at the first slot.

**`EventTimer`.** The inductive invariant adds to the window of each key that
every open connection is armed, that the counter never exceeds `burst` while it still
restarts (its contribution to a key is thereby bounded by `Slack`), and that the loop
restarts only with nothing due.

**`RBTree`.** For any number of nodes and any keys. What the code calls a tree
is a heap of links, so the invariant first says why they make one:

    TreeIInv == Sound(at, arg, temp, tree, list) /\ (at = "get" => arg \in Nat)

`Sound` says three things. There is a function `sub`, the nodes below and with
each node, that fits the links and is everything at the root; below each side of a node lie only
nodes that come before or after it in the list (`Shape`). The step at hand stands
where it may (`Stands`): a descending insertion is above the only place where
the new node fits the list, a walk to the left above the first node of what it
started at, a search above every node with its key, and the node to unlink has
one child at most. And there are black heights (`Hued`): right everywhere between
operations; in the loop that goes up (`Raised`) right, with at most the node at
`temp` red below a red parent; in the one after a deletion (`Lowered`) right but for one
black node missing at `temp`.

Neither `sub` nor the heights are the model's: a step changes both, and the proof gives
the new ones from the old. `RBTreeLemmas` shows, free of the steps, what a
rotation, a new leaf, a node taken out and one in the place of another do to
`Shape`, and what each case of the two loops does to the heights. That no link
goes in circles comes from the finite sets of `sub`: of a set of nodes the
one with the fewest below it has no child in the set (`Lowest`).

`EventTimerProofs`, beside the timers, puts each step together and then reads the
properties off. `Walk` and `Height` are recursive functions over the links. That they obey their
equations is itself proved, since there is a function that does: the heights of
the invariant, and the listings of the sets of `sub`. A set of nodes has one listing in a strict order (`OneListing`),
and both the walk from the root and the list are one of all nodes: they are equal.

**`Log`.** `OverIsTurned` is inductive with the types. `DescriptorsOwned` needs
`OneTurn`: as long as no two turns overlapped at most one is under way, the name
it made is of its log, its new descriptor is no log's until it is set, and
between close and set only its log has none.

`Kept` is about two numbers that are read without a lock, the position and the
descriptor, and used later. It is inductive in

    KeptInv == EntryTypes /\ Solitude
               /\ (apart => SizesReach /\ \A t \in Threads : CallSpares(t))
               /\ Kept

`Solitude`: while a call is alone nobody else works, so what it has read is still
so. `SizesReach`: in a file not opened to append, the size of the log reaches to
the end of every intact entry, but for the one being counted. `CallSpares` says
the same of what a call holds on to: a position it read lies behind those entries,
the sum it is about to store does not fall behind them, and a descriptor that is
no longer the log's, or is not its yet, leads to no file with such entries.

**`ConnMemory`, `Pool`, `Chain`.** Pieces and memory have an invariant each.

    ChainInv == ChainTypes /\ Placed /\ \A c \in Conns : InStep(c)

`Placed` is `PiecesKept` by positions in the sequences instead of cardinalities.
`InStep`: what is out is a beginning of the stream, the items of the chain lie
one behind another up to its end, and each item's `pos` is how much of it is out.
`Unsent` joins the items with a recursive function of the library. The proof
takes the first place where that function would differ from the stream, and
finds none (`Least`, from the well-foundedness of the naturals).

`MemoryInv` has `HeapOwned`, that objects are numbered below the next one, that
exactly TCP connections have a pool and UDP ones an address, and for each pool
`GoodPool`: its chunks are distinct objects, large enough for a block and the
extra bytes; what was handed out lies between the header and the `last` of its
block, so that the next region, which starts there, meets none of them. The
operations of `Pool` are lemmas about a memory in which others own `theirs`,
whether or not a `malloc` in them fails; getting, using and closing a connection
are composed of them.

**Only model-checked.** All liveness (`BacklogServed`, `MessageServed`,
`EndNoticed`, `Flushed`, `DeadAreReplaced`, `AddServed`, `OperationsEnd`): the
prover does not treat fairness.
`NumbersReadBack`: it rests on powers of two and ten, of which no prover knows even
`10^(n+1) = 10 * 10^n`. Every inductive invariant was checked with TLC on the instance of its
component's run before it was proved.

## Findings

**A length word is used before it is checked** (`recv_word`, `NoOverrun`). The
buffer is one message of the largest size longer than the part reads fill freely
(`conn/ws_conn.c:173`), and `ws_conn_recv` refuses a larger message: `(header <= 8) ||
(header > YMZ_CONN_RECV_MAX_SIZE)` (`conn/ws_conn_recv.c:193`). When four to
seven bytes of a header lie at the end of that part, the loop leaves them
unlooked at (`:185`), and `ws_check_recv` grants the next read `psize - size` bytes, with
`psize` the peer's word (`:43-45`). For a word above the largest message that may be
beyond the buffer's end. With every other word the reads stay inside, however the bytes
come (`OverrunByWord`, proved).

**A worker told to quit may stay** (`worker_quit`, `QuittersEnd`). The handler of
SIGQUIT notes the signal as "shutting down" (`os/ws_process.c:237`). The master
writes a quit command into the worker's pipe and then sends SIGQUIT. The channel's
handler (`os/ws_os.c:128-154`) reads until `read` fails, and the pipe is
blocking: `ws_process.c` never sets `O_NONBLOCK` (the adapter and listeners do).
If the worker gets both before it reads, it takes the command, calls `read` again,
and blocks with `ws_quit` already set. The master marks the slot as told
(`ws_os.c:180`) and never signals it again, so the worker stays until an
operator's signal arrives.

**A request of the application ends the process** (`server_calls`, `RequestsSurvive`).
`include/whatsserver.h:49-56` (beside `src/`) offers adding, removing and sending while the
server runs. Each becomes a datagram to the inner socket. For each,
`ws_core_adapter_handle` calls `on_recv` with the server's index, the sender's ip
and port, the data and its size (`core/ws_core_adapter.c:183`). The handler stored
there (`:103`) is declared with the data second and the size third (`:49`). So it
takes the sender's ip, 127.0.0.1, for the address of the request. The first request ends the process, unless memory happens to be
mapped at that address.

## What the models taught about the code

Behaviour worth knowing that no document of the repository contradicts:

- In master mode the listening sockets are registered before the child's epoll
  instance exists (`ws_event_epoll_process_init` runs in the child), so workers
  do not watch them. `worker_process_num` defaults to 1, which means a single
  process without a master.
- `ws_quit` is never reset in the master, and a worker that ends while the master
  shuts down is respawned; the copy inherits `ws_quit` and ends again.
- `ws_listen_close` closes nothing, so WINCH does not stop accepting.
- After a failed `fork` nothing asks for another try; with the first fork
  failed, `kill` with pid 0 reaches the whole group.
- The worker's last loop visits the first `conn_num` slots, not those in use.
- In the single process the thread leaves its loop when it is told to quit, before the code at
  `os/ws_os.c:230-244` that would close the connections.
- The idle timeout drifts in a process that has once seen a negative
  `ws_last_static_msec`: by one millisecond per 10000 timers set, until the
  32-bit counter overflows.
- `free_conn_num` overstates the free list by the slots lost at `ws_conn.c:181`.
- An error in the second pass of `ws_net_read` returns without delivering what the
  first pass framed and without closing. That is mended by a coincidence: the
  returned `YMZ_CONN_RECV_ERROR` equals `YMZ_NR_AGAIN`, so `ws_net_read_cycle`
  reads once more, finds the end of the stream, delivers and closes.
  `NothingHeldBack` fails when the repetition is taken out.
- An *end of stream* in the second pass closes at once: complete messages the first
  pass framed are dropped when the peer leaves in the middle of the next one.
- The comment on the 49-day overflow of timers (`tools/ws_rbtree.c:131-136`) describes
  32-bit keys; the comparison is of 64-bit ones and cannot overflow.

**Master and workers**

- A failed `fork` leaks the first descriptor of the pipe that was made for it.
- `ws_process_pipe_read` compares the returned value, not `errno`, with EAGAIN
  (`os/ws_process_pipe.c:16`): a read that is interrupted
  closes the channel, whose slot has no `on_closed`, and so ends the worker.
- SIGQUIT is not blocked with the other signals: one that comes between the
  test of `ws_quit` and `sigsuspend` waits for the next signal (`os/ws_os.c:93`).

**Servers and adapter**

- `ws_server_init` returns 0 also when another process holds the lock. The first
  server added is then the tree's only node, the second calls through a NULL pointer, and
  the loop polls descriptor 0. It also returns 0 when epoll or the adapter could
  not be set up (`ws_event.c:11`).
- The result of `ws_cycle_path_set` is ignored: without memory for the lock's path the
  process takes itself for already started. Without memory in `ws_thread_regist`
  there is no loop, and nobody is told.
- The pid file is written before the pid is taken, and says 0. Workers inherit
  the lock.
- A UDP server added while the loop runs gets a *listening TCP* socket and no
  buffer (`ws_core_adapter.c:234`, `ws_event_accept.c:129`); `ws_net.c:332`
  sets the index in the record of TCP servers.
- Removing a known server passes the address of a local variable to the tree and
  uses the node after it was freed (`ws_net.c:429`).
- A send to the index of a stream whose slot a server has got since closes the
  listening socket and calls the old stream's `on_closed` (`ws_net.c:456`,
  `ws_conn.c:366`).
- The adapter's buffer has 2048 bytes; requests to send may have 40960.

**Log**

- Files of `ws_log_init` and of the set functions are opened to append, so that
  Linux ignores the position given to `pwrite`; files of turns are not.
- In the time mode a second turn in the same second truncates the file just written.
- The result of `ws_log_init` is ignored: the log then goes to the standard output
  and the files it had opened stay open.
- `%d` of the least number and `%llu` of values above half the range write
  characters that are no digits; an unknown conversion writes nothing.

**Memory and chains**

- A large object that gets no record belongs to no list (`ws_mem.c:104`).
- When the last buffer of `ws_conn_get` fails the slot is lost (`ws_conn.c:184`).
- `ws_chain_get` tests the name of a function instead of the list
  (`ws_chain.c:261`): when no piece is left it uses a NULL one.
- Connections take three buffers and an address from their pool, which
  always fits in its four blocks; exhaustion is the library's case.

**Elsewhere**

- The level-triggered registration stays after the output was flushed, and
  makes the loop turn without pause (`ws_event_epoll.c:216`).
- `ws_conn_free` reads an address that may be of an earlier connection
  (`ws_conn.c:230`).

## What is not modelled

- **Websocket**: only `ws_http.c` makes such a connection, whose functions nothing
  calls, and the lines that would set the connection and the pool of its record
  are commented out (`ws_websocket.c:202`).
- **HTTP**: nothing in the server calls it, and its objects have neither
  connection nor pool. **ICMP**: no state between calls, and no callers.
- **`select`**: compiled only without epoll. **Clean-up timers**: the timer's
  algorithm again, never armed. **Configuration**: a line parser that runs once.
  **String map**: the insertion is commented out, so a map stays empty.
  **Test client**: the peer; `RecvFrame`'s peer sends what it sends.
- Functions without callers: `ws_mem_buf_free`, `ws_mem_malloc_need_free`,
  `ws_mem_fix_pool`, `ws_mem_copy`, `ws_chain_insert`, `ws_chain_link`,
  `ws_chain_free_item`, `ws_chain_clear_io`, the older ones of `ws_conn_send.c`.
  The setters of single log files, the printf mode and `ws_log_close` have none
  either, and are modelled only while nobody logs.
- The second length convention of big messages (`conn/ws_conn.c`); what happens after a read wrote
  beyond its buffer.
- In `Supervisor` what a worker serves and its last loop over its connections
  (`ws_os.c:278`); in `Servers` the terminate signal, and several workers; in
  `ConnLife` connections the server would make itself.
- Daemon and affinity; the text of the pid file, of times and of log lines but
  for numbers; log lines longer than their buffer; `%llx`.
- Contents of messages, wording, addresses; padding of objects (the code has none).
- EINTR and short counts of system calls other than those named; memory order,
  except that the steps of the log interleave as they like.

## What could follow

Every component that keeps state and that the server uses is modelled. In the order of
their worth:

1. The second length convention of big messages in `RecvFrame` and its proofs.
2. `Servers` together with `ConnLife`: streams closed in the middle of a batch by
   a request from the queue, with descriptors that come back.
