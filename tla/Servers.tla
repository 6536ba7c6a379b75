-------------------------------- MODULE Servers --------------------------------
(***************************************************************************)
(* The servers of the single process and the adapter through which         *)
(* application threads reach the loop (src/src/core/ws_core.c,             *)
(* src/src/core/ws_core_adapter.c, src/src/conn/ws_listen.c,               *)
(* src/src/net/ws_net.c).                                                  *)
(*                                                                         *)
(* ws_core_server_init returns the same 0 when it has built everything,    *)
(* when another process holds the lock and it built nothing, and when      *)
(* epoll or the adapter could not be set up.                               *)
(*                                                                         *)
(* Before ws_core_server_run servers are added by the caller itself.       *)
(* After it an added server gets its socket and its index in the calling   *)
(* thread and is registered by the loop, which learns of it, as of         *)
(* removals and of sends, by a datagram of the process to itself.  The     *)
(* loop's own connections are ConnLife; here a stream takes a slot and a   *)
(* descriptor and gives them back.                                         *)
(*                                                                         *)
(* The adapter calls its handler through a pointer of another type, with   *)
(* the sender's address where the handler takes the request.  That is the  *)
(* dispatch "compiled"; in "declared" the handler is called by its         *)
(* prototype.                                                              *)
(***************************************************************************)
EXTENDS Naturals, Sequences, FiniteSets

CONSTANTS
    NumSlots,       \* slots of ws_cycle->conns that are left
    NumFds,         \* descriptors that are left
    MaxServers,     \* bound on servers ever made
    MaxRequests,    \* bound on removals and sends asked for
    QueueMax,       \* datagrams the inner socket holds
    Dispatches      \* the values of dispatch: "compiled", "declared"

ASSUME ServersAssumption ==
    /\ NumSlots \in Nat /\ NumFds \in Nat /\ MaxServers \in Nat
    /\ MaxRequests \in Nat /\ QueueMax \in Nat
    /\ Dispatches \subseteq {"compiled", "declared"}

VARIABLES
    dispatch,   \* how the adapter calls its handler
    phase,      \* of the process: init, modules and process while it starts,
                \* setup, running (ws_started), ended (the loop's thread has
                \* returned, or never ran), failed, crashed, undefined
    up,         \* whether the slots and the tree, and epoll, were set up
    adapter,    \* whether its sockets exist, got a slot, and are watched
    servers,    \* the servers the application was given an index of, in order;
                \* those registered are the nodes of ws_net_server_tree
    slots,      \* what each slot is used for
    fds,        \* open descriptors
    known,      \* slots the application was given as connections
    queue,      \* datagrams at the inner socket
    loop,       \* wait, or drain while ws_event_accept_udp reads the inner socket
    quit,       \* no, asked while ws_quit is set, exiting while ws_exiting is too
    asked,      \* removals and sends asked for
    \* History.
    via,        \* sends by UDP: the server asked for and the one that was found
    leaked      \* descriptors a failed udp listener left open

rest == <<dispatch, up, asked, leaked>>
resources == <<slots, fds, known>>
vars == <<dispatch, phase, up, adapter, servers, slots, fds, known, queue, loop, quit, asked, via, leaked>>

Fds == 1..NumFds
Slots == 1..NumSlots
Ids == DOMAIN servers
Kinds == {"tcp", "udp"}

Unused == [use |-> "free", fd |-> 0]
ListenOn(d) == [use |-> "listen", fd |-> d]
StreamOn(d) == [use |-> "stream", fd |-> d]

Lowest == {d \in Fds \ fds : \A e \in Fds \ fds : d <= e}
FreeSlots == {i \in Slots : slots[i] = Unused}

Init ==
    /\ dispatch \in Dispatches
    /\ phase = "init"
    /\ up = [slots |-> FALSE, epoll |-> FALSE]
    /\ adapter = [sock |-> FALSE, slot |-> FALSE, watched |-> FALSE]
    /\ servers = <<>>
    /\ slots = [i \in Slots |-> Unused]
    /\ fds = {} /\ known = {} /\ queue = <<>>
    /\ loop = "wait" /\ quit = "no" /\ asked = 0
    /\ via = {} /\ leaked = {}

-----------------------------------------------------------------------------
(* ws_core_server_init, in its order.                                      *)

started == <<servers, resources, queue, loop, quit, dispatch, asked, leaked, via>>

\* ws_cycle_create without memory: the application is told, and stops.
CreateFails ==
    /\ phase = "init" /\ phase' = "failed"
    /\ UNCHANGED <<up, adapter, started>>

\* ws_cycle_path_set copies the directories of the process and of its log, the
\* lock and the pid file, in this order, and stops at the first without memory;
\* its result is not looked at.
Paths == {1..n : n \in 0..4}
LockPath == 3

\* ws_started_check: the lock is taken, by nobody else, unless its path is still
\* the default, a directory, which cannot be opened.
NotStarted(paths, held) == LockPath \in paths /\ ~held

\* Another process has the lock, or so it seems: the initialisation returns 0.
AlreadyStarted ==
    /\ phase = "init" /\ phase' = "setup"
    /\ \E paths \in Paths, held \in BOOLEAN : ~NotStarted(paths, held)
    /\ UNCHANGED <<up, adapter, started>>

ModulesInit ==
    /\ phase = "init" /\ phase' = "modules"
    /\ \E paths \in Paths, held \in BOOLEAN : NotStarted(paths, held)
    /\ up' = [up EXCEPT !.slots = TRUE]
    /\ UNCHANGED <<adapter, started>>

\* No memory for the slots, no pid file or no working directory: the same.
ModulesFail ==
    /\ phase \in {"init", "modules"} /\ phase' = "failed"
    /\ up' \in {up, [up EXCEPT !.slots = TRUE]}
    /\ UNCHANGED <<adapter, started>>

\* ws_event_epoll_process_init may get no memory for its batch, or no descriptor.
EpollInit == BOOLEAN

\* ws_event_process_init does not look at what it returns.
EventInit == \E e \in EpollInit : up' = [up EXCEPT !.epoll = e]

\* ws_os_single_process_init.
ProcessInit ==
    /\ phase = "modules" /\ phase' = "process"
    /\ EventInit
    /\ UNCHANGED <<adapter, started>>

\* Forgets to add the event.
AdapterInitUnwatched ==
    /\ phase = "process" /\ phase' = "setup"
    /\ \E s, g \in BOOLEAN :
          adapter' = [sock |-> s, slot |-> s /\ g, watched |-> FALSE]
    /\ UNCHANGED <<up, started>>

\* ws_core_adapter_init, whose result nobody looks at: without its port there are
\* no sockets, without a slot or epoll nobody reads.
AdapterInit ==
    /\ phase = "process" /\ phase' = "setup"
    /\ \E s, g \in BOOLEAN :
          adapter' = [sock |-> s, slot |-> s /\ g, watched |-> s /\ g /\ up.epoll]
    /\ UNCHANGED <<up, started>>

-----------------------------------------------------------------------------
(* Adding a server.                                                        *)

\* ws_conn_get for a listening socket: 0 when there is no slot or no memory.
SlotFor(i) == i = 0 \/ (up.slots /\ i \in FreeSlots)
Occupy(i, d) == slots' = [j \in Slots |-> IF j = i THEN ListenOn(d) ELSE slots[j]]

\* Closes the socket when there is no slot, and registers the server.
AddBeforeCloses(kind) ==
    /\ phase = "setup" /\ Len(servers) < MaxServers
    /\ \E d \in Lowest, i \in 0..NumSlots :
          /\ SlotFor(i) /\ Occupy(i, d)
          /\ fds' = IF i = 0 THEN fds ELSE fds \union {d}
          /\ servers' = Append(servers,
                [fd |-> d, asked |-> kind, sock |-> kind, slot |-> i,
                 at |-> "registered", closed |-> FALSE])
    /\ UNCHANGED <<phase, adapter, known, queue, loop, quit, rest, via>>

\* ws_net_tcp_server_add, ws_net_udp_server_add: without a slot the server is
\* registered all the same, and nobody watches its socket.
AddBefore(kind) ==
    /\ phase = "setup" /\ Len(servers) < MaxServers
    /\ up.slots \/ servers = <<>>
    /\ \E d \in Lowest, i \in 0..NumSlots :
          /\ SlotFor(i) /\ Occupy(i, d)
          /\ fds' = fds \union {d}
          /\ servers' = Append(servers,
                [fd |-> d, asked |-> kind, sock |-> kind, slot |-> i,
                 at |-> "registered", closed |-> FALSE])
    /\ UNCHANGED <<phase, adapter, known, queue, loop, quit, rest, via>>

\* A tree that was never set up takes one node; for the second it calls nothing.
AddToNoTree ==
    /\ phase = "setup" /\ ~up.slots /\ servers # <<>>
    /\ phase' = "undefined"
    /\ UNCHANGED <<adapter, servers, resources, queue, loop, quit, rest, via>>

\* ws_listen_udp_listen_create without memory for its buffer: the socket stays.
AddLeaks ==
    /\ phase = "setup"
    /\ leaked = {}          \* bound: once
    /\ \E d \in Lowest : fds' = fds \union {d} /\ leaked' = leaked \union {d}
    /\ UNCHANGED <<phase, up, adapter, servers, slots, known, queue, loop, quit, dispatch, asked, via>>

\* sendto() to the inner socket: nobody notices a datagram that is lost.
Sent(r) == adapter.sock /\ Len(queue) < QueueMax /\ queue' = Append(queue, r)
Lost == UNCHANGED queue

Calling == phase \in {"running", "ended"}

\* ws_core_adapter_tcp_server_add, ws_core_adapter_udp_server_add: both make a
\* listening TCP socket.
AddAfter(kind) ==
    /\ Calling /\ Len(servers) < MaxServers
    /\ \E d \in Lowest, at \in {"made", "lost"} :
          /\ fds' = fds \union {d}
          /\ servers' = Append(servers,
                [fd |-> d, asked |-> kind, sock |-> "tcp", slot |-> 0,
                 at |-> at, closed |-> FALSE])
          /\ IF at = "made" THEN Sent([cmd |-> "add", id |-> Len(servers) + 1]) ELSE Lost
    /\ UNCHANGED <<phase, adapter, slots, known, loop, quit, rest, via>>

-----------------------------------------------------------------------------
(* Requests.                                                               *)

Ask(r) ==
    /\ phase \in {"setup", "running", "ended"} /\ asked < MaxRequests
    /\ asked' = asked + 1
    /\ Sent(r) \/ Lost
    /\ UNCHANGED <<phase, adapter, servers, resources, loop, quit, dispatch, up, via, leaked>>

\* ws_core_adapter_server_del, _server_udp_send and _server_tcp_send.
ServerDel(id) == Ask([cmd |-> "del", index |-> servers[id].fd])
UdpSend(id) == Ask([cmd |-> "udp", index |-> servers[id].fd, id |-> id])
TcpSend(i) == Ask([cmd |-> "tcp", conn |-> i])

-----------------------------------------------------------------------------
(* The loop reads the inner socket until it is empty.                      *)

\* ws_thread_regist: without memory there is no thread, and nobody is told.
ThreadRegist == {"running", "ended"}

ServerRun ==
    /\ phase = "setup" /\ phase' \in ThreadRegist
    /\ UNCHANGED <<adapter, servers, resources, queue, loop, quit, rest, via>>

\* The registration is level-triggered.
Wakeup ==
    /\ phase = "running" /\ loop = "wait"
    /\ adapter.watched /\ queue # <<>>
    /\ loop' = "drain"
    /\ UNCHANGED <<phase, adapter, servers, resources, queue, quit, rest, via>>

Drained ==
    /\ phase = "running" /\ loop = "drain" /\ queue = <<>>
    /\ loop' = "wait"
    /\ UNCHANGED <<phase, adapter, servers, resources, queue, quit, rest, via>>

Recv ==
    /\ phase = "running" /\ loop = "drain" /\ queue # <<>>
    /\ queue' = Tail(queue)

\* The nodes of the tree with a key; equal keys are found in any order.
Registered(index) ==
    {id \in Ids : servers[id].at = "registered" /\ servers[id].fd = index}

\* Registers no server that got no slot.
HandleAddNoSlot(r) ==
    /\ r.cmd = "add"
    /\ \E i \in 0..NumSlots :
          /\ SlotFor(i) /\ Occupy(i, servers[r.id].fd)
          /\ servers' = [servers EXCEPT ![r.id].slot = i,
                                        ![r.id].at = IF i = 0 THEN @ ELSE "registered"]
    /\ UNCHANGED <<phase, fds, known, via>>

\* ws_net_tcp_server_add2, ws_net_udp_server_add2.
HandleAdd(r) ==
    /\ r.cmd = "add"
    /\ \E i \in 0..NumSlots :
          /\ SlotFor(i) /\ Occupy(i, servers[r.id].fd)
          /\ servers' = [servers EXCEPT ![r.id].slot = i, ![r.id].at = "registered"]
    /\ UNCHANGED <<phase, fds, known, via>>

\* ws_net_server_del: an unknown server is none; the deletion of a known one is
\* given the address of a local variable and frees what it uses afterwards.
HandleDel(r) ==
    /\ r.cmd = "del"
    /\ phase' = IF Registered(r.index) = {} THEN phase ELSE "undefined"
    /\ UNCHANGED <<servers, resources, via>>

\* ws_net_udp_send: a datagram from the socket of the server that is found.
HandleUdp(r) ==
    /\ r.cmd = "udp"
    /\ LET found == Registered(r.index)
       IN IF found = {} THEN via' = via \union {[asked |-> r.id, used |-> 0]}
          ELSE \E id \in found : via' = via \union {[asked |-> r.id, used |-> id]}
    /\ UNCHANGED <<phase, servers, resources>>

\* ws_net_tcp_send to a slot that is free, or to a stream.
HandleTcp(r) ==
    /\ r.cmd = "tcp" /\ slots[r.conn].use # "listen"
    /\ \/ UNCHANGED <<slots, fds>>
       \/ /\ slots[r.conn].use = "stream"
          /\ slots' = [slots EXCEPT ![r.conn] = Unused]
          /\ fds' = fds \ {slots[r.conn].fd}
    /\ UNCHANGED <<phase, servers, known, via>>

\* The slot was a stream's and is now a server's.  Its listening socket takes no
\* data, and the error closes it; on_closed is that of the old stream.
HandleTcpStale(r) ==
    /\ r.cmd = "tcp" /\ slots[r.conn].use = "listen"
    /\ slots' = [slots EXCEPT ![r.conn] = Unused]
    /\ fds' = fds \ {slots[r.conn].fd}
    /\ servers' = [id \in Ids |-> IF servers[id].slot = r.conn /\ ~servers[id].closed
                                  THEN [servers[id] EXCEPT !.closed = TRUE]
                                  ELSE servers[id]]
    /\ UNCHANGED <<phase, known, via>>

\* ws_core_adapter_handle_internal as it is declared.
HandleDeclared ==
    /\ dispatch = "declared"
    /\ Recv
    /\ LET r == Head(queue)
       IN HandleAdd(r) \/ HandleDel(r) \/ HandleUdp(r) \/ HandleTcp(r) \/ HandleTcpStale(r)
    /\ UNCHANGED <<adapter, loop, quit, rest>>

\* As it is called: itf is the sender's address, 127.0.0.1, which is no address
\* of the process; should memory be mapped there, its command is none.
HandleCompiled ==
    /\ dispatch = "compiled"
    /\ Recv
    /\ phase' \in {"crashed", phase}
    /\ UNCHANGED <<adapter, servers, resources, loop, quit, rest, via>>

-----------------------------------------------------------------------------
(* What else the loop does.                                                *)

Watched(id) ==
    /\ up.epoll
    /\ servers[id].at = "registered" /\ servers[id].slot # 0 /\ ~servers[id].closed

\* A client is accepted, and the application told.
Accept(id) ==
    /\ phase = "running" /\ loop = "wait"
    /\ Watched(id) /\ servers[id].asked = "tcp"
    /\ \E d \in Lowest, i \in FreeSlots :
          /\ slots' = [slots EXCEPT ![i] = StreamOn(d)]
          /\ fds' = fds \union {d}
          /\ known' = known \union {i}
    /\ UNCHANGED <<phase, adapter, servers, queue, loop, quit, rest, via>>

StreamEnds(i) ==
    /\ phase = "running" /\ loop = "wait"
    /\ slots[i].use = "stream"
    /\ slots' = [slots EXCEPT ![i] = Unused]
    /\ fds' = fds \ {slots[i].fd}
    /\ UNCHANGED <<phase, adapter, servers, known, queue, loop, quit, rest, via>>

\* A client of a TCP socket that was made for UDP: ws_event_accept_udp reads
\* into a buffer that was never set.
UdpOnTcp(id) ==
    /\ phase = "running" /\ loop = "wait"
    /\ Watched(id) /\ servers[id].asked = "udp" /\ servers[id].sock = "tcp"
    /\ phase' = "undefined"
    /\ UNCHANGED <<adapter, servers, resources, queue, loop, quit, rest, via>>

\* A process that was started twice has no handler; the signal ends it.
SigQuit ==
    /\ phase = "running" /\ up.slots /\ quit = "no"
    /\ quit' = "asked"
    /\ UNCHANGED <<phase, adapter, servers, resources, queue, loop, rest, via>>

\* ws_single_main_thread notes the signal before it turns the loop once more.
MainThread ==
    /\ phase = "running" /\ loop = "wait" /\ quit = "asked"
    /\ quit' = "exiting"
    /\ UNCHANGED <<phase, adapter, servers, resources, queue, loop, rest, via>>

\* ws_thread_func returns as soon as ws_exiting is set: the part that would close
\* the connections is not reached, the process goes on.
ThreadEnds ==
    /\ phase = "running" /\ loop = "wait" /\ quit = "exiting"
    /\ phase' = "ended"
    /\ UNCHANGED <<adapter, servers, resources, queue, loop, quit, rest, via>>

-----------------------------------------------------------------------------
Loop == Wakeup \/ Drained \/ HandleDeclared \/ HandleCompiled

Next ==
    \/ CreateFails \/ ModulesFail \/ AlreadyStarted \/ ModulesInit \/ ProcessInit \/ AdapterInit
    \/ AddToNoTree \/ AddLeaks \/ ServerRun
    \/ \E kind \in Kinds : AddBefore(kind) \/ AddAfter(kind)
    \/ \E id \in Ids : ServerDel(id) \/ UdpSend(id) \/ Accept(id) \/ UdpOnTcp(id)
    \/ \E i \in known : TcpSend(i)
    \/ \E i \in Slots : StreamEnds(i)
    \/ Loop \/ SigQuit \/ MainThread \/ ThreadEnds

Spec == Init /\ [][Next]_vars

\* One thread turns the loop, and no handler blocks.
FairSpec == Spec /\ WF_vars(Loop)

-----------------------------------------------------------------------------
(* Properties.                                                             *)

\* A server's descriptor is open and its own, and the slot it got listens on it,
\* from the thread that made the socket to the loop that registers it
\* (ws_core_adapter.c:201, ws_net.c:340); only a send to the stale index of a
\* stream that had the slot before (ws_net.c:456) takes them away.
ServersOwn ==
    /\ \A id \in Ids : ~servers[id].closed =>
          /\ servers[id].fd \in fds
          /\ servers[id].slot # 0 => slots[servers[id].slot] = ListenOn(servers[id].fd)
    /\ \A id, jd \in Ids :
          servers[id].fd = servers[jd].fd /\ ~servers[id].closed /\ ~servers[jd].closed => id = jd
    /\ \A i, j \in Slots : slots[i] # Unused /\ slots[i].fd = slots[j].fd => i = j
    /\ \A d \in fds : \/ d \in leaked
                      \/ \E i \in Slots : slots[i].fd = d
                      \/ \E id \in Ids : servers[id].fd = d

\* A datagram leaves from the socket of the server it was asked of: the
\* registration of a server comes to the loop before every send that names it
\* (ws_net.c:463), unless its datagram was lost; and another server has its
\* index only after a stale send closed it. As the adapter is compiled no send
\* comes so far (see RequestsSurvive), and this says something of the handler
\* called by its prototype only.
SendFindsServer ==
    \A v \in via : \/ v.used = v.asked
                   \/ servers[v.asked].at = "lost"
                   \/ \E id \in Ids : servers[id].closed /\ servers[id].fd = servers[v.asked].fd

\* If the adapter called its handler by its prototype, a server whose datagram
\* came to the inner socket would be registered, unless the process ends first,
\* the adapter has no slot (ws_core_adapter.c:83) or there is no epoll
\* (ws_event.c:11). As it is compiled (ws_core_adapter.c:183) the datagram ends
\* the process or is swallowed, and no server added while the loop runs is ever
\* registered: RequestsSurvive is about that.
Unregistered(id) ==
    /\ id \in Ids /\ servers[id].at = "made"
    /\ adapter.slot /\ up.epoll

AddServed ==
    dispatch = "declared" =>
        \A id \in 1..MaxServers :
            Unregistered(id) /\ phase = "running" ~> ~Unregistered(id) \/ phase # "running"

\* A request of the application, which whatsserver.h:49-56 offers, does not end
\* the process.
RequestsSurvive == phase # "crashed"

================================================================================
