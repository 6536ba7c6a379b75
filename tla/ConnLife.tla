------------------------------ MODULE ConnLife ------------------------------
(***************************************************************************)
(* The life of a connection slot in the event loop of one process: the     *)
(* slot pool (ws_conn_get, ws_conn_close, ws_conn_free), the listening     *)
(* slot and the accept loop, the epoll batch of ws_event_epoll_process and *)
(* the timers that bound a connection's silence.                           *)
(*                                                                         *)
(* What a read or a write does to the bytes of a connection is left to     *)
(* RecvFrame and SendPath: here a handler either keeps its connection or   *)
(* closes it.                                                              *)
(***************************************************************************)
EXTENDS Integers, Sequences, FiniteSets

CONSTANTS
  NumSlots,    \* conn_reserve, the number of connection slots
  Fds,         \* the descriptors the kernel may hand to this process
  ListenFd,    \* the descriptor of the listening socket
  MaxClients,  \* bound: how many clients ever connect
  Faults       \* the allocations that may fail: a subset of FaultSites

FaultSites == {"pool", "send_buf2", "sockaddr"}

ASSUME NumSlotsAssumption == NumSlots \in Nat \ {0}
ASSUME FdsAssumption == Fds \subseteq Nat \ {0} /\ ListenFd \in Nat \ {0}
ASSUME MaxClientsAssumption == MaxClients \in Nat
ASSUME FaultsAssumption == Faults \subseteq FaultSites

Slots == 0 .. NumSlots - 1
Handlers == {"none", "accept", "read"}
Pools == {"null", "live", "dangling"}
EventKinds == {{"in"}, {"out"}, {"in", "out"}, {"err"}}
Owners == {"own", "cut", "other"}
Events == [slot : Slots, kinds : EventKinds, owner : Owners]
Locations == {"setup", "wait", "dispatch", "accept", "read", "write", "expire",
              "crashed"}

VARIABLES
  pc,             \* where the single thread of the process is
  cur,            \* the slot whose handler runs (at "read" and "write")
  after,          \* where the loop goes when the read handler returns
  sock,           \* c->s: 0 before the first use, -1 once freed
  pool,           \* c->pool: null, allocated, or freed but still referenced
  handler,        \* c->rev->handle
  ractive,        \* c->rev->active
  wactive,        \* c->wev->active
  timer,          \* c->rev->timer_set
  free_conns,     \* the free list; its last element is the head of the list
  free_conn_num,
  conn_num,
  fds,            \* descriptors open in the kernel
  backlog,        \* clients waiting in the listening socket
  arrived,        \* clients that ever connected
  batch,          \* what epoll_wait returned and the loop has not handled yet
  open,           \* history: on_connect called, on_closed not yet
  known           \* history: every index on_connect ever announced

vars == <<pc, cur, after, sock, pool, handler, ractive, wactive, timer,
          free_conns, free_conn_num, conn_num, fds, backlog, arrived, batch,
          open, known>>
poolVars == <<sock, pool, free_conns, free_conn_num, conn_num>>
eventVars == <<handler, ractive, wactive, timer>>
appVars == <<open, known>>
clientVars == <<backlog, arrived>>
-----------------------------------------------------------------------------
(* Derived sets.                                                           *)

InUse == {i \in Slots : pool[i] = "live"}

\* ws_conn_get popped the slot, failed on its third buffer and never put it back.
Leaked == {i \in Slots : pool[i] = "dangling"}

Streams == {i \in InUse : handler[i] = "read"}

\* The kernel watches the slot's descriptor.
Registered == {i \in InUse : ractive[i] \/ wactive[i]}

Top == free_conns[Len(free_conns)]

(* History, which nothing in the code records: whether an event still finds *)
(* the connection it was raised for, whether a request to send closed that  *)
(* one before the event's turn, or whether the slot was given to another.   *)
Marked(i, owner) ==
  {IF e.slot = i /\ e.owner = "own" THEN [e EXCEPT !.owner = owner] ELSE e : e \in batch}

Disowned(i) == Marked(i, "other")

ListenerUp == \E i \in InUse : handler[i] = "accept" /\ ractive[i]
-----------------------------------------------------------------------------
(* ws_conn_cycle_init pushes slot 0 first, so the last slot heads the list. *)
(* The listening socket is open before ws_conn_get is asked for its slot.   *)
Init ==
  /\ pc = "setup" /\ cur = 0 /\ after = "dispatch"
  /\ sock = [i \in Slots |-> 0]
  /\ pool = [i \in Slots |-> "null"]
  /\ handler = [i \in Slots |-> "none"]
  /\ ractive = [i \in Slots |-> FALSE]
  /\ wactive = [i \in Slots |-> FALSE]
  /\ timer = [i \in Slots |-> FALSE]
  /\ free_conns = [k \in 1 .. NumSlots |-> k - 1]
  /\ free_conn_num = NumSlots
  /\ conn_num = 0
  /\ fds = {ListenFd}
  /\ backlog = 0 /\ arrived = 0
  /\ batch = {}
  /\ open = {} /\ known = {}
-----------------------------------------------------------------------------
(* The pool: the state changes of ws_conn_get, ws_conn_free, ws_conn_close. *)

PopSlot == free_conns' = SubSeq(free_conns, 1, Len(free_conns) - 1)

(* ws_conn_get succeeds for descriptor s and its caller installs handler h: *)
(* a listener watches for input only, a stream is added with both           *)
(* directions, and a connection that gets no handler is not watched.        *)
ConnGet(s, h) ==
  /\ free_conns # <<>>
  /\ PopSlot
  /\ sock' = [sock EXCEPT ![Top] = s]
  /\ pool' = [pool EXCEPT ![Top] = "live"]
  /\ handler' = [handler EXCEPT ![Top] = h]
  /\ ractive' = [ractive EXCEPT ![Top] = h # "none"]
  /\ wactive' = [wactive EXCEPT ![Top] = h = "read"]
  /\ timer' = [timer EXCEPT ![Top] = FALSE]
  /\ free_conn_num' = free_conn_num - 1
  /\ conn_num' = conn_num + 1
  /\ batch' = Disowned(Top)

(* ws_conn_get fails before it touches the free list.                      *)
ConnGetFails == free_conns = <<>> \/ "pool" \in Faults

(* ws_conn_get fails on send_buf2, after it popped the slot: the memory     *)
(* pool is freed, c->s and c->pool still name what is gone.                 *)
ConnGetLeaks(s) ==
  /\ free_conns # <<>> /\ "send_buf2" \in Faults
  /\ PopSlot
  /\ sock' = [sock EXCEPT ![Top] = s]
  /\ pool' = [pool EXCEPT ![Top] = "dangling"]
  /\ batch' = Disowned(Top)
  /\ UNCHANGED <<eventVars, free_conn_num, conn_num>>

ConnFreeKeepsSock(i) ==
  /\ pool' = [pool EXCEPT ![i] = "null"]
  /\ free_conns' = Append(free_conns, i)
  /\ free_conn_num' = free_conn_num + 1
  /\ conn_num' = conn_num - 1
  /\ UNCHANGED sock

ConnFree(i) ==
  /\ pool' = [pool EXCEPT ![i] = "null"]
  /\ sock' = [sock EXCEPT ![i] = -1]
  /\ free_conns' = Append(free_conns, i)
  /\ free_conn_num' = free_conn_num + 1
  /\ conn_num' = conn_num - 1

(* ws_event_epoll_del_conn: the descriptor leaves the epoll set.            *)
DelConn(i) ==
  /\ ractive' = [ractive EXCEPT ![i] = FALSE]
  /\ wactive' = [wactive EXCEPT ![i] = FALSE]

ConnCloseKeepsTimer(i) ==
  /\ open' = open \ {i}
  /\ DelConn(i)
  /\ fds' = fds \ {sock[i]}
  /\ ConnFree(i)
  /\ UNCHANGED <<handler, timer, known>>

ConnCloseSilently(i) ==
  /\ timer' = [timer EXCEPT ![i] = FALSE]
  /\ DelConn(i)
  /\ fds' = fds \ {sock[i]}
  /\ ConnFree(i)
  /\ UNCHANGED <<handler, open, known>>

(* on_closed, the timer, the epoll set, the descriptor, then the slot.      *)
ConnClose(i) ==
  /\ open' = open \ {i}
  /\ timer' = [timer EXCEPT ![i] = FALSE]
  /\ DelConn(i)
  /\ fds' = fds \ {sock[i]}
  /\ ConnFree(i)
  /\ UNCHANGED <<handler, known>>
-----------------------------------------------------------------------------
(* Before the loop runs: ws_net_tcp_server_add, then ws_server_run.         *)

(* Without a slot the server is added all the same and never accepts.       *)
ServerAdd ==
  /\ pc = "setup" /\ ListenFd \notin {sock[i] : i \in Slots}
  /\ \/ ConnGet(ListenFd, "accept")
     \/ ConnGetLeaks(ListenFd)
  /\ UNCHANGED <<pc, cur, after, fds, clientVars, appVars>>

Run ==
  /\ pc = "setup" /\ pc' = "wait"
  /\ UNCHANGED <<cur, after, poolVars, eventVars, fds, clientVars, batch, appVars>>

(* A client completes its handshake at any time.                           *)
ClientArrives ==
  /\ arrived < MaxClients
  /\ arrived' = arrived + 1 /\ backlog' = backlog + 1
  /\ UNCHANGED <<pc, cur, after, poolVars, eventVars, fds, batch, appVars>>
-----------------------------------------------------------------------------
(* ws_event_epoll_process: one batch.                                      *)

(* What the kernel may report for a slot; the listener is level-triggered.  *)
Reports(i) ==
  IF handler[i] = "accept"
    THEN IF backlog > 0 THEN {{"in"}} ELSE {{}}
    ELSE {{}} \cup {k \in EventKinds : "in" \in k => ractive[i]}

EpollWait ==
  /\ pc = "wait" /\ pc' = "dispatch"
  /\ \E ready \in [Registered -> {{}} \cup EventKinds] :
       /\ \A i \in Registered : ready[i] \in Reports(i)
       /\ batch' = {[slot |-> i, kinds |-> ready[i], owner |-> "own"] :
                      i \in {j \in Registered : ready[j] # {}}}
  /\ UNCHANGED <<cur, after, poolVars, eventVars, fds, clientVars, appVars>>

(* The loop takes event e; the order within a batch is the kernel's.        *)
Take(e) == pc = "dispatch" /\ e \in batch

Acts(e) == sock[e.slot] # -1 /\ "err" \notin e.kinds
Reads(e) == Acts(e) /\ "in" \in e.kinds /\ ractive[e.slot]

(* An error or a hang-up closes the connection whatever its handlers.       *)
DispatchError(e) ==
  /\ Take(e) /\ "err" \in e.kinds /\ pool[e.slot] = "live"
  /\ ConnClose(e.slot)
  /\ batch' = batch \ {e}
  /\ UNCHANGED <<pc, cur, after, clientVars>>

(* Closing a leaked slot frees its memory pool a second time.               *)
DispatchCrash(e) ==
  /\ Take(e) /\ "err" \in e.kinds /\ pool[e.slot] = "dangling"
  /\ pc' = "crashed"
  /\ UNCHANGED <<cur, after, poolVars, eventVars, fds, clientVars, batch, appVars>>

DispatchAccept(e) ==
  /\ Take(e) /\ Reads(e) /\ handler[e.slot] = "accept"
  /\ pc' = "accept" /\ batch' = batch \ {e}
  /\ UNCHANGED <<cur, after, poolVars, eventVars, fds, clientVars, appVars>>

DispatchRead(e) ==
  /\ Take(e) /\ Reads(e) /\ handler[e.slot] = "read"
  /\ pc' = "read" /\ cur' = e.slot
  /\ after' = IF "out" \in e.kinds THEN "write" ELSE "dispatch"
  /\ batch' = batch \ {e}
  /\ UNCHANGED <<poolVars, eventVars, fds, clientVars, appVars>>

DispatchWrite(e) ==
  /\ Take(e) /\ Acts(e) /\ ~Reads(e) /\ "out" \in e.kinds
  /\ pc' = "write" /\ cur' = e.slot
  /\ batch' = batch \ {e}
  /\ UNCHANGED <<after, poolVars, eventVars, fds, clientVars, appVars>>

(* The slot was closed earlier in the batch, or no handler is active.       *)
DispatchSkip(e) ==
  /\ Take(e)
  /\ sock[e.slot] = -1 \/ (Acts(e) /\ ~Reads(e) /\ "out" \notin e.kinds)
  /\ batch' = batch \ {e}
  /\ UNCHANGED <<pc, cur, after, poolVars, eventVars, fds, clientVars, appVars>>

DispatchDone ==
  /\ pc = "dispatch" /\ batch = {}
  /\ pc' = "expire"
  /\ UNCHANGED <<cur, after, poolVars, eventVars, fds, clientVars, batch, appVars>>
-----------------------------------------------------------------------------
(* ws_event_accept: one pass of its loop over accept4.                      *)

EndAccept == pc' = "dispatch" /\ UNCHANGED <<cur, after>>

\* EAGAIN: nobody waits.
AcceptAgain ==
  /\ pc = "accept" /\ backlog = 0
  /\ EndAccept
  /\ UNCHANGED <<poolVars, eventVars, fds, clientVars, batch, appVars>>

\* EMFILE: the error ends the loop and the client keeps waiting.
AcceptNoFd ==
  /\ pc = "accept" /\ backlog > 0 /\ Fds \subseteq fds
  /\ EndAccept
  /\ UNCHANGED <<poolVars, eventVars, fds, clientVars, batch, appVars>>

\* ECONNABORTED: the client is gone, the loop goes on.
AcceptAborted ==
  /\ pc = "accept" /\ backlog > 0
  /\ backlog' = backlog - 1
  /\ UNCHANGED <<pc, cur, after, poolVars, eventVars, fds, arrived, batch, appVars>>

\* The kernel hands out the lowest free descriptor.
Accept4(s) ==
  /\ pc = "accept" /\ backlog > 0
  /\ s \in Fds \ fds /\ \A t \in Fds \ fds : s <= t
  /\ backlog' = backlog - 1 /\ UNCHANGED arrived

AcceptRefuseNoClose ==
  \E s \in Fds :
    /\ Accept4(s) /\ ConnGetFails
    /\ EndAccept
    /\ fds' = fds \cup {s}
    /\ UNCHANGED <<poolVars, eventVars, batch, appVars>>

AcceptRefuseDisarms ==
  \E s \in Fds :
    /\ Accept4(s) /\ ConnGetFails
    /\ EndAccept
    /\ ractive' = [i \in Slots |-> ractive[i] /\ handler[i] # "accept"]
    /\ UNCHANGED <<poolVars, handler, wactive, timer, fds, batch, appVars>>

(* No slot or no memory: the descriptor is closed, the loop ends.           *)
AcceptRefuse ==
  \E s \in Fds :
    /\ Accept4(s) /\ ConnGetFails
    /\ EndAccept
    /\ UNCHANGED <<poolVars, eventVars, fds, batch, appVars>>

AcceptLeak ==
  \E s \in Fds :
    /\ Accept4(s) /\ ConnGetLeaks(s)
    /\ EndAccept
    /\ UNCHANGED <<fds, appVars>>

(* No memory for the peer's address: the loop breaks and leaves the         *)
(* connection in use, without handlers, timer or epoll registration.        *)
AcceptHalf ==
  \E s \in Fds :
    /\ Accept4(s) /\ "sockaddr" \in Faults /\ ConnGet(s, "none")
    /\ EndAccept
    /\ fds' = fds \cup {s}
    /\ UNCHANGED appVars

AcceptConnUnannounced ==
  \E s \in Fds :
    /\ Accept4(s) /\ ConnGet(s, "read")
    /\ pc' = "read" /\ cur' = Top /\ after' = "accept"
    /\ fds' = fds \cup {s}
    /\ UNCHANGED appVars

(* ws_net_handle2 announces the connection and reads from it at once.       *)
AcceptConn ==
  \E s \in Fds :
    /\ Accept4(s) /\ ConnGet(s, "read")
    /\ pc' = "read" /\ cur' = Top /\ after' = "accept"
    /\ fds' = fds \cup {s}
    /\ open' = open \cup {Top} /\ known' = known \cup {Top}
-----------------------------------------------------------------------------
(* The handlers of a stream, each kept to its effect on the slot.           *)

(* ws_net_read_cycle rearms the timer and reads; the connection survives.   *)
(* Flushing pending output may end with wev active or not.                  *)
ReadKeep ==
  /\ pc = "read" /\ pc' = after
  /\ timer' = [timer EXCEPT ![cur] = TRUE]
  /\ \E w \in BOOLEAN : wactive' = [wactive EXCEPT ![cur] = w]
  /\ UNCHANGED <<cur, after, poolVars, handler, ractive, fds, clientVars, batch, appVars>>

(* The peer closed, sent a bad header, or a send failed.                    *)
ReadClose ==
  /\ pc = "read" /\ pc' = after
  /\ ConnClose(cur)
  /\ UNCHANGED <<cur, after, clientVars, batch>>

CanWrite == wactive[cur] /\ handler[cur] = "read"

WriteKeep ==
  /\ pc = "write" /\ pc' = "dispatch"
  /\ \E w \in BOOLEAN :
       /\ ~CanWrite => w = wactive[cur]
       /\ wactive' = [wactive EXCEPT ![cur] = w]
  /\ UNCHANGED <<cur, after, poolVars, handler, ractive, timer, fds, clientVars, batch, appVars>>

WriteFail ==
  /\ pc = "write" /\ CanWrite /\ pc' = "dispatch"
  /\ ConnClose(cur)
  /\ UNCHANGED <<cur, after, clientVars, batch>>

(* A request to send to a connection index the application was given; the   *)
(* index may have been freed or reused since.                               *)
TcpSendKeep(i) ==
  /\ pc = "dispatch" /\ i \in known /\ sock[i] > 0 /\ pool[i] = "live"
  /\ \E w \in BOOLEAN : wactive' = [wactive EXCEPT ![i] = w]
  /\ UNCHANGED <<pc, cur, after, poolVars, handler, ractive, timer, fds,
                 clientVars, batch, appVars>>

TcpSendFail(i) ==
  /\ pc = "dispatch" /\ i \in known /\ sock[i] > 0 /\ pool[i] = "live"
  /\ ConnClose(i)
  /\ batch' = Marked(i, "cut")
  /\ UNCHANGED <<pc, cur, after, clientVars>>

\* The leaked slot passes the s > 0 test and has no send buffer any more.
TcpSendCrash(i) ==
  /\ pc = "dispatch" /\ i \in known /\ sock[i] > 0 /\ pool[i] = "dangling"
  /\ pc' = "crashed"
  /\ UNCHANGED <<cur, after, poolVars, eventVars, fds, clientVars, batch, appVars>>
-----------------------------------------------------------------------------
(* ws_event_timer_expire: any armed timer may be due.                       *)

ExpireEarly(i) ==
  /\ pc \in {"expire", "dispatch"} /\ timer[i]
  /\ ConnClose(i)
  /\ UNCHANGED <<pc, cur, after, clientVars, batch>>

Expire(i) ==
  /\ pc = "expire" /\ timer[i]
  /\ ConnClose(i)
  /\ UNCHANGED <<pc, cur, after, clientVars, batch>>

ExpireDone ==
  /\ pc = "expire" /\ pc' = "wait"
  /\ UNCHANGED <<cur, after, poolVars, eventVars, fds, clientVars, batch, appVars>>
-----------------------------------------------------------------------------
Dispatch ==
  \/ \E e \in batch :
       \/ DispatchError(e) \/ DispatchCrash(e) \/ DispatchAccept(e)
       \/ DispatchRead(e) \/ DispatchWrite(e) \/ DispatchSkip(e)
  \/ DispatchDone

Accept ==
  \/ AcceptAgain \/ AcceptNoFd \/ AcceptAborted \/ AcceptRefuse
  \/ AcceptLeak \/ AcceptHalf \/ AcceptConn

Handle == ReadKeep \/ ReadClose \/ WriteKeep \/ WriteFail

Timers == (\E i \in Slots : Expire(i)) \/ ExpireDone

Loop == EpollWait \/ Dispatch \/ Accept \/ Handle \/ Timers

Requests == \E i \in Slots : TcpSendKeep(i) \/ TcpSendFail(i) \/ TcpSendCrash(i)

Next == ServerAdd \/ Run \/ ClientArrives \/ Loop \/ Requests

Spec == Init /\ [][Next]_vars

(* The process runs its loop as long as it lives: epoll_wait returns after  *)
(* half a second at the latest and no handler blocks.                       *)
FairSpec == Spec /\ WF_vars(Loop)
-----------------------------------------------------------------------------
(* Properties.                                                             *)

(* The values each part of the state takes.                                *)
TypeOK ==
  /\ pc \in Locations /\ cur \in Slots
  /\ after \in {"accept", "write", "dispatch"}
  /\ sock \in [Slots -> Nat \cup {-1}]
  /\ pool \in [Slots -> Pools]
  /\ handler \in [Slots -> Handlers]
  /\ ractive \in [Slots -> BOOLEAN]
  /\ wactive \in [Slots -> BOOLEAN]
  /\ timer \in [Slots -> BOOLEAN]
  /\ free_conns \in Seq(Slots)
  /\ free_conn_num \in Int /\ conn_num \in Int
  /\ fds \subseteq Nat \ {0}
  /\ backlog \in Nat /\ arrived \in Nat
  /\ batch \subseteq Events
  /\ open \subseteq Slots /\ known \subseteq Slots

(* No slot is on the free list twice, and the list holds exactly the slots  *)
(* that are neither in use nor leaked: ws_conn_get never hands out a slot   *)
(* some connection still owns (ws_conn.c, ws_conn_get and ws_conn_free).    *)
FreeListExact ==
  /\ \A j, k \in 1 .. Len(free_conns) : free_conns[j] = free_conns[k] => j = k
  /\ \A i \in Slots :
       pool[i] = "null" <=> \E k \in 1 .. Len(free_conns) : free_conns[k] = i
  /\ \A i \in Slots : pool[i] = "null" => sock[i] <= 0

(* The two counters agree with the slots: conn_num counts the slots in use, *)
(* and free_conn_num exceeds the free list by exactly the slots lost to a   *)
(* failed third allocation, which the code never takes off the count.       *)
CountersExact ==
  /\ conn_num = Cardinality(InUse)
  /\ free_conn_num = Len(free_conns) + Cardinality(Leaked)
  /\ free_conn_num + conn_num = NumSlots

PoolConserved == FreeListExact /\ CountersExact

(* A descriptor is open exactly when one slot in use owns it: no accept     *)
(* failure path loses a descriptor and no close hits a descriptor another   *)
(* connection was given meanwhile. The listening socket alone may have no   *)
(* slot, when ws_conn_get failed for it.                                    *)
FdOwned ==
  /\ \A i \in InUse : sock[i] \in fds
  /\ \A i, j \in InUse : sock[i] = sock[j] => i = j
  /\ \A s \in fds \ {ListenFd} : \E i \in InUse : sock[i] = s

(* An armed timer belongs to a stream in use, so its expiry never runs a    *)
(* handler of a freed slot; and a connection the application knows about    *)
(* has a deadline as soon as its first read returned.                       *)
TimersBelong ==
  /\ \A i \in Slots : timer[i] => i \in Streams
  /\ \A i \in open : timer[i] \/ (pc = "read" /\ cur = i)

(* The connections the application was told of and not told the end of are  *)
(* the streams in use, and epoll watches each of them for input.            *)
AppView == open = Streams /\ \A i \in Streams : ractive[i]

(* on_closed is called only for a connection on_connect was called for. The *)
(* exception is a connection ws_event_accept left without handlers: a       *)
(* request to send by the index of an earlier connection of its slot may    *)
(* close it, and the earlier one's on_closed then runs a second time.       *)
ClosePaired ==
  [][\A i \in Slots :
       pool[i] = "live" /\ pool'[i] = "null" => i \in open \/ handler[i] = "none"]_vars

(* No event of a batch reaches a connection accepted after epoll_wait       *)
(* returned it, although the batch identifies a connection by its reusable  *)
(* slot alone. The exception is the event of a connection that a request to *)
(* send closed earlier in the batch.                                        *)
NoStaleEvent == \A e \in batch : e.owner # "other" \/ sock[e.slot] = -1

(* A server that got its slot keeps it, watched, with the accept handler.   *)
ListenerKept ==
  [][\A i \in InUse : handler[i] = "accept" =>
       pool'[i] = "live" /\ handler'[i] = "accept" /\ ractive'[i]]_vars

(* Once the loop runs, waiting clients are eventually all accepted or       *)
(* refused, whatever allocations fail, if the server got its slot. accept4  *)
(* leaves them waiting while the process has no descriptor left             *)
(* (ws_event_accept.c:66), and connections that nothing closes may hold the *)
(* last ones for ever: the condition is that a descriptor is free again and *)
(* again, at any times. The loop may also crash.                            *)
BacklogServed ==
  []<>~(Fds \subseteq fds) =>
    (pc # "setup" /\ ListenerUp /\ backlog > 0 ~> backlog = 0 \/ pc = "crashed")
-----------------------------------------------------------------------------
(* The inductive invariant: what the properties need beside each other is   *)
(* that only slots in use are active in epoll, that a read handler runs for *)
(* a stream in use, and that before the loop starts the listening socket is *)
(* the only open descriptor.                                                *)
ActiveInUse == \A i \in Slots : ractive[i] \/ wactive[i] => i \in InUse
HandlerLive == pc = "read" => cur \in Streams
SetupFds == pc = "setup" => fds = {ListenFd}

IInv ==
  /\ TypeOK /\ FreeListExact /\ CountersExact /\ FdOwned
  /\ TimersBelong /\ AppView
  /\ ActiveInUse /\ HandlerLive /\ SetupFds
=============================================================================
