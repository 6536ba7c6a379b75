------------------------------ MODULE SendPath ------------------------------
(***************************************************************************)
(* The output of one connection: requests are appended to send_buf2 and    *)
(* flushed until the socket takes no more; what is left waits for epoll.   *)
(* The send handler of the connection, wev->active and what the kernel is  *)
(* registered for are three separate pieces of state, and only together do *)
(* they decide whether the rest is ever sent.                              *)
(***************************************************************************)
EXTENDS Integers

CONSTANTS
  BufSize,      \* YMZ_CONN_SEND_BUF_SIZE (32768)
  Room,         \* the bytes the socket can hold
  Sizes,        \* the sizes of requests
  MaxAsked      \* bound: bytes the application ever asks to send

ASSUME BufSizeAssumption == BufSize \in Nat \ {0}
ASSUME RoomAssumption == Room \in Nat \ {0}
ASSUME SizesAssumption == Sizes \subseteq Nat
ASSUME MaxAskedAssumption == MaxAsked \in Nat

VARIABLES
  pc,          \* idle, flush (in ws_conn_send_event) or closed
  send_pos, send_wpos,
  send_buf,    \* which byte of the output each place of send_buf2 holds
  handler,     \* wev->handle: ws_net_event_empty_send or ws_event_send
  active,      \* wev->active
  level,       \* the registration lost EPOLLET
  edge,        \* epoll has an output event to report once
  room,        \* free bytes in the socket
  nospace,     \* the kernel will raise an event when there is room again
  rst,         \* the peer reset the connection
  asked,       \* history: bytes of all requests
  accepted,    \* history: bytes of the requests that were not dropped
  passed       \* history: bytes the socket took

sendVars == <<pc, send_pos, send_wpos, send_buf, handler, active, level, edge,
          room, nospace, rst, asked, accepted, passed>>
bufVars == <<send_pos, send_wpos, send_buf>>
eventVars == <<handler, active, level>>
kernelVars == <<edge, room, nospace, rst>>
historyVars == <<asked, accepted, passed>>

Pending == send_wpos > send_pos
-----------------------------------------------------------------------------
(* ws_event_add_conn registered both directions edge-triggered, and the     *)
(* socket is writable from the start.                                       *)
SendInit ==
  /\ pc = "idle"
  /\ send_pos = 0 /\ send_wpos = 0
  /\ send_buf = [k \in 0 .. BufSize - 1 |-> 0]
  /\ handler = "empty" /\ active = TRUE /\ level = FALSE
  /\ edge = TRUE /\ room = Room /\ nospace = FALSE /\ rst = FALSE
  /\ asked = 0 /\ accepted = 0 /\ passed = 0
-----------------------------------------------------------------------------
(* ws_conn_tcp_check_send_buf: a request is appended whole or not at all.   *)

FitsBehind(n) == n = 0 \/ send_wpos + n < BufSize

AppendOverwrites(n) ==
  /\ send_buf' = [k \in DOMAIN send_buf |->
                    IF k < n THEN accepted + k + 1 ELSE send_buf[k]]
  /\ send_wpos' = send_wpos + n

AppendBytes(n) ==
  /\ send_buf' = [k \in DOMAIN send_buf |->
                    IF k \in send_wpos .. send_wpos + n - 1
                      THEN accepted + (k - send_wpos) + 1 ELSE send_buf[k]]
  /\ send_wpos' = send_wpos + n

(* ws_net_tcp_send: append, then flush whatever handler is installed.       *)
Request(n) ==
  /\ pc = "idle" /\ asked + n <= MaxAsked
  /\ FitsBehind(n) /\ AppendBytes(n)
  /\ pc' = "flush"
  /\ asked' = asked + n /\ accepted' = accepted + n
  /\ UNCHANGED <<send_pos, eventVars, kernelVars, passed>>

(* No room behind send_wpos: the request is dropped and nothing is flushed. *)
RequestDropped(n) ==
  /\ pc = "idle" /\ n > 0 /\ asked + n <= MaxAsked
  /\ ~FitsBehind(n)
  /\ asked' = asked + n
  /\ UNCHANGED <<pc, bufVars, eventVars, kernelVars, accepted, passed>>

(* The end of ws_net_read with output pending: from now on the connection   *)
(* has a handler that sends.                                                *)
ReadFlush ==
  /\ pc = "idle" /\ Pending
  /\ handler' = "send" /\ pc' = "flush"
  /\ UNCHANGED <<bufVars, active, level, kernelVars, historyVars>>
-----------------------------------------------------------------------------
(* ws_event_epoll_process: an output event.                                *)

Reported == room > 0 /\ (edge \/ level)

OutEvent ==
  /\ pc = "idle" /\ Reported
  /\ edge' = FALSE
  /\ pc' = IF active /\ handler = "send" THEN "flush" ELSE "idle"
  /\ UNCHANGED <<bufVars, eventVars, room, nospace, rst, historyVars>>
-----------------------------------------------------------------------------
(* ws_event_send around ws_conn_send_event.                                *)

SendOut ==
  /\ pc = "flush" /\ Pending /\ ~rst
  /\ \E n \in 1 .. room :
       /\ n <= send_wpos - send_pos
       /\ send_pos' = send_pos + n
       /\ room' = room - n /\ passed' = passed + n
  /\ UNCHANGED <<pc, send_wpos, send_buf, eventVars, edge, nospace, rst,
                 asked, accepted>>

EventAddNotRecorded == UNCHANGED active /\ level' = (level \/ ~active)

\* ws_event_add: nothing is asked of the kernel while wev is still active;
\* otherwise the registration is replaced by one without EPOLLET.
EventAdd == active' = TRUE /\ level' = (level \/ ~active)

(* EAGAIN: the rest waits for the socket.                                   *)
SendAgain ==
  /\ pc = "flush" /\ Pending /\ ~rst /\ room = 0
  /\ EventAdd
  /\ nospace' = TRUE /\ pc' = "idle"
  /\ UNCHANGED <<bufVars, handler, edge, room, rst, historyVars>>

SendError ==
  /\ pc = "flush" /\ Pending /\ rst
  /\ pc' = "closed"
  /\ UNCHANGED <<bufVars, eventVars, kernelVars, historyVars>>

FlushDoneKeepsPos ==
  /\ pc = "flush" /\ ~Pending
  /\ send_wpos' = 0 /\ active' = FALSE
  /\ pc' = "idle"
  /\ UNCHANGED <<send_pos, send_buf, handler, level, kernelVars, historyVars>>

(* All is sent: the buffer starts again from its front. wev is inactive by  *)
(* the time ws_event_del runs, which therefore leaves the kernel alone.     *)
FlushDone ==
  /\ pc = "flush" /\ ~Pending
  /\ send_pos' = 0 /\ send_wpos' = 0 /\ active' = FALSE
  /\ pc' = "idle"
  /\ UNCHANGED <<send_buf, handler, level, kernelVars, historyVars>>
-----------------------------------------------------------------------------
(* The peer takes bytes out of the socket, sends something, or resets; the  *)
(* timer or an error event closes the connection.                           *)

Drain ==
  /\ room < Room /\ ~rst
  /\ \E n \in 1 .. Room - room : room' = room + n
  /\ edge' = (edge \/ nospace) /\ nospace' = FALSE
  /\ UNCHANGED <<pc, bufVars, eventVars, rst, historyVars>>

Input ==
  /\ edge' = TRUE
  /\ UNCHANGED <<pc, bufVars, eventVars, room, nospace, rst, historyVars>>

Reset ==
  /\ rst' = TRUE
  /\ UNCHANGED <<pc, bufVars, eventVars, edge, room, nospace, historyVars>>

Close ==
  /\ pc = "idle" /\ pc' = "closed"
  /\ UNCHANGED <<bufVars, eventVars, kernelVars, historyVars>>
-----------------------------------------------------------------------------
Requests == \E n \in Sizes : Request(n) \/ RequestDropped(n)
Flush == SendOut \/ SendAgain \/ SendError \/ FlushDone

SendNext ==
  \/ Requests \/ ReadFlush \/ OutEvent \/ Flush
  \/ Drain \/ Input \/ Reset \/ Close

SendSpec == SendInit /\ [][SendNext]_sendVars

(* The loop flushes and takes what epoll reports, the peer keeps reading,   *)
(* and a reset is reported as an error that closes.                         *)
FairSpec ==
  /\ SendSpec
  /\ WF_sendVars(Flush) /\ WF_sendVars(OutEvent) /\ WF_sendVars(Drain)
  /\ WF_sendVars(rst /\ Close)
-----------------------------------------------------------------------------
(* Properties.                                                             *)

(* The types; the append position stays inside the buffer with a place to   *)
(* spare, and never falls behind what was sent.                             *)
TypeOK ==
  /\ pc \in {"idle", "flush", "closed"}
  /\ send_wpos \in 0 .. BufSize - 1 /\ send_pos \in 0 .. send_wpos
  /\ send_buf \in [0 .. BufSize - 1 -> Nat]
  /\ handler \in {"empty", "send"}
  /\ active \in BOOLEAN /\ level \in BOOLEAN
  /\ edge \in BOOLEAN /\ room \in 0 .. Room /\ nospace \in BOOLEAN /\ rst \in BOOLEAN
  /\ asked \in Nat /\ accepted \in Nat /\ passed \in Nat

(* The socket is given every byte of every accepted request, once and in    *)
(* order: the pending part of the buffer continues exactly what was sent.   *)
InOrder ==
  /\ accepted = passed + (send_wpos - send_pos)
  /\ \A k \in send_pos .. send_wpos - 1 : send_buf[k] = passed + (k - send_pos) + 1

(* Between two events, output that is pending with ws_event_send installed  *)
(* has an event coming: wev is active, and epoll reports either now or when *)
(* the socket has room. With ws_net_event_empty_send installed it has none. *)
Armed ==
  pc = "idle" /\ Pending /\ handler = "send" =>
    active /\ (edge \/ level \/ nospace)

(* As soon as a read handler saw pending output, output never gets stuck:   *)
(* as long as the peer keeps reading, the buffer runs empty.                *)
Flushed == handler = "send" /\ Pending ~> ~Pending \/ pc = "closed"
=============================================================================
