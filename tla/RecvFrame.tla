----------------------------- MODULE RecvFrame ------------------------------
(***************************************************************************)
(* The receive path of one connection: the edge-triggered read of          *)
(* ws_net_read with its second pass, the window ws_check_recv grants each, *)
(* the framing loop of ws_conn_recv and the delivery loop around           *)
(* ws_check_handle, against a peer whose bytes arrive in any pieces at any *)
(* moment.                                                                 *)
(*                                                                         *)
(* The receive buffer is kept as the three positions the code keeps; what  *)
(* the buffer holds is known from the place of its first byte in the       *)
(* stream (base) and from the messages the peer sent.                      *)
(***************************************************************************)
EXTENDS Integers, Sequences

CONSTANTS
  Peek,        \* the bytes of the length word of a header (4)
  Hdr,         \* the bytes of a header (8)
  MinItf,      \* MIN_ITF, the room a read leaves free (512)
  ReadBuf,     \* read_buffer_size (38912)
  MaxMsg,      \* YMZ_CONN_RECV_MAX_SIZE (2048)
  MaxWord,     \* the largest value of ws_int32_t (2^31 - 1)
  Headers,     \* the length words a peer may put into a header
  MaxSent      \* bound: how many messages a peer sends

(* The sizes ws_conn_get sets up: the buffer is larger than read_buffer_size *)
(* by one message of the largest size.                                      *)
Block == ReadBuf + MaxMsg

ASSUME SizesAssumption ==
  /\ Peek \in Nat \ {0} /\ Hdr \in Nat /\ MinItf \in Nat /\ ReadBuf \in Nat
  /\ MaxMsg \in Nat /\ MaxSent \in Nat
  /\ Peek < Hdr /\ Hdr < MinItf /\ MinItf < MaxMsg /\ MaxMsg < ReadBuf
ASSUME WordAssumption == MaxWord \in Nat /\ Block <= MaxWord
ASSUME HeadersAssumption == Headers \subseteq -MaxWord - 1 .. MaxWord

VARIABLES
  pc,          \* where ws_net_read is: idle, recv, frame,
               \* returned, handle, closed, or overrun: a recv wrote beyond the buffer
  pass,        \* 1, or 2 for the pass made because recv_mark was set
  left,        \* msize, what the next recv may return at most
  got,         \* curr # 0, this pass received something
  rtn,         \* what ws_conn_recv is going to return: ok, error, close
  has_closed,  \* hasClosed
  times,       \* how often ws_net_read_cycle may still repeat the read
  recv_pos, last_finish, handle_pos, recv_mark,
  base,        \* place in the stream of the buffer's first byte
  edge,        \* epoll has an input event to report
  kernel,      \* bytes waiting in the socket
  wire,        \* bytes of the last message that did not arrive yet
  fin, rst,    \* the peer's FIN or RST is in
  sent,        \* the peer's messages: where each starts, its length
  delivered    \* history: what on_recv was called with

vars == <<pc, pass, left, got, rtn, has_closed, times, recv_pos, last_finish,
          handle_pos, recv_mark, base, edge, kernel, wire, fin, rst, sent,
          delivered>>
passVars == <<pass, left, got, rtn, has_closed, times>>
posVars == <<recv_pos, last_finish, handle_pos, recv_mark, base>>
netVars == <<edge, kernel, wire, fin, rst, sent>>
-----------------------------------------------------------------------------
(* A message is written with its place in the stream; a length word that is *)
(* too short to be valid comes with a full header and one more byte.        *)
Message(at, header) ==
  [at |-> at, len |-> header, bytes |-> IF header > Hdr THEN header ELSE Hdr + 1]

Messages == {Message(at, h) : at \in 0 .. MaxSent * MaxWord, h \in Headers}

SentEnd == IF sent = <<>> THEN 0 ELSE sent[Len(sent)].at + sent[Len(sent)].bytes

(* The length word found at a buffer position; bytes that are not the start *)
(* of a message read as an invalid length.                                  *)
HeaderAt(pos) ==
  IF \E k \in 1 .. Len(sent) : sent[k].at = base + pos
    THEN sent[CHOOSE k \in 1 .. Len(sent) : sent[k].at = base + pos].len
    ELSE 0

Least(a, b) == IF a < b THEN a ELSE b
-----------------------------------------------------------------------------
(* ws_check_recv: the bytes the next pass may receive.                      *)

HasRoom == ReadBuf - recv_pos > MinItf

(* A difference below the range of ws_int32_t comes out at its upper end.   *)
Wrapped(x) == IF x < -MaxWord - 1 THEN x + 2 * (MaxWord + 1) ELSE x

(* For a message that straddles the end: the rest of its header, or of what *)
(* its length word says, which nothing has checked yet.                     *)
WindowNoRoomWhole ==
  IF recv_pos - last_finish < Peek
    THEN Hdr - (recv_pos - last_finish)
    ELSE HeaderAt(last_finish)

WindowNoRoom ==
  IF recv_pos - last_finish < Peek
    THEN Hdr - (recv_pos - last_finish)
    ELSE Wrapped(HeaderAt(last_finish) - (recv_pos - last_finish))

WindowLengthWord == IF HasRoom THEN Peek ELSE WindowNoRoom

Window == IF HasRoom THEN ReadBuf - recv_pos - MinItf ELSE WindowNoRoom

(* The pass is entered with an empty tally.                                 *)
StartPass(n) ==
  /\ pass' = n /\ left' = Window
  /\ got' = FALSE /\ rtn' = "ok" /\ UNCHANGED <<has_closed, times>>

ConnClose == pc' = "closed"
-----------------------------------------------------------------------------
(* ws_net_handle2 reads once without waiting for an event.                  *)
Init ==
  /\ pc = "recv" /\ pass = 1 /\ left = ReadBuf - MinItf /\ got = FALSE
  /\ rtn = "ok" /\ has_closed = FALSE /\ times = 1
  /\ recv_pos = 0 /\ last_finish = 0 /\ handle_pos = 0 /\ recv_mark = FALSE
  /\ base = 0
  /\ edge = FALSE
  /\ kernel = 0 /\ wire = 0 /\ fin = FALSE /\ rst = FALSE
  /\ sent = <<>> /\ delivered = <<>>
-----------------------------------------------------------------------------
(* The peer and the network.                                               *)

PeerSends ==
  /\ wire = 0 /\ ~fin /\ ~rst /\ Len(sent) < MaxSent
  /\ \E h \in Headers :
       /\ sent' = Append(sent, Message(SentEnd, h))
       /\ wire' = Message(SentEnd, h).bytes
  /\ UNCHANGED <<pc, passVars, posVars, edge, kernel, fin, rst, delivered>>

Arrive ==
  /\ ~fin /\ ~rst
  /\ \E n \in 1 .. wire : wire' = wire - n /\ kernel' = kernel + n
  /\ edge' = TRUE
  /\ UNCHANGED <<pc, passVars, posVars, fin, rst, sent, delivered>>

\* The peer may go in the middle of a message.
PeerFin ==
  /\ ~fin /\ ~rst
  /\ fin' = TRUE /\ edge' = TRUE
  /\ UNCHANGED <<pc, passVars, posVars, kernel, wire, rst, sent, delivered>>

\* What waits in the socket may stay readable or be thrown away.
PeerReset ==
  /\ ~rst
  /\ rst' = TRUE /\ edge' = TRUE /\ kernel' \in {0, kernel}
  /\ UNCHANGED <<pc, passVars, posVars, wire, fin, sent, delivered>>

\* Room in the output queue wakes epoll too, and a connection whose output
\* once had to wait is watched level-triggered: input is reported again.
Wakeup ==
  /\ kernel > 0 \/ fin
  /\ edge' = TRUE
  /\ UNCHANGED <<pc, passVars, posVars, kernel, wire, fin, rst, sent, delivered>>
-----------------------------------------------------------------------------
(* ws_net_read.                                                            *)

(* Without room for a pass the delivery loop is next.                       *)
EnterRead ==
  /\ has_closed' = FALSE
  /\ pass' = 1 /\ got' = FALSE /\ rtn' = "ok"
  /\ IF HasRoom \/ recv_mark
       THEN pc' = "recv" /\ left' = Window
       ELSE pc' = "handle" /\ UNCHANGED left

(* An event is taken.                                                       *)
Readable ==
  /\ pc = "idle" /\ edge /\ ~rst /\ (kernel > 0 \/ fin)
  /\ edge' = FALSE /\ times' = 1
  /\ EnterRead
  /\ UNCHANGED <<posVars, kernel, wire, fin, rst, sent, delivered>>

(* epoll reports the reset and the loop closes without reading.             *)
Hangup ==
  /\ pc = "idle" /\ rst
  /\ ConnClose
  /\ UNCHANGED <<passVars, posVars, netVars, delivered>>

TimeoutUnmarked ==
  /\ pc = "idle" /\ ~recv_mark
  /\ ConnClose
  /\ UNCHANGED <<passVars, posVars, netVars, delivered>>

(* The read timer expires, or an earlier reply fails to be sent.            *)
Timeout ==
  /\ pc = "idle"
  /\ ConnClose
  /\ UNCHANGED <<passVars, posVars, netVars, delivered>>

(* recv returns bytes; a short read ends the pass without another recv.     *)
Recv ==
  /\ pc = "recv" /\ left > 0 /\ kernel > 0
  /\ LET n == Least(kernel, left) IN
       /\ recv_pos + n <= Block
       /\ recv_pos' = recv_pos + n
       /\ kernel' = kernel - n
       /\ left' = left - n
       /\ pc' = IF n <= left' \/ left' = 0 THEN "frame" ELSE "recv"
  /\ got' = TRUE
  /\ UNCHANGED <<pass, rtn, has_closed, times, last_finish, handle_pos, recv_mark,
                 base, edge, wire, fin, rst, sent, delivered>>

(* recv was allowed more than the buffer has left and finds as much in the  *)
(* socket: it writes beyond the buffer, and nothing is known of the process *)
(* from there on.                                                           *)
RecvOverrun ==
  /\ pc = "recv" /\ left > 0
  /\ recv_pos + Least(kernel, left) > Block
  /\ pc' = "overrun"
  /\ UNCHANGED <<passVars, posVars, netVars, delivered>>

(* all_size is beyond ws_int32_t. Where it wraps the loop ends; where the   *)
(* compiler tests the sum without computing it recv is called all the same. *)
RecvWraps ==
  /\ pc = "recv" /\ recv_pos + left > MaxWord
  /\ \/ got /\ pc' = "frame" /\ UNCHANGED rtn
     \/ ~got /\ pc' = "returned" /\ rtn' = "close"
  /\ UNCHANGED <<pass, left, got, has_closed, times, posVars, netVars, delivered>>

RecvAgain ==
  /\ pc = "recv" /\ left > 0 /\ kernel = 0 /\ ~fin /\ ~rst
  /\ pc' = "frame"
  /\ UNCHANGED <<passVars, posVars, netVars, delivered>>

(* End of stream, an error, or a window that lets nothing in: with nothing  *)
(* received in this pass the framing loop is skipped and even an error is   *)
(* a close.                                                                 *)
RecvEnds ==
  /\ pc = "recv"
  /\ \/ left <= 0
     \/ kernel = 0 /\ (fin \/ rst)
  /\ pc' = IF got THEN "frame" ELSE "returned"
  /\ rtn' = IF got /\ rst THEN "error" ELSE "close"
  /\ UNCHANGED <<pass, left, got, has_closed, times, posVars, netVars, delivered>>

(* The framing loop: one complete message.                                  *)
Complete(h) == recv_pos - last_finish >= h
HeaderIn == Complete(Hdr)
ValidHeader == HeaderAt(last_finish) > Hdr /\ HeaderAt(last_finish) <= MaxMsg

FrameOne ==
  /\ pc = "frame" /\ HeaderIn /\ ValidHeader /\ Complete(HeaderAt(last_finish))
  /\ last_finish' = last_finish + HeaderAt(last_finish)
  /\ UNCHANGED <<pc, passVars, recv_pos, handle_pos, recv_mark, base, netVars,
                 delivered>>

FrameNone ==
  /\ pc = "frame" /\ recv_pos = last_finish
  /\ recv_mark' = FALSE /\ pc' = "returned"
  /\ UNCHANGED <<passVars, recv_pos, last_finish, handle_pos, base, netVars,
                 delivered>>

FramePartial ==
  /\ pc = "frame" /\ recv_pos # last_finish
  /\ HeaderIn => ValidHeader /\ ~Complete(HeaderAt(last_finish))
  /\ recv_mark' = TRUE /\ pc' = "returned"
  /\ UNCHANGED <<passVars, recv_pos, last_finish, handle_pos, base, netVars,
                 delivered>>

FrameBad ==
  /\ pc = "frame" /\ HeaderIn /\ ~ValidHeader
  /\ rtn' = "close" /\ pc' = "returned"
  /\ UNCHANGED <<pass, left, got, has_closed, times, posVars, netVars, delivered>>

(* Back in ws_net_read: the first pass is repeated once when it ended in    *)
(* the middle of a message.                                                 *)
ReturnRepeat ==
  /\ pc = "returned" /\ pass = 1 /\ rtn = "ok" /\ recv_mark
  /\ pc' = "recv" /\ StartPass(2)
  /\ UNCHANGED <<posVars, netVars, delivered>>

\* A first pass that ends the stream closes at once.
ReturnFirstCloses ==
  /\ pc = "returned" /\ pass = 1 /\ ~(rtn = "ok" /\ recv_mark)
  /\ IF rtn = "ok" THEN pc' = "handle" ELSE ConnClose
  /\ has_closed' = (rtn # "ok")
  /\ UNCHANGED <<pass, left, got, rtn, times, posVars, netVars, delivered>>

ReturnFirst ==
  /\ pc = "returned" /\ pass = 1 /\ ~(rtn = "ok" /\ recv_mark)
  /\ pc' = "handle" /\ has_closed' = (rtn # "ok")
  /\ UNCHANGED <<pass, left, got, rtn, times, posVars, netVars, delivered>>

ReturnSecondIdle ==
  /\ pc = "returned" /\ pass = 2 /\ rtn = "ok"
  /\ pc' = "idle"
  /\ UNCHANGED <<passVars, posVars, netVars, delivered>>

ReturnSecond ==
  /\ pc = "returned" /\ pass = 2 /\ rtn = "ok"
  /\ pc' = "handle"
  /\ UNCHANGED <<passVars, posVars, netVars, delivered>>

(* The second pass ends the stream: the connection is closed with what the  *)
(* first pass framed undelivered.                                           *)
ReturnLost ==
  /\ pc = "returned" /\ pass = 2 /\ rtn = "close"
  /\ ConnClose
  /\ UNCHANGED <<passVars, posVars, netVars, delivered>>

ReturnErrorIdle ==
  /\ pc = "returned" /\ pass = 2 /\ rtn = "error"
  /\ pc' = "idle"
  /\ UNCHANGED <<passVars, posVars, netVars, delivered>>

(* The second pass meets an error: ws_net_read returns without delivering   *)
(* and without closing. The code it returns, YMZ_CONN_RECV_ERROR, happens   *)
(* to equal YMZ_NR_AGAIN, and so ws_net_read_cycle reads once more. (An     *)
(* error of the first pass has closed the connection, and the repeated read *)
(* finds no socket.)                                                        *)
ReturnError ==
  /\ pc = "returned" /\ pass = 2 /\ rtn = "error"
  /\ IF times = 0 THEN pc' = "idle" /\ UNCHANGED passVars
                  ELSE times' = 0 /\ EnterRead
  /\ UNCHANGED <<posVars, netVars, delivered>>

(* ws_check_handle.                                                         *)
WrapsInMessage == ~HasRoom /\ handle_pos = last_finish

Wraps == ~HasRoom /\ ~recv_mark /\ handle_pos = recv_pos

DeliverableUnfinished == ~Wraps /\ recv_pos - handle_pos > Hdr

Deliverable ==
  /\ ~Wraps /\ last_finish - handle_pos > 0
  /\ HeaderAt(handle_pos) <= last_finish - handle_pos

(* One message goes to on_recv, after which the loop looks whether the       *)
(* connection was closed meanwhile.                                         *)
Handle ==
  /\ pc = "handle" /\ Deliverable
  /\ handle_pos' = handle_pos + HeaderAt(handle_pos)
  /\ delivered' = Append(delivered, Message(base + handle_pos, HeaderAt(handle_pos)))
  /\ pc' = "handle" \/ ConnClose
  /\ UNCHANGED <<passVars, recv_pos, last_finish, recv_mark, base, netVars>>

Wrap ==
  /\ recv_pos' = 0 /\ handle_pos' = 0 /\ last_finish' = 0
  /\ base' = base + recv_pos

(* Nothing more to deliver; a used-up buffer starts again from its front,   *)
(* and what is pending to be sent may fail and close.                       *)
HandleDone ==
  /\ pc = "handle" /\ ~Deliverable
  /\ IF Wraps THEN Wrap ELSE UNCHANGED <<recv_pos, last_finish, handle_pos, base>>
  /\ IF has_closed THEN ConnClose ELSE pc' = "idle" \/ ConnClose
  /\ UNCHANGED <<passVars, recv_mark, netVars, delivered>>
-----------------------------------------------------------------------------
Peer == PeerSends \/ Arrive \/ PeerFin \/ PeerReset \/ Wakeup

Read ==
  \/ Readable \/ Hangup \/ Recv \/ RecvOverrun \/ RecvWraps \/ RecvAgain \/ RecvEnds
  \/ FrameOne \/ FrameNone \/ FramePartial \/ FrameBad
  \/ ReturnRepeat \/ ReturnFirst \/ ReturnSecond \/ ReturnLost \/ ReturnError
  \/ Handle \/ HandleDone

Next == Peer \/ Read \/ Timeout

Spec == Init /\ [][Next]_vars

(* The loop serves the events of the connection.                           *)
FairSpec == Spec /\ WF_vars(Read)
-----------------------------------------------------------------------------
(* Properties.                                                             *)

(* No recv may be allowed more than the buffer has left. The buffer is as   *)
(* large as read_buffer_size and one message of the largest size            *)
(* (ws_conn.c:173), and ws_conn_recv refuses larger ones                    *)
(* (ws_conn_recv.c:193).                                                    *)
NoOverrun == pc = "recv" => recv_pos + left <= Block

(* Where recv may be, or was, allowed more than the buffer has left, it is  *)
(* by the length word of the message that straddles the end of the buffer,  *)
(* and by one the later check would refuse (ws_conn_recv.c:43-45, 193):     *)
(* with every other word the pieces the bytes come in, the first window and *)
(* the second, the header cut anywhere keep the reads inside.               *)
OverrunByWord ==
  pc = "overrun" \/ (pc = "recv" /\ recv_pos + left > Block)
    => HeaderAt(last_finish) \notin 0 .. MaxMsg

Starts == {sent[k].at : k \in 1 .. Len(sent)} \cup {SentEnd}

(* What is delivered, framed and received of the buffer is in this order,   *)
(* and the first two end at message boundaries, so a length word is never   *)
(* read out of the middle of a message, whatever words the peer sent, until *)
(* a recv wrote beyond the buffer (see OverrunByWord).                      *)
Aligned ==
  pc = "overrun" \/
    /\ handle_pos <= last_finish /\ last_finish <= recv_pos /\ recv_pos <= Block
    /\ base + last_finish \in Starts /\ base + handle_pos \in Starts

(* Between two events every complete message that was read was delivered:   *)
(* of the ways out of ws_net_read that skip the delivery loop, each closes  *)
(* the connection or is followed by another read.                           *)
NothingHeldBack == pc = "idle" => handle_pos = last_finish

(* Bytes wait in the socket without an event to come only when a pass used  *)
(* up its window: the buffer just started over, or a message straddles its  *)
(* end.                                                                     *)
Stalled == pc = "idle" /\ ~edge /\ kernel > 0

StallsAtTheEnd == Stalled => recv_pos = 0 \/ (recv_mark /\ ~HasRoom)

(* A close leaves messages that were framed undelivered in two ways only: a *)
(* reply to an earlier one failed inside on_recv (ws_net.c:187-190), or the *)
(* second pass of the read found the end of the stream (ws_net.c:167-171).  *)
(* The end found by the first pass, a timeout, a hangup and a failed flush  *)
(* come after the delivery loop.                                            *)
FramedThenClosed ==
  [][pc # "closed" /\ pc' = "closed" /\ handle_pos' # last_finish'
       => \/ pc = "handle" /\ delivered' # delivered
          \/ pc = "returned" /\ pass = 2 /\ rtn = "close"]_vars

\* The messages that arrived in full; only the last one sent may be under way.
Received == IF wire = 0 THEN sent ELSE SubSeq(sent, 1, Len(sent) - 1)

Stream == INSTANCE MsgStream WITH sent <- Received, closed <- pc = "closed"

(* on_recv gets the messages that arrived in full, each once, in order, with *)
(* its length, and nothing after the close. What a close leaves undelivered  *)
(* is FramedThenClosed's.                                                    *)
StreamSpec == Stream!Spec

(* A message that arrived in full is delivered, unless the connection       *)
(* closes, its reads stall at the end of the buffer, or one wrote beyond it. *)
ArrivedInFull(k) ==
  /\ k <= Len(sent)
  /\ base + recv_pos + kernel >= sent[k].at + sent[k].bytes

MessageServed ==
  \A k \in 1 .. MaxSent :
    ArrivedInFull(k) ~> Len(delivered) >= k \/ pc \in {"closed", "overrun"} \/ Stalled

(* A peer that ended its stream is noticed at the latest by the timer,      *)
(* which ws_net_read_cycle arms and only further input arms again.          *)
EndNoticed == WF_vars(Timeout) => (fin ~> pc \in {"closed", "overrun"})
=============================================================================
