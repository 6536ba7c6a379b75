----------------------------- MODULE MsgStream ------------------------------
(***************************************************************************)
(* What the receive path of a connection promises the application: the     *)
(* messages the peer sent are handed to on_recv one by one, each once, in  *)
(* order and with its own length, until the connection closes.             *)
(***************************************************************************)
EXTENDS Naturals, Sequences

CONSTANT Messages    \* every message a peer can send

VARIABLES
  sent,         \* the messages the peer sent, in order
  delivered,    \* the messages on_recv was called with, in order
  closed        \* on_closed was called

vars == <<sent, delivered, closed>>

Init == sent = <<>> /\ delivered = <<>> /\ closed = FALSE

Send ==
  /\ \E m \in Messages : sent' = Append(sent, m)
  /\ UNCHANGED <<delivered, closed>>

Deliver ==
  /\ ~closed /\ Len(delivered) < Len(sent)
  /\ delivered' = Append(delivered, sent[Len(delivered) + 1])
  /\ UNCHANGED <<sent, closed>>

Close ==
  /\ ~closed /\ closed' = TRUE
  /\ UNCHANGED <<sent, delivered>>

\* on_recv itself may end the connection: its reply could not be sent.
DeliverLast ==
  /\ ~closed /\ Len(delivered) < Len(sent)
  /\ delivered' = Append(delivered, sent[Len(delivered) + 1])
  /\ closed' = TRUE
  /\ UNCHANGED sent

Next == Send \/ Deliver \/ Close \/ DeliverLast

Spec == Init /\ [][Next]_vars
=============================================================================
