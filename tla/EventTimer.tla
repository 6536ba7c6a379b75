------------------------------ MODULE EventTimer ------------------------------
(***************************************************************************)
(* The idle timeout of the connections (src/src/event/ws_event_timer.c     *)
(* over the cached time of src/src/tools/ws_time.c): when a connection is  *)
(* closed, compared with when it was last heard of.  Accepting a connection *)
(* counts: it is read at once, and the read arms the timer.                *)
(*                                                                         *)
(* A key is the deadline in milliseconds times K plus a counter.  A read   *)
(* moves the deadline only when it would move by Lazy or more.  The time   *)
(* is cached: handlers of one batch see the time of the last update.  The  *)
(* system clock may be set back.  The counter, which should make the keys  *)
(* of one millisecond differ, starts again at an update of the time as     *)
(* long as ws_last_static_msec is not negative: that variable has 32 bits, *)
(* and once the milliseconds since 1970 fall into the half where its sign  *)
(* bit is set the counter never starts again.  The tree the keys are kept  *)
(* in is RBTree, here the set of armed connections.                        *)
(***************************************************************************)
EXTENDS Integers

CONSTANTS
    Conns,
    K,              \* keys per millisecond, 10000
    Lazy,           \* YMZ_EVENT_TIMER_LAZY_DIFF
    Life,           \* c->life_time, in milliseconds
    Half,           \* 2^31, half the range of ws_last_static_msec
    MaxTimes,       \* bound of the counter, 2^31 - 1 in the code
    MaxClock        \* bound of the clock

ASSUME KeyAssumption == K \in Nat /\ Lazy \in Nat \ {0}
ASSUME LifeAssumption == Life \in Nat
ASSUME HalfAssumption == Half \in Nat \ {0}
ASSUME BoundAssumption == MaxTimes \in Nat /\ MaxClock \in Nat

VARIABLES
    pc,         \* where the loop is: "top", "wait", "events", "expire"
    clock,      \* the system clock
    cur,        \* ws_current_msec
    times,      \* ws_current_times
    sign,       \* of ws_last_static_msec: "plus" or "minus"
    open,       \* the accepted connections
    armed,      \* those with rev->timer_set
    key,        \* rev->timer.key.v
    last,       \* the cached time when the connection was last read
    burst       \* history: the most timers set between two restarts of the counter

vars == <<pc, clock, cur, times, sign, open, armed, key, last, burst>>

TypeOK ==
    /\ pc \in {"top", "wait", "events", "expire"}
    /\ clock \in Nat
    /\ cur \in Nat
    /\ times \in Nat
    /\ sign \in {"plus", "minus"}
    /\ open \subseteq Conns
    /\ armed \subseteq open
    /\ key \in [Conns -> Int]
    /\ last \in [Conns -> Nat]
    /\ burst \in Nat

Init ==
    /\ pc = "top"
    /\ clock = 0 /\ cur = 0 /\ times = 0 /\ sign = "plus" /\ burst = 0
    /\ open = {} /\ armed = {}
    /\ key = [c \in Conns |-> 0]
    /\ last = [c \in Conns |-> 0]

Abs(x) == IF x < 0 THEN -x ELSE x

-----------------------------------------------------------------------------
\* The system clock moves, or is set, up to MaxClock.
Clock ==
    /\ clock' \in 0..MaxClock
    /\ UNCHANGED <<pc, cur, times, sign, open, armed, key, last, burst>>

\* ws_time_update.  Of ws_last_static_msec only the sign matters: the present
\* milliseconds are always above a value of 31 bits and always below a negative
\* one, which the comparison takes for an unsigned number of 64 bits.
TimeUpdate ==
    /\ cur' = clock
    /\ \/ sign = "minus" /\ UNCHANGED <<times, sign>>
       \/ /\ sign = "plus" /\ times' = 0
          /\ sign' = IF clock % (2 * Half) >= Half THEN "minus" ELSE "plus"

Cycle ==
    /\ pc = "top"
    /\ pc' = "wait"
    /\ TimeUpdate
    /\ UNCHANGED <<clock, open, armed, key, last, burst>>

\* epoll_wait returns with events or without; with any the time is updated.
Wait ==
    /\ pc = "wait"
    /\ \/ pc' = "expire" /\ UNCHANGED <<cur, times, sign>>
       \/ pc' = "events" /\ TimeUpdate
    /\ UNCHANGED <<clock, open, armed, key, last, burst>>

\* The deadline a read asks for: ws_time_times_get(_static).
Deadline(counter) == (cur + Life) * K + counter

\* A timer that is never moved once it is set.
SkipsAlways(c) == c \in armed

\* Whether the timer stays where it is.
Skips(c) == c \in armed /\ Abs(Deadline(times) - key[c]) < Lazy

\* The counter after a timer is set: ws_time_times_get adds one.
Counted ==
    /\ times < MaxTimes
    /\ times' = times + 1
    /\ burst' = IF sign = "plus" /\ burst < times + 1 THEN times + 1 ELSE burst

\* ws_event_timer_add.
TimerAdd(c) ==
    \/ Skips(c) /\ UNCHANGED <<armed, key, times, burst>>
    \/ /\ ~Skips(c) /\ Counted
       /\ key' = [key EXCEPT ![c] = Deadline(times + 1)]
       /\ armed' = armed \union {c}

\* ws_net_read_cycle: the timer first, then the read itself.
Read(c) ==
    /\ pc = "events"
    /\ c \in open
    /\ TimerAdd(c)
    /\ last' = [last EXCEPT ![c] = cur]
    /\ UNCHANGED <<pc, clock, cur, sign, open>>

\* One round of the loop of ws_event_accept: the new connection is read at
\* once (ws_net_handle2), which arms its timer.  An event runs as many rounds
\* as clients wait.
Accept(c) ==
    /\ pc = "events"
    /\ c \notin open
    /\ open' = open \union {c}
    /\ TimerAdd(c)
    /\ last' = [last EXCEPT ![c] = cur]
    /\ UNCHANGED <<pc, clock, cur, sign>>

\* The first read of a new connection already finds its end: the timer was set,
\* and is deleted again.
AcceptEnded ==
    /\ pc = "events"
    /\ open # Conns
    /\ Counted
    /\ UNCHANGED <<pc, clock, cur, sign, open, armed, key, last>>

\* An open connection is closed: by an error event or a failed send, or by a
\* read that ends, which had its timer moved first.
Close(c) ==
    /\ pc = "events"
    /\ c \in open
    /\ open' = open \ {c}
    /\ armed' = armed \ {c}
    /\ \/ UNCHANGED <<times, burst>>
       \/ ~Skips(c) /\ Counted
    /\ UNCHANGED <<pc, clock, cur, sign, key, last>>

EndEvents ==
    /\ pc = "events"
    /\ pc' = "expire"
    /\ UNCHANGED <<clock, cur, times, sign, open, armed, key, last, burst>>

\* The connections whose deadline has come, by the cached time.
Due == {c \in armed : key[c] <= cur * K}

\* ws_event_timer_expire closes the one with the smallest key, if it is due.
Expire(c) ==
    /\ pc = "expire"
    /\ c \in Due
    /\ \A d \in armed : key[c] <= key[d]
    /\ armed' = armed \ {c}
    /\ open' = open \ {c}
    /\ UNCHANGED <<pc, clock, cur, times, sign, key, last, burst>>

\* A pass that may end after any node.
EndExpireEarly ==
    /\ pc = "expire"
    /\ pc' = "top"
    /\ UNCHANGED <<clock, cur, times, sign, open, armed, key, last, burst>>

EndExpire ==
    /\ pc = "expire"
    /\ Due = {}
    /\ pc' = "top"
    /\ UNCHANGED <<clock, cur, times, sign, open, armed, key, last, burst>>

Next ==
    \/ Clock \/ Cycle \/ Wait \/ AcceptEnded \/ EndEvents \/ EndExpire
    \/ \E c \in Conns : Read(c) \/ Accept(c) \/ Close(c) \/ Expire(c)

Spec == Init /\ [][Next]_vars

-----------------------------------------------------------------------------
(* Properties.                                                             *)

\* What the counter adds to a deadline at most: the most timers ever set
\* between two updates of the time, and all those set since the counter has
\* stopped starting again.
Slack == IF sign = "minus" THEN burst + times ELSE burst

\* The key of every connection stays within Lazy of the deadline its last read
\* asked for, plus the counter: skipped moves (ws_event_timer.c:37) do not add
\* up, whichever way the clock was set.
Window ==
    \A c \in open :
        /\ (last[c] + Life) * K - Lazy < key[c]
        /\ key[c] < (last[c] + Life) * K + Lazy + Slack

\* The invariant the proofs rest on.  No connection is without a timer, not
\* even one that has never sent anything (ws_event_accept.c:94).
IInv ==
    /\ TypeOK
    /\ armed = open
    /\ Window
    /\ sign = "plus" => times <= burst
    /\ pc = "top" => Due = {}

\* A connection is never closed for silence before its life time, less the lazy
\* margin, has passed since its last read by the cached time
\* (ws_event_timer.c:86-92).
NotEarly ==
    [][\A c \in Conns : pc = "expire" /\ c \in open \ open'
         => cur * K > (last[c] + Life) * K - Lazy]_vars

\* When the loop starts again, no open connection, be it one that connected and
\* never sent, has been silent for longer than its life time plus the margins:
\* one pass closes all that are due (ws_event_timer.c:78-98).  The margin is the
\* counter's: as many keys as timers were ever set between two updates of the
\* time, by reads and by any number of accepts in one event; once
\* ws_last_static_msec has turned negative (ws_time.c:137-140), as many more as
\* timers were set since.
InTime ==
    pc = "top" =>
        \A c \in open : cur * K < (last[c] + Life) * K + Lazy + Slack

=============================================================================
