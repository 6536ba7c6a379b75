--------------------------------- MODULE LogProofs ---------------------------------
(***************************************************************************)
(* Proofs about Log for any number of threads, logs and descriptors, any    *)
(* limits and any sizes of the entries.                                     *)
(***************************************************************************)
EXTENDS Log, TLAPS

(* What a thread may be in: an entry being written, its count being added,  *)
(* or a turn.                                                               *)
Entered == [pc: {"args"}, log: Logs, entry: Nat, len: Nat,
            got: SUBSET {"fd", "pos"}, fd: Nat, pos: Nat, alone: BOOLEAN]
Counting == [pc: {"load", "store"}, log: Logs, entry: Nat, len: Nat,
             pos: Nat, alone: BOOLEAN]
Turned == [pc: TurnSteps, log: Logs, entry: Nat, new: Nat,
           todo: Seq(Logs), alone: BOOLEAN]

TypeOK ==
    /\ fd \in [Logs -> Nat]
    /\ size \in [Logs -> Nat]
    /\ calls \in Nat /\ apart \in BOOLEAN
    /\ call \in [Threads -> {Idle} \union Entered \union Counting \union Turned]
    /\ table = [d \in Fds |-> table[d]]

(* A log's descriptor is its own: open on a file of the log.                *)
OpenFor(d, l) == d \in Fds /\ table[d].on = "file" /\ table[d].file[1] = l

LogsOpen ==
    \A l \in Logs : \/ fd[l] = 0
                    \/ \E t \in Threads : call[t].pc = "set" /\ call[t].log = l
                    \/ OpenFor(fd[l], l)

FilesKnown ==
    \A d \in Fds : table[d].on = "file" =>
        \/ \E l \in Logs : fd[l] = d
        \/ \E t \in Threads : call[t].pc \in {"close", "set"} /\ call[t].new = d
        \/ d \in forgotten

(* What a turn has reached.                                                 *)
TurnHolds(t) ==
    /\ call[t].pc = "open" => path[1] = call[t].log
    /\ call[t].pc \in {"close", "set"} =>
          OpenFor(call[t].new, call[t].log) /\ \A l \in Logs : fd[l] # call[t].new
    /\ call[t].pc = "set" =>
          \/ fd[call[t].log] = 0
          \/ fd[call[t].log] \in Fds /\ table[fd[call[t].log]].on # "file"

(* What holds as long as no two turns overlap.                              *)
OneTurn ==
    apart => /\ \A t, u \in Turning : t = u
             /\ LogsOpen
             /\ FilesKnown
             /\ \A t \in Threads : TurnHolds(t)

LEMMA EnteredIs ==
  ASSUME NEW l \in Logs, NEW e \in Nat, NEW n \in Nat, NEW alone \in BOOLEAN
  PROVE  [pc |-> "args", log |-> l, entry |-> e, len |-> n, got |-> {}, fd |-> 0,
          pos |-> 0, alone |-> alone] \in Entered
BY DEF Entered

-----------------------------------------------------------------------------
(* Facts about the constants.                                               *)

LEMMA OrderFacts ==
  /\ Order \in Seq(Logs) /\ Len(Order) \in Nat \ {0} /\ DOMAIN Order = 1 .. Len(Order)
  /\ Head(Order) \in Logs /\ Tail(Order) \in Seq(Logs)
  /\ \A i \in 1 .. Len(Order) : Order[i] \in Logs
  /\ \A i, j \in 1 .. Len(Order) : Order[i] = Order[j] => i = j
  /\ LimitSize \in Nat
<1>1. Order \in Seq(Logs) /\ Len(Order) > 0 /\ LimitSize \in Nat
      /\ \A i, j \in DOMAIN Order : Order[i] = Order[j] => i = j
  BY LogAssumption
<1>2. Len(Order) \in Nat \ {0} /\ DOMAIN Order = 1 .. Len(Order) /\ Order # <<>>
  BY <1>1
<1>3. Head(Order) \in Logs /\ Tail(Order) \in Seq(Logs)
  BY <1>1, <1>2
<1>4. \A i \in 1 .. Len(Order) : Order[i] \in Logs
  BY <1>1
<1> QED BY <1>1, <1>2, <1>3, <1>4

(* The place of a log in the order.                                         *)
LEMMA PlaceFacts ==
  ASSUME NEW l \in Logs
  PROVE  /\ (CHOOSE i \in DOMAIN Order : Order[i] = l) \in 1 .. Len(Order)
         /\ Order[CHOOSE i \in DOMAIN Order : Order[i] = l] = l
<1>1. \E i \in DOMAIN Order : Order[i] = l
  BY DEF Logs
<1> QED BY <1>1, OrderFacts

LEMMA TurnOfType ==
  ASSUME NEW l \in Logs, NEW e \in Nat, NEW todo \in Seq(Logs)
  PROVE  TurnOf(l, e, todo) \in Turned /\ TurnOf(l, e, todo).pc = "name"
         /\ TurnOf(l, e, todo).log = l
BY DEF TurnOf, Turned, TurnSteps

-----------------------------------------------------------------------------
(* What a thread's step leaves of the other threads.                        *)

Calls == {Idle} \union Entered \union Counting \union Turned

(* Nothing of u's turn changes, if u is in one.                             *)
SameTurn(u) ==
    /\ call'[u].pc \in TurnSteps <=> call[u].pc \in TurnSteps
    /\ call[u].pc \in TurnSteps =>
          call'[u].pc = call[u].pc /\ call'[u].log = call[u].log /\ call'[u].new = call[u].new

LEMMA BeginsEffect ==
  ASSUME TypeOK, NEW t \in Threads, NEW c \in Calls, Begins(t, c)
  PROVE  /\ call' \in [Threads -> Calls] /\ calls' \in Nat
         /\ call[t].pc = "idle" /\ call'[t] = c
         /\ \A u \in Threads \ {t} : SameTurn(u)
<1>1. /\ call[t].pc = "idle" /\ calls' \in Nat
      /\ call' = [u \in Threads |-> IF u = t THEN c
                                    ELSE IF u \in Working THEN [call[u] EXCEPT !.alone = FALSE]
                                    ELSE call[u]]
  BY DEF Begins, TypeOK
<1>2. ASSUME NEW u \in Threads, u \in Working
      PROVE  /\ [call[u] EXCEPT !.alone = FALSE] \in Calls
             /\ [call[u] EXCEPT !.alone = FALSE].pc = call[u].pc
             /\ call[u].pc \in TurnSteps =>
                  /\ [call[u] EXCEPT !.alone = FALSE].log = call[u].log
                  /\ [call[u] EXCEPT !.alone = FALSE].new = call[u].new
  <2>1. call[u] \in Entered \union Counting \union Turned
    BY <1>2 DEF TypeOK, Working, Idle
  <2>2. CASE call[u] \in Entered
    BY <2>2 DEF Entered, Calls, TurnSteps
  <2>3. CASE call[u] \in Counting
    BY <2>3 DEF Counting, Calls, TurnSteps
  <2>4. CASE call[u] \in Turned
    BY <2>4 DEF Turned, Calls
  <2> QED BY <2>1, <2>2, <2>3, <2>4
<1>3. call' \in [Threads -> Calls]
  BY <1>1, <1>2 DEF TypeOK, Calls
<1>4. \A u \in Threads \ {t} : SameTurn(u)
  BY <1>1, <1>2 DEF SameTurn
<1> QED BY <1>1, <1>3, <1>4

(* A thread that changes its own call only.                                 *)
LEMMA OthersStay ==
  ASSUME TypeOK, NEW t \in Threads, NEW c, call' = [call EXCEPT ![t] = c]
  PROVE  call'[t] = c /\ \A u \in Threads \ {t} : call'[u] = call[u] /\ SameTurn(u)
BY DEF TypeOK, SameTurn

(* What each step of an entry and of a turn makes of the call.              *)
LEMMA CallKinds ==
  ASSUME TypeOK, NEW t \in Threads
  PROVE  /\ call[t].pc = "args" => call[t] \in Entered
         /\ call[t].pc \in {"load", "store"} => call[t] \in Counting
         /\ call[t].pc \in TurnSteps => call[t] \in Turned
BY DEF TypeOK, Idle, Entered, Counting, Turned, TurnSteps

LEMMA EntryCalls ==
  ASSUME TypeOK, NEW t \in Threads,
         \/ \E l \in Logs, n \in EntrySizes : Log(t, l, n)
         \/ \E arg \in {"fd", "pos"} : ReadArg(t, arg)
         \/ Write(t) \/ Load(t)
  PROVE  /\ call' \in [Threads -> Calls] /\ calls' \in Nat
         /\ \A u \in Threads : SameTurn(u)
         /\ UNCHANGED <<fd, size, path, table, stuck, apart, forgotten>>
<1>0. UNCHANGED <<fd, size, path, table, stuck, apart, forgotten>>
  BY DEF Log, ReadArg, Write, Load, shared, kernel, history
<1>1. ASSUME NEW l \in Logs, NEW n \in EntrySizes, Log(t, l, n)
      PROVE  /\ call' \in [Threads -> Calls] /\ calls' \in Nat
             /\ \A u \in Threads : SameTurn(u)
  <2> DEFINE c == [pc |-> "args", log |-> l, entry |-> calls + 1, len |-> n,
                   got |-> {}, fd |-> 0, pos |-> 0, alone |-> Working = {}]
  <2>1. c \in Entered /\ c.pc = "args"
    <3>1. calls + 1 \in Nat /\ n \in Nat /\ (Working = {}) \in BOOLEAN
      <4>1. calls + 1 \in Nat
        BY DEF TypeOK
      <4>2. n \in Nat
        BY LogAssumption
      <4> QED BY <4>1, <4>2
    <3> QED BY <3>1, EnteredIs
  <2>2. Begins(t, c)
    BY <1>1 DEF Log
  <2> HIDE DEF c
  <2>3. /\ call' \in [Threads -> Calls] /\ calls' \in Nat
        /\ call[t].pc = "idle" /\ call'[t] = c
        /\ \A u \in Threads \ {t} : SameTurn(u)
    BY <2>1, <2>2, BeginsEffect DEF Calls
  <2>4. SameTurn(t)
    BY <2>1, <2>3 DEF SameTurn, TurnSteps
  <2> QED BY <2>3, <2>4
<1>2. ASSUME NEW arg \in {"fd", "pos"}, ReadArg(t, arg)
      PROVE  /\ call' \in [Threads -> Calls] /\ calls' \in Nat
             /\ \A u \in Threads : SameTurn(u)
  <2> DEFINE c == [call[t] EXCEPT !.got = @ \union {arg},
                                  !.fd = IF arg = "fd" THEN fd[call[t].log] ELSE @,
                                  !.pos = IF arg = "pos" THEN size[call[t].log] ELSE @]
  <2>1. call[t] \in Entered /\ calls' \in Nat
    BY <1>2, CallKinds DEF ReadArg, TypeOK
  <2>2. call' = [call EXCEPT ![t] = c]
    BY <1>2, <2>1 DEF ReadArg, TypeOK, Entered
  <2>3. fd[call[t].log] \in Nat /\ size[call[t].log] \in Nat
    BY <2>1 DEF TypeOK, Entered
  <2>4. c \in Entered /\ c.pc = "args" /\ call[t].pc = "args"
    BY <2>1, <2>3 DEF Entered
  <2> HIDE DEF c
  <2>5. call'[t] = c /\ \A u \in Threads \ {t} : SameTurn(u)
    BY <2>2, OthersStay
  <2>6. SameTurn(t)
    BY <2>4, <2>5 DEF SameTurn, TurnSteps
  <2>7. call' \in [Threads -> Calls]
    BY <2>2, <2>4 DEF TypeOK, Calls
  <2> QED BY <2>1, <2>5, <2>6, <2>7
<1>3. CASE Write(t)
  <2> DEFINE c == [pc |-> "load", log |-> call[t].log, entry |-> call[t].entry,
                   len |-> call[t].len, pos |-> 0, alone |-> FALSE]
  <2>1. call[t] \in Entered /\ calls' \in Nat
    BY <1>3, CallKinds DEF Write, TypeOK
  <2>2. call' = [call EXCEPT ![t] = c]
    BY <1>3, <2>1 DEF Write, TypeOK
  <2>3. c \in Counting /\ c.pc = "load" /\ call[t].pc = "args"
    BY <2>1 DEF Entered, Counting
  <2> HIDE DEF c
  <2>4. call'[t] = c /\ \A u \in Threads \ {t} : SameTurn(u)
    BY <2>2, OthersStay
  <2>5. SameTurn(t)
    BY <2>3, <2>4 DEF SameTurn, TurnSteps
  <2>6. call' \in [Threads -> Calls]
    BY <2>2, <2>3 DEF TypeOK, Calls
  <2> QED BY <1>0, <2>1, <2>4, <2>5, <2>6
<1>4. CASE Load(t)
  <2> DEFINE c == [call[t] EXCEPT !.pc = "store", !.pos = size[call[t].log]]
  <2>1. call[t] \in Counting /\ calls' \in Nat
    BY <1>4, CallKinds DEF Load, TypeOK
  <2>2. call' = [call EXCEPT ![t] = c]
    BY <1>4, <2>1 DEF Load, TypeOK, Counting
  <2>3. size[call[t].log] \in Nat
    BY <2>1 DEF TypeOK, Counting
  <2>4. c \in Counting /\ c.pc = "store" /\ call[t].pc \in {"load", "store"}
    BY <2>1, <2>3 DEF Counting
  <2> HIDE DEF c
  <2>5. call'[t] = c /\ \A u \in Threads \ {t} : SameTurn(u)
    BY <2>2, OthersStay
  <2>6. SameTurn(t)
    BY <2>4, <2>5 DEF SameTurn, TurnSteps
  <2>7. call' \in [Threads -> Calls]
    BY <2>2, <2>4 DEF TypeOK, Calls
  <2> QED BY <1>0, <2>1, <2>5, <2>6, <2>7
<1> QED BY <1>0, <1>1, <1>2, <1>3, <1>4

LEMMA StoreCalls ==
  ASSUME TypeOK, NEW t \in Threads, Store(t)
  PROVE  /\ TypeOK'
         /\ call[t].pc = "store" /\ call[t].log \in Logs
         /\ \A u \in Threads \ {t} : SameTurn(u)
         /\ \A l \in Logs \ {call[t].log} : size'[l] = size[l]
         /\ \/ /\ size'[call[t].log] <= LimitSize /\ call'[t].pc = "idle" /\ apart' = apart
            \/ /\ call'[t].pc = "name" /\ call'[t].log = call[t].log
               /\ apart' = (apart /\ Turning = {})
         /\ UNCHANGED <<fd, path, table, stuck, forgotten>>
<1> DEFINE sum == call[t].pos + call[t].len
           c == IF sum > LimitSize THEN TurnOf(call[t].log, call[t].entry, <<>>) ELSE Idle
<1>1. call[t] \in Counting /\ call[t].pc = "store" /\ call[t].log \in Logs
      /\ call[t].entry \in Nat /\ sum \in Nat
  BY CallKinds DEF Store, Counting
<1>2. /\ size' = [size EXCEPT ![call[t].log] = sum]
      /\ call' = [call EXCEPT ![t] = c]
      /\ apart' = (apart /\ (sum > LimitSize => Turning = {}))
      /\ UNCHANGED <<fd, path, table, calls, stuck, forgotten>>
  BY DEF Store, kernel
<1>3. TurnOf(call[t].log, call[t].entry, <<>>) \in Turned
      /\ TurnOf(call[t].log, call[t].entry, <<>>).pc = "name"
      /\ TurnOf(call[t].log, call[t].entry, <<>>).log = call[t].log
  <2>1. <<>> \in Seq(Logs)
    OBVIOUS
  <2> QED
    BY <1>1, <2>1, TurnOfType
<1>4. c \in Calls
  BY <1>3 DEF Calls
<1>5. /\ sum > LimitSize => c.pc = "name" /\ c.log = call[t].log
      /\ ~(sum > LimitSize) => c.pc = "idle" /\ sum <= LimitSize
  BY <1>1, <1>3, OrderFacts DEF Idle
<1> HIDE DEF c, sum
<1>6. call'[t] = c /\ \A u \in Threads \ {t} : SameTurn(u)
  BY <1>2, OthersStay
<1>7. size'[call[t].log] = sum /\ \A l \in Logs \ {call[t].log} : size'[l] = size[l]
  BY <1>1, <1>2 DEF TypeOK
<1>8. TypeOK'
  <2>1. apart' \in BOOLEAN /\ calls' \in Nat /\ fd' \in [Logs -> Nat] /\ table' = [d \in Fds |-> table'[d]]
    BY <1>2 DEF TypeOK
  <2>2. size' \in [Logs -> Nat] /\ call' \in [Threads -> Calls]
    BY <1>1, <1>2, <1>4 DEF TypeOK, Calls
  <2> QED
    BY <2>1, <2>2 DEF TypeOK, Calls
<1>9. CASE sum > LimitSize
  BY <1>1, <1>2, <1>5, <1>6, <1>7, <1>8, <1>9
<1>10. CASE ~(sum > LimitSize)
  <2>1. apart' = apart
    BY <1>2, <1>10 DEF TypeOK
  <2>2. size'[call[t].log] <= LimitSize /\ call'[t].pc = "idle"
    BY <1>5, <1>6, <1>7, <1>10
  <2> QED
    BY <1>1, <1>2, <1>6, <1>7, <1>8, <2>1, <2>2
<1> QED BY <1>9, <1>10

(* The steps of a turn, in one place: the thread keeps its log until the    *)
(* turn is over.                                                            *)
LEMMA TurnCalls ==
  ASSUME TypeOK, NEW t \in Threads, Turn(t)
  PROVE  /\ TypeOK'
         /\ call[t] \in Turned
         /\ \A u \in Threads \ {t} : SameTurn(u)
<1>1. call[t] \in Turned /\ call[t].pc \in TurnSteps
  BY CallKinds DEF Turn, Name, Open, OpenFails, Close, Set, Reset, TurnSteps
<1>2. CASE Name(t) \/ Close(t) \/ Set(t)
  <2>1. PICK p \in TurnSteps : call' = [call EXCEPT ![t].pc = p]
    BY <1>2 DEF Name, Close, Set, TurnSteps
  <2> DEFINE c == [call[t] EXCEPT !.pc = p]
  <2>2. call' = [call EXCEPT ![t] = c]
    BY <1>1, <2>1 DEF TypeOK, Turned
  <2>3. c \in Turned
    BY <1>1 DEF Turned
  <2> HIDE DEF c
  <2>4. call' \in [Threads -> Calls]
    BY <2>2, <2>3 DEF TypeOK, Calls
  <2>5. UNCHANGED <<size, calls, apart>>
    BY <1>2 DEF Name, Close, Set, shared, history
  <2>6. fd' \in [Logs -> Nat]
    BY <1>1, <1>2 DEF Name, Close, Set, shared, Turned, TypeOK
  <2>7. table' = [d \in Fds |-> table'[d]]
    BY <1>2 DEF Name, Close, Set, kernel, TypeOK
  <2> QED
    BY <1>1, <2>2, <2>4, <2>5, <2>6, <2>7, OthersStay DEF TypeOK, Calls
<1>3. CASE Open(t)
  <2>1. PICK d \in Lowest : /\ table' = [table EXCEPT ![d] = FileOf(path, FALSE)]
                            /\ call' = [call EXCEPT ![t].pc = "close", ![t].new = d]
    BY <1>3 DEF Open
  <2> DEFINE c == [call[t] EXCEPT !.pc = "close", !.new = d]
  <2>2. d \in Fds /\ d \in Nat
    BY DEF Lowest, Fds
  <2>3. call' = [call EXCEPT ![t] = c]
    BY <1>1, <2>1 DEF TypeOK, Turned
  <2>4. c \in Turned
    BY <1>1, <2>2 DEF Turned, TurnSteps
  <2> HIDE DEF c
  <2>5. call' \in [Threads -> Calls]
    BY <2>3, <2>4 DEF TypeOK, Calls
  <2>6. table' = [e \in Fds |-> table'[e]]
    BY <2>1 DEF TypeOK
  <2>7. UNCHANGED <<fd, size, calls, apart>>
    BY <1>3 DEF Open, shared
  <2> QED
    BY <1>1, <2>3, <2>5, <2>6, <2>7, OthersStay DEF TypeOK, Calls
<1>4. CASE OpenFails(t)
  <2>1. call' = [call EXCEPT ![t] = Idle] /\ UNCHANGED <<fd, size, calls, table, apart>>
    BY <1>4 DEF OpenFails, shared, kernel
  <2> QED
    BY <1>1, <2>1, OthersStay DEF TypeOK
<1>5. CASE Reset(t)
  <2> DEFINE c == IF call[t].todo = <<>> THEN Idle
                  ELSE TurnOf(Head(call[t].todo), 0, Tail(call[t].todo))
  <2>1. call' = [call EXCEPT ![t] = c] /\ size' = [size EXCEPT ![call[t].log] = 0]
        /\ UNCHANGED <<fd, calls, table, apart>>
    BY <1>5 DEF Reset, kernel, history
  <2>2. c \in Calls
    <3>1. CASE call[t].todo = <<>>
      BY <3>1 DEF Calls
    <3>2. CASE call[t].todo # <<>>
      <4>1. call[t].todo \in Seq(Logs)
        BY <1>1 DEF Turned
      <4>2. Head(call[t].todo) \in Logs /\ Tail(call[t].todo) \in Seq(Logs)
        BY <3>2, <4>1
      <4> QED
        BY <3>2, <4>2, TurnOfType DEF Calls
    <3> QED BY <3>1, <3>2
  <2> HIDE DEF c
  <2>3. call' \in [Threads -> Calls] /\ size' \in [Logs -> Nat]
    BY <1>1, <2>1, <2>2 DEF TypeOK, Calls, Turned
  <2> QED
    BY <1>1, <2>1, <2>3, OthersStay DEF TypeOK, Calls
<1> QED
  BY <1>2, <1>3, <1>4, <1>5 DEF Turn

LEMMA SetPathCalls ==
  ASSUME TypeOK, NEW t \in Threads, SetPath(t)
  PROVE  /\ TypeOK'
         /\ call[t].pc = "idle" /\ call'[t].pc = "name"
         /\ \A u \in Threads \ {t} : SameTurn(u)
         /\ apart' = (apart /\ Turning = {})
         /\ UNCHANGED <<fd, size, path, table, stuck, forgotten>>
<1> DEFINE c == TurnOf(Head(Order), 0, Tail(Order))
<1>1. c \in Turned /\ c.pc = "name"
  <2>1. Head(Order) \in Logs /\ Tail(Order) \in Seq(Logs) /\ 0 \in Nat
    BY OrderFacts
  <2> QED
    BY <2>1, TurnOfType
<1>2. Begins(t, c) /\ apart' = (apart /\ Turning = {})
      /\ UNCHANGED <<fd, size, path, table, stuck, forgotten>>
  BY DEF SetPath, shared, kernel
<1> HIDE DEF c
<1>3. /\ call' \in [Threads -> Calls] /\ calls' \in Nat
      /\ call[t].pc = "idle" /\ call'[t] = c
      /\ \A u \in Threads \ {t} : SameTurn(u)
  BY <1>1, <1>2, BeginsEffect DEF Calls
<1> QED
  BY <1>1, <1>2, <1>3 DEF TypeOK, Calls

(* The calls made while nobody logs.                                        *)
LEMMA QuietCalls ==
  ASSUME TypeOK, (\E l \in Logs : SetFile(l)) \/ SetPrintf \/ LogClose
  PROVE  /\ TypeOK' /\ call' = call /\ Turning = {} /\ Turning' = {}
         /\ \A t \in Threads : call[t].pc = "idle"
<1>1. call' = call /\ Working = {} /\ calls' \in Nat /\ apart' \in BOOLEAN
  <2>1. Quiet /\ call' = call /\ apart' = apart
    BY DEF SetFile, SetPrintf, LogClose, history
  <2> QED
    BY <2>1 DEF Quiet, TypeOK
<1>2. \A t \in Threads : call[t].pc = "idle"
  BY <1>1 DEF Working
<1>3. Turning = {} /\ Turning' = {}
  BY <1>1, <1>2 DEF Turning, TurnSteps
<1>4. TypeOK'
  <2>1. ASSUME NEW l \in Logs, SetFile(l) PROVE TypeOK'
    <3>1. PICK d \in Lowest : /\ table' = [e \in Fds |-> IF e = d THEN FileOf(SetName(l), TRUE)
                                                 ELSE IF e = fd[l] THEN Closed ELSE table[e]]
                              /\ fd' = [fd EXCEPT ![l] = d]
      BY <2>1 DEF SetFile
    <3>2. d \in Nat /\ size' = size
      BY <2>1 DEF SetFile, Lowest, Fds
    <3>3. table' = [e \in Fds |-> table'[e]]
      BY <3>1
    <3> QED
      BY <1>1, <3>1, <3>2, <3>3 DEF TypeOK
  <2>2. CASE SetPrintf
    BY <1>1, <2>2 DEF SetPrintf, kernel, TypeOK
  <2>3. CASE LogClose
    <3>1. table' = [e \in Fds |-> table'[e]]
      BY <2>3 DEF LogClose
    <3> QED
      BY <1>1, <2>3, <3>1 DEF LogClose, TypeOK
  <2> QED BY <2>1, <2>2, <2>3
<1> QED BY <1>1, <1>2, <1>3, <1>4

-----------------------------------------------------------------------------
(* A log over its limit is being turned.                                    *)

\* TypeOK and OverIsTurned need nothing else.
OverInv == TypeOK /\ OverIsTurned

(* A step that leaves a log's size and the turns of its threads alone, or   *)
(* brings one into a turn of it.                                            *)
LEMMA StillTurned ==
  ASSUME OverInv, NEW l \in Logs, size'[l] = size[l], l \in stuck => l \in stuck',
         \A u \in Threads : call[u].pc \in TurnSteps /\ call[u].log = l
                            => call'[u].pc \in TurnSteps /\ call'[u].log = l,
         size'[l] > LimitSize
  PROVE  l \in stuck' \/ \E u \in Turning' : call'[u].log = l
BY DEF OverInv, OverIsTurned, Turning

LEMMA OverStep ==
  ASSUME OverInv, [Next]_vars
  PROVE  OverInv'
<1> USE DEF OverInv
<1>1. ASSUME NEW t \in Threads, Entry(t) PROVE OverInv'
  <2>1. CASE Store(t)
    <3>1. /\ TypeOK'
          /\ call[t].pc = "store" /\ call[t].log \in Logs
          /\ \A u \in Threads \ {t} : SameTurn(u)
          /\ \A l \in Logs \ {call[t].log} : size'[l] = size[l]
          /\ \/ size'[call[t].log] <= LimitSize
             \/ call'[t].pc = "name" /\ call'[t].log = call[t].log
          /\ stuck' = stuck
      BY <2>1, StoreCalls
    <3>2. ASSUME NEW l \in Logs, size'[l] > LimitSize
          PROVE  l \in stuck' \/ \E u \in Turning' : call'[u].log = l
      <4>1. CASE l = call[t].log
        <5>1. size'[l] \in Nat /\ LimitSize \in Nat
          BY <3>1, OrderFacts DEF TypeOK
        <5>2. call'[t].pc = "name" /\ call'[t].log = l
          BY <3>1, <3>2, <4>1, <5>1
        <5> QED
          BY <5>2 DEF Turning, TurnSteps
      <4>2. CASE l # call[t].log
        <5>1. \A u \in Threads : call[u].pc \in TurnSteps => u # t
          BY <3>1 DEF TurnSteps
        <5> QED
          BY <3>1, <3>2, <4>2, <5>1, StillTurned DEF SameTurn
      <4> QED BY <4>1, <4>2
    <3> QED
      BY <3>1, <3>2 DEF OverIsTurned
  <2>2. CASE \/ \E l \in Logs, n \in EntrySizes : Log(t, l, n)
             \/ \E arg \in {"fd", "pos"} : ReadArg(t, arg)
             \/ Write(t) \/ Load(t)
    <3>1. /\ call' \in [Threads -> Calls] /\ calls' \in Nat
          /\ \A u \in Threads : SameTurn(u)
          /\ UNCHANGED <<fd, size, path, table, stuck, apart, forgotten>>
      BY <2>2, EntryCalls
    <3>2. TypeOK'
      BY <3>1 DEF TypeOK, Calls
    <3>3. OverIsTurned'
      BY <3>1, StillTurned DEF SameTurn, OverIsTurned
    <3> QED BY <3>2, <3>3
  <2> QED BY <1>1, <2>1, <2>2 DEF Entry
<1>2. ASSUME NEW t \in Threads, Turn(t) PROVE OverInv'
  <2>1. TypeOK' /\ call[t] \in Turned /\ \A u \in Threads \ {t} : SameTurn(u)
    BY <1>2, TurnCalls
  <2>2. ASSUME NEW l \in Logs, size'[l] > LimitSize, l # call[t].log
        PROVE  l \in stuck' \/ \E u \in Turning' : call'[u].log = l
    <3>1. size'[l] = size[l] /\ (l \in stuck => l \in stuck')
      BY <1>2, <2>2
      DEF Turn, Name, Open, OpenFails, Close, Set, Reset, shared, history, TypeOK
    <3>2. \A u \in Threads : call[u].pc \in TurnSteps /\ call[u].log = l
                             => call'[u].pc \in TurnSteps /\ call'[u].log = l
      BY <2>1, <2>2 DEF SameTurn
    <3> QED
      BY <2>2, <3>1, <3>2, StillTurned
  <2>3. ASSUME size'[call[t].log] > LimitSize
        PROVE  call[t].log \in stuck' \/ \E u \in Turning' : call'[u].log = call[t].log
    <3>1. call[t].log \in Logs
      BY <2>1 DEF Turned
    <3>2. CASE Name(t) \/ Close(t) \/ Set(t)
      <4>1. PICK p \in TurnSteps : call' = [call EXCEPT ![t].pc = p]
        BY <3>2 DEF Name, Close, Set, TurnSteps
      <4>2. call'[t].pc = p /\ call'[t].log = call[t].log
        BY <2>1, <4>1 DEF TypeOK, Turned
      <4> QED
        BY <4>2 DEF Turning
    <3>3. CASE Open(t)
      <4>1. PICK d \in Lowest : call' = [call EXCEPT ![t].pc = "close", ![t].new = d]
        BY <3>3 DEF Open
      <4>2. call'[t].pc = "close" /\ call'[t].log = call[t].log
        BY <2>1, <4>1 DEF TypeOK, Turned
      <4> QED
        BY <4>2 DEF Turning, TurnSteps
    <3>4. CASE OpenFails(t)
      BY <3>4 DEF OpenFails
    <3>5. CASE Reset(t)
      <4>1. size'[call[t].log] = 0
        BY <3>1, <3>5 DEF Reset, TypeOK
      <4> QED
        BY <2>3, <4>1, OrderFacts
    <3> QED BY <1>2, <3>2, <3>3, <3>4, <3>5 DEF Turn
  <2> QED
    BY <2>1, <2>2, <2>3 DEF OverIsTurned
<1>3. ASSUME NEW t \in Threads, SetPath(t) PROVE OverInv'
  <2>1. /\ TypeOK' /\ call[t].pc = "idle"
        /\ \A u \in Threads \ {t} : SameTurn(u)
        /\ UNCHANGED <<size, stuck>>
    BY <1>3, SetPathCalls
  <2>2. \A u \in Threads : call[u].pc \in TurnSteps => u # t
    BY <2>1 DEF TurnSteps
  <2>3. OverIsTurned'
    BY <2>1, <2>2, StillTurned DEF SameTurn, OverIsTurned
  <2> QED BY <2>1, <2>3
<1>4. CASE (\E l \in Logs : SetFile(l)) \/ SetPrintf \/ LogClose
  <2>1. TypeOK' /\ call' = call
    BY <1>4, QuietCalls
  <2>2. ASSUME NEW l \in Logs PROVE size'[l] = size[l] \/ size'[l] = 0
    BY <1>4 DEF SetFile, SetPrintf, LogClose
  <2>3. stuck' = stuck
    BY <1>4 DEF SetFile, SetPrintf, LogClose, history
  <2>4. ASSUME NEW l \in Logs, size'[l] > LimitSize
        PROVE  l \in stuck' \/ \E u \in Turning' : call'[u].log = l
    <3>1. size'[l] # 0
      BY <2>4, OrderFacts
    <3> QED
      BY <2>1, <2>2, <2>3, <2>4, <3>1, StillTurned
  <2> QED
    BY <2>1, <2>4 DEF OverIsTurned
<1>5. CASE Tick \/ UNCHANGED vars
  <2>1. UNCHANGED <<fd, size, calls, apart, call, table, stuck>>
    BY <1>5 DEF Tick, vars, shared, kernel, history
  <2> QED
    BY <2>1 DEF TypeOK, OverIsTurned, Turning
<1> QED
  BY <1>1, <1>2, <1>3, <1>4, <1>5 DEF Next

LEMMA InitTypes == ASSUME Init PROVE TypeOK
<1>1. fd \in [Logs -> Nat]
  <2>1. PICK k \in 0 .. Len(Order) : LogInit(k)
    BY DEF Init
  <2>2. \A l \in Logs : (CHOOSE i \in DOMAIN Order : Order[i] = l) \in Nat
    BY PlaceFacts, OrderFacts
  <2> QED
    BY <2>1, <2>2 DEF LogInit
<1>2. table = [d \in Fds |-> table[d]]
  BY DEF Init, LogInit
<1> QED
  BY <1>1, <1>2 DEF Init, TypeOK

(* However the threads interleave, a log over its limit is being turned, or *)
(* its next file could not be opened.                                       *)
THEOREM FilesAreTurned == Spec => []OverIsTurned
<1>1. Init => OverInv
  <2>1. ASSUME Init PROVE OverIsTurned
    BY <2>1, OrderFacts DEF Init, OverIsTurned
  <2> QED
    BY <2>1, InitTypes DEF OverInv
<1>2. OverInv /\ [Next]_vars => OverInv'
  BY OverStep
<1>3. OverInv => OverIsTurned
  BY DEF OverInv
<1> QED
  BY <1>1, <1>2, <1>3, PTL DEF Spec

-----------------------------------------------------------------------------
(* The descriptors.                                                         *)

LEMMA InitOneTurn == ASSUME Init PROVE OneTurn
<1>1. PICK k \in 0 .. Len(Order) : k <= NumFds /\ LogInit(k)
  BY DEF Init
<1>2. \A t \in Threads : call[t].pc = "idle"
  BY DEF Init, Idle
<1>3. (\A t, u \in Turning : t = u) /\ \A t \in Threads : TurnHolds(t)
  BY <1>2 DEF Turning, TurnSteps, TurnHolds
<1>4. k \in Nat /\ NumFds \in Nat /\ Len(Order) \in Nat /\ k <= Len(Order)
  BY OrderFacts, LogAssumption
<1>5. \A d \in Fds : table[d] = IF d <= k THEN FileOf(FirstName(Order[d]), TRUE) ELSE Closed
  BY <1>1 DEF LogInit
<1>6. ASSUME NEW d \in Fds, table[d].on = "file" PROVE d <= k
  <2>1. ~(d <= k) => table[d] = Closed
    BY <1>5
  <2>2. Closed.on # "file"
    BY DEF Closed
  <2> QED
    BY <1>6, <2>1, <2>2
<1>7. CASE k < Len(Order)
  <2>1. (\A l \in Logs : fd[l] = 0) /\ forgotten = 1 .. k
    BY <1>1, <1>7 DEF LogInit
  <2>2. \A d \in Fds : d <= k => d \in 1 .. k
    BY <1>4 DEF Fds
  <2> QED
    BY <1>3, <1>6, <2>1, <2>2 DEF OneTurn, LogsOpen, FilesKnown
<1>8. CASE k = Len(Order)
  <2>1. \A l \in Logs : fd[l] = (CHOOSE i \in DOMAIN Order : Order[i] = l)
    BY <1>1, <1>4, <1>8 DEF LogInit
  <2>2. \A l \in Logs : fd[l] \in 1 .. k /\ Order[fd[l]] = l
    BY <1>8, <2>1, PlaceFacts
  <2>3. ASSUME NEW l \in Logs PROVE OpenFor(fd[l], l)
    <3>1. fd[l] \in Fds /\ fd[l] <= k
      BY <1>1, <1>4, <2>2 DEF Fds
    <3>2. table[fd[l]] = FileOf(FirstName(l), TRUE)
      BY <1>5, <2>2, <3>1
    <3> QED
      BY <3>1, <3>2 DEF OpenFor, FileOf, FirstName
  <2>4. ASSUME NEW d \in Fds, table[d].on = "file" PROVE \E l \in Logs : fd[l] = d
    <3>1. d \in 1 .. Len(Order)
      BY <1>4, <1>6, <1>8, <2>4 DEF Fds
    <3>2. Order[d] \in Logs
      BY <3>1, OrderFacts
    <3>3. fd[Order[d]] \in 1 .. Len(Order) /\ Order[fd[Order[d]]] = Order[d]
      BY <1>8, <2>2, <3>2
    <3> QED
      BY <3>1, <3>2, <3>3, OrderFacts
  <2> QED
    BY <1>3, <2>3, <2>4 DEF OneTurn, LogsOpen, FilesKnown
<1> QED
  BY <1>4, <1>7, <1>8

(* A step that leaves the descriptors and the turns alone.                  *)
LEMMA SameTurnsKeep ==
  ASSUME OneTurn, UNCHANGED <<fd, path, table, forgotten>>, apart' => apart,
         \A u \in Threads : SameTurn(u)
  PROVE  OneTurn'
<1> SUFFICES ASSUME apart' PROVE OneTurn'
  BY DEF OneTurn
<1>1. (\A t, u \in Turning : t = u) /\ LogsOpen /\ FilesKnown /\ \A t \in Threads : TurnHolds(t)
  BY DEF OneTurn
<1>2. \A t, u \in Turning' : t = u
  BY <1>1 DEF Turning, SameTurn
<1>3. \A t \in Threads : \A p \in {"open", "close", "set"} : call'[t].pc = p <=> call[t].pc = p
  BY DEF SameTurn, TurnSteps
<1>4. \A t \in Threads : call[t].pc \in {"open", "close", "set"} =>
        call'[t].log = call[t].log /\ call'[t].new = call[t].new
  BY DEF SameTurn, TurnSteps
<1>5. LogsOpen'
  BY <1>1, <1>3, <1>4 DEF LogsOpen, OpenFor
<1>6. FilesKnown'
  BY <1>1, <1>3, <1>4 DEF FilesKnown
<1>7. \A t \in Threads : TurnHolds(t)'
  BY <1>1, <1>3, <1>4 DEF TurnHolds, OpenFor
<1> QED
  BY <1>2, <1>5, <1>6, <1>7 DEF OneTurn

(* A turn begins only when no other is under way, or apart is lost.         *)
LEMMA TurnBegins ==
  ASSUME OneTurn, NEW t \in Threads, call[t].pc \notin TurnSteps, call'[t].pc = "name",
         \A u \in Threads \ {t} : SameTurn(u),
         UNCHANGED <<fd, path, table, forgotten>>, apart' = (apart /\ Turning = {})
  PROVE  OneTurn'
<1> SUFFICES ASSUME apart, Turning = {} PROVE OneTurn'
  BY DEF OneTurn
<1>1. LogsOpen /\ FilesKnown
  BY DEF OneTurn
<1>2. \A u \in Threads : call[u].pc \notin TurnSteps /\ (u # t => call'[u].pc \notin TurnSteps)
  BY DEF Turning, SameTurn
<1>3. \A u, v \in Turning' : u = v
  BY <1>2 DEF Turning
<1>4. \A u \in Threads : call[u].pc \notin {"open", "close", "set"}
                         /\ call'[u].pc \notin {"open", "close", "set"}
  BY <1>2 DEF TurnSteps
<1>5. LogsOpen' /\ FilesKnown'
  BY <1>1, <1>4 DEF LogsOpen, FilesKnown, OpenFor
<1>6. \A u \in Threads : TurnHolds(u)'
  BY <1>4 DEF TurnHolds
<1> QED
  BY <1>3, <1>5, <1>6 DEF OneTurn

(* The one thread that turns goes on: what it must have reached is what is  *)
(* left to show.                                                            *)
LEMMA TheTurn ==
  ASSUME TypeOK, OneTurn, apart, NEW t \in Threads, call[t].pc \in TurnSteps,
         \A u \in Threads \ {t} : SameTurn(u)
  PROVE  /\ \A u \in Threads \ {t} : call[u].pc \notin TurnSteps /\ call'[u].pc \notin TurnSteps
         /\ \A u, v \in Turning' : u = v
         /\ \A u \in Threads \ {t} : TurnHolds(u)'
<1>1. \A u \in Threads \ {t} : call[u].pc \notin TurnSteps
  BY DEF OneTurn, Turning
<1>2. \A u \in Threads \ {t} : call'[u].pc \notin TurnSteps
  BY <1>1 DEF SameTurn
<1> QED
  BY <1>1, <1>2 DEF Turning, TurnHolds, TurnSteps

LEMMA TurnKeepsOwn ==
  ASSUME TypeOK, OneTurn, NEW t \in Threads, Turn(t)
  PROVE  OneTurn'
<1>1. call[t] \in Turned /\ \A u \in Threads \ {t} : SameTurn(u)
  BY TurnCalls
<1>2. apart' = apart
  BY DEF Turn, Name, Open, OpenFails, Close, Set, Reset, history
<1> SUFFICES ASSUME apart PROVE OneTurn'
  BY <1>2 DEF OneTurn
<1> DEFINE l == call[t].log
           n == call[t].new
<1>3. l \in Logs /\ n \in Nat /\ call[t].pc \in TurnSteps
  BY <1>1 DEF Turned
<1>4. LogsOpen /\ FilesKnown /\ TurnHolds(t)
  BY DEF OneTurn
<1>5. /\ \A u \in Threads \ {t} : call[u].pc \notin TurnSteps /\ call'[u].pc \notin TurnSteps
      /\ \A u, v \in Turning' : u = v
      /\ \A u \in Threads \ {t} : TurnHolds(u)'
  BY <1>1, <1>3, TheTurn
<1>6. \A u \in Threads \ {t} : call[u].pc \notin {"open", "close", "set"}
                               /\ call'[u].pc \notin {"open", "close", "set"}
  BY <1>5 DEF TurnSteps
<1>7. SUFFICES LogsOpen' /\ FilesKnown' /\ TurnHolds(t)'
  BY <1>2, <1>5 DEF OneTurn
<1>8. CASE Name(t)
  <2>1. /\ call[t].pc = "name" /\ call'[t].pc = "open" /\ call'[t].log = l
        /\ UNCHANGED <<fd, table, forgotten>> /\ path'= TurnName(l)
    BY <1>1, <1>8 DEF Name, TypeOK, kernel, history, Turned
  <2>2. TurnName(l)[1] = l
    BY DEF TurnName
  <2> QED
    BY <1>4, <1>6, <2>1, <2>2 DEF LogsOpen, FilesKnown, OpenFor, TurnHolds
<1>9. CASE Open(t)
  <2>1. PICK d \in Lowest : /\ table' = [table EXCEPT ![d] = FileOf(path, FALSE)]
                            /\ call' = [call EXCEPT ![t].pc = "close", ![t].new = d]
    BY <1>9 DEF Open
  <2>2. d \in Fds /\ table[d] = Closed
    BY DEF Lowest
  <2>3. /\ call[t].pc = "open" /\ call'[t].pc = "close" /\ call'[t].log = l /\ call'[t].new = d
        /\ UNCHANGED <<fd, path, forgotten>>
    BY <1>1, <1>9, <2>1 DEF Open, TypeOK, shared, Turned
  <2>4. path[1] = l
    BY <1>4, <2>3 DEF TurnHolds
  <2>5. table'[d] = FileOf(path, FALSE) /\ \A e \in Fds : e # d => table'[e] = table[e]
    BY <2>1, <2>2 DEF TypeOK
  <2>6. table'[d].on = "file" /\ table'[d].file[1] = l
    BY <2>4, <2>5 DEF FileOf
  <2>7. \A k \in Logs : fd[k] = 0 \/ (OpenFor(fd[k], k) /\ fd[k] # d)
    <3>1. \A k \in Logs : fd[k] = 0 \/ OpenFor(fd[k], k)
      BY <1>4, <1>6, <2>3 DEF LogsOpen
    <3>2. ~(table[d].on = "file")
      BY <2>2 DEF Closed
    <3> QED BY <3>1, <3>2 DEF OpenFor
  <2>8. d # 0
    BY <2>2 DEF Fds
  <2>9. LogsOpen'
    BY <2>3, <2>5, <2>7 DEF LogsOpen, OpenFor
  <2>10. FilesKnown'
    BY <1>4, <1>6, <2>3, <2>5 DEF FilesKnown
  <2>11. TurnHolds(t)'
    BY <2>2, <2>3, <2>6, <2>7, <2>8 DEF TurnHolds, OpenFor
  <2> QED BY <2>9, <2>10, <2>11
<1>10. CASE OpenFails(t)
  <2>1. /\ call[t].pc = "open" /\ call'[t] = Idle
        /\ UNCHANGED <<fd, path, table, forgotten>>
    BY <1>10 DEF OpenFails, TypeOK, shared, kernel
  <2> QED
    BY <1>4, <1>6, <2>1 DEF LogsOpen, FilesKnown, OpenFor, TurnHolds, Idle
<1>11. CASE Close(t)
  <2>1. /\ call[t].pc = "close" /\ call'[t].pc = "set" /\ call'[t].log = l /\ call'[t].new = n
        /\ UNCHANGED <<fd, path, forgotten>>
        /\ \A d \in Fds : table'[d] = IF d = fd[l] THEN Closed ELSE table[d]
    BY <1>1, <1>11 DEF Close, TypeOK, shared, history, Turned
  <2>2. OpenFor(n, l) /\ \A k \in Logs : fd[k] # n
    BY <1>4, <2>1 DEF TurnHolds
  <2>3. \A k \in Logs : fd[k] = 0 \/ OpenFor(fd[k], k)
    BY <1>4, <1>6, <2>1 DEF LogsOpen
  <2>4. \A k \in Logs : k # l /\ OpenFor(fd[k], k) => OpenFor(fd[k], k)'
    <3> SUFFICES ASSUME NEW k \in Logs, k # l, OpenFor(fd[k], k) PROVE OpenFor(fd[k], k)'
      OBVIOUS
    <3>1. fd[k] # fd[l]
      <4>1. CASE fd[l] = 0
        BY <4>1 DEF OpenFor, Fds
      <4>2. CASE OpenFor(fd[l], l)
        BY <4>2 DEF OpenFor
      <4> QED BY <1>3, <2>3, <4>1, <4>2
    <3> QED BY <2>1, <3>1 DEF OpenFor
  <2>5. LogsOpen'
    BY <2>1, <2>3, <2>4 DEF LogsOpen
  <2>6. FilesKnown'
    <3>1. \A d \in Fds : table'[d].on = "file" => table[d].on = "file"
      BY <2>1 DEF Closed
    <3> QED
      BY <1>4, <1>6, <2>1, <3>1 DEF FilesKnown
  <2>7. OpenFor(n, l)'
    BY <1>3, <2>1, <2>2 DEF OpenFor
  <2>8. fd[l] = 0 \/ (fd[l] \in Fds /\ table'[fd[l]].on # "file")
    BY <1>3, <2>1, <2>3 DEF OpenFor, Closed
  <2>9. TurnHolds(t)'
    BY <2>1, <2>2, <2>7, <2>8 DEF TurnHolds
  <2> QED BY <2>5, <2>6, <2>9
<1>12. CASE Set(t)
  <2>1. /\ call[t].pc = "set" /\ call'[t].pc = "reset"
        /\ UNCHANGED <<path, table, forgotten>>
        /\ fd'[l] = n /\ \A k \in Logs : k # l => fd'[k] = fd[k]
    BY <1>1, <1>12 DEF Set, TypeOK, kernel, history, Turned
  <2>2. /\ OpenFor(n, l)
        /\ fd[l] = 0 \/ (fd[l] \in Fds /\ table[fd[l]].on # "file")
    BY <1>4, <2>1 DEF TurnHolds
  <2>3. LogsOpen'
    <3>1. \A k \in Logs : k # l => fd[k] = 0 \/ OpenFor(fd[k], k)
      BY <1>4, <1>6, <2>1 DEF LogsOpen
    <3> QED
      BY <2>1, <2>2, <3>1 DEF LogsOpen, OpenFor
  <2>4. FilesKnown'
    <3> SUFFICES ASSUME NEW d \in Fds, table[d].on = "file"
                 PROVE  (\E k \in Logs : fd'[k] = d) \/ d \in forgotten
      BY <2>1 DEF FilesKnown
    <3>1. (\E k \in Logs : fd[k] = d) \/ d = n \/ d \in forgotten
      BY <1>4, <1>6 DEF FilesKnown
    <3>2. d # 0
      BY DEF Fds
    <3>3. fd[l] # d
      BY <2>2, <3>2
    <3> QED
      BY <1>3, <2>1, <3>1, <3>3
  <2>5. TurnHolds(t)'
    BY <2>1 DEF TurnHolds
  <2> QED BY <2>3, <2>4, <2>5
<1>13. CASE Reset(t)
  <2>1. /\ call[t].pc = "reset" /\ UNCHANGED <<fd, path, table, forgotten>>
        /\ call'[t] = IF call[t].todo = <<>> THEN Idle
                      ELSE TurnOf(Head(call[t].todo), 0, Tail(call[t].todo))
    BY <1>13 DEF Reset, TypeOK, kernel, history
  <2>2. call'[t].pc \in {"idle", "name"}
    BY <2>1 DEF Idle, TurnOf
  <2> QED
    <3>1. LogsOpen'
      <4>1. \A k \in Logs : fd[k] = 0 \/ OpenFor(fd[k], k)
        BY <1>4, <1>6, <2>1 DEF LogsOpen
      <4>2. fd' = fd /\ table' = table
        BY <2>1
      <4> QED BY <4>1, <4>2 DEF LogsOpen, OpenFor
    <3>2. FilesKnown'
      BY <1>4, <1>6, <2>1, <2>2 DEF FilesKnown
    <3>3. TurnHolds(t)'
      BY <2>2 DEF TurnHolds
    <3> QED BY <3>1, <3>2, <3>3
<1> QED
  BY <1>8, <1>9, <1>10, <1>11, <1>12, <1>13 DEF Turn

(* The calls that run while nobody logs.                                    *)
LEMMA QuietKeepsOwn ==
  ASSUME TypeOK, OneTurn, (\E l \in Logs : SetFile(l)) \/ SetPrintf \/ LogClose
  PROVE  OneTurn'
<1>1. /\ call' = call /\ Turning' = {}
      /\ \A t \in Threads : call[t].pc = "idle"
  BY QuietCalls
<1>2. apart' = apart /\ path' = path
  BY DEF SetFile, SetPrintf, LogClose, history
<1> SUFFICES ASSUME apart PROVE OneTurn'
  BY <1>2 DEF OneTurn
<1>3. LogsOpen /\ FilesKnown
  BY DEF OneTurn
<1>4. \A l \in Logs : fd[l] = 0 \/ OpenFor(fd[l], l)
  BY <1>1, <1>3 DEF LogsOpen
<1>5. \A d \in Fds : table[d].on = "file" => (\E l \in Logs : fd[l] = d) \/ d \in forgotten
  BY <1>1, <1>3 DEF FilesKnown
<1>6. \A t \in Threads : TurnHolds(t)'
  BY <1>1 DEF TurnHolds
<1>7. \A t, u \in Turning' : t = u
  BY <1>1
<1>8. SUFFICES /\ \A l \in Logs : fd'[l] = 0 \/ OpenFor(fd[l], l)'
               /\ \A d \in Fds : table'[d].on = "file" =>
                    (\E l \in Logs : fd'[l] = d) \/ d \in forgotten'
  BY <1>6, <1>7 DEF OneTurn, LogsOpen, FilesKnown
<1>9. ASSUME NEW l \in Logs, SetFile(l)
      PROVE  /\ \A k \in Logs : fd'[k] = 0 \/ OpenFor(fd[k], k)'
             /\ \A d \in Fds : table'[d].on = "file" =>
                  (\E k \in Logs : fd'[k] = d) \/ d \in forgotten'
  <2>1. PICK d \in Lowest :
          /\ table' = [e \in Fds |-> IF e = d THEN FileOf(SetName(l), TRUE)
                                     ELSE IF e = fd[l] THEN Closed ELSE table[e]]
          /\ fd' = [fd EXCEPT ![l] = d]
    BY <1>9 DEF SetFile
  <2>2. d \in Fds /\ ~(table[d].on = "file") /\ forgotten' = forgotten
    BY <1>9 DEF Lowest, Closed, SetFile, history
  <2>3. fd'[l] = d /\ \A k \in Logs : k # l => fd'[k] = fd[k]
    BY <2>1 DEF TypeOK
  <2>4. table'[d].on = "file" /\ table'[d].file[1] = l
    BY <2>1, <2>2 DEF FileOf, SetName
  <2>5. ASSUME NEW k \in Logs, k # l PROVE fd'[k] = 0 \/ OpenFor(fd[k], k)'
    <3>1. CASE OpenFor(fd[k], k)
      <4>1. fd[k] # d /\ fd[k] \in Fds
        BY <2>2, <3>1 DEF OpenFor
      <4>2. fd[k] # fd[l]
        <5>1. CASE fd[l] = 0
          BY <4>1, <5>1 DEF Fds
        <5>2. CASE OpenFor(fd[l], l)
          BY <2>5, <3>1, <5>2 DEF OpenFor
        <5> QED BY <1>4, <5>1, <5>2
      <4>3. table'[fd[k]] = table[fd[k]]
        BY <2>1, <4>1, <4>2
      <4> QED
        BY <2>3, <2>5, <3>1, <4>3 DEF OpenFor
    <3> QED
      BY <1>4, <2>3, <2>5, <3>1
  <2>6. ASSUME NEW e \in Fds, table'[e].on = "file"
        PROVE  (\E k \in Logs : fd'[k] = e) \/ e \in forgotten'
    <3>1. CASE e = d
      BY <2>3, <3>1
    <3>2. CASE e # d
      <4>1. e # fd[l] /\ table'[e] = table[e]
        BY <2>1, <2>6, <3>2 DEF Closed
      <4>2. (\E k \in Logs : fd[k] = e) \/ e \in forgotten
        BY <1>5, <2>6, <4>1
      <4> QED
        BY <2>2, <2>3, <4>1, <4>2
    <3> QED BY <3>1, <3>2
  <2>7. OpenFor(fd[l], l)'
    BY <2>2, <2>3, <2>4 DEF OpenFor
  <2> QED BY <2>5, <2>6, <2>7
<1>10. CASE SetPrintf
  <2>1. /\ \A l \in Logs : fd'[l] = 0
        /\ forgotten' = forgotten \union ({fd[l] : l \in Logs} \ {0}) /\ table' = table
    BY <1>10 DEF SetPrintf, kernel
  <2>2. \A d \in Fds : d # 0
    BY DEF Fds
  <2> QED
    BY <1>5, <2>1, <2>2
<1>11. CASE LogClose
  <2>1. /\ \A l \in Logs : fd'[l] = 0 /\ forgotten' = forgotten
        /\ \A d \in Fds : table'[d] = IF \E l \in Logs : fd[l] = d THEN Closed ELSE table[d]
    BY <1>11 DEF LogClose, history
  <2>2. ASSUME NEW d \in Fds, table'[d].on = "file" PROVE d \in forgotten'
    <3>1. ~(\E l \in Logs : fd[l] = d) /\ table[d].on = "file"
      BY <2>1, <2>2 DEF Closed
    <3>2. Logs # {}
      BY OrderFacts
    <3> QED
      BY <1>5, <2>1, <3>1, <3>2
  <2> QED
    BY <2>1, <2>2
<1> QED
  BY <1>9, <1>10, <1>11

LEMMA OwnStep ==
  ASSUME TypeOK, OneTurn, [Next]_vars
  PROVE  OneTurn'
<1>1. ASSUME NEW t \in Threads, Entry(t) PROVE OneTurn'
  <2>1. CASE Store(t)
    <3>1. /\ call[t].pc = "store"
          /\ \A u \in Threads \ {t} : SameTurn(u)
          /\ \/ call'[t].pc = "idle" /\ apart' = apart
             \/ call'[t].pc = "name" /\ apart' = (apart /\ Turning = {})
          /\ UNCHANGED <<fd, path, table, forgotten>>
      BY <2>1, StoreCalls
    <3>2. call[t].pc \notin TurnSteps
      BY <3>1 DEF TurnSteps
    <3>3. CASE call'[t].pc = "idle" /\ apart' = apart
      <4>1. SameTurn(t)
        BY <3>2, <3>3 DEF SameTurn, TurnSteps
      <4> QED
        BY <3>1, <3>3, <4>1, SameTurnsKeep
    <3>4. CASE call'[t].pc = "name" /\ apart' = (apart /\ Turning = {})
      BY <3>1, <3>2, <3>4, TurnBegins
    <3> QED BY <3>1, <3>3, <3>4
  <2>2. CASE \/ \E l \in Logs, n \in EntrySizes : Log(t, l, n)
             \/ \E arg \in {"fd", "pos"} : ReadArg(t, arg)
             \/ Write(t) \/ Load(t)
    <3>1. /\ \A u \in Threads : SameTurn(u)
          /\ UNCHANGED <<fd, path, table, apart, forgotten>>
      BY <2>2, EntryCalls
    <3> QED
      BY <3>1, SameTurnsKeep
  <2> QED BY <1>1, <2>1, <2>2 DEF Entry
<1>2. ASSUME NEW t \in Threads, Turn(t) PROVE OneTurn'
  BY <1>2, TurnKeepsOwn
<1>3. ASSUME NEW t \in Threads, SetPath(t) PROVE OneTurn'
  <2>1. /\ call[t].pc = "idle" /\ call'[t].pc = "name"
        /\ \A u \in Threads \ {t} : SameTurn(u)
        /\ apart' = (apart /\ Turning = {})
        /\ UNCHANGED <<fd, path, table, forgotten>>
    BY <1>3, SetPathCalls
  <2>2. call[t].pc \notin TurnSteps
    BY <2>1 DEF TurnSteps
  <2> QED
    BY <2>1, <2>2, TurnBegins
<1>4. CASE (\E l \in Logs : SetFile(l)) \/ SetPrintf \/ LogClose
  BY <1>4, QuietKeepsOwn
<1>5. CASE Tick \/ UNCHANGED vars
  <2>1. UNCHANGED <<fd, path, table, forgotten, apart, call>>
    BY <1>5 DEF Tick, vars, shared, kernel, history
  <2>2. \A u \in Threads : SameTurn(u)
    BY <2>1 DEF SameTurn
  <2> QED
    BY <2>1, <2>2, SameTurnsKeep
<1> QED
  BY <1>1, <1>2, <1>3, <1>4, <1>5 DEF Next

(* As long as no two turns overlap, a log's descriptor is open on a file of *)
(* the log, and every file that is open belongs to somebody.                *)
THEOREM DescriptorsAreOwned == Spec => []DescriptorsOwned
<1>1. Init => OverInv /\ OneTurn
  <2>1. ASSUME Init PROVE OverIsTurned
    BY <2>1, OrderFacts DEF Init, OverIsTurned
  <2> QED
    BY <2>1, InitTypes, InitOneTurn DEF OverInv
<1>2. (OverInv /\ OneTurn) /\ [Next]_vars => (OverInv /\ OneTurn)'
  BY OverStep, OwnStep DEF OverInv
<1>3. OverInv /\ OneTurn => DescriptorsOwned
  BY DEF OneTurn, LogsOpen, FilesKnown, OpenFor, DescriptorsOwned
<1> QED
  BY <1>1, <1>2, <1>3, PTL DEF Spec

-----------------------------------------------------------------------------
(* Entries stay where they were written.                                    *)

(* What a descriptor that is written by position is open on.                *)
Positioned(d, f) == d \in Fds /\ table[d].on = "file" /\ table[d].file = f /\ ~ table[d].append

(* The files, the entries, and the numbers of the calls under way.          *)
EntryTypes ==
    /\ files \in [DOMAIN files -> Seq(Nat)]
    /\ \A d \in Fds : table[d].on = "file" =>
          table[d].file \in DOMAIN files /\ table[d].append \in BOOLEAN
    /\ intact \subseteq [entry : 1..calls, file : DOMAIN files, from : Nat \ {0}, to : Nat]
    /\ fd \in [Logs -> 0..NumFds]
    /\ \A t \in Threads :
          /\ call[t].pc = "args" => call[t].entry \in 1..calls /\ call[t].fd \in 0..NumFds
          /\ call[t].pc \in {"close", "set"} => call[t].new \in Fds

(* Nobody else is in a call while a call that is alone has yet to write, or *)
(* while that of an entry that is intact goes on; what the first has read   *)
(* is therefore as it was.                                                  *)
Solitude ==
    /\ \A t \in Threads : call[t].pc = "args" /\ call[t].alone =>
          /\ Working = {t}
          /\ "pos" \in call[t].got => call[t].pos = size[call[t].log]
          /\ "fd" \in call[t].got => call[t].fd = fd[call[t].log]
    /\ \A e \in intact, t \in Working : call[t].entry = e.entry =>
          Working = {t} /\ call[t].pc # "args"

(* The size of a log reaches to the end of every entry of its file, but for *)
(* the entry that is being counted.                                         *)
SizesReach ==
    \A e \in intact, l \in Logs : Positioned(fd[l], e.file) =>
        \/ e.to <= size[l]
        \/ \E t \in Threads : /\ call[t].pc \in {"load", "store"} /\ call[t].log = l
                              /\ call[t].entry = e.entry

(* What a call is about to do with the entries of its file.                 *)
CallSpares(t) ==
    \A e \in intact :
        /\ call[t].pc = "args" /\ "pos" \in call[t].got /\ Positioned(fd[call[t].log], e.file)
              => e.to <= call[t].pos
        /\ call[t].pc = "args" /\ "fd" \in call[t].got /\ call[t].fd # fd[call[t].log]
              => ~ Positioned(call[t].fd, e.file)
        /\ call[t].pc = "load" /\ call[t].entry = e.entry /\ Positioned(fd[call[t].log], e.file)
              => e.to <= size[call[t].log] + call[t].len
        /\ call[t].pc = "store" /\ Positioned(fd[call[t].log], e.file)
              => e.to <= call[t].pos + call[t].len
        /\ call[t].pc \in {"close", "set"} => ~ Positioned(call[t].new, e.file)
        /\ call[t].pc = "reset" => ~ Positioned(fd[call[t].log], e.file)

KeptInv ==
    /\ EntryTypes
    /\ Solitude
    /\ apart => SizesReach /\ \A t \in Threads : CallSpares(t)
    /\ Kept

(* A step whose thread is in a call, that takes no entry in: what is true   *)
(* of the other threads stays true.                                         *)
LEMMA SolitudeStays ==
  ASSUME TypeOK, EntryTypes, Solitude, NEW t \in Threads, call[t].pc # "idle",
         \A u \in Threads \ {t} : call'[u] = call[u], intact' \subseteq intact,
         call'[t].pc # "idle" => call'[t].entry \in {call[t].entry, 0},
         call'[t].pc = "args" => call[t].pc = "args",
         call'[t].pc = "args" /\ call'[t].alone =>
            /\ call[t].alone
            /\ "pos" \in call'[t].got => call'[t].pos = size'[call'[t].log]
            /\ "fd" \in call'[t].got => call'[t].fd = fd'[call'[t].log]
  PROVE  Solitude'
<1>1. t \in Working /\ Working' \subseteq Working
  BY DEF Working
<1>2. ASSUME NEW u \in Threads, call'[u].pc = "args", call'[u].alone
      PROVE  /\ Working' = {u}
             /\ "pos" \in call'[u].got => call'[u].pos = size'[call'[u].log]
             /\ "fd" \in call'[u].got => call'[u].fd = fd'[call'[u].log]
  <2>1. u = t
    <3>1. CASE u # t
      <4>1. Working = {u}
        BY <1>2, <3>1 DEF Solitude
      <4> QED BY <1>1, <3>1, <4>1
    <3> QED BY <3>1
  <2>2. Working = {t}
    BY <1>2, <2>1 DEF Solitude
  <2>3. u \in Working'
    BY <1>2 DEF Working
  <2> QED BY <1>1, <1>2, <2>1, <2>2, <2>3
<1>3. ASSUME NEW e \in intact', NEW u \in Working', call'[u].entry = e.entry
      PROVE  Working' = {u} /\ call'[u].pc # "args"
  <2>1. e \in intact /\ e.entry # 0 /\ u \in Working
    BY <1>1 DEF EntryTypes
  <2>2. call[u].entry = e.entry
    BY <1>3, <2>1 DEF Working
  <2>3. Working = {u} /\ call[u].pc # "args"
    BY <2>1, <2>2 DEF Solitude
  <2> QED BY <1>1, <2>3
<1> QED
  BY <1>2, <1>3 DEF Solitude

LEMMA OthersSpared ==
  ASSUME Solitude, NEW t \in Threads, call[t].pc # "idle", intact' \subseteq intact,
         \A e \in intact' : \A d : Positioned(d, e.file)' => Positioned(d, e.file),
         fd' = fd, NEW u \in Threads \ {t}, call'[u] = call[u], CallSpares(u)
  PROVE  CallSpares(u)'
<1> SUFFICES ASSUME NEW e \in intact'
             PROVE  /\ call[u].pc = "args" /\ "pos" \in call[u].got
                          /\ Positioned(fd[call[u].log], e.file)' => e.to <= call[u].pos
                    /\ call[u].pc = "args" /\ "fd" \in call[u].got
                          /\ call[u].fd # fd[call[u].log] => ~ Positioned(call[u].fd, e.file)'
                    /\ ~ (call[u].pc = "load" /\ call[u].entry = e.entry)
                    /\ call[u].pc = "store" /\ Positioned(fd[call[u].log], e.file)'
                          => e.to <= call[u].pos + call[u].len
                    /\ call[u].pc \in {"close", "set"} => ~ Positioned(call[u].new, e.file)'
                    /\ call[u].pc = "reset" => ~ Positioned(fd[call[u].log], e.file)'
  BY DEF CallSpares
<1>1. ~ (call[u].pc = "load" /\ call[u].entry = e.entry)
  BY DEF Solitude, Working
<1> QED
  BY <1>1 DEF CallSpares

(* A step that leaves the files alone.                                      *)
LEMMA BytesStay ==
  ASSUME Kept, files' = files, intact' \subseteq intact, apart' => apart
  PROVE  Kept'
BY DEF Kept

LEMMA FilesStay ==
  ASSUME EntryTypes, files' = files, intact' \subseteq intact, calls' = calls, TypeOK,
         \A d \in Fds : table'[d].on = "file" => table'[d] = table[d],
         fd' \in [Logs -> 0..NumFds],
         \A u \in Threads :
            /\ call'[u].pc = "args" => /\ call[u].pc = "args" /\ call'[u].entry = call[u].entry
                                      /\ call'[u].fd \in 0..NumFds
            /\ call'[u].pc \in {"close", "set"} =>
                  call[u].pc \in {"close", "set"} /\ call'[u].new = call[u].new
  PROVE  EntryTypes'
BY DEF EntryTypes

(* A thread that changes its own call and nothing else an entry depends on. *)
LEMMA OwnCallSpares ==
  ASSUME TypeOK, KeptInv, NEW t \in Threads, NEW c \in Calls, call[t].pc # "idle",
         call' = [call EXCEPT ![t] = c],
         UNCHANGED <<fd, size, table, files, calls, apart, intact>>,
         c.pc # "idle" => c.entry \in {call[t].entry, 0},
         c.pc = "args" =>
            /\ call[t].pc = "args" /\ c.entry = call[t].entry /\ c.fd \in 0..NumFds
            /\ c.alone => /\ call[t].alone
                          /\ "pos" \in c.got => c.pos = size[c.log]
                          /\ "fd" \in c.got => c.fd = fd[c.log],
         c.pc \in {"close", "set"} => call[t].pc \in {"close", "set"} /\ c.new = call[t].new,
         call[t].pc \in {"load", "store"} =>
            /\ c.pc \in {"load", "store"}
            /\ c.log = call[t].log /\ c.entry = call[t].entry,
         apart => CallSpares(t)'
  PROVE  KeptInv'
<1>1. call'[t] = c /\ \A u \in Threads \ {t} : call'[u] = call[u]
  BY DEF TypeOK
<1>2. EntryTypes /\ Solitude /\ Kept
  BY DEF KeptInv
<1>3. Solitude'
  BY <1>1, <1>2, SolitudeStays
<1>4. EntryTypes'
  <2>1. fd' \in [Logs -> 0..NumFds]
    BY <1>2 DEF EntryTypes
  <2>2. \A u \in Threads :
            /\ call'[u].pc = "args" => /\ call[u].pc = "args" /\ call'[u].entry = call[u].entry
                                      /\ call'[u].fd \in 0..NumFds
            /\ call'[u].pc \in {"close", "set"} =>
                  call[u].pc \in {"close", "set"} /\ call'[u].new = call[u].new
    BY <1>1, <1>2 DEF EntryTypes
  <2> QED
    BY <1>2, <2>1, <2>2, FilesStay
<1>5. Kept'
  BY <1>2, BytesStay
<1>6. ASSUME apart, NEW u \in Threads \ {t} PROVE CallSpares(u)'
  <2>1. CallSpares(u) /\ call'[u] = call[u]
    BY <1>1, <1>6 DEF KeptInv
  <2>2. \A e \in intact' : \A d : Positioned(d, e.file)' => Positioned(d, e.file)
    BY DEF Positioned
  <2> QED
    BY <1>2, <2>1, <2>2, OthersSpared
<1>7. ASSUME apart PROVE SizesReach'
  <2> SUFFICES ASSUME NEW e \in intact, NEW l \in Logs, Positioned(fd[l], e.file)
               PROVE  \/ e.to <= size[l]
                      \/ \E u \in Threads : /\ call'[u].pc \in {"load", "store"} /\ call'[u].log = l
                                            /\ call'[u].entry = e.entry
    BY DEF SizesReach, Positioned
  <2>1. \/ e.to <= size[l]
        \/ \E u \in Threads : /\ call[u].pc \in {"load", "store"} /\ call[u].log = l
                              /\ call[u].entry = e.entry
    BY <1>7 DEF KeptInv, SizesReach
  <2> QED
    BY <1>1, <2>1
<1> QED
  BY <1>1, <1>3, <1>4, <1>5, <1>6, <1>7 DEF KeptInv

LEMMA ReadArgKeeps ==
  ASSUME TypeOK, KeptInv, NEW t \in Threads, NEW arg \in {"fd", "pos"}, ReadArg(t, arg)
  PROVE  KeptInv'
<1> DEFINE l == call[t].log
           c == [call[t] EXCEPT !.got = @ \union {arg},
                                !.fd = IF arg = "fd" THEN fd[call[t].log] ELSE @,
                                !.pos = IF arg = "pos" THEN size[call[t].log] ELSE @]
<1>1. call[t] \in Entered /\ call[t].pc = "args" /\ l \in Logs
      /\ UNCHANGED <<fd, size, table, files, calls, apart, intact>>
  BY CallKinds DEF ReadArg, shared, kernel, history, Entered
<1>2. call' = [call EXCEPT ![t] = c]
  BY <1>1 DEF ReadArg, TypeOK, Entered
<1>3. /\ c \in Entered /\ c.pc = "args" /\ c.log = l /\ c.entry = call[t].entry
      /\ c.alone = call[t].alone /\ c.got = call[t].got \union {arg}
      /\ c.fd = (IF arg = "fd" THEN fd[l] ELSE call[t].fd)
      /\ c.pos = (IF arg = "pos" THEN size[l] ELSE call[t].pos)
  <2>1. fd[l] \in Nat /\ size[l] \in Nat
    BY <1>1 DEF TypeOK
  <2> QED
    BY <1>1, <2>1 DEF Entered
<1>4. c \in Calls /\ c.pc # "idle" /\ c.entry \in {call[t].entry, 0}
  BY <1>3 DEF Calls
<1>8. c.fd \in 0..NumFds
  BY <1>1, <1>3 DEF KeptInv, EntryTypes
<1>5. c.alone => /\ call[t].alone
                 /\ "pos" \in c.got => c.pos = size[c.log]
                 /\ "fd" \in c.got => c.fd = fd[c.log]
  BY <1>1, <1>3 DEF KeptInv, Solitude
<1> HIDE DEF c
<1>6. call'[t] = c
  BY <1>2 DEF TypeOK
<1>7. ASSUME apart PROVE CallSpares(t)'
  <2> SUFFICES ASSUME NEW e \in intact
               PROVE  /\ "pos" \in c.got /\ Positioned(fd[l], e.file) => e.to <= c.pos
                      /\ "fd" \in c.got /\ c.fd # fd[l] => ~ Positioned(c.fd, e.file)
    BY <1>1, <1>3, <1>6 DEF CallSpares, Positioned
  <2>1. /\ "pos" \in call[t].got /\ Positioned(fd[l], e.file) => e.to <= call[t].pos
        /\ "fd" \in call[t].got /\ call[t].fd # fd[l] => ~ Positioned(call[t].fd, e.file)
    BY <1>1, <1>7 DEF KeptInv, CallSpares
  <2>2. Positioned(fd[l], e.file) => e.to <= size[l]
    <3>1. \A u \in Threads : call[u].pc \in {"load", "store"} /\ call[u].entry = e.entry => u = t
      BY <1>1 DEF KeptInv, Solitude, Working
    <3>2. Positioned(fd[l], e.file) =>
             \/ e.to <= size[l]
             \/ \E u \in Threads : call[u].pc \in {"load", "store"} /\ call[u].entry = e.entry
      BY <1>1, <1>7 DEF KeptInv, SizesReach
    <3> QED BY <1>1, <3>1, <3>2
  <2> QED BY <1>3, <2>1, <2>2
<1> QED
  BY <1>1, <1>2, <1>3, <1>4, <1>5, <1>7, <1>8, OwnCallSpares

LEMMA LoadKeeps ==
  ASSUME TypeOK, KeptInv, NEW t \in Threads, Load(t)
  PROVE  KeptInv'
<1> DEFINE l == call[t].log
           c == [call[t] EXCEPT !.pc = "store", !.pos = size[call[t].log]]
<1>1. call[t] \in Counting /\ call[t].pc = "load" /\ l \in Logs
      /\ UNCHANGED <<fd, size, table, files, calls, apart, intact>>
  BY CallKinds DEF Load, shared, kernel, history, Counting
<1>2. call' = [call EXCEPT ![t] = c]
  BY <1>1 DEF Load, TypeOK, Counting
<1>3. /\ c \in Counting /\ c.pc = "store" /\ c.log = l /\ c.entry = call[t].entry
      /\ c.len = call[t].len /\ c.pos = size[l]
  <2>1. size[l] \in Nat
    BY <1>1 DEF TypeOK
  <2> QED
    BY <1>1, <2>1 DEF Counting
<1>4. c \in Calls
  BY <1>3 DEF Calls
<1> HIDE DEF c
<1>6. call'[t] = c
  BY <1>2 DEF TypeOK
<1>7. ASSUME apart PROVE CallSpares(t)'
  <2> SUFFICES ASSUME NEW e \in intact, Positioned(fd[l], e.file)
               PROVE  e.to <= size[l] + call[t].len
    BY <1>1, <1>3, <1>6 DEF CallSpares, Positioned
  <2>1. call[t].entry = e.entry => e.to <= size[l] + call[t].len
    BY <1>1, <1>7 DEF KeptInv, CallSpares
  <2>2. \A u \in Threads : call[u].pc \in {"load", "store"} /\ call[u].entry = e.entry => u = t
    BY <1>1 DEF KeptInv, Solitude, Working
  <2>3. \/ e.to <= size[l]
        \/ \E u \in Threads : call[u].pc \in {"load", "store"} /\ call[u].entry = e.entry
    BY <1>1, <1>7 DEF KeptInv, SizesReach
  <2>4. size[l] \in Nat /\ call[t].len \in Nat /\ e.to \in Nat
    BY <1>1 DEF TypeOK, Counting, KeptInv, EntryTypes
  <2> QED BY <2>1, <2>2, <2>3, <2>4
<1> QED
  BY <1>1, <1>2, <1>3, <1>4, <1>7, OwnCallSpares

LEMMA NameKeeps ==
  ASSUME TypeOK, KeptInv, NEW t \in Threads, Name(t)
  PROVE  KeptInv'
<1> DEFINE c == [call[t] EXCEPT !.pc = "open"]
<1>1. call[t] \in Turned /\ call[t].pc = "name"
      /\ UNCHANGED <<fd, size, table, files, calls, apart, intact>>
  BY CallKinds DEF Name, kernel, history, TurnSteps
<1>2. call' = [call EXCEPT ![t] = c]
  BY <1>1 DEF Name, TypeOK, Turned
<1>3. c \in Turned /\ c.pc = "open" /\ c.entry = call[t].entry
  BY <1>1 DEF Turned, TurnSteps
<1>4. c \in Calls
  BY <1>3 DEF Calls
<1> HIDE DEF c
<1>5. CallSpares(t)'
  BY <1>2, <1>3 DEF CallSpares, TypeOK
<1> QED
  BY <1>1, <1>2, <1>3, <1>4, <1>5, OwnCallSpares

LEMMA OpenFailsKeeps ==
  ASSUME TypeOK, KeptInv, NEW t \in Threads, OpenFails(t)
  PROVE  KeptInv'
<1>1. call[t].pc = "open" /\ call' = [call EXCEPT ![t] = Idle]
      /\ UNCHANGED <<fd, size, table, files, calls, apart, intact>>
  BY DEF OpenFails, shared, kernel
<1>2. Idle \in Calls /\ Idle.pc = "idle"
  BY DEF Calls, Idle
<1>3. CallSpares(t)'
  BY <1>1, <1>2 DEF CallSpares, TypeOK
<1> QED
  BY <1>1, <1>2, <1>3, OwnCallSpares

(* The bytes of a file after an entry was written past those that count.    *)
LEMMA WrittenFacts ==
  ASSUME NEW b \in Seq(Nat), NEW p \in Nat, NEW e \in Nat, NEW n \in Nat
  PROVE  /\ Written(b, p, e, n) \in Seq(Nat)
         /\ Len(Written(b, p, e, n)) >= Len(b) /\ Len(Written(b, p, e, n)) >= p + n
         /\ \A i \in 1 .. Len(b) : i <= p => Written(b, p, e, n)[i] = b[i]
         /\ \A i \in p + 1 .. p + n : Written(b, p, e, n)[i] = e
<1> DEFINE m == IF p + n > Len(b) THEN p + n ELSE Len(b)
           f(i) == IF p < i /\ i <= p + n THEN e ELSE IF i <= Len(b) THEN b[i] ELSE 0
<1>1. m \in Nat /\ m >= Len(b) /\ m >= p + n
  OBVIOUS
<1>2. \A i \in 1 .. m : f(i) \in Nat
  OBVIOUS
<1>3. Written(b, p, e, n) = [i \in 1 .. m |-> f(i)]
  BY DEF Written
<1> HIDE DEF m
<1>4. [i \in 1 .. m |-> f(i)] \in Seq(Nat) /\ Len([i \in 1 .. m |-> f(i)]) = m
  BY <1>1, <1>2
<1>5. \A i \in 1 .. m : Written(b, p, e, n)[i] = f(i)
  BY <1>3
<1>6. ASSUME NEW i \in 1 .. Len(b), i <= p PROVE Written(b, p, e, n)[i] = b[i]
  BY <1>1, <1>5, <1>6
<1>7. ASSUME NEW i \in p + 1 .. p + n PROVE Written(b, p, e, n)[i] = e
  BY <1>1, <1>5, <1>7
<1> QED
  BY <1>1, <1>3, <1>4, <1>6, <1>7

LEMMA WriteKeeps ==
  ASSUME TypeOK, OneTurn, KeptInv, NEW t \in Threads, Write(t)
  PROVE  KeptInv'
<1> DEFINE k == call[t]
           l == call[t].log
           c == [pc |-> "load", log |-> k.log, entry |-> k.entry, len |-> k.len,
                 pos |-> 0, alone |-> FALSE]
<1>1. /\ k \in Entered /\ k.pc = "args" /\ k.got = {"fd", "pos"} /\ l \in Logs
      /\ UNCHANGED <<fd, size, table, calls, apart>>
  BY CallKinds DEF Write, shared, Entered
<1>2. call' = [call EXCEPT ![t] = c]
  BY <1>1 DEF Write, TypeOK
<1>3. /\ c \in Calls /\ c.pc = "load" /\ c.log = l /\ c.entry = k.entry /\ c.len = k.len
      /\ c.alone = FALSE
  <2>1. c \in Counting
    BY <1>1 DEF Entered, Counting
  <2> QED BY <2>1 DEF Calls
<1> HIDE DEF c
<1>4. call'[t] = c /\ \A u \in Threads \ {t} : call'[u] = call[u]
  BY <1>2 DEF TypeOK
<1>5. EntryTypes /\ Solitude /\ Kept
  BY DEF KeptInv
<1>6. \A e \in intact : e.entry # k.entry
  BY <1>1, <1>5 DEF Solitude, Working
<1>7. CASE UNCHANGED <<files, intact>>
  <2>1. CallSpares(t)'
    BY <1>3, <1>4, <1>6, <1>7 DEF CallSpares
  <2> QED
    BY <1>1, <1>2, <1>3, <1>7, <2>1, OwnCallSpares
<1>8. CASE k.fd # 0 /\ table[k.fd].on = "file" /\ PWrite(t)
  <2>1. k.fd \in Fds
    BY <1>1, <1>5, <1>8, LogAssumption DEF EntryTypes, Fds
  <2>2. /\ table[k.fd].file \in DOMAIN files /\ table[k.fd].append \in BOOLEAN
        /\ k.entry \in 1 .. calls /\ k.entry \in Nat /\ k.pos \in Nat /\ k.len \in Nat
    BY <1>1, <1>5, <1>8, <2>1 DEF EntryTypes, Entered
  <2>3. PICK f, p, b, new :
            /\ f \in DOMAIN files /\ p \in Nat
            /\ f = table[k.fd].file /\ files[f] \in Seq(Nat)
            /\ table[k.fd].append => p = Len(files[f])
            /\ ~ table[k.fd].append => p = k.pos
            /\ b = Written(files[f], p, k.entry, k.len)
            /\ new = [entry |-> k.entry, file |-> f, from |-> p + 1, to |-> p + k.len]
            /\ files' = [files EXCEPT ![f] = b]
            /\ intact' = IF k.alone THEN intact \union {new} ELSE intact
    <3> DEFINE f == table[k.fd].file
               p == IF table[k.fd].append THEN Len(files[f]) ELSE k.pos
    <3>1. files[f] \in Seq(Nat)
      BY <1>5, <2>2 DEF EntryTypes
    <3>2. p \in Nat
      BY <2>2, <3>1
    <3> DEFINE b == Written(files[f], p, k.entry, k.len)
               new == [entry |-> k.entry, file |-> f, from |-> p + 1, to |-> p + k.len]
    <3>3. /\ f \in DOMAIN files
          /\ table[k.fd].append => p = Len(files[f])
          /\ ~ table[k.fd].append => p = k.pos
      BY <2>2
    <3>4. /\ files' = [files EXCEPT ![f] = b]
          /\ intact' = IF k.alone THEN intact \union {new} ELSE intact
      BY <1>8 DEF PWrite
    <3>5. /\ b = Written(files[f], p, k.entry, k.len)
          /\ new = [entry |-> k.entry, file |-> f, from |-> p + 1, to |-> p + k.len]
          /\ f = table[k.fd].file
      OBVIOUS
    <3> HIDE DEF f, p, b, new
    <3> QED
      BY <3>1, <3>2, <3>3, <3>4, <3>5
  <2>4. /\ p \in Nat
        /\ table[k.fd].append => p = Len(files[f])
        /\ ~ table[k.fd].append => p = k.pos
    BY <2>3
  <2>5. /\ b \in Seq(Nat) /\ Len(b) >= Len(files[f]) /\ Len(b) >= p + k.len
        /\ \A i \in 1 .. Len(files[f]) : i <= p => b[i] = files[f][i]
        /\ \A i \in p + 1 .. p + k.len : b[i] = k.entry
    <3> DEFINE old == files[f]
               y == k.entry
               n == k.len
    <3>1. /\ old \in Seq(Nat) /\ p \in Nat /\ y \in Nat /\ n \in Nat
          /\ b = Written(old, p, y, n)
      BY <2>2, <2>3
    <3> HIDE DEF old, y, n
    <3>2. /\ Written(old, p, y, n) \in Seq(Nat)
          /\ Len(Written(old, p, y, n)) >= Len(old)
          /\ Len(Written(old, p, y, n)) >= p + n
          /\ \A i \in 1 .. Len(old) : i <= p => Written(old, p, y, n)[i] = old[i]
          /\ \A i \in p + 1 .. p + n : Written(old, p, y, n)[i] = y
      BY <3>1, WrittenFacts
    <3>3. /\ b \in Seq(Nat) /\ Len(b) >= Len(old) /\ Len(b) >= p + n
          /\ \A i \in 1 .. Len(old) : i <= p => b[i] = old[i]
          /\ \A i \in p + 1 .. p + n : b[i] = y
      BY <3>1, <3>2
    <3> QED BY <3>3 DEF old, y, n
  <2>6. /\ DOMAIN files' = DOMAIN files /\ files'[f] = b
        /\ \A g \in DOMAIN files : g # f => files'[g] = files[g]
        /\ files' \in [DOMAIN files' -> Seq(Nat)]
    BY <1>5, <2>3, <2>5 DEF EntryTypes
  <2>7. /\ new \in [entry : 1 .. calls, file : DOMAIN files, from : Nat \ {0}, to : Nat]
        /\ new.entry = k.entry /\ new.file = f /\ new.from = p + 1 /\ new.to = p + k.len
    BY <2>2, <2>3
  <2>8. \A e \in intact' : e \in intact \/ (e = new /\ k.alone)
    BY <2>3
  <2>9. EntryTypes'
    <3>1. \A d \in Fds : table'[d].on = "file" =>
              table'[d].file \in DOMAIN files' /\ table'[d].append \in BOOLEAN
      BY <1>1, <1>5, <2>6 DEF EntryTypes
    <3>2. intact' \subseteq [entry : 1 .. calls', file : DOMAIN files', from : Nat \ {0}, to : Nat]
      BY <1>1, <1>5, <2>6, <2>7, <2>8 DEF EntryTypes
    <3>3. /\ fd' \in [Logs -> 0..NumFds]
          /\ \A u \in Threads :
               /\ call'[u].pc = "args" => call'[u].entry \in 1 .. calls' /\ call'[u].fd \in 0..NumFds
               /\ call'[u].pc \in {"close", "set"} => call'[u].new \in Fds
      BY <1>1, <1>3, <1>4, <1>5 DEF EntryTypes
    <3> QED BY <2>6, <3>1, <3>2, <3>3 DEF EntryTypes
  (* An entry is not run over: it ends before the place that is written.    *)
  <2>10. ASSUME apart, NEW e \in intact, e.file = f PROVE e.to <= p
    <3>1. CASE table[k.fd].append
      BY <1>5, <2>4, <2>10, <3>1 DEF Kept
    <3>2. CASE ~ table[k.fd].append
      <4>1. Positioned(k.fd, e.file)
        BY <1>8, <2>1, <2>3, <2>10, <3>2 DEF Positioned
      <4>2. k.fd = fd[l] => e.to <= k.pos
        BY <1>1, <2>10, <4>1 DEF KeptInv, CallSpares
      <4>3. k.fd = fd[l]
        BY <1>1, <2>10, <4>1 DEF KeptInv, CallSpares
      <4> QED BY <2>4, <3>2, <4>2, <4>3
    <3> QED BY <3>1, <3>2
  <2>11. Kept'
    <3> SUFFICES ASSUME apart, NEW e \in intact'
                 PROVE  /\ e.to <= Len(files'[e.file])
                        /\ \A i \in e.from .. e.to : files'[e.file][i] = e.entry
      BY <1>1 DEF Kept
    <3>1. CASE e = new
      BY <2>5, <2>6, <2>7, <3>1
    <3>2. CASE e \in intact
      <4>1. /\ e.from \in Nat \ {0} /\ e.to \in Nat /\ e.file \in DOMAIN files
            /\ e.to <= Len(files[e.file])
            /\ \A i \in e.from .. e.to : files[e.file][i] = e.entry
        BY <1>5, <3>2 DEF EntryTypes, Kept
      <4>2. CASE e.file = f
        <5>1. e.to <= p
          BY <2>10, <3>2, <4>2
        <5>2. \A i \in e.from .. e.to : i \in 1 .. Len(files[f]) /\ i <= p
          <6>1. p \in Nat /\ Len(files[f]) \in Nat
            BY <2>3
          <6>2. e.from \in Nat \ {0} /\ e.to \in Nat /\ e.to <= p /\ e.to <= Len(files[f])
            BY <4>1, <4>2, <5>1
          <6> QED BY <6>1, <6>2
        <5>3. e.to <= Len(b)
          <6>1. files[f] \in Seq(Nat) /\ b \in Seq(Nat) /\ Len(b) >= Len(files[f])
            BY <2>3, <2>5
          <6>2. Len(files[f]) \in Nat /\ Len(b) \in Nat
            BY <6>1
          <6>3. e.to <= Len(files[f]) /\ e.to \in Nat
            BY <4>1, <4>2
          <6> QED BY <6>1, <6>2, <6>3
        <5> QED
          BY <2>5, <2>6, <4>1, <4>2, <5>2, <5>3
      <4>3. CASE e.file # f
        BY <2>6, <4>1, <4>3
      <4> QED BY <4>2, <4>3
    <3> QED BY <2>8, <3>1, <3>2
  <2>12. CASE ~ k.alone
    <3>1. intact' = intact
      BY <2>3, <2>12
    <3>2. Solitude'
      BY <1>1, <1>3, <1>4, <1>5, <3>1, SolitudeStays
    <3>3. ASSUME apart, NEW u \in Threads PROVE CallSpares(u)'
      <4>1. CASE u = t
        BY <1>3, <1>4, <1>6, <3>1, <4>1 DEF CallSpares
      <4>2. CASE u # t
        <5>1. \A e \in intact' : \A d : Positioned(d, e.file)' => Positioned(d, e.file)
          BY <1>1, <3>1 DEF Positioned
        <5> QED
          BY <1>1, <1>4, <1>5, <3>1, <3>3, <4>2, <5>1, OthersSpared DEF KeptInv
      <4> QED BY <4>1, <4>2
    <3>4. ASSUME apart PROVE SizesReach'
      BY <1>1, <1>4, <3>1, <3>4 DEF KeptInv, SizesReach, Positioned
    <3> QED
      BY <1>1, <2>9, <2>11, <3>2, <3>3, <3>4 DEF KeptInv
  <2>13. CASE k.alone
    <3>1. Working = {t} /\ Working' = {t} /\ k.pos = size[l] /\ k.fd = fd[l]
      BY <1>1, <1>3, <1>4, <1>5, <2>13 DEF Solitude, Working
    <3>2. \A u \in Threads \ {t} : call'[u].pc = "idle"
      BY <3>1 DEF Working
    <3>3. Solitude'
      BY <1>3, <1>4, <3>1, <3>2 DEF Solitude
    <3>4. ASSUME apart, NEW u \in Threads PROVE CallSpares(u)'
      <4>1. CASE u = t
        <5>1. \A e \in intact' : e.entry = k.entry /\ Positioned(fd[l], e.file) =>
                  e.to <= size[l] + k.len
          BY <1>6, <2>3, <2>7, <2>8, <3>1 DEF Positioned
        <5> QED
          BY <1>1, <1>3, <1>4, <4>1, <5>1 DEF CallSpares, Positioned
      <4>2. CASE u # t
        BY <3>2, <4>2 DEF CallSpares
      <4> QED BY <4>1, <4>2
    <3>5. ASSUME apart PROVE SizesReach'
      <4> SUFFICES ASSUME NEW e \in intact', NEW m \in Logs, Positioned(fd[m], e.file)
                   PROVE  \/ e.to <= size[m]
                          \/ \E u \in Threads : /\ call'[u].pc \in {"load", "store"}
                                                /\ call'[u].log = m
                                                /\ call'[u].entry = e.entry
        BY <1>1 DEF SizesReach, Positioned
      <4>1. CASE e \in intact
        BY <1>1, <1>4, <3>5, <4>1 DEF KeptInv, SizesReach
      <4>2. CASE e = new
        <5>1. \A n \in Logs : fd[n] = 0 \/ OpenFor(fd[n], n)
          BY <1>1, <3>1, <3>5 DEF OneTurn, LogsOpen, Working
        <5>2. fd[l] # 0 /\ fd[m] # 0
          BY <1>8, <3>1 DEF Positioned, Fds
        <5>3. f[1] = l
          <6>1. OpenFor(fd[l], l)
            BY <1>1, <5>1, <5>2
          <6>2. table[fd[l]].file = f
            BY <2>3, <3>1
          <6> QED BY <6>1, <6>2 DEF OpenFor
        <5>4. f[1] = m
          <6>1. OpenFor(fd[m], m)
            BY <5>1, <5>2
          <6>2. table[fd[m]].file = e.file /\ e.file = f
            BY <2>7, <4>2 DEF Positioned
          <6> QED BY <6>1, <6>2 DEF OpenFor
        <5> QED
          BY <1>3, <1>4, <2>7, <4>2, <5>3, <5>4
      <4> QED BY <2>8, <4>1, <4>2
    <3> QED
      BY <1>1, <2>9, <2>11, <3>3, <3>4, <3>5 DEF KeptInv
  <2> QED BY <2>12, <2>13
<1> QED
  BY <1>7, <1>8 DEF Write

LEMMA StoreKeeps ==
  ASSUME TypeOK, KeptInv, NEW t \in Threads, Store(t)
  PROVE  KeptInv'
<1> DEFINE l == call[t].log
           sum == call[t].pos + call[t].len
           c == IF sum > LimitSize THEN TurnOf(call[t].log, call[t].entry, <<>>) ELSE Idle
<1>1. call[t] \in Counting /\ call[t].pc = "store" /\ l \in Logs /\ sum \in Nat
  BY CallKinds DEF Store, Counting
<1>2. /\ size' = [size EXCEPT ![l] = sum] /\ call' = [call EXCEPT ![t] = c]
      /\ UNCHANGED <<fd, table, files, calls, intact>>
      /\ apart' => apart
  BY DEF Store, kernel
<1>3. c.pc \in {"idle", "name"} /\ (c.pc = "name" => c.entry = call[t].entry)
  BY DEF TurnOf, Idle
<1> HIDE DEF c, sum
<1>4. call'[t] = c /\ \A u \in Threads \ {t} : call'[u] = call[u]
  BY <1>2 DEF TypeOK
<1>5. EntryTypes /\ Solitude /\ Kept
  BY DEF KeptInv
<1>6. Solitude'
  BY <1>1, <1>2, <1>3, <1>4, <1>5, SolitudeStays
<1>7. EntryTypes'
  <2>1. fd' \in [Logs -> 0..NumFds]
    BY <1>2, <1>5 DEF EntryTypes
  <2>2. \A u \in Threads :
            /\ call'[u].pc = "args" => /\ call[u].pc = "args" /\ call'[u].entry = call[u].entry
                                      /\ call'[u].fd \in 0..NumFds
            /\ call'[u].pc \in {"close", "set"} =>
                  call[u].pc \in {"close", "set"} /\ call'[u].new = call[u].new
    BY <1>3, <1>4, <1>5 DEF EntryTypes
  <2> QED
    BY <1>2, <1>5, <2>1, <2>2, FilesStay
<1>8. Kept'
  BY <1>2, <1>5, BytesStay
<1>9. ASSUME apart, NEW u \in Threads PROVE CallSpares(u)'
  <2>1. CASE u = t
    BY <1>3, <1>4, <2>1 DEF CallSpares
  <2>2. CASE u # t
    <3>1. \A e \in intact' : \A d : Positioned(d, e.file)' => Positioned(d, e.file)
      BY <1>2 DEF Positioned
    <3> QED
      BY <1>1, <1>2, <1>4, <1>5, <1>9, <2>2, <3>1, OthersSpared DEF KeptInv
  <2> QED BY <2>1, <2>2
<1>10. ASSUME apart PROVE SizesReach'
  <2> SUFFICES ASSUME NEW e \in intact, NEW m \in Logs, Positioned(fd[m], e.file)
               PROVE  \/ e.to <= size'[m]
                      \/ \E u \in Threads : /\ call'[u].pc \in {"load", "store"}
                                            /\ call'[u].log = m
                                            /\ call'[u].entry = e.entry
    BY <1>2 DEF SizesReach, Positioned
  <2>1. CASE m = l
    <3>1. e.to <= sum
      BY <1>1, <1>10, <2>1 DEF KeptInv, CallSpares, sum
    <3>2. size'[l] = sum
      BY <1>1, <1>2 DEF TypeOK
    <3> QED BY <2>1, <3>1, <3>2
  <2>2. CASE m # l
    <3>1. \/ e.to <= size[m]
          \/ \E u \in Threads : /\ call[u].pc \in {"load", "store"} /\ call[u].log = m
                                /\ call[u].entry = e.entry
      BY <1>10 DEF KeptInv, SizesReach
    <3>2. size'[m] = size[m]
      BY <1>1, <1>2, <2>2 DEF TypeOK
    <3> QED BY <1>4, <2>2, <3>1, <3>2
  <2> QED BY <2>1, <2>2
<1> QED
  BY <1>2, <1>6, <1>7, <1>8, <1>9, <1>10 DEF KeptInv

(* The new file begins empty: the entries of the one it replaces are no     *)
(* longer looked for.                                                       *)
LEMMA OpenKeeps ==
  ASSUME TypeOK, KeptInv, NEW t \in Threads, Open(t)
  PROVE  KeptInv'
<1>1. PICK d \in Lowest : /\ table' = [table EXCEPT ![d] = FileOf(path, FALSE)]
                          /\ call' = [call EXCEPT ![t].pc = "close", ![t].new = d]
  BY DEF Open
<1> DEFINE c == [call[t] EXCEPT !.pc = "close", !.new = d]
<1>2. /\ call[t] \in Turned /\ call[t].pc = "open" /\ d \in Fds /\ d \in Nat
      /\ files' = WithFile(path, <<>>) /\ intact' = {e \in intact : e.file # path}
      /\ UNCHANGED <<fd, size, calls, apart>>
  BY CallKinds DEF Open, Lowest, Fds, shared, TurnSteps
<1>3. call' = [call EXCEPT ![t] = c]
  BY <1>1, <1>2 DEF TypeOK, Turned
<1>4. c.pc = "close" /\ c.new = d /\ c.entry = call[t].entry
  BY <1>2 DEF Turned
<1> HIDE DEF c
<1>5. call'[t] = c /\ \A u \in Threads \ {t} : call'[u] = call[u]
  BY <1>3 DEF TypeOK
<1>6. EntryTypes /\ Solitude /\ Kept
  BY DEF KeptInv
<1>7. /\ DOMAIN files' = DOMAIN files \union {path}
      /\ \A g \in DOMAIN files' : files'[g] = IF g = path THEN <<>> ELSE files[g]
      /\ files' = [g \in DOMAIN files' |-> files'[g]]
  BY <1>2 DEF WithFile
<1>8. \A e \in Fds : table'[e] = IF e = d THEN FileOf(path, FALSE) ELSE table[e]
  BY <1>1, <1>2 DEF TypeOK
<1>9. EntryTypes'
  <2>1. \A g \in DOMAIN files' : files'[g] \in Seq(Nat)
    <3>1. \A g \in DOMAIN files : files[g] \in Seq(Nat)
      BY <1>6 DEF EntryTypes
    <3>2. <<>> \in Seq(Nat)
      OBVIOUS
    <3> QED
      BY <1>7, <3>1, <3>2
  <2>2. files' \in [DOMAIN files' -> Seq(Nat)]
    BY <1>7, <2>1
  <2>3. \A e \in Fds : table'[e].on = "file" =>
            table'[e].file \in DOMAIN files' /\ table'[e].append \in BOOLEAN
    <3> SUFFICES ASSUME NEW e \in Fds, table'[e].on = "file"
                 PROVE  table'[e].file \in DOMAIN files' /\ table'[e].append \in BOOLEAN
      OBVIOUS
    <3>1. CASE e = d
      <4>1. table'[e] = FileOf(path, FALSE)
        BY <1>8, <3>1
      <4>2. table'[e].file = path /\ table'[e].append = FALSE
        BY <4>1 DEF FileOf
      <4> QED BY <1>7, <4>2
    <3>2. CASE e # d
      <4>1. table'[e] = table[e]
        BY <1>8, <3>2
      <4> QED BY <1>6, <1>7, <4>1 DEF EntryTypes
    <3> QED BY <3>1, <3>2
  <2>4. intact' \subseteq [entry : 1 .. calls', file : DOMAIN files', from : Nat \ {0}, to : Nat]
    BY <1>2, <1>6, <1>7 DEF EntryTypes
  <2>5. /\ fd' \in [Logs -> 0..NumFds]
        /\ \A u \in Threads :
             /\ call'[u].pc = "args" => call'[u].entry \in 1 .. calls' /\ call'[u].fd \in 0..NumFds
             /\ call'[u].pc \in {"close", "set"} => call'[u].new \in Fds
    BY <1>2, <1>4, <1>5, <1>6 DEF EntryTypes
  <2> QED BY <2>2, <2>3, <2>4, <2>5 DEF EntryTypes
<1>10. Solitude'
  BY <1>2, <1>4, <1>5, <1>6, SolitudeStays
<1>11. Kept'
  <2> SUFFICES ASSUME apart, NEW e \in intact, e.file # path
               PROVE  /\ e.to <= Len(files'[e.file])
                      /\ \A i \in e.from .. e.to : files'[e.file][i] = e.entry
    BY <1>2 DEF Kept
  <2>1. files'[e.file] = files[e.file]
    BY <1>6, <1>7 DEF EntryTypes
  <2> QED
    BY <1>6, <2>1 DEF Kept
<1>12. \A e \in intact' : \A x : Positioned(x, e.file)' => Positioned(x, e.file)
  BY <1>2, <1>8 DEF Positioned, FileOf
<1>13. ASSUME apart, NEW u \in Threads PROVE CallSpares(u)'
  <2>1. CASE u = t
    <3>1. \A e \in intact' : ~ Positioned(d, e.file)'
      BY <1>2, <1>8 DEF Positioned, FileOf
    <3> QED
      BY <1>4, <1>5, <2>1, <3>1 DEF CallSpares, Positioned
  <2>2. CASE u # t
    BY <1>2, <1>5, <1>6, <1>12, <1>13, <2>2, OthersSpared DEF KeptInv
  <2> QED BY <2>1, <2>2
<1>14. ASSUME apart PROVE SizesReach'
  <2> SUFFICES ASSUME NEW e \in intact', NEW m \in Logs, Positioned(fd[m], e.file)'
               PROVE  \/ e.to <= size[m]
                      \/ \E u \in Threads : /\ call'[u].pc \in {"load", "store"}
                                            /\ call'[u].log = m
                                            /\ call'[u].entry = e.entry
    BY <1>2 DEF SizesReach
  <2>1. e \in intact /\ Positioned(fd[m], e.file)
    BY <1>2, <1>12 DEF Positioned
  <2>2. \/ e.to <= size[m]
        \/ \E u \in Threads : /\ call[u].pc \in {"load", "store"} /\ call[u].log = m
                              /\ call[u].entry = e.entry
    BY <1>14, <2>1 DEF KeptInv, SizesReach
  <2> QED BY <1>2, <1>5, <2>2
<1> QED
  BY <1>2, <1>9, <1>10, <1>11, <1>13, <1>14 DEF KeptInv

LEMMA CloseKeeps ==
  ASSUME TypeOK, KeptInv, NEW t \in Threads, Close(t)
  PROVE  KeptInv'
<1> DEFINE c == [call[t] EXCEPT !.pc = "set"]
<1>1. /\ call[t] \in Turned /\ call[t].pc = "close"
      /\ UNCHANGED <<fd, size, files, calls, apart, intact>>
      /\ \A d \in Fds : table'[d] = table[d] \/ table'[d] = Closed
  BY CallKinds DEF Close, shared, history, TurnSteps
<1>2. call' = [call EXCEPT ![t] = c]
  BY <1>1 DEF Close, TypeOK, Turned
<1>3. c.pc = "set" /\ c.entry = call[t].entry /\ c.new = call[t].new
  BY <1>1 DEF Turned
<1> HIDE DEF c
<1>4. call'[t] = c /\ \A u \in Threads \ {t} : call'[u] = call[u]
  BY <1>2 DEF TypeOK
<1>5. EntryTypes /\ Solitude /\ Kept
  BY DEF KeptInv
<1>6. Solitude'
  BY <1>1, <1>3, <1>4, <1>5, SolitudeStays
<1>7. EntryTypes'
  <2>1. fd' \in [Logs -> 0..NumFds]
    BY <1>1, <1>5 DEF EntryTypes
  <2>2. \A u \in Threads :
            /\ call'[u].pc = "args" => /\ call[u].pc = "args" /\ call'[u].entry = call[u].entry
                                      /\ call'[u].fd \in 0..NumFds
            /\ call'[u].pc \in {"close", "set"} =>
                  call[u].pc \in {"close", "set"} /\ call'[u].new = call[u].new
    BY <1>1, <1>3, <1>4, <1>5 DEF EntryTypes
  <2>3. \A d \in Fds : table'[d].on = "file" => table'[d] = table[d]
    BY <1>1 DEF Closed
  <2> QED
    BY <1>1, <1>5, <2>1, <2>2, <2>3, FilesStay
<1>8. Kept'
  BY <1>1, <1>5, BytesStay
<1>9. \A f, d : Positioned(d, f)' => Positioned(d, f)
  <2> SUFFICES ASSUME NEW f, NEW d, Positioned(d, f)' PROVE Positioned(d, f)
    OBVIOUS
  <2>1. d \in Fds /\ table'[d].on = "file"
    BY DEF Positioned
  <2>2. table'[d] = table[d]
    BY <1>1, <2>1 DEF Closed
  <2> QED BY <2>2 DEF Positioned
<1>10. ASSUME apart, NEW u \in Threads PROVE CallSpares(u)'
  <2>1. CASE u = t
    <3>1. \A e \in intact : ~ Positioned(call[t].new, e.file)
      BY <1>1, <1>10 DEF KeptInv, CallSpares
    <3> QED
      BY <1>1, <1>3, <1>4, <1>9, <2>1, <3>1 DEF CallSpares, Positioned
  <2>2. CASE u # t
    BY <1>1, <1>4, <1>5, <1>9, <1>10, <2>2, OthersSpared DEF KeptInv
  <2> QED BY <2>1, <2>2
<1>11. ASSUME apart PROVE SizesReach'
  <2> SUFFICES ASSUME NEW e \in intact, NEW m \in Logs, Positioned(fd[m], e.file)'
               PROVE  \/ e.to <= size[m]
                      \/ \E u \in Threads : /\ call'[u].pc \in {"load", "store"}
                                            /\ call'[u].log = m
                                            /\ call'[u].entry = e.entry
    BY <1>1 DEF SizesReach
  <2>1. Positioned(fd[m], e.file)
    BY <1>1, <1>9 DEF Positioned
  <2>2. \/ e.to <= size[m]
        \/ \E u \in Threads : /\ call[u].pc \in {"load", "store"} /\ call[u].log = m
                              /\ call[u].entry = e.entry
    BY <1>11, <2>1 DEF KeptInv, SizesReach
  <2> QED BY <1>1, <1>4, <2>2
<1> QED
  BY <1>1, <1>6, <1>7, <1>8, <1>10, <1>11 DEF KeptInv

(* The log's descriptor becomes that of the new file, in which no entry is  *)
(* yet; the old one is closed, so nobody who still holds it finds a file.   *)
LEMMA SetKeeps ==
  ASSUME TypeOK, OneTurn, KeptInv, NEW t \in Threads, Set(t)
  PROVE  KeptInv'
<1> DEFINE l == call[t].log
           n == call[t].new
           c == [call[t] EXCEPT !.pc = "reset"]
<1>1. /\ call[t] \in Turned /\ call[t].pc = "set" /\ l \in Logs
      /\ UNCHANGED <<size, table, files, calls, apart, intact>>
      /\ fd' = [fd EXCEPT ![l] = n]
  BY CallKinds DEF Set, kernel, history, TurnSteps, Turned
<1>2. call' = [call EXCEPT ![t] = c]
  BY <1>1 DEF Set, TypeOK, Turned
<1>3. c.pc = "reset" /\ c.entry = call[t].entry /\ c.log = l
  BY <1>1 DEF Turned
<1> HIDE DEF c
<1>4. call'[t] = c /\ \A u \in Threads \ {t} : call'[u] = call[u]
  BY <1>2 DEF TypeOK
<1>5. EntryTypes /\ Solitude /\ Kept
  BY DEF KeptInv
<1>6. Solitude'
  BY <1>1, <1>3, <1>4, <1>5, SolitudeStays
<1>7. EntryTypes'
  <2>1. fd' \in [Logs -> 0..NumFds]
    BY <1>1, <1>5, LogAssumption DEF EntryTypes, Fds
  <2>2. \A u \in Threads :
            /\ call'[u].pc = "args" => /\ call[u].pc = "args" /\ call'[u].entry = call[u].entry
                                      /\ call'[u].fd \in 0..NumFds
            /\ call'[u].pc \in {"close", "set"} =>
                  call[u].pc \in {"close", "set"} /\ call'[u].new = call[u].new
    BY <1>1, <1>3, <1>4, <1>5 DEF EntryTypes
  <2> QED
    BY <1>1, <1>5, <2>1, <2>2, FilesStay
<1>8. Kept'
  BY <1>1, <1>5, BytesStay
<1>9. fd'[l] = n /\ \A m \in Logs : m # l => fd'[m] = fd[m]
  BY <1>1 DEF TypeOK
<1>10. ASSUME apart
       PROVE  /\ \A e \in intact : ~ Positioned(n, e.file)
              /\ \A f : ~ Positioned(fd[l], f)
              /\ \A u \in Threads \ {t} : call[u].pc \notin TurnSteps
  <2>1. \A e \in intact : ~ Positioned(n, e.file)
    BY <1>1, <1>10 DEF KeptInv, CallSpares
  <2>2. fd[l] = 0 \/ (fd[l] \in Fds /\ table[fd[l]].on # "file")
    BY <1>1, <1>10 DEF OneTurn, TurnHolds
  <2>3. \A f : ~ Positioned(fd[l], f)
    BY <2>2 DEF Positioned, Fds
  <2>4. \A u \in Threads \ {t} : call[u].pc \notin TurnSteps
    BY <1>1, <1>10 DEF OneTurn, Turning, TurnSteps
  <2> QED BY <2>1, <2>3, <2>4
<1>11. ASSUME apart, NEW u \in Threads PROVE CallSpares(u)'
  <2>1. CASE u = t
    BY ZenonT(30), <1>1, <1>3, <1>4, <1>9, <1>10, <1>11, <2>1 DEF CallSpares, Positioned
  <2>2. CASE u # t
    <3> SUFFICES ASSUME NEW e \in intact
                 PROVE  /\ call[u].pc = "args" /\ "pos" \in call[u].got
                              /\ Positioned(fd'[call[u].log], e.file) => e.to <= call[u].pos
                        /\ call[u].pc = "args" /\ "fd" \in call[u].got
                              /\ call[u].fd # fd'[call[u].log] => ~ Positioned(call[u].fd, e.file)
                        /\ ~ (call[u].pc = "load" /\ call[u].entry = e.entry)
                        /\ call[u].pc = "store" /\ Positioned(fd'[call[u].log], e.file)
                              => e.to <= call[u].pos + call[u].len
      <4>1. call[u].pc \notin {"close", "set", "reset"} /\ call'[u] = call[u]
        BY <1>4, <1>10, <1>11, <2>2 DEF TurnSteps
      <4>2. intact' = intact /\ size' = size
        BY <1>1
      <4>3. \A d, f : Positioned(d, f)' <=> Positioned(d, f)
        BY <1>1 DEF Positioned
      <4> QED BY <4>1, <4>2, <4>3 DEF CallSpares
    <3>1. ~ (call[u].pc = "load" /\ call[u].entry = e.entry)
      BY <1>1, <1>5, <2>2 DEF Solitude, Working
    <3>2. CallSpares(u) /\ (call[u].pc \in {"args", "store"} => call[u].log \in Logs)
      BY <1>11, CallKinds DEF KeptInv, Entered, Counting
    <3>3. CASE call[u].log = l
      BY <1>9, <1>10, <1>11, <3>1, <3>2, <3>3 DEF CallSpares
    <3>4. CASE call[u].log # l
      BY <1>9, <3>1, <3>2, <3>4 DEF CallSpares
    <3> QED BY <3>3, <3>4
  <2> QED BY <2>1, <2>2
<1>12. ASSUME apart PROVE SizesReach'
  <2> SUFFICES ASSUME NEW e \in intact, NEW m \in Logs, Positioned(fd'[m], e.file)
               PROVE  \/ e.to <= size[m]
                      \/ \E u \in Threads : /\ call'[u].pc \in {"load", "store"}
                                            /\ call'[u].log = m
                                            /\ call'[u].entry = e.entry
    BY <1>1 DEF SizesReach, Positioned
  <2>1. m # l /\ fd'[m] = fd[m]
    BY <1>9, <1>10, <1>12
  <2>2. \/ e.to <= size[m]
        \/ \E u \in Threads : /\ call[u].pc \in {"load", "store"} /\ call[u].log = m
                              /\ call[u].entry = e.entry
    BY <1>12, <2>1 DEF KeptInv, SizesReach
  <2> QED BY <1>1, <1>4, <2>2
<1> QED
  BY <1>1, <1>6, <1>7, <1>8, <1>11, <1>12 DEF KeptInv

(* The size starts at nothing, as no entry is in the file.                  *)
LEMMA ResetKeeps ==
  ASSUME TypeOK, KeptInv, NEW t \in Threads, Reset(t)
  PROVE  KeptInv'
<1> DEFINE l == call[t].log
           c == IF call[t].todo = <<>> THEN Idle
                ELSE TurnOf(Head(call[t].todo), 0, Tail(call[t].todo))
<1>1. /\ call[t] \in Turned /\ call[t].pc = "reset" /\ l \in Logs
      /\ UNCHANGED <<fd, table, files, calls, apart, intact>>
      /\ size' = [size EXCEPT ![l] = 0] /\ call' = [call EXCEPT ![t] = c]
  BY CallKinds DEF Reset, kernel, history, TurnSteps, Turned
<1>2. c.pc \in {"idle", "name"} /\ (c.pc = "name" => c.entry = 0)
  BY DEF TurnOf, Idle
<1> HIDE DEF c
<1>3. call'[t] = c /\ \A u \in Threads \ {t} : call'[u] = call[u]
  BY <1>1 DEF TypeOK
<1>4. EntryTypes /\ Solitude /\ Kept
  BY DEF KeptInv
<1>5. Solitude'
  BY <1>1, <1>2, <1>3, <1>4, SolitudeStays
<1>6. EntryTypes'
  <2>1. fd' \in [Logs -> 0..NumFds]
    BY <1>1, <1>4 DEF EntryTypes
  <2>2. \A u \in Threads :
            /\ call'[u].pc = "args" => /\ call[u].pc = "args" /\ call'[u].entry = call[u].entry
                                      /\ call'[u].fd \in 0..NumFds
            /\ call'[u].pc \in {"close", "set"} =>
                  call[u].pc \in {"close", "set"} /\ call'[u].new = call[u].new
    BY <1>2, <1>3, <1>4 DEF EntryTypes
  <2> QED
    BY <1>1, <1>4, <2>1, <2>2, FilesStay
<1>7. Kept'
  BY <1>1, <1>4, BytesStay
<1>8. ASSUME apart, NEW u \in Threads PROVE CallSpares(u)'
  <2>1. CASE u = t
    BY <1>2, <1>3, <2>1 DEF CallSpares
  <2>2. CASE u # t
    <3>1. \A e \in intact' : \A d : Positioned(d, e.file)' => Positioned(d, e.file)
      BY <1>1 DEF Positioned
    <3> QED
      BY <1>1, <1>3, <1>4, <1>8, <2>2, <3>1, OthersSpared DEF KeptInv
  <2> QED BY <2>1, <2>2
<1>9. ASSUME apart PROVE SizesReach'
  <2> SUFFICES ASSUME NEW e \in intact, NEW m \in Logs, Positioned(fd[m], e.file)
               PROVE  \/ e.to <= size'[m]
                      \/ \E u \in Threads : /\ call'[u].pc \in {"load", "store"}
                                            /\ call'[u].log = m
                                            /\ call'[u].entry = e.entry
    BY <1>1 DEF SizesReach, Positioned
  <2>1. m # l
    BY <1>1, <1>9 DEF KeptInv, CallSpares
  <2>2. size'[m] = size[m]
    BY <1>1, <2>1 DEF TypeOK
  <2>3. \/ e.to <= size[m]
        \/ \E u \in Threads : /\ call[u].pc \in {"load", "store"} /\ call[u].log = m
                              /\ call[u].entry = e.entry
    BY <1>9 DEF KeptInv, SizesReach
  <2> QED BY <1>1, <1>3, <2>2, <2>3
<1> QED
  BY <1>1, <1>5, <1>6, <1>7, <1>8, <1>9 DEF KeptInv

(* A call that begins: an entry of a call that is under way no longer       *)
(* counts, and nobody is alone any more but the new call, if it is.         *)
LEMMA BeginsKeeps ==
  ASSUME TypeOK, KeptInv, NEW t \in Threads, NEW c \in Calls, Begins(t, c),
         UNCHANGED <<fd, size, table, files>>, apart' => apart,
         \/ c.pc = "name" /\ c.entry = 0
         \/ /\ c.pc = "args" /\ c.entry = calls + 1 /\ c.got = {} /\ c.fd = 0
            /\ c.alone => Working = {}
  PROVE  KeptInv'
<1>1. /\ call[t].pc = "idle" /\ calls' = calls + 1 /\ calls \in Nat
      /\ intact' = {e \in intact : \A u \in Working : e.entry # call[u].entry}
      /\ call' = [u \in Threads |-> IF u = t THEN c
                                    ELSE IF u \in Working THEN [call[u] EXCEPT !.alone = FALSE]
                                    ELSE call[u]]
  BY DEF Begins, TypeOK
<1>2. call'[t] = c
  BY <1>1
<1>3. ASSUME NEW u \in Threads, u # t
      PROVE  /\ call'[u].pc = call[u].pc
             /\ call[u].pc # "idle" =>
                   call'[u].entry = call[u].entry /\ call'[u].log = call[u].log
             /\ call[u].pc = "args" =>
                   /\ call'[u].got = call[u].got /\ call'[u].fd = call[u].fd
                   /\ call'[u].pos = call[u].pos /\ call'[u].alone = FALSE
             /\ call[u].pc \in {"load", "store"} =>
                   call'[u].pos = call[u].pos /\ call'[u].len = call[u].len
             /\ call[u].pc \in TurnSteps => call'[u].new = call[u].new
  <2>1. CASE u \notin Working
    <3>1. call'[u] = call[u] /\ call[u].pc = "idle"
      BY <1>1, <1>3, <2>1 DEF Working
    <3> QED BY <3>1 DEF TurnSteps
  <2>2. CASE u \in Working
    <3>1. call'[u] = [call[u] EXCEPT !.alone = FALSE]
      BY <1>1, <1>3, <2>2
    <3>2. call[u] \in Entered \union Counting \union Turned
      BY <2>2 DEF TypeOK, Working, Idle
    <3>3. CASE call[u] \in Entered
      BY <3>1, <3>3 DEF Entered, TurnSteps
    <3>4. CASE call[u] \in Counting
      BY <3>1, <3>4 DEF Counting, TurnSteps
    <3>5. CASE call[u] \in Turned
      BY <3>1, <3>5 DEF Turned, TurnSteps
    <3> QED BY <3>2, <3>3, <3>4, <3>5
  <2> QED BY <2>1, <2>2
<1>4. EntryTypes /\ Solitude /\ Kept
  BY DEF KeptInv
<1>5. ASSUME NEW e \in intact'
      PROVE  /\ e \in intact /\ e.entry \in 1 .. calls
             /\ \A u \in Threads : call[u].pc # "idle" => e.entry # call[u].entry
  BY <1>1, <1>4 DEF EntryTypes, Working
<1>6. EntryTypes'
  <2>1. intact' \subseteq [entry : 1 .. calls', file : DOMAIN files', from : Nat \ {0}, to : Nat]
    <3> SUFFICES ASSUME NEW e \in intact'
                 PROVE  e \in [entry : 1 .. calls', file : DOMAIN files', from : Nat \ {0}, to : Nat]
      OBVIOUS
    <3>1. e \in [entry : 1 .. calls, file : DOMAIN files, from : Nat \ {0}, to : Nat]
      BY <1>4, <1>5 DEF EntryTypes
    <3> QED BY <1>1, <3>1
  <2>2. ASSUME NEW u \in Threads
        PROVE  /\ call'[u].pc = "args" => call'[u].entry \in 1 .. calls' /\ call'[u].fd \in 0..NumFds
               /\ call'[u].pc \in {"close", "set"} => call'[u].new \in Fds
    <3>1. CASE u = t
      BY <1>1, <1>2, <3>1, LogAssumption
    <3>2. CASE u # t
      <4>1. /\ call[u].pc = "args" => call[u].entry \in 1 .. calls /\ call[u].fd \in 0..NumFds
            /\ call[u].pc \in {"close", "set"} => call[u].new \in Fds
        BY <1>4 DEF EntryTypes
      <4>2. call[u].pc = "args" => call[u].entry \in 1 .. calls'
        BY <1>1, <4>1
      <4> QED
        BY <1>3, <3>2, <4>1, <4>2 DEF TurnSteps
    <3> QED BY <3>1, <3>2
  <2> QED
    BY <1>4, <2>1, <2>2 DEF EntryTypes
<1>7. Solitude'
  <2>1. ASSUME NEW u \in Threads, call'[u].pc = "args", call'[u].alone
        PROVE  /\ Working' = {u}
               /\ "pos" \in call'[u].got => call'[u].pos = size'[call'[u].log]
               /\ "fd" \in call'[u].got => call'[u].fd = fd'[call'[u].log]
    <3>1. u = t
      BY <1>3, <2>1
    <3>2. Working = {} /\ call'[u].got = {}
      BY <1>2, <2>1, <3>1
    <3>3. Working' = {t}
      BY ZenonT(30), <1>2, <1>3, <2>1, <3>1, <3>2 DEF Working
    <3> QED BY <3>1, <3>2, <3>3
  <2>2. ASSUME NEW e \in intact', NEW u \in Working' PROVE call'[u].entry # e.entry
    <3>1. u \in Threads /\ call'[u].pc # "idle"
      BY DEF Working
    <3>2. CASE u = t
      BY <1>1, <1>2, <1>5, <3>2
    <3>3. CASE u # t
      <4>1. call[u].pc # "idle" /\ call'[u].entry = call[u].entry
        BY <1>3, <3>1, <3>3
      <4> QED BY <1>5, <3>1, <4>1
    <3> QED BY <3>2, <3>3
  <2> QED BY <2>1, <2>2 DEF Solitude
<1>8. Kept'
  <2>1. intact' \subseteq intact
    BY <1>1
  <2> QED BY <1>4, <2>1, BytesStay
<1>9. ASSUME apart', NEW u \in Threads PROVE CallSpares(u)'
  <2>1. CASE u = t
    BY <1>2, <2>1 DEF CallSpares
  <2>2. CASE u # t
    <3> SUFFICES ASSUME NEW e \in intact'
                 PROVE  /\ call[u].pc = "args" /\ "pos" \in call'[u].got
                              /\ Positioned(fd[call'[u].log], e.file) => e.to <= call'[u].pos
                        /\ call[u].pc = "args" /\ "fd" \in call'[u].got
                              /\ call'[u].fd # fd[call'[u].log] => ~ Positioned(call'[u].fd, e.file)
                        /\ ~ (call[u].pc = "load" /\ call'[u].entry = e.entry)
                        /\ call[u].pc = "store" /\ Positioned(fd[call'[u].log], e.file)
                              => e.to <= call'[u].pos + call'[u].len
                        /\ call[u].pc \in {"close", "set"} => ~ Positioned(call'[u].new, e.file)
                        /\ call[u].pc = "reset" => ~ Positioned(fd[call'[u].log], e.file)
      <4>1. call'[u].pc = call[u].pc
        BY <1>3, <2>2
      <4>2. \A d, f : Positioned(d, f)' <=> Positioned(d, f)
        BY DEF Positioned
      <4> QED
        BY <4>1, <4>2 DEF CallSpares
    <3>1. e \in intact /\ CallSpares(u)
      BY <1>5, <1>9 DEF KeptInv
    <3>2. CASE call[u].pc = "args"
      <4>1. /\ call'[u].got = call[u].got /\ call'[u].fd = call[u].fd
            /\ call'[u].pos = call[u].pos /\ call'[u].log = call[u].log
        BY <1>3, <2>2, <3>2
      <4> QED BY <3>1, <3>2, <4>1 DEF CallSpares
    <3>3. CASE call[u].pc \in {"load", "store"}
      <4>1. /\ call'[u].pos = call[u].pos /\ call'[u].len = call[u].len
            /\ call'[u].log = call[u].log /\ call'[u].entry = call[u].entry
            /\ e.entry # call[u].entry
        BY <1>3, <1>5, <2>2, <3>3
      <4> QED BY <3>1, <3>3, <4>1 DEF CallSpares
    <3>4. CASE call[u].pc \in TurnSteps
      BY <1>3, <2>2, <3>1, <3>4 DEF CallSpares, TurnSteps
    <3> QED
      BY <3>2, <3>3, <3>4 DEF TurnSteps
  <2> QED BY <2>1, <2>2
<1>10. ASSUME apart' PROVE SizesReach'
  <2> SUFFICES ASSUME NEW e \in intact', NEW m \in Logs, Positioned(fd[m], e.file)
               PROVE  e.to <= size[m]
    BY DEF SizesReach, Positioned
  <2> QED
    BY <1>5, <1>10 DEF KeptInv, SizesReach
<1> QED
  BY <1>6, <1>7, <1>8, <1>9, <1>10 DEF KeptInv

(* The calls that run while nobody logs: what they open is appended to or   *)
(* is not there to be written any more.                                     *)
LEMMA QuietKeeps ==
  ASSUME TypeOK, KeptInv, (\E l \in Logs : SetFile(l)) \/ SetPrintf \/ LogClose
  PROVE  KeptInv'
<1>1. /\ call' = call /\ calls' = calls + 1 /\ calls \in Nat
      /\ UNCHANGED <<intact, apart>>
      /\ \A t \in Threads : call[t].pc = "idle"
  <2>1. calls' = calls + 1 /\ UNCHANGED <<intact, apart>>
    BY DEF SetFile, SetPrintf, LogClose, Quiet, history
  <2> QED BY <2>1, QuietCalls DEF TypeOK
<1>2. EntryTypes /\ Solitude /\ Kept /\ (apart => SizesReach)
  BY DEF KeptInv
<1>3. Solitude' /\ \A t \in Threads : CallSpares(t)'
  BY <1>1 DEF Solitude, CallSpares, Working
<1>4. \A e \in intact : e \in [entry : 1 .. calls', file : DOMAIN files, from : Nat \ {0}, to : Nat]
  <2> SUFFICES ASSUME NEW e \in intact
               PROVE  e \in [entry : 1 .. calls', file : DOMAIN files, from : Nat \ {0}, to : Nat]
    OBVIOUS
  <2>1. e \in [entry : 1 .. calls, file : DOMAIN files, from : Nat \ {0}, to : Nat]
    BY <1>2 DEF EntryTypes
  <2> QED BY <1>1, <2>1
<1>5. SUFFICES /\ files' \in [DOMAIN files' -> Seq(Nat)]
               /\ DOMAIN files \subseteq DOMAIN files'
               /\ \A f \in DOMAIN files : files'[f] = files[f]
               /\ \A d \in Fds : table'[d].on = "file" =>
                     table'[d].file \in DOMAIN files' /\ table'[d].append \in BOOLEAN
               /\ fd' \in [Logs -> 0..NumFds]
               /\ \A l \in Logs : \A f : Positioned(fd[l], f)' =>
                     fd'[l] = fd[l] /\ size'[l] = size[l] /\ Positioned(fd[l], f)
  <2>1. EntryTypes'
    BY <1>1, <1>4, <1>5 DEF EntryTypes
  <2>2. Kept'
    <3> SUFFICES ASSUME apart, NEW e \in intact
                 PROVE  /\ e.to <= Len(files'[e.file])
                        /\ \A i \in e.from .. e.to : files'[e.file][i] = e.entry
      BY <1>1 DEF Kept
    <3>1. files'[e.file] = files[e.file]
      BY <1>4, <1>5
    <3> QED BY <1>2, <3>1 DEF Kept
  <2>3. ASSUME apart PROVE SizesReach'
    <3> SUFFICES ASSUME NEW e \in intact, NEW m \in Logs, Positioned(fd[m], e.file)'
                 PROVE  e.to <= size'[m]
      BY <1>1 DEF SizesReach
    <3>1. size'[m] = size[m] /\ Positioned(fd[m], e.file)
      BY <1>5 DEF Positioned
    <3> QED BY <1>1, <1>2, <2>3, <3>1 DEF SizesReach
  <2> QED BY <1>1, <1>3, <2>1, <2>2, <2>3 DEF KeptInv
<1>6. ~ (0 \in Fds)
  BY DEF Fds
<1>7. CASE SetPrintf
  <2>1. /\ UNCHANGED <<table, files>> /\ fd' = [l \in Logs |-> 0]
    BY <1>7 DEF SetPrintf, kernel
  <2>2. fd' \in [Logs -> 0..NumFds]
    BY <2>1, LogAssumption
  <2> QED BY <1>2, <1>6, <2>1, <2>2 DEF EntryTypes, Positioned
<1>8. CASE LogClose
  <2>1. /\ files' = files /\ fd' = [l \in Logs |-> 0]
        /\ \A d \in Fds : table'[d] = table[d] \/ table'[d] = Closed
    BY <1>8 DEF LogClose
  <2>2. fd' \in [Logs -> 0..NumFds]
    BY <2>1, LogAssumption
  <2>3. \A d \in Fds : table'[d].on = "file" => table'[d] = table[d]
    BY <2>1 DEF Closed
  <2> QED BY <1>2, <1>6, <2>1, <2>2, <2>3 DEF EntryTypes, Positioned
<1>9. ASSUME NEW l \in Logs, SetFile(l)
      PROVE  /\ files' \in [DOMAIN files' -> Seq(Nat)]
             /\ DOMAIN files \subseteq DOMAIN files'
             /\ \A f \in DOMAIN files : files'[f] = files[f]
             /\ \A d \in Fds : table'[d].on = "file" =>
                   table'[d].file \in DOMAIN files' /\ table'[d].append \in BOOLEAN
             /\ fd' \in [Logs -> 0..NumFds]
             /\ \A k \in Logs : \A f : Positioned(fd[k], f)' =>
                   fd'[k] = fd[k] /\ size'[k] = size[k] /\ Positioned(fd[k], f)
  <2>1. PICK d \in Lowest :
          /\ table' = [e \in Fds |-> IF e = d THEN FileOf(SetName(l), TRUE)
                                     ELSE IF e = fd[l] THEN Closed ELSE table[e]]
          /\ fd' = [fd EXCEPT ![l] = d]
    BY <1>9 DEF SetFile
  <2>2. /\ files' = IF SetName(l) \in DOMAIN files THEN files ELSE WithFile(SetName(l), <<>>)
        /\ size' = size /\ d \in Fds
    BY <1>9 DEF SetFile, Lowest
  <2>3. /\ files' \in [DOMAIN files' -> Seq(Nat)] /\ SetName(l) \in DOMAIN files'
        /\ DOMAIN files \subseteq DOMAIN files' /\ \A f \in DOMAIN files : files'[f] = files[f]
    <3>1. CASE SetName(l) \in DOMAIN files
      BY <1>2, <2>2, <3>1 DEF EntryTypes
    <3>2. CASE SetName(l) \notin DOMAIN files
      <4>1. files' = [g \in DOMAIN files \union {SetName(l)} |->
                         IF g = SetName(l) THEN <<>> ELSE files[g]]
        BY <2>2, <3>2 DEF WithFile
      <4>2. \A g \in DOMAIN files \union {SetName(l)} :
               (IF g = SetName(l) THEN <<>> ELSE files[g]) \in Seq(Nat)
        <5>1. \A g \in DOMAIN files : files[g] \in Seq(Nat)
          BY <1>2 DEF EntryTypes
        <5> QED BY <5>1
      <4> QED BY <3>2, <4>1, <4>2
    <3> QED BY <3>1, <3>2
  <2>4. ASSUME NEW e \in Fds, table'[e].on = "file"
        PROVE  /\ table'[e].file \in DOMAIN files' /\ table'[e].append \in BOOLEAN
               /\ ~ table'[e].append => e # d /\ table'[e] = table[e]
    <3>1. CASE e = d
      <4>1. table'[e] = FileOf(SetName(l), TRUE)
        BY <2>1, <3>1
      <4>2. table'[e].file = SetName(l) /\ table'[e].append = TRUE
        BY <4>1 DEF FileOf
      <4> QED BY <2>3, <4>2
    <3>2. CASE e # d
      <4>1. table'[e] = table[e]
        BY <2>1, <2>4, <3>2 DEF Closed
      <4> QED BY <1>2, <2>3, <2>4, <3>2, <4>1 DEF EntryTypes
    <3> QED BY <3>1, <3>2
  <2>5. fd' \in [Logs -> 0..NumFds] /\ \A k \in Logs : fd'[k] # d => fd'[k] = fd[k]
    BY <1>2, <2>1, <2>2, LogAssumption DEF EntryTypes, Fds
  <2>6. \A k \in Logs : \A f : Positioned(fd[k], f)' =>
             fd'[k] = fd[k] /\ size'[k] = size[k] /\ Positioned(fd[k], f)
    BY <2>2, <2>4, <2>5 DEF Positioned
  <2> QED BY <2>3, <2>4, <2>5, <2>6
<1> QED BY <1>7, <1>8, <1>9

LEMMA StillKeeps ==
  ASSUME TypeOK, KeptInv,
         UNCHANGED <<fd, size, table, files, call, calls, intact, apart>>
  PROVE  KeptInv'
<1>1. EntryTypes'
  BY DEF KeptInv, EntryTypes
<1>2. Solitude'
  BY DEF KeptInv, Solitude, Working
<1>3. \A d, f : Positioned(d, f)' <=> Positioned(d, f)
  BY DEF Positioned
<1>4. ASSUME apart PROVE SizesReach'
  BY <1>3, <1>4 DEF KeptInv, SizesReach
<1>5. ASSUME apart, NEW t \in Threads PROVE CallSpares(t)'
  BY <1>3, <1>5 DEF KeptInv, CallSpares
<1>6. Kept'
  BY DEF KeptInv, Kept
<1> QED BY <1>1, <1>2, <1>4, <1>5, <1>6 DEF KeptInv

LEMMA KeptStep ==
  ASSUME TypeOK, OneTurn, KeptInv, [Next]_vars
  PROVE  KeptInv'
<1>1. ASSUME NEW t \in Threads, NEW l \in Logs, NEW n \in EntrySizes, Log(t, l, n)
      PROVE  KeptInv'
  <2> DEFINE c == [pc |-> "args", log |-> l, entry |-> calls + 1, len |-> n,
                   got |-> {}, fd |-> 0, pos |-> 0, alone |-> Working = {}]
  <2>1. c \in Calls /\ c.pc = "args" /\ c.entry = calls + 1 /\ c.got = {} /\ c.fd = 0
        /\ (c.alone => Working = {})
    <3>1. c \in Entered
      BY LogAssumption DEF Entered, TypeOK
    <3> QED BY <3>1 DEF Calls
  <2>2. Begins(t, c) /\ UNCHANGED <<fd, size, table, files, apart>>
    BY <1>1 DEF Log, shared, kernel
  <2> HIDE DEF c
  <2> QED BY <2>1, <2>2, BeginsKeeps
<1>2. ASSUME NEW t \in Threads, SetPath(t) PROVE KeptInv'
  <2> DEFINE c == TurnOf(Head(Order), 0, Tail(Order))
  <2>1. c \in Turned /\ c.pc = "name" /\ c.entry = 0
    <3>1. Head(Order) \in Logs /\ Tail(Order) \in Seq(Logs) /\ 0 \in Nat
      BY OrderFacts
    <3> QED BY <3>1, TurnOfType DEF TurnOf
  <2>2. Begins(t, c) /\ UNCHANGED <<fd, size, table, files>> /\ (apart' => apart)
    BY <1>2 DEF SetPath, shared, kernel
  <2> HIDE DEF c
  <2> QED BY <2>1, <2>2, BeginsKeeps DEF Calls
<1>3. ASSUME NEW t \in Threads, Entry(t) PROVE KeptInv'
  BY <1>1, <1>3, ReadArgKeeps, WriteKeeps, LoadKeeps, StoreKeeps DEF Entry
<1>4. ASSUME NEW t \in Threads, Turn(t) PROVE KeptInv'
  BY <1>4, NameKeeps, OpenKeeps, OpenFailsKeeps, CloseKeeps, SetKeeps, ResetKeeps DEF Turn
<1>5. CASE (\E l \in Logs : SetFile(l)) \/ SetPrintf \/ LogClose
  BY <1>5, QuietKeeps
<1>6. CASE Tick \/ UNCHANGED vars
  <2>1. UNCHANGED <<fd, size, table, files, call, calls, intact, apart>>
    BY <1>6 DEF Tick, vars, shared, kernel, history
  <2> QED BY <2>1, StillKeeps
<1> QED
  BY <1>2, <1>3, <1>4, <1>5, <1>6 DEF Next

LEMMA InitKept ==
  ASSUME Init
  PROVE  KeptInv
<1>1. /\ \A t \in Threads : call[t] = Idle
      /\ intact = {} /\ calls = 0
  BY DEF Init
<1>2. PICK k \in 0 .. Len(Order) : k <= NumFds /\ LogInit(k)
  BY DEF Init
<1>3. k \in Nat /\ \A i \in 1 .. k : i \in 1 .. Len(Order) /\ i \in Fds
  BY <1>2, OrderFacts, LogAssumption DEF Fds
<1>4. files = [f \in {FirstName(Order[i]) : i \in 1 .. k} |-> <<>>]
  BY <1>2 DEF LogInit
<1>5. files \in [DOMAIN files -> Seq(Nat)]
  BY <1>4
<1>6. \A d \in Fds : table[d].on = "file" =>
          table[d].file \in DOMAIN files /\ table[d].append \in BOOLEAN
  <2> SUFFICES ASSUME NEW d \in Fds, table[d].on = "file"
               PROVE  table[d].file \in DOMAIN files /\ table[d].append \in BOOLEAN
    OBVIOUS
  <2>1. table[d] = IF d <= k THEN FileOf(FirstName(Order[d]), TRUE) ELSE Closed
    <3>1. table = [x \in Fds |-> IF x <= k THEN FileOf(FirstName(Order[x]), TRUE) ELSE Closed]
      BY <1>2 DEF LogInit
    <3> QED BY <3>1
  <2>2. d <= k /\ table[d] = FileOf(FirstName(Order[d]), TRUE)
    <3>1. CASE d <= k
      BY <2>1, <3>1
    <3>2. CASE ~(d <= k)
      BY <2>1, <3>2 DEF Closed
    <3> QED BY <3>1, <3>2
  <2>3. d \in 1 .. k
    BY <1>3, <2>2, LogAssumption DEF Fds
  <2>4. table[d].file = FirstName(Order[d]) /\ table[d].append = TRUE
    BY <2>2 DEF FileOf
  <2> QED BY <1>4, <2>3, <2>4
<1>7. fd \in [Logs -> 0..NumFds]
  <2>1. CASE k < Len(Order)
    <3>1. fd = [l \in Logs |-> 0]
      BY <1>2, <2>1 DEF LogInit
    <3> QED BY <3>1, LogAssumption
  <2>2. CASE ~(k < Len(Order))
    <3>1. fd = [l \in Logs |-> CHOOSE i \in DOMAIN Order : Order[i] = l]
      BY <1>2, <2>2 DEF LogInit
    <3>2. k = Len(Order)
      <4>1. k \in 0 .. Len(Order) /\ Len(Order) \in Nat
        BY OrderFacts
      <4> QED BY <2>2, <4>1
    <3>3. \A l \in Logs : (CHOOSE i \in DOMAIN Order : Order[i] = l) \in 0 .. NumFds
      BY <1>2, <3>2, PlaceFacts, OrderFacts, LogAssumption
    <3> QED BY <3>1, <3>3
  <2> QED BY <2>1, <2>2
<1>8. EntryTypes
  BY <1>1, <1>5, <1>6, <1>7 DEF EntryTypes, Idle
<1>9. Solitude /\ SizesReach /\ Kept /\ \A t \in Threads : CallSpares(t)
  BY <1>1 DEF Solitude, SizesReach, Kept, CallSpares, Idle, Working
<1> QED BY <1>8, <1>9 DEF KeptInv

(* As long as no two turns overlap, an entry whose call overlaps no other   *)
(* stays where it was written, whoever writes later and whatever of the     *)
(* descriptor and the size is stale by then.                                *)
THEOREM EntriesStay == Spec => []Kept
<1>1. Init => OverInv /\ OneTurn /\ KeptInv
  <2>1. ASSUME Init PROVE OverIsTurned
    BY <2>1, OrderFacts DEF Init, OverIsTurned
  <2> QED
    BY <2>1, InitTypes, InitOneTurn, InitKept DEF OverInv
<1>2. (OverInv /\ OneTurn /\ KeptInv) /\ [Next]_vars => (OverInv /\ OneTurn /\ KeptInv)'
  BY OverStep, OwnStep, KeptStep DEF OverInv
<1>3. OverInv /\ OneTurn /\ KeptInv => Kept
  BY DEF KeptInv
<1> QED
  BY <1>1, <1>2, <1>3, PTL DEF Spec
====================================================================================
