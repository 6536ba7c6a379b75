---------------------------------- MODULE Log ----------------------------------
(***************************************************************************)
(* The log files (src/src/log/ws_log.c) and the threads that write them:   *)
(* the thread of the loop and those of the application share, without a    *)
(* lock, a descriptor, a size and a file number per log, and one buffer    *)
(* for the name of the next file.                                          *)
(*                                                                         *)
(* The steps of a call are those another thread can tell apart: reading    *)
(* the descriptor and the size, writing, the load and the store of         *)
(* size += n, and the five steps of a turn to the next file.  A file is    *)
(* the sequence of its bytes, and every byte of an entry is the entry's    *)
(* number.  Entries below ws_log_level change nothing and are left out, so *)
(* are those that do not fit the line buffer.                              *)
(***************************************************************************)
EXTENDS Integers, Sequences, FiniteSets

CONSTANTS
    Threads,        \* those that log
    Order,          \* the logs, in the order in which they are opened
    LimitSize,      \* YMZ_LOG_SIZE_LIMIT
    LimitNo,        \* YMZ_LOG_FILE_NO_LIMIT
    Modes,          \* values of ws_log_mode: "cycle", "time"
    NumFds,         \* descriptors the process may have
    EntrySizes,     \* bytes an entry may have
    MaxCalls,       \* bound on the calls
    MaxStamp        \* bound on the seconds that pass

Logs == {Order[i] : i \in DOMAIN Order}

ASSUME LogAssumption ==
    /\ LimitSize \in Nat /\ LimitNo \in Nat /\ NumFds \in Nat
    /\ MaxCalls \in Nat /\ MaxStamp \in Nat
    /\ EntrySizes \subseteq Nat \ {0}
    /\ Modes \subseteq {"cycle", "time"}
    /\ Order \in Seq(Logs) /\ Len(Order) > 0
    /\ \A i, j \in DOMAIN Order : Order[i] = Order[j] => i = j

VARIABLES
    mode,           \* ws_log_mode
    fd,             \* per log, ws_log_*_fd: 0 is the standard output
    size,           \* per log, ws_log_*_size
    no,             \* per log, ws_log_*_file_no
    path,           \* path_str, one buffer for the names of all logs
    stamp,          \* ws_cached_time_format_yyyyMMddhhmmss
    table,          \* what each descriptor of the process is open on
    files,          \* the bytes of the files that exist
    call,           \* the call each thread is in
    calls,          \* how many calls were made; the last one's number
    \* History.
    intact,         \* entries whose call no other call overlapped
    apart,          \* whether no two turns ever overlapped
    stuck,          \* logs whose last turn could not open its file
    forgotten       \* descriptors left open with no log knowing them

shared == <<fd, size, no, path>>
kernel == <<table, files>>
history == <<intact, apart, stuck, forgotten>>
vars == <<mode, fd, size, no, path, stamp, table, files, call, calls,
          intact, apart, stuck, forgotten>>

Fds == 1..NumFds
Idle == [pc |-> "idle"]
TurnSteps == {"name", "open", "close", "set", "reset"}
Working == {t \in Threads : call[t].pc # "idle"}
Turning == {t \in Threads : call[t].pc \in TurnSteps}

\* A call that turns the log l, and then those in todo.
TurnOf(l, entry, todo) ==
    [pc |-> "name", log |-> l, entry |-> entry, new |-> 0, todo |-> todo, alone |-> FALSE]

Closed == [on |-> "nothing"]
FileOf(f, append) == [on |-> "file", file |-> f, append |-> append]

\* The file of ws_log_init, the one of ws_log_set_*, and that of a turn.
FirstName(l) == <<l, "first", 0>>
SetName(l) == <<l, "set", 0>>
TurnName(l) == IF mode = "time" THEN <<l, "time", stamp>> ELSE <<l, "no", no[l]>>

\* open() takes the least number that is free.
Lowest == {d \in Fds : table[d] = Closed /\ \A e \in Fds : table[e] = Closed => d <= e}

WithFile(f, bytes) ==
    [g \in DOMAIN files \union {f} |-> IF g = f THEN bytes ELSE files[g]]

\* ws_log_init opens the logs one by one to append to.  If one fails it returns
\* with those before it open and held by nobody, and the server goes on with
\* its logs on the standard output: the return value is not looked at.
LogInit(opened) ==
    /\ table = [d \in Fds |-> IF d <= opened THEN FileOf(FirstName(Order[d]), TRUE)
                                             ELSE Closed]
    /\ files = [f \in {FirstName(Order[i]) : i \in 1..opened} |-> <<>>]
    /\ fd = [l \in Logs |-> IF opened < Len(Order) THEN 0
                            ELSE CHOOSE i \in DOMAIN Order : Order[i] = l]
    /\ forgotten = IF opened < Len(Order) THEN 1..opened ELSE {}

Init ==
    /\ mode \in Modes
    /\ \E k \in 0..Len(Order) : k <= NumFds /\ LogInit(k)
    /\ size = [l \in Logs |-> 0]
    /\ no = [l \in Logs |-> 0]
    /\ path = FirstName(Order[Len(Order)])
    /\ stamp = 0
    /\ call = [t \in Threads |-> Idle]
    /\ calls = 0
    /\ intact = {} /\ apart = TRUE /\ stuck = {}

-----------------------------------------------------------------------------
(* An entry: ws_log_real_*, ws_log_print_real_*, ws_log_access_real_* and  *)
(* ws_log_sys_real_*, which differ in the log and the level.               *)

\* A call begins: neither it nor those under way are alone any more.
Begins(t, c) ==
    /\ call[t].pc = "idle"
    /\ calls < MaxCalls /\ calls' = calls + 1
    /\ call' = [u \in Threads |->
                   IF u = t THEN c
                   ELSE IF u \in Working THEN [call[u] EXCEPT !.alone = FALSE]
                   ELSE call[u]]
    /\ intact' = {e \in intact : \A u \in Working : e.entry # call[u].entry}

Log(t, l, n) ==
    /\ Begins(t, [pc |-> "args", log |-> l, entry |-> calls + 1, len |-> n,
                  got |-> {}, fd |-> 0, pos |-> 0, alone |-> Working = {}])
    /\ UNCHANGED <<mode, shared, stamp, kernel, apart, stuck, forgotten>>

\* The descriptor and the size are arguments: the compiler orders the reads.
ReadArg(t, arg) ==
    /\ call[t].pc = "args"
    /\ arg \in {"fd", "pos"} \ call[t].got
    /\ call' = [call EXCEPT
          ![t].got = @ \union {arg},
          ![t].fd = IF arg = "fd" THEN fd[call[t].log] ELSE @,
          ![t].pos = IF arg = "pos" THEN size[call[t].log] ELSE @]
    /\ UNCHANGED <<mode, shared, stamp, kernel, calls, history>>

\* Bytes b after the entry e of n bytes was written at p.
Written(b, p, e, n) ==
    [i \in 1..(IF p + n > Len(b) THEN p + n ELSE Len(b)) |->
        IF p < i /\ i <= p + n THEN e ELSE IF i <= Len(b) THEN b[i] ELSE 0]

\* pwrite(): on a descriptor opened to append the position is ignored.
PWrite(t) ==
    LET c == call[t]
        d == table[c.fd]
        p == IF d.append THEN Len(files[d.file]) ELSE c.pos
    IN /\ files' = [files EXCEPT ![d.file] = Written(@, p, c.entry, c.len)]
       /\ intact' = IF c.alone
                    THEN intact \union {[entry |-> c.entry, file |-> d.file,
                                         from |-> p + 1, to |-> p + c.len]}
                    ELSE intact

\* ws_log_real, ws_log_real_with_print: to the file, to the standard output,
\* or, if the descriptor was closed meanwhile, nowhere: rc is not looked at.
Write(t) ==
    /\ call[t].pc = "args" /\ call[t].got = {"fd", "pos"}
    /\ \/ call[t].fd # 0 /\ table[call[t].fd].on = "file" /\ PWrite(t)
       \/ call[t].fd # 0 /\ table[call[t].fd].on # "file" /\ UNCHANGED <<files, intact>>
       \/ call[t].fd = 0 /\ UNCHANGED <<files, intact>>
    /\ call' = [call EXCEPT ![t] = [pc |-> "load", log |-> @.log, entry |-> @.entry,
                                     len |-> @.len, pos |-> 0, alone |-> FALSE]]
    /\ UNCHANGED <<mode, shared, stamp, table, calls, apart, stuck, forgotten>>

\* ws_log_check_*: size += n is a load and a store, and what was stored is
\* compared with the limit.
Load(t) ==
    /\ call[t].pc = "load"
    /\ call' = [call EXCEPT ![t].pc = "store", ![t].pos = size[call[t].log]]
    /\ UNCHANGED <<mode, shared, stamp, kernel, calls, history>>

\* Counts the text and not the zero that ends it, which is written too.
StoreTextOnly(t) ==
    LET c == call[t]
        sum == c.pos + c.len - 1
    IN /\ c.pc = "store"
       /\ size' = [size EXCEPT ![c.log] = sum]
       /\ call' = [call EXCEPT ![t] = IF sum > LimitSize THEN TurnOf(c.log, c.entry, <<>>)
                                                         ELSE Idle]
       /\ apart' = (apart /\ (sum > LimitSize => Turning = {}))
       /\ UNCHANGED <<mode, fd, no, path, stamp, kernel, calls,
                      intact, stuck, forgotten>>

\* Compares with the limit what the size was before the entry.
StoreTestsFirst(t) ==
    LET c == call[t]
        sum == c.pos + c.len
    IN /\ c.pc = "store"
       /\ size' = [size EXCEPT ![c.log] = sum]
       /\ call' = [call EXCEPT ![t] = IF c.pos > LimitSize THEN TurnOf(c.log, c.entry, <<>>)
                                                           ELSE Idle]
       /\ apart' = (apart /\ (c.pos > LimitSize => Turning = {}))
       /\ UNCHANGED <<mode, fd, no, path, stamp, kernel, calls,
                      intact, stuck, forgotten>>

Store(t) ==
    LET c == call[t]
        sum == c.pos + c.len
    IN /\ c.pc = "store"
       /\ size' = [size EXCEPT ![c.log] = sum]
       /\ call' = [call EXCEPT ![t] = IF sum > LimitSize THEN TurnOf(c.log, c.entry, <<>>)
                                                         ELSE Idle]
       /\ apart' = (apart /\ (sum > LimitSize => Turning = {}))
       /\ UNCHANGED <<mode, fd, no, path, stamp, kernel, calls,
                      intact, stuck, forgotten>>

-----------------------------------------------------------------------------
(* A turn to the next file: ws_log_turn_access, _error, _sys and _report.  *)

\* The number comes back to 0 past its limit; a time needs no number.
NextNo(l) ==
    IF mode = "time" THEN no[l]
    ELSE IF no[l] + 1 > LimitNo THEN 0 ELSE no[l] + 1

Name(t) ==
    /\ call[t].pc = "name"
    /\ path' = TurnName(call[t].log)
    /\ no' = [no EXCEPT ![call[t].log] = NextNo(call[t].log)]
    /\ call' = [call EXCEPT ![t].pc = "open"]
    /\ UNCHANGED <<mode, fd, size, stamp, kernel, calls, history>>

\* ws_open_truncate_file opens what the buffer now names.
Open(t) ==
    /\ call[t].pc = "open"
    /\ \E d \in Lowest :
          /\ table' = [table EXCEPT ![d] = FileOf(path, FALSE)]
          /\ call' = [call EXCEPT ![t].pc = "close", ![t].new = d]
    /\ files' = WithFile(path, <<>>)
    /\ intact' = {e \in intact : e.file # path}
    /\ stuck' = stuck \ {call[t].log}
    /\ UNCHANGED <<mode, shared, stamp, calls, apart, forgotten>>

\* The old file stays, its size is not reset, and ws_log_set_path gives up.
OpenFails(t) ==
    /\ call[t].pc = "open"
    /\ call' = [call EXCEPT ![t] = Idle]
    /\ stuck' = stuck \union {call[t].log}
    /\ UNCHANGED <<mode, shared, stamp, kernel, calls, intact, apart, forgotten>>

\* Leaves the old file open.
CloseNothing(t) ==
    /\ call[t].pc = "close"
    /\ call' = [call EXCEPT ![t].pc = "set"]
    /\ UNCHANGED <<mode, shared, stamp, kernel, calls, history>>

Close(t) ==
    /\ call[t].pc = "close"
    /\ table' = [d \in Fds |-> IF d = fd[call[t].log] THEN Closed ELSE table[d]]
    /\ call' = [call EXCEPT ![t].pc = "set"]
    /\ UNCHANGED <<mode, shared, stamp, files, calls, history>>

Set(t) ==
    /\ call[t].pc = "set"
    /\ fd' = [fd EXCEPT ![call[t].log] = call[t].new]
    /\ call' = [call EXCEPT ![t].pc = "reset"]
    /\ UNCHANGED <<mode, size, no, path, stamp, kernel, calls, history>>

\* The turn is over; ws_log_set_path goes on with the next log.
Reset(t) ==
    LET c == call[t]
    IN /\ c.pc = "reset"
       /\ size' = [size EXCEPT ![c.log] = 0]
       /\ call' = [call EXCEPT ![t] =
                      IF c.todo = <<>> THEN Idle
                      ELSE TurnOf(Head(c.todo), 0, Tail(c.todo))]
       /\ UNCHANGED <<mode, fd, no, path, stamp, kernel, calls, history>>

-----------------------------------------------------------------------------
(* Calls that change where the logs go.                                    *)

\* ws_log_set_path, of the interface in include/ws_log.h: at the start and by
\* the application.
SetPath(t) ==
    /\ Begins(t, TurnOf(Head(Order), 0, Tail(Order)))
    /\ apart' = (apart /\ Turning = {})
    /\ UNCHANGED <<mode, shared, stamp, kernel, stuck, forgotten>>

\* The other three are called, if at all, while nobody logs.
Quiet == Working = {} /\ calls < MaxCalls /\ calls' = calls + 1

\* ws_log_set_access, _error and _report: a file to append to, after what it
\* holds; the size goes on from that of the old file.
SetFile(l) ==
    /\ Quiet
    /\ \E d \in Lowest :
          /\ table' = [e \in Fds |-> IF e = d THEN FileOf(SetName(l), TRUE)
                                     ELSE IF e = fd[l] THEN Closed ELSE table[e]]
          /\ fd' = [fd EXCEPT ![l] = d]
    /\ files' = IF SetName(l) \in DOMAIN files THEN files ELSE WithFile(SetName(l), <<>>)
    /\ UNCHANGED <<mode, size, no, path, stamp, call, history>>

\* ws_log_set_path_for_printf: nothing is closed.
SetPrintf ==
    /\ Quiet
    /\ fd' = [l \in Logs |-> 0]
    /\ size' = [l \in Logs |-> 0]
    /\ forgotten' = forgotten \union ({fd[l] : l \in Logs} \ {0})
    /\ UNCHANGED <<mode, no, path, stamp, kernel, call, intact, apart, stuck>>

LogClose ==
    /\ Quiet
    /\ table' = [d \in Fds |-> IF \E l \in Logs : fd[l] = d THEN Closed ELSE table[d]]
    /\ fd' = [l \in Logs |-> 0]
    /\ UNCHANGED <<mode, size, no, path, stamp, files, call, history>>

-----------------------------------------------------------------------------
\* ws_time_update by the loop; only the names of files depend on it here.
Tick ==
    /\ mode = "time" /\ stamp < MaxStamp
    /\ stamp' = stamp + 1
    /\ UNCHANGED <<mode, shared, kernel, call, calls, history>>

-----------------------------------------------------------------------------
Turn(t) == Name(t) \/ Open(t) \/ OpenFails(t) \/ Close(t) \/ Set(t) \/ Reset(t)

Entry(t) ==
    \/ \E l \in Logs, n \in EntrySizes : Log(t, l, n)
    \/ \E arg \in {"fd", "pos"} : ReadArg(t, arg)
    \/ Write(t) \/ Load(t) \/ Store(t)

Next ==
    \/ \E t \in Threads : Entry(t) \/ Turn(t) \/ SetPath(t)
    \/ \E l \in Logs : SetFile(l)
    \/ SetPrintf \/ LogClose
    \/ Tick

Spec == Init /\ [][Next]_vars

-----------------------------------------------------------------------------
(* Properties.                                                             *)

\* As long as no two turns overlap, an entry whose call overlaps no other stays
\* where it was written until its file is opened anew: neither the unlocked
\* sizes nor a descriptor that was closed and given away between its read and
\* pwrite() (ws_log.c:523) let a later entry run over it.
Kept ==
    apart =>
        \A e \in intact :
            /\ e.to <= Len(files[e.file])
            /\ \A i \in e.from..e.to : files[e.file][i] = e.entry

\* As long as no two turns overlap, the log neither loses a descriptor nor
\* closes one that is not its own (ws_log.c:224): a log's descriptor is open on
\* a file of that log, and every file that is open belongs to a log, to the
\* turn under way, or was left open by ws_log_init or the printf mode.
DescriptorsOwned ==
    apart =>
        /\ \A l \in Logs :
              \/ fd[l] = 0
              \/ \E t \in Threads : call[t].pc = "set" /\ call[t].log = l
              \/ table[fd[l]].on = "file" /\ table[fd[l]].file[1] = l
        /\ \A d \in Fds : table[d].on = "file" =>
              \/ \E l \in Logs : fd[l] = d
              \/ \E t \in Threads : call[t].pc \in {"close", "set"} /\ call[t].new = d
              \/ d \in forgotten

\* However the threads interleave, turns among them, a log over its limit
\* (ws_log.c:820) is being turned by somebody, or the file could not be opened
\* and the next entry tries again: no lost update of the size lets a file grow
\* on unnoticed.
OverIsTurned ==
    \A l \in Logs : size[l] > LimitSize =>
        l \in stuck \/ \E t \in Turning : call[t].log = l

================================================================================
