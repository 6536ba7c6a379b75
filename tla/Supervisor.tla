------------------------------- MODULE Supervisor -------------------------------
(***************************************************************************)
(* The master process and its workers (src/src/os/ws_os.c,                 *)
(* src/src/os/ws_process.c): the sigsuspend loop, the signal handlers,     *)
(* the pipes the orders go through, reaping and respawning.                *)
(*                                                                         *)
(* One process at most lives in each slot of ws_processes.  The order to   *)
(* quit travels twice, as a command in the worker's pipe and as SIGQUIT.   *)
(* SIGCHLD is blocked outside sigsuspend; SIGQUIT, SIGWINCH and SIGTERM    *)
(* are not, so they may come between a test of the loop and the next       *)
(* sigsuspend.  The serving side of a worker is ConnLife.                  *)
(***************************************************************************)
EXTENDS Naturals

CONSTANTS
    N,              \* cycle->worker_process_num
    Signals,        \* the signals that come from outside
    ForkFails       \* the values of forkFails

ASSUME NAssumption == N \in Nat \ {0}
ASSUME SignalsAssumption == "SIGCHLD" \notin Signals
ASSUME ForkFailsAssumption == ForkFails \subseteq BOOLEAN

VARIABLES
    forkFails,  \* whether fork() may fail
    mpc,        \* where the master's loop is
    at,         \* the slot its inner loop is at
    flags,      \* the master's ws_reap, ws_quit, ws_noaccept, ws_terminate
    chld,       \* a SIGCHLD is pending for the master
    procs,      \* ws_processes: pid, exiting, exited
    pipe,       \* commands waiting in the pipe of the slot's process
    wk          \* the process of the slot, if any, and its flags

vars == <<forkFails, mpc, at, flags, chld, procs, pipe, wk>>
master == <<forkFails, mpc, at, flags, chld, procs>>

Slots == 1..N

Alive == {"boot", "top", "poll", "read", "blocked"}
NoProcess == [st |-> "none", quit |-> FALSE, term |-> FALSE, exiting |-> FALSE]
Ended == [NoProcess EXCEPT !.st = "zombie"]

Init ==
    /\ forkFails \in ForkFails
    /\ mpc = "start"
    /\ at = 1
    /\ flags = [reap |-> FALSE, quit |-> FALSE, noaccept |-> FALSE, term |-> FALSE]
    /\ chld = FALSE
    /\ procs = [i \in Slots |-> [pid |-> "zero", exiting |-> FALSE, exited |-> FALSE]]
    /\ pipe = [i \in Slots |-> 0]
    /\ wk = [i \in Slots |-> NoProcess]

-----------------------------------------------------------------------------
(* Starting a worker: a new pipe replaces the old one, then fork().  The   *)
(* child is a copy of the master: it starts with the master's flags.  A    *)
(* failed fork returns with the slot's pid, exiting and exited as they     *)
(* were.                                                                   *)

\* A start that leaves the slot marked exited.
ForkedStillExited(i) ==
    /\ procs' = [procs EXCEPT ![i] = [@ EXCEPT !.pid = "live", !.exiting = FALSE]]
    /\ wk' = [wk EXCEPT ![i] = [NoProcess EXCEPT !.st = "boot", !.quit = flags.quit,
                                                 !.term = flags.term]]

\* A start that leaves the slot marked as told to quit.
ForkedStillExiting(i) ==
    /\ procs' = [procs EXCEPT ![i] = [@ EXCEPT !.pid = "live", !.exited = FALSE]]
    /\ wk' = [wk EXCEPT ![i] = [NoProcess EXCEPT !.st = "boot", !.quit = flags.quit,
                                                 !.term = flags.term]]

Forked(i) ==
    /\ procs' = [procs EXCEPT ![i] = [pid |-> "live", exiting |-> FALSE, exited |-> FALSE]]
    /\ wk' = [wk EXCEPT ![i] = [NoProcess EXCEPT !.st = "boot", !.quit = flags.quit,
                                                 !.term = flags.term]]

Spawn(i) ==
    /\ pipe' = [pipe EXCEPT ![i] = 0]
    /\ \/ Forked(i)
       \/ forkFails /\ UNCHANGED <<procs, wk>>

\* The inner loop goes to the next slot, or the master goes on at pc.
Advance(pc) ==
    IF at < N THEN at' = at + 1 /\ UNCHANGED mpc
              ELSE at' = 1 /\ mpc' = pc

Start ==
    /\ mpc = "start"
    /\ Spawn(at)
    /\ Advance("wait")
    /\ UNCHANGED <<forkFails, flags, chld>>

-----------------------------------------------------------------------------
(* Signals the master receives.                                            *)

\* What ws_init_signals makes of each signal, in every process.
signals == [SIGHUP |-> "handler", SIGWINCH |-> "handler", SIGTERM |-> "handler",
            SIGQUIT |-> "handler", SIGALRM |-> "handler", SIGINT |-> "handler",
            SIGIO |-> "handler", SIGCHLD |-> "handler",
            SIGSYS |-> "ignored", SIGPIPE |-> "ignored"]

Caught == {s \in DOMAIN signals : signals[s] = "handler"}

\* The flags of ws_signal_handler that anybody reads; the workers have no
\* children, and SIGWINCH sets nothing in them.
MasterNotes == [SIGQUIT |-> "quit", SIGTERM |-> "term", SIGINT |-> "term",
                SIGWINCH |-> "noaccept"]
WorkerNotes == [SIGQUIT |-> "quit", SIGTERM |-> "term", SIGINT |-> "term"]

\* What the master lets through in sigsuspend only.
Masked == {"SIGCHLD", "SIGALRM", "SIGIO", "SIGINT", "SIGPIPE"}

\* A handler runs.  If the master is in sigsuspend it returns, unless a
\* SIGCHLD is pending too: sigsuspend delivers that one first.
MasterSignal(s) ==
    /\ s \in Masked => mpc = "wait"
    /\ flags' = [f \in DOMAIN flags |->
                    flags[f] \/ (s \in DOMAIN MasterNotes /\ f = MasterNotes[s])]
    /\ mpc' = IF mpc = "wait" /\ ~chld THEN "reap" ELSE mpc
    /\ UNCHANGED <<forkFails, at, chld, procs, pipe, wk>>

Zombies == {i \in Slots : wk[i].st = "zombie"}

\* A handler that calls waitpid() once.
GetStatusOnce(Z) ==
    \E z \in Z :
        /\ wk' = [wk EXCEPT ![z] = NoProcess]
        /\ procs' = [procs EXCEPT ![z].pid = "stale", ![z].exited = TRUE]

\* Every zombie is reaped in one call of the handler.
GetStatus(Z) ==
    /\ wk' = [i \in Slots |-> IF i \in Z THEN NoProcess ELSE wk[i]]
    /\ procs' = [i \in Slots |-> IF i \in Z
                                 THEN [procs[i] EXCEPT !.pid = "stale", !.exited = TRUE]
                                 ELSE procs[i]]

Sigchld ==
    /\ mpc = "wait"
    /\ chld
    /\ chld' = FALSE
    /\ flags' = [flags EXCEPT !.reap = TRUE]
    /\ GetStatus(Zombies)
    /\ mpc' = "reap"
    /\ UNCHANGED <<forkFails, at, pipe>>

-----------------------------------------------------------------------------
(* The tests of the master's loop, in their order.                         *)

\* A loop that respawns nobody while it shuts down.
TestReapUnlessQuitting ==
    /\ mpc = "reap"
    /\ flags' = [flags EXCEPT !.reap = FALSE]
    /\ mpc' = IF flags.reap /\ ~flags.quit THEN "respawn" ELSE "quit"
    /\ UNCHANGED <<forkFails, at, chld, procs, pipe, wk>>

TestReap ==
    /\ mpc = "reap"
    /\ flags' = [flags EXCEPT !.reap = FALSE]
    /\ mpc' = IF flags.reap THEN "respawn" ELSE "quit"
    /\ UNCHANGED <<forkFails, at, chld, procs, pipe, wk>>

\* ws_os_reap_child_process: every exited slot gets a new worker.
Respawn ==
    /\ mpc = "respawn"
    /\ \/ procs[at].exited /\ Spawn(at)
       \/ ~procs[at].exited /\ UNCHANGED <<procs, pipe, wk>>
    /\ Advance("quit")
    /\ UNCHANGED <<forkFails, flags, chld>>

\* ws_quit is never reset, and ws_listen_close closes nothing.
TestQuit ==
    /\ mpc = "quit"
    /\ mpc' = IF flags.quit THEN "tellQ" ELSE "noaccept"
    /\ UNCHANGED <<forkFails, at, flags, chld, procs, pipe, wk>>

TestNoaccept ==
    /\ mpc = "noaccept"
    /\ flags' = [flags EXCEPT !.noaccept = FALSE]
    /\ mpc' = IF flags.noaccept THEN "tellN" ELSE "wait"
    /\ UNCHANGED <<forkFails, at, chld, procs, pipe, wk>>

\* Where ws_signal_worker_processes returns to, from either call.
After == [tellQ |-> "noaccept", killQ |-> "noaccept", tellN |-> "wait", killN |-> "wait"]

\* ws_process_pipe_write: the pipe of a process that is gone has no reader; the
\* write fails, its SIGPIPE is ignored, and the master does not look.
PipeWrite(i) == pipe' = [pipe EXCEPT ![i] = IF wk[i].st \in Alive THEN @ + 1 ELSE @]

\* A slot already told is skipped; otherwise the command is written.
Tell ==
    /\ mpc \in {"tellQ", "tellN"}
    /\ \/ /\ procs[at].exiting
          /\ Advance(After[mpc])
          /\ UNCHANGED <<procs, pipe>>
       \/ /\ ~procs[at].exiting
          /\ procs' = [procs EXCEPT ![at].exiting = TRUE]
          /\ PipeWrite(at)
          /\ mpc' = IF mpc = "tellQ" THEN "killQ" ELSE "killN"
          /\ UNCHANGED at
    /\ UNCHANGED <<forkFails, flags, chld, wk>>

\* ws_process_pipe_read fails with EINTR, an error as any other (it looks for
\* EAGAIN in what read() returned): the channel's handler closes the channel,
\* and the first thing ws_conn_close calls is the slot's on_closed, which only
\* accepting sets; in the channel's slot it is NULL, and the worker crashes.
ReadFails == Ended

\* A signal reaches a worker: its handler notes it, or a read that waits fails.
Hit(w, s) ==
    LET notes(f) == s \in DOMAIN WorkerNotes /\ WorkerNotes[s] = f
    IN CASE w.st \notin Alive -> w
         [] w.st = "blocked" -> ReadFails
         [] OTHER -> [w EXCEPT !.quit = @ \/ notes("quit"), !.term = @ \/ notes("term")]

\* The master is sent a SIGCHLD for each worker that the step has ended.
NoteEnded ==
    chld' = (chld \/ \E i \in Slots : wk[i].st \in Alive /\ wk'[i].st = "zombie")

\* kill(): to the slot's process; to nobody, which marks the slot exited;
\* or, pid 0, to the whole process group, the master included.
Kill ==
    /\ mpc \in {"killQ", "killN"}
    /\ at' = IF at < N THEN at + 1 ELSE 1
    /\ mpc' = IF at = N THEN After[mpc]
              ELSE IF mpc = "killQ" THEN "tellQ" ELSE "tellN"
    /\ CASE procs[at].pid = "live" ->
              /\ wk' = [wk EXCEPT ![at] = Hit(@, "SIGQUIT")]
              /\ UNCHANGED <<flags, procs>>
         [] procs[at].pid = "stale" ->
              /\ procs' = [procs EXCEPT ![at].exited = TRUE, ![at].exiting = FALSE]
              /\ flags' = [flags EXCEPT !.reap = TRUE]
              /\ UNCHANGED wk
         [] procs[at].pid = "zero" ->
              /\ wk' = [i \in Slots |-> Hit(wk[i], "SIGQUIT")]
              /\ flags' = [flags EXCEPT !.quit = TRUE]
              /\ UNCHANGED procs
    /\ NoteEnded
    /\ UNCHANGED <<forkFails, pipe>>

Master == Start \/ Sigchld \/ TestReap \/ Respawn \/ TestQuit \/ TestNoaccept \/ Tell \/ Kill

-----------------------------------------------------------------------------
(* The worker's loop.                                                      *)

\* ws_os_child_process_init: the channel becomes a connection, or it fails
\* and the worker goes straight to its end.
Boot(i, ok) ==
    /\ wk[i].st = "boot"
    /\ wk' = [wk EXCEPT ![i].st = "top", ![i].exiting = ~ok]
    /\ UNCHANGED <<master, pipe>>

\* The process ends, whether by exit() or by a signal.
Die(i) ==
    /\ wk' = [wk EXCEPT ![i] = Ended]
    /\ chld' = TRUE
    /\ UNCHANGED <<forkFails, mpc, at, flags, procs, pipe>>

\* The tests at the top of the loop.
Top(i) ==
    /\ wk[i].st = "top"
    /\ \/ (wk[i].exiting \/ wk[i].term) /\ Die(i)
       \/ /\ ~wk[i].exiting /\ ~wk[i].term
          /\ wk' = [wk EXCEPT ![i].st = "poll", ![i].exiting = wk[i].quit]
          /\ UNCHANGED <<master, pipe>>

\* ws_cycling: epoll_wait reports the pipe if a command is there, otherwise
\* it ends on another event, a signal or its 500 ms.
Poll(i) ==
    /\ wk[i].st = "poll"
    /\ wk' = [wk EXCEPT ![i].st = IF pipe[i] > 0 THEN "read" ELSE "top"]
    /\ UNCHANGED <<master, pipe>>

\* ws_channel_handler: reads until read() fails, and the pipe is blocking. No
\* further command reaches a worker that waits there: its slot stays told until
\* the process is gone.
Read(i) ==
    /\ wk[i].st = "read"
    /\ \/ /\ pipe[i] > 0
          /\ pipe' = [pipe EXCEPT ![i] = @ - 1]
          /\ wk' = [wk EXCEPT ![i].quit = TRUE]
       \/ /\ pipe[i] = 0
          /\ wk' = [wk EXCEPT ![i].st = "blocked"]
          /\ UNCHANGED pipe
    /\ UNCHANGED master

Worker(i) == Boot(i, TRUE) \/ Top(i) \/ Poll(i) \/ Read(i)

Faults(i) == Boot(i, FALSE) \/ (wk[i].st \in Alive /\ Die(i))

\* A signal sent to a worker by somebody else than the master; the order to quit
\* is left to the master.
WorkerSignal(i, s) ==
    /\ wk[i].st \in Alive /\ s # "SIGQUIT"
    /\ wk' = [wk EXCEPT ![i] = Hit(@, s)]
    /\ NoteEnded
    /\ UNCHANGED <<forkFails, mpc, at, flags, procs, pipe>>

-----------------------------------------------------------------------------
Next ==
    \/ Master
    \/ \E i \in Slots : Worker(i) \/ Faults(i)
    \/ \E s \in Signals \cap Caught :
          MasterSignal(s) \/ \E i \in Slots : WorkerSignal(i, s)

Spec == Init /\ [][Next]_vars

\* The kernel schedules the master and every worker.
FairSpec ==
    /\ Spec
    /\ WF_vars(Master)
    /\ \A i \in Slots : WF_vars(Worker(i))

-----------------------------------------------------------------------------
(* Properties.                                                             *)

\* A slot marked exited has no process: the respawn of ws_os_reap_child_process
\* (ws_os.c:210) never puts a second process on top of a living one, whatever
\* kill() failed, fork() failed or was told to quit before.
OneProcessPerSlot ==
    \A i \in Slots : procs[i].exited => wk[i].st = "none"

\* The order to quit is not lost on the way: once ws_signal_worker_processes has
\* passed a slot (ws_os.c:180-194), the slot's process, if it still runs, knows
\* that it must quit; a worker respawned meanwhile is not taken for one already
\* told.
ToldWorkersKnow ==
    \A i \in Slots :
        /\ procs[i].exiting
        /\ ~(mpc \in {"killQ", "killN"} /\ at = i)
        /\ wk[i].st \in Alive
        => wk[i].quit

\* kill() (ws_os.c:189) is called only for a process that the master has not
\* reaped yet: the reaping of one wakeup comes before its signalling, so no
\* signal goes to a recycled pid or to the process group, unless a fork() failed.
KillsOnlyItsOwn ==
    ~forkFails /\ mpc \in {"killQ", "killN"} => procs[at].pid = "live"

\* A worker that ends is replaced (ws_os.c:96-99), even when several end while
\* SIGCHLD is blocked and only one signal is left pending, as long as fork()
\* succeeds.
DeadAreReplaced ==
    \A i \in Slots : ~forkFails /\ wk[i].st = "zombie" ~> wk[i].st \in Alive

\* A worker whose handler has noted SIGQUIT as "shutting down"
\* (ws_process.c:237) comes to an end.
QuittersEnd ==
    \A i \in Slots : (wk[i].st \in Alive /\ wk[i].quit) ~> wk[i].st \notin Alive

=============================================================================
