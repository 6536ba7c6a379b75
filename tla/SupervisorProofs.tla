--------------------------- MODULE SupervisorProofs ---------------------------
(***************************************************************************)
(* Proofs about Supervisor for any number of workers, any signals and      *)
(* whether fork() may fail or not.                                         *)
(***************************************************************************)
EXTENDS Supervisor, TLAPS

Process == [st: Alive \union {"none", "zombie"}, quit: BOOLEAN,
            term: BOOLEAN, exiting: BOOLEAN]
Entry == [pid: {"zero", "live", "stale"}, exiting: BOOLEAN, exited: BOOLEAN]
Telling == {"tellQ", "tellN"}
Killing == {"killQ", "killN"}

TypeOK ==
    /\ forkFails \in BOOLEAN
    /\ mpc \in {"start", "wait", "reap", "respawn", "quit", "noaccept"} \union Telling \union Killing
    /\ at \in Slots
    /\ flags \in [{"reap", "quit", "noaccept", "term"} -> BOOLEAN]
    /\ chld \in BOOLEAN
    /\ procs \in [Slots -> Entry]
    /\ pipe \in [Slots -> Nat]
    /\ wk \in [Slots -> Process]

(* The table has the pid of every process, and of no other.                 *)
PidsExact == \A i \in Slots : procs[i].pid = "live" <=> wk[i].st # "none"

Dead(i) == procs[i].pid = "stale" /\ procs[i].exited

(* While fork() succeeds, a slot is without a process only between the      *)
(* reaping and the respawning, and then the master knows of it.             *)
Staffed ==
    forkFails = FALSE =>
        /\ mpc = "start" => \A i \in Slots : i < at => procs[i].pid = "live"
        /\ mpc \notin {"start", "reap", "respawn"} => \A i \in Slots : procs[i].pid = "live"
        /\ mpc = "reap" => \A i \in Slots : procs[i].pid = "live" \/ (Dead(i) /\ flags["reap"] = TRUE)
        /\ mpc = "respawn" => \A i \in Slots : procs[i].pid = "live" \/ (Dead(i) /\ at <= i)

\* The inner loops start at the first slot.
AtFirst == mpc \in {"wait", "reap", "quit", "noaccept"} => at = 1

IInv == TypeOK /\ PidsExact /\ Staffed /\ AtFirst /\ OneProcessPerSlot /\ ToldWorkersKnow

-----------------------------------------------------------------------------
LEMMA InitEstablishes == Init => IInv
<1> SUFFICES ASSUME Init PROVE IInv
  OBVIOUS
<1>1. 1 \in Slots
  BY NAssumption DEF Slots
<1>2. TypeOK
  <2>1. NoProcess \in Process /\ 0 \in Nat
    BY DEF NoProcess, Process
  <2>2. [pid |-> "zero", exiting |-> FALSE, exited |-> FALSE] \in Entry
    BY DEF Entry
  <2>3. flags \in [{"reap", "quit", "noaccept", "term"} -> BOOLEAN]
    <3>1. flags \in [reap: BOOLEAN, quit: BOOLEAN, noaccept: BOOLEAN, term: BOOLEAN]
      BY DEF Init
    <3> QED BY <3>1
  <2>4. procs \in [Slots -> Entry]
    BY <2>2 DEF Init
  <2>5. pipe \in [Slots -> Nat] /\ wk \in [Slots -> Process]
    BY <2>1 DEF Init
  <2>6. forkFails \in BOOLEAN /\ mpc = "start" /\ at \in Slots /\ chld \in BOOLEAN
    BY <1>1, ForkFailsAssumption DEF Init
  <2> QED
    BY <2>3, <2>4, <2>5, <2>6 DEF TypeOK
<1>3. PidsExact /\ OneProcessPerSlot
  BY DEF Init, PidsExact, OneProcessPerSlot, NoProcess
<1>4. ToldWorkersKnow
  BY DEF Init, ToldWorkersKnow
<1>5. Staffed
  BY DEF Init, Staffed, Slots
<1>6. AtFirst
  BY DEF Init, AtFirst
<1> QED
  BY <1>2, <1>3, <1>4, <1>5, <1>6 DEF IInv

-----------------------------------------------------------------------------
(* Steps of a worker.                                                      *)

(* A process that changes keeps the invariant if it stays a process, and    *)
(* forgets no order to quit unless it is over.                              *)
LEMMA ProcessChanges ==
  ASSUME IInv, NEW i \in Slots, NEW w \in Process,
         wk' = [wk EXCEPT ![i] = w],
         wk[i].st # "none", w.st # "none",
         w.st \in Alive => wk[i].st \in Alive /\ (wk[i].quit => w.quit),
         pipe' \in [Slots -> Nat], chld' \in BOOLEAN,
         UNCHANGED <<forkFails, mpc, at, flags, procs>>
  PROVE  IInv'
<1>1. TypeOK'
  BY DEF IInv, TypeOK
<1>2. wk'[i] = w /\ \A j \in Slots : j # i => wk'[j] = wk[j]
  BY DEF IInv, TypeOK
<1>3. PidsExact'
  BY <1>2 DEF IInv, PidsExact
<1>4. OneProcessPerSlot'
  BY <1>2 DEF IInv, OneProcessPerSlot
<1>5. ToldWorkersKnow'
  BY <1>2 DEF IInv, ToldWorkersKnow
<1>6. Staffed' /\ AtFirst'
  BY DEF IInv, Staffed, Dead, AtFirst
<1> QED
  BY <1>1, <1>3, <1>4, <1>5, <1>6 DEF IInv

LEMMA EndedIsZombie == Ended \in Process /\ Ended.st = "zombie"
  BY DEF Ended, NoProcess, Process

(* What a signal leaves of a process.                                       *)
LEMMA HitKeeps ==
  ASSUME NEW w \in Process, NEW s
  PROVE  /\ Hit(w, s) \in Process
         /\ Hit(w, s).st = "none" <=> w.st = "none"
         /\ Hit(w, s).st \in Alive => w.st \in Alive
         /\ Hit(w, s).st \in Alive /\ w.quit => Hit(w, s).quit
         /\ s = "SIGQUIT" /\ Hit(w, s).st \in Alive => Hit(w, s).quit
<1>1. CASE w.st \notin Alive
  BY <1>1 DEF Hit, Alive
<1>2. CASE w.st = "blocked"
  <2>1. Hit(w, s) = Ended
    BY <1>2 DEF Hit, ReadFails, Alive
  <2>2. Hit(w, s) \in Process /\ Hit(w, s).st = "zombie" /\ "zombie" \notin Alive
    BY <2>1, EndedIsZombie DEF Alive
  <2>3. Hit(w, s).st \notin Alive /\ Hit(w, s).st # "none" /\ w.st \in Alive /\ w.st # "none"
    BY <1>2, <2>2 DEF Alive
  <2> QED
    BY <2>2, <2>3
<1>3. CASE w.st \in Alive /\ w.st # "blocked"
  <2> DEFINE quit == s \in DOMAIN WorkerNotes /\ WorkerNotes[s] = "quit"
             term == s \in DOMAIN WorkerNotes /\ WorkerNotes[s] = "term"
  <2>1. Hit(w, s) = [w EXCEPT !.quit = @ \/ quit, !.term = @ \/ term]
    BY <1>3 DEF Hit
  <2>2. quit \in BOOLEAN /\ term \in BOOLEAN /\ (s = "SIGQUIT" => quit)
    BY DEF WorkerNotes
  <2> HIDE DEF quit, term
  <2>3. Hit(w, s).st = w.st /\ Hit(w, s).quit = (w.quit \/ quit)
    BY <2>1 DEF Process
  <2>4. Hit(w, s) \in Process
    BY <2>1, <2>2 DEF Process
  <2> QED
    BY <1>3, <2>2, <2>3, <2>4 DEF Alive
<1> QED BY <1>1, <1>2, <1>3

LEMMA DieKeeps ==
  ASSUME IInv, NEW i \in Slots, wk[i].st \in Alive, Die(i)
  PROVE  IInv'
<1> DEFINE w == Ended
<1>1. w \in Process /\ w.st = "zombie"
  BY EndedIsZombie
<1>2. /\ wk' = [wk EXCEPT ![i] = w] /\ wk[i].st # "none" /\ w.st \notin Alive
      /\ pipe' \in [Slots -> Nat] /\ chld' \in BOOLEAN
      /\ UNCHANGED <<forkFails, mpc, at, flags, procs>>
  BY <1>1 DEF Die, Alive, IInv, TypeOK
<1> HIDE DEF w
<1> QED
  BY <1>1, <1>2, ProcessChanges

LEMMA WorkerKeeps ==
  ASSUME IInv, NEW i \in Slots,
         \/ Worker(i) \/ Faults(i) \/ \E s \in Signals : WorkerSignal(i, s)
  PROVE  IInv'
<1>1. wk[i] \in Process /\ wk \in [Slots -> Process] /\ pipe \in [Slots -> Nat]
      /\ chld \in BOOLEAN
  BY DEF IInv, TypeOK
<1>2. ASSUME NEW ok \in BOOLEAN, Boot(i, ok) PROVE IInv'
  <2> DEFINE w == [wk[i] EXCEPT !.st = "top", !.exiting = ~ok]
  <2>1. wk' = [wk EXCEPT ![i] = w]
    BY <1>1, <1>2 DEF Boot, Process
  <2>2. w \in Process /\ w.st = "top" /\ w.quit = wk[i].quit /\ wk[i].st = "boot"
    BY <1>1, <1>2 DEF Boot, Process, Alive
  <2>3. pipe' = pipe /\ UNCHANGED <<forkFails, mpc, at, flags, procs, chld>>
    BY <1>2 DEF Boot, master
  <2> HIDE DEF w
  <2> QED
    BY <1>1, <2>1, <2>2, <2>3, ProcessChanges DEF Alive
<1>3. CASE Top(i)
  <2>1. CASE Die(i)
    BY <1>3, <2>1, DieKeeps DEF Top, Alive
  <2>2. CASE ~Die(i)
    <3> DEFINE w == [wk[i] EXCEPT !.st = "poll", !.exiting = wk[i].quit]
    <3>1. wk' = [wk EXCEPT ![i] = w]
      BY <1>1, <1>3, <2>2 DEF Top, Process
    <3>2. w \in Process /\ w.st = "poll" /\ w.quit = wk[i].quit /\ wk[i].st = "top"
      BY <1>1, <1>3 DEF Top, Process, Alive
    <3>3. pipe' = pipe /\ UNCHANGED <<forkFails, mpc, at, flags, procs, chld>>
      BY <1>3, <2>2 DEF Top, master
    <3> HIDE DEF w
    <3> QED
      BY <1>1, <3>1, <3>2, <3>3, ProcessChanges DEF Alive
  <2> QED BY <2>1, <2>2
<1>4. CASE Poll(i)
  <2> DEFINE w == [wk[i] EXCEPT !.st = IF pipe[i] > 0 THEN "read" ELSE "top"]
  <2>1. wk' = [wk EXCEPT ![i] = w]
    BY <1>1, <1>4 DEF Poll, Process
  <2>2. w \in Process /\ w.st \in {"read", "top"} /\ w.quit = wk[i].quit /\ wk[i].st = "poll"
    BY <1>1, <1>4 DEF Poll, Process, Alive
  <2>3. pipe' = pipe /\ UNCHANGED <<forkFails, mpc, at, flags, procs, chld>>
    BY <1>4 DEF Poll, master
  <2> HIDE DEF w
  <2> QED
    BY <1>1, <2>1, <2>2, <2>3, ProcessChanges DEF Alive
<1>5. CASE Read(i)
  <2>1. wk[i].st = "read" /\ UNCHANGED <<forkFails, mpc, at, flags, procs, chld>>
    BY <1>5 DEF Read, master
  <2>2. CASE pipe[i] > 0 /\ pipe' = [pipe EXCEPT ![i] = @ - 1] /\ wk' = [wk EXCEPT ![i].quit = TRUE]
    <3> DEFINE w == [wk[i] EXCEPT !.quit = TRUE]
    <3>1. wk' = [wk EXCEPT ![i] = w]
      BY <1>1, <2>2 DEF Process
    <3>2. w \in Process /\ w.st = "read" /\ w.quit = TRUE
      BY <1>1, <2>1 DEF Process
    <3>3. pipe' \in [Slots -> Nat]
      BY <1>1, <2>2
    <3> HIDE DEF w
    <3> QED
      BY <1>1, <2>1, <3>1, <3>2, <3>3, ProcessChanges DEF Alive
  <2>3. CASE wk' = [wk EXCEPT ![i].st = "blocked"] /\ pipe' = pipe
    <3> DEFINE w == [wk[i] EXCEPT !.st = "blocked"]
    <3>1. wk' = [wk EXCEPT ![i] = w]
      BY <1>1, <2>3 DEF Process
    <3>2. w \in Process /\ w.st = "blocked" /\ w.quit = wk[i].quit
      BY <1>1 DEF Process, Alive
    <3> HIDE DEF w
    <3> QED
      BY <1>1, <2>1, <2>3, <3>1, <3>2, ProcessChanges DEF Alive
  <2> QED BY <1>5, <2>2, <2>3 DEF Read
<1>6. CASE wk[i].st \in Alive /\ Die(i)
  BY <1>6, DieKeeps
<1>7. ASSUME NEW s \in Signals, WorkerSignal(i, s) PROVE IInv'
  <2> DEFINE w == Hit(wk[i], s)
  <2>1. wk' = [wk EXCEPT ![i] = w] /\ pipe' = pipe /\ wk[i].st \in Alive
    BY <1>1, <1>7 DEF WorkerSignal
  <2>2. UNCHANGED <<forkFails, mpc, at, flags, procs>> /\ chld' \in BOOLEAN
    BY <1>1, <1>7 DEF WorkerSignal, NoteEnded
  <2>3. /\ w \in Process /\ (w.st = "none" <=> wk[i].st = "none")
        /\ (w.st \in Alive => wk[i].st \in Alive)
        /\ (w.st \in Alive /\ wk[i].quit => w.quit)
    BY <1>1, HitKeeps
  <2> HIDE DEF w
  <2> QED
    BY <1>1, <2>1, <2>2, <2>3, ProcessChanges DEF Alive
<1> QED
  BY <1>2, <1>3, <1>4, <1>5, <1>6, <1>7 DEF Worker, Faults

-----------------------------------------------------------------------------
(* Steps of the master that leave the table and the processes alone.        *)

LEMMA TypesOfFlags ==
  ASSUME TypeOK
  PROVE  /\ [flags EXCEPT !.reap = FALSE] \in [{"reap", "quit", "noaccept", "term"} -> BOOLEAN]
         /\ [flags EXCEPT !.reap = TRUE] \in [{"reap", "quit", "noaccept", "term"} -> BOOLEAN]
         /\ [flags EXCEPT !.quit = TRUE] \in [{"reap", "quit", "noaccept", "term"} -> BOOLEAN]
         /\ [flags EXCEPT !.noaccept = FALSE] \in [{"reap", "quit", "noaccept", "term"} -> BOOLEAN]
  BY DEF TypeOK

LEMMA TestsKeep ==
  ASSUME IInv, TestReap \/ TestQuit \/ TestNoaccept \/ \E s \in Signals : MasterSignal(s)
  PROVE  IInv'
<1>1. UNCHANGED <<forkFails, at, chld, procs, pipe, wk>>
  BY DEF TestReap, TestQuit, TestNoaccept, MasterSignal
<1>2. flags' \in [{"reap", "quit", "noaccept", "term"} -> BOOLEAN]
  <2>1. CASE TestReap \/ TestQuit \/ TestNoaccept
    BY <2>1, TypesOfFlags DEF IInv, TypeOK, TestReap, TestQuit, TestNoaccept
  <2>2. ASSUME NEW s \in Signals, MasterSignal(s)
        PROVE  flags' \in [{"reap", "quit", "noaccept", "term"} -> BOOLEAN]
    BY <2>2 DEF MasterSignal, IInv, TypeOK
  <2> QED BY <2>1, <2>2
<1>3. mpc' \in {"start", "wait", "reap", "respawn", "quit", "noaccept"} \union Telling \union Killing
  BY DEF TestReap, TestQuit, TestNoaccept, MasterSignal, IInv, TypeOK, Telling
<1>4. TypeOK'
  BY <1>1, <1>2, <1>3 DEF IInv, TypeOK
<1>5. PidsExact' /\ OneProcessPerSlot'
  BY <1>1 DEF IInv, PidsExact, OneProcessPerSlot
<1>6. mpc' \in Killing <=> mpc \in Killing
  BY DEF TestReap, TestQuit, TestNoaccept, MasterSignal, Killing
<1>7. ToldWorkersKnow'
  BY <1>1, <1>6 DEF IInv, ToldWorkersKnow, Killing
<1>8. AtFirst'
  BY <1>1 DEF IInv, AtFirst, TestReap, TestQuit, TestNoaccept, MasterSignal
<1>9. Staffed'
  <2> SUFFICES ASSUME forkFails = FALSE PROVE Staffed'
    BY <1>1 DEF Staffed
  <2>1. CASE TestReap
    <3>1. mpc = "reap" /\ at = 1 /\ mpc' = IF flags.reap THEN "respawn" ELSE "quit"
      BY <2>1 DEF TestReap, IInv, AtFirst
    <3>2. \A i \in Slots : procs[i].pid = "live" \/ (Dead(i) /\ flags["reap"] = TRUE)
      BY <3>1 DEF IInv, Staffed
    <3>3. \A i \in Slots : 1 <= i
      BY DEF Slots
    <3> QED
      BY <1>1, <3>1, <3>2, <3>3 DEF Staffed, Dead
  <2>2. CASE TestQuit \/ TestNoaccept
    BY <1>1, <2>2 DEF IInv, Staffed, TestQuit, TestNoaccept
  <2>3. ASSUME NEW s \in Signals, MasterSignal(s) PROVE Staffed'
    <3>1. flags["reap"] = TRUE => flags'["reap"] = TRUE
      BY <2>3 DEF MasterSignal, IInv, TypeOK
    <3>2. mpc' = mpc \/ (mpc = "wait" /\ mpc' = "reap")
      BY <2>3 DEF MasterSignal
    <3> QED
      BY <1>1, <3>1, <3>2 DEF IInv, Staffed, Dead
  <2> QED BY <2>1, <2>2, <2>3
<1> QED
  BY <1>4, <1>5, <1>7, <1>8, <1>9 DEF IInv

-----------------------------------------------------------------------------
(* Starting workers: Start and Respawn.                                     *)

(* What a start leaves, and what it means for the parts of the invariant     *)
(* that do not look at where the master is.                                 *)
LEMMA SpawnEffect ==
  ASSUME IInv, NEW i \in Slots, Spawn(i)
  PROVE  /\ pipe' \in [Slots -> Nat]
         /\ procs' \in [Slots -> Entry] /\ wk' \in [Slots -> Process]
         /\ \A j \in Slots : j # i => procs'[j] = procs[j] /\ wk'[j] = wk[j]
         /\ \/ procs' = procs /\ wk' = wk /\ forkFails = TRUE
            \/ /\ procs'[i].pid = "live" /\ ~procs'[i].exiting /\ ~procs'[i].exited
               /\ wk'[i].st = "boot"
<1>1. pipe' = [pipe EXCEPT ![i] = 0] /\ 0 \in Nat
  BY DEF Spawn
<1>2. CASE Forked(i)
  <2> DEFINE e == [pid |-> "live", exiting |-> FALSE, exited |-> FALSE]
             w == [NoProcess EXCEPT !.st = "boot", !.quit = flags.quit, !.term = flags.term]
  <2>1. procs' = [procs EXCEPT ![i] = e] /\ wk' = [wk EXCEPT ![i] = w]
    BY <1>2 DEF Forked
  <2>2. e \in Entry /\ e.pid = "live" /\ ~e.exiting /\ ~e.exited
    BY DEF Entry
  <2>3. flags.quit \in BOOLEAN /\ flags.term \in BOOLEAN
    BY DEF IInv, TypeOK
  <2>4. w \in Process /\ w.st = "boot"
    BY <2>3 DEF Process, NoProcess, Alive
  <2> HIDE DEF e, w
  <2> QED
    BY <1>1, <2>1, <2>2, <2>4 DEF IInv, TypeOK
<1>3. CASE forkFails /\ UNCHANGED <<procs, wk>>
  BY <1>1, <1>3 DEF IInv, TypeOK
<1> QED
  BY <1>2, <1>3 DEF Spawn

LEMMA SpawnKeeps ==
  ASSUME IInv, NEW i \in Slots, Spawn(i),
         mpc \notin Killing, mpc' \notin Killing
  PROVE  PidsExact' /\ OneProcessPerSlot' /\ ToldWorkersKnow'
<1>1. /\ \A j \in Slots : j # i => procs'[j] = procs[j] /\ wk'[j] = wk[j]
      /\ \/ procs' = procs /\ wk' = wk
         \/ /\ procs'[i].pid = "live" /\ ~procs'[i].exiting /\ ~procs'[i].exited
            /\ wk'[i].st = "boot"
  BY SpawnEffect
<1>2. PidsExact'
  BY <1>1 DEF IInv, PidsExact
<1>3. OneProcessPerSlot'
  BY <1>1 DEF IInv, OneProcessPerSlot
<1>4. ToldWorkersKnow'
  BY <1>1 DEF IInv, ToldWorkersKnow, Killing
<1> QED BY <1>2, <1>3, <1>4

LEMMA StartKeeps ==
  ASSUME IInv, Start
  PROVE  IInv'
<1>1. /\ mpc = "start" /\ at \in Slots /\ Spawn(at)
      /\ UNCHANGED <<forkFails, flags, chld>>
  BY DEF Start, IInv, TypeOK
<1>2. \/ at < N /\ at' = at + 1 /\ mpc' = "start"
      \/ at = N /\ at' = 1 /\ mpc' = "wait"
  BY <1>1, NAssumption DEF Start, Advance, Slots
<1>3. at' \in Slots
  BY <1>1, <1>2, NAssumption DEF Slots
<1>4. TypeOK'
  <2>1. mpc' \in {"start", "wait"}
    BY <1>2
  <2> QED
    BY <1>1, <1>3, <2>1, SpawnEffect DEF IInv, TypeOK
<1>5. PidsExact' /\ OneProcessPerSlot' /\ ToldWorkersKnow'
  BY <1>1, <1>2, SpawnKeeps DEF Killing
<1>6. AtFirst'
  BY <1>2 DEF AtFirst
<1>7. Staffed'
  <2> SUFFICES ASSUME forkFails = FALSE PROVE Staffed'
    BY <1>1 DEF Staffed
  <2>1. \A j \in Slots : j < at \/ j = at => procs'[j].pid = "live"
    <3>1. \A j \in Slots : j < at => procs[j].pid = "live"
      BY <1>1 DEF IInv, Staffed
    <3>2. /\ \A j \in Slots : j # at => procs'[j] = procs[j]
          /\ procs'[at].pid = "live"
      BY <1>1, SpawnEffect
    <3> QED BY <3>1, <3>2
  <2>2. \A j \in Slots : (mpc' = "start" /\ j < at') \/ mpc' # "start" => j < at \/ j = at
    BY <1>1, <1>2 DEF Slots
  <2>3. \A j \in Slots : (mpc' = "start" /\ j < at') \/ mpc' # "start" => procs'[j].pid = "live"
    BY <2>1, <2>2
  <2> QED
    BY <1>2, <2>3 DEF Staffed
<1> QED
  BY <1>4, <1>5, <1>6, <1>7 DEF IInv

LEMMA RespawnKeeps ==
  ASSUME IInv, Respawn
  PROVE  IInv'
<1>1. /\ mpc = "respawn" /\ at \in Slots /\ UNCHANGED <<forkFails, flags, chld>>
      /\ \/ procs[at].exited /\ Spawn(at)
         \/ ~procs[at].exited /\ UNCHANGED <<procs, pipe, wk>>
  BY DEF Respawn, IInv, TypeOK
<1>2. \/ at < N /\ at' = at + 1 /\ mpc' = "respawn"
      \/ at = N /\ at' = 1 /\ mpc' = "quit"
  BY <1>1, NAssumption DEF Respawn, Advance, Slots
<1>3. at' \in Slots
  BY <1>1, <1>2, NAssumption DEF Slots
<1>4. TypeOK'
  <2>1. mpc' \in {"respawn", "quit"}
    BY <1>2
  <2>2. procs' \in [Slots -> Entry] /\ wk' \in [Slots -> Process] /\ pipe' \in [Slots -> Nat]
    BY <1>1, SpawnEffect DEF IInv, TypeOK
  <2> QED
    BY <1>1, <1>3, <2>1, <2>2 DEF IInv, TypeOK
<1>5. PidsExact' /\ OneProcessPerSlot' /\ ToldWorkersKnow'
  <2>1. CASE Spawn(at)
    BY <1>1, <1>2, <2>1, SpawnKeeps DEF Killing
  <2>2. CASE UNCHANGED <<procs, pipe, wk>>
    BY <1>1, <1>2, <2>2 DEF IInv, PidsExact, OneProcessPerSlot, ToldWorkersKnow, Killing
  <2> QED BY <1>1, <2>1, <2>2
<1>6. AtFirst'
  BY <1>2 DEF AtFirst
<1>7. Staffed'
  <2> SUFFICES ASSUME forkFails = FALSE PROVE Staffed'
    BY <1>1 DEF Staffed
  <2>1. \A j \in Slots : procs[j].pid = "live" \/ (Dead(j) /\ at <= j)
    BY <1>1 DEF IInv, Staffed
  <2>2. /\ \A j \in Slots : j # at => procs'[j] = procs[j]
        /\ procs'[at].pid = "live"
    <3>1. CASE Spawn(at)
      BY <1>1, <3>1, SpawnEffect
    <3>2. CASE ~procs[at].exited /\ UNCHANGED <<procs, pipe, wk>>
      BY <1>1, <2>1, <3>2 DEF Dead
    <3> QED BY <1>1, <3>1, <3>2
  <2>3. \A j \in Slots : procs'[j].pid = "live" \/ (Dead(j)' /\ at <= j /\ j # at)
    BY <2>1, <2>2 DEF Dead
  <2>4. \A j \in Slots : at <= j /\ j # at => mpc' = "respawn" /\ at' <= j
    BY <1>1, <1>2 DEF Slots
  <2> QED
    BY <1>2, <2>3, <2>4 DEF Staffed
<1> QED
  BY <1>4, <1>5, <1>6, <1>7 DEF IInv

-----------------------------------------------------------------------------
(* Reaping.                                                                 *)

LEMMA SigchldKeeps ==
  ASSUME IInv, Sigchld
  PROVE  IInv'
<1>1. /\ mpc = "wait" /\ mpc' = "reap" /\ chld' = FALSE
      /\ flags' = [flags EXCEPT !.reap = TRUE]
      /\ UNCHANGED <<forkFails, at, pipe>>
  BY DEF Sigchld
<1>2. \A i \in Slots : \/ i \notin Zombies /\ procs'[i] = procs[i] /\ wk'[i] = wk[i]
                       \/ /\ i \in Zombies /\ wk'[i] = NoProcess
                          /\ procs'[i] = [procs[i] EXCEPT !.pid = "stale", !.exited = TRUE]
  BY DEF Sigchld, GetStatus, IInv, TypeOK
<1>3. \A i \in Slots : procs[i] \in Entry /\ wk[i] \in Process
  BY DEF IInv, TypeOK
<1>4. NoProcess \in Process /\ NoProcess.st = "none"
  BY DEF NoProcess, Process
<1>5. \A i \in Slots : [procs[i] EXCEPT !.pid = "stale", !.exited = TRUE] \in Entry
  BY <1>3 DEF Entry
<1>6. \A i \in Slots : \/ procs'[i] = procs[i] /\ wk'[i] = wk[i]
                       \/ /\ wk'[i].st = "none" /\ procs'[i].pid = "stale"
                          /\ procs'[i].exited = TRUE
  BY <1>2, <1>3, <1>4 DEF Entry
<1>7. TypeOK'
  <2>1. procs' \in [Slots -> Entry] /\ wk' \in [Slots -> Process]
    BY <1>4, <1>5, <1>3 DEF Sigchld, GetStatus
  <2> QED
    BY <1>1, <2>1, TypesOfFlags DEF IInv, TypeOK
<1>8. PidsExact' /\ OneProcessPerSlot'
  BY <1>6 DEF IInv, PidsExact, OneProcessPerSlot
<1>9. ToldWorkersKnow'
  BY <1>1, <1>6 DEF IInv, ToldWorkersKnow, Killing, Alive
<1>10. AtFirst'
  BY <1>1 DEF IInv, AtFirst
<1>11. Staffed'
  <2>1. flags'["reap"] = TRUE
    BY <1>1 DEF IInv, TypeOK
  <2>2. forkFails = FALSE => \A i \in Slots : procs[i].pid = "live"
    BY <1>1 DEF IInv, Staffed
  <2> QED
    BY <1>1, <1>6, <2>1, <2>2 DEF Staffed, Dead
<1> QED
  BY <1>7, <1>8, <1>9, <1>10, <1>11 DEF IInv

-----------------------------------------------------------------------------
(* Telling and signalling the workers.                                      *)

LEMMA TellKeeps ==
  ASSUME IInv, Tell
  PROVE  IInv'
<1>1. mpc \in Telling /\ at \in Slots /\ UNCHANGED <<forkFails, flags, chld, wk>>
  BY DEF Tell, Telling, IInv, TypeOK
<1>2. CASE procs[at].exiting /\ Advance(After[mpc]) /\ UNCHANGED <<procs, pipe>>
  <2>1. \/ at < N /\ at' = at + 1 /\ mpc' = mpc
        \/ at = N /\ at' = 1 /\ mpc' \in {"noaccept", "wait"}
    BY <1>1, <1>2, NAssumption DEF Advance, Slots, After, Telling
  <2>2. at' \in Slots
    BY <1>1, <2>1, NAssumption DEF Slots
  <2>3. TypeOK'
    BY <1>1, <1>2, <2>1, <2>2 DEF IInv, TypeOK
  <2>4. mpc' \notin Killing \union {"start", "reap", "respawn"}
    BY <1>1, <2>1 DEF Telling, Killing
  <2>5. PidsExact' /\ OneProcessPerSlot'
    BY <1>1, <1>2 DEF IInv, PidsExact, OneProcessPerSlot
  <2>6. ToldWorkersKnow'
    BY <1>1, <1>2, <2>4 DEF IInv, ToldWorkersKnow, Killing, Telling
  <2>7. Staffed'
    BY <1>1, <1>2, <2>4 DEF IInv, Staffed, Dead, Telling
  <2>8. AtFirst'
    BY <1>1, <2>1 DEF AtFirst, Telling
  <2> QED
    BY <2>3, <2>5, <2>6, <2>7, <2>8 DEF IInv
<1>3. CASE /\ ~procs[at].exiting
           /\ procs' = [procs EXCEPT ![at].exiting = TRUE]
           /\ PipeWrite(at)
           /\ mpc' = IF mpc = "tellQ" THEN "killQ" ELSE "killN"
           /\ UNCHANGED at
  <2>1. mpc' \in Killing
    BY <1>3 DEF Killing
  <2>2. procs \in [Slots -> Entry] /\ pipe \in [Slots -> Nat]
    BY DEF IInv, TypeOK
  <2>3. /\ procs' \in [Slots -> Entry]
        /\ procs'[at].pid = procs[at].pid /\ procs'[at].exited = procs[at].exited
        /\ \A j \in Slots : j # at => procs'[j] = procs[j]
    BY <1>1, <1>3, <2>2 DEF Entry
  <2>4. pipe' \in [Slots -> Nat]
    <3>1. pipe' = [pipe EXCEPT ![at] = IF wk[at].st \in Alive THEN pipe[at] + 1 ELSE pipe[at]]
      BY <1>1, <1>3, <2>2 DEF PipeWrite
    <3> QED
      BY <1>1, <2>2, <3>1
  <2>5. TypeOK'
    BY <1>1, <1>3, <2>1, <2>3, <2>4 DEF IInv, TypeOK
  <2>6. PidsExact' /\ OneProcessPerSlot'
    BY <1>1, <2>3 DEF IInv, PidsExact, OneProcessPerSlot
  <2>7. ToldWorkersKnow'
    BY <1>1, <1>3, <2>1, <2>3 DEF IInv, ToldWorkersKnow, Killing, Telling
  <2>8. Staffed'
    BY <1>1, <1>3, <2>1, <2>3 DEF IInv, Staffed, Dead, Telling, Killing
  <2>9. AtFirst'
    BY <2>1 DEF AtFirst, Killing
  <2> QED
    BY <2>5, <2>6, <2>7, <2>8, <2>9 DEF IInv
<1> QED
  BY <1>2, <1>3 DEF Tell

LEMMA KillKeeps ==
  ASSUME IInv, Kill
  PROVE  IInv'
<1>1. /\ mpc \in Killing /\ at \in Slots /\ chld' \in BOOLEAN
      /\ UNCHANGED <<forkFails, pipe>>
  BY DEF Kill, NoteEnded, Killing, IInv, TypeOK
<1>2. /\ at' \in Slots /\ (mpc' \in Telling \/ (at' = 1 /\ mpc' \in {"noaccept", "wait"}))
  <2>1. at' = IF at < N THEN at + 1 ELSE 1
    BY DEF Kill
  <2>2. mpc' = IF at = N THEN After[mpc] ELSE IF mpc = "killQ" THEN "tellQ" ELSE "tellN"
    BY DEF Kill
  <2>3. at' \in Slots
    BY <1>1, <2>1, NAssumption DEF Slots
  <2>4. CASE at = N
    BY <1>1, <2>1, <2>2, <2>3, <2>4, NAssumption DEF After, Killing, Slots
  <2>5. CASE at # N
    BY <2>2, <2>3, <2>5 DEF Telling
  <2> QED BY <2>4, <2>5
<1>3. mpc' \in Telling \union {"noaccept", "wait"} /\ mpc' \notin Killing
  BY <1>2 DEF Telling, Killing
<1>4. AtFirst'
  BY <1>2 DEF AtFirst, Telling
<1>5. forkFails = FALSE => procs[at].pid = "live" /\ \A j \in Slots : procs[j].pid = "live"
  BY <1>1 DEF IInv, Staffed, Killing
<1>6. procs[at] \in Entry /\ \A j \in Slots : wk[j] \in Process
  BY <1>1 DEF IInv, TypeOK
<1>7. CASE procs[at].pid = "live"
  <2>1. wk' = [wk EXCEPT ![at] = Hit(@, "SIGQUIT")] /\ UNCHANGED <<flags, procs>>
    BY <1>7 DEF Kill
  <2>2. wk'[at] = Hit(wk[at], "SIGQUIT") /\ \A j \in Slots : j # at => wk'[j] = wk[j]
    BY <1>1, <2>1 DEF IInv, TypeOK
  <2>3. /\ Hit(wk[at], "SIGQUIT") \in Process
        /\ wk'[at].st = "none" <=> wk[at].st = "none"
        /\ wk'[at].st \in Alive => wk[at].st \in Alive
        /\ wk'[at].st \in Alive => wk'[at].quit
    BY <1>1, <1>6, <2>2, HitKeeps
  <2>4. TypeOK'
    <3>1. wk' \in [Slots -> Process]
      BY <1>1, <2>1, <2>3 DEF IInv, TypeOK
    <3> QED
      BY <1>1, <1>2, <1>3, <2>1, <3>1 DEF IInv, TypeOK
  <2>5. PidsExact' /\ OneProcessPerSlot'
    BY <1>1, <2>1, <2>2, <2>3 DEF IInv, PidsExact, OneProcessPerSlot
  <2>6. ToldWorkersKnow'
    BY <1>1, <2>1, <2>2, <2>3 DEF IInv, ToldWorkersKnow
  <2>7. Staffed'
    BY <1>1, <1>3, <1>5, <2>1 DEF Staffed, Telling
  <2> QED
    BY <1>4, <2>4, <2>5, <2>6, <2>7 DEF IInv
<1>8. CASE procs[at].pid = "stale"
  <2>1. /\ procs' = [procs EXCEPT ![at].exited = TRUE, ![at].exiting = FALSE]
        /\ flags' = [flags EXCEPT !.reap = TRUE] /\ wk' = wk
    BY <1>8 DEF Kill
  <2>2. /\ procs' \in [Slots -> Entry] /\ procs'[at].pid = "stale" /\ ~procs'[at].exiting
        /\ \A j \in Slots : j # at => procs'[j] = procs[j]
    BY <1>1, <1>6, <1>8, <2>1 DEF IInv, TypeOK, Entry
  <2>3. TypeOK'
    BY <1>1, <1>2, <1>3, <2>1, <2>2, TypesOfFlags DEF IInv, TypeOK
  <2>4. wk[at].st = "none"
    BY <1>1, <1>8 DEF IInv, PidsExact
  <2>5. PidsExact' /\ OneProcessPerSlot'
    BY <1>1, <2>1, <2>2, <2>4 DEF IInv, PidsExact, OneProcessPerSlot
  <2>6. ToldWorkersKnow'
    BY <1>1, <2>1, <2>2 DEF IInv, ToldWorkersKnow
  <2>7. Staffed'
    BY <1>1, <1>5, <1>8 DEF Staffed
  <2> QED
    BY <1>4, <2>3, <2>5, <2>6, <2>7 DEF IInv
<1>9. CASE procs[at].pid = "zero"
  <2>1. /\ wk' = [i \in Slots |-> Hit(wk[i], "SIGQUIT")]
        /\ flags' = [flags EXCEPT !.quit = TRUE] /\ procs' = procs
    BY <1>9 DEF Kill
  <2>2. \A i \in Slots : /\ wk'[i] \in Process
                         /\ wk'[i].st = "none" <=> wk[i].st = "none"
                         /\ wk'[i].st \in Alive => wk[i].st \in Alive
                         /\ wk'[i].st \in Alive => wk'[i].quit
    BY <1>6, <2>1, HitKeeps
  <2>3. TypeOK'
    <3>1. wk' \in [Slots -> Process]
      BY <2>1, <2>2
    <3> QED
      BY <1>1, <1>2, <1>3, <2>1, <3>1, TypesOfFlags DEF IInv, TypeOK
  <2>4. PidsExact' /\ OneProcessPerSlot'
    BY <2>1, <2>2 DEF IInv, PidsExact, OneProcessPerSlot
  <2>5. ToldWorkersKnow'
    BY <2>1, <2>2 DEF ToldWorkersKnow
  <2>6. Staffed'
    BY <1>1, <1>5, <1>9 DEF Staffed
  <2> QED
    BY <1>4, <2>3, <2>4, <2>5, <2>6 DEF IInv
<1> QED
  BY <1>6, <1>7, <1>8, <1>9 DEF Entry

-----------------------------------------------------------------------------
(* The theorems.                                                           *)

LEMMA StepKeeps ==
  ASSUME IInv, [Next]_vars
  PROVE  IInv'
<1>1. CASE TestReap \/ TestQuit \/ TestNoaccept
  BY <1>1, TestsKeep
<1>2. CASE Start
  BY <1>2, StartKeeps
<1>3. CASE Sigchld
  BY <1>3, SigchldKeeps
<1>4. CASE Respawn
  BY <1>4, RespawnKeeps
<1>5. CASE Tell
  BY <1>5, TellKeeps
<1>6. CASE Kill
  BY <1>6, KillKeeps
<1>7. ASSUME NEW i \in Slots, Worker(i) \/ Faults(i) PROVE IInv'
  BY <1>7, WorkerKeeps
<1>8. ASSUME NEW s \in Signals, MasterSignal(s) PROVE IInv'
  BY <1>8, TestsKeep
<1>9. ASSUME NEW s \in Signals, NEW i \in Slots, WorkerSignal(i, s) PROVE IInv'
  BY <1>9, WorkerKeeps
<1>10. CASE UNCHANGED vars
  BY <1>10 DEF vars, IInv, TypeOK, PidsExact, Staffed, Dead, AtFirst,
               OneProcessPerSlot, ToldWorkersKnow
<1> QED
  BY <1>1, <1>2, <1>3, <1>4, <1>5, <1>6, <1>7, <1>8, <1>9, <1>10 DEF Next, Master

THEOREM Invariance == Spec => []IInv
<1>1. Init => IInv
  BY InitEstablishes
<1>2. IInv /\ [Next]_vars => IInv'
  BY StepKeeps
<1> QED
  BY <1>1, <1>2, PTL DEF Spec

(* No slot of ws_processes gets a second process on top of a living one,     *)
(* for any number of workers: OneProcessPerSlot.                             *)
THEOREM SlotsHoldOneProcess == Spec => []OneProcessPerSlot
<1>1. IInv => OneProcessPerSlot
  BY DEF IInv
<1> QED
  BY <1>1, Invariance, PTL

(* A worker the master has told to quit knows it: ToldWorkersKnow.           *)
THEOREM OrdersArrive == Spec => []ToldWorkersKnow
<1>1. IInv => ToldWorkersKnow
  BY DEF IInv
<1> QED
  BY <1>1, Invariance, PTL

(* While fork() succeeds, kill() is called only for a process that is there  *)
(* to be reaped: KillsOnlyItsOwn.                                            *)
THEOREM KillsAreSafe == Spec => []KillsOnlyItsOwn
<1>1. IInv => KillsOnlyItsOwn
  BY DEF IInv, TypeOK, Staffed, KillsOnlyItsOwn, Killing
<1> QED
  BY <1>1, Invariance, PTL
=============================================================================
