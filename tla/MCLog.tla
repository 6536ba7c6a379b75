--------------------------------- MODULE MCLog ---------------------------------
(* The instance of Log for TLC: two logs, in the order both ws_log_init and  *)
(* ws_log_set_path open them in.  Numbers are written with 5, 8 and 10 bits. *)
EXTENDS Log, LogNumbers, TLC

Alike == Permutations(Threads)
MCOrder == <<"error", "sys">>
MCWidths == {[bits |-> 5, places |-> 2], [bits |-> 8, places |-> 3], [bits |-> 10, places |-> 4]}

\* The numbers of an entry that a call is about to write are readable in the
\* file: ws_log_core writes each as its shortest decimal (ws_log.c:633-759).
NumbersReadBack == \A t \in Threads : call[t].pc = "args" => ReadsBack

================================================================================
