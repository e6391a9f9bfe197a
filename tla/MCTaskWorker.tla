--------------------------- MODULE MCTaskWorker ---------------------------
(* Instances of TaskWorker for TLC.                                        *)
EXTENDS TaskWorker

\* Two worker processes with one thread each.
MCPool == [i \in Threads |-> i]

\* One process with all the threads.
MCOneProcess == [i \in Threads |-> CHOOSE w \in Workers : TRUE]
=============================================================================
