------------------------------- MODULE MCCommands -------------------------------
(***************************************************************************)
(* Commands for TLC: the worker, which checks the disk, formats and        *)
(* repairs, and the recovery, which enumerates volumes and assigns letters.*)
(***************************************************************************)
EXTENDS Commands

CONSTANTS
    WorkerCalls     \* what the worker does of it

MCCalls == [t \in Thread |-> IF t = "worker" THEN WorkerCalls ELSE {"exec", "assign"}]
=============================================================================
