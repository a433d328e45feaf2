-------------------------------- MODULE Commands --------------------------------
(***************************************************************************)
(* How the threads of the program run its commands (diskpart, bcdedit,     *)
(* dism, mountvol, chkdsk) and come by their output: Utils::exec and its   *)
(* variants, the same lines again in PartitionReformatter,                 *)
(* PartitionCreator, DiskpartExecutor and PartitionManager, and the        *)
(* dialogue with "chkdsk /f" in DiskIntegrityChecker.                      *)
(*                                                                         *)
(* A step is one call of the system.  A pipe is known by the thread that   *)
(* reads it and a command by the thread that started it.  What matters of  *)
(* a pipe is who can still write to it: both of its ends are inheritable,  *)
(* so a command that another thread starts meanwhile gets a handle too.    *)
(***************************************************************************)
EXTENDS Naturals, FiniteSets

CONSTANTS
    Thread,      \* the threads that run commands
    Calls,       \* the ways in which each of them does: [Thread -> SUBSET Kinds]
    MaxChunks,   \* a bound on what a command prints, counted in reads
    Capacity,    \* how much a pipe holds before its writer has to wait
    Locale,      \* the language that chkdsk asks in: "es" or "en"
    Env          \* what may happen: see EnvKinds

EnvKinds == {"fail",    \* a command cannot be started
             "slow",    \* a command may run for longer than anybody waits
             "hang"}    \* a command may never end

Kinds == {"exec",      \* piped, and waited for without a limit
          "script",    \* piped, then waited for with a limit
          "assign",    \* not piped, waited for without a limit
          "format",    \* not piped, waited for with a limit
          "repair"}    \* chkdsk /f: piped both ways

Piped   == {"exec", "script", "repair"}
Limited == {"script", "format"}

Program == "program"     \* the program itself, as somebody who holds a handle

ASSUME CommandsAssumption ==
    /\ Calls \in [Thread -> SUBSET Kinds] /\ Program \notin Thread
    /\ MaxChunks \in Nat /\ Capacity \in Nat \ {0}
    /\ Locale \in {"es", "en"} /\ Env \subseteq EnvKinds

VARIABLES
    pc,       \* per thread, where its call is; "idle" when it has returned
    kind,     \* ... and which kind of call it is, or was
    command,  \* the command it started: "none", "running", "asking", "hung" or "ended"
    size,     \* how much that command prints in all
    left,     \* ... of which this is still to come
    buffer,   \* what is in the pipe
    got,      \* what was read
    writers,  \* who holds a handle to write to the pipe
    behind    \* the threads with a command left running by an earlier call

pipes == <<size, left, buffer, got, writers>>
vars  == <<pc, kind, command, size, left, buffer, got, writers, behind>>

Init ==
    /\ pc = [t \in Thread |-> "idle"] /\ kind = [t \in Thread |-> "exec"]
    /\ command = [t \in Thread |-> "none"]
    /\ size = [t \in Thread |-> 0] /\ left = [t \in Thread |-> 0]
    /\ buffer = [t \in Thread |-> 0] /\ got = [t \in Thread |-> 0]
    /\ writers = [t \in Thread |-> {}]
    /\ behind = {}

Goto(t, l) == pc' = [pc EXCEPT ![t] = l]

Alive(t) == command[t] \in {"running", "asking", "hung"}

(***************************************************************************)
(* The threads.                                                            *)
(***************************************************************************)
\* CreatePipe.  A command that an earlier call has given up stays behind.
CreatePipes(t) ==
    /\ pc[t] = "idle" /\ Goto(t, "piped")
    /\ \E k \in Calls[t] : /\ kind' = [kind EXCEPT ![t] = k]
                           /\ writers' = [writers EXCEPT ![t] = IF k \in Piped THEN {Program} ELSE {}]
    /\ command' = [command EXCEPT ![t] = "none"]
    /\ size' = [size EXCEPT ![t] = 0] /\ left' = [left EXCEPT ![t] = 0]
    /\ buffer' = [buffer EXCEPT ![t] = 0] /\ got' = [got EXCEPT ![t] = 0]
    /\ behind' = behind \cup {u \in {t} : Alive(u)}

\* Everything inheritable that the program holds at this moment.
Inheriting(t) == [u \in Thread |-> IF Program \in writers[u] THEN writers[u] \cup {t} ELSE writers[u]]

\* The command prints what it prints; chkdsk its question first, and then the outcome.
Output(k) == IF k = "repair" THEN {2} ELSE IF k \in Piped THEN 0..MaxChunks ELSE {0}

\* CreateProcess, with the handles or without.
Start(t) ==
    /\ pc[t] = "piped"
    /\ Goto(t, IF kind[t] = "repair" THEN "poll" ELSE IF kind[t] \in Piped THEN "started" ELSE "wait")
    /\ command' = [command EXCEPT ![t] = "running"]
    /\ \E n \in Output(kind[t]) : size' = [size EXCEPT ![t] = n] /\ left' = [left EXCEPT ![t] = n]
    /\ writers' = IF kind[t] \in Piped THEN Inheriting(t) ELSE writers
    /\ UNCHANGED <<kind, buffer, got, behind>>

\* ... or it fails and both ends are closed; what others inherited leads nowhere.
StartFails(t) ==
    /\ "fail" \in Env /\ pc[t] = "piped" /\ Goto(t, "idle")
    /\ writers' = [writers EXCEPT ![t] = {}]
    /\ UNCHANGED <<kind, command, size, left, buffer, got, behind>>

\* Mutant: one of the copies of the code forgets to close the program's own handle.
KeepWriteEnd(t) == IF kind[t] = "script" THEN writers[t] ELSE writers[t] \ {Program}

WithoutProgram(t) == writers[t] \ {Program}

\* CloseHandle(hWrite); chkdsk's dialogue leaves that to its end.
CloseWriteEnd(t) ==
    /\ pc[t] = "started" /\ Goto(t, "read")
    /\ writers' = [writers EXCEPT ![t] = WithoutProgram(t)]
    /\ UNCHANGED <<kind, command, size, left, buffer, got, behind>>

Take(t) == /\ buffer[t] > 0
           /\ buffer' = [buffer EXCEPT ![t] = @ - 1] /\ got' = [got EXCEPT ![t] = @ + 1]

\* Mutants: an empty pipe is taken for its end; so is the end of the command.
EmptyIsEnd(t)   == buffer[t] = 0
CommandIsEnd(t) == command[t] = "ended"

\* ReadFile finds the end of a pipe when it is empty and nobody can write to it.
AtEnd(t) == buffer[t] = 0 /\ writers[t] = {}

\* The loop of ReadFile, which blocks as long as neither holds; for chkdsk it is the
\* final read, after which the handles are closed and the output is judged.
Read(t) ==
    /\ pc[t] \in {"read", "drain"}
    /\ \/ Take(t) /\ UNCHANGED pc
       \/ AtEnd(t) /\ Goto(t, "wait") /\ UNCHANGED <<buffer, got>>
    /\ UNCHANGED <<kind, command, size, left, writers, behind>>

\* WaitForSingleObject and GetExitCodeProcess: the limit, if there is one, is for this
\* wait alone.
Wait(t) ==
    /\ pc[t] = "wait" /\ Goto(t, "idle")
    /\ ~Alive(t) \/ (kind[t] \in Limited /\ "slow" \in Env)
    /\ UNCHANGED <<kind, command, pipes, behind>>

\* What DiskIntegrityChecker looks for is "(S/N)".
Answered(t) == IF Locale = "es" /\ command[t] = "asking" THEN "running" ELSE command[t]

\* chkdsk /f: look whether there is something to read, read it, perhaps answer ...
Poll(t) ==
    /\ pc[t] = "poll" /\ Goto(t, "check")
    /\ \/ Take(t) /\ command' = [command EXCEPT ![t] = Answered(t)]
       \/ buffer[t] = 0 /\ UNCHANGED <<command, buffer, got>>
    /\ UNCHANGED <<kind, size, left, writers, behind>>

\* ... and again, until it has ended.
Check(t) ==
    /\ pc[t] = "check" /\ Goto(t, IF Alive(t) THEN "poll" ELSE "drain")
    /\ UNCHANGED <<kind, command, pipes, behind>>

(***************************************************************************)
(* The commands.                                                           *)
(***************************************************************************)
\* chkdsk waits for an answer once it has printed the question.
PrintOut(t) ==
    /\ command[t] = "running" /\ left[t] > 0 /\ buffer[t] < Capacity
    /\ left' = [left EXCEPT ![t] = @ - 1] /\ buffer' = [buffer EXCEPT ![t] = @ + 1]
    /\ command' = [command EXCEPT ![t] =
                       IF kind[t] = "repair" /\ left[t] = 2 THEN "asking" ELSE "running"]
    /\ UNCHANGED <<pc, kind, size, got, writers, behind>>

\* With a command go all of its handles, those that it inherited by chance too.
End(t) ==
    /\ command[t] = "running" /\ left[t] = 0
    /\ command' = [command EXCEPT ![t] = "ended"]
    /\ writers' = [u \in Thread |-> writers[u] \ {t}]
    /\ UNCHANGED <<pc, kind, size, left, buffer, got, behind>>

Hang(t) ==
    /\ "hang" \in Env /\ command[t] = "running"
    /\ command' = [command EXCEPT ![t] = "hung"]
    /\ UNCHANGED <<pc, kind, pipes, behind>>

EndBehind(t) == /\ t \in behind /\ behind' = behind \ {t}
                /\ UNCHANGED <<pc, kind, command, pipes>>

ThreadStep(t) == \/ Start(t) \/ StartFails(t) \/ CloseWriteEnd(t) \/ Read(t)
                 \/ Wait(t) \/ Poll(t) \/ Check(t)

CommandStep(t) == PrintOut(t) \/ End(t)

Next == \E t \in Thread : \/ CreatePipes(t) \/ ThreadStep(t) \/ CommandStep(t)
                          \/ Hang(t) \/ EndBehind(t)

Spec == Init /\ [][Next]_vars

\* Threads and commands run on; nobody has to start another call.
FairSpec == Spec /\ \A t \in Thread : WF_vars(ThreadStep(t)) /\ WF_vars(CommandStep(t))

-----------------------------------------------------------------------------
(***************************************************************************)
(* Properties.                                                             *)
(***************************************************************************)
\* Every variable is what the code can make it, and no pipe holds more than it can.
TypeOK ==
    /\ pc \in [Thread -> {"idle", "piped", "started", "read", "wait", "poll", "check", "drain"}]
    /\ kind \in [Thread -> Kinds]
    /\ command \in [Thread -> {"none", "running", "asking", "hung", "ended"}]
    /\ size \in [Thread -> Nat] /\ left \in [Thread -> Nat]
    /\ buffer \in [Thread -> 0..Capacity] /\ got \in [Thread -> Nat]
    /\ writers \in [Thread -> SUBSET (Thread \cup {Program})]
    /\ behind \subseteq Thread

\* The output that a caller parses is all that its command printed, whichever commands
\* other threads started meanwhile (Utils::exec and the loops like it).
OutputIsWhole == \A t \in Thread : pc[t] = "idle" => got[t] = size[t]

\* A piped call comes back after the end of its command, so that an exit code is one,
\* and not STILL_ACTIVE, even where the wait for it is limited.
ReturnsAfterCommand ==
    \A t \in Thread : pc[t] \in {"idle", "wait"} /\ kind[t] \in Piped => ~Alive(t)

\* A pipe that somebody may write to has its reader still at it: handles that
\* commands of other threads inherited are neither left over nor taken for those of
\* a later pipe.
PipesHaveReaders ==
    \A t \in Thread : writers[t] # {} => pc[t] \in {"piped", "started", "read", "poll", "check", "drain"}

\* Every call comes back unless a command never ends: no circle of threads that wait
\* for a pipe that a command of the next thread has inherited.  The repair is apart.
CallsReturn ==
    \A t \in Thread : (pc[t] # "idle" /\ kind[t] # "repair") ~>
                          (pc[t] = "idle" \/ \E u \in Thread : command[u] = "hung")

(***************************************************************************)
(* What the repository says of itself, and the code does not do.           *)
(***************************************************************************)
\* DiskIntegrityChecker: "FINAL scheduling detection and restart logic (always runs
\* after process ends)".
RepairIsJudged ==
    \A t \in Thread : (kind[t] = "repair" /\ command[t] = "ended") ~> (pc[t] = "idle")

\* DiskIntegrityChecker: "Check if prompt is present and send input".
PromptIsAnswered == \A t \in Thread : command[t] = "asking" ~> command[t] # "asking"

\* DiskpartExecutor: WaitForSingleObject(pi.hProcess, 300000); // 5 minutes
LimitHolds == \A t \in Thread : (pc[t] # "idle" /\ kind[t] \in Limited) ~> (pc[t] = "idle")

\* What a call reports as failed is not still going on (reformatEfiPartition).
NothingLeftBehind == behind = {}
=============================================================================
