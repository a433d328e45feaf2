----------------------------- MODULE CommandsProofs -----------------------------
(***************************************************************************)
(* Proofs about Commands, for any threads, whatever they run and whatever  *)
(* befalls it: what a caller gets of a piped command is all of it, after   *)
(* its end, and no pipe is left with somebody to write to it.              *)
(***************************************************************************)
EXTENDS Commands, TLAPS

\* What holds of a thread, its call and its command between any two steps.
CallOK(t) ==
    /\ got[t] + buffer[t] + left[t] = size[t]
    /\ Alive(t) /\ kind[t] \in Piped => t \in writers[t]
    /\ pc[t] \in {"idle", "wait"} => writers[t] = {} /\ buffer[t] = 0
    /\ pc[t] = "piped" => /\ command[t] = "none" /\ buffer[t] = 0 /\ got[t] = 0
                          /\ kind[t] \in Piped => Program \in writers[t]
    /\ ~Alive(t) => left[t] = 0
    /\ kind[t] \notin Piped => size[t] = 0 /\ writers[t] = {} /\ pc[t] \in {"idle", "piped", "wait"}

IInv == TypeOK /\ \A t \in Thread : CallOK(t)

\* A thread that a step leaves alone: all that CallOK speaks of is as it was.
Untouched(u) ==
    /\ pc'[u] = pc[u] /\ kind'[u] = kind[u] /\ command'[u] = command[u]
    /\ size'[u] = size[u] /\ left'[u] = left[u]
    /\ buffer'[u] = buffer[u] /\ got'[u] = got[u]
    /\ \A w \in {u, Program} : w \in writers[u] => w \in writers'[u]
    /\ (writers[u] = {} => writers'[u] = {})

LEMMA UntouchedStays ==
    ASSUME NEW u, CallOK(u), Untouched(u)
    PROVE  CallOK(u)'
BY DEF CallOK, Untouched, Alive

LEMMA InitOK == Init => IInv
BY CommandsAssumption DEF Init, IInv, TypeOK, CallOK, Alive, Kinds, Piped

LEMMA CallStarts ==
    ASSUME IInv, NEW t \in Thread, CreatePipes(t) \/ StartFails(t)
    PROVE  IInv'
<1>1. CASE CreatePipes(t)
  <2>0. PICK k \in Kinds : /\ kind' = [kind EXCEPT ![t] = k]
                           /\ writers' = [writers EXCEPT ![t] = IF k \in Piped THEN {Program} ELSE {}]
    BY <1>1, CommandsAssumption DEF CreatePipes
  <2>1. TypeOK'
    BY <1>1, <2>0, CommandsAssumption DEF IInv, TypeOK, CreatePipes, Goto
  <2>2. CallOK(t)'
    BY <1>1, <2>0, CommandsAssumption DEF IInv, TypeOK, CallOK, CreatePipes, Goto, Alive
  <2>3. ASSUME NEW u \in Thread, u # t PROVE Untouched(u)
    BY <1>1, <2>3 DEF IInv, TypeOK, Untouched, CreatePipes, Goto
  <2>. QED
    BY <2>1, <2>2, <2>3, UntouchedStays DEF IInv
<1>2. CASE StartFails(t)
  <2>1. TypeOK'
    BY <1>2 DEF IInv, TypeOK, StartFails, Goto
  <2>2. CallOK(t)'
    BY <1>2 DEF IInv, TypeOK, CallOK, StartFails, Goto, Alive
  <2>3. ASSUME NEW u \in Thread, u # t PROVE Untouched(u)
    BY <1>2, <2>3 DEF IInv, TypeOK, Untouched, StartFails, Goto
  <2>. QED
    BY <2>1, <2>2, <2>3, UntouchedStays DEF IInv
<1>. QED
  BY <1>1, <1>2

\* Whoever inherits handles inherits those of pipes that have a reader.
LEMMA CommandStarts ==
    ASSUME IInv, NEW t \in Thread, Start(t)
    PROVE  IInv'
<1>1. PICK n \in Output(kind[t]) : size' = [size EXCEPT ![t] = n] /\ left' = [left EXCEPT ![t] = n]
  BY DEF Start
<1>2. n \in Nat /\ (kind[t] \notin Piped => n = 0)
  BY <1>1, CommandsAssumption DEF Output, Piped
<1>3. writers' \in [Thread -> SUBSET (Thread \cup {Program})]
  BY DEF IInv, TypeOK, Start, Inheriting
<1>4. TypeOK'
  BY <1>1, <1>2, <1>3 DEF IInv, TypeOK, Start, Goto
<1>5. kind[t] \in Piped => t \in writers'[t]
  BY DEF IInv, CallOK, TypeOK, Start, Inheriting
<1>6. kind[t] \notin Piped => writers'[t] = {}
  BY DEF IInv, CallOK, Start
<1>7. pc'[t] = "wait" <=> kind[t] \notin Piped
  BY DEF IInv, TypeOK, Start, Goto, Piped
<1>8. pc'[t] \notin {"idle", "piped"}
  BY DEF IInv, TypeOK, Start, Goto, Piped
<1>9. command'[t] = "running" /\ size'[t] = n /\ left'[t] = n /\ buffer[t] = 0 /\ got[t] = 0
  BY <1>1 DEF IInv, TypeOK, CallOK, Start, Alive
<1>10. CallOK(t)'
  BY <1>2, <1>5, <1>6, <1>7, <1>8, <1>9 DEF CallOK, Alive, Start
<1>11. ASSUME NEW u \in Thread, u # t PROVE Untouched(u)
  <2>1. writers'[u] \in {writers[u], writers[u] \cup {t}} /\ (writers[u] = {} => writers'[u] = {})
    BY DEF IInv, TypeOK, Start, Inheriting
  <2>. QED
    BY <1>1, <1>11, <2>1 DEF IInv, TypeOK, Untouched, Start, Goto
<1>. QED
  BY <1>4, <1>10, <1>11, UntouchedStays DEF IInv

\* What a thread does until its call comes back.
LEMMA CallGoesOn ==
    ASSUME IInv, NEW t \in Thread,
           CloseWriteEnd(t) \/ Read(t) \/ Wait(t) \/ Poll(t) \/ Check(t)
    PROVE  IInv'
<1>1. CASE CloseWriteEnd(t)
  <2>1. TypeOK'
    BY <1>1, CommandsAssumption DEF IInv, TypeOK, CloseWriteEnd, Goto, WithoutProgram
  <2>2. CallOK(t)'
    BY <1>1, CommandsAssumption DEF IInv, TypeOK, CallOK, Alive, CloseWriteEnd, Goto, WithoutProgram
  <2>3. ASSUME NEW u \in Thread, u # t PROVE Untouched(u)
    BY <1>1, <2>3 DEF IInv, TypeOK, Untouched, CloseWriteEnd, Goto, WithoutProgram
  <2>. QED
    BY <2>1, <2>2, <2>3, UntouchedStays DEF IInv
<1>2. CASE Read(t)
  <2>1. TypeOK'
    BY <1>2, CommandsAssumption DEF IInv, TypeOK, Read, Goto, Take, AtEnd
  <2>2. CallOK(t)'
    BY <1>2, CommandsAssumption DEF IInv, TypeOK, CallOK, Alive, Read, Goto, Take, AtEnd
  <2>3. ASSUME NEW u \in Thread, u # t PROVE Untouched(u)
    BY <1>2, <2>3 DEF IInv, TypeOK, Untouched, Read, Goto, Take, AtEnd
  <2>. QED
    BY <2>1, <2>2, <2>3, UntouchedStays DEF IInv
<1>3. CASE Wait(t)
  <2>1. TypeOK'
    BY <1>3, CommandsAssumption DEF IInv, TypeOK, Wait, Goto, pipes, Piped, Limited
  <2>2. CallOK(t)'
    BY <1>3, CommandsAssumption DEF IInv, TypeOK, CallOK, Alive, Wait, Goto, pipes, Piped, Limited
  <2>3. ASSUME NEW u \in Thread, u # t PROVE Untouched(u)
    BY <1>3, <2>3 DEF IInv, TypeOK, Untouched, Wait, Goto, pipes, Piped, Limited
  <2>. QED
    BY <2>1, <2>2, <2>3, UntouchedStays DEF IInv
<1>4. CASE Poll(t)
  <2>1. TypeOK'
    BY <1>4, CommandsAssumption DEF IInv, TypeOK, Poll, Goto, Take, Answered
  <2>2. CallOK(t)'
    <3>1. got'[t] + buffer'[t] = got[t] + buffer[t]
      BY <1>4, CommandsAssumption DEF IInv, TypeOK, Poll, Take
    <3>2. Alive(t)' <=> Alive(t)
      BY <1>4 DEF IInv, TypeOK, Alive, Poll, Answered
    <3>3. pc[t] = "poll" /\ pc'[t] = "check"
      BY <1>4 DEF IInv, TypeOK, Poll, Goto
    <3>. QED
      BY <1>4, <3>1, <3>2, <3>3, CommandsAssumption DEF IInv, TypeOK, CallOK, Poll
  <2>3. ASSUME NEW u \in Thread, u # t PROVE Untouched(u)
    BY <1>4, <2>3 DEF IInv, TypeOK, Untouched, Poll, Goto, Take, Answered
  <2>. QED
    BY <2>1, <2>2, <2>3, UntouchedStays DEF IInv
<1>5. CASE Check(t)
  <2>1. TypeOK'
    BY <1>5, CommandsAssumption DEF IInv, TypeOK, Check, Goto, pipes
  <2>2. CallOK(t)'
    BY <1>5, CommandsAssumption DEF IInv, TypeOK, CallOK, Alive, Check, Goto, pipes
  <2>3. ASSUME NEW u \in Thread, u # t PROVE Untouched(u)
    BY <1>5, <2>3 DEF IInv, TypeOK, Untouched, Check, Goto, pipes
  <2>. QED
    BY <2>1, <2>2, <2>3, UntouchedStays DEF IInv
<1>. QED
  BY <1>1, <1>2, <1>3, <1>4, <1>5

\* What a command does, and what may happen to it.
LEMMA CommandGoesOn ==
    ASSUME IInv, NEW t \in Thread, PrintOut(t) \/ End(t) \/ Hang(t) \/ EndBehind(t)
    PROVE  IInv'
<1>1. CASE PrintOut(t)
  <2>1. TypeOK'
    BY <1>1, CommandsAssumption DEF IInv, TypeOK, PrintOut
  <2>2. CallOK(t)'
    <3>1. kind[t] \in Piped /\ pc[t] \notin {"idle", "wait", "piped"} /\ t \in writers[t]
      BY <1>1, CommandsAssumption DEF IInv, TypeOK, CallOK, Alive, PrintOut
    <3>2. got[t] + buffer'[t] + left'[t] = size[t] /\ Alive(t)'
      BY <1>1, CommandsAssumption DEF IInv, TypeOK, CallOK, Alive, PrintOut
    <3>. QED
      BY <1>1, <3>1, <3>2 DEF CallOK, PrintOut
  <2>3. ASSUME NEW u \in Thread, u # t PROVE Untouched(u)
    BY <1>1, <2>3 DEF IInv, TypeOK, Untouched, PrintOut
  <2>. QED
    BY <2>1, <2>2, <2>3, UntouchedStays DEF IInv
<1>2. CASE End(t)
  <2>1. TypeOK'
    BY <1>2, CommandsAssumption DEF IInv, TypeOK, End
  <2>2. CallOK(t)'
    BY <1>2, CommandsAssumption DEF IInv, TypeOK, CallOK, Alive, End
  <2>3. ASSUME NEW u \in Thread, u # t PROVE Untouched(u)
    BY <1>2, <2>3, CommandsAssumption DEF IInv, TypeOK, Untouched, End
  <2>. QED
    BY <2>1, <2>2, <2>3, UntouchedStays DEF IInv
<1>3. CASE Hang(t)
  <2>1. TypeOK'
    BY <1>3, CommandsAssumption DEF IInv, TypeOK, Hang, pipes
  <2>2. CallOK(t)'
    BY <1>3, CommandsAssumption DEF IInv, TypeOK, CallOK, Alive, Hang, pipes
  <2>3. ASSUME NEW u \in Thread, u # t PROVE Untouched(u)
    BY <1>3, <2>3 DEF IInv, TypeOK, Untouched, Hang, pipes
  <2>. QED
    BY <2>1, <2>2, <2>3, UntouchedStays DEF IInv
<1>4. CASE EndBehind(t)
  BY <1>4 DEF IInv, TypeOK, CallOK, Alive, EndBehind, pipes
<1>. QED
  BY <1>1, <1>2, <1>3, <1>4

LEMMA NextOK == IInv /\ [Next]_vars => IInv'
<1>. SUFFICES ASSUME IInv, [Next]_vars PROVE IInv'
  OBVIOUS
<1>1. CASE UNCHANGED vars
  BY <1>1 DEF IInv, TypeOK, CallOK, Alive, vars
<1>2. ASSUME NEW t \in Thread, CreatePipes(t) \/ ThreadStep(t)
      PROVE  IInv'
  BY <1>2, CallStarts, CommandStarts, CallGoesOn DEF ThreadStep
<1>3. ASSUME NEW t \in Thread, CommandStep(t) \/ Hang(t) \/ EndBehind(t)
      PROVE  IInv'
  BY <1>3, CommandGoesOn DEF CommandStep
<1>. QED
  BY <1>1, <1>2, <1>3 DEF Next

LEMMA Invariance == Spec => []IInv
BY InitOK, NextOK, PTL DEF Spec

\* The types of Commands; no pipe is filled beyond its capacity.
THEOREM CommandTypes == Spec => []TypeOK
BY Invariance, PTL DEF IInv

\* Utils::exec and its like: a call returns all of its command's output, whatever other
\* threads run at the time, also where it could not be started.
THEOREM CallersGetAllOutput == Spec => []OutputIsWhole
<1>1. IInv => OutputIsWhole
  <2>. SUFFICES ASSUME IInv, NEW t \in Thread, pc[t] = "idle" PROVE got[t] = size[t]
    BY DEF OutputIsWhole
  <2>1. left[t] = 0
    BY DEF IInv, CallOK, TypeOK
  <2>. QED
    BY <2>1 DEF IInv, CallOK, TypeOK
<1>. QED
  BY <1>1, Invariance, PTL

\* ... and does so after the end of that command: the limits of the waits never matter
\* to a call with a pipe, and its exit code is one.
THEOREM PipedCallsOutliveCommands == Spec => []ReturnsAfterCommand
<1>1. IInv => ReturnsAfterCommand
  BY DEF IInv, CallOK, ReturnsAfterCommand
<1>. QED
  BY <1>1, Invariance, PTL

\* Whoever may write to a pipe, through a handle of its own or an inherited one, has a
\* reader there.
THEOREM WritersHaveReaders == Spec => []PipesHaveReaders
<1>1. IInv => PipesHaveReaders
  BY DEF IInv, TypeOK, CallOK, PipesHaveReaders
<1>. QED
  BY <1>1, Invariance, PTL
=============================================================================
