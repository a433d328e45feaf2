-------------------------------- MODULE Shell --------------------------------
(***************************************************************************)
(* The threads of the program and the window that rules them: WndProc and  *)
(* MainWindow on the UI thread, ProcessController's worker and recovery    *)
(* threads, the detached thread of MainWindow's constructor, and what they *)
(* tell each other: flags read across threads and messages posted to the   *)
(* window.  With -unattended there is a console and no window.             *)
(*                                                                         *)
(* A message box runs a message loop of its own inside the handler that    *)
(* opened it, so boxes stack and posted messages are dispatched under any  *)
(* of them.  Any open box can be answered; a handler goes on when its box  *)
(* is answered and no other was opened over it that is still there.        *)
(* Joining a thread blocks the UI thread altogether.                       *)
(***************************************************************************)
EXTENDS Naturals, SequencesExt

CONSTANTS
    Entries,     \* how the program may be started: with a window, or -unattended
    MaxPending,  \* a bound on open boxes and posted messages, for a click to come on top
    Env          \* what the user and the system may do: see EnvKinds

EnvKinds == {"faults",     \* a phase of the worker, or the recovery, may fail
             "repair",     \* chkdsk finds errors, and its repair never comes back
             "behind",     \* Create or close is pressed behind an open box
             "overlap",    \* Recover is pressed while a process runs or is confirmed
             "spaceLost",  \* C: fills up, or ISOBOOT goes, between the two space checks
             "slowInit"}   \* the window is used before the start-up thread is done

ASSUME ShellAssumption ==
    Entries \subseteq {"window", "console"} /\ MaxPending \in Nat /\ Env \subseteq EnvKinds

\* Message boxes without an owner, which leave the main window enabled, and with.
Ownerless == {"notice", "confirm1", "confirm2"}
Owned     == {"error", "restart", "restartFailed", "recoverFailed", "close"}
Prompts   == {"confirm1", "confirm2", "restart", "close"}   \* to be answered yes or no

Messages == {"error", "restart", "enable", "recovered", "notRecovered"}

VARIABLES
    ui,           \* where the UI thread is
    boxes,        \* the open message boxes, the last on top
    enabled,      \* the main window takes input
    isProcessing, \* MainWindow's flag; the create button is enabled when it is off
    isRecovering, \* MainWindow's flag; the recover button is enabled when it is off
    made,         \* ISOBOOT exists (PartitionManager::partitionExists)
    inbox,        \* messages posted to the window
    quit,         \* PostQuitMessage was called
    worker,       \* workerThread: a phase, or the messages it has left to post; or <<>>
    recovery,     \* recoveryThread: the steps it has left; <<>> when there is none
    recovered,    \* the result of its recoverSpace
    recoveryInProgress,   \* ProcessController's flag
    init,         \* the detached thread of the constructor
    cancel,       \* EventManager::cancelRequested
    managers,     \* the singletons PartitionManager, ISOCopyManager, BCDManager live
    launched,     \* a new instance of the program was launched
    printed       \* the console says that the process is completed

vars == <<ui, boxes, enabled, isProcessing, isRecovering, made, inbox, quit, worker, recovery,
          recovered, recoveryInProgress, init, cancel, managers, launched, printed>>
user    == <<boxes, enabled, isProcessing, isRecovering>>
threads == <<worker, recovery, recovered, recoveryInProgress, init>>
process == <<quit, managers, launched, printed>>

Phases  == <<"prepare", "copy", "boot">>
Working == worker # <<>>

\* The worker reads from a pipe whose other end it holds itself: it never ends.
Hung == worker = <<"repair">>

\* Mutants: a message nobody handles; the button enabled after a success only.
UnknownFarewell(ok) == <<IF ok THEN "completed" ELSE "error", "enable">>
SilentFarewell(ok) == IF ok THEN <<"restart", "enable">> ELSE <<"error">>

\* What processInThread posts when it is over.
Farewell(ok) == <<IF ok THEN "restart" ELSE "error", "enable">>

\* Mutants: the window is told before the boot entries, or the flag, are dealt with.
HastyRecoverySteps == <<"volumes", "clear", "notify", "bcd">>
StaleRecoverySteps == <<"volumes", "bcd", "notify", "clear">>

\* recoverSpaceInThread: recoverSpace, restoreBCD, recoveryInProgress, notify.
RecoverySteps == <<"volumes", "bcd", "clear", "notify">>

Init ==
    /\ ui \in {IF e = "window" THEN "pump" ELSE "console" : e \in Entries}
    /\ boxes = <<>> /\ enabled = TRUE /\ inbox = <<>>
    /\ isProcessing = FALSE /\ isRecovering = FALSE /\ made \in BOOLEAN
    /\ worker = <<>> /\ recovery = <<>> /\ recovered = FALSE /\ recoveryInProgress = FALSE
    /\ init = IF ui = "pump" /\ "slowInit" \in Env THEN "probe" ELSE "done"
    /\ cancel = FALSE /\ managers = TRUE
    /\ quit = FALSE /\ launched = FALSE /\ printed = FALSE

(***************************************************************************)
(* Message boxes (user32) and the window behind them.                      *)
(***************************************************************************)
\* An owned box disables the window, and knows whether that was its doing.
Box(kind) == [kind |-> kind, disabled |-> kind \in Owned /\ enabled, reply |-> "none"]

Opened(bs, kind) == /\ boxes' = Append(bs, Box(kind))
                    /\ enabled' = (enabled /\ kind \in Ownerless)
Open(kind) == Opened(boxes, kind)

\* Mutant: every owned box enables the window when it goes.
AlwaysRestores(b) == b.kind \in Owned

Restores(b) == b.disabled

\* A button of the i-th box is clicked: it disappears, and the window is at once as
\* it should be without it.
Answered(i, r) ==
    /\ boxes[i].reply = "none"
    /\ r = "no" \/ boxes[i].kind \in Prompts
    /\ boxes' = [boxes EXCEPT ![i] = [@ EXCEPT !.reply = r, !.disabled = FALSE]]
    /\ enabled' = (enabled \/ Restores(boxes[i]))

\* Any box may be clicked, whatever lies over it.
Answer ==
    /\ ui = "pump" /\ ~quit
    /\ \E i \in DOMAIN boxes, r \in {"yes", "no"} : Answered(i, r)
    /\ UNCHANGED <<ui, isProcessing, isRecovering, inbox, threads, cancel, made, process>>

\* WM_QUIT comes after the posted messages; then every box ends without a yes.
Unwind ==
    /\ ui = "pump" /\ quit /\ inbox = <<>> /\ boxes # <<>>
    /\ Answered(Len(boxes), "no")
    /\ UNCHANGED <<ui, isProcessing, isRecovering, inbox, threads, cancel, made, process>>

\* MessageBoxW returns to its handler, which goes on before anything else.
Returns(kind, r) == /\ ui = "pump" /\ boxes # <<>>
                    /\ Last(boxes).kind = kind /\ Last(boxes).reply = r

\* The UI thread waits for messages.
Pumping == ui = "pump" /\ (boxes # <<>> => Last(boxes).reply = "none")

\* The user can reach the controls of the main window.
Clickable == Pumping /\ ~quit /\ enabled /\ Len(boxes) + Len(inbox) < MaxPending

(***************************************************************************)
(* Create: OnCreatePartition, its prompts, and startProcess.               *)
(***************************************************************************)
\* Where the caller of startProcess goes on: the window, or std::cin.get().
GoOn  == ui' = IF ui = "console" THEN "enter" ELSE "pump"
Spawn == worker' = <<"prepare">> /\ GoOn

\* startProcess returns at once for want of a path or of space, of which only the
\* window has made sure before, and joins a worker that still runs.
StartProcess ==
    \/ /\ ui = "console" \/ ("spaceLost" \in Env /\ ~made)
       /\ worker' = worker /\ GoOn
    \/ Working /\ ui' = "join" /\ worker' = worker
    \/ ~Working /\ Spawn

Begin == /\ isProcessing' = TRUE
         /\ StartProcess

\* The button: no ISO or no space (a notice), two prompts, or an ISOBOOT to reuse.
ClickCreate ==
    /\ Clickable /\ ~isProcessing
    /\ boxes = <<>> \/ "behind" \in Env
    /\ \/ Open("notice") /\ UNCHANGED <<ui, worker, isProcessing>>
       \/ ~made /\ Open("confirm1") /\ UNCHANGED <<ui, worker, isProcessing>>
       \/ made /\ Begin /\ UNCHANGED <<boxes, enabled>>
    /\ UNCHANGED <<isRecovering, inbox, recovery, recovered, recoveryInProgress, init,
                   cancel, made, process>>

\* The two prompts; the second yes begins.
Confirm ==
    /\ \/ /\ Returns("confirm1", "yes")
          /\ Opened(Front(boxes), "confirm2")
          /\ UNCHANGED <<ui, worker, isProcessing>>
       \/ /\ Returns("confirm2", "yes")
          /\ boxes' = Front(boxes) /\ UNCHANGED enabled
          /\ Begin
    /\ UNCHANGED <<isRecovering, inbox, recovery, recovered, recoveryInProgress, init,
                   cancel, made, process>>

\* startProcess again, once the worker it waited for is over.
Joined ==
    /\ ui = "join" /\ ~Working /\ Spawn
    /\ UNCHANGED <<user, inbox, recovery, recovered, recoveryInProgress, init, cancel, made, process>>

\* -unattended: startProcess is called without its synchronous argument.
Console ==
    /\ ui = "console" /\ StartProcess /\ printed' = TRUE
    /\ UNCHANGED <<user, inbox, recovery, recovered, recoveryInProgress, init, cancel, made,
                   quit, managers, launched>>

Enter == /\ ui = "enter" /\ ui' = "closing"
         /\ UNCHANGED <<user, inbox, threads, cancel, made, process>>

(***************************************************************************)
(* Recover: HandleCommand and ProcessController::recoverSpace.             *)
(***************************************************************************)
ClickRecover ==
    /\ Clickable /\ ~isRecovering
    /\ "overlap" \in Env \/ (boxes = <<>> /\ ~isProcessing)
    /\ IF recoveryInProgress
       THEN UNCHANGED <<isRecovering, enabled, recovery, recoveryInProgress>>
       ELSE /\ recoveryInProgress' = TRUE /\ recovery' = RecoverySteps
            /\ isRecovering' = TRUE /\ enabled' = FALSE   \* ShowRecoverDialog
    /\ UNCHANGED <<ui, boxes, isProcessing, inbox, worker, recovered, init, cancel, made, process>>

(***************************************************************************)
(* The threads.  PostMessage to a window that is gone is lost.             *)
(***************************************************************************)
Post(m) == inbox' = IF ui \in {"pump", "join"} THEN Append(inbox, m) ELSE inbox

\* processInThread: validateAndPrepare, copyIsoContent, configureBoot.  What
\* the copy reads of cancelRequested has no effect on its result.
WorkerPhase ==
    /\ Working /\ worker[1] \in Range(Phases)
    /\ \/ worker' \in {IF worker[1] = "boot" THEN Farewell(TRUE)
                       ELSE <<IF worker[1] = "prepare" THEN "copy" ELSE "boot">>}
                      \cup {Farewell(FALSE) : f \in Env \cap {"faults"}}
       \/ "repair" \in Env /\ worker[1] = "prepare" /\ worker' = <<"repair">>
    /\ made' \in IF worker[1] # "prepare" THEN {made}
                 ELSE IF worker' = <<"copy">> THEN {TRUE} ELSE BOOLEAN
    /\ UNCHANGED <<ui, user, inbox, recovery, recovered, recoveryInProgress, init, cancel, process>>

WorkerPosts ==
    /\ Working /\ worker[1] \in Messages
    /\ Post(worker[1]) /\ worker' = Tail(worker)
    /\ UNCHANGED <<ui, user, recovery, recovered, recoveryInProgress, init, cancel, made, process>>

\* Step by step; of "bcd" nothing is seen here, and after a failure it does nothing.
RecoveryStep ==
    /\ recovery # <<>>
    /\ recovered' \in IF recovery[1] # "volumes" THEN {recovered}
                      ELSE {TRUE} \cup {FALSE : f \in Env \cap {"faults"}}
    /\ recovery' = Tail(recovery)
    /\ made' \in {made} \cup {FALSE : s \in {recovery[1]} \cap {"volumes"}}
    /\ recoveryInProgress' = (recoveryInProgress /\ recovery[1] # "clear")
    /\ IF recovery[1] # "notify" THEN UNCHANGED inbox
       ELSE Post(IF recovered THEN "recovered" ELSE "notRecovered")
    /\ UNCHANGED <<ui, user, worker, init, cancel, process>>

\* PerformHeavyInitialization: partitionExists, and restoreBCD if it is there.
InitStep ==
    /\ init # "done"
    /\ init' = IF init = "probe" /\ made THEN "restore" ELSE "done"
    /\ UNCHANGED <<ui, user, inbox, worker, recovery, recovered, recoveryInProgress,
                   cancel, made, process>>

(***************************************************************************)
(* The messages: HandleCommand.                                            *)
(***************************************************************************)
HandleEnable == isProcessing' = FALSE /\ UNCHANGED <<isRecovering, boxes, enabled, quit, launched>>

HandleBox(kind) == Open(kind) /\ UNCHANGED <<isProcessing, isRecovering, quit, launched>>

\* WM_RECOVER_COMPLETE: HideRecoverDialog, then a new instance and the end of this one.
HandleRecovered(ok) ==
    /\ isRecovering' = FALSE /\ UNCHANGED isProcessing
    /\ IF ok THEN /\ enabled' = TRUE /\ boxes' = boxes
                  /\ launched' = TRUE /\ quit' = TRUE
             ELSE /\ boxes' = Append(boxes, [kind |-> "recoverFailed", disabled |-> TRUE,
                                         reply |-> "none"])
                  /\ enabled' = FALSE
                  /\ UNCHANGED <<quit, launched>>

Dispatch ==
    /\ Pumping /\ inbox # <<>> /\ inbox' = Tail(inbox)
    /\ CASE inbox[1] = "enable"       -> HandleEnable
         [] inbox[1] = "error"        -> HandleBox("error")
         [] inbox[1] = "restart"      -> HandleBox("restart")
         [] inbox[1] = "recovered"    -> HandleRecovered(TRUE)
         [] inbox[1] = "notRecovered" -> HandleRecovered(FALSE)
    /\ UNCHANGED <<ui, threads, cancel, made, managers, printed>>

\* PromptRestart: the restart itself ends every thread; it may also be refused.
RestartFails ==
    /\ Returns("restart", "yes") /\ Opened(Front(boxes), "restartFailed")
    /\ UNCHANGED <<ui, isProcessing, isRecovering, inbox, threads, cancel, made, process>>

\* Nothing follows a no, nor what can only be acknowledged.
Return ==
    /\ \E kind \in Ownerless \cup Owned : Returns(kind, "no")
    /\ boxes' = Front(boxes)
    /\ UNCHANGED <<ui, enabled, isProcessing, isRecovering, inbox, threads, cancel, made, process>>

(***************************************************************************)
(* The end: WM_CLOSE, ~MainWindow, ~ProcessController, static destructors. *)
(***************************************************************************)
ClickClose ==
    /\ Clickable
    /\ boxes = <<>> \/ "behind" \in Env
    /\ IF isProcessing \/ isRecovering
       THEN Open("close") /\ UNCHANGED ui
       ELSE ui' = "closing" /\ boxes' = <<>> /\ UNCHANGED enabled
    /\ UNCHANGED <<isProcessing, isRecovering, inbox, threads, cancel, made, process>>

\* MainWindow::requestCancel, then DestroyWindow: every other box goes with it.
CancelAndClose ==
    /\ Returns("close", "yes") /\ cancel' = (cancel \/ ~isRecovering)
    /\ ui' = "closing" /\ boxes' = <<>>
    /\ UNCHANGED <<enabled, isProcessing, isRecovering, made, inbox, threads, process>>

\* Mutants: the threads are detached; the end of the process is waited for by its flag.
NothingToJoin == TRUE
FlagToJoin    == ~Working /\ recovery = <<>> /\ ~isProcessing

\* ~ProcessController joins the worker and then the recovery.
ThreadsJoined == ~Working /\ recovery = <<>>

\* WM_DESTROY, or the return of the unattended run.
Destroy == /\ ui = "closing" /\ ThreadsJoined /\ ui' = "exit" /\ inbox' = <<>>
           /\ UNCHANGED <<user, threads, cancel, made, process>>

\* WinMain's own loop ends.
LeaveLoop == /\ ui = "pump" /\ quit /\ inbox = <<>> /\ boxes = <<>>
             /\ ui' = "exit"
             /\ UNCHANGED <<boxes, enabled, isProcessing, isRecovering, inbox, threads, cancel, made, process>>

\* Statics go last made, first gone: the singletons, then WndProc's mainWindow.
DestroyStatics == /\ ui = "exit" /\ managers /\ managers' = FALSE
                  /\ UNCHANGED <<ui, user, inbox, threads, cancel, made, quit, launched, printed>>

\* The end of the process ends the detached thread with it.
ExitProcess == /\ ui = "exit" /\ ~managers /\ ThreadsJoined
               /\ ui' = "gone" /\ init' = "done"
               /\ UNCHANGED <<user, inbox, worker, recovery, recovered, recoveryInProgress,
                              cancel, made, process>>

\* The program is gone; or it is not, because its worker waits for itself.
Over == (ui = "gone" \/ Hung) /\ UNCHANGED vars

UserStep == ClickCreate \/ ClickRecover \/ ClickClose \/ Answer
Handler  == Confirm \/ RestartFails \/ Return \/ CancelAndClose
UiStep   == Dispatch \/ Handler \/ Joined \/ Console \/ Enter \/ Destroy \/ Unwind \/ LeaveLoop
                \/ DestroyStatics \/ ExitProcess
WorkerStep == WorkerPhase \/ WorkerPosts

Next == UserStep \/ UiStep \/ WorkerStep \/ RecoveryStep \/ InitStep \/ Over

Spec == Init /\ [][Next]_vars

\* Every thread that can go on does; of the user nothing is asked.
Fairness == /\ WF_vars(UiStep) /\ WF_vars(WorkerStep)
            /\ WF_vars(RecoveryStep) /\ WF_vars(InitStep)

FairSpec == Spec /\ Fairness

(***************************************************************************)
(* Properties.                                                             *)
(***************************************************************************)
\* Every variable is what the code can make it.
TypeOK ==
    /\ ui \in {"pump", "join", "console", "enter", "closing", "exit", "gone"}
    /\ boxes \in Seq([kind : Ownerless \cup Owned, disabled : BOOLEAN,
                       reply : {"none", "yes", "no"}])
    /\ inbox \in Seq(Messages) /\ worker \in Seq(Range(Phases) \cup {"repair"} \cup Messages)
    /\ recovery \in Seq(Range(RecoverySteps)) /\ init \in {"probe", "restore", "done"}
    /\ {enabled, isProcessing, isRecovering, made, quit, recovered, recoveryInProgress, cancel,
          managers, launched, printed} \subseteq BOOLEAN

\* While a worker runs the window says so, and says so to WM_CLOSE: no message of
\* an earlier worker turns isProcessing off (OnCreatePartition, WM_ENABLE_BUTTON).
BusyIsShown == (ui \in {"pump", "join"} /\ Working) => isProcessing

\* isProcessing, which disables the button, always has somebody to turn it off:
\* the worker, who may be kept by the repair, or the message it posted last.
BusyHasAnEnd == (ui = "pump" /\ isProcessing) => (Working \/ "enable" \in Range(inbox))

\* The window takes input exactly when no recovery runs and no open box disabled it:
\* boxes answered in any order, before, during or after a recovery, neither let the
\* user in nor lock the user out (ShowRecoverDialog, HideRecoverDialog, MessageBoxW).
WindowFollows ==
    (ui = "pump" /\ ~quit) =>
        (enabled <=> ~isRecovering /\ \A i \in DOMAIN boxes : ~boxes[i].disabled)

\* HandleCommand's own flag is enough: recoverSpace never refuses what it lets in,
\* because recoveryInProgress is off before the window hears of the end.
RecoverNotRefused == (ui = "pump" /\ ~isRecovering) => ~recoveryInProgress

\* However the window is closed, no task outlives the singletons it works with; when
\* a recovery ends the program, a worker that Recover was pressed beside may
\* (~ProcessController, the order of the static destructors).
ThreadsHaveManagers == ~managers => recovery = <<>> /\ (Working => launched)

\* The instance that a recovery launches finds the partitions and the boot entries
\* dealt with, whatever else was pressed (recoverSpaceInThread, WM_RECOVER_COMPLETE).
NewProgramFindsThemGone == launched => recovery = <<>> /\ recovered

\* ProcessController.h: requestCancel waits for the cleanup of what it cancels.
CancelIsAwaited == cancel => ~Working

\* main.cpp: the console says "Process completed!" when the process is completed.
PrintedIsOver == printed => ~Working

\* A program that is closed, or that a recovery replaces, comes to its end; or it is
\* there for ever, without a window, because of a repair that does not end.
ProgramEnds == (ui = "closing" \/ quit) ~> (ui = "gone" \/ Hung)
=============================================================================
