-------------------------------- MODULE Machine --------------------------------
(***************************************************************************)
(* The machine over any number of runs of the program: the files of IsoCopy*)
(* and the boot entries of Bcd together, changed by processInThread        *)
(* (validateAndPrepare, copyIsoContent, configureBoot), by recoverSpace and*)
(* by the start of the program.  Every step is a step of one of the two    *)
(* modules, or of both at once where the code does both: what a recovery   *)
(* or a format removes is gone for the entries too.  A process that removes*)
(* both partitions and goes on is one that fails, and another.             *)
(*                                                                         *)
(* One task runs at a time, and may be killed between any two steps.       *)
(***************************************************************************)
EXTENDS Naturals, FiniteSets

CONSTANTS
    Isos, WithBootWim, WithInstall, WithSdi, WithPrograms, WithBootFile,
    LooksWindows, Formats,                                    \* as in IsoCopy
    Id, User, UserEntry, UserWindows, Arch, UserDefault, UserTimeout,  \* as in Bcd
    CopyEnv,    \* what may happen to the copy,
    MenuEnv     \* ... and to the boot entries; only both are killed together

VARIABLES
    data, esp, hash, job, skip, bootOk,   \* of IsoCopy
    copy,                                 \* ... whose pc it is
    store, current, default, shown, timeout, backup, parts,
    pc, todo, win, guid, strategy,        \* of Bcd
    phase         \* where processInThread is, before it reaches Bcd

Files == INSTANCE IsoCopy WITH pc <- copy, Env <- CopyEnv
Menu  == INSTANCE Bcd WITH Env <- MenuEnv, Strategies <- {"ramdisk", "extracted", "linux"}

ASSUME MachineAssumption ==
    /\ Files!ConstantsAssumption /\ Menu!BcdAssumption
    /\ "crash" \in CopyEnv <=> "crash" \in MenuEnv
    /\ "overlap" \notin MenuEnv

files == <<data, esp, hash, copy, job, skip, bootOk>>
menu  == <<store, default, shown, timeout, current, backup, parts, pc, todo, win, guid, strategy>>
vars  == <<files, menu, phase>>

Quiet == phase = "idle" /\ \A t \in Menu!Thread : Menu!Resting(t)

\* configureBoot: the mode decides, and then what copyISO has seen of the image.
StrategyFor(r) == IF r.mode = "RAM" THEN "ramdisk"
                  ELSE IF Files!Detected(r.iso) THEN "extracted" ELSE "linux"

\* A strategy is known from the beginning of a process and only used at its end.
Init == /\ Files!Init /\ Menu!Init /\ strategy = StrategyFor(job)
        /\ phase = "idle"

(***************************************************************************)
(* processInThread.                                                        *)
(***************************************************************************)
\* validateAndPrepare, which succeeds: both partitions are there, made or formatted.
ValidateAndPrepare ==
    /\ Quiet
    /\ Files!StartCopy
    /\ Menu!Prepare /\ pc'["worker"] = "idle" /\ parts' /\ strategy' = StrategyFor(job')
    /\ phase' = IF copy' = "content" THEN "copy" ELSE "idle"

\* ... or fails: before it has touched what was there, once it has formatted ISOBOOT, or
\* once it has removed both partitions, which it may have made anew.
PrepareFails ==
    /\ Quiet /\ Menu!Prepare /\ pc'["worker"] = "idle" /\ strategy' = strategy
    /\ \/ (parts => parts') /\ UNCHANGED files
       \/ parts /\ parts' /\ Files!FormatAndFail
       \/ parts /\ Files!Recreate
    /\ UNCHANGED phase

CopyStep == \/ Files!ExtractContent \/ Files!ExtractBootFiles \/ Files!NoBootFiles
            \/ Files!MountAndProcessWim \/ Files!CopyBootWimToEsp \/ Files!ProcessInstallWim
            \/ Files!CopyInstall \/ Files!ExtractEfi

\* Mutant: the result of the copy is not looked at.
AnywayAfter(step) == IF step \in {"copied", "idle"} THEN "configure" ELSE "copy"

\* Where the copy leads: without success the process ends here.
PhaseAfter(step) == IF step = "copied" THEN "configure" ELSE IF step = "idle" THEN "idle" ELSE "copy"

CopyIsoContent ==
    /\ phase = "copy" /\ CopyStep /\ phase' = PhaseAfter(copy')
    /\ UNCHANGED menu

ConfigureBoot ==
    /\ phase = "configure" /\ phase' = "idle"
    /\ Menu!Prepare /\ pc'["worker"] = "capture" /\ parts' = parts /\ strategy' = strategy
    /\ UNCHANGED files

\* BCDConfigurator::build; at its end the process has succeeded.
BuildStep == Menu!WorkerStep /\ UNCHANGED <<files, phase>>

(***************************************************************************)
(* Recoveries, and the start of the program.                               *)
(***************************************************************************)
StartRecovery == Quiet /\ Menu!StartRecovery /\ UNCHANGED <<files, phase>>

\* Mutant: the volumes are counted as gone and stay.
KeepFiles == Menu!RecoverSpace /\ UNCHANGED <<files, phase>>

\* With the volumes goes everything on them.
RecoverSpace ==
    /\ Menu!RecoverSpace
    /\ IF parts' THEN UNCHANGED files ELSE Files!Recreate
    /\ UNCHANGED phase

RestoreStep(t) == Menu!RestoreStep(t) /\ UNCHANGED <<files, phase>>

Launch ==
    /\ Menu!Launch
    /\ phase = "idle" \/ "crash" \in MenuEnv
    /\ IF Files!Resting THEN UNCHANGED files ELSE Files!Crash
    /\ phase' = "idle"

Next == \/ ValidateAndPrepare \/ PrepareFails \/ CopyIsoContent \/ ConfigureBoot \/ BuildStep
        \/ StartRecovery \/ RecoverSpace \/ Launch
        \/ \E t \in Menu!Restorer : RestoreStep(t)

Spec == Init /\ [][Next]_vars

-----------------------------------------------------------------------------
(***************************************************************************)
(* Properties.                                                             *)
(***************************************************************************)
\* Every variable is what the code can make it, and there are no files without a volume.
TypeOK ==
    /\ Files!TypeOK /\ Menu!TypeOK
    /\ phase \in {"idle", "copy", "configure"}
    /\ ~parts => data = Files!Empty(Files!DataFiles) /\ esp = Files!Empty(Files!EspFiles)
    /\ phase = "copy" <=> ~Files!Resting

\* The default boots what its label says; what else the menu shows does so too, or is
\* Windows still (see Bcd).
LabelsTellTheTruth == Menu!LabelsTellTheTruth

\* A boot.wim that is whole and has its start files.
Starts(wim) == wim.whole /\ "start" \in wim.with

\* What an entry of the program finds of an image: in memory mode boot.sdi and the image's
\* boot.wim, or the one on ISOEFI if there is one (RamdiskBootStrategy takes it even if
\* an earlier image left it); otherwise all of the image's content.
IsThere(label, i) ==
    IF label = "ISOBOOT_RAM"
    THEN /\ esp["boot.sdi"] # Files!NoFile
         /\ data["boot.wim"].iso = i /\ Starts(data["boot.wim"])
         /\ Starts(Files!RamdiskWim)
    ELSE data["content"] = Files!Fresh(i)

\* A process that reports success has left an entry for its image in the menu, as the
\* default, and the files of that image, none of an earlier one's on ISOBOOT, that it
\* boots; in memory mode only if copyISO takes the image for Windows (processInThread,
\* in this order).
SuccessBootsImage ==
    /\ Menu!SuccessBootsImage
    /\ pc["worker"] = "done" =>
        /\ copy = "copied" /\ parts
        /\ store[default].label = Menu!LabelOf[StrategyFor(job)]
        /\ Files!Detected(job.iso) \/ job.mode = "EXTRACT" => IsThere(store[default].label, job.iso)

\* After a recovery nothing is left on either side, whatever was killed before.
RecoverCleans ==
    /\ Menu!RecoverCleans
    /\ pc["recovery"] = "restored" => ~parts /\ hash = Files!NoHash

(***************************************************************************)
(* What the code does not do.                                              *)
(***************************************************************************)
\* No default entry of the program is ever left without its image, not even by a
\* process that is refused, fails or is killed once it has formatted ISOBOOT.
DefaultIsAlwaysThere ==
    Quiet /\ default # Menu!NoId /\ store[default].boots = "image" =>
        parts /\ \E i \in Isos : IsThere(store[default].label, i)

\* A success in memory mode finds its files for every image, one of Linux too.
EverySuccessIsThere == pc["worker"] = "done" => IsThere(store[default].label, job.iso)
=============================================================================
