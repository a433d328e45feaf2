----------------------------- MODULE MachineProofs -----------------------------
(***************************************************************************)
(* Proofs about Machine: whatever holds of every behaviour of IsoCopy, and *)
(* of Bcd, holds of the machine; and from that, with what the process and  *)
(* the recovery add, that files and boot entries agree.                    *)
(***************************************************************************)
EXTENDS Machine, TLAPS

LEMMA InitOfBoth == Init => Files!Init /\ Menu!Init
BY DEF Init

\* Each action of the machine is a step, or none, of the files ...
LEMMA FilesStep ==
    ASSUME [Next]_vars
    PROVE  [Files!Next]_<<data, esp, hash, copy, job, skip, bootOk>>
<1>1. CASE ValidateAndPrepare
  BY <1>1 DEF ValidateAndPrepare, Files!Next
<1>2. CASE PrepareFails
  BY <1>2 DEF PrepareFails, Files!Next, files
<1>3. CASE CopyIsoContent
  BY <1>3 DEF CopyIsoContent, CopyStep, Files!Next
<1>4. CASE ConfigureBoot
  BY <1>4 DEF ConfigureBoot, files
<1>5. CASE BuildStep
  BY <1>5 DEF BuildStep, files
<1>6. CASE StartRecovery
  BY <1>6 DEF StartRecovery, files
<1>7. CASE RecoverSpace
  BY <1>7 DEF RecoverSpace, files, Files!Next
<1>8. CASE Launch
  BY <1>8 DEF Launch, files, Files!Next
<1>9. ASSUME NEW t \in Menu!Restorer, RestoreStep(t)
      PROVE  UNCHANGED files
  BY <1>9 DEF RestoreStep
<1>10. CASE UNCHANGED vars
  BY <1>10 DEF vars, files
<1>. QED  BY <1>1, <1>2, <1>3, <1>4, <1>5, <1>6, <1>7, <1>8, <1>9, <1>10 DEF Next, files

\* ... and of the menu.
LEMMA MenuStep == [Next]_vars => [Menu!Next]_(Menu!vars)
<1>. SUFFICES ASSUME [Next]_vars PROVE Menu!Next \/ UNCHANGED menu
  BY DEF Menu!vars, menu
<1>1. CASE ValidateAndPrepare
  BY <1>1 DEF ValidateAndPrepare, Menu!Next
<1>2. CASE PrepareFails
  BY <1>2 DEF PrepareFails, Menu!Next
<1>3. CASE CopyIsoContent
  BY <1>3 DEF CopyIsoContent
<1>4. CASE ConfigureBoot
  BY <1>4 DEF ConfigureBoot, Menu!Next
<1>5. CASE BuildStep
  BY <1>5 DEF BuildStep, Menu!Next
<1>6. CASE StartRecovery
  BY <1>6 DEF StartRecovery, Menu!Next
<1>7. CASE RecoverSpace
  BY <1>7 DEF RecoverSpace, Menu!Next
<1>8. CASE Launch
  BY <1>8 DEF Launch, Menu!Next
<1>9. ASSUME NEW t \in Menu!Restorer, RestoreStep(t)
      PROVE  Menu!Next
  BY <1>9 DEF RestoreStep, Menu!Next
<1>10. CASE UNCHANGED vars
  BY <1>10 DEF vars
<1>. QED  BY <1>1, <1>2, <1>3, <1>4, <1>5, <1>6, <1>7, <1>8, <1>9, <1>10 DEF Next

\* Whatever the order of processes, recoveries, starts and kills, the files behave as
\* IsoCopy says and the boot entries as Bcd does: the composition adds no step to either.
THEOREM Composed == Spec => Files!Spec /\ Menu!Spec
<1>1. [Next]_vars => [Files!Next]_(Files!vars)
  BY FilesStep DEF Files!vars
<1>. QED  BY InitOfBoth, <1>1, MenuStep, PTL DEF Spec, Files!Spec, Menu!Spec
-----------------------------------------------------------------------------
(***************************************************************************)
(* What IsoCopyProofs and BcdProofs prove of either module, of the machine.*)
(* The strategies that the machine's processes take are those that its     *)
(* images and the two modes call for.                                      *)
(***************************************************************************)
NeededStrategies == {StrategyFor(r) : r \in Files!Record}

FP == INSTANCE IsoCopyProofs WITH pc <- copy, Env <- CopyEnv
MP == INSTANCE BcdProofs WITH Env <- MenuEnv, Strategies <- NeededStrategies

\* The two instances of IsoCopy are one ...
LEMMA SameFiles ==
    /\ FP!ConstantsAssumption /\ (FP!Init <=> Files!Init) /\ (FP!Next <=> Files!Next)
    /\ FP!vars = Files!vars /\ (FP!TypeOK <=> Files!TypeOK)
<1>. USE DEF FP!EnvKinds, Files!EnvKinds, FP!Modes, Files!Modes, FP!Work, Files!Work, FP!System,
         Files!System, FP!None, Files!None, FP!Faulty, Files!Faulty, FP!Silent,
         Files!Silent, FP!File, Files!File, FP!NoFile, Files!NoFile, FP!Fresh, Files!Fresh,
         FP!Broken, Files!Broken, FP!DataFiles, Files!DataFiles, FP!EspFiles,
         Files!EspFiles, FP!Empty, Files!Empty, FP!Contents, Files!Contents, FP!Record,
         Files!Record, FP!NoHash, Files!NoHash, FP!Resting, Files!Resting, FP!Detected,
         Files!Detected, FP!ExtractsContent, Files!ExtractsContent, FP!Windows,
         Files!Windows, FP!IntegratesPrograms, Files!IntegratesPrograms, FP!ShouldSkipCopy,
         Files!ShouldSkipCopy, FP!KeepsData, Files!KeepsData, FP!Fail, Files!Fail,
         FP!Recreate, Files!Recreate, FP!FormatAndFail, Files!FormatAndFail, FP!StartCopy, Files!StartCopy, FP!Extracted,
         Files!Extracted, FP!ExtractContent, Files!ExtractContent, FP!Done, Files!Done,
         FP!Failed, Files!Failed, FP!ExtractResults, Files!ExtractResults,
         FP!BootWimResults, Files!BootWimResults, FP!SdiResults, Files!SdiResults,
         FP!CopyResults, Files!CopyResults, FP!BootFilesThen, Files!BootFilesThen,
         FP!ExtractBootFiles, Files!ExtractBootFiles, FP!NoBootFiles, Files!NoBootFiles,
         FP!Mountable, Files!Mountable, FP!WithDrivers, Files!WithDrivers, FP!ProgramsFound,
         Files!ProgramsFound, FP!Integrations, Files!Integrations, FP!MountAndProcessWim,
         Files!MountAndProcessWim, FP!CopyBootWimToEsp, Files!CopyBootWimToEsp,
         FP!ProcessInstallWim, Files!ProcessInstallWim, FP!InstallResults,
         Files!InstallResults, FP!CopyInstall, Files!CopyInstall, FP!EfiFolderResults,
         Files!EfiFolderResults, FP!ValidatedAs, Files!ValidatedAs, FP!BootFileResults,
         Files!BootFileResults, FP!BootFileExists, Files!BootFileExists, FP!OverallSuccess,
         Files!OverallSuccess, FP!ExtractEfi, Files!ExtractEfi, FP!Crash, Files!Crash
<1>1. FP!ConstantsAssumption
  BY MachineAssumption DEF FP!ConstantsAssumption, Files!ConstantsAssumption
<1>2. FP!Init <=> Files!Init
  BY DEF FP!Init, Files!Init
<1>3. FP!Next <=> Files!Next
  BY DEF FP!Next, Files!Next
<1>4. FP!vars = Files!vars
  BY DEF FP!vars, Files!vars
<1>5. FP!TypeOK <=> Files!TypeOK
  BY DEF FP!TypeOK, Files!TypeOK
<1>. QED  BY ONLY <1>1, <1>2, <1>3, <1>4, <1>5

\* ... and those of Bcd differ in the strategies alone.
LEMMA SameSteps ==
    /\ MP!Capture <=> Menu!Capture
    /\ MP!PreserveDefault <=> Menu!PreserveDefault
    /\ MP!PreserveCopy <=> Menu!PreserveCopy
    /\ MP!PreserveShow <=> Menu!PreserveShow
    /\ MP!Enumerate <=> Menu!Enumerate
    /\ MP!CreateEntry <=> Menu!CreateEntry
    /\ MP!ConfigureStrategy <=> Menu!ConfigureStrategy
    /\ MP!FinalizeBCD <=> Menu!FinalizeBCD
    /\ MP!StartRecovery <=> Menu!StartRecovery
    /\ MP!RecoverSpace <=> Menu!RecoverSpace
    /\ MP!Launch <=> Menu!Launch
    /\ \A t : MP!DeleteOne(t) <=> Menu!DeleteOne(t)
    /\ \A t : MP!FindEntries(t) <=> Menu!FindEntries(t)
    /\ \A t : MP!ForgetBackup(t) <=> Menu!ForgetBackup(t)
    /\ \A t : MP!ResetDefault(t) <=> Menu!ResetDefault(t)
    /\ \A t : MP!ResetTimeout(t) <=> Menu!ResetTimeout(t)
<1>. USE DEF MP!EnvKinds, Menu!EnvKinds, MP!NoId, Menu!NoId, MP!Ids, Menu!Ids,
         MP!TheDefault, Menu!TheDefault, MP!Thread, Menu!Thread, MP!Kinds, Menu!Kinds,
         MP!Machines, Menu!Machines, MP!LabelOf, Menu!LabelOf, MP!IsoLabels, Menu!IsoLabels,
         MP!SystemLabels, Menu!SystemLabels, MP!UserLabels, Menu!UserLabels, MP!Entry,
         Menu!Entry, MP!NoEntry, Menu!NoEntry, MP!bcd, Menu!bcd, MP!Failing, Menu!Failing,
         MP!Exists, Menu!Exists, MP!NameOf, Menu!NameOf, MP!Named, Menu!Named, MP!Unused,
         Menu!Unused, MP!Make, Menu!Make, MP!CopyDefault, Menu!CopyDefault, MP!Delete,
         Menu!Delete, MP!SetDefault, Menu!SetDefault, MP!Show, Menu!Show, MP!Hide,
         Menu!Hide, MP!SetTimeout, Menu!SetTimeout, MP!IsoBootEntries, Menu!IsoBootEntries, MP!HalfMade, Menu!HalfMade,
         MP!Goto, Menu!Goto, MP!Resting, Menu!Resting, MP!Alone, Menu!Alone, MP!Begin,
         Menu!Begin, MP!VolumesFound, Menu!VolumesFound, MP!MakeCurrentDefault,
         Menu!MakeCurrentDefault, MP!MachineOfBest, Menu!MachineOfBest, MP!ArchitectureFits,
         Menu!ArchitectureFits, MP!Configured, Menu!Configured, MP!ConfiguredLinux,
         Menu!ConfiguredLinux, MP!Finalize, Menu!Finalize, MP!Cleanable, Menu!Cleanable,
         MP!Deletable, Menu!Deletable, MP!End, Menu!End
<1>1. MP!Capture <=> Menu!Capture
  BY DEF MP!Capture, Menu!Capture
<1>2. MP!PreserveDefault <=> Menu!PreserveDefault
  BY DEF MP!PreserveDefault, Menu!PreserveDefault
<1>3. MP!PreserveCopy <=> Menu!PreserveCopy
  BY DEF MP!PreserveCopy, Menu!PreserveCopy
<1>4. MP!PreserveShow <=> Menu!PreserveShow
  BY DEF MP!PreserveShow, Menu!PreserveShow
<1>5. MP!Enumerate <=> Menu!Enumerate
  BY DEF MP!Enumerate, Menu!Enumerate
<1>6. MP!CreateEntry <=> Menu!CreateEntry
  BY DEF MP!CreateEntry, Menu!CreateEntry
<1>7. MP!ConfigureStrategy <=> Menu!ConfigureStrategy
  BY DEF MP!ConfigureStrategy, Menu!ConfigureStrategy
<1>8. MP!FinalizeBCD <=> Menu!FinalizeBCD
  BY DEF MP!FinalizeBCD, Menu!FinalizeBCD
<1>9. MP!StartRecovery <=> Menu!StartRecovery
  BY DEF MP!StartRecovery, Menu!StartRecovery
<1>10. MP!RecoverSpace <=> Menu!RecoverSpace
  BY DEF MP!RecoverSpace, Menu!RecoverSpace
<1>11. MP!Launch <=> Menu!Launch
  BY DEF MP!Launch, Menu!Launch
<1>12. \A t : MP!DeleteOne(t) <=> Menu!DeleteOne(t)
  BY DEF MP!DeleteOne, Menu!DeleteOne
<1>13. \A t : MP!FindEntries(t) <=> Menu!FindEntries(t)
  BY DEF MP!FindEntries, Menu!FindEntries
<1>14. \A t : MP!ForgetBackup(t) <=> Menu!ForgetBackup(t)
  BY DEF MP!ForgetBackup, Menu!ForgetBackup
<1>15. \A t : MP!ResetDefault(t) <=> Menu!ResetDefault(t)
  BY DEF MP!ResetDefault, Menu!ResetDefault
<1>16. \A t : MP!ResetTimeout(t) <=> Menu!ResetTimeout(t)
  BY DEF MP!ResetTimeout, Menu!ResetTimeout
<1>. QED
  BY ONLY <1>1, <1>2, <1>3, <1>4, <1>5, <1>6, <1>7, <1>8, <1>9, <1>10, <1>11, <1>12, <1>13,
     <1>14, <1>15, <1>16

LEMMA SameMenu ==
    /\ MP!Thread = Menu!Thread /\ MP!NoId = Menu!NoId /\ MP!LabelOf = Menu!LabelOf
    /\ \A t : MP!Resting(t) <=> Menu!Resting(t)
    /\ Menu!Prepare /\ strategy' \in NeededStrategies => MP!Prepare
    /\ Menu!Init /\ strategy \in NeededStrategies => MP!Init
    /\ MP!vars = Menu!vars
    /\ MP!LabelsTellTheTruth <=> Menu!LabelsTellTheTruth
    /\ MP!SuccessBootsImage <=> Menu!SuccessBootsImage
    /\ MP!RecoverCleans <=> Menu!RecoverCleans
    /\ NeededStrategies \subseteq Menu!Kinds /\ (MP!TypeOK => Menu!TypeOK)
    /\ MP!BcdAssumption
<1>. USE DEF MP!EnvKinds, Menu!EnvKinds, MP!NoId, Menu!NoId, MP!Ids, Menu!Ids,
         MP!TheDefault, Menu!TheDefault, MP!Thread, Menu!Thread, MP!Kinds, Menu!Kinds,
         MP!LabelOf, Menu!LabelOf, MP!IsoLabels, Menu!IsoLabels, MP!SystemLabels,
         Menu!SystemLabels, MP!UserLabels, Menu!UserLabels, MP!Entry, Menu!Entry,
         MP!NoEntry, Menu!NoEntry, MP!Exists, Menu!Exists, MP!PcValues, Menu!PcValues,
         MP!IsoLabelled, Menu!IsoLabelled, MP!HalfMade, Menu!HalfMade, MP!Truthful,
         Menu!Truthful
<1>1. /\ MP!Thread = Menu!Thread /\ MP!NoId = Menu!NoId /\ MP!LabelOf = Menu!LabelOf
      /\ \A t : MP!Resting(t) <=> Menu!Resting(t)
  BY DEF MP!Resting, Menu!Resting
<1>2. MP!Unused = Menu!Unused /\ MP!bcd = Menu!bcd
  BY DEF MP!Unused, Menu!Unused, MP!bcd, Menu!bcd
<1>3. \A t, l : MP!Begin(t, l) <=> Menu!Begin(t, l)
  BY DEF MP!Begin, Menu!Begin, MP!Resting, Menu!Resting
<1>4. \A t : MP!Alone(t) <=> Menu!Alone(t)
  BY DEF MP!Alone, Menu!Alone, MP!Resting, Menu!Resting
<1>5. Menu!Prepare /\ strategy' \in NeededStrategies => MP!Prepare
  <2>1. \A S : MP!Cardinality(S) = Menu!Cardinality(S)
    BY DEF MP!Cardinality, Menu!Cardinality
  <2>. QED
    BY ONLY <1>1, <1>2, <1>3, <1>4, <2>1 DEF MP!Prepare, Menu!Prepare, MP!bcd, Menu!bcd
<1>6. Menu!Init /\ strategy \in NeededStrategies => MP!Init
  BY DEF MP!Init, Menu!Init
<1>7. MP!vars = Menu!vars
  BY DEF MP!vars, Menu!vars
<1>8. /\ MP!LabelsTellTheTruth <=> Menu!LabelsTellTheTruth
      /\ MP!SuccessBootsImage <=> Menu!SuccessBootsImage
      /\ MP!RecoverCleans <=> Menu!RecoverCleans
  BY DEF MP!LabelsTellTheTruth, Menu!LabelsTellTheTruth, MP!SuccessBootsImage,
         Menu!SuccessBootsImage, MP!RecoverCleans, Menu!RecoverCleans
<1>9. NeededStrategies \subseteq Menu!Kinds
  BY DEF NeededStrategies, StrategyFor
<1>10. MP!TypeOK => Menu!TypeOK
  BY <1>9 DEF MP!TypeOK, Menu!TypeOK
<1>11. MP!BcdAssumption
  BY <1>9, MachineAssumption DEF MP!BcdAssumption, Menu!BcdAssumption
<1>. QED
  BY ONLY <1>1, <1>5, <1>6, <1>7, <1>8, <1>9, <1>10, <1>11

\* A process knows its strategy from the beginning.
StrategyOK == job \in Files!Record /\ strategy = StrategyFor(job)

LEMMA StrategyStep ==
    ASSUME StrategyOK, [Next]_vars
    PROVE  StrategyOK'
<1>. USE DEF StrategyOK, StrategyFor, Files!Detected
<1>1. CASE ValidateAndPrepare
  BY <1>1 DEF ValidateAndPrepare, Files!StartCopy
<1>2. CASE PrepareFails
  BY <1>2 DEF PrepareFails, Files!FormatAndFail, Files!Recreate, files
<1>3. CASE CopyIsoContent
  <2>1. UNCHANGED job
    BY <1>3 DEF CopyIsoContent, CopyStep, Files!ExtractContent, Files!ExtractBootFiles,
       Files!BootFilesThen, Files!NoBootFiles, Files!MountAndProcessWim, Files!CopyBootWimToEsp,
       Files!ProcessInstallWim, Files!CopyInstall, Files!ExtractEfi
  <2>. QED  BY <1>3, <2>1 DEF CopyIsoContent, menu
<1>4. CASE ConfigureBoot
  BY <1>4 DEF ConfigureBoot, files
<1>5. CASE BuildStep
  <2>1. UNCHANGED strategy
    BY <1>5 DEF BuildStep, Menu!WorkerStep, Menu!Capture, Menu!PreserveDefault,
       Menu!PreserveCopy, Menu!PreserveShow, Menu!Enumerate, Menu!DeleteOne, Menu!CreateEntry,
       Menu!ConfigureStrategy, Menu!FinalizeBCD
  <2>. QED  BY <1>5, <2>1 DEF BuildStep, files
<1>6. CASE StartRecovery
  BY <1>6 DEF StartRecovery, Menu!StartRecovery, files
<1>7. CASE RecoverSpace
  BY <1>7 DEF RecoverSpace, Menu!RecoverSpace, Files!Recreate, files
<1>8. CASE Launch
  BY <1>8 DEF Launch, Menu!Launch, Files!Crash, files
<1>9. ASSUME NEW t \in Menu!Restorer, RestoreStep(t)
      PROVE  StrategyOK'
  <2>1. UNCHANGED strategy
    BY <1>9 DEF RestoreStep, Menu!RestoreStep, Menu!FindEntries, Menu!DeleteOne,
       Menu!ForgetBackup, Menu!ResetDefault, Menu!ResetTimeout
  <2>. QED  BY <1>9, <2>1 DEF RestoreStep, files
<1>10. CASE UNCHANGED vars
  BY <1>10 DEF vars, files, menu
<1>. QED
  BY <1>1, <1>2, <1>3, <1>4, <1>5, <1>6, <1>7, <1>8, <1>9, <1>10 DEF Next

LEMMA AlwaysStrategy == Spec => []StrategyOK
<1>1. Init => StrategyOK
  BY DEF Init, StrategyOK, Files!Init
<1>2. StrategyOK /\ [Next]_vars => StrategyOK'
  BY StrategyStep
<1>. QED  BY <1>1, <1>2, PTL DEF Spec

LEMMA ComposedOfProved == Spec => FP!Spec /\ MP!Spec
<1>1. Init => FP!Init /\ MP!Init
  BY SameFiles, SameMenu DEF Init, NeededStrategies, Files!Init
<1>2. [Next]_vars => [FP!Next]_(FP!vars)
  BY FilesStep, SameFiles DEF Files!vars, FP!vars
<1>3. ASSUME StrategyOK', [Next]_vars
      PROVE  [MP!Next]_(MP!vars)
  <2>1. strategy' \in NeededStrategies
    BY <1>3 DEF StrategyOK, NeededStrategies, StrategyFor, Files!Detected
  <2>2. [Menu!Next]_(Menu!vars)
    BY <1>3, MenuStep
  <2>. QED
    BY <2>1, <2>2, SameSteps, SameMenu DEF Menu!Next, MP!Next, Menu!WorkerStep, MP!WorkerStep,
       Menu!RestoreStep, MP!RestoreStep, Menu!Restorer, MP!Restorer,
       MP!vars, Menu!vars
<1>. QED  BY <1>1, <1>2, <1>3, AlwaysStrategy, PTL DEF Spec, FP!Spec, MP!Spec
-----------------------------------------------------------------------------
(***************************************************************************)
(* The process and the two stores it goes through.                         *)
(***************************************************************************)
\* The phases before the boot configuration, in which nothing else has begun, and the
\* files, which are on the volumes.
PhasesOK ==
    /\ phase \in {"idle", "copy", "configure"}
    /\ phase = "copy" <=> ~Files!Resting
    /\ phase # "idle" => parts /\ \A t \in Menu!Thread : pc[t] = "idle"
    /\ phase = "configure" => copy = "copied"
    /\ ~parts => data = Files!Empty(Files!DataFiles) /\ esp = Files!Empty(Files!EspFiles)

LEMMA AlwaysParts == Spec => []FP!IInv /\ []FP!EInv /\ []MP!BInv
<1>1. Spec => []FP!IInv
  BY ComposedOfProved, SameFiles, FP!IInvHolds, PTL
<1>2. Spec => []FP!EInv
  <2>1. FP!Spec => []FP!EInv
    BY SameFiles, FP!AlwaysE
  <2>. QED  BY <2>1, ComposedOfProved, PTL
<1>3. Spec => []MP!BInv
  <2>1. MP!Spec => []MP!BInv
    BY SameMenu, MachineAssumption, MP!AlwaysB
  <2>. QED  BY <2>1, ComposedOfProved, PTL
<1>. QED  BY <1>1, <1>2, <1>3

\* A beginning finds everything at rest, and lets it be forgotten.
LEMMA Beginning ==
    ASSUME Quiet, NEW t \in Menu!Thread, NEW l, Menu!Begin(t, l)
    PROVE  pc'[t] = l /\ \A u \in Menu!Thread \ {t} : pc'[u] = "idle"
BY DEF Quiet, Menu!Begin

\* A process that is building the boot configuration works alone, and on nothing else.
LEMMA Building ==
    ASSUME Menu!WorkerStep, MP!BInv
    PROVE  /\ ~Menu!Resting("worker") /\ UNCHANGED <<parts, strategy>>
           /\ \A u \in Menu!Thread \ {"worker"} : Menu!Resting(u) /\ pc'[u] = pc[u]
<1>1. ~Menu!Resting("worker") /\ UNCHANGED <<parts, strategy>>
  BY DEF Menu!WorkerStep, Menu!Capture, Menu!PreserveDefault, Menu!PreserveCopy,
     Menu!PreserveShow, Menu!Enumerate, Menu!DeleteOne, Menu!CreateEntry,
     Menu!ConfigureStrategy, Menu!FinalizeBCD, Menu!Resting
<1>2. pc \in [Menu!Thread -> MP!PcValues]
  BY SameMenu DEF MP!BInv, MP!TypeOK
<1>3. UNCHANGED pc \/ \E l : Menu!Goto("worker", l)
  BY DEF Menu!WorkerStep, Menu!Capture, Menu!VolumesFound, Menu!PreserveDefault,
     Menu!PreserveCopy, Menu!PreserveShow, Menu!Enumerate, Menu!DeleteOne, Menu!CreateEntry,
     Menu!ConfigureStrategy, Menu!FinalizeBCD, Menu!Finalize
<1>4. \A u \in Menu!Thread \ {"worker"} : pc'[u] = pc[u]
  BY <1>2, <1>3 DEF Menu!Goto, Menu!Thread
<1>5. \A u \in Menu!Thread \ {"worker"} : Menu!Resting(u)
  BY <1>1, SameMenu DEF MP!BInv, MP!OneBusy, Menu!Thread
<1>. QED  BY <1>1, <1>4, <1>5

\* So does a restoration, which ends in a fixed place.
LEMMA Restoring ==
    ASSUME NEW t \in Menu!Restorer, Menu!RestoreStep(t), MP!BInv
    PROVE  /\ ~Menu!Resting(t) /\ UNCHANGED <<parts, strategy>>
           /\ \A u \in Menu!Thread \ {t} : Menu!Resting(u) /\ pc'[u] = pc[u]
           /\ pc[t] \in {"find", "delete", "forget", "reset", "resetTimeout"}
           /\ pc'[t] # "volumes"
           /\ pc'[t] \in {"idle", "restored"} <=> Menu!End(t)
           /\ Menu!End(t) => pc[t] \in {"forget", "resetTimeout"}
<1>. USE DEF Menu!Thread, Menu!Restorer
<1>1. /\ UNCHANGED <<parts, strategy>>
      /\ pc[t] \in {"find", "delete", "forget", "reset", "resetTimeout"}
  BY DEF Menu!RestoreStep, Menu!FindEntries, Menu!DeleteOne, Menu!ForgetBackup,
     Menu!ResetDefault, Menu!ResetTimeout
<1>2. pc \in [Menu!Thread -> MP!PcValues]
  BY SameMenu DEF MP!BInv, MP!TypeOK
<1>3. \/ UNCHANGED pc
      \/ \E l \in {"forget", "delete", "reset", "resetTimeout"} : Menu!Goto(t, l)
      \/ Menu!End(t) /\ pc[t] \in {"forget", "resetTimeout"}
  BY DEF Menu!RestoreStep, Menu!FindEntries, Menu!DeleteOne, Menu!ForgetBackup,
     Menu!ResetDefault, Menu!ResetTimeout
<1>4. \A u \in Menu!Thread \ {t} : pc'[u] = pc[u]
  BY <1>2, <1>3 DEF Menu!Goto, Menu!End
<1>5. ~Menu!Resting(t)
  BY <1>1 DEF Menu!Resting
<1>6. \A u \in Menu!Thread \ {t} : Menu!Resting(u)
  BY <1>5, SameMenu DEF MP!BInv, MP!OneBusy
<1>7. Menu!End(t) <=> pc' = [pc EXCEPT ![t] = IF t = "recovery" THEN "restored" ELSE "idle"]
  BY DEF Menu!End, Menu!Goto
<1>8. pc'[t] # "volumes" /\ (pc'[t] \in {"idle", "restored"} <=> Menu!End(t))
  BY <1>1, <1>2, <1>3, <1>7 DEF Menu!Goto
<1>9. Menu!End(t) => pc[t] \in {"forget", "resetTimeout"}
  BY <1>1, <1>2, <1>3, <1>7 DEF Menu!Goto
<1>. QED  BY <1>1, <1>4, <1>5, <1>6, <1>8, <1>9

LEMMA PhasesStep ==
    ASSUME PhasesOK, MP!BInv, [Next]_vars
    PROVE  PhasesOK'
<1>. USE DEF PhasesOK, Files!Resting, files, menu
<1>0. parts \in BOOLEAN
  BY DEF MP!BInv, MP!TypeOK
<1>1. CASE ValidateAndPrepare
  <2>1. PICK l : Menu!Begin("worker", l)
    BY <1>1 DEF ValidateAndPrepare, Menu!Prepare
  <2>2. \A t \in Menu!Thread : pc'[t] = "idle"
    BY <1>1, <2>1, Beginning DEF ValidateAndPrepare, Menu!Thread
  <2>3. copy' \in {"content", "idle"} /\ parts'
    BY <1>1 DEF ValidateAndPrepare, Files!StartCopy, Files!Fail
  <2>. QED  BY <1>1, <2>2, <2>3 DEF ValidateAndPrepare
<1>2. CASE PrepareFails
  <2>1. phase' = "idle" /\ Files!Resting'
    BY <1>2 DEF PrepareFails, Files!FormatAndFail, Files!Fail, Files!Recreate, Quiet
  <2>2. ~parts' => data' = Files!Empty(Files!DataFiles) /\ esp' = Files!Empty(Files!EspFiles)
    BY <1>0, <1>2 DEF PrepareFails, Files!Recreate
  <2>. QED  BY <1>2, <2>1, <2>2 DEF PrepareFails
<1>3. CASE CopyIsoContent
  BY <1>0, <1>3 DEF CopyIsoContent, PhaseAfter
<1>4. CASE ConfigureBoot
  BY <1>0, <1>4 DEF ConfigureBoot
<1>5. CASE BuildStep
  <2>1. phase = "idle" /\ UNCHANGED parts
    BY <1>5, Building DEF BuildStep, Menu!Thread, Menu!Resting
  <2>. QED  BY <1>5, <2>1 DEF BuildStep
<1>6. CASE StartRecovery
  <2>1. phase = "idle" /\ UNCHANGED parts
    BY <1>6 DEF StartRecovery, Menu!StartRecovery, Quiet
  <2>. QED  BY <1>6, <2>1 DEF StartRecovery
<1>7. CASE RecoverSpace
  <2>1. phase = "idle" /\ parts' \in {parts, FALSE}
    BY <1>7 DEF RecoverSpace, Menu!RecoverSpace, Menu!Thread
  <2>2. CASE parts'
    BY <1>0, <1>7, <2>1, <2>2 DEF RecoverSpace
  <2>3. CASE ~parts'
    BY <1>7, <2>1, <2>3 DEF RecoverSpace, Files!Recreate
  <2>. QED  BY <2>2, <2>3
<1>8. CASE Launch
  <2>1. /\ UNCHANGED <<data, esp, parts>> /\ phase' = "idle" /\ Files!Resting'
    BY <1>8 DEF Launch, Menu!Launch, Files!Crash, Files!Fail, Quiet
  <2>. QED  BY <2>1
<1>9. ASSUME NEW t \in Menu!Restorer, RestoreStep(t)
      PROVE  PhasesOK'
  <2>1. phase = "idle" /\ UNCHANGED parts
    BY <1>9, Restoring DEF RestoreStep, Menu!Thread, Menu!Restorer, Menu!Resting
  <2>. QED  BY <1>9, <2>1 DEF RestoreStep
<1>10. CASE UNCHANGED vars
  BY <1>10 DEF vars
<1>. QED
  BY <1>1, <1>2, <1>3, <1>4, <1>5, <1>6, <1>7, <1>8, <1>9, <1>10 DEF Next

LEMMA AlwaysPhases == Spec => []PhasesOK
<1>1. Init => PhasesOK
  BY DEF Init, PhasesOK, Files!Init, Files!Resting
<1>2. PhasesOK /\ MP!BInv /\ [Next]_vars => PhasesOK'
  BY PhasesStep
<1>. QED  BY <1>1, <1>2, AlwaysParts, PTL DEF Spec

\* Whatever fails, aloud or not, and is killed, over any number of processes, recoveries
\* and starts: the files, the record, the entries and the threads are what TypeOK says,
\* there are no files without a volume, and a copy runs if and only if its process is in
\* that phase (processInThread, recoverSpace, PerformHeavyInitialization).
THEOREM MachineTypes == Spec => []TypeOK
<1>1. FP!IInv /\ MP!BInv /\ PhasesOK => TypeOK
  BY SameFiles, SameMenu DEF FP!IInv, MP!BInv, PhasesOK, TypeOK
<1>. QED  BY <1>1, AlwaysParts, AlwaysPhases, PTL

-----------------------------------------------------------------------------
(***************************************************************************)
(* What a process that succeeds and a recovery that ends leave, when the   *)
(* commands on the boot entries do what they say and nothing of the copy   *)
(* fails in silence; the copy may still fail and everything may be killed. *)
(***************************************************************************)
Killed == MenuEnv \subseteq {"crash"}

\* Every image is of Windows as copyISO sees it.
AllDetected == \A i \in Isos : Files!Detected(i)

LEMMA AlwaysMenu == ASSUME Killed PROVE Spec => []MP!MInv
<1>1. MP!Spec => []MP!MInv
  BY SameMenu, MP!AlwaysM DEF Killed, MP!Killed
<1>. QED  BY <1>1, ComposedOfProved, PTL

LEMMA AlwaysRecord == ASSUME "silent" \notin CopyEnv PROVE Spec => []FP!RInv
<1>1. FP!Spec => []FP!RInv
  BY SameFiles, FP!AlwaysR DEF FP!Silent
<1>. QED  BY <1>1, ComposedOfProved, PTL

LEMMA NoLinux ==
    ASSUME AllDetected
    PROVE  "linux" \notin NeededStrategies
BY DEF AllDetected, NeededStrategies, StrategyFor, Files!Record

\* Over any number of processes, recoveries and starts, each of which may be killed, the
\* entry that boots by default boots what its label says, and the menu shows no other that
\* does not, but for copies of Windows' entry that are not made over yet, which are Windows.
THEOREM MenuTellsTheTruth ==
    ASSUME Killed
    PROVE  Spec => []LabelsTellTheTruth
<1>1. MP!MInv => LabelsTellTheTruth
  BY SameMenu DEF MP!MInv, MP!EntriesOK, LabelsTellTheTruth
<1>. QED  BY <1>1, AlwaysMenu, PTL

\* While a process builds the boot configuration, and until the next begins, its copy has
\* succeeded and is on the volumes.
BuildsOnCopy == pc["worker"] # "idle" => copy = "copied" /\ parts

LEMMA BuildsStep ==
    ASSUME MP!MInv, PhasesOK, BuildsOnCopy, [Next]_vars
    PROVE  BuildsOnCopy'
<1>. USE DEF BuildsOnCopy, files, menu, Menu!Thread
<1>0. MP!BInv
  BY DEF MP!MInv
<1>1. CASE ValidateAndPrepare
  BY <1>1 DEF ValidateAndPrepare
<1>2. CASE PrepareFails
  BY <1>2 DEF PrepareFails
<1>3. CASE CopyIsoContent
  BY <1>3 DEF CopyIsoContent, PhasesOK
<1>4. CASE ConfigureBoot
  BY <1>4 DEF ConfigureBoot, PhasesOK
<1>5. CASE BuildStep
  BY <1>0, <1>5, Building DEF BuildStep, Menu!Resting
<1>6. CASE StartRecovery
  <2>1. pc'["worker"] = "idle"
    BY <1>6, Beginning DEF StartRecovery, Menu!StartRecovery
  <2>. QED  BY <2>1
<1>7. CASE RecoverSpace
  <2>1. pc["recovery"] = "volumes" /\ \E l : Menu!Goto("recovery", l)
    BY <1>7 DEF RecoverSpace, Menu!RecoverSpace
  <2>2. ~MP!Resting("recovery") /\ pc'["worker"] = pc["worker"]
    BY <1>0, <2>1, SameMenu DEF Menu!Goto, Menu!Resting, MP!BInv, MP!TypeOK
  <2>3. pc["worker"] = "idle"
    BY <2>2, SameMenu DEF MP!MInv, MP!BInv, MP!OneBusy, MP!EndsAlone, MP!Resting, MP!TypeOK,
       MP!RestoreOK, MP!ListsOK, Menu!Resting
  <2>. QED  BY <2>2, <2>3
<1>8. CASE Launch
  <2>1. pc'["worker"] = "idle"
    BY <1>8 DEF Launch, Menu!Launch
  <2>. QED  BY <2>1
<1>9. ASSUME NEW t \in Menu!Restorer, RestoreStep(t)
      PROVE  BuildsOnCopy'
  BY <1>0, <1>9, Restoring DEF RestoreStep, Menu!Restorer
<1>10. CASE UNCHANGED vars
  BY <1>10 DEF vars
<1>. QED
  BY <1>1, <1>2, <1>3, <1>4, <1>5, <1>6, <1>7, <1>8, <1>9, <1>10 DEF Next

LEMMA AlwaysBuilds == ASSUME Killed PROVE Spec => []BuildsOnCopy
<1>1. Init => BuildsOnCopy
  BY DEF Init, BuildsOnCopy, Menu!Init, Menu!Thread
<1>2. MP!MInv /\ PhasesOK /\ BuildsOnCopy /\ [Next]_vars => BuildsOnCopy'
  BY BuildsStep
<1>. QED  BY <1>1, <1>2, AlwaysMenu, AlwaysPhases, PTL DEF Spec

\* What a copy that has succeeded leaves is what the entry for it needs.
LEMMA CopyServesEntry ==
    ASSUME StrategyOK, FP!EInv, FP!RInv, copy = "copied",
           Files!Detected(job.iso) \/ job.mode = "EXTRACT"
    PROVE  IsThere(Menu!LabelOf[strategy], job.iso)
<1>1. job \in Files!Record /\ job.mode \in {"RAM", "EXTRACT"}
  BY DEF StrategyOK, Files!Record, Files!Modes
<1>2. CASE job.mode = "RAM"
  <2>1. Menu!LabelOf[strategy] = "ISOBOOT_RAM" /\ Files!Detected(job.iso)
    BY <1>2 DEF StrategyOK, StrategyFor, Menu!LabelOf, Menu!Kinds
  <2>2. /\ data["boot.wim"].iso = job.iso /\ Starts(data["boot.wim"])
        /\ esp["boot.sdi"] # Files!NoFile
    BY <2>1 DEF FP!RInv, FP!IInv, FP!CopiedIsBootable, FP!Detected, Files!Detected, FP!NoFile,
       Files!NoFile, FP!None, Files!None, Starts
  <2>3. esp["boot.wim"] # Files!NoFile => Starts(esp["boot.wim"])
    BY DEF FP!EInv, FP!EspWimIsProcessed, FP!NoFile, Files!NoFile, FP!None, Files!None, Starts
  <2>. QED  BY <2>1, <2>2, <2>3 DEF IsThere, Files!RamdiskWim
<1>3. CASE job.mode = "EXTRACT"
  <2>1. Menu!LabelOf[strategy] # "ISOBOOT_RAM"
    BY <1>3 DEF StrategyOK, StrategyFor, Menu!LabelOf, Menu!Kinds
  <2>2. hash = job /\ hash # FP!NoHash
    BY <1>3 DEF FP!RInv, FP!Staged, FP!NoHash, FP!None
  <2>3. data["content"] = Files!Fresh(job.iso)
    BY <1>3, <2>2 DEF FP!RInv, FP!HashTruthful, FP!Fresh, Files!Fresh
  <2>. QED  BY <2>1, <2>3 DEF IsThere
<1>. QED  BY <1>1, <1>2, <1>3

\* A process that reports success has left an entry for its own image as the default, in
\* the menu, with time to choose, and on ISOBOOT the whole files of that image that it
\* boots, whatever processes and recoveries failed or were killed before, if nothing of
\* the copy fails in silence; but not in memory mode for an image without Windows' files,
\* and there a boot.wim that an earlier image left on ISOEFI is taken instead
\* (processInThread: copyIsoContent, then configureBoot; RamdiskBootStrategy).
THEOREM SuccessIsBooted ==
    ASSUME Killed, "silent" \notin CopyEnv
    PROVE  Spec => []SuccessBootsImage
<1>1. StrategyOK /\ FP!EInv /\ FP!RInv /\ MP!MInv /\ BuildsOnCopy => SuccessBootsImage
  <2>. SUFFICES ASSUME StrategyOK, FP!EInv, FP!RInv, MP!MInv, BuildsOnCopy
                PROVE  SuccessBootsImage
    OBVIOUS
  <2>1. Menu!SuccessBootsImage
    BY SameMenu DEF MP!MInv, MP!WorkerOK
  <2>2. ASSUME pc["worker"] = "done"
        PROVE  /\ copy = "copied" /\ parts /\ store[default].label = Menu!LabelOf[strategy]
               /\ strategy = StrategyFor(job)
    BY <2>1, <2>2 DEF Menu!SuccessBootsImage, BuildsOnCopy, StrategyOK
  <2>. QED  BY <2>1, <2>2, CopyServesEntry DEF SuccessBootsImage
<1>. QED  BY <1>1, AlwaysStrategy, AlwaysParts, AlwaysRecord, AlwaysMenu, AlwaysBuilds, PTL

\* Once a recovery has removed the volumes, and until something else begins, there are none.
Removed == pc["recovery"] \notin {"idle", "volumes"} => ~parts /\ hash = Files!NoHash

LEMMA RemovedStep ==
    ASSUME MP!BInv, PhasesOK, Removed, [Next]_vars
    PROVE  Removed'
<1>. USE DEF Removed, files, menu, Menu!Thread
<1>1. CASE ValidateAndPrepare
  <2>1. pc'["recovery"] = "idle"
    BY <1>1, Beginning DEF ValidateAndPrepare, Menu!Prepare
  <2>. QED  BY <2>1
<1>2. CASE PrepareFails
  <2>1. pc'["recovery"] = "idle"
    BY <1>2, Beginning DEF PrepareFails, Menu!Prepare
  <2>. QED  BY <2>1
<1>3. CASE CopyIsoContent
  BY <1>3 DEF CopyIsoContent, PhasesOK
<1>4. CASE ConfigureBoot
  <2>1. Quiet \/ \A t \in Menu!Thread : Menu!Resting(t)
    BY <1>4 DEF ConfigureBoot, PhasesOK, Menu!Resting
  <2>2. pc'["recovery"] = "idle"
    BY <1>4, <2>1 DEF ConfigureBoot, Menu!Prepare, Menu!Begin, Quiet
  <2>. QED  BY <2>2
<1>5. CASE BuildStep
  BY <1>5, Building DEF BuildStep
<1>6. CASE StartRecovery
  <2>1. pc'["recovery"] = "volumes"
    BY <1>6, Beginning DEF StartRecovery, Menu!StartRecovery
  <2>. QED  BY <2>1
<1>7. CASE RecoverSpace
  <2>1. pc \in [Menu!Thread -> MP!PcValues]
    BY SameMenu DEF MP!BInv, MP!TypeOK
  <2>2. \/ pc'["recovery"] = "find" /\ parts' = FALSE
        \/ pc'["recovery"] = "idle"
    BY <1>7, <2>1 DEF RecoverSpace, Menu!RecoverSpace, Menu!Goto
  <2>. QED  BY <1>7, <2>2 DEF RecoverSpace, Files!Recreate
<1>8. CASE Launch
  <2>1. pc'["recovery"] = "idle"
    BY <1>8 DEF Launch, Menu!Launch
  <2>. QED  BY <2>1
<1>9. ASSUME NEW t \in Menu!Restorer, RestoreStep(t)
      PROVE  Removed'
  BY <1>9, Restoring DEF RestoreStep, Menu!Restorer
<1>10. CASE UNCHANGED vars
  BY <1>10 DEF vars
<1>. QED
  BY <1>1, <1>2, <1>3, <1>4, <1>5, <1>6, <1>7, <1>8, <1>9, <1>10 DEF Next

LEMMA AlwaysRemoved == Spec => []Removed
<1>1. Init => Removed
  BY DEF Init, Removed, Menu!Init, Menu!Thread
<1>2. MP!BInv /\ PhasesOK /\ Removed /\ [Next]_vars => Removed'
  BY RemovedStep
<1>. QED  BY <1>1, <1>2, AlwaysParts, AlwaysPhases, PTL DEF Spec

\* Where every image is of Windows, a recovery that comes to its end leaves neither volumes
\* nor a record, no entry that mentions ISOBOOT and no image as the default, whatever was
\* killed before (recoverSpaceInThread, recoverSpace, restoreBCD).
THEOREM RecoveryCleansTheMachine ==
    ASSUME Killed, AllDetected
    PROVE  Spec => []RecoverCleans
<1>1. MP!MInv /\ Removed => RecoverCleans
  <2>. SUFFICES ASSUME MP!MInv, Removed PROVE RecoverCleans
    OBVIOUS
  <2>1. Menu!RecoverCleans
    BY SameMenu, NoLinux, MP!NoImageByDefault DEF MP!MInv, MP!RestoreOK, MP!RecoverCleans
  <2>. QED  BY <2>1 DEF Removed, RecoverCleans
<1>. QED  BY <1>1, AlwaysMenu, AlwaysRemoved, PTL
=============================================================================
