---------------------------------- MODULE Bcd ----------------------------------
(***************************************************************************)
(* The boot entries of the machine, which outlive the program: configureBCD*)
(* at the end of a process (BCDConfigurator, BCDEntryManager, the boot     *)
(* strategies) and restoreBCD, which the recovery calls and, when ISOBOOT  *)
(* is there, the start of the program.                                     *)
(*                                                                         *)
(* A step is one bcdedit command with the code that reads its answer: the  *)
(* store is shared, and commands of several threads interleave.            *)
(***************************************************************************)
EXTENDS Naturals, FiniteSets

CONSTANTS
    Id,          \* the GUIDs that entries made by the program may take
    User,        \* the entries of the user, from before the program
    UserEntry,   \* what those are: [User -> Entry]
    UserWindows, \* the one of the Windows that the program is first run on
    Arch,        \* the machine's: of which an EFI program has to be
    UserDefault, UserTimeout,   \* what the boot manager was set to
    Strategies,  \* the boot strategies that processes may take
    Env          \* what may happen: see EnvKinds

EnvKinds == {"faults",    \* a command may fail, and say "error"
             "silent",    \* ... or fail in words the code does not look for
             "crash",     \* the program may be killed between two commands
             "astray",    \* the user may start Windows from a half made entry
             "overlap"}   \* Recover during a process; a process during the start-up

NoId    == "no entry"
Ids     == Id \cup User
TheDefault == "{default}"    \* a name for whatever is the default when it is used
Thread  == {"worker", "recovery", "init"}
Kinds   == {"ramdisk", "extracted", "linux"}

Machines == {"amd64", "i386", "other"}

\* BootStrategy::getBCDLabel
LabelOf == [s \in Kinds |-> IF s = "ramdisk" THEN "ISOBOOT_RAM"
                            ELSE IF s = "extracted" THEN "ISOBOOT" ELSE "Linux ISO Boot"]

IsoLabels    == {"ISOBOOT", "ISOBOOT_RAM"}              \* "isoboot" occurs in them
SystemLabels == {"Windows (System)", "Windows 10"}      \* restoreBCD's Windows entries
UserLabels   == {"Windows 10", "Windows 11", "Linux"}

\* A loader's block in bcdedit's output begins with the words "Windows Boot Loader".
Entry == [label : IsoLabels \cup SystemLabels \cup UserLabels \cup {"Linux ISO Boot"},
          loader : BOOLEAN, boots : {"windows", "image", "other", "nothing"}]
NoEntry == [label |-> "none", loader |-> FALSE, boots |-> "nothing"]

ASSUME BcdAssumption ==
    /\ Id \cap User = {} /\ {NoId, TheDefault} \cap Ids = {}
    /\ UserEntry \in [User -> Entry] /\ UserWindows \in User /\ UserDefault \in User
    /\ \A i \in User : UserEntry[i].label \in UserLabels
    /\ \A i \in User : UserEntry[i].label \in SystemLabels => UserEntry[i].boots = "windows"
    /\ \A i \in User : UserEntry[i].boots # "image"   \* there was none before the program
    /\ UserEntry[UserWindows].boots = "windows" /\ UserEntry[UserWindows].loader
    /\ UserTimeout \in Nat /\ Arch \in {"amd64", "i386"} /\ Strategies \subseteq Kinds /\ Env \subseteq EnvKinds

VARIABLES
    store,       \* the entries
    current,     \* {current}: the entry of the Windows that runs
    default, shown, timeout,   \* of {bootmgr}: default, displayorder as a set, timeout
    backup,      \* bootmgr_backup.ini is there
    parts,       \* ISOBOOT is there
    pc,          \* per thread, the next step
    todo,        \* per thread, the entries still to delete, as bcdedit named them
    win,         \* per thread, the Windows entries it found, likewise
    guid,        \* the entry the worker works on
    strategy     \* ... and the strategy it does it for

bcd  == <<store, default, shown, timeout>>
vars == <<store, default, shown, timeout, current, backup, parts, pc, todo, win, guid, strategy>>

Failing == Env \cap {"faults", "silent"} # {}

Init ==
    /\ store = [i \in Ids |-> IF i \in User THEN UserEntry[i] ELSE NoEntry]
    /\ default = UserDefault /\ current = UserWindows /\ shown = User /\ timeout = UserTimeout
    /\ backup = FALSE /\ parts = FALSE
    /\ pc = [t \in Thread |-> "idle"]
    /\ todo = [t \in Thread |-> {}] /\ win = [t \in Thread |-> {}]
    /\ guid = NoId /\ strategy \in Strategies

(***************************************************************************)
(* bcdedit.                                                                *)
(***************************************************************************)
Exists(i) == i \in Ids /\ store[i] # NoEntry

\* How bcdedit prints an entry, and the entry that a printed name stands for later.
NameOf(i) == IF i = default /\ i # current THEN TheDefault ELSE i
Named(n)  == IF n = TheDefault THEN default ELSE n

\* A GUID is new: no thread remembers it.
Unused == {i \in Id : /\ store[i] = NoEntry /\ i \notin {guid, current}
                      /\ \A t \in Thread : i \notin todo[t] \cup win[t]}

Make(i, e) == /\ store' = [store EXCEPT ![i] = e]
              /\ UNCHANGED <<default, shown, timeout>>

\* /copy {default}: the copy of an entry that the menu shows is shown as well.
CopyDefault(i, l) == /\ Exists(default)
                     /\ store' = [store EXCEPT ![i] = [store[default] EXCEPT !.label = l]]
                     /\ shown' = IF default \in shown THEN shown \cup {i} ELSE shown
                     /\ UNCHANGED <<default, timeout>>

\* Mutant: the references stay.
DeleteAlone(S) == /\ store' = [i \in Ids |-> IF i \in S THEN NoEntry ELSE store[i]]
                  /\ UNCHANGED <<default, shown, timeout>>

\* /delete g /f: with the entry go the references to it.
Delete(S) == /\ store' = [i \in Ids |-> IF i \in S THEN NoEntry ELSE store[i]]
             /\ shown' = shown \ S
             /\ default' = IF default \in S THEN NoId ELSE default
             /\ UNCHANGED timeout

SetDefault(i) == /\ default' = IF Exists(i) THEN i ELSE default
                 /\ UNCHANGED <<store, shown, timeout>>

Show(i) == /\ shown' = IF Exists(i) THEN shown \cup {i} ELSE shown
           /\ UNCHANGED <<store, default, timeout>>

Hide(i) == shown' = shown \ {i} /\ UNCHANGED <<store, default, timeout>>

SetTimeout(n) == timeout' = n /\ UNCHANGED <<store, default, shown>>

\* Mutants: a label of Linux counts too; ISOBOOT alone.
LinuxToo  == {i \in Ids : store[i].label \in IsoLabels \cup {"Linux", "Linux ISO Boot"}}
ExactOnly == {i \in Ids : store[i].label = "ISOBOOT"}

\* A copy of Windows' entry under a name of the program's, not yet (or never) made over.
HalfMade(i) == /\ i \in Id /\ store[i].boots = "windows"
               /\ store[i].label # "Windows (System)"

\* The blocks of "/enum all" that contain "isoboot".
IsoBootEntries == {i \in Ids : store[i].label \in IsoLabels}

(***************************************************************************)
(* The worker: BCDConfigurator::build.                                     *)
(***************************************************************************)
Goto(t, l) == pc' = [pc EXCEPT ![t] = l]

Resting(t) == pc[t] \in {"idle", "done", "restored"}
Alone(t)   == "overlap" \in Env \/ \A u \in Thread \ {t} : Resting(u)

\* What another thread has reached is of no account once something new begins.
Begin(t, l) == pc' = [u \in Thread |-> IF u = t THEN l
                                       ELSE IF Resting(u) THEN "idle" ELSE pc[u]]

\* A process as far as the boot configuration, which it may not reach.
\* Bounded by the two identities that it takes.
Prepare ==
    /\ Resting("worker") /\ Alone("worker") /\ Cardinality(Unused) >= 2
    /\ parts' \in BOOLEAN /\ strategy' \in Strategies
    /\ \E l \in {"idle"} \cup (IF parts' THEN {"capture"} ELSE {}) : Begin("worker", l)
    /\ UNCHANGED <<current, bcd, backup, todo, win, guid>>

\* getVolumeGUID of either drive, by its name or by a search of all volumes, which a
\* recovery may have deleted.
VolumesFound == \/ parts /\ Goto("worker", "current")
                \/ (Failing \/ ~parts) /\ Goto("worker", "idle")

\* captureBootmgrStateIfNeeded, then the names of the volumes.
Capture ==
    /\ pc["worker"] = "capture"
    /\ backup' \in {TRUE} \cup (IF Failing THEN {backup} ELSE {})
    /\ VolumesFound
    /\ UNCHANGED <<current, bcd, parts, todo, win, guid, strategy>>

\* Mutant: the default is left alone.
KeepDefault == UNCHANGED bcd

MakeCurrentDefault == SetDefault(current)

\* preserveWindowsEntries, three commands whose failures nobody minds.
PreserveDefault ==
    /\ pc["worker"] = "current" /\ Goto("worker", "copy")
    /\ MakeCurrentDefault \/ (Failing /\ UNCHANGED bcd)
    /\ UNCHANGED <<current, backup, parts, todo, win, guid, strategy>>

PreserveCopy ==
    /\ pc["worker"] = "copy"
    /\ \/ \E i \in Unused : /\ CopyDefault(i, "Windows (System)") /\ guid' = i
                            /\ Goto("worker", "show")
       \/ /\ Failing \/ ~Exists(default)
          /\ Goto("worker", "enumerate") /\ UNCHANGED <<bcd, guid>>
    /\ UNCHANGED <<current, backup, parts, todo, win, strategy>>

PreserveShow ==
    /\ pc["worker"] = "show" /\ Goto("worker", "enumerate") /\ guid' = NoId
    /\ Show(guid) \/ (Failing /\ UNCHANGED bcd)
    /\ UNCHANGED <<current, backup, parts, todo, win, strategy>>

\* cleanupExistingEntries; each entry is deleted, then removed from the display order.
Enumerate ==
    /\ pc["worker"] = "enumerate" /\ Goto("worker", "delete")
    /\ todo' = [todo EXCEPT !["worker"] = {NameOf(i) : i \in IsoBootEntries}]
    /\ UNCHANGED <<current, bcd, backup, parts, win, guid, strategy>>

DeleteOne(t) ==
    /\ pc[t] = "delete"
    /\ \E n \in todo[t] : /\ todo' = [todo EXCEPT ![t] = @ \ {n}]
                          /\ \/ Delete({Named(n)})
                             \/ Failing /\ UNCHANGED bcd
                             \/ Failing /\ t = "worker" /\ Hide(Named(n))
    /\ UNCHANGED <<current, backup, parts, pc, win, guid, strategy>>

\* createEntry
CreateEntry ==
    /\ pc["worker"] = "delete" /\ todo["worker"] = {}
    /\ \/ \E i \in Unused :
            /\ IF strategy = "ramdisk"
               THEN Make(i, [label |-> LabelOf[strategy], loader |-> TRUE, boots |-> "nothing"])
               ELSE CopyDefault(i, LabelOf[strategy])
            /\ guid' = i /\ Goto("worker", "configure")
       \/ /\ Failing \/ (strategy # "ramdisk" /\ ~Exists(default))
          /\ Goto("worker", "idle") /\ UNCHANGED <<bcd, guid>>
    /\ UNCHANGED <<current, backup, parts, todo, win, strategy>>

\* selectEFIBootFile, among the candidates that exist: x64 before x86 before the rest.
MachineOfBest(candidates) ==
    IF "amd64" \in candidates THEN "amd64"
    ELSE IF "i386" \in candidates THEN "i386" ELSE "other"

\* ... and validateArchitecture; without a candidate there is no file to ask.
ArchitectureFits(candidates) == candidates # {} /\ MachineOfBest(candidates) = Arch

\* What configureBCD makes of an entry, for the image or for the GRUB beside it.
Configured(e) == [e EXCEPT !.boots = "image"]
ConfiguredLinux(e) == [Configured(e) EXCEPT !.label = LabelOf["linux"]]

\* The commands of configureBCD are not looked at.
ConfigureStrategy ==
    /\ pc["worker"] = "configure"
    /\ \E candidates \in SUBSET Machines :
        \/ /\ ArchitectureFits(candidates) /\ Goto("worker", "default") /\ UNCHANGED guid
           /\ \/ Exists(guid) /\ Make(guid, IF strategy = "linux" THEN ConfiguredLinux(store[guid])
                                            ELSE Configured(store[guid]))
              \/ (Failing \/ ~Exists(guid)) /\ UNCHANGED bcd
        \/ ~ArchitectureFits(candidates) /\ Goto("worker", "idle") /\ guid' = NoId /\ UNCHANGED bcd
    /\ UNCHANGED <<current, backup, parts, todo, win, strategy>>

\* A command of finalizeBCD, and where it leads; told of a failure, the build ends.
Finalize(command, next) ==
    \/ command /\ Goto("worker", next)
       /\ guid' = IF next = "done" THEN NoId ELSE guid
    \/ "silent" \in Env /\ UNCHANGED bcd /\ Goto("worker", next)
       /\ guid' = IF next = "done" THEN NoId ELSE guid
    \/ /\ "faults" \in Env \/ ~Exists(guid)
       /\ UNCHANGED bcd /\ Goto("worker", "idle") /\ guid' = NoId

FinalizeBCD ==
    /\ \/ pc["worker"] = "default" /\ Finalize(SetDefault(guid), "first")
       \/ pc["worker"] = "first" /\ Finalize(Show(guid), "timeout")
       \/ pc["worker"] = "timeout" /\ Finalize(SetTimeout(30), "done")
    /\ UNCHANGED <<current, backup, parts, todo, win, strategy>>
(***************************************************************************)
(* restoreBCD, on the recovery's thread or on that of the start-up.        *)
(***************************************************************************)
Restorer == {"recovery", "init"}

\* cleanBootThatISOEntries spares {default} and whatever mentions Windows, as the
\* block of every loader does.
Cleanable == {i \in IsoBootEntries \ {current, default} : ~store[i].loader}

\* recoverSpaceInThread and recoverSpace, which fails with the volumes and not with
\* its last step, the cleaning of the boot entries; restoreBCD only follows a success.
StartRecovery ==
    /\ Resting("recovery") /\ Alone("recovery")
    /\ Begin("recovery", "volumes")
    /\ UNCHANGED <<current, bcd, backup, parts, todo, win, guid, strategy>>

RecoverSpace ==
    /\ pc["recovery"] = "volumes"
    /\ \/ /\ Goto("recovery", "find") /\ parts' = FALSE
          /\ \E S \in IF Failing THEN SUBSET Cleanable ELSE {Cleanable} : Delete(S)
       \/ Failing /\ Goto("recovery", "idle") /\ parts' \in {parts, FALSE} /\ UNCHANGED bcd
    /\ UNCHANGED <<current, backup, todo, win, guid, strategy>>

\* The program starts, after its threads have come to rest or were killed with it;
\* PerformHeavyInitialization restores if there is an ISOBOOT.  The Windows it runs on
\* may have been started anew, from any entry of the menu that starts it.
Launch ==
    /\ "crash" \in Env \/ \A t \in {"worker", "recovery"} : Resting(t)
    /\ pc' = [t \in Thread |-> IF t = "init" /\ parts THEN "find" ELSE "idle"]
    /\ todo' = [t \in Thread |-> {}] /\ win' = [t \in Thread |-> {}] /\ guid' = NoId
    /\ current' \in {current} \cup {i \in (shown \cup {default}) \cap Ids :
                                       /\ store[i].boots = "windows"
                                       /\ "astray" \in Env \/ ~HalfMade(i)}
    /\ UNCHANGED <<bcd, backup, parts, strategy>>

\* Mutant: {default} is protected here too, as it is in the cleaning.
DefaultProtected == IsoBootEntries \ {current, default}

Deletable == IsoBootEntries \ {current}

End(t) == Goto(t, IF t = "recovery" THEN "restored" ELSE "idle")

\* One enumeration serves everything that follows.
FindEntries(t) ==
    /\ pc[t] = "find" /\ Goto(t, IF Deletable = {} THEN "forget" ELSE "delete")
    /\ todo' = [todo EXCEPT ![t] = {NameOf(i) : i \in Deletable}]
    /\ win' = [win EXCEPT ![t] = {NameOf(i) : i \in {j \in Ids : store[j].label \in SystemLabels}}]
    /\ UNCHANGED <<current, bcd, backup, parts, guid, strategy>>

\* restoreBootmgrStateIfPresent, which deletes the backup and does not use it.  The
\* defaults are reset if there was one, or anything to delete.
ForgetBackup(t) ==
    /\ \/ pc[t] = "delete" /\ todo[t] = {} /\ Goto(t, "reset")
       \/ pc[t] = "forget" /\ backup /\ Goto(t, "reset")
       \/ pc[t] = "forget" /\ ~backup /\ End(t)
    /\ backup' = FALSE
    /\ win' = IF pc'[t] = "reset" THEN win ELSE [win EXCEPT ![t] = {}]
    /\ UNCHANGED <<current, bcd, parts, todo, guid, strategy>>

\* The first Windows entry in the order of the output, whichever that is.
ResetDefault(t) ==
    /\ pc[t] = "reset" /\ Goto(t, "resetTimeout")
    /\ \/ \E n \in IF win[t] = {} THEN {current} ELSE win[t] : SetDefault(Named(n))
       \/ Failing /\ UNCHANGED bcd
    /\ win' = [win EXCEPT ![t] = {}]
    /\ UNCHANGED <<current, backup, parts, todo, guid, strategy>>

ResetTimeout(t) ==
    /\ pc[t] = "resetTimeout" /\ End(t)
    /\ SetTimeout(0) \/ (Failing /\ UNCHANGED bcd)
    /\ UNCHANGED <<current, backup, parts, todo, win, guid, strategy>>

WorkerStep == \/ Capture \/ PreserveDefault \/ PreserveCopy \/ PreserveShow \/ Enumerate
              \/ DeleteOne("worker") \/ CreateEntry \/ ConfigureStrategy \/ FinalizeBCD

RestoreStep(t) == \/ FindEntries(t) \/ DeleteOne(t) \/ ForgetBackup(t)
                  \/ ResetDefault(t) \/ ResetTimeout(t)

Next == \/ Prepare \/ WorkerStep \/ StartRecovery \/ RecoverSpace \/ Launch
        \/ \E t \in Restorer : RestoreStep(t)

Spec == Init /\ [][Next]_vars

-----------------------------------------------------------------------------
(***************************************************************************)
(* Properties.                                                             *)
(***************************************************************************)
PcValues == {"idle", "capture", "current", "copy", "show", "enumerate", "delete", "configure",
             "default", "first", "timeout", "done", "volumes", "find", "forget", "reset",
             "resetTimeout", "restored"}

\* Every variable is what the code can make it; what the boot manager lists exists.
TypeOK ==
    /\ store \in [Ids -> Entry \cup {NoEntry}]
    /\ (default = NoId \/ Exists(default)) /\ \A i \in shown : Exists(i)
    /\ current \in Ids /\ timeout \in Nat
    /\ backup \in BOOLEAN /\ parts \in BOOLEAN
    /\ pc \in [Thread -> PcValues]
    /\ todo \in [Thread -> SUBSET (Ids \cup {TheDefault})]
    /\ win \in [Thread -> SUBSET (Ids \cup {TheDefault})]
    /\ guid \in Id \cup {NoId} /\ strategy \in Strategies

\* Whatever fails or is killed, the user's entries stay as they were and in the menu,
\* Windows among them: entries are told by their labels, in lists that may be old when
\* they are used (deleteEntriesByLabel, restoreBCD).  Not so with "overlap".
UserEntriesKept == \A i \in User : store[i] = UserEntry[i] /\ i \in shown

\* An entry that boots what its label says.
Truthful(i) ==
    store[i].boots = IF i \in User THEN UserEntry[i].boots
                     ELSE IF store[i].label = "Windows (System)" THEN "windows" ELSE "image"

\* What boots by default boots what its label says, and so does what the menu shows, but
\* for a half made entry, which is Windows still: "Windows (System)" is no copy of an
\* image's entry, and an entry that boots nothing is not seen before it is configured
\* (preserveWindowsEntries, the order of build and finalizeBCD).
LabelsTellTheTruth ==
    \A i \in (shown \cup {default}) \ {NoId} : Truthful(i) \/ (i # default /\ HalfMade(i))

IsoLabelled == {i \in Ids : store[i].label \in IsoLabels}

\* A process that reports success has made its entry the default, in the menu, with
\* time to choose (finalizeBCD), and it is the only one that mentions ISOBOOT,
\* whatever runs were refused or killed before.
SuccessBootsImage ==
    pc["worker"] = "done" =>
        /\ default # NoId /\ store[default].label = LabelOf[strategy]
        /\ store[default].boots = "image" /\ default \in shown /\ timeout = 30
        /\ IsoLabelled \subseteq {default}

\* After a recovery nothing mentions ISOBOOT and the default is no image that is gone.
RecoverCleans ==
    pc["recovery"] = "restored" =>
        /\ IsoLabelled = {}
        /\ default # NoId => store[default].boots # "image"
=============================================================================
