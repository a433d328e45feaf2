# BootThatISO! in TLA+

A formal model of BootThatISO!, the Windows program that boots an ISO image without a USB stick: it takes two
partitions off `C:`, `ISOBOOT` for the image and `ISOEFI` for its EFI files, copies the image there and adds
boot entries; its *Recover Space* button takes all of that back. This directory holds the TLA+ modules, their
TLC configurations and TLAPS proofs. All paths below are relative to the repository; the program itself is under
`src/`.

`PROJECT.json` lists the components, the runs, the lines every definition translates, the mutants that each
property is known to detect, the disagreements found between texts and code, the hazards and the theorems.

## 1. The system

| Component | State it keeps | Operations | Talks to |
|---|---|---|---|
| Window, entry points (`views/mainwindow.cpp`, `main.cpp`) | `isProcessing`, `isRecovering`, open message boxes, the window's enabled state | Create, Recover, close, the posted messages, `-unattended` | calls ProcessController; hears from it by `PostMessage` |
| Threads (`controllers/ProcessController.cpp`, `models/EventManager.h`) | worker thread, recovery thread, `recoveryInProgress`, `cancelRequested` | `startProcess`, `recoverSpace`, `requestCancel`, destructor | ProcessService, PartitionManager, BCDManager |
| Process (`controllers/ProcessService.cpp`) | `partitionDrive`, `espDrive` | `validateAndPrepare`, `copyIsoContent`, `configureBoot` | everything below |
| Partition creation (`services/partitionmanager.cpp`, `models/PartitionCreator.cpp`) | the disk | `createPartition`: checks, decision, one diskpart script | volume lookup, recovery |
| Reformatting (`models/PartitionReformatter.cpp`) | the disk | `reformatPartition`, `reformatEfiPartition` | diskpart, PowerShell |
| Volume lookup (`models/VolumeDetector.cpp`, `VolumeDetectionStrategy.cpp`) | drive letters | exists?, letter of a label (assigning one), count, "does Windows use it?" | mountvol, diskpart |
| Recovery (`models/SpaceManager.cpp`, `RecoverySteps.cpp`) | the disk, `volumesToDelete` | enumerate, delete, extend `C:`, clean boot entries | diskpart, bcdedit |
| Image copy (`services/isocopymanager.cpp`, `models/HashVerifier.cpp`) | the files on both partitions, `ISOBOOTHASH` | `extractISOContents` | image reader, boot image, EFI files |
| Boot image (`boot/`, `wim/`, `filesystem/`, `drivers/`, `config/`) | `boot.wim`, `install.wim`, a mount directory | extract, mount, add programs, drivers and start files, commit | dism |
| EFI files (`models/efimanager.cpp`) | ISOEFI's files | select, validate, make boot files | the image, the running system |
| External commands (`utils/Utils.cpp` and copies of it) | pipes, process handles | run a command, read its output, wait | called by all the others, from three threads |
| Boot entries (`services/bcdmanager.cpp`, `models/*BootStrategy.h`) | the BCD store | `configureBCD`, `restoreBCD` | bcdedit |

Everything that lasts is on the machine: the partition table, the volumes' labels, letters and files, the BCD
store. The program remembers nothing between two runs but `ISOBOOTHASH` on the data partition and looks volumes
up by label each time. All changes go through external commands (`diskpart`, `mountvol`, `bcdedit`, `dism`)
whose output is parsed and each of which may fail.

What is hard in it:

* **Commands that fail half-way.** A diskpart script shrinks `C:` and creates and formats two partitions, and
  may stop at any line; the next run has to make sense of what is left.
* **The program being killed, the machine restarted**, between any two commands. Letters of EFI partitions go.
* **Lookups with side effects.** Asking for a label's letter assigns one; what is found depends on what was
  asked before.
* **Letters held across commands.** The letters to delete are collected, then used one by one.
* **Three threads** (window, worker, recovery) and a detached one, one disk, one boot store, flags on both
  sides.
* **Message boxes that run their own message loop** inside a handler, some without an owner.
* **Pipes whose two ends every command inherits**, several threads that run commands, a dialogue with chkdsk.
* **dism's register of mounts**, which outlives the program: a run meets what a killed one has left mounted.
* **Words**: the output of `list volume` is parsed for Spanish and for English words, not in the same way
  everywhere; dism's list is looked through for "Index :".

What makes the components correct:

* never a second ISOBOOT, whatever fails, and no space lost track of;
* no volume of others deleted or formatted; the image goes to ISOBOOT and ISOEFI and nowhere else;
* a recovery removes both partitions and gives `C:` back all of its space; a process ends;
* the window shows what the threads do, always lets the user back in, and never leaves threads behind;
* a caller gets all of a command's output, comes back, and no two threads wait for each other's commands;
* an image inside a `.wim` file never gets what belongs to another, or the remains of a deleted mount;
* files and boot entries agree: what a success makes the default is there, and is that image;
* a copy that reports success boots, and `ISOBOOTHASH` describes what is on the data partition;
* the user's own boot entries survive any number of runs and recoveries; the menu boots what it says.

## 2. Modules

| Module | What it is |
|---|---|
| `Partitions.tla` | the disk, the volumes, `validateAndPrepare`, `createPartition`, the recovery; crashes, restarts, other volumes |
| `MCPartitions.tla` | its instances for TLC: Windows' ESP, a data volume, a stick; the numbers diskpart lists |
| `PartitionsProofs.tla` | proofs: what letters and numbers lead to, whose volumes are touched, one ISOBOOT, the right data drive, Recover deletes both |
| `PartitionsTypes.tla` | proofs: types, and that Recover gives `C:` all of its space back |
| `IsoCopy.tla` | the files on ISOBOOT and ISOEFI and `ISOBOOTHASH`, run after run: `extractISOContents` and all it calls |
| `IsoCopyProofs.tla` | proofs: the record is truthful, a reported success boots, boot.wim on ISOEFI is a good one |
| `Bcd.tla` | the store of boot entries: `configureBCD` and `restoreBCD`, processes, recoveries and starts over one store |
| `MCBcd.tla` | its instances for TLC: a Windows and a Linux of the user's |
| `BcdProofs.tla` | proofs: types, the user's boot entries stay, the menu is truthful, a success is the default, a recovery is complete |
| `Machine.tla` | the composition: IsoCopy and Bcd over whole runs, `processInThread`, `recoverSpaceInThread`, starts, kills |
| `MCMachine.tla` | its instance for TLC |
| `MachineProofs.tla` | proofs: the machine's behaviours are behaviours of IsoCopy and of Bcd; files and entries agree |
| `WimService.tla` | abstract: what it means that a run services the images of boot.wim and install.wim |
| `WimSession.tla` | how that is done: dism's mounts, views, integrators, editions, over failing and killed runs; refines WimService |
| `MCWimSession.tla` | its instance for TLC: three images that differ in the layout of boot.wim |
| `WimProofs.tla` | proofs: which image is chosen, commits are whole, the refinement |
| `Commands.tla` | threads, pipes, inherited handles and external commands: how a command is run and its output read |
| `MCCommands.tla` | its instance for TLC: the calls that the worker and the recovery make |
| `CommandsProofs.tla` | proofs: types, whole output, return after the command, no pipe without a reader |
| `Shell.tla` | window, message boxes, worker, recovery and start-up threads, messages, cancellation, the end of the program |
| `ShellProofs.tla` | proofs: types, the window is enabled when it should be, recoveries are not refused, a busy window has an end, no thread outlives what it uses |

### Partitions

One step is one external command together with the code that decides it and reads its answer; between two steps
anything may happen that does in reality. State and code:

| Variable | Code |
|---|---|
| `c`, `tail` | the extent of `C:` and the pieces (partition or free) behind it up to where `C:` once ended |
| `listed` | per thread, what it keeps of its last `list volume`: the numbers, and which volumes there were |
| `vol` | every volume: label, file system, size, letter, whether it has a Windows boot manager, an image's EFI files, and `ISOBOOTHASH` line by line |
| `pc`, `ret` | where the worker and the recovery thread are; where `recoverSpace` returns to |
| `todo` | `volumesToDelete` (letters) |
| `req`, `had`, `drives` | format, mode and image asked for; `partitionExists`; `partitionDrive`, `espDrive` |
| `said` | what the log has announced about ISOEFI |

`StartProcess` is `ProcessController::startProcess`; `CountEfi`, `CheckExisting`, `HashCheck`,
`FindDataVolume`, `ReformatPartition`, `CheckDisk`, `DecideCreate`, `PerformDiskpartOperations`, `GetDrives`,
`FindEfiVolume`, `ReformatEfiPartition` and `CopyIsoContent` follow `validateAndPrepare` and `createPartition` in
their order; `EnumerateVolumes`, `ListVolumes`, `AssignLetter` (one volume each), `DeleteVolume` and `ExtendC`
are the recovery steps, for the Recover button's thread and as a subroutine of the worker. `DriveLetters`
returns the *possible* answers of a lookup together with the disk it leaves behind.

A volume number is read in one run of diskpart and used in a later one. It is kept as the volume it meant
together with the volumes that were there (`listed`). As long as the same volumes are there it means the same;
that is an assumption on diskpart, which numbers what it finds. Once a volume has come or gone it may mean any
volume, or none (`Selectable`). A format that fails has done nothing yet, or has left the volume RAW
(`HalfFormatted`).

Environment (`Env`): `faults` (any command may fail), `crash`, `reboot`, `mount` (another volume takes a
letter), `errors` (chkdsk finds errors on `C:`), `overlap` (Recover during a process). A restart in the middle
of a diskpart script is not among them: the disk's state then is Windows' to say.

Abstractions. Sizes are in MB and alignment is left out: diskpart gives what is asked. `SYSTEM` stands for the
labels SYSTEM, EFI and ESP. `Booted` is the set of volumes diskpart refuses (the running system's). The
integrity check's verdict is a choice. With `errors` it may lead to the repair (`pc` is "repair"), which no step
leaves: the code waits for it for ever (Commands), so that the restart and the verdict after it are not reached.
`LeadingFree` is diskpart's `extend`. A lookup of a letter, with the assignment it may make, is one step.
A Windows image may put a boot manager on ISOEFI (`WithEfiFiles`), which later runs take for Windows using it.
`ReadAs` and `Listed` depend on `Locale` as the two parsers do.

What is claimed of Partitions is claimed for the Spanish output of diskpart. In English the reformatter reads
the number one column late and the recovery finds no volume (`PartitionsEnglishFormat`). Of WimSession the
refinement and `CommittedIsWhole` hold in either language, but that a success has serviced the image which boots
holds in English alone (`WimSpanish`). So there is no one machine on which everything works: one that speaks
Spanish may boot an image without its start files, one that speaks English may lose a volume.

### IsoCopy

| Variable | Code |
|---|---|
| `data`, `esp` | the files on ISOBOOT and ISOEFI: the image each is from, whether it is whole, what was put into it |
| `hash` | the five lines of `ISOBOOTHASH` (the version: is it this program's) |
| `pc` | the next step of `extractISOContents`; `copied` once it has returned true |
| `job` | image, mode, format and drivers of this run |
| `skip`, `bootOk` | `skipCopy`, `bootWimSuccess` |

`StartCopy` is what the preparation does to the files: `KeepsData` decides on the format. `ExtractContent`,
`ExtractBootFiles`, `MountAndProcessWim`, `CopyBootWimToEsp`, `ProcessInstallWim`, `CopyInstall` and
`ExtractEfi` follow `extractISOContents` and `processBootWim` in their order, each with what it leaves behind
when it fails. `Recreate` stands for a recovery, and for partitions made anew.

Two functions called `readHashInfo` read the record. `HashVerifier`'s reads five lines, as many as are saved;
`ProcessService`'s knows nothing of the version and takes the mode for the format. Its comparison therefore
never holds (`NothingKept` in the proofs), every run formats ISOBOOT, and `skipCopy` is never true. This is what
makes the record trustworthy: with the format read from its own line (the mutant `ReadsFormat`) TLC finds two
runs with the same image, the second with other settings and cut short, and a record that still describes the
first. Whoever mends `readHashInfo` has to delete the record before copying.

Environment: `faults` (commands and file operations fail and say so), `silent` (files are skipped or incomplete,
or Programs and drivers not put in, and nobody is told: the 7-Zip callback answers every error with S_OK and
`mountAndProcessWim` ignores its integrators' results), `crash`, `update` (another version of the program).

Abstractions. What extracting all of an image writes beside boot and install images is one file, `content`.
Programs, drivers and everything else put into boot.wim are members of a set; the PECMD or startnet files are
`start`, and the image's own drivers (`CustomDrivers`), which the record does not mention, are left out. The
partitions are the right ones and a format formats (Partitions says when). `FormatAndFail` is a preparation that
formats ISOBOOT and then fails, or finds no letter for it; `Recreate` one that removes both. Servicing an image
is one step here, its start files are always written and an install image has one edition: WimSession takes that
step apart, with dism's mounts, and shows when it may be taken for one. The setup files, the marker and
bootmgfw.efi are left out: no result depends on them.

### WimSession, and WimService above it

| Variable | Code |
|---|---|
| `images` | the images inside `boot.wim` and `install.wim`: from which ISO image and of which index, whole or not, what was put into it |
| `mounted`, `view` | dism's register of mounts; what there is to see in the two mount directories |
| `temp` | the ISO images whose `CustomDrivers` are in the temporary directory, which has a fixed name |
| `job`, `index` | what this run was asked for; the image or edition at work |
| `pc` | the next step of `processBootWim` |

`SelectImage` to `UnmountBoot` are `mountAndProcessWim`, with the integrators in their order
(`IntegratePrograms`, `ExtractCustomDrivers`, `IntegrateCustomDrivers`, `IntegrateSystemDrivers`,
`ConfigureStart`, `ProcessIniFiles`); `ListEditions` to `UnmountEdition` are `processInstallWim`, edition by
edition. `MountWim` and `UnmountWim` are WimMounter's, with what dism does: it refuses a directory it has
registered, and a commit writes what is in the directory into whichever image is registered there. `Removed` is
`rd /s /q` on a directory in which something may still be mounted.

What one would fear is that a run which was killed leaves an image mounted, the next run deletes its files, puts
its own there and commits them. It does not happen: the mount of the next run is refused, and nothing is
committed after a refused mount (`CommittedIsWhole`; the mutant `Unheeded` shows that this rests on that one
check). The price is that every later run fails at the mount until somebody has dism forget it (`Cleanup`).

Environment: `faults` (dism and integrators fail), `unreadable` (`/Get-WimInfo` fails), `unwritten` (start files
cannot be written), `crash`, `cleanup`. Abstractions: Begin extracts whole images (IsoCopy says what else may
happen, and an image that is not whole is not mounted there); what text a start file contains is left out,
PECMD's lines are added once per processing; `.esd` is treated as `.wim`; which drivers `DriverIntegrator` picks
from the driver store by their names is left out. The branch of `processBootWim` without `copyInstallWim`, with
its choice of an edition by the user, is not reached: `copyISO` asks for the install image whenever it asks for
boot.wim.

WimService has two variables: the images, each fresh or changed once as a whole, and the phase of a run. The
refinement mapping takes an image whose content is not its own, or not whole, to a value outside of WimService's
types (`Seen`), so that `ServiceSpec` fails as soon as a step does that; and every `pc` between the two ends to
"busy" (`Phase`). Its fairness says that a run ends.

### Commands

One step is one system call. `writers[t]` is who can still write to the pipe that thread `t` reads: the
program's own end, the command of `t`, and every command that another thread started while the program's end was
open, since both ends are inheritable. `ReadFile` blocks until there is something to read or nobody is left to
write.

| Variable | Code |
|---|---|
| `pc`, `kind` | where the call of each thread is; of which kind: `exec` (`Utils::exec`), `script` (diskpart with a limit, in four copies), `assign` and `format` (not piped), `repair` (chkdsk /f) |
| `command` | the command it started: running, asking (chkdsk), hung, ended |
| `size`, `left`, `buffer`, `got` | what it prints, what is still to come, what is in the pipe, what was read |
| `writers`, `behind` | see above; commands that a caller has given up |

The limits on waiting (five minutes for diskpart and format) come after the read, so that for a piped command
they limit nothing; `ReturnsAfterCommand` is the good side of that, `LimitHolds` (violated) the bad one. The
dialogue with chkdsk keeps the program's own writing end open until after its last read, which therefore never
ends: nothing after it is ever executed. Environment: `fail`, `slow` (a limit expires), `hang`. Bounds:
`MaxChunks` reads, a pipe of `Capacity`.

### Machine

`Files` is IsoCopy and `Menu` is Bcd, each with its variables (`copy` is the pc of IsoCopy).
`ValidateAndPrepare` and `PrepareFails` are the preparation as far as files and entries can tell;
`CopyIsoContent` a step of IsoCopy; `ConfigureBoot` chooses the strategy as `ProcessService::configureBoot`
does, by the mode and by what `copyISO` has seen of the image; `BuildStep` a step of Bcd's worker.
`RecoverSpace` removes the files with the volumes, `RestoreStep` is restoreBCD on either thread, `Launch` a
start of the program, which kills what was running. `phase` is where `processInThread` is before it reaches Bcd.
A preparation that fails has touched nothing, has formatted ISOBOOT, or has removed both partitions, and may
have made them anew. `IsThere` says what an entry of the program finds when it is started: for the entry of
memory mode the image's own boot.wim, and a boot.wim that starts wherever `RamdiskBootStrategy` takes it from.
One task runs at a time; the overlaps are the business of Partitions, Bcd and Shell.

### Bcd

One step is one `bcdedit` command with the code that reads its answer. State and code:

| Variable | Code |
|---|---|
| `store` | every entry: its label, whether `bcdedit` prints it as a loader, and what it boots |
| `default`, `shown`, `timeout` | `{bootmgr}`: default, displayorder, timeout |
| `current` | `{current}`: the entry of the Windows that runs; `Launch` may change it to any that boots a Windows |
| `backup`, `parts` | `bootmgr_backup.ini` is there; ISOBOOT is there |
| `pc`, `todo`, `win` | per thread: the next command; the entries still to delete and the Windows entries, *as printed* |
| `guid`, `strategy` | the entry the worker made; the strategy it makes it for |

`Capture` to `FinalizeBCD` follow `BCDConfigurator::build` in its order; `FindEntries`, `DeleteOne`,
`ForgetBackup`, `ResetDefault` and `ResetTimeout` are `restoreBCD`, on the recovery's thread or on that of the
start-up; `RecoverSpace` is what `cleanBootThatISOEntries` removes before. `Prepare` and `StartRecovery` stand
for all that comes earlier.

Names are the heart of it. `bcdedit` prints the default entry as `{default}`, which the code remembers and uses
later, when it stands for whatever is the default *then* (`NameOf`, `Named`). Entries of the program are found
by the letters "isoboot" in their block: the entries of a Linux image ("Linux ISO Boot") never are.

`/copy {default}` makes an entry that the menu shows at once if it shows the original: that is how bcdedit is
known to behave, nothing in the repository says so. A process killed before `configureBCD` therefore leaves an
entry called ISOBOOT in the menu which is Windows still (`HalfMade`), and `LabelsTellTheTruth` has that
exception, for what is not the default.

Environment: `faults` (a command fails with the word the code looks for), `silent` (in other words), `crash`,
`astray` (the user starts Windows by such a half made entry, which then is `{current}`), `overlap` (Recover
beside a process, a process beside the start-up).

Abstractions. A GUID that was never used is any of `Id` that no entry has and no thread remembers.
`displayorder` is a set: only its members matter to the properties. An entry's settings are `boots`: nothing, a
Windows, the image; `{ramdiskoptions}`, the exported `BCD` on ISOEFI and `BCD.backup`, which nothing reads, are
left out. `cleanBootThatISOEntries` is one step: it spares every loader, so that there is hardly ever anything
to delete. Which EFI files are on ISOEFI is any set of machine types (IsoCopy says more of them).

### Shell

`boxes` is the stack of message boxes, each with the fact that it disabled the main window (`disabled`) and the
button that was clicked (`reply`); `inbox` holds what was posted to the window; `worker` is the phase of
`processInThread` or the messages it still has to post, or the repair, which has no end; `recovery` the steps
`recoverSpaceInThread` has left. Handlers that open a box end with it open. Any open box can be clicked
(`Answer`), whatever lies over it, and disappears; its handler goes on (`Confirm`, `Return`, ...) when no box
above is left, as `MessageBoxW` returns innermost first. Dispatch goes on underneath, as in a nested message
loop. `enabled` is the main window's state: an owned box disables it and restores it *if it was enabled*, the
recovery dialog disables and enables it outright. Joining (`Joined`, `Destroy`, `ExitProcess`) blocks the UI
thread. Static objects go in reverse order of construction (`DestroyStatics` before `ExitProcess`, which
destroys `mainWindow`).

Environment: `faults`, `repair` (chkdsk finds errors, and the user has them repaired), `behind` (the main window
used while an ownerless box is open), `overlap` (Recover beside a process), `spaceLost` (`C:` fills up between
the window's space check and `startProcess`'s), `slowInit` (the start-up thread takes its time). `-unattended`
needs none of them to be refused: `startProcess`'s checks are its first. What handlers still on the stack do
after "yes" to the close prompt, when the window is already gone, is not modelled.

## 3. Runs

Passing runs. Those of Bcd's properties that are not in `BcdFaults` are parts of Machine's.

| Run | Question | Bounds |
|---|---|---|
| `PartitionsSafe` | With faults, kills, other mounts and errors on the disk: the data drive is ISOBOOT, in the file system asked for and with no other image on it; nothing of others is touched | 2 images, 3 identities, 2 letters, 2 formats |
| `PartitionsEnds` | With faults, kills and errors: one ISOBOOT; every process ends, or waits for the repair | `C:` large enough for two whole scripts; 2 identities, 1 letter |
| `PartitionsRecover` | After kills, restarts and other mounts, no failing command: Recover removes everything and restores `C:` | 3 identities, 4 letters, ESP labelled SYSTEM |
| `ShellSafe` | Window, boxes, threads and messages agree, with and without a window, with recoveries beside processes, clicks behind boxes, a slow start-up and a repair that does not end | 2 boxes and messages before another click |
| `IsoCopySafe` | With failures aloud and in silence and kills: what the record names, what a success vouches for, what gets on ISOEFI | 5 images, one of each kind |
| `IsoCopyRecord` | With failures aloud, kills and updates: the record describes ISOBOOT | 4 images, 2 formats |
| `MachineSafe` | Files and entries together, over processes, recoveries and starts, killed anywhere or failing in their preparation: the menu boots what it says, a success boots its own image, a recovery leaves nothing | 2 setup images, 4 new identities |
| `BcdFaults` | All strategies, failures aloud and in silence, kills, Windows started from a half made entry: types, and the user's own entries stay | 3 new identities |
| `WimSafe` | With failures, lists that cannot be read, kills, mounts left behind: commits are whole, WimService is implemented | 3 ISO images, 2 images or editions per file |
| `CommandsSafe` | With commands that fail to start, are slow or hang: whole output, return after the command, no circle of waiting | 2 threads, 5 kinds of calls, 3 reads, a pipe of 1 |

What the runs leave out, because it does not hold there, and what shows it: in Partitions a recovery beside a
process (`PartitionsOverlap`, `PartitionsOverlapDelete`) and English (`PartitionsEnglishFormat`); in Bcd the
overlap (`BcdAlias`); in Shell the second space check that fails (`ShellStuck`); in Machine failing bcdedit
commands (when `/default {current}` fails, "Windows (System)" becomes a copy of an image's entry), Linux images
(`BcdLinux`, `MachineLinuxRam`), Windows started by a half made entry (`BcdAstray`). `SuccessBootsImage` has two
exceptions in its statement: in memory mode the boot.wim that is loaded may be one that an earlier image left on
ISOEFI (`IsoCopyStaleWim`), and an image that `copyISO` does not take for Windows need have none. That a
*default* entry always finds an image does not hold: the preparation formats first (`MachineDangling`).
`ServiceSpec` is checked with start files that can be written: their results are ignored, so that nothing could
be said of them otherwise.

The bounds: in `PartitionsSafe` and `PartitionsRecover` `Own` has three identities because two partitions are
made at a time and one more shows a third; in `PartitionsEnds` two suffice for a second ISOBOOT, and `C:` is
large enough for two scripts. `Room` keeps the disk in at most `MaxRegions` pieces, enough for a failed script's
remains followed by another script. `MaxPending` bounds what is open before another click: with two, a click
still comes on top of a box or a message, and what the threads post then opens boxes over that. The images of
IsoCopy differ in what they have: a setup image, a PE, Windows 7 (no EFI boot file), a Linux, one whose UDF part
cannot be read (it only looks like Windows) and one with an install image alone. Nothing in IsoCopy is bounded
otherwise: any number of runs follow each other. In Bcd a process takes two identities, one for the copy of
Windows and one for its own entry, and begins only while two are left (`Prepare`); the copies of Windows are
never deleted. The three of `BcdFaults` are two processes in a row, whatever comes between them, and the four of
`MachineSafe` two whose entries all stay, or three with deletions between them: a process meets what another,
finished or killed, has left. In Machine the strategy is known from the start of a process, which only joins
states that differ in a value not yet read; the copy may be killed but no single file fails. Its two images are
of the same kind, so that each has files that the other's entry could boot by mistake. The images of WimSession
are a Windows whose second boot image is named Setup and which has two editions, a PE with one image, PECMD,
Programs and drivers of its own, and an image with Setup first: every way in which `selectBestImageIndex`
decides. In Commands a pipe of one chunk makes a writer wait at each of three; two threads suffice for a circle.

Two runs end in a violation; each shows where a text of the repository and the code disagree, and a finding in
`PROJECT.json` quotes the text:

| Run | What TLC shows |
|---|---|
| `CommandsRepair` | chkdsk /f has ended and the thread that ran it waits for ever to read what the program itself could still write (`RepairIsJudged`; DiskIntegrityChecker.cpp:237 "always runs after process ends") |
| `PartitionsEsp` | a recovery killed between its deletions leaves ISOBOOT without ISOEFI; the next process takes the machine's own ESP for it and copies the image's EFI files there (`EspDriveIsOurs`; PartitionReformatter.cpp:354) |

More configurations of this kind are kept beside them. They are not in `PROJECT.json`, and each reproduces a
disagreement in the same way (`tlc -config X.cfg` on MCPartitions, Shell, IsoCopy, MCBcd, MCMachine,
MCWimSession or MCCommands; with `-continue` for those that have several rows). Where a row quotes no text, none says what should be:

| Configuration | Property | Text | What TLC shows |
|---|---|---|---|
| `PartitionsEnglishFormat` | `ForeignKept` | `README.md:35` | in English output the volume number is read one column late: another volume is formatted |
| `IsoCopyStaleWim` | `PeBootsFromData` | `BootWimProcessor.cpp:329` "point to data partition" | a PE put on after a setup image loads the setup's boot.wim from ISOEFI |
| `BcdAlias` | `UserEntriesKept` | `bcdmanager.cpp:417` "Don't delete {current}" | with a recovery beside a process, `/delete {default}` removes the entry of the Windows that runs |
| `PartitionsTexts` | `CachedRunSkipsFormat` | `README.md:40` "it skips formatting" | a second run with the same image, mode and format formats again |
| `PartitionsReused` | `EspReusedAsSaid` | `partitionmanager.cpp:211` "reused without modifications" | ISOEFI is formatted |
| `PartitionsTexts` | `EspPreservedAsSaid` | `RecoverySteps.cpp:32` "ISOEFI will be preserved" | it is deleted |
| `PartitionsSpace` | `ValidatedSpaceSuffices` | `SpaceManager.cpp:79` "al menos 10 GB" | 10 GB pass and do not suffice for 10600 MB |
| `PartitionsNoLetter` | `AtMostOneIsoEfi` | `partitionmanager.cpp:358` "if it doesn't exist" | an ISOEFI that gets no letter is made again |
| `PartitionsCount` | `DuplicatesOnly` | `ProcessService.cpp:27` "duplicate ISOEFI partitions" | Windows' ESP is counted too, everything is deleted |
| `PartitionsOverlap` | `AtMostOneIsoBoot` | | Recover beside a process, and its numbers are stale: a second ISOBOOT |
| `PartitionsOverlapDelete` | `ForeignKept` | `README.md:213` | Recover beside a process deletes by a letter that has changed hands |
| `ShellStuck` | `BusyHasAnEnd` | `mainwindow.cpp:730` "Disable button and start process" | a process refused by `startProcess` leaves the create button disabled for good |
| `ShellBehind` | `BusyIsShown` | | Create pressed behind a notice or a prompt: a second process joins the first, whose end turns `isProcessing` off under it |
| `ShellCancel` | `CancelIsAwaited` | `ProcessController.h:22` "wait for cleanup" | requestCancel does not wait |
| `ShellConsole` | `PrintedIsOver` | `main.cpp:254` "Process completed!" | printed before the process has begun |
| `IsoCopyTexts` | `SetupWimOnEsp` | `BootWimProcessor.cpp:318` "MUST be copied to ESP" | in memory mode boot.wim is processed before the install image is there: never copied |
| `IsoCopyTexts` | `InjectedDriversStay` | `BootWimProcessor.cpp:534` "critical for Windows Setup" | the install image is extracted again over the injected one |
| `IsoCopyTexts` | `BootFileIsOfImage` | `efimanager.cpp:400` "provided by the ISO" | an image without one passes with an earlier image's |
| `BcdAstray` | `LabelsTellTheTruth` | | Windows runs from a half made entry, which the next process deletes: the default is then copied and named by names that are gone |
| `BcdLinux` | `RecoverCleans` | `README.md:213` "revert the configuration" | the entry of a Linux image stays, as the default |
| `MachineDangling` | `DefaultIsAlwaysThere` | | a second process that is killed after its format leaves the first one's entry as the default, without its image |
| `MachineLinuxRam` | `EverySuccessIsThere` | | in memory mode the entry for any image loads boot.wim, and an image that has none is reported as a success |
| `WimSpanish` | `SuccessIsServiced` | `WimMounter.cpp:36` "works in any language" | in Spanish dism prints "Índice :": the list is taken for empty and the wrong image may be serviced |
| `WimEditions` | `EachEditionInjected` | `BootWimProcessor.cpp:512` "EACH edition" | an edition that fails is passed over and the process succeeds |
| `WimTemp` | `CustomDriversAreItsOwn` | | drivers that an interrupted run has extracted go into the next image's boot.wim |
| `CommandsEnglish` | `PromptIsAnswered` | `DiskIntegrityChecker.cpp:163` "Check if prompt is present" | a question that does not end in "(S/N)" is never answered |
| `CommandsLimit` | `LimitHolds` | `DiskpartExecutor.cpp:99` "5 minutes" | the limit comes after a read without one |
| `CommandsSlow` | `NothingLeftBehind` | | a format of ISOEFI that is given up goes on, while the process is reported as failed |

Fairness. Partitions: weak fairness of each thread's steps: a started thread is scheduled, and the command it
waits for ends. That is an assumption on the commands and not on their limits, which limit nothing (see
Commands). The repair is the exception, which no step leaves; `ProcessEnds` says so. Nothing is assumed of the
user, of crashes or of restarts. Shell: weak fairness of every thread's steps, but a worker in the repair has
none, and `ProgramEnds` excepts it: the destructor then waits for it for ever. Of the user nothing is assumed,
not even that a box is answered; once the program is to end (`quit`) Windows closes the boxes. Commands: weak
fairness of every thread's and every command's steps, save that a command may hang, in which case `CallsReturn`
promises nothing; nobody has to start another call. WimSession: weak fairness of the worker's step, on the same
ground as Partitions'; starts, kills and `Cleanup` are never obliged to happen.

IsoCopy, Bcd and Machine have safety properties only and assume no fairness. Deadlock is checked everywhere but
in `CommandsSafe`, where two threads may wait for commands that hang; Shell ends in `Over`, which is also where
a worker that never ends leaves it.

## 4. Proofs

Every invariant and action property that a passing run checks is also a theorem, for every value of the
constants that meets the assumption of its module (identities apart from each other, volumes of others with
letters of their own, no file system with the name of a mode; in Bcd, that none of the user's entries boots an
image of the program's: there was none before it; nothing about how many of anything there are). Further
hypotheses are stated with the theorem; most exclude parts of the environment (`Env`) or fix diskpart's
language, the others speak of the machine (its letters, the images), and where a hypothesis is known to be
necessary the configuration that shows it is named. A run has an environment that its theorem allows. What a
hypothesis excludes is excluded because the code does not guarantee the property there.

What is left to TLC alone is liveness: `ProcessEnds`, `ProgramEnds`, `CallsReturn` and the fairness in
`ServiceSpec`. Proving those takes ENABLED of every fair action, which the installed provers do not handle.

### Partitions

* `ForeignVolumesAreKept` (`ForeignKept`), for `Locale = "es"` and no overlap. `OInv` adds to the types (`LInv`):
  `Ours`, volumes of others have the names they came with, and letters of ours are ones that can be given away;
  `Control`, at most one thread at work and nothing in `todo` outside the recovery's loops; `Held`, a letter in
  `todo` leads to a volume of ours; `Numbers`, while a thread keeps numbers the volumes are those it listed, and
  what it looked for among them still has the label it was found by. `Held` and `Numbers` are what the overlap
  destroys, and `Ours` what the English parser does: the configurations `PartitionsOverlapDelete`,
  `PartitionsOverlap` and `PartitionsEnglishFormat` show both hypotheses necessary.
* `OneIsoBoot` (`AtMostOneIsoBoot`), under the same hypotheses. `Single(vol)` is inductive on top of `OInv`: by
  `Numbers` a format hits what has the label already, one command after it was found; and a script comes to an
  ISOBOOT only when `partitionExists` finds none.
* `DataDriveIsReady` (`DataDriveReady`), as `ForeignVolumesAreKept`. `CInv` adds to `OInv`: `Single`; `Hashes`,
  on volumes of ours ISOBOOTHASH is absent or as `saveHashInfo` writes it, so that what is read as the format is
  a mode; `Stage`, step by step: up to the script there is no ISOBOOT, when the drives are looked up there is
  none that is not blank and in the format asked for, and then `partitionDrive` leads to it. That a comparison
  of hashes never succeeds (`NeverTheSame`) is part of the argument, as in IsoCopy.
* `RecoveryDeletesBoth` (`RecoverCleans`), where moreover no command fails, the machine does not run from our
  partitions and there are as many letters as volumes. `RInv` adds to `OInv` `Doomed`: while a recovery assigns
  letters and deletes, each volume labelled ISOBOOT or ISOEFI has a letter, which is in `todo`, or is among the
  numbers still to be given one. `LettersSuffice` is a pigeonhole
  argument: were one of them left without a letter, the other volumes would carry all of them. The deletion is
  by letter, so the hypothesis is what the code needs; a failing command leaves the volume, as its log says.
* `RecoveryRestoresC` (`RecoverRestores`), where moreover `C:` is partition 3. `WInv` joins `RInv`, the
  accounting `SInv` and `Whole`: without failing commands a volume of ours has one of the two names or is not
  there, so that none is left with a region and no name to find it by. Then all regions are free when the
  extension comes.
* `TypesAreCorrect` (`TypeOK`), in every environment, by `TInv`: the types and what they rest on, the answers of
  the lookups (`Good`) among them.

`SInv` of PartitionsTypes says where the disk's space is: types, contiguity, and
`Placed`, each of our volumes has exactly one region, of its size, and a region that names a volume names one
that is there.

### IsoCopy

* `BootWimMatchesHash` (`HashNamesBootWim`), `SuccessIsBootable` (`CopiedIsBootable`) and `CopyTypes`, for every
  environment, by `IInv`: types; `Matching`, whatever is on ISOBOOT is of the recorded image and of the image at
  work; `Vouched`, what `bootWimSuccess` stands for after each step. `CopiedIsBootable` alone says nothing of
  the steps before the last.
* `EspWimIsGood` (`EspWimIsProcessed`), in every environment, by `EInv`: `IInv` and two facts about a run at
  work. An install image on ISOBOOT is the run's own (`OwnInstall`), which holds because a run begins with an
  empty ISOBOOT; and the steps up to the copy to ISOEFI are only reached with `bootWimSuccess` still on
  (`MountsVouched`). ISOEFI itself is never emptied.
* `RecordIsTruthful` (`HashTruthful`), if nothing fails in silence, by `RInv`: `IInv` and `Staged`, what is in
  `content` and in boot.wim at each step of a run. It begins with `NothingKept`, which rests on the assumption
  that no mode is the name of a format: the misread described above.

### Bcd

* `BcdTypes` (`TypeOK`): no hypothesis; what `{bootmgr}` lists or boots by default exists, since `/delete /f`
  takes the references along.
* `UsersEntriesStay` (`UserEntriesKept`), without overlap, whatever fails, by `BInv`: types; `OneBusy`, at most one
  thread is at work; `TodoOK`, a thread that deletes remembers only names of the program's entries, and
  `{default}` among them only while the default is not the user's. That last part is the argument: between the
  enumeration and the last deletion nobody else may set the default. With overlap it fails, as `BcdAlias` shows.
* `LabelsAreTrue`, `SuccessIsTheDefault` and, without Linux entries, `RecoveryLeavesNothing`
  (`LabelsTellTheTruth`, `SuccessBootsImage`, `RecoverCleans`), if `Killed`: commands do what they say, threads
  do not overlap and the user does not start Windows by a half made entry, while kills may come anywhere. `MInv`
  adds to `BInv`: `EntriesOK`, what entries of the program may be (`Made`), that `{current}` boots a Windows by
  an entry that is not the program's unfinished one, and that the default is truthful and what the menu shows
  truthful or half made; `WorkerOK`, what each step of the worker finds, in particular that the default is the
  running Windows from the capture to `/default`, so that the copy called "Windows (System)" is one; `ListsOK`,
  the names that threads keep still mean entries of the kind they were listed for; `RestoreOK`, a restoration
  misses no entry that mentions ISOBOOT. The three properties are not inductive one by one: the label of the
  copy depends on the default, the default on what the last process or recovery left behind when it was killed.
  Each hypothesis is necessary: `BcdLinux` shows it of Linux entries, `BcdAstray` of half made ones, and with
  failing commands the copy may be one of an image's entry (section 3).

### Machine

* `Composed`: `Spec => Files!Spec /\ Menu!Spec`, action by action. What is proved of IsoCopy and of Bcd for all
  behaviours therefore holds of the composition: MachineProofs instantiates IsoCopyProofs and BcdProofs (`FP`,
  `MP`) and takes their invariants from there. Bcd's is instantiated with the strategies that the images call
  for (`NeededStrategies`), which is what excludes Linux entries where every image is of Windows.
* `MachineTypes` (`TypeOK`), in every environment, by `PhasesOK`: the phase of the process, the copy's `pc` and
  the volumes go together, and no thread is at work on the entries before the copy has ended.
* `MenuTellsTheTruth` (`LabelsTellTheTruth`), if `Killed`, from `LabelsAreTrue`, with the same exception for half
  made entries.
* `SuccessIsBooted` (`SuccessBootsImage`), if moreover nothing of the copy fails in silence, for images of every
  kind. From IsoCopy it takes that the copy is bootable and whole and is of the image recorded, from Bcd that
  the entry is right. What it adds is `BuildsOnCopy`, the copy of the process's own image has succeeded and is
  still there while the entry is built; `StrategyOK`, the strategy is that of the image; and
  `CopyServesEntry`, what that strategy's entry looks for is among what the copy vouches for. The two cases in
  which the entry of memory mode does not find the image's boot.wim are excepted in the property, not assumed
  away: `IsoCopyStaleWim` and `MachineLinuxRam` show that they happen.
* `RecoveryCleansTheMachine` (`RecoverCleans`), if `Killed` and every image is of Windows (`AllDetected`), by
  `Removed`: between the removal of the volumes and the end of the recovery nobody makes new ones. `BcdLinux`
  shows why the images matter.

### Shell

* `ShellTypes` (`TypeOK`), in every environment.
* `RecoverIsNotRefused` (`RecoverNotRefused`), in every environment, by `RInv` of ShellProofs: while a recovery
  has steps left `isRecovering` is on, and its message is in `inbox` at most once and only after the last step,
  with the flag off.
* `WindowIsEnabledRight` (`WindowFollows`), in every environment, by `WInv`: `Tally`, the window is disabled
  once, by one box or by the recovery. "By one" is what makes the end of a box safe; that no box has disabled
  the window while a recovery runs is what makes its end safe, and it needs `RInv`: the message of a failed
  recovery meets `isRecovering` on.
* `ButtonComesBack` (`BusyHasAnEnd`), unless the second space check refuses (`ShellStuck` shows that), by
  `EndInv`, which also knows the worker's phases.
* `WorkerIsShown` (`BusyIsShown`, which no passing run checks), without clicks behind an ownerless box, by
  `BusyInv` on top of `WInv` and `RInv`: a prompt is the first box and comes before the process, "enable" is in
  the queue once and after the worker, and so `startProcess` never joins one. `ShellBehind` shows the hypothesis
  necessary.
* `NewInstanceStartsClean` (`NewProgramFindsThemGone`), in every environment, by `LastInv`: the message of success
  is posted when no step is left, and once WM_QUIT is posted no handler begins another recovery.
* `TasksHaveManagers` (`ThreadsHaveManagers`), in every environment, by `ExitInv` on top of `LastInv`: the
  destructor of ProcessController joins both threads before the statics go, and the one way out that joins
  nothing, WM_QUIT, is taken by a recovery that has succeeded. That a worker beside that recovery then outlives
  the managers is part of the statement: it is what the code does.

### Commands and WimSession

* `CommandTypes`, `CallersGetAllOutput`, `PipedCallsOutliveCommands`, `WritersHaveReaders`, for any threads,
  calls and environment, by `IInv` of CommandsProofs: types and `CallOK`, thread by thread. What was read, what
  is in the pipe and what is still to come add up to what the command prints; a piped command that lives holds
  its own pipe; a thread that rests or waits has an empty pipe that nobody can write to. A step of one thread
  leaves `CallOK` of the others alone although it hands out their pipes (`Untouched`): it only adds writers, and
  only while the program still holds that end.
* `WimTypes` and `CommitsAreWhole`, for any images, editions and environment, by `IInv` of WimProofs: types,
  `CommittedIsWhole`, `Positions` (between a mount that succeeded and its unmount dism's register holds this
  run's image, and the view is that image and whole) and `Fresh` (images not yet reached are as extracted).
* `ImplementsService`: `Spec => Service!Spec` under the refinement mapping, if start files can be written, and
  whether dism's list can be read or not. Which image gets them, `ChosenImage` says: one that the file has, and
  where the list was read one named as Setup if there is any. Each step that changes an image is a commit and
  maps to `Change`; that it is the first change rests on `Fresh`, and that a success is allowed (`Serviced`) on
  `Started`. The fairness half of `ServiceSpec` is model-checked.

## 5. What comes next

1. An abstract specification of the window ("busy" or "free") that Shell implements, and of the boot store (the
   user's entries, and at most one of the program's) that Bcd implements when nothing overlaps; `SuccessBootsImage`
   and `RecoverCleans` of Bcd are most of what the second needs.
2. A bound on the number of volumes of ours (two, without failing commands), with which the letters that
   `RecoveryDeletesBoth` asks for are two more than the volumes of others.
3. Functions over lines for the start files (`PecmdConfigurator`, `StartnetConfigurator`, `IniFileProcessor`):
   what happens to a file that is processed twice.

## 6. Not modelled

* `include/grubx64_efi.cpp`: 35145 lines that are one array of bytes, GRUB's program, which LinuxBootStrategy
  writes to ISOEFI. It has no behaviour, and it is two thirds of the lines under `src/src`; of the rest, about
  16300 lines, the map covers more than a third.
* `WindowsEditionSelector`, `EditionSelectorDialog`: not reached, see WimSession. `VolumeManager`,
  `PartitionDetector`: not compiled by either build. `ContentExtractor`, `ISOMounter`, `FileCopyManager`,
  `ISOTypeDetector`: built and not used on the way of an image.
* Texts: localization, logging, the wording of questions; painting, controls and layout of the window.
* Text in files: the lines of `startnet.cmd`, `pecmd.ini`, `grub.cfg` and `.ini` files. That a file is made,
  when, and what becomes of failing is in WimSession.
* Choices by names: which drivers of the driver store are storage drivers, which folders count as Programs.
* `third-party/`: 7-Zip, except for what ISOReader's callbacks make of its errors (`silent` in IsoCopy).
* The settings of a boot entry other than what it boots, `{ramdiskoptions}`, `BCD.backup`.
