------------------------------ MODULE IsoCopy ------------------------------
(***************************************************************************)
(* What the program puts on its two partitions: ProcessService::copyISO,   *)
(* ISOCopyManager::extractISOContents, BootWimProcessor and EFIManager's   *)
(* extractEFI, run after run, on what the preparation of each run leaves   *)
(* of the last one's files.  A run may fail at any file, or be killed.     *)
(*                                                                         *)
(* A file is told apart by the image it comes from, by being whole and by  *)
(* what was put into it. What extracting all of an image writes beside the *)
(* boot and install images is one file, "content", as is the copy of the   *)
(* whole image that stands in for it. Left out are the files that no step  *)
(* looks at and that no result depends on: the setup files that follow the *)
(* install image, the image's own drivers (CustomDrivers), which the       *)
(* record does not mention, the marker and bootmgfw.efi on ISOEFI.         *)
(***************************************************************************)
EXTENDS Naturals

CONSTANTS
    Isos,          \* the images
    WithBootWim,   \* those with sources/boot.wim,
    WithInstall,   \* ... with sources/install.wim or install.esd,
    WithSdi,       \* ... with boot/boot.sdi,
    WithPrograms,  \* ... with a Programs folder,
    WithBootFile,  \* ... with an EFI boot file (BOOTX64.EFI, BOOTIA32.EFI),
    LooksWindows,  \* ... that extractISOContents takes for Windows
    Formats,       \* the file systems the user may choose
    Env            \* what the environment may do: see EnvKinds

EnvKinds == {"faults",   \* a command or a file operation may fail
             "silent",   \* ... or do its work badly, unreported or only logged
             "crash",    \* the program may be killed between two steps
             "update"}   \* a newer version may be installed between two runs

Modes  == {"RAM", "EXTRACT"}
Work   == {"start",      \* the start files and .ini files are set up
           "Programs",   \* the Programs folder is in it
           "drivers"}    \* the storage drivers are in it
System == "system"       \* a file of the running Windows
None   == "none"

ASSUME ConstantsAssumption ==
    /\ WithBootWim \cup WithInstall \subseteq LooksWindows
    /\ LooksWindows \cup WithSdi \cup WithPrograms \cup WithBootFile \subseteq Isos
    /\ System \notin Isos /\ None \notin Isos
    /\ Formats \cap (Modes \cup {None}) = {}
    /\ Env \subseteq EnvKinds

Faulty == "faults" \in Env
Silent == "silent" \in Env

File == [iso : Isos \cup {System}, whole : BOOLEAN, with : SUBSET Work]

NoFile    == [iso |-> None, whole |-> FALSE, with |-> {}]
Fresh(i)  == [iso |-> i, whole |-> TRUE, with |-> {}]
Broken(i) == [iso |-> i, whole |-> FALSE, with |-> {}]

DataFiles == {"content", "boot.wim", "boot.sdi", "install"}
EspFiles  == {"boot.wim", "boot.sdi", "boot file"}

Empty(names) == [f \in names |-> NoFile]

\* The files that extracting all of an image writes.
Contents(i) == {f \in DataFiles : \/ f = "content"
                                  \/ f = "boot.wim" /\ i \in WithBootWim
                                  \/ f = "boot.sdi" /\ i \in WithSdi
                                  \/ f = "install" /\ i \in WithInstall}

\* What ISOBOOTHASH says; its version is the program's or, after an update, not.
Record == [iso : Isos, mode : Modes, fmt : Formats, drivers : BOOLEAN]

\* readHashInfo without a file to read: empty lines.
NoHash == [iso |-> None, mode |-> None, fmt |-> None, drivers |-> FALSE]

VARIABLES
    data,     \* the files on ISOBOOT
    esp,      \* the files on ISOEFI
    hash,     \* ISOBOOTHASH
    pc,       \* the next step of the run
    job,      \* what this run was asked for
    skip,     \* extractISOContents' skipCopy
    bootOk    \* ... and bootWimSuccess

vars == <<data, esp, hash, pc, job, skip, bootOk>>

Resting == pc \in {"idle", "copied"}

(***************************************************************************)
(* The decisions.                                                          *)
(***************************************************************************)
\* copyISO's own look at the image.
Detected(i) == i \in WithBootWim \cup WithInstall

ExtractsContent == job.mode = "EXTRACT" \/ ~Detected(job.iso)

\* extractISOContents' look: an image by its name, or sources and setup.exe.
Windows(i) == i \in LooksWindows

IntegratesPrograms ==
    job.mode = "RAM" /\ ~ExtractsContent /\ Windows(job.iso) /\ ~skip

\* HashVerifier::shouldSkipCopy, after the partition was prepared.
ShouldSkipCopy(r) == hash' = r

\* Mutant: the format is all that is compared.
FormatMatches(r) == hash # NoHash /\ hash.fmt = r.fmt

\* Mutant: the format is read from its own line.
ReadsFormat(r) == hash # NoHash /\ hash.iso = r.iso /\ hash.fmt = r.fmt

\* validateAndPrepare formats ISOBOOT unless this holds.  Its readHashInfo knows no
\* version line: what it takes for the format is the mode.
KeepsData(r) == hash # NoHash /\ hash.iso = r.iso /\ hash.mode = r.fmt

(***************************************************************************)
(* The steps.                                                              *)
(***************************************************************************)
Fail == pc' = "idle"

\* Recover, or an ISOEFI of the wrong size: both partitions are made anew.
Recreate ==
    /\ Resting
    /\ data' = Empty(DataFiles) /\ esp' = Empty(EspFiles) /\ hash' = NoHash
    /\ pc' = "idle"
    /\ UNCHANGED <<job, skip, bootOk>>

\* ISOBOOT is formatted, and the preparation fails after all: the format says so, or
\* there is no drive letter to be found.  ISOEFI stays as it was.
FormatAndFail ==
    /\ Resting
    /\ data' = Empty(DataFiles) /\ hash' = NoHash
    /\ Fail
    /\ UNCHANGED <<esp, job, skip, bootOk>>

\* ISOEFI is only formatted together with a new ISOBOOT (see Recreate), so that a boot.wim
\* there may leave less than the 100 MB that validateAndPrepare, after the format, wants.
StartCopy ==
    /\ Resting
    /\ \E r \in Record, updated \in BOOLEAN :
        /\ updated => "update" \in Env
        /\ IF KeepsData(r) THEN UNCHANGED <<data, hash>>
           ELSE data' = Empty(DataFiles) /\ hash' = NoHash
        /\ job' = r /\ skip' = (ShouldSkipCopy(r) /\ ~updated)
    /\ bootOk' = TRUE
    /\ \/ pc' = "content"
       \/ esp["boot.wim"] # NoFile /\ Fail
    /\ UNCHANGED esp

\* The 7-Zip callback skips a file that it cannot create, and nobody asks it for
\* the result of a file: both go unreported.
Extracted(i, broken, skipped) ==
    [f \in DataFiles |-> CASE f \in broken -> Broken(i)
                           [] f \in Contents(i) \ (broken \cup skipped) -> Fresh(i)
                           [] OTHER -> data[f]]

ExtractContent ==
    /\ pc = "content"
    /\ \/ /\ ExtractsContent /\ ~skip
          /\ \E broken, skipped \in SUBSET Contents(job.iso) :
                \/ /\ Silent \/ broken \cup skipped = {}
                   /\ data' = Extracted(job.iso, broken, skipped)
                   /\ pc' = "boot files"
                \/ /\ Faulty
                   /\ data' = Extracted(job.iso, broken, skipped) /\ Fail
                \/ \* the fallback: the image itself, as ubuntu.iso
                   /\ Faulty /\ ~Windows(job.iso)
                   /\ data' = [Extracted(job.iso, broken, skipped) EXCEPT
                                    !["content"] = Fresh(job.iso)]
                   /\ pc' = "boot files"
       \/ /\ ~ExtractsContent \/ skip
          /\ pc' = "boot files" /\ UNCHANGED data
    /\ UNCHANGED <<esp, hash, job, skip, bootOk>>

\* A file as a step leaves it, and what the step says of itself.
Done(f)   == [file |-> f, ok |-> TRUE]
Failed(f) == [file |-> f, ok |-> FALSE]

\* ISOReader::extractFile, on a file that is not there.
ExtractResults(i) ==
    {Done(Fresh(i))}
    \cup {r \in {Done(Broken(i)), Done(NoFile)} : Silent}
    \cup {r \in {Failed(Broken(i)), Failed(NoFile)} : Faulty}

BootWimResults ==
    IF data["boot.wim"] # NoFile THEN {Done(data["boot.wim"])}
    ELSE IF job.iso \in WithBootWim THEN ExtractResults(job.iso) ELSE {Failed(NoFile)}

\* boot.sdi from the image, else from the running system.
SdiResults ==
    IF data["boot.sdi"] # NoFile THEN {Done(data["boot.sdi"])}
    ELSE IF job.iso \in WithSdi THEN ExtractResults(job.iso)
    ELSE {Done(Fresh(System))} \cup {r \in {Failed(NoFile)} : Faulty}

\* Copying a file leaves the copy or, failing, the old one or none.
CopyResults(file, old) ==
    {r \in [file : {file, old, NoFile}, ok : BOOLEAN] :
        IF r.ok THEN r.file = file /\ file # NoFile
                ELSE r.file \in {old, NoFile} /\ (Faulty \/ file = NoFile)}

\* Both files are tried, whatever becomes of boot.wim.
BootFilesThen(next) ==
    /\ pc = "boot files" /\ Detected(job.iso)
    /\ \E wim \in BootWimResults, sdi \in SdiResults :
       \E copy \in CopyResults(sdi.file, esp["boot.sdi"]) :
        /\ data' = [data EXCEPT !["boot.wim"] = wim.file, !["boot.sdi"] = sdi.file]
        /\ esp' = [esp EXCEPT !["boot.sdi"] = IF sdi.ok THEN copy.file ELSE @]
        /\ bootOk' = (wim.ok /\ sdi.ok /\ copy.ok)
    /\ pc' = IF bootOk' THEN next ELSE "install"
    /\ UNCHANGED <<hash, job, skip>>

\* Mutant: boot.wim goes to ISOEFI together with boot.sdi.
CopyBootFilesAtOnce == BootFilesThen("copy boot.wim")

\* BootWimProcessor::extractBootFiles.
ExtractBootFiles == BootFilesThen("mount")

NoBootFiles ==
    /\ pc = "boot files" /\ ~Detected(job.iso)
    /\ pc' = "efi"
    /\ UNCHANGED <<data, esp, hash, job, skip, bootOk>>

\* WimMounter: a file that dism cannot read or has no index to offer is not mounted.
Mountable(f) == f # NoFile /\ f.whole

\* DriverIntegrator::integrateSystemDrivers: staged from the running Windows, all or none.
WithDrivers(f) == [f EXCEPT !.with = @ \cup {"drivers"}]

\* ProgramsIntegrator looks in the folder extracted before and then in the image.
ProgramsFound == data["content"].iso \in WithPrograms \/ job.iso \in WithPrograms

Integrations ==
    {w \in Work \ {"start"} : \/ w = "Programs" /\ IntegratesPrograms /\ ProgramsFound
                              \/ w = "drivers" /\ job.drivers}

\* mountAndProcessWim.  What it fails to integrate it only logs; an image that is
\* not committed stays as it was.
MountAndProcessWim ==
    /\ pc = "mount"
    /\ \/ /\ Mountable(data["boot.wim"])
          /\ \E done \in SUBSET Integrations :
                /\ Silent \/ done = Integrations
                /\ data' = [data EXCEPT !["boot.wim"].with = @ \cup {"start"} \cup done]
          /\ pc' = "copy boot.wim" /\ UNCHANGED bootOk
       \/ /\ Faulty \/ ~Mountable(data["boot.wim"])
          /\ bootOk' = FALSE /\ pc' = "install" /\ UNCHANGED data
    /\ UNCHANGED <<esp, hash, job, skip>>

\* copyBootWimToEspIfNeeded: an install image on ISOBOOT means Windows Setup.
CopyBootWimToEsp ==
    /\ pc = "copy boot.wim"
    /\ \E copy \in CopyResults(data["boot.wim"], esp["boot.wim"]) :
        esp' = IF data["install"] = NoFile THEN esp ELSE [esp EXCEPT !["boot.wim"] = copy.file]
    /\ pc' = "inject"
    /\ UNCHANGED <<data, hash, job, skip, bootOk>>

\* Mutant: drivers go into an install image that need not be there.
BlindProcessInstallWim ==
    /\ pc = "inject"
    /\ data' = [data EXCEPT !["install"] = WithDrivers(@)]
    /\ pc' = "install"
    /\ UNCHANGED <<esp, hash, job, skip, bootOk>>

\* processInstallWim, whatever the user asked about drivers; failing is not fatal.
ProcessInstallWim ==
    /\ pc = "inject"
    /\ \/ /\ Mountable(data["install"])
          /\ data' = [data EXCEPT !["install"] = WithDrivers(@)]
       \/ /\ Faulty \/ ~Mountable(data["install"])
          /\ UNCHANGED data
    /\ pc' = "install"
    /\ UNCHANGED <<esp, hash, job, skip, bootOk>>

\* The install image, extracted (again) and validated, deleted and extracted once
\* more if it is not valid; failing is not fatal.
InstallResults ==
    IF job.iso \in WithInstall
    THEN {Fresh(job.iso)} \cup {f \in {data["install"], Broken(job.iso), NoFile} : Faulty \/ Silent}
    ELSE {data["install"]}

CopyInstall ==
    /\ pc = "install"
    /\ \E f \in InstallResults : data' = [data EXCEPT !["install"] = f]
    /\ pc' = "efi"
    /\ UNCHANGED <<esp, hash, job, skip, bootOk>>

\* ISOReader::extractDirectory on the EFI folder: the old boot file stays if the image
\* has none or its own cannot be created.
EfiFolderResults ==
    IF job.iso \in WithBootFile
    THEN {Fresh(job.iso)} \cup {f \in {esp["boot file"], Broken(job.iso)} : Silent}
    ELSE {esp["boot file"]}

\* validateAndFixEFIFiles: Windows' own replaces a file that is no program (one that
\* is cut short may still look like one).
ValidatedAs(f) ==
    IF f # NoFile /\ ~f.whole THEN {f, Fresh(System)} \cup {g \in {NoFile} : Faulty} ELSE {f}

BootFileResults == UNION {ValidatedAs(f) : f \in EfiFolderResults}

\* ensureBootFileExists looks for nothing more.
BootFileExists(file) == file # NoFile

\* Mutant: the result of boot.wim is forgotten.
EfiAlone(file) == BootFileExists(file)

\* overallSuccess.
OverallSuccess(file) == BootFileExists(file) /\ bootOk

\* EFIManager::extractEFI, then the record if all went well.
ExtractEfi ==
    /\ pc = "efi"
    /\ \/ /\ \E file \in BootFileResults :
             /\ esp' = [esp EXCEPT !["boot file"] = file]
             /\ \/ /\ OverallSuccess(file)
                   /\ hash' \in {job} \cup {h \in {hash, NoHash} : Silent}
                   /\ pc' = "copied"
                \/ /\ ~OverallSuccess(file)
                   /\ Fail /\ UNCHANGED hash
       \/ /\ Faulty \/ job.iso \notin WithBootFile   \* there may be no EFI folder at all
          /\ \E file \in {esp["boot file"], Fresh(job.iso), Broken(job.iso)} :
                /\ file.iso = job.iso => job.iso \in WithBootFile \/ file = esp["boot file"]
                /\ esp' = [esp EXCEPT !["boot file"] = file]
          /\ Fail /\ UNCHANGED hash
    /\ UNCHANGED <<data, job, skip, bootOk>>

Crash ==
    /\ "crash" \in Env /\ ~Resting
    /\ Fail
    /\ UNCHANGED <<data, esp, hash, job, skip, bootOk>>

Init ==
    /\ data = Empty(DataFiles) /\ esp = Empty(EspFiles) /\ hash = NoHash
    /\ pc = "idle" /\ job \in Record /\ skip = FALSE /\ bootOk = TRUE

Next ==
    \/ Recreate \/ FormatAndFail \/ StartCopy
    \/ ExtractContent \/ ExtractBootFiles \/ NoBootFiles \/ MountAndProcessWim
    \/ CopyBootWimToEsp \/ ProcessInstallWim \/ CopyInstall \/ ExtractEfi
    \/ Crash

Spec == Init /\ [][Next]_vars

-----------------------------------------------------------------------------
(***************************************************************************)
(* Properties.                                                             *)
(***************************************************************************)
\* The types, for the variables of the copy and for the files on both partitions.
TypeOK ==
    /\ data \in [DataFiles -> File \cup {NoFile}]
    /\ esp \in [EspFiles -> File \cup {NoFile}]
    /\ hash \in Record \cup {NoHash} /\ job \in Record
    /\ pc \in {"idle", "content", "boot files", "mount", "copy boot.wim", "inject",
               "install", "efi", "copied"}
    /\ skip \in BOOLEAN /\ bootOk \in BOOLEAN

\* Whatever failed and whoever was killed: as long as ISOBOOTHASH names a Windows
\* image, the boot.wim on ISOBOOT is there and comes from that image.  It is on
\* the disk before the record and outlives later runs only if they are of the same image
\* (HashVerifier, validateAndPrepare, extractISOContents).
HashNamesBootWim ==
    hash # NoHash /\ Detected(hash.iso) =>
        data["boot.wim"] # NoFile /\ data["boot.wim"].iso = hash.iso

\* copyIsoContent returning true means that the machine can boot something: a boot
\* file and, for Windows, a whole boot.wim of this image with its start files, and a
\* boot.sdi on ISOEFI (extractISOContents' overallSuccess).
CopiedIsBootable ==
    pc = "copied" =>
        /\ esp["boot file"] # NoFile
        /\ Detected(job.iso) =>
            /\ data["boot.wim"] # NoFile /\ data["boot.wim"].iso = job.iso
            /\ data["boot.wim"].whole /\ "start" \in data["boot.wim"].with
            /\ esp["boot.sdi"] # NoFile

\* The boot.wim on ISOEFI is of an install image and was processed before it was
\* copied there, in any run before this one too (processBootWim's order).
EspWimIsProcessed ==
    esp["boot.wim"] # NoFile =>
        /\ esp["boot.wim"].iso \in WithInstall
        /\ "start" \in esp["boot.wim"].with /\ esp["boot.wim"].whole

\* The record describes what is on ISOBOOT, whatever failed before: all the content of
\* the image or none of it, and in a whole boot.wim the start files, the Programs of a
\* run in memory mode and the drivers if they were asked for, nothing else.  A copy may
\* be skipped on its word (HashVerifier::shouldSkipCopy).
HashTruthful ==
    hash # NoHash =>
        /\ data["content"] = IF hash.mode = "EXTRACT" \/ ~Detected(hash.iso)
                             THEN Fresh(hash.iso) ELSE NoFile
        /\ Detected(hash.iso) =>
            /\ data["boot.wim"].whole
            /\ "start" \in data["boot.wim"].with
            /\ "Programs" \in data["boot.wim"].with <=>
                  hash.mode = "RAM" /\ hash.iso \in WithPrograms
            /\ "drivers" \in data["boot.wim"].with <=> hash.drivers

(***************************************************************************)
(* What texts of the repository say; see the findings.                     *)
(***************************************************************************)
\* RamdiskBootStrategy::configureBCD: the boot.wim that the boot entry loads.
RamdiskWim == IF esp["boot.wim"] # NoFile THEN esp["boot.wim"] ELSE data["boot.wim"]

\* A PE stays on the data partition, "BCD will be configured to point to data partition
\* for boot.wim" (BootWimProcessor::copyBootWimToEspIfNeeded).
PeBootsFromData ==
    pc = "copied" /\ job.mode = "RAM" /\ job.iso \in WithBootWim \ WithInstall =>
        RamdiskWim = data["boot.wim"]

\* For an install image boot.wim MUST be copied to ISOEFI (BootWimProcessor).
SetupWimOnEsp ==
    pc = "copied" /\ job.iso \in WithBootWim \cap WithInstall =>
        esp["boot.wim"] # NoFile /\ esp["boot.wim"].iso = job.iso

\* The drivers put into the install image are there for Windows Setup to use: an
\* injection is never undone (BootWimProcessor::processInstallWim).
InjectedDriversStay ==
    [][data["install"] # NoFile /\ "drivers" \in data["install"].with =>
          \/ pc' = "content" \/ pc' = "idle"
          \/ data'["install"] # NoFile /\ "drivers" \in data'["install"].with]_vars

\* "EFI boot files should be provided by the ISO extraction process" (EFIManager).
BootFileIsOfImage ==
    pc = "copied" => esp["boot file"].iso = job.iso
=============================================================================
