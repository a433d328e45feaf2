------------------------------ MODULE Partitions ------------------------------
(***************************************************************************)
(* The life of the two partitions the program owns, ISOBOOT (data) and     *)
(* ISOEFI (EFI), on the system disk: ProcessService::validateAndPrepare,   *)
(* PartitionManager::createPartition and the recovery steps of             *)
(* SpaceManager::recoverSpace, over a disk that outlives the program.      *)
(*                                                                         *)
(* A step is one external command (a diskpart script, a mountvol) together *)
(* with the code that decides it and reads its answer.  The worker thread  *)
(* prepares and copies; the recovery thread recovers; the worker also      *)
(* calls the same recovery as a subroutine.                                *)
(***************************************************************************)
EXTENDS Integers, Sequences, FiniteSets

CONSTANTS
    Own,         \* identities that partitions created by the program may take
    Foreign,     \* volumes that were there before: Windows' ESP, other data
    ForeignVol,  \* what those volumes look like: [Foreign -> Volume]
    Letter,      \* the drive letters that can be assigned (Z down to D)
    Formats, Isos, Modes,   \* file systems, image digests and boot modes asked for
    Booted,      \* volumes diskpart refuses to delete or format: the running system's
    Locale,      \* the language of diskpart's output: "es" or "en"
    CInit, CUsed,           \* MB that C: spans at first, MB of it in use
    PartThreeIsC,           \* C: is the third partition of disk 0
    MaxRegions,             \* a bound on the pieces of the disk
    Env          \* what the environment may do: see EnvKinds

NoVol    == "no volume"
NoLetter == "no letter"
Vol      == Own \cup Foreign
Thread   == {"worker", "recovery"}

EnvKinds == {"faults",    \* a diskpart command may fail for no reason of ours
             "crash",     \* the program may be killed between two steps
             "reboot",    \* ... or the machine restarted at any time
             "mount",     \* another volume may be given a letter (a stick plugged in)
             "errors",    \* chkdsk may find errors on C:, and the user want them repaired
             "overlap"}   \* Recover may be pressed while a process runs

IsoBootMB  == 10000
IsoEfiMB   == 500         \* REQUIRED_EFI_SIZE_MB
MarginMB   == 100
ValidateMB == 10 * 1024   \* availableGB >= 10

OwnLabels == {"ISOBOOT", "ISOEFI"}
EspLabels == {"SYSTEM"}   \* stands for SYSTEM, EFI and ESP alike
Labels    == OwnLabels \cup EspLabels \cup {"other", "raw", "absent"}

Volume == [label : Labels, fs : Formats \cup {"FAT32", "none"}, mb : Nat,
           letter : Letter \cup {NoLetter, "fixed"},
           mgfw : BOOLEAN,    \* holds EFI\Microsoft\Boot\bootmgfw.efi
           iso  : BOOLEAN,    \* holds the EFI files of an image
           hash : Seq(Isos \cup Modes \cup Formats \cup {"version", "drivers"})]

\* A volume with nothing on it.
Fresh(L, fs, mb, l) == [label |-> L, fs |-> fs, mb |-> mb, letter |-> l,
                        mgfw |-> FALSE, iso |-> FALSE, hash |-> <<>>]

Absent == Fresh("absent", "none", 0, NoLetter)

ASSUME ConstantsAssumption ==
    /\ Own \cap Foreign = {} /\ NoVol \notin Own \cup Foreign
    /\ ForeignVol \in [Foreign -> Volume]
    /\ \A v \in Foreign : ForeignVol[v].label \in {"SYSTEM", "other"}
    /\ NoLetter \notin Letter /\ "fixed" \notin Letter
    /\ \A v, w \in Foreign : ForeignVol[v].letter = ForeignVol[w].letter
                                => v = w \/ ForeignVol[v].letter \notin Letter
    /\ Booted \subseteq Own \cup Foreign
    /\ Formats \cap (Modes \cup {NoVol}) = {}
    /\ Locale \in {"es", "en"} /\ PartThreeIsC \in BOOLEAN
    /\ MaxRegions \in Nat /\ CInit \in Nat /\ CUsed \in 0..CInit
    /\ Env \subseteq EnvKinds

Faulty == "faults" \in Env

VARIABLES
    c,       \* MB that C: spans
    tail,    \* the regions of the disk between C: and where it once ended
    vol,     \* every volume
    pc,      \* per thread, the next step
    ret,     \* per thread, where recoverSpace returns to
    todo,    \* per thread, volumesToDelete: the letters still to delete
    req,     \* the worker's request: image, format, mode
    had,     \* validateAndPrepare's local partitionExists
    drives,  \* partitionDrive and espDrive
    listed,  \* per thread, what it keeps of its last "list volume": see Unlisted
    said     \* what the log has promised about ISOEFI since the thread started

vars == <<c, tail, vol, pc, ret, todo, req, had, drives, listed, said>>

(***************************************************************************)
(* Looking volumes up by label and by letter.                              *)
(***************************************************************************)
Labelled(d, L)  == {v \in Vol : d[v].label = L}
WithLetter(d, l) == {v \in Vol : d[v].letter = l}
FreeLetters(d)  == Letter \ {d[v].letter : v \in Vol}

\* Mutant: only the volumes with a letter.
LetteredPartitionExists(d) == \E v \in Labelled(d, "ISOBOOT") : d[v].letter # NoLetter

\* VolumeManager::partitionExists: volumes with a letter, then the others.
PartitionExists(d) ==
    \/ \E v \in Labelled(d, "ISOBOOT") : d[v].letter # NoLetter
    \/ \E v \in Labelled(d, "ISOBOOT") : d[v].letter = NoLetter

\* VolumeManager::getPartitionDriveLetter: the possible answers, each with the
\* volumes as the call leaves them; a volume without a letter is given one.
DriveLetters(d, L) ==
    LET lettered == {v \in Labelled(d, L) : d[v].letter # NoLetter}
        bare     == Labelled(d, L) \ lettered
        given    == {[letter |-> l, d |-> [d EXCEPT ![v].letter = l]] :
                        v \in bare, l \in FreeLetters(d)}
        none     == {[letter |-> NoLetter, d |-> d]}
    IN  IF lettered # {} THEN {[letter |-> d[v].letter, d |-> d] : v \in lettered}
        ELSE IF given = {} \/ Faulty THEN given \cup none ELSE given

\* VolumeDetector::getEfiPartitionDriveLetter: ISOEFI, else a system label.
EspLetters(d) ==
    UNION {IF r.letter # NoLetter THEN {r} ELSE DriveLetters(r.d, "SYSTEM") :
                r \in DriveLetters(d, "ISOEFI")}

\* VolumeDetector::efiPartitionExists on one answer of EspLetters.
EfiExists(r) ==
    r.letter # NoLetter /\ \E v \in WithLetter(r.d, r.letter) : r.d[v].mb = IsoEfiMB

\* VolumeDetector::isWindowsUsingEfiPartition on one answer of EspLetters: the
\* labelled volume, or any mounted FAT32 one of a plausible size.
WindowsUsesEfi(r) ==
    \/ r.letter # NoLetter /\ \E v \in WithLetter(r.d, r.letter) : r.d[v].mgfw
    \/ \E v \in Vol : /\ r.d[v].letter # NoLetter
                      /\ r.d[v].mgfw /\ r.d[v].fs = "FAT32" /\ r.d[v].mb \in 100..1024

\* VolumeManager::countEfiPartitions.  The volumes with a letter are probed at
\* "X::\", a path that never answers, so only the others are counted.
CountEfiPartitions(d) ==
    Cardinality({v \in Labelled(d, "ISOEFI") \cup Labelled(d, "SYSTEM") :
                    d[v].letter = NoLetter})

\* SpaceManager::validateAvailableSpace
SpaceIsValid == c - CUsed >= ValidateMB

\* Between two commands a thread keeps volume numbers.  diskpart counts anew in
\* every run, so a number is kept here as the volume it meant, together with the
\* volumes that were there.
Unlisted == [present |-> {}, lines |-> {}]
Present(d) == {v \in Vol : d[v].label # "absent"}

\* What "select volume n" picks for thread t in d, when n was v's number: v, unless
\* volumes came or went since; then any volume, or none.
Selectable(t, d, v) ==
    IF listed[t].present = Present(d) THEN {v} ELSE Present(d) \cup {NoVol}

\* The volumes whose number the reformatter may take for that of v: the column is
\* that of "Volumen n"; on "Volume n" it starts one digit too late.
ReadAs(d, v) == IF Locale = "es" THEN {v} ELSE Present(d)

\* Mutant: label and file system swapped.
SwappedFormatted(d, v, fs, L) ==
    [d EXCEPT ![v] = Fresh(fs, L, d[v].mb, d[v].letter)]

\* diskpart's "format quick": a new label and file system, and nothing kept.
Formatted(d, v, fs, L) ==
    [d EXCEPT ![v] = Fresh(L, fs, d[v].mb, d[v].letter)]

\* The volumes after a format of v that did not come to its end: nothing was done
\* yet, or v is left without a file system.
HalfFormatted(d, v) ==
    {d} \cup {e \in {[d EXCEPT ![v] = Fresh("raw", "none", d[v].mb, d[v].letter)]} : Faulty}

Init ==
    /\ c = CInit /\ tail = <<>>
    /\ vol = [v \in Vol |-> IF v \in Foreign THEN ForeignVol[v] ELSE Absent]
    /\ pc = [t \in Thread |-> "idle"]
    /\ ret = [t \in Thread |-> "idle"]
    /\ todo = [t \in Thread |-> {}]
    /\ req \in [iso : Isos, fmt : Formats, mode : Modes]
    /\ had = FALSE
    /\ drives = [p |-> NoLetter, e |-> NoLetter]
    /\ listed = [t \in Thread |-> Unlisted]
    /\ said = [t \in Thread |-> {}]

(***************************************************************************)
(* The worker: startProcess, validateAndPrepare, copyIsoContent.           *)
(***************************************************************************)
Goto(t, l) == pc' = [pc EXCEPT ![t] = l]

\* Calling recoverSpace, to continue at l when it returns (it always succeeds).
Call(t, l) == /\ Goto(t, "enumerate")
              /\ ret' = [ret EXCEPT ![t] = l]

Alone  == "overlap" \in Env \/ \A t \in Thread : pc[t] = "idle"

\* The bounds: a process that is going to create partitions starts only while an
\* identity is left and the disk is not in too many pieces.  Where one is left for two
\* partitions the script is one that fails at the second: the runs without "faults"
\* have identities enough.
Room == Len(tail) <= MaxRegions /\ \E v \in Own : vol[v].label = "absent"

StartProcess ==
    /\ pc["worker"] = "idle" /\ Alone
    /\ PartitionExists(vol) \/ (SpaceIsValid /\ Room)
    /\ req' \in [iso : Isos, fmt : Formats, mode : Modes]
    /\ said' = [said EXCEPT !["worker"] = {}]
    /\ Goto("worker", "count")
    /\ UNCHANGED <<c, tail, vol, ret, todo, had, drives, listed>>

CountEfi ==
    /\ pc["worker"] = "count"
    /\ IF CountEfiPartitions(vol) > 1
       THEN Call("worker", "exists")
       ELSE Goto("worker", "exists") /\ UNCHANGED ret
    /\ UNCHANGED <<c, tail, vol, todo, req, had, drives, listed, said>>

\* partitionExists and efiPartitionExists, whose letter it assigns; the size
\* test that follows never fires, since the latter implies the right size.
CheckExisting ==
    /\ pc["worker"] = "exists"
    /\ had' = PartitionExists(vol)
    /\ \E r \in EspLetters(vol) : vol' = r.d
    /\ Goto("worker", IF had' THEN "hash" ELSE IF SpaceIsValid THEN "checks" ELSE "idle")
    /\ UNCHANGED <<c, tail, ret, todo, req, drives, listed, said>>

\* Mutant: the digest just computed is taken for the one stored.
AssumedHash(file) ==
    IF Len(file) < 5 THEN [hash |-> NoVol, mode |-> NoVol, format |-> NoVol]
    ELSE [hash |-> req.iso, mode |-> file[3], format |-> file[4]]

\* readHashInfo takes the lines of ISOBOOTHASH for hash, mode, format, drivers.
ReadHashInfo(file) ==
    IF Len(file) < 4 THEN [hash |-> NoVol, mode |-> NoVol, format |-> NoVol]
    ELSE [hash |-> file[1], mode |-> file[2], format |-> file[3]]

SameImage(existing) == existing.hash = req.iso /\ existing.format = req.fmt

HashCheck ==
    /\ pc["worker"] = "hash"
    /\ \E r \in DriveLetters(vol, "ISOBOOT") :
        /\ vol' = r.d
        /\ IF /\ r.letter # NoLetter
              /\ \E v \in WithLetter(r.d, r.letter) : SameImage(ReadHashInfo(r.d[v].hash))
           THEN Goto("worker", "drives")
           ELSE Goto("worker", "reformat")
    /\ UNCHANGED <<c, tail, ret, todo, req, had, drives, listed, said>>

\* "list volume", and the number on the line labelled L, to go on at l with it.
FindVolume(L, l) ==
    \/ \E v \in Labelled(vol, L) : \E w \in ReadAs(vol, v) :
            /\ listed' = [listed EXCEPT !["worker"] = [present |-> Present(vol), lines |-> {w}]]
            /\ Goto("worker", l)
    \/ /\ Faulty \/ Labelled(vol, L) = {}
       /\ Goto("worker", "idle") /\ UNCHANGED listed

FindDataVolume ==
    /\ pc["worker"] = "reformat"
    /\ FindVolume("ISOBOOT", "format")
    /\ UNCHANGED <<c, tail, vol, ret, todo, req, had, drives, said>>

\* "select volume n" and "format"; told that the volume is in use, PowerShell
\* formats by label.
ReformatPartition ==
    /\ pc["worker"] = "format"
    /\ \E n \in listed["worker"].lines : \E v \in Selectable("worker", vol, n) :
        \/ /\ v \notin Booted \cup {NoVol}
           /\ vol' = Formatted(vol, v, req.fmt, "ISOBOOT")
           /\ Goto("worker", "drives")
        \/ /\ v # NoVol /\ (Faulty \/ v \in Booted)
           /\ \E w \in Labelled(vol, "ISOBOOT") :
                \/ vol' = Formatted(vol, w, req.fmt, "ISOBOOT") /\ Goto("worker", "drives")
                \/ vol' \in HalfFormatted(vol, w) /\ Goto("worker", "idle")
        \/ /\ Faulty /\ v \notin Booted \cup {NoVol}
           /\ vol' \in HalfFormatted(vol, v) /\ Goto("worker", "idle")
        \/ /\ v \in Booted \cup {NoVol}
           /\ Goto("worker", "idle") /\ UNCHANGED vol
    /\ listed' = [listed EXCEPT !["worker"] = Unlisted]
    /\ UNCHANGED <<c, tail, ret, todo, req, had, drives, said>>

\* What follows performDiskIntegrityCheck: with errors on the disk the user may
\* refuse, or have them repaired, and the repair never comes back (see Commands):
\* the restart and the verdict that the code has after it are not reached.
AfterIntegrityCheck ==
    {"decide"} \cup {l \in {"idle"} : Faulty \/ "errors" \in Env}
               \cup {l \in {"repair"} : "errors" \in Env}

\* ... and isDiskGpt, of a disk that is: it may fail to ask or to understand.
GptVerdicts == {TRUE} \cup {gpt \in {FALSE} : Faulty}

\* createPartition, steps 0 to 2.
CheckDisk ==
    /\ pc["worker"] = "checks"
    /\ \E r \in EspLetters(vol) :
        /\ vol' = r.d
        /\ said' = IF EfiExists(r) /\ WindowsUsesEfi(r)
                   THEN [said EXCEPT !["worker"] = @ \cup {"espReused"}] ELSE said
    /\ \E l \in AfterIntegrityCheck, gpt \in GptVerdicts :
            Goto("worker", IF l = "decide" /\ ~gpt THEN "idle" ELSE l)
    /\ UNCHANGED <<c, tail, ret, todo, req, had, drives, listed>>

\* createPartition, step 3.
DecideCreate ==
    /\ pc["worker"] = "decide"
    /\ \E r \in EspLetters(vol) :
        /\ vol' = r.d
        /\ \/ PartitionExists(vol) /\ EfiExists(r) /\ Goto("worker", "drives") /\ UNCHANGED ret
           \/ /\ ~PartitionExists(vol) /\ EfiExists(r) /\ WindowsUsesEfi(r)
              /\ Goto("worker", "script") /\ UNCHANGED ret
           \/ /\ ~EfiExists(r) \/ (~PartitionExists(vol) /\ ~WindowsUsesEfi(r))
              /\ Call("worker", "script")
    /\ UNCHANGED <<c, tail, todo, req, had, drives, listed, said>>

\* A volume that the script has created (stage 1) or also formatted (stage 2).
Created(stage, L, fs, mb, l) ==
    IF stage = 2 THEN Fresh(L, fs, mb, l) ELSE Fresh("raw", "none", mb, l)

\* The volumes after a script that came to stage b with ISOBOOT, as volume v with
\* letter l, and to stage e with ISOEFI, as volume w.
Scripted(d, b, v, l, e, w) ==
    [d EXCEPT ![v] = IF b > 0 THEN Created(b, "ISOBOOT", req.fmt, IsoBootMB, l) ELSE @,
              ![w] = IF e > 0 THEN Created(e, "ISOEFI", "FAT32", IsoEfiMB, NoLetter) ELSE @]

\* What the script takes off C:, as regions: one for each partition it has to
\* make, whose volume is there from stage 1 on, and the margin.  C: now ends at "at".
Shrunk(newB, newE, b, v, e, w, at) ==
    LET atE == at + (IF newB THEN IsoBootMB ELSE 0)
        atM == atE + (IF newE THEN IsoEfiMB ELSE 0)
    IN  (IF newB THEN <<[v |-> IF b > 0 THEN v ELSE NoVol, at |-> at, mb |-> IsoBootMB]>>
                 ELSE <<>>)
        \o (IF newE THEN <<[v |-> IF e > 0 THEN w ELSE NoVol, at |-> atE, mb |-> IsoEfiMB]>>
                    ELSE <<>>)
        \o <<[v |-> NoVol, at |-> atM, mb |-> MarginMB]>>

Needed(newB, newE) ==
    (IF newB THEN IsoBootMB ELSE 0) + (IF newE THEN IsoEfiMB ELSE 0) + MarginMB

ScriptedTail(newB, newE, b, v, e, w) ==
    Shrunk(newB, newE, b, v, e, w, c - Needed(newB, newE)) \o tail

\* createPartition, steps 4 and 5, once C: was shrunk.  The script stops at its
\* first failing line: b and e say how far it came with each partition.  Windows
\* may give ISOBOOT a letter of its own.
RunScript(d, newB, newE) ==
    \E b, e \in 0..2, v, w \in Own, l \in FreeLetters(d) \cup {NoLetter} :
        LET all == (newB => b = 2) /\ (newE => e = 2)
        IN  /\ v # w
            /\ b > 0 => newB /\ d[v].label = "absent"
            /\ e > 0 => newE /\ (newB => b = 2) /\ d[w].label = "absent"
            /\ Faulty \/ all
            /\ vol' = Scripted(d, b, v, l, e, w)
            /\ tail' = ScriptedTail(newB, newE, b, v, e, w)
            /\ Goto("worker", IF all THEN "drives" ELSE "idle")

PerformDiskpartOperations ==
    /\ pc["worker"] = "script"
    /\ \E r \in DriveLetters(vol, "ISOEFI") :
       LET newB == ~PartitionExists(vol)
           newE == r.letter = NoLetter
       IN \/ /\ Faulty \/ c - CUsed < Needed(newB, newE)
             /\ vol' = r.d /\ Goto("worker", "idle") /\ UNCHANGED <<c, tail>>
          \/ /\ c - CUsed >= Needed(newB, newE)
             /\ c' = c - Needed(newB, newE)
             /\ RunScript(r.d, newB, newE)
    /\ UNCHANGED <<ret, todo, req, had, drives, listed, said>>

\* validateAndPrepare, from "Get drives" on; a full EFI volume is refused.
GetDrives ==
    /\ pc["worker"] = "drives"
    /\ \E p \in DriveLetters(vol, "ISOBOOT") :
        IF p.letter = NoLetter
        THEN vol' = p.d /\ Goto("worker", "idle") /\ UNCHANGED drives
        ELSE \E e \in EspLetters(p.d) :
            /\ vol' = e.d
            /\ IF e.letter = NoLetter
               THEN Goto("worker", "idle") /\ UNCHANGED drives
               ELSE /\ drives' = [p |-> p.letter, e |-> e.letter]
                    /\ \/ Goto("worker", IF had THEN "extract" ELSE "reformatEfi")
                       \/ /\ \E v \in WithLetter(e.d, e.letter) : e.d[v].iso \/ v \in Foreign
                          /\ Goto("worker", "idle")
    /\ UNCHANGED <<c, tail, ret, todo, req, had, listed, said>>

FindEfiVolume ==
    /\ pc["worker"] = "reformatEfi"
    /\ FindVolume("ISOEFI", "formatEfi")
    /\ UNCHANGED <<c, tail, vol, ret, todo, req, had, drives, said>>

\* "select volume n", "format" and "gpt attributes", which may fail by itself.
ReformatEfiPartition ==
    /\ pc["worker"] = "formatEfi"
    /\ \E n \in listed["worker"].lines : \E v \in Selectable("worker", vol, n) :
        \/ /\ v \notin Booted \cup {NoVol}
           /\ vol' = Formatted(vol, v, "FAT32", "ISOEFI")
           /\ Goto("worker", "extract") \/ (Faulty /\ Goto("worker", "idle"))
        \/ /\ Faulty /\ v \notin Booted \cup {NoVol}
           /\ vol' \in HalfFormatted(vol, v) /\ Goto("worker", "idle")
        \/ /\ v \in Booted \cup {NoVol}
           /\ Goto("worker", "idle") /\ UNCHANGED vol
    /\ listed' = [listed EXCEPT !["worker"] = Unlisted]
    /\ UNCHANGED <<c, tail, ret, todo, req, had, drives, said>>

\* What saveHashInfo writes.
HashFile == <<req.iso, "version", req.mode, req.fmt, "drivers">>

\* The EFI files of the image on e.  With a Windows image the machine's own boot
\* manager is copied there too.
WithEfiFiles(d, e, w) == [d EXCEPT ![e].iso = TRUE, ![e].mgfw = @ \/ w]

\* copyIsoContent on the two drives: the image's EFI files, then the hash.  It
\* may fail at any point, and does when a drive is gone.
CopyIsoContent ==
    /\ pc["worker"] = "extract"
    /\ Goto("worker", "idle")
    /\ \/ \E e \in WithLetter(vol, drives.e), w \in BOOLEAN :
            \/ vol' = WithEfiFiles(vol, e, w)
            \/ \E p \in WithLetter(vol, drives.p) :
                    vol' = [WithEfiFiles(vol, e, w) EXCEPT ![p].hash = HashFile]
       \/ UNCHANGED vol
    /\ UNCHANGED <<c, tail, ret, todo, req, had, drives, listed, said>>

(***************************************************************************)
(* SpaceManager::recoverSpace, on the thread of the Recover button or as a *)
(* call of the worker's.                                                   *)
(***************************************************************************)
StartRecover ==
    /\ pc["recovery"] = "idle" /\ Alone
    /\ Call("recovery", "idle")
    /\ said' = [said EXCEPT !["recovery"] = {}]
    /\ UNCHANGED <<c, tail, vol, todo, req, had, drives, listed>>

\* VolumeEnumerator, first of all: does Windows use ISOEFI?  Only the log is told.
EnumerateVolumes(t) ==
    /\ pc[t] = "enumerate"
    /\ \E r \in EspLetters(vol) :
        /\ vol' = r.d
        /\ said' = IF WindowsUsesEfi(r) THEN [said EXCEPT ![t] = @ \cup {"espPreserved"}] ELSE said
    /\ Goto(t, "list")
    /\ UNCHANGED <<c, tail, ret, todo, req, had, drives, listed>>

\* Mutants: everything with a name on the disk; only what has a letter; only the
\* data volume.
ListedUnfiltered(d) == {v \in Vol : d[v].label \notin {"raw", "absent"}}
ListedLettered(d) == {v \in Vol : d[v].label \in OwnLabels /\ d[v].letter # NoLetter}
ListedDataOnly(d) == Labelled(d, "ISOBOOT")

\* The volumes VolumeEnumerator finds in the output of "list volume", whose
\* headings and words it looks for in Spanish only.
Listed(d) == IF Locale = "es" THEN Labelled(d, "ISOBOOT") \cup Labelled(d, "ISOEFI") ELSE {}

\* "list volume": the letters go to volumesToDelete, the volumes without one are
\* kept by their numbers.
ListVolumes(t) ==
    /\ pc[t] = "list"
    /\ \E found \in {Listed(vol)} \cup {S \in {{}} : Faulty} :
       LET bare == {v \in found : vol[v].letter = NoLetter}
       IN  /\ listed' = [listed EXCEPT ![t] = [present |-> Present(vol), lines |-> bare]]
           /\ todo' = [todo EXCEPT ![t] = {vol[v].letter : v \in found \ bare}]
           /\ Goto(t, IF bare = {} THEN "delete" ELSE "assign")
    /\ UNCHANGED <<c, tail, vol, ret, req, had, drives, said>>

\* "select volume n" and "assign letter", tried with one free letter after the other,
\* for the next volume without one; with none that works it is listed at " ".
AssignLetter(t) ==
    /\ pc[t] = "assign"
    /\ \E n \in listed[t].lines :
        /\ listed' = [listed EXCEPT ![t].lines = @ \ {n}]
        /\ Goto(t, IF listed[t].lines = {n} THEN "delete" ELSE "assign")
        /\ \/ \E v \in Selectable(t, vol, n) \ {NoVol}, l \in FreeLetters(vol) :
                /\ vol' = [vol EXCEPT ![v].letter = l]
                /\ todo' = [todo EXCEPT ![t] = @ \cup {l}]
           \/ /\ Faulty \/ FreeLetters(vol) = {} \/ NoVol \in Selectable(t, vol, n)
              /\ todo' = [todo EXCEPT ![t] = @ \cup {NoLetter}]
              /\ UNCHANGED vol
    /\ UNCHANGED <<c, tail, ret, req, had, drives, said>>

\* Mutant: a volume that got no letter is tried again.
RetryNextLetter(t, l) ==
    todo' = IF l = NoLetter THEN todo ELSE [todo EXCEPT ![t] = @ \ {l}]

NextLetter(t, l) == todo' = [todo EXCEPT ![t] = @ \ {l}]

\* VolumeDeleter: by letter.  diskpart refuses the volume the machine runs from
\* (Booted).  A failure is logged, no more.
DeleteVolume(t) ==
    /\ pc[t] = "delete"
    /\ \E l \in todo[t] :
        /\ NextLetter(t, l)
        /\ \/ \E v \in WithLetter(vol, l) \ Booted :
                /\ l # NoLetter
                /\ vol' = [vol EXCEPT ![v] = Absent]
                /\ tail' = [i \in DOMAIN tail |->
                              IF tail[i].v = v THEN [tail[i] EXCEPT !.v = NoVol] ELSE tail[i]]
           \/ /\ Faulty \/ l = NoLetter \/ WithLetter(vol, l) \ Booted = {}
              /\ UNCHANGED <<vol, tail>>
    /\ UNCHANGED <<c, pc, ret, req, had, drives, listed, said>>

\* The first n regions after C: are free, and no more than those.
LeadingFree(n) == /\ \A i \in 1..n : tail[i].v = NoVol
                  /\ n < Len(tail) => tail[n + 1].v # NoVol

\* PartitionResizer, which takes partition 3 for C:, and the return.  (The
\* cleaning of the boot entries that comes last is in another store.)
ExtendC(t) ==
    /\ pc[t] = "delete" /\ todo[t] = {}
    /\ Goto(t, ret[t])
    /\ \/ /\ PartThreeIsC
          /\ \E n \in 0..Len(tail) :
                /\ LeadingFree(n)
                /\ c' = IF n = Len(tail) THEN CInit ELSE tail[n + 1].at
                /\ tail' = SubSeq(tail, n + 1, Len(tail))
       \/ (Faulty \/ ~PartThreeIsC) /\ UNCHANGED <<c, tail>>
    /\ UNCHANGED <<vol, ret, todo, req, had, drives, listed, said>>

(***************************************************************************)
(* The environment.                                                        *)
(***************************************************************************)
\* The program is killed between two commands: its locals go, the disk stays.
Stopped ==
    /\ pc' = [t \in Thread |-> "idle"] /\ ret' = [t \in Thread |-> "idle"]
    /\ todo' = [t \in Thread |-> {}]  /\ said' = [t \in Thread |-> {}]
    /\ had' = FALSE /\ drives' = [p |-> NoLetter, e |-> NoLetter]
    /\ listed' = [t \in Thread |-> Unlisted]

Crash ==
    /\ "crash" \in Env
    /\ \E t \in Thread : pc[t] # "idle"
    /\ Stopped
    /\ UNCHANGED <<c, tail, vol, req>>

\* A restart; letters given to EFI system partitions do not outlive it.
Reboot ==
    /\ "reboot" \in Env
    /\ Stopped
    /\ vol' = [v \in Vol |-> IF vol[v].label \in {"ISOEFI", "SYSTEM"}
                             THEN [vol[v] EXCEPT !.letter = NoLetter] ELSE vol[v]]
    /\ UNCHANGED <<c, tail, req>>

Mount ==
    /\ "mount" \in Env
    /\ \E v \in Foreign, l \in FreeLetters(vol) :
        vol[v].letter = NoLetter /\ vol' = [vol EXCEPT ![v].letter = l]
    /\ UNCHANGED <<c, tail, pc, ret, todo, req, had, drives, listed, said>>

WorkerStep ==
    \/ CountEfi \/ CheckExisting \/ HashCheck \/ FindDataVolume \/ ReformatPartition
    \/ CheckDisk \/ DecideCreate \/ PerformDiskpartOperations
    \/ GetDrives \/ FindEfiVolume \/ ReformatEfiPartition \/ CopyIsoContent

RecoverStep(t) ==
    \/ EnumerateVolumes(t) \/ ListVolumes(t) \/ AssignLetter(t)
    \/ DeleteVolume(t) \/ ExtendC(t)

Next ==
    \/ StartProcess \/ WorkerStep
    \/ StartRecover \/ \E t \in Thread : RecoverStep(t)
    \/ Crash \/ Reboot \/ Mount

Spec == Init /\ [][Next]_vars

\* A started thread is scheduled: every command it waits for returns, but for the
\* repair, which no step leaves.
Fairness == WF_vars(WorkerStep) /\ \A t \in Thread : WF_vars(RecoverStep(t))
FairSpec == Spec /\ Fairness

-----------------------------------------------------------------------------
(***************************************************************************)
(* Properties.                                                             *)
(***************************************************************************)
PcValues == {"idle", "count", "exists", "hash", "reformat", "format", "checks", "repair",
             "decide", "script", "drives", "reformatEfi", "formatEfi", "extract",
             "enumerate", "list", "assign", "delete"}

\* Every variable keeps to the values the code can give it.
TypeOK ==
    /\ c \in Nat
    /\ tail \in Seq([v : Vol \cup {NoVol}, at : Nat, mb : Nat])
    /\ vol \in [Vol -> Volume]
    /\ pc \in [Thread -> PcValues]
    /\ ret \in [Thread -> {"idle", "exists", "script"}]
    /\ todo \in [Thread -> SUBSET (Letter \cup {NoLetter, "fixed"})]
    /\ req \in [iso : Isos, fmt : Formats, mode : Modes]
    /\ had \in BOOLEAN
    /\ drives \in [p : Letter \cup {NoLetter, "fixed"}, e : Letter \cup {NoLetter, "fixed"}]
    /\ listed \in [Thread -> [present : SUBSET Vol, lines : SUBSET Vol]]
    /\ said \in [Thread -> SUBSET {"espReused", "espPreserved"}]

\* However a script fails and whenever the program is killed, partitionExists
\* looks at volumes with and without a letter, so no second ISOBOOT is made.
AtMostOneIsoBoot == Cardinality(Labelled(vol, "ISOBOOT")) <= 1

\* No step of the program deletes or formats a volume it did not create: what
\* "delete volume" and "format" select is always a volume of ours.
ForeignKept ==
    [][\A v \in Foreign : /\ vol'[v].label = vol[v].label
                          /\ vol'[v].fs = vol[v].fs]_vars

\* When the image is about to be copied, the drive chosen for its content is
\* ISOBOOT, in the file system asked for, and with no other image's content.
DataDriveReady ==
    pc["worker"] = "extract" =>
        \E v \in WithLetter(vol, drives.p) :
            /\ vol[v].label = "ISOBOOT" /\ vol[v].fs = req.fmt
            /\ vol[v].hash # <<>> => vol[v].hash[1] = req.iso

\* When the image's EFI files are about to be copied, they go to ISOEFI: "The
\* ISOEFI partition should be separate from Windows system EFI partition".
EspDriveIsOurs ==
    pc["worker"] = "extract" =>
        \E v \in WithLetter(vol, drives.e) : v \in Own /\ vol[v].label = "ISOEFI"

\* The recovery of the Recover button ends with both partitions gone.
RecoveryEnds == ExtendC("recovery")
RecoverCleans ==
    [][RecoveryEnds => Labelled(vol', "ISOBOOT") \cup Labelled(vol', "ISOEFI") = {}]_vars

\* ... and C: as it was before the program first ran.
RecoverRestores == [][RecoveryEnds => c' = CInit]_vars

\* Every process and every recovery comes to its end, with one exception: the repair
\* of a disk with errors, which the code waits for in vain.
ProcessEnds == \A t \in Thread : pc[t] # "idle" ~> pc[t] \in {"idle", "repair"}

(***************************************************************************)
(* What the repository says of itself, and the code does not do.           *)
(***************************************************************************)
\* README: when the stored hash, mode and format match the selected image, the
\* process skips formatting.
CachedRunSkipsFormat ==
    [][pc["worker"] = "hash" /\ (\E v \in Labelled(vol, "ISOBOOT") : vol[v].hash = HashFile)
        => pc'["worker"] # "reformat"]_vars

\* VolumeEnumerator: Windows uses ISOEFI, "ISOEFI will be preserved".
EspPreservedAsSaid ==
    [][\A v \in Labelled(vol, "ISOEFI") :
        "espPreserved" \in said["recovery"] => vol'[v].label = "ISOEFI"]_vars

\* createPartition: ISOEFI "will be reused without modifications".
EspReusedAsSaid ==
    [][\A v \in Labelled(vol, "ISOEFI") :
        "espReused" \in said["worker"] /\ vol[v].mgfw => vol'[v].mgfw]_vars

\* validateAvailableSpace: what is validated is what the partitions need.
ValidatedSpaceSuffices ==
    pc["worker"] = "script" /\ Labelled(vol, "ISOBOOT") \cup Labelled(vol, "ISOEFI") = {}
        => c - CUsed >= IsoBootMB + IsoEfiMB + MarginMB

\* validateAndPrepare: "Check for duplicate ISOEFI partitions", and only then
\* delete everything.
DuplicatesOnly ==
    [][pc["worker"] = "count" /\ pc'["worker"] = "enumerate"
        => Cardinality(Labelled(vol, "ISOEFI")) > 1]_vars

\* createPartition, step 4: "Create ISOEFI if it doesn't exist".
AtMostOneIsoEfi == Cardinality(Labelled(vol, "ISOEFI")) <= 1
=============================================================================
