------------------------------- MODULE WimSession -------------------------------
(***************************************************************************)
(* How boot.wim and install.wim are changed, run after run:                *)
(* BootWimProcessor::mountAndProcessWim and processInstallWim, WimMounter  *)
(* and what they put into the images (ProgramsIntegrator,                  *)
(* DriverIntegrator, PecmdConfigurator, StartnetConfigurator,              *)
(* IniFileProcessor).                                                      *)
(*                                                                         *)
(* dism keeps a register of what is mounted where, which outlives the      *)
(* program and the machine's restarts.  A step is one dism command or one  *)
(* integrator.                                                             *)
(***************************************************************************)
EXTENDS Naturals, Sequences

CONSTANTS
    Iso,         \* the ISO images
    Setup,       \* [Iso -> the images of boot.wim: is it named as Windows Setup?]
    Editions,    \* [Iso -> how many editions install.wim has, 0 if there is none]
    WithPrograms, WithCustom, WithIni, Pecmd,   \* the ISO images that have these
    MaxIndex,    \* a bound on the images of one file
    Locale,      \* dism's language: "Index : 1" is "en"
    Env          \* what may happen: see EnvKinds

EnvKinds == {"faults",     \* a dism command, or an integrator, fails
             "unreadable", \* /Get-WimInfo fails
             "unwritten",  \* a start file cannot be written
             "crash",      \* the program is killed, the machine restarted
             "cleanup"}    \* somebody has dism forget a mount, by hand

Dir     == {"boot", "install"}     \* the mount directory of either file
Unit    == Dir \X (1..MaxIndex)
NoUnit  == <<"none", 0>>

\* What is put into an image; the name of an ISO image stands for its CustomDrivers.
StartFiles == {"startnet.cmd", "pecmd.ini"}
Work == StartFiles \cup {"Programs", "some Programs", "drivers", ".ini files"} \cup Iso

\* What is in an image, or seen of it in its mount directory.
Image   == [iso : Iso, of : Unit, whole : BOOLEAN, work : SUBSET Work]
NoImage == [iso |-> "none", of |-> NoUnit, whole |-> FALSE, work |-> {}]
NoView  == NoImage

ASSUME WimAssumption ==
    /\ MaxIndex \in Nat /\ Env \subseteq EnvKinds /\ Locale \in {"en", "es"}
    /\ Iso \cap (StartFiles \cup {"none", "spoiled"}) = {}
    /\ Setup \in [Iso -> Seq(BOOLEAN)] /\ Editions \in [Iso -> 0..MaxIndex]
    /\ \A i \in Iso : Len(Setup[i]) \in 1..MaxIndex

VARIABLES
    images,   \* the images in the files on ISOBOOT
    mounted,  \* dism's register: [Dir -> the image mounted there]
    view,     \* what is in the mount directories
    temp,     \* the ISO images whose CustomDrivers are in the temporary directory
    job,      \* the ISO image, whether its files are extracted, Programs and drivers asked for
    index,    \* the image, or the edition, at work
    pc        \* the next step

vars == <<images, mounted, view, temp, job, index, pc>>

Jobs == [iso : Iso, extract : BOOLEAN, programs : BOOLEAN, drivers : BOOLEAN]

Faulty  == "faults" \in Env
Resting == pc \in {"idle", "done"}

Init ==
    /\ images = [u \in Unit |-> NoImage] /\ mounted = [d \in Dir |-> NoUnit]
    /\ view = [d \in Dir |-> NoView] /\ temp = {}
    /\ job \in Jobs /\ index = 1 /\ pc = "idle"

(***************************************************************************)
(* WimMounter.                                                             *)
(***************************************************************************)
\* parseWimInfo looks for "index :", which is "Índice :" in Spanish.
Parsed(infos) == {s \in infos : Locale = "en"} \cup
                 {<<>> : e \in {f \in {Env} : Locale = "es" \/ "unreadable" \in f}}

\* selectBestImageIndex
BestIndex(infos) ==
    IF \E k \in DOMAIN infos : infos[k]
    THEN CHOOSE k \in DOMAIN infos : infos[k] /\ \A l \in 1..(k - 1) : ~infos[l]
    ELSE IF Len(infos) >= 2 THEN 2 ELSE 1

\* Mutant: what is mounted there does not matter.
RemovedFrom(d) == [view EXCEPT ![d] = NoView]

\* rd /s /q on the mount directory, even if an image is mounted there.
Removed(d) == [view EXCEPT ![d] =
    IF mounted[d] = NoUnit THEN NoView ELSE [view[d] EXCEPT !.whole = FALSE, !.work = {}]]

\* mountWim: dism refuses a directory that it has registered.
MountWim(d, u, ok) ==
    IF ok THEN /\ mounted[d] = NoUnit
               /\ mounted' = [mounted EXCEPT ![d] = u]
               /\ view' = [view EXCEPT ![d] = images[u]]
          ELSE /\ Faulty \/ mounted[d] # NoUnit
               /\ view' = Removed(d) /\ UNCHANGED mounted

\* unmountWim with /Commit: what is in the directory becomes the image, whichever it is.
\* A commit that fails to unmount may have written all the same.
UnmountWim(d, ok) ==
    \/ /\ mounted[d] # NoUnit
       /\ \/ images' = [images EXCEPT ![mounted[d]] = view[d]]
          \/ ~ok /\ UNCHANGED images
       /\ IF ok THEN mounted' = [mounted EXCEPT ![d] = NoUnit] /\ view' = [view EXCEPT ![d] = NoView]
                ELSE Faulty /\ UNCHANGED <<mounted, view>>
    \/ mounted[d] = NoUnit /\ ~ok /\ UNCHANGED <<images, mounted, view>>

\* Mutant: the answer of a mount is not looked at.
Unheeded(ok) == TRUE

\* What a mount that fails does to the run.
Heeded(ok) == ok

(***************************************************************************)
(* A run.                                                                  *)
(***************************************************************************)
Goto(l) == pc' = l

\* validateAndPrepare has formatted ISOBOOT; the images are extracted.  There is an
\* install image only when all files are.
Begin ==
    /\ Resting /\ Goto("select")
    /\ job' \in Jobs
    /\ images' = [u \in Unit |->
          IF \/ u[1] = "boot" /\ u[2] \in DOMAIN Setup[job'.iso]
             \/ u[1] = "install" /\ job'.extract /\ u[2] <= Editions[job'.iso]
          THEN [iso |-> job'.iso, of |-> u, whole |-> TRUE, work |-> {}]
          ELSE NoImage]
    /\ UNCHANGED <<mounted, view, temp, index>>

\* mountAndProcessWim: the directory is cleaned and an image chosen.
SelectImage ==
    /\ pc = "select" /\ Goto("mount")
    /\ view' = Removed("boot")
    /\ \E infos \in Parsed({Setup[job.iso]}) : index' = BestIndex(infos)
    /\ UNCHANGED <<images, mounted, temp, job>>

MountBoot ==
    /\ pc = "mount"
    /\ \E ok \in BOOLEAN : /\ MountWim("boot", <<"boot", index>>, ok)
                           /\ Goto(IF Heeded(ok) THEN "programs" ELSE "failed")
    /\ UNCHANGED <<images, temp, job, index>>

\* What an integrator puts into the directory, mounted or not.
Put(d, w) == view' = [view EXCEPT ![d] =
    IF view[d] = NoView THEN NoView ELSE [view[d] EXCEPT !.work = view[d].work \cup w]]

\* integratePrograms: the folders on ISOBOOT, then the ISO image; its result is ignored,
\* and a copy that fails leaves what it has copied.
ProgramsResults ==
    IF job.programs /\ job.iso \in WithPrograms
    THEN {{"Programs"}} \cup {w \in {{}, {"some Programs"}} : Faulty} ELSE {{}}

IntegratePrograms ==
    /\ pc = "programs" /\ Goto("custom")
    /\ \E w \in ProgramsResults : Put("boot", w)
    /\ UNCHANGED <<images, mounted, temp, job, index>>

\* integrateCustomDrivers, from ISOBOOT, or from a temporary directory that is always
\* the same one and only removed when all went well; dism takes all that it finds.
\* (addDriversToImage tries a second time, /ForceUnsigned.)
ExtractCustomDrivers ==
    /\ pc = "custom"
    /\ \/ /\ job.iso \in WithCustom /\ ~job.extract
          /\ temp' = temp \cup {job.iso} /\ Goto("custom temp") /\ UNCHANGED view
       \/ /\ job.iso \in WithCustom /\ job.extract /\ Goto("drivers") /\ UNCHANGED temp
          /\ \E w \in {{job.iso}} \cup {v \in {{}} : Faulty} : Put("boot", w)
       \/ /\ job.iso \notin WithCustom /\ Goto("drivers") /\ UNCHANGED <<view, temp>>
       \/ /\ Faulty /\ job.iso \in WithCustom /\ ~job.extract   \* extractDirectory fails half-way
          /\ Goto("drivers") /\ temp' = temp \cup {job.iso} /\ UNCHANGED view
    /\ UNCHANGED <<images, mounted, job, index>>

IntegrateCustomDrivers ==
    /\ pc = "custom temp" /\ Goto("drivers")
    /\ \E w \in {temp} \cup {v \in {{}} : Faulty} : Put("boot", w)
    /\ temp' \in {{}} \cup {t \in {temp} : Faulty}
    /\ UNCHANGED <<images, mounted, job, index>>

\* integrateSystemDrivers: staged, added, and the staging directory removed.
IntegrateSystemDrivers ==
    /\ pc = "drivers" /\ Goto("start")
    /\ \E w \in IF job.drivers THEN {{"drivers"}} \cup {v \in {{}} : Faulty} ELSE {{}} : Put("boot", w)
    /\ UNCHANGED <<images, mounted, temp, job, index>>

\* configurePecmdForRamBoot, or createMinimalStartnet (startnet.cmd and the script that
\* it calls).  Their results are ignored.
StartResults ==
    {IF job.iso \in Pecmd THEN {"pecmd.ini"} ELSE {"startnet.cmd"}}
        \cup {w \in {{}} : "unwritten" \in Env}

ConfigureStart ==
    /\ pc = "start" /\ Goto("ini")
    /\ \E w \in StartResults : Put("boot", w)
    /\ UNCHANGED <<images, mounted, temp, job, index>>

\* processIniFiles: those in the image stay as they are, those of the ISO image's root
\* go by the temporary directory or, failing that, straight into the image.
ProcessIniFiles ==
    /\ pc = "ini" /\ Goto("unmount")
    /\ \E w \in IF job.iso \in WithIni THEN {{".ini files"}} \cup {v \in {{}} : Faulty} ELSE {{}} :
            Put("boot", w)
    /\ UNCHANGED <<images, mounted, temp, job, index>>

UnmountBoot ==
    /\ pc = "unmount"
    /\ \E ok \in BOOLEAN : UnmountWim("boot", ok) /\ Goto(IF ok THEN "install" ELSE "failed")
    /\ UNCHANGED <<temp, job, index>>

(***************************************************************************)
(* processInstallWim: every edition in turn; failing is not fatal.         *)
(***************************************************************************)
EditionsThere == IF job.extract THEN Editions[job.iso] ELSE 0

ListEditions ==
    /\ pc = "install"
    /\ \E n \in {Len(s) : s \in Parsed({[k \in 1..EditionsThere |-> TRUE]})} :
        IF n = 0 THEN Goto("finished") /\ UNCHANGED <<view, index>>
                 ELSE Goto("mount edition") /\ index' = 1 /\ view' = Removed("install")
    /\ UNCHANGED <<images, mounted, temp, job>>

\* Mutant: an edition that fails is tried again.
SameEdition == UNCHANGED index /\ Goto("mount edition")

NextEdition == IF index < EditionsThere THEN index' = index + 1 /\ Goto("mount edition")
                                        ELSE UNCHANGED index /\ Goto("finished")

MountEdition ==
    /\ pc = "mount edition"
    /\ \E ok \in BOOLEAN :
        /\ MountWim("install", <<"install", index>>, ok)
        /\ IF Heeded(ok) THEN Goto("inject") /\ UNCHANGED index ELSE NextEdition
    /\ UNCHANGED <<images, temp, job>>

InjectDrivers ==
    /\ pc = "inject" /\ Goto("unmount edition")
    /\ \E w \in {{"drivers"}} \cup {v \in {{}} : Faulty} : Put("install", w)
    /\ UNCHANGED <<images, mounted, temp, job, index>>

UnmountEdition ==
    /\ pc = "unmount edition"
    /\ \E ok \in BOOLEAN : UnmountWim("install", ok)
    /\ NextEdition
    /\ UNCHANGED <<temp, job>>

\* What processBootWim returns; of the install image it only logs the outcome.
Return ==
    /\ pc \in {"failed", "finished"} /\ Goto(IF pc = "finished" THEN "done" ELSE "idle")
    /\ UNCHANGED <<images, mounted, view, temp, job, index>>

(***************************************************************************)
(* The rest of the world.                                                  *)
(***************************************************************************)
\* Neither the register nor the directories are looked at by the next run.
Crash == /\ "crash" \in Env /\ ~Resting /\ Goto("idle")
         /\ UNCHANGED <<images, mounted, view, temp, job, index>>

Cleanup(d) == /\ "cleanup" \in Env /\ Resting /\ mounted[d] # NoUnit
              /\ mounted' = [mounted EXCEPT ![d] = NoUnit] /\ view' = [view EXCEPT ![d] = NoView]
              /\ UNCHANGED <<images, temp, job, index, pc>>

Step == \/ SelectImage \/ MountBoot \/ IntegratePrograms \/ ExtractCustomDrivers
        \/ IntegrateCustomDrivers \/ IntegrateSystemDrivers \/ ConfigureStart \/ ProcessIniFiles
        \/ UnmountBoot \/ ListEditions \/ MountEdition \/ InjectDrivers \/ UnmountEdition \/ Return

Next == Begin \/ Step \/ Crash \/ \E d \in Dir : Cleanup(d)

Spec == Init /\ [][Next]_vars

\* The worker goes on, and every dism command ends (see Commands).
FairSpec == Spec /\ WF_vars(Step)

-----------------------------------------------------------------------------
(***************************************************************************)
(* Properties.                                                             *)
(***************************************************************************)
PcValues == {"idle", "done", "select", "mount", "programs", "custom", "custom temp", "drivers",
             "start", "ini", "unmount", "install", "mount edition", "inject", "unmount edition", "failed",
             "finished"}

\* Every variable is what the code can make it; what is mounted can be seen.
TypeOK ==
    /\ images \in [Unit -> Image \cup {NoImage}]
    /\ mounted \in [Dir -> Unit \cup {NoUnit}] /\ view \in [Dir -> Image \cup {NoView}]
    /\ \A d \in Dir : mounted[d] # NoUnit => view[d] # NoView
    /\ temp \in SUBSET Iso /\ job \in Jobs /\ index \in 1..MaxIndex /\ pc \in PcValues

\* Whatever failed or was killed before, and whatever is still mounted: no image is
\* ever given another one's files, nor what "rd /s /q" has left of a mounted view
\* (mountWim's cleanupMountDirectory, unmountWim with /Commit).
CommittedIsWhole ==
    \A u \in Unit : images[u] # NoImage =>
        images[u].iso = job.iso /\ images[u].of = u /\ images[u].whole

\* All of it is what the rest of the program takes it for: images that are changed
\* once and as a whole, a success that means what it says, and runs that end.
Own(u) == [images[u] EXCEPT !.of = u, !.whole = TRUE]
Seen   == [u \in Unit |-> [iso  |-> IF images[u] \in {NoImage, Own(u)} THEN images[u].iso ELSE "spoiled",
                           work |-> images[u].work]]
Phase  == IF Resting THEN pc ELSE "busy"

Service == INSTANCE WimService WITH Start <- StartFiles, images <- Seen, phase <- Phase

ServiceSpec == Service!FairSpec

(***************************************************************************)
(* What the repository says of itself, and the code does not do.           *)
(***************************************************************************)
\* BootWimProcessor: "Inject drivers into EACH edition (index) of install.wim".
EachEditionInjected ==
    pc = "done" => \A k \in 1..EditionsThere : "drivers" \in images[<<"install", k>>].work

\* The CustomDrivers of an image go into that image's boot.wim.
CustomDriversAreItsOwn ==
    \A u \in Unit : images[u] # NoImage =>
        images[u].work \cap Iso \subseteq {images[u].iso}
=============================================================================
