------------------------------- MODULE WimProofs -------------------------------
(***************************************************************************)
(* Proofs about WimSession, for any images, editions and failures: which   *)
(* image is chosen, which one a commit writes, and that its steps are      *)
(* steps of WimService.                                                    *)
(***************************************************************************)
EXTENDS WimSession, WellFoundedInduction, TLAPS

\* The steps at which an image of boot.wim, or an edition, is mounted.
BootSteps    == {"programs", "custom", "custom temp", "drivers", "start", "ini", "unmount"}
EditionSteps == {"inject", "unmount edition"}
After        == {"install", "mount edition", "inject", "unmount edition", "finished", "done"}

Extracted(u) == \/ u[1] = "boot" /\ u[2] \in DOMAIN Setup[job.iso]
                \/ u[1] = "install" /\ u[2] <= EditionsThere

\* What is mounted at d is the image at work, and all of it is there to be seen.
AtWork(d) ==
    /\ mounted[d] = <<d, index>>
    /\ view[d].iso = job.iso /\ view[d].of = <<d, index>> /\ view[d].whole

Untouched(u) == images[u].work = {}

\* What the run needs to know of the machine at each step.
Positions ==
    /\ ~Resting => \A u \in Unit : Extracted(u) => images[u] # NoImage
    /\ pc = "mount" \/ pc \in BootSteps => index \in DOMAIN Setup[job.iso]
    /\ pc = "mount edition" \/ pc \in EditionSteps => index \in 1..EditionsThere
    /\ pc \in BootSteps => AtWork("boot")
    /\ pc \in EditionSteps => AtWork("install")

\* The images that are still as they were extracted.
Fresh ==
    /\ pc \in {"select", "mount"} \cup BootSteps => \A u \in Unit : Untouched(u)
    /\ pc = "install" => \A k \in 1..MaxIndex : Untouched(<<"install", k>>)
    /\ pc = "mount edition" \/ pc \in EditionSteps =>
           \A k \in index..MaxIndex : Untouched(<<"install", k>>)

IInv == TypeOK /\ CommittedIsWhole /\ Positions /\ Fresh

\* From its start files on, one image of boot.wim has them, and it stays so.
Started ==
    /\ pc \in {"ini", "unmount"} => view["boot"].work \cap StartFiles # {}
    /\ pc \in After => \E k \in 1..MaxIndex :
                            /\ images[<<"boot", k>>] # NoImage
                            /\ images[<<"boot", k>>].work \cap StartFiles # {}

SInv == IInv /\ Started

-----------------------------------------------------------------------------
(***************************************************************************)
(* The constants, and the choice of the image.                             *)
(***************************************************************************)
LEMMA Shapes ==
    /\ NoView \notin Image /\ NoUnit \notin Unit
    /\ \A d \in Dir, k \in 1..MaxIndex : <<d, k>> \in Unit
    /\ \A d \in Dir : d # "none"
BY DEF NoView, NoImage, Image, NoUnit, Unit, Dir

LEMMA Images ==
    ASSUME NEW i \in Iso
    PROVE  /\ DOMAIN Setup[i] = 1..Len(Setup[i]) /\ Len(Setup[i]) \in 1..MaxIndex
           /\ DOMAIN Setup[i] \subseteq 1..MaxIndex /\ 1 \in DOMAIN Setup[i]
           /\ Editions[i] \in 0..MaxIndex /\ i # "none"
BY WimAssumption DEF WimAssumption

\* selectBestImageIndex: the first image that is named as Setup, if there is one; and an
\* image of the file in any case, the first one where the list could not be read.
LEMMA ChosenImage ==
    ASSUME NEW i \in Iso
    PROVE  /\ BestIndex(Setup[i]) \in DOMAIN Setup[i]
           /\ \A k \in DOMAIN Setup[i] : Setup[i][k] => Setup[i][BestIndex(Setup[i])]
           /\ BestIndex(<<>>) = 1
<1>1. BestIndex(<<>>) = 1
  BY DEF BestIndex
<1>2. CASE \E k \in DOMAIN Setup[i] : Setup[i][k]
  <2>. DEFINE Named == {k \in DOMAIN Setup[i] : Setup[i][k]}
  <2>1. Named \subseteq Nat /\ Named # {}
    BY <1>2, Images
  <2>2. PICK k \in Named : \A l \in Named : <<l, k>> \notin OpToRel(<, Nat)
    <3>. HIDE DEF Named
    <3>. QED
      BY <2>1, WFMin, NatLessThanWellFounded, Zenon
  <2>3. \A l \in Named : ~(l < k)
    BY <2>1, <2>2, Zenon DEF OpToRel
  <2>4. k \in DOMAIN Setup[i] /\ Setup[i][k]
    BY <2>2
  <2>5. \A l \in 1..(k - 1) : l \in DOMAIN Setup[i] /\ l < k
    BY <2>4, Images
  <2>6. \A l \in 1..(k - 1) : ~Setup[i][l]
    BY <2>3, <2>5
  <2>. QED
    BY <1>1, <1>2, <2>4, <2>6 DEF BestIndex
<1>3. CASE ~\E k \in DOMAIN Setup[i] : Setup[i][k]
  <2>1. BestIndex(Setup[i]) = IF Len(Setup[i]) >= 2 THEN 2 ELSE 1
    BY <1>3 DEF BestIndex
  <2>. QED
    BY <1>1, <1>3, <2>1, Images, WimAssumption DEF WimAssumption
<1>. QED
  BY <1>2, <1>3

LEMMA ParsedIs ==
    ASSUME NEW S, NEW s \in Parsed(S)
    PROVE  s \in S \/ s = <<>>
BY DEF Parsed

(***************************************************************************)
(* What each operation does to the mount directories.                      *)
(***************************************************************************)
\* The part of TypeOK that the operations of WimMounter work on.
Mounts == /\ images \in [Unit -> Image \cup {NoImage}]
          /\ mounted \in [Dir -> Unit \cup {NoUnit}] /\ view \in [Dir -> Image \cup {NoView}]
          /\ \A d \in Dir : mounted[d] # NoUnit => view[d] # NoView

LEMMA RemovedKeeps ==
    ASSUME Mounts, NEW d \in Dir, view' = Removed(d), UNCHANGED <<images, mounted>>
    PROVE  Mounts' /\ \A e \in Dir \ {d} : view'[e] = view[e]
<1>1. ASSUME mounted[d] # NoUnit
      PROVE  [view[d] EXCEPT !.whole = FALSE, !.work = {}] \in Image
  <2>1. view[d] \in Image
    BY <1>1 DEF Mounts
  <2>. QED
    BY <2>1 DEF Image
<1>2. CASE mounted[d] = NoUnit
  BY <1>2 DEF Mounts, Removed
<1>3. CASE mounted[d] # NoUnit
  <2>. DEFINE v == [view[d] EXCEPT !.whole = FALSE, !.work = {}]
  <2>1. v \in Image /\ v # NoView
    BY <1>1, <1>3, Shapes
  <2>2. view' = [view EXCEPT ![d] = v]
    BY <1>3 DEF Removed, Mounts
  <2>. HIDE DEF v
  <2>. QED
    BY <2>1, <2>2 DEF Mounts
<1>. QED
  BY <1>2, <1>3

LEMMA MountKeeps ==
    ASSUME Mounts, NEW d \in Dir, NEW u \in Unit, images[u] # NoImage,
           NEW ok \in BOOLEAN, MountWim(d, u, ok), UNCHANGED images
    PROVE  /\ Mounts' /\ \A e \in Dir \ {d} : view'[e] = view[e] /\ mounted'[e] = mounted[e]
           /\ ok => mounted'[d] = u /\ view'[d] = images[u]
<1>1. CASE ok
  BY <1>1, Shapes DEF Mounts, MountWim, NoView
<1>2. CASE ~ok
  BY <1>2, RemovedKeeps DEF MountWim
<1>. QED
  BY <1>1, <1>2

\* A commit writes the image that is mounted and no other.
LEMMA UnmountKeeps ==
    ASSUME Mounts, NEW d \in Dir, NEW ok \in BOOLEAN, mounted[d] \in Unit, UnmountWim(d, ok)
    PROVE  /\ Mounts' /\ \A e \in Dir \ {d} : mounted'[e] = mounted[e] /\ view'[e] = view[e]
           /\ \A u \in Unit \ {mounted[d]} : images'[u] = images[u]
           /\ images'[mounted[d]] = view[d] \/ (~ok /\ images' = images)
           /\ images' = images \/ images' = [images EXCEPT ![mounted[d]] = view[d]]
           /\ ok => mounted'[d] = NoUnit
<1>1. mounted[d] # NoUnit /\ view[d] \in Image
  BY Shapes DEF Mounts
<1>. QED
  BY <1>1, Shapes DEF Mounts, UnmountWim, NoView, NoImage

LEMMA PutAdds ==
    ASSUME Mounts, NEW d \in Dir, NEW w \in SUBSET Work, Put(d, w), UNCHANGED <<images, mounted>>
    PROVE  /\ Mounts' /\ \A e \in Dir \ {d} : view'[e] = view[e]
           /\ view'[d].iso = view[d].iso /\ view'[d].of = view[d].of /\ view'[d].whole = view[d].whole
           /\ view[d] # NoView => view'[d].work = view[d].work \cup w
<1>1. CASE view[d] = NoView
  BY <1>1 DEF Mounts, Put
<1>2. CASE view[d] # NoView
  <2>. DEFINE v == [view[d] EXCEPT !.work = view[d].work \cup w]
  <2>1. view[d] \in Image
    BY <1>2 DEF Mounts
  <2>2. /\ v \in Image /\ v.iso = view[d].iso /\ v.of = view[d].of /\ v.whole = view[d].whole
        /\ v.work = view[d].work \cup w
    BY <2>1 DEF Image
  <2>3. view' = [view EXCEPT ![d] = v]
    BY <1>2 DEF Put, Mounts
  <2>. HIDE DEF v
  <2>. QED
    BY <2>2, <2>3, Shapes DEF Mounts
<1>. QED
  BY <1>1, <1>2

(***************************************************************************)
(* IInv is inductive: one lemma for each kind of step.                     *)
(***************************************************************************)
LEMMA InitOK == Init => IInv
<1>. SUFFICES ASSUME Init PROVE IInv
  OBVIOUS
<1>1. job \in Jobs /\ job.iso \in Iso
  BY DEF Init, Jobs
<1>2. 1 \in 1..MaxIndex
  BY <1>1, Images, WimAssumption DEF WimAssumption
<1>3. TypeOK
  BY <1>1, <1>2 DEF Init, TypeOK, PcValues
<1>. QED
  BY <1>3 DEF Init, IInv, CommittedIsWhole, Positions, Fresh, Resting, BootSteps, EditionSteps

LEMMA BeginOK == IInv /\ Begin => IInv'
<1>. SUFFICES ASSUME IInv, Begin PROVE IInv'
  OBVIOUS
<1>. DEFINE Has(u) == \/ u[1] = "boot" /\ u[2] \in DOMAIN Setup[job'.iso]
                      \/ u[1] = "install" /\ job'.extract /\ u[2] <= Editions[job'.iso]
            Img(u) == [iso |-> job'.iso, of |-> u, whole |-> TRUE, work |-> {}]
<1>1. job' \in Jobs /\ job'.iso \in Iso
  BY DEF Begin, Jobs
<1>2. images' = [u \in Unit |-> IF Has(u) THEN Img(u) ELSE NoImage]
  BY DEF Begin
<1>3. ASSUME NEW u \in Unit PROVE Img(u) \in Image /\ Img(u) # NoImage
  BY <1>1, <1>3, Images DEF Image, NoImage
<1>12. NoImage.work = {} /\ \A u \in Unit : /\ Img(u).work = {} /\ Img(u).of = u
                                            /\ Img(u).iso = job'.iso /\ Img(u).whole
  BY DEF NoImage
<1>4. pc' = "select" /\ UNCHANGED <<mounted, view, temp, index>>
  BY DEF Begin, Goto
<1>5. \A u \in Unit : images'[u] = (IF Has(u) THEN Img(u) ELSE NoImage)
  BY <1>2
<1>6. images' \in [Unit -> Image \cup {NoImage}]
  BY <1>2, <1>3
<1>7. TypeOK'
  BY <1>1, <1>4, <1>6 DEF IInv, TypeOK, PcValues
<1>. HIDE DEF Img
<1>8. CommittedIsWhole'
  BY <1>5, <1>12 DEF CommittedIsWhole
<1>9. ASSUME NEW u \in Unit, Extracted(u)' PROVE Has(u)
  <2>1. u[2] \in 1..MaxIndex /\ 0 \in Nat
    BY DEF Unit
  <2>. QED
    BY <1>9, <2>1, WimAssumption DEF Extracted, EditionsThere, WimAssumption
<1>10. Positions'
  BY <1>3, <1>4, <1>5, <1>9 DEF Positions, BootSteps, EditionSteps
<1>11. Fresh'
  <2>1. \A u \in Unit : images'[u].work = {}
    BY <1>5, <1>12
  <2>. QED
    BY <1>4, <2>1 DEF Fresh, Untouched, BootSteps, EditionSteps
<1>. QED
  BY <1>7, <1>8, <1>10, <1>11 DEF IInv

LEMMA SelectOK == IInv /\ SelectImage => IInv'
<1>. SUFFICES ASSUME IInv, SelectImage PROVE IInv'
  OBVIOUS
<1>1. job.iso \in Iso
  BY DEF IInv, TypeOK, Jobs
<1>2. index' \in DOMAIN Setup[job.iso]
  <2>1. PICK s \in Parsed({Setup[job.iso]}) : index' = BestIndex(s)
    BY DEF SelectImage
  <2>. QED
    BY <1>1, <2>1, ParsedIs, ChosenImage, Images
<1>3. /\ pc' = "mount" /\ UNCHANGED <<images, mounted, temp, job>>
      /\ view' = Removed("boot") /\ pc = "select"
  BY DEF SelectImage, Goto
<1>4. Mounts'
  BY <1>3, RemovedKeeps DEF IInv, TypeOK, Mounts, Dir
<1>5. TypeOK'
  BY <1>1, <1>2, <1>3, <1>4, Images DEF IInv, TypeOK, Mounts, PcValues
<1>6. CommittedIsWhole'
  BY <1>3 DEF IInv, CommittedIsWhole
<1>7. Positions'
  BY <1>2, <1>3 DEF IInv, Positions, Resting, Extracted, EditionsThere, BootSteps, EditionSteps
<1>8. Fresh'
  BY <1>3 DEF IInv, Fresh, Untouched, BootSteps, EditionSteps
<1>. QED
  BY <1>5, <1>6, <1>7, <1>8 DEF IInv

LEMMA MountBootOK == IInv /\ MountBoot => IInv'
<1>. SUFFICES ASSUME IInv, MountBoot PROVE IInv'
  OBVIOUS
<1>1. PICK ok \in BOOLEAN : /\ MountWim("boot", <<"boot", index>>, ok)
                            /\ pc' = IF ok THEN "programs" ELSE "failed"
  BY DEF MountBoot, Goto, Heeded
<1>2. pc = "mount" /\ UNCHANGED <<images, temp, job, index>>
  BY DEF MountBoot
<1>. DEFINE u == <<"boot", index>>
<1>3. job.iso \in Iso /\ index \in DOMAIN Setup[job.iso] /\ u \in Unit /\ "boot" \in Dir
  BY <1>2, Shapes DEF IInv, TypeOK, Jobs, Positions, Dir
<1>4. images[u] # NoImage
  BY <1>2, <1>3 DEF IInv, Positions, Resting, Extracted
<1>5. Mounts' /\ (ok => mounted'["boot"] = u /\ view'["boot"] = images[u])
  BY <1>1, <1>2, <1>3, <1>4, MountKeeps DEF IInv, TypeOK, Mounts
<1>6. TypeOK'
  BY <1>1, <1>2, <1>5 DEF IInv, TypeOK, Mounts, PcValues
<1>7. CommittedIsWhole'
  BY <1>2 DEF IInv, CommittedIsWhole
<1>8. ok => AtWork("boot")'
  BY <1>2, <1>3, <1>4, <1>5 DEF IInv, CommittedIsWhole, AtWork
<1>9. Positions'
  BY <1>1, <1>2, <1>3, <1>8 DEF IInv, Positions, Resting, Extracted, EditionsThere, BootSteps, EditionSteps
<1>10. Fresh'
  BY <1>1, <1>2 DEF IInv, Fresh, Untouched, BootSteps, EditionSteps
<1>. QED
  BY <1>6, <1>7, <1>9, <1>10 DEF IInv

\* The integrators of boot.wim, and the drivers of an edition, only add to the view.
LEMMA AddOK ==
    ASSUME IInv, NEW d \in Dir, NEW w \in SUBSET Work, Put(d, w),
           UNCHANGED <<images, mounted, job, index>>, temp' \in SUBSET Iso,
           \/ d = "boot" /\ pc \in BootSteps /\ pc' \in BootSteps
           \/ d = "install" /\ pc \in EditionSteps /\ pc' \in EditionSteps
    PROVE  IInv'
<1>1. AtWork(d)
  BY DEF IInv, Positions, BootSteps, EditionSteps
<1>2. /\ Mounts' /\ view'[d].iso = view[d].iso /\ view'[d].of = view[d].of
      /\ view'[d].whole = view[d].whole
  BY PutAdds DEF IInv, TypeOK, Mounts
<1>3. TypeOK'
  BY <1>2 DEF IInv, TypeOK, Mounts, PcValues, BootSteps, EditionSteps
<1>4. AtWork(d)'
  BY <1>1, <1>2 DEF AtWork
<1>5. Positions'
  BY <1>4 DEF IInv, Positions, Resting, Extracted, EditionsThere, BootSteps, EditionSteps
<1>. QED
  BY <1>3, <1>5 DEF IInv, CommittedIsWhole, Fresh, Untouched, BootSteps, EditionSteps

LEMMA MoveOK ==
    ASSUME IInv, UNCHANGED <<images, mounted, view, job, index>>, temp' \in SUBSET Iso,
           pc \in BootSteps, pc' \in BootSteps
    PROVE  IInv'
<1>1. TypeOK'
  BY DEF IInv, TypeOK, PcValues, BootSteps
<1>2. Positions'
  BY DEF IInv, Positions, AtWork, Resting, Extracted, EditionsThere, BootSteps, EditionSteps
<1>. QED
  BY <1>1, <1>2 DEF IInv, CommittedIsWhole, Fresh, Untouched, BootSteps, EditionSteps

\* The steps from the mount of boot.wim to its unmount, with what each may put in.
Integrators ==
    \/ IntegratePrograms \/ ExtractCustomDrivers \/ IntegrateCustomDrivers
    \/ IntegrateSystemDrivers \/ ConfigureStart \/ ProcessIniFiles

LEMMA Integrated ==
    ASSUME IInv, Integrators
    PROVE  /\ pc \in BootSteps \ {"unmount"} /\ pc' \in BootSteps
           /\ (pc # "ini" => pc' # "unmount") /\ (pc' = "ini" <=> pc = "start")
           /\ UNCHANGED <<images, mounted, job, index>> /\ temp' \in SUBSET Iso
           /\ view' = view \/ \E w \in SUBSET Work : Put("boot", w)
<1>1. job.iso \in Iso /\ temp \in SUBSET Iso
  BY DEF IInv, TypeOK, Jobs
<1>2. CASE IntegratePrograms
  <2>1. ProgramsResults \subseteq SUBSET Work
    BY DEF ProgramsResults, Work
  <2>. QED
    BY <1>1, <1>2, <2>1 DEF IntegratePrograms, Goto, BootSteps
<1>3. CASE ExtractCustomDrivers
  <2>1. {job.iso} \in SUBSET Work /\ {} \in SUBSET Work
    BY <1>1 DEF Work
  <2>. QED
    BY <1>1, <1>3, <2>1 DEF ExtractCustomDrivers, Goto, BootSteps
<1>4. CASE IntegrateCustomDrivers
  <2>1. temp \in SUBSET Work /\ {} \in SUBSET Work
    BY <1>1 DEF Work
  <2>. QED
    BY <1>1, <1>4, <2>1 DEF IntegrateCustomDrivers, Goto, BootSteps
<1>5. CASE IntegrateSystemDrivers
  <2>1. {"drivers"} \in SUBSET Work /\ {} \in SUBSET Work
    BY DEF Work
  <2>. QED
    BY <1>1, <1>5, <2>1 DEF IntegrateSystemDrivers, Goto, BootSteps
<1>6. CASE ConfigureStart
  <2>1. StartResults \subseteq SUBSET Work
    BY DEF StartResults, Work, StartFiles
  <2>. QED
    BY <1>1, <1>6, <2>1 DEF ConfigureStart, Goto, BootSteps
<1>7. CASE ProcessIniFiles
  <2>1. {".ini files"} \in SUBSET Work /\ {} \in SUBSET Work
    BY DEF Work
  <2>. QED
    BY <1>1, <1>7, <2>1 DEF ProcessIniFiles, Goto, BootSteps
<1>. QED
  BY <1>2, <1>3, <1>4, <1>5, <1>6, <1>7 DEF Integrators

LEMMA IntegratorsOK == IInv /\ Integrators => IInv'
<1>. SUFFICES ASSUME IInv, Integrators PROVE IInv'
  OBVIOUS
<1>1. CASE view' = view
  BY <1>1, Integrated, MoveOK
<1>2. ASSUME NEW w \in SUBSET Work, Put("boot", w) PROVE IInv'
  <2>1. "boot" \in Dir
    BY DEF Dir
  <2>2. /\ UNCHANGED <<images, mounted, job, index>> /\ temp' \in SUBSET Iso
        /\ pc \in BootSteps /\ pc' \in BootSteps
    BY Integrated
  <2>. QED
    BY <1>2, <2>1, <2>2, AddOK
<1>. QED
  BY <1>1, <1>2, Integrated

\* Whether the commit succeeds or not, an image that was whole stays so.
LEMMA CommitOK ==
    ASSUME IInv, NEW d \in Dir, NEW ok \in BOOLEAN, AtWork(d), UnmountWim(d, ok), job' = job
    PROVE  Mounts' /\ CommittedIsWhole' /\ \A u \in Unit : images[u] # NoImage => images'[u] # NoImage
<1>1. index \in 1..MaxIndex /\ <<d, index>> \in Unit /\ mounted[d] = <<d, index>>
  BY Shapes DEF IInv, TypeOK, AtWork
<1>2. view[d] # NoImage
  BY <1>1, Shapes DEF IInv, TypeOK, NoView
<1>3. \/ images' = images
      \/ /\ images'[<<d, index>>] = view[d]
         /\ \A u \in Unit \ {<<d, index>>} : images'[u] = images[u]
  BY <1>1, UnmountKeeps DEF IInv, TypeOK, Mounts
<1>4. Mounts'
  BY <1>1, UnmountKeeps DEF IInv, TypeOK, Mounts
<1>. QED
  BY <1>2, <1>3, <1>4 DEF IInv, CommittedIsWhole, AtWork

LEMMA UnmountBootOK == IInv /\ UnmountBoot => IInv'
<1>. SUFFICES ASSUME IInv, UnmountBoot PROVE IInv'
  OBVIOUS
<1>1. PICK ok \in BOOLEAN : UnmountWim("boot", ok) /\ pc' = IF ok THEN "install" ELSE "failed"
  BY DEF UnmountBoot, Goto
<1>2. pc = "unmount" /\ UNCHANGED <<temp, job, index>> /\ "boot" \in Dir
  BY DEF UnmountBoot, Dir
<1>3. AtWork("boot")
  BY <1>2 DEF IInv, Positions, BootSteps
<1>4. Mounts' /\ CommittedIsWhole' /\ \A u \in Unit : images[u] # NoImage => images'[u] # NoImage
  BY <1>1, <1>2, <1>3, CommitOK
<1>5. TypeOK'
  BY <1>1, <1>2, <1>4 DEF IInv, TypeOK, Mounts, PcValues
<1>6. Positions'
  BY <1>1, <1>2, <1>4 DEF IInv, Positions, Resting, Extracted, EditionsThere, BootSteps, EditionSteps
<1>7. Fresh'
  <2>1. \A k \in 1..MaxIndex : <<"install", k>> \in Unit /\ <<"install", k>> # <<"boot", index>>
    BY Shapes DEF Dir
  <2>3. mounted["boot"] = <<"boot", index>> /\ <<"boot", index>> \in Unit /\ Mounts
    BY <1>2, <1>3, Shapes DEF IInv, TypeOK, Mounts, AtWork
  <2>4. \A u \in Unit \ {<<"boot", index>>} : images'[u] = images[u]
    BY <1>1, <1>2, <2>3, UnmountKeeps
  <2>2. \A k \in 1..MaxIndex : images'[<<"install", k>>] = images[<<"install", k>>]
    BY <2>1, <2>4
  <2>. QED
    BY <1>1, <1>2, <2>1, <2>2 DEF IInv, Fresh, Untouched, BootSteps, EditionSteps
<1>. QED
  BY <1>4, <1>5, <1>6, <1>7 DEF IInv

LEMMA EditionsBound ==
    ASSUME IInv
    PROVE  EditionsThere \in 0..MaxIndex /\ index \in 1..MaxIndex /\ MaxIndex \in Nat
BY WimAssumption DEF EditionsThere, IInv, TypeOK, Jobs, WimAssumption

LEMMA ListEditionsOK == IInv /\ ListEditions => IInv'
<1>. SUFFICES ASSUME IInv, ListEditions PROVE IInv'
  OBVIOUS
<1>. DEFINE all == [k \in 1..EditionsThere |-> TRUE]
<1>1. PICK s \in Parsed({all}) :
         IF Len(s) = 0 THEN pc' = "finished" /\ UNCHANGED <<view, index>>
         ELSE pc' = "mount edition" /\ index' = 1 /\ view' = Removed("install")
  BY DEF ListEditions, Goto
<1>2. pc = "install" /\ UNCHANGED <<images, mounted, temp, job>> /\ EditionsThere' = EditionsThere
  BY DEF ListEditions, EditionsThere
<1>3. Len(s) # 0 => EditionsThere >= 1
  <2>1. s \in {all} \/ s = <<>>
    <3>. HIDE DEF all
    <3>. QED
      BY ParsedIs
  <2>2. Len(all) = EditionsThere
    BY EditionsBound
  <2>. QED
    BY <2>1, <2>2, EditionsBound
<1>4. CASE Len(s) = 0
  <2>1. TypeOK' /\ Positions' /\ Fresh'
    BY <1>1, <1>2, <1>4
       DEF IInv, TypeOK, PcValues, Positions, Fresh, Untouched, Resting, Extracted, BootSteps, EditionSteps
  <2>. QED
    BY <1>2, <2>1 DEF IInv, CommittedIsWhole
<1>5. CASE Len(s) # 0
  <2>1. Mounts'
    BY <1>1, <1>2, <1>5, RemovedKeeps DEF IInv, TypeOK, Mounts, Dir
  <2>2. 1 \in 1..EditionsThere /\ 1 \in 1..MaxIndex
    BY <1>3, <1>5, EditionsBound
  <2>3. TypeOK'
    BY <1>1, <1>2, <1>5, <2>1, <2>2 DEF IInv, TypeOK, Mounts, PcValues
  <2>4. Positions'
    BY <1>1, <1>2, <1>5, <2>2 DEF IInv, Positions, Resting, Extracted, BootSteps, EditionSteps
  <2>5. Fresh'
    BY <1>1, <1>2, <1>5 DEF IInv, Fresh, Untouched, BootSteps, EditionSteps
  <2>. QED
    BY <1>2, <2>3, <2>4, <2>5 DEF IInv, CommittedIsWhole
<1>. QED
  BY <1>4, <1>5

LEMMA Counting ==
    ASSUME NEW m \in Nat, NEW n \in 0..m, NEW i \in 1..n
    PROVE  /\ i \in 1..m /\ i \in i..m /\ i <= n /\ (i < n => i + 1 \in 1..n /\ i + 1 \in 1..m)
           /\ \A k \in (i + 1)..m : k \in i..m /\ k \in 1..m /\ k # i
OBVIOUS

\* The loop over the editions goes on: those ahead are as they were.
LEMMA NextOK ==
    ASSUME IInv, Mounts', CommittedIsWhole', NextEdition, UNCHANGED <<temp, job>>,
           pc = "mount edition" \/ pc \in EditionSteps,
           \A u \in Unit : images[u] # NoImage => images'[u] # NoImage,
           \A k \in (index + 1)..MaxIndex : images'[<<"install", k>>] = images[<<"install", k>>]
    PROVE  IInv'
<1>1. index \in 1..EditionsThere /\ EditionsThere' = EditionsThere /\ EditionsThere \in 0..MaxIndex
      /\ MaxIndex \in Nat
  BY EditionsBound DEF IInv, Positions, EditionsThere
<1>2. \/ index' = index + 1 /\ pc' = "mount edition" /\ index' \in 1..EditionsThere
         /\ index' \in 1..MaxIndex
      \/ index' = index /\ pc' = "finished"
  <2>1. index < EditionsThere => index + 1 \in 1..EditionsThere /\ index + 1 \in 1..MaxIndex
    BY <1>1, Counting
  <2>. QED
    BY <2>1 DEF NextEdition, Goto
<1>3. index' \in 1..MaxIndex
  BY <1>2, EditionsBound
<1>4. TypeOK'
  BY <1>2, <1>3 DEF IInv, TypeOK, Mounts, PcValues
<1>5. Positions'
  BY <1>1, <1>2 DEF IInv, Positions, Resting, Extracted, BootSteps, EditionSteps
<1>6. Fresh'
  <2>1. \A k \in (index + 1)..MaxIndex : k \in index..MaxIndex
    BY <1>1, Counting
  <2>. QED
    BY <1>2, <2>1 DEF IInv, Fresh, Untouched, BootSteps, EditionSteps
<1>. QED
  BY <1>4, <1>5, <1>6 DEF IInv

LEMMA MountEditionOK == IInv /\ MountEdition => IInv'
<1>. SUFFICES ASSUME IInv, MountEdition PROVE IInv'
  OBVIOUS
<1>. DEFINE u == <<"install", index>>
<1>1. PICK ok \in BOOLEAN :
         /\ MountWim("install", u, ok)
         /\ IF ok THEN pc' = "inject" /\ UNCHANGED index ELSE NextEdition
  BY DEF MountEdition, Goto, Heeded
<1>2. pc = "mount edition" /\ UNCHANGED <<images, temp, job>> /\ EditionsThere' = EditionsThere
  BY DEF MountEdition, EditionsThere
<1>3. u \in Unit /\ "install" \in Dir /\ index \in 1..EditionsThere /\ u[1] = "install" /\ u[2] = index
  BY <1>2, EditionsBound, Shapes DEF IInv, Positions, Dir
<1>4. images[u] # NoImage
  <2>1. index <= EditionsThere
    BY <1>3, EditionsBound
  <2>2. Extracted(u)
    BY <1>3, <2>1 DEF Extracted
  <2>. QED
    BY <1>2, <1>3, <2>2 DEF IInv, Positions, Resting
<1>5. Mounts' /\ (ok => mounted'["install"] = u /\ view'["install"] = images[u])
  <2>1. Mounts
    BY DEF IInv, TypeOK, Mounts
  <2>. HIDE DEF u
  <2>. QED
    BY <1>1, <1>2, <1>3, <1>4, <2>1, MountKeeps
<1>6. CommittedIsWhole'
  BY <1>2 DEF IInv, CommittedIsWhole
<1>7. CASE ok
  <2>1. TypeOK'
    BY <1>1, <1>2, <1>5, <1>7 DEF IInv, TypeOK, Mounts, PcValues
  <2>2. AtWork("install")'
    BY <1>1, <1>2, <1>3, <1>4, <1>5, <1>7 DEF IInv, CommittedIsWhole, AtWork
  <2>3. Positions'
    BY <1>1, <1>2, <1>3, <1>7, <2>2 DEF IInv, Positions, Resting, Extracted, BootSteps, EditionSteps
  <2>4. Fresh'
    BY <1>1, <1>2, <1>7 DEF IInv, Fresh, Untouched, BootSteps, EditionSteps
  <2>. QED
    BY <1>6, <2>1, <2>3, <2>4 DEF IInv
<1>8. CASE ~ok
  <2>1. NextEdition /\ \A v \in Unit : images'[v] = images[v]
    BY <1>1, <1>2, <1>8
  <2>. QED
    BY <1>2, <1>5, <1>6, <2>1, NextOK
<1>. QED
  BY <1>7, <1>8

LEMMA UnmountEditionOK == IInv /\ UnmountEdition => IInv'
<1>. SUFFICES ASSUME IInv, UnmountEdition PROVE IInv'
  OBVIOUS
<1>. DEFINE u == <<"install", index>>
<1>1. PICK ok \in BOOLEAN : UnmountWim("install", ok)
  BY DEF UnmountEdition
<1>2. pc = "unmount edition" /\ UNCHANGED <<temp, job>> /\ NextEdition /\ "install" \in Dir
  BY DEF UnmountEdition, Dir
<1>3. AtWork("install")
  BY <1>2 DEF IInv, Positions, EditionSteps
<1>4. Mounts' /\ CommittedIsWhole' /\ \A v \in Unit : images[v] # NoImage => images'[v] # NoImage
  BY <1>1, <1>2, <1>3, CommitOK
<1>5. mounted["install"] = u /\ u \in Unit /\ Mounts
  BY <1>2, <1>3, EditionsBound, Shapes DEF IInv, TypeOK, Mounts, AtWork
<1>6. \A v \in Unit \ {u} : images'[v] = images[v]
  BY <1>1, <1>2, <1>5, UnmountKeeps
<1>7. \A k \in (index + 1)..MaxIndex : <<"install", k>> \in Unit /\ <<"install", k>> # u
  <2>1. \A k \in (index + 1)..MaxIndex : k \in 1..MaxIndex /\ k # index
    BY EditionsBound
  <2>. QED
    BY <1>2, <2>1, Shapes
<1>. QED
  BY <1>2, <1>4, <1>6, <1>7, NextOK DEF EditionSteps

(***************************************************************************)
(* The other steps, and the result.                                        *)
(***************************************************************************)
LEMMA InjectOK == IInv /\ InjectDrivers => IInv'
<1>. SUFFICES ASSUME IInv, InjectDrivers PROVE IInv'
  OBVIOUS
<1>1. PICK w \in SUBSET Work : Put("install", w)
  BY DEF InjectDrivers, Work
<1>2. /\ pc = "inject" /\ pc' = "unmount edition" /\ UNCHANGED <<images, mounted, temp, job, index>>
      /\ "install" \in Dir /\ temp \in SUBSET Iso
  BY DEF InjectDrivers, Goto, Dir, IInv, TypeOK
<1>. QED
  BY <1>1, <1>2, AddOK DEF EditionSteps

LEMMA RestOK == IInv /\ (Return \/ Crash \/ \E d \in Dir : Cleanup(d)) => IInv'
<1>. SUFFICES ASSUME IInv, Return \/ Crash \/ \E d \in Dir : Cleanup(d) PROVE IInv'
  OBVIOUS
<1>1. pc' \in {"idle", "done"} /\ UNCHANGED <<images, temp, job, index>>
  BY DEF Return, Crash, Cleanup, Goto, Resting
<1>2. Mounts'
  BY Shapes DEF IInv, TypeOK, Mounts, Return, Crash, Cleanup
<1>3. TypeOK'
  BY <1>1, <1>2 DEF IInv, TypeOK, Mounts, PcValues
<1>4. Positions' /\ Fresh'
  BY <1>1 DEF Positions, Fresh, Resting, BootSteps, EditionSteps
<1>. QED
  BY <1>1, <1>3, <1>4 DEF IInv, CommittedIsWhole

LEMMA Stutters == IInv /\ UNCHANGED vars => IInv'
BY DEF IInv, vars, TypeOK, CommittedIsWhole, Positions, Fresh, Untouched, AtWork, Resting, Extracted,
       EditionsThere

LEMMA IsInvariant == Spec => []IInv
<1>1. IInv /\ [Next]_vars => IInv'
  BY BeginOK, SelectOK, MountBootOK, IntegratorsOK, UnmountBootOK, ListEditionsOK, MountEditionOK,
     InjectOK, UnmountEditionOK, RestOK, Stutters DEF Next, Step, Integrators
<1>. QED
  BY <1>1, InitOK, PTL DEF Spec

\* Types, and that an image which dism has registered can be seen in its directory,
\* whatever "rd /s /q" has removed there.
THEOREM WimTypes == Spec => []TypeOK
<1>1. IInv => TypeOK
  BY DEF IInv
<1>. QED
  BY <1>1, IsInvariant, PTL

\* mountWim and unmountWim: with any failures, kills and mounts left behind by earlier
\* runs, no commit writes into an image what belongs to another or is left of a view.
THEOREM CommitsAreWhole == Spec => []CommittedIsWhole
<1>1. IInv => CommittedIsWhole
  BY DEF IInv
<1>. QED
  BY <1>1, IsInvariant, PTL

-----------------------------------------------------------------------------
(***************************************************************************)
(* What a success leaves, where the start files can be written.            *)
(***************************************************************************)
Boot(k) == <<"boot", k>>

LEMMA AfterStays ==
    ASSUME Started, pc \in After, pc' \in After,
           \A k \in 1..MaxIndex : images'[Boot(k)] = images[Boot(k)]
    PROVE  Started'
BY DEF Started, After, Boot

LEMMA IntegratorsStart ==
    ASSUME "unwritten" \notin Env, SInv, Integrators
    PROVE  Started'
<1>1. /\ pc \in BootSteps \ {"unmount"} /\ pc' \in BootSteps /\ UNCHANGED <<images, mounted, job, index>>
      /\ (pc # "ini" => pc' # "unmount") /\ (pc' = "ini" <=> pc = "start")
  BY Integrated DEF SInv
<1>2. "boot" \in Dir /\ Mounts /\ view["boot"] # NoView
  BY <1>1, Shapes DEF SInv, IInv, TypeOK, Mounts, Positions, AtWork, Dir
<1>3. \A w \in SUBSET Work : Put("boot", w) => view'["boot"].work = view["boot"].work \cup w
  BY <1>1, <1>2, PutAdds
<1>4. CASE pc = "start"
  <2>1. ConfigureStart
    BY <1>4 DEF Integrators, IntegratePrograms, ExtractCustomDrivers, IntegrateCustomDrivers,
                IntegrateSystemDrivers, ProcessIniFiles
  <2>2. PICK w \in StartResults : Put("boot", w)
    BY <2>1 DEF ConfigureStart
  <2>3. w \in SUBSET Work /\ w \cap StartFiles # {}
    BY <2>2 DEF StartResults, Work, StartFiles
  <2>4. view'["boot"].work \cap StartFiles # {}
    BY <1>3, <2>2, <2>3
  <2>. QED
    BY <1>1, <1>4, <2>4 DEF SInv, Started, BootSteps, After
<1>5. CASE pc = "ini"
  <2>1. ProcessIniFiles
    BY <1>5 DEF Integrators, IntegratePrograms, ExtractCustomDrivers, IntegrateCustomDrivers,
                IntegrateSystemDrivers, ConfigureStart
  <2>2. PICK w \in SUBSET Work : Put("boot", w)
    BY <2>1 DEF ProcessIniFiles, Work
  <2>3. view'["boot"].work \cap StartFiles # {}
    BY <1>3, <1>5, <2>2 DEF SInv, Started
  <2>. QED
    BY <1>1, <1>5, <2>3 DEF SInv, Started, BootSteps, After
<1>6. CASE pc \notin {"start", "ini"}
  BY <1>1, <1>6 DEF SInv, Started, BootSteps, After
<1>. QED
  BY <1>4, <1>5, <1>6

LEMMA UnmountBootStarts == SInv /\ UnmountBoot => Started'
<1>. SUFFICES ASSUME SInv, UnmountBoot PROVE Started'
  OBVIOUS
<1>1. PICK ok \in BOOLEAN : UnmountWim("boot", ok) /\ pc' = IF ok THEN "install" ELSE "failed"
  BY DEF UnmountBoot, Goto
<1>2. pc = "unmount" /\ job' = job /\ "boot" \in Dir
  BY DEF UnmountBoot, Dir
<1>3. /\ mounted["boot"] = Boot(index) /\ Boot(index) \in Unit /\ Mounts /\ view["boot"] # NoImage
      /\ index \in 1..MaxIndex
  BY <1>2, Shapes DEF SInv, IInv, TypeOK, Mounts, Positions, AtWork, Boot, BootSteps, NoView
<1>4. ok => images'[Boot(index)] = view["boot"]
  BY <1>1, <1>2, <1>3, UnmountKeeps
<1>5. view["boot"].work \cap StartFiles # {}
  BY <1>2 DEF SInv, Started
<1>. QED
  BY <1>1, <1>2, <1>3, <1>4, <1>5 DEF Started, After, Boot

\* The editions come after boot.wim and leave its images alone.
LEMMA EditionsStart ==
    ASSUME SInv, ListEditions \/ MountEdition \/ InjectDrivers \/ UnmountEdition
    PROVE  Started'
<1>1. pc \in After /\ pc' \in After
  BY DEF ListEditions, MountEdition, InjectDrivers, UnmountEdition, NextEdition, Goto, After, Heeded
<1>2. ASSUME NEW k \in 1..MaxIndex PROVE images'[Boot(k)] = images[Boot(k)]
  <2>1. CASE UnmountEdition
    <3>1. mounted["install"] = <<"install", index>> /\ <<"install", index>> \in Unit /\ Mounts
      BY <2>1, Shapes DEF SInv, IInv, TypeOK, Mounts, Positions, AtWork, UnmountEdition, EditionSteps, Dir
    <3>2. Boot(k) \in Unit \ {<<"install", index>>} /\ "install" \in Dir
      BY Shapes DEF Boot, Dir
    <3>. QED
      BY <2>1, <3>1, <3>2, UnmountKeeps DEF UnmountEdition
  <2>. QED
    BY <2>1 DEF ListEditions, MountEdition, InjectDrivers
<1>. QED
  BY <1>1, <1>2, AfterStays DEF SInv

LEMMA OthersStart ==
    ASSUME SInv, \/ Begin \/ SelectImage \/ MountBoot \/ Return \/ Crash
                 \/ (\E d \in Dir : Cleanup(d)) \/ UNCHANGED vars
    PROVE  Started'
<1>1. CASE Begin \/ SelectImage \/ MountBoot \/ Crash
  BY <1>1 DEF Begin, SelectImage, MountBoot, Crash, Goto, Started, After, Heeded
<1>2. CASE Return
  BY <1>2 DEF Return, Goto, SInv, Started, After
<1>3. CASE \E d \in Dir : Cleanup(d)
  BY <1>3 DEF Cleanup, Resting, SInv, Started, After
<1>4. CASE UNCHANGED vars
  BY <1>4 DEF vars, SInv, Started
<1>. QED
  BY <1>1, <1>2, <1>3, <1>4

LEMMA IsStarted ==
    ASSUME "unwritten" \notin Env
    PROVE  Spec => []SInv
<1>1. Init => SInv
  BY InitOK DEF SInv, Init, Started, After, BootSteps
<1>2. SInv /\ [Next]_vars => IInv'
  BY BeginOK, SelectOK, MountBootOK, IntegratorsOK, UnmountBootOK, ListEditionsOK, MountEditionOK,
     InjectOK, UnmountEditionOK, RestOK, Stutters DEF SInv, Next, Step, Integrators
<1>3. SInv /\ [Next]_vars => Started'
  BY IntegratorsStart, UnmountBootStarts, EditionsStart, OthersStart
     DEF Next, Step, Integrators
<1>4. SInv /\ [Next]_vars => SInv'
  BY <1>2, <1>3 DEF SInv
<1>. QED
  BY <1>1, <1>4, PTL DEF Spec

-----------------------------------------------------------------------------
(***************************************************************************)
(* The steps are steps of WimService.                                      *)
(***************************************************************************)
\* Every image is its own, so that what is seen of it is what it is.
Plain == Seen = [u \in Unit |-> [iso |-> images[u].iso, work |-> images[u].work]]

LEMMA SeenIs == IInv => Plain
<1>. SUFFICES ASSUME IInv PROVE Plain
  OBVIOUS
<1>1. ASSUME NEW u \in Unit, images[u] # NoImage PROVE images[u] = Own(u)
  <2>1. images[u] \in Image /\ images[u].of = u /\ images[u].whole = TRUE
    BY <1>1 DEF IInv, TypeOK, CommittedIsWhole, Image
  <2>. QED
    BY <2>1 DEF Own, Image
<1>. QED
  BY <1>1 DEF Seen, Plain

LEMMA SeenNext == IInv' => Plain'
BY SeenIs, PTL

LEMMA SeenOf ==
    ASSUME IInv, NEW u \in Unit
    PROVE  /\ Seen[u].iso = images[u].iso /\ Seen[u].work = images[u].work
           /\ images[u] = NoImage => Seen[u] = Service!NoImage
           /\ images[u] # NoImage => Seen[u] # Service!NoImage
<1>1. Seen[u] = [iso |-> images[u].iso, work |-> images[u].work]
  BY SeenIs DEF Plain
<1>2. images[u] = NoImage => images[u].iso = "none" /\ images[u].work = {}
  BY DEF NoImage
<1>3. images[u] # NoImage => images[u].iso # "none"
  BY WimAssumption DEF IInv, CommittedIsWhole, TypeOK, Jobs, WimAssumption
<1>. QED
  BY <1>1, <1>2, <1>3 DEF Service!NoImage

LEMMA InitService == Init => Service!Init
<1>. SUFFICES ASSUME Init PROVE Service!Init
  OBVIOUS
<1>1. IInv
  BY InitOK
<1>2. Seen = [u \in Unit |-> Service!NoImage]
  <2>1. \A u \in Unit : images[u].iso = "none" /\ images[u].work = {}
    BY DEF Init, NoImage
  <2>. QED
    BY <1>1, <2>1, SeenIs DEF Service!NoImage, Plain
<1>. QED
  BY <1>2 DEF Init, Service!Init, Phase, Resting

LEMMA BeginService == IInv /\ Begin => Service!Begin
<1>. SUFFICES ASSUME IInv, Begin PROVE Service!Begin
  OBVIOUS
<1>. DEFINE U == {u \in Unit : \/ u[1] = "boot" /\ u[2] \in DOMAIN Setup[job'.iso]
                               \/ u[1] = "install" /\ job'.extract /\ u[2] <= Editions[job'.iso]}
<1>1. IInv' /\ job'.iso \in Iso
  BY BeginOK DEF IInv, TypeOK, Jobs
<1>2. images' = [u \in Unit |-> IF u \in U THEN [iso |-> job'.iso, of |-> u, whole |-> TRUE, work |-> {}]
                                          ELSE NoImage]
  BY DEF Begin
<1>3. \A u \in Unit : /\ images'[u].iso = (IF u \in U THEN job'.iso ELSE "none")
                      /\ images'[u].work = {}
  <2>. HIDE DEF U
  <2>. QED
    BY <1>2 DEF NoImage
<1>4. Seen' = [u \in Unit |-> [iso |-> images'[u].iso, work |-> images'[u].work]]
  BY <1>1, SeenNext DEF Plain
<1>5. Seen' = [u \in Unit |-> IF u \in U THEN [iso |-> job'.iso, work |-> {}] ELSE Service!NoImage]
  <2>. HIDE DEF U
  <2>. QED
    BY <1>3, <1>4 DEF Service!NoImage
<1>6. Phase # "busy" /\ Phase' = "busy"
  BY DEF Begin, Goto, Phase, Resting
<1>. QED
  BY <1>1, <1>5, <1>6 DEF Service!Begin

\* A commit changes an image that is as it was extracted, or nothing.
LEMMA CommitService ==
    ASSUME IInv, IInv', NEW d \in Dir, NEW ok \in BOOLEAN, AtWork(d), UnmountWim(d, ok),
           images[<<d, index>>] # NoImage, Untouched(<<d, index>>), ~Resting, ~Resting'
    PROVE  (\E u \in Unit : Service!Change(u)) \/ UNCHANGED Service!vars
<1>. DEFINE u == <<d, index>>
            w == view[d].work
<1>1. u \in Unit /\ mounted[d] = u /\ Mounts /\ view[d] \in Image
  BY Shapes DEF IInv, TypeOK, Mounts, AtWork, NoView
<1>2. images[u].iso = view[d].iso /\ w \in SUBSET Work
  BY <1>1 DEF IInv, CommittedIsWhole, AtWork, Image
<1>3. images' = images \/ images' = [images EXCEPT ![u] = view[d]]
  BY <1>1, UnmountKeeps
<1>4. Phase = "busy" /\ Phase' = "busy"
  BY DEF Phase
<1>5. CASE images' = images
  BY <1>4, <1>5 DEF Service!vars, Seen, Own
<1>6. CASE images' = [images EXCEPT ![u] = view[d]]
  <2>1. Seen' = [v \in Unit |-> [iso |-> images'[v].iso, work |-> images'[v].work]]
    BY SeenNext DEF Plain
  <2>2. /\ images'[u] = view[d] /\ \A v \in Unit \ {u} : images'[v] = images[v]
    BY <1>1, <1>6 DEF Mounts
  <2>3. Seen = [v \in Unit |-> [iso |-> images[v].iso, work |-> images[v].work]]
    BY SeenIs DEF Plain
  <2>. HIDE DEF u
  <2>4. Seen' = [Seen EXCEPT ![u] = [iso |-> images[u].iso, work |-> w]]
    BY <1>2, <2>1, <2>2, <2>3
  <2>5. Seen[u] = [iso |-> images[u].iso, work |-> {}]
    BY <1>1, <2>3 DEF Untouched, u
  <2>6. Seen' = [Seen EXCEPT ![u].work = w]
    BY <1>1, <2>3, <2>4, <2>5
  <2>7. Seen[u] # Service!NoImage /\ Seen[u].work = {}
    BY <1>1, SeenOf DEF u, Untouched
  <2>. QED
    BY <1>1, <1>2, <1>4, <2>6, <2>7 DEF Service!Change
<1>. QED
  BY <1>3, <1>5, <1>6

LEMMA QuietService ==
    ASSUME images' = images, Phase' = Phase
    PROVE  UNCHANGED Service!vars
BY DEF Service!vars, Seen, Own

\* A run that ends in success has put start files into an image of boot.wim.
LEMMA EndService ==
    ASSUME SInv, Return \/ Crash
    PROVE  Service!Finish
<1>1. ~Resting /\ Phase = "busy" /\ images' = images
  BY DEF Return, Crash, Phase, Resting
<1>2. Seen' = Seen
  BY <1>1 DEF Seen, Own
<1>3. CASE pc' = "idle"
  BY <1>1, <1>2, <1>3 DEF Service!Finish, Phase, Resting
<1>4. CASE pc' = "done"
  <2>1. pc = "finished"
    BY <1>4 DEF Return, Crash, Goto
  <2>2. PICK k \in 1..MaxIndex : /\ images[Boot(k)] # NoImage
                                 /\ images[Boot(k)].work \cap StartFiles # {}
    BY <2>1 DEF SInv, Started, After, Boot
  <2>3. Boot(k) \in Unit /\ Boot(k)[1] = "boot"
    BY Shapes DEF Boot, Dir
  <2>4. Seen[Boot(k)] # Service!NoImage /\ Seen[Boot(k)].work \cap StartFiles # {}
    BY <2>2, <2>3, SeenOf DEF SInv
  <2>5. Service!Serviced
    BY <2>3, <2>4 DEF Service!Serviced
  <2>. QED
    BY <1>1, <1>2, <1>4, <2>5 DEF Service!Finish, Phase, Resting
<1>. QED
  BY <1>3, <1>4 DEF Return, Crash, Goto

LEMMA StepService ==
    ASSUME SInv, IInv', [Next]_vars
    PROVE  [Service!Next]_(Service!vars)
<1>1. CASE Begin
  BY <1>1, BeginService DEF SInv, Service!Next
<1>2. CASE Integrators
  <2>1. images' = images /\ ~Resting /\ ~Resting'
    BY <1>2, Integrated DEF SInv, Resting, BootSteps
  <2>. QED
    BY <2>1, QuietService DEF Phase
<1>3. CASE SelectImage \/ MountBoot \/ ListEditions \/ MountEdition \/ InjectDrivers
  <2>1. images' = images /\ ~Resting /\ ~Resting'
    BY <1>3 DEF SelectImage, MountBoot, ListEditions, MountEdition, InjectDrivers, NextEdition, Goto,
                Resting, Heeded
  <2>. QED
    BY <2>1, QuietService DEF Phase
<1>4. CASE UnmountBoot
  <2>1. PICK ok \in BOOLEAN : UnmountWim("boot", ok) /\ pc' = IF ok THEN "install" ELSE "failed"
    BY <1>4 DEF UnmountBoot, Goto
  <2>2. /\ pc = "unmount" /\ ~Resting /\ ~Resting' /\ "boot" \in Dir
        /\ <<"boot", index>> \in Unit /\ index \in DOMAIN Setup[job.iso]
    BY <1>4, <2>1, Shapes DEF UnmountBoot, Resting, Dir, SInv, IInv, TypeOK, Positions, BootSteps
  <2>3. AtWork("boot") /\ Untouched(<<"boot", index>>) /\ images[<<"boot", index>>] # NoImage
    BY <2>2 DEF SInv, IInv, Positions, Fresh, Extracted, BootSteps
  <2>. QED
    BY <2>1, <2>2, <2>3, CommitService DEF SInv, Service!Next
<1>5. CASE UnmountEdition
  <2>1. PICK ok \in BOOLEAN : UnmountWim("install", ok)
    BY <1>5 DEF UnmountEdition
  <2>2. /\ pc = "unmount edition" /\ ~Resting /\ ~Resting' /\ "install" \in Dir
        /\ index \in 1..EditionsThere
    BY <1>5 DEF UnmountEdition, NextEdition, Goto, Resting, Dir, SInv, IInv, Positions, EditionSteps
  <2>3. /\ <<"install", index>> \in Unit /\ index \in index..MaxIndex /\ index <= EditionsThere
    <3>1. /\ EditionsThere \in 0..MaxIndex /\ MaxIndex \in Nat /\ index \in 1..MaxIndex
      BY EditionsBound DEF SInv
    <3>2. index \in index..MaxIndex /\ index <= EditionsThere
      BY <2>2, <3>1, Counting
    <3>. QED
      BY <2>2, <3>1, <3>2, Shapes
  <2>4. AtWork("install") /\ Untouched(<<"install", index>>) /\ images[<<"install", index>>] # NoImage
    BY <2>2, <2>3 DEF SInv, IInv, Positions, Fresh, Extracted, EditionSteps
  <2>. QED
    BY <2>1, <2>2, <2>3, <2>4, CommitService DEF SInv, Service!Next
<1>6. CASE Return \/ Crash
  BY <1>6, EndService DEF Service!Next
<1>7. ASSUME NEW d \in Dir, Cleanup(d) PROVE UNCHANGED Service!vars
  BY <1>7, QuietService DEF Cleanup, Phase, Resting
<1>8. CASE UNCHANGED vars
  BY <1>8, QuietService DEF vars, Phase, Resting
<1>. QED
  BY <1>1, <1>2, <1>3, <1>4, <1>5, <1>6, <1>7, <1>8 DEF Next, Step, Integrators

\* processBootWim is what the rest of the program takes it for: images are changed once and
\* as a whole, whatever is mounted, left mounted or fails, and a success has its start files.
THEOREM ImplementsService ==
    ASSUME "unwritten" \notin Env
    PROVE  Spec => Service!Spec
<1>1. Init => Service!Init
  BY InitService
<1>2. SInv /\ IInv' /\ [Next]_vars => [Service!Next]_(Service!vars)
  BY StepService
<1>3. SInv => IInv
  BY DEF SInv
<1>. QED
  BY <1>1, <1>2, <1>3, IsStarted, PTL DEF Spec, Service!Spec
=============================================================================
