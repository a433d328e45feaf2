-------------------------- MODULE PartitionsProofs --------------------------
(***************************************************************************)
(* What is proved of Partitions for every disk, every set of letters and   *)
(* every environment that a theorem does not exclude: that volumes of      *)
(* others are left alone, how many ISOBOOT there are, that the data drive  *)
(* a copy goes to is the right one, and that Recover deletes both          *)
(* partitions.                                                             *)
(***************************************************************************)
EXTENDS Partitions, FiniteSetTheorems, TLAPS

DistinctLetters(d) ==
    \A v, w \in Vol : d[v].letter \in Letter /\ d[v].letter = d[w].letter => v = w

\* The volumes are well-typed and no letter leads to two of them.
Good(d) == d \in [Vol -> Volume] /\ DistinctLetters(d)

\* e comes from d by giving letters to volumes that had none.
Lettering(d, e) ==
    \A v \in Vol : /\ e[v].label = d[v].label /\ e[v].fs = d[v].fs /\ e[v].mb = d[v].mb
                   /\ e[v].hash = d[v].hash
                   /\ \/ e[v].letter = d[v].letter
                      \/ d[v].letter = NoLetter /\ e[v].letter \in Letter

LEMMA AssignGood ==
    ASSUME NEW d, Good(d), NEW v \in Vol, NEW l \in FreeLetters(d), d[v].letter = NoLetter
    PROVE  /\ Good([d EXCEPT ![v].letter = l])
           /\ Lettering(d, [d EXCEPT ![v].letter = l])
<1> DEFINE e == [d EXCEPT ![v].letter = l]
<1>1. d \in [Vol -> Volume] /\ l \in Letter
  BY DEF Good, FreeLetters
<1>2. e \in [Vol -> Volume]
  BY <1>1 DEF Volume
<1>3. \A w \in Vol : w # v => e[w] = d[w]
  BY <1>1
<1>4. /\ e[v].letter = l /\ e[v].label = d[v].label /\ e[v].fs = d[v].fs /\ e[v].mb = d[v].mb
      /\ e[v].hash = d[v].hash
  BY <1>1 DEF Volume
<1>5. DistinctLetters(e)
  BY <1>1, <1>3, <1>4 DEF Good, DistinctLetters, FreeLetters
<1>6. Lettering(d, e)
  BY <1>1, <1>3, <1>4 DEF Lettering
<1> QED BY <1>2, <1>5, <1>6 DEF Good

LEMMA DriveLettersGood ==
    ASSUME NEW d, Good(d), NEW L, NEW r \in DriveLetters(d, L)
    PROVE  Good(r.d) /\ Lettering(d, r.d)
<1> DEFINE bare == {v \in Labelled(d, L) : d[v].letter = NoLetter}
<1>1. \/ r.d = d
      \/ \E v \in Vol, l \in FreeLetters(d) :
            d[v].letter = NoLetter /\ r.d = [d EXCEPT ![v].letter = l]
  BY DEF DriveLetters, Labelled
<1>2. CASE r.d = d
  BY <1>2 DEF Lettering
<1>3. CASE \E v \in Vol, l \in FreeLetters(d) :
            d[v].letter = NoLetter /\ r.d = [d EXCEPT ![v].letter = l]
  BY <1>3, AssignGood
<1> QED BY <1>1, <1>2, <1>3

LEMMA EspLettersGood ==
    ASSUME NEW d, Good(d), NEW r \in EspLetters(d)
    PROVE  Good(r.d) /\ Lettering(d, r.d)
<1>1. PICK q \in DriveLetters(d, "ISOEFI") : r = q \/ r \in DriveLetters(q.d, "SYSTEM")
  BY DEF EspLetters
<1>2. Good(q.d) /\ Lettering(d, q.d)
  BY <1>1, DriveLettersGood
<1>3. CASE r = q
  BY <1>2, <1>3
<1>4. CASE r \in DriveLetters(q.d, "SYSTEM")
  <2>1. Good(r.d) /\ Lettering(q.d, r.d)
    BY <1>2, <1>4, DriveLettersGood
  <2> QED BY <1>2, <2>1 DEF Lettering
<1> QED BY <1>1, <1>3, <1>4

\* Changing one volume but for its letter.
LEMMA ReplaceGood ==
    ASSUME NEW d, Good(d), NEW v \in Vol, NEW x \in Volume,
           x.letter = d[v].letter \/ x.letter = NoLetter \/ x.letter \in FreeLetters(d)
    PROVE  Good([d EXCEPT ![v] = x])
<1> DEFINE e == [d EXCEPT ![v] = x]
<1>1. e \in [Vol -> Volume]
  BY DEF Good
<1>2. e[v] = x /\ \A w \in Vol : w # v => e[w] = d[w]
  BY DEF Good
<1>3. NoLetter \notin Letter
  BY ConstantsAssumption
<1>4. DistinctLetters(e)
  BY <1>2, <1>3 DEF Good, DistinctLetters, FreeLetters
<1> QED BY <1>1, <1>4 DEF Good

LEMMA FormattedGood ==
    ASSUME NEW d, Good(d), NEW v \in Vol, NEW fs \in Formats \cup {"FAT32"}, NEW L \in Labels
    PROVE  /\ Good(Formatted(d, v, fs, L))
           /\ \A w \in Vol : w # v => Formatted(d, v, fs, L)[w] = d[w]
           /\ \A w \in Vol : Formatted(d, v, fs, L)[w].letter = d[w].letter
<1> DEFINE x == Fresh(L, fs, d[v].mb, d[v].letter)
<1>1. d \in [Vol -> Volume] /\ d[v] \in Volume
  BY DEF Good
<1>2. x \in Volume /\ x.letter = d[v].letter
  BY <1>1 DEF Volume, Fresh
<1>3. Good([d EXCEPT ![v] = x])
  BY <1>2, ReplaceGood
<1>4. [d EXCEPT ![v] = x][v] = x /\ \A w \in Vol : w # v => [d EXCEPT ![v] = x][w] = d[w]
  BY <1>1
<1> QED BY <1>2, <1>3, <1>4 DEF Formatted

\* Giving a letter that is free, also to a volume that has another.
LEMMA LetterGood ==
    ASSUME NEW d, Good(d), NEW v \in Vol, NEW l \in FreeLetters(d)
    PROVE  /\ Good([d EXCEPT ![v].letter = l])
           /\ \A w \in Vol : w # v => [d EXCEPT ![v].letter = l][w] = d[w]
           /\ LET x == [d EXCEPT ![v].letter = l][v]
              IN  /\ x.letter = l /\ x.label = d[v].label /\ x.fs = d[v].fs
                  /\ x.mb = d[v].mb /\ x.hash = d[v].hash
<1> DEFINE x == [d[v] EXCEPT !.letter = l]
<1>1. d \in [Vol -> Volume] /\ d[v] \in Volume /\ l \in Letter
  BY DEF Good, FreeLetters
<1>2. /\ x \in Volume /\ x.letter = l /\ x.label = d[v].label /\ x.fs = d[v].fs
      /\ x.mb = d[v].mb /\ x.hash = d[v].hash
  BY <1>1 DEF Volume
<1>3. [d EXCEPT ![v].letter = l] = [d EXCEPT ![v] = x]
  BY <1>1
<1> HIDE DEF x
<1>4. Good([d EXCEPT ![v] = x])
  BY <1>2, ReplaceGood
<1>5. [d EXCEPT ![v] = x][v] = x /\ \A w \in Vol : w # v => [d EXCEPT ![v] = x][w] = d[w]
  BY <1>1
<1> QED BY <1>2, <1>3, <1>4, <1>5

\* A format that did not come to its end.
LEMMA HalfFormattedGood ==
    ASSUME NEW d, Good(d), NEW v \in Vol, NEW e \in HalfFormatted(d, v)
    PROVE  /\ Good(e)
           /\ \A w \in Vol : w # v => e[w] = d[w]
           /\ \A w \in Vol : e[w].letter = d[w].letter
           /\ e = d \/ (e[v].label = "raw" /\ e[v].hash = <<>>)
<1> DEFINE x == Fresh("raw", "none", d[v].mb, d[v].letter)
<1>1. d \in [Vol -> Volume] /\ d[v] \in Volume
  BY DEF Good
<1>2. /\ x \in Volume /\ x.letter = d[v].letter /\ x.label = "raw" /\ x.hash = <<>>
  BY <1>1 DEF Volume, Fresh, Labels
<1>3. e = d \/ e = [d EXCEPT ![v] = x]
  BY DEF HalfFormatted
<1> HIDE DEF x
<1>4. Good([d EXCEPT ![v] = x])
  BY <1>2, ReplaceGood
<1>5. [d EXCEPT ![v] = x][v] = x /\ \A w \in Vol : w # v => [d EXCEPT ![v] = x][w] = d[w]
  BY <1>1
<1> QED BY <1>2, <1>3, <1>4, <1>5

LEMMA AbsentVolume == Absent \in Volume /\ Absent.letter = NoLetter
BY DEF Absent, Fresh, Volume, Labels

LEMMA CreatedVolume ==
    ASSUME NEW stage, NEW L \in Labels, NEW fs \in Formats \cup {"FAT32"}, NEW mb \in Nat,
           NEW l \in Letter \cup {NoLetter}
    PROVE  Created(stage, L, fs, mb, l) \in Volume /\ Created(stage, L, fs, mb, l).letter = l
BY DEF Created, Fresh, Volume, Labels

-----------------------------------------------------------------------------
(***************************************************************************)
(* In every environment the volumes are well-typed and no letter leads to  *)
(* two of them, and the numbers a thread keeps are numbers of volumes.     *)
(***************************************************************************)
Lists == [Thread -> [present : SUBSET Vol, lines : SUBSET Vol]]
Requests == [iso : Isos, fmt : Formats, mode : Modes]

LInv == Good(vol) /\ req \in Requests /\ listed \in Lists

LEMMA InitLInv == Init => LInv
<1> SUFFICES ASSUME Init PROVE LInv
  OBVIOUS
<1>1. vol = [v \in Vol |-> IF v \in Foreign THEN ForeignVol[v] ELSE Absent]
  BY DEF Init
<1>2. vol \in [Vol -> Volume]
  BY <1>1, AbsentVolume, ConstantsAssumption DEF Vol
<1>3. DistinctLetters(vol)
  <2> SUFFICES ASSUME NEW v \in Vol, NEW w \in Vol,
                      vol[v].letter \in Letter, vol[v].letter = vol[w].letter
               PROVE  v = w
    BY DEF DistinctLetters
  <2>1. v \in Foreign /\ w \in Foreign
    BY <1>1, AbsentVolume, ConstantsAssumption
  <2> QED BY <1>1, <2>1, ConstantsAssumption
<1> QED BY <1>2, <1>3 DEF Init, LInv, Good, Lists, Requests, Unlisted

LEMMA LInvAfter ==
    ASSUME LInv, Good(vol'), req' = req \/ req' \in Requests, listed' = listed \/ listed' \in Lists
    PROVE  LInv'
BY DEF LInv, Good, DistinctLetters, Lists, Requests, Vol

LEMMA ForgottenLists ==
    ASSUME LInv, NEW t \in Thread
    PROVE  [listed EXCEPT ![t] = Unlisted] \in Lists
BY DEF LInv, Lists, Unlisted

\* What a number selects is a volume, or nothing.
LEMMA SelectableVolumes ==
    ASSUME LInv, NEW t \in Thread, NEW n \in listed[t].lines, NEW v \in Selectable(t, vol, n)
    PROVE  v \in Vol \cup {NoVol}
BY DEF LInv, Lists, Selectable, Present

\* The actions that ask diskpart to format, and what they may leave.
LEMMA FormatVolumes ==
    ASSUME LInv, ReformatPartition \/ ReformatEfiPartition
    PROVE  /\ req' = req /\ listed' \in Lists
           /\ \/ vol' = vol
              \/ \E v \in Vol, fs \in Formats \cup {"FAT32"}, L \in OwnLabels :
                    vol' = Formatted(vol, v, fs, L)
              \/ \E v \in Vol : vol' \in HalfFormatted(vol, v)
<1>1. req' = req /\ listed' \in Lists /\ "worker" \in Thread /\ req.fmt \in Formats
  BY ForgottenLists DEF ReformatPartition, ReformatEfiPartition, Thread, LInv, Requests
<1>2. \A n \in listed["worker"].lines : \A v \in Selectable("worker", vol, n) :
        v \in Vol \cup {NoVol}
  BY <1>1, SelectableVolumes
<1>3. Labelled(vol, "ISOBOOT") \subseteq Vol
  BY DEF Labelled
<1>4. CASE ReformatPartition
  <2>1. \/ vol' = vol
        \/ \E v \in Vol : vol' = Formatted(vol, v, req.fmt, "ISOBOOT")
        \/ \E v \in Vol : vol' \in HalfFormatted(vol, v)
    BY <1>2, <1>3, <1>4 DEF ReformatPartition
  <2> QED BY <1>1, <2>1 DEF OwnLabels
<1>5. CASE ReformatEfiPartition
  <2>1. \/ vol' = vol
        \/ \E v \in Vol : vol' = Formatted(vol, v, "FAT32", "ISOEFI")
        \/ \E v \in Vol : vol' \in HalfFormatted(vol, v)
    BY <1>2, <1>5 DEF ReformatEfiPartition
  <2> QED BY <1>1, <2>1 DEF OwnLabels
<1> QED BY <1>4, <1>5

LEMMA FormatKeepsLInv ==
    ASSUME LInv, ReformatPartition \/ ReformatEfiPartition
    PROVE  LInv'
<1>1. Good(vol)
  BY DEF LInv
<1>2. \A v \in Vol, fs \in Formats \cup {"FAT32"}, L \in OwnLabels : Good(Formatted(vol, v, fs, L))
  BY <1>1, FormattedGood DEF Labels
<1>3. \A v \in Vol : \A e \in HalfFormatted(vol, v) : Good(e)
  BY <1>1, HalfFormattedGood
<1>4. Good(vol')
  BY <1>1, <1>2, <1>3, FormatVolumes
<1> QED BY <1>4, FormatVolumes, LInvAfter

\* Looking a volume's number up.
LEMMA FindVolumeLists ==
    ASSUME LInv, NEW L, NEW l, FindVolume(L, l)
    PROVE  listed' \in Lists
<1>1. listed \in Lists /\ "worker" \in Thread
  BY DEF LInv, Thread
<1>2. \A v \in Labelled(vol, L) : ReadAs(vol, v) \subseteq Vol
  BY DEF ReadAs, Present, Labelled
<1>3. CASE listed' = listed
  BY <1>1, <1>3
<1>4. ASSUME NEW w \in Vol,
             listed' = [listed EXCEPT !["worker"] = [present |-> Present(vol), lines |-> {w}]]
      PROVE  listed' \in Lists
  BY <1>1, <1>4 DEF Lists, Present
<1> QED BY <1>2, <1>3, <1>4 DEF FindVolume

LEMMA ScriptedGood ==
    ASSUME NEW d, Good(d), req.fmt \in Formats,
           NEW b \in 0..2, NEW e \in 0..2, NEW v \in Own, NEW w \in Own, v # w,
           NEW l \in FreeLetters(d) \cup {NoLetter}
    PROVE  Good(Scripted(d, b, v, l, e, w))
<1> DEFINE x == IF b > 0 THEN Created(b, "ISOBOOT", req.fmt, IsoBootMB, l) ELSE d[v]
           f == [d EXCEPT ![v] = x]
           y == IF e > 0 THEN Created(e, "ISOEFI", "FAT32", IsoEfiMB, NoLetter) ELSE d[w]
<1>1. d \in [Vol -> Volume] /\ v \in Vol /\ w \in Vol
  BY DEF Good, Vol
<1>2. /\ Created(b, "ISOBOOT", req.fmt, IsoBootMB, l) \in Volume
      /\ Created(b, "ISOBOOT", req.fmt, IsoBootMB, l).letter = l
      /\ Created(e, "ISOEFI", "FAT32", IsoEfiMB, NoLetter) \in Volume
      /\ Created(e, "ISOEFI", "FAT32", IsoEfiMB, NoLetter).letter = NoLetter
  BY CreatedVolume DEF IsoBootMB, IsoEfiMB, Labels, OwnLabels, FreeLetters
<1>3. /\ x \in Volume
      /\ x.letter = d[v].letter \/ x.letter = NoLetter \/ x.letter \in FreeLetters(d)
  BY <1>1, <1>2
<1>4. Good(f)
  BY <1>1, <1>3, ReplaceGood
<1>5. f[w] = d[w]
  BY <1>1
<1>6. y \in Volume /\ (y.letter = f[w].letter \/ y.letter = NoLetter)
  BY <1>1, <1>2, <1>5
<1>7. Good([f EXCEPT ![w] = y])
  BY <1>1, <1>4, <1>6, ReplaceGood
<1>8. Scripted(d, b, v, l, e, w) = [f EXCEPT ![w] = y]
  BY <1>1, <1>5 DEF Scripted
<1> QED BY <1>7, <1>8

LEMMA ScriptVolumes ==
    ASSUME PerformDiskpartOperations
    PROVE  \E r \in DriveLetters(vol, "ISOEFI") :
              \/ vol' = r.d
              \/ \E b, e \in 0..2, v, w \in Own, l \in FreeLetters(r.d) \cup {NoLetter} :
                    v # w /\ vol' = Scripted(r.d, b, v, l, e, w)
<1>1. \E r \in DriveLetters(vol, "ISOEFI") :
        vol' = r.d \/ RunScript(r.d, ~PartitionExists(vol), r.letter = NoLetter)
  BY DEF PerformDiskpartOperations
<1>2. ASSUME NEW d, NEW newB, NEW newE, RunScript(d, newB, newE)
      PROVE  \E b, e \in 0..2, v, w \in Own, l \in FreeLetters(d) \cup {NoLetter} :
                v # w /\ vol' = Scripted(d, b, v, l, e, w)
  BY <1>2 DEF RunScript
<1>3. PICK r \in DriveLetters(vol, "ISOEFI") :
        vol' = r.d \/ RunScript(r.d, ~PartitionExists(vol), r.letter = NoLetter)
  BY <1>1
<1>4. CASE vol' = r.d
  BY <1>4
<1>5. CASE RunScript(r.d, ~PartitionExists(vol), r.letter = NoLetter)
  <2>1. \E b, e \in 0..2, v, w \in Own, l \in FreeLetters(r.d) \cup {NoLetter} :
            v # w /\ vol' = Scripted(r.d, b, v, l, e, w)
    BY <1>2, <1>5
  <2> QED BY <2>1
<1> QED BY <1>3, <1>4, <1>5

LEMMA ScriptKeepsLInv ==
    ASSUME LInv, PerformDiskpartOperations
    PROVE  LInv'
<1>1. req' = req /\ req.fmt \in Formats /\ listed' = listed
  BY DEF LInv, Requests, PerformDiskpartOperations
<1>2. PICK r \in DriveLetters(vol, "ISOEFI") :
        \/ vol' = r.d
        \/ \E b, e \in 0..2, v, w \in Own, l \in FreeLetters(r.d) \cup {NoLetter} :
              v # w /\ vol' = Scripted(r.d, b, v, l, e, w)
  BY ScriptVolumes
<1>3. Good(r.d)
  BY DriveLettersGood DEF LInv
<1>4. Good(vol')
  BY <1>1, <1>2, <1>3, ScriptedGood
<1> QED BY <1>1, <1>4, LInvAfter

\* Actions that only look drives up.
LEMMA LookupKeepsLInv ==
    ASSUME LInv,
           \/ CheckExisting \/ HashCheck \/ CheckDisk \/ DecideCreate
           \/ \E t \in Thread : EnumerateVolumes(t)
    PROVE  LInv'
<1>1. \/ \E r \in EspLetters(vol) : vol' = r.d
      \/ \E r \in DriveLetters(vol, "ISOBOOT") : vol' = r.d
  BY DEF CheckExisting, HashCheck, CheckDisk, DecideCreate, EnumerateVolumes
<1>2. Good(vol')
  BY <1>1, EspLettersGood, DriveLettersGood DEF LInv
<1>3. req' = req /\ listed' = listed
  BY DEF CheckExisting, HashCheck, CheckDisk, DecideCreate, EnumerateVolumes
<1> QED BY <1>2, <1>3, LInvAfter

LEMMA GetDrivesKeepsLInv ==
    ASSUME LInv, GetDrives
    PROVE  LInv'
<1>1. PICK p \in DriveLetters(vol, "ISOBOOT") :
        vol' = p.d \/ \E e \in EspLetters(p.d) : vol' = e.d
  BY DEF GetDrives
<1>2. Good(p.d)
  BY DriveLettersGood DEF LInv
<1>3. Good(vol')
  BY <1>1, <1>2, EspLettersGood
<1>4. req' = req /\ listed' = listed
  BY DEF GetDrives
<1> QED BY <1>3, <1>4, LInvAfter

\* Changing what a volume holds leaves its letter, and another volume, alone.
LEMMA ContentGood ==
    ASSUME NEW d, Good(d), NEW v \in Vol, NEW x \in Volume, x.letter = d[v].letter
    PROVE  Good([d EXCEPT ![v] = x])
BY ReplaceGood

\* The image's files change what one volume holds, and its letter, name and size
\* are what they were.
LEMMA EfiFilesContent ==
    ASSUME NEW d \in [Vol -> Volume], NEW e \in Vol, NEW w \in BOOLEAN
    PROVE  \E x \in Volume : /\ WithEfiFiles(d, e, w) = [d EXCEPT ![e] = x]
                             /\ x.letter = d[e].letter
                             /\ x.label = d[e].label /\ x.mb = d[e].mb
                             /\ x.hash = d[e].hash
<1> DEFINE x == [d[e] EXCEPT !.iso = TRUE, !.mgfw = @ \/ w]
<1>1. d[e].mgfw \/ w \in BOOLEAN
  OBVIOUS
<1>2. /\ x \in Volume /\ x.letter = d[e].letter /\ x.label = d[e].label /\ x.mb = d[e].mb
      /\ x.hash = d[e].hash
  BY <1>1 DEF Volume
<1>3. WithEfiFiles(d, e, w) = [d EXCEPT ![e] = x]
  BY DEF WithEfiFiles
<1> HIDE DEF x
<1> QED BY <1>2, <1>3

LEMMA CopyKeepsLInv ==
    ASSUME LInv, CopyIsoContent
    PROVE  LInv'
<1>1. /\ vol \in [Vol -> Volume] /\ req' = req /\ listed' = listed
      /\ req \in [iso : Isos, fmt : Formats, mode : Modes]
  BY DEF LInv, Requests, Good, CopyIsoContent
<1>2. HashFile \in Seq(Isos \cup Modes \cup Formats \cup {"version", "drivers"})
  BY <1>1 DEF HashFile
<1> DEFINE withHash(d, p) == [d[p] EXCEPT !.hash = HashFile]
<1>3. ASSUME NEW e \in Vol, NEW w \in BOOLEAN
      PROVE  Good(WithEfiFiles(vol, e, w))
  BY <1>1, EfiFilesContent, ContentGood DEF LInv
<1>4. ASSUME NEW d, Good(d), NEW p \in Vol
      PROVE  Good([d EXCEPT ![p].hash = HashFile])
  <2>1. d \in [Vol -> Volume]
    BY <1>4 DEF Good
  <2>2. withHash(d, p) \in Volume /\ withHash(d, p).letter = d[p].letter
    BY <2>1, <1>2 DEF Volume
  <2> QED BY <2>1, <2>2, <1>4, ContentGood
<1>5. Good(vol')
  BY <1>3, <1>4 DEF LInv, CopyIsoContent, WithLetter
<1> QED BY <1>1, <1>5, LInvAfter

LEMMA AssignKeepsLInv ==
    ASSUME LInv, NEW t \in Thread, AssignLetter(t)
    PROVE  LInv'
<1>1. PICK n \in listed[t].lines :
        /\ listed' = [listed EXCEPT ![t].lines = @ \ {n}]
        /\ \/ \E v \in Selectable(t, vol, n) \ {NoVol}, l \in FreeLetters(vol) :
                vol' = [vol EXCEPT ![v].letter = l]
           \/ vol' = vol
  BY DEF AssignLetter
<1>2. \A v \in Selectable(t, vol, n) \ {NoVol} : v \in Vol
  BY SelectableVolumes
<1>3. Good(vol')
  BY <1>1, <1>2, LetterGood DEF LInv
<1>4. listed' \in Lists
  BY <1>1 DEF LInv, Lists
<1>5. req' = req
  BY DEF AssignLetter
<1> QED BY <1>3, <1>4, <1>5, LInvAfter

LEMMA DeleteKeepsLInv ==
    ASSUME LInv, NEW t \in Thread, DeleteVolume(t)
    PROVE  LInv'
<1>1. /\ req' = req /\ listed' = listed
      /\ vol' = vol \/ \E v \in Vol : vol' = [vol EXCEPT ![v] = Absent]
  BY DEF DeleteVolume, WithLetter
<1>2. Good(vol')
  BY <1>1, AbsentVolume, ReplaceGood DEF LInv
<1> QED BY <1>1, <1>2, LInvAfter

LEMMA EnvironmentKeepsLInv ==
    ASSUME LInv, Reboot \/ Mount
    PROVE  LInv'
<1>1. vol \in [Vol -> Volume] /\ req' = req /\ listed' \in Lists
  BY DEF LInv, Good, Reboot, Mount, Stopped, Lists, Unlisted
<1>2. CASE Reboot
  <2>1. \A v \in Vol : /\ vol'[v] \in Volume
                       /\ vol'[v].letter = vol[v].letter \/ vol'[v].letter = NoLetter
    BY <1>1, <1>2 DEF Reboot, Volume
  <2>2. vol' \in [Vol -> Volume]
    BY <1>2, <2>1 DEF Reboot
  <2>3. DistinctLetters(vol')
    BY <2>1, ConstantsAssumption DEF LInv, Good, DistinctLetters
  <2> QED BY <1>1, <2>2, <2>3, LInvAfter DEF Good
<1>3. CASE Mount
  <2>1. PICK v \in Vol, l \in FreeLetters(vol) :
            vol[v].letter = NoLetter /\ vol' = [vol EXCEPT ![v].letter = l]
    BY <1>3 DEF Mount, Vol
  <2> QED BY <2>1, <1>1, AssignGood, LInvAfter DEF LInv
<1> QED BY <1>2, <1>3

LEMMA RestKeepsLInv ==
    ASSUME LInv,
           \/ StartProcess \/ CountEfi \/ StartRecover \/ Crash \/ UNCHANGED vars
           \/ FindDataVolume \/ FindEfiVolume
           \/ \E t \in Thread : ListVolumes(t) \/ ExtendC(t)
    PROVE  LInv'
<1>1. vol' = vol /\ (req' = req \/ req' \in Requests)
  BY DEF StartProcess, CountEfi, StartRecover, Crash, ExtendC, ListVolumes, vars, Requests,
         FindDataVolume, FindEfiVolume
<1>2. CASE FindDataVolume \/ FindEfiVolume
  BY <1>1, <1>2, FindVolumeLists, LInvAfter DEF LInv, FindDataVolume, FindEfiVolume
<1>3. CASE \E t \in Thread : ListVolumes(t)
  <2>1. PICK t \in Thread, S \in SUBSET Vol :
            listed' = [listed EXCEPT ![t] = [present |-> Present(vol), lines |-> S]]
    BY <1>3 DEF ListVolumes, Listed, Labelled
  <2>2. listed' \in Lists
    BY <2>1 DEF LInv, Lists, Present
  <2> QED BY <1>1, <2>2, LInvAfter DEF LInv
<1>4. CASE Crash
  BY <1>1, <1>4, LInvAfter DEF Crash, Stopped, Lists, Unlisted, LInv
<1>5. CASE StartProcess \/ CountEfi \/ StartRecover \/ UNCHANGED vars \/ \E t \in Thread : ExtendC(t)
  <2>1. listed' = listed
    BY <1>5 DEF StartProcess, CountEfi, StartRecover, ExtendC, vars
  <2> QED BY <1>1, <2>1, LInvAfter DEF LInv
<1> QED BY <1>2, <1>3, <1>4, <1>5

LEMMA NextKeepsLInv == LInv /\ [Next]_vars => LInv'
<1> SUFFICES ASSUME LInv, [Next]_vars PROVE LInv'
  OBVIOUS
<1>1. CASE WorkerStep
  BY <1>1, RestKeepsLInv, LookupKeepsLInv, FormatKeepsLInv, ScriptKeepsLInv,
     GetDrivesKeepsLInv, CopyKeepsLInv DEF WorkerStep
<1>2. CASE \E t \in Thread : RecoverStep(t)
  BY <1>2, LookupKeepsLInv, AssignKeepsLInv, DeleteKeepsLInv, RestKeepsLInv DEF RecoverStep
<1>3. CASE Reboot \/ Mount
  BY <1>3, EnvironmentKeepsLInv
<1>4. CASE StartProcess \/ StartRecover \/ Crash \/ UNCHANGED vars
  BY <1>4, RestKeepsLInv
<1> QED BY <1>1, <1>2, <1>3, <1>4 DEF Next

-----------------------------------------------------------------------------
(***************************************************************************)
(* With diskpart speaking Spanish and Recover left alone while a process   *)
(* runs, no step deletes or formats a volume of someone else's.  The       *)
(* letters a recovery has still to delete are the heart of it: each one    *)
(* leads to a volume of ours, and to no other, until it is deleted.        *)
(***************************************************************************)
Ours(d) ==
    /\ \A v \in Foreign : d[v].label = ForeignVol[v].label /\ d[v].fs = ForeignVol[v].fs
    /\ \A v \in Own : d[v].letter \in Letter \cup {NoLetter}

Control ==
    /\ pc \in [Thread -> PcValues]
    /\ ret \in [Thread -> {"idle", "exists", "script"}]
    /\ todo \in [Thread -> SUBSET (Letter \cup {NoLetter, "fixed"})]
    /\ \A t, u \in Thread : pc[t] # "idle" /\ pc[u] # "idle" => t = u
    /\ \A t \in Thread : pc[t] \notin {"assign", "delete"} => todo[t] = {}

Held == \A t \in Thread : \A l \in todo[t] :
            l = NoLetter \/ \E v \in Own : vol[v].letter = l

\* The numbers that t keeps still mean what they meant, volumes with a label in Ls.
Known(t, Ls) ==
    /\ listed[t].present = Present(vol)
    /\ \A v \in listed[t].lines : vol[v].label \in Ls

Numbers ==
    /\ pc["worker"] = "format" => Known("worker", {"ISOBOOT"})
    /\ pc["worker"] = "formatEfi" => Known("worker", {"ISOEFI"})
    /\ \A t \in Thread : pc[t] = "assign" =>
            /\ Known(t, OwnLabels)
            /\ \A v \in listed[t].lines : vol[v].letter = NoLetter

OInv == LInv /\ Ours(vol) /\ Control /\ Held /\ Numbers

LEMMA LetteringOurs ==
    ASSUME NEW d, NEW e, Ours(d), Lettering(d, e)
    PROVE  Ours(e)
BY DEF Ours, Lettering, Vol

\* A volume labelled ISOBOOT or ISOEFI is one of ours.
LEMMA LabelledOurs ==
    ASSUME NEW d, Ours(d), NEW L \in OwnLabels, NEW v \in Labelled(d, L)
    PROVE  v \in Own
<1>1. v \in Vol /\ d[v].label = L
  BY DEF Labelled
<1>2. v \in Foreign => ForeignVol[v].label \in {"SYSTEM", "other"}
  BY ConstantsAssumption
<1> QED BY <1>1, <1>2 DEF Ours, OwnLabels, Vol

\* A number that still means what it meant selects its volume.
LEMMA KnownSelects ==
    ASSUME LInv, NEW t \in Thread, NEW Ls, Known(t, Ls),
           NEW n \in listed[t].lines, NEW v \in Selectable(t, vol, n)
    PROVE  v = n /\ v \in Vol /\ vol[v].label \in Ls
BY DEF Known, Selectable, LInv, Lists

LEMMA InitOInv == Init => OInv
<1> SUFFICES ASSUME Init PROVE OInv
  OBVIOUS
<1>1. LInv
  BY InitLInv
<1>2. Ours(vol)
  BY ConstantsAssumption, AbsentVolume DEF Init, Ours, Vol
<1>3. Control /\ Held /\ Numbers
  BY DEF Init, Control, Held, Numbers, PcValues, Thread
<1> QED BY <1>1, <1>2, <1>3 DEF OInv

LEMMA ReplaceOurs ==
    ASSUME NEW d, Good(d), Ours(d), NEW v \in Own, NEW x \in Volume,
           x.letter \in Letter \cup {NoLetter}
    PROVE  Ours([d EXCEPT ![v] = x])
<1> DEFINE e == [d EXCEPT ![v] = x]
<1>1. v \in Vol /\ v \notin Foreign /\ DOMAIN d = Vol
  BY ConstantsAssumption DEF Vol, Good
<1>2. e[v] = x /\ \A w \in Vol : w # v => e[w] = d[w]
  BY <1>1
<1> HIDE DEF e
<1>3. Ours(e)
  BY <1>1, <1>2 DEF Ours, Vol
<1> QED BY <1>3 DEF e

\* What a format may do when numbers are known and labels are those of diskpart
\* in Spanish: the volume that it touches carries the label that it is given.
LEMMA FormatSteps ==
    ASSUME OInv
    PROVE  /\ ReformatPartition =>
                \/ vol' = vol /\ Goto("worker", "idle")
                \/ \E v \in Vol :
                    /\ vol[v].label = "ISOBOOT"
                    /\ \/ vol' = Formatted(vol, v, req.fmt, "ISOBOOT") /\ Goto("worker", "drives")
                       \/ vol' \in HalfFormatted(vol, v) /\ Goto("worker", "idle")
           /\ ReformatEfiPartition =>
                \/ vol' = vol /\ Goto("worker", "idle")
                \/ \E v \in Vol :
                    /\ vol[v].label = "ISOEFI"
                    /\ \/ /\ vol' = Formatted(vol, v, "FAT32", "ISOEFI")
                          /\ Goto("worker", "extract") \/ Goto("worker", "idle")
                       \/ vol' \in HalfFormatted(vol, v) /\ Goto("worker", "idle")
<1>1. LInv /\ Numbers /\ "worker" \in Thread
  BY DEF OInv, Thread
<1>2. ASSUME ReformatPartition
      PROVE  \/ vol' = vol /\ Goto("worker", "idle")
             \/ \E v \in Vol :
                /\ vol[v].label = "ISOBOOT"
                /\ \/ vol' = Formatted(vol, v, req.fmt, "ISOBOOT") /\ Goto("worker", "drives")
                   \/ vol' \in HalfFormatted(vol, v) /\ Goto("worker", "idle")
  <2>1. Known("worker", {"ISOBOOT"})
    BY <1>1, <1>2 DEF Numbers, ReformatPartition
  <2>2. \A n \in listed["worker"].lines : \A v \in Selectable("worker", vol, n) :
            v \in Vol /\ vol[v].label = "ISOBOOT"
    BY <1>1, <2>1, KnownSelects
  <2>3. \A w \in Labelled(vol, "ISOBOOT") : w \in Vol /\ vol[w].label = "ISOBOOT"
    BY DEF Labelled
  <2> QED BY <1>2, <2>2, <2>3 DEF ReformatPartition
<1>3. ASSUME ReformatEfiPartition
      PROVE  \/ vol' = vol /\ Goto("worker", "idle")
             \/ \E v \in Vol :
                /\ vol[v].label = "ISOEFI"
                /\ \/ /\ vol' = Formatted(vol, v, "FAT32", "ISOEFI")
                      /\ Goto("worker", "extract") \/ Goto("worker", "idle")
                   \/ vol' \in HalfFormatted(vol, v) /\ Goto("worker", "idle")
  <2>1. Known("worker", {"ISOEFI"})
    BY <1>1, <1>3 DEF Numbers, ReformatEfiPartition
  <2>2. \A n \in listed["worker"].lines : \A v \in Selectable("worker", vol, n) :
            v \in Vol /\ vol[v].label = "ISOEFI"
    BY <1>1, <2>1, KnownSelects
  <2> QED BY <1>3, <2>2 DEF ReformatEfiPartition
<1> QED BY <1>2, <1>3

LEMMA WorkerVolumesOurs ==
    ASSUME OInv, WorkerStep
    PROVE  Ours(vol')
<1>0. Good(vol) /\ Ours(vol) /\ vol \in [Vol -> Volume]
  BY DEF OInv, LInv, Good
<1>1. CASE CountEfi \/ FindDataVolume \/ FindEfiVolume
  BY <1>0, <1>1 DEF CountEfi, FindDataVolume, FindEfiVolume
<1>2. CASE CheckExisting \/ HashCheck \/ CheckDisk \/ DecideCreate
  <2>1. \/ \E r \in EspLetters(vol) : vol' = r.d
        \/ \E r \in DriveLetters(vol, "ISOBOOT") : vol' = r.d
    BY <1>2 DEF CheckExisting, HashCheck, CheckDisk, DecideCreate
  <2> QED BY <1>0, <2>1, EspLettersGood, DriveLettersGood, LetteringOurs
<1>3. CASE GetDrives
  <2>1. PICK p \in DriveLetters(vol, "ISOBOOT") :
            vol' = p.d \/ \E e \in EspLetters(p.d) : vol' = e.d
    BY <1>3 DEF GetDrives
  <2>2. Good(p.d) /\ Ours(p.d)
    BY <1>0, DriveLettersGood, LetteringOurs
  <2> QED BY <2>1, <2>2, EspLettersGood, LetteringOurs
<1>4. CASE ReformatPartition \/ ReformatEfiPartition
  <2>1. \/ vol' = vol
        \/ \E v \in Own, fs \in Formats \cup {"FAT32"}, L \in OwnLabels :
              vol' = Formatted(vol, v, fs, L)
        \/ \E v \in Own : vol' \in HalfFormatted(vol, v)
    <3>1. req.fmt \in Formats
      BY DEF OInv, LInv, Requests
    <3>2. \A v \in Vol : vol[v].label \in OwnLabels => v \in Own
      BY <1>0, LabelledOurs DEF Labelled
    <3>3. CASE ReformatPartition
      BY <3>1, <3>2, <3>3, FormatSteps DEF OwnLabels
    <3>4. CASE ReformatEfiPartition
      BY <3>2, <3>4, FormatSteps DEF OwnLabels
    <3> QED BY <1>4, <3>3, <3>4
  <2>2. ASSUME NEW v \in Own, NEW fs \in Formats \cup {"FAT32"}, NEW L \in OwnLabels
        PROVE  Ours(Formatted(vol, v, fs, L))
    <3>1. v \in Vol /\ v \notin Foreign /\ L \in Labels
      BY ConstantsAssumption DEF Vol, Labels
    <3>2. /\ \A w \in Vol : w # v => Formatted(vol, v, fs, L)[w] = vol[w]
          /\ \A w \in Vol : Formatted(vol, v, fs, L)[w].letter = vol[w].letter
      BY <1>0, <3>1, FormattedGood
    <3> QED BY <1>0, <3>1, <3>2 DEF Ours, Vol
  <2>3. ASSUME NEW v \in Own, vol' \in HalfFormatted(vol, v)
        PROVE  Ours(vol')
    <3>1. v \in Vol /\ v \notin Foreign
      BY ConstantsAssumption DEF Vol
    <3>2. /\ \A w \in Vol : w # v => vol'[w] = vol[w]
          /\ \A w \in Vol : vol'[w].letter = vol[w].letter
      BY <1>0, <2>3, <3>1, HalfFormattedGood
    <3> QED BY <1>0, <3>1, <3>2 DEF Ours, Vol
  <2> QED BY <1>0, <2>1, <2>2, <2>3
<1>5. CASE PerformDiskpartOperations
  <2>1. PICK r \in DriveLetters(vol, "ISOEFI") :
          \/ vol' = r.d
          \/ \E b, e \in 0..2, v, w \in Own, l \in FreeLetters(r.d) \cup {NoLetter} :
                v # w /\ vol' = Scripted(r.d, b, v, l, e, w)
    BY <1>5, ScriptVolumes
  <2>2. Good(r.d) /\ Ours(r.d)
    BY <1>0, DriveLettersGood, LetteringOurs
  <2>3. ASSUME NEW b \in 0..2, NEW e \in 0..2, NEW v \in Own, NEW w \in Own, v # w,
               NEW l \in FreeLetters(r.d) \cup {NoLetter}
        PROVE  Ours(Scripted(r.d, b, v, l, e, w))
    <3> DEFINE x == Scripted(r.d, b, v, l, e, w)
    <3>1. /\ Created(b, "ISOBOOT", req.fmt, IsoBootMB, l).letter = l
          /\ Created(e, "ISOEFI", "FAT32", IsoEfiMB, NoLetter).letter = NoLetter
      BY DEF Created, Fresh
    <3>2. r.d \in [Vol -> Volume] /\ v \in Vol /\ w \in Vol /\ v \notin Foreign /\ w \notin Foreign
      BY <2>2, ConstantsAssumption DEF Good, Vol
    <3>3. \A u \in Vol : u # v /\ u # w => x[u] = r.d[u]
      BY <3>2 DEF Scripted
    <3>4. x[v].letter \in {l, r.d[v].letter} /\ x[w].letter \in {NoLetter, r.d[w].letter}
      <4>1. x[v] = IF b > 0 THEN Created(b, "ISOBOOT", req.fmt, IsoBootMB, l) ELSE r.d[v]
        BY <2>3, <3>2 DEF Scripted
      <4>2. x[w] = IF e > 0 THEN Created(e, "ISOEFI", "FAT32", IsoEfiMB, NoLetter) ELSE r.d[w]
        BY <2>3, <3>2 DEF Scripted
      <4> HIDE DEF x
      <4> QED BY <3>1, <4>1, <4>2
    <3>5. l \in Letter \cup {NoLetter}
      BY DEF FreeLetters
    <3> HIDE DEF x
    <3>6. Ours(x)
      BY <2>2, <3>2, <3>3, <3>4, <3>5 DEF Ours, Vol
    <3> QED BY <3>6 DEF x
  <2> QED BY <2>1, <2>2, <2>3
<1>6. CASE CopyIsoContent
  <2>1. ASSUME NEW d \in [Vol -> Volume], NEW v \in Vol, Ours(d)
        PROVE  /\ \A w : Ours(WithEfiFiles(d, v, w))
               /\ \A h : Ours([d EXCEPT ![v].hash = h])
    BY <2>1 DEF Ours, Volume, Vol, WithEfiFiles
  <2>2. CASE vol' = vol
    BY <1>0, <2>2
  <2>3. ASSUME NEW e \in Vol, NEW w \in BOOLEAN
        PROVE  WithEfiFiles(vol, e, w) \in [Vol -> Volume] /\ Ours(WithEfiFiles(vol, e, w))
    BY <1>0, <2>1, EfiFilesContent
  <2>4. ASSUME NEW e \in Vol, NEW w \in BOOLEAN, vol' = WithEfiFiles(vol, e, w)
        PROVE  Ours(vol')
    BY <2>3, <2>4
  <2>5. ASSUME NEW e \in Vol, NEW w \in BOOLEAN, NEW p \in Vol,
               vol' = [WithEfiFiles(vol, e, w) EXCEPT ![p].hash = HashFile]
        PROVE  Ours(vol')
    BY <2>1, <2>3, <2>5
  <2> QED BY <1>6, <2>2, <2>4, <2>5 DEF CopyIsoContent, WithLetter
<1> QED BY <1>1, <1>2, <1>3, <1>4, <1>5, <1>6 DEF WorkerStep

\* A step of the worker leads anywhere but to the middle of a deletion.
LEMMA WorkerMoves ==
    ASSUME WorkerStep
    PROVE  /\ pc["worker"] \in PcValues \ {"idle", "assign", "delete"}
           /\ todo' = todo
           /\ \E x \in PcValues \ {"assign", "delete"} :
                /\ pc' = [pc EXCEPT !["worker"] = x]
                /\ x \in {"format", "formatEfi"} => FindDataVolume \/ FindEfiVolume
           /\ \/ ret' = ret
              \/ \E x \in {"exists", "script"} : ret' = [ret EXCEPT !["worker"] = x]
<1>1. CASE CountEfi \/ DecideCreate
  BY <1>1 DEF CountEfi, DecideCreate, Goto, Call, PcValues
<1>2. CASE CheckExisting \/ HashCheck
  BY <1>2 DEF CheckExisting, HashCheck, Goto, PcValues
<1>3. CASE CheckDisk
  BY <1>3 DEF CheckDisk, AfterIntegrityCheck, Goto, PcValues
<1>4. CASE FindDataVolume \/ FindEfiVolume
  BY <1>4 DEF FindDataVolume, FindEfiVolume, FindVolume, Goto, PcValues
<1>5. CASE ReformatPartition \/ ReformatEfiPartition
  BY <1>5 DEF ReformatPartition, ReformatEfiPartition, Goto, PcValues
<1>6. CASE PerformDiskpartOperations
  <2>1. /\ pc["worker"] = "script" /\ todo' = todo /\ ret' = ret
        /\ \E r \in DriveLetters(vol, "ISOEFI") :
              \/ Goto("worker", "idle")
              \/ RunScript(r.d, ~PartitionExists(vol), r.letter = NoLetter)
    BY <1>6 DEF PerformDiskpartOperations
  <2>2. ASSUME NEW d, NEW newB, NEW newE, RunScript(d, newB, newE)
        PROVE  Goto("worker", "idle") \/ Goto("worker", "drives")
    BY <2>2 DEF RunScript
  <2>3. Goto("worker", "idle") \/ Goto("worker", "drives")
    BY <2>1, <2>2
  <2> QED BY <2>1, <2>3 DEF Goto, PcValues
<1>7. CASE GetDrives \/ CopyIsoContent
  BY <1>7 DEF GetDrives, CopyIsoContent, Goto, PcValues
<1> QED BY <1>1, <1>2, <1>3, <1>4, <1>5, <1>6, <1>7 DEF WorkerStep

\* It is taken by the only thread there is, which has nothing left to delete.
LEMMA WorkerControl ==
    ASSUME OInv, WorkerStep, Locale = "es"
    PROVE  Control' /\ Held' /\ Numbers'
<1>1. Control /\ Held /\ listed \in Lists
  BY DEF OInv, LInv
<1>2. PICK x \in PcValues \ {"assign", "delete"} :
        /\ pc' = [pc EXCEPT !["worker"] = x]
        /\ x \in {"format", "formatEfi"} => FindDataVolume \/ FindEfiVolume
  BY WorkerMoves
<1>3. /\ pc["worker"] \in PcValues \ {"idle", "assign", "delete"}
      /\ todo' = todo
      /\ \/ ret' = ret
         \/ \E y \in {"exists", "script"} : ret' = [ret EXCEPT !["worker"] = y]
  BY WorkerMoves
<1>4. /\ "worker" \in Thread /\ pc'["worker"] = x
      /\ \A t \in Thread : t # "worker" => pc[t] = "idle" /\ pc'[t] = "idle"
  BY <1>1, <1>2, <1>3 DEF Control, Thread
<1>5. \A t \in Thread : todo'[t] = {}
  BY <1>1, <1>3, <1>4 DEF Control
<1>6. Control'
  <2>1. pc' \in [Thread -> PcValues]
    BY <1>1, <1>2 DEF Control
  <2>2. ret' \in [Thread -> {"idle", "exists", "script"}]
    BY <1>1, <1>3 DEF Control
  <2>3. todo' \in [Thread -> SUBSET (Letter \cup {NoLetter, "fixed"})]
    BY <1>1, <1>3 DEF Control
  <2> QED BY <1>4, <1>5, <2>1, <2>2, <2>3 DEF Control
<1>7. Held'
  BY <1>5 DEF Held
<1>8. \A t \in Thread : pc'[t] # "assign"
  BY <1>2, <1>4
<1>9. Numbers'
  <2>1. CASE x \notin {"format", "formatEfi"}
    BY <1>4, <1>8, <2>1 DEF Numbers
  <2>2. ASSUME NEW L, NEW l, FindVolume(L, l), vol' = vol, pc'["worker"] # "idle"
        PROVE  pc'["worker"] = l /\ Known("worker", {L})'
    <3>1. PICK v \in Labelled(vol, L) : \E w \in ReadAs(vol, v) :
            /\ listed' = [listed EXCEPT !["worker"] = [present |-> Present(vol), lines |-> {w}]]
            /\ Goto("worker", l)
      BY <1>1, <1>4, <2>2 DEF FindVolume, Goto, Control
    <3>2. /\ listed'["worker"] = [present |-> Present(vol), lines |-> {v}]
          /\ vol[v].label = L
      BY <1>1, <1>4, <3>1 DEF Lists, ReadAs, Labelled
    <3> QED BY <1>1, <1>4, <2>2, <3>1, <3>2 DEF Known, Goto, Control
  <2>3. CASE x = "format" \/ x = "formatEfi"
    <3>1. vol' = vol /\ pc'["worker"] # "idle"
      BY <1>2, <1>4, <2>3 DEF FindDataVolume, FindEfiVolume
    <3>2. FindVolume("ISOBOOT", "format") \/ FindVolume("ISOEFI", "formatEfi")
      BY <1>2, <2>3 DEF FindDataVolume, FindEfiVolume
    <3>3. \/ pc'["worker"] = "format" /\ Known("worker", {"ISOBOOT"})'
          \/ pc'["worker"] = "formatEfi" /\ Known("worker", {"ISOEFI"})'
      BY <2>2, <3>1, <3>2
    <3> QED BY <1>8, <3>3 DEF Numbers
  <2> QED BY <2>1, <2>3
<1> QED BY <1>6, <1>7, <1>9

LEMMA StartControl ==
    ASSUME OInv, StartProcess \/ StartRecover, "overlap" \notin Env
    PROVE  Ours(vol') /\ Control' /\ Held' /\ Numbers'
<1>1. Ours(vol) /\ Control /\ Held
  BY DEF OInv
<1>2. /\ vol' = vol /\ todo' = todo
      /\ \A t \in Thread : pc[t] = "idle"
      /\ \E t \in Thread, x \in {"count", "enumerate"} : pc' = [pc EXCEPT ![t] = x]
      /\ ret' = ret \/ \E t \in Thread : ret' = [ret EXCEPT ![t] = "idle"]
  BY DEF StartProcess, StartRecover, Alone, Goto, Call, Thread
<1>3. \A t \in Thread : todo'[t] = {} /\ pc'[t] \in {"idle", "count", "enumerate"}
  BY <1>1, <1>2 DEF Control
<1>4. pc' \in [Thread -> PcValues] /\ \A t, u \in Thread : pc'[t] # "idle" /\ pc'[u] # "idle" => t = u
  BY <1>1, <1>2 DEF Control, PcValues
<1>5. ret' \in [Thread -> {"idle", "exists", "script"}]
  BY <1>1, <1>2 DEF Control
<1>6. Numbers'
  BY <1>3 DEF Numbers, Thread
<1> QED BY <1>1, <1>2, <1>3, <1>4, <1>5, <1>6 DEF Control, Held

LEMMA EnumerateOurs ==
    ASSUME OInv, NEW t \in Thread, EnumerateVolumes(t)
    PROVE  Ours(vol') /\ Control' /\ Held' /\ Numbers'
<1>0. Control /\ Ours(vol) /\ Good(vol)
  BY DEF OInv, LInv
<1>1. \E r \in EspLetters(vol) : vol' = r.d
  BY DEF EnumerateVolumes
<1>2. Ours(vol')
  BY <1>0, <1>1, EspLettersGood, LetteringOurs
<1>3. /\ pc[t] = "enumerate" /\ pc' = [pc EXCEPT ![t] = "list"]
      /\ ret' = ret /\ todo' = todo
  BY DEF EnumerateVolumes, Goto
<1>4. /\ \A u \in Thread : todo'[u] = {} /\ (u # t => pc[u] = "idle" /\ pc'[u] = "idle")
      /\ pc'[t] = "list"
  BY <1>0, <1>3 DEF Control
<1>5. Control'
  BY <1>0, <1>3, <1>4 DEF Control, PcValues
<1> QED BY <1>2, <1>4, <1>5 DEF Held, Numbers, Thread

LEMMA ListOurs ==
    ASSUME OInv, NEW t \in Thread, ListVolumes(t)
    PROVE  Ours(vol') /\ Control' /\ Held' /\ Numbers'
<1>0. Control /\ Ours(vol) /\ Good(vol) /\ listed \in Lists
  BY DEF OInv, LInv
<1>1. PICK found \in {Listed(vol)} \cup {S \in {{}} : Faulty} :
       LET bare == {v \in found : vol[v].letter = NoLetter}
       IN  /\ listed' = [listed EXCEPT ![t] = [present |-> Present(vol), lines |-> bare]]
           /\ todo' = [todo EXCEPT ![t] = {vol[v].letter : v \in found \ bare}]
           /\ Goto(t, IF bare = {} THEN "delete" ELSE "assign")
  BY DEF ListVolumes
<1> DEFINE bare == {v \in found : vol[v].letter = NoLetter}
<1>2. \A v \in found : v \in Own /\ vol[v].label \in OwnLabels
  <2>1. \A v \in Listed(vol) : v \in Own /\ vol[v].label \in OwnLabels
    BY <1>0, LabelledOurs DEF Listed, Labelled, OwnLabels
  <2> QED BY <2>1
<1>3. vol' = vol /\ ret' = ret /\ pc[t] = "list" /\ \E x \in {"assign", "delete"} : pc' = [pc EXCEPT ![t] = x]
  BY <1>1 DEF ListVolumes, Goto
<1>4. /\ listed'[t] = [present |-> Present(vol), lines |-> bare]
      /\ todo'[t] = {vol[v].letter : v \in found \ bare}
      /\ \A u \in Thread : u # t => todo'[u] = todo[u]
  BY <1>0, <1>1 DEF Control, Lists
<1>5. \A u \in Thread : u # t => pc[u] = "idle" /\ pc'[u] = "idle" /\ todo'[u] = {}
  BY <1>0, <1>3, <1>4 DEF Control
<1>6. pc'[t] \in {"assign", "delete"} /\ pc' \in [Thread -> PcValues]
  BY <1>0, <1>3 DEF Control, PcValues
<1>7. todo'[t] \subseteq Letter /\ \A l \in todo'[t] : \E v \in Own : vol[v].letter = l
  BY <1>0, <1>2, <1>4 DEF Ours
<1>8. Control'
  <2>1. todo' \in [Thread -> SUBSET (Letter \cup {NoLetter, "fixed"})]
    BY <1>0, <1>1, <1>2 DEF Control, Ours
  <2> QED BY <1>0, <1>3, <1>5, <1>6, <2>1 DEF Control
<1>9. Held'
  BY <1>3, <1>5, <1>7 DEF Held
<1>10. Numbers'
  <2>1. Known(t, OwnLabels)' /\ \A v \in listed'[t].lines : vol'[v].letter = NoLetter
    BY <1>2, <1>3, <1>4 DEF Known, Present
  <2>2. \A u \in Thread : pc'[u] # "format" /\ pc'[u] # "formatEfi" /\ (pc'[u] = "assign" => u = t)
    BY <1>5, <1>6
  <2> QED BY <2>1, <2>2 DEF Numbers, Thread
<1> QED BY <1>0, <1>3, <1>8, <1>9, <1>10

LEMMA AssignOurs ==
    ASSUME OInv, NEW t \in Thread, AssignLetter(t)
    PROVE  Ours(vol') /\ Control' /\ Held' /\ Numbers'
<1>0. /\ Control /\ Held /\ Ours(vol) /\ Good(vol) /\ listed \in Lists /\ LInv
      /\ Known(t, OwnLabels) /\ \A v \in listed[t].lines : vol[v].letter = NoLetter
      /\ pc[t] = "assign"
  BY DEF OInv, LInv, AssignLetter, Numbers
<1>1. PICK n \in listed[t].lines :
        /\ listed' = [listed EXCEPT ![t].lines = @ \ {n}]
        /\ \E x \in {"assign", "delete"} : pc' = [pc EXCEPT ![t] = x]
        /\ \/ \E v \in Selectable(t, vol, n), l \in FreeLetters(vol) :
                /\ vol' = [vol EXCEPT ![v].letter = l]
                /\ todo' = [todo EXCEPT ![t] = @ \cup {l}]
           \/ vol' = vol /\ todo' = [todo EXCEPT ![t] = @ \cup {NoLetter}]
  BY DEF AssignLetter, Goto
<1>2. n \in Vol /\ vol[n].label \in OwnLabels /\ vol[n].letter = NoLetter
  BY <1>0 DEF Known, Lists
<1>3. n \in Own
  BY <1>0, <1>2, LabelledOurs DEF Labelled
<1>4. PICK l : /\ todo' = [todo EXCEPT ![t] = @ \cup {l}]
               /\ \/ l \in FreeLetters(vol) /\ vol' = [vol EXCEPT ![n].letter = l]
                  \/ l = NoLetter /\ vol' = vol
  <2>1. \A v \in Selectable(t, vol, n) : v = n
    BY <1>0, KnownSelects
  <2> QED BY <1>1, <2>1
<1>5. /\ \A v \in Vol : v # n => vol'[v] = vol[v]
      /\ vol'[n].letter = l /\ vol'[n].label = vol[n].label /\ vol'[n].fs = vol[n].fs
  <2>1. CASE l \in FreeLetters(vol) /\ vol' = [vol EXCEPT ![n].letter = l]
    <3> HIDE <1>4
    <3>1. \A v \in Vol : v # n => vol'[v] = vol[v]
      BY <1>0, <1>2, <2>1, LetterGood
    <3>2. vol'[n].letter = l /\ vol'[n].label = vol[n].label /\ vol'[n].fs = vol[n].fs
      BY <1>0, <1>2, <2>1, LetterGood
    <3> QED BY <3>1, <3>2
  <2>2. CASE l = NoLetter /\ vol' = vol
    BY <1>2, <2>2
  <2> QED BY <1>4, <2>1, <2>2
<1>6. l \in Letter \cup {NoLetter}
  BY <1>4 DEF FreeLetters
<1>7. Ours(vol')
  <2>1. n \notin Foreign
    BY <1>3, ConstantsAssumption
  <2> QED BY <1>0, <1>5, <1>6, <2>1 DEF Ours, Vol
<1>8. /\ \A u \in Thread : u # t => pc[u] = "idle" /\ pc'[u] = "idle" /\ todo'[u] = {}
      /\ pc'[t] \in {"assign", "delete"} /\ pc' \in [Thread -> PcValues]
      /\ todo'[t] = todo[t] \cup {l}
  BY <1>0, <1>1, <1>4 DEF Control, PcValues
<1>9. Control'
  <2>1. todo' \in [Thread -> SUBSET (Letter \cup {NoLetter, "fixed"})]
    BY <1>0, <1>4, <1>6 DEF Control
  <2>2. ret' = ret
    BY DEF AssignLetter
  <2> QED BY <1>0, <1>8, <2>1, <2>2 DEF Control
<1>10. Held'
  <2> SUFFICES ASSUME NEW k \in todo'[t], k # NoLetter PROVE \E v \in Own : vol'[v].letter = k
    BY <1>8 DEF Held
  <2>1. CASE k = l
    BY <1>3, <1>5, <2>1
  <2>2. CASE k # l
    <3>1. PICK v \in Own : vol[v].letter = k
      BY <1>0, <1>8, <2>2 DEF Held
    <3>2. v # n /\ v \in Vol
      BY <1>2, <3>1 DEF Vol
    <3> QED BY <1>5, <3>1, <3>2
  <2> QED BY <2>1, <2>2
<1>11. Numbers'
  <2>1. Present(vol') = Present(vol)
    BY <1>5 DEF Present
  <2>2. listed'[t] = [present |-> listed[t].present, lines |-> listed[t].lines \ {n}]
    BY <1>0, <1>1 DEF Lists
  <2>3. Known(t, OwnLabels)' /\ \A v \in listed'[t].lines : vol'[v].letter = NoLetter
    BY <1>0, <1>5, <2>1, <2>2 DEF Known, Lists
  <2>4. \A u \in Thread : pc'[u] # "format" /\ pc'[u] # "formatEfi" /\ (pc'[u] = "assign" => u = t)
    BY <1>8
  <2> QED BY <2>3, <2>4 DEF Numbers, Thread
<1> QED BY <1>7, <1>9, <1>10, <1>11

LEMMA DeleteOurs ==
    ASSUME OInv, NEW t \in Thread, DeleteVolume(t)
    PROVE  Ours(vol') /\ Control' /\ Held' /\ Numbers'
<1>0. Control /\ Held /\ Ours(vol) /\ Good(vol) /\ vol \in [Vol -> Volume]
  BY DEF OInv, LInv, Good
<1>1. PICK l \in todo[t] :
        /\ todo' = [todo EXCEPT ![t] = @ \ {l}]
        /\ \/ vol' = vol
           \/ \E v \in WithLetter(vol, l) : l # NoLetter /\ vol' = [vol EXCEPT ![v] = Absent]
  BY DEF DeleteVolume, NextLetter
<1>2. pc' = pc /\ ret' = ret /\ pc[t] = "delete"
  BY DEF DeleteVolume
<1>3. \A u \in Thread : todo'[u] \subseteq todo[u] /\ l \notin todo'[u]
  BY <1>0, <1>1, <1>2 DEF Control
<1>4. Control'
  <2>1. todo' \in [Thread -> SUBSET (Letter \cup {NoLetter, "fixed"})]
    BY <1>0, <1>1 DEF Control
  <2> QED BY <1>0, <1>2, <1>3, <2>1 DEF Control
<1>5. Numbers'
  <2>1. \A u \in Thread : pc'[u] \in {"idle", "delete"}
    BY <1>0, <1>2 DEF Control
  <2> QED BY <2>1 DEF Numbers, Thread
<1>6. CASE vol' = vol
  <2>1. Held'
    BY <1>0, <1>3, <1>6 DEF Held
  <2> QED BY <1>0, <1>4, <1>5, <1>6, <2>1
<1>7. CASE \E v \in WithLetter(vol, l) : l # NoLetter /\ vol' = [vol EXCEPT ![v] = Absent]
  <2>1. PICK v \in Vol : vol[v].letter = l /\ vol' = [vol EXCEPT ![v] = Absent]
    BY <1>7 DEF WithLetter
  <2>2. PICK w \in Own : vol[w].letter = l
    BY <1>0, <1>7 DEF Held
  <2>3. l \in Letter /\ w \in Vol
    BY <1>0, <1>7, <2>2 DEF Ours, Vol
  <2>4. v \in Own
    BY <1>0, <2>1, <2>2, <2>3 DEF Good, DistinctLetters
  <2>5. Ours(vol')
    BY <1>0, <2>1, <2>4, AbsentVolume, ReplaceOurs
  <2>6. \A u \in Vol : vol[u].letter # l => vol'[u] = vol[u]
    BY <1>0, <2>1
  <2>7. Held'
    BY <1>0, <1>3, <2>6 DEF Held, Vol
  <2> QED BY <1>4, <1>5, <2>5, <2>7
<1> QED BY <1>1, <1>6, <1>7

LEMMA ExtendOurs ==
    ASSUME OInv, NEW t \in Thread, ExtendC(t)
    PROVE  Ours(vol') /\ Control' /\ Held' /\ Numbers'
<1>0. Control /\ Held /\ Ours(vol)
  BY DEF OInv
<1>1. /\ vol' = vol /\ ret' = ret /\ todo' = todo /\ todo[t] = {} /\ pc[t] # "idle"
      /\ pc' = [pc EXCEPT ![t] = ret[t]]
  BY DEF ExtendC, Goto
<1>2. pc' \in [Thread -> PcValues]
  BY <1>0, <1>1 DEF Control, PcValues
<1>3. \A u \in Thread : u # t => pc[u] = "idle" /\ pc'[u] = "idle"
  BY <1>0, <1>1 DEF Control
<1>4. pc'[t] \in {"idle", "exists", "script"}
  BY <1>0, <1>1 DEF Control
<1>5. Control'
  BY <1>0, <1>1, <1>2, <1>3, <1>4 DEF Control
<1> QED BY <1>0, <1>1, <1>3, <1>4, <1>5 DEF Held, Numbers, Thread

LEMMA EnvironmentOurs ==
    ASSUME OInv, Crash \/ Reboot \/ Mount \/ UNCHANGED vars
    PROVE  Ours(vol') /\ Control' /\ Held' /\ Numbers'
<1>0. /\ Control /\ Held /\ Numbers /\ Ours(vol) /\ vol \in [Vol -> Volume]
      /\ listed \in Lists
  BY DEF OInv, LInv, Good
<1>1. CASE Crash \/ Reboot
  <2>1. Control' /\ Held' /\ Numbers'
    <3>1. Stopped
      BY <1>1 DEF Crash, Reboot
    <3>2. /\ pc' = [t \in Thread |-> "idle"] /\ ret' = [t \in Thread |-> "idle"]
          /\ todo' = [t \in Thread |-> {}]
      BY <3>1 DEF Stopped
    <3> QED BY <3>2 DEF Control, Held, Numbers, PcValues, Thread
  <2>2. \A v \in Vol : /\ vol'[v].label = vol[v].label /\ vol'[v].fs = vol[v].fs
                       /\ vol'[v].letter = vol[v].letter \/ vol'[v].letter = NoLetter
    BY <1>0, <1>1 DEF Crash, Reboot, Volume
  <2> QED BY <1>0, <2>1, <2>2 DEF Ours, Vol
<1>2. CASE Mount
  <2>1. PICK v \in Foreign, l \in Letter :
            vol[v].letter = NoLetter /\ vol' = [vol EXCEPT ![v].letter = l]
    BY <1>2 DEF Mount, FreeLetters
  <2>2. /\ \A w \in Vol : vol'[w].label = vol[w].label /\ vol'[w].fs = vol[w].fs
        /\ \A w \in Own : vol'[w].letter = vol[w].letter
    BY <1>0, <2>1, ConstantsAssumption DEF Vol, Volume
  <2>3. pc' = pc /\ ret' = ret /\ todo' = todo /\ listed' = listed
    BY <1>2 DEF Mount
  <2>4. Ours(vol') /\ Control' /\ Held'
    BY <1>0, <2>2, <2>3 DEF Ours, Control, Held, Vol
  <2>5. Present(vol') = Present(vol)
    BY <2>2 DEF Present
  <2>6. \A Ls \in SUBSET Labels : \A t \in Thread : Known(t, Ls) => Known(t, Ls)'
    BY <1>0, <2>2, <2>3, <2>5 DEF Known, Lists
  <2>7. \A t \in Thread : \A w \in listed[t].lines : vol[w].label \in OwnLabels => vol'[w].letter = vol[w].letter
    BY <1>0, <2>2, LabelledOurs DEF Lists, Labelled
  <2>8. Numbers'
    <3>1. /\ OwnLabels \in SUBSET Labels /\ {"ISOBOOT"} \in SUBSET Labels
          /\ {"ISOEFI"} \in SUBSET Labels /\ "worker" \in Thread
      BY DEF OwnLabels, Labels, Thread
    <3>2. ASSUME NEW t \in Thread, pc'[t] = "assign"
          PROVE  Known(t, OwnLabels)' /\ \A w \in listed'[t].lines : vol'[w].letter = NoLetter
      <4>1. Known(t, OwnLabels) /\ \A w \in listed[t].lines : vol[w].letter = NoLetter
        BY <1>0, <2>3, <3>2 DEF Numbers
      <4>2. \A w \in listed[t].lines : vol[w].label \in OwnLabels
        BY <4>1 DEF Known
      <4> QED BY <2>3, <2>6, <2>7, <3>1, <4>1, <4>2
    <3>3. pc'["worker"] = "format" => Known("worker", {"ISOBOOT"})'
      BY <1>0, <2>3, <2>6, <3>1 DEF Numbers
    <3>4. pc'["worker"] = "formatEfi" => Known("worker", {"ISOEFI"})'
      BY <1>0, <2>3, <2>6, <3>1 DEF Numbers
    <3> QED BY <3>2, <3>3, <3>4 DEF Numbers
  <2> QED BY <2>4, <2>8
<1>3. CASE UNCHANGED vars
  BY <1>0, <1>3 DEF vars, Ours, Control, Held, Numbers, Known, Present
<1> QED BY <1>1, <1>2, <1>3

LEMMA NextKeepsOInv ==
    ASSUME Locale = "es", "overlap" \notin Env
    PROVE  OInv /\ [Next]_vars => OInv'
<1> SUFFICES ASSUME OInv, [Next]_vars PROVE OInv'
  OBVIOUS
<1>1. LInv'
  BY NextKeepsLInv DEF OInv
<1>2. CASE WorkerStep
  <2>1. Ours(vol') /\ Control' /\ Held' /\ Numbers'
    BY <1>2, WorkerVolumesOurs, WorkerControl
  <2> QED BY <1>1, <2>1 DEF OInv, Ours
<1>3. CASE StartProcess \/ StartRecover
  <2>1. Ours(vol') /\ Control' /\ Held' /\ Numbers'
    BY <1>3, StartControl
  <2> QED BY <1>1, <2>1 DEF OInv, Ours
<1>4. CASE \E t \in Thread : RecoverStep(t)
  <2>1. Ours(vol') /\ Control' /\ Held' /\ Numbers'
    BY <1>4, EnumerateOurs, ListOurs, AssignOurs, DeleteOurs, ExtendOurs DEF RecoverStep
  <2> QED BY <1>1, <2>1 DEF OInv, Ours
<1>5. CASE Crash \/ Reboot \/ Mount \/ UNCHANGED vars
  <2>1. Ours(vol') /\ Control' /\ Held' /\ Numbers'
    BY <1>5, EnvironmentOurs
  <2> QED BY <1>1, <2>1 DEF OInv, Ours
<1> QED BY <1>2, <1>3, <1>4, <1>5 DEF Next

\* When diskpart speaks Spanish and Recover is not pressed during a process, no
\* "delete volume" and no "format" of the program ever selects a volume that was
\* not made by it, whatever letters come and go and whatever fails.
THEOREM ForeignVolumesAreKept ==
    ASSUME Locale = "es", "overlap" \notin Env
    PROVE  Spec => ForeignKept
<1>1. Init => OInv
  BY InitOInv
<1>2. OInv /\ [Next]_vars => OInv'
  BY NextKeepsOInv
<1>3. OInv /\ OInv' => [\A v \in Foreign : /\ vol'[v].label = vol[v].label
                                           /\ vol'[v].fs = vol[v].fs]_vars
  BY DEF OInv, Ours
<1> QED BY <1>1, <1>2, <1>3, PTL DEF Spec, ForeignKept

-----------------------------------------------------------------------------
(***************************************************************************)
(* One ISOBOOT at the most.  Formatting keeps a volume's label, and what   *)
(* creates one looks first, at volumes with a letter and without.          *)
(***************************************************************************)
Single(d) == \A v, w \in Vol : d[v].label = "ISOBOOT" /\ d[w].label = "ISOBOOT" => v = w

Clear(d) == \A v \in Vol : d[v].label # "ISOBOOT"

NoNewIsoBoot(d, e) == \A v \in Vol : e[v].label = "ISOBOOT" => d[v].label = "ISOBOOT"

LEMMA ExistsOrClear == \A d : PartitionExists(d) <=> ~Clear(d)
BY DEF PartitionExists, Clear, Labelled

\* What a script leaves behind.
LEMMA ScriptedVolumes ==
    ASSUME NEW d, Good(d), NEW b \in 0..2, NEW e \in 0..2, NEW v \in Own, NEW w \in Own, v # w,
           NEW l
    PROVE  LET x == Scripted(d, b, v, l, e, w)
           IN  /\ \A u \in Vol : u # v /\ u # w => x[u] = d[u]
               /\ x[v] = IF b > 0 THEN Created(b, "ISOBOOT", req.fmt, IsoBootMB, l) ELSE d[v]
               /\ x[w] = IF e > 0 THEN Created(e, "ISOEFI", "FAT32", IsoEfiMB, NoLetter) ELSE d[w]
BY DEF Scripted, Good, Vol

LEMMA CreatedLabel ==
    ASSUME NEW stage, NEW L, NEW fs, NEW mb, NEW l
    PROVE  LET x == Created(stage, L, fs, mb, l)
           IN  /\ x.hash = <<>>
               /\ stage = 2 => x.label = L /\ x.fs = fs
               /\ stage # 2 => x.label = "raw"
BY DEF Created, Fresh

\* The script as PerformDiskpartOperations runs it, on the volumes d after ISOEFI
\* was looked up: it comes to an ISOBOOT only if there was none.
LEMMA ScriptRun ==
    ASSUME LInv, PerformDiskpartOperations
    PROVE  \E d : /\ Good(d) /\ Lettering(vol, d)
                  /\ \/ vol' = d /\ Goto("worker", "idle")
                     \/ \E b, e \in 0..2, v, w \in Own, l \in FreeLetters(d) \cup {NoLetter} :
                          /\ v # w /\ vol' = Scripted(d, b, v, l, e, w)
                          /\ b > 0 => Clear(vol)
                          /\ \/ Goto("worker", "idle")
                             \/ Goto("worker", "drives") /\ (Clear(vol) => b = 2)
<1>1. PICK r \in DriveLetters(vol, "ISOEFI") :
        \/ vol' = r.d /\ Goto("worker", "idle")
        \/ RunScript(r.d, ~PartitionExists(vol), r.letter = NoLetter)
  BY DEF PerformDiskpartOperations
<1>2. Good(r.d) /\ Lettering(vol, r.d)
  BY DriveLettersGood DEF LInv
<1>3. ASSUME NEW d, NEW newB, NEW newE, RunScript(d, newB, newE)
      PROVE  \E b, e \in 0..2, v, w \in Own, l \in FreeLetters(d) \cup {NoLetter} :
                /\ v # w /\ vol' = Scripted(d, b, v, l, e, w)
                /\ b > 0 => newB
                /\ \/ Goto("worker", "idle")
                   \/ Goto("worker", "drives") /\ (newB => b = 2)
  <2>1. PICK b \in 0..2, e \in 0..2, v \in Own, w \in Own, l \in FreeLetters(d) \cup {NoLetter} :
              /\ v # w /\ vol' = Scripted(d, b, v, l, e, w)
              /\ b > 0 => newB
              /\ Goto("worker", IF (newB => b = 2) /\ (newE => e = 2) THEN "drives" ELSE "idle")
    BY <1>3 DEF RunScript
  <2> QED BY <2>1
<1>4. CASE vol' = r.d /\ Goto("worker", "idle")
  BY <1>2, <1>4
<1>5. CASE RunScript(r.d, ~PartitionExists(vol), r.letter = NoLetter)
  <2> DEFINE newB == ~PartitionExists(vol)
             newE == r.letter = NoLetter
             d == r.d
  <2>1. RunScript(d, newB, newE) /\ (newB <=> Clear(vol)) /\ Good(d) /\ Lettering(vol, d)
    BY <1>2, <1>5, ExistsOrClear
  <2> HIDE DEF newB, newE, d
  <2>2. PICK b \in 0..2, e \in 0..2, v \in Own, w \in Own, l \in FreeLetters(d) \cup {NoLetter} :
              /\ v # w /\ vol' = Scripted(d, b, v, l, e, w)
              /\ b > 0 => newB
              /\ \/ Goto("worker", "idle")
                 \/ Goto("worker", "drives") /\ (newB => b = 2)
    BY <1>3, <2>1
  <2> QED BY <2>1, <2>2
<1> QED BY <1>1, <1>4, <1>5

LEMMA ScriptKeepsSingle ==
    ASSUME LInv, Single(vol), PerformDiskpartOperations
    PROVE  Single(vol')
<1>1. PICK d : /\ Good(d) /\ Lettering(vol, d)
               /\ \/ vol' = d
                  \/ \E b, e \in 0..2, v, w \in Own, l \in FreeLetters(d) \cup {NoLetter} :
                        v # w /\ vol' = Scripted(d, b, v, l, e, w) /\ (b > 0 => Clear(vol))
  BY ScriptRun
<1>2. Single(d) /\ (Clear(vol) => Clear(d))
  BY <1>1 DEF Single, Clear, Lettering
<1>3. ASSUME NEW b \in 0..2, NEW e \in 0..2, NEW v \in Own, NEW w \in Own, NEW l,
             v # w, vol' = Scripted(d, b, v, l, e, w), b > 0 => Clear(vol)
      PROVE  Single(vol')
  <2>1. /\ \A u \in Vol : u # v /\ u # w => vol'[u] = d[u]
        /\ vol'[v] = IF b > 0 THEN Created(b, "ISOBOOT", req.fmt, IsoBootMB, l) ELSE d[v]
        /\ vol'[w] = IF e > 0 THEN Created(e, "ISOEFI", "FAT32", IsoEfiMB, NoLetter) ELSE d[w]
    BY <1>1, <1>3, ScriptedVolumes
  <2>2. vol'[w].label = "ISOBOOT" => d[w].label = "ISOBOOT"
    BY <2>1, CreatedLabel
  <2>3. CASE b > 0
    BY <1>2, <1>3, <2>1, <2>2, <2>3 DEF Single, Clear
  <2>4. CASE ~(b > 0)
    BY <1>2, <2>1, <2>2, <2>4 DEF Single
  <2> QED BY <2>3, <2>4
<1> QED BY <1>1, <1>2, <1>3

\* Whichever volume gets a letter, it keeps everything else.
LEMMA AssignNames ==
    ASSUME LInv, NEW t \in Thread, AssignLetter(t)
    PROVE  \A v \in Vol : /\ vol'[v].label = vol[v].label /\ vol'[v].fs = vol[v].fs
                          /\ vol'[v].mb = vol[v].mb /\ vol'[v].hash = vol[v].hash
<1>1. PICK n \in listed[t].lines :
        \/ \E v \in Selectable(t, vol, n) \ {NoVol}, l \in FreeLetters(vol) :
                vol' = [vol EXCEPT ![v].letter = l]
        \/ vol' = vol
  BY DEF AssignLetter
<1>2. \A v \in Selectable(t, vol, n) \ {NoVol} : v \in Vol
  BY SelectableVolumes
<1>3. CASE vol' = vol
  BY <1>3
<1>4. ASSUME NEW v \in Vol, NEW l \in FreeLetters(vol), vol' = [vol EXCEPT ![v].letter = l]
      PROVE  \A w \in Vol : /\ vol'[w].label = vol[w].label /\ vol'[w].fs = vol[w].fs
                            /\ vol'[w].mb = vol[w].mb /\ vol'[w].hash = vol[w].hash
  <2>1. Good(vol)
    BY DEF LInv
  <2>2. \A w \in Vol : w # v => vol'[w] = vol[w]
    BY <1>4, <2>1, LetterGood
  <2>3. vol'[v].label = vol[v].label /\ vol'[v].fs = vol[v].fs
    BY <1>4, <2>1, LetterGood
  <2>4. vol'[v].mb = vol[v].mb /\ vol'[v].hash = vol[v].hash
    BY <1>4, <2>1, LetterGood
  <2> QED BY <2>2, <2>3, <2>4
<1> QED BY <1>1, <1>2, <1>3, <1>4

\* A format of v changes no other volume.
LEMMA FormattedNames ==
    ASSUME NEW d, Good(d), NEW v \in Vol, NEW fs, NEW L
    PROVE  /\ \A u \in Vol : u # v => Formatted(d, v, fs, L)[u] = d[u]
           /\ Formatted(d, v, fs, L)[v].label = L /\ Formatted(d, v, fs, L)[v].fs = fs
           /\ Formatted(d, v, fs, L)[v].hash = <<>>
BY DEF Formatted, Fresh, Good

\* The actions that look drives up, and the environment's.
LEMMA LookupLettering ==
    ASSUME LInv,
           \/ CheckExisting \/ HashCheck \/ CheckDisk \/ DecideCreate \/ GetDrives \/ Mount
           \/ \E t \in Thread : EnumerateVolumes(t)
    PROVE  Lettering(vol, vol')
<1>1. CASE \/ CheckExisting \/ HashCheck \/ CheckDisk \/ DecideCreate
           \/ \E t \in Thread : EnumerateVolumes(t)
  <2>1. \/ \E r \in EspLetters(vol) : vol' = r.d
        \/ \E r \in DriveLetters(vol, "ISOBOOT") : vol' = r.d
    BY <1>1 DEF CheckExisting, HashCheck, CheckDisk, DecideCreate, EnumerateVolumes
  <2> QED BY <2>1, EspLettersGood, DriveLettersGood DEF LInv
<1>2. CASE GetDrives
  <2>1. PICK p \in DriveLetters(vol, "ISOBOOT") :
            vol' = p.d \/ \E e \in EspLetters(p.d) : vol' = e.d
    BY <1>2 DEF GetDrives
  <2>2. Good(p.d) /\ Lettering(vol, p.d)
    BY DriveLettersGood DEF LInv
  <2>3. CASE vol' = p.d
    BY <2>2, <2>3
  <2>4. CASE \E e \in EspLetters(p.d) : vol' = e.d
    <3>1. Lettering(p.d, vol')
      BY <2>2, <2>4, EspLettersGood
    <3> QED BY <2>2, <3>1 DEF Lettering
  <2> QED BY <2>1, <2>3, <2>4
<1>3. CASE Mount
  <2>1. PICK v \in Vol, l \in FreeLetters(vol) :
            vol[v].letter = NoLetter /\ vol' = [vol EXCEPT ![v].letter = l]
    BY <1>3 DEF Mount, Vol
  <2> QED BY <2>1, AssignGood DEF LInv
<1> QED BY <1>1, <1>2, <1>3

LEMMA CopyNames ==
    ASSUME LInv, CopyIsoContent
    PROVE  \A v \in Vol : /\ vol'[v].label = vol[v].label
                          /\ vol'[v].hash \in {vol[v].hash, HashFile}
<1>1. vol \in [Vol -> Volume]
  BY DEF LInv, Good
<1>2. ASSUME NEW e \in Vol, NEW w \in BOOLEAN
      PROVE  /\ WithEfiFiles(vol, e, w) \in [Vol -> Volume]
             /\ \A v \in Vol : /\ WithEfiFiles(vol, e, w)[v].label = vol[v].label
                               /\ WithEfiFiles(vol, e, w)[v].hash = vol[v].hash
  <2>1. PICK x \in Volume : /\ WithEfiFiles(vol, e, w) = [vol EXCEPT ![e] = x]
                            /\ x.label = vol[e].label /\ x.hash = vol[e].hash
    BY <1>1, EfiFilesContent
  <2> QED BY <1>1, <2>1
<1>3. ASSUME NEW d \in [Vol -> Volume], NEW p \in Vol, vol' = [d EXCEPT ![p].hash = HashFile]
      PROVE  \A v \in Vol : /\ vol'[v].label = d[v].label
                            /\ vol'[v].hash \in {d[v].hash, HashFile}
  BY <1>3 DEF Volume
<1>4. CASE vol' = vol
  BY <1>4
<1>5. ASSUME NEW e \in Vol, NEW w \in BOOLEAN,
             \/ vol' = WithEfiFiles(vol, e, w)
             \/ \E p \in Vol : vol' = [WithEfiFiles(vol, e, w) EXCEPT ![p].hash = HashFile]
      PROVE  \A v \in Vol : /\ vol'[v].label = vol[v].label
                            /\ vol'[v].hash \in {vol[v].hash, HashFile}
  <2> DEFINE d == WithEfiFiles(vol, e, w)
  <2>1. /\ d \in [Vol -> Volume]
        /\ \A v \in Vol : d[v].label = vol[v].label /\ d[v].hash = vol[v].hash
    BY <1>2
  <2>2. vol' = d \/ \E p \in Vol : vol' = [d EXCEPT ![p].hash = HashFile]
    BY <1>5
  <2> HIDE DEF d
  <2> QED BY <1>3, <2>1, <2>2
<1> QED BY <1>4, <1>5 DEF CopyIsoContent, WithLetter

LEMMA DeleteNames ==
    ASSUME LInv, NEW t \in Thread, DeleteVolume(t)
    PROVE  \A v \in Vol : vol'[v] \in {vol[v], Absent}
<1>1. vol' = vol \/ \E v \in Vol : vol' = [vol EXCEPT ![v] = Absent]
  BY DEF DeleteVolume, WithLetter
<1> QED BY <1>1 DEF LInv, Good

LEMMA RebootNames ==
    ASSUME LInv, Reboot
    PROVE  \A v \in Vol : /\ vol'[v].label = vol[v].label /\ vol'[v].fs = vol[v].fs
                          /\ vol'[v].hash = vol[v].hash
<1>1. \A v \in Vol : vol[v] \in Volume
  BY DEF LInv, Good
<1> QED BY <1>1 DEF Reboot, Volume

LEMMA NextKeepsSingle ==
    ASSUME OInv, Single(vol), [Next]_vars
    PROVE  Single(vol')
<1>0. LInv /\ Good(vol)
  BY DEF OInv, LInv
<1>1. CASE NoNewIsoBoot(vol, vol')
  BY <1>1 DEF Single, NoNewIsoBoot
<1>2. CASE \/ CheckExisting \/ HashCheck \/ CheckDisk \/ DecideCreate \/ GetDrives \/ Mount
           \/ \E t \in Thread : EnumerateVolumes(t)
  BY <1>0, <1>1, <1>2, LookupLettering DEF NoNewIsoBoot, Lettering
<1>3. CASE \/ StartProcess \/ CountEfi \/ StartRecover \/ Crash \/ UNCHANGED vars
           \/ FindDataVolume \/ FindEfiVolume
           \/ \E t \in Thread : ListVolumes(t) \/ ExtendC(t)
  <2>1. vol' = vol
    BY <1>3 DEF StartProcess, CountEfi, StartRecover, Crash, ExtendC, ListVolumes, vars,
                FindDataVolume, FindEfiVolume
  <2> QED BY <1>1, <2>1 DEF NoNewIsoBoot
<1>4. CASE ReformatPartition \/ ReformatEfiPartition
  <2>1. ASSUME NEW v \in Vol, NEW fs, NEW L, vol[v].label = L,
               vol' = Formatted(vol, v, fs, L) \/ vol' \in HalfFormatted(vol, v)
        PROVE  NoNewIsoBoot(vol, vol')
    <3>1. CASE vol' = Formatted(vol, v, fs, L)
      BY <1>0, <2>1, <3>1, FormattedNames DEF NoNewIsoBoot
    <3>2. CASE vol' \in HalfFormatted(vol, v)
      BY <1>0, <3>2, HalfFormattedGood DEF NoNewIsoBoot
    <3> QED BY <2>1, <3>1, <3>2
  <2>2. vol' = vol => NoNewIsoBoot(vol, vol')
    BY DEF NoNewIsoBoot
  <2> QED BY <1>1, <1>4, <2>1, <2>2, FormatSteps
<1>5. CASE CopyIsoContent
  BY <1>0, <1>1, <1>5, CopyNames DEF NoNewIsoBoot
<1>6. ASSUME NEW t \in Thread, AssignLetter(t) PROVE Single(vol')
  BY <1>0, <1>1, <1>6, AssignNames DEF NoNewIsoBoot
<1>7. ASSUME NEW t \in Thread, DeleteVolume(t) PROVE Single(vol')
  <2>1. Absent.label # "ISOBOOT"
    BY DEF Absent, Fresh
  <2> QED BY <1>0, <1>1, <1>7, <2>1, DeleteNames DEF NoNewIsoBoot
<1>8. CASE Reboot
  BY <1>0, <1>1, <1>8, RebootNames DEF NoNewIsoBoot
<1> QED BY <1>0, <1>2, <1>3, <1>4, <1>5, <1>6, <1>7, <1>8, ScriptKeepsSingle
        DEF Next, WorkerStep, RecoverStep

LEMMA InitSingle == Init => Single(vol)
<1> SUFFICES ASSUME Init PROVE \A v \in Vol : vol[v].label # "ISOBOOT"
  BY DEF Single
<1>1. Absent.label # "ISOBOOT"
  BY DEF Absent, Fresh
<1>2. \A v \in Foreign : ForeignVol[v].label # "ISOBOOT"
  BY ConstantsAssumption
<1> QED BY <1>1, <1>2 DEF Init

\* With diskpart in Spanish and Recover left alone during a process there is never a
\* second ISOBOOT, however scripts and formats are cut short, whatever letters come and
\* go and whenever the program is killed: createPartition asks partitionExists, which
\* sees the volumes that have no letter too, and what reformatPartition found one
\* command earlier is still ISOBOOT when it is formatted.  (In English, or with two
\* threads at it, "format" may give the name to another volume.)
THEOREM OneIsoBoot ==
    ASSUME Locale = "es", "overlap" \notin Env PROVE Spec => []AtMostOneIsoBoot
<1>1. Single(vol) => AtMostOneIsoBoot
  <2>1. ASSUME Single(vol) PROVE Cardinality(Labelled(vol, "ISOBOOT")) <= 1
    <3>1. CASE Labelled(vol, "ISOBOOT") = {}
      BY <3>1, FS_EmptySet
    <3>2. ASSUME NEW v \in Labelled(vol, "ISOBOOT")
          PROVE  Cardinality(Labelled(vol, "ISOBOOT")) = 1
      <4>1. Labelled(vol, "ISOBOOT") = {v}
        BY <2>1, <3>2 DEF Labelled, Single
      <4> QED BY <4>1, FS_Singleton
    <3> QED BY <3>1, <3>2
  <2> QED BY <2>1 DEF AtMostOneIsoBoot
<1>2. OInv /\ Single(vol) /\ [Next]_vars => Single(vol)'
  <2>1. Single(vol)' <=> Single(vol')
    BY DEF Single
  <2> QED BY <2>1, NextKeepsSingle
<1>3. OInv /\ [Next]_vars => OInv'
  BY NextKeepsOInv
<1> QED BY InitOInv, InitSingle, <1>1, <1>2, <1>3, PTL DEF Spec

-----------------------------------------------------------------------------
(***************************************************************************)
(* Where the image goes.  From the moment the worker decides to create     *)
(* partitions until its script runs there is no ISOBOOT; from the script,  *)
(* or the formatting, until the copy, ISOBOOT is empty and in the file     *)
(* system asked for; and once the drives are looked up their letters lead  *)
(* to ISOBOOT and ISOEFI.  A volume that was filled before is always       *)
(* formatted, because the third line of its hash file is a boot mode and   *)
(* never the format that it is compared with.                              *)
(***************************************************************************)
Hashes(d) == \A v \in Own : d[v].hash = <<>> \/ (d[v].hash[3] \in Modes /\ Len(d[v].hash) = 5)

Blank(x) == x.fs = req.fmt /\ x.hash = <<>>

\* The letter l, if it is one, leads to a blank ISOBOOT.
Ready(d, l) == \E v \in Vol : /\ d[v].letter = l /\ l # NoLetter
                              /\ d[v].label = "ISOBOOT" /\ Blank(d[v])

Recovering == {"enumerate", "list", "assign", "delete"}

Stage ==
    LET w == pc["worker"]
    IN  /\ w \in {"checks", "decide", "script"} => Clear(vol)
        /\ w \in Recovering /\ ret["worker"] = "script" => Clear(vol)
        /\ w = "drives" => \A v \in Vol : vol[v].label = "ISOBOOT" => Blank(vol[v])
        /\ w \in {"reformatEfi", "formatEfi", "extract"} => Ready(vol, drives.p)

CInv == OInv /\ Single(vol) /\ Hashes(vol) /\ Stage

\* The worker is where nothing is claimed.
Free == \/ pc'["worker"] \in {"idle", "count", "exists", "hash", "reformat", "format", "repair"}
        \/ pc'["worker"] \in Recovering /\ ret'["worker"] # "script"

LEMMA FreeStage == ASSUME Free PROVE Stage'
BY DEF Free, Stage, Recovering

LEMMA HashFileShape ==
    ASSUME req \in [iso : Isos, fmt : Formats, mode : Modes]
    PROVE  HashFile[3] \in Modes /\ Len(HashFile) = 5 /\ HashFile # <<>>
BY DEF HashFile

\* What keeps the contents of our volumes, or empties them, keeps Hashes.
LEMMA KeptHashes ==
    ASSUME Hashes(vol),
           \A v \in Own : vol'[v].hash \in {vol[v].hash, <<>>, HashFile},
           req \in [iso : Isos, fmt : Formats, mode : Modes]
    PROVE  Hashes(vol')
BY HashFileShape DEF Hashes

LEMMA NextKeepsHashes ==
    ASSUME LInv, Hashes(vol), [Next]_vars
    PROVE  Hashes(vol')
<1>0. /\ Own \subseteq Vol /\ req \in [iso : Isos, fmt : Formats, mode : Modes]
      /\ vol \in [Vol -> Volume]
  BY DEF LInv, Requests, Good, Vol
<1>1. CASE \A v \in Own : vol'[v].hash \in {vol[v].hash, <<>>, HashFile}
  BY <1>0, <1>1, KeptHashes
<1>2. CASE \/ CheckExisting \/ HashCheck \/ CheckDisk \/ DecideCreate \/ GetDrives \/ Mount
           \/ \E t \in Thread : EnumerateVolumes(t)
  BY <1>0, <1>1, <1>2, LookupLettering DEF Lettering
<1>3. CASE \/ StartProcess \/ CountEfi \/ StartRecover \/ Crash \/ UNCHANGED vars
           \/ FindDataVolume \/ FindEfiVolume
           \/ \E t \in Thread : ListVolumes(t) \/ ExtendC(t)
  <2>1. vol' = vol
    BY <1>3 DEF StartProcess, CountEfi, StartRecover, Crash, ExtendC, ListVolumes, vars,
                FindDataVolume, FindEfiVolume
  <2> QED BY <1>1, <2>1
<1>4. CASE ReformatPartition \/ ReformatEfiPartition
  <2>1. ASSUME NEW v \in Vol, NEW fs, NEW L,
               vol' = Formatted(vol, v, fs, L) \/ vol' \in HalfFormatted(vol, v)
        PROVE  \A u \in Vol : vol'[u].hash \in {vol[u].hash, <<>>}
    <3>1. Good(vol)
      BY DEF LInv
    <3>2. CASE vol' = Formatted(vol, v, fs, L)
      BY <3>1, <3>2, FormattedNames
    <3>3. CASE vol' \in HalfFormatted(vol, v)
      BY <3>1, <3>3, HalfFormattedGood
    <3> QED BY <2>1, <3>2, <3>3
  <2>2. \/ vol' = vol
        \/ \E v \in Vol : \E fs, L : vol' = Formatted(vol, v, fs, L) \/ vol' \in HalfFormatted(vol, v)
    BY <1>4, FormatVolumes
  <2>3. \A v \in Vol : vol'[v].hash \in {vol[v].hash, <<>>}
    BY <2>1, <2>2
  <2> QED BY <1>0, <1>1, <2>3
<1>5. CASE CopyIsoContent
  BY <1>0, <1>1, <1>5, CopyNames
<1>6. ASSUME NEW t \in Thread, AssignLetter(t) PROVE Hashes(vol')
  BY <1>0, <1>1, <1>6, AssignNames
<1>7. ASSUME NEW t \in Thread, DeleteVolume(t) PROVE Hashes(vol')
  <2>1. Absent.hash = <<>>
    BY DEF Absent, Fresh
  <2> QED BY <1>0, <1>1, <1>7, <2>1, DeleteNames
<1>8. CASE Reboot
  BY <1>0, <1>1, <1>8, RebootNames
<1>9. CASE PerformDiskpartOperations
  <2>1. PICK d : /\ Good(d) /\ Lettering(vol, d)
                 /\ \/ vol' = d
                    \/ \E b, e \in 0..2, v, w \in Own, l \in FreeLetters(d) \cup {NoLetter} :
                          v # w /\ vol' = Scripted(d, b, v, l, e, w)
    BY <1>9, ScriptRun
  <2>2. ASSUME NEW b \in 0..2, NEW e \in 0..2, NEW v \in Own, NEW w \in Own, NEW l,
               v # w, vol' = Scripted(d, b, v, l, e, w)
        PROVE  \A u \in Vol : vol'[u].hash \in {d[u].hash, <<>>}
    <3>1. /\ \A u \in Vol : u # v /\ u # w => vol'[u] = d[u]
          /\ vol'[v] = IF b > 0 THEN Created(b, "ISOBOOT", req.fmt, IsoBootMB, l) ELSE d[v]
          /\ vol'[w] = IF e > 0 THEN Created(e, "ISOEFI", "FAT32", IsoEfiMB, NoLetter) ELSE d[w]
      BY <2>1, <2>2, ScriptedVolumes
    <3>2. vol'[v].hash \in {d[v].hash, <<>>} /\ vol'[w].hash \in {d[w].hash, <<>>}
      BY <3>1, CreatedLabel
    <3> QED BY <3>1, <3>2
  <2>3. \A u \in Vol : vol'[u].hash \in {d[u].hash, <<>>}
    BY <2>1, <2>2
  <2> QED BY <1>0, <1>1, <2>1, <2>3 DEF Lettering
<1> QED BY <1>2, <1>3, <1>4, <1>5, <1>6, <1>7, <1>8, <1>9 DEF Next, WorkerStep, RecoverStep

\* What a drive was found for carries the label asked for.
LEMMA DriveLettersFind ==
    ASSUME NEW d, Good(d), NEW L, NEW r \in DriveLetters(d, L), r.letter # NoLetter
    PROVE  \E v \in Vol : r.d[v].label = L /\ r.d[v].letter = r.letter
<1>1. \/ \E v \in Vol : d[v].label = L /\ r = [letter |-> d[v].letter, d |-> d]
      \/ \E v \in Vol, l \in FreeLetters(d) :
            d[v].label = L /\ r = [letter |-> l, d |-> [d EXCEPT ![v].letter = l]]
  BY DEF DriveLetters, Labelled
<1>2. ASSUME NEW v \in Vol, NEW l, d[v].label = L,
             r = [letter |-> l, d |-> [d EXCEPT ![v].letter = l]]
      PROVE  r.d[v].label = L /\ r.d[v].letter = r.letter
  <2>1. d \in [Vol -> Volume] /\ d[v] \in Volume
    BY DEF Good
  <2> QED BY <1>2, <2>1 DEF Volume
<1> QED BY <1>1, <1>2

\* A file of ours says of no image that ISOBOOT may be kept.
LEMMA NeverTheSame ==
    ASSUME CInv, NEW v \in Own
    PROVE  ~SameImage(ReadHashInfo(vol[v].hash))
<1>1. req.fmt \in Formats /\ req.fmt \notin Modes /\ req.fmt # NoVol
  BY ConstantsAssumption DEF CInv, OInv, LInv, Requests
<1>2. CASE vol[v].hash = <<>>
  BY <1>1, <1>2 DEF SameImage, ReadHashInfo
<1>3. CASE vol[v].hash[3] \in Modes /\ Len(vol[v].hash) = 5
  BY <1>1, <1>3 DEF SameImage, ReadHashInfo
<1> QED BY <1>2, <1>3 DEF CInv, Hashes

LEMMA HashStage ==
    ASSUME CInv, HashCheck
    PROVE  pc'["worker"] = "reformat"
<1>0. /\ Good(vol) /\ Ours(vol) /\ pc \in [Thread -> PcValues] /\ "worker" \in Thread
  BY DEF CInv, OInv, LInv, Control, Thread
<1>1. PICK r \in DriveLetters(vol, "ISOBOOT") :
        IF /\ r.letter # NoLetter
           /\ \E v \in WithLetter(r.d, r.letter) : SameImage(ReadHashInfo(r.d[v].hash))
        THEN Goto("worker", "drives") ELSE Goto("worker", "reformat")
  BY DEF HashCheck
<1>2. Good(r.d) /\ Lettering(vol, r.d) /\ Ours(r.d)
  BY <1>0, DriveLettersGood, LetteringOurs
<1>3. ASSUME r.letter # NoLetter, NEW v \in WithLetter(r.d, r.letter)
      PROVE  ~SameImage(ReadHashInfo(r.d[v].hash))
  <2>1. PICK u \in Vol : r.d[u].label = "ISOBOOT" /\ r.d[u].letter = r.letter
    BY <1>0, <1>3, DriveLettersFind
  <2>2. u \in Own
    BY <1>2, <2>1, LabelledOurs DEF Labelled, OwnLabels
  <2>3. r.letter \in Letter
    BY <1>2, <1>3, <2>1, <2>2 DEF Ours
  <2>4. v \in Vol /\ r.d[v].letter = r.letter
    BY <1>3 DEF WithLetter
  <2>5. v = u
    BY <1>2, <2>1, <2>3, <2>4 DEF Good, DistinctLetters
  <2>6. r.d[v].hash = vol[v].hash
    BY <1>2, <2>4 DEF Lettering
  <2> QED BY <2>2, <2>5, <2>6, NeverTheSame
<1>4. Goto("worker", "reformat")
  BY <1>1, <1>3
<1> QED BY <1>0, <1>4 DEF Goto

LEMMA FormatStage ==
    ASSUME CInv, ReformatPartition \/ ReformatEfiPartition
    PROVE  Stage'
<1>0. /\ Good(vol) /\ pc \in [Thread -> PcValues] /\ "worker" \in Thread /\ OInv
      /\ UNCHANGED <<req, drives, ret>>
  BY DEF CInv, OInv, LInv, Control, Thread, ReformatPartition, ReformatEfiPartition
<1>1. CASE Goto("worker", "idle")
  BY <1>0, <1>1, FreeStage DEF Free, Goto
<1>2. CASE ReformatPartition
  <2>1. SUFFICES ASSUME NEW v \in Vol, vol[v].label = "ISOBOOT",
                        vol' = Formatted(vol, v, req.fmt, "ISOBOOT"), Goto("worker", "drives")
                 PROVE  Stage'
    BY <1>0, <1>1, <1>2, FormatSteps
  <2>2. \A u \in Vol : vol'[u].label = "ISOBOOT" => vol'[u].fs = req'.fmt /\ vol'[u].hash = <<>>
    <3>1. \A u \in Vol : u # v => vol[u].label # "ISOBOOT"
      BY <2>1 DEF CInv, Single
    <3>2. \A u \in Vol : u # v => vol'[u] = vol[u]
      BY <1>0, <2>1, FormattedNames
    <3>3. vol'[v].fs = req.fmt /\ vol'[v].hash = <<>>
      BY <1>0, <2>1, FormattedNames
    <3> QED BY <1>0, <3>1, <3>2, <3>3
  <2>3. pc'["worker"] = "drives"
    BY <1>0, <2>1 DEF Goto
  <2> QED BY <2>2, <2>3 DEF Stage, Blank, Recovering
<1>3. CASE ReformatEfiPartition
  <2>1. SUFFICES ASSUME NEW v \in Vol, vol[v].label = "ISOEFI",
                        vol' = Formatted(vol, v, "FAT32", "ISOEFI"), Goto("worker", "extract")
                 PROVE  Stage'
    BY <1>0, <1>1, <1>3, FormatSteps
  <2>2. PICK u \in Vol : /\ vol[u].letter = drives.p /\ drives.p # NoLetter
                         /\ vol[u].label = "ISOBOOT" /\ Blank(vol[u])
    BY <1>3 DEF ReformatEfiPartition, CInv, Stage, Ready
  <2>3. vol'[u] = vol[u]
    <3>1. u # v
      BY <2>1, <2>2
    <3> QED BY <1>0, <2>1, <3>1, FormattedNames
  <2>4. Ready(vol, drives.p)'
    BY <1>0, <2>2, <2>3 DEF Ready, Blank
  <2>5. pc'["worker"] = "extract"
    BY <1>0, <2>1 DEF Goto
  <2> QED BY <2>4, <2>5 DEF Stage, Recovering
<1> QED BY <1>2, <1>3

\* Looking a volume's number up, on the way to its format.
LEMMA FindStage ==
    ASSUME CInv, FindDataVolume \/ FindEfiVolume
    PROVE  Stage'
<1>0. pc \in [Thread -> PcValues] /\ "worker" \in Thread /\ UNCHANGED <<vol, req, drives, ret>>
  BY DEF CInv, OInv, Control, Thread, FindDataVolume, FindEfiVolume
<1>1. CASE FindDataVolume
  <2>1. pc'["worker"] \in {"idle", "format"}
    BY <1>0, <1>1 DEF FindDataVolume, FindVolume, Goto
  <2> QED BY <2>1, FreeStage DEF Free
<1>2. CASE FindEfiVolume
  <2>1. pc'["worker"] \in {"idle", "formatEfi"}
    BY <1>0, <1>2 DEF FindEfiVolume, FindVolume, Goto
  <2>2. Ready(vol, drives.p)
    BY <1>2 DEF FindEfiVolume, CInv, Stage
  <2>3. Ready(vol, drives.p)'
    BY <1>0, <2>2 DEF Ready, Blank
  <2> QED BY <2>1, <2>3 DEF Stage, Recovering
<1> QED BY <1>1, <1>2

LEMMA ScriptStage ==
    ASSUME CInv, PerformDiskpartOperations
    PROVE  Stage'
<1>0. pc \in [Thread -> PcValues] /\ "worker" \in Thread /\ LInv /\ Clear(vol) /\ UNCHANGED req
  BY DEF CInv, OInv, Control, Thread, Stage, PerformDiskpartOperations
<1>1. PICK d : /\ Good(d) /\ Lettering(vol, d)
               /\ \/ Goto("worker", "idle")
                  \/ \E b, e \in 0..2, v, w \in Own, l \in FreeLetters(d) \cup {NoLetter} :
                        /\ v # w /\ vol' = Scripted(d, b, v, l, e, w)
                        /\ Goto("worker", "idle") \/ (Goto("worker", "drives") /\ b = 2)
  BY <1>0, ScriptRun
<1>2. CASE Goto("worker", "idle")
  BY <1>0, <1>2, FreeStage DEF Free, Goto
<1>3. ASSUME NEW e \in 0..2, NEW v \in Own, NEW w \in Own, NEW l, v # w,
             vol' = Scripted(d, 2, v, l, e, w), Goto("worker", "drives")
      PROVE  Stage'
  <2>1. /\ \A u \in Vol : u # v /\ u # w => vol'[u] = d[u]
        /\ vol'[v] = Created(2, "ISOBOOT", req.fmt, IsoBootMB, l)
        /\ vol'[w] = IF e > 0 THEN Created(e, "ISOEFI", "FAT32", IsoEfiMB, NoLetter) ELSE d[w]
    BY <1>1, <1>3, ScriptedVolumes
  <2>2. \A u \in Vol : d[u].label # "ISOBOOT"
    BY <1>0, <1>1 DEF Clear, Lettering
  <2>3. vol'[v].fs = req.fmt /\ vol'[v].hash = <<>>
    BY <2>1, CreatedLabel
  <2>4. vol'[w].label # "ISOBOOT"
    <3>1. w \in Vol
      BY DEF Vol
    <3> QED BY <2>1, <2>2, <3>1, CreatedLabel
  <2>5. \A u \in Vol : vol'[u].label = "ISOBOOT" => u = v
    BY <2>1, <2>2, <2>4
  <2>6. \A u \in Vol : vol'[u].label = "ISOBOOT" => vol'[u].fs = req'.fmt /\ vol'[u].hash = <<>>
    BY <1>0, <2>3, <2>5
  <2>7. pc'["worker"] = "drives"
    BY <1>0, <1>3 DEF Goto
  <2> QED BY <2>6, <2>7 DEF Stage, Blank, Recovering
<1> QED BY <1>1, <1>2, <1>3

LEMMA DrivesStage ==
    ASSUME CInv, GetDrives
    PROVE  Stage'
<1>0. /\ pc \in [Thread -> PcValues] /\ "worker" \in Thread /\ Good(vol) /\ UNCHANGED req
      /\ \A v \in Vol : vol[v].label = "ISOBOOT" => Blank(vol[v])
  BY DEF CInv, OInv, LInv, Control, Thread, Stage, GetDrives
<1>1. CASE Goto("worker", "idle")
  BY <1>0, <1>1, FreeStage DEF Free, Goto
<1>2. SUFFICES ASSUME NEW p \in DriveLetters(vol, "ISOBOOT"), p.letter # NoLetter,
                      NEW e \in EspLetters(p.d), vol' = e.d,
                      drives' = [p |-> p.letter, e |-> e.letter],
                      Goto("worker", IF had THEN "extract" ELSE "reformatEfi")
               PROVE  Stage'
  BY <1>1 DEF GetDrives
<1>3. Good(p.d) /\ Lettering(vol, p.d)
  BY <1>0, DriveLettersGood
<1>4. Lettering(p.d, vol')
  BY <1>2, <1>3, EspLettersGood
<1>5. PICK v \in Vol : p.d[v].label = "ISOBOOT" /\ p.d[v].letter = p.letter
  BY <1>0, <1>2, DriveLettersFind
<1>6. vol'[v].label = "ISOBOOT" /\ vol'[v].letter = p.letter
  BY <1>2, <1>4, <1>5 DEF Lettering
<1>7. vol[v].label = "ISOBOOT" /\ vol'[v].fs = vol[v].fs /\ vol'[v].hash = vol[v].hash
  BY <1>3, <1>4, <1>5 DEF Lettering
<1>8. Ready(vol, drives.p)'
  BY <1>0, <1>2, <1>6, <1>7 DEF Ready, Blank
<1>9. pc'["worker"] \in {"extract", "reformatEfi"}
  BY <1>0, <1>2 DEF Goto
<1> QED BY <1>8, <1>9 DEF Stage, Recovering

LEMMA CheckStage ==
    ASSUME CInv, CountEfi \/ CheckExisting \/ CheckDisk \/ DecideCreate
    PROVE  Stage'
<1>0. /\ pc \in [Thread -> PcValues] /\ ret \in [Thread -> {"idle", "exists", "script"}]
      /\ "worker" \in Thread /\ LInv
  BY DEF CInv, OInv, Control, Thread
<1>1. CASE CountEfi
  <2>1. Free
    BY <1>0, <1>1 DEF CountEfi, Goto, Call, Free, Recovering
  <2> QED BY <2>1, FreeStage
<1>2. CASE CheckExisting
  <2>1. CASE Clear(vol)
    <3>1. Clear(vol')
      BY <1>0, <1>2, <2>1, LookupLettering DEF Clear, Lettering
    <3>2. pc'["worker"] \in {"hash", "checks", "idle"}
      BY <1>0, <1>2 DEF CheckExisting, Goto
    <3> QED BY <3>1, <3>2 DEF Stage, Clear, Recovering
  <2>2. CASE ~Clear(vol)
    <3>1. Free
      BY <1>0, <1>2, <2>2, ExistsOrClear DEF CheckExisting, Goto, Free
    <3> QED BY <3>1, FreeStage
  <2> QED BY <2>1, <2>2
<1>3. CASE CheckDisk \/ DecideCreate
  <2>1. Clear(vol)
    BY <1>3 DEF CInv, Stage, CheckDisk, DecideCreate
  <2>2. Clear(vol')
    BY <1>0, <1>3, <2>1, LookupLettering DEF Clear, Lettering
  <2>3. pc'["worker"] \in {"decide", "idle", "repair", "script", "enumerate"}
    <3>1. CASE CheckDisk
      BY <1>0, <3>1 DEF CheckDisk, AfterIntegrityCheck, Goto
    <3>2. CASE DecideCreate
      <4>1. ~PartitionExists(vol')
        BY <2>2, ExistsOrClear
      <4> QED BY <1>0, <2>1, <3>2, <4>1, ExistsOrClear DEF DecideCreate, Goto, Call
    <3> QED BY <1>3, <3>1, <3>2
  <2> QED BY <2>2, <2>3 DEF Stage, Clear
<1> QED BY <1>1, <1>2, <1>3

LEMMA RecoverMoves ==
    ASSUME NEW t \in Thread, RecoverStep(t)
    PROVE  /\ pc[t] \in Recovering /\ ret' = ret
           /\ \E x \in {"list", "assign", "delete", ret[t]} :
                pc' = pc \/ pc' = [pc EXCEPT ![t] = x]
BY DEF RecoverStep, EnumerateVolumes, ListVolumes, AssignLetter, DeleteVolume, ExtendC, Goto,
       Recovering

LEMMA RecoverStage ==
    ASSUME CInv, NEW t \in Thread, RecoverStep(t)
    PROVE  Stage'
<1>0. /\ pc \in [Thread -> PcValues] /\ ret \in [Thread -> {"idle", "exists", "script"}]
      /\ "worker" \in Thread /\ LInv /\ pc[t] \in Recovering /\ ret' = ret
  BY RecoverMoves DEF CInv, OInv, Control, Thread
<1>1. CASE t # "worker"
  <2>1. pc["worker"] = "idle"
    BY <1>0, <1>1 DEF CInv, OInv, Control, Recovering
  <2>2. pc'["worker"] = "idle"
    BY <1>0, <1>1, <2>1, RecoverMoves
  <2> QED BY <2>2, FreeStage DEF Free
<1>2. CASE t = "worker" /\ ret["worker"] # "script"
  <2>1. pc'["worker"] \in Recovering \cup {"idle", "exists"}
    BY <1>0, <1>2, RecoverMoves DEF Recovering
  <2> QED BY <1>0, <1>2, <2>1, FreeStage DEF Free
<1>3. CASE t = "worker" /\ ret["worker"] = "script"
  <2>1. Clear(vol)
    BY <1>0, <1>3 DEF CInv, Stage
  <2>2. Clear(vol')
    <3>1. CASE EnumerateVolumes(t)
      BY <1>0, <2>1, <3>1, LookupLettering DEF Clear, Lettering
    <3>2. CASE AssignLetter(t)
      BY <1>0, <2>1, <3>2, AssignNames DEF Clear
    <3>3. CASE DeleteVolume(t)
      <4>1. Absent.label # "ISOBOOT"
        BY DEF Absent, Fresh
      <4> QED BY <1>0, <2>1, <3>3, <4>1, DeleteNames DEF Clear
    <3>4. CASE ListVolumes(t) \/ ExtendC(t)
      BY <2>1, <3>4 DEF ListVolumes, ExtendC
    <3> QED BY <3>1, <3>2, <3>3, <3>4 DEF RecoverStep
  <2>3. pc'["worker"] \in Recovering \cup {"script"}
    BY <1>0, <1>3, RecoverMoves DEF Recovering
  <2> QED BY <2>2, <2>3 DEF Stage, Clear, Recovering
<1> QED BY <1>1, <1>2, <1>3

LEMMA OtherStage ==
    ASSUME CInv, "overlap" \notin Env,
           \/ StartProcess \/ StartRecover \/ CopyIsoContent
           \/ Crash \/ Reboot \/ Mount \/ UNCHANGED vars
    PROVE  Stage'
<1>0. pc \in [Thread -> PcValues] /\ "worker" \in Thread /\ LInv
  BY DEF CInv, OInv, Control, Thread
<1>1. CASE StartProcess \/ StartRecover \/ CopyIsoContent
  <2>1. pc'["worker"] \in {"idle", "count"}
    BY <1>0, <1>1 DEF StartProcess, StartRecover, CopyIsoContent, Alone, Goto, Call
  <2> QED BY <2>1, FreeStage DEF Free
<1>2. CASE Crash \/ Reboot
  <2>1. pc'["worker"] = "idle"
    BY <1>0, <1>2 DEF Crash, Reboot, Stopped
  <2> QED BY <2>1, FreeStage DEF Free
<1>3. CASE Mount
  <2>1. UNCHANGED <<pc, ret, req, drives>>
    BY <1>3 DEF Mount
  <2>2. \A v \in Vol : /\ vol'[v].label = vol[v].label /\ vol'[v].fs = vol[v].fs
                       /\ vol'[v].hash = vol[v].hash
                       /\ vol[v].letter # NoLetter => vol'[v].letter = vol[v].letter
    BY <1>0, <1>3, LookupLettering DEF Lettering
  <2>3. Clear(vol) => Clear(vol')
    BY <2>2 DEF Clear
  <2>4. Ready(vol, drives.p) => Ready(vol, drives.p)'
    BY <2>1, <2>2 DEF Ready, Blank
  <2>5. (\A v \in Vol : vol[v].label = "ISOBOOT" => Blank(vol[v])) =>
        (\A v \in Vol : vol[v].label = "ISOBOOT" => Blank(vol[v]))'
    BY <2>1, <2>2 DEF Blank
  <2> QED BY <2>1, <2>3, <2>4, <2>5 DEF CInv, Stage, Clear
<1>4. CASE UNCHANGED vars
  BY <1>4 DEF vars, CInv, Stage, Clear, Ready, Blank
<1> QED BY <1>1, <1>2, <1>3, <1>4

LEMMA NextKeepsCInv ==
    ASSUME Locale = "es", "overlap" \notin Env
    PROVE  CInv /\ [Next]_vars => CInv'
<1> SUFFICES ASSUME CInv, [Next]_vars PROVE CInv'
  OBVIOUS
<1>1. OInv'
  BY NextKeepsOInv DEF CInv
<1>2. Single(vol)' /\ Hashes(vol)'
  <2>1. Single(vol') /\ Hashes(vol')
    BY NextKeepsSingle, NextKeepsHashes DEF CInv, OInv
  <2> QED BY <2>1 DEF Single, Hashes
<1>3. HashCheck => Stage'
  BY HashStage, FreeStage DEF Free
<1>4. Stage'
  BY <1>3, FormatStage, FindStage, ScriptStage, DrivesStage, CheckStage,
     RecoverStage, OtherStage DEF Next, WorkerStep
<1> QED BY <1>1, <1>2, <1>4 DEF CInv

LEMMA InitCInv == Init => CInv
<1> SUFFICES ASSUME Init PROVE CInv
  OBVIOUS
<1>1. OInv /\ Single(vol)
  BY InitOInv, InitSingle
<1>2. Hashes(vol)
  BY ConstantsAssumption DEF Init, Hashes, Absent, Fresh, Vol
<1>3. Stage
  BY DEF Init, Stage, Thread
<1> QED BY <1>1, <1>2, <1>3 DEF CInv

\* When copyIsoContent begins, the data drive it was given is ISOBOOT, freshly made
\* or formatted, in the file system asked for, whatever failed, was killed or was
\* plugged in before: validateAndPrepare's drive letter is not stale, the script's
\* ISOBOOT is the one that is found, and what a hash file allows to keep is nothing.
THEOREM DataDriveIsReady ==
    ASSUME Locale = "es", "overlap" \notin Env
    PROVE  Spec => []DataDriveReady
<1>1. CInv => DataDriveReady
  BY DEF CInv, Stage, Ready, Blank, DataDriveReady, WithLetter
<1> QED BY InitCInv, NextKeepsCInv, <1>1, PTL DEF Spec

-----------------------------------------------------------------------------
(***************************************************************************)
(* The Recover button, when no command fails, diskpart speaks Spanish and  *)
(* the letters do not run out: once the volumes are listed, each of ours   *)
(* has a letter that waits to be deleted or a number that waits for one.   *)
(***************************************************************************)
EnoughLetters ==
    /\ IsFiniteSet(Vol) /\ IsFiniteSet(Letter)
    /\ Cardinality(Vol) <= Cardinality(Letter)

Waiting(t, v) == vol[v].letter # NoLetter /\ vol[v].letter \in todo[t]

Doomed ==
    \A t \in Thread :
        /\ pc[t] = "assign" =>
                \A v \in Vol : vol[v].label \in OwnLabels => v \in listed[t].lines \/ Waiting(t, v)
        /\ pc[t] = "delete" =>
                \A v \in Vol : vol[v].label \in OwnLabels => Waiting(t, v)

RInv == OInv /\ Doomed

\* While a volume is without a letter, the others do not carry all of them.
LEMMA LettersSuffice ==
    ASSUME EnoughLetters, NEW d, NEW v \in Vol, d[v].letter = NoLetter
    PROVE  FreeLetters(d) # {}
<1> SUFFICES ASSUME FreeLetters(d) = {} PROVE FALSE
  OBVIOUS
<1>1. NoLetter \notin Letter
  BY ConstantsAssumption
<1> DEFINE g == [l \in Letter |-> CHOOSE x \in Vol \ {v} : d[x].letter = l]
<1>2. \A l \in Letter : \E x \in Vol \ {v} : d[x].letter = l
  BY <1>1 DEF FreeLetters
<1>3. \A l \in Letter : g[l] \in Vol \ {v} /\ d[g[l]].letter = l
  BY <1>2
<1>4. g \in [Letter -> Vol \ {v}]
  BY <1>3
<1>5. IsFiniteSet(Vol \ {v}) /\ Cardinality(Vol \ {v}) < Cardinality(Letter)
  <2>1. /\ IsFiniteSet(Vol) /\ Cardinality(Vol) \in Nat /\ Cardinality(Letter) \in Nat
        /\ Cardinality(Vol) <= Cardinality(Letter)
    BY FS_CardinalityType DEF EnoughLetters
  <2>2. IsFiniteSet(Vol \ {v}) /\ Cardinality(Vol \ {v}) = Cardinality(Vol) - 1
    BY <2>1, FS_RemoveElement
  <2> QED BY <2>1, <2>2
<1> HIDE DEF g
<1>6. PICK k, l \in Letter : k # l /\ g[k] = g[l]
  BY <1>4, <1>5, FS_PigeonHole DEF EnoughLetters
<1> QED BY <1>3, <1>6

LEMMA ListDooms ==
    ASSUME OInv, NEW t \in Thread, ListVolumes(t), Locale = "es", "faults" \notin Env
    PROVE  Doomed'
<1>1. Control /\ listed \in Lists
  BY DEF OInv, LInv
<1> DEFINE bare == {v \in Listed(vol) : vol[v].letter = NoLetter}
<1>2. /\ vol' = vol
      /\ listed' = [listed EXCEPT ![t] = [present |-> Present(vol), lines |-> bare]]
      /\ todo' = [todo EXCEPT ![t] = {vol[v].letter : v \in Listed(vol) \ bare}]
      /\ pc' = [pc EXCEPT ![t] = IF bare = {} THEN "delete" ELSE "assign"]
      /\ pc[t] = "list"
  BY DEF ListVolumes, Goto, Faulty
<1>3. \A v \in Vol : vol[v].label \in OwnLabels => v \in Listed(vol)
  BY DEF Listed, Labelled, OwnLabels
<1>4. /\ listed'[t].lines = bare
      /\ todo'[t] = {vol[v].letter : v \in Listed(vol) \ bare}
      /\ pc'[t] = "delete" => bare = {}
      /\ \A u \in Thread : u # t => pc'[u] = "idle"
  BY <1>1, <1>2 DEF Control, Lists
<1>5. \A v \in Vol : vol[v].label \in OwnLabels => v \in bare \/ Waiting(t, v)'
  BY <1>2, <1>3, <1>4 DEF Waiting
<1> HIDE DEF bare
<1>6. \A v \in Vol : vol'[v].label \in OwnLabels => v \in listed'[t].lines \/ Waiting(t, v)'
  BY <1>2, <1>4, <1>5
<1>7. pc'[t] = "delete" => \A v \in Vol : vol'[v].label \in OwnLabels => Waiting(t, v)'
  BY <1>2, <1>4, <1>5
<1> QED BY <1>4, <1>6, <1>7 DEF Doomed

LEMMA AssignDooms ==
    ASSUME RInv, NEW t \in Thread, AssignLetter(t), "faults" \notin Env, EnoughLetters
    PROVE  Doomed'
<1>0. /\ Control /\ Good(vol) /\ listed \in Lists /\ LInv /\ pc[t] = "assign"
      /\ Known(t, OwnLabels) /\ \A v \in listed[t].lines : vol[v].letter = NoLetter
      /\ \A v \in Vol : vol[v].label \in OwnLabels => v \in listed[t].lines \/ Waiting(t, v)
  BY DEF RInv, OInv, LInv, AssignLetter, Numbers, Doomed
<1>1. PICK n \in listed[t].lines :
        /\ listed' = [listed EXCEPT ![t].lines = @ \ {n}]
        /\ pc' = [pc EXCEPT ![t] = IF listed[t].lines = {n} THEN "delete" ELSE "assign"]
        /\ \/ \E v \in Selectable(t, vol, n), l \in FreeLetters(vol) :
                /\ vol' = [vol EXCEPT ![v].letter = l]
                /\ todo' = [todo EXCEPT ![t] = @ \cup {l}]
           \/ FreeLetters(vol) = {} \/ NoVol \in Selectable(t, vol, n)
  BY DEF AssignLetter, Goto, Faulty
<1>2. n \in Vol /\ vol[n].letter = NoLetter /\ n # NoVol
  <2>1. n \in Vol
    BY <1>0 DEF Lists
  <2> QED BY <1>0, <2>1, ConstantsAssumption DEF Vol
<1>3. \A v \in Selectable(t, vol, n) : v = n
  BY <1>0, KnownSelects
<1>4. PICK l \in FreeLetters(vol) : /\ vol' = [vol EXCEPT ![n].letter = l]
                                   /\ todo' = [todo EXCEPT ![t] = @ \cup {l}]
  <2>1. FreeLetters(vol) # {}
    BY <1>2, LettersSuffice
  <2> QED BY <1>1, <1>2, <1>3, <2>1
<1>5. \A v \in Vol : v # n => vol'[v] = vol[v]
  BY <1>0, <1>2, <1>4, LetterGood
<1>6. vol'[n].letter = l /\ l # NoLetter
  <2>1. vol'[n].letter = l
    BY <1>0, <1>2, <1>4, LetterGood
  <2> QED BY <2>1, ConstantsAssumption DEF FreeLetters
<1>7. /\ listed'[t].lines = listed[t].lines \ {n}
      /\ todo'[t] = todo[t] \cup {l}
      /\ pc'[t] = "delete" => listed[t].lines = {n}
      /\ \A u \in Thread : u # t => pc'[u] = "idle"
  BY <1>0, <1>1, <1>4 DEF Control, Lists
<1>8. Waiting(t, n)'
  BY <1>6, <1>7 DEF Waiting
<1>9. \A v \in Vol : vol'[v].label \in OwnLabels => v \in listed'[t].lines \/ Waiting(t, v)'
  <2> SUFFICES ASSUME NEW v \in Vol, vol'[v].label \in OwnLabels, v # n
               PROVE  v \in listed'[t].lines \/ Waiting(t, v)'
    BY <1>8
  <2>1. v \in listed[t].lines \/ Waiting(t, v)
    BY <1>0, <1>5
  <2> QED BY <1>5, <1>7, <2>1 DEF Waiting
<1> QED BY <1>7, <1>9 DEF Doomed

LEMMA DeleteDooms ==
    ASSUME RInv, NEW t \in Thread, DeleteVolume(t),
           "faults" \notin Env, Booted \cap Own = {}
    PROVE  Doomed'
<1>0. Control /\ Ours(vol) /\ Good(vol) /\ vol \in [Vol -> Volume] /\ Doomed
  BY DEF RInv, OInv, LInv, Good
<1>1. PICK l \in todo[t] :
        /\ todo' = [todo EXCEPT ![t] = @ \ {l}]
        /\ \/ \E v \in WithLetter(vol, l) \ Booted :
                l # NoLetter /\ vol' = [vol EXCEPT ![v] = Absent]
           \/ (l = NoLetter \/ WithLetter(vol, l) \subseteq Booted) /\ vol' = vol
  BY DEF DeleteVolume, NextLetter, Faulty
<1>2. pc' = pc /\ pc[t] = "delete" /\ \A u \in Thread : u # t => pc'[u] = "idle"
  BY <1>0 DEF DeleteVolume, Control
<1>3. todo'[t] = todo[t] \ {l}
  BY <1>0, <1>1 DEF Control
<1>4. \A v \in Vol : vol[v].label \in OwnLabels =>
        v \in Own /\ vol[v].letter \in Letter /\ vol[v].letter \in todo[t]
  <2> SUFFICES ASSUME NEW v \in Vol, vol[v].label \in OwnLabels
               PROVE  v \in Own /\ vol[v].letter \in Letter /\ vol[v].letter \in todo[t]
    OBVIOUS
  <2>1. v \in Own
    BY <1>0, LabelledOurs DEF Labelled
  <2> QED BY <1>0, <1>2, <2>1 DEF Ours, Doomed, Waiting
<1>5. \A v \in Vol : vol'[v].label \in OwnLabels => vol'[v] = vol[v]
  <2>1. Absent.label \notin OwnLabels
    BY DEF Absent, Fresh, OwnLabels
  <2> QED BY <1>0, <1>1, <2>1
<1>6. ASSUME NEW v \in Vol, vol'[v].label \in OwnLabels
      PROVE  vol[v].letter # l
  <2> SUFFICES ASSUME vol[v].letter = l PROVE FALSE
    OBVIOUS
  <2>1. vol[v].label \in OwnLabels /\ l \in Letter /\ l # NoLetter /\ v \in Own
    BY <1>4, <1>5, <1>6, ConstantsAssumption
  <2>2. v \in WithLetter(vol, l) /\ v \notin Booted
    BY <2>1 DEF WithLetter
  <2>3. PICK w \in WithLetter(vol, l) : vol' = [vol EXCEPT ![w] = Absent]
    BY <1>1, <2>1, <2>2
  <2>4. w = v
    BY <1>0, <2>1, <2>2, <2>3 DEF Good, DistinctLetters, WithLetter
  <2> QED BY <1>0, <1>6, <2>3, <2>4 DEF Absent, Fresh, OwnLabels
<1>7. \A v \in Vol : vol'[v].label \in OwnLabels => Waiting(t, v)'
  BY <1>3, <1>4, <1>5, <1>6, ConstantsAssumption DEF Waiting
<1> QED BY <1>2, <1>7 DEF Doomed

\* Everything else leaves the deletion alone, or ends it.
LEMMA OtherDooms ==
    ASSUME RInv, [Next]_vars, "overlap" \notin Env,
           ~ \E t \in Thread : ListVolumes(t) \/ AssignLetter(t) \/ DeleteVolume(t)
    PROVE  Doomed'
<1>0. Control /\ Doomed /\ vol \in [Vol -> Volume]
  BY DEF RInv, OInv, LInv, Good
<1>1. CASE WorkerStep
  <2>1. pc["worker"] # "idle"
    BY <1>1, WorkerMoves
  <2>2. pc["recovery"] = "idle" /\ pc'["recovery"] = pc["recovery"]
    BY <1>0, <1>1, <2>1, WorkerMoves DEF Control, Thread
  <2>3. pc'["worker"] \notin {"assign", "delete"}
    BY <1>0, <1>1, WorkerMoves DEF Control, Thread
  <2> QED BY <2>2, <2>3 DEF Doomed, Thread
<1>2. CASE StartProcess \/ StartRecover
  <2>1. \A t \in Thread : pc'[t] \notin {"assign", "delete"}
    BY <1>0, <1>2 DEF StartProcess, StartRecover, Alone, Goto, Call, Control, Thread
  <2> QED BY <2>1 DEF Doomed
<1>3. CASE \E t \in Thread : ExtendC(t)
  <2>1. PICK t \in Thread : ExtendC(t)
    BY <1>3
  <2>2. /\ pc' = [pc EXCEPT ![t] = ret[t]] /\ ret[t] \in {"idle", "exists", "script"}
        /\ \A u \in Thread : u # t => pc[u] = "idle"
    BY <1>0, <2>1 DEF ExtendC, Goto, Control
  <2>3. \A u \in Thread : pc'[u] \notin {"assign", "delete"}
    BY <1>0, <2>2 DEF Control
  <2> QED BY <2>3 DEF Doomed
<1>4. CASE \E t \in Thread : EnumerateVolumes(t)
  <2>1. PICK t \in Thread : pc[t] = "enumerate" /\ pc' = [pc EXCEPT ![t] = "list"]
    BY <1>4 DEF EnumerateVolumes, Goto
  <2>2. \A u \in Thread : pc'[u] \in {"idle", "list"}
    BY <1>0, <2>1 DEF Control
  <2> QED BY <2>2 DEF Doomed
<1>7. CASE Crash \/ Reboot
  BY <1>7 DEF Crash, Reboot, Stopped, Doomed
<1>5. CASE Mount
  <2>1. PICK v \in Foreign, l \in FreeLetters(vol) : vol' = [vol EXCEPT ![v].letter = l]
    BY <1>5 DEF Mount
  <2>2. \A w \in Vol : vol'[w].label = vol[w].label /\ (w # v => vol'[w] = vol[w])
    BY <1>0, <2>1 DEF Vol, Volume
  <2>3. vol[v].label \notin OwnLabels /\ v \in Vol
    BY LabelledOurs, ConstantsAssumption DEF RInv, OInv, Labelled, Vol
  <2>4. UNCHANGED <<pc, todo, listed>>
    BY <1>5 DEF Mount
  <2>5. \A w \in Vol : vol'[w].label \in OwnLabels => vol[w].label \in OwnLabels /\ vol'[w] = vol[w]
    BY <2>2, <2>3
  <2> QED BY <1>0, <2>4, <2>5 DEF Doomed, Waiting
<1>6. CASE UNCHANGED vars
  BY <1>0, <1>6 DEF vars, Doomed, Waiting
<1> QED BY <1>1, <1>2, <1>3, <1>4, <1>5, <1>6, <1>7 DEF Next, RecoverStep

LEMMA NextKeepsRInv ==
    ASSUME Locale = "es", "overlap" \notin Env, "faults" \notin Env, EnoughLetters,
           Booted \cap Own = {}
    PROVE  RInv /\ [Next]_vars => RInv'
<1> SUFFICES ASSUME RInv, [Next]_vars PROVE RInv'
  OBVIOUS
<1>1. OInv'
  BY NextKeepsOInv DEF RInv
<1>2. Doomed'
  BY ListDooms, AssignDooms, DeleteDooms, OtherDooms DEF RInv
<1> QED BY <1>1, <1>2 DEF RInv, Doomed, Waiting

LEMMA InitRInv == Init => RInv
<1>1. Init => Doomed
  BY DEF Init, Doomed, Thread
<1> QED BY <1>1, InitOInv DEF RInv

\* When diskpart speaks Spanish and obeys, the machine does not run from our
\* partitions, Recover is not pressed during a process and there are as many letters
\* as volumes, a recovery ends with both partitions gone, whatever an earlier process
\* that failed or was killed had left, and through crashes, restarts and sticks
\* plugged in.
THEOREM RecoveryDeletesBoth ==
    ASSUME Locale = "es", "overlap" \notin Env, "faults" \notin Env, EnoughLetters,
           Booted \cap Own = {}
    PROVE  Spec => RecoverCleans
<1>1. RInv /\ [Next]_vars => RInv'
  BY NextKeepsRInv
<1>2. RInv => [RecoveryEnds => Labelled(vol', "ISOBOOT") \cup Labelled(vol', "ISOEFI") = {}]_vars
  <2> SUFFICES ASSUME RInv, ExtendC("recovery")
               PROVE  Labelled(vol', "ISOBOOT") \cup Labelled(vol', "ISOEFI") = {}
    BY DEF RecoveryEnds
  <2>1. pc["recovery"] = "delete" /\ todo["recovery"] = {} /\ vol' = vol
    BY DEF ExtendC
  <2>2. \A v \in Vol : vol[v].label \notin OwnLabels
    BY <2>1 DEF RInv, Doomed, Waiting, Thread
  <2> QED BY <2>1, <2>2 DEF Labelled, OwnLabels
<1> QED BY <1>1, <1>2, InitRInv, PTL DEF Spec, RecoverCleans
=============================================================================
