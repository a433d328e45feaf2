--------------------------- MODULE PartitionsTypes ---------------------------
(***************************************************************************)
(* The type invariant of Partitions, and that a recovery gives C: its      *)
(* space back.                                                             *)
(***************************************************************************)
EXTENDS PartitionsProofs, SequenceTheorems

Region  == [v : Vol \cup {NoVol}, at : Nat, mb : Nat]
Letters == Letter \cup {NoLetter, "fixed"}
Returns == {"idle", "exists", "script"}
Sayings == {"espReused", "espPreserved"}

\* What TypeOK says of the disk and of the threads, volumes aside.
DiskTypes == c \in Nat /\ tail \in Seq(Region)
ThreadTypes ==
    /\ pc \in [Thread -> PcValues] /\ ret \in [Thread -> Returns]
    /\ todo \in [Thread -> SUBSET Letters] /\ had \in BOOLEAN
    /\ drives \in [p : Letters, e : Letters] /\ said \in [Thread -> SUBSET Sayings]

TInv == LInv /\ DiskTypes /\ ThreadTypes

LEMMA LetterTypes ==
    ASSUME NEW d, Good(d), NEW L, NEW r \in DriveLetters(d, L)
    PROVE  r.letter \in Letters
<1>1. \/ \E v \in Vol : r.letter = d[v].letter
      \/ r.letter \in FreeLetters(d) \/ r.letter = NoLetter
  BY DEF DriveLetters, Labelled
<1>2. \A v \in Vol : d[v].letter \in Letters
  BY DEF Good, Volume, Letters
<1> QED BY <1>1, <1>2 DEF FreeLetters, Letters

LEMMA EspLetterTypes ==
    ASSUME NEW d, Good(d), NEW r \in EspLetters(d)
    PROVE  r.letter \in Letters
<1>1. PICK q \in DriveLetters(d, "ISOEFI") : r = q \/ r \in DriveLetters(q.d, "SYSTEM")
  BY DEF EspLetters
<1>2. Good(q.d)
  BY DriveLettersGood
<1> QED BY <1>1, <1>2, LetterTypes

LEMMA InitTypes == Init => DiskTypes /\ ThreadTypes
<1> SUFFICES ASSUME Init PROVE DiskTypes /\ ThreadTypes
  OBVIOUS
<1>1. DiskTypes
  BY ConstantsAssumption DEF Init, DiskTypes
<1>2. pc \in [Thread -> PcValues] /\ ret \in [Thread -> Returns] /\ had \in BOOLEAN
  BY DEF Init, PcValues, Returns
<1>3. todo \in [Thread -> SUBSET Letters] /\ said \in [Thread -> SUBSET Sayings]
  BY DEF Init
<1>4. drives \in [p : Letters, e : Letters]
  BY DEF Init, Letters
<1> QED BY <1>1, <1>2, <1>3, <1>4 DEF ThreadTypes

LEMMA ShrunkType ==
    ASSUME NEW newB \in BOOLEAN, NEW newE \in BOOLEAN, NEW b, NEW e,
           NEW v \in Own, NEW w \in Own, NEW at \in Nat
    PROVE  Shrunk(newB, newE, b, v, e, w, at) \in Seq(Region)
<1> DEFINE atE == at + (IF newB THEN IsoBootMB ELSE 0)
           atM == atE + (IF newE THEN IsoEfiMB ELSE 0)
           rB == [v |-> IF b > 0 THEN v ELSE NoVol, at |-> at, mb |-> IsoBootMB]
           rE == [v |-> IF e > 0 THEN w ELSE NoVol, at |-> atE, mb |-> IsoEfiMB]
           rM == [v |-> NoVol, at |-> atM, mb |-> MarginMB]
<1>1. atE \in Nat /\ atM \in Nat
  BY DEF IsoBootMB, IsoEfiMB
<1> HIDE DEF atE, atM
<1>2. rB \in Region /\ rE \in Region /\ rM \in Region
  BY <1>1 DEF Region, Vol, IsoBootMB, IsoEfiMB, MarginMB
<1> HIDE DEF rB, rE, rM
<1>3. \A r \in Region : <<r>> \in Seq(Region)
  OBVIOUS
<1>4. /\ (IF newB THEN <<rB>> ELSE <<>>) \in Seq(Region)
      /\ (IF newE THEN <<rE>> ELSE <<>>) \in Seq(Region)
      /\ <<rM>> \in Seq(Region)
  BY <1>2, <1>3
<1>5. (IF newB THEN <<rB>> ELSE <<>>) \o (IF newE THEN <<rE>> ELSE <<>>) \o <<rM>> \in Seq(Region)
  BY <1>4
<1> QED BY <1>5 DEF Shrunk, rB, rE, rM, atE, atM

LEMMA ScriptTypes ==
    ASSUME TInv, PerformDiskpartOperations
    PROVE  DiskTypes' /\ ThreadTypes'
<1>1. c \in Nat /\ tail \in Seq(Region) /\ CUsed \in Nat
  BY ConstantsAssumption DEF TInv, DiskTypes
<1>2. \/ UNCHANGED <<c, tail>> /\ Goto("worker", "idle")
      \/ \E newB \in BOOLEAN, newE \in BOOLEAN : \E d :
            /\ c - CUsed >= Needed(newB, newE) /\ c' = c - Needed(newB, newE)
            /\ RunScript(d, newB, newE)
  <2>1. PICK r \in DriveLetters(vol, "ISOEFI") :
          \/ Goto("worker", "idle") /\ UNCHANGED <<c, tail>>
          \/ /\ c - CUsed >= Needed(~PartitionExists(vol), r.letter = NoLetter)
             /\ c' = c - Needed(~PartitionExists(vol), r.letter = NoLetter)
             /\ RunScript(r.d, ~PartitionExists(vol), r.letter = NoLetter)
    BY DEF PerformDiskpartOperations
  <2> DEFINE newB == ~PartitionExists(vol)
             newE == r.letter = NoLetter
  <2>2. newB \in BOOLEAN /\ newE \in BOOLEAN
    OBVIOUS
  <2>3. \/ Goto("worker", "idle") /\ UNCHANGED <<c, tail>>
        \/ /\ c - CUsed >= Needed(newB, newE) /\ c' = c - Needed(newB, newE)
           /\ RunScript(r.d, newB, newE)
    BY <2>1
  <2> HIDE DEF newB, newE
  <2> QED BY <2>2, <2>3
<1>3. \A newB, newE \in BOOLEAN : Needed(newB, newE) \in Nat
  BY DEF Needed, IsoBootMB, IsoEfiMB, MarginMB
<1>4. ASSUME NEW newB \in BOOLEAN, NEW newE \in BOOLEAN, NEW d,
             c - CUsed >= Needed(newB, newE), c' = c - Needed(newB, newE),
             RunScript(d, newB, newE)
      PROVE  /\ c' \in Nat /\ tail' \in Seq(Region)
             /\ Goto("worker", "idle") \/ Goto("worker", "drives")
  <2>1. c - Needed(newB, newE) \in Nat
    BY <1>1, <1>3, <1>4
  <2>2. PICK b \in 0..2, e \in 0..2, v \in Own, w \in Own, l \in FreeLetters(d) \cup {NoLetter} :
            tail' = ScriptedTail(newB, newE, b, v, e, w)
    BY <1>4 DEF RunScript
  <2>3. Shrunk(newB, newE, b, v, e, w, c - Needed(newB, newE)) \in Seq(Region)
    BY <2>1, ShrunkType
  <2>4. Goto("worker", "idle") \/ Goto("worker", "drives")
    BY <1>4 DEF RunScript
  <2> QED BY <1>1, <1>4, <2>1, <2>2, <2>3, <2>4 DEF ScriptedTail
<1>5. /\ c' \in Nat /\ tail' \in Seq(Region)
      /\ Goto("worker", "idle") \/ Goto("worker", "drives")
  BY <1>1, <1>2, <1>4
<1>6. ret' = ret /\ todo' = todo /\ had' = had /\ drives' = drives /\ said' = said
  BY DEF PerformDiskpartOperations
<1> QED BY <1>5, <1>6 DEF TInv, DiskTypes, ThreadTypes, Goto, PcValues

\* The worker's other steps leave the disk's layout alone.
LEMMA WorkerTypes ==
    ASSUME TInv, WorkerStep
    PROVE  DiskTypes' /\ ThreadTypes'
<1>1. CASE CountEfi
  BY <1>1 DEF CountEfi, TInv, DiskTypes, ThreadTypes, Goto, Call, PcValues, Returns
<1>2. CASE CheckExisting
  BY <1>2 DEF CheckExisting, TInv, DiskTypes, ThreadTypes, Goto, PcValues, PartitionExists
<1>3. CASE \/ HashCheck \/ FindDataVolume \/ ReformatPartition
           \/ FindEfiVolume \/ ReformatEfiPartition \/ CopyIsoContent
  <2>1. UNCHANGED <<c, tail, ret, todo, had, drives, said>>
    BY <1>3 DEF HashCheck, FindDataVolume, ReformatPartition, FindEfiVolume, ReformatEfiPartition,
                CopyIsoContent
  <2>2. PICK x \in PcValues : pc' = [pc EXCEPT !["worker"] = x]
    BY <1>3, WorkerMoves DEF WorkerStep
  <2> QED BY <2>1, <2>2 DEF TInv, DiskTypes, ThreadTypes
<1>4. CASE CheckDisk
  <2>1. said' = said \/ said' = [said EXCEPT !["worker"] = @ \cup {"espReused"}]
    BY <1>4 DEF CheckDisk
  <2>2. UNCHANGED <<c, tail, ret, todo, had, drives>>
    BY <1>4 DEF CheckDisk
  <2>4. PICK x \in PcValues : pc' = [pc EXCEPT !["worker"] = x]
    BY <1>4, WorkerMoves DEF WorkerStep
  <2>3. said' \in [Thread -> SUBSET Sayings]
    BY <2>1 DEF TInv, ThreadTypes, Sayings
  <2> QED BY <2>2, <2>3, <2>4 DEF TInv, DiskTypes, ThreadTypes
<1>5. CASE DecideCreate
  <2>1. /\ UNCHANGED <<c, tail, todo, had, drives, said>>
        /\ \/ (Goto("worker", "drives") \/ Goto("worker", "script")) /\ ret' = ret
           \/ Call("worker", "script")
    BY <1>5 DEF DecideCreate
  <2> QED BY <2>1 DEF TInv, DiskTypes, ThreadTypes, Goto, Call, PcValues, Returns
<1>6. CASE PerformDiskpartOperations
  BY <1>6, ScriptTypes
<1>7. CASE GetDrives
  <2>1. /\ UNCHANGED <<c, tail, ret, todo, had, said>>
        /\ Goto("worker", "idle") \/ Goto("worker", "extract") \/ Goto("worker", "reformatEfi")
    BY <1>7 DEF GetDrives
  <2>2. drives' \in [p : Letters, e : Letters]
    <3>1. \/ drives' = drives
          \/ \E p \in DriveLetters(vol, "ISOBOOT") : \E e \in EspLetters(p.d) :
                drives' = [p |-> p.letter, e |-> e.letter]
      BY <1>7 DEF GetDrives
    <3>2. ASSUME NEW p \in DriveLetters(vol, "ISOBOOT"), NEW e \in EspLetters(p.d)
          PROVE  p.letter \in Letters /\ e.letter \in Letters
      BY DriveLettersGood, LetterTypes, EspLetterTypes DEF TInv, LInv
    <3> QED BY <3>1, <3>2 DEF TInv, ThreadTypes
  <2> QED BY <2>1, <2>2 DEF TInv, DiskTypes, ThreadTypes, Goto, PcValues
<1> QED BY <1>1, <1>2, <1>3, <1>4, <1>5, <1>6, <1>7 DEF WorkerStep

LEMMA RecoverTypes ==
    ASSUME TInv, LInv', NEW t \in Thread, RecoverStep(t)
    PROVE  DiskTypes' /\ ThreadTypes'
<1>1. CASE EnumerateVolumes(t)
  <2>1. /\ UNCHANGED <<c, tail, ret, todo, had, drives>> /\ Goto(t, "list")
        /\ said' = said \/ said' = [said EXCEPT ![t] = @ \cup {"espPreserved"}]
    BY <1>1 DEF EnumerateVolumes
  <2>2. said' \in [Thread -> SUBSET Sayings]
    BY <2>1 DEF TInv, ThreadTypes, Sayings
  <2> QED BY <2>1, <2>2 DEF TInv, DiskTypes, ThreadTypes, Goto, PcValues
<1>4. CASE ListVolumes(t)
  <2>1. UNCHANGED <<c, tail, ret, had, drives, said>> /\ (Goto(t, "delete") \/ Goto(t, "assign"))
    BY <1>4 DEF ListVolumes
  <2>2. \E S \in SUBSET Vol : todo' = [todo EXCEPT ![t] = {vol[v].letter : v \in S}]
    BY <1>4 DEF ListVolumes, Listed, Labelled
  <2>3. todo' \in [Thread -> SUBSET Letters]
    BY <2>2 DEF LInv, Good, Volume, TInv, ThreadTypes, Letters
  <2> QED BY <2>1, <2>3 DEF TInv, DiskTypes, ThreadTypes, Goto, PcValues
<1>5. CASE AssignLetter(t)
  <2>1. /\ UNCHANGED <<c, tail, ret, had, drives, said>> /\ (Goto(t, "delete") \/ Goto(t, "assign"))
        /\ \E l \in Letters : todo' = [todo EXCEPT ![t] = @ \cup {l}]
    BY <1>5 DEF AssignLetter, FreeLetters, Letters
  <2>2. todo' \in [Thread -> SUBSET Letters]
    BY <2>1 DEF TInv, ThreadTypes
  <2> QED BY <2>1, <2>2 DEF TInv, DiskTypes, ThreadTypes, Goto, PcValues
<1>2. CASE DeleteVolume(t)
  <2>1. /\ UNCHANGED <<c, pc, ret, had, drives, said>>
        /\ \E l : todo' = [todo EXCEPT ![t] = @ \ {l}]
        /\ \/ tail' = tail
           \/ \E v : tail' = [i \in DOMAIN tail |->
                              IF tail[i].v = v THEN [tail[i] EXCEPT !.v = NoVol] ELSE tail[i]]
    BY <1>2 DEF DeleteVolume, NextLetter
  <2>2. tail' \in Seq(Region)
    <3>1. tail \in Seq(Region)
      BY DEF TInv, DiskTypes
    <3>2. ASSUME NEW v
          PROVE  [i \in DOMAIN tail |-> IF tail[i].v = v THEN [tail[i] EXCEPT !.v = NoVol]
                                                        ELSE tail[i]] \in Seq(Region)
      <4>1. DOMAIN tail = 1..Len(tail) /\ Len(tail) \in Nat
        BY <3>1
      <4>2. \A i \in 1..Len(tail) :
              (IF tail[i].v = v THEN [tail[i] EXCEPT !.v = NoVol] ELSE tail[i]) \in Region
        <5> SUFFICES ASSUME NEW i \in 1..Len(tail)
                     PROVE  tail[i] \in Region /\ [tail[i] EXCEPT !.v = NoVol] \in Region
          OBVIOUS
        <5>1. tail[i] \in Region
          BY <3>1
        <5> QED BY <5>1 DEF Region
      <4> QED BY <4>1, <4>2
    <3>3. CASE tail' = tail
      BY <3>1, <3>3
    <3>4. CASE \E v : tail' = [i \in DOMAIN tail |->
                              IF tail[i].v = v THEN [tail[i] EXCEPT !.v = NoVol] ELSE tail[i]]
      BY <3>2, <3>4
    <3> QED BY <2>1, <3>3, <3>4
  <2>3. todo' \in [Thread -> SUBSET Letters]
    BY <2>1 DEF TInv, ThreadTypes
  <2> QED BY <2>1, <2>2, <2>3 DEF TInv, DiskTypes, ThreadTypes
<1>3. CASE ExtendC(t)
  <2>1. /\ UNCHANGED <<ret, todo, had, drives, said>> /\ Goto(t, ret[t])
        /\ \/ UNCHANGED <<c, tail>>
           \/ \E n \in 0..Len(tail) : /\ c' = IF n = Len(tail) THEN CInit ELSE tail[n + 1].at
                                      /\ tail' = SubSeq(tail, n + 1, Len(tail))
    BY <1>3 DEF ExtendC
  <2>2. c' \in Nat /\ tail' \in Seq(Region)
    <3>1. tail \in Seq(Region) /\ CInit \in Nat /\ c \in Nat /\ Len(tail) \in Nat
      BY ConstantsAssumption DEF TInv, DiskTypes
    <3>2. ASSUME NEW n \in 0..Len(tail)
          PROVE  SubSeq(tail, n + 1, Len(tail)) \in Seq(Region)
      BY <3>1
    <3>3. ASSUME NEW n \in 0..Len(tail), n # Len(tail)
          PROVE  tail[n + 1].at \in Nat
      <4>1. n + 1 \in 1..Len(tail)
        BY <3>1, <3>3
      <4>2. tail[n + 1] \in Region
        BY <3>1, <4>1
      <4> QED BY <4>2 DEF Region
    <3> QED BY <2>1, <3>1, <3>2, <3>3
  <2>3. pc' \in [Thread -> PcValues]
    BY <2>1 DEF TInv, ThreadTypes, Goto, Returns, PcValues
  <2> QED BY <2>1, <2>2, <2>3 DEF TInv, DiskTypes, ThreadTypes
<1> QED BY <1>1, <1>2, <1>3, <1>4, <1>5 DEF RecoverStep

LEMMA OtherTypes ==
    ASSUME TInv,
           \/ StartProcess \/ StartRecover \/ Crash \/ Reboot \/ Mount \/ UNCHANGED vars
    PROVE  DiskTypes' /\ ThreadTypes'
<1>1. CASE StartProcess \/ StartRecover
  <2>1. /\ UNCHANGED <<c, tail, todo, had, drives>>
        /\ \E t \in Thread, x \in {"count", "enumerate"} :
                /\ said' = [said EXCEPT ![t] = {}] /\ pc' = [pc EXCEPT ![t] = x]
                /\ ret' = ret \/ ret' = [ret EXCEPT ![t] = "idle"]
    BY <1>1 DEF StartProcess, StartRecover, Goto, Call, Thread
  <2>2. /\ pc' \in [Thread -> PcValues] /\ ret' \in [Thread -> Returns]
        /\ said' \in [Thread -> SUBSET Sayings]
    <3>1. PICK t \in Thread, x \in {"count", "enumerate"} :
            /\ said' = [said EXCEPT ![t] = {}] /\ pc' = [pc EXCEPT ![t] = x]
            /\ ret' = ret \/ ret' = [ret EXCEPT ![t] = "idle"]
      BY <2>1
    <3>2. pc' \in [Thread -> PcValues] /\ ret' \in [Thread -> Returns]
      BY <3>1 DEF TInv, ThreadTypes, PcValues, Returns
    <3>3. said' \in [Thread -> SUBSET Sayings]
      BY <3>1 DEF TInv, ThreadTypes
    <3> QED BY <3>2, <3>3
  <2> QED BY <2>1, <2>2 DEF TInv, DiskTypes, ThreadTypes
<1>2. CASE Crash \/ Reboot
  <2>1. UNCHANGED <<c, tail>> /\ Stopped
    BY <1>2 DEF Crash, Reboot
  <2> QED BY <2>1 DEF TInv, DiskTypes, ThreadTypes, Stopped, PcValues, Returns, Letters
<1>3. CASE Mount \/ UNCHANGED vars
  <2>1. UNCHANGED <<c, tail, pc, ret, todo, had, drives, said>>
    BY <1>3 DEF Mount, vars
  <2> QED BY <2>1 DEF TInv, DiskTypes, ThreadTypes
<1> QED BY <1>1, <1>2, <1>3

LEMMA NextKeepsTInv == TInv /\ [Next]_vars => TInv'
<1> SUFFICES ASSUME TInv, [Next]_vars PROVE TInv'
  OBVIOUS
<1>1. LInv'
  BY NextKeepsLInv DEF TInv
<1>2. DiskTypes' /\ ThreadTypes'
  BY <1>1, WorkerTypes, RecoverTypes, OtherTypes DEF Next
<1> QED BY <1>1, <1>2 DEF TInv

\* Whatever commands fail, threads overlap or crashes come, every variable keeps to
\* the values the code can give it: no script takes more off C: than is free on it.
THEOREM TypesAreCorrect == Spec => []TypeOK
<1>1. TInv => TypeOK
  BY DEF TInv, LInv, Good, Lists, Requests, DiskTypes, ThreadTypes, TypeOK, Region, Letters, Returns,
         Sayings
<1>2. Init => TInv
  BY InitLInv, InitTypes DEF TInv
<1> QED BY <1>1, <1>2, NextKeepsTInv, PTL DEF Spec

-----------------------------------------------------------------------------
(***************************************************************************)
(* The regions after C: follow one another, and each volume of ours has    *)
(* one.  What makes it inductive: no region belongs to a volume that is    *)
(* not there, so a script that reuses an identity finds none of its own.   *)
(***************************************************************************)
Contiguous(at, s) ==
    /\ at = IF s = <<>> THEN CInit ELSE s[1].at
    /\ \A i \in 1..Len(s) :
        s[i].at + s[i].mb = IF i = Len(s) THEN CInit ELSE s[i + 1].at

Placed(d, s) ==
    /\ \A v \in Own : d[v].label # "absent" =>
            \E i \in 1..Len(s) : /\ s[i].v = v /\ s[i].mb = d[v].mb
                                /\ \A j \in 1..Len(s) : s[j].v = v => j = i
    /\ \A i \in 1..Len(s) : s[i].v # NoVol => s[i].v \in Own /\ d[s[i].v].label # "absent"

SInv == TInv /\ Contiguous(c, tail) /\ Placed(vol, tail)

\* d and e have the same volumes of ours, but for those in S, of the same sizes.
SameSizes(d, e, S) ==
    \A v \in Own \ S : /\ d[v].label = "absent" <=> e[v].label = "absent"
                       /\ d[v].mb = e[v].mb

LEMMA SameSizesPlaced ==
    ASSUME NEW d, NEW e, NEW s, Placed(d, s), SameSizes(d, e, {})
    PROVE  Placed(e, s)
BY DEF Placed, SameSizes

LEMMA PrependFacts ==
    ASSUME NEW r \in Region, NEW s \in Seq(Region)
    PROVE  /\ <<r>> \o s \in Seq(Region) /\ Len(<<r>> \o s) = Len(s) + 1
           /\ (<<r>> \o s)[1] = r
           /\ \A i \in 1..Len(s) : (<<r>> \o s)[i + 1] = s[i]
           /\ \A i \in 1..(Len(s) + 1) : i # 1 => i - 1 \in 1..Len(s) /\ (<<r>> \o s)[i] = s[i - 1]
<1>1. <<r>> \in Seq(Region) /\ Len(<<r>>) = 1 /\ <<r>>[1] = r
  OBVIOUS
<1>2. Len(s) \in Nat
  OBVIOUS
<1> QED BY <1>1, <1>2

LEMMA PrependContiguous ==
    ASSUME NEW r \in Region, NEW s \in Seq(Region), Contiguous(r.at + r.mb, s)
    PROVE  Contiguous(r.at, <<r>> \o s)
<1> DEFINE t == <<r>> \o s
<1>1. /\ t \in Seq(Region) /\ Len(t) = Len(s) + 1 /\ t[1] = r
      /\ \A i \in 1..Len(s) : t[i + 1] = s[i]
      /\ \A i \in 1..(Len(s) + 1) : i # 1 => i - 1 \in 1..Len(s) /\ t[i] = s[i - 1]
  BY PrependFacts
<1>2. Len(s) \in Nat /\ (s = <<>> <=> Len(s) = 0)
  OBVIOUS
<1> HIDE DEF t
<1>3. t # <<>> /\ r.at = t[1].at
  BY <1>1, <1>2
<1>4. ASSUME NEW i \in 1..Len(t)
      PROVE  t[i].at + t[i].mb = IF i = Len(t) THEN CInit ELSE t[i + 1].at
  <2>1. CASE i = 1 /\ Len(s) = 0
    BY <1>1, <1>2, <2>1 DEF Contiguous
  <2>2. CASE i = 1 /\ Len(s) # 0
    <3>1. t[2] = s[1]
      BY <1>1, <1>2, <2>2
    <3> QED BY <1>1, <1>2, <2>2, <3>1 DEF Contiguous
  <2>3. CASE i # 1
    <3>1. /\ i - 1 \in 1..Len(s) /\ t[i] = s[i - 1]
          /\ i # Len(t) => t[i + 1] = s[i - 1 + 1]
      BY <1>1, <1>2, <2>3
    <3>2. i = Len(t) <=> i - 1 = Len(s)
      BY <1>1, <1>2, <2>3
    <3> QED BY <3>1, <3>2 DEF Contiguous
  <2> QED BY <2>1, <2>2, <2>3
<1>5. Contiguous(r.at, t)
  BY <1>3, <1>4 DEF Contiguous
<1> QED BY <1>5 DEF t

\* A region put in front: a free one, or that of a volume which was not there in d.
LEMMA PrependPlaced ==
    ASSUME NEW r \in Region, NEW s \in Seq(Region), NEW d, NEW e,
           Placed(d, s), SameSizes(d, e, {r.v}),
           \/ r.v = NoVol
           \/ r.v \in Own /\ d[r.v].label = "absent" /\ e[r.v].label # "absent" /\ e[r.v].mb = r.mb
    PROVE  Placed(e, <<r>> \o s)
<1> DEFINE t == <<r>> \o s
<1>1. /\ t \in Seq(Region) /\ Len(t) = Len(s) + 1 /\ t[1] = r
      /\ \A i \in 1..Len(s) : t[i + 1] = s[i]
      /\ \A i \in 1..(Len(s) + 1) : i # 1 => i - 1 \in 1..Len(s) /\ t[i] = s[i - 1]
  BY PrependFacts
<1>2. Len(s) \in Nat /\ NoVol \notin Own
  BY ConstantsAssumption
<1> HIDE DEF t
<1>3. ASSUME NEW v \in Own, e[v].label # "absent"
      PROVE  \E i \in 1..Len(t) : /\ t[i].v = v /\ t[i].mb = e[v].mb
                                 /\ \A j \in 1..Len(t) : t[j].v = v => j = i
  <2>1. CASE v = r.v
    <3>1. d[v].label = "absent" /\ e[v].mb = r.mb
      BY <1>2, <2>1
    <3>2. \A j \in 1..Len(s) : s[j].v # v
      BY <1>2, <3>1 DEF Placed
    <3>3. \A j \in 1..Len(t) : t[j].v = v => j = 1
      BY <1>1, <3>2
    <3>4. 1 \in 1..Len(t)
      BY <1>1, <1>2
    <3>5. t[1].v = v /\ t[1].mb = e[v].mb
      BY <1>1, <2>1, <3>1
    <3> QED BY <3>3, <3>4, <3>5
  <2>2. CASE v # r.v
    <3>1. d[v].label # "absent" /\ d[v].mb = e[v].mb
      BY <1>3, <2>2 DEF SameSizes
    <3>2. PICK i \in 1..Len(s) : /\ s[i].v = v /\ s[i].mb = d[v].mb
                                /\ \A j \in 1..Len(s) : s[j].v = v => j = i
      BY <3>1 DEF Placed
    <3>3. i + 1 \in 1..Len(t) /\ t[i + 1] = s[i]
      BY <1>1, <1>2
    <3>4. ASSUME NEW j \in 1..Len(t), t[j].v = v
          PROVE  j = i + 1
      <4>1. j # 1
        BY <1>1, <2>2, <3>4
      <4>2. j - 1 \in 1..Len(s) /\ s[j - 1].v = v
        BY <1>1, <3>4, <4>1
      <4>3. j - 1 = i
        BY <3>2, <4>2
      <4> QED BY <1>2, <4>2, <4>3
    <3>5. t[i + 1].v = v /\ t[i + 1].mb = e[v].mb
      BY <3>1, <3>2, <3>3
    <3> QED BY <3>3, <3>4, <3>5
  <2> QED BY <2>1, <2>2
<1>4. ASSUME NEW i \in 1..Len(t), t[i].v # NoVol
      PROVE  t[i].v \in Own /\ e[t[i].v].label # "absent"
  <2>1. CASE i = 1
    BY <1>1, <1>4, <2>1
  <2>2. CASE i # 1
    <3>1. i - 1 \in 1..Len(s) /\ t[i] = s[i - 1]
      BY <1>1, <1>2, <2>2
    <3>2. t[i].v \in Own /\ d[t[i].v].label # "absent"
      BY <1>4, <3>1 DEF Placed
    <3>3. t[i].v # r.v
      BY <1>4, <3>2
    <3> DEFINE u == t[i].v
    <3>4. u \in Own \ {r.v} /\ d[u].label # "absent"
      BY <3>2, <3>3
    <3> HIDE DEF u
    <3>5. e[u].label # "absent"
      BY <3>4 DEF SameSizes
    <3> QED BY <3>4, <3>5 DEF u
  <2> QED BY <2>1, <2>2
<1>5. Placed(e, t)
  BY <1>3, <1>4 DEF Placed
<1> QED BY <1>5 DEF t

\* Lettering and the like keep the sizes; a script's volumes are new.
LEMMA ScriptedSizes ==
    ASSUME NEW d, Good(d), NEW b \in 0..2, NEW e \in 0..2, NEW v \in Own, NEW w \in Own, v # w,
           NEW l
    PROVE  LET x == Scripted(d, b, v, l, e, w)
           IN  /\ \A u \in Vol : u # v /\ u # w => x[u] = d[u]
               /\ b = 0 => x[v] = d[v]
               /\ e = 0 => x[w] = d[w]
               /\ b > 0 => x[v].label # "absent" /\ x[v].mb = IsoBootMB
               /\ e > 0 => x[w].label # "absent" /\ x[w].mb = IsoEfiMB
<1> DEFINE x == Scripted(d, b, v, l, e, w)
           cB == Created(b, "ISOBOOT", req.fmt, IsoBootMB, l)
           cE == Created(e, "ISOEFI", "FAT32", IsoEfiMB, NoLetter)
<1>1. d \in [Vol -> Volume] /\ v \in Vol /\ w \in Vol
  BY DEF Good, Vol
<1>2. /\ cB.label # "absent" /\ cB.mb = IsoBootMB
      /\ cE.label # "absent" /\ cE.mb = IsoEfiMB
  BY DEF Created, Fresh
<1>3. x[v] = IF b > 0 THEN cB ELSE d[v]
  BY <1>1 DEF Scripted
<1>4. x[w] = IF e > 0 THEN cE ELSE d[w]
  BY <1>1 DEF Scripted
<1>5. \A u \in Vol : u # v /\ u # w => x[u] = d[u]
  BY <1>1 DEF Scripted
<1> HIDE DEF x, cB, cE
<1>6. /\ \A u \in Vol : u # v /\ u # w => x[u] = d[u]
      /\ b = 0 => x[v] = d[v]
      /\ e = 0 => x[w] = d[w]
      /\ b > 0 => x[v].label # "absent" /\ x[v].mb = IsoBootMB
      /\ e > 0 => x[w].label # "absent" /\ x[w].mb = IsoEfiMB
  BY <1>2, <1>3, <1>4, <1>5
<1> QED BY <1>6 DEF x

LEMMA PrependIf ==
    ASSUME NEW n \in BOOLEAN, NEW r \in Region, NEW s \in Seq(Region), NEW at \in Nat,
           NEW d, NEW e, Placed(d, s), Contiguous(at, s),
           n => r.at + r.mb = at,
           SameSizes(d, e, {r.v}),
           \/ r.v = NoVol
           \/ /\ n /\ r.v \in Own
              /\ d[r.v].label = "absent" /\ e[r.v].label # "absent" /\ e[r.v].mb = r.mb
    PROVE  LET t == (IF n THEN <<r>> ELSE <<>>) \o s
           IN  t \in Seq(Region) /\ Placed(e, t) /\ Contiguous(IF n THEN r.at ELSE at, t)
<1>1. CASE n
  <2>1. /\ <<r>> \o s \in Seq(Region) /\ Placed(e, <<r>> \o s)
        /\ Contiguous(r.at, <<r>> \o s)
    BY <1>1, PrependFacts, PrependPlaced, PrependContiguous
  <2> QED BY <1>1, <2>1
<1>2. CASE ~n
  <2>1. <<>> \o s = s
    OBVIOUS
  <2>2. r.v = NoVol /\ NoVol \notin Own
    BY <1>2, ConstantsAssumption
  <2>3. SameSizes(d, e, {})
    BY <2>2 DEF SameSizes
  <2>4. Placed(e, s)
    BY <2>3, SameSizesPlaced
  <2> QED BY <1>2, <2>1, <2>4
<1> QED BY <1>1, <1>2

LEMMA ShrunkPlaced ==
    ASSUME NEW newB \in BOOLEAN, NEW newE \in BOOLEAN, NEW b \in 0..2, NEW e \in 0..2,
           NEW v \in Own, NEW w \in Own, v # w, NEW l, NEW at \in Nat,
           NEW d, Good(d),
           b > 0 => newB /\ d[v].label = "absent", e > 0 => newE /\ d[w].label = "absent",
           NEW s \in Seq(Region), Placed(d, s), Contiguous(at + Needed(newB, newE), s)
    PROVE  LET t == Shrunk(newB, newE, b, v, e, w, at) \o s
           IN  Contiguous(at, t) /\ Placed(Scripted(d, b, v, l, e, w), t)
<1> DEFINE x == Scripted(d, b, v, l, e, w)
           dE == [d EXCEPT ![w] = x[w]]
           atE == at + (IF newB THEN IsoBootMB ELSE 0)
           atM == atE + (IF newE THEN IsoEfiMB ELSE 0)
           rB == [v |-> IF b > 0 THEN v ELSE NoVol, at |-> at, mb |-> IsoBootMB]
           rE == [v |-> IF e > 0 THEN w ELSE NoVol, at |-> atE, mb |-> IsoEfiMB]
           rM == [v |-> NoVol, at |-> atM, mb |-> MarginMB]
           sB == IF newB THEN <<rB>> ELSE <<>>
           sE == IF newE THEN <<rE>> ELSE <<>>
<1>1. /\ \A u \in Vol : u # v /\ u # w => x[u] = d[u]
      /\ b = 0 => x[v] = d[v]
      /\ e = 0 => x[w] = d[w]
      /\ b > 0 => x[v].label # "absent" /\ x[v].mb = IsoBootMB
      /\ e > 0 => x[w].label # "absent" /\ x[w].mb = IsoEfiMB
  BY ScriptedSizes
<1>2. d \in [Vol -> Volume] /\ v \in Vol /\ w \in Vol /\ NoVol \notin Own /\ Own \subseteq Vol
  BY ConstantsAssumption DEF Good, Vol
<1>3. dE[w] = x[w] /\ \A u \in Vol : u # w => dE[u] = d[u]
  BY <1>2
<1>4. atE \in Nat /\ atM \in Nat /\ atM + MarginMB = at + Needed(newB, newE)
  BY DEF Needed, IsoBootMB, IsoEfiMB, MarginMB
<1>5. newB => at + IsoBootMB = atE
  BY DEF IsoBootMB
<1>6. newE => atE + IsoEfiMB = atM
  BY <1>4 DEF IsoEfiMB
<1>7. (~newB => atE = at) /\ (~newE => atM = atE)
  BY <1>4
<1> HIDE DEF x, dE, atE, atM
<1>8. rB \in Region /\ rE \in Region /\ rM \in Region
  BY <1>2, <1>4 DEF Region, IsoBootMB, IsoEfiMB, MarginMB, Vol
<1>9. /\ <<rM>> \o s \in Seq(Region)
      /\ Placed(d, <<rM>> \o s) /\ Contiguous(atM, <<rM>> \o s)
  <2>1. SameSizes(d, d, {rM.v}) /\ rM.v = NoVol /\ rM.at = atM /\ rM.mb = MarginMB
    BY DEF SameSizes
  <2>2. Contiguous(rM.at + rM.mb, s)
    BY <1>4, <2>1
  <2> HIDE DEF rM
  <2> QED BY <1>8, <2>1, <2>2, PrependFacts, PrependPlaced, PrependContiguous
<1>10. /\ sE \o (<<rM>> \o s) \in Seq(Region)
       /\ Placed(dE, sE \o (<<rM>> \o s)) /\ Contiguous(atE, sE \o (<<rM>> \o s))
  <2>1. /\ rE.v = IF e > 0 THEN w ELSE NoVol
        /\ rE.at = atE /\ rE.mb = IsoEfiMB
    OBVIOUS
  <2>2. SameSizes(d, dE, {rE.v})
    BY <1>1, <1>2, <1>3, <2>1 DEF SameSizes
  <2>3. \/ rE.v = NoVol
        \/ /\ newE /\ rE.v \in Own
           /\ d[rE.v].label = "absent" /\ dE[rE.v].label # "absent" /\ dE[rE.v].mb = rE.mb
    BY <1>1, <1>3, <2>1
  <2>4. newE => rE.at + rE.mb = atM
    BY <1>6, <2>1
  <2> DEFINE q == <<rM>> \o s
  <2>5. q \in Seq(Region) /\ Placed(d, q) /\ Contiguous(atM, q)
    BY <1>9
  <2> HIDE DEF rE, q
  <2>6. /\ (IF newE THEN <<rE>> ELSE <<>>) \o q \in Seq(Region)
        /\ Placed(dE, (IF newE THEN <<rE>> ELSE <<>>) \o q)
        /\ Contiguous(IF newE THEN rE.at ELSE atM, (IF newE THEN <<rE>> ELSE <<>>) \o q)
    BY <1>4, <1>8, <2>2, <2>3, <2>4, <2>5, PrependIf
  <2> QED BY <1>7, <2>1, <2>6 DEF q
<1>11. /\ Placed(x, sB \o (sE \o (<<rM>> \o s)))
       /\ Contiguous(at, sB \o (sE \o (<<rM>> \o s)))
  <2>1. rB.v = (IF b > 0 THEN v ELSE NoVol) /\ rB.at = at /\ rB.mb = IsoBootMB
    OBVIOUS
  <2>2. SameSizes(dE, x, {rB.v})
    BY <1>1, <1>2, <1>3, <2>1 DEF SameSizes
  <2>3. \/ rB.v = NoVol
        \/ /\ newB /\ rB.v \in Own
           /\ dE[rB.v].label = "absent" /\ x[rB.v].label # "absent" /\ x[rB.v].mb = rB.mb
    BY <1>1, <1>2, <1>3, <2>1
  <2>4. newB => rB.at + rB.mb = atE
    BY <1>5, <2>1
  <2> DEFINE q == sE \o (<<rM>> \o s)
  <2>5. q \in Seq(Region) /\ Placed(dE, q) /\ Contiguous(atE, q)
    BY <1>10
  <2> HIDE DEF rB, q
  <2>6. /\ Placed(x, (IF newB THEN <<rB>> ELSE <<>>) \o q)
        /\ Contiguous(IF newB THEN rB.at ELSE atE, (IF newB THEN <<rB>> ELSE <<>>) \o q)
    BY <1>4, <1>8, <2>2, <2>3, <2>4, <2>5, PrependIf
  <2> QED BY <1>7, <2>1, <2>6 DEF q
<1>12. Shrunk(newB, newE, b, v, e, w, at) \o s = sB \o (sE \o (<<rM>> \o s))
  <2>1. Shrunk(newB, newE, b, v, e, w, at) = sB \o sE \o <<rM>>
    BY DEF Shrunk, atE, atM
  <2>2. sB \in Seq(Region) /\ sE \in Seq(Region) /\ <<rM>> \in Seq(Region)
    BY <1>8
  <2> HIDE DEF sB, sE, rM
  <2>3. ((sB \o sE) \o <<rM>>) \o s = (sB \o sE) \o (<<rM>> \o s)
    BY <2>2, ConcatAssociative
  <2>4. (sB \o sE) \o (<<rM>> \o s) = sB \o (sE \o (<<rM>> \o s))
    BY <1>9, <2>2, ConcatAssociative DEF rM
  <2> QED BY <2>1, <2>3, <2>4
<1> QED BY <1>11, <1>12 DEF x

LEMMA ScriptKeepsSInv ==
    ASSUME SInv, TInv', PerformDiskpartOperations
    PROVE  SInv'
<1>1. /\ Good(vol) /\ tail \in Seq(Region) /\ c \in Nat /\ CUsed \in Nat
      /\ Contiguous(c, tail) /\ Placed(vol, tail)
  BY ConstantsAssumption DEF SInv, TInv, LInv, DiskTypes
<1>2. PICK r \in DriveLetters(vol, "ISOEFI") :
        \/ vol' = r.d /\ UNCHANGED <<c, tail>>
        \/ /\ c - CUsed >= Needed(~PartitionExists(vol), r.letter = NoLetter)
           /\ c' = c - Needed(~PartitionExists(vol), r.letter = NoLetter)
           /\ RunScript(r.d, ~PartitionExists(vol), r.letter = NoLetter)
  BY DEF PerformDiskpartOperations
<1>3. Good(r.d) /\ Lettering(vol, r.d)
  BY <1>1, DriveLettersGood
<1>4. SameSizes(vol, r.d, {})
  BY <1>3 DEF SameSizes, Lettering, Vol
<1>5. Placed(r.d, tail)
  BY <1>1, <1>4, SameSizesPlaced
<1> DEFINE newB == ~PartitionExists(vol)
           newE == r.letter = NoLetter
<1>6. newB \in BOOLEAN /\ newE \in BOOLEAN
  OBVIOUS
<1>7. \/ vol' = r.d /\ UNCHANGED <<c, tail>>
      \/ /\ c - CUsed >= Needed(newB, newE) /\ c' = c - Needed(newB, newE)
         /\ RunScript(r.d, newB, newE)
  BY <1>2
<1> HIDE DEF newB, newE
<1>8. CASE vol' = r.d /\ UNCHANGED <<c, tail>>
  <2>1. Contiguous(c', tail') /\ Placed(vol', tail')
    BY <1>1, <1>5, <1>8
  <2> QED BY <2>1 DEF SInv, Contiguous, Placed
<1>9. CASE /\ c - CUsed >= Needed(newB, newE) /\ c' = c - Needed(newB, newE)
           /\ RunScript(r.d, newB, newE)
  <2>1. Needed(newB, newE) \in Nat
    BY DEF Needed, IsoBootMB, IsoEfiMB, MarginMB
  <2>2. c' \in Nat /\ c' + Needed(newB, newE) = c
    BY <1>1, <1>9, <2>1
  <2>3. PICK b \in 0..2, e \in 0..2, v \in Own, w \in Own, l \in FreeLetters(r.d) \cup {NoLetter} :
            /\ v # w
            /\ b > 0 => newB /\ r.d[v].label = "absent"
            /\ e > 0 => newE /\ r.d[w].label = "absent"
            /\ vol' = Scripted(r.d, b, v, l, e, w)
            /\ tail' = ScriptedTail(newB, newE, b, v, e, w)
    BY <1>9 DEF RunScript
  <2>4. tail' = Shrunk(newB, newE, b, v, e, w, c') \o tail
    BY <1>9, <2>3, Zenon DEF ScriptedTail
  <2>5. Contiguous(c' + Needed(newB, newE), tail)
    BY <1>1, <2>2
  <2>6. /\ Contiguous(c', Shrunk(newB, newE, b, v, e, w, c') \o tail)
        /\ Placed(Scripted(r.d, b, v, l, e, w), Shrunk(newB, newE, b, v, e, w, c') \o tail)
    BY <1>1, <1>3, <1>5, <1>6, <2>2, <2>3, <2>5, ShrunkPlaced
  <2>7. Contiguous(c', tail') /\ Placed(vol', tail')
    BY <2>3, <2>4, <2>6, Zenon
  <2> QED BY <2>7 DEF SInv, Contiguous, Placed
<1> QED BY <1>7, <1>8, <1>9

LEMMA DeleteKeepsSInv ==
    ASSUME SInv, TInv', NEW t \in Thread, DeleteVolume(t)
    PROVE  SInv'
<1>1. /\ vol \in [Vol -> Volume] /\ tail \in Seq(Region) /\ Contiguous(c, tail) /\ Placed(vol, tail)
      /\ NoVol \notin Own /\ Own \subseteq Vol
  BY ConstantsAssumption DEF SInv, TInv, LInv, DiskTypes, Good, Vol
<1>2. c' = c
  BY DEF DeleteVolume
<1>3. \/ UNCHANGED <<vol, tail>>
      \/ \E v \in Vol :
            /\ vol' = [vol EXCEPT ![v] = Absent]
            /\ tail' = [i \in DOMAIN tail |->
                          IF tail[i].v = v THEN [tail[i] EXCEPT !.v = NoVol] ELSE tail[i]]
  BY DEF DeleteVolume, WithLetter
<1>4. CASE UNCHANGED <<vol, tail>>
  BY <1>1, <1>2, <1>4 DEF SInv, Contiguous, Placed
<1>5. ASSUME NEW v \in Vol, vol' = [vol EXCEPT ![v] = Absent],
             tail' = [i \in DOMAIN tail |->
                        IF tail[i].v = v THEN [tail[i] EXCEPT !.v = NoVol] ELSE tail[i]]
      PROVE  SInv'
  <2>1. DOMAIN tail = 1..Len(tail) /\ Len(tail) \in Nat /\ tail' \in Seq(Region)
    BY <1>1 DEF TInv, DiskTypes
  <2>2. Len(tail') = Len(tail)
    BY <1>5, <2>1
  <2>3. \A i \in 1..Len(tail) : /\ tail'[i].at = tail[i].at /\ tail'[i].mb = tail[i].mb
                                /\ tail'[i].v = IF tail[i].v = v THEN NoVol ELSE tail[i].v
    <3> SUFFICES ASSUME NEW i \in 1..Len(tail)
                 PROVE  /\ tail'[i].at = tail[i].at /\ tail'[i].mb = tail[i].mb
                        /\ tail'[i].v = IF tail[i].v = v THEN NoVol ELSE tail[i].v
      OBVIOUS
    <3>1. tail[i] \in Region
      BY <1>1
    <3>2. tail'[i] = IF tail[i].v = v THEN [tail[i] EXCEPT !.v = NoVol] ELSE tail[i]
      BY <1>5, <2>1
    <3> QED BY <3>1, <3>2 DEF Region
  <2>4. Absent.label = "absent" /\ vol'[v] = Absent /\ \A u \in Vol : u # v => vol'[u] = vol[u]
    BY <1>1, <1>5 DEF Absent, Fresh
  <2>5. tail' = <<>> <=> tail = <<>>
    BY <1>1, <2>1, <2>2
  <2>6. Contiguous(c', tail')
    <3>1. tail # <<>> => 1 \in 1..Len(tail)
      BY <1>1
    <3>2. \A i \in 1..Len(tail) : i # Len(tail) => i + 1 \in 1..Len(tail)
      <4>1. \A n \in Nat : \A i \in 1..n : i # n => i + 1 \in 1..n
        OBVIOUS
      <4> QED BY <2>1, <4>1
    <3> QED BY <1>1, <1>2, <2>2, <2>3, <2>5, <3>1, <3>2 DEF Contiguous
  <2>7. Placed(vol', tail')
    <3>1. ASSUME NEW u \in Own, vol'[u].label # "absent"
          PROVE  \E i \in 1..Len(tail') : /\ tail'[i].v = u /\ tail'[i].mb = vol'[u].mb
                                         /\ \A j \in 1..Len(tail') : tail'[j].v = u => j = i
      <4>1. u # v /\ vol'[u] = vol[u] /\ u # NoVol
        BY <1>1, <2>4, <3>1
      <4>2. PICK i \in 1..Len(tail) : /\ tail[i].v = u /\ tail[i].mb = vol[u].mb
                                     /\ \A j \in 1..Len(tail) : tail[j].v = u => j = i
        BY <1>1, <3>1, <4>1 DEF Placed
      <4> QED BY <2>2, <2>3, <4>1, <4>2
    <3>2. ASSUME NEW i \in 1..Len(tail'), tail'[i].v # NoVol
          PROVE  tail'[i].v \in Own /\ vol'[tail'[i].v].label # "absent"
      <4>1. tail'[i].v = tail[i].v /\ tail[i].v # v /\ tail[i].v # NoVol /\ i \in 1..Len(tail)
        BY <2>2, <2>3, <3>2
      <4>2. tail[i].v \in Own /\ vol[tail[i].v].label # "absent"
        BY <1>1, <4>1 DEF Placed
      <4>3. vol'[tail[i].v] = vol[tail[i].v]
        BY <1>1, <2>4, <4>1, <4>2
      <4> QED BY <4>1, <4>2, <4>3
    <3> QED BY <3>1, <3>2 DEF Placed
  <2> QED BY <2>6, <2>7 DEF SInv, Contiguous, Placed
<1> QED BY <1>3, <1>4, <1>5

LEMMA ExtendKeepsSInv ==
    ASSUME SInv, TInv', NEW t \in Thread, ExtendC(t)
    PROVE  SInv'
<1>1. /\ tail \in Seq(Region) /\ Contiguous(c, tail) /\ Placed(vol, tail)
      /\ NoVol \notin Own /\ Len(tail) \in Nat
  BY ConstantsAssumption DEF SInv, TInv, DiskTypes
<1>2. vol' = vol
  BY DEF ExtendC
<1>3. \/ UNCHANGED <<c, tail>>
      \/ \E n \in 0..Len(tail) :
            /\ LeadingFree(n)
            /\ c' = IF n = Len(tail) THEN CInit ELSE tail[n + 1].at
            /\ tail' = SubSeq(tail, n + 1, Len(tail))
  BY DEF ExtendC
<1>4. CASE UNCHANGED <<c, tail>>
  BY <1>1, <1>2, <1>4 DEF SInv, Contiguous, Placed
<1>5. ASSUME NEW n \in 0..Len(tail), LeadingFree(n),
             c' = IF n = Len(tail) THEN CInit ELSE tail[n + 1].at,
             tail' = SubSeq(tail, n + 1, Len(tail))
      PROVE  SInv'
  <2> DEFINE m == Len(tail) - n
  <2>1. m \in Nat /\ Len(tail') = m
    BY <1>1, <1>5
  <2>2. \A i \in 1..m : tail'[i] = tail[n + i] /\ n + i \in 1..Len(tail)
    BY <1>1, <1>5
  <2>3. tail' \in Seq(Region) /\ (tail' = <<>> <=> m = 0)
    BY <2>1 DEF TInv, DiskTypes
  <2>4. Contiguous(c', tail')
    <3>1. c' = IF tail' = <<>> THEN CInit ELSE tail'[1].at
      <4>1. CASE m = 0
        BY <1>1, <1>5, <2>3, <4>1
      <4>2. CASE m # 0
        <5>1. 1 \in 1..m /\ n # Len(tail)
          BY <1>1, <2>1, <4>2
        <5>2. tail'[1] = tail[n + 1]
          BY <2>2, <5>1
        <5> QED BY <1>5, <2>3, <4>2, <5>1, <5>2
      <4> QED BY <4>1, <4>2
    <3>2. ASSUME NEW i \in 1..m
          PROVE  tail'[i].at + tail'[i].mb = IF i = m THEN CInit ELSE tail'[i + 1].at
      <4>1. tail[n + i].at + tail[n + i].mb =
                IF n + i = Len(tail) THEN CInit ELSE tail[n + i + 1].at
        BY <1>1, <2>2 DEF Contiguous
      <4>2. tail'[i] = tail[n + i] /\ (n + i = Len(tail) <=> i = m)
        BY <1>1, <2>1, <2>2
      <4>3. i # m => i + 1 \in 1..m /\ n + (i + 1) = n + i + 1
        BY <2>1
      <4>4. i # m => tail'[i + 1] = tail[n + i + 1]
        BY <2>2, <4>3
      <4> QED BY <4>1, <4>2, <4>4
    <3> QED BY <2>1, <3>1, <3>2 DEF Contiguous
  <2>5. Placed(vol', tail')
    <3>1. ASSUME NEW u \in Own, vol'[u].label # "absent"
          PROVE  \E i \in 1..Len(tail') : /\ tail'[i].v = u /\ tail'[i].mb = vol'[u].mb
                                         /\ \A j \in 1..Len(tail') : tail'[j].v = u => j = i
      <4>1. PICK i \in 1..Len(tail) : /\ tail[i].v = u /\ tail[i].mb = vol[u].mb
                                     /\ \A j \in 1..Len(tail) : tail[j].v = u => j = i
        BY <1>1, <1>2, <3>1 DEF Placed
      <4>2. i \notin 1..n
        BY <1>1, <1>5, <4>1 DEF LeadingFree
      <4>3. i - n \in 1..m /\ n + (i - n) = i
        BY <1>1, <4>2
      <4>4. tail'[i - n] = tail[i]
        BY <2>2, <4>3
      <4>5. ASSUME NEW j \in 1..m, tail'[j].v = u
            PROVE  j = i - n
        <5>1. n + j = i
          BY <2>2, <4>1, <4>5
        <5> QED BY <5>1
      <4> QED BY <1>2, <2>1, <4>1, <4>3, <4>4, <4>5
    <3>2. \A i \in 1..Len(tail') : tail'[i].v # NoVol =>
                tail'[i].v \in Own /\ vol'[tail'[i].v].label # "absent"
      BY <1>1, <1>2, <2>1, <2>2 DEF Placed
    <3> QED BY <3>1, <3>2 DEF Placed
  <2> QED BY <2>4, <2>5 DEF SInv, Contiguous, Placed
<1> QED BY <1>3, <1>4, <1>5

LEMMA LetteringSizes ==
    ASSUME NEW d, NEW e, Lettering(d, e)
    PROVE  SameSizes(d, e, {})
BY DEF Lettering, SameSizes, Vol

LEMMA FormattedSizes ==
    ASSUME NEW d, Good(d), NEW v \in Vol, d[v].label # "absent", NEW fs, NEW L \in OwnLabels
    PROVE  SameSizes(d, Formatted(d, v, fs, L), {})
<1> DEFINE e == Formatted(d, v, fs, L)
<1>1. v \in DOMAIN d
  BY DEF Good
<1>2. e[v] = Fresh(L, fs, d[v].mb, d[v].letter) /\ \A u \in Own : u # v => e[u] = d[u]
  BY <1>1 DEF Formatted, Good, Vol
<1>3. e[v].label # "absent" /\ e[v].mb = d[v].mb
  BY <1>2 DEF Fresh, OwnLabels
<1> HIDE DEF e
<1>4. SameSizes(d, e, {})
  BY <1>2, <1>3 DEF SameSizes
<1> QED BY <1>4 DEF e

LEMMA HalfFormattedSizes ==
    ASSUME NEW d, Good(d), NEW v \in Vol, d[v].label # "absent", NEW e \in HalfFormatted(d, v)
    PROVE  SameSizes(d, e, {})
<1> DEFINE x == Fresh("raw", "none", d[v].mb, d[v].letter)
<1>1. x.label # "absent" /\ x.mb = d[v].mb
  BY DEF Fresh
<1>2. e = d \/ e = [d EXCEPT ![v] = x]
  BY DEF HalfFormatted
<1> HIDE DEF x
<1>3. v \in DOMAIN d
  BY DEF Good
<1>4. CASE e = d
  BY <1>4 DEF SameSizes
<1>5. CASE e = [d EXCEPT ![v] = x]
  <2>1. e[v] = x /\ \A u \in Own : u # v => e[u] = d[u]
    BY <1>3, <1>5 DEF Good, Vol
  <2> QED BY <1>1, <2>1 DEF SameSizes
<1> QED BY <1>2, <1>4, <1>5

\* Every other step keeps the regions, and which volumes are there and how large:
\* what is formatted is a volume that is there.
LEMMA OtherSizes ==
    ASSUME SInv, OInv,
           \/ StartProcess \/ CountEfi \/ CheckExisting \/ HashCheck
           \/ FindDataVolume \/ ReformatPartition \/ FindEfiVolume \/ ReformatEfiPartition
           \/ CheckDisk \/ DecideCreate \/ GetDrives \/ CopyIsoContent
           \/ StartRecover
           \/ (\E t \in Thread : EnumerateVolumes(t) \/ ListVolumes(t) \/ AssignLetter(t))
           \/ Crash \/ Reboot \/ Mount \/ UNCHANGED vars
    PROVE  SameSizes(vol, vol', {}) /\ UNCHANGED <<c, tail>>
<1>0. Good(vol) /\ vol \in [Vol -> Volume] /\ Own \subseteq Vol
  BY DEF SInv, TInv, LInv, Good, Vol
<1>1. CASE \/ StartProcess \/ CountEfi \/ StartRecover \/ Crash \/ UNCHANGED vars
           \/ FindDataVolume \/ FindEfiVolume \/ (\E t \in Thread : ListVolumes(t))
  BY <1>1 DEF StartProcess, CountEfi, StartRecover, Crash, FindDataVolume, FindEfiVolume, ListVolumes,
              vars, SameSizes
<1>2. CASE \/ CheckExisting \/ HashCheck \/ CheckDisk \/ DecideCreate \/ GetDrives \/ Mount
           \/ \E t \in Thread : EnumerateVolumes(t)
  <2>1. UNCHANGED <<c, tail>>
    BY <1>2 DEF CheckExisting, HashCheck, CheckDisk, DecideCreate, GetDrives, Mount, EnumerateVolumes
  <2>2. Lettering(vol, vol')
    BY <1>2, LookupLettering DEF OInv
  <2> QED BY <2>1, <2>2, LetteringSizes
<1>3. CASE \E t \in Thread : AssignLetter(t)
  <2>1. UNCHANGED <<c, tail>>
    BY <1>3 DEF AssignLetter
  <2>2. \A v \in Vol : vol'[v].label = vol[v].label /\ vol'[v].mb = vol[v].mb
    BY <1>3, AssignNames DEF OInv
  <2> QED BY <1>0, <2>1, <2>2 DEF SameSizes
<1>4. CASE ReformatPartition \/ ReformatEfiPartition
  <2>1. UNCHANGED <<c, tail>>
    BY <1>4 DEF ReformatPartition, ReformatEfiPartition
  <2>2. \/ vol' = vol
        \/ \E v \in Vol, L \in OwnLabels, fs \in Formats \cup {"FAT32"} :
              /\ vol[v].label # "absent"
              /\ vol' = Formatted(vol, v, fs, L) \/ vol' \in HalfFormatted(vol, v)
    BY <1>4, FormatSteps DEF OInv, LInv, Requests, OwnLabels
  <2>3. CASE vol' = vol
    BY <2>1, <2>3 DEF SameSizes
  <2>4. ASSUME NEW v \in Vol, NEW L \in OwnLabels, NEW fs \in Formats \cup {"FAT32"},
               vol[v].label # "absent",
               vol' = Formatted(vol, v, fs, L) \/ vol' \in HalfFormatted(vol, v)
        PROVE  SameSizes(vol, vol', {})
    BY <1>0, <2>4, FormattedSizes, HalfFormattedSizes
  <2> QED BY <2>1, <2>2, <2>3, <2>4
<1>5. CASE CopyIsoContent
  <2>1. \A v \in Vol : vol'[v].label = vol[v].label /\ vol'[v].mb = vol[v].mb
    <3>1. ASSUME NEW d \in [Vol -> Volume], NEW v \in Vol, NEW h, NEW w \in BOOLEAN
          PROVE  \A u \in Vol :
                    /\ WithEfiFiles(d, v, w)[u].label = d[u].label
                    /\ WithEfiFiles(d, v, w)[u].mb = d[u].mb
                    /\ [d EXCEPT ![v].hash = h][u].label = d[u].label
                    /\ [d EXCEPT ![v].hash = h][u].mb = d[u].mb
      BY DEF Volume, WithEfiFiles
    <3>2. ASSUME NEW e \in Vol, NEW w \in BOOLEAN, vol' = WithEfiFiles(vol, e, w)
          PROVE  \A v \in Vol : vol'[v].label = vol[v].label /\ vol'[v].mb = vol[v].mb
      BY <1>0, <3>1, <3>2
    <3>3. ASSUME NEW e \in Vol, NEW w \in BOOLEAN, NEW p \in Vol,
                 vol' = [WithEfiFiles(vol, e, w) EXCEPT ![p].hash = HashFile]
          PROVE  \A v \in Vol : vol'[v].label = vol[v].label /\ vol'[v].mb = vol[v].mb
      <4> DEFINE d == WithEfiFiles(vol, e, w)
      <4>2. d \in [Vol -> Volume]
        BY <1>0, EfiFilesContent
      <4>4. \A u \in Vol : d[u].label = vol[u].label /\ d[u].mb = vol[u].mb
        BY <1>0, <3>1
      <4>5. vol' = [d EXCEPT ![p].hash = HashFile]
        BY <3>3
      <4> HIDE DEF d
      <4>6. \A u \in Vol : vol'[u].label = d[u].label /\ vol'[u].mb = d[u].mb
        BY <3>1, <4>2, <4>5
      <4> QED BY <4>4, <4>6
    <3> QED BY <1>5, <3>2, <3>3 DEF CopyIsoContent, WithLetter
  <2> QED BY <1>0, <1>5, <2>1 DEF CopyIsoContent, SameSizes
<1>6. CASE Reboot
  <2>1. \A v \in Vol : vol'[v].label = vol[v].label /\ vol'[v].mb = vol[v].mb
    BY <1>0, <1>6 DEF Reboot, Volume
  <2> QED BY <1>0, <1>6, <2>1 DEF SameSizes, Reboot
<1> QED BY <1>1, <1>2, <1>3, <1>4, <1>5, <1>6

LEMMA NextKeepsSInv == SInv /\ OInv /\ [Next]_vars => SInv'
<1> SUFFICES ASSUME SInv, OInv, [Next]_vars PROVE SInv'
  OBVIOUS
<1>1. TInv'
  BY NextKeepsTInv DEF SInv
<1>2. CASE PerformDiskpartOperations \/ \E t \in Thread : DeleteVolume(t) \/ ExtendC(t)
  BY <1>1, <1>2, ScriptKeepsSInv, DeleteKeepsSInv, ExtendKeepsSInv
<1>3. CASE SameSizes(vol, vol', {}) /\ UNCHANGED <<c, tail>>
  <2>1. Placed(vol', tail)
    BY <1>3, SameSizesPlaced DEF SInv
  <2> QED BY <1>1, <1>3, <2>1 DEF SInv, Contiguous, Placed
<1> QED BY <1>2, <1>3, OtherSizes DEF Next, WorkerStep, RecoverStep

LEMMA InitSInv == Init => SInv
<1> SUFFICES ASSUME Init PROVE SInv
  OBVIOUS
<1>1. TInv
  BY InitLInv, InitTypes DEF TInv
<1>2. tail = <<>> /\ c = CInit /\ \A v \in Own : vol[v].label = "absent"
  BY ConstantsAssumption DEF Init, Absent, Fresh, Vol
<1> QED BY <1>1, <1>2 DEF SInv, Contiguous, Placed

-----------------------------------------------------------------------------
(***************************************************************************)
(* C: comes back as it was.  As long as no command fails, a volume of ours *)
(* has a name or is not there: no recovery leaves one behind that has a    *)
(* region of the disk and no name to find it by.                           *)
(***************************************************************************)
Whole(d) == \A v \in Own : d[v].label \in OwnLabels \cup {"absent"}

WInv == SInv /\ RInv /\ Whole(vol)

LEMMA ScriptKeepsWhole ==
    ASSUME LInv, Whole(vol), PerformDiskpartOperations, "faults" \notin Env
    PROVE  Whole(vol')
<1>1. PICK r \in DriveLetters(vol, "ISOEFI") :
        vol' = r.d \/ RunScript(r.d, ~PartitionExists(vol), r.letter = NoLetter)
  BY DEF PerformDiskpartOperations
<1>2. Good(r.d) /\ Lettering(vol, r.d) /\ Whole(r.d)
  <2>1. Good(r.d) /\ Lettering(vol, r.d)
    BY DriveLettersGood DEF LInv
  <2> QED BY <2>1 DEF Lettering, Whole, Vol
<1>3. ASSUME NEW d, NEW newB \in BOOLEAN, NEW newE \in BOOLEAN, Good(d), Whole(d),
             RunScript(d, newB, newE)
      PROVE  Whole(vol')
  <2>1. PICK b \in 0..2, e \in 0..2, v \in Own, w \in Own, l \in FreeLetters(d) \cup {NoLetter} :
              /\ v # w /\ vol' = Scripted(d, b, v, l, e, w)
              /\ b > 0 => newB
              /\ e > 0 => newE
              /\ (newB => b = 2) /\ (newE => e = 2)
    BY <1>3 DEF RunScript, Faulty
  <2>2. b \in {0, 2} /\ e \in {0, 2}
    BY <2>1
  <2>3. /\ \A u \in Vol : u # v /\ u # w => vol'[u] = d[u]
        /\ vol'[v] = IF b > 0 THEN Created(b, "ISOBOOT", req.fmt, IsoBootMB, l) ELSE d[v]
        /\ vol'[w] = IF e > 0 THEN Created(e, "ISOEFI", "FAT32", IsoEfiMB, NoLetter) ELSE d[w]
    BY <1>3, <2>1, ScriptedVolumes
  <2>4. vol'[v].label \in {"ISOBOOT", d[v].label} /\ vol'[w].label \in {"ISOEFI", d[w].label}
    BY <2>2, <2>3, CreatedLabel
  <2> QED BY <1>3, <2>3, <2>4 DEF Whole, OwnLabels, Vol
<1> QED BY <1>1, <1>2, <1>3

LEMMA NextKeepsWhole ==
    ASSUME OInv, Whole(vol), [Next]_vars, Locale = "es", "faults" \notin Env
    PROVE  Whole(vol')
<1>0. LInv /\ Good(vol)
  BY DEF OInv, LInv
<1>1. (\A v \in Vol : vol'[v].label \in {vol[v].label, "absent"}) => Whole(vol')
  BY DEF Whole, Vol
<1>2. CASE \/ CheckExisting \/ HashCheck \/ CheckDisk \/ DecideCreate \/ GetDrives \/ Mount
           \/ \E t \in Thread : EnumerateVolumes(t)
  BY <1>0, <1>1, <1>2, LookupLettering DEF Lettering
<1>3. CASE \/ StartProcess \/ CountEfi \/ StartRecover \/ Crash \/ UNCHANGED vars
           \/ FindDataVolume \/ FindEfiVolume
           \/ \E t \in Thread : ListVolumes(t) \/ ExtendC(t)
  <2>1. vol' = vol
    BY <1>3 DEF StartProcess, CountEfi, StartRecover, Crash, ExtendC, FindDataVolume, FindEfiVolume,
                ListVolumes, vars
  <2> QED BY <1>1, <2>1
<1>4. CASE ReformatPartition \/ ReformatEfiPartition
  <2>1. vol' = vol => Whole(vol')
    BY <1>1
  <2>2. \A v \in Vol : vol' \in HalfFormatted(vol, v) => vol' = vol
    BY DEF HalfFormatted, Faulty
  <2>3. ASSUME NEW v \in Vol, NEW fs, NEW L, vol[v].label = L, vol' = Formatted(vol, v, fs, L)
        PROVE  Whole(vol')
    BY <1>0, <1>1, <2>3, FormattedNames
  <2> QED BY <1>4, <2>1, <2>2, <2>3, FormatSteps
<1>5. CASE CopyIsoContent
  BY <1>0, <1>1, <1>5, CopyNames
<1>6. ASSUME NEW t \in Thread, AssignLetter(t) PROVE Whole(vol')
  BY <1>0, <1>1, <1>6, AssignNames
<1>7. ASSUME NEW t \in Thread, DeleteVolume(t) PROVE Whole(vol')
  BY <1>0, <1>1, <1>7, DeleteNames DEF Absent, Fresh
<1>8. CASE Reboot
  BY <1>0, <1>1, <1>8, RebootNames
<1> QED BY <1>0, <1>2, <1>3, <1>4, <1>5, <1>6, <1>7, <1>8, ScriptKeepsWhole
        DEF Next, WorkerStep, RecoverStep

\* When nothing of ours is left on the disk, C: can take all of it.
LEMMA ExtensionRestores ==
    ASSUME WInv, ExtendC("recovery"), PartThreeIsC, "faults" \notin Env
    PROVE  c' = CInit
<1>1. pc["recovery"] = "delete" /\ todo["recovery"] = {}
  BY DEF ExtendC
<1>2. \A v \in Vol : vol[v].label \notin OwnLabels
  BY <1>1 DEF WInv, RInv, Doomed, Waiting, Thread
<1>3. \A v \in Own : vol[v].label = "absent"
  BY <1>2 DEF WInv, Whole, Vol
<1>4. Len(tail) \in Nat /\ \A i \in 1..Len(tail) : tail[i].v = NoVol
  BY <1>3 DEF WInv, SInv, TInv, DiskTypes, Placed
<1>5. PICK n \in 0..Len(tail) :
        LeadingFree(n) /\ c' = IF n = Len(tail) THEN CInit ELSE tail[n + 1].at
  BY DEF ExtendC, Faulty
<1>6. n < Len(tail) => n + 1 \in 1..Len(tail)
  BY <1>4
<1>7. n = Len(tail)
  BY <1>4, <1>5, <1>6 DEF LeadingFree
<1> QED BY <1>5, <1>7

\* Under the hypotheses of RecoveryDeletesBoth, and if C: is the partition the
\* resizer takes for it, a recovery gives C: all the space back that the program ever
\* took, whatever scripts were run and processes killed before it.
THEOREM RecoveryRestoresC ==
    ASSUME Locale = "es", "overlap" \notin Env, "faults" \notin Env, EnoughLetters,
           Booted \cap Own = {}, PartThreeIsC
    PROVE  Spec => RecoverRestores
<1>1. WInv /\ [Next]_vars => WInv'
  <2> SUFFICES ASSUME WInv, [Next]_vars PROVE WInv'
    OBVIOUS
  <2>1. SInv' /\ RInv'
    BY NextKeepsSInv, NextKeepsRInv DEF WInv, RInv
  <2>2. Whole(vol')
    BY NextKeepsWhole DEF WInv, RInv
  <2> QED BY <2>1, <2>2 DEF WInv, Whole
<1>2. Init => WInv
  <2> SUFFICES ASSUME Init PROVE WInv
    OBVIOUS
  <2>1. \A v \in Own : vol[v].label = "absent"
    BY ConstantsAssumption DEF Init, Absent, Fresh, Vol
  <2> QED BY <2>1, InitSInv, InitRInv DEF WInv, Whole
<1>3. WInv => [RecoveryEnds => c' = CInit]_vars
  BY ExtensionRestores DEF RecoveryEnds
<1> QED BY <1>1, <1>2, <1>3, PTL DEF Spec, RecoverRestores
=============================================================================
