------------------------------- MODULE BcdProofs -------------------------------
(***************************************************************************)
(* Proofs about Bcd, for any machine: the types; that the user's own boot  *)
(* entries outlive whatever fails or is killed, as long as no thread works *)
(* on the store beside another; and, when commands do what they say, that  *)
(* the menu is truthful, a success the default and a recovery complete.    *)
(***************************************************************************)
EXTENDS Bcd, TLAPS

\* The store by itself.
StoreOK == /\ store \in [Ids -> Entry \cup {NoEntry}]
           /\ (default = NoId \/ Exists(default)) /\ \A i \in shown : Exists(i)
           /\ timeout \in Nat

\* The rest of TypeOK.
ThreadsOK == /\ current \in Ids /\ backup \in BOOLEAN /\ parts \in BOOLEAN
             /\ pc \in [Thread -> PcValues]
             /\ todo \in [Thread -> SUBSET (Ids \cup {TheDefault})]
             /\ win \in [Thread -> SUBSET (Ids \cup {TheDefault})]
             /\ guid \in Id \cup {NoId} /\ strategy \in Strategies

LEMMA TypeParts == TypeOK <=> StoreOK /\ ThreadsOK
BY DEF TypeOK, StoreOK, ThreadsOK

LEMMA EntryFacts ==
    /\ NoEntry \notin Entry /\ NoId \notin Ids
    /\ \A e \in Entry : Configured(e) \in Entry /\ ConfiguredLinux(e) \in Entry
    /\ \A e \in Entry, l \in IsoLabels \cup SystemLabels \cup {"Linux ISO Boot"} :
            [e EXCEPT !.label = l] \in Entry
    /\ \A s \in Strategies : LabelOf[s] \in IsoLabels \cup {"Linux ISO Boot"}
    /\ \A s \in Strategies : [label |-> LabelOf[s], loader |-> TRUE, boots |-> "nothing"] \in Entry
<1>1. NoEntry \notin Entry /\ NoId \notin Ids
  BY BcdAssumption DEF NoEntry, Entry, IsoLabels, SystemLabels, UserLabels
<1>2. LabelOf["linux"] = "Linux ISO Boot"
  BY DEF LabelOf, Kinds
<1>4. ASSUME NEW e \in Entry, NEW l \in IsoLabels \cup SystemLabels \cup {"Linux ISO Boot"}
      PROVE  [e EXCEPT !.label = l] \in Entry
  BY <1>4 DEF Entry
<1>3. ASSUME NEW e \in Entry
      PROVE  Configured(e) \in Entry /\ ConfiguredLinux(e) \in Entry
  <2>1. Configured(e) \in Entry
    BY <1>3 DEF Entry, Configured
  <2>. QED
    BY <1>2, <1>4, <2>1 DEF ConfiguredLinux
<1>5. ASSUME NEW s \in Strategies
      PROVE  LabelOf[s] \in IsoLabels \cup {"Linux ISO Boot"}
  BY <1>5, BcdAssumption DEF LabelOf, IsoLabels, Kinds
<1>6. ASSUME NEW s \in Strategies
      PROVE  [label |-> LabelOf[s], loader |-> TRUE, boots |-> "nothing"] \in Entry
  BY <1>5, <1>6 DEF Entry
<1>. QED
  BY <1>1, <1>3, <1>4, <1>5, <1>6

LEMMA MakeKeepsStore ==
    ASSUME StoreOK, NEW i \in Ids, NEW e \in Entry, Make(i, e)
    PROVE  StoreOK'
BY EntryFacts DEF StoreOK, Make, Exists

LEMMA CopyKeepsStore ==
    ASSUME StoreOK, NEW i \in Ids, NEW l \in IsoLabels \cup SystemLabels \cup {"Linux ISO Boot"},
           CopyDefault(i, l)
    PROVE  StoreOK'
<1>1. store[default] \in Entry
  BY DEF StoreOK, CopyDefault, Exists
<1>2. [store[default] EXCEPT !.label = l] \in Entry
  BY <1>1, EntryFacts
<1>. DEFINE e == [store[default] EXCEPT !.label = l]
<1>3. /\ store' = [store EXCEPT ![i] = e] /\ shown' \in {shown, shown \cup {i}}
      /\ UNCHANGED <<default, timeout>>
  BY DEF CopyDefault
<1>. QED
  BY <1>2, <1>3, EntryFacts DEF StoreOK, Exists

LEMMA DeleteKeepsStore ==
    ASSUME StoreOK, NEW S, Delete(S)
    PROVE  StoreOK'
BY EntryFacts DEF StoreOK, Delete, Exists

LEMMA OtherCommandsKeepStore ==
    ASSUME StoreOK, NEW i, SetDefault(i) \/ Show(i) \/ Hide(i) \/ UNCHANGED bcd
    PROVE  StoreOK'
<1>1. CASE SetDefault(i)
  BY <1>1 DEF StoreOK, SetDefault, Exists
<1>2. CASE Show(i)
  BY <1>2 DEF StoreOK, Show, Exists
<1>3. CASE Hide(i)
  BY <1>3 DEF StoreOK, Hide, Exists
<1>5. CASE UNCHANGED bcd
  BY <1>5 DEF StoreOK, bcd, Exists
<1>. QED
  BY <1>1, <1>2, <1>3, <1>5

LEMMA SetTimeoutKeepsStore ==
    ASSUME StoreOK, NEW n \in Nat, SetTimeout(n)
    PROVE  StoreOK'
BY DEF StoreOK, SetTimeout, Exists

\* What the program does next.
LEMMA GotoKeepsThreads ==
    ASSUME ThreadsOK, NEW t \in Thread, NEW l \in PcValues, Goto(t, l)
    PROVE  pc' \in [Thread -> PcValues]
BY DEF ThreadsOK, Goto

LEMMA LabelsAreIds ==
    ASSUME ThreadsOK, StoreOK
    PROVE  /\ IsoBootEntries \subseteq Ids /\ Deletable \subseteq Ids /\ Unused \subseteq Id
           /\ \A i \in Ids : NameOf(i) \in Ids \cup {TheDefault}
           /\ Id \subseteq Ids
BY DEF IsoBootEntries, Deletable, Unused, NameOf, Ids

LEMMA NextTypes ==
    ASSUME TypeOK, [Next]_vars
    PROVE  TypeOK'
<1>. SUFFICES StoreOK' /\ ThreadsOK'
  BY DEF TypeOK, StoreOK, ThreadsOK
<1>0. StoreOK /\ ThreadsOK
  BY TypeParts
<1>1. CASE Prepare
  <2>1. StoreOK'
    BY <1>0, <1>1, OtherCommandsKeepStore DEF Prepare
  <2>2. PICK l \in PcValues : Begin("worker", l)
    BY <1>1 DEF Prepare, PcValues
  <2>3. pc' \in [Thread -> PcValues]
    BY <1>0, <2>2 DEF Begin, ThreadsOK, PcValues
  <2>. QED
    BY <1>0, <1>1, <2>1, <2>3 DEF Prepare, ThreadsOK
<1>2. CASE Capture
  <2>1. StoreOK'
    BY <1>0, <1>2, OtherCommandsKeepStore DEF Capture
  <2>2. pc' \in [Thread -> PcValues]
    BY <1>0, <1>2, GotoKeepsThreads DEF Capture, VolumesFound, Thread, PcValues
  <2>. QED
    BY <1>0, <1>2, <2>1, <2>2 DEF Capture, ThreadsOK
<1>3. CASE PreserveDefault
  <2>1. StoreOK'
    BY <1>0, <1>3, OtherCommandsKeepStore DEF PreserveDefault, MakeCurrentDefault
  <2>2. pc' \in [Thread -> PcValues]
    BY <1>0, <1>3, GotoKeepsThreads DEF PreserveDefault, Thread, PcValues
  <2>. QED
    BY <1>0, <1>3, <2>1, <2>2 DEF PreserveDefault, ThreadsOK
<1>4. CASE PreserveCopy
  <2>1. StoreOK'
    <3>1. CASE \E i \in Unused : CopyDefault(i, "Windows (System)")
      BY <1>0, <3>1, CopyKeepsStore, LabelsAreIds DEF SystemLabels
    <3>2. CASE UNCHANGED bcd
      BY <1>0, <3>2, OtherCommandsKeepStore
    <3>. QED
      BY <1>4, <3>1, <3>2 DEF PreserveCopy
  <2>2. pc' \in [Thread -> PcValues]
    BY <1>0, <1>4, GotoKeepsThreads DEF PreserveCopy, Thread, PcValues
  <2>. QED
    BY <1>0, <1>4, <2>1, <2>2, LabelsAreIds DEF PreserveCopy, ThreadsOK
<1>5. CASE PreserveShow
  <2>1. StoreOK'
    BY <1>0, <1>5, OtherCommandsKeepStore DEF PreserveShow
  <2>2. pc' \in [Thread -> PcValues]
    BY <1>0, <1>5, GotoKeepsThreads DEF PreserveShow, Thread, PcValues
  <2>. QED
    BY <1>0, <1>5, <2>1, <2>2 DEF PreserveShow, ThreadsOK
<1>6. CASE Enumerate
  <2>1. StoreOK'
    BY <1>0, <1>6, OtherCommandsKeepStore DEF Enumerate
  <2>2. pc' \in [Thread -> PcValues]
    BY <1>0, <1>6, GotoKeepsThreads DEF Enumerate, Thread, PcValues
  <2>. QED
    BY <1>0, <1>6, <2>1, <2>2, LabelsAreIds DEF Enumerate, ThreadsOK
<1>7. ASSUME NEW t \in Thread, DeleteOne(t)
      PROVE  StoreOK' /\ ThreadsOK'
  <2>1. StoreOK'
    BY <1>0, <1>7, OtherCommandsKeepStore, DeleteKeepsStore DEF DeleteOne
  <2>. QED
    BY <1>0, <1>7, <2>1 DEF DeleteOne, ThreadsOK
<1>8. CASE CreateEntry
  <2>1. StoreOK'
    <3>1. CASE \E i \in Unused : Make(i, [label |-> LabelOf[strategy], loader |-> TRUE, boots |-> "nothing"])
      BY <1>0, <3>1, MakeKeepsStore, LabelsAreIds, EntryFacts DEF ThreadsOK
    <3>2. CASE \E i \in Unused : CopyDefault(i, LabelOf[strategy])
      BY <1>0, <3>2, CopyKeepsStore, LabelsAreIds, EntryFacts DEF ThreadsOK
    <3>3. CASE UNCHANGED bcd
      BY <1>0, <3>3, OtherCommandsKeepStore
    <3>. QED
      BY <1>8, <3>1, <3>2, <3>3 DEF CreateEntry
  <2>2. pc' \in [Thread -> PcValues]
    BY <1>0, <1>8, GotoKeepsThreads DEF CreateEntry, Thread, PcValues
  <2>. QED
    BY <1>0, <1>8, <2>1, <2>2, LabelsAreIds DEF CreateEntry, ThreadsOK
<1>9. CASE ConfigureStrategy
  <2>1. StoreOK'
    <3>1. CASE Exists(guid) /\ \E e \in {Configured(store[guid]), ConfiguredLinux(store[guid])} : Make(guid, e)
      <4>1. guid \in Ids /\ store[guid] \in Entry
        BY <1>0, <3>1 DEF Exists, StoreOK
      <4>. QED
        BY <1>0, <3>1, <4>1, MakeKeepsStore, EntryFacts
    <3>2. CASE UNCHANGED bcd
      BY <1>0, <3>2, OtherCommandsKeepStore
    <3>. QED
      BY <1>9, <3>1, <3>2 DEF ConfigureStrategy
  <2>2. pc' \in [Thread -> PcValues]
    BY <1>0, <1>9, GotoKeepsThreads DEF ConfigureStrategy, Thread, PcValues
  <2>. QED
    BY <1>0, <1>9, <2>1, <2>2 DEF ConfigureStrategy, ThreadsOK
<1>10. CASE FinalizeBCD
  <2>1. StoreOK'
    BY <1>0, <1>10, OtherCommandsKeepStore, SetTimeoutKeepsStore DEF FinalizeBCD, Finalize
  <2>2. pc' \in [Thread -> PcValues] /\ guid' \in {guid, NoId}
    BY <1>0, <1>10, GotoKeepsThreads DEF FinalizeBCD, Finalize, Thread, PcValues
  <2>. QED
    BY <1>0, <1>10, <2>1, <2>2 DEF FinalizeBCD, ThreadsOK
<1>11. CASE StartRecovery
  <2>1. StoreOK'
    BY <1>0, <1>11, OtherCommandsKeepStore DEF StartRecovery
  <2>2. pc' \in [Thread -> PcValues]
    BY <1>0, <1>11 DEF StartRecovery, Begin, ThreadsOK, PcValues
  <2>. QED
    BY <1>0, <1>11, <2>1, <2>2 DEF StartRecovery, ThreadsOK
<1>12. CASE RecoverSpace
  <2>1. StoreOK'
    BY <1>0, <1>12, OtherCommandsKeepStore, DeleteKeepsStore DEF RecoverSpace
  <2>2. pc' \in [Thread -> PcValues]
    BY <1>0, <1>12, GotoKeepsThreads DEF RecoverSpace, Thread, PcValues
  <2>. QED
    BY <1>0, <1>12, <2>1, <2>2 DEF RecoverSpace, ThreadsOK
<1>13. CASE Launch
  <2>1. StoreOK'
    BY <1>0, <1>13, OtherCommandsKeepStore DEF Launch
  <2>2. pc' \in [Thread -> PcValues]
    BY <1>13 DEF Launch, PcValues
  <2>. QED
    BY <1>0, <1>13, <2>1, <2>2 DEF Launch, ThreadsOK
<1>14. ASSUME NEW t \in Thread, FindEntries(t)
       PROVE  StoreOK' /\ ThreadsOK'
  <2>1. StoreOK'
    BY <1>0, <1>14, OtherCommandsKeepStore DEF FindEntries
  <2>2. pc' \in [Thread -> PcValues]
    BY <1>0, <1>14, GotoKeepsThreads DEF FindEntries, PcValues
  <2>. QED
    BY <1>0, <1>14, <2>1, <2>2, LabelsAreIds DEF FindEntries, ThreadsOK
<1>15. ASSUME NEW t \in Thread, ForgetBackup(t)
       PROVE  StoreOK' /\ ThreadsOK'
  <2>1. StoreOK'
    BY <1>0, <1>15, OtherCommandsKeepStore DEF ForgetBackup
  <2>2. pc' \in [Thread -> PcValues]
    BY <1>0, <1>15, GotoKeepsThreads DEF ForgetBackup, End, PcValues
  <2>. QED
    BY <1>0, <1>15, <2>1, <2>2 DEF ForgetBackup, ThreadsOK
<1>16. ASSUME NEW t \in Thread, ResetDefault(t)
       PROVE  StoreOK' /\ ThreadsOK'
  <2>1. StoreOK'
    BY <1>0, <1>16, OtherCommandsKeepStore DEF ResetDefault
  <2>2. pc' \in [Thread -> PcValues]
    BY <1>0, <1>16, GotoKeepsThreads DEF ResetDefault, PcValues
  <2>. QED
    BY <1>0, <1>16, <2>1, <2>2 DEF ResetDefault, ThreadsOK
<1>17. ASSUME NEW t \in Thread, ResetTimeout(t)
       PROVE  StoreOK' /\ ThreadsOK'
  <2>1. StoreOK'
    BY <1>0, <1>17, OtherCommandsKeepStore, SetTimeoutKeepsStore DEF ResetTimeout
  <2>2. pc' \in [Thread -> PcValues]
    BY <1>0, <1>17, GotoKeepsThreads DEF ResetTimeout, End, PcValues
  <2>. QED
    BY <1>0, <1>17, <2>1, <2>2 DEF ResetTimeout, ThreadsOK
<1>18. CASE UNCHANGED vars
  <2>1. StoreOK'
    BY <1>0, <1>18, OtherCommandsKeepStore DEF vars, bcd
  <2>. QED
    BY <1>0, <1>18, <2>1 DEF vars, ThreadsOK
<1>. QED
  BY <1>1, <1>2, <1>3, <1>4, <1>5, <1>6, <1>7, <1>8, <1>9, <1>10, <1>11, <1>12, <1>13, <1>14,
     <1>15, <1>16, <1>17, <1>18 DEF Next, WorkerStep, RestoreStep, Restorer, Thread

LEMMA InitStore ==
    ASSUME Init
    PROVE  \A i \in User : store[i] = UserEntry[i] /\ i \in shown /\ Exists(i)
<1>. SUFFICES ASSUME NEW i \in User
              PROVE  store[i] = UserEntry[i] /\ i \in shown /\ Exists(i)
  OBVIOUS
<1>1. i \in Ids /\ store[i] = UserEntry[i] /\ i \in shown
  BY DEF Init, Ids
<1>2. UserEntry[i] \in Entry
  BY BcdAssumption
<1>. QED
  BY <1>1, <1>2, EntryFacts DEF Exists

LEMMA InitTypes == Init => TypeOK
<1>. SUFFICES ASSUME Init
              PROVE  TypeOK
  OBVIOUS
<1>1. StoreOK
  <2>1. store \in [Ids -> Entry \cup {NoEntry}]
    BY BcdAssumption DEF Init
  <2>2. (default = NoId \/ Exists(default)) /\ \A i \in shown : Exists(i)
    BY BcdAssumption, InitStore DEF Init
  <2>. QED
    BY <2>1, <2>2, BcdAssumption DEF Init, StoreOK
<1>2. ThreadsOK
  BY BcdAssumption DEF Init, ThreadsOK, Ids, PcValues
<1>. QED
  BY <1>1, <1>2, TypeParts

\* Every variable stays what the code can make it: what the boot manager lists exists.
THEOREM BcdTypes == Spec => []TypeOK
<1>1. Init => TypeOK
  BY InitTypes
<1>2. TypeOK /\ [Next]_vars => TypeOK'
  BY NextTypes
<1>. QED
  BY <1>1, <1>2, PTL DEF Spec
-----------------------------------------------------------------------------
(***************************************************************************)
(* The user's entries.  What a thread has still to delete it found by the  *)
(* labels, and is none of them; but it may hold the name {default}, and    *)
(* what that stands for must not change while the thread deletes.          *)
(***************************************************************************)
TodoOK == \A t \in Thread :
    /\ todo[t] # {} => pc[t] = "delete"
    /\ todo[t] \subseteq Id \cup {TheDefault}
    /\ TheDefault \in todo[t] => default \notin User

OneBusy == \A t, u \in Thread : t # u => Resting(t) \/ Resting(u)

BInv == TypeOK /\ UserEntriesKept /\ TodoOK /\ OneBusy

LEMMA UserFacts ==
    ASSUME UserEntriesKept
    PROVE  /\ User \subseteq Ids /\ Id \subseteq Ids /\ Id \cap User = {}
           /\ NoId \notin User /\ TheDefault \notin Ids
           /\ IsoBootEntries \cap User = {}
<1>1. Id \cap User = {} /\ NoId \notin User /\ TheDefault \notin Ids /\ User \subseteq Ids /\ Id \subseteq Ids
  BY BcdAssumption DEF Ids
<1>2. \A i \in User : store[i].label \in UserLabels
  BY BcdAssumption DEF UserEntriesKept
<1>. QED
  BY <1>1, <1>2 DEF IsoBootEntries, IsoLabels, UserLabels

\* What each command of bcdedit is to the user's entries.
LEMMA MakeKeepsUsers ==
    ASSUME UserEntriesKept, StoreOK, NEW i \in Id, NEW e, Make(i, e)
    PROVE  UserEntriesKept'
BY UserFacts DEF UserEntriesKept, StoreOK, Make

LEMMA CopyKeepsUsers ==
    ASSUME UserEntriesKept, StoreOK, NEW i \in Id, NEW l, CopyDefault(i, l)
    PROVE  UserEntriesKept'
<1>1. /\ \A j \in User : store'[j] = store[j]
      /\ shown \subseteq shown'
  BY UserFacts DEF StoreOK, CopyDefault
<1>. QED
  BY <1>1 DEF UserEntriesKept

LEMMA DeleteKeepsUsers ==
    ASSUME UserEntriesKept, StoreOK, NEW S, S \cap User = {}, Delete(S)
    PROVE  UserEntriesKept'
BY UserFacts DEF UserEntriesKept, StoreOK, Delete

LEMMA HideKeepsUsers ==
    ASSUME UserEntriesKept, NEW i, i \notin User, Hide(i)
    PROVE  UserEntriesKept'
BY DEF UserEntriesKept, Hide

LEMMA OthersKeepUsers ==
    ASSUME UserEntriesKept, NEW i, SetDefault(i) \/ Show(i) \/ SetTimeout(i) \/ UNCHANGED bcd
    PROVE  UserEntriesKept'
BY DEF UserEntriesKept, SetDefault, Show, SetTimeout, bcd

\* A thread that works is the only one, and what is still to delete is its own.
LEMMA BusyAlone ==
    ASSUME BInv, NEW t \in Thread, ~Resting(t)
    PROVE  /\ \A u \in Thread \ {t} : Resting(u) /\ todo[u] = {}
           /\ pc[t] # "delete" => \A u \in Thread : todo[u] = {}
BY DEF BInv, TodoOK, OneBusy, Resting

LEMMA GotoKeepsOneBusy ==
    ASSUME BInv, NEW t \in Thread, ~Resting(t), NEW l, Goto(t, l)
    PROVE  OneBusy'
<1>1. pc \in [Thread -> PcValues]
  BY DEF BInv, TypeOK
<1>. QED
  BY <1>1, BusyAlone DEF Goto, OneBusy, Resting

LEMMA BeginKeepsOneBusy ==
    ASSUME BInv, NEW t \in Thread, \A u \in Thread \ {t} : Resting(u), NEW l, Begin(t, l)
    PROVE  OneBusy'
BY DEF Begin, OneBusy, Resting

LEMMA NothingTodo ==
    ASSUME \A u \in Thread : todo[u] = {}, UNCHANGED todo
    PROVE  TodoOK'
BY DEF TodoOK

\* A thread that is not deleting takes a step, and still has nothing to delete.
LEMMA StepOfOne ==
    ASSUME BInv, NEW t \in Thread, ~Resting(t), pc[t] # "delete" \/ todo[t] = {},
           NEW l, Goto(t, l), UNCHANGED todo
    PROVE  TodoOK' /\ OneBusy'
BY BusyAlone, GotoKeepsOneBusy, NothingTodo

\* What an enumeration finds is none of the user's.
LEMMA FoundOnes ==
    ASSUME BInv, NEW t \in Thread, ~Resting(t), NEW S, S \subseteq IsoBootEntries, NEW l,
           Goto(t, l), l = "delete" \/ S = {}, UNCHANGED bcd,
           todo' = [todo EXCEPT ![t] = {NameOf(i) : i \in S}]
    PROVE  TodoOK' /\ OneBusy'
<1>1. /\ pc \in [Thread -> PcValues] /\ todo \in [Thread -> SUBSET (Ids \cup {TheDefault})]
      /\ UserEntriesKept
  BY DEF BInv, TypeOK
<1>2. S \subseteq Id
  BY <1>1, UserFacts DEF IsoBootEntries, Ids
<1>3. todo'[t] \subseteq Id \cup {TheDefault} /\ (TheDefault \in todo'[t] => default \notin User)
  BY <1>1, <1>2, UserFacts DEF NameOf
<1>4. todo'[t] # {} => pc'[t] = "delete"
  BY <1>1 DEF Goto
<1>5. \A u \in Thread \ {t} : todo'[u] = {}
  BY <1>1, BusyAlone
<1>. QED
  BY <1>3, <1>4, <1>5, GotoKeepsOneBusy DEF TodoOK, bcd

LEMMA DeletingKeepsUsers ==
    ASSUME BInv, NEW t \in Thread, DeleteOne(t)
    PROVE  UserEntriesKept' /\ TodoOK' /\ OneBusy'
<1>1. /\ pc \in [Thread -> PcValues] /\ todo \in [Thread -> SUBSET (Ids \cup {TheDefault})]
      /\ UserEntriesKept /\ StoreOK /\ OneBusy
  BY TypeParts DEF BInv, TypeOK
<1>2. PICK n \in todo[t] : /\ todo' = [todo EXCEPT ![t] = @ \ {n}]
                           /\ Delete({Named(n)}) \/ UNCHANGED bcd \/ Hide(Named(n))
  BY DEF DeleteOne
<1>3. Named(n) \notin User
  BY <1>1, UserFacts DEF Named, BInv, TodoOK
<1>4. UserEntriesKept'
  BY <1>1, <1>2, <1>3, DeleteKeepsUsers, HideKeepsUsers, OthersKeepUsers
<1>5. default' \in {default, NoId}
  BY <1>2 DEF Delete, Hide, bcd
<1>6. \A u \in Thread : todo'[u] \subseteq todo[u]
  BY <1>1, <1>2
<1>7. pc' = pc
  BY DEF DeleteOne
<1>8. NoId \notin User
  BY <1>1, UserFacts
<1>9. TodoOK'
  BY <1>5, <1>6, <1>7, <1>8 DEF TodoOK, BInv
<1>. QED
  BY <1>1, <1>4, <1>7, <1>9 DEF OneBusy, Resting

LEMMA NextKeepsUsers ==
    ASSUME "overlap" \notin Env, BInv, [Next]_vars
    PROVE  BInv'
<1>. USE DEF Thread
<1>0. TypeOK' /\ TypeOK /\ StoreOK /\ ThreadsOK /\ UserEntriesKept /\ TodoOK /\ OneBusy
  BY NextTypes, TypeParts DEF BInv
<1>. SUFFICES UserEntriesKept' /\ TodoOK' /\ OneBusy'
  BY <1>0 DEF BInv
<1>1. CASE Prepare
  <2>1. /\ \A u \in Thread \ {"worker"} : Resting(u) /\ todo[u] = {}
        /\ todo["worker"] = {} /\ UNCHANGED <<bcd, todo>>
    BY <1>0, <1>1 DEF Prepare, Alone, TodoOK, Resting
  <2>2. PICK l : Begin("worker", l)
    BY <1>1 DEF Prepare
  <2>. QED
    BY <1>0, <2>1, <2>2, OthersKeepUsers, BeginKeepsOneBusy, NothingTodo
<1>2. CASE Capture
  <2>1. PICK l : Goto("worker", l)
    BY <1>2 DEF Capture, VolumesFound
  <2>. QED
    BY <1>0, <1>2, <2>1, StepOfOne, OthersKeepUsers DEF Capture, Resting
<1>3. CASE PreserveDefault
  BY <1>0, <1>3, StepOfOne, OthersKeepUsers DEF PreserveDefault, MakeCurrentDefault, Resting
<1>4. CASE PreserveCopy
  <2>1. UserEntriesKept'
    BY <1>0, <1>4, CopyKeepsUsers, OthersKeepUsers DEF PreserveCopy, Unused
  <2>2. PICK l : Goto("worker", l)
    BY <1>4 DEF PreserveCopy
  <2>. QED
    BY <1>4, <2>1, <2>2, StepOfOne DEF PreserveCopy, Resting
<1>5. CASE PreserveShow
  BY <1>0, <1>5, StepOfOne, OthersKeepUsers DEF PreserveShow, Resting
<1>6. CASE Enumerate
  BY <1>0, <1>6, FoundOnes, OthersKeepUsers DEF Enumerate, Resting
<1>7. CASE CreateEntry
  <2>1. UserEntriesKept'
    BY <1>0, <1>7, MakeKeepsUsers, CopyKeepsUsers, OthersKeepUsers DEF CreateEntry, Unused
  <2>2. PICK l : Goto("worker", l)
    BY <1>7 DEF CreateEntry
  <2>. QED
    BY <1>7, <2>1, <2>2, StepOfOne DEF CreateEntry, Resting
<1>8. CASE ConfigureStrategy
  <2>1. CASE \E e : Exists(guid) /\ Make(guid, e)
    <3>1. guid \in Id
      BY <1>0, <2>1, EntryFacts DEF ThreadsOK, Exists
    <3>2. UserEntriesKept'
      BY <1>0, <2>1, <3>1, MakeKeepsUsers
    <3>3. PICK l : Goto("worker", l)
      BY <1>8 DEF ConfigureStrategy
    <3>. QED
      BY <1>8, <3>2, <3>3, StepOfOne DEF ConfigureStrategy, Resting
  <2>2. CASE UNCHANGED bcd
    <3>3. PICK l : Goto("worker", l)
      BY <1>8 DEF ConfigureStrategy
    <3>. QED
      BY <1>0, <1>8, <2>2, <3>3, StepOfOne, OthersKeepUsers DEF ConfigureStrategy, Resting
  <2>. QED
    BY <1>8, <2>1, <2>2 DEF ConfigureStrategy
<1>9. CASE FinalizeBCD
  <2>1. UserEntriesKept'
    BY <1>0, <1>9, OthersKeepUsers DEF FinalizeBCD, Finalize
  <2>2. PICK l : Goto("worker", l)
    BY <1>9 DEF FinalizeBCD, Finalize
  <2>. QED
    BY <1>9, <2>1, <2>2, StepOfOne DEF FinalizeBCD, Resting
<1>10. CASE StartRecovery
  <2>1. /\ \A u \in Thread \ {"recovery"} : Resting(u) /\ todo[u] = {}
        /\ todo["recovery"] = {} /\ UNCHANGED <<bcd, todo>>
    BY <1>0, <1>10 DEF StartRecovery, Alone, TodoOK, Resting
  <2>. QED
    BY <1>0, <1>10, <2>1, OthersKeepUsers, BeginKeepsOneBusy, NothingTodo DEF StartRecovery
<1>11. CASE RecoverSpace
  <2>1. UserEntriesKept'
    <3>1. \A S \in SUBSET Cleanable : S \cap User = {}
      BY <1>0, UserFacts DEF Cleanable
    <3>. QED
      BY <1>0, <1>11, <3>1, DeleteKeepsUsers, OthersKeepUsers DEF RecoverSpace
  <2>2. PICK l : Goto("recovery", l)
    BY <1>11 DEF RecoverSpace
  <2>. QED
    BY <1>11, <2>1, <2>2, StepOfOne DEF RecoverSpace, Resting
<1>12. CASE Launch
  <2>1. TodoOK' /\ OneBusy'
    BY <1>12 DEF Launch, TodoOK, OneBusy, Resting
  <2>. QED
    BY <1>0, <1>12, <2>1, OthersKeepUsers DEF Launch
<1>13. ASSUME NEW t \in Thread, FindEntries(t)
       PROVE  UserEntriesKept' /\ TodoOK' /\ OneBusy'
  <2>1. Deletable \subseteq IsoBootEntries
    BY DEF Deletable
  <2>. QED
    BY <1>0, <1>13, <2>1, FoundOnes, OthersKeepUsers DEF FindEntries, Resting
<1>14. ASSUME NEW t \in Thread, ForgetBackup(t)
       PROVE  UserEntriesKept' /\ TodoOK' /\ OneBusy'
  <2>1. PICK l : Goto(t, l)
    BY <1>14 DEF ForgetBackup, End
  <2>. QED
    BY <1>0, <1>14, <2>1, StepOfOne, OthersKeepUsers DEF ForgetBackup, Resting
<1>15. ASSUME NEW t \in Thread, ResetDefault(t)
       PROVE  UserEntriesKept' /\ TodoOK' /\ OneBusy'
  <2>1. UserEntriesKept'
    BY <1>0, <1>15, OthersKeepUsers DEF ResetDefault
  <2>. QED
    BY <1>15, <2>1, StepOfOne DEF ResetDefault, Resting
<1>16. ASSUME NEW t \in Thread, ResetTimeout(t)
       PROVE  UserEntriesKept' /\ TodoOK' /\ OneBusy'
  BY <1>0, <1>16, StepOfOne, OthersKeepUsers DEF ResetTimeout, End, Resting
<1>17. CASE UNCHANGED vars
  BY <1>0, <1>17, OthersKeepUsers DEF vars, bcd, TodoOK, OneBusy, Resting
<1>. QED
  BY <1>1, <1>2, <1>3, <1>4, <1>5, <1>6, <1>7, <1>8, <1>9, <1>10, <1>11, <1>12, <1>13, <1>14,
     <1>15, <1>16, <1>17, DeletingKeepsUsers DEF Next, WorkerStep, RestoreStep, Restorer

LEMMA AlwaysB == ASSUME "overlap" \notin Env PROVE Spec => []BInv
<1>1. Init => BInv
  BY InitTypes, InitStore DEF BInv, Init, UserEntriesKept, TodoOK, OneBusy, Resting
<1>2. BInv /\ [Next]_vars => BInv'
  BY NextKeepsUsers
<1>. QED
  BY <1>1, <1>2, PTL DEF Spec

\* As long as no recovery or start-up works on the store beside a process, the
\* user's entries stay as they were and in the menu, whatever command fails, aloud or
\* not, and wherever the program is killed: the deletions by label, and by a name that
\* is resolved only when it is used, never reach one (deleteEntriesByLabel,
\* restoreBCD, cleanBootThatISOEntries).
THEOREM UsersEntriesStay ==
    ASSUME "overlap" \notin Env
    PROVE  Spec => []UserEntriesKept
<1>1. BInv => UserEntriesKept
  BY DEF BInv
<1>. QED
  BY AlwaysB, <1>1, PTL
-----------------------------------------------------------------------------
(***************************************************************************)
(* What the menu says, boots and keeps, when no command fails and no two   *)
(* threads work on the store at once; the program may be killed anywhere.  *)
(***************************************************************************)
Killed == Env \subseteq {"crash"}

ProgramLabels == IsoLabels \cup {"Windows (System)", "Linux ISO Boot"}

\* An entry that the program makes is never called Windows unless it boots Windows, nor
\* does it boot the image under any label but a strategy's.
Made(e) ==
    /\ e.label \in ProgramLabels
    /\ e.label = "Windows (System)" => e.boots = "windows"
    /\ e.boots = "image" => \E s \in Strategies : e.label = LabelOf[s]

\* The running Windows has an entry, which is the user's or a copy of it.
CurrentIsWindows ==
    /\ Exists(current) /\ store[current].boots = "windows"
    /\ current \in User \/ store[current].label = "Windows (System)"

EntriesOK ==
    /\ \A i \in Id : Exists(i) => Made(store[i])
    /\ CurrentIsWindows
    /\ LabelsTellTheTruth

\* The worker, step by step: the default is the running Windows until the new entry is
\* ready, and from the enumeration on no other entry mentions ISOBOOT.
Own == /\ guid \in Id /\ Exists(guid) /\ store[guid].label = LabelOf[strategy]
       /\ IsoLabelled \subseteq {guid}

WorkerOK ==
    LET w == pc["worker"] IN
    /\ w \in {"copy", "show", "enumerate", "delete"} => default = current
    /\ w = "show" => guid \in Id /\ store[guid].label = "Windows (System)"
    /\ w = "delete" => IsoLabelled \subseteq todo["worker"]
    /\ w \in {"configure", "default", "first", "timeout"} => Own
    /\ w = "configure" => guid \notin {default, current}
    /\ w \in {"default", "first", "timeout"} => store[guid].boots = "image"
    /\ w \in {"first", "timeout"} => default = guid
    /\ w = "timeout" => guid \in shown
    /\ SuccessBootsImage

\* The lists that threads keep: what the names in them stand for does not change.
ListsOK ==
    \A t \in Thread :
        /\ \A n \in todo[t] : Named(n) \in Ids => store[Named(n)].label \in IsoLabels \cup {"none"}
        /\ \A n \in win[t] : Named(n) \in Ids /\ store[Named(n)].label \in SystemLabels
        /\ win[t] # {} => t # "worker" /\ pc[t] \in {"delete", "forget", "reset"}

\* A restoration misses no entry that mentions ISOBOOT.
RestoreOK ==
    /\ \A t \in Restorer :
        /\ pc[t] = "delete" => IsoLabelled \subseteq {Named(n) : n \in todo[t]}
        /\ pc[t] \in {"forget", "reset", "resetTimeout"} => IsoLabelled = {}
    /\ pc["recovery"] = "restored" => IsoLabelled = {}

\* What has ended is remembered only until something begins.
EndsAlone == \A t \in Thread : pc[t] \in {"done", "restored"} => \A u \in Thread : Resting(u)

MInv == BInv /\ EntriesOK /\ WorkerOK /\ ListsOK /\ RestoreOK /\ EndsAlone

\* The conditions under which the run of Machine holds: commands do what they say.
LEMMA NothingFails ==
    ASSUME Killed
    PROVE  ~Failing /\ Env \cap {"overlap", "silent", "faults", "astray"} = {}
BY DEF Killed, Failing

LEMMA LabelFacts ==
    /\ \A l \in IsoLabels : l \notin SystemLabels /\ l \notin UserLabels /\ l # "none"
                            /\ l # "Linux ISO Boot"
    /\ \A l \in SystemLabels \cup UserLabels \cup ProgramLabels : l # "none"
    /\ \A s \in Strategies : LabelOf[s] \in ProgramLabels \ SystemLabels
    /\ "Linux ISO Boot" \notin SystemLabels
    /\ "Windows (System)" \notin UserLabels \cup IsoLabels
    /\ NoEntry.label = "none" /\ NoEntry.boots = "nothing"
BY EntryFacts DEF IsoLabels, SystemLabels, UserLabels, ProgramLabels, NoEntry

LEMMA EntryTypes ==
    ASSUME StoreOK
    PROVE  /\ \A i \in Ids : Exists(i) <=> store[i] \in Entry
           /\ \A i \in Ids : Exists(i) <=> store[i].label # "none"
           /\ \A i : Exists(i) => i \in Ids
<1>1. \A e \in Entry : e.label # "none"
  BY DEF Entry, IsoLabels, SystemLabels, UserLabels
<1>2. NoEntry.label = "none"
  BY DEF NoEntry
<1>. QED
  BY <1>1, <1>2, EntryFacts DEF Exists, StoreOK

\* Any entry that is there, the user's or the program's.
LEMMA AnyEntry ==
    ASSUME BInv, EntriesOK, NEW i \in Ids, Exists(i)
    PROVE  /\ store[i].label \in SystemLabels =>
                Truthful(i) /\ store[i].boots = "windows"
           /\ store[i].boots = "image" => i \in Id /\ \E s \in Strategies : store[i].label = LabelOf[s]
           /\ store[i].label \in IsoLabels => i \in Id /\ i # current
<1>1. CASE i \in User
  <2>1. store[i] = UserEntry[i] /\ store[i].label \in UserLabels
    BY <1>1, BcdAssumption DEF BInv, UserEntriesKept
  <2>. QED
    BY <1>1, <2>1, BcdAssumption, LabelFacts DEF Truthful
<1>2. CASE i \in Id
  <2>1. i \notin User /\ Made(store[i])
    BY <1>2, BcdAssumption DEF EntriesOK
  <2>2. store[i].label \in SystemLabels => store[i].label = "Windows (System)"
    BY <2>1 DEF Made, ProgramLabels, SystemLabels, IsoLabels
  <2>3. store[i].label \in IsoLabels => i # current
    BY <2>1, LabelFacts DEF EntriesOK, CurrentIsWindows
  <2>. QED
    BY <1>2, <2>1, <2>2, <2>3 DEF Made, Truthful
<1>. QED
  BY <1>1, <1>2 DEF Ids

LEMMA CurrentFacts ==
    ASSUME BInv, EntriesOK
    PROVE  /\ current \in Ids /\ Exists(current) /\ current # NoId
           /\ store[current].label \notin IsoLabels \cup {"none"}
           /\ store[current].boots = "windows" /\ Truthful(current)
<1>1. /\ current \in Ids /\ Exists(current) /\ current # NoId /\ StoreOK
      /\ store[current].boots = "windows"
      /\ current \in User \/ store[current].label = "Windows (System)"
  BY TypeParts, EntryFacts DEF EntriesOK, CurrentIsWindows, Exists, BInv
<1>2. store[current].label \notin IsoLabels \cup {"none"}
  BY <1>1, AnyEntry, EntryTypes
<1>3. Truthful(current)
  BY <1>1 DEF Truthful, BInv, UserEntriesKept
<1>. QED
  BY <1>1, <1>2, <1>3

LEMMA LabelledFacts ==
    ASSUME BInv, EntriesOK
    PROVE  /\ IsoBootEntries = IsoLabelled /\ IsoLabelled \subseteq Id /\ current \notin IsoLabelled
           /\ Deletable = IsoLabelled /\ \A i \in IsoLabelled : Exists(i) /\ i \in Ids
<1>1. IsoBootEntries = IsoLabelled
  BY DEF IsoBootEntries, IsoLabelled
<1>2. \A i \in IsoLabelled : Exists(i) /\ i \in Ids
  BY EntryTypes, LabelFacts, TypeParts DEF IsoLabelled, BInv
<1>3. IsoLabelled \subseteq Id /\ current \notin IsoLabelled
  BY <1>2, AnyEntry DEF IsoLabelled
<1>. QED
  BY <1>1, <1>2, <1>3 DEF Deletable

\* What each command of bcdedit is to the entries.
LEMMA SetDefaultE ==
    ASSUME EntriesOK, NEW i, Exists(i) => Truthful(i), SetDefault(i), UNCHANGED current
    PROVE  EntriesOK'
BY DEF EntriesOK, SetDefault, CurrentIsWindows, LabelsTellTheTruth, Truthful, HalfMade, Exists

LEMMA ShowE ==
    ASSUME EntriesOK, NEW i, Exists(i) => Truthful(i), Show(i), UNCHANGED current
    PROVE  EntriesOK'
BY DEF EntriesOK, Show, CurrentIsWindows, LabelsTellTheTruth, Truthful, HalfMade, Exists

LEMMA SameE ==
    ASSUME EntriesOK, UNCHANGED <<store, default, shown, current>>
    PROVE  EntriesOK'
BY DEF EntriesOK, CurrentIsWindows, LabelsTellTheTruth, Truthful, HalfMade, Exists

LEMMA DeleteE ==
    ASSUME BInv, EntriesOK, NEW D, current \notin D, Delete(D), UNCHANGED current
    PROVE  EntriesOK'
<1>1. \A i \in Ids : store'[i] = IF i \in D THEN NoEntry ELSE store[i]
  BY DEF Delete
<1>2. \A i \in Ids : Exists(i)' => i \notin D /\ Exists(i) /\ store'[i] = store[i]
  BY <1>1 DEF Exists
<1>3. CurrentIsWindows'
  BY <1>1, CurrentFacts DEF EntriesOK, CurrentIsWindows, Exists
<1>4. \A i \in (shown' \cup {default'}) \ {NoId} :
        /\ i \in (shown \cup {default}) \ {NoId} /\ i \notin D /\ i \in Ids
        /\ i # default => i # default'
  BY TypeParts DEF Delete, StoreOK, Exists, BInv
<1>5. LabelsTellTheTruth'
  <2>. SUFFICES ASSUME NEW i \in (shown' \cup {default'}) \ {NoId}
                PROVE  Truthful(i)' \/ (i # default' /\ HalfMade(i)')
    BY DEF LabelsTellTheTruth
  <2>1. store'[i] = store[i]
    BY <1>1, <1>4
  <2>2. Truthful(i) \/ (i # default /\ HalfMade(i))
    BY <1>4 DEF EntriesOK, LabelsTellTheTruth
  <2>. QED
    BY <1>4, <2>1, <2>2 DEF Truthful, HalfMade
<1>. QED
  BY <1>2, <1>3, <1>5 DEF EntriesOK, Ids

\* An entry is made, copied or made over: it is not the default, and once it is shown
\* it is as the menu says, or half made.
LEMMA MakeE ==
    ASSUME BInv, EntriesOK, NEW i \in Id, i \notin {default, current}, NEW e, Made(e),
           store' = [store EXCEPT ![i] = e], shown' \in {shown, shown \cup {i}},
           i \in shown' => e.boots = "windows" \/ (e.boots = "image" /\ e.label # "Windows (System)"),
           UNCHANGED <<default, current>>
    PROVE  EntriesOK'
<1>1. i \in Ids /\ i \notin User
  BY BcdAssumption DEF Ids
<1>2. store \in [Ids -> Entry \cup {NoEntry}]
  BY DEF BInv, TypeOK
<1>3. \A j \in Ids : store'[j] = IF j = i THEN e ELSE store[j]
  BY <1>1, <1>2
<1>4. \A j \in Id : Exists(j)' => Made(store'[j])
  BY <1>3 DEF EntriesOK, Exists, Ids
<1>5. CurrentIsWindows'
  BY <1>3, CurrentFacts DEF EntriesOK, CurrentIsWindows, Exists
<1>6. \A j \in (shown \cup {default}) \ {NoId} : j \in Ids
  BY TypeParts DEF BInv, StoreOK, Exists
<1>7. LabelsTellTheTruth'
  <2>1. ASSUME NEW j \in (shown \cup {default}) \ {NoId}, j # i
        PROVE  Truthful(j)' \/ (j # default' /\ HalfMade(j)')
    <3>1. store'[j] = store[j]
      BY <1>3, <1>6, <2>1
    <3>2. Truthful(j) \/ (j # default /\ HalfMade(j))
      BY <2>1 DEF EntriesOK, LabelsTellTheTruth
    <3>. QED
      BY <3>1, <3>2 DEF Truthful, HalfMade
  <2>2. i \in shown' => (Truthful(i)' \/ HalfMade(i)') /\ i # default'
    <3>1. store'[i] = e
      BY <1>1, <1>3
    <3>. QED
      BY <1>1, <3>1 DEF Truthful, HalfMade
  <2>. QED
    BY <2>1, <2>2 DEF LabelsTellTheTruth
<1>. QED
  BY <1>4, <1>5, <1>7 DEF EntriesOK

LEMMA UnusedFacts ==
    ASSUME BInv, NEW i \in Unused
    PROVE  i \in Id /\ i \in Ids /\ i \notin shown \cup {default, current} /\ ~Exists(i)
<1>1. i \in Id /\ store[i] = NoEntry /\ i # current /\ ~Exists(i) /\ i \in Ids
  BY DEF Unused, Exists, Ids
<1>. QED
  BY <1>1, TypeParts, EntryFacts DEF BInv, StoreOK

\* What the threads remember.  The one that works is the only one that holds a list,
\* and nothing that has ended is remembered beside it.
LEMMA Beside ==
    ASSUME MInv, NEW t \in Thread, ~Resting(t)
    PROVE  /\ \A u \in Thread \ {t} : pc[u] \notin {"done", "restored"} /\ Resting(u)
                                      /\ todo[u] = {} /\ win[u] = {}
           /\ pc[t] # "delete" => todo[t] = {}
           /\ pc[t] \notin {"delete", "forget", "reset"} => win[t] = {}
           /\ pc \in [Thread -> PcValues]
<1>1. BInv /\ ListsOK /\ EndsAlone /\ pc \in [Thread -> PcValues]
  BY DEF MInv, BInv, TypeOK
<1>2. \A u \in Thread \ {t} : Resting(u) /\ todo[u] = {}
  BY <1>1, BusyAlone
<1>. QED
  BY <1>1, <1>2 DEF ListsOK, EndsAlone, Resting, BInv, TodoOK

\* A step of the worker, whose lists are dealt with elsewhere.
LEMMA WorkerGoes ==
    ASSUME MInv, ~Resting("worker"), NEW l, Goto("worker", l)
    PROVE  RestoreOK' /\ EndsAlone' /\ pc'["worker"] = l
<1>. USE DEF Thread, Restorer
<1>1. /\ \A u \in Restorer : pc[u] = "idle" /\ pc \in [Thread -> PcValues]
  BY Beside DEF Resting
<1>2. pc'["worker"] = l /\ \A u \in Restorer : pc'[u] = "idle"
  BY <1>1 DEF Goto
<1>. QED
  BY <1>2 DEF RestoreOK, EndsAlone, Resting

LEMMA NoLists ==
    ASSUME \A t \in Thread : todo'[t] = {} /\ win'[t] = {}
    PROVE  ListsOK'
BY DEF ListsOK

LEMMA WorkerWithoutLists ==
    ASSUME MInv, ~Resting("worker"), pc["worker"] # "delete" \/ todo["worker"] = {},
           UNCHANGED <<todo, win>>
    PROVE  ListsOK'
<1>1. \A u \in Thread : todo[u] = {} /\ win[u] = {}
  BY Beside DEF Thread, MInv, ListsOK
<1>. QED
  BY <1>1, NoLists

\* A step of the recovery, or of the start-up.
LEMMA RestorerGoes ==
    ASSUME MInv, NEW t \in Restorer, ~Resting(t), NEW l, Goto(t, l), l # "done"
    PROVE  /\ WorkerOK' /\ EndsAlone' /\ pc'[t] = l
           /\ \A u \in Thread \ {t} : pc'[u] = "idle" /\ todo[u] = {} /\ win[u] = {}
<1>. USE DEF Thread, Restorer
<1>1. /\ \A u \in Thread \ {t} : pc[u] = "idle" /\ todo[u] = {} /\ win[u] = {}
      /\ pc \in [Thread -> PcValues]
  BY Beside DEF Resting
<1>2. pc'[t] = l /\ \A u \in Thread \ {t} : pc'[u] = "idle"
  BY <1>1 DEF Goto
<1>3. pc'["worker"] = "idle"
  BY <1>2
<1>. QED
  BY <1>1, <1>2, <1>3 DEF WorkerOK, EndsAlone, Resting, SuccessBootsImage

\* Everybody rests, and something begins.
LEMMA BeginKeepsRest ==
    ASSUME MInv, NEW t \in Thread, \A u \in Thread : Resting(u),
           NEW l \in {"idle", "capture", "volumes"}, Begin(t, l), UNCHANGED <<todo, win>>
    PROVE  WorkerOK' /\ ListsOK' /\ RestoreOK' /\ EndsAlone'
<1>. USE DEF Thread, Restorer
<1>1. \A u \in Thread : pc'[u] \in {"idle", "capture", "volumes"}
  BY DEF Begin
<1>2. \A u \in Thread : todo[u] = {} /\ win[u] = {}
  BY DEF MInv, BInv, TodoOK, ListsOK, Resting
<1>. QED
  BY <1>1, <1>2, NoLists DEF WorkerOK, RestoreOK, EndsAlone, SuccessBootsImage

\* One of a list is deleted: it is neither the running Windows nor anything in the way.
LEMMA DeletingM ==
    ASSUME MInv, NEW t \in Thread, pc[t] = "delete", NEW n \in todo[t],
           todo' = [todo EXCEPT ![t] = @ \ {n}], Delete({Named(n)}),
           UNCHANGED <<pc, win, current, guid, strategy>>, BInv'
    PROVE  MInv'
<1>. DEFINE d == Named(n)
<1>1. /\ BInv /\ EntriesOK /\ ListsOK /\ RestoreOK /\ WorkerOK /\ ~Resting(t)
      /\ store \in [Ids -> Entry \cup {NoEntry}]
      /\ todo \in [Thread -> SUBSET (Ids \cup {TheDefault})]
      /\ TheDefault \notin Ids /\ NoId \notin Ids
  BY BcdAssumption DEF MInv, BInv, TypeOK, Resting
<1>2. d \in Ids => store[d].label \in IsoLabels \cup {"none"}
  BY <1>1 DEF ListsOK
<1>3. d # current
  BY <1>1, <1>2, CurrentFacts
<1>4. EntriesOK'
  BY <1>1, <1>3, DeleteE
<1>5. /\ \A i \in Ids : store'[i] = IF i = d THEN NoEntry ELSE store[i]
      /\ default' = IF default = d THEN NoId ELSE default
      /\ \A i \in Ids : i # d => store'[i].label = store[i].label
      /\ store'[d].label = "none" \/ d \notin Ids
  BY LabelFacts DEF Delete
<1>6. /\ IsoLabelled' = IsoLabelled \ {d}
  BY <1>5, LabelFacts DEF IsoLabelled
<1>7. /\ todo'[t] = todo[t] \ {n}
      /\ \A u \in Thread \ {t} : todo'[u] = {} /\ win'[u] = {}
      /\ \A u \in Thread : todo'[u] \subseteq todo[u]
  BY <1>1, Beside
<1>8. \A m : Named(m)' = Named(m) \/ (m = TheDefault /\ default = d /\ Named(m)' = NoId)
  BY <1>5 DEF Named
<1>9. ListsOK'
  <2>1. ASSUME NEW u \in Thread, NEW m \in todo'[u], Named(m)' \in Ids
        PROVE  store'[Named(m)'].label \in IsoLabels \cup {"none"}
    <3>1. Named(m)' = Named(m) /\ m \in todo[u]
      BY <1>1, <1>7, <1>8, <2>1
    <3>2. store[Named(m)].label \in IsoLabels \cup {"none"}
      BY <1>1, <2>1, <3>1 DEF ListsOK
    <3>3. store'[Named(m)].label \in IsoLabels \cup {"none"}
      BY <1>5, <2>1, <3>1, <3>2
    <3>. QED
      BY <3>1, <3>3
  <2>2. ASSUME NEW u \in Thread, NEW m \in win'[u]
        PROVE  Named(m)' \in Ids /\ store'[Named(m)'].label \in SystemLabels
    <3>1. Named(m) \in Ids /\ store[Named(m)].label \in SystemLabels
      BY <1>1, <2>2 DEF ListsOK
    <3>2. Named(m) # d
      BY <1>2, <3>1, LabelFacts
    <3>3. m = TheDefault => Named(m) = default
      BY DEF Named
    <3>4. Named(m)' = Named(m)
      BY <1>8, <3>2, <3>3
    <3>. QED
      BY <1>5, <3>1, <3>2, <3>4
  <2>. QED
    BY <1>1, <2>1, <2>2 DEF ListsOK
<1>10. WorkerOK'
  <2>1. CASE t = "worker"
    <3>1. default = current /\ IsoLabelled \subseteq todo["worker"] /\ default' = default
      BY <1>1, <1>3, <1>5, <2>1 DEF WorkerOK
    <3>2. TheDefault \notin todo["worker"]
      <4>1. Named(TheDefault) = current
        BY <3>1 DEF Named
      <4>. QED
        BY <1>1, <2>1, <4>1, CurrentFacts DEF ListsOK
    <3>3. d = n
      BY <2>1, <3>2 DEF Named
    <3>4. IsoLabelled' \subseteq todo'["worker"]
      BY <1>6, <1>7, <2>1, <3>1, <3>3
    <3>. QED
      BY <2>1, <3>1, <3>4 DEF WorkerOK, SuccessBootsImage
  <2>2. CASE t # "worker"
    <3>1. pc["worker"] = "idle"
      BY <1>1, <2>2, Beside DEF Thread, Resting
    <3>. QED
      BY <3>1 DEF WorkerOK, SuccessBootsImage
  <2>. QED
    BY <2>1, <2>2
<1>11. RestoreOK'
  <2>1. CASE t \in Restorer
    <3>1. IsoLabelled \subseteq {Named(m) : m \in todo[t]}
      BY <1>1, <2>1 DEF RestoreOK
    <3>2. ASSUME NEW i \in IsoLabelled'
          PROVE  \E m \in todo'[t] : i = Named(m)'
      <4>1. i \in IsoLabelled /\ i # d /\ i \in Ids
        BY <1>6, <3>2 DEF IsoLabelled
      <4>2. PICK m \in todo[t] : i = Named(m)
        BY <3>1, <4>1
      <4>3. m # n
        BY <4>1, <4>2
      <4>4. Named(m)' = Named(m)
        BY <1>8, <4>1, <4>2 DEF Named
      <4>. QED
        BY <1>7, <4>2, <4>3, <4>4
    <3>3. \A u \in Thread \ {t} : pc[u] = "idle"
      BY <1>1, Beside DEF Resting
    <3>. QED
      BY <3>2, <3>3 DEF RestoreOK, Restorer, Thread
  <2>2. CASE t \notin Restorer
    <3>1. \A u \in Restorer : pc[u] = "idle"
      BY <1>1, <2>2, Beside DEF Restorer, Thread, Resting
    <3>. QED
      BY <3>1 DEF RestoreOK, Restorer
  <2>. QED
    BY <2>1, <2>2
<1>12. EndsAlone'
  BY DEF MInv, EndsAlone, Resting
<1>. QED
  BY <1>4, <1>9, <1>10, <1>11, <1>12 DEF MInv

\* The parts of the invariant after a step of the worker that keeps its lists.
LEMMA WorkerStepM ==
    ASSUME MInv, BInv', EntriesOK', WorkerOK',
           ~Resting("worker"), pc["worker"] # "delete" \/ todo["worker"] = {},
           NEW l, Goto("worker", l), UNCHANGED <<todo, win>>
    PROVE  MInv'
BY WorkerGoes, WorkerWithoutLists DEF MInv

LEMMA CaptureM ==
    ASSUME Killed, MInv, BInv', Capture
    PROVE  MInv'
<1>1. /\ pc["worker"] = "capture" /\ ~Resting("worker") /\ UNCHANGED <<bcd, current, todo, win>>
      /\ EntriesOK
  BY DEF Capture, Resting, MInv
<1>2. PICK l \in {"current", "idle"} : Goto("worker", l)
  BY DEF Capture, VolumesFound
<1>3. pc'["worker"] = l
  BY <1>1, <1>2, WorkerGoes
<1>4. WorkerOK'
  BY <1>3 DEF WorkerOK, SuccessBootsImage
<1>. QED
  BY <1>1, <1>2, <1>4, SameE, WorkerStepM DEF bcd

LEMMA PreserveDefaultM ==
    ASSUME Killed, MInv, BInv', PreserveDefault
    PROVE  MInv'
<1>1. /\ pc["worker"] = "current" /\ ~Resting("worker") /\ Goto("worker", "copy")
      /\ SetDefault(current) /\ UNCHANGED <<current, todo, win>>
      /\ BInv /\ EntriesOK
  BY NothingFails DEF PreserveDefault, MakeCurrentDefault, Resting, MInv
<1>2. pc'["worker"] = "copy"
  BY <1>1, WorkerGoes
<1>3. default' = current
  BY <1>1, CurrentFacts DEF SetDefault
<1>4. WorkerOK'
  BY <1>1, <1>2, <1>3 DEF WorkerOK, SuccessBootsImage
<1>5. EntriesOK'
  BY <1>1, CurrentFacts, SetDefaultE
<1>. QED
  BY <1>1, <1>4, <1>5, WorkerStepM

LEMMA PreserveCopyM ==
    ASSUME Killed, MInv, BInv', PreserveCopy
    PROVE  MInv'
<1>1. /\ pc["worker"] = "copy" /\ ~Resting("worker") /\ UNCHANGED <<current, todo, win>>
      /\ BInv /\ EntriesOK /\ default = current
  BY DEF PreserveCopy, Resting, MInv, WorkerOK
<1>2. Exists(default) /\ store[default].boots = "windows" /\ store[default] \in Entry
  BY <1>1, CurrentFacts, TypeParts DEF BInv, StoreOK, Exists
<1>3. PICK i \in Unused : /\ CopyDefault(i, "Windows (System)") /\ guid' = i
                          /\ Goto("worker", "show")
  BY <1>2, NothingFails DEF PreserveCopy
<1>. DEFINE e == [store[default] EXCEPT !.label = "Windows (System)"]
<1>4. Made(e) /\ e.label = "Windows (System)"
  BY <1>2 DEF Made, ProgramLabels, Entry
<1>5. /\ store' = [store EXCEPT ![i] = e] /\ shown' \in {shown, shown \cup {i}}
      /\ UNCHANGED default
  BY <1>3 DEF CopyDefault
<1>11. e.boots = "windows"
  BY <1>2 DEF Entry
<1>6. i \in Id /\ i \in Ids /\ i \notin shown \cup {default, current}
  BY <1>1, UnusedFacts
<1>. HIDE DEF e
<1>7. EntriesOK'
  BY <1>1, <1>4, <1>5, <1>6, <1>11, MakeE
<1>8. pc'["worker"] = "show"
  BY <1>1, <1>3, WorkerGoes
<1>9. store'[i] = e /\ default' = default
  BY <1>1, <1>5, <1>6 DEF BInv, TypeOK
<1>10. WorkerOK'
  BY <1>1, <1>3, <1>4, <1>6, <1>8, <1>9 DEF WorkerOK, SuccessBootsImage
<1>. QED
  BY <1>1, <1>3, <1>7, <1>10, WorkerStepM

LEMMA PreserveShowM ==
    ASSUME Killed, MInv, BInv', PreserveShow
    PROVE  MInv'
<1>1. /\ pc["worker"] = "show" /\ ~Resting("worker") /\ UNCHANGED <<current, todo, win>>
      /\ Goto("worker", "enumerate") /\ Show(guid)
      /\ BInv /\ EntriesOK /\ default = current
      /\ guid \in Id /\ store[guid].label = "Windows (System)"
  BY NothingFails DEF PreserveShow, Resting, MInv, WorkerOK
<1>2. Exists(guid) => Truthful(guid)
  BY <1>1, AnyEntry DEF SystemLabels, Ids
<1>3. EntriesOK'
  BY <1>1, <1>2, ShowE
<1>4. pc'["worker"] = "enumerate" /\ default' = default
  BY <1>1, WorkerGoes DEF Show
<1>5. WorkerOK'
  BY <1>1, <1>4 DEF WorkerOK, SuccessBootsImage
<1>. QED
  BY <1>1, <1>3, <1>5, WorkerStepM

LEMMA EnumerateM ==
    ASSUME Killed, MInv, BInv', Enumerate
    PROVE  MInv'
<1>1. /\ pc["worker"] = "enumerate" /\ ~Resting("worker") /\ UNCHANGED <<current, bcd, win>>
      /\ Goto("worker", "delete")
      /\ todo' = [todo EXCEPT !["worker"] = {NameOf(i) : i \in IsoBootEntries}]
      /\ BInv /\ EntriesOK /\ default = current
  BY DEF Enumerate, Resting, MInv, WorkerOK
<1>2. IsoBootEntries = IsoLabelled /\ current \notin IsoLabelled /\ IsoLabelled \subseteq Ids
  BY <1>1, LabelledFacts
<1>3. \A i \in IsoLabelled : NameOf(i) = i /\ i # TheDefault
  BY <1>1, <1>2, UserFacts DEF NameOf, BInv
<1>4. todo \in [Thread -> SUBSET (Ids \cup {TheDefault})]
  BY <1>1 DEF BInv, TypeOK
<1>5. todo'["worker"] = IsoLabelled
  BY <1>1, <1>2, <1>3, <1>4 DEF Thread
<1>6. /\ \A u \in Thread : win[u] = {}
      /\ \A u \in Thread \ {"worker"} : todo'[u] = {}
  BY <1>1, <1>4, Beside DEF Thread
<1>7. ListsOK'
  <2>1. \A i \in IsoLabelled : Named(i)' = i /\ store'[i].label \in IsoLabels
    BY <1>1, <1>3 DEF Named, bcd, IsoLabelled
  <2>. QED
    BY <1>1, <1>5, <1>6, <2>1 DEF ListsOK
<1>8. RestoreOK' /\ EndsAlone' /\ pc'["worker"] = "delete"
  BY <1>1, WorkerGoes
<1>9. IsoLabelled' = IsoLabelled
  BY <1>1 DEF IsoLabelled, bcd
<1>10. WorkerOK'
  BY <1>1, <1>5, <1>8, <1>9 DEF WorkerOK, SuccessBootsImage, bcd
<1>11. EntriesOK'
  BY <1>1, SameE DEF bcd
<1>. QED
  BY <1>7, <1>8, <1>10, <1>11 DEF MInv

LEMMA CreateEntryM ==
    ASSUME Killed, MInv, BInv', CreateEntry
    PROVE  MInv'
<1>1. /\ pc["worker"] = "delete" /\ todo["worker"] = {} /\ ~Resting("worker")
      /\ UNCHANGED <<current, todo, win, strategy>> /\ BInv /\ EntriesOK /\ default = current
      /\ IsoLabelled = {} /\ strategy \in Strategies
  BY DEF CreateEntry, Resting, MInv, WorkerOK, BInv, TypeOK
<1>2. Exists(default) /\ store[default].boots = "windows" /\ store[default] \in Entry
  BY <1>1, CurrentFacts, TypeParts DEF BInv, StoreOK, Exists
<1>3. LabelOf[strategy] \in ProgramLabels \ SystemLabels
  BY <1>1, LabelFacts
<1>4. PICK i \in Unused :
        /\ IF strategy = "ramdisk"
           THEN Make(i, [label |-> LabelOf[strategy], loader |-> TRUE, boots |-> "nothing"])
           ELSE CopyDefault(i, LabelOf[strategy])
        /\ guid' = i /\ Goto("worker", "configure")
  BY <1>2, NothingFails DEF CreateEntry
<1>5. PICK e : /\ store' = [store EXCEPT ![i] = e] /\ UNCHANGED default
               /\ shown' = shown \/ (shown' = shown \cup {i} /\ e.boots = "windows")
               /\ e.label = LabelOf[strategy] /\ Made(e)
  <2>. DEFINE a == [label |-> LabelOf[strategy], loader |-> TRUE, boots |-> "nothing"]
              b == [store[default] EXCEPT !.label = LabelOf[strategy]]
  <2>1. /\ a.label = LabelOf[strategy] /\ a.boots = "nothing"
        /\ b.label = LabelOf[strategy] /\ b.boots = "windows"
    BY <1>2 DEF Entry
  <2>2. Made(a) /\ Made(b)
    BY <1>3, <2>1 DEF Made, SystemLabels
  <2>3. CASE Make(i, a)
    BY <2>1, <2>2, <2>3 DEF Make
  <2>4. CASE CopyDefault(i, LabelOf[strategy])
    <3>1. /\ store' = [store EXCEPT ![i] = b] /\ shown' \in {shown, shown \cup {i}}
          /\ UNCHANGED default
      BY <2>4 DEF CopyDefault
    <3>. QED
      BY <2>1, <2>2, <3>1
  <2>. QED
    BY <1>4, <2>3, <2>4
<1>6. i \in Id /\ i \in Ids /\ i \notin shown \cup {default, current}
  BY <1>1, UnusedFacts
<1>7. EntriesOK'
  BY <1>1, <1>3, <1>5, <1>6, MakeE DEF SystemLabels
<1>8. pc'["worker"] = "configure"
  BY <1>1, <1>4, WorkerGoes
<1>9. \A j \in Ids : store'[j] = IF j = i THEN e ELSE store[j]
  BY <1>1, <1>5, <1>6 DEF BInv, TypeOK
<1>10. Own'
  <2>1. IsoLabelled' \subseteq {i}
    BY <1>1, <1>9 DEF IsoLabelled
  <2>2. Exists(i)'
    BY <1>3, <1>5, <1>6, <1>9, LabelFacts DEF Exists
  <2>. QED
    BY <1>1, <1>4, <1>5, <1>6, <1>9, <2>1, <2>2 DEF Own
<1>12. WorkerOK'
  BY <1>1, <1>4, <1>5, <1>6, <1>8, <1>10 DEF WorkerOK, SuccessBootsImage
<1>. QED
  BY <1>1, <1>4, <1>7, <1>12, WorkerStepM

LEMMA ConfigureStrategyM ==
    ASSUME Killed, MInv, BInv', ConfigureStrategy
    PROVE  MInv'
<1>1. /\ pc["worker"] = "configure" /\ ~Resting("worker")
      /\ UNCHANGED <<current, todo, win, strategy>> /\ BInv /\ EntriesOK /\ Own
      /\ guid \notin {default, current} /\ strategy \in Strategies
  BY DEF ConfigureStrategy, Resting, MInv, WorkerOK, BInv, TypeOK
<1>2. CASE Goto("worker", "idle") /\ UNCHANGED bcd
  <2>1. pc'["worker"] = "idle"
    BY <1>1, <1>2, WorkerGoes
  <2>2. WorkerOK'
    BY <2>1 DEF WorkerOK, SuccessBootsImage
  <2>. QED
    BY <1>1, <1>2, <2>2, SameE, WorkerStepM DEF bcd
<1>3. ASSUME NEW e \in {Configured(store[guid]), ConfiguredLinux(store[guid])},
             e = IF strategy = "linux" THEN ConfiguredLinux(store[guid]) ELSE Configured(store[guid]),
             Make(guid, e), Goto("worker", "default"), UNCHANGED guid
      PROVE  MInv'
  <2>1. guid \in Id /\ guid \in Ids /\ store[guid] \in Entry /\ Exists(guid)
    BY <1>1, TypeParts DEF Own, BInv, StoreOK, Exists, Ids
  <2>2. e.boots = "image" /\ e.label = LabelOf[strategy]
    BY <1>1, <1>3, <2>1 DEF Configured, ConfiguredLinux, Entry, Own
  <2>3. Made(e)
    BY <1>1, <2>2, LabelFacts DEF Made, SystemLabels
  <2>4. EntriesOK'
    BY <1>1, <1>3, <2>1, <2>2, <2>3, LabelFacts, MakeE DEF Make, SystemLabels
  <2>5. \A j \in Ids : store'[j] = IF j = guid THEN e ELSE store[j]
    BY <1>1, <1>3 DEF Make, BInv, TypeOK
  <2>6. Own'
    <3>1. IsoLabelled' \subseteq {guid}
      BY <1>1, <2>5 DEF IsoLabelled, Own
    <3>2. Exists(guid)'
      BY <1>3, <2>1, <2>2, <2>5, LabelFacts DEF Exists
    <3>. QED
      BY <1>1, <1>3, <2>1, <2>2, <2>5, <3>1, <3>2 DEF Own
  <2>7. pc'["worker"] = "default"
    BY <1>1, <1>3, WorkerGoes
  <2>8. WorkerOK'
    BY <1>3, <2>1, <2>2, <2>5, <2>6, <2>7 DEF WorkerOK, SuccessBootsImage
  <2>. QED
    BY <1>1, <1>3, <2>4, <2>8, WorkerStepM
<1>. QED
  BY <1>1, <1>2, <1>3, NothingFails DEF ConfigureStrategy, Own

LEMMA FinalizeM ==
    ASSUME Killed, MInv, BInv', FinalizeBCD
    PROVE  MInv'
<1>1. /\ ~Resting("worker") /\ pc["worker"] \in {"default", "first", "timeout"}
      /\ UNCHANGED <<current, todo, win, strategy>> /\ BInv /\ EntriesOK /\ Own /\ WorkerOK
      /\ strategy \in Strategies
  BY DEF FinalizeBCD, Resting, MInv, WorkerOK, BInv, TypeOK
<1>2. Exists(guid) /\ store[guid].boots = "image" /\ guid \in Id
  BY <1>1 DEF Own, WorkerOK
<1>3. Truthful(guid)
  BY <1>1, <1>2, LabelFacts, BcdAssumption DEF Truthful, Own, SystemLabels
<1>4. CASE /\ pc["worker"] = "default" /\ SetDefault(guid) /\ Goto("worker", "first") /\ guid' = guid
  <2>1. pc'["worker"] = "first" /\ default' = guid /\ UNCHANGED <<store, shown>>
    BY <1>1, <1>2, <1>4, WorkerGoes DEF SetDefault
  <2>2. Own'
    BY <1>1, <1>4, <2>1 DEF Own, IsoLabelled, Exists
  <2>3. WorkerOK'
    BY <1>2, <1>4, <2>1, <2>2 DEF WorkerOK, SuccessBootsImage
  <2>. QED
    BY <1>1, <1>3, <1>4, <2>3, SetDefaultE, WorkerStepM
<1>5. CASE /\ pc["worker"] = "first" /\ Show(guid) /\ Goto("worker", "timeout") /\ guid' = guid
  <2>1. pc'["worker"] = "timeout" /\ guid \in shown' /\ UNCHANGED <<store, default>> /\ default = guid
    BY <1>1, <1>2, <1>5, WorkerGoes DEF Show, WorkerOK
  <2>2. Own'
    BY <1>1, <1>5, <2>1 DEF Own, IsoLabelled, Exists
  <2>3. WorkerOK'
    BY <1>2, <1>5, <2>1, <2>2 DEF WorkerOK, SuccessBootsImage
  <2>. QED
    BY <1>1, <1>3, <1>5, <2>3, ShowE, WorkerStepM
<1>6. CASE pc["worker"] = "timeout" /\ SetTimeout(30) /\ Goto("worker", "done")
  <2>1. /\ pc'["worker"] = "done" /\ timeout' = 30 /\ UNCHANGED <<store, default, shown>>
        /\ default = guid /\ guid \in shown
    BY <1>1, <1>6, WorkerGoes DEF SetTimeout, WorkerOK
  <2>2. guid # NoId
    BY <1>2, EntryFacts DEF Ids
  <2>3. SuccessBootsImage'
    BY <1>1, <1>2, <2>1, <2>2 DEF Own, IsoLabelled, SuccessBootsImage
  <2>4. WorkerOK'
    BY <2>1, <2>3 DEF WorkerOK
  <2>. QED
    BY <1>1, <1>6, <2>1, <2>4, SameE, WorkerStepM
<1>. QED
  BY <1>2, <1>4, <1>5, <1>6, NothingFails DEF FinalizeBCD, Finalize

LEMMA PrepareM ==
    ASSUME Killed, MInv, BInv', Prepare
    PROVE  MInv'
<1>1. /\ \A u \in Thread : Resting(u)
      /\ UNCHANGED <<current, bcd, todo, win>>
      /\ BInv /\ EntriesOK
  BY NothingFails DEF Prepare, Alone, MInv
<1>2. PICK l \in {"idle", "capture"} : Begin("worker", l)
  BY DEF Prepare
<1>3. WorkerOK' /\ ListsOK' /\ RestoreOK' /\ EndsAlone'
  BY <1>1, <1>2, BeginKeepsRest DEF Thread
<1>. QED
  BY <1>1, <1>3, SameE DEF bcd, MInv

LEMMA StartRecoveryM ==
    ASSUME Killed, MInv, BInv', StartRecovery
    PROVE  MInv'
<1>1. /\ \A u \in Thread : Resting(u)
      /\ UNCHANGED <<current, bcd, todo, win>>
      /\ BInv /\ EntriesOK
  BY NothingFails DEF StartRecovery, Alone, MInv
<1>2. WorkerOK' /\ ListsOK' /\ RestoreOK' /\ EndsAlone'
  BY <1>1, BeginKeepsRest DEF StartRecovery, Thread
<1>. QED
  BY <1>1, <1>2, SameE DEF bcd, MInv

LEMMA RecoverSpaceM ==
    ASSUME Killed, MInv, BInv', RecoverSpace
    PROVE  MInv'
<1>. USE DEF Thread, Restorer
<1>1. /\ pc["recovery"] = "volumes" /\ ~Resting("recovery") /\ Goto("recovery", "find")
      /\ Delete(Cleanable) /\ UNCHANGED <<current, todo, win>> /\ BInv /\ EntriesOK
  BY NothingFails DEF RecoverSpace, Resting, MInv
<1>2. current \notin Cleanable
  BY DEF Cleanable
<1>3. EntriesOK'
  BY <1>1, <1>2, DeleteE
<1>4. /\ WorkerOK' /\ EndsAlone' /\ pc'["recovery"] = "find"
      /\ \A u \in Thread \ {"recovery"} : pc'[u] = "idle" /\ todo[u] = {} /\ win[u] = {}
  BY <1>1, RestorerGoes
<1>5. todo["recovery"] = {} /\ win["recovery"] = {}
  BY <1>1, Beside
<1>6. ListsOK' /\ RestoreOK'
  BY <1>1, <1>4, <1>5, NoLists DEF RestoreOK
<1>. QED
  BY <1>3, <1>4, <1>6 DEF MInv

LEMMA LaunchM ==
    ASSUME Killed, MInv, BInv', Launch
    PROVE  MInv'
<1>. USE DEF Thread, Restorer
<1>1. /\ UNCHANGED bcd /\ EntriesOK /\ BInv
      /\ \A u \in Thread : todo'[u] = {} /\ win'[u] = {} /\ pc'[u] \in {"idle", "find"}
  BY DEF Launch, MInv
<1>2. CurrentIsWindows'
  <2>1. CASE current' = current
    BY <1>1, <2>1 DEF EntriesOK, CurrentIsWindows, bcd, Exists
  <2>2. CASE /\ current' \in (shown \cup {default}) \cap Ids
             /\ store[current'].boots = "windows" /\ ~HalfMade(current')
    <3>1. current' # NoId /\ Exists(current')
      BY <2>2, LabelFacts, EntryFacts DEF Exists
    <3>2. current' \in User \/ store[current'].label = "Windows (System)"
      BY <1>1, <2>2, <3>1 DEF HalfMade, Ids
    <3>. QED
      BY <1>1, <2>2, <3>1, <3>2 DEF CurrentIsWindows, bcd, Exists
  <2>. QED
    BY <2>1, <2>2, NothingFails DEF Launch
<1>3. EntriesOK'
  BY <1>1, <1>2 DEF EntriesOK, LabelsTellTheTruth, Truthful, HalfMade, bcd, Exists
<1>4. pc' = [t \in Thread |-> IF t = "init" /\ parts THEN "find" ELSE "idle"]
  BY DEF Launch
<1>5. WorkerOK' /\ ListsOK' /\ RestoreOK' /\ EndsAlone'
  BY <1>1, <1>4, NoLists DEF WorkerOK, RestoreOK, EndsAlone, SuccessBootsImage
<1>. QED
  BY <1>3, <1>5 DEF MInv

\* The parts of the invariant after a step of a restoration.
LEMMA RestorerStepM ==
    ASSUME MInv, BInv', EntriesOK', ListsOK',
           NEW t \in Restorer, ~Resting(t), NEW l, Goto(t, l), l # "done",
           l = "delete" => IsoLabelled' \subseteq {Named(n)' : n \in todo'[t]},
           l \in {"forget", "reset", "resetTimeout", "restored"} => IsoLabelled' = {}
    PROVE  MInv'
<1>1. /\ WorkerOK' /\ EndsAlone' /\ pc'[t] = l
      /\ \A u \in Thread \ {t} : pc'[u] = "idle"
  BY RestorerGoes
<1>2. RestoreOK'
  BY <1>1 DEF RestoreOK, Restorer, Thread
<1>. QED
  BY <1>1, <1>2 DEF MInv

LEMMA FindEntriesM ==
    ASSUME MInv, BInv', NEW t \in Restorer, FindEntries(t)
    PROVE  MInv'
<1>. DEFINE l == IF Deletable = {} THEN "forget" ELSE "delete"
<1>1. /\ t \in Thread /\ ~Resting(t) /\ UNCHANGED <<current, bcd>> /\ Goto(t, l)
      /\ BInv /\ EntriesOK
      /\ todo' = [todo EXCEPT ![t] = {NameOf(i) : i \in Deletable}]
      /\ win' = [win EXCEPT ![t] = {NameOf(i) : i \in {j \in Ids : store[j].label \in SystemLabels}}]
  BY DEF FindEntries, Resting, MInv, Thread, Restorer
<1>2. Deletable = IsoLabelled /\ IsoLabelled \subseteq Ids /\ IsoLabelled' = IsoLabelled
  BY <1>1, LabelledFacts DEF IsoLabelled, bcd
<1>3. /\ todo \in [Thread -> SUBSET (Ids \cup {TheDefault})]
      /\ win \in [Thread -> SUBSET (Ids \cup {TheDefault})]
      /\ TheDefault \notin Ids
  BY <1>1, UserFacts DEF BInv, TypeOK
<1>4. \A i \in Ids : \A n : n = NameOf(i) => Named(n)' = i
  BY <1>1, <1>3 DEF Named, NameOf, bcd
<1>5. /\ todo'[t] = {NameOf(i) : i \in IsoLabelled}
      /\ win'[t] = {NameOf(i) : i \in {j \in Ids : store[j].label \in SystemLabels}}
      /\ \A u \in Thread \ {t} : todo'[u] = {} /\ win'[u] = {}
  BY <1>1, <1>2, <1>3, Beside
<1>6. EntriesOK'
  BY <1>1, SameE DEF bcd
<1>7. /\ pc'[t] = l
      /\ l \in {"forget", "delete"} /\ t # "worker"
  BY <1>1, RestorerGoes DEF Restorer
<1>8. ListsOK'
  <2>1. \A n \in todo'[t] : Named(n)' \in Ids => store'[Named(n)'].label \in IsoLabels \cup {"none"}
    <3>1. \A i \in IsoLabelled : store'[i].label \in IsoLabels
      BY <1>1 DEF IsoLabelled, bcd
    <3>. SUFFICES ASSUME NEW n \in todo'[t]
                  PROVE  store'[Named(n)'].label \in IsoLabels
      OBVIOUS
    <3>2. PICK i \in IsoLabelled : n = NameOf(i)
      BY <1>5
    <3>3. Named(n)' = i
      BY <1>2, <1>4, <3>2
    <3>. QED
      BY <3>1, <3>3
  <2>2. \A n \in win'[t] : Named(n)' \in Ids /\ store'[Named(n)'].label \in SystemLabels
    <3>. SUFFICES ASSUME NEW n \in win'[t]
                  PROVE  Named(n)' \in Ids /\ store'[Named(n)'].label \in SystemLabels
      OBVIOUS
    <3>1. PICK i \in Ids : n = NameOf(i) /\ store[i].label \in SystemLabels
      BY <1>5
    <3>2. Named(n)' = i
      BY <1>4, <3>1
    <3>. QED
      BY <1>1, <3>1, <3>2 DEF bcd
  <2>3. pc'[t] \in {"delete", "forget", "reset"}
    BY <1>7
  <2>. QED
    BY <1>5, <1>7, <2>1, <2>2, <2>3 DEF ListsOK
<1>9. l = "delete" => IsoLabelled' \subseteq {Named(n)' : n \in todo'[t]}
  <2>1. \A i \in IsoLabelled : \E n \in todo'[t] : i = Named(n)'
    BY <1>2, <1>4, <1>5
  <2>. QED
    BY <1>2, <2>1
<1>10. l = "forget" => IsoLabelled' = {}
  BY <1>2
<1>. QED
  BY <1>1, <1>6, <1>7, <1>8, <1>9, <1>10, RestorerStepM

LEMMA ForgetBackupM ==
    ASSUME MInv, BInv', NEW t \in Restorer, ForgetBackup(t)
    PROVE  MInv'
<1>1. /\ t \in Thread /\ ~Resting(t) /\ UNCHANGED <<current, bcd, todo>> /\ BInv /\ EntriesOK
      /\ pc[t] = "delete" => todo[t] = {}
      /\ pc[t] \in {"delete", "forget"} /\ t # "worker"
  BY DEF ForgetBackup, Resting, MInv, Thread, Restorer
<1>2. PICK l \in {"reset", "restored", "idle"} : Goto(t, l)
  BY DEF ForgetBackup, End
<1>3. IsoLabelled = {} /\ IsoLabelled' = IsoLabelled
  BY <1>1 DEF MInv, RestoreOK, IsoLabelled, bcd
<1>4. /\ pc'[t] = l /\ \A u \in Thread \ {t} : todo[u] = {} /\ win[u] = {}
      /\ todo[t] = {}
  BY <1>1, <1>2, RestorerGoes, Beside
<1>5. /\ \A u \in Thread \ {t} : win'[u] = {}
      /\ win'[t] \in {win[t], {}} /\ (l # "reset" => win'[t] = {})
  BY <1>1, <1>4 DEF ForgetBackup, BInv, TypeOK
<1>6. \A n : Named(n)' = Named(n)
  BY <1>1 DEF Named, bcd
<1>7. ListsOK'
  <2>1. \A n \in win'[t] : Named(n) \in Ids /\ store[Named(n)].label \in SystemLabels
    BY <1>1, <1>5 DEF MInv, ListsOK
  <2>2. \A n \in win'[t] : Named(n)' \in Ids /\ store'[Named(n)'].label \in SystemLabels
    BY <1>1, <1>6, <2>1 DEF bcd
  <2>. QED
    BY <1>1, <1>4, <1>5, <2>2 DEF ListsOK
<1>8. EntriesOK'
  BY <1>1, SameE DEF bcd
<1>. QED
  BY <1>1, <1>2, <1>3, <1>7, <1>8, RestorerStepM

LEMMA ResetDefaultM ==
    ASSUME Killed, MInv, BInv', NEW t \in Restorer, ResetDefault(t)
    PROVE  MInv'
<1>1. /\ t \in Thread /\ pc[t] = "reset" /\ ~Resting(t) /\ UNCHANGED <<current, todo>>
      /\ BInv /\ EntriesOK /\ Goto(t, "resetTimeout") /\ win' = [win EXCEPT ![t] = {}]
  BY DEF ResetDefault, Resting, MInv, Thread, Restorer
<1>2. PICK n \in IF win[t] = {} THEN {current} ELSE win[t] : SetDefault(Named(n))
  BY NothingFails DEF ResetDefault
<1>3. Exists(Named(n)) => Truthful(Named(n))
  <2>1. CASE win[t] = {}
    <3>1. n = current /\ Named(n) = current
      BY <1>1, <1>2, <2>1, CurrentFacts, UserFacts DEF Named, BInv
    <3>. QED
      BY <1>1, <3>1, CurrentFacts
  <2>2. CASE n \in win[t]
    <3>1. Named(n) \in Ids /\ store[Named(n)].label \in SystemLabels
      BY <1>1, <2>2 DEF MInv, ListsOK
    <3>. QED
      BY <1>1, <3>1, AnyEntry
  <2>. QED
    BY <1>2, <2>1, <2>2
<1>4. EntriesOK'
  BY <1>1, <1>2, <1>3, SetDefaultE
<1>5. \A u \in Thread : todo[u] = {} /\ win'[u] = {}
  BY <1>1, Beside DEF BInv, TypeOK
<1>6. IsoLabelled' = {}
  BY <1>1, <1>2 DEF MInv, RestoreOK, IsoLabelled, SetDefault
<1>. QED
  BY <1>1, <1>4, <1>5, <1>6, NoLists, RestorerStepM

LEMMA ResetTimeoutM ==
    ASSUME Killed, MInv, BInv', NEW t \in Restorer, ResetTimeout(t)
    PROVE  MInv'
<1>1. /\ t \in Thread /\ pc[t] = "resetTimeout" /\ ~Resting(t) /\ UNCHANGED <<current, todo, win>>
      /\ EntriesOK /\ SetTimeout(0)
  BY NothingFails DEF ResetTimeout, Resting, MInv, Thread, Restorer
<1>2. PICK l \in {"restored", "idle"} : Goto(t, l)
  BY DEF ResetTimeout, End
<1>3. EntriesOK'
  BY <1>1, SameE DEF SetTimeout
<1>4. \A u \in Thread : todo[u] = {} /\ win[u] = {}
  BY <1>1, Beside
<1>5. IsoLabelled' = {}
  BY <1>1 DEF MInv, RestoreOK, IsoLabelled, SetTimeout
<1>. QED
  BY <1>1, <1>2, <1>3, <1>4, <1>5, NoLists, RestorerStepM

LEMMA NextM ==
    ASSUME Killed, MInv, [Next]_vars
    PROVE  MInv'
<1>1. BInv'
  BY NothingFails, NextKeepsUsers DEF MInv
<1>2. ASSUME NEW t \in Thread, DeleteOne(t)
      PROVE  MInv'
  <2>1. /\ pc[t] = "delete" /\ UNCHANGED <<pc, win, current, guid, strategy>>
        /\ \E n \in todo[t] : todo' = [todo EXCEPT ![t] = @ \ {n}] /\ Delete({Named(n)})
    BY <1>2, NothingFails DEF DeleteOne
  <2>. QED
    BY <1>1, <2>1, DeletingM
<1>3. CASE UNCHANGED vars
  <2>. USE <1>3 DEF vars
  <2>1. EntriesOK'
    BY SameE DEF MInv
  <2>2. WorkerOK'
    BY DEF MInv, WorkerOK, Own, SuccessBootsImage, IsoLabelled, Exists
  <2>3. ListsOK' /\ RestoreOK' /\ EndsAlone'
    BY DEF MInv, ListsOK, RestoreOK, EndsAlone, Named, IsoLabelled, Resting
  <2>. QED
    BY <1>1, <2>1, <2>2, <2>3 DEF MInv
<1>. QED
  BY <1>1, <1>2, <1>3, PrepareM, CaptureM, PreserveDefaultM, PreserveCopyM, PreserveShowM,
     EnumerateM, CreateEntryM, ConfigureStrategyM, FinalizeM, StartRecoveryM, RecoverSpaceM,
     LaunchM, FindEntriesM, ForgetBackupM, ResetDefaultM, ResetTimeoutM
     DEF Next, WorkerStep, RestoreStep, Restorer, Thread

LEMMA InitM == Init => MInv
<1>. SUFFICES ASSUME Init PROVE MInv
  OBVIOUS
<1>1. BInv
  BY InitTypes, InitStore DEF BInv, Init, UserEntriesKept, TodoOK, OneBusy, Resting
<1>2. \A t \in Thread : pc[t] = "idle" /\ todo[t] = {} /\ win[t] = {}
  BY DEF Init
<1>3. WorkerOK /\ ListsOK /\ RestoreOK /\ EndsAlone
  BY <1>2 DEF WorkerOK, ListsOK, RestoreOK, EndsAlone, SuccessBootsImage, Thread, Restorer
<1>4. EntriesOK
  <2>1. \A i \in Id : ~Exists(i)
    BY BcdAssumption DEF Init, Exists, Ids
  <2>2. CurrentIsWindows
    BY InitStore, BcdAssumption DEF Init, CurrentIsWindows
  <2>3. LabelsTellTheTruth
    BY InitStore, BcdAssumption DEF Init, LabelsTellTheTruth, Truthful, Ids
  <2>. QED
    BY <2>1, <2>2, <2>3 DEF EntriesOK
<1>. QED
  BY <1>1, <1>3, <1>4 DEF MInv

LEMMA AlwaysM == ASSUME Killed PROVE Spec => []MInv
<1>1. MInv /\ [Next]_vars => MInv'
  BY NextM
<1>. QED
  BY InitM, <1>1, PTL DEF Spec

\* When commands do what they say and one thread at a time works on the store: wherever
\* processes, recoveries and starts are killed, and from whichever Windows the program
\* is started next, half made entries excepted, the entry that boots by default boots
\* what its label says, and so does every other that the menu shows, unless it is the
\* copy of Windows' entry that createEntry has made and configureBCD not reached
\* (preserveWindowsEntries, build, finalizeBCD, restoreBCD).
THEOREM LabelsAreTrue ==
    ASSUME Killed
    PROVE  Spec => []LabelsTellTheTruth
<1>1. MInv => LabelsTellTheTruth
  BY DEF MInv, EntriesOK
<1>. QED
  BY AlwaysM, <1>1, PTL

\* Then a process that reports success has made its own entry the default, in the menu,
\* with time to choose, and no other mentions ISOBOOT (cleanupExistingEntries,
\* createEntry, configureBCD, finalizeBCD).
THEOREM SuccessIsTheDefault ==
    ASSUME Killed
    PROVE  Spec => []SuccessBootsImage
<1>1. MInv => SuccessBootsImage
  BY DEF MInv, WorkerOK
<1>. QED
  BY AlwaysM, <1>1, PTL

\* Where nothing mentions ISOBOOT and no process is for Linux, the default is no image.
LEMMA NoImageByDefault ==
    ASSUME MInv, "linux" \notin Strategies, IsoLabelled = {}, default # NoId
    PROVE  store[default].boots # "image"
<1>1. default \in Ids /\ Exists(default)
  BY TypeParts DEF MInv, BInv, StoreOK, Exists
<1>. SUFFICES ASSUME store[default].boots = "image"
              PROVE  FALSE
  OBVIOUS
<1>2. PICK s \in Strategies : store[default].label = LabelOf[s]
  BY <1>1, AnyEntry DEF MInv
<1>3. LabelOf[s] \in IsoLabels
  BY BcdAssumption DEF LabelOf, Kinds, IsoLabels
<1>. QED
  BY <1>1, <1>2, <1>3 DEF IsoLabelled

\* Without the strategy for Linux, whose label the cleaning does not know, a recovery
\* that comes to its end leaves no entry that mentions ISOBOOT, and no image of the
\* program's as the default (restoreBCD; names that bcdedit resolves when they are used).
THEOREM RecoveryLeavesNothing ==
    ASSUME Killed, "linux" \notin Strategies
    PROVE  Spec => []RecoverCleans
<1>1. MInv => RecoverCleans
  BY NoImageByDefault DEF RecoverCleans, MInv, RestoreOK
<1>. QED
  BY AlwaysM, <1>1, PTL
=============================================================================
