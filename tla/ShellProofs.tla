---------------------------- MODULE ShellProofs ----------------------------
(***************************************************************************)
(* Proofs about Shell: in every environment the main window takes input    *)
(* exactly when it should, and recoverSpace never refuses a recovery that  *)
(* the window lets in; no task outlives the singletons it works with,      *)
(* except the worker beside a recovery that succeeds, and the new instance *)
(* finds the recovery done; and, in the environments that the theorems     *)
(* name, the window shows what the worker does, and its button comes back. *)
(***************************************************************************)
EXTENDS Shell, SequenceTheorems, TLAPS

Boxes == [kind : Ownerless \cup Owned, disabled : BOOLEAN, reply : {"none", "yes", "no"}]

\* The program has not begun to end, so that its handlers still run.
Live == ui \in {"pump", "join", "console", "enter"}

\* What holds between the open boxes, the window's state and isRecovering: the
\* window was disabled once, by a single box or by the recovery; an answered box has
\* given it back.
Tally(bs, en, rec) ==
    /\ en <=> ~rec /\ \A i \in DOMAIN bs : ~bs[i].disabled
    /\ rec => \A i \in DOMAIN bs : ~bs[i].disabled
    /\ \A i, j \in DOMAIN bs : bs[i].disabled /\ bs[j].disabled => i = j
    /\ \A i \in DOMAIN bs : bs[i].reply # "none" => ~bs[i].disabled

WTypes == /\ boxes \in Seq(Boxes)
          /\ {enabled, isRecovering, quit} \subseteq BOOLEAN

WInv == WTypes /\ (Live /\ ~quit => Tally(boxes, enabled, isRecovering))

LEMMA BoxTypes ==
    ASSUME enabled \in BOOLEAN, NEW kind \in Ownerless \cup Owned
    PROVE  /\ Box(kind) \in Boxes
           /\ Box(kind).disabled <=> kind \in Owned /\ enabled
           /\ Box(kind).kind = kind /\ Box(kind).reply = "none"
BY DEF Box, Boxes, Ownerless, Owned

\* What is left when the last box goes.
LEMMA FrontOfBoxes ==
    ASSUME NEW bs \in Seq(Boxes), bs # <<>>
    PROVE  /\ Front(bs) \in Seq(Boxes) /\ Len(Front(bs)) = Len(bs) - 1
           /\ \A i \in 1..Len(bs) - 1 : Front(bs)[i] = bs[i]
           /\ Last(bs) = bs[Len(bs)] /\ Last(bs) \in Boxes
           /\ Len(bs) \in Nat \ {0}
<1>. DEFINE n == Len(bs)
             k == n - 1
<1>1. n \in Nat \ {0} /\ \A i \in 1..n : bs[i] \in Boxes
  BY EmptySeq, LenProperties, ElementOfSeq
<1>2. k \in Nat /\ n = k + 1
  BY <1>1
<1>. HIDE DEF n, k
<1>3. \A i \in 1..k : bs[i] \in Boxes
  BY <1>1, <1>2
<1>4. /\ SubSeq(bs, 1, k) \in Seq(Boxes)
      /\ Len(SubSeq(bs, 1, k)) = IF 1 <= k THEN k - 1 + 1 ELSE 0
      /\ \A i \in 1..k - 1 + 1 : SubSeq(bs, 1, k)[i] = bs[1 + i - 1]
  BY <1>2, <1>3, SubSeqProperties
<1>5. /\ Len(SubSeq(bs, 1, k)) = k
      /\ \A i \in 1..k : SubSeq(bs, 1, k)[i] = bs[i]
  BY <1>2, <1>4
<1>. QED
  BY <1>1, <1>2, <1>4, <1>5 DEF Front, Last, n, k

LEMMA AppendedBox ==
    ASSUME NEW bs \in Seq(Boxes), NEW b \in Boxes
    PROVE  /\ Append(bs, b) \in Seq(Boxes)
           /\ DOMAIN Append(bs, b) = 1..Len(bs) + 1 /\ DOMAIN bs = 1..Len(bs) /\ Len(bs) \in Nat
           /\ \A i \in 1..Len(bs) : Append(bs, b)[i] = bs[i]
           /\ Append(bs, b)[Len(bs) + 1] = b
BY AppendProperties, LenProperties

LEMMA OpenedTypes ==
    ASSUME enabled \in BOOLEAN, NEW bs \in Seq(Boxes), NEW kind \in Ownerless \cup Owned,
           Opened(bs, kind)
    PROVE  boxes' \in Seq(Boxes) /\ enabled' \in BOOLEAN
BY BoxTypes, AppendedBox DEF Opened

LEMMA OpenedKeeps ==
    ASSUME enabled \in BOOLEAN, isRecovering \in BOOLEAN, NEW bs \in Seq(Boxes),
           Tally(bs, enabled, isRecovering),
           NEW kind \in Ownerless \cup Owned, Opened(bs, kind)
    PROVE  /\ boxes' \in Seq(Boxes) /\ enabled' \in BOOLEAN
           /\ Tally(boxes', enabled', isRecovering)
<1>. DEFINE b == Box(kind)
             n == Len(bs)
<1>1. /\ b \in Boxes /\ b.reply = "none"
      /\ b.disabled <=> kind \in Owned /\ enabled
      /\ boxes' = Append(bs, b) /\ enabled' = (enabled /\ kind \in Ownerless)
  BY BoxTypes DEF Opened
<1>2. kind \in Owned <=> kind \notin Ownerless
  BY DEF Owned, Ownerless
<1>. HIDE DEF b
<1>3. /\ n \in Nat /\ boxes' \in Seq(Boxes)
      /\ DOMAIN bs = 1..n /\ DOMAIN boxes' = 1..n + 1
      /\ \A i \in 1..n : boxes'[i] = bs[i]
      /\ boxes'[n + 1] = b
  BY <1>1, AppendedBox
<1>. HIDE DEF n
<1>4. CASE b.disabled
  BY <1>1, <1>2, <1>3, <1>4 DEF Tally
<1>5. CASE ~b.disabled
  BY <1>1, <1>2, <1>3, <1>5 DEF Tally
<1>. QED
  BY <1>4, <1>5

LEMMA OpenKeeps ==
    ASSUME WInv, NEW kind \in Ownerless \cup Owned, Open(kind), Live, ~quit
    PROVE  /\ boxes' \in Seq(Boxes) /\ enabled' \in BOOLEAN
           /\ Tally(boxes', enabled', isRecovering)
BY OpenedKeeps DEF WInv, WTypes, Open

\* A button of the i-th box is clicked.
LEMMA AnsweredBox ==
    ASSUME WTypes, NEW i \in DOMAIN boxes, NEW r \in {"yes", "no"}, Answered(i, r)
    PROVE  /\ boxes' \in Seq(Boxes) /\ enabled' \in BOOLEAN /\ DOMAIN boxes' = DOMAIN boxes
           /\ \A j \in DOMAIN boxes : j # i => boxes'[j] = boxes[j]
           /\ boxes'[i].kind = boxes[i].kind /\ ~boxes'[i].disabled
<1>. DEFINE b == [boxes[i] EXCEPT !.reply = r, !.disabled = FALSE]
<1>1. /\ boxes \in Seq(Boxes) /\ i \in 1..Len(boxes) /\ boxes[i] \in Boxes
      /\ DOMAIN boxes = 1..Len(boxes)
  BY LenProperties, ElementOfSeq DEF WTypes
<1>2. b \in Boxes /\ b.kind = boxes[i].kind /\ ~b.disabled
  BY <1>1 DEF Boxes
<1>3. boxes' = [boxes EXCEPT ![i] = b] /\ enabled' = (enabled \/ boxes[i].disabled)
  BY DEF Answered, Restores
<1>. HIDE DEF b
<1>4. boxes' \in Seq(Boxes)
  BY <1>1, <1>2, <1>3, ExceptSeq
<1>5. enabled' \in BOOLEAN
  BY <1>1, <1>3 DEF WTypes, Boxes
<1>. QED
  BY <1>1, <1>2, <1>3, <1>4, <1>5

LEMMA AnsweredKeeps ==
    ASSUME WTypes, Tally(boxes, enabled, isRecovering),
           NEW i \in DOMAIN boxes, NEW r \in {"yes", "no"}, Answered(i, r)
    PROVE  Tally(boxes', enabled', isRecovering)
<1>1. /\ DOMAIN boxes' = DOMAIN boxes /\ ~boxes'[i].disabled
      /\ \A j \in DOMAIN boxes : j # i => boxes'[j] = boxes[j]
      /\ enabled' = (enabled \/ boxes[i].disabled)
      /\ enabled \in BOOLEAN /\ isRecovering \in BOOLEAN
  BY AnsweredBox DEF Answered, Restores, WTypes
<1>2. CASE boxes[i].disabled
  BY <1>1, <1>2 DEF Tally
<1>3. CASE ~boxes[i].disabled
  BY <1>1, <1>3 DEF Tally
<1>. QED
  BY <1>2, <1>3

\* A handler whose box was answered goes on: the box is the last, and is taken away.
LEMMA ReturnedBox ==
    ASSUME WTypes, NEW kind, NEW r \in {"yes", "no"}, Returns(kind, r)
    PROVE  /\ Front(boxes) \in Seq(Boxes)
           /\ \A i \in DOMAIN Front(boxes) :
                i \in DOMAIN boxes /\ i < Len(boxes) /\ Front(boxes)[i] = boxes[i]
           /\ \A i \in DOMAIN boxes : i \in DOMAIN Front(boxes) \/ i = Len(boxes)
           /\ Len(boxes) \in DOMAIN boxes /\ Len(boxes) \in Nat \ {0}
           /\ Len(Front(boxes)) = Len(boxes) - 1
           /\ boxes[Len(boxes)].kind = kind /\ boxes[Len(boxes)].reply # "none"
<1>. DEFINE n == Len(boxes)
<1>1. /\ boxes \in Seq(Boxes) /\ boxes # <<>> /\ n \in Nat \ {0} /\ DOMAIN boxes = 1..n
      /\ Front(boxes) \in Seq(Boxes) /\ Len(Front(boxes)) = n - 1
      /\ DOMAIN Front(boxes) = 1..Len(Front(boxes))
      /\ \A i \in 1..n - 1 : Front(boxes)[i] = boxes[i]
      /\ Last(boxes) = boxes[n]
  BY FrontOfBoxes, LenProperties DEF WTypes, Returns
<1>2. boxes[n].kind = kind /\ boxes[n].reply # "none"
  BY <1>1 DEF Returns
<1>. HIDE DEF n
<1>. QED
  BY <1>1, <1>2 DEF n

LEMMA ReturnedKeeps ==
    ASSUME WTypes, Tally(boxes, enabled, isRecovering),
           NEW kind, NEW r \in {"yes", "no"}, Returns(kind, r)
    PROVE  Tally(Front(boxes), enabled, isRecovering)
<1>1. Len(boxes) \in DOMAIN boxes /\ ~boxes[Len(boxes)].disabled
  BY ReturnedBox DEF Tally
<1>2. \A i \in DOMAIN boxes : boxes[i].disabled => i \in DOMAIN Front(boxes)
  BY <1>1, ReturnedBox
<1>. QED
  BY <1>2, ReturnedBox DEF Tally

LEMMA OneOrTwo ==
    ASSUME NEW S, NEW a \in S, NEW b \in S
    PROVE  <<a>> \in Seq(S) /\ <<a, b>> \in Seq(S)
OBVIOUS

\* What the worker posts, what the window is sent.
Spoken == {"error", "restart", "enable"}
Mail == /\ inbox \in Seq(Messages)
        /\ worker \in Seq({"prepare", "copy", "boot", "repair"} \cup Spoken)
        /\ recovered \in BOOLEAN

LEMMA MailInit == Init => Mail
<1>. SUFFICES ASSUME Init PROVE Mail
  OBVIOUS
<1>1. inbox = <<>> /\ worker = <<>> /\ recovered = FALSE
  BY DEF Init
<1>. QED
  BY <1>1, EmptySeq DEF Mail

LEMMA PostedMail ==
    ASSUME Mail, NEW m \in Messages, Post(m)
    PROVE  inbox' \in Seq(Messages)
BY AppendProperties DEF Mail, Post

LEMMA MailStep == ASSUME Mail, [Next]_vars PROVE Mail'
<1>1. CASE UNCHANGED <<inbox, worker, recovered>>
  BY <1>1 DEF Mail
<1>2. CASE UNCHANGED <<inbox, recovered>> /\ worker' = <<"prepare">>
  BY <1>2 DEF Mail
<1>3. CASE ClickCreate \/ Confirm \/ Joined \/ Console
  BY <1>1, <1>2, <1>3 DEF ClickCreate, Confirm, Joined, Console, Begin, StartProcess, Spawn
<1>4. CASE WorkerPhase
  <2>1. worker' \in Seq({"prepare", "copy", "boot", "repair"} \cup Spoken)
    <3>1. worker' \in {<<"copy">>, <<"boot">>, <<"restart", "enable">>, <<"error", "enable">>,
                       <<"repair">>}
      BY <1>4 DEF WorkerPhase, Farewell
    <3>. QED
      BY <3>1, OneOrTwo DEF Spoken
  <2>. QED
    BY <1>4, <2>1 DEF Mail, WorkerPhase
<1>5. CASE WorkerPosts
  <2>1. worker # <<>> /\ worker[1] \in Messages /\ worker' = Tail(worker) /\ UNCHANGED recovered
    BY <1>5 DEF WorkerPosts, Working
  <2>2. inbox' \in Seq(Messages)
    BY <1>5, <2>1, PostedMail DEF WorkerPosts
  <2>. QED
    BY <2>1, <2>2, HeadTailProperties DEF Mail
<1>6. CASE RecoveryStep
  <2>1. inbox' \in Seq(Messages)
    BY <1>6, PostedMail DEF RecoveryStep, Mail, Messages
  <2>2. recovered' \in BOOLEAN /\ UNCHANGED worker
    BY <1>6 DEF RecoveryStep, Mail
  <2>. QED
    BY <2>1, <2>2 DEF Mail
<1>7. CASE Dispatch
  BY <1>7, HeadTailProperties DEF Dispatch, Mail, threads
<1>8. CASE Destroy
  BY <1>8 DEF Destroy, Mail, threads
<1>9. CASE ClickRecover \/ ClickClose \/ Answer \/ Unwind \/ RestartFails \/ Return \/ CancelAndClose
  BY <1>1, <1>9 DEF ClickRecover, ClickClose, Answer, Unwind, RestartFails, Return, CancelAndClose,
                    threads
<1>10. CASE Enter \/ LeaveLoop \/ DestroyStatics \/ ExitProcess \/ InitStep \/ Over \/ UNCHANGED vars
  BY <1>1, <1>10 DEF Enter, LeaveLoop, DestroyStatics, ExitProcess, InitStep, Over, threads, vars
<1>. QED
  BY <1>3, <1>4, <1>5, <1>6, <1>7, <1>8, <1>9, <1>10
     DEF Next, UserStep, UiStep, Handler, WorkerStep

\* The recovery's message is still to come or on its way exactly once, and the
\* flag is off by then; until the window has dealt with it isRecovering is on.
Remaining == {RecoverySteps, <<"bcd", "clear", "notify">>, <<"clear", "notify">>, <<"notify">>, <<>>}
News == {"recovered", "notRecovered"}

RInv ==
    /\ Mail /\ recovery \in Remaining
    /\ isRecovering \in BOOLEAN
    /\ recoveryInProgress <=> recovery \notin {<<"notify">>, <<>>}
    /\ Live => /\ recovery # <<>> => isRecovering
               /\ \A i \in DOMAIN inbox : inbox[i] \in News =>
                    /\ isRecovering /\ recovery = <<>>
                    /\ \A j \in DOMAIN inbox : inbox[j] \in News => i = j

LEMMA RInit == Init => RInv
<1>. SUFFICES ASSUME Init PROVE RInv
  OBVIOUS
<1>1. /\ inbox = <<>> /\ recovery = <<>> /\ isRecovering = FALSE /\ recoveryInProgress = FALSE
  BY DEF Init
<1>2. DOMAIN inbox = {}
  BY <1>1
<1>. QED
  BY <1>1, <1>2, MailInit, Zenon DEF RInv, Remaining

\* A step that neither sends the window any news nor takes them away.
LEMMA NoNews ==
    ASSUME RInv, Mail', UNCHANGED <<recovery, isRecovering, recoveryInProgress, inbox>>,
           Live' => Live
    PROVE  RInv'
BY DEF RInv

\* One step of the recovery less.
LEMMA Remainders ==
    ASSUME NEW r \in Remaining, r # <<>>
    PROVE  /\ Tail(r) \in Remaining
           /\ r[1] = "notify" <=> Tail(r) = <<>>
           /\ Tail(r) \notin {<<"notify">>, <<>>} <=> r # <<"notify">> /\ r[1] # "clear"
<1>1. CASE r = <<"volumes", "bcd", "clear", "notify">>
  <2>1. Tail(r) = <<"bcd", "clear", "notify">>
    BY <1>1
  <2>. QED
    BY <1>1, <2>1 DEF Remaining
<1>2. CASE r = <<"bcd", "clear", "notify">>
  <2>1. Tail(r) = <<"clear", "notify">>
    BY <1>2
  <2>. QED
    BY <1>2, <2>1 DEF Remaining
<1>3. CASE r = <<"clear", "notify">>
  <2>1. Tail(r) = <<"notify">>
    BY <1>3
  <2>. QED
    BY <1>3, <2>1 DEF Remaining
<1>4. CASE r = <<"notify">>
  <2>1. Tail(r) = <<>>
    BY <1>4
  <2>. QED
    BY <1>4, <2>1 DEF Remaining
<1>. QED
  BY <1>1, <1>2, <1>3, <1>4 DEF Remaining, RecoverySteps

LEMMA RecoveryStepR == ASSUME RInv, Mail', RecoveryStep PROVE RInv'
<1>1. /\ recovery \in Remaining /\ recovery # <<>> /\ recovery' = Tail(recovery)
      /\ UNCHANGED <<ui, isRecovering>> /\ (Live' <=> Live) /\ Mail
      /\ recoveryInProgress' = (recoveryInProgress /\ recovery[1] # "clear")
      /\ isRecovering \in BOOLEAN
      /\ recoveryInProgress <=> recovery \notin {<<"notify">>, <<>>}
  BY DEF RecoveryStep, RInv, user, Live
<1>2. /\ recovery' \in Remaining
      /\ recoveryInProgress' <=> recovery' \notin {<<"notify">>, <<>>}
      /\ recovery[1] = "notify" <=> recovery' = <<>>
  BY <1>1, Remainders
<1>3. ASSUME Live
      PROVE  /\ recovery' # <<>> => isRecovering'
             /\ \A i \in DOMAIN inbox' : inbox'[i] \in News =>
                    /\ isRecovering' /\ recovery' = <<>>
                    /\ \A j \in DOMAIN inbox' : inbox'[j] \in News => i = j
  <2>1. isRecovering /\ isRecovering' /\ \A i \in DOMAIN inbox : inbox[i] \notin News
    BY <1>1, <1>3 DEF RInv
  <2>2. CASE UNCHANGED inbox
    BY <2>1, <2>2
  <2>3. ASSUME NEW m \in News, inbox' = Append(inbox, m), recovery[1] = "notify"
        PROVE  <1>3!2
    <3>. DEFINE n == Len(inbox)
    <3>1. /\ n \in Nat /\ DOMAIN inbox = 1..n /\ DOMAIN inbox' = 1..n + 1
          /\ \A i \in 1..n : inbox'[i] = inbox[i]
      BY <1>1, <2>3, AppendProperties, LenProperties DEF Mail, News, Messages
    <3>. QED
      BY <1>2, <2>1, <2>3, <3>1
  <2>. QED
    BY <2>2, <2>3 DEF RecoveryStep, Post, News
<1>. QED
  BY <1>1, <1>2, <1>3 DEF RInv

LEMMA WorkerPostsR == ASSUME RInv, Mail', WorkerPosts PROVE RInv'
<1>1. /\ UNCHANGED <<ui, recovery, isRecovering, recoveryInProgress>> /\ (Live' <=> Live)
      /\ inbox \in Seq(Messages)
  BY DEF WorkerPosts, user, Live, RInv, Mail
<1>2. CASE UNCHANGED inbox
  BY <1>1, <1>2, NoNews
<1>3. CASE inbox' = Append(inbox, worker[1])
  <2>1. worker[1] \in Spoken
    <3>1. worker # <<>> /\ worker[1] \in {"prepare", "copy", "boot", "repair"} \cup Spoken
      BY ElementOfSeq, EmptySeq, LenProperties DEF RInv, Mail, WorkerPosts, Working
    <3>. QED
      BY <3>1 DEF WorkerPosts, Messages
  <2>. DEFINE n == Len(inbox)
  <2>2. /\ n \in Nat /\ DOMAIN inbox = 1..n /\ DOMAIN inbox' = 1..n + 1
        /\ \A i \in 1..n : inbox'[i] = inbox[i]
        /\ inbox'[n + 1] \notin News
    BY <1>1, <1>3, <2>1, AppendProperties, LenProperties DEF Spoken, Messages, News
  <2>3. \A i \in DOMAIN inbox' : inbox'[i] \in News => i \in DOMAIN inbox /\ inbox[i] \in News
    BY <2>2
  <2>. QED
    BY <1>1, <2>3 DEF RInv
<1>. QED
  BY <1>2, <1>3 DEF WorkerPosts, Post

LEMMA DispatchR == ASSUME RInv, Mail', Dispatch PROVE RInv'
<1>1. /\ Live /\ Live' /\ UNCHANGED <<recovery, recoveryInProgress>>
      /\ inbox \in Seq(Messages) /\ inbox # <<>> /\ inbox' = Tail(inbox)
  BY DEF Dispatch, Pumping, Live, threads, RInv, Mail
<1>. DEFINE n == Len(inbox)
<1>2. /\ n \in Nat \ {0} /\ DOMAIN inbox = 1..n /\ DOMAIN inbox' = 1..n - 1
      /\ \A i \in 1..n - 1 : inbox'[i] = inbox[i + 1]
      /\ inbox[1] \in Messages
  BY <1>1, HeadTailProperties, LenProperties, EmptySeq, ElementOfSeq
<1>. HIDE DEF n
<1>3. \A i \in DOMAIN inbox' : i + 1 \in DOMAIN inbox /\ i + 1 # 1 /\ inbox'[i] = inbox[i + 1]
  BY <1>2
<1>4. CASE UNCHANGED isRecovering
  <2>1. \A i, j \in DOMAIN inbox' : inbox'[i] \in News /\ inbox'[j] \in News => i = j
    BY <1>1, <1>2, <1>3 DEF RInv
  <2>. QED
    BY <1>1, <1>3, <1>4, <2>1 DEF RInv
<1>5. CASE inbox[1] \in News /\ isRecovering' = FALSE
  <2>1. 1 \in DOMAIN inbox
    BY <1>2
  <2>2. recovery = <<>> /\ \A i \in DOMAIN inbox' : inbox'[i] \notin News
    BY <1>1, <1>3, <1>5, <2>1 DEF RInv
  <2>. QED
    BY <1>1, <1>5, <2>2 DEF RInv
<1>. QED
  BY <1>2, <1>4, <1>5
     DEF Dispatch, HandleEnable, HandleBox, HandleRecovered, Messages, News

LEMMA ClickRecoverR == ASSUME RInv, Mail', ClickRecover PROVE RInv'
<1>1. Live /\ Live' /\ ~isRecovering /\ UNCHANGED inbox
  BY DEF ClickRecover, Clickable, Pumping, Live
<1>2. recovery = <<>> /\ (\A i \in DOMAIN inbox : inbox[i] \notin News)
  BY <1>1 DEF RInv
<1>3. ~recoveryInProgress
  BY <1>2 DEF RInv
<1>4. /\ recoveryInProgress' = TRUE /\ recovery' = RecoverySteps /\ isRecovering' = TRUE
  BY <1>3 DEF ClickRecover
<1>5. RecoverySteps \notin {<<"notify">>, <<>>}
  BY DEF RecoverySteps
<1>. QED
  BY <1>1, <1>2, <1>4, <1>5 DEF RInv, Remaining

LEMMA NextR == ASSUME RInv, [Next]_vars PROVE RInv'
<1>1. Mail'
  BY MailStep DEF RInv
<1>2. CASE ClickCreate \/ Confirm \/ Joined \/ Console
  BY <1>1, <1>2, NoNews
     DEF ClickCreate, Confirm, Joined, Console, Begin, StartProcess, Spawn, GoOn, Live, user,
         Clickable, Pumping, Returns
<1>3. CASE ClickClose \/ Answer \/ Unwind \/ RestartFails \/ Return \/ CancelAndClose
  BY <1>1, <1>3, NoNews
     DEF ClickClose, Answer, Unwind, RestartFails, Return, CancelAndClose, threads, Live
<1>4. CASE Enter \/ LeaveLoop \/ DestroyStatics \/ ExitProcess \/ InitStep \/ Over \/ WorkerPhase
  BY <1>1, <1>4, NoNews
     DEF Enter, LeaveLoop, DestroyStatics, ExitProcess, InitStep, Over, WorkerPhase, user, threads,
         Live, vars
<1>5. CASE Destroy
  BY <1>1, <1>5 DEF Destroy, RInv, Live, user, threads
<1>6. CASE UNCHANGED vars
  BY <1>1, <1>6, NoNews DEF vars, Live
<1>. QED
  BY <1>1, <1>2, <1>3, <1>4, <1>5, <1>6, ClickRecoverR, DispatchR, WorkerPostsR, RecoveryStepR
     DEF Next, UserStep, UiStep, Handler, WorkerStep

LEMMA UnchangedKeeps ==
    ASSUME WInv, UNCHANGED <<boxes, enabled, isRecovering, quit>>, Live' => Live
    PROVE  WInv'
BY DEF WInv, WTypes

\* The program that ends has no boxes that matter.
LEMMA EndingKeeps ==
    ASSUME WInv, boxes' \in Seq(Boxes), UNCHANGED <<enabled, isRecovering, quit>>, ~Live'
    PROVE  WInv'
BY DEF WInv, WTypes

\* A handler that leaves the right boxes open.
LEMMA BoxesKeep ==
    ASSUME WInv, boxes' \in Seq(Boxes), enabled' \in BOOLEAN, UNCHANGED <<isRecovering, quit>>,
           Tally(boxes', enabled', isRecovering)
    PROVE  WInv'
BY DEF WInv, WTypes

LEMMA BeginLive == ASSUME Begin, Live PROVE Live'
BY DEF Begin, StartProcess, Spawn, GoOn, Live

LEMMA ClickCreateKeeps == ASSUME WInv, ClickCreate PROVE WInv'
<1>1. /\ Live /\ ~quit /\ UNCHANGED <<isRecovering, quit>>
  BY DEF ClickCreate, Clickable, Pumping, Live, process
<1>2. CASE Open("notice")
  BY <1>1, <1>2, OpenKeeps, BoxesKeep DEF Ownerless
<1>3. CASE Open("confirm1")
  BY <1>1, <1>3, OpenKeeps, BoxesKeep DEF Ownerless
<1>4. CASE Begin /\ UNCHANGED <<boxes, enabled>>
  BY <1>1, <1>4, UnchangedKeeps
<1>. QED
  BY <1>2, <1>3, <1>4 DEF ClickCreate

\* A handler that goes on opens the next box, or none.
LEMMA HandlerKeeps ==
    ASSUME WInv, Live, NEW kind, NEW r \in {"yes", "no"}, Returns(kind, r),
           UNCHANGED <<isRecovering, quit>>,
           \/ boxes' = Front(boxes) /\ UNCHANGED enabled
           \/ \E next \in Ownerless \cup Owned : Opened(Front(boxes), next)
    PROVE  WInv'
<1>1. /\ WTypes /\ Front(boxes) \in Seq(Boxes) /\ enabled \in BOOLEAN /\ isRecovering \in BOOLEAN
      /\ ~quit => Tally(Front(boxes), enabled, isRecovering)
  BY ReturnedBox, ReturnedKeeps DEF WInv, WTypes
<1>2. CASE boxes' = Front(boxes) /\ UNCHANGED enabled
  BY <1>1, <1>2 DEF WInv, WTypes
<1>3. ASSUME NEW next \in Ownerless \cup Owned, Opened(Front(boxes), next) PROVE WInv'
  <2>1. boxes' \in Seq(Boxes) /\ enabled' \in BOOLEAN
    BY <1>1, <1>3, OpenedTypes
  <2>2. ~quit => Tally(boxes', enabled', isRecovering)
    BY <1>1, <1>3, OpenedKeeps
  <2>. QED
    BY <2>1, <2>2 DEF WInv, WTypes
<1>. QED
  BY <1>2, <1>3

LEMMA ConfirmKeeps == ASSUME WInv, Confirm PROVE WInv'
<1>1. UNCHANGED <<isRecovering, quit>>
  BY DEF Confirm, process
<1>2. CASE Returns("confirm1", "yes") /\ Opened(Front(boxes), "confirm2")
  BY <1>1, <1>2, HandlerKeeps DEF Ownerless, Live, Returns
<1>3. CASE Returns("confirm2", "yes") /\ boxes' = Front(boxes) /\ UNCHANGED enabled
  BY <1>1, <1>3, HandlerKeeps DEF Live, Returns
<1>. QED
  BY <1>2, <1>3 DEF Confirm

LEMMA ClickRecoverKeeps == ASSUME WInv, ClickRecover PROVE WInv'
<1>1. /\ Live /\ ~quit /\ UNCHANGED <<boxes, quit>> /\ enabled /\ ~isRecovering
  BY DEF ClickRecover, Clickable, Pumping, Live, process
<1>2. Tally(boxes, enabled, isRecovering) /\ WTypes
  BY <1>1 DEF WInv
<1>3. CASE UNCHANGED <<isRecovering, enabled>>
  BY <1>1, <1>2, <1>3 DEF WInv, WTypes
<1>4. CASE isRecovering' = TRUE /\ enabled' = FALSE
  BY <1>1, <1>2, <1>4 DEF WInv, WTypes, Tally
<1>. QED
  BY <1>3, <1>4 DEF ClickRecover

LEMMA DispatchKeeps == ASSUME WInv, RInv, Dispatch PROVE WInv'
<1>1. Live /\ Live' /\ UNCHANGED ui
  BY DEF Dispatch, Pumping, Live
<1>6. 1 \in DOMAIN inbox /\ inbox[1] \in Messages
  BY ElementOfSeq, EmptySeq, LenProperties DEF Dispatch, Mail, RInv
<1>2. CASE HandleEnable
  BY <1>1, <1>2, UnchangedKeeps DEF HandleEnable
<1>3. ASSUME NEW kind \in {"error", "restart"}, HandleBox(kind) PROVE WInv'
  <2>1. UNCHANGED <<isRecovering, quit>> /\ Open(kind) /\ kind \in Owned
    BY <1>3 DEF HandleBox, Owned
  <2>2. CASE ~quit
    BY <1>1, <2>1, <2>2, OpenKeeps, BoxesKeep
  <2>3. CASE quit
    <3>1. boxes' \in Seq(Boxes) /\ enabled' \in BOOLEAN
      BY <2>1, OpenedTypes DEF Open, WInv, WTypes
    <3>. QED
      BY <2>1, <2>3, <3>1 DEF WInv, WTypes
  <2>. QED
    BY <2>2, <2>3
<1>4. CASE HandleRecovered(TRUE)
  BY <1>4 DEF HandleRecovered, WInv, WTypes
<1>5. CASE inbox[1] = "notRecovered" /\ HandleRecovered(FALSE)
  <2>1. UNCHANGED quit
    BY <1>5 DEF HandleRecovered
  <2>. DEFINE b == [kind |-> "recoverFailed", disabled |-> TRUE, reply |-> "none"]
              n == Len(boxes)
  <2>2. /\ b \in Boxes /\ b.disabled /\ b.reply = "none"
        /\ boxes' = Append(boxes, b) /\ enabled' = FALSE /\ isRecovering' = FALSE
    BY <1>5 DEF HandleRecovered, Boxes, Owned
  <2>. HIDE DEF b
  <2>3. boxes \in Seq(Boxes)
    BY DEF WInv, WTypes
  <2>4. /\ Append(boxes, b) \in Seq(Boxes) /\ n \in Nat
        /\ DOMAIN boxes = 1..n /\ DOMAIN Append(boxes, b) = 1..n + 1
        /\ \A i \in 1..n : Append(boxes, b)[i] = boxes[i]
        /\ Append(boxes, b)[n + 1] = b
    BY ONLY <2>2, <2>3, AppendedBox
  <2>. HIDE DEF n
  <2>5. Tally(boxes, enabled, isRecovering) => Tally(boxes', enabled', isRecovering')
    <3>1. isRecovering
      BY <1>1, <1>5, <1>6 DEF RInv, News
    <3>. QED
      BY <2>2, <2>4, <3>1 DEF Tally
  <2>. QED
    BY <1>1, <2>1, <2>2, <2>4, <2>5 DEF WInv, WTypes
<1>. QED
  BY <1>2, <1>3, <1>4, <1>5, <1>6 DEF Dispatch, Messages

LEMMA AnswersKeep == ASSUME WInv, Answer \/ Unwind PROVE WInv'
<1>1. Live /\ UNCHANGED <<isRecovering, quit>> /\ WTypes
  BY DEF Answer, Unwind, Live, process, WInv
<1>2. PICK i \in DOMAIN boxes, r \in {"yes", "no"} : Answered(i, r)
  <2>1. boxes # <<>> => Len(boxes) \in DOMAIN boxes
    BY <1>1, FrontOfBoxes, LenProperties DEF WTypes
  <2>. QED
    BY <2>1 DEF Answer, Unwind
<1>3. boxes' \in Seq(Boxes) /\ enabled' \in BOOLEAN
  BY <1>1, <1>2, AnsweredBox
<1>4. ~quit => Tally(boxes', enabled', isRecovering)
  BY <1>1, <1>2, AnsweredKeeps DEF WInv
<1>. QED
  BY <1>1, <1>3, <1>4 DEF WInv, WTypes

LEMMA HandlersKeep == ASSUME WInv, RestartFails \/ Return \/ CancelAndClose PROVE WInv'
<1>1. Live /\ UNCHANGED <<isRecovering, quit>>
  BY DEF RestartFails, Return, CancelAndClose, Returns, Live, process
<1>2. CASE RestartFails
  BY <1>1, <1>2, HandlerKeeps DEF RestartFails, Owned
<1>3. CASE Return
  BY <1>1, <1>3, HandlerKeeps DEF Return
<1>4. CASE CancelAndClose
  BY <1>1, <1>4, EndingKeeps, EmptySeq DEF CancelAndClose, Live
<1>. QED
  BY <1>2, <1>3, <1>4

LEMMA ClickCloseKeeps == ASSUME WInv, ClickClose PROVE WInv'
<1>1. /\ Live /\ ~quit /\ UNCHANGED <<isRecovering, quit>>
  BY DEF ClickClose, Clickable, Pumping, Live, process
<1>2. CASE Open("close")
  BY <1>1, <1>2, OpenKeeps, BoxesKeep DEF Owned
<1>3. CASE ui' = "closing" /\ boxes' = <<>> /\ UNCHANGED enabled
  BY <1>1, <1>3, EndingKeeps, EmptySeq DEF Live
<1>. QED
  BY <1>2, <1>3 DEF ClickClose

LEMMA NextW == ASSUME WInv, RInv, [Next]_vars PROVE WInv'
<1>1. CASE Joined \/ Console \/ Enter \/ Destroy \/ DestroyStatics \/ ExitProcess
  BY <1>1, UnchangedKeeps
     DEF Joined, Console, Enter, Destroy, DestroyStatics, ExitProcess, Spawn, StartProcess, GoOn,
         Live, user, process
<1>2. CASE LeaveLoop
  BY <1>2, UnchangedKeeps DEF LeaveLoop, Live, process
<1>3. CASE WorkerPhase \/ WorkerPosts \/ RecoveryStep \/ InitStep \/ Over \/ UNCHANGED vars
  BY <1>3, UnchangedKeeps
     DEF WorkerPhase, WorkerPosts, RecoveryStep, InitStep, Over, Live, user, process, vars
<1>. QED
  BY <1>1, <1>2, <1>3, ClickCreateKeeps, ConfirmKeeps, ClickRecoverKeeps, DispatchKeeps,
     AnswersKeep, HandlersKeep, ClickCloseKeeps
     DEF Next, UserStep, UiStep, Handler, WorkerStep

LEMMA WInit == Init => WInv
<1>. SUFFICES ASSUME Init PROVE WInv
  OBVIOUS
<1>1. boxes = <<>> /\ enabled = TRUE /\ isRecovering = FALSE /\ quit = FALSE
  BY DEF Init
<1>2. DOMAIN boxes = {}
  BY <1>1
<1>. QED
  BY <1>1, <1>2, EmptySeq DEF WInv, WTypes, Tally

\* HandleCommand lets a recovery in by isRecovering alone, and recoverSpace, which
\* looks at recoveryInProgress, never refuses it: the thread clears the flag before
\* it tells the window, whatever else the window, the worker and the user do.
THEOREM RecoverIsNotRefused == Spec => []RecoverNotRefused
<1>1. RInv => RecoverNotRefused
  BY DEF RInv, RecoverNotRefused, Live
<1>. QED
  BY RInit, NextR, <1>1, PTL DEF Spec

\* In every environment and with any number of boxes and messages, the main window
\* takes input exactly when no recovery runs and no open box has disabled it:
\* ShowRecoverDialog, HideRecoverDialog and MessageBoxW never undo each other's work.
THEOREM WindowIsEnabledRight == Spec => []WindowFollows
<1>1. WInv => WindowFollows
  BY DEF WInv, WindowFollows, Tally, Live
<1>. QED
  BY RInit, NextR, WInit, NextW, <1>1, PTL DEF Spec

\* The flags and places that no other invariant here is about.
TInv == /\ ui \in {"pump", "join", "console", "enter", "closing", "exit", "gone"}
        /\ init \in {"probe", "restore", "done"}
        /\ {isProcessing, made, recoveryInProgress, cancel, managers, launched, printed}
              \subseteq BOOLEAN

LEMMA InitT == Init => TInv
BY DEF Init, TInv

LEMMA NextT == ASSUME TInv, RInv, [Next]_vars PROVE TInv'
<1>. USE DEF TInv
<1>1. CASE ClickCreate
  BY <1>1 DEF ClickCreate, Begin, StartProcess, Spawn, GoOn, process
<1>2. CASE Confirm
  BY <1>2 DEF Confirm, Begin, StartProcess, Spawn, GoOn, process
<1>3. CASE Joined \/ Console \/ Enter
  BY <1>3 DEF Joined, Console, Enter, StartProcess, Spawn, GoOn, user, threads, process
<1>4. CASE ClickRecover
  BY <1>4 DEF ClickRecover, process
<1>5. CASE WorkerPhase
  <2>1. made' \in BOOLEAN
    BY <1>5 DEF WorkerPhase
  <2>. QED
    BY <1>5, <2>1 DEF WorkerPhase, user, process
<1>6. CASE WorkerPosts
  BY <1>6 DEF WorkerPosts, user, process
<1>7. CASE RecoveryStep
  <2>1. made' \in BOOLEAN /\ recoveryInProgress' \in BOOLEAN
    BY <1>7 DEF RecoveryStep
  <2>. QED
    BY <1>7, <2>1 DEF RecoveryStep, user, process
<1>8. CASE InitStep
  BY <1>8 DEF InitStep, user, process
<1>9. CASE Dispatch
  <2>1. inbox[1] \in Messages
    BY <1>9, ElementOfSeq, EmptySeq, LenProperties DEF Dispatch, Mail, RInv
  <2>2. isProcessing' \in BOOLEAN /\ launched' \in BOOLEAN
    BY <1>9, <2>1 DEF Dispatch, HandleEnable, HandleBox, HandleRecovered, Messages
  <2>. QED
    BY <1>9, <2>2 DEF Dispatch, threads
<1>10. CASE Answer \/ Unwind \/ RestartFails \/ Return \/ CancelAndClose \/ ClickClose
  BY <1>10 DEF Answer, Unwind, RestartFails, Return, CancelAndClose, ClickClose, threads, process
<1>11. CASE Destroy \/ LeaveLoop \/ DestroyStatics \/ ExitProcess \/ Over \/ UNCHANGED vars
  BY <1>11 DEF Destroy, LeaveLoop, DestroyStatics, ExitProcess, Over, user, threads, process, vars
<1>. QED
  BY <1>1, <1>2, <1>3, <1>4, <1>5, <1>6, <1>7, <1>8, <1>9, <1>10, <1>11
     DEF Next, UserStep, UiStep, Handler, WorkerStep

LEMMA RangeOfPhases == Range(Phases) = {"prepare", "copy", "boot"}
<1>1. DOMAIN Phases = {1, 2, 3}
  BY DEF Phases
<1>2. Range(Phases) = {Phases[1], Phases[2], Phases[3]}
  BY <1>1 DEF Range
<1>. QED
  BY <1>2 DEF Phases

LEMMA RangeOfSteps == Range(RecoverySteps) = {"volumes", "bcd", "clear", "notify"}
<1>1. DOMAIN RecoverySteps = {1, 2, 3, 4}
  BY DEF RecoverySteps
<1>2. Range(RecoverySteps) =
        {RecoverySteps[1], RecoverySteps[2], RecoverySteps[3], RecoverySteps[4]}
  BY <1>1 DEF Range
<1>. QED
  BY <1>2 DEF RecoverySteps

LEMMA UpToFour ==
    ASSUME NEW S, NEW a \in S, NEW b \in S, NEW c \in S, NEW d \in S
    PROVE  {<<a, b, c, d>>, <<b, c, d>>, <<c, d>>, <<d>>, <<>>} \subseteq Seq(S)
OBVIOUS

LEMMA TypesFollow == ASSUME TInv, WInv, RInv PROVE TypeOK
<1>1. worker \in Seq(Range(Phases) \cup {"repair"} \cup Messages)
  BY SeqMonotonic, RangeOfPhases DEF RInv, Mail, Spoken, Messages
<1>2. recovery \in Seq(Range(RecoverySteps))
  <2>1. {"volumes", "bcd", "clear", "notify"} = Range(RecoverySteps)
    BY RangeOfSteps
  <2>. QED
    BY <2>1, UpToFour DEF RInv, Remaining, RecoverySteps
<1>. QED
  BY <1>1, <1>2 DEF TInv, WInv, WTypes, RInv, Mail, TypeOK, Boxes

\* What the worker is doing or has left to say.
WorkerValues == {<<>>, <<"prepare">>, <<"copy">>, <<"boot">>, <<"repair">>,
                 <<"restart", "enable">>, <<"error", "enable">>, <<"enable">>}

\* A worker that posts has "enable" to say last.
LEMMA LastWord ==
    ASSUME worker \in WorkerValues, WorkerPosts
    PROVE  /\ Working /\ worker[1] \in Spoken /\ worker' \in WorkerValues
           /\ worker[1] = "enable" <=> ~Working'
<1>1. worker \in {<<"restart", "enable">>, <<"error", "enable">>, <<"enable">>}
  BY DEF WorkerPosts, Working, WorkerValues, Messages
<1>2. CASE worker = <<"enable">>
  <2>1. Tail(worker) = <<>>
    BY <1>2
  <2>. QED
    BY <1>2, <2>1 DEF WorkerPosts, Working, WorkerValues, Spoken
<1>3. ASSUME NEW m \in {"restart", "error"}, worker = <<m, "enable">>
      PROVE  /\ Working /\ worker[1] \in Spoken /\ worker' \in WorkerValues
             /\ worker[1] = "enable" <=> ~Working'
  <2>1. Tail(worker) = <<"enable">> /\ worker[1] = m /\ <<"enable">> # <<>>
    BY <1>3
  <2>. QED
    BY <1>3, <2>1 DEF WorkerPosts, Working, WorkerValues, Spoken
<1>. QED
  BY <1>1, <1>2, <1>3

LEMMA NextPhase ==
    ASSUME WorkerPhase
    PROVE  worker' \in WorkerValues /\ Working /\ Working'
<1>1. worker' \in {<<"copy">>, <<"boot">>, <<"restart", "enable">>, <<"error", "enable">>,
                   <<"repair">>}
  BY DEF WorkerPhase, Farewell
<1>. QED
  BY <1>1 DEF WorkerValues, Working, WorkerPhase

LEMMA WorkerStepV == ASSUME worker \in WorkerValues, [Next]_vars PROVE worker' \in WorkerValues
<1>1. <<"prepare">> \in WorkerValues
  BY DEF WorkerValues
<1>2. CASE ClickCreate \/ Confirm \/ Joined \/ Console
  BY <1>1, <1>2 DEF ClickCreate, Confirm, Joined, Console, Begin, StartProcess, Spawn
<1>3. CASE WorkerStep
  BY <1>3, LastWord, NextPhase DEF WorkerStep
<1>4. CASE ClickRecover \/ ClickClose \/ Answer \/ Unwind \/ RestartFails \/ Return
             \/ CancelAndClose \/ RecoveryStep \/ InitStep
  BY <1>4 DEF ClickRecover, ClickClose, Answer, Unwind, RestartFails, Return, CancelAndClose,
              threads, RecoveryStep, InitStep
<1>5. CASE Dispatch \/ Enter \/ Destroy \/ LeaveLoop \/ DestroyStatics \/ ExitProcess \/ Over
             \/ UNCHANGED vars
  BY <1>5 DEF Dispatch, Enter, Destroy, LeaveLoop, DestroyStatics, ExitProcess, Over, threads, vars
<1>. QED
  BY <1>2, <1>3, <1>4, <1>5 DEF Next, UserStep, UiStep, Handler

\* The inbox as a queue.
LEMMA MessagePosted ==
    ASSUME inbox \in Seq(Messages), NEW m \in Messages, inbox' = Append(inbox, m)
    PROVE  /\ Len(inbox) \in Nat /\ DOMAIN inbox = 1..Len(inbox)
           /\ DOMAIN inbox' = 1..Len(inbox) + 1
           /\ \A i \in 1..Len(inbox) : inbox'[i] = inbox[i]
           /\ inbox'[Len(inbox) + 1] = m
BY AppendProperties, LenProperties

LEMMA MessageTaken ==
    ASSUME inbox \in Seq(Messages), Dispatch
    PROVE  /\ 1 \in DOMAIN inbox /\ inbox[1] \in Messages
           /\ \A i \in DOMAIN inbox' : i + 1 \in DOMAIN inbox /\ inbox'[i] = inbox[i + 1]
           /\ \A i \in DOMAIN inbox : i = 1 \/ (i - 1 \in DOMAIN inbox' /\ inbox'[i - 1] = inbox[i])
<1>1. /\ Len(inbox) \in Nat \ {0} /\ DOMAIN inbox = 1..Len(inbox)
      /\ inbox' = Tail(inbox) /\ inbox' \in Seq(Messages) /\ Len(inbox') = Len(inbox) - 1
      /\ DOMAIN inbox' = 1..Len(inbox')
      /\ \A i \in 1..Len(inbox') : inbox'[i] = inbox[i + 1]
  BY HeadTailProperties, LenProperties, EmptySeq DEF Dispatch
<1>2. inbox[1] \in Messages
  BY <1>1, ElementOfSeq
<1>. DEFINE n == Len(inbox)
<1>3. n \in Nat \ {0} /\ DOMAIN inbox = 1..n /\ DOMAIN inbox' = 1..n - 1
      /\ \A i \in 1..n - 1 : inbox'[i] = inbox[i + 1]
  BY <1>1
<1>. HIDE DEF n
<1>. QED
  BY <1>2, <1>3

\* isProcessing is on, and somebody will turn it off.
EndInv ==
    /\ worker \in WorkerValues
    /\ (ui = "pump" /\ isProcessing) =>
         (Working \/ \E i \in DOMAIN inbox : inbox[i] = "enable")

LEMMA InitEnd == Init => EndInv
BY DEF Init, EndInv, WorkerValues

LEMMA NextEnd ==
    ASSUME EndInv, RInv, [Next]_vars, "spaceLost" \notin Env
    PROVE  EndInv'
<1>1. worker' \in WorkerValues /\ inbox \in Seq(Messages)
  BY WorkerStepV DEF EndInv, RInv, Mail
<1>2. CASE UNCHANGED <<worker, inbox, isProcessing>> /\ (ui' = "pump" => ui = "pump")
  BY <1>1, <1>2 DEF EndInv, Working
<1>3. CASE Working' \/ ui' # "pump"
  BY <1>1, <1>3 DEF EndInv
<1>4. CASE ClickCreate \/ Confirm
  <2>1. CASE Begin
    <3>1. ui = "pump"
      BY <1>4 DEF ClickCreate, Confirm, Clickable, Pumping, Returns
    <3>. QED
      BY <1>3, <2>1, <3>1 DEF Begin, StartProcess, Spawn, Working
  <2>2. CASE UNCHANGED <<worker, isProcessing, inbox, ui>>
    BY <1>2, <2>2
  <2>. QED
    BY <1>4, <2>1, <2>2 DEF ClickCreate, Confirm
<1>5. CASE Joined \/ Console
  BY <1>3, <1>5 DEF Joined, Console, StartProcess, Spawn, GoOn, Working
<1>6. CASE WorkerPhase
  BY <1>3, <1>6, NextPhase
<1>7. CASE WorkerPosts
  <2>1. SUFFICES ASSUME ~Working', ui' = "pump" PROVE EndInv'
    BY <1>3
  <2>2. worker[1] = "enable" /\ inbox' = Append(inbox, "enable")
    BY <1>7, <2>1, LastWord DEF EndInv, WorkerPosts, Post
  <2>3. Len(inbox) + 1 \in DOMAIN inbox' /\ inbox'[Len(inbox) + 1] = "enable"
    BY <1>1, <2>2, MessagePosted DEF Messages
  <2>. QED
    BY <1>1, <2>3 DEF EndInv
<1>8. CASE RecoveryStep
  <2>1. UNCHANGED <<ui, worker, isProcessing>>
    BY <1>8 DEF RecoveryStep, user
  <2>2. \A i \in DOMAIN inbox : i \in DOMAIN inbox' /\ inbox'[i] = inbox[i]
    <3>1. ASSUME NEW m \in News, inbox' = Append(inbox, m)
          PROVE  <2>2
      BY <1>1, <3>1, MessagePosted DEF News, Messages
    <3>. QED
      BY <1>8, <3>1 DEF RecoveryStep, Post, News
  <2>. QED
    BY <1>1, <2>1, <2>2 DEF EndInv, Working
<1>9. CASE Dispatch
  <2>1. UNCHANGED <<ui, worker>> /\ inbox[1] \in Messages
    BY <1>1, <1>9, MessageTaken DEF Dispatch, threads
  <2>2. CASE inbox[1] = "enable"
    BY <1>1, <1>9, <2>2 DEF Dispatch, HandleEnable, EndInv
  <2>3. CASE inbox[1] # "enable"
    <3>1. UNCHANGED isProcessing
      BY <1>9, <2>1, <2>3 DEF Dispatch, HandleBox, HandleRecovered, Messages
    <3>2. \A i \in DOMAIN inbox : inbox[i] = "enable" => \E j \in DOMAIN inbox' : inbox'[j] = "enable"
      BY <1>1, <1>9, <2>3, MessageTaken
    <3>. QED
      BY <1>1, <2>1, <3>1, <3>2 DEF EndInv, Working
  <2>. QED
    BY <2>2, <2>3
<1>10. CASE ClickRecover \/ Answer \/ Unwind \/ RestartFails \/ Return \/ CancelAndClose
             \/ ClickClose \/ InitStep
  BY <1>2, <1>10 DEF ClickRecover, Answer, Unwind, RestartFails, Return, CancelAndClose,
                     ClickClose, InitStep, user, threads
<1>11. CASE Enter \/ Destroy \/ LeaveLoop \/ DestroyStatics \/ ExitProcess \/ Over
             \/ UNCHANGED vars
  BY <1>2, <1>3, <1>11 DEF Enter, Destroy, LeaveLoop, DestroyStatics, ExitProcess, Over, user,
                           threads, vars
<1>. QED
  BY <1>4, <1>5, <1>6, <1>7, <1>8, <1>9, <1>10, <1>11
     DEF Next, UserStep, UiStep, Handler, WorkerStep

\* Every flag, box, message and thread is what the code can make it, in every
\* environment: MainWindow's and ProcessController's members, and the messages
\* that HandleCommand knows (its CASE has no other).
THEOREM ShellTypes == Spec => []TypeOK
BY InitT, NextT, RInit, NextR, WInit, NextW, TypesFollow, PTL DEF Spec

\* Whatever the user clicks, behind a box or during a recovery, the create button
\* that startProcess has disabled comes back: as long as isProcessing is on, the
\* worker runs or its WM_ENABLE_BUTTON waits in the queue.  startProcess that gives
\* up at its own space check, which the environment then excludes, is the exception.
THEOREM ButtonComesBack ==
    ASSUME "spaceLost" \notin Env PROVE Spec => []BusyHasAnEnd
<1>1. EndInv => BusyHasAnEnd
  <2>1. (\E i \in DOMAIN inbox : inbox[i] = "enable") => "enable" \in Range(inbox)
    BY DEF Range
  <2>. QED
    BY <2>1 DEF EndInv, BusyHasAnEnd
<1>2. EndInv /\ RInv /\ [Next]_vars => EndInv'
  BY NextEnd
<1>. QED
  BY InitEnd, RInit, NextR, <1>1, <1>2, PTL DEF Spec

Asks(b) == b.kind \in {"confirm1", "confirm2"}

\* Without clicks behind a box nothing joins a worker: a prompt is the first box and
\* comes before the process, and "enable" is in the queue once, after the worker.
BusyInv ==
    /\ worker \in WorkerValues
    /\ ui # "join"
    /\ ui = "console" => ~Working
    /\ ui = "pump" =>
         /\ Working => isProcessing
         /\ \A i \in DOMAIN inbox : inbox[i] = "enable" =>
              /\ isProcessing /\ ~Working
              /\ \A j \in DOMAIN inbox : inbox[j] = "enable" => i = j
         /\ \A i \in DOMAIN boxes : Asks(boxes[i]) => i = 1 /\ ~isProcessing

LEMMA InitBusy == Init => BusyInv
<1>. SUFFICES ASSUME Init PROVE BusyInv
  OBVIOUS
<1>1. ~Working /\ DOMAIN boxes = {} /\ DOMAIN inbox = {}
  BY DEF Init, Working
<1>. QED
  BY <1>1 DEF Init, BusyInv, WorkerValues

\* Steps that leave the queue, the flag and the worker alone and open no prompt.
LEMMA QuietBusy ==
    ASSUME BusyInv, UNCHANGED <<worker, isProcessing, inbox, ui>>,
           \A i \in DOMAIN boxes' : Asks(boxes'[i]) =>
              i \in DOMAIN boxes /\ Asks(boxes[i])
    PROVE  BusyInv'
BY DEF BusyInv, Working

\* Of the boxes that a handler leaves open only those it found can be prompts,
\* unless it opens one.
LEMMA OpenedAsks ==
    ASSUME WTypes, NEW bs \in Seq(Boxes), NEW kind \in Ownerless \cup Owned, Opened(bs, kind)
    PROVE  /\ \A i \in DOMAIN boxes' :
                \/ i \in DOMAIN bs /\ boxes'[i] = bs[i]
                \/ i = Len(bs) + 1 /\ boxes'[i] = Box(kind)
           /\ Box(kind).kind = kind
<1>. DEFINE b == Box(kind)
<1>1. b \in Boxes /\ b.kind = kind /\ boxes' = Append(bs, b)
  BY BoxTypes DEF WTypes, Opened
<1>. HIDE DEF b
<1>2. \A i \in DOMAIN boxes' :
          \/ i \in DOMAIN bs /\ boxes'[i] = bs[i]
          \/ i = Len(bs) + 1 /\ boxes'[i] = b
  BY <1>1, AppendedBox
<1>. QED
  BY <1>1, <1>2 DEF b

LEMMA OpenAsks ==
    ASSUME WInv, NEW kind \in Owned, Open(kind)
    PROVE  \A i \in DOMAIN boxes' : Asks(boxes'[i]) => i \in DOMAIN boxes /\ Asks(boxes[i])
BY OpenedAsks DEF WInv, WTypes, Open, Asks, Owned

LEMMA AnsweredAsks ==
    ASSUME WInv, Answer \/ Unwind
    PROVE  \A i \in DOMAIN boxes' : Asks(boxes'[i]) => i \in DOMAIN boxes /\ Asks(boxes[i])
<1>1. WTypes
  BY DEF WInv
<1>2. PICK i \in DOMAIN boxes, r \in {"yes", "no"} : Answered(i, r)
  <2>1. boxes # <<>> => Len(boxes) \in DOMAIN boxes
    BY <1>1, FrontOfBoxes, LenProperties DEF WTypes
  <2>. QED
    BY <2>1 DEF Answer, Unwind
<1>. QED
  BY <1>1, <1>2, AnsweredBox DEF Asks

\* A handler whose box was answered, and that opens no prompt.
LEMMA ReturnedAsks ==
    ASSUME WInv, NEW kind, NEW r \in {"yes", "no"}, Returns(kind, r),
           \/ boxes' = Front(boxes)
           \/ \E next \in Ownerless \cup Owned :
                /\ Opened(Front(boxes), next)
                /\ next \in {"confirm1", "confirm2"} => kind \in {"confirm1", "confirm2"}
    PROVE  \A i \in DOMAIN boxes' : Asks(boxes'[i]) => i \in DOMAIN boxes /\ Asks(boxes[i])
<1>1. WTypes
  BY DEF WInv
<1>2. CASE boxes' = Front(boxes)
  BY <1>1, <1>2, ReturnedBox
<1>3. ASSUME NEW next \in Ownerless \cup Owned, Opened(Front(boxes), next),
             next \in {"confirm1", "confirm2"} => kind \in {"confirm1", "confirm2"},
             NEW i \in DOMAIN boxes', Asks(boxes'[i])
      PROVE  i \in DOMAIN boxes /\ Asks(boxes[i])
  <2>1. CASE i \in DOMAIN Front(boxes) /\ boxes'[i] = Front(boxes)[i]
    BY <1>1, <1>3, <2>1, ReturnedBox
  <2>2. CASE i = Len(Front(boxes)) + 1 /\ boxes'[i] = Box(next)
    <3>1. i = Len(boxes) /\ i \in DOMAIN boxes /\ boxes[i].kind = kind
      BY <1>1, <2>2, ReturnedBox
    <3>2. next \in {"confirm1", "confirm2"}
      BY <1>1, <1>3, <2>2, BoxTypes DEF Asks, WTypes
    <3>. QED
      BY <1>3, <3>1, <3>2 DEF Asks
  <2>. QED
    BY <1>1, <1>3, <2>1, <2>2, OpenedAsks, ReturnedBox
<1>. QED
  BY <1>2, <1>3

\* startProcess, when no prompt is left open, starts a worker or gives up.
LEMMA BeginBusy ==
    ASSUME BusyInv, Begin, ui = "pump", UNCHANGED inbox, ~isProcessing,
           \A i \in DOMAIN boxes' : ~Asks(boxes'[i])
    PROVE  BusyInv'
<1>1. ~Working /\ \A i \in DOMAIN inbox : inbox[i] # "enable"
  BY DEF BusyInv
<1>2. isProcessing' = TRUE /\ ui' = "pump" /\ worker' \in WorkerValues
  BY <1>1 DEF Begin, StartProcess, Spawn, GoOn, BusyInv, WorkerValues
<1>. QED
  BY <1>1, <1>2 DEF BusyInv

LEMMA ClickCreateBusy ==
    ASSUME BusyInv, WInv, ClickCreate, "behind" \notin Env
    PROVE  BusyInv'
<1>1. /\ boxes = <<>> /\ Len(boxes) = 0 /\ DOMAIN boxes = {}
      /\ ui = "pump" /\ UNCHANGED inbox /\ ~isProcessing
  BY DEF ClickCreate, Clickable, Pumping
<1>2. CASE Begin /\ UNCHANGED boxes
  BY <1>1, <1>2, BeginBusy
<1>3. ASSUME NEW kind \in Ownerless, Open(kind), UNCHANGED <<ui, worker, isProcessing>>
      PROVE  BusyInv'
  <2>1. \A i \in DOMAIN boxes' : i = 1
    <3>1. WTypes /\ boxes \in Seq(Boxes) /\ Opened(boxes, kind)
      BY <1>3 DEF Open, WInv, WTypes
    <3>2. \A i \in DOMAIN boxes' : i \in DOMAIN boxes \/ i = Len(boxes) + 1
      BY ONLY <3>1, kind \in Ownerless \cup Owned, OpenedAsks
    <3>. QED
      BY <1>1, <3>2
  <2>. QED
    BY <1>1, <1>3, <2>1 DEF BusyInv, Working
<1>. QED
  BY <1>2, <1>3 DEF ClickCreate, Ownerless

LEMMA ConfirmBusy == ASSUME BusyInv, WInv, Confirm PROVE BusyInv'
<1>1. ui = "pump" /\ UNCHANGED inbox
  BY DEF Confirm, Returns
<1>2. CASE /\ Returns("confirm1", "yes") /\ Opened(Front(boxes), "confirm2")
           /\ UNCHANGED <<ui, worker, isProcessing>>
  <2>1. \A i \in DOMAIN boxes' : Asks(boxes'[i]) => i \in DOMAIN boxes /\ Asks(boxes[i])
    BY <1>2, ReturnedAsks DEF Ownerless
  <2>. QED
    BY <1>1, <1>2, <2>1, QuietBusy
<1>3. CASE Returns("confirm2", "yes") /\ boxes' = Front(boxes) /\ Begin
  <2>1. Asks(boxes[Len(boxes)]) /\ Len(boxes) \in DOMAIN boxes
    BY <1>3, ReturnedBox DEF Asks, WInv
  <2>2. Len(boxes) = 1 /\ ~isProcessing
    BY <1>1, <2>1 DEF BusyInv
  <2>3. \A i \in DOMAIN boxes' : ~Asks(boxes'[i])
    <3>1. \A i \in DOMAIN boxes' : Asks(boxes'[i]) => i \in DOMAIN boxes /\ i < Len(boxes) /\ Asks(boxes[i])
      BY <1>3, ReturnedBox DEF WInv
    <3>. QED
      BY <1>1, <2>2, <3>1 DEF BusyInv
  <2>. QED
    BY <1>1, <1>3, <2>2, <2>3, BeginBusy
<1>. QED
  BY <1>2, <1>3 DEF Confirm

LEMMA WorkerBusy ==
    ASSUME BusyInv, RInv, WorkerStep
    PROVE  BusyInv'
<1>1. UNCHANGED <<ui, boxes, isProcessing>> /\ Working /\ worker' \in WorkerValues
  BY LastWord, NextPhase DEF WorkerStep, WorkerPhase, WorkerPosts, user, BusyInv
<1>2. ui = "pump" => isProcessing /\ \A i \in DOMAIN inbox : inbox[i] # "enable"
  BY <1>1 DEF BusyInv
<1>3. CASE UNCHANGED inbox
  BY <1>1, <1>2, <1>3 DEF BusyInv
<1>4. CASE WorkerPosts /\ inbox' = Append(inbox, worker[1])
  <2>1. worker[1] \in Messages /\ inbox \in Seq(Messages) /\ (worker[1] = "enable" <=> ~Working')
    BY <1>4, LastWord DEF BusyInv, RInv, Mail, Spoken, Messages
  <2>2. ui = "pump" => \A i \in DOMAIN inbox' : inbox'[i] = "enable" =>
              i = Len(inbox) + 1 /\ ~Working'
    BY <1>2, <1>4, <2>1, MessagePosted
  <2>. QED
    BY <1>1, <1>2, <2>2 DEF BusyInv
<1>. QED
  BY <1>3, <1>4 DEF WorkerStep, WorkerPhase, WorkerPosts, Post

LEMMA RecoveryBusy == ASSUME BusyInv, RInv, RecoveryStep PROVE BusyInv'
<1>1. UNCHANGED <<ui, boxes, isProcessing, worker>> /\ inbox \in Seq(Messages)
  BY DEF RecoveryStep, user, RInv, Mail
<1>2. \A i \in DOMAIN inbox' : inbox'[i] = "enable" => i \in DOMAIN inbox /\ inbox[i] = "enable"
  <2>1. ASSUME NEW m \in News, inbox' = Append(inbox, m)
        PROVE  <1>2
    BY <1>1, <2>1, MessagePosted DEF News, Messages
  <2>. QED
    BY <2>1 DEF RecoveryStep, Post, News
<1>. QED
  BY <1>1, <1>2 DEF BusyInv, Working

LEMMA DispatchBusy == ASSUME BusyInv, WInv, RInv, Dispatch PROVE BusyInv'
<1>1. /\ ui = "pump" /\ UNCHANGED <<ui, worker>> /\ (Working' <=> Working)
      /\ inbox \in Seq(Messages) /\ inbox[1] \in Messages /\ 1 \in DOMAIN inbox
      /\ \A i \in DOMAIN inbox' : i + 1 \in DOMAIN inbox /\ inbox'[i] = inbox[i + 1]
      /\ DOMAIN inbox \subseteq Nat /\ DOMAIN inbox' \subseteq Nat \ {0}
  <2>1. inbox' \in Seq(Messages) /\ inbox \in Seq(Messages)
    BY HeadTailProperties DEF Dispatch, RInv, Mail
  <2>2. DOMAIN inbox \subseteq Nat /\ DOMAIN inbox' \subseteq Nat \ {0}
    BY <2>1, LenProperties
  <2>. QED
    BY <2>2, MessageTaken DEF Dispatch, Pumping, RInv, Mail, threads, Working
<1>2. \A i \in DOMAIN boxes' : Asks(boxes'[i]) => i \in DOMAIN boxes /\ Asks(boxes[i])
  <2>1. ASSUME NEW kind \in {"error", "restart"}, Open(kind) PROVE <1>2
    BY <2>1, OpenAsks DEF Owned
  <2>2. CASE UNCHANGED boxes
    BY <2>2
  <2>3. CASE HandleRecovered(FALSE)
    <3>. DEFINE b == [kind |-> "recoverFailed", disabled |-> TRUE, reply |-> "none"]
    <3>1. boxes' = Append(boxes, b) /\ b \in Boxes /\ ~Asks(b) /\ boxes \in Seq(Boxes)
      BY <2>3 DEF HandleRecovered, Boxes, Owned, Asks, WInv, WTypes
    <3>. HIDE DEF b
    <3>. QED
      BY <3>1, AppendedBox
  <2>. QED
    BY <1>1, <2>1, <2>2, <2>3 DEF Dispatch, HandleEnable, HandleBox, HandleRecovered, Messages
<1>3. CASE inbox[1] = "enable"
  <2>1. isProcessing' = FALSE /\ ~Working
    BY <1>1, <1>3 DEF Dispatch, HandleEnable, BusyInv
  <2>2. \A i \in DOMAIN inbox : inbox[i] = "enable" => i = 1
    BY <1>1, <1>3 DEF BusyInv
  <2>3. \A i \in DOMAIN inbox' : inbox'[i] # "enable"
    BY <1>1, <2>2
  <2>. QED
    BY <1>1, <1>2, <2>1, <2>3 DEF BusyInv
<1>4. CASE inbox[1] # "enable"
  <2>1. UNCHANGED isProcessing
    BY <1>1, <1>4 DEF Dispatch, HandleBox, HandleRecovered, Messages
  <2>2. \A i, j \in DOMAIN inbox' : inbox'[i] = "enable" /\ inbox'[j] = "enable" =>
            isProcessing /\ ~Working /\ i = j
    <3>. SUFFICES ASSUME NEW i \in DOMAIN inbox', NEW j \in DOMAIN inbox',
                         inbox'[i] = "enable", inbox'[j] = "enable"
                  PROVE  isProcessing /\ ~Working /\ i = j
      OBVIOUS
    <3>1. /\ i + 1 \in DOMAIN inbox /\ inbox[i + 1] = "enable" /\ i \in Nat
          /\ j + 1 \in DOMAIN inbox /\ inbox[j + 1] = "enable" /\ j \in Nat
      BY <1>1
    <3>2. isProcessing /\ ~Working /\ i + 1 = j + 1
      BY <1>1, <3>1 DEF BusyInv
    <3>. QED
      BY <3>1, <3>2
  <2>. QED
    BY <1>1, <1>2, <2>1, <2>2 DEF BusyInv
<1>. QED
  BY <1>3, <1>4

LEMMA NextBusy ==
    ASSUME BusyInv, WInv, RInv, [Next]_vars, "behind" \notin Env
    PROVE  BusyInv'
<1>1. CASE /\ UNCHANGED <<worker, isProcessing, inbox, ui>>
           /\ \A i \in DOMAIN boxes' : i \in DOMAIN boxes /\ boxes'[i] = boxes[i]
  BY <1>1, QuietBusy
<1>2. CASE UNCHANGED worker /\ ui' \notin {"pump", "join", "console"}
  BY <1>2 DEF BusyInv, Working
<1>3. CASE Joined \/ Console
  <2>1. ~Joined
    BY DEF Joined, BusyInv
  <2>2. Console /\ ~Working
    BY <1>3, <2>1 DEF Console, BusyInv
  <2>3. ui' = "enter" /\ worker' \in WorkerValues
    BY <2>2 DEF Console, StartProcess, Spawn, GoOn, BusyInv, WorkerValues
  <2>. QED
    BY <2>3 DEF BusyInv
<1>4. CASE ClickRecover \/ InitStep
  BY <1>1, <1>4 DEF ClickRecover, InitStep, user
<1>5. CASE Answer \/ Unwind
  BY <1>5, AnsweredAsks, QuietBusy DEF Answer, Unwind, threads
<1>6. CASE ClickClose
  <2>1. CASE Open("close") /\ UNCHANGED ui
    <3>1. \A i \in DOMAIN boxes' : Asks(boxes'[i]) => i \in DOMAIN boxes /\ Asks(boxes[i])
      BY <2>1, OpenAsks DEF Owned
    <3>. QED
      BY <1>6, <2>1, <3>1, QuietBusy DEF ClickClose, threads
  <2>2. CASE ui' = "closing"
    BY <1>2, <1>6, <2>2 DEF ClickClose, threads
  <2>. QED
    BY <1>6, <2>1, <2>2 DEF ClickClose
<1>7. CASE RestartFails \/ Return
  <2>1. UNCHANGED <<worker, isProcessing, inbox, ui>>
    BY <1>7 DEF RestartFails, Return, threads
  <2>2. \A i \in DOMAIN boxes' : Asks(boxes'[i]) => i \in DOMAIN boxes /\ Asks(boxes[i])
    <3>1. CASE RestartFails
      BY <3>1, ReturnedAsks DEF RestartFails, Owned
    <3>2. CASE Return
      BY <3>2, ReturnedAsks DEF Return
    <3>. QED
      BY <1>7, <3>1, <3>2
  <2>. QED
    BY <2>1, <2>2, QuietBusy
<1>9. CASE CancelAndClose
  BY <1>2, <1>9 DEF CancelAndClose, threads
<1>8. CASE Enter \/ Destroy \/ LeaveLoop \/ DestroyStatics \/ ExitProcess \/ Over \/ UNCHANGED vars
  BY <1>1, <1>2, <1>8 DEF Enter, Destroy, LeaveLoop, DestroyStatics, ExitProcess, Over, user,
                          threads, vars
<1>. QED
  BY <1>3, <1>4, <1>5, <1>6, <1>7, <1>8, <1>9, ClickCreateBusy, ConfirmBusy, WorkerBusy, RecoveryBusy,
     DispatchBusy
     DEF Next, UserStep, UiStep, Handler

\* As long as the window cannot be used behind a box that leaves it enabled, a worker
\* that runs is one that the window knows of: startProcess never has a worker to
\* join, and the WM_ENABLE_BUTTON of one process never ends the next.
THEOREM WorkerIsShown ==
    ASSUME "behind" \notin Env PROVE Spec => []BusyIsShown
<1>1. BusyInv => BusyIsShown
  BY DEF BusyInv, BusyIsShown
<1>2. BusyInv /\ WInv /\ RInv /\ [Next]_vars => BusyInv'
  BY NextBusy
<1>. QED
  BY InitBusy, RInit, NextR, WInit, NextW, <1>1, <1>2, PTL DEF Spec

\* The last of the recovery: its success is not told before every step of it is done,
\* and nothing begins another one after WM_QUIT.
LastInv ==
    /\ launched => quit /\ recovery = <<>> /\ recovered
    /\ Live => \A i \in DOMAIN inbox : inbox[i] = "recovered" => recovered

LEMMA InitLast == Init => LastInv
<1>. SUFFICES ASSUME Init PROVE LastInv
  OBVIOUS
<1>1. DOMAIN inbox = {} /\ launched = FALSE
  BY DEF Init
<1>. QED
  BY <1>1 DEF LastInv

LEMMA DispatchLast == ASSUME LastInv, RInv, Dispatch PROVE LastInv'
<1>1. /\ Live /\ Live' /\ UNCHANGED <<recovery, recovered>>
      /\ 1 \in DOMAIN inbox /\ inbox[1] \in Messages
      /\ \A i \in DOMAIN inbox' : i + 1 \in DOMAIN inbox /\ inbox'[i] = inbox[i + 1]
  BY MessageTaken DEF Dispatch, Pumping, Live, threads, RInv, Mail
<1>2. CASE inbox[1] = "recovered"
  <2>1. recovery = <<>> /\ recovered
    BY <1>1, <1>2 DEF LastInv, RInv, News
  <2>2. quit' = TRUE
    BY <1>2 DEF Dispatch, HandleRecovered
  <2>. QED
    BY <1>1, <2>1, <2>2 DEF LastInv
<1>3. CASE inbox[1] # "recovered"
  <2>1. UNCHANGED <<launched, quit>>
    BY <1>1, <1>3 DEF Dispatch, HandleEnable, HandleBox, HandleRecovered, Messages
  <2>. QED
    BY <1>1, <2>1 DEF LastInv
<1>. QED
  BY <1>2, <1>3

\* A message is posted; only the recovery's own last step says "recovered".
LEMMA PostLast ==
    ASSUME LastInv, inbox \in Seq(Messages), NEW m \in Messages, Post(m),
           m = "recovered" => recovered',
           recovered' = recovered \/ \A i \in DOMAIN inbox : Live => inbox[i] # "recovered",
           UNCHANGED <<ui, launched, quit>>, launched => UNCHANGED <<recovery, recovered>>
    PROVE  LastInv'
<1>1. CASE UNCHANGED inbox
  BY <1>1 DEF LastInv, Live
<1>2. CASE inbox' = Append(inbox, m)
  <2>1. \A i \in DOMAIN inbox' : \/ i \in DOMAIN inbox /\ inbox'[i] = inbox[i]
                                 \/ inbox'[i] = m
    BY <1>2, MessagePosted
  <2>. QED
    BY <2>1 DEF LastInv, Live
<1>. QED
  BY <1>1, <1>2 DEF Post

LEMMA NextLast == ASSUME LastInv, RInv, [Next]_vars PROVE LastInv'
<1>1. CASE UNCHANGED <<recovery, recovered, launched, quit, inbox>> /\ (Live' => Live)
  BY <1>1 DEF LastInv
<1>2. CASE ClickCreate \/ Confirm \/ Joined \/ Console
  BY <1>1, <1>2
     DEF ClickCreate, Confirm, Joined, Console, Begin, StartProcess, Spawn, GoOn, Live, user,
         process, Clickable, Pumping, Returns
<1>3. CASE ClickClose \/ Answer \/ Unwind \/ RestartFails \/ Return \/ CancelAndClose
  BY <1>1, <1>3
     DEF ClickClose, Answer, Unwind, RestartFails, Return, CancelAndClose, threads, process, Live
<1>4. CASE Enter \/ LeaveLoop \/ DestroyStatics \/ ExitProcess \/ InitStep \/ Over \/ WorkerPhase
             \/ UNCHANGED vars
  BY <1>1, <1>4
     DEF Enter, LeaveLoop, DestroyStatics, ExitProcess, InitStep, Over, WorkerPhase, user, threads,
         process, Live, vars
<1>5. CASE Destroy
  BY <1>5 DEF Destroy, LastInv, Live, threads, process
<1>6. CASE ClickRecover
  <2>1. ~launched /\ UNCHANGED <<ui, launched, inbox, recovered>>
    BY <1>6 DEF ClickRecover, Clickable, LastInv, process
  <2>. QED
    BY <2>1 DEF LastInv, Live
<1>7. CASE WorkerPosts
  <2>1. inbox \in Seq(Messages) /\ UNCHANGED <<ui, launched, quit, recovery, recovered>>
    BY <1>7 DEF WorkerPosts, process, RInv, Mail
  <2>2. worker[1] \in Messages /\ worker[1] # "recovered"
    <3>1. worker # <<>> /\ worker[1] \in {"prepare", "copy", "boot", "repair"} \cup Spoken
      BY <1>7, ElementOfSeq, EmptySeq, LenProperties DEF RInv, Mail, WorkerPosts, Working
    <3>. QED
      BY <1>7, <3>1 DEF WorkerPosts, Spoken
  <2>. QED
    BY <1>7, <2>1, <2>2, PostLast DEF WorkerPosts
<1>8. CASE RecoveryStep
  <2>1. /\ inbox \in Seq(Messages) /\ recovery # <<>> /\ ~launched
        /\ UNCHANGED <<ui, launched, quit>>
    BY <1>8 DEF RecoveryStep, process, RInv, Mail, LastInv
  <2>2. Live => \A i \in DOMAIN inbox : inbox[i] # "recovered"
    BY <2>1 DEF RInv, News
  <2>3. CASE UNCHANGED inbox
    BY <2>1, <2>2, <2>3 DEF LastInv, Live
  <2>4. CASE recovery[1] = "notify"
    <3>1. UNCHANGED recovered
      BY <1>8, <2>4 DEF RecoveryStep
    <3>2. PICK m \in News : Post(m) /\ (m = "recovered" => recovered)
      BY <1>8, <2>4 DEF RecoveryStep, News
    <3>. QED
      BY <2>1, <3>1, <3>2, PostLast DEF News, Messages
  <2>. QED
    BY <1>8, <2>3, <2>4 DEF RecoveryStep
<1>. QED
  BY <1>2, <1>3, <1>4, <1>5, <1>6, <1>7, <1>8, DispatchLast
     DEF Next, UserStep, UiStep, Handler, WorkerStep

\* In every environment, with a process running beside the recovery or begun after
\* it, the new instance is launched when the recovery has done all its steps and has
\* succeeded: no other recovery begins before this instance ends.
THEOREM NewInstanceStartsClean == Spec => []NewProgramFindsThemGone
<1>1. LastInv => NewProgramFindsThemGone
  BY DEF LastInv, NewProgramFindsThemGone
<1>2. LastInv /\ RInv /\ [Next]_vars => LastInv'
  BY NextLast
<1>. QED
  BY InitLast, RInit, NextR, <1>1, <1>2, PTL DEF Spec

\* The two ways out: the destructor of ProcessController joins both threads; WinMain's
\* loop ends by WM_QUIT alone, and then the recovery is over.
ExitInv ==
    /\ ~managers => ui \in {"exit", "gone"}
    /\ quit => launched
    /\ ui \in {"exit", "gone"} => recovery = <<>> /\ (Working => launched)

LEMMA NextExit == ASSUME ExitInv, LastInv, RInv, [Next]_vars PROVE ExitInv'
<1>1. CASE /\ UNCHANGED <<recovery, launched, quit, managers>> /\ ui' \notin {"exit", "gone"}
           /\ ui \notin {"exit", "gone"}
  BY <1>1 DEF ExitInv
<1>2. CASE ClickCreate \/ Confirm \/ Joined \/ Console
  BY <1>1, <1>2
     DEF ClickCreate, Confirm, Joined, Console, Begin, StartProcess, Spawn, GoOn, user, process,
         Clickable, Pumping, Returns
<1>3. CASE Answer \/ Unwind \/ RestartFails \/ Return \/ CancelAndClose \/ Enter
  BY <1>1, <1>3
     DEF Answer, Unwind, RestartFails, Return, CancelAndClose, Enter, Returns, threads, process
<1>4. CASE ClickClose
  BY <1>1, <1>4 DEF ClickClose, Clickable, Pumping, threads, process
<1>5. CASE ClickRecover
  BY <1>5 DEF ClickRecover, Clickable, Pumping, ExitInv, process
<1>6. CASE WorkerStep
  <2>1. Working /\ UNCHANGED <<ui, recovery, launched, quit, managers>>
    BY <1>6 DEF WorkerStep, WorkerPhase, WorkerPosts, process
  <2>. QED
    BY <2>1 DEF ExitInv
<1>7. CASE RecoveryStep
  <2>1. recovery # <<>> /\ UNCHANGED <<ui, launched, quit, managers>>
    BY <1>7 DEF RecoveryStep, process
  <2>. QED
    BY <2>1 DEF ExitInv
<1>8. CASE Dispatch
  <2>1. ui = "pump" /\ UNCHANGED <<ui, managers>>
    BY <1>8 DEF Dispatch, Pumping
  <2>2. inbox[1] \in Messages
    BY <1>8, MessageTaken DEF RInv, Mail
  <2>3. quit' => launched'
    BY <1>8, <2>2 DEF Dispatch, HandleEnable, HandleBox, HandleRecovered, ExitInv, Messages
  <2>. QED
    BY <2>1, <2>3 DEF ExitInv
<1>9. CASE InitStep \/ Over \/ UNCHANGED vars
  BY <1>9 DEF InitStep, Over, user, process, vars, ExitInv, Working
<1>10. CASE Destroy \/ DestroyStatics \/ ExitProcess
  BY <1>10 DEF Destroy, DestroyStatics, ExitProcess, ThreadsJoined, user, threads, process,
               ExitInv, Working
<1>11. CASE LeaveLoop
  BY <1>11 DEF LeaveLoop, threads, process, ExitInv, LastInv, Working
<1>. QED
  BY <1>2, <1>3, <1>4, <1>5, <1>6, <1>7, <1>8, <1>9, <1>10, <1>11
     DEF Next, UserStep, UiStep, Handler

\* In every environment: no recovery outlives PartitionManager, ISOCopyManager and
\* BCDManager, and a worker does so only where a recovery that succeeded beside it
\* has ended the program; ~ProcessController joins the two threads before the statics
\* go, and the way out through WM_QUIT, which joins nothing first, is no other.
THEOREM TasksHaveManagers == Spec => []ThreadsHaveManagers
<1>1. ExitInv => ThreadsHaveManagers
  BY DEF ExitInv, ThreadsHaveManagers
<1>2. LastInv /\ RInv /\ [Next]_vars => LastInv'
  BY NextLast
<1>3. ExitInv /\ LastInv /\ RInv /\ [Next]_vars => ExitInv'
  BY NextExit
<1>4. Init => ExitInv
  BY DEF Init, ExitInv, Working
<1>. QED
  BY InitLast, RInit, NextR, <1>1, <1>2, <1>3, <1>4, PTL DEF Spec
=============================================================================
