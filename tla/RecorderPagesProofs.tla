--------------------------- MODULE RecorderPagesProofs ---------------------------
(***************************************************************************)
(* Machine-checked facts about the recorder's server and the script in its *)
(* pages: about RecorderPages, for any pages and requests and every number *)
(* of lock generations; about RecorderSession, for any sessions, sockets   *)
(* and handlers; about PageInput, for any fields, buttons and labels and   *)
(* every number of acts; and about AssertionPicker, for any frames,        *)
(* documents, requests and messages under way.                             *)
(***************************************************************************)
EXTENDS RecorderPages, RecorderSession, PageInput, AssertionPicker, SequenceTheorems, TLAPS

-----------------------------------------------------------------------------
(* Types *)

\* The generation of a lock that is started or cleared is one of those counted.
LEMMA GenerationType ==
    ASSUME TypeOK, NEW p \in Page
    PROVE  NextGeneration(p) \in 0 .. Generation - 1
  <1>1. lock[p].generation + 1 \in Int /\ Generation \in Nat /\ Generation > 0
    BY PagesAssumption DEF TypeOK
  <1>2. QED
    BY <1>1 DEF NextGeneration

\* Starting and clearing locks writes well-formed locks and timers.
LEMMA StartLocksType ==
    ASSUME TypeOK, NEW ps \in SUBSET Page, StartLocks(ps)
    PROVE  /\ lock' \in [Page -> [on : BOOLEAN, generation : 0 .. Generation - 1]]
           /\ timers' \in SUBSET (Page \X (0 .. Generation - 1))
  BY GenerationType DEF StartLocks, TypeOK

\* Clearing locks writes well-formed locks and timers.
LEMMA ClearLocksType ==
    ASSUME TypeOK, NEW ps \in SUBSET Page, ClearLocks(ps)
    PROVE  /\ lock' \in [Page -> [on : BOOLEAN, generation : 0 .. Generation - 1]]
           /\ timers' \in SUBSET (Page \X (0 .. Generation - 1))
  BY GenerationType DEF ClearLocks, TypeOK

\* Pickers that are taken away leave well-formed ones.
LEMMA WithoutType ==
    ASSUME TypeOK, NEW ks, NEW p
    PROVE  Without(ks, p) \in [AnyPicker -> Pending]
  BY DEF TypeOK, Without, NoPicker, Pending, AnyPicker, Kind

\* An element taken out of a sequence leaves the order of the others as it was.
LEMMA RemoveAtFacts ==
    ASSUME NEW T, NEW s \in Seq(T), NEW i \in 1 .. Len(s), IsInjective(s)
    PROVE  /\ RemoveAt(s, i) \in Seq(T)
           /\ IsInjective(RemoveAt(s, i))
           /\ ToSet(RemoveAt(s, i)) = ToSet(s) \ {s[i]}
  <1> DEFINE left == RemoveAt(s, i)
             old(j) == IF j < i THEN j ELSE j + 1
             front == SubSeq(s, 1, i - 1)
             back == SubSeq(s, i + 1, Len(s))
  <1>a. /\ front \in Seq(T) /\ Len(front) = i - 1
        /\ \A j \in 1 .. i - 1 : front[j] = s[j]
    <2>1. \A j \in 1 .. i - 1 : s[j] \in T
      OBVIOUS
    <2>2. QED
      BY <2>1, SubSeqProperties
  <1>b. /\ back \in Seq(T) /\ Len(back) = Len(s) - i
        /\ \A j \in 1 .. Len(s) - i : back[j] = s[j + i]
    <2>1. \A j \in i + 1 .. Len(s) : s[j] \in T
      OBVIOUS
    <2>2. QED
      BY <2>1, SubSeqProperties
  <1>c. left = front \o back
    BY DEF RemoveAt
  <1> HIDE DEF front, back, left
  <1>1. left \in Seq(T) /\ Len(left) = Len(s) - 1
    BY <1>a, <1>b, <1>c
  <1>2. \A j \in 1 .. Len(s) - 1 : left[j] = s[old(j)]
    BY <1>a, <1>b, <1>c
  <1>3. \A j \in 1 .. Len(s) - 1 : old(j) \in 1 .. Len(s) /\ old(j) # i
    OBVIOUS
  <1>4. \A j, k \in 1 .. Len(s) - 1 : j # k => old(j) # old(k)
    OBVIOUS
  <1>5. IsInjective(left)
    <2>1. SUFFICES ASSUME NEW j \in 1 .. Len(s) - 1, NEW k \in 1 .. Len(s) - 1,
                          left[j] = left[k]
                   PROVE  j = k
      BY <1>1 DEF IsInjective
    <2>2. s[old(j)] = s[old(k)] /\ old(j) \in DOMAIN s /\ old(k) \in DOMAIN s
      BY <2>1, <1>2, <1>3
    <2>3. old(j) = old(k)
      BY <2>2 DEF IsInjective
    <2>4. QED
      BY <2>3, <1>4
  <1>6. ToSet(left) \subseteq ToSet(s) \ {s[i]}
    <2>1. \A j \in DOMAIN left : left[j] = s[old(j)] /\ old(j) \in DOMAIN s /\ old(j) # i
      BY <1>1, <1>2, <1>3
    <2>2. \A k \in DOMAIN s : k # i => s[k] # s[i]
      BY DEF IsInjective
    <2>3. \A j \in DOMAIN left : left[j] \in ToSet(s) /\ left[j] # s[i]
      BY <2>1, <2>2 DEF ToSet
    <2>4. QED
      BY <2>3 DEF ToSet
  <1>7. ASSUME NEW x \in ToSet(s) \ {s[i]} PROVE x \in ToSet(left)
    <2>1. PICK j \in 1 .. Len(s) : s[j] = x /\ j # i
      BY DEF ToSet
    <2>2. CASE j < i
      BY <2>1, <2>2, <1>1, <1>2 DEF ToSet
    <2>3. CASE j > i
      <3>1. j - 1 \in 1 .. Len(s) - 1 /\ old(j - 1) = j
        BY <2>3
      <3>2. left[j - 1] = x /\ j - 1 \in DOMAIN left
        BY <2>1, <3>1, <1>1, <1>2
      <3>3. QED
        BY <3>2 DEF ToSet
    <2>4. QED
      BY <2>1, <2>2, <2>3
  <1>8. QED
    BY <1>1, <1>5, <1>6, <1>7 DEF left

\* Pickers that are opened and closed are well-formed.
LEMMA PickerType ==
    ASSUME TypeOK
    PROVE  /\ NoPicker \in Pending
           /\ \A k : [picker EXCEPT ![k] = NoPicker] \in [Kind \cup {"assertion"} -> Pending]
           /\ \A q \in Request :
                active # None =>
                  [Without(Kind, active) EXCEPT !["assertion"] = [page |-> active, request |-> q]]
                    \in [Kind \cup {"assertion"} -> Pending]
  <1>1. NoPicker \in Pending
    BY DEF NoPicker, Pending
  <1>2. \A q \in Request : active # None => [page |-> active, request |-> q] \in Pending
    BY DEF TypeOK, Pending
  <1>3. Without(Kind, active) \in [Kind \cup {"assertion"} -> Pending]
    BY WithoutType DEF AnyPicker
  <1>4. QED
    BY <1>1, <1>2, <1>3 DEF TypeOK

\* A session starts well-formed.
LEMMA TypeInit == Init => TypeOK
  <1> SUFFICES ASSUME Init PROVE TypeOK
    OBVIOUS
  <1>1. pages \in Seq(Page) /\ IsInjective(pages)
    BY DEF Init, IsInjective
  <1>2. lock \in [Page -> [on : BOOLEAN, generation : 0 .. Generation - 1]]
    BY PagesAssumption DEF Init
  <1>3. picker \in [Kind \cup {"assertion"} -> Pending]
    BY DEF Init, NoPickers, NoPicker, Pending
  <1>4. QED
    BY <1>1, <1>2, <1>3 DEF Init, TypeOK

\* The session begins and ends with the types of an empty browser.
LEMMA ClearedType ==
    ASSUME TypeOK, Cleared
    PROVE  /\ pages' \in Seq(Page) /\ IsInjective(pages')
           /\ active' \in Page \cup {None} /\ observed' \in SUBSET Page
           /\ lock' \in [Page -> [on : BOOLEAN, generation : 0 .. Generation - 1]]
           /\ timers' \in SUBSET (Page \X (0 .. Generation - 1))
           /\ picker' \in [Kind \cup {"assertion"} -> Pending]
  BY ClearLocksType DEF Cleared, NoPickers, NoPicker, Pending, Kind, IsInjective

\* Every step keeps the types.
LEMMA TypeStep == TypeOK /\ [Next]_vars => TypeOK'
  <1> SUFFICES ASSUME TypeOK, [Next]_vars PROVE TypeOK'
    OBVIOUS
  <1> USE DEF TypeOK, lockVars, recordVars
  <1>1. ASSUME NEW p \in Page, UNCHANGED calm, SolvingStarted(p) PROVE TypeOK'
    BY <1>1, StartLocksType, WithoutType DEF SolvingStarted, AnyPicker, Open
  <1>2. ASSUME NEW p \in Page, UNCHANGED calm,
               SolvingFinished(p) \/ ContinueAfterCaptcha(p)
                 \/ (\E g \in 0 .. Generation - 1 : LockTimesOut(p, g))
        PROVE TypeOK'
    BY <1>2, ClearLocksType DEF SolvingFinished, ContinueAfterCaptcha, LockTimesOut
  <1>3. ASSUME NEW p \in Page, UNCHANGED calm, PageActs(p) \/ PickApplied(p) PROVE TypeOK'
    BY <1>3 DEF PageActs, PickApplied, ForwardAction, StartUrlAfter
  <1>4. ASSUME NEW p \in Page, UNCHANGED calm, PageOpens(p) PROVE TypeOK'
    <2>1. pages' \in Seq(Page) /\ IsInjective(pages')
      BY <1>4 DEF PageOpens, Open, ToSet, IsInjective
    <2>2. QED
      BY <1>4, <2>1 DEF PageOpens
  <1>5. ASSUME NEW p \in Page, UNCHANGED calm, PageCloses(p) PROVE TypeOK'
    <2>1. pages' \in Seq(Page) /\ IsInjective(pages')
      BY <1>5, RemoveAtFacts DEF PageCloses
    <2>2. active' \in Page \cup {None}
      BY <1>5, <2>1 DEF PageCloses, ActiveAfterClosing
    <2>3. QED
      BY <1>5, <2>1, <2>2, ClearLocksType, WithoutType DEF PageCloses, AnyPicker
  <1>6. ASSUME NEW p \in Page, UNCHANGED calm, Navigated(p) \/ SwitchPage(p) PROVE TypeOK'
    <2>1. Without(AnyPicker, p) \in [Kind \cup {"assertion"} -> Pending]
          /\ Without(AnyPicker, active) \in [Kind \cup {"assertion"} -> Pending]
      BY WithoutType DEF AnyPicker
    <2>2. CASE Navigated(p)
      BY <2>1, <2>2, <1>6 DEF Navigated, StartUrlAfter
    <2>3. CASE SwitchPage(p)
      BY <2>1, <2>3, <1>6 DEF SwitchPage
    <2>4. QED
      BY <1>6, <2>2, <2>3
  <1>7. ASSUME NEW p \in Page, UNCHANGED calm, NEW k \in Kind, PickerAsked(k, p) PROVE TypeOK'
    BY <1>7, WithoutType DEF PickerAsked, AnyPicker
  <1>8. ASSUME NEW q \in Request, UNCHANGED calm, StartAssertionPick(q) \/ EndAssertionPick(q)
        PROVE TypeOK'
    <2>1. picker' \in [Kind \cup {"assertion"} -> Pending]
      BY <1>8, PickerType DEF StartAssertionPick, EndAssertionPick
    <2>2. QED
      BY <1>8, <2>1 DEF StartAssertionPick, EndAssertionPick
  <1>9. ASSUME NEW a \in asked, UNCHANGED calm, PickerOpens(a) PROVE TypeOK'
    BY <1>9 DEF PickerOpens, Pending
  <1>10. ASSUME NEW k \in Kind, UNCHANGED calm, DismissPicker(k) \/ Pick(k) PROVE TypeOK'
    <2>1. picker' \in [Kind \cup {"assertion"} -> Pending]
      BY <1>10, PickerType DEF DismissPicker, Pick
    <2>2. applying' \in SUBSET Page
      BY <1>10 DEF DismissPicker, Pick, Open, ToSet
    <2>3. QED
      BY <1>10, <2>1, <2>2 DEF DismissPicker, Pick
  <1>11. ASSUME UNCHANGED calm, (\E b \in BOOLEAN : SetNativeSelects(b)) \/ Navigate
         PROVE TypeOK'
    BY <1>11, PickerType DEF SetNativeSelects, Navigate, StartUrlAfter
  <1>12. ASSUME UNCHANGED calm, StartSession \/ ReturnToRecording PROVE TypeOK'
    BY <1>12 DEF StartSession, ReturnToRecording
  <1>13. ASSUME UNCHANGED calm, RecordingReady PROVE TypeOK'
    <2>1. picker' \in [Kind \cup {"assertion"} -> Pending]
      BY <1>13 DEF RecordingReady, Pending, NoPicker
    <2>2. QED
      BY <1>13, <2>1, StartLocksType DEF RecordingReady
  <1>14. ASSUME UNCHANGED calm, StartReplay \/ EndSession PROVE TypeOK'
    BY <1>14, ClearedType DEF StartReplay, EndSession
  <1>15. CASE UNCHANGED vars
    BY <1>15 DEF vars
  <1>16. QED
    BY <1>1, <1>2, <1>3, <1>4, <1>5, <1>6, <1>7, <1>8, <1>9, <1>10, <1>11, <1>12, <1>13,
       <1>14, <1>15 DEF Next, Step

\* Pages, locks, timers and pickers keep their types, and no page is listed twice.
THEOREM TypeCorrect == Spec => []TypeOK
  BY TypeInit, TypeStep, PTL DEF Spec

-----------------------------------------------------------------------------
(* Captcha locks and their timers *)

Gen == 0 .. Generation - 1

\* A page has the timer of generation g exactly when its lock is of generation g.
TimersMatch ==
    \A p \in Page, g \in Gen : <<p, g>> \in timers <=> lock[p].on /\ lock[p].generation = g

\* One timer for each lock, told of its generations.
LEMMA TimerOfLock == TypeOK => (OneTimerPerLock <=> TimersMatch)
  <1> SUFFICES ASSUME TypeOK PROVE OneTimerPerLock <=> TimersMatch
    OBVIOUS
  <1> DEFINE due == {<<p, lock[p].generation>> : p \in {q \in Page : lock[q].on}}
  <1>1. \A p \in Page : lock[p].generation \in Gen
    BY DEF TypeOK, Gen
  <1>2. \A p \in Page, g \in Gen : <<p, g>> \in due <=> lock[p].on /\ lock[p].generation = g
    OBVIOUS
  <1>3. due \subseteq Page \X Gen /\ timers \subseteq Page \X Gen
    BY <1>1 DEF TypeOK, Gen
  <1> HIDE DEF due
  <1>4. timers = due <=> \A p \in Page, g \in Gen : <<p, g>> \in timers <=> <<p, g>> \in due
    BY <1>3
  <1>5. QED
    BY <1>2, <1>4 DEF OneTimerPerLock, TimersMatch, due

\* The property is inductive beside the types: locks and timers change together.
LEMMA TimersFollowLocks ==
    ASSUME TypeOK, TypeOK', OneTimerPerLock,
           NEW ps \in SUBSET Page, StartLocks(ps) \/ ClearLocks(ps)
    PROVE  OneTimerPerLock'
  <1>1. TimersMatch
    BY TimerOfLock
  <1>2. TypeOK' => (OneTimerPerLock' <=> TimersMatch')
    BY TimerOfLock, PTL
  <1>3. ASSUME NEW p \in Page, NEW g \in Gen, StartLocks(ps)
        PROVE <<p, g>> \in timers' <=> lock'[p].on /\ lock'[p].generation = g
    <2>1. <<p, g>> \in timers' <=> IF p \in ps THEN g = NextGeneration(p) ELSE <<p, g>> \in timers
      BY <1>3 DEF StartLocks
    <2>2. QED
      BY <1>1, <1>3, <2>1 DEF StartLocks, TimersMatch
  <1>4. ASSUME NEW p \in Page, NEW g \in Gen, ClearLocks(ps)
        PROVE <<p, g>> \in timers' <=> lock'[p].on /\ lock'[p].generation = g
    <2>1. <<p, g>> \in timers' <=> <<p, g>> \in timers /\ ~(p \in ps /\ lock[p].on)
      BY <1>4 DEF ClearLocks
    <2>2. QED
      BY <1>1, <1>4, <2>1 DEF ClearLocks, TimersMatch
  <1>5. QED
    BY <1>2, <1>3, <1>4 DEF TimersMatch

\* Every step keeps one timer for each lock.
LEMMA TimersStep == TypeOK /\ OneTimerPerLock /\ [Next]_vars => OneTimerPerLock'
  <1> SUFFICES ASSUME TypeOK, OneTimerPerLock, [Next]_vars PROVE OneTimerPerLock'
    OBVIOUS
  <1> TypeOK'
    BY TypeStep
  <1>1. ASSUME UNCHANGED <<lock, timers>> PROVE OneTimerPerLock'
    BY <1>1 DEF OneTimerPerLock
  <1>2. ASSUME NEW p \in Page, SolvingStarted(p) \/ SolvingFinished(p) \/ ContinueAfterCaptcha(p)
                                 \/ PageCloses(p)
        PROVE OneTimerPerLock'
    BY <1>1, <1>2, TimersFollowLocks
       DEF SolvingStarted, SolvingFinished, ContinueAfterCaptcha, PageCloses
  <1>3. ASSUME NEW p \in Page, NEW g \in 0 .. Generation - 1, LockTimesOut(p, g)
        PROVE OneTimerPerLock'
    <2>1. lock[p].on /\ lock[p].generation = g
      BY <1>3 DEF LockTimesOut, OneTimerPerLock
    <2>2. QED
      BY <2>1, <1>3, TimersFollowLocks DEF LockTimesOut
  <1>4. ASSUME RecordingReady \/ StartReplay \/ EndSession PROVE OneTimerPerLock'
    BY <1>4, TimersFollowLocks DEF RecordingReady, StartReplay, EndSession, Cleared, TypeOK
  <1>5. ASSUME NEW p \in Page, \/ PageActs(p) \/ PageOpens(p) \/ Navigated(p) \/ SwitchPage(p)
                               \/ PickApplied(p) \/ (\E k \in Kind : PickerAsked(k, p))
        PROVE OneTimerPerLock'
    BY <1>1, <1>5
       DEF PageActs, PageOpens, Navigated, SwitchPage, PickApplied, PickerAsked, lockVars
  <1>6. ASSUME \/ \E q \in Request : StartAssertionPick(q) \/ EndAssertionPick(q)
               \/ \E a \in asked : PickerOpens(a)
               \/ \E k \in Kind : DismissPicker(k) \/ Pick(k)
               \/ \E b \in BOOLEAN : SetNativeSelects(b)
               \/ Navigate \/ StartSession \/ ReturnToRecording
        PROVE OneTimerPerLock'
    BY <1>1, <1>6
       DEF StartAssertionPick, EndAssertionPick, PickerOpens, DismissPicker, Pick,
           SetNativeSelects, Navigate, StartSession, ReturnToRecording, lockVars
  <1>7. CASE UNCHANGED vars
    BY <1>1, <1>7 DEF vars, lockVars
  <1>8. QED
    BY <1>2, <1>3, <1>4, <1>5, <1>6, <1>7 DEF Next, Step

\* A lock has its own timer and no other: none lasts for ever and none is ended
\* by the timer of an earlier one (startCaptchaLock, clearCaptchaLock).
THEOREM LocksHaveTheirTimer == Spec => []OneTimerPerLock
  <1>1. Init => OneTimerPerLock
    BY DEF Init, OneTimerPerLock
  <1>2. QED
    BY <1>1, TypeCorrect, TimersStep, PTL DEF Spec

-----------------------------------------------------------------------------
(* Pickers *)

\* What makes PickersFollowPage inductive: the active page is open, only a
\* recording has locks, and a picker that still awaits its page is as good as
\* pending when nothing comes between.
LocksInRecording == mode # "recording" => \A p \in Page : ~lock[p].on
ActiveIsOpen ==
    /\ active # None => active \in Open
    /\ mode = "none" => pages = <<>>
NoOverlay == \A k \in Kind : picker[k] = NoPicker
AskedFollowPage ==
    calm => /\ \A a \in asked : a.page = active /\ active \in Open /\ ~Locked(active)
            /\ \A a, b \in asked : a = b
            /\ asked # {} => NoOverlay
            /\ mode \in {"none", "opening"} => asked = {} /\ NoOverlay
PickersInv == LocksInRecording /\ ActiveIsOpen /\ AskedFollowPage /\ PickersFollowPage

\* Every step keeps locks to recordings.
LEMMA LocksInRecordingStep ==
    TypeOK /\ LocksInRecording /\ [Next]_vars => LocksInRecording'
  <1> SUFFICES ASSUME TypeOK, LocksInRecording, [Next]_vars PROVE LocksInRecording'
    OBVIOUS
  <1>1. ASSUME UNCHANGED <<mode, lock>> PROVE LocksInRecording'
    BY <1>1 DEF LocksInRecording
  <1>2. ASSUME NEW p \in Page, \/ SolvingStarted(p) \/ SolvingFinished(p) \/ ContinueAfterCaptcha(p)
                               \/ PageCloses(p) \/ (\E g \in 0 .. Generation - 1 : LockTimesOut(p, g))
        PROVE LocksInRecording'
    BY <1>2 DEF SolvingStarted, SolvingFinished, ContinueAfterCaptcha, PageCloses, LockTimesOut,
                StartLocks, ClearLocks, LocksInRecording
  <1>3. ASSUME StartSession \/ RecordingReady \/ StartReplay \/ EndSession \/ ReturnToRecording
        PROVE LocksInRecording'
    BY <1>3 DEF StartSession, RecordingReady, StartReplay, EndSession, ReturnToRecording, Cleared,
                ClearLocks, lockVars, LocksInRecording
  <1>4. ASSUME NEW p \in Page, \/ PageActs(p) \/ PageOpens(p) \/ Navigated(p) \/ SwitchPage(p)
                               \/ PickApplied(p) \/ (\E k \in Kind : PickerAsked(k, p))
        PROVE LocksInRecording'
    BY <1>1, <1>4
       DEF PageActs, PageOpens, Navigated, SwitchPage, PickApplied, PickerAsked, lockVars
  <1>5. ASSUME \/ \E q \in Request : StartAssertionPick(q) \/ EndAssertionPick(q)
               \/ \E a \in asked : PickerOpens(a)
               \/ \E k \in Kind : DismissPicker(k) \/ Pick(k)
               \/ \E b \in BOOLEAN : SetNativeSelects(b)
               \/ Navigate
        PROVE LocksInRecording'
    BY <1>1, <1>5
       DEF StartAssertionPick, EndAssertionPick, PickerOpens, DismissPicker, Pick,
           SetNativeSelects, Navigate, lockVars
  <1>6. CASE UNCHANGED vars
    BY <1>1, <1>6 DEF vars, lockVars
  <1>7. QED
    BY <1>2, <1>3, <1>4, <1>5, <1>6 DEF Next, Step

\* A page that is registered is open, and the others stay so.
LEMMA OpenGrows ==
    ASSUME TypeOK, NEW p \in Page, PageOpens(p)
    PROVE  Open \subseteq Open' /\ p \in Open'
  <1>1. /\ DOMAIN pages = 1 .. Len(pages) /\ DOMAIN pages' = 1 .. Len(pages) + 1
        /\ Len(pages) \in Nat
    BY DEF PageOpens, TypeOK
  <1>2. /\ \A i \in DOMAIN pages : pages'[i] = pages[i]
        /\ pages'[Len(pages) + 1] = p
    BY DEF PageOpens, TypeOK
  <1>3. QED
    BY <1>1, <1>2 DEF Open, ToSet

\* Every step leaves an open page active.
LEMMA ActiveIsOpenStep ==
    TypeOK /\ ActiveIsOpen /\ [Next]_vars => ActiveIsOpen'
  <1> SUFFICES ASSUME TypeOK, ActiveIsOpen, [Next]_vars PROVE ActiveIsOpen'
    OBVIOUS
  <1>1. ASSUME UNCHANGED <<mode, pages, active>> PROVE ActiveIsOpen'
    BY <1>1 DEF ActiveIsOpen, Open
  <1>2. ASSUME NEW p \in Page, PageOpens(p) PROVE ActiveIsOpen'
    BY <1>2, OpenGrows DEF PageOpens, ActiveIsOpen
  <1>3. ASSUME NEW p \in Page, PageCloses(p) PROVE ActiveIsOpen'
    <2>1. pages' \in Seq(Page) /\ Open' = Open \ {p}
      BY <1>3, RemoveAtFacts DEF PageCloses, Open, TypeOK
    <2>2. CASE active # p
      BY <1>3, <2>1, <2>2 DEF PageCloses, ActiveAfterClosing, ActiveIsOpen
    <2>3. CASE active = p /\ pages' # <<>>
      <3>1. Head(pages') = pages'[1] /\ 1 \in DOMAIN pages'
        BY <2>1, <2>3
      <3>2. Head(pages') \in Open'
        BY <3>1 DEF Open, ToSet
      <3>3. QED
        BY <1>3, <2>3, <3>2 DEF PageCloses, ActiveAfterClosing, ActiveIsOpen
    <2>4. CASE active = p /\ pages' = <<>>
      BY <1>3, <2>4 DEF PageCloses, ActiveAfterClosing, ActiveIsOpen
    <2>5. QED
      BY <2>2, <2>3, <2>4
  <1>4. ASSUME NEW p \in Page, SwitchPage(p) PROVE ActiveIsOpen'
    BY <1>4 DEF SwitchPage, ActiveIsOpen, Open
  <1>5. ASSUME RecordingReady PROVE ActiveIsOpen'
    BY <1>5 DEF RecordingReady, ActiveIsOpen, Open, ToSet, TypeOK
  <1>6. ASSUME StartReplay \/ EndSession \/ StartSession \/ ReturnToRecording PROVE ActiveIsOpen'
    BY <1>6 DEF StartReplay, EndSession, StartSession, ReturnToRecording, Cleared, ActiveIsOpen,
                Open
  <1>7. ASSUME NEW p \in Page,
               \/ SolvingStarted(p) \/ SolvingFinished(p) \/ ContinueAfterCaptcha(p)
               \/ \E g \in 0 .. Generation - 1 : LockTimesOut(p, g)
               \/ PageActs(p) \/ Navigated(p) \/ PickApplied(p)
               \/ \E k \in Kind : PickerAsked(k, p)
        PROVE ActiveIsOpen'
    BY <1>1, <1>7
       DEF SolvingStarted, SolvingFinished, ContinueAfterCaptcha, LockTimesOut, PageActs,
           Navigated, PickApplied, PickerAsked
  <1>8. ASSUME \/ \E q \in Request : StartAssertionPick(q) \/ EndAssertionPick(q)
               \/ \E a \in asked : PickerOpens(a)
               \/ \E k \in Kind : DismissPicker(k) \/ Pick(k)
               \/ \E b \in BOOLEAN : SetNativeSelects(b)
               \/ Navigate
        PROVE ActiveIsOpen'
    BY <1>1, <1>8
       DEF StartAssertionPick, EndAssertionPick, PickerOpens, DismissPicker, Pick,
           SetNativeSelects, Navigate
  <1>9. CASE UNCHANGED vars
    BY <1>1, <1>9 DEF vars
  <1>10. QED
    BY <1>2, <1>3, <1>4, <1>5, <1>6, <1>7, <1>8, <1>9 DEF Next, Step

\* Without leaves nothing pending that was on the page.
LEMMA WithoutFacts ==
    ASSUME TypeOK, NEW ks, NEW p, NEW k \in AnyPicker
    PROVE  Without(ks, p)[k] = IF k \in ks /\ picker[k].page = p THEN NoPicker ELSE picker[k]
  BY DEF Without, TypeOK, AnyPicker

\* Every step keeps pickers on open pages.
LEMMA PickersStep ==
    TypeOK /\ PickersInv /\ [Next]_vars => PickersFollowPage' /\ AskedFollowPage'
  <1> SUFFICES ASSUME TypeOK, PickersInv, [Next]_vars PROVE PickersFollowPage' /\ AskedFollowPage'
    OBVIOUS
  <1> DEFINE Goal == PickersFollowPage' /\ AskedFollowPage'
             Overlays == \A k \in Kind : picker'[k] = NoPicker \/ picker'[k] = picker[k]
             Pick1 == picker'["assertion"] = NoPicker \/ picker'["assertion"] = picker["assertion"]
  <1> USE DEF PickersInv
  <1>a. /\ TypeOK' /\ active \in Page \cup {None} /\ picker["assertion"].page \in Page \cup {None}
        /\ Kind = {"date", "select"} /\ "assertion" \notin Kind
        /\ AnyPicker = {"date", "select", "assertion"} /\ DOMAIN picker = AnyPicker
    BY TypeStep DEF TypeOK, Pending, Kind, AnyPicker
  \* Pickers may go while nothing else they depend on changes.
  <1>b. ASSUME UNCHANGED <<calm, mode, active, pages>>, Overlays, Pick1, asked' \subseteq asked,
               active # None => (lock'[active].on => lock[active].on)
        PROVE Goal
    <2>1. Open' = Open
      BY <1>b DEF Open
    <2>2. active # None => (Locked(active)' => Locked(active))
      BY <1>b DEF Locked
    <2>3. Open \subseteq Page
      BY DEF Open, ToSet, TypeOK
    <2>4. PickersFollowPage'
      BY <1>b, <2>1, <2>2, <2>3, PagesAssumption DEF PickersFollowPage, OnActivePage
    <2>5. AskedFollowPage'
      BY <1>b, <2>1, <2>2, <2>3, PagesAssumption DEF AskedFollowPage, NoOverlay
    <2>6. QED
      BY <2>4, <2>5
  <1>1. ASSUME NEW p \in Page, UNCHANGED calm, SolvingFinished(p) \/ ContinueAfterCaptcha(p)
                                 \/ (\E g \in 0 .. Generation - 1 : LockTimesOut(p, g))
        PROVE Goal
    BY <1>1, <1>b, <1>a
       DEF SolvingFinished, ContinueAfterCaptcha, LockTimesOut, ClearLocks
  <1>2. ASSUME NEW p \in Page, UNCHANGED calm, PageActs(p) \/ PickApplied(p) PROVE Goal
    BY <1>2, <1>b DEF PageActs, PickApplied, lockVars
  <1>3. ASSUME UNCHANGED calm,
               \/ \E q \in Request : EndAssertionPick(q)
               \/ \E k \in Kind : DismissPicker(k) \/ Pick(k)
               \/ \E b \in BOOLEAN : SetNativeSelects(b)
               \/ Navigate
        PROVE Goal
    BY <1>3, <1>b, <1>a
       DEF EndAssertionPick, DismissPicker, Pick, SetNativeSelects, Navigate, lockVars
  <1>4. CASE UNCHANGED vars
    BY <1>4, <1>b DEF vars, lockVars
  <1>5. ASSUME NEW p \in Page, UNCHANGED calm, Navigated(p) PROVE Goal
    BY <1>5, <1>b, <1>a, WithoutFacts DEF Navigated, lockVars
  <1>6. ASSUME NEW p \in Page, UNCHANGED calm, SolvingStarted(p) PROVE Goal
    <2>1. CASE active # p \/ mode # "recording"
      BY <1>6, <2>1, <1>b, <1>a, WithoutFacts
         DEF SolvingStarted, StartLocks, LockDismisses, Locked, LocksInRecording, TypeOK
    <2>2. CASE active = p /\ mode = "recording"
      <3>1. \A k \in AnyPicker : picker'[k] = IF picker[k].page = p THEN NoPicker ELSE picker[k]
        BY <1>6, <2>2, <1>a, WithoutFacts DEF SolvingStarted, LockDismisses
      <3>2. picker'["assertion"] = NoPicker
        BY <3>1, <2>2, <1>a DEF PickersFollowPage, OnActivePage
      <3>3. calm => \A k \in Kind : picker'[k] = NoPicker
        BY <3>1, <2>2, <1>a DEF PickersFollowPage, OnActivePage
      <3>4. calm => asked' = {}
        BY <1>6 DEF SolvingStarted, Undisturbed
      <3>5. QED
        BY <1>6, <2>2, <3>2, <3>3, <3>4 DEF PickersFollowPage, AskedFollowPage, NoOverlay
    <2>3. QED
      BY <2>1, <2>2
  <1>7. ASSUME NEW p \in Page, UNCHANGED calm, PageOpens(p) PROVE Goal
    <2>1. Open \subseteq Open'
      BY <1>7, OpenGrows
    <2>2. Open \subseteq Page
      BY DEF Open, ToSet, TypeOK
    <2>3. active \in Open => active' = active /\ (Locked(active)' => Locked(active))
      BY <1>7, <2>2, PagesAssumption DEF PageOpens, Locked, lockVars
    <2>4. PickersFollowPage'
      BY <1>7, <1>a, <2>1, <2>3 DEF PageOpens, PickersFollowPage, OnActivePage
    <2>5. AskedFollowPage'
      BY <1>7, <1>a, <2>1, <2>3 DEF PageOpens, AskedFollowPage, NoOverlay
    <2>6. QED
      BY <2>4, <2>5
  <1>8. ASSUME NEW p \in Page, UNCHANGED calm, PageCloses(p) PROVE Goal
    <2>1. Open' = Open \ {p} /\ Open \subseteq Page
      <3>1. Open' = Open \ {p}
        BY <1>8, RemoveAtFacts DEF PageCloses, Open, TypeOK
      <3>2. Open \subseteq Page
        BY DEF Open, ToSet, TypeOK
      <3>3. QED
        BY <3>1, <3>2
    <2>2. \A k \in AnyPicker : picker'[k] = IF picker[k].page = p THEN NoPicker ELSE picker[k]
      BY <1>8, <1>a, WithoutFacts DEF PageCloses
    <2>3. calm => asked' = {}
      BY <1>8 DEF PageCloses, Undisturbed
    <2>4. CASE active = p
      <3>1. picker'["assertion"] = NoPicker
        BY <2>2, <2>4, <1>a DEF PickersFollowPage, OnActivePage
      <3>2. calm => \A k \in Kind : picker'[k] = NoPicker
        BY <2>2, <2>4, <1>a DEF PickersFollowPage, OnActivePage
      <3>3. QED
        BY <1>8, <3>1, <3>2, <2>3 DEF PickersFollowPage, AskedFollowPage, NoOverlay
    <2>5. CASE active # p
      <3>1. active' = active /\ mode' = mode
        BY <1>8, <2>5 DEF PageCloses, ActiveAfterClosing
      <3>2. active # None => (Locked(active)' => Locked(active))
        BY <1>8, <3>1, <1>a DEF PageCloses, ClearLocks, Locked
      <3>3. PickersFollowPage'
        BY <1>8, <1>a, <2>1, <2>2, <2>5, <3>1, <3>2, PagesAssumption
           DEF PickersFollowPage, OnActivePage
      <3>4. AskedFollowPage'
        BY <1>8, <1>a, <2>2, <2>3, <3>1 DEF AskedFollowPage, NoOverlay
      <3>5. QED
        BY <3>3, <3>4
    <2>6. QED
      BY <2>4, <2>5
  <1>9. ASSUME NEW p \in Page, UNCHANGED calm, SwitchPage(p) PROVE Goal
    <2>1. \A k \in AnyPicker : picker[k].page = active /\ active # None => picker'[k] = NoPicker
      BY <1>9, <1>a, WithoutFacts DEF SwitchPage
    <2>2. \A k \in AnyPicker : picker[k] = NoPicker => picker'[k] = NoPicker
      BY <1>9, <1>a, WithoutFacts DEF SwitchPage
    <2>3. active \in Open => active # None
      BY PagesAssumption DEF Open, ToSet, TypeOK
    <2>4. picker'["assertion"] = NoPicker
      BY <2>1, <2>2, <2>3, <1>a DEF PickersFollowPage, OnActivePage
    <2>5. calm => asked' = {} /\ \A k \in Kind : picker'[k] = NoPicker
      BY <1>9, <2>1, <2>2, <2>3, <1>a DEF SwitchPage, Undisturbed, PickersFollowPage, OnActivePage
    <2>6. QED
      BY <1>9, <2>4, <2>5 DEF PickersFollowPage, AskedFollowPage, NoOverlay
  <1>10. ASSUME NEW p \in Page, NEW k \in Kind, UNCHANGED calm, PickerAsked(k, p) PROVE Goal
    <2>1. /\ p = active /\ active \in Open /\ ~Locked(active) /\ mode # "opening" /\ mode # "none"
          /\ UNCHANGED <<mode, pages, active, lock>>
      BY <1>10 DEF PickerAsked, Heard, lockVars, ActiveIsOpen, Open, ToSet
    <2>2. Overlays /\ picker'["assertion"] = picker["assertion"]
      BY <1>10, <1>a, WithoutFacts DEF PickerAsked
    <2>3. CASE asked' = asked
      BY <1>10, <1>b, <2>1, <2>2, <2>3
    <2>4. CASE asked' # asked
      <3>1. calm => \A l \in Kind : picker'[l] = NoPicker
        BY <1>10, <2>1, <2>4, <1>a, WithoutFacts DEF PickerAsked, PickersFollowPage, OnActivePage
      <3>2. calm => /\ \A a \in asked' : a.page = active
                    /\ \A a, b \in asked' : a = b
        BY <1>10, <2>1, <2>4 DEF PickerAsked, Undisturbed
      <3>3. Open' = Open /\ (Locked(active)' => Locked(active))
        BY <2>1 DEF Open, Locked
      <3>4. QED
        BY <1>10, <2>1, <2>2, <3>1, <3>2, <3>3
           DEF PickersFollowPage, OnActivePage, AskedFollowPage, NoOverlay
    <2>5. QED
      BY <2>3, <2>4
  <1>11. ASSUME NEW q \in Request, UNCHANGED calm, StartAssertionPick(q) PROVE Goal
    <2>1. /\ mode = "recording" /\ active # None /\ active \in Open /\ ~Locked(active)
          /\ UNCHANGED <<mode, pages, active, lock, asked>>
      BY <1>11 DEF StartAssertionPick, ActiveIsOpen, ActiveLocked, lockVars
    <2>2. Overlays /\ picker'["assertion"].page = active
      BY <1>11, <1>a, WithoutFacts DEF StartAssertionPick, Without, TypeOK
    <2>3. Open' = Open /\ (Locked(active)' => Locked(active))
      BY <2>1 DEF Open, Locked
    <2>4. QED
      BY <1>11, <1>a, <2>1, <2>2, <2>3 DEF PickersFollowPage, OnActivePage, AskedFollowPage, NoOverlay
  <1>12. ASSUME NEW a \in asked, UNCHANGED calm, PickerOpens(a) PROVE Goal
    <2>1. /\ UNCHANGED <<mode, pages, active, lock>> /\ asked' = asked \ {a}
          /\ a.kind \in Kind
      BY <1>12 DEF PickerOpens, lockVars, TypeOK
    <2>2. \A k \in AnyPicker :
            picker'[k] = IF k = a.kind /\ a.page \in Open
                         THEN [page |-> a.page, request |-> a.request] ELSE picker[k]
      BY <1>12, <1>a, <2>1 DEF PickerOpens, TypeOK
    <2>3. Open' = Open /\ (active # None => (Locked(active)' => Locked(active)))
      BY <2>1 DEF Open, Locked
    <2>4. active \in Open => active # None
      BY PagesAssumption DEF Open, ToSet, TypeOK
    <2>5. PickersFollowPage'
      BY <1>12, <1>a, <2>1, <2>2, <2>3, <2>4
         DEF PickersFollowPage, OnActivePage, AskedFollowPage, NoOverlay
    <2>6. AskedFollowPage'
      BY <1>12, <1>a, <2>1 DEF AskedFollowPage
    <2>7. QED
      BY <2>5, <2>6
  <1>13. ASSUME UNCHANGED calm, StartSession PROVE Goal
    <2>1. /\ mode = "none" /\ mode' = "opening"
          /\ UNCHANGED <<pages, active, lock, picker, asked>>
      BY <1>13 DEF StartSession, lockVars
    <2>2. QED
      BY <1>13, <2>1 DEF PickersFollowPage, AskedFollowPage, NoOverlay
  <1>14. ASSUME UNCHANGED calm, RecordingReady PROVE Goal
    <2>1. mode = "opening" /\ asked' = asked
      BY <1>14 DEF RecordingReady
    <2>2. \A k \in AnyPicker : picker[k] = NoPicker => picker'[k] = NoPicker
      BY <1>14, <1>a DEF RecordingReady
    <2>3. picker["assertion"] = NoPicker /\ (calm => asked = {} /\ NoOverlay)
      BY <2>1 DEF PickersFollowPage, AskedFollowPage
    <2>4. QED
      BY <1>14, <1>a, <2>1, <2>2, <2>3 DEF PickersFollowPage, AskedFollowPage, NoOverlay
  <1>15. ASSUME UNCHANGED calm, StartReplay \/ EndSession PROVE Goal
    <2>1. picker' = NoPickers /\ (calm => asked' = {})
      BY <1>15 DEF StartReplay, EndSession, Cleared, Undisturbed
    <2>2. \A k \in AnyPicker : picker'[k] = NoPicker
      BY <2>1 DEF NoPickers, AnyPicker
    <2>3. QED
      BY <1>15, <1>a, <2>1, <2>2 DEF PickersFollowPage, AskedFollowPage, NoOverlay
  <1>16. ASSUME UNCHANGED calm, ReturnToRecording PROVE Goal
    <2>1. /\ mode = "replay" /\ mode' = "recording"
          /\ UNCHANGED <<pages, active, lock, picker, asked>>
      BY <1>16 DEF ReturnToRecording, lockVars
    <2>2. active # None => ~Locked(active)'
      BY <2>1, <1>a DEF LocksInRecording, Locked
    <2>3. Open' = Open /\ (active \in Open => active # None)
      BY <2>1, PagesAssumption DEF Open, ToSet, TypeOK
    <2>4. QED
      BY <1>16, <2>1, <2>2, <2>3 DEF PickersFollowPage, OnActivePage, AskedFollowPage, NoOverlay
  <1>17. QED
    BY <1>1, <1>2, <1>3, <1>4, <1>5, <1>6, <1>7, <1>8, <1>9, <1>10, <1>11, <1>12, <1>13, <1>14,
       <1>15, <1>16 DEF Next, Step

\* A picker of assertions is pending only on the active, open, unlocked page, in every order
\* of locks, navigations, tab changes, closed tabs, replays and newer pickers; a date or
\* select picker in every order in which nothing disturbs the page between the click in it
\* and the opening of the picker (calm), which the code does not look at again.
THEOREM PickersAreCancelled == Spec => []PickersFollowPage
  <1>1. Init => PickersInv
    BY DEF Init, PickersInv, LocksInRecording, ActiveIsOpen, AskedFollowPage, PickersFollowPage,
           NoOverlay, NoPickers, Kind
  <1>2. TypeOK /\ PickersInv /\ [Next]_vars => PickersInv'
    BY LocksInRecordingStep, ActiveIsOpenStep, PickersStep DEF PickersInv
  <1>3. PickersInv => PickersFollowPage
    BY DEF PickersInv
  <1>4. QED
    BY <1>1, <1>2, <1>3, TypeCorrect, PTL DEF Spec

-----------------------------------------------------------------------------
(* The sessions of a client: RecorderSession *)

RuntimeRec == [grace : BOOLEAN, released : BOOLEAN, session : Session \cup {None},
               mode : {"none", "recording", "replay"}, engine : BOOLEAN,
               run : Handler \cup {None, "on"}]
TaskRec == [pc : {"idle", "applying", "switching", "creating", "opening", "viewing", "closing",
                  "abandoning", "stopping", "releasing"},
            kind : {"none", "record", "replay", "stop", "restart", "timer", "shutdown"},
            socket : Socket \cup {None}, rt : Runtime \cup {None}, session : Session \cup {None}]

\* A connected socket has a runtime, and a handler what its next step reads.
Wired ==
    /\ \A c \in open : ref[c] \in Runtime
    /\ \A h \in Handler :
         /\ task[h].pc = "applying" => task[h].socket \in Socket /\ ref[task[h].socket] \in Runtime
         /\ task[h].pc \notin {"idle", "applying"} => task[h].rt \in Runtime
         /\ task[h].pc = "releasing" /\ task[h].kind \in {"stop", "restart"} =>
              task[h].socket \in Socket

SessionInv == SessionTypeOK /\ Wired /\ SessionsAreUndisturbed /\ ReleasedIsForgotten

\* No runtime is null, nor is a session.
LEMMA NothingIsNone ==
    /\ \A r \in Runtime : r # None
    /\ \A s \in Session : s # None
    /\ \A c \in Socket : c # None
  BY RecorderAssumption

\* The records of the type invariant.
LEMMA LifeTypes ==
    SessionTypeOK <=>
      /\ rt \in [Runtime -> RuntimeRec] /\ map \in Runtime \cup {None}
      /\ ref \in [Socket -> Runtime \cup {None}]
      /\ open \in SUBSET Socket /\ alive \in SUBSET Session
      /\ task \in [Handler -> TaskRec] /\ server \in {"up", "stopping", "closing", "down"}
  BY DEF SessionTypeOK, RuntimeRec, TaskRec

\* Sessions stay undisturbed by a step in which runtimes keep or lose theirs,
\* handlers take only what a runtime loses, and only what is in hand is ended.
LEMMA StayUndisturbed ==
    ASSUME SessionsAreUndisturbed,
           \A q \in Runtime : rt'[q].session = None \/ rt'[q].session = rt[q].session,
           \A g \in Handler : \A s : s # None /\ InHand(g, s)' =>
             \/ InHand(g, s)
             \/ \E q \in Runtime : rt[q].session = s /\ rt'[q].session = None,
           \A s \in alive : s \in alive' \/ \E g \in Handler : InHand(g, s)
    PROVE  SessionsAreUndisturbed'
  <1> SUFFICES ASSUME NEW r \in Runtime, rt'[r].session # None
               PROVE  /\ rt'[r].session \in alive'
                      /\ \A o \in Runtime : rt'[o].session = rt'[r].session => o = r
                      /\ \A g \in Handler : ~(task'[g].pc # "idle" /\ task'[g].session = rt'[r].session)
    BY DEF SessionsAreUndisturbed, InHand
  <1>1. /\ rt[r].session = rt'[r].session
        /\ rt[r].session \in alive
        /\ \A o \in Runtime : rt[o].session = rt[r].session => o = r
        /\ \A g \in Handler : ~InHand(g, rt[r].session)
    BY DEF SessionsAreUndisturbed
  <1>2. rt'[r].session \in alive'
    BY <1>1
  <1>3. ASSUME NEW o \in Runtime, rt'[o].session = rt'[r].session
        PROVE  o = r
    BY <1>1, <1>3
  <1>4. ASSUME NEW g \in Handler, task'[g].pc # "idle", task'[g].session = rt'[r].session
        PROVE  FALSE
    <2> DEFINE s == rt[r].session
    <2>1. PICK x : x = s
      OBVIOUS
    <2>2. x # None /\ InHand(g, x)'
      BY <1>1, <1>4, <2>1 DEF InHand
    <2>3. InHand(g, x) \/ \E q \in Runtime : rt[q].session = x /\ rt'[q].session = None
      BY <2>2
    <2>4. QED
      BY <1>1, <2>1, <2>3
  <1>5. QED
    BY <1>2, <1>3, <1>4

\* What is being released goes on being released, and nothing else is.
LEMMA StillForgotten ==
    ASSUME ReleasedIsForgotten, map' = map, map # None => map \in Runtime,
           \A q \in Runtime : rt'[q].released = rt[q].released,
           \A g \in Handler : task[g].pc = "releasing" =>
             task'[g].pc = "releasing" /\ task'[g].rt = task[g].rt
    PROVE  ReleasedIsForgotten'
  BY DEF ReleasedIsForgotten

\* A step of a handler that is about one runtime and releases none.
LEMMA HandlerGoesOn ==
    ASSUME SessionInv, NEW r \in Runtime, NEW h \in Handler, NEW record \in RuntimeRec,
           NEW t \in TaskRec, Set(r, record), Begin(h, t),
           record.released = rt[r].released,
           record.session = None \/ record.session = rt[r].session,
           \/ t.pc = "idle" \/ t.session = None
           \/ task[h].pc # "idle" /\ t.session = task[h].session
           \/ t.session = rt[r].session /\ record.session = None,
           alive' = alive \/ (task[h].pc # "idle" /\ alive' = alive \ {task[h].session}),
           task[h].pc # "releasing" /\ t.pc # "releasing",
           t.pc = "applying" => t.socket \in Socket /\ ref[t.socket] \in Runtime,
           t.pc \notin {"idle", "applying"} => t.rt \in Runtime,
           UNCHANGED <<map, ref, open, server>>
    PROVE  SessionInv'
  <1>1. /\ rt \in [Runtime -> RuntimeRec] /\ map \in Runtime \cup {None} /\ alive \in SUBSET Session
        /\ ref \in [Socket -> Runtime \cup {None}] /\ open \in SUBSET Socket
        /\ task \in [Handler -> TaskRec] /\ server \in {"up", "stopping", "closing", "down"}
    BY LifeTypes DEF SessionInv
  <1>2. /\ rt' \in [Runtime -> RuntimeRec] /\ rt'[r] = record
        /\ \A q \in Runtime : q # r => rt'[q] = rt[q]
    BY <1>1 DEF Set
  <1>3. /\ task' \in [Handler -> TaskRec] /\ task'[h] = t
        /\ \A g \in Handler : g # h => task'[g] = task[g]
    BY <1>1 DEF Begin
  <1>4. SessionTypeOK'
    <2>1. alive' \in SUBSET Session
      BY <1>1
    <2>2. QED
      BY <1>1, <1>2, <1>3, <2>1 DEF SessionTypeOK, RuntimeRec, TaskRec
  <1>5. Wired'
    <2>1. Wired
      BY DEF SessionInv
    <2>2. \A c \in open' : ref'[c] \in Runtime
      BY <2>1 DEF Wired
    <2>3. ASSUME NEW g \in Handler
          PROVE  /\ task'[g].pc = "applying" =>
                      task'[g].socket \in Socket /\ ref'[task'[g].socket] \in Runtime
                 /\ task'[g].pc \notin {"idle", "applying"} => task'[g].rt \in Runtime
                 /\ task'[g].pc = "releasing" /\ task'[g].kind \in {"stop", "restart"} =>
                      task'[g].socket \in Socket
      <3>1. CASE g = h
        BY <3>1, <1>3
      <3>2. CASE g # h
        BY <3>2, <1>3, <2>1 DEF Wired
      <3>3. QED
        BY <3>1, <3>2
    <2>4. QED
      BY <2>2, <2>3 DEF Wired
  <1>6. SessionsAreUndisturbed'
    <2>1. \A q \in Runtime : rt'[q].session = None \/ rt'[q].session = rt[q].session
      BY <1>2
    <2>2. ASSUME NEW g \in Handler, NEW s, s # None, InHand(g, s)'
          PROVE  InHand(g, s) \/ \E q \in Runtime : rt[q].session = s /\ rt'[q].session = None
      <3>1. CASE g = h
        BY <3>1, <2>2, <1>2, <1>3 DEF InHand
      <3>2. CASE g # h
        BY <3>2, <2>2, <1>3 DEF InHand
      <3>3. QED
        BY <3>1, <3>2
    <2>3. \A s \in alive : s \in alive' \/ \E g \in Handler : InHand(g, s)
      BY DEF InHand
    <2>4. QED
      BY <2>1, <2>2, <2>3, StayUndisturbed DEF SessionInv
  <1>7. ReleasedIsForgotten'
    <2>1. \A q \in Runtime : rt'[q].released = rt[q].released
      BY <1>2
    <2>2. \A g \in Handler : task[g].pc = "releasing" =>
            task'[g].pc = "releasing" /\ task'[g].rt = task[g].rt
      BY <1>3
    <2>3. QED
      BY <1>1, <2>1, <2>2, StillForgotten DEF SessionInv
  <1>8. QED
    BY <1>4, <1>5, <1>6, <1>7 DEF SessionInv

\* What the invariant says of a handler in progress.
LEMMA Working ==
    ASSUME SessionInv, NEW h \in Handler
    PROVE  /\ rt \in [Runtime -> RuntimeRec] /\ task[h] \in TaskRec
           /\ task[h].pc \notin {"idle", "applying"} => task[h].rt \in Runtime
           /\ task[h].pc = "applying" => task[h].socket \in Socket /\ ref[task[h].socket] \in Runtime
           /\ \A c \in open : c \in Socket /\ ref[c] \in Runtime
  <1>1. task[h] \in TaskRec /\ rt \in [Runtime -> RuntimeRec] /\ open \in SUBSET Socket
    BY LifeTypes DEF SessionInv
  <1>2. QED
    BY <1>1 DEF SessionInv, Wired

\* The handler that is done.
LEMMA IdleTask ==
    Idle \in TaskRec /\ Idle.pc = "idle" /\ Idle.session = None
  BY DEF Idle, TaskRec

\* A record that is written as it was.
LEMMA SameRecord ==
    ASSUME rt \in [Runtime -> RuntimeRec], NEW r \in Runtime, UNCHANGED rt
    PROVE  Set(r, rt[r])
  BY DEF Set

\* session.start and replay.start.
LEMMA StartCommandKeeps ==
    ASSUME SessionInv, NEW h \in Handler, NEW c \in Socket, StartCommand(h, c)
    PROVE  SessionInv'
  <1>1. PICK kind \in {"record", "replay"} : Begin(h, Applying(kind, c))
    BY DEF StartCommand
  <1>2. /\ task[h].pc = "idle" /\ c \in open /\ UNCHANGED <<rt, map, ref, open, alive, server>>
    BY DEF StartCommand, Commands
  <1>3. rt \in [Runtime -> RuntimeRec] /\ ref[c] \in Runtime /\ rt[ref[c]] \in RuntimeRec
    BY <1>2, Working
  <1>4. Set(ref[c], rt[ref[c]])
    BY <1>2, <1>3, SameRecord
  <1> DEFINE t == Applying(kind, c)
  <1>5. t \in TaskRec /\ t.pc = "applying" /\ t.socket = c /\ t.session = None
    BY DEF Applying, TaskRec
  <1> HIDE DEF t
  <1>6. Begin(h, t)
    BY <1>1 DEF t
  <1>7. QED
    BY <1>2, <1>3, <1>4, <1>5, <1>6, HandlerGoesOn

\* A recording asks for its session, or finds one there.
LEMMA StartRecordingKeeps ==
    ASSUME SessionInv, NEW h \in Handler, StartRecording(h)
    PROVE  SessionInv'
  <1> DEFINE r == ref[task[h].socket]
  <1>1. /\ task[h].pc = "applying" /\ UNCHANGED <<map, ref, open, alive, server>>
        /\ r \in Runtime /\ rt[r] \in RuntimeRec /\ task[h] \in TaskRec
        /\ rt \in [Runtime -> RuntimeRec]
    BY Working DEF StartRecording
  <1>2. CASE rt[r].session = None
    <2> DEFINE record == [rt[r] EXCEPT !.mode = "recording"]
               t == [task[h] EXCEPT !.pc = "creating", !.socket = None, !.rt = r]
    <2>1. Set(r, record) /\ Begin(h, t)
      BY <1>2 DEF StartRecording
    <2>2. /\ record \in RuntimeRec /\ record.session = rt[r].session
          /\ record.released = rt[r].released
      BY <1>1 DEF RuntimeRec
    <2>3. t \in TaskRec /\ t.pc = "creating" /\ t.rt = r /\ t.session = task[h].session
      BY <1>1 DEF TaskRec
    <2> HIDE DEF record, t, r
    <2>4. QED
      BY <1>1, <2>1, <2>2, <2>3, HandlerGoesOn
  <1>3. CASE rt[r].session # None
    <2>1. Begin(h, Idle) /\ UNCHANGED rt
      BY <1>3 DEF StartRecording, End, Begin
    <2>2. Set(r, rt[r])
      BY <1>1, <2>1, SameRecord
    <2> HIDE DEF r
    <2>3. QED
      BY <1>1, <2>1, <2>2, IdleTask, HandlerGoesOn
  <1>4. QED
    BY <1>2, <1>3

\* The work of opening is over, or goes on to the live view.
LEMMA OpenedKeeps ==
    ASSUME SessionInv, NEW h \in Handler, Opened(h)
    PROVE  SessionInv'
  <1> DEFINE r == task[h].rt
             t == [task[h] EXCEPT !.pc = "viewing"]
  <1>1. /\ task[h].pc = "opening" /\ UNCHANGED <<rt, map, ref, open, alive, server>>
        /\ r \in Runtime /\ rt[r] \in RuntimeRec /\ task[h] \in TaskRec
        /\ rt \in [Runtime -> RuntimeRec]
    BY Working DEF Opened
  <1>2. Set(r, rt[r])
    BY <1>1, SameRecord
  <1>3. t \in TaskRec /\ t.pc = "viewing" /\ t.rt = r /\ t.session = task[h].session
    BY <1>1 DEF TaskRec
  <1>4. Begin(h, Idle) \/ Begin(h, t)
    BY DEF Opened, End, Begin
  <1> HIDE DEF r, t
  <1>5. CASE Begin(h, Idle)
    BY <1>1, <1>2, <1>5, IdleTask, HandlerGoesOn
  <1>6. CASE Begin(h, t)
    BY <1>1, <1>2, <1>3, <1>6, HandlerGoesOn
  <1>7. QED
    BY <1>4, <1>5, <1>6

\* A failure takes the session that is there.
LEMMA OpenFailsKeeps ==
    ASSUME SessionInv, NEW h \in Handler, OpenFails(h)
    PROVE  SessionInv'
  <1> DEFINE r == task[h].rt
             record == [rt[r] EXCEPT !.session = None]
             t == [task[h] EXCEPT !.pc = "closing", !.session = rt[r].session]
  <1>1. /\ task[h].pc \in {"creating", "opening", "viewing"}
        /\ UNCHANGED <<map, ref, open, alive, server>>
        /\ r \in Runtime /\ rt[r] \in RuntimeRec /\ task[h] \in TaskRec
        /\ rt \in [Runtime -> RuntimeRec]
    BY Working DEF OpenFails
  <1>2. Set(r, record) /\ Begin(h, t)
    BY DEF OpenFails
  <1>3. record \in RuntimeRec /\ record.session = None /\ record.released = rt[r].released
    BY <1>1 DEF RuntimeRec
  <1>4. t \in TaskRec /\ t.pc = "closing" /\ t.rt = r /\ t.session = rt[r].session
    <2>1. rt[r].session \in Session \cup {None}
      BY <1>1 DEF RuntimeRec
    <2>2. QED
      BY <1>1, <2>1 DEF TaskRec
  <1> HIDE DEF r, record, t
  <1>5. QED
    BY <1>1, <1>2, <1>3, <1>4, HandlerGoesOn

\* The browser is closed.
LEMMA BrowserClosedKeeps ==
    ASSUME SessionInv, NEW h \in Handler, BrowserClosed(h)
    PROVE  SessionInv'
  <1> DEFINE r == task[h].rt
             record == [rt[r] EXCEPT !.mode = "none"]
             t == [task[h] EXCEPT !.pc = "abandoning"]
  <1>1. /\ task[h].pc = "closing" /\ UNCHANGED <<map, ref, open, alive, server>>
        /\ r \in Runtime /\ rt[r] \in RuntimeRec /\ task[h] \in TaskRec
        /\ rt \in [Runtime -> RuntimeRec]
    BY Working DEF BrowserClosed
  <1>2. Set(r, record) /\ Begin(h, t)
    BY DEF BrowserClosed
  <1>3. record \in RuntimeRec /\ record.session = rt[r].session /\ record.released = rt[r].released
    BY <1>1 DEF RuntimeRec
  <1>4. t \in TaskRec /\ t.pc = "abandoning" /\ t.rt = r /\ t.session = task[h].session
    BY <1>1 DEF TaskRec
  <1> HIDE DEF r, record, t
  <1>5. QED
    BY <1>1, <1>2, <1>3, <1>4, HandlerGoesOn

\* What was taken is given back, or the provider keeps it.
LEMMA AbandonedKeeps ==
    ASSUME SessionInv, NEW h \in Handler, Abandoned(h)
    PROVE  SessionInv'
  <1> DEFINE r == task[h].rt
             record == [rt[r] EXCEPT !.engine = FALSE, !.run = None]
  <1>1. /\ task[h].pc = "abandoning" /\ UNCHANGED <<map, ref, open, server>>
        /\ r \in Runtime /\ rt[r] \in RuntimeRec /\ rt \in [Runtime -> RuntimeRec]
    BY Working DEF Abandoned
  <1>2. alive' = alive \/ alive' = alive \ {task[h].session}
    BY DEF Abandoned, GiveBack
  <1>3. Begin(h, Idle) /\ (Set(r, record) \/ UNCHANGED rt)
    BY DEF Abandoned, End, Begin
  <1>4. record \in RuntimeRec /\ record.session = rt[r].session /\ record.released = rt[r].released
    BY <1>1 DEF RuntimeRec
  <1>5. UNCHANGED rt => Set(r, rt[r])
    BY <1>1, SameRecord
  <1> HIDE DEF r, record
  <1>6. CASE Set(r, record)
    BY <1>1, <1>2, <1>3, <1>4, <1>6, IdleTask, HandlerGoesOn
  <1>7. CASE UNCHANGED rt
    BY <1>1, <1>2, <1>3, <1>5, <1>7, IdleTask, HandlerGoesOn
  <1>8. QED
    BY <1>3, <1>6, <1>7

\* A replay takes the session of before, or is turned down.
LEMMA StartReplayKeeps ==
    ASSUME SessionInv, NEW h \in Handler, BeginReplay(h)
    PROVE  SessionInv'
  <1> DEFINE r == ref[task[h].socket]
             record == [rt[r] EXCEPT !.mode = "replay", !.run = h, !.session = None]
             t == [task[h] EXCEPT !.pc = "switching", !.socket = None, !.rt = r,
                                  !.session = rt[r].session]
  <1>1. /\ task[h].pc = "applying" /\ UNCHANGED <<map, ref, open, alive, server>>
        /\ r \in Runtime /\ rt[r] \in RuntimeRec /\ task[h] \in TaskRec
        /\ rt \in [Runtime -> RuntimeRec]
    BY Working DEF BeginReplay
  <1>2. \/ Set(r, record) /\ Begin(h, t)
        \/ Begin(h, Idle) /\ UNCHANGED rt
    BY DEF BeginReplay, End, Begin
  <1>3. record \in RuntimeRec /\ record.session = None /\ record.released = rt[r].released
    BY <1>1 DEF RuntimeRec
  <1>4. t \in TaskRec /\ t.pc = "switching" /\ t.rt = r /\ t.session = rt[r].session
    <2>1. rt[r].session \in Session \cup {None}
      BY <1>1 DEF RuntimeRec
    <2>2. QED
      BY <1>1, <2>1 DEF TaskRec
  <1>5. UNCHANGED rt => Set(r, rt[r])
    BY <1>1, SameRecord
  <1> HIDE DEF r, record, t
  <1>6. CASE Set(r, record) /\ Begin(h, t)
    BY <1>1, <1>3, <1>4, <1>6, HandlerGoesOn
  <1>7. CASE Begin(h, Idle) /\ UNCHANGED rt
    BY <1>1, <1>5, <1>7, IdleTask, HandlerGoesOn
  <1>8. QED
    BY <1>2, <1>6, <1>7

\* The session of before is given back, and another is asked for.
LEMMA SwitchedKeeps ==
    ASSUME SessionInv, NEW h \in Handler, Switched(h)
    PROVE  SessionInv'
  <1> DEFINE r == task[h].rt
             t == [task[h] EXCEPT !.pc = "creating", !.session = None]
  <1>1. /\ task[h].pc = "switching" /\ UNCHANGED <<rt, map, ref, open, server>>
        /\ r \in Runtime /\ rt[r] \in RuntimeRec /\ task[h] \in TaskRec
        /\ rt \in [Runtime -> RuntimeRec]
    BY Working DEF Switched
  <1>2. /\ alive' = alive \/ alive' = alive \ {task[h].session}
        /\ Begin(h, t)
    BY DEF Switched, GiveBack
  <1>3. Set(r, rt[r])
    BY <1>1, SameRecord
  <1>4. t \in TaskRec /\ t.pc = "creating" /\ t.rt = r /\ t.session = None
    BY <1>1 DEF TaskRec
  <1> HIDE DEF r, t
  <1>5. QED
    BY <1>1, <1>2, <1>3, <1>4, HandlerGoesOn

\* The engine runs.
LEMMA EngineStartsKeeps ==
    ASSUME SessionInv, NEW h \in Handler, EngineStarts(h)
    PROVE  SessionInv'
  <1> DEFINE r == task[h].rt
             run == IF rt[r].run = h THEN "on" ELSE rt[r].run
             record == [rt[r] EXCEPT !.engine = TRUE, !.run = run]
  <1>1. /\ task[h].pc = "viewing" /\ UNCHANGED <<map, ref, open, alive, server>>
        /\ r \in Runtime /\ rt[r] \in RuntimeRec /\ rt \in [Runtime -> RuntimeRec]
    BY Working DEF EngineStarts
  <1>2. Set(r, record) /\ Begin(h, Idle)
    BY DEF EngineStarts, End, Begin
  <1>3. run \in Handler \cup {None, "on"}
    BY <1>1 DEF RuntimeRec
  <1> HIDE DEF run
  <1>4. record \in RuntimeRec /\ record.session = rt[r].session /\ record.released = rt[r].released
    BY <1>1, <1>3 DEF RuntimeRec
  <1> HIDE DEF r, record
  <1>5. QED
    BY <1>1, <1>2, <1>4, IdleTask, HandlerGoesOn

\* A return to recording keeps the session.
LEMMA ReturnedRecord ==
    ASSUME NEW old \in RuntimeRec
    PROVE  /\ Returned(old) \in RuntimeRec
           /\ Returned(old).session = old.session /\ Returned(old).released = old.released
  BY DEF Returned, RuntimeRec

\* A replay is asked to stop.
LEMMA StopReplayKeeps ==
    ASSUME SessionInv, NEW h \in Handler, NEW c \in Socket, StopReplay(h, c)
    PROVE  SessionInv'
  <1> DEFINE t == [pc |-> "stopping", kind |-> "replay", socket |-> None, rt |-> ref[c],
                   session |-> None]
  <1>1. /\ task[h].pc = "idle" /\ c \in open /\ UNCHANGED <<rt, map, ref, open, alive, server>>
        /\ Begin(h, t)
    BY DEF StopReplay, Commands
  <1>2. rt \in [Runtime -> RuntimeRec] /\ ref[c] \in Runtime /\ rt[ref[c]] \in RuntimeRec
    BY <1>1, Working
  <1>3. Set(ref[c], rt[ref[c]])
    BY <1>1, <1>2, SameRecord
  <1>4. t \in TaskRec /\ t.pc = "stopping" /\ t.rt = ref[c] /\ t.session = None
    BY <1>2 DEF TaskRec
  <1> HIDE DEF t
  <1>5. QED
    BY <1>1, <1>2, <1>3, <1>4, HandlerGoesOn

\* A stopped replay returns to recording.
LEMMA ReplayStoppedKeeps ==
    ASSUME SessionInv, NEW h \in Handler, ReplayStopped(h)
    PROVE  SessionInv'
  <1> DEFINE r == task[h].rt
  <1>1. /\ task[h].pc = "stopping" /\ UNCHANGED <<map, ref, open, alive, server>>
        /\ r \in Runtime /\ rt[r] \in RuntimeRec
    BY Working DEF ReplayStopped
  <1>2. Set(r, Returned(rt[r])) /\ Begin(h, Idle)
    BY DEF ReplayStopped, End, Begin
  <1> HIDE DEF r
  <1>3. QED
    BY <1>1, <1>2, IdleTask, ReturnedRecord, HandlerGoesOn

\* A step of one runtime and of no handler.
LEMMA RuntimeGoesOn ==
    ASSUME SessionInv, NEW r \in Runtime, NEW record \in RuntimeRec, Set(r, record),
           record.released = rt[r].released, record.session = rt[r].session,
           UNCHANGED <<map, alive, task, server>>, open' \in SUBSET Socket,
           ref' \in [Socket -> Runtime \cup {None}],
           Wired'
    PROVE  SessionInv'
  <1>1. /\ rt \in [Runtime -> RuntimeRec] /\ map \in Runtime \cup {None} /\ alive \in SUBSET Session
        /\ task \in [Handler -> TaskRec] /\ server \in {"up", "stopping", "closing", "down"}
    BY LifeTypes DEF SessionInv
  <1>2. /\ rt' \in [Runtime -> RuntimeRec] /\ rt'[r] = record
        /\ \A q \in Runtime : q # r => rt'[q] = rt[q]
    BY <1>1 DEF Set
  <1>3. SessionTypeOK'
    BY <1>1, <1>2 DEF SessionTypeOK, RuntimeRec, TaskRec
  <1>4. SessionsAreUndisturbed'
    BY <1>2, StayUndisturbed DEF SessionInv, InHand
  <1>5. ReleasedIsForgotten'
    BY <1>1, <1>2, StillForgotten DEF SessionInv
  <1>6. QED
    BY <1>3, <1>4, <1>5 DEF SessionInv

\* A replay ends by itself.
LEMMA ReplayEndsKeeps ==
    ASSUME SessionInv, NEW r \in Runtime, ReplayEnds(r)
    PROVE  SessionInv'
  <1>1. rt \in [Runtime -> RuntimeRec] /\ rt[r] \in RuntimeRec /\ open \in SUBSET Socket
        /\ ref \in [Socket -> Runtime \cup {None}]
    BY LifeTypes DEF SessionInv
  <1>2. Set(r, Returned(rt[r])) /\ UNCHANGED <<map, ref, open, alive, task, server>>
    BY DEF ReplayEnds
  <1>3. Wired'
    BY <1>2 DEF SessionInv, Wired
  <1>4. QED
    BY <1>1, <1>2, <1>3, ReturnedRecord, RuntimeGoesOn

\* A socket closes: its runtime may start the grace timer.
LEMMA CloseKeeps ==
    ASSUME SessionInv, NEW c \in Socket, Close(c)
    PROVE  SessionInv'
  <1> DEFINE r == ref[c]
  <1>1. /\ rt \in [Runtime -> RuntimeRec] /\ open \in SUBSET Socket /\ c \in open /\ r \in Runtime
        /\ rt[r] \in RuntimeRec /\ ref \in [Socket -> Runtime \cup {None}]
    BY LifeTypes DEF Close, SessionInv, Wired
  <1>2. /\ open' = open \ {c} /\ Set(r, Detached(rt[r])) /\ UNCHANGED <<map, alive, task, server>>
        /\ ref' = IF \E h \in Busy : task[h].socket = c THEN ref ELSE [ref EXCEPT ![c] = None]
    BY DEF Close
  <1>3. /\ Detached(rt[r]) \in RuntimeRec /\ Detached(rt[r]).released = rt[r].released
        /\ Detached(rt[r]).session = rt[r].session
    <2>1. (rt[r].grace \/ ~rt[r].released) \in BOOLEAN
      BY <1>1
    <2>2. QED
      BY <1>1, <2>1 DEF Detached, RuntimeRec
  <1>4. ref' \in [Socket -> Runtime \cup {None}] /\ \A d \in Socket : d # c => ref'[d] = ref[d]
    BY <1>1, <1>2
  <1>5. \A h \in Handler : task[h].pc # "idle" /\ task[h].socket = c => ref'[c] = ref[c]
    BY <1>2 DEF Busy
  <1>6. Wired'
    <2>1. \A d \in open' : ref'[d] \in Runtime
      BY <1>1, <1>2, <1>4 DEF SessionInv, Wired
    <2>2. \A h \in Handler : task[h].pc = "applying" =>
            task[h].socket \in Socket /\ ref'[task[h].socket] \in Runtime
      BY <1>4, <1>5 DEF SessionInv, Wired
    <2>3. QED
      BY <1>2, <2>1, <2>2 DEF SessionInv, Wired
  <1> HIDE DEF r
  <1>7. QED
    BY <1>1, <1>2, <1>3, <1>4, <1>6, RuntimeGoesOn

\* createSession resolves: the session is nobody else's.
LEMMA CreatedKeeps ==
    ASSUME SessionInv, NEW h \in Handler, SessionCreated(h)
    PROVE  SessionInv'
  <1> DEFINE r == task[h].rt
             t == [task[h] EXCEPT !.pc = "opening"]
  <1>1. /\ task[h].pc = "creating" /\ Begin(h, t) /\ UNCHANGED <<map, ref, open, server>>
        /\ r \in Runtime /\ rt[r] \in RuntimeRec /\ task[h] \in TaskRec
    BY Working DEF SessionCreated
  <1>2. PICK s \in Session : /\ FreshSession(s) /\ alive' = alive \cup {s}
                             /\ Set(r, [rt[r] EXCEPT !.session = s])
    BY DEF SessionCreated
  <1> DEFINE record == [rt[r] EXCEPT !.session = s]
  <1>3. record \in RuntimeRec /\ record.session = s /\ record.released = rt[r].released
    BY <1>1 DEF RuntimeRec
  <1>4. t \in TaskRec /\ t.pc = "opening" /\ t.rt = r /\ t.session = task[h].session
    BY <1>1 DEF TaskRec
  <1>5. /\ rt \in [Runtime -> RuntimeRec] /\ map \in Runtime \cup {None} /\ alive \in SUBSET Session
        /\ task \in [Handler -> TaskRec]
    BY LifeTypes DEF SessionInv
  <1>6. Set(r, record)
    BY <1>2
  <1> HIDE DEF r, t, record
  <1>7. /\ rt' \in [Runtime -> RuntimeRec] /\ rt'[r] = record
        /\ \A q \in Runtime : q # r => rt'[q] = rt[q]
    BY <1>1, <1>3, <1>5, <1>6 DEF Set
  <1>8. /\ task' \in [Handler -> TaskRec] /\ task'[h] = t
        /\ \A g \in Handler : g # h => task'[g] = task[g]
    BY <1>1, <1>4, <1>5 DEF Begin
  <1>9. SessionTypeOK'
    BY <1>1, <1>2, <1>7, <1>8, LifeTypes DEF SessionInv, SessionTypeOK, RuntimeRec, TaskRec
  <1>10. Wired'
    <2>1. ASSUME NEW g \in Handler
          PROVE  /\ task'[g].pc = "applying" =>
                      task'[g].socket \in Socket /\ ref'[task'[g].socket] \in Runtime
                 /\ task'[g].pc \notin {"idle", "applying"} => task'[g].rt \in Runtime
                 /\ task'[g].pc = "releasing" /\ task'[g].kind \in {"stop", "restart"} =>
                      task'[g].socket \in Socket
      <3>1. CASE g = h
        BY <3>1, <1>1, <1>4, <1>8
      <3>2. CASE g # h
        BY <3>2, <1>1, <1>8 DEF SessionInv, Wired
      <3>3. QED
        BY <3>1, <3>2
    <2>2. QED
      BY <1>1, <2>1 DEF SessionInv, Wired
  <1>11. \A g \in Handler : \A x : InHand(g, x)' => InHand(g, x)
    <2> SUFFICES ASSUME NEW g \in Handler, NEW x, InHand(g, x)' PROVE InHand(g, x)
      OBVIOUS
    <2>1. CASE g = h
      BY <2>1, <1>1, <1>4, <1>8 DEF InHand
    <2>2. CASE g # h
      BY <2>2, <1>8 DEF InHand
    <2>3. QED
      BY <2>1, <2>2
  <1>12. SessionsAreUndisturbed'
    <2> SUFFICES ASSUME NEW q \in Runtime, rt'[q].session # None
                 PROVE  /\ rt'[q].session \in alive'
                        /\ \A o \in Runtime : rt'[o].session = rt'[q].session => o = q
                        /\ \A g \in Handler : \A x : x = rt'[q].session => ~InHand(g, x)'
      BY DEF SessionsAreUndisturbed, InHand
    <2>1. \A o \in Runtime : rt[o].session # s
      BY <1>2 DEF FreshSession
    <2>2. \A g \in Handler : ~InHand(g, s)
      BY <1>2 DEF FreshSession, InHand, Busy
    <2>3. CASE q = r
      <3>1. rt'[q].session = s
        BY <2>3, <1>3, <1>7
      <3>2. QED
        BY ONLY <2>1, <2>2, <2>3, <3>1, <1>2, <1>7, <1>11
    <2>4. CASE q # r
      <3>1. rt'[q] = rt[q] /\ rt[q].session # s
        BY <2>1, <2>4, <1>7
      <3>2. /\ rt[q].session \in alive
            /\ \A o \in Runtime : rt[o].session = rt[q].session => o = q
            /\ \A g \in Handler : ~InHand(g, rt[q].session)
        BY <3>1 DEF SessionInv, SessionsAreUndisturbed
      <3>3. \A o \in Runtime : rt'[o].session = rt'[q].session => o = q
        BY <3>1, <3>2, <1>3, <1>7
      <3>4. QED
        BY ONLY <3>1, <3>2, <3>3, <1>2, <1>11
    <2>5. QED
      BY <2>3, <2>4
  <1>13. ReleasedIsForgotten'
    BY <1>1, <1>3, <1>4, <1>5, <1>7, <1>8, StillForgotten DEF SessionInv
  <1>14. QED
    BY <1>9, <1>10, <1>12, <1>13 DEF SessionInv

-----------------------------------------------------------------------------
(* Releases *)

\* A release that begins takes the session of its runtime.
LEMMA ReleaseBegins ==
    ASSUME SessionInv, NEW h \in Handler, NEW r \in Runtime,
           NEW kind \in {"stop", "restart", "timer", "shutdown"}, NEW c \in Socket \cup {None},
           kind \in {"stop", "restart"} => c \in Socket,
           task[h].pc = "idle", BeginRelease(h, kind, c, r),
           UNCHANGED <<map, ref, open, alive>>,
           server' \in {"up", "stopping", "closing", "down"}
    PROVE  SessionInv'
  <1> DEFINE record == [rt[r] EXCEPT !.released = TRUE, !.grace = FALSE, !.session = None]
             t == [pc |-> "releasing", kind |-> kind, socket |-> c, rt |-> r,
                   session |-> rt[r].session]
  <1>1. /\ rt \in [Runtime -> RuntimeRec] /\ map \in Runtime \cup {None} /\ alive \in SUBSET Session
        /\ task \in [Handler -> TaskRec] /\ ref \in [Socket -> Runtime \cup {None}]
        /\ open \in SUBSET Socket
    BY LifeTypes DEF SessionInv
  <1>2. Set(r, record) /\ Begin(h, t)
    BY DEF BeginRelease
  <1>3. record \in RuntimeRec /\ record.session = None /\ record.released
    <2>1. rt[r] \in RuntimeRec
      BY <1>1
    <2>2. QED
      BY <2>1 DEF RuntimeRec
  <1>4. /\ t \in TaskRec /\ t.pc = "releasing" /\ t.rt = r /\ t.session = rt[r].session
        /\ t.kind = kind /\ t.socket = c
    <2>1. rt[r].session \in Session \cup {None}
      BY <1>1 DEF RuntimeRec
    <2>2. QED
      BY <2>1 DEF TaskRec
  <1> HIDE DEF record, t
  <1>5. /\ rt' \in [Runtime -> RuntimeRec] /\ rt'[r] = record
        /\ \A q \in Runtime : q # r => rt'[q] = rt[q]
    BY <1>1, <1>2, <1>3 DEF Set
  <1>6. /\ task' \in [Handler -> TaskRec] /\ task'[h] = t
        /\ \A g \in Handler : g # h => task'[g] = task[g]
    BY <1>1, <1>2, <1>4 DEF Begin
  <1>7. SessionTypeOK'
    BY <1>1, <1>5, <1>6 DEF SessionTypeOK, RuntimeRec, TaskRec
  <1>8. Wired'
    <2>1. ASSUME NEW g \in Handler
          PROVE  /\ task'[g].pc = "applying" =>
                      task'[g].socket \in Socket /\ ref'[task'[g].socket] \in Runtime
                 /\ task'[g].pc \notin {"idle", "applying"} => task'[g].rt \in Runtime
                 /\ task'[g].pc = "releasing" /\ task'[g].kind \in {"stop", "restart"} =>
                      task'[g].socket \in Socket
      <3>1. CASE g = h
        BY <3>1, <1>4, <1>6
      <3>2. CASE g # h
        BY <3>2, <1>6 DEF SessionInv, Wired
      <3>3. QED
        BY <3>1, <3>2
    <2>2. QED
      BY <2>1 DEF SessionInv, Wired
  <1>9. SessionsAreUndisturbed'
    <2>1. \A q \in Runtime : rt'[q].session = None \/ rt'[q].session = rt[q].session
      BY <1>3, <1>5
    <2>2. ASSUME NEW g \in Handler, NEW s, s # None, InHand(g, s)'
          PROVE  InHand(g, s) \/ \E q \in Runtime : rt[q].session = s /\ rt'[q].session = None
      <3>1. CASE g = h
        BY <3>1, <2>2, <1>3, <1>4, <1>5, <1>6 DEF InHand
      <3>2. CASE g # h
        BY <3>2, <2>2, <1>6 DEF InHand
      <3>3. QED
        BY <3>1, <3>2
    <2>3. QED
      BY <2>1, <2>2, StayUndisturbed DEF SessionInv
  <1>10. ReleasedIsForgotten'
    <2> SUFFICES ASSUME map # None, rt'[map].released
                 PROVE  \E g \in Handler : task'[g].pc = "releasing" /\ task'[g].rt = map
      BY DEF ReleasedIsForgotten
    <2>1. CASE map = r
      BY <2>1, <1>4, <1>6
    <2>2. CASE map # r
      <3>1. rt'[map] = rt[map]
        BY <2>2, <1>1, <1>5
      <3>2. PICK g \in Handler : task[g].pc = "releasing" /\ task[g].rt = map
        BY <3>1 DEF SessionInv, ReleasedIsForgotten
      <3>3. QED
        BY <3>2, <1>6
    <2>3. QED
      BY <2>1, <2>2
  <1>11. QED
    BY <1>7, <1>8, <1>9, <1>10 DEF SessionInv

\* The grace timer.
LEMMA GraceKeeps ==
    ASSUME SessionInv, NEW h \in Handler, NEW r \in Runtime, GraceExpires(h, r)
    PROVE  SessionInv'
  <1>1. server \in {"up", "stopping", "closing", "down"}
    BY DEF SessionInv, SessionTypeOK
  <1>2. QED
    BY <1>1, ReleaseBegins DEF GraceExpires

\* A shutdown.
LEMMA ShutdownKeeps ==
    ASSUME SessionInv, NEW h \in Handler, Shutdown(h)
    PROVE  SessionInv'
  <1>1. map \in Runtime \cup {None} /\ task[h].pc = "idle" /\ UNCHANGED <<map, ref, open, alive>>
    BY DEF SessionInv, SessionTypeOK, Shutdown
  <1>2. CASE map = None \/ rt[map].released
    <2>1. server' = "closing" /\ UNCHANGED <<rt, task>>
      BY <1>2 DEF Shutdown
    <2>2. QED
      BY <1>1, <2>1 DEF SessionInv, SessionTypeOK, Wired, SessionsAreUndisturbed, InHand,
                        ReleasedIsForgotten
  <1>3. CASE ~(map = None \/ rt[map].released)
    <2>1. server' = "stopping" /\ BeginRelease(h, "shutdown", None, map) /\ map \in Runtime
      BY <1>1, <1>3 DEF Shutdown
    <2>2. QED
      BY <1>1, <2>1, ReleaseBegins
  <1>4. QED
    BY <1>2, <1>3

\* The record of a runtime that is new.
LEMMA NewRecord ==
    /\ NewRuntime \in RuntimeRec /\ NewRuntime.session = None /\ ~NewRuntime.released
    /\ \A old \in RuntimeRec :
         /\ Attached(old) \in RuntimeRec
         /\ Attached(old).session = old.session /\ Attached(old).released = old.released
  BY DEF NewRuntime, RuntimeRec, Attached

\* A handler that is over, or goes on to start, leaves a runtime of which the
\* sessions are known; another runtime may take the place of the client's.
LEMMA PlaceTaken ==
    ASSUME SessionInv, NEW h \in Handler, NEW t \in TaskRec, Begin(h, t),
           t.pc = "idle" \/ (t.pc = "applying" /\ t.session = None),
           rt' \in [Runtime -> RuntimeRec],
           \A q \in Runtime : rt'[q].session = None \/ rt'[q].session = rt[q].session,
           alive' = alive \/ (task[h].pc # "idle" /\ alive' = alive \ {task[h].session}),
           ref' \in [Socket -> Runtime \cup {None}],
           \A c \in Socket : ref'[c] = ref[c] \/ ref'[c] \in Runtime,
           t.pc = "applying" => t.socket \in Socket /\ ref'[t.socket] \in Runtime,
           map' \in Runtime \cup {None}, map' # None => ~rt'[map'].released,
           UNCHANGED open, server' \in {"up", "stopping", "closing", "down"}
    PROVE  SessionInv'
  <1>1. alive \in SUBSET Session /\ task \in [Handler -> TaskRec] /\ open \in SUBSET Socket
    BY LifeTypes DEF SessionInv
  <1>2. /\ task' \in [Handler -> TaskRec] /\ task'[h] = t
        /\ \A g \in Handler : g # h => task'[g] = task[g]
    BY <1>1 DEF Begin
  <1>3. SessionTypeOK'
    <2>1. alive' \in SUBSET Session
      BY <1>1
    <2>2. QED
      BY <1>1, <1>2, <2>1, LifeTypes DEF SessionTypeOK, RuntimeRec, TaskRec
  <1>4. Wired'
    <2>1. ASSUME NEW g \in Handler
          PROVE  /\ task'[g].pc = "applying" =>
                      task'[g].socket \in Socket /\ ref'[task'[g].socket] \in Runtime
                 /\ task'[g].pc \notin {"idle", "applying"} => task'[g].rt \in Runtime
                 /\ task'[g].pc = "releasing" /\ task'[g].kind \in {"stop", "restart"} =>
                      task'[g].socket \in Socket
      <3>1. CASE g = h
        BY <3>1, <1>2
      <3>2. CASE g # h
        <4>1. task'[g] = task[g]
          BY <3>2, <1>2
        <4>2. /\ task[g].pc = "applying" => task[g].socket \in Socket /\ ref[task[g].socket] \in Runtime
              /\ task[g].pc \notin {"idle", "applying"} => task[g].rt \in Runtime
              /\ task[g].pc = "releasing" /\ task[g].kind \in {"stop", "restart"} => task[g].socket \in Socket
          BY DEF SessionInv, Wired
        <4>3. QED
          BY <4>1, <4>2
      <3>3. QED
        BY <3>1, <3>2
    <2>2. \A c \in open' : ref'[c] \in Runtime
      BY <1>1 DEF SessionInv, Wired
    <2>3. QED
      BY <2>1, <2>2 DEF Wired
  <1>5. SessionsAreUndisturbed'
    <2>1. ASSUME NEW g \in Handler, NEW s, s # None, InHand(g, s)'
          PROVE  InHand(g, s) \/ \E q \in Runtime : rt[q].session = s /\ rt'[q].session = None
      <3>1. CASE g = h
        BY <3>1, <2>1, <1>2 DEF InHand
      <3>2. CASE g # h
        BY <3>2, <2>1, <1>2 DEF InHand
      <3>3. QED
        BY <3>1, <3>2
    <2>2. \A s \in alive : s \in alive' \/ \E g \in Handler : InHand(g, s)
      BY DEF InHand
    <2>3. QED
      BY <2>1, <2>2, StayUndisturbed DEF SessionInv
  <1>6. ReleasedIsForgotten'
    BY DEF ReleasedIsForgotten
  <1>7. QED
    BY <1>3, <1>4, <1>5, <1>6 DEF SessionInv

\* A new runtime replaces the one a stop or restart has released.
LEMMA ReplaceKeeps ==
    ASSUME SessionInv, NEW h \in Handler, NEW kind \in {"stop", "restart"}, NEW c \in Socket,
           NEW done \in [Runtime -> RuntimeRec], Replace(h, kind, c, done),
           \A q \in Runtime : done[q].session = rt[q].session,
           alive' = alive \/ (task[h].pc # "idle" /\ alive' = alive \ {task[h].session}),
           UNCHANGED open, server' \in {"up", "stopping", "closing", "down"}
    PROVE  SessionInv'
  <1>1. PICK n \in Runtime :
          /\ map' = n /\ ref' = [ref EXCEPT ![c] = n]
          /\ rt' = [done EXCEPT ![n] = Attached(NewRuntime)]
          /\ IF kind = "restart" THEN Begin(h, Applying("record", c)) ELSE End(h)
    BY DEF Replace
  <1>2. ref \in [Socket -> Runtime \cup {None}]
    BY LifeTypes DEF SessionInv
  <1>3. /\ ref' \in [Socket -> Runtime \cup {None}] /\ ref'[c] = n
        /\ \A d \in Socket : ref'[d] = ref[d] \/ ref'[d] \in Runtime
    BY <1>1, <1>2
  <1> DEFINE record == Attached(NewRuntime)
  <1>4. record \in RuntimeRec /\ record.session = None /\ ~record.released
    BY NewRecord
  <1> HIDE DEF record
  <1>5. rt' = [done EXCEPT ![n] = record]
    BY <1>1 DEF record
  <1>6. /\ rt' \in [Runtime -> RuntimeRec] /\ rt'[n] = record
        /\ \A q \in Runtime : q # n => rt'[q] = done[q]
    BY <1>4, <1>5
  <1>7. \A q \in Runtime : rt'[q].session = None \/ rt'[q].session = rt[q].session
    BY <1>4, <1>6
  <1>8. map' \in Runtime \cup {None} /\ (map' # None => ~rt'[map'].released)
    BY <1>1, <1>4, <1>6
  <1> DEFINE t == Applying("record", c)
  <1>9. t \in TaskRec /\ t.pc = "applying" /\ t.session = None /\ t.socket = c
    BY DEF Applying, TaskRec
  <1>10. Begin(h, Idle) \/ Begin(h, t)
    BY <1>1 DEF End, Begin
  <1> HIDE DEF t
  <1>11. CASE Begin(h, Idle)
    BY <1>3, <1>6, <1>7, <1>8, <1>11, IdleTask, PlaceTaken
  <1>12. CASE Begin(h, t)
    BY <1>3, <1>6, <1>7, <1>8, <1>9, <1>12, PlaceTaken
  <1>13. QED
    BY <1>10, <1>11, <1>12

\* A stop or a restart.
LEMMA StopOrRestartKeeps ==
    ASSUME SessionInv, NEW h \in Handler, NEW c \in Socket, StopOrRestart(h, c)
    PROVE  SessionInv'
  <1>1. PICK kind \in {"stop", "restart"} :
          IF rt[ref[c]].released THEN Replace(h, kind, c, rt)
          ELSE BeginRelease(h, kind, c, ref[c]) /\ UNCHANGED <<map, ref>>
    BY DEF StopOrRestart
  <1>2. /\ task[h].pc = "idle" /\ c \in open /\ UNCHANGED <<open, alive, server>>
    BY DEF StopOrRestart, Commands
  <1>3. /\ ref[c] \in Runtime /\ rt \in [Runtime -> RuntimeRec]
        /\ server \in {"up", "stopping", "closing", "down"}
    BY <1>2, LifeTypes DEF SessionInv, Wired
  <1>4. CASE rt[ref[c]].released
    <2>1. Replace(h, kind, c, rt)
      BY <1>1, <1>4
    <2>2. QED
      BY <1>2, <1>3, <2>1, ReplaceKeeps
  <1>5. CASE ~rt[ref[c]].released
    <2>1. BeginRelease(h, kind, c, ref[c]) /\ UNCHANGED <<map, ref>>
      BY <1>1, <1>5
    <2>2. QED
      BY <1>2, <1>3, <2>1, ReleaseBegins
  <1>6. QED
    BY <1>4, <1>5

\* A release is over.
LEMMA ReleasedKeeps ==
    ASSUME SessionInv, NEW h \in Handler, Released(h)
    PROVE  SessionInv'
  <1> DEFINE r == task[h].rt
             record == [rt[r] EXCEPT !.mode = "none", !.engine = FALSE, !.run = None]
  <1>1. /\ task[h].pc = "releasing" /\ UNCHANGED open
        /\ r \in Runtime /\ rt[r] \in RuntimeRec /\ task[h] \in TaskRec
        /\ rt \in [Runtime -> RuntimeRec]
    BY Working DEF Released
  <1>2. /\ alive' = alive \/ alive' = alive \ {task[h].session}
        /\ IF task[h].kind \in {"stop", "restart"}
           THEN Replace(h, task[h].kind, task[h].socket, Done(h))
           ELSE rt' = Done(h) /\ map' = None /\ End(h) /\ UNCHANGED ref
    BY DEF Released, GiveBack
  <1>3. server' \in {"up", "stopping", "closing", "down"}
    BY DEF SessionInv, SessionTypeOK, Released
  <1>4. record \in RuntimeRec /\ record.session = rt[r].session
    BY <1>1 DEF RuntimeRec
  <1>5. Done(h) = [rt EXCEPT ![r] = record]
    BY <1>1 DEF Done, RuntimeRec
  <1> HIDE DEF r, record
  <1>6. Done(h) \in [Runtime -> RuntimeRec] /\ \A q \in Runtime : Done(h)[q].session = rt[q].session
    BY <1>1, <1>4, <1>5
  <1>7. CASE task[h].kind \in {"stop", "restart"}
    <2>1. task[h].socket \in Socket
      BY <1>1, <1>7 DEF SessionInv, Wired
    <2>2. QED
      BY <1>1, <1>2, <1>3, <1>6, <1>7, <2>1, ReplaceKeeps
  <1>8. CASE task[h].kind \notin {"stop", "restart"}
    <2>1. rt' = Done(h) /\ map' = None /\ Begin(h, Idle) /\ UNCHANGED ref
      BY <1>2, <1>8 DEF End, Begin
    <2>2. ref \in [Socket -> Runtime \cup {None}]
      BY LifeTypes DEF SessionInv
    <2>3. QED
      BY <1>1, <1>2, <1>3, <1>6, <2>1, <2>2, IdleTask, PlaceTaken
  <1>9. QED
    BY <1>7, <1>8

\* A client connects.
LEMMA HelloKeeps ==
    ASSUME SessionInv, NEW c \in Socket, Hello(c)
    PROVE  SessionInv'
  <1>1. /\ rt \in [Runtime -> RuntimeRec] /\ map \in Runtime \cup {None} /\ alive \in SUBSET Session
        /\ ref \in [Socket -> Runtime \cup {None}] /\ open \in SUBSET Socket
        /\ task \in [Handler -> TaskRec]
    BY LifeTypes DEF SessionInv
  <1>2. /\ open' = open \cup {c} /\ UNCHANGED <<alive, task, server>>
        /\ \A h \in Busy : task[h].socket # c
    BY DEF Hello
  <1> DEFINE record == Attached(IF map = None THEN NewRuntime ELSE rt[map])
  <1>3. PICK r \in Runtime : /\ map = None \/ r = map
                             /\ Set(r, Attached(IF map = None THEN NewRuntime ELSE rt[r]))
                             /\ map' = r /\ ref' = [ref EXCEPT ![c] = r]
    BY DEF Hello
  <1>4. Set(r, record)
    BY <1>3
  <1>5. /\ record \in RuntimeRec
        /\ map = None => record.session = None /\ ~record.released
        /\ map # None => record.session = rt[r].session /\ record.released = rt[r].released
    BY <1>1, <1>3, NewRecord
  <1> HIDE DEF record
  <1>6. /\ rt' \in [Runtime -> RuntimeRec] /\ rt'[r] = record
        /\ \A q \in Runtime : q # r => rt'[q] = rt[q]
    BY <1>1, <1>4, <1>5 DEF Set
  <1>7. /\ ref' \in [Socket -> Runtime \cup {None}] /\ ref'[c] = r
        /\ \A d \in Socket : d # c => ref'[d] = ref[d]
    BY <1>1, <1>3
  <1>8. SessionTypeOK'
    BY <1>1, <1>2, <1>3, <1>6, <1>7, LifeTypes DEF SessionInv, SessionTypeOK, RuntimeRec, TaskRec
  <1>9. Wired'
    <2>1. \A d \in open' : ref'[d] \in Runtime
      BY <1>1, <1>2, <1>7 DEF SessionInv, Wired
    <2>2. \A h \in Handler : task[h].pc = "applying" =>
            task[h].socket \in Socket /\ ref'[task[h].socket] \in Runtime
      BY <1>2, <1>7 DEF SessionInv, Wired, Busy
    <2>3. QED
      BY <1>2, <2>1, <2>2 DEF SessionInv, Wired
  <1>10. SessionsAreUndisturbed'
    <2>1. \A q \in Runtime : rt'[q].session = None \/ rt'[q].session = rt[q].session
      BY <1>5, <1>6
    <2>2. QED
      BY <1>2, <2>1, StayUndisturbed DEF SessionInv, InHand
  <1>11. ReleasedIsForgotten'
    BY <1>2, <1>3, <1>5, <1>6, NothingIsNone DEF SessionInv, ReleasedIsForgotten
  <1>12. QED
    BY <1>8, <1>9, <1>10, <1>11 DEF SessionInv

-----------------------------------------------------------------------------
(* The theorems *)

\* Every step keeps the invariant.
LEMMA LifeNext ==
    SessionInv /\ [SessionNext]_sessionVars => SessionInv'
  <1> SUFFICES ASSUME SessionInv, [SessionNext]_sessionVars PROVE SessionInv'
    OBVIOUS
  <1>1. CASE UNCHANGED sessionVars
    BY <1>1 DEF sessionVars, SessionInv, SessionTypeOK, Wired, SessionsAreUndisturbed, InHand,
                ReleasedIsForgotten
  <1>2. CASE \E c \in Socket : Hello(c) \/ Close(c)
    BY <1>2, HelloKeeps, CloseKeeps
  <1>3. CASE \E h \in Handler : Await(h)
    BY <1>3, StartRecordingKeeps, StartReplayKeeps, CreatedKeeps, OpenedKeeps, OpenFailsKeeps,
       BrowserClosedKeeps, AbandonedKeeps, SwitchedKeeps, EngineStartsKeeps, ReplayStoppedKeeps,
       ReleasedKeeps
       DEF Await
  <1>4. CASE \E h \in Handler : Shutdown(h)
    BY <1>4, ShutdownKeeps
  <1>5. CASE \E h \in Handler, c \in Socket : \/ StartCommand(h, c) \/ StopReplay(h, c)
                                              \/ StopOrRestart(h, c)
    BY <1>5, StartCommandKeeps, StopReplayKeeps, StopOrRestartKeeps
  <1>6. CASE \E h \in Handler, r \in Runtime : GraceExpires(h, r)
    BY <1>6, GraceKeeps
  <1>7. CASE \E r \in Runtime : ReplayEnds(r)
    BY <1>7, ReplayEndsKeeps
  <1>8. CASE Exit
    BY <1>8 DEF Exit, SessionInv, SessionTypeOK, Wired, SessionsAreUndisturbed, InHand,
                ReleasedIsForgotten
  <1>9. QED
    BY <1>1, <1>2, <1>3, <1>4, <1>5, <1>6, <1>7, <1>8 DEF SessionNext

\* What holds of every state.
LEMMA LifeHolds == SessionSpec => []SessionInv
  <1>1. SessionInit => SessionInv
    <2> SUFFICES ASSUME SessionInit PROVE SessionInv
      OBVIOUS
    <2>1. SessionTypeOK
      BY DEF SessionInit, SessionTypeOK, NewRuntime, Idle
    <2>2. QED
      BY <2>1 DEF SessionInit, SessionInv, Wired, SessionsAreUndisturbed, ReleasedIsForgotten,
                  NewRuntime, Idle
  <1>2. QED
    BY <1>1, LifeNext, PTL DEF SessionSpec

\* Whatever commands, timers, failures and disconnects overlap, and whether or
\* not the provider does what it is asked to, the session a runtime works with
\* is given back by nobody and is no other runtime's (start, startReplay and
\* release take sessionId away before they await).
THEOREM SessionsAreKept == SessionSpec => []SessionsAreUndisturbed
  <1>1. SessionInv => SessionsAreUndisturbed
    BY DEF SessionInv
  <1>2. QED
    BY <1>1, LifeHolds, PTL

\* Whatever overlaps, a client that connects finds no runtime whose release is
\* over (onReleased and the new runtime of server.ts:105-122).
THEOREM EndedIsForgotten == SessionSpec => []ReleasedIsForgotten
  <1>1. SessionInv => ReleasedIsForgotten
    BY DEF SessionInv
  <1>2. QED
    BY <1>1, LifeHolds, PTL

-----------------------------------------------------------------------------
(* What a page makes of the acts on it: PageInput *)

HeldRec == {NoHeld} \cup [label : Label, act : Act]
PageRec ==
    [dirty : {d \in Seq(Field) : IsInjective(d)}, typed : [Field -> 0 .. MaxActs],
     value : [Field -> Value \cup {None}], held : HeldRec,
     suppress : BOOLEAN, locked : BOOLEAN, open : SUBSET Both, native : BOOLEAN]
IsAct(e) == e.kind \notin {"left", "request", "dismiss"}

\* An act that is recorded before another.
Fine(e, l) ==
    /\ e.act # l.act
    /\ e.act > l.act => \/ l.kind \in {"fill", "option"} /\ e.kind \in {"fill", "keypress"}
                        \/ "choice" \in {e.kind, l.kind}

\* Those recorded (r), and after them those reported (q).
InOrder(r, q) ==
    /\ \A i, j \in DOMAIN r : i < j => Fine(r[i], r[j])
    /\ \A i \in DOMAIN r, j \in DOMAIN q : IsAct(q[j]) => Fine(r[i], q[j])
    /\ \A i, j \in DOMAIN q : i < j /\ IsAct(q[i]) /\ IsAct(q[j]) => Fine(q[i], q[j])
ActsIn(q) == {e \in {q[j] : j \in DOMAIN q} : IsAct(e)}
Logged(r, q) == {r[i] : i \in DOMAIN r} \cup ActsIn(q)

\* What waits: the values in their fields, the option held, the choice that is
\* being put into the page.
Fills(p) == {Fill(p, f) : f \in ToSet(p.dirty)}
OptionOf(h) == IF h = NoHeld THEN {} ELSE {Made("option", h.label, h.act)}
ChoiceOf(ch) == IF ch = NoHeld THEN {} ELSE {Made("choice", ch.label, ch.act)}
NumbersOf(es) == {e.act : e \in es}

\* With L logged, F, H and C waiting, a acts and x of them excused: what waits
\* may come after all that is logged, and every act is somewhere, once.
Sound(F, H, L, C, a, x) ==
    /\ \A e \in L \cup F \cup H \cup C : e.act \in 1 .. a
    /\ \A e \in F : e.kind = "fill"
    /\ \A e \in H : e.kind = "option"
    /\ \A e \in C : e.kind = "choice"
    /\ \A e \in L, l \in F \cup H \cup C : Fine(e, l)
    /\ \A e, l \in F : e # l => e.act # l.act
    /\ \A e \in F, l \in H : e.act > l.act
    /\ \A e \in F \cup H, l \in C : e.act # l.act
    /\ 1 .. a \subseteq x \cup NumbersOf(L) \cup NumbersOf(F) \cup NumbersOf(H) \cup NumbersOf(C)

Good(r, q, F, H, C, a, x) ==
    /\ r \in Seq(Report) /\ q \in Seq(Report)
    /\ \A i \in DOMAIN r : IsAct(r[i])
    /\ \A i \in DOMAIN q : q[i].kind # "choice"
    /\ InOrder(r, q) /\ Sound(F, H, Logged(r, q), C, a, x)
    /\ a \in 0 .. MaxActs /\ F \in SUBSET Report /\ H \in SUBSET Report
    /\ C \in SUBSET Report

-----------------------------------------------------------------------------
(* Reports and the sequences of them *)

\* A report of an act, and one of a picker.
LEMMA ReportFields ==
    ASSUME NEW e \in Report
    PROVE  /\ IsAct(e) => e.act \in Act
           /\ ~IsAct(e) => e.act = 0
           /\ e.act \in Nat
  BY InputAssumption DEF Report, IsAct, Act

\* Reports that follow the others.
LEMMA Appended ==
    ASSUME NEW r \in Seq(Report), NEW q \in Seq(Report), NEW ms \in Seq(Report),
           InOrder(r, q),
           \A i, j \in DOMAIN ms : i < j /\ IsAct(ms[i]) /\ IsAct(ms[j]) => Fine(ms[i], ms[j]),
           \A e \in Logged(r, q), j \in DOMAIN ms : IsAct(ms[j]) => Fine(e, ms[j])
    PROVE  /\ q \o ms \in Seq(Report)
           /\ InOrder(r, q \o ms)
           /\ Logged(r, q \o ms) = Logged(r, q) \cup ActsIn(ms)
  <1> DEFINE t == q \o ms
  <1>1. /\ t \in Seq(Report) /\ Len(t) = Len(q) + Len(ms)
        /\ \A i \in 1 .. Len(q) + Len(ms) : t[i] = IF i <= Len(q) THEN q[i] ELSE ms[i - Len(q)]
    BY ConcatProperties
  <1>2. DOMAIN t = 1 .. Len(q) + Len(ms) /\ DOMAIN q = 1 .. Len(q) /\ DOMAIN ms = 1 .. Len(ms)
    BY <1>1
  <1> HIDE DEF t
  <1>3. \A i \in DOMAIN t : \/ i \in DOMAIN q /\ t[i] = q[i]
                            \/ i > Len(q) /\ i - Len(q) \in DOMAIN ms /\ t[i] = ms[i - Len(q)]
    BY <1>1, <1>2
  <1>4. \A i \in DOMAIN q : i \in DOMAIN t /\ t[i] = q[i]
    BY <1>1, <1>2
  <1>5. \A j \in DOMAIN ms : Len(q) + j \in DOMAIN t /\ t[Len(q) + j] = ms[j]
    BY <1>1, <1>2
  <1>6. ActsIn(t) = ActsIn(q) \cup ActsIn(ms)
    <2>1. ActsIn(t) \subseteq ActsIn(q) \cup ActsIn(ms)
      BY <1>3 DEF ActsIn
    <2>2. ActsIn(q) \subseteq ActsIn(t)
      BY <1>4 DEF ActsIn
    <2>3. ActsIn(ms) \subseteq ActsIn(t)
      BY <1>5 DEF ActsIn
    <2>4. QED
      BY <2>1, <2>2, <2>3
  <1>7. Logged(r, t) = Logged(r, q) \cup ActsIn(ms)
    BY <1>6 DEF Logged
  <1>8. \A i \in DOMAIN q : IsAct(q[i]) => q[i] \in Logged(r, q)
    BY DEF Logged, ActsIn
  <1>9. \A i \in DOMAIN r : r[i] \in Logged(r, q)
    BY DEF Logged
  <1>10. \A i, j \in DOMAIN t : i < j /\ IsAct(t[i]) /\ IsAct(t[j]) => Fine(t[i], t[j])
    <2> SUFFICES ASSUME NEW i \in DOMAIN t, NEW j \in DOMAIN t, i < j, IsAct(t[i]), IsAct(t[j])
                 PROVE  Fine(t[i], t[j])
      OBVIOUS
    <2>1. i \in Int /\ j \in Int /\ Len(q) \in Int
      BY <1>2
    <2>2. CASE j \in DOMAIN q
      <3>1. i \in DOMAIN q
        BY <1>2, <2>1, <2>2
      <3>2. QED
        BY <1>4, <2>2, <3>1 DEF InOrder
    <2>3. CASE i \in DOMAIN q /\ j - Len(q) \in DOMAIN ms /\ t[j] = ms[j - Len(q)]
      BY <1>4, <1>8, <2>3
    <2>4. CASE i - Len(q) \in DOMAIN ms /\ t[i] = ms[i - Len(q)] /\ j - Len(q) \in DOMAIN ms /\ t[j] = ms[j - Len(q)]
      <3>1. i - Len(q) < j - Len(q)
        BY <2>1
      <3>2. QED
        BY <2>4, <3>1
    <2>5. QED
      BY <1>3, <2>2, <2>3, <2>4
  <1>11. \A i \in DOMAIN r, j \in DOMAIN t : IsAct(t[j]) => Fine(r[i], t[j])
    BY <1>3, <1>9 DEF InOrder
  <1>12. InOrder(r, t)
    BY <1>10, <1>11 DEF InOrder
  <1>13. QED
    BY <1>1, <1>7, <1>12 DEF t

\* The first report is recorded.
LEMMA Recorded ==
    ASSUME NEW r \in Seq(Report), NEW q \in Seq(Report), q # <<>>, InOrder(r, q), IsAct(Head(q))
    PROVE  InOrder(Append(r, Head(q)), Tail(q)) /\ Logged(Append(r, Head(q)), Tail(q)) = Logged(r, q)
  <1> DEFINE s == Append(r, Head(q))
             t == Tail(q)
  <1>1. /\ s \in Seq(Report) /\ DOMAIN s = 1 .. Len(r) + 1 /\ DOMAIN r = 1 .. Len(r)
        /\ \A i \in 1 .. Len(r) : s[i] = r[i]
        /\ s[Len(r) + 1] = q[1]
    <2>1. Head(q) \in Report /\ Head(q) = q[1]
      OBVIOUS
    <2>2. QED
      BY <2>1
  <1>2. /\ t \in Seq(Report) /\ DOMAIN t = 1 .. Len(q) - 1 /\ DOMAIN q = 1 .. Len(q) /\ Len(q) > 0
        /\ \A i \in 1 .. Len(q) - 1 : t[i] = q[i + 1]
    OBVIOUS
  <1>3. IsAct(q[1])
    OBVIOUS
  <1> HIDE DEF s, t
  <1>4. \A i, j \in DOMAIN s : i < j => Fine(s[i], s[j])
    BY <1>1, <1>2, <1>3 DEF InOrder
  <1>a. \A j \in DOMAIN t : j + 1 \in DOMAIN q /\ q[j + 1] = t[j] /\ 1 < j + 1
    BY <1>2
  <1>b. \A i \in DOMAIN s : s[i] = q[1] \/ (i \in DOMAIN r /\ s[i] = r[i])
    BY <1>1
  <1>c. 1 \in DOMAIN q
    BY <1>2
  <1>5. \A i \in DOMAIN s, j \in DOMAIN t : IsAct(t[j]) => Fine(s[i], t[j])
    BY <1>a, <1>b, <1>c, <1>3 DEF InOrder
  <1>6. \A i, j \in DOMAIN t : i < j /\ IsAct(t[i]) /\ IsAct(t[j]) => Fine(t[i], t[j])
    <2>1. \A i, j \in DOMAIN t : i < j => i + 1 < j + 1
      BY <1>2
    <2>2. QED
      BY <1>a, <2>1 DEF InOrder
  <1>7. {s[i] : i \in DOMAIN s} = {r[i] : i \in DOMAIN r} \cup {q[1]}
    <2>1. {s[i] : i \in DOMAIN s} \subseteq {r[i] : i \in DOMAIN r} \cup {q[1]}
      BY <1>1
    <2>2. \A i \in DOMAIN r : i \in DOMAIN s /\ s[i] = r[i]
      BY <1>1
    <2>3. Len(r) + 1 \in DOMAIN s
      BY <1>1
    <2>4. QED
      BY <1>1, <2>1, <2>2, <2>3
  <1>8. ActsIn(q) = ActsIn(t) \cup {q[1]}
    <2>1. \A j \in DOMAIN q : j = 1 \/ (j - 1 \in DOMAIN t /\ t[j - 1] = q[j])
      BY <1>2
    <2>2. \A j \in DOMAIN t : j + 1 \in DOMAIN q /\ q[j + 1] = t[j]
      BY <1>2
    <2>3. ActsIn(q) \subseteq ActsIn(t) \cup {q[1]}
      BY <2>1 DEF ActsIn
    <2>4. ActsIn(t) \subseteq ActsIn(q)
      BY <2>2 DEF ActsIn
    <2>5. q[1] \in ActsIn(q)
      BY <1>2, <1>3 DEF ActsIn
    <2>6. QED
      BY <2>3, <2>4, <2>5
  <1>9. Logged(s, t) = Logged(r, q)
    BY <1>7, <1>8 DEF Logged
  <1>10. QED
    BY <1>4, <1>5, <1>6, <1>9 DEF InOrder, s, t

\* The first report is dropped.
LEMMA Dropped ==
    ASSUME NEW r \in Seq(Report), NEW q \in Seq(Report), q # <<>>, InOrder(r, q)
    PROVE  /\ InOrder(r, Tail(q))
           /\ Logged(r, Tail(q)) \subseteq Logged(r, q)
           /\ Logged(r, q) \subseteq Logged(r, Tail(q)) \cup {e \in {Head(q)} : IsAct(e)}
  <1> DEFINE t == Tail(q)
  <1>1. /\ t \in Seq(Report) /\ DOMAIN t = 1 .. Len(q) - 1 /\ DOMAIN q = 1 .. Len(q) /\ Len(q) > 0
        /\ \A i \in 1 .. Len(q) - 1 : t[i] = q[i + 1]
        /\ Head(q) = q[1]
    OBVIOUS
  <1> HIDE DEF t
  <1>2. \A j \in DOMAIN q : j = 1 \/ (j - 1 \in DOMAIN t /\ t[j - 1] = q[j])
    BY <1>1
  <1>3. \A j \in DOMAIN t : j + 1 \in DOMAIN q /\ q[j + 1] = t[j]
    BY <1>1
  <1>4. ActsIn(q) \subseteq ActsIn(t) \cup {e \in {q[1]} : IsAct(e)}
    BY <1>2 DEF ActsIn
  <1>5. ActsIn(t) \subseteq ActsIn(q)
    BY <1>3 DEF ActsIn
  <1>6. InOrder(r, t)
    BY <1>1, <1>3 DEF InOrder
  <1>7. QED
    BY <1>1, <1>4, <1>5, <1>6 DEF Logged, t

-----------------------------------------------------------------------------
(* What becomes of acts *)

\* Values are reported.
LEMMA FillsReported ==
    ASSUME NEW F, NEW H, NEW L, NEW C, NEW a \in Nat, NEW x, Sound(F, H, L, C, a, x),
           NEW G \in SUBSET F
    PROVE  Sound(F \ G, H, L \cup G, C, a, x)
  <1>1. \A e \in L \cup G, l \in (F \ G) \cup H \cup C : Fine(e, l)
    <2>1. \A e \in G, l \in F \ G : Fine(e, l)
      BY DEF Sound, Fine
    <2>2. \A e \in G, l \in H : Fine(e, l)
      BY DEF Sound, Fine
    <2>3. \A e \in G, l \in C : Fine(e, l)
      BY DEF Sound, Fine
    <2>4. QED
      BY <2>1, <2>2, <2>3 DEF Sound
  <1>2. NumbersOf(L) \cup NumbersOf(F) = NumbersOf(L \cup G) \cup NumbersOf(F \ G)
    BY DEF NumbersOf
  <1>3. QED
    BY <1>1, <1>2 DEF Sound

\* An option held is reported.
LEMMA HeldReported ==
    ASSUME NEW F, NEW H, NEW L, NEW C, NEW a \in Nat, NEW x, Sound(F, H, L, C, a, x),
           \A e, l \in H : e = l
    PROVE  Sound(F, {}, L \cup H, C, a, x)
  <1>1. \A e \in L \cup H, l \in F \cup C : Fine(e, l)
    <2>1. \A e \in H, l \in F : Fine(e, l)
      BY DEF Sound, Fine
    <2>2. \A e \in H, l \in C : Fine(e, l)
      BY DEF Sound, Fine
    <2>3. QED
      BY <2>1, <2>2 DEF Sound
  <1>2. NumbersOf(L) \cup NumbersOf(H) = NumbersOf(L \cup H) /\ NumbersOf({}) = {}
    BY DEF NumbersOf
  <1>3. QED
    BY <1>1, <1>2 DEF Sound

\* A new act is reported: a click or a selection when nothing waits, an Enter always.
LEMMA ActReported ==
    ASSUME NEW F, NEW H, NEW L, NEW C, NEW a \in Nat, NEW x, Sound(F, H, L, C, a, x),
           NEW m, m.act = a + 1, (F = {} /\ H = {}) \/ m.kind = "keypress"
    PROVE  Sound(F, H, L \cup {m}, C, a + 1, x)
  <1>1. \A l \in F \cup H \cup C : Fine(m, l)
    BY DEF Sound, Fine
  <1>2. NumbersOf(L \cup {m}) = NumbersOf(L) \cup {a + 1} /\ 1 .. a + 1 = (1 .. a) \cup {a + 1}
    BY DEF NumbersOf
  <1>3. 1 .. a \subseteq 1 .. a + 1 /\ a + 1 \in 1 .. a + 1
    OBVIOUS
  <1>4. QED
    BY <1>1, <1>2, <1>3 DEF Sound

\* A new act need not be reported.
LEMMA ActExcused ==
    ASSUME NEW F, NEW H, NEW L, NEW C, NEW a \in Nat, NEW x, Sound(F, H, L, C, a, x)
    PROVE  Sound(F, H, L, C, a + 1, x \cup {a + 1})
  <1>1. 1 .. a \subseteq 1 .. a + 1 /\ 1 .. a + 1 = (1 .. a) \cup {a + 1}
    OBVIOUS
  <1>2. QED
    BY <1>1 DEF Sound

\* A value waits.
LEMMA ValueWaits ==
    ASSUME NEW F, NEW H, NEW L, NEW C, NEW a \in Nat, NEW x, Sound(F, H, L, C, a, x),
           NEW m, m.act = a + 1, m.kind = "fill"
    PROVE  Sound(F \cup {m}, H, L, C, a + 1, x)
  <1>1. \A e \in L \cup F \cup H \cup C : e.act \in 1 .. a /\ e.act \in 1 .. a + 1 /\ e.act # a + 1 /\ ~(e.act > a + 1)
    BY DEF Sound
  <1>2. \A e \in L : Fine(e, m)
    BY <1>1 DEF Fine
  <1>3. NumbersOf(F \cup {m}) = NumbersOf(F) \cup {a + 1} /\ 1 .. a + 1 = (1 .. a) \cup {a + 1}
    BY DEF NumbersOf
  <1>4. \A l \in H : m.act > l.act
    BY <1>1
  <1>5. \A l \in F \cup C : m.act # l.act
    BY <1>1
  <1>6. a + 1 \in 1 .. a + 1
    OBVIOUS
  <1>7. QED
    BY <1>1, <1>2, <1>3, <1>4, <1>5, <1>6 DEF Sound

\* An option is held, when nothing else waits.
LEMMA OptionWaits ==
    ASSUME NEW L, NEW C, NEW a \in Nat, NEW x, Sound({}, {}, L, C, a, x),
           NEW m, m.act = a + 1, m.kind = "option"
    PROVE  Sound({}, {m}, L, C, a + 1, x)
  <1>1. \A e \in L \cup C : e.act \in 1 .. a /\ e.act \in 1 .. a + 1 /\ e.act # a + 1 /\ ~(e.act > a + 1)
    BY DEF Sound
  <1>2. \A e \in L : Fine(e, m)
    BY <1>1 DEF Fine
  <1>3. NumbersOf({m}) = {a + 1} /\ NumbersOf({}) = {} /\ 1 .. a + 1 = (1 .. a) \cup {a + 1}
    BY DEF NumbersOf
  <1>4. a + 1 \in 1 .. a + 1
    OBVIOUS
  <1>5. QED
    BY <1>1, <1>2, <1>3, <1>4 DEF Sound

\* A choice waits.
LEMMA ChoiceWaits ==
    ASSUME NEW F, NEW H, NEW L, NEW a \in Nat, NEW x, Sound(F, H, L, {}, a, x),
           NEW m, m.act = a + 1, m.kind = "choice"
    PROVE  Sound(F, H, L, {m}, a + 1, x)
  <1>1. \A e \in L \cup F \cup H : e.act \in 1 .. a /\ e.act \in 1 .. a + 1 /\ e.act # a + 1 /\ ~(e.act > a + 1)
    BY DEF Sound
  <1>2. \A e \in L : Fine(e, m)
    BY <1>1 DEF Fine
  <1>3. NumbersOf({m}) = {a + 1} /\ NumbersOf({}) = {} /\ 1 .. a + 1 = (1 .. a) \cup {a + 1}
    BY DEF NumbersOf
  <1>4. a + 1 \in 1 .. a + 1
    OBVIOUS
  <1>5. QED
    BY <1>1, <1>2, <1>3, <1>4 DEF Sound

\* A choice is recorded.
LEMMA ChoiceJoins ==
    ASSUME NEW F, NEW H, NEW L, NEW C, NEW a \in Nat, NEW x, Sound(F, H, L, C, a, x),
           \A e, l \in C : e = l
    PROVE  Sound(F, H, L \cup C, {}, a, x)
  <1>1. \A e \in C, l \in F \cup H : Fine(e, l)
    BY DEF Sound, Fine
  <1>2. NumbersOf(L) \cup NumbersOf(C) = NumbersOf(L \cup C) /\ NumbersOf({}) = {}
    BY DEF NumbersOf
  <1>3. QED
    BY <1>1, <1>2 DEF Sound

\* What is dropped is excused.
LEMMA LessIsSound ==
    ASSUME NEW F, NEW H, NEW L, NEW C, NEW a \in Nat, NEW x, Sound(F, H, L, C, a, x),
           NEW F2 \in SUBSET F, NEW H2 \in SUBSET H, NEW L2 \in SUBSET L, NEW C2 \in SUBSET C, NEW x2,
           x \subseteq x2, \A e \in (F \ F2) \cup (H \ H2) \cup (L \ L2) \cup (C \ C2) : e.act \in x2
    PROVE  Sound(F2, H2, L2, C2, a, x2)
  <1>1. /\ NumbersOf(F) \subseteq NumbersOf(F2) \cup x2 /\ NumbersOf(H) \subseteq NumbersOf(H2) \cup x2
        /\ NumbersOf(L) \subseteq NumbersOf(L2) \cup x2 /\ NumbersOf(C) \subseteq NumbersOf(C2) \cup x2
    BY DEF NumbersOf
  <1>2. QED
    BY <1>1 DEF Sound

\* No choice is among reports of the page.
LEMMA NoChoices ==
    ASSUME NEW q \in Seq(Report), NEW ms \in Seq(Report),
           \A i \in DOMAIN q : q[i].kind # "choice",
           \A i \in DOMAIN ms : ms[i].kind # "choice"
    PROVE  \A i \in DOMAIN (q \o ms) : (q \o ms)[i].kind # "choice"
  <1>1. /\ q \o ms \in Seq(Report) /\ Len(q \o ms) = Len(q) + Len(ms)
        /\ \A i \in 1 .. Len(q) + Len(ms) : (q \o ms)[i] = IF i <= Len(q) THEN q[i] ELSE ms[i - Len(q)]
    BY ConcatProperties
  <1>2. QED
    BY <1>1

\* A report of an act that follows the others.
LEMMA OneAppended ==
    ASSUME NEW r \in Seq(Report), NEW q \in Seq(Report), InOrder(r, q),
           \A i \in DOMAIN q : q[i].kind # "choice",
           NEW m \in Report, IsAct(m), m.kind # "choice", \A e \in Logged(r, q) : Fine(e, m)
    PROVE  /\ q \o <<m>> \in Seq(Report) /\ InOrder(r, q \o <<m>>)
           /\ Logged(r, q \o <<m>>) = Logged(r, q) \cup {m}
           /\ \A i \in DOMAIN (q \o <<m>>) : (q \o <<m>>)[i].kind # "choice"
  <1> DEFINE ms == <<m>>
  <1>1. ms \in Seq(Report) /\ DOMAIN ms = {1} /\ ms[1] = m
    OBVIOUS
  <1> HIDE DEF ms
  <1>2. ActsIn(ms) = {m}
    BY <1>1 DEF ActsIn
  <1>3. \A i, j \in DOMAIN ms : ~(i < j)
    BY <1>1
  <1>4. \A e \in Logged(r, q), j \in DOMAIN ms : IsAct(ms[j]) => Fine(e, ms[j])
    BY <1>1
  <1>5. /\ q \o ms \in Seq(Report) /\ InOrder(r, q \o ms)
        /\ Logged(r, q \o ms) = Logged(r, q) \cup {m}
    BY <1>1, <1>2, <1>3, <1>4, Appended
  <1>6. \A i \in DOMAIN ms : ms[i].kind # "choice"
    BY <1>1
  <1>7. \A i \in DOMAIN (q \o ms) : (q \o ms)[i].kind # "choice"
    BY <1>1, <1>6, NoChoices
  <1>8. QED
    BY <1>5, <1>7 DEF ms

-----------------------------------------------------------------------------
(* What is reported *)

\* What is logged is reports of acts.
LEMMA LoggedReports ==
    ASSUME NEW r \in Seq(Report), NEW q \in Seq(Report), \A i \in DOMAIN r : IsAct(r[i])
    PROVE  Logged(r, q) \subseteq Report /\ \A e \in Logged(r, q) : IsAct(e)
  BY DEF Logged, ActsIn

\* Waiting values that are reported, each once.
LEMMA FillsGo ==
    ASSUME NEW r, NEW q, NEW F, NEW H, NEW C, NEW a, NEW x, Good(r, q, F, H, C, a, x),
           NEW ms \in Seq(Report), NEW G \in SUBSET F,
           \A i \in DOMAIN ms : ms[i] \in G, \A e \in G : \E i \in DOMAIN ms : ms[i] = e,
           \A i, j \in DOMAIN ms : i < j => ms[i] # ms[j]
    PROVE  Good(r, q \o ms, F \ G, H, C, a, x)
  <1>1. \A e \in F : e.kind = "fill" /\ IsAct(e)
    BY DEF Good, Sound, IsAct
  <1>2. ActsIn(ms) = G
    <2>1. ActsIn(ms) \subseteq G
      BY DEF ActsIn
    <2>2. \A e \in G : e \in ActsIn(ms)
      BY <1>1 DEF ActsIn
    <2>3. QED
      BY <2>1, <2>2
  <1>3. \A i, j \in DOMAIN ms : i < j /\ IsAct(ms[i]) /\ IsAct(ms[j]) => Fine(ms[i], ms[j])
    BY <1>1 DEF Good, Sound, Fine
  <1>4. \A e \in Logged(r, q), j \in DOMAIN ms : IsAct(ms[j]) => Fine(e, ms[j])
    BY DEF Good, Sound
  <1>5. /\ q \o ms \in Seq(Report) /\ InOrder(r, q \o ms)
        /\ Logged(r, q \o ms) = Logged(r, q) \cup G
    BY <1>2, <1>3, <1>4, Appended DEF Good
  <1>6. Sound(F \ G, H, Logged(r, q \o ms), C, a, x)
    <2>1. Sound(F, H, Logged(r, q), C, a, x) /\ a \in Nat
      BY DEF Good
    <2>2. Sound(F \ G, H, Logged(r, q) \cup G, C, a, x)
      BY <2>1, FillsReported
    <2>3. QED
      BY <1>5, <2>2
  <1>7. \A i \in DOMAIN ms : ms[i].kind # "choice"
    BY <1>1
  <1>8. \A i \in DOMAIN (q \o ms) : (q \o ms)[i].kind # "choice"
    BY <1>7, NoChoices DEF Good
  <1>9. QED
    BY <1>5, <1>6, <1>8 DEF Good

\* The option held, if there is one, is reported.
LEMMA HeldGoes ==
    ASSUME NEW r, NEW q, NEW F, NEW C, NEW a, NEW x, NEW h \in HeldRec,
           Good(r, q, F, OptionOf(h), C, a, x),
           NEW ms, ms = IF h = NoHeld THEN <<>> ELSE <<Made("option", h.label, h.act)>>
    PROVE  Good(r, q \o ms, F, {}, C, a, x)
  <1>1. CASE h = NoHeld
    <2>1. ms = <<>> /\ OptionOf(h) = {}
      BY <1>1 DEF OptionOf
    <2>2. q \o ms = q
      BY <2>1, ConcatEmptySeq DEF Good
    <2>3. QED
      BY <2>1, <2>2
  <1>2. CASE h # NoHeld
    <2> DEFINE m == Made("option", h.label, h.act)
    <2>1. ms = <<m>> /\ OptionOf(h) = {m}
      BY <1>2 DEF OptionOf
    <2>2. m \in Report /\ m.kind = "option" /\ IsAct(m)
      BY <1>2 DEF HeldRec, Made, Report, IsAct
    <2> HIDE DEF m
    <2>3. /\ r \in Seq(Report) /\ q \in Seq(Report) /\ InOrder(r, q) /\ a \in Nat
          /\ Sound(F, {m}, Logged(r, q), C, a, x)
          /\ \A i \in DOMAIN q : q[i].kind # "choice"
      BY <2>1 DEF Good
    <2>4. \A e \in Logged(r, q) : Fine(e, m)
      BY <2>3 DEF Sound
    <2>5. /\ q \o <<m>> \in Seq(Report) /\ InOrder(r, q \o <<m>>)
          /\ Logged(r, q \o <<m>>) = Logged(r, q) \cup {m}
          /\ \A i \in DOMAIN (q \o <<m>>) : (q \o <<m>>)[i].kind # "choice"
      BY <2>2, <2>3, <2>4, OneAppended
    <2>6. \A e, l \in {m} : e = l
      OBVIOUS
    <2>7. Sound(F, {}, Logged(r, q) \cup {m}, C, a, x)
      BY <2>3, <2>6, HeldReported
    <2>8. Good(r, q \o <<m>>, F, {}, C, a, x)
      BY <2>5, <2>7 DEF Good
    <2>9. QED
      BY <2>1, <2>8
  <1>3. QED
    BY <1>1, <1>2

\* A new act is reported.
LEMMA ActGoes ==
    ASSUME NEW r, NEW q, NEW F, NEW H, NEW C, NEW a, NEW x, Good(r, q, F, H, C, a, x),
           a < MaxActs,
           NEW m \in Report, m.act = a + 1, m.kind # "choice", IsAct(m),
           (F = {} /\ H = {}) \/ m.kind = "keypress"
    PROVE  Good(r, q \o <<m>>, F, H, C, a + 1, x)
  <1>1. a \in Nat /\ a + 1 \in 0 .. MaxActs
    BY InputAssumption DEF Good
  <1>2. \A e \in Logged(r, q) : Fine(e, m)
    BY <1>1 DEF Good, Sound, Fine
  <1>3. /\ q \o <<m>> \in Seq(Report) /\ InOrder(r, q \o <<m>>)
        /\ Logged(r, q \o <<m>>) = Logged(r, q) \cup {m}
        /\ \A i \in DOMAIN (q \o <<m>>) : (q \o <<m>>)[i].kind # "choice"
    BY <1>2, OneAppended DEF Good
  <1>4. Sound(F, H, Logged(r, q), C, a, x)
    BY DEF Good
  <1>5. Sound(F, H, Logged(r, q) \cup {m}, C, a + 1, x)
    BY <1>1, <1>4, ActReported
  <1>6. QED
    BY <1>1, <1>3, <1>5 DEF Good

\* Pickers are reported.
LEMMA PickersGo ==
    ASSUME NEW r, NEW q, NEW F, NEW H, NEW C, NEW a, NEW x, Good(r, q, F, H, C, a, x),
           NEW ms \in Seq(Report), \A i \in DOMAIN ms : ~IsAct(ms[i])
    PROVE  Good(r, q \o ms, F, H, C, a, x)
  <1>1. ActsIn(ms) = {}
    BY DEF ActsIn
  <1>2. /\ q \o ms \in Seq(Report) /\ InOrder(r, q \o ms)
        /\ Logged(r, q \o ms) = Logged(r, q)
    <2>1. r \in Seq(Report) /\ q \in Seq(Report) /\ InOrder(r, q)
      BY DEF Good
    <2>2. /\ \A i, j \in DOMAIN ms : i < j /\ IsAct(ms[i]) /\ IsAct(ms[j]) => Fine(ms[i], ms[j])
          /\ \A e \in Logged(r, q), j \in DOMAIN ms : IsAct(ms[j]) => Fine(e, ms[j])
      OBVIOUS
    <2>3. /\ q \o ms \in Seq(Report) /\ InOrder(r, q \o ms)
          /\ Logged(r, q \o ms) = Logged(r, q) \cup ActsIn(ms)
      BY <2>1, <2>2, Appended
    <2>4. QED
      BY <1>1, <2>3
  <1>3. \A i \in DOMAIN ms : ms[i].kind # "choice"
    BY DEF IsAct
  <1>4. \A i \in DOMAIN (q \o ms) : (q \o ms)[i].kind # "choice"
    BY <1>3, NoChoices DEF Good
  <1>5. QED
    BY <1>2, <1>4 DEF Good

\* A new act need not be reported.
LEMMA ExcusedGoes ==
    ASSUME NEW r, NEW q, NEW F, NEW H, NEW C, NEW a, NEW x, Good(r, q, F, H, C, a, x),
           a < MaxActs
    PROVE  Good(r, q, F, H, C, a + 1, x \cup {a + 1})
  <1>1. a \in Nat /\ a + 1 \in 0 .. MaxActs
    BY InputAssumption DEF Good
  <1>2. Sound(F, H, Logged(r, q), C, a, x)
    BY DEF Good
  <1>3. Sound(F, H, Logged(r, q), C, a + 1, x \cup {a + 1})
    BY <1>1, <1>2, ActExcused
  <1>4. QED
    BY <1>1, <1>3 DEF Good

\* A value is typed.
LEMMA ValueGoes ==
    ASSUME NEW r, NEW q, NEW F, NEW H, NEW C, NEW a, NEW x, Good(r, q, F, H, C, a, x),
           a < MaxActs,
           NEW m \in Report, m.act = a + 1, m.kind = "fill"
    PROVE  Good(r, q, F \cup {m}, H, C, a + 1, x)
  <1>1. a \in Nat /\ a + 1 \in 0 .. MaxActs
    BY InputAssumption DEF Good
  <1>2. Sound(F, H, Logged(r, q), C, a, x)
    BY DEF Good
  <1>3. Sound(F \cup {m}, H, Logged(r, q), C, a + 1, x)
    BY <1>1, <1>2, ValueWaits
  <1>4. QED
    BY <1>1, <1>3 DEF Good

\* An option is held.
LEMMA OptionGoes ==
    ASSUME NEW r, NEW q, NEW C, NEW a, NEW x, Good(r, q, {}, {}, C, a, x), a < MaxActs,
           NEW m \in Report, m.act = a + 1, m.kind = "option"
    PROVE  Good(r, q, {}, {m}, C, a + 1, x)
  <1>1. a \in Nat /\ a + 1 \in 0 .. MaxActs
    BY InputAssumption DEF Good
  <1>2. Sound({}, {}, Logged(r, q), C, a, x)
    BY DEF Good
  <1>3. Sound({}, {m}, Logged(r, q), C, a + 1, x)
    BY <1>1, <1>2, OptionWaits
  <1>4. QED
    BY <1>1, <1>3 DEF Good

\* A choice is made.
LEMMA ChoiceGoes ==
    ASSUME NEW r, NEW q, NEW F, NEW H, NEW a, NEW x, Good(r, q, F, H, {}, a, x),
           a < MaxActs,
           NEW m \in Report, m.act = a + 1, m.kind = "choice"
    PROVE  Good(r, q, F, H, {m}, a + 1, x)
  <1>1. a \in Nat /\ a + 1 \in 0 .. MaxActs
    BY InputAssumption DEF Good
  <1>2. Sound(F, H, Logged(r, q), {}, a, x)
    BY DEF Good
  <1>3. Sound(F, H, Logged(r, q), {m}, a + 1, x)
    BY <1>1, <1>2, ChoiceWaits
  <1>4. QED
    BY <1>1, <1>3 DEF Good

\* What waits is dropped and excused.
LEMMA LessGoes ==
    ASSUME NEW r, NEW q, NEW F, NEW H, NEW C, NEW a, NEW x, Good(r, q, F, H, C, a, x),
           NEW F2 \in SUBSET F, NEW H2 \in SUBSET H, NEW C2 \in SUBSET C, NEW x2,
           x \subseteq x2, \A e \in (F \ F2) \cup (H \ H2) \cup (C \ C2) : e.act \in x2
    PROVE  Good(r, q, F2, H2, C2, a, x2)
  <1>1. Sound(F, H, Logged(r, q), C, a, x) /\ a \in Nat
    BY DEF Good
  <1>2. Sound(F2, H2, Logged(r, q), C2, a, x2)
    BY <1>1, LessIsSound
  <1>3. QED
    BY <1>2 DEF Good

\* A choice is recorded, ahead of what is on its way.
LEMMA ChoiceRecorded ==
    ASSUME NEW r, NEW q, NEW F, NEW H, NEW m, NEW a, NEW x, Good(r, q, F, H, {m}, a, x)
    PROVE  Good(Append(r, m), q, F, H, {}, a, x)
  <1> DEFINE s == Append(r, m)
  <1>1. r \in Seq(Report) /\ m \in Report /\ m.kind = "choice"
    BY DEF Good, Sound
  <1>2. /\ s \in Seq(Report) /\ DOMAIN s = 1 .. Len(r) + 1 /\ DOMAIN r = 1 .. Len(r)
        /\ \A i \in 1 .. Len(r) : s[i] = r[i]
        /\ s[Len(r) + 1] = m
    BY <1>1
  <1> HIDE DEF s
  <1>3. IsAct(m)
    BY <1>1 DEF IsAct
  <1>4. \A i \in DOMAIN r : i \in DOMAIN s /\ s[i] = r[i]
    BY <1>2
  <1>5. Logged(s, q) = Logged(r, q) \cup {m}
    <2>1. {s[i] : i \in DOMAIN s} \subseteq {r[i] : i \in DOMAIN r} \cup {m}
      BY <1>2
    <2>2. Len(r) + 1 \in DOMAIN s
      BY <1>2
    <2>3. {s[i] : i \in DOMAIN s} = {r[i] : i \in DOMAIN r} \cup {m}
      BY <1>2, <1>4, <2>1, <2>2
    <2>4. QED
      BY <2>3 DEF Logged
  <1>6. \A e \in Logged(r, q) : Fine(e, m) /\ Fine(m, e)
    BY <1>1 DEF Good, Sound, Fine
  <1>7. InOrder(s, q)
    <2>1. \A i \in DOMAIN r : Fine(r[i], m)
      BY <1>6 DEF Logged
    <2>2. \A j \in DOMAIN q : IsAct(q[j]) => Fine(m, q[j])
      BY <1>6 DEF Logged, ActsIn
    <2>3. \A i \in DOMAIN s : (i \in DOMAIN r /\ s[i] = r[i]) \/ (i = Len(r) + 1 /\ s[i] = m)
      BY <1>2
    <2>4. \A i, j \in DOMAIN s : i < j => i \in DOMAIN r
      BY <1>2
    <2>5. \A i, j \in DOMAIN s : i < j => Fine(s[i], s[j])
      BY <2>1, <2>3, <2>4 DEF Good, InOrder
    <2>6. \A i \in DOMAIN s, j \in DOMAIN q : IsAct(q[j]) => Fine(s[i], q[j])
      BY <2>2, <2>3 DEF Good, InOrder
    <2>7. QED
      BY <2>5, <2>6 DEF Good, InOrder
  <1>8. Sound(F, H, Logged(s, q), {}, a, x)
    <2>1. Sound(F, H, Logged(r, q), {m}, a, x) /\ a \in Nat
      BY DEF Good
    <2>2. \A e, l \in {m} : e = l
      OBVIOUS
    <2>3. Sound(F, H, Logged(r, q) \cup {m}, {}, a, x)
      BY <2>1, <2>2, ChoiceJoins
    <2>4. QED
      BY <1>5, <2>3
  <1>9. \A i \in DOMAIN s : IsAct(s[i])
    BY <1>2, <1>3 DEF Good
  <1>10. QED
    BY <1>2, <1>7, <1>8, <1>9 DEF Good, s

\* The first report on its way is heard: recorded if it is of an act, or dropped and excused.
LEMMA HeardGoes ==
    ASSUME NEW r, NEW q, NEW F, NEW H, NEW C, NEW a, NEW x, Good(r, q, F, H, C, a, x), q # <<>>
    PROVE  /\ IsAct(Head(q)) => Good(Append(r, Head(q)), Tail(q), F, H, C, a, x)
           /\ ~IsAct(Head(q)) => Good(r, Tail(q), F, H, C, a, x)
           /\ \A y : x \cup {Head(q).act} \subseteq y => Good(r, Tail(q), F, H, C, a, y)
  <1>1. /\ r \in Seq(Report) /\ q \in Seq(Report) /\ InOrder(r, q) /\ a \in Nat
        /\ Sound(F, H, Logged(r, q), C, a, x)
    BY DEF Good
  <1>2. /\ Tail(q) \in Seq(Report) /\ Head(q) \in Report
        /\ Append(r, Head(q)) \in Seq(Report)
        /\ \A i \in DOMAIN Tail(q) : i + 1 \in DOMAIN q /\ Tail(q)[i] = q[i + 1]
    BY <1>1
  <1>3. \A i \in DOMAIN Tail(q) : Tail(q)[i].kind # "choice"
    BY <1>2 DEF Good
  <1>4. ASSUME IsAct(Head(q)) PROVE Good(Append(r, Head(q)), Tail(q), F, H, C, a, x)
    <2>1. InOrder(Append(r, Head(q)), Tail(q)) /\ Logged(Append(r, Head(q)), Tail(q)) = Logged(r, q)
      BY <1>1, <1>4, Recorded
    <2>2. \A i \in DOMAIN Append(r, Head(q)) : IsAct(Append(r, Head(q))[i])
      BY <1>1, <1>2, <1>4 DEF Good
    <2>3. QED
      BY <1>1, <1>2, <1>3, <2>1, <2>2 DEF Good
  <1>5. /\ InOrder(r, Tail(q)) /\ Logged(r, Tail(q)) \subseteq Logged(r, q)
        /\ Logged(r, q) \subseteq Logged(r, Tail(q)) \cup {e \in {Head(q)} : IsAct(e)}
    BY <1>1, Dropped
  <1>6. ASSUME ~IsAct(Head(q)) PROVE Good(r, Tail(q), F, H, C, a, x)
    <2>1. Logged(r, Tail(q)) = Logged(r, q)
      BY <1>5, <1>6
    <2>2. QED
      BY <1>1, <1>2, <1>3, <1>5, <2>1 DEF Good
  <1>7. ASSUME NEW y, x \cup {Head(q).act} \subseteq y PROVE Good(r, Tail(q), F, H, C, a, y)
    <2>1. \A e \in (F \ F) \cup (H \ H) \cup (Logged(r, q) \ Logged(r, Tail(q))) \cup (C \ C) : e.act \in y
      BY <1>5, <1>7
    <2>2. Sound(F, H, Logged(r, Tail(q)), C, a, y)
      BY <1>1, <1>5, <1>7, <2>1, LessIsSound
    <2>3. QED
      BY <1>1, <1>2, <1>3, <1>5, <2>2 DEF Good
  <1>8. QED
    BY <1>4, <1>6, <1>7

-----------------------------------------------------------------------------
(* Pages *)

\* A field taken out of the dirty ones.
LEMMA RemoveFirstFacts ==
    ASSUME NEW T, NEW s \in Seq(T), IsInjective(s), NEW e
    PROVE  /\ RemoveFirst(s, e) \in Seq(T)
           /\ IsInjective(RemoveFirst(s, e))
           /\ ToSet(RemoveFirst(s, e)) = ToSet(s) \ {e}
  <1>1. CASE \E i \in 1 .. Len(s) : s[i] = e
    <2> DEFINE I == {i \in 1 .. Len(s) : s[i] = e}
    <2>1. PICK i \in 1 .. Len(s) : s[i] = e
      BY <1>1
    <2>2. I = {i}
      BY <2>1 DEF IsInjective
    <2>3. Min(I) = i
      BY <2>2 DEF Min
    <2>4. RemoveFirst(s, e) = RemoveAt(s, i)
      BY <1>1, <2>2, <2>3 DEF RemoveFirst, SelectInSeq
    <2>5. QED
      BY <2>1, <2>4, RemoveAtFacts
  <1>2. CASE ~\E i \in 1 .. Len(s) : s[i] = e
    <2>1. RemoveFirst(s, e) = s
      BY <1>2 DEF RemoveFirst
    <2>2. e \notin ToSet(s)
      BY <1>2 DEF ToSet
    <2>3. QED
      BY <2>1, <2>2
  <1>3. QED
    BY <1>1, <1>2

State(p, q, r, ch, a, x) ==
    p \in PageRec /\ ch \in HeldRec /\ Good(r, q, Fills(p), OptionOf(p.held), ChoiceOf(ch), a, x)

\* What waits is told by the dirty fields, what was typed and the option held.
LEMMA SameFills ==
    ASSUME NEW p, NEW p2, p2.dirty = p.dirty, p2.typed = p.typed /\ p2.value = p.value
    PROVE  Fills(p2) = Fills(p) /\ FlushFields(p2) = FlushFields(p)
  BY DEF Fills, FlushFields, Fill

\* Pickers, the lock and suppressKeyboardClick make no difference.
LEMMA PageAlike ==
    ASSUME NEW p, NEW q, NEW r, NEW ch, NEW a, NEW x, State(p, q, r, ch, a, x),
           NEW p2 \in PageRec, p2.dirty = p.dirty, p2.typed = p.typed /\ p2.value = p.value, p2.held = p.held
    PROVE  State(p2, q, r, ch, a, x)
  BY SameFills DEF State

\* No value waits when no field is dirty.
LEMMA NoFills ==
    ASSUME NEW p, p.dirty = <<>>
    PROVE  Fills(p) = {}
  BY DEF Fills, ToSet

\* One field is flushed.
LEMMA FieldGoes ==
    ASSUME NEW p, NEW q, NEW r, NEW ch, NEW a, NEW x, State(p, q, r, ch, a, x), NEW f
    PROVE  /\ State(FieldFlushed(p, f), q \o FlushField(p, f), r, ch, a, x)
           /\ FlushField(p, f) \in Seq(Report)
  <1> DEFINE p2 == FieldFlushed(p, f)
             G == IF f \in ToSet(p.dirty) THEN {Fill(p, f)} ELSE {}
             ms == FlushField(p, f)
  <1>1. /\ p \in PageRec /\ p.dirty \in Seq(Field) /\ IsInjective(p.dirty)
        /\ p.typed \in [Field -> 0 .. MaxActs] /\ p.value \in [Field -> Value \cup {None}]
    BY DEF State, PageRec
  <1>2. /\ RemoveFirst(p.dirty, f) \in Seq(Field) /\ IsInjective(RemoveFirst(p.dirty, f))
        /\ ToSet(RemoveFirst(p.dirty, f)) = ToSet(p.dirty) \ {f}
    BY <1>1, RemoveFirstFacts
  <1>3. /\ p2 \in PageRec /\ p2.typed = p.typed /\ p2.value = p.value /\ p2.held = p.held
        /\ p2.dirty = RemoveFirst(p.dirty, f)
    BY <1>1, <1>2 DEF FieldFlushed, PageRec
  <1>4. G \in SUBSET Fills(p) /\ Fills(p) \in SUBSET Report
    BY DEF Fills, State, Good
  <1>5. Fills(p2) = Fills(p) \ G
    <2>1. \A g : Fill(p2, g) = Fill(p, g) /\ Fill(p, g).what = g
      BY <1>3 DEF Fill, Made
    <2>2. ToSet(p2.dirty) = ToSet(p.dirty) \ {f}
      BY <1>2, <1>3
    <2> HIDE DEF p2
    <2>3. Fills(p2) = {Fill(p, g) : g \in ToSet(p.dirty) \ {f}}
      BY <2>1, <2>2 DEF Fills
    <2>4. QED
      BY <2>1, <2>3 DEF Fills
  <1>6. /\ ms \in Seq(Report)
        /\ \A i \in DOMAIN ms : ms[i] \in G
        /\ \A e \in G : \E i \in DOMAIN ms : ms[i] = e
        /\ \A i, j \in DOMAIN ms : ~(i < j)
    <2>1. CASE f \in ToSet(p.dirty)
      <3>1. ms = <<Fill(p, f)>> /\ G = {Fill(p, f)} /\ Fill(p, f) \in Report
        BY <1>4, <2>1 DEF FlushField
      <3> HIDE DEF ms, G
      <3>2. QED
        BY <3>1
    <2>2. CASE f \notin ToSet(p.dirty)
      <3>1. ms = <<>> /\ G = {}
        BY <2>2 DEF FlushField
      <3> HIDE DEF ms, G
      <3>2. QED
        BY <3>1
    <2>3. QED
      BY <2>1, <2>2
  <1> HIDE DEF ms, G, p2
  <1>7. Good(r, q \o ms, Fills(p) \ G, OptionOf(p.held), ChoiceOf(ch), a, x)
    BY <1>4, <1>6, FillsGo DEF State
  <1>8. State(p2, q \o ms, r, ch, a, x)
    BY <1>3, <1>5, <1>7 DEF State
  <1>9. QED
    BY <1>6, <1>8 DEF p2, ms

\* All fields are flushed.
LEMMA FieldsGo ==
    ASSUME NEW p, NEW q, NEW r, NEW ch, NEW a, NEW x, State(p, q, r, ch, a, x)
    PROVE  /\ State(FieldsFlushed(p), q \o FlushFields(p), r, ch, a, x)
           /\ FlushFields(p) \in Seq(Report)
           /\ FieldsFlushed(p).dirty = <<>> /\ FieldsFlushed(p).held = p.held
           /\ FieldsFlushed(p).typed = p.typed /\ FieldsFlushed(p).value = p.value
  <1> DEFINE p2 == FieldsFlushed(p)
             ms == FlushFields(p)
  <1>1. /\ p \in PageRec /\ p.dirty \in Seq(Field) /\ IsInjective(p.dirty)
        /\ Fills(p) \in SUBSET Report
    BY DEF State, PageRec, Good
  <1>2. <<>> \in Seq(Field) /\ IsInjective(<<>>)
    BY DEF IsInjective
  <1>3. /\ p2 \in PageRec /\ p2.typed = p.typed /\ p2.value = p.value /\ p2.held = p.held /\ p2.dirty = <<>>
    BY <1>1, <1>2 DEF FieldsFlushed, PageRec
  <1>4. DOMAIN ms = 1 .. Len(p.dirty) /\ \A i \in 1 .. Len(p.dirty) : ms[i] = Fill(p, p.dirty[i])
    BY <1>1 DEF FlushFields
  <1>5. \A i \in 1 .. Len(p.dirty) : Fill(p, p.dirty[i]) \in Fills(p)
    BY <1>1 DEF Fills, ToSet
  <1>6. ms \in Seq(Report)
    <2>1. ms = [i \in 1 .. Len(p.dirty) |-> Fill(p, p.dirty[i])] /\ Len(p.dirty) \in Nat
      BY <1>1 DEF FlushFields
    <2> HIDE DEF ms
    <2>2. QED
      BY <1>1, <1>5, <2>1
  <1>7. \A e \in Fills(p) : \E i \in DOMAIN ms : ms[i] = e
    BY <1>1, <1>4 DEF Fills, ToSet
  <1>8. \A i, j \in DOMAIN ms : i < j => ms[i] # ms[j]
    <2>1. \A g : Fill(p, g).what = g
      BY DEF Fill, Made
    <2>2. \A i, j \in 1 .. Len(p.dirty) : i < j => p.dirty[i] # p.dirty[j]
      BY <1>1 DEF IsInjective
    <2> HIDE DEF ms
    <2>3. QED
      BY <1>4, <2>1, <2>2
  <1> HIDE DEF ms, p2
  <1>9. Good(r, q \o ms, Fills(p) \ Fills(p), OptionOf(p.held), ChoiceOf(ch), a, x)
    <2>1. Good(r, q, Fills(p), OptionOf(p.held), ChoiceOf(ch), a, x)
      BY DEF State
    <2>2. \A i \in DOMAIN ms : ms[i] \in Fills(p)
      BY <1>4, <1>5
    <2>3. QED
      BY <1>6, <1>7, <1>8, <2>1, <2>2, FillsGo
  <1>10. State(p2, q \o ms, r, ch, a, x)
    BY <1>3, <1>9, NoFills DEF State
  <1>11. QED
    BY <1>3, <1>6, <1>10 DEF p2, ms

\* The option held is reported.
LEMMA OptionReported ==
    ASSUME NEW p, NEW q, NEW r, NEW ch, NEW a, NEW x, State(p, q, r, ch, a, x)
    PROVE  /\ State(HeldFlushed(p), q \o FlushHeld(p), r, ch, a, x)
           /\ FlushHeld(p) \in Seq(Report)
           /\ HeldFlushed(p).dirty = p.dirty /\ HeldFlushed(p).held = NoHeld
           /\ HeldFlushed(p).typed = p.typed /\ HeldFlushed(p).value = p.value
  <1> DEFINE p2 == HeldFlushed(p)
             ms == FlushHeld(p)
  <1>1. p \in PageRec /\ p.held \in HeldRec
    BY DEF State, PageRec
  <1>2. /\ p2 \in PageRec /\ p2.typed = p.typed /\ p2.value = p.value /\ p2.held = NoHeld /\ p2.dirty = p.dirty
    BY <1>1 DEF HeldFlushed, PageRec, HeldRec
  <1>3. ms = IF p.held = NoHeld THEN <<>> ELSE <<Made("option", p.held.label, p.held.act)>>
    BY DEF FlushHeld
  <1>4. ms \in Seq(Report)
    <2>1. p.held # NoHeld => Made("option", p.held.label, p.held.act) \in Report
      BY <1>1 DEF HeldRec, Made, Report
    <2> HIDE DEF ms
    <2>2. QED
      BY <1>3, <2>1
  <1> HIDE DEF ms, p2
  <1>5. Good(r, q \o ms, Fills(p), {}, ChoiceOf(ch), a, x)
    BY <1>1, <1>3, HeldGoes DEF State
  <1>6. Fills(p2) = Fills(p) /\ OptionOf(p2.held) = {}
    BY <1>2, SameFills DEF OptionOf
  <1>7. State(p2, q \o ms, r, ch, a, x)
    BY <1>2, <1>5, <1>6 DEF State
  <1>8. QED
    BY <1>2, <1>4, <1>7 DEF p2, ms

\* An act that need not be reported.
LEMMA ExcusedThere ==
    ASSUME NEW p, NEW q, NEW r, NEW ch, NEW a, NEW x, State(p, q, r, ch, a, x),
           a < MaxActs
    PROVE  State(p, q, r, ch, a + 1, x \cup {a + 1})
  BY ExcusedGoes DEF State

\* Pickers asked for and dismissed.
LEMMA PickersThere ==
    ASSUME NEW p, NEW q, NEW r, NEW ch, NEW a, NEW x, State(p, q, r, ch, a, x),
           NEW ms \in Seq(Report), \A i \in DOMAIN ms : ~IsAct(ms[i])
    PROVE  State(p, q \o ms, r, ch, a, x)
  BY PickersGo DEF State

\* A click, a selection or an Enter.
LEMMA ActThere ==
    ASSUME NEW p, NEW q, NEW r, NEW ch, NEW a, NEW x, State(p, q, r, ch, a, x),
           a < MaxActs,
           NEW m \in Report, m.act = a + 1, m.kind \in {"click", "select", "keypress"},
           (p.dirty = <<>> /\ p.held = NoHeld) \/ m.kind = "keypress"
    PROVE  State(p, q \o <<m>>, r, ch, a + 1, x)
  <1>1. IsAct(m) /\ m.kind # "choice"
    BY DEF IsAct
  <1>2. (Fills(p) = {} /\ OptionOf(p.held) = {}) \/ m.kind = "keypress"
    BY NoFills DEF OptionOf
  <1>3. Good(r, q, Fills(p), OptionOf(p.held), ChoiceOf(ch), a, x)
    BY DEF State
  <1>4. Good(r, q \o <<m>>, Fills(p), OptionOf(p.held), ChoiceOf(ch), a + 1, x)
    BY <1>1, <1>2, <1>3, ActGoes
  <1>5. QED
    BY <1>4 DEF State

\* Something that waited is dropped, and excused.
LEMMA LessThere ==
    ASSUME NEW p, NEW q, NEW r, NEW ch, NEW a, NEW x, State(p, q, r, ch, a, x),
           NEW p2 \in PageRec, NEW ch2 \in {ch, NoHeld}, NEW x2, x \subseteq x2,
           Fills(p2) \subseteq Fills(p), p2.held \in {p.held, NoHeld},
           \A e \in Fills(p) \ Fills(p2) : e.act \in x2,
           p2.held # p.held => p.held.act \in x2,
           ch2 # ch => ch.act \in x2
    PROVE  State(p2, q, r, ch2, a, x2)
  <1>1. OptionOf(NoHeld) = {} /\ ChoiceOf(NoHeld) = {}
    BY DEF OptionOf, ChoiceOf
  <1>2. OptionOf(p2.held) \subseteq OptionOf(p.held) /\ ChoiceOf(ch2) \subseteq ChoiceOf(ch)
    BY <1>1
  <1>3. \A e \in OptionOf(p.held) \ OptionOf(p2.held) : e.act \in x2
    BY DEF OptionOf, Made
  <1>4. \A e \in ChoiceOf(ch) \ ChoiceOf(ch2) : e.act \in x2
    BY DEF ChoiceOf, Made
  <1>5. Good(r, q, Fills(p), OptionOf(p.held), ChoiceOf(ch), a, x)
    BY DEF State
  <1>6. Good(r, q, Fills(p2), OptionOf(p2.held), ChoiceOf(ch2), a, x2)
    BY <1>2, <1>3, <1>4, <1>5, LessGoes
  <1>7. ch2 \in HeldRec
    BY DEF State, HeldRec
  <1>8. QED
    BY <1>6, <1>7 DEF State

\* More is excused.
LEMMA MoreExcused ==
    ASSUME NEW p, NEW q, NEW r, NEW ch, NEW a, NEW x, State(p, q, r, ch, a, x), NEW x2, x \subseteq x2
    PROVE  State(p, q, r, ch, a, x2)
  <1>1. p \in PageRec
    BY DEF State
  <1>2. QED
    BY <1>1, LessThere

\* The option held is the selection, or is reported before it.
LEMMA OptionSettled ==
    ASSUME NEW p, NEW q, NEW r, NEW ch, NEW a, NEW x, State(p, q, r, ch, a, x),
           NEW l \in Label
    PROVE  LET held == IF OfHeld(p, l) THEN <<>> ELSE FlushHeld(p)
               same == IF OfHeld(p, l) THEN {p.held.act} ELSE {}
           IN  /\ State(HeldFlushed(p), q \o held, r, ch, a, x \cup (same \ {0}))
               /\ held \in Seq(Report)
  <1>1. CASE ~OfHeld(p, l)
    <2>1. x \cup ({} \ {0}) = x
      OBVIOUS
    <2>2. QED
      BY <1>1, <2>1, OptionReported
  <1>2. CASE OfHeld(p, l)
    <2>1. /\ p \in PageRec /\ p.held \in HeldRec /\ p.held # NoHeld
          /\ q \in Seq(Report)
      BY <1>2, InputAssumption DEF OfHeld, State, PageRec, NoHeld, Good
    <2>2. p.held.act \in {p.held.act} \ {0}
      BY <2>1, InputAssumption DEF HeldRec, Act
    <2>3. /\ HeldFlushed(p) \in PageRec /\ HeldFlushed(p).held = NoHeld
          /\ Fills(HeldFlushed(p)) = Fills(p)
      BY OptionReported, SameFills DEF State
    <2>4. q \o <<>> = q
      BY <2>1, ConcatEmptySeq
    <2>5. State(HeldFlushed(p), q, r, ch, a, x \cup ({p.held.act} \ {0}))
      BY <2>2, <2>3, LessThere
    <2>6. QED
      BY <1>2, <2>4, <2>5
  <1>3. QED
    BY <1>1, <1>2

\* Pickers closed in the page.
LEMMA ClosedThere ==
    ASSUME NEW p, NEW q, NEW r, NEW ch, NEW a, NEW x, State(p, q, r, ch, a, x), NEW ks
    PROVE  /\ State(Closed(p, ks), q, r, ch, a, x)
           /\ Closed(p, ks).dirty = p.dirty /\ Closed(p, ks).typed = p.typed /\ Closed(p, ks).value = p.value
           /\ Closed(p, ks).held = p.held
  <1>1. p \in PageRec
    BY DEF State
  <1>2. /\ Closed(p, ks) \in PageRec
        /\ Closed(p, ks).dirty = p.dirty /\ Closed(p, ks).typed = p.typed /\ Closed(p, ks).value = p.value
        /\ Closed(p, ks).held = p.held
    BY <1>1 DEF Closed, PageRec
  <1>3. QED
    BY <1>2, PageAlike

\* Dismissals are reports of pickers.
LEMMA DismissalReports ==
    ASSUME NEW p, NEW ks
    PROVE  /\ Dismissals(p, ks) \in Seq(Report)
           /\ \A i \in DOMAIN Dismissals(p, ks) :
                /\ Dismissals(p, ks)[i].kind = "dismiss"
                /\ ~IsAct(Dismissals(p, ks)[i])
           /\ \A k \in p.open \cap ks \cap Both :
                \E i \in DOMAIN Dismissals(p, ks) : Dismissals(p, ks)[i] = About("dismiss", k)
  <1> DEFINE d == IF "date" \in p.open \cap ks THEN <<About("dismiss", "date")>> ELSE <<>>
             s == IF "select" \in p.open \cap ks THEN <<About("dismiss", "select")>> ELSE <<>>
  <1>1. /\ About("dismiss", "date") \in Report
        /\ About("dismiss", "select") \in Report
        /\ About("dismiss", "date").kind = "dismiss"
        /\ About("dismiss", "select").kind = "dismiss"
    BY DEF About, Made, Report, Both
  <1>2. /\ d \in Seq(Report) /\ \A i \in DOMAIN d : d[i].kind = "dismiss"
        /\ "date" \in p.open \cap ks => Len(d) = 1 /\ d[1] = About("dismiss", "date")
    BY <1>1
  <1>3. /\ s \in Seq(Report) /\ \A i \in DOMAIN s : s[i].kind = "dismiss"
        /\ "select" \in p.open \cap ks => Len(s) = 1 /\ s[1] = About("dismiss", "select")
    BY <1>1
  <1>4. Dismissals(p, ks) = d \o s
    BY DEF Dismissals
  <1> HIDE DEF d, s
  <1> DEFINE t == d \o s
  <1>5. /\ t \in Seq(Report) /\ Len(t) = Len(d) + Len(s)
        /\ \A i \in 1 .. Len(d) + Len(s) : t[i] = IF i <= Len(d) THEN d[i] ELSE s[i - Len(d)]
    BY <1>2, <1>3, ConcatProperties
  <1>6. DOMAIN t = 1 .. Len(d) + Len(s) /\ Len(d) \in Nat /\ Len(s) \in Nat
    BY <1>2, <1>3, <1>5
  <1> HIDE DEF t
  <1>7. \A i \in DOMAIN t : t[i].kind = "dismiss"
    BY <1>2, <1>3, <1>5, <1>6
  <1>8. "date" \in p.open \cap ks => 1 \in DOMAIN t /\ t[1] = About("dismiss", "date")
    BY <1>2, <1>5, <1>6
  <1>9. "select" \in p.open \cap ks => Len(d) + 1 \in DOMAIN t /\ t[Len(d) + 1] = About("dismiss", "select")
    BY <1>3, <1>5, <1>6
  <1>10. QED
    BY <1>4, <1>5, <1>7, <1>8, <1>9 DEF t, Both, IsAct

\* Sequences put together, by a name that hides their elements from the provers.
Joined(q, s) == q \o s

LEMMA JoinedSeq ==
    ASSUME NEW T, NEW q \in Seq(T), NEW s \in Seq(T)
    PROVE  Joined(q, s) \in Seq(T)
  BY ConcatProperties DEF Joined

\* They are put together in either order.
LEMMA JoinedInEitherOrder ==
    ASSUME NEW T, NEW q \in Seq(T), NEW s \in Seq(T), NEW t \in Seq(T)
    PROVE  Joined(q, Joined(s, t)) = Joined(Joined(q, s), t)
  BY ConcatAssociative DEF Joined

\* Reports of three kinds, one after the other.
LEMMA ThreeParts ==
    ASSUME NEW q \in Seq(Report), NEW s \in Seq(Report), NEW t \in Seq(Report),
           NEW u \in Seq(Report)
    PROVE  /\ q \o (s \o t) = (q \o s) \o t
           /\ q \o ((s \o t) \o u) = ((q \o s) \o t) \o u
           /\ s \o t \in Seq(Report)
  <1>1. Joined(q, Joined(s, t)) = Joined(Joined(q, s), t)
    BY JoinedInEitherOrder
  <1>2. Joined(s, t) \in Seq(Report)
    BY JoinedSeq
  <1>3. Joined(q, Joined(Joined(s, t), u)) = Joined(Joined(q, Joined(s, t)), u)
    BY <1>2, JoinedInEitherOrder
  <1>4. Joined(q, Joined(Joined(s, t), u)) = Joined(Joined(Joined(q, s), t), u)
    BY <1>1, <1>3
  <1>5. QED
    BY <1>1, <1>2, <1>4 DEF Joined

-----------------------------------------------------------------------------
(* What the user and the page do *)

ActInv == State(page, sent, recorded, choosing, acts, excused)

\* How far a choice is.
StageInv ==
    /\ stage \in {"none", "asked", "told", "made", "failed", "unsaid"}
    /\ stage = "none" <=> choosing = NoHeld

\* The numbers of acts.
LEMMA NextNumber ==
    ASSUME ActInv, Acts
    PROVE  acts \in Nat /\ acts < MaxActs /\ acts' = acts + 1 /\ acts' # 0 /\ acts' \in Act
  <1>1. acts \in Nat
    BY DEF ActInv, State, Good
  <1>2. MaxActs \in Nat
    BY InputAssumption
  <1>3. acts < MaxActs /\ acts' = acts + 1
    BY DEF Acts
  <1>4. QED
    BY <1>1, <1>2, <1>3 DEF Act

\* An act excused, with others.
LEMMA Excuses ==
    ASSUME ActInv, Acts, NEW some, Excuse(some \cup {acts'})
    PROVE  excused' = (excused \cup (some \ {0})) \cup {acts + 1}
  BY NextNumber DEF Excuse

\* A value that is typed takes the place of the one before.
LEMMA TypeActs ==
    ASSUME ActInv, NEW f \in Field, NEW v \in Value, Type(f, v)
    PROVE  ActInv'
  <1>1. Acts /\ acts < MaxActs /\ acts' = acts + 1 /\ acts' # 0 /\ acts' \in Act
    BY NextNumber DEF Type
  <1>2. UNCHANGED <<sent, recorded, choosing>>
    BY DEF Type, serverVars
  <1>3. CASE page.locked
    <2>1. page' = page /\ excused' = excused \cup {acts + 1}
      BY <1>1, <1>3 DEF Type, Excuse
    <2>2. QED
      BY <1>1, <1>2, <2>1, ExcusedThere DEF ActInv
  <1>4. CASE ~page.locked
    <2> DEFINE d == IF f \in ToSet(page.dirty) THEN page.dirty ELSE Append(page.dirty, f)
               old == IF f \in ToSet(page.dirty) THEN {Fill(page, f)} ELSE {}
               m == [kind |-> "fill", what |-> f, value |-> v, act |-> acts']
               some == IF f \in ToSet(page.dirty) THEN {page.typed[f]} ELSE {}
    <2>1. page' = [page EXCEPT !.typed[f] = acts', !.value[f] = v, !.dirty = d]
          /\ excused' = excused \cup (some \ {0})
      BY <1>4 DEF Type, Excuse
    <2>2. /\ page \in PageRec /\ page.dirty \in Seq(Field) /\ IsInjective(page.dirty)
          /\ page.typed \in [Field -> 0 .. MaxActs] /\ page.value \in [Field -> Value \cup {None}]
      BY DEF ActInv, State, PageRec
    <2>3. d \in Seq(Field) /\ IsInjective(d) /\ ToSet(d) = ToSet(page.dirty) \cup {f}
      <3>1. CASE f \in ToSet(page.dirty)
        BY <2>2, <3>1
      <3>2. CASE f \notin ToSet(page.dirty)
        <4>1. d = Append(page.dirty, f)
          BY <3>2
        <4>2. \A i \in 1 .. Len(page.dirty) : page.dirty[i] # f
          BY <2>2, <3>2 DEF ToSet
        <4>3. /\ d \in Seq(Field) /\ DOMAIN d = 1 .. Len(page.dirty) + 1
              /\ DOMAIN page.dirty = 1 .. Len(page.dirty)
              /\ d[Len(page.dirty) + 1] = f /\ \A i \in 1 .. Len(page.dirty) : d[i] = page.dirty[i]
          BY <2>2, <4>1
        <4> HIDE DEF d
        <4>4. IsInjective(d)
          <5>1. SUFFICES ASSUME NEW i \in DOMAIN d, NEW j \in DOMAIN d, d[i] = d[j]
                         PROVE  i = j
            BY DEF IsInjective
          <5>2. CASE i \in DOMAIN page.dirty /\ j \in DOMAIN page.dirty
            <6>1. page.dirty[i] = page.dirty[j]
              BY <4>3, <5>1, <5>2
            <6>2. QED
              BY <2>2, <5>2, <6>1 DEF IsInjective
          <5>3. CASE ~(i \in DOMAIN page.dirty /\ j \in DOMAIN page.dirty)
            <6>1. CASE i \in DOMAIN page.dirty
              <7>1. j = Len(page.dirty) + 1
                BY <4>3, <5>1, <5>3, <6>1
              <7>2. QED
                BY <4>2, <4>3, <5>1, <6>1, <7>1
            <6>2. CASE i \notin DOMAIN page.dirty
              <7>1. i = Len(page.dirty) + 1
                BY <4>3, <5>1, <6>2
              <7>2. j \notin 1 .. Len(page.dirty)
                BY <4>2, <4>3, <5>1, <7>1
              <7>3. QED
                BY <4>3, <5>1, <7>1, <7>2
            <6>3. QED
              BY <6>1, <6>2
          <5>4. QED
            BY <5>2, <5>3
        <4>5. ToSet(d) \subseteq ToSet(page.dirty) \cup {f}
          BY <4>3 DEF ToSet
        <4>6. Len(page.dirty) + 1 \in DOMAIN d /\ \A i \in DOMAIN page.dirty : i \in DOMAIN d
          BY <2>2, <4>3
        <4>7. ToSet(page.dirty) \cup {f} \subseteq ToSet(d)
          BY <4>3, <4>6 DEF ToSet
        <4>8. QED
          BY <4>3, <4>4, <4>5, <4>7
      <3>3. QED
        BY <3>1, <3>2
    <2> HIDE DEF d
    <2>4. /\ page' \in PageRec /\ page'.dirty = d /\ page'.held = page.held
          /\ page'.typed = [page.typed EXCEPT ![f] = acts'] /\ page'.value = [page.value EXCEPT ![f] = v]
      <3>1. /\ [page.typed EXCEPT ![f] = acts'] \in [Field -> 0 .. MaxActs]
            /\ [page.value EXCEPT ![f] = v] \in [Field -> Value \cup {None}]
        BY <1>1, <2>2, InputAssumption DEF Act
      <3>2. QED
        BY <2>1, <2>2, <2>3, <3>1 DEF PageRec
    <2>5. m \in Report /\ m.act = acts + 1 /\ m.kind = "fill"
      BY <1>1 DEF Report
    <2>6. old \subseteq Fills(page)
      BY DEF Fills
    <2>7. Fills(page') = (Fills(page) \ old) \cup {m}
      <3>1. \A g \in Field : g # f => Fill(page', g) = Fill(page, g)
        BY <2>2, <2>4 DEF Fill
      <3>2. Fill(page', f) = m
        BY <2>2, <2>4 DEF Fill
      <3>3. \A g : Fill(page, g).what = g
        BY DEF Fill, Made
      <3>4. ToSet(page.dirty) \subseteq Field
        BY <2>2 DEF ToSet
      <3>5. Fills(page') = {Fill(page, g) : g \in ToSet(page.dirty) \ {f}} \cup {m}
        BY <2>3, <2>4, <3>1, <3>2, <3>4 DEF Fills
      <3>6. Fills(page) \ old = {Fill(page, g) : g \in ToSet(page.dirty) \ {f}}
        BY <3>3 DEF Fills
      <3>7. QED
        BY <3>5, <3>6
    <2>8. Good(recorded, sent, Fills(page), OptionOf(page.held), ChoiceOf(choosing), acts, excused)
      BY DEF ActInv, State
    <2>9. \A e \in old : e.act \in excused'
      <3>1. \A e \in Fills(page) : e.act # 0
        BY <2>8, InputAssumption DEF Good, Sound
      <3>2. \A e \in old : e.act \in some
        BY DEF Fill, Made
      <3>3. QED
        BY <2>1, <2>6, <3>1, <3>2
    <2> HIDE DEF old, some, m
    <2>10. Good(recorded, sent, Fills(page) \ old, OptionOf(page.held), ChoiceOf(choosing), acts, excused')
      <3>1. \A e \in (Fills(page) \ (Fills(page) \ old)) \cup (OptionOf(page.held) \ OptionOf(page.held))
                      \cup (ChoiceOf(choosing) \ ChoiceOf(choosing)) : e.act \in excused'
        BY <2>9
      <3>2. excused \subseteq excused'
        BY <2>1
      <3>3. QED
        BY <2>8, <3>1, <3>2, LessGoes
    <2>11. Good(recorded, sent, (Fills(page) \ old) \cup {m}, OptionOf(page.held), ChoiceOf(choosing), acts + 1, excused')
      BY <1>1, <2>5, <2>10, ValueGoes
    <2>12. QED
      BY <1>1, <1>2, <2>4, <2>7, <2>11 DEF ActInv, State
  <1>5. QED
    BY <1>3, <1>4

\* The field that loses the focus is flushed.
LEMMA FocusActs ==
    ASSUME ActInv, NEW to, MovesFocus(to)
    PROVE  ActInv'
  <1>1. UNCHANGED <<acts, choosing, recorded, excused>>
    BY DEF MovesFocus, serverVars
  <1>2. CASE page.locked \/ focus = None
    BY <1>1, <1>2 DEF MovesFocus, ActInv
  <1>3. CASE ~(page.locked \/ focus = None)
    <2>1. page' = FieldFlushed(page, focus) /\ sent' = sent \o FlushField(page, focus)
      BY <1>3 DEF MovesFocus, Handled
    <2>2. QED
      BY <1>1, <2>1, FieldGoes DEF ActInv
  <1>4. QED
    BY <1>2, <1>3

\* A click closes pickers and flushes fields.
LEMMA BeforeClickActs ==
    ASSUME ActInv
    PROVE  /\ State(AfterClick(page), sent \o BeforeClick(page), recorded, choosing, acts, excused)
           /\ BeforeClick(page) \in Seq(Report)
           /\ AfterClick(page).dirty = <<>> /\ AfterClick(page).held = page.held
  <1> DEFINE p1 == Closed(page, Both)
             d == Dismissals(page, Both)
  <1>1. State(page, sent, recorded, choosing, acts, excused)
    BY DEF ActInv
  <1>2. State(page, sent \o d, recorded, choosing, acts, excused) /\ d \in Seq(Report)
    BY <1>1, PickersThere, DismissalReports
  <1>3. /\ State(p1, sent \o d, recorded, choosing, acts, excused)
        /\ p1.dirty = page.dirty /\ p1.typed = page.typed /\ p1.value = page.value /\ p1.held = page.held
    BY <1>2, ClosedThere
  <1> HIDE DEF p1, d
  <1>4. /\ State(FieldsFlushed(p1), (sent \o d) \o FlushFields(p1), recorded, choosing, acts, excused)
        /\ FlushFields(p1) \in Seq(Report)
        /\ FieldsFlushed(p1).dirty = <<>> /\ FieldsFlushed(p1).held = p1.held
    BY <1>3, FieldsGo
  <1>5. FlushFields(p1) = FlushFields(page)
    BY <1>3, SameFills
  <1>6. BeforeClick(page) = d \o FlushFields(page) /\ AfterClick(page) = FieldsFlushed(p1)
    BY DEF BeforeClick, AfterClick, d, p1
  <1>7. sent \in Seq(Report)
    BY <1>1 DEF State, Good
  <1>8. /\ sent \o (d \o FlushFields(page)) = (sent \o d) \o FlushFields(page)
        /\ d \o FlushFields(page) \in Seq(Report)
    BY <1>2, <1>4, <1>5, <1>7, ThreeParts
  <1>9. QED
    BY <1>3, <1>4, <1>5, <1>6, <1>8

\* A click is recorded after all that waits.
LEMMA ButtonActs ==
    ASSUME ActInv, NEW b \in Button, ClickButton(b)
    PROVE  ActInv'
  <1>1. Acts /\ acts < MaxActs /\ acts' = acts + 1 /\ acts' # 0 /\ acts' \in Act
    BY NextNumber DEF ClickButton
  <1>2. UNCHANGED <<recorded, choosing>>
    BY DEF ClickButton, serverVars
  <1>3. CASE page.locked
    <2>1. page' = page /\ sent' = sent /\ excused' = excused \cup {acts + 1}
      BY <1>1, <1>3 DEF ClickButton, Excuse
    <2>2. QED
      BY <1>1, <1>2, <2>1, ExcusedThere DEF ActInv
  <1>4. CASE ~page.locked
    <2> DEFINE p1 == AfterClick(page)
               q1 == sent \o BeforeClick(page)
               m == Made("click", b, acts')
    <2>1. /\ page' = HeldFlushed(p1) /\ excused' = excused
          /\ sent' = sent \o (BeforeClick(page) \o (FlushHeld(page) \o <<m>>))
      BY <1>4 DEF ClickButton, Handled, Clicked
    <2>2. /\ State(p1, q1, recorded, choosing, acts, excused)
          /\ BeforeClick(page) \in Seq(Report)
          /\ p1.dirty = <<>> /\ p1.held = page.held
      BY BeforeClickActs
    <2> HIDE DEF p1, q1
    <2>3. /\ State(HeldFlushed(p1), q1 \o FlushHeld(p1), recorded, choosing, acts, excused)
          /\ FlushHeld(p1) \in Seq(Report)
          /\ HeldFlushed(p1).dirty = p1.dirty /\ HeldFlushed(p1).held = NoHeld
      BY <2>2, OptionReported
    <2>4. FlushHeld(p1) = FlushHeld(page)
      BY <2>2 DEF FlushHeld
    <2>5. m \in Report /\ m.act = acts + 1 /\ m.kind = "click"
      BY <1>1 DEF Made, Report
    <2> HIDE DEF m
    <2>6. State(HeldFlushed(p1), (q1 \o FlushHeld(p1)) \o <<m>>, recorded, choosing, acts + 1, excused)
      BY <1>1, <2>2, <2>3, <2>5, ActThere
    <2>7. sent' = (q1 \o FlushHeld(p1)) \o <<m>>
      <3>1. sent \in Seq(Report) /\ <<m>> \in Seq(Report)
        BY <2>5 DEF ActInv, State, Good
      <3>2. q1 \in Seq(Report)
        BY <2>2 DEF State, Good
      <3>3. FlushHeld(page) \o <<m>> \in Seq(Report)
        BY <2>3, <2>4, <3>1, ConcatProperties
      <3>4. sent \o (BeforeClick(page) \o (FlushHeld(page) \o <<m>>)) = q1 \o (FlushHeld(page) \o <<m>>)
        <4>1. PICK fh : fh = FlushHeld(page) \o <<m>>
          OBVIOUS
        <4>2. fh \in Seq(Report)
          BY <3>3, <4>1
        <4>3. Joined(sent, Joined(BeforeClick(page), fh)) = Joined(Joined(sent, BeforeClick(page)), fh)
          BY <2>2, <3>1, <4>2, JoinedInEitherOrder
        <4>4. sent \o (BeforeClick(page) \o fh) = q1 \o fh
          BY <4>3 DEF Joined, q1
        <4>5. QED
          BY <4>1, <4>4
      <3>5. q1 \o (FlushHeld(page) \o <<m>>) = (q1 \o FlushHeld(page)) \o <<m>>
        <4>1. FlushHeld(page) \in Seq(Report)
          BY <2>3, <2>4
        <4>2. PICK r : r = <<m>>
          OBVIOUS
        <4>3. r \in Seq(Report)
          BY <3>1, <4>2
        <4>4. Joined(q1, Joined(FlushHeld(page), r)) = Joined(Joined(q1, FlushHeld(page)), r)
          BY <3>2, <4>1, <4>3, JoinedInEitherOrder
        <4>5. q1 \o (FlushHeld(page) \o r) = (q1 \o FlushHeld(page)) \o r
          BY <4>4 DEF Joined
        <4>6. QED
          BY <4>2, <4>5
      <3>6. QED
        BY <2>1, <2>4, <3>4, <3>5
    <2>8. QED
      BY <1>1, <1>2, <2>1, <2>6, <2>7 DEF ActInv
  <1>5. QED
    BY <1>3, <1>4

\* A click on an option is held, and the one before reported.
LEMMA OptionActs ==
    ASSUME ActInv, NEW l \in Label, NEW answer, ClickOption(l, answer)
    PROVE  ActInv'
  <1>1. Acts /\ acts < MaxActs /\ acts' = acts + 1 /\ acts' # 0 /\ acts' \in Act
    BY NextNumber DEF ClickOption
  <1>2. UNCHANGED <<recorded, choosing>>
    BY DEF ClickOption, serverVars
  <1>3. CASE page.locked
    <2>1. page' = page /\ sent' = sent /\ excused' = excused \cup {acts + 1}
      BY <1>1, <1>3 DEF ClickOption, Excuse
    <2>2. QED
      BY <1>1, <1>2, <2>1, ExcusedThere DEF ActInv
  <1>4. CASE ~page.locked
    <2> DEFINE p1 == AfterClick(page)
               q1 == sent \o BeforeClick(page)
               h == [label |-> l, act |-> acts']
               m == Made("option", l, acts')
    <2>1. /\ page' = [p1 EXCEPT !.held = h] /\ excused' = excused
          /\ sent' = sent \o (BeforeClick(page) \o FlushHeld(page))
      BY <1>4 DEF ClickOption, Handled
    <2>2. /\ State(p1, q1, recorded, choosing, acts, excused)
          /\ BeforeClick(page) \in Seq(Report)
          /\ p1.dirty = <<>> /\ p1.held = page.held
      BY BeforeClickActs
    <2> HIDE DEF p1, q1
    <2>3. /\ State(HeldFlushed(p1), q1 \o FlushHeld(p1), recorded, choosing, acts, excused)
          /\ FlushHeld(p1) \in Seq(Report)
          /\ HeldFlushed(p1).dirty = p1.dirty /\ HeldFlushed(p1).held = NoHeld
      BY <2>2, OptionReported
    <2>4. FlushHeld(p1) = FlushHeld(page)
      BY <2>2 DEF FlushHeld
    <2>5. sent' = q1 \o FlushHeld(p1)
      <3>1. sent \in Seq(Report)
        BY DEF ActInv, State, Good
      <3>2. QED
        <4>1. FlushHeld(page) \in Seq(Report)
          BY <2>3, <2>4
        <4>2. Joined(sent, Joined(BeforeClick(page), FlushHeld(page)))
              = Joined(Joined(sent, BeforeClick(page)), FlushHeld(page))
          BY <2>2, <3>1, <4>1, JoinedInEitherOrder
        <4>3. QED
          BY <2>1, <2>4, <4>2 DEF Joined, q1
    <2>6. m \in Report /\ m.act = acts + 1 /\ m.kind = "option"
      BY <1>1 DEF Made, Report
    <2>7. h \in HeldRec /\ OptionOf(h) = {m}
      <3>1. h # NoHeld
        BY InputAssumption DEF NoHeld
      <3>2. h \in [label : Label, act : Act]
        BY <1>1
      <3>3. h.label = l /\ h.act = acts'
        OBVIOUS
      <3> HIDE DEF h
      <3>4. QED
        BY <3>1, <3>2, <3>3 DEF OptionOf, HeldRec
    <2> HIDE DEF h, m
    <2>8. /\ page' \in PageRec /\ page'.dirty = <<>> /\ page'.held = h
      <3>1. p1 \in PageRec
        BY <2>2 DEF State
      <3>2. QED
        BY <2>1, <2>2, <2>7, <3>1 DEF PageRec
    <2>9. Good(recorded, sent', {}, {}, ChoiceOf(choosing), acts, excused)
      <3>1. Fills(HeldFlushed(p1)) = {} /\ OptionOf(NoHeld) = {}
        BY <2>2, <2>3, NoFills DEF OptionOf
      <3>2. QED
        BY <2>3, <2>5, <3>1 DEF State
    <2>10. Good(recorded, sent', {}, {m}, ChoiceOf(choosing), acts + 1, excused)
      BY <1>1, <2>6, <2>9, OptionGoes
    <2>11. QED
      BY <1>1, <1>2, <2>1, <2>7, <2>8, <2>10, NoFills DEF ActInv, State
  <1>5. QED
    BY <1>3, <1>4

\* The option held is reported in time.
LEMMA HeldExpiresActs ==
    ASSUME ActInv, HeldExpires
    PROVE  ActInv'
  <1>1. UNCHANGED <<acts, choosing, recorded, excused>>
    BY DEF HeldExpires, serverVars
  <1>2. page' = HeldFlushed(page) /\ sent' = sent \o FlushHeld(page)
    BY DEF HeldExpires, Handled
  <1>3. QED
    BY <1>1, <1>2, OptionReported DEF ActInv

\* A selection, or a choice of the client, settles the option held and closes the picker.
LEMMA SettledActs ==
    ASSUME ActInv, NEW l \in Label
    PROVE  LET held == IF OfHeld(page, l) THEN <<>> ELSE FlushHeld(page)
               same == IF OfHeld(page, l) THEN {page.held.act} ELSE {}
               after == HeldFlushed(Closed(page, {"select"}))
           IN  /\ State(after, sent \o held, recorded, choosing, acts, excused \cup (same \ {0}))
               /\ held \in Seq(Report)
               /\ after.dirty = page.dirty /\ after.typed = page.typed /\ after.value = page.value /\ after.held = NoHeld
  <1> DEFINE pc == Closed(page, {"select"})
  <1>1. /\ State(pc, sent, recorded, choosing, acts, excused)
        /\ pc.dirty = page.dirty /\ pc.typed = page.typed /\ pc.value = page.value /\ pc.held = page.held
    BY ClosedThere DEF ActInv
  <1> HIDE DEF pc
  <1>2. (OfHeld(pc, l) <=> OfHeld(page, l)) /\ FlushHeld(pc) = FlushHeld(page)
    BY <1>1 DEF OfHeld, FlushHeld
  <1>3. /\ HeldFlushed(pc).dirty = pc.dirty /\ HeldFlushed(pc).held = NoHeld
        /\ HeldFlushed(pc).typed = pc.typed /\ HeldFlushed(pc).value = pc.value
    BY <1>1, OptionReported
  <1>4. CASE OfHeld(page, l)
    <2>1. State(HeldFlushed(pc), sent \o <<>>, recorded, choosing, acts, excused \cup ({page.held.act} \ {0}))
      BY <1>1, <1>2, <1>4, OptionSettled
    <2>2. <<>> \in Seq(Report)
      OBVIOUS
    <2>3. QED
      BY <1>1, <1>3, <1>4, <2>1, <2>2 DEF pc
  <1>5. CASE ~OfHeld(page, l)
    <2>1. /\ State(HeldFlushed(pc), sent \o FlushHeld(page), recorded, choosing, acts, excused \cup ({} \ {0}))
          /\ FlushHeld(page) \in Seq(Report)
      BY <1>1, <1>2, <1>5, OptionSettled
    <2>2. QED
      BY <1>1, <1>3, <1>5, <2>1 DEF pc
  <1>6. QED
    BY <1>4, <1>5

\* A selection is recorded after all that waits, and is the option held if it is of its label.
LEMMA SelectActs ==
    ASSUME ActInv, NEW l \in Label, SelectChanges(l),
           UNCHANGED <<recorded, choosing>>
    PROVE  ActInv'
  <1> DEFINE held == IF OfHeld(page, l) THEN <<>> ELSE FlushHeld(page)
             same == IF OfHeld(page, l) THEN {page.held.act} ELSE {}
             after == HeldFlushed(Closed(page, {"select"}))
             m == Made("select", l, acts')
             q1 == sent \o held
             x1 == excused \cup (same \ {0})
  <1>1. Acts /\ acts < MaxActs /\ acts' = acts + 1 /\ acts' # 0 /\ acts' \in Act
    BY NextNumber DEF SelectChanges
  <1>2. CASE page.locked
    <2>1. page' = page /\ sent' = sent /\ excused' = excused \cup {acts + 1}
      BY <1>1, <1>2 DEF SelectChanges, Excuse
    <2>2. QED
      BY <1>1, <2>1, ExcusedThere DEF ActInv
  <1>3. /\ State(after, q1, recorded, choosing, acts, x1)
        /\ held \in Seq(Report)
        /\ after.dirty = page.dirty /\ after.typed = page.typed /\ after.value = page.value /\ after.held = NoHeld
    BY SettledActs
  <1>4. CASE ~page.locked /\ Silent
    <2>1. page' = after /\ sent' = q1 /\ Excuse(same \cup {acts'})
      BY <1>4 DEF SelectChanges, Handled
    <2>2. excused' = x1 \cup {acts + 1}
      BY <1>1, <2>1, Excuses
    <2> HIDE DEF after, q1, x1
    <2>3. QED
      BY <1>1, <1>3, <2>1, <2>2, ExcusedThere DEF ActInv
  <1>5. CASE ~page.locked /\ ~Silent
    <2>1. /\ page' = FieldsFlushed(after) /\ excused' = x1
          /\ sent' = sent \o ((held \o FlushFields(page)) \o <<m>>)
      BY <1>5 DEF SelectChanges, Handled, Excuse
    <2> HIDE DEF after, x1, held
    <2>2. /\ State(FieldsFlushed(after), q1 \o FlushFields(after), recorded, choosing, acts, x1)
          /\ FlushFields(after) \in Seq(Report)
          /\ FieldsFlushed(after).dirty = <<>> /\ FieldsFlushed(after).held = after.held
      BY <1>3, FieldsGo
    <2>3. FlushFields(after) = FlushFields(page)
      BY <1>3, SameFills
    <2>4. m \in Report /\ m.act = acts + 1 /\ m.kind = "select"
      BY <1>1 DEF Made, Report
    <2> HIDE DEF m
    <2>5. State(FieldsFlushed(after), (q1 \o FlushFields(after)) \o <<m>>, recorded, choosing, acts + 1, x1)
      BY <1>1, <1>3, <2>2, <2>4, ActThere
    <2>6. sent' = (q1 \o FlushFields(page)) \o <<m>>
      <3>1. sent \in Seq(Report) /\ <<m>> \in Seq(Report)
        BY <2>4 DEF ActInv, State, Good
      <3>2. sent \o ((held \o FlushFields(page)) \o <<m>>) = ((sent \o held) \o FlushFields(page)) \o <<m>>
        BY <1>3, <2>2, <2>3, <3>1, ThreeParts
      <3>3. QED
        BY <2>1, <3>2
    <2>7. QED
      BY <1>1, <2>1, <2>3, <2>5, <2>6 DEF ActInv
  <1>6. QED
    BY <1>2, <1>4, <1>5

\* An act that asks for pickers or dismisses them, on a page that is otherwise the same.
LEMMA PickerActs ==
    ASSUME ActInv, NEW p2 \in PageRec, p2.dirty = page.dirty, p2.typed = page.typed /\ p2.value = page.value, p2.held = page.held,
           NEW ms \in Seq(Report), \A i \in DOMAIN ms : ~IsAct(ms[i])
    PROVE  State(p2, sent \o ms, recorded, choosing, acts, excused)
  <1>1. State(page, sent \o ms, recorded, choosing, acts, excused)
    BY PickersThere DEF ActInv
  <1>2. QED
    BY <1>1, PageAlike

\* A report of a picker alone.
LEMMA RequestReports ==
    ASSUME NEW k \in Both
    PROVE  /\ About("request", k) \in Report /\ ~IsAct(About("request", k))
           /\ <<About("request", k)>> \in Seq(Report)
           /\ \A i \in DOMAIN <<About("request", k)>> : ~IsAct(<<About("request", k)>>[i])
  <1>1. About("request", k) \in Report /\ ~IsAct(About("request", k))
    BY DEF About, Made, Report, IsAct, Both
  <1> DEFINE m == About("request", k)
  <1> HIDE DEF m
  <1>2. m \in Report /\ ~IsAct(m) => <<m>> \in Seq(Report) /\ \A i \in DOMAIN <<m>> : ~IsAct(<<m>>[i])
    OBVIOUS
  <1>3. QED
    BY <1>1, <1>2 DEF m

\* A picker asked for after others were dismissed.
LEMMA AskedReports ==
    ASSUME NEW p, NEW ks, NEW k \in Both
    PROVE  LET ms == Dismissals(p, ks) \o <<About("request", k)>> IN
           ms \in Seq(Report) /\ \A i \in DOMAIN ms : ~IsAct(ms[i])
  <1> DEFINE d == Dismissals(p, ks)
             u == <<About("request", k)>>
  <1>1. d \in Seq(Report) /\ \A i \in DOMAIN d : ~IsAct(d[i])
    BY DismissalReports
  <1>2. u \in Seq(Report) /\ \A i \in DOMAIN u : ~IsAct(u[i])
    BY RequestReports
  <1> HIDE DEF d, u
  <1>3. /\ d \o u \in Seq(Report) /\ Len(d \o u) = Len(d) + Len(u)
        /\ \A i \in 1 .. Len(d) + Len(u) : (d \o u)[i] = IF i <= Len(d) THEN d[i] ELSE u[i - Len(d)]
    BY <1>1, <1>2, ConcatProperties
  <1>4. \A i \in DOMAIN (d \o u) : ~IsAct((d \o u)[i])
    BY <1>1, <1>2, <1>3
  <1>5. QED
    BY <1>3, <1>4 DEF d, u

\* A click on a select is not recorded.
LEMMA ClickSelectActs ==
    ASSUME ActInv, ClickSelect
    PROVE  ActInv'
  <1>1. /\ Acts /\ acts < MaxActs /\ acts' = acts + 1 /\ acts' # 0
        /\ UNCHANGED <<recorded, choosing>> /\ excused' = excused \cup {acts + 1}
    BY NextNumber DEF ClickSelect, serverVars, Excuse
  <1>2. State(page', sent', recorded, choosing, acts, excused)
    <2>1. CASE page.locked
      BY <2>1 DEF ClickSelect, ActInv
    <2>2. CASE ~page.locked /\ page.native
      <3>1. page' = Closed(page, Both) /\ sent' = sent \o Dismissals(page, {"date"})
        BY <2>2 DEF ClickSelect, Handled
      <3>2. State(page, sent', recorded, choosing, acts, excused)
        BY <3>1, DismissalReports, PickersThere DEF ActInv
      <3>3. QED
        BY <3>1, <3>2, ClosedThere
    <2>3. CASE ~page.locked /\ ~page.native
      <3> DEFINE ms == Dismissals(page, Both) \o <<About("request", "select")>>
      <3>1. page' = [page EXCEPT !.open = {"select"}] /\ sent' = sent \o ms
        BY <2>3 DEF ClickSelect, Handled
      <3>2. ms \in Seq(Report) /\ \A i \in DOMAIN ms : ~IsAct(ms[i])
        BY AskedReports DEF Both
      <3> HIDE DEF ms
      <3>3. page \in PageRec
        BY DEF ActInv, State
      <3>4. page' \in PageRec /\ page'.dirty = page.dirty /\ page'.typed = page.typed /\ page'.value = page.value /\ page'.held = page.held
        BY <3>1, <3>3 DEF PageRec, Both
      <3>5. QED
        BY <3>1, <3>2, <3>4, PickerActs
    <2>4. QED
      BY <2>1, <2>2, <2>3
  <1>3. State(page', sent', recorded, choosing, acts + 1, excused \cup {acts + 1})
    BY <1>1, <1>2, ExcusedThere
  <1>4. QED
    BY <1>1, <1>3 DEF ActInv

\* A click on a date field is not recorded.
LEMMA ClickDateActs ==
    ASSUME ActInv, ClickDate
    PROVE  ActInv'
  <1>1. /\ Acts /\ acts < MaxActs /\ acts' = acts + 1 /\ acts' # 0
        /\ UNCHANGED <<recorded, choosing>> /\ excused' = excused \cup {acts + 1}
    BY NextNumber DEF ClickDate, serverVars, Excuse
  <1>2. State(page', sent', recorded, choosing, acts, excused)
    <2>1. CASE page.locked
      BY <2>1 DEF ClickDate, ActInv
    <2>2. CASE ~page.locked
      <3> DEFINE ms == <<About("request", "date")>>
      <3>1. page' = [page EXCEPT !.open = @ \cup {"date"}] /\ sent' = sent \o ms
        BY <2>2 DEF ClickDate, Handled
      <3>2. ms \in Seq(Report) /\ \A i \in DOMAIN ms : ~IsAct(ms[i])
        BY RequestReports DEF Both
      <3> HIDE DEF ms
      <3>3. page \in PageRec
        BY DEF ActInv, State
      <3>4. page' \in PageRec /\ page'.dirty = page.dirty /\ page'.typed = page.typed /\ page'.value = page.value /\ page'.held = page.held
        BY <3>1, <3>3 DEF PageRec, Both
      <3>5. QED
        BY <3>1, <3>2, <3>4, PickerActs
    <2>3. QED
      BY <2>1, <2>2
  <1>3. State(page', sent', recorded, choosing, acts + 1, excused \cup {acts + 1})
    BY <1>1, <1>2, ExcusedThere
  <1>4. QED
    BY <1>1, <1>3 DEF ActInv

\* Pickers that close change nothing that waits.
LEMMA DateChangesActs ==
    ASSUME ActInv, DateChanges
    PROVE  ActInv'
  BY ClosedThere DEF ActInv, DateChanges, serverVars

\* Escape and scrolling dismiss pickers and flush nothing.
LEMMA EscapeActs ==
    ASSUME ActInv, NEW kinds, EscapeOrScroll(kinds)
    PROVE  ActInv'
  <1>1. /\ UNCHANGED <<acts, choosing, recorded, excused>>
        /\ page' = Closed(page, kinds) /\ sent' = sent \o Dismissals(page, kinds)
    BY DEF EscapeOrScroll, Handled, serverVars
  <1>2. State(page, sent', recorded, choosing, acts, excused)
    BY <1>1, DismissalReports, PickersThere DEF ActInv
  <1>3. QED
    BY <1>1, <1>2, ClosedThere DEF ActInv

\* suppressKeyboardClick is set or reset.
LEMMA SuppressThere ==
    ASSUME NEW p, NEW q, NEW r, NEW ch, NEW a, NEW x, State(p, q, r, ch, a, x), NEW g \in BOOLEAN
    PROVE  LET p2 == [p EXCEPT !.suppress = g] IN
           /\ State(p2, q, r, ch, a, x)
           /\ p2.dirty = p.dirty /\ p2.typed = p.typed /\ p2.value = p.value /\ p2.held = p.held /\ (p2.suppress <=> g)
  <1> DEFINE p2 == [p EXCEPT !.suppress = g]
  <1>1. p \in PageRec
    BY DEF State
  <1>2. /\ p2 \in PageRec
        /\ p2.dirty = p.dirty /\ p2.typed = p.typed /\ p2.value = p.value /\ p2.held = p.held /\ (p2.suppress <=> g)
    BY <1>1 DEF PageRec
  <1> HIDE DEF p2
  <1>3. QED
    BY <1>2, PageAlike DEF p2

\* An Enter is recorded after the value of its field, and its click is not.
LEMMA EnterActs ==
    ASSUME ActInv, NEW t \in Field \cup Button, NEW repeated \in BOOLEAN,
           NEW clicked \in Button \cup {None},
           Enter(t, repeated, clicked)
    PROVE  ActInv'
  <1>1. Acts /\ acts < MaxActs /\ acts' = acts + 1 /\ acts' # 0 /\ acts' \in Act
    BY NextNumber DEF Enter
  <1>2. UNCHANGED <<recorded, choosing>>
    BY DEF Enter, serverVars
  <1>3. CASE page.locked
    <2>1. page' = page /\ sent' = sent /\ excused' = excused \cup {acts + 1}
      BY <1>1, <1>3 DEF Enter, Excuse
    <2>2. QED
      BY <1>1, <1>2, <2>1, ExcusedThere DEF ActInv
  <1> DEFINE down == [page EXCEPT !.suppress = TRUE]
             m == Made("keypress", t, acts')
             clicks == IF clicked = None THEN <<>> ELSE OfEnter(down, clicked, acts')
  <1>4. /\ State(down, sent, recorded, choosing, acts, excused)
        /\ down.dirty = page.dirty /\ down.typed = page.typed /\ down.value = page.value /\ down.held = page.held /\ down.suppress
    BY SuppressThere DEF ActInv
  <1>5. clicks = <<>>
    BY <1>4 DEF OfEnter
  <1>6. sent \in Seq(Report) /\ (clicked = None) \in BOOLEAN
    BY DEF ActInv, State, Good
  <1>7. CASE ~page.locked /\ repeated
    <2>1. /\ page' = [down EXCEPT !.suppress = clicked = None]
          /\ sent' = sent \o (<<>> \o clicks)
          /\ excused' = excused \cup {acts + 1}
      BY <1>1, <1>7 DEF Enter, Handled, Excuse
    <2> HIDE DEF down, clicks
    <2>2. sent' = sent
      BY <1>5, <1>6, <2>1, ConcatEmptySeq
    <2>3. State(down, sent, recorded, choosing, acts + 1, excused \cup {acts + 1})
      BY <1>1, <1>4, ExcusedThere
    <2>4. State(page', sent, recorded, choosing, acts + 1, excused \cup {acts + 1})
      BY <1>6, <2>1, <2>3, SuppressThere
    <2>5. QED
      BY <1>1, <1>2, <2>1, <2>2, <2>4 DEF ActInv
  <1>8. CASE ~page.locked /\ ~repeated
    <2> DEFINE pressed == FieldFlushed(down, t)
               fl == FlushField(page, t)
    <2>1. /\ page' = [pressed EXCEPT !.suppress = clicked = None]
          /\ sent' = sent \o ((fl \o <<m>>) \o clicks)
          /\ excused' = excused
      BY <1>8 DEF Enter, Handled, Excuse
    <2>2. m \in Report /\ m.act = acts + 1 /\ m.kind = "keypress"
      BY <1>1 DEF Made, Report
    <2> HIDE DEF down, clicks, m
    <2>3. FlushField(down, t) = fl
      BY <1>4 DEF FlushField, Fill
    <2>4. State(pressed, sent \o fl, recorded, choosing, acts, excused) /\ fl \in Seq(Report)
      BY <1>4, <2>3, FieldGoes
    <2> HIDE DEF pressed, fl
    <2>5. State(pressed, (sent \o fl) \o <<m>>, recorded, choosing, acts + 1, excused)
      BY <1>1, <2>2, <2>4, ActThere
    <2>6. State(page', (sent \o fl) \o <<m>>, recorded, choosing, acts + 1, excused)
      BY <1>6, <2>1, <2>5, SuppressThere
    <2>7. sent' = (sent \o fl) \o <<m>>
      <3>1. <<m>> \in Seq(Report)
        BY <2>2
      <3>2. fl \o <<m>> \in Seq(Report) /\ sent \o (fl \o <<m>>) = (sent \o fl) \o <<m>>
        BY <1>6, <2>4, <3>1, ThreeParts
      <3>3. (fl \o <<m>>) \o <<>> = fl \o <<m>>
        BY <3>2, ConcatEmptySeq
      <3>4. QED
        BY <1>5, <2>1, <3>2, <3>3
    <2>8. QED
      BY <1>1, <1>2, <2>1, <2>6, <2>7 DEF ActInv
  <1>9. QED
    BY <1>3, <1>7, <1>8

\* The end of the task in which clicks are swallowed.
LEMMA SuppressEndsActs ==
    ASSUME ActInv, SuppressEnds
    PROVE  ActInv'
  BY SuppressThere DEF ActInv, SuppressEnds, serverVars

\* What waits has numbers, and they are pending.
LEMMA PendingNumbers ==
    ASSUME ActInv
    PROVE  /\ \A e \in Fills(page) : e.act \in Waiting(page) \ {0}
           /\ page.held # NoHeld => page.held.act \in Waiting(page) \ {0}
           /\ choosing # NoHeld => choosing.act \in {choosing.act} \ {0}
  <1>1. \A e \in Fills(page) : e.act # 0
    BY InputAssumption DEF ActInv, State, Good, Sound
  <1>2. \A e \in Fills(page) : e.act \in Waiting(page)
    BY DEF Fills, Fill, Made, Waiting
  <1>3. page.held \in HeldRec /\ choosing \in HeldRec
    BY DEF ActInv, State, PageRec
  <1>4. QED
    BY <1>1, <1>2, <1>3, InputAssumption DEF HeldRec, Waiting, Act

\* A page without anything that waits.
LEMMA UnlockedFresh ==
    ASSUME NEW plain \in BOOLEAN
    PROVE  /\ FreshPage(plain) \in PageRec /\ FreshPage(plain).dirty = <<>>
           /\ Fills(FreshPage(plain)) = {} /\ FreshPage(plain).held = NoHeld
           /\ FreshPage(plain).open = {} /\ (FreshPage(plain).native <=> plain)
  <1> DEFINE p == FreshPage(plain)
             n == [f \in Field |-> 0]
             b == [f \in Field |-> None]
  <1>1. n \in [Field -> 0 .. MaxActs] /\ b \in [Field -> Value \cup {None}] /\ <<>> \in Seq(Field) /\ IsInjective(<<>>)
    BY InputAssumption DEF IsInjective
  <1>2. p = [dirty |-> <<>>, typed |-> n, value |-> b, held |-> NoHeld, suppress |-> FALSE,
             locked |-> FALSE, open |-> {}, native |-> plain]
    BY Zenon DEF FreshPage
  <1> HIDE DEF n, b, p
  <1>3. p \in PageRec /\ p.dirty = <<>> /\ p.held = NoHeld /\ p.open = {} /\ (p.native <=> plain)
    BY <1>1, <1>2 DEF PageRec, HeldRec
  <1>4. QED
    BY <1>3, NoFills DEF p

\* A page with a lock and nothing that waits.
LEMMA FreshPages ==
    ASSUME NEW plain \in BOOLEAN, NEW l \in BOOLEAN
    PROVE  LET p == [FreshPage(plain) EXCEPT !.locked = l] IN
           p \in PageRec /\ Fills(p) = {} /\ p.held = NoHeld /\ p.open = {} /\ (p.native <=> plain)
  <1> DEFINE w == FreshPage(plain)
             p == [w EXCEPT !.locked = l]
  <1>1. w \in PageRec /\ w.dirty = <<>> /\ w.held = NoHeld /\ w.open = {} /\ (w.native <=> plain)
    BY UnlockedFresh
  <1> HIDE DEF w
  <1>2. p \in PageRec /\ p.dirty = <<>> /\ p.held = NoHeld /\ p.open = {} /\ (p.native <=> plain)
    BY <1>1 DEF PageRec
  <1> HIDE DEF p
  <1>3. p \in PageRec /\ Fills(p) = {} /\ p.held = NoHeld /\ p.open = {} /\ (p.native <=> plain)
    BY <1>2, NoFills
  <1>4. QED
    BY <1>3 DEF p, w

\* That the page was left is a report of no act.
LEMMA LeftReport ==
    LET m == Made("left", None, 0) IN
    m \in Report /\ m.kind = "left" /\ ~IsAct(m)
  BY DEF Made, Report, IsAct

\* It changes nothing of what is logged and what waits.
LEMMA LeftThere ==
    ASSUME NEW p, NEW q, NEW r, NEW ch, NEW a, NEW x, State(p, q, r, ch, a, x)
    PROVE  State(p, Append(q, Made("left", None, 0)), r, ch, a, x)
  <1> DEFINE m == Made("left", None, 0)
  <1>1. m \in Report /\ ~IsAct(m) /\ q \in Seq(Report)
    BY LeftReport DEF State, Good
  <1> HIDE DEF m
  <1>2. <<m>> \in Seq(Report) /\ (\A i \in DOMAIN <<m>> : ~IsAct(<<m>>[i])) /\ q \o <<m>> = Append(q, m)
    BY <1>1
  <1>3. State(p, q \o <<m>>, r, ch, a, x)
    BY <1>2, PickersThere
  <1>4. QED
    BY <1>2, <1>3 DEF m

\* A page that is left takes with it what waits, and a choice that is not in it yet.
LEMMA UnloadActs ==
    ASSUME ActInv, Unload
    PROVE  ActInv'
  <1> DEFINE lost == IF stage \in {"asked", "told", "failed"} THEN {choosing.act} ELSE {}
             x2 == excused \cup ((Waiting(page) \cup lost \cup {acts'}) \ {0})
             ch == IF lost = {} THEN choosing ELSE NoHeld
  <1>1. /\ Acts /\ acts < MaxActs /\ acts' = acts + 1 /\ acts' # 0
        /\ recorded' = recorded /\ sent' = Append(sent, Made("left", None, 0))
        /\ choosing' = ch /\ page' = FreshPage(page.native) /\ excused' = x2
    BY NextNumber DEF Unload, serverVars, Excuse
  <1>2. page.native \in BOOLEAN
    BY DEF ActInv, State, PageRec
  <1>3. page' \in PageRec /\ Fills(page') = {} /\ page'.held = NoHeld
    BY <1>1, <1>2, UnlockedFresh
  <1>4. /\ excused \subseteq x2 /\ x2 \cup {acts + 1} = x2
        /\ Waiting(page) \ {0} \subseteq x2 /\ lost \ {0} \subseteq x2
    BY <1>1
  <1>5. ch \in {choosing, NoHeld} /\ (ch # choosing => choosing.act \in lost)
    OBVIOUS
  <1> HIDE DEF x2, ch, lost
  <1>6. /\ \A e \in Fills(page) : e.act \in x2
        /\ page.held # NoHeld => page.held.act \in x2
        /\ choosing # NoHeld => choosing.act # 0
    <2>1. choosing # NoHeld => choosing \in [label : Label, act : Act]
      BY DEF ActInv, State, HeldRec
    <2>2. choosing # NoHeld => choosing.act # 0
      BY <2>1, InputAssumption DEF Act
    <2>3. QED
      BY <1>4, <2>2, PendingNumbers
  <1>7. State(page', sent, recorded, ch, acts, x2)
    <2>1. State(page, sent, recorded, choosing, acts, excused)
      BY DEF ActInv
    <2>2. ch # choosing => choosing.act \in x2
      BY <1>4, <1>5, <1>6
    <2>3. /\ Fills(page') \subseteq Fills(page) /\ page'.held \in {page.held, NoHeld}
          /\ \A e \in Fills(page) \ Fills(page') : e.act \in x2
          /\ page'.held # page.held => page.held.act \in x2
      BY <1>3, <1>6
    <2>4. QED
      BY <1>3, <1>4, <1>5, <2>1, <2>2, <2>3, LessThere
  <1>8. State(page', sent, recorded, ch, acts + 1, x2)
    BY <1>1, <1>4, <1>7, ExcusedThere
  <1>9. QED
    BY <1>1, <1>8, LeftThere DEF ActInv

\* A lock that reaches the page drops what waits there.
LEMMA LockReachesActs ==
    ASSUME ActInv, LockReachesPage
    PROVE  ActInv'
  <1>1. UNCHANGED <<acts, sent, recorded, choosing>>
    BY DEF LockReachesPage, serverVars
  <1>2. page \in PageRec /\ page.native \in BOOLEAN /\ State(page, sent, recorded, choosing, acts, excused)
    BY DEF ActInv, State, PageRec
  <1>3. CASE locked
    <2>1. /\ page' = [FreshPage(page.native) EXCEPT !.locked = TRUE]
          /\ excused' = excused \cup (Waiting(page) \ {0})
      BY <1>3 DEF LockReachesPage, Abandon, Excuse
    <2>2. page' \in PageRec /\ Fills(page') = {} /\ page'.held = NoHeld
      BY <1>2, <2>1, FreshPages
    <2>3. /\ Fills(page') \subseteq Fills(page) /\ page'.held \in {page.held, NoHeld}
          /\ \A e \in Fills(page) \ Fills(page') : e.act \in excused'
          /\ page'.held # page.held => page.held.act \in excused'
      BY <2>1, <2>2, PendingNumbers
    <2>4. State(page', sent, recorded, choosing, acts, excused')
      <3>1. choosing \in {choosing, NoHeld} /\ excused \subseteq excused'
        BY <2>1
      <3>2. choosing # choosing => choosing.act \in excused'
        OBVIOUS
      <3>3. QED
        BY <1>2, <2>2, <2>3, <3>1, <3>2, LessThere
    <2>5. QED
      BY <1>1, <2>4 DEF ActInv
  <1>4. CASE ~locked
    <2>1. page' = [page EXCEPT !.locked = FALSE] /\ excused' = excused
      BY <1>4 DEF LockReachesPage
    <2>2. page' \in PageRec /\ page'.dirty = page.dirty /\ page'.typed = page.typed /\ page'.value = page.value /\ page'.held = page.held
      BY <1>2, <2>1 DEF PageRec
    <2>3. State(page', sent, recorded, choosing, acts, excused)
      BY <1>2, <2>2, PageAlike
    <2>4. QED
      BY <1>1, <2>1, <2>3 DEF ActInv
  <1>5. QED
    BY <1>3, <1>4

\* A report is heard: an act is recorded, or dropped as locked or repeated.
LEMMA HearsActs ==
    ASSUME ActInv, Hears
    PROVE  ActInv'
  <1> DEFINE r == Head(sent)
  <1>1. UNCHANGED <<acts, page, choosing>> /\ sent # <<>> /\ sent' = Tail(sent)
    BY DEF Hears
  <1>2. /\ page \in PageRec /\ choosing \in HeldRec
        /\ Good(recorded, sent, Fills(page), OptionOf(page.held), ChoiceOf(choosing), acts, excused)
        /\ sent \in Seq(Report)
    BY DEF ActInv, State, Good
  <1>3. r \in Report
    BY <1>1, <1>2
  <1>4. /\ IsAct(r) => Good(Append(recorded, r), Tail(sent), Fills(page), OptionOf(page.held), ChoiceOf(choosing), acts, excused)
        /\ ~IsAct(r) => Good(recorded, Tail(sent), Fills(page), OptionOf(page.held), ChoiceOf(choosing), acts, excused)
        /\ \A y : excused \cup {r.act} \subseteq y =>
             Good(recorded, Tail(sent), Fills(page), OptionOf(page.held), ChoiceOf(choosing), acts, y)
    BY <1>1, <1>2, HeardGoes
  <1>5. CASE ~IsAct(r)
    <2>1. UNCHANGED <<recorded, excused>>
      BY <1>5 DEF Hears, IsAct
    <2>2. QED
      BY <1>1, <1>2, <1>4, <1>5, <2>1 DEF ActInv, State
  <1>6. CASE IsAct(r)
    <2>1. Forward(r)
      BY <1>6 DEF Hears, IsAct
    <2>2. r.act \in Act /\ r.act # 0
      BY <1>3, <1>6, ReportFields, InputAssumption DEF Act
    <2>3. CASE locked \/ Repeats(r)
      <3>1. excused' = excused \cup {r.act} /\ recorded' = recorded
        BY <2>1, <2>2, <2>3 DEF Forward, Excuse
      <3>2. QED
        BY <1>1, <1>2, <1>4, <3>1 DEF ActInv, State
    <2>4. CASE ~(locked \/ Repeats(r))
      <3>1. excused' = excused /\ recorded' = Append(recorded, r)
        BY <2>1, <2>4 DEF Forward
      <3>2. QED
        BY <1>1, <1>2, <1>4, <1>6, <3>1 DEF ActInv, State
    <2>5. QED
      BY <2>3, <2>4
  <1>7. QED
    BY <1>5, <1>6

\* What is not told of acts changes.
LEMMA SameActs ==
    ASSUME ActInv, UNCHANGED <<page, sent, recorded, choosing, acts, excused>>
    PROVE  ActInv'
  BY DEF ActInv

\* A choice of the client's picker is on its way into the page.
LEMMA ChooseActs ==
    ASSUME ActInv, NEW l \in Label, Choose(l)
    PROVE  ActInv'
  <1> DEFINE h == [label |-> l, act |-> acts']
             m == Made("choice", l, acts')
  <1>1. /\ Acts /\ acts < MaxActs /\ acts' = acts + 1 /\ acts' \in Act
        /\ UNCHANGED <<page, sent, recorded, excused>>
        /\ choosing = NoHeld /\ choosing' = h
    BY NextNumber DEF Choose
  <1>2. m \in Report /\ m.act = acts + 1 /\ m.kind = "choice"
    BY <1>1 DEF Made, Report
  <1>3. h \in HeldRec /\ ChoiceOf(h) = {m}
    <2>1. h # NoHeld
      BY InputAssumption DEF NoHeld
    <2>2. h \in [label : Label, act : Act]
      BY <1>1
    <2>3. h.label = l /\ h.act = acts'
      OBVIOUS
    <2> HIDE DEF h
    <2>4. QED
      BY <2>1, <2>2, <2>3 DEF ChoiceOf, HeldRec
  <1> HIDE DEF h, m
  <1>4. page \in PageRec /\ Good(recorded, sent, Fills(page), OptionOf(page.held), {}, acts, excused)
    BY <1>1 DEF ActInv, State, ChoiceOf
  <1>5. Good(recorded, sent, Fills(page), OptionOf(page.held), {m}, acts + 1, excused)
    BY <1>1, <1>2, <1>4, ChoiceGoes
  <1>6. QED
    BY <1>1, <1>3, <1>4, <1>5 DEF ActInv, State

\* The change it makes in the page settles the option held.
LEMMA ChoiceMadeActs ==
    ASSUME ActInv, StageInv, ChoiceMade
    PROVE  ActInv'
  <1> DEFINE l == choosing.label
             held == IF OfHeld(page, l) THEN <<>> ELSE FlushHeld(page)
             same == IF OfHeld(page, l) THEN {page.held.act} ELSE {}
             after == HeldFlushed(Closed(page, {"select"}))
             x1 == excused \cup (same \ {0})
  <1>1. UNCHANGED <<acts, choosing, recorded>> /\ excused' = x1
    BY DEF ChoiceMade, Excuse, serverVars
  <1>2. l \in Label
    <2>1. choosing # NoHeld
      BY DEF ChoiceMade, StageInv
    <2>2. choosing \in [label : Label, act : Act]
      BY <2>1 DEF ActInv, State, HeldRec
    <2>3. QED
      BY <2>2
  <1>3. CASE page.locked
    <2>1. page' = page /\ sent' = sent
      BY <1>3 DEF ChoiceMade
    <2>2. excused \subseteq x1
      OBVIOUS
    <2> HIDE DEF x1
    <2>3. State(page, sent, recorded, choosing, acts, x1)
      BY <2>2, MoreExcused DEF ActInv
    <2>4. QED
      BY <1>1, <2>1, <2>3 DEF ActInv
  <1>4. CASE ~page.locked
    <2>1. page' = after /\ sent' = sent \o held
      BY <1>4 DEF ChoiceMade, Handled
    <2>2. State(after, sent \o held, recorded, choosing, acts, x1)
      BY <1>2, SettledActs
    <2> HIDE DEF x1, after, held
    <2>3. QED
      BY <1>1, <2>1, <2>2 DEF ActInv
  <1>5. QED
    BY <1>3, <1>4

\* A choice that fails is not recorded.
LEMMA ChoiceFailsActs ==
    ASSUME ActInv, StageInv, ChoiceFails
    PROVE  ActInv'
  <1>1. /\ UNCHANGED <<page, sent, recorded, acts>> /\ choosing' = NoHeld
        /\ excused' = excused \cup ({choosing.act} \ {0})
    BY DEF ChoiceFails, Excuse, serverVars
  <1>2. choosing \in [label : Label, act : Act]
    BY DEF ChoiceFails, StageInv, ActInv, State, HeldRec
  <1>3. excused \subseteq excused' /\ choosing.act \in excused'
    BY <1>1, <1>2, InputAssumption DEF Act
  <1>4. page \in PageRec /\ NoHeld \in {choosing, NoHeld} /\ State(page, sent, recorded, choosing, acts, excused)
    BY DEF ActInv, State
  <1>5. State(page, sent, recorded, NoHeld, acts, excused')
    BY <1>3, <1>4, LessThere
  <1>6. QED
    BY <1>1, <1>5 DEF ActInv

\* A choice is recorded once, or dropped as locked or repeated.
LEMMA ChosenActs ==
    ASSUME ActInv, StageInv, Chosen
    PROVE  ActInv'
  <1> DEFINE r == Made("choice", choosing.label, choosing.act)
  <1>1. choosing # NoHeld /\ choosing' = NoHeld /\ UNCHANGED <<acts, page, sent>> /\ Forward(r)
    BY DEF Chosen, StageInv
  <1>2. choosing \in [label : Label, act : Act]
    BY <1>1 DEF ActInv, State, HeldRec
  <1>3. State(page, sent, recorded, choosing, acts, excused) /\ page \in PageRec
    BY DEF ActInv, State
  <1>4. r.act = choosing.act /\ choosing.act # 0
    BY <1>2, InputAssumption DEF Made, Act
  <1>5. CASE locked \/ Repeats(r)
    <2>1. excused' = excused \cup {r.act} /\ recorded' = recorded
      BY <1>1, <1>4, <1>5 DEF Forward, Excuse
    <2>2. excused \subseteq excused' /\ choosing.act \in excused' /\ NoHeld \in {choosing, NoHeld}
      BY <1>4, <2>1
    <2>3. State(page, sent, recorded, NoHeld, acts, excused')
      BY <1>3, <2>2, LessThere
    <2>4. QED
      BY <1>1, <2>1, <2>3 DEF ActInv
  <1>6. CASE ~(locked \/ Repeats(r))
    <2>1. excused' = excused /\ recorded' = Append(recorded, r)
      BY <1>1, <1>6 DEF Forward
    <2>2. ChoiceOf(choosing) = {r} /\ ChoiceOf(NoHeld) = {} /\ NoHeld \in HeldRec
      BY <1>1 DEF ChoiceOf, HeldRec
    <2> HIDE DEF r
    <2>3. Good(recorded, sent, Fills(page), OptionOf(page.held), {r}, acts, excused)
      BY <1>3, <2>2 DEF State
    <2>4. Good(Append(recorded, r), sent, Fills(page), OptionOf(page.held), {}, acts, excused)
      BY <2>3, ChoiceRecorded
    <2>5. QED
      BY <1>1, <1>3, <2>1, <2>2, <2>4 DEF ActInv, State
  <1>7. QED
    BY <1>5, <1>6

-----------------------------------------------------------------------------
(* Pickers *)

\* What ends the picker k when the server hears of it.
EndsPicker(m, k) ==
    m = About("dismiss", k) \/ (m.kind = "request" /\ m.what # k) \/ m.kind = "left"

\* What the client shows, or will show, unless the server was told not to.
Live == (shown \ stray) \cup opening

\* A picker the page does not know of is not shown, or something on its way ends
\* it; and so for one that is asked for.
Known(q, sh, known) ==
    \A k \in Both \ known :
       /\ k \in sh => \E j \in DOMAIN q : EndsPicker(q[j], k)
       /\ \A i \in DOMAIN q : q[i] = About("request", k) => \E j \in DOMAIN q : i < j /\ EndsPicker(q[j], k)

PickerInv ==
    /\ Known(sent, Live, page.open \cup forgotten)
    /\ locked => Live = {}
    /\ page.native => "select" \notin page.open
    /\ Live \subseteq Both

Says(ms, e) == \E i \in DOMAIN ms : ms[i] = e
NoneAsked(ms) == ms \in Seq(Report) /\ \A i \in DOMAIN ms : ms[i].kind # "request"

\* Reports that ask for no picker.
LEMMA NoRequests ==
    ASSUME NEW s, NEW t, NoneAsked(s), NoneAsked(t)
    PROVE  /\ NoneAsked(s \o t)
           /\ \A e : Says(s, e) => Says(s \o t, e)
  <1>1. s \in Seq(Report) /\ t \in Seq(Report)
    BY DEF NoneAsked
  <1>2. /\ s \o t \in Seq(Report) /\ Len(s \o t) = Len(s) + Len(t)
        /\ \A i \in 1 .. Len(s) + Len(t) : (s \o t)[i] = IF i <= Len(s) THEN s[i] ELSE t[i - Len(s)]
    BY <1>1, ConcatProperties
  <1>3. NoneAsked(s \o t)
    BY <1>1, <1>2 DEF NoneAsked
  <1>4. ASSUME NEW e, Says(s, e) PROVE Says(s \o t, e)
    <2>1. PICK i \in DOMAIN s : s[i] = e
      BY <1>4 DEF Says
    <2>2. i \in DOMAIN (s \o t) /\ (s \o t)[i] = e
      BY <1>1, <1>2, <2>1
    <2>3. QED
      BY <2>2 DEF Says
  <1>5. QED
    BY <1>3, <1>4

\* One report, and none.
LEMMA OneRequest ==
    /\ NoneAsked(<<>>)
    /\ \A m \in Report : m.kind # "request" => NoneAsked(<<m>>)
  BY DEF NoneAsked

\* What is flushed, and what is dismissed, asks for no picker.
LEMMA Flushes ==
    ASSUME NEW p \in PageRec, Fills(p) \subseteq Report
    PROVE  /\ \A f : NoneAsked(FlushField(p, f))
           /\ NoneAsked(FlushFields(p))
           /\ NoneAsked(FlushHeld(p))
           /\ \A ks : NoneAsked(Dismissals(p, ks))
           /\ \A ks : \A k \in p.open \cap ks : Says(Dismissals(p, ks), About("dismiss", k))
  <1>1. p.dirty \in Seq(Field) /\ p.held \in HeldRec /\ p.open \subseteq Both
    BY DEF PageRec
  <1>2. \A f \in ToSet(p.dirty) : Fill(p, f) \in Report /\ Fill(p, f).kind # "request"
    <2>1. \A f \in ToSet(p.dirty) : Fill(p, f) \in Report
      BY DEF Fills
    <2>2. \A f : Fill(p, f).kind # "request"
      BY DEF Fill, Made
    <2>3. QED
      BY <2>1, <2>2
  <1>3. ASSUME NEW f PROVE NoneAsked(FlushField(p, f))
    BY <1>2, OneRequest DEF FlushField
  <1>4. NoneAsked(FlushFields(p))
    <2> DEFINE ms == FlushFields(p)
    <2>1. ms = [i \in 1 .. Len(p.dirty) |-> Fill(p, p.dirty[i])] /\ Len(p.dirty) \in Nat
      BY <1>1 DEF FlushFields
    <2>2. \A i \in 1 .. Len(p.dirty) : p.dirty[i] \in ToSet(p.dirty)
      BY <1>1 DEF ToSet
    <2> HIDE DEF ms
    <2>3. ms \in Seq(Report)
      BY <1>2, <2>1, <2>2
    <2>4. \A i \in DOMAIN ms : ms[i].kind # "request"
      BY <1>2, <2>1, <2>2
    <2>5. QED
      BY <2>3, <2>4 DEF NoneAsked, ms
  <1>5. NoneAsked(FlushHeld(p))
    <2>1. p.held # NoHeld => Made("option", p.held.label, p.held.act) \in Report
      BY <1>1 DEF HeldRec, Made, Report
    <2>2. Made("option", p.held.label, p.held.act).kind # "request"
      BY DEF Made
    <2>3. QED
      BY <2>1, <2>2, OneRequest DEF FlushHeld
  <1>6. ASSUME NEW ks PROVE NoneAsked(Dismissals(p, ks))
    BY DismissalReports DEF NoneAsked
  <1>7. ASSUME NEW ks, NEW k \in p.open \cap ks PROVE Says(Dismissals(p, ks), About("dismiss", k))
    BY <1>1, DismissalReports DEF Says
  <1>8. QED
    BY <1>3, <1>4, <1>5, <1>6, <1>7

\* Reports that ask for no picker, and dismiss those the page will not know of.
LEMMA KnownLater ==
    ASSUME NEW q \in Seq(Report), NEW sh, NEW known, Known(q, sh, known), NEW ms, NoneAsked(ms),
           NEW later, \A k \in (Both \cap known) \ later : Says(ms, About("dismiss", k))
    PROVE  Known(q \o ms, sh, later)
  <1> DEFINE t == q \o ms
  <1>1. ms \in Seq(Report) /\ \A i \in DOMAIN ms : ms[i].kind # "request"
    BY DEF NoneAsked
  <1>2. /\ t \in Seq(Report) /\ Len(t) = Len(q) + Len(ms)
        /\ \A i \in 1 .. Len(q) + Len(ms) : t[i] = IF i <= Len(q) THEN q[i] ELSE ms[i - Len(q)]
    BY <1>1, ConcatProperties
  <1> HIDE DEF t
  <1>3. /\ \A j \in DOMAIN q : j \in DOMAIN t /\ t[j] = q[j]
        /\ \A j \in DOMAIN ms : Len(q) + j \in DOMAIN t /\ t[Len(q) + j] = ms[j]
        /\ \A i \in DOMAIN t : i \in DOMAIN q \/ t[i].kind # "request"
        /\ \A i \in DOMAIN q, j \in DOMAIN ms : i < Len(q) + j
    BY <1>1, <1>2
  <1>4. ASSUME NEW k \in Both \ later
        PROVE  /\ k \in sh => \E j \in DOMAIN t : EndsPicker(t[j], k)
               /\ \A i \in DOMAIN t : t[i] = About("request", k) => \E j \in DOMAIN t : i < j /\ EndsPicker(t[j], k)
    <2>0. About("request", k).kind = "request"
      BY DEF About, Made
    <2>1. \A i \in DOMAIN t : t[i] = About("request", k) => i \in DOMAIN q
      BY <1>3, <2>0
    <2>2. CASE k \in known
      <3>1. PICK j \in DOMAIN ms : ms[j] = About("dismiss", k)
        BY <2>2 DEF Says
      <3>2. Len(q) + j \in DOMAIN t /\ EndsPicker(t[Len(q) + j], k) /\ \A i \in DOMAIN q : i < Len(q) + j
        BY <1>3, <3>1 DEF EndsPicker
      <3>3. QED
        BY <2>1, <3>2
    <2>3. CASE k \notin known
      <3>1. /\ k \in sh => \E j \in DOMAIN q : EndsPicker(q[j], k)
            /\ \A i \in DOMAIN q : q[i] = About("request", k) => \E j \in DOMAIN q : i < j /\ EndsPicker(q[j], k)
        BY <2>3 DEF Known
      <3>2. k \in sh => \E j \in DOMAIN t : EndsPicker(t[j], k)
        BY <1>3, <3>1
      <3>3. ASSUME NEW i \in DOMAIN t, t[i] = About("request", k)
            PROVE  \E j \in DOMAIN t : i < j /\ EndsPicker(t[j], k)
        <4>1. i \in DOMAIN q /\ q[i] = About("request", k)
          BY <1>3, <2>1, <3>3
        <4>2. PICK j \in DOMAIN q : i < j /\ EndsPicker(q[j], k)
          BY <3>1, <4>1
        <4>3. QED
          BY <1>3, <4>2
      <3>4. QED
        BY <3>2, <3>3
    <2>4. QED
      BY <2>2, <2>3
  <1>5. QED
    BY <1>4 DEF Known, t

\* A picker asked for is the only one that will be shown.
LEMMA KnownAsked ==
    ASSUME NEW q \in Seq(Report), NEW sh, NEW k \in Both, NEW known, k \in known
    PROVE  Known(q \o <<About("request", k)>>, sh, known)
  <1> DEFINE m == About("request", k)
             t == q \o <<m>>
  <1>1. m \in Report /\ m.kind = "request" /\ m.what = k
    BY DEF About, Made, Report, Both
  <1>2. ASSUME NEW o, NEW i \in DOMAIN t, i # Len(t), o # k
        PROVE  i < Len(t)
    <2> HIDE DEF m
    <2>1. QED
      BY <1>1, <1>2
  <1>3. Len(t) \in DOMAIN t /\ t[Len(t)] = m
    <2> HIDE DEF m
    <2>1. QED
      BY <1>1
  <1> HIDE DEF t
  <1>4. \A o : o # k => EndsPicker(t[Len(t)], o) /\ m # About("request", o)
    <2>1. \A o : About("request", o).what = o
      BY DEF About, Made
    <2> HIDE DEF m
    <2>2. QED
      BY <1>1, <1>3, <2>1 DEF EndsPicker
  <1> HIDE DEF m
  <1>5. ASSUME NEW o \in Both \ known
        PROVE  /\ o \in sh => \E j \in DOMAIN t : EndsPicker(t[j], o)
               /\ \A i \in DOMAIN t : t[i] = About("request", o) => \E j \in DOMAIN t : i < j /\ EndsPicker(t[j], o)
    <2>1. o # k
      OBVIOUS
    <2>2. \A i \in DOMAIN t : t[i] = About("request", o) => i < Len(t)
      BY <1>2, <1>3, <1>4, <2>1
    <2>3. QED
      BY <1>3, <1>4, <2>1, <2>2
  <1>6. QED
    BY <1>5 DEF Known, t, m

\* The server hears the first report.
LEMMA KnownHeard ==
    ASSUME NEW q \in Seq(Report), q # <<>>, NEW sh, NEW known, Known(q, sh, known), NEW after,
           \A k \in after : Head(q) = About("request", k) \/ (k \in sh /\ ~EndsPicker(Head(q), k))
    PROVE  Known(Tail(q), after, known)
  <1> DEFINE t == Tail(q)
  <1>1. /\ 1 \in DOMAIN q /\ Head(q) = q[1]
        /\ \A i \in DOMAIN t : i + 1 \in DOMAIN q /\ q[i + 1] = t[i]
        /\ \A j \in DOMAIN q : 1 < j => j - 1 \in DOMAIN t /\ t[j - 1] = q[j]
        /\ \A j \in DOMAIN q : j = 1 \/ 1 < j
        /\ \A i \in DOMAIN t : \A j \in DOMAIN q : i + 1 < j => 1 < j /\ i < j - 1
    OBVIOUS
  <1> HIDE DEF t
  <1>2. ASSUME NEW k \in Both \ known
        PROVE  /\ k \in after => \E j \in DOMAIN t : EndsPicker(t[j], k)
               /\ \A i \in DOMAIN t : t[i] = About("request", k) => \E j \in DOMAIN t : i < j /\ EndsPicker(t[j], k)
    <2>1. /\ k \in sh => \E j \in DOMAIN q : EndsPicker(q[j], k)
          /\ \A i \in DOMAIN q : q[i] = About("request", k) => \E j \in DOMAIN q : i < j /\ EndsPicker(q[j], k)
      BY DEF Known
    <2>2. ASSUME k \in after PROVE \E j \in DOMAIN t : EndsPicker(t[j], k)
      <3>1. PICK j \in DOMAIN q : 1 < j /\ EndsPicker(q[j], k)
        BY <1>1, <2>1, <2>2
      <3>2. QED
        BY <1>1, <3>1
    <2>3. ASSUME NEW i \in DOMAIN t, t[i] = About("request", k)
          PROVE  \E j \in DOMAIN t : i < j /\ EndsPicker(t[j], k)
      <3>1. PICK j \in DOMAIN q : i + 1 < j /\ EndsPicker(q[j], k)
        BY <1>1, <2>1, <2>3
      <3>2. QED
        BY <1>1, <3>1
    <2>4. QED
      BY <2>2, <2>3
  <1>3. QED
    BY <1>2 DEF Known, t

\* That the page was left ends them all.
LEMMA KnownLeft ==
    ASSUME NEW q \in Seq(Report), NEW sh, NEW known
    PROVE  Known(Append(q, Made("left", None, 0)), sh, known)
  <1> DEFINE m == Made("left", None, 0)
             t == Append(q, m)
  <1>1. m \in Report /\ m.kind = "left"
    BY LeftReport
  <1>2. \A k : m # About("request", k)
    BY DEF About, Made
  <1> HIDE DEF m
  <1>3. /\ Len(t) \in DOMAIN t /\ t[Len(t)] = m
        /\ \A i \in DOMAIN t : i < Len(t) \/ t[i] = m
    BY <1>1
  <1> HIDE DEF t
  <1>4. \A k : EndsPicker(t[Len(t)], k)
    BY <1>1, <1>3 DEF EndsPicker
  <1>5. \A k \in Both, i \in DOMAIN t : t[i] = About("request", k) => i < Len(t)
    BY <1>2, <1>3
  <1>6. QED
    BY <1>3, <1>4, <1>5 DEF Known, t, m

\* Less is shown.
LEMMA KnownLess ==
    ASSUME NEW q, NEW sh, NEW known, Known(q, sh, known), NEW less, less \subseteq sh
    PROVE  Known(q, less, known)
  BY DEF Known

\* A step that reports what asks for no picker, and dismisses what it forgets.
LEMMA PickersKept ==
    ASSUME ActInv, PickerInv, UNCHANGED <<pickerVars, locked>>,
           page'.native <=> page.native, page'.open \subseteq page.open,
           NEW ms, NoneAsked(ms), sent' = sent \o ms,
           \A k \in (page.open \cup forgotten) \ (page'.open \cup forgotten') : Says(ms, About("dismiss", k))
    PROVE  PickerInv'
  <1>1. sent \in Seq(Report)
    BY DEF ActInv, State, Good
  <1>2. Known(sent \o ms, Live, page'.open \cup forgotten')
    BY <1>1, KnownLater DEF PickerInv
  <1>3. Live' = Live
    BY DEF Live, pickerVars
  <1>4. QED
    BY <1>2, <1>3 DEF PickerInv

\* A step that reports nothing.
LEMMA PickersAlike ==
    ASSUME ActInv, PickerInv, UNCHANGED <<pickerVars, locked, sent>>,
           page'.native <=> page.native, page'.open \subseteq page.open,
           page.open \cup forgotten \subseteq page'.open \cup forgotten'
    PROVE  PickerInv'
  <1>1. sent \o <<>> = sent
    BY ConcatEmptySeq DEF ActInv, State, Good
  <1>2. sent' = sent \o <<>> /\ NoneAsked(<<>>)
    BY <1>1, OneRequest
  <1>3. \A k \in (page.open \cup forgotten) \ (page'.open \cup forgotten') : Says(<<>>, About("dismiss", k))
    OBVIOUS
  <1>4. QED
    BY <1>2, <1>3, PickersKept

\* The page as the invariant has it.
LEMMA PageThere ==
    ASSUME ActInv
    PROVE  /\ page \in PageRec /\ page.open \subseteq Both
           /\ sent \in Seq(Report) /\ Fills(page) \subseteq Report
  BY DEF ActInv, State, Good, PageRec

\* Flushing, closing and typing leave the pickers, and how selects are shown, as they are.
LEMMA OpenAlike ==
    ASSUME NEW p \in PageRec
    PROVE  /\ \A f : FieldFlushed(p, f).open = p.open /\ (FieldFlushed(p, f).native <=> p.native)
           /\ FieldsFlushed(p).open = p.open /\ (FieldsFlushed(p).native <=> p.native)
           /\ HeldFlushed(p).open = p.open /\ (HeldFlushed(p).native <=> p.native)
           /\ \A ks : Closed(p, ks).open = p.open \ ks /\ (Closed(p, ks).native <=> p.native)
           /\ \A ks : Closed(p, ks) \in PageRec
           /\ FieldsFlushed(p) \in PageRec /\ HeldFlushed(p) \in PageRec
           /\ \A g \in BOOLEAN : LET p2 == [p EXCEPT !.suppress = g] IN
                p2 \in PageRec /\ p2.open = p.open /\ (p2.native <=> p.native)
  <1>1. <<>> \in Seq(Field) /\ IsInjective(<<>>) /\ NoHeld \in HeldRec
    BY DEF IsInjective, HeldRec
  <1>2. FieldsFlushed(p) \in PageRec /\ HeldFlushed(p) \in PageRec
    BY <1>1 DEF FieldsFlushed, HeldFlushed, PageRec
  <1>3. ASSUME NEW ks PROVE Closed(p, ks) \in PageRec
    BY DEF Closed, PageRec
  <1>4. ASSUME NEW g \in BOOLEAN
        PROVE  LET p2 == [p EXCEPT !.suppress = g] IN
               p2 \in PageRec /\ p2.open = p.open /\ (p2.native <=> p.native)
    BY DEF PageRec
  <1>5. QED
    BY <1>2, <1>3, <1>4 DEF FieldFlushed, FieldsFlushed, HeldFlushed, Closed, PageRec

\* Typing asks for nothing.
LEMMA TypePickers ==
    ASSUME ActInv, PickerInv, NEW f \in Field, NEW v \in Value, Type(f, v)
    PROVE  PickerInv'
  <1>1. UNCHANGED <<pickerVars, locked, sent, forgotten>>
    BY DEF Type, serverVars
  <1>2. page'.open = page.open /\ (page'.native <=> page.native)
    BY PageThere DEF Type, PageRec
  <1>3. QED
    BY <1>1, <1>2, PickersAlike

\* A field that is flushed leaves the pickers as they are.
LEMMA FocusPickers ==
    ASSUME ActInv, PickerInv, NEW to, MovesFocus(to)
    PROVE  PickerInv'
  <1>1. UNCHANGED <<pickerVars, locked, forgotten>>
    BY DEF MovesFocus, serverVars
  <1>2. CASE page.locked \/ focus = None
    BY <1>1, <1>2, PickersAlike DEF MovesFocus
  <1>3. CASE ~(page.locked \/ focus = None)
    <2>1. page' = FieldFlushed(page, focus) /\ sent' = sent \o FlushField(page, focus)
      BY <1>3 DEF MovesFocus, Handled
    <2>2. page'.open = page.open /\ (page'.native <=> page.native)
      BY <2>1, PageThere, OpenAlike
    <2>3. NoneAsked(FlushField(page, focus))
      BY PageThere, Flushes
    <2>4. QED
      BY <1>1, <2>1, <2>2, <2>3, PickersKept
  <1>4. QED
    BY <1>2, <1>3

\* A recorded click dismisses all that is open.
LEMMA BeforeClickPickers ==
    ASSUME ActInv
    PROVE  /\ NoneAsked(BeforeClick(page))
           /\ \A k \in page.open : Says(BeforeClick(page), About("dismiss", k))
           /\ AfterClick(page) \in PageRec
           /\ AfterClick(page).open \subseteq page.open /\ (AfterClick(page).native <=> page.native)
  <1>1. NoneAsked(Dismissals(page, Both)) /\ NoneAsked(FlushFields(page))
    BY PageThere, Flushes
  <1>2. NoneAsked(BeforeClick(page)) /\ \A e : Says(Dismissals(page, Both), e) => Says(BeforeClick(page), e)
    BY <1>1, NoRequests DEF BeforeClick
  <1>3. \A k \in page.open : Says(Dismissals(page, Both), About("dismiss", k))
    BY PageThere, Flushes
  <1>4. /\ AfterClick(page) \in PageRec
        /\ AfterClick(page).open \subseteq page.open /\ (AfterClick(page).native <=> page.native)
    <2> DEFINE pc == Closed(page, Both)
    <2>1. pc \in PageRec /\ pc.open = page.open \ Both /\ (pc.native <=> page.native)
      BY PageThere, OpenAlike
    <2> HIDE DEF pc
    <2>2. /\ FieldsFlushed(pc) \in PageRec
          /\ FieldsFlushed(pc).open = pc.open /\ (FieldsFlushed(pc).native <=> pc.native)
      BY <2>1, OpenAlike
    <2>3. AfterClick(page) = FieldsFlushed(pc)
      BY DEF AfterClick, pc
    <2>4. QED
      BY <2>1, <2>2, <2>3
  <1>5. QED
    BY <1>2, <1>3, <1>4

\* A click dismisses the pickers the page forgets.
LEMMA ButtonPickers ==
    ASSUME ActInv, PickerInv, NEW b \in Button, ClickButton(b)
    PROVE  PickerInv'
  <1>1. UNCHANGED <<pickerVars, locked, forgotten>> /\ Acts
    BY DEF ClickButton, serverVars
  <1>2. CASE page.locked
    BY <1>1, <1>2, PickersAlike DEF ClickButton
  <1>3. CASE ~page.locked
    <2> DEFINE m == Made("click", b, acts')
               p1 == AfterClick(page)
               ms == BeforeClick(page) \o (FlushHeld(page) \o <<m>>)
    <2>1. page' = HeldFlushed(p1) /\ sent' = sent \o ms
      BY <1>3 DEF ClickButton, Handled, Clicked
    <2>2. m \in Report /\ m.kind # "request"
      BY <1>1, NextNumber DEF Made, Report
    <2> HIDE DEF m, p1
    <2>3. NoneAsked(<<m>>)
      BY <2>2, OneRequest
    <2>4. NoneAsked(FlushHeld(page) \o <<m>>)
      BY <2>3, PageThere, Flushes, NoRequests
    <2>5. NoneAsked(ms) /\ \A k \in page.open : Says(ms, About("dismiss", k))
      BY <2>4, BeforeClickPickers, NoRequests
    <2> HIDE DEF ms
    <2>6. p1 \in PageRec /\ p1.open \subseteq page.open /\ (p1.native <=> page.native)
      BY BeforeClickPickers DEF p1
    <2>7. page'.open \subseteq page.open /\ (page'.native <=> page.native)
      BY <2>1, <2>6, OpenAlike
    <2>8. QED
      BY <1>1, <2>1, <2>5, <2>7, PickersKept
  <1>4. QED
    BY <1>2, <1>3

\* So does a click on an option.
LEMMA OptionPickers ==
    ASSUME ActInv, PickerInv, NEW l \in Label, NEW answer, ClickOption(l, answer)
    PROVE  PickerInv'
  <1>1. UNCHANGED <<pickerVars, locked, forgotten>> /\ Acts
    BY DEF ClickOption, serverVars
  <1>2. CASE page.locked
    BY <1>1, <1>2, PickersAlike DEF ClickOption
  <1>3. CASE ~page.locked
    <2> DEFINE p1 == AfterClick(page)
               ms == BeforeClick(page) \o FlushHeld(page)
    <2>1. page' = [p1 EXCEPT !.held = [label |-> l, act |-> acts']] /\ sent' = sent \o ms
      BY <1>3 DEF ClickOption, Handled
    <2> HIDE DEF p1
    <2>2. NoneAsked(FlushHeld(page))
      BY PageThere, Flushes
    <2>3. NoneAsked(ms) /\ \A k \in page.open : Says(ms, About("dismiss", k))
      BY <2>2, BeforeClickPickers, NoRequests
    <2> HIDE DEF ms
    <2>4. p1 \in PageRec /\ p1.open \subseteq page.open /\ (p1.native <=> page.native)
      BY BeforeClickPickers DEF p1
    <2>5. page'.open \subseteq page.open /\ (page'.native <=> page.native)
      BY <2>1, <2>4 DEF PageRec
    <2>6. QED
      BY <1>1, <2>1, <2>3, <2>5, PickersKept
  <1>4. QED
    BY <1>2, <1>3

\* An option reported in time leaves the pickers as they are.
LEMMA HeldExpiresPickers ==
    ASSUME ActInv, PickerInv, HeldExpires
    PROVE  PickerInv'
  <1>1. UNCHANGED <<pickerVars, locked, forgotten>>
    BY DEF HeldExpires, serverVars
  <1>2. page' = HeldFlushed(page) /\ sent' = sent \o FlushHeld(page)
    BY DEF HeldExpires, Handled
  <1>3. page'.open = page.open /\ (page'.native <=> page.native) /\ NoneAsked(FlushHeld(page))
    BY <1>2, PageThere, OpenAlike, Flushes
  <1>4. QED
    BY <1>1, <1>2, <1>3, PickersKept

\* A picker of a select whose value changes stays shown, and is forgotten.
LEMMA SettledPickers ==
    ASSUME ActInv
    PROVE  LET after == HeldFlushed(Closed(page, {"select"})) IN
           /\ after \in PageRec
           /\ after.open = page.open \ {"select"} /\ (after.native <=> page.native)
  <1> DEFINE pc == Closed(page, {"select"})
  <1>1. pc \in PageRec /\ pc.open = page.open \ {"select"} /\ (pc.native <=> page.native)
    BY PageThere, OpenAlike
  <1> HIDE DEF pc
  <1>2. HeldFlushed(pc) \in PageRec /\ HeldFlushed(pc).open = pc.open /\ (HeldFlushed(pc).native <=> pc.native)
    BY <1>1, OpenAlike
  <1>3. QED
    BY <1>1, <1>2 DEF pc

\* A selection forgets the picker of selects.
LEMMA SelectPickers ==
    ASSUME ActInv, PickerInv, NEW l \in Label, SelectChanges(l),
           UNCHANGED <<pickerVars, locked>>
    PROVE  PickerInv'
  <1> DEFINE held == IF OfHeld(page, l) THEN <<>> ELSE FlushHeld(page)
             after == HeldFlushed(Closed(page, {"select"}))
             m == Made("select", l, acts')
  <1>1. Acts
    BY DEF SelectChanges
  <1>2. CASE page.locked
    BY <1>2, PickersAlike DEF SelectChanges
  <1>3. ~page.locked => forgotten' = forgotten \cup (page.open \cap {"select"})
    BY DEF SelectChanges
  <1>4. /\ after \in PageRec
        /\ after.open = page.open \ {"select"} /\ (after.native <=> page.native)
    BY SettledPickers
  <1>5. NoneAsked(held) /\ NoneAsked(FlushFields(page))
    BY PageThere, Flushes, OneRequest
  <1>6. CASE ~page.locked /\ Silent
    <2>1. page' = after /\ sent' = sent \o held
      BY <1>6 DEF SelectChanges, Handled
    <2> HIDE DEF after, held
    <2>2. QED
      BY <1>3, <1>4, <1>5, <1>6, <2>1, PickersKept
  <1>7. CASE ~page.locked /\ ~Silent
    <2> DEFINE ms == (held \o FlushFields(page)) \o <<m>>
    <2>1. page' = FieldsFlushed(after) /\ sent' = sent \o ms
      BY <1>7 DEF SelectChanges, Handled
    <2>2. m \in Report /\ m.kind # "request"
      BY <1>1, NextNumber DEF Made, Report
    <2> HIDE DEF after, held, m
    <2>3. NoneAsked(<<m>>)
      BY <2>2, OneRequest
    <2>4. NoneAsked(held \o FlushFields(page))
      BY <1>5, NoRequests
    <2>5. NoneAsked(ms)
      BY <2>3, <2>4, NoRequests
    <2> HIDE DEF ms
    <2>6. page'.open = page.open \ {"select"} /\ (page'.native <=> page.native)
      BY <1>4, <2>1, OpenAlike
    <2>7. QED
      BY <1>3, <1>7, <2>1, <2>5, <2>6, PickersKept
  <1>8. QED
    BY <1>2, <1>6, <1>7

\* A click on a select asks for its picker, which replaces the others.
LEMMA ClickSelectPickers ==
    ASSUME ActInv, PickerInv, ClickSelect
    PROVE  PickerInv'
  <1>1. UNCHANGED <<pickerVars, locked>> /\ Live' = Live
    BY DEF ClickSelect, serverVars, pickerVars, Live
  <1>2. CASE page.locked
    BY <1>1, <1>2, PickersAlike DEF ClickSelect
  <1>3. CASE ~page.locked /\ page.native
    <2>1. /\ page' = Closed(page, Both) /\ sent' = sent \o Dismissals(page, {"date"})
          /\ forgotten' = forgotten
      BY <1>3 DEF ClickSelect, Handled
    <2>2. page'.open = page.open \ Both /\ (page'.native <=> page.native)
      BY <2>1, PageThere, OpenAlike
    <2>3. NoneAsked(Dismissals(page, {"date"}))
      BY PageThere, Flushes
    <2>4. \A k \in page.open : k = "date"
      BY <1>3, PageThere DEF PickerInv, Both
    <2>5. \A k \in page.open : Says(Dismissals(page, {"date"}), About("dismiss", k))
      <3>1. \A k \in page.open : k \in page.open \cap {"date"}
        BY <2>4
      <3>2. QED
        BY <3>1, PageThere, Flushes
    <2>6. QED
      BY <1>1, <2>1, <2>2, <2>3, <2>5, PickersKept
  <1>4. CASE ~page.locked /\ ~page.native
    <2> DEFINE d == Dismissals(page, Both)
               u == <<About("request", "select")>>
    <2>1. /\ page' = [page EXCEPT !.open = {"select"}] /\ forgotten' = {}
          /\ sent' = sent \o (d \o u)
      BY <1>4 DEF ClickSelect, Handled
    <2>2. d \in Seq(Report) /\ u \in Seq(Report) /\ sent \in Seq(Report)
      BY PageThere, DismissalReports, RequestReports DEF Both
    <2>3. sent' = (sent \o d) \o u /\ sent \o d \in Seq(Report)
      <3> HIDE DEF d, u
      <3>1. sent \o (d \o u) = (sent \o d) \o u /\ sent \o d \in Seq(Report)
        BY <2>2, ThreeParts
      <3>2. QED
        BY <2>1, <3>1
    <2>4. page'.open = {"select"} /\ (page'.native <=> page.native)
      BY <2>1, PageThere DEF PageRec
    <2>5. Known((sent \o d) \o u, Live, page'.open \cup forgotten')
      BY <2>1, <2>3, <2>4, KnownAsked DEF Both
    <2>6. QED
      BY <1>1, <1>4, <2>3, <2>4, <2>5 DEF PickerInv
  <1>5. QED
    BY <1>2, <1>3, <1>4

\* A click on a date field asks for its picker.
LEMMA ClickDatePickers ==
    ASSUME ActInv, PickerInv, ClickDate
    PROVE  PickerInv'
  <1>1. UNCHANGED <<pickerVars, locked>> /\ Live' = Live
    BY DEF ClickDate, serverVars, pickerVars, Live
  <1>2. CASE page.locked
    BY <1>1, <1>2, PickersAlike DEF ClickDate
  <1>3. CASE ~page.locked
    <2>1. /\ page' = [page EXCEPT !.open = @ \cup {"date"}] /\ forgotten' = {}
          /\ sent' = sent \o <<About("request", "date")>>
      BY <1>3 DEF ClickDate, Handled
    <2>2. page'.open = page.open \cup {"date"} /\ (page'.native <=> page.native)
      BY <2>1, PageThere DEF PageRec
    <2>3. Known(sent', Live, page'.open \cup forgotten')
      BY <2>1, <2>2, PageThere, KnownAsked DEF Both
    <2>4. page'.native => "select" \notin page'.open
      BY <2>2 DEF PickerInv
    <2>5. QED
      BY <1>1, <2>3, <2>4 DEF PickerInv
  <1>4. QED
    BY <1>2, <1>3

\* The picker of a date that changes stays shown, and is forgotten.
LEMMA DateChangesPickers ==
    ASSUME ActInv, PickerInv, DateChanges
    PROVE  PickerInv'
  <1>1. /\ UNCHANGED <<pickerVars, locked, sent>> /\ page' = Closed(page, {"date"})
        /\ forgotten' = forgotten \cup {"date"}
    BY DEF DateChanges, serverVars
  <1>2. page'.open = page.open \ {"date"} /\ (page'.native <=> page.native)
    BY <1>1, PageThere, OpenAlike
  <1>3. QED
    BY <1>1, <1>2, PickersAlike

\* Escape and scrolling dismiss what the page forgets.
LEMMA EscapePickers ==
    ASSUME ActInv, PickerInv, NEW kinds, EscapeOrScroll(kinds)
    PROVE  PickerInv'
  <1>1. /\ UNCHANGED <<pickerVars, locked, forgotten>>
        /\ page' = Closed(page, kinds) /\ sent' = sent \o Dismissals(page, kinds)
    BY DEF EscapeOrScroll, Handled, serverVars
  <1>2. page'.open = page.open \ kinds /\ (page'.native <=> page.native)
    BY <1>1, PageThere, OpenAlike
  <1>3. NoneAsked(Dismissals(page, kinds)) /\ \A k \in page.open \cap kinds : Says(Dismissals(page, kinds), About("dismiss", k))
    BY PageThere, Flushes
  <1>4. QED
    BY <1>1, <1>2, <1>3, PickersKept

\* An Enter leaves the pickers as they are.
LEMMA EnterPickers ==
    ASSUME ActInv, PickerInv, NEW t \in Field \cup Button, NEW repeated \in BOOLEAN,
           NEW clicked \in Button \cup {None},
           Enter(t, repeated, clicked)
    PROVE  PickerInv'
  <1>1. UNCHANGED <<pickerVars, locked, forgotten>> /\ Acts
    BY DEF Enter, serverVars
  <1>2. CASE page.locked
    BY <1>1, <1>2, PickersAlike DEF Enter
  <1> DEFINE down == [page EXCEPT !.suppress = TRUE]
             pressed == IF repeated THEN down ELSE FieldFlushed(down, t)
             m == Made("keypress", t, acts')
             key == IF repeated THEN <<>> ELSE FlushField(page, t) \o <<m>>
             clicks == IF clicked = None THEN <<>> ELSE OfEnter(down, clicked, acts')
  <1>3. CASE ~page.locked
    <2>1. page' = [pressed EXCEPT !.suppress = clicked = None] /\ sent' = sent \o (key \o clicks)
      BY <1>3 DEF Enter, Handled
    <2>2. down \in PageRec /\ down.open = page.open /\ (down.native <=> page.native) /\ down.suppress
      BY PageThere DEF PageRec
    <2>3. clicks = <<>>
      BY <2>2 DEF OfEnter
    <2>4. m \in Report /\ m.kind # "request"
      BY <1>1, NextNumber DEF Made, Report
    <2> HIDE DEF down, clicks, m
    <2>5. /\ pressed \in PageRec /\ pressed.open = page.open /\ (pressed.native <=> page.native)
      <3>1. FieldFlushed(down, t) \in PageRec
        <4>1. State(down, sent, recorded, choosing, acts, excused)
          BY SuppressThere DEF ActInv, down
        <4>2. State(FieldFlushed(down, t), sent \o FlushField(down, t), recorded, choosing, acts, excused)
          BY <4>1, FieldGoes
        <4>3. QED
          BY <4>2 DEF State
      <3>2. QED
        BY <2>2, <3>1, OpenAlike
    <2>6. NoneAsked(key \o clicks)
      <3>1. NoneAsked(<<m>>) /\ NoneAsked(clicks) /\ NoneAsked(FlushField(page, t)) /\ NoneAsked(<<>>)
        BY <2>3, <2>4, OneRequest, PageThere, Flushes
      <3>2. NoneAsked(FlushField(page, t) \o <<m>>)
        BY <3>1, NoRequests
      <3>3. NoneAsked(key)
        BY <3>1, <3>2
      <3>4. QED
        BY <3>1, <3>3, NoRequests
    <2> DEFINE ms == key \o clicks
    <2> HIDE DEF pressed, ms, key
    <2>7. (clicked = None) \in BOOLEAN
      OBVIOUS
    <2>8. page'.open = page.open /\ (page'.native <=> page.native)
      BY <2>1, <2>5, <2>7, OpenAlike
    <2>9. QED
      BY <1>1, <2>1, <2>6, <2>8, PickersKept
  <1>4. QED
    BY <1>2, <1>3

\* The end of the task of an Enter leaves the pickers as they are.
LEMMA SuppressEndsPickers ==
    ASSUME ActInv, PickerInv, SuppressEnds
    PROVE  PickerInv'
  <1>1. UNCHANGED <<pickerVars, locked, sent, forgotten>> /\ page' = [page EXCEPT !.suppress = FALSE]
    BY DEF SuppressEnds, serverVars
  <1>2. page'.open = page.open /\ (page'.native <=> page.native)
    BY <1>1, PageThere, OpenAlike
  <1>3. QED
    BY <1>1, <1>2, PickersAlike

\* That a page was left ends its pickers.
LEMMA UnloadPickers ==
    ASSUME ActInv, PickerInv, Unload
    PROVE  PickerInv'
  <1>1. /\ UNCHANGED <<pickerVars, locked>> /\ page' = FreshPage(page.native)
        /\ sent' = Append(sent, Made("left", None, 0)) /\ Live' = Live
    BY DEF Unload, serverVars, pickerVars, Live
  <1>2. page.native \in BOOLEAN
    BY PageThere DEF PageRec
  <1>3. page'.open = {} /\ (page'.native <=> page.native)
    BY <1>1, <1>2, UnlockedFresh
  <1>4. Known(sent', Live, page'.open \cup forgotten')
    BY <1>1, PageThere, KnownLeft
  <1>5. QED
    BY <1>1, <1>3, <1>4 DEF PickerInv

\* Pickers of a page that is locked are forgotten.
LEMMA LockReachesPickers ==
    ASSUME ActInv, PickerInv, LockReachesPage
    PROVE  PickerInv'
  <1>1. UNCHANGED <<pickerVars, locked, sent>>
    BY DEF LockReachesPage, serverVars
  <1>2. page.native \in BOOLEAN
    BY PageThere DEF PageRec
  <1>3. CASE locked
    <2>1. /\ page' = [FreshPage(page.native) EXCEPT !.locked = TRUE]
          /\ forgotten' = forgotten \cup page.open
      BY <1>3 DEF LockReachesPage, Abandon
    <2>2. page'.open = {} /\ (page'.native <=> page.native)
      BY <1>2, <2>1, FreshPages
    <2>3. QED
      BY <1>1, <2>1, <2>2, PickersAlike
  <1>4. CASE ~locked
    <2>1. page' = [page EXCEPT !.locked = FALSE] /\ forgotten' = forgotten
      BY <1>4 DEF LockReachesPage
    <2>2. page'.open = page.open /\ (page'.native <=> page.native)
      BY <2>1, PageThere DEF PageRec
    <2>3. QED
      BY <1>1, <2>1, <2>2, PickersAlike
  <1>5. QED
    BY <1>3, <1>4

\* What closes pickers leaves the others as they are.
LEMMA DismissLive ==
    ASSUME NEW ks, Dismiss(ks)
    PROVE  Live' = Live \ ks
  BY DEF Dismiss, Live

\* The server hears of pickers in order, and of none but that the page was left while it is locked.
LEMMA HearsPickers ==
    ASSUME ActInv, PickerInv, Hears
    PROVE  PickerInv'
  <1> DEFINE r == Head(sent)
  <1>1. UNCHANGED <<page, locked, forgotten>> /\ sent # <<>> /\ sent' = Tail(sent)
    BY DEF Hears
  <1>2. r \in Report
    BY <1>1, PageThere
  <1>3. /\ \A k \in Live' : r = About("request", k) \/ (k \in Live /\ ~EndsPicker(r, k))
        /\ locked => Live' = {}
        /\ Live' \subseteq Both
    <2>1. CASE r.kind = "left"
      <3>1. Dismiss(Both)
        BY <2>1 DEF Hears
      <3>2. Live' = {}
        BY <3>1, DismissLive DEF PickerInv
      <3>3. QED
        BY <3>2
    <2>2. CASE r.kind \notin {"left", "request", "dismiss"}
      <3>1. Live' = Live
        BY <2>2 DEF Hears, pickerVars, Live
      <3>2. \A k : ~EndsPicker(r, k)
        BY <2>2 DEF EndsPicker, About, Made
      <3>3. QED
        BY <3>1, <3>2 DEF PickerInv
    <2>3. CASE r.kind \in {"request", "dismiss"} /\ locked
      <3>1. Live' = Live
        BY <2>3 DEF Hears, pickerVars, Live
      <3>2. QED
        BY <2>3, <3>1 DEF PickerInv
    <2>4. CASE r.kind = "request" /\ ~locked
      <3>1. RequestPicker(r.what)
        BY <2>4 DEF Hears
      <3>2. Live' = {r.what}
        BY <3>1 DEF RequestPicker, Live
      <3>3. r.what \in Both /\ r = About("request", r.what)
        BY <1>2, <2>4 DEF Report, About, Made, Both
      <3>4. QED
        BY <2>4, <3>2, <3>3
    <2>5. CASE r.kind = "dismiss" /\ ~locked
      <3>1. Dismiss({r.what})
        BY <2>5 DEF Hears
      <3>2. Live' = Live \ {r.what}
        BY <3>1, DismissLive
      <3>3. \A k : k # r.what => ~EndsPicker(r, k)
        BY <2>5 DEF EndsPicker, About, Made
      <3>4. QED
        BY <2>5, <3>2, <3>3 DEF PickerInv
    <2>6. QED
      BY <2>1, <2>2, <2>3, <2>4, <2>5
  <1>4. Known(Tail(sent), Live', page.open \cup forgotten)
    BY <1>1, <1>3, PageThere, KnownHeard DEF PickerInv
  <1>5. QED
    BY <1>1, <1>3, <1>4 DEF PickerInv

\* What shows fewer pickers.
LEMMA FewerPickers ==
    ASSUME PickerInv, UNCHANGED <<page, sent, forgotten>>, Live' \subseteq Live,
           locked' => locked \/ Live' = {}
    PROVE  PickerInv'
  BY KnownLess DEF PickerInv

\* The pickers that open are those that were to open, or were overtaken.
LEMMA LookedLive ==
    ASSUME Looked
    PROVE  Live' \subseteq Live
  <1>1. CASE Opens
    BY <1>1 DEF Opens, Live
  <1>2. ASSUME NEW k \in Both, OpensLate(k)
        PROVE  Live' \subseteq Live
    BY <1>2 DEF OpensLate, Live
  <1>3. ASSUME NEW k \in Both, OpeningFails(k)
        PROVE  Live' \subseteq Live
    BY <1>3 DEF OpeningFails, Live
  <1>4. QED
    BY <1>1, <1>2, <1>3 DEF Looked

\* So do the user who closes one, or chooses in it, and the lock.
LEMMA ClosedLive ==
    /\ \A k : CloseShown(k) => Live' \subseteq Live
    /\ PickerInv /\ Lock => Live' = {}
  <1>1. ASSUME NEW k, CloseShown(k)
        PROVE  Live' \subseteq Live
    BY <1>1 DEF CloseShown, Live
  <1>2. PickerInv /\ Lock => Live' = {}
    BY DismissLive DEF Lock, PickerInv
  <1>3. QED
    BY <1>1, <1>2

\* A choice forgets the picker of selects.
LEMMA ChoiceMadePickers ==
    ASSUME ActInv, PickerInv, ChoiceMade
    PROVE  PickerInv'
  <1> DEFINE held == IF OfHeld(page, choosing.label) THEN <<>> ELSE FlushHeld(page)
             after == HeldFlushed(Closed(page, {"select"}))
  <1>1. UNCHANGED <<pickerVars, locked>> /\ forgotten' = forgotten \cup (page.open \cap {"select"})
    BY DEF ChoiceMade, serverVars
  <1>2. CASE page.locked
    BY <1>1, <1>2, PickersAlike DEF ChoiceMade
  <1>3. CASE ~page.locked
    <2>1. page' = after /\ sent' = sent \o held
      BY <1>3 DEF ChoiceMade, Handled
    <2>2. after.open = page.open \ {"select"} /\ (after.native <=> page.native)
      BY SettledPickers
    <2>3. NoneAsked(held)
      BY PageThere, Flushes, OneRequest
    <2> HIDE DEF after, held
    <2>4. QED
      BY <1>1, <2>1, <2>2, <2>3, PickersKept
  <1>4. QED
    BY <1>2, <1>3

-----------------------------------------------------------------------------
(* The theorems *)

InputInv == ActInv /\ StageInv /\ PickerInv /\ reaction \in Label \cup {None}

\* Nothing has happened.
LEMMA NothingDoneYet ==
    ASSUME InputInit
    PROVE  InputInv
  <1>1. PICK plain \in BOOLEAN : page = FreshPage(plain)
    BY DEF InputInit
  <1>2. page \in PageRec /\ Fills(page) = {} /\ page.held = NoHeld /\ page.open = {}
    <2>1. /\ FreshPage(plain) \in PageRec /\ Fills(FreshPage(plain)) = {}
          /\ FreshPage(plain).held = NoHeld /\ FreshPage(plain).open = {}
      BY UnlockedFresh
    <2>2. QED
      BY <1>1, <2>1
  <1>3. /\ acts = 0 /\ choosing = NoHeld /\ sent = <<>> /\ recorded = <<>> /\ excused = {}
        /\ shown = {} /\ opening = {} /\ ~locked /\ reaction = None /\ stage = "none"
    BY DEF InputInit
  <1>4. OptionOf(NoHeld) = {} /\ ChoiceOf(NoHeld) = {} /\ NoHeld \in HeldRec
    BY DEF OptionOf, ChoiceOf, HeldRec
  <1>5. InOrder(<<>>, <<>>) /\ Logged(<<>>, <<>>) = {}
    BY DEF InOrder, Logged, ActsIn
  <1>6. Sound({}, {}, {}, {}, 0, {})
    BY DEF Sound
  <1>7. Good(<<>>, <<>>, {}, {}, {}, 0, {})
    <2>1. /\ <<>> \in Seq(Report) /\ {} \in SUBSET Report
          /\ DOMAIN <<>> = {}
      OBVIOUS
    <2>a. 0 \in 0 .. MaxActs
      BY InputAssumption
    <2>2. Sound({}, {}, Logged(<<>>, <<>>), {}, 0, {})
      BY <1>5, <1>6
    <2> DEFINE e == <<>>
    <2>3. /\ \A i \in DOMAIN e : IsAct(e[i])
          /\ \A i \in DOMAIN e : e[i].kind # "choice"
      BY <2>1
    <2>4. QED
      BY <1>5, <2>1, <2>a, <2>2, <2>3 DEF Good
  <1>8. ActInv
    BY <1>2, <1>3, <1>4, <1>7 DEF ActInv, State
  <1>9. PickerInv
    BY <1>2, <1>3 DEF PickerInv, Known, Live
  <1>10. QED
    BY <1>3, <1>8, <1>9 DEF InputInv, StageInv

\* Every step keeps acts in order, and the account of them.
LEMMA NextActs ==
    ASSUME InputInv, [InputNext]_inputVars
    PROVE  ActInv'
  <1>1. ActInv /\ StageInv /\ reaction \in Label \cup {None}
    BY DEF InputInv
  <1>2. CASE \E f \in Field, v \in Value : Type(f, v)
    BY <1>1, <1>2, TypeActs
  <1>3. CASE \E to \in Field \cup {None} : MovesFocus(to)
    BY <1>1, <1>3, FocusActs
  <1>4. CASE \E b \in Button : ClickButton(b)
    BY <1>1, <1>4, ButtonActs
  <1>5. CASE \E l \in Label : \E answer \in Label \cup {None} : ClickOption(l, answer)
    BY <1>1, <1>5, OptionActs
  <1>6. CASE \E l \in Label : UserSelects(l)
    <2>1. PICK l \in Label : UserSelects(l)
      BY <1>6
    <2>2. SelectChanges(l) /\ UNCHANGED <<recorded, choosing>>
      BY <2>1 DEF UserSelects, serverVars
    <2>3. QED
      BY <1>1, <2>2, SelectActs
  <1>7. CASE \E l \in Label : Choose(l)
    BY <1>1, <1>7, ChooseActs
  <1>8. CASE PageSelects
    <2>1. reaction \in Label /\ SelectChanges(reaction) /\ UNCHANGED <<recorded, choosing>>
      BY <1>1, <1>8 DEF PageSelects, serverVars
    <2>2. QED
      BY <1>1, <2>1, SelectActs
  <1>9. CASE HeldExpires \/ ChoiceMade \/ ChoiceFails \/ Chosen \/ ClickSelect \/ ClickDate \/ DateChanges
    BY <1>1, <1>9, HeldExpiresActs, ChoiceMadeActs, ChoiceFailsActs, ChosenActs, ClickSelectActs,
        ClickDateActs, DateChangesActs
  <1>10. CASE EscapeOrScroll(Both) \/ EscapeOrScroll({"select"})
    BY <1>1, <1>10, EscapeActs
  <1>11. CASE \E t \in Field \cup Button, repeated \in BOOLEAN, clicked \in Button \cup {None} :
                Enter(t, repeated, clicked)
    BY <1>1, <1>11, EnterActs
  <1>12. CASE SuppressEnds \/ Unload \/ Hears \/ LockReachesPage
    BY <1>1, <1>12, SuppressEndsActs, UnloadActs, HearsActs, LockReachesActs
  <1>13. CASE \/ WindowPasses \/ Lock \/ Unlock \/ Looked \/ (\E k \in Both : UserCloses(k))
              \/ TellSilence \/ ChoiceRefused \/ EndSilence \/ UNCHANGED inputVars
    <2>1. UNCHANGED <<page, sent, recorded, choosing, acts, excused>>
      BY <1>13 DEF WindowPasses, Lock, Unlock, Looked, UserCloses, TellSilence, ChoiceRefused,
                   EndSilence, inputVars, serverVars
    <2>2. QED
      BY <1>1, <2>1, SameActs
  <1>14. QED
    BY <1>2, <1>3, <1>4, <1>5, <1>6, <1>7, <1>8, <1>9, <1>10, <1>11, <1>12, <1>13 DEF InputNext

\* Every step keeps the end of what is shown on its way.
LEMMA NextPickers ==
    ASSUME InputInv, [InputNext]_inputVars
    PROVE  PickerInv'
  <1>1. ActInv /\ PickerInv /\ reaction \in Label \cup {None}
    BY DEF InputInv
  <1>2. CASE \E f \in Field, v \in Value : Type(f, v)
    BY <1>1, <1>2, TypePickers
  <1>3. CASE \E to \in Field \cup {None} : MovesFocus(to)
    BY <1>1, <1>3, FocusPickers
  <1>4. CASE \E b \in Button : ClickButton(b)
    BY <1>1, <1>4, ButtonPickers
  <1>5. CASE \E l \in Label : \E answer \in Label \cup {None} : ClickOption(l, answer)
    BY <1>1, <1>5, OptionPickers
  <1>6. CASE \E l \in Label : UserSelects(l)
    <2>1. PICK l \in Label : UserSelects(l)
      BY <1>6
    <2>2. SelectChanges(l) /\ UNCHANGED <<pickerVars, locked>>
      BY <2>1 DEF UserSelects, serverVars
    <2>3. QED
      BY <1>1, <2>2, SelectPickers
  <1>7. CASE PageSelects
    <2>1. reaction \in Label /\ SelectChanges(reaction) /\ UNCHANGED <<pickerVars, locked>>
      BY <1>1, <1>7 DEF PageSelects, serverVars
    <2>2. QED
      BY <1>1, <2>1, SelectPickers
  <1>8. CASE HeldExpires \/ ChoiceMade \/ ClickSelect \/ ClickDate \/ DateChanges
    BY <1>1, <1>8, HeldExpiresPickers, ChoiceMadePickers, ClickSelectPickers, ClickDatePickers, DateChangesPickers
  <1>9. CASE EscapeOrScroll(Both) \/ EscapeOrScroll({"select"})
    BY <1>1, <1>9, EscapePickers
  <1>10. CASE \E t \in Field \cup Button, repeated \in BOOLEAN, clicked \in Button \cup {None} :
                Enter(t, repeated, clicked)
    BY <1>1, <1>10, EnterPickers
  <1>11. CASE SuppressEnds \/ Unload \/ Hears \/ LockReachesPage
    BY <1>1, <1>11, SuppressEndsPickers, UnloadPickers, HearsPickers, LockReachesPickers
  <1>12. CASE (\E l \in Label : Choose(l)) \/ Lock \/ Looked \/ \E k \in Both : UserCloses(k)
    <2>1. UNCHANGED <<page, sent, forgotten>> /\ (locked' => locked \/ Lock)
      BY <1>12 DEF Choose, Lock, Looked, UserCloses
    <2>2. Live' \subseteq Live /\ (Lock => Live' = {})
      BY <1>1, <1>12, LookedLive, ClosedLive DEF Choose, UserCloses
    <2>3. QED
      BY <1>1, <2>1, <2>2, FewerPickers
  <1>13. CASE \/ WindowPasses \/ Unlock \/ TellSilence \/ ChoiceRefused \/ EndSilence
              \/ ChoiceFails \/ Chosen \/ UNCHANGED inputVars
    <2>1. UNCHANGED <<page, sent, forgotten, pickerVars>> /\ (locked' => locked)
      BY <1>13 DEF WindowPasses, Unlock, TellSilence, ChoiceRefused, EndSilence, ChoiceFails,
                   Chosen, inputVars, serverVars
    <2>2. Live' = Live
      BY <2>1 DEF Live, pickerVars
    <2>3. QED
      BY <1>1, <2>1, <2>2, FewerPickers
  <1>14. QED
    BY <1>2, <1>3, <1>4, <1>5, <1>6, <1>7, <1>8, <1>9, <1>10, <1>11, <1>12, <1>13 DEF InputNext

\* A choice goes through its stages.
LEMMA NextStage ==
    ASSUME InputInv, [InputNext]_inputVars
    PROVE  StageInv'
  <1>1. StageInv
    BY DEF InputInv
  <1>2. CASE \E l \in Label : Choose(l)
    <2>1. PICK l \in Label : Choose(l)
      BY <1>2
    <2>2. choosing' = [label |-> l, act |-> acts'] /\ stage' = "asked" /\ l # None
      BY <2>1, InputAssumption DEF Choose
    <2>3. choosing' # NoHeld
      BY <2>2 DEF NoHeld
    <2>4. QED
      BY <2>2, <2>3 DEF StageInv
  <1>3. CASE Unload
    <2>1. \/ choosing' = NoHeld /\ stage' = "none"
          \/ choosing' = choosing /\ stage' \in {"unsaid", stage}
      BY <1>3 DEF Unload
    <2>2. choosing = NoHeld => choosing' = NoHeld /\ stage' = "none"
      BY <1>1, <1>3 DEF Unload, StageInv
    <2>3. QED
      BY <1>1, <2>1, <2>2 DEF StageInv
  <1>4. CASE \/ TellSilence \/ ChoiceMade \/ ChoiceRefused \/ EndSilence
             \/ ChoiceFails \/ Chosen
    BY <1>1, <1>4 DEF StageInv, TellSilence, ChoiceMade, ChoiceRefused, EndSilence, ChoiceFails, Chosen
  <1>5. CASE UNCHANGED <<choosing, stage>>
    BY <1>1, <1>5 DEF StageInv
  <1>6. QED
    BY <1>2, <1>3, <1>4, <1>5 DEF InputNext, inputVars, Type, MovesFocus, ClickButton,
         ClickOption, UserSelects, HeldExpires, PageSelects, ClickSelect, ClickDate, DateChanges,
         EscapeOrScroll, Enter, SuppressEnds, Hears, WindowPasses, Lock, Unlock, LockReachesPage,
         Looked, UserCloses

\* What a page sets its select to is one of its labels.
LEMMA NextReaction ==
    ASSUME InputInv, [InputNext]_inputVars
    PROVE  reaction' \in Label \cup {None}
  BY DEF InputInv, InputNext, inputVars, Type, MovesFocus, ClickButton,
         ClickOption, UserSelects, Choose, HeldExpires,
         PageSelects, Chosen, ClickSelect, ClickDate, DateChanges,
         EscapeOrScroll, Enter, SuppressEnds, Unload,
         Hears, WindowPasses, Lock, Unlock, LockReachesPage, Looked, UserCloses, TellSilence,
         ChoiceMade, ChoiceRefused, EndSilence, ChoiceFails

\* The invariant of a page, its reports and the pickers shown.
LEMMA InputInvariant == InputSpec => []InputInv
  <1>1. InputInv /\ [InputNext]_inputVars => InputInv'
    BY NextActs, NextPickers, NextStage, NextReaction DEF InputInv
  <1>2. QED
    BY <1>1, NothingDoneYet, PTL DEF InputSpec

\* Acts are recorded in the order they were made, but for a value or a held option
\* that an Enter or the value of another field overtakes.
THEOREM ActsAreInOrder == InputSpec => []OrderKept
  <1>1. InputInv => OrderKept
    <2> SUFFICES ASSUME InputInv, NEW i \in DOMAIN recorded, NEW j \in DOMAIN recorded,
                        i < j, recorded[i].act > recorded[j].act
                 PROVE  \/ /\ recorded[j].kind \in {"fill", "option"}
                           /\ recorded[i].kind \in {"fill", "keypress"}
                        \/ "choice" \in {recorded[i].kind, recorded[j].kind}
      BY DEF OrderKept
    <2>1. Fine(recorded[i], recorded[j])
      BY DEF InputInv, ActInv, State, Good, InOrder
    <2>2. QED
      BY <2>1 DEF Fine
  <1>2. QED
    BY <1>1, InputInvariant, PTL

\* Every act is recorded at most once, and once nothing is on its way exactly once,
\* but for those the page or the server may drop.
THEOREM EveryActOnce == InputSpec => []EachActOnce
  <1>1. InputInv => EachActOnce
    <2> SUFFICES ASSUME InputInv
                 PROVE  EachActOnce
      OBVIOUS
    <2>1. /\ Good(recorded, sent, Fills(page), OptionOf(page.held), ChoiceOf(choosing), acts, excused)
          /\ recorded \in Seq(Report)
      BY DEF InputInv, ActInv, State, Good
    <2>2. ASSUME NEW i \in DOMAIN recorded, NEW j \in DOMAIN recorded, i # j
          PROVE  recorded[i].act # recorded[j].act
      <3>1. i < j \/ j < i
        BY <2>1, <2>2
      <3>2. Fine(recorded[i], recorded[j]) \/ Fine(recorded[j], recorded[i])
        BY <2>1, <3>1 DEF Good, InOrder
      <3>3. QED
        BY <3>2 DEF Fine
    <2>3. ASSUME Quiet
          PROVE  (1 .. acts) \ {recorded[i].act : i \in DOMAIN recorded} \subseteq excused
      <3>1. Fills(page) = {} /\ OptionOf(page.held) = {} /\ ChoiceOf(choosing) = {} /\ sent = <<>>
        BY <2>3, NoFills DEF Quiet, OptionOf, ChoiceOf
      <3>2. ActsIn(<<>>) = {}
        BY DEF ActsIn
      <3>3. Logged(recorded, sent) = {recorded[i] : i \in DOMAIN recorded}
        BY <3>1, <3>2 DEF Logged
      <3>4. 1 .. acts \subseteq excused \cup NumbersOf(Logged(recorded, sent))
        BY <2>1, <3>1 DEF Good, Sound, NumbersOf
      <3>5. NumbersOf(Logged(recorded, sent)) \subseteq {recorded[i].act : i \in DOMAIN recorded}
        BY <3>3 DEF NumbersOf
      <3>6. QED
        BY <3>4, <3>5
    <2>4. QED
      BY <2>2, <2>3 DEF EachActOnce
  <1>2. QED
    BY <1>1, InputInvariant, PTL

\* A picker the client shows is one the page would dismiss, when nothing is on its
\* way, unless its value changed, or the page was locked, while it was open; or the
\* server was told to close it before it opened it.
THEOREM PickersAreKnown == InputSpec => []ShownIsKnown
  <1>1. InputInv => ShownIsKnown
    <2> SUFFICES ASSUME InputInv, sent = <<>>, NEW k \in shown, k \notin stray
                 PROVE  k \in page.open \cup forgotten
      BY DEF ShownIsKnown
    <2>1. Known(<<>>, Live, page.open \cup forgotten) /\ k \in Live /\ k \in Both
      BY DEF InputInv, PickerInv, Live
    <2>2. ASSUME k \notin page.open \cup forgotten
          PROVE  FALSE
      <3>1. \E j \in DOMAIN <<>> : EndsPicker(<<>>[j], k)
        BY <2>1, <2>2 DEF Known
      <3>2. QED
        BY <3>1
    <2>3. QED
      BY <2>2
  <1>2. QED
    BY <1>1, InputInvariant, PTL

-----------------------------------------------------------------------------
(* The assertion picker and its frames: AssertionPicker *)

\* A panel is a record; it has a request while it is shown.
IsPanel(p) ==
    /\ p = [request |-> p.request, active |-> p.active, mounted |-> p.mounted, seed |-> p.seed,
            groups |-> p.groups, frozen |-> p.frozen, due |-> p.due]
    /\ p.request \in Nat /\ p.active \in BOOLEAN
    /\ p.active => p.request # NoRequest

\* A panel that differs neither in its request nor in whether it is shown.
LEMMA PanelFields ==
    ASSUME NEW p, IsPanel(p), NEW d
    PROVE  /\ IsPanel(Refreshed(p, d)) /\ Refreshed(p, d).request = p.request
           /\ (Refreshed(p, d).active <=> p.active)
  BY DEF IsPanel, Refreshed, Frozen

\* Whether it is shown is set.
LEMMA PanelShown ==
    ASSUME NEW p, IsPanel(p), NEW on \in BOOLEAN, on => p.request # NoRequest
    PROVE  /\ IsPanel([p EXCEPT !.active = on]) /\ [p EXCEPT !.active = on].request = p.request
           /\ [p EXCEPT !.active = on].active <=> on
  BY DEF IsPanel

\* The card is built.
LEMMA PanelMounted ==
    ASSUME NEW p, IsPanel(p), NEW on
    PROVE  /\ IsPanel([p EXCEPT !.mounted = on]) /\ [p EXCEPT !.mounted = on].request = p.request
  BY DEF IsPanel

\* A panel is shown, in a frame with a request.
LEMMA ActivePanel ==
    ASSUME NEW p, IsPanel(p), p.request # NoRequest, NEW d
    PROVE  /\ IsPanel(Active(p, d)) /\ Active(p, d).request = p.request
           /\ Active(p, d).active
  <1>1. IsPanel(Mounted(p)) /\ Mounted(p).request = p.request
    BY PanelMounted DEF Mounted
  <1> DEFINE card == [Mounted(p) EXCEPT !.active = TRUE]
  <1>2. IsPanel(card) /\ card.request = p.request /\ card.active
    BY <1>1, PanelShown
  <1> HIDE DEF card
  <1>3. QED
    BY <1>2, PanelFields DEF Active, card

\* A panel is hidden.
LEMMA InactivePanel ==
    ASSUME NEW p, IsPanel(p)
    PROVE  /\ IsPanel(Inactive(p)) /\ Inactive(p).request = p.request
           /\ ~Inactive(p).active
  BY PanelShown DEF Inactive

\* A panel that is closed, with the request set with it.
LEMMA TornPanel ==
    ASSUME NEW r \in Nat
    PROVE  IsPanel(TornDown(r)) /\ TornDown(r).request = r /\ ~TornDown(r).active
  BY DEF IsPanel, TornDown

-----------------------------------------------------------------------------
(* Requests, messages and the frame that shows the panel *)

PanelsTyped == panel = [f \in Frame |-> panel[f]] /\ \A f \in Frame : IsPanel(panel[f])
Post == [request : Nat \ {NoRequest}, frame : Frame]
PostsTyped ==
    /\ requests \in Nat /\ pending \in Nat
    /\ setting \in [Frame -> Seq(Nat)]
    /\ toTop \in [Child -> Seq(Nat \ {NoRequest})]
    /\ fromTop \in [Child -> Seq(Post)]
    /\ \E T : picked \in Seq(T)

\* The request a frame has once every call that sets it was made.
AtLast(calls, request) == IF calls = <<>> THEN request ELSE calls[Len(calls)]
RequestsInv == \A f \in Frame : AtLast(setting[f], panel[f].request) \in {NoRequest, pending}

\* While a pick is pending the top frame has its request, or will, or the pick is
\* on its way to the server.
Holding(q, r) == \E i \in DOMAIN q : q[i].request = r
TopInv == pending # NoRequest => AtLast(setting[Top], panel[Top].request) = pending \/ Holding(picked, pending)

\* The frame that shows the panel of the top frame's request: whatever the others
\* are still told, this is the last of it; one that shows a panel too will hear
\* of it, or has a message to the top frame on its way.
TellsLast(q, r, f) == q # <<>> /\ q[Len(q)] = [request |-> r, frame |-> f]
Asks(q, r) == \E i \in DOMAIN q : q[i] = r
ShownIn(f) ==
    LET r == panel[Top].request IN
    /\ panel[Top].active <=> f = Top
    /\ \A c \in Child :
         /\ Holding(fromTop[c], r) => TellsLast(fromTop[c], r, f)
         /\ panel[c].active /\ panel[c].request = r /\ c # f =>
              TellsLast(fromTop[c], r, f) \/ Asks(toTop[c], r)
PanelInv == panel[Top].request # NoRequest => \E f \in Frame : ShownIn(f)
PickInv == PanelsTyped /\ PostsTyped /\ RequestsInv /\ TopInv /\ PanelInv

\* The first of a sequence is taken.
LEMMA Taken ==
    ASSUME NEW T, NEW q \in Seq(T), q # <<>>
    PROVE  /\ Head(q) \in T /\ Tail(q) \in Seq(T)
           /\ \A x : AtLast(Tail(q), Head(q)) = AtLast(q, x)
           /\ \A r : Holding(q, r) => Head(q).request = r \/ Holding(Tail(q), r)
           /\ \A r : Holding(Tail(q), r) => Holding(q, r)
           /\ \A r : Asks(q, r) => Head(q) = r \/ Asks(Tail(q), r)
           /\ \A r, f : TellsLast(q, r, f) => \/ Head(q) = [request |-> r, frame |-> f]
                                              \/ TellsLast(Tail(q), r, f)
           /\ \A r, f : TellsLast(q, r, f) /\ Tail(q) # <<>> => TellsLast(Tail(q), r, f)
  <1>1. /\ Head(q) = q[1] /\ Head(q) \in T /\ Tail(q) \in Seq(T) /\ Len(Tail(q)) = Len(q) - 1
        /\ \A i \in 1 .. Len(Tail(q)) : Tail(q)[i] = q[i + 1]
    BY HeadTailProperties
  <1>2. Len(q) \in Nat /\ Len(q) > 0 /\ DOMAIN q = 1 .. Len(q) /\ DOMAIN Tail(q) = 1 .. Len(q) - 1
    BY <1>1
  <1>3. Tail(q) = <<>> <=> Len(q) = 1
    <2> DEFINE t == Tail(q)
    <2>1. t \in Seq(T) /\ Len(t) = Len(q) - 1
      BY <1>1
    <2> HIDE DEF t
    <2>2. t = <<>> <=> Len(t) = 0
      BY <2>1, EmptySeq
    <2>3. QED
      BY <1>2, <2>1, <2>2 DEF t
  <1>4. Tail(q) # <<>> => Tail(q)[Len(Tail(q))] = q[Len(q)]
    BY <1>1, <1>2, <1>3
  <1>5. Tail(q) = <<>> => Head(q) = q[Len(q)]
    BY <1>1, <1>3
  <1>6. \A i \in 1 .. Len(q) : i = 1 \/ (i - 1 \in DOMAIN Tail(q) /\ Tail(q)[i - 1] = q[i])
    BY <1>1, <1>2
  <1>7. \A i \in DOMAIN Tail(q) : i + 1 \in DOMAIN q /\ Tail(q)[i] = q[i + 1]
    BY <1>1, <1>2
  <1>8. \A x : AtLast(Tail(q), Head(q)) = AtLast(q, x)
    BY <1>4, <1>5 DEF AtLast
  <1>9. \A r : Holding(q, r) => Head(q).request = r \/ Holding(Tail(q), r)
    BY <1>1, <1>2, <1>6 DEF Holding
  <1>10. \A r : Holding(Tail(q), r) => Holding(q, r)
    BY <1>7 DEF Holding
  <1>11. \A r : Asks(q, r) => Head(q) = r \/ Asks(Tail(q), r)
    BY <1>1, <1>2, <1>6 DEF Asks
  <1>12. \A r, f : TellsLast(q, r, f) /\ Tail(q) # <<>> => TellsLast(Tail(q), r, f)
    BY <1>4 DEF TellsLast
  <1>13. \A r, f : TellsLast(q, r, f) => Head(q) = [request |-> r, frame |-> f] \/ TellsLast(Tail(q), r, f)
    BY <1>12, <1>5 DEF TellsLast
  <1>14. QED
    BY <1>1, <1>8, <1>9, <1>10, <1>11, <1>12, <1>13

\* One more at the end of a sequence.
LEMMA Added ==
    ASSUME NEW T, NEW q \in Seq(T), NEW e \in T
    PROVE  /\ Append(q, e) \in Seq(T) /\ Append(q, e) # <<>>
           /\ Append(q, e)[Len(Append(q, e))] = e
           /\ \A r : Holding(q, r) => Holding(Append(q, e), r)
           /\ Holding(Append(q, e), e.request)
           /\ \A r : Asks(q, r) => Asks(Append(q, e), r)
           /\ Asks(Append(q, e), e)
  <1>1. /\ Append(q, e) \in Seq(T) /\ Append(q, e) # <<>> /\ Len(Append(q, e)) = Len(q) + 1
        /\ \A i \in 1 .. Len(q) : Append(q, e)[i] = q[i]
        /\ Append(q, e)[Len(q) + 1] = e
    BY AppendProperties
  <1>2. DOMAIN Append(q, e) = 1 .. Len(q) + 1 /\ DOMAIN q = 1 .. Len(q) /\ Len(q) \in Nat
    BY <1>1
  <1> DEFINE a == Append(q, e)
  <1> HIDE DEF a
  <1>3. QED
    BY <1>1, <1>2 DEF Holding, Asks, a

\* Calls that are added say what a frame has at last.
LEMMA CallsAdded ==
    ASSUME NEW s \in Seq(Nat), NEW calls \in Seq(Nat), calls # <<>>, NEW x
    PROVE  s \o calls \in Seq(Nat) /\ AtLast(s \o calls, x) = calls[Len(calls)]
  <1>1. /\ s \o calls \in Seq(Nat) /\ Len(s \o calls) = Len(s) + Len(calls)
        /\ \A i \in 1 .. Len(s) + Len(calls) :
             (s \o calls)[i] = IF i <= Len(s) THEN s[i] ELSE calls[i - Len(s)]
    BY ConcatProperties
  <1>2. Len(s) \in Nat /\ Len(calls) \in Nat /\ Len(calls) > 0
    OBVIOUS
  <1>3. Len(s) + Len(calls) \in 1 .. Len(s) + Len(calls) /\ ~(Len(s) + Len(calls) <= Len(s))
        /\ Len(s) + Len(calls) - Len(s) = Len(calls)
    BY <1>2
  <1>4. (s \o calls)[Len(s) + Len(calls)] = calls[Len(calls)]
    BY <1>1, <1>3
  <1>5. s \o calls # <<>>
    BY <1>1, <1>2
  <1>6. QED
    BY <1>1, <1>4, <1>5 DEF AtLast

\* A frame's panel takes the place of the one before.
LEMMA PanelPut ==
    ASSUME PanelsTyped, NEW f \in Frame, NEW p, IsPanel(p), panel' = [panel EXCEPT ![f] = p]
    PROVE  PanelsTyped' /\ panel'[f] = p /\ \A g \in Frame : g # f => panel'[g] = panel[g]
  <1>1. panel' = [g \in Frame |-> IF g = f THEN p ELSE panel[g]]
    BY DEF PanelsTyped
  <1>2. QED
    BY <1>1 DEF PanelsTyped

\* Panels whose request is the same and that are shown as before.
LEMMA PanelsAlike ==
    ASSUME PickInv, PanelsTyped', UNCHANGED <<requests, pending, setting, toTop, fromTop, picked>>,
           \A f \in Frame : panel'[f].request = panel[f].request /\ (panel'[f].active <=> panel[f].active)
    PROVE  PickInv'
  <1>1. PostsTyped'
    BY DEF PickInv, PostsTyped
  <1>2. RequestsInv'
    BY DEF PickInv, RequestsInv
  <1>3. Top \in Frame /\ \A c \in Child : c \in Frame
    BY DEF Frame
  <1>4. TopInv'
    BY <1>3 DEF PickInv, TopInv
  <1>5. \A f \in Frame : ShownIn(f) => ShownIn(f)'
    BY <1>3 DEF ShownIn
  <1>6. PanelInv'
    BY <1>3, <1>5 DEF PickInv, PanelInv
  <1>7. QED
    BY <1>1, <1>2, <1>4, <1>6 DEF PickInv

\* A panel that only looks at its document, or has a group chosen.
LEMMA PanelAlike ==
    ASSUME PickInv, UNCHANGED <<requests, pending, setting, toTop, fromTop, picked>>,
           NEW f \in Frame, NEW p, IsPanel(p), panel' = [panel EXCEPT ![f] = p],
           p.request = panel[f].request, p.active <=> panel[f].active
    PROVE  PickInv'
  <1>1. PanelsTyped' /\ panel'[f] = p /\ \A g \in Frame : g # f => panel'[g] = panel[g]
    BY PanelPut DEF PickInv
  <1>2. QED
    BY <1>1, PanelsAlike

\* The groups and their seed make no difference.
LEMMA PanelGroups ==
    ASSUME NEW p, IsPanel(p), NEW e, NEW g, NEW gs, NEW d,
           NEW q \in {[p EXCEPT !.seed = e], [p EXCEPT !.due = d], [p EXCEPT !.frozen = g, !.groups = gs],
                      [p EXCEPT !.frozen = g, !.seed = e, !.groups = gs]}
    PROVE  IsPanel(q) /\ q.request = p.request /\ (q.active <=> p.active)
  <1>1. CASE q = [p EXCEPT !.seed = e]
    BY <1>1 DEF IsPanel
  <1>2. CASE q = [p EXCEPT !.due = d]
    BY <1>2 DEF IsPanel
  <1>3. CASE q = [p EXCEPT !.frozen = g, !.groups = gs]
    BY <1>3 DEF IsPanel
  <1>4. CASE q = [p EXCEPT !.frozen = g, !.seed = e, !.groups = gs]
    BY <1>4 DEF IsPanel
  <1>5. QED
    BY <1>1, <1>2, <1>3, <1>4

\* A group is chosen.
LEMMA Frozens ==
    ASSUME NEW p, IsPanel(p), NEW i
    PROVE  IsPanel(Freeze(p, i)) /\ Freeze(p, i).request = p.request /\ (Freeze(p, i).active <=> p.active)
  <1> DEFINE g == p.groups[i]
             gs == <<g>>
  <1>1. Freeze(p, i) = [p EXCEPT !.frozen = g, !.groups = gs]
    BY DEF Freeze
  <1> HIDE DEF g, gs
  <1>2. QED
    BY <1>1 DEF IsPanel

\* A panel is looked at again, a group is chosen, or the choice is taken back.
LEMMA PanelSteps ==
    ASSUME PickInv, NEW f \in Frame,
           \/ Refresh(f)
           \/ \E e \in Pointable : ClickMember(f, e)
           \/ \E i \in 1 .. MaxAncestors : ClickRow(f, i)
           \/ ContinuePicking(f)
           \/ \E e \in Changing : DocumentChanges(f, e)
    PROVE  PickInv'
  <1>1. IsPanel(panel[f])
    BY DEF PickInv, PanelsTyped
  <1>2. CASE Refresh(f)
    <2> DEFINE p == [panel[f] EXCEPT !.due = FALSE]
    <2>1. IsPanel(p) /\ p.request = panel[f].request /\ (p.active <=> panel[f].active)
      BY <1>1, PanelGroups
    <2>2. panel' = [panel EXCEPT ![f] = Refreshed(p, doc[f])]
      BY <1>2 DEF Refresh
    <2> HIDE DEF p
    <2>3. UNCHANGED <<requests, pending, setting, toTop, fromTop, picked>>
      BY <1>2 DEF Refresh, pickServerVars, postVars
    <2>4. QED
      BY <2>1, <2>2, <2>3, PanelFields, PanelAlike
  <1>3. CASE \E e \in Pointable : ClickMember(f, e)
    <2>1. PICK e \in Pointable : ClickMember(f, e)
      BY <1>3
    <2> DEFINE p == [panel[f] EXCEPT !.seed = e]
    <2>2. IsPanel(p) /\ p.request = panel[f].request /\ (p.active <=> panel[f].active)
      BY <1>1, PanelGroups
    <2>3. panel' = [panel EXCEPT ![f] = Freeze(p, 1)]
      BY <2>1 DEF ClickMember
    <2> HIDE DEF p
    <2>4. UNCHANGED <<requests, pending, setting, toTop, fromTop, picked>>
      BY <2>1 DEF ClickMember, pickServerVars, postVars
    <2>5. QED
      BY <2>2, <2>3, <2>4, Frozens, PanelAlike
  <1>4. CASE \E i \in 1 .. MaxAncestors : ClickRow(f, i)
    <2>1. PICK i \in 1 .. MaxAncestors : ClickRow(f, i)
      BY <1>4
    <2>2. panel' = [panel EXCEPT ![f] = Freeze(panel[f], i)]
      BY <2>1 DEF ClickRow
    <2>3. UNCHANGED <<requests, pending, setting, toTop, fromTop, picked>>
      BY <2>1 DEF ClickRow, pickServerVars, postVars
    <2>4. QED
      BY <1>1, <2>2, <2>3, Frozens, PanelAlike
  <1>5. CASE ContinuePicking(f)
    <2> DEFINE p == [panel[f] EXCEPT !.frozen = NoGroup, !.seed = NoElement, !.groups = <<>>]
    <2>1. IsPanel(p) /\ p.request = panel[f].request /\ (p.active <=> panel[f].active)
      BY <1>1, PanelGroups
    <2>2. panel' = [panel EXCEPT ![f] = p]
      BY <1>5 DEF ContinuePicking
    <2> HIDE DEF p
    <2>3. UNCHANGED <<requests, pending, setting, toTop, fromTop, picked>>
      BY <1>5 DEF ContinuePicking, pickServerVars, postVars
    <2>4. QED
      BY <2>1, <2>2, <2>3, PanelAlike
  <1>6. CASE \E e \in Changing : DocumentChanges(f, e)
    <2>1. PICK d, seen : Changed(f, d, seen)
      BY <1>6 DEF DocumentChanges
    <2> DEFINE p == [panel[f] EXCEPT !.due = @ \/ (seen /\ panel[f].mounted)]
    <2>2. IsPanel(p) /\ p.request = panel[f].request /\ (p.active <=> panel[f].active)
      BY <1>1, PanelGroups
    <2>3. panel' = [panel EXCEPT ![f] = p]
      BY <2>1 DEF Changed
    <2> HIDE DEF p
    <2>4. UNCHANGED <<requests, pending, setting, toTop, fromTop, picked>>
      BY <2>1 DEF Changed, pickServerVars, postVars
    <2>5. QED
      BY <2>2, <2>3, <2>4, PanelAlike
  <1>7. QED
    BY <1>2, <1>3, <1>4, <1>5, <1>6

-----------------------------------------------------------------------------
(* Calls and messages *)

\* The top frame is no child, and the frames are those two kinds.
LEMMA Frames == Top \in Frame /\ Top \notin Child /\ \A f \in Frame : f = Top \/ f \in Child
  BY PickerAssumption DEF Frame

\* Every child is told of the frame that shows the panel.
LEMMA Broadcasts ==
    ASSUME PostsTyped, NEW r \in Nat \ {NoRequest}, NEW f \in Frame, Broadcast(r, f)
    PROVE  /\ fromTop' \in [Child -> Seq(Post)]
           /\ \A c \in Child : TellsLast(fromTop'[c], r, f)
  <1> DEFINE m == [request |-> r, frame |-> f]
  <1>1. m \in Post
    BY DEF Post
  <1>2. fromTop' = [c \in Child |-> Append(fromTop[c], m)]
    BY DEF Broadcast
  <1>3. m = [request |-> r, frame |-> f]
    OBVIOUS
  <1> HIDE DEF m
  <1>4. ASSUME NEW c \in Child
        PROVE  fromTop'[c] \in Seq(Post) /\ TellsLast(fromTop'[c], r, f)
    <2>1. fromTop[c] \in Seq(Post)
      BY DEF PostsTyped
    <2>2. Append(fromTop[c], m) \in Seq(Post) /\ TellsLast(Append(fromTop[c], m), r, f)
      BY <1>1, <1>3, <2>1, Added DEF TellsLast
    <2>3. QED
      BY <1>2, <2>2
  <1>5. QED
    BY <1>2, <1>4

\* All children told of the frame that shows the panel of a request, which the top
\* frame has.
LEMMA AllTold ==
    ASSUME NEW f \in Frame, panel'[Top].active <=> f = Top,
           \A c \in Child : TellsLast(fromTop'[c], panel'[Top].request, f)
    PROVE  PanelInv'
  BY DEF PanelInv, ShownIn

\* A call that sets the request of a frame is made.
LEMMA SetPickerStep ==
    ASSUME PickInv, NEW f \in Frame, SetPicker(f)
    PROVE  PickInv'
  <1> DEFINE r == Head(setting[f])
  <1>1. /\ setting[f] \in Seq(Nat) /\ setting[f] # <<>>
        /\ setting \in [Frame -> Seq(Nat)] /\ setting' = [setting EXCEPT ![f] = Tail(setting[f])]
        /\ UNCHANGED <<requests, pending, toTop, picked>>
    BY DEF SetPicker, PickInv, PostsTyped
  <1>2. /\ r \in Nat /\ Tail(setting[f]) \in Seq(Nat)
        /\ \A x : AtLast(Tail(setting[f]), r) = AtLast(setting[f], x)
    BY <1>1, Taken
  <1>3. PICK p : /\ IsPanel(p) /\ p.request = r /\ panel' = [panel EXCEPT ![f] = p]
                 /\ IF f = Top /\ r # NoRequest THEN p.active /\ Broadcast(r, Top)
                    ELSE ~p.active /\ UNCHANGED fromTop
    <2>1. IsPanel(TornDown(r)) /\ TornDown(r).request = r /\ ~TornDown(r).active
      BY <1>2, TornPanel
    <2>2. CASE f = Top /\ r # NoRequest
      <3>1. /\ IsPanel(Active(TornDown(r), doc[f])) /\ Active(TornDown(r), doc[f]).request = r
            /\ Active(TornDown(r), doc[f]).active
        BY <2>1, <2>2, ActivePanel
      <3>2. panel' = [panel EXCEPT ![f] = Active(TornDown(r), doc[f])] /\ Broadcast(r, Top)
        BY <2>2 DEF SetPicker
      <3>3. QED
        BY <2>2, <3>1, <3>2
    <2>3. CASE ~(f = Top /\ r # NoRequest)
      <3>1. panel' = [panel EXCEPT ![f] = TornDown(r)] /\ UNCHANGED fromTop
        BY <2>3 DEF SetPicker
      <3>2. QED
        BY <2>1, <2>3, <3>1
    <2>4. QED
      BY <2>2, <2>3
  <1> HIDE DEF r
  <1>4. PanelsTyped' /\ panel'[f] = p /\ \A g \in Frame : g # f => panel'[g] = panel[g]
    BY <1>3, PanelPut DEF PickInv
  <1>5. f = Top /\ r # NoRequest => /\ fromTop' \in [Child -> Seq(Post)]
                                   /\ \A c \in Child : TellsLast(fromTop'[c], r, Top)
    BY <1>2, <1>3, Broadcasts, Frames DEF PickInv
  <1>6. PostsTyped'
    BY <1>1, <1>2, <1>3, <1>5 DEF PickInv, PostsTyped
  <1>7. \A g \in Frame : AtLast(setting'[g], panel'[g].request) = AtLast(setting[g], panel[g].request)
    BY <1>1, <1>2, <1>3, <1>4
  <1>8. RequestsInv' /\ TopInv'
    BY <1>1, <1>7, Frames DEF PickInv, RequestsInv, TopInv
  <1>9. PanelInv'
    <2>1. CASE f = Top /\ r # NoRequest
      BY <1>3, <1>4, <1>5, <2>1, AllTold, Frames
    <2>2. CASE f = Top /\ r = NoRequest
      BY <1>3, <1>4, <2>2 DEF PanelInv
    <2>3. CASE f # Top
      <3>1. panel'[Top] = panel[Top] /\ UNCHANGED <<toTop, fromTop>> /\ ~panel'[f].active
        BY <1>1, <1>3, <1>4, <2>3, Frames
      <3>2. \A g \in Frame : ShownIn(g) => ShownIn(g)'
        BY <1>4, <3>1, Frames DEF ShownIn, Frame
      <3>3. QED
        BY <3>1, <3>2 DEF PickInv, PanelInv
    <2>4. QED
      BY <2>1, <2>2, <2>3
  <1>10. QED
    BY <1>4, <1>6, <1>8, <1>9 DEF PickInv

\* A child asked the top frame to show the panel there.
LEMMA TopHearsStep ==
    ASSUME PickInv, NEW c \in Child, TopHears(c)
    PROVE  PickInv'
  <1> DEFINE r == Head(toTop[c])
  <1>1. /\ toTop[c] \in Seq(Nat \ {NoRequest}) /\ toTop[c] # <<>>
        /\ toTop \in [Child -> Seq(Nat \ {NoRequest})] /\ toTop' = [toTop EXCEPT ![c] = Tail(toTop[c])]
        /\ UNCHANGED <<requests, pending, setting, picked>>
    BY DEF TopHears, PickInv, PostsTyped, pickServerVars
  <1>2. /\ r \in Nat \ {NoRequest} /\ Tail(toTop[c]) \in Seq(Nat \ {NoRequest})
        /\ \A x : Asks(toTop[c], x) => r = x \/ Asks(Tail(toTop[c]), x)
    BY <1>1, Taken
  <1>3. c \in Frame /\ c # Top
    BY Frames DEF Frame
  <1>4. /\ r = panel[Top].request => panel' = [panel EXCEPT ![Top] = Inactive(panel[Top])] /\ Broadcast(r, c)
        /\ r # panel[Top].request => UNCHANGED <<panel, fromTop>>
    BY DEF TopHears
  <1> HIDE DEF r
  <1>5. CASE r = panel[Top].request
    <2>1. IsPanel(panel[Top])
      BY Frames DEF PickInv, PanelsTyped
    <2>2. /\ IsPanel(Inactive(panel[Top])) /\ Inactive(panel[Top]).request = r
          /\ ~Inactive(panel[Top]).active
      BY <1>5, <2>1, InactivePanel
    <2>3. /\ PanelsTyped' /\ panel'[Top] = Inactive(panel[Top])
          /\ \A g \in Frame : g # Top => panel'[g] = panel[g]
      BY <1>4, <1>5, <2>2, PanelPut, Frames DEF PickInv
    <2>4. fromTop' \in [Child -> Seq(Post)] /\ \A d \in Child : TellsLast(fromTop'[d], r, c)
      BY <1>2, <1>3, <1>4, <1>5, Broadcasts DEF PickInv
    <2>5. PostsTyped'
      BY <1>1, <1>2, <2>4 DEF PickInv, PostsTyped
    <2>6. \A g \in Frame : panel'[g].request = panel[g].request
      BY <1>5, <2>2, <2>3
    <2>7. RequestsInv' /\ TopInv'
      BY <1>1, <2>6, Frames DEF PickInv, RequestsInv, TopInv
    <2>8. PanelInv'
      BY <1>3, <2>2, <2>3, <2>4, AllTold
    <2>9. QED
      BY <2>3, <2>5, <2>7, <2>8 DEF PickInv
  <1>6. CASE r # panel[Top].request
    <2>1. UNCHANGED <<panel, fromTop>>
      BY <1>4, <1>6
    <2>2. PanelsTyped' /\ PostsTyped' /\ RequestsInv' /\ TopInv'
      BY <1>1, <1>2, <2>1 DEF PickInv, PanelsTyped, PostsTyped, RequestsInv, TopInv
    <2>3. \A d \in Child : Asks(toTop[d], panel[Top].request) => Asks(toTop'[d], panel[Top].request)
      BY <1>1, <1>2, <1>6
    <2>4. \A g \in Frame : ShownIn(g) => ShownIn(g)'
      BY <2>1, <2>3 DEF ShownIn
    <2>5. PanelInv'
      BY <2>1, <2>4 DEF PickInv, PanelInv
    <2>6. QED
      BY <2>2, <2>5 DEF PickInv
  <1>7. QED
    BY <1>5, <1>6

\* A child hears which frame shows the panel.
LEMMA ChildHearsStep ==
    ASSUME PickInv, NEW c \in Child, ChildHears(c)
    PROVE  PickInv'
  <1> DEFINE m == Head(fromTop[c])
  <1>1. /\ fromTop[c] \in Seq(Post) /\ fromTop[c] # <<>>
        /\ fromTop \in [Child -> Seq(Post)] /\ fromTop' = [fromTop EXCEPT ![c] = Tail(fromTop[c])]
        /\ UNCHANGED <<requests, pending, setting, toTop, picked>>
    BY DEF ChildHears, PickInv, PostsTyped, pickServerVars
  <1>2. /\ m \in Post /\ Tail(fromTop[c]) \in Seq(Post)
        /\ \A x : Holding(Tail(fromTop[c]), x) => Holding(fromTop[c], x)
        /\ \A x, f : TellsLast(fromTop[c], x, f) =>
                       m = [request |-> x, frame |-> f] \/ TellsLast(Tail(fromTop[c]), x, f)
        /\ \A x, f : TellsLast(fromTop[c], x, f) /\ Tail(fromTop[c]) # <<>> => TellsLast(Tail(fromTop[c]), x, f)
        /\ \A x : Holding(fromTop[c], x) => m.request = x \/ Holding(Tail(fromTop[c]), x)
    BY <1>1, Taken
  <1>3. c \in Frame /\ c # Top /\ IsPanel(panel[c])
    BY Frames DEF Frame, PickInv, PanelsTyped
  <1>4. /\ m.request = panel[c].request => panel' = [panel EXCEPT ![c] = ActiveIf(panel[c], doc[c], m.frame = c)]
        /\ m.request # panel[c].request => UNCHANGED panel
    BY DEF ChildHears
  <1>5. m.request \in Nat /\ m.request # NoRequest
    BY <1>2 DEF Post
  <1> HIDE DEF m
  <1>6. /\ PanelsTyped' /\ panel'[c].request = panel[c].request /\ \A g \in Frame : g # c => panel'[g] = panel[g]
        /\ m.request = panel[c].request => (panel'[c].active <=> m.frame = c)
        /\ m.request # panel[c].request => (panel'[c].active <=> panel[c].active)
    <2>1. CASE m.request = panel[c].request
      <3> DEFINE p == ActiveIf(panel[c], doc[c], m.frame = c)
      <3>1. IsPanel(p) /\ p.request = panel[c].request /\ (p.active <=> m.frame = c)
        <4>1. CASE m.frame = c
          <5>1. p = Active(panel[c], doc[c])
            BY <4>1 DEF ActiveIf
          <5>2. QED
            BY <1>3, <1>5, <2>1, <4>1, <5>1, ActivePanel
        <4>2. CASE m.frame # c
          <5>1. p = Inactive(panel[c])
            BY <4>2 DEF ActiveIf
          <5>2. QED
            BY <1>3, <4>2, <5>1, InactivePanel
        <4>3. QED
          BY <4>1, <4>2
      <3>2. panel' = [panel EXCEPT ![c] = p]
        BY <1>4, <2>1
      <3> HIDE DEF p
      <3>3. PanelsTyped' /\ panel'[c] = p /\ \A g \in Frame : g # c => panel'[g] = panel[g]
        BY <1>3, <3>1, <3>2, PanelPut DEF PickInv
      <3>4. QED
        BY <2>1, <3>1, <3>3
    <2>2. CASE m.request # panel[c].request
      BY <1>4, <2>2 DEF PickInv, PanelsTyped
    <2>3. QED
      BY <2>1, <2>2
  <1>7. PostsTyped'
    BY <1>1, <1>2 DEF PickInv, PostsTyped
  <1>8. \A g \in Frame : panel'[g].request = panel[g].request
    BY <1>6
  <1>9. RequestsInv' /\ TopInv'
    BY <1>1, <1>8, Frames DEF PickInv, RequestsInv, TopInv
  <1>10. panel'[Top] = panel[Top]
    BY <1>3, <1>6, Frames
  <1>11. \A d \in Child : d # c => fromTop'[d] = fromTop[d] /\ panel'[d] = panel[d]
    BY <1>1, <1>6, Frames DEF Frame
  <1>12. fromTop'[c] = Tail(fromTop[c]) /\ UNCHANGED toTop
    BY <1>1
  <1>13. ASSUME NEW f \in Frame, ShownIn(f)
         PROVE  ShownIn(f)'
    <2> DEFINE r == panel[Top].request
    <2>1. Holding(fromTop[c], r) => TellsLast(fromTop[c], r, f)
      BY <1>13 DEF ShownIn
    <2>2. panel[c].active /\ panel[c].request = r /\ c # f => TellsLast(fromTop[c], r, f) \/ Asks(toTop[c], r)
      BY <1>13 DEF ShownIn
    <2> HIDE DEF r
    <2>3. Holding(Tail(fromTop[c]), r) => TellsLast(Tail(fromTop[c]), r, f)
      <3>1. Holding(Tail(fromTop[c]), r) => Tail(fromTop[c]) # <<>>
        BY DEF Holding
      <3>2. QED
        BY <1>2, <2>1, <3>1
    <2>4. ASSUME panel'[c].active, panel'[c].request = r, c # f
          PROVE  TellsLast(Tail(fromTop[c]), r, f) \/ Asks(toTop[c], r)
      <3>1. panel[c].request = r
        BY <1>6, <2>4
      <3>2. CASE m.request = r
        <4>1. m.frame = c
          BY <1>6, <2>4, <3>1, <3>2
        <4>2. Holding(fromTop[c], r)
          <5>1. m = fromTop[c][1] /\ 1 \in DOMAIN fromTop[c]
            BY <1>1 DEF m
          <5>2. QED
            BY <3>2, <5>1 DEF Holding
        <4>3. m # [request |-> r, frame |-> f]
          BY <2>4, <4>1
        <4>4. QED
          BY <1>2, <2>1, <4>2, <4>3
      <3>3. CASE m.request # r
        <4>1. panel[c].active
          BY <1>6, <2>4, <3>1, <3>3
        <4>2. m # [request |-> r, frame |-> f]
          BY <3>3
        <4>3. QED
          BY <1>2, <2>2, <2>4, <3>1, <4>1, <4>2
      <3>4. QED
        BY <3>2, <3>3
    <2>5. \A d \in Child :
            /\ Holding(fromTop'[d], r) => TellsLast(fromTop'[d], r, f)
            /\ panel'[d].active /\ panel'[d].request = r /\ d # f =>
                 TellsLast(fromTop'[d], r, f) \/ Asks(toTop'[d], r)
      <3>1. ASSUME NEW d \in Child, d # c
            PROVE  /\ Holding(fromTop[d], r) => TellsLast(fromTop[d], r, f)
                   /\ panel[d].active /\ panel[d].request = r /\ d # f =>
                        TellsLast(fromTop[d], r, f) \/ Asks(toTop[d], r)
        BY <1>13 DEF ShownIn, r
      <3>2. QED
        BY <1>11, <1>12, <2>3, <2>4, <3>1
    <2>6. QED
      BY <1>10, <1>13, <2>5 DEF ShownIn, r
  <1>14. PanelInv'
    BY <1>10, <1>13 DEF PickInv, PanelInv
  <1>15. QED
    BY <1>6, <1>7, <1>9, <1>14 DEF PickInv

\* The user points at an element, in a frame that shows the panel or will.
LEMMA PointerStep ==
    ASSUME PickInv, NEW f \in Frame, NEW e \in Pointable, PointerOver(f, e)
    PROVE  PickInv'
  <1> DEFINE r == panel[f].request
             card == Active(panel[f], doc[f])
             p == Refreshed([card EXCEPT !.seed = e], doc[f])
  <1>1. /\ r # NoRequest /\ Announce(f) /\ panel' = [panel EXCEPT ![f] = p]
        /\ UNCHANGED <<requests, pending, setting, picked>>
    BY DEF PointerOver, pickServerVars
  <1>2. IsPanel(panel[f]) /\ r \in Nat
    BY DEF PickInv, PanelsTyped, IsPanel
  <1>3. IsPanel(p) /\ p.request = r /\ p.active
    <2>1. IsPanel(card) /\ card.request = r /\ card.active
      BY <1>1, <1>2, ActivePanel
    <2> HIDE DEF card, r
    <2> DEFINE seeded == [card EXCEPT !.seed = e]
    <2>2. IsPanel(seeded) /\ seeded.request = r /\ seeded.active
      <3>1. IsPanel(seeded) /\ seeded.request = card.request /\ (seeded.active <=> card.active)
        BY <2>1, PanelGroups
      <3>2. QED
        BY <2>1, <3>1
    <2> HIDE DEF seeded
    <2>3. IsPanel(Refreshed(seeded, doc[f])) /\ Refreshed(seeded, doc[f]).request = r
          /\ Refreshed(seeded, doc[f]).active
      BY <2>2, PanelFields
    <2>4. QED
      BY <2>3 DEF seeded
  <1> HIDE DEF card, p
  <1>4. PanelsTyped' /\ panel'[f] = p /\ \A g \in Frame : g # f => panel'[g] = panel[g]
    BY <1>1, <1>3, PanelPut DEF PickInv
  <1>5. \A g \in Frame : panel'[g].request = panel[g].request
    BY <1>3, <1>4
  <1>6. RequestsInv' /\ TopInv'
    BY <1>1, <1>5, Frames DEF PickInv, RequestsInv, TopInv
  <1>7. CASE panel[f].active
    <2>1. UNCHANGED <<toTop, fromTop>>
      BY <1>1, <1>7 DEF Announce, postVars
    <2>2. \A g \in Frame : panel'[g].request = panel[g].request /\ (panel'[g].active <=> panel[g].active)
      BY <1>3, <1>4, <1>7
    <2>3. QED
      BY <1>1, <1>4, <2>1, <2>2, PanelsAlike
  <1>8. CASE ~panel[f].active /\ f = Top
    <2>1. Broadcast(r, Top) /\ UNCHANGED toTop
      BY <1>1, <1>8 DEF Announce
    <2>2. /\ fromTop' \in [Child -> Seq(Post)]
          /\ \A c \in Child : TellsLast(fromTop'[c], r, Top)
      BY <1>1, <1>2, <2>1, Broadcasts, Frames DEF PickInv
    <2>3. PostsTyped'
      BY <1>1, <2>1, <2>2 DEF PickInv, PostsTyped
    <2>4. PanelInv'
      BY <1>3, <1>4, <1>8, <2>2, AllTold
    <2>5. QED
      BY <1>4, <1>6, <2>3, <2>4 DEF PickInv
  <1>9. CASE ~panel[f].active /\ f # Top
    <2>1. toTop' = [toTop EXCEPT ![f] = Append(toTop[f], r)] /\ UNCHANGED fromTop
      BY <1>1, <1>9 DEF Announce
    <2>2. f \in Child /\ toTop \in [Child -> Seq(Nat \ {NoRequest})] /\ r \in Nat \ {NoRequest}
      BY <1>1, <1>2, <1>9, Frames DEF PickInv, PostsTyped
    <2>3. /\ Append(toTop[f], r) \in Seq(Nat \ {NoRequest}) /\ Asks(Append(toTop[f], r), r)
          /\ \A x : Asks(toTop[f], x) => Asks(Append(toTop[f], r), x)
      BY <2>2, Added
    <2>4. PostsTyped'
      BY <1>1, <2>1, <2>2, <2>3 DEF PickInv, PostsTyped
    <2>5. panel'[Top] = panel[Top] /\ \A c \in Child : c # f => panel'[c] = panel[c] /\ toTop'[c] = toTop[c]
      BY <1>4, <1>9, <2>1, <2>2, Frames DEF Frame
    <2>6. Asks(toTop'[f], r) /\ \A x : Asks(toTop[f], x) => Asks(toTop'[f], x)
      BY <2>1, <2>2, <2>3
    <2>7. \A g \in Frame : ShownIn(g) => ShownIn(g)'
      BY <1>3, <1>4, <2>1, <2>5, <2>6 DEF ShownIn
    <2>8. PanelInv'
      BY <2>5, <2>7 DEF PickInv, PanelInv
    <2>9. QED
      BY <1>4, <1>6, <2>4, <2>8 DEF PickInv
  <1>10. QED
    BY <1>7, <1>8, <1>9

\* What was picked is reported, and the panel is closed.
LEMMA ReportStep ==
    ASSUME PickInv, NEW f \in Frame, NEW what, ReportPick(f, what)
    PROVE  PickInv'
  <1> DEFINE e == [request |-> panel[f].request, pick |-> what]
  <1>1. /\ panel' = [panel EXCEPT ![f] = TornDown(NoRequest)] /\ picked' = Append(picked, e)
        /\ UNCHANGED <<requests, pending, setting, toTop, fromTop>>
    BY DEF ReportPick, pickServerVars, postVars
  <1>2. IsPanel(TornDown(NoRequest)) /\ TornDown(NoRequest).request = NoRequest /\ ~TornDown(NoRequest).active
    BY TornPanel DEF NoRequest
  <1>3. PanelsTyped' /\ panel'[f] = TornDown(NoRequest) /\ \A g \in Frame : g # f => panel'[g] = panel[g]
    BY <1>1, <1>2, PanelPut DEF PickInv
  <1>4. PICK T : picked \in Seq(T)
    BY DEF PickInv, PostsTyped
  <1>5. e.request = panel[f].request
    OBVIOUS
  <1> HIDE DEF e
  <1>6. /\ picked' \in Seq(T \cup {e}) /\ Holding(picked', panel[f].request)
        /\ \A r : Holding(picked, r) => Holding(picked', r)
    <2>1. picked \in Seq(T \cup {e}) /\ e \in T \cup {e}
      BY <1>4, SeqMonotonic
    <2>2. QED
      BY <1>1, <1>5, <2>1, Added
  <1>7. PostsTyped'
    BY <1>1, <1>6 DEF PickInv, PostsTyped
  <1>8. RequestsInv'
    <2>1. ASSUME NEW g \in Frame
          PROVE  AtLast(setting[g], panel'[g].request) \in {NoRequest, pending}
      <3>1. AtLast(setting[g], panel[g].request) \in {NoRequest, pending}
        BY DEF PickInv, RequestsInv
      <3>2. QED
        BY <1>2, <1>3, <3>1 DEF AtLast
    <2>2. QED
      BY <1>1, <2>1 DEF RequestsInv
  <1>9. TopInv'
    <2>1. pending # NoRequest => AtLast(setting[Top], panel[Top].request) = pending \/ Holding(picked, pending)
      BY DEF PickInv, TopInv
    <2>2. pending # NoRequest => AtLast(setting[Top], panel'[Top].request) = pending \/ Holding(picked', pending)
      <3>1. CASE f = Top /\ setting[Top] = <<>>
        BY <1>6, <2>1, <3>1 DEF AtLast
      <3>2. CASE f = Top /\ setting[Top] # <<>>
        BY <1>6, <2>1, <3>2 DEF AtLast
      <3>3. CASE f # Top
        BY <1>3, <1>6, <2>1, <3>3, Frames
      <3>4. QED
        BY <3>1, <3>2, <3>3
    <2>3. QED
      BY <1>1, <2>2 DEF TopInv
  <1>10. PanelInv'
    <2>1. CASE f = Top
      BY <1>2, <1>3, <2>1 DEF PanelInv
    <2>2. CASE f # Top
      <3>1. panel'[Top] = panel[Top] /\ ~panel'[f].active
        BY <1>2, <1>3, <2>2, Frames
      <3>2. \A g \in Frame : ShownIn(g) => ShownIn(g)'
        BY <1>1, <1>3, <3>1 DEF ShownIn, Frame
      <3>3. QED
        BY <3>1, <3>2 DEF PickInv, PanelInv
    <2>3. QED
      BY <2>1, <2>2
  <1>11. QED
    BY <1>3, <1>7, <1>8, <1>9, <1>10 DEF PickInv

\* A child loads another page: nothing of it is left.
LEMMA ReloadStep ==
    ASSUME PickInv, NEW c \in Child, Reloads(c)
    PROVE  PickInv'
  <1>1. /\ panel' = [panel EXCEPT ![c] = TornDown(NoRequest)] /\ setting' = [setting EXCEPT ![c] = <<>>]
        /\ toTop' = [toTop EXCEPT ![c] = <<>>] /\ fromTop' = [fromTop EXCEPT ![c] = <<>>]
        /\ UNCHANGED <<requests, pending, picked>>
    BY DEF Reloads
  <1>2. IsPanel(TornDown(NoRequest)) /\ TornDown(NoRequest).request = NoRequest /\ ~TornDown(NoRequest).active
    BY TornPanel DEF NoRequest
  <1>3. c \in Frame /\ c # Top
    BY Frames DEF Frame
  <1>4. PanelsTyped' /\ panel'[c] = TornDown(NoRequest) /\ \A g \in Frame : g # c => panel'[g] = panel[g]
    BY <1>1, <1>2, <1>3, PanelPut DEF PickInv
  <1>5. /\ setting \in [Frame -> Seq(Nat)] /\ toTop \in [Child -> Seq(Nat \ {NoRequest})]
        /\ fromTop \in [Child -> Seq(Post)]
    BY DEF PickInv, PostsTyped
  <1>6. PostsTyped'
    <2>1. \A T : <<>> \in Seq(T)
      OBVIOUS
    <2>2. setting' \in [Frame -> Seq(Nat)]
      BY <1>1, <1>5, <2>1
    <2>3. toTop' \in [Child -> Seq(Nat \ {NoRequest})]
      BY <1>1, <1>5, <2>1
    <2>4. fromTop' \in [Child -> Seq(Post)]
      BY <1>1, <1>5, <2>1
    <2>5. QED
      BY <1>1, <2>2, <2>3, <2>4 DEF PickInv, PostsTyped
  <1>7. /\ setting'[c] = <<>> /\ toTop'[c] = <<>> /\ fromTop'[c] = <<>>
        /\ \A g \in Frame : g # c => setting'[g] = setting[g]
        /\ \A d \in Child : d # c => toTop'[d] = toTop[d] /\ fromTop'[d] = fromTop[d]
    BY <1>1, <1>3, <1>5
  <1>8. RequestsInv'
    <2>1. ASSUME NEW g \in Frame
          PROVE  AtLast(setting'[g], panel'[g].request) \in {NoRequest, pending}
      <3>1. AtLast(setting[g], panel[g].request) \in {NoRequest, pending}
        BY DEF PickInv, RequestsInv
      <3>2. QED
        BY <1>2, <1>4, <1>7, <3>1 DEF AtLast
    <2>2. QED
      BY <1>1, <2>1 DEF RequestsInv
  <1>9. panel'[Top] = panel[Top] /\ setting'[Top] = setting[Top]
    BY <1>3, <1>4, <1>7, Frames
  <1>10. TopInv'
    BY <1>1, <1>9 DEF PickInv, TopInv
  <1>11. \A g \in Frame : ShownIn(g) => ShownIn(g)'
    <2>1. ASSUME NEW g \in Frame, ShownIn(g), NEW d \in Child
          PROVE  /\ Holding(fromTop'[d], panel[Top].request) => TellsLast(fromTop'[d], panel[Top].request, g)
                 /\ panel'[d].active /\ panel'[d].request = panel[Top].request /\ d # g =>
                      TellsLast(fromTop'[d], panel[Top].request, g) \/ Asks(toTop'[d], panel[Top].request)
      <3>1. CASE d = c
        BY <1>2, <1>4, <1>7, <3>1 DEF Holding
      <3>2. CASE d # c
        BY <1>4, <1>7, <2>1, <3>2 DEF ShownIn, Frame
      <3>3. QED
        BY <3>1, <3>2
    <2>2. QED
      BY <1>9, <2>1 DEF ShownIn
  <1>12. PanelInv'
    BY <1>9, <1>11 DEF PickInv, PanelInv
  <1>13. QED
    BY <1>4, <1>6, <1>8, <1>10, <1>12 DEF PickInv

\* Calls that end with the pending request are made in every frame.
LEMMA CallsInEveryFrame ==
    ASSUME PickInv, NEW calls \in Seq(Nat), calls # <<>>, InEveryFrame(calls),
           UNCHANGED <<panel, toTop, fromTop>>, calls[Len(calls)] = pending', pending' \in Nat, requests' \in Nat,
           \E T : picked' \in Seq(T)
    PROVE  PickInv'
  <1>1. setting' = [f \in Frame |-> setting[f] \o calls]
    BY DEF InEveryFrame
  <1>2. ASSUME NEW f \in Frame
        PROVE  setting'[f] \in Seq(Nat) /\ AtLast(setting'[f], panel[f].request) = pending'
    <2>1. setting[f] \in Seq(Nat)
      BY DEF PickInv, PostsTyped
    <2>2. setting[f] \o calls \in Seq(Nat) /\ AtLast(setting[f] \o calls, panel[f].request) = pending'
      BY <2>1, CallsAdded
    <2>3. QED
      BY <1>1, <2>2
  <1>3. PanelsTyped' /\ PostsTyped'
    BY <1>1, <1>2 DEF PickInv, PanelsTyped, PostsTyped
  <1>4. RequestsInv' /\ TopInv'
    BY <1>2, Frames DEF RequestsInv, TopInv
  <1>5. PanelInv'
    BY DEF PickInv, PanelInv, ShownIn
  <1>6. QED
    BY <1>3, <1>4, <1>5 DEF PickInv

\* The server asks for a pick, cancels it, or hears of one.
LEMMA ServerSteps ==
    ASSUME PickInv, StartPick \/ CancelPick \/ HearsPick
    PROVE  PickInv'
  <1>1. requests \in Nat /\ pending \in Nat /\ \E T : picked \in Seq(T)
    BY DEF PickInv, PostsTyped
  <1>2. CASE StartPick
    <2> DEFINE calls == IF pending = NoRequest THEN <<requests + 1>> ELSE <<NoRequest, requests + 1>>
    <2>1. /\ requests' = requests + 1 /\ pending' = requests + 1 /\ InEveryFrame(calls)
          /\ UNCHANGED <<panel, toTop, fromTop, picked>>
      BY <1>2 DEF StartPick, postVars
    <2>2. calls \in Seq(Nat) /\ calls # <<>> /\ calls[Len(calls)] = requests + 1
      BY <1>1 DEF NoRequest
    <2> HIDE DEF calls
    <2>3. QED
      BY <1>1, <2>1, <2>2, CallsInEveryFrame
  <1>3. ASSUME pending' = NoRequest, InEveryFrame(<<NoRequest>>), UNCHANGED <<requests, panel, toTop, fromTop>>,
               \E T : picked' \in Seq(T)
        PROVE  PickInv'
    <2> DEFINE calls == <<NoRequest>>
    <2>1. calls \in Seq(Nat) /\ calls # <<>> /\ calls[Len(calls)] = pending' /\ pending' \in Nat
      BY <1>3 DEF NoRequest
    <2>2. InEveryFrame(calls)
      BY <1>3
    <2> HIDE DEF calls
    <2>3. QED
      BY <1>1, <1>3, <2>1, <2>2, CallsInEveryFrame
  <1>4. CASE CancelPick
    BY <1>1, <1>3, <1>4 DEF CancelPick, postVars
  <1>5. CASE HearsPick
    <2>1. PICK T : picked \in Seq(T)
      BY <1>1
    <2>2. picked # <<>> /\ picked' = Tail(picked) /\ UNCHANGED <<requests, panel, toTop, fromTop>>
      BY <1>5 DEF HearsPick, postVars
    <2>3. picked' \in Seq(T) /\ \A r : Holding(picked, r) => Head(picked).request = r \/ Holding(picked', r)
      BY <2>1, <2>2, Taken
    <2>4. CASE Head(picked).request = pending
      BY <1>3, <1>5, <2>2, <2>3, <2>4 DEF HearsPick
    <2>5. CASE Head(picked).request # pending
      <3>1. UNCHANGED <<pending, setting>>
        BY <1>5, <2>5 DEF HearsPick
      <3>2. PanelsTyped' /\ PostsTyped' /\ RequestsInv'
        BY <2>2, <2>3, <3>1 DEF PickInv, PanelsTyped, PostsTyped, RequestsInv
      <3>3. TopInv'
        BY <2>2, <2>3, <2>5, <3>1 DEF PickInv, TopInv
      <3>4. PanelInv'
        BY <2>2, <3>1 DEF PickInv, PanelInv, ShownIn
      <3>5. QED
        BY <3>2, <3>3, <3>4 DEF PickInv
    <2>6. QED
      BY <2>4, <2>5
  <1>6. QED
    BY <1>2, <1>4, <1>5

\* Nobody picks yet.
LEMMA NoPickYet ==
    ASSUME PickInit
    PROVE  PickInv
  <1>1. IsPanel(TornDown(NoRequest)) /\ TornDown(NoRequest).request = NoRequest
    BY TornPanel DEF NoRequest
  <1>2. PanelsTyped
    BY <1>1 DEF PickInit, PanelsTyped
  <1>3. \A T : <<>> \in Seq(T)
    OBVIOUS
  <1>4. PostsTyped
    <2>1. setting \in [Frame -> Seq(Nat)]
      BY <1>3 DEF PickInit
    <2>2. toTop \in [Child -> Seq(Nat \ {NoRequest})]
      BY <1>3 DEF PickInit
    <2>3. fromTop \in [Child -> Seq(Post)]
      BY <1>3 DEF PickInit
    <2>4. QED
      BY <1>3, <2>1, <2>2, <2>3 DEF PickInit, PostsTyped, NoRequest
  <1>5. \A f \in Frame : panel[f].request = NoRequest /\ setting[f] = <<>>
    BY <1>1 DEF PickInit
  <1>6. RequestsInv /\ TopInv /\ PanelInv
    BY <1>5, Frames DEF PickInit, RequestsInv, TopInv, PanelInv, AtLast
  <1>7. QED
    BY <1>2, <1>4, <1>6 DEF PickInv

\* Whatever the user, the frames and the server do.
LEMMA PickNextKeeps ==
    ASSUME PickInv, [PickNext]_pickVars
    PROVE  PickInv'
  <1>1. CASE StartPick \/ CancelPick \/ HearsPick
    BY <1>1, ServerSteps
  <1>2. ASSUME NEW f \in Frame, SetPicker(f)
        PROVE  PickInv'
    BY <1>2, SetPickerStep
  <1>3. ASSUME NEW f \in Frame,
               \/ Refresh(f)
               \/ \E e \in Pointable : ClickMember(f, e)
               \/ \E i \in 1 .. MaxAncestors : ClickRow(f, i)
               \/ ContinuePicking(f)
               \/ \E e \in Changing : DocumentChanges(f, e)
        PROVE  PickInv'
    BY <1>3, PanelSteps
  <1>4. ASSUME NEW f \in Frame, NEW e \in Pointable, PointerOver(f, e)
        PROVE  PickInv'
    BY <1>4, PointerStep
  <1>5. ASSUME NEW f \in Frame, (\E e \in Pointable : ClickExact(f, e)) \/ UseExact(f) \/ UseGroup(f) \/ Cancel(f)
        PROVE  PickInv'
    <2>1. PICK what : ReportPick(f, what)
      BY <1>5 DEF ClickExact, UseExact, UseGroup, Cancel
    <2>2. QED
      BY <2>1, ReportStep
  <1>6. ASSUME NEW c \in Child, TopHears(c) \/ ChildHears(c) \/ Reloads(c)
        PROVE  PickInv'
    BY <1>6, TopHearsStep, ChildHearsStep, ReloadStep
  <1>7. CASE UNCHANGED pickVars
    BY <1>7, PanelsAlike DEF pickVars, PickInv, PanelsTyped
  <1>8. QED
    BY <1>1, <1>2, <1>3, <1>4, <1>5, <1>6, <1>7 DEF PickNext

\* Once every call and message has arrived, at most one frame shows the panel, and
\* frames have no request but the one the server waits for (setAssertionPickerPanelActive,
\* broadcastActiveAssertionPickerFrame, cancelAssertionPick).
THEOREM OnePanelAtMost == PickSpec => []OnePanel
  <1>1. PickInv => OnePanel
    <2> SUFFICES ASSUME PickInv, Settled
                 PROVE  /\ \A f, g \in Frame : panel[f].active /\ panel[g].active => f = g
                        /\ \A f \in Frame : panel[f].request \in {NoRequest, pending}
      BY DEF OnePanel
    <2>1. \A f \in Frame : panel[f].request \in {NoRequest, pending}
      BY DEF PickInv, RequestsInv, Settled, AtLast
    <2>2. ASSUME NEW f \in Frame, panel[f].active
          PROVE  pending # NoRequest /\ panel[f].request = pending
      BY <2>1, <2>2 DEF PickInv, PanelsTyped, IsPanel
    <2>3. pending # NoRequest => panel[Top].request = pending
      BY DEF PickInv, TopInv, Settled, AtLast, Holding, Frame
    <2>4. ASSUME pending # NoRequest
          PROVE  \E g \in Frame : \A f \in Frame : panel[f].active => f = g
      <3>1. PICK g \in Frame : ShownIn(g)
        BY <2>3, <2>4 DEF PickInv, PanelInv
      <3>2. ASSUME NEW f \in Frame, panel[f].active, f # g
            PROVE  FALSE
        <4>1. CASE f = Top
          BY <3>1, <3>2, <4>1 DEF ShownIn
        <4>2. CASE f \in Child
          <5>1. TellsLast(fromTop[f], panel[Top].request, g) \/ Asks(toTop[f], panel[Top].request)
            BY <2>2, <2>3, <2>4, <3>1, <3>2, <4>2 DEF ShownIn
          <5>2. QED
            BY <4>2, <5>1 DEF Settled, TellsLast, Asks
        <4>3. QED
          BY <4>1, <4>2, Frames
      <3>3. QED
        BY <3>2
    <2>5. QED
      BY <2>1, <2>2, <2>4
  <1>2. PickInit => PickInv
    BY NoPickYet
  <1>3. PickInv /\ [PickNext]_pickVars => PickInv'
    BY PickNextKeeps
  <1>4. QED
    BY <1>1, <1>2, <1>3, PTL DEF PickSpec

=============================================================================
