----------------------------- MODULE RecorderPages -----------------------------
(***************************************************************************)
(* What a RecordingRuntime keeps about the pages of its browser            *)
(* (apps/browser-recorder/src/server/recording/runtime.ts): the open pages *)
(* and the active one, captcha locks with their timers, the pending date,  *)
(* select and assertion pickers, the start URL of the recording, and the   *)
(* actions it forwards.  Opening and releasing the session itself is one   *)
(* step here; RecorderSession cuts it at its awaits.                       *)
(***************************************************************************)
EXTENDS RecorderValues, Naturals, Sequences, SequencesExt

CONSTANTS
    Page,       \* pages; one that is not open stands for a page yet to come
    Request,    \* picker request ids; one not in use stands for a new uuid
    Generation  \* bound: captchaLockGeneration counts modulo this

ASSUME PagesAssumption ==
    /\ None \notin Page \cup Request
    /\ Generation \in Nat \ {0}

VARIABLES
    mode,       \* mode and recordingReady: none, opening, recording, replay
    pages,      \* pages, in the order they were registered
    active,     \* activePageId
    observed,   \* pages whose captchaStartedAt is set
    lock,       \* captchaLockActive and captchaLockGeneration of a page
    timers,     \* pending lock timers, with the generation they were made for
    picker,     \* pendingDatePicker, pendingSelectPicker, pendingAssertionPick
    asked,      \* picker requests of a page that await the page
    applying,   \* picked values being put into a page
    native,     \* nativeSelects
    startUrl,   \* startUrlSource
    acted,      \* hasRecordedAction
    calm        \* whether nothing happens to a page that waits for its picker

vars == <<calm, mode, pages, active, observed, lock, timers, picker, asked, applying,
          native, startUrl, acted>>

lockVars == <<observed, lock, timers>>
recordVars == <<startUrl, acted>>

-----------------------------------------------------------------------------
Kind == {"date", "select"}
Pending == [page : Page \cup {None}, request : Request \cup {None}]
NoPicker == [page |-> None, request |-> None]
NoPickers == [k \in Kind \cup {"assertion"} |-> NoPicker]
Open == ToSet(pages)

TypeOK ==
    /\ mode \in {"none", "opening", "recording", "replay"}
    /\ pages \in Seq(Page) /\ IsInjective(pages)
    /\ active \in Page \cup {None}
    /\ observed \in SUBSET Page
    /\ lock \in [Page -> [on : BOOLEAN, generation : 0 .. Generation - 1]]
    /\ timers \in SUBSET (Page \X (0 .. Generation - 1))
    /\ picker \in [Kind \cup {"assertion"} -> Pending]
    /\ asked \in SUBSET [kind : Kind, page : Page, request : Request]
    /\ applying \in SUBSET Page
    /\ native \in BOOLEAN /\ acted \in BOOLEAN /\ calm \in BOOLEAN
    /\ startUrl \in {"none", "observed", "requested"}

Init ==
    /\ mode = "none" /\ pages = <<>> /\ active = None
    /\ observed = {} /\ timers = {}
    /\ lock = [p \in Page |-> [on |-> FALSE, generation |-> 0]]
    /\ picker = NoPickers /\ asked = {} /\ applying = {}
    /\ native = FALSE /\ startUrl = "none" /\ acted = FALSE
    /\ calm \in BOOLEAN

InUse == {picker[k].request : k \in DOMAIN picker} \cup {a.request : a \in asked}
Undisturbed == calm => asked = {} /\ applying = {}

-----------------------------------------------------------------------------
(* Captcha locks *)

\* isCaptchaLocked and activePageCaptchaLocked.
Locked(p) == mode = "recording" /\ lock[p].on
ActiveLocked == active # None /\ Locked(active)

NextGeneration(p) == (lock[p].generation + 1) % Generation

\* startCaptchaLock: the timer of an earlier lock is cleared.
StartLocks(ps) ==
    /\ lock' = [p \in Page |-> IF p \in ps THEN [on |-> TRUE, generation |-> NextGeneration(p)]
                                           ELSE lock[p]]
    /\ timers' = {t \in timers : t[1] \notin ps} \cup {<<p, NextGeneration(p)>> : p \in ps}

\* clearCaptchaLock: nothing unless the page is locked.
ClearLockOnly(ps) ==
    /\ lock' = [p \in Page |-> IF p \in ps THEN [lock[p] EXCEPT !.on = FALSE] ELSE lock[p]]
    /\ UNCHANGED timers
ClearLocks(ps) ==
    LET on == {p \in ps : lock[p].on} IN
    /\ lock' = [p \in Page |-> IF p \in on THEN [on |-> FALSE, generation |-> NextGeneration(p)]
                                           ELSE lock[p]]
    /\ timers' = {t \in timers : t[1] \notin on}

\* The pickers after those of page p among ks have been dismissed or cancelled.
Without(ks, p) == [k \in DOMAIN picker |->
                     IF k \in ks /\ picker[k].page = p THEN NoPicker ELSE picker[k]]
AnyPicker == Kind \cup {"assertion"}

\* The console says that the browser began to solve a captcha.
LockDismissesPick == {"assertion"}
LockDismisses == AnyPicker
SolvingStarted(p) ==
    /\ p \in Open /\ Undisturbed
    /\ observed' = observed \cup {p}
    /\ IF mode = "recording"
       THEN StartLocks({p}) /\ picker' = Without(LockDismisses, p)
       ELSE UNCHANGED <<lock, timers, picker>>
    /\ UNCHANGED <<mode, pages, active, asked, applying, native, recordVars>>

\* It says that it is done; or the user goes on without it.
SolvingFinished(p) ==
    /\ p \in Open
    /\ observed' = observed \ {p}
    /\ ClearLocks({p})
    /\ UNCHANGED <<mode, pages, active, picker, asked, applying, native, recordVars>>

ContinueAfterCaptcha(p) ==
    /\ p = active /\ Locked(p)
    /\ ClearLocks({p})
    /\ UNCHANGED <<mode, pages, active, observed, picker, asked, applying, native, recordVars>>

\* The 45 s of the lock of generation g are over.
LockTimesOut(p, g) ==
    /\ <<p, g>> \in timers
    /\ IF lock[p].on /\ lock[p].generation = g
       THEN ClearLocks({p})
       ELSE timers' = timers \ {<<p, g>>} /\ UNCHANGED lock
    /\ UNCHANGED <<mode, pages, active, observed, picker, asked, applying, native, recordVars>>

-----------------------------------------------------------------------------
(* The start URL and the actions of a recording *)

\* forwardStartUrlDescriptor for a page whose address is http or not.
StartUrlAfter(source, http) ==
    IF mode # "recording" \/ startUrl = "requested" THEN startUrl
    ELSE IF startUrl = "observed" /\ (source = "observed" \/ acted) THEN startUrl
    ELSE IF http THEN source ELSE startUrl

\* forwardAction: dropped when locked, without a start URL, or a duplicate.
ForwardAction(p) ==
    IF mode = "recording" /\ ~(p \in Open /\ Locked(p))
    THEN \E http, fresh \in BOOLEAN :
           /\ startUrl' = IF startUrl = "none" THEN StartUrlAfter("observed", http) ELSE startUrl
           /\ acted' = (acted \/ (startUrl' # "none" /\ fresh))
    ELSE UNCHANGED recordVars

\* The recorder binding is called by the script of the active page, on what the
\* user does there: nothing before the client has the live view of the session.
Heard(p) == mode # "opening" /\ p \in Open /\ p = active /\ ~Locked(p)

PageActs(p) ==
    /\ Heard(p)
    /\ ForwardAction(p)
    /\ UNCHANGED <<mode, pages, active, lockVars, picker, asked, applying, native>>

\* navigate: the requested address may still become the start URL.
Navigate ==
    /\ mode = "recording" /\ active # None /\ ~ActiveLocked
    /\ startUrl' = StartUrlAfter("requested", TRUE)
    /\ UNCHANGED <<mode, pages, active, lockVars, picker, asked, applying, native, acted>>

-----------------------------------------------------------------------------
(* Pages *)

\* registerPage.
PageOpens(p) ==
    /\ mode # "none" /\ p \notin Open
    /\ pages' = Append(pages, p)
    /\ active' = IF active = None THEN p ELSE active
    /\ UNCHANGED <<mode, lockVars, picker, asked, applying, native, recordVars>>

\* page.on("close").
ActiveAfterClosing(p, left) ==
    IF active # p THEN active ELSE IF left = <<>> THEN None ELSE Head(left)
PageCloses(p) ==
    /\ p \in Open /\ Undisturbed
    /\ picker' = Without(AnyPicker, p)
    /\ ClearLocks({p})
    /\ observed' = observed \ {p}
    /\ \E i \in DOMAIN pages : pages[i] = p /\ pages' = RemoveAt(pages, i)
    /\ active' = ActiveAfterClosing(p, pages')
    /\ UNCHANGED <<mode, asked, applying, native, recordVars>>

\* framenavigated of the main frame; other pages than the active are ignored.
Navigated(p) ==
    /\ p \in Open /\ p = active /\ Undisturbed
    /\ picker' = Without(AnyPicker, p)
    /\ \E http \in BOOLEAN : startUrl' = StartUrlAfter("observed", http)
    /\ UNCHANGED <<mode, pages, active, lockVars, asked, applying, native, acted>>

SwitchPage(p) ==
    /\ mode # "none" /\ p \in Open /\ ~ActiveLocked /\ Undisturbed
    /\ picker' = IF active = None THEN picker ELSE Without(AnyPicker, active)
    /\ active' = p
    /\ UNCHANGED <<mode, pages, lockVars, asked, applying, native, recordVars>>

-----------------------------------------------------------------------------
(* Pickers *)

\* startAssertionPick replaces an earlier pick; refused unless recording.
StartAssertionPick(q) ==
    /\ mode = "recording" /\ active # None /\ ~ActiveLocked
    /\ q \notin InUse
    /\ picker' = [Without(Kind, active) EXCEPT !["assertion"] = [page |-> active, request |-> q]]
    /\ UNCHANGED <<mode, pages, active, lockVars, asked, applying, native, recordVars>>

\* The user cancels the pick, or the page selects an element or a group.
EndAssertionPick(q) ==
    /\ q # None /\ picker["assertion"].request = q
    /\ picker' = [picker EXCEPT !["assertion"] = NoPicker]
    /\ UNCHANGED <<mode, pages, active, lockVars, asked, applying, native, recordVars>>

\* A date input or a select was clicked: measure it, then open the picker.
PickerAsked(k, p) ==
    /\ Heard(p) /\ Undisturbed
    /\ IF k = "select" /\ native
       THEN picker' = Without({"select"}, p) /\ UNCHANGED asked
       ELSE \E q \in Request \ InUse :
              /\ picker' = Without(Kind, p)
              /\ asked' = asked \cup {[kind |-> k, page |-> p, request |-> q]}
    /\ UNCHANGED <<mode, pages, active, lockVars, applying, native, recordVars>>

PickerOpens(a) ==
    /\ a \in asked
    /\ asked' = asked \ {a}
    /\ picker' = IF a.page \in Open
                 THEN [picker EXCEPT ![a.kind] = [page |-> a.page, request |-> a.request]]
                 ELSE picker
    /\ UNCHANGED <<mode, pages, active, lockVars, applying, native, recordVars>>

\* dismissDatePicker, dismissSelectPicker, and the page's own dismiss events.
DismissPicker(k) ==
    /\ picker[k] # NoPicker
    /\ picker' = [picker EXCEPT ![k] = NoPicker]
    /\ UNCHANGED <<mode, pages, active, lockVars, asked, applying, native, recordVars>>

\* selectDate, selectPickerOption: closed first, then put into the page.
Pick(k) ==
    /\ picker[k] # NoPicker
    /\ picker' = [picker EXCEPT ![k] = NoPicker]
    /\ \E valid \in BOOLEAN :
         applying' = IF valid /\ picker[k].page = active /\ active \in Open
                     THEN applying \cup {active} ELSE applying
    /\ UNCHANGED <<mode, pages, active, lockVars, asked, native, recordVars>>

PickApplied(p) ==
    /\ p \in applying
    /\ applying' = applying \ {p}
    /\ ForwardAction(p) \/ UNCHANGED recordVars
    /\ UNCHANGED <<mode, pages, active, lockVars, picker, asked, native>>

SetNativeSelects(enabled) ==
    /\ ~ActiveLocked /\ native # enabled
    /\ native' = enabled
    /\ picker' = IF enabled THEN [picker EXCEPT !["select"] = NoPicker] ELSE picker
    /\ UNCHANGED <<mode, pages, active, lockVars, asked, applying, recordVars>>

-----------------------------------------------------------------------------
(* The session *)

StartSession ==
    /\ mode = "none"
    /\ mode' = "opening" /\ startUrl' = "none" /\ acted' = FALSE
    /\ UNCHANGED <<pages, active, lockVars, picker, asked, applying, native>>

\* recordingReady is set: captchas seen so far lock their pages now.
RecordingReady ==
    /\ mode = "opening" /\ pages # <<>> /\ Undisturbed
    /\ mode' = "recording" /\ active' = Head(pages)
    /\ StartLocks(observed)
    /\ picker' = [k \in DOMAIN picker |->
                    IF picker[k].page \in observed THEN NoPicker ELSE picker[k]]
    /\ \E http \in BOOLEAN : startUrl' = IF http THEN "observed" ELSE "none"
    /\ UNCHANGED <<pages, observed, asked, applying, native, acted>>

Cleared ==
    /\ pages' = <<>> /\ active' = None /\ observed' = {}
    /\ ClearLocks(Page)
    /\ picker' = NoPickers

\* startReplay leaves the recorded session; its own session has new pages.
StartReplay ==
    /\ mode \in {"opening", "recording"} /\ ~ActiveLocked /\ Undisturbed
    /\ mode' = "replay"
    /\ Cleared
    /\ startUrl' = "requested" /\ acted' = TRUE
    /\ UNCHANGED <<asked, applying, native>>

ReturnToRecording ==
    /\ mode = "replay" /\ pages # <<>>
    /\ mode' = "recording"
    /\ UNCHANGED <<pages, active, lockVars, picker, asked, applying, native, recordVars>>

\* release, or the catch clauses of start and startReplay.
EndSession ==
    /\ mode # "none" /\ Undisturbed
    /\ mode' = "none"
    /\ Cleared
    /\ startUrl' = "none" /\ acted' = FALSE
    /\ UNCHANGED <<asked, applying, native>>

-----------------------------------------------------------------------------
Step ==
    \/ \E p \in Page :
         \/ SolvingStarted(p) \/ SolvingFinished(p) \/ ContinueAfterCaptcha(p)
         \/ \E g \in 0 .. Generation - 1 : LockTimesOut(p, g)
         \/ PageActs(p) \/ PageOpens(p) \/ PageCloses(p) \/ Navigated(p) \/ SwitchPage(p)
         \/ PickApplied(p)
         \/ \E k \in Kind : PickerAsked(k, p)
    \/ \E q \in Request : StartAssertionPick(q) \/ EndAssertionPick(q)
    \/ \E a \in asked : PickerOpens(a)
    \/ \E k \in Kind : DismissPicker(k) \/ Pick(k)
    \/ \E enabled \in BOOLEAN : SetNativeSelects(enabled)
    \/ Navigate
    \/ StartSession \/ RecordingReady \/ StartReplay \/ ReturnToRecording \/ EndSession

\* calm is chosen for a whole behaviour.
Next == Step /\ UNCHANGED calm

Spec == Init /\ [][Next]_vars

-----------------------------------------------------------------------------
(* Properties *)

\* A picker is pending only on the active, open, unlocked page: locks, navigation,
\* tab changes, closed tabs, replays and newer pickers each cancel it. Of an
\* assertion pick this always holds, of the date and select pickers, of which one
\* only is pending, when nothing comes between the click in the page and the
\* opening of the picker (ADR 0012; cancelAssertionPickForPage,
\* dismissDatePickersForPage, dismissSelectPickersForPage and their callers).
OnActivePage(k) == picker[k].page = active /\ active \in Open /\ ~Locked(active)
PickersFollowPage ==
    /\ picker["assertion"] # NoPicker => mode = "recording" /\ OnActivePage("assertion")
    /\ calm => \A k \in Kind : picker[k] # NoPicker =>
        /\ OnActivePage(k)
        /\ \A l \in Kind \ {k} : picker[l] = NoPicker

\* Every lock has exactly the timer that was made for it, and no timer outlives
\* its lock: no timer ends a later lock and no lock lasts for ever.
OneTimerPerLock == timers = {<<p, lock[p].generation>> : p \in {q \in Page : lock[q].on}}

=============================================================================
