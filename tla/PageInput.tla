------------------------------- MODULE PageInput -------------------------------
(***************************************************************************)
(* What the recorder's script (injected.ts) makes of the events of a page: *)
(* values typed into fields wait for the field to be left, a click on an   *)
(* option waits 300 ms for the change of a select that would say the same, *)
(* the click a browser makes of Enter is not recorded beside it, pickers   *)
(* are asked for and dismissed.  Reports go to the server in order, which  *)
(* drops one that looks like the last it recorded within 500 ms            *)
(* (deduplicate.ts), and which looks where a picker goes before it opens   *)
(* it.  A choice made in the client's picker goes into the page step by    *)
(* step, and each step may fail (runtime.ts).  Every act on the page is    *)
(* numbered; a report carries the number of its act.                       *)
(***************************************************************************)
EXTENDS RecorderValues, Naturals, Sequences, FiniteSets, SequencesExt

CONSTANTS
    Field,    \* editable fields
    Button,   \* what is clicked, or is sent Enter
    Label,    \* labels of options, and of the values of a select
    Value,    \* what is typed into fields
    FirstCandidate,  \* the locator the server puts first, of each of the above: of an
                     \* element with a role and no test id, the role without the name
    MaxActs   \* bound: acts on the page

ASSUME InputAssumption == None \notin Field \cup Button \cup Label /\ MaxActs \in Nat

VARIABLES
    acts,      \* how many acts there were
    focus,     \* the field that has the focus
    page,      \* the script's own variables
    reaction,  \* the label a page will set its select to, for the option clicked
    choosing,  \* a choice of the client's picker that is being put into the select
    stage,     \* how far it is
    sent,      \* reports on their way to the server
    locked,    \* the server's captcha lock of the page
    opening,   \* the picker of the last request, while the server looks where it goes
    overtaken, \* requests of each kind the server still looks at though it was told
               \* meanwhile to close them
    shown,     \* pickers the client was asked to show
    stray,     \* those of them that were overtaken
    recent,    \* 500 ms have not passed since the last recorded action
    recorded,  \* recorded actions
    excused,   \* acts that need not be recorded, with the reason at the action
    forgotten  \* pickers that stay shown though the page dropped its flag

pickerVars == <<opening, overtaken, shown, stray>>
serverVars == <<locked, pickerVars, recent, recorded>>
inputVars == <<acts, focus, page, reaction, choosing, stage, sent, serverVars, excused, forgotten>>

-----------------------------------------------------------------------------
Both == {"select", "date"}
Act == 1 .. MaxActs
NoHeld == [label |-> None, act |-> 0]
FreshPage(native) ==
    [dirty |-> <<>>, typed |-> [f \in Field |-> 0], value |-> [f \in Field |-> None],
     held |-> NoHeld, suppress |-> FALSE, locked |-> FALSE, open |-> {},
     native |-> native]

Report == [kind : {"fill", "click", "option", "select", "keypress", "choice"},
           what : Field \cup Button \cup Label, value : Value \cup {None}, act : Act]
       \cup [kind : {"request", "dismiss"}, what : Both, value : {None}, act : {0}]
       \cup [kind : {"left"}, what : {None}, value : {None}, act : {0}]

InputTypeOK ==
    /\ acts \in 0 .. MaxActs /\ focus \in Field \cup {None}
    /\ page.dirty \in Seq(Field) /\ IsInjective(page.dirty)
    /\ page.held \in [label : Label \cup {None}, act : 0 .. MaxActs]
    /\ page.open \subseteq Both
    /\ page.native => "select" \notin page.open
    /\ page.locked => page.dirty = <<>> /\ page.held = NoHeld /\ page.open = {} /\ ~page.suppress
    /\ reaction \in Label \cup {None}
    /\ sent \in Seq(Report) /\ recorded \in Seq(Report)
    /\ stage \in {"none", "asked", "told", "made", "failed", "unsaid"}
    /\ stage = "none" <=> choosing = NoHeld
    /\ opening \in {{}, {"select"}, {"date"}} /\ overtaken \in [Both -> 0 .. MaxActs]
    /\ stray \subseteq shown /\ shown \subseteq Both
    /\ excused \subseteq Act

InputInit ==
    /\ acts = 0 /\ focus = None
    /\ page \in {FreshPage(native) : native \in BOOLEAN}
    /\ reaction = None /\ choosing = NoHeld /\ stage = "none"
    /\ sent = <<>> /\ locked = FALSE /\ recent = FALSE
    /\ opening = {} /\ overtaken = [k \in Both |-> 0] /\ shown = {} /\ stray = {}
    /\ recorded = <<>> /\ excused = {} /\ forgotten = {}

-----------------------------------------------------------------------------
(* What handlers are made of: the page after, and what is reported *)

Made(kind, what, act) == [kind |-> kind, what |-> what, value |-> None, act |-> act]
About(kind, picker) == Made(kind, picker, 0)

Fill(p, f) == [kind |-> "fill", what |-> f, value |-> p.value[f], act |-> p.typed[f]]

\* flushInput of one field, and of every dirty field in the order they became so.
FlushField(p, f) == IF f \in ToSet(p.dirty) THEN <<Fill(p, f)>> ELSE <<>>
FieldFlushed(p, f) == [p EXCEPT !.dirty = RemoveFirst(@, f)]
FlushFields(p) == [i \in DOMAIN p.dirty |-> Fill(p, p.dirty[i])]
FieldsFlushed(p) == [p EXCEPT !.dirty = <<>>]

\* flushPendingOptionClick
FlushHeld(p) == IF p.held = NoHeld THEN <<>> ELSE <<Made("option", p.held.label, p.held.act)>>
HeldFlushed(p) == [p EXCEPT !.held = NoHeld]

\* As if a picker of a select were closed without word.
DismissalsOfDate(p, kinds) ==
    IF "date" \in p.open \cap kinds THEN <<About("dismiss", "date")>> ELSE <<>>
Dismissals(p, kinds) ==
    (IF "date" \in p.open \cap kinds THEN <<About("dismiss", "date")>> ELSE <<>>)
    \o (IF "select" \in p.open \cap kinds THEN <<About("dismiss", "select")>> ELSE <<>>)
Closed(p, kinds) == [p EXCEPT !.open = @ \ kinds]

\* A handler: it changes the page to p and reports; a page under a lock hears nothing.
Handled(p, reports) == page' = p /\ sent' = sent \o reports

Acts == acts < MaxActs /\ acts' = acts + 1
Excuse(some) == excused' = excused \cup (some \ {0})
Waiting(p) == {p.typed[f] : f \in ToSet(p.dirty)} \cup {p.held.act}

-----------------------------------------------------------------------------
(* What the user and the page do *)

\* A value is typed, or filled in by the browser without the focus.  What was
\* typed before and waits is part of the same value.
Type(f, v) ==
    /\ Acts
    /\ IF page.locked
       THEN page' = page /\ Excuse({acts'})
       ELSE /\ page' = [page EXCEPT !.typed[f] = acts', !.value[f] = v,
                          !.dirty = IF f \in ToSet(@) THEN @ ELSE Append(@, f)]
            /\ Excuse(IF f \in ToSet(page.dirty) THEN {page.typed[f]} ELSE {})
    /\ UNCHANGED <<focus, reaction, choosing, stage, sent, serverVars, forgotten>>

\* The focus goes elsewhere: the field that had it is flushed.
MovesFocus(to) ==
    /\ to # focus /\ focus' = to
    /\ IF page.locked \/ focus = None THEN UNCHANGED <<page, sent>>
       ELSE Handled(FieldFlushed(page, focus), FlushField(page, focus))
    /\ UNCHANGED <<acts, reaction, choosing, stage, serverVars, excused, forgotten>>

\* A click that is recorded closes pickers and flushes what was typed before.
BeforeClick(p) == Dismissals(p, Both) \o FlushFields(p)
AfterClick(p) == FieldsFlushed(Closed(p, Both))

\* As if the click were reported before the option it follows.
ClickedFirst(p, b, act) == <<Made("click", b, act)>> \o FlushHeld(p)
Clicked(p, b, act) == FlushHeld(p) \o <<Made("click", b, act)>>

ClickButton(b) ==
    /\ Acts
    /\ IF page.locked THEN UNCHANGED <<page, sent>> /\ Excuse({acts'})
       ELSE /\ Handled(HeldFlushed(AfterClick(page)),
                       BeforeClick(page) \o Clicked(page, b, acts'))
            /\ UNCHANGED excused
    /\ UNCHANGED <<focus, reaction, choosing, stage, serverVars, forgotten>>

\* holdOptionClick: the one held before is reported.  The page may answer by
\* changing a select, to that label or to another.
ClickOption(l, answer) ==
    /\ Acts /\ reaction = None /\ reaction' = answer
    /\ IF page.locked THEN UNCHANGED <<page, sent>> /\ Excuse({acts'})
       ELSE /\ Handled([AfterClick(page) EXCEPT !.held = [label |-> l, act |-> acts']],
                       BeforeClick(page) \o FlushHeld(page))
            /\ UNCHANGED excused
    /\ UNCHANGED <<focus, choosing, stage, serverVars, forgotten>>

\* 300 ms after the click on an option.
HeldExpires ==
    /\ page.held # NoHeld
    /\ Handled(HeldFlushed(page), FlushHeld(page))
    /\ UNCHANGED <<acts, focus, reaction, choosing, stage, serverVars, excused, forgotten>>

\* recordControlChange: a held option of the same label is the same act.  While the
\* server puts a choice in, it has the script report no change.
Silent == stage \in {"told", "made", "failed"}
OfHeld(p, l) == p.held.label = l
SelectChanges(l) ==
    /\ Acts
    /\ forgotten' = IF page.locked THEN forgotten ELSE forgotten \cup (page.open \cap {"select"})
    /\ LET held == IF OfHeld(page, l) THEN <<>> ELSE FlushHeld(page)
           after == HeldFlushed(Closed(page, {"select"}))
           same == IF OfHeld(page, l) THEN {page.held.act} ELSE {}
       IN  IF page.locked THEN UNCHANGED <<page, sent>> /\ Excuse({acts'})
           ELSE IF Silent THEN Handled(after, held) /\ Excuse(same \cup {acts'})
           ELSE /\ Handled(FieldsFlushed(after),
                           held \o FlushFields(page) \o <<Made("select", l, acts')>>)
                /\ Excuse(same)

\* The user changes the select, or the page does in answer to a click on an option.
UserSelects(l) == SelectChanges(l) /\ UNCHANGED <<focus, reaction, choosing, stage, serverVars>>
PageSelects ==
    /\ reaction # None /\ reaction' = None
    /\ SelectChanges(reaction)
    /\ UNCHANGED <<focus, choosing, stage, serverVars>>

\* A click on a select or a date field asks for a picker, unless selects are native.
ClickSelect ==
    /\ Acts /\ Excuse({acts'})
    /\ IF page.locked THEN UNCHANGED <<page, sent, forgotten>>
       ELSE IF page.native
       THEN Handled(Closed(page, Both), Dismissals(page, {"date"})) /\ UNCHANGED forgotten
       ELSE /\ Handled([page EXCEPT !.open = {"select"}],
                       Dismissals(page, Both) \o <<About("request", "select")>>)
            /\ forgotten' = {}
    /\ UNCHANGED <<focus, reaction, choosing, stage, serverVars>>

ClickDate ==
    /\ Acts /\ Excuse({acts'})
    /\ IF page.locked THEN UNCHANGED <<page, sent, forgotten>>
       ELSE /\ Handled([page EXCEPT !.open = @ \cup {"date"}], <<About("request", "date")>>)
            /\ forgotten' = {}
    /\ UNCHANGED <<focus, reaction, choosing, stage, serverVars>>

\* A date is put into its field: the page takes its picker for closed.
DateChanges ==
    /\ ~page.locked /\ "date" \in page.open
    /\ page' = Closed(page, {"date"}) /\ forgotten' = forgotten \cup {"date"}
    /\ UNCHANGED <<acts, focus, reaction, choosing, stage, sent, serverVars, excused>>

EscapeOrScroll(kinds) ==
    /\ ~page.locked /\ page.open \cap kinds # {}
    /\ Handled(Closed(page, kinds), Dismissals(page, kinds))
    /\ UNCHANGED <<acts, focus, reaction, choosing, stage, serverVars, excused, forgotten>>

\* The click the browser makes of Enter: it is swallowed while suppressKeyboardClick
\* is set, which it resets.
\* (As if it were not.)
OfEnterToo(p, b, act) == <<Made("click", b, act)>>
OfEnter(p, b, act) == IF p.suppress THEN <<>> ELSE <<Made("click", b, act)>>

\* Enter in a field or on a button, perhaps followed, in the same task, by a click
\* on a button.  A repeated one is not recorded.
Enter(t, repeated, clicked) ==
    /\ Acts
    /\ IF page.locked THEN UNCHANGED <<page, sent>> /\ Excuse({acts'})
       ELSE LET down == [page EXCEPT !.suppress = TRUE]
                pressed == IF repeated THEN down ELSE FieldFlushed(down, t)
                key == IF repeated THEN <<>> ELSE FlushField(page, t) \o <<Made("keypress", t, acts')>>
            IN  /\ Handled([pressed EXCEPT !.suppress = clicked = None],
                           key \o (IF clicked = None THEN <<>> ELSE OfEnter(down, clicked, acts')))
                /\ Excuse(IF repeated THEN {acts'} ELSE {})
    /\ UNCHANGED <<focus, reaction, choosing, stage, serverVars, forgotten>>

SuppressEnds ==
    /\ page.suppress /\ page' = [page EXCEPT !.suppress = FALSE]
    /\ UNCHANGED <<acts, focus, reaction, choosing, stage, sent, serverVars, excused, forgotten>>

\* (As if a lock left in the page what waits there.)
Abandon(p) ==
    /\ page' = p
    /\ Excuse(Waiting(page))
    /\ forgotten' = forgotten \cup page.open

\* The page is left: what waits in its script is never reported, and neither is a
\* choice that is not yet in its select.  The server sees the navigation after
\* what the page has reported.
Unload ==
    LET lost == IF stage \in {"asked", "told", "failed"} THEN {choosing.act} ELSE {} IN
    /\ Acts /\ page' = FreshPage(page.native) /\ Excuse(Waiting(page) \cup lost \cup {acts'})
    /\ choosing' = IF lost = {} THEN choosing ELSE NoHeld
    /\ stage' = IF lost # {} THEN "none" ELSE IF stage = "made" THEN "unsaid" ELSE stage
    /\ focus' = None /\ reaction' = None
    /\ sent' = Append(sent, Made("left", None, 0))
    /\ UNCHANGED <<serverVars, forgotten>>

-----------------------------------------------------------------------------
(* The server: what it records *)

\* actionFingerprint: type, first locator candidate and payload.
Fingerprint(r) ==
    CASE r.kind = "fill" -> <<"fill", FirstCandidate[r.what], r.value>>
      [] r.kind \in {"click", "option"} -> <<"click", FirstCandidate[r.what]>>
      [] r.kind = "keypress" -> <<"keypress", FirstCandidate[r.what]>>
      [] OTHER -> <<"select", r.what>>
Repeats(r) == recent /\ recorded # <<>> /\ Fingerprint(Last(recorded)) = Fingerprint(r)

\* forwardAction
Forward(r) ==
    IF locked \/ Repeats(r)
    THEN Excuse({r.act}) /\ UNCHANGED <<recent, recorded>>
    ELSE recorded' = Append(recorded, r) /\ recent' = TRUE /\ UNCHANGED excused

WindowPasses ==
    /\ recent /\ recent' = FALSE
    /\ UNCHANGED <<acts, focus, page, reaction, choosing, stage, sent, locked, pickerVars, recorded,
                   excused, forgotten>>

-----------------------------------------------------------------------------
(* The server: pickers *)

\* Pickers that are shown are closed; of those it still looks at it knows nothing.
Dismiss(kinds) ==
    /\ shown' = shown \ kinds /\ stray' = stray \ kinds
    /\ opening' = opening \ kinds
    /\ overtaken' = [k \in Both |-> overtaken[k] + (IF k \in opening \cap kinds THEN 1 ELSE 0)]

\* A request closes what is shown, and the server looks where the picker goes.
RequestPicker(k) ==
    /\ shown' = {} /\ stray' = {} /\ opening' = {k}
    /\ overtaken' = [o \in Both |-> overtaken[o] + (IF o \in opening THEN 1 ELSE 0)]

\* It knows, and opens it.
Opens ==
    /\ opening # {} /\ opening' = {}
    /\ shown' = shown \cup opening /\ stray' = stray \ opening
    /\ UNCHANGED overtaken

\* So it does for one it was told to close while it looked.
OpensLate(k) ==
    /\ overtaken[k] > 0 /\ overtaken' = [overtaken EXCEPT ![k] = @ - 1]
    /\ shown' = shown \cup {k} /\ stray' = stray \cup ({k} \ shown)
    /\ UNCHANGED opening

\* It cannot tell, the page having gone on.
OpeningFails(k) ==
    /\ \/ k \in opening /\ opening' = opening \ {k} /\ UNCHANGED overtaken
       \/ overtaken[k] > 0 /\ overtaken' = [overtaken EXCEPT ![k] = @ - 1] /\ UNCHANGED opening
    /\ UNCHANGED <<shown, stray>>

Looked ==
    /\ Opens \/ \E k \in Both : OpensLate(k) \/ OpeningFails(k)
    /\ UNCHANGED <<acts, focus, page, reaction, choosing, stage, sent, locked, recent, recorded,
                   excused, forgotten>>

\* A report, or that the page was left, reaches the server.
Hears ==
    /\ sent # <<>> /\ sent' = Tail(sent)
    /\ LET r == Head(sent) IN
       \/ r.kind = "left" /\ Dismiss(Both) /\ UNCHANGED <<recent, recorded, excused>>
       \/ /\ r.kind \in {"request", "dismiss"} /\ UNCHANGED <<recent, recorded, excused>>
          /\ IF locked THEN UNCHANGED pickerVars
             ELSE IF r.kind = "request" THEN RequestPicker(r.what) ELSE Dismiss({r.what})
       \/ /\ r.kind \notin {"left", "request", "dismiss"}
          /\ Forward(r) /\ UNCHANGED pickerVars
    /\ UNCHANGED <<acts, focus, page, reaction, choosing, stage, locked, forgotten>>

\* The client's picker is closed by its user.
CloseShown(k) ==
    /\ k \in shown /\ shown' = shown \ {k} /\ stray' = stray \ {k}
    /\ UNCHANGED <<opening, overtaken>>
UserCloses(k) ==
    /\ CloseShown(k)
    /\ UNCHANGED <<acts, focus, page, reaction, choosing, stage, sent, locked, recent, recorded,
                   excused, forgotten>>

\* selectPickerOption: the user chooses in it, and the server looks up the option.
Choose(l) ==
    /\ CloseShown("select") /\ choosing = NoHeld /\ Acts
    /\ choosing' = [label |-> l, act |-> acts'] /\ stage' = "asked"
    /\ UNCHANGED <<focus, page, reaction, sent, locked, recent, recorded, excused, forgotten>>

\* The option is there, and the script is told to report no change.
TellSilence ==
    /\ stage = "asked" /\ stage' = "told"
    /\ UNCHANGED <<acts, focus, page, reaction, choosing, sent, serverVars, excused, forgotten>>

\* The change is made in the page; that it was may not be learned.
ChoiceMade ==
    LET same == IF OfHeld(page, choosing.label) THEN {page.held.act} ELSE {} IN
    /\ stage = "told" /\ stage' \in {"made", "failed"}
    /\ IF page.locked THEN UNCHANGED <<page, sent>>
       ELSE Handled(HeldFlushed(Closed(page, {"select"})),
                    IF OfHeld(page, choosing.label) THEN <<>> ELSE FlushHeld(page))
    /\ Excuse(same) /\ forgotten' = forgotten \cup (page.open \cap {"select"})
    /\ UNCHANGED <<acts, focus, reaction, choosing, serverVars>>

ChoiceRefused ==
    /\ stage = "told" /\ stage' = "failed"
    /\ UNCHANGED <<acts, focus, page, reaction, choosing, sent, serverVars, excused, forgotten>>

\* The script may report changes again.
EndSilence ==
    /\ stage = "made" /\ stage' = "unsaid"
    /\ UNCHANGED <<acts, focus, page, reaction, choosing, sent, serverVars, excused, forgotten>>

\* There is no such option, it is disabled, or the browser did not apply it: the
\* choice ends as an error, and is not recorded.
ChoiceFails ==
    /\ stage \in {"asked", "failed"} /\ stage' = "none" /\ choosing' = NoHeld
    /\ Excuse({choosing.act})
    /\ UNCHANGED <<acts, focus, page, reaction, sent, serverVars, forgotten>>

\* The choice is recorded.
Chosen ==
    /\ stage = "unsaid" /\ stage' = "none" /\ choosing' = NoHeld
    /\ Forward(Made("choice", choosing.label, choosing.act))
    /\ UNCHANGED <<acts, focus, page, reaction, sent, locked, pickerVars, forgotten>>

-----------------------------------------------------------------------------
(* The server: the captcha lock *)

\* It closes pickers and is then set in the page, which drops what waits.
Lock ==
    /\ ~locked /\ locked' = TRUE /\ Dismiss(Both)
    /\ UNCHANGED <<acts, focus, page, reaction, choosing, stage, sent, recent, recorded, excused,
                   forgotten>>
Unlock ==
    /\ locked /\ locked' = FALSE
    /\ UNCHANGED <<acts, focus, page, reaction, choosing, stage, sent, pickerVars, recent, recorded,
                   excused, forgotten>>

LockReachesPage ==
    /\ page.locked # locked
    /\ IF locked THEN Abandon([FreshPage(page.native) EXCEPT !.locked = TRUE])
       ELSE page' = [page EXCEPT !.locked = FALSE] /\ UNCHANGED <<excused, forgotten>>
    /\ UNCHANGED <<acts, focus, reaction, choosing, stage, sent, serverVars>>

InputNext ==
    \/ \E f \in Field, v \in Value : Type(f, v)
    \/ \E to \in Field \cup {None} : MovesFocus(to)
    \/ \E b \in Button : ClickButton(b)
    \/ \E l \in Label : \/ \E answer \in Label \cup {None} : ClickOption(l, answer)
                        \/ UserSelects(l) \/ Choose(l)
    \/ HeldExpires \/ PageSelects
    \/ TellSilence \/ ChoiceMade \/ ChoiceRefused \/ EndSilence \/ ChoiceFails \/ Chosen
    \/ ClickSelect \/ ClickDate \/ DateChanges
    \/ EscapeOrScroll(Both) \/ EscapeOrScroll({"select"})
    \/ \E t \in Field \cup Button, repeated \in BOOLEAN, clicked \in Button \cup {None} :
         Enter(t, repeated, clicked)
    \/ SuppressEnds \/ Unload
    \/ Hears \/ Looked \/ WindowPasses
    \/ \E k \in Both : UserCloses(k)
    \/ Lock \/ Unlock \/ LockReachesPage

InputSpec == InputInit /\ [][InputNext]_inputVars

-----------------------------------------------------------------------------
(* Properties *)

\* Acts are recorded in the order they were made, but for two: a value still in
\* its field, or an option still held, is overtaken by an Enter or by a value of
\* another field.  No click and no selection overtakes anything, and none but a
\* held option is overtaken; choices of the client's picker go their own way.
OrderKept ==
    \A i, j \in DOMAIN recorded :
        i < j /\ recorded[i].act > recorded[j].act =>
            \/ /\ recorded[j].kind \in {"fill", "option"}
               /\ recorded[i].kind \in {"fill", "keypress"}
            \/ "choice" \in {recorded[i].kind, recorded[j].kind}

\* When nothing is on its way, every act is recorded exactly once: an Enter is
\* not recorded again as a click, an option not again as the selection it made in
\* time, and what was held or typed is never dropped, except by a lock, by leaving
\* the page, as a choice that failed, or because it looks to the deduplicator like
\* the action recorded within the last 500 ms.
Quiet == sent = <<>> /\ page.dirty = <<>> /\ page.held = NoHeld /\ choosing = NoHeld
EachActOnce ==
    /\ \A i, j \in DOMAIN recorded : i # j => recorded[i].act # recorded[j].act
    /\ Quiet => (1 .. acts) \ {recorded[i].act : i \in DOMAIN recorded} \subseteq excused

\* A picker the client shows is one the page would dismiss, unless its value
\* changed in the page, or the page was locked, while it was open; or the server
\* was told to close it before it opened it: that it opens it then, and nothing in
\* the page closes it, is what stray is for.
ShownIsKnown == sent = <<>> => shown \subseteq page.open \cup forgotten \cup stray

\* What the deduplicator drops of a page that is not locked is a second report of
\* the same: the same kind of act on the same element, with the same value.  (The
\* code drops more, for elements of one role look alike to it: page_input_alike.cfg.)
OnlyIdenticalDropped ==
    [][LET r == Head(sent)
           last == Last(recorded)
       IN  sent # <<>> /\ sent' = Tail(sent) /\ ~locked
             /\ r.kind \notin {"left", "request", "dismiss"} /\ recorded' = recorded =>
           recorded # <<>> /\ <<r.kind, r.what, r.value>> = <<last.kind, last.what, last.value>>]_inputVars

=============================================================================
