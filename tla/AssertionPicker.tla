---------------------------- MODULE AssertionPicker ----------------------------
(***************************************************************************)
(* The assertion picker of the recorder's script (injected.ts), one copy in *)
(* each frame of the page, and the half of it in RecordingRuntime           *)
(* (runtime.ts): the request is set in one frame after the other, frames    *)
(* tell each other by messages which of them shows the panel, and what the  *)
(* user picks travels to the server, which may have moved on.               *)
(***************************************************************************)
EXTENDS PageStructure

CONSTANTS
    Top, Child,     \* the top frame and the frames in it
    Whole,          \* the document every frame starts with
    Pointable,      \* elements the user points at
    Changing,       \* elements that come and go, or are hidden and shown
    MaxRequests,    \* bound: picks the client asks for, with the changes of
                    \* the documents
    MaxPosts        \* bound: messages between two frames under way

ASSUME PickerAssumption == Top \notin Child

Frame == {Top} \cup Child
NoRequest == 0
NoElement == 0
NoGroup == [parent |-> Body, description |-> [root |-> <<>>, tokens |-> {}], members |-> {}]

VARIABLES
    requests,  \* how many picks were asked for; the last one has this number
    pending,   \* pendingAssertionPick of the server
    setting,   \* calls that set the request of a frame, not yet made
    panel,     \* per frame: the picker's own variables
    doc,       \* per frame: its document
    behind,    \* frames whose document changed since their picker looked at it
    changes,
    toTop, fromTop,  \* messages between a child and the top frame
    picked     \* what the page reports to the server

pickVars == <<requests, pending, setting, panel, doc, behind, changes, toTop, fromTop, picked>>
pickServerVars == <<requests, pending, setting>>
docVars == <<doc, changes>>
postVars == <<toTop, fromTop>>

-----------------------------------------------------------------------------
\* teardownAssertionPickerPanel, and the request that is set with it.
TornDown(request) ==
    [request |-> request, active |-> FALSE, mounted |-> FALSE, seed |-> NoElement,
     groups |-> <<>>, frozen |-> NoGroup, due |-> FALSE]

PickTypeOK ==
    /\ requests \in 0 .. MaxRequests /\ pending \in {NoRequest, requests}
    /\ setting \in [Frame -> Seq(0 .. MaxRequests)]
    /\ \A f \in Frame :
         LET p == panel[f] IN
         /\ p.request \in 0 .. requests
         /\ p.active => p.mounted
         /\ p.frozen # NoGroup => p.groups = <<p.frozen>> /\ p.seed # NoElement
         /\ p.request = NoRequest => p = TornDown(NoRequest)
    /\ doc \in [Frame -> Document]
    /\ behind \subseteq Frame
    /\ \A c \in Child : toTop[c] \in Seq(1 .. MaxRequests) /\ Len(toTop[c]) <= MaxPosts

PickInit ==
    /\ requests = 0 /\ pending = NoRequest
    /\ setting = [f \in Frame |-> <<>>]
    /\ panel = [f \in Frame |-> TornDown(NoRequest)]
    /\ doc = [f \in Frame |-> Whole]
    /\ behind = {} /\ changes = 0
    /\ toTop = [c \in Child |-> <<>>] /\ fromTop = [c \in Child |-> <<>>]
    /\ picked = <<>>

-----------------------------------------------------------------------------
(* The picker of a frame *)

Frozen(p) == p.frozen # NoGroup

\* refreshAssertionGroups: a frozen group keeps its parent and description.
Refreshed(p, d) ==
    IF Frozen(p)
    THEN LET g == GroupFor(d, p.frozen.parent, p.frozen.description) IN
         [p EXCEPT !.frozen = g, !.groups = <<g>>]
    ELSE IF p.seed \in d.present
    THEN [p EXCEPT !.groups = DiscoverRepeatedGroups(d, p.seed)]
    ELSE [p EXCEPT !.seed = NoElement, !.groups = <<>>]

\* mountAssertionPickerPanel: the card is built and the document observed.
Mounted(p) == [p EXCEPT !.mounted = TRUE]

\* setAssertionPickerPanelActive, in a frame that has a request.
Active(p, d) ==
    LET shown == [Mounted(p) EXCEPT !.active = TRUE] IN
    IF p.seed = NoElement THEN shown ELSE Refreshed(shown, d)
Inactive(p) == [p EXCEPT !.active = FALSE]
ActiveIfTold(p, d, on) == IF on THEN Active(p, d) ELSE p
ActiveIf(p, d, on) == IF on THEN Active(p, d) ELSE Inactive(p)

\* postAssertionPickerFrameState of the top frame: f shows the panel.
Broadcast(request, f) ==
    /\ \A c \in Child : Len(fromTop[c]) < MaxPosts
    /\ fromTop' = [c \in Child |-> Append(fromTop[c], [request |-> request, frame |-> f])]

\* The next setAssertionPicker call is made in f.  The top frame shows the panel.
SetPicker(f) ==
    /\ setting[f] # <<>>
    /\ LET r == Head(setting[f]) IN
       /\ setting' = [setting EXCEPT ![f] = Tail(@)]
       /\ IF f = Top /\ r # NoRequest
          THEN panel' = [panel EXCEPT ![f] = Active(TornDown(r), doc[f])] /\ Broadcast(r, Top)
          ELSE panel' = [panel EXCEPT ![f] = TornDown(r)] /\ UNCHANGED fromTop
    /\ behind' = behind \ {f}
    /\ UNCHANGED <<requests, pending, docVars, toTop, picked>>

\* A child asked to show the panel; the top frame takes it only for its own request.
TopHears(c) ==
    /\ toTop[c] # <<>>
    /\ toTop' = [toTop EXCEPT ![c] = Tail(@)]
    /\ IF Head(toTop[c]) = panel[Top].request
       THEN panel' = [panel EXCEPT ![Top] = Inactive(@)] /\ Broadcast(Head(toTop[c]), c)
       ELSE UNCHANGED <<panel, fromTop>>
    /\ UNCHANGED <<pickServerVars, docVars, behind, picked>>

ChildHears(c) ==
    /\ fromTop[c] # <<>>
    /\ fromTop' = [fromTop EXCEPT ![c] = Tail(@)]
    /\ LET m == Head(fromTop[c]) IN
       IF m.request = panel[c].request
       THEN /\ panel' = [panel EXCEPT ![c] = ActiveIf(@, doc[c], m.frame = c)]
            /\ behind' = IF m.frame = c /\ panel[c].seed # NoElement THEN behind \ {c} ELSE behind
       ELSE UNCHANGED <<panel, behind>>
    /\ UNCHANGED <<pickServerVars, docVars, toTop, picked>>

\* activateCurrentAssertionPickerFrame: the others are told, unless it is shown already.
Announce(f) ==
    IF panel[f].active THEN UNCHANGED postVars
    ELSE IF f = Top THEN Broadcast(panel[f].request, Top) /\ UNCHANGED toTop
    ELSE /\ Len(toTop[f]) < MaxPosts
         /\ toTop' = [toTop EXCEPT ![f] = Append(@, panel[f].request)]
         /\ UNCHANGED fromTop

PointerOver(f, e) ==
    /\ panel[f].request # NoRequest /\ ~Frozen(panel[f])
    /\ e \in doc[f].present /\ IsVisible(doc[f], e)
    /\ Announce(f)
    /\ panel' = [panel EXCEPT ![f] = Refreshed([Active(@, doc[f]) EXCEPT !.seed = e], doc[f])]
    /\ behind' = behind \ {f}
    /\ UNCHANGED <<pickServerVars, docVars, picked>>

\* freezeAssertionGroup: by a click on a member, or on the row of a group.
Freeze(p, i) == [p EXCEPT !.frozen = p.groups[i], !.groups = <<p.groups[i]>>]

OnPreview(p, e) == p.groups # <<>> /\ \E m \in Head(p.groups).members : Within(m, e)

ClickMember(f, e) ==
    /\ panel[f].request # NoRequest /\ ~Frozen(panel[f])
    /\ e \in doc[f].present /\ IsVisible(doc[f], e) /\ OnPreview(panel[f], e)
    /\ panel' = [panel EXCEPT ![f] = Freeze([@ EXCEPT !.seed = e], 1)]
    /\ UNCHANGED <<pickServerVars, docVars, behind, postVars, picked>>

ClickRow(f, i) ==
    /\ panel[f].active /\ i \in DOMAIN panel[f].groups
    /\ panel' = [panel EXCEPT ![f] = Freeze(@, i)]
    /\ UNCHANGED <<pickServerVars, docVars, behind, postVars, picked>>

\* The picker is closed here at once, and what was picked is reported.
ReportPick(f, what) ==
    /\ panel' = [panel EXCEPT ![f] = TornDown(NoRequest)]
    /\ picked' = Append(picked, [request |-> panel[f].request, pick |-> what])
    /\ behind' = behind \ {f}
    /\ UNCHANGED <<pickServerVars, docVars, postVars>>

\* A click where no group was previewed, with no group frozen.
ClickExact(f, e) ==
    /\ panel[f].request # NoRequest /\ ~Frozen(panel[f])
    /\ e \in doc[f].present /\ IsVisible(doc[f], e) /\ ~OnPreview(panel[f], e)
    /\ ReportPick(f, [kind |-> "selected", frame |-> f, element |-> e])

UseExact(f) ==
    /\ panel[f].active /\ Frozen(panel[f]) /\ panel[f].seed \in doc[f].present
    /\ ReportPick(f, [kind |-> "selected", frame |-> f, element |-> panel[f].seed])

\* Use matched group: open as long as two members were counted.
Usable(p) == Frozen(p) /\ Cardinality(p.frozen.members) >= 2
UseGroup(f) ==
    /\ panel[f].active /\ Usable(panel[f])
    /\ ReportPick(f, [kind |-> "group", frame |-> f, group |-> panel[f].frozen])

ContinuePicking(f) ==
    /\ panel[f].active /\ Frozen(panel[f])
    /\ panel' = [panel EXCEPT ![f] = [@ EXCEPT !.frozen = NoGroup, !.seed = NoElement, !.groups = <<>>]]
    /\ UNCHANGED <<pickServerVars, docVars, behind, postVars, picked>>

\* Escape, or the Cancel button.
Cancel(f) ==
    /\ panel[f].request # NoRequest
    /\ ReportPick(f, [kind |-> "cancelled"])

-----------------------------------------------------------------------------
(* The document *)

WithSubtree(d, e) == {x \in Element : Within(e, x)}
Toggled(d, e, part) == IF e \in d[part] THEN [d EXCEPT ![part] = @ \ {e}]
                       ELSE [d EXCEPT ![part] = @ \cup {e}]
Removed(d, e) == [d EXCEPT !.present = @ \ WithSubtree(d, e)]

\* A change of children, class or aria-hidden is seen by the observer, which
\* has the groups looked at again in the next animation frame; one of style is not.
Changed(f, d, seen) ==
    /\ changes + requests < MaxRequests /\ changes' = changes + 1
    /\ doc' = [doc EXCEPT ![f] = d]
    /\ behind' = behind \cup {f}
    /\ panel' = [panel EXCEPT ![f].due = @ \/ (seen /\ panel[f].mounted)]
    /\ UNCHANGED <<pickServerVars, postVars, picked>>

\* (One that changes before the picker looks at it is another document to start with.)
DocumentChanges(f, e) ==
    /\ panel[f].mounted /\ e \in doc[f].present
    /\ \/ Changed(f, Removed(doc[f], e), TRUE)
       \/ Changed(f, Toggled(doc[f], e, "aria"), TRUE)
       \/ \E seen \in BOOLEAN : Changed(f, Toggled(doc[f], e, "undisplayed"), seen)

Refresh(f) ==
    /\ panel[f].due
    /\ panel' = [panel EXCEPT ![f] = Refreshed([@ EXCEPT !.due = FALSE], doc[f])]
    /\ behind' = behind \ {f}
    /\ UNCHANGED <<pickServerVars, docVars, postVars, picked>>

\* A child frame loads another page: its picker does not know the request.
Reloads(c) ==
    /\ changes + requests < MaxRequests /\ changes' = changes + 1
    /\ doc' = [doc EXCEPT ![c] = Whole] /\ behind' = behind \ {c}
    /\ panel' = [panel EXCEPT ![c] = TornDown(NoRequest)]
    /\ setting' = [setting EXCEPT ![c] = <<>>]
    /\ toTop' = [toTop EXCEPT ![c] = <<>>] /\ fromTop' = [fromTop EXCEPT ![c] = <<>>]
    /\ UNCHANGED <<requests, pending, picked>>

-----------------------------------------------------------------------------
(* The server *)

InEveryFrame(calls) == setting' = [f \in Frame |-> setting[f] \o calls]

\* A pick under way is cancelled first.
StartPick ==
    /\ requests + changes < MaxRequests
    /\ requests' = requests + 1 /\ pending' = requests + 1
    /\ InEveryFrame(IF pending = NoRequest THEN <<requests + 1>> ELSE <<NoRequest, requests + 1>>)
    /\ UNCHANGED <<panel, docVars, behind, postVars, picked>>

CancelPick ==
    /\ pending # NoRequest
    /\ pending' = NoRequest /\ InEveryFrame(<<NoRequest>>)
    /\ UNCHANGED <<requests, panel, docVars, behind, postVars, picked>>

\* Whatever was picked for the pending request ends it in every frame.
HearsPick ==
    /\ picked # <<>> /\ picked' = Tail(picked)
    /\ IF Head(picked).request = pending
       THEN pending' = NoRequest /\ InEveryFrame(<<NoRequest>>)
       ELSE UNCHANGED <<pending, setting>>
    /\ UNCHANGED <<requests, panel, docVars, behind, postVars>>

PickNext ==
    \/ StartPick \/ CancelPick \/ HearsPick
    \/ \E f \in Frame :
         \/ SetPicker(f) \/ Refresh(f)
         \/ \E e \in Pointable : PointerOver(f, e) \/ ClickMember(f, e) \/ ClickExact(f, e)
         \/ \E i \in 1 .. MaxAncestors : ClickRow(f, i)
         \/ UseExact(f) \/ UseGroup(f) \/ ContinuePicking(f) \/ Cancel(f)
         \/ \E e \in Changing : DocumentChanges(f, e)
    \/ \E c \in Child : TopHears(c) \/ ChildHears(c) \/ Reloads(c)

PickSpec == PickInit /\ [][PickNext]_pickVars

-----------------------------------------------------------------------------
(* Properties *)

Settled ==
    /\ picked = <<>> /\ \A f \in Frame : setting[f] = <<>>
    /\ \A c \in Child : toTop[c] = <<>> /\ fromTop[c] = <<>>

\* Once every call and message has arrived, at most one frame shows the panel,
\* and only while the server waits for a pick: frames that activate themselves,
\* messages of an earlier request and late calls never leave a second panel
\* or one that nobody listens to.
OnePanel ==
    Settled =>
        /\ \A f, g \in Frame : panel[f].active /\ panel[g].active => f = g
        /\ \A f \in Frame : panel[f].request \in {NoRequest, pending}

\* What is picked is found again: a group that is used while the panel has seen
\* the last change of its document is matched by the replay's group assertion
\* there, which rejects it only for the one thing the panel does not look at, the
\* number of elements with its tag and role anywhere in the document; and the CSS
\* and XPath candidates of an exactly picked element select it alone, unless its
\* id is shared.
PickIsFound ==
    [][\A f \in Frame :
         LET pick == Last(picked').pick IN
         Len(picked') > Len(picked) /\ pick.kind # "cancelled" /\ pick.frame = f =>
            IF pick.kind = "group"
            THEN f \notin behind =>
                   LET verdict == GroupVerdict(doc[f], pick.group.description) IN
                   IF TooMany(doc[f], pick.group.description)
                   THEN verdict = "candidate_limit_exceeded" ELSE verdict = "passed"
            ELSE /\ XPath(doc[f], pick.element) = {pick.element}
                 /\ \/ CssPath(doc[f], pick.element) = {pick.element}
                    \/ \E x \in Element \ {pick.element} : IdOf[x] # NoId /\ IdOf[x] = IdOf[pick.element]]_pickVars

=============================================================================
