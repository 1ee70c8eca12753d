---------------------------- MODULE EditorWorkspace ----------------------------
(***************************************************************************)
(* The workflow editor (useWorkspaceController.ts over workflow.reducer.ts)*)
(* beside the Library of another tab, over one store.  Steps are recorded  *)
(* while a save is in flight; a save keeps what it was given and, when the *)
(* workflow has moved on since, its answer only takes over the revision.   *)
(* A finish waits for the recording to stop and sends what the last render *)
(* showed.  The dialog of a replay asks for the profile of the page's URL. *)
(***************************************************************************)
EXTENDS LibraryWorkspace

CONSTANTS
    Recorded,   \* ids of the steps a recording or an assertion adds
    UrlProfile, \* the profile the page was opened with
    Elsewhere   \* bindings a third screen chooses

ASSUME EditorAssumption ==
    /\ {"editor", "lib", "run"} \subseteq Caller
    /\ IsFiniteSet(StepId) /\ Recorded \subseteq StepId /\ "none" \notin StepId
    /\ UrlProfile \in Profile /\ Elsewhere \subseteq Binding

VARIABLES
    ed,         \* what the editor holds
    dialog,     \* the dialog of a replay
    asks,       \* fetches of the profile in flight: the number of the request
    mine        \* steps added here that the user neither deleted nor gave up

edVars == <<ed, dialog, asks, mine>>
vars == <<storeVars, libVars, acts, edVars>>

None == [id |-> "none"]
NoUndo == [step |-> None, at |-> 0]

EdInit ==
    /\ ed = [wf |-> NoDoc, shown |-> NoDoc, dirty |-> FALSE, undo |-> NoUndo,
             status |-> "loading", loaded |-> FALSE, moved |-> FALSE, stored |-> {},
             recording |-> "off", finishing |-> FALSE, left |-> FALSE]
    /\ dialog = [open |-> FALSE, profile |-> 0, status |-> "idle"]
    /\ asks = {} /\ mine = {}

-----------------------------------------------------------------------------
\* The reducer.  Every change makes a new workflow object, so that the workflow has moved
\* on from the one a save was given; a render shows it.
Changed(steps) == [ed EXCEPT !.wf.steps = steps, !.moved = TRUE, !.dirty = TRUE]
Rendered(e) == [e EXCEPT !.shown = e.wf]
InSight == ed.shown = ed.wf

Load(doc) ==
    [ed EXCEPT !.wf = doc, !.moved = TRUE, !.dirty = FALSE, !.undo = NoUndo,
               !.stored = Range(doc.steps)]
NewStep(id) == [id |-> id, bind |-> "recorded", on |-> TRUE]
Index(steps, id) == CHOOSE i \in DOMAIN steps : steps[i].id = id
Switched(steps, id) ==
    [i \in DOMAIN steps |-> IF steps[i].id = id THEN [steps[i] EXCEPT !.on = ~@] ELSE steps[i]]
Move(steps, from, to) ==
    LET rest == RemoveAt(steps, from) IN InsertAt(rest, to, steps[from])
Undone(steps) ==
    LET at == IF ed.undo.at > Len(steps) + 1 THEN Len(steps) + 1 ELSE ed.undo.at IN
    InsertAt(steps, at, ed.undo.step)

\* mutant: the answer replaces the workflow, whatever was recorded meanwhile
SavedReplaces(doc) == [ed EXCEPT !.wf = doc, !.dirty = FALSE, !.undo = NoUndo, !.stored = Range(doc.steps)]
\* The answer of a save: base is the workflow the save was given.
Saved(doc) ==
    IF ed.moved
    THEN [ed EXCEPT !.dirty = TRUE, !.stored = Range(doc.steps),
                    !.wf = [@ EXCEPT !.rev = doc.rev, !.status = doc.status]]
    ELSE [ed EXCEPT !.wf = doc, !.dirty = FALSE, !.undo = NoUndo, !.stored = Range(doc.steps)]

-----------------------------------------------------------------------------
Locked == ed.status \in {"loading", "saving"}
Here == ed.loaded /\ ~ed.left
EdOnly == UNCHANGED <<storeVars, libVars, dialog, asks>>

\* The first load, and "Try again" or "Reload saved version".
EdOpens ==
    /\ ed.wf = NoDoc /\ ed.status = "loading" /\ calls["editor"] = NoCall /\ ~Answered("editor")
    /\ Get("editor")
    /\ UNCHANGED <<backing, versions, answers, late, faults, libVars, acts, edVars>>

EdLoaded ==
    /\ ed.status = "loading" /\ Answered("editor") /\ Taken("editor")
    /\ IF answers["editor"].code = "ok"
       THEN /\ ed' = Rendered([Load(answers["editor"].doc) EXCEPT !.loaded = TRUE, !.status = "ready"])
            /\ mine' = {}
       ELSE ed' = [ed EXCEPT !.status = "error"] /\ UNCHANGED mine
    /\ UNCHANGED <<backing, versions, calls, late, keys, faults, libVars, acts, dialog, asks>>

Reload ==
    /\ ~ed.left /\ IF ed.loaded THEN ed.status = "conflict" ELSE ed.status = "error"
    /\ ed' = [ed EXCEPT !.loaded = FALSE, !.status = "loading"]
    /\ Get("editor")
    /\ UNCHANGED <<backing, versions, answers, late, faults, libVars, acts, dialog, asks, mine>>

\* Edits need the lock's absence; the undo, and a step that is recorded or asserted, do not.
Delete(id) ==
    /\ Here /\ ~Locked /\ Act /\ id \in Ids(ed.wf.steps) /\ InSight
    /\ LET at == Index(ed.wf.steps, id) IN
       ed' = Rendered([Changed(RemoveAt(ed.wf.steps, at)) EXCEPT
                         !.undo = [step |-> ed.wf.steps[at], at |-> at]])
    /\ mine' = mine \ {id}
    /\ EdOnly

UndoDelete ==
    /\ Here /\ ed.undo # NoUndo
    /\ ed' = Rendered([Changed(Undone(ed.wf.steps)) EXCEPT !.undo = NoUndo])
    /\ UNCHANGED <<mine, acts>> /\ EdOnly

DismissDelete ==
    /\ Here /\ ed.undo # NoUndo
    /\ ed' = [ed EXCEPT !.undo = NoUndo]
    /\ UNCHANGED <<mine, acts>> /\ EdOnly

Toggle(id) ==
    /\ Here /\ ~Locked /\ Act /\ id \in Ids(ed.wf.steps) /\ InSight
    /\ ed' = Rendered(Changed(Switched(ed.wf.steps, id)))
    /\ UNCHANGED mine /\ EdOnly

Reorder(from, to) ==
    /\ Here /\ ~Locked /\ Act /\ InSight
    /\ {from, to} \subseteq DOMAIN ed.wf.steps /\ from # to
    /\ ed' = Rendered(Changed(Move(ed.wf.steps, from, to)))
    /\ UNCHANGED mine /\ EdOnly

Fresh(id) == id \in Recorded \ (Ids(ed.wf.steps) \cup {ed.undo.step.id})
             /\ \A n \in DOMAIN versions : id \notin Ids(versions[n].steps)

InsertAssertion(id, at) ==
    /\ Here /\ Act /\ Fresh(id) /\ at \in 0 .. Len(ed.wf.steps)
    /\ ed' = Rendered(Changed(InsertAt(ed.wf.steps, at + 1, NewStep(id))))
    /\ mine' = mine \cup {id}
    /\ EdOnly

\* A recording gives the workflow its session and may outlive a reload of the editor.
StartRecording ==
    /\ Here /\ ed.recording = "off" /\ Act
    /\ ed' = Rendered([Changed(ed.wf.steps) EXCEPT !.recording = "on"])
    /\ UNCHANGED mine /\ EdOnly

StepRecorded(id) ==
    /\ ~ed.left /\ ed.recording # "off" /\ Act /\ Fresh(id)
    /\ ed' = Changed(Append(ed.wf.steps, NewStep(id)))
    /\ mine' = mine \cup {id}
    /\ EdOnly

Render ==
    /\ ~InSight /\ ed' = Rendered(ed)
    /\ UNCHANGED <<mine, acts>> /\ EdOnly

-----------------------------------------------------------------------------
\* Save and finish.
Sends(kind, e) ==
    /\ Put("editor", kind, e.shown.steps, e.shown.rev,
           {[id |-> s.id, bind |-> s.bind] : s \in e.stored})
    /\ ed' = [e EXCEPT !.moved = ~InSight, !.status = "saving"]

Save ==
    /\ Here /\ ~Locked /\ InSight /\ (ed.dirty \/ ed.status # "ready")
    /\ Sends("save", ed)
    /\ UNCHANGED <<backing, versions, answers, late, faults, libVars, acts, dialog, asks, mine>>

Finish ==
    /\ Here /\ ~Locked /\ InSight /\ ed.wf.steps # <<>>
    /\ IF ed.recording = "off"
       THEN Sends("finish", [ed EXCEPT !.finishing = TRUE])
       ELSE /\ ed' = [ed EXCEPT !.status = "saving", !.finishing = TRUE, !.recording = "stopping"]
            /\ UNCHANGED <<calls, keys>>
    /\ UNCHANGED <<backing, versions, answers, late, faults, libVars, acts, dialog, asks, mine>>

\* session.stopped: the finish goes on at once, with what the last render showed.
RecordingStopped ==
    /\ ed.recording = "stopping"
    /\ IF ed.finishing /\ ed.status = "saving"
       THEN Sends("finish", [ed EXCEPT !.recording = "off"])
       ELSE ed' = [ed EXCEPT !.recording = "off"] /\ UNCHANGED <<calls, keys>>
    /\ UNCHANGED <<backing, versions, answers, late, faults, libVars, acts, dialog, asks, mine>>

StopTimesOut ==
    /\ ed.recording = "stopping" /\ ed.finishing /\ ed.status = "saving" /\ calls["editor"] = NoCall
    /\ ed' = [ed EXCEPT !.status = "error", !.finishing = FALSE]
    /\ UNCHANGED <<mine, acts>> /\ EdOnly

\* A finish that is answered leaves for the Library, its status still "saving".
EdSaved ==
    /\ ed.status = "saving" /\ Answered("editor") /\ Taken("editor")
    /\ LET a == answers["editor"] IN
       ed' = CASE a.code = "ok" /\ ed.finishing -> [Saved(a.doc) EXCEPT !.left = TRUE]
               [] a.code = "ok" /\ ~ed.finishing -> Rendered([Saved(a.doc) EXCEPT !.status = "ready"])
               [] a.code = "conflict" -> [ed EXCEPT !.status = "conflict", !.finishing = FALSE]
               [] a.code = "error" -> [ed EXCEPT !.status = "error", !.finishing = FALSE]
    /\ UNCHANGED <<backing, versions, calls, late, keys, faults, libVars, acts, dialog, asks, mine>>

-----------------------------------------------------------------------------
\* The dialog of a replay.  Every opening and closing makes earlier fetches stale: their
\* number is no longer the last one given out.
DialogOnly == UNCHANGED <<storeVars, libVars, ed, mine>>
NeedsProfile == \E i \in DOMAIN ed.wf.steps : ed.wf.steps[i].on /\ ed.wf.steps[i].bind = "profile"
Shut == [dialog EXCEPT !.open = FALSE, !.profile = 0, !.status = "idle"]
Stale == {[last |-> FALSE] : a \in asks}

LoadRunProfile ==
    /\ dialog' = [dialog EXCEPT !.open = TRUE, !.profile = 0, !.status = "loading"]
    /\ asks' = Stale \cup {[last |-> TRUE]}

RequestReplay ==
    /\ Here /\ ~dialog.open /\ Act
    /\ IF NeedsProfile THEN LoadRunProfile
       ELSE dialog' = [dialog EXCEPT !.open = TRUE, !.profile = 0, !.status = "idle"] /\ asks' = Stale
    /\ DialogOnly

RetryRunProfile ==
    /\ dialog.open /\ NeedsProfile /\ dialog.status = "error"
    /\ LoadRunProfile
    /\ DialogOnly /\ UNCHANGED acts

Asked(r) == r.last
RunProfileAnswered(r, found) ==
    /\ asks' = asks \ {r}
    /\ dialog' = IF ~Asked(r) THEN dialog
                 ELSE IF found /\ profiles[UrlProfile] # 0
                 THEN [dialog EXCEPT !.profile = profiles[UrlProfile], !.status = "ready"]
                 ELSE [dialog EXCEPT !.status = "error"]
    /\ DialogOnly /\ UNCHANGED acts

\* The user closes the dialog, or a captcha to solve closes it.
CloseRun ==
    /\ dialog.open /\ dialog' = Shut /\ asks' = Stale
    /\ DialogOnly /\ UNCHANGED acts

\* The profile of the dialog as the resolution of the parameters takes it.
RunProfile == IF dialog.profile = 0 THEN NoProfile ELSE [id |-> UrlProfile, rev |-> dialog.profile]

\* Values asked of this run have been typed or not.
StartReplay(valued) ==
    /\ dialog.open /\ Ready(ed.wf.steps, RunProfile, valued)
    /\ ~(NeedsProfile /\ dialog.status \in {"loading", "error"})
    /\ dialog' = Shut /\ asks' = Stale
    /\ DialogOnly /\ UNCHANGED acts

-----------------------------------------------------------------------------
EdNext ==
    \/ EdOpens \/ EdLoaded \/ Reload \/ UndoDelete \/ DismissDelete \/ StartRecording \/ Render
    \/ Save \/ Finish \/ RecordingStopped \/ StopTimesOut \/ EdSaved
    \/ RequestReplay \/ RetryRunProfile \/ CloseRun \/ (\E valued \in BOOLEAN : StartReplay(valued))
    \/ \E id \in StepId : Delete(id) \/ Toggle(id)
    \/ \E id \in Recorded : StepRecorded(id) \/ \E at \in 0 .. Len(ed.wf.steps) : InsertAssertion(id, at)
    \/ \E from, to \in DOMAIN ed.wf.steps : Reorder(from, to)
    \/ \E r \in asks, found \in BOOLEAN : RunProfileAnswered(r, found)

\* A third screen saves the same workflow: another binding, or a step switched.
ElsewhereSaves(steps) ==
    /\ Act /\ LockFree /\ steps # Current.steps
    /\ versions' = Append(versions,
          [steps |-> steps, status |-> Current.status, save |-> 0, key |-> 0,
           shown |-> {[id |-> s.id, bind |-> s.bind] : s \in Range(Current.steps)}])
    /\ UNCHANGED <<backing, calls, answers, late, keys, faults, libVars, edVars>>

Init ==
    /\ StoreInit([i \in 1 .. Cardinality(StepId \ Recorded) |->
                    [id |-> SetToSeq(StepId \ Recorded)[i], bind |-> "recorded", on |-> TRUE]])
    /\ LibInit /\ EdInit

\* The Library opens with its load under way.
LibOpens ==
    /\ lib.op = "load" /\ calls["lib"] = NoCall /\ ~Answered("lib")
    /\ Get("lib")
    /\ UNCHANGED <<backing, versions, answers, late, faults, libVars, acts, edVars>>

Next ==
    \/ StoreNext /\ UNCHANGED <<libVars, acts, edVars>>
    \/ LibNext /\ UNCHANGED <<backing, versions, late, faults, edVars>>
    \/ LibOpens \/ EdNext
    \/ \E id \in StepId, b \in Elsewhere :
        ElsewhereSaves(Bind(Current.steps, id, b)) \/ ElsewhereSaves(Switched(Current.steps, id))

Spec == Init /\ [][Next]_vars

-----------------------------------------------------------------------------
\* Type invariant.
TypeOK ==
    /\ StoreTypeOK /\ LibTypeOK
    /\ ed.status \in {"loading", "ready", "saving", "error", "conflict"}
    /\ Steps(ed.wf.steps) /\ Steps(ed.shown.steps)
    /\ ed.recording \in {"off", "on", "stopping"}
    /\ dialog.status \in {"idle", "loading", "ready", "error"}
    /\ mine \subseteq Recorded

\* No screen's save changes or removes a row whose stored binding that screen had not
\* been shown: neither through a revision it never read, nor by a rebase, nor by an
\* attempt that Relay handles late.
NothingOverwrittenUnseen ==
    \A n \in 2 .. Len(versions) : \A s \in Range(versions[n - 1].steps) :
        \/ [id |-> s.id, bind |-> s.bind] \in versions[n].shown
        \/ \E t \in Range(versions[n].steps) : t.id = s.id /\ t.bind = s.bind

\* A screen that is told of a conflict is never told so of a save that was stored: the
\* second attempt at Relay carries the key of the first.
ConflictIsAnothers ==
    \A c \in Caller : answers[c].code = "conflict" =>
        \A n \in DOMAIN versions : versions[n].save # answers[c].save

\* Saves are honest in both directions: nothing unseen is overwritten and no stored
\* save is called a conflict (compare and swap on the revision, idempotency keys).
SavesAreHonest == NothingOverwrittenUnseen /\ ConflictIsAnothers

\* The editor shows "saved" only for steps that are stored at its revision; what was
\* recorded or inserted meanwhile is still there, once, beside what an undo would put back.
EditsAreKept ==
    /\ ed.loaded /\ ~ed.dirty => ed.wf.steps = versions[ed.wf.rev].steps
    /\ mine \subseteq Ids(ed.wf.steps)
    /\ Cardinality(Ids(ed.wf.steps)) = Len(ed.wf.steps)
    /\ ed.undo.step.id \notin Ids(ed.wf.steps)

\* A binding the user chose in the Library while nothing was being saved or loaded stays in
\* the draft, or waits as the user's side of a conflict, until it is stored, its row is gone
\* or the user withdraws it: through failed saves, lost answers and rebases.
ChoicesAtRestAreKept ==
    \A c \in chosen :
        \/ c.id \notin Ids(lib.draft.steps)
        \/ Row(lib.draft.steps, c.id).bind = c.bind
        \/ \E d \in lib.conflicts : d.id = c.id /\ d.local = c.bind

\* "Unsaved editor state remains client-owned and visible after save conflicts"
\* (NAVIGATION.md): a binding chosen in the Library while a refused save waits for the latest
\* version is still in the draft, or the user's side of a conflict, when that version has come.
\* The answer replaces it (useParameterWorkspace.ts:164): workspace_choices.cfg.
UnsavedChoicesStay ==
    [][\A id \in Ids(lib.draft.steps) \cap Ids(lib.closure.draft.steps) :
         LET choice == Row(lib.draft.steps, id).bind IN
         /\ lib.op = "latest" /\ lib'.op # "latest"
         /\ choice # Row(lib.closure.draft.steps, id).bind
         /\ id \in Ids(lib'.draft.steps)
         => \/ Row(lib'.draft.steps, id).bind = choice
            \/ \E d \in lib'.conflicts : d.id = id /\ d.local = choice]_vars

\* The profile a screen holds is of the fetch it last asked for, and a screen that
\* waits for one has a fetch in flight.
ProfileIsTheOneAsked ==
    /\ lib.profile # NoProfile => lib.profile.id = lib.sel
    /\ lib.profileStatus = "loading" => \E l \in looks : l.active /\ l.id = lib.sel
    /\ dialog.profile # 0 => dialog.open /\ dialog.status = "ready"
    /\ dialog.open /\ dialog.status = "loading" <=> [last |-> TRUE] \in asks

=============================================================================
