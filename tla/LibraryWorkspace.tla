--------------------------- MODULE LibraryWorkspace ----------------------------
(***************************************************************************)
(* The parameters of a workflow in the Library (useParameterWorkspace.ts): *)
(* a draft of bindings over the version it was loaded from; a save that    *)
(* meets a conflict loads the latest version, puts the changed bindings on *)
(* it and saves again, or shows the rows that changed on both sides; a run *)
(* saves, loads once more and leaves for the editor; a profile is chosen   *)
(* and fetched beside all this.                                            *)
(***************************************************************************)
EXTENDS DocumentStore

CONSTANTS
    Mapped,     \* steps the automatic mapping knows a profile field for
    Profile,
    MaxActs     \* bound: acts of the users on all screens, beside saves

ASSUME LibraryAssumption ==
    /\ {"recorded", "profile"} \subseteq Binding /\ Mapped \subseteq StepId
    /\ "none" \notin Profile /\ MaxActs \in Nat

VARIABLES
    lib,        \* what the screen holds
    looks,      \* fetches of a profile in flight
    profiles,   \* the stored profiles: their revision, 0 when deleted
    chosen,     \* bindings chosen at rest that the user neither withdrew nor saw stored or gone
    acts        \* acts so far

libVars == <<lib, looks, profiles, chosen>>

NoProfile == [id |-> "none", rev |-> 0]
NotShown == [id \in StepId |-> "recorded"]
NoFetch == [base |-> NoDoc, draft |-> NoDoc, run |-> FALSE, saw |-> NotShown]

LibInit ==
    /\ lib = [base |-> NoDoc, draft |-> NoDoc, status |-> "loading", op |-> "load",
              closure |-> NoFetch, conflicts |-> {}, saw |-> NotShown,
              sel |-> "none", profile |-> NoProfile, profileStatus |-> "idle", left |-> FALSE]
    /\ looks = {} /\ chosen = {} /\ acts = 0
    /\ profiles = [p \in Profile |-> 1]

-----------------------------------------------------------------------------
Bind(steps, id, b) == [i \in DOMAIN steps |-> IF steps[i].id = id THEN [steps[i] EXCEPT !.bind = b] ELSE steps[i]]
Bindings(steps) == {<<steps[i].id, steps[i].bind>> : i \in DOMAIN steps}
Dirty == Bindings(lib.base.steps) # Bindings(lib.draft.steps)

\* resolveWorkflowParameters: a step is ready, waits for a value of this run, or blocks.
Blocks(step, profile) == step.on /\ step.bind = "profile" /\ profile = NoProfile
CanEnterPreflight(steps, profile) == \A i \in DOMAIN steps : ~Blocks(steps[i], profile)
Ready(steps, profile, valued) ==
    \A i \in DOMAIN steps : /\ ~Blocks(steps[i], profile)
                            /\ steps[i].on /\ steps[i].bind = "runtime" => valued

\* rebaseParameterBindings: rows changed here, and rows changed on both sides.
ChangedHere(base, local, latest) ==
    {id \in Ids(base) \cap Ids(local) \cap Ids(latest) : Row(local, id).bind # Row(base, id).bind}
Conflicts(base, local, latest) ==
    {[id |-> id, local |-> Row(local, id).bind, saved |-> Row(latest, id).bind] :
        id \in {r \in ChangedHere(base, local, latest) :
                    Row(latest, r).bind \notin {Row(base, r).bind, Row(local, r).bind}}}
LatestWins(base, local, latest) == latest   \* mutant: the changed rows are forgotten
Rebased(base, local, latest) ==
    [i \in DOMAIN latest |->
        LET id == latest[i].id IN
        IF id \in ChangedHere(base, local, latest) /\ latest[i].bind = Row(base, id).bind
        THEN [latest[i] EXCEPT !.bind = Row(local, id).bind] ELSE latest[i]]

\* What the user was shown of the rows of a draft that is sent.
Shown(steps) == {[id |-> steps[i].id, bind |-> lib.saw[steps[i].id]] : i \in DOMAIN steps}
SawAll(steps) == [id \in StepId |-> IF id \in Ids(steps) THEN Row(steps, id).bind ELSE "recorded"]

Act == acts < MaxActs /\ acts' = acts + 1
Saving == lib.status = "saving"
Open == ~lib.left /\ lib.draft # NoDoc
\* A choice that differs from the base is watched until it is stored, when it is made at
\* rest: nothing is saved or loaded.  What is chosen while an answer is awaited is replaced
\* by that answer, unless it is an error: it is not watched here, and UnsavedChoicesStay
\* says of it what the code does not do.
Quiet == lib.op = "none" /\ calls["run"] = NoCall /\ ~Answered("run")
Watched(rows) ==
    {c \in chosen : c.id \notin {r.id : r \in rows}}
    \cup {r \in rows : Quiet /\ <<r.id, r.bind>> \notin Bindings(lib.base.steps)}
Unstored(doc) ==
    {c \in chosen : c.id \in Ids(doc.steps) /\ <<c.id, c.bind>> \notin Bindings(doc.steps)}

-----------------------------------------------------------------------------
LibLoaded ==
    /\ lib.op = "load" /\ Answered("lib") /\ Taken("lib")
    /\ LET a == answers["lib"] IN
       lib' = IF a.code = "ok"
              THEN [lib EXCEPT !.base = a.doc, !.draft = a.doc, !.status = "ready", !.op = "none",
                               !.saw = SawAll(a.doc.steps)]
              ELSE [lib EXCEPT !.status = "error", !.op = "none"]
    /\ UNCHANGED <<looks, profiles, chosen, acts, calls, keys>>

\* A row shows the version the draft came from until the user changes it, a conflict or not.
SawOf(id) == IF id \in Ids(lib.base.steps) THEN Row(lib.base.steps, id).bind ELSE lib.saw[id]
UpdateBinding(id, b) ==
    /\ Open /\ id \in Ids(lib.draft.steps) /\ Row(lib.draft.steps, id).bind # b
    /\ Act
    /\ lib' = [lib EXCEPT !.draft.steps = Bind(@, id, b),
                          !.saw[id] = SawOf(id)]
    /\ chosen' = Watched({[id |-> id, bind |-> b]})
    /\ UNCHANGED <<looks, profiles, calls, answers, keys>>

AutoMap ==
    LET rows == {id \in Ids(lib.draft.steps) \cap Mapped : Row(lib.draft.steps, id).bind = "recorded"} IN
    /\ Open /\ ~Saving /\ rows # {}
    /\ Act
    /\ lib' = [lib EXCEPT
                 !.draft.steps = [i \in DOMAIN @ |-> IF @[i].id \in rows THEN [@[i] EXCEPT !.bind = "profile"]
                                                     ELSE @[i]],
                 !.saw = [id \in StepId |-> IF id \in rows THEN SawOf(id) ELSE @[id]]]
    /\ chosen' = Watched({[id |-> id, bind |-> "profile"] : id \in rows})
    /\ UNCHANGED <<looks, profiles, calls, answers, keys>>

SendFirst(run) ==
    /\ Put("lib", "save", lib.draft.steps, lib.base.rev, Shown(lib.draft.steps))
    /\ lib' = [lib EXCEPT !.status = "saving", !.op = "first",
                          !.closure = [base |-> lib.base, draft |-> lib.draft, run |-> run,
                                       saw |-> lib.saw]]

SaveDraft ==
    /\ Open /\ ~Saving /\ lib.conflicts = {} /\ Dirty /\ lib.op = "none"
    /\ SendFirst(FALSE)
    /\ UNCHANGED <<looks, profiles, chosen, acts, answers>>

\* The run's own load starts when its save is done, or at once.
Run ==
    /\ Open /\ ~Saving /\ lib.conflicts = {} /\ lib.op = "none"
    /\ lib.profileStatus \notin {"loading", "error"}
    /\ CanEnterPreflight(lib.draft.steps, lib.profile)
    /\ calls["run"] = NoCall /\ ~Answered("run")
    /\ IF Dirty THEN SendFirst(TRUE) ELSE Get("run") /\ UNCHANGED lib
    /\ UNCHANGED <<looks, profiles, chosen, acts, answers>>

\* After an answer: the saved version is what is shown, and a run goes on.
Settle(doc) ==
    /\ lib' = [lib EXCEPT !.base = doc, !.draft = doc, !.status = "ready", !.op = "none",
                          !.conflicts = IF lib.op = "first" THEN {} ELSE @,
                          !.closure = NoFetch, !.saw = SawAll(doc.steps)]
    /\ chosen' = Unstored(doc)
GoesOn == IF lib.closure.run THEN Get("run") ELSE UNCHANGED <<calls, keys>>
StopsSaving(status) ==
    /\ lib' = [lib EXCEPT !.status = status, !.op = "none", !.closure = NoFetch]
    /\ UNCHANGED <<calls, keys, chosen>>

FirstAnswered ==
    /\ lib.op = "first" /\ Answered("lib") /\ Taken("lib")
    /\ CASE answers["lib"].code = "ok" -> Settle(answers["lib"].doc) /\ GoesOn
         [] answers["lib"].code = "conflict" ->
                Get("lib") /\ lib' = [lib EXCEPT !.op = "latest"] /\ UNCHANGED chosen
         [] answers["lib"].code = "error" -> StopsSaving("error")
    /\ UNCHANGED <<looks, profiles, acts>>

\* The latest version is loaded: the changed rows go on it, or the conflicts are shown.
LatestAnswered ==
    LET latest == answers["lib"].doc
        base == lib.closure.base.steps
        local == lib.closure.draft.steps
        rebased == Rebased(base, local, latest.steps)
        clashes == Conflicts(base, local, latest.steps)
        saw == [id \in StepId |->
                  IF id \in Ids(rebased) /\ Row(rebased, id).bind # Row(latest.steps, id).bind
                  THEN lib.closure.saw[id] ELSE SawAll(latest.steps)[id]]
        shown == [lib EXCEPT !.base = latest, !.draft = [latest EXCEPT !.steps = rebased], !.saw = saw]
    IN
    /\ lib.op = "latest" /\ Answered("lib") /\ Taken("lib")
    /\ \/ /\ answers["lib"].code # "ok"
          /\ StopsSaving("conflict")
       \/ /\ answers["lib"].code = "ok" /\ clashes # {}
          /\ lib' = [shown EXCEPT !.conflicts = clashes, !.status = "conflict", !.op = "none", !.closure = NoFetch]
          /\ chosen' = Unstored(latest)
          /\ UNCHANGED <<calls, keys>>
       \/ /\ answers["lib"].code = "ok" /\ clashes = {} /\ Bindings(rebased) = Bindings(latest.steps)
          /\ lib' = [shown EXCEPT !.status = "ready", !.op = "none", !.closure = NoFetch]
          /\ chosen' = Unstored(latest)
          /\ GoesOn
       \/ /\ answers["lib"].code = "ok" /\ clashes = {} /\ Bindings(rebased) # Bindings(latest.steps)
          /\ Put("lib", "save", rebased, latest.rev,
                 {[id |-> rebased[i].id, bind |-> saw[rebased[i].id]] : i \in DOMAIN rebased})
          /\ lib' = [shown EXCEPT !.op = "second"]
          /\ chosen' = Unstored(latest)
    /\ UNCHANGED <<looks, profiles, acts>>

SecondAnswered ==
    /\ lib.op = "second" /\ Answered("lib") /\ Taken("lib")
    /\ IF answers["lib"].code = "ok"
       THEN Settle(answers["lib"].doc) /\ GoesOn
       ELSE StopsSaving("conflict")
    /\ UNCHANGED <<looks, profiles, acts>>

\* The run's load replaces the draft; without a blocking row the screen is left.
RunAnswered ==
    LET a == answers["run"]
        may == CanEnterPreflight(a.doc.steps, lib.profile) IN
    /\ Answered("run") /\ Taken("run") /\ ~lib.left
    /\ lib' = IF a.code # "ok" THEN [lib EXCEPT !.status = "error"]
              ELSE [lib EXCEPT !.base = a.doc, !.draft = a.doc, !.saw = SawAll(a.doc.steps), !.left = may,
                               !.status = IF may THEN @ ELSE "error"]
    /\ chosen' = IF a.code = "ok" THEN Unstored(a.doc) ELSE chosen
    /\ UNCHANGED <<looks, profiles, acts, calls, keys>>

\* "Keep mine" puts the row's own binding back; "Use saved" leaves the row as it is.
\* A conflict whose row is gone is not shown.
ResolveConflict(c, choice) ==
    /\ Open /\ c \in lib.conflicts /\ c.id \in Ids(lib.draft.steps)
    /\ LET left == {d \in lib.conflicts : d.id # c.id} IN
       lib' = [lib EXCEPT !.conflicts = left,
                          !.status = IF left = {} THEN "ready" ELSE "conflict",
                          !.draft.steps = IF choice = "local" THEN Bind(@, c.id, c.local) ELSE @,
                          !.saw[c.id] = IF choice = "local" THEN SawOf(c.id) ELSE @]
    /\ chosen' = IF choice = "local" THEN Watched({[id |-> c.id, bind |-> c.local]})
                 ELSE {d \in chosen : d.id # c.id}
    /\ UNCHANGED <<looks, profiles, acts, calls, answers, keys>>

-----------------------------------------------------------------------------
\* The profile: a choice or a second try makes the fetch before it count no more.
Inactive == {[l EXCEPT !.active = FALSE] : l \in looks}
Look(p) == looks' = Inactive \cup {[id |-> p, active |-> TRUE]}
SelectProfile(p) ==
    /\ Open /\ Act /\ p # lib.sel
    /\ lib' = [lib EXCEPT !.sel = p, !.profile = NoProfile,
                          !.profileStatus = IF p = "none" THEN "idle" ELSE "loading"]
    /\ IF p = "none" THEN looks' = Inactive ELSE Look(p)
    /\ UNCHANGED <<profiles, chosen, calls, answers, keys>>

RetryProfile ==
    /\ Open /\ Act /\ lib.sel # "none" /\ lib.profileStatus = "error"
    /\ lib' = [lib EXCEPT !.profile = NoProfile, !.profileStatus = "loading"]
    /\ Look(lib.sel)
    /\ UNCHANGED <<profiles, chosen, calls, answers, keys>>

EveryFetchCounts(l) == TRUE   \* mutant: the effect of an earlier choice is not cancelled
Counts(l) == l.active
ProfileAnswered(l, found) ==
    /\ looks' = looks \ {l}
    /\ lib' = IF ~Counts(l) THEN lib
              ELSE CASE found /\ profiles[l.id] # 0 ->
                          [lib EXCEPT !.profile = [id |-> l.id, rev |-> profiles[l.id]], !.profileStatus = "ready"]
                     [] found /\ profiles[l.id] = 0 -> [lib EXCEPT !.sel = "none", !.profileStatus = "error"]
                     [] ~found -> [lib EXCEPT !.profileStatus = "error"]
    /\ UNCHANGED <<profiles, chosen, acts, calls, answers, keys>>

\* The profile screen of another tab saves or deletes the revision it holds.
ProfileChanges(p, expected, deletes) ==
    /\ Act /\ profiles[p] # 0 /\ profiles[p] = expected
    /\ profiles' = [profiles EXCEPT ![p] = IF deletes THEN 0 ELSE @ + 1]
    /\ UNCHANGED <<lib, looks, chosen, calls, answers, keys>>

LibNext ==
    \/ LibLoaded \/ AutoMap \/ SaveDraft \/ Run
    \/ FirstAnswered \/ LatestAnswered \/ SecondAnswered \/ RunAnswered \/ RetryProfile
    \/ \E id \in StepId, b \in Binding : UpdateBinding(id, b)
    \/ \E c \in lib.conflicts, choice \in {"saved", "local"} : ResolveConflict(c, choice)
    \/ \E p \in Profile \cup {"none"} : SelectProfile(p)
    \/ \E l \in looks, found \in BOOLEAN : ProfileAnswered(l, found)
    \/ \E p \in Profile, r \in 1 .. MaxActs, deletes \in BOOLEAN : ProfileChanges(p, r, deletes)

-----------------------------------------------------------------------------
\* Type invariant.
LibTypeOK ==
    /\ lib.status \in {"loading", "ready", "saving", "error", "conflict"}
    /\ lib.op \in {"load", "none", "first", "latest", "second"}
    /\ Steps(lib.base.steps) /\ Steps(lib.draft.steps)
    /\ lib.conflicts \subseteq [id : StepId, local : Binding, saved : Binding]
    /\ lib.profile \in [id : Profile, rev : Nat] \cup {NoProfile}
    /\ chosen \subseteq [id : StepId, bind : Binding]

=============================================================================
