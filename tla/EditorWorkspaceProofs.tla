------------------------- MODULE EditorWorkspaceProofs -------------------------
(***************************************************************************)
(* Machine-checked facts about EditorWorkspace: the editor and the Library *)
(* over one DocumentStore, for any steps, bindings, callers and profiles,  *)
(* and any bounds on saves, faults and acts.  IInv, the inductive          *)
(* invariant, has a part for the store, one for each screen, and one for   *)
(* each fetch of a profile; a step of one part keeps the others because    *)
(* versions only grow and a caller is only answered (Grows, Keeps).        *)
(***************************************************************************)
EXTENDS EditorWorkspace, SequenceTheorems, FiniteSetTheorems, TLAPS

-----------------------------------------------------------------------------
(* Types *)

Doc == [steps : Seq(Step), rev : Nat, status : {"draft", "complete"}]
BindRow == [id : StepId, bind : Binding]
Snapshot == [steps : Seq(Step), status : {"draft", "complete"}, save : Nat, key : Nat,
             shown : SUBSET BindRow]
CallRec == [phase : {"idle", "sent", "locked"}, kind : {"none", "get", "save", "finish"},
            steps : Seq(Step), expected : Nat, save : Nat, key : Nat, shown : SUBSET BindRow,
            attempt : Nat]
AnswerRec == [code : {"none", "ok", "conflict", "error"}, doc : Doc, save : Nat]

StoreTypes ==
    /\ backing \in {"file", "relay"}
    /\ versions \in Seq(Snapshot) /\ versions # <<>>
    /\ calls \in [Caller -> CallRec]
    /\ answers \in [Caller -> AnswerRec]
    /\ late \subseteq CallRec
    /\ keys \in Nat /\ faults \in Nat

Saw == [StepId -> Binding]
Closure == [base : Doc, draft : Doc, run : BOOLEAN, saw : Saw]
Clash == [id : StepId, local : Binding, saved : Binding]
LibRec == [base : Doc, draft : Doc, status : {"loading", "ready", "saving", "error", "conflict"},
           op : {"load", "none", "first", "latest", "second"}, closure : Closure,
           conflicts : SUBSET Clash, saw : Saw, sel : Profile \cup {"none"},
           profile : [id : Profile \cup {"none"}, rev : Nat],
           profileStatus : {"idle", "loading", "ready", "error"}, left : BOOLEAN]

LibTypes ==
    /\ lib \in LibRec
    /\ looks \subseteq [id : Profile, active : BOOLEAN]
    /\ profiles \in [Profile -> Nat]
    /\ chosen \subseteq BindRow
    /\ acts \in Nat

EdRec == [wf : Doc, shown : Doc, dirty : BOOLEAN,
          undo : [step : Step, at : Nat \ {0}] \cup {NoUndo},
          status : {"loading", "ready", "saving", "error", "conflict"}, loaded : BOOLEAN,
          moved : BOOLEAN, stored : SUBSET Step, recording : {"off", "on", "stopping"},
          finishing : BOOLEAN, left : BOOLEAN]

EdTypes ==
    /\ ed \in EdRec
    /\ dialog \in [open : BOOLEAN, profile : Nat, status : {"idle", "loading", "ready", "error"}]
    /\ asks \subseteq [last : BOOLEAN]
    /\ mine \subseteq StepId

Types == StoreTypes /\ LibTypes /\ EdTypes

-----------------------------------------------------------------------------
(* The store *)

Saves(call) == call.kind \in {"save", "finish"}
Distinct(s) == \A i, j \in DOMAIN s : s[i].id = s[j].id => i = j

\* What a save asks for, its attempts apart; every save in flight or handled late.
What(call) == [key |-> call.key, steps |-> call.steps, expected |-> call.expected,
               shown |-> call.shown]
Sent == {What(calls[c]) : c \in {d \in Caller : Saves(calls[d])}} \cup {What(l) : l \in late}

\* A save whose rows are new, whose author has seen those of old it changes.
Seen(old, new, shown) ==
    \A i \in DOMAIN old :
        \/ [id |-> old[i].id, bind |-> old[i].bind] \in shown
        \/ \E j \in DOMAIN new : new[j].id = old[i].id /\ new[j].bind = old[i].bind

\* A call in flight has no answer; a lock is held over the version compared with.
CallInv ==
    /\ \A c \in Caller :
        /\ calls[c].phase = "idle" <=> calls[c].kind = "none"
        /\ calls[c].phase = "locked" =>
            backing = "file" /\ Saves(calls[c]) /\ calls[c].expected = Len(versions)
        /\ answers[c].code # "none" => calls[c].kind = "none"
        /\ calls[c].save = calls[c].key /\ calls[c].key <= keys
        /\ answers[c].save <= keys
    /\ \A c, d \in Caller : calls[c].phase = "locked" /\ calls[d].phase = "locked" => c = d
    /\ \A c, d \in Caller : Saves(calls[c]) /\ Saves(calls[d]) /\ calls[c].key = calls[d].key => c = d
    /\ \A l \in late : backing = "relay" /\ Saves(l) /\ l.save = l.key

\* Saves with one key are one save, and a version with that key is of that save; a
\* version is compared with at most the latest, and what it changes was seen.
SentInv ==
    /\ \A a \in Sent :
        /\ a.key \in 1 .. keys /\ a.expected \in DOMAIN versions /\ Distinct(a.steps)
        /\ Seen(versions[a.expected].steps, a.steps, a.shown)
        /\ \A n \in DOMAIN versions : versions[n].key = a.key => versions[n].steps = a.steps
    /\ \A a, b \in Sent : a.key = b.key => a = b
    /\ backing = "file" => \A a \in Sent, n \in DOMAIN versions : versions[n].key # a.key

VersionInv ==
    /\ \A n \in DOMAIN versions :
        /\ Distinct(versions[n].steps)
        /\ versions[n].key <= keys /\ versions[n].save = versions[n].key
    /\ \A n \in 2 .. Len(versions) :
        Seen(versions[n - 1].steps, versions[n].steps, versions[n].shown)

\* An answer is a stored version; a conflict is told of a save that never will be one.
AnswerIs(c) ==
    /\ answers[c].code = "ok" =>
        answers[c].doc.rev \in DOMAIN versions /\ answers[c].doc = Version(answers[c].doc.rev)
    /\ answers[c].code = "conflict" =>
        /\ answers[c].save # 0
        /\ \A n \in DOMAIN versions : versions[n].key # answers[c].save
        /\ \A a \in Sent : a.key = answers[c].save => a.expected < Len(versions)
AnswerInv == \A c \in Caller : AnswerIs(c)

StoreInv == CallInv /\ SentInv /\ VersionInv /\ AnswerInv

-----------------------------------------------------------------------------
(* The editor *)

Idle(c) == calls[c].kind = "none" /\ answers[c].code = "none"

EdCallInv ==
    /\ ed.status \notin {"loading", "saving"} => Idle("editor")
    /\ ed.status = "loading" => ~Saves(calls["editor"])
    /\ ed.status = "saving" =>
        /\ ed.loaded /\ calls["editor"].kind # "get"
        /\ ed.left \/ (ed.finishing /\ ed.recording = "stopping") => Idle("editor")
        /\ Saves(calls["editor"]) /\ ~ed.moved => calls["editor"].steps = ed.wf.steps
        /\ answers["editor"].code = "ok" /\ ~ed.moved => answers["editor"].doc.steps = ed.wf.steps
    /\ ed.finishing => ed.status = "saving"
    /\ ed.left => ed.recording # "stopping" /\ ed.status = "saving"

EdDocInv ==
    /\ Distinct(ed.wf.steps) /\ Distinct(ed.shown.steps)
    /\ ed.undo.step.id \notin Ids(ed.wf.steps)
    /\ mine \subseteq Ids(ed.wf.steps)
    /\ ed.loaded =>
        /\ ed.wf.rev \in DOMAIN versions
        /\ ed.stored = Range(versions[ed.wf.rev].steps)
        /\ ~ed.dirty => ed.wf.steps = versions[ed.wf.rev].steps
        /\ ~ed.left => ed.shown.rev = ed.wf.rev

-----------------------------------------------------------------------------
(* The Library *)

\* A draft has the rows of its base, and what differs was shown as the base has it.
DraftOf(base, draft, saw) ==
    /\ Len(draft.steps) = Len(base.steps)
    /\ \A i \in DOMAIN base.steps :
        /\ draft.steps[i].id = base.steps[i].id
        /\ draft.steps[i].bind = base.steps[i].bind \/ saw[base.steps[i].id] = base.steps[i].bind

Known(doc) == doc.rev \in DOMAIN versions /\ doc.steps = versions[doc.rev].steps
Carried(steps) == \A c \in chosen : \A i \in DOMAIN steps : steps[i].id = c.id => steps[i].bind = c.bind

LibCallInv ==
    /\ lib.op = "none" => Idle("lib")
    /\ lib.op \in {"load", "latest"} => ~Saves(calls["lib"])
    /\ lib.op \in {"first", "second"} => calls["lib"].kind # "get"
    /\ lib.op \in {"first", "latest", "second"} => lib.draft # NoDoc
    /\ ~Saves(calls["run"])
    /\ lib.op \in {"first", "second"} =>
        /\ Saves(calls["lib"]) => Carried(calls["lib"].steps)
        /\ answers["lib"].code = "ok" => Carried(answers["lib"].doc.steps)
    /\ ~Idle("run") => chosen = {}
    /\ lib.closure.run => lib.op \in {"first", "latest", "second"} /\ Idle("run")
    /\ lib.op = "load" => Idle("run")

LibDocInv ==
    /\ lib.draft = NoDoc => lib.base = NoDoc /\ lib.op \in {"load", "none"} /\ chosen = {}
    /\ lib.draft # NoDoc => Known(lib.base) /\ DraftOf(lib.base, lib.draft, lib.saw)
    /\ lib.op = "load" => lib.draft = NoDoc
    /\ lib.op \in {"first", "latest", "second"} =>
        /\ Known(lib.closure.base)
        /\ DraftOf(lib.closure.base, lib.closure.draft, lib.closure.saw)
        /\ lib.op \in {"first", "latest"} => Carried(lib.closure.draft.steps)

\* Choices are of rows of the base, and not stored there; each is in the draft or in a
\* conflict.
ChosenOf(steps) == \A c \in chosen : \E i \in DOMAIN steps : steps[i].id = c.id /\ steps[i].bind # c.bind
ChosenKept ==
    \A c \in chosen :
        \/ \A i \in DOMAIN lib.draft.steps : lib.draft.steps[i].id = c.id => lib.draft.steps[i].bind = c.bind
        \/ \E d \in lib.conflicts : d.id = c.id /\ d.local = c.bind
ChosenInv ==
    /\ ChosenOf(lib.base.steps) /\ ChosenKept
    /\ lib.op \in {"first", "latest"} => ChosenOf(lib.closure.base.steps)

\* The one fetch that counts is of the selected profile.
LooksInv ==
    /\ \A l \in looks : l.active => l.id = lib.sel /\ lib.profileStatus = "loading"
    /\ lib.profileStatus = "loading" =>
        lib.profile = NoProfile /\ \E l \in looks : l.active /\ l.id = lib.sel
    /\ lib.profile # NoProfile => lib.profile.id = lib.sel

DialogInv ==
    /\ dialog.profile # 0 => dialog.open /\ dialog.status = "ready"
    /\ dialog.open /\ dialog.status = "loading" <=> [last |-> TRUE] \in asks

EdInv == EdCallInv /\ EdDocInv
LibInv == LibCallInv /\ LibDocInv /\ ChosenInv
IInv == Types /\ StoreInv /\ EdInv /\ LibInv /\ LooksInv /\ DialogInv
-----------------------------------------------------------------------------
(* Rows of a workflow *)

\* An id of a workflow is the id of one of its steps.
LEMMA IdOf ==
    ASSUME NEW s \in Seq(Step), NEW id
    PROVE  id \in Ids(s) <=> \E i \in 1 .. Len(s) : s[i].id = id
  <1>1. DOMAIN s = 1 .. Len(s)
    OBVIOUS
  <1>2. QED
    BY <1>1 DEF Ids

\* Sets with the same members are one set.
LEMMA SameSet ==
    ASSUME NEW S, NEW T, \A x : x \in S <=> x \in T
    PROVE  S = T
  OBVIOUS

\* Under distinct ids, Row is the step itself.
LEMMA RowFacts ==
    ASSUME NEW s \in Seq(Step), Distinct(s), NEW i \in DOMAIN s
    PROVE  Row(s, s[i].id) = s[i]
  <1> DEFINE at == CHOOSE j \in DOMAIN s : s[j].id = s[i].id
  <1>1. at \in DOMAIN s /\ s[at].id = s[i].id
    OBVIOUS
  <1>2. at = i
    BY <1>1 DEF Distinct
  <1>3. QED
    BY <1>2 DEF Row

\* The row of an id a workflow has is one of its steps (workflow.steps.find).
LEMMA RowOfId ==
    ASSUME NEW s \in Seq(Step), Distinct(s), NEW id \in Ids(s)
    PROVE  \E i \in DOMAIN s : s[i].id = id /\ Row(s, id) = s[i]
  <1>1. PICK i \in DOMAIN s : s[i].id = id
    BY DEF Ids
  <1>2. QED
    BY <1>1, RowFacts

\* What an insertion, a removal and an addition at the end make of the rows.
LEMMA InsertFacts ==
    ASSUME NEW s \in Seq(Step), Distinct(s), NEW at \in 1 .. Len(s) + 1,
           NEW step \in Step, step.id \notin Ids(s)
    PROVE  /\ InsertAt(s, at, step) \in Seq(Step) /\ Distinct(InsertAt(s, at, step))
           /\ Ids(InsertAt(s, at, step)) = Ids(s) \cup {step.id}
  <1> DEFINE new == InsertAt(s, at, step)
             front == SubSeq(s, 1, at - 1)
             back == SubSeq(s, at, Len(s))
             mid == <<step>>
  <1>a. /\ front \in Seq(Step) /\ Len(front) = at - 1
        /\ \A j \in 1 .. at - 1 : front[j] = s[j]
    <2>1. \A j \in 1 .. at - 1 : s[j] \in Step
      OBVIOUS
    <2>2. QED
      BY <2>1, SubSeqProperties
  <1>b. /\ back \in Seq(Step) /\ Len(back) = Len(s) - at + 1
        /\ \A j \in 1 .. Len(s) - at + 1 : back[j] = s[at + j - 1]
    <2>1. \A j \in at .. Len(s) : s[j] \in Step
      OBVIOUS
    <2>2. QED
      BY <2>1, SubSeqProperties
  <1>c. new = (front \o mid) \o back
    BY DEF InsertAt
  <1>d. mid \in Seq(Step) /\ Len(mid) = 1 /\ mid[1] = step
    OBVIOUS
  <1> HIDE DEF front, back, mid, new
  <1>e. /\ front \o mid \in Seq(Step) /\ Len(front \o mid) = at
        /\ \A j \in 1 .. at : (front \o mid)[j] = IF j < at THEN s[j] ELSE step
    <2>1. /\ front \o mid \in Seq(Step) /\ Len(front \o mid) = Len(front) + Len(mid)
          /\ \A j \in 1 .. Len(front) + Len(mid) :
               (front \o mid)[j] = IF j <= Len(front) THEN front[j] ELSE mid[j - Len(front)]
      BY <1>a, <1>d, ConcatProperties
    <2>2. QED
      BY <2>1, <1>a, <1>d
  <1>1. /\ new \in Seq(Step) /\ Len(new) = Len(s) + 1
        /\ \A j \in 1 .. Len(s) + 1 :
             new[j] = IF j < at THEN s[j] ELSE IF j = at THEN step ELSE s[j - 1]
    <2> DEFINE begin == front \o mid
    <2>0. begin \in Seq(Step) /\ Len(begin) = at /\ new = begin \o back
      BY <1>c, <1>e
    <2>1. \A j \in 1 .. at : begin[j] = IF j < at THEN s[j] ELSE step
      BY <1>e
    <2> HIDE DEF begin
    <2>2. /\ begin \o back \in Seq(Step) /\ Len(begin \o back) = at + Len(back)
          /\ \A j \in 1 .. at + Len(back) :
               (begin \o back)[j] = IF j <= at THEN begin[j] ELSE back[j - at]
      BY <1>b, <2>0, ConcatProperties
    <2>3. new \in Seq(Step) /\ Len(new) = Len(s) + 1
      BY <2>0, <2>2, <1>b
    <2>4. ASSUME NEW j \in 1 .. Len(s) + 1
          PROVE  new[j] = IF j < at THEN s[j] ELSE IF j = at THEN step ELSE s[j - 1]
      <3>1. CASE j <= at
        BY <3>1, <2>0, <2>1, <2>2, <1>b
      <3>2. CASE j > at
        <4>1. j - at \in 1 .. Len(s) - at + 1
          BY <3>2
        <4>2. new[j] = back[j - at]
          BY <3>2, <2>0, <2>2, <1>b
        <4>3. back[j - at] = s[at + (j - at) - 1]
          BY <4>1, <1>b
        <4>4. at + (j - at) - 1 = j - 1
          OBVIOUS
        <4>5. QED
          BY <3>2, <4>2, <4>3, <4>4
      <3>3. QED
        BY <3>1, <3>2
    <2>5. QED
      BY <2>3, <2>4
  <1>2. \A j \in 1 .. Len(s) : s[j].id # step.id
    BY DEF Ids
  <1>3. Distinct(new)
    <2>1. SUFFICES ASSUME NEW j \in 1 .. Len(s) + 1, NEW k \in 1 .. Len(s) + 1,
                          new[j].id = new[k].id
                   PROVE  j = k
      BY <1>1 DEF Distinct
    <2>2. CASE j = at \/ k = at
      <3>1. ASSUME NEW i \in 1 .. Len(s) + 1, i # at
            PROVE  new[i].id # step.id
        <4>1. CASE i < at
          <5>1. i \in 1 .. Len(s) /\ new[i] = s[i]
            BY <4>1, <1>1
          <5>2. QED
            BY <5>1, <1>2
        <4>2. CASE i > at
          <5>1. i - 1 \in 1 .. Len(s) /\ new[i] = s[i - 1]
            BY <4>2, <1>1
          <5>2. QED
            BY <5>1, <1>2
        <4>3. QED
          BY <3>1, <4>1, <4>2
      <3>2. new[at].id = step.id
        BY <1>1
      <3>3. QED
        BY <2>1, <2>2, <3>1, <3>2
    <2>3. CASE j # at /\ k # at
      <3> DEFINE old(x) == IF x < at THEN x ELSE x - 1
      <3>1. old(j) \in DOMAIN s /\ old(k) \in DOMAIN s
        BY <2>3
      <3>2. s[old(j)].id = s[old(k)].id
        BY <2>1, <2>3, <1>1
      <3>3. old(j) = old(k)
        BY <3>1, <3>2 DEF Distinct
      <3>4. QED
        BY <3>3, <2>3
    <2>4. QED
      BY <2>2, <2>3
  <1>4. Ids(new) = Ids(s) \cup {step.id}
    <2>1. ASSUME NEW j \in 1 .. Len(s) + 1
          PROVE  new[j].id = step.id \/ \E i \in 1 .. Len(s) : s[i].id = new[j].id
      <3>1. CASE j = at
        BY <3>1, <1>1
      <3>2. CASE j < at
        <4>1. j \in 1 .. Len(s) /\ s[j].id = new[j].id
          BY <3>2, <1>1
        <4>2. QED
          BY <4>1
      <3>3. CASE j > at
        <4>1. j - 1 \in 1 .. Len(s) /\ s[j - 1].id = new[j].id
          BY <3>3, <1>1
        <4>2. QED
          BY <4>1
      <3>4. QED
        BY <3>1, <3>2, <3>3
    <2>2. ASSUME NEW j \in 1 .. Len(s)
          PROVE  \E k \in 1 .. Len(s) + 1 : new[k].id = s[j].id
      <3>1. CASE j < at
        <4>1. j \in 1 .. Len(s) + 1 /\ new[j].id = s[j].id
          BY <3>1, <1>1
        <4>2. QED
          BY <4>1
      <3>2. CASE j >= at
        <4>1. j + 1 \in 1 .. Len(s) + 1 /\ new[j + 1].id = s[j].id
          BY <3>2, <1>1
        <4>2. QED
          BY <4>1
      <3>3. QED
        BY <3>1, <3>2
    <2>3. at \in 1 .. Len(s) + 1 /\ new[at].id = step.id
      BY <1>1
    <2>4. ASSUME NEW id
          PROVE  id \in Ids(new) <=> id \in Ids(s) \cup {step.id}
      <3>1. id \in Ids(new) <=> \E k \in 1 .. Len(s) + 1 : new[k].id = id
        BY <1>1, IdOf
      <3>2. id \in Ids(s) <=> \E k \in 1 .. Len(s) : s[k].id = id
        BY IdOf
      <3>3. QED
        BY <3>1, <3>2, <2>1, <2>2, <2>3
    <2>5. QED
      BY <2>4, SameSet
  <1>5. QED
    BY <1>1, <1>3, <1>4 DEF new

\* A deleted step takes its id with it and leaves the others (filter of the reducer).
LEMMA RemoveFacts ==
    ASSUME NEW s \in Seq(Step), Distinct(s), NEW at \in DOMAIN s
    PROVE  /\ RemoveAt(s, at) \in Seq(Step) /\ Distinct(RemoveAt(s, at))
           /\ Ids(RemoveAt(s, at)) = Ids(s) \ {s[at].id}
           /\ Len(RemoveAt(s, at)) = Len(s) - 1
  <1> DEFINE left == RemoveAt(s, at)
             old(j) == IF j < at THEN j ELSE j + 1
             front == SubSeq(s, 1, at - 1)
             back == SubSeq(s, at + 1, Len(s))
  <1>a. /\ front \in Seq(Step) /\ Len(front) = at - 1
        /\ \A j \in 1 .. at - 1 : front[j] = s[j]
    <2>1. \A j \in 1 .. at - 1 : s[j] \in Step
      OBVIOUS
    <2>2. QED
      BY <2>1, SubSeqProperties
  <1>b. /\ back \in Seq(Step) /\ Len(back) = Len(s) - at
        /\ \A j \in 1 .. Len(s) - at : back[j] = s[j + at]
    <2>1. \A j \in at + 1 .. Len(s) : s[j] \in Step
      OBVIOUS
    <2>2. QED
      BY <2>1, SubSeqProperties
  <1>c. left = front \o back
    BY DEF RemoveAt
  <1> HIDE DEF front, back, left
  <1>1. left \in Seq(Step) /\ Len(left) = Len(s) - 1
    BY <1>a, <1>b, <1>c
  <1>2. \A j \in 1 .. Len(s) - 1 : left[j] = s[old(j)]
    BY <1>a, <1>b, <1>c
  <1>3. \A j \in 1 .. Len(s) - 1 : old(j) \in 1 .. Len(s) /\ old(j) # at
    OBVIOUS
  <1>4. \A j, k \in 1 .. Len(s) - 1 : old(j) = old(k) => j = k
    OBVIOUS
  <1>5. \A i \in 1 .. Len(s) : i # at => \E j \in 1 .. Len(s) - 1 : old(j) = i
    <2>1. SUFFICES ASSUME NEW i \in 1 .. Len(s), i # at
                   PROVE  \E j \in 1 .. Len(s) - 1 : old(j) = i
      OBVIOUS
    <2>2. CASE i < at
      BY <2>1, <2>2
    <2>3. CASE i > at
      <3>1. i - 1 \in 1 .. Len(s) - 1 /\ old(i - 1) = i
        BY <2>3
      <3>2. QED
        BY <3>1
    <2>4. QED
      BY <2>1, <2>2, <2>3
  <1> HIDE DEF old
  <1>6. Distinct(left)
    BY <1>1, <1>2, <1>3, <1>4 DEF Distinct
  <1>7. Ids(left) = Ids(s) \ {s[at].id}
    <2>1. \A j \in 1 .. Len(s) - 1 : left[j].id # s[at].id /\ \E i \in 1 .. Len(s) : s[i].id = left[j].id
      BY <1>2, <1>3 DEF Distinct
    <2>2. \A i \in 1 .. Len(s) : s[i].id # s[at].id => \E j \in 1 .. Len(s) - 1 : left[j].id = s[i].id
      BY <1>2, <1>5
    <2>3. ASSUME NEW id
          PROVE  id \in Ids(left) <=> id \in Ids(s) \ {s[at].id}
      <3>1. id \in Ids(left) <=> \E k \in 1 .. Len(s) - 1 : left[k].id = id
        BY <1>1, IdOf
      <3>2. id \in Ids(s) <=> \E k \in 1 .. Len(s) : s[k].id = id
        BY IdOf
      <3>3. QED
        BY <3>1, <3>2, <2>1, <2>2
    <2>4. QED
      BY <2>3, SameSet
  <1>8. QED
    BY <1>1, <1>6, <1>7 DEF left

\* A recorded step is added under a new id.
LEMMA AppendFacts ==
    ASSUME NEW s \in Seq(Step), Distinct(s), NEW step \in Step, step.id \notin Ids(s)
    PROVE  /\ Append(s, step) \in Seq(Step) /\ Distinct(Append(s, step))
           /\ Ids(Append(s, step)) = Ids(s) \cup {step.id}
  <1>1. /\ Append(s, step) \in Seq(Step) /\ Len(Append(s, step)) = Len(s) + 1
        /\ \A i \in 1 .. Len(s) : Append(s, step)[i] = s[i]
        /\ Append(s, step)[Len(s) + 1] = step
    BY AppendProperties
  <1>2. \A i \in 1 .. Len(s) : s[i].id # step.id
    BY DEF Ids
  <1>3. DOMAIN Append(s, step) = 1 .. Len(s) + 1
    BY <1>1
  <1>4. Distinct(Append(s, step))
    BY <1>1, <1>2, <1>3 DEF Distinct
  <1> DEFINE new == Append(s, step)
  <1>5. Ids(new) = Ids(s) \cup {step.id}
    <2> HIDE DEF new
    <2>1. ASSUME NEW id
          PROVE  id \in Ids(new) <=> id \in Ids(s) \cup {step.id}
      <3>1. id \in Ids(new) <=> \E k \in 1 .. Len(s) + 1 : new[k].id = id
        <4>1. new \in Seq(Step) /\ Len(new) = Len(s) + 1
          BY <1>1 DEF new
        <4>2. QED
          BY <4>1, IdOf
      <3>2. id \in Ids(s) <=> \E k \in 1 .. Len(s) : s[k].id = id
        BY IdOf
      <3>3. (\E k \in 1 .. Len(s) + 1 : new[k].id = id)
              <=> (\E k \in 1 .. Len(s) : s[k].id = id) \/ id = step.id
        <4>1. \A k \in 1 .. Len(s) + 1 : k = Len(s) + 1 \/ k \in 1 .. Len(s)
          OBVIOUS
        <4>2. \A k \in 1 .. Len(s) : k \in 1 .. Len(s) + 1
          OBVIOUS
        <4>3. Len(s) + 1 \in 1 .. Len(s) + 1
          OBVIOUS
        <4>4. \A k \in 1 .. Len(s) : new[k] = s[k]
          BY <1>1 DEF new
        <4>5. new[Len(s) + 1] = step
          BY <1>1 DEF new
        <4>6. QED
          BY <4>1, <4>2, <4>3, <4>4, <4>5
      <3>4. QED
        BY <3>1, <3>2, <3>3
    <2>2. QED
      BY <2>1, SameSet
  <1>6. QED
    BY <1>1, <1>4, <1>5 DEF new

\* A move keeps the rows; a step switched or bound stays where it is.
LEMMA MoveFacts ==
    ASSUME NEW s \in Seq(Step), Distinct(s), NEW from \in DOMAIN s, NEW to \in DOMAIN s
    PROVE  Move(s, from, to) \in Seq(Step) /\ Distinct(Move(s, from, to)) /\ Ids(Move(s, from, to)) = Ids(s)
  <1> DEFINE rest == RemoveAt(s, from)
  <1>1. /\ rest \in Seq(Step) /\ Distinct(rest) /\ Ids(rest) = Ids(s) \ {s[from].id}
        /\ Len(rest) = Len(s) - 1
    BY RemoveFacts
  <1> HIDE DEF rest
  <1>2. to \in 1 .. Len(rest) + 1 /\ s[from] \in Step /\ s[from].id \notin Ids(rest)
    BY <1>1
  <1>3. /\ InsertAt(rest, to, s[from]) \in Seq(Step) /\ Distinct(InsertAt(rest, to, s[from]))
        /\ Ids(InsertAt(rest, to, s[from])) = Ids(rest) \cup {s[from].id}
    BY <1>1, <1>2, InsertFacts
  <1>4. s[from].id \in Ids(s)
    BY DEF Ids
  <1>5. QED
    BY <1>1, <1>3, <1>4 DEF Move, rest

\* A step switched on or off changes neither ids nor bindings.
LEMMA SwitchedFacts ==
    ASSUME NEW s \in Seq(Step), NEW id
    PROVE  /\ Switched(s, id) \in Seq(Step) /\ Len(Switched(s, id)) = Len(s)
           /\ \A i \in DOMAIN s : Switched(s, id)[i].id = s[i].id /\ Switched(s, id)[i].bind = s[i].bind
  <1>1. ASSUME NEW i \in DOMAIN s
        PROVE  [s[i] EXCEPT !.on = ~@] \in Step
    <2>1. s[i] \in Step
      OBVIOUS
    <2>2. QED
      BY <2>1 DEF Step
  <1>2. Switched(s, id) \in [1 .. Len(s) -> Step]
    BY <1>1 DEF Switched
  <1>3. \A i \in DOMAIN s : Switched(s, id)[i].id = s[i].id /\ Switched(s, id)[i].bind = s[i].bind
    BY DEF Switched, Step
  <1>4. QED
    BY <1>2, <1>3

\* A binding set changes the rows of one id alone.
LEMMA BindFacts ==
    ASSUME NEW s \in Seq(Step), NEW id, NEW b \in Binding
    PROVE  /\ Bind(s, id, b) \in Seq(Step) /\ Len(Bind(s, id, b)) = Len(s)
           /\ \A i \in DOMAIN s :
                /\ Bind(s, id, b)[i].id = s[i].id
                /\ Bind(s, id, b)[i].bind = IF s[i].id = id THEN b ELSE s[i].bind
  <1>1. ASSUME NEW i \in DOMAIN s
        PROVE  [s[i] EXCEPT !.bind = b] \in Step
    <2>1. s[i] \in Step
      OBVIOUS
    <2>2. QED
      BY <2>1 DEF Step
  <1>2. Bind(s, id, b) \in [1 .. Len(s) -> Step]
    BY <1>1 DEF Bind
  <1>3. \A i \in DOMAIN s : /\ Bind(s, id, b)[i].id = s[i].id
                            /\ Bind(s, id, b)[i].bind = IF s[i].id = id THEN b ELSE s[i].bind
    BY DEF Bind, Step
  <1>4. QED
    BY <1>2, <1>3

\* Rows with the same ids in the same places.
LEMMA SameIds ==
    ASSUME NEW s \in Seq(Step), NEW t \in Seq(Step), Len(t) = Len(s),
           \A i \in DOMAIN s : t[i].id = s[i].id
    PROVE  Ids(t) = Ids(s) /\ (Distinct(s) => Distinct(t))
  <1>1. DOMAIN t = DOMAIN s
    OBVIOUS
  <1>2. QED
    BY <1>1 DEF Ids, Distinct

-----------------------------------------------------------------------------
(* The store *)

\* Versions are only added.
Grows ==
    /\ Len(versions) <= Len(versions')
    /\ \A n \in DOMAIN versions : n \in DOMAIN versions' /\ versions'[n] = versions[n]

\* What may become the next version.
NewVersion(v) ==
    /\ Distinct(v.steps) /\ v.key <= keys /\ v.save = v.key
    /\ Seen(versions[Len(versions)].steps, v.steps, v.shown)
    /\ \A a \in Sent : a.key = v.key => v.steps = a.steps
    /\ \A c \in Caller : answers[c].code = "conflict" => v.key # answers[c].save

\* There is a latest version.
LEMMA LastVersion ==
    ASSUME StoreTypes
    PROVE  /\ Len(versions) \in DOMAIN versions /\ Len(versions) \in Nat
           /\ DOMAIN versions = 1 .. Len(versions)
  BY EmptySeq DEF StoreTypes

\* A stored version is answered as a document.
LEMMA VersionType ==
    ASSUME StoreTypes, NEW n \in DOMAIN versions
    PROVE  versions[n] \in Snapshot /\ Version(n) \in Doc
  <1>1. versions[n] \in Snapshot /\ n \in Nat
    BY DEF StoreTypes
  <1>2. QED
    BY <1>1 DEF Snapshot, Version, Doc

\* A call that saves becomes a version of its rows.
LEMMA SnapshotType ==
    ASSUME StoreTypes, NEW call \in CallRec
    PROVE  NextSnapshot(call) \in Snapshot
  <1>1. Current \in Doc
    BY LastVersion, VersionType DEF Current
  <1>2. Current.status \in {"draft", "complete"}
    BY <1>1 DEF Doc
  <1>3. QED
    BY <1>2 DEF CallRec, Snapshot, NextSnapshot

\* What a stored version adds to the versions.
LEMMA Appended ==
    ASSUME StoreTypes, NEW v \in Snapshot, versions' = Append(versions, v)
    PROVE  /\ versions' \in Seq(Snapshot) /\ versions' # <<>>
           /\ Len(versions') = Len(versions) + 1
           /\ DOMAIN versions' = 1 .. Len(versions) + 1
           /\ \A n \in 1 .. Len(versions) : versions'[n] = versions[n]
           /\ versions'[Len(versions) + 1] = v
           /\ Grows
  <1>1. /\ versions' \in Seq(Snapshot) /\ Len(versions') = Len(versions) + 1
        /\ \A n \in 1 .. Len(versions) : versions'[n] = versions[n]
        /\ versions'[Len(versions) + 1] = v
    BY AppendProperties DEF StoreTypes
  <1>2. Len(versions) \in Nat /\ DOMAIN versions = 1 .. Len(versions)
    BY LastVersion
  <1>3. DOMAIN versions' = 1 .. Len(versions) + 1
    BY <1>1
  <1>4. versions' # <<>>
    BY <1>1, <1>2, <1>3
  <1>5. Grows
    BY <1>1, <1>2, <1>3 DEF Grows
  <1>6. QED
    BY <1>1, <1>3, <1>4, <1>5

\* A step that sends nothing and adds at most one version, which was sent or is new.
LEMMA SentKept ==
    ASSUME StoreTypes, SentInv, VersionInv, UNCHANGED <<backing, keys>>, Sent' \subseteq Sent,
           \/ versions' = versions
           \/ \E v \in Snapshot :
                /\ versions' = Append(versions, v) /\ NewVersion(v)
                /\ backing = "file" => \A a \in Sent' : a.key # v.key
    PROVE  SentInv' /\ VersionInv' /\ Grows
  <1>0. Len(versions) \in Nat /\ DOMAIN versions = 1 .. Len(versions) /\ Len(versions) \in DOMAIN versions
    BY LastVersion
  <1>1. CASE versions' = versions
    <2>1. Grows
      BY <1>1, <1>0 DEF Grows
    <2>2. VersionInv'
      BY <1>1 DEF VersionInv
    <2>3. SentInv'
      BY <1>1 DEF SentInv
    <2>4. QED
      BY <2>1, <2>2, <2>3
  <1>2. ASSUME NEW v \in Snapshot, versions' = Append(versions, v), NewVersion(v),
               backing = "file" => \A a \in Sent' : a.key # v.key
        PROVE  SentInv' /\ VersionInv' /\ Grows
    <2>1. /\ Len(versions') = Len(versions) + 1 /\ DOMAIN versions' = 1 .. Len(versions) + 1
          /\ \A n \in 1 .. Len(versions) : versions'[n] = versions[n]
          /\ versions'[Len(versions) + 1] = v /\ Grows
      BY <1>2, Appended
    <2>2. \A n \in 1 .. Len(versions) + 1 : n = Len(versions) + 1 \/ n \in 1 .. Len(versions)
      BY <1>0
    <2>3. VersionInv'
      <3>1. ASSUME NEW n \in DOMAIN versions'
            PROVE  /\ Distinct(versions'[n].steps)
                   /\ versions'[n].key <= keys' /\ versions'[n].save = versions'[n].key
        BY <1>0, <1>2, <2>1, <2>2 DEF VersionInv, NewVersion
      <3>2. ASSUME NEW n \in 2 .. Len(versions')
            PROVE  Seen(versions'[n - 1].steps, versions'[n].steps, versions'[n].shown)
        <4>1. CASE n = Len(versions) + 1
          <5>1. n - 1 = Len(versions) /\ versions'[n - 1] = versions[Len(versions)] /\ versions'[n] = v
            BY <4>1, <1>0, <2>1
          <5>2. QED
            BY <5>1, <1>2 DEF NewVersion
        <4>2. CASE n # Len(versions) + 1
          <5>1. /\ n \in 2 .. Len(versions) /\ versions'[n - 1] = versions[n - 1]
                /\ versions'[n] = versions[n]
            BY <4>2, <1>0, <2>1
          <5>2. QED
            BY <5>1 DEF VersionInv
        <4>3. QED
          BY <4>1, <4>2
      <3>3. QED
        BY <3>1, <3>2 DEF VersionInv
    <2>4. SentInv'
      <3>1. ASSUME NEW a \in Sent'
            PROVE  /\ a.key \in 1 .. keys' /\ a.expected \in DOMAIN versions' /\ Distinct(a.steps)
                   /\ Seen(versions'[a.expected].steps, a.steps, a.shown)
        <4>1. /\ a.key \in 1 .. keys /\ a.expected \in 1 .. Len(versions) /\ Distinct(a.steps)
              /\ Seen(versions[a.expected].steps, a.steps, a.shown)
          BY <1>0 DEF SentInv
        <4>2. a.expected \in 1 .. Len(versions) + 1
          BY <4>1, <1>0
        <4>3. QED
          BY <4>1, <4>2, <2>1
      <3>2. ASSUME NEW a \in Sent', NEW n \in DOMAIN versions', versions'[n].key = a.key
            PROVE  versions'[n].steps = a.steps
        <4>1. a \in Sent
          OBVIOUS
        <4>2. CASE n = Len(versions) + 1
          BY <3>2, <4>1, <4>2, <1>2, <2>1 DEF NewVersion
        <4>3. CASE n \in 1 .. Len(versions)
          <5>1. versions'[n] = versions[n] /\ n \in DOMAIN versions
            BY <4>3, <1>0, <2>1
          <5>2. QED
            BY <3>2, <4>1, <5>1 DEF SentInv
        <4>4. QED
          BY <4>2, <4>3, <2>1, <2>2
      <3>3. \A a, b \in Sent' : a.key = b.key => a = b
        BY DEF SentInv
      <3>4. ASSUME NEW a \in Sent', NEW n \in DOMAIN versions', backing' = "file"
            PROVE  versions'[n].key # a.key
        <4>1. a \in Sent /\ backing = "file"
          BY <3>4
        <4>2. CASE n = Len(versions) + 1
          BY <4>1, <4>2, <1>2, <2>1
        <4>3. CASE n \in 1 .. Len(versions)
          <5>1. versions'[n] = versions[n] /\ n \in DOMAIN versions
            BY <4>3, <1>0, <2>1
          <5>2. QED
            BY <4>1, <5>1 DEF SentInv
        <4>4. QED
          BY <4>2, <4>3, <2>1, <2>2
      <3>5. QED
        BY <3>1, <3>2, <3>3, <3>4 DEF SentInv
    <2>5. QED
      BY <2>1, <2>3, <2>4
  <1>3. QED
    BY <1>1, <1>2

\* An answer stays true when versions are added whose keys are not of refused saves.
LEMMA AnswersKept ==
    ASSUME StoreTypes, AnswerInv, Sent' \subseteq Sent, SentInv,
           \/ versions' = versions
           \/ \E v \in Snapshot : versions' = Append(versions, v) /\ NewVersion(v),
           \A c \in Caller : answers'[c] = answers[c] \/ AnswerIs(c)'
    PROVE  AnswerInv'
  <1>1. SUFFICES ASSUME NEW c \in Caller, answers'[c] = answers[c] PROVE AnswerIs(c)'
    BY DEF AnswerInv
  <1>2. AnswerIs(c)
    BY DEF AnswerInv
  <1>0. Len(versions) \in Nat /\ DOMAIN versions = 1 .. Len(versions)
    BY LastVersion
  <1>3. CASE versions' = versions
    BY <1>1, <1>2, <1>3 DEF AnswerIs, Version
  <1>4. ASSUME NEW v \in Snapshot, versions' = Append(versions, v), NewVersion(v)
        PROVE  AnswerIs(c)'
    <2>1. /\ Len(versions') = Len(versions) + 1 /\ DOMAIN versions' = 1 .. Len(versions) + 1
          /\ \A n \in 1 .. Len(versions) : versions'[n] = versions[n]
          /\ versions'[Len(versions) + 1] = v
      BY <1>4, Appended
    <2>2. \A n \in 1 .. Len(versions) + 1 : n = Len(versions) + 1 \/ n \in 1 .. Len(versions)
      BY <1>0
    <2>3. ASSUME answers'[c].code = "ok"
          PROVE  answers'[c].doc.rev \in DOMAIN versions' /\ answers'[c].doc = Version(answers[c].doc.rev)'
      <3>1. /\ answers[c].doc.rev \in 1 .. Len(versions)
            /\ answers[c].doc = Version(answers[c].doc.rev)
        BY <2>3, <1>0, <1>1, <1>2 DEF AnswerIs
      <3>2. answers[c].doc.rev \in 1 .. Len(versions) + 1
        BY <3>1, <1>0
      <3>3. Version(answers[c].doc.rev)' = Version(answers[c].doc.rev)
        BY <3>1, <1>1, <2>1 DEF Version
      <3>4. QED
        BY <3>1, <3>2, <3>3, <1>1, <2>1
    <2>4. ASSUME answers'[c].code = "conflict"
          PROVE  /\ answers'[c].save # 0
                 /\ \A n \in DOMAIN versions' : versions'[n].key # answers'[c].save
                 /\ \A a \in Sent' : a.key = answers'[c].save => a.expected < Len(versions')
      <3>1. /\ answers[c].save # 0
            /\ \A n \in 1 .. Len(versions) : versions[n].key # answers[c].save
            /\ \A a \in Sent : a.key = answers[c].save => a.expected < Len(versions)
        BY <2>4, <1>0, <1>1, <1>2 DEF AnswerIs
      <3>2. v.key # answers[c].save
        BY <2>4, <1>1, <1>4 DEF NewVersion
      <3>3. \A n \in DOMAIN versions' : versions'[n].key # answers'[c].save
        BY <3>1, <3>2, <2>1, <2>2, <1>1
      <3>4. ASSUME NEW a \in Sent', a.key = answers'[c].save
            PROVE  a.expected < Len(versions')
        <4>1. a.expected \in 1 .. Len(versions) /\ a.expected < Len(versions)
          BY <3>1, <3>4, <1>0, <1>1 DEF SentInv
        <4>2. QED
          BY <4>1, <2>1, <1>0
      <3>5. QED
        BY <3>1, <3>3, <3>4, <1>1
    <2>5. QED
      BY <2>3, <2>4 DEF AnswerIs, Version
  <1>5. QED
    BY <1>3, <1>4

\* The store's invariant when versions are added and what is sent only shrinks.
LEMMA StoreKept ==
    ASSUME StoreTypes, StoreInv, CallInv', UNCHANGED <<backing, keys>>, Sent' \subseteq Sent,
           \/ versions' = versions
           \/ \E v \in Snapshot :
                /\ versions' = Append(versions, v) /\ NewVersion(v)
                /\ backing = "file" => \A a \in Sent' : a.key # v.key,
           \A c \in Caller : answers'[c] = answers[c] \/ AnswerIs(c)'
    PROVE  StoreInv' /\ Grows
  <1>1. SentInv /\ VersionInv /\ AnswerInv
    BY DEF StoreInv
  <1>2. SentInv' /\ VersionInv' /\ Grows
    BY <1>1, SentKept
  <1>3. AnswerInv'
    BY <1>1, AnswersKept
  <1>4. QED
    BY <1>2, <1>3 DEF StoreInv

\* Nothing new is sent.
LEMMA SentShrinks ==
    ASSUME \A c \in Caller : Saves(calls'[c]) => What(calls'[c]) \in Sent,
           \A l \in late' : What(l) \in Sent
    PROVE  Sent' \subseteq Sent
  <1> DEFINE S == Sent
  <1>1. \A c \in Caller : Saves(calls'[c]) => What(calls'[c]) \in S
    OBVIOUS
  <1>2. \A l \in late' : What(l) \in S
    OBVIOUS
  <1> HIDE DEF S
  <1>3. Sent' \subseteq S
    BY <1>1, <1>2 DEF Sent
  <1>4. QED
    BY <1>3 DEF S

\* A save in flight, or handled late, is among the saves sent.
LEMMA SentHas ==
    ASSUME StoreTypes
    PROVE  /\ \A c \in Caller : Saves(calls[c]) => What(calls[c]) \in Sent
           /\ \A l \in late : What(l) \in Sent
  BY DEF Sent

\* The version a save makes, if it is compared with the latest and was not stored before.
LEMMA SaveStored ==
    ASSUME StoreTypes, StoreInv, NEW call \in CallRec, Saves(call), What(call) \in Sent,
           call.save = call.key, call.expected = Len(versions), ~Handled(call)
    PROVE  NextSnapshot(call) \in Snapshot /\ NewVersion(NextSnapshot(call))
  <1> DEFINE v == NextSnapshot(call)
             a == What(call)
  <1>1. v \in Snapshot
    BY SnapshotType
  <1>2. v.steps = call.steps /\ v.key = call.key /\ v.save = call.key /\ v.shown = call.shown
    BY DEF NextSnapshot
  <1>3. a.key = call.key /\ a.steps = call.steps /\ a.expected = Len(versions) /\ a.shown = call.shown
    BY DEF What
  <1> HIDE DEF v, a
  <1>4. a \in Sent
    BY DEF a
  <1>5. a.key \in 1 .. keys /\ Distinct(a.steps) /\ Seen(versions[a.expected].steps, a.steps, a.shown)
    BY <1>4 DEF StoreInv, SentInv
  <1>6. \A b \in Sent : b.key = v.key => v.steps = b.steps
    BY <1>2, <1>3, <1>4 DEF StoreInv, SentInv
  <1>7. ASSUME NEW c \in Caller, answers[c].code = "conflict"
        PROVE  v.key # answers[c].save
    <2>1. AnswerIs(c)
      BY DEF StoreInv, AnswerInv
    <2>2. a.key = answers[c].save => a.expected < Len(versions)
      BY <2>1, <1>4, <1>7 DEF AnswerIs
    <2>3. Len(versions) \in Nat
      BY LastVersion
    <2>4. QED
      BY <2>2, <2>3, <1>2, <1>3
  <1>8. NewVersion(v)
    <2>1. keys \in Nat
      BY DEF StoreTypes
    <2>2. QED
      BY <2>1, <1>2, <1>3, <1>5, <1>6, <1>7 DEF NewVersion
  <1>9. QED
    BY <1>1, <1>8 DEF v

\* What a step of the store does to what a caller sees: nothing, or it answers.
Keeps(c) ==
    \/ /\ answers'[c] = answers[c] /\ calls'[c].kind = calls[c].kind
       /\ Saves(calls[c]) => calls'[c].steps = calls[c].steps
    \/ /\ calls[c].kind # "none" /\ calls'[c].kind = "none" /\ answers'[c].code # "none"
       /\ answers'[c].code = "ok" /\ Saves(calls[c]) => answers'[c].doc.steps = calls[c].steps
StoreEffect == Grows /\ \A c \in Caller : Keeps(c)

StoreStep == StoreTypes' /\ StoreInv' /\ StoreEffect

\* A caller that waits for nothing.
LEMMA NoCallType == NoCall \in CallRec /\ NoCall.kind = "none" /\ NoCall.phase = "idle"
                    /\ NoCall.save = 0 /\ NoCall.key = 0 /\ ~Saves(NoCall)
                    /\ NoDoc \in Doc
  BY EmptySeq DEF NoCall, Call, CallRec, Saves, Doc, NoDoc

\* A caller is answered and waits no more.
LEMMA Answering ==
    ASSUME StoreTypes, StoreInv, NEW c \in Caller, calls[c].kind # "none",
           NEW code \in {"ok", "conflict", "error"}, NEW doc \in Doc, Answer(c, code, doc),
           UNCHANGED <<backing, keys>>,
           late' \subseteq late \/ (late' \subseteq late \cup {calls[c]} /\ backing = "relay" /\ Saves(calls[c])),
           versions' = versions \/ \A d \in Caller : calls[d].phase = "locked" => d = c,
           code = "ok" /\ Saves(calls[c]) => doc.steps = calls[c].steps
    PROVE  /\ calls' \in [Caller -> CallRec] /\ answers' \in [Caller -> AnswerRec]
           /\ CallInv' /\ Sent' \subseteq Sent
           /\ answers'[c] = [code |-> code, doc |-> doc, save |-> calls[c].save]
           /\ \A d \in Caller : d # c => answers'[d] = answers[d]
           /\ Grows => StoreEffect
  <1>1. /\ calls \in [Caller -> CallRec] /\ answers \in [Caller -> AnswerRec]
        /\ calls[c] \in CallRec /\ calls[c].save \in Nat
    BY DEF StoreTypes, CallRec
  <1>2. /\ \A d \in Caller : calls'[d] = IF d = c THEN NoCall ELSE calls[d]
        /\ \A d \in Caller : d # c => answers'[d] = answers[d]
        /\ answers'[c] = [code |-> code, doc |-> doc, save |-> calls[c].save]
    BY <1>1 DEF Answer
  <1>3. answers'[c] \in AnswerRec
    BY <1>1, <1>2 DEF AnswerRec
  <1>4. answers' \in [Caller -> AnswerRec] /\ calls' \in [Caller -> CallRec]
    BY <1>1, <1>2, <1>3, NoCallType DEF Answer
  <1>5. Sent' \subseteq Sent
    BY <1>2, SentShrinks, SentHas, NoCallType
  <1>6. CallInv'
    <2>1. ASSUME NEW d \in Caller
          PROVE  /\ calls'[d].phase = "idle" <=> calls'[d].kind = "none"
                 /\ calls'[d].phase = "locked" =>
                      backing' = "file" /\ Saves(calls'[d]) /\ calls'[d].expected = Len(versions')
                 /\ answers'[d].code # "none" => calls'[d].kind = "none"
                 /\ calls'[d].save = calls'[d].key /\ calls'[d].key <= keys'
                 /\ answers'[d].save <= keys'
      <3>1. CASE d = c
        <4>1. calls[c].save <= keys /\ 0 <= keys
          BY DEF StoreInv, CallInv, StoreTypes
        <4>2. QED
          BY <3>1, <4>1, <1>2, NoCallType
      <3>2. CASE d # c
        BY <3>2, <1>2 DEF StoreInv, CallInv
      <3>3. QED
        BY <3>1, <3>2
    <2>2. \A d, e \in Caller : calls'[d].phase = "locked" /\ calls'[e].phase = "locked" => d = e
      BY <1>2, NoCallType DEF StoreInv, CallInv
    <2>3. \A d, e \in Caller : Saves(calls'[d]) /\ Saves(calls'[e]) /\ calls'[d].key = calls'[e].key => d = e
      BY <1>2, NoCallType DEF StoreInv, CallInv
    <2>4. \A l \in late' : backing' = "relay" /\ Saves(l) /\ l.save = l.key
      BY DEF StoreInv, CallInv
    <2>5. QED
      BY <2>1, <2>2, <2>3, <2>4 DEF CallInv
  <1>7. ASSUME Grows PROVE StoreEffect
    BY <1>2, <1>7, NoCallType DEF StoreEffect, Keeps
  <1>8. QED
    BY <1>2, <1>4, <1>5, <1>6, <1>7

\* A read is answered with the latest version.
LEMMA GetAnswered ==
    ASSUME StoreTypes, StoreInv, NEW c \in Caller, calls[c].kind = "get", Answer(c, "ok", Current),
           UNCHANGED <<backing, versions, late, keys, faults>>
    PROVE  StoreStep
  <1>1. Current \in Doc /\ Current.rev \in DOMAIN versions /\ Current = Version(Current.rev)
    BY LastVersion, VersionType DEF Current, Version
  <1>2. ~Saves(calls[c])
    BY DEF Saves
  <1>3. /\ calls' \in [Caller -> CallRec] /\ answers' \in [Caller -> AnswerRec]
        /\ CallInv' /\ Sent' \subseteq Sent
        /\ answers'[c] = [code |-> "ok", doc |-> Current, save |-> calls[c].save]
        /\ \A d \in Caller : d # c => answers'[d] = answers[d]
        /\ Grows => StoreEffect
    BY <1>1, <1>2, Answering
  <1>4. AnswerIs(c)'
    BY <1>1, <1>3 DEF AnswerIs, Version
  <1>5. StoreInv' /\ Grows
    BY <1>3, <1>4, StoreKept
  <1>6. StoreTypes'
    BY <1>3 DEF StoreTypes
  <1>7. QED
    BY <1>3, <1>5, <1>6 DEF StoreStep

\* A call that fails is answered with an error; nothing is stored.
LEMMA ErrorAnswered ==
    ASSUME StoreTypes, StoreInv, NEW c \in Caller, calls[c].kind # "none", Answer(c, "error", NoDoc),
           UNCHANGED <<backing, versions, late, keys>>, faults' \in Nat
    PROVE  StoreStep
  <1>3. /\ calls' \in [Caller -> CallRec] /\ answers' \in [Caller -> AnswerRec]
        /\ CallInv' /\ Sent' \subseteq Sent
        /\ answers'[c] = [code |-> "error", doc |-> NoDoc, save |-> calls[c].save]
        /\ \A d \in Caller : d # c => answers'[d] = answers[d]
        /\ Grows => StoreEffect
    BY NoCallType, Answering
  <1>4. AnswerIs(c)'
    BY <1>3 DEF AnswerIs
  <1>5. StoreInv' /\ Grows
    BY <1>3, <1>4, StoreKept
  <1>6. StoreTypes'
    BY <1>3 DEF StoreTypes
  <1>7. QED
    BY <1>3, <1>5, <1>6 DEF StoreStep

\* A save compared with another version than the latest, and stored under no key.
LEMMA ConflictAnswered ==
    ASSUME StoreTypes, StoreInv, NEW c \in Caller, Saves(calls[c]), ~Handled(calls[c]),
           ~AssertRevision(calls[c]), Answer(c, "conflict", NoDoc),
           UNCHANGED <<backing, versions, late, keys, faults>>
    PROVE  StoreStep
  <1> DEFINE call == calls[c]
  <1>1. call.kind # "none"
    BY DEF Saves
  <1>2. /\ calls' \in [Caller -> CallRec] /\ answers' \in [Caller -> AnswerRec]
        /\ CallInv' /\ Sent' \subseteq Sent
        /\ answers'[c] = [code |-> "conflict", doc |-> NoDoc, save |-> calls[c].save]
        /\ \A d \in Caller : d # c => answers'[d] = answers[d]
        /\ Grows => StoreEffect
    BY <1>1, NoCallType, Answering
  <1>3. What(call) \in Sent /\ What(call).key = call.key /\ What(call).expected = call.expected
    BY SentHas DEF What
  <1>4. call.save = call.key
    BY DEF StoreInv, CallInv
  <1>5. call.key \in 1 .. keys /\ call.expected \in DOMAIN versions
    BY <1>3 DEF StoreInv, SentInv
  <1>6. call.expected < Len(versions)
    BY <1>5, LastVersion DEF AssertRevision
  <1>7. \A a \in Sent : a.key = call.key => a.expected = call.expected
    BY <1>3 DEF StoreInv, SentInv
  <1>8. \A n \in DOMAIN versions : versions[n].key # call.key
    BY DEF Handled
  <1>9. call.key # 0
    BY <1>5
  <1>10. answers'[c].code = "conflict" /\ answers'[c].save = call.key
    BY <1>2, <1>4
  <1> HIDE DEF call
  <1>11. AnswerIs(c)'
    BY <1>2, <1>6, <1>7, <1>8, <1>9, <1>10 DEF AnswerIs
  <1>12. StoreInv' /\ Grows
    BY <1>2, <1>11, StoreKept
  <1>13. StoreTypes'
    BY <1>2 DEF StoreTypes
  <1>14. QED
    BY <1>2, <1>12, <1>13 DEF StoreStep

\* A save is stored and its caller told so.
LEMMA SaveAnswered ==
    ASSUME StoreTypes, StoreInv, NEW c \in Caller, Saves(calls[c]), ~Handled(calls[c]),
           AssertRevision(calls[c]), versions' = Append(versions, NextSnapshot(calls[c])),
           NEW doc, doc = Current', Answer(c, "ok", doc),
           \A d \in Caller : calls[d].phase = "locked" => d = c,
           UNCHANGED <<backing, late, keys, faults>>
    PROVE  StoreStep
  <1> DEFINE v == NextSnapshot(calls[c])
  <1>1. calls[c] \in CallRec /\ calls[c].kind # "none"
    BY DEF Saves, StoreTypes
  <1>2. What(calls[c]) \in Sent
    BY SentHas
  <1>3. calls[c].save = calls[c].key /\ calls[c].expected = Len(versions)
    BY DEF StoreInv, CallInv, AssertRevision
  <1>4. v \in Snapshot /\ NewVersion(v)
    BY <1>1, <1>2, <1>3, SaveStored
  <1>5. v.steps = calls[c].steps /\ v.key = calls[c].key
    BY DEF NextSnapshot
  <1> HIDE DEF v
  <1>6. versions' = Append(versions, v)
    BY DEF v
  <1>7. /\ versions' \in Seq(Snapshot) /\ versions' # <<>>
        /\ Len(versions') = Len(versions) + 1 /\ versions'[Len(versions) + 1] = v
        /\ DOMAIN versions' = 1 .. Len(versions) + 1 /\ Len(versions) \in Nat /\ Grows
    BY <1>4, <1>6, Appended, LastVersion
  <1>8. doc.rev \in DOMAIN versions' /\ doc = Version(doc.rev)' /\ doc.steps = v.steps
        /\ doc = [steps |-> v.steps, rev |-> Len(versions) + 1, status |-> v.status]
    BY <1>7 DEF Current, Version
  <1>9. doc \in Doc
    BY <1>4, <1>7, <1>8 DEF Doc, Snapshot
  <1>10. /\ calls' \in [Caller -> CallRec] /\ answers' \in [Caller -> AnswerRec]
         /\ CallInv' /\ Sent' \subseteq Sent
         /\ answers'[c] = [code |-> "ok", doc |-> doc, save |-> calls[c].save]
         /\ \A d \in Caller : d # c => answers'[d] = answers[d]
         /\ Grows => StoreEffect
    BY <1>1, <1>5, <1>8, <1>9, Answering
  <1>11. AnswerIs(c)'
    BY <1>8, <1>10 DEF AnswerIs, Version
  <1>12. ASSUME backing = "file", NEW a \in Sent'
         PROVE  a.key # v.key
    <2>1. late' = {}
      BY <1>12 DEF StoreInv, CallInv
    <2>2. PICK d \in Caller : Saves(calls'[d]) /\ a = What(calls'[d])
      BY <2>1, <1>12 DEF Sent
    <2>3. d # c /\ calls'[d] = calls[d]
      BY <2>2, NoCallType DEF Answer, StoreTypes
    <2>4. QED
      BY <2>2, <2>3, <1>5 DEF StoreInv, CallInv, What
  <1>13. StoreInv' /\ Grows
    BY <1>4, <1>6, <1>10, <1>11, <1>12, StoreKept
  <1>14. StoreTypes'
    BY <1>7, <1>10 DEF StoreTypes
  <1>15. QED
    BY <1>10, <1>13, <1>14 DEF StoreStep

\* The file: a save that waits for the lock or holds it is stored nowhere yet.
LEMMA FileSteps ==
    ASSUME StoreTypes, StoreInv, NEW c \in Caller
    PROVE  /\ FileGet(c) => StoreStep
           /\ FileRead(c) => StoreStep
           /\ FileWrite(c) => StoreStep
           /\ FileWriteFails(c) => StoreStep
  <1>1. ASSUME FileGet(c) PROVE StoreStep
    BY <1>1, GetAnswered DEF FileGet
  <1>2. ASSUME backing = "file", Saves(calls[c]) PROVE ~Handled(calls[c])
    <2>1. What(calls[c]) \in Sent /\ What(calls[c]).key = calls[c].key
      BY <1>2, SentHas DEF What
    <2>2. QED
      BY <2>1, <1>2 DEF StoreInv, SentInv, Handled
  <1>3. ASSUME FileRead(c), ~AssertRevision(calls[c]) PROVE StoreStep
    BY <1>2, <1>3, ConflictAnswered DEF FileRead, Saves
  <1>4. ASSUME FileRead(c), AssertRevision(calls[c]) PROVE StoreStep
    <2>1. /\ backing = "file" /\ Saves(calls[c]) /\ calls[c].phase = "sent"
          /\ \A d \in Caller : calls[d].phase # "locked"
          /\ calls' = [calls EXCEPT ![c].phase = "locked"] /\ calls[c].expected = Len(versions)
          /\ UNCHANGED <<backing, versions, answers, late, keys, faults>>
      BY <1>4 DEF FileRead, Saves, LockFree, AssertRevision
    <2>2. calls \in [Caller -> CallRec] /\ calls[c] \in CallRec
      BY DEF StoreTypes
    <2>3. [calls[c] EXCEPT !.phase = "locked"] \in CallRec
      BY <2>2 DEF CallRec
    <2>4. \A d \in Caller : calls'[d] = IF d = c THEN [calls[c] EXCEPT !.phase = "locked"] ELSE calls[d]
      BY <2>1, <2>2
    <2>5. /\ calls'[c].phase = "locked" /\ calls'[c].kind = calls[c].kind /\ calls'[c].steps = calls[c].steps
          /\ calls'[c].key = calls[c].key /\ calls'[c].save = calls[c].save
          /\ calls'[c].expected = calls[c].expected /\ calls'[c].shown = calls[c].shown
      BY <2>2, <2>4 DEF CallRec
    <2>6. calls' \in [Caller -> CallRec]
      BY <2>1, <2>2, <2>3
    <2>7. Sent' \subseteq Sent
      <3>1. \A d \in Caller : Saves(calls'[d]) <=> Saves(calls[d])
        BY <2>4, <2>5 DEF Saves
      <3>2. \A d \in Caller : What(calls'[d]) = What(calls[d])
        BY <2>4, <2>5 DEF What
      <3>3. QED
        BY <3>1, <3>2, <2>1, SentHas, SentShrinks
    <2>8. CallInv'
      BY <2>1, <2>4, <2>5 DEF StoreInv, CallInv, Saves
    <2>9. StoreInv' /\ Grows
      BY <2>1, <2>7, <2>8, StoreKept
    <2>10. StoreTypes'
      BY <2>1, <2>6 DEF StoreTypes
    <2>11. StoreEffect
      BY <2>1, <2>4, <2>5, <2>9 DEF StoreEffect, Keeps
    <2>12. QED
      BY <2>9, <2>10, <2>11 DEF StoreStep
  <1>5. ASSUME FileWrite(c) PROVE StoreStep
    <2>1. backing = "file" /\ Saves(calls[c]) /\ AssertRevision(calls[c])
          /\ \A d \in Caller : calls[d].phase = "locked" => d = c
      BY <1>5 DEF FileWrite, StoreInv, CallInv, AssertRevision
    <2>2. QED
      BY <2>1, <1>2, <1>5, SaveAnswered DEF FileWrite
  <1>6. ASSUME FileWriteFails(c) PROVE StoreStep
    <2>1. calls[c].kind # "none" /\ faults' \in Nat
      BY <1>6 DEF FileWriteFails, Fault, StoreInv, CallInv, Saves, StoreTypes
    <2>2. QED
      BY <2>1, <1>6, ErrorAnswered DEF FileWriteFails
  <1>7. QED
    BY <1>1, <1>3, <1>4, <1>5, <1>6

\* Relay: a key it knows is answered with the version stored under it.
LEMMA KnownAnswered ==
    ASSUME StoreTypes, StoreInv, NEW c \in Caller, Saves(calls[c]), Handled(calls[c]),
           NEW n \in DOMAIN versions, calls[c].key = versions[n].key, Answer(c, "ok", Version(n)),
           UNCHANGED <<backing, versions, late, keys, faults>>
    PROVE  StoreStep
  <1>1. Version(n) \in Doc /\ calls[c].kind # "none"
    BY VersionType DEF Saves
  <1>2. What(calls[c]) \in Sent /\ What(calls[c]).key = calls[c].key /\ What(calls[c]).steps = calls[c].steps
    BY SentHas DEF What
  <1>3. versions[n].steps = calls[c].steps
    BY <1>2 DEF StoreInv, SentInv
  <1>4. Version(n).steps = calls[c].steps /\ Version(n).rev = n
    BY <1>3 DEF Version
  <1>5. /\ calls' \in [Caller -> CallRec] /\ answers' \in [Caller -> AnswerRec]
        /\ CallInv' /\ Sent' \subseteq Sent
        /\ answers'[c] = [code |-> "ok", doc |-> Version(n), save |-> calls[c].save]
        /\ \A d \in Caller : d # c => answers'[d] = answers[d]
        /\ Grows => StoreEffect
    BY <1>1, <1>4, Answering
  <1>6. AnswerIs(c)'
    BY <1>4, <1>5 DEF AnswerIs, Version
  <1>7. StoreInv' /\ Grows
    BY <1>5, <1>6, StoreKept
  <1>8. StoreTypes'
    BY <1>5 DEF StoreTypes
  <1>9. QED
    BY <1>5, <1>7, <1>8 DEF StoreStep

\* No lock is held when Relay keeps the workflow.
LEMMA NoLockAtRelay ==
    ASSUME StoreInv, backing = "relay"
    PROVE  \A d \in Caller : calls[d].phase # "locked"
  BY DEF StoreInv, CallInv

\* Relay handles an attempt: it stores, repeats what it stored under that key, or refuses.
LEMMA RelayHandlesStep ==
    ASSUME StoreTypes, StoreInv, NEW c \in Caller, RelayHandles(c)
    PROVE  StoreStep
  <1> DEFINE call == calls[c]
  <1>0. Saves(call) /\ backing = "relay"
    BY DEF RelayHandles, Saves
  <1>1. CASE Handled(call)
    <2> DEFINE n == CHOOSE m \in DOMAIN versions : call.key = versions[m].key
    <2> HIDE DEF call
    <2>1. n \in DOMAIN versions /\ call.key = versions[n].key
      BY <1>1 DEF Handled, n
    <2>2. Outcome(call) = [code |-> "ok", doc |-> Version(n)]
      <3>1. Outcome(call) =
              [code |-> "ok", doc |-> Version(CHOOSE m \in DOMAIN versions : call.key = versions[m].key)]
        BY <1>1 DEF Outcome, Writes
      <3>2. QED
        BY <3>1 DEF n
    <2>3. versions' = versions
      BY <1>1 DEF RelayHandles, Written, Writes, call
    <2> HIDE DEF n
    <2>4. Answer(c, "ok", Version(n)) /\ UNCHANGED <<backing, versions, late, keys, faults>>
      BY <2>2, <2>3 DEF RelayHandles, call
    <2>5. QED
      BY <1>0, <1>1, <2>1, <2>4, KnownAnswered DEF call
  <1>2. CASE ~Handled(call) /\ AssertRevision(call)
    <2>1. Outcome(call) = [code |-> "ok", doc |-> Current']
      BY <1>2 DEF Outcome, Writes
    <2>2. versions' = Append(versions, NextSnapshot(call))
      BY <1>2 DEF RelayHandles, Written, Writes
    <2>3. Answer(c, "ok", Current') /\ UNCHANGED <<backing, late, keys, faults>>
      BY <2>1 DEF RelayHandles
    <2>4. QED
      BY <1>0, <1>2, <2>2, <2>3, NoLockAtRelay, SaveAnswered
  <1>3. CASE ~Handled(call) /\ ~AssertRevision(call)
    <2>1. Outcome(call) = [code |-> "conflict", doc |-> NoDoc]
      BY <1>3 DEF Outcome, Writes
    <2>2. Answer(c, "conflict", NoDoc) /\ UNCHANGED <<backing, versions, late, keys, faults>>
      BY <1>3, <2>1 DEF RelayHandles, Written, Writes
    <2>3. QED
      BY <1>0, <1>3, <2>2, ConflictAnswered
  <1>4. QED
    BY <1>1, <1>2, <1>3

\* The server gives an attempt up: the same save is sent again, or its caller is told of
\* an error, whatever Relay made or makes of the attempt.
LEMMA GivenUp ==
    ASSUME StoreTypes, StoreInv, NEW c \in Caller, backing = "relay", Saves(calls[c]), AskAgain(c),
           UNCHANGED <<backing, keys>>, faults' \in Nat, late' \subseteq late \cup {calls[c]},
           versions' = Written(calls[c]) \/ versions' = versions
    PROVE  StoreStep
  <1> DEFINE call == calls[c]
             v == NextSnapshot(call)
  <1>0. /\ calls \in [Caller -> CallRec] /\ call \in CallRec /\ answers \in [Caller -> AnswerRec]
        /\ late \subseteq CallRec /\ call.kind # "none"
    BY DEF StoreTypes, Saves
  <1>1. late' \subseteq CallRec
    BY <1>0
  <1>2. \A d \in Caller : calls[d].phase # "locked"
    BY NoLockAtRelay
  <1>3. What(call) \in Sent /\ call.save = call.key
    BY SentHas DEF StoreInv, CallInv
  <1>4. \/ versions' = versions
        \/ v \in Snapshot /\ versions' = Append(versions, v) /\ NewVersion(v)
    <2>1. CASE ~Writes(call) \/ versions' = versions
      BY <2>1 DEF Written
    <2>2. CASE Writes(call) /\ versions' = Written(call)
      <3>1. ~Handled(call) /\ call.expected = Len(versions) /\ versions' = Append(versions, v)
        BY <2>2 DEF Written, Writes, AssertRevision
      <3>2. QED
        BY <3>1, <1>0, <1>3, SaveStored
    <2>3. QED
      BY <2>1, <2>2
  <1>5. versions' \in Seq(Snapshot) /\ versions' # <<>>
    BY <1>4, Appended DEF StoreTypes
  <1>6. /\ calls' \in [Caller -> CallRec] /\ answers' \in [Caller -> AnswerRec]
        /\ CallInv' /\ Sent' \subseteq Sent
        /\ \A d \in Caller : answers'[d] = answers[d] \/ AnswerIs(d)'
        /\ Grows => StoreEffect
    <2>1. CASE call.attempt # 1
      <3>1. Answer(c, "error", NoDoc)
        BY <2>1 DEF AskAgain
      <3>2. /\ calls' \in [Caller -> CallRec] /\ answers' \in [Caller -> AnswerRec]
            /\ CallInv' /\ Sent' \subseteq Sent
            /\ answers'[c] = [code |-> "error", doc |-> NoDoc, save |-> calls[c].save]
            /\ \A d \in Caller : d # c => answers'[d] = answers[d]
            /\ Grows => StoreEffect
        BY <3>1, <1>0, <1>2, NoCallType, Answering
      <3>3. AnswerIs(c)'
        BY <3>2 DEF AnswerIs
      <3>4. QED
        BY <3>2, <3>3
    <2>2. CASE call.attempt = 1
      <3>1. calls' = [calls EXCEPT ![c].attempt = 2] /\ answers' = answers
        BY <2>2 DEF AskAgain
      <3>2. [call EXCEPT !.attempt = 2] \in CallRec
        BY <1>0 DEF CallRec
      <3>3. \A d \in Caller : calls'[d] = IF d = c THEN [call EXCEPT !.attempt = 2] ELSE calls[d]
        BY <3>1, <1>0
      <3>4. /\ calls'[c].phase = call.phase /\ calls'[c].kind = call.kind /\ calls'[c].steps = call.steps
            /\ calls'[c].key = call.key /\ calls'[c].save = call.save
            /\ calls'[c].expected = call.expected /\ calls'[c].shown = call.shown
        BY <1>0, <3>3 DEF CallRec
      <3>5. calls' \in [Caller -> CallRec]
        BY <3>1, <3>2, <1>0
      <3> HIDE DEF call
      <3>6. \A d \in Caller : /\ calls'[d].phase = calls[d].phase /\ calls'[d].kind = calls[d].kind
                              /\ calls'[d].steps = calls[d].steps /\ calls'[d].key = calls[d].key
                              /\ calls'[d].save = calls[d].save /\ What(calls'[d]) = What(calls[d])
                              /\ Saves(calls'[d]) <=> Saves(calls[d])
        BY <3>3, <3>4 DEF call, What, Saves
      <3>7. \A l \in late' : What(l) \in Sent /\ Saves(l) /\ l.save = l.key
        BY <1>3, SentHas DEF call, StoreInv, CallInv
      <3>8. Sent' \subseteq Sent
        BY <3>6, <3>7, SentHas, SentShrinks
      <3>9. CallInv'
        BY <3>1, <3>6, <3>7, <1>2 DEF StoreInv, CallInv
      <3>10. Grows => StoreEffect
        BY <3>1, <3>6 DEF StoreEffect, Keeps
      <3>11. QED
        BY <1>0, <3>1, <3>5, <3>8, <3>9, <3>10
    <2>3. QED
      BY <2>1, <2>2
  <1>7. StoreInv' /\ Grows
    BY <1>4, <1>6, StoreKept
  <1>8. StoreTypes'
    BY <1>1, <1>5, <1>6 DEF StoreTypes
  <1>9. QED
    BY <1>6, <1>7, <1>8 DEF StoreStep

\* The steps of a store at Relay keep its invariant.
LEMMA RelaySteps ==
    ASSUME StoreTypes, StoreInv, NEW c \in Caller
    PROVE  /\ RelayGet(c) => StoreStep
           /\ RelayHandles(c) => StoreStep
           /\ RelayAnswerLost(c) => StoreStep
           /\ RelayTooSlow(c) => StoreStep
  <1>1. ASSUME RelayGet(c) PROVE StoreStep
    BY <1>1, GetAnswered DEF RelayGet
  <1>2. Outage(c) => faults' \in Nat
    BY DEF Outage, Fault, StoreTypes
  <1>3. ASSUME RelayAnswerLost(c) PROVE StoreStep
    BY <1>2, <1>3, GivenUp DEF RelayAnswerLost, Saves
  <1>4. ASSUME RelayTooSlow(c) PROVE StoreStep
    <2>1. /\ backing = "relay" /\ Saves(calls[c]) /\ AskAgain(c) /\ faults' \in Nat
          /\ UNCHANGED <<backing, versions, keys>> /\ late' \subseteq late \cup {calls[c]}
      BY <1>2, <1>4 DEF RelayTooSlow, Saves
    <2>2. QED
      BY <2>1, GivenUp
  <1>5. QED
    BY <1>1, <1>3, <1>4, RelayHandlesStep

\* A restart of the server: what it had asked of Relay may still be handled.
LEMMA RestartStep ==
    ASSUME StoreTypes, StoreInv, Restart
    PROVE  StoreStep
  <1>1. UNCHANGED <<backing, versions, keys>> /\ faults' \in Nat
    BY DEF Restart, Fault, StoreTypes
  <1>2. \A c \in Caller : calls'[c] = NoCall
    BY DEF Restart
  <1>3. calls' \in [Caller -> CallRec]
    BY NoCallType DEF Restart
  <1>4. ASSUME NEW c \in Caller
        PROVE  \/ calls[c].kind = "none" /\ answers'[c] = answers[c]
               \/ /\ calls[c].kind # "none" /\ answers'[c].code = "error"
                  /\ answers'[c].save = calls[c].save
    <2>1. calls[c].phase = "idle" <=> calls[c].kind = "none"
      BY DEF StoreInv, CallInv
    <2>2. CASE calls[c].phase = "idle"
      BY <2>1, <2>2 DEF Restart
    <2>3. CASE calls[c].phase # "idle"
      <3>1. answers'[c] = [code |-> "error", doc |-> NoDoc, save |-> calls[c].save]
        BY <2>3 DEF Restart
      <3>2. QED
        BY <2>1, <2>3, <3>1
    <2>4. QED
      BY <2>2, <2>3
  <1>5. ASSUME NEW c \in Caller
        PROVE  [code |-> "error", doc |-> NoDoc, save |-> calls[c].save] \in AnswerRec /\ answers[c] \in AnswerRec
    <2>1. calls[c].save \in Nat /\ answers[c] \in AnswerRec
      BY DEF StoreTypes, CallRec
    <2>2. QED
      BY <2>1, NoCallType DEF AnswerRec
  <1>6. answers' \in [Caller -> AnswerRec]
    BY <1>5 DEF Restart
  <1>7. \A l \in late' : \/ l \in late
                         \/ backing = "relay" /\ \E c \in Caller : Saves(calls[c]) /\ l = calls[c]
    BY DEF Restart, Saves
  <1>8. late' \subseteq CallRec
    BY <1>7 DEF StoreTypes
  <1>9. Sent' \subseteq Sent
    <2>1. \A l \in late' : What(l) \in Sent
      BY <1>7, SentHas
    <2>2. QED
      BY <2>1, <1>2, NoCallType, SentShrinks
  <1>10. CallInv'
    <2>1. ASSUME NEW c \in Caller
          PROVE  answers'[c].save <= keys /\ 0 <= keys
      <3>1. calls[c].save <= keys /\ answers[c].save <= keys /\ 0 <= keys
        BY DEF StoreInv, CallInv, StoreTypes
      <3>2. answers'[c].save = answers[c].save \/ answers'[c].save = calls[c].save
        BY <1>4
      <3>3. QED
        BY <3>1, <3>2
    <2>2. \A l \in late' : backing = "relay" /\ Saves(l) /\ l.save = l.key
      BY <1>7 DEF StoreInv, CallInv
    <2>3. QED
      BY <2>1, <2>2, <1>1, <1>2, NoCallType DEF CallInv
  <1>11. \A c \in Caller : answers'[c] = answers[c] \/ AnswerIs(c)'
    BY <1>4 DEF AnswerIs
  <1>12. StoreInv' /\ Grows
    BY <1>1, <1>9, <1>10, <1>11, StoreKept
  <1>13. StoreTypes'
    BY <1>1, <1>3, <1>6, <1>8 DEF StoreTypes
  <1>14. StoreEffect
    BY <1>2, <1>4, <1>12, NoCallType DEF StoreEffect, Keeps, Saves
  <1>15. QED
    BY <1>12, <1>13, <1>14 DEF StoreStep

\* An attempt given up and handled late keeps the store's invariant.
LEMMA LateStep ==
    ASSUME StoreTypes, StoreInv, NEW call \in late, RelayHandlesLate(call)
    PROVE  StoreStep
  <1> DEFINE v == NextSnapshot(call)
  <1>1. call \in CallRec /\ Saves(call) /\ What(call) \in Sent /\ call.save = call.key /\ backing = "relay"
    BY SentHas DEF StoreTypes, StoreInv, CallInv
  <1>2. ~Handled(call) /\ call.expected = Len(versions) /\ versions' = Append(versions, v)
    BY DEF RelayHandlesLate, Written, Writes, AssertRevision
  <1>3. v \in Snapshot /\ NewVersion(v)
    BY <1>1, <1>2, SaveStored
  <1>4. UNCHANGED <<backing, calls, answers, keys, faults>> /\ late' \subseteq late
    BY DEF RelayHandlesLate
  <1>5. versions' \in Seq(Snapshot) /\ versions' # <<>>
    BY <1>2, <1>3, Appended
  <1>6. Sent' \subseteq Sent
    BY <1>4, SentHas, SentShrinks
  <1>7. CallInv'
    BY <1>1, <1>4, NoLockAtRelay DEF StoreInv, CallInv
  <1>8. StoreInv' /\ Grows
    BY <1>1, <1>2, <1>3, <1>4, <1>6, <1>7, StoreKept
  <1>9. StoreTypes'
    BY <1>4, <1>5 DEF StoreTypes
  <1>10. StoreEffect
    BY <1>4, <1>8 DEF StoreEffect, Keeps
  <1>11. QED
    BY <1>8, <1>9, <1>10 DEF StoreStep

\* Every step of the store keeps its invariant and does to callers no more than answer them.
LEMMA StoreSteps ==
    ASSUME StoreTypes, StoreInv, StoreNext
    PROVE  StoreStep
  BY FileSteps, RelaySteps, RestartStep, LateStep DEF StoreNext

-----------------------------------------------------------------------------
(* What the screens do to the store *)

\* A screen takes an answer, reads, or gives a call up, and sends no save.
LEMMA NothingSent ==
    ASSUME StoreTypes, StoreInv, UNCHANGED <<backing, versions, late, keys>>, faults' \in Nat,
           calls' \in [Caller -> CallRec], answers' \in [Caller -> AnswerRec],
           \A c \in Caller :
             /\ \/ calls'[c] = calls[c]
                \/ calls'[c] = Call("get", <<>>, 0, 0, {}) /\ answers'[c].code = "none"
             /\ answers'[c] = answers[c] \/ answers'[c] = NoAnswer
    PROVE  StoreTypes' /\ StoreInv' /\ Grows
  <1> DEFINE get == Call("get", <<>>, 0, 0, {})
  <1>1. /\ get.kind = "get" /\ get.phase = "sent" /\ get.save = 0 /\ get.key = 0 /\ ~Saves(get)
        /\ NoAnswer.code = "none" /\ NoAnswer.save = 0
    BY DEF Call, Saves, NoAnswer
  <1> HIDE DEF get
  <1>2. \A c \in Caller :
          /\ calls'[c] = calls[c] \/ (calls'[c] = get /\ answers'[c].code = "none")
          /\ answers'[c] = answers[c] \/ answers'[c] = NoAnswer
    BY DEF get
  <1>3. Sent' \subseteq Sent
    BY <1>1, <1>2, SentHas, SentShrinks
  <1>4. CallInv'
    <2>1. 0 <= keys
      BY DEF StoreTypes
    <2>2. ASSUME NEW d \in Caller
          PROVE  /\ calls'[d].phase = "idle" <=> calls'[d].kind = "none"
                 /\ calls'[d].phase = "locked" =>
                      backing' = "file" /\ Saves(calls'[d]) /\ calls'[d].expected = Len(versions')
                 /\ answers'[d].code # "none" => calls'[d].kind = "none"
                 /\ calls'[d].save = calls'[d].key /\ calls'[d].key <= keys'
                 /\ answers'[d].save <= keys'
      BY <1>1, <1>2, <2>1 DEF StoreInv, CallInv
    <2>3. /\ \A d, e \in Caller : calls'[d].phase = "locked" /\ calls'[e].phase = "locked" => d = e
          /\ \A d, e \in Caller : Saves(calls'[d]) /\ Saves(calls'[e]) /\ calls'[d].key = calls'[e].key => d = e
      BY <1>1, <1>2 DEF StoreInv, CallInv
    <2>4. \A l \in late' : backing' = "relay" /\ Saves(l) /\ l.save = l.key
      BY DEF StoreInv, CallInv
    <2>5. QED
      BY <2>2, <2>3, <2>4 DEF CallInv
  <1>5. \A c \in Caller : answers'[c] = answers[c] \/ AnswerIs(c)'
    BY <1>1, <1>2 DEF AnswerIs
  <1>6. StoreInv' /\ Grows
    BY <1>3, <1>4, <1>5, StoreKept
  <1>7. QED
    BY <1>6 DEF StoreTypes

\* A screen sends a save made from a version, having seen what it changes of it.
LEMMA SaveSent ==
    ASSUME StoreTypes, StoreInv, NEW c \in Caller, NEW kind \in {"save", "finish"},
           NEW steps \in Seq(Step), NEW expected \in DOMAIN versions, NEW shown \in SUBSET BindRow,
           Distinct(steps), Seen(versions[expected].steps, steps, shown),
           Put(c, kind, steps, expected, shown), UNCHANGED <<backing, versions, late, faults>>,
           answers' \in [Caller -> AnswerRec], answers'[c].code = "none",
           \A d \in Caller : answers'[d] = answers[d] \/ answers'[d] = NoAnswer
    PROVE  /\ StoreTypes' /\ StoreInv' /\ Grows
           /\ Saves(calls'[c]) /\ calls'[c].steps = steps
           /\ \A d \in Caller : d # c => calls'[d] = calls[d]
  <1> DEFINE call == Call(kind, steps, expected, keys + 1, shown)
  <1>0. keys \in Nat /\ keys' = keys + 1 /\ expected \in Nat /\ calls \in [Caller -> CallRec]
    BY LastVersion DEF StoreTypes, Put
  <1>1. /\ call.kind = kind /\ call.phase = "sent" /\ call.save = keys + 1 /\ call.key = keys + 1
        /\ Saves(call) /\ call.steps = steps /\ call.expected = expected /\ call.shown = shown
        /\ call \in CallRec
    BY <1>0 DEF Call, Saves, CallRec
  <1>2. \A d \in Caller : calls'[d] = IF d = c THEN call ELSE calls[d]
    BY <1>0 DEF Put
  <1>3. calls' \in [Caller -> CallRec]
    BY <1>0, <1>1 DEF Put
  <1>4. NoAnswer.code = "none" /\ NoAnswer.save = 0
    BY DEF NoAnswer
  <1> DEFINE new == What(call)
  <1>5. new.key = keys + 1 /\ new.steps = steps /\ new.expected = expected /\ new.shown = shown
    BY <1>1 DEF What
  <1> HIDE DEF call, new
  <1>6. \A a \in Sent' : a \in Sent \/ a = new
    <2>1. \A d \in Caller : Saves(calls'[d]) => What(calls'[d]) \in Sent \cup {new}
      BY <1>2, SentHas DEF new
    <2>2. \A l \in late' : What(l) \in Sent \cup {new}
      BY SentHas
    <2> DEFINE S == Sent \cup {new}
    <2>3. \A d \in Caller : Saves(calls'[d]) => What(calls'[d]) \in S
      BY <2>1
    <2>4. \A l \in late' : What(l) \in S
      BY <2>2
    <2> HIDE DEF S
    <2>5. Sent' \subseteq S
      BY <2>3, <2>4 DEF Sent
    <2>6. QED
      BY <2>5 DEF S
  <1>7. \A a \in Sent : a.key \in 1 .. keys
    BY DEF StoreInv, SentInv
  <1>8. \A n \in DOMAIN versions : versions[n].key <= keys /\ versions[n].key \in Nat
    <2>1. \A n \in DOMAIN versions : versions[n].key \in Nat
      BY VersionType DEF Snapshot
    <2>2. QED
      BY <2>1 DEF StoreInv, VersionInv
  <1>9. SentInv'
    <2>1. ASSUME NEW a \in Sent'
          PROVE  /\ a.key \in 1 .. keys' /\ a.expected \in DOMAIN versions' /\ Distinct(a.steps)
                 /\ Seen(versions'[a.expected].steps, a.steps, a.shown)
                 /\ \A n \in DOMAIN versions' : versions'[n].key = a.key => versions'[n].steps = a.steps
                 /\ \A n \in DOMAIN versions' : backing' = "file" => versions'[n].key # a.key
      <3>1. CASE a \in Sent
        <4>1. a.key \in 1 .. keys'
          BY <3>1, <1>7, <1>0
        <4>2. QED
          BY <3>1, <4>1 DEF StoreInv, SentInv
      <3>2. CASE a = new
        <4>1. a.key = keys + 1 /\ a.key \in 1 .. keys'
          BY <3>2, <1>5, <1>0
        <4>2. \A n \in DOMAIN versions : versions[n].key # a.key
          BY <4>1, <1>8, <1>0
        <4>3. QED
          BY <3>2, <4>1, <4>2, <1>5
      <3>3. QED
        BY <3>1, <3>2, <1>6
    <2>2. ASSUME NEW a \in Sent', NEW b \in Sent', a.key = b.key
          PROVE  a = b
      <3>1. CASE a \in Sent /\ b \in Sent
        BY <2>2, <3>1 DEF StoreInv, SentInv
      <3>2. CASE a = new /\ b = new
        BY <3>2
      <3>3. CASE a \in Sent /\ b = new
        BY <2>2, <3>3, <1>5, <1>7, <1>0
      <3>4. CASE a = new /\ b \in Sent
        BY <2>2, <3>4, <1>5, <1>7, <1>0
      <3>5. QED
        BY <3>1, <3>2, <3>3, <3>4, <1>6
    <2>3. QED
      BY <2>1, <2>2 DEF SentInv
  <1>10. VersionInv'
    <2>1. \A n \in DOMAIN versions' :
            Distinct(versions'[n].steps) /\ versions'[n].key <= keys' /\ versions'[n].save = versions'[n].key
      BY <1>0, <1>8 DEF StoreInv, VersionInv
    <2>2. QED
      BY <2>1 DEF StoreInv, VersionInv
  <1>11. CallInv'
    <2>1. ASSUME NEW d \in Caller
          PROVE  /\ calls'[d].phase = "idle" <=> calls'[d].kind = "none"
                 /\ calls'[d].phase = "locked" =>
                      backing' = "file" /\ Saves(calls'[d]) /\ calls'[d].expected = Len(versions')
                 /\ answers'[d].code # "none" => calls'[d].kind = "none"
                 /\ calls'[d].save = calls'[d].key /\ calls'[d].key <= keys'
      <3>1. CASE d = c
        BY <3>1, <1>0, <1>1, <1>2
      <3>2. CASE d # c
        <4>1. calls[d].key \in Nat /\ calls[d].key <= keys
          BY <1>0 DEF StoreInv, CallInv, CallRec
        <4>2. QED
          BY <3>2, <4>1, <1>0, <1>2, <1>4 DEF StoreInv, CallInv
      <3>3. QED
        BY <3>1, <3>2
    <2>2. ASSUME NEW d \in Caller
          PROVE  answers'[d].save <= keys'
      <3>1. answers[d].save \in Nat /\ answers[d].save <= keys
        BY DEF StoreInv, CallInv, StoreTypes, AnswerRec
      <3>2. QED
        BY <3>1, <1>0, <1>4
    <2>3. \A d, e \in Caller : calls'[d].phase = "locked" /\ calls'[e].phase = "locked" => d = e
      BY <1>1, <1>2 DEF StoreInv, CallInv
    <2>4. ASSUME NEW d \in Caller, NEW e \in Caller, Saves(calls'[d]), Saves(calls'[e]),
                 calls'[d].key = calls'[e].key
          PROVE  d = e
      <3>1. \A f \in Caller : calls[f].key \in Nat /\ calls[f].key <= keys
        BY <1>0 DEF StoreInv, CallInv, CallRec
      <3>2. QED
        BY <2>4, <3>1, <1>0, <1>1, <1>2 DEF StoreInv, CallInv
    <2>5. \A l \in late' : backing' = "relay" /\ Saves(l) /\ l.save = l.key
      BY DEF StoreInv, CallInv
    <2>6. QED
      BY <2>1, <2>2, <2>3, <2>4, <2>5 DEF CallInv
  <1>12. AnswerInv'
    <2>1. SUFFICES ASSUME NEW d \in Caller, answers'[d] = answers[d] PROVE AnswerIs(d)'
      BY <1>4 DEF AnswerInv, AnswerIs
    <2>2. AnswerIs(d) /\ answers[d].save <= keys /\ answers[d].save \in Nat
      BY DEF StoreInv, AnswerInv, CallInv, StoreTypes, AnswerRec
    <2>3. \A a \in Sent' : a.key = answers[d].save => a \in Sent
      BY <2>2, <1>0, <1>5, <1>6
    <2>4. QED
      BY <2>1, <2>2, <2>3 DEF AnswerIs, Version
  <1>13. StoreTypes'
    BY <1>0, <1>3 DEF StoreTypes
  <1>14. Grows
    BY LastVersion DEF Grows
  <1>15. QED
    BY <1>1, <1>2, <1>9, <1>10, <1>11, <1>12, <1>13, <1>14 DEF StoreInv

\* A read in flight.
LEMMA GetType == /\ Call("get", <<>>, 0, 0, {}) \in CallRec /\ Call("get", <<>>, 0, 0, {}).kind = "get"
                 /\ NoAnswer \in AnswerRec /\ NoAnswer.code = "none"
  <1>1. NoDoc \in Doc /\ <<>> \in Seq(Step)
    BY NoCallType, EmptySeq
  <1>2. QED
    BY <1>1 DEF Call, CallRec, NoAnswer, AnswerRec

\* A screen takes the answer it was given.
LEMMA AnswerTaken ==
    ASSUME StoreTypes, StoreInv, NEW c \in Caller, Taken(c),
           UNCHANGED <<backing, versions, calls, late, keys, faults>>
    PROVE  /\ StoreTypes' /\ StoreInv' /\ Grows /\ answers'[c].code = "none"
           /\ \A d \in Caller : d # c => Keeps(d)
  <1>1. answers \in [Caller -> AnswerRec] /\ calls \in [Caller -> CallRec]
    BY DEF StoreTypes
  <1>2. \A d \in Caller : answers'[d] = IF d = c THEN NoAnswer ELSE answers[d]
    BY <1>1 DEF Taken
  <1>3. answers' \in [Caller -> AnswerRec]
    BY <1>1, GetType DEF Taken
  <1>4. faults' \in Nat
    BY DEF StoreTypes
  <1>5. StoreTypes' /\ StoreInv' /\ Grows
    BY <1>1, <1>2, <1>3, <1>4, NothingSent
  <1>6. QED
    BY <1>2, <1>5, GetType DEF Keeps

\* A screen reads, with or without an answer taken; its last call, if any, is answered.
LEMMA ReadSent ==
    ASSUME StoreTypes, StoreInv, NEW c \in Caller, Get(c),
           UNCHANGED <<backing, versions, late, faults>>,
           (answers' = answers /\ answers[c].code = "none") \/ Taken(c)
    PROVE  /\ StoreTypes' /\ StoreInv' /\ Grows /\ answers'[c].code = "none" /\ calls'[c].kind = "get"
           /\ \A d \in Caller : d # c => Keeps(d)
  <1>1. answers \in [Caller -> AnswerRec] /\ calls \in [Caller -> CallRec]
    BY DEF StoreTypes
  <1>2. /\ \A d \in Caller : answers'[d] = answers[d] \/ (d = c /\ answers'[d] = NoAnswer)
        /\ answers'[c].code = "none"
    BY <1>1, GetType DEF Taken
  <1>3. answers' \in [Caller -> AnswerRec]
    BY <1>1, GetType DEF Taken
  <1>4. calls' = [calls EXCEPT ![c] = Call("get", <<>>, 0, 0, {})] /\ keys' = keys /\ faults' \in Nat
    BY DEF Get, StoreTypes
  <1>5. \A d \in Caller : calls'[d] = IF d = c THEN Call("get", <<>>, 0, 0, {}) ELSE calls[d]
    BY <1>1, <1>4
  <1>6. calls' \in [Caller -> CallRec]
    BY <1>1, <1>4, GetType
  <1>7. StoreTypes' /\ StoreInv' /\ Grows
    <2>1. \A d \in Caller :
            /\ \/ calls'[d] = calls[d]
               \/ calls'[d] = Call("get", <<>>, 0, 0, {}) /\ answers'[d].code = "none"
            /\ answers'[d] = answers[d] \/ answers'[d] = NoAnswer
      BY <1>2, <1>5
    <2>2. QED
      BY <2>1, <1>3, <1>4, <1>6, NothingSent
  <1>8. QED
    BY <1>2, <1>5, <1>7, GetType DEF Keeps

\* Elsewhere the rows are those of the latest version.
LEMMA SavedElsewhere ==
    ASSUME StoreTypes, StoreInv, NEW steps \in Seq(Step), Distinct(steps), ElsewhereSaves(steps)
    PROVE  StoreTypes' /\ StoreInv' /\ StoreEffect /\ acts' = acts + 1
  <1> DEFINE last == versions[Len(versions)]
             v == [steps |-> steps, status |-> Current.status, save |-> 0, key |-> 0,
                   shown |-> {[id |-> s.id, bind |-> s.bind] : s \in Range(Current.steps)}]
  <1>1. /\ versions' = Append(versions, v) /\ acts' = acts + 1
        /\ UNCHANGED <<backing, calls, answers, late, keys, faults>>
        /\ \A c \in Caller : calls[c].phase # "locked"
    BY DEF ElsewhereSaves, Act, LockFree
  <1>2. Current \in Doc /\ Current.steps = last.steps /\ last.steps \in Seq(Step) /\ Distinct(last.steps)
    BY LastVersion, VersionType DEF Current, Version, Snapshot, StoreInv, VersionInv
  <1>3. \A i \in DOMAIN last.steps :
          [id |-> last.steps[i].id, bind |-> last.steps[i].bind]
            \in {[id |-> s.id, bind |-> s.bind] : s \in Range(Current.steps)}
    BY <1>2 DEF Range
  <1>4. {[id |-> s.id, bind |-> s.bind] : s \in Range(Current.steps)} \in SUBSET BindRow
    <2>1. \A s \in Range(Current.steps) : s \in Step
      BY <1>2 DEF Range
    <2>2. QED
      BY <2>1 DEF Step, BindRow
  <1>5. v \in Snapshot
    BY <1>2, <1>4 DEF Snapshot, Doc
  <1>6. /\ v.steps = steps /\ v.key = 0 /\ v.save = 0
        /\ v.shown = {[id |-> s.id, bind |-> s.bind] : s \in Range(Current.steps)}
    OBVIOUS
  <1> HIDE DEF v
  <1>7. Seen(last.steps, v.steps, v.shown)
    BY <1>3, <1>6 DEF Seen
  <1>8. NewVersion(v)
    <2>1. \A a \in Sent : a.key # v.key
      BY <1>6 DEF StoreInv, SentInv
    <2>2. \A c \in Caller : answers[c].code = "conflict" => v.key # answers[c].save
      BY <1>6 DEF StoreInv, AnswerInv, AnswerIs
    <2>3. 0 <= keys
      BY DEF StoreTypes
    <2>4. QED
      BY <1>6, <1>7, <2>1, <2>2, <2>3 DEF NewVersion
  <1>9. Sent' \subseteq Sent
    BY <1>1, SentHas, SentShrinks
  <1>10. \A a \in Sent' : a.key # v.key
    BY <1>6, <1>9 DEF StoreInv, SentInv
  <1>11. CallInv'
    BY <1>1 DEF StoreInv, CallInv
  <1>12. StoreInv' /\ Grows
    BY <1>1, <1>5, <1>8, <1>9, <1>10, <1>11, StoreKept
  <1>13. versions' \in Seq(Snapshot) /\ versions' # <<>>
    BY <1>1, <1>5, Appended
  <1>14. StoreTypes'
    BY <1>1, <1>13 DEF StoreTypes
  <1>15. StoreEffect
    BY <1>1, <1>12 DEF StoreEffect, Keeps
  <1>16. QED
    BY <1>1, <1>12, <1>14, <1>15

-----------------------------------------------------------------------------
(* The editor *)

\* The document of an answer that is ok is a stored version.
LEMMA DocOf ==
    ASSUME StoreTypes, StoreInv, NEW c \in Caller, answers[c].code = "ok"
    PROVE  /\ answers[c].doc \in Doc /\ answers[c].doc.rev \in DOMAIN versions
           /\ answers[c].doc.steps = versions[answers[c].doc.rev].steps
           /\ answers[c].doc.steps \in Seq(Step) /\ Distinct(answers[c].doc.steps)
           /\ calls[c].kind = "none" /\ ~Saves(calls[c])
  <1>1. /\ answers[c].doc.rev \in DOMAIN versions
        /\ answers[c].doc = Version(answers[c].doc.rev)
    BY DEF StoreInv, AnswerInv, AnswerIs
  <1>2. answers[c].doc \in Doc /\ answers[c].doc.steps = versions[answers[c].doc.rev].steps
    BY <1>1, VersionType DEF Version
  <1>3. calls[c].kind = "none" /\ ~Saves(calls[c])
    BY DEF StoreInv, CallInv, Saves
  <1>4. QED
    BY <1>1, <1>2, <1>3 DEF Doc, StoreInv, VersionInv

\* A step of others.
LEMMA EditorKept ==
    ASSUME StoreTypes, EdTypes, EdInv, "editor" \in Caller, Grows, Keeps("editor"), UNCHANGED <<ed, mine>>
    PROVE  EdInv'
  <1>1. EdCallInv'
    <2>1. EdCallInv /\ calls["editor"].kind \in {"none", "get", "save", "finish"}
      BY DEF EdInv, StoreTypes, CallRec
    <2>2. CASE /\ answers'["editor"] = answers["editor"] /\ calls'["editor"].kind = calls["editor"].kind
               /\ Saves(calls["editor"]) => calls'["editor"].steps = calls["editor"].steps
      <3>1. Saves(calls'["editor"]) <=> Saves(calls["editor"])
        BY <2>2 DEF Saves
      <3>2. QED
        BY <2>1, <2>2, <3>1 DEF EdCallInv, Idle
    <2>3. CASE /\ calls["editor"].kind # "none" /\ calls'["editor"].kind = "none" /\ answers'["editor"].code # "none"
               /\ answers'["editor"].code = "ok" /\ Saves(calls["editor"])
                    => answers'["editor"].doc.steps = calls["editor"].steps
      <3>1. ~Idle("editor") /\ ~Saves(calls'["editor"]) /\ ~ed.left
        BY <2>1, <2>3 DEF Idle, Saves, EdCallInv
      <3>2. ed.status = "saving" => Saves(calls["editor"])
        BY <2>1, <2>3 DEF Saves, EdCallInv
      <3>3. QED
        BY <2>1, <2>3, <3>1, <3>2 DEF EdCallInv
    <2>4. QED
      BY <2>2, <2>3 DEF Keeps
  <1>2. EdDocInv'
    BY DEF EdInv, EdDocInv, Grows
  <1>3. QED
    BY <1>1, <1>2 DEF EdInv

\* A step of the editor that changes the rows.
LEMMA RowsChanged ==
    ASSUME StoreTypes, EdTypes, EdInv, UNCHANGED storeVars, ed' \in EdRec,
           NEW steps \in Seq(Step), Distinct(steps),
           ed'.wf.steps = steps, ed'.wf.rev = ed.wf.rev, ed'.shown = ed.shown \/ ed'.shown = ed'.wf,
           ed'.dirty, ed'.moved, ed'.undo.step.id \notin Ids(steps),
           UNCHANGED <<ed.status, ed.loaded, ed.stored, ed.finishing, ed.left>>,
           ed'.recording = "stopping" => ed.recording = "stopping",
           mine' \subseteq Ids(steps)
    PROVE  EdInv'
  <1>1. EdCallInv'
    BY DEF EdInv, EdCallInv, Idle, storeVars
  <1>2. EdDocInv'
    BY DEF EdInv, EdDocInv, storeVars
  <1>3. QED
    BY <1>1, <1>2 DEF EdInv

\* What a step of the editor does beside: the Library's calls are as they were.
EdStep ==
    /\ EdTypes' /\ EdInv' /\ StoreTypes' /\ StoreInv'
    /\ Grows /\ Keeps("lib") /\ Keeps("run")

\* A step that leaves the store alone keeps its invariant.
LEMMA StoreUnchanged ==
    ASSUME StoreTypes, StoreInv, UNCHANGED storeVars
    PROVE  StoreTypes' /\ StoreInv' /\ Grows /\ \A c \in Caller : Keeps(c)
  <1>1. StoreTypes'
    BY DEF StoreTypes, storeVars
  <1>2. Grows /\ \A c \in Caller : Keeps(c)
    BY LastVersion DEF Grows, Keeps, storeVars
  <1>3. Sent' = Sent
    BY DEF Sent, storeVars
  <1>4. StoreInv'
    <2>1. CallInv'
      BY DEF StoreInv, CallInv, storeVars
    <2>2. SentInv'
      BY <1>3 DEF StoreInv, SentInv, storeVars
    <2>3. VersionInv'
      BY DEF StoreInv, VersionInv, storeVars
    <2>4. AnswerInv'
      BY <1>3 DEF StoreInv, AnswerInv, AnswerIs, Version, storeVars
    <2>5. QED
      BY <2>1, <2>2, <2>3, <2>4 DEF StoreInv
  <1>5. QED
    BY <1>1, <1>2, <1>4

\* A render shows the workflow and changes nothing else.
LEMMA RenderedFields ==
    ASSUME NEW e \in EdRec
    PROVE  /\ Rendered(e) \in EdRec /\ Rendered(e).shown = e.wf /\ Rendered(e).wf = e.wf
           /\ Rendered(e).dirty = e.dirty /\ Rendered(e).undo = e.undo /\ Rendered(e).status = e.status
           /\ Rendered(e).loaded = e.loaded /\ Rendered(e).moved = e.moved
           /\ Rendered(e).stored = e.stored /\ Rendered(e).recording = e.recording
           /\ Rendered(e).finishing = e.finishing /\ Rendered(e).left = e.left
  BY DEF Rendered, EdRec

\* A change of the workflow marks it dirty and moved.
LEMMA ChangedFields ==
    ASSUME EdTypes, NEW steps \in Seq(Step)
    PROVE  /\ Changed(steps) \in EdRec /\ Changed(steps).wf.steps = steps
           /\ Changed(steps).wf.rev = ed.wf.rev /\ Changed(steps).dirty /\ Changed(steps).moved
           /\ \A f \in {"shown", "undo", "status", "loaded", "stored", "recording", "finishing", "left"} :
                Changed(steps)[f] = ed[f]
  <1>1. ed \in EdRec /\ ed.wf \in Doc
    BY DEF EdTypes, EdRec
  <1>2. [ed.wf EXCEPT !.steps = steps] \in Doc
    BY <1>1 DEF Doc
  <1>3. [ed EXCEPT !.wf = [ed.wf EXCEPT !.steps = steps], !.moved = TRUE, !.dirty = TRUE] \in EdRec
    BY <1>1, <1>2 DEF EdRec
  <1>4. Changed(steps) = [ed EXCEPT !.wf = [ed.wf EXCEPT !.steps = steps], !.moved = TRUE, !.dirty = TRUE]
    BY <1>1 DEF Changed, EdRec
  <1>5. QED
    BY <1>1, <1>3, <1>4 DEF EdRec, Doc

\* What the editor holds are steps under distinct ids.
LEMMA EdRows ==
    ASSUME EdTypes, EdInv
    PROVE  /\ ed \in EdRec /\ ed.wf \in Doc /\ ed.wf.steps \in Seq(Step) /\ Distinct(ed.wf.steps)
           /\ ed.shown \in Doc /\ ed.shown.steps \in Seq(Step) /\ Distinct(ed.shown.steps)
           /\ ed.undo.step.id \notin Ids(ed.wf.steps) /\ mine \subseteq Ids(ed.wf.steps)
           /\ ed.undo # NoUndo => ed.undo.step \in Step /\ ed.undo.at \in Nat \ {0}
  BY DEF EdTypes, EdRec, Doc, EdInv, EdDocInv

\* The step of no undo has no step's id.
LEMMA NoUndoIsNone == NoUndo.step.id = "none" /\ "none" \notin StepId
  BY EditorAssumption DEF NoUndo, None

\* The ids of a workflow are ids of steps.
LEMMA IdsAreSteps ==
    ASSUME NEW s \in Seq(Step)
    PROVE  Ids(s) \subseteq StepId
  <1>1. ASSUME NEW i \in DOMAIN s
        PROVE  s[i].id \in StepId
    <2>1. s[i] \in Step
      OBVIOUS
    <2>2. QED
      BY <2>1 DEF Step
  <1>2. QED
    BY <1>1 DEF Ids

\* The changes of rows that a render follows at once, and those it does not.
LEMMA RowsStep ==
    ASSUME StoreTypes, StoreInv, EdTypes, EdInv, EdOnly,
           NEW steps \in Seq(Step), Distinct(steps), mine' \subseteq Ids(steps),
           NEW undo \in [step : Step, at : Nat \ {0}] \cup {NoUndo}, undo.step.id \notin Ids(steps),
           NEW recording \in {"off", "on", "stopping"}, recording = "stopping" => ed.recording = "stopping",
           NEW e, e = [Changed(steps) EXCEPT !.undo = undo, !.recording = recording],
           ed' = Rendered(e) \/ ed' = e
    PROVE  EdStep
  <1> DEFINE ch == Changed(steps)
  <1>1. /\ ch \in EdRec /\ ch.wf.steps = steps /\ ch.wf.rev = ed.wf.rev /\ ch.dirty /\ ch.moved
        /\ \A f \in {"shown", "undo", "status", "loaded", "stored", "recording", "finishing", "left"} : ch[f] = ed[f]
    BY ChangedFields
  <1>2. e = [ch EXCEPT !.undo = undo, !.recording = recording]
    OBVIOUS
  <1> HIDE DEF ch
  <1>3. /\ e \in EdRec /\ e.wf.steps = steps /\ e.wf.rev = ed.wf.rev /\ e.dirty /\ e.moved
        /\ e.undo = undo /\ e.recording = recording /\ e.shown = ed.shown
        /\ e.status = ed.status /\ e.loaded = ed.loaded /\ e.stored = ed.stored
        /\ e.finishing = ed.finishing /\ e.left = ed.left
    BY <1>1, <1>2 DEF EdRec
  <1>4. /\ ed' \in EdRec /\ ed'.wf = e.wf /\ ed'.dirty /\ ed'.moved
        /\ ed'.undo = undo /\ ed'.recording = recording /\ (ed'.shown = ed.shown \/ ed'.shown = ed'.wf)
        /\ ed'.status = ed.status /\ ed'.loaded = ed.loaded /\ ed'.stored = ed.stored
        /\ ed'.finishing = ed.finishing /\ ed'.left = ed.left
    <2>1. CASE ed' = e
      BY <2>1, <1>3
    <2>2. CASE ed' = Rendered(e)
      <3> DEFINE r == Rendered(e)
      <3>0. e \in EdRec
        BY <1>3
      <3>1. /\ r \in EdRec /\ r.shown = e.wf /\ r.wf = e.wf
            /\ r.dirty = e.dirty /\ r.undo = e.undo /\ r.status = e.status
            /\ r.loaded = e.loaded /\ r.moved = e.moved
            /\ r.stored = e.stored /\ r.recording = e.recording
            /\ r.finishing = e.finishing /\ r.left = e.left
        BY <3>0, RenderedFields
      <3>2. ed' = r
        BY <2>2
      <3> HIDE DEF r
      <3>3. QED
        BY <1>3, <3>1, <3>2
    <2>3. QED
      BY <2>1, <2>2
  <1>5. UNCHANGED storeVars /\ UNCHANGED <<dialog, asks>>
    BY DEF EdOnly
  <1>6. EdInv'
    BY <1>3, <1>4, <1>5, RowsChanged
  <1>7. mine' \subseteq StepId
    BY IdsAreSteps
  <1>8. EdTypes'
    BY <1>4, <1>5, <1>7 DEF EdTypes
  <1>9. QED
    BY <1>5, <1>6, <1>8, StoreUnchanged, EditorAssumption DEF EdStep

\* The undo is of a step at a place, or there is none.
LEMMA EdRecUndo ==
    ASSUME EdTypes, NEW steps \in Seq(Step)
    PROVE  /\ Changed(steps) = [Changed(steps) EXCEPT !.undo = ed.undo, !.recording = ed.recording]
           /\ ed.undo \in [step : Step, at : Nat \ {0}] \cup {NoUndo}
           /\ ed.recording \in {"off", "on", "stopping"}
           /\ \A u : [Changed(steps) EXCEPT !.undo = u]
                       = [Changed(steps) EXCEPT !.undo = u, !.recording = ed.recording]
           /\ \A r : [Changed(steps) EXCEPT !.recording = r]
                       = [Changed(steps) EXCEPT !.undo = ed.undo, !.recording = r]
  <1>1. ed \in EdRec
    BY DEF EdTypes
  <1>2. Changed(steps) \in EdRec /\ Changed(steps).undo = ed.undo /\ Changed(steps).recording = ed.recording
    BY ChangedFields
  <1>3. QED
    BY <1>1, <1>2 DEF EdRec

\* Deleting a step keeps the invariant of the editor (step/delete).
LEMMA DeleteStep ==
    ASSUME StoreTypes, StoreInv, EdTypes, EdInv, NEW id, Delete(id)
    PROVE  EdStep
  <1> DEFINE s == ed.wf.steps
             at == Index(s, id)
             left == RemoveAt(s, at)
             undo == [step |-> s[at], at |-> at]
  <1>1. s \in Seq(Step) /\ Distinct(s) /\ mine \subseteq Ids(s) /\ id \in Ids(s)
    BY EdRows DEF Delete
  <1>2. at \in DOMAIN s /\ s[at].id = id
    BY <1>1 DEF Index, Ids
  <1>3. left \in Seq(Step) /\ Distinct(left) /\ Ids(left) = Ids(s) \ {id}
    BY <1>1, <1>2, RemoveFacts
  <1>4. undo \in [step : Step, at : Nat \ {0}] /\ undo.step.id = id
    BY <1>1, <1>2
  <1>5. ed' = Rendered([Changed(left) EXCEPT !.undo = undo]) /\ mine' = mine \ {id} /\ EdOnly
    BY DEF Delete
  <1> HIDE DEF s, at, left, undo
  <1>6. ed' = Rendered([Changed(left) EXCEPT !.undo = undo, !.recording = ed.recording])
    BY <1>3, <1>5, EdRecUndo
  <1>7. mine' \subseteq Ids(left) /\ undo.step.id \notin Ids(left)
    BY <1>1, <1>3, <1>4, <1>5
  <1>8. ed.recording \in {"off", "on", "stopping"}
    BY EdRecUndo, <1>3
  <1>9. QED
    BY <1>3, <1>4, <1>5, <1>6, <1>7, <1>8, RowsStep

\* Undoing a deletion keeps the invariant of the editor (step/undoDelete).
LEMMA UndoDeleteStep ==
    ASSUME StoreTypes, StoreInv, EdTypes, EdInv, UndoDelete
    PROVE  EdStep
  <1> DEFINE s == ed.wf.steps
             back == Undone(s)
             at == IF ed.undo.at > Len(s) + 1 THEN Len(s) + 1 ELSE ed.undo.at
  <1>1. /\ s \in Seq(Step) /\ Distinct(s) /\ mine \subseteq Ids(s)
        /\ ed.undo.step \in Step /\ ed.undo.at \in Nat \ {0} /\ ed.undo.step.id \notin Ids(s)
    BY EdRows DEF UndoDelete
  <1>2. at \in 1 .. Len(s) + 1
    BY <1>1
  <1>3. back = InsertAt(s, at, ed.undo.step)
    BY DEF Undone
  <1> HIDE DEF s, at, back
  <1>4. back \in Seq(Step) /\ Distinct(back) /\ Ids(back) = Ids(s) \cup {ed.undo.step.id}
    BY <1>1, <1>2, <1>3, InsertFacts
  <1>5. ed' = Rendered([Changed(back) EXCEPT !.undo = NoUndo]) /\ mine' = mine /\ EdOnly
    BY DEF UndoDelete, back, s
  <1>6. ed' = Rendered([Changed(back) EXCEPT !.undo = NoUndo, !.recording = ed.recording])
    BY <1>4, <1>5, EdRecUndo
  <1>7. mine' \subseteq Ids(back) /\ NoUndo.step.id \notin Ids(back)
    BY <1>1, <1>4, <1>5, NoUndoIsNone, IdsAreSteps
  <1>8. ed.recording \in {"off", "on", "stopping"}
    BY EdRecUndo, <1>4
  <1>9. QED
    BY <1>4, <1>5, <1>6, <1>7, <1>8, RowsStep

\* A change that keeps the ids keeps the invariant of the editor.
LEMMA SameRowsStep ==
    ASSUME StoreTypes, StoreInv, EdTypes, EdInv, NEW steps \in Seq(Step), Distinct(steps),
           Ids(steps) = Ids(ed.wf.steps), ed' = Rendered(Changed(steps)), mine' = mine, EdOnly
    PROVE  EdStep
  <1>1. mine' \subseteq Ids(steps) /\ ed.undo.step.id \notin Ids(steps)
    BY EdRows
  <1>2. /\ Changed(steps) = [Changed(steps) EXCEPT !.undo = ed.undo, !.recording = ed.recording]
        /\ ed.undo \in [step : Step, at : Nat \ {0}] \cup {NoUndo}
        /\ ed.recording \in {"off", "on", "stopping"}
    BY EdRecUndo
  <1>3. QED
    BY <1>1, <1>2, RowsStep

\* Switching a step keeps the invariant of the editor.
LEMMA ToggleStep ==
    ASSUME StoreTypes, StoreInv, EdTypes, EdInv, NEW id, Toggle(id)
    PROVE  EdStep
  <1> DEFINE s == ed.wf.steps
  <1>1. s \in Seq(Step) /\ Distinct(s)
    BY EdRows
  <1>2. /\ Switched(s, id) \in Seq(Step) /\ Len(Switched(s, id)) = Len(s)
        /\ \A i \in DOMAIN s : Switched(s, id)[i].id = s[i].id
    BY <1>1, SwitchedFacts
  <1>3. Ids(Switched(s, id)) = Ids(s) /\ Distinct(Switched(s, id))
    BY <1>1, <1>2, SameIds
  <1>4. ed' = Rendered(Changed(Switched(s, id))) /\ mine' = mine /\ EdOnly
    BY DEF Toggle
  <1>5. QED
    BY <1>2, <1>3, <1>4, SameRowsStep

\* Moving a step keeps the invariant of the editor.
LEMMA ReorderStep ==
    ASSUME StoreTypes, StoreInv, EdTypes, EdInv, NEW from, NEW to, Reorder(from, to)
    PROVE  EdStep
  <1> DEFINE s == ed.wf.steps
  <1>1. s \in Seq(Step) /\ Distinct(s) /\ from \in DOMAIN s /\ to \in DOMAIN s
    BY EdRows DEF Reorder
  <1>2. Move(s, from, to) \in Seq(Step) /\ Distinct(Move(s, from, to)) /\ Ids(Move(s, from, to)) = Ids(s)
    BY <1>1, MoveFacts
  <1>3. ed' = Rendered(Changed(Move(s, from, to))) /\ mine' = mine /\ EdOnly
    BY DEF Reorder
  <1>4. QED
    BY <1>2, <1>3, SameRowsStep

\* A fresh id is of no row here, nor of the undo.
LEMMA FreshStep ==
    ASSUME NEW id, Fresh(id)
    PROVE  /\ NewStep(id) \in Step /\ NewStep(id).id = id
           /\ id \notin Ids(ed.wf.steps) /\ id # ed.undo.step.id
  <1>1. id \in StepId /\ "recorded" \in Binding
    BY EditorAssumption, LibraryAssumption DEF Fresh
  <1>2. QED
    BY <1>1 DEF Fresh, NewStep, Step

\* Adding a step under a fresh id keeps the invariant of the editor.
LEMMA AddedStep ==
    ASSUME StoreTypes, StoreInv, EdTypes, EdInv, NEW id, Fresh(id), EdOnly, mine' = mine \cup {id},
           NEW steps \in Seq(Step), Distinct(steps), Ids(steps) = Ids(ed.wf.steps) \cup {id},
           ed' = Rendered(Changed(steps)) \/ ed' = Changed(steps)
    PROVE  EdStep
  <1>1. mine' \subseteq Ids(steps) /\ ed.undo.step.id \notin Ids(steps)
    BY EdRows, FreshStep
  <1>2. /\ Changed(steps) = [Changed(steps) EXCEPT !.undo = ed.undo, !.recording = ed.recording]
        /\ ed.undo \in [step : Step, at : Nat \ {0}] \cup {NoUndo}
        /\ ed.recording \in {"off", "on", "stopping"}
    BY EdRecUndo
  <1> DEFINE e == Changed(steps)
  <1>3. e = [Changed(steps) EXCEPT !.undo = ed.undo, !.recording = ed.recording]
    BY <1>2
  <1>4. ed' = Rendered(e) \/ ed' = e
    OBVIOUS
  <1> HIDE DEF e
  <1>5. QED
    BY <1>1, <1>2, <1>3, <1>4, RowsStep

\* Inserting an assertion keeps the invariant of the editor.
LEMMA InsertAssertionStep ==
    ASSUME StoreTypes, StoreInv, EdTypes, EdInv, NEW id, NEW at, InsertAssertion(id, at)
    PROVE  EdStep
  <1> DEFINE s == ed.wf.steps
             new == InsertAt(s, at + 1, NewStep(id))
  <1>1. s \in Seq(Step) /\ Distinct(s) /\ at \in 0 .. Len(s) /\ Fresh(id)
    BY EdRows DEF InsertAssertion
  <1>2. at + 1 \in 1 .. Len(s) + 1
    BY <1>1
  <1>3. new \in Seq(Step) /\ Distinct(new) /\ Ids(new) = Ids(s) \cup {id}
    BY <1>1, <1>2, FreshStep, InsertFacts
  <1>4. ed' = Rendered(Changed(new)) /\ mine' = mine \cup {id} /\ EdOnly
    BY DEF InsertAssertion
  <1> HIDE DEF new
  <1>5. QED
    BY <1>1, <1>3, <1>4, AddedStep

\* A recorded step keeps the invariant of the editor, a save in flight or not.
LEMMA StepRecordedStep ==
    ASSUME StoreTypes, StoreInv, EdTypes, EdInv, NEW id, StepRecorded(id)
    PROVE  EdStep
  <1> DEFINE s == ed.wf.steps
             new == Append(s, NewStep(id))
  <1>1. s \in Seq(Step) /\ Distinct(s) /\ Fresh(id)
    BY EdRows DEF StepRecorded
  <1>2. new \in Seq(Step) /\ Distinct(new) /\ Ids(new) = Ids(s) \cup {id}
    BY <1>1, FreshStep, AppendFacts
  <1>3. ed' = Changed(new) /\ mine' = mine \cup {id} /\ EdOnly
    BY DEF StepRecorded
  <1> HIDE DEF new
  <1>4. QED
    BY <1>1, <1>2, <1>3, AddedStep

\* The start of a recording keeps the invariant of the editor.
LEMMA StartRecordingStep ==
    ASSUME StoreTypes, StoreInv, EdTypes, EdInv, StartRecording
    PROVE  EdStep
  <1> DEFINE s == ed.wf.steps
  <1>1. s \in Seq(Step) /\ Distinct(s) /\ mine \subseteq Ids(s) /\ ed.undo.step.id \notin Ids(s)
    BY EdRows
  <1>2. ed' = Rendered([Changed(s) EXCEPT !.recording = "on"]) /\ mine' = mine /\ EdOnly
    BY DEF StartRecording
  <1>3. /\ [Changed(s) EXCEPT !.recording = "on"] = [Changed(s) EXCEPT !.undo = ed.undo, !.recording = "on"]
        /\ ed.undo \in [step : Step, at : Nat \ {0}] \cup {NoUndo}
    BY <1>1, EdRecUndo
  <1>4. QED
    BY <1>1, <1>2, <1>3, RowsStep

\* The first load and the second tries.
LEMMA EdOpensStep ==
    ASSUME StoreTypes, StoreInv, EdTypes, EdInv, EdOpens
    PROVE  EdStep
  <1>1. /\ ed.status = "loading" /\ answers["editor"].code = "none" /\ Get("editor")
        /\ UNCHANGED <<backing, versions, answers, late, faults>> /\ UNCHANGED <<ed, dialog, asks, mine>>
    BY DEF EdOpens, Answered, edVars
  <1>2. /\ StoreTypes' /\ StoreInv' /\ Grows /\ answers'["editor"].code = "none"
        /\ calls'["editor"].kind = "get" /\ \A d \in Caller : d # "editor" => Keeps(d)
    BY <1>1, ReadSent, EditorAssumption
  <1>3. EdCallInv'
    BY <1>1, <1>2 DEF EdInv, EdCallInv, Saves
  <1>4. EdDocInv'
    BY <1>1 DEF EdInv, EdDocInv
  <1>5. EdTypes'
    BY <1>1 DEF EdTypes
  <1>6. QED
    BY <1>2, <1>3, <1>4, <1>5, EditorAssumption DEF EdStep, EdInv

\* A reload asked for keeps the invariant of the editor.
LEMMA ReloadStep ==
    ASSUME StoreTypes, StoreInv, EdTypes, EdInv, Reload
    PROVE  EdStep
  <1>1. /\ ~ed.left /\ ed.status \in {"conflict", "error"} /\ Get("editor")
        /\ UNCHANGED <<backing, versions, answers, late, faults>> /\ UNCHANGED <<dialog, asks, mine>>
        /\ ed' = [ed EXCEPT !.loaded = FALSE, !.status = "loading"]
    BY DEF Reload
  <1>2. answers["editor"].code = "none" /\ ~ed.finishing
    BY <1>1 DEF EdInv, EdCallInv, Idle
  <1>3. /\ StoreTypes' /\ StoreInv' /\ Grows /\ answers'["editor"].code = "none"
        /\ calls'["editor"].kind = "get" /\ \A d \in Caller : d # "editor" => Keeps(d)
    BY <1>1, <1>2, ReadSent, EditorAssumption
  <1>4. /\ ed' \in EdRec /\ ed'.status = "loading" /\ ~ed'.loaded /\ ~ed'.left /\ ~ed'.finishing
        /\ ed'.wf = ed.wf /\ ed'.shown = ed.shown /\ ed'.undo = ed.undo
    BY <1>1, <1>2 DEF EdTypes, EdRec
  <1>5. EdCallInv'
    BY <1>3, <1>4 DEF EdCallInv, Saves
  <1>6. EdDocInv'
    BY <1>1, <1>4 DEF EdInv, EdDocInv
  <1>7. EdTypes'
    BY <1>1, <1>4 DEF EdTypes
  <1>8. QED
    BY <1>3, <1>5, <1>6, <1>7, EditorAssumption DEF EdStep, EdInv

\* The answer of a load keeps the invariant of the editor.
LEMMA EdLoadedStep ==
    ASSUME StoreTypes, StoreInv, EdTypes, EdInv, EdLoaded
    PROVE  EdStep
  <1> DEFINE doc == answers["editor"].doc
  <1>1. /\ ed.status = "loading" /\ answers["editor"].code # "none" /\ Taken("editor")
        /\ UNCHANGED <<backing, versions, calls, late, keys, faults>> /\ UNCHANGED <<dialog, asks>>
    BY DEF EdLoaded, Answered
  <1>2. /\ StoreTypes' /\ StoreInv' /\ Grows /\ answers'["editor"].code = "none"
        /\ \A d \in Caller : d # "editor" => Keeps(d)
    BY <1>1, AnswerTaken, EditorAssumption
  <1>3. calls'["editor"].kind = "none" /\ calls["editor"].kind = "none"
    BY <1>1, EditorAssumption DEF StoreInv, CallInv
  <1>4. ~ed.finishing /\ ~ed.left
    BY <1>1 DEF EdInv, EdCallInv
  <1>5. CASE answers["editor"].code = "ok"
    <2>1. /\ doc \in Doc /\ doc.rev \in DOMAIN versions /\ doc.steps = versions[doc.rev].steps
          /\ doc.steps \in Seq(Step) /\ Distinct(doc.steps)
      BY <1>5, DocOf, EditorAssumption
    <2>2. ed' = Rendered([Load(doc) EXCEPT !.loaded = TRUE, !.status = "ready"]) /\ mine' = {}
      BY <1>5 DEF EdLoaded
    <2> HIDE DEF doc
    <2>3. Range(doc.steps) \subseteq Step
      BY <2>1 DEF Range
    <2> DEFINE e == [Load(doc) EXCEPT !.loaded = TRUE, !.status = "ready"]
    <2>4. /\ e \in EdRec /\ e.wf = doc /\ ~e.dirty /\ e.undo = NoUndo /\ e.stored = Range(doc.steps)
          /\ e.loaded /\ e.status = "ready" /\ e.finishing = ed.finishing /\ e.left = ed.left
      BY <2>1, <2>3 DEF EdTypes, EdRec, Load
    <2>5. ed' = Rendered(e)
      BY <2>2
    <2> HIDE DEF e
    <2>6. /\ ed' \in EdRec /\ ed'.wf = doc /\ ed'.shown = doc /\ ed'.undo = NoUndo
          /\ ed'.stored = Range(doc.steps) /\ ed'.loaded /\ ed'.status = "ready"
          /\ ~ed'.finishing /\ ~ed'.left
      BY <1>4, <2>4, <2>5, RenderedFields
    <2>7. EdCallInv'
      BY <1>2, <1>3, <2>6 DEF EdCallInv, Idle
    <2>8. NoUndo.step.id \notin Ids(doc.steps)
      BY <2>1, NoUndoIsNone, IdsAreSteps
    <2>9. EdDocInv'
      BY <1>1, <2>1, <2>2, <2>6, <2>8 DEF EdDocInv
    <2>10. EdTypes'
      BY <1>1, <2>2, <2>6 DEF EdTypes
    <2>11. QED
      BY <1>2, <2>7, <2>9, <2>10, EditorAssumption DEF EdStep, EdInv
  <1>6. CASE answers["editor"].code # "ok"
    <2>1. ed' = [ed EXCEPT !.status = "error"] /\ mine' = mine
      BY <1>6 DEF EdLoaded
    <2>2. /\ ed' \in EdRec /\ ed'.status = "error" /\ ~ed'.finishing /\ ~ed'.left
          /\ ed'.wf = ed.wf /\ ed'.shown = ed.shown /\ ed'.undo = ed.undo /\ ed'.loaded = ed.loaded
          /\ ed'.stored = ed.stored /\ ed'.dirty = ed.dirty
      BY <1>4, <2>1 DEF EdTypes, EdRec
    <2>3. EdCallInv'
      BY <1>2, <1>3, <2>2 DEF EdCallInv, Idle
    <2>4. EdDocInv'
      BY <1>1, <1>4, <2>1, <2>2 DEF EdInv, EdDocInv
    <2>5. EdTypes'
      BY <1>1, <2>1, <2>2 DEF EdTypes
    <2>6. QED
      BY <1>2, <2>3, <2>4, <2>5, EditorAssumption DEF EdStep, EdInv
  <1>7. QED
    BY <1>5, <1>6

\* The undo is given up, or a render shows what was recorded.
LEMMA SilentStep ==
    ASSUME StoreTypes, StoreInv, EdTypes, EdInv, DismissDelete \/ Render
    PROVE  EdStep
  <1>1. UNCHANGED storeVars /\ UNCHANGED <<dialog, asks, mine>>
    BY DEF DismissDelete, Render, EdOnly
  <1>2. /\ ed' \in EdRec /\ ed'.wf = ed.wf /\ (ed'.shown = ed.shown \/ ed'.shown = ed.wf)
        /\ ed'.dirty = ed.dirty /\ (ed'.undo = ed.undo \/ ed'.undo = NoUndo) /\ ed'.status = ed.status
        /\ ed'.loaded = ed.loaded /\ ed'.moved = ed.moved /\ ed'.stored = ed.stored
        /\ ed'.recording = ed.recording /\ ed'.finishing = ed.finishing /\ ed'.left = ed.left
    <2>1. CASE DismissDelete
      BY <2>1 DEF DismissDelete, EdTypes, EdRec
    <2>2. CASE Render
      <3>1. ed' = Rendered(ed) /\ ed \in EdRec
        BY <2>2 DEF Render, EdTypes
      <3>2. QED
        BY <3>1, RenderedFields
    <2>3. QED
      BY <2>1, <2>2
  <1>3. EdCallInv'
    BY <1>1, <1>2 DEF EdInv, EdCallInv, Idle, storeVars
  <1>4. NoUndo.step.id \notin Ids(ed.wf.steps)
    BY EdRows, NoUndoIsNone, IdsAreSteps
  <1>5. EdDocInv'
    BY <1>1, <1>2, <1>4 DEF EdInv, EdDocInv, storeVars
  <1>6. EdTypes'
    BY <1>1, <1>2 DEF EdTypes
  <1>7. QED
    BY <1>1, <1>3, <1>5, <1>6, StoreUnchanged, EditorAssumption DEF EdStep, EdInv

-----------------------------------------------------------------------------
(* The editor saves *)

\* What is sent was made from the version whose rows the editor was shown.
LEMMA SendsStep ==
    ASSUME StoreTypes, StoreInv, EdTypes, EdInv, NEW kind \in {"save", "finish"}, NEW e \in EdRec,
           Sends(kind, e), ed.loaded, ~ed.left, Idle("editor"),
           e.wf = ed.wf, e.shown = ed.shown, e.stored = ed.stored, e.undo = ed.undo,
           e.loaded = ed.loaded, e.left = ed.left, e.dirty = ed.dirty, e.recording = "stopping" => ~e.finishing,
           UNCHANGED <<backing, versions, answers, late, faults>>, UNCHANGED <<dialog, asks, mine>>
    PROVE  EdStep
  <1> DEFINE rows == {[id |-> s.id, bind |-> s.bind] : s \in ed.stored}
             rev == ed.shown.rev
             steps == ed.shown.steps
  <1>1. /\ rev \in DOMAIN versions /\ rev = ed.wf.rev /\ ed.stored = Range(versions[rev].steps)
        /\ steps \in Seq(Step) /\ Distinct(steps)
    BY EdRows DEF EdInv, EdDocInv
  <1>2. Seen(versions[rev].steps, steps, rows)
    BY <1>1 DEF Seen, Range
  <1>3. rows \in SUBSET BindRow
    <2>1. \A s \in ed.stored : s \in Step
      BY DEF EdTypes, EdRec
    <2>2. QED
      BY <2>1 DEF Step, BindRow
  <1>4. Put("editor", kind, steps, rev, rows) /\ ed' = [e EXCEPT !.moved = ~InSight, !.status = "saving"]
    BY DEF Sends
  <1> HIDE DEF rows, rev, steps
  <1>5. answers' \in [Caller -> AnswerRec] /\ answers'["editor"].code = "none" /\ answers' = answers
    BY DEF StoreTypes, Idle
  <1>6. /\ StoreTypes' /\ StoreInv' /\ Grows
        /\ Saves(calls'["editor"]) /\ calls'["editor"].steps = steps
        /\ \A d \in Caller : d # "editor" => calls'[d] = calls[d]
    BY <1>1, <1>2, <1>3, <1>4, <1>5, SaveSent, EditorAssumption
  <1>7. /\ ed' \in EdRec /\ ed'.status = "saving" /\ ed'.moved = ~InSight /\ ed'.wf = ed.wf
        /\ ed'.shown = ed.shown /\ ed'.stored = ed.stored /\ ed'.undo = ed.undo /\ ed'.loaded = ed.loaded
        /\ ed'.left = ed.left /\ ed'.dirty = ed.dirty
        /\ ed'.recording = "stopping" => ~ed'.finishing
    <2>1. InSight \in BOOLEAN
      BY DEF InSight
    <2>2. QED
      BY <1>4, <2>1 DEF EdRec
  <1>8. ~ed'.moved => calls'["editor"].steps = ed'.wf.steps
    BY <1>6, <1>7 DEF InSight, steps
  <1>9. EdCallInv'
    BY <1>5, <1>6, <1>7, <1>8 DEF EdCallInv, Saves
  <1>10. EdDocInv'
    BY <1>7 DEF EdInv, EdDocInv
  <1>11. EdTypes'
    BY <1>7 DEF EdTypes
  <1>12. QED
    BY <1>5, <1>6, <1>9, <1>10, <1>11, EditorAssumption DEF EdStep, EdInv, Keeps

\* A save sent keeps the invariant of the editor and of the store.
LEMMA SaveStep ==
    ASSUME StoreTypes, StoreInv, EdTypes, EdInv, Save
    PROVE  EdStep
  <1>1. /\ ed.loaded /\ ~ed.left /\ Sends("save", ed) /\ ed.status \notin {"loading", "saving"}
        /\ UNCHANGED <<backing, versions, answers, late, faults>> /\ UNCHANGED <<dialog, asks, mine>>
    BY DEF Save, Here, Locked
  <1>2. ed \in EdRec /\ ~ed.finishing /\ Idle("editor")
    BY <1>1 DEF EdTypes, EdInv, EdCallInv
  <1>3. QED
    BY <1>1, <1>2, SendsStep

\* A finish, with a recording to stop first or none, keeps the invariant.
LEMMA FinishStep ==
    ASSUME StoreTypes, StoreInv, EdTypes, EdInv, Finish
    PROVE  EdStep
  <1>1. /\ ed.loaded /\ ~ed.left /\ ed.status \notin {"loading", "saving"}
        /\ UNCHANGED <<backing, versions, answers, late, faults>> /\ UNCHANGED <<dialog, asks, mine>>
        /\ ed \in EdRec
    BY DEF Finish, Here, Locked, EdTypes
  <1>2. Idle("editor")
    BY <1>1 DEF EdInv, EdCallInv
  <1>3. CASE ed.recording = "off"
    <2> DEFINE e == [ed EXCEPT !.finishing = TRUE]
    <2>1. Sends("finish", e)
      BY <1>3 DEF Finish
    <2>2. /\ e \in EdRec /\ e.wf = ed.wf /\ e.shown = ed.shown /\ e.stored = ed.stored /\ e.undo = ed.undo
          /\ e.loaded = ed.loaded /\ e.left = ed.left /\ e.dirty = ed.dirty /\ e.recording # "stopping"
      BY <1>1, <1>3 DEF EdRec
    <2> HIDE DEF e
    <2>3. QED
      BY <1>1, <1>2, <2>1, <2>2, SendsStep
  <1>4. CASE ed.recording # "off"
    <2>1. /\ ed' = [ed EXCEPT !.status = "saving", !.finishing = TRUE, !.recording = "stopping"]
          /\ UNCHANGED <<calls, keys>>
      BY <1>4 DEF Finish
    <2>2. /\ ed' \in EdRec /\ ed'.status = "saving" /\ ed'.recording = "stopping"
          /\ ed'.wf = ed.wf /\ ed'.shown = ed.shown /\ ed'.stored = ed.stored /\ ed'.undo = ed.undo
          /\ ed'.loaded = ed.loaded /\ ed'.left = ed.left /\ ed'.dirty = ed.dirty
      BY <1>1, <2>1 DEF EdRec
    <2>3. EdCallInv'
      BY <1>1, <1>2, <2>1, <2>2 DEF EdCallInv, Idle, Saves
    <2>4. EdDocInv'
      BY <1>1, <2>2 DEF EdInv, EdDocInv
    <2>5. EdTypes'
      BY <1>1, <2>2 DEF EdTypes
    <2>6. UNCHANGED storeVars
      BY <1>1, <2>1 DEF storeVars
    <2>7. QED
      BY <2>3, <2>4, <2>5, <2>6, StoreUnchanged, EditorAssumption DEF EdStep, EdInv
  <1>5. QED
    BY <1>3, <1>4

\* The end of a recording, which a finish waited for or not, keeps the invariant.
LEMMA RecordingStoppedStep ==
    ASSUME StoreTypes, StoreInv, EdTypes, EdInv, RecordingStopped
    PROVE  EdStep
  <1>1. /\ ed.recording = "stopping" /\ ed \in EdRec /\ ~ed.left
        /\ UNCHANGED <<backing, versions, answers, late, faults>> /\ UNCHANGED <<dialog, asks, mine>>
    BY DEF RecordingStopped, EdTypes, EdInv, EdCallInv
  <1> DEFINE e == [ed EXCEPT !.recording = "off"]
  <1>2. /\ e \in EdRec /\ e.wf = ed.wf /\ e.shown = ed.shown /\ e.stored = ed.stored /\ e.undo = ed.undo
        /\ e.loaded = ed.loaded /\ e.left = ed.left /\ e.dirty = ed.dirty /\ e.recording = "off"
        /\ e.status = ed.status /\ e.finishing = ed.finishing /\ e.moved = ed.moved
    BY <1>1 DEF EdRec
  <1>3. CASE ed.finishing /\ ed.status = "saving"
    <2>1. Sends("finish", e)
      BY <1>3 DEF RecordingStopped
    <2>2. ed.loaded /\ Idle("editor")
      BY <1>1, <1>3 DEF EdInv, EdCallInv
    <2> HIDE DEF e
    <2>3. QED
      BY <1>1, <1>2, <2>1, <2>2, SendsStep
  <1>4. CASE ~(ed.finishing /\ ed.status = "saving")
    <2>1. ed' = e /\ UNCHANGED <<calls, keys>>
      BY <1>4 DEF RecordingStopped
    <2> HIDE DEF e
    <2>2. EdCallInv'
      BY <1>1, <1>2, <2>1 DEF EdInv, EdCallInv, Idle
    <2>3. EdDocInv'
      BY <1>1, <1>2, <2>1 DEF EdInv, EdDocInv
    <2>4. EdTypes'
      BY <1>1, <1>2, <2>1 DEF EdTypes
    <2>5. UNCHANGED storeVars
      BY <1>1, <2>1 DEF storeVars
    <2>6. QED
      BY <2>2, <2>3, <2>4, <2>5, StoreUnchanged, EditorAssumption DEF EdStep, EdInv
  <1>5. QED
    BY <1>3, <1>4

\* A recording that does not stop in time fails the finish and keeps the invariant.
LEMMA StopTimesOutStep ==
    ASSUME StoreTypes, StoreInv, EdTypes, EdInv, StopTimesOut
    PROVE  EdStep
  <1>1. /\ ed.recording = "stopping" /\ ed.finishing /\ ed.status = "saving" /\ ed \in EdRec
        /\ ed' = [ed EXCEPT !.status = "error", !.finishing = FALSE]
        /\ UNCHANGED storeVars /\ UNCHANGED <<dialog, asks, mine>>
    BY DEF StopTimesOut, EdOnly, EdTypes
  <1>2. Idle("editor") /\ ~ed.left
    BY <1>1 DEF EdInv, EdCallInv
  <1>3. /\ ed' \in EdRec /\ ed'.status = "error" /\ ~ed'.finishing /\ ~ed'.left
        /\ ed'.wf = ed.wf /\ ed'.shown = ed.shown /\ ed'.stored = ed.stored /\ ed'.undo = ed.undo
        /\ ed'.loaded = ed.loaded /\ ed'.dirty = ed.dirty
    BY <1>1, <1>2 DEF EdRec
  <1>4. EdCallInv'
    BY <1>1, <1>2, <1>3 DEF EdCallInv, Idle, storeVars
  <1>5. EdDocInv'
    BY <1>1, <1>2, <1>3 DEF EdInv, EdDocInv, storeVars
  <1>6. EdTypes'
    BY <1>1, <1>3 DEF EdTypes
  <1>7. QED
    BY <1>1, <1>4, <1>5, <1>6, StoreUnchanged, EditorAssumption DEF EdStep, EdInv

\* The answer of a save is taken over whole only if nothing was changed meanwhile; then it
\* is what was sent.
LEMMA SavedFields ==
    ASSUME EdTypes, EdInv, ed.loaded, NEW doc \in Doc, doc.steps \in Seq(Step), Distinct(doc.steps),
           doc.rev \in DOMAIN versions, doc.steps = versions[doc.rev].steps,
           ~ed.moved => doc.steps = ed.wf.steps
    PROVE  /\ Saved(doc) \in EdRec /\ Saved(doc).wf.rev = doc.rev /\ Saved(doc).stored = Range(doc.steps)
           /\ Saved(doc).wf.steps = ed.wf.steps /\ Saved(doc).shown = ed.shown
           /\ ~Saved(doc).dirty => doc.steps = ed.wf.steps
           /\ Saved(doc).undo = ed.undo \/ Saved(doc).undo = NoUndo
           /\ Saved(doc).loaded = ed.loaded /\ Saved(doc).left = ed.left
           /\ Saved(doc).finishing = ed.finishing /\ Saved(doc).recording = ed.recording
           /\ Saved(doc).status = ed.status
  <1>1. ed \in EdRec /\ ed.wf \in Doc /\ Range(doc.steps) \subseteq Step /\ doc.rev \in Nat
        /\ doc.status \in {"draft", "complete"}
    BY DEF EdTypes, EdRec, Range, Doc
  <1>2. CASE ed.moved
    <2> DEFINE wf == [ed.wf EXCEPT !.rev = doc.rev, !.status = doc.status]
    <2>1. wf \in Doc /\ wf.rev = doc.rev /\ wf.steps = ed.wf.steps
      BY <1>1 DEF Doc
    <2>2. Saved(doc) = [ed EXCEPT !.dirty = TRUE, !.stored = Range(doc.steps), !.wf = wf]
      BY <1>1, <1>2 DEF Saved, EdRec
    <2> HIDE DEF wf
    <2>3. QED
      BY <1>1, <2>1, <2>2 DEF EdRec
  <1>3. CASE ~ed.moved
    <2>1. Saved(doc) = [ed EXCEPT !.wf = doc, !.dirty = FALSE, !.undo = NoUndo, !.stored = Range(doc.steps)]
      BY <1>3 DEF Saved
    <2>2. doc.steps = ed.wf.steps
      BY <1>3
    <2>3. QED
      BY <1>1, <2>1, <2>2 DEF EdRec
  <1>4. QED
    BY <1>2, <1>3, <1>1 DEF EdRec

\* The answer of a save, the workflow moved on or not, keeps the invariant.
LEMMA EdSavedStep ==
    ASSUME StoreTypes, StoreInv, EdTypes, EdInv, EdSaved
    PROVE  EdStep
  <1> DEFINE a == answers["editor"]
             doc == a.doc
  <1>1. /\ ed.status = "saving" /\ a.code # "none" /\ Taken("editor") /\ ed \in EdRec
        /\ UNCHANGED <<backing, versions, calls, late, keys, faults>> /\ UNCHANGED <<dialog, asks, mine>>
    BY DEF EdSaved, Answered, EdTypes
  <1>2. /\ StoreTypes' /\ StoreInv' /\ Grows /\ answers'["editor"].code = "none"
        /\ \A d \in Caller : d # "editor" => Keeps(d)
    BY <1>1, AnswerTaken, EditorAssumption
  <1>3. calls'["editor"].kind = "none" /\ ~Saves(calls'["editor"])
    BY <1>1, EditorAssumption DEF StoreInv, CallInv, Saves
  <1>4. /\ ed.loaded /\ ~ed.left /\ (ed.finishing => ed.recording # "stopping")
        /\ a.code = "ok" /\ ~ed.moved => doc.steps = ed.wf.steps
    BY <1>1 DEF EdInv, EdCallInv, Idle
  <1>5. a.code \in {"ok", "conflict", "error"}
    BY <1>1, EditorAssumption DEF StoreTypes, AnswerRec
  <1>6. NoUndo.step.id \notin Ids(ed.wf.steps)
    BY EdRows, NoUndoIsNone, IdsAreSteps
  <1>7. CASE a.code = "ok"
    <2>1. /\ doc \in Doc /\ doc.rev \in DOMAIN versions /\ doc.steps = versions[doc.rev].steps
          /\ doc.steps \in Seq(Step) /\ Distinct(doc.steps)
      BY <1>7, DocOf, EditorAssumption
    <2> DEFINE s == Saved(doc)
    <2>2. /\ s \in EdRec /\ s.wf.rev = doc.rev /\ s.stored = Range(doc.steps)
          /\ s.wf.steps = ed.wf.steps /\ s.shown = ed.shown /\ (~s.dirty => doc.steps = ed.wf.steps)
          /\ (s.undo = ed.undo \/ s.undo = NoUndo) /\ s.loaded = ed.loaded /\ s.left = ed.left
          /\ s.finishing = ed.finishing /\ s.recording = ed.recording /\ s.status = ed.status
      BY <1>4, <1>7, <2>1, SavedFields
    <2>3. /\ ed.finishing => ed' = [s EXCEPT !.left = TRUE]
          /\ ~ed.finishing => ed' = Rendered([s EXCEPT !.status = "ready"])
      BY <1>7 DEF EdSaved
    <2> HIDE DEF s, doc, a
    <2>4. CASE ed.finishing
      <3>1. /\ ed' \in EdRec /\ ed'.wf.rev = doc.rev /\ ed'.stored = Range(doc.steps)
            /\ ed'.wf.steps = ed.wf.steps /\ ed'.shown = ed.shown /\ (~ed'.dirty => doc.steps = ed.wf.steps)
            /\ (ed'.undo = ed.undo \/ ed'.undo = NoUndo) /\ ed'.loaded /\ ed'.left
            /\ ed'.recording # "stopping" /\ ed'.status = "saving"
        BY <1>1, <1>4, <2>2, <2>3, <2>4 DEF EdRec
      <3>2. EdCallInv'
        BY <1>2, <1>3, <3>1 DEF EdCallInv, Idle
      <3>3. EdDocInv'
        BY <1>1, <1>6, <2>1, <3>1 DEF EdInv, EdDocInv
      <3>4. EdTypes'
        BY <1>1, <3>1 DEF EdTypes
      <3>5. QED
        BY <1>2, <3>2, <3>3, <3>4, EditorAssumption DEF EdStep, EdInv
    <2>5. CASE ~ed.finishing
      <3> DEFINE e == [s EXCEPT !.status = "ready"]
      <3>1. /\ e \in EdRec /\ e.wf = s.wf /\ e.stored = s.stored /\ e.dirty = s.dirty /\ e.undo = s.undo
            /\ e.loaded = s.loaded /\ e.left = s.left /\ e.finishing = s.finishing /\ e.status = "ready"
        BY <2>2 DEF EdRec
      <3>2. ed' = Rendered(e)
        BY <2>3, <2>5
      <3> HIDE DEF e
      <3>3. /\ ed' \in EdRec /\ ed'.wf = s.wf /\ ed'.shown = s.wf /\ ed'.stored = s.stored
            /\ ed'.dirty = s.dirty /\ ed'.undo = s.undo
            /\ ed'.loaded /\ ~ed'.left /\ ~ed'.finishing /\ ed'.status = "ready"
        BY <1>4, <2>2, <2>5, <3>1, <3>2, RenderedFields
      <3>4. EdCallInv'
        BY <1>2, <1>3, <3>3 DEF EdCallInv, Idle
      <3>5. EdDocInv'
        BY <1>1, <1>6, <2>1, <2>2, <3>3 DEF EdInv, EdDocInv
      <3>6. EdTypes'
        BY <1>1, <3>3 DEF EdTypes
      <3>7. QED
        BY <1>2, <3>4, <3>5, <3>6, EditorAssumption DEF EdStep, EdInv
    <2>6. QED
      BY <2>4, <2>5
  <1>8. CASE a.code # "ok"
    <2>1. PICK status \in {"conflict", "error"} : ed' = [ed EXCEPT !.status = status, !.finishing = FALSE]
      BY <1>5, <1>8 DEF EdSaved
    <2>2. /\ ed' \in EdRec /\ ed'.status \in {"conflict", "error"} /\ ~ed'.finishing /\ ~ed'.left
          /\ ed'.wf = ed.wf /\ ed'.shown = ed.shown /\ ed'.stored = ed.stored /\ ed'.undo = ed.undo
          /\ ed'.loaded = ed.loaded /\ ed'.dirty = ed.dirty
      BY <1>1, <1>4, <2>1 DEF EdRec
    <2>3. EdCallInv'
      BY <1>2, <1>3, <2>2 DEF EdCallInv, Idle
    <2>4. EdDocInv'
      BY <1>1, <1>4, <2>2 DEF EdInv, EdDocInv
    <2>5. EdTypes'
      BY <1>1, <2>2 DEF EdTypes
    <2>6. QED
      BY <1>2, <2>3, <2>4, <2>5, EditorAssumption DEF EdStep, EdInv
  <1>9. QED
    BY <1>7, <1>8

-----------------------------------------------------------------------------
(* The Library *)

\* The fields of what the Library holds have their types.
LEMMA LibFields ==
    ASSUME LibTypes
    PROVE  /\ lib \in LibRec /\ lib.base \in Doc /\ lib.draft \in Doc /\ lib.closure \in Closure
           /\ lib.saw \in Saw /\ lib.conflicts \subseteq Clash
           /\ lib.base.steps \in Seq(Step) /\ lib.draft.steps \in Seq(Step)
           /\ lib.closure.base \in Doc /\ lib.closure.draft \in Doc /\ lib.closure.saw \in Saw
           /\ lib.closure.base.steps \in Seq(Step) /\ lib.closure.draft.steps \in Seq(Step)
           /\ lib.closure.run \in BOOLEAN /\ chosen \subseteq BindRow
  <1>1. lib \in LibRec /\ chosen \subseteq BindRow
    BY DEF LibTypes
  <1>2. /\ lib.base \in Doc /\ lib.draft \in Doc /\ lib.closure \in Closure
        /\ lib.saw \in Saw /\ lib.conflicts \subseteq Clash
    BY <1>1 DEF LibRec
  <1>3. /\ lib.closure.base \in Doc /\ lib.closure.draft \in Doc /\ lib.closure.saw \in Saw
        /\ lib.closure.run \in BOOLEAN
    BY <1>2 DEF Closure
  <1>4. QED
    BY <1>1, <1>2, <1>3 DEF Doc

\* A step of others, or of the Library on what its parameters do not depend on.
LEMMA LibraryKept ==
    ASSUME StoreTypes, LibTypes, LibInv, Grows, Keeps("lib"), Keeps("run"),
           UNCHANGED <<lib.base, lib.draft, lib.op, lib.closure, lib.conflicts, lib.saw, chosen>>
    PROVE  LibInv'
  <1>0. LibCallInv /\ LibDocInv /\ ChosenInv
        /\ calls["lib"].kind \in {"none", "get", "save", "finish"}
        /\ calls["run"].kind \in {"none", "get", "save", "finish"}
    BY EditorAssumption DEF LibInv, StoreTypes, CallRec
  <1>1. \A steps : Carried(steps)' <=> Carried(steps)
    BY DEF Carried
  <1>2. /\ Idle("lib") => Idle("lib")'
        /\ calls'["lib"].kind = calls["lib"].kind \/ calls'["lib"].kind = "none"
        /\ Idle("run") => Idle("run")'
        /\ calls'["run"].kind = calls["run"].kind \/ calls'["run"].kind = "none"
    BY DEF Keeps, Idle
  <1>3. /\ ~Saves(calls["lib"]) => ~Saves(calls'["lib"])
        /\ ~Saves(calls["run"]) => ~Saves(calls'["run"])
    BY <1>2 DEF Saves
  <1>4. lib.op \in {"first", "second"} =>
          /\ Saves(calls'["lib"]) => Carried(calls'["lib"].steps)
          /\ answers'["lib"].code = "ok" => Carried(answers'["lib"].doc.steps)
    <2>1. SUFFICES ASSUME lib.op \in {"first", "second"}
                   PROVE  /\ Saves(calls'["lib"]) => Carried(calls'["lib"].steps)
                          /\ answers'["lib"].code = "ok" => Carried(answers'["lib"].doc.steps)
      OBVIOUS
    <2>2. /\ calls["lib"].kind # "get"
          /\ Saves(calls["lib"]) => Carried(calls["lib"].steps)
          /\ answers["lib"].code = "ok" => Carried(answers["lib"].doc.steps)
      BY <1>0, <2>1 DEF LibCallInv
    <2>3. CASE /\ answers'["lib"] = answers["lib"] /\ calls'["lib"].kind = calls["lib"].kind
               /\ Saves(calls["lib"]) => calls'["lib"].steps = calls["lib"].steps
      BY <2>2, <2>3 DEF Saves
    <2>4. CASE /\ calls["lib"].kind # "none" /\ calls'["lib"].kind = "none" /\ answers'["lib"].code # "none"
               /\ answers'["lib"].code = "ok" /\ Saves(calls["lib"])
                    => answers'["lib"].doc.steps = calls["lib"].steps
      <3>1. Saves(calls["lib"]) /\ ~Saves(calls'["lib"])
        BY <1>0, <2>2, <2>4 DEF Saves
      <3>2. QED
        BY <2>2, <2>4, <3>1
    <2>5. QED
      BY <2>3, <2>4 DEF Keeps
  <1>5. LibCallInv'
    BY <1>0, <1>1, <1>2, <1>3, <1>4 DEF LibCallInv
  <1>6. \A doc : Known(doc) => Known(doc)'
    BY DEF Known, Grows
  <1>7. LibDocInv'
    BY <1>0, <1>1, <1>6 DEF LibDocInv
  <1>8. ChosenInv'
    BY <1>0 DEF ChosenInv, ChosenOf, ChosenKept
  <1>9. QED
    BY <1>5, <1>7, <1>8 DEF LibInv

\* What a step of the Library does beside: the editor's calls are as they were.
LibStep ==
    /\ LibTypes' /\ LibInv' /\ LooksInv' /\ StoreTypes' /\ StoreInv'
    /\ Grows /\ Keeps("editor")

\* The fetches of profiles are a matter of the Library's own steps.
LEMMA LooksKept ==
    ASSUME LooksInv, UNCHANGED <<lib.sel, lib.profile, lib.profileStatus, looks>>
    PROVE  LooksInv'
  BY DEF LooksInv

\* The Library's first load keeps its invariant.
LEMMA LibOpensStep ==
    ASSUME StoreTypes, StoreInv, LibTypes, LibInv, LooksInv, LibOpens
    PROVE  LibStep
  <1>1. /\ lib.op = "load" /\ answers["lib"].code = "none" /\ Get("lib")
        /\ UNCHANGED <<backing, versions, answers, late, faults>> /\ UNCHANGED <<lib, looks, profiles, chosen, acts>>
    BY DEF LibOpens, Answered, libVars
  <1>2. /\ StoreTypes' /\ StoreInv' /\ Grows /\ calls'["lib"].kind = "get" /\ answers'["lib"].code = "none"
        /\ \A d \in Caller : d # "lib" => Keeps(d)
    BY <1>1, ReadSent, EditorAssumption
  <1>3. LibCallInv /\ LibDocInv /\ ChosenInv /\ Keeps("run") /\ Keeps("editor")
    BY <1>2, EditorAssumption DEF LibInv
  <1>4. ~Saves(calls'["lib"]) /\ (~Saves(calls["run"]) => ~Saves(calls'["run"])) /\ (Idle("run") => Idle("run")')
    BY <1>2, <1>3 DEF Saves, Idle, Keeps
  <1>5. LibCallInv'
    BY <1>1, <1>3, <1>4 DEF LibCallInv
  <1>6. LibDocInv'
    BY <1>1, <1>3 DEF LibDocInv
  <1>7. ChosenInv'
    BY <1>1, <1>3 DEF ChosenInv, ChosenOf, ChosenKept
  <1>8. LooksInv' /\ LibTypes'
    BY <1>1 DEF LooksInv, LibTypes
  <1>9. QED
    BY <1>2, <1>3, <1>5, <1>6, <1>7, <1>8 DEF LibStep, LibInv

\* What a loaded version shows is a binding of every step.
LEMMA SawAllType ==
    ASSUME NEW s \in Seq(Step), Distinct(s)
    PROVE  SawAll(s) \in Saw
  <1>1. ASSUME NEW id \in StepId
        PROVE  (IF id \in Ids(s) THEN Row(s, id).bind ELSE "recorded") \in Binding
    <2>1. CASE id \in Ids(s)
      <3>1. PICK i \in DOMAIN s : Row(s, id) = s[i]
        BY <2>1, RowOfId
      <3>2. s[i] \in Step
        OBVIOUS
      <3>3. QED
        BY <2>1, <3>1, <3>2 DEF Step
    <2>2. CASE id \notin Ids(s)
      BY <2>2, LibraryAssumption
    <2>3. QED
      BY <2>1, <2>2
  <1>2. QED
    BY <1>1 DEF SawAll, Saw

\* No save under way.
LEMMA NoFetchType == NoFetch \in Closure /\ ~NoFetch.run
  BY NoCallType, LibraryAssumption DEF NoFetch, Closure, NotShown, Saw

\* A version is a draft of itself.
LEMMA DocDraft ==
    ASSUME NEW doc \in Doc, NEW saw
    PROVE  DraftOf(doc, doc, saw)
  BY DEF DraftOf

\* The Library waits for nothing but a run's load.
LEMMA LibRests ==
    ASSUME lib'.op = "none", ~lib'.closure.run, Idle("lib")', ~Saves(calls'["run"]),
           ~Idle("run")' => chosen' = {}, lib'.draft # NoDoc, Known(lib.base)',
           DraftOf(lib.base, lib.draft, lib.saw)', ChosenOf(lib.base.steps)', ChosenKept'
    PROVE  LibInv'
  BY DEF LibInv, LibCallInv, LibDocInv, ChosenInv

\* A version just read is the draft: nothing chosen differs from it.
LEMMA LoadedRests ==
    ASSUME StoreTypes', NEW doc \in Doc,
           doc.rev \in DOMAIN versions', doc.steps = versions'[doc.rev].steps, lib'.base = doc, lib'.draft = doc,
           lib'.op = "none", ~lib'.closure.run, Idle("lib")', ~Saves(calls'["run"]), chosen' = {}
    PROVE  LibInv'
  <1>1. doc # NoDoc
    <2>1. versions' \in Seq(Snapshot)
      BY DEF StoreTypes
    <2>2. doc.rev \in 1 .. Len(versions')
      BY <2>1
    <2>3. doc.rev # 0
      BY <2>1, <2>2
    <2>4. QED
      BY <2>3 DEF NoDoc
  <1>2. Known(lib.base)' /\ DraftOf(lib.base, lib.draft, lib.saw)'
    BY DocDraft DEF Known
  <1>3. ChosenOf(lib.base.steps)' /\ ChosenKept'
    BY DEF ChosenOf, ChosenKept
  <1>4. QED
    BY <1>1, <1>2, <1>3, LibRests

\* The answer of the Library's load keeps its invariant.
LEMMA LibLoadedStep ==
    ASSUME StoreTypes, StoreInv, LibTypes, LibInv, LooksInv, LibLoaded,
           UNCHANGED <<backing, versions, late, faults>>
    PROVE  LibStep
  <1> DEFINE a == answers["lib"]
             doc == a.doc
  <1>1. /\ lib.op = "load" /\ a.code # "none" /\ Taken("lib")
        /\ UNCHANGED <<backing, versions, calls, late, keys, faults>>
        /\ UNCHANGED <<looks, profiles, chosen, acts>>
    BY DEF LibLoaded, Answered
  <1>2. /\ StoreTypes' /\ StoreInv' /\ Grows /\ answers'["lib"].code = "none"
        /\ Keeps("editor") /\ Keeps("run")
    BY <1>1, AnswerTaken, EditorAssumption
  <1>3. LibCallInv /\ LibDocInv /\ ChosenInv /\ calls'["lib"].kind = "none"
    BY <1>1, <1>2, EditorAssumption DEF LibInv, StoreInv, CallInv
  <1>4. /\ lib.draft = NoDoc /\ lib.base = NoDoc /\ chosen = {} /\ ~lib.closure.run
        /\ ~Saves(calls'["run"]) /\ lib \in LibRec
    BY <1>1, <1>3 DEF LibDocInv, LibCallInv, LibTypes
  <1>5. Idle("lib")'
    BY <1>2, <1>3 DEF Idle
  <1>6. CASE a.code = "ok"
    <2>1. /\ doc \in Doc /\ doc.rev \in DOMAIN versions /\ doc.steps = versions[doc.rev].steps
          /\ doc.steps \in Seq(Step) /\ Distinct(doc.steps)
      BY <1>6, DocOf, EditorAssumption
    <2>2. lib' = [lib EXCEPT !.base = doc, !.draft = doc, !.status = "ready", !.op = "none",
                             !.saw = SawAll(doc.steps)]
      BY <1>6 DEF LibLoaded
    <2> HIDE DEF doc, a
    <2>3. /\ lib' \in LibRec /\ lib'.base = doc /\ lib'.draft = doc /\ lib'.op = "none"
          /\ lib'.closure = lib.closure
          /\ UNCHANGED <<lib.sel, lib.profile, lib.profileStatus>>
      BY <1>4, <2>1, <2>2, SawAllType DEF LibRec
    <2>4. doc.rev \in DOMAIN versions' /\ doc.steps = versions'[doc.rev].steps
      BY <1>1, <2>1
    <2>5. LibInv'
      BY <1>1, <1>2, <1>4, <1>5, <2>1, <2>3, <2>4, LoadedRests
    <2>6. LooksInv' /\ LibTypes'
      BY <1>1, <2>3, LooksKept DEF LibTypes
    <2>7. QED
      BY <1>2, <2>5, <2>6 DEF LibStep
  <1>7. CASE a.code # "ok"
    <2>1. lib' = [lib EXCEPT !.status = "error", !.op = "none"]
      BY <1>7 DEF LibLoaded
    <2>2. /\ lib' \in LibRec /\ lib'.base = lib.base /\ lib'.draft = lib.draft /\ lib'.op = "none"
          /\ lib'.closure = lib.closure
          /\ UNCHANGED <<lib.sel, lib.profile, lib.profileStatus>>
      BY <1>4, <2>1 DEF LibRec
    <2>3. LibInv'
      BY <1>1, <1>4, <1>5, <2>2 DEF LibInv, LibCallInv, LibDocInv, ChosenInv, ChosenOf, ChosenKept
    <2>4. LooksInv' /\ LibTypes'
      BY <1>1, <2>2, LooksKept DEF LibTypes
    <2>5. QED
      BY <1>2, <2>3, <2>4 DEF LibStep
  <1>8. QED
    BY <1>6, <1>7

-----------------------------------------------------------------------------
(* The Library: what the user chooses *)

\* Rows given the user's bindings: the draft stays one of its base, and what is chosen
\* is in it.
LEMMA BindingsChosen ==
    ASSUME StoreTypes, StoreInv, LibTypes, LibInv, LooksInv,
           UNCHANGED <<backing, versions, calls, answers, late, keys, faults>>,
           lib.draft # NoDoc, NEW rows \in SUBSET BindRow, NEW steps \in Seq(Step),
           Len(steps) = Len(lib.draft.steps),
           \A i \in DOMAIN lib.draft.steps :
             /\ steps[i].id = lib.draft.steps[i].id
             /\ steps[i].bind = lib.draft.steps[i].bind \/ \E r \in rows : r.id = steps[i].id
             /\ \A r \in rows : r.id = steps[i].id => steps[i].bind = r.bind,
           \A r \in rows : \E i \in DOMAIN lib.draft.steps : lib.draft.steps[i].id = r.id,
           rows # {},
           lib' \in LibRec, lib'.draft = [lib.draft EXCEPT !.steps = steps],
           UNCHANGED <<lib.base, lib.op, lib.closure, lib.sel, lib.profile, lib.profileStatus>>,
           \A id \in StepId : lib'.saw[id] = IF \E r \in rows : r.id = id THEN SawOf(id) ELSE lib.saw[id],
           \A d \in lib.conflicts : (\A r \in rows : r.id # d.id) => d \in lib'.conflicts,
           chosen' = Watched(rows), UNCHANGED <<looks, profiles>>, acts' \in Nat
    PROVE  LibStep
  <1> DEFINE base == lib.base.steps
             draft == lib.draft.steps
  <1>1. /\ LibCallInv /\ LibDocInv /\ ChosenInv /\ lib.draft \in Doc /\ lib.base \in Doc
        /\ base \in Seq(Step) /\ draft \in Seq(Step) /\ chosen \subseteq BindRow
    BY LibFields DEF LibInv
  <1>2. /\ Known(lib.base) /\ Len(draft) = Len(base)
        /\ \A i \in DOMAIN base :
             /\ draft[i].id = base[i].id
             /\ draft[i].bind = base[i].bind \/ lib.saw[base[i].id] = base[i].bind
    BY <1>1 DEF LibDocInv, DraftOf
  <1>3. DOMAIN draft = DOMAIN base /\ DOMAIN steps = DOMAIN base /\ Distinct(base)
    BY <1>1, <1>2 DEF Known, StoreInv, VersionInv
  <1>4. lib'.draft.steps = steps /\ lib'.base = lib.base /\ lib'.draft # NoDoc
    <2>1. lib'.draft.steps = steps
      BY <1>1 DEF Doc
    <2>2. steps # <<>>
      BY <1>3
    <2>3. QED
      BY <2>1, <2>2 DEF NoDoc
  <1>5. UNCHANGED storeVars
    BY DEF storeVars
  <1>6. /\ StoreTypes' /\ StoreInv' /\ Grows /\ Keeps("editor") /\ Keeps("lib") /\ Keeps("run")
    BY <1>5, StoreUnchanged, EditorAssumption
  <1>7. DraftOf(lib.base, lib.draft, lib.saw)'
    <2>1. ASSUME NEW i \in DOMAIN base
          PROVE  /\ steps[i].id = base[i].id
                 /\ steps[i].bind = base[i].bind \/ lib'.saw[base[i].id] = base[i].bind
      <3>1. steps[i].id = base[i].id /\ base[i] \in Step
        BY <1>1, <1>2, <1>3
      <3>a. base[i].id \in StepId
        BY <3>1 DEF Step
      <3>2. CASE \E r \in rows : r.id = base[i].id
        <4>1. Row(base, base[i].id) = base[i] /\ base[i].id \in Ids(base)
          BY <1>1, <1>3, RowFacts DEF Ids
        <4>2. lib'.saw[base[i].id] = base[i].bind
          BY <3>1, <3>a, <3>2, <4>1 DEF SawOf
        <4>3. QED
          BY <3>1, <4>2
      <3>3. CASE ~\E r \in rows : r.id = base[i].id
        <4>1. lib'.saw[base[i].id] = lib.saw[base[i].id]
          BY <3>a, <3>3
        <4>2. steps[i].bind = draft[i].bind
          BY <1>3, <3>1, <3>3
        <4>3. QED
          BY <1>2, <3>1, <4>1, <4>2
      <3>4. QED
        BY <3>2, <3>3
    <2>2. QED
      BY <1>1, <1>2, <1>4, <2>1 DEF DraftOf
  <1>8. ASSUME NEW c \in chosen'
        PROVE  \/ c \in chosen /\ \A r \in rows : r.id # c.id
               \/ c \in rows /\ Quiet /\ <<c.id, c.bind>> \notin Bindings(base)
    BY DEF Watched
  <1>9. chosen' \subseteq BindRow /\ (~Quiet => chosen' \subseteq chosen)
    BY <1>1, <1>8
  <1>10. ChosenOf(lib.base.steps)'
    <2>1. ASSUME NEW c \in chosen'
          PROVE  \E i \in DOMAIN base : base[i].id = c.id /\ base[i].bind # c.bind
      <3>1. CASE c \in chosen
        BY <3>1, <1>1 DEF ChosenInv, ChosenOf
      <3>2. CASE c \in rows /\ <<c.id, c.bind>> \notin Bindings(base)
        <4>1. PICK i \in DOMAIN base : base[i].id = c.id
          BY <3>2, <1>2, <1>3
        <4>2. <<base[i].id, base[i].bind>> \in Bindings(base)
          BY DEF Bindings
        <4>3. QED
          BY <3>2, <4>1, <4>2
      <3>3. QED
        BY <3>1, <3>2, <1>8
    <2>2. QED
      BY <2>1, <1>4 DEF ChosenOf
  <1>11. ChosenKept'
    <2>1. ASSUME NEW c \in chosen'
          PROVE  \/ \A i \in DOMAIN steps : steps[i].id = c.id => steps[i].bind = c.bind
                 \/ \E d \in lib'.conflicts : d.id = c.id /\ d.local = c.bind
      <3>1. CASE c \in chosen /\ \A r \in rows : r.id # c.id
        BY <3>1, <1>1, <1>3 DEF ChosenInv, ChosenKept
      <3>2. CASE c \in rows
        BY <3>2, <1>3
      <3>3. QED
        BY <3>1, <3>2, <1>8
    <2>2. QED
      BY <2>1, <1>4 DEF ChosenKept
  <1>12. lib.op \in {"first", "latest"} => ChosenOf(lib.closure.base.steps)'
    <2>1. SUFFICES ASSUME lib.op \in {"first", "latest"} PROVE ChosenOf(lib.closure.base.steps)'
      OBVIOUS
    <2>2. chosen' \subseteq chosen
      BY <2>1, <1>9 DEF Quiet
    <2>3. QED
      BY <2>1, <2>2, <1>1 DEF ChosenInv, ChosenOf
  <1>13. \A s : lib.op # "none" /\ Carried(s) => Carried(s)'
    BY <1>9 DEF Carried, Quiet
  <1>14. ~Idle("run") => chosen' = {}
    <2>1. Quiet => Idle("run")
      BY EditorAssumption, NoCallType DEF Quiet, Idle, Answered
    <2>2. QED
      BY <2>1, <1>1, <1>9 DEF LibCallInv
  <1>15. LibCallInv'
    BY <1>1, <1>4, <1>13, <1>14 DEF LibCallInv, Idle
  <1>16. LibDocInv'
    BY <1>1, <1>4, <1>7, <1>13 DEF LibDocInv, Known
  <1>17. ChosenInv'
    BY <1>10, <1>11, <1>12 DEF ChosenInv
  <1>18. LibTypes' /\ LooksInv'
    BY <1>9, LooksKept DEF LibTypes
  <1>19. QED
    BY <1>6, <1>15, <1>16, <1>17, <1>18 DEF LibStep, LibInv

\* What the user saw of a row is a binding.
LEMMA SawOfType ==
    ASSUME StoreTypes, StoreInv, LibTypes, LibInv, lib.draft # NoDoc, NEW id \in StepId
    PROVE  SawOf(id) \in Binding
  <1>1. lib.saw[id] \in Binding /\ lib.base.steps \in Seq(Step)
    BY LibFields DEF Saw
  <1>2. Distinct(lib.base.steps)
    BY DEF LibInv, LibDocInv, Known, StoreInv, VersionInv
  <1>3. CASE id \in Ids(lib.base.steps)
    <2>1. PICK i \in DOMAIN lib.base.steps : Row(lib.base.steps, id) = lib.base.steps[i]
      BY <1>1, <1>2, <1>3, RowOfId
    <2>2. lib.base.steps[i] \in Step
      BY <1>1
    <2>3. QED
      BY <1>3, <2>1, <2>2 DEF SawOf, Step
  <1>4. QED
    BY <1>1, <1>3 DEF SawOf

\* One row of the draft set to a choice keeps the Library's invariant.
LEMMA OneBindingChosen ==
    ASSUME StoreTypes, StoreInv, LibTypes, LibInv, LooksInv,
           UNCHANGED <<backing, versions, calls, answers, late, keys, faults>>, lib.draft # NoDoc,
           NEW id \in StepId, NEW b \in Binding, id \in Ids(lib.draft.steps),
           NEW e \in LibRec,
           lib' = [e EXCEPT !.draft = [lib.draft EXCEPT !.steps = Bind(lib.draft.steps, id, b)],
                            !.saw = [lib.saw EXCEPT ![id] = SawOf(id)]],
           e.base = lib.base, e.op = lib.op, e.closure = lib.closure, e.sel = lib.sel,
           e.profile = lib.profile, e.profileStatus = lib.profileStatus,
           \A d \in lib.conflicts : d.id # id => d \in e.conflicts,
           chosen' = Watched({[id |-> id, bind |-> b]}), UNCHANGED <<looks, profiles>>, acts' \in Nat
    PROVE  LibStep
  <1> DEFINE draft == lib.draft.steps
             steps == Bind(draft, id, b)
             rows == {[id |-> id, bind |-> b]}
             doc == [lib.draft EXCEPT !.steps = steps]
             saw == [lib.saw EXCEPT ![id] = SawOf(id)]
  <1>1. lib.draft \in Doc /\ draft \in Seq(Step) /\ lib.saw \in Saw /\ SawOf(id) \in Binding
    BY LibFields, SawOfType
  <1>2. /\ steps \in Seq(Step) /\ Len(steps) = Len(draft)
        /\ \A i \in DOMAIN draft :
             /\ steps[i].id = draft[i].id
             /\ steps[i].bind = IF draft[i].id = id THEN b ELSE draft[i].bind
    BY <1>1, BindFacts
  <1>3. rows \in SUBSET BindRow /\ rows # {}
    BY DEF BindRow
  <1>4. \E i \in DOMAIN draft : draft[i].id = id
    BY DEF Ids
  <1>5. saw \in Saw /\ saw[id] = SawOf(id) /\ \A r \in StepId : r # id => saw[r] = lib.saw[r]
    BY <1>1 DEF Saw
  <1>6. \A r \in rows : r.id = id /\ r.bind = b
    OBVIOUS
  <1>7. \E r \in rows : r.id = id
    OBVIOUS
  <1>8. lib' = [e EXCEPT !.draft = doc, !.saw = saw] /\ chosen' = Watched(rows)
    OBVIOUS
  <1> HIDE DEF steps, rows, saw
  <1>9. doc \in Doc
    BY <1>1, <1>2 DEF Doc
  <1> HIDE DEF doc
  <1>10. /\ lib' \in LibRec /\ lib'.draft = doc /\ lib'.saw = saw /\ lib'.base = lib.base
         /\ lib'.op = lib.op /\ lib'.closure = lib.closure /\ lib'.sel = lib.sel
         /\ lib'.profile = lib.profile /\ lib'.profileStatus = lib.profileStatus
         /\ lib'.conflicts = e.conflicts
    BY <1>5, <1>8, <1>9 DEF LibRec
  <1>11. lib'.draft = [lib.draft EXCEPT !.steps = steps]
    BY <1>10 DEF doc
  <1>12. \A r \in StepId : lib'.saw[r] = IF \E row \in rows : row.id = r THEN SawOf(r) ELSE lib.saw[r]
    BY <1>5, <1>6, <1>7, <1>10
  <1>13. \A i \in DOMAIN draft :
           /\ steps[i].id = draft[i].id
           /\ steps[i].bind = draft[i].bind \/ \E r \in rows : r.id = steps[i].id
           /\ \A r \in rows : r.id = steps[i].id => steps[i].bind = r.bind
    BY <1>2, <1>6, <1>7
  <1>14. \A r \in rows : \E i \in DOMAIN draft : draft[i].id = r.id
    BY <1>4, <1>6
  <1>15. \A d \in lib.conflicts : (\A r \in rows : r.id # d.id) => d \in lib'.conflicts
    BY <1>6, <1>7, <1>10
  <1>16. QED
    BY <1>2, <1>3, <1>8, <1>10, <1>11, <1>12, <1>13, <1>14, <1>15, BindingsChosen

\* A binding chosen keeps the Library's invariant (updateBinding).
LEMMA UpdateBindingStep ==
    ASSUME StoreTypes, StoreInv, LibTypes, LibInv, LooksInv, NEW id \in StepId, NEW b \in Binding,
           UpdateBinding(id, b), UNCHANGED <<backing, versions, late, faults>>
    PROVE  LibStep
  <1>1. /\ lib.draft # NoDoc /\ id \in Ids(lib.draft.steps) /\ acts' = acts + 1
        /\ lib' = [lib EXCEPT !.draft.steps = Bind(@, id, b), !.saw[id] = SawOf(id)]
        /\ chosen' = Watched({[id |-> id, bind |-> b]})
        /\ UNCHANGED <<looks, profiles, calls, answers, keys>>
    BY DEF UpdateBinding, Open, Act
  <1>2. lib \in LibRec /\ acts' \in Nat
    BY <1>1 DEF LibTypes
  <1>3. lib' = [lib EXCEPT !.draft = [lib.draft EXCEPT !.steps = Bind(lib.draft.steps, id, b)],
                           !.saw = [lib.saw EXCEPT ![id] = SawOf(id)]]
    BY <1>1, <1>2 DEF LibRec
  <1>4. QED
    BY <1>1, <1>2, <1>3, OneBindingChosen

\* A conflict resolved for the user's side keeps the Library's invariant.
LEMMA KeptLocalStep ==
    ASSUME StoreTypes, StoreInv, LibTypes, LibInv, LooksInv, NEW c \in lib.conflicts,
           ResolveConflict(c, "local"), UNCHANGED <<backing, versions, late, faults>>
    PROVE  LibStep
  <1> DEFINE left == {d \in lib.conflicts : d.id # c.id}
             e == [lib EXCEPT !.conflicts = left, !.status = IF left = {} THEN "ready" ELSE "conflict"]
  <1>1. /\ lib.draft # NoDoc /\ c.id \in Ids(lib.draft.steps) /\ acts' = acts
        /\ lib' = [lib EXCEPT !.conflicts = left, !.status = IF left = {} THEN "ready" ELSE "conflict",
                              !.draft.steps = Bind(@, c.id, c.local), !.saw[c.id] = SawOf(c.id)]
        /\ chosen' = Watched({[id |-> c.id, bind |-> c.local]})
        /\ UNCHANGED <<looks, profiles, calls, answers, keys>>
    BY DEF ResolveConflict, Open
  <1>2. lib \in LibRec /\ acts' \in Nat /\ c \in Clash
    BY <1>1, LibFields DEF LibTypes
  <1>3. left \subseteq Clash /\ c.id \in StepId /\ c.local \in Binding
    BY <1>2, LibFields DEF Clash
  <1>4. lib' = [e EXCEPT !.draft = [lib.draft EXCEPT !.steps = Bind(lib.draft.steps, c.id, c.local)],
                         !.saw = [lib.saw EXCEPT ![c.id] = SawOf(c.id)]]
    BY <1>1, <1>2 DEF LibRec
  <1>5. /\ e \in LibRec /\ e.base = lib.base /\ e.op = lib.op /\ e.closure = lib.closure
        /\ e.sel = lib.sel /\ e.profile = lib.profile /\ e.profileStatus = lib.profileStatus
        /\ e.conflicts = left
    BY <1>2, <1>3 DEF LibRec
  <1>6. \A d \in lib.conflicts : d.id # c.id => d \in e.conflicts
    BY <1>5
  <1> HIDE DEF e
  <1>7. QED
    BY <1>1, <1>2, <1>3, <1>4, <1>5, <1>6, OneBindingChosen

\* A conflict resolved for the stored side withdraws the choice.
LEMMA UsedSavedStep ==
    ASSUME StoreTypes, StoreInv, LibTypes, LibInv, LooksInv, NEW c \in lib.conflicts,
           ResolveConflict(c, "saved"), UNCHANGED <<backing, versions, late, faults>>
    PROVE  LibStep
  <1> DEFINE left == {d \in lib.conflicts : d.id # c.id}
  <1>1. /\ lib.draft # NoDoc /\ c.id \in Ids(lib.draft.steps) /\ acts' = acts
        /\ lib' = [lib EXCEPT !.conflicts = left, !.status = IF left = {} THEN "ready" ELSE "conflict",
                              !.draft.steps = @, !.saw[c.id] = @]
        /\ chosen' = {d \in chosen : d.id # c.id}
        /\ UNCHANGED <<looks, profiles, calls, answers, keys>>
    BY DEF ResolveConflict, Open
  <1>2. lib \in LibRec /\ acts' \in Nat /\ left \subseteq Clash /\ chosen' \subseteq chosen
    BY <1>1, LibFields DEF LibTypes
  <1>3. /\ lib' \in LibRec /\ lib'.conflicts = left /\ lib'.draft = lib.draft /\ lib'.saw = lib.saw
        /\ lib'.base = lib.base /\ lib'.op = lib.op /\ lib'.closure = lib.closure
        /\ lib'.sel = lib.sel /\ lib'.profile = lib.profile /\ lib'.profileStatus = lib.profileStatus
    <2>1. lib.draft \in Doc /\ lib.saw \in Saw
      BY LibFields
    <2>2. [lib.draft EXCEPT !.steps = @] = lib.draft /\ [lib.saw EXCEPT ![c.id] = @] = lib.saw
      BY <2>1 DEF Doc, Saw
    <2>3. lib' = [lib EXCEPT !.conflicts = left, !.status = IF left = {} THEN "ready" ELSE "conflict",
                             !.draft = [lib.draft EXCEPT !.steps = @], !.saw = [lib.saw EXCEPT ![c.id] = @]]
      BY <1>1, <1>2 DEF LibRec
    <2>4. lib' = [lib EXCEPT !.conflicts = left, !.status = IF left = {} THEN "ready" ELSE "conflict"]
      BY <1>2, <2>2, <2>3 DEF LibRec
    <2>5. QED
      BY <1>2, <2>4 DEF LibRec
  <1>4. UNCHANGED storeVars
    BY <1>1 DEF storeVars
  <1>5. /\ StoreTypes' /\ StoreInv' /\ Grows /\ Keeps("editor") /\ Keeps("lib") /\ Keeps("run")
    BY <1>4, StoreUnchanged, EditorAssumption
  <1>6. LibCallInv /\ LibDocInv /\ ChosenInv
    BY DEF LibInv
  <1>7. \A s : Carried(s) => Carried(s)'
    BY <1>2 DEF Carried
  <1>8. LibCallInv'
    BY <1>1, <1>2, <1>3, <1>6, <1>7 DEF LibCallInv, Idle
  <1>9. LibDocInv'
    BY <1>2, <1>3, <1>6, <1>7 DEF LibDocInv, Known
  <1>10. ChosenInv'
    <2>1. ChosenOf(lib.base.steps)' /\ (lib'.op \in {"first", "latest"} => ChosenOf(lib.closure.base.steps)')
      BY <1>2, <1>3, <1>6 DEF ChosenInv, ChosenOf
    <2>2. ASSUME NEW d \in chosen'
          PROVE  \/ \A i \in DOMAIN lib.draft.steps :
                      lib.draft.steps[i].id = d.id => lib.draft.steps[i].bind = d.bind
                 \/ \E k \in left : k.id = d.id /\ k.local = d.bind
      BY <1>1, <1>6 DEF ChosenInv, ChosenKept
    <2>3. ChosenKept'
      BY <1>3, <2>2 DEF ChosenKept
    <2>4. QED
      BY <2>1, <2>3 DEF ChosenInv
  <1>11. LibTypes' /\ LooksInv'
    BY <1>1, <1>2, <1>3, LooksKept DEF LibTypes
  <1>12. QED
    BY <1>5, <1>8, <1>9, <1>10, <1>11 DEF LibStep, LibInv

\* The automatic mapping keeps the Library's invariant.
LEMMA AutoMapStep ==
    ASSUME StoreTypes, StoreInv, LibTypes, LibInv, LooksInv, AutoMap,
           UNCHANGED <<backing, versions, late, faults>>
    PROVE  LibStep
  <1> DEFINE draft == lib.draft.steps
             ids == {id \in Ids(draft) \cap Mapped : Row(draft, id).bind = "recorded"}
             rows == {[id |-> id, bind |-> "profile"] : id \in ids}
             steps == [i \in DOMAIN draft |-> IF draft[i].id \in ids THEN [draft[i] EXCEPT !.bind = "profile"]
                                              ELSE draft[i]]
             saw == [id \in StepId |-> IF id \in ids THEN SawOf(id) ELSE lib.saw[id]]
             doc == [lib.draft EXCEPT !.steps = steps]
  <1>1. /\ lib.draft # NoDoc /\ ids # {} /\ acts' = acts + 1
        /\ lib' = [lib EXCEPT !.draft.steps = steps, !.saw = saw]
        /\ chosen' = Watched(rows)
        /\ UNCHANGED <<looks, profiles, calls, answers, keys>>
    BY DEF AutoMap, Open, Act
  <1>2. /\ lib \in LibRec /\ acts' \in Nat /\ lib.draft \in Doc /\ draft \in Seq(Step) /\ lib.saw \in Saw
        /\ "profile" \in Binding
    BY <1>1, LibFields, LibraryAssumption DEF LibTypes
  <1>3. ids \subseteq Ids(draft) /\ ids \subseteq StepId
    BY <1>2, IdsAreSteps
  <1>4. /\ steps \in Seq(Step) /\ Len(steps) = Len(draft)
        /\ \A i \in DOMAIN draft :
             /\ steps[i].id = draft[i].id
             /\ steps[i].bind = IF draft[i].id \in ids THEN "profile" ELSE draft[i].bind
    <2> HIDE DEF ids
    <2>1. ASSUME NEW i \in 1 .. Len(draft)
          PROVE  /\ draft[i] \in Step /\ [draft[i] EXCEPT !.bind = "profile"] \in Step
                 /\ [draft[i] EXCEPT !.bind = "profile"].id = draft[i].id
                 /\ [draft[i] EXCEPT !.bind = "profile"].bind = "profile"
      <3>1. draft[i] \in Step
        BY <1>2
      <3>2. QED
        BY <3>1, <1>2 DEF Step
    <2>2. steps \in [1 .. Len(draft) -> Step]
      BY <2>1, <1>2
    <2>4. DOMAIN draft = 1 .. Len(draft)
      BY <1>2
    <2>5. \A i \in DOMAIN draft :
            steps[i] = IF draft[i].id \in ids THEN [draft[i] EXCEPT !.bind = "profile"] ELSE draft[i]
      OBVIOUS
    <2> HIDE DEF steps
    <2>3. steps \in Seq(Step) /\ Len(steps) = Len(draft)
      BY <2>2, <1>2
    <2>6. QED
      BY <2>1, <2>3, <2>4, <2>5
  <1>5. saw \in Saw
    BY <1>1, <1>2, <1>3, SawOfType DEF Saw
  <1>6. lib' = [lib EXCEPT !.draft = doc, !.saw = saw]
    BY <1>1, <1>2 DEF LibRec
  <1>7. /\ rows \in SUBSET BindRow /\ rows # {}
        /\ \A r \in rows : r.id \in ids /\ r.bind = "profile"
        /\ \A id \in ids : \E r \in rows : r.id = id
    <2> HIDE DEF ids
    <2>1. \A id \in ids : [id |-> id, bind |-> "profile"] \in rows
      OBVIOUS
    <2>2. \A r \in rows : r.id \in ids /\ r.bind = "profile" /\ r \in BindRow
      BY <1>2, <1>3 DEF BindRow
    <2> HIDE DEF rows
    <2>3. ASSUME NEW id \in ids
          PROVE  \E r \in rows : r.id = id
      <3>1. [id |-> id, bind |-> "profile"].id = id
        OBVIOUS
      <3>2. QED
        BY <2>1, <3>1
    <2>4. QED
      BY <1>1, <2>2, <2>3
  <1>8. \A id \in StepId : saw[id] = IF id \in ids THEN SawOf(id) ELSE lib.saw[id]
    OBVIOUS
  <1> HIDE DEF ids, rows, steps, saw
  <1>9. doc \in Doc
    BY <1>2, <1>4 DEF Doc
  <1> HIDE DEF doc
  <1>10. /\ lib' \in LibRec /\ lib'.draft = doc /\ lib'.saw = saw /\ lib'.base = lib.base
         /\ lib'.op = lib.op /\ lib'.closure = lib.closure /\ lib'.sel = lib.sel
         /\ lib'.profile = lib.profile /\ lib'.profileStatus = lib.profileStatus
         /\ lib'.conflicts = lib.conflicts
    BY <1>2, <1>5, <1>6, <1>9 DEF LibRec
  <1>11. lib'.draft = [lib.draft EXCEPT !.steps = steps]
    BY <1>10 DEF doc
  <1>12. \A r \in StepId : lib'.saw[r] = IF \E row \in rows : row.id = r THEN SawOf(r) ELSE lib.saw[r]
    BY <1>7, <1>8, <1>10
  <1>13. \A i \in DOMAIN draft :
           /\ steps[i].id = draft[i].id
           /\ steps[i].bind = draft[i].bind \/ \E r \in rows : r.id = steps[i].id
           /\ \A r \in rows : r.id = steps[i].id => steps[i].bind = r.bind
    BY <1>4, <1>7
  <1>14. \A r \in rows : \E i \in DOMAIN draft : draft[i].id = r.id
    BY <1>3, <1>7 DEF Ids
  <1>15. QED
    BY <1>1, <1>2, <1>4, <1>7, <1>10, <1>11, <1>12, <1>13, <1>14, BindingsChosen

-----------------------------------------------------------------------------
(* The Library: saves, and what comes back *)

ShownOf(steps, saw) == {[id |-> steps[i].id, bind |-> saw[steps[i].id]] : i \in DOMAIN steps}

\* What a draft changes of its version was shown.
LEMMA DraftSeen ==
    ASSUME StoreTypes, StoreInv, NEW base \in Doc, NEW draft \in Doc, NEW saw \in Saw,
           Known(base), DraftOf(base, draft, saw)
    PROVE  /\ base.rev \in DOMAIN versions /\ Distinct(draft.steps)
           /\ Seen(versions[base.rev].steps, draft.steps, ShownOf(draft.steps, saw))
           /\ ShownOf(draft.steps, saw) \in SUBSET BindRow
  <1> DEFINE old == base.steps
             new == draft.steps
             shown == ShownOf(new, saw)
  <1>1. /\ old \in Seq(Step) /\ new \in Seq(Step) /\ old = versions[base.rev].steps
        /\ base.rev \in DOMAIN versions /\ Distinct(old)
    BY DEF Doc, Known, StoreInv, VersionInv
  <1>2. /\ Len(new) = Len(old) /\ DOMAIN new = DOMAIN old
        /\ \A i \in DOMAIN old :
             new[i].id = old[i].id /\ (new[i].bind = old[i].bind \/ saw[old[i].id] = old[i].bind)
    BY <1>1 DEF DraftOf
  <1>3. Distinct(new)
    BY <1>1, <1>2, SameIds
  <1>4. ASSUME NEW i \in DOMAIN old
        PROVE  \/ [id |-> old[i].id, bind |-> old[i].bind] \in shown
               \/ \E j \in DOMAIN new : new[j].id = old[i].id /\ new[j].bind = old[i].bind
    <2>1. CASE new[i].bind = old[i].bind
      BY <2>1, <1>2
    <2>2. CASE saw[old[i].id] = old[i].bind
      <3>1. i \in DOMAIN new /\ [id |-> new[i].id, bind |-> saw[new[i].id]] \in shown
        BY <1>2 DEF ShownOf
      <3>2. QED
        BY <2>2, <3>1, <1>2
    <2>3. QED
      BY <2>1, <2>2, <1>2
  <1>5. shown \in SUBSET BindRow
    <2>1. ASSUME NEW i \in DOMAIN new
          PROVE  [id |-> new[i].id, bind |-> saw[new[i].id]] \in BindRow
      <3>1. new[i] \in Step
        BY <1>1
      <3>2. QED
        BY <3>1 DEF Step, Saw, BindRow
    <2>2. QED
      BY <2>1 DEF ShownOf
  <1>6. QED
    BY <1>1, <1>3, <1>4, <1>5 DEF Seen

\* A draft sent for the first time, by a save or a run.
LEMMA SendFirstStep ==
    ASSUME StoreTypes, StoreInv, LibTypes, LibInv, LooksInv, lib.draft # NoDoc, lib.conflicts = {},
           lib.op = "none", NEW run \in BOOLEAN, run => Idle("run"), SendFirst(run),
           UNCHANGED <<backing, versions, answers, late, faults>>,
           UNCHANGED <<looks, profiles, chosen, acts>>
    PROVE  LibStep
  <1> DEFINE fetch == [base |-> lib.base, draft |-> lib.draft, run |-> run, saw |-> lib.saw]
             steps == lib.draft.steps
  <1>1. /\ Put("lib", "save", steps, lib.base.rev, Shown(steps))
        /\ lib' = [lib EXCEPT !.status = "saving", !.op = "first", !.closure = fetch]
    BY DEF SendFirst
  <1>2. /\ LibCallInv /\ LibDocInv /\ ChosenInv /\ lib \in LibRec /\ lib.base \in Doc /\ lib.draft \in Doc
        /\ lib.saw \in Saw /\ steps \in Seq(Step) /\ Idle("lib")
    BY LibFields DEF LibInv, LibCallInv
  <1>3. Known(lib.base) /\ DraftOf(lib.base, lib.draft, lib.saw)
    BY <1>2 DEF LibDocInv
  <1>4. /\ lib.base.rev \in DOMAIN versions /\ Distinct(steps)
        /\ Seen(versions[lib.base.rev].steps, steps, ShownOf(steps, lib.saw))
        /\ ShownOf(steps, lib.saw) \in SUBSET BindRow
    BY <1>2, <1>3, DraftSeen
  <1>5. Shown(steps) = ShownOf(steps, lib.saw)
    BY DEF Shown, ShownOf
  <1>6. answers' \in [Caller -> AnswerRec] /\ answers'["lib"].code = "none" /\ answers' = answers
    BY <1>2 DEF StoreTypes, Idle
  <1>7. /\ StoreTypes' /\ StoreInv' /\ Grows
        /\ Saves(calls'["lib"]) /\ calls'["lib"].steps = steps
        /\ \A d \in Caller : d # "lib" => calls'[d] = calls[d]
    BY <1>1, <1>2, <1>4, <1>5, <1>6, SaveSent, EditorAssumption
  <1>8. /\ calls'["run"] = calls["run"] /\ calls'["editor"] = calls["editor"]
        /\ Keeps("editor") /\ (Idle("run") <=> Idle("run")')
    BY <1>6, <1>7, EditorAssumption DEF Keeps, Idle
  <1>9. fetch \in Closure
    BY <1>2 DEF Closure
  <1>10. /\ fetch.base = lib.base /\ fetch.draft = lib.draft /\ fetch.saw = lib.saw /\ fetch.run = run
    OBVIOUS
  <1> HIDE DEF fetch, steps
  <1>11. /\ lib' \in LibRec /\ lib'.op = "first" /\ lib'.closure = fetch /\ lib'.base = lib.base
         /\ lib'.draft = lib.draft /\ lib'.saw = lib.saw /\ lib'.conflicts = lib.conflicts
         /\ lib'.sel = lib.sel /\ lib'.profile = lib.profile /\ lib'.profileStatus = lib.profileStatus
    BY <1>1, <1>2, <1>9 DEF LibRec
  <1>12. \A c \in chosen' : \A i \in DOMAIN steps : steps[i].id = c.id => steps[i].bind = c.bind
    BY <1>2 DEF ChosenInv, ChosenKept, steps
  <1>13. Carried(calls["lib"].steps)'
    BY <1>7, <1>12 DEF Carried
  <1>14. LibCallInv'
    BY <1>2, <1>6, <1>7, <1>8, <1>10, <1>11, <1>13 DEF LibCallInv, Saves
  <1>15. LibDocInv'
    BY <1>3, <1>10, <1>11, <1>12 DEF LibDocInv, Known, Carried, steps
  <1>16. ChosenInv'
    BY <1>2, <1>10, <1>11 DEF ChosenInv, ChosenOf, ChosenKept
  <1>17. LibTypes' /\ LooksInv'
    BY <1>11, LooksKept DEF LibTypes
  <1>18. QED
    BY <1>7, <1>8, <1>14, <1>15, <1>16, <1>17 DEF LibStep, LibInv

\* A save of the draft keeps the Library's invariant.
LEMMA SaveDraftStep ==
    ASSUME StoreTypes, StoreInv, LibTypes, LibInv, LooksInv, SaveDraft,
           UNCHANGED <<backing, versions, late, faults>>
    PROVE  LibStep
  <1>1. /\ lib.draft # NoDoc /\ lib.conflicts = {} /\ lib.op = "none" /\ SendFirst(FALSE)
        /\ UNCHANGED <<looks, profiles, chosen, acts>> /\ answers' = answers
    BY DEF SaveDraft, Open
  <1>2. QED
    BY <1>1, SendFirstStep

\* Nothing chosen waits in a draft that is not dirty.
LEMMA CleanDraft ==
    ASSUME StoreTypes, StoreInv, LibTypes, LibInv, lib.draft # NoDoc, lib.conflicts = {}, ~Dirty
    PROVE  chosen = {}
  <1> DEFINE base == lib.base.steps
             draft == lib.draft.steps
  <1>1. /\ LibDocInv /\ ChosenInv /\ base \in Seq(Step) /\ draft \in Seq(Step)
    BY LibFields DEF LibInv
  <1>2. Known(lib.base) /\ DraftOf(lib.base, lib.draft, lib.saw)
    BY <1>1 DEF LibDocInv
  <1>3. Distinct(base) /\ DOMAIN draft = DOMAIN base /\ \A i \in DOMAIN base : draft[i].id = base[i].id
    BY <1>1, <1>2 DEF Known, DraftOf, StoreInv, VersionInv
  <1>4. ASSUME NEW c \in chosen
        PROVE  FALSE
    <2>1. PICK i \in DOMAIN base : base[i].id = c.id /\ base[i].bind # c.bind
      BY <1>1 DEF ChosenInv, ChosenOf
    <2>2. draft[i].id = c.id /\ draft[i].bind = c.bind /\ i \in DOMAIN draft
      BY <1>1, <1>3, <2>1 DEF ChosenInv, ChosenKept
    <2>3. <<draft[i].id, draft[i].bind>> \in Bindings(draft)
      BY <2>2 DEF Bindings
    <2>4. <<c.id, c.bind>> \in Bindings(base)
      BY <2>2, <2>3 DEF Dirty
    <2>5. PICK j \in DOMAIN base : base[j].id = c.id /\ base[j].bind = c.bind
      BY <2>4 DEF Bindings
    <2>6. j = i
      BY <1>3, <2>1, <2>5 DEF Distinct
    <2>7. QED
      BY <2>1, <2>5, <2>6
  <1>5. QED
    BY <1>4

\* A run that saves first keeps the Library's invariant.
LEMMA RunStep ==
    ASSUME StoreTypes, StoreInv, LibTypes, LibInv, LooksInv, Run,
           UNCHANGED <<backing, versions, late, faults>>
    PROVE  LibStep
  <1>1. /\ lib.draft # NoDoc /\ lib.conflicts = {} /\ lib.op = "none"
        /\ calls["run"] = NoCall /\ answers["run"].code = "none"
        /\ UNCHANGED <<looks, profiles, chosen, acts>> /\ answers' = answers
    BY DEF Run, Open, Answered
  <1>2. CASE Dirty
    <2>1. SendFirst(TRUE) /\ Idle("run")
      BY <1>1, <1>2, NoCallType DEF Run, Idle
    <2>2. QED
      BY <1>1, <2>1, SendFirstStep
  <1>3. CASE ~Dirty
    <2>1. Get("run") /\ lib' = lib /\ chosen = {}
      BY <1>1, <1>3, CleanDraft DEF Run
    <2>2. /\ StoreTypes' /\ StoreInv' /\ Grows /\ calls'["run"].kind = "get"
          /\ \A d \in Caller : d # "run" => Keeps(d)
      BY <1>1, <2>1, ReadSent, EditorAssumption
    <2>3. LibCallInv /\ LibDocInv /\ ChosenInv /\ Keeps("lib") /\ Keeps("editor") /\ Idle("lib")
      BY <1>1, <2>2, EditorAssumption DEF LibInv, LibCallInv
    <2>4. ~Saves(calls'["run"]) /\ Idle("lib")'
      BY <2>2, <2>3 DEF Saves, Keeps, Idle
    <2>5. LibCallInv'
      BY <1>1, <2>1, <2>3, <2>4 DEF LibCallInv
    <2>6. LibDocInv'
      BY <1>1, <2>1, <2>3 DEF LibDocInv, Known
    <2>7. ChosenInv'
      BY <1>1, <2>1, <2>3 DEF ChosenInv, ChosenOf, ChosenKept
    <2>8. LibTypes' /\ LooksInv'
      BY <1>1, <2>1, LooksKept DEF LibTypes
    <2>9. QED
      BY <2>2, <2>3, <2>5, <2>6, <2>7, <2>8 DEF LibStep, LibInv
  <1>4. QED
    BY <1>2, <1>3

\* The store's side of an answer after which a run goes on.
LEMMA GoesOnStep ==
    ASSUME StoreTypes, StoreInv, LibTypes, LibInv, Taken("lib"), answers["lib"].code # "none", GoesOn,
           UNCHANGED <<backing, versions, late, faults>>
    PROVE  /\ StoreTypes' /\ StoreInv' /\ Grows /\ Keeps("editor") /\ Idle("lib")' /\ ~Saves(calls'["run"])
  <1>1. /\ calls["lib"].kind = "none" /\ LibCallInv /\ ~Saves(calls["run"])
    BY EditorAssumption DEF StoreInv, CallInv, LibInv, LibCallInv
  <1>2. CASE ~lib.closure.run
    <2>1. UNCHANGED <<calls, keys>>
      BY <1>2 DEF GoesOn
    <2>2. /\ StoreTypes' /\ StoreInv' /\ Grows /\ answers'["lib"].code = "none"
          /\ \A d \in Caller : d # "lib" => Keeps(d)
      BY <2>1, AnswerTaken, EditorAssumption
    <2>3. QED
      BY <1>1, <2>1, <2>2, EditorAssumption DEF Idle
  <1>3. CASE lib.closure.run
    <2>1. Get("run") /\ Idle("run")
      BY <1>1, <1>3 DEF GoesOn, LibCallInv
    <2>2. answers \in [Caller -> AnswerRec] /\ calls \in [Caller -> CallRec] /\ faults' \in Nat
      BY DEF StoreTypes
    <2>3. /\ answers' = [answers EXCEPT !["lib"] = NoAnswer] /\ keys' = keys
          /\ calls' = [calls EXCEPT !["run"] = Call("get", <<>>, 0, 0, {})]
      BY <2>1 DEF Taken, Get
    <2>4. answers' \in [Caller -> AnswerRec] /\ calls' \in [Caller -> CallRec]
      BY <2>2, <2>3, GetType
    <2>5. /\ \A d \in Caller : answers'[d] = IF d = "lib" THEN NoAnswer ELSE answers[d]
          /\ \A d \in Caller : calls'[d] = IF d = "run" THEN Call("get", <<>>, 0, 0, {}) ELSE calls[d]
      BY <2>2, <2>3
    <2>6. \A d \in Caller :
            /\ calls'[d] = calls[d] \/ (calls'[d] = Call("get", <<>>, 0, 0, {}) /\ answers'[d].code = "none")
            /\ answers'[d] = answers[d] \/ answers'[d] = NoAnswer
      BY <2>1, <2>5, GetType DEF Idle
    <2>7. StoreTypes' /\ StoreInv' /\ Grows
      BY <2>2, <2>3, <2>4, <2>6, NothingSent
    <2>8. Keeps("editor") /\ Idle("lib")' /\ ~Saves(calls'["run"])
      BY <1>1, <2>5, GetType, EditorAssumption DEF Keeps, Idle, Saves
    <2>9. QED
      BY <2>7, <2>8
  <1>4. QED
    BY <1>2, <1>3

\* A version that carries what was chosen leaves nothing to store.
LEMMA NothingUnstored ==
    ASSUME NEW doc, Carried(doc.steps)
    PROVE  Unstored(doc) = {}
  <1>1. ASSUME NEW c \in Unstored(doc)
        PROVE  FALSE
    <2>1. c \in chosen /\ c.id \in Ids(doc.steps) /\ <<c.id, c.bind>> \notin Bindings(doc.steps)
      BY DEF Unstored
    <2>2. PICK i \in DOMAIN doc.steps : doc.steps[i].id = c.id
      BY <2>1 DEF Ids
    <2>3. doc.steps[i].bind = c.bind
      BY <2>1, <2>2 DEF Carried
    <2>4. <<doc.steps[i].id, doc.steps[i].bind>> \in Bindings(doc.steps)
      BY DEF Bindings
    <2>5. QED
      BY <2>1, <2>2, <2>3, <2>4
  <1>2. QED
    BY <1>1

\* A stored draft becomes the base; what it holds is no longer watched.
LEMMA SettleStep ==
    ASSUME StoreTypes, StoreInv, LibTypes, LibInv, LooksInv, lib.op \in {"first", "second"},
           answers["lib"].code = "ok", Taken("lib"), Settle(answers["lib"].doc), GoesOn,
           UNCHANGED <<backing, versions, late, faults>>, UNCHANGED <<looks, profiles, acts>>
    PROVE  LibStep
  <1> DEFINE doc == answers["lib"].doc
             seen == SawAll(doc.steps)
  <1>1. /\ doc \in Doc /\ doc.rev \in DOMAIN versions /\ doc.steps = versions[doc.rev].steps
        /\ doc.steps \in Seq(Step) /\ Distinct(doc.steps)
    BY DocOf, EditorAssumption
  <1>2. /\ StoreTypes' /\ StoreInv' /\ Grows /\ Keeps("editor") /\ Idle("lib")' /\ ~Saves(calls'["run"])
    BY GoesOnStep
  <1>3. Carried(doc.steps)
    BY DEF LibInv, LibCallInv
  <1>4. /\ lib' = [lib EXCEPT !.base = doc, !.draft = doc, !.status = "ready", !.op = "none",
                              !.conflicts = IF lib.op = "first" THEN {} ELSE @,
                              !.closure = NoFetch, !.saw = seen]
        /\ chosen' = Unstored(doc)
    BY DEF Settle
  <1>5. seen \in Saw /\ lib \in LibRec /\ lib.conflicts \subseteq Clash
    BY <1>1, SawAllType, LibFields
  <1> HIDE DEF doc, seen
  <1>6. chosen' = {}
    BY <1>3, <1>4, NothingUnstored
  <1>7. /\ lib' \in LibRec /\ lib'.base = doc /\ lib'.draft = doc /\ lib'.op = "none"
        /\ lib'.closure = NoFetch
        /\ UNCHANGED <<lib.sel, lib.profile, lib.profileStatus>>
    BY <1>1, <1>4, <1>5, NoFetchType DEF LibRec
  <1>8. ~lib'.closure.run /\ doc.rev \in DOMAIN versions' /\ doc.steps = versions'[doc.rev].steps
    BY <1>1, <1>7, NoFetchType
  <1>9. LibInv'
    BY <1>1, <1>2, <1>6, <1>7, <1>8, LoadedRests
  <1>10. LibTypes' /\ LooksInv'
    BY <1>6, <1>7, LooksKept DEF LibTypes
  <1>11. QED
    BY <1>2, <1>9, <1>10 DEF LibStep

\* A save that fails leaves the draft as it is.
LEMMA StopsSavingStep ==
    ASSUME StoreTypes, StoreInv, LibTypes, LibInv, LooksInv, lib.op \in {"first", "latest", "second"},
           answers["lib"].code # "none", Taken("lib"), NEW status \in {"error", "conflict"}, StopsSaving(status),
           UNCHANGED <<backing, versions, late, faults>>, UNCHANGED <<looks, profiles, acts>>
    PROVE  LibStep
  <1>1. /\ lib' = [lib EXCEPT !.status = status, !.op = "none", !.closure = NoFetch]
        /\ UNCHANGED <<calls, keys, chosen>>
    BY DEF StopsSaving
  <1>2. /\ StoreTypes' /\ StoreInv' /\ Grows /\ answers'["lib"].code = "none"
        /\ Keeps("editor") /\ Keeps("run")
    BY <1>1, AnswerTaken, EditorAssumption
  <1>3. /\ LibCallInv /\ LibDocInv /\ ChosenInv /\ calls'["lib"].kind = "none" /\ lib \in LibRec
    BY <1>1, EditorAssumption DEF LibInv, StoreInv, CallInv, LibTypes
  <1>4. /\ lib' \in LibRec /\ lib'.base = lib.base /\ lib'.draft = lib.draft /\ lib'.op = "none"
        /\ lib'.closure = NoFetch /\ lib'.saw = lib.saw /\ lib'.conflicts = lib.conflicts
        /\ UNCHANGED <<lib.sel, lib.profile, lib.profileStatus>>
    BY <1>1, <1>3, NoFetchType DEF LibRec
  <1>5. Idle("lib")' /\ ~Saves(calls'["run"]) /\ lib'.draft # NoDoc /\ ~lib'.closure.run
    BY <1>1, <1>2, <1>3, <1>4, NoFetchType DEF Idle, LibCallInv
  <1>6. ~Idle("run")' => chosen' = {}
    BY <1>1, <1>2, <1>3 DEF Idle, LibCallInv, Keeps
  <1>7. Known(lib.base)' /\ DraftOf(lib.base, lib.draft, lib.saw)'
    BY <1>3, <1>4, <1>5 DEF LibDocInv, Known
  <1>8. ChosenOf(lib.base.steps)' /\ ChosenKept'
    BY <1>1, <1>3, <1>4 DEF ChosenInv, ChosenOf, ChosenKept
  <1>9. LibInv'
    BY <1>4, <1>5, <1>6, <1>7, <1>8, LibRests
  <1>10. LibTypes' /\ LooksInv'
    BY <1>1, <1>4, LooksKept DEF LibTypes
  <1>11. QED
    BY <1>2, <1>9, <1>10 DEF LibStep

\* The answer of the first save: stored, refused, or lost.
LEMMA FirstAnsweredStep ==
    ASSUME StoreTypes, StoreInv, LibTypes, LibInv, LooksInv, FirstAnswered,
           UNCHANGED <<backing, versions, late, faults>>
    PROVE  LibStep
  <1>1. /\ lib.op = "first" /\ answers["lib"].code # "none" /\ Taken("lib")
        /\ UNCHANGED <<looks, profiles, acts>>
        /\ answers["lib"].code \in {"none", "ok", "conflict", "error"}
    BY EditorAssumption DEF FirstAnswered, Answered, StoreTypes, AnswerRec
  <1>2. CASE answers["lib"].code = "ok"
    <2>1. Settle(answers["lib"].doc) /\ GoesOn
      BY <1>2 DEF FirstAnswered
    <2>2. QED
      BY <1>1, <1>2, <2>1, SettleStep
  <1>3. CASE answers["lib"].code = "error"
    <2>1. StopsSaving("error")
      BY <1>3 DEF FirstAnswered
    <2>2. QED
      BY <1>1, <1>3, <2>1, StopsSavingStep
  <1>4. CASE answers["lib"].code = "conflict"
    <2>1. Get("lib") /\ lib' = [lib EXCEPT !.op = "latest"] /\ chosen' = chosen
      BY <1>4 DEF FirstAnswered
    <2>2. /\ StoreTypes' /\ StoreInv' /\ Grows /\ answers'["lib"].code = "none"
          /\ calls'["lib"].kind = "get" /\ Keeps("run") /\ Keeps("editor")
      BY <1>1, <2>1, ReadSent, EditorAssumption
    <2>3. LibCallInv /\ LibDocInv /\ ChosenInv /\ lib \in LibRec
      BY DEF LibInv, LibTypes
    <2>4. /\ lib' \in LibRec /\ lib'.op = "latest" /\ lib'.base = lib.base /\ lib'.draft = lib.draft
          /\ lib'.closure = lib.closure /\ lib'.saw = lib.saw /\ lib'.conflicts = lib.conflicts
          /\ lib'.sel = lib.sel /\ lib'.profile = lib.profile /\ lib'.profileStatus = lib.profileStatus
      BY <2>1, <2>3 DEF LibRec
    <2>5. /\ ~Saves(calls'["lib"]) /\ (~Saves(calls["run"]) => ~Saves(calls'["run"]))
          /\ (Idle("run") => Idle("run")')
      BY <2>2 DEF Saves, Keeps, Idle
    <2>6. ~Idle("run")' => chosen' = {}
      BY <2>1, <2>3, <2>5 DEF LibCallInv
    <2>7. LibCallInv'
      BY <1>1, <2>3, <2>4, <2>5, <2>6 DEF LibCallInv
    <2>8. \A doc : Known(doc) => Known(doc)'
      BY DEF Known
    <2>9. Carried(lib.closure.draft.steps)'
      BY <1>1, <2>1, <2>3, <2>4 DEF LibDocInv, Carried
    <2>10. LibDocInv'
      BY <1>1, <2>1, <2>3, <2>4, <2>8, <2>9 DEF LibDocInv, LibCallInv
    <2>11. ChosenInv'
      BY <1>1, <2>1, <2>3, <2>4 DEF ChosenInv, ChosenOf, ChosenKept
    <2>12. LibTypes' /\ LooksInv'
      BY <1>1, <2>1, <2>4, LooksKept DEF LibTypes
    <2>13. QED
      BY <2>2, <2>7, <2>10, <2>11, <2>12 DEF LibStep, LibInv
  <1>5. QED
    BY <1>1, <1>2, <1>3, <1>4

\* The answer of the save after a rebase: stored, refused, or lost.
LEMMA SecondAnsweredStep ==
    ASSUME StoreTypes, StoreInv, LibTypes, LibInv, LooksInv, SecondAnswered,
           UNCHANGED <<backing, versions, late, faults>>
    PROVE  LibStep
  <1>1. /\ lib.op = "second" /\ answers["lib"].code # "none" /\ Taken("lib")
        /\ UNCHANGED <<looks, profiles, acts>>
    BY DEF SecondAnswered, Answered
  <1>2. CASE answers["lib"].code = "ok"
    <2>1. Settle(answers["lib"].doc) /\ GoesOn
      BY <1>2 DEF SecondAnswered
    <2>2. QED
      BY <1>1, <1>2, <2>1, SettleStep
  <1>3. CASE answers["lib"].code # "ok"
    <2>1. StopsSaving("conflict")
      BY <1>3 DEF SecondAnswered
    <2>2. QED
      BY <1>1, <2>1, StopsSavingStep
  <1>4. QED
    BY <1>2, <1>3

-----------------------------------------------------------------------------
(* The Library: the changed rows on the latest version *)

\* The row of an id of a version with distinct ids.
LEMMA RowIn ==
    ASSUME NEW s \in Seq(Step), Distinct(s), NEW id \in Ids(s)
    PROVE  Row(s, id) \in Step /\ Row(s, id).id = id
  <1>1. PICK i \in DOMAIN s : s[i].id = id /\ Row(s, id) = s[i]
    BY RowOfId
  <1>2. s[i] \in Step
    OBVIOUS
  <1>3. QED
    BY <1>1, <1>2

SameRows(base, local) == Len(local) = Len(base) /\ \A k \in DOMAIN base : local[k].id = base[k].id

\* A row of the latest version is as it is there, or the changed one of the draft.
OnLatest(base, local, latest, new) ==
    /\ new \in Seq(Step) /\ Len(new) = Len(latest)
    /\ \A i \in DOMAIN latest : new[i].id = latest[i].id
    /\ \A i \in DOMAIN latest :
         new[i].bind # latest[i].bind =>
           \E k \in DOMAIN base :
             base[k].id = latest[i].id /\ base[k].bind = latest[i].bind /\ local[k].bind # base[k].bind
    /\ \A i \in DOMAIN latest, k \in DOMAIN base :
         base[k].id = latest[i].id /\ local[k].bind # base[k].bind =>
           new[i].bind = IF latest[i].bind = base[k].bind THEN local[k].bind ELSE latest[i].bind

\* The rebased draft has the rows of the latest version; a row that differs was changed here alone.
LEMMA RebasedFacts ==
    ASSUME NEW base \in Seq(Step), NEW local \in Seq(Step), NEW latest \in Seq(Step),
           Distinct(base), Distinct(local), Distinct(latest), SameRows(base, local)
    PROVE  OnLatest(base, local, latest, Rebased(base, local, latest))
  <1> DEFINE rebased == Rebased(base, local, latest)
             here == ChangedHere(base, local, latest)
             New(i) == IF latest[i].id \in here /\ latest[i].bind = Row(base, latest[i].id).bind
                       THEN [latest[i] EXCEPT !.bind = Row(local, latest[i].id).bind] ELSE latest[i]
  <1>0. DOMAIN local = DOMAIN base /\ Ids(local) = Ids(base)
    BY SameIds DEF SameRows
  <1>1. \A k \in DOMAIN base :
          /\ Row(base, base[k].id) = base[k] /\ Row(local, base[k].id) = local[k]
          /\ base[k].id \in Ids(base)
    BY <1>0, RowFacts DEF Ids, SameRows
  <1>2. \A i \in DOMAIN latest, k \in DOMAIN base :
          base[k].id = latest[i].id => (latest[i].id \in here <=> local[k].bind # base[k].bind)
    <2>1. SUFFICES ASSUME NEW i \in DOMAIN latest, NEW k \in DOMAIN base, base[k].id = latest[i].id
                   PROVE  latest[i].id \in here <=> local[k].bind # base[k].bind
      OBVIOUS
    <2>2. latest[i].id \in Ids(latest) /\ latest[i].id \in Ids(base) /\ latest[i].id \in Ids(local)
      BY <1>0, <1>1, <2>1 DEF Ids
    <2>3. Row(base, latest[i].id) = base[k] /\ Row(local, latest[i].id) = local[k]
      BY <1>1, <2>1
    <2>4. QED
      BY <2>2, <2>3 DEF ChangedHere
  <1>3. \A i \in DOMAIN latest : latest[i].id \in here => \E k \in DOMAIN base : base[k].id = latest[i].id
    BY DEF ChangedHere, Ids
  <1> HIDE DEF here
  <1>4. ASSUME NEW i \in DOMAIN latest
        PROVE  New(i) \in Step /\ New(i).id = latest[i].id
    <2>1. latest[i] \in Step
      OBVIOUS
    <2>2. CASE latest[i].id \in here
      <3>1. latest[i].id \in Ids(local)
        BY <2>2 DEF here, ChangedHere
      <3>2. Row(local, latest[i].id).bind \in Binding
        BY <3>1, RowIn DEF Step
      <3>3. QED
        BY <2>1, <3>2 DEF Step
    <2>3. CASE latest[i].id \notin here
      BY <2>1, <2>3
    <2>4. QED
      BY <2>2, <2>3
  <1>5. rebased = [i \in DOMAIN latest |-> New(i)]
    BY DEF Rebased, here
  <1>6. \A i \in DOMAIN latest : rebased[i] = New(i)
    BY <1>5
  <1>7. rebased \in Seq(Step) /\ Len(rebased) = Len(latest)
    <2>1. DOMAIN latest = 1 .. Len(latest) /\ Len(latest) \in Nat
      OBVIOUS
    <2> HIDE DEF New, rebased
    <2>2. rebased \in [1 .. Len(latest) -> Step]
      BY <1>4, <1>5, <2>1
    <2>3. QED
      BY <2>1, <2>2
  <1>8. ASSUME NEW i \in DOMAIN latest, rebased[i].bind # latest[i].bind
        PROVE  \E k \in DOMAIN base :
                 /\ base[k].id = latest[i].id /\ base[k].bind = latest[i].bind
                 /\ local[k].bind # base[k].bind
    <2>1. latest[i].id \in here /\ latest[i].bind = Row(base, latest[i].id).bind
      BY <1>6, <1>8
    <2>2. PICK k \in DOMAIN base : base[k].id = latest[i].id
      BY <1>3, <2>1
    <2>3. QED
      BY <1>1, <1>2, <2>1, <2>2
  <1>9. ASSUME NEW i \in DOMAIN latest, NEW k \in DOMAIN base,
               base[k].id = latest[i].id, local[k].bind # base[k].bind
        PROVE  rebased[i].bind = IF latest[i].bind = base[k].bind THEN local[k].bind ELSE latest[i].bind
    <2>1. latest[i].id \in here /\ Row(base, latest[i].id) = base[k] /\ Row(local, latest[i].id) = local[k]
      BY <1>1, <1>2, <1>9
    <2>2. rebased[i] = IF latest[i].bind = base[k].bind
                       THEN [latest[i] EXCEPT !.bind = local[k].bind] ELSE latest[i]
      BY <1>6, <2>1
    <2>3. latest[i] \in Step
      OBVIOUS
    <2>4. QED
      BY <2>2, <2>3 DEF Step
  <1>10. \A i \in DOMAIN latest : rebased[i].id = latest[i].id
    <2> HIDE DEF New, rebased
    <2>1. QED
      BY <1>4, <1>6
  <1> HIDE DEF New, rebased
  <1>11. QED
    BY <1>7, <1>8, <1>9, <1>10 DEF rebased, OnLatest

\* What was chosen and is not in the latest version is on it now, or clashes with it.
LEMMA ChosenRebased ==
    ASSUME NEW base \in Seq(Step), NEW local \in Seq(Step), NEW latest \in Doc,
           Distinct(base), Distinct(local), Distinct(latest.steps), SameRows(base, local),
           ChosenOf(base), Carried(local), NEW c \in Unstored(latest)
    PROVE  \/ \A i \in DOMAIN Rebased(base, local, latest.steps) :
                Rebased(base, local, latest.steps)[i].id = c.id =>
                  Rebased(base, local, latest.steps)[i].bind = c.bind
           \/ \E d \in Conflicts(base, local, latest.steps) : d.id = c.id /\ d.local = c.bind
  <1> DEFINE new == latest.steps
             rebased == Rebased(base, local, new)
  <1>0. new \in Seq(Step) /\ Distinct(new)
    BY DEF Doc
  <1>a. OnLatest(base, local, new, rebased)
    BY <1>0, RebasedFacts
  <1> HIDE DEF rebased
  <1>1. /\ rebased \in Seq(Step) /\ Len(rebased) = Len(new)
        /\ \A i \in DOMAIN new : rebased[i].id = new[i].id
        /\ \A i \in DOMAIN new, k \in DOMAIN base :
             base[k].id = new[i].id /\ local[k].bind # base[k].bind =>
               rebased[i].bind = IF new[i].bind = base[k].bind THEN local[k].bind ELSE new[i].bind
    BY <1>a DEF OnLatest
  <1>2. DOMAIN rebased = DOMAIN new /\ DOMAIN local = DOMAIN base
    BY <1>0, <1>1 DEF SameRows
  <1>3. c \in chosen /\ c.id \in Ids(new) /\ <<c.id, c.bind>> \notin Bindings(new)
    BY DEF Unstored
  <1>4. PICK k \in DOMAIN base : base[k].id = c.id /\ base[k].bind # c.bind
    BY <1>3 DEF ChosenOf
  <1>5. local[k].id = c.id /\ local[k].bind = c.bind
    BY <1>2, <1>3, <1>4 DEF Carried, SameRows
  <1>6. PICK i \in DOMAIN new : new[i].id = c.id
    BY <1>3 DEF Ids
  <1>7. \A j \in DOMAIN new : new[j].id = c.id => j = i
    BY <1>0, <1>6 DEF Distinct
  <1>8. new[i].bind # c.bind
    BY <1>3, <1>6 DEF Bindings
  <1>9. CASE new[i].bind = base[k].bind
    <2>1. rebased[i].bind = c.bind
      BY <1>1, <1>4, <1>5, <1>6, <1>9
    <2>2. QED
      BY <1>1, <1>2, <1>7, <2>1 DEF rebased
  <1>10. CASE new[i].bind # base[k].bind
    <2>1. Row(base, c.id) = base[k] /\ Row(local, c.id) = local[k] /\ Row(new, c.id) = new[i]
      BY <1>0, <1>2, <1>4, <1>5, <1>6, RowFacts
    <2>2. c.id \in Ids(base) /\ c.id \in Ids(local) /\ c.id \in Ids(new)
      BY <1>2, <1>4, <1>5, <1>6 DEF Ids
    <2>3. c.id \in ChangedHere(base, local, new)
      BY <1>4, <1>5, <2>1, <2>2 DEF ChangedHere
    <2>4. [id |-> c.id, local |-> local[k].bind, saved |-> new[i].bind] \in Conflicts(base, local, new)
      BY <1>5, <1>8, <1>10, <2>1, <2>3 DEF Conflicts
    <2>5. QED
      BY <1>5, <2>4
  <1>11. QED
    BY <1>9, <1>10

\* Conflicts are of rows, with a binding on either side.
LEMMA ConflictsType ==
    ASSUME NEW base \in Seq(Step), NEW local \in Seq(Step), NEW latest \in Seq(Step),
           Distinct(local), Distinct(latest)
    PROVE  Conflicts(base, local, latest) \subseteq Clash
  <1>1. ASSUME NEW id \in ChangedHere(base, local, latest)
        PROVE  [id |-> id, local |-> Row(local, id).bind, saved |-> Row(latest, id).bind] \in Clash
    <2>1. id \in Ids(local) /\ id \in Ids(latest)
      BY DEF ChangedHere
    <2>2. Row(local, id).bind \in Binding /\ Row(latest, id).bind \in Binding /\ id \in StepId
      BY <2>1, RowIn, IdsAreSteps DEF Step
    <2>3. QED
      BY <2>2 DEF Clash
  <1>2. QED
    BY <1>1 DEF Conflicts

\* The latest version after a refusal: rebased and sent again, or shown as conflicts.
LEMMA LatestAnsweredStep ==
    ASSUME StoreTypes, StoreInv, LibTypes, LibInv, LooksInv, LatestAnswered,
           UNCHANGED <<backing, versions, late, faults>>
    PROVE  LibStep
  <1> DEFINE latest == answers["lib"].doc
             base == lib.closure.base.steps
             local == lib.closure.draft.steps
             rebased == Rebased(base, local, latest.steps)
             clashes == Conflicts(base, local, latest.steps)
             saw == [id \in StepId |->
                       IF id \in Ids(rebased) /\ Row(rebased, id).bind # Row(latest.steps, id).bind
                       THEN lib.closure.saw[id] ELSE SawAll(latest.steps)[id]]
             doc == [latest EXCEPT !.steps = rebased]
             shown == [lib EXCEPT !.base = latest, !.draft = doc, !.saw = saw]
  <1>1. /\ lib.op = "latest" /\ answers["lib"].code # "none" /\ Taken("lib")
        /\ UNCHANGED <<looks, profiles, acts>>
    BY DEF LatestAnswered, Answered
  <1>2. CASE answers["lib"].code # "ok"
    <2>1. StopsSaving("conflict")
      BY <1>2 DEF LatestAnswered
    <2>2. QED
      BY <1>1, <2>1, StopsSavingStep
  <1>3. CASE answers["lib"].code = "ok"
    <2>1. \/ /\ clashes # {}
             /\ lib' = [shown EXCEPT !.conflicts = clashes, !.status = "conflict", !.op = "none",
                                     !.closure = NoFetch]
             /\ chosen' = Unstored(latest) /\ UNCHANGED <<calls, keys>>
          \/ /\ clashes = {} /\ Bindings(rebased) = Bindings(latest.steps)
             /\ lib' = [shown EXCEPT !.status = "ready", !.op = "none", !.closure = NoFetch]
             /\ chosen' = Unstored(latest) /\ GoesOn
          \/ /\ clashes = {}
             /\ Put("lib", "save", rebased, latest.rev, ShownOf(rebased, saw))
             /\ lib' = [shown EXCEPT !.op = "second"]
             /\ chosen' = Unstored(latest)
      BY <1>3 DEF LatestAnswered, ShownOf
    <2>2. /\ latest \in Doc /\ latest.rev \in DOMAIN versions /\ latest.steps = versions[latest.rev].steps
          /\ latest.steps \in Seq(Step) /\ Distinct(latest.steps)
      BY <1>3, DocOf, EditorAssumption
    <2>3. /\ LibCallInv /\ LibDocInv /\ ChosenInv /\ lib \in LibRec
          /\ base \in Seq(Step) /\ local \in Seq(Step) /\ lib.closure.saw \in Saw
      BY LibFields DEF LibInv
    <2>4. /\ Known(lib.closure.base) /\ Carried(local) /\ ChosenOf(base)
          /\ DraftOf(lib.closure.base, lib.closure.draft, lib.closure.saw)
      BY <1>1, <2>3 DEF LibDocInv, ChosenInv
    <2>5. /\ Distinct(base) /\ Len(local) = Len(base)
          /\ \A k \in DOMAIN base :
               /\ local[k].id = base[k].id
               /\ local[k].bind = base[k].bind \/ lib.closure.saw[base[k].id] = base[k].bind
      BY <2>4 DEF Known, DraftOf, StoreInv, VersionInv
    <2>6. Distinct(local)
      BY <2>3, <2>5, SameIds
    <2>a. SameRows(base, local)
      BY <2>5 DEF SameRows
    <2>b. OnLatest(base, local, latest.steps, rebased)
      BY <2>2, <2>3, <2>5, <2>6, <2>a, RebasedFacts
    <2>7. /\ rebased \in Seq(Step) /\ Len(rebased) = Len(latest.steps)
          /\ \A i \in DOMAIN latest.steps : rebased[i].id = latest.steps[i].id
          /\ \A i \in DOMAIN latest.steps :
                rebased[i].bind # latest.steps[i].bind =>
                  \E k \in DOMAIN base :
                    /\ base[k].id = latest.steps[i].id /\ base[k].bind = latest.steps[i].bind
                    /\ local[k].bind # base[k].bind
      <3> HIDE DEF rebased, base, local
      <3>1. QED
        BY <2>b DEF OnLatest
    <2>8. \A c \in Unstored(latest) :
            \/ \A i \in DOMAIN rebased : rebased[i].id = c.id => rebased[i].bind = c.bind
            \/ \E d \in clashes : d.id = c.id /\ d.local = c.bind
      BY <2>2, <2>3, <2>4, <2>5, <2>6, <2>a, ChosenRebased
    <2>9. clashes \subseteq Clash
      BY <2>2, <2>3, <2>6, ConflictsType
    <2>10. saw \in Saw
      BY <2>2, <2>3, SawAllType DEF Saw
    <2>11. \A id \in StepId :
             id \in Ids(rebased) /\ Row(rebased, id).bind # Row(latest.steps, id).bind =>
               saw[id] = lib.closure.saw[id]
      OBVIOUS
    <2> HIDE DEF rebased, clashes, saw, base, local
    <2>12. /\ doc \in Doc /\ doc.steps = rebased
      BY <2>2, <2>7 DEF Doc
    <2>13. DraftOf(latest, doc, saw)
      <3>1. ASSUME NEW i \in DOMAIN latest.steps, rebased[i].bind # latest.steps[i].bind
            PROVE  saw[latest.steps[i].id] = latest.steps[i].bind
        <4>1. Distinct(rebased) /\ DOMAIN rebased = DOMAIN latest.steps
          BY <2>2, <2>7, SameIds
        <4>0. Row(rebased, rebased[i].id) = rebased[i] /\ rebased[i].id = latest.steps[i].id
          BY <2>7, <4>1, RowFacts
        <4>2. Row(rebased, latest.steps[i].id) = rebased[i] /\ latest.steps[i].id \in Ids(rebased)
          BY <4>0, <4>1 DEF Ids
        <4>3. Row(latest.steps, latest.steps[i].id) = latest.steps[i]
          BY <2>2, RowFacts
        <4>4. latest.steps[i].id \in StepId
          BY <2>7, <4>2, IdsAreSteps
        <4>5. saw[latest.steps[i].id] = lib.closure.saw[latest.steps[i].id]
          BY <2>11, <3>1, <4>2, <4>3, <4>4
        <4>6. QED
          BY <2>5, <2>7, <3>1, <4>5
      <3>2. QED
        BY <2>7, <2>12, <3>1 DEF DraftOf
    <2>14. doc # NoDoc
      <3>1. latest.rev # 0 /\ doc.rev = latest.rev
        BY <2>2 DEF StoreTypes, Doc
      <3>2. QED
        BY <3>1 DEF NoDoc
    <2>15. ASSUME chosen' = Unstored(latest)
           PROVE  /\ chosen' \subseteq chosen
                  /\ \A c \in chosen' : \E i \in DOMAIN latest.steps :
                       latest.steps[i].id = c.id /\ latest.steps[i].bind # c.bind
      <3>1. ASSUME NEW c \in Unstored(latest)
            PROVE  \E i \in DOMAIN latest.steps : latest.steps[i].id = c.id /\ latest.steps[i].bind # c.bind
        <4>1. c.id \in Ids(latest.steps) /\ <<c.id, c.bind>> \notin Bindings(latest.steps)
          BY DEF Unstored
        <4>2. PICK i \in DOMAIN latest.steps : latest.steps[i].id = c.id
          BY <4>1 DEF Ids
        <4>3. <<latest.steps[i].id, latest.steps[i].bind>> \in Bindings(latest.steps)
          BY DEF Bindings
        <4>4. QED
          BY <4>1, <4>2, <4>3
      <3>2. Unstored(latest) \subseteq chosen
        BY DEF Unstored
      <3>3. QED
        BY <2>15, <3>1, <3>2
    <2>16. latest.rev \in DOMAIN versions' /\ latest.steps = versions'[latest.rev].steps
      BY <2>2
    <2> HIDE DEF latest, doc
    <2>17. CASE /\ clashes # {}
                /\ lib' = [shown EXCEPT !.conflicts = clashes, !.status = "conflict", !.op = "none",
                                        !.closure = NoFetch]
                /\ chosen' = Unstored(latest) /\ UNCHANGED <<calls, keys>>
      <3>1. /\ lib' \in LibRec /\ lib'.base = latest /\ lib'.draft = doc /\ lib'.saw = saw /\ lib'.op = "none"
            /\ lib'.closure = NoFetch /\ lib'.conflicts = clashes
            /\ UNCHANGED <<lib.sel, lib.profile, lib.profileStatus>>
        BY <2>2, <2>3, <2>9, <2>10, <2>12, <2>17, NoFetchType DEF LibRec
      <3>2. /\ StoreTypes' /\ StoreInv' /\ Grows /\ answers'["lib"].code = "none"
            /\ Keeps("editor") /\ Keeps("run")
        BY <1>1, <2>17, AnswerTaken, EditorAssumption
      <3>3. calls["lib"].kind = "none"
        BY <1>1, EditorAssumption DEF StoreInv, CallInv
      <3>4. Idle("lib")' /\ ~Saves(calls'["run"]) /\ ~lib'.closure.run
        BY <2>3, <2>17, <3>1, <3>2, <3>3, NoFetchType DEF Idle, LibCallInv
      <3>5. ~Idle("run")' => chosen' = {}
        BY <2>3, <2>15, <2>17, <3>2 DEF Idle, LibCallInv, Keeps
      <3>6. Known(lib.base)' /\ DraftOf(lib.base, lib.draft, lib.saw)'
        BY <2>13, <2>16, <3>1 DEF Known
      <3>7. ChosenOf(lib.base.steps)' /\ ChosenKept'
        BY <2>8, <2>12, <2>15, <2>17, <3>1 DEF ChosenOf, ChosenKept
      <3>8. LibInv'
        BY <2>14, <3>1, <3>4, <3>5, <3>6, <3>7, LibRests
      <3>9. LibTypes' /\ LooksInv'
        BY <1>1, <2>15, <2>17, <3>1, LooksKept DEF LibTypes
      <3>10. QED
        BY <3>2, <3>8, <3>9 DEF LibStep
    <2>18. CASE /\ clashes = {} /\ Bindings(rebased) = Bindings(latest.steps)
                /\ lib' = [shown EXCEPT !.status = "ready", !.op = "none", !.closure = NoFetch]
                /\ chosen' = Unstored(latest) /\ GoesOn
      <3>1. /\ lib' \in LibRec /\ lib'.base = latest /\ lib'.draft = doc /\ lib'.saw = saw /\ lib'.op = "none"
            /\ lib'.closure = NoFetch
            /\ UNCHANGED <<lib.sel, lib.profile, lib.profileStatus>>
        BY <2>2, <2>3, <2>9, <2>10, <2>12, <2>18, NoFetchType DEF LibRec
      <3>2. /\ StoreTypes' /\ StoreInv' /\ Grows /\ Keeps("editor") /\ Idle("lib")' /\ ~Saves(calls'["run"])
        BY <1>1, <2>18, GoesOnStep
      <3>3. chosen' = {}
        <4>1. ASSUME NEW c \in Unstored(latest)
              PROVE  FALSE
          <5>1. c.id \in Ids(latest.steps) /\ <<c.id, c.bind>> \notin Bindings(latest.steps)
            BY DEF Unstored
          <5>2. PICK i \in DOMAIN latest.steps : latest.steps[i].id = c.id
            BY <5>1 DEF Ids
          <5>3. i \in DOMAIN rebased /\ rebased[i].id = c.id /\ rebased[i].bind = c.bind
            BY <2>2, <2>7, <2>8, <2>18, <5>2
          <5>4. <<rebased[i].id, rebased[i].bind>> \in Bindings(rebased)
            BY <5>3 DEF Bindings
          <5>5. QED
            BY <2>18, <5>1, <5>3, <5>4
        <4>2. QED
          BY <2>18, <4>1
      <3>4. Known(lib.base)' /\ DraftOf(lib.base, lib.draft, lib.saw)' /\ ~lib'.closure.run
        BY <2>13, <2>16, <3>1, NoFetchType DEF Known
      <3>5. ChosenOf(lib.base.steps)' /\ ChosenKept'
        BY <3>3 DEF ChosenOf, ChosenKept
      <3>6. LibInv'
        BY <2>14, <3>1, <3>2, <3>3, <3>4, <3>5, LibRests
      <3>7. LibTypes' /\ LooksInv'
        BY <1>1, <3>1, <3>3, LooksKept DEF LibTypes
      <3>8. QED
        BY <3>2, <3>6, <3>7 DEF LibStep
    <2>19. CASE /\ clashes = {}
                /\ Put("lib", "save", rebased, latest.rev, ShownOf(rebased, saw))
                /\ lib' = [shown EXCEPT !.op = "second"]
                /\ chosen' = Unstored(latest)
      <3>1. /\ lib' \in LibRec /\ lib'.base = latest /\ lib'.draft = doc /\ lib'.saw = saw /\ lib'.op = "second"
            /\ lib'.closure = lib.closure /\ lib'.conflicts = lib.conflicts
            /\ UNCHANGED <<lib.sel, lib.profile, lib.profileStatus>>
        BY <2>2, <2>3, <2>10, <2>12, <2>19 DEF LibRec
      <3>2. Known(latest)
        BY <2>2 DEF Known, latest
      <3>3. /\ Distinct(rebased) /\ Seen(versions[latest.rev].steps, rebased, ShownOf(rebased, saw))
            /\ ShownOf(rebased, saw) \in SUBSET BindRow
        BY <2>2, <2>10, <2>12, <2>13, <3>2, DraftSeen
      <3>4. /\ answers' \in [Caller -> AnswerRec] /\ answers'["lib"].code = "none"
            /\ \A d \in Caller : answers'[d] = IF d = "lib" THEN NoAnswer ELSE answers[d]
        BY <1>1, GetType, EditorAssumption DEF StoreTypes, Taken
      <3>5. /\ StoreTypes' /\ StoreInv' /\ Grows
            /\ Saves(calls'["lib"]) /\ calls'["lib"].steps = rebased
            /\ \A d \in Caller : d # "lib" => calls'[d] = calls[d]
        BY <2>2, <2>7, <2>19, <3>3, <3>4, SaveSent, EditorAssumption
      <3>6. /\ calls'["run"] = calls["run"] /\ answers'["run"] = answers["run"] /\ Keeps("editor")
        BY <3>4, <3>5, EditorAssumption DEF Keeps
      <3>7. \A c \in chosen' : \A i \in DOMAIN rebased : rebased[i].id = c.id => rebased[i].bind = c.bind
        BY <2>8, <2>19
      <3>8. LibCallInv'
        BY <1>1, <2>3, <2>14, <2>15, <2>19, <3>1, <3>4, <3>5, <3>6, <3>7 DEF LibCallInv, Idle, Saves, Carried
      <3>9. LibDocInv'
        BY <1>1, <2>3, <2>13, <2>14, <2>16, <3>1 DEF LibDocInv, Known
      <3>10. ChosenInv'
        BY <2>12, <2>15, <2>19, <3>1, <3>7 DEF ChosenInv, ChosenOf, ChosenKept
      <3>11. LibTypes' /\ LooksInv'
        BY <1>1, <2>15, <2>19, <3>1, LooksKept DEF LibTypes
      <3>12. QED
        BY <3>5, <3>6, <3>8, <3>9, <3>10, <3>11 DEF LibStep, LibInv
    <2>20. QED
      BY <2>1, <2>17, <2>18, <2>19
  <1>4. QED
    BY <1>2, <1>3

\* The load that a run makes last keeps the Library's invariant.
LEMMA RunAnsweredStep ==
    ASSUME StoreTypes, StoreInv, LibTypes, LibInv, LooksInv, RunAnswered,
           UNCHANGED <<backing, versions, late, faults>>
    PROVE  LibStep
  <1> DEFINE doc == answers["run"].doc
             seen == SawAll(doc.steps)
             may == CanEnterPreflight(doc.steps, lib.profile)
  <1>1. /\ answers["run"].code # "none" /\ Taken("run")
        /\ UNCHANGED <<backing, versions, calls, late, keys, faults>>
        /\ UNCHANGED <<looks, profiles, acts>>
        /\ lib' = IF answers["run"].code # "ok" THEN [lib EXCEPT !.status = "error"]
                  ELSE [lib EXCEPT !.base = doc, !.draft = doc, !.saw = seen, !.left = may,
                                   !.status = IF may THEN @ ELSE "error"]
        /\ chosen' = IF answers["run"].code = "ok" THEN Unstored(doc) ELSE chosen
    BY DEF RunAnswered, Answered
  <1>2. /\ StoreTypes' /\ StoreInv' /\ Grows /\ answers'["run"].code = "none"
        /\ Keeps("editor") /\ answers'["lib"] = answers["lib"]
    BY <1>1, AnswerTaken, EditorAssumption DEF Taken, StoreTypes
  <1>3. /\ LibCallInv /\ LibDocInv /\ ChosenInv /\ lib \in LibRec /\ calls["run"].kind = "none"
    BY <1>1, EditorAssumption DEF LibInv, LibTypes, StoreInv, CallInv
  <1>4. lib.op # "load" /\ chosen = {} /\ Idle("run")'
    BY <1>1, <1>2, <1>3 DEF LibCallInv, Idle
  <1>5. chosen' = {}
    BY <1>1, <1>4 DEF Unstored
  <1>6. \A s : Carried(s)'
    BY <1>5 DEF Carried
  <1>7. \A doc_1 : Known(doc_1) => Known(doc_1)'
    BY <1>1 DEF Known
  <1>8. CASE answers["run"].code = "ok"
    <2>1. /\ doc \in Doc /\ doc.rev \in DOMAIN versions /\ doc.steps = versions[doc.rev].steps
          /\ doc.steps \in Seq(Step) /\ Distinct(doc.steps)
      BY <1>8, DocOf, EditorAssumption
    <2>2. seen \in Saw /\ may \in BOOLEAN
      BY <2>1, SawAllType DEF CanEnterPreflight
    <2>3. doc # NoDoc
      BY <2>1 DEF NoDoc, StoreTypes
    <2> HIDE DEF doc, seen, may
    <2>4. /\ lib' \in LibRec /\ lib'.base = doc /\ lib'.draft = doc /\ lib'.op = lib.op
          /\ lib'.closure = lib.closure
          /\ UNCHANGED <<lib.sel, lib.profile, lib.profileStatus>>
      BY <1>1, <1>3, <1>8, <2>1, <2>2 DEF LibRec
    <2>5. LibCallInv'
      BY <1>1, <1>2, <1>3, <1>4, <1>5, <1>6, <2>3, <2>4 DEF LibCallInv, Idle
    <2>6. Known(lib.base)' /\ DraftOf(lib.base, lib.draft, lib.saw)'
      BY <1>1, <2>1, <2>4, DocDraft DEF Known
    <2>7. LibDocInv'
      BY <1>3, <1>4, <1>6, <1>7, <2>3, <2>4, <2>6 DEF LibDocInv
    <2>8. ChosenInv'
      BY <1>5 DEF ChosenInv, ChosenOf, ChosenKept
    <2>9. LibTypes' /\ LooksInv'
      BY <1>1, <1>5, <2>4, LooksKept DEF LibTypes
    <2>10. QED
      BY <1>2, <2>5, <2>7, <2>8, <2>9 DEF LibStep, LibInv
  <1>9. CASE answers["run"].code # "ok"
    <2>1. /\ lib' \in LibRec /\ lib'.base = lib.base /\ lib'.draft = lib.draft /\ lib'.op = lib.op
          /\ lib'.closure = lib.closure /\ lib'.saw = lib.saw
          /\ UNCHANGED <<lib.sel, lib.profile, lib.profileStatus>>
      BY <1>1, <1>3, <1>9 DEF LibRec
    <2>2. LibCallInv'
      BY <1>1, <1>2, <1>3, <1>4, <1>5, <1>6, <2>1 DEF LibCallInv, Idle
    <2>3. LibDocInv'
      BY <1>3, <1>4, <1>5, <1>6, <1>7, <2>1 DEF LibDocInv
    <2>4. ChosenInv'
      BY <1>5 DEF ChosenInv, ChosenOf, ChosenKept
    <2>5. LibTypes' /\ LooksInv'
      BY <1>1, <1>5, <2>1, LooksKept DEF LibTypes
    <2>6. QED
      BY <1>2, <2>2, <2>3, <2>4, <2>5 DEF LibStep, LibInv
  <1>10. QED
    BY <1>8, <1>9

-----------------------------------------------------------------------------
(* The Library: its profile *)

\* A step that changes the profile's part only.
LEMMA ProfileStep ==
    ASSUME StoreTypes, StoreInv, LibTypes, LibInv, UNCHANGED <<chosen, calls, answers, keys>>,
           UNCHANGED <<backing, versions, late, faults>>, acts' \in Nat, profiles' \in [Profile -> Nat],
           looks' \subseteq [id : Profile, active : BOOLEAN], lib' \in LibRec, LooksInv',
           UNCHANGED <<lib.base, lib.draft, lib.op, lib.closure, lib.conflicts, lib.saw>>
    PROVE  LibStep
  <1>1. /\ StoreTypes' /\ StoreInv' /\ Grows /\ Keeps("editor") /\ Keeps("lib") /\ Keeps("run")
    BY StoreUnchanged, EditorAssumption DEF storeVars
  <1>2. LibInv'
    BY <1>1, LibraryKept
  <1>3. LibTypes'
    BY DEF LibTypes
  <1>4. QED
    BY <1>1, <1>2, <1>3 DEF LibStep

FetchRec == [id : Profile, active : BOOLEAN]

\* A fetch that no longer counts is a fetch.
LEMMA InactiveFacts ==
    ASSUME LibTypes
    PROVE  Inactive \subseteq FetchRec /\ \A l \in Inactive : ~l.active
  <1>1. \A l \in looks : [l EXCEPT !.active = FALSE] \in FetchRec /\ ~[l EXCEPT !.active = FALSE].active
    BY DEF LibTypes, FetchRec
  <1>2. QED
    BY <1>1 DEF Inactive

\* The fetch that starts is the only one that counts.
LEMMA LookFacts ==
    ASSUME LibTypes, NEW p \in Profile, Look(p), lib'.sel = p, lib'.profile = NoProfile,
           lib'.profileStatus = "loading"
    PROVE  looks' \subseteq FetchRec /\ LooksInv'
  <1> DEFINE new == [id |-> p, active |-> TRUE]
  <1>1. new \in FetchRec /\ new.id = p /\ new.active
    BY DEF FetchRec
  <1>2. looks' = Inactive \cup {new}
    BY DEF Look
  <1> HIDE DEF new
  <1>3. looks' \subseteq FetchRec
    BY <1>1, <1>2, InactiveFacts
  <1>4. \A l \in looks' : l.active => l = new
    BY <1>2, InactiveFacts
  <1>5. new \in looks'
    BY <1>2
  <1>6. \E l \in looks' : l.active /\ l.id = lib'.sel
    BY <1>1, <1>5
  <1>7. LooksInv'
    BY <1>1, <1>4, <1>6 DEF LooksInv
  <1>8. QED
    BY <1>3, <1>7

\* A profile selected makes earlier fetches stale.
LEMMA SelectProfileStep ==
    ASSUME StoreTypes, StoreInv, LibTypes, LibInv, LooksInv, NEW p \in Profile \cup {"none"},
           SelectProfile(p), UNCHANGED <<backing, versions, late, faults>>
    PROVE  LibStep
  <1>1. /\ acts' = acts + 1 /\ UNCHANGED <<profiles, chosen, calls, answers, keys>>
        /\ lib' = [lib EXCEPT !.sel = p, !.profile = NoProfile,
                              !.profileStatus = IF p = "none" THEN "idle" ELSE "loading"]
        /\ IF p = "none" THEN looks' = Inactive ELSE Look(p)
    BY DEF SelectProfile, Act
  <1>2. lib \in LibRec /\ acts' \in Nat /\ profiles' \in [Profile -> Nat]
    BY <1>1 DEF LibTypes
  <1>3. /\ lib' \in LibRec /\ lib'.sel = p /\ lib'.profile = NoProfile
        /\ lib'.profileStatus = (IF p = "none" THEN "idle" ELSE "loading")
        /\ UNCHANGED <<lib.base, lib.draft, lib.op, lib.closure, lib.conflicts, lib.saw>>
    BY <1>1, <1>2 DEF LibRec, NoProfile
  <1>4. looks' \subseteq FetchRec /\ LooksInv'
    <2>1. CASE p = "none"
      BY <1>1, <1>3, <2>1, InactiveFacts DEF LooksInv
    <2>2. CASE p # "none"
      BY <1>1, <1>3, <2>2, LookFacts
    <2>3. QED
      BY <2>1, <2>2
  <1>5. QED
    BY <1>1, <1>2, <1>3, <1>4, ProfileStep DEF FetchRec

\* A profile fetched again.
LEMMA RetryProfileStep ==
    ASSUME StoreTypes, StoreInv, LibTypes, LibInv, LooksInv, RetryProfile,
           UNCHANGED <<backing, versions, late, faults>>
    PROVE  LibStep
  <1>1. /\ acts' = acts + 1 /\ UNCHANGED <<profiles, chosen, calls, answers, keys>> /\ lib.sel # "none"
        /\ lib' = [lib EXCEPT !.profile = NoProfile, !.profileStatus = "loading"]
        /\ Look(lib.sel)
    BY DEF RetryProfile, Act
  <1>2. lib \in LibRec /\ acts' \in Nat /\ profiles' \in [Profile -> Nat] /\ lib.sel \in Profile
    BY <1>1 DEF LibTypes, LibRec
  <1>3. /\ lib' \in LibRec /\ lib'.sel = lib.sel /\ lib'.profile = NoProfile
        /\ lib'.profileStatus = "loading"
        /\ UNCHANGED <<lib.base, lib.draft, lib.op, lib.closure, lib.conflicts, lib.saw>>
    BY <1>1, <1>2 DEF LibRec, NoProfile
  <1>4. looks' \subseteq FetchRec /\ LooksInv'
    BY <1>1, <1>2, <1>3, LookFacts
  <1>5. QED
    BY <1>1, <1>2, <1>3, <1>4, ProfileStep DEF FetchRec

\* The answer of a fetch counts only when it is of the selected profile.
LEMMA ProfileAnsweredStep ==
    ASSUME StoreTypes, StoreInv, LibTypes, LibInv, LooksInv, NEW l \in looks, NEW found \in BOOLEAN,
           ProfileAnswered(l, found), UNCHANGED <<backing, versions, late, faults>>
    PROVE  LibStep
  <1>1. /\ looks' = looks \ {l} /\ UNCHANGED <<profiles, chosen, acts, calls, answers, keys>>
        /\ ~l.active => lib' = lib
        /\ l.active =>
             \/ lib' = [lib EXCEPT !.profile = [id |-> l.id, rev |-> profiles[l.id]], !.profileStatus = "ready"]
             \/ lib' = [lib EXCEPT !.sel = "none", !.profileStatus = "error"]
             \/ lib' = [lib EXCEPT !.profileStatus = "error"]
    BY DEF ProfileAnswered, Counts
  <1>2. /\ lib \in LibRec /\ acts \in Nat /\ profiles \in [Profile -> Nat]
        /\ looks \subseteq [id : Profile, active : BOOLEAN]
        /\ l \in [id : Profile, active : BOOLEAN]
    BY DEF LibTypes
  <1>3. CASE ~l.active
    <2>1. lib' = lib
      BY <1>1, <1>3
    <2>2. LooksInv'
      BY <1>1, <1>3, <2>1 DEF LooksInv
    <2>3. QED
      BY <1>1, <1>2, <2>1, <2>2, ProfileStep
  <1>4. CASE l.active
    <2>1. l.id = lib.sel /\ lib.profile = NoProfile
      BY <1>4 DEF LooksInv
    <2>2. \A k \in looks' : ~k.active
      <3>1. ASSUME NEW k \in looks, k.active
            PROVE  k = l
        <4>1. k.id = l.id /\ k.active = l.active
          BY <1>2, <1>4, <2>1, <3>1 DEF LooksInv
        <4>2. k \in [id : Profile, active : BOOLEAN]
          BY <1>2
        <4>3. QED
          BY <1>2, <4>1, <4>2
      <3>2. QED
        BY <1>1, <3>1
    <2>3. [id |-> l.id, rev |-> profiles[l.id]] \in [id : Profile \cup {"none"}, rev : Nat]
      BY <1>2
    <2>4. \/ lib' = [lib EXCEPT !.profile = [id |-> l.id, rev |-> profiles[l.id]], !.profileStatus = "ready"]
          \/ lib' = [lib EXCEPT !.sel = "none", !.profileStatus = "error"]
          \/ lib' = [lib EXCEPT !.profileStatus = "error"]
      BY <1>1, <1>4
    <2>5. /\ lib' \in LibRec /\ lib'.profileStatus # "loading"
          /\ lib'.profile # NoProfile => lib'.profile.id = lib'.sel
          /\ UNCHANGED <<lib.base, lib.draft, lib.op, lib.closure, lib.conflicts, lib.saw>>
      <3>1. CASE lib' = [lib EXCEPT !.profile = [id |-> l.id, rev |-> profiles[l.id]], !.profileStatus = "ready"]
        BY <1>2, <2>1, <2>3, <3>1 DEF LibRec
      <3>2. CASE lib' = [lib EXCEPT !.sel = "none", !.profileStatus = "error"]
        BY <1>2, <2>1, <3>2 DEF LibRec
      <3>3. CASE lib' = [lib EXCEPT !.profileStatus = "error"]
        BY <1>2, <2>1, <3>3 DEF LibRec
      <3>4. QED
        BY <2>4, <3>1, <3>2, <3>3
    <2>6. LooksInv'
      BY <2>2, <2>5 DEF LooksInv
    <2>7. looks' \subseteq [id : Profile, active : BOOLEAN] /\ acts' \in Nat
          /\ profiles' \in [Profile -> Nat]
      BY <1>1, <1>2
    <2>8. QED
      BY <1>1, <2>5, <2>6, <2>7, ProfileStep
  <1>5. QED
    BY <1>3, <1>4

\* A profile changed or deleted elsewhere.
LEMMA ProfileChangesStep ==
    ASSUME StoreTypes, StoreInv, LibTypes, LibInv, LooksInv, NEW p \in Profile, NEW r, NEW deletes \in BOOLEAN,
           ProfileChanges(p, r, deletes), UNCHANGED <<backing, versions, late, faults>>
    PROVE  LibStep
  <1>1. /\ acts' = acts + 1 /\ UNCHANGED <<lib, looks, chosen, calls, answers, keys>>
        /\ profiles' = [profiles EXCEPT ![p] = IF deletes THEN 0 ELSE @ + 1]
    BY DEF ProfileChanges, Act
  <1>2. /\ lib \in LibRec /\ acts' \in Nat /\ profiles' \in [Profile -> Nat]
        /\ looks \subseteq [id : Profile, active : BOOLEAN]
    BY <1>1 DEF LibTypes
  <1>3. LooksInv'
    BY <1>1 DEF LooksInv
  <1>4. QED
    BY <1>1, <1>2, <1>3, ProfileStep

\* Every step of the Library keeps its invariant, and to the store only sends and takes.
LEMMA LibSteps ==
    ASSUME StoreTypes, StoreInv, LibTypes, LibInv, LooksInv, LibNext,
           UNCHANGED <<backing, versions, late, faults>>
    PROVE  LibStep
  <1>1. CASE LibLoaded \/ AutoMap \/ SaveDraft \/ Run
    BY <1>1, LibLoadedStep, AutoMapStep, SaveDraftStep, RunStep
  <1>2. CASE FirstAnswered \/ LatestAnswered \/ SecondAnswered \/ RunAnswered \/ RetryProfile
    BY <1>2, FirstAnsweredStep, LatestAnsweredStep, SecondAnsweredStep, RunAnsweredStep, RetryProfileStep
  <1>3. CASE \E id \in StepId, b \in Binding : UpdateBinding(id, b)
    BY <1>3, UpdateBindingStep
  <1>4. CASE \E c \in lib.conflicts, choice \in {"saved", "local"} : ResolveConflict(c, choice)
    BY <1>4, KeptLocalStep, UsedSavedStep
  <1>5. CASE \E p \in Profile \cup {"none"} : SelectProfile(p)
    BY <1>5, SelectProfileStep
  <1>6. CASE \E l \in looks, found \in BOOLEAN : ProfileAnswered(l, found)
    BY <1>6, ProfileAnsweredStep
  <1>7. CASE \E p \in Profile, r \in 1 .. MaxActs, deletes \in BOOLEAN : ProfileChanges(p, r, deletes)
    BY <1>7, ProfileChangesStep
  <1>8. QED
    BY <1>1, <1>2, <1>3, <1>4, <1>5, <1>6, <1>7 DEF LibNext

-----------------------------------------------------------------------------
(* The dialog of a replay *)

\* A fetch made stale is not the last one.
LEMMA StaleFacts ==
    /\ [last |-> TRUE] \in [last : BOOLEAN] /\ [last |-> TRUE].last
    /\ Stale \subseteq [last : BOOLEAN] /\ [last |-> TRUE] \notin Stale
    /\ \A r \in [last : BOOLEAN] : r.last => r = [last |-> TRUE]
  <1>1. [last |-> FALSE] \in [last : BOOLEAN] /\ [last |-> FALSE] # [last |-> TRUE]
    OBVIOUS
  <1>2. Stale \subseteq {[last |-> FALSE]}
    BY DEF Stale
  <1>3. ASSUME NEW r \in [last : BOOLEAN], r.last
        PROVE  r = [last |-> TRUE]
    BY <1>3
  <1>4. QED
    BY <1>1, <1>2, <1>3

DialogStep ==
    /\ EdTypes' /\ DialogInv' /\ UNCHANGED <<storeVars, libVars, ed, mine>> /\ acts' \in Nat

\* Every step of the dialog keeps its invariant: a fetch answers only the dialog that asked last.
LEMMA DialogSteps ==
    ASSUME LibTypes, EdTypes, DialogInv,
           \/ RequestReplay \/ RetryRunProfile \/ CloseRun \/ (\E valued \in BOOLEAN : StartReplay(valued))
           \/ \E r \in asks, found \in BOOLEAN : RunProfileAnswered(r, found)
    PROVE  DialogStep
  <1> DEFINE D == [open : BOOLEAN, profile : Nat, status : {"idle", "loading", "ready", "error"}]
             T == [last |-> TRUE]
  <1>1. dialog \in D /\ asks \subseteq [last : BOOLEAN] /\ acts \in Nat /\ profiles \in [Profile -> Nat]
    BY DEF EdTypes, LibTypes
  <1>2. T \in [last : BOOLEAN] /\ T.last /\ Stale \subseteq [last : BOOLEAN] /\ T \notin Stale
        /\ \A r \in [last : BOOLEAN] : r.last => r = T
    BY StaleFacts
  <1>3. /\ UNCHANGED <<storeVars, libVars, ed, mine>>
        /\ acts' = acts \/ acts' = acts + 1
    BY DEF RequestReplay, RetryRunProfile, CloseRun, StartReplay, RunProfileAnswered, DialogOnly, Act
  <1>4. DialogInv <=> /\ dialog.profile # 0 => dialog.open /\ dialog.status = "ready"
                      /\ dialog.open /\ dialog.status = "loading" <=> T \in asks
    BY DEF DialogInv
  <1> HIDE DEF T
  <1>5. ASSUME dialog' \in D, asks' \subseteq [last : BOOLEAN],
               dialog'.profile # 0 => dialog'.open /\ dialog'.status = "ready",
               dialog'.open /\ dialog'.status = "loading" <=> T \in asks'
        PROVE  DialogStep
    BY <1>1, <1>3, <1>5 DEF DialogStep, EdTypes, DialogInv, T
  <1>6. ASSUME dialog' = [dialog EXCEPT !.open = TRUE, !.profile = 0, !.status = "loading"],
               asks' = Stale \cup {T}
        PROVE  DialogStep
    <2>1. dialog' \in D /\ dialog'.profile = 0 /\ dialog'.open /\ dialog'.status = "loading"
      BY <1>1, <1>6
    <2>2. QED
      BY <1>2, <1>5, <1>6, <2>1
  <1>7. ASSUME NEW open \in BOOLEAN,
               dialog' = [dialog EXCEPT !.open = open, !.profile = 0, !.status = "idle"], asks' = Stale
        PROVE  DialogStep
    <2>1. dialog' \in D /\ dialog'.profile = 0 /\ dialog'.status = "idle"
      BY <1>1, <1>7
    <2>2. QED
      BY <1>2, <1>5, <1>7, <2>1
  <1>8. CASE RequestReplay
    <2>1. CASE NeedsProfile
      BY <1>6, <1>8, <2>1 DEF RequestReplay, LoadRunProfile, T
    <2>2. CASE ~NeedsProfile
      <3>1. dialog' = [dialog EXCEPT !.open = TRUE, !.profile = 0, !.status = "idle"] /\ asks' = Stale
        BY <1>8, <2>2 DEF RequestReplay
      <3>2. QED
        BY <1>7, <3>1
    <2>3. QED
      BY <2>1, <2>2
  <1>9. CASE RetryRunProfile
    BY <1>6, <1>9 DEF RetryRunProfile, LoadRunProfile, T
  <1>10. CASE CloseRun \/ \E valued \in BOOLEAN : StartReplay(valued)
    <2>1. dialog' = [dialog EXCEPT !.open = FALSE, !.profile = 0, !.status = "idle"] /\ asks' = Stale
      BY <1>10 DEF CloseRun, StartReplay, Shut
    <2>2. QED
      BY <1>7, <2>1
  <1>11. ASSUME NEW r \in asks, NEW found \in BOOLEAN, RunProfileAnswered(r, found)
         PROVE  DialogStep
    <2>1. /\ asks' = asks \ {r} /\ r \in [last : BOOLEAN]
          /\ ~r.last => dialog' = dialog
          /\ r.last =>
               \/ /\ profiles[UrlProfile] # 0
                  /\ dialog' = [dialog EXCEPT !.profile = profiles[UrlProfile], !.status = "ready"]
               \/ dialog' = [dialog EXCEPT !.status = "error"]
      BY <1>1, <1>11 DEF RunProfileAnswered, Asked
    <2>2. CASE ~r.last
      <3>1. T \in asks' <=> T \in asks
        BY <1>2, <2>1, <2>2
      <3>2. QED
        BY <1>1, <1>4, <1>5, <2>1, <2>2, <3>1
    <2>3. CASE r.last
      <3>1. r = T /\ T \notin asks'
        BY <1>2, <2>1, <2>3
      <3>2. dialog.open /\ dialog.profile = 0
        BY <1>4, <3>1
      <3>3. profiles[UrlProfile] \in Nat
        BY <1>1, EditorAssumption
      <3>4. /\ dialog' \in D /\ dialog'.open /\ dialog'.status # "loading"
            /\ dialog'.profile # 0 => dialog'.status = "ready"
        <4>1. CASE dialog' = [dialog EXCEPT !.profile = profiles[UrlProfile], !.status = "ready"]
          BY <1>1, <3>2, <3>3, <4>1
        <4>2. CASE dialog' = [dialog EXCEPT !.status = "error"]
          BY <1>1, <3>2, <4>2
        <4>3. QED
          BY <2>1, <2>3, <4>1, <4>2
      <3>5. asks' \subseteq [last : BOOLEAN]
        BY <1>1, <2>1
      <3>6. QED
        BY <1>5, <3>1, <3>4, <3>5
    <2>4. QED
      BY <2>2, <2>3
  <1>12. QED
    BY <1>8, <1>9, <1>10, <1>11

-----------------------------------------------------------------------------
(* All together *)

\* A step of the editor beside its dialog.
EdAct ==
    \/ EdOpens \/ EdLoaded \/ Reload \/ UndoDelete \/ DismissDelete \/ StartRecording \/ Render
    \/ Save \/ Finish \/ RecordingStopped \/ StopTimesOut \/ EdSaved
    \/ \E id \in StepId : Delete(id) \/ Toggle(id)
    \/ \E id \in Recorded : StepRecorded(id) \/ \E at \in 0 .. Len(ed.wf.steps) : InsertAssertion(id, at)
    \/ \E from, to \in DOMAIN ed.wf.steps : Reorder(from, to)

\* Every step of the editor beside its dialog keeps the invariant of editor and store.
LEMMA EdActs ==
    ASSUME StoreTypes, StoreInv, LibTypes, EdTypes, EdInv, EdAct
    PROVE  EdStep /\ UNCHANGED <<libVars, dialog, asks>> /\ acts' \in Nat
  <1>0. acts \in Nat
    BY DEF LibTypes
  <1>1. CASE EdOpens \/ EdLoaded \/ Reload
    <2>1. UNCHANGED <<libVars, dialog, asks>> /\ acts' = acts
      BY <1>1 DEF EdOpens, EdLoaded, Reload, edVars
    <2>2. QED
      BY <1>0, <1>1, <2>1, EdOpensStep, EdLoadedStep, ReloadStep
  <1>2. CASE UndoDelete \/ DismissDelete \/ StartRecording \/ Render
    <2>1. UNCHANGED <<libVars, dialog, asks>> /\ (acts' = acts \/ acts' = acts + 1)
      BY <1>2 DEF UndoDelete, DismissDelete, StartRecording, Render, EdOnly, Act
    <2>2. QED
      BY <1>0, <1>2, <2>1, UndoDeleteStep, SilentStep, StartRecordingStep
  <1>3. CASE Save \/ Finish \/ RecordingStopped \/ StopTimesOut \/ EdSaved
    <2>1. UNCHANGED <<libVars, dialog, asks>> /\ acts' = acts
      BY <1>3 DEF Save, Finish, RecordingStopped, StopTimesOut, EdSaved, EdOnly
    <2>2. QED
      BY <1>0, <1>3, <2>1, SaveStep, FinishStep, RecordingStoppedStep, StopTimesOutStep, EdSavedStep
  <1>4. ASSUME NEW id \in StepId, Delete(id) \/ Toggle(id)
        PROVE  EdStep /\ UNCHANGED <<libVars, dialog, asks>> /\ acts' \in Nat
    <2>1. UNCHANGED <<libVars, dialog, asks>> /\ acts' = acts + 1
      BY <1>4 DEF Delete, Toggle, EdOnly, Act
    <2>2. QED
      BY <1>0, <1>4, <2>1, DeleteStep, ToggleStep
  <1>5. ASSUME NEW id \in Recorded,
               StepRecorded(id) \/ \E at \in 0 .. Len(ed.wf.steps) : InsertAssertion(id, at)
        PROVE  EdStep /\ UNCHANGED <<libVars, dialog, asks>> /\ acts' \in Nat
    <2>1. UNCHANGED <<libVars, dialog, asks>> /\ acts' = acts + 1
      BY <1>5 DEF StepRecorded, InsertAssertion, EdOnly, Act
    <2>2. QED
      BY <1>0, <1>5, <2>1, StepRecordedStep, InsertAssertionStep
  <1>6. ASSUME NEW from \in DOMAIN ed.wf.steps, NEW to \in DOMAIN ed.wf.steps, Reorder(from, to)
        PROVE  EdStep /\ UNCHANGED <<libVars, dialog, asks>> /\ acts' \in Nat
    <2>1. UNCHANGED <<libVars, dialog, asks>> /\ acts' = acts + 1
      BY <1>6 DEF Reorder, EdOnly, Act
    <2>2. QED
      BY <1>0, <1>6, <2>1, ReorderStep
  <1>7. QED
    BY <1>1, <1>2, <1>3, <1>4, <1>5, <1>6 DEF EdAct

\* A third screen that saves what it read keeps the store's invariant.
LEMMA ElsewhereStep ==
    ASSUME StoreTypes, StoreInv,
           \E id \in StepId, b \in Elsewhere :
             ElsewhereSaves(Bind(Current.steps, id, b)) \/ ElsewhereSaves(Switched(Current.steps, id))
    PROVE  StoreTypes' /\ StoreInv' /\ StoreEffect /\ acts' = acts + 1 /\ UNCHANGED <<libVars, edVars>>
  <1> DEFINE s == Current.steps
  <1>1. s \in Seq(Step) /\ Distinct(s)
    BY LastVersion, VersionType DEF Current, Version, Snapshot, StoreInv, VersionInv
  <1> HIDE DEF s
  <1>2. PICK id \in StepId, b \in Elsewhere :
          ElsewhereSaves(Bind(s, id, b)) \/ ElsewhereSaves(Switched(s, id))
    BY DEF s
  <1>3. Bind(s, id, b) \in Seq(Step) /\ Distinct(Bind(s, id, b))
    <2>1. /\ Bind(s, id, b) \in Seq(Step) /\ Len(Bind(s, id, b)) = Len(s)
          /\ \A i \in DOMAIN s : Bind(s, id, b)[i].id = s[i].id
      BY <1>1, BindFacts, EditorAssumption
    <2>2. QED
      BY <1>1, <2>1, SameIds
  <1>4. Switched(s, id) \in Seq(Step) /\ Distinct(Switched(s, id))
    <2>1. /\ Switched(s, id) \in Seq(Step) /\ Len(Switched(s, id)) = Len(s)
          /\ \A i \in DOMAIN s : Switched(s, id)[i].id = s[i].id
      BY <1>1, SwitchedFacts
    <2>2. QED
      BY <1>1, <2>1, SameIds
  <1>5. UNCHANGED <<libVars, edVars>>
    BY <1>2 DEF ElsewhereSaves
  <1>6. QED
    BY <1>2, <1>3, <1>4, <1>5, SavedElsewhere

\* A step of the store, or of a third screen.
LEMMA ScreensKept ==
    ASSUME IInv, StoreTypes', StoreInv', StoreEffect, UNCHANGED <<libVars, edVars>>, acts' \in Nat
    PROVE  IInv'
  <1>1. /\ Grows /\ Keeps("lib") /\ Keeps("run") /\ Keeps("editor")
        /\ UNCHANGED <<lib, looks, profiles, chosen, ed, dialog, asks, mine>>
        /\ StoreTypes /\ LibTypes /\ EdTypes /\ EdInv /\ LibInv /\ LooksInv /\ DialogInv
    BY EditorAssumption DEF StoreEffect, libVars, edVars, IInv, Types
  <1>2. EdInv' /\ LibInv'
    BY <1>1, EditorKept, LibraryKept, EditorAssumption
  <1>3. LooksInv' /\ DialogInv' /\ LibTypes' /\ EdTypes'
    BY <1>1, LooksKept DEF DialogInv, LibTypes, EdTypes
  <1>4. QED
    BY <1>2, <1>3 DEF IInv, Types

\* The invariant of store, editor and Library is inductive: no step of the store (attempts
\* handled late, locks, restarts), of either screen, or of a third one leaves it.
THEOREM Inductive ==
    ASSUME IInv, [Next]_vars
    PROVE  IInv'
  <1>1. /\ StoreTypes /\ StoreInv /\ LibTypes /\ EdTypes /\ EdInv /\ LibInv /\ LooksInv /\ DialogInv
        /\ acts \in Nat
    BY DEF IInv, Types, LibTypes
  <1>2. CASE StoreNext /\ UNCHANGED <<libVars, acts, edVars>>
    <2>1. StoreTypes' /\ StoreInv' /\ StoreEffect
      BY <1>1, <1>2, StoreSteps DEF StoreStep
    <2>2. QED
      BY <1>1, <1>2, <2>1, ScreensKept
  <1>3. CASE (LibNext /\ UNCHANGED <<backing, versions, late, faults, edVars>>) \/ LibOpens
    <2>1. UNCHANGED <<ed, dialog, asks, mine>>
      BY <1>3 DEF LibOpens, edVars
    <2>2. LibStep
      BY <1>1, <1>3, LibSteps, LibOpensStep
    <2>3. EdInv' /\ EdTypes' /\ DialogInv'
      BY <1>1, <2>1, <2>2, EditorKept, EditorAssumption DEF LibStep, EdTypes, DialogInv
    <2>4. QED
      BY <2>2, <2>3 DEF IInv, Types, LibStep
  <1>4. CASE EdAct
    <2>1. EdStep /\ UNCHANGED <<lib, looks, profiles, chosen, dialog, asks>> /\ acts' \in Nat
      BY <1>1, <1>4, EdActs DEF libVars
    <2>2. LibInv'
      BY <1>1, <2>1, LibraryKept DEF EdStep
    <2>3. LooksInv' /\ DialogInv' /\ LibTypes'
      BY <1>1, <2>1, LooksKept DEF DialogInv, LibTypes
    <2>4. QED
      BY <2>1, <2>2, <2>3 DEF IInv, Types, EdStep
  <1>5. CASE \/ RequestReplay \/ RetryRunProfile \/ CloseRun
             \/ (\E valued \in BOOLEAN : StartReplay(valued))
             \/ \E r \in asks, found \in BOOLEAN : RunProfileAnswered(r, found)
    <2>1. DialogStep
      BY <1>1, <1>5, DialogSteps
    <2>2. /\ UNCHANGED storeVars /\ UNCHANGED <<lib, looks, profiles, chosen, ed, mine>>
          /\ EdTypes' /\ DialogInv' /\ acts' \in Nat
      BY <2>1 DEF DialogStep, libVars
    <2>3. StoreTypes' /\ StoreInv' /\ Grows /\ Keeps("lib") /\ Keeps("run") /\ Keeps("editor")
      BY <1>1, <2>2, StoreUnchanged, EditorAssumption
    <2>4. EdInv' /\ LibInv'
      BY <1>1, <2>2, <2>3, EditorKept, LibraryKept, EditorAssumption
    <2>5. LooksInv' /\ LibTypes'
      BY <1>1, <2>2, LooksKept DEF LibTypes
    <2>6. QED
      BY <2>2, <2>3, <2>4, <2>5 DEF IInv, Types
  <1>6. CASE \E id \in StepId, b \in Elsewhere :
               ElsewhereSaves(Bind(Current.steps, id, b)) \/ ElsewhereSaves(Switched(Current.steps, id))
    BY <1>1, <1>6, ElsewhereStep, ScreensKept
  <1>7. CASE UNCHANGED vars
    <2>1. UNCHANGED storeVars /\ UNCHANGED <<libVars, edVars>> /\ acts' \in Nat
      BY <1>1, <1>7 DEF vars
    <2>2. StoreTypes' /\ StoreInv' /\ StoreEffect
      BY <1>1, <2>1, StoreUnchanged DEF StoreEffect
    <2>3. QED
      BY <2>1, <2>2, ScreensKept
  <1>8. EdNext => \/ EdAct
                  \/ \/ RequestReplay \/ RetryRunProfile \/ CloseRun
                     \/ (\E valued \in BOOLEAN : StartReplay(valued))
                     \/ \E r \in asks, found \in BOOLEAN : RunProfileAnswered(r, found)
    BY DEF EdNext, EdAct
  <1>9. QED
    BY <1>2, <1>3, <1>4, <1>5, <1>6, <1>7, <1>8 DEF Next

-----------------------------------------------------------------------------
(* The initial states *)

FirstRows == [i \in 1 .. Cardinality(StepId \ Recorded) |->
                [id |-> SetToSeq(StepId \ Recorded)[i], bind |-> "recorded", on |-> TRUE]]

\* The first version has the recorded rows under distinct ids.
LEMMA FirstRowsFacts == FirstRows \in Seq(Step) /\ Distinct(FirstRows)
  <1> DEFINE S == StepId \ Recorded
             n == Cardinality(S)
             ids == SetToSeq(S)
             row(i) == [id |-> ids[i], bind |-> "recorded", on |-> TRUE]
  <1>1. IsFiniteSet(S)
    BY EditorAssumption, FS_Subset
  <1>2. n \in Nat /\ ExistsBijection(1 .. n, S)
    BY <1>1, FS_CardinalityType
  <1>3. ids \in [1 .. n -> S] /\ IsInjective(ids)
    <2>1. \E f \in [1 .. n -> S] : IsInjective(f)
      BY <1>2 DEF ExistsBijection, Bijection, Injection
    <2> HIDE DEF S
    <2>2. ids = CHOOSE f \in [1 .. n -> S] : IsInjective(f)
      BY DEF SetToSeq
    <2> HIDE DEF n, ids
    <2>3. QED
      BY <2>1, <2>2
  <1>4. FirstRows = [i \in 1 .. n |-> row(i)]
    BY DEF FirstRows
  <1>5. \A i \in 1 .. n : ids[i] \in StepId
    BY <1>3
  <1> HIDE DEF n, ids
  <1>6. \A i \in 1 .. n : row(i) \in Step /\ row(i).id = ids[i]
    BY <1>5, LibraryAssumption DEF Step
  <1> HIDE DEF row
  <1>7. FirstRows \in Seq(Step)
    BY <1>2, <1>4, <1>6
  <1>8. DOMAIN FirstRows = 1 .. n /\ \A i \in 1 .. n : FirstRows[i].id = ids[i]
    BY <1>4, <1>6
  <1>9. Distinct(FirstRows)
    BY <1>3, <1>8 DEF Distinct, IsInjective
  <1>10. QED
    BY <1>7, <1>9

\* No document has no rows.
LEMMA NoDocFacts == NoDoc \in Doc /\ NoDoc.steps = <<>> /\ NoDoc.rev = 0 /\ Ids(NoDoc.steps) = {}
                    /\ Distinct(NoDoc.steps)
  BY DEF NoDoc, Doc, Ids, Distinct

\* The store starts within its invariant and nobody waits.
LEMMA InitStore ==
    ASSUME NEW steps \in Seq(Step), Distinct(steps), StoreInit(steps)
    PROVE  StoreTypes /\ StoreInv /\ \A c \in Caller : Idle(c) /\ ~Saves(calls[c])
  <1> DEFINE first == [steps |-> steps, status |-> "draft", save |-> 0, key |-> 0, shown |-> {}]
  <1>1. /\ versions = <<first>> /\ backing \in {"file", "relay"}
        /\ calls = [c \in Caller |-> NoCall] /\ answers = [c \in Caller |-> NoAnswer]
        /\ late = {} /\ keys = 0 /\ faults = 0
    BY DEF StoreInit
  <1>2. first \in Snapshot /\ first.steps = steps /\ first.key = 0 /\ first.save = 0
    BY DEF Snapshot, BindRow
  <1> HIDE DEF first
  <1>3. /\ versions \in Seq(Snapshot) /\ versions # <<>> /\ Len(versions) = 1 /\ DOMAIN versions = {1}
        /\ versions[1] = first
    BY <1>1, <1>2
  <1>4. NoCall.kind = "none" /\ NoCall.phase = "idle" /\ NoCall.save = 0 /\ NoCall.key = 0 /\ NoCall \in CallRec
    BY NoCallType
  <1>5. NoAnswer \in AnswerRec /\ NoAnswer.code = "none" /\ NoAnswer.save = 0
    BY NoDocFacts DEF NoAnswer, AnswerRec
  <1>6. StoreTypes
    BY <1>1, <1>3, <1>4, <1>5 DEF StoreTypes
  <1>7. \A c \in Caller : calls[c] = NoCall /\ answers[c] = NoAnswer
    BY <1>1
  <1>8. \A c \in Caller : Idle(c) /\ ~Saves(calls[c])
    BY <1>4, <1>5, <1>7 DEF Idle, Saves
  <1>9. Sent = {}
    BY <1>1, <1>8 DEF Sent
  <1>10. CallInv
    BY <1>1, <1>4, <1>5, <1>7, <1>8 DEF CallInv
  <1>11. SentInv
    BY <1>9 DEF SentInv
  <1>12. VersionInv
    BY <1>1, <1>2, <1>3 DEF VersionInv
  <1>13. AnswerInv
    BY <1>5, <1>7 DEF AnswerInv, AnswerIs
  <1>14. QED
    BY <1>6, <1>8, <1>10, <1>11, <1>12, <1>13 DEF StoreInv

\* The Library starts within its invariant.
LEMMA InitLibrary ==
    ASSUME LibInit, \A c \in Caller : Idle(c) /\ ~Saves(calls[c])
    PROVE  LibTypes /\ LibInv /\ LooksInv
  <1>1. Idle("lib") /\ Idle("run") /\ ~Saves(calls["lib"]) /\ ~Saves(calls["run"])
    BY EditorAssumption
  <1>2. NotShown \in Saw
    BY LibraryAssumption DEF NotShown, Saw
  <1>3. NoFetch \in Closure /\ NoFetch.run = FALSE
    BY NoFetchType
  <1>4. NoProfile \in [id : Profile \cup {"none"}, rev : Nat]
    BY DEF NoProfile
  <1>5. /\ looks = {} /\ chosen = {} /\ acts = 0 /\ profiles = [p \in Profile |-> 1]
        /\ lib = [base |-> NoDoc, draft |-> NoDoc, status |-> "loading", op |-> "load",
                  closure |-> NoFetch, conflicts |-> {}, saw |-> NotShown,
                  sel |-> "none", profile |-> NoProfile, profileStatus |-> "idle", left |-> FALSE]
    BY DEF LibInit
  <1>6. lib \in LibRec
    BY <1>2, <1>3, <1>4, <1>5, NoDocFacts DEF LibRec
  <1>7. LibTypes
    BY <1>5, <1>6 DEF LibTypes
  <1>8. /\ lib.op = "load" /\ lib.draft = NoDoc /\ lib.base = NoDoc /\ lib.closure.run = FALSE
        /\ lib.profile = NoProfile /\ lib.profileStatus = "idle"
    BY <1>3, <1>5
  <1>9. LibCallInv
    BY <1>1, <1>5, <1>8 DEF LibCallInv
  <1>10. LibDocInv
    BY <1>5, <1>8 DEF LibDocInv
  <1>11. ChosenInv
    BY <1>5 DEF ChosenInv, ChosenOf, ChosenKept
  <1>12. LooksInv
    BY <1>5, <1>8 DEF LooksInv
  <1>13. QED
    BY <1>7, <1>9, <1>10, <1>11, <1>12 DEF LibInv

\* The editor starts within its invariant.
LEMMA InitEditor ==
    ASSUME EdInit, \A c \in Caller : Idle(c) /\ ~Saves(calls[c])
    PROVE  EdTypes /\ EdInv /\ DialogInv
  <1>1. /\ ed = [wf |-> NoDoc, shown |-> NoDoc, dirty |-> FALSE, undo |-> NoUndo,
                 status |-> "loading", loaded |-> FALSE, moved |-> FALSE, stored |-> {},
                 recording |-> "off", finishing |-> FALSE, left |-> FALSE]
        /\ dialog = [open |-> FALSE, profile |-> 0, status |-> "idle"]
        /\ asks = {} /\ mine = {}
    BY DEF EdInit
  <1>2. ed \in EdRec
    BY <1>1, NoDocFacts DEF EdRec
  <1>3. EdTypes
    BY <1>1, <1>2 DEF EdTypes
  <1>4. EdCallInv
    BY <1>1, EditorAssumption DEF EdCallInv
  <1>5. EdDocInv
    BY <1>1, NoDocFacts DEF EdDocInv
  <1>6. DialogInv
    BY <1>1 DEF DialogInv
  <1>7. QED
    BY <1>3, <1>4, <1>5, <1>6 DEF EdInv

\* The invariant holds in every state of the composed screens and store, for any number of
\* steps, callers, bindings, profiles, saves and faults.
THEOREM Invariance == Spec => []IInv
  <1>1. Init => IInv
    <2>1. SUFFICES ASSUME Init PROVE IInv
      OBVIOUS
    <2>2. StoreInit(FirstRows) /\ LibInit /\ EdInit
      BY <2>1 DEF Init, FirstRows
    <2>3. StoreTypes /\ StoreInv /\ \A c \in Caller : Idle(c) /\ ~Saves(calls[c])
      BY <2>2, FirstRowsFacts, InitStore
    <2>4. QED
      BY <2>2, <2>3, InitLibrary, InitEditor DEF IInv, Types
  <1>2. IInv /\ [Next]_vars => IInv'
    BY Inductive
  <1>3. QED
    BY <1>1, <1>2, PTL DEF Spec

-----------------------------------------------------------------------------
(* What the invariant says of the screens *)

\* Rows under distinct ids are as many as their ids.
LEMMA IdsCounted ==
    ASSUME NEW s \in Seq(Step), Distinct(s)
    PROVE  Cardinality(Ids(s)) = Len(s)
  <1> DEFINE f == [i \in 1 .. Len(s) |-> s[i].id]
  <1>1. Len(s) \in Nat /\ DOMAIN s = 1 .. Len(s)
    OBVIOUS
  <1>2. Ids(s) = {f[i] : i \in 1 .. Len(s)}
    BY <1>1 DEF Ids
  <1>3. \A i, j \in 1 .. Len(s) : f[i] = f[j] => i = j
    BY <1>1 DEF Distinct
  <1>4. f \in Bijection(1 .. Len(s), Ids(s))
    BY <1>2, <1>3 DEF Bijection, Injection, IsInjective, Surjection
  <1>5. IsFiniteSet(1 .. Len(s)) /\ Cardinality(1 .. Len(s)) = Len(s)
    BY <1>1, FS_Interval
  <1>6. QED
    BY <1>4, <1>5, FS_Bijection DEF ExistsBijection

\* The editor says "saved" only of the version stored at its revision, and a step recorded or
\* inserted while a save was in flight is still there, once (workflow/saved of the reducer).
THEOREM EditsKept == Spec => []EditsAreKept
  <1>1. IInv => EditsAreKept
    <2>1. SUFFICES ASSUME IInv PROVE EditsAreKept
      OBVIOUS
    <2>2. EdDocInv /\ ed.wf.steps \in Seq(Step)
      BY <2>1 DEF IInv, EdInv, Types, EdTypes, EdRec, Doc
    <2>3. Cardinality(Ids(ed.wf.steps)) = Len(ed.wf.steps)
      BY <2>2, IdsCounted DEF EdDocInv
    <2>4. QED
      BY <2>2, <2>3 DEF EdDocInv, EditsAreKept
  <1>2. QED
    BY <1>1, Invariance, PTL

\* The rows of the draft have distinct ids.
LEMMA DraftDistinct ==
    ASSUME IInv
    PROVE  lib.draft.steps \in Seq(Step) /\ Distinct(lib.draft.steps)
  <1>1. /\ lib.draft.steps \in Seq(Step) /\ lib.base.steps \in Seq(Step)
        /\ versions \in Seq(Snapshot) /\ VersionInv /\ LibDocInv
    BY DEF IInv, Types, StoreTypes, LibTypes, LibRec, Doc, StoreInv, LibInv
  <1>2. CASE lib.draft = NoDoc
    BY <1>1, <1>2, NoDocFacts
  <1>3. CASE lib.draft # NoDoc
    <2>1. Known(lib.base) /\ DraftOf(lib.base, lib.draft, lib.saw)
      BY <1>1, <1>3 DEF LibDocInv
    <2>2. Distinct(lib.base.steps)
      BY <1>1, <2>1 DEF Known, VersionInv
    <2>3. /\ Len(lib.draft.steps) = Len(lib.base.steps)
          /\ \A i \in DOMAIN lib.base.steps : lib.draft.steps[i].id = lib.base.steps[i].id
      BY <2>1 DEF DraftOf
    <2>4. QED
      BY <1>1, <2>2, <2>3, SameIds
  <1>4. QED
    BY <1>2, <1>3

\* A binding chosen in the Library at rest, with nothing being saved or loaded, is in the
\* draft, or the user's side of a conflict, until it is stored, withdrawn or its row is gone,
\* through refusals, lost answers and rebases.
THEOREM ChoicesKept == Spec => []ChoicesAtRestAreKept
  <1>1. IInv => ChoicesAtRestAreKept
    <2>1. SUFFICES ASSUME IInv, NEW c \in chosen, c.id \in Ids(lib.draft.steps),
                          ~ \E d \in lib.conflicts : d.id = c.id /\ d.local = c.bind
                   PROVE  Row(lib.draft.steps, c.id).bind = c.bind
      BY DEF ChoicesAtRestAreKept
    <2>2. lib.draft.steps \in Seq(Step) /\ Distinct(lib.draft.steps)
      BY <2>1, DraftDistinct
    <2>3. PICK i \in DOMAIN lib.draft.steps :
            lib.draft.steps[i].id = c.id /\ Row(lib.draft.steps, c.id) = lib.draft.steps[i]
      BY <2>1, <2>2, RowOfId
    <2>4. \A j \in DOMAIN lib.draft.steps : lib.draft.steps[j].id = c.id => lib.draft.steps[j].bind = c.bind
      BY <2>1 DEF IInv, LibInv, ChosenInv, ChosenKept
    <2>5. QED
      BY <2>3, <2>4
  <1>2. QED
    BY <1>1, Invariance, PTL

\* No save changes or removes a row that its author had not been shown as it was stored, and no
\* save that was stored is called a conflict, whatever attempts Relay handles late.
THEOREM SavesHonest == Spec => []SavesAreHonest
  <1>1. IInv => SavesAreHonest
    <2>1. SUFFICES ASSUME IInv PROVE SavesAreHonest
      OBVIOUS
    <2>2. /\ versions \in Seq(Snapshot) /\ VersionInv /\ AnswerInv
      BY <2>1 DEF IInv, Types, StoreTypes, StoreInv
    <2>3. ASSUME NEW n \in 2 .. Len(versions), NEW s \in Range(versions[n - 1].steps)
          PROVE  \/ [id |-> s.id, bind |-> s.bind] \in versions[n].shown
                 \/ \E t \in Range(versions[n].steps) : t.id = s.id /\ t.bind = s.bind
      <3>1. PICK i \in DOMAIN versions[n - 1].steps : s = versions[n - 1].steps[i]
        BY <2>3 DEF Range
      <3>2. Seen(versions[n - 1].steps, versions[n].steps, versions[n].shown)
        BY <2>2, <2>3 DEF VersionInv
      <3>3. \/ [id |-> s.id, bind |-> s.bind] \in versions[n].shown
            \/ \E j \in DOMAIN versions[n].steps :
                 versions[n].steps[j].id = s.id /\ versions[n].steps[j].bind = s.bind
        BY <3>1, <3>2 DEF Seen
      <3>4. \A j \in DOMAIN versions[n].steps : versions[n].steps[j] \in Range(versions[n].steps)
        BY DEF Range
      <3>5. QED
        BY <3>3, <3>4
    <2>4. NothingOverwrittenUnseen
      BY <2>3 DEF NothingOverwrittenUnseen
    <2>5. ConflictIsAnothers
      <3>1. SUFFICES ASSUME NEW c \in Caller, answers[c].code = "conflict", NEW n \in DOMAIN versions
                     PROVE  versions[n].save # answers[c].save
        BY DEF ConflictIsAnothers
      <3>2. versions[n].key # answers[c].save
        BY <2>2, <3>1 DEF AnswerInv, AnswerIs
      <3>3. versions[n].save = versions[n].key
        BY <2>2 DEF VersionInv
      <3>4. QED
        BY <3>2, <3>3
    <2>6. QED
      BY <2>4, <2>5 DEF SavesAreHonest
  <1>2. QED
    BY <1>1, Invariance, PTL

\* The profile a screen holds is of its last fetch, and a screen that waits has one in flight.
THEOREM ProfileAsked == Spec => []ProfileIsTheOneAsked
  <1>1. IInv => ProfileIsTheOneAsked
    BY DEF IInv, LooksInv, DialogInv, ProfileIsTheOneAsked
  <1>2. QED
    BY <1>1, Invariance, PTL

=================================================================================
