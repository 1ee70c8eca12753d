------------------------------ MODULE ReplaySteps ------------------------------
(***************************************************************************)
(* What the interactive and the headless runner share (replay-core): the   *)
(* phases of a step, which clicks repeat the selection after them, and     *)
(* what a workflow must be before any browser is asked for (preflight.ts). *)
(***************************************************************************)
EXTENDS Naturals, Sequences, SequencesExt

\* A click stands for every other action on an element: dates, checks, keys, submits.
Kind == {"navigate", "click", "select", "fill", "assertion"}

\* Of a step: its identity and kind, whether it is enabled, the waits after it,
\* whether it is a recorded click on the option the next step selects, where a
\* filled value comes from, and whether its page has an http address.
Step == [id : Nat, kind : Kind, enabled : BOOLEAN,
         waits : SUBSET {"delay", "condition"}, option : BOOLEAN,
         source : {"recorded", "fixed", "profile", "runtime"}, http : BOOLEAN]

Workflow == [steps : Seq(Step), startUrl : BOOLEAN, complete : BOOLEAN, valid : BOOLEAN]

\* isRedundantOptionClickBeforeSelect.
Redundant(steps, i) ==
    /\ steps[i].kind = "click" /\ steps[i].option /\ steps[i].waits = {}
    /\ i < Len(steps) /\ steps[i + 1].kind = "select"
    /\ steps[i].enabled /\ steps[i + 1].enabled

CarriedOut(steps, i) == steps[i].enabled /\ ~Redundant(steps, i)

\* The phases of a step in their order; an assertion neither settles nor waits.
Phases(step) ==
    IF step.kind = "assertion" THEN <<"asserting">>
    ELSE <<"acting", "settling">>
           \o (IF "delay" \in step.waits THEN <<"delay">> ELSE <<>>)
           \o (IF "condition" \in step.waits THEN <<"condition">> ELSE <<>>)

\* preflightReplay: the steps from the first one asked for, and the page to open
\* before them, or the reason for which there is no replay.
FirstEnabled(steps) == SelectInSeq(steps, LAMBDA s : s.enabled)
From(steps, id) == IF id = 0 THEN 1 ELSE SelectInSeq(steps, LAMBDA s : s.id = id)

Duplicate(steps) ==
    \E i, j \in 1 .. Len(steps) : i < j /\ steps[i].id = steps[j].id

Preflight(wf, id) ==
    LET start == From(wf.steps, id)
        range == SubSeq(wf.steps, start, Len(wf.steps))
        first == range[FirstEnabled(range)]
        refused == [error |-> TRUE, range |-> <<>>, bootstrap |-> FALSE]
    IN IF \/ ~wf.valid \/ Duplicate(wf.steps) \/ start = 0 \/ FirstEnabled(range) = 0
          \/ first.kind # "navigate" /\ ~wf.startUrl /\ ~first.http
       THEN refused
       ELSE [error |-> FALSE, range |-> range, bootstrap |-> first.kind # "navigate"]

=============================================================================
