----------------------------- MODULE StepExecution -----------------------------
(***************************************************************************)
(* What one awaited phase of a step does to the page (replay-core): it     *)
(* looks for the element by its candidate locators in their order, acts on *)
(* it, and afterwards waits for the page to settle or for a condition to   *)
(* hold, while the page goes on changing and the run may be stopped. The   *)
(* clock counts polls of cancellableDelay.                                 *)
(***************************************************************************)
EXTENDS Integers, FiniteSets, ReplayErrors

CONSTANTS
    Candidates,     \* number of locator candidates of the target
    Quiet, Stable,  \* DEFAULT_SETTLE_QUIET_MS, DEFAULT_WAIT_STABLE_MS
    Retry,          \* pause between two attempts of resolveTarget
    Limit,          \* timeoutMs
    MaxChanges      \* bound: changes of the page in a behaviour

ASSUME ExecutionAssumption ==
    /\ {Candidates, Quiet, Stable, Retry, Limit} \subseteq Nat \ {0} /\ MaxChanges \in Nat

VARIABLES
    job,        \* the phase: what is awaited
    pc,         \* where it is
    now, wake, deadline,
    look,       \* what each candidate's locator finds on the page
    frame,      \* whether the recorded frame is there, and only once
    requests, active,           \* of the page, and those the tracker counts
    lastNetwork, lastMutation,  \* as tracker and observer know them
    observed, domTracked,       \* whether this document is observed; domTracked
    domQuiet,   \* what the last look at the document said
    c, stage,   \* the candidate looked at and what is asked about it
    evaluated,  \* candidateEvaluated
    seen, unseen,   \* candidates seen visible in this sweep, and those of which a question failed
    since,      \* stableSince, -1 for null
    calls,      \* calls of the action begun
    stopped, result, why,
    steady,     \* history: candidates, or 0 for the frame, unchanged since the sweep began
    unmetAt,    \* history: end of the last sweep during which the condition was not met
    busyAt, requestedAt,    \* history: when the document and the network last did anything
    calm,       \* history: how long the document had done nothing at the last look
    changes

waiting == <<wake, deadline, since, unmetAt>>
page == <<look, frame, requests, lastMutation, observed>>
tracker == <<active, lastNetwork, domTracked, domQuiet, calm>>
sweep == <<c, stage, evaluated, seen, unseen>>
busy == <<busyAt, requestedAt>>
end == <<result, why>>
vars == <<job, pc, now, waiting, page, tracker, sweep, calls, stopped, end, steady,
          busy, changes>>

-----------------------------------------------------------------------------
Candidate == 1 .. Candidates

\* No element, several of them (one visible at least), one that is hidden, one
\* that is visible but is not the recorded kind of element, or the element.
Look == {"none", "many", "hidden", "other", "good"}
Visible == {"many", "other", "good"}

Acting == {"click", "combobox", "select", "navigate"}
Job == Acting \cup Asserting \cup {"settle", "visible", "hidden"}

\* Text is looked for in the frames of the page, each inside the one before it;
\* they stand in the place of candidates then. The first is the main frame.
FrameLook(i) == IF i = 1 THEN {"other", "good"} ELSE {"none", "hidden", "other", "good"}
LookOf(kind, i) == CASE kind \in {"settle", "navigate"} -> {"none"}
                     [] kind = "text" -> FrameLook(i)
                     [] OTHER -> Look
Framed(kind) == kind \notin {"settle", "navigate", "text"}

\* The calls of an action on the page, one after the other; a select that fails
\* by value is tried again by label.
Calls(kind) == CASE kind = "combobox" -> 4 [] kind = "select" -> 2 [] OTHER -> 1

TypeOK ==
    /\ job \in Job
    /\ pc \in {"position", "sweep", "look", "sleep", "act", "load", "poll", "asked", "over"}
    /\ now \in Nat /\ wake \in Nat /\ deadline \in Nat /\ since \in Nat \cup {-1}
    /\ look \in [Candidate -> Look] /\ frame \in BOOLEAN
    /\ requests \in BOOLEAN /\ active \in BOOLEAN /\ (active => requests)
    /\ lastNetwork \in 0 .. now /\ lastMutation \in 0 .. now
    /\ observed \in BOOLEAN /\ domTracked \in BOOLEAN /\ domQuiet \in BOOLEAN
    /\ evaluated \in BOOLEAN
    /\ c \in Candidate \cup {Candidates + 1} /\ stage \in {"count", "visible", "fingerprint"}
    /\ seen \subseteq Candidate /\ unseen \subseteq Candidate /\ (job # "text" => seen \cap unseen = {})
    /\ calls \in 0 .. Calls(job) /\ (calls > 0 => pc \in {"act", "over"})
    /\ stopped \in BOOLEAN
    /\ result \in {"open", "passed", "failed", "cancelled"}
    /\ (stopped => result # "open") /\ (result = "open" => pc # "over")
    /\ why \in {"none", "position", "frame", "target", "action", "condition", "text",
               "mismatch", "group"}
    /\ steady \subseteq Candidate \cup {0} /\ unmetAt \in 0 .. now
    /\ busyAt \in 0 .. now /\ requestedAt \in 0 .. now /\ calm \in Nat
    /\ changes \in 0 .. MaxChanges

Init ==
    /\ job \in Job
    /\ pc = CASE job = "settle" -> "load"
              [] job \in {"visible", "hidden", "text", "group"} -> "sweep"
              [] OTHER -> "position"
    /\ now = 0 /\ wake = 0 /\ deadline = Limit /\ since = -1
    /\ look \in [Candidate -> Look] /\ \A i \in Candidate : look[i] \in LookOf(job, i)
    /\ frame \in IF Framed(job) THEN BOOLEAN ELSE {TRUE}
    /\ requests \in IF job = "settle" THEN BOOLEAN ELSE {FALSE}
    /\ active = requests /\ lastNetwork = 0 /\ lastMutation = 0
    /\ observed \in (IF job = "settle" THEN BOOLEAN ELSE {FALSE}) /\ domTracked = FALSE
    /\ domQuiet = FALSE /\ calm = 0
    /\ c = 1 /\ stage = "count" /\ evaluated = FALSE /\ seen = {} /\ unseen = {}
    /\ calls = 0 /\ stopped = FALSE /\ result = "open" /\ why = "none"
    /\ steady = {} /\ unmetAt = 0 /\ busyAt = 0 /\ requestedAt = 0 /\ changes = 0

-----------------------------------------------------------------------------
(* The page *)

Changes == /\ changes < MaxChanges /\ changes' = changes + 1 /\ pc # "over"
           /\ UNCHANGED <<job, pc, now, waiting, sweep, calls, stopped, end>>

ElementChanges ==
    /\ Changes
    /\ \E i \in Candidate : \E l \in LookOf(job, i) \ {look[i]} :
         look' = [look EXCEPT ![i] = l] /\ steady' = steady \ {i}
    /\ UNCHANGED <<frame, requests, lastMutation, observed, tracker, busy>>

FrameChanges ==
    /\ Changes /\ Framed(job)
    /\ frame' = ~frame /\ steady' = {}
    /\ UNCHANGED <<look, requests, lastMutation, observed, tracker, busy>>

Mutates ==
    /\ Changes /\ job = "settle"
    /\ lastMutation' = (IF observed THEN now ELSE lastMutation) /\ busyAt' = now
    /\ UNCHANGED <<look, frame, requests, observed, tracker, requestedAt, steady>>

\* A new document has no observer of its own.
Navigates ==
    /\ Changes /\ job = "settle" /\ observed
    /\ observed' = FALSE /\ busyAt' = now
    /\ UNCHANGED <<look, frame, requests, lastMutation, tracker, requestedAt, steady>>

RequestBegins ==
    /\ Changes /\ job = "settle" /\ ~requests
    /\ requests' = TRUE /\ active' = TRUE /\ lastNetwork' = now /\ requestedAt' = now
    /\ UNCHANGED <<look, frame, lastMutation, observed, domTracked, domQuiet, calm, busyAt,
                   steady>>

RequestEnds ==
    /\ pc # "over" /\ requests
    /\ requests' = FALSE /\ active' = FALSE /\ lastNetwork' = now /\ requestedAt' = now
    /\ UNCHANGED <<job, pc, now, waiting, look, frame, lastMutation, observed, domTracked,
                   domQuiet, calm, sweep, calls, stopped, end, steady, busyAt, changes>>

\* Looking takes time too, but at most until the deadline here.
Tick ==
    /\ \/ pc = "sleep" /\ now < wake
       \/ pc \in {"look", "load", "asked"} /\ now < deadline
    /\ now' = now + 1
    /\ UNCHANGED <<job, pc, waiting, page, tracker, sweep, calls, stopped, end, steady,
                   busy, changes>>

\* raceWithCancellation: the caller has its answer at once, while what was begun
\* goes on until it next looks at the signal.
Stop ==
    /\ result = "open"
    /\ stopped' = TRUE /\ result' = "cancelled"
    /\ UNCHANGED <<job, pc, now, waiting, page, tracker, sweep, calls, why, steady, busy,
                   changes>>

-----------------------------------------------------------------------------
(* The phase *)

Still == UNCHANGED <<job, now, page, stopped, busy, changes>>

Over(r, reason) ==
    /\ pc' = "over"
    /\ IF stopped THEN UNCHANGED end ELSE result' = r /\ why' = reason

\* throwIfCancelled.
Abandons ==
    /\ stopped /\ pc \notin {"act", "over"}
    /\ pc' = "over"
    /\ UNCHANGED <<waiting, tracker, sweep, calls, end, steady>> /\ Still

\* applyPositionBefore; a navigation has no target to look for.
Positioned ==
    /\ pc = "position" /\ ~stopped
    /\ IF job = "navigate" THEN pc' = "act" /\ calls' = 1 ELSE pc' = "sweep" /\ calls' = 0
    /\ UNCHANGED <<waiting, tracker, sweep, end, steady>> /\ Still

PositionFails ==
    /\ pc = "position" /\ ~stopped
    /\ Over("failed", IF frame THEN "position" ELSE "frame")
    /\ UNCHANGED <<waiting, tracker, sweep, calls, steady>> /\ Still

Sleep(duration) == pc' = "sleep" /\ wake' = now + duration

\* A sweep over the candidates begins. Without its frame an action fails at once,
\* a condition is only not met.
Sweeps ==
    /\ pc = "sweep" /\ ~stopped
    /\ c' = 1 /\ unseen' = {} /\ evaluated' = FALSE
    /\ IF job = "text" THEN stage' = "fingerprint" /\ seen' = {i \in Candidate : look[i] # "none"}
       ELSE stage' = "count" /\ seen' = {}
    /\ steady' = Candidate \cup {0}
    /\ CASE frame -> pc' = "look" /\ UNCHANGED <<waiting, end>>
         [] ~frame /\ job \notin {"visible", "hidden"} ->
              Over("failed", "frame") /\ UNCHANGED waiting
         [] ~frame /\ job \in {"visible", "hidden"} ->
              /\ Sleep(1) /\ since' = -1 /\ unmetAt' = now
              /\ UNCHANGED <<deadline, end>>
    /\ UNCHANGED <<tracker, calls>> /\ Still

LookingOn == pc = "look" /\ c <= Candidates
Looking == pc = "look" /\ ~stopped /\ c <= Candidates
NextSameStage == c' = c + 1 /\ UNCHANGED <<stage, pc>>
NextCandidate == c' = c + 1 /\ stage' = "count" /\ UNCHANGED pc

\* attemptTargetResolution asks three things about a candidate, one after the other.
Asks ==
    /\ Looking /\ job \in Acting \cup {"assertion"}
    /\ \/ /\ stage = "count" /\ look[c] \in {"hidden", "other", "good"}
          /\ stage' = "visible" /\ UNCHANGED c
       \/ /\ stage = "visible" /\ look[c] \in {"other", "good"}
          /\ stage' = "fingerprint" /\ UNCHANGED c
       \/ /\ stage = "count" /\ look[c] \in {"none", "many"} /\ NextCandidate
       \/ /\ stage = "visible" /\ look[c] \notin {"other", "good"} /\ NextCandidate
       \/ /\ stage = "fingerprint" /\ look[c] # "good" /\ NextCandidate
    /\ UNCHANGED <<pc, waiting, tracker, evaluated, seen, unseen, calls, end, steady>> /\ Still

\* A hidden element may have the recorded fingerprint.
Resolves ==
    /\ Looking /\ job \in Acting \cup {"assertion"}
    /\ stage = "fingerprint" /\ look[c] \in {"good", "hidden"}
    /\ IF job = "assertion"
       THEN (Over("passed", "none") \/ Over("failed", "mismatch")) /\ UNCHANGED calls
       ELSE pc' = "act" /\ calls' = 1 /\ UNCHANGED end
    /\ UNCHANGED <<waiting, tracker, sweep, steady>> /\ Still

\* waitForCondition counts what a candidate finds, and then asks whether any of
\* that is visible.
Counts ==
    /\ Looking /\ job \in {"visible", "hidden"} /\ stage = "count"
    /\ evaluated' = TRUE
    /\ IF look[c] = "none" THEN NextCandidate ELSE stage' = "visible" /\ UNCHANGED <<pc, c>>
    /\ UNCHANGED <<waiting, tracker, seen, unseen, calls, end, steady>> /\ Still

Glances ==
    /\ Looking /\ job \in {"visible", "hidden"} /\ stage = "visible"
    /\ seen' = IF look[c] \in Visible THEN seen \cup {c} ELSE seen
    /\ NextCandidate
    /\ UNCHANGED <<waiting, tracker, evaluated, unseen, calls, end, steady>> /\ Still

\* A count that fails leaves the candidate out; an isVisible that fails counts as
\* hidden.
EvaluationFails ==
    /\ Looking /\ job \notin {"text", "group"}
    /\ unseen' = unseen \cup {c} /\ NextCandidate
    /\ UNCHANGED <<waiting, tracker, evaluated, seen, calls, end, steady>> /\ Still

\* scanFrameTree, over the frames that were there when it began (seen): a frame
\* is read when it is visible, and what it holds is searched only then.
Scans ==
    /\ Looking /\ job = "text"
    /\ CASE c \notin seen -> Over("failed", "text") /\ UNCHANGED <<c, stage>>
         [] c \in seen /\ stage = "count" ->
              IF look[c] \in {"other", "good"} THEN stage' = "fingerprint" /\ UNCHANGED <<pc, c, end>>
              ELSE Over("failed", "text") /\ UNCHANGED <<c, stage>>
         [] c \in seen /\ stage = "fingerprint" ->
              \/ /\ look[c] \in {"good", "hidden"} /\ Over("passed", "none")
                 /\ UNCHANGED <<c, stage>>
              \/ /\ look[c] # "good" /\ NextCandidate /\ UNCHANGED end
    /\ UNCHANGED <<waiting, tracker, evaluated, seen, unseen, calls, steady>> /\ Still

\* A frame that cannot be read is passed over; one whose visibility cannot be
\* told counts as invisible.
ScanFails ==
    /\ Looking /\ job = "text" /\ c \in seen
    /\ unseen' = unseen \cup {c}
    /\ IF stage = "fingerprint" THEN NextCandidate /\ UNCHANGED end
       ELSE Over("failed", "text") /\ UNCHANGED <<c, stage>>
    /\ UNCHANGED <<waiting, tracker, evaluated, seen, calls, steady>> /\ Still

\* evaluateGroupExistsAssertion reads the whole frame at once; "many" are more
\* roots than it looks at.
ReadsGroups ==
    /\ Looking /\ job = "group"
    /\ \/ Over("failed", "action")
       \/ IF \E i \in Candidate : look[i] = "good" THEN Over("passed", "none")
          ELSE Over("failed", "group")
    /\ UNCHANGED <<waiting, tracker, sweep, calls, steady>> /\ Still

\* No candidate was it: an assertion fails, an action tries again until its time is up.
Unresolved ==
    /\ pc = "look" /\ ~stopped /\ c > Candidates /\ job \notin {"visible", "hidden"}
    /\ IF job \in Asserting
       THEN Over("failed", IF job = "text" THEN "text" ELSE "target") /\ UNCHANGED waiting
       ELSE /\ Sleep(IF deadline - now < Retry THEN deadline - now ELSE Retry)
            /\ UNCHANGED <<deadline, since, unmetAt, end>>
    /\ UNCHANGED <<tracker, sweep, calls, steady>> /\ Still

\* satisfied: no candidate could be counted means that nothing is known.
Satisfied ==
    /\ evaluated
    /\ IF job = "visible" THEN seen # {} ELSE seen = {}

\* History: what the page was throughout the sweep, for those who could look.
Unmet ==
    IF job = "visible"
    THEN \A i \in Candidate : i \in steady /\ look[i] \notin Visible
    ELSE \/ \E i \in Candidate : i \in steady \ unseen /\ look[i] \in Visible
         \/ ~evaluated

SinceKept == IF since = -1 /\ Satisfied THEN now ELSE since
Since == IF ~Satisfied THEN -1 ELSE IF since = -1 THEN now ELSE since

Judges ==
    /\ pc = "look" /\ ~stopped /\ c > Candidates /\ job \in {"visible", "hidden"}
    /\ unmetAt' = IF Unmet THEN now ELSE unmetAt
    /\ since' = Since
    /\ IF since' # -1 /\ now - since' >= Stable
       THEN Over("passed", "none") /\ UNCHANGED wake
       ELSE Sleep(1) /\ UNCHANGED end
    /\ UNCHANGED <<deadline, tracker, sweep, calls, steady>> /\ Still

TimeLeft == now < deadline
Wakes ==
    /\ pc = "sleep" /\ now = wake /\ ~stopped
    /\ CASE job = "settle" -> pc' = "poll" /\ UNCHANGED end
         [] job # "settle" /\ TimeLeft -> pc' = "sweep" /\ UNCHANGED end
         [] job # "settle" /\ ~TimeLeft ->
              Over("failed", IF job \in {"visible", "hidden"} THEN "condition" ELSE "target")
    /\ UNCHANGED <<waiting, tracker, sweep, calls, steady>> /\ Still

-----------------------------------------------------------------------------
(* The action: its calls follow each other without a look at the signal *)

CallDone ==
    /\ pc = "act"
    /\ IF job = "combobox" /\ calls < Calls(job)
       THEN calls' = calls + 1 /\ UNCHANGED <<pc, end>>
       ELSE Over("passed", "none") /\ UNCHANGED calls
    /\ UNCHANGED <<waiting, tracker, sweep, steady>> /\ Still

CallFails ==
    /\ pc = "act"
    /\ IF job = "select" /\ calls = 1
       THEN calls' = 2 /\ UNCHANGED <<pc, end>>
       ELSE Over("failed", "action") /\ UNCHANGED calls
    /\ UNCHANGED <<waiting, tracker, sweep, steady>> /\ Still

-----------------------------------------------------------------------------
(* waitForAutomaticSettle *)

\* domcontentloaded, or its time is up; then the observer is installed or, on a
\* page that cannot be evaluated, given up.
Loaded ==
    /\ pc = "load" /\ ~stopped
    /\ domTracked' \in BOOLEAN
    /\ observed' = (observed \/ domTracked')
    /\ lastMutation' = IF domTracked' THEN now ELSE lastMutation
    /\ lastNetwork' = now
    /\ pc' = "poll"
    /\ UNCHANGED <<job, now, waiting, look, frame, requests, active, domQuiet, calm, sweep,
                   calls, stopped, end, steady, busy, changes>>

NetworkQuiet == ~active /\ now - lastNetwork >= Quiet

\* The document is asked first; the page goes on while the answer is awaited.
AsksDocument ==
    /\ pc = "poll" /\ ~stopped
    /\ IF TimeLeft
       THEN /\ \E fails \in BOOLEAN : domTracked' = (domTracked /\ ~fails)
            /\ domQuiet' = (~domTracked' \/ (observed /\ now - lastMutation >= Quiet))
            /\ calm' = now - busyAt
            /\ pc' = "asked" /\ UNCHANGED end
       ELSE Over("passed", "none") /\ UNCHANGED <<domTracked, domQuiet, calm>>
    /\ UNCHANGED <<waiting, active, lastNetwork, sweep, calls, steady>> /\ Still

Polls ==
    /\ pc = "asked" /\ ~stopped
    /\ IF domQuiet /\ NetworkQuiet
       THEN Over("passed", "none") /\ UNCHANGED wake
       ELSE Sleep(1) /\ UNCHANGED end
    /\ UNCHANGED <<deadline, since, unmetAt, tracker, sweep, calls, steady>> /\ Still

-----------------------------------------------------------------------------
Page == ElementChanges \/ FrameChanges \/ Mutates \/ Navigates \/ RequestBegins \/ RequestEnds

Phase == \/ Abandons \/ Positioned \/ PositionFails \/ Sweeps \/ Asks \/ Resolves \/ Counts \/ Glances
         \/ Scans \/ ScanFails \/ ReadsGroups \/ EvaluationFails \/ Unresolved \/ Judges \/ Wakes
         \/ CallDone \/ CallFails \/ Loaded \/ AsksDocument \/ Polls

Next == Page \/ Tick \/ Stop \/ Phase

Spec == Init /\ [][Next]_vars

-----------------------------------------------------------------------------
(* Properties *)

Held(i) == i \in steady \ unseen /\ look[i] = "good"
Open(i) == i \in steady \ unseen /\ look[i] \in {"other", "good"}

\* The element acted on is the first of the candidates that fits, as far as the
\* page held still while they were looked at (attemptTargetResolution).
TargetIsBest ==
    \/ calls = 1 /\ pc = "act" /\ job # "navigate"
    \/ job = "assertion" /\ result = "passed"
    =>
      /\ c \in steady => look[c] = "good"
      /\ \A i \in 1 .. c - 1 : ~Held(i)

\* What the failure panel and the headless runner blame for a failed step was so
\* throughout the last look at the page: a frame is called missing, a target
\* unresolved or a text absent only then, and never when the action itself
\* failed (diagnosticFor, automationErrorFromReplay).
BlamedRightly ==
    LET e == Error(job, why)
        told == {Diagnostic(e), Reported(e)} IN
    result = "failed" =>
        /\ "frame" \in told /\ 0 \in steady => ~frame
        /\ "target" \in told => \A i \in Candidate : ~Held(i)
        /\ "group" \in told => \A i \in Candidate : ~Held(i)
        /\ "text" \in told => \A i \in {k \in seen : Held(k)} : \E j \in 1 .. i - 1 : ~Open(j)
        /\ calls > 0 => told = {"acting"}
        /\ "acting" \in {Diagnostic(e)} => calls > 0 \/ why = "position"

\* A condition that is reported to hold was last seen not to hold at least
\* Stable ago, candidates of which a question failed left aside. A page reported
\* to have settled before the time was up has had no request for Quiet, and its
\* document had done nothing for that long when it was last asked, unless it
\* could not be observed (waitForCondition, waitForAutomaticSettle).
WaitIsTrue ==
    /\ job \in {"visible", "hidden"} /\ result = "passed" => now - unmetAt >= Stable
    /\ job = "settle" /\ result = "passed" /\ now < deadline =>
         ~requests /\ now - requestedAt >= Quiet /\ (domTracked => calm >= Quiet)

\* An action that had not begun when the run was stopped is never begun.
NotBegunAfterStop == [][stopped /\ calls = 0 => calls' = 0]_vars

=============================================================================
