----------------------------- MODULE DurableRuns -----------------------------
(***************************************************************************)
(* Relay's durable workflow runs (apps/relay-api): the rows PostgreSQL     *)
(* keeps about batches and runs, the request handler that records a batch  *)
(* and submits it once to the private automation service, the lease-based  *)
(* trackers that poll that service and copy what it reports, and as much   *)
(* of the service and of the network as those two can observe.             *)
(*                                                                         *)
(* Time is kept as countdowns: nextPoll is next_poll_at - now and lease is *)
(* lease_expires_at - now, both cut off at zero, so that time never runs   *)
(* out of a bound.                                                         *)
(***************************************************************************)
EXTENDS Integers, FiniteSets

CONSTANTS
    Batch,          \* the batches clients create
    Workflow,       \* the workflows of a namespace
    Owner,          \* tracker identities: one uuid4 per Relay process start
    NoBatch,        \* an idle tracker's batch
    NoOwner,        \* SQL NULL in lease_owner
    MaxStep,        \* bound: steps of every workflow
    SubmitGrace,    \* next_poll_at of a new batch: 30 s in the code
    LeaseTime,      \* lease_seconds: 30 s
    PollDelay,      \* delay_seconds: 1 s
    SubmitTimeout,  \* how long a submission may take before it is given up
    Garbled,        \* whether the service may answer what Relay cannot use
    Prompt          \* whether a live tracker always ends a poll in its lease

ASSUME ConstantsAssumption ==
    /\ MaxStep \in Nat
    /\ SubmitGrace \in Nat /\ LeaseTime \in Nat \ {0}
    /\ PollDelay \in Nat /\ SubmitTimeout \in Nat
    /\ NoOwner \notin Owner /\ NoBatch \notin Batch
    /\ Garbled \in BOOLEAN /\ Prompt \in BOOLEAN

VARIABLES
    batch,      \* workflow_run_batches
    run,        \* workflow_runs: one row per batch and workflow
    stored,     \* screenshots in the object store
    post,       \* the create-batch handlers and their POST to the service
    tracker,    \* the run trackers
    svc         \* the automation service's batch coordinator

vars == <<batch, run, stored, post, tracker, svc>>

-----------------------------------------------------------------------------
(* Rows, requests, polls *)

Terminal == {"completed", "failed"}
RunStatus == {"queued", "running"} \cup Terminal
SubmissionCode == {"submission_unknown", "submission_failed"}
FailureCode == {"none", "runner", "execution_lost"} \cup SubmissionCode
ShotStatus == {"pending", "available", "unavailable"}
Progress == 0 .. MaxStep
Longest(m, n) == IF m >= n THEN m ELSE n

BatchRow == [status : RunStatus \cup {"none"},
             nextPoll : 0 .. Longest(SubmitGrace, PollDelay),
             owner : Owner \cup {NoOwner},
             lease : 0 .. LeaseTime]

RunRow == [status : RunStatus \cup {"none"}, step : Progress, total : Progress,
           code : FailureCode, shot : ShotStatus]

NoBatchRow == [status |-> "none", nextPoll |-> 0, owner |-> NoOwner, lease |-> 0]
NoRunRow == [status |-> "none", step |-> 0, total |-> 0,
             code |-> "none", shot |-> "pending"]

\* What the service reports of a run; "lost" is what a restart made of it.
SvcRow == [status : RunStatus \cup {"none", "lost"}, step : Progress,
           total : Progress, thumb : {"none", "live", "expired"}]
NoSvcRow == [status |-> "none", step |-> 0, total |-> 0, thumb |-> "none"]
NoSnapshot == [w \in Workflow |-> NoSvcRow]

CallerState == {"none", "prepared", "posting", "accepted", "rejected",
                "unknown", "returned_202", "returned_503", "crashed"}
WireState == {"none", "sent", "accepted", "refused", "dropped"}
\* unsure is history: the service took the batch late, or Relay could not use
\* what it said of it.
Post == [caller : CallerState, wire : WireState, patience : 0 .. SubmitTimeout,
         unsure : BOOLEAN]
NoPost == [caller |-> "none", wire |-> "none", patience |-> 0, unsure |-> FALSE]

TrackerState == {"idle", "polling", "lost", "release", "snapshot", "apply", "dead"}
Tracker == [pc : TrackerState, batch : Batch \cup {NoBatch},
            snap : [Workflow -> SvcRow], got : SUBSET Workflow, retry : BOOLEAN]
IdleTracker == [pc |-> "idle", batch |-> NoBatch, snap |-> NoSnapshot,
                got |-> {}, retry |-> FALSE]

TypeOK ==
    /\ batch \in [Batch -> BatchRow]
    /\ run \in [Batch -> [Workflow -> RunRow]]
    /\ stored \in SUBSET (Batch \X Workflow)
    /\ post \in [Batch -> Post]
    /\ tracker \in [Owner -> Tracker]
    /\ svc \in [Batch -> [held : BOOLEAN, runs : [Workflow -> SvcRow]]]

Init ==
    /\ batch = [b \in Batch |-> NoBatchRow]
    /\ run = [b \in Batch |-> [w \in Workflow |-> NoRunRow]]
    /\ stored = {}
    /\ post = [b \in Batch |-> NoPost]
    /\ tracker = [o \in Owner |-> IdleTracker]
    /\ svc = [b \in Batch |-> [held |-> FALSE, runs |-> NoSnapshot]]

Members(b) == {w \in Workflow : run[b][w].status # "none"}

-----------------------------------------------------------------------------
(* RunRepository: the SQL statements *)

\* The slips a mutant swaps in stand before the definition they would replace.

\* lock_batch_for_update with an owner: its lease must still be running.
HoldsLease(o, b) == batch[b].owner = o /\ batch[b].lease > 0

\* lock_batch_for_update without an owner: no tracker has touched the batch.
UntouchedIgnoringOwner(b) == batch[b].status = "queued"
Untouched(b) == batch[b].owner = NoOwner /\ batch[b].status = "queued"

\* claim_due_batch: an unfinished batch that is due and whose lease ran out.
DueIfUnowned(b) == /\ batch[b].status \in {"queued", "running"}
                   /\ batch[b].nextPoll = 0
                   /\ batch[b].owner = NoOwner
Due(b) == /\ batch[b].status \in {"queued", "running"}
          /\ batch[b].nextPoll = 0
          /\ batch[b].lease = 0

\* apply_runner_snapshot on one row r for the reported run s.
SummedRow(r, s) ==
    IF r.status \in Terminal \/ (r.status # "queued" /\ s.status = "queued")
    THEN r
    ELSE [r EXCEPT !.status = s.status, !.step = @ + s.step, !.total = Longest(@, s.total),
                   !.code = IF s.status = "failed" THEN "runner" ELSE @]
AppliedRow(r, s) ==
    LET current == IF s.step > s.total THEN s.total ELSE s.step IN
    IF r.status \in Terminal \/ (r.status # "queued" /\ s.status = "queued")
    THEN r
    ELSE [r EXCEPT !.status = s.status,
                   !.step = Longest(@, current),
                   !.total = Longest(@, s.total),
                   !.code = IF s.status = "failed" THEN "runner" ELSE @]

\* mark_screenshot_available and mark_screenshot_unavailable.
MarkAvailable(r) == [r EXCEPT !.shot = "available"]
MarkUnavailable(r) == IF r.shot = "pending" THEN [r EXCEPT !.shot = "unavailable"] ELSE r

\* fail_batch on one row.
FailedRowAlways(r, code) ==
    IF r.status = "none" THEN r
    ELSE [r EXCEPT !.status = "failed", !.code = code, !.shot = "unavailable"]
FailedRow(r, code) ==
    IF r.status \in {"queued", "running"}
    THEN [r EXCEPT !.status = "failed", !.code = code, !.shot = "unavailable"]
    ELSE r

\* fail_batch: the batch becomes failed whatever its runs had become.
FailBatchRows(b, code) ==
    /\ run' = [run EXCEPT ![b] = [w \in Workflow |-> FailedRow(run[b][w], code)]]
    /\ batch' = [batch EXCEPT ![b] = [@ EXCEPT !.status = "failed",
                                               !.owner = NoOwner, !.lease = 0]]

\* release_batch: hand the batch back for a later poll.
Released(row) == [row EXCEPT !.status = IF @ = "queued" THEN "running" ELSE @,
                             !.nextPoll = PollDelay, !.owner = NoOwner, !.lease = 0]

\* finalize_batch_if_ready: the verdict over the rows of the batch.
ReadyIfAny(rows) == \E w \in Workflow : rows[w].status \in Terminal /\ rows[w].shot # "pending"
Ready(rows) == \A w \in Workflow : rows[w].status # "none" =>
                    rows[w].status \in Terminal /\ rows[w].shot # "pending"
AllCompleted(rows) == \A w \in Workflow : rows[w].status \in {"none", "completed"}
Finalized(row, rows) ==
    [row EXCEPT !.status = IF AllCompleted(rows) THEN "completed" ELSE "failed",
                !.owner = NoOwner, !.lease = 0]

-----------------------------------------------------------------------------
(* create_durable_run_batch: record the batch, submit it once, settle it *)

\* create_batch: the first poll is put off to give the submission time.
NewBatchDueNow == [NoBatchRow EXCEPT !.status = "queued"]
NewBatch == [NoBatchRow EXCEPT !.status = "queued", !.nextPoll = SubmitGrace]

PrepareBatch(b) ==
    /\ batch[b].status = "none"
    /\ \E ws \in SUBSET Workflow \ {{}} :
         run' = [run EXCEPT ![b] =
                   [w \in Workflow |-> IF w \in ws THEN [NoRunRow EXCEPT !.status = "queued"]
                                                   ELSE NoRunRow]]
    /\ batch' = [batch EXCEPT ![b] = NewBatch]
    /\ post' = [post EXCEPT ![b] = [NoPost EXCEPT !.caller = "prepared",
                                                  !.patience = SubmitTimeout]]
    /\ UNCHANGED <<stored, tracker, svc>>

SendPost(b) ==
    /\ post[b].caller = "prepared"
    /\ post' = [post EXCEPT ![b] = [@ EXCEPT !.caller = "posting", !.wire = "sent"]]
    /\ UNCHANGED <<batch, run, stored, tracker, svc>>

\* A reply was read: 202 with the batch's own id and size, or anything else.
ReadReply(b) ==
    /\ post[b].caller = "posting"
    /\ \/ /\ post[b].wire = "accepted"
          /\ post' = [post EXCEPT ![b] = [@ EXCEPT !.caller = "accepted"]]
       \/ /\ post[b].wire = "refused" \/ (Garbled /\ post[b].wire = "accepted")
          /\ post' = [post EXCEPT ![b].caller = "rejected",
                                   ![b].unsure = @ \/ post[b].wire = "accepted"]
    /\ UNCHANGED <<batch, run, stored, tracker, svc>>

\* httpx RequestError: connection lost or timed out; the service may have
\* taken the batch, or may still take it.
RequestError(b) ==
    /\ post[b].caller = "posting"
    /\ post' = [post EXCEPT ![b] = [@ EXCEPT !.caller = "unknown"]]
    /\ UNCHANGED <<batch, run, stored, tracker, svc>>

\* mark_submitted makes an untouched batch due at once; then 202.
MarkSubmitted(b) ==
    /\ post[b].caller = "accepted"
    /\ batch' = IF batch[b].status = "queued"
                THEN [batch EXCEPT ![b] = [@ EXCEPT !.nextPoll = 0]]
                ELSE batch
    /\ post' = [post EXCEPT ![b] = [@ EXCEPT !.caller = "returned_202"]]
    /\ UNCHANGED <<run, stored, tracker, svc>>

\* RunService.fail_batch without an owner; then 503.
FailSubmission(b) ==
    /\ post[b].caller \in {"unknown", "rejected"}
    /\ IF Untouched(b)
       THEN FailBatchRows(b, IF post[b].caller = "unknown" THEN "submission_unknown"
                                                           ELSE "submission_failed")
       ELSE UNCHANGED <<batch, run>>
    /\ post' = [post EXCEPT ![b] = [@ EXCEPT !.caller = "returned_503"]]
    /\ UNCHANGED <<stored, tracker, svc>>

\* The Relay process dies, or the database refuses the handler's next step.
CallerCrash(b) ==
    /\ post[b].caller \in {"prepared", "posting", "accepted", "rejected", "unknown"}
    /\ post' = [post EXCEPT ![b] = [@ EXCEPT !.caller = "crashed"]]
    /\ UNCHANGED <<batch, run, stored, tracker, svc>>

-----------------------------------------------------------------------------
(* RunTracker.poll_once *)

ToIdle(o) == tracker' = [tracker EXCEPT ![o] = IdleTracker]
Goto(o, pc) == tracker' = [tracker EXCEPT ![o] = [@ EXCEPT !.pc = pc]]

Claim(o, b) ==
    /\ tracker[o].pc = "idle"
    /\ Due(b)
    /\ batch' = [batch EXCEPT ![b] = [@ EXCEPT !.owner = o, !.lease = LeaseTime]]
    /\ tracker' = [tracker EXCEPT ![o] = [IdleTracker EXCEPT !.pc = "polling", !.batch = b]]
    /\ UNCHANGED <<run, stored, post, svc>>

\* 200 with a usable snapshot: what the service knows at this moment.
ReadSnapshot(o) ==
    /\ tracker[o].pc = "polling"
    /\ svc[tracker[o].batch].held
    /\ tracker' = [tracker EXCEPT ![o] = [@ EXCEPT !.pc = "snapshot",
                                                   !.snap = svc[tracker[o].batch].runs]]
    /\ UNCHANGED <<batch, run, stored, post, svc>>

\* 404, or an answer that is too large, malformed or about other work.
ReadMissing(o) ==
    /\ tracker[o].pc = "polling"
    /\ Goto(o, "lost")
    /\ \/ ~svc[tracker[o].batch].held /\ UNCHANGED post
       \/ Garbled /\ post' = [post EXCEPT ![tracker[o].batch] = [@ EXCEPT !.unsure = TRUE]]
    /\ UNCHANGED <<batch, run, stored, svc>>

\* A request error or any other status: the service cannot be asked now.
ReadError(o) ==
    /\ tracker[o].pc = "polling"
    /\ Goto(o, "release")
    /\ UNCHANGED <<batch, run, stored, post, svc>>

ReportedShots(snap) == {w \in Workflow : snap[w].status \in Terminal /\ snap[w].thumb # "none"}

\* The thumbnails are read one by one; any of them may fail, and a capability
\* that the snapshot shows unexpired then asks for another poll of the batch.
FetchScreenshots(o) ==
    LET b == tracker[o].batch
        wanted == ReportedShots(tracker[o].snap)
        readable == {w \in wanted : svc[b].runs[w].thumb = "live"}
    IN /\ tracker[o].pc = "snapshot"
       /\ \E got \in SUBSET readable :
            tracker' = [tracker EXCEPT ![o] =
                [@ EXCEPT !.pc = "apply", !.got = got,
                          !.retry = \E w \in wanted \ got : tracker[o].snap[w].thumb = "live"]]
       /\ UNCHANGED <<batch, run, stored, post, svc>>

\* The row of workflow w after apply_snapshot's loop body.
SnapshotRowUnstored(t, w, put) ==
    LET r == run[t.batch][w]
        applied == AppliedRow(r, t.snap[w])
    IN IF r.status = "none" THEN r
       ELSE IF w \in t.got THEN MarkAvailable(applied)
       ELSE IF t.snap[w].status \in Terminal THEN MarkUnavailable(applied) ELSE applied
SnapshotRow(t, w, put) ==
    LET r == run[t.batch][w]
        s == t.snap[w]
        applied == AppliedRow(r, s)
    IN IF r.status = "none" THEN r
       ELSE IF s.status \notin Terminal THEN applied
       ELSE IF w \in t.got /\ w \in put THEN MarkAvailable(applied)
       ELSE IF w \in t.got \/ s.thumb = "none" \/ ~t.retry THEN MarkUnavailable(applied)
       ELSE applied

\* RunService.apply_snapshot, committed: rows, evidence, then finalize or release.
ApplySnapshot(o) ==
    LET t == tracker[o]
        b == t.batch
    IN /\ t.pc = "apply"
       /\ HoldsLease(o, b)
       /\ \E put \in SUBSET t.got :
            LET rows == [w \in Workflow |-> SnapshotRow(t, w, put)] IN
            /\ stored' = stored \cup {<<b, w>> : w \in put}
            /\ run' = [run EXCEPT ![b] = rows]
            /\ batch' = [batch EXCEPT ![b] = IF Ready(rows) THEN Finalized(@, rows)
                                                            ELSE Released(@)]
       /\ ToIdle(o)
       /\ UNCHANGED <<post, svc>>

\* RunService.fail_batch with the tracker's lease.
FailLost(o) ==
    /\ tracker[o].pc = "lost"
    /\ HoldsLease(o, tracker[o].batch)
    /\ FailBatchRows(tracker[o].batch, "execution_lost")
    /\ ToIdle(o)
    /\ UNCHANGED <<stored, post, svc>>

\* _release_without_snapshot.
ReleaseUnseen(o) ==
    /\ tracker[o].pc = "release"
    /\ HoldsLease(o, tracker[o].batch)
    /\ batch' = [batch EXCEPT ![tracker[o].batch] = Released(@)]
    /\ ToIdle(o)
    /\ UNCHANGED <<run, stored, post, svc>>

\* The lease ran out while the tracker was busy: its result changes nothing.
DiscardStale(o) ==
    /\ tracker[o].pc \in {"lost", "release", "apply"}
    /\ ~HoldsLease(o, tracker[o].batch)
    /\ ToIdle(o)
    /\ UNCHANGED <<batch, run, stored, post, svc>>

\* An exception ends the iteration: the transaction is rolled back and the lease
\* stays; objects already put in the store stay too.
IterationFails(o) ==
    /\ tracker[o].pc \notin {"idle", "dead"}
    /\ \E put \in SUBSET (IF tracker[o].pc = "apply" /\ HoldsLease(o, tracker[o].batch)
                          THEN tracker[o].got ELSE {}) :
         stored' = stored \cup {<<tracker[o].batch, w>> : w \in put}
    /\ ToIdle(o)
    /\ UNCHANGED <<batch, run, post, svc>>

\* The process stops or dies at any point of a poll; another one outlives it.
TrackerCrash(o) ==
    /\ tracker[o].pc # "dead"
    /\ \E p \in Owner \ {o} : tracker[p].pc # "dead"
    /\ tracker' = [tracker EXCEPT ![o] = [IdleTracker EXCEPT !.pc = "dead"]]
    /\ UNCHANGED <<batch, run, stored, post, svc>>

-----------------------------------------------------------------------------
(* The automation service and the network, as Relay observes them *)

\* The batch was already due when the service got it.
Late(b) == post[b].patience + SubmitGrace <= SubmitTimeout

SvcAccept(b) ==
    /\ post[b].wire = "sent"
    /\ post' = [post EXCEPT ![b].wire = "accepted", ![b].unsure = @ \/ Late(b)]
    /\ svc' = [svc EXCEPT ![b] =
                 [held |-> TRUE,
                  runs |-> [w \in Workflow |-> IF w \in Members(b)
                                               THEN [NoSvcRow EXCEPT !.status = "queued"]
                                               ELSE NoSvcRow]]]
    /\ UNCHANGED <<batch, run, stored, tracker>>

\* Refused (429, 503) by the service, or never delivered.
SvcRefuse(b) ==
    /\ post[b].wire = "sent"
    /\ \E end \in {"refused", "dropped"} :
         post' = [post EXCEPT ![b] = [@ EXCEPT !.wire = end]]
    /\ UNCHANGED <<batch, run, stored, tracker, svc>>

SetSvcRun(b, w, row) ==
    /\ svc' = [svc EXCEPT ![b].runs[w] = row]
    /\ UNCHANGED <<batch, run, stored, post, tracker>>

\* BatchCoordinator.applyEvent: worker.started, run.started, step.completed.
SvcEvent(b, w) ==
    LET r == svc[b].runs[w] IN
    /\ svc[b].held
    /\ \/ r.status = "queued" /\ SetSvcRun(b, w, [r EXCEPT !.status = "running"])
       \/ /\ r.status = "running" /\ r.total # MaxStep
          /\ SetSvcRun(b, w, [r EXCEPT !.total = MaxStep])
       \/ /\ r.status = "running" /\ r.step < r.total
          /\ SetSvcRun(b, w, [r EXCEPT !.step = @ + 1])

\* BatchCoordinator.applyOutcome, with or without a thumbnail.
SvcOutcome(b, w) ==
    LET r == svc[b].runs[w] IN
    /\ svc[b].held
    /\ \E end \in Terminal, thumb \in {"none", "live"} :
         /\ \/ r.status = "running" /\ (end = "completed" => r.step = MaxStep)
            \/ r.status = "queued" /\ end = "failed" /\ thumb = "none"
         /\ SetSvcRun(b, w, [r EXCEPT !.status = end, !.thumb = thumb])

\* An artifact capability outlives its hour.
SvcThumbExpires(b, w) ==
    /\ svc[b].runs[w].thumb = "live"
    /\ SetSvcRun(b, w, [svc[b].runs[w] EXCEPT !.thumb = "expired"])

\* cleanupExpired: a batch leaves memory an hour after its last run ended,
\* which is after the capabilities of its runs.
SvcBatchExpires(b) ==
    /\ svc[b].held
    /\ \A w \in Members(b) : /\ svc[b].runs[w].status \in Terminal
                             /\ svc[b].runs[w].thumb # "live"
    /\ svc' = [svc EXCEPT ![b] = [@ EXCEPT !.held = FALSE]]
    /\ UNCHANGED <<batch, run, stored, post, tracker>>

\* The service restarts: batches, unfinished work and capabilities are gone.
SvcRestart ==
    /\ \E b \in Batch : svc[b].held
    /\ svc' = [b \in Batch |->
                 [held |-> FALSE,
                  runs |-> [w \in Workflow |->
                              [svc[b].runs[w] EXCEPT
                                 !.status = IF @ \in {"queued", "running"} THEN "lost" ELSE @,
                                 !.thumb = IF @ = "live" THEN "expired" ELSE @]]]]
    /\ UNCHANGED <<batch, run, stored, post, tracker>>

-----------------------------------------------------------------------------
(* Time *)

Down(n) == IF n > 0 THEN n - 1 ELSE 0

\* A submission still under way at the end of its patience.
Overdue(b) == /\ post[b].patience = 0
              /\ post[b].caller \in {"prepared", "posting"} \/ post[b].wire = "sent"

\* A tracker that is about to lose the lease it is working under.
LastMoment(o) == /\ tracker[o].pc \notin {"idle", "dead"}
                 /\ HoldsLease(o, tracker[o].batch)
                 /\ batch[tracker[o].batch].lease = 1

Tick ==
    /\ \A b \in Batch : ~Overdue(b)
    /\ Prompt => \A o \in Owner : ~LastMoment(o)
    /\ batch' = [b \in Batch |-> [batch[b] EXCEPT !.nextPoll = Down(@), !.lease = Down(@)]]
    /\ post' = [b \in Batch |-> [post[b] EXCEPT !.patience = Down(@)]]
    /\ UNCHANGED <<run, stored, tracker, svc>>

-----------------------------------------------------------------------------
Submission(b) == \/ SendPost(b) \/ ReadReply(b) \/ RequestError(b)
                 \/ MarkSubmitted(b) \/ FailSubmission(b)

Poll(o) == \/ ReadSnapshot(o) \/ ReadMissing(o) \/ ReadError(o)
           \/ FetchScreenshots(o)
           \/ ApplySnapshot(o) \/ FailLost(o) \/ ReleaseUnseen(o) \/ DiscardStale(o)

Service(b) == \/ SvcAccept(b) \/ SvcRefuse(b) \/ SvcBatchExpires(b)
              \/ \E w \in Workflow : SvcEvent(b, w) \/ SvcOutcome(b, w) \/ SvcThumbExpires(b, w)

Next == \/ \E b \in Batch : PrepareBatch(b) \/ Submission(b) \/ CallerCrash(b) \/ Service(b)
        \/ \E o \in Owner : \/ \E b \in Batch : Claim(o, b)
                            \/ Poll(o) \/ IterationFails(o) \/ TrackerCrash(o)
        \/ SvcRestart
        \/ Tick

Spec == Init /\ [][Next]_vars

(***************************************************************************)
(* Fairness.  A live process keeps taking steps, time passes, the service  *)
(* bounds every run by its run timeout and every capability by its hour,   *)
(* and trouble does not last: from some moment on the service answers and  *)
(* no poll is broken off.  ORDER BY next_poll_at lets the batch that has   *)
(* been due longest go first (a released batch is due later than every     *)
(* batch already due), which makes claiming a given batch strongly fair.   *)
(***************************************************************************)
Trouble == \E o \in Owner : ReadError(o) \/ (IterationFails(o) /\ ~DiscardStale(o))

Fairness ==
    /\ <>[][~Trouble]_vars
    /\ WF_vars(Tick)
    /\ \A b \in Batch :
         /\ WF_vars(Submission(b))
         /\ WF_vars(SvcAccept(b) \/ SvcRefuse(b))
         /\ SF_vars(\E o \in Owner : Claim(o, b))
         /\ \A w \in Workflow : /\ WF_vars(SvcEvent(b, w) \/ SvcOutcome(b, w))
                                /\ WF_vars(SvcThumbExpires(b, w))
    /\ \A o \in Owner : WF_vars(Poll(o))

FairSpec == Spec /\ Fairness

-----------------------------------------------------------------------------
(* Properties *)

Open(b) == batch[b].status \in {"queued", "running"}

\* A batch gets its verdict only after every one of its runs has ended, and is
\* completed only when all of them completed and their evidence is settled
\* (finalize_batch_if_ready and fail_batch, under any interleaving of owners).
VerdictSummarises ==
    \A b \in Batch :
      /\ batch[b].status \in Terminal =>
           \A w \in Members(b) : run[b][w].status \in Terminal
      /\ batch[b].status = "completed" => AllCompleted(run[b]) /\ Ready(run[b])

\* "Capture or transfer failure never changes the automation result" (ADR relay-api
\* 0016): a batch whose runs all completed is not failed, be their screenshots still
\* pending when the service forgets it.  fail_batch does not keep it: runs_evidence.cfg.
EvidenceChangesNoVerdict ==
    \A b \in Batch : batch[b].status = "failed" =>
      \E w \in Members(b) : run[b][w].status = "failed"

\* The result a run is given is the one its execution had: late, repeated and
\* stale answers never turn into a wrong result (apply_runner_snapshot,
\* lock_batch_for_update).
RecordedOutcomeIsReal ==
    \A b \in Batch, w \in Workflow :
      /\ run[b][w].status = "completed" => svc[b].runs[w].status = "completed"
      /\ run[b][w].code = "runner" => svc[b].runs[w].status = "failed"
      /\ run[b][w].step <= svc[b].runs[w].step

\* A run whose failure code says that its work is gone or was never taken, the two
\* definite codes of fail_batch, is not being executed: what Relay read was true
\* when it recorded it, however long it had waited in between. The service taking
\* the batch after its first poll was due and an unusable answer are excepted.
NoFalseLoss ==
    \A b \in Batch, w \in Workflow :
      /\ run[b][w].code \in {"execution_lost", "submission_failed"}
      /\ svc[b].runs[w].status \in {"queued", "running"}
      => post[b].unsure

\* "Missing private work" becomes terminal, and a restart of the service is what
\* loses work (ADR relay-api 0016): a run said to be lost is not executed after
\* all.  Not so for a submission as slow as its time limits allow: runs_lost.cfg.
LostIsNotExecuted ==
    \A b \in Batch, w \in Workflow :
      run[b][w].code = "execution_lost" => svc[b].runs[w].status \notin {"queued", "running"}

\* A screenshot the history offers is in the object store (apply_snapshot puts
\* the object before it commits the row, whatever fails in between).
AvailableIsStored ==
    \A b \in Batch, w \in Workflow :
      run[b][w].shot = "available" => <<b, w>> \in stored

\* While a tracker's lease runs, no other tracker and no submission handler
\* changes the runs or the status of the batch: only a step of that tracker does.
LeaseIsolation ==
    [][\A b \in Batch, o \in Owner :
         HoldsLease(o, b) /\ tracker'[o] = tracker[o] =>
           /\ run'[b] = run[b]
           /\ batch'[b].status = batch[b].status
           /\ batch'[b].lease > 0 => batch'[b].owner = o]_vars

\* The rows readers see keep the promise of RunHistory.
History == INSTANCE RunHistory
    WITH history <- run,
         verdict <- [b \in Batch |-> IF Open(b) THEN "open" ELSE batch[b].status]
HistoryIsKept == History!Spec

\* Every recorded batch gets its verdict: through lost replies, Relay crashes,
\* service restarts, failing transfers and database errors.
EveryBatchSettles == \A b \in Batch : Open(b) ~> ~Open(b)

=============================================================================
