---------------------------- MODULE AutomationsPage ----------------------------
(***************************************************************************)
(* The Automations page of a local workspace (useBackgroundBatch) and the  *)
(* recorder server's routes below it, composed with the automation service *)
(* the routes reach through Relay: the runnable workflows of a folder are  *)
(* submitted as one batch, polled until every run has ended and then       *)
(* announced. Each request may be refused, lost or given up after ten      *)
(* seconds, and a submission that was given up may still arrive.           *)
(*                                                                         *)
(* A workspace of Relay keeps its batches in the database instead (module  *)
(* DurableRuns); the page then also merges a history this module leaves    *)
(* out.                                                                    *)
(***************************************************************************)
EXTENDS AutomationService

CONSTANTS
    FolderSize,     \* how many runnable workflows the page's folders hold
    OtherSize       \* the sizes of other callers' batches

ASSUME SizeAssumption == FolderSize \subseteq Nat \ {0} /\ OtherSize \subseteq 1 .. MaxSize

VARIABLES
    page,       \* the state of useBackgroundBatch, with its started ref
    call,       \* its request, or the answer on its way back
    late,       \* the size of a submission given up on and still travelling
    mine,       \* the batches this page's submissions made
    listening   \* the service's socket is open

pageVars == <<page, call, late, mine, listening>>
allVars == <<vars, pageVars>>

-----------------------------------------------------------------------------
NoBatch == "no batch"
NoCall == [kind |-> "none"]
Failed == [kind |-> "failed"]

\* What a snapshot says of a run, as far as the page's own decisions go: a
\* queued run and a running one are the same to it (RelayPollResponse).
Said(status) == IF status \in Terminal THEN status ELSE "under way"

Call ==
    {NoCall, Failed}
    \cup [kind : {"create"}, size : FolderSize]
    \cup [kind : {"accepted"}, batch : Batch]
    \cup [kind : {"get"}, batch : Batch]
    \cup UNION {[kind : {"snapshot"}, runs : [1 .. n -> Terminal \cup {"under way"}]] : n \in 1 .. MaxSize}

PageTypeOK ==
    /\ TypeOK
    /\ page \in [status : {"idle", "creating", "polling", "finished", "error"},
                 batch : Batch \cup {NoBatch}, succeeded : BOOLEAN, started : BOOLEAN]
    /\ call \in Call
    /\ late \in {0} \cup FolderSize
    /\ mine \subseteq Batch
    /\ listening \in BOOLEAN

PageInit ==
    /\ Init
    /\ page = [status |-> "idle", batch |-> NoBatch, succeeded |-> FALSE, started |-> FALSE]
    /\ call = NoCall
    /\ late = 0
    /\ mine = {}
    /\ listening = TRUE

-----------------------------------------------------------------------------
(* The page *)

\* "Run folder" is disabled while the page is active, which an error keeps it.
CanStart == page.status \in {"idle", "finished"}

\* start
Start(n) ==
    /\ CanStart /\ ~page.started
    /\ page' = [status |-> "creating", batch |-> NoBatch, succeeded |-> FALSE, started |-> TRUE]
    /\ call' = [kind |-> "create", size |-> n]
    /\ UNCHANGED <<vars, late, mine, listening>>

Accepted ==
    /\ call.kind = "accepted"
    /\ page' = [page EXCEPT !.status = "polling", !.batch = call.batch]
    /\ call' = NoCall
    /\ UNCHANGED <<vars, late, mine, listening>>

\* poll: at once, then a second after each answer that was not the last.
Poll ==
    /\ page.status = "polling" /\ call = NoCall
    /\ call' = [kind |-> "get", batch |-> page.batch]
    /\ UNCHANGED <<vars, page, late, mine, listening>>

\* A snapshot arrives: the batch is over when every run in it has ended.
OverAtFirstEnd(runs) == \E i \in DOMAIN runs : runs[i] \in Terminal
OverWhenCompleted(runs) == \A i \in DOMAIN runs : runs[i] = "completed"
Over(runs) == \A i \in DOMAIN runs : runs[i] \in Terminal
Show ==
    /\ call.kind = "snapshot"
    /\ page' = IF Over(call.runs)
               THEN [page EXCEPT !.status = "finished", !.started = FALSE,
                        !.succeeded = \A i \in DOMAIN call.runs : call.runs[i] = "completed"]
               ELSE page
    /\ call' = NoCall
    /\ UNCHANGED <<vars, late, mine, listening>>

\* Any failure ends the polling; started stays set, so that the page of a batch
\* whose fate is unknown submits no other.
ShowErrorAndAllowRetry ==
    /\ call = Failed
    /\ page' = [page EXCEPT !.status = "idle", !.started = FALSE]
    /\ call' = NoCall
    /\ UNCHANGED <<vars, late, mine, listening>>
ShowError ==
    /\ call = Failed
    /\ page' = [page EXCEPT !.status = "error"]
    /\ call' = NoCall
    /\ UNCHANGED <<vars, late, mine, listening>>

-----------------------------------------------------------------------------
(* handleAutomationBatchApi, Relay's passthrough and the service behind them *)

\* createBatch gives a submission without an id one that nobody had.
Fresh == {b \in Batch : item[<<b, 1>>].status = "none"}

\* POST /api/run-batches, when the workflows are all runnable and no more than
\* a batch holds.
Submit ==
    /\ call.kind = "create" /\ call.size <= MaxSize /\ listening
    /\ \E b \in Fresh :
         /\ CreateBatch(b, call.size)
         /\ call' = [kind |-> "accepted", batch |-> b]
         /\ mine' = mine \cup {b}
    /\ UNCHANGED <<page, late, listening>>

\* GET /api/run-batches/:batchId: what getBatch holds, after its cleanup.
Answer ==
    /\ call.kind = "get" /\ listening
    /\ record' = Cleaned
    /\ call' = IF call.batch \in Held \ Expired
               THEN [kind |-> "snapshot",
                     runs |-> [i \in 1 .. record[call.batch].size |-> Said(item[<<call.batch, i>>].status)]]
               ELSE Failed
    /\ UNCHANGED <<item, queue, active, phase, aborted, stopping, page, late, mine, listening>>

\* A request is refused: a workflow that is not runnable, more than a batch
\* holds, no room, shutting down, or nothing there to answer.
Refuse ==
    /\ call.kind \in {"create", "get"}
    /\ call' = Failed
    /\ UNCHANGED <<vars, page, late, mine, listening>>

\* The router gives up on Relay after ten seconds; a submission may be on its
\* way, or have been taken, all the same.
GiveUp ==
    /\ call.kind \in {"create", "get"}
    /\ call' = Failed
    /\ late' \in IF call.kind = "create" THEN {late, call.size} ELSE {late}
    /\ UNCHANGED <<vars, page, mine, listening>>

\* The answer never reaches the page, or is not one it understands.
Lost ==
    /\ call.kind \in {"accepted", "snapshot"}
    /\ call' = Failed
    /\ UNCHANGED <<vars, page, late, mine, listening>>

\* The submission given up on arrives after all.
SubmitLate ==
    /\ late \in 1 .. MaxSize /\ listening
    /\ \E b \in Fresh : CreateBatch(b, late) /\ mine' = mine \cup {b}
    /\ late' = 0
    /\ UNCHANGED <<page, call, listening>>

\* Another caller's batch.
SubmitOther(n) ==
    /\ listening
    /\ \E b \in Fresh : CreateBatch(b, n)
    /\ UNCHANGED pageVars

\* shutdown ends with app.close, when the runs have ended or the grace is over,
\* and the process with it: what is still under way then goes no further.
Close ==
    /\ stopping /\ listening
    /\ listening' = FALSE
    /\ UNCHANGED <<vars, page, call, late, mine>>

-----------------------------------------------------------------------------
Returns == Accepted \/ Show \/ ShowError

PageNext ==
    \/ \E n \in FolderSize : Start(n)
    \/ Poll \/ Returns
    \/ Submit \/ Answer \/ Refuse \/ GiveUp \/ Lost \/ SubmitLate
    \/ \E n \in OtherSize : SubmitOther(n)
    \/ Close
    \/ /\ listening
       /\ \/ Cleanup
          \/ \E d \in Direct : Admit(d) \/ Disconnect(d)
          \/ \E k \in Work : Worker(k)
          \/ Shutdown
          \/ Tick
       /\ UNCHANGED pageVars

PageSpec == PageInit /\ [][PageNext]_allVars

\* Timers fire, the ten seconds end every request, the run timeout every worker
\* and the grace every shutdown.
FairPage ==
    /\ PageSpec
    /\ WF_allVars(Poll) /\ WF_allVars(Returns) /\ WF_allVars(Submit \/ Answer \/ Refuse \/ GiveUp)
    /\ WF_allVars(Close)
    /\ \A k \in Work : WF_allVars(listening /\ Settle(k) /\ UNCHANGED pageVars)

-----------------------------------------------------------------------------
(* Properties *)

\* The page is finished, and announces success, only when all runs of its batch
\* ended, and all completed, although it only ever saw snapshots that were
\* taken earlier (poll, getBatch).
VerdictIsTrue ==
    page.status = "finished" =>
        LET runs == {r \in Item : r[1] = page.batch /\ item[r].status # "none"} IN
        /\ runs # {}
        /\ \A r \in runs : item[r].status \in Terminal
        /\ page.succeeded <=> \A r \in runs : item[r].status = "completed"

\* A page has one batch under way at a time, those it was never told of
\* included, so that a workflow never runs beside itself (started).
OneBatchAtATime ==
    \A b, c \in mine : b # c =>
        \E x \in {b, c} : \A r \in RunsOf(x) : item[r].status \in Terminal

\* The page does not poll for ever: its batch ends, is forgotten or cannot be
\* asked about.
PollingEnds == page.status \in {"creating", "polling"} ~> page.status \in {"finished", "error"}

\* Nothing waits for ever, neither the page nor a queued run, of whatever caller,
\* beside direct callers that come back for every slot (drain, poll).
NothingWaitsForEver == PollingEnds /\ QueuedRunsEnd

=============================================================================
