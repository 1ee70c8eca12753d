-------------------------- MODULE AutomationService --------------------------
(***************************************************************************)
(* The private automation service (apps/automation-service-browserbase):   *)
(* one process whose run slots are shared by batch runs, which queue, and  *)
(* by direct and Inngest runs, which are refused when no slot is free; the *)
(* batch records kept for polling until an hour after their last run; and  *)
(* the shutdown of all that. Screenshots and their store are left out.     *)
(*                                                                         *)
(* JavaScript runs to completion: every handler below, with the microtasks *)
(* it sets off, is one step.                                               *)
(***************************************************************************)
EXTENDS Integers, Sequences, FiniteSets

CONSTANTS
    Batch,          \* batch ids callers choose
    Direct,         \* direct (POST /v1/run) and Inngest runs
    MaxSize,        \* bound: runs of a batch (10 in the code)
    MaxConcurrent,  \* config.maxConcurrentRuns
    MaxBatches,     \* defaultMaximumBatches
    Ttl             \* the hour of defaultTerminalTtlMs

ASSUME CapacityAssumption ==
    /\ MaxSize \in Nat \ {0} /\ MaxConcurrent \in Nat \ {0}
    /\ MaxBatches \in Nat \ {0} /\ Ttl \in Nat \ {0}
    /\ Direct \cap (Batch \X (1 .. MaxSize)) = {}

VARIABLES
    record,     \* BatchRecord of every batch id: size 0 when none is held
    item,       \* InternalBatchRun of every batch run
    queue,      \* BatchCoordinator.queue
    active,     \* activeRuns: the runs that hold a slot
    phase,      \* how far the worker of a run has come
    aborted,    \* the runs whose AbortController fired
    stopping    \* shuttingDown, and the coordinator's stopping set with it

vars == <<record, item, queue, active, phase, aborted, stopping>>

-----------------------------------------------------------------------------
Item == Batch \X (1 .. MaxSize)
Work == Item \cup Direct
Terminal == {"completed", "failed"}

NoRecord == [size |-> 0, done |-> FALSE, left |-> 0]
NoItem == [status |-> "none", input |-> FALSE]

TypeOK ==
    /\ record \in [Batch -> [size : 0 .. MaxSize, done : BOOLEAN, left : 0 .. Ttl]]
    /\ item \in [Item -> [status : {"none", "queued", "running"} \cup Terminal,
                          input : BOOLEAN]]
    /\ queue \in Seq(Item)
    /\ active \in SUBSET Work
    /\ phase \in [Work -> {"none", "starting", "executing"}]
    /\ aborted \in SUBSET Work
    /\ stopping \in BOOLEAN

Init ==
    /\ record = [b \in Batch |-> NoRecord]
    /\ item = [r \in Item |-> NoItem]
    /\ queue = <<>>
    /\ active = {}
    /\ phase = [k \in Work |-> "none"]
    /\ aborted = {}
    /\ stopping = FALSE

-----------------------------------------------------------------------------
(* BatchCoordinator *)

\* The slips a mutant swaps in stand before the definition they would replace.

Held == {b \in Batch : record[b].size > 0}
RunsOf(b) == {b} \X (1 .. record[b].size)

\* cleanupExpired: the batches completed a full retention period ago.
Expired == {b \in Held : record[b].done /\ record[b].left = 0}
Cleaned == [b \in Batch |-> IF b \in Expired THEN NoRecord ELSE record[b]]

\* drain: queued runs take free slots from the front, unless shutting down.
StartableOneMore(q, act) ==
    IF stopping THEN 0
    ELSE IF Len(q) < MaxConcurrent + 1 - Cardinality(act) THEN Len(q)
         ELSE MaxConcurrent + 1 - Cardinality(act)
Startable(q, act) ==
    IF stopping THEN 0
    ELSE IF Len(q) < MaxConcurrent - Cardinality(act) THEN Len(q)
         ELSE MaxConcurrent - Cardinality(act)
Front(q, n) == {q[i] : i \in 1 .. n}

Drain(q, act, ph) ==
    LET n == Startable(q, act) IN
    /\ active' = act \cup Front(q, n)
    /\ queue' = SubSeq(q, n + 1, Len(q))
    /\ phase' = [k \in Work |-> IF k \in Front(q, n) THEN "starting" ELSE ph[k]]

\* createBatch, from POST /v1/batches; refused when stopping, full or a duplicate.
CreateBatch(b, n) ==
    LET new == [i \in 1 .. n |-> <<b, i>>] IN
    /\ ~stopping
    /\ Cardinality(Held \ Expired) < MaxBatches
    /\ b \notin Held \ Expired
    /\ record' = [Cleaned EXCEPT ![b] = [size |-> n, done |-> FALSE, left |-> 0]]
    /\ item' = [r \in Item |-> IF r[1] = b
                               THEN IF r[2] <= n
                                    THEN [status |-> "queued", input |-> TRUE]
                                    ELSE NoItem
                               ELSE item[r]]
    /\ Drain(queue \o new, active,
             [k \in Work |-> IF k \in Item /\ k[1] = b THEN "none" ELSE phase[k]])
    /\ aborted' = aborted \ {r \in Item : r[1] = b}
    /\ UNCHANGED stopping

\* getBatch, and a refused createBatch: expired batches leave.
Cleanup ==
    /\ Expired # {}
    /\ record' = Cleaned
    /\ UNCHANGED <<item, queue, active, phase, aborted, stopping>>

-----------------------------------------------------------------------------
(* startManagedRun and the worker it runs *)

\* POST /v1/run and the Inngest function: a free slot or an immediate refusal.
\* A member of Direct stands for one caller, who may come again.
Admit(d) ==
    /\ d \notin active
    /\ ~stopping
    /\ Cardinality(active) < MaxConcurrent
    /\ active' = active \cup {d}
    /\ phase' = [phase EXCEPT ![d] = "starting"]
    /\ UNCHANGED <<record, item, queue, aborted, stopping>>

\* The caller of a direct run went away.
Disconnect(d) ==
    /\ d \in active
    /\ aborted' = aborted \cup {d}
    /\ UNCHANGED <<record, item, queue, active, phase, stopping>>

\* worker.started: the input was valid.
WorkerStarted(k) ==
    /\ k \in active /\ phase[k] = "starting"
    /\ phase' = [phase EXCEPT ![k] = "executing"]
    /\ item' = IF k \in Item THEN [item EXCEPT ![k] = [@ EXCEPT !.status = "running"]]
                             ELSE item
    /\ UNCHANGED <<record, queue, active, aborted, stopping>>

\* applyOutcome and markBatchTerminal for the batch run r with the status end.
Outcome(r, end) == [status |-> end, input |-> FALSE]
AnyEnded(b, items) == \E r \in RunsOf(b) : items[r].status \in Terminal
AllEnded(b, items) == \A r \in RunsOf(b) : items[r].status \in Terminal

\* The worker's promise settles: the slot is given back, the queue drained, the
\* outcome recorded and, with the last run of a batch, its retention started.
Settle(k) ==
    /\ k \in active
    /\ \E end \in Terminal :
         /\ end = "completed" => phase[k] = "executing"
         /\ item' = IF k \in Item THEN [item EXCEPT ![k] = Outcome(k, end)] ELSE item
    /\ record' = IF k \in Item /\ AllEnded(k[1], item')
                 THEN [record EXCEPT ![k[1]] = [@ EXCEPT !.done = TRUE, !.left = Ttl]]
                 ELSE record
    /\ Drain(queue, active \ {k}, [phase EXCEPT ![k] = "none"])
    /\ aborted' = aborted \ {k}
    /\ UNCHANGED stopping

-----------------------------------------------------------------------------
\* shutdown, on SIGINT or SIGTERM: queued runs are dropped, active ones aborted.
Shutdown ==
    /\ ~stopping
    /\ stopping' = TRUE
    /\ queue' = <<>>
    /\ item' = [r \in Item |-> IF r \in Front(queue, Len(queue))
                               THEN [item[r] EXCEPT !.input = FALSE] ELSE item[r]]
    /\ aborted' = aborted \cup active
    /\ UNCHANGED <<record, active, phase>>

Down(n) == IF n > 0 THEN n - 1 ELSE 0
Tick ==
    /\ record' = [b \in Batch |-> [record[b] EXCEPT !.left = Down(@)]]
    /\ UNCHANGED <<item, queue, active, phase, aborted, stopping>>

-----------------------------------------------------------------------------
Worker(k) == WorkerStarted(k) \/ Settle(k)

Next ==
    \/ \E b \in Batch, n \in 1 .. MaxSize : CreateBatch(b, n)
    \/ Cleanup
    \/ \E d \in Direct : Admit(d) \/ Disconnect(d)
    \/ \E k \in Work : Worker(k)
    \/ Shutdown
    \/ Tick

Spec == Init /\ [][Next]_vars

-----------------------------------------------------------------------------
(* Properties *)

\* Batch, direct and Inngest runs together never exceed the configured slots,
\* and no slot stays free while a run is queued: every way a slot is given back
\* drains the queue (admissionCode, notifyRunSettled, drain).
SlotsSharedAndFull ==
    /\ Cardinality(active) <= MaxConcurrent
    /\ queue # <<>> => Cardinality(active) = MaxConcurrent

\* A workflow is kept exactly as long as its run is queued or holds a slot, so
\* that private inputs do not outlive their use (privateInput).
InputsReleased ==
    \A r \in Item : item[r].input <=> r \in active \/ r \in Front(queue, Len(queue))

\* A held batch counts as done exactly when all its runs ended, whatever the
\* order they ended in (markBatchTerminal).
DoneWhenAllEnded ==
    \A b \in Held : record[b].done <=> {item[r].status : r \in RunsOf(b)} \subseteq Terminal

\* Nothing that is queued or running loses the record it reports to.
WorkHasRecord ==
    \A r \in Item : r \in active \/ r \in Front(queue, Len(queue)) =>
        r[1] \in Held /\ r[2] <= record[r[1]].size

\* Records and private inputs follow the runs: no batch is dropped while it is
\* alive and none is kept for ever, however its runs come, end and expire beside
\* those of other batches (markBatchTerminal, cleanupExpired, privateInput).
RecordsFollowRuns == InputsReleased /\ DoneWhenAllEnded /\ WorkHasRecord

\* A queued run ends unless the service shuts down first.
QueuedRunsEnd ==
    \A r \in Item : item[r].status = "queued" ~> item[r].status \in Terminal \/ stopping

=============================================================================
