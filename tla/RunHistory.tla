----------------------------- MODULE RunHistory -----------------------------
(***************************************************************************)
(* What the run history promises to whoever reads it (get_run, get_batch,  *)
(* list_runs), with nothing said of leases, polls, submissions or crashes: *)
(* runs are recorded together, each only moves forward, and a batch that   *)
(* has its verdict never changes again.                                    *)
(***************************************************************************)
EXTENDS Integers

CONSTANTS Batch, Workflow, MaxStep

VARIABLES
    history,    \* the rows readers see: status, step, total, code, shot
    verdict     \* none, open, completed or failed

vars == <<history, verdict>>

Terminal == {"completed", "failed"}
Blank == [status |-> "none", step |-> 0, total |-> 0,
          code |-> "none", shot |-> "pending"]

Init == /\ history = [b \in Batch |-> [w \in Workflow |-> Blank]]
        /\ verdict = [b \in Batch |-> "none"]

\* The steps a status may take, staying put included.
Forward == {<<"queued", "queued">>, <<"queued", "running">>, <<"running", "running">>}
           \cup {"queued", "running", "completed"} \X {"completed"}
           \cup {"queued", "running", "failed"} \X {"failed"}

\* A row may become new: progress grows, a finished run keeps its result, a
\* cause comes with the failure, evidence comes with the end and is not lost.
MayBecome(old, new) ==
    /\ <<old.status, new.status>> \in Forward \cup {<<"none", "none">>}
    /\ old.step <= new.step /\ old.total <= new.total
    /\ old.status \in {"none"} \cup Terminal =>
         new.step = old.step /\ new.total = old.total /\ new.code = old.code
    /\ new.code = "none" <=> new.status # "failed"
    /\ new.shot # old.shot => new.status \in Terminal /\ old.shot # "available"

Settled(rows, end) ==
    /\ \A w \in Workflow : rows[w].status \in {"none"} \cup Terminal
    /\ end = "completed" => \A w \in Workflow : /\ rows[w].status # "failed"
                                                /\ rows[w].status # "none" => rows[w].shot # "pending"

OnlyBatch(b) == \A c \in Batch \ {b} : /\ history'[c] = history[c]
                                       /\ verdict'[c] = verdict[c]

Record(b) ==
    /\ verdict[b] = "none"
    /\ verdict'[b] = "open"
    /\ \A w \in Workflow : history'[b][w] \in {Blank, [Blank EXCEPT !.status = "queued"]}
    /\ OnlyBatch(b)

Report(b) ==
    /\ verdict[b] = "open"
    /\ \A w \in Workflow : MayBecome(history[b][w], history'[b][w])
    /\ verdict'[b] \in {"open", "completed", "failed"}
    /\ verdict'[b] \in Terminal => Settled(history'[b], verdict'[b])
    /\ OnlyBatch(b)

Next == \E b \in Batch : Record(b) \/ Report(b)

Spec == Init /\ [][Next]_vars

=============================================================================
