-------------------------- MODULE DurableRunsProofs --------------------------
(***************************************************************************)
(* Machine-checked facts about DurableRuns, for every set of batches,      *)
(* workflows and trackers and every value of the timing constants.         *)
(***************************************************************************)
EXTENDS DurableRuns, TLAPS

-----------------------------------------------------------------------------
(* The rows the SQL statements write *)

\* Longest is GREATEST: it stays in a range that holds both arguments.
LEMMA LongestFacts ==
    ASSUME NEW m \in Int, NEW n \in Int
    PROVE  /\ Longest(m, n) \in {m, n}
           /\ Longest(m, n) >= m
           /\ Longest(m, n) >= n
  BY DEF Longest

\* Counting down stays in range.
LEMMA DownType ==
    ASSUME NEW top \in Nat, NEW n \in 0 .. top
    PROVE  Down(n) \in 0 .. top
  BY DEF Down

\* Releasing, finalizing and recording a batch write well-formed rows.
LEMMA BatchRowType ==
    ASSUME NEW row \in BatchRow, NEW rows
    PROVE  /\ Released(row) \in BatchRow
           /\ Finalized(row, rows) \in BatchRow
           /\ NewBatch \in BatchRow
           /\ NoBatchRow \in BatchRow
  <1>1. PollDelay \in 0 .. Longest(SubmitGrace, PollDelay)
        /\ SubmitGrace \in 0 .. Longest(SubmitGrace, PollDelay)
    BY ConstantsAssumption DEF Longest
  <1>2. 0 \in 0 .. LeaseTime /\ 0 \in 0 .. Longest(SubmitGrace, PollDelay)
    BY <1>1, ConstantsAssumption DEF Longest
  <1>3. Released(row) \in BatchRow
    BY <1>1, <1>2 DEF Released, BatchRow, RunStatus, Terminal
  <1>4. Finalized(row, rows) \in BatchRow
    BY <1>2 DEF Finalized, BatchRow, RunStatus, Terminal
  <1>5. NoBatchRow \in BatchRow /\ NewBatch \in BatchRow
    BY <1>1, <1>2 DEF NoBatchRow, NewBatch, BatchRow, RunStatus, Terminal
  <1>6. QED
    BY <1>3, <1>4, <1>5

\* A snapshot writes a well-formed row over a recorded run, whatever it reports.
LEMMA AppliedRowType ==
    ASSUME NEW r \in RunRow, NEW s \in SvcRow, s.status \in RunStatus
    PROVE  AppliedRow(r, s) \in RunRow
  <1> DEFINE current == IF s.step > s.total THEN s.total ELSE s.step
  <1>1. s.step \in Progress /\ s.total \in Progress /\ r.step \in Progress /\ r.total \in Progress
    BY DEF RunRow, SvcRow
  <1>2. Longest(r.step, current) \in Progress /\ Longest(r.total, s.total) \in Progress
    BY <1>1 DEF Longest
  <1>3. CASE r.status \in Terminal \/ (r.status # "queued" /\ s.status = "queued")
    BY <1>3 DEF AppliedRow
  <1>4. CASE ~(r.status \in Terminal \/ (r.status # "queued" /\ s.status = "queued"))
    BY <1>2, <1>4 DEF AppliedRow, RunRow, FailureCode
  <1>5. QED
    BY <1>3, <1>4

LEMMA RunRowType ==
    ASSUME NEW r \in RunRow, NEW code \in FailureCode
    PROVE  /\ MarkAvailable(r) \in RunRow
           /\ MarkUnavailable(r) \in RunRow
           /\ FailedRow(r, code) \in RunRow
           /\ NoRunRow \in RunRow
           /\ [NoRunRow EXCEPT !.status = "queued"] \in RunRow
  <1>1. 0 \in Progress
    BY ConstantsAssumption DEF Progress
  <1>2. MarkAvailable(r) \in RunRow /\ MarkUnavailable(r) \in RunRow
    BY DEF MarkAvailable, MarkUnavailable, RunRow, ShotStatus
  <1>3. FailedRow(r, code) \in RunRow
    BY DEF FailedRow, RunRow, ShotStatus, RunStatus, Terminal
  <1>4. NoRunRow \in RunRow /\ [NoRunRow EXCEPT !.status = "queued"] \in RunRow
    BY <1>1 DEF NoRunRow, RunRow, ShotStatus, RunStatus, FailureCode
  <1>5. QED
    BY <1>2, <1>3, <1>4

-----------------------------------------------------------------------------
(* The inductive invariant *)

Polling == {"polling", "lost", "release", "snapshot", "apply"}

\* A batch nobody recorded has no runs and no submission.
BlankInv == \A b \in Batch :
    batch[b].status = "none" =>
      /\ \A w \in Workflow : run[b][w] = NoRunRow
      /\ post[b].caller = "none" /\ post[b].wire = "none"

\* The service knows nothing of a batch it never accepted, and a batch it holds
\* has a live status for each recorded run.
ServiceInv == \A b \in Batch :
    /\ post[b].caller \in {"none", "prepared"} => post[b].wire = "none"
    /\ post[b].wire # "accepted" => ~svc[b].held /\ svc[b].runs = NoSnapshot
    /\ svc[b].held => \A w \in Workflow : run[b][w].status # "none" =>
                                           svc[b].runs[w].status \in RunStatus
    /\ \A w \in Workflow : run[b][w].status = "none" => svc[b].runs[w].status = "none"
    /\ ~svc[b].held => \A w \in Workflow : svc[b].runs[w].status \notin {"queued", "running"}

\* A poll is about a recorded batch, and the snapshot in a tracker's hands is an
\* earlier state of what the service has of it.
Faithful(t) ==
    /\ t.pc \in Polling => t.batch \in Batch /\ batch[t.batch].status # "none"
    /\ t.pc \in {"snapshot", "apply"} =>
         /\ post[t.batch].wire = "accepted"
         /\ \A w \in Workflow :
              /\ run[t.batch][w].status # "none" => t.snap[w].status \in RunStatus
              /\ t.snap[w].status \in Terminal =>
                   svc[t.batch].runs[w].status = t.snap[w].status
              /\ t.snap[w].step <= svc[t.batch].runs[w].step
PollInv == \A o \in Owner : Faithful(tracker[o])

\* Only an unfinished batch has an owner.
LeaseInv == \A b \in Batch :
    ~Open(b) => batch[b].owner = NoOwner /\ batch[b].lease = 0

IInv == /\ TypeOK /\ BlankInv /\ ServiceInv /\ PollInv /\ LeaseInv
        /\ VerdictSummarises /\ RecordedOutcomeIsReal /\ AvailableIsStored

-----------------------------------------------------------------------------
(* The invariant holds at the start, and every action preserves it *)

LEMMA InitHolds == Init => IInv
  <1> SUFFICES ASSUME Init PROVE IInv
    OBVIOUS
  <1> USE DEF Init, NoPost
  <1>1. 0 \in Progress /\ 0 \in 0 .. SubmitTimeout /\ NoBatchRow \in BatchRow
        /\ NoRunRow \in RunRow
    BY ConstantsAssumption, BatchRowType, RunRowType
       DEF Progress, NoBatchRow, BatchRow, RunStatus, Terminal, NoRunRow, RunRow,
           FailureCode, ShotStatus, Longest
  <1>2. NoSnapshot \in [Workflow -> SvcRow] /\ IdleTracker \in Tracker
    BY <1>1 DEF NoSnapshot, NoSvcRow, SvcRow, IdleTracker, Tracker, TrackerState
  <1>3. TypeOK
    BY <1>1, <1>2 DEF TypeOK, Post, CallerState, WireState
  <1>4. BlankInv /\ LeaseInv /\ VerdictSummarises /\ AvailableIsStored
    BY DEF BlankInv, LeaseInv, VerdictSummarises, AvailableIsStored, Open, NoBatchRow,
           NoRunRow, Terminal
  <1>5. ServiceInv /\ PollInv
    BY DEF ServiceInv, PollInv, Faithful, NoSnapshot, NoSvcRow, NoRunRow, IdleTracker, Polling
  <1>6. RecordedOutcomeIsReal
    BY DEF RecordedOutcomeIsReal, NoRunRow, NoSnapshot, NoSvcRow
  <1>7. QED
    BY <1>3, <1>4, <1>5, <1>6 DEF IInv

\* What the handler learns of the service's answer.
LEMMA HandlerAnswer ==
    ASSUME NEW b \in Batch, post \in [Batch -> Post],
           ReadReply(b) \/ RequestError(b) \/ CallerCrash(b)
    PROVE  \E c \in {"accepted", "rejected", "unknown", "crashed"}, u \in BOOLEAN :
             /\ post' = [post EXCEPT ![b] = [post[b] EXCEPT !.caller = c, !.unsure = u]]
             /\ post[b].unsure => u
             /\ c = "accepted" => post[b].wire = "accepted"
             /\ c = "rejected" => post[b].wire = "refused" \/ (post[b].wire = "accepted" /\ u)
  <1> DEFINE p == post[b]
             Goes(c, u) == post' = [post EXCEPT ![b] = [p EXCEPT !.caller = c, !.unsure = u]]
  <1>1. p \in Post /\ p.unsure \in BOOLEAN
    BY DEF Post
  <1>2. ASSUME NEW c \in CallerState PROVE [p EXCEPT !.caller = c] = [p EXCEPT !.caller = c, !.unsure = p.unsure]
    BY <1>1 DEF Post
  <1>3. CASE \E c \in {"accepted", "unknown", "crashed"} :
               /\ post' = [post EXCEPT ![b] = [@ EXCEPT !.caller = c]]
               /\ c = "accepted" => p.wire = "accepted"
    <2>1. PICK c \in {"accepted", "unknown", "crashed"} :
               /\ post' = [post EXCEPT ![b] = [p EXCEPT !.caller = c]]
               /\ c = "accepted" => p.wire = "accepted"
      BY <1>3
    <2>2. Goes(c, p.unsure)
      BY <1>2, <2>1 DEF CallerState
    <2>3. QED
      BY <1>1, <2>1, <2>2
  <1>4. CASE /\ ReadReply(b)
             /\ p.wire = "refused" \/ (Garbled /\ p.wire = "accepted")
             /\ post' = [post EXCEPT ![b].caller = "rejected",
                                     ![b].unsure = @ \/ p.wire = "accepted"]
    <2>1. CASE p.wire = "accepted"
      <3>1. Goes("rejected", TRUE)
        <4>1. (p.unsure \/ p.wire = "accepted") = TRUE
          BY <2>1
        <4>2. post' = [post EXCEPT ![b].caller = "rejected",
                                   ![b].unsure = p.unsure \/ p.wire = "accepted"]
          BY <1>1, <1>4 DEF Post
        <4>3. post' = [post EXCEPT ![b].caller = "rejected", ![b].unsure = TRUE]
          BY <4>1, <4>2, Zenon
        <4>4. QED
          BY <1>1, <4>3 DEF Post
      <3>2. QED
        BY <2>1, <3>1
    <2>2. CASE p.wire # "accepted"
      <3>1. (p.unsure \/ p.wire = "accepted") = p.unsure
        BY <1>1, <2>2, Zenon
      <3>2. p.wire = "refused"
        BY <1>4, <2>2
      <3>3. post' = [post EXCEPT ![b].caller = "rejected",
                                 ![b].unsure = p.unsure \/ p.wire = "accepted"]
        BY <1>1, <1>4 DEF Post
      <3>6. post' = [post EXCEPT ![b].caller = "rejected", ![b].unsure = p.unsure]
        BY <3>1, <3>3, Zenon
      <3>5. Goes("rejected", p.unsure)
        BY <1>1, <3>6 DEF Post
      <3>4. QED
        BY <1>1, <3>2, <3>5
    <2>3. QED
      BY <2>1, <2>2
  <1>5. QED
    BY <1>3, <1>4 DEF ReadReply, RequestError, CallerCrash

\* The request handler's steps before it settles the batch touch only its own state.
LEMMA CallerStep ==
    ASSUME IInv, NEW b \in Batch,
           SendPost(b) \/ ReadReply(b) \/ RequestError(b) \/ CallerCrash(b)
    PROVE  IInv'
  <1> USE DEF IInv
  <1>1. UNCHANGED <<batch, run, stored, tracker, svc>>
    BY DEF SendPost, ReadReply, RequestError, CallerCrash
  <1>2. PICK p \in Post : /\ post' = [post EXCEPT ![b] = p]
                          /\ p.caller \notin {"none", "prepared"}
                          /\ p.wire = "accepted" <=> post[b].wire = "accepted"
    <2>1. post \in [Batch -> Post] /\ post[b] \in Post
      BY DEF TypeOK
    <2>2. CASE SendPost(b)
      <3>1. /\ [post[b] EXCEPT !.caller = "posting", !.wire = "sent"] \in Post
            /\ post[b].caller = "prepared"
        BY <2>1, <2>2 DEF SendPost, Post, CallerState, WireState
      <3>2. QED
        BY <2>1, <2>2, <3>1 DEF SendPost, Post, ServiceInv
    <2>3. CASE ReadReply(b) \/ RequestError(b) \/ CallerCrash(b)
      <3>1. PICK c \in {"accepted", "rejected", "unknown", "crashed"}, u \in BOOLEAN :
                 post' = [post EXCEPT ![b] = [post[b] EXCEPT !.caller = c, !.unsure = u]]
        BY <2>1, <2>3, HandlerAnswer
      <3>2. [post[b] EXCEPT !.caller = c, !.unsure = u] \in Post
        BY <2>1, <3>1 DEF Post, CallerState
      <3>3. QED
        BY <2>1, <3>1, <3>2 DEF Post
    <2>4. QED
      BY <2>2, <2>3
  <1>3. TypeOK'
    BY <1>1, <1>2 DEF TypeOK
  <1>4. BlankInv'
    BY <1>1, <1>2 DEF BlankInv, TypeOK, SendPost, ReadReply, RequestError, CallerCrash
  <1>5. ServiceInv' /\ PollInv'
    <2>1. \A c \in Batch : /\ post'[c].wire = "accepted" <=> post[c].wire = "accepted"
                           /\ post'[c].caller \in {"none", "prepared"} => post'[c] = post[c]
      BY <1>2 DEF TypeOK
    <2>2. ServiceInv'
      BY <1>1, <2>1 DEF ServiceInv
    <2>3. PollInv'
      BY <1>1, <2>1 DEF PollInv, Faithful, Polling
    <2>4. QED
      BY <2>2, <2>3
  <1>6. LeaseInv' /\ VerdictSummarises' /\ RecordedOutcomeIsReal' /\ AvailableIsStored'
    BY <1>1 DEF LeaseInv, Open, VerdictSummarises, Members, RecordedOutcomeIsReal, AvailableIsStored
  <1>7. QED
    BY <1>3, <1>4, <1>5, <1>6

\* A step of one tracker that writes no row: what it holds next must be faithful.
LEMMA TrackerOnly ==
    ASSUME IInv, NEW o \in Owner, NEW t \in Tracker, Faithful(t),
           tracker' = [tracker EXCEPT ![o] = t],
           stored \subseteq stored', stored' \in SUBSET (Batch \X Workflow),
           post' = post \/ \E b \in Batch : post' = [post EXCEPT ![b] = [@ EXCEPT !.unsure = TRUE]],
           UNCHANGED <<batch, run, svc>>
    PROVE  IInv'
  <1> USE DEF IInv
  <1>0. post' \in [Batch -> Post]
    <2>1. CASE post' = post
      BY <2>1 DEF TypeOK
    <2>2. ASSUME NEW b \in Batch, post' = [post EXCEPT ![b] = [@ EXCEPT !.unsure = TRUE]]
          PROVE  post' \in [Batch -> Post]
      <3>1. post \in [Batch -> Post] /\ post[b] \in Post
        BY DEF TypeOK
      <3>2. [post[b] EXCEPT !.unsure = TRUE] \in Post
        BY <3>1 DEF Post
      <3>3. QED
        BY <2>2, <3>1, <3>2
    <2>3. QED
      BY <2>1, <2>2
  <1>7. ASSUME NEW c \in Batch
        PROVE  post'[c].wire = post[c].wire /\ post'[c].caller = post[c].caller
    <2>1. CASE post' = post
      BY <2>1
    <2>2. ASSUME NEW b \in Batch, post' = [post EXCEPT ![b] = [@ EXCEPT !.unsure = TRUE]]
          PROVE  post'[c].wire = post[c].wire /\ post'[c].caller = post[c].caller
      <3>1. post \in [Batch -> Post] /\ post[c] \in Post
        BY DEF TypeOK
      <3>2. post'[c] = IF c = b THEN [post[c] EXCEPT !.unsure = TRUE] ELSE post[c]
        BY <2>2, <3>1
      <3>3. QED
        BY <3>1, <3>2 DEF Post
    <2>3. QED
      BY <2>1, <2>2
  <1>1. TypeOK'
    BY <1>0 DEF TypeOK
  <1>2. LeaseInv' /\ VerdictSummarises' /\ RecordedOutcomeIsReal'
    BY DEF LeaseInv, Open, VerdictSummarises, Members, RecordedOutcomeIsReal
  <1>6. BlankInv' /\ ServiceInv'
    <2>1. BlankInv'
      BY <1>7 DEF BlankInv
    <2>2. ASSUME NEW c \in Batch
          PROVE  (/\ post[c].caller \in {"none", "prepared"} => post[c].wire = "none"
                  /\ post[c].wire # "accepted" => ~svc[c].held /\ svc[c].runs = NoSnapshot)'
      <3>1. /\ post[c].caller \in {"none", "prepared"} => post[c].wire = "none"
            /\ post[c].wire # "accepted" => ~svc[c].held /\ svc[c].runs = NoSnapshot
        BY DEF ServiceInv
      <3>2. /\ post'[c].wire = post[c].wire /\ post'[c].caller = post[c].caller
            /\ svc'[c].held = svc[c].held /\ svc'[c].runs = svc[c].runs
        BY <1>7, Zenon
      <3>3. QED
        BY ONLY <3>1, <3>2
    <2>5. ASSUME NEW c \in Batch
          PROVE  (/\ svc[c].held => \A w \in Workflow : run[c][w].status # "none" =>
                                                  svc[c].runs[w].status \in RunStatus
                  /\ \A w \in Workflow : run[c][w].status = "none" => svc[c].runs[w].status = "none"
                  /\ ~svc[c].held =>
                       \A w \in Workflow : svc[c].runs[w].status \notin {"queued", "running"})'
      BY DEF ServiceInv
    <2> HIDE DEF IInv
    <2>4. ServiceInv'
      BY ONLY <2>2, <2>5 DEF ServiceInv
    <2>3. QED
      BY <2>1, <2>4
  <1>3. AvailableIsStored'
    BY DEF AvailableIsStored
  <1>4. PollInv'
    <2>1. \A p \in Owner : Faithful(tracker'[p])
      BY DEF TypeOK, PollInv
    <2>2. ASSUME NEW p \in Owner PROVE Faithful(tracker[p])'
      <3> DEFINE u == tracker'[p]
      <3>1. Faithful(u)
        BY <2>1
      <3>2. CASE u.pc \notin Polling
        BY <3>2 DEF Faithful, Polling
      <3>3. CASE u.pc \in Polling
        <4>0. u.batch \in Batch
          BY ONLY <3>1, <3>3 DEF Faithful
        <4>1. u.batch \in Batch /\ post'[u.batch].wire = post[u.batch].wire
          BY <1>7, <4>0, Zenon
        <4>2. u.batch = tracker'[p].batch /\ batch' = batch /\ run' = run /\ svc' = svc
          OBVIOUS
        <4> HIDE DEF u
        <4>3. u = tracker'[p]
          BY DEF u
        <4>4. (/\ u.pc \in Polling => u.batch \in Batch /\ batch[u.batch].status # "none"
               /\ u.pc \in {"snapshot", "apply"} =>
                    /\ post'[u.batch].wire = "accepted"
                    /\ \A w \in Workflow :
                         /\ run[u.batch][w].status # "none" => u.snap[w].status \in RunStatus
                         /\ u.snap[w].status \in Terminal =>
                              svc[u.batch].runs[w].status = u.snap[w].status
                         /\ u.snap[w].step <= svc[u.batch].runs[w].step)
          BY ONLY <3>1, <4>1 DEF Faithful
        <4>5. QED
          BY ONLY <4>2, <4>3, <4>4 DEF Faithful
      <3>4. QED
        BY <3>2, <3>3
    <2>3. QED
      BY <2>2 DEF PollInv
  <1>5. QED
    BY <1>1, <1>2, <1>3, <1>4, <1>6

LEMMA IdleIsFaithful ==
    /\ IdleTracker \in Tracker /\ Faithful(IdleTracker)
    /\ [IdleTracker EXCEPT !.pc = "dead"] \in Tracker
    /\ Faithful([IdleTracker EXCEPT !.pc = "dead"])
  <1>1. 0 \in Progress
    BY ConstantsAssumption DEF Progress
  <1>2. NoSnapshot \in [Workflow -> SvcRow]
    BY <1>1 DEF NoSnapshot, NoSvcRow, SvcRow
  <1>3. QED
    BY <1>2 DEF IdleTracker, Tracker, TrackerState, Faithful, Polling

\* Reading the service's answer.
LEMMA ReadStep ==
    ASSUME IInv, NEW o \in Owner, ReadSnapshot(o) \/ ReadMissing(o) \/ ReadError(o)
    PROVE  IInv'
  <1> DEFINE t == tracker[o]
             b == t.batch
  <1>1. t \in Tracker /\ Faithful(t) /\ t.pc = "polling" /\ b \in Batch /\ svc[b].runs \in [Workflow -> SvcRow]
    BY DEF IInv, TypeOK, PollInv, Faithful, Polling, ReadSnapshot, ReadMissing, ReadError
  <1>2. CASE ReadSnapshot(o)
    <2> DEFINE u == [t EXCEPT !.pc = "snapshot", !.snap = svc[b].runs]
    <2>1. u \in Tracker
      BY <1>1 DEF Tracker, TrackerState
    <2>2. svc[b].held /\ tracker' = [tracker EXCEPT ![o] = u]
      BY <1>2 DEF ReadSnapshot
    <2>3. u.pc = "snapshot" /\ u.batch = b /\ u.snap = svc[b].runs
      BY <1>1 DEF Tracker
    <2>4. /\ post[b].wire = "accepted" /\ batch[b].status # "none"
          /\ \A w \in Workflow : run[b][w].status # "none" => svc[b].runs[w].status \in RunStatus
      BY <1>1, <2>2 DEF IInv, ServiceInv, Faithful, Polling
    <2>5. \A w \in Workflow : svc[b].runs[w].step \in Int
      BY <1>1, ConstantsAssumption DEF SvcRow, Progress
    <2> HIDE DEF u
    <2>6. Faithful(u)
      BY <1>1, <2>3, <2>4, <2>5 DEF Faithful
    <2>7. QED
      BY <1>2, <2>1, <2>2, <2>6, TrackerOnly DEF ReadSnapshot, IInv, TypeOK
  <1>3. CASE ReadMissing(o) \/ ReadError(o)
    <2>1. PICK pc \in {"lost", "release"} : tracker' = [tracker EXCEPT ![o] = [t EXCEPT !.pc = pc]]
      BY <1>3 DEF ReadMissing, ReadError, Goto
    <2>4. post' = post \/ \E c \in Batch : post' = [post EXCEPT ![c] = [@ EXCEPT !.unsure = TRUE]]
      BY <1>1, <1>3 DEF ReadMissing, ReadError
    <2>2. [t EXCEPT !.pc = pc] \in Tracker /\ Faithful([t EXCEPT !.pc = pc])
      BY <1>1 DEF Tracker, TrackerState, Faithful, Polling
    <2>3. QED
      BY <1>3, <2>1, <2>2, <2>4, TrackerOnly DEF ReadMissing, ReadError, IInv, TypeOK
  <1>4. QED
    BY <1>2, <1>3

\* Fetching thumbnails adds to what the tracker holds and leaves the snapshot alone.
LEMMA FetchStep ==
    ASSUME IInv, NEW o \in Owner, FetchScreenshots(o)
    PROVE  IInv'
  <1> DEFINE t == tracker[o]
  <1>1. t \in Tracker /\ Faithful(t) /\ t.pc = "snapshot"
    BY DEF IInv, TypeOK, PollInv, FetchScreenshots
  <1>2. PICK got \in SUBSET Workflow, retry \in BOOLEAN :
             tracker' = [tracker EXCEPT ![o] = [t EXCEPT !.pc = "apply", !.got = got, !.retry = retry]]
    BY DEF FetchScreenshots, ReportedShots
  <1> DEFINE u == [t EXCEPT !.pc = "apply", !.got = got, !.retry = retry]
  <1>3. u \in Tracker /\ u.pc = "apply" /\ u.batch = t.batch /\ u.snap = t.snap
    BY <1>1 DEF Tracker, TrackerState
  <1> HIDE DEF u
  <1>4. Faithful(u)
    BY <1>1, <1>3 DEF Faithful, Polling
  <1>5. QED
    BY <1>2, <1>3, <1>4, TrackerOnly DEF u, FetchScreenshots, IInv, TypeOK

\* A poll that ends without a row: discarded, failed, or cut off by the process's end.
LEMMA AbandonStep ==
    ASSUME IInv, NEW o \in Owner, DiscardStale(o) \/ IterationFails(o) \/ TrackerCrash(o)
    PROVE  IInv'
  <1>1. CASE DiscardStale(o)
    BY <1>1, IdleIsFaithful, TrackerOnly DEF DiscardStale, ToIdle, IInv, TypeOK
  <1>2. CASE IterationFails(o)
    <2>1. tracker[o].pc \in Polling /\ tracker[o].batch \in Batch /\ tracker[o].got \subseteq Workflow
      BY <1>2 DEF IterationFails, IInv, TypeOK, Tracker, TrackerState, PollInv, Faithful, Polling
    <2>2. stored \subseteq stored' /\ stored' \in SUBSET (Batch \X Workflow)
      BY <1>2, <2>1 DEF IterationFails, IInv, TypeOK
    <2>3. QED
      BY <1>2, <2>2, IdleIsFaithful, TrackerOnly DEF IterationFails, ToIdle
  <1>3. CASE TrackerCrash(o)
    BY <1>3, IdleIsFaithful, TrackerOnly DEF TrackerCrash, IInv, TypeOK
  <1>4. QED
    BY <1>1, <1>2, <1>3

\* Around a transaction on batch b a tracker stays as it is, claims b or ends its poll.
MovesOn(o, b) ==
    tracker'[o] \in {tracker[o], IdleTracker, [IdleTracker EXCEPT !.pc = "polling", !.batch = b]}

\* The rest of the state around a transaction on batch b.
Around(b) ==
    /\ svc' = svc
    /\ post' \in [Batch -> Post]
    /\ \A c \in Batch : /\ post'[c].wire = post[c].wire
                        /\ post'[c].caller \in {"none", "prepared"} => post'[c] = post[c]
                        /\ c # b => post'[c] = post[c]
    /\ tracker' \in [Owner -> Tracker]
    /\ \A o \in Owner : MovesOn(o, b)
    /\ stored \subseteq stored' /\ stored' \in SUBSET (Batch \X Workflow)

\* The rows it writes agree with each other, with the service and with the store.
Agree(b, row, rows) ==
    /\ row \in BatchRow /\ rows \in [Workflow -> RunRow]
    /\ row.status # "none"
    /\ row.status \in {"queued", "running"} \/ (row.owner = NoOwner /\ row.lease = 0)
    /\ row.status \in Terminal =>
         \A w \in Workflow : rows[w].status # "none" => rows[w].status \in Terminal
    /\ row.status = "completed" => AllCompleted(rows) /\ Ready(rows)
    /\ \A w \in Workflow :
         /\ rows[w].status = "none" <=> run[b][w].status = "none"
         /\ rows[w].status = "completed" => svc[b].runs[w].status = "completed"
         /\ rows[w].code = "runner" => svc[b].runs[w].status = "failed"
         /\ rows[w].step <= svc[b].runs[w].step
         /\ rows[w].shot = "available" => <<b, w>> \in stored'

\* A transaction that writes such rows of a recorded batch keeps the invariant.
LEMMA Written ==
    ASSUME IInv, NEW b \in Batch, NEW row, NEW rows, batch[b].status # "none",
           batch' = [batch EXCEPT ![b] = row], run' = [run EXCEPT ![b] = rows],
           Agree(b, row, rows), Around(b)
    PROVE  IInv'
  <1> USE DEF IInv, Agree, Around
  <1>1. TypeOK'
    BY DEF TypeOK
  <1>2. /\ batch'[b] = row /\ run'[b] = rows
        /\ \A c \in Batch \ {b} : batch'[c] = batch[c] /\ run'[c] = run[c]
    BY DEF TypeOK
  <1>3. BlankInv' /\ LeaseInv'
    BY <1>2 DEF BlankInv, LeaseInv, Open
  <1>4. ASSUME NEW c \in Batch, NEW w \in Workflow
        PROVE  run'[c][w].status = "none" <=> run[c][w].status = "none"
    <2>1. CASE c = b
      <3>1. run'[c] = rows /\ run[c] = run[b]
        BY <1>2, <2>1
      <3>2. QED
        BY <3>1
    <2>2. CASE c # b
      <3>1. run'[c] = run[c]
        BY <1>2, <2>2
      <3>2. QED
        BY <3>1
    <2>3. QED
      BY <2>1, <2>2
  <1>5. ServiceInv'
    BY <1>4 DEF ServiceInv
  <1>6. \A c \in Batch : batch'[c].status = "none" <=> batch[c].status = "none"
    BY <1>2
  <1>7. PollInv'
    <2> SUFFICES ASSUME NEW o \in Owner PROVE Faithful(tracker[o])' 
      BY DEF PollInv
    <2>1. CASE tracker'[o] \in {IdleTracker, [IdleTracker EXCEPT !.pc = "polling", !.batch = b]}
      <3>1. batch'[b].status # "none"
        BY <1>2
      <3>2. CASE tracker'[o] = IdleTracker
        BY <3>2 DEF Faithful, IdleTracker, Polling
      <3>3. CASE tracker'[o] = [IdleTracker EXCEPT !.pc = "polling", !.batch = b]
        <4>1. [IdleTracker EXCEPT !.pc = "polling", !.batch = b].pc = "polling"
              /\ [IdleTracker EXCEPT !.pc = "polling", !.batch = b].batch = b
          BY DEF IdleTracker
        <4>2. tracker'[o].pc = "polling" /\ tracker'[o].batch = b
          BY <3>3, <4>1, Zenon
        <4>3. QED
          BY <3>1, <4>2 DEF Faithful, Polling
      <3>4. QED
        BY <2>1, <3>2, <3>3
    <2>2. CASE tracker'[o] = tracker[o]
      <3>1. Faithful(tracker[o])
        BY DEF PollInv
      <3>2. CASE tracker[o].pc \in Polling
        BY <2>2, <3>1, <3>2, <1>4, <1>6 DEF Faithful
      <3>3. CASE tracker[o].pc \notin Polling
        BY <2>2, <3>3 DEF Faithful, Polling
      <3>4. QED
        BY <3>2, <3>3
    <2>3. QED
      BY <2>1, <2>2 DEF MovesOn
  <1>8. VerdictSummarises'
    BY <1>2, <1>4 DEF VerdictSummarises, Members, AllCompleted, Ready
  <1>9. ASSUME NEW c \in Batch, NEW w \in Workflow
        PROVE  /\ run'[c][w].status = "completed" => svc'[c].runs[w].status = "completed"
               /\ run'[c][w].code = "runner" => svc'[c].runs[w].status = "failed"
               /\ run'[c][w].step <= svc'[c].runs[w].step
               /\ run'[c][w].shot = "available" => <<c, w>> \in stored'
    <2>1. CASE c = b
      BY <1>2, <2>1
    <2>2. CASE c # b
      <3>1. run'[c] = run[c]
        BY <1>2, <2>2
      <3>2. QED
        BY <3>1 DEF RecordedOutcomeIsReal, AvailableIsStored
    <2>3. QED
      BY <2>1, <2>2
  <1>10. RecordedOutcomeIsReal' /\ AvailableIsStored'
    <2>1. RecordedOutcomeIsReal'
      BY ONLY <1>9 DEF RecordedOutcomeIsReal
    <2>2. AvailableIsStored'
      BY <1>9 DEF AvailableIsStored
    <2>3. QED
      BY <2>1, <2>2
  <1>11. QED
    BY <1>1, <1>3, <1>5, <1>7, <1>8, <1>10

\* fail_batch on an unfinished batch, whoever calls it.
LEMMA FailedBatch ==
    ASSUME IInv, NEW b \in Batch, Open(b), NEW code \in FailureCode \ {"runner"},
           FailBatchRows(b, code), Around(b), stored' = stored
    PROVE  IInv'
  <1> DEFINE rows == [w \in Workflow |-> FailedRow(run[b][w], code)]
             row == [batch[b] EXCEPT !.status = "failed", !.owner = NoOwner, !.lease = 0]
  <1>1. run[b] \in [Workflow -> RunRow] /\ batch[b] \in BatchRow
        /\ stored \in SUBSET (Batch \X Workflow)
    BY DEF IInv, TypeOK
  <1>2. rows \in [Workflow -> RunRow]
    BY <1>1, RunRowType
  <1>3. /\ row \in BatchRow /\ row.status = "failed" /\ row.owner = NoOwner /\ row.lease = 0
        /\ batch[b].status # "none"
    <2>1. 0 \in 0 .. LeaseTime /\ "failed" \in RunStatus
      BY ConstantsAssumption DEF RunStatus, Terminal
    <2>2. QED
      BY <1>1, <2>1 DEF BatchRow, Open
  <1>4. ASSUME NEW w \in Workflow
        PROVE  /\ rows[w].status = "none" <=> run[b][w].status = "none"
               /\ rows[w].status \in {"none"} \cup Terminal
               /\ rows[w].status = "completed" => run[b][w].status = "completed"
               /\ rows[w].code = "runner" => run[b][w].code = "runner"
               /\ rows[w].step = run[b][w].step
               /\ rows[w].shot = "available" => run[b][w].shot = "available"
    <2>1. run[b][w] \in RunRow /\ rows[w] = FailedRow(run[b][w], code)
      BY <1>1
    <2>2. QED
      BY <2>1 DEF FailedRow, RunRow, RunStatus, Terminal
  <1>5. batch' = [batch EXCEPT ![b] = row] /\ run' = [run EXCEPT ![b] = rows]
    BY DEF FailBatchRows
  <1> HIDE DEF rows, row
  <1>6. \A w \in Workflow :
          /\ rows[w].status = "none" <=> run[b][w].status = "none"
          /\ rows[w].status = "completed" => svc[b].runs[w].status = "completed"
          /\ rows[w].code = "runner" => svc[b].runs[w].status = "failed"
          /\ rows[w].step <= svc[b].runs[w].step
          /\ rows[w].shot = "available" => <<b, w>> \in stored'
    BY <1>4 DEF IInv, RecordedOutcomeIsReal, AvailableIsStored
  <1>7. \A w \in Workflow : rows[w].status # "none" => rows[w].status \in Terminal
    BY <1>4
  <1>8. Agree(b, row, rows)
    BY <1>2, <1>3, <1>6, <1>7 DEF Agree
  <1>9. QED
    BY <1>3, <1>5, <1>8, Written

\* fail_batch for a tracker whose service no longer knows the batch.
LEMMA FailLostStep ==
    ASSUME IInv, NEW o \in Owner, FailLost(o)
    PROVE  IInv'
  <1>1. /\ tracker[o].batch \in Batch
        /\ batch[tracker[o].batch].lease > 0
    BY DEF IInv, PollInv, Faithful, Polling, FailLost, HoldsLease
  <1>2. Open(tracker[o].batch)
    BY <1>1 DEF IInv, LeaseInv
  <1>3. tracker' \in [Owner -> Tracker] /\ \A p \in Owner : MovesOn(p, tracker[o].batch)
    BY IdleIsFaithful DEF IInv, TypeOK, FailLost, ToIdle, MovesOn
  <1>4. Around(tracker[o].batch) /\ stored' = stored
    BY <1>3 DEF FailLost, IInv, TypeOK, Around
  <1>5. "execution_lost" \in FailureCode \ {"runner"}
    BY DEF FailureCode
  <1>6. FailBatchRows(tracker[o].batch, "execution_lost")
    BY DEF FailLost
  <1>7. QED
    BY <1>1, <1>2, <1>4, <1>5, <1>6, FailedBatch

\* A transaction that writes only the row of batch b, which stays unfinished.
LEMMA RowWritten ==
    ASSUME IInv, NEW b \in Batch, NEW row \in BatchRow, Open(b),
           batch' = [batch EXCEPT ![b] = row], row.status \in {"queued", "running"},
           UNCHANGED <<run, stored>>, Around(b)
    PROVE  IInv'
  <1>1. run[b] \in [Workflow -> RunRow] /\ run' = [run EXCEPT ![b] = run[b]] /\ stored' = stored
    BY DEF IInv, TypeOK
  <1>2. batch[b].status # "none" /\ row.status # "none" /\ row.status \notin Terminal
    BY DEF Open, Terminal
  <1>3. \A w \in Workflow :
          /\ run[b][w].status = "completed" => svc[b].runs[w].status = "completed"
          /\ run[b][w].code = "runner" => svc[b].runs[w].status = "failed"
          /\ run[b][w].step <= svc[b].runs[w].step
          /\ run[b][w].shot = "available" => <<b, w>> \in stored'
    BY <1>1 DEF IInv, RecordedOutcomeIsReal, AvailableIsStored
  <1>4. Agree(b, row, run[b])
    BY <1>1, <1>2, <1>3 DEF Agree, Terminal
  <1>5. QED
    BY <1>1, <1>2, <1>4, Written

\* _release_without_snapshot.
LEMMA ReleaseStep ==
    ASSUME IInv, NEW o \in Owner, ReleaseUnseen(o)
    PROVE  IInv'
  <1> DEFINE b == tracker[o].batch
             row == Released(batch[b])
  <1>1. b \in Batch /\ batch[b].lease > 0
    BY DEF IInv, PollInv, Faithful, Polling, ReleaseUnseen, HoldsLease
  <1>2. Open(b)
    BY <1>1 DEF IInv, LeaseInv
  <1>3. batch[b] \in BatchRow /\ post \in [Batch -> Post]
    BY <1>1 DEF IInv, TypeOK
  <1>4. row \in BatchRow /\ row.status \in {"queued", "running"}
    <2>1. row \in BatchRow
      BY <1>3, BatchRowType
    <2>2. row.status \in {"queued", "running"}
      BY <1>2, <1>3 DEF Open, Released, BatchRow
    <2>3. QED
      BY <2>1, <2>2
  <1>5. tracker' \in [Owner -> Tracker] /\ \A p \in Owner : MovesOn(p, b)
    BY IdleIsFaithful DEF IInv, TypeOK, ReleaseUnseen, ToIdle, MovesOn
  <1>6. Around(b)
    BY <1>5 DEF ReleaseUnseen, IInv, TypeOK, Around
  <1>7. batch' = [batch EXCEPT ![b] = row] /\ UNCHANGED <<run, stored>>
    BY DEF ReleaseUnseen
  <1> HIDE DEF b, row
  <1>8. QED
    BY <1>1, <1>2, <1>4, <1>6, <1>7, RowWritten

\* mark_submitted, and the 202.
LEMMA MarkSubmittedStep ==
    ASSUME IInv, NEW b \in Batch, MarkSubmitted(b)
    PROVE  IInv'
  <1>1. batch[b] \in BatchRow /\ post \in [Batch -> Post] /\ tracker \in [Owner -> Tracker]
    BY DEF IInv, TypeOK
  <1>2. /\ post' \in [Batch -> Post]
        /\ \A c \in Batch : /\ post'[c].wire = post[c].wire
                            /\ post'[c].caller \in {"none", "prepared"} => post'[c] = post[c]
                            /\ c # b => post'[c] = post[c]
    <2>1. [post[b] EXCEPT !.caller = "returned_202"] \in Post
      BY <1>1 DEF Post, CallerState
    <2>2. post'= [post EXCEPT ![b] = [post[b] EXCEPT !.caller = "returned_202"]]
      BY DEF MarkSubmitted
    <2>3. QED
      BY <1>1, <2>1, <2>2 DEF Post
  <1>3. CASE batch[b].status = "queued"
    <2> DEFINE row == [batch[b] EXCEPT !.nextPoll = 0]
    <2>1. row \in BatchRow /\ row.status = "queued"
      <3>1. 0 \in 0 .. Longest(SubmitGrace, PollDelay)
        BY ConstantsAssumption DEF Longest
      <3>2. QED
        BY <1>1, <1>3, <3>1 DEF BatchRow
    <2>2. batch' = [batch EXCEPT ![b] = row] /\ UNCHANGED <<run, stored, svc, tracker>>
      BY <1>3 DEF MarkSubmitted
    <2>3. Open(b) /\ row.status \in {"queued", "running"}
      BY <1>3, <2>1 DEF Open
    <2>4. Around(b)
      BY <1>1, <1>2, <2>2 DEF MovesOn, Around, IInv, TypeOK
    <2> HIDE DEF row
    <2>5. QED
      BY <2>1, <2>2, <2>3, <2>4, RowWritten
  <1>4. CASE batch[b].status # "queued"
    <2>1. UNCHANGED <<batch, run, stored, svc, tracker>>
      BY <1>4 DEF MarkSubmitted
    <2>2. TypeOK' /\ ServiceInv' /\ PollInv' /\ BlankInv'
      BY <1>2, <2>1 DEF IInv, TypeOK, ServiceInv, PollInv, Faithful, Polling, BlankInv, MarkSubmitted
    <2>3. LeaseInv' /\ VerdictSummarises' /\ RecordedOutcomeIsReal' /\ AvailableIsStored'
      BY <2>1 DEF IInv, LeaseInv, Open, VerdictSummarises, Members, RecordedOutcomeIsReal, AvailableIsStored
    <2>4. QED
      BY <2>2, <2>3 DEF IInv
  <1>5. QED
    BY <1>3, <1>4

\* The handler fails a batch no tracker has touched, and answers 503.
LEMMA FailSubmissionStep ==
    ASSUME IInv, NEW b \in Batch, FailSubmission(b)
    PROVE  IInv'
  <1>1. post \in [Batch -> Post] /\ tracker \in [Owner -> Tracker] /\ UNCHANGED <<stored, tracker, svc>>
    BY DEF IInv, TypeOK, FailSubmission
  <1>2. /\ post' \in [Batch -> Post]
        /\ \A c \in Batch : /\ post'[c].wire = post[c].wire
                            /\ post'[c].caller \in {"none", "prepared"} => post'[c] = post[c]
                            /\ c # b => post'[c] = post[c]
    <2>1. [post[b] EXCEPT !.caller = "returned_503"] \in Post
      BY <1>1 DEF Post, CallerState
    <2>2. post'= [post EXCEPT ![b] = [post[b] EXCEPT !.caller = "returned_503"]]
      BY DEF FailSubmission
    <2>3. QED
      BY <1>1, <2>1, <2>2 DEF Post
  <1>3. CASE Untouched(b)
    <2>1. PICK code \in {"submission_unknown", "submission_failed"} : FailBatchRows(b, code)
      BY <1>3 DEF FailSubmission
    <2>2. code \in FailureCode \ {"runner"} /\ Open(b)
      BY <1>3 DEF FailureCode, SubmissionCode, Untouched, Open
    <2>3. Around(b) /\ stored' = stored
      BY <1>1, <1>2 DEF MovesOn, Around, IInv, TypeOK
    <2>4. QED
      BY <2>1, <2>2, <2>3, FailedBatch
  <1>4. CASE ~Untouched(b)
    <2>1. UNCHANGED <<batch, run, stored, svc, tracker>>
      BY <1>4 DEF FailSubmission
    <2>2. TypeOK' /\ ServiceInv' /\ PollInv' /\ BlankInv'
      BY <1>2, <2>1 DEF IInv, TypeOK, ServiceInv, PollInv, Faithful, Polling, BlankInv, FailSubmission
    <2>3. LeaseInv' /\ VerdictSummarises' /\ RecordedOutcomeIsReal' /\ AvailableIsStored'
      BY <2>1 DEF IInv, LeaseInv, Open, VerdictSummarises, Members, RecordedOutcomeIsReal, AvailableIsStored
    <2>4. QED
      BY <2>2, <2>3 DEF IInv
  <1>5. QED
    BY <1>3, <1>4

\* claim_due_batch.
LEMMA ClaimStep ==
    ASSUME IInv, NEW o \in Owner, NEW b \in Batch, Claim(o, b)
    PROVE  IInv'
  <1> DEFINE row == [batch[b] EXCEPT !.owner = o, !.lease = LeaseTime]
             t == [IdleTracker EXCEPT !.pc = "polling", !.batch = b]
  <1>1. batch[b] \in BatchRow /\ post \in [Batch -> Post] /\ tracker \in [Owner -> Tracker]
    BY DEF IInv, TypeOK
  <1>2. Open(b) /\ row.status = batch[b].status /\ row.status \in {"queued", "running"}
    BY <1>1 DEF Claim, Due, Open, BatchRow
  <1>3. row \in BatchRow
    <2>1. LeaseTime \in 0 .. LeaseTime
      BY ConstantsAssumption
    <2>2. QED
      BY <1>1, <2>1 DEF BatchRow
  <1>4. t \in Tracker
    BY IdleIsFaithful DEF Tracker, TrackerState
  <1>5. batch' = [batch EXCEPT ![b] = row] /\ tracker' = [tracker EXCEPT ![o] = t]
        /\ UNCHANGED <<run, stored, svc>> /\ post' = post
    BY DEF Claim
  <1>6. tracker' \in [Owner -> Tracker] /\ \A p \in Owner : MovesOn(p, b)
    BY <1>1, <1>4, <1>5 DEF MovesOn
  <1>7. Around(b)
    BY <1>1, <1>5, <1>6 DEF Around, IInv, TypeOK
  <1> HIDE DEF row, t
  <1>8. QED
    BY <1>2, <1>3, <1>5, <1>7, RowWritten

\* create_batch: nobody knew the batch before.
LEMMA PreparedPost ==
    LET p == [NoPost EXCEPT !.caller = "prepared", !.patience = SubmitTimeout]
    IN  p \in Post /\ p.wire = "none" /\ p.caller = "prepared" /\ p.patience = SubmitTimeout
  <1>1. SubmitTimeout \in 0 .. SubmitTimeout
    BY ConstantsAssumption
  <1>2. QED
    BY <1>1 DEF NoPost, Post, CallerState, WireState

LEMMA PrepareStep ==
    ASSUME IInv, NEW b \in Batch, PrepareBatch(b)
    PROVE  IInv'
  <1> USE DEF IInv
  <1>1. PICK rows \in [Workflow -> {NoRunRow, [NoRunRow EXCEPT !.status = "queued"]}] :
             run' = [run EXCEPT ![b] = rows]
    BY DEF PrepareBatch
  <1>2. /\ batch[b].status = "none" /\ \A w \in Workflow : run[b][w] = NoRunRow
        /\ post[b].wire = "none" /\ ~svc[b].held /\ svc[b].runs = NoSnapshot
    BY DEF PrepareBatch, BlankInv, ServiceInv
  <1>3. rows \in [Workflow -> RunRow]
    <2>1. NoRunRow \in RunRow /\ [NoRunRow EXCEPT !.status = "queued"] \in RunRow
      <3>1. 0 \in Progress
        BY ConstantsAssumption DEF Progress
      <3>2. QED
        BY <3>1 DEF NoRunRow, RunRow, RunStatus, FailureCode, ShotStatus
    <2>2. QED
      BY <1>1, <2>1
  <1>4. NewBatch \in BatchRow /\ NewBatch.status = "queued"
    BY BatchRowType DEF NewBatch, NoBatchRow, TypeOK
  <1> DEFINE p == [NoPost EXCEPT !.caller = "prepared", !.patience = SubmitTimeout]
  <1>5. p \in Post /\ p.wire = "none" /\ p.caller = "prepared"
    BY PreparedPost
  <1>6. /\ batch' = [batch EXCEPT ![b] = NewBatch] /\ post' = [post EXCEPT ![b] = p]
        /\ UNCHANGED <<stored, tracker, svc>>
    BY DEF PrepareBatch
  <1> HIDE DEF p
  <1>7. /\ batch'[b] = NewBatch /\ run'[b] = rows /\ post'[b] = p
        /\ \A c \in Batch \ {b} : batch'[c] = batch[c] /\ run'[c] = run[c] /\ post'[c] = post[c]
    BY <1>1, <1>6 DEF TypeOK
  <1>8. \A w \in Workflow : rows[w].step = 0 /\ rows[w].status \in {"none", "queued"}
                              /\ rows[w].code = "none" /\ rows[w].shot = "pending"
    BY <1>1 DEF NoRunRow
  <1>9. TypeOK'
    BY <1>1, <1>3, <1>4, <1>5, <1>6 DEF TypeOK
  <1> HIDE DEF p
  <1>10. BlankInv' /\ LeaseInv' /\ ServiceInv'
    BY <1>2, <1>4, <1>5, <1>6, <1>7 DEF BlankInv, LeaseInv, Open, ServiceInv, NoSnapshot, NoSvcRow
  <1>11. PollInv'
    <2> SUFFICES ASSUME NEW o \in Owner PROVE Faithful(tracker[o])'
      BY DEF PollInv
    <2>1. tracker'[o] = tracker[o] /\ Faithful(tracker[o])
      BY <1>6 DEF PollInv
    <2>2. CASE tracker[o].pc \in Polling
      <3>1. tracker[o].batch \in Batch \ {b}
        BY <1>2, <2>1, <2>2 DEF Faithful
      <3>2. QED
        BY <1>6, <1>7, <2>1, <3>1 DEF Faithful
    <2>3. CASE tracker[o].pc \notin Polling
      BY <2>1, <2>3 DEF Faithful, Polling
    <2>4. QED
      BY <2>2, <2>3
  <1>12. VerdictSummarises'
    BY <1>4, <1>7 DEF VerdictSummarises, Members, AllCompleted, Ready, Terminal
  <1>13. \A w \in Workflow : svc[b].runs[w].step = 0
    BY <1>2 DEF NoSnapshot, NoSvcRow
  <1>14. RecordedOutcomeIsReal'
    BY <1>6, <1>7, <1>8, <1>13 DEF RecordedOutcomeIsReal
  <1>15. AvailableIsStored'
    BY <1>6, <1>7, <1>8 DEF AvailableIsStored
  <1>16. QED
    BY <1>9, <1>10, <1>11, <1>12, <1>14, <1>15

\* Time passes.
LEMMA TickStep ==
    ASSUME IInv, Tick
    PROVE  IInv'
  <1> USE DEF IInv
  <1>1. /\ UNCHANGED <<run, stored, tracker, svc>>
        /\ \A b \in Batch : /\ batch'[b] = [batch[b] EXCEPT !.nextPoll = Down(@), !.lease = Down(@)]
                            /\ post'[b] = [post[b] EXCEPT !.patience = Down(@)]
    BY DEF Tick
  <1>2. TypeOK'
    <2>1. ASSUME NEW b \in Batch
          PROVE  batch'[b] \in BatchRow /\ post'[b] \in Post
      <3>1. batch[b] \in BatchRow /\ post[b] \in Post
        BY DEF TypeOK
      <3>2. /\ Longest(SubmitGrace, PollDelay) \in Nat /\ LeaseTime \in Nat /\ SubmitTimeout \in Nat
            /\ batch[b].nextPoll \in 0 .. Longest(SubmitGrace, PollDelay)
            /\ batch[b].lease \in 0 .. LeaseTime /\ post[b].patience \in 0 .. SubmitTimeout
        BY <3>1, ConstantsAssumption DEF BatchRow, Post, Longest
      <3>3. /\ Down(batch[b].nextPoll) \in 0 .. Longest(SubmitGrace, PollDelay)
            /\ Down(batch[b].lease) \in 0 .. LeaseTime
            /\ Down(post[b].patience) \in 0 .. SubmitTimeout
        BY <3>2, DownType
      <3>4. batch'[b] = [batch[b] EXCEPT !.nextPoll = Down(@), !.lease = Down(@)]
            /\ post'[b] = [post[b] EXCEPT !.patience = Down(@)]
        BY DEF Tick
      <3>5. batch'[b] \in BatchRow
        BY <3>1, <3>3, <3>4 DEF BatchRow
      <3>6. post'[b] \in Post
        BY <3>1, <3>3, <3>4 DEF Post
      <3>7. QED
        BY <3>5, <3>6
    <2>2. batch' = [b \in Batch |-> batch'[b]] /\ post' = [b \in Batch |-> post'[b]]
      BY DEF Tick
    <2>3. QED
      BY <1>1, <2>1, <2>2 DEF TypeOK
  <1>3. \A b \in Batch :
          /\ batch'[b].status = batch[b].status /\ batch'[b].owner = batch[b].owner
          /\ batch[b].lease = 0 => batch'[b].lease = 0
          /\ post'[b].caller = post[b].caller /\ post'[b].wire = post[b].wire
    <2> SUFFICES ASSUME NEW b \in Batch
                 PROVE  /\ batch'[b].status = batch[b].status /\ batch'[b].owner = batch[b].owner
                        /\ batch[b].lease = 0 => batch'[b].lease = 0
                        /\ post'[b].caller = post[b].caller /\ post'[b].wire = post[b].wire
      OBVIOUS
    <2>1. batch[b] \in BatchRow /\ post[b] \in Post
      BY DEF TypeOK
    <2>2. /\ batch'[b] = [batch[b] EXCEPT !.nextPoll = Down(@), !.lease = Down(@)]
          /\ post'[b] = [post[b] EXCEPT !.patience = Down(@)]
      BY <1>1
    <2>3. batch'[b].status = batch[b].status /\ batch'[b].owner = batch[b].owner
          /\ batch'[b].lease = Down(batch[b].lease)
      BY <2>1, <2>2 DEF BatchRow
    <2>4. post'[b].caller = post[b].caller /\ post'[b].wire = post[b].wire
      BY <2>1, <2>2 DEF Post
    <2>5. QED
      BY <2>3, <2>4 DEF Down
  <1>4. BlankInv' /\ LeaseInv' /\ ServiceInv'
    <2>1. BlankInv'
      BY <1>1, <1>3 DEF BlankInv
    <2>2. LeaseInv'
      BY <1>3 DEF LeaseInv, Open
    <2>3. ServiceInv'
      BY <1>1, <1>3 DEF ServiceInv
    <2>4. QED
      BY <2>1, <2>2, <2>3
  <1>5. PollInv'
    BY <1>1, <1>3 DEF PollInv, Faithful, Polling
  <1>6. VerdictSummarises' /\ RecordedOutcomeIsReal' /\ AvailableIsStored'
    BY <1>1, <1>3 DEF VerdictSummarises, Members, RecordedOutcomeIsReal, AvailableIsStored
  <1>7. QED
    BY <1>2, <1>4, <1>5, <1>6

\* The row of one run after a snapshot keeps what the invariant says of rows.
LEMMA SnapshotRowFacts ==
    ASSUME IInv, NEW o \in Owner, tracker[o].pc = "apply", NEW w \in Workflow,
           NEW put \in SUBSET tracker[o].got
    PROVE  LET b == tracker[o].batch
               r == run[b][w]
               new == SnapshotRow(tracker[o], w, put)
           IN /\ new \in RunRow
              /\ new.status = "none" <=> r.status = "none"
              /\ new.status = "completed" => svc[b].runs[w].status = "completed"
              /\ new.code = "runner" => svc[b].runs[w].status = "failed"
              /\ new.step <= svc[b].runs[w].step
              /\ new.shot = "available" => r.shot = "available" \/ w \in put
  <1> DEFINE t == tracker[o]
             b == t.batch
             r == run[b][w]
             s == t.snap[w]
             applied == AppliedRow(r, s)
             new == SnapshotRow(t, w, put)
             v == svc[b].runs[w]
  <1>1. t \in Tracker /\ b \in Batch /\ Faithful(t)
    BY DEF IInv, TypeOK, PollInv, Faithful, Polling
  <1>2. r \in RunRow /\ s \in SvcRow /\ v \in SvcRow
    BY <1>1 DEF IInv, TypeOK, Tracker
  <1>3. /\ r.status = "completed" => v.status = "completed"
        /\ r.code = "runner" => v.status = "failed"
        /\ r.step <= v.step
    BY <1>1 DEF IInv, RecordedOutcomeIsReal
  <1>4. CASE r.status = "none"
    <2>1. new = r
      BY <1>4 DEF SnapshotRow
    <2>2. QED
      BY <1>2, <1>3, <2>1
  <1>5. CASE r.status # "none"
    <2>1. /\ s.status \in RunStatus /\ s.step <= v.step
          /\ s.status \in Terminal => v.status = s.status
      BY <1>1, <1>5 DEF Faithful
    <2>2. s.step \in Nat /\ s.total \in Nat /\ r.step \in Nat /\ v.step \in Nat
      BY <1>2, ConstantsAssumption DEF SvcRow, RunRow, Progress
    <2>3. applied \in RunRow
      BY <1>2, <2>1, AppliedRowType
    <2>4. /\ applied.status # "none"
          /\ applied.status = "completed" => v.status = "completed"
          /\ applied.code = "runner" => v.status = "failed"
          /\ applied.step <= v.step
          /\ applied.shot = r.shot
      <3>1. CASE r.status \in Terminal \/ (r.status # "queued" /\ s.status = "queued")
        <4>1. applied = r
          BY <3>1 DEF AppliedRow
        <4>2. QED
          BY <4>1, <1>3, <1>5
      <3>2. CASE ~(r.status \in Terminal \/ (r.status # "queued" /\ s.status = "queued"))
        <4> DEFINE current == IF s.step > s.total THEN s.total ELSE s.step
        <4>1. Longest(r.step, current) <= v.step
          BY <1>3, <2>1, <2>2 DEF Longest
        <4>2. /\ applied.status = s.status /\ applied.step = Longest(r.step, current)
              /\ applied.shot = r.shot
              /\ applied.code = IF s.status = "failed" THEN "runner" ELSE r.code
          BY <1>2, <3>2 DEF AppliedRow, RunRow
        <4> HIDE DEF applied, current, b, r, s, v
        <4>3. applied.status # "none" /\ (applied.status = "completed" => v.status = "completed")
          BY <2>1, <4>2 DEF RunStatus, Terminal
        <4>4. applied.code = "runner" => v.status = "failed"
          BY <1>3, <2>1, <4>2 DEF Terminal
        <4>5. QED
          BY <4>1, <4>2, <4>3, <4>4
      <3>3. QED
        BY <3>1, <3>2
    <2>5. /\ new \in {applied, MarkAvailable(applied), MarkUnavailable(applied)}
          /\ w \notin put => new \in {applied, MarkUnavailable(applied)}
      BY <1>5 DEF SnapshotRow
    <2> HIDE DEF applied, new, b, r, s, v
    <2>6. new \in RunRow
      BY <2>3, <2>5, RunRowType DEF FailureCode
    <2>7. /\ new.status = applied.status /\ new.code = applied.code /\ new.step = applied.step
          /\ new.shot = "available" => applied.shot = "available" \/ w \in put
      BY <2>3, <2>5 DEF MarkAvailable, MarkUnavailable, RunRow
    <2>8. QED
      BY <1>5, <2>4, <2>6, <2>7 DEF b, r, v, new
  <1>6. QED
    BY <1>4, <1>5

\* apply_snapshot, committed.
LEMMA ApplyStep ==
    ASSUME IInv, NEW o \in Owner, ApplySnapshot(o)
    PROVE  IInv'
  <1>a. PICK t \in Tracker, b \in Batch : t = tracker[o] /\ b = t.batch
    <2>1. tracker[o] \in Tracker /\ tracker[o].batch \in Batch
      BY DEF IInv, TypeOK, PollInv, Faithful, Polling, ApplySnapshot
    <2>2. QED
      BY <2>1
  <1>1. t.pc = "apply" /\ batch[b].lease > 0 /\ t.got \subseteq Workflow
    BY <1>a DEF ApplySnapshot, HoldsLease, Tracker
  <1>2. Open(b) /\ batch[b] \in BatchRow /\ post \in [Batch -> Post] /\ post' = post /\ svc' = svc
    BY <1>1 DEF IInv, LeaseInv, TypeOK, ApplySnapshot
  <1>3. PICK put \in SUBSET tracker[o].got :
             LET rs == [w \in Workflow |-> SnapshotRow(tracker[o], w, put)] IN
             /\ stored' = stored \cup {<<tracker[o].batch, w>> : w \in put}
             /\ run' = [run EXCEPT ![tracker[o].batch] = rs]
             /\ batch' = [batch EXCEPT ![tracker[o].batch] = IF Ready(rs) THEN Finalized(@, rs)
                                                                           ELSE Released(@)]
    BY DEF ApplySnapshot
  <1> DEFINE rows == [w \in Workflow |-> SnapshotRow(t, w, put)]
             row == IF Ready(rows) THEN Finalized(batch[b], rows) ELSE Released(batch[b])
  <1>4. run' = [run EXCEPT ![b] = rows] /\ batch' = [batch EXCEPT ![b] = row]
    BY <1>a, <1>3
  <1>5. stored \subseteq stored' /\ stored' \in SUBSET (Batch \X Workflow)
        /\ \A w \in put : <<b, w>> \in stored'
    BY <1>a, <1>1, <1>3 DEF IInv, TypeOK
  <1>6. ASSUME NEW w \in Workflow
        PROVE  /\ rows[w] \in RunRow
               /\ rows[w].status = "none" <=> run[b][w].status = "none"
               /\ rows[w].status = "completed" => svc[b].runs[w].status = "completed"
               /\ rows[w].code = "runner" => svc[b].runs[w].status = "failed"
               /\ rows[w].step <= svc[b].runs[w].step
               /\ rows[w].shot = "available" => <<b, w>> \in stored'
    <2>1. rows[w] = SnapshotRow(t, w, put)
      OBVIOUS
    <2>2. run[b][w].shot = "available" => <<b, w>> \in stored'
      BY <1>1, <1>5 DEF IInv, AvailableIsStored
    <2> HIDE DEF rows
    <2>3. QED
      BY <1>a, <1>1, <1>5, <2>1, <2>2, SnapshotRowFacts
  <1>7. rows \in [Workflow -> RunRow]
    BY <1>6
  <1> HIDE DEF rows
  <1>8. row \in BatchRow
    BY <1>2, BatchRowType
  <1>9. /\ row.status # "none"
        /\ row.status \in {"queued", "running"} \/ (row.owner = NoOwner /\ row.lease = 0)
        /\ row.status \in Terminal =>
             \A w \in Workflow : rows[w].status # "none" => rows[w].status \in Terminal
        /\ row.status = "completed" => AllCompleted(rows) /\ Ready(rows)
    <2>1. CASE Ready(rows)
      <3>1. /\ row.status = IF AllCompleted(rows) THEN "completed" ELSE "failed"
            /\ row.owner = NoOwner /\ row.lease = 0
        BY <1>2, <2>1 DEF Finalized, BatchRow
      <3>2. QED
        BY <2>1, <3>1 DEF Ready, Terminal
    <2>2. CASE ~Ready(rows)
      <3>1. row.status = IF batch[b].status = "queued" THEN "running" ELSE batch[b].status
        BY <1>2, <2>2 DEF Released, BatchRow
      <3>2. row.status \in {"queued", "running"}
        BY <1>2, <3>1 DEF Open
      <3>3. QED
        BY <3>2 DEF Terminal
    <2>3. QED
      BY <2>1, <2>2
  <1>10. tracker' \in [Owner -> Tracker] /\ \A p \in Owner : MovesOn(p, b)
    BY <1>a, IdleIsFaithful DEF IInv, TypeOK, ApplySnapshot, ToIdle, MovesOn
  <1>11. batch[b].status # "none"
    BY <1>2 DEF Open
  <1>12. Around(b)
    BY <1>2, <1>5, <1>10 DEF Around
  <1>13. Agree(b, row, rows)
    BY <1>6, <1>7, <1>8, <1>9 DEF Agree
  <1> HIDE DEF row
  <1>14. QED
    BY <1>4, <1>11, <1>12, <1>13, Written

\* What a delivery does to the POST: it may also note that the service was late.
LEMMA DeliveryAnswer ==
    ASSUME NEW b \in Batch, post \in [Batch -> Post], SvcAccept(b) \/ SvcRefuse(b)
    PROVE  \E p \in Post, end \in {"accepted", "refused", "dropped"} :
             /\ post' = [post EXCEPT ![b] = p]
             /\ p.wire = end /\ p.caller = post[b].caller /\ p.patience = post[b].patience
             /\ post[b].unsure => p.unsure
             /\ end = "accepted" => SvcAccept(b) /\ (Late(b) => p.unsure)
             /\ end # "accepted" => svc' = svc
  <1>1. post[b] \in Post
    OBVIOUS
  <1>2. CASE SvcAccept(b)
    <2>0. post[b].unsure \in BOOLEAN
      BY <1>1 DEF Post
    <2>1. PICK u \in BOOLEAN : (post[b].unsure \/ Late(b)) = u
      BY <2>0, Zenon
    <2>2. (post[b].unsure => u) /\ (Late(b) => u)
      BY <2>0, <2>1, Zenon
    <2> DEFINE p == [post[b] EXCEPT !.wire = "accepted", !.unsure = u]
    <2>3. /\ p \in Post /\ p.wire = "accepted" /\ p.caller = post[b].caller
          /\ p.patience = post[b].patience /\ p.unsure = u
      BY <1>1 DEF Post, WireState
    <2>4. post' = [post EXCEPT ![b].wire = "accepted", ![b].unsure = post[b].unsure \/ Late(b)]
      BY <1>1, <1>2 DEF SvcAccept, Post
    <2>5. post' = [post EXCEPT ![b].wire = "accepted", ![b].unsure = u]
      BY <2>1, <2>4, Zenon
    <2>7. post' = [post EXCEPT ![b] = p]
      BY <1>1, <2>5 DEF Post
    <2> HIDE DEF p
    <2>6. QED
      BY <1>2, <2>2, <2>3, <2>7
  <1>3. CASE SvcRefuse(b)
    <2>1. PICK end \in {"refused", "dropped"} :
               post' = [post EXCEPT ![b] = [post[b] EXCEPT !.wire = end]]
      BY <1>3 DEF SvcRefuse
    <2> DEFINE p == [post[b] EXCEPT !.wire = end]
    <2>2. /\ p \in Post /\ p.wire = end /\ p.caller = post[b].caller
          /\ p.patience = post[b].patience /\ p.unsure = post[b].unsure
      BY <1>1 DEF Post, WireState
    <2>3. post' = [post EXCEPT ![b] = p] /\ svc' = svc
      BY <1>3, <2>1 DEF SvcRefuse
    <2> HIDE DEF p
    <2>4. QED
      BY <2>2, <2>3
  <1>4. QED
    BY <1>2, <1>3

\* The service takes a batch, refuses it, or never receives it.
LEMMA DeliveryStep ==
    ASSUME IInv, NEW b \in Batch, SvcAccept(b) \/ SvcRefuse(b)
    PROVE  IInv'
  <1> USE DEF IInv
  <1>1. PICK p \in Post, end \in {"accepted", "refused", "dropped"} :
             /\ post' = [post EXCEPT ![b] = p]
             /\ p.wire = end /\ p.caller = post[b].caller
             /\ end = "accepted" => SvcAccept(b)
             /\ end # "accepted" => svc' = svc
    BY DeliveryAnswer DEF TypeOK
  <1>2. /\ UNCHANGED <<batch, run, stored, tracker>> /\ post[b].wire = "sent"
        /\ post \in [Batch -> Post] /\ tracker \in [Owner -> Tracker]
    BY DEF SvcAccept, SvcRefuse, TypeOK
  <1>3. /\ batch[b].status # "none" /\ ~svc[b].held /\ svc[b].runs = NoSnapshot
        /\ post[b].caller \notin {"none", "prepared"}
    BY <1>2 DEF BlankInv, ServiceInv
  <1>4. p \in Post /\ p.wire = end /\ p.caller = post[b].caller
    BY <1>1
  <1>5. post' = [post EXCEPT ![b] = p]
    BY <1>1
  <1>6. /\ post' \in [Batch -> Post] /\ post'[b] = p
        /\ \A c \in Batch \ {b} : post'[c] = post[c]
    BY <1>2, <1>4, <1>5
  <1> DEFINE rs == [w \in Workflow |-> IF w \in Members(b) THEN [NoSvcRow EXCEPT !.status = "queued"]
                                                        ELSE NoSvcRow]
  <1>7. svc' = IF end = "accepted" THEN [svc EXCEPT ![b] = [held |-> TRUE, runs |-> rs]] ELSE svc
    BY <1>1 DEF SvcAccept
  <1>8. /\ rs \in [Workflow -> SvcRow]
        /\ \A w \in Workflow : /\ rs[w].status = IF run[b][w].status = "none" THEN "none" ELSE "queued"
                               /\ rs[w].step = 0
    <2>1. 0 \in Progress
      BY ConstantsAssumption DEF Progress
    <2>2. QED
      BY <2>1 DEF Members, NoSvcRow, SvcRow, RunStatus
  <1> HIDE DEF rs
  <1>9. /\ \A c \in Batch \ {b} : svc'[c] = svc[c]
        /\ end = "accepted" => svc'[b].held /\ svc'[b].runs = rs
        /\ end # "accepted" => svc'[b] = svc[b]
        /\ svc' \in [Batch -> [held : BOOLEAN, runs : [Workflow -> SvcRow]]]
    BY <1>7, <1>8 DEF TypeOK
  <1>10. TypeOK'
    BY <1>2, <1>6, <1>9 DEF TypeOK
  <1>11. BlankInv'
    BY <1>2, <1>3, <1>6 DEF BlankInv
  <1>12. LeaseInv' /\ VerdictSummarises' /\ AvailableIsStored'
    BY <1>2 DEF LeaseInv, Open, VerdictSummarises, Members, AvailableIsStored
  <1>13. ServiceInv'
    <2> SUFFICES ASSUME NEW c \in Batch
                 PROVE  (/\ post[c].caller \in {"none", "prepared"} => post[c].wire = "none"
                         /\ post[c].wire # "accepted" => ~svc[c].held /\ svc[c].runs = NoSnapshot
                         /\ svc[c].held => \A w \in Workflow : run[c][w].status # "none" =>
                                           svc[c].runs[w].status \in RunStatus
                         /\ \A w \in Workflow : run[c][w].status = "none" => svc[c].runs[w].status = "none"
                         /\ ~svc[c].held => \A w \in Workflow :
                                           svc[c].runs[w].status \notin {"queued", "running"})'
      BY DEF ServiceInv
    <2>1. CASE c # b
      BY <1>2, <1>6, <1>9, <2>1 DEF ServiceInv
    <2>2. CASE c = b /\ end # "accepted"
      BY <1>2, <1>3, <1>4, <1>6, <1>9, <2>2 DEF ServiceInv
    <2>3. CASE c = b /\ end = "accepted"
      BY <1>2, <1>3, <1>4, <1>6, <1>8, <1>9, <2>3 DEF RunStatus
    <2>4. QED
      BY <2>1, <2>2, <2>3
  <1>14. PollInv'
    <2> SUFFICES ASSUME NEW o \in Owner PROVE Faithful(tracker[o])'
      BY DEF PollInv
    <2>1. Faithful(tracker[o]) /\ tracker'[o] = tracker[o]
      BY <1>2 DEF PollInv
    <2>2. CASE tracker[o].pc \in {"snapshot", "apply"}
      <3>1. tracker[o].batch \in Batch \ {b}
        BY <1>2, <2>1, <2>2 DEF Faithful, Polling
      <3>2. QED
        BY <1>2, <1>6, <1>9, <2>1, <3>1 DEF Faithful
    <2>3. CASE tracker[o].pc \notin {"snapshot", "apply"}
      BY <1>2, <2>1, <2>3 DEF Faithful
    <2>4. QED
      BY <2>2, <2>3
  <1>15. RecordedOutcomeIsReal'
    <2> SUFFICES ASSUME NEW c \in Batch, NEW w \in Workflow
                 PROVE  (/\ run[c][w].status = "completed" => svc[c].runs[w].status = "completed"
                         /\ run[c][w].code = "runner" => svc[c].runs[w].status = "failed"
                         /\ run[c][w].step <= svc[c].runs[w].step)'
      BY DEF RecordedOutcomeIsReal
    <2>1. CASE c # b \/ end # "accepted"
      <3>1. svc'[c] = svc[c]
        BY <1>9, <2>1
      <3>2. QED
        BY <1>2, <3>1 DEF RecordedOutcomeIsReal
    <2>2. CASE c = b /\ end = "accepted"
      <3>1. svc[b].runs[w] = NoSvcRow
        BY <1>3 DEF NoSnapshot
      <3>2. /\ run[b][w].status # "completed" /\ run[b][w].code # "runner"
            /\ run[b][w].step <= 0
        BY <3>1 DEF RecordedOutcomeIsReal, NoSvcRow
      <3>3. QED
        BY <1>2, <1>8, <1>9, <2>2, <3>2
    <2>3. QED
      BY <2>1, <2>2
  <1>16. QED
    BY <1>10, <1>11, <1>12, <1>13, <1>14, <1>15

\* What the service knows only moves forward: any step of it that respects that,
\* forgetting a batch included, keeps the invariant.
LEMMA ServiceMoves ==
    ASSUME IInv, UNCHANGED <<batch, run, stored, post, tracker>>,
           svc' \in [Batch -> [held : BOOLEAN, runs : [Workflow -> SvcRow]]],
           \A b \in Batch :
             svc'[b] = svc[b] \/
             /\ post[b].wire = "accepted" /\ (svc'[b].held => svc[b].held)
             /\ \A w \in Workflow :
                  LET old == svc[b].runs[w]
                      new == svc'[b].runs[w]
                  IN /\ old.step <= new.step
                     /\ old.status \in Terminal \cup {"none"} => new.status = old.status
                     /\ svc'[b].held /\ old.status \in RunStatus => new.status \in RunStatus
                     /\ ~svc'[b].held => new.status \notin {"queued", "running"}
    PROVE  IInv'
  <1> USE DEF IInv
  <1>1. TypeOK'
    BY DEF TypeOK
  <1>2. BlankInv' /\ LeaseInv' /\ VerdictSummarises' /\ AvailableIsStored'
    BY DEF BlankInv, LeaseInv, Open, VerdictSummarises, Members, AvailableIsStored
  <1>3. ASSUME NEW b \in Batch, NEW w \in Workflow
        PROVE  /\ svc[b].runs[w].step <= svc'[b].runs[w].step
               /\ svc[b].runs[w].status \in Terminal \cup {"none"} =>
                    svc'[b].runs[w].status = svc[b].runs[w].status
               /\ svc[b].runs[w].step \in Int /\ svc'[b].runs[w].step \in Int
               /\ run[b][w].step \in Int
    <2>1. svc[b].runs[w] \in SvcRow /\ svc'[b].runs[w] \in SvcRow /\ run[b][w] \in RunRow
      BY DEF TypeOK
    <2>2. svc[b].runs[w].step \in Int /\ svc'[b].runs[w].step \in Int /\ run[b][w].step \in Int
      BY <2>1, ConstantsAssumption DEF SvcRow, RunRow, Progress
    <2>3. QED
      BY <2>2
  <1>4. RecordedOutcomeIsReal'
    BY <1>3 DEF RecordedOutcomeIsReal, Terminal
  <1>5. ServiceInv'
    <2> SUFFICES ASSUME NEW c \in Batch
                 PROVE  (/\ post[c].caller \in {"none", "prepared"} => post[c].wire = "none"
                         /\ post[c].wire # "accepted" => ~svc[c].held /\ svc[c].runs = NoSnapshot
                         /\ svc[c].held => \A w \in Workflow : run[c][w].status # "none" =>
                                           svc[c].runs[w].status \in RunStatus
                         /\ \A w \in Workflow : run[c][w].status = "none" => svc[c].runs[w].status = "none"
                         /\ ~svc[c].held => \A w \in Workflow :
                                           svc[c].runs[w].status \notin {"queued", "running"})'
      BY DEF ServiceInv
    <2>1. CASE svc'[c] = svc[c]
      BY <2>1 DEF ServiceInv
    <2>2. CASE svc'[c] # svc[c]
      <3>1. /\ post[c].wire = "accepted" /\ post[c].caller \notin {"none", "prepared"}
            /\ svc'[c].held => svc[c].held
        BY <2>2 DEF ServiceInv
      <3>2. ASSUME NEW w \in Workflow, svc'[c].held, run[c][w].status # "none"
            PROVE  svc'[c].runs[w].status \in RunStatus
        <4>1. svc[c].runs[w].status \in RunStatus
          BY <3>1, <3>2 DEF ServiceInv
        <4>2. QED
          BY <2>2, <3>2, <4>1
      <3>3. ASSUME NEW w \in Workflow, run[c][w].status = "none"
            PROVE  svc'[c].runs[w].status = "none"
        <4>1. svc[c].runs[w].status = "none"
          BY <3>3 DEF ServiceInv
        <4>2. QED
          BY <1>3, <4>1
      <3>4. ASSUME NEW w \in Workflow, ~svc'[c].held
            PROVE  svc'[c].runs[w].status \notin {"queued", "running"}
        BY <2>2, <3>4
      <3>5. QED
        BY <3>1, <3>2, <3>3, <3>4
    <2>3. QED
      BY <2>1, <2>2
  <1>6. PollInv'
    <2> SUFFICES ASSUME NEW o \in Owner PROVE Faithful(tracker[o])'
      BY DEF PollInv
    <2>1. Faithful(tracker[o]) /\ tracker[o] \in Tracker
      BY DEF PollInv, TypeOK
    <2>2. CASE tracker[o].pc \in {"snapshot", "apply"}
      <3>1. tracker[o].batch \in Batch
        BY <2>1, <2>2 DEF Faithful, Polling
      <3>2. ASSUME NEW w \in Workflow
            PROVE  tracker[o].snap[w].step \in Int
        <4>1. tracker[o].snap[w] \in SvcRow
          BY <2>1 DEF Tracker
        <4>2. QED
          BY <4>1, ConstantsAssumption DEF SvcRow, Progress
      <3>3. ASSUME NEW w \in Workflow
            PROVE  /\ tracker[o].snap[w].status \in Terminal =>
                        svc'[tracker[o].batch].runs[w].status = tracker[o].snap[w].status
                   /\ tracker[o].snap[w].step <= svc'[tracker[o].batch].runs[w].step
        BY <1>3, <2>1, <2>2, <3>1, <3>2 DEF Faithful
      <3>4. QED
        BY <2>1, <2>2, <3>1, <3>3 DEF Faithful
    <2>3. CASE tracker[o].pc \notin {"snapshot", "apply"}
      BY <2>1, <2>3 DEF Faithful
    <2>4. QED
      BY <2>2, <2>3
  <1>7. QED
    BY <1>1, <1>2, <1>4, <1>5, <1>6

\* The service writes the row of one run: its status, progress or thumbnail.
LEMMA SetSvcRunStep ==
    ASSUME IInv, NEW b \in Batch, NEW w \in Workflow, NEW row \in SvcRow, SetSvcRun(b, w, row),
           svc[b].runs[w].step <= row.step,
           \/ row.status = svc[b].runs[w].status /\ svc[b].runs[w].thumb # "none"
           \/ /\ svc[b].held /\ svc[b].runs[w].status \in {"queued", "running"}
              /\ row.status \in RunStatus
    PROVE  IInv'
  <1>1. /\ UNCHANGED <<batch, run, stored, post, tracker>>
        /\ svc' = [svc EXCEPT ![b].runs[w] = row]
    BY DEF SetSvcRun
  <1>2. svc \in [Batch -> [held : BOOLEAN, runs : [Workflow -> SvcRow]]]
    BY DEF IInv, TypeOK
  <1> DEFINE rs == [svc[b].runs EXCEPT ![w] = row]
  <1>3. /\ rs \in [Workflow -> SvcRow] /\ rs[w] = row
        /\ \A v \in Workflow \ {w} : rs[v] = svc[b].runs[v]
    BY <1>2
  <1>4. [svc[b] EXCEPT !.runs = rs] = [held |-> svc[b].held, runs |-> rs]
    BY <1>2
  <1>5. /\ svc'[b] = [svc[b] EXCEPT !.runs = rs]
        /\ \A c \in Batch \ {b} : svc'[c] = svc[c]
        /\ svc' = [c \in Batch |-> svc'[c]]
    BY <1>1, <1>2
  <1> HIDE DEF rs
  <1>6. /\ svc' \in [Batch -> [held : BOOLEAN, runs : [Workflow -> SvcRow]]]
        /\ svc'[b].held = svc[b].held /\ svc'[b].runs = rs
        /\ \A c \in Batch \ {b} : svc'[c] = svc[c]
    <2>1. \A c \in Batch : svc'[c] \in [held : BOOLEAN, runs : [Workflow -> SvcRow]]
      BY <1>2, <1>3, <1>4, <1>5
    <2>2. QED
      BY <1>4, <1>5, <2>1
  <1>7. post[b].wire = "accepted"
    BY DEF IInv, ServiceInv, NoSnapshot, NoSvcRow
  <1>8. ASSUME NEW v \in Workflow
        PROVE  LET old == svc[b].runs[v]
                   new == svc'[b].runs[v]
               IN /\ old.step <= new.step
                  /\ old.status \in Terminal \cup {"none"} => new.status = old.status
                  /\ svc'[b].held /\ old.status \in RunStatus => new.status \in RunStatus
                  /\ ~svc'[b].held => new.status \notin {"queued", "running"}
    <2>1. svc[b].runs[v] \in SvcRow /\ svc[b].runs[v].step \in Int
      BY <1>2, ConstantsAssumption DEF SvcRow, Progress
    <2>2. ~svc[b].held => svc[b].runs[v].status \notin {"queued", "running"}
      BY DEF IInv, ServiceInv
    <2>3. CASE v = w
      BY <1>3, <1>6, <2>2, <2>3 DEF Terminal
    <2>4. CASE v # w
      BY <1>3, <1>6, <2>1, <2>2, <2>4
    <2>5. QED
      BY <2>3, <2>4
  <1>9. QED
    BY <1>1, <1>6, <1>7, <1>8, ServiceMoves

\* applyEvent, applyOutcome and the end of a capability.
LEMMA SvcRunStep ==
    ASSUME IInv, NEW b \in Batch, NEW w \in Workflow,
           SvcEvent(b, w) \/ SvcOutcome(b, w) \/ SvcThumbExpires(b, w)
    PROVE  IInv'
  <1> DEFINE r == svc[b].runs[w]
  <1>1. r \in SvcRow /\ r.step \in Nat /\ MaxStep \in Nat /\ r.total \in 0 .. MaxStep
    BY ConstantsAssumption DEF IInv, TypeOK, SvcRow, Progress
  <1>2. CASE SvcEvent(b, w)
    <2>1. svc[b].held /\ r.status \in {"queued", "running"}
      BY <1>2 DEF SvcEvent
    <2>2. CASE r.status = "queued" /\ SetSvcRun(b, w, [r EXCEPT !.status = "running"])
      <3>1. /\ [r EXCEPT !.status = "running"] \in SvcRow
            /\ [r EXCEPT !.status = "running"].status \in RunStatus
            /\ r.step <= [r EXCEPT !.status = "running"].step
        BY <1>1 DEF SvcRow, RunStatus
      <3>2. QED
        BY <2>1, <2>2, <3>1, SetSvcRunStep
    <2>3. CASE r.status = "running" /\ SetSvcRun(b, w, [r EXCEPT !.total = MaxStep])
      <3>1. /\ [r EXCEPT !.total = MaxStep] \in SvcRow
            /\ [r EXCEPT !.total = MaxStep].status = r.status
            /\ r.step <= [r EXCEPT !.total = MaxStep].step
        BY <1>1 DEF SvcRow, Progress
      <3>2. QED
        BY <2>1, <2>3, <3>1, SetSvcRunStep DEF RunStatus
    <2>4. CASE /\ r.status = "running" /\ r.step < r.total
               /\ SetSvcRun(b, w, [r EXCEPT !.step = @ + 1])
      <3>1. r.step + 1 \in Progress
        BY <1>1, <2>4 DEF Progress
      <3>2. /\ [r EXCEPT !.step = @ + 1] \in SvcRow
            /\ [r EXCEPT !.step = @ + 1].status = r.status
            /\ r.step <= [r EXCEPT !.step = @ + 1].step
        BY <1>1, <3>1 DEF SvcRow
      <3>3. QED
        BY <2>1, <2>4, <3>2, SetSvcRunStep DEF RunStatus
    <2>5. QED
      BY <1>2, <2>2, <2>3, <2>4 DEF SvcEvent
  <1>3. CASE SvcOutcome(b, w)
    <2>1. PICK end \in Terminal, thumb \in {"none", "live"} :
               SetSvcRun(b, w, [r EXCEPT !.status = end, !.thumb = thumb])
      BY <1>3 DEF SvcOutcome
    <2>2. svc[b].held /\ r.status \in {"queued", "running"}
      BY <1>3 DEF SvcOutcome
    <2> DEFINE row == [r EXCEPT !.status = end, !.thumb = thumb]
    <2>3. row \in SvcRow /\ row.status \in RunStatus /\ r.step <= row.step
      <3>1. row.status = end /\ row.step = r.step /\ end \in RunStatus
        BY <1>1 DEF SvcRow, RunStatus
      <3>2. row \in SvcRow
        BY <1>1, <3>1 DEF SvcRow
      <3>3. QED
        BY <1>1, <3>1, <3>2
    <2> HIDE DEF row
    <2>4. QED
      BY <2>1, <2>2, <2>3, SetSvcRunStep DEF row
  <1>4. CASE SvcThumbExpires(b, w)
    <2> DEFINE row == [r EXCEPT !.thumb = "expired"]
    <2>1. SetSvcRun(b, w, row) /\ r.thumb # "none"
      BY <1>4 DEF SvcThumbExpires
    <2>2. row \in SvcRow /\ row.status = r.status /\ r.step <= row.step
      BY <1>1 DEF SvcRow
    <2> HIDE DEF row
    <2>3. QED
      BY <2>1, <2>2, SetSvcRunStep
  <1>5. QED
    BY <1>2, <1>3, <1>4

\* The service forgets one batch, or everything.
LEMMA ForgetStep ==
    ASSUME IInv, (\E b \in Batch : SvcBatchExpires(b)) \/ SvcRestart
    PROVE  IInv'
  <1>1. svc \in [Batch -> [held : BOOLEAN, runs : [Workflow -> SvcRow]]]
    BY DEF IInv, TypeOK
  <1>2. \A c \in Batch, w \in Workflow : svc[c].runs[w] \in SvcRow /\ svc[c].runs[w].step \in Int
    BY <1>1, ConstantsAssumption DEF SvcRow, Progress
  <1>3. ASSUME NEW b \in Batch, SvcBatchExpires(b) PROVE IInv'
    <2>1. /\ svc' = [svc EXCEPT ![b] = [@ EXCEPT !.held = FALSE]]
          /\ UNCHANGED <<batch, run, stored, post, tracker>>
      BY <1>3 DEF SvcBatchExpires
    <2>2. /\ svc' \in [Batch -> [held : BOOLEAN, runs : [Workflow -> SvcRow]]]
          /\ ~svc'[b].held /\ svc'[b].runs = svc[b].runs
          /\ \A c \in Batch \ {b} : svc'[c] = svc[c]
      BY <1>1, <2>1
    <2>3. post[b].wire = "accepted"
      BY <1>3 DEF SvcBatchExpires, IInv, ServiceInv
    <2>4. \A w \in Workflow : svc[b].runs[w].status \notin {"queued", "running"}
      BY <1>3 DEF SvcBatchExpires, Members, IInv, ServiceInv, Terminal
    <2>5. QED
      BY <1>2, <2>1, <2>2, <2>3, <2>4, ServiceMoves
  <1>4. CASE SvcRestart
    <2> DEFINE left(c) ==
          [held |-> FALSE,
           runs |-> [w \in Workflow |->
                       [svc[c].runs[w] EXCEPT
                          !.status = IF @ \in {"queued", "running"} THEN "lost" ELSE @,
                          !.thumb = IF @ = "live" THEN "expired" ELSE @]]]
    <2>1. svc' = [c \in Batch |-> left(c)] /\ UNCHANGED <<batch, run, stored, post, tracker>>
      BY <1>4 DEF SvcRestart
    <2>2. ASSUME NEW c \in Batch, NEW w \in Workflow
          PROVE  /\ left(c).runs[w] \in SvcRow
                 /\ left(c).runs[w].step = svc[c].runs[w].step
                 /\ left(c).runs[w].status = IF svc[c].runs[w].status \in {"queued", "running"}
                                             THEN "lost" ELSE svc[c].runs[w].status
                 /\ svc[c].runs[w].thumb = "none" => left(c).runs[w] = svc[c].runs[w] \/
                                                     svc[c].runs[w].status \in {"queued", "running"}
      <3>1. svc[c].runs[w] \in SvcRow
        BY <1>2
      <3>2. QED
        BY <3>1 DEF SvcRow
    <2>3. ASSUME NEW c \in Batch, post[c].wire # "accepted"
          PROVE  svc'[c] = svc[c]
      <3>1. ~svc[c].held /\ svc[c].runs = NoSnapshot
        BY <2>3 DEF IInv, ServiceInv
      <3>2. left(c).runs = NoSnapshot
        <4>1. ASSUME NEW w \in Workflow
              PROVE  left(c).runs[w] = svc[c].runs[w]
          <5>1. svc[c].runs[w].status = "none" /\ svc[c].runs[w].thumb = "none"
            BY <3>1 DEF NoSnapshot, NoSvcRow
          <5> HIDE DEF left
          <5>2. QED
            BY <2>2, <5>1
        <4>2. QED
          BY <1>1, <3>1, <4>1
      <3>3. svc[c] = [held |-> FALSE, runs |-> NoSnapshot]
        BY <1>1, <3>1
      <3>4. QED
        BY <2>1, <3>2, <3>3
    <2>4. svc' \in [Batch -> [held : BOOLEAN, runs : [Workflow -> SvcRow]]]
      BY <2>1, <2>2
    <2>5. \A c \in Batch : svc'[c] = left(c) /\ ~svc'[c].held
      BY <2>1
    <2> HIDE DEF left
    <2>6. QED
      BY <1>2, <2>1, <2>2, <2>3, <2>4, <2>5, ServiceMoves DEF Terminal
  <1>5. QED
    BY <1>3, <1>4

\* Every step of the specification preserves the invariant.
LEMMA NextHolds == IInv /\ [Next]_vars => IInv'
  <1> SUFFICES ASSUME IInv, [Next]_vars PROVE IInv'
    OBVIOUS
  <1>1. CASE UNCHANGED vars
    BY <1>1 DEF vars, IInv, TypeOK, BlankInv, ServiceInv, PollInv, Faithful, LeaseInv, Open,
                VerdictSummarises, Members, RecordedOutcomeIsReal, AvailableIsStored
  <1>2. ASSUME NEW b \in Batch, PrepareBatch(b) PROVE IInv'
    BY <1>2, PrepareStep
  <1>3. ASSUME NEW b \in Batch, Submission(b) \/ CallerCrash(b) PROVE IInv'
    BY <1>3, CallerStep, MarkSubmittedStep, FailSubmissionStep DEF Submission
  <1>4. ASSUME NEW b \in Batch, Service(b) PROVE IInv'
    BY <1>4, DeliveryStep, SvcRunStep, ForgetStep DEF Service
  <1>5. ASSUME NEW o \in Owner, NEW b \in Batch, Claim(o, b) PROVE IInv'
    BY <1>5, ClaimStep
  <1>6. ASSUME NEW o \in Owner, Poll(o) PROVE IInv'
    BY <1>6, ReadStep, FetchStep, ApplyStep, FailLostStep, ReleaseStep, AbandonStep DEF Poll
  <1>7. ASSUME NEW o \in Owner, IterationFails(o) \/ TrackerCrash(o) PROVE IInv'
    BY <1>7, AbandonStep
  <1>8. CASE SvcRestart
    BY <1>8, ForgetStep
  <1>9. CASE Tick
    BY <1>9, TickStep
  <1>10. QED
    BY <1>1, <1>2, <1>3, <1>4, <1>5, <1>6, <1>7, <1>8, <1>9 DEF Next

\* The inductive invariant holds in every reachable state.
THEOREM Invariance == Spec => []IInv
  <1>1. Init => IInv
    BY InitHolds
  <1>2. IInv /\ [Next]_vars => IInv'
    BY NextHolds
  <1>3. QED
    BY <1>1, <1>2, PTL DEF Spec

\* Every variable keeps to its type: rows, leases and countdowns stay in range
\* whatever is reported, retried or lost.
THEOREM TypeCorrect == Spec => []TypeOK
  <1>1. IInv => TypeOK
    BY DEF IInv
  <1>2. QED
    BY <1>1, Invariance, PTL

\* finalize_batch_if_ready and fail_batch: a verdict sums up runs that have ended.
THEOREM VerdictsAreSound == Spec => []VerdictSummarises
  <1>1. IInv => VerdictSummarises
    BY DEF IInv
  <1>2. QED
    BY <1>1, Invariance, PTL

\* apply_runner_snapshot: no late, repeated or stale answer becomes a wrong result.
THEOREM OutcomesAreReal == Spec => []RecordedOutcomeIsReal
  <1>1. IInv => RecordedOutcomeIsReal
    BY DEF IInv
  <1>2. QED
    BY <1>1, Invariance, PTL

\* apply_snapshot: a screenshot the history offers was stored, whatever failed.
THEOREM OfferedShotsAreStored == Spec => []AvailableIsStored
  <1>1. IInv => AvailableIsStored
    BY DEF IInv
  <1>2. QED
    BY <1>1, Invariance, PTL

-----------------------------------------------------------------------------
(* Leases *)

\* A step under the lease of o that is not a step of o leaves the batch alone.
Undisturbed(o, b) == /\ run'[b] = run[b]
                     /\ batch'[b].status = batch[b].status
                     /\ batch'[b].lease > 0 => batch'[b].owner = o

LEMMA LeaseStep ==
    ASSUME IInv, Next, NEW b \in Batch, NEW o \in Owner,
           HoldsLease(o, b), tracker'[o] = tracker[o]
    PROVE  Undisturbed(o, b)
  <1>1. /\ batch[b].lease > 0 /\ batch[b].owner = o /\ o # NoOwner /\ Open(b)
        /\ batch \in [Batch -> BatchRow] /\ run \in [Batch -> [Workflow -> RunRow]]
        /\ tracker \in [Owner -> Tracker]
    BY ConstantsAssumption DEF HoldsLease, IInv, LeaseInv, TypeOK
  <1>2. ASSUME batch'[b] = batch[b], run'[b] = run[b] PROVE Undisturbed(o, b)
    BY <1>1, <1>2 DEF Undisturbed
  <1>3. ASSUME NEW c \in Batch, PrepareBatch(c) PROVE Undisturbed(o, b)
    <2>1. c # b
      BY <1>1, <1>3 DEF PrepareBatch, Open
    <2>2. QED
      BY <1>1, <1>2, <1>3, <2>1 DEF PrepareBatch
  <1>4. ASSUME NEW c \in Batch, Submission(c) \/ CallerCrash(c) PROVE Undisturbed(o, b)
    <2>1. CASE UNCHANGED <<batch, run>>
      BY <1>2, <2>1
    <2>2. CASE MarkSubmitted(c)
      <3>1. run' = run /\ (batch' = batch \/ batch' = [batch EXCEPT ![c] = [@ EXCEPT !.nextPoll = 0]])
        BY <2>2 DEF MarkSubmitted
      <3>2. CASE batch' = [batch EXCEPT ![c] = [@ EXCEPT !.nextPoll = 0]]
        <4>1. batch[c] \in BatchRow
          BY <1>1
        <4>2. batch'[b].status = batch[b].status /\ batch'[b].owner = batch[b].owner
          BY <1>1, <3>2, <4>1 DEF BatchRow
        <4>3. QED
          BY <1>1, <3>1, <4>2 DEF Undisturbed
      <3>3. QED
        BY <1>2, <3>1, <3>2
    <2>3. CASE FailSubmission(c) /\ Untouched(c)
      <3>1. c # b
        BY <1>1, <2>3 DEF Untouched
      <3>2. QED
        BY <1>1, <1>2, <2>3, <3>1 DEF FailSubmission, FailBatchRows
    <2>4. QED
      BY <1>4, <2>1, <2>2, <2>3
         DEF Submission, SendPost, ReadReply, RequestError, FailSubmission, CallerCrash
  <1>5. ASSUME NEW p \in Owner, NEW c \in Batch, Claim(p, c) PROVE Undisturbed(o, b)
    <2>1. c # b
      BY <1>1, <1>5 DEF Claim, Due
    <2>2. QED
      BY <1>1, <1>2, <1>5, <2>1 DEF Claim
  <1>6. ASSUME NEW p \in Owner, Poll(p) PROVE Undisturbed(o, b)
    <2>1. CASE UNCHANGED <<batch, run>>
      BY <1>2, <2>1
    <2>2. CASE ApplySnapshot(p) \/ FailLost(p) \/ ReleaseUnseen(p)
      <3>1. tracker[p].pc # "idle" /\ HoldsLease(p, tracker[p].batch) /\ tracker'[p] = IdleTracker
        BY <1>1, <2>2 DEF ApplySnapshot, FailLost, ReleaseUnseen, ToIdle
      <3>2. p # o
        BY <3>1 DEF IdleTracker
      <3>3. tracker[p].batch # b
        BY <1>1, <3>1, <3>2 DEF HoldsLease
      <3>4. batch'[b] = batch[b] /\ run'[b] = run[b]
        BY <1>1, <2>2, <3>3 DEF ApplySnapshot, FailLost, ReleaseUnseen, FailBatchRows
      <3>5. QED
        BY <1>2, <3>4
    <2>3. QED
      BY <1>6, <2>1, <2>2
         DEF Poll, ReadSnapshot, ReadMissing, ReadError, FetchScreenshots, DiscardStale
  <1>7. CASE Tick
    <2>1. batch'[b] = [batch[b] EXCEPT !.nextPoll = Down(@), !.lease = Down(@)] /\ run' = run
      BY <1>7 DEF Tick
    <2>2. batch[b] \in BatchRow
      BY <1>1
    <2>3. batch'[b].status = batch[b].status /\ batch'[b].owner = batch[b].owner
      BY <2>1, <2>2 DEF BatchRow
    <2>4. QED
      BY <1>1, <2>1, <2>3 DEF Undisturbed
  <1>8. ASSUME NEW c \in Batch, Service(c) PROVE Undisturbed(o, b)
    <2>1. UNCHANGED <<batch, run>>
      BY <1>8 DEF Service, SvcAccept, SvcRefuse, SvcBatchExpires, SvcEvent, SvcOutcome,
                  SvcThumbExpires, SetSvcRun
    <2>2. QED
      BY <1>2, <2>1
  <1>9. ASSUME NEW p \in Owner, IterationFails(p) \/ TrackerCrash(p) PROVE Undisturbed(o, b)
    BY <1>2, <1>9 DEF IterationFails, TrackerCrash
  <1>10. CASE SvcRestart
    BY <1>2, <1>10 DEF SvcRestart
  <1>11. QED
    BY <1>3, <1>4, <1>5, <1>6, <1>7, <1>8, <1>9, <1>10 DEF Next

\* lock_batch_for_update: under a running lease only its owner changes the batch,
\* however long a poll, a submission or another tracker was held up.
THEOREM LeasesIsolate == Spec => LeaseIsolation
  <1>1. IInv /\ [Next]_vars =>
          [\A b \in Batch, o \in Owner :
             HoldsLease(o, b) /\ tracker'[o] = tracker[o] =>
               /\ run'[b] = run[b]
               /\ batch'[b].status = batch[b].status
               /\ batch'[b].lease > 0 => batch'[b].owner = o]_vars
    BY LeaseStep DEF Undisturbed
  <1>2. QED
    BY <1>1, Invariance, PTL DEF Spec, LeaseIsolation

-----------------------------------------------------------------------------
(* NoFalseLoss for every value of the constants.  A run whose failure code
   says that its work is gone is not executed, unless Relay was in doubt: the
   service took the batch after its first poll was due, or Relay could not
   use what it answered.  The invariant follows the two time limits: while a
   submission is under way, either the first poll is still ahead or the
   service is already late. *)

Definite == {"execution_lost", "submission_failed"}

\* The service may still take the batch.
Pending(b) == post[b].caller = "prepared" \/ post[b].wire = "sent"

\* While it may, no tracker has touched the batch: its first poll is as far away
\* as the grace promises.  Or that poll is due, or the handler gave the batch up.
GraceOf(b) == Pending(b) =>
    \/ Late(b)
    \/ Untouched(b) /\ SubmitGrace + post[b].patience <= SubmitTimeout + batch[b].nextPoll
    \/ batch[b].status = "failed"

\* A reply was read only if the service sent one.
ReplyOf(b) ==
    /\ post[b].caller = "accepted" => post[b].wire = "accepted"
    /\ post[b].caller = "rejected" => \/ post[b].wire = "refused"
                                      \/ post[b].wire = "accepted" /\ post[b].unsure

\* A poll is about a batch that the service has, has not, or is late with, and
\* "lost" is the truth or in doubt.
LossOf(o) == tracker[o].pc \in Polling =>
    /\ Pending(tracker[o].batch) => Late(tracker[o].batch)
    /\ tracker[o].pc = "lost" => ~svc[tracker[o].batch].held \/ post[tracker[o].batch].unsure

\* So is what the rows say.
CodeOf(b) == \A w \in Workflow : run[b][w].code \in Definite =>
    /\ Pending(b) => Late(b)
    /\ svc[b].runs[w].status \in {"queued", "running"} => post[b].unsure

KInv == /\ \A b \in Batch : GraceOf(b) /\ ReplyOf(b) /\ CodeOf(b)
        /\ \A o \in Owner : LossOf(o)

\* The submission of b goes no further, and what was in doubt stays so.
Steady(b) == /\ Pending(b)' => Pending(b)
             /\ post'[b].patience = post[b].patience
             /\ post[b].unsure => post'[b].unsure

-----------------------------------------------------------------------------
\* Steps that take nothing to the service and write no row.
LEMMA QuietKeepsK ==
    ASSUME IInv, KInv, UNCHANGED <<batch, run, svc>>,
           \A c \in Batch : Steady(c) /\ ReplyOf(c)',
           \A o \in Owner : LossOf(o)'
    PROVE  KInv'
  <1>1. ASSUME NEW c \in Batch PROVE GraceOf(c)' /\ CodeOf(c)'
    <2>1. GraceOf(c) /\ CodeOf(c) /\ Steady(c)
      BY DEF KInv
    <2>2. Late(c)' <=> Late(c)
      BY <2>1 DEF Steady, Late
    <2>3. Untouched(c)' <=> Untouched(c)
      BY DEF Untouched
    <2>4. GraceOf(c)'
      BY <2>1, <2>2, <2>3 DEF GraceOf, Steady
    <2>5. CodeOf(c)'
      BY <2>1, <2>2 DEF CodeOf, Steady
    <2>6. QED
      BY <2>4, <2>5
  <1>2. QED
    BY <1>1 DEF KInv

\* A tracker that stays where it is, or stops polling, while submissions are steady.
LEMMA TrackerStays ==
    ASSUME IInv, KInv, NEW o \in Owner, \A c \in Batch : Steady(c), svc' = svc,
           tracker'[o] = tracker[o] \/ tracker'[o].pc \notin Polling
    PROVE  LossOf(o)'
  <1>1. CASE tracker'[o].pc \notin Polling
    BY <1>1 DEF LossOf, Polling
  <1>2. CASE tracker'[o] = tracker[o] /\ tracker[o].pc \in Polling
    <2>1. PICK b \in Batch : b = tracker[o].batch /\ tracker'[o].batch = b
      BY <1>2 DEF IInv, PollInv, Faithful
    <2>2. LossOf(o) /\ Steady(b)
      BY <2>1 DEF KInv
    <2>3. Late(b)' <=> Late(b)
      BY <2>2 DEF Steady, Late
    <2>4. QED
      BY <1>2, <2>1, <2>2, <2>3 DEF LossOf, Steady, Pending, Late
  <1>3. QED
    BY <1>1, <1>2

\* The handler's own steps.
LEMMA CallerKeepsK ==
    ASSUME IInv, KInv, NEW b \in Batch,
           SendPost(b) \/ ReadReply(b) \/ RequestError(b) \/ CallerCrash(b)
    PROVE  KInv'
  <1>1. /\ UNCHANGED <<batch, run, stored, tracker, svc>>
        /\ post \in [Batch -> Post] /\ post[b] \in Post
    BY DEF SendPost, ReadReply, RequestError, CallerCrash, IInv, TypeOK
  <1>2. (\A c \in Batch : Steady(c)) /\ ReplyOf(b)'
    <2>1. CASE SendPost(b)
      <3>1. /\ post'[b].caller = "posting" /\ post'[b].wire = "sent"
            /\ post'[b].patience = post[b].patience /\ post'[b].unsure = post[b].unsure
            /\ \A c \in Batch \ {b} : post'[c] = post[c]
            /\ post[b].caller = "prepared"
        BY <1>1, <2>1 DEF SendPost, Post
      <3>2. QED
        BY <3>1 DEF Steady, Pending, ReplyOf
    <2>2. CASE ReadReply(b) \/ RequestError(b) \/ CallerCrash(b)
      <3>1. PICK end \in {"accepted", "rejected", "unknown", "crashed"}, u \in BOOLEAN :
              /\ post' = [post EXCEPT ![b] = [post[b] EXCEPT !.caller = end, !.unsure = u]]
              /\ post[b].unsure => u
              /\ end = "accepted" => post[b].wire = "accepted"
              /\ end = "rejected" => post[b].wire = "refused" \/ (post[b].wire = "accepted" /\ u)
        BY <1>1, <2>2, HandlerAnswer
      <3>2. /\ post'[b].caller = end /\ post'[b].wire = post[b].wire
            /\ post'[b].patience = post[b].patience /\ post'[b].unsure = u
            /\ \A c \in Batch \ {b} : post'[c] = post[c]
        BY <1>1, <3>1 DEF Post
      <3>3. ReplyOf(b)'
        BY <3>1, <3>2 DEF ReplyOf
      <3>4. ASSUME NEW c \in Batch PROVE Steady(c)
        BY <3>1, <3>2 DEF Steady, Pending
      <3>5. QED
        BY <3>3, <3>4
    <2>3. QED
      BY <2>1, <2>2
  <1>3. \A c \in Batch \ {b} : post'[c] = post[c]
    BY <1>1 DEF SendPost, ReadReply, RequestError, CallerCrash
  <1>4. ASSUME NEW c \in Batch PROVE ReplyOf(c)'
    BY <1>2, <1>3 DEF KInv, ReplyOf
  <1>5. ASSUME NEW o \in Owner PROVE LossOf(o)'
    BY <1>1, <1>2, TrackerStays
  <1>6. QED
    BY <1>1, <1>2, <1>4, <1>5, QuietKeepsK

\* A transaction on a batch whose submission has ended, or is late.
LEMMA PolledKeepsK ==
    ASSUME IInv, KInv, NEW b \in Batch, Pending(b) => Late(b), post' = post, svc' = svc,
           \A c \in Batch \ {b} : batch'[c] = batch[c] /\ run'[c] = run[c],
           \A w \in Workflow : run'[b][w].code \in Definite =>
                run[b][w].code \in Definite \/ ~svc[b].held \/ post[b].unsure,
           \A o \in Owner : MovesOn(o, b)
    PROVE  KInv'
  <1>1. \A c \in Batch : (Pending(c)' <=> Pending(c)) /\ (Late(c)' <=> Late(c)) /\ Steady(c)
    BY DEF Pending, Late, Steady
  <1>2. ASSUME NEW c \in Batch PROVE GraceOf(c)' /\ ReplyOf(c)'
    <2>1. GraceOf(c) /\ ReplyOf(c)
      BY DEF KInv
    <2>2. ReplyOf(c)'
      BY <2>1 DEF ReplyOf
    <2>3. CASE c = b
      BY <1>1, <2>2, <2>3 DEF GraceOf
    <2>4. CASE c # b
      BY <1>1, <2>1, <2>2, <2>4 DEF GraceOf, Untouched
    <2>5. QED
      BY <2>3, <2>4
  <1>3. ASSUME NEW o \in Owner PROVE LossOf(o)'
    <2>1. CASE tracker'[o] = tracker[o]
      BY <1>1, <2>1, TrackerStays
    <2>2. CASE tracker'[o] = IdleTracker
      BY <2>2 DEF IdleTracker, Polling, LossOf
    <2>3. CASE tracker'[o] = [IdleTracker EXCEPT !.pc = "polling", !.batch = b]
      <3>1. /\ [IdleTracker EXCEPT !.pc = "polling", !.batch = b].pc = "polling"
            /\ [IdleTracker EXCEPT !.pc = "polling", !.batch = b].batch = b
        BY DEF IdleTracker
      <3>2. tracker'[o].pc = "polling" /\ tracker'[o].batch = b
        BY <2>3, <3>1, Zenon
      <3>3. Pending(b)' => Late(b)'
        BY <1>1
      <3>4. QED
        BY <3>2, <3>3 DEF LossOf, Pending, Late
    <2>4. QED
      BY <2>1, <2>2, <2>3 DEF MovesOn
  <1>4. ASSUME NEW c \in Batch PROVE CodeOf(c)'
    <2> SUFFICES ASSUME NEW w \in Workflow, run'[c][w].code \in Definite
                 PROVE  /\ Pending(c) => Late(c)
                        /\ svc[c].runs[w].status \in {"queued", "running"} => post[c].unsure
      BY <1>1 DEF CodeOf
    <2>1. CASE run[c][w].code \in Definite
      BY <2>1 DEF KInv, CodeOf
    <2>2. CASE c = b /\ (~svc[b].held \/ post[b].unsure)
      BY <2>2 DEF IInv, ServiceInv
    <2>3. QED
      BY <2>1, <2>2
  <1>5. QED
    BY <1>2, <1>3, <1>4 DEF KInv

\* A batch is claimed only when it is due: after its submission, or while it is late.
LEMMA ClaimKeepsK ==
    ASSUME IInv, KInv, NEW o \in Owner, NEW b \in Batch, Claim(o, b)
    PROVE  KInv'
  <1>1. batch[b] \in BatchRow /\ post[b] \in Post /\ batch \in [Batch -> BatchRow]
        /\ tracker \in [Owner -> Tracker]
    BY DEF IInv, TypeOK
  <1>2. post[b].patience \in Int /\ SubmitGrace \in Int /\ SubmitTimeout \in Int
    BY <1>1, ConstantsAssumption DEF Post
  <1>3. Pending(b) => Late(b)
    BY <1>2 DEF Claim, Due, KInv, GraceOf, Late
  <1>4. /\ UNCHANGED <<run, post, svc>>
        /\ \A c \in Batch \ {b} : batch'[c] = batch[c]
        /\ \A p \in Owner : MovesOn(p, b)
    BY <1>1 DEF Claim, MovesOn
  <1>5. QED
    BY <1>3, <1>4, PolledKeepsK

\* An answer is read: a usable one, or one that says the work is gone or cannot be used.
LEMMA AnswerKeepsK ==
    ASSUME IInv, KInv, NEW o \in Owner,
           ReadSnapshot(o) \/ ReadMissing(o) \/ ReadError(o) \/ FetchScreenshots(o)
    PROVE  KInv'
  <1>1. /\ tracker \in [Owner -> Tracker] /\ tracker[o] \in Tracker
        /\ post \in [Batch -> Post] /\ UNCHANGED <<batch, run, svc>>
        /\ tracker[o].pc \in Polling
    BY DEF IInv, TypeOK, Polling, ReadSnapshot, ReadMissing, ReadError, FetchScreenshots
  <1>2. PICK b \in Batch : b = tracker[o].batch
    BY <1>1 DEF IInv, PollInv, Faithful
  <1>3. /\ tracker'[o].batch = b
        /\ \A p \in Owner \ {o} : tracker'[p] = tracker[p]
        /\ tracker'[o].pc = "lost" => ReadMissing(o)
    <2>1. CASE ReadSnapshot(o)
      BY <1>1, <1>2, <2>1 DEF ReadSnapshot, Tracker
    <2>2. CASE ReadMissing(o) \/ ReadError(o)
      BY <1>1, <1>2, <2>2 DEF ReadMissing, ReadError, Goto, Tracker
    <2>3. CASE FetchScreenshots(o)
      <3>1. PICK got \in SUBSET Workflow, retry \in BOOLEAN :
                 tracker' = [tracker EXCEPT ![o] = [tracker[o] EXCEPT !.pc = "apply", !.got = got,
                                                                     !.retry = retry]]
        BY <2>3 DEF FetchScreenshots, ReportedShots
      <3> DEFINE u == [tracker[o] EXCEPT !.pc = "apply", !.got = got, !.retry = retry]
      <3>2. u.pc = "apply" /\ u.batch = tracker[o].batch
        BY <1>1 DEF Tracker
      <3> HIDE DEF u
      <3>3. tracker'[o] = u /\ \A p \in Owner \ {o} : tracker'[p] = tracker[p]
        BY <1>1, <3>1 DEF u
      <3>4. QED
        BY <1>2, <3>2, <3>3
    <2>4. QED
      BY <2>1, <2>2, <2>3
  <1>4. CASE post' = post
    <2>1. \A c \in Batch : Steady(c)
      BY <1>4 DEF Steady, Pending
    <2>2. tracker'[o].pc = "lost" => ~svc[b].held \/ post[b].unsure
      <3>1. ASSUME ReadMissing(o), svc[b].held PROVE post[b].unsure
        <4>1. post' = [post EXCEPT ![b] = [@ EXCEPT !.unsure = TRUE]]
          BY <1>2, <3>1 DEF ReadMissing
        <4>2. post'[b].unsure
          BY <1>1, <1>2, <4>1 DEF Post
        <4>3. QED
          BY <1>4, <4>2
      <3>2. QED
        BY <1>3, <3>1
    <2>3. LossOf(o)'
      BY <1>1, <1>2, <1>3, <1>4, <2>2 DEF KInv, LossOf, Pending, Late
    <2>4. ASSUME NEW p \in Owner PROVE LossOf(p)'
      BY <1>1, <1>3, <2>1, <2>3, TrackerStays
    <2>5. ASSUME NEW c \in Batch PROVE ReplyOf(c)'
      BY <1>4 DEF KInv, ReplyOf
    <2>6. QED
      BY <1>1, <2>1, <2>4, <2>5, QuietKeepsK
  <1>5. CASE post' = [post EXCEPT ![b] = [@ EXCEPT !.unsure = TRUE]]
    <2>1. /\ post'[b].caller = post[b].caller /\ post'[b].wire = post[b].wire
          /\ post'[b].patience = post[b].patience /\ post'[b].unsure
          /\ \A c \in Batch \ {b} : post'[c] = post[c]
      BY <1>1, <1>2, <1>5 DEF Post
    <2>2. ASSUME NEW c \in Batch PROVE Steady(c)
      BY <2>1 DEF Steady, Pending
    <2>3. LossOf(o)'
      <3>1. Pending(b)' => Late(b)'
        BY <1>1, <1>2, <2>1 DEF KInv, LossOf, Pending, Late
      <3>2. QED
        BY <1>3, <2>1, <3>1 DEF LossOf, Pending, Late
    <2>4. ASSUME NEW p \in Owner PROVE LossOf(p)'
      BY <1>1, <1>3, <2>2, <2>3, TrackerStays
    <2>5. ASSUME NEW c \in Batch PROVE ReplyOf(c)'
      <3>1. ReplyOf(c)
        BY DEF KInv
      <3>2. /\ post'[c].caller = post[c].caller /\ post'[c].wire = post[c].wire
            /\ post[c].unsure => post'[c].unsure
        BY <2>1
      <3>3. QED
        BY <3>1, <3>2 DEF ReplyOf
    <2>6. QED
      BY <1>1, <2>2, <2>4, <2>5, QuietKeepsK
  <1>6. post' = post \/ post' = [post EXCEPT ![b] = [@ EXCEPT !.unsure = TRUE]]
    BY <1>2 DEF ReadSnapshot, ReadMissing, ReadError, FetchScreenshots
  <1>7. QED
    BY <1>4, <1>5, <1>6

\* What a poll does with the answer it read.
LEMMA PollKeepsK ==
    ASSUME IInv, KInv, NEW o \in Owner,
           Poll(o) \/ IterationFails(o) \/ TrackerCrash(o)
    PROVE  KInv'
  <1>1. /\ tracker \in [Owner -> Tracker] /\ tracker[o] \in Tracker
        /\ batch \in [Batch -> BatchRow] /\ run \in [Batch -> [Workflow -> RunRow]]
    BY DEF IInv, TypeOK
  <1>2. CASE ReadSnapshot(o) \/ ReadMissing(o) \/ ReadError(o) \/ FetchScreenshots(o)
    BY <1>2, AnswerKeepsK
  <1>3. CASE DiscardStale(o) \/ IterationFails(o) \/ TrackerCrash(o)
    <2>1. /\ UNCHANGED <<batch, run, post, svc>>
          /\ tracker'[o].pc \notin Polling
          /\ \A p \in Owner \ {o} : tracker'[p] = tracker[p]
      BY <1>1, <1>3 DEF DiscardStale, IterationFails, TrackerCrash, ToIdle, IdleTracker, Polling
    <2>2. ASSUME NEW c \in Batch PROVE Steady(c) /\ ReplyOf(c)'
      BY <2>1 DEF Steady, Pending, ReplyOf, KInv
    <2>3. ASSUME NEW p \in Owner PROVE LossOf(p)'
      BY <2>1, <2>2, TrackerStays
    <2>4. QED
      BY <2>1, <2>2, <2>3, QuietKeepsK
  <1>4. CASE ApplySnapshot(o) \/ FailLost(o) \/ ReleaseUnseen(o)
    <2>0. UNCHANGED <<post, svc>>
      BY <1>4 DEF ApplySnapshot, FailLost, ReleaseUnseen
    <2>1. PICK b \in Batch : b = tracker[o].batch
      BY <1>4 DEF ApplySnapshot, FailLost, ReleaseUnseen, IInv, PollInv, Faithful, Polling
    <2>2. (Pending(b) => Late(b)) /\ (FailLost(o) => ~svc[b].held \/ post[b].unsure)
      BY <1>4, <2>1 DEF ApplySnapshot, FailLost, ReleaseUnseen, KInv, LossOf, Polling
    <2>3. \A c \in Batch \ {b} : batch'[c] = batch[c] /\ run'[c] = run[c]
      BY <1>1, <1>4, <2>1 DEF ApplySnapshot, FailLost, ReleaseUnseen, FailBatchRows
    <2>4. \A p \in Owner : MovesOn(p, b)
      BY <1>1, <1>4 DEF ApplySnapshot, FailLost, ReleaseUnseen, ToIdle, MovesOn
    <2>5. ASSUME NEW w \in Workflow, run'[b][w].code \in Definite
          PROVE  run[b][w].code \in Definite \/ ~svc[b].held \/ post[b].unsure
      <3>1. CASE FailLost(o)
        BY <2>2, <3>1
      <3>2. CASE ReleaseUnseen(o)
        BY <2>5, <3>2 DEF ReleaseUnseen
      <3>3. CASE ApplySnapshot(o)
        <4>1. PICK put \in SUBSET tracker[o].got : run'[b][w] = SnapshotRow(tracker[o], w, put)
          BY <1>1, <2>1, <3>3 DEF ApplySnapshot
        <4>2. run[b][w] \in RunRow
          BY <1>1
        <4> DEFINE applied == AppliedRow(run[b][w], tracker[o].snap[w])
        <4>3. SnapshotRow(tracker[o], w, put).code \in {run[b][w].code, applied.code} \/
              applied \notin RunRow
          BY <2>1, <4>2 DEF SnapshotRow, MarkAvailable, MarkUnavailable, RunRow
        <4>4. run[b][w].status # "none" => tracker[o].snap[w].status \in RunStatus
          BY <2>1, <3>3 DEF ApplySnapshot, IInv, PollInv, Faithful
        <4>5. tracker[o].snap[w] \in SvcRow
          BY <1>1 DEF Tracker
        <4>6. CASE run[b][w].status = "none"
          BY <2>1, <2>5, <4>1, <4>6 DEF SnapshotRow
        <4>7. CASE run[b][w].status # "none"
          <5>1. applied \in RunRow
            BY <4>2, <4>4, <4>5, <4>7, AppliedRowType
          <5>2. applied.code \in {run[b][w].code, "runner"}
            BY <4>2 DEF AppliedRow, RunRow
          <5> HIDE DEF applied
          <5>3. QED
            BY <2>5, <4>1, <4>3, <5>1, <5>2 DEF Definite
        <4>8. QED
          BY <4>6, <4>7
      <3>4. QED
        BY <1>4, <3>1, <3>2, <3>3
    <2>6. QED
      BY <2>0, <2>2, <2>3, <2>4, <2>5, PolledKeepsK
  <1>5. QED
    BY <1>2, <1>3, <1>4 DEF Poll

\* A new batch is put off by the grace its submission has.
LEMMA PrepareKeepsK ==
    ASSUME IInv, KInv, NEW b \in Batch, PrepareBatch(b)
    PROVE  KInv'
  <1> DEFINE p == [NoPost EXCEPT !.caller = "prepared", !.patience = SubmitTimeout]
  <1>1. /\ batch \in [Batch -> BatchRow] /\ run \in [Batch -> [Workflow -> RunRow]]
        /\ post \in [Batch -> Post]
    BY DEF IInv, TypeOK
  <1>2. PICK rows \in [Workflow -> {NoRunRow, [NoRunRow EXCEPT !.status = "queued"]}] :
             run' = [run EXCEPT ![b] = rows]
    BY DEF PrepareBatch
  <1>3. /\ batch'[b] = NewBatch /\ post'[b] = p /\ run'[b] = rows
        /\ \A c \in Batch \ {b} : batch'[c] = batch[c] /\ run'[c] = run[c] /\ post'[c] = post[c]
        /\ UNCHANGED <<tracker, svc>> /\ batch[b].status = "none"
    BY <1>1, <1>2 DEF PrepareBatch
  <1>4. /\ NewBatch.status = "queued" /\ NewBatch.owner = NoOwner /\ NewBatch.nextPoll = SubmitGrace
        /\ p.caller = "prepared" /\ p.patience = SubmitTimeout
    BY PreparedPost DEF NewBatch, NoBatchRow
  <1> HIDE DEF p
  <1>5. GraceOf(b)' /\ ReplyOf(b)'
    BY <1>3, <1>4, ConstantsAssumption DEF GraceOf, Untouched, ReplyOf
  <1>6. CodeOf(b)'
    <2>1. \A w \in Workflow : rows[w].code = "none"
      BY <1>2 DEF NoRunRow
    <2>2. QED
      BY <1>3, <2>1 DEF CodeOf, Definite
  <1>7. ASSUME NEW c \in Batch \ {b} PROVE GraceOf(c)' /\ ReplyOf(c)' /\ CodeOf(c)'
    <2>1. GraceOf(c) /\ ReplyOf(c) /\ CodeOf(c)
      BY DEF KInv
    <2>2. batch'[c] = batch[c] /\ run'[c] = run[c] /\ post'[c] = post[c] /\ svc' = svc
      BY <1>3
    <2>3. (Pending(c)' <=> Pending(c)) /\ (Late(c)' <=> Late(c)) /\ (Untouched(c)' <=> Untouched(c))
      BY <2>2 DEF Pending, Late, Untouched
    <2>4. QED
      BY <2>1, <2>2, <2>3 DEF GraceOf, ReplyOf, CodeOf
  <1>8. ASSUME NEW o \in Owner, tracker[o].pc \in Polling PROVE LossOf(o)'
    <2>1. PICK c \in Batch \ {b} : c = tracker[o].batch
      BY <1>3, <1>8 DEF IInv, PollInv, Faithful
    <2>2. post'[c] = post[c] /\ svc' = svc /\ tracker' = tracker
      BY <1>3
    <2>3. QED
      BY <1>8, <2>1, <2>2 DEF KInv, LossOf, Pending, Late
  <1>9. ASSUME NEW o \in Owner PROVE LossOf(o)'
    BY <1>3, <1>8 DEF LossOf
  <1>10. QED
    BY <1>5, <1>6, <1>7, <1>9 DEF KInv

\* The handler settles the batch.
LEMMA SettleKeepsK ==
    ASSUME IInv, KInv, NEW b \in Batch, MarkSubmitted(b) \/ FailSubmission(b)
    PROVE  KInv'
  <1>1. /\ batch \in [Batch -> BatchRow] /\ run \in [Batch -> [Workflow -> RunRow]]
        /\ post \in [Batch -> Post] /\ UNCHANGED <<stored, tracker, svc>>
    BY DEF IInv, TypeOK, MarkSubmitted, FailSubmission
  <1>2. PICK end \in {"returned_202", "returned_503"} :
             post' = [post EXCEPT ![b] = [@ EXCEPT !.caller = end]]
    BY DEF MarkSubmitted, FailSubmission
  <1>3. /\ post'[b].caller = end /\ post'[b].wire = post[b].wire
        /\ post'[b].patience = post[b].patience /\ post'[b].unsure = post[b].unsure
        /\ \A c \in Batch \ {b} : post'[c] = post[c]
    BY <1>1, <1>2 DEF Post
  <1>4. post[b].caller # "prepared"
    BY DEF MarkSubmitted, FailSubmission
  <1>5. ASSUME NEW c \in Batch
        PROVE  Steady(c) /\ (Pending(c)' <=> Pending(c)) /\ (Late(c)' <=> Late(c))
               /\ (post'[c].unsure <=> post[c].unsure)
    BY <1>3, <1>4 DEF Steady, Pending, Late
  <1>6. ASSUME NEW c \in Batch PROVE ReplyOf(c)'
    <2>1. CASE c = b
      BY <1>3, <2>1 DEF ReplyOf
    <2>2. CASE c # b
      BY <1>3, <2>2 DEF ReplyOf, KInv
    <2>3. QED
      BY <2>1, <2>2
  <1>7. ASSUME NEW o \in Owner PROVE LossOf(o)'
    BY <1>1, <1>5, TrackerStays
  <1>8. CASE UNCHANGED <<batch, run>>
    BY <1>1, <1>5, <1>6, <1>7, <1>8, QuietKeepsK
  <1>9. CASE MarkSubmitted(b)
    <2>1. ~Pending(b)
      BY <1>9 DEF MarkSubmitted, KInv, ReplyOf, Pending
    <2>2. run' = run /\ \A c \in Batch \ {b} : batch'[c] = batch[c]
      BY <1>1, <1>9 DEF MarkSubmitted
    <2>3. ASSUME NEW c \in Batch PROVE GraceOf(c)'
      <3>1. CASE c = b
        BY <1>5, <2>1, <3>1 DEF GraceOf
      <3>2. CASE c # b
        <4>1. GraceOf(c) /\ post'[c] = post[c] /\ batch'[c] = batch[c]
          BY <1>3, <2>2, <3>2 DEF KInv
        <4>2. QED
          BY <4>1 DEF GraceOf, Pending, Late, Untouched
      <3>3. QED
        BY <3>1, <3>2
    <2>4. ASSUME NEW c \in Batch PROVE CodeOf(c)'
      BY <1>1, <1>5, <2>2 DEF KInv, CodeOf
    <2>5. QED
      BY <1>6, <1>7, <2>3, <2>4 DEF KInv
  <1>10. CASE FailSubmission(b) /\ Untouched(b)
    <2>1. PICK code \in {"submission_unknown", "submission_failed"} :
               /\ FailBatchRows(b, code)
               /\ code = "submission_failed" => post[b].caller = "rejected"
      BY <1>10 DEF FailSubmission
    <2>2. /\ batch'[b].status = "failed"
          /\ \A w \in Workflow : run'[b][w] = FailedRow(run[b][w], code)
          /\ \A c \in Batch \ {b} : batch'[c] = batch[c] /\ run'[c] = run[c]
      BY <1>1, <2>1 DEF FailBatchRows, BatchRow
    <2>3. ASSUME NEW c \in Batch PROVE GraceOf(c)'
      <3>1. CASE c = b
        BY <2>2, <3>1 DEF GraceOf
      <3>2. CASE c # b
        <4>1. GraceOf(c) /\ post'[c] = post[c] /\ batch'[c] = batch[c]
          BY <1>3, <2>2, <3>2 DEF KInv
        <4>2. QED
          BY <4>1 DEF GraceOf, Pending, Late, Untouched
      <3>3. QED
        BY <3>1, <3>2
    <2>4. ASSUME NEW c \in Batch PROVE CodeOf(c)'
      <3> SUFFICES ASSUME NEW w \in Workflow, run'[c][w].code \in Definite
                   PROVE  /\ Pending(c) => Late(c)
                          /\ svc[c].runs[w].status \in {"queued", "running"} => post[c].unsure
        BY <1>1, <1>5 DEF CodeOf
      <3>1. CASE run[c][w].code \in Definite
        BY <3>1 DEF KInv, CodeOf
      <3>2. CASE run[c][w].code \notin Definite
        <4>1. c = b
          BY <2>2, <3>2
        <4>2. run[b][w] \in RunRow
          BY <1>1
        <4>3. code = "submission_failed"
          BY <2>1, <2>2, <3>2, <4>1, <4>2 DEF FailedRow, RunRow, Definite
        <4>4. /\ post[b].caller = "rejected"
              /\ post[b].wire = "refused" \/ (post[b].wire = "accepted" /\ post[b].unsure)
          BY <2>1, <4>3 DEF KInv, ReplyOf
        <4>5. svc[b].runs[w].status \in {"queued", "running"} => post[b].wire = "accepted"
          BY DEF IInv, ServiceInv, NoSnapshot, NoSvcRow
        <4>6. QED
          BY <4>1, <4>4, <4>5 DEF Pending
      <3>3. QED
        BY <3>1, <3>2
    <2>5. QED
      BY <1>6, <1>7, <2>3, <2>4 DEF KInv
  <1>11. QED
    BY <1>8, <1>9, <1>10 DEF FailSubmission

\* The service takes the batch, or will never have it.
LEMMA DeliveryKeepsK ==
    ASSUME IInv, KInv, NEW b \in Batch, SvcAccept(b) \/ SvcRefuse(b)
    PROVE  KInv'
  <1>1. /\ UNCHANGED <<batch, run, stored, tracker>> /\ post[b].wire = "sent" /\ Pending(b)
        /\ \A c \in Batch \ {b} : svc'[c] = svc[c]
        /\ post \in [Batch -> Post]
    BY DEF SvcAccept, SvcRefuse, IInv, TypeOK, Pending
  <1>2. PICK p \in Post, end \in {"accepted", "refused", "dropped"} :
             /\ post' = [post EXCEPT ![b] = p]
             /\ p.wire = end /\ p.caller = post[b].caller /\ p.patience = post[b].patience
             /\ post[b].unsure => p.unsure
             /\ end = "accepted" => SvcAccept(b) /\ (Late(b) => p.unsure)
             /\ end # "accepted" => svc' = svc
    BY <1>1, DeliveryAnswer
  <1>3. /\ post'[b] = p /\ \A c \in Batch \ {b} : post'[c] = post[c]
        /\ post[b].caller \notin {"accepted", "rejected", "prepared"}
             \/ post[b].caller \in {"accepted", "rejected"}
    BY <1>1, <1>2 DEF IInv, ServiceInv
  <1>4. /\ ~Pending(b)'
        /\ Late(b) => svc'[b] = svc[b] \/ post'[b].unsure
    BY <1>2, <1>3 DEF Pending
  <1>5. ASSUME NEW c \in Batch PROVE GraceOf(c)' /\ ReplyOf(c)'
    <2>1. CASE c = b
      BY <1>1, <1>2, <1>3, <1>4, <2>1 DEF GraceOf, ReplyOf, KInv
    <2>2. CASE c # b
      BY <1>1, <1>3, <2>2 DEF GraceOf, ReplyOf, KInv, Pending, Late, Untouched
    <2>3. QED
      BY <2>1, <2>2
  <1>6. ASSUME NEW c \in Batch PROVE CodeOf(c)'
    <2>1. CASE c = b
      <3>1. \A w \in Workflow : run[b][w].code \in Definite =>
              /\ Late(b)
              /\ svc[b].runs[w].status \in {"queued", "running"} => post[b].unsure
        BY <1>1 DEF KInv, CodeOf
      <3>2. QED
        BY <1>1, <1>2, <1>3, <1>4, <2>1, <3>1 DEF CodeOf
    <2>2. CASE c # b
      BY <1>1, <1>3, <2>2 DEF CodeOf, KInv, Pending, Late
    <2>3. QED
      BY <2>1, <2>2
  <1>7. ASSUME NEW o \in Owner, tracker[o].pc \in Polling PROVE LossOf(o)'
    <2>1. PICK c \in Batch : c = tracker[o].batch /\ tracker' = tracker
      BY <1>1, <1>7 DEF IInv, PollInv, Faithful
    <2>2. LossOf(o)
      BY DEF KInv
    <2>3. CASE c = b
      BY <1>1, <1>2, <1>3, <1>4, <1>7, <2>1, <2>2, <2>3 DEF LossOf, Pending
    <2>4. CASE c # b
      BY <1>1, <1>3, <1>7, <2>1, <2>2, <2>4 DEF LossOf, Pending, Late
    <2>5. QED
      BY <2>3, <2>4
  <1>8. ASSUME NEW o \in Owner PROVE LossOf(o)'
    BY <1>1, <1>7 DEF LossOf
  <1>9. QED
    BY <1>5, <1>6, <1>8 DEF KInv

\* What the service does with a batch it has, or had.
LEMMA ServiceKeepsK ==
    ASSUME IInv, KInv, UNCHANGED <<batch, run, stored, post, tracker>>,
           \A c \in Batch :
             /\ svc'[c].held => svc[c].held
             /\ \A w \in Workflow : svc[c].runs[w].status \notin {"queued", "running"} =>
                                    svc'[c].runs[w].status \notin {"queued", "running"}
    PROVE  KInv'
  <1>1. ASSUME NEW c \in Batch PROVE GraceOf(c)' /\ ReplyOf(c)' /\ CodeOf(c)'
    <2>1. GraceOf(c)' /\ ReplyOf(c)'
      BY DEF KInv, GraceOf, Pending, Late, Untouched, ReplyOf
    <2>2. CodeOf(c)'
      BY DEF KInv, CodeOf, Pending, Late
    <2>3. QED
      BY <2>1, <2>2
  <1>2. ASSUME NEW o \in Owner, tracker[o].pc \in Polling PROVE LossOf(o)'
    <2>1. PICK c \in Batch : c = tracker[o].batch /\ tracker' = tracker
      BY <1>2 DEF IInv, PollInv, Faithful
    <2>2. QED
      BY <1>2, <2>1 DEF KInv, LossOf, Pending, Late
  <1>3. ASSUME NEW o \in Owner PROVE LossOf(o)'
    BY <1>2 DEF LossOf
  <1>4. QED
    BY <1>1, <1>3 DEF KInv

\* applyEvent, applyOutcome, expiry and restart.
LEMMA SvcStepKeepsK ==
    ASSUME IInv, KInv, NEW b \in Batch, NEW w \in Workflow,
           \/ SvcEvent(b, w) \/ SvcOutcome(b, w) \/ SvcThumbExpires(b, w)
    PROVE  KInv'
  <1> DEFINE r == svc[b].runs[w]
  <1>1. /\ svc \in [Batch -> [held : BOOLEAN, runs : [Workflow -> SvcRow]]] /\ r \in SvcRow
        /\ UNCHANGED <<batch, run, stored, post, tracker>>
    BY DEF IInv, TypeOK, SvcEvent, SvcOutcome, SvcThumbExpires, SetSvcRun
  <1>2. PICK row : /\ svc' = [svc EXCEPT ![b].runs[w] = row]
                   /\ r.status \notin {"queued", "running"} => row.status = r.status
    <2>1. CASE SvcEvent(b, w)
      BY <2>1 DEF SvcEvent, SetSvcRun
    <2>2. CASE SvcOutcome(b, w)
      BY <2>2 DEF SvcOutcome, SetSvcRun
    <2>3. CASE SvcThumbExpires(b, w)
      <3>1. [r EXCEPT !.thumb = "expired"].status = r.status
        BY <1>1 DEF SvcRow
      <3>2. svc' = [svc EXCEPT ![b].runs[w] = [r EXCEPT !.thumb = "expired"]]
        BY <2>3 DEF SvcThumbExpires, SetSvcRun
      <3>3. QED
        BY <3>1, <3>2
    <2>4. QED
      BY <2>1, <2>2, <2>3
  <1>3. /\ \A c \in Batch : svc'[c].held = svc[c].held
        /\ \A c \in Batch, v \in Workflow :
             svc'[c].runs[v] = IF c = b /\ v = w THEN row ELSE svc[c].runs[v]
    BY <1>1, <1>2
  <1>4. QED
    BY <1>1, <1>2, <1>3, ServiceKeepsK

LEMMA ForgetKeepsK ==
    ASSUME IInv, KInv, (\E b \in Batch : SvcBatchExpires(b)) \/ SvcRestart
    PROVE  KInv'
  <1>1. /\ svc \in [Batch -> [held : BOOLEAN, runs : [Workflow -> SvcRow]]]
        /\ UNCHANGED <<batch, run, stored, post, tracker>>
    BY DEF IInv, TypeOK, SvcBatchExpires, SvcRestart
  <1>2. ASSUME NEW c \in Batch, NEW w \in Workflow
        PROVE  svc[c].runs[w].status \notin {"queued", "running"} =>
                 svc'[c].runs[w].status \notin {"queued", "running"}
    <2>1. CASE SvcRestart
      <3>1. svc[c].runs[w] \in SvcRow
        BY <1>1
      <3>2. svc'[c].runs[w] = [svc[c].runs[w] EXCEPT
                                 !.status = IF @ \in {"queued", "running"} THEN "lost" ELSE @,
                                 !.thumb = IF @ = "live" THEN "expired" ELSE @]
            /\ ~svc'[c].held
        BY <2>1 DEF SvcRestart
      <3>3. QED
        BY <3>1, <3>2 DEF SvcRow
    <2>2. CASE \E b \in Batch : SvcBatchExpires(b)
      BY <1>1, <2>2 DEF SvcBatchExpires
    <2>3. QED
      BY <2>1, <2>2
  <1>3. ASSUME NEW c \in Batch, svc'[c].held PROVE svc[c].held
    <2>1. ~SvcRestart
      <3>1. ASSUME SvcRestart PROVE FALSE
        <4> DEFINE runs == [w \in Workflow |->
                              [svc[c].runs[w] EXCEPT
                                 !.status = IF @ \in {"queued", "running"} THEN "lost" ELSE @,
                                 !.thumb = IF @ = "live" THEN "expired" ELSE @]]
        <4>1. svc'[c] = [held |-> FALSE, runs |-> runs]
          BY <3>1 DEF SvcRestart
        <4> HIDE DEF runs
        <4>2. QED
          BY <1>3, <4>1
      <3>2. QED
        BY <3>1
    <2>2. PICK b \in Batch : SvcBatchExpires(b)
      BY <2>1
    <2>3. svc[b].held /\ svc' = [svc EXCEPT ![b] = [@ EXCEPT !.held = FALSE]]
      BY <2>2 DEF SvcBatchExpires
    <2>4. QED
      BY <1>1, <1>3, <2>3
  <1>4. QED
    BY <1>1, <1>2, <1>3, ServiceKeepsK

\* Time cannot pass a submission's patience while the submission is under way.
LEMMA TickKeepsK ==
    ASSUME IInv, KInv, Tick
    PROVE  KInv'
  <1>1. /\ UNCHANGED <<run, stored, tracker, svc>>
        /\ \A c \in Batch : /\ ~Overdue(c)
                            /\ batch'[c] = [batch[c] EXCEPT !.nextPoll = Down(@), !.lease = Down(@)]
                            /\ post'[c] = [post[c] EXCEPT !.patience = Down(@)]
    BY DEF Tick
  <1>2. ASSUME NEW c \in Batch
        PROVE  /\ post'[c].caller = post[c].caller /\ post'[c].wire = post[c].wire
               /\ post'[c].unsure = post[c].unsure
               /\ post'[c].patience = Down(post[c].patience)
               /\ batch'[c].status = batch[c].status /\ batch'[c].owner = batch[c].owner
               /\ batch'[c].nextPoll = Down(batch[c].nextPoll)
               /\ post[c].patience \in Nat /\ batch[c].nextPoll \in Nat
    <2>1. batch[c] \in BatchRow /\ post[c] \in Post
      BY DEF IInv, TypeOK
    <2>2. post[c].patience \in Nat /\ batch[c].nextPoll \in Nat
      BY <2>1, ConstantsAssumption DEF BatchRow, Post, Longest
    <2>3. post'[c] = [post[c] EXCEPT !.patience = Down(@)]
      BY <1>1
    <2>4. batch'[c] = [batch[c] EXCEPT !.nextPoll = Down(@), !.lease = Down(@)]
      BY <1>1
    <2>5. post'[c].caller = post[c].caller /\ post'[c].wire = post[c].wire
          /\ post'[c].unsure = post[c].unsure
          /\ post'[c].patience = Down(post[c].patience)
      BY <2>1, <2>3 DEF Post
    <2>6. batch'[c].status = batch[c].status /\ batch'[c].owner = batch[c].owner
          /\ batch'[c].nextPoll = Down(batch[c].nextPoll)
      BY <2>1, <2>4 DEF BatchRow
    <2>7. QED
      BY <2>2, <2>5, <2>6
  <1>3. ASSUME NEW c \in Batch
        PROVE  (Pending(c)' <=> Pending(c)) /\ (Late(c) => Late(c)') /\ (Untouched(c)' <=> Untouched(c))
    <2>1. Down(post[c].patience) <= post[c].patience /\ Down(post[c].patience) \in Int
      BY <1>2 DEF Down
    <2>2. QED
      BY <1>2, <2>1, ConstantsAssumption DEF Pending, Late, Untouched
  <1>4. ASSUME NEW c \in Batch PROVE GraceOf(c)'
    <2> SUFFICES ASSUME Pending(c)
                 PROVE  (\/ Late(c)
                         \/ /\ Untouched(c)
                            /\ SubmitGrace + post[c].patience <= SubmitTimeout + batch[c].nextPoll
                         \/ batch[c].status = "failed")'
      BY <1>3 DEF GraceOf
    <2>1. CASE Late(c) \/ batch[c].status = "failed"
      BY <1>2, <1>3, <2>1
    <2>2. CASE /\ ~Late(c) /\ Untouched(c)
               /\ SubmitGrace + post[c].patience <= SubmitTimeout + batch[c].nextPoll
      <3>1. post[c].patience > 0
        <4>1. ~Overdue(c) /\ post[c].patience \in Nat
          BY <1>1, <1>2
        <4>2. QED
          BY <4>1 DEF Overdue, Pending
      <3>2. batch[c].nextPoll > 0
        BY <1>2, <2>2, ConstantsAssumption DEF Late
      <3>3. /\ Down(post[c].patience) = post[c].patience - 1
            /\ Down(batch[c].nextPoll) = batch[c].nextPoll - 1
        BY <3>1, <3>2 DEF Down
      <3>4. SubmitGrace + (post[c].patience - 1) <= SubmitTimeout + (batch[c].nextPoll - 1)
        BY <1>2, <2>2, ConstantsAssumption
      <3>5. QED
        BY <1>2, <1>3, <2>2, <3>3, <3>4
    <2>3. QED
      BY <2>1, <2>2 DEF KInv, GraceOf
  <1>5. ASSUME NEW c \in Batch PROVE ReplyOf(c)' /\ CodeOf(c)'
    <2>1. ReplyOf(c)'
      BY <1>2 DEF KInv, ReplyOf
    <2>2. CodeOf(c)'
      BY <1>1, <1>2, <1>3 DEF KInv, CodeOf
    <2>3. QED
      BY <2>1, <2>2
  <1>6. ASSUME NEW o \in Owner, tracker[o].pc \in Polling PROVE LossOf(o)'
    <2>1. PICK c \in Batch : c = tracker[o].batch /\ tracker' = tracker /\ svc' = svc
      BY <1>1, <1>6 DEF IInv, PollInv, Faithful
    <2>2. Pending(c)' => Late(c)'
      BY <1>3, <1>6, <2>1 DEF KInv, LossOf
    <2>3. QED
      BY <1>2, <1>6, <2>1, <2>2 DEF KInv, LossOf, Pending, Late
  <1>7. ASSUME NEW o \in Owner PROVE LossOf(o)'
    BY <1>1, <1>6 DEF LossOf
  <1>8. QED
    BY <1>4, <1>5, <1>7 DEF KInv

LEMMA InitK == Init => KInv
  <1> SUFFICES ASSUME Init PROVE KInv
    OBVIOUS
  <1>1. \A c \in Batch : post[c].caller = "none" /\ post[c].wire = "none"
    BY DEF Init, NoPost
  <1>2. \A c \in Batch, w \in Workflow : run[c][w].code = "none"
    BY DEF Init, NoRunRow
  <1>3. \A c \in Batch : GraceOf(c) /\ ReplyOf(c) /\ CodeOf(c)
    BY <1>1, <1>2 DEF GraceOf, Pending, ReplyOf, CodeOf, Definite
  <1>4. \A o \in Owner : LossOf(o)
    BY DEF Init, LossOf, IdleTracker, Polling
  <1>5. QED
    BY <1>3, <1>4 DEF KInv

LEMMA NextKeepsK == IInv /\ KInv /\ [Next]_vars => KInv'
  <1> SUFFICES ASSUME IInv, KInv, [Next]_vars PROVE KInv'
    OBVIOUS
  <1>1. CASE UNCHANGED vars
    <2>1. \A c \in Batch : Steady(c) /\ ReplyOf(c)'
      BY <1>1 DEF vars, Steady, Pending, KInv, ReplyOf
    <2>2. \A o \in Owner : LossOf(o)'
      BY <1>1, <2>1, TrackerStays DEF vars
    <2>3. QED
      BY <1>1, <2>1, <2>2, QuietKeepsK DEF vars
  <1>2. ASSUME NEW b \in Batch, PrepareBatch(b) PROVE KInv'
    BY <1>2, PrepareKeepsK
  <1>3. ASSUME NEW b \in Batch, Submission(b) \/ CallerCrash(b) PROVE KInv'
    BY <1>3, CallerKeepsK, SettleKeepsK DEF Submission
  <1>4. ASSUME NEW b \in Batch, Service(b) PROVE KInv'
    BY <1>4, DeliveryKeepsK, SvcStepKeepsK, ForgetKeepsK DEF Service
  <1>5. ASSUME NEW o \in Owner, NEW b \in Batch, Claim(o, b) PROVE KInv'
    BY <1>5, ClaimKeepsK
  <1>6. ASSUME NEW o \in Owner, Poll(o) \/ IterationFails(o) \/ TrackerCrash(o) PROVE KInv'
    BY <1>6, PollKeepsK
  <1>7. CASE SvcRestart
    BY <1>7, ForgetKeepsK
  <1>8. CASE Tick
    BY <1>8, TickKeepsK
  <1>9. QED
    BY <1>1, <1>2, <1>3, <1>4, <1>5, <1>6, <1>7, <1>8 DEF Next

\* execution_lost and submission_failed are true of the work they name, however long
\* a poll or a submission was held up, unless the service took the batch after its
\* first poll was due or Relay could not use an answer.
THEOREM LossIsReal == Spec => []NoFalseLoss
  <1>1. Init => KInv
    BY InitK
  <1>2. IInv /\ KInv /\ [Next]_vars => KInv'
    BY NextKeepsK
  <1>3. KInv => NoFalseLoss
    BY DEF KInv, CodeOf, Definite, NoFalseLoss
  <1>4. QED
    BY <1>1, <1>2, <1>3, Invariance, PTL DEF Spec

-----------------------------------------------------------------------------
(* DurableRuns implements RunHistory: every transaction on the rows is a
   Record or a Report of one batch, and every other step is invisible to a
   reader. *)

\* A failure has a cause; a run under way has neither a cause nor evidence.
Consistent(r) == /\ r.code = "none" <=> r.status # "failed"
                 /\ r.status \notin Terminal => r.shot = "pending"

RowInv == \A b \in Batch, w \in Workflow : Consistent(run[b][w])

\* The verdict readers see of each batch: what HistoryIsKept maps RunHistory's to.
verdict == [b \in Batch |-> IF Open(b) THEN "open" ELSE batch[b].status]

\* The transaction on batch b that readers may see.
Visible(b) ==
    /\ \A w \in Workflow : History!MayBecome(run[b][w], run'[b][w]) /\ run'[b][w] \in RunRow
    /\ Open(b) /\ \A c \in Batch \ {b} : run'[c] = run[c] /\ batch'[c].status = batch[c].status
    /\ batch'[b].status \in {"queued", "running", "completed", "failed"}
    /\ batch'[b].status \in Terminal => History!Settled(run'[b], batch'[b].status)

\* Such a transaction is a Report, and keeps the rows consistent.
LEMMA VisibleIsReport ==
    ASSUME IInv, RowInv, NEW b \in Batch, Visible(b)
    PROVE  History!Report(b)
  <1>1. /\ verdict[b] = "open"
        /\ verdict'[b] = (IF Open(b) THEN "open" ELSE batch[b].status)'
    BY DEF verdict, Visible
  <1>2. \A c \in Batch \ {b} : run'[c] = run[c] /\ verdict'[c] = verdict[c]
    BY DEF verdict, Visible, Open
  <1>3. /\ verdict'[b] \in {"open", "completed", "failed"}
        /\ verdict'[b] \in Terminal => verdict'[b] = batch'[b].status
    BY <1>1 DEF Visible, Open, Terminal
  <1>4. QED
    BY <1>1, <1>2, <1>3 DEF Visible, History!Report, History!OnlyBatch, History!Terminal, Terminal, verdict

\* fail_batch moves a row forward.
LEMMA FailedRowForward ==
    ASSUME NEW r \in RunRow, Consistent(r), NEW code \in FailureCode \ {"none"}
    PROVE  LET new == FailedRow(r, code) IN
           /\ History!MayBecome(r, new) /\ Consistent(new)
           /\ new.status \in {"none"} \cup Terminal
  <1>1. r.step \in Int /\ r.total \in Int
    BY ConstantsAssumption DEF RunRow, Progress
  <1>2. CASE r.status \in {"queued", "running"}
    <2> DEFINE new == [r EXCEPT !.status = "failed", !.code = code, !.shot = "unavailable"]
    <2>1. /\ new.status = "failed" /\ new.code = code /\ new.shot = "unavailable"
          /\ new.step = r.step /\ new.total = r.total
      BY DEF RunRow
    <2>2. FailedRow(r, code) = new
      BY <1>2 DEF FailedRow
    <2> HIDE DEF new
    <2>3. QED
      BY <1>1, <1>2, <2>1, <2>2 DEF Consistent, Terminal, History!MayBecome, History!Forward, History!Terminal
  <1>3. CASE r.status \notin {"queued", "running"}
    <2>1. FailedRow(r, code) = r /\ r.status \in {"none", "completed", "failed"}
      BY <1>3 DEF FailedRow, RunRow, RunStatus, Terminal
    <2>2. QED
      BY <1>1, <2>1 DEF Consistent, Terminal, History!MayBecome, History!Forward, History!Terminal
  <1>4. QED
    BY <1>2, <1>3

\* So does a snapshot's row.
LEMMA AppliedRowForward ==
    ASSUME NEW r \in RunRow, Consistent(r), NEW s \in SvcRow, s.status \in RunStatus,
           r.status # "none"
    PROVE  LET new == AppliedRow(r, s) IN
           /\ new \in RunRow /\ History!MayBecome(r, new) /\ Consistent(new)
           /\ new.shot = r.shot
           /\ s.status \in Terminal => new.status \in Terminal
  <1> DEFINE current == IF s.step > s.total THEN s.total ELSE s.step
             new == AppliedRow(r, s)
  <1>1. r.step \in Nat /\ r.total \in Nat /\ s.step \in Nat /\ s.total \in Nat
    BY ConstantsAssumption DEF RunRow, SvcRow, Progress
  <1>2. new \in RunRow
    BY AppliedRowType
  <1>3. CASE r.status \in Terminal \/ (r.status # "queued" /\ s.status = "queued")
    <2>1. new = r
      BY <1>3 DEF AppliedRow
    <2>2. r.status \in {"queued", "running", "completed", "failed"}
      BY DEF RunRow, RunStatus, Terminal
    <2> HIDE DEF new
    <2>3. History!MayBecome(r, new)
      BY <1>1, <1>3, <2>1, <2>2 DEF Consistent, Terminal, History!MayBecome, History!Forward, History!Terminal
    <2>4. s.status \in Terminal => new.status \in Terminal
      BY <1>3, <2>1 DEF Terminal
    <2>5. QED
      BY <1>2, <2>1, <2>3, <2>4 DEF new
  <1>4. CASE ~(r.status \in Terminal \/ (r.status # "queued" /\ s.status = "queued"))
    <2>1. /\ new.status = s.status /\ new.step = Longest(r.step, current)
          /\ new.total = Longest(r.total, s.total) /\ new.shot = r.shot
          /\ new.code = IF s.status = "failed" THEN "runner" ELSE r.code
      BY <1>4 DEF AppliedRow, RunRow
    <2>2. r.step <= Longest(r.step, current) /\ r.total <= Longest(r.total, s.total)
      BY <1>1 DEF Longest
    <2>3. /\ r.status \in {"queued", "running"}
          /\ s.status \in {"queued", "running", "completed", "failed"}
          /\ s.status = "queued" => r.status = "queued"
      BY <1>4 DEF RunRow, RunStatus, Terminal
    <2> HIDE DEF new
    <2>4. <<r.status, new.status>> \in History!Forward
      BY <2>1, <2>3 DEF History!Forward
    <2>5. /\ r.status \notin {"none"} \cup History!Terminal
          /\ new.code = "none" <=> new.status # "failed"
      BY <2>1, <2>3 DEF Consistent, History!Terminal
    <2>6. History!MayBecome(r, new)
      BY <2>1, <2>2, <2>4, <2>5 DEF History!MayBecome
    <2>7. Consistent(new)
      BY <2>1, <2>3, <2>5 DEF Consistent, Terminal
    <2>8. QED
      BY <1>2, <2>1, <2>6, <2>7 DEF new
  <1>5. QED
    BY <1>3, <1>4

LEMMA SnapshotRowForward ==
    ASSUME IInv, RowInv, NEW o \in Owner, tracker[o].pc = "apply", NEW w \in Workflow,
           NEW put \in SUBSET tracker[o].got
    PROVE  LET r == run[tracker[o].batch][w]
               new == SnapshotRow(tracker[o], w, put)
           IN new \in RunRow /\ History!MayBecome(r, new) /\ Consistent(new)
  <1> DEFINE t == tracker[o]
             r == run[t.batch][w]
             s == t.snap[w]
             applied == AppliedRow(r, s)
             new == SnapshotRow(t, w, put)
  <1>1. t \in Tracker /\ t.batch \in Batch /\ Faithful(t)
    BY DEF IInv, TypeOK, PollInv, Faithful, Polling
  <1>2. r \in RunRow /\ s \in SvcRow /\ Consistent(r)
    BY <1>1 DEF IInv, TypeOK, Tracker, RowInv
  <1>3. CASE r.status = "none"
    <2>1. new = r
      BY <1>3 DEF SnapshotRow
    <2>2. r.step \in Int /\ r.total \in Int
      BY <1>2, ConstantsAssumption DEF RunRow, Progress
    <2>3. History!MayBecome(r, r)
      BY <1>2, <1>3, <2>2 DEF Consistent, History!MayBecome, History!Forward, History!Terminal
    <2>4. QED
      BY <1>2, <2>1, <2>3
  <1>4. CASE r.status # "none"
    <2>1. s.status \in RunStatus
      BY <1>1, <1>4 DEF Faithful
    <2>2. /\ applied \in RunRow /\ History!MayBecome(r, applied) /\ Consistent(applied)
          /\ applied.shot = r.shot
          /\ s.status \in Terminal => applied.status \in Terminal
      BY <1>2, <1>4, <2>1, AppliedRowForward
    <2>3. /\ new \in {applied, MarkAvailable(applied), MarkUnavailable(applied)}
          /\ s.status \notin Terminal => new = applied
      BY <1>4 DEF SnapshotRow
    <2> HIDE DEF applied, new, r, s, t
    <2>4. CASE new = applied
      BY <2>2, <2>4 DEF r, new, t
    <2>5. CASE new # applied
      <3>1. /\ new.status = applied.status /\ new.code = applied.code
            /\ new.step = applied.step /\ new.total = applied.total
            /\ new.shot = "available" \/ (new.shot = "unavailable" /\ applied.shot = "pending")
        BY <2>2, <2>3, <2>5 DEF MarkAvailable, MarkUnavailable, RunRow
      <3>2. new \in RunRow
        BY <2>2, <2>3, RunRowType DEF FailureCode
      <3>3. applied.shot # "available"
        BY <2>2, <2>3, <2>5 DEF MarkAvailable, MarkUnavailable, RunRow
      <3>4. applied.status \in Terminal
        BY <2>2, <2>3, <2>5
      <3>5. History!MayBecome(r, new)
        BY <2>2, <3>1, <3>3, <3>4 DEF History!MayBecome, History!Terminal, Terminal
      <3>6. Consistent(new)
        BY <2>2, <3>1, <3>4 DEF Consistent
      <3>7. QED
        BY <3>2, <3>5, <3>6 DEF r, new, t
    <2>6. QED
      BY <2>4, <2>5
  <1>5. QED
    BY <1>3, <1>4

\* A step that leaves the rows and every status alone is a stutter of the history.
LEMMA Invisible ==
    ASSUME RowInv, run' = run, \A c \in Batch : batch'[c].status = batch[c].status
    PROVE  RowInv' /\ UNCHANGED History!vars
  <1>1. RowInv'
    BY DEF RowInv
  <1>2. verdict' = verdict
    BY DEF verdict, Open
  <1>3. QED
    BY <1>1, <1>2 DEF History!vars, verdict

\* What each transaction of a submission or a poll is to a reader.
LEMMA VisibleKeepsRows ==
    ASSUME RowInv, NEW b \in Batch, Visible(b), \A w \in Workflow : Consistent(run'[b][w])
    PROVE  RowInv'
  BY DEF RowInv, Visible

LEMMA FailIsVisible ==
    ASSUME IInv, RowInv, NEW b \in Batch, Open(b), NEW code \in FailureCode \ {"none"},
           FailBatchRows(b, code)
    PROVE  Visible(b) /\ RowInv'
  <1>1. batch \in [Batch -> BatchRow] /\ run \in [Batch -> [Workflow -> RunRow]]
    BY DEF IInv, TypeOK
  <1>2. /\ \A w \in Workflow : run'[b][w] = FailedRow(run[b][w], code)
        /\ \A c \in Batch \ {b} : run'[c] = run[c] /\ batch'[c].status = batch[c].status
        /\ batch'[b].status = "failed"
    BY <1>1 DEF FailBatchRows, BatchRow
  <1>3. ASSUME NEW w \in Workflow
        PROVE  /\ run'[b][w] \in RunRow /\ Consistent(run'[b][w])
               /\ History!MayBecome(run[b][w], run'[b][w])
               /\ run'[b][w].status \in {"none"} \cup Terminal
    <2>1. run[b][w] \in RunRow /\ Consistent(run[b][w])
      BY <1>1 DEF RowInv
    <2>2. QED
      BY <1>2, <2>1, RunRowType, FailedRowForward
  <1>4. History!Settled(run'[b], batch'[b].status)
    BY <1>2, <1>3 DEF History!Settled, History!Terminal, Terminal
  <1>5. Visible(b)
    BY <1>2, <1>3, <1>4 DEF Visible
  <1>6. QED
    BY <1>3, <1>5, VisibleKeepsRows

LEMMA ApplyIsVisible ==
    ASSUME IInv, RowInv, NEW o \in Owner, ApplySnapshot(o)
    PROVE  Visible(tracker[o].batch) /\ RowInv'
  <1>1. PICK b \in Batch : b = tracker[o].batch
    BY DEF IInv, PollInv, Faithful, Polling, ApplySnapshot
  <1>2. /\ batch \in [Batch -> BatchRow] /\ run \in [Batch -> [Workflow -> RunRow]]
        /\ batch[b] \in BatchRow /\ Open(b)
    BY <1>1 DEF IInv, TypeOK, LeaseInv, ApplySnapshot, HoldsLease
  <1>3. PICK put \in SUBSET tracker[o].got :
             LET rs == [w \in Workflow |-> SnapshotRow(tracker[o], w, put)] IN
             /\ run' = [run EXCEPT ![tracker[o].batch] = rs]
             /\ batch' = [batch EXCEPT ![tracker[o].batch] = IF Ready(rs) THEN Finalized(@, rs)
                                                                           ELSE Released(@)]
    BY DEF ApplySnapshot
  <1> DEFINE rows == [w \in Workflow |-> SnapshotRow(tracker[o], w, put)]
             row == IF Ready(rows) THEN Finalized(batch[b], rows) ELSE Released(batch[b])
  <1>4. /\ run'[b] = rows /\ batch'[b] = row
        /\ \A c \in Batch \ {b} : run'[c] = run[c] /\ batch'[c] = batch[c]
    BY <1>1, <1>2, <1>3
  <1>5. ASSUME NEW w \in Workflow
        PROVE  /\ rows[w] \in RunRow /\ Consistent(rows[w])
               /\ History!MayBecome(run[b][w], rows[w])
    <2>1. rows[w] = SnapshotRow(tracker[o], w, put) /\ tracker[o].pc = "apply"
      BY DEF ApplySnapshot
    <2> HIDE DEF rows
    <2>2. QED
      BY <1>1, <2>1, SnapshotRowForward
  <1> HIDE DEF rows
  <1>6. CASE Ready(rows)
    <2>1. row.status = IF AllCompleted(rows) THEN "completed" ELSE "failed"
      BY <1>2, <1>6 DEF Finalized, BatchRow
    <2>2. History!Settled(rows, row.status)
      BY <1>6, <2>1 DEF History!Settled, History!Terminal, Ready, AllCompleted, Terminal
    <2>3. Visible(b)
      BY <1>2, <1>4, <1>5, <2>1, <2>2 DEF Visible
    <2>4. QED
      BY <1>1, <1>4, <1>5, <2>3, VisibleKeepsRows
  <1>7. CASE ~Ready(rows)
    <2>1. row.status = IF batch[b].status = "queued" THEN "running" ELSE batch[b].status
      BY <1>2, <1>7 DEF Released, BatchRow
    <2>2. row.status \in {"queued", "running"}
      BY <1>2, <2>1 DEF Open
    <2>3. Visible(b)
      BY <1>2, <1>4, <1>5, <2>2 DEF Visible, Terminal
    <2>4. QED
      BY <1>1, <1>4, <1>5, <2>3, VisibleKeepsRows
  <1>8. QED
    BY <1>6, <1>7

LEMMA ReleaseIsVisible ==
    ASSUME IInv, RowInv, NEW o \in Owner, ReleaseUnseen(o)
    PROVE  Visible(tracker[o].batch) /\ RowInv'
  <1>1. PICK b \in Batch : b = tracker[o].batch
    BY DEF IInv, PollInv, Faithful, Polling, ReleaseUnseen
  <1>2. batch \in [Batch -> BatchRow] /\ batch[b] \in BatchRow /\ Open(b)
    BY <1>1 DEF IInv, TypeOK, LeaseInv, ReleaseUnseen, HoldsLease
  <1>3. /\ run' = run /\ batch'[b] = Released(batch[b])
        /\ \A c \in Batch \ {b} : batch'[c] = batch[c]
    BY <1>1, <1>2 DEF ReleaseUnseen
  <1>4. batch'[b].status \in {"queued", "running"}
    BY <1>2, <1>3 DEF Released, BatchRow, Open
  <1>5. ASSUME NEW w \in Workflow
        PROVE  run[b][w] \in RunRow /\ History!MayBecome(run[b][w], run[b][w])
    <2>1. run[b][w] \in RunRow /\ Consistent(run[b][w])
      BY DEF IInv, TypeOK, RowInv
    <2>2. /\ run[b][w].step \in Int /\ run[b][w].total \in Int
          /\ run[b][w].status \in {"none", "queued", "running", "completed", "failed"}
      BY <2>1, ConstantsAssumption DEF RunRow, Progress, RunStatus, Terminal
    <2>3. QED
      BY <2>1, <2>2 DEF Consistent, History!MayBecome, History!Forward, History!Terminal
  <1>6. QED
    BY <1>1, <1>2, <1>3, <1>4, <1>5 DEF Visible, RowInv, Terminal

\* create_batch is the Record of the history.
LEMMA PrepareIsRecord ==
    ASSUME IInv, RowInv, NEW b \in Batch, PrepareBatch(b)
    PROVE  History!Record(b) /\ RowInv'
  <1>1. batch \in [Batch -> BatchRow] /\ run \in [Batch -> [Workflow -> RunRow]]
    BY DEF IInv, TypeOK
  <1>2. PICK rows \in [Workflow -> {NoRunRow, [NoRunRow EXCEPT !.status = "queued"]}] :
             run' = [run EXCEPT ![b] = rows]
    BY DEF PrepareBatch
  <1>3. /\ batch'[b] = NewBatch /\ run'[b] = rows /\ batch[b].status = "none"
        /\ \A c \in Batch \ {b} : batch'[c] = batch[c] /\ run'[c] = run[c]
    BY <1>1, <1>2 DEF PrepareBatch
  <1>4. NewBatch.status = "queued"
    BY DEF NewBatch, NoBatchRow
  <1>5. /\ verdict[b] = "none" /\ verdict'[b] = "open"
        /\ \A c \in Batch \ {b} : verdict'[c] = verdict[c]
    BY <1>3, <1>4 DEF verdict, Open
  <1>6. \A w \in Workflow : run'[b][w] \in {History!Blank, [History!Blank EXCEPT !.status = "queued"]}
    BY <1>2, <1>3 DEF NoRunRow, History!Blank
  <1>7. History!Record(b)
    BY <1>3, <1>5, <1>6 DEF History!Record, History!OnlyBatch, verdict
  <1>8. \A w \in Workflow : Consistent(rows[w])
    BY <1>2 DEF NoRunRow, Consistent
  <1>9. QED
    BY <1>3, <1>7, <1>8 DEF RowInv

LEMMA InitMapped == Init => History!Init /\ RowInv
  <1> SUFFICES ASSUME Init PROVE History!Init /\ RowInv
    OBVIOUS
  <1>1. run = [b \in Batch |-> [w \in Workflow |-> History!Blank]]
    BY DEF Init, NoRunRow, History!Blank
  <1>2. verdict = [b \in Batch |-> "none"]
    BY DEF Init, NoBatchRow, verdict, Open
  <1>3. RowInv
    BY DEF Init, NoRunRow, RowInv, Consistent
  <1>4. QED
    BY <1>1, <1>2, <1>3 DEF History!Init, verdict

\* Every step is one step of the history, or none.
LEMMA StepMapped ==
    ASSUME IInv, RowInv, [Next]_vars
    PROVE  RowInv' /\ (History!Next \/ UNCHANGED History!vars)
  <1> DEFINE Goal == RowInv' /\ (History!Next \/ UNCHANGED History!vars)
  <1> SUFFICES Goal
    OBVIOUS
  <1>1. batch \in [Batch -> BatchRow]
    BY DEF IInv, TypeOK
  <1>2. ASSUME UNCHANGED <<batch, run>> PROVE Goal
    BY <1>2, Invisible
  <1>3. ASSUME NEW b \in Batch, Visible(b), RowInv' PROVE Goal
    BY <1>3, VisibleIsReport DEF History!Next
  <1>4. ASSUME NEW b \in Batch, PrepareBatch(b) PROVE Goal
    BY <1>4, PrepareIsRecord DEF History!Next
  <1>5. ASSUME NEW b \in Batch, Submission(b) \/ CallerCrash(b) PROVE Goal
    <2>1. CASE UNCHANGED <<batch, run>>
      BY <1>2, <2>1
    <2>2. CASE MarkSubmitted(b)
      <3>1. run' = run /\ (batch' = batch \/ batch' = [batch EXCEPT ![b] = [@ EXCEPT !.nextPoll = 0]])
        BY <2>2 DEF MarkSubmitted
      <3>2. \A c \in Batch : batch'[c].status = batch[c].status
        BY <1>1, <3>1 DEF BatchRow
      <3>3. QED
        BY <3>1, <3>2, Invisible
    <2>3. CASE FailSubmission(b) /\ Untouched(b)
      <3>1. PICK code \in {"submission_unknown", "submission_failed"} : FailBatchRows(b, code)
        BY <2>3 DEF FailSubmission
      <3>2. Open(b) /\ code \in FailureCode \ {"none"}
        BY <2>3 DEF Untouched, Open, FailureCode, SubmissionCode
      <3>3. QED
        BY <1>3, <3>1, <3>2, FailIsVisible
    <2>4. QED
      BY <1>5, <2>1, <2>2, <2>3
         DEF Submission, SendPost, ReadReply, RequestError, FailSubmission, CallerCrash
  <1>6. ASSUME NEW o \in Owner, NEW b \in Batch, Claim(o, b) PROVE Goal
    <2>1. run' = run /\ batch' = [batch EXCEPT ![b] = [@ EXCEPT !.owner = o, !.lease = LeaseTime]]
      BY <1>6 DEF Claim
    <2>2. \A c \in Batch : batch'[c].status = batch[c].status
      BY <1>1, <2>1 DEF BatchRow
    <2>3. QED
      BY <2>1, <2>2, Invisible
  <1>7. ASSUME NEW o \in Owner, Poll(o) PROVE Goal
    <2>1. CASE UNCHANGED <<batch, run>>
      BY <1>2, <2>1
    <2>2. CASE ApplySnapshot(o) \/ FailLost(o) \/ ReleaseUnseen(o)
      <3>1. PICK b \in Batch : b = tracker[o].batch
        BY <2>2 DEF IInv, PollInv, Faithful, Polling, ApplySnapshot, FailLost, ReleaseUnseen
      <3>2. Open(b)
        BY <2>2, <3>1 DEF IInv, TypeOK, LeaseInv, HoldsLease, ApplySnapshot, FailLost, ReleaseUnseen
      <3>3. FailLost(o) => Visible(b) /\ RowInv'
        <4>1. "execution_lost" \in FailureCode \ {"none"}
          BY DEF FailureCode
        <4>2. QED
          BY <3>1, <3>2, <4>1, FailIsVisible DEF FailLost
      <3>4. Visible(b) /\ RowInv'
        BY <2>2, <3>1, <3>3, ApplyIsVisible, ReleaseIsVisible
      <3>5. QED
        BY <1>3, <3>4
    <2>3. QED
      BY <1>7, <2>1, <2>2
         DEF Poll, ReadSnapshot, ReadMissing, ReadError, FetchScreenshots, DiscardStale
  <1>8. CASE Tick
    <2>1. run' = run /\ batch' = [b \in Batch |-> [batch[b] EXCEPT !.nextPoll = Down(@), !.lease = Down(@)]]
      BY <1>8 DEF Tick
    <2>2. ASSUME NEW c \in Batch PROVE batch'[c].status = batch[c].status
      <3>1. batch[c] \in BatchRow
        BY <1>1
      <3>2. batch'[c] = [batch[c] EXCEPT !.nextPoll = Down(@), !.lease = Down(@)]
        BY <2>1
      <3>3. QED
        BY <3>1, <3>2 DEF BatchRow
    <2>3. QED
      BY <2>1, <2>2, Invisible
  <1>9. ASSUME NEW b \in Batch, Service(b) PROVE Goal
    <2>1. UNCHANGED <<batch, run>>
      BY <1>9 DEF Service, SvcAccept, SvcRefuse, SvcBatchExpires, SvcEvent, SvcOutcome,
                  SvcThumbExpires, SetSvcRun
    <2>2. QED
      BY <1>2, <2>1
  <1>10. ASSUME NEW o \in Owner, IterationFails(o) \/ TrackerCrash(o) PROVE Goal
    BY <1>2, <1>10 DEF IterationFails, TrackerCrash
  <1>11. CASE SvcRestart \/ UNCHANGED vars
    BY <1>2, <1>11 DEF SvcRestart, vars
  <1> HIDE DEF Goal
  <1>12. CASE \E b \in Batch : PrepareBatch(b) \/ Submission(b) \/ CallerCrash(b) \/ Service(b)
    BY <1>4, <1>5, <1>9, <1>12
  <1>13. CASE \E o \in Owner : \/ \E b \in Batch : Claim(o, b)
                             \/ Poll(o) \/ IterationFails(o) \/ TrackerCrash(o)
    BY <1>6, <1>7, <1>10, <1>13
  <1>14. QED
    BY <1>8, <1>11, <1>12, <1>13 DEF Next

\* The run history keeps its promise to readers: recorded together, only forward,
\* and final once a batch has its verdict, under every interleaving and failure.
THEOREM HistoryImplemented == Spec => HistoryIsKept
  <1>1. Init => History!Init /\ RowInv
    BY InitMapped
  <1>2. IInv /\ RowInv /\ [Next]_vars => RowInv' /\ [History!Next]_(History!vars)
    BY StepMapped
  <1>3. QED
    BY <1>1, <1>2, Invariance, PTL DEF Spec, HistoryIsKept, History!Spec

=============================================================================
