# Relay: a verification of its runs, its recorder and its editors

Relay records browser workflows, keeps them, replays them before the user's eyes
and runs them in the background. This directory holds TLA+ models of the parts
whose correctness depends on the order of events, the TLC configurations that
check them on small instances, and theorems about them that TLAPS checks for
every instance. Everything is translated from the code under `src/`;
`PROJECT.json` says which definition stands for which lines.

## 1. The system

| part | where | state it keeps | operations |
|---|---|---|---|
| Durable runs, run tracker | `apps/relay-api`: `data/run_repository.py`, `services/runs.py`, `controllers/runs.py` | PostgreSQL rows of batches and runs, screenshots in S3, one poll under way per process | create and submit a batch, claim, ask, fetch, apply, fail, release |
| Automation service | `apps/automation-service-browserbase`: `app.ts`, `batches/batch-coordinator.ts` | batches, queue and active runs, in memory | create and poll a batch, run directly, drain, expire, shut down |
| Automations page | `features/automations/model/useBackgroundBatch.ts`, `server/automation/http-router.ts` | the batch the page watches | submit, poll, announce |
| Headless run | `packages/automation-worker-browserbase`, `packages/automation-core` | one provider session and the progress of a run | prepare, provision, connect, run, clean up |
| Interactive replay | `server/replay/engine.ts` | the step being replayed and the commands not yet obeyed | run, pause, resume, retry, skip, take control, stop |
| Replay core | `packages/replay-core` | what is known of the page while one phase of a step is awaited | find a target, act, settle, wait, assert |
| Recorder's server | `apps/browser-recorder`: `server.ts`, `server/recording/runtime.ts` | one remote browser per client, its pages, captcha locks, pickers, a numbered buffer of messages | attach, start, restart, stop, replay, lock, pick, release |
| Injected script | `server/recording/injected.ts` | per document: fields changed, a held option, open pickers, the assertion panel | report, hold, suppress, pick |
| Recorder's client | `features/recorder` | what the screen shows, the last number received | connect, reconnect, command |
| Editor | `useWorkspaceController.ts`, `workflow.reducer.ts` | a workflow, whether it is saved, an undo | record, edit, save, finish, replay |
| Library | `useParameterWorkspace.ts` and its helpers | a draft of bindings over a loaded version, a chosen profile | bind, save, rebase, resolve, run |
| Workflow store | `server/workflows`, `remote-http-client.ts`; `services/workflows.py`, `idempotency_repository.py` | versions of a workflow, idempotency keys | get, save, finish |
| Profiles, namespaces, contract, backfill, tooling | see `PROJECT.json` | | section 8 |

Paths without `apps/` or `packages/` are under `apps/browser-recorder/src`.

How they interact. A client asks Relay for a batch. Relay's request handler
inserts one batch row and one row per workflow in one transaction, then submits
the batch **once** to the private automation service; from then on the handler and
the trackers share only the rows. The service keeps batches in memory, queues
their runs for slots that direct callers also take, and hands each run to a
worker, which asks the provider for a session, drives it by the headless runner
and gives it back. The recorder is another process: its client talks to it over a
WebSocket with numbered messages, it drives a provider's browser, and the script
it puts in every document reports what the user does there. Recorded actions
become steps in the editor. Editor and Library save one workflow through the same
store with the revision they last saw. Both replays use the replay core.

What is hard here: trackers of several processes that write the same rows under
leases that run out while they await the network; submissions and saves whose
outcome is unknown; commands that interleave at every `await`; connections that
close late; timers racing what they wait for; a page that changes while it is
looked at; answers that come after what they answer was replaced. `PROJECT.json`
lists these hazards at their lines.

What makes each part correct:

* Durable runs: results are real and never change, a verdict agrees with its runs,
  only the lease holder writes, evidence offered exists, every batch ends.
* Service and page: slots are neither exceeded nor left idle, records live as long
  as they are needed, what is announced is true, nothing waits for ever.
* Runs and replays: steps are decided in order and once, no success is repeated,
  pauses and stops are obeyed, outcome and cleanup are told truly.
* Replay core: the first candidate that fits is used, what is blamed was so.
* Recorder: no session in use is given back and no ended runtime is found, locks end
  with their own timer, pickers follow the page, no action is lost without a word.
* Workspaces: no save overwrites what its author did not see, none is called a
  conflict with itself, steps recorded during a save stay, and so does a binding chosen
  while nothing is saved or loaded.

Some of what the documents promise the code does not keep; section 7 lists what the
runs show of that.

## 2. Modules

| module | stands for |
|---|---|
| `RunHistory` | abstract: what readers of the history are promised |
| `DurableRuns` | rows, object store, request handlers, trackers, and service and network as Relay sees them; implements `RunHistory` |
| `AutomationService` | coordinator, slots, records and shutdown of the service |
| `AutomationsPage` | extends it with the page, the recorder's routes and their requests |
| `StepSequence` | abstract: what any runner promises of the steps of a workflow |
| `ReplaySteps` | phases, redundant clicks and preflight, shared by the runners |
| `ReplayEngine` | the interactive replay; implements `StepSequence` |
| `BrowserbaseWorker` | a headless run with its session; implements `StepSequence` |
| `ReplayErrors` | how a failure is wrapped and what is said of it |
| `StepExecution` | one phase of a step on a page that changes |
| `RecorderSession` | sockets, runtimes and sessions, commands cut at their awaits |
| `RecorderPages` | pages, captcha locks and pickers of one session |
| `RecordedChannel` | abstract: what is promised of recorded actions |
| `RecorderClient` | client and messages; implements `RecordedChannel` |
| `PageInput` | what the script makes of the acts of a user |
| `PageStructure` | groups and locators read off the elements of a page |
| `AssertionPicker` | the picker of assertions in all frames and the server |
| `DocumentStore` | the versions of one workflow, in a file or in Relay |
| `LibraryWorkspace` | extends it with the Library |
| `EditorWorkspace` | extends both with the editor: the three together are checked |

`...MC` modules hold the small instances, `...Proofs` modules the theorems. The four
modules about the recorder's server and its script (`RecorderSession`,
`RecorderPages`, `PageInput`, `AssertionPicker`) are checked apart and proved about
together in `RecorderPagesProofs`, so their initial predicates, next-state relations
and specifications carry the name of the part (`SessionSpec`, `InputSpec`,
`PickSpec`; those of `RecorderPages` are plain). `RecorderValues` declares the absent
value they share.

### DurableRuns

`batch[b]` and `run[b][w]` are the rows; a row with status `none` does not exist.
Timestamps are countdowns, cut off at zero, because the code only compares them
with the present: `nextPoll` is `next_poll_at - now`, `lease` is
`lease_expires_at - now`. `stored` is the object store. `post[b]` is the handler
that created `b` (`caller`), the fate of its POST (`wire`), and how long it may
take (`patience`). `tracker[o]` is the poll the process with identity `o` is in; a
process that dies never comes back under the same identity (`uuid4` per start).
`svc[b]` is what the service would answer, and what really happened to the runs,
which survives in the model after the service forgot it so that the properties can
compare.

`PrepareBatch` to `FailSubmission` are `create_durable_run_batch` cut at its awaits, and
`CallerCrash` ends it anywhere. The service takes a submission at any moment until the
handler gives it up, before or after the first poll is due; `unsure` remembers that it
took it after (`Late`), or that Relay could not use an answer. `Claim` to `DiscardStale`
are `poll_once` cut at its awaits; `IterationFails` and `TrackerCrash` end it anywhere.
Each transaction is one action: its first statement locks the batch row or it is one
statement. `Tick` is time; it waits for what the code gives a time limit.

Left out: assertion results, timestamps that are only shown, the cursor of the
history. An answer that is malformed, too large or about other work is one outcome
(`Garbled`), since the code treats them alike.

### AutomationService and AutomationsPage

`record`, `item`, `queue`, `active` are the coordinator's map, its runs, its queue
and `activeRuns`; each handler runs to completion with the microtasks it sets off
and is one step: `Settle` is the chain of a settled worker, from
`activeRuns.delete` over `drain` to `markBatchTerminal`. In `AutomationsPage` a
request (`call`) travels to the service and its answer back; it may be refused,
lost or given up after ten seconds, and a submission given up (`late`) may still
arrive. `mine` are the batches the page made, those it never heard of included.

### ReplayEngine, BrowserbaseWorker and StepExecution

The two runners share `ReplaySteps` and differ in who decides about a failure.
`ReplayEngine` has the loop of `run` cut where it awaits a page, a boundary or a
recovery, and commands that set flags and wake it. `BrowserbaseWorker` adds the session
(`provider` is the truth at the provider, `known` what the worker learned), the abort
signal, which the caller or the timer fires, and the cleanup. What a phase does is a
single outcome there; `StepExecution` opens it up: candidates are looked at one after
the other on a page whose `look` changes between the awaits, an action is a call that
cancellation does not take back, settling and conditions are polled on a clock, each
poll cut where it awaits the document: the page may act between that and the look at the
network. The model allows for that gap also when the document can not be observed and
nothing is awaited, which only adds behaviours. Where `isVisible` fails, the candidate
counts as hidden and looked at, as in the code. `ReplayErrors` carries a failure from
where it is thrown to what is shown, so that `BlamedRightly` spans the whole way.

### RecorderSession, RecorderPages and RecorderClient

Three views of one runtime. `RecorderSession` cuts every command at its awaits and has
several runtimes, sockets and handlers that overlap freely; `rt` are the fields of each
runtime, `map` and `ref` the two ways the server finds one, `alive` the sessions at the
provider, which may refuse to end one (`Refuses`). A socket may close at any moment,
also after the client's next one has opened. `ReplayStopped` does not compare the number
of the replay, so that it returns from some that the code would leave alone.
`RecorderPages` takes the session as open and has its pages: a lock remembers its
generation, a timer the one it was made for; a picker request awaits the page before it
is pending (`asked`). `RecorderClient` takes commands one after the other and has the
messages: numbered, resent from a bounded buffer, lost with the connection, and handled
by a screen that may be behind. A client that reconnects while a stop or a restart
awaits the release is attached to the runtime that is being released (`path`), while the
server's map gets the next one (`next`); it finds that one when its connection breaks
again (`StoppedAstray`, `BreaksAstray`), and `strayed` says that this has happened.
Replays on a runtime left behind are not followed.

### PageInput, PageStructure and AssertionPicker

Every act of the user on a page is numbered, and a report carries its number, so
that order and repetition can be told from the recorded actions. `PageInput` has the
script's variables of one document and the server's deduplicator, which compares the
kind of an action, its value and the first locator candidate (`FirstCandidate`), and its
lock. The server looks where a picker goes before it opens it: one it was told to close
meanwhile opens all the same (`overtaken`, `stray`). A choice made in the client's picker
goes into the page step by step and may fail at each (`stage`). `AssertionPicker` has one
panel per frame, the messages between frames in both directions and the calls of the
server not yet made; frames are children of the top frame, so that the message "active"
is not passed on by frames in between (`injected.ts:128`). `PageStructure` computes
groups and locators over a concrete tree of elements, with the limit on candidates
beyond which a replay gives up; only `PickIsFound` looks at selectors.

### DocumentStore, LibraryWorkspace and EditorWorkspace

A call is an attempt at the store with the revision its author saw and an
idempotency key drawn with it; it may be lost before or after it was handled, be
tried again, and be handled late. In a file the save holds a lock over read,
comparison and rename. Editor and Library act on their own copies meanwhile; a third
screen saves now and then. `shown` says what the author of a save had seen (in the
Library, the row of the version a choice was made over), `mine` the steps users added and
did not take back, `chosen` the bindings they chose in the Library at rest, with nothing
being saved or loaded: the answer of a save or a load replaces what is chosen while it
is awaited (`useParameterWorkspace.ts:148`, 164, 177, 193), which
`workspace_choices.cfg` shows.

## 3. Runs

| run | instance | question |
|---|---|---|
| `runs_safety` | 1 batch, 1 workflow, 2 trackers, lease 2, first poll after 2 ticks, submission of up to 2, unusable answers | results, evidence, loss, leases, refinement of `RunHistory` |
| `runs_live` | 1 batch of up to 2 workflows, 1 tracker, `Prompt` | every batch gets its verdict, and a sound one |
| `automations` | 2 batches of 1 or 2 runs, folders of 2 and of 3 (too many), a direct caller, 2 slots, retention 1 tick | slots, records, announcements, one batch per page, nothing waits for ever |
| `replay_engine` | workflows of 2 and 3 steps of 7 shapes, 3 commands | no success repeated, pauses kept, stops end, refinement of `StepSequence` |
| `browserbase_worker` | workflows of 2 steps of 8 shapes, every value missing, unusable or given | outcome, cleanup, end, refinement of `StepSequence` |
| `step_execution` | 2 candidates, limits of 2 and 3 polls, 2 changes of the page, a stop | the right target, the right blame, true waits, nothing begun after a stop |
| `recorder_session` | 2 sockets, 2 runtimes, 1 session, 2 handlers at once, a provider that may refuse | no session in use is given back, no ended runtime is found |
| `recorder_pages` | 2 pages, 2 requests, generations modulo 2 | pickers follow the page, one timer per lock |
| `recorder_client` | buffer 2, 2 breaks, 2 actions, 3 other events | no silent loss, the screen agrees, refinement of `RecordedChannel` |
| `page_input` | 2 fields, 2 buttons of one role, 2 labels, 2 values, 3 acts | order, each act once, pickers known |
| `assertion_picker` | 10 elements, one child frame, 2 picks or changes, 1 message under way, 2 candidates compared | one panel, what is picked is found |
| `workspace` | 2 steps, 3 bindings, 1 profile, 2 saves, 2 acts, 1 fault, file and Relay | honest saves, edits, choices and profiles kept |

Seven more configurations each set one statement of the repository's documents or tests
against the code, which does not keep it: TLC ends with a counterexample, within a minute.
They are not among the runs above, which all pass; section 7 says what each shows.

| configuration | module | instance | statement |
|---|---|---|---|
| `runs_lost.cfg` | `DurableRunsMC` | 1 batch, 1 workflow, 1 tracker, first poll after 1 tick, submission of up to 2 | `LostIsNotExecuted` |
| `runs_evidence.cfg` | `DurableRunsMC` | 1 batch, 1 workflow, 1 tracker, a service that restarts | `EvidenceChangesNoVerdict` |
| `session_leak.cfg` | `RecorderSessionMC` | 1 socket, 2 runtimes, 2 sessions, 2 handlers at once | `NoSessionLeak` |
| `session_away.cfg` | `RecorderSessionMC` | 1 socket, 2 runtimes, 2 sessions, one handler at a time | `AwayMeansReleased` |
| `recorder_left_behind.cfg` | `RecorderClient` | that of `recorder_client` | `ReconnectingIsSupported` |
| `page_input_alike.cfg` | `PageInputMC` | that of `page_input`, 2 acts | `OnlyIdenticalDropped` |
| `workspace_choices.cfg` | `EditorWorkspaceMC` | that of `workspace` | `UnsavedChoicesStay` |

Why these bounds. Batches of `DurableRuns` share nothing but idle trackers; a second
tracker is what makes a lease contested, and a lease of two ticks can be half spent. A
submission of two ticks may end before the first poll is due or after it. One session
suffices for `recorder_session`, since what is asked is who has it; two handlers and two
sockets are a start against a release and a close against the next connection. A stop
that would need a third runtime does not happen there; the theorems are about any number
(three runtimes: more than 11 million states, none of them wrong, before it was broken
off). A limit of two candidates is passed by the three `li` of the tree, and kept when
one of them goes. Two slots for two batches and a direct caller make the queue non-empty
while slots come back in any order; the batch of another caller expires beside the
page's. In the replays a second step shows whether the first was decided for good, a
third whether a pause outlives a skip; three commands suffice for a pause, a failure's
decision and a stop. Two candidates and two changes let the better one appear behind the
sweep and vanish again. A buffer of two is exceeded by two actions and their messages,
before and after a break. Three acts are a held option, what overtakes it and what comes
after. Two saves are the smallest conflict, a fault makes one of them uncertain, and two
acts are an edit before and one during a save; the third screen may set a binding back
to what it was. (The Library alone over Relay, choosing the binding of one step and no
profile, with that screen setting any binding, 4 saves, 5 acts and no fault, keeps the
same invariants: 1.3 million states, outside the listed runs.) A `Generation` of two
suffices because a lock has one timer at a time (`OneTimerPerLock`, which TLAPS proves
for every modulus). Deadlock is not checked where a run is over, a shutdown is complete
or the bounds are used up. Symmetry is used only where no liveness is checked.

What the runs assume, where the code does not ensure it:

* `runs_safety`: nothing of time limits. `NoFalseLoss` excuses a batch the service took
  after its first poll was due, and one about which Relay could not use an answer: of
  those Relay cannot know; `runs_lost.cfg` shows what the first means.
* `runs_live`: a poll ends within its lease (`Prompt`).
* `recorder_session`: nothing. What the server does not ensure, that no session is left
  over, is what `session_leak.cfg` and `session_away.cfg` refute.
* `recorder_pages`: for date and select pickers, nothing comes between the click in
  the page and the opening of the picker (`calm`); the code does not look again
  after its awaits. Assertion picks and locks need no such assumption.
* `recorder_client`: the client is back within the grace time (`Short`). A runtime
  made after it counts from zero again, and the client drops what it takes for seen. Its
  properties end where a client is left behind (`strayed`), which
  `recorder_left_behind.cfg` shows.
* `page_input`: one choice of a picker at a time. The titles the server asks the page for
  with every action (`runtime.ts:256`) come back in the order they were asked for. A
  choice whose page is left before it is put in fails; that an element of the next page
  answers to the same locator is left out. A date set by the client's picker is not
  modelled, only one that changes in the page. An act dropped as the repetition of
  another that looks like it is excused (`Repeats`); `page_input_alike.cfg` shows that the two
  need not be the same.
* `workspace`: `ChoicesAtRestAreKept` is about choices made while nothing is saved or
  loaded.
* `replay_engine`: `PauseIsKept` is about a user who has seen what was emitted
  (`prompt`); a second Skip sent blindly resumes a paused replay. The other
  properties hold for hasty users too.

The constants stay in the modules so that the opposite can be set.

## 4. Fairness

* `EveryBatchSettles`: time passes; a live process goes on; the service bounds every
  run and every capability; some tracker outlives the others; from some time on polls
  are no longer broken off by errors (an outage that never ends keeps a batch open
  for ever, as the code intends); claiming is strongly fair because
  `ORDER BY next_poll_at` serves the batch that is due longest first.
* `NothingWaitsForEver`: the page's timer fires, every request is answered or given
  up after ten seconds, every worker settles (its run timeout and its unconditional
  cleanup), a shutdown closes the socket after its grace. Nothing is assumed of
  direct callers: a slot that is given back is offered to the queue in the same turn.
* `RunEnds`: the worker's promises settle or its timer fires, which aborts them all.
* `StopEnds`: the loop goes on whenever it can; a stop settles what it waits for.
* `AwayMeansReleased` (`session_away.cfg`): awaited calls settle, a timer that is due runs, and
  the process exits after a shutdown. Even so the statement is false.

## 5. What is proved

For every value of the constants that satisfies the named assumptions:

* `DurableRunsProofs`: `TypeCorrect`, `VerdictsAreSound`, `OutcomesAreReal`,
  `OfferedShotsAreStored`, `LeasesIsolate`, `LossIsReal` and `HistoryImplemented`, for any
  time limits of polls, leases and submissions.
* `AutomationsPageProofs`: `SlotsAreSharedAndFull`, `RecordsAreTrue`,
  `VerdictsAreTrue`, `OneBatchUnderWay`.
* `ReplayEngineProofs`: `ActionsAreNotRepeated`, `PausesAreKept`,
  `ReplayFollowsPlan`. `BrowserbaseWorkerProofs`: `OutcomesAgree`, `CleanupsAreTrue`,
  `RunnerFollowsPlan`. Each proves first that what preflight accepts is a sequence of
  steps with at least one in it (`RangeIsSteps`).
* `StepExecutionProofs`: `BestTarget`, `RightlyBlamed`, `WaitsAreTrue` and
  `StoppedIsNotBegun`, for any number of candidates, any timing and any number of
  changes of the page.
* `RecorderPagesProofs`. About `RecorderPages`: `TypeCorrect`, `LocksHaveTheirTimer`,
  `PickersAreCancelled`, for any pages, requests and lock generations; of date and
  select pickers the last says something only when the page is calm while one opens
  (section 3). About `RecorderSession`: `SessionsAreKept` and `EndedIsForgotten`, for
  any sockets, runtimes, sessions and handlers, in every order. About `PageInput`:
  `ActsAreInOrder`, `EveryActOnce` and `PickersAreKnown`, for any fields, buttons,
  labels, values, first candidates and number of acts. About `AssertionPicker`:
  `OnePanelAtMost`, for any frames, documents, number of requests and messages under
  way; of its constants it needs only that the top frame is not a child
  (`PickerAssumption`).
* `RecorderClientProofs`, for a client that is back within the grace time (`Short`) and
  was not left behind (section 3; without either the statements are false):
  `NothingLostSilently`, `WhatIsShownIs` and `Refinement` (of `RecordedChannel`), for every
  buffer, number of attempts and breaks.
* `EditorWorkspaceProofs`: `SavesHonest`, `EditsKept`, `ChoicesKept`, `ProfileAsked`,
  for the three screens together, any number of saves, faults and retries, in a file
  and over Relay.

Why the properties are not inductive, and what makes them so:

* `DurableRuns`. That a recorded result is real depends on what a tracker carries in
  memory between its reads. `IInv` says what a service may know of a run
  (`ServiceInv`), that a snapshot in hand lags behind the truth but never contradicts
  it (`PollInv`), and that a lease belongs to a recorded batch (`LeaseInv`). For
  losses, `GraceOf` says that while the service may still take a submission no tracker has
  touched its batch, unless the first poll is due, `ReplyOf` what a handler may conclude
  from a reply, `LossOf` and `CodeOf` that a loss in a tracker's hands or in the rows is
  true or in doubt (`unsure`). The refinement adds the shape of
  rows as readers see them (`RowInv`).
* `AutomationsPage`. `ServiceInv` ties queue, slots, phases and records together: a
  run is in the queue at most once and then holds no slot, a run that is alive has not
  ended, and the size of a record is that of its runs. `CallFollowsPage` says that
  the request under way is the one the page waits for and that a snapshot on its way
  back never claims more than has happened. `OneUnderWay` says that of the batches the
  page made all but one have ended, all of them when the page may submit again or a
  submission it gave up still travels.
* `ReplayEngine`. `EngineInv` says where the loop can be with how many results
  (`LoopPlace`), that the action of the current step succeeded exactly when its first
  phase is a checkpoint (`ActedOnTheWay`), and that a pause asked for is still
  requested (`PauseIsRequested`). The refinement maps each step to a decision of
  `StepSequence` or to a stutter.
* `BrowserbaseWorker`. `WorkerInv` relates the place in `run` to the progress
  (`Place`) and to what is known of the session (`SessionKnown`), counts assertions
  against the steps decided (`Tally`), and says that an outcome, once settled, still
  agrees with the signal (`Settled`).
* `StepExecution`. What a phase concludes rests on questions it asked earlier, while
  the page may have changed since; the history `steady` says for which candidates it
  has not. `LookInv` says what the questions so far show of those: the candidates
  passed over do not fit (`PassedOver`), the one looked at has passed the stages before
  (`Examined`), the frames searched are those that were there (`FramesKnown`), and what
  a wait saw visible is so (`Glanced`). `TimeInv` ties the clocks of a wait to what the
  page did, `BlameInv` says for each reason of a failure what it rests on, and `Told`
  computes what the panel and the runner make of it.
* `RecorderPages`. `OneTimerPerLock` is inductive with the types: whoever changes a
  lock's generation clears or replaces its timer. `PickersInv` adds that locks exist
  only in a recording (`LocksInRecording`), that the active page is open
  (`ActiveIsOpen`), and that a picker which still awaits its page is as good as pending
  (`AskedFollowPage`).
* `RecorderClient`. That nothing is lost silently depends on where an action is while
  it is not a step. `LossInv` says: every such action is in the buffer after the
  client's number, or the buffer begins too late for it, so that attach will tell
  (`Covers`); and an attached client that is not about to hear of a gap has all of
  them on their way, numbered on without a hole. `OrderInv` says that buffer, inbox
  and steps follow the order of recording and agree on what a number stands for,
  `ConnectionInv` that only the first command on its way is a hello, with the
  client's last number. The end of a buffer keeps all of it (`EndKeeps`): whatever
  falls off the front is of steps, or makes the buffer begin too late.
  What the screen shows is inductive only with what is on its way. `ScreenInv`
  accounts for each thing shown (session, replay, picker, captcha): the runtime has it,
  or a message still to come ends it, and no message that shows it comes later
  (`Ends`, `Accounted`). `Coming` are the messages in the inbox and, for a client that is
  not attached, those in the buffer it will be sent. `GapInv` says that a gap that is
  announced is a real one, `StartInv` that a runtime that starts a session has none.
* `RecorderSession`. Who has a session is inductive with the types and with what a
  handler's next step reads (`Wired`): a connected socket has a runtime, and a handler the
  runtime or the socket it goes on with. A session is taken out of its runtime in the
  step that begins an await, so that it is in one place only; a released runtime stays
  in the map only while a handler is at it.
* `PageInput`. `ActInv` speaks of all places at once in which an act can be that is not
  recorded yet: dirty fields, the option held, the choice of a picker, reports on their
  way. `InOrder` says that whatever waits may still come after what was reported,
  but for what the property excepts; `Sound`, that an act is in one place at most, and
  in none only if it is excused. `StageInv` says how far
  a choice is and what of it is on its way. `PickerInv` (`Known`): a picker that is shown,
  or being opened, and that the page does not know is ended by something on its way,
  after the request that would show it, unless the server was told before it opened it.
* `AssertionPicker`. `RequestsInv` looks past the calls not yet made: the last one
  for a frame sets the pending request or none. `TopInv`: while a pick is pending the
  top frame will have its request, or has reported it. `PanelInv` follows the messages:
  one frame is the one that shows the panel; what any child is still told ends with that
  frame, and a child that shows a panel too will hear of it, or has itself a message
  to the top frame on its way. Messages of earlier requests do not matter to it.
* `EditorWorkspace`. `StoreInv`: all attempts that carry one key are one save, what it
  changes of the version it is compared with was shown to its author, a lock is held
  over that very version, and a conflict is told only of a save that no version is of
  and none can become. `EdInv`: while the editor waits and has not moved, the save on
  its way, or the version answered, has its rows. `LibInv`: a draft, also one kept by a
  save under way, has the rows of its base and differs only where its author was shown
  the base's, and each choice is in the draft or in a conflict. `LooksInv` and
  `DialogInv`: one fetch counts, that of the selected profile. What one part does
  leaves the others true because versions only grow (`Grows`) and a caller that waits
  is only answered (`Keeps`).

Every invariant the runs check is proved. Only model-checked: all liveness
(TLAPS 1.4.5 does not reason about fairness), and `PickIsFound` of `AssertionPicker`,
which says what selectors and descriptions find on every tree: `Chain` is defined by
recursion over the tree, and to prove that a path selects one element alone is an
induction over data, which is out of this prover's reach.

## 6. Composition

`AutomationsPage` EXTENDS `AutomationService` and runs page and service in one
behaviour; `EditorWorkspace` EXTENDS `LibraryWorkspace` EXTENDS `DocumentStore`, and
one run has all three. `DurableRuns` keeps its own abstraction of the service,
because the service's memory matters to it only through what a poll may answer; that
`AutomationService` behaves so is read off its `CreateBatch`, `Settle` and `Cleaned`,
not checked. The three views of a recorder's runtime are not composed: sessions,
pages and messages touch each other in few fields, and their product is out of TLC's
reach.

## 7. Where the code and its documents part

TLC shows, with the configurations at the end of section 3:

* `runs_lost.cfg`. ADR relay-api 0016 says that missing private work is recorded as lost
  "instead of executing it again". A tracker records `execution_lost` for a batch whose
  submission is still under way and is then executed: the first poll is due after 30 s
  (`run_repository.py:37`), a submission may take about 70 s (`main.py`).
* `runs_evidence.cfg`. The same ADR says that a transfer failure "never changes the automation
  result". A batch whose runs all completed but whose screenshot is pending becomes
  `failed` when the next poll finds the service restarted: `fail_batch` updates the batch
  unconditionally.
* `session_leak.cfg`. `apps/browser-recorder/README.md` says that "Sessions are released on
  Stop, disconnect timeout, replacement, or server shutdown". A start whose session comes
  while, or after, its runtime is released keeps that session in a runtime nobody
  releases again. (A provider that refuses to end a session keeps it too:
  `browserbase.ts:83` tells nobody; the configuration assumes it does not.)
* `session_away.cfg`. The same sentence. A client that leaves for good during a restart: its
  close detaches the released runtime, the new one is attached to the closed socket, and
  no grace timer runs for it.
* `recorder_left_behind.cfg`. The same README "Supports reconnecting to an active recording
  after a short network interruption". A client that reconnects while a stop or a restart
  awaits the release stays with the released runtime (`server.ts:105-122`); what it
  records there is lost at the next break, without a gap.
* `page_input_alike.cfg`. A test "deduplicates identical actions inside the 500ms window".
  What is compared is the first locator candidate alone (`deduplicate.ts:28`), and that of
  an element with a role and no test id is the role without its name: clicks on two
  buttons, or equal values of two fields, are taken for one.
* `workspace_choices.cfg`. `NAVIGATION.md` says that "Unsaved editor state remains client-owned
  and visible after save conflicts". A binding chosen while the refused save, or the load
  of the latest version, is in flight is replaced by that version; so it is by the answer
  of an accepted save and by the load of a run.

Not shown by TLC, but listed as a hazard with its line:

* ADR browser-recorder 0023 says that a stop reaches every blocking phase promptly. It
  does, but an action that was begun goes on in the page after the stop, and may be
  recorded as an act of the user.

## 8. Not modelled, and why

* Configuration, authentication, request limits, routing, error bodies: stateless.
* The workflow contract beyond what runners tell apart: a data schema.
* Namespaces and the backfill of documents: one insert under a key that is handled as
  that of a save; a script run once, row by row.
* Creation, listing and deletion of workflows: no concurrency beyond that of a save.
* The profile editor: its races (a hazard lists them) are of the kind the workspace
  modules check, and lose less.
* Artifacts on disk, terminal screenshots, the event stream of a direct run: best
  effort by design, apart from the capability `DurableRuns` has.
* The history merged into the Automations page of a durable workspace.
* Labels, roles, accessible names and positions among the locators; styling; the live
  view and the thumbnails of tabs: what they show is a picture.
* Repository tooling and deployment descriptions: no run-time state.
