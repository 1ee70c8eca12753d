---------------------------- MODULE RecorderClient -----------------------------
(***************************************************************************)
(* A browser client of the recorder and the messages between it and its    *)
(* runtime: numbered events, the buffer they are resent from, reconnecting *)
(* (useRecorderSocket.ts), and what the client shows of the session, the   *)
(* pickers, captchas and replays (useRecorderSession.ts).                  *)
(*                                                                         *)
(* The server carries out one command after the other; RecorderSession     *)
(* cuts commands at their awaits, RecorderPages has the pages.             *)
(***************************************************************************)
EXTENDS Naturals, Sequences, SequencesExt

CONSTANTS
    Buffer,     \* messages a runtime keeps (1000 in the code)
    Retries,    \* attempts to reconnect before the client gives up (4)
    Short,      \* whether the client is back before the grace time is over
    MaxActions, \* bound: actions of a behaviour
    MaxBreaks,  \* bound: broken connections
    MaxEvents   \* bound: other events of the browser and commands of the user

ASSUME ClientAssumption ==
    /\ Buffer \in Nat \ {0} /\ Retries \in Nat
    /\ Short \in BOOLEAN
    /\ MaxActions \in Nat /\ MaxBreaks \in Nat /\ MaxEvents \in Nat

VARIABLES
    server,     \* the runtime: session, command in progress, lock and picker
    seq,        \* sequence
    buffer,     \* buffer
    attached,   \* whether it has the client's present socket to send to
    grace,      \* whether its grace timer runs
    path,       \* how the client got to it: see Stopped and StoppedAstray
    next,       \* while the client is astray: the runtime the server's map has
    strayed,    \* history: a client that came back was left behind
    transport,  \* transportStatus
    attempts,   \* reconnectAttemptRef
    last,       \* sequenceRef: the client's lastSequence
    inbox,      \* messages on the way to the client
    outbox,     \* messages on the way to the server
    screen,     \* what the client shows
    steps,      \* numbers of the recorded actions that became steps
    warned,     \* history: the client handled a buffer.gap
    emitted,    \* history: numbers of the actions recorded
    breaks, events

pathVars == <<path, next, strayed>>
serverVars == <<server, seq, buffer, attached, grace, pathVars>>
clientVars == <<transport, attempts, last, screen, steps, warned>>
vars == <<serverVars, clientVars, inbox, outbox, emitted, breaks, events>>

-----------------------------------------------------------------------------
NoPicker == 0
Screen == [status : {"idle", "starting", "recording", "stopping", "stopped", "error"},
           live : BOOLEAN, picker : 0 .. MaxEvents, solving : BOOLEAN,
           replay : {"idle", "preparing", "running", "completed", "stopping", "stopped"},
           waiter : {"none", "waiting", "resolved", "rejected"}, alert : BOOLEAN]

TypeOK ==
    /\ server \in [session : {"none", "recording", "replay"},
                   doing : {"idle", "start", "stop", "restart", "replay", "stopReplay"},
                   lock : BOOLEAN, pending : 0 .. MaxEvents]
    /\ \A i \in 1 .. Len(buffer) : buffer[i].n = seq - Len(buffer) + i
    /\ Len(buffer) <= Buffer
    /\ attached \in BOOLEAN /\ grace \in BOOLEAN
    /\ path \in {"sound", "moved", "astray"} /\ strayed \in BOOLEAN
    /\ path = "astray" => strayed
    /\ transport \in {"connecting", "connected", "reconnecting", "offline"}
    /\ attempts \in 0 .. Retries + 1
    /\ last \in Nat /\ (Short /\ transport # "offline" /\ ~strayed => last <= seq)
    /\ screen \in Screen

Fresh == [session |-> "none", doing |-> "idle", lock |-> FALSE, pending |-> NoPicker]
Blank == [status |-> "idle", live |-> FALSE, picker |-> NoPicker, solving |-> FALSE,
          replay |-> "idle", waiter |-> "none", alert |-> FALSE]

NoRuntime == [server |-> Fresh, seq |-> 0, buffer |-> <<>>]

Init ==
    /\ server = Fresh /\ seq = 0 /\ buffer = <<>> /\ attached = FALSE /\ grace = FALSE
    /\ path = "sound" /\ next = NoRuntime /\ strayed = FALSE
    /\ transport = "connecting" /\ attempts = 0 /\ last = 0
    /\ inbox = <<>> /\ outbox = <<>>
    /\ screen = Blank /\ steps = <<>> /\ warned = FALSE
    /\ emitted = <<>> /\ breaks = 0 /\ events = 0

-----------------------------------------------------------------------------
(* RecordingRuntime.emit and attach *)

Is(type) == [type |-> type, id |-> 0]
Of(type, id) == [type |-> type, id |-> id]

Numbered(from, ms) == [i \in 1 .. Len(ms) |-> [n |-> from + i, m |-> ms[i]]]
Kept(b) == SubSeq(b, (IF Len(b) > Buffer THEN Len(b) - Buffer ELSE 0) + 1, Len(b))

Emit(ms) ==
    /\ seq' = seq + Len(ms)
    /\ buffer' = Kept(buffer \o Numbered(seq, ms))
    /\ inbox' = IF attached THEN inbox \o Numbered(seq, ms) ELSE inbox

\* attach: a gap is announced when the buffer begins too late for the client,
\* then everything after its last sequence is sent again; then server.ready.
MissesAny(lastSequence, b) == FALSE
MissesMore(lastSequence, b) == lastSequence < (IF b = <<>> THEN seq ELSE b[1].n) - 1
\* The numbers in a buffer grow, so what is later than a number is the buffer's end.
Resent(lastSequence, b) ==
    LET from == CHOOSE i \in 1 .. Len(b) + 1 :
                  \A j \in DOMAIN b : b[j].n > lastSequence <=> j >= i
    IN SubSeq(b, from, Len(b))

Hello ==
    /\ outbox # <<>> /\ Head(outbox).type = "client.hello"
    /\ LET misses == MissesMore(Head(outbox).id, buffer)
           gap == IF misses THEN Numbered(seq, <<Is("buffer.gap")>>) ELSE <<>>
           kept == Kept(buffer \o gap)
           ready == Numbered(seq + Len(gap), <<Is("server.ready")>>)
       IN /\ seq' = seq + Len(gap) + 1
          /\ buffer' = Kept(kept \o ready)
          /\ inbox' = gap \o Resent(Head(outbox).id, kept) \o ready
    /\ attached' = TRUE /\ grace' = FALSE
    /\ outbox' = Tail(outbox)
    /\ UNCHANGED <<server, pathVars, clientVars, emitted, breaks, events>>

\* Release after the grace time: the client's next runtime counts from zero.
GraceExpires ==
    /\ grace /\ server.doing = "idle"
    /\ Short => transport = "offline"
    /\ server' = Fresh /\ seq' = 0 /\ buffer' = <<>> /\ grace' = FALSE
    /\ UNCHANGED <<attached, pathVars, clientVars, inbox, outbox, emitted, breaks, events>>

-----------------------------------------------------------------------------
(* Commands at the server (server.ts, socket.on message) *)

Command(type) == /\ server.doing = "idle"
                 /\ outbox # <<>> /\ Head(outbox).type = type
                 /\ outbox' = Tail(outbox)

Rest == UNCHANGED <<attached, grace, clientVars, emitted, breaks, events>>
Other == Rest /\ UNCHANGED pathVars
Quiet == UNCHANGED <<seq, buffer, inbox>>
NoCommand == UNCHANGED outbox

\* Messages that end a lock or a picker of the session.
Cancelled == IF server.lock THEN <<Is("cancelled")>> ELSE <<>>
Closed == IF server.pending = NoPicker THEN <<>> ELSE <<Of("closed", server.pending)>>

StartCommand ==
    /\ Command("session.start")
    /\ IF server.session # "none"
       THEN Quiet /\ UNCHANGED server
       ELSE Emit(<<Is("starting")>>) /\ server' = [server EXCEPT !.doing = "start"]
    /\ Other

Started ==
    /\ server.doing = "start" /\ NoCommand
    /\ \/ /\ server' = [Fresh EXCEPT !.session = "recording"]
          /\ Emit(<<Is("started"), Is("recording")>>)
       \/ /\ server' = Fresh
          /\ Emit(<<Is("error")>>)
    /\ Other

\* release drops the pickers without a word; the client clears them itself.
StopCommand ==
    /\ path # "astray"
    /\ \E type \in {"session.stop", "session.restart"} :
         /\ Command(type)
         /\ server' = [Fresh EXCEPT !.session = server.session,
                                    !.doing = IF type = "session.stop" THEN "stop" ELSE "restart"]
    /\ Emit((IF server.session = "replay" THEN <<Is("replay.stopping")>> ELSE <<>>)
              \o <<Is("stopping")>> \o Cancelled)
    /\ Other

\* The next runtime goes on counting, with an empty buffer, and is attached to
\* the socket the command came over.
LastWords == (IF server.session = "replay" THEN <<Is("replay.stopped")>> ELSE <<>>)
               \o <<Is("stopped")>>
FirstWords(restart) == <<Is("server.ready")>> \o (IF restart THEN <<Is("starting")>> ELSE <<>>)
NextServer(restart) == [Fresh EXCEPT !.doing = IF restart THEN "start" ELSE "idle"]

Stopped ==
    LET new == FirstWords(server.doing = "restart") IN
    /\ server.doing \in {"stop", "restart"} /\ NoCommand
    /\ ~(path = "moved" /\ attached)
    /\ server' = NextServer(server.doing = "restart")
    /\ seq' = seq + Len(LastWords \o new)
    /\ buffer' = Kept(Numbered(seq + Len(LastWords), new))
    /\ inbox' = IF attached THEN inbox \o Numbered(seq, LastWords \o new) ELSE inbox
    /\ path' = "sound"
    /\ Rest /\ UNCHANGED <<next, strayed>>

\* A client that came back while the runtime was released is attached to it, and
\* stays so: the command's socket is gone, and the next runtime has only that one.
StoppedAstray ==
    LET new == FirstWords(server.doing = "restart")
        said == Numbered(seq, LastWords)
    IN /\ server.doing \in {"stop", "restart"} /\ NoCommand
       /\ path = "moved" /\ attached
       /\ server' = Fresh
       /\ seq' = seq + Len(LastWords)
       /\ buffer' = Kept(buffer \o said)
       /\ inbox' = inbox \o said
       /\ next' = [server |-> NextServer(server.doing = "restart"),
                   seq |-> seq + Len(LastWords \o new),
                   buffer |-> Kept(Numbered(seq + Len(LastWords), new))]
       /\ path' = "astray" /\ strayed' = TRUE
       /\ Rest

\* The runtime of the map starts, with nobody to hear of it.
NextStarts ==
    /\ path = "astray" /\ next.server.doing = "start" /\ NoCommand
    /\ \E started \in BOOLEAN :
         LET ms == IF started THEN <<Is("started"), Is("recording")>> ELSE <<Is("error")>> IN
         next' = [server |-> [Fresh EXCEPT !.session = IF started THEN "recording" ELSE "none"],
                  seq |-> next.seq + Len(ms),
                  buffer |-> Kept(next.buffer \o Numbered(next.seq, ms))]
    /\ Quiet /\ Rest /\ UNCHANGED <<server, path, strayed>>

\* release returns at once: the runtime is released already.  The next one gets
\* the client's socket, and what the other two still do is not followed.
StopAgain ==
    /\ path = "astray"
    /\ \E type \in {"session.stop", "session.restart"} :
         LET new == FirstWords(type = "session.restart") IN
         /\ Command(type)
         /\ server' = NextServer(type = "session.restart")
         /\ seq' = seq + Len(new)
         /\ buffer' = Kept(Numbered(seq, new))
         /\ inbox' = inbox \o Numbered(seq, new)
    /\ path' = "sound" /\ next' = NoRuntime
    /\ Rest /\ UNCHANGED strayed

\* A replay of a runtime that is left behind is not followed.
ReplayCommand ==
    /\ Command("replay.start") /\ path # "astray"
    /\ IF server.lock
       THEN Quiet /\ UNCHANGED server
       ELSE IF server.session = "replay"
       THEN Emit(<<Is("error")>>) /\ UNCHANGED server
       ELSE /\ Emit(<<Is("replay.preparing")>>)
            /\ server' = [Fresh EXCEPT !.doing = "replay"]
    /\ Other

ReplayReady ==
    /\ server.doing = "replay" /\ NoCommand
    /\ \/ /\ server' = [Fresh EXCEPT !.session = "replay"]
          /\ Emit(<<Is("replay.started"), Is("replay.running")>>)
       \/ /\ server' = Fresh
          /\ Emit(<<Is("error")>>)
    /\ Other

StopReplayCommand ==
    /\ Command("replay.stop")
    /\ IF server.session = "replay"
       THEN Emit(<<Is("replay.stopping")>>) /\ server' = [server EXCEPT !.doing = "stopReplay"]
       ELSE Quiet /\ UNCHANGED server
    /\ Other

\* The engine completes, or has been stopped: the session records from here on.
ReplayOver ==
    /\ server.session = "replay" /\ server.doing \in {"idle", "stopReplay"} /\ NoCommand
    /\ server' = [server EXCEPT !.session = "recording", !.doing = "idle"]
    /\ Emit(<<Is(IF server.doing = "idle" THEN "replay.completed" ELSE "replay.stopped"),
              Is("recording")>>)
    /\ Other

\* A picked or dismissed picker closes; a value that does not fit is an error.
PickCommand ==
    /\ Command("pick")
    /\ IF Head(outbox).id # server.pending
       THEN Quiet /\ UNCHANGED server
       ELSE /\ server' = [server EXCEPT !.pending = NoPicker]
            /\ \E error \in BOOLEAN :
                 Emit(Closed \o (IF error THEN <<Is("error")>> ELSE <<>>))
    /\ Other

ContinueCommand ==
    /\ Command("captcha.continue")
    /\ IF server.lock
       THEN Emit(<<Is("solved")>>) /\ server' = [server EXCEPT !.lock = FALSE]
       ELSE Quiet /\ UNCHANGED server
    /\ Other

-----------------------------------------------------------------------------
(* Events of the recorded browser *)

BrowserEvent == /\ server.session # "none" /\ server.doing = "idle" /\ events < MaxEvents
                /\ events' = events + 1
                /\ UNCHANGED <<attached, grace, pathVars, clientVars, outbox, emitted, breaks>>

ActionRecorded ==
    /\ server.session = "recording" /\ server.doing = "idle" /\ ~server.lock
    /\ Len(emitted) < MaxActions
    /\ emitted' = Append(emitted, Len(emitted) + 1)
    /\ Emit(<<Of("action", Len(emitted) + 1)>>)
    /\ UNCHANGED <<server, attached, grace, pathVars, clientVars, outbox, breaks, events>>

PickerOpens ==
    /\ BrowserEvent /\ ~server.lock
    /\ server' = [server EXCEPT !.pending = events + 1]
    /\ Emit(Closed \o <<Of("open", events + 1)>>)

PickerCloses ==
    /\ BrowserEvent /\ server.pending # NoPicker
    /\ server' = [server EXCEPT !.pending = NoPicker]
    /\ Emit(Closed)

CaptchaSeen ==
    /\ BrowserEvent /\ server.session = "recording"
    /\ server' = [server EXCEPT !.lock = TRUE, !.pending = NoPicker]
    /\ Emit(Closed \o <<Is("solving")>>)

CaptchaSolved ==
    /\ server.lock /\ server.doing = "idle" /\ NoCommand
    /\ server' = [server EXCEPT !.lock = FALSE]
    /\ Emit(<<Is("solved")>>)
    /\ Other

-----------------------------------------------------------------------------
(* The client's handling of a message (handleServerMessage) *)

Without(s) == [s EXCEPT !.picker = NoPicker]
Settled(s, result) == [s EXCEPT !.waiter = IF @ = "waiting" THEN result ELSE @]

Statuses == {"starting", "recording", "stopping"}
ReplayStatus == [t \in {"replay.preparing", "replay.running", "replay.completed",
                        "replay.stopping", "replay.stopped"} |->
                   CASE t = "replay.preparing" -> "preparing" [] t = "replay.running" -> "running"
                     [] t = "replay.completed" -> "completed" [] t = "replay.stopping" -> "stopping"
                     [] OTHER -> "stopped"]

\* server.error: during a replay it ends the replay, else the whole session.
AfterError(s) ==
    LET e == [Settled(s, "rejected") EXCEPT !.solving = FALSE, !.alert = TRUE] IN
    IF s.replay \notin {"idle", "stopped"} THEN [e EXCEPT !.replay = "stopped"]
    ELSE [e EXCEPT !.status = "error"]

ClosesAny(s, id) == s
ClosesOnly(s, id) == IF s.picker = id THEN Without(s) ELSE s

SessionShown(s, m) ==
    CASE m.type \in Statuses -> [s EXCEPT !.status = m.type]
      [] m.type = "started" ->
           [Without(s) EXCEPT !.live = TRUE, !.solving = FALSE, !.alert = FALSE]
      [] m.type = "stopped" ->
           [Without(Settled(s, "resolved")) EXCEPT !.status = "stopped", !.live = FALSE,
                                                   !.solving = FALSE]
      [] OTHER -> s

OverlayShown(s, m) ==
    CASE m.type = "open" -> [s EXCEPT !.picker = m.id]
      [] m.type = "closed" -> ClosesOnly(s, m.id)
      [] m.type = "solving" -> [Without(s) EXCEPT !.solving = TRUE]
      [] m.type \in {"solved", "cancelled"} -> [s EXCEPT !.solving = FALSE]
      [] OTHER -> s

ReplayShown(s, m) ==
    CASE m.type = "replay.started" ->
           [Without(s) EXCEPT !.status = "recording", !.live = TRUE, !.solving = FALSE,
                              !.alert = FALSE]
      [] m.type \in DOMAIN ReplayStatus -> [s EXCEPT !.replay = ReplayStatus[m.type]]
      [] m.type = "buffer.gap" -> [s EXCEPT !.alert = TRUE]
      [] m.type = "error" -> AfterError(s)
      [] OTHER -> s

\* Each message is for one of the three.
Shown(s, m) == ReplayShown(OverlayShown(SessionShown(s, m), m), m)

LastAfter(n) == IF n > last THEN n ELSE last

Receive ==
    /\ inbox # <<>> /\ transport = "connected"
    /\ LET e == Head(inbox) IN
       /\ last' = LastAfter(e.n)
       /\ screen' = Shown(screen, e.m)
       /\ steps' = IF e.m.type = "action" THEN Append(steps, e.m.id) ELSE steps
       /\ warned' = (warned \/ e.m.type = "buffer.gap")
    /\ inbox' = Tail(inbox)
    /\ UNCHANGED <<serverVars, transport, attempts, outbox, emitted, breaks, events>>

-----------------------------------------------------------------------------
(* The connection as the client sees it (useRecorderSocket) *)

ConnectFails ==
    /\ transport \in {"connecting", "reconnecting"}
    /\ breaks < MaxBreaks /\ breaks' = breaks + 1
    /\ transport' = IF attempts >= Retries THEN "offline" ELSE "reconnecting"
    /\ attempts' = attempts + 1
    /\ UNCHANGED <<serverVars, last, screen, steps, warned, inbox, outbox, emitted, events>>

Connects ==
    /\ transport \in {"connecting", "reconnecting"}
    /\ transport' = "connected" /\ attempts' = 0
    /\ outbox' = <<Of("client.hello", last)>> /\ inbox' = <<>>
    /\ UNCHANGED <<serverVars, last, screen, steps, warned, emitted, breaks, events>>

Drops ==
    /\ transport = "connected" /\ breaks < MaxBreaks /\ breaks' = breaks + 1
    /\ transport' = IF attempts >= Retries THEN "offline" ELSE "reconnecting"
    /\ attempts' = attempts + 1
    /\ attached' = FALSE
    /\ inbox' = <<>> /\ outbox' = <<>>
    /\ UNCHANGED <<last, screen, steps, warned, emitted, events>>

\* What is on its way in either direction is lost, and so is what the server
\* writes until it sees the socket close; detach is taken with the break.  A
\* runtime that is being released starts no timer.
Releasing == server.doing \in {"stop", "restart"}
Breaks ==
    /\ Drops /\ path # "astray"
    /\ grace' = (grace \/ (attached /\ ~Releasing))
    /\ path' = IF Releasing THEN "moved" ELSE path
    /\ UNCHANGED <<server, seq, buffer, next, strayed>>

\* The next hello finds the runtime of the map; nobody hears the other any more.
BreaksAstray ==
    /\ Drops /\ path = "astray"
    /\ server' = next.server /\ seq' = next.seq /\ buffer' = next.buffer
    /\ path' = "sound" /\ next' = NoRuntime
    /\ UNCHANGED <<grace, strayed>>

-----------------------------------------------------------------------------
(* What the user does *)

\* getDisplayStatus.
Displayed == IF transport = "reconnecting" /\ screen.status = "recording" THEN "reconnecting"
             ELSE IF transport = "offline" /\ screen.status \in {"recording", "starting"}
                  THEN "error" ELSE screen.status

Sends(m) == outbox' = IF transport = "connected" THEN Append(outbox, m) ELSE outbox
UserDoes(s) == /\ events < MaxEvents /\ events' = events + 1
               /\ screen' = s
               /\ UNCHANGED <<serverVars, transport, attempts, last, steps, warned, inbox,
                              emitted, breaks>>

StartRecording ==
    LET reset == [Without(screen) EXCEPT !.status = "starting", !.live = FALSE,
                                         !.solving = FALSE, !.alert = FALSE] IN
    /\ Displayed \in {"idle", "stopped", "error"} /\ transport # "offline"
    /\ Sends(Is(IF screen.status = "error" \/ screen.live THEN "session.restart"
                                                          ELSE "session.start"))
    /\ UserDoes(IF transport = "connected" THEN reset
                ELSE [reset EXCEPT !.status = "error", !.alert = TRUE])

StopRecording ==
    /\ Displayed \in {"recording", "reconnecting"}
    /\ Sends(Is("session.stop"))
    /\ UserDoes([screen EXCEPT !.status = "stopping"])

\* Finishing the workflow waits for the stop, for 15 s at most.
StopAndWait ==
    /\ screen.status \notin {"idle", "stopped", "error"} /\ screen.waiter # "waiting"
    /\ Sends(Is("session.stop"))
    /\ UserDoes([screen EXCEPT !.status = "stopping",
                   !.waiter = IF transport = "connected" THEN "waiting" ELSE "rejected"])

WaiterTimesOut ==
    /\ screen.waiter = "waiting"
    /\ screen' = [screen EXCEPT !.waiter = "rejected"]
    /\ UNCHANGED <<serverVars, transport, attempts, last, steps, warned, inbox, outbox,
                   emitted, breaks, events>>

StartReplay ==
    /\ screen.replay \in {"idle", "completed", "stopped"} /\ ~screen.solving
    /\ Sends(Is("replay.start"))
    /\ UserDoes([Without(screen) EXCEPT
                   !.replay = IF transport = "connected" THEN "preparing" ELSE "stopped",
                   !.alert = transport # "connected"])

StopReplay ==
    /\ screen.replay = "running"
    /\ Sends(Is("replay.stop"))
    /\ UserDoes(screen)

Pick ==
    /\ screen.picker # NoPicker
    /\ Sends(Of("pick", screen.picker))
    /\ UserDoes(Without(screen))

ContinueAfterCaptcha ==
    /\ screen.solving
    /\ Sends(Is("captcha.continue"))
    /\ UserDoes(screen)

-----------------------------------------------------------------------------
Handle == \/ Hello
          \/ StartCommand \/ Started \/ StopCommand \/ Stopped
          \/ StoppedAstray \/ NextStarts \/ StopAgain
          \/ ReplayCommand \/ ReplayReady \/ StopReplayCommand \/ ReplayOver
          \/ PickCommand \/ ContinueCommand

Browser == \/ ActionRecorded \/ PickerOpens \/ PickerCloses \/ CaptchaSeen \/ CaptchaSolved

User == \/ StartRecording \/ StopRecording \/ StopAndWait \/ StartReplay \/ StopReplay
        \/ Pick \/ ContinueAfterCaptcha

Next == \/ Handle \/ GraceExpires \/ Browser \/ User
        \/ Receive \/ Connects \/ ConnectFails \/ Breaks \/ BreaksAstray \/ WaiterTimesOut

Spec == Init /\ [][Next]_vars

-----------------------------------------------------------------------------
(* Properties *)

\* The client has handled everything its runtime has sent.
CaughtUp == transport = "connected" /\ attached /\ inbox = <<>>

\* A client that caught up has every action of the recording in its workflow,
\* unless it has said that events could not be recovered or was left behind at
\* a released runtime (attach, emit, the client's lastSequence).
NoSilentLoss == CaughtUp /\ ~warned /\ ~strayed => steps = emitted

\* Steps arrive in the order of the actions, once each and without a gap, or
\* the user has been told: RecordedChannel, whatever breaks in between, as long
\* as the client was not left behind.
Channel == INSTANCE RecordedChannel WITH recorded <- emitted, received <- steps,
                                         told <- warned
StepsFollowRecording ==
    Channel!Init /\ [][strayed \/ Channel!Next]_<<emitted, steps, warned>>

\* "Supports reconnecting to an active recording after a short network
\* interruption" (the recorder's README): a client that is back in time and
\* caught up has every action in its workflow, or has been told.  Not so for one
\* left behind at a released runtime: recorder_left_behind.cfg.
ReconnectingIsSupported == Short /\ CaughtUp /\ ~warned => steps = emitted

\* A client that caught up and shows no alert shows a recording, a replay, a
\* picker or a captcha only while the server has it, and no command that may
\* change it is on its way; clients left behind excepted (handleServerMessage
\* against the runtime's emits).
ScreenAgrees ==
    CaughtUp /\ ~warned /\ ~strayed /\ ~screen.alert /\ server.doing = "idle" /\ outbox = <<>> =>
        /\ screen.status = "recording" /\ screen.replay # "preparing" => server.session # "none"
        /\ screen.replay = "running" => server.session = "replay"
        /\ screen.picker # NoPicker => screen.picker = server.pending
        /\ screen.solving => server.lock

=============================================================================
