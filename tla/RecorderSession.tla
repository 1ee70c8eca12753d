---------------------------- MODULE RecorderSession ----------------------------
(***************************************************************************)
(* The recorder's socket server (apps/browser-recorder/server.ts) and the  *)
(* life of the remote browser sessions its RecordingRuntimes hold for one  *)
(* client: hello, start, restart, stop, replay, disconnect, the grace      *)
(* timer and shutdown, cut at their awaits.                                *)
(*                                                                         *)
(* A socket's messages are handled without waiting for one another, each   *)
(* handler reads the socket's runtime variable again after an await, and   *)
(* the client may drop and open sockets at any moment.                     *)
(***************************************************************************)
EXTENDS RecorderValues, Naturals, FiniteSets

CONSTANTS
    Runtime,    \* RecordingRuntime objects; one nobody can reach is used again
    Session,    \* sessions of the browser provider
    Socket,     \* connections of the client
    Handler,    \* bound: commands, timers and releases in progress at once
    Refuses     \* whether the provider may fail to end a session

ASSUME RecorderAssumption ==
    /\ None \notin Runtime \cup Session \cup Socket \cup Handler
    /\ Refuses \in BOOLEAN

VARIABLES
    rt,         \* the fields of every RecordingRuntime
    map,        \* runtimes.get(clientId)
    ref,        \* the variable runtime in each socket's closure
    open,       \* the sockets the server believes to be connected
    alive,      \* sessions that exist at the provider
    task,       \* the handlers in progress
    server      \* up, stopping, closing (its releases are done) or down

sessionVars == <<rt, map, ref, open, alive, task, server>>

-----------------------------------------------------------------------------
\* run: the replay of replayMeta, "on" once its engine runs, before that known
\* by the handler that prepares it.
NewRuntime == [grace |-> FALSE, released |-> FALSE, session |-> None,
               mode |-> "none", engine |-> FALSE, run |-> None]
Idle == [pc |-> "idle", kind |-> "none", socket |-> None, rt |-> None, session |-> None]

SessionTypeOK ==
    /\ rt \in [Runtime -> [grace : BOOLEAN, released : BOOLEAN, session : Session \cup {None},
                           mode : {"none", "recording", "replay"}, engine : BOOLEAN,
                           run : Handler \cup {None, "on"}]]
    /\ map \in Runtime \cup {None}
    /\ ref \in [Socket -> Runtime \cup {None}]
    /\ open \in SUBSET Socket
    /\ alive \in SUBSET Session
    /\ task \in [Handler -> [pc : {"idle", "applying", "switching", "creating", "opening",
                                   "viewing", "closing", "abandoning", "stopping", "releasing"},
                             kind : {"none", "record", "replay", "stop", "restart", "timer",
                                     "shutdown"},
                             socket : Socket \cup {None}, rt : Runtime \cup {None},
                             session : Session \cup {None}]]
    /\ server \in {"up", "stopping", "closing", "down"}

SessionInit ==
    /\ rt = [r \in Runtime |-> NewRuntime]
    /\ map = None
    /\ ref = [c \in Socket |-> None]
    /\ open = {}
    /\ alive = {}
    /\ task = [h \in Handler |-> Idle]
    /\ server = "up"

Busy == {h \in Handler : task[h].pc # "idle"}

\* Objects nobody can reach any more stand for objects yet to be made.
FreshRuntime(r) == /\ r # map /\ ~rt[r].grace
                   /\ \A c \in open : ref[c] # r
                   /\ \A h \in Busy : /\ task[h].rt # r
                                      /\ task[h].socket # None => ref[task[h].socket] # r
FreshSession(s) == /\ s \notin alive
                   /\ \A r \in Runtime : rt[r].session # s
                   /\ \A h \in Busy : task[h].session # s

Commands(h, c) == server # "down" /\ task[h].pc = "idle" /\ c \in open
Begin(h, t) == task' = [task EXCEPT ![h] = t]
End(h) == task' = [task EXCEPT ![h] = Idle]
Set(r, record) == rt' = [rt EXCEPT ![r] = record]

\* releaseSession: a request the provider refuses is given up without a word.
GiveBack(s) == alive' = alive \ {s} \/ (Refuses /\ UNCHANGED alive)

-----------------------------------------------------------------------------
(* Connections: server.ts on connection, attach and detach of the runtime *)

Attached(record) == [record EXCEPT !.grace = FALSE]

Hello(c) ==
    /\ server \in {"up", "stopping"} /\ c \notin open
    /\ \A h \in Busy : task[h].socket # c
    /\ \E r \in Runtime :
         /\ IF map = None THEN FreshRuntime(r) ELSE r = map
         /\ Set(r, Attached(IF map = None THEN NewRuntime ELSE rt[r]))
         /\ map' = r
         /\ ref' = [ref EXCEPT ![c] = r]
    /\ open' = open \cup {c}
    /\ UNCHANGED <<alive, task, server>>

\* detach: the grace timer is started unless it runs or the runtime is released.
Detached(record) == [record EXCEPT !.grace = @ \/ ~record.released]

\* The server sees a socket close, perhaps long after the client left it; its
\* variable lives on in the handlers that use it.
Close(c) ==
    /\ server # "down" /\ c \in open
    /\ open' = open \ {c}
    /\ Set(ref[c], Detached(rt[ref[c]]))
    /\ ref' = IF \E h \in Busy : task[h].socket = c THEN ref ELSE [ref EXCEPT ![c] = None]
    /\ UNCHANGED <<map, alive, task, server>>

-----------------------------------------------------------------------------
(* RecordingRuntime.start *)

Applying(kind, c) ==
    [pc |-> "applying", kind |-> kind, socket |-> c, rt |-> None, session |-> None]

\* session.start and replay.start first await setNativeSelects.
StartCommand(h, c) ==
    /\ Commands(h, c)
    /\ \E kind \in {"record", "replay"} : Begin(h, Applying(kind, c))
    /\ UNCHANGED <<rt, map, ref, open, alive, server>>

\* The socket's runtime, read again, starts unless it knows a session.
StartRecording(h) ==
    LET r == ref[task[h].socket] IN
    /\ task[h].pc = "applying" /\ task[h].kind = "record"
    /\ IF rt[r].session = None
       THEN /\ Set(r, [rt[r] EXCEPT !.mode = "recording"])
            /\ Begin(h, [task[h] EXCEPT !.pc = "creating", !.socket = None, !.rt = r])
       ELSE End(h) /\ UNCHANGED rt
    /\ UNCHANGED <<map, ref, open, alive, server>>

\* createSession resolves, for a recording or a replay.
SessionCreated(h) ==
    LET r == task[h].rt IN
    /\ task[h].pc = "creating"
    /\ \E s \in Session :
         /\ FreshSession(s)
         /\ alive' = alive \cup {s}
         /\ Set(r, [rt[r] EXCEPT !.session = s])
    /\ Begin(h, [task[h] EXCEPT !.pc = "opening"])
    /\ UNCHANGED <<map, ref, open, server>>

\* connect, installRecorder and registerPage have resolved; a replay needs the
\* session to be there still, and goes on to its live view.
Opened(h) ==
    /\ task[h].pc = "opening"
    /\ IF task[h].kind = "record" THEN End(h)
       ELSE /\ rt[task[h].rt].session # None
            /\ Begin(h, [task[h] EXCEPT !.pc = "viewing"])
    /\ UNCHANGED <<rt, map, ref, open, alive, server>>

\* One of them rejects: the catch clause takes whatever session is there now.
OpenFails(h) ==
    LET r == task[h].rt IN
    /\ task[h].pc \in {"creating", "opening", "viewing"}
    /\ Set(r, [rt[r] EXCEPT !.session = None])
    /\ Begin(h, [task[h] EXCEPT !.pc = "closing", !.session = rt[r].session])
    /\ UNCHANGED <<map, ref, open, alive, server>>

\* browser.close has resolved.
BrowserClosed(h) ==
    /\ task[h].pc = "closing"
    /\ Set(task[h].rt, [rt[task[h].rt] EXCEPT !.mode = "none"])
    /\ Begin(h, [task[h] EXCEPT !.pc = "abandoning"])
    /\ UNCHANGED <<map, ref, open, alive, server>>

Abandoned(h) ==
    LET r == task[h].rt IN
    /\ task[h].pc = "abandoning"
    /\ GiveBack(task[h].session)
    /\ IF task[h].kind = "replay"
       THEN Set(r, [rt[r] EXCEPT !.engine = FALSE, !.run = None])
       ELSE UNCHANGED rt
    /\ End(h)
    /\ UNCHANGED <<map, ref, open, server>>

-----------------------------------------------------------------------------
(* RecordingRuntime.startReplay, the engine's end, stopReplay *)

\* A lock of the page's captcha, a replay or a bad workflow turns it down.
BeginReplay(h) ==
    LET r == ref[task[h].socket] IN
    /\ task[h].pc = "applying" /\ task[h].kind = "replay"
    /\ \/ /\ ~rt[r].engine /\ rt[r].mode # "replay"
          /\ Set(r, [rt[r] EXCEPT !.mode = "replay", !.run = h, !.session = None])
          /\ Begin(h, [task[h] EXCEPT !.pc = "switching", !.socket = None, !.rt = r,
                                      !.session = rt[r].session])
       \/ End(h) /\ UNCHANGED rt
    /\ UNCHANGED <<map, ref, open, alive, server>>

\* The session of before is closed and given back, then another is asked for.
Switched(h) ==
    /\ task[h].pc = "switching"
    /\ GiveBack(task[h].session)
    /\ Begin(h, [task[h] EXCEPT !.pc = "creating", !.session = None])
    /\ UNCHANGED <<rt, map, ref, open, server>>

\* getLiveView and emitPageState have resolved: the engine runs.
EngineStarts(h) ==
    LET r == task[h].rt IN
    /\ task[h].pc = "viewing"
    /\ Set(r, [rt[r] EXCEPT !.engine = TRUE, !.run = IF @ = h THEN "on" ELSE @])
    /\ End(h)
    /\ UNCHANGED <<map, ref, open, alive, server>>

\* returnToRecording: the session of a finished replay records from here on.
Returned(record) ==
    IF record.released \/ record.session = None \/ record.run = None THEN record
    ELSE [record EXCEPT !.mode = "recording", !.engine = FALSE, !.run = None]

\* ReplayEngine.run ends by itself, or fails, and is still that of replayMeta.
ReplayEnds(r) ==
    /\ server # "down"
    /\ rt[r].engine /\ rt[r].run = "on"
    /\ Set(r, Returned(rt[r]))
    /\ UNCHANGED <<map, ref, open, alive, task, server>>

StopReplay(h, c) ==
    /\ Commands(h, c)
    /\ rt[ref[c]].engine /\ rt[ref[c]].run # None
    /\ Begin(h, [pc |-> "stopping", kind |-> "replay", socket |-> None, rt |-> ref[c],
                 session |-> None])
    /\ UNCHANGED <<rt, map, ref, open, alive, server>>

ReplayStopped(h) ==
    /\ task[h].pc = "stopping"
    /\ Set(task[h].rt, Returned(rt[task[h].rt]))
    /\ End(h)
    /\ UNCHANGED <<map, ref, open, alive, server>>

-----------------------------------------------------------------------------
(* RecordingRuntime.release: on stop, restart, the grace timer, shutdown *)

BeginReleaseKeeping(h, kind, c, r) ==
    /\ Set(r, [rt[r] EXCEPT !.released = TRUE, !.grace = FALSE])
    /\ Begin(h, [pc |-> "releasing", kind |-> kind, socket |-> c, rt |-> r,
                 session |-> rt[r].session])
BeginRelease(h, kind, c, r) ==
    /\ Set(r, [rt[r] EXCEPT !.released = TRUE, !.grace = FALSE, !.session = None])
    /\ Begin(h, [pc |-> "releasing", kind |-> kind, socket |-> c, rt |-> r,
                 session |-> rt[r].session])

\* A stop or restart puts a new runtime in the place of the released one and
\* attaches it to the socket the command came from, open or not.
Replace(h, kind, c, done) ==
    \E n \in Runtime :
      /\ FreshRuntime(n)
      /\ map' = n
      /\ ref' = [ref EXCEPT ![c] = n]
      /\ rt' = [done EXCEPT ![n] = Attached(NewRuntime)]
      /\ IF kind = "restart" THEN Begin(h, Applying("record", c)) ELSE End(h)

StopOrRestart(h, c) ==
    /\ Commands(h, c)
    /\ \E kind \in {"stop", "restart"} :
         IF rt[ref[c]].released
         THEN Replace(h, kind, c, rt)
         ELSE BeginRelease(h, kind, c, ref[c]) /\ UNCHANGED <<map, ref>>
    /\ UNCHANGED <<open, alive, server>>

GraceExpires(h, r) ==
    /\ server # "down" /\ task[h].pc = "idle"
    /\ rt[r].grace
    /\ BeginRelease(h, "timer", None, r)
    /\ UNCHANGED <<map, ref, open, alive, server>>

\* browser.close and releaseSession have resolved; onReleased forgets the
\* client's entry, whichever runtime it holds by now.
Done(h) == [rt EXCEPT ![task[h].rt].mode = "none", ![task[h].rt].engine = FALSE,
                      ![task[h].rt].run = None]
ReleasedRemembered(h) ==
    /\ task[h].pc = "releasing"
    /\ GiveBack(task[h].session)
    /\ IF task[h].kind \in {"stop", "restart"}
       THEN Replace(h, task[h].kind, task[h].socket, Done(h))
       ELSE rt' = Done(h) /\ End(h) /\ UNCHANGED <<map, ref>>
    /\ server' = IF task[h].kind = "shutdown" THEN "closing" ELSE server
    /\ UNCHANGED open
Released(h) ==
    /\ task[h].pc = "releasing"
    /\ GiveBack(task[h].session)
    /\ IF task[h].kind \in {"stop", "restart"}
       THEN Replace(h, task[h].kind, task[h].socket, Done(h))
       ELSE rt' = Done(h) /\ map' = None /\ End(h) /\ UNCHANGED ref
    /\ server' = IF task[h].kind = "shutdown" THEN "closing" ELSE server
    /\ UNCHANGED open

\* SIGINT or SIGTERM: release what the map holds; the server then takes no more
\* connections and exits when those it has are gone.
Shutdown(h) ==
    /\ server = "up" /\ task[h].pc = "idle"
    /\ IF map = None \/ rt[map].released
       THEN server' = "closing" /\ UNCHANGED <<rt, task>>
       ELSE server' = "stopping" /\ BeginRelease(h, "shutdown", None, map)
    /\ UNCHANGED <<map, ref, open, alive>>
Exit ==
    /\ server = "closing" /\ open = {}
    /\ server' = "down"
    /\ UNCHANGED <<rt, map, ref, open, alive, task>>

-----------------------------------------------------------------------------
Await(h) == /\ server # "down"
            /\ \/ StartRecording(h) \/ BeginReplay(h) \/ SessionCreated(h) \/ Opened(h)
               \/ OpenFails(h) \/ BrowserClosed(h) \/ Abandoned(h) \/ Switched(h)
               \/ EngineStarts(h) \/ ReplayStopped(h) \/ Released(h)

SessionNext ==
    \/ \E c \in Socket : Hello(c) \/ Close(c)
    \/ \E h \in Handler :
         \/ Await(h) \/ Shutdown(h)
         \/ \E c \in Socket : StartCommand(h, c) \/ StopReplay(h, c) \/ StopOrRestart(h, c)
         \/ \E r \in Runtime : GraceExpires(h, r)
    \/ \E r \in Runtime : ReplayEnds(r)
    \/ Exit

SessionSpec == SessionInit /\ [][SessionNext]_sessionVars

\* Awaited calls settle, a timer that is due runs, and the process exits.
FairSpec == /\ SessionSpec
            /\ \A h \in Handler : WF_sessionVars(Await(h))
            /\ \A r \in Runtime : WF_sessionVars(\E h \in Handler : GraceExpires(h, r))
            /\ WF_sessionVars(Exit)

-----------------------------------------------------------------------------
(* Properties *)

InHand(h, s) == task[h].pc # "idle" /\ task[h].session = s

\* The session a runtime works with exists, no other runtime works with it, and
\* no handler is about to give it back, whatever commands, timers, failures and
\* disconnects overlap: start, startReplay and release each take sessionId away
\* before they await (runtime.ts:361, 965, 1090), the catch clauses whichever one
\* is there by then.
SessionsAreUndisturbed ==
    \A r \in Runtime : rt[r].session # None =>
      /\ rt[r].session \in alive
      /\ \A o \in Runtime : rt[o].session = rt[r].session => o = r
      /\ \A h \in Handler : ~InHand(h, rt[r].session)

\* A client that connects never finds a runtime whose release is over: while the
\* map holds a released one a handler is still at it, and will replace or forget
\* it (onReleased, server.ts:95, 108, 118), however stops, timers and restarts
\* overlap.
ReleasedIsForgotten ==
    map # None /\ rt[map].released =>
      \E h \in Handler : task[h].pc = "releasing" /\ task[h].rt = map

\* A session that exists at the provider is that of the runtime the client's next
\* connection would find, or a handler still opens it or gives it back.  A start that
\* goes on through a release breaks it: session_leak.cfg.
NoSessionLeak ==
    \A s \in alive :
      \/ map # None /\ rt[map].session = s /\ ~rt[map].released
      \/ \E h \in Handler : InHand(h, s)
      \/ \E h \in Handler : /\ task[h].pc \in {"opening", "viewing"}
                            /\ rt[task[h].rt].session = s

\* A client that stays away has its sessions released after the grace time.  Not so
\* for one that leaves during a restart: session_away.cfg.
AwayMeansReleased == []<>(open # {} \/ alive = {} \/ server = "down")

=============================================================================
