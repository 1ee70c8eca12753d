----------------------------- MODULE DocumentStore -----------------------------
(***************************************************************************)
(* The versions of one workflow behind /api/workflows/:id, kept either in  *)
(* a file of the recorder's server (a lock per workflow, a read, a rename  *)
(* over the file) or by the Relay API, which the server asks at most twice *)
(* with one idempotency key and which may still handle an attempt that the *)
(* server has given up.  Callers are the calls in flight of the screens.   *)
(***************************************************************************)
EXTENDS Naturals, Sequences, FiniteSets, SequencesExt

CONSTANTS
    Caller,     \* calls of the screens that may be in flight together
    StepId,
    Binding,    \* where the value of a step comes from
    MaxCalls,   \* bound: saves sent
    MaxFaults   \* bound: lost answers, failed writes, restarts

ASSUME StoreAssumption == MaxCalls \in Nat /\ MaxFaults \in Nat

VARIABLES
    backing,    \* "file" or "relay"
    versions,   \* the stored versions; the revision is the position
    calls,      \* what each caller waits for
    answers,    \* what came back
    late,       \* attempts given up that Relay may still handle
    keys,       \* idempotency keys given out
    faults

storeVars == <<backing, versions, calls, answers, late, keys, faults>>

-----------------------------------------------------------------------------
Step == [id : StepId, bind : Binding, on : BOOLEAN]
Steps(s) == s \in Seq(Step)
Ids(s) == {s[i].id : i \in DOMAIN s}
Row(s, id) == s[CHOOSE i \in DOMAIN s : s[i].id = id]

NoDoc == [steps |-> <<>>, rev |-> 0, status |-> "draft"]
NoAnswer == [code |-> "none", doc |-> NoDoc, save |-> 0]
\* The save is numbered; its idempotency key is drawn with it.
Call(kind, steps, expected, save, shown) ==
    [phase |-> "sent", kind |-> kind, steps |-> steps, expected |-> expected, save |-> save,
     key |-> save, shown |-> shown, attempt |-> 1]
NoCall == [Call("none", <<>>, 0, 0, {}) EXCEPT !.phase = "idle"]

\* The document answered for revision n.
Version(n) == [steps |-> versions[n].steps, rev |-> n, status |-> versions[n].status]
Current == Version(Len(versions))

StoreInit(steps) ==
    /\ backing \in {"file", "relay"}
    /\ versions = <<[steps |-> steps, status |-> "draft", save |-> 0, key |-> 0,
                   shown |-> {}]>>
    /\ calls = [c \in Caller |-> NoCall]
    /\ answers = [c \in Caller |-> NoAnswer]
    /\ late = {} /\ keys = 0 /\ faults = 0

-----------------------------------------------------------------------------
\* What the screens do: send, and take what came back.
Get(c) == calls' = [calls EXCEPT ![c] = Call("get", <<>>, 0, 0, {})] /\ UNCHANGED keys
Put(c, kind, steps, expected, shown) ==
    /\ keys < MaxCalls
    /\ keys' = keys + 1
    /\ calls' = [calls EXCEPT ![c] = Call(kind, steps, expected, keys + 1, shown)]
Answered(c) == answers[c].code # "none"
Taken(c) == answers' = [answers EXCEPT ![c] = NoAnswer]

Answer(c, code, doc) ==
    /\ answers' = [answers EXCEPT ![c] = [code |-> code, doc |-> doc, save |-> calls[c].save]]
    /\ calls' = [calls EXCEPT ![c] = NoCall]

NextSnapshot(call) ==
    [steps |-> call.steps, save |-> call.save, key |-> call.key, shown |-> call.shown,
     status |-> IF call.kind = "finish" THEN "complete" ELSE Current.status]
\* The revision check.  (A finish without steps is refused too; the editor sends none.)
AssertRevision(call) == call.expected = Len(versions)

-----------------------------------------------------------------------------
\* The file: get takes no lock; save and finish hold it from the read to the write.
LockForgotten == TRUE   \* mutant: every request has a lock of its own
LockFree == \A c \in Caller : calls[c].phase # "locked"

FileGet(c) ==
    /\ backing = "file" /\ calls[c].kind = "get"
    /\ Answer(c, "ok", Current)
    /\ UNCHANGED <<backing, versions, late, keys, faults>>

FileRead(c) ==
    /\ backing = "file" /\ calls[c].kind \in {"save", "finish"} /\ calls[c].phase = "sent"
    /\ LockFree
    /\ IF AssertRevision(calls[c])
       THEN calls' = [calls EXCEPT ![c].phase = "locked"] /\ UNCHANGED answers
       ELSE Answer(c, "conflict", NoDoc)
    /\ UNCHANGED <<backing, versions, late, keys, faults>>

FileWrite(c) ==
    /\ calls[c].phase = "locked"
    /\ versions' = Append(versions, NextSnapshot(calls[c]))
    /\ Answer(c, "ok", Current')
    /\ UNCHANGED <<backing, late, keys, faults>>

Fault == faults < MaxFaults /\ faults' = faults + 1

\* The temporary file cannot be written or renamed: it is removed, the file stays.
FileWriteFails(c) ==
    /\ Fault /\ calls[c].phase = "locked"
    /\ Answer(c, "error", NoDoc)
    /\ UNCHANGED <<backing, versions, late, keys>>

\* Every call in flight fails at its screen; what was renamed stays.
Restart ==
    /\ Fault
    /\ \E c \in Caller : calls[c].phase # "idle"
    /\ answers' = [c \in Caller |-> IF calls[c].phase = "idle" THEN answers[c]
                                    ELSE [code |-> "error", doc |-> NoDoc, save |-> calls[c].save]]
    /\ calls' = [c \in Caller |-> NoCall]
    /\ late' = IF backing = "relay"
               THEN late \cup {calls[c] : c \in {d \in Caller : calls[d].kind \in {"save", "finish"}}}
               ELSE late
    /\ UNCHANGED <<backing, versions, keys>>

-----------------------------------------------------------------------------
\* Relay: a transaction that answers a known key with what it answered before.
Handled(call) == \E n \in DOMAIN versions : call.key = versions[n].key
Writes(call) == ~Handled(call) /\ AssertRevision(call)
Written(call) == IF Writes(call) THEN Append(versions, NextSnapshot(call)) ELSE versions
Outcome(call) ==
    CASE Handled(call) ->
            [code |-> "ok", doc |-> Version(CHOOSE n \in DOMAIN versions : call.key = versions[n].key)]
      [] Writes(call) -> [code |-> "ok", doc |-> Current']
      [] OTHER -> [code |-> "conflict", doc |-> NoDoc]

RelayGet(c) ==
    /\ backing = "relay" /\ calls[c].kind = "get"
    /\ Answer(c, "ok", Current)
    /\ UNCHANGED <<backing, versions, late, keys, faults>>

RelayHandles(c) ==
    /\ backing = "relay" /\ calls[c].kind \in {"save", "finish"}
    /\ versions' = Written(calls[c])
    /\ Answer(c, Outcome(calls[c]).code, Outcome(calls[c]).doc)
    /\ UNCHANGED <<backing, late, keys, faults>>

\* No answer, or 502 to 504, within the time: asked again once, then unavailable.  (A
\* second attempt of a read cannot be told from a slow first one.)
AskAgain(c) ==
    IF calls[c].attempt = 1
    THEN calls' = [calls EXCEPT ![c].attempt = 2] /\ UNCHANGED answers
    ELSE Answer(c, "error", NoDoc)

\* One outage may take both attempts.
Outage(c) == IF calls[c].attempt = 1 THEN Fault ELSE UNCHANGED faults
RelayAnswerLost(c) ==
    /\ Outage(c) /\ backing = "relay" /\ calls[c].kind \in {"save", "finish"}
    /\ versions' = Written(calls[c])
    /\ AskAgain(c)
    /\ UNCHANGED <<backing, late, keys>>

RelayTooSlow(c) ==
    /\ Outage(c) /\ backing = "relay" /\ calls[c].kind \in {"save", "finish"}
    /\ late' = late \cup {calls[c]}
    /\ AskAgain(c)
    /\ UNCHANGED <<backing, versions, keys>>

\* A late attempt that writes.  (One that only answers reaches nobody.)
RelayHandlesLate(call) ==
    /\ Writes(call)
    /\ late' = late \ {call}
    /\ versions' = Written(call)
    /\ UNCHANGED <<backing, calls, answers, keys, faults>>

StoreNext ==
    \/ \E c \in Caller :
        \/ FileGet(c) \/ FileRead(c) \/ FileWrite(c) \/ FileWriteFails(c)
        \/ RelayGet(c) \/ RelayHandles(c) \/ RelayAnswerLost(c) \/ RelayTooSlow(c)
    \/ Restart
    \/ \E call \in late : RelayHandlesLate(call)

-----------------------------------------------------------------------------
\* Type invariant.
StoreTypeOK ==
    /\ backing \in {"file", "relay"}
    /\ \A n \in DOMAIN versions :
        /\ Steps(versions[n].steps) /\ versions[n].status \in {"draft", "complete"}
        /\ versions[n].key \in 0 .. keys
    /\ \A c \in Caller :
        /\ calls[c].kind \in {"none", "get", "save", "finish"} /\ calls[c].phase \in {"idle", "sent", "locked"}
        /\ calls[c].attempt \in 1 .. 2 /\ calls[c].key \in 0 .. keys
        /\ answers[c].code \in {"none", "ok", "conflict", "error"}
    /\ \A c, d \in Caller : calls[c].phase = "locked" /\ calls[d].phase = "locked" => c = d
    /\ backing = "file" => late = {}
    /\ \A call \in late : call.kind \in {"save", "finish"}
    /\ keys \in 0 .. MaxCalls /\ faults \in 0 .. MaxFaults

=============================================================================
