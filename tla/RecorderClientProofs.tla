-------------------------- MODULE RecorderClientProofs -------------------------
(***************************************************************************)
(* Machine-checked facts about RecorderClient: what a client that is back  *)
(* within the grace time has of a recording, for any size of the buffer,   *)
(* any attempts to reconnect and any bounds.  IInv says of every action    *)
(* that is not a step yet where it is: on its way, in the buffer after the *)
(* client's number, or fallen off the buffer, of which attach will tell.   *)
(* ScreenInv says of everything the client shows and the runtime does not  *)
(* have which message still to come will end it.                           *)
(***************************************************************************)
EXTENDS RecorderClient, SequenceTheorems, TLAPS

-----------------------------------------------------------------------------
(* The invariant *)

Commands == {"client.hello", "session.start", "session.stop", "session.restart", "replay.start",
             "replay.stop", "pick", "captcha.continue"}
Reports == {"server.ready", "starting", "started", "recording", "stopping", "stopped", "error",
            "closed", "solving", "solved", "cancelled", "replay.preparing", "replay.started",
            "replay.running", "replay.completed", "replay.stopping", "replay.stopped"}
MsgType == Commands \cup Reports \cup {"action", "open", "buffer.gap"}
Msg == {m \in [type : MsgType, id : Nat] : m.type = "open" => m.id <= MaxEvents}
Entry == [n : Nat, m : Msg]
IsAct(e) == e.m.type = "action"
IsGap(e) == e.m.type = "buffer.gap"

\* The actions in q follow each other as they were recorded, count of them so far.
Ordered(q, count) ==
    /\ \A i \in DOMAIN q : IsAct(q[i]) => q[i].m.id \in 1 .. count
    /\ \A i, j \in DOMAIN q : i < j /\ IsAct(q[i]) /\ IsAct(q[j]) => q[i].m.id < q[j].m.id
\* An action later than every step.
Beyond(e, st) == IsAct(e) => \A k \in DOMAIN st : st[k] < e.m.id

\* What a runtime that has sent s messages may keep of them: the last.
IsBuffer(b, s) ==
    /\ b \in Seq(Entry) /\ Len(b) <= s /\ (b = <<>> => s = 0)
    /\ \A i \in DOMAIN b : b[i].n = s - Len(b) + i
BufferInv(b, s, l, st, count) ==
    /\ IsBuffer(b, s) /\ Ordered(b, count)
    /\ \A j \in DOMAIN b : b[j].n > l => Beyond(b[j], st)

\* What is on its way is of the messages sent, as is what the buffer has.
Agree(q, b) ==
    \A i \in DOMAIN q, j \in DOMAIN b :
        /\ q[i].n = b[j].n => q[i].m = b[j].m
        /\ q[i].n < b[j].n /\ IsAct(q[i]) /\ IsAct(b[j]) => q[i].m.id < b[j].m.id

\* The actions that are not steps yet are all in q, after number l.
Holds(q, l, st, count) ==
    \A k \in Len(st) + 1 .. count : \E i \in DOMAIN q : q[i].n > l /\ IsAct(q[i]) /\ q[i].m.id = k
NoGap(q, l) == \A i \in DOMAIN q : q[i].n > l => ~IsGap(q[i])

\* A client at number l will be told of a gap; or the buffer has all it needs.
TooLate(l, b) == b # <<>> /\ l < b[1].n - 1
Covers(b, l, st, count) == TooLate(l, b) \/ (NoGap(b, l) /\ Holds(b, l, st, count))

ServerRec == [session : {"none", "recording", "replay"},
              doing : {"idle", "start", "stop", "restart", "replay", "stopReplay"},
              lock : BOOLEAN, pending : 0 .. MaxEvents]

ChannelTypes ==
    /\ inbox \in Seq(Entry) /\ outbox \in Seq(Msg)
    /\ seq \in Nat /\ last \in Nat /\ attached \in BOOLEAN /\ warned \in BOOLEAN
    /\ transport \in {"connecting", "connected", "reconnecting", "offline"}
    /\ steps \in Seq(Nat)
    /\ emitted \in Seq(Nat) /\ \A k \in DOMAIN emitted : emitted[k] = k

ScreenTypes ==
    /\ server \in ServerRec /\ screen \in Screen /\ events \in 0 .. MaxEvents
    /\ grace \in BOOLEAN
    /\ attempts \in 0 .. Retries + 1 /\ (transport # "offline" => attempts <= Retries)

ConnectionInv ==
    /\ attached => transport = "connected"
    /\ ~attached => inbox = <<>>
    /\ transport # "connected" => outbox = <<>>
    /\ \A i \in DOMAIN outbox : outbox[i].type = "client.hello" => i = 1 /\ outbox[i].id = last /\ ~attached
    /\ transport # "offline" => last <= seq

OrderInv ==
    /\ BufferInv(buffer, seq, last, steps, Len(emitted)) /\ Len(buffer) <= Buffer
    /\ Ordered(inbox, Len(emitted))
    /\ \A i \in DOMAIN inbox : inbox[i].n \in 1 .. seq /\ Beyond(inbox[i], steps)
    /\ Agree(inbox, buffer)
    /\ \A i \in DOMAIN steps : steps[i] \in i .. Len(emitted)
    /\ \A i, j \in DOMAIN steps : i < j => steps[i] < steps[j]

LossInv ==
    transport # "offline" /\ ~warned =>
        /\ \A i \in DOMAIN steps : steps[i] = i
        /\ Covers(buffer, last, steps, Len(emitted))
        /\ attached /\ (inbox = <<>> \/ ~IsGap(inbox[1])) =>
            /\ \A i \in DOMAIN inbox : inbox[i].n = last + i
            /\ last + Len(inbox) = seq
            /\ NoGap(inbox, last) /\ NoGap(buffer, last)
            /\ Holds(inbox, last, steps, Len(emitted))

IInv == ChannelTypes /\ ScreenTypes /\ ConnectionInv /\ OrderInv /\ LossInv

-----------------------------------------------------------------------------
(* Buffers *)

Grown(q, s, ms) == q \o Numbered(s, ms)

\* Messages sent are numbered on from what was sent before.
LEMMA NumberedFacts ==
    ASSUME NEW s \in Nat, NEW ms \in Seq(Msg)
    PROVE  /\ Numbered(s, ms) \in Seq(Entry) /\ Len(Numbered(s, ms)) = Len(ms)
           /\ \A i \in 1 .. Len(ms) : Numbered(s, ms)[i].n = s + i /\ Numbered(s, ms)[i].m = ms[i]
  <1>1. Len(ms) \in Nat /\ \A i \in 1 .. Len(ms) : [n |-> s + i, m |-> ms[i]] \in Entry
    BY DEF Entry
  <1>2. Numbered(s, ms) = [i \in 1 .. Len(ms) |-> [n |-> s + i, m |-> ms[i]]]
    BY DEF Numbered
  <1>3. Numbered(s, ms) \in [1 .. Len(ms) -> Entry]
    BY <1>1, <1>2
  <1>4. Numbered(s, ms) \in Seq(Entry) /\ Len(Numbered(s, ms)) = Len(ms)
    BY <1>1, <1>3
  <1>5. QED
    BY <1>2, <1>4

\* Two sequences, one after the other.
LEMMA JoinedFacts ==
    ASSUME NEW T, NEW q \in Seq(T), NEW N \in Seq(T)
    PROVE  /\ q \o N \in Seq(T) /\ Len(q \o N) = Len(q) + Len(N)
           /\ \A i \in 1 .. Len(q) : (q \o N)[i] = q[i]
           /\ \A i \in 1 .. Len(q) + Len(N) : i > Len(q) => (q \o N)[i] = N[i - Len(q)]
  <1> DEFINE g == q \o N
  <1>1. Len(q) \in Nat /\ Len(N) \in Nat
    OBVIOUS
  <1>2. /\ g \in Seq(T) /\ Len(g) = Len(q) + Len(N)
        /\ \A i \in 1 .. Len(q) + Len(N) : g[i] = IF i <= Len(q) THEN q[i] ELSE N[i - Len(q)]
    BY ConcatProperties
  <1> HIDE DEF g
  <1>3. /\ \A i \in 1 .. Len(q) : g[i] = q[i]
        /\ \A i \in 1 .. Len(q) + Len(N) : i > Len(q) => g[i] = N[i - Len(q)]
    BY <1>1, <1>2
  <1>4. QED
    BY <1>2, <1>3 DEF g

\* What is sent comes after what there was.
LEMMA GrownFacts ==
    ASSUME NEW q \in Seq(Entry), NEW s \in Nat, NEW ms \in Seq(Msg)
    PROVE  /\ Grown(q, s, ms) \in Seq(Entry) /\ Len(Grown(q, s, ms)) = Len(q) + Len(ms)
           /\ \A i \in 1 .. Len(q) : Grown(q, s, ms)[i] = q[i]
           /\ \A i \in 1 .. Len(q) + Len(ms) : i > Len(q) =>
                /\ i - Len(q) \in 1 .. Len(ms)
                /\ Grown(q, s, ms)[i].n = s + (i - Len(q))
                /\ Grown(q, s, ms)[i].m = ms[i - Len(q)]
  <1> DEFINE N == Numbered(s, ms)
  <1>1. /\ N \in Seq(Entry) /\ Len(N) = Len(ms)
        /\ \A i \in 1 .. Len(ms) : N[i].n = s + i /\ N[i].m = ms[i]
    BY NumberedFacts
  <1>2. Grown(q, s, ms) = q \o N
    BY DEF Grown
  <1> HIDE DEF N
  <1>3. Len(q) \in Nat /\ Len(ms) \in Nat
    OBVIOUS
  <1>4. /\ q \o N \in Seq(Entry) /\ Len(q \o N) = Len(q) + Len(N)
        /\ \A i \in 1 .. Len(q) : (q \o N)[i] = q[i]
        /\ \A i \in 1 .. Len(q) + Len(N) : i > Len(q) => (q \o N)[i] = N[i - Len(q)]
    <2>1. N \in Seq(Entry)
      BY <1>1
    <2>2. QED
      BY <2>1, JoinedFacts
  <1>5. \A i \in 1 .. Len(q) + Len(ms) : i > Len(q) => i - Len(q) \in 1 .. Len(ms)
    BY <1>3
  <1>6. QED
    BY <1>1, <1>2, <1>3, <1>4, <1>5

\* The end of a buffer that is kept.
EndOf(k, b) ==
    /\ k \in Seq(Entry) /\ (b # <<>> => k # <<>>)
    /\ \E d \in 0 .. Len(b) : Len(k) = Len(b) - d /\ \A i \in 1 .. Len(k) : d + i \in 1 .. Len(b) /\ k[i] = b[d + i]

\* The runtime keeps the end of its messages, at most Buffer of them.
LEMMA KeptFacts ==
    ASSUME NEW b \in Seq(Entry)
    PROVE  EndOf(Kept(b), b) /\ Len(Kept(b)) <= Buffer /\ (Len(b) <= Buffer => Kept(b) = b)
  <1> DEFINE d == IF Len(b) > Buffer THEN Len(b) - Buffer ELSE 0
             k == Kept(b)
  <1>1. Buffer \in Nat /\ Buffer > 0 /\ Len(b) \in Nat
    BY ClientAssumption
  <1>2. d \in 0 .. Len(b) /\ (b # <<>> => d < Len(b)) /\ Len(b) - d <= Buffer
        /\ (Len(b) <= Buffer => d = 0)
    BY <1>1
  <1>3. k = SubSeq(b, d + 1, Len(b))
    BY DEF Kept
  <1> HIDE DEF d, k
  <1>4. k \in Seq(Entry) /\ Len(k) = Len(b) - d /\ \A i \in 1 .. Len(b) - d : k[i] = b[d + i]
    BY <1>1, <1>2, <1>3
  <1>5. \A i \in 1 .. Len(k) : d + i \in 1 .. Len(b)
    BY <1>1, <1>2, <1>4
  <1>6. b # <<>> => k # <<>>
    BY <1>1, <1>2, <1>4
  <1>7. EndOf(k, b)
    BY <1>2, <1>4, <1>5, <1>6 DEF EndOf
  <1>8. Len(b) <= Buffer => k = b
    BY <1>1, <1>2, <1>4
  <1>9. QED
    BY <1>2, <1>4, <1>7, <1>8 DEF k

\* The end of a buffer is a buffer, and what it lacks its client is told of.
LEMMA EndKeeps ==
    ASSUME NEW b, NEW k, NEW s \in Nat, NEW l \in Nat, NEW st \in Seq(Nat), NEW count \in Nat,
           BufferInv(b, s, l, st, count), EndOf(k, b)
    PROVE  /\ BufferInv(k, s, l, st, count)
           /\ Covers(b, l, st, count) => Covers(k, l, st, count)
           /\ TooLate(l, b) => TooLate(l, k)
           /\ NoGap(b, l) => NoGap(k, l)
           /\ \A q : Agree(q, b) => Agree(q, k)
  <1>1. /\ b \in Seq(Entry) /\ Len(b) <= s /\ (b = <<>> => s = 0)
        /\ \A i \in 1 .. Len(b) : b[i].n = s - Len(b) + i
    BY DEF BufferInv, IsBuffer
  <1>2. k \in Seq(Entry) /\ (b # <<>> => k # <<>>)
    BY DEF EndOf
  <1>3. PICK d \in 0 .. Len(b) :
          Len(k) = Len(b) - d /\ \A i \in 1 .. Len(k) : d + i \in 1 .. Len(b) /\ k[i] = b[d + i]
    BY DEF EndOf
  <1>4. Len(b) \in Nat /\ Len(k) \in Nat /\ DOMAIN b = 1 .. Len(b) /\ DOMAIN k = 1 .. Len(k) /\ d \in Nat
    BY <1>1, <1>2
  <1>5. IsBuffer(k, s)
    <2>1. ASSUME NEW i \in 1 .. Len(k)
          PROVE  k[i].n = s - Len(k) + i
      <3>1. d + i \in 1 .. Len(b) /\ k[i] = b[d + i] /\ i \in Nat
        BY <1>3
      <3>2. b[d + i].n = s - Len(b) + (d + i)
        BY <1>1, <3>1
      <3>3. Len(k) = Len(b) - d
        BY <1>3
      <3>4. QED
        BY <1>4, <3>1, <3>2, <3>3
    <2>2. k = <<>> => s = 0
      BY <1>1, <1>2
    <2>3. Len(k) <= s
      BY <1>1, <1>3, <1>4
    <2>4. QED
      BY <1>2, <1>4, <2>1, <2>2, <2>3 DEF IsBuffer
  <1>6. Ordered(k, count)
    <2>1. \A i, j \in DOMAIN k : i < j => d + i < d + j
      BY <1>4
    <2>2. QED
      BY <1>3, <1>4, <2>1 DEF BufferInv, Ordered
  <1>7. BufferInv(k, s, l, st, count)
    BY <1>3, <1>4, <1>5, <1>6 DEF BufferInv
  <1>8. NoGap(b, l) => NoGap(k, l)
    BY <1>3, <1>4 DEF NoGap
  <1>9. TooLate(l, b) => TooLate(l, k)
    <2>1. ASSUME b # <<>>
          PROVE  k[1].n >= b[1].n /\ b[1].n \in Nat /\ k[1].n \in Nat
      <3>1. Len(b) > 0 /\ Len(k) > 0 /\ 1 \in 1 .. Len(b) /\ 1 \in 1 .. Len(k)
        BY <1>1, <1>2, <2>1
      <3>2. b[1].n = s - Len(b) + 1 /\ k[1].n = s - Len(b) + (d + 1)
        BY <1>1, <1>3, <3>1
      <3>3. QED
        BY <1>1, <1>4, <3>2
    <2>2. QED
      BY <1>2, <2>1 DEF TooLate
  <1>10. ASSUME Holds(b, l, st, count), ~TooLate(l, k)
         PROVE  Holds(k, l, st, count)
    <2>1. SUFFICES ASSUME NEW c \in Len(st) + 1 .. count
                   PROVE  \E i \in DOMAIN k : k[i].n > l /\ IsAct(k[i]) /\ k[i].m.id = c
      BY DEF Holds
    <2>2. PICK i \in 1 .. Len(b) : b[i].n > l /\ IsAct(b[i]) /\ b[i].m.id = c
      BY <1>4, <1>10 DEF Holds
    <2>3. k # <<>> /\ Len(k) > 0 /\ 1 \in 1 .. Len(k)
      BY <1>1, <1>2, <2>2
    <2>4. k[1].n = s - Len(k) + 1 /\ l >= k[1].n - 1
      <3>1. k[1].n = s - Len(k) + 1
        BY <1>4, <1>5, <2>3 DEF IsBuffer
      <3>2. ~(l < k[1].n - 1)
        BY <1>10, <2>3 DEF TooLate
      <3>3. QED
        BY <1>4, <3>1, <3>2
    <2>5. i > d
      BY <1>1, <1>3, <1>4, <2>2, <2>4
    <2>6. i - d \in 1 .. Len(k) /\ d + (i - d) = i
      BY <1>3, <1>4, <2>5
    <2>7. k[i - d] = b[i]
      BY <1>3, <2>6
    <2>8. QED
      BY <1>4, <2>2, <2>6, <2>7
  <1>11. ASSUME NEW q, Agree(q, b)
         PROVE  Agree(q, k)
    <2>1. SUFFICES ASSUME NEW i \in DOMAIN q, NEW j \in DOMAIN k
                   PROVE  /\ q[i].n = k[j].n => q[i].m = k[j].m
                          /\ q[i].n < k[j].n /\ IsAct(q[i]) /\ IsAct(k[j]) => q[i].m.id < k[j].m.id
      BY DEF Agree
    <2>2. d + j \in DOMAIN b /\ k[j] = b[d + j]
      BY <1>3, <1>4
    <2>3. QED
      BY <1>11, <2>2 DEF Agree
  <1>12. QED
    BY <1>7, <1>8, <1>9, <1>10, <1>11 DEF Covers

\* The end of an end.
LEMMA EndOfEnd ==
    ASSUME NEW b \in Seq(Entry), NEW k, NEW e, EndOf(k, b), EndOf(e, k)
    PROVE  EndOf(e, b)
  <1>1. k \in Seq(Entry) /\ e \in Seq(Entry) /\ (b # <<>> => k # <<>>) /\ (k # <<>> => e # <<>>)
    BY DEF EndOf
  <1>2. PICK d \in 0 .. Len(b) :
          Len(k) = Len(b) - d /\ \A i \in 1 .. Len(k) : d + i \in 1 .. Len(b) /\ k[i] = b[d + i]
    BY DEF EndOf
  <1>3. PICK c \in 0 .. Len(k) :
          Len(e) = Len(k) - c /\ \A i \in 1 .. Len(e) : c + i \in 1 .. Len(k) /\ e[i] = k[c + i]
    BY DEF EndOf
  <1>4. Len(b) \in Nat /\ Len(k) \in Nat /\ Len(e) \in Nat /\ c \in Nat /\ d \in Nat
    BY <1>1
  <1>5. d + c \in 0 .. Len(b) /\ Len(e) = Len(b) - (d + c)
    BY <1>2, <1>3, <1>4
  <1>6. ASSUME NEW i \in 1 .. Len(e)
        PROVE  (d + c) + i \in 1 .. Len(b) /\ e[i] = b[(d + c) + i]
    <2>1. c + i \in 1 .. Len(k) /\ e[i] = k[c + i]
      BY <1>3
    <2>2. d + (c + i) \in 1 .. Len(b) /\ k[c + i] = b[d + (c + i)]
      BY <1>2, <2>1
    <2>3. d + (c + i) = (d + c) + i
      BY <1>4
    <2>4. QED
      BY <2>1, <2>2, <2>3
  <1>7. QED
    BY <1>1, <1>5, <1>6 DEF EndOf

-----------------------------------------------------------------------------
(* What is sent *)

NoGaps(ms) == \A i \in DOMAIN ms : ms[i].type # "buffer.gap"
\* Messages that record no action, or the next one alone.
News(ms, count, new) ==
    \/ new = count /\ \A i \in DOMAIN ms : ms[i].type # "action"
    \/ new = count + 1 /\ ms = <<Of("action", new)>>

\* Messages record the next action, alone, or none.
LEMMA NewsFacts ==
    ASSUME NEW ms \in Seq(Msg), NEW count \in Nat, NEW new \in Nat, News(ms, count, new)
    PROVE  /\ new = count \/ (new = count + 1 /\ Len(ms) = 1 /\ ms[1].type = "action" /\ ms[1].id = new)
           /\ \A j \in 1 .. Len(ms) : ms[j].type = "action" =>
                j = 1 /\ Len(ms) = 1 /\ ms[j].id = count + 1 /\ new = count + 1
  <1>1. CASE new = count /\ \A i \in DOMAIN ms : ms[i].type # "action"
    BY <1>1
  <1>2. CASE new = count + 1 /\ ms = <<Of("action", new)>>
    <2>1. Len(ms) = 1 /\ ms[1] = Of("action", new)
      BY <1>2
    <2>2. ms[1].type = "action" /\ ms[1].id = new
      BY <2>1 DEF Of
    <2>3. QED
      BY <1>2, <2>1, <2>2
  <1>3. QED
    BY <1>1, <1>2 DEF News

\* What is there when messages are sent was there or is one of them.
LEMMA GrownCases ==
    ASSUME NEW q \in Seq(Entry), NEW s \in Nat, NEW ms \in Seq(Msg), NEW i \in DOMAIN Grown(q, s, ms)
    PROVE  \/ i \in DOMAIN q /\ Grown(q, s, ms)[i] = q[i]
           \/ \E j \in 1 .. Len(ms) :
                /\ i = Len(q) + j /\ Grown(q, s, ms)[i].n = s + j /\ Grown(q, s, ms)[i].m = ms[j]
  <1>1. /\ Grown(q, s, ms) \in Seq(Entry) /\ Len(Grown(q, s, ms)) = Len(q) + Len(ms)
        /\ \A k \in 1 .. Len(q) : Grown(q, s, ms)[k] = q[k]
        /\ \A k \in 1 .. Len(q) + Len(ms) : k > Len(q) =>
             /\ k - Len(q) \in 1 .. Len(ms)
             /\ Grown(q, s, ms)[k].n = s + (k - Len(q))
             /\ Grown(q, s, ms)[k].m = ms[k - Len(q)]
    BY GrownFacts
  <1>2. Len(q) \in Nat /\ i \in 1 .. Len(q) + Len(ms) /\ i \in Nat
    BY <1>1
  <1>3. CASE i <= Len(q)
    <2>1. i \in DOMAIN q /\ i \in 1 .. Len(q)
      BY <1>2, <1>3
    <2>2. QED
      BY <1>1, <2>1
  <1>4. CASE i > Len(q)
    <2>1. /\ i - Len(q) \in 1 .. Len(ms) /\ i = Len(q) + (i - Len(q))
          /\ Grown(q, s, ms)[i].n = s + (i - Len(q))
          /\ Grown(q, s, ms)[i].m = ms[i - Len(q)]
      BY <1>1, <1>2, <1>4
    <2>2. QED
      BY <2>1
  <1>5. QED
    BY <1>2, <1>3, <1>4

\* What was there, and each message, is there.
LEMMA GrownHas ==
    ASSUME NEW q \in Seq(Entry), NEW s \in Nat, NEW ms \in Seq(Msg)
    PROVE  /\ \A i \in DOMAIN q : i \in DOMAIN Grown(q, s, ms) /\ Grown(q, s, ms)[i] = q[i]
           /\ \A j \in 1 .. Len(ms) :
                /\ Len(q) + j \in DOMAIN Grown(q, s, ms)
                /\ Grown(q, s, ms)[Len(q) + j].n = s + j /\ Grown(q, s, ms)[Len(q) + j].m = ms[j]
  <1>1. /\ Grown(q, s, ms) \in Seq(Entry) /\ Len(Grown(q, s, ms)) = Len(q) + Len(ms)
        /\ \A k \in 1 .. Len(q) : Grown(q, s, ms)[k] = q[k]
        /\ \A k \in 1 .. Len(q) + Len(ms) : k > Len(q) =>
             /\ k - Len(q) \in 1 .. Len(ms)
             /\ Grown(q, s, ms)[k].n = s + (k - Len(q))
             /\ Grown(q, s, ms)[k].m = ms[k - Len(q)]
    BY GrownFacts
  <1>2. Len(q) \in Nat /\ Len(ms) \in Nat /\ DOMAIN q = 1 .. Len(q)
        /\ DOMAIN Grown(q, s, ms) = 1 .. Len(q) + Len(ms)
    BY <1>1
  <1>3. ASSUME NEW j \in 1 .. Len(ms)
        PROVE  /\ Len(q) + j \in DOMAIN Grown(q, s, ms)
               /\ Grown(q, s, ms)[Len(q) + j].n = s + j /\ Grown(q, s, ms)[Len(q) + j].m = ms[j]
    <2>1. Len(q) + j \in 1 .. Len(q) + Len(ms) /\ Len(q) + j > Len(q) /\ (Len(q) + j) - Len(q) = j
      BY <1>2
    <2>2. QED
      BY <1>1, <1>2, <2>1
  <1>4. QED
    BY <1>1, <1>2, <1>3

\* The order of actions when messages are sent.
LEMMA GrownOrdered ==
    ASSUME NEW q \in Seq(Entry), NEW s \in Nat, NEW ms \in Seq(Msg), NEW count \in Nat, NEW new \in Nat,
           Ordered(q, count), News(ms, count, new)
    PROVE  Ordered(Grown(q, s, ms), new)
  <1> DEFINE g == Grown(q, s, ms)
  <1>1. /\ new = count \/ new = count + 1
        /\ \A j \in 1 .. Len(ms) : ms[j].type = "action" =>
             j = 1 /\ Len(ms) = 1 /\ ms[j].id = count + 1 /\ new = count + 1
    BY NewsFacts
  <1>2. \A i \in DOMAIN g :
          \/ i \in DOMAIN q /\ g[i] = q[i]
          \/ \E j \in 1 .. Len(ms) : i = Len(q) + j /\ g[i].n = s + j /\ g[i].m = ms[j]
    BY GrownCases
  <1>3. DOMAIN q = 1 .. Len(q) /\ Len(q) \in Nat
    OBVIOUS
  <1> HIDE DEF g
  <1>4. ASSUME NEW i \in DOMAIN g, IsAct(g[i])
        PROVE  \/ i \in DOMAIN q /\ g[i] = q[i] /\ g[i].m.id \in 1 .. count
               \/ i = Len(q) + 1 /\ g[i].m.id = count + 1 /\ new = count + 1
    <2>1. CASE i \in DOMAIN q /\ g[i] = q[i]
      BY <1>4, <2>1 DEF Ordered
    <2>2. CASE \E j \in 1 .. Len(ms) : i = Len(q) + j /\ g[i].n = s + j /\ g[i].m = ms[j]
      BY <1>1, <1>4, <2>2 DEF IsAct
    <2>3. QED
      BY <1>2, <2>1, <2>2
  <1>5. ASSUME NEW i \in DOMAIN g, IsAct(g[i])
        PROVE  g[i].m.id \in 1 .. new
    BY <1>1, <1>4, <1>5
  <1>6. ASSUME NEW i \in DOMAIN g, NEW j \in DOMAIN g, i < j, IsAct(g[i]), IsAct(g[j])
        PROVE  g[i].m.id < g[j].m.id
    <2>1. CASE j \in DOMAIN q
      <3>1. i \in DOMAIN q /\ g[i] = q[i] /\ g[j] = q[j]
        BY <1>3, <1>4, <1>6, <2>1
      <3>2. QED
        BY <1>6, <2>1, <3>1 DEF Ordered
    <2>2. CASE j \notin DOMAIN q
      <3>1. j = Len(q) + 1 /\ g[j].m.id = count + 1
        BY <1>4, <1>6, <2>2
      <3>2. i \in DOMAIN q /\ g[i].m.id \in 1 .. count
        BY <1>3, <1>4, <1>6, <3>1
      <3>3. QED
        BY <3>1, <3>2
    <2>3. QED
      BY <2>1, <2>2
  <1>7. QED
    BY <1>5, <1>6 DEF Ordered, g

\* What goes for every entry of old and of the messages goes for all.
LEMMA GrownBeyond ==
    ASSUME NEW q \in Seq(Entry), NEW s \in Nat, NEW ms \in Seq(Msg), NEW count \in Nat, NEW new \in Nat,
           NEW st \in Seq(Nat), \A k \in DOMAIN st : st[k] <= count, News(ms, count, new),
           NEW i \in DOMAIN Grown(q, s, ms), i \notin DOMAIN q
    PROVE  Beyond(Grown(q, s, ms)[i], st)
  <1>1. PICK j \in 1 .. Len(ms) : Grown(q, s, ms)[i].m = ms[j]
    BY GrownCases
  <1>2. ms[j].type = "action" => ms[j].id = count + 1
    BY NewsFacts
  <1>3. \A k \in DOMAIN st : st[k] < count + 1
    OBVIOUS
  <1>4. QED
    BY <1>1, <1>2, <1>3 DEF Beyond, IsAct

\* Messages without a gap add none.
LEMMA GrownNoGap ==
    ASSUME NEW q \in Seq(Entry), NEW s \in Nat, NEW ms \in Seq(Msg), NEW l, NoGap(q, l), NoGaps(ms)
    PROVE  NoGap(Grown(q, s, ms), l)
  <1>1. SUFFICES ASSUME NEW i \in DOMAIN Grown(q, s, ms), Grown(q, s, ms)[i].n > l
                 PROVE  ~IsGap(Grown(q, s, ms)[i])
    BY DEF NoGap
  <1>2. CASE i \in DOMAIN q /\ Grown(q, s, ms)[i] = q[i]
    BY <1>1, <1>2 DEF NoGap
  <1>3. CASE \E j \in 1 .. Len(ms) : Grown(q, s, ms)[i].m = ms[j]
    BY <1>3 DEF NoGaps, IsGap
  <1>4. QED
    BY <1>2, <1>3, GrownCases

\* An action recorded is sent, so all that are not steps yet are still there.
LEMMA GrownHolds ==
    ASSUME NEW q \in Seq(Entry), NEW s \in Nat, NEW ms \in Seq(Msg), NEW count \in Nat, NEW new \in Nat,
           NEW st \in Seq(Nat), NEW l \in Nat, l <= s, News(ms, count, new), Holds(q, l, st, count)
    PROVE  Holds(Grown(q, s, ms), l, st, new)
  <1> DEFINE g == Grown(q, s, ms)
  <1>1. /\ \A i \in DOMAIN q : i \in DOMAIN g /\ g[i] = q[i]
        /\ \A j \in 1 .. Len(ms) : Len(q) + j \in DOMAIN g /\ g[Len(q) + j].n = s + j /\ g[Len(q) + j].m = ms[j]
    BY GrownHas
  <1>2. new = count \/ (new = count + 1 /\ Len(ms) = 1 /\ ms[1].type = "action" /\ ms[1].id = new)
    BY NewsFacts
  <1> HIDE DEF g
  <1>3. SUFFICES ASSUME NEW k \in Len(st) + 1 .. new
                 PROVE  \E i \in DOMAIN g : g[i].n > l /\ IsAct(g[i]) /\ g[i].m.id = k
    BY DEF Holds, g
  <1>4. CASE k <= count
    <2>1. k \in Len(st) + 1 .. count
      BY <1>4
    <2>2. PICK i \in DOMAIN q : q[i].n > l /\ IsAct(q[i]) /\ q[i].m.id = k
      BY <2>1 DEF Holds
    <2>3. QED
      BY <1>1, <2>2
  <1>5. CASE k > count
    <2>1. k = new /\ Len(ms) = 1 /\ ms[1].type = "action" /\ ms[1].id = k
      BY <1>2, <1>5
    <2>2. Len(q) + 1 \in DOMAIN g /\ g[Len(q) + 1].n = s + 1 /\ g[Len(q) + 1].m = ms[1]
      BY <1>1, <2>1
    <2>3. s + 1 > l
      OBVIOUS
    <2>4. QED
      BY <2>1, <2>2, <2>3 DEF IsAct
  <1>6. QED
    BY <1>4, <1>5

\* The buffer when messages are sent.
LEMMA GrownBuffer ==
    ASSUME NEW b, NEW s \in Nat, NEW l \in Nat, NEW st \in Seq(Nat), NEW count \in Nat, NEW new \in Nat,
           NEW ms \in Seq(Msg), BufferInv(b, s, l, st, count), News(ms, count, new),
           \A k \in DOMAIN st : st[k] <= count
    PROVE  /\ BufferInv(Grown(b, s, ms), s + Len(ms), l, st, new)
           /\ TooLate(l, b) => TooLate(l, Grown(b, s, ms))
           /\ l <= s /\ NoGaps(ms) /\ Covers(b, l, st, count) => Covers(Grown(b, s, ms), l, st, new)
  <1> DEFINE g == Grown(b, s, ms)
  <1>1. /\ b \in Seq(Entry) /\ Len(b) <= s /\ (b = <<>> => s = 0) /\ Ordered(b, count)
        /\ \A i \in DOMAIN b : b[i].n = s - Len(b) + i
        /\ \A j \in DOMAIN b : b[j].n > l => Beyond(b[j], st)
    BY DEF BufferInv, IsBuffer
  <1>2. g \in Seq(Entry) /\ Len(g) = Len(b) + Len(ms)
    BY <1>1, GrownFacts
  <1>3. \A i \in DOMAIN g :
          \/ i \in DOMAIN b /\ g[i] = b[i]
          \/ \E j \in 1 .. Len(ms) : i = Len(b) + j /\ g[i].n = s + j /\ g[i].m = ms[j]
    BY <1>1, GrownCases
  <1>4. Len(b) \in Nat /\ Len(ms) \in Nat /\ DOMAIN b = 1 .. Len(b)
    BY <1>1
  <1>5. Ordered(g, new)
    BY <1>1, GrownOrdered
  <1>6. \A i \in DOMAIN g : i \notin DOMAIN b => Beyond(g[i], st)
    BY <1>1, GrownBeyond
  <1>7. \A i \in DOMAIN b : i \in DOMAIN g /\ g[i] = b[i]
    BY <1>1, GrownHas
  <1>8. NoGaps(ms) /\ NoGap(b, l) => NoGap(g, l)
    BY <1>1, GrownNoGap
  <1>9. l <= s /\ Holds(b, l, st, count) => Holds(g, l, st, new)
    BY <1>1, GrownHolds
  <1> HIDE DEF g
  <1>10. ASSUME NEW i \in DOMAIN g
         PROVE  g[i].n = (s + Len(ms)) - Len(g) + i
    <2>1. CASE i \in DOMAIN b /\ g[i] = b[i]
      BY <1>1, <1>2, <1>4, <2>1
    <2>2. CASE \E j \in 1 .. Len(ms) : i = Len(b) + j /\ g[i].n = s + j /\ g[i].m = ms[j]
      BY <1>2, <1>4, <2>2
    <2>3. QED
      BY <1>3, <2>1, <2>2
  <1>11. g = <<>> => s + Len(ms) = 0
    BY <1>1, <1>2, <1>4
  <1>12. IsBuffer(g, s + Len(ms))
    BY <1>1, <1>2, <1>4, <1>10, <1>11 DEF IsBuffer
  <1>13. BufferInv(g, s + Len(ms), l, st, new)
    <2>1. ASSUME NEW i \in DOMAIN g, g[i].n > l
          PROVE  Beyond(g[i], st)
      BY <1>1, <1>6, <1>7, <2>1
    <2>2. QED
      BY <1>5, <1>12, <2>1 DEF BufferInv
  <1>14. TooLate(l, b) => TooLate(l, g)
    <2>1. SUFFICES ASSUME b # <<>>, l < b[1].n - 1
                   PROVE  g # <<>> /\ l < g[1].n - 1
      BY DEF TooLate
    <2>2. 1 \in DOMAIN b
      BY <1>1, <1>4, <2>1
    <2>3. QED
      BY <1>2, <1>7, <2>1, <2>2
  <1>15. QED
    BY <1>8, <1>9, <1>13, <1>14 DEF Covers, g

\* What is on its way when messages are sent.
LEMMA GrownInbox ==
    ASSUME NEW b, NEW q \in Seq(Entry), NEW s \in Nat, NEW l \in Nat, NEW st \in Seq(Nat),
           NEW count \in Nat, NEW new \in Nat, NEW ms \in Seq(Msg),
           BufferInv(b, s, l, st, count), News(ms, count, new), \A k \in DOMAIN st : st[k] <= count,
           Ordered(q, count), \A i \in DOMAIN q : q[i].n \in 1 .. s /\ Beyond(q[i], st), Agree(q, b)
    PROVE  /\ Ordered(Grown(q, s, ms), new)
           /\ \A i \in DOMAIN Grown(q, s, ms) :
                Grown(q, s, ms)[i].n \in 1 .. s + Len(ms) /\ Beyond(Grown(q, s, ms)[i], st)
           /\ Agree(Grown(q, s, ms), Grown(b, s, ms))
           /\ Agree(q, Grown(b, s, ms))
  <1> DEFINE g == Grown(q, s, ms)
             h == Grown(b, s, ms)
  <1>1. /\ b \in Seq(Entry) /\ Len(b) <= s /\ Ordered(b, count)
        /\ \A i \in 1 .. Len(b) : b[i].n = s - Len(b) + i
    BY DEF BufferInv, IsBuffer
  <1>2. Len(b) \in Nat /\ Len(ms) \in Nat /\ DOMAIN b = 1 .. Len(b) /\ Len(q) \in Nat
    BY <1>1
  <1>3. \A i \in DOMAIN g :
          \/ i \in DOMAIN q /\ g[i] = q[i]
          \/ \E j \in 1 .. Len(ms) : i = Len(q) + j /\ g[i].n = s + j /\ g[i].m = ms[j]
    BY GrownCases
  <1>4. \A i \in DOMAIN h :
          \/ i \in DOMAIN b /\ h[i] = b[i]
          \/ \E j \in 1 .. Len(ms) : i = Len(b) + j /\ h[i].n = s + j /\ h[i].m = ms[j]
    BY <1>1, GrownCases
  <1>5. \A j \in 1 .. Len(ms) : ms[j].type = "action" =>
          j = 1 /\ Len(ms) = 1 /\ ms[j].id = count + 1 /\ new = count + 1
    BY NewsFacts
  <1>6. Ordered(g, new)
    BY GrownOrdered
  <1>7. \A i \in DOMAIN g : i \notin DOMAIN q => Beyond(g[i], st)
    BY GrownBeyond
  <1> HIDE DEF g, h
  <1>8. \A i \in DOMAIN g : g[i].n \in 1 .. s + Len(ms) /\ Beyond(g[i], st)
    <2>1. SUFFICES ASSUME NEW i \in DOMAIN g
                   PROVE  g[i].n \in 1 .. s + Len(ms) /\ Beyond(g[i], st)
      OBVIOUS
    <2>2. CASE i \in DOMAIN q /\ g[i] = q[i]
      BY <1>2, <2>2
    <2>3. CASE i \notin DOMAIN q /\ \E j \in 1 .. Len(ms) : g[i].n = s + j
      BY <1>2, <1>7, <2>3
    <2>4. QED
      BY <1>3, <2>2, <2>3
  <1>9. \A i \in DOMAIN b : b[i].n <= s /\ b[i].n \in Nat /\ (IsAct(b[i]) => b[i].m.id \in 1 .. count)
    BY <1>1, <1>2 DEF Ordered
  <1>10. \A i \in DOMAIN q : q[i].n <= s /\ q[i].n \in Nat /\ (IsAct(q[i]) => q[i].m.id \in 1 .. count)
    BY DEF Ordered
  <1>11. ASSUME NEW i \in DOMAIN q, NEW j \in DOMAIN h
         PROVE  /\ q[i].n = h[j].n => q[i].m = h[j].m
                /\ q[i].n < h[j].n /\ IsAct(q[i]) /\ IsAct(h[j]) => q[i].m.id < h[j].m.id
    <2>1. CASE j \in DOMAIN b /\ h[j] = b[j]
      BY <2>1 DEF Agree
    <2>2. CASE \E k \in 1 .. Len(ms) : h[j].n = s + k /\ h[j].m = ms[k]
      <3>1. h[j].n > s /\ (IsAct(h[j]) => h[j].m.id = count + 1)
        BY <1>2, <1>5, <2>2 DEF IsAct
      <3>2. QED
        BY <1>10, <3>1
    <2>3. QED
      BY <1>4, <2>1, <2>2
  <1>12. ASSUME NEW i \in DOMAIN g, NEW j \in DOMAIN h
         PROVE  /\ g[i].n = h[j].n => g[i].m = h[j].m
                /\ g[i].n < h[j].n /\ IsAct(g[i]) /\ IsAct(h[j]) => g[i].m.id < h[j].m.id
    <2>1. CASE i \in DOMAIN q /\ g[i] = q[i]
      BY <1>11, <2>1
    <2>2. CASE \E k \in 1 .. Len(ms) : g[i].n = s + k /\ g[i].m = ms[k]
      <3>1. PICK k \in 1 .. Len(ms) : g[i].n = s + k /\ g[i].m = ms[k]
        BY <2>2
      <3>2. CASE j \in DOMAIN b /\ h[j] = b[j]
        BY <1>9, <3>1, <3>2
      <3>3. CASE \E c \in 1 .. Len(ms) : h[j].n = s + c /\ h[j].m = ms[c]
        BY <1>2, <1>5, <3>1, <3>3 DEF IsAct
      <3>4. QED
        BY <1>4, <3>2, <3>3
    <2>3. QED
      BY <1>3, <2>1, <2>2
  <1>13. QED
    BY <1>6, <1>8, <1>11, <1>12 DEF Agree, g, h

-----------------------------------------------------------------------------
(* A step of the server, as the channel sees it *)

ChannelStep == ChannelTypes' /\ ConnectionInv' /\ OrderInv' /\ LossInv'

\* Commands are taken or added; only connecting adds a hello.
OutboxStep ==
    /\ outbox' \in Seq(Msg)
    /\ transport # "connected" => outbox' = <<>>
    /\ \A i \in DOMAIN outbox' : outbox'[i].type = "client.hello" =>
         i \in DOMAIN outbox /\ outbox'[i] = outbox[i]

\* Steps are of actions recorded; the buffer is empty before anything was sent.
LEMMA OrderFacts ==
    ASSUME ChannelTypes, OrderInv
    PROVE  /\ Len(emitted) \in Nat /\ buffer \in Seq(Entry)
           /\ \A k \in DOMAIN steps : steps[k] <= Len(emitted) /\ steps[k] \in Nat
           /\ buffer = <<>> => seq = 0
  <1>1. Len(emitted) \in Nat /\ DOMAIN steps = 1 .. Len(steps) /\ Len(steps) \in Nat
    BY DEF ChannelTypes
  <1>2. buffer \in Seq(Entry) /\ (buffer = <<>> => seq = 0)
    BY DEF OrderInv, BufferInv, IsBuffer
  <1>3. ASSUME NEW k \in DOMAIN steps
        PROVE  steps[k] <= Len(emitted) /\ steps[k] \in Nat
    <2>1. steps[k] \in k .. Len(emitted) /\ k \in Nat
      BY <1>1 DEF OrderInv
    <2>2. QED
      BY <1>1, <2>1
  <1>4. QED
    BY <1>1, <1>2, <1>3

\* A sum taken in the other order.
LEMMA Sums ==
    ASSUME NEW a \in Nat, NEW b \in Nat, NEW c, NEW d \in Nat, a + b = c
    PROVE  c + d = a + (b + d)
  OBVIOUS

\* The runtime sends ms, to its buffer and to the client it is attached to.
LEMMA SendStep ==
    ASSUME ChannelTypes, ConnectionInv, OrderInv, LossInv, NEW ms \in Seq(Msg), NoGaps(ms),
           News(ms, Len(emitted), Len(emitted')), emitted' \in Seq(Nat), \A k \in DOMAIN emitted' : emitted'[k] = k,
           seq' = seq + Len(ms), EndOf(buffer', Grown(buffer, seq, ms)), Len(buffer') <= Buffer,
           inbox' = IF attached THEN Grown(inbox, seq, ms) ELSE inbox,
           UNCHANGED <<attached, transport, last, steps, warned>>, OutboxStep
    PROVE  ChannelStep
  <1> DEFINE count == Len(emitted)
             new == Len(emitted')
             g == Grown(buffer, seq, ms)
             q == Grown(inbox, seq, ms)
  <1>1. /\ inbox \in Seq(Entry) /\ outbox \in Seq(Msg) /\ seq \in Nat /\ last \in Nat
        /\ attached \in BOOLEAN /\ steps \in Seq(Nat) /\ warned \in BOOLEAN
        /\ count \in Nat /\ new \in Nat /\ Len(ms) \in Nat /\ Len(inbox) \in Nat
    BY DEF ChannelTypes
  <1>2. buffer \in Seq(Entry) /\ \A k \in DOMAIN steps : steps[k] <= count /\ steps[k] \in Nat
    BY OrderFacts
  <1>3. News(ms, count, new) /\ (new = count \/ new = count + 1)
    BY <1>1, NewsFacts
  <1>4. /\ BufferInv(buffer, seq, last, steps, count) /\ Ordered(inbox, count) /\ Agree(inbox, buffer)
        /\ \A i \in DOMAIN inbox : inbox[i].n \in 1 .. seq /\ Beyond(inbox[i], steps)
    BY DEF OrderInv
  <1>5. EndOf(buffer', g)
    OBVIOUS
  <1> HIDE DEF count, new
  <1>6. /\ BufferInv(g, seq + Len(ms), last, steps, new)
        /\ last <= seq /\ Covers(buffer, last, steps, count) => Covers(g, last, steps, new)
    BY <1>1, <1>2, <1>3, <1>4, GrownBuffer
  <1>7. /\ Ordered(q, new)
        /\ \A i \in DOMAIN q : q[i].n \in 1 .. seq + Len(ms) /\ Beyond(q[i], steps)
        /\ Agree(q, g) /\ Agree(inbox, g)
    BY <1>1, <1>2, <1>3, <1>4, GrownInbox
  <1>8. seq + Len(ms) \in Nat
    BY <1>1
  <1>9. q \in Seq(Entry) /\ Len(q) = Len(inbox) + Len(ms)
    BY <1>1, GrownFacts
  <1>10. \A i \in DOMAIN inbox : i \in DOMAIN q /\ q[i] = inbox[i]
    BY <1>1, GrownHas
  <1>11. \A i \in DOMAIN q :
           \/ i \in DOMAIN inbox /\ q[i] = inbox[i]
           \/ \E j \in 1 .. Len(ms) : i = Len(inbox) + j /\ q[i].n = seq + j /\ q[i].m = ms[j]
    BY <1>1, GrownCases
  <1>12. NoGap(inbox, last) => NoGap(q, last)
    BY <1>1, GrownNoGap
  <1>13. NoGap(buffer, last) => NoGap(g, last)
    BY <1>1, <1>2, GrownNoGap
  <1>14. last <= seq /\ Holds(inbox, last, steps, count) => Holds(q, last, steps, new)
    BY <1>1, <1>3, GrownHolds
  <1> HIDE DEF g, q
  <1>15. /\ BufferInv(buffer', seq + Len(ms), last, steps, new)
         /\ Covers(g, last, steps, new) => Covers(buffer', last, steps, new)
         /\ NoGap(g, last) => NoGap(buffer', last)
         /\ Agree(q, buffer') /\ Agree(inbox, buffer')
    BY <1>1, <1>5, <1>6, <1>7, <1>8, EndKeeps
  <1>16. /\ seq' = seq + Len(ms) /\ last' = last /\ steps' = steps /\ warned' = warned
         /\ attached' = attached /\ transport' = transport /\ Len(emitted') = new
         /\ inbox' = IF attached THEN q ELSE inbox
    BY DEF q, new
  <1>17. ChannelTypes'
    <2>1. inbox' \in Seq(Entry)
      BY <1>1, <1>9, <1>16
    <2>2. outbox' \in Seq(Msg)
      BY DEF OutboxStep
    <2>3. QED
      BY <1>1, <1>8, <1>16, <2>1, <2>2 DEF ChannelTypes
  <1>18. ConnectionInv'
    <2>1. /\ attached' => transport' = "connected"
          /\ ~attached' => inbox' = <<>>
          /\ transport' # "offline" => last' <= seq'
      BY <1>1, <1>16 DEF ConnectionInv
    <2>2. transport' # "connected" => outbox' = <<>>
      BY <1>16 DEF OutboxStep
    <2>3. \A i \in DOMAIN outbox' : outbox'[i].type = "client.hello" =>
          i = 1 /\ outbox'[i].id = last' /\ ~attached'
      BY <1>16 DEF OutboxStep, ConnectionInv
    <2>4. QED
      BY <2>1, <2>2, <2>3 DEF ConnectionInv
  <1>19. OrderInv'
    <2>1. \A i \in DOMAIN steps : steps[i] \in i .. new
      <3>1. \A i \in DOMAIN steps : steps[i] \in i .. count
        BY DEF OrderInv, count
      <3>2. count \in Nat /\ new \in Nat /\ count <= new /\ DOMAIN steps \subseteq Nat
        BY <1>1, <1>3
      <3>3. QED
        BY <3>1, <3>2
    <2>2. BufferInv(buffer', seq', last', steps', Len(emitted')) /\ Len(buffer') <= Buffer
      BY <1>15, <1>16
    <2>3. Ordered(inbox', Len(emitted')) /\ Agree(inbox', buffer')
          /\ \A i \in DOMAIN inbox' : inbox'[i].n \in 1 .. seq' /\ Beyond(inbox'[i], steps')
      <3>1. CASE attached
        BY <1>7, <1>15, <1>16, <3>1
      <3>2. CASE ~attached
        <4>1. inbox' = <<>> /\ DOMAIN inbox' = {}
          BY <1>16, <3>2 DEF ConnectionInv
        <4>2. QED
          BY <4>1 DEF Ordered, Agree
      <3>3. QED
        BY <3>1, <3>2
    <2>4. \A i, j \in DOMAIN steps : i < j => steps[i] < steps[j]
      BY DEF OrderInv
    <2>5. QED
      BY <1>16, <2>1, <2>2, <2>3, <2>4 DEF OrderInv
  <1>20. LossInv'
    <2>1. SUFFICES ASSUME transport # "offline", ~warned
                   PROVE  /\ \A i \in DOMAIN steps : steps[i] = i
                          /\ Covers(buffer', last, steps, new)
                          /\ attached /\ (inbox' = <<>> \/ ~IsGap(inbox'[1])) =>
                               /\ \A i \in DOMAIN inbox' : inbox'[i].n = last + i
                               /\ last + Len(inbox') = seq'
                               /\ NoGap(inbox', last) /\ NoGap(buffer', last)
                               /\ Holds(inbox', last, steps, new)
      BY <1>16 DEF LossInv
    <2>2. last <= seq
      BY <2>1 DEF ConnectionInv
    <2>3. (\A i \in DOMAIN steps : steps[i] = i) /\ Covers(buffer, last, steps, count)
      BY <2>1 DEF LossInv, count
    <2>4. Covers(buffer', last, steps, new)
      BY <1>6, <1>15, <2>2, <2>3
    <2>5. ASSUME attached, inbox' = <<>> \/ ~IsGap(inbox'[1])
          PROVE  /\ \A i \in DOMAIN inbox' : inbox'[i].n = last + i
                 /\ last + Len(inbox') = seq'
                 /\ NoGap(inbox', last) /\ NoGap(buffer', last)
                 /\ Holds(inbox', last, steps, new)
      <3>1. inbox' = q
        BY <1>16, <2>5
      <3>2. inbox = <<>> \/ ~IsGap(inbox[1])
        <4>1. ASSUME inbox # <<>>
              PROVE  1 \in DOMAIN inbox /\ q[1] = inbox[1] /\ q # <<>>
          <5>1. 1 \in DOMAIN inbox
            BY <1>1, <4>1
          <5>2. QED
            BY <1>10, <5>1
        <4>2. QED
          BY <2>5, <3>1, <4>1
      <3>3. /\ \A i \in DOMAIN inbox : inbox[i].n = last + i
            /\ last + Len(inbox) = seq
            /\ NoGap(inbox, last) /\ NoGap(buffer, last)
            /\ Holds(inbox, last, steps, count)
        BY <2>1, <2>5, <3>2 DEF LossInv, count
      <3>4. ASSUME NEW i \in DOMAIN q
            PROVE  q[i].n = last + i
        <4>1. last + Len(inbox) = seq
          BY <3>3
        <4>2. CASE i \in DOMAIN inbox /\ q[i] = inbox[i]
          BY <3>3, <4>2
        <4>3. CASE \E j \in 1 .. Len(ms) : i = Len(inbox) + j /\ q[i].n = seq + j
          <5>1. PICK j \in 1 .. Len(ms) : i = Len(inbox) + j /\ q[i].n = seq + j
            BY <4>3
          <5>2. j \in Nat /\ last \in Nat /\ Len(inbox) \in Nat
            BY <1>1
          <5>3. seq + j = last + (Len(inbox) + j)
            BY <4>1, <5>2, Sums
          <5>4. QED
            BY <5>1, <5>3
        <4>4. QED
          BY <1>11, <4>2, <4>3
      <3>5. last + Len(q) = seq'
        <4>1. last + Len(inbox) = seq /\ Len(q) = Len(inbox) + Len(ms) /\ seq' = seq + Len(ms)
          BY <1>9, <3>3
        <4>2. seq + Len(ms) = last + (Len(inbox) + Len(ms))
          BY <1>1, <4>1, Sums
        <4>3. QED
          BY <4>1, <4>2
      <3>6. QED
        BY <1>12, <1>13, <1>14, <1>15, <2>2, <3>1, <3>3, <3>4, <3>5
    <2>6. QED
      BY <2>3, <2>4, <2>5
  <1>21. QED
    BY <1>17, <1>18, <1>19, <1>20 DEF ChannelStep

-----------------------------------------------------------------------------
(* The hello of a client *)

\* What is sent again is the buffer's end, from the first later number on.
LEMMA ResentFacts ==
    ASSUME NEW b, NEW s \in Nat, NEW l \in Nat, IsBuffer(b, s)
    PROVE  /\ Resent(l, b) \in Seq(Entry)
           /\ \E f \in 1 .. Len(b) + 1 :
                /\ Len(Resent(l, b)) = Len(b) + 1 - f
                /\ \A j \in 1 .. Len(b) : b[j].n > l <=> j >= f
                /\ \A i \in 1 .. Len(Resent(l, b)) :
                     (f - 1) + i \in 1 .. Len(b) /\ Resent(l, b)[i] = b[(f - 1) + i]
  <1> DEFINE From(f) == \A j \in DOMAIN b : b[j].n > l <=> j >= f
             f == CHOOSE i \in 1 .. Len(b) + 1 : From(i)
             r == Resent(l, b)
  <1>1. /\ b \in Seq(Entry) /\ Len(b) <= s /\ Len(b) \in Nat /\ DOMAIN b = 1 .. Len(b)
        /\ \A i \in 1 .. Len(b) : b[i].n = s - Len(b) + i
    BY DEF IsBuffer
  <1>2. \E i \in 1 .. Len(b) + 1 : From(i)
    <2>1. CASE l < s - Len(b)
      <3>1. From(1) /\ 1 \in 1 .. Len(b) + 1
        BY <1>1, <2>1
      <3>2. QED
        BY <3>1
    <2>2. CASE l >= s
      <3>1. From(Len(b) + 1) /\ Len(b) + 1 \in 1 .. Len(b) + 1
        BY <1>1, <2>2
      <3>2. QED
        BY <3>1
    <2>3. CASE l >= s - Len(b) /\ l < s
      <3> DEFINE i == l - (s - Len(b)) + 1
      <3>1. From(i) /\ i \in 1 .. Len(b) + 1
        BY <1>1, <2>3
      <3>2. QED
        BY <3>1
    <2>4. QED
      BY <1>1, <2>1, <2>2, <2>3
  <1>3. r = SubSeq(b, f, Len(b))
    BY DEF Resent
  <1>4. f \in 1 .. Len(b) + 1 /\ From(f)
    BY <1>2
  <1> HIDE DEF f, r
  <1>5. /\ r \in Seq(Entry) /\ Len(r) = Len(b) + 1 - f
        /\ \A i \in 1 .. Len(b) + 1 - f : r[i] = b[(f - 1) + i]
    <2>1. \A i \in f .. Len(b) : b[i] \in Entry
      BY <1>1, <1>4
    <2>2. /\ r \in Seq(Entry)
          /\ Len(r) = IF f <= Len(b) THEN Len(b) - f + 1 ELSE 0
          /\ \A i \in 1 .. Len(b) - f + 1 : r[i] = b[f + i - 1]
      BY <1>1, <1>3, <1>4, <2>1, SubSeqProperties
    <2>3. QED
      BY <1>1, <1>4, <2>2
  <1>6. \A i \in 1 .. Len(r) : (f - 1) + i \in 1 .. Len(b)
    BY <1>1, <1>4, <1>5
  <1>7. \A j \in 1 .. Len(b) : b[j].n > l <=> j >= f
    BY <1>1, <1>4
  <1>8. QED
    BY <1>4, <1>5, <1>6, <1>7 DEF r

\* What is drawn from the messages sent agrees with them.
Drawn(q, b) == \A i \in DOMAIN q : \E j \in DOMAIN b : q[i].n = b[j].n /\ q[i].m = b[j].m

\* What is drawn from the buffer agrees with it, and is numbered as it is.
LEMMA DrawnAgrees ==
    ASSUME NEW b, NEW s \in Nat, NEW l \in Nat, NEW st, NEW count, BufferInv(b, s, l, st, count),
           NEW q, Drawn(q, b)
    PROVE  Agree(q, b) /\ \A i \in DOMAIN q : q[i].n \in 1 .. s
  <1>1. /\ b \in Seq(Entry) /\ Len(b) <= s /\ Len(b) \in Nat /\ DOMAIN b = 1 .. Len(b)
        /\ \A i \in 1 .. Len(b) : b[i].n = s - Len(b) + i
    BY DEF BufferInv, IsBuffer
  <1>2. ASSUME NEW i \in DOMAIN q, NEW j \in DOMAIN b
        PROVE  /\ q[i].n = b[j].n => q[i].m = b[j].m
               /\ q[i].n < b[j].n /\ IsAct(q[i]) /\ IsAct(b[j]) => q[i].m.id < b[j].m.id
    <2>1. PICK k \in DOMAIN b : q[i].n = b[k].n /\ q[i].m = b[k].m
      BY DEF Drawn
    <2>2. b[k].n = s - Len(b) + k /\ b[j].n = s - Len(b) + j
      BY <1>1
    <2>3. (b[k].n = b[j].n => k = j) /\ (b[k].n < b[j].n => k < j)
      BY <1>1, <2>2
    <2>4. k < j /\ IsAct(b[k]) /\ IsAct(b[j]) => b[k].m.id < b[j].m.id
      BY DEF BufferInv, Ordered
    <2>5. QED
      BY <2>1, <2>3, <2>4 DEF IsAct
  <1>3. ASSUME NEW i \in DOMAIN q
        PROVE  q[i].n \in 1 .. s
    <2>1. PICK k \in DOMAIN b : q[i].n = b[k].n
      BY DEF Drawn
    <2>2. QED
      BY <1>1, <2>1
  <1>4. QED
    BY <1>2, <1>3 DEF Agree

\* What a hello is answered with: the gap if there is one, and what came after number l.
LEMMA ResentInbox ==
    ASSUME NEW b, NEW s \in Nat, NEW l \in Nat, NEW st, NEW count \in Nat, BufferInv(b, s, l, st, count),
           NEW gap \in Seq(Entry), Len(gap) <= 1, \A i \in DOMAIN gap : IsGap(gap[i]), Drawn(gap, b)
    PROVE  LET q == gap \o Resent(l, b) IN
           /\ q \in Seq(Entry) /\ Ordered(q, count) /\ Agree(q, b)
           /\ \A i \in DOMAIN q : q[i].n \in 1 .. s /\ Beyond(q[i], st)
  <1> DEFINE r == Resent(l, b)
             q == gap \o r
  <1>1. IsBuffer(b, s) /\ b \in Seq(Entry)
    BY DEF BufferInv, IsBuffer
  <1>2. r \in Seq(Entry)
    BY <1>1, ResentFacts
  <1>3. PICK f \in 1 .. Len(b) + 1 :
          /\ \A j \in 1 .. Len(b) : b[j].n > l <=> j >= f
          /\ \A i \in 1 .. Len(r) : (f - 1) + i \in 1 .. Len(b) /\ r[i] = b[(f - 1) + i]
    BY <1>1, ResentFacts
  <1> HIDE DEF r
  <1>4. /\ q \in Seq(Entry) /\ Len(q) = Len(gap) + Len(r)
        /\ \A i \in 1 .. Len(gap) : q[i] = gap[i]
        /\ \A i \in 1 .. Len(gap) + Len(r) : i > Len(gap) => q[i] = r[i - Len(gap)]
    BY <1>2
  <1> HIDE DEF q
  <1>5. Len(gap) \in Nat /\ Len(r) \in Nat /\ Len(b) \in Nat /\ f \in Nat
        /\ DOMAIN q = 1 .. Len(gap) + Len(r)
    BY <1>1, <1>2, <1>4
  <1>6. ASSUME NEW i \in DOMAIN q, i > Len(gap)
        PROVE  \E j \in 1 .. Len(b) : j = (f - 1) + (i - Len(gap)) /\ q[i] = b[j] /\ b[j].n > l
    <2>1. i - Len(gap) \in 1 .. Len(r) /\ q[i] = r[i - Len(gap)]
      BY <1>4, <1>5, <1>6
    <2>2. (f - 1) + (i - Len(gap)) \in 1 .. Len(b) /\ q[i] = b[(f - 1) + (i - Len(gap))]
      BY <1>3, <2>1
    <2>3. (f - 1) + (i - Len(gap)) >= f
      BY <1>5, <2>1
    <2>4. QED
      BY <1>3, <2>2, <2>3
  <1>7. ASSUME NEW i \in DOMAIN q, i <= Len(gap)
        PROVE  i \in DOMAIN gap /\ q[i] = gap[i] /\ ~IsAct(q[i])
    <2>1. i \in 1 .. Len(gap) /\ i \in DOMAIN gap
      BY <1>5, <1>7
    <2>2. QED
      BY <1>4, <2>1 DEF IsGap, IsAct
  <1>8. Drawn(q, b)
    <2>1. SUFFICES ASSUME NEW i \in DOMAIN q
                   PROVE  \E j \in DOMAIN b : q[i].n = b[j].n /\ q[i].m = b[j].m
      BY DEF Drawn
    <2>2. CASE i <= Len(gap)
      BY <1>7, <2>2 DEF Drawn
    <2>3. CASE i > Len(gap)
      BY <1>1, <1>6, <2>3
    <2>4. QED
      BY <1>5, <2>2, <2>3
  <1>9. Agree(q, b) /\ \A i \in DOMAIN q : q[i].n \in 1 .. s
    BY <1>8, DrawnAgrees
  <1>10. ASSUME NEW i \in DOMAIN q
         PROVE  Beyond(q[i], st)
    <2>1. CASE i <= Len(gap)
      BY <1>7, <2>1 DEF Beyond
    <2>2. CASE i > Len(gap)
      <3>1. PICK j \in 1 .. Len(b) : q[i] = b[j] /\ b[j].n > l
        BY <1>6, <2>2
      <3>2. QED
        BY <1>1, <3>1 DEF BufferInv
    <2>3. QED
      BY <1>5, <2>1, <2>2
  <1>11. Ordered(q, count)
    <2>1. ASSUME NEW i \in DOMAIN q, IsAct(q[i])
          PROVE  /\ i > Len(gap) /\ (f - 1) + (i - Len(gap)) \in DOMAIN b
                 /\ q[i] = b[(f - 1) + (i - Len(gap))]
      BY <1>1, <1>5, <1>6, <1>7, <2>1
    <2>2. ASSUME NEW i \in DOMAIN q, IsAct(q[i])
          PROVE  q[i].m.id \in 1 .. count
      BY <2>1, <2>2 DEF BufferInv, Ordered
    <2>3. ASSUME NEW i \in DOMAIN q, NEW j \in DOMAIN q, i < j, IsAct(q[i]), IsAct(q[j])
          PROVE  q[i].m.id < q[j].m.id
      <3>1. (f - 1) + (i - Len(gap)) < (f - 1) + (j - Len(gap))
        BY <1>5, <2>3
      <3>2. QED
        BY <2>1, <2>3, <3>1 DEF BufferInv, Ordered
    <2>4. QED
      BY <2>2, <2>3 DEF Ordered
  <1>12. QED
    BY <1>4, <1>9, <1>10, <1>11 DEF q, r

\* A client the buffer reaches back to is sent all after its last number.
LEMMA ResentAll ==
    ASSUME NEW b, NEW s \in Nat, NEW l \in Nat, IsBuffer(b, s), l <= s, ~TooLate(l, b),
           NEW st, NEW count, NoGap(b, l), Holds(b, l, st, count)
    PROVE  /\ Len(Resent(l, b)) = s - l
           /\ \A i \in DOMAIN Resent(l, b) : Resent(l, b)[i].n = l + i
           /\ NoGap(Resent(l, b), l) /\ Holds(Resent(l, b), l, st, count)
  <1> DEFINE r == Resent(l, b)
  <1>1. /\ b \in Seq(Entry) /\ Len(b) <= s /\ Len(b) \in Nat /\ DOMAIN b = 1 .. Len(b)
        /\ (b = <<>> => s = 0) /\ \A i \in 1 .. Len(b) : b[i].n = s - Len(b) + i
    BY DEF IsBuffer
  <1>2. r \in Seq(Entry)
    BY ResentFacts
  <1>3. PICK f \in 1 .. Len(b) + 1 :
          /\ Len(r) = Len(b) + 1 - f
          /\ \A j \in 1 .. Len(b) : b[j].n > l <=> j >= f
          /\ \A i \in 1 .. Len(r) : (f - 1) + i \in 1 .. Len(b) /\ r[i] = b[(f - 1) + i]
    BY ResentFacts
  <1> HIDE DEF r
  <1>4. DOMAIN r = 1 .. Len(r) /\ Len(r) \in Nat /\ f \in Nat
    BY <1>1, <1>2
  <1>5. l >= s - Len(b)
    <2>1. CASE b = <<>>
      BY <1>1, <2>1
    <2>2. CASE b # <<>>
      <3>1. 1 \in 1 .. Len(b)
        BY <1>1, <2>2
      <3>2. b[1].n = s - Len(b) + 1 /\ ~(l < b[1].n - 1)
        BY <1>1, <2>2, <3>1 DEF TooLate
      <3>3. QED
        BY <1>1, <3>2
    <2>3. QED
      BY <2>1, <2>2
  <1>6. f = l - (s - Len(b)) + 1
    <2> DEFINE g == l - (s - Len(b)) + 1
    <2>1. g \in 1 .. Len(b) + 1
      BY <1>1, <1>5
    <2>2. \A j \in 1 .. Len(b) : b[j].n > l <=> j >= g
      BY <1>1, <1>5
    <2> HIDE DEF g
    <2>3. \A j \in 1 .. Len(b) : j >= f <=> j >= g
      BY <1>3, <2>2
    <2>4. ~(f < g)
      <3>1. SUFFICES ASSUME f < g PROVE FALSE
        OBVIOUS
      <3>2. f \in 1 .. Len(b)
        BY <1>1, <1>4, <2>1, <3>1
      <3>3. QED
        BY <1>4, <2>1, <2>3, <3>1, <3>2
    <2>5. ~(g < f)
      <3>1. SUFFICES ASSUME g < f PROVE FALSE
        OBVIOUS
      <3>2. g \in 1 .. Len(b)
        BY <1>1, <1>4, <2>1, <3>1
      <3>3. QED
        BY <1>4, <2>1, <2>3, <3>1, <3>2
    <2>6. f = g
      BY <1>4, <2>1, <2>4, <2>5
    <2>7. QED
      BY <2>6 DEF g
  <1>7. Len(r) = s - l
    BY <1>1, <1>3, <1>6
  <1>8. ASSUME NEW i \in DOMAIN r
        PROVE  r[i].n = l + i
    <2>1. (f - 1) + i \in 1 .. Len(b) /\ r[i] = b[(f - 1) + i]
      BY <1>3, <1>4
    <2>2. b[(f - 1) + i].n = s - Len(b) + ((f - 1) + i)
      BY <1>1, <2>1
    <2>3. QED
      BY <1>1, <1>4, <1>6, <2>1, <2>2
  <1>9. NoGap(r, l)
    BY <1>1, <1>3, <1>4 DEF NoGap
  <1>10. Holds(r, l, st, count)
    <2>1. SUFFICES ASSUME NEW k \in Len(st) + 1 .. count
                   PROVE  \E i \in DOMAIN r : r[i].n > l /\ IsAct(r[i]) /\ r[i].m.id = k
      BY DEF Holds
    <2>2. PICK j \in 1 .. Len(b) : b[j].n > l /\ IsAct(b[j]) /\ b[j].m.id = k
      BY <1>1 DEF Holds
    <2>3. j >= f
      BY <1>3, <2>2
    <2>4. j - (f - 1) \in 1 .. Len(r) /\ (f - 1) + (j - (f - 1)) = j
      BY <1>1, <1>3, <1>4, <2>3
    <2>5. r[j - (f - 1)] = b[j]
      BY <1>3, <2>4
    <2>6. QED
      BY <1>4, <2>2, <2>4, <2>5
  <1>11. QED
    BY <1>7, <1>8, <1>9, <1>10 DEF r

\* The two messages of a runtime's own.
LEMMA MsgTypes ==
    /\ <<Is("buffer.gap")>> \in Seq(Msg) /\ <<Is("server.ready")>> \in Seq(Msg) /\ <<>> \in Seq(Msg)
    /\ Is("buffer.gap").type = "buffer.gap" /\ Is("server.ready").type = "server.ready"
  <1>1. \A t \in MsgType : t # "open" => Is(t) \in Msg /\ Is(t).type = t
    <2>1. SUFFICES ASSUME NEW t \in MsgType, t # "open"
                   PROVE  Is(t) \in Msg /\ Is(t).type = t
      OBVIOUS
    <2>2. Is(t) \in [type : MsgType, id : Nat] /\ Is(t).type = t
      BY DEF Is
    <2>3. QED
      BY <2>1, <2>2 DEF Msg
  <1>2. Is("buffer.gap") \in Msg /\ Is("buffer.gap").type = "buffer.gap"
    BY <1>1 DEF MsgType
  <1>3. Is("server.ready") \in Msg /\ Is("server.ready").type = "server.ready"
    BY <1>1 DEF MsgType, Reports
  <1>4. QED
    BY <1>2, <1>3

\* A hello that is answered keeps the invariant: attach tells of a gap, or sends all the client lacks.
LEMMA HelloStep ==
    ASSUME ChannelTypes, ConnectionInv, OrderInv, LossInv, Hello
    PROVE  /\ ChannelStep
           /\ TooLate(last, buffer) => TooLate(last, buffer') /\ inbox' # <<>> /\ IsGap(inbox'[1])
           /\ ~TooLate(last, buffer) => inbox' = Grown(Resent(last, buffer), seq, <<Is("server.ready")>>)
  <1> DEFINE misses == MissesMore(last, buffer)
             ms == IF misses THEN <<Is("buffer.gap")>> ELSE <<>>
             rd == <<Is("server.ready")>>
             gap == Numbered(seq, ms)
             g == Grown(buffer, seq, ms)
             kept == Kept(g)
             s == seq + Len(ms)
             h == Grown(kept, s, rd)
             q == gap \o Resent(last, kept)
             count == Len(emitted)
  <1>1. /\ inbox \in Seq(Entry) /\ outbox \in Seq(Msg) /\ seq \in Nat /\ last \in Nat
        /\ attached \in BOOLEAN /\ steps \in Seq(Nat) /\ warned \in BOOLEAN
        /\ count \in Nat
    BY DEF ChannelTypes
  <1>2. /\ buffer \in Seq(Entry) /\ (buffer = <<>> => seq = 0)
        /\ \A k \in DOMAIN steps : steps[k] <= count /\ steps[k] \in Nat
    BY OrderFacts
  <1>3. BufferInv(buffer, seq, last, steps, count) /\ Len(buffer) <= Buffer
    BY DEF OrderInv
  <1>4. outbox # <<>> /\ Head(outbox).id = last /\ ~attached /\ transport = "connected"
    <2>1. outbox # <<>> /\ Head(outbox).type = "client.hello" /\ 1 \in DOMAIN outbox /\ Head(outbox) = outbox[1]
      BY <1>1 DEF Hello
    <2>2. QED
      BY <2>1 DEF ConnectionInv
  <1>5. ms \in Seq(Msg) /\ Len(ms) \in Nat /\ rd \in Seq(Msg) /\ Len(rd) = 1
        /\ News(ms, count, count) /\ News(rd, count, count) /\ NoGaps(rd)
    <2>1. ms \in Seq(Msg) /\ rd \in Seq(Msg)
      BY MsgTypes
    <2>2. NoGaps(rd) /\ News(rd, count, count)
      BY MsgTypes DEF NoGaps, News
    <2>3. News(ms, count, count)
      BY MsgTypes DEF News
    <2>4. QED
      BY <2>1, <2>2, <2>3
  <1>6. gap \in Seq(Entry) /\ Len(gap) = Len(ms)
        /\ \A i \in 1 .. Len(ms) : gap[i].n = seq + i /\ gap[i].m = ms[i]
    BY <1>1, <1>5, NumberedFacts
  <1>7. gap = IF misses THEN Numbered(seq, <<Is("buffer.gap")>>) ELSE <<>>
    BY <1>6
  <1>8. /\ seq' = s + 1 /\ buffer' = Kept(h)
        /\ inbox' = Grown(q, s, rd)
        /\ attached' = TRUE /\ outbox' = Tail(outbox)
        /\ UNCHANGED <<transport, last, steps, warned, emitted>>
    BY <1>4, <1>6, <1>7 DEF Hello, Grown, clientVars
  <1>9. misses <=> TooLate(last, buffer)
    BY <1>1, <1>2 DEF MissesMore, TooLate
  <1>10. misses => Len(ms) = 1 /\ ms[1].type = "buffer.gap"
    BY MsgTypes
  <1>11. ~misses => ms = <<>> /\ gap = <<>> /\ s = seq
    BY <1>1, <1>7
  <1>12. s \in Nat /\ s >= seq
    BY <1>1, <1>5
  <1>13. /\ BufferInv(g, s, last, steps, count)
         /\ TooLate(last, buffer) => TooLate(last, g)
    BY <1>1, <1>2, <1>3, <1>5, GrownBuffer
  <1> HIDE DEF misses, ms, rd, gap, s, count
  <1>14. g \in Seq(Entry) /\ Len(g) = Len(buffer) + Len(ms)
         /\ \A j \in 1 .. Len(ms) :
              Len(buffer) + j \in DOMAIN g /\ g[Len(buffer) + j].n = seq + j /\ g[Len(buffer) + j].m = ms[j]
    <2>1. g \in Seq(Entry) /\ Len(g) = Len(buffer) + Len(ms)
      BY <1>1, <1>2, <1>5, GrownFacts
    <2>2. \A j \in 1 .. Len(ms) :
            Len(buffer) + j \in DOMAIN g /\ g[Len(buffer) + j].n = seq + j /\ g[Len(buffer) + j].m = ms[j]
      <3>1. buffer \in Seq(Entry) /\ seq \in Nat /\ ms \in Seq(Msg)
        BY <1>1, <1>2, <1>5
      <3>2. QED
        BY <3>1, GrownHas, Zenon
    <2>3. QED
      BY <2>1, <2>2
  <1>15. ~misses => g = buffer
    <2>1. ASSUME ~misses
          PROVE  Numbered(seq, ms) = <<>>
      BY <1>11, <2>1 DEF gap
    <2>2. QED
      BY <1>2, <2>1 DEF Grown
  <1> HIDE DEF g
  <1>16. EndOf(kept, g) /\ (Len(g) <= Buffer => kept = g)
    BY <1>14, KeptFacts
  <1>17. ~misses => kept = buffer
    BY <1>3, <1>15, <1>16
  <1>18. /\ BufferInv(kept, s, last, steps, count)
         /\ TooLate(last, g) => TooLate(last, kept)
    BY <1>1, <1>12, <1>13, <1>16, EndKeeps
  <1>19. Drawn(gap, kept)
    <2>1. SUFFICES ASSUME NEW i \in DOMAIN gap
                   PROVE  \E j \in DOMAIN kept : gap[i].n = kept[j].n /\ gap[i].m = kept[j].m
      BY DEF Drawn
    <2>2. misses /\ i = 1 /\ Len(ms) = 1 /\ gap[1].n = seq + 1 /\ gap[1].m = ms[1]
      BY <1>6, <1>10, <1>11
    <2>3. Len(g) = Len(buffer) + 1 /\ g # <<>> /\ g[Len(g)].n = seq + 1 /\ g[Len(g)].m = ms[1]
      BY <1>14, <2>2
    <2>4. kept \in Seq(Entry) /\ kept # <<>> /\ Len(kept) \in DOMAIN kept /\ Len(kept) \in Nat
      BY <1>16, <2>3 DEF EndOf
    <2>5. PICK d \in 0 .. Len(g) :
            Len(kept) = Len(g) - d /\ \A k \in 1 .. Len(kept) : d + k \in 1 .. Len(g) /\ kept[k] = g[d + k]
      BY <1>16 DEF EndOf
    <2>6. d + Len(kept) = Len(g) /\ kept[Len(kept)] = g[d + Len(kept)]
      BY <1>14, <2>4, <2>5
    <2>7. QED
      BY <2>2, <2>3, <2>4, <2>6
  <1>20. \A i \in DOMAIN gap : IsGap(gap[i]) /\ i = 1
    BY <1>6, <1>10, <1>11 DEF IsGap
  <1>21. /\ q \in Seq(Entry) /\ Ordered(q, count) /\ Agree(q, kept)
         /\ \A i \in DOMAIN q : q[i].n \in 1 .. s /\ Beyond(q[i], steps)
    <2>1. Len(gap) <= 1
      BY <1>5, <1>6, <1>10, <1>11
    <2>2. QED
      BY <1>1, <1>6, <1>12, <1>18, <1>19, <1>20, <2>1, ResentInbox
  <1>22. kept \in Seq(Entry)
    BY <1>16 DEF EndOf
  <1>23. misses => q # <<>> /\ q[1] = gap[1] /\ IsGap(q[1]) /\ 1 \in DOMAIN q
    <2>1. ASSUME misses
          PROVE  Len(gap) = 1 /\ 1 \in DOMAIN gap
      BY <1>6, <1>10, <2>1
    <2>2. Resent(last, kept) \in Seq(Entry)
      BY <1>1, <1>12, <1>18, ResentFacts DEF BufferInv
    <2>3. ASSUME misses
          PROVE  Len(q) >= 1 /\ q[1] = gap[1]
      BY <1>6, <2>1, <2>2, <2>3
    <2>4. QED
      BY <1>20, <1>21, <2>1, <2>3
  <1>24. ~misses => q = Resent(last, buffer)
    <2>1. Resent(last, kept) \in Seq(Entry)
      BY <1>1, <1>12, <1>18, ResentFacts DEF BufferInv
    <2>2. QED
      BY <1>11, <1>17, <2>1
  <1> HIDE DEF kept, q
  <1>25. /\ BufferInv(h, s + 1, last, steps, count)
         /\ TooLate(last, kept) => TooLate(last, h)
         /\ last <= s /\ Covers(kept, last, steps, count) => Covers(h, last, steps, count)
    BY <1>1, <1>2, <1>5, <1>12, <1>18, GrownBuffer
  <1>26. /\ Ordered(Grown(q, s, rd), count)
         /\ \A i \in DOMAIN Grown(q, s, rd) :
              Grown(q, s, rd)[i].n \in 1 .. s + 1 /\ Beyond(Grown(q, s, rd)[i], steps)
         /\ Agree(Grown(q, s, rd), h)
    BY <1>1, <1>2, <1>5, <1>12, <1>18, <1>21, GrownInbox
  <1>27. h \in Seq(Entry) /\ Grown(q, s, rd) \in Seq(Entry) /\ Len(Grown(q, s, rd)) = Len(q) + 1
         /\ \A i \in DOMAIN q : i \in DOMAIN Grown(q, s, rd) /\ Grown(q, s, rd)[i] = q[i]
    <2>1. h \in Seq(Entry)
      BY <1>5, <1>12, <1>22, GrownFacts
    <2>2. Grown(q, s, rd) \in Seq(Entry) /\ Len(Grown(q, s, rd)) = Len(q) + 1
      <3>1. q \in Seq(Entry) /\ s \in Nat /\ rd \in Seq(Msg)
        BY <1>5, <1>12, <1>21
      <3>2. Grown(q, s, rd) \in Seq(Entry) /\ Len(Grown(q, s, rd)) = Len(q) + Len(rd)
        BY <3>1, GrownFacts, Zenon
      <3>3. QED
        BY <1>5, <3>2
    <2>3. \A i \in DOMAIN q : i \in DOMAIN Grown(q, s, rd) /\ Grown(q, s, rd)[i] = q[i]
      BY <1>5, <1>12, <1>21, GrownHas
    <2>4. QED
      BY <2>1, <2>2, <2>3
  <1>28. NoGap(buffer, last) /\ ~misses => NoGap(h, last)
    BY <1>1, <1>5, <1>12, <1>17, <1>22, GrownNoGap
  <1> HIDE DEF h
  <1>29. EndOf(buffer', h) /\ Len(buffer') <= Buffer
    BY <1>8, <1>27, KeptFacts
  <1>30. /\ BufferInv(buffer', s + 1, last, steps, count)
         /\ Covers(h, last, steps, count) => Covers(buffer', last, steps, count)
         /\ TooLate(last, h) => TooLate(last, buffer')
         /\ NoGap(h, last) => NoGap(buffer', last)
         /\ Agree(Grown(q, s, rd), buffer')
    <2>1. s + 1 \in Nat
      BY <1>12
    <2>2. QED
      BY <1>1, <1>25, <1>26, <1>29, <2>1, EndKeeps
  <1>31. ChannelTypes'
    <2>1. Tail(outbox) \in Seq(Msg)
      BY <1>1, <1>4
    <2>2. QED
      BY <1>8, <1>12, <1>27, <2>1 DEF ChannelTypes
  <1>32. ConnectionInv'
    <2>1. ASSUME NEW i \in DOMAIN Tail(outbox)
          PROVE  Tail(outbox)[i].type # "client.hello"
      <3>1. i + 1 \in DOMAIN outbox /\ Tail(outbox)[i] = outbox[i + 1] /\ i + 1 # 1
        BY <1>1, <1>4
      <3>2. QED
        BY <3>1, <1>4 DEF ConnectionInv
    <2>2. QED
      BY <1>1, <1>4, <1>8, <1>12, <2>1 DEF ConnectionInv
  <1>33. OrderInv'
    <2>1. seq' = s + 1 /\ Len(emitted') = count /\ last' = last /\ steps' = steps /\ inbox' = Grown(q, s, rd)
      BY <1>8 DEF count
    <2>2. \A i \in DOMAIN steps : steps[i] \in i .. count
      BY DEF OrderInv, count
    <2>3. \A i, j \in DOMAIN steps : i < j => steps[i] < steps[j]
      BY DEF OrderInv
    <2>4. QED
      BY <1>26, <1>29, <1>30, <2>1, <2>2, <2>3 DEF OrderInv
  <1>34. LossInv'
    <2>1. last <= seq
      BY <1>4 DEF ConnectionInv
    <2>2. SUFFICES ASSUME ~warned
                   PROVE  /\ \A i \in DOMAIN steps : steps[i] = i
                          /\ Covers(buffer', last, steps, count)
                          /\ inbox' = <<>> \/ ~IsGap(inbox'[1]) =>
                               /\ \A i \in DOMAIN inbox' : inbox'[i].n = last + i
                               /\ last + Len(inbox') = s + 1
                               /\ NoGap(inbox', last) /\ NoGap(buffer', last)
                               /\ Holds(inbox', last, steps, count)
      BY <1>8 DEF LossInv, count
    <2>3. (\A i \in DOMAIN steps : steps[i] = i) /\ Covers(buffer, last, steps, count)
      BY <1>4, <2>2 DEF LossInv, count
    <2>4. CASE misses
      <3>1. Covers(buffer', last, steps, count)
        BY <1>9, <1>13, <1>18, <1>25, <1>30, <2>4 DEF Covers
      <3>2. inbox' # <<>> /\ IsGap(inbox'[1])
        BY <1>8, <1>23, <1>27, <2>4
      <3>3. QED
        BY <2>3, <3>1, <3>2
    <2>5. CASE ~misses
      <3>1. s = seq /\ kept = buffer /\ ~TooLate(last, buffer) /\ q = Resent(last, buffer)
        BY <1>9, <1>11, <1>17, <1>24, <2>5 DEF s
      <3>2. NoGap(buffer, last) /\ Holds(buffer, last, steps, count)
        BY <2>3, <3>1 DEF Covers
      <3>3. Covers(buffer', last, steps, count) /\ NoGap(buffer', last)
        BY <1>12, <1>25, <1>28, <1>30, <2>1, <2>3, <2>5, <3>1, <3>2
      <3>4. /\ Len(q) = s - last /\ \A i \in DOMAIN q : q[i].n = last + i
            /\ NoGap(q, last) /\ Holds(q, last, steps, count)
        BY <1>1, <1>3, <2>1, <3>1, <3>2, ResentAll DEF BufferInv
      <3>5. NoGap(inbox', last)
        BY <1>1, <1>5, <1>8, <1>12, <1>21, <3>4, GrownNoGap
      <3>6. Holds(inbox', last, steps, count)
        BY <1>1, <1>5, <1>8, <1>12, <1>21, <2>1, <3>1, <3>4, GrownHolds
      <3>7. last + Len(inbox') = s + 1
        <4>1. Len(inbox') = (s - last) + 1
          BY <1>8, <1>27, <3>4
        <4>2. QED
          BY <1>1, <1>12, <4>1
      <3>8. ASSUME NEW i \in DOMAIN inbox'
            PROVE  inbox'[i].n = last + i
        <4>1. CASE i \in DOMAIN q /\ inbox'[i] = q[i]
          BY <3>4, <4>1
        <4>2. CASE \E j \in 1 .. Len(rd) : i = Len(q) + j /\ inbox'[i].n = s + j
          <5>1. i = (s - last) + 1 /\ inbox'[i].n = s + 1
            BY <1>5, <3>4, <4>2
          <5>2. QED
            BY <1>1, <1>12, <5>1
        <4>3. QED
          BY <1>5, <1>8, <1>12, <1>21, <4>1, <4>2, GrownCases
      <3>9. QED
        BY <2>3, <3>3, <3>5, <3>6, <3>7, <3>8
    <2>6. QED
      BY <2>4, <2>5
  <1>35. TooLate(last, buffer) => TooLate(last, buffer') /\ inbox' # <<>> /\ IsGap(inbox'[1])
    <2>1. SUFFICES ASSUME misses
                   PROVE  TooLate(last, buffer') /\ inbox' # <<>> /\ IsGap(inbox'[1])
      BY <1>9
    <2>2. TooLate(last, buffer')
      BY <1>9, <1>13, <1>18, <1>25, <1>30, <2>1
    <2>3. inbox' # <<>> /\ IsGap(inbox'[1])
      BY <1>8, <1>23, <1>27, <2>1
    <2>4. QED
      BY <2>2, <2>3
  <1>36. ~TooLate(last, buffer) => inbox' = Grown(Resent(last, buffer), seq, <<Is("server.ready")>>)
    <2>1. SUFFICES ASSUME ~misses
                   PROVE  inbox' = Grown(Resent(last, buffer), seq, rd)
      BY <1>9 DEF rd
    <2>2. s = seq /\ q = Resent(last, buffer)
      BY <1>11, <1>24, <2>1
    <2>3. QED
      BY <1>8, <2>2
  <1>37. QED
    BY <1>31, <1>32, <1>33, <1>34, <1>35, <1>36 DEF ChannelStep

-----------------------------------------------------------------------------
(* The client handles a message *)

\* What the buffer has of the messages on their way.
LEMMA AgreeHolds ==
    ASSUME NEW b, NEW s \in Nat, NEW l \in Nat, NEW q, NEW st, NEW count,
           IsBuffer(b, s), Agree(q, b), \A i \in DOMAIN q : q[i].n \in 1 .. s,
           Holds(q, l, st, count), ~TooLate(l, b)
    PROVE  Holds(b, l, st, count)
  <1>1. /\ b \in Seq(Entry) /\ Len(b) <= s /\ Len(b) \in Nat /\ DOMAIN b = 1 .. Len(b)
        /\ (b = <<>> => s = 0)
        /\ \A i \in 1 .. Len(b) : b[i].n = s - Len(b) + i
    BY DEF IsBuffer
  <1>2. SUFFICES ASSUME NEW k \in Len(st) + 1 .. count
                 PROVE  \E i \in DOMAIN b : b[i].n > l /\ IsAct(b[i]) /\ b[i].m.id = k
    BY DEF Holds
  <1>3. PICK i \in DOMAIN q : q[i].n > l /\ IsAct(q[i]) /\ q[i].m.id = k
    BY DEF Holds
  <1>4. q[i].n \in 1 .. s /\ b # <<>> /\ Len(b) > 0
    BY <1>1
  <1>5. q[i].n >= b[1].n /\ b[1].n = s - Len(b) + 1
    <2>1. b[1].n = s - Len(b) + 1 /\ 1 \in 1 .. Len(b)
      BY <1>1, <1>4
    <2>2. ~(l < b[1].n - 1)
      BY <1>4 DEF TooLate
    <2>3. QED
      BY <1>1, <1>3, <1>4, <2>1, <2>2
  <1> DEFINE j == q[i].n - (s - Len(b))
  <1>6. j \in 1 .. Len(b)
    BY <1>1, <1>4, <1>5
  <1>7. b[j].n = q[i].n
    BY <1>1, <1>4, <1>6
  <1> HIDE DEF j
  <1>8. b[j].m = q[i].m
    BY <1>1, <1>6, <1>7 DEF Agree
  <1>9. QED
    BY <1>1, <1>3, <1>6, <1>7, <1>8 DEF IsAct

\* The head of the inbox and the client's number after it.
LEMMA ReceiveFacts ==
    ASSUME ChannelTypes, ConnectionInv, OrderInv, Receive
    PROVE  /\ inbox # <<>> /\ 1 \in DOMAIN inbox /\ inbox[1] \in Entry /\ inbox[1].n \in 1 .. seq
           /\ attached /\ transport = "connected" /\ Len(inbox) \in Nat /\ Len(inbox) >= 1
           /\ inbox' \in Seq(Entry) /\ Len(inbox') = Len(inbox) - 1
           /\ \A i \in DOMAIN inbox' : i \in Nat /\ i + 1 \in DOMAIN inbox /\ inbox'[i] = inbox[i + 1]
           /\ last' = LastAfter(inbox[1].n) /\ last' \in Nat /\ last' >= last /\ last' >= inbox[1].n
           /\ last' <= seq
           /\ steps' = (IF IsAct(inbox[1]) THEN Append(steps, inbox[1].m.id) ELSE steps)
           /\ warned' = (warned \/ IsGap(inbox[1]))
           /\ screen' = Shown(screen, inbox[1].m)
           /\ UNCHANGED <<serverVars, transport, attempts, outbox, emitted, breaks, events>>
  <1>1. inbox \in Seq(Entry) /\ inbox # <<>> /\ transport = "connected" /\ inbox' = Tail(inbox)
        /\ last \in Nat /\ seq \in Nat
    BY DEF Receive, ChannelTypes
  <1>2. Len(inbox) \in Nat /\ Len(inbox) >= 1 /\ 1 \in DOMAIN inbox /\ inbox[1] \in Entry
        /\ Head(inbox) = inbox[1] /\ DOMAIN inbox = 1 .. Len(inbox)
    BY <1>1
  <1>3. inbox[1].n \in 1 .. seq
    BY <1>2 DEF OrderInv
  <1>4. attached
    BY <1>1 DEF ConnectionInv, ChannelTypes
  <1>5. /\ Tail(inbox) \in Seq(Entry) /\ Len(Tail(inbox)) = Len(inbox) - 1
        /\ \A i \in 1 .. Len(inbox) - 1 : Tail(inbox)[i] = inbox[i + 1]
    BY <1>1, <1>2
  <1>6. \A i \in DOMAIN inbox' : i \in Nat /\ i + 1 \in DOMAIN inbox /\ inbox'[i] = inbox[i + 1]
    BY <1>1, <1>2, <1>5
  <1>7. last <= seq
    BY <1>1 DEF ConnectionInv
  <1>8. last' = LastAfter(inbox[1].n)
    BY <1>2 DEF Receive
  <1>9. last' \in Nat /\ last' >= last /\ last' >= inbox[1].n /\ last' <= seq
    BY <1>1, <1>3, <1>7, <1>8 DEF LastAfter
  <1>10. /\ steps' = (IF IsAct(inbox[1]) THEN Append(steps, inbox[1].m.id) ELSE steps)
         /\ warned' = (warned \/ IsGap(inbox[1]))
         /\ screen' = Shown(screen, inbox[1].m)
    BY <1>2 DEF Receive, IsAct, IsGap
  <1>11. UNCHANGED <<serverVars, transport, attempts, outbox, emitted, breaks, events>>
    BY DEF Receive
  <1>12. QED
    BY <1>1, <1>2, <1>3, <1>4, <1>5, <1>6, <1>8, <1>9, <1>10, <1>11

\* A new step is a recorded action later than the steps there are.
LEMMA NewStepFacts ==
    ASSUME ChannelTypes, ConnectionInv, OrderInv, Receive, IsAct(inbox[1])
    PROVE  /\ inbox[1].m.id \in Len(steps) + 1 .. Len(emitted)
           /\ \A k \in DOMAIN steps : steps[k] < inbox[1].m.id
           /\ steps' \in Seq(Nat) /\ Len(steps') = Len(steps) + 1
           /\ steps'[Len(steps) + 1] = inbox[1].m.id
           /\ \A k \in DOMAIN steps : steps'[k] = steps[k]
  <1>1. 1 \in DOMAIN inbox /\ steps' = Append(steps, inbox[1].m.id)
    BY ReceiveFacts
  <1>2. steps \in Seq(Nat) /\ Len(steps) \in Nat /\ DOMAIN steps = 1 .. Len(steps) /\ Len(emitted) \in Nat
    BY DEF ChannelTypes
  <1>3. \A k \in DOMAIN steps : steps[k] < inbox[1].m.id
    BY <1>1 DEF OrderInv, Beyond
  <1>4. inbox[1].m.id \in 1 .. Len(emitted)
    BY <1>1 DEF OrderInv, Ordered
  <1>5. inbox[1].m.id >= Len(steps) + 1
    <2>1. CASE Len(steps) = 0
      BY <1>4, <2>1
    <2>2. CASE Len(steps) # 0
      <3>1. Len(steps) \in DOMAIN steps
        BY <1>2, <2>2
      <3>2. steps[Len(steps)] \in Len(steps) .. Len(emitted) /\ steps[Len(steps)] < inbox[1].m.id
        BY <1>3, <3>1 DEF OrderInv
      <3>3. QED
        BY <1>2, <1>4, <3>2
    <2>3. QED
      BY <2>1, <2>2
  <1>6. inbox[1].m.id \in Nat
    BY <1>4
  <1>7. steps' \in Seq(Nat) /\ Len(steps') = Len(steps) + 1
        /\ steps'[Len(steps) + 1] = inbox[1].m.id
        /\ \A k \in DOMAIN steps : steps'[k] = steps[k]
    BY <1>1, <1>2, <1>6
  <1>8. QED
    BY <1>2, <1>3, <1>4, <1>5, <1>7

\* A message handled keeps the order of steps, inbox and buffer.
LEMMA ReceiveOrder ==
    ASSUME ChannelTypes, ConnectionInv, OrderInv, Receive
    PROVE  OrderInv'
  <1>1. /\ inbox # <<>> /\ 1 \in DOMAIN inbox
        /\ \A i \in DOMAIN inbox' : i \in Nat /\ i + 1 \in DOMAIN inbox /\ inbox'[i] = inbox[i + 1]
        /\ last' \in Nat /\ last' >= last /\ last' >= inbox[1].n
    BY ReceiveFacts
  <1>2. /\ steps' = (IF IsAct(inbox[1]) THEN Append(steps, inbox[1].m.id) ELSE steps)
        /\ seq' = seq /\ buffer' = buffer /\ emitted' = emitted
    BY ReceiveFacts DEF serverVars
  <1>3. /\ steps \in Seq(Nat) /\ Len(steps) \in Nat /\ DOMAIN steps = 1 .. Len(steps) /\ Len(emitted) \in Nat
        /\ seq \in Nat /\ last \in Nat
    BY DEF ChannelTypes
  <1>4. \A k \in DOMAIN steps' :
          \/ k \in DOMAIN steps /\ steps'[k] = steps[k]
          \/ IsAct(inbox[1]) /\ k = Len(steps) + 1 /\ steps'[k] = inbox[1].m.id
    <2>1. CASE IsAct(inbox[1])
      <3>1. steps' \in Seq(Nat) /\ Len(steps') = Len(steps) + 1
            /\ steps'[Len(steps) + 1] = inbox[1].m.id
            /\ \A k \in DOMAIN steps : steps'[k] = steps[k]
        BY <2>1, NewStepFacts
      <3>2. DOMAIN steps' = 1 .. Len(steps) + 1
        BY <3>1
      <3>3. QED
        BY <1>3, <2>1, <3>1, <3>2
    <2>2. CASE ~IsAct(inbox[1])
      BY <1>2, <2>2
    <2>3. QED
      BY <2>1, <2>2
  <1>5. BufferInv(buffer, seq, last, steps, Len(emitted)) /\ Len(buffer) <= Buffer
        /\ Ordered(inbox, Len(emitted)) /\ Agree(inbox, buffer)
        /\ \A i \in DOMAIN inbox : inbox[i].n \in 1 .. seq /\ Beyond(inbox[i], steps)
    BY DEF OrderInv
  <1>6. \A j \in DOMAIN buffer : buffer[j].n \in Nat
    <2>1. \A j \in DOMAIN buffer : buffer[j] \in Entry
      BY <1>5 DEF BufferInv, IsBuffer
    <2>2. QED
      BY <2>1 DEF Entry
  <1>7. ASSUME NEW j \in DOMAIN buffer, buffer[j].n > last'
        PROVE  Beyond(buffer[j], steps')
    <2>1. buffer[j].n > last /\ inbox[1].n < buffer[j].n
      BY <1>1, <1>3, <1>5, <1>6, <1>7
    <2>2. Beyond(buffer[j], steps)
      BY <1>5, <2>1 DEF BufferInv
    <2>3. IsAct(inbox[1]) /\ IsAct(buffer[j]) => inbox[1].m.id < buffer[j].m.id
      BY <1>1, <1>5, <2>1 DEF Agree
    <2>4. QED
      BY <1>4, <2>2, <2>3 DEF Beyond
  <1>8. BufferInv(buffer, seq, last', steps', Len(emitted))
    BY <1>5, <1>7 DEF BufferInv
  <1>9. Ordered(inbox', Len(emitted))
    <2>1. \A i, j \in DOMAIN inbox' : i < j => i + 1 < j + 1
      BY <1>1
    <2>2. QED
      BY <1>1, <1>5, <2>1 DEF Ordered
  <1>10. Agree(inbox', buffer)
    BY <1>1, <1>5 DEF Agree
  <1>11. ASSUME NEW i \in DOMAIN inbox'
         PROVE  inbox'[i].n \in 1 .. seq /\ Beyond(inbox'[i], steps')
    <2>1. i + 1 \in DOMAIN inbox /\ inbox'[i] = inbox[i + 1] /\ 1 < i + 1
      <3>1. i \in Nat /\ i # 0 /\ i + 1 \in DOMAIN inbox /\ inbox'[i] = inbox[i + 1]
        <4>1. inbox' \in Seq(Entry)
          BY ReceiveFacts
        <4>2. QED
          BY <1>1, <4>1
      <3>2. QED
        BY <3>1
    <2>2. IsAct(inbox[1]) /\ IsAct(inbox[i + 1]) => inbox[1].m.id < inbox[i + 1].m.id
      BY <1>1, <1>5, <2>1 DEF Ordered
    <2>3. inbox[i + 1].n \in 1 .. seq /\ Beyond(inbox[i + 1], steps)
      BY <1>5, <2>1
    <2>4. QED
      BY <1>4, <2>1, <2>2, <2>3 DEF Beyond
  <1>12. ASSUME NEW k \in DOMAIN steps'
         PROVE  steps'[k] \in k .. Len(emitted)
    <2>1. CASE k \in DOMAIN steps /\ steps'[k] = steps[k]
      BY <2>1 DEF OrderInv
    <2>2. CASE IsAct(inbox[1]) /\ k = Len(steps) + 1 /\ steps'[k] = inbox[1].m.id
      BY <2>2, NewStepFacts
    <2>3. QED
      BY <1>4, <2>1, <2>2
  <1>13. ASSUME NEW i \in DOMAIN steps', NEW j \in DOMAIN steps', i < j
         PROVE  steps'[i] < steps'[j]
    <2>1. CASE j \in DOMAIN steps
      <3>1. i \in DOMAIN steps /\ steps'[i] = steps[i] /\ steps'[j] = steps[j]
        BY <1>3, <1>4, <1>13, <2>1
      <3>2. QED
        BY <1>13, <2>1, <3>1 DEF OrderInv
    <2>2. CASE j \notin DOMAIN steps
      <3>1. IsAct(inbox[1]) /\ j = Len(steps) + 1 /\ steps'[j] = inbox[1].m.id
        BY <1>4, <2>2
      <3>2. i \in DOMAIN steps /\ steps'[i] = steps[i]
        BY <1>3, <1>4, <1>13, <3>1
      <3>3. QED
        BY <3>1, <3>2, NewStepFacts
    <2>3. QED
      BY <2>1, <2>2
  <1>14. QED
    BY <1>2, <1>5, <1>8, <1>9, <1>10, <1>11, <1>12, <1>13 DEF OrderInv

\* A message handled loses nothing silently: an action becomes the next step, and the rest stay on their way.
LEMMA ReceiveLoss ==
    ASSUME ChannelTypes, ConnectionInv, OrderInv, LossInv, Receive
    PROVE  LossInv'
  <1> DEFINE count == Len(emitted)
  <1>1. /\ inbox # <<>> /\ 1 \in DOMAIN inbox /\ inbox[1].n \in 1 .. seq
        /\ attached /\ transport = "connected" /\ Len(inbox) \in Nat /\ Len(inbox) >= 1
        /\ inbox' \in Seq(Entry) /\ Len(inbox') = Len(inbox) - 1
        /\ \A i \in DOMAIN inbox' : i \in Nat /\ i + 1 \in DOMAIN inbox /\ inbox'[i] = inbox[i + 1]
        /\ last' = LastAfter(inbox[1].n) /\ last' \in Nat /\ last' <= seq
        /\ warned' = (warned \/ IsGap(inbox[1]))
    BY ReceiveFacts
  <1>2. seq' = seq /\ buffer' = buffer /\ emitted' = emitted /\ attached' = attached /\ transport' = transport
    BY ReceiveFacts DEF serverVars
  <1>3. /\ inbox \in Seq(Entry) /\ DOMAIN inbox = 1 .. Len(inbox) /\ steps \in Seq(Nat) /\ Len(steps) \in Nat
        /\ DOMAIN steps = 1 .. Len(steps) /\ count \in Nat /\ last \in Nat /\ seq \in Nat
    BY <1>1 DEF ChannelTypes
  <1>4. /\ BufferInv(buffer, seq, last, steps, count) /\ Ordered(inbox, count) /\ Agree(inbox, buffer)
    BY DEF OrderInv
  <1>5. SUFFICES ASSUME ~warned, ~IsGap(inbox[1])
                 PROVE  /\ \A i \in DOMAIN steps' : steps'[i] = i
                        /\ Covers(buffer, last', steps', count)
                        /\ \A i \in DOMAIN inbox' : inbox'[i].n = last' + i
                        /\ last' + Len(inbox') = seq
                        /\ NoGap(inbox', last') /\ NoGap(buffer, last')
                        /\ Holds(inbox', last', steps', count)
    BY <1>1, <1>2 DEF LossInv
  <1>6. /\ \A i \in DOMAIN steps : steps[i] = i
        /\ \A i \in DOMAIN inbox : inbox[i].n = last + i
        /\ last + Len(inbox) = seq
        /\ NoGap(inbox, last) /\ NoGap(buffer, last)
        /\ Holds(inbox, last, steps, count)
    BY <1>1, <1>5 DEF LossInv
  <1>7. last' = last + 1 /\ inbox[1].n = last + 1
    BY <1>1, <1>3, <1>6 DEF LastAfter
  <1>8. IsAct(inbox[1]) => inbox[1].m.id = Len(steps) + 1
    <2>1. SUFFICES ASSUME IsAct(inbox[1])
                   PROVE  inbox[1].m.id = Len(steps) + 1
      OBVIOUS
    <2>2. inbox[1].m.id \in Len(steps) + 1 .. count
      BY <2>1, NewStepFacts
    <2>3. Len(steps) + 1 \in Len(steps) + 1 .. count
      BY <1>3, <2>2
    <2>4. PICK i \in DOMAIN inbox : IsAct(inbox[i]) /\ inbox[i].m.id = Len(steps) + 1
      BY <1>6, <2>3 DEF Holds
    <2>5. CASE i = 1
      BY <2>4, <2>5
    <2>6. CASE i # 1
      <3>1. 1 < i
        BY <1>3, <2>6
      <3>2. inbox[1].m.id < Len(steps) + 1
        BY <1>1, <1>4, <2>1, <2>4, <3>1 DEF Ordered
      <3>3. QED
        BY <1>3, <2>2, <3>2
    <2>7. QED
      BY <2>5, <2>6
  <1>9. /\ \A i \in DOMAIN steps' : steps'[i] = i
        /\ Len(steps') \in Nat /\ Len(steps') >= Len(steps)
        /\ IsAct(inbox[1]) => inbox[1].m.id = Len(steps')
    <2>1. CASE IsAct(inbox[1])
      <3>1. steps' \in Seq(Nat) /\ Len(steps') = Len(steps) + 1
            /\ steps'[Len(steps) + 1] = inbox[1].m.id
            /\ \A k \in DOMAIN steps : steps'[k] = steps[k]
        BY <2>1, NewStepFacts
      <3>2. DOMAIN steps' = 1 .. Len(steps) + 1
        BY <3>1
      <3>3. \A i \in DOMAIN steps' : i \in DOMAIN steps \/ i = Len(steps) + 1
        BY <1>3, <3>2
      <3>4. \A i \in DOMAIN steps' : steps'[i] = i
        BY <1>6, <1>8, <2>1, <3>1, <3>3
      <3>5. QED
        BY <1>3, <1>8, <3>1, <3>4
    <2>2. CASE ~IsAct(inbox[1])
      <3>1. steps' = steps
        BY <2>2, ReceiveFacts
      <3>2. QED
        BY <1>3, <1>6, <2>2, <3>1
    <2>3. QED
      BY <2>1, <2>2
  <1>10. /\ \A i \in DOMAIN inbox' : inbox'[i].n = last' + i
         /\ last' + Len(inbox') = seq
    <2>1. ASSUME NEW i \in DOMAIN inbox'
          PROVE  inbox'[i].n = last' + i
      <3>1. i \in Nat /\ inbox'[i].n = last + (i + 1)
        BY <1>1, <1>6
      <3>2. QED
        BY <1>3, <1>7, <3>1
    <2>2. last' + Len(inbox') = seq
      <3>1. last \in Nat /\ Len(inbox) \in Nat /\ last + Len(inbox) = seq
            /\ last' = last + 1 /\ Len(inbox') = Len(inbox) - 1
        BY <1>1, <1>3, <1>6, <1>7
      <3>2. QED
        BY <3>1
    <2>3. QED
      BY <2>1, <2>2
  <1>11. \A j \in DOMAIN buffer : buffer[j].n \in Nat
    <2>1. \A j \in DOMAIN buffer : buffer[j] \in Entry
      BY <1>4 DEF BufferInv, IsBuffer
    <2>2. QED
      BY <2>1 DEF Entry
  <1>12. NoGap(buffer, last')
    BY <1>3, <1>6, <1>7, <1>11 DEF NoGap
  <1>13. NoGap(inbox', last')
    <2>1. \A i \in DOMAIN inbox : ~IsGap(inbox[i])
      <3>1. \A i \in DOMAIN inbox : last + i > last
        BY <1>3
      <3>2. QED
        BY <1>6, <3>1 DEF NoGap
    <2>2. QED
      BY <1>1, <2>1 DEF NoGap
  <1>14. Holds(inbox', last', steps', count)
    <2>1. SUFFICES ASSUME NEW k \in Len(steps') + 1 .. count
                   PROVE  \E i \in DOMAIN inbox' : inbox'[i].n > last' /\ IsAct(inbox'[i]) /\ inbox'[i].m.id = k
      BY DEF Holds
    <2>2. k \in Len(steps) + 1 .. count /\ k > Len(steps') /\ k \in Nat
      BY <1>3, <1>9
    <2>3. PICK i \in DOMAIN inbox : IsAct(inbox[i]) /\ inbox[i].m.id = k
      BY <1>6, <2>2 DEF Holds
    <2>4. i # 1
      BY <1>9, <2>2, <2>3
    <2>5. i - 1 \in 1 .. Len(inbox') /\ (i - 1) + 1 = i /\ i - 1 \in Nat /\ i - 1 > 0
      BY <1>1, <1>3, <2>4
    <2>6. i - 1 \in DOMAIN inbox' /\ inbox'[i - 1] = inbox[i] /\ inbox'[i - 1].n = last' + (i - 1)
      <3>1. i - 1 \in DOMAIN inbox'
        BY <1>1, <2>5
      <3>2. inbox'[i - 1] = inbox[(i - 1) + 1]
        BY <1>1, <3>1
      <3>3. QED
        BY <1>10, <2>5, <3>1, <3>2
    <2>7. last' + (i - 1) > last'
      BY <1>1, <2>5
    <2>8. QED
      BY <2>3, <2>6, <2>7
  <1>15. Covers(buffer, last', steps', count)
    <2>1. OrderInv'
      BY ReceiveOrder
    <2>2. IsBuffer(buffer, seq) /\ Agree(inbox', buffer) /\ \A i \in DOMAIN inbox' : inbox'[i].n \in 1 .. seq
      BY <1>2, <2>1 DEF OrderInv, BufferInv
    <2>3. ~TooLate(last', buffer) => Holds(buffer, last', steps', count)
      BY <1>1, <1>3, <1>14, <2>2, AgreeHolds
    <2>4. QED
      BY <1>12, <2>3 DEF Covers
  <1>16. QED
    BY <1>9, <1>10, <1>12, <1>13, <1>14, <1>15

\* A message handled keeps the invariant of the channel.
LEMMA ReceiveStep ==
    ASSUME ChannelTypes, ConnectionInv, OrderInv, LossInv, Receive
    PROVE  ChannelStep
  <1>1. ChannelTypes'
    <2>1. steps' \in Seq(Nat)
      <3>1. CASE IsAct(inbox[1])
        BY <3>1, NewStepFacts
      <3>2. CASE ~IsAct(inbox[1])
        BY <3>2, ReceiveFacts DEF ChannelTypes
      <3>3. QED
        BY <3>1, <3>2
    <2>2. inbox' \in Seq(Entry) /\ last' \in Nat
      BY ReceiveFacts
    <2>3. warned' \in BOOLEAN
      BY ReceiveFacts DEF ChannelTypes, IsGap
    <2>4. UNCHANGED <<outbox, seq, attached, transport, emitted>>
      BY ReceiveFacts DEF serverVars
    <2>5. QED
      BY <2>1, <2>2, <2>3, <2>4 DEF ChannelTypes
  <1>2. ConnectionInv'
    <2>1. UNCHANGED <<outbox, seq, attached, transport>> /\ attached /\ transport = "connected" /\ last' <= seq
      BY ReceiveFacts DEF serverVars
    <2>2. QED
      BY <2>1 DEF ConnectionInv
  <1>3. OrderInv' /\ LossInv'
    BY ReceiveOrder, ReceiveLoss
  <1>4. QED
    BY <1>1, <1>2, <1>3 DEF ChannelStep

-----------------------------------------------------------------------------
(* What the server sends *)

Report == {m \in Msg : m.type \in Reports \cup {"open"}}

\* Reports record no action and tell of no gap.
LEMMA ReportFacts ==
    ASSUME NEW ms \in Seq(Report), NEW count
    PROVE  ms \in Seq(Msg) /\ NoGaps(ms) /\ News(ms, count, count)
  <1>1. Len(ms) \in Nat /\ DOMAIN ms = 1 .. Len(ms) /\ \A i \in DOMAIN ms : ms[i] \in Report
    OBVIOUS
  <1>2. \A i \in DOMAIN ms : ms[i] \in Msg /\ ms[i].type \in Reports \cup {"open"}
    BY <1>1 DEF Report
  <1>3. ms \in Seq(Msg)
    BY <1>2
  <1>4. \A t \in Reports \cup {"open"} : t # "buffer.gap" /\ t # "action"
    BY DEF Reports
  <1>5. QED
    BY <1>2, <1>3, <1>4 DEF NoGaps, News

\* A message with an id is a message.
LEMMA OfTypes ==
    ASSUME NEW t \in MsgType, NEW id \in Nat, t = "open" => id <= MaxEvents
    PROVE  Of(t, id) \in Msg /\ Of(t, id).type = t /\ Of(t, id).id = id
  <1>1. Of(t, id) \in [type : MsgType, id : Nat] /\ Of(t, id).type = t /\ Of(t, id).id = id
    BY DEF Of
  <1>2. QED
    BY <1>1 DEF Msg

\* A message without one is a message.
LEMMA IsTypes ==
    ASSUME NEW t \in MsgType
    PROVE  Is(t) \in Msg /\ Is(t).type = t
  <1>1. Is(t) = Of(t, 0)
    BY DEF Is, Of
  <1>2. 0 <= MaxEvents
    BY ClientAssumption
  <1>3. QED
    BY <1>1, <1>2, OfTypes

\* The reports of a runtime.
LEMMA ReportTypes ==
    /\ \A t \in Reports : Is(t) \in Report
    /\ \A id \in 0 .. MaxEvents : Of("closed", id) \in Report /\ Of("open", id) \in Report
  <1>1. ASSUME NEW t \in Reports
        PROVE  Is(t) \in Report
    <2>1. t \in MsgType
      BY DEF MsgType
    <2>2. QED
      BY <2>1, IsTypes DEF Report
  <1>2. ASSUME NEW id \in 0 .. MaxEvents
        PROVE  Of("closed", id) \in Report /\ Of("open", id) \in Report
    <2>1. id \in Nat /\ id <= MaxEvents
      BY ClientAssumption
    <2>2. "closed" \in MsgType /\ "closed" \in Reports /\ "open" \in MsgType
      BY DEF MsgType, Reports
    <2>3. Of("closed", id) \in Msg /\ Of("closed", id).type = "closed"
      BY <2>1, <2>2, OfTypes
    <2>4. Of("open", id) \in Msg /\ Of("open", id).type = "open"
      BY <2>1, <2>2, OfTypes
    <2>5. QED
      BY <2>2, <2>3, <2>4 DEF Report
  <1>3. QED
    BY <1>1, <1>2

\* Reports sent keep the invariant of the channel (emit).
LEMMA EmitStep ==
    ASSUME ChannelTypes, ConnectionInv, OrderInv, LossInv, NEW ms \in Seq(Report), Emit(ms),
           UNCHANGED <<attached, transport, last, steps, warned, emitted>>, OutboxStep
    PROVE  ChannelStep
  <1>1. ms \in Seq(Msg) /\ NoGaps(ms) /\ News(ms, Len(emitted), Len(emitted'))
    BY ReportFacts
  <1>2. buffer \in Seq(Entry) /\ seq \in Nat
    BY OrderFacts DEF ChannelTypes
  <1>3. Grown(buffer, seq, ms) \in Seq(Entry)
    BY <1>1, <1>2, GrownFacts
  <1>4. buffer' = Kept(Grown(buffer, seq, ms)) /\ seq' = seq + Len(ms)
        /\ inbox' = IF attached THEN Grown(inbox, seq, ms) ELSE inbox
    BY DEF Emit, Grown
  <1>5. EndOf(buffer', Grown(buffer, seq, ms)) /\ Len(buffer') <= Buffer
    BY <1>3, <1>4, KeptFacts
  <1>6. emitted' \in Seq(Nat) /\ \A k \in DOMAIN emitted' : emitted'[k] = k
    BY DEF ChannelTypes
  <1>7. QED
    BY <1>1, <1>4, <1>5, <1>6, SendStep

\* The connection and its messages stay as they are.
LEMMA QuietStep ==
    ASSUME ChannelTypes, ConnectionInv, OrderInv, LossInv, OutboxStep,
           UNCHANGED <<seq, buffer, inbox, attached, transport, last, steps, warned, emitted>>
    PROVE  ChannelStep
  <1>1. ChannelTypes'
    BY DEF ChannelTypes, OutboxStep
  <1>2. ConnectionInv'
    BY DEF ConnectionInv, OutboxStep
  <1>3. OrderInv'
    BY DEF OrderInv
  <1>4. LossInv'
    BY DEF LossInv
  <1>5. QED
    BY <1>1, <1>2, <1>3, <1>4 DEF ChannelStep

\* Commands on their way stay there.
LEMMA NoCommandOutbox ==
    ASSUME ChannelTypes, ConnectionInv, UNCHANGED outbox
    PROVE  OutboxStep
  BY DEF ChannelTypes, ConnectionInv, OutboxStep

\* A command taken from its way leaves no hello there.
LEMMA CommandOutbox ==
    ASSUME ChannelTypes, ConnectionInv, NEW type, Command(type), type # "client.hello"
    PROVE  OutboxStep
  <1>1. outbox \in Seq(Msg) /\ outbox # <<>> /\ outbox' = Tail(outbox)
    BY DEF ChannelTypes, Command
  <1>2. transport = "connected"
    BY <1>1 DEF ConnectionInv
  <1>3. outbox' \in Seq(Msg)
    BY <1>1
  <1>4. ASSUME NEW i \in DOMAIN outbox', outbox'[i].type = "client.hello"
        PROVE  FALSE
    <2>1. i + 1 \in DOMAIN outbox /\ outbox'[i] = outbox[i + 1] /\ i + 1 # 1
      BY <1>1
    <2>2. QED
      BY <1>4, <2>1 DEF ConnectionInv
  <1>5. QED
    BY <1>2, <1>3, <1>4 DEF OutboxStep

\* A step of the server that sends reports, if anything.
LEMMA ServerStep ==
    ASSUME IInv, UNCHANGED <<attached, clientVars, emitted>>, server' \in ServerRec,
           events' \in 0 .. MaxEvents, grace' = grace, OutboxStep,
           Quiet \/ \E ms \in Seq(Report) : Emit(ms)
    PROVE  IInv'
  <1>1. ChannelStep
    <2>1. CASE Quiet
      BY <2>1, QuietStep DEF Quiet, IInv, clientVars
    <2>2. CASE \E ms \in Seq(Report) : Emit(ms)
      <3>1. PICK ms \in Seq(Report) : Emit(ms)
        BY <2>2
      <3>2. QED
        BY <3>1, EmitStep DEF IInv, clientVars
    <2>3. QED
      BY <2>1, <2>2
  <1>2. ScreenTypes'
    BY DEF IInv, ScreenTypes, clientVars
  <1>3. QED
    BY <1>1, <1>2 DEF IInv, ChannelStep

-----------------------------------------------------------------------------
(* The actions of the server *)

\* A runtime without a session.
LEMMA FreshType == Fresh \in ServerRec
  BY ClientAssumption DEF Fresh, ServerRec, NoPicker

\* What a runtime has open, its reports included.
LEMMA ServerFacts ==
    ASSUME IInv
    PROVE  /\ server \in ServerRec /\ server.pending \in 0 .. MaxEvents /\ server.lock \in BOOLEAN
           /\ server.session \in {"none", "recording", "replay"}
           /\ events \in 0 .. MaxEvents /\ events \in Nat /\ MaxEvents \in Nat
           /\ Closed \in Seq(Report) /\ Cancelled \in Seq(Report)
  <1>1. server \in ServerRec /\ events \in 0 .. MaxEvents /\ MaxEvents \in Nat
    BY ClientAssumption DEF IInv, ScreenTypes
  <1>2. server.pending \in 0 .. MaxEvents /\ server.lock \in BOOLEAN
        /\ server.session \in {"none", "recording", "replay"}
    BY <1>1 DEF ServerRec
  <1>3. Of("closed", server.pending) \in Report
    BY <1>2, ReportTypes
  <1>4. Closed \in Seq(Report)
    BY <1>3 DEF Closed
  <1>5. Is("cancelled") \in Report
    BY ReportTypes DEF Reports
  <1>6. Cancelled \in Seq(Report)
    BY <1>5 DEF Cancelled
  <1>7. QED
    BY <1>1, <1>2, <1>4, <1>6

\* A start keeps the invariant.
LEMMA StartStep ==
    ASSUME IInv, StartCommand
    PROVE  IInv'
  <1>1. OutboxStep
    BY CommandOutbox DEF StartCommand, IInv
  <1>2. server' \in ServerRec
    BY ServerFacts DEF StartCommand, ServerRec
  <1>3. <<Is("starting")>> \in Seq(Report)
    BY ReportTypes DEF Reports
  <1>4. Quiet \/ \E ms \in Seq(Report) : Emit(ms)
    BY <1>3 DEF StartCommand
  <1>5. QED
    BY <1>1, <1>2, <1>4, ServerStep, ServerFacts DEF StartCommand, Other, Rest

\* A session that opened, or failed to, keeps the invariant.
LEMMA StartedStep ==
    ASSUME IInv, Started
    PROVE  IInv'
  <1>1. OutboxStep
    BY NoCommandOutbox DEF Started, NoCommand, IInv
  <1>2. server' \in ServerRec
    BY FreshType DEF Started, ServerRec
  <1>3. <<Is("started"), Is("recording")>> \in Seq(Report) /\ <<Is("error")>> \in Seq(Report)
    <2>1. Is("started") \in Report /\ Is("recording") \in Report /\ Is("error") \in Report
      BY ReportTypes DEF Reports
    <2>2. QED
      BY <2>1
  <1>4. \E ms \in Seq(Report) : Emit(ms)
    BY <1>3 DEF Started
  <1>5. QED
    BY <1>1, <1>2, <1>4, ServerStep, ServerFacts DEF Started, Other, Rest

\* A stop or restart keeps the invariant.
LEMMA StopStep ==
    ASSUME IInv, StopCommand
    PROVE  IInv'
  <1>1. PICK type \in {"session.stop", "session.restart"} :
          /\ Command(type)
          /\ server' = [Fresh EXCEPT !.session = server.session,
                                     !.doing = IF type = "session.stop" THEN "stop" ELSE "restart"]
    BY DEF StopCommand
  <1>2. OutboxStep
    BY <1>1, CommandOutbox DEF IInv
  <1>3. server' \in ServerRec
    BY <1>1, FreshType, ServerFacts DEF ServerRec
  <1>4. Is("replay.stopping") \in Report /\ Is("stopping") \in Report
    BY ReportTypes DEF Reports
  <1>5. (IF server.session = "replay" THEN <<Is("replay.stopping")>> ELSE <<>>)
          \o <<Is("stopping")>> \o Cancelled \in Seq(Report)
    BY <1>4, ServerFacts
  <1>6. \E ms \in Seq(Report) : Emit(ms)
    BY <1>5 DEF StopCommand
  <1>7. QED
    BY <1>2, <1>3, <1>6, ServerStep, ServerFacts DEF StopCommand, Other, Rest

\* A replay asked for keeps the invariant, refused or not.
LEMMA ReplayCommandStep ==
    ASSUME IInv, ReplayCommand
    PROVE  IInv'
  <1>1. OutboxStep
    BY CommandOutbox DEF ReplayCommand, IInv
  <1>2. server' \in ServerRec
    BY FreshType, ServerFacts DEF ReplayCommand, ServerRec
  <1>3. <<Is("error")>> \in Seq(Report) /\ <<Is("replay.preparing")>> \in Seq(Report)
    <2>1. Is("error") \in Report /\ Is("replay.preparing") \in Report
      BY ReportTypes DEF Reports
    <2>2. QED
      BY <2>1
  <1>4. Quiet \/ \E ms \in Seq(Report) : Emit(ms)
    BY <1>3 DEF ReplayCommand
  <1>5. QED
    BY <1>1, <1>2, <1>4, ServerStep, ServerFacts DEF ReplayCommand, Other, Rest

\* A replay that started, or failed to, keeps the invariant.
LEMMA ReplayReadyStep ==
    ASSUME IInv, ReplayReady
    PROVE  IInv'
  <1>1. OutboxStep
    BY NoCommandOutbox DEF ReplayReady, NoCommand, IInv
  <1>2. server' \in ServerRec
    BY FreshType DEF ReplayReady, ServerRec
  <1>3. <<Is("replay.started"), Is("replay.running")>> \in Seq(Report) /\ <<Is("error")>> \in Seq(Report)
    <2>1. Is("replay.started") \in Report /\ Is("replay.running") \in Report /\ Is("error") \in Report
      BY ReportTypes DEF Reports
    <2>2. QED
      BY <2>1
  <1>4. \E ms \in Seq(Report) : Emit(ms)
    BY <1>3 DEF ReplayReady
  <1>5. QED
    BY <1>1, <1>2, <1>4, ServerStep, ServerFacts DEF ReplayReady, Other, Rest

\* A replay told to stop keeps the invariant.
LEMMA StopReplayStep ==
    ASSUME IInv, StopReplayCommand
    PROVE  IInv'
  <1>1. OutboxStep
    BY CommandOutbox DEF StopReplayCommand, IInv
  <1>2. server' \in ServerRec
    BY ServerFacts DEF StopReplayCommand, ServerRec
  <1>3. <<Is("replay.stopping")>> \in Seq(Report)
    BY ReportTypes DEF Reports
  <1>4. Quiet \/ \E ms \in Seq(Report) : Emit(ms)
    BY <1>3 DEF StopReplayCommand
  <1>5. QED
    BY <1>1, <1>2, <1>4, ServerStep, ServerFacts DEF StopReplayCommand, Other, Rest

\* The end of a replay keeps the invariant.
LEMMA ReplayOverStep ==
    ASSUME IInv, ReplayOver
    PROVE  IInv'
  <1>1. OutboxStep
    BY NoCommandOutbox DEF ReplayOver, NoCommand, IInv
  <1>2. server' \in ServerRec
    BY ServerFacts DEF ReplayOver, ServerRec
  <1>3. <<Is(IF server.doing = "idle" THEN "replay.completed" ELSE "replay.stopped"), Is("recording")>>
          \in Seq(Report)
    <2>1. (IF server.doing = "idle" THEN "replay.completed" ELSE "replay.stopped") \in Reports
          /\ "recording" \in Reports
      BY DEF Reports
    <2>2. QED
      BY <2>1, ReportTypes
  <1>4. \E ms \in Seq(Report) : Emit(ms)
    BY <1>3 DEF ReplayOver
  <1>5. QED
    BY <1>1, <1>2, <1>4, ServerStep, ServerFacts DEF ReplayOver, Other, Rest

\* A picked value, for the open picker or not, keeps the invariant.
LEMMA PickStep ==
    ASSUME IInv, PickCommand
    PROVE  IInv'
  <1>1. OutboxStep
    BY CommandOutbox DEF PickCommand, IInv
  <1>2. server' \in ServerRec
    BY ServerFacts DEF PickCommand, ServerRec, NoPicker
  <1>3. Is("error") \in Report
    BY ReportTypes DEF Reports
  <1>4. \A error \in BOOLEAN : Closed \o (IF error THEN <<Is("error")>> ELSE <<>>) \in Seq(Report)
    BY <1>3, ServerFacts
  <1>5. Quiet \/ \E ms \in Seq(Report) : Emit(ms)
    BY <1>4 DEF PickCommand
  <1>6. QED
    BY <1>1, <1>2, <1>5, ServerStep, ServerFacts DEF PickCommand, Other, Rest

\* A captcha the user solved keeps the invariant.
LEMMA ContinueStep ==
    ASSUME IInv, ContinueCommand
    PROVE  IInv'
  <1>1. OutboxStep
    BY CommandOutbox DEF ContinueCommand, IInv
  <1>2. server' \in ServerRec
    BY ServerFacts DEF ContinueCommand, ServerRec
  <1>3. <<Is("solved")>> \in Seq(Report)
    BY ReportTypes DEF Reports
  <1>4. Quiet \/ \E ms \in Seq(Report) : Emit(ms)
    BY <1>3 DEF ContinueCommand
  <1>5. QED
    BY <1>1, <1>2, <1>4, ServerStep, ServerFacts DEF ContinueCommand, Other, Rest

\* A picker that opens over another keeps the invariant.
LEMMA PickerOpensStep ==
    ASSUME IInv, PickerOpens
    PROVE  IInv'
  <1>1. OutboxStep
    BY NoCommandOutbox DEF PickerOpens, BrowserEvent, IInv
  <1>2. events + 1 \in 0 .. MaxEvents /\ events' = events + 1
    BY ServerFacts DEF PickerOpens, BrowserEvent
  <1>3. server' \in ServerRec
    BY <1>2, ServerFacts DEF PickerOpens, ServerRec
  <1>4. Of("open", events + 1) \in Report
    BY <1>2, ReportTypes
  <1>5. Closed \o <<Of("open", events + 1)>> \in Seq(Report)
    BY <1>4, ServerFacts
  <1>6. \E ms \in Seq(Report) : Emit(ms)
    BY <1>5 DEF PickerOpens
  <1>7. QED
    BY <1>1, <1>2, <1>3, <1>6, ServerStep DEF PickerOpens, BrowserEvent

\* A picker the page closes keeps the invariant.
LEMMA PickerClosesStep ==
    ASSUME IInv, PickerCloses
    PROVE  IInv'
  <1>1. OutboxStep
    BY NoCommandOutbox DEF PickerCloses, BrowserEvent, IInv
  <1>2. events + 1 \in 0 .. MaxEvents /\ events' = events + 1
    BY ServerFacts DEF PickerCloses, BrowserEvent
  <1>3. server' \in ServerRec
    BY ServerFacts DEF PickerCloses, ServerRec, NoPicker
  <1>4. \E ms \in Seq(Report) : Emit(ms)
    BY ServerFacts DEF PickerCloses
  <1>5. QED
    BY <1>1, <1>2, <1>3, <1>4, ServerStep DEF PickerCloses, BrowserEvent

\* A captcha seen keeps the invariant.
LEMMA CaptchaSeenStep ==
    ASSUME IInv, CaptchaSeen
    PROVE  IInv'
  <1>1. OutboxStep
    BY NoCommandOutbox DEF CaptchaSeen, BrowserEvent, IInv
  <1>2. events + 1 \in 0 .. MaxEvents /\ events' = events + 1
    BY ServerFacts DEF CaptchaSeen, BrowserEvent
  <1>3. server' \in ServerRec
    <2>1. server \in ServerRec /\ NoPicker \in 0 .. MaxEvents
      BY ServerFacts DEF NoPicker
    <2>2. server' = [server EXCEPT !.lock = TRUE, !.pending = NoPicker]
      BY DEF CaptchaSeen
    <2>3. QED
      BY <2>1, <2>2 DEF ServerRec
  <1>4. Is("solving") \in Report
    BY ReportTypes DEF Reports
  <1>5. Closed \o <<Is("solving")>> \in Seq(Report)
    BY <1>4, ServerFacts
  <1>6. \E ms \in Seq(Report) : Emit(ms)
    BY <1>5 DEF CaptchaSeen
  <1>7. QED
    BY <1>1, <1>2, <1>3, <1>6, ServerStep DEF CaptchaSeen, BrowserEvent

\* A captcha solved by itself keeps the invariant.
LEMMA CaptchaSolvedStep ==
    ASSUME IInv, CaptchaSolved
    PROVE  IInv'
  <1>1. OutboxStep
    BY NoCommandOutbox DEF CaptchaSolved, NoCommand, IInv
  <1>2. server' \in ServerRec
    BY ServerFacts DEF CaptchaSolved, ServerRec
  <1>3. <<Is("solved")>> \in Seq(Report)
    BY ReportTypes DEF Reports
  <1>4. \E ms \in Seq(Report) : Emit(ms)
    BY <1>3 DEF CaptchaSolved
  <1>5. QED
    BY <1>1, <1>2, <1>4, ServerStep, ServerFacts DEF CaptchaSolved, Other, Rest

\* The first messages of the runtime after the one that stopped.
NewWords == FirstWords(server.doing = "restart")

\* A stop sends its last reports, and the next runtime's first with an empty buffer.
LEMMA StoppedSends ==
    ASSUME IInv, Stopped
    PROVE  /\ LastWords \o NewWords \in Seq(Report)
           /\ seq' = seq + Len(LastWords \o NewWords)
           /\ inbox' = IF attached THEN Grown(inbox, seq, LastWords \o NewWords) ELSE inbox
           /\ EndOf(buffer', Grown(buffer, seq, LastWords \o NewWords)) /\ Len(buffer') <= Buffer
  <1> DEFINE old == LastWords
             new == NewWords
             ms == old \o new
             N == Numbered(seq + Len(old), new)
             g == Grown(buffer, seq, ms)
  <1>1. /\ seq' = seq + Len(ms) /\ buffer' = Kept(N)
        /\ inbox' = IF attached THEN Grown(inbox, seq, ms) ELSE inbox
    BY DEF Stopped, Grown, NewWords
  <1>2. old \in Seq(Report) /\ new \in Seq(Report) /\ new # <<>>
    <2>1. Is("replay.stopped") \in Report /\ Is("stopped") \in Report /\ Is("server.ready") \in Report
          /\ Is("starting") \in Report
      BY ReportTypes DEF Reports
    <2>2. QED
      BY <2>1 DEF LastWords, NewWords, FirstWords
  <1>3. ChannelTypes /\ OrderInv
    BY DEF IInv
  <1> HIDE DEF old, new
  <1>5. ms \in Seq(Report) /\ Len(ms) = Len(old) + Len(new) /\ Len(old) \in Nat /\ Len(new) \in Nat
        /\ \A j \in 1 .. Len(new) : ms[Len(old) + j] = new[j]
    BY <1>2
  <1>6. ms \in Seq(Msg) /\ NoGaps(ms) /\ News(ms, Len(emitted), Len(emitted)) /\ new \in Seq(Msg)
    BY <1>2, <1>5, ReportFacts
  <1> HIDE DEF ms
  <1>7. buffer \in Seq(Entry) /\ seq \in Nat /\ Len(buffer) \in Nat /\ seq + Len(old) \in Nat
    BY <1>3, <1>5, OrderFacts DEF ChannelTypes
  <1>8. N \in Seq(Entry) /\ Len(N) = Len(new)
        /\ \A i \in 1 .. Len(new) : N[i].n = (seq + Len(old)) + i /\ N[i].m = new[i]
    BY <1>6, <1>7, NumberedFacts
  <1>9. g \in Seq(Entry) /\ Len(g) = Len(buffer) + Len(ms)
    BY <1>6, <1>7, GrownFacts
  <1>10. \A j \in 1 .. Len(ms) :
           Len(buffer) + j \in DOMAIN g /\ g[Len(buffer) + j].n = seq + j /\ g[Len(buffer) + j].m = ms[j]
    BY <1>6, <1>7, GrownHas
  <1> HIDE DEF N, g
  <1>11. EndOf(N, g)
    <2> DEFINE d == Len(buffer) + Len(old)
    <2>1. d \in 0 .. Len(g) /\ Len(N) = Len(g) - d /\ N # <<>>
      BY <1>2, <1>5, <1>7, <1>8, <1>9
    <2>2. ASSUME NEW i \in 1 .. Len(N)
          PROVE  d + i \in 1 .. Len(g) /\ N[i] = g[d + i]
      <3>1. i \in 1 .. Len(new) /\ Len(old) + i \in 1 .. Len(ms) /\ d + i = Len(buffer) + (Len(old) + i)
            /\ (seq + Len(old)) + i = seq + (Len(old) + i)
        BY <1>5, <1>7, <1>8
      <3>2. g[d + i].n = seq + (Len(old) + i) /\ g[d + i].m = ms[Len(old) + i] /\ d + i \in DOMAIN g
        BY <1>10, <3>1
      <3>3. N[i].n = g[d + i].n /\ N[i].m = g[d + i].m
        BY <1>5, <1>8, <3>1, <3>2
      <3>4. N[i] \in Entry /\ g[d + i] \in Entry /\ d + i \in 1 .. Len(g)
        BY <1>8, <1>9, <3>2
      <3>5. QED
        BY <3>3, <3>4 DEF Entry
    <2>3. QED
      BY <1>8, <2>1, <2>2 DEF EndOf
  <1>12. EndOf(buffer', N) /\ Len(buffer') <= Buffer
    BY <1>1, <1>8, KeptFacts
  <1>13. EndOf(buffer', g)
    BY <1>9, <1>11, <1>12, EndOfEnd
  <1>14. QED
    BY <1>1, <1>5, <1>12, <1>13 DEF g, ms, old, new

\* A session that stopped keeps the invariant.
LEMMA StoppedStep ==
    ASSUME IInv, Stopped
    PROVE  IInv'
  <1> DEFINE ms == LastWords \o NewWords
  <1>1. /\ ms \in Seq(Report) /\ seq' = seq + Len(ms)
        /\ inbox' = IF attached THEN Grown(inbox, seq, ms) ELSE inbox
        /\ EndOf(buffer', Grown(buffer, seq, ms)) /\ Len(buffer') <= Buffer
    BY StoppedSends
  <1> HIDE DEF ms
  <1>2. ChannelTypes /\ ConnectionInv /\ OrderInv /\ LossInv /\ ScreenTypes
    BY DEF IInv
  <1>3. server' \in ServerRec
    BY FreshType DEF Stopped, NextServer, ServerRec
  <1>4. UNCHANGED <<attached, transport, last, steps, warned, emitted, outbox, grace, events, screen, attempts>>
    BY DEF Stopped, Rest, NoCommand, clientVars
  <1>5. ms \in Seq(Msg) /\ NoGaps(ms) /\ News(ms, Len(emitted), Len(emitted'))
    <2>1. ms \in Seq(Msg) /\ NoGaps(ms) /\ News(ms, Len(emitted), Len(emitted))
      BY <1>1, ReportFacts
    <2>2. QED
      BY <1>4, <2>1
  <1>6. OutboxStep
    BY <1>2, <1>4, NoCommandOutbox
  <1>7. emitted' \in Seq(Nat) /\ \A k \in DOMAIN emitted' : emitted'[k] = k
    BY <1>2, <1>4 DEF ChannelTypes
  <1>8. ChannelStep
    BY <1>1, <1>2, <1>4, <1>5, <1>6, <1>7, SendStep
  <1>9. ScreenTypes'
    BY <1>2, <1>3, <1>4 DEF ScreenTypes
  <1>10. QED
    BY <1>8, <1>9 DEF IInv, ChannelStep

\* An action recorded keeps the invariant.
LEMMA ActionStep ==
    ASSUME IInv, ActionRecorded
    PROVE  IInv'
  <1> DEFINE new == Len(emitted) + 1
             ms == <<Of("action", new)>>
  <1>1. ChannelTypes /\ ConnectionInv /\ OrderInv /\ LossInv /\ ScreenTypes
    BY DEF IInv
  <1>2. emitted' = Append(emitted, new) /\ Emit(ms)
        /\ UNCHANGED <<server, attached, grace, clientVars, outbox, breaks, events>>
    BY DEF ActionRecorded
  <1>3. emitted \in Seq(Nat) /\ Len(emitted) \in Nat /\ \A k \in DOMAIN emitted : emitted[k] = k
    BY <1>1 DEF ChannelTypes
  <1>4. new \in Nat /\ emitted' \in Seq(Nat) /\ Len(emitted') = new /\ \A k \in DOMAIN emitted' : emitted'[k] = k
    BY <1>2, <1>3
  <1>5. Of("action", new) \in Msg /\ Of("action", new).type = "action"
    <2>1. "action" \in MsgType
      BY DEF MsgType
    <2>2. QED
      BY <1>4, <2>1, OfTypes
  <1>6. ms \in Seq(Msg) /\ NoGaps(ms) /\ News(ms, Len(emitted), Len(emitted'))
    <2>1. ms \in Seq(Msg)
      BY <1>5
    <2>2. NoGaps(ms)
      BY <1>5 DEF NoGaps
    <2>3. QED
      BY <1>4, <2>1, <2>2 DEF News
  <1> HIDE DEF ms
  <1>7. buffer \in Seq(Entry) /\ seq \in Nat
    BY <1>1, OrderFacts DEF ChannelTypes
  <1>8. Grown(buffer, seq, ms) \in Seq(Entry)
    BY <1>6, <1>7, GrownFacts
  <1>9. buffer' = Kept(Grown(buffer, seq, ms)) /\ seq' = seq + Len(ms)
        /\ inbox' = IF attached THEN Grown(inbox, seq, ms) ELSE inbox
    BY <1>2 DEF Emit, Grown
  <1>10. EndOf(buffer', Grown(buffer, seq, ms)) /\ Len(buffer') <= Buffer
    BY <1>8, <1>9, KeptFacts
  <1>11. OutboxStep
    BY <1>1, <1>2, NoCommandOutbox
  <1>12. UNCHANGED <<attached, transport, last, steps, warned>>
    BY <1>2 DEF clientVars
  <1>13. ChannelStep
    BY <1>1, <1>4, <1>6, <1>9, <1>10, <1>11, <1>12, SendStep
  <1>14. ScreenTypes'
    BY <1>1, <1>2 DEF ScreenTypes, clientVars
  <1>15. QED
    BY <1>13, <1>14 DEF IInv, ChannelStep

-----------------------------------------------------------------------------
(* The connection *)

\* A client that connects says hello with its last number and keeps the invariant.
LEMMA ConnectsStep ==
    ASSUME IInv, Connects
    PROVE  IInv'
  <1>1. ChannelTypes /\ ConnectionInv /\ OrderInv /\ LossInv /\ ScreenTypes
    BY DEF IInv
  <1>2. /\ transport \in {"connecting", "reconnecting"} /\ transport' = "connected" /\ attempts' = 0
        /\ outbox' = <<Of("client.hello", last)>> /\ inbox' = <<>>
        /\ UNCHANGED <<server, seq, buffer, attached, grace, last, screen, steps, warned, emitted, breaks, events>>
    BY DEF Connects, serverVars
  <1>3. ~attached /\ attached \in BOOLEAN
    BY <1>1, <1>2 DEF ConnectionInv, ChannelTypes
  <1>4. Of("client.hello", last) \in Msg /\ Of("client.hello", last).id = last
    <2>1. "client.hello" \in MsgType /\ last \in Nat
      BY <1>1 DEF MsgType, Commands, ChannelTypes
    <2>2. QED
      BY <2>1, OfTypes
  <1>5. ChannelTypes'
    BY <1>1, <1>2, <1>4 DEF ChannelTypes
  <1>6. ConnectionInv'
    <2>1. last' <= seq'
      BY <1>1, <1>2 DEF ConnectionInv
    <2>2. \A i \in DOMAIN outbox' : i = 1 /\ outbox'[i].id = last'
      BY <1>2, <1>4
    <2>3. QED
      BY <1>2, <1>3, <2>1, <2>2 DEF ConnectionInv
  <1>7. OrderInv'
    <2>1. DOMAIN inbox' = {}
      BY <1>2
    <2>2. Ordered(inbox', Len(emitted)) /\ Agree(inbox', buffer)
      BY <2>1 DEF Ordered, Agree
    <2>3. QED
      BY <1>1, <1>2, <2>1, <2>2 DEF OrderInv
  <1>8. LossInv'
    BY <1>1, <1>2, <1>3 DEF LossInv
  <1>9. ScreenTypes'
    BY <1>1, <1>2, ClientAssumption DEF ScreenTypes
  <1>10. QED
    BY <1>5, <1>6, <1>7, <1>8, <1>9 DEF IInv

\* An attempt to connect that fails keeps the invariant.
LEMMA FailsStep ==
    ASSUME IInv, ConnectFails
    PROVE  IInv'
  <1>1. ChannelTypes /\ ConnectionInv /\ OrderInv /\ LossInv /\ ScreenTypes
    BY DEF IInv
  <1>2. /\ transport \in {"connecting", "reconnecting"}
        /\ transport' = (IF attempts >= Retries THEN "offline" ELSE "reconnecting")
        /\ attempts' = attempts + 1
        /\ UNCHANGED <<server, seq, buffer, attached, grace, last, screen, steps, warned, inbox, outbox,
                       emitted, events>>
    BY DEF ConnectFails, serverVars
  <1>3. ChannelTypes'
    BY <1>1, <1>2 DEF ChannelTypes
  <1>4. ConnectionInv'
    BY <1>1, <1>2 DEF ConnectionInv
  <1>5. OrderInv'
    BY <1>1, <1>2 DEF OrderInv
  <1>6. LossInv'
    BY <1>1, <1>2 DEF LossInv
  <1>7. ScreenTypes'
    BY <1>1, <1>2, ClientAssumption DEF ScreenTypes
  <1>8. QED
    BY <1>3, <1>4, <1>5, <1>6, <1>7 DEF IInv

\* A connection that breaks, all on its way lost, keeps the invariant.
LEMMA BreaksStep ==
    ASSUME IInv, Breaks
    PROVE  IInv'
  <1>1. ChannelTypes /\ ConnectionInv /\ OrderInv /\ LossInv /\ ScreenTypes
    BY DEF IInv
  <1>2. /\ transport = "connected"
        /\ transport' = (IF attempts >= Retries THEN "offline" ELSE "reconnecting")
        /\ attempts' = attempts + 1
        /\ attached' = FALSE /\ grace' = (grace \/ (attached /\ ~Releasing))
        /\ inbox' = <<>> /\ outbox' = <<>>
        /\ UNCHANGED <<server, seq, buffer, last, screen, steps, warned, emitted, events>>
    BY DEF Breaks, Drops
  <1>3. ChannelTypes'
    <2>1. inbox' \in Seq(Entry) /\ outbox' \in Seq(Msg)
      BY <1>2
    <2>2. transport' \in {"connecting", "connected", "reconnecting", "offline"} /\ attached' \in BOOLEAN
      BY <1>2
    <2>3. QED
      BY <1>1, <1>2, <2>1, <2>2 DEF ChannelTypes
  <1>4. ConnectionInv'
    BY <1>1, <1>2 DEF ConnectionInv
  <1>5. OrderInv'
    <2>1. DOMAIN inbox' = {}
      BY <1>2
    <2>2. Ordered(inbox', Len(emitted)) /\ Agree(inbox', buffer)
      BY <2>1 DEF Ordered, Agree
    <2>3. QED
      BY <1>1, <1>2, <2>1, <2>2 DEF OrderInv
  <1>6. LossInv'
    BY <1>1, <1>2 DEF LossInv
  <1>7. ScreenTypes'
    <2>1. grace' \in BOOLEAN
      BY <1>1, <1>2 DEF ScreenTypes, ChannelTypes
    <2>2. QED
      BY <1>1, <1>2, <2>1, ClientAssumption DEF ScreenTypes
  <1>8. QED
    BY <1>3, <1>4, <1>5, <1>6, <1>7 DEF IInv

\* A client that is back in time never meets a new runtime.
LEMMA GraceStep ==
    ASSUME Short, IInv, GraceExpires
    PROVE  IInv'
  <1>1. ChannelTypes /\ ConnectionInv /\ OrderInv /\ LossInv /\ ScreenTypes
    BY DEF IInv
  <1>2. /\ transport = "offline" /\ server' = Fresh /\ seq' = 0 /\ buffer' = <<>> /\ grace' = FALSE
        /\ UNCHANGED <<attached, transport, attempts, last, screen, steps, warned, inbox, outbox, emitted, events>>
    BY DEF GraceExpires, clientVars
  <1>3. inbox' = <<>> /\ DOMAIN inbox' = {} /\ DOMAIN buffer' = {}
    BY <1>1, <1>2 DEF ConnectionInv, ChannelTypes
  <1>4. ChannelTypes'
    BY <1>1, <1>2 DEF ChannelTypes
  <1>5. ConnectionInv'
    BY <1>1, <1>2 DEF ConnectionInv
  <1>6. OrderInv'
    <2>1. BufferInv(<<>>, 0, last', steps', Len(emitted'))
      BY DEF BufferInv, IsBuffer, Ordered
    <2>2. Ordered(inbox', Len(emitted')) /\ Agree(inbox', buffer')
      BY <1>3 DEF Ordered, Agree
    <2>3. Len(<<>>) <= Buffer
      BY ClientAssumption
    <2>4. QED
      BY <1>1, <1>2, <1>3, <2>1, <2>2, <2>3 DEF OrderInv
  <1>7. LossInv'
    BY <1>2 DEF LossInv
  <1>8. ScreenTypes'
    BY <1>1, <1>2, FreshType DEF ScreenTypes
  <1>9. QED
    BY <1>4, <1>5, <1>6, <1>7, <1>8 DEF IInv

-----------------------------------------------------------------------------
(* The client's screen *)

\* A screen without its picker.
LEMMA WithoutType ==
    ASSUME NEW s \in Screen
    PROVE  Without(s) \in Screen
  BY ClientAssumption DEF Without, Screen, NoPicker

\* A screen whose wait for a stop is over.
LEMMA SettledType ==
    ASSUME NEW s \in Screen, NEW result \in {"resolved", "rejected"}
    PROVE  Settled(s, result) \in Screen
  BY DEF Settled, Screen

\* What a message about the session makes of the screen.
LEMMA SessionShownType ==
    ASSUME NEW s \in Screen, NEW m \in Msg
    PROVE  SessionShown(s, m) \in Screen
  <1>1. Without(s) \in Screen /\ Without(Settled(s, "resolved")) \in Screen
    BY WithoutType, SettledType
  <1>2. CASE m.type \in Statuses
    <2>1. SessionShown(s, m) = [s EXCEPT !.status = m.type]
      BY <1>2 DEF SessionShown, Statuses
    <2>2. QED
      BY <1>2, <2>1 DEF Statuses, Screen
  <1>3. CASE m.type = "started"
    <2>1. SessionShown(s, m) = [Without(s) EXCEPT !.live = TRUE, !.solving = FALSE, !.alert = FALSE]
      BY <1>3 DEF SessionShown, Statuses
    <2>2. QED
      BY <1>1, <2>1 DEF Screen
  <1>4. CASE m.type = "stopped"
    <2>1. SessionShown(s, m) = [Without(Settled(s, "resolved")) EXCEPT !.status = "stopped", !.live = FALSE,
                                                                       !.solving = FALSE]
      BY <1>4 DEF SessionShown, Statuses
    <2>2. QED
      BY <1>1, <2>1 DEF Screen
  <1>5. CASE m.type \notin Statuses /\ m.type # "started" /\ m.type # "stopped"
    BY <1>5 DEF SessionShown
  <1>6. QED
    BY <1>2, <1>3, <1>4, <1>5

\* What a message about a picker or captcha makes of the screen.
LEMMA OverlayShownType ==
    ASSUME NEW s \in Screen, NEW m \in Msg
    PROVE  OverlayShown(s, m) \in Screen
  <1>1. Without(s) \in Screen
    BY WithoutType
  <1>2. CASE m.type = "open"
    <2>1. m.id \in 0 .. MaxEvents
      BY <1>2, ClientAssumption DEF Msg
    <2>2. OverlayShown(s, m) = [s EXCEPT !.picker = m.id]
      BY <1>2 DEF OverlayShown
    <2>3. QED
      BY <2>1, <2>2 DEF Screen
  <1>3. CASE m.type = "closed"
    BY <1>1, <1>3 DEF OverlayShown, ClosesOnly
  <1>4. CASE m.type = "solving"
    <2>1. OverlayShown(s, m) = [Without(s) EXCEPT !.solving = TRUE]
      BY <1>4 DEF OverlayShown
    <2>2. QED
      BY <1>1, <2>1 DEF Screen
  <1>5. CASE m.type \in {"solved", "cancelled"}
    <2>1. OverlayShown(s, m) = [s EXCEPT !.solving = FALSE]
      BY <1>5 DEF OverlayShown
    <2>2. QED
      BY <2>1 DEF Screen
  <1>6. CASE m.type \notin {"open", "closed", "solving", "solved", "cancelled"}
    BY <1>6 DEF OverlayShown
  <1>7. QED
    BY <1>2, <1>3, <1>4, <1>5, <1>6

\* What an error makes of the screen.
LEMMA AfterErrorType ==
    ASSUME NEW s \in Screen
    PROVE  AfterError(s) \in Screen
  <1> DEFINE e == [Settled(s, "rejected") EXCEPT !.solving = FALSE, !.alert = TRUE]
  <1>1. Settled(s, "rejected") \in Screen
    BY SettledType
  <1>2. e \in Screen
    BY <1>1 DEF Screen
  <1>3. AfterError(s) = IF s.replay \notin {"idle", "stopped"} THEN [e EXCEPT !.replay = "stopped"]
                        ELSE [e EXCEPT !.status = "error"]
    BY DEF AfterError
  <1> HIDE DEF e
  <1>4. QED
    BY <1>2, <1>3 DEF Screen

\* What a message about a replay makes of the screen.
LEMMA ReplayShownType ==
    ASSUME NEW s \in Screen, NEW m \in Msg
    PROVE  ReplayShown(s, m) \in Screen
  <1> DEFINE T == {"replay.preparing", "replay.running", "replay.completed", "replay.stopping", "replay.stopped"}
  <1>1. Without(s) \in Screen /\ AfterError(s) \in Screen
    BY WithoutType, AfterErrorType
  <1>2. DOMAIN ReplayStatus = T
        /\ \A t \in T : ReplayStatus[t] \in {"idle", "preparing", "running", "completed", "stopping", "stopped"}
    BY DEF ReplayStatus
  <1>3. CASE m.type = "replay.started"
    <2>1. ReplayShown(s, m) = [Without(s) EXCEPT !.status = "recording", !.live = TRUE, !.solving = FALSE,
                                                 !.alert = FALSE]
      BY <1>3, <1>2 DEF ReplayShown
    <2>2. QED
      BY <1>1, <2>1 DEF Screen
  <1>4. CASE m.type \in T
    <2>1. ReplayShown(s, m) = [s EXCEPT !.replay = ReplayStatus[m.type]]
      BY <1>4, <1>2 DEF ReplayShown
    <2>2. QED
      BY <1>2, <1>4, <2>1 DEF Screen
  <1>5. CASE m.type = "buffer.gap"
    <2>1. ReplayShown(s, m) = [s EXCEPT !.alert = TRUE]
      BY <1>5, <1>2 DEF ReplayShown
    <2>2. QED
      BY <2>1 DEF Screen
  <1>6. CASE m.type = "error"
    BY <1>1, <1>2, <1>6 DEF ReplayShown
  <1>7. CASE m.type \notin T \cup {"replay.started", "buffer.gap", "error"}
    BY <1>2, <1>7 DEF ReplayShown
  <1>8. QED
    BY <1>3, <1>4, <1>5, <1>6, <1>7

\* A message handled keeps the invariant.
LEMMA ReceiveInv ==
    ASSUME IInv, Receive
    PROVE  IInv'
  <1>1. ChannelTypes /\ ConnectionInv /\ OrderInv /\ LossInv /\ ScreenTypes
    BY DEF IInv
  <1>2. ChannelStep
    BY <1>1, ReceiveStep
  <1>3. inbox[1] \in Entry /\ screen' = Shown(screen, inbox[1].m)
        /\ UNCHANGED <<serverVars, transport, attempts, outbox, emitted, breaks, events>>
    BY <1>1, ReceiveFacts
  <1>4. inbox[1].m \in Msg /\ screen \in Screen
    BY <1>1, <1>3 DEF Entry, ScreenTypes
  <1>5. screen' \in Screen
    BY <1>3, <1>4, SessionShownType, OverlayShownType, ReplayShownType DEF Shown
  <1>6. ScreenTypes'
    BY <1>1, <1>3, <1>5 DEF ScreenTypes, serverVars
  <1>7. QED
    BY <1>2, <1>6 DEF IInv, ChannelStep

-----------------------------------------------------------------------------
(* The user *)

\* A command sent, or dropped when there is no connection, keeps the invariant.
LEMMA UserStep ==
    ASSUME IInv, NEW m \in Msg, m.type # "client.hello", NEW s \in Screen, Sends(m), UserDoes(s)
    PROVE  IInv'
  <1>1. ChannelTypes /\ ConnectionInv /\ OrderInv /\ LossInv /\ ScreenTypes
    BY DEF IInv
  <1>2. /\ events' \in 0 .. MaxEvents /\ screen' = s
        /\ UNCHANGED <<server, seq, buffer, attached, grace, transport, attempts, last, steps, warned, inbox, emitted>>
    BY <1>1, ClientAssumption DEF UserDoes, serverVars, ScreenTypes
  <1>3. OutboxStep
    <2>1. CASE transport = "connected"
      <3>1. outbox' = Append(outbox, m) /\ outbox \in Seq(Msg)
        BY <1>1, <2>1 DEF Sends, ChannelTypes
      <3>2. outbox' \in Seq(Msg) /\ \A i \in DOMAIN outbox' :
               (i \in DOMAIN outbox /\ outbox'[i] = outbox[i]) \/ outbox'[i] = m
        BY <3>1
      <3>3. QED
        BY <2>1, <3>2 DEF OutboxStep
    <2>2. CASE transport # "connected"
      BY <1>1, <2>2, NoCommandOutbox DEF Sends
    <2>3. QED
      BY <2>1, <2>2
  <1>4. ChannelStep
    BY <1>1, <1>2, <1>3, QuietStep
  <1>5. ScreenTypes'
    BY <1>1, <1>2 DEF ScreenTypes
  <1>6. QED
    BY <1>4, <1>5 DEF IInv, ChannelStep

\* A user's commands are messages and no hello.
LEMMA CommandTypes ==
    \A t \in Commands \ {"client.hello"} : Is(t) \in Msg /\ Is(t).type # "client.hello"
  <1>1. \A t \in Commands : t \in MsgType
    BY DEF MsgType
  <1>2. QED
    BY <1>1, IsTypes

\* What the user does keeps the invariant.
LEMMA UserInv ==
    ASSUME IInv, User
    PROVE  IInv'
  <1>1. screen \in Screen /\ Without(screen) \in Screen
    BY WithoutType DEF IInv, ScreenTypes
  <1>2. CASE StartRecording
    <2> DEFINE reset == [Without(screen) EXCEPT !.status = "starting", !.live = FALSE,
                                                !.solving = FALSE, !.alert = FALSE]
               s == IF transport = "connected" THEN reset ELSE [reset EXCEPT !.status = "error", !.alert = TRUE]
               t == IF screen.status = "error" \/ screen.live THEN "session.restart" ELSE "session.start"
    <2>1. reset \in Screen
      BY <1>1 DEF Screen
    <2>2. Sends(Is(t)) /\ UserDoes(s)
      BY <1>2 DEF StartRecording
    <2>3. t \in Commands \ {"client.hello"}
      BY DEF Commands
    <2> HIDE DEF reset
    <2>4. s \in Screen
      BY <2>1 DEF Screen
    <2> HIDE DEF s, t
    <2>5. QED
      BY <2>2, <2>3, <2>4, CommandTypes, UserStep
  <1>3. CASE StopRecording
    <2>1. [screen EXCEPT !.status = "stopping"] \in Screen
      BY <1>1 DEF Screen
    <2>2. "session.stop" \in Commands \ {"client.hello"}
      BY DEF Commands
    <2>3. QED
      BY <1>3, <2>1, <2>2, CommandTypes, UserStep DEF StopRecording
  <1>4. CASE StopAndWait
    <2> DEFINE s == [screen EXCEPT !.status = "stopping",
                       !.waiter = IF transport = "connected" THEN "waiting" ELSE "rejected"]
    <2>1. s \in Screen
      BY <1>1 DEF Screen
    <2>2. "session.stop" \in Commands \ {"client.hello"}
      BY DEF Commands
    <2>3. Sends(Is("session.stop")) /\ UserDoes(s)
      BY <1>4 DEF StopAndWait
    <2> HIDE DEF s
    <2>4. QED
      BY <2>1, <2>2, <2>3, CommandTypes, UserStep
  <1>5. CASE StartReplay
    <2> DEFINE s == [Without(screen) EXCEPT
                       !.replay = IF transport = "connected" THEN "preparing" ELSE "stopped",
                       !.alert = transport # "connected"]
    <2>1. s \in Screen
      BY <1>1 DEF Screen
    <2>2. "replay.start" \in Commands \ {"client.hello"}
      BY DEF Commands
    <2>3. Sends(Is("replay.start")) /\ UserDoes(s)
      BY <1>5 DEF StartReplay
    <2> HIDE DEF s
    <2>4. QED
      BY <2>1, <2>2, <2>3, CommandTypes, UserStep
  <1>6. CASE StopReplay
    <2>1. "replay.stop" \in Commands \ {"client.hello"}
      BY DEF Commands
    <2>2. QED
      BY <1>1, <1>6, <2>1, CommandTypes, UserStep DEF StopReplay
  <1>7. CASE Pick
    <2>1. "pick" \in MsgType /\ "pick" # "open" /\ "pick" # "client.hello"
      BY DEF MsgType, Commands
    <2>2. screen.picker \in Nat
      BY <1>1, ClientAssumption DEF Screen
    <2>3. Of("pick", screen.picker) \in Msg /\ Of("pick", screen.picker).type # "client.hello"
      BY <2>1, <2>2, OfTypes
    <2>4. QED
      BY <1>1, <1>7, <2>3, UserStep DEF Pick
  <1>8. CASE ContinueAfterCaptcha
    <2>1. "captcha.continue" \in Commands \ {"client.hello"}
      BY DEF Commands
    <2>2. QED
      BY <1>1, <1>8, <2>1, CommandTypes, UserStep DEF ContinueAfterCaptcha
  <1>9. QED
    BY <1>2, <1>3, <1>4, <1>5, <1>6, <1>7, <1>8 DEF User

\* A wait for a stop that is given up keeps the invariant.
LEMMA TimesOutStep ==
    ASSUME IInv, WaiterTimesOut
    PROVE  IInv'
  <1>1. ChannelTypes /\ ConnectionInv /\ OrderInv /\ LossInv /\ ScreenTypes
    BY DEF IInv
  <1>2. UNCHANGED <<server, seq, buffer, attached, grace, transport, attempts, last, steps, warned, inbox, outbox,
                    emitted, events>>
    BY DEF WaiterTimesOut, serverVars
  <1>3. screen' \in Screen
    BY <1>1 DEF WaiterTimesOut, ScreenTypes, Screen
  <1>4. ChannelStep
    BY <1>1, <1>2, NoCommandOutbox, QuietStep
  <1>5. ScreenTypes'
    BY <1>1, <1>2, <1>3 DEF ScreenTypes
  <1>6. QED
    BY <1>4, <1>5 DEF IInv, ChannelStep

\* A hello answered keeps the invariant, the screen included.
LEMMA HelloInv ==
    ASSUME IInv, Hello
    PROVE  IInv'
  <1>1. ChannelTypes /\ ConnectionInv /\ OrderInv /\ LossInv /\ ScreenTypes
    BY DEF IInv
  <1>2. ChannelStep
    BY <1>1, HelloStep
  <1>3. ScreenTypes'
    BY <1>1 DEF ScreenTypes, Hello, clientVars
  <1>4. QED
    BY <1>2, <1>3 DEF IInv, ChannelStep

-----------------------------------------------------------------------------
(* The theorems *)

\* The invariant holds at first.
LEMMA InitInv == Init => IInv
  <1> SUFFICES ASSUME Init PROVE IInv
    OBVIOUS
  <1>1. /\ server = Fresh /\ seq = 0 /\ buffer = <<>> /\ attached = FALSE /\ grace = FALSE
        /\ transport = "connecting" /\ attempts = 0 /\ last = 0
        /\ inbox = <<>> /\ outbox = <<>>
        /\ screen = Blank /\ steps = <<>> /\ warned = FALSE
        /\ emitted = <<>> /\ breaks = 0 /\ events = 0
    BY DEF Init
  <1>2. Len(emitted) = 0 /\ DOMAIN inbox = {} /\ DOMAIN outbox = {} /\ DOMAIN buffer = {} /\ DOMAIN steps = {}
        /\ DOMAIN emitted = {} /\ Len(buffer) = 0
    BY <1>1
  <1>3. ChannelTypes
    <2>1. inbox \in Seq(Entry) /\ outbox \in Seq(Msg) /\ steps \in Seq(Nat) /\ emitted \in Seq(Nat)
      BY <1>1
    <2>2. seq \in Nat /\ last \in Nat /\ attached \in BOOLEAN /\ warned \in BOOLEAN
          /\ transport \in {"connecting", "connected", "reconnecting", "offline"}
      BY <1>1
    <2>3. QED
      BY <1>2, <2>1, <2>2 DEF ChannelTypes
  <1>4. ScreenTypes
    <2>1. screen \in Screen
      BY <1>1, ClientAssumption DEF Blank, Screen, NoPicker
    <2>2. server \in ServerRec
      BY <1>1, FreshType
    <2>3. events \in 0 .. MaxEvents /\ grace \in BOOLEAN /\ attempts \in 0 .. Retries + 1
          /\ attempts <= Retries
      <3>1. 0 \in 0 .. MaxEvents /\ 0 \in 0 .. Retries + 1 /\ 0 <= Retries
        BY ClientAssumption
      <3>2. QED
        BY <1>1, <3>1
    <2>4. QED
      BY <2>1, <2>2, <2>3 DEF ScreenTypes
  <1>5. ConnectionInv
    BY <1>1, <1>2 DEF ConnectionInv
  <1>6. OrderInv
    <2>1. BufferInv(buffer, seq, last, steps, Len(emitted))
      BY <1>1, <1>2 DEF BufferInv, IsBuffer, Ordered
    <2>2. Ordered(inbox, Len(emitted)) /\ Agree(inbox, buffer)
      BY <1>2 DEF Ordered, Agree
    <2>3. Len(buffer) <= Buffer
      BY <1>2, ClientAssumption
    <2>4. QED
      BY <1>2, <2>1, <2>2, <2>3 DEF OrderInv
  <1>7. LossInv
    <2>1. Len(steps) = 0
      BY <1>1
    <2>2. Holds(buffer, last, steps, Len(emitted))
      BY <1>2, <2>1 DEF Holds
    <2>3. NoGap(buffer, last)
      BY <1>2 DEF NoGap
    <2>4. QED
      BY <1>1, <1>2, <2>2, <2>3 DEF LossInv, Covers
  <1>8. QED
    BY <1>3, <1>4, <1>5, <1>6, <1>7 DEF IInv

\* Every step keeps the invariant, if the client is back in time and not left behind.
LEMMA NextInv ==
    ASSUME Short, IInv, path # "astray", ~strayed', [Next]_vars
    PROVE  IInv'
  <1>1. CASE Handle
    <2>1. CASE Hello
      BY <2>1, HelloInv
    <2>2. CASE StartCommand
      BY <2>2, StartStep
    <2>3. CASE Started
      BY <2>3, StartedStep
    <2>4. CASE StopCommand
      BY <2>4, StopStep
    <2>5. CASE Stopped
      BY <2>5, StoppedStep
    <2>6. CASE ReplayCommand
      BY <2>6, ReplayCommandStep
    <2>7. CASE ReplayReady
      BY <2>7, ReplayReadyStep
    <2>8. CASE StopReplayCommand
      BY <2>8, StopReplayStep
    <2>9. CASE ReplayOver
      BY <2>9, ReplayOverStep
    <2>10. CASE PickCommand
      BY <2>10, PickStep
    <2>11. CASE ContinueCommand
      BY <2>11, ContinueStep
    <2>12. ~StoppedAstray /\ ~NextStarts /\ ~StopAgain
      BY DEF StoppedAstray, NextStarts, StopAgain
    <2>13. QED
      BY <1>1, <2>1, <2>2, <2>3, <2>4, <2>5, <2>6, <2>7, <2>8, <2>9, <2>10, <2>11, <2>12 DEF Handle
  <1>2. CASE Browser
    <2>1. CASE ActionRecorded
      BY <2>1, ActionStep
    <2>2. CASE PickerOpens
      BY <2>2, PickerOpensStep
    <2>3. CASE PickerCloses
      BY <2>3, PickerClosesStep
    <2>4. CASE CaptchaSeen
      BY <2>4, CaptchaSeenStep
    <2>5. CASE CaptchaSolved
      BY <2>5, CaptchaSolvedStep
    <2>6. QED
      BY <1>2, <2>1, <2>2, <2>3, <2>4, <2>5 DEF Browser
  <1>3. CASE User
    BY <1>3, UserInv
  <1>4. CASE GraceExpires
    BY <1>4, GraceStep
  <1>5. CASE Receive
    BY <1>5, ReceiveInv
  <1>6. CASE Connects
    BY <1>6, ConnectsStep
  <1>7. CASE ConnectFails
    BY <1>7, FailsStep
  <1>8. CASE Breaks
    BY <1>8, BreaksStep
  <1>9. CASE WaiterTimesOut
    BY <1>9, TimesOutStep
  <1>10. CASE UNCHANGED vars
    <2>1. UNCHANGED <<server, seq, buffer, attached, grace, transport, attempts, last, screen, steps, warned,
                      inbox, outbox, emitted, breaks, events>>
      BY <1>10 DEF vars, serverVars, clientVars
    <2>2. ChannelStep
      BY <2>1, NoCommandOutbox, QuietStep DEF IInv
    <2>3. ScreenTypes'
      BY <2>1 DEF IInv, ScreenTypes
    <2>4. QED
      BY <2>2, <2>3 DEF IInv, ChannelStep
  <1>11. ~BreaksAstray
    BY DEF BreaksAstray
  <1>12. QED
    BY <1>1, <1>2, <1>3, <1>4, <1>5, <1>6, <1>7, <1>8, <1>9, <1>10, <1>11 DEF Next

\* Who was left behind stays marked so, and only who is marked is astray.
LEMMA StrayedStays ==
    ASSUME [Next]_vars, path = "astray" => strayed
    PROVE  (strayed => strayed') /\ (path' = "astray" => strayed')
  <1>1. CASE Handle
    <2>1. CASE Stopped \/ StoppedAstray \/ NextStarts \/ StopAgain
      BY <2>1 DEF Stopped, StoppedAstray, NextStarts, StopAgain
    <2>2. CASE ~(Stopped \/ StoppedAstray \/ NextStarts \/ StopAgain)
      BY <1>1, <2>2 DEF Handle, Hello, StartCommand, Started, StopCommand, ReplayCommand, ReplayReady,
                        StopReplayCommand, ReplayOver, PickCommand, ContinueCommand, Other, pathVars
    <2>3. QED
      BY <2>1, <2>2
  <1>2. CASE Browser
    BY <1>2 DEF Browser, ActionRecorded, PickerOpens, PickerCloses, CaptchaSeen, CaptchaSolved, BrowserEvent, Other,
                pathVars
  <1>3. CASE User
    BY <1>3 DEF User, StartRecording, StopRecording, StopAndWait, StartReplay, StopReplay, Pick,
                ContinueAfterCaptcha, UserDoes, serverVars, pathVars
  <1>4. CASE Breaks \/ BreaksAstray
    BY <1>4 DEF Breaks, BreaksAstray
  <1>5. CASE GraceExpires \/ Receive \/ Connects \/ ConnectFails \/ WaiterTimesOut \/ UNCHANGED vars
    BY <1>5 DEF GraceExpires, Receive, Connects, ConnectFails, WaiterTimesOut, vars, serverVars, pathVars
  <1>6. QED
    BY <1>1, <1>2, <1>3, <1>4, <1>5 DEF Next

\* The invariant, for a client that was not left behind at a released runtime.
FollowedInv == (path = "astray" => strayed) /\ (~strayed => IInv)

\* The inductive invariant holds in every run of a client that is back before
\* its runtime is released (Short): the grace timer of detach against reconnect.
THEOREM Invariance == Short => (Spec => []FollowedInv)
  <1> SUFFICES ASSUME Short PROVE Spec => []FollowedInv
    OBVIOUS
  <1>1. Init => FollowedInv
    BY InitInv DEF Init, FollowedInv
  <1>2. FollowedInv /\ [Next]_vars => FollowedInv'
    <2> SUFFICES ASSUME FollowedInv, [Next]_vars PROVE FollowedInv'
      OBVIOUS
    <2>1. (strayed => strayed') /\ (path' = "astray" => strayed')
      BY StrayedStays DEF FollowedInv
    <2>2. ASSUME ~strayed' PROVE IInv'
      BY <2>1, <2>2, NextInv DEF FollowedInv
    <2>3. QED
      BY <2>1, <2>2 DEF FollowedInv
  <1>3. QED
    BY <1>1, <1>2, PTL DEF Spec

\* A client that caught up and was not told of a gap has all steps.
LEMMA CountsAll ==
    ASSUME IInv, CaughtUp, ~warned
    PROVE  steps = emitted
  <1>1. /\ steps \in Seq(Nat) /\ emitted \in Seq(Nat) /\ Len(steps) \in Nat /\ Len(emitted) \in Nat
        /\ DOMAIN steps = 1 .. Len(steps) /\ DOMAIN emitted = 1 .. Len(emitted)
        /\ \A k \in DOMAIN emitted : emitted[k] = k
    BY DEF IInv, ChannelTypes
  <1>2. /\ \A i \in DOMAIN steps : steps[i] = i
        /\ Holds(inbox, last, steps, Len(emitted)) /\ DOMAIN inbox = {}
    BY DEF IInv, LossInv, CaughtUp
  <1>3. Len(steps) + 1 \notin Len(steps) + 1 .. Len(emitted)
    BY <1>2 DEF Holds
  <1>4. Len(emitted) <= Len(steps)
    BY <1>1, <1>3
  <1>5. Len(steps) <= Len(emitted)
    <2>1. CASE Len(steps) = 0
      BY <1>1, <2>1
    <2>2. CASE Len(steps) # 0
      <3>1. Len(steps) \in DOMAIN steps
        BY <1>1, <2>2
      <3>2. steps[Len(steps)] \in Len(steps) .. Len(emitted)
        BY <3>1 DEF IInv, OrderInv
      <3>3. QED
        BY <1>1, <3>2
    <2>3. QED
      BY <2>1, <2>2
  <1>6. Len(steps) = Len(emitted)
    <2>1. Len(steps) \in Nat /\ Len(emitted) \in Nat
      BY <1>1
    <2>2. QED
      BY <2>1, <1>4, <1>5
  <1>7. DOMAIN steps = DOMAIN emitted /\ \A i \in DOMAIN steps : steps[i] = emitted[i]
    BY <1>1, <1>2, <1>6
  <1>8. steps = [i \in DOMAIN steps |-> steps[i]] /\ emitted = [i \in DOMAIN emitted |-> emitted[i]]
    <2>1. steps \in Seq(Nat) /\ emitted \in Seq(Nat)
      BY <1>1
    <2>2. QED
      BY <2>1
  <1>9. QED
    BY <1>7, <1>8, Zenon

\* Whatever breaks in between, a client that handled all its runtime sent has
\* every recorded action as a step, or was told of a gap (attach, emit, hello).
THEOREM NothingLostSilently == Short => (Spec => []NoSilentLoss)
  <1> SUFFICES ASSUME Short PROVE Spec => []NoSilentLoss
    OBVIOUS
  <1>1. FollowedInv => NoSilentLoss
    BY CountsAll DEF NoSilentLoss, FollowedInv
  <1>2. Spec => []FollowedInv
    BY Invariance
  <1>3. QED
    BY <1>1, <1>2, PTL

-----------------------------------------------------------------------------
(* The refinement *)

\* The first state is one of the channel.
LEMMA InitMaps == Init => Channel!Init
  BY DEF Init, Channel!Init

\* A message handled is a step of the channel: the next action, a warning, or nothing.
LEMMA ReceiveMaps ==
    ASSUME IInv, Receive
    PROVE  [Channel!Next]_<<emitted, steps, warned>>
  <1>1. ChannelTypes /\ ConnectionInv /\ OrderInv /\ LossInv
    BY DEF IInv
  <1>2. /\ steps' = (IF IsAct(inbox[1]) THEN Append(steps, inbox[1].m.id) ELSE steps)
        /\ warned' = (warned \/ IsGap(inbox[1])) /\ emitted' = emitted
    BY <1>1, ReceiveFacts
  <1>3. CASE IsAct(inbox[1])
    <2> DEFINE n == inbox[1].m.id
    <2>1. n \in Len(steps) + 1 .. Len(emitted) /\ \A k \in DOMAIN steps : steps[k] < n
      BY <1>1, <1>3, NewStepFacts
    <2>2. steps \in Seq(Nat) /\ DOMAIN steps = 1 .. Len(steps) /\ Len(steps) \in Nat /\ Len(emitted) \in Nat
          /\ emitted \in Seq(Nat) /\ \A k \in DOMAIN emitted : emitted[k] = k
      BY <1>1 DEF ChannelTypes
    <2>3. n \in DOMAIN emitted /\ emitted[n] = n
      BY <2>1, <2>2
    <2>4. ~IsGap(inbox[1]) /\ warned' = warned
      BY <1>1, <1>2, <1>3 DEF IsAct, IsGap, ChannelTypes
    <2>5. warned \/ n = Len(steps) + 1
      <3>1. SUFFICES ASSUME ~warned
                     PROVE  n = Len(steps) + 1
        OBVIOUS
      <3>2. LossInv' /\ transport' # "offline" /\ ~warned'
        <4>1. transport = "connected" /\ transport' = transport
          BY <1>1, ReceiveFacts
        <4>2. QED
          BY <1>1, <2>4, <3>1, <4>1, ReceiveLoss
      <3>3. steps' \in Seq(Nat) /\ Len(steps') = Len(steps) + 1 /\ steps'[Len(steps) + 1] = n
        BY <1>1, <1>3, NewStepFacts
      <3>4. Len(steps) + 1 \in DOMAIN steps'
        BY <2>2, <3>3
      <3>5. QED
        BY <3>2, <3>3, <3>4 DEF LossInv
    <2>6. Channel!Receive
      BY <1>2, <1>3, <2>1, <2>2, <2>3, <2>4, <2>5 DEF Channel!Receive
    <2>7. QED
      BY <2>6 DEF Channel!Next
  <1>4. CASE ~IsAct(inbox[1]) /\ IsGap(inbox[1])
    BY <1>2, <1>4 DEF Channel!Next, Channel!Tell
  <1>5. CASE ~IsAct(inbox[1]) /\ ~IsGap(inbox[1])
    BY <1>1, <1>2, <1>5 DEF ChannelTypes
  <1>6. QED
    BY <1>3, <1>4, <1>5

\* Every step is one of the channel, or none of its business.
LEMMA StepMaps ==
    ASSUME IInv, [Next]_vars
    PROVE  [Channel!Next]_<<emitted, steps, warned>>
  <1>1. CASE Handle
    <2>1. UNCHANGED <<emitted, clientVars>>
      BY <1>1 DEF Handle, Hello, StartCommand, Started, StopCommand, Stopped, StoppedAstray, NextStarts, StopAgain,
                  ReplayCommand, ReplayReady, StopReplayCommand, ReplayOver, PickCommand, ContinueCommand, Other,
                  Rest
    <2>2. QED
      BY <2>1 DEF clientVars
  <1>2. CASE ActionRecorded
    <2>1. Channel!Record
      BY <1>2 DEF ActionRecorded, Channel!Record, clientVars
    <2>2. QED
      BY <2>1 DEF Channel!Next
  <1>3. CASE PickerOpens \/ PickerCloses \/ CaptchaSeen \/ CaptchaSolved
    BY <1>3 DEF PickerOpens, PickerCloses, CaptchaSeen, CaptchaSolved, BrowserEvent, Other, Rest, clientVars
  <1>4. CASE User
    BY <1>4 DEF User, StartRecording, StopRecording, StopAndWait, StartReplay, StopReplay, Pick,
                ContinueAfterCaptcha, UserDoes
  <1>5. CASE Receive
    BY <1>5, ReceiveMaps
  <1>6. CASE GraceExpires \/ Connects \/ ConnectFails \/ Breaks \/ BreaksAstray \/ WaiterTimesOut
    BY <1>6 DEF GraceExpires, Connects, ConnectFails, Breaks, BreaksAstray, Drops, WaiterTimesOut, clientVars
  <1>7. CASE UNCHANGED vars
    BY <1>7 DEF vars, clientVars
  <1>8. QED
    BY <1>1, <1>2, <1>3, <1>4, <1>5, <1>6, <1>7 DEF Next, Browser

\* The recorder's client implements RecordedChannel: steps in the order of the
\* actions, each once and none left out, or else the user was told; a client
\* that was left behind at a released runtime excepted.
THEOREM Refinement == Short => (Spec => StepsFollowRecording)
  <1> SUFFICES ASSUME Short PROVE Spec => StepsFollowRecording
    OBVIOUS
  <1>1. Init => Channel!Init
    BY InitMaps
  <1>2. FollowedInv /\ [Next]_vars => [strayed \/ Channel!Next]_<<emitted, steps, warned>>
    BY StepMaps DEF FollowedInv
  <1>3. Spec => []FollowedInv
    BY Invariance
  <1>4. QED
    BY <1>1, <1>2, <1>3, PTL DEF Spec, StepsFollowRecording

-----------------------------------------------------------------------------
(* What the client shows, and what is coming *)

\* What the client has yet to handle of all that was sent: it is on its way, or
\* in the buffer from which it will be resent.
Coming == IF attached THEN {inbox[i] : i \in DOMAIN inbox}
          ELSE {e \in {buffer[j] : j \in DOMAIN buffer} : e.n > last}

\* The client will handle all of it: it is not, and will not be, told of a gap.
Reached ==
    /\ transport # "offline" /\ ~warned
    /\ attached => inbox = <<>> \/ ~IsGap(inbox[1])
    /\ ~attached => ~TooLate(last, buffer)

\* A gap on its way was there, and still is.
GapInv == attached /\ ~warned /\ inbox # <<>> /\ IsGap(inbox[1]) => TooLate(last, buffer)

\* Something shown comes to an end: what is shown is ended by a message to come,
\* and so is what a message to come will show, by a later one.
Ends(coming, shown, shows, ends) ==
    /\ shown => \E f \in coming : f.m \in ends
    /\ \A e \in coming : e.m \in shows => \E f \in coming : f.n > e.n /\ f.m \in ends

OfType(types) == [type : types, id : Nat]

\* A recording.
Live(s) == s.status = "recording" /\ s.replay # "preparing" /\ ~s.alert
MakesLive == OfType({"recording", "started", "replay.started", "replay.running", "replay.completed",
                     "replay.stopping", "replay.stopped"})
EndsLive == OfType({"starting", "stopping", "stopped", "error", "replay.preparing"})

\* A replay.
EndsRunning == OfType({"replay.preparing", "replay.completed", "replay.stopping", "replay.stopped", "error"})

\* A picker, which an alert excuses until the picker is cleared with it.
EndsPicker(k) ==
    OfType({"started", "stopped", "solving", "replay.started", "error"})
    \cup [type : {"closed"}, id : {k}] \cup [type : {"open"}, id : Nat \ {k}]

\* A captcha.
EndsSolving == OfType({"solved", "cancelled", "started", "stopped", "replay.started", "error"})

Accounted(sv, coming, s) ==
    /\ sv.session = "none" => Ends(coming, Live(s), MakesLive, EndsLive)
    /\ sv.session # "replay" =>
         Ends(coming, s.replay = "running", OfType({"replay.running"}), EndsRunning)
    /\ \A k \in 1 .. MaxEvents :
         sv.pending # k /\ sv.doing \notin {"stop", "restart", "replay"} =>
           Ends(coming, s.picker = k /\ ~s.alert, [type : {"open"}, id : {k}], EndsPicker(k))
    /\ ~sv.lock => Ends(coming, s.solving, OfType({"solving"}), EndsSolving)

ScreenInv == Reached => Accounted(server, Coming, screen)

-----------------------------------------------------------------------------
(* Messages that end what they show *)

\* Some message ends it, and those that show it come before.
Ending(ms, shows, ends) ==
    \E i \in DOMAIN ms : ms[i] \in ends /\ \A j \in DOMAIN ms : ms[j] \in shows => j < i
Silent(ms, shows) == \A j \in DOMAIN ms : ms[j] \notin shows

\* When messages are sent: what was accounted for is so still if none of them
\* shows it, and what one of them ends after showing it is accounted for.
Told(before, after, ms, shows, ends) ==
    after => Ending(ms, shows, ends) \/ (before /\ Silent(ms, shows))

Sent(s, ms) == {e \in Entry : \E j \in DOMAIN ms : e.n = s + j /\ e.m = ms[j]}

\* Messages sent.
LEMMA EndsSent ==
    ASSUME NEW C \in SUBSET Entry, NEW s \in Nat, \A e \in C : e.n <= s, NEW ms \in Seq(Msg),
           NEW shown, NEW shows, NEW ends, NEW before, NEW after, after,
           before => Ends(C, shown, shows, ends), Told(before, after, ms, shows, ends)
    PROVE  Ends(C \cup Sent(s, ms), shown, shows, ends)
  <1> DEFINE D == C \cup Sent(s, ms)
  <1>1. DOMAIN ms = 1 .. Len(ms) /\ Len(ms) \in Nat
    OBVIOUS
  <1>2. ASSUME NEW e \in D
        PROVE  e \in C \/ \E j \in DOMAIN ms : e.n = s + j /\ e.m = ms[j]
    BY DEF Sent
  <1>3. CASE before /\ Silent(ms, shows)
    <2>1. Ends(C, shown, shows, ends)
      BY <1>3
    <2>2. shown => \E f \in D : f.m \in ends
      BY <2>1 DEF Ends
    <2>3. ASSUME NEW e \in D, e.m \in shows
          PROVE  \E f \in D : f.n > e.n /\ f.m \in ends
      <3>1. e \in C
        BY <1>2, <1>3, <2>3 DEF Silent
      <3>2. QED
        BY <2>1, <2>3, <3>1 DEF Ends
    <2> HIDE DEF D
    <2>4. QED
      BY <2>2, <2>3 DEF Ends, D
  <1>4. CASE Ending(ms, shows, ends)
    <2>1. PICK i \in DOMAIN ms : ms[i] \in ends /\ \A j \in DOMAIN ms : ms[j] \in shows => j < i
      BY <1>4 DEF Ending
    <2> DEFINE f == [n |-> s + i, m |-> ms[i]]
    <2>2. f \in D /\ f.n = s + i /\ f.m = ms[i]
      <3>1. f \in Entry /\ f.n = s + i /\ f.m = ms[i]
        BY <1>1 DEF Entry
      <3>2. f \in Sent(s, ms)
        BY <3>1 DEF Sent
      <3>3. QED
        BY <3>1, <3>2
    <2> HIDE DEF f
    <2>3. ASSUME NEW e \in D, e.m \in shows
          PROVE  f.n > e.n
      <3>1. CASE e \in C
        <4>1. e.n <= s /\ e.n \in Nat
          BY <3>1 DEF Entry
        <4>2. QED
          BY <1>1, <2>2, <4>1
      <3>2. CASE \E j \in DOMAIN ms : e.n = s + j /\ e.m = ms[j]
        <4>1. PICK j \in DOMAIN ms : e.n = s + j /\ e.m = ms[j]
          BY <3>2
        <4>2. j < i
          BY <2>1, <2>3, <4>1
        <4>3. QED
          BY <1>1, <2>2, <4>1, <4>2
      <3>3. QED
        BY <1>2, <3>1, <3>2
    <2> HIDE DEF D
    <2>4. QED
      BY <2>1, <2>2, <2>3 DEF Ends, D
  <1>5. QED
    BY <1>3, <1>4 DEF Told

\* The first message to come handled: what it shows is ended later.
LEMMA EndsHandled ==
    ASSUME NEW C \in SUBSET Entry, NEW e \in C, \A f \in C \ {e} : f.n > e.n,
           NEW shown, NEW after, NEW shows, NEW ends, Ends(C, shown, shows, ends),
           after => (shown /\ e.m \notin ends) \/ e.m \in shows
    PROVE  Ends(C \ {e}, after, shows, ends)
  <1>1. \A f \in C : f.n \in Nat
    BY DEF Entry
  <1>2. ASSUME after
        PROVE  \E f \in C \ {e} : f.m \in ends
    <2>1. CASE shown /\ e.m \notin ends
      BY <2>1 DEF Ends
    <2>2. CASE e.m \in shows
      <3>1. PICK f \in C : f.n > e.n /\ f.m \in ends
        BY <2>2 DEF Ends
      <3>2. f # e
        BY <1>1, <3>1
      <3>3. QED
        BY <3>1, <3>2
    <2>3. QED
      BY <1>2, <2>1, <2>2
  <1>3. ASSUME NEW d \in C \ {e}, d.m \in shows
        PROVE  \E f \in C \ {e} : f.n > d.n /\ f.m \in ends
    <2>1. PICK f \in C : f.n > d.n /\ f.m \in ends
      BY <1>3 DEF Ends
    <2>2. d.n > e.n /\ d.n \in Nat /\ e.n \in Nat /\ f.n \in Nat
      BY <1>1
    <2>3. f # e
      BY <2>1, <2>2
    <2>4. QED
      BY <2>1, <2>3
  <1>4. QED
    BY <1>2, <1>3 DEF Ends

\* What the user ends.
LEMMA EndsLess ==
    ASSUME NEW C, NEW shown, NEW after, NEW shows, NEW ends, Ends(C, shown, shows, ends), after => shown
    PROVE  Ends(C, after, shows, ends)
  BY DEF Ends


\* What the messages are of.
LEMMA Kinds ==
    /\ \A t, types : Is(t) \in OfType(types) <=> t \in types
    /\ \A t, id, types : id \in Nat => (Of(t, id) \in OfType(types) <=> t \in types)
    /\ \A types : \A m \in Msg : m \in OfType(types) <=> m.type \in types
  <1>1. \A t, id, types : id \in Nat => (Of(t, id) \in OfType(types) <=> t \in types)
    BY DEF Of, OfType
  <1>2. \A t, types : Is(t) \in OfType(types) <=> t \in types
    BY <1>1 DEF Is, Of
  <1>3. ASSUME NEW m \in Msg, NEW types
        PROVE  m \in OfType(types) <=> m.type \in types
    BY DEF Msg, OfType
  <1>4. QED
    BY <1>1, <1>2, <1>3

PickerTypes == {"started", "stopped", "solving", "replay.started", "error"}

\* What ends a picker.
LEMMA PickerKinds ==
    ASSUME NEW k \in Nat
    PROVE  /\ \A t \in PickerTypes : Is(t) \in EndsPicker(k)
           /\ Of("closed", k) \in EndsPicker(k)
           /\ \A id \in Nat : id # k => Of("open", id) \in EndsPicker(k)
           /\ \A m \in Msg : m \in EndsPicker(k) <=>
                \/ m.type \in PickerTypes
                \/ m.type = "closed" /\ m.id = k
                \/ m.type = "open" /\ m.id # k
           /\ \A m \in Msg : m \in [type : {"open"}, id : {k}] <=> m.type = "open" /\ m.id = k
  <1>1. \A m \in [type : MsgType, id : Nat] : m \in EndsPicker(k) <=>
                \/ m.type \in PickerTypes
                \/ m.type = "closed" /\ m.id = k
                \/ m.type = "open" /\ m.id # k
    <2> SUFFICES ASSUME NEW m \in [type : MsgType, id : Nat]
                 PROVE  m \in EndsPicker(k) <=>
                          \/ m.type \in PickerTypes
                          \/ m.type = "closed" /\ m.id = k
                          \/ m.type = "open" /\ m.id # k
      OBVIOUS
    <2>1. m.id \in Nat /\ m = [type |-> m.type, id |-> m.id]
      OBVIOUS
    <2>2. m \in OfType(PickerTypes) <=> m.type \in PickerTypes
      BY <2>1 DEF OfType
    <2>3. m \in [type : {"closed"}, id : {k}] <=> m.type = "closed" /\ m.id = k
      BY <2>1
    <2>4. m \in [type : {"open"}, id : Nat \ {k}] <=> m.type = "open" /\ m.id # k
      BY <2>1
    <2>5. QED
      BY <2>2, <2>3, <2>4 DEF EndsPicker, PickerTypes
  <1>2. \A t \in PickerTypes : Is(t) \in EndsPicker(k)
    <2>1. \A t \in PickerTypes : Is(t) \in OfType(PickerTypes)
      BY DEF Is, OfType
    <2>2. QED
      BY <2>1 DEF EndsPicker, PickerTypes
  <1>3. Of("closed", k) \in EndsPicker(k)
    BY DEF Of, EndsPicker
  <1>4. \A id \in Nat : id # k => Of("open", id) \in EndsPicker(k)
    BY DEF Of, EndsPicker
  <1>5. \A m \in Msg : m \in [type : {"open"}, id : {k}] <=> m.type = "open" /\ m.id = k
    <2>1. \A m \in [type : MsgType, id : Nat] :
            m \in [type : {"open"}, id : {k}] <=> m.type = "open" /\ m.id = k
      OBVIOUS
    <2>2. QED
      BY <2>1 DEF Msg
  <1>6. QED
    BY <1>1, <1>2, <1>3, <1>4, <1>5 DEF Msg

-----------------------------------------------------------------------------
(* What is to come *)

\* What is to come is of the messages sent.
LEMMA ComingFacts ==
    ASSUME IInv
    PROVE  /\ Coming \in SUBSET Entry /\ \A e \in Coming : e.n <= seq
           /\ inbox \in Seq(Entry) /\ buffer \in Seq(Entry) /\ seq \in Nat /\ last \in Nat
           /\ DOMAIN inbox = 1 .. Len(inbox) /\ Len(inbox) \in Nat
           /\ DOMAIN buffer = 1 .. Len(buffer) /\ Len(buffer) \in Nat
           /\ attached \in BOOLEAN /\ warned \in BOOLEAN
           /\ IsBuffer(buffer, seq)
           /\ \A i \in DOMAIN buffer : buffer[i].n = seq - Len(buffer) + i
  <1>1. /\ inbox \in Seq(Entry) /\ seq \in Nat /\ last \in Nat /\ attached \in BOOLEAN /\ warned \in BOOLEAN
        /\ IsBuffer(buffer, seq)
    BY DEF IInv, ChannelTypes, OrderInv, BufferInv
  <1>2. buffer \in Seq(Entry) /\ \A i \in DOMAIN buffer : buffer[i].n = seq - Len(buffer) + i
    BY <1>1 DEF IsBuffer
  <1>3. \A i \in DOMAIN inbox : inbox[i] \in Entry /\ inbox[i].n <= seq
    BY <1>1 DEF IInv, OrderInv
  <1>4. DOMAIN buffer = 1 .. Len(buffer) /\ Len(buffer) \in Nat
        /\ DOMAIN inbox = 1 .. Len(inbox) /\ Len(inbox) \in Nat
    BY <1>1, <1>2
  <1>5. \A i \in DOMAIN buffer : buffer[i] \in Entry /\ buffer[i].n <= seq
    BY <1>1, <1>2, <1>4
  <1>6. QED
    BY <1>1, <1>2, <1>3, <1>4, <1>5 DEF Coming

\* What is there when messages are sent, as a set.
LEMMA GrownRange ==
    ASSUME NEW q \in Seq(Entry), NEW s \in Nat, NEW ms \in Seq(Msg)
    PROVE  {Grown(q, s, ms)[i] : i \in DOMAIN Grown(q, s, ms)} = {q[i] : i \in DOMAIN q} \cup Sent(s, ms)
  <1> DEFINE g == Grown(q, s, ms)
             A == {g[i] : i \in DOMAIN g}
             B == {q[i] : i \in DOMAIN q}
  <1>1. g \in Seq(Entry) /\ DOMAIN ms = 1 .. Len(ms)
    BY GrownFacts
  <1>2. /\ \A i \in DOMAIN q : i \in DOMAIN g /\ g[i] = q[i]
        /\ \A j \in 1 .. Len(ms) : Len(q) + j \in DOMAIN g /\ g[Len(q) + j].n = s + j /\ g[Len(q) + j].m = ms[j]
    BY GrownHas
  <1>3. \A i \in DOMAIN g :
          \/ i \in DOMAIN q /\ g[i] = q[i]
          \/ \E j \in 1 .. Len(ms) : i = Len(q) + j /\ g[i].n = s + j /\ g[i].m = ms[j]
    BY GrownCases
  <1> HIDE DEF g
  <1>4. \A i \in DOMAIN g : g[i] \in Entry
    BY <1>1
  <1>5. ASSUME NEW i \in DOMAIN g
        PROVE  g[i] \in B \cup Sent(s, ms)
    BY <1>1, <1>3, <1>4 DEF Sent
  <1>6. ASSUME NEW e \in Sent(s, ms)
        PROVE  e \in A
    <2>1. PICK j \in DOMAIN ms : e.n = s + j /\ e.m = ms[j]
      BY DEF Sent
    <2>2. Len(q) + j \in DOMAIN g /\ g[Len(q) + j].n = e.n /\ g[Len(q) + j].m = e.m
      BY <1>1, <1>2, <2>1
    <2>3. e \in Entry /\ g[Len(q) + j] \in Entry
      BY <1>4, <2>2 DEF Sent
    <2>4. e = g[Len(q) + j]
      BY <2>2, <2>3 DEF Entry
    <2>5. QED
      BY <2>2, <2>4
  <1>7. QED
    BY <1>2, <1>5, <1>6 DEF g

\* What is to come when messages are sent: what was, and they.
LEMMA SendComing ==
    ASSUME IInv, GapInv, NEW ms \in Seq(Msg), NEW new \in Nat, NoGaps(ms), News(ms, Len(emitted), new),
           seq' = seq + Len(ms), EndOf(buffer', Grown(buffer, seq, ms)),
           inbox' = IF attached THEN Grown(inbox, seq, ms) ELSE inbox,
           UNCHANGED <<attached, transport, last, warned>>
    PROVE  /\ GapInv'
           /\ Reached' => Reached /\ Coming' = Coming \cup Sent(seq, ms)
  <1> DEFINE g == Grown(buffer, seq, ms)
             q == Grown(inbox, seq, ms)
  <1>1. /\ inbox \in Seq(Entry) /\ buffer \in Seq(Entry) /\ seq \in Nat /\ last \in Nat
        /\ DOMAIN inbox = 1 .. Len(inbox) /\ Len(inbox) \in Nat
        /\ DOMAIN buffer = 1 .. Len(buffer) /\ Len(buffer) \in Nat
        /\ attached \in BOOLEAN /\ Len(ms) \in Nat /\ DOMAIN ms = 1 .. Len(ms)
        /\ \A i \in DOMAIN buffer : buffer[i].n = seq - Len(buffer) + i
    BY ComingFacts
  <1>2. /\ BufferInv(g, seq + Len(ms), last, steps, new)
        /\ TooLate(last, buffer) => TooLate(last, g)
    <2>1. /\ BufferInv(buffer, seq, last, steps, Len(emitted)) /\ steps \in Seq(Nat) /\ Len(emitted) \in Nat
          /\ \A k \in DOMAIN steps : steps[k] <= Len(emitted)
      BY OrderFacts DEF IInv, OrderInv, ChannelTypes
    <2>2. QED
      BY <1>1, <2>1, GrownBuffer
  <1>3. steps \in Seq(Nat) /\ seq + Len(ms) \in Nat
    BY <1>1 DEF IInv, ChannelTypes
  <1>4. TooLate(last, g) => TooLate(last, buffer')
    BY <1>1, <1>2, <1>3, EndKeeps
  <1>5. /\ q \in Seq(Entry) /\ Len(q) = Len(inbox) + Len(ms)
        /\ \A i \in DOMAIN inbox : i \in DOMAIN q /\ q[i] = inbox[i]
        /\ \A j \in 1 .. Len(ms) :
             Len(inbox) + j \in DOMAIN q /\ q[Len(inbox) + j].n = seq + j /\ q[Len(inbox) + j].m = ms[j]
    <2>1. q \in Seq(Entry) /\ Len(q) = Len(inbox) + Len(ms)
      BY <1>1, GrownFacts
    <2>2. /\ \A i \in DOMAIN inbox : i \in DOMAIN q /\ q[i] = inbox[i]
          /\ \A j \in 1 .. Len(ms) :
               Len(inbox) + j \in DOMAIN q /\ q[Len(inbox) + j].n = seq + j /\ q[Len(inbox) + j].m = ms[j]
      BY <1>1, GrownHas
    <2>3. QED
      BY <2>1, <2>2
  <1>6. /\ g \in Seq(Entry) /\ Len(g) = Len(buffer) + Len(ms)
        /\ \A i \in DOMAIN buffer : i \in DOMAIN g /\ g[i] = buffer[i]
        /\ \A j \in 1 .. Len(ms) :
             Len(buffer) + j \in DOMAIN g /\ g[Len(buffer) + j].n = seq + j /\ g[Len(buffer) + j].m = ms[j]
    <2>1. g \in Seq(Entry) /\ Len(g) = Len(buffer) + Len(ms)
      BY <1>1, GrownFacts
    <2>2. /\ \A i \in DOMAIN buffer : i \in DOMAIN g /\ g[i] = buffer[i]
          /\ \A j \in 1 .. Len(ms) :
               Len(buffer) + j \in DOMAIN g /\ g[Len(buffer) + j].n = seq + j /\ g[Len(buffer) + j].m = ms[j]
      BY <1>1, GrownHas
    <2>3. QED
      BY <2>1, <2>2
  <1>7. \A i \in DOMAIN q :
          \/ i \in DOMAIN inbox /\ q[i] = inbox[i]
          \/ \E j \in 1 .. Len(ms) : i = Len(inbox) + j /\ q[i].n = seq + j /\ q[i].m = ms[j]
    BY <1>1, GrownCases
  <1>8. \A i \in DOMAIN g :
          \/ i \in DOMAIN buffer /\ g[i] = buffer[i]
          \/ \E j \in 1 .. Len(ms) : i = Len(buffer) + j /\ g[i].n = seq + j /\ g[i].m = ms[j]
    BY <1>1, GrownCases
  <1>9. inbox' = IF attached THEN q ELSE inbox
    OBVIOUS
  <1>10. EndOf(buffer', g) /\ (buffer # <<>> => g[1] = buffer[1] /\ g # <<>>)
    <2>1. ASSUME buffer # <<>>
          PROVE  g[1] = buffer[1] /\ g # <<>>
      <3>1. 1 \in DOMAIN buffer
        BY <1>1, <2>1
      <3>2. g[1] = buffer[1] /\ 1 \in DOMAIN g
        BY ONLY <1>6, <3>1
      <3>3. g # <<>>
        BY ONLY <3>2
      <3>4. QED
        BY <3>2, <3>3
    <2>2. EndOf(buffer', g)
      OBVIOUS
    <2>3. QED
      BY <2>1, <2>2
  <1>11. last <= seq \/ transport = "offline"
    BY DEF IInv, ConnectionInv
  <1> HIDE DEF g, q
  \* The head of the inbox stays; what is sent tells of no gap.
  <1>12. attached => (inbox' # <<>> /\ IsGap(inbox'[1]) <=> inbox # <<>> /\ IsGap(inbox[1]))
    <2>1. SUFFICES ASSUME attached
                   PROVE  q # <<>> /\ IsGap(q[1]) <=> inbox # <<>> /\ IsGap(inbox[1])
      BY <1>9
    <2>2. CASE inbox # <<>>
      <3>1. 1 \in DOMAIN inbox
        BY <1>1, <2>2
      <3>2. q[1] = inbox[1] /\ q # <<>>
        BY <1>5, <3>1
      <3>3. QED
        BY <2>2, <3>2
    <2>3. CASE inbox = <<>>
      <3>1. ASSUME q # <<>>
            PROVE  ~IsGap(q[1])
        <4>1. 1 \in DOMAIN q /\ 1 \notin DOMAIN inbox
          BY <1>5, <2>3, <3>1
        <4>2. PICK j \in 1 .. Len(ms) : q[1].m = ms[j]
          BY <1>7, <4>1
        <4>3. QED
          BY <1>1, <4>2 DEF NoGaps, IsGap
      <3>2. QED
        BY <2>3, <3>1
    <2>4. QED
      BY <2>2, <2>3
  <1>13. GapInv'
    BY <1>2, <1>4, <1>12 DEF GapInv
  <1>14. ASSUME Reached'
         PROVE  Reached
    <2>1. transport # "offline" /\ ~warned
      BY <1>14 DEF Reached
    <2>2. attached => inbox = <<>> \/ ~IsGap(inbox[1])
      BY <1>12, <1>14 DEF Reached
    <2>3. ~attached => ~TooLate(last, buffer)
      BY <1>2, <1>4, <1>14 DEF Reached
    <2>4. QED
      BY <2>1, <2>2, <2>3 DEF Reached
  <1>15. ASSUME Reached'
         PROVE  Coming' = Coming \cup Sent(seq, ms)
    <2>1. CASE attached
      <3>1. Coming' = {q[i] : i \in DOMAIN q} /\ Coming = {inbox[i] : i \in DOMAIN inbox}
        BY <1>9, <2>1 DEF Coming
      <3>2. {q[i] : i \in DOMAIN q} = {inbox[i] : i \in DOMAIN inbox} \cup Sent(seq, ms)
        BY <1>1, GrownRange DEF q
      <3>3. QED
        BY <3>1, <3>2, Zenon
    <2>2. CASE ~attached
      <3>1. Coming' = {e \in {buffer'[j] : j \in DOMAIN buffer'} : e.n > last}
            /\ Coming = {e \in {buffer[j] : j \in DOMAIN buffer} : e.n > last}
        BY <2>2 DEF Coming
      <3>2. buffer' \in Seq(Entry) /\ (g # <<>> => buffer' # <<>>)
        BY <1>10 DEF EndOf
      <3>3. PICK d \in 0 .. Len(g) :
              Len(buffer') = Len(g) - d /\ \A i \in 1 .. Len(buffer') : d + i \in 1 .. Len(g) /\ buffer'[i] = g[d + i]
        BY <1>10 DEF EndOf
      <3>4. last <= seq
        BY <1>11, <1>14, <1>15 DEF Reached
      \* Nothing the client lacks has fallen off.
      <3>5. ASSUME NEW i \in DOMAIN g, g[i].n > last
            PROVE  \E j \in DOMAIN buffer' : buffer'[j] = g[i]
        <4>1. g # <<>> /\ buffer' # <<>>
          BY <3>2
        <4>2. Len(buffer') \in Nat /\ Len(buffer') >= 1 /\ DOMAIN buffer' = 1 .. Len(buffer') /\ Len(g) \in Nat
              /\ DOMAIN g = 1 .. Len(g)
          BY <1>6, <3>2, <4>1
        <4>3. ~(last < buffer'[1].n - 1)
          BY <1>15, <2>2, <4>1 DEF Reached, TooLate
        <4>4. d + 1 \in DOMAIN g /\ buffer'[1] = g[d + 1]
          BY <3>3, <4>2
        <4>5. \A k \in DOMAIN g : g[k].n = (seq + Len(ms)) - Len(g) + k
          BY <1>2 DEF BufferInv, IsBuffer
        <4>6. i > d
          <5>1. g[i].n = (seq + Len(ms)) - Len(g) + i /\ g[d + 1].n = (seq + Len(ms)) - Len(g) + (d + 1)
            BY <4>4, <4>5
          <5>2. QED
            BY <1>1, <3>5, <4>2, <4>3, <4>4, <5>1
        <4>7. i - d \in 1 .. Len(buffer') /\ d + (i - d) = i
          BY <3>3, <4>2, <4>6
        <4>8. buffer'[i - d] = g[i]
          BY <3>3, <4>7
        <4>9. QED
          BY <4>2, <4>7, <4>8
      <3>6. ASSUME NEW e \in Coming'
            PROVE  e \in Coming \cup Sent(seq, ms)
        <4>1. PICK k \in DOMAIN buffer' : e = buffer'[k] /\ e.n > last
          BY <3>1
        <4>2. k \in 1 .. Len(buffer')
          BY <3>2, <4>1
        <4>3. PICK i \in DOMAIN g : e = g[i]
          <5>1. d + k \in 1 .. Len(g) /\ buffer'[k] = g[d + k]
            BY <3>3, <4>2
          <5>2. DOMAIN g = 1 .. Len(g)
            BY <1>6
          <5>3. QED
            BY <4>1, <5>1, <5>2
        <4>4. CASE i \in DOMAIN buffer /\ g[i] = buffer[i]
          BY <3>1, <4>1, <4>3, <4>4
        <4>5. CASE \E j \in 1 .. Len(ms) : i = Len(buffer) + j /\ g[i].n = seq + j /\ g[i].m = ms[j]
          <5>1. e \in Entry
            BY <1>6, <4>3
          <5>2. QED
            BY <1>1, <4>3, <4>5, <5>1 DEF Sent
        <4>6. QED
          BY <1>8, <4>4, <4>5
      <3>7. ASSUME NEW e \in Coming
            PROVE  e \in Coming'
        <4>1. PICK k \in DOMAIN buffer : e = buffer[k] /\ e.n > last
          BY <3>1
        <4>2. k \in DOMAIN g /\ g[k] = e
          BY <1>6, <4>1
        <4>3. QED
          BY <3>1, <3>5, <4>1, <4>2
      <3>8. ASSUME NEW e \in Sent(seq, ms)
            PROVE  e \in Coming'
        <4>1. PICK j \in DOMAIN ms : e.n = seq + j /\ e.m = ms[j]
          BY DEF Sent
        <4>2. /\ Len(buffer) + j \in DOMAIN g /\ g[Len(buffer) + j].n = e.n /\ g[Len(buffer) + j].m = e.m
          BY <1>1, <1>6, <4>1
        <4>3. e \in Entry /\ g[Len(buffer) + j] \in Entry
          BY <1>6, <4>2 DEF Sent
        <4>4. e = g[Len(buffer) + j]
          BY <4>2, <4>3 DEF Entry
        <4>5. e.n > last
          BY <1>1, <3>4, <4>1
        <4>6. QED
          BY <3>1, <3>5, <4>2, <4>4, <4>5
      <3>9. QED
        BY <3>6, <3>7, <3>8
    <2>3. QED
      BY <1>1, <2>1, <2>2
  <1>16. QED
    BY <1>13, <1>14, <1>15


\* What is said of the server, the messages to come and the screen by each
\* of the claims of Accounted stays so when ms is sent.
Tells(sv, new, ms) ==
    /\ Told(sv.session = "none", new.session = "none", ms, MakesLive, EndsLive)
    /\ Told(sv.session # "replay", new.session # "replay", ms, OfType({"replay.running"}), EndsRunning)
    /\ \A k \in 1 .. MaxEvents :
         Told(sv.pending # k /\ sv.doing \notin {"stop", "restart", "replay"},
              new.pending # k /\ new.doing \notin {"stop", "restart", "replay"},
              ms, [type : {"open"}, id : {k}], EndsPicker(k))
    /\ Told(~sv.lock, ~new.lock, ms, OfType({"solving"}), EndsSolving)

\* What is shown is accounted for still when messages are sent that tell of all
\* that ends.
LEMMA TellsAccounts ==
    ASSUME NEW C \in SUBSET Entry, NEW s \in Nat, \A e \in C : e.n <= s, NEW ms \in Seq(Msg),
           NEW shown, NEW sv, NEW new, Accounted(sv, C, shown), Tells(sv, new, ms)
    PROVE  Accounted(new, C \cup Sent(s, ms), shown)
  <1> DEFINE D == C \cup Sent(s, ms)
             L == Live(shown)
             R == shown.replay = "running"
             P(k) == shown.picker = k /\ ~shown.alert
             S == shown.solving
  <1>1. ASSUME new.session = "none"
        PROVE  Ends(D, L, MakesLive, EndsLive)
    <2> DEFINE b == sv.session = "none"
               a == new.session = "none"
    <2>1. a /\ (b => Ends(C, L, MakesLive, EndsLive)) /\ Told(b, a, ms, MakesLive, EndsLive)
      BY <1>1 DEF Accounted, Tells
    <2> HIDE DEF L, b, a
    <2>2. QED
      BY <2>1, EndsSent
  <1>2. ASSUME new.session # "replay"
        PROVE  Ends(D, R, OfType({"replay.running"}), EndsRunning)
    <2> DEFINE b == sv.session # "replay"
               a == new.session # "replay"
               T == OfType({"replay.running"})
    <2>1. a /\ (b => Ends(C, R, T, EndsRunning)) /\ Told(b, a, ms, T, EndsRunning)
      BY <1>2 DEF Accounted, Tells
    <2> HIDE DEF R, b, a, T
    <2>2. Ends(D, R, T, EndsRunning)
      BY <2>1, EndsSent
    <2>3. QED
      BY <2>2 DEF T
  <1>3. ASSUME NEW k \in 1 .. MaxEvents, new.pending # k, new.doing \notin {"stop", "restart", "replay"}
        PROVE  Ends(D, P(k), [type : {"open"}, id : {k}], EndsPicker(k))
    <2> DEFINE b == sv.pending # k /\ sv.doing \notin {"stop", "restart", "replay"}
               a == new.pending # k /\ new.doing \notin {"stop", "restart", "replay"}
               T == [type : {"open"}, id : {k}]
               p == P(k)
    <2>1. a /\ (b => Ends(C, p, T, EndsPicker(k))) /\ Told(b, a, ms, T, EndsPicker(k))
      BY <1>3 DEF Accounted, Tells
    <2> HIDE DEF p, b, a, T
    <2>2. Ends(D, p, T, EndsPicker(k))
      BY <2>1, EndsSent
    <2>3. QED
      BY <2>2 DEF T, p
  <1>4. ASSUME ~new.lock
        PROVE  Ends(D, S, OfType({"solving"}), EndsSolving)
    <2> DEFINE b == ~sv.lock
               a == ~new.lock
               T == OfType({"solving"})
    <2>1. a /\ (b => Ends(C, S, T, EndsSolving)) /\ Told(b, a, ms, T, EndsSolving)
      BY <1>4 DEF Accounted, Tells
    <2> HIDE DEF S, b, a, T
    <2>2. Ends(D, S, T, EndsSolving)
      BY <2>1, EndsSent
    <2>3. QED
      BY <2>2 DEF T
  <1> HIDE DEF D
  <1>5. QED
    BY <1>1, <1>2, <1>3, <1>4 DEF Accounted, D

\* A runtime that tells of all that ends keeps the screen accounted for.
LEMMA SendScreen ==
    ASSUME IInv, GapInv, ScreenInv, NEW ms \in Seq(Msg), NEW new \in Nat, NoGaps(ms), News(ms, Len(emitted), new),
           seq' = seq + Len(ms), EndOf(buffer', Grown(buffer, seq, ms)),
           inbox' = IF attached THEN Grown(inbox, seq, ms) ELSE inbox,
           UNCHANGED <<attached, transport, last, warned, screen>>, Tells(server, server', ms)
    PROVE  GapInv' /\ ScreenInv'
  <1>1. /\ GapInv'
        /\ Reached' => Reached /\ Coming' = Coming \cup Sent(seq, ms)
    BY SendComing
  <1>2. Coming \in SUBSET Entry /\ (\A e \in Coming : e.n <= seq) /\ seq \in Nat
    BY ComingFacts
  <1>3. ASSUME Reached'
        PROVE  Accounted(server', Coming', screen')
    <2>1. Accounted(server, Coming, screen) /\ Coming' = Coming \cup Sent(seq, ms) /\ screen' = screen
      BY <1>1, <1>3 DEF ScreenInv
    <2>2. QED
      BY <1>2, <2>1, TellsAccounts
  <1>4. QED
    BY <1>1, <1>3 DEF ScreenInv

\* The same for reports (emit).
LEMMA EmitScreen ==
    ASSUME IInv, GapInv, ScreenInv, NEW ms \in Seq(Report), Emit(ms),
           UNCHANGED <<attached, transport, last, warned, screen>>, Tells(server, server', ms)
    PROVE  GapInv' /\ ScreenInv'
  <1>1. ms \in Seq(Msg) /\ NoGaps(ms) /\ News(ms, Len(emitted), Len(emitted)) /\ Len(emitted) \in Nat
    <2>1. Len(emitted) \in Nat
      BY DEF IInv, ChannelTypes
    <2>2. ms \in Seq(Msg) /\ NoGaps(ms) /\ News(ms, Len(emitted), Len(emitted))
      BY ReportFacts
    <2>3. QED
      BY <2>1, <2>2
  <1>2. buffer \in Seq(Entry) /\ seq \in Nat
    BY ComingFacts
  <1>3. Grown(buffer, seq, ms) \in Seq(Entry)
    BY <1>1, <1>2, GrownFacts
  <1>4. buffer' = Kept(Grown(buffer, seq, ms)) /\ seq' = seq + Len(ms)
        /\ inbox' = IF attached THEN Grown(inbox, seq, ms) ELSE inbox
    BY DEF Emit, Grown
  <1>5. EndOf(buffer', Grown(buffer, seq, ms))
    BY <1>3, <1>4, KeptFacts
  <1>6. QED
    BY <1>1, <1>4, <1>5, SendScreen

\* Nothing is sent: the claims are about no more than before.
LEMMA QuietScreen ==
    ASSUME GapInv, ScreenInv,
           UNCHANGED <<seq, buffer, inbox, attached, transport, last, warned, screen, server>>
    PROVE  GapInv' /\ ScreenInv'
  <1>1. (Reached' <=> Reached) /\ Coming' = Coming
    BY DEF Reached, Coming
  <1>2. GapInv'
    BY DEF GapInv
  <1>3. QED
    BY <1>1, <1>2 DEF ScreenInv


-----------------------------------------------------------------------------
(* What each action of the runtime tells *)

LiveTypes == {"recording", "started", "replay.started", "replay.running", "replay.completed",
              "replay.stopping", "replay.stopped"}
LiveEnds == {"starting", "stopping", "stopped", "error", "replay.preparing"}
RunningEnds == {"replay.preparing", "replay.completed", "replay.stopping", "replay.stopped", "error"}
SolvingEnds == {"solved", "cancelled", "started", "stopped", "replay.started", "error"}
Opens(k) == [type : {"open"}, id : {k}]

\* What a message without an id shows and ends.
LEMMA IsKinds ==
    ASSUME NEW t, t # "open"
    PROVE  /\ Is(t) \in MakesLive <=> t \in LiveTypes
           /\ Is(t) \in EndsLive <=> t \in LiveEnds
           /\ Is(t) \in OfType({"replay.running"}) <=> t = "replay.running"
           /\ Is(t) \in EndsRunning <=> t \in RunningEnds
           /\ Is(t) \in OfType({"solving"}) <=> t = "solving"
           /\ Is(t) \in EndsSolving <=> t \in SolvingEnds
           /\ \A k : Is(t) \notin Opens(k)
           /\ \A k \in Nat : t \in PickerTypes => Is(t) \in EndsPicker(k)
  <1>1. /\ Is(t) \in MakesLive <=> t \in LiveTypes
        /\ Is(t) \in EndsLive <=> t \in LiveEnds
        /\ Is(t) \in OfType({"replay.running"}) <=> t = "replay.running"
        /\ Is(t) \in EndsRunning <=> t \in RunningEnds
        /\ Is(t) \in OfType({"solving"}) <=> t = "solving"
        /\ Is(t) \in EndsSolving <=> t \in SolvingEnds
    BY Kinds DEF MakesLive, LiveTypes, EndsLive, LiveEnds, EndsRunning, RunningEnds, EndsSolving, SolvingEnds
  <1>2. \A k : Is(t) \notin Opens(k)
    BY DEF Is, Opens
  <1>3. \A k \in Nat : t \in PickerTypes => Is(t) \in EndsPicker(k)
    BY PickerKinds
  <1>4. QED
    BY <1>1, <1>2, <1>3

\* What a message about a picker or an action shows and ends.
LEMMA OfKinds ==
    ASSUME NEW t \in {"open", "closed", "action"}, NEW id \in Nat
    PROVE  /\ Of(t, id) \notin MakesLive /\ Of(t, id) \notin OfType({"replay.running"})
           /\ Of(t, id) \notin OfType({"solving"})
           /\ \A k : Of(t, id) \in Opens(k) => t = "open" /\ id = k
           /\ t = "closed" => Of(t, id) \in EndsPicker(id)
  <1>1. /\ Of(t, id) \notin MakesLive /\ Of(t, id) \notin OfType({"replay.running"})
        /\ Of(t, id) \notin OfType({"solving"})
    BY Kinds DEF MakesLive
  <1>2. \A k : Of(t, id) \in Opens(k) => t = "open" /\ id = k
    BY DEF Of, Opens
  <1>3. t = "closed" => Of(t, id) \in EndsPicker(id)
    BY PickerKinds
  <1>4. QED
    BY <1>1, <1>2, <1>3

\* Messages of a set that has none that shows.
LEMMA SilentOf ==
    ASSUME NEW S, NEW ms \in Seq(S), NEW shows, \A m \in S : m \notin shows
    PROVE  Silent(ms, shows)
  BY DEF Silent

\* A message that ends, among messages none of which shows.
LEMMA EndingOf ==
    ASSUME NEW ms, NEW shows, NEW ends, Silent(ms, shows), NEW i \in DOMAIN ms, ms[i] \in ends
    PROVE  Ending(ms, shows, ends)
  BY DEF Ending, Silent

\* The claims hold of as much as before, and nothing is shown.
LEMMA SameTells ==
    ASSUME NEW sv, NEW new, NEW ms \in Seq(Msg),
           new.session = sv.session, new.pending = sv.pending, new.lock = sv.lock,
           sv.doing \notin {"stop", "restart", "replay"},
           Silent(ms, OfType({"replay.running"})), \A k \in 1 .. MaxEvents : Silent(ms, Opens(k)),
           Silent(ms, OfType({"solving"})), sv.session = "none" => Silent(ms, MakesLive)
    PROVE  Tells(sv, new, ms)
  BY DEF Tells, Told, Opens

\* An error ends all that is shown.
LEMMA ErrorScreen ==
    ASSUME IInv, GapInv, ScreenInv, Emit(<<Is("error")>>), UNCHANGED <<attached, transport, last, warned, screen>>
    PROVE  GapInv' /\ ScreenInv'
  <1> DEFINE ms == <<Is("error")>>
  <1>1. ms \in Seq(Report)
    BY ReportTypes DEF Reports
  <1>2. ms \in Seq({Is("error")}) /\ 1 \in DOMAIN ms /\ ms[1] = Is("error")
    OBVIOUS
  <1> HIDE DEF ms
  <1>3. /\ Silent(ms, MakesLive) /\ Silent(ms, OfType({"replay.running"})) /\ Silent(ms, OfType({"solving"}))
        /\ \A k : Silent(ms, Opens(k))
    BY <1>2, IsKinds, SilentOf DEF LiveTypes
  <1>4. /\ Is("error") \in EndsLive /\ Is("error") \in EndsRunning /\ Is("error") \in EndsSolving
        /\ \A k \in Nat : Is("error") \in EndsPicker(k)
    BY IsKinds DEF LiveEnds, RunningEnds, SolvingEnds, PickerTypes
  <1>5. /\ Ending(ms, MakesLive, EndsLive) /\ Ending(ms, OfType({"replay.running"}), EndsRunning)
        /\ Ending(ms, OfType({"solving"}), EndsSolving) /\ \A k \in Nat : Ending(ms, Opens(k), EndsPicker(k))
    BY <1>2, <1>3, <1>4, EndingOf
  <1>6. Tells(server, server', ms)
    BY <1>5 DEF Tells, Told, Opens
  <1>7. QED
    BY <1>1, <1>6, EmitScreen DEF ms

\* A start.
LEMMA StartScreen ==
    ASSUME IInv, GapInv, ScreenInv, StartCommand
    PROVE  GapInv' /\ ScreenInv'
  <1>1. UNCHANGED <<attached, transport, last, warned, screen>>
    BY DEF StartCommand, Other, Rest, clientVars
  <1>2. CASE Quiet /\ UNCHANGED server
    BY <1>1, <1>2, QuietScreen DEF Quiet
  <1>3. CASE Emit(<<Is("starting")>>) /\ server' = [server EXCEPT !.doing = "start"]
    <2> DEFINE ms == <<Is("starting")>>
    <2>1. ms \in Seq(Report)
      BY ReportTypes DEF Reports
    <2>2. ms \in Seq({Is("starting")})
      OBVIOUS
    <2>3. server.doing = "idle" /\ server \in ServerRec
      BY DEF StartCommand, Command, IInv, ScreenTypes
    <2> HIDE DEF ms
    <2>4. /\ Silent(ms, OfType({"replay.running"})) /\ Silent(ms, OfType({"solving"})) /\ Silent(ms, MakesLive)
          /\ \A k : Silent(ms, Opens(k))
      BY <2>2, IsKinds, SilentOf DEF LiveTypes
    <2>5. /\ server'.session = server.session /\ server'.pending = server.pending /\ server'.lock = server.lock
      BY <1>3, <2>3 DEF ServerRec
    <2>6. ms \in Seq(Msg)
      BY <2>1, ReportFacts
    <2>7. Tells(server, server', ms)
      BY <2>3, <2>4, <2>5, <2>6, SameTells
    <2>8. QED
      BY <1>1, <1>3, <2>1, <2>7, EmitScreen DEF ms
  <1>4. QED
    BY <1>2, <1>3 DEF StartCommand

\* A runtime that starts a session has none.
StartInv == server.doing = "start" => server.session = "none"

\* A session that opened, or failed to.
LEMMA StartedScreen ==
    ASSUME IInv, GapInv, ScreenInv, StartInv, Started
    PROVE  GapInv' /\ ScreenInv'
  <1>1. UNCHANGED <<attached, transport, last, warned, screen>>
    BY DEF Started, Other, Rest, clientVars
  <1>2. server.session = "none"
    BY DEF Started, StartInv
  <1>3. CASE server' = [Fresh EXCEPT !.session = "recording"] /\ Emit(<<Is("started"), Is("recording")>>)
    <2> DEFINE ms == <<Is("started"), Is("recording")>>
    <2>1. ms \in Seq(Report)
      <3>1. Is("started") \in Report /\ Is("recording") \in Report
        BY ReportTypes DEF Reports
      <3>2. QED
        BY <3>1
    <2>2. ms \in Seq({Is("started"), Is("recording")}) /\ 1 \in DOMAIN ms /\ ms[1] = Is("started")
      OBVIOUS
    <2>3. server'.session = "recording"
      BY <1>3 DEF Fresh
    <2> HIDE DEF ms
    <2>4. /\ Silent(ms, OfType({"replay.running"})) /\ Silent(ms, OfType({"solving"}))
          /\ \A k : Silent(ms, Opens(k))
      BY <2>2, IsKinds, SilentOf
    <2>5. Is("started") \in EndsSolving /\ \A k \in Nat : Is("started") \in EndsPicker(k)
      BY IsKinds DEF SolvingEnds, PickerTypes
    <2>6. Ending(ms, OfType({"solving"}), EndsSolving) /\ \A k \in Nat : Ending(ms, Opens(k), EndsPicker(k))
      BY <2>2, <2>4, <2>5, EndingOf
    <2>7. Tells(server, server', ms)
      BY <1>2, <2>3, <2>4, <2>6 DEF Tells, Told, Opens
    <2>8. QED
      BY <1>1, <1>3, <2>1, <2>7, EmitScreen DEF ms
  <1>4. CASE Emit(<<Is("error")>>)
    BY <1>1, <1>4, ErrorScreen
  <1>5. QED
    BY <1>3, <1>4 DEF Started


\* A stop or a restart: the captcha is over, the session not yet.
LEMMA StopScreen ==
    ASSUME IInv, GapInv, ScreenInv, StopCommand
    PROVE  GapInv' /\ ScreenInv'
  <1> DEFINE pre == IF server.session = "replay" THEN <<Is("replay.stopping")>> ELSE <<>>
             ms == pre \o <<Is("stopping")>> \o Cancelled
  <1>1. UNCHANGED <<attached, transport, last, warned, screen>> /\ Emit(ms)
    BY DEF StopCommand, Other, Rest, clientVars
  <1>2. /\ server'.session = server.session /\ server'.doing \in {"stop", "restart"} /\ server'.lock = FALSE
    BY DEF StopCommand, Fresh
  <1>3. ms \in Seq(Report)
    <2>1. Is("replay.stopping") \in Report /\ Is("stopping") \in Report
      BY ReportTypes DEF Reports
    <2>2. QED
      BY <2>1, ServerFacts
  <1>4. /\ ms \in Seq({Is("replay.stopping"), Is("stopping"), Is("cancelled")})
        /\ server.session = "none" => ms \in Seq({Is("stopping"), Is("cancelled")})
        /\ server.lock => \E i \in DOMAIN ms : ms[i] = Is("cancelled")
    <2> DEFINE S == {Is("replay.stopping"), Is("stopping"), Is("cancelled")}
               N == {Is("stopping"), Is("cancelled")}
    <2>1. pre \in Seq(S) /\ (server.session = "none" => pre \in Seq(N))
      OBVIOUS
    <2>5. Cancelled \in Seq(S) /\ Cancelled \in Seq(N)
      <3>1. CASE server.lock
        BY <3>1 DEF Cancelled
      <3>2. CASE ~server.lock
        BY <3>2 DEF Cancelled
      <3>3. QED
        BY <3>1, <3>2
    <2>2. server.lock => Len(Cancelled) = 1 /\ Cancelled[1] = Is("cancelled")
      BY DEF Cancelled
    <2> HIDE DEF pre
    <2> DEFINE front == pre \o <<Is("stopping")>>
    <2>3. front \in Seq(S) /\ (server.session = "none" => front \in Seq(N))
      BY <2>1
    <2> HIDE DEF front
    <2>6. front \o Cancelled \in Seq(S) /\ (server.session = "none" => front \o Cancelled \in Seq(N))
      BY <2>3, <2>5
    <2>4. ASSUME server.lock
          PROVE  \E i \in DOMAIN ms : ms[i] = Is("cancelled")
      <3> HIDE DEF S, N
      <3>1. Len(front) + 1 \in DOMAIN (front \o Cancelled) /\ (front \o Cancelled)[Len(front) + 1] = Cancelled[1]
        <4>1. front \in Seq(S) /\ Cancelled \in Seq(S) /\ Len(Cancelled) = 1
          BY <2>2, <2>3, <2>5, <2>4
        <4>2. QED
          BY <4>1
      <3>2. QED
        BY <2>2, <2>4, <3>1 DEF front
    <2>7. QED
      BY <2>6, <2>4 DEF front
  <1> HIDE DEF ms
  <1>5. /\ Silent(ms, OfType({"replay.running"})) /\ Silent(ms, OfType({"solving"}))
    BY <1>4, IsKinds, SilentOf
  <1>6. server.session = "none" => Silent(ms, MakesLive)
    BY <1>4, IsKinds, SilentOf DEF LiveTypes
  <1>7. server.lock => Ending(ms, OfType({"solving"}), EndsSolving)
    <2>1. Is("cancelled") \in EndsSolving
      BY IsKinds DEF SolvingEnds
    <2>2. QED
      BY <1>4, <1>5, <2>1, EndingOf
  <1>8. server.lock \in BOOLEAN
    BY ServerFacts
  <1>9. Tells(server, server', ms)
    BY <1>2, <1>5, <1>6, <1>7, <1>8 DEF Tells, Told
  <1>10. QED
    BY <1>1, <1>3, <1>9, EmitScreen

\* A session that stopped, and the next runtime: all that is shown is over.
LEMMA StoppedScreen ==
    ASSUME IInv, GapInv, ScreenInv, Stopped
    PROVE  GapInv' /\ ScreenInv'
  <1> DEFINE old == LastWords
             new == NewWords
             ms == old \o new
             k == Len(old)
  <1>1. /\ seq' = seq + Len(ms) /\ EndOf(buffer', Grown(buffer, seq, ms))
        /\ inbox' = IF attached THEN Grown(inbox, seq, ms) ELSE inbox
        /\ ms \in Seq(Report)
    BY StoppedSends
  <1>2. UNCHANGED <<attached, transport, last, warned, screen>>
    BY DEF Stopped, Rest, clientVars
  <1>3. ms \in Seq(Msg) /\ NoGaps(ms) /\ News(ms, Len(emitted), Len(emitted)) /\ Len(emitted) \in Nat
    <2>1. Len(emitted) \in Nat
      BY DEF IInv, ChannelTypes
    <2>2. QED
      BY <1>1, <2>1, ReportFacts
  <1>4. /\ ms \in Seq({Is("replay.stopped"), Is("stopped"), Is("server.ready"), Is("starting")})
        /\ k \in DOMAIN ms /\ ms[k] = Is("stopped")
        /\ \A j \in DOMAIN ms : j >= k => ms[j] \in {Is("stopped"), Is("server.ready"), Is("starting")}
        /\ server.session = "replay" => 1 \in DOMAIN ms /\ ms[1] = Is("replay.stopped")
    <2> DEFINE S == {Is("replay.stopped"), Is("stopped"), Is("server.ready"), Is("starting")}
               T == {Is("server.ready"), Is("starting")}
    <2>1. new \in Seq(S) /\ new \in Seq(T) /\ Len(new) \in Nat
      <3>1. CASE server.doing = "restart"
        BY <3>1 DEF NewWords, FirstWords
      <3>2. CASE server.doing # "restart"
        BY <3>2 DEF NewWords, FirstWords
      <3>3. QED
        BY <3>1, <3>2
    <2>2. /\ old \in Seq(S) /\ k \in Nat /\ k >= 1 /\ old[k] = Is("stopped")
          /\ server.session = "replay" => old[1] = Is("replay.stopped")
      <3>1. CASE server.session = "replay"
        BY <3>1 DEF LastWords
      <3>2. CASE server.session # "replay"
        BY <3>2 DEF LastWords
      <3>3. QED
        BY <3>1, <3>2
    <2> HIDE DEF old, new
    <2>3. /\ ms \in Seq(S) /\ Len(ms) = k + Len(new)
          /\ \A j \in 1 .. k : ms[j] = old[j]
          /\ \A j \in 1 .. Len(ms) : j > k => j - k \in 1 .. Len(new) /\ ms[j] = new[j - k]
      BY <2>1, <2>2 DEF k
    <2> HIDE DEF ms
    <2>4. k \in DOMAIN ms /\ 1 \in DOMAIN ms /\ DOMAIN ms = 1 .. Len(ms)
      BY <2>1, <2>2, <2>3
    <2>5. ms[k] = Is("stopped") /\ (server.session = "replay" => ms[1] = Is("replay.stopped"))
      BY <2>2, <2>3
    <2>6. ASSUME NEW j \in DOMAIN ms, j >= k
          PROVE  ms[j] \in {Is("stopped"), Is("server.ready"), Is("starting")}
      <3>1. CASE j = k
        BY <2>5, <3>1
      <3>2. CASE j > k
        BY <2>1, <2>3, <2>4, <3>2
      <3>3. QED
        BY <2>3, <2>4, <2>6, <3>1, <3>2
    <2>7. QED
      BY <2>3, <2>4, <2>5, <2>6
  <1>5. server'.session = "none"
    BY DEF Stopped, NextServer, Fresh
  <1> HIDE DEF ms, k
  <1>6. /\ Silent(ms, OfType({"replay.running"})) /\ Silent(ms, OfType({"solving"}))
        /\ \A p : Silent(ms, Opens(p))
    BY <1>4, IsKinds, SilentOf
  <1>7. Ending(ms, MakesLive, EndsLive)
    <2>1. Is("stopped") \in EndsLive
      BY IsKinds DEF LiveEnds
    <2>2. \A m \in {Is("stopped"), Is("server.ready"), Is("starting")} : m \notin MakesLive
      BY IsKinds DEF LiveTypes
    <2>3. \A j \in DOMAIN ms : ms[j] \in MakesLive => j < k
      BY <1>3, <1>4, <2>2
    <2>4. QED
      BY <1>4, <2>1, <2>3 DEF Ending
  <1>8. server.session = "replay" => Ending(ms, OfType({"replay.running"}), EndsRunning)
    <2>1. Is("replay.stopped") \in EndsRunning
      BY IsKinds DEF RunningEnds
    <2>2. QED
      BY <1>4, <1>6, <2>1, EndingOf
  <1>9. Ending(ms, OfType({"solving"}), EndsSolving) /\ \A p \in Nat : Ending(ms, Opens(p), EndsPicker(p))
    <2>1. Is("stopped") \in EndsSolving /\ \A p \in Nat : Is("stopped") \in EndsPicker(p)
      BY IsKinds DEF SolvingEnds, PickerTypes
    <2>2. QED
      BY <1>4, <1>6, <2>1, EndingOf
  <1>10. Tells(server, server', ms)
    BY <1>6, <1>7, <1>8, <1>9 DEF Tells, Told, Opens
  <1>11. QED
    BY <1>1, <1>2, <1>3, <1>10, SendScreen

\* A replay asked for.
LEMMA ReplayCommandScreen ==
    ASSUME IInv, GapInv, ScreenInv, ReplayCommand
    PROVE  GapInv' /\ ScreenInv'
  <1>1. UNCHANGED <<attached, transport, last, warned, screen>>
    BY DEF ReplayCommand, Other, Rest, clientVars
  <1>2. CASE Quiet /\ UNCHANGED server
    BY <1>1, <1>2, QuietScreen DEF Quiet
  <1>3. CASE Emit(<<Is("error")>>)
    BY <1>1, <1>3, ErrorScreen
  <1>4. CASE /\ ~server.lock /\ server.session # "replay" /\ Emit(<<Is("replay.preparing")>>)
             /\ server' = [Fresh EXCEPT !.doing = "replay"]
    <2> DEFINE ms == <<Is("replay.preparing")>>
    <2>1. ms \in Seq(Report)
      BY ReportTypes DEF Reports
    <2>2. ms \in Seq({Is("replay.preparing")}) /\ 1 \in DOMAIN ms /\ ms[1] = Is("replay.preparing")
      OBVIOUS
    <2>3. server'.doing = "replay"
      BY <1>4 DEF Fresh
    <2> HIDE DEF ms
    <2>4. /\ Silent(ms, OfType({"replay.running"})) /\ Silent(ms, OfType({"solving"})) /\ Silent(ms, MakesLive)
      BY <2>2, IsKinds, SilentOf DEF LiveTypes
    <2>5. Is("replay.preparing") \in EndsLive
      BY IsKinds DEF LiveEnds
    <2>6. Ending(ms, MakesLive, EndsLive)
      BY <2>2, <2>4, <2>5, EndingOf
    <2>7. Tells(server, server', ms)
      BY <1>4, <2>3, <2>4, <2>6 DEF Tells, Told
    <2>8. QED
      BY <1>1, <1>4, <2>1, <2>7, EmitScreen DEF ms
  <1>5. QED
    BY <1>2, <1>3, <1>4 DEF ReplayCommand

\* A replay that opened, or failed to.
LEMMA ReplayReadyScreen ==
    ASSUME IInv, GapInv, ScreenInv, ReplayReady
    PROVE  GapInv' /\ ScreenInv'
  <1>1. UNCHANGED <<attached, transport, last, warned, screen>>
    BY DEF ReplayReady, Other, Rest, clientVars
  <1>2. CASE server' = [Fresh EXCEPT !.session = "replay"] /\ Emit(<<Is("replay.started"), Is("replay.running")>>)
    <2> DEFINE ms == <<Is("replay.started"), Is("replay.running")>>
    <2>1. ms \in Seq(Report)
      <3>1. Is("replay.started") \in Report /\ Is("replay.running") \in Report
        BY ReportTypes DEF Reports
      <3>2. QED
        BY <3>1
    <2>2. ms \in Seq({Is("replay.started"), Is("replay.running")}) /\ 1 \in DOMAIN ms /\ ms[1] = Is("replay.started")
      OBVIOUS
    <2>3. server'.session = "replay"
      BY <1>2 DEF Fresh
    <2> HIDE DEF ms
    <2>4. Silent(ms, OfType({"solving"})) /\ \A k : Silent(ms, Opens(k))
      BY <2>2, IsKinds, SilentOf
    <2>5. Is("replay.started") \in EndsSolving /\ \A k \in Nat : Is("replay.started") \in EndsPicker(k)
      BY IsKinds DEF SolvingEnds, PickerTypes
    <2>6. Ending(ms, OfType({"solving"}), EndsSolving) /\ \A k \in Nat : Ending(ms, Opens(k), EndsPicker(k))
      BY <2>2, <2>4, <2>5, EndingOf
    <2>7. Tells(server, server', ms)
      BY <2>3, <2>6 DEF Tells, Told, Opens
    <2>8. QED
      BY <1>1, <1>2, <2>1, <2>7, EmitScreen DEF ms
  <1>3. CASE Emit(<<Is("error")>>)
    BY <1>1, <1>3, ErrorScreen
  <1>4. QED
    BY <1>2, <1>3 DEF ReplayReady

\* A replay asked to stop.
LEMMA StopReplayScreen ==
    ASSUME IInv, GapInv, ScreenInv, StopReplayCommand
    PROVE  GapInv' /\ ScreenInv'
  <1>1. UNCHANGED <<attached, transport, last, warned, screen>>
    BY DEF StopReplayCommand, Other, Rest, clientVars
  <1>2. CASE Quiet /\ UNCHANGED server
    BY <1>1, <1>2, QuietScreen DEF Quiet
  <1>3. CASE /\ server.session = "replay" /\ Emit(<<Is("replay.stopping")>>)
             /\ server' = [server EXCEPT !.doing = "stopReplay"]
    <2> DEFINE ms == <<Is("replay.stopping")>>
    <2>1. ms \in Seq(Report)
      BY ReportTypes DEF Reports
    <2>2. ms \in Seq({Is("replay.stopping")})
      OBVIOUS
    <2>3. server.doing = "idle" /\ server \in ServerRec
      BY DEF StopReplayCommand, Command, IInv, ScreenTypes
    <2>4. /\ server'.session = server.session /\ server'.pending = server.pending /\ server'.lock = server.lock
      BY <1>3, <2>3 DEF ServerRec
    <2> HIDE DEF ms
    <2>5. /\ Silent(ms, OfType({"replay.running"})) /\ Silent(ms, OfType({"solving"}))
          /\ \A k : Silent(ms, Opens(k))
      BY <2>2, IsKinds, SilentOf
    <2>6. ms \in Seq(Msg)
      BY <2>1, ReportFacts
    <2>7. Tells(server, server', ms)
      BY <1>3, <2>3, <2>4, <2>5, <2>6, SameTells
    <2>8. QED
      BY <1>1, <1>3, <2>1, <2>7, EmitScreen DEF ms
  <1>4. QED
    BY <1>2, <1>3 DEF StopReplayCommand

\* A replay that is over.
LEMMA ReplayOverScreen ==
    ASSUME IInv, GapInv, ScreenInv, ReplayOver
    PROVE  GapInv' /\ ScreenInv'
  <1> DEFINE t == IF server.doing = "idle" THEN "replay.completed" ELSE "replay.stopped"
             ms == <<Is(t), Is("recording")>>
  <1>1. UNCHANGED <<attached, transport, last, warned, screen>> /\ Emit(ms)
    BY DEF ReplayOver, Other, Rest, clientVars
  <1>2. /\ server \in ServerRec /\ server.doing \in {"idle", "stopReplay"}
        /\ server' = [server EXCEPT !.session = "recording", !.doing = "idle"]
    BY ServerFacts DEF ReplayOver
  <1>3. /\ server'.session = "recording" /\ server'.pending = server.pending /\ server'.lock = server.lock
    BY <1>2 DEF ServerRec
  <1>4. t \in {"replay.completed", "replay.stopped"}
    OBVIOUS
  <1> HIDE DEF t
  <1>5. ms \in Seq(Report)
    <2>1. t \in Reports /\ "recording" \in Reports
      BY <1>4 DEF Reports
    <2>2. QED
      BY <2>1, ReportTypes
  <1>6. ms \in Seq({Is(t), Is("recording")}) /\ 1 \in DOMAIN ms /\ ms[1] = Is(t)
    OBVIOUS
  <1> HIDE DEF ms
  <1>7. /\ Silent(ms, OfType({"replay.running"})) /\ Silent(ms, OfType({"solving"}))
        /\ \A k : Silent(ms, Opens(k))
    BY <1>4, <1>6, IsKinds, SilentOf
  <1>8. Ending(ms, OfType({"replay.running"}), EndsRunning)
    <2>1. Is(t) \in EndsRunning
      BY <1>4, IsKinds DEF RunningEnds
    <2>2. QED
      BY <1>6, <1>7, <2>1, EndingOf
  <1>9. Tells(server, server', ms)
    BY <1>2, <1>3, <1>7, <1>8 DEF Tells, Told, Opens
  <1>10. QED
    BY <1>1, <1>5, <1>9, EmitScreen


\* The first of two sequences has one element: that comes first.
LEMMA FirstOf ==
    ASSUME NEW T, NEW a \in Seq(T), NEW b \in Seq(T), Len(a) = 1
    PROVE  1 \in DOMAIN (a \o b) /\ (a \o b)[1] = a[1]
  <1>1. /\ Len(a \o b) = Len(a) + Len(b) /\ a \o b \in Seq(T)
        /\ \A i \in 1 .. Len(a) + Len(b) : (a \o b)[i] = IF i <= Len(a) THEN a[i] ELSE b[i - Len(a)]
    BY ConcatProperties
  <1>2. Len(b) \in Nat /\ DOMAIN (a \o b) = 1 .. Len(a \o b)
    BY <1>1
  <1>3. QED
    BY <1>1, <1>2

\* The open picker closes, and another may open.
LEMMA ClosedScreen ==
    ASSUME IInv, GapInv, ScreenInv, NEW rest \in Seq(Report), NEW S, rest \in Seq(S), Emit(Closed \o rest),
           \A m \in S : m \notin MakesLive /\ m \notin OfType({"replay.running"}) /\ m \notin OfType({"solving"})
                         /\ \A k : m \in Opens(k) => k = server'.pending,
           server'.session = server.session, server'.lock = server.lock, server'.doing = server.doing,
           server.doing = "idle", UNCHANGED <<attached, transport, last, warned, screen>>
    PROVE  GapInv' /\ ScreenInv'
  <1> DEFINE ms == Closed \o rest
             T == S \cup {Of("closed", server.pending)}
  <1>1. server.pending \in Nat /\ Closed \in Seq(Report)
    BY ServerFacts
  <1>2. ms \in Seq(Report)
    BY <1>1
  <1>3. ms \in Seq(T)
    <2>1. Closed \in Seq(T)
      <3>1. CASE server.pending = NoPicker
        BY <3>1 DEF Closed
      <3>2. CASE server.pending # NoPicker
        BY <3>2 DEF Closed
      <3>3. QED
        BY <3>1, <3>2
    <2>2. rest \in Seq(T)
      OBVIOUS
    <2> HIDE DEF T
    <2>3. QED
      BY <2>1, <2>2
  <1>4. \A m \in T : /\ m \notin MakesLive /\ m \notin OfType({"replay.running"}) /\ m \notin OfType({"solving"})
                     /\ \A k : m \in Opens(k) => k = server'.pending
    <2>1. /\ Of("closed", server.pending) \notin MakesLive
          /\ Of("closed", server.pending) \notin OfType({"replay.running"})
          /\ Of("closed", server.pending) \notin OfType({"solving"})
          /\ \A k : Of("closed", server.pending) \notin Opens(k)
      BY <1>1, OfKinds
    <2>2. QED
      BY <2>1
  <1>5. ASSUME NEW k \in 1 .. MaxEvents, server.pending = k
        PROVE  \E i \in DOMAIN ms : ms[i] = Of("closed", k)
    <2>1. Len(Closed) = 1 /\ Closed[1] = Of("closed", k)
      BY <1>5 DEF Closed, NoPicker
    <2>2. 1 \in DOMAIN ms /\ ms[1] = Closed[1]
      BY <1>1, <2>1, FirstOf
    <2>3. QED
      BY <2>1, <2>2
  <1> HIDE DEF ms, T
  <1>6. /\ Silent(ms, OfType({"replay.running"})) /\ Silent(ms, OfType({"solving"})) /\ Silent(ms, MakesLive)
        /\ \A k : k # server'.pending => Silent(ms, Opens(k))
    BY <1>3, <1>4, SilentOf
  <1>7. ASSUME NEW k \in 1 .. MaxEvents, server'.pending # k, server.pending = k
        PROVE  Ending(ms, Opens(k), EndsPicker(k))
    <2>1. PICK i \in DOMAIN ms : ms[i] = Of("closed", k)
      BY <1>5, <1>7
    <2>2. Of("closed", k) \in EndsPicker(k)
      BY OfKinds
    <2>3. QED
      BY <1>6, <1>7, <2>1, <2>2, EndingOf
  <1>8. Tells(server, server', ms)
    BY <1>6, <1>7 DEF Tells, Told, Opens
  <1>9. QED
    BY <1>2, <1>8, EmitScreen DEF ms

\* A picked or dismissed picker.
LEMMA PickScreen ==
    ASSUME IInv, GapInv, ScreenInv, PickCommand
    PROVE  GapInv' /\ ScreenInv'
  <1>1. UNCHANGED <<attached, transport, last, warned, screen>>
    BY DEF PickCommand, Other, Rest, clientVars
  <1>2. CASE Quiet /\ UNCHANGED server
    BY <1>1, <1>2, QuietScreen DEF Quiet
  <1>3. CASE /\ server' = [server EXCEPT !.pending = NoPicker]
             /\ \E error \in BOOLEAN : Emit(Closed \o (IF error THEN <<Is("error")>> ELSE <<>>))
    <2>1. PICK error \in BOOLEAN : Emit(Closed \o (IF error THEN <<Is("error")>> ELSE <<>>))
      BY <1>3
    <2> DEFINE rest == IF error THEN <<Is("error")>> ELSE <<>>
    <2>2. rest \in Seq(Report) /\ rest \in Seq({Is("error")})
      <3>1. Is("error") \in Report
        BY ReportTypes DEF Reports
      <3>2. CASE error
        BY <3>1, <3>2
      <3>3. CASE ~error
        BY <3>3
      <3>4. QED
        BY <3>2, <3>3
    <2>3. \A m \in {Is("error")} : m \notin MakesLive /\ m \notin OfType({"replay.running"})
                                   /\ m \notin OfType({"solving"}) /\ \A k : m \notin Opens(k)
      BY IsKinds DEF LiveTypes
    <2> HIDE DEF rest
    <2>4. server.doing = "idle"
      BY DEF PickCommand, Command
    <2>5. Emit(Closed \o rest)
      BY <2>1 DEF rest
    <2>6. /\ server'.session = server.session /\ server'.lock = server.lock
          /\ server'.doing = server.doing /\ server'.pending = NoPicker
      BY <1>3, ServerFacts DEF ServerRec
    <2>7. QED
      BY <1>1, <2>2, <2>3, <2>4, <2>5, <2>6, ClosedScreen
  <1>4. QED
    BY <1>2, <1>3 DEF PickCommand

\* A captcha that is over, by the user or by itself.
LEMMA SolvedScreen ==
    ASSUME IInv, GapInv, ScreenInv, Emit(<<Is("solved")>>), server' = [server EXCEPT !.lock = FALSE],
           server.doing = "idle", UNCHANGED <<attached, transport, last, warned, screen>>
    PROVE  GapInv' /\ ScreenInv'
  <1> DEFINE ms == <<Is("solved")>>
  <1>1. ms \in Seq(Report)
    BY ReportTypes DEF Reports
  <1>2. ms \in Seq({Is("solved")}) /\ 1 \in DOMAIN ms /\ ms[1] = Is("solved")
    OBVIOUS
  <1> HIDE DEF ms
  <1>3. /\ Silent(ms, OfType({"replay.running"})) /\ Silent(ms, OfType({"solving"})) /\ Silent(ms, MakesLive)
        /\ \A k : Silent(ms, Opens(k))
    BY <1>2, IsKinds, SilentOf DEF LiveTypes
  <1>4. Ending(ms, OfType({"solving"}), EndsSolving)
    <2>1. Is("solved") \in EndsSolving
      BY IsKinds DEF SolvingEnds
    <2>2. QED
      BY <1>2, <1>3, <2>1, EndingOf
  <1>5. /\ server'.session = server.session /\ server'.pending = server.pending /\ server'.doing = server.doing
    BY ServerFacts DEF ServerRec
  <1>6. Tells(server, server', ms)
    BY <1>3, <1>4, <1>5 DEF Tells, Told, Opens
  <1>7. QED
    BY <1>1, <1>6, EmitScreen DEF ms

\* A captcha that the user has solved, or none.
LEMMA ContinueScreen ==
    ASSUME IInv, GapInv, ScreenInv, ContinueCommand
    PROVE  GapInv' /\ ScreenInv'
  <1>1. UNCHANGED <<attached, transport, last, warned, screen>> /\ server.doing = "idle"
    BY DEF ContinueCommand, Command, Other, Rest, clientVars
  <1>2. CASE Quiet /\ UNCHANGED server
    BY <1>1, <1>2, QuietScreen DEF Quiet
  <1>3. CASE Emit(<<Is("solved")>>) /\ server' = [server EXCEPT !.lock = FALSE]
    BY <1>1, <1>3, SolvedScreen
  <1>4. QED
    BY <1>2, <1>3 DEF ContinueCommand

\* A captcha that the page has solved.
LEMMA CaptchaSolvedScreen ==
    ASSUME IInv, GapInv, ScreenInv, CaptchaSolved
    PROVE  GapInv' /\ ScreenInv'
  BY SolvedScreen DEF CaptchaSolved, Other, Rest, clientVars

\* A picker that opens in the place of another.
LEMMA PickerOpensScreen ==
    ASSUME IInv, GapInv, ScreenInv, PickerOpens
    PROVE  GapInv' /\ ScreenInv'
  <1> DEFINE rest == <<Of("open", events + 1)>>
  <1>1. /\ UNCHANGED <<attached, transport, last, warned, screen>> /\ Emit(Closed \o rest)
        /\ server.doing = "idle" /\ server' = [server EXCEPT !.pending = events + 1]
    BY DEF PickerOpens, BrowserEvent, clientVars
  <1>2. events + 1 \in 0 .. MaxEvents /\ events + 1 \in Nat
    BY ServerFacts DEF PickerOpens, BrowserEvent
  <1>3. rest \in Seq(Report) /\ rest \in Seq({Of("open", events + 1)})
    BY <1>2, ReportTypes
  <1>4. \A m \in {Of("open", events + 1)} : m \notin MakesLive /\ m \notin OfType({"replay.running"})
                                            /\ m \notin OfType({"solving"}) /\ \A k : m \in Opens(k) => k = events + 1
    BY <1>2, OfKinds
  <1>5. /\ server'.session = server.session /\ server'.lock = server.lock
        /\ server'.doing = server.doing /\ server'.pending = events + 1
    BY <1>1, ServerFacts DEF ServerRec
  <1> HIDE DEF rest
  <1>6. QED
    BY <1>1, <1>3, <1>4, <1>5, ClosedScreen

\* A picker the page closes.
LEMMA PickerClosesScreen ==
    ASSUME IInv, GapInv, ScreenInv, PickerCloses
    PROVE  GapInv' /\ ScreenInv'
  <1>1. /\ UNCHANGED <<attached, transport, last, warned, screen>> /\ Emit(Closed)
        /\ server.doing = "idle" /\ server' = [server EXCEPT !.pending = NoPicker]
    BY DEF PickerCloses, BrowserEvent, clientVars
  <1>2. Emit(Closed \o <<>>)
    <2>1. Closed \o <<>> = Closed
      BY ServerFacts
    <2>2. QED
      BY <1>1, <2>1, Zenon
  <1> DEFINE rest == <<>>
             none == {}
  <1>3. /\ rest \in Seq(Report) /\ rest \in Seq(none) /\ Emit(Closed \o rest)
        /\ \A m \in none : m \notin MakesLive /\ m \notin OfType({"replay.running"}) /\ m \notin OfType({"solving"})
                            /\ \A k : m \in Opens(k) => k = server'.pending
    BY <1>2
  <1>4. /\ server'.session = server.session /\ server'.lock = server.lock
        /\ server'.doing = server.doing /\ server'.pending = NoPicker
    BY <1>1, ServerFacts DEF ServerRec
  <1> HIDE DEF rest, none
  <1>5. QED
    BY <1>1, <1>3, <1>4, ClosedScreen

\* A captcha seen: the picker goes, and no other claim is about more than before.
LEMMA CaptchaSeenScreen ==
    ASSUME IInv, GapInv, ScreenInv, CaptchaSeen
    PROVE  GapInv' /\ ScreenInv'
  <1> DEFINE ms == Closed \o <<Is("solving")>>
             S == {Of("closed", server.pending), Is("solving")}
  <1>1. /\ UNCHANGED <<attached, transport, last, warned, screen>> /\ Emit(ms)
        /\ server' = [server EXCEPT !.lock = TRUE, !.pending = NoPicker]
    BY DEF CaptchaSeen, BrowserEvent, clientVars
  <1>2. ms \in Seq(Report)
    <2>1. Is("solving") \in Report
      BY ReportTypes DEF Reports
    <2>2. QED
      BY <2>1, ServerFacts
  <1>3. server'.session = server.session /\ server'.lock = TRUE
    BY <1>1, ServerFacts DEF ServerRec
  <1>4. ms \in Seq(S) /\ \E i \in DOMAIN ms : ms[i] = Is("solving")
    <2>1. Closed \in Seq(S)
      <3>1. CASE server.pending = NoPicker
        BY <3>1 DEF Closed
      <3>2. CASE server.pending # NoPicker
        BY <3>2 DEF Closed
      <3>3. QED
        BY <3>1, <3>2
    <2>2. ms \in Seq(S)
      BY <2>1
    <2>3. Len(Closed) + 1 \in DOMAIN ms /\ ms[Len(Closed) + 1] = Is("solving")
      BY <2>1
    <2>4. QED
      BY <2>2, <2>3
  <1>5. /\ \A m \in S : m \notin MakesLive /\ m \notin OfType({"replay.running"}) /\ \A k : m \notin Opens(k)
    <2>1. server.pending \in Nat
      BY ServerFacts
    <2>2. QED
      BY <2>1, IsKinds, OfKinds DEF LiveTypes
  <1> HIDE DEF ms, S
  <1>6. Silent(ms, OfType({"replay.running"})) /\ Silent(ms, MakesLive) /\ \A k : Silent(ms, Opens(k))
    BY <1>4, <1>5, SilentOf
  <1>7. \A k \in Nat : Ending(ms, Opens(k), EndsPicker(k))
    <2>1. \A k \in Nat : Is("solving") \in EndsPicker(k)
      BY IsKinds DEF PickerTypes
    <2>2. QED
      BY <1>4, <1>6, <2>1, EndingOf
  <1>8. Tells(server, server', ms)
    BY <1>3, <1>6, <1>7 DEF Tells, Told, Opens
  <1>9. QED
    BY <1>1, <1>2, <1>8, EmitScreen


\* An action recorded.
LEMMA ActionScreen ==
    ASSUME IInv, GapInv, ScreenInv, ActionRecorded
    PROVE  GapInv' /\ ScreenInv'
  <1> DEFINE new == Len(emitted) + 1
             ms == <<Of("action", new)>>
  <1>1. Emit(ms) /\ server' = server /\ UNCHANGED <<attached, transport, last, warned, screen>>
        /\ server.doing = "idle"
    BY DEF ActionRecorded, clientVars
  <1>2. Len(emitted) \in Nat /\ new \in Nat
    BY DEF IInv, ChannelTypes
  <1>3. Of("action", new) \in Msg /\ Of("action", new).type = "action"
    <2>1. "action" \in MsgType
      BY DEF MsgType
    <2>2. QED
      BY <1>2, <2>1, OfTypes
  <1>4. ms \in Seq(Msg) /\ NoGaps(ms) /\ News(ms, Len(emitted), new)
    <2>1. ms \in Seq(Msg) /\ ms[1] = Of("action", new) /\ DOMAIN ms = {1}
      BY <1>3
    <2>2. NoGaps(ms)
      BY <1>3, <2>1 DEF NoGaps
    <2>3. QED
      BY <1>2, <2>1, <2>2 DEF News
  <1>5. ms \in Seq({Of("action", new)})
    OBVIOUS
  <1>6. Of("action", new) \notin MakesLive /\ Of("action", new) \notin OfType({"replay.running"})
        /\ Of("action", new) \notin OfType({"solving"}) /\ \A k : Of("action", new) \notin Opens(k)
    BY <1>2, OfKinds
  <1> HIDE DEF ms
  <1>7. /\ Silent(ms, OfType({"replay.running"})) /\ Silent(ms, OfType({"solving"})) /\ Silent(ms, MakesLive)
        /\ \A k : Silent(ms, Opens(k))
    BY <1>5, <1>6, SilentOf
  <1>8. Tells(server, server', ms)
    BY <1>1, <1>4, <1>7, SameTells
  <1>9. buffer \in Seq(Entry) /\ seq \in Nat
    BY ComingFacts
  <1>10. Grown(buffer, seq, ms) \in Seq(Entry)
    BY <1>4, <1>9, GrownFacts
  <1>11. buffer' = Kept(Grown(buffer, seq, ms)) /\ seq' = seq + Len(ms)
         /\ inbox' = IF attached THEN Grown(inbox, seq, ms) ELSE inbox
    BY <1>1 DEF Emit, Grown
  <1>12. EndOf(buffer', Grown(buffer, seq, ms))
    BY <1>10, <1>11, KeptFacts
  <1>13. QED
    BY <1>1, <1>2, <1>4, <1>8, <1>11, <1>12, SendScreen

-----------------------------------------------------------------------------
(* The connection and the client *)

\* What is sent again is what is to come for a client that is not attached.
LEMMA ResentComing ==
    ASSUME IInv, ~attached
    PROVE  Coming = {Resent(last, buffer)[i] : i \in DOMAIN Resent(last, buffer)}
  <1> DEFINE r == Resent(last, buffer)
  <1>1. IsBuffer(buffer, seq) /\ DOMAIN buffer = 1 .. Len(buffer) /\ Len(buffer) \in Nat /\ seq \in Nat /\ last \in Nat
    BY ComingFacts
  <1>2. r \in Seq(Entry)
    BY <1>1, ResentFacts
  <1>3. PICK f \in 1 .. Len(buffer) + 1 :
          /\ Len(r) = Len(buffer) + 1 - f
          /\ \A j \in 1 .. Len(buffer) : buffer[j].n > last <=> j >= f
          /\ \A i \in 1 .. Len(r) : (f - 1) + i \in 1 .. Len(buffer) /\ r[i] = buffer[(f - 1) + i]
    BY <1>1, ResentFacts
  <1>4. DOMAIN r = 1 .. Len(r)
    BY <1>2
  <1> HIDE DEF r
  <1>5. Coming = {e \in {buffer[j] : j \in DOMAIN buffer} : e.n > last}
    BY DEF Coming
  <1>6. ASSUME NEW i \in DOMAIN r
        PROVE  r[i] \in Coming
    <2>1. (f - 1) + i \in 1 .. Len(buffer) /\ r[i] = buffer[(f - 1) + i]
      BY <1>3, <1>4
    <2>2. (f - 1) + i >= f
      BY <1>1, <1>3, <1>4
    <2>3. r[i].n > last
      BY <1>3, <2>1, <2>2
    <2>4. QED
      BY <1>1, <1>5, <2>1, <2>3
  <1>7. ASSUME NEW e \in Coming
        PROVE  \E i \in DOMAIN r : r[i] = e
    <2>1. PICK j \in DOMAIN buffer : e = buffer[j] /\ e.n > last
      BY <1>5
    <2>2. j >= f /\ j \in 1 .. Len(buffer)
      BY <1>1, <1>3, <2>1
    <2>3. j - f + 1 \in 1 .. Len(r) /\ (f - 1) + (j - f + 1) = j
      BY <1>1, <1>3, <2>2
    <2>4. r[j - f + 1] = buffer[j]
      BY <1>3, <2>3
    <2>5. QED
      BY <1>4, <2>1, <2>3, <2>4
  <1>8. QED
    BY <1>6, <1>7 DEF r

\* A hello that is answered: what is to come is the same, and server.ready.
LEMMA HelloScreen ==
    ASSUME IInv, GapInv, ScreenInv, Hello
    PROVE  GapInv' /\ ScreenInv'
  <1> DEFINE rd == <<Is("server.ready")>>
             r == Resent(last, buffer)
  <1>1. ChannelTypes /\ ConnectionInv /\ OrderInv /\ LossInv
    BY DEF IInv
  <1>2. /\ TooLate(last, buffer) => TooLate(last, buffer') /\ inbox' # <<>> /\ IsGap(inbox'[1])
        /\ ~TooLate(last, buffer) => inbox' = Grown(r, seq, rd)
    BY <1>1, HelloStep
  <1>3. /\ attached' = TRUE /\ UNCHANGED <<server, transport, last, warned, screen>>
    BY DEF Hello, clientVars
  <1>4. ~attached /\ transport = "connected"
    <2>1. outbox # <<>> /\ Head(outbox).type = "client.hello" /\ 1 \in DOMAIN outbox /\ Head(outbox) = outbox[1]
      BY <1>1 DEF Hello, ChannelTypes
    <2>2. QED
      BY <1>1, <2>1 DEF ConnectionInv, ChannelTypes
  <1>5. IsBuffer(buffer, seq) /\ seq \in Nat /\ last \in Nat /\ last <= seq
        /\ Coming \in SUBSET Entry /\ \A e \in Coming : e.n <= seq
    <2>1. last <= seq
      BY <1>1, <1>4 DEF ConnectionInv
    <2>2. QED
      BY <2>1, ComingFacts
  <1>6. r \in Seq(Entry)
    BY <1>5, ResentFacts
  <1>7. rd \in Seq(Msg) /\ rd \in Seq({Is("server.ready")}) /\ NoGaps(rd)
    BY MsgTypes DEF NoGaps
  <1>8. Coming = {r[i] : i \in DOMAIN r}
    BY <1>4, ResentComing
  <1> HIDE DEF r, rd
  <1>9. GapInv'
    <2>1. SUFFICES ASSUME ~warned, inbox' # <<>>, IsGap(inbox'[1]), ~TooLate(last, buffer)
                   PROVE  FALSE
      BY <1>2, <1>3 DEF GapInv
    <2>2. NoGap(buffer, last) /\ Holds(buffer, last, steps, Len(emitted))
      BY <1>1, <1>4, <2>1 DEF LossInv, Covers
    <2>3. NoGap(r, last) /\ \A i \in DOMAIN r : r[i].n = last + i
      BY <1>5, <2>1, <2>2, ResentAll DEF r
    <2>4. \A i \in DOMAIN r : ~IsGap(r[i])
      BY <1>5, <1>6, <2>3 DEF NoGap
    <2>5. inbox' = Grown(r, seq, rd)
      BY <1>2, <2>1
    <2>6. 1 \in DOMAIN inbox'
      <3>1. Grown(r, seq, rd) \in Seq(Entry)
        BY <1>5, <1>6, <1>7, GrownFacts
      <3>2. QED
        BY <2>1, <2>5, <3>1
    <2>7. CASE 1 \in DOMAIN r /\ inbox'[1] = r[1]
      BY <2>1, <2>4, <2>7
    <2>8. CASE \E j \in 1 .. Len(rd) : inbox'[1].m = rd[j]
      BY <1>7, <2>1, <2>8 DEF NoGaps, IsGap
    <2>9. QED
      BY <1>5, <1>6, <1>7, <2>5, <2>6, <2>7, <2>8, GrownCases
  <1>10. ScreenInv'
    <2>1. SUFFICES ASSUME Reached'
                   PROVE  Accounted(server', Coming', screen')
      BY DEF ScreenInv
    <2>2. ~TooLate(last, buffer) /\ ~warned
      BY <1>2, <1>3, <2>1 DEF Reached
    <2>3. Reached
      BY <1>4, <2>2 DEF Reached
    <2>4. Coming' = Coming \cup Sent(seq, rd)
      <3>1. Coming' = {inbox'[i] : i \in DOMAIN inbox'}
        BY <1>3 DEF Coming
      <3>2. inbox' = Grown(r, seq, rd)
        BY <1>2, <2>2
      <3>3. Coming' = {Grown(r, seq, rd)[i] : i \in DOMAIN Grown(r, seq, rd)}
        BY <3>1, <3>2, Zenon
      <3>4. {Grown(r, seq, rd)[i] : i \in DOMAIN Grown(r, seq, rd)} = {r[i] : i \in DOMAIN r} \cup Sent(seq, rd)
        BY <1>5, <1>6, <1>7, GrownRange
      <3>5. QED
        BY <1>8, <3>3, <3>4, Zenon
    <2>5. /\ Silent(rd, OfType({"replay.running"})) /\ Silent(rd, OfType({"solving"})) /\ Silent(rd, MakesLive)
          /\ \A k : Silent(rd, Opens(k))
      BY <1>7, IsKinds, SilentOf DEF LiveTypes
    <2>6. Tells(server, server', rd)
      BY <1>3, <2>5 DEF Tells, Told, Opens
    <2>7. Accounted(server, Coming, screen)
      BY <2>3 DEF ScreenInv
    <2>8. Accounted(server', Coming \cup Sent(seq, rd), screen)
      BY <1>5, <1>7, <2>6, <2>7, TellsAccounts
    <2>9. QED
      BY <1>3, <2>4, <2>8
  <1>11. QED
    BY <1>9, <1>10


\* What the screen shows once m is handled it showed before, and m does not end
\* it, or m shows it.
ShowsLess(s, r, m) ==
    /\ Live(r) => (Live(s) /\ m.type \notin LiveEnds) \/ m.type \in LiveTypes
    /\ r.replay = "running" => (s.replay = "running" /\ m.type \notin RunningEnds) \/ m.type = "replay.running"
    /\ \A k \in 1 .. MaxEvents : r.picker = k /\ ~r.alert =>
         \/ m.type = "open" /\ m.id = k
         \/ /\ s.picker = k /\ ~s.alert /\ m.type \notin PickerTypes
            /\ ~(m.type = "closed" /\ m.id = k) /\ ~(m.type = "open" /\ m.id # k)
    /\ r.solving => (s.solving /\ m.type \notin SolvingEnds) \/ m.type = "solving"

ReplayTypes == {"replay.preparing", "replay.running", "replay.completed", "replay.stopping", "replay.stopped"}

\* A message handled (handleServerMessage).
LEMMA ShownFacts ==
    ASSUME NEW s \in Screen, NEW m \in Msg
    PROVE  ShowsLess(s, Shown(s, m), m)
  <1> DEFINE t == m.type
             r == Shown(s, m)
  <1>1. DOMAIN ReplayStatus = ReplayTypes
    BY DEF ReplayStatus, ReplayTypes
  <1>2. CASE t \in Statuses
    <2>1. r = [s EXCEPT !.status = t]
      <3>1. SessionShown(s, m) = [s EXCEPT !.status = t]
        BY <1>2 DEF SessionShown, Statuses
      <3>2. OverlayShown([s EXCEPT !.status = t], m) = [s EXCEPT !.status = t]
        BY <1>2 DEF OverlayShown, Statuses
      <3>3. ReplayShown([s EXCEPT !.status = t], m) = [s EXCEPT !.status = t]
        BY <1>1, <1>2 DEF ReplayShown, ReplayTypes, Statuses
      <3>4. QED
        BY <3>1, <3>2, <3>3 DEF Shown
    <2>2. QED
      BY <1>2, <2>1 DEF Statuses, Screen, ShowsLess, Live, LiveTypes, LiveEnds, RunningEnds, PickerTypes, SolvingEnds
  <1>3. CASE t \in {"started", "stopped"}
    <2>1. OverlayShown(SessionShown(s, m), m) = SessionShown(s, m)
      BY <1>3 DEF OverlayShown
    <2>2. ReplayShown(SessionShown(s, m), m) = SessionShown(s, m)
      BY <1>1, <1>3 DEF ReplayShown, ReplayTypes
    <2>3. r = SessionShown(s, m)
      BY <2>1, <2>2 DEF Shown
    <2>4. CASE t = "started"
      <3>1. r = [Without(s) EXCEPT !.live = TRUE, !.solving = FALSE, !.alert = FALSE]
        BY <2>3, <2>4 DEF SessionShown, Statuses
      <3>2. QED
        BY <2>4, <3>1 DEF Without, NoPicker, Screen, ShowsLess, Live, LiveTypes, LiveEnds, RunningEnds, PickerTypes,
                          SolvingEnds
    <2>5. CASE t = "stopped"
      <3>1. r = [Without(Settled(s, "resolved")) EXCEPT !.status = "stopped", !.live = FALSE, !.solving = FALSE]
        BY <2>3, <2>5 DEF SessionShown, Statuses
      <3>2. QED
        BY <2>5, <3>1 DEF Without, Settled, NoPicker, Screen, ShowsLess, Live, LiveTypes, LiveEnds, RunningEnds,
                          PickerTypes, SolvingEnds
    <2>6. QED
      BY <1>3, <2>4, <2>5
  <1>4. CASE t \in {"open", "closed", "solving", "solved", "cancelled"}
    <2>1. SessionShown(s, m) = s
      BY <1>4 DEF SessionShown, Statuses
    <2>2. ReplayShown(OverlayShown(s, m), m) = OverlayShown(s, m)
      BY <1>1, <1>4 DEF ReplayShown, ReplayTypes
    <2>3. r = OverlayShown(s, m)
      BY <2>1, <2>2 DEF Shown
    <2>4. CASE t = "open"
      <3>1. r = [s EXCEPT !.picker = m.id]
        BY <2>3, <2>4 DEF OverlayShown
      <3>2. QED
        BY <2>4, <3>1 DEF Screen, ShowsLess, Live, LiveTypes, LiveEnds, RunningEnds, PickerTypes, SolvingEnds
    <2>5. CASE t = "closed"
      <3>1. r = IF s.picker = m.id THEN Without(s) ELSE s
        BY <2>3, <2>5 DEF OverlayShown, ClosesOnly
      <3>2. QED
        BY <2>5, <3>1 DEF Without, NoPicker, Screen, ShowsLess, Live, LiveTypes, LiveEnds, RunningEnds, PickerTypes,
                          SolvingEnds
    <2>6. CASE t = "solving"
      <3>1. r = [Without(s) EXCEPT !.solving = TRUE]
        BY <2>3, <2>6 DEF OverlayShown
      <3>2. QED
        BY <2>6, <3>1 DEF Without, NoPicker, Screen, ShowsLess, Live, LiveTypes, LiveEnds, RunningEnds, PickerTypes,
                          SolvingEnds
    <2>7. CASE t \in {"solved", "cancelled"}
      <3>1. r = [s EXCEPT !.solving = FALSE]
        BY <2>3, <2>7 DEF OverlayShown
      <3>2. QED
        BY <2>7, <3>1 DEF Screen, ShowsLess, Live, LiveTypes, LiveEnds, RunningEnds, PickerTypes, SolvingEnds
    <2>8. QED
      BY <1>4, <2>4, <2>5, <2>6, <2>7
  <1>5. CASE t \in ReplayTypes \cup {"replay.started", "buffer.gap", "error"}
    <2>1. SessionShown(s, m) = s /\ OverlayShown(s, m) = s
      BY <1>5 DEF SessionShown, OverlayShown, Statuses, ReplayTypes
    <2>2. r = ReplayShown(s, m)
      BY <2>1 DEF Shown
    <2>3. CASE t = "replay.started"
      <3>1. r = [Without(s) EXCEPT !.status = "recording", !.live = TRUE, !.solving = FALSE, !.alert = FALSE]
        BY <1>1, <2>2, <2>3 DEF ReplayShown, ReplayTypes
      <3>2. QED
        BY <2>3, <3>1 DEF Without, NoPicker, Screen, ShowsLess, Live, LiveTypes, LiveEnds, RunningEnds, PickerTypes,
                          SolvingEnds
    <2>4. CASE t \in ReplayTypes
      <3>1. r = [s EXCEPT !.replay = ReplayStatus[t]]
        BY <1>1, <2>2, <2>4 DEF ReplayShown, ReplayTypes
      <3>2. /\ t = "replay.preparing" => ReplayStatus[t] = "preparing"
            /\ t # "replay.running" => ReplayStatus[t] # "running"
        BY <2>4 DEF ReplayStatus, ReplayTypes
      <3>3. QED
        BY <2>4, <3>1, <3>2 DEF ReplayTypes, Screen, ShowsLess, Live, LiveTypes, LiveEnds, RunningEnds, PickerTypes,
                                SolvingEnds
    <2>5. CASE t = "buffer.gap"
      <3>1. r = [s EXCEPT !.alert = TRUE]
        BY <1>1, <2>2, <2>5 DEF ReplayShown, ReplayTypes
      <3>2. QED
        BY <2>5, <3>1 DEF Screen, ShowsLess, Live, LiveTypes, LiveEnds, RunningEnds, PickerTypes, SolvingEnds
    <2>6. CASE t = "error"
      <3>1. r = AfterError(s)
        BY <1>1, <2>2, <2>6 DEF ReplayShown, ReplayTypes
      <3>2. r.alert = TRUE /\ r.solving = FALSE /\ r.replay # "running"
        BY <3>1 DEF AfterError, Settled, Screen
      <3>3. QED
        BY <2>6, <3>2 DEF ShowsLess, Live
    <2>7. QED
      BY <1>5, <2>3, <2>4, <2>5, <2>6
  <1>6. CASE t \notin Statuses \cup {"started", "stopped", "open", "closed", "solving", "solved", "cancelled"}
                   \cup ReplayTypes \cup {"replay.started", "buffer.gap", "error"}
    <2>1. SessionShown(s, m) = s /\ OverlayShown(s, m) = s /\ ReplayShown(s, m) = s
      BY <1>1, <1>6 DEF SessionShown, OverlayShown, ReplayShown
    <2>2. r = s
      BY <2>1 DEF Shown
    <2>3. t \notin LiveEnds \cup RunningEnds \cup PickerTypes \cup SolvingEnds
      BY <1>6 DEF Statuses, ReplayTypes, LiveEnds, RunningEnds, PickerTypes, SolvingEnds
    <2>4. ShowsLess(s, s, m)
      BY <1>6, <2>3 DEF ShowsLess
    <2>5. QED
      BY <2>2, <2>4, Zenon
  <1>7. QED
    BY <1>2, <1>3, <1>4, <1>5, <1>6

\* The first of what is to come is handled.
LEMMA HandledAccounts ==
    ASSUME NEW C \in SUBSET Entry, NEW e \in C, \A f \in C \ {e} : f.n > e.n, NEW sv, NEW s, NEW r,
           Accounted(sv, C, s), ShowsLess(s, r, e.m)
    PROVE  Accounted(sv, C \ {e}, r)
  <1> DEFINE D == C \ {e}
  <1>1. e.m \in Msg /\ MaxEvents \in Nat
    BY ClientAssumption DEF Entry
  <1>2. /\ e.m \in MakesLive <=> e.m.type \in LiveTypes
        /\ e.m \in EndsLive <=> e.m.type \in LiveEnds
        /\ e.m \in OfType({"replay.running"}) <=> e.m.type = "replay.running"
        /\ e.m \in EndsRunning <=> e.m.type \in RunningEnds
        /\ e.m \in OfType({"solving"}) <=> e.m.type = "solving"
        /\ e.m \in EndsSolving <=> e.m.type \in SolvingEnds
    BY <1>1, Kinds DEF MakesLive, LiveTypes, EndsLive, LiveEnds, EndsRunning, RunningEnds, EndsSolving, SolvingEnds
  <1>3. ASSUME sv.session = "none"
        PROVE  Ends(D, Live(r), MakesLive, EndsLive)
    <2>1. Ends(C, Live(s), MakesLive, EndsLive)
      BY <1>3 DEF Accounted
    <2>2. Live(r) => (Live(s) /\ e.m \notin EndsLive) \/ e.m \in MakesLive
      BY <1>2 DEF ShowsLess
    <2>3. QED
      BY <2>1, <2>2, EndsHandled
  <1>4. ASSUME sv.session # "replay"
        PROVE  Ends(D, r.replay = "running", OfType({"replay.running"}), EndsRunning)
    <2> DEFINE a == s.replay = "running"
               b == r.replay = "running"
               T == OfType({"replay.running"})
    <2>1. Ends(C, a, T, EndsRunning)
      BY <1>4 DEF Accounted
    <2>2. b => (a /\ e.m \notin EndsRunning) \/ e.m \in T
      BY <1>2 DEF ShowsLess
    <2> HIDE DEF a, b, T
    <2>3. Ends(D, b, T, EndsRunning)
      BY <2>1, <2>2, EndsHandled
    <2>4. QED
      BY <2>3 DEF b, T
  <1>5. ASSUME NEW k \in 1 .. MaxEvents, sv.pending # k, sv.doing \notin {"stop", "restart", "replay"}
        PROVE  Ends(D, r.picker = k /\ ~r.alert, [type : {"open"}, id : {k}], EndsPicker(k))
    <2> DEFINE a == s.picker = k /\ ~s.alert
               b == r.picker = k /\ ~r.alert
               T == [type : {"open"}, id : {k}]
    <2>1. Ends(C, a, T, EndsPicker(k))
      BY <1>5 DEF Accounted
    <2>2. k \in Nat
      BY <1>1
    <2>3. b => (a /\ e.m \notin EndsPicker(k)) \/ e.m \in T
      BY <1>1, <2>2, PickerKinds DEF ShowsLess
    <2> HIDE DEF a, b, T
    <2>4. Ends(D, b, T, EndsPicker(k))
      BY <2>1, <2>3, EndsHandled
    <2>5. QED
      BY <2>4 DEF b, T
  <1>6. ASSUME ~sv.lock
        PROVE  Ends(D, r.solving, OfType({"solving"}), EndsSolving)
    <2>1. Ends(C, s.solving, OfType({"solving"}), EndsSolving)
      BY <1>6 DEF Accounted
    <2>2. r.solving => (s.solving /\ e.m \notin EndsSolving) \/ e.m \in OfType({"solving"})
      BY <1>2 DEF ShowsLess
    <2>3. QED
      BY <2>1, <2>2, EndsHandled
  <1> HIDE DEF D
  <1>7. QED
    BY <1>3, <1>4, <1>5, <1>6 DEF Accounted, D

\* A message handled: what it shows is ended by one to come, or is there still.
LEMMA ReceiveScreen ==
    ASSUME IInv, GapInv, ScreenInv, Receive
    PROVE  GapInv' /\ ScreenInv'
  <1> DEFINE e == inbox[1]
  <1>1. ChannelTypes /\ ConnectionInv /\ OrderInv /\ LossInv /\ screen \in Screen
    BY DEF IInv, ScreenTypes
  <1>2. /\ inbox # <<>> /\ 1 \in DOMAIN inbox /\ e \in Entry
        /\ attached /\ transport = "connected" /\ Len(inbox) \in Nat /\ Len(inbox) >= 1
        /\ inbox' \in Seq(Entry) /\ Len(inbox') = Len(inbox) - 1
        /\ \A i \in DOMAIN inbox' : i \in Nat /\ i + 1 \in DOMAIN inbox /\ inbox'[i] = inbox[i + 1]
        /\ warned' = (warned \/ IsGap(e)) /\ screen' = Shown(screen, e.m)
        /\ UNCHANGED <<server, seq, buffer, attached, transport>>
    BY <1>1, ReceiveFacts DEF serverVars
  <1>3. e.m \in Msg
    BY <1>2 DEF Entry
  <1>4. inbox \in Seq(Entry) /\ DOMAIN inbox = 1 .. Len(inbox) /\ DOMAIN inbox' = 1 .. Len(inbox')
        /\ Coming \in SUBSET Entry /\ last \in Nat
    BY <1>2, ComingFacts
  <1> HIDE DEF e
  <1>5. ASSUME ~warned'
        PROVE  /\ ~warned /\ ~IsGap(e) /\ Reached
               /\ \A i \in DOMAIN inbox : inbox[i].n = last + i /\ ~IsGap(inbox[i])
    <2>1. ~warned /\ ~IsGap(e)
      BY <1>2, <1>5
    <2>2. Reached
      BY <1>2, <2>1 DEF Reached, e
    <2>3. (\A i \in DOMAIN inbox : inbox[i].n = last + i) /\ NoGap(inbox, last)
      BY <1>1, <1>2, <2>1 DEF LossInv, e
    <2>4. \A i \in DOMAIN inbox : ~IsGap(inbox[i])
      BY <1>4, <2>3 DEF NoGap
    <2>5. QED
      BY <2>1, <2>2, <2>3, <2>4
  <1>6. GapInv'
    <2>1. SUFFICES ASSUME ~warned', inbox' # <<>>, IsGap(inbox'[1])
                   PROVE  FALSE
      BY DEF GapInv
    <2>2. 1 \in DOMAIN inbox'
      BY <1>2, <2>1
    <2>3. inbox'[1] = inbox[1 + 1] /\ 1 + 1 \in DOMAIN inbox
      BY <1>2, <2>2
    <2>4. QED
      BY <1>5, <2>1, <2>3
  <1>7. ScreenInv'
    <2>1. SUFFICES ASSUME Reached'
                   PROVE  Accounted(server', Coming', screen')
      BY DEF ScreenInv
    <2>2. ~warned'
      BY <2>1 DEF Reached
    <2>3. Reached /\ \A i \in DOMAIN inbox : inbox[i].n = last + i
      BY <1>5, <2>2
    <2>4. Coming = {inbox[i] : i \in DOMAIN inbox} /\ Coming' = {inbox'[i] : i \in DOMAIN inbox'}
      BY <1>2 DEF Coming
    <2>5. e \in Coming /\ e.n = last + 1
      BY <1>2, <2>3, <2>4 DEF e
    <2>6. \A f \in Coming \ {e} : f.n > e.n
      <3>1. SUFFICES ASSUME NEW i \in DOMAIN inbox, inbox[i] # e
                     PROVE  inbox[i].n > e.n
        BY <2>4
      <3>2. i # 1 /\ i \in 1 .. Len(inbox)
        BY <1>4, <3>1 DEF e
      <3>3. QED
        BY <1>2, <1>4, <2>3, <2>5, <3>2
    <2>7. Coming' = Coming \ {e}
      <3>1. ASSUME NEW i \in DOMAIN inbox'
            PROVE  inbox'[i] \in Coming \ {e}
        <4>1. i \in Nat /\ i >= 1 /\ i + 1 \in DOMAIN inbox /\ inbox'[i] = inbox[i + 1]
          BY <1>2, <1>4
        <4>2. inbox[i + 1].n = last + (i + 1)
          BY <2>3, <4>1
        <4>3. inbox[i + 1].n # e.n
          BY <1>4, <2>5, <4>1, <4>2
        <4>4. QED
          BY <2>4, <4>1, <4>3
      <3>2. ASSUME NEW i \in DOMAIN inbox, inbox[i] # e
            PROVE  \E j \in DOMAIN inbox' : inbox'[j] = inbox[i]
        <4>1. i # 1 /\ i \in 1 .. Len(inbox)
          BY <1>4, <3>2 DEF e
        <4>2. i - 1 \in DOMAIN inbox' /\ (i - 1) + 1 = i
          BY <1>2, <1>4, <4>1
        <4>3. inbox'[i - 1] = inbox[(i - 1) + 1]
          BY <1>2, <4>2
        <4>4. QED
          BY <4>2, <4>3
      <3>3. QED
        BY <2>4, <3>1, <3>2
    <2>8. Accounted(server, Coming, screen)
      BY <2>3 DEF ScreenInv
    <2>9. ShowsLess(screen, screen', e.m)
      BY <1>1, <1>2, <1>3, ShownFacts
    <2>10. Accounted(server, Coming \ {e}, screen')
      BY <1>1, <1>3, <1>4, <2>5, <2>6, <2>8, <2>9, HandledAccounts
    <2>11. QED
      BY <1>2, <2>7, <2>10
  <1>8. QED
    BY <1>6, <1>7


\* The screen shows no more than it did.
NoMore(s, r) ==
    /\ Live(r) => Live(s)
    /\ r.replay = "running" => s.replay = "running"
    /\ \A k \in 1 .. MaxEvents : r.picker = k /\ ~r.alert => s.picker = k /\ ~s.alert
    /\ r.solving => s.solving

\* What the client or its user does without the runtime only takes from the screen.
LEMMA LessScreen ==
    ASSUME GapInv, ScreenInv, NoMore(screen, screen'),
           UNCHANGED <<server, seq, buffer, inbox, attached, transport, last, warned>>
    PROVE  GapInv' /\ ScreenInv'
  <1>1. (Reached' <=> Reached) /\ Coming' = Coming
    BY DEF Reached, Coming
  <1>2. GapInv'
    BY DEF GapInv
  <1>3. ASSUME Reached
        PROVE  Accounted(server, Coming, screen')
    <2>1. Accounted(server, Coming, screen)
      BY <1>3 DEF ScreenInv
    <2>2. server.session = "none" => Ends(Coming, Live(screen'), MakesLive, EndsLive)
      BY <2>1, EndsLess DEF Accounted, NoMore
    <2>3. server.session # "replay" =>
            Ends(Coming, screen'.replay = "running", OfType({"replay.running"}), EndsRunning)
      BY <2>1 DEF Accounted, NoMore, Ends
    <2>4. ASSUME NEW k \in 1 .. MaxEvents, server.pending # k, server.doing \notin {"stop", "restart", "replay"}
          PROVE  Ends(Coming, screen'.picker = k /\ ~screen'.alert, [type : {"open"}, id : {k}], EndsPicker(k))
      BY <2>1, <2>4 DEF Accounted, NoMore, Ends
    <2>5. ~server.lock => Ends(Coming, screen'.solving, OfType({"solving"}), EndsSolving)
      BY <2>1 DEF Accounted, NoMore, Ends
    <2>6. QED
      BY <2>2, <2>3, <2>4, <2>5 DEF Accounted
  <1>4. QED
    BY <1>1, <1>2, <1>3 DEF ScreenInv

\* What the user does.
LEMMA UserScreen ==
    ASSUME IInv, GapInv, ScreenInv, User
    PROVE  GapInv' /\ ScreenInv'
  <1>1. screen \in Screen
    BY DEF IInv, ScreenTypes
  <1>2. UNCHANGED <<server, seq, buffer, inbox, attached, transport, last, warned>>
    BY DEF User, StartRecording, StopRecording, StopAndWait, StartReplay, StopReplay, Pick, ContinueAfterCaptcha,
           UserDoes, serverVars
  <1>3. NoMore(screen, screen')
    <2>1. CASE StartRecording
      <3>1. /\ screen'.status \in {"starting", "error"} /\ screen'.picker = NoPicker /\ ~screen'.solving
            /\ screen'.replay = screen.replay
        BY <1>1, <2>1 DEF StartRecording, UserDoes, Without, Screen
      <3>2. QED
        BY <3>1 DEF NoMore, Live, NoPicker
    <2>2. CASE StopRecording \/ StopAndWait
      <3>1. /\ screen'.status = "stopping" /\ screen'.picker = screen.picker /\ screen'.solving = screen.solving
            /\ screen'.replay = screen.replay /\ screen'.alert = screen.alert
        BY <1>1, <2>2 DEF StopRecording, StopAndWait, UserDoes, Screen
      <3>2. QED
        BY <3>1 DEF NoMore, Live
    <2>3. CASE StartReplay
      <3>1. /\ screen'.replay = "preparing" \/ (screen'.replay = "stopped" /\ screen'.alert)
            /\ screen'.picker = NoPicker /\ screen'.solving = screen.solving
        BY <1>1, <2>3 DEF StartReplay, UserDoes, Without, Screen
      <3>2. QED
        BY <3>1 DEF NoMore, Live, NoPicker
    <2>4. CASE StopReplay \/ ContinueAfterCaptcha
      BY <2>4 DEF StopReplay, ContinueAfterCaptcha, UserDoes, NoMore
    <2>5. CASE Pick
      <3>1. /\ screen'.status = screen.status /\ screen'.picker = NoPicker /\ screen'.solving = screen.solving
            /\ screen'.replay = screen.replay /\ screen'.alert = screen.alert
        BY <1>1, <2>5 DEF Pick, UserDoes, Without, Screen
      <3>2. QED
        BY <3>1 DEF NoMore, Live, NoPicker
    <2>6. QED
      BY <2>1, <2>2, <2>3, <2>4, <2>5 DEF User
  <1>4. QED
    BY <1>2, <1>3, LessScreen

\* A wait for a stop that is given up.
LEMMA TimesOutScreen ==
    ASSUME IInv, GapInv, ScreenInv, WaiterTimesOut
    PROVE  GapInv' /\ ScreenInv'
  <1>1. screen \in Screen
    BY DEF IInv, ScreenTypes
  <1>2. UNCHANGED <<server, seq, buffer, inbox, attached, transport, last, warned>>
    BY DEF WaiterTimesOut, serverVars
  <1>3. NoMore(screen, screen')
    <2>1. /\ screen'.status = screen.status /\ screen'.picker = screen.picker /\ screen'.solving = screen.solving
          /\ screen'.replay = screen.replay /\ screen'.alert = screen.alert
      BY <1>1 DEF WaiterTimesOut, Screen
    <2>2. QED
      BY <2>1 DEF NoMore, Live
  <1>4. QED
    BY <1>2, <1>3, LessScreen

\* A client that is not attached, or will be no more: what it lacks is the same.
LEMMA ConnectScreen ==
    ASSUME IInv, GapInv, ScreenInv, Connects \/ ConnectFails
    PROVE  GapInv' /\ ScreenInv'
  <1>1. transport \in {"connecting", "reconnecting"}
        /\ UNCHANGED <<server, seq, buffer, attached, last, screen, warned>>
    BY DEF Connects, ConnectFails, serverVars
  <1>2. ~attached /\ transport # "offline"
    BY <1>1 DEF IInv, ConnectionInv
  <1>3. (Reached' => Reached) /\ Coming' = Coming
    BY <1>1, <1>2 DEF Reached, Coming
  <1>4. GapInv'
    BY <1>1, <1>2 DEF GapInv
  <1>5. QED
    BY <1>1, <1>3, <1>4 DEF ScreenInv

\* A connection that breaks: what was on its way will be sent again.
LEMMA BreaksScreen ==
    ASSUME IInv, GapInv, ScreenInv, Breaks
    PROVE  GapInv' /\ ScreenInv'
  <1>1. /\ transport = "connected" /\ attached' = FALSE /\ inbox' = <<>>
        /\ UNCHANGED <<server, seq, buffer, last, screen, warned>>
    BY DEF Breaks, Drops
  <1>2. GapInv'
    BY <1>1 DEF GapInv
  <1>3. ASSUME Reached'
        PROVE  Reached /\ Coming' = Coming
    <2>1. ~warned /\ ~TooLate(last, buffer)
      BY <1>1, <1>3 DEF Reached
    <2>2. Reached
      BY <1>1, <2>1 DEF Reached, GapInv
    <2>3. Coming' = {e \in {buffer[j] : j \in DOMAIN buffer} : e.n > last}
      BY <1>1 DEF Coming
    <2>4. CASE ~attached
      <3>1. Coming = {e \in {buffer[j] : j \in DOMAIN buffer} : e.n > last}
        BY <2>4 DEF Coming
      <3>2. QED
        BY <2>2, <2>3, <3>1, Zenon
    <2>5. CASE attached
      <3>1. /\ inbox \in Seq(Entry) /\ buffer \in Seq(Entry) /\ seq \in Nat /\ last \in Nat
            /\ DOMAIN inbox = 1 .. Len(inbox) /\ Len(inbox) \in Nat
            /\ DOMAIN buffer = 1 .. Len(buffer) /\ Len(buffer) \in Nat
            /\ \A i \in DOMAIN buffer : buffer[i].n = seq - Len(buffer) + i
            /\ IsBuffer(buffer, seq)
        BY ComingFacts
      <3>2. (\A i \in DOMAIN inbox : inbox[i].n = last + i) /\ last + Len(inbox) = seq
        BY <1>1, <2>1, <2>2, <2>5 DEF IInv, LossInv, Reached
      <3>3. Coming = {inbox[i] : i \in DOMAIN inbox}
        BY <2>5 DEF Coming
      <3>4. last >= seq - Len(buffer)
        <4>1. CASE buffer = <<>>
          BY <3>1, <4>1 DEF IsBuffer
        <4>2. CASE buffer # <<>>
          <5>1. 1 \in DOMAIN buffer
            BY <3>1, <4>2
          <5>2. buffer[1].n = seq - Len(buffer) + 1 /\ ~(last < buffer[1].n - 1)
            BY <2>1, <3>1, <4>2, <5>1 DEF TooLate
          <5>3. QED
            BY <3>1, <5>2
        <4>3. QED
          BY <4>1, <4>2
      <3>5. \A i \in DOMAIN inbox, j \in DOMAIN buffer : inbox[i].n = buffer[j].n => inbox[i] = buffer[j]
        <4>1. Agree(inbox, buffer)
          BY DEF IInv, OrderInv
        <4>2. \A i \in DOMAIN inbox, j \in DOMAIN buffer : inbox[i].n = buffer[j].n => inbox[i].m = buffer[j].m
          BY <4>1 DEF Agree
        <4>3. (\A i \in DOMAIN inbox : inbox[i] \in Entry) /\ (\A j \in DOMAIN buffer : buffer[j] \in Entry)
          BY <3>1
        <4>4. \A a \in Entry, b \in Entry : a.n = b.n /\ a.m = b.m => a = b
          BY DEF Entry
        <4>5. QED
          BY <4>2, <4>3, <4>4
      <3>6. ASSUME NEW i \in DOMAIN inbox
            PROVE  inbox[i] \in Coming'
        <4> DEFINE j == last + i - (seq - Len(buffer))
        <4>1. i \in 1 .. Len(inbox) /\ inbox[i].n = last + i
          BY <3>1, <3>2
        <4>2. j \in 1 .. Len(buffer)
          BY <3>1, <3>2, <3>4, <4>1
        <4>3. buffer[j].n = seq - Len(buffer) + j /\ seq - Len(buffer) + j = last + i
          BY <3>1, <4>1, <4>2
        <4> HIDE DEF j
        <4>4. inbox[i] = buffer[j] /\ j \in DOMAIN buffer
          BY <3>1, <3>5, <4>1, <4>2, <4>3
        <4>5. inbox[i].n > last
          BY <3>1, <4>1
        <4>6. QED
          BY <2>3, <4>4, <4>5
      <3>7. ASSUME NEW j \in DOMAIN buffer, buffer[j].n > last
            PROVE  \E i \in DOMAIN inbox : buffer[j] = inbox[i]
        <4> DEFINE i == seq - Len(buffer) + j - last
        <4>1. j \in 1 .. Len(buffer) /\ buffer[j].n = seq - Len(buffer) + j
          BY <3>1
        <4>2. i \in 1 .. Len(inbox)
          BY <3>1, <3>2, <3>7, <4>1
        <4>3. inbox[i].n = last + i /\ last + i = seq - Len(buffer) + j
          BY <3>1, <3>2, <4>1, <4>2
        <4> HIDE DEF i
        <4>4. i \in DOMAIN inbox /\ inbox[i] = buffer[j]
          BY <3>1, <3>5, <4>1, <4>2, <4>3
        <4>5. QED
          BY <4>4
      <3>8. QED
        BY <2>3, <3>3, <3>6, <3>7, <2>2
    <2>6. QED
      BY <2>2, <2>4, <2>5
  <1>4. QED
    BY <1>1, <1>2, <1>3 DEF ScreenInv

\* A runtime that is released, which a client back in time never meets.
LEMMA GraceScreen ==
    ASSUME Short, IInv, GapInv, ScreenInv, GraceExpires
    PROVE  GapInv' /\ ScreenInv'
  <1>1. transport = "offline" /\ UNCHANGED <<transport, attached>>
    BY DEF GraceExpires, clientVars
  <1>2. attached' = FALSE
    BY <1>1 DEF IInv, ConnectionInv, ChannelTypes
  <1>3. QED
    BY <1>1, <1>2 DEF GapInv, ScreenInv, Reached

-----------------------------------------------------------------------------
(* The theorem *)

AccountInv == StartInv /\ GapInv /\ ScreenInv

\* Nothing is shown yet.
LEMMA InitAccount == Init => AccountInv
  <1> SUFFICES ASSUME Init PROVE AccountInv
    OBVIOUS
  <1>1. Coming = {}
    BY DEF Init, Coming
  <1>2. StartInv /\ GapInv
    BY DEF Init, Fresh, StartInv, GapInv
  <1>3. ScreenInv
    BY <1>1 DEF Init, ScreenInv, Accounted, Ends, Live, Blank, NoPicker
  <1>4. QED
    BY <1>2, <1>3 DEF AccountInv

\* Every step keeps what is shown accounted for.
LEMMA NextAccount ==
    ASSUME Short, IInv, AccountInv, path # "astray", ~strayed', [Next]_vars
    PROVE  AccountInv'
  <1>1. StartInv /\ GapInv /\ ScreenInv /\ server \in ServerRec
    BY DEF AccountInv, IInv, ScreenTypes
  <1>2. StartInv'
    <2>1. server' = server \/ server'.doing # "start" \/ server'.session = "none"
      <3>1. CASE StartCommand
        BY <1>1, <3>1 DEF StartCommand, ServerRec
      <3>2. CASE Hello \/ Started \/ StopCommand \/ Stopped \/ ReplayCommand \/ ReplayReady
        <4>1. CASE Hello
          BY <4>1 DEF Hello
        <4>2. CASE Started
          BY <4>2 DEF Started, Fresh
        <4>3. CASE StopCommand
          <5>1. PICK type \in {"session.stop", "session.restart"} :
                  server' = [Fresh EXCEPT !.session = server.session,
                                          !.doing = IF type = "session.stop" THEN "stop" ELSE "restart"]
            BY <4>3 DEF StopCommand
          <5>2. QED
            BY <5>1 DEF Fresh
        <4>4. CASE Stopped
          <5>1. server' = [Fresh EXCEPT !.doing = IF server.doing = "restart" THEN "start" ELSE "idle"]
            BY <4>4 DEF Stopped, NextServer
          <5>2. QED
            BY <5>1 DEF Fresh
        <4>5. CASE ReplayCommand
          BY <4>5 DEF ReplayCommand, Fresh
        <4>6. CASE ReplayReady
          BY <4>6 DEF ReplayReady, Fresh
        <4>7. QED
          BY <3>2, <4>1, <4>2, <4>3, <4>4, <4>5, <4>6
      <3>3. CASE StopReplayCommand \/ ReplayOver
        BY <1>1, <3>3 DEF StopReplayCommand, ReplayOver, ServerRec
      <3>4. CASE PickCommand \/ ContinueCommand
        BY <1>1, <3>4 DEF PickCommand, ContinueCommand, Command, ServerRec
      <3>5. CASE Browser
        BY <1>1, <3>5 DEF Browser, ActionRecorded, PickerOpens, PickerCloses, CaptchaSeen, CaptchaSolved, BrowserEvent,
                          ServerRec
      <3>6. CASE User
        BY <3>6 DEF User, StartRecording, StopRecording, StopAndWait, StartReplay, StopReplay, Pick,
                    ContinueAfterCaptcha, UserDoes, serverVars
      <3>7. CASE GraceExpires \/ Receive \/ Connects \/ ConnectFails \/ Breaks \/ WaiterTimesOut \/ UNCHANGED vars
        BY <3>7 DEF GraceExpires, Receive, Connects, ConnectFails, Breaks, WaiterTimesOut, vars, serverVars, Fresh
      <3>8. ~StoppedAstray /\ ~NextStarts /\ ~StopAgain /\ ~BreaksAstray
        BY DEF StoppedAstray, NextStarts, StopAgain, BreaksAstray
      <3>9. QED
        BY <3>1, <3>2, <3>3, <3>4, <3>5, <3>6, <3>7, <3>8 DEF Next, Handle
    <2>2. QED
      BY <1>1, <2>1 DEF StartInv
  <1>3. GapInv' /\ ScreenInv'
    <2>1. CASE Handle
      BY <1>1, <2>1, HelloScreen, StartScreen, StartedScreen, StopScreen, StoppedScreen, ReplayCommandScreen,
         ReplayReadyScreen, StopReplayScreen, ReplayOverScreen, PickScreen, ContinueScreen
         DEF Handle, StoppedAstray, NextStarts, StopAgain
    <2>2. CASE Browser
      BY <1>1, <2>2, ActionScreen, PickerOpensScreen, PickerClosesScreen, CaptchaSeenScreen, CaptchaSolvedScreen
         DEF Browser
    <2>3. CASE User
      BY <1>1, <2>3, UserScreen
    <2>4. CASE GraceExpires
      BY <1>1, <2>4, GraceScreen
    <2>5. CASE Receive
      BY <1>1, <2>5, ReceiveScreen
    <2>6. CASE Connects \/ ConnectFails
      BY <1>1, <2>6, ConnectScreen
    <2>7. CASE Breaks
      BY <1>1, <2>7, BreaksScreen
    <2>8. CASE WaiterTimesOut
      BY <1>1, <2>8, TimesOutScreen
    <2>9. CASE UNCHANGED vars
      BY <1>1, <2>9, QuietScreen DEF vars, serverVars, clientVars
    <2>10. ~BreaksAstray
      BY DEF BreaksAstray
    <2>11. QED
      BY <2>1, <2>2, <2>3, <2>4, <2>5, <2>6, <2>7, <2>8, <2>9, <2>10 DEF Next
  <1>4. QED
    BY <1>2, <1>3 DEF AccountInv

\* A client that caught up with the runtime and shows no alert shows no
\* recording, replay, picker or captcha that the runtime does not have, whatever
\* was lost and sent again (handleServerMessage against the runtime's emits).
THEOREM WhatIsShownIs == Short => (Spec => []ScreenAgrees)
  <1> SUFFICES ASSUME Short PROVE Spec => []ScreenAgrees
    OBVIOUS
  <1>1. Init => AccountInv
    BY InitAccount
  <1> DEFINE I == ~strayed => AccountInv
  <1>2. FollowedInv /\ I /\ [Next]_vars => I'
    <2> SUFFICES ASSUME FollowedInv, I, [Next]_vars, ~strayed' PROVE AccountInv'
      OBVIOUS
    <2>1. strayed => strayed'
      BY StrayedStays DEF FollowedInv
    <2>2. QED
      BY <2>1, NextAccount DEF FollowedInv
  <1>3. FollowedInv /\ I => ScreenAgrees
    <2> SUFFICES ASSUME IInv, AccountInv, CaughtUp, ~warned, ~screen.alert, server.doing = "idle"
                 PROVE  /\ screen.status = "recording" /\ screen.replay # "preparing" => server.session # "none"
                        /\ screen.replay = "running" => server.session = "replay"
                        /\ screen.picker # NoPicker => screen.picker = server.pending
                        /\ screen.solving => server.lock
      BY DEF ScreenAgrees, FollowedInv
    <2>1. Coming = {} /\ Reached
      BY DEF CaughtUp, Coming, Reached
    <2>2. Accounted(server, {}, screen)
      BY <2>1 DEF AccountInv, ScreenInv
    <2>3. \A shown, shows, ends : Ends({}, shown, shows, ends) => ~shown
      BY DEF Ends
    <2>4. server.session = "none" => ~Live(screen)
      BY <2>2, <2>3 DEF Accounted
    <2>5. server.session # "replay" => screen.replay # "running"
      BY <2>2, <2>3 DEF Accounted
    <2>6. \A k \in 1 .. MaxEvents : server.pending # k => screen.picker # k
      BY <2>2, <2>3 DEF Accounted
    <2>7. screen.picker # NoPicker => screen.picker \in 1 .. MaxEvents
      BY ClientAssumption DEF IInv, ScreenTypes, Screen, NoPicker
    <2>8. screen.solving => server.lock
      BY <2>2, <2>3 DEF Accounted
    <2>9. QED
      BY <2>4, <2>5, <2>6, <2>7, <2>8 DEF Live
  <1>4. Spec => []FollowedInv
    BY Invariance
  <1>5. Init => I
    BY <1>1
  <1> HIDE DEF I
  <1>6. QED
    BY <1>2, <1>3, <1>4, <1>5, PTL DEF Spec

=================================================================================
