-------------------------- MODULE AutomationsPageProofs --------------------------
(***************************************************************************)
(* Machine-checked facts about AutomationsPage and the service it is       *)
(* composed with, for any batches, direct callers, sizes of folders and    *)
(* batches, slots, and retention.                                          *)
(***************************************************************************)
EXTENDS AutomationsPage, FiniteSetTheorems, SequenceTheorems, TLAPS

-----------------------------------------------------------------------------
(* The queue and the slots *)

Distinct(q) == \A i, j \in 1 .. Len(q) : q[i] = q[j] => i = j
Queued(q) == Front(q, Len(q))

\* The runs at the front of the queue are as many as are taken from it.
LEMMA FrontFacts ==
    ASSUME NEW q \in Seq(Item), Distinct(q), NEW n \in 0 .. Len(q)
    PROVE  /\ IsFiniteSet(Front(q, n)) /\ Cardinality(Front(q, n)) = n
           /\ Front(q, n) \subseteq Queued(q)
           /\ Queued(q) \subseteq Item
  <1> DEFINE f == [i \in 1 .. n |-> q[i]]
  <1>1. f \in Bijection(1 .. n, Front(q, n))
    BY DEF Bijection, Injection, IsInjective, Surjection, Front, Distinct
  <1>2. IsFiniteSet(1 .. n) /\ Cardinality(1 .. n) = n
    BY FS_Interval
  <1>3. IsFiniteSet(Front(q, n)) /\ Cardinality(Front(q, n)) = n
    BY <1>1, <1>2, FS_Bijection DEF ExistsBijection
  <1>4. QED
    BY <1>3 DEF Front, Queued

\* What stays in the queue keeps its order and its members.
LEMMA RestFacts ==
    ASSUME NEW q \in Seq(Item), Distinct(q), NEW n \in 0 .. Len(q)
    PROVE  LET rest == SubSeq(q, n + 1, Len(q)) IN
           /\ rest \in Seq(Item) /\ Len(rest) = Len(q) - n
           /\ Distinct(rest)
           /\ Queued(rest) = Queued(q) \ Front(q, n)
  <1> DEFINE rest == SubSeq(q, n + 1, Len(q))
  <1>1. \A i \in n + 1 .. Len(q) : q[i] \in Item
    OBVIOUS
  <1>2. rest \in Seq(Item) /\ Len(rest) = Len(q) - n
    BY <1>1, SubSeqProperties
  <1>3. \A i \in 1 .. Len(q) - n : rest[i] = q[n + i]
    BY <1>1, SubSeqProperties
  <1> HIDE DEF rest
  <1>4. Distinct(rest)
    <2>1. SUFFICES ASSUME NEW i \in 1 .. Len(q) - n, NEW j \in 1 .. Len(q) - n, rest[i] = rest[j]
                   PROVE  i = j
      BY <1>2 DEF Distinct
    <2>2. q[n + i] = q[n + j] /\ n + i \in 1 .. Len(q) /\ n + j \in 1 .. Len(q)
      BY <2>1, <1>3
    <2>3. QED
      BY <2>2 DEF Distinct
  <1>5. ASSUME NEW x \in Queued(rest) PROVE x \in Queued(q) \ Front(q, n)
    <2>1. PICK i \in 1 .. Len(q) - n : x = q[n + i]
      BY <1>2, <1>3 DEF Queued, Front
    <2>2. n + i \in 1 .. Len(q)
      OBVIOUS
    <2>3. x \notin Front(q, n)
      BY <2>1, <2>2 DEF Front, Distinct
    <2>4. QED
      BY <2>1, <2>2, <2>3 DEF Queued, Front
  <1>6. ASSUME NEW x \in Queued(q) \ Front(q, n) PROVE x \in Queued(rest)
    <2>1. PICK i \in 1 .. Len(q) : x = q[i]
      BY DEF Queued, Front
    <2>2. i > n
      BY <2>1 DEF Front
    <2>3. i - n \in 1 .. Len(rest) /\ rest[i - n] = x
      BY <2>1, <2>2, <1>2, <1>3
    <2>4. QED
      BY <2>3 DEF Queued, Front
  <1>7. QED
    BY <1>2, <1>4, <1>5, <1>6 DEF rest

\* A batch's runs join the end of the queue.
LEMMA JoinFacts ==
    ASSUME NEW q \in Seq(Item), Distinct(q), NEW b \in Batch, NEW n \in 1 .. MaxSize,
           \A i \in 1 .. n : <<b, i>> \notin Queued(q)
    PROVE  LET joined == q \o [i \in 1 .. n |-> <<b, i>>] IN
           /\ joined \in Seq(Item) /\ Distinct(joined)
           /\ Queued(joined) = Queued(q) \cup {<<b, i>> : i \in 1 .. n}
  <1> DEFINE new == [i \in 1 .. n |-> <<b, i>>]
             joined == q \o new
  <1>1. new \in Seq(Item) /\ Len(new) = n
    BY CapacityAssumption DEF Item
  <1>2. /\ joined \in Seq(Item) /\ Len(joined) = Len(q) + n /\ Len(q) \in Nat
        /\ \A i \in 1 .. Len(q) : joined[i] = q[i]
    BY <1>1
  <1>3. \A i \in Len(q) + 1 .. Len(q) + n : joined[i] = <<b, i - Len(q)>> /\ i - Len(q) \in 1 .. n
    BY <1>1
  <1>4. \A i \in 1 .. Len(q) : joined[i] \in Queued(q)
    BY <1>2 DEF Queued, Front
  <1>5. 1 .. Len(joined) = (1 .. Len(q)) \cup (Len(q) + 1 .. Len(q) + n)
    BY <1>2
  <1> HIDE DEF joined
  <1>6. ASSUME NEW i \in 1 .. Len(joined), NEW j \in 1 .. Len(joined), joined[i] = joined[j]
        PROVE i = j
    <2>1. CASE i \in 1 .. Len(q) /\ j \in 1 .. Len(q)
      BY <1>2, <1>6, <2>1 DEF Distinct
    <2>2. CASE i \in 1 .. Len(q) /\ j \in Len(q) + 1 .. Len(q) + n
      BY <1>3, <1>4, <1>6, <2>2
    <2>3. CASE j \in 1 .. Len(q) /\ i \in Len(q) + 1 .. Len(q) + n
      BY <1>3, <1>4, <1>6, <2>3
    <2>4. CASE i \in Len(q) + 1 .. Len(q) + n /\ j \in Len(q) + 1 .. Len(q) + n
      <3>1. <<b, i - Len(q)>> = <<b, j - Len(q)>>
        BY <1>3, <1>6, <2>4
      <3>2. i - Len(q) = j - Len(q)
        BY <3>1
      <3>3. QED
        BY <3>2, <1>2
    <2>5. QED
      BY <1>5, <2>1, <2>2, <2>3, <2>4
  <1>7. \A i \in 1 .. Len(joined) : joined[i] \in Queued(q) \cup {<<b, k>> : k \in 1 .. n}
    BY <1>3, <1>4, <1>5
  <1>8. ASSUME NEW k \in 1 .. n PROVE <<b, k>> \in Queued(joined)
    <2>1. Len(q) + k \in Len(q) + 1 .. Len(q) + n /\ (Len(q) + k) - Len(q) = k
      BY <1>2
    <2>2. joined[Len(q) + k] = <<b, k>> /\ Len(q) + k \in 1 .. Len(joined)
      BY <2>1, <1>3, <1>5
    <2>3. QED
      BY <2>2 DEF Queued, Front
  <1>9. ASSUME NEW x \in Queued(q) PROVE x \in Queued(joined)
    <2>1. PICK i \in 1 .. Len(q) : q[i] = x
      BY DEF Queued, Front
    <2>2. QED
      BY <2>1, <1>2, <1>5 DEF Queued, Front
  <1>10. Queued(joined) \subseteq Queued(q) \cup {<<b, k>> : k \in 1 .. n}
    BY <1>7 DEF Queued, Front
  <1>11. QED
    BY <1>2, <1>6, <1>8, <1>9, <1>10 DEF Distinct, joined

Phase == {"none", "starting", "executing"}

\* Draining keeps every run either queued or in a slot, and fills the slots.
LEMMA DrainFacts ==
    ASSUME NEW q \in Seq(Item), Distinct(q),
           NEW act \in SUBSET Work, IsFiniteSet(act), Cardinality(act) <= MaxConcurrent,
           Queued(q) \cap act = {},
           stopping \in BOOLEAN, stopping => q = <<>>,
           NEW ph \in [Work -> Phase], Drain(q, act, ph)
    PROVE  /\ queue' \in Seq(Item) /\ Distinct(queue')
           /\ active' \in SUBSET Work /\ IsFiniteSet(active')
           /\ Cardinality(active') <= MaxConcurrent
           /\ queue' # <<>> => Cardinality(active') = MaxConcurrent
           /\ Queued(queue') \cap active' = {}
           /\ Queued(queue') \cup active' = Queued(q) \cup act
           /\ phase' \in [Work -> Phase]
           /\ stopping => queue' = <<>>
  <1> DEFINE n == Startable(q, act)
             taken == Front(q, n)
  <1>1. Cardinality(act) \in Nat /\ MaxConcurrent \in Nat /\ Len(q) \in Nat
    BY FS_CardinalityType, CapacityAssumption
  <1>2. stopping => Len(q) = 0
    OBVIOUS
  <1>3. /\ n \in 0 .. Len(q) /\ n + Cardinality(act) <= MaxConcurrent
        /\ n < Len(q) => n + Cardinality(act) = MaxConcurrent
    BY <1>1, <1>2 DEF Startable
  <1> HIDE DEF n
  <1>4. /\ IsFiniteSet(taken) /\ Cardinality(taken) = n
        /\ taken \subseteq Queued(q) /\ Queued(q) \subseteq Item
    BY <1>3, FrontFacts
  <1> HIDE DEF taken
  <1>5. active' = act \cup taken /\ queue' = SubSeq(q, n + 1, Len(q))
    BY DEF Drain, n, taken
  <1>6. /\ queue' \in Seq(Item) /\ Len(queue') = Len(q) - n
        /\ Distinct(queue') /\ Queued(queue') = Queued(q) \ taken
    BY <1>3, <1>5, RestFacts DEF taken
  <1>7. act \cap taken = {} /\ Cardinality(act \cap taken) = 0
    BY <1>4, FS_EmptySet
  <1>8. IsFiniteSet(active') /\ Cardinality(active') = Cardinality(act) + n
    <2>1. /\ IsFiniteSet(act \cup taken)
          /\ Cardinality(act \cup taken) = Cardinality(act) + Cardinality(taken) - Cardinality(act \cap taken)
      BY <1>4, FS_Union
    <2>2. n \in Nat
      BY <1>1, <1>3
    <2>3. QED
      BY <2>1, <2>2, <1>1, <1>4, <1>5, <1>7
  <1>9. active' \in SUBSET Work
    BY <1>4, <1>5 DEF Work
  <1>10. queue' # <<>> => n < Len(q)
    BY <1>1, <1>3, <1>6
  <1>11. stopping => queue' = <<>>
    <2>1. stopping => Len(queue') = 0
      BY <1>1, <1>2, <1>3, <1>6
    <2>2. QED
      BY <2>1, <1>6
  <1>12. phase' \in [Work -> Phase]
    BY DEF Drain, Phase
  <1>13. Queued(queue') \cap active' = {} /\ Queued(queue') \cup active' = Queued(q) \cup act
    BY <1>4, <1>5, <1>6
  <1>14. QED
    BY <1>1, <1>3, <1>6, <1>8, <1>9, <1>10, <1>11, <1>12, <1>13

-----------------------------------------------------------------------------
(* The service *)

Live == active \cup Queued(queue)

\* What the properties rest on: a run waits in the queue once or holds a slot,
\* and has not ended; nothing waits after a shutdown.
QueueAndSlots ==
    /\ Distinct(queue) /\ Queued(queue) \cap active = {}
    /\ IsFiniteSet(active)
    /\ stopping => queue = <<>>
LiveHasNotEnded == \A r \in Item \cap Live : item[r].status \in {"queued", "running"}

\* The runs of a batch are numbered without gaps.
SizeIsTrue ==
    /\ \A b \in Held, i \in 1 .. MaxSize : item[<<b, i>>].status # "none" <=> i <= record[b].size
    /\ \A b \in Batch, i \in 1 .. MaxSize :
         item[<<b, i>>].status # "none" => item[<<b, 1>>].status # "none"

ServiceInv ==
    /\ TypeOK /\ QueueAndSlots /\ SlotsSharedAndFull
    /\ LiveHasNotEnded /\ RecordsFollowRuns /\ SizeIsTrue

\* getBatch looks for expired batches before it answers, as createBatch does.
Clean == record' = Cleaned /\ UNCHANGED <<item, queue, active, phase, aborted, stopping>>

LEMMA ServiceInit == Init => ServiceInv
  <1> SUFFICES ASSUME Init PROVE ServiceInv
    OBVIOUS
  <1>1. TypeOK
    <2>1. record \in [Batch -> [size : 0 .. MaxSize, done : BOOLEAN, left : 0 .. Ttl]]
      BY CapacityAssumption DEF Init, NoRecord
    <2>2. item \in [Item -> [status : {"none", "queued", "running"} \cup Terminal, input : BOOLEAN]]
      BY DEF Init, NoItem
    <2>3. queue \in Seq(Item)
      BY DEF Init
    <2>4. QED
      BY <2>1, <2>2, <2>3 DEF Init, TypeOK
  <1>2. Len(queue) = 0 /\ Queued(queue) = {} /\ Distinct(queue)
    BY DEF Init, Queued, Front, Distinct
  <1>3. IsFiniteSet(active) /\ Cardinality(active) = 0
    BY FS_EmptySet DEF Init
  <1>4. Held = {}
    BY DEF Init, Held, NoRecord
  <1>5. \A r \in Item : item[r] = NoItem
    BY DEF Init
  <1>6. QueueAndSlots /\ SlotsSharedAndFull
    BY <1>2, <1>3, CapacityAssumption DEF Init, QueueAndSlots, SlotsSharedAndFull
  <1>7. LiveHasNotEnded
    BY <1>2 DEF Init, LiveHasNotEnded, Live
  <1>8. RecordsFollowRuns
    BY <1>2, <1>4, <1>5 DEF Init, RecordsFollowRuns, InputsReleased, DoneWhenAllEnded, WorkHasRecord,
                       NoItem, Queued
  <1>9. SizeIsTrue
    BY <1>4, <1>5 DEF SizeIsTrue, NoItem, Item
  <1>10. QED
    BY <1>1, <1>6, <1>7, <1>8, <1>9 DEF ServiceInv

\* A run is the pair of its batch and its number.
LEMMA ItemIsPair ==
    /\ \A r \in Item : r = <<r[1], r[2]>> /\ r[1] \in Batch /\ r[2] \in 1 .. MaxSize
    /\ \A b \in Batch, i \in 1 .. MaxSize : <<b, i>> \in Item
    /\ Item \subseteq Work /\ Item \cap Direct = {}
  BY CapacityAssumption DEF Item, Work

\* No batch expires while one of its runs is queued or holds a slot.
LEMMA LiveIsNotExpired ==
    ASSUME ServiceInv, NEW r \in Item, r \in Live
    PROVE  r[1] \in Held \ Expired /\ r[2] <= record[r[1]].size
  <1>1. r[1] \in Held /\ r[2] <= record[r[1]].size
    BY DEF ServiceInv, RecordsFollowRuns, WorkHasRecord, Live, Queued
  <1>2. item[r].status \notin Terminal
    BY DEF ServiceInv, LiveHasNotEnded, Terminal
  <1>3. r \in RunsOf(r[1])
    BY <1>1, ItemIsPair DEF RunsOf, ServiceInv, TypeOK
  <1>4. ~record[r[1]].done
    BY <1>1, <1>2, <1>3 DEF ServiceInv, RecordsFollowRuns, DoneWhenAllEnded
  <1>5. QED
    BY <1>1, <1>4 DEF Expired

LEMMA CleanedFacts ==
    ASSUME ServiceInv
    PROVE  /\ Cleaned \in [Batch -> [size : 0 .. MaxSize, done : BOOLEAN, left : 0 .. Ttl]]
           /\ \A c \in Batch : Cleaned[c] = IF c \in Expired THEN NoRecord ELSE record[c]
           /\ {c \in Batch : Cleaned[c].size > 0} = Held \ Expired
  BY CapacityAssumption DEF Cleaned, NoRecord, ServiceInv, TypeOK, Held

LEMMA CleanStep == ServiceInv /\ Clean => ServiceInv'
  <1> SUFFICES ASSUME ServiceInv, Clean PROVE ServiceInv'
    OBVIOUS
  <1>1. Held' = Held \ Expired /\ \A c \in Held' : record'[c] = record[c]
    BY CleanedFacts DEF Clean, Held
  <1>2. TypeOK'
    BY CleanedFacts DEF Clean, ServiceInv, TypeOK
  <1>3. QueueAndSlots' /\ SlotsSharedAndFull' /\ LiveHasNotEnded' /\ InputsReleased' /\ Live' = Live
    BY DEF Clean, ServiceInv, QueueAndSlots, SlotsSharedAndFull, LiveHasNotEnded, Live,
           RecordsFollowRuns, InputsReleased, Queued, Front
  <1>4. WorkHasRecord'
    BY <1>1, <1>3, LiveIsNotExpired DEF WorkHasRecord, Live, Queued
  <1>5. DoneWhenAllEnded'
    BY <1>1 DEF Clean, ServiceInv, RecordsFollowRuns, DoneWhenAllEnded, RunsOf
  <1>6. SizeIsTrue'
    BY <1>1 DEF Clean, ServiceInv, SizeIsTrue
  <1>7. QED
    BY <1>2, <1>3, <1>4, <1>5, <1>6 DEF ServiceInv, RecordsFollowRuns

LEMMA CreateStep ==
    ASSUME ServiceInv, NEW b \in Batch, NEW n \in 1 .. MaxSize, CreateBatch(b, n)
    PROVE  ServiceInv'
  <1> DEFINE new == [i \in 1 .. n |-> <<b, i>>]
             own == {<<b, i>> : i \in 1 .. n}
             joined == queue \o new
             ph == [k \in Work |-> IF k \in Item /\ k[1] = b THEN "none" ELSE phase[k]]
  <1>1. \A r \in Item : r[1] = b => r \notin Live
    BY LiveIsNotExpired DEF CreateBatch
  <1>2. n \in 1 .. MaxSize /\ \A r \in Item : r \in own <=> r[1] = b /\ r[2] <= n
    BY ItemIsPair
  <1>3. own \subseteq Item /\ own \cap Live = {}
    <2>1. \A i \in 1 .. n : <<b, i>> \in Item
      BY ItemIsPair, CapacityAssumption
    <2>2. QED
      BY <1>1, <2>1
  <1>4. joined \in Seq(Item) /\ Distinct(joined) /\ Queued(joined) = Queued(queue) \cup own
    BY <1>3, JoinFacts DEF Live, ServiceInv, TypeOK, QueueAndSlots
  <1>5. ph \in [Work -> Phase]
    BY DEF ServiceInv, TypeOK, Phase
  <1>6. Drain(joined, active, ph) /\ ~stopping /\ stopping' = stopping
    BY DEF CreateBatch
  <1> HIDE DEF joined, ph
  <1>7. /\ queue' \in Seq(Item) /\ Distinct(queue')
        /\ active' \in SUBSET Work /\ IsFiniteSet(active')
        /\ Cardinality(active') <= MaxConcurrent
        /\ queue' # <<>> => Cardinality(active') = MaxConcurrent
        /\ Queued(queue') \cap active' = {}
        /\ Live' = Live \cup own
        /\ phase' \in [Work -> Phase]
    <2>1. Queued(joined) \cap active = {}
      BY <1>3, <1>4 DEF Live, ServiceInv, QueueAndSlots
    <2>2. /\ active \in SUBSET Work /\ IsFiniteSet(active) /\ Cardinality(active) <= MaxConcurrent
          /\ stopping \in BOOLEAN
      BY DEF ServiceInv, TypeOK, QueueAndSlots, SlotsSharedAndFull
    <2>3. QED
      BY <1>4, <1>5, <1>6, <2>1, <2>2, DrainFacts DEF Live, Queued
  <1>8. \A r \in Item : item'[r] = IF r[1] = b
                                   THEN IF r[2] <= n
                                        THEN [status |-> "queued", input |-> TRUE]
                                        ELSE [status |-> "none", input |-> FALSE]
                                   ELSE item[r]
    BY DEF CreateBatch, NoItem
  <1>a. \A i \in 1 .. MaxSize :
          /\ <<b, i>> \in Item
          /\ item'[<<b, i>>] = IF i <= n THEN [status |-> "queued", input |-> TRUE]
                                         ELSE [status |-> "none", input |-> FALSE]
    BY <1>8, ItemIsPair
  <1>b. \A c \in Batch \ {b}, i \in 1 .. MaxSize :
          <<c, i>> \in Item /\ item'[<<c, i>>] = item[<<c, i>>]
    BY <1>8, ItemIsPair
  <1>9. \A c \in Batch : record'[c] = IF c = b THEN [size |-> n, done |-> FALSE, left |-> 0]
                                      ELSE Cleaned[c]
    BY CleanedFacts DEF CreateBatch
  <1>10. Held' = (Held \ Expired) \cup {b} /\ \A c \in Held' \ {b} : record'[c] = record[c]
    BY <1>9, CleanedFacts DEF Held
  <1>11. TypeOK'
    <2>1. record' \in [Batch -> [size : 0 .. MaxSize, done : BOOLEAN, left : 0 .. Ttl]]
      <3>1. record' = [Cleaned EXCEPT ![b] = [size |-> n, done |-> FALSE, left |-> 0]]
        BY DEF CreateBatch
      <3>2. [size |-> n, done |-> FALSE, left |-> 0]
              \in [size : 0 .. MaxSize, done : BOOLEAN, left : 0 .. Ttl]
        BY CapacityAssumption
      <3>3. QED
        BY <3>1, <3>2, CleanedFacts
    <2>2. item' \in [Item -> [status : {"none", "queued", "running"} \cup Terminal, input : BOOLEAN]]
      BY DEF CreateBatch, NoItem, ServiceInv, TypeOK
    <2>3. aborted' \in SUBSET Work
      BY DEF CreateBatch, ServiceInv, TypeOK
    <2>4. QED
      BY <1>6, <1>7, <2>1, <2>2, <2>3 DEF TypeOK, Phase, ServiceInv
  <1>12. QueueAndSlots' /\ SlotsSharedAndFull'
    BY <1>6, <1>7 DEF QueueAndSlots, SlotsSharedAndFull, Queued
  <1>13. LiveHasNotEnded'
    BY <1>1, <1>2, <1>7, <1>8 DEF ServiceInv, LiveHasNotEnded, NoItem
  <1>14. InputsReleased'
    <2>1. ASSUME NEW r \in Item PROVE item'[r].input <=> r \in Live'
      <3>1. CASE r[1] = b
        BY <1>1, <1>2, <1>7, <1>8, <3>1
      <3>2. CASE r[1] # b
        <4>1. item'[r] = item[r] /\ (r \in Live' <=> r \in Live)
          BY <1>2, <1>7, <1>8, <3>2
        <4>2. item[r].input <=> r \in Live
          BY DEF ServiceInv, RecordsFollowRuns, InputsReleased, Live, Queued
        <4>3. QED
          BY <4>1, <4>2
      <3>3. QED
        BY <3>1, <3>2
    <2>2. QED
      BY <2>1 DEF InputsReleased, Live, Queued
  <1>15. WorkHasRecord'
    <2>1. ASSUME NEW r \in Item, r \in Live' PROVE r[1] \in Held' /\ r[2] <= record'[r[1]].size
      <3>1. CASE r \in own
        BY <1>2, <1>9, <1>10, <3>1
      <3>2. CASE r \in Live
        <4>1. r[1] \in Held \ Expired /\ r[2] <= record[r[1]].size /\ r[1] # b
          BY <1>1, <3>2, LiveIsNotExpired
        <4>2. QED
          BY <1>10, <4>1
      <3>3. QED
        BY <1>7, <2>1, <3>1, <3>2
    <2>2. QED
      BY <2>1 DEF WorkHasRecord, Live, Queued
  <1>16. DoneWhenAllEnded'
    <2>1. ASSUME NEW c \in Held' \ {b}
          PROVE record'[c].done <=> {item'[r].status : r \in RunsOf(c)'} \subseteq Terminal
      <3>1. RunsOf(c)' = RunsOf(c) /\ record'[c] = record[c] /\ c \in Held
        BY <1>10, <2>1 DEF RunsOf
      <3>2. \A r \in RunsOf(c) : item'[r] = item[r]
        <4>1. record[c].size \in 0 .. MaxSize /\ c \in Batch \ {b}
          BY <3>1, <2>1 DEF Held, ServiceInv, TypeOK
        <4>2. ASSUME NEW i \in 1 .. record[c].size PROVE item'[<<c, i>>] = item[<<c, i>>]
          BY <1>b, <4>1, CapacityAssumption
        <4>3. QED
          BY <4>2 DEF RunsOf
      <3>3. QED
        BY <3>1, <3>2 DEF ServiceInv, RecordsFollowRuns, DoneWhenAllEnded
    <2>2. <<b, 1>> \in RunsOf(b)'
      BY <1>9 DEF RunsOf
    <2>3. item'[<<b, 1>>].status = "queued"
      BY <1>a, CapacityAssumption
    <2>4. ~record'[b].done
      BY <1>9
    <2>5. QED
      BY <2>1, <2>2, <2>3, <2>4 DEF DoneWhenAllEnded, Terminal
  <1>17. SizeIsTrue'
    <2>1. \A i \in 1 .. MaxSize : item'[<<b, i>>].status # "none" <=> i <= n
      BY <1>a
    <2>2. \A c \in Batch \ {b}, i \in 1 .. MaxSize : item'[<<c, i>>] = item[<<c, i>>]
      BY <1>b
    <2>3. 1 \in 1 .. MaxSize
      BY CapacityAssumption
    <2>4. QED
      BY <1>9, <1>10, <2>1, <2>2, <2>3 DEF SizeIsTrue, ServiceInv, Held
  <1>18. QED
    BY <1>11, <1>12, <1>13, <1>14, <1>15, <1>16, <1>17 DEF ServiceInv, RecordsFollowRuns

\* A run ends: its slot goes to the next in the queue.
LEMMA SettleStep ==
    ASSUME ServiceInv, NEW k \in Work, Settle(k)
    PROVE  ServiceInv'
  <1> DEFINE act == active \ {k}
             ph == [phase EXCEPT ![k] = "none"]
  <1>1. k \in active /\ k \notin Queued(queue)
    BY DEF Settle, ServiceInv, QueueAndSlots
  <1>2. act \in SUBSET Work /\ IsFiniteSet(act) /\ Cardinality(act) <= MaxConcurrent
    <2>1. IsFiniteSet(active) /\ Cardinality(active) \in Nat /\ Cardinality(active) <= MaxConcurrent
      BY FS_CardinalityType DEF ServiceInv, QueueAndSlots, SlotsSharedAndFull
    <2>2. IsFiniteSet(act) /\ Cardinality(act) = Cardinality(active) - 1
      BY <1>1, <2>1, FS_RemoveElement
    <2>3. QED
      BY <2>1, <2>2, CapacityAssumption DEF ServiceInv, TypeOK
  <1>3. ph \in [Work -> Phase] /\ Drain(queue, act, ph) /\ stopping' = stopping
    BY DEF Settle, ServiceInv, TypeOK, Phase
  <1> HIDE DEF ph
  <1>4. Queued(queue) \cap act = {}
    BY DEF ServiceInv, QueueAndSlots
  <1> HIDE DEF act
  <1>5. /\ queue' \in Seq(Item) /\ Distinct(queue')
        /\ active' \in SUBSET Work /\ IsFiniteSet(active')
        /\ Cardinality(active') <= MaxConcurrent
        /\ queue' # <<>> => Cardinality(active') = MaxConcurrent
        /\ Queued(queue') \cap active' = {}
        /\ Live' = Queued(queue) \cup act
        /\ phase' \in [Work -> Phase]
        /\ stopping => queue' = <<>>
    <2>1. queue \in Seq(Item) /\ Distinct(queue) /\ stopping \in BOOLEAN /\ (stopping => queue = <<>>)
      BY DEF ServiceInv, TypeOK, QueueAndSlots
    <2>2. QED
      BY <1>2, <1>3, <1>4, <2>1, DrainFacts DEF Live, Queued
  <1>6. Live' = Live \ {k}
    BY <1>1, <1>5 DEF Live, act
  <1>7. PICK end \in Terminal :
          item' = IF k \in Item THEN [item EXCEPT ![k] = Outcome(k, end)] ELSE item
    BY DEF Settle
  <1>8. \A r \in Item : item'[r] = IF r = k THEN [status |-> end, input |-> FALSE] ELSE item[r]
    BY <1>7 DEF Outcome, ServiceInv, TypeOK
  <1>9. k \in Item => k[1] \in Held /\ k[2] <= record[k[1]].size /\ k \in RunsOf(k[1])
    BY <1>1, LiveIsNotExpired, ItemIsPair DEF Live, RunsOf, ServiceInv, TypeOK
  <1>t. record' \in [Batch -> [size : 0 .. MaxSize, done : BOOLEAN, left : 0 .. Ttl]]
    <2>1. record \in [Batch -> [size : 0 .. MaxSize, done : BOOLEAN, left : 0 .. Ttl]]
          /\ Ttl \in 0 .. Ttl
      BY CapacityAssumption DEF ServiceInv, TypeOK
    <2>2. CASE k \in Item /\ AllEnded(k[1], item')
      <3>1. [record[k[1]] EXCEPT !.done = TRUE, !.left = Ttl]
              \in [size : 0 .. MaxSize, done : BOOLEAN, left : 0 .. Ttl]
        BY <2>1, <2>2, ItemIsPair
      <3>2. QED
        BY <2>1, <2>2, <3>1 DEF Settle
    <2>3. QED
      BY <2>1, <2>2 DEF Settle
  <1>r. \A c \in Batch : record'[c] = IF k \in Item /\ c = k[1] /\ AllEnded(k[1], item')
                                      THEN [record[c] EXCEPT !.done = TRUE, !.left = Ttl]
                                      ELSE record[c]
    BY ItemIsPair DEF Settle, ServiceInv, TypeOK
  <1>10. \A c \in Batch : record'[c].size = record[c].size
    BY <1>r DEF ServiceInv, TypeOK
  <1>d. k \in Item => record'[k[1]].done = (AllEnded(k[1], item') \/ record[k[1]].done)
    BY <1>r, ItemIsPair DEF ServiceInv, TypeOK
  <1>11. Held' = Held /\ \A c \in Batch : RunsOf(c)' = RunsOf(c)
    BY <1>10 DEF Held, RunsOf
  <1>12. TypeOK'
    <2>1. item' \in [Item -> [status : {"none", "queued", "running"} \cup Terminal, input : BOOLEAN]]
      BY <1>7 DEF Outcome, ServiceInv, TypeOK
    <2>2. aborted' \in SUBSET Work /\ stopping' \in BOOLEAN
      BY DEF Settle, ServiceInv, TypeOK
    <2>3. QED
      BY <1>5, <1>t, <2>1, <2>2 DEF TypeOK, Phase
  <1>13. QueueAndSlots' /\ SlotsSharedAndFull'
    BY <1>3, <1>5 DEF QueueAndSlots, SlotsSharedAndFull, Queued
  <1>14. LiveHasNotEnded'
    BY <1>6, <1>8 DEF ServiceInv, LiveHasNotEnded
  <1>15. InputsReleased'
    <2>1. \A r \in Item : item[r].input <=> r \in Live
      BY DEF ServiceInv, RecordsFollowRuns, InputsReleased, Live, Queued
    <2>2. QED
      BY <1>6, <1>8, <2>1 DEF InputsReleased, Live, Queued
  <1>16. WorkHasRecord'
    <2>1. \A r \in Item : r \in Live => r[1] \in Held /\ r[2] <= record[r[1]].size
      BY LiveIsNotExpired
    <2>2. QED
      <3>1. \A r \in Item : r[1] \in Batch /\ record'[r[1]].size = record[r[1]].size
        BY <1>10, ItemIsPair
      <3>2. \A r \in Item : r \in Live' => r[1] \in Held' /\ r[2] <= record'[r[1]].size
        BY <1>6, <1>11, <2>1, <3>1
      <3>3. QED
        BY <3>2 DEF WorkHasRecord, Live, Queued
  <1>17. DoneWhenAllEnded'
    <2>1. ASSUME NEW c \in Held
          PROVE record'[c].done <=> {item'[r].status : r \in RunsOf(c)} \subseteq Terminal
      <3>1. \A i \in 1 .. record[c].size : <<c, i>> \in Item
        BY ItemIsPair, CapacityAssumption DEF Held, ServiceInv, TypeOK
      <3>2. record[c].done <=> \A r \in RunsOf(c) : item[r].status \in Terminal
        BY DEF ServiceInv, RecordsFollowRuns, DoneWhenAllEnded
      <3>3. CASE k \in Item /\ c = k[1]
        <4>1. ~record[c].done
          BY <3>3, <1>9, <1>1, LiveIsNotExpired, <3>2 DEF ServiceInv, LiveHasNotEnded, Live, Terminal
        <4>2. record'[c].done <=> \A r \in RunsOf(c) : item'[r].status \in Terminal
          BY <3>3, <4>1, <1>d DEF AllEnded
        <4>3. QED
          BY <4>2
      <3>4. CASE ~(k \in Item /\ c = k[1])
        <4>1. \A r \in RunsOf(c) : item'[r] = item[r]
          BY <3>1, <3>4, <1>8 DEF RunsOf
        <4>2. QED
          <5>1. record'[c] = record[c]
            BY <3>4, <1>r DEF Held
          <5>2. QED
            BY <3>2, <4>1, <5>1
      <3>5. QED
        BY <3>3, <3>4
    <2>2. QED
      BY <2>1, <1>11 DEF DoneWhenAllEnded, Held
  <1>18. SizeIsTrue'
    <2>1. \A r \in Item : item'[r].status # "none" <=> item[r].status # "none"
      BY <1>1, <1>8 DEF ServiceInv, LiveHasNotEnded, Live, Terminal
    <2>2. 1 \in 1 .. MaxSize
      BY CapacityAssumption
    <2>3. QED
      <3>1. \A c \in Batch, i \in 1 .. MaxSize :
              /\ item'[<<c, i>>].status # "none" <=> item[<<c, i>>].status # "none"
              /\ record'[c].size = record[c].size
        BY <1>10, <2>1, ItemIsPair
      <3>2. QED
        BY <1>11, <2>2, <3>1 DEF ServiceInv, SizeIsTrue, Held
  <1>19. QED
    BY <1>12, <1>13, <1>14, <1>15, <1>16, <1>17, <1>18 DEF ServiceInv, RecordsFollowRuns

\* What the properties say of records depends on sizes, ends and statuses only.
LEMMA SameRecords ==
    ASSUME ServiceInv,
           \A c \in Batch : record'[c].size = record[c].size /\ record'[c].done = record[c].done,
           \A r \in Item : item'[r].status = item[r].status \/ {item'[r].status, item[r].status} \cap (Terminal \cup {"none"}) = {},
           Live' \cap Item \subseteq Live
    PROVE  DoneWhenAllEnded' /\ WorkHasRecord' /\ SizeIsTrue'
  <1>1. Held' = Held /\ \A c \in Batch : RunsOf(c)' = RunsOf(c)
    BY DEF Held, RunsOf
  <1>2. \A r \in Item : /\ item'[r].status \in Terminal <=> item[r].status \in Terminal
                        /\ item'[r].status = "none" <=> item[r].status = "none"
    OBVIOUS
  <1>3. DoneWhenAllEnded'
    <2>1. ASSUME NEW c \in Held
          PROVE record'[c].done <=> {item'[r].status : r \in RunsOf(c)} \subseteq Terminal
      <3>1. \A i \in 1 .. record[c].size : <<c, i>> \in Item
        BY ItemIsPair, CapacityAssumption DEF Held, ServiceInv, TypeOK
      <3>2. record[c].done <=> \A r \in RunsOf(c) : item[r].status \in Terminal
        BY DEF ServiceInv, RecordsFollowRuns, DoneWhenAllEnded
      <3>3. \A r \in RunsOf(c) : r \in Item
        BY <3>1 DEF RunsOf
      <3>4. record'[c].done = record[c].done
        BY DEF Held
      <3>5. QED
        BY <1>2, <3>2, <3>3, <3>4
    <2>2. QED
      BY <2>1, <1>1 DEF DoneWhenAllEnded, Held
  <1>4. WorkHasRecord'
    <2>1. \A r \in Item : r[1] \in Batch /\ record'[r[1]].size = record[r[1]].size
      BY ItemIsPair
    <2>2. \A r \in Item : r \in Live' => r[1] \in Held' /\ r[2] <= record'[r[1]].size
      BY <1>1, <2>1, LiveIsNotExpired
    <2>3. QED
      BY <2>2 DEF WorkHasRecord, Live, Queued
  <1>5. SizeIsTrue'
    <2>1. 1 \in 1 .. MaxSize
      BY CapacityAssumption
    <2>2. \A c \in Batch, i \in 1 .. MaxSize :
            item'[<<c, i>>].status # "none" <=> item[<<c, i>>].status # "none"
      BY <1>2, ItemIsPair
    <2>3. QED
      BY <1>1, <2>1, <2>2 DEF ServiceInv, SizeIsTrue, Held
  <1>6. QED
    BY <1>3, <1>4, <1>5

LEMMA AdmitStep ==
    ASSUME ServiceInv, NEW d \in Direct, Admit(d)
    PROVE  ServiceInv'
  <1>1. Cardinality(active) \in Nat /\ Cardinality(active) < MaxConcurrent /\ d \notin active
    BY FS_CardinalityType DEF Admit, ServiceInv, QueueAndSlots
  <1>2. queue = <<>> /\ queue' = <<>>
    BY <1>1, CapacityAssumption DEF Admit, ServiceInv, SlotsSharedAndFull
  <1>3. active' = active \cup {d} /\ IsFiniteSet(active') /\ Cardinality(active') = Cardinality(active) + 1
    BY <1>1, FS_AddElement DEF Admit, ServiceInv, QueueAndSlots
  <1>4. Queued(queue) = {} /\ Queued(queue') = {} /\ d \notin Item
    BY <1>2, ItemIsPair DEF Queued, Front
  <1>5. Live' \cap Item = Live \cap Item
    BY <1>3, <1>4 DEF Live
  <1>6. TypeOK'
    BY <1>3, ItemIsPair DEF Admit, ServiceInv, TypeOK, Work
  <1>7. SlotsSharedAndFull'
    BY <1>1, <1>2, <1>3, CapacityAssumption DEF SlotsSharedAndFull
  <1>8. QueueAndSlots'
    BY <1>2, <1>3, <1>4 DEF Admit, ServiceInv, QueueAndSlots
  <1>9. LiveHasNotEnded' /\ InputsReleased'
    BY <1>5 DEF Admit, ServiceInv, RecordsFollowRuns, LiveHasNotEnded, InputsReleased, Live, Queued
  <1>10. DoneWhenAllEnded' /\ WorkHasRecord' /\ SizeIsTrue'
    BY <1>5, SameRecords DEF Admit
  <1>11. QED
    BY <1>6, <1>7, <1>8, <1>9, <1>10 DEF ServiceInv, RecordsFollowRuns

LEMMA StartedStep ==
    ASSUME ServiceInv, NEW k \in Work, WorkerStarted(k)
    PROVE  ServiceInv'
  <1>1. \A r \in Item : item'[r] = IF r = k THEN [item[r] EXCEPT !.status = "running"] ELSE item[r]
    BY DEF WorkerStarted, ServiceInv, TypeOK
  <1>2. \A r \in Item : /\ item'[r].input = item[r].input
                        /\ item'[r].status = IF r = k THEN "running" ELSE item[r].status
    BY <1>1 DEF ServiceInv, TypeOK
  <1>3. TypeOK'
    BY <1>1 DEF WorkerStarted, ServiceInv, TypeOK
  <1>4. Live' = Live /\ queue' = queue /\ active' = active /\ k \in Live
    BY DEF WorkerStarted, Live, Queued, Front
  <1>5. QueueAndSlots' /\ SlotsSharedAndFull'
    BY <1>4 DEF WorkerStarted, ServiceInv, QueueAndSlots, SlotsSharedAndFull, Queued, Front, Distinct
  <1>6. LiveHasNotEnded'
    BY <1>2, <1>4 DEF ServiceInv, LiveHasNotEnded
  <1>7. InputsReleased'
    BY <1>2, <1>4 DEF ServiceInv, RecordsFollowRuns, InputsReleased, Queued, Front
  <1>8. DoneWhenAllEnded' /\ WorkHasRecord' /\ SizeIsTrue'
    <2>1. k \in Item => item[k].status \in {"queued", "running"}
      BY <1>4 DEF ServiceInv, LiveHasNotEnded
    <2>2. \A r \in Item : item'[r].status = item[r].status
                          \/ {item'[r].status, item[r].status} \cap (Terminal \cup {"none"}) = {}
      BY <1>2, <2>1 DEF Terminal
    <2>3. record' = record
      BY DEF WorkerStarted
    <2>4. QED
      BY <1>4, <2>2, <2>3, SameRecords
  <1>9. QED
    BY <1>3, <1>5, <1>6, <1>7, <1>8 DEF ServiceInv, RecordsFollowRuns

LEMMA ShutdownStep == ServiceInv /\ Shutdown => ServiceInv'
  <1> SUFFICES ASSUME ServiceInv, Shutdown PROVE ServiceInv'
    OBVIOUS
  <1>1. queue' = <<>> /\ Queued(queue') = {} /\ Distinct(queue') /\ active' = active /\ Live' = active
    BY DEF Shutdown, Queued, Front, Distinct, Live
  <1>2. \A r \in Item : /\ item'[r].status = item[r].status
                        /\ item'[r].input = (item[r].input /\ r \notin Queued(queue))
    BY DEF Shutdown, ServiceInv, TypeOK, Queued
  <1>3. TypeOK'
    <2>1. \A r \in Item : (IF r \in Front(queue, Len(queue)) THEN [item[r] EXCEPT !.input = FALSE]
                                                             ELSE item[r])
                          \in [status : {"none", "queued", "running"} \cup Terminal, input : BOOLEAN]
      BY DEF ServiceInv, TypeOK
    <2>2. item' \in [Item -> [status : {"none", "queued", "running"} \cup Terminal, input : BOOLEAN]]
      BY <2>1 DEF Shutdown
    <2>3. queue' \in Seq(Item)
      BY <1>1
    <2>4. aborted' \in SUBSET Work /\ stopping' \in BOOLEAN
      BY DEF Shutdown, ServiceInv, TypeOK
    <2>5. QED
      BY <2>2, <2>3, <2>4 DEF Shutdown, ServiceInv, TypeOK
  <1>4. QueueAndSlots' /\ SlotsSharedAndFull'
    BY <1>1 DEF ServiceInv, QueueAndSlots, SlotsSharedAndFull
  <1>5. LiveHasNotEnded'
    BY <1>1, <1>2 DEF ServiceInv, LiveHasNotEnded, Live
  <1>6. InputsReleased'
    <2>1. \A r \in Item : item[r].input <=> r \in Live
      BY DEF ServiceInv, RecordsFollowRuns, InputsReleased, Live, Queued
    <2>2. Queued(queue) \cap active = {}
      BY DEF ServiceInv, QueueAndSlots
    <2>3. \A r \in Item : item'[r].input <=> r \in active
      BY <1>2, <2>1, <2>2 DEF Live
    <2>4. QED
      BY <1>1, <2>3 DEF InputsReleased, Queued
  <1>7. DoneWhenAllEnded' /\ WorkHasRecord' /\ SizeIsTrue'
    BY <1>1, <1>2, SameRecords DEF Shutdown, Live
  <1>8. QED
    BY <1>3, <1>4, <1>5, <1>6, <1>7 DEF ServiceInv, RecordsFollowRuns

LEMMA TickStep == ServiceInv /\ Tick => ServiceInv'
  <1> SUFFICES ASSUME ServiceInv, Tick PROVE ServiceInv'
    OBVIOUS
  <1>1. \A c \in Batch : /\ record'[c].size = record[c].size /\ record'[c].done = record[c].done
    BY DEF Tick, ServiceInv, TypeOK
  <1>2. record' \in [Batch -> [size : 0 .. MaxSize, done : BOOLEAN, left : 0 .. Ttl]]
    <2>1. \A c \in Batch : Down(record[c].left) \in 0 .. Ttl
      BY CapacityAssumption DEF Down, ServiceInv, TypeOK
    <2>2. QED
      BY <2>1 DEF Tick, ServiceInv, TypeOK
  <1>3. /\ TypeOK' /\ QueueAndSlots' /\ SlotsSharedAndFull' /\ LiveHasNotEnded' /\ InputsReleased'
        /\ Live' = Live
    BY <1>2 DEF Tick, ServiceInv, TypeOK, QueueAndSlots, SlotsSharedAndFull, LiveHasNotEnded, Live,
                RecordsFollowRuns, InputsReleased, Queued, Front
  <1>4. DoneWhenAllEnded' /\ WorkHasRecord' /\ SizeIsTrue'
    BY <1>1, <1>3, SameRecords DEF Tick
  <1>5. QED
    BY <1>3, <1>4 DEF ServiceInv, RecordsFollowRuns

LEMMA QuietStep ==
    ASSUME ServiceInv, UNCHANGED vars \/ \E d \in Direct : Disconnect(d)
    PROVE  ServiceInv'
  <1>1. UNCHANGED <<record, item, queue, active, phase, stopping>> /\ aborted' \in SUBSET Work
    BY DEF vars, Disconnect, ServiceInv, TypeOK, Work
  <1>2. QED
    BY <1>1 DEF ServiceInv, TypeOK, QueueAndSlots, SlotsSharedAndFull, LiveHasNotEnded, Live, Queued,
                Front, RecordsFollowRuns, InputsReleased, DoneWhenAllEnded, WorkHasRecord, Held,
                RunsOf, SizeIsTrue

\* The service keeps its invariant in whatever order it is used.
LEMMA ServiceStep == ServiceInv /\ ([Next]_vars \/ Clean) => ServiceInv'
  BY CreateStep, CleanStep, AdmitStep, StartedStep, SettleStep, ShutdownStep, TickStep, QuietStep
     DEF Next, Worker, Cleanup, Clean

-----------------------------------------------------------------------------
(* The page *)

\* A batch that was made, and one none of whose runs is under way.
Started(b) == item[<<b, 1>>].status # "none"
Ended(b) == \A i \in 1 .. MaxSize : item[<<b, i>>].status \in Terminal \cup {"none"}
OthersEnded(x) == \A b \in mine \ {x} : Ended(b)
AllEndedOfMine == \A b \in mine : Ended(b)

\* A snapshot names every run of its batch, and no end that is not one.
TrueSnapshot(runs, b) ==
    /\ DOMAIN runs = {i \in 1 .. MaxSize : item[<<b, i>>].status # "none"}
    /\ \A i \in DOMAIN runs : runs[i] \in Terminal => item[<<b, i>>].status = runs[i]

PageIsTyped ==
    /\ page \in [status : {"idle", "creating", "polling", "finished", "error"},
                 batch : Batch \cup {NoBatch}, succeeded : BOOLEAN, started : BOOLEAN]
    /\ late \in {0} \cup FolderSize
    /\ mine \subseteq Batch

\* Which request or answer goes with which state of the page.
CallFollowsPage ==
    /\ call.kind \in {"none", "failed", "create", "accepted", "get", "snapshot"}
    /\ call.kind = "none" => call = NoCall
    /\ call.kind = "create" => page.status = "creating" /\ call.size \in FolderSize
    /\ call.kind = "accepted" => page.status = "creating" /\ call.batch \in Batch /\ Started(call.batch)
    /\ call.kind = "get" => page.status = "polling" /\ call.batch = page.batch
    /\ call.kind = "snapshot" => page.status = "polling" /\ TrueSnapshot(call.runs, page.batch)
    /\ call.kind = "failed" => page.status \in {"creating", "polling"}
    /\ page.status = "creating" => call.kind # "none"
    /\ page.status \in {"polling", "finished"} => page.batch \in Batch /\ Started(page.batch)

\* What may be under way of this page's batches.
OneUnderWay ==
    /\ \A b \in mine : Started(b)
    /\ \E x \in Batch \cup {NoBatch} : OthersEnded(x)
    /\ late # 0 => AllEndedOfMine
    /\ page.status \in {"idle", "finished"} => late = 0 /\ AllEndedOfMine
    /\ call.kind = "create" => late = 0 /\ AllEndedOfMine
    /\ call.kind = "accepted" => late = 0 /\ OthersEnded(call.batch)
    /\ page.status = "polling" => late = 0 /\ OthersEnded(page.batch)

PageInv == ServiceInv /\ PageIsTyped /\ CallFollowsPage /\ VerdictIsTrue /\ OneUnderWay

\* A batch is made under an id that nobody had; its runs are named for good then,
\* and an end is for good.
Keeps ==
    \A b \in Batch : Started(b) =>
        \A i \in 1 .. MaxSize :
            /\ item'[<<b, i>>].status = "none" <=> item[<<b, i>>].status = "none"
            /\ item[<<b, i>>].status \in Terminal => item'[<<b, i>>].status = item[<<b, i>>].status

LEMMA FreshKeeps ==
    ASSUME ServiceInv, NEW b \in Fresh, NEW n \in 1 .. MaxSize, CreateBatch(b, n)
    PROVE  Keeps /\ Started(b)'
  <1>1. b \in Batch /\ ~Started(b) /\ 1 \in 1 .. MaxSize
    BY CapacityAssumption DEF Fresh, Started
  <1>2. \A c \in Batch, i \in 1 .. MaxSize :
          item'[<<c, i>>] = IF c = b THEN IF i <= n THEN [status |-> "queued", input |-> TRUE] ELSE NoItem
                            ELSE item[<<c, i>>]
    BY ItemIsPair DEF CreateBatch
  <1>3. Keeps
    BY <1>1, <1>2 DEF Keeps
  <1>4. item'[<<b, 1>>] = [status |-> "queued", input |-> TRUE]
    BY <1>1, <1>2
  <1>5. QED
    BY <1>3, <1>4 DEF Started

LEMMA StatusKeeps ==
    ASSUME \A r \in Item : /\ item'[r].status = "none" <=> item[r].status = "none"
                           /\ item[r].status \in Terminal => item'[r].status = item[r].status
    PROVE  Keeps
  BY ItemIsPair DEF Keeps

LEMMA SettleKeeps ==
    ASSUME ServiceInv, NEW k \in Work, Settle(k)
    PROVE  Keeps
  <1>1. PICK end \in Terminal : item' = IF k \in Item THEN [item EXCEPT ![k] = Outcome(k, end)] ELSE item
    BY DEF Settle
  <1>2. \A r \in Item : item'[r].status = IF r = k THEN end ELSE item[r].status
    BY <1>1 DEF Outcome, ServiceInv, TypeOK
  <1>3. k \in Item => item[k].status \in {"queued", "running"}
    BY DEF Settle, ServiceInv, LiveHasNotEnded, Live
  <1>4. \A r \in Item : /\ item'[r].status = "none" <=> item[r].status = "none"
                        /\ item[r].status \in Terminal => item'[r].status = item[r].status
    BY <1>2, <1>3 DEF Terminal
  <1>5. QED
    BY <1>4, StatusKeeps

LEMMA StartedKeeps ==
    ASSUME ServiceInv, NEW k \in Work, WorkerStarted(k)
    PROVE  Keeps
  <1>1. \A r \in Item : item'[r].status = IF r = k THEN "running" ELSE item[r].status
    BY DEF WorkerStarted, ServiceInv, TypeOK
  <1>2. k \in Item => item[k].status \in {"queued", "running"}
    BY DEF WorkerStarted, ServiceInv, LiveHasNotEnded, Live
  <1>3. \A r \in Item : /\ item'[r].status = "none" <=> item[r].status = "none"
                        /\ item[r].status \in Terminal => item'[r].status = item[r].status
    BY <1>1, <1>2 DEF Terminal
  <1>4. QED
    BY <1>3, StatusKeeps

LEMMA ShutdownKeeps == ServiceInv /\ Shutdown => Keeps
  <1> SUFFICES ASSUME ServiceInv, Shutdown PROVE Keeps
    OBVIOUS
  <1>1. \A r \in Item : item'[r].status = item[r].status
    BY DEF Shutdown, ServiceInv, TypeOK
  <1>2. QED
    BY <1>1, StatusKeeps

LEMMA SameKeeps == item' = item => Keeps
  BY StatusKeeps

\* The service's own steps, those of the page apart.
Background ==
    /\ listening
    /\ \/ Cleanup
       \/ \E d \in Direct : Admit(d) \/ Disconnect(d)
       \/ \E k \in Work : Worker(k)
       \/ Shutdown
       \/ Tick
    /\ UNCHANGED pageVars

LEMMA BackgroundKeeps == ServiceInv /\ Background => Keeps
  BY SameKeeps, SettleKeeps, StartedKeeps, ShutdownKeeps
     DEF Background, Cleanup, Admit, Disconnect, Worker, Tick

\* What is kept of a batch keeps its end, and the truth of what was said of it.
LEMMA KeepsFacts ==
    ASSUME Keeps, NEW b \in Batch, Started(b)
    PROVE  /\ Started(b)'
           /\ Ended(b) => Ended(b)'
           /\ \A runs : TrueSnapshot(runs, b) => TrueSnapshot(runs, b)'
  <1>1. 1 \in 1 .. MaxSize
    BY CapacityAssumption
  <1>2. \A i \in 1 .. MaxSize :
          /\ item'[<<b, i>>].status = "none" <=> item[<<b, i>>].status = "none"
          /\ item[<<b, i>>].status \in Terminal => item'[<<b, i>>].status = item[<<b, i>>].status
    BY DEF Keeps
  <1>3. Started(b)'
    BY <1>1, <1>2 DEF Started
  <1>4. Ended(b) => Ended(b)'
    BY <1>2 DEF Ended
  <1>5. ASSUME NEW runs, TrueSnapshot(runs, b) PROVE TrueSnapshot(runs, b)'
    <2>1. DOMAIN runs = {i \in 1 .. MaxSize : item'[<<b, i>>].status # "none"}
      BY <1>2, <1>5 DEF TrueSnapshot
    <2>2. \A i \in DOMAIN runs : runs[i] \in Terminal => item'[<<b, i>>].status = runs[i]
      BY <1>2, <1>5 DEF TrueSnapshot
    <2>3. QED
      BY <2>1, <2>2 DEF TrueSnapshot
  <1>6. QED
    BY <1>3, <1>4, <1>5

PageHalf == PageIsTyped /\ CallFollowsPage /\ VerdictIsTrue /\ OneUnderWay

\* Whatever the service does, what the page shows and expects stays true.
LEMMA VerdictKept ==
    ASSUME PageInv, Keeps, page' = page
    PROVE  VerdictIsTrue'
  <1>1. SUFFICES ASSUME page.status = "finished"
                 PROVE  LET runs == {r \in Item : r[1] = page.batch /\ item'[r].status # "none"} IN
                        /\ runs # {}
                        /\ \A r \in runs : item'[r].status \in Terminal
                        /\ page.succeeded <=> \A r \in runs : item'[r].status = "completed"
    BY DEF VerdictIsTrue
  <1>2. page.batch \in Batch /\ Started(page.batch)
    BY <1>1 DEF PageInv, CallFollowsPage
  <1>3. \A r \in Item : r[1] = page.batch =>
          /\ item'[r].status = "none" <=> item[r].status = "none"
          /\ item[r].status \in Terminal => item'[r].status = item[r].status
    BY <1>2, ItemIsPair DEF Keeps
  <1>4. {r \in Item : r[1] = page.batch /\ item'[r].status # "none"}
          = {r \in Item : r[1] = page.batch /\ item[r].status # "none"}
    BY <1>3
  <1>5. LET runs == {r \in Item : r[1] = page.batch /\ item[r].status # "none"} IN
        /\ runs # {}
        /\ \A r \in runs : item[r].status \in Terminal
        /\ page.succeeded <=> \A r \in runs : item[r].status = "completed"
    BY <1>1 DEF PageInv, VerdictIsTrue
  <1>6. QED
    BY <1>3, <1>4, <1>5

LEMMA ServiceOnly ==
    ASSUME PageInv, Keeps, UNCHANGED pageVars
    PROVE  PageHalf'
  <1> USE DEF pageVars
  <1>1. VerdictIsTrue'
    BY VerdictKept
  <1>2. PageIsTyped'
    BY DEF PageInv, PageIsTyped
  <1>3. CallFollowsPage'
    BY KeepsFacts DEF PageInv, CallFollowsPage
  <1>4. \A b \in mine : b \in Batch /\ Started(b)
    BY DEF PageInv, PageIsTyped, OneUnderWay
  <1>5. \A b \in mine : Started(b)' /\ (Ended(b) => Ended(b)')
    BY <1>4, KeepsFacts
  <1>6. \A x : OthersEnded(x) => OthersEnded(x)'
    BY <1>5 DEF OthersEnded
  <1>7. AllEndedOfMine => AllEndedOfMine'
    BY <1>5 DEF AllEndedOfMine
  <1>8. OneUnderWay'
    BY <1>5, <1>6, <1>7 DEF PageInv, OneUnderWay
  <1>9. QED
    BY <1>1, <1>2, <1>3, <1>8 DEF PageHalf

\* The page's own steps leave the service as it is.
LEMMA PageOnly ==
    ASSUME PageInv, UNCHANGED vars, UNCHANGED mine,
           (\E n \in FolderSize : Start(n)) \/ Poll \/ Accepted \/ ShowError \/ Refuse \/ GiveUp
             \/ Lost \/ Close
    PROVE  PageHalf'
  <1>1. item' = item /\ mine' = mine
    BY DEF vars
  <1>2. /\ \A b : Started(b)' <=> Started(b)
        /\ \A x : OthersEnded(x)' <=> OthersEnded(x)
        /\ AllEndedOfMine' <=> AllEndedOfMine
    BY <1>1 DEF Started, OthersEnded, AllEndedOfMine, Ended
  <1>3. \A runs, b : TrueSnapshot(runs, b)' <=> TrueSnapshot(runs, b)
    BY <1>1 DEF TrueSnapshot
  <1>4. page'.status # "finished" \/ page' = page
    <2>1. (\E n \in FolderSize : Start(n)) => page'.status = "creating"
      BY DEF Start
    <2>2. Accepted => page'.status = "polling"
      BY DEF Accepted, PageInv, PageIsTyped
    <2>3. ShowError => page'.status = "error"
      BY DEF ShowError, PageInv, PageIsTyped
    <2>4. Poll \/ Refuse \/ GiveUp \/ Lost \/ Close => page' = page
      BY DEF Poll, Refuse, GiveUp, Lost, Close
    <2>5. QED
      BY <2>1, <2>2, <2>3, <2>4
  <1>5. VerdictIsTrue'
    BY <1>1, <1>4 DEF VerdictIsTrue, PageInv
  <1> USE DEF PageInv, PageIsTyped, CallFollowsPage, OneUnderWay, PageHalf, NoCall, Failed
  <1>6. CASE \E n \in FolderSize : Start(n)
    BY <1>1, <1>2, <1>5, <1>6 DEF Start, CanStart
  <1>7. CASE Poll
    BY <1>1, <1>2, <1>5, <1>7 DEF Poll
  <1>8. CASE Accepted
    BY <1>1, <1>2, <1>5, <1>8 DEF Accepted
  <1>9. CASE ShowError
    BY <1>1, <1>2, <1>5, <1>9 DEF ShowError
  <1>10. CASE Refuse
    BY <1>1, <1>2, <1>5, <1>10 DEF Refuse
  <1>11. CASE GiveUp
    BY <1>1, <1>2, <1>5, <1>11 DEF GiveUp
  <1>12. CASE Lost
    BY <1>1, <1>2, <1>5, <1>12 DEF Lost
  <1>13. CASE Close
    BY <1>1, <1>2, <1>3, <1>5, <1>13 DEF Close
  <1>14. QED
    BY <1>6, <1>7, <1>8, <1>9, <1>10, <1>11, <1>12, <1>13

\* The page's verdict is drawn from a snapshot that is still true of every end.
LEMMA ShowStep ==
    ASSUME PageInv, Show
    PROVE  PageHalf'
  <1>1. UNCHANGED vars /\ UNCHANGED <<late, mine>> /\ call.kind = "snapshot" /\ call' = NoCall
    BY DEF Show
  <1>2. item' = item
    BY <1>1 DEF vars
  <1> DEFINE b == page.batch
  <1>3. /\ page.status = "polling" /\ TrueSnapshot(call.runs, b) /\ b \in Batch /\ Started(b)
        /\ late = 0 /\ OthersEnded(b)
    BY <1>1 DEF PageInv, CallFollowsPage, OneUnderWay
  <1>4. /\ \A c : Started(c)' <=> Started(c)
        /\ \A x : OthersEnded(x)' <=> OthersEnded(x)
        /\ AllEndedOfMine' <=> AllEndedOfMine
    BY <1>1, <1>2 DEF Started, OthersEnded, AllEndedOfMine, Ended
  <1>5. CASE ~Over(call.runs)
    <2>1. page' = page
      BY <1>5 DEF Show
    <2>2. VerdictIsTrue'
      BY <2>1, <1>3 DEF VerdictIsTrue
    <2>3. QED
      BY <2>1, <2>2, <1>1, <1>3, <1>4
         DEF PageInv, PageIsTyped, CallFollowsPage, OneUnderWay, PageHalf, NoCall
  <1>6. CASE Over(call.runs)
    <2>1. /\ page'.status = "finished" /\ page'.batch = b
          /\ page'.succeeded <=> \A i \in DOMAIN call.runs : call.runs[i] = "completed"
          /\ page' \in [status : {"idle", "creating", "polling", "finished", "error"},
                        batch : Batch \cup {NoBatch}, succeeded : BOOLEAN, started : BOOLEAN]
      BY <1>6 DEF Show, PageInv, PageIsTyped
    <2>2. \A i \in 1 .. MaxSize :
            /\ i \in DOMAIN call.runs <=> item[<<b, i>>].status # "none"
            /\ i \in DOMAIN call.runs => item[<<b, i>>].status \in Terminal
                                         /\ item[<<b, i>>].status = call.runs[i]
      BY <1>3, <1>6 DEF TrueSnapshot, Over
    <2>3. Ended(b)
      BY <2>2 DEF Ended
    <2>4. AllEndedOfMine
      BY <2>3, <1>3 DEF AllEndedOfMine, OthersEnded
    <2> DEFINE runs == {r \in Item : r[1] = b /\ item[r].status # "none"}
    <2>5. \A r \in runs : r = <<b, r[2]>> /\ r[2] \in 1 .. MaxSize /\ item[r].status # "none"
      BY ItemIsPair
    <2>6. \A i \in DOMAIN call.runs : <<b, i>> \in runs /\ item[<<b, i>>].status = call.runs[i]
      BY <2>2, <1>3, ItemIsPair DEF TrueSnapshot
    <2>7. \A r \in runs : r[2] \in DOMAIN call.runs /\ item[r].status = call.runs[r[2]]
                          /\ item[r].status \in Terminal
      BY <2>2, <2>5
    <2>8. runs # {}
      BY <1>3, ItemIsPair, CapacityAssumption DEF Started
    <2>9. (\A i \in DOMAIN call.runs : call.runs[i] = "completed")
            <=> \A r \in runs : item[r].status = "completed"
      BY <2>6, <2>7
    <2>10. VerdictIsTrue'
      BY <2>1, <2>7, <2>8, <2>9, <1>2 DEF VerdictIsTrue
    <2>11. PageIsTyped'
      BY <2>1, <1>1 DEF PageInv, PageIsTyped
    <2>12. CallFollowsPage'
      BY <2>1, <1>1, <1>3, <1>4 DEF CallFollowsPage, NoCall
    <2>13. OneUnderWay'
      BY <2>1, <2>4, <1>1, <1>3, <1>4 DEF PageInv, OneUnderWay, NoCall
    <2>14. QED
      BY <2>10, <2>11, <2>12, <2>13 DEF PageHalf
  <1>7. QED
    BY <1>5, <1>6

\* A submission reaches the service: its batch is the only one not ended.
LEMMA SubmitStep ==
    ASSUME PageInv, NEW b \in Fresh, NEW n \in 1 .. MaxSize, CreateBatch(b, n),
           AllEndedOfMine, mine' = mine \cup {b}, UNCHANGED page, late' = 0,
           \/ call' = [kind |-> "accepted", batch |-> b] /\ page.status = "creating"
           \/ call' = call /\ late # 0
    PROVE  PageHalf'
  <1>1. Keeps /\ Started(b)' /\ b \in Batch
    BY FreshKeeps DEF PageInv, Fresh
  <1>2. \A c \in mine : c \in Batch /\ Started(c) /\ Ended(c)
    BY DEF PageInv, PageIsTyped, OneUnderWay, AllEndedOfMine
  <1>3. \A c \in mine : Started(c)' /\ Ended(c)'
    BY <1>1, <1>2, KeepsFacts
  <1>4. (\A c \in mine' : Started(c)') /\ OthersEnded(b)'
    BY <1>1, <1>3 DEF OthersEnded
  <1>5. page.status \in {"polling", "finished"} => page.batch \in Batch /\ Started(page.batch)'
    BY <1>1, KeepsFacts DEF PageInv, CallFollowsPage
  <1>6. VerdictIsTrue' /\ PageIsTyped'
    BY <1>1, VerdictKept DEF PageInv, PageIsTyped
  <1>7. CASE call' = [kind |-> "accepted", batch |-> b] /\ page.status = "creating"
    <2>1. CallFollowsPage'
      BY <1>1, <1>7 DEF CallFollowsPage
    <2>2. OneUnderWay'
      BY <1>1, <1>4, <1>7 DEF OneUnderWay
    <2>3. QED
      BY <1>6, <2>1, <2>2 DEF PageHalf
  <1>8. CASE call' = call /\ late # 0
    <2>1. call.kind \notin {"create", "accepted"} /\ page.status \notin {"idle", "finished", "polling"}
      BY <1>8 DEF PageInv, OneUnderWay
    <2>2. CallFollowsPage'
      BY <1>5, <1>8, <2>1 DEF PageInv, CallFollowsPage
    <2>3. OneUnderWay'
      BY <1>1, <1>4, <1>8, <2>1 DEF OneUnderWay
    <2>4. QED
      BY <1>6, <2>2, <2>3 DEF PageHalf
  <1>9. QED
    BY <1>7, <1>8

\* What the service answers is true of the batch it was asked about.
LEMMA AnswerStep ==
    ASSUME PageInv, Answer
    PROVE  PageHalf'
  <1> DEFINE b == page.batch
  <1>1. /\ item' = item /\ page' = page /\ late' = late /\ mine' = mine /\ call.kind = "get"
        /\ page.status = "polling" /\ call.batch = b /\ b \in Batch /\ Started(b)
    BY DEF Answer, PageInv, CallFollowsPage
  <1>2. Keeps
    BY <1>1, SameKeeps
  <1>3. VerdictIsTrue' /\ PageIsTyped'
    BY <1>1, <1>2, VerdictKept DEF PageInv, PageIsTyped
  <1>4. /\ \A c : Started(c)' <=> Started(c)
        /\ \A x : OthersEnded(x)' <=> OthersEnded(x)
        /\ AllEndedOfMine' <=> AllEndedOfMine
    BY <1>1 DEF Started, OthersEnded, AllEndedOfMine, Ended
  <1>5. CASE b \in Held \ Expired
    <2> DEFINE n == record[b].size
               runs == [i \in 1 .. n |-> Said(item[<<b, i>>].status)]
    <2>1. call' = [kind |-> "snapshot", runs |-> runs]
      BY <1>1, <1>5 DEF Answer
    <2>2. n \in 1 .. MaxSize
      BY <1>5, CapacityAssumption DEF Held, PageInv, ServiceInv, TypeOK
    <2>3. \A i \in 1 .. MaxSize : item[<<b, i>>].status # "none" <=> i <= n
      BY <1>5 DEF PageInv, ServiceInv, SizeIsTrue
    <2>4. \A i \in 1 .. n : runs[i] = Said(item[<<b, i>>].status)
      OBVIOUS
    <2>5. \A i \in 1 .. n : runs[i] \in Terminal => item[<<b, i>>].status = runs[i]
      BY <2>4 DEF Said, Terminal
    <2>6. DOMAIN runs = {i \in 1 .. MaxSize : item[<<b, i>>].status # "none"}
      <3>1. DOMAIN runs = 1 .. n
        OBVIOUS
      <3>2. 1 .. n = {i \in 1 .. MaxSize : i <= n}
        BY <2>2, CapacityAssumption
      <3>3. QED
        BY <3>1, <3>2, <2>3
    <2>7. PICK said : call' = [kind |-> "snapshot", runs |-> said] /\ TrueSnapshot(said, b)
      BY <2>1, <2>5, <2>6 DEF TrueSnapshot
    <2>8. TrueSnapshot(said, page.batch)'
      BY <2>7, <1>1 DEF TrueSnapshot
    <2>9. TrueSnapshot(call.runs, page.batch)'
      BY <2>7, <2>8
    <2>10. CallFollowsPage'
      BY <1>1, <1>4, <2>7, <2>9 DEF CallFollowsPage
    <2>11. OneUnderWay'
      BY <1>1, <1>4, <2>7 DEF PageInv, OneUnderWay
    <2>12. QED
      BY <1>3, <2>10, <2>11 DEF PageHalf
  <1>6. CASE b \notin Held \ Expired
    <2>1. call' = Failed
      BY <1>1, <1>6 DEF Answer
    <2>2. QED
      BY <1>1, <1>3, <1>4, <2>1 DEF PageInv, CallFollowsPage, OneUnderWay, PageHalf, Failed
  <1>7. QED
    BY <1>5, <1>6

-----------------------------------------------------------------------------
(* The two together *)

LEMMA SizeIsLegal ==
    ASSUME PageInv, call.kind = "create", call.size <= MaxSize
    PROVE  call.size \in 1 .. MaxSize
  <1>1. call.size \in FolderSize
    BY DEF PageInv, CallFollowsPage
  <1>2. PICK n \in FolderSize : n = call.size
    BY <1>1
  <1>3. n \in Nat \ {0} /\ MaxSize \in Nat
    BY SizeAssumption, CapacityAssumption
  <1>4. QED
    BY <1>2, <1>3

\* Whatever page, routes and callers do, the service takes a step of its own.
LEMMA PageStepIsService ==
    PageInv /\ [PageNext]_allVars => [Next]_vars \/ Clean
  <1> SUFFICES ASSUME PageInv, [PageNext]_allVars PROVE [Next]_vars \/ Clean
    OBVIOUS
  <1>1. CASE UNCHANGED allVars
    BY <1>1 DEF allVars
  <1>2. CASE (\E n \in FolderSize : Start(n)) \/ Poll \/ Returns \/ Refuse \/ GiveUp \/ Lost \/ Close
    BY <1>2 DEF Start, Poll, Returns, Accepted, Show, ShowError, Refuse, GiveUp, Lost, Close
  <1>3. CASE Submit
    <2>1. call.size \in 1 .. MaxSize
      BY <1>3, SizeIsLegal DEF Submit
    <2>2. QED
      BY <1>3, <2>1 DEF Submit, Next, Fresh
  <1>4. CASE Answer
    BY <1>4 DEF Answer, Clean
  <1>5. CASE SubmitLate
    BY <1>5 DEF SubmitLate, Next, Fresh
  <1>6. CASE \E n \in OtherSize : SubmitOther(n)
    BY <1>6, SizeAssumption DEF SubmitOther, Next, Fresh
  <1>7. CASE Background
    BY <1>7 DEF Background, Next
  <1>8. QED
    BY <1>1, <1>2, <1>3, <1>4, <1>5, <1>6, <1>7 DEF PageNext, Background

LEMMA PageInit_Inv == PageInit => PageInv
  <1> SUFFICES ASSUME PageInit PROVE PageInv
    OBVIOUS
  <1>1. ServiceInv
    BY ServiceInit DEF PageInit
  <1>2. PageIsTyped /\ CallFollowsPage /\ VerdictIsTrue
    BY DEF PageInit, PageIsTyped, CallFollowsPage, VerdictIsTrue, NoCall
  <1>3. OneUnderWay
    BY DEF PageInit, OneUnderWay, OthersEnded, AllEndedOfMine, NoCall
  <1>4. QED
    BY <1>1, <1>2, <1>3 DEF PageInv

LEMMA PageStep == PageInv /\ [PageNext]_allVars => PageInv'
  <1> SUFFICES ASSUME PageInv, [PageNext]_allVars PROVE PageInv'
    OBVIOUS
  <1>1. ServiceInv'
    BY PageStepIsService, ServiceStep DEF PageInv
  <1>2. PageHalf'
    <2>1. CASE UNCHANGED allVars
      BY <2>1, SameKeeps, ServiceOnly DEF allVars, vars
    <2>2. CASE (\E n \in FolderSize : Start(n)) \/ Poll \/ Accepted \/ ShowError \/ Refuse \/ GiveUp
                 \/ Lost \/ Close
      <3>1. UNCHANGED vars /\ UNCHANGED mine
        BY <2>2 DEF Start, Poll, Accepted, ShowError, Refuse, GiveUp, Lost, Close
      <3>2. QED
        BY <2>2, <3>1, PageOnly
    <2>3. CASE Show
      BY <2>3, ShowStep
    <2>4. CASE Answer
      BY <2>4, AnswerStep
    <2>5. CASE Submit
      <3>1. PICK n \in 1 .. MaxSize : n = call.size
        BY <2>5, SizeIsLegal DEF Submit
      <3>2. page.status = "creating" /\ AllEndedOfMine /\ UNCHANGED page /\ late' = 0
        BY <2>5 DEF Submit, PageInv, CallFollowsPage, OneUnderWay
      <3>3. PICK b \in Fresh : /\ CreateBatch(b, n)
                               /\ call' = [kind |-> "accepted", batch |-> b]
                               /\ mine' = mine \cup {b}
        BY <2>5, <3>1 DEF Submit
      <3>4. QED
        BY <3>2, <3>3, SubmitStep
    <2>6. CASE SubmitLate
      <3>1. late \in 1 .. MaxSize /\ late # 0 /\ AllEndedOfMine
        BY <2>6 DEF SubmitLate, PageInv, OneUnderWay
      <3>2. PICK b \in Fresh : CreateBatch(b, late) /\ mine' = mine \cup {b}
        BY <2>6 DEF SubmitLate
      <3>3. late' = 0 /\ UNCHANGED <<page, call>>
        BY <2>6 DEF SubmitLate
      <3>4. QED
        BY <3>1, <3>2, <3>3, SubmitStep
    <2>7. CASE \E n \in OtherSize : SubmitOther(n)
      <3>1. PICK n \in OtherSize, b \in Fresh : CreateBatch(b, n)
        BY <2>7 DEF SubmitOther
      <3>2. Keeps
        BY <3>1, SizeAssumption, FreshKeeps DEF PageInv
      <3>3. QED
        BY <2>7, <3>2, ServiceOnly DEF SubmitOther
    <2>8. CASE Background
      BY <2>8, BackgroundKeeps, ServiceOnly DEF Background, PageInv
    <2>9. QED
      BY <2>1, <2>2, <2>3, <2>4, <2>5, <2>6, <2>7, <2>8 DEF PageNext, Returns, Background
  <1>3. QED
    BY <1>1, <1>2 DEF PageInv, PageHalf

LEMMA PageInvHolds == PageSpec => []PageInv
  BY PageInit_Inv, PageStep, PTL DEF PageSpec

\* However batch and direct runs compete, however the page and other callers
\* submit and however the service shuts down, no more runs are active than there
\* are slots, and none is free while a run waits (startManagedRun, drain).
THEOREM SlotsAreSharedAndFull == PageSpec => []SlotsSharedAndFull
  <1>1. PageInv => SlotsSharedAndFull
    BY DEF PageInv, ServiceInv
  <1>2. QED
    BY <1>1, PageInvHolds, PTL

\* Records and private inputs are held as long as the runs need them
\* (markBatchTerminal, cleanupExpired, privateInput).
THEOREM RecordsAreTrue == PageSpec => []RecordsFollowRuns
  <1>1. PageInv => RecordsFollowRuns
    BY DEF PageInv, ServiceInv
  <1>2. QED
    BY <1>1, PageInvHolds, PTL

\* The page announces an end only when every run of its batch came to that end
\* (poll, getBatch).
THEOREM VerdictsAreTrue == PageSpec => []VerdictIsTrue
  <1>1. PageInv => VerdictIsTrue
    BY DEF PageInv
  <1>2. QED
    BY <1>1, PageInvHolds, PTL

\* Of all the batches a page has submitted, those it gave up on included, at most
\* one is under way (started).
THEOREM OneBatchUnderWay == PageSpec => []OneBatchAtATime
  <1>1. PageInv => OneBatchAtATime
    <2> SUFFICES ASSUME PageInv, NEW b \in mine, NEW c \in mine, b # c
                 PROVE  \E x \in {b, c} : \A r \in RunsOf(x) : item[r].status \in Terminal
      BY DEF OneBatchAtATime
    <2>1. PICK x \in {b, c} : Ended(x)
      BY DEF PageInv, OneUnderWay, OthersEnded
    <2>2. x \in Batch
      BY DEF PageInv, PageIsTyped
    <2>3. ASSUME NEW r \in RunsOf(x) PROVE item[r].status \in Terminal
      <3>1. r = <<x, r[2]>> /\ r[2] \in 1 .. record[x].size
        BY <2>3 DEF RunsOf
      <3>2. record[x].size \in 0 .. MaxSize
        BY <2>2 DEF PageInv, ServiceInv, TypeOK
      <3>3. r[2] \in 1 .. MaxSize /\ r[2] <= record[x].size /\ x \in Held
        BY <3>1, <3>2, <2>2, CapacityAssumption DEF Held
      <3>4. item[<<x, r[2]>>].status # "none"
        BY <3>3 DEF PageInv, ServiceInv, SizeIsTrue
      <3>5. QED
        BY <2>1, <3>1, <3>3, <3>4 DEF Ended
    <2>4. QED
      BY <2>3
  <1>2. QED
    BY <1>1, PageInvHolds, PTL

=============================================================================
