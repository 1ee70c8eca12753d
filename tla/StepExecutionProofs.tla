-------------------------- MODULE StepExecutionProofs --------------------------
(***************************************************************************)
(* What one awaited phase of a step does, for any number of candidates,    *)
(* any timing and any number of changes of the page: the element acted on  *)
(* is the best one, what failed is blamed rightly, a condition reported to *)
(* hold did hold, and a stopped run begins no action.                      *)
(*                                                                         *)
(* The inductive invariant says where the phase is (PlaceInv), what its    *)
(* clocks tell of the page (TimeInv), what the questions asked so far have *)
(* shown of the candidates that have not changed since (LookInv), what is  *)
(* acted on (AimInv) and what a failure rests on (BlameInv).               *)
(***************************************************************************)
EXTENDS StepExecution, TLAPS


-----------------------------------------------------------------------------
(* The inductive invariant *)

\* Where a phase is and what has become of it: an outcome is final, and one that
\* is no cancellation is there only when the phase has ended.
PlaceInv ==
    /\ stopped => result = "cancelled"
    /\ result \in {"passed", "failed"} => pc = "over" /\ ~stopped
    /\ pc = "act" => calls > 0 /\ job \in Acting
    /\ pc = "position" => job \in Acting \cup {"assertion"}
    /\ pc \in {"load", "poll", "asked"} => job = "settle"
    /\ pc \in {"sweep", "look"} => job \notin {"settle", "navigate"}
    /\ pc = "sleep" => job \notin Asserting \cup {"navigate"}

\* What the clocks of the wait say of what the page did. In the time a sweep
\* takes the deadline is not passed.
TimeInv ==
    /\ since # -1 => unmetAt <= since /\ since <= now
    /\ observed => busyAt <= lastMutation
    /\ active = requests /\ requestedAt <= lastNetwork
    /\ pc = "asked" /\ domQuiet /\ domTracked => calm >= Quiet
    /\ pc \in {"position", "sweep", "look"} => now <= deadline

\* Only candidates passed over were seen, or could not be looked at; groups are
\* read all at once.
Asked ==
    /\ job # "text" => seen \cup unseen \subseteq 1 .. c - 1
    /\ job = "group" => c = 1

\* The candidates passed over do not fit, unless they changed since.
PassedOver == job \notin {"visible", "hidden"} => \A i \in 1 .. c - 1 : ~Held(i)

\* Of a frame it is not asked whether the element in it is visible.
FrameStages == job = "text" => stage # "visible"

\* The candidate being looked at has passed the stages before this one.
Examined ==
    job \in Acting \cup {"assertion"} /\ c \in steady /\ c <= Candidates =>
      /\ stage = "visible" => look[c] \in {"hidden", "other", "good"}
      /\ stage = "fingerprint" => look[c] \in {"other", "good"}

\* An action tries again only when it has asked about every candidate.
TriedAll == job \in Acting /\ pc = "sleep" => c > Candidates

\* The frames a search for text goes through are those there when it began.
FramesKnown ==
    job = "text" /\ pc = "look" =>
      \A i \in Candidate \cap steady : i \in seen <=> look[i] # "none"

\* What a wait has seen visible is visible, and what is not was seen not to be.
Glanced ==
    job \in {"visible", "hidden"} =>
      \A i \in Candidate \cap steady :
        /\ i \in seen => look[i] \in Visible
        /\ i < c /\ i \notin unseen /\ look[i] \in Visible => i \in seen

LookInv == Asked /\ FrameStages /\ PassedOver /\ Examined /\ TriedAll /\ FramesKnown /\ Glanced

\* The element acted on, or asserted about, has the recorded fingerprint as long
\* as it has not changed since it was looked at.
AimInv ==
    \/ pc = "act" /\ job # "navigate"
    \/ job = "assertion" /\ result = "passed"
    => (c \in steady => look[c] = "good")

\* What a failure for the reason why rests on, and in which phases it occurs.
Justified ==
    /\ why = "position" => job \in Acting \cup {"assertion"}
    /\ why = "frame" => ~frame /\ job \notin Awaited
    /\ why = "target" => job \in Acting \cup {"assertion"} /\ \A i \in Candidate : ~Held(i)
    /\ why = "mismatch" => job = "assertion"
    /\ why = "group" => job = "group" /\ \A i \in Candidate : ~Held(i)
    /\ why = "text" =>
         job = "text" /\ \A i \in {k \in seen : Held(k)} : \E j \in 1 .. i - 1 : ~Open(j)
    /\ why = "condition" => job \in Awaited
    /\ why = "action" => job = "group" \/ (job \in Acting /\ calls > 0)
    /\ calls > 0 => why = "action" /\ job \in Acting
    /\ why # "none"

BlameInv == result = "failed" => Justified

IInv == /\ TypeOK /\ PlaceInv /\ TimeInv /\ LookInv /\ AimInv /\ BlameInv /\ WaitIsTrue


-----------------------------------------------------------------------------
(* Types *)

\* The type invariant in three parts: the phase, the clocks and the page.
PhaseType ==
    /\ job \in Job
    /\ pc \in {"position", "sweep", "look", "sleep", "act", "load", "poll", "asked", "over"}
    /\ calls \in 0 .. Calls(job)
    /\ calls > 0 => pc \in {"act", "over"}
    /\ stopped \in BOOLEAN
    /\ result \in {"open", "passed", "failed", "cancelled"}
    /\ stopped => result # "open"
    /\ result = "open" => pc # "over"
    /\ why \in {"none", "position", "frame", "target", "action", "condition", "text",
                "mismatch", "group"}

ClockType ==
    /\ now \in Nat
    /\ wake \in Nat
    /\ deadline \in Nat
    /\ since \in Nat \cup {-1}
    /\ lastNetwork \in 0 .. now
    /\ lastMutation \in 0 .. now
    /\ unmetAt \in 0 .. now
    /\ busyAt \in 0 .. now
    /\ requestedAt \in 0 .. now
    /\ calm \in Nat
    /\ changes \in 0 .. MaxChanges

PageType ==
    /\ look \in [Candidate -> Look]
    /\ frame \in BOOLEAN
    /\ requests \in BOOLEAN
    /\ active \in BOOLEAN
    /\ active => requests
    /\ observed \in BOOLEAN
    /\ domTracked \in BOOLEAN
    /\ domQuiet \in BOOLEAN
    /\ evaluated \in BOOLEAN

SweepType ==
    /\ c \in Candidate \cup {Candidates + 1}
    /\ stage \in {"count", "visible", "fingerprint"}
    /\ seen \subseteq Candidate
    /\ unseen \subseteq Candidate
    /\ job # "text" => seen \cap unseen = {}
    /\ steady \subseteq Candidate \cup {0}

LEMMA TypeParts == TypeOK <=> PhaseType /\ ClockType /\ PageType /\ SweepType
  BY DEF TypeOK, PhaseType, ClockType, PageType, SweepType

LEMMA Constants ==
    /\ Candidates \in Nat \ {0} /\ Quiet \in Nat \ {0} /\ Stable \in Nat \ {0}
    /\ Retry \in Nat \ {0} /\ Limit \in Nat \ {0} /\ MaxChanges \in Nat
  BY ExecutionAssumption

\* A scan for text ends, looks into a visible frame or goes on to the next.
LEMMA ScanCases ==
    ASSUME SweepType, FrameStages, Scans
    PROVE  /\ pc = "look" /\ ~stopped /\ c <= Candidates /\ job = "text"
           /\ UNCHANGED <<job, now, wake, deadline, since, unmetAt>>
           /\ UNCHANGED <<look, frame, requests, lastMutation, observed, active>>
           /\ UNCHANGED <<lastNetwork, domTracked, seen, unseen, calls, steady, stopped>>
           /\ UNCHANGED <<busyAt, requestedAt, domQuiet, calm, evaluated, changes>>
           /\ \/ /\ c \notin seen \/ (stage = "count" /\ look[c] \notin {"other", "good"})
                 /\ pc' = "over" /\ result' = "failed" /\ why' = "text" /\ c' = c
                 /\ stage' = stage
              \/ /\ c \in seen /\ stage = "count" /\ look[c] \in {"other", "good"}
                 /\ stage' = "fingerprint" /\ pc' = pc /\ c' = c
                 /\ result' = result /\ why' = why
              \/ /\ c \in seen /\ stage = "fingerprint" /\ look[c] \in {"good", "hidden"}
                 /\ pc' = "over" /\ result' = "passed" /\ why' = "none" /\ c' = c
                 /\ stage' = stage
              \/ /\ c \in seen /\ stage = "fingerprint" /\ look[c] # "good"
                 /\ c' = c + 1 /\ stage' = "count" /\ pc' = pc
                 /\ result' = result /\ why' = why
  <1> USE DEF Scans, Still, Looking
  <1>1. ~stopped
    OBVIOUS
  <1>2. /\ pc = "look" /\ ~stopped /\ c <= Candidates /\ job = "text"
        /\ UNCHANGED <<job, now, wake, deadline, since, unmetAt>>
        /\ UNCHANGED <<look, frame, requests, lastMutation, observed, active>>
        /\ UNCHANGED <<lastNetwork, domTracked, seen, unseen, calls, steady, stopped>>
        /\ UNCHANGED <<busyAt, requestedAt, domQuiet, calm, evaluated, changes>>
    BY DEF waiting, page, tracker, busy
  <1>3. CASE c \notin seen
    <2>1. Over("failed", "text") /\ UNCHANGED <<c, stage>>
      BY <1>3
    <2>2. QED
      BY <1>1, <1>2, <1>3, <2>1 DEF Over
  <1>4. CASE c \in seen /\ stage = "count"
    <2>1. IF look[c] \in {"other", "good"}
          THEN stage' = "fingerprint" /\ UNCHANGED <<pc, c, end>>
          ELSE Over("failed", "text") /\ UNCHANGED <<c, stage>>
      BY <1>4
    <2>2. QED
      BY <1>1, <1>2, <1>4, <2>1 DEF Over, end
  <1>5. CASE c \in seen /\ stage = "fingerprint"
    <2>1. \/ /\ look[c] \in {"good", "hidden"} /\ Over("passed", "none")
             /\ UNCHANGED <<c, stage>>
          \/ /\ look[c] # "good" /\ NextCandidate /\ UNCHANGED end
      BY <1>5
    <2>2. QED
      BY <1>1, <1>2, <1>5, <2>1 DEF Over, NextCandidate, end
  <1>6. QED
    BY <1>2, <1>3, <1>4, <1>5 DEF SweepType, FrameStages

LEMMA PhaseTypeKept ==
    ASSUME PhaseType, SweepType, FrameStages, PlaceInv, [Next]_vars
    PROVE  PhaseType'
  <1> USE DEF PhaseType, PlaceInv, Calls, Job, Acting, Asserting, waiting, page, tracker, sweep, busy, end
  <1>1. CASE ElementChanges
    BY <1>1, Constants DEF ElementChanges, Changes
  <1>2. CASE FrameChanges
    BY <1>2, Constants DEF FrameChanges, Changes
  <1>3. CASE Mutates
    BY <1>3, Constants DEF Mutates, Changes
  <1>4. CASE Navigates
    BY <1>4, Constants DEF Navigates, Changes
  <1>5. CASE RequestBegins
    BY <1>5, Constants DEF RequestBegins, Changes
  <1>6. CASE RequestEnds
    BY <1>6, Constants DEF RequestEnds
  <1>7. CASE Tick
    BY <1>7, Constants DEF Tick
  <1>8. CASE Stop
    BY <1>8, Constants DEF Stop
  <1>9. CASE Abandons
    BY <1>9, Constants DEF Abandons, Still
  <1>10. CASE Positioned
    BY <1>10, Constants DEF Positioned, Still
  <1>11. CASE PositionFails
    BY <1>11, Constants DEF PositionFails, Over, Still
  <1>12. CASE Sweeps
    BY <1>12, Constants DEF Sweeps, Sleep, Over, Still
  <1>13. CASE Asks
    BY <1>13, Constants DEF Asks, Looking, NextCandidate, Still
  <1>14. CASE Resolves
    BY <1>14, Constants DEF Resolves, Looking, Over, Still
  <1>15. CASE Glances
    BY <1>15, Constants DEF Glances, Looking, NextCandidate, Still
  <1>16. CASE Scans
    BY <1>16, ScanCases
  <1>17. CASE ScanFails
    BY <1>17, Constants DEF ScanFails, Looking, NextCandidate, Over, Still
  <1>18. CASE ReadsGroups
    BY <1>18, Constants DEF ReadsGroups, Looking, Over, Still
  <1>19. CASE EvaluationFails
    BY <1>19, Constants DEF EvaluationFails, Looking, NextCandidate, Still
  <1>20. CASE Unresolved
    BY <1>20, Constants DEF Unresolved, Sleep, Over, Still
  <1>21. CASE Judges
    BY <1>21, Constants DEF Judges, Since, Satisfied, Unmet, Sleep, Over, Still
  <1>22. CASE Wakes
    BY <1>22, Constants DEF Wakes, TimeLeft, Over, Still
  <1>23. CASE CallDone
    BY <1>23, Constants DEF CallDone, Over, Still
  <1>24. CASE CallFails
    BY <1>24, Constants DEF CallFails, Over, Still
  <1>25. CASE Loaded
    BY <1>25, Constants DEF Loaded
  <1>26. CASE Polls
    BY <1>26, Constants DEF Polls, NetworkQuiet, Sleep, Over, Still
  <1>27. CASE Counts
    BY <1>27, Constants DEF Counts, Looking, NextCandidate, Still
  <1>28. CASE AsksDocument
    BY <1>28, Constants DEF AsksDocument, TimeLeft, Over, Still
  <1>29. CASE UNCHANGED vars
    BY <1>29 DEF vars
  <1>30. QED
    BY <1>1, <1>2, <1>3, <1>4, <1>5, <1>6, <1>7, <1>8, <1>9, <1>10, <1>11,
      <1>12, <1>13, <1>14, <1>15, <1>16, <1>17, <1>18, <1>19, <1>20, <1>21, <1>22,
      <1>23, <1>24, <1>25, <1>26, <1>27, <1>28, <1>29 DEF Next, Page, Phase


LEMMA ClockTypeKept ==
    ASSUME ClockType, SweepType, FrameStages, TimeInv, [Next]_vars
    PROVE  ClockType'
  <1> USE DEF ClockType, TimeInv, waiting, page, tracker, sweep, busy, end
  <1>1. CASE ElementChanges
    BY <1>1, Constants DEF ElementChanges, Changes
  <1>2. CASE FrameChanges
    BY <1>2, Constants DEF FrameChanges, Changes
  <1>3. CASE Mutates
    BY <1>3, Constants DEF Mutates, Changes
  <1>4. CASE Navigates
    BY <1>4, Constants DEF Navigates, Changes
  <1>5. CASE RequestBegins
    BY <1>5, Constants DEF RequestBegins, Changes
  <1>6. CASE RequestEnds
    BY <1>6, Constants DEF RequestEnds
  <1>7. CASE Tick
    BY <1>7, Constants DEF Tick
  <1>8. CASE Stop
    BY <1>8, Constants DEF Stop
  <1>9. CASE Abandons
    BY <1>9, Constants DEF Abandons, Still
  <1>10. CASE Positioned
    BY <1>10, Constants DEF Positioned, Still
  <1>11. CASE PositionFails
    BY <1>11, Constants DEF PositionFails, Over, Still
  <1>12. CASE Sweeps
    <2>1. CASE frame
      BY <1>12, <2>1 DEF Sweeps, Still
    <2>2. CASE ~frame /\ job \notin {"visible", "hidden"}
      BY <1>12, <2>2 DEF Sweeps, Still
    <2>3. CASE ~frame /\ job \in {"visible", "hidden"}
      <3>1. wake' = now + 1 /\ since' = -1 /\ unmetAt' = now /\ deadline' = deadline
        BY <1>12, <2>3 DEF Sweeps, Sleep
      <3>2. QED
        BY <1>12, <3>1 DEF Sweeps, Still
    <2>4. QED
      BY <2>1, <2>2, <2>3
  <1>13. CASE Asks
    BY <1>13, Constants DEF Asks, Looking, NextCandidate, Still
  <1>14. CASE Resolves
    BY <1>14, Constants DEF Resolves, Looking, Over, Still
  <1>15. CASE Glances
    BY <1>15, Constants DEF Glances, Looking, NextCandidate, Still
  <1>16. CASE Scans
    BY <1>16, ScanCases
  <1>17. CASE ScanFails
    BY <1>17, Constants DEF ScanFails, Looking, NextCandidate, Over, Still
  <1>18. CASE ReadsGroups
    BY <1>18, Constants DEF ReadsGroups, Looking, Over, Still
  <1>19. CASE EvaluationFails
    BY <1>19, Constants DEF EvaluationFails, Looking, NextCandidate, Still
  <1>20. CASE Unresolved
    BY <1>20, Constants DEF Unresolved, Sleep, Over, Still
  <1>21. CASE Judges
    BY <1>21, Constants DEF Judges, Since, Satisfied, Unmet, Sleep, Over, Still
  <1>22. CASE Wakes
    BY <1>22, Constants DEF Wakes, TimeLeft, Over, Still
  <1>23. CASE CallDone
    BY <1>23, Constants DEF CallDone, Over, Still
  <1>24. CASE CallFails
    BY <1>24, Constants DEF CallFails, Over, Still
  <1>25. CASE Loaded
    BY <1>25, Constants DEF Loaded
  <1>26. CASE Polls
    BY <1>26, Constants DEF Polls, NetworkQuiet, Sleep, Over, Still
  <1>27. CASE Counts
    BY <1>27, Constants DEF Counts, Looking, NextCandidate, Still
  <1>28. CASE AsksDocument
    BY <1>28, Constants DEF AsksDocument, TimeLeft, Over, Still
  <1>29. CASE UNCHANGED vars
    BY <1>29 DEF vars
  <1>30. QED
    BY <1>1, <1>2, <1>3, <1>4, <1>5, <1>6, <1>7, <1>8, <1>9, <1>10, <1>11,
      <1>12, <1>13, <1>14, <1>15, <1>16, <1>17, <1>18, <1>19, <1>20, <1>21, <1>22,
      <1>23, <1>24, <1>25, <1>26, <1>27, <1>28, <1>29 DEF Next, Page, Phase


LEMMA PageTypeKept ==
    ASSUME PageType, SweepType, FrameStages, [Next]_vars
    PROVE  PageType'
  <1> USE DEF PageType, waiting, page, tracker, sweep, busy, end
  <1>1. CASE ElementChanges
    BY <1>1, Constants DEF ElementChanges, Changes, Look, LookOf, FrameLook
  <1>2. CASE FrameChanges
    BY <1>2, Constants DEF FrameChanges, Changes, Look, LookOf, FrameLook
  <1>3. CASE Mutates
    BY <1>3, Constants DEF Mutates, Changes, Look, LookOf, FrameLook
  <1>4. CASE Navigates
    BY <1>4, Constants DEF Navigates, Changes, Look, LookOf, FrameLook
  <1>5. CASE RequestBegins
    BY <1>5, Constants DEF RequestBegins, Changes, Look, LookOf, FrameLook
  <1>6. CASE RequestEnds
    BY <1>6, Constants DEF RequestEnds, Look, LookOf, FrameLook
  <1>7. CASE Tick
    BY <1>7, Constants DEF Tick, Look, LookOf, FrameLook
  <1>8. CASE Stop
    BY <1>8, Constants DEF Stop, Look, LookOf, FrameLook
  <1>9. CASE Abandons
    BY <1>9, Constants DEF Abandons, Still, Look, LookOf, FrameLook
  <1>10. CASE Positioned
    BY <1>10, Constants DEF Positioned, Still, Look, LookOf, FrameLook
  <1>11. CASE PositionFails
    BY <1>11, Constants DEF PositionFails, Over, Still, Look, LookOf, FrameLook
  <1>12. CASE Sweeps
    BY <1>12, Constants DEF Sweeps, Sleep, Over, Still, Look, LookOf, FrameLook
  <1>13. CASE Asks
    BY <1>13, Constants DEF Asks, Looking, NextCandidate, Still, Look, LookOf, FrameLook
  <1>14. CASE Resolves
    BY <1>14, Constants DEF Resolves, Looking, Over, Still, Look, LookOf, FrameLook
  <1>15. CASE Glances
    BY <1>15, Constants DEF Glances, Looking, NextCandidate, Still, Look, LookOf,
        FrameLook
  <1>16. CASE Scans
    BY <1>16, ScanCases
  <1>17. CASE ScanFails
    BY <1>17, Constants DEF ScanFails, Looking, NextCandidate, Over, Still, Look,
        LookOf, FrameLook
  <1>18. CASE ReadsGroups
    BY <1>18, Constants DEF ReadsGroups, Looking, Over, Still, Look, LookOf, FrameLook
  <1>19. CASE EvaluationFails
    BY <1>19, Constants DEF EvaluationFails, Looking, NextCandidate, Still, Look,
        LookOf, FrameLook
  <1>20. CASE Unresolved
    BY <1>20, Constants DEF Unresolved, Sleep, Over, Still, Look, LookOf, FrameLook
  <1>21. CASE Judges
    BY <1>21, Constants DEF Judges, Since, Satisfied, Unmet, Sleep, Over, Still, Look,
        LookOf, FrameLook
  <1>22. CASE Wakes
    BY <1>22, Constants DEF Wakes, TimeLeft, Over, Still, Look, LookOf, FrameLook
  <1>23. CASE CallDone
    BY <1>23, Constants DEF CallDone, Over, Still, Look, LookOf, FrameLook
  <1>24. CASE CallFails
    BY <1>24, Constants DEF CallFails, Over, Still, Look, LookOf, FrameLook
  <1>25. CASE Loaded
    BY <1>25, Constants DEF Loaded, Look, LookOf, FrameLook
  <1>26. CASE Polls
    BY <1>26, Constants DEF Polls, NetworkQuiet, Sleep, Over, Still, Look,
        LookOf, FrameLook
  <1>27. CASE Counts
    BY <1>27, Constants DEF Counts, Looking, NextCandidate, Still, Look, LookOf, FrameLook
  <1>28. CASE AsksDocument
    BY <1>28, Constants DEF AsksDocument, TimeLeft, Over, Still, Look, LookOf, FrameLook
  <1>29. CASE UNCHANGED vars
    BY <1>29 DEF vars
  <1>30. QED
    BY <1>1, <1>2, <1>3, <1>4, <1>5, <1>6, <1>7, <1>8, <1>9, <1>10, <1>11,
      <1>12, <1>13, <1>14, <1>15, <1>16, <1>17, <1>18, <1>19, <1>20, <1>21, <1>22,
      <1>23, <1>24, <1>25, <1>26, <1>27, <1>28, <1>29 DEF Next, Page, Phase


LEMMA SweepTypeKept ==
    ASSUME PhaseType, SweepType, FrameStages, Asked, [Next]_vars
    PROVE  SweepType'
  <1> USE DEF SweepType, PhaseType, Candidate, waiting, page, tracker, sweep, busy, end
  <1>1. CASE ElementChanges
    BY <1>1, Constants DEF ElementChanges, Changes, Calls, Asserting
  <1>2. CASE FrameChanges
    BY <1>2, Constants DEF FrameChanges, Changes, Calls, Asserting
  <1>3. CASE Mutates
    BY <1>3, Constants DEF Mutates, Changes, Calls, Asserting
  <1>4. CASE Navigates
    BY <1>4, Constants DEF Navigates, Changes, Calls, Asserting
  <1>5. CASE RequestBegins
    BY <1>5, Constants DEF RequestBegins, Changes, Calls, Asserting
  <1>6. CASE RequestEnds
    BY <1>6, Constants DEF RequestEnds, Calls, Asserting
  <1>7. CASE Tick
    BY <1>7, Constants DEF Tick, Calls, Asserting
  <1>8. CASE Stop
    BY <1>8, Constants DEF Stop, Calls, Asserting
  <1>9. CASE Abandons
    BY <1>9, Constants DEF Abandons, Still, Calls, Asserting
  <1>10. CASE Positioned
    BY <1>10, Constants DEF Positioned, Still, Calls, Asserting
  <1>11. CASE PositionFails
    BY <1>11, Constants DEF PositionFails, Over, Still, Calls, Asserting
  <1>12. CASE Sweeps
    BY <1>12, Constants DEF Sweeps, Sleep, Over, Still, Calls, Asserting
  <1>13. CASE Asks
    BY <1>13, Constants DEF Asks, Looking, NextCandidate, Still, Calls, Asserting
  <1>14. CASE Resolves
    BY <1>14, Constants DEF Resolves, Looking, Over, Still, Calls, Asserting
  <1>15. CASE Glances
    <2>1. c \in Candidate \ unseen /\ job \in {"visible", "hidden"}
      BY <1>15, Constants DEF Glances, Looking, Asked
    <2>2. c' = c + 1 /\ stage' = "count" /\ unseen' = unseen /\ steady' = steady /\ job' = job
      BY <1>15 DEF Glances, NextCandidate, Still
    <2>3. seen' = seen \/ seen' = seen \cup {c}
      BY <1>15 DEF Glances
    <2>4. seen' \cap unseen' = {}
      BY <2>1, <2>2, <2>3
    <2>5. seen' \subseteq Candidate
      BY <2>1, <2>3
    <2>6. c' \in Candidate \cup {Candidates + 1}
      BY <2>1, <2>2, Constants
    <2>7. QED
      BY <2>1, <2>2, <2>4, <2>5, <2>6
  <1>16. CASE Scans
    <2>1. c \in Candidate /\ job' = "text"
      BY <1>16, Constants, ScanCases
    <2>2. c' \in {c, c + 1} /\ stage' \in {stage, "fingerprint", "count"}
      BY <1>16, ScanCases
    <2>3. seen' = seen /\ unseen' = unseen /\ steady' = steady
      BY <1>16, ScanCases
    <2>4. QED
      BY <2>1, <2>2, <2>3, Constants
  <1>17. CASE ScanFails
    BY <1>17, Constants DEF ScanFails, Looking, NextCandidate, Over, Still, Calls,
        Asserting
  <1>18. CASE ReadsGroups
    BY <1>18, Constants DEF ReadsGroups, Looking, Over, Still, Calls, Asserting
  <1>19. CASE EvaluationFails
    <2>1. c \in Candidate \ seen /\ job # "text"
      BY <1>19, Constants DEF EvaluationFails, Looking, Asked
    <2>2. c' = c + 1 /\ stage' = "count" /\ seen' = seen /\ steady' = steady /\ job' = job
      BY <1>19 DEF EvaluationFails, NextCandidate, Still
    <2>3. unseen' = unseen \cup {c}
      BY <1>19 DEF EvaluationFails
    <2>4. seen' \cap unseen' = {}
      BY <2>1, <2>2, <2>3
    <2>5. QED
      BY <2>1, <2>2, <2>3, <2>4, Constants
  <1>20. CASE Unresolved
    BY <1>20, Constants DEF Unresolved, Sleep, Over, Still, Calls, Asserting
  <1>21. CASE Judges
    BY <1>21, Constants DEF Judges, Since, Satisfied, Unmet, Sleep, Over, Still, Calls,
        Asserting
  <1>22. CASE Wakes
    BY <1>22, Constants DEF Wakes, TimeLeft, Over, Still, Calls, Asserting
  <1>23. CASE CallDone
    BY <1>23, Constants DEF CallDone, Over, Still, Calls, Asserting
  <1>24. CASE CallFails
    BY <1>24, Constants DEF CallFails, Over, Still, Calls, Asserting
  <1>25. CASE Loaded
    BY <1>25, Constants DEF Loaded, Calls, Asserting
  <1>26. CASE Polls
    BY <1>26, Constants DEF Polls, NetworkQuiet, Sleep, Over, Still, Calls,
        Asserting
  <1>27. CASE Counts
    BY <1>27, Constants DEF Counts, Looking, NextCandidate, Still, Calls, Asserting
  <1>28. CASE AsksDocument
    BY <1>28, Constants DEF AsksDocument, TimeLeft, Over, Still, Calls, Asserting
  <1>29. CASE UNCHANGED vars
    BY <1>29 DEF vars
  <1>30. QED
    BY <1>1, <1>2, <1>3, <1>4, <1>5, <1>6, <1>7, <1>8, <1>9, <1>10, <1>11,
      <1>12, <1>13, <1>14, <1>15, <1>16, <1>17, <1>18, <1>19, <1>20, <1>21, <1>22,
      <1>23, <1>24, <1>25, <1>26, <1>27, <1>28, <1>29 DEF Next, Page, Phase

-----------------------------------------------------------------------------
(* Where the phase is, and its clocks *)

LEMMA PlaceKept ==
    ASSUME PhaseType, SweepType, FrameStages, PlaceInv, [Next]_vars
    PROVE  PlaceInv'
  <1> USE DEF PhaseType, PlaceInv, Job, Acting, Asserting, Calls, waiting, page, tracker, sweep, busy, end
  <1>1. CASE ElementChanges
    BY <1>1, Constants DEF ElementChanges, Changes
  <1>2. CASE FrameChanges
    BY <1>2, Constants DEF FrameChanges, Changes
  <1>3. CASE Mutates
    BY <1>3, Constants DEF Mutates, Changes
  <1>4. CASE Navigates
    BY <1>4, Constants DEF Navigates, Changes
  <1>5. CASE RequestBegins
    BY <1>5, Constants DEF RequestBegins, Changes
  <1>6. CASE RequestEnds
    BY <1>6, Constants DEF RequestEnds
  <1>7. CASE Tick
    BY <1>7, Constants DEF Tick
  <1>8. CASE Stop
    BY <1>8, Constants DEF Stop
  <1>9. CASE Abandons
    BY <1>9, Constants DEF Abandons, Still
  <1>10. CASE Positioned
    BY <1>10, Constants DEF Positioned, Still
  <1>11. CASE PositionFails
    BY <1>11, Constants DEF PositionFails, Over, Still
  <1>12. CASE Sweeps
    BY <1>12, Constants DEF Sweeps, Sleep, Over, Still
  <1>13. CASE Asks
    BY <1>13, Constants DEF Asks, Looking, NextCandidate, Still
  <1>14. CASE Resolves
    BY <1>14, Constants DEF Resolves, Looking, Over, Still
  <1>15. CASE Glances
    BY <1>15, Constants DEF Glances, Looking, NextCandidate, Still
  <1>16. CASE Scans
    BY <1>16, ScanCases
  <1>17. CASE ScanFails
    BY <1>17, Constants DEF ScanFails, Looking, NextCandidate, Over, Still
  <1>18. CASE ReadsGroups
    BY <1>18, Constants DEF ReadsGroups, Looking, Over, Still
  <1>19. CASE EvaluationFails
    BY <1>19, Constants DEF EvaluationFails, Looking, NextCandidate, Still
  <1>20. CASE Unresolved
    BY <1>20, Constants DEF Unresolved, Sleep, Over, Still
  <1>21. CASE Judges
    BY <1>21, Constants DEF Judges, Since, Satisfied, Unmet, Sleep, Over, Still
  <1>22. CASE Wakes
    BY <1>22, Constants DEF Wakes, TimeLeft, Over, Still
  <1>23. CASE CallDone
    BY <1>23, Constants DEF CallDone, Over, Still
  <1>24. CASE CallFails
    BY <1>24, Constants DEF CallFails, Over, Still
  <1>25. CASE Loaded
    BY <1>25, Constants DEF Loaded
  <1>26. CASE Polls
    BY <1>26, Constants DEF Polls, NetworkQuiet, Sleep, Over, Still
  <1>27. CASE Counts
    BY <1>27, Constants DEF Counts, Looking, NextCandidate, Still
  <1>28. CASE AsksDocument
    BY <1>28, Constants DEF AsksDocument, TimeLeft, Over, Still
  <1>29. CASE UNCHANGED vars
    BY <1>29 DEF vars
  <1>30. QED
    BY <1>1, <1>2, <1>3, <1>4, <1>5, <1>6, <1>7, <1>8, <1>9, <1>10, <1>11,
      <1>12, <1>13, <1>14, <1>15, <1>16, <1>17, <1>18, <1>19, <1>20, <1>21, <1>22,
      <1>23, <1>24, <1>25, <1>26, <1>27, <1>28, <1>29 DEF Next, Page, Phase

\* What a wait saw throughout a sweep it cannot take for the opposite.
LEMMA MetOrUnmet ==
    ASSUME SweepType, Asked, Glanced, job \in {"visible", "hidden"}, c > Candidates, Satisfied
    PROVE  ~Unmet
  <1>1. CASE job = "visible"
    <2>1. PICK i \in Candidate : i \in seen
      BY <1>1 DEF Satisfied, SweepType
    <2>2. i \in steady => look[i] \in Visible
      BY <2>1 DEF Glanced
    <2>3. ~(i \in steady /\ look[i] \notin Visible)
      BY <2>2
    <2>4. QED
      BY <1>1, <2>3 DEF Unmet
  <1>2. CASE job = "hidden"
    <2>1. seen = {} /\ evaluated
      BY <1>2 DEF Satisfied
    <2>2. ASSUME NEW i \in Candidate, i \in steady \ unseen, look[i] \in Visible
          PROVE  FALSE
      <3>1. i < c
        BY Constants DEF SweepType, Candidate
      <3>2. i \in seen
        BY <2>2, <3>1 DEF Glanced
      <3>3. QED
        BY <2>1, <3>2
    <2>3. QED
      BY <1>2, <2>1, <2>2 DEF Unmet
  <1>3. QED
    BY <1>1, <1>2

LEMMA TimeKept ==
    ASSUME PhaseType, ClockType, PageType, SweepType, Asked, FrameStages, Glanced, TimeInv,
           [Next]_vars
    PROVE  TimeInv'
  <1> USE DEF ClockType, TimeInv, Calls, waiting, page, tracker, sweep, busy, end
  <1>1. CASE ElementChanges
    BY <1>1, Constants DEF ElementChanges, Changes
  <1>2. CASE FrameChanges
    BY <1>2, Constants DEF FrameChanges, Changes
  <1>3. CASE Mutates
    BY <1>3, Constants DEF Mutates, Changes
  <1>4. CASE Navigates
    BY <1>4, Constants DEF Navigates, Changes
  <1>5. CASE RequestBegins
    BY <1>5, Constants DEF RequestBegins, Changes
  <1>6. CASE RequestEnds
    <2>1. /\ active' = FALSE /\ requests' = FALSE /\ lastNetwork' = now /\ requestedAt' = now
          /\ UNCHANGED <<pc, now, since, unmetAt, deadline, observed, busyAt, lastMutation>>
          /\ UNCHANGED <<domQuiet, domTracked, calm>>
      BY <1>6 DEF RequestEnds
    <2>2. requestedAt' <= lastNetwork'
      BY <2>1
    <2>3. active' = requests'
      BY <2>1
    <2>4. QED
      BY <2>1, <2>2, <2>3
  <1>7. CASE Tick
    BY <1>7, Constants DEF Tick
  <1>8. CASE Stop
    BY <1>8, Constants DEF Stop
  <1>9. CASE Abandons
    BY <1>9, Constants DEF Abandons, Still
  <1>10. CASE Positioned
    BY <1>10, Constants DEF Positioned, Still
  <1>11. CASE PositionFails
    BY <1>11, Constants DEF PositionFails, Over, Still
  <1>12. CASE Sweeps
    BY <1>12, Constants DEF Sweeps, Sleep, Over, Still
  <1>13. CASE Asks
    BY <1>13, Constants DEF Asks, Looking, NextCandidate, Still
  <1>14. CASE Resolves
    BY <1>14, Constants DEF Resolves, Looking, Over, Still
  <1>15. CASE Glances
    BY <1>15, Constants DEF Glances, Looking, NextCandidate, Still
  <1>16. CASE Scans
    BY <1>16, ScanCases
  <1>17. CASE ScanFails
    BY <1>17, Constants DEF ScanFails, Looking, NextCandidate, Over, Still
  <1>18. CASE ReadsGroups
    BY <1>18, Constants DEF ReadsGroups, Looking, Over, Still
  <1>19. CASE EvaluationFails
    BY <1>19, Constants DEF EvaluationFails, Looking, NextCandidate, Still
  <1>20. CASE Unresolved
    BY <1>20, Constants DEF Unresolved, Sleep, Over, Still
  <1>21. CASE Judges
    <2>1. unmetAt' = (IF Unmet THEN now ELSE unmetAt) /\ since' = Since
      BY <1>21 DEF Judges
    <2>2. Satisfied => ~Unmet
      BY <1>21, MetOrUnmet DEF Judges
    <2>3. since' # -1 => unmetAt' <= since' /\ since' <= now
      <3>1. CASE ~Satisfied
        BY <2>1, <3>1 DEF Since
      <3>2. CASE Satisfied
        BY <2>1, <2>2, <3>2 DEF Since
      <3>3. QED
        BY <3>1, <3>2
    <2>4. pc' \in {"over", "sleep"}
      BY <1>21 DEF Judges, Over, Sleep
    <2>5. UNCHANGED <<now, observed, busyAt, requestedAt, lastNetwork, lastMutation, active,
                      requests>>
      BY <1>21 DEF Judges, Still
    <2>6. QED
      BY <2>3, <2>4, <2>5
  <1>22. CASE Wakes
    <2>1. /\ UNCHANGED <<since, unmetAt, now, deadline, observed, busyAt, lastNetwork>>
          /\ UNCHANGED <<lastMutation, active, requests, requestedAt>>
      BY <1>22 DEF Wakes, Still
    <2>2. pc' \in {"position", "sweep", "look"} => now <= deadline
      <3>1. CASE job = "settle"
        BY <1>22, <3>1 DEF Wakes
      <3>2. CASE job # "settle" /\ TimeLeft
        BY <3>2 DEF TimeLeft
      <3>3. CASE job # "settle" /\ ~TimeLeft
        BY <1>22, <3>3 DEF Wakes, Over
      <3>4. QED
        BY <3>1, <3>2, <3>3
    <2>3. pc' # "asked"
      BY <1>22 DEF Wakes, Over
    <2>4. QED
      BY <2>1, <2>2, <2>3
  <1>23. CASE CallDone
    BY <1>23, Constants DEF CallDone, Over, Still
  <1>24. CASE CallFails
    BY <1>24, Constants DEF CallFails, Over, Still
  <1>25. CASE Loaded
    BY <1>25, Constants DEF Loaded
  <1>26. CASE Polls
    BY <1>26, Constants DEF Polls, NetworkQuiet, Sleep, Over, Still
  <1>27. CASE Counts
    BY <1>27, Constants DEF Counts, Looking, NextCandidate, Still
  <1>28. CASE AsksDocument
    <2>1. /\ UNCHANGED <<since, unmetAt, now, deadline, observed, busyAt, lastNetwork>>
          /\ UNCHANGED <<lastMutation, active, requests, requestedAt>>
          /\ pc' \in {"asked", "over"}
      BY <1>28 DEF AsksDocument, Over, Still
    <2>2. ASSUME pc' = "asked", domQuiet', domTracked' PROVE calm' >= Quiet
      <3>1. TimeLeft
        BY <1>28, <2>2 DEF AsksDocument, Over
      <3>2. calm' = now - busyAt
        BY <1>28, <3>1 DEF AsksDocument
      <3>3. domQuiet' = (~domTracked' \/ (observed /\ now - lastMutation >= Quiet))
        BY <1>28, <3>1 DEF AsksDocument
      <3>4. observed /\ now - lastMutation >= Quiet
        BY <2>2, <3>3
      <3>5. busyAt <= lastMutation
        BY <3>4
      <3>6. QED
        BY ONLY <3>2, <3>4, <3>5, Constants, ClockType DEF ClockType
    <2>3. QED
      BY <2>1, <2>2
  <1>29. CASE UNCHANGED vars
    BY <1>29 DEF vars
  <1>30. QED
    BY <1>1, <1>2, <1>3, <1>4, <1>5, <1>6, <1>7, <1>8, <1>9, <1>10, <1>11,
      <1>12, <1>13, <1>14, <1>15, <1>16, <1>17, <1>18, <1>19, <1>20, <1>21, <1>22,
      <1>23, <1>24, <1>25, <1>26, <1>27, <1>28, <1>29 DEF Next, Page, Phase


-----------------------------------------------------------------------------
(* What the page does *)

\* Whatever happens to the page, the phase goes on where it was, and what still
\* counts as steady looks as before.
LEMMA PageFacts ==
    ASSUME PageType, Page
    PROVE  /\ pc # "over"
           /\ UNCHANGED <<job, pc, now, wake, deadline, since, unmetAt>>
           /\ UNCHANGED <<c, stage, seen, unseen, calls, stopped, result, why>>
           /\ steady' \subseteq steady
           /\ \A i \in Candidate \cap steady' : look'[i] = look[i]
  <1> USE DEF Changes, waiting, sweep, end
  <1>1. CASE ElementChanges
    <2>1. PICK i \in Candidate : \E l \in LookOf(job, i) \ {look[i]} :
              look' = [look EXCEPT ![i] = l] /\ steady' = steady \ {i}
      BY <1>1 DEF ElementChanges
    <2>2. \A j \in Candidate \cap steady' : look'[j] = look[j]
      BY <2>1 DEF PageType
    <2>3. QED
      BY <1>1, <2>1, <2>2 DEF ElementChanges
  <1>2. CASE FrameChanges
    BY <1>2 DEF FrameChanges
  <1>3. CASE Mutates
    BY <1>3 DEF Mutates
  <1>4. CASE Navigates
    BY <1>4 DEF Navigates
  <1>5. CASE RequestBegins
    BY <1>5 DEF RequestBegins
  <1>6. CASE RequestEnds
    BY <1>6 DEF RequestEnds
  <1>7. QED
    BY <1>1, <1>2, <1>3, <1>4, <1>5, <1>6 DEF Page

-----------------------------------------------------------------------------
(* What has been seen *)

LEMMA Passed == ASSUME SweepType PROVE 1 .. c - 1 \subseteq Candidate
  BY Constants DEF SweepType, Candidate

\* As long as nothing more is asked, what is known stays known.
LEMMA KnownStays ==
    ASSUME SweepType, LookInv,
           UNCHANGED <<job, c, stage, seen, unseen>>, steady' \subseteq steady,
           \A i \in Candidate \cap steady' : look'[i] = look[i],
           pc' = "look" => pc = "look",
           job \in Acting /\ pc' = "sleep" => pc = "sleep" \/ c > Candidates
    PROVE  LookInv'
  <1> USE DEF LookInv
  <1>1. Asked' /\ FrameStages'
    BY DEF Asked, FrameStages
  <1>2. PassedOver'
    BY Passed DEF PassedOver, Held
  <1>3. Examined'
    BY Constants DEF Examined, SweepType, Candidate
  <1>4. TriedAll'
    BY DEF TriedAll
  <1>5. FramesKnown'
    BY DEF FramesKnown
  <1>6. Glanced'
    BY DEF Glanced
  <1>7. QED
    BY <1>1, <1>2, <1>3, <1>4, <1>5, <1>6

\* A candidate is passed over that does not fit, or could not be looked at.
LEMMA PassesOver ==
    ASSUME SweepType, PassedOver, c \in Candidate,
           c' = c + 1, UNCHANGED <<job, look, steady>>, unseen \subseteq unseen',
           look[c] # "good" \/ c \in unseen' \/ job \in {"visible", "hidden"} \/ c \notin steady
    PROVE  PassedOver'
  <1> SUFFICES ASSUME job \notin {"visible", "hidden"}, NEW i \in 1 .. c' - 1
               PROVE  ~(i \in steady \ unseen' /\ look[i] = "good")
    BY DEF PassedOver, Held
  <1>1. CASE i = c
    BY <1>1
  <1>2. CASE i # c
    <2>1. i \in 1 .. c - 1
      BY <1>2 DEF Candidate
    <2>2. QED
      BY <2>1 DEF PassedOver, Held
  <1>3. QED
    BY <1>1, <1>2

LEMMA SweepsKnown == ASSUME Sweeps PROVE LookInv'
  <1> USE DEF Sweeps, Still, page
  <1>1. c' = 1 /\ unseen' = {} /\ UNCHANGED <<job, look>>
    OBVIOUS
  <1>2. /\ job = "text" => stage' = "fingerprint" /\ seen' = {i \in Candidate : look[i] # "none"}
        /\ job # "text" => stage' = "count" /\ seen' = {}
    OBVIOUS
  <1>3. pc' = "sleep" => job \in {"visible", "hidden"}
    <2>1. CASE frame
      BY <2>1
    <2>2. CASE ~frame /\ job \notin {"visible", "hidden"}
      BY <2>2 DEF Over
    <2>3. CASE ~frame /\ job \in {"visible", "hidden"}
      BY <2>3
    <2>4. QED
      BY <2>1, <2>2, <2>3
  <1> HIDE DEF Sweeps, Still, page
  <1>4. Asked' /\ FrameStages'
    BY <1>1, <1>2 DEF Asked, FrameStages
  <1>5. PassedOver'
    BY <1>1 DEF PassedOver
  <1>6. Examined'
    BY <1>1, <1>2 DEF Examined, Acting
  <1>7. TriedAll'
    BY <1>1, <1>3 DEF TriedAll, Acting
  <1>8. FramesKnown'
    BY <1>1, <1>2 DEF FramesKnown
  <1>9. Glanced'
    BY <1>1, <1>2 DEF Glanced, Candidate
  <1>10. QED
    BY <1>4, <1>5, <1>6, <1>7, <1>8, <1>9 DEF LookInv

LEMMA AsksKnown == ASSUME SweepType, LookInv, Asks PROVE LookInv'
  <1>1. /\ pc' = "look" /\ job \in Acting \cup {"assertion"} /\ c \in Candidate
        /\ UNCHANGED <<job, look, steady, seen, unseen>>
    BY Constants DEF Asks, Looking, Still, page, SweepType, Candidate
  <1>2. job \notin {"visible", "hidden", "text", "group"}
    BY <1>1 DEF Acting
  <1>3. CASE c' = c
    <2>1. \/ stage' = "visible" /\ look[c] \in {"hidden", "other", "good"}
          \/ stage' = "fingerprint" /\ look[c] \in {"other", "good"}
      BY <1>1, <1>3 DEF Asks, NextCandidate, Candidate
    <2>2. Examined'
      BY <1>1, <1>3, <2>1 DEF Examined
    <2>3. Asked' /\ PassedOver'
      BY <1>1, <1>3 DEF LookInv, Asked, PassedOver, Held
    <2>4. FrameStages' /\ TriedAll' /\ FramesKnown' /\ Glanced'
      BY <1>1, <1>2 DEF FrameStages, TriedAll, FramesKnown, Glanced
    <2>5. QED
      BY <2>2, <2>3, <2>4 DEF LookInv
  <1>4. CASE c' # c
    <2>1. c' = c + 1 /\ stage' = "count" /\ look[c] # "good"
      BY <1>4 DEF Asks, NextCandidate
    <2>2. PassedOver'
      BY <1>1, <2>1, PassesOver DEF LookInv
    <2>3. Asked'
      BY <1>1, <1>2, <2>1 DEF LookInv, Asked, Candidate
    <2>4. Examined'
      BY <2>1 DEF Examined
    <2>5. FrameStages' /\ TriedAll' /\ FramesKnown' /\ Glanced'
      BY <1>1, <1>2 DEF FrameStages, TriedAll, FramesKnown, Glanced
    <2>6. QED
      BY <2>2, <2>3, <2>4, <2>5 DEF LookInv
  <1>5. QED
    BY <1>3, <1>4

LEMMA CountsKnown == ASSUME SweepType, LookInv, Counts PROVE LookInv'
  <1>1. /\ pc' = "look" /\ job \in {"visible", "hidden"} /\ c \in Candidate
        /\ UNCHANGED <<job, look, steady, seen, unseen>>
    BY Constants DEF Counts, NextCandidate, Looking, Still, page, SweepType, Candidate
  <1>2. c' = c \/ (c' = c + 1 /\ look[c] = "none")
    BY DEF Counts, NextCandidate
  <1>3. Asked'
    BY <1>1, <1>2 DEF LookInv, Asked, Candidate
  <1>4. PassedOver' /\ Examined' /\ FrameStages' /\ TriedAll' /\ FramesKnown'
    BY <1>1 DEF PassedOver, Examined, FrameStages, TriedAll, FramesKnown, Acting
  <1>5. Glanced'
    <2> SUFFICES ASSUME NEW i \in Candidate \cap steady
                 PROVE  /\ i \in seen => look[i] \in Visible
                        /\ i < c' /\ i \notin unseen /\ look[i] \in Visible => i \in seen
      BY <1>1 DEF Glanced
    <2>1. /\ i \in seen => look[i] \in Visible
          /\ i < c /\ i \notin unseen /\ look[i] \in Visible => i \in seen
      BY <1>1 DEF LookInv, Glanced
    <2>2. i < c' => i < c \/ (i = c /\ look[i] = "none")
      BY <1>1, <1>2 DEF Candidate
    <2>3. QED
      BY <2>1, <2>2 DEF Visible
  <1>6. QED
    BY <1>3, <1>4, <1>5 DEF LookInv

LEMMA GlancesKnown == ASSUME SweepType, LookInv, Glances PROVE LookInv'
  <1>1. /\ pc' = "look" /\ job \in {"visible", "hidden"} /\ c \in Candidate
        /\ c' = c + 1 /\ stage' = "count"
        /\ UNCHANGED <<job, look, steady, unseen>>
    BY Constants DEF Glances, NextCandidate, Looking, Still, page, SweepType, Candidate
  <1>2. seen' = IF look[c] \in Visible THEN seen \cup {c} ELSE seen
    BY DEF Glances
  <1>3. Asked'
    BY <1>1, <1>2 DEF LookInv, Asked, Candidate
  <1>4. PassedOver' /\ Examined' /\ FrameStages' /\ TriedAll' /\ FramesKnown'
    BY <1>1 DEF PassedOver, Examined, FrameStages, TriedAll, FramesKnown, Acting
  <1>5. Glanced'
    <2> SUFFICES ASSUME NEW i \in Candidate \cap steady
                 PROVE  /\ i \in seen' => look[i] \in Visible
                        /\ i < c' /\ i \notin unseen /\ look[i] \in Visible => i \in seen'
      BY <1>1 DEF Glanced
    <2>1. /\ i \in seen => look[i] \in Visible
          /\ i < c /\ i \notin unseen /\ look[i] \in Visible => i \in seen
      BY <1>1 DEF LookInv, Glanced
    <2>2. i < c' => i < c \/ i = c
      BY <1>1 DEF Candidate
    <2>3. QED
      BY <1>2, <2>1, <2>2
  <1>6. QED
    BY <1>3, <1>4, <1>5 DEF LookInv

LEMMA EvaluationFailsKnown == ASSUME SweepType, LookInv, EvaluationFails PROVE LookInv'
  <1>1. /\ pc' = "look" /\ job \notin {"text", "group"} /\ c \in Candidate
        /\ c' = c + 1 /\ stage' = "count" /\ unseen' = unseen \cup {c}
        /\ UNCHANGED <<job, look, steady, seen>>
    BY Constants DEF EvaluationFails, NextCandidate, Looking, Still, page, SweepType, Candidate
  <1>2. Asked'
    BY <1>1 DEF LookInv, Asked, Candidate
  <1>3. PassedOver'
    BY <1>1, PassesOver DEF LookInv
  <1>4. Examined' /\ FrameStages' /\ TriedAll' /\ FramesKnown'
    BY <1>1 DEF Examined, FrameStages, TriedAll, FramesKnown
  <1>5. Glanced'
    <2> SUFFICES ASSUME NEW i \in Candidate \cap steady, job \in {"visible", "hidden"}
                 PROVE  /\ i \in seen => look[i] \in Visible
                        /\ i < c' /\ i \notin unseen' /\ look[i] \in Visible => i \in seen
      BY <1>1 DEF Glanced
    <2>1. i < c' /\ i \notin unseen' => i < c /\ i \notin unseen
      BY <1>1 DEF Candidate
    <2>2. QED
      BY <2>1 DEF LookInv, Glanced
  <1>6. QED
    BY <1>2, <1>3, <1>4, <1>5 DEF LookInv

LEMMA ScansKnown == ASSUME SweepType, LookInv, Scans PROVE LookInv'
  <1>0. FrameStages /\ PassedOver
    BY DEF LookInv
  <1>1. /\ pc = "look" /\ pc' \in {"look", "over"} /\ job = "text" /\ c \in Candidate
        /\ UNCHANGED <<job, look, steady, seen, unseen>>
    BY <1>0, ScanCases, Constants DEF SweepType, Candidate
  <1>2. Asked' /\ Examined' /\ TriedAll' /\ Glanced'
    BY <1>1 DEF Asked, Examined, TriedAll, Glanced, Acting
  <1>3. FramesKnown'
    BY <1>1 DEF LookInv, FramesKnown
  <1>4. FrameStages'
    BY <1>0, <1>1, ScanCases DEF FrameStages
  <1>5. PassedOver'
    <2>1. c' = c \/ (c' = c + 1 /\ look[c] # "good")
      BY <1>0, ScanCases
    <2>2. CASE c' = c
      BY <1>0, <1>1, <2>2 DEF PassedOver, Held
    <2>3. CASE c' = c + 1 /\ look[c] # "good"
      BY <1>0, <1>1, <2>3, PassesOver
    <2>4. QED
      BY <2>1, <2>2, <2>3
  <1>6. QED
    BY <1>2, <1>3, <1>4, <1>5 DEF LookInv

LEMMA ScanFailsKnown == ASSUME SweepType, LookInv, ScanFails PROVE LookInv'
  <1>0. FrameStages /\ PassedOver
    BY DEF LookInv
  <1>1. /\ pc = "look" /\ job = "text" /\ c \in Candidate
        /\ UNCHANGED <<job, look, steady, seen>> /\ unseen' = unseen \cup {c}
    BY Constants DEF ScanFails, Looking, Still, page, SweepType, Candidate
  <1>2. \/ c' = c + 1 /\ stage' = "count" /\ pc' = "look"
        \/ c' = c /\ stage' = stage /\ pc' = "over"
    BY <1>1 DEF ScanFails, NextCandidate, Over
  <1>3. Asked' /\ Examined' /\ TriedAll' /\ Glanced'
    BY <1>1 DEF Asked, Examined, TriedAll, Glanced, Acting
  <1>4. FramesKnown'
    BY <1>1, <1>2 DEF LookInv, FramesKnown
  <1>5. FrameStages'
    BY <1>0, <1>1, <1>2 DEF FrameStages
  <1>6. PassedOver'
    <2>1. CASE c' = c
      BY <1>0, <1>1, <2>1 DEF PassedOver, Held
    <2>2. CASE c' = c + 1
      BY <1>0, <1>1, <2>2, PassesOver
    <2>3. QED
      BY <1>2, <2>1, <2>2
  <1>7. QED
    BY <1>3, <1>4, <1>5, <1>6 DEF LookInv


LEMMA LookKept ==
    ASSUME PhaseType, SweepType, PageType, PlaceInv, LookInv, [Next]_vars
    PROVE  LookInv'
  <1>1. CASE Page
    BY <1>1, PageFacts, KnownStays
  <1>2. ASSUME UNCHANGED <<job, c, stage, seen, unseen, steady, look>>,
               pc' = "look" => pc = "look",
               job \in Acting /\ pc' = "sleep" => pc = "sleep" \/ c > Candidates
        PROVE  LookInv'
    BY <1>2, KnownStays
  <1> USE DEF page, sweep, Still
  <1>3. CASE Tick
    BY <1>2, <1>3 DEF Tick
  <1>4. CASE Stop
    BY <1>2, <1>4 DEF Stop
  <1>5. CASE Abandons
    BY <1>2, <1>5 DEF Abandons
  <1>6. CASE Positioned
    BY <1>2, <1>6 DEF Positioned
  <1>7. CASE PositionFails
    BY <1>2, <1>7 DEF PositionFails, Over
  <1>8. CASE Sweeps
    BY <1>8, SweepsKnown
  <1>9. CASE Asks
    BY <1>9, AsksKnown
  <1>10. CASE Resolves
    BY <1>2, <1>10 DEF Resolves, Looking, Over
  <1>11. CASE Glances
    BY <1>11, GlancesKnown
  <1>12. CASE Scans
    BY <1>12, ScansKnown
  <1>13. CASE ScanFails
    BY <1>13, ScanFailsKnown
  <1>14. CASE ReadsGroups
    BY <1>2, <1>14 DEF ReadsGroups, Looking, Over
  <1>15. CASE EvaluationFails
    BY <1>15, EvaluationFailsKnown
  <1>16. CASE Unresolved
    BY <1>2, <1>16 DEF Unresolved, Over, Sleep
  <1>17. CASE Judges
    BY <1>2, <1>17 DEF Judges, Over, Sleep
  <1>18. CASE Wakes
    BY <1>2, <1>18 DEF Wakes, Over
  <1>19. CASE CallDone
    BY <1>2, <1>19 DEF CallDone, Over
  <1>20. CASE CallFails
    BY <1>2, <1>20 DEF CallFails, Over
  <1>21. CASE Loaded
    BY <1>2, <1>21 DEF Loaded
  <1>22. CASE Polls
    BY <1>2, <1>22 DEF Polls, Over, Sleep, PlaceInv, Acting
  <1>23. CASE Counts
    BY <1>23, CountsKnown
  <1>24. CASE AsksDocument
    BY <1>2, <1>24 DEF AsksDocument, Over
  <1>25. CASE UNCHANGED vars
    BY <1>2, <1>25 DEF vars
  <1>26. QED
    BY <1>1, <1>3, <1>4, <1>5, <1>6, <1>7, <1>8, <1>9, <1>10, <1>11, <1>12, <1>13, <1>14, <1>15,
       <1>16, <1>17, <1>18, <1>19, <1>20, <1>21, <1>22, <1>23, <1>24, <1>25 DEF Next, Phase

-----------------------------------------------------------------------------
(* What becomes of a phase *)

\* A phase that is over stays as it is, and so does the page.
LEMMA OverStays ==
    ASSUME PhaseType, SweepType, FrameStages, pc = "over", [Next]_vars
    PROVE  UNCHANGED vars
  <1> USE DEF PhaseType
  <1>1. CASE ElementChanges
    BY <1>1, Constants DEF ElementChanges, Changes
  <1>2. CASE FrameChanges
    BY <1>2, Constants DEF FrameChanges, Changes
  <1>3. CASE Mutates
    BY <1>3, Constants DEF Mutates, Changes
  <1>4. CASE Navigates
    BY <1>4, Constants DEF Navigates, Changes
  <1>5. CASE RequestBegins
    BY <1>5, Constants DEF RequestBegins, Changes
  <1>6. CASE RequestEnds
    BY <1>6, Constants DEF RequestEnds
  <1>7. CASE Tick
    BY <1>7, Constants DEF Tick
  <1>8. CASE Stop
    BY <1>8, Constants DEF Stop
  <1>9. CASE Abandons
    BY <1>9, Constants DEF Abandons, Still
  <1>10. CASE Positioned
    BY <1>10, Constants DEF Positioned, Still
  <1>11. CASE PositionFails
    BY <1>11, Constants DEF PositionFails, Over, Still
  <1>12. CASE Sweeps
    BY <1>12, Constants DEF Sweeps, Sleep, Over, Still
  <1>13. CASE Asks
    BY <1>13, Constants DEF Asks, Looking, NextCandidate, Still
  <1>14. CASE Resolves
    BY <1>14, Constants DEF Resolves, Looking, Over, Still
  <1>15. CASE Glances
    BY <1>15, Constants DEF Glances, Looking, NextCandidate, Still
  <1>16. CASE Scans
    BY <1>16, ScanCases
  <1>17. CASE ScanFails
    BY <1>17, Constants DEF ScanFails, Looking, NextCandidate, Over, Still
  <1>18. CASE ReadsGroups
    BY <1>18, Constants DEF ReadsGroups, Looking, Over, Still
  <1>19. CASE EvaluationFails
    BY <1>19, Constants DEF EvaluationFails, Looking, NextCandidate, Still
  <1>20. CASE Unresolved
    BY <1>20, Constants DEF Unresolved, Sleep, Over, Still
  <1>21. CASE Judges
    BY <1>21, Constants DEF Judges, Since, Satisfied, Unmet, Sleep, Over, Still
  <1>22. CASE Wakes
    BY <1>22, Constants DEF Wakes, TimeLeft, Over, Still
  <1>23. CASE CallDone
    BY <1>23, Constants DEF CallDone, Over, Still
  <1>24. CASE CallFails
    BY <1>24, Constants DEF CallFails, Over, Still
  <1>25. CASE Loaded
    BY <1>25, Constants DEF Loaded
  <1>26. CASE Polls
    BY <1>26, Constants DEF Polls, NetworkQuiet, Sleep, Over, Still
  <1>27. CASE Counts
    BY <1>27, Constants DEF Counts, Looking, NextCandidate, Still
  <1>28. CASE AsksDocument
    BY <1>28, Constants DEF AsksDocument, TimeLeft, Over, Still
  <1>29. CASE UNCHANGED vars
    BY <1>29 DEF vars
  <1>30. QED
    BY <1>1, <1>2, <1>3, <1>4, <1>5, <1>6, <1>7, <1>8, <1>9, <1>10, <1>11,
      <1>12, <1>13, <1>14, <1>15, <1>16, <1>17, <1>18, <1>19, <1>20, <1>21, <1>22,
      <1>23, <1>24, <1>25, <1>26, <1>27, <1>28, <1>29 DEF Next, Page, Phase

\* The steps that can end a phase well, and those that can fail it.
LEMMA Outcomes ==
    ASSUME PlaceInv, pc # "over", [Next]_vars
    PROVE  /\ result' = "passed" =>
                \/ Resolves \/ Scans \/ ReadsGroups \/ Judges \/ CallDone \/ AsksDocument
                \/ Polls
           /\ result' = "failed" =>
                \/ PositionFails \/ Sweeps \/ Resolves \/ Scans \/ ScanFails \/ ReadsGroups
                \/ Unresolved \/ Wakes \/ CallFails
  <1> USE DEF PlaceInv, end
  <1>1. CASE ElementChanges
    BY <1>1, Constants DEF ElementChanges, Changes
  <1>2. CASE FrameChanges
    BY <1>2, Constants DEF FrameChanges, Changes
  <1>3. CASE Mutates
    BY <1>3, Constants DEF Mutates, Changes
  <1>4. CASE Navigates
    BY <1>4, Constants DEF Navigates, Changes
  <1>5. CASE RequestBegins
    BY <1>5, Constants DEF RequestBegins, Changes
  <1>6. CASE RequestEnds
    BY <1>6, Constants DEF RequestEnds
  <1>7. CASE Tick
    BY <1>7, Constants DEF Tick
  <1>8. CASE Stop
    BY <1>8, Constants DEF Stop
  <1>9. CASE Abandons
    BY <1>9, Constants DEF Abandons, Still
  <1>10. CASE Positioned
    BY <1>10, Constants DEF Positioned, Still
  <1>11. CASE PositionFails
    BY <1>11, Constants DEF PositionFails, Over, Still
  <1>12. CASE Sweeps
    BY <1>12, Constants DEF Sweeps, Sleep, Over, Still
  <1>13. CASE Asks
    BY <1>13, Constants DEF Asks, Looking, NextCandidate, Still
  <1>14. CASE Resolves
    BY <1>14, Constants DEF Resolves, Looking, Over, Still
  <1>15. CASE Glances
    BY <1>15, Constants DEF Glances, Looking, NextCandidate, Still
  <1>16. CASE Scans
    BY <1>16
  <1>17. CASE ScanFails
    BY <1>17, Constants DEF ScanFails, Looking, NextCandidate, Over, Still
  <1>18. CASE ReadsGroups
    BY <1>18, Constants DEF ReadsGroups, Looking, Over, Still
  <1>19. CASE EvaluationFails
    BY <1>19, Constants DEF EvaluationFails, Looking, NextCandidate, Still
  <1>20. CASE Unresolved
    BY <1>20, Constants DEF Unresolved, Sleep, Over, Still
  <1>21. CASE Judges
    BY <1>21, Constants DEF Judges, Since, Satisfied, Unmet, Sleep, Over, Still
  <1>22. CASE Wakes
    BY <1>22, Constants DEF Wakes, TimeLeft, Over, Still
  <1>23. CASE CallDone
    BY <1>23, Constants DEF CallDone, Over, Still
  <1>24. CASE CallFails
    BY <1>24, Constants DEF CallFails, Over, Still
  <1>25. CASE Loaded
    BY <1>25, Constants DEF Loaded
  <1>26. CASE Polls
    BY <1>26, Constants DEF Polls, NetworkQuiet, Sleep, Over, Still
  <1>27. CASE Counts
    BY <1>27, Constants DEF Counts, Looking, NextCandidate, Still
  <1>28. CASE AsksDocument
    BY <1>28, Constants DEF AsksDocument, TimeLeft, Over, Still
  <1>29. CASE UNCHANGED vars
    BY <1>29 DEF vars
  <1>30. QED
    BY <1>1, <1>2, <1>3, <1>4, <1>5, <1>6, <1>7, <1>8, <1>9, <1>10, <1>11,
      <1>12, <1>13, <1>14, <1>15, <1>16, <1>17, <1>18, <1>19, <1>20, <1>21, <1>22,
      <1>23, <1>24, <1>25, <1>26, <1>27, <1>28, <1>29 DEF Next, Page, Phase

\* The element acted on.
LEMMA AimKept ==
    ASSUME PhaseType, SweepType, PageType, PlaceInv, LookInv, AimInv, [Next]_vars
    PROVE  AimInv'
  <1>0. FrameStages
    BY DEF LookInv
  <1>1. CASE pc = "over"
    BY <1>0, <1>1, OverStays DEF vars, page, sweep, end, AimInv
  <1>2. CASE Page
    BY <1>2, PageFacts, Constants DEF AimInv, SweepType, Candidate
  <1>3. CASE Resolves
    <2>1. /\ c \in steady => look[c] \in {"other", "good"}
          /\ look[c] \in {"good", "hidden"}
      BY <1>3 DEF Resolves, Looking, LookInv, Examined
    <2>2. UNCHANGED <<c, look, steady>>
      BY <1>3 DEF Resolves, Still, page, sweep
    <2>3. QED
      BY <2>1, <2>2 DEF AimInv
  <1>4. CASE pc # "over" /\ (CallDone \/ CallFails \/ Stop \/ UNCHANGED vars)
    <2>1. UNCHANGED <<job, c, look, steady>> /\ pc' \in {pc, "over"}
      BY <1>4 DEF CallDone, CallFails, Stop, Still, Over, page, sweep, vars
    <2>2. job = "assertion" => result' # "passed"
      BY <1>4 DEF PlaceInv, Acting, CallDone, CallFails, Stop, vars, end
    <2>3. QED
      BY <2>1, <2>2 DEF AimInv
  <1>5. ASSUME pc # "over", ~Page, ~Resolves, ~CallDone, ~CallFails, ~Stop, ~UNCHANGED vars
        PROVE  AimInv'
    <2>1. job = "assertion" => result' # "passed"
      BY <1>0, <1>5, Outcomes, ScanCases DEF ReadsGroups, Looking, Judges, AsksDocument,
         Polls, PlaceInv
    <2>2. pc' = "act" => job = "navigate"
      BY <1>0, <1>5, ScanCases DEF Next, Phase, Tick, Abandons, Positioned, PositionFails,
         Sweeps, Asks, Counts, Glances, ScanFails, ReadsGroups, EvaluationFails, Unresolved, Judges,
         Wakes, Loaded, AsksDocument, Polls, Looking, NextCandidate, Over, Sleep
    <2>3. job' = job
      BY <1>0, <1>5, ScanCases DEF Next, Phase, Tick, Abandons, Positioned, PositionFails,
         Sweeps, Asks, Counts, Glances, ScanFails, ReadsGroups, EvaluationFails, Unresolved, Judges,
         Wakes, Loaded, AsksDocument, Polls, Still
    <2>4. QED
      BY <2>1, <2>2, <2>3 DEF AimInv
  <1>6. QED
    BY <1>1, <1>2, <1>3, <1>4, <1>5


-----------------------------------------------------------------------------
(* What a failure is blamed on *)

LEMMA FailedOver ==
    ASSUME PlaceInv, NEW r, NEW w, Over(r, w), result # "failed", result' = "failed"
    PROVE  why' = w /\ r = "failed" /\ ~stopped /\ pc' = "over"
  BY DEF Over, end

LEMMA BlameKept ==
    ASSUME PhaseType, SweepType, PageType, PlaceInv, LookInv, BlameInv, [Next]_vars
    PROVE  BlameInv'
  <1>0. FrameStages
    BY DEF LookInv
  <1>1. CASE pc = "over"
    BY <1>0, <1>1, OverStays DEF vars, page, sweep, end, BlameInv, Justified, Held, Open
  <1>2. CASE pc # "over" /\ result' # "failed"
    BY <1>2 DEF BlameInv
  <1> SUFFICES ASSUME pc # "over", result' = "failed"
               PROVE  Justified'
    BY <1>1, <1>2 DEF BlameInv
  <1>3. result # "failed"
    BY DEF PlaceInv
  <1>4. pc # "act" => calls = 0
    BY DEF PhaseType, Calls
  <1>5. job \notin {"visible", "hidden"} /\ c > Candidates => \A i \in Candidate : ~Held(i)
    BY Constants DEF LookInv, PassedOver, SweepType, Candidate
  <1>6. CASE PositionFails
    <2>1. why' = IF frame THEN "position" ELSE "frame"
      BY <1>3, <1>6, FailedOver DEF PositionFails
    <2>2. job \in Acting \cup {"assertion"}
      BY <1>6 DEF PositionFails, PlaceInv
    <2>3. UNCHANGED <<job, frame, look, seen, unseen, steady, calls>> /\ calls = 0
      BY <1>4, <1>6 DEF PositionFails, Still, page, sweep
    <2>4. job \notin Awaited
      BY <2>2 DEF Acting, Awaited
    <2>5. QED
      BY <2>1, <2>2, <2>3, <2>4 DEF Justified
  <1>7. CASE Sweeps
    <2>1. ~frame /\ job \notin {"visible", "hidden"} /\ Over("failed", "frame")
      BY <1>3, <1>7 DEF Sweeps, end
    <2>2. why' = "frame" /\ UNCHANGED <<job, frame, calls>> /\ calls = 0
      BY <1>3, <1>4, <1>7, <2>1, FailedOver DEF Sweeps, Still, page
    <2>3. QED
      BY <2>1, <2>2 DEF Justified, Awaited
  <1>8. CASE Resolves
    <2>1. job = "assertion" /\ why' = "mismatch"
      BY <1>3, <1>8, FailedOver DEF Resolves, end
    <2>2. UNCHANGED <<job, frame, look, seen, unseen, steady, calls>> /\ calls = 0
      BY <1>4, <1>8, <2>1 DEF Resolves, Looking, Still, page, sweep
    <2>3. QED
      BY <2>1, <2>2 DEF Justified
  <1>9. CASE Scans
    <2>1. /\ job = "text" /\ why' = "text" /\ c \in Candidate /\ pc = "look" /\ calls = 0
          /\ c \notin seen \/ look[c] \notin {"other", "good"}
          /\ UNCHANGED <<job, look, seen, unseen, steady, calls>>
      BY <1>0, <1>3, <1>4, <1>9, ScanCases, Constants DEF SweepType, Candidate
    <2>2. ~Open(c)
      BY <2>1 DEF LookInv, FramesKnown, Open
    <2>3. ASSUME NEW i \in seen, Held(i)
          PROVE  \E j \in 1 .. i - 1 : ~Open(j)
      <3>1. i \in Candidate /\ i # c
        BY <2>1, <2>2, <2>3 DEF SweepType, Held, Open
      <3>2. ~(i < c)
        BY <2>1, <2>3, <3>1 DEF LookInv, PassedOver, Candidate
      <3>3. c \in 1 .. i - 1
        BY <2>1, <3>1, <3>2, Constants DEF Candidate
      <3>4. QED
        BY <2>2, <3>3
    <2>4. QED
      BY <2>1, <2>3 DEF Justified, Held, Open
  <1>10. CASE ScanFails
    <2>1. /\ job = "text" /\ c \in Candidate /\ pc = "look" /\ calls = 0
          /\ UNCHANGED <<job, look, seen, steady, calls>> /\ unseen' = unseen \cup {c}
      BY <1>4, <1>10, Constants DEF ScanFails, Looking, Still, page, SweepType, Candidate
    <2>2. why' = "text"
      BY <1>3, <1>10, FailedOver DEF ScanFails, end
    <2>3. ASSUME NEW i \in seen, Held(i)'
          PROVE  \E j \in 1 .. i - 1 : ~Open(j)'
      <3>1. i \in Candidate /\ i # c /\ Held(i)
        BY <2>1, <2>3 DEF SweepType, Held
      <3>2. ~(i < c)
        BY <2>1, <3>1 DEF LookInv, PassedOver, Candidate
      <3>3. PICK j \in 1 .. i - 1 : j = c
        BY <2>1, <3>1, <3>2, Constants DEF Candidate
      <3>4. ~Open(j)'
        BY <2>1, <3>1, <3>3 DEF Open
      <3>5. QED
        BY <3>3, <3>4
    <2>4. QED
      BY <2>1, <2>2, <2>3 DEF Justified, Held, Open
  <1>11. CASE ReadsGroups
    <2>1. job = "group" /\ calls = 0 /\ pc = "look"
      BY <1>4, <1>11 DEF ReadsGroups, Looking
    <2>2. UNCHANGED <<job, frame, look, seen, unseen, steady, calls>>
      BY <1>11 DEF ReadsGroups, Still, page, sweep
    <2>3. \/ why' = "action"
          \/ why' = "group" /\ ~\E i \in Candidate : look[i] = "good"
      BY <1>3, <1>11, FailedOver DEF ReadsGroups
    <2>4. QED
      BY <2>1, <2>2, <2>3 DEF Justified, Held
  <1>12. CASE Unresolved
    <2>1. /\ job \in {"assertion", "text"} /\ pc = "look"
          /\ why' = IF job = "text" THEN "text" ELSE "target"
      BY <1>3, <1>12, FailedOver, Constants DEF Unresolved, LookInv, Asked, Asserting, end
    <2>2. UNCHANGED <<job, frame, look, seen, unseen, steady, calls>> /\ calls = 0
      BY <1>4, <1>12 DEF Unresolved, Still, page, sweep
    <2>3. \A i \in Candidate : ~Held(i)
      BY <1>5, <1>12 DEF Unresolved
    <2>4. QED
      BY <2>1, <2>2, <2>3 DEF Justified, Held, SweepType
  <1>13. CASE Wakes
    <2>1. /\ pc = "sleep" /\ job # "settle" /\ calls = 0
          /\ why' = IF job \in {"visible", "hidden"} THEN "condition" ELSE "target"
      <3>1. CASE job = "settle"
        BY <1>3, <1>13, <3>1 DEF Wakes, end
      <3>2. CASE job # "settle" /\ TimeLeft
        BY <1>3, <1>13, <3>2 DEF Wakes, end
      <3>3. CASE job # "settle" /\ ~TimeLeft
        BY <1>3, <1>4, <1>13, <3>3, FailedOver DEF Wakes
      <3>4. QED
        BY <3>1, <3>2, <3>3
    <2>2. UNCHANGED <<job, frame, look, seen, unseen, steady, calls>>
      BY <1>13 DEF Wakes, Still, page, sweep
    <2>3. CASE job \in {"visible", "hidden"}
      BY <2>1, <2>2, <2>3 DEF Justified, Awaited
    <2>4. CASE job \notin {"visible", "hidden"}
      <3>1. job \in Acting
        BY <2>1, <2>4 DEF PhaseType, PlaceInv, Job
      <3>2. \A i \in Candidate : ~Held(i)
        BY <1>5, <2>1, <2>4, <3>1 DEF LookInv, TriedAll
      <3>3. QED
        BY <2>1, <2>2, <2>4, <3>1, <3>2 DEF Justified, Held
    <2>5. QED
      BY <2>3, <2>4
  <1>14. CASE CallFails
    <2>1. pc = "act" /\ calls > 0 /\ job \in Acting
      BY <1>14 DEF CallFails, PlaceInv
    <2>2. why' = "action" /\ calls' = calls
      BY <1>3, <1>14, FailedOver DEF CallFails, end
    <2>3. job' = job
      BY <1>14 DEF CallFails, Still
    <2>4. QED
      BY <2>1, <2>2, <2>3 DEF Justified
  <1>15. QED
    BY <1>6, <1>7, <1>8, <1>9, <1>10, <1>11, <1>12, <1>13, <1>14, Outcomes


-----------------------------------------------------------------------------
(* What a wait waited for *)

LEMMA PassedOverWith ==
    ASSUME NEW r, NEW w, Over(r, w), result # "passed", result' = "passed"
    PROVE  r = "passed"
  BY DEF Over, end

LEMMA AtLeast ==
    ASSUME NEW n \in Int, NEW s \in Int, NEW u \in Int, NEW d \in Int, u <= s, n - s >= d
    PROVE  n - u >= d
  OBVIOUS

LEMMA WaitKept ==
    ASSUME PhaseType, ClockType, PageType, SweepType, PlaceInv, TimeInv, LookInv, WaitIsTrue,
           [Next]_vars
    PROVE  WaitIsTrue'
  <1>0. Asked /\ FrameStages /\ Glanced
    BY DEF LookInv
  <1>1. CASE pc = "over"
    BY <1>0, <1>1, OverStays DEF vars, waiting, page, tracker, busy, end, WaitIsTrue
  <1>2. CASE result' # "passed"
    BY <1>2 DEF WaitIsTrue
  <1> SUFFICES ASSUME pc # "over", result' = "passed"
               PROVE  WaitIsTrue'
    BY <1>1, <1>2
  <1>3. result # "passed"
    BY DEF PlaceInv
  <1>4. CASE Resolves \/ Scans \/ ReadsGroups \/ CallDone
    <2>1. job' = job
      BY <1>0, <1>4, ScanCases DEF Resolves, ReadsGroups, CallDone, Still
    <2>2. job \in Acting \cup {"assertion", "text", "group"}
      BY <1>0, <1>4, ScanCases DEF Resolves, ReadsGroups, CallDone, Looking, PlaceInv
    <2>3. job \notin {"visible", "hidden", "settle"}
      BY <2>2 DEF Acting
    <2>4. QED
      BY <2>1, <2>3 DEF WaitIsTrue
  <1>5. CASE Judges
    <2>1. job \in {"visible", "hidden"} /\ job' = job /\ now' = now
      BY <1>5 DEF Judges, Still
    <2>2. since' # -1 /\ now - since' >= Stable
      BY <1>3, <1>5 DEF Judges, end
    <2>3. unmetAt' <= since'
      BY <1>0, <2>2, TimeKept DEF TimeInv
    <2>4. since' \in Nat /\ unmetAt' \in Nat
      <3>1. since' = Since /\ unmetAt' = (IF Unmet THEN now ELSE unmetAt)
        BY <1>5 DEF Judges
      <3>2. since' \in Nat
        BY <2>2, <3>1 DEF Since, ClockType
      <3>3. unmetAt' \in Nat
        BY <3>1 DEF ClockType
      <3>4. QED
        BY <3>2, <3>3
    <2>5. now \in Nat /\ Stable \in Nat
      BY Constants DEF ClockType
    <2>6. now - unmetAt' >= Stable
      <3>1. now - since' >= Stable
        BY <2>2
      <3>2. now \in Int /\ since' \in Int /\ unmetAt' \in Int /\ Stable \in Int
        BY <2>4, <2>5
      <3>3. QED
        BY <2>3, <3>1, <3>2, AtLeast
    <2>7. QED
      BY <2>1, <2>6 DEF WaitIsTrue
  <1>6. CASE AsksDocument
    <2>1. job = "settle" /\ UNCHANGED <<job, now, deadline>>
      BY <1>6 DEF AsksDocument, PlaceInv, Still, waiting
    <2>2. ~TimeLeft
      BY <1>3, <1>6 DEF AsksDocument, end
    <2>3. QED
      BY <2>1, <2>2 DEF WaitIsTrue, TimeLeft
  <1>7. CASE Polls
    <2>1. /\ job = "settle" /\ pc = "asked"
          /\ UNCHANGED <<job, now, requests, requestedAt, domTracked, calm>>
      BY <1>7 DEF Polls, PlaceInv, Still, page, tracker, busy
    <2>2. domQuiet /\ NetworkQuiet
      BY <1>3, <1>7 DEF Polls, end
    <2>3. ~requests /\ now - requestedAt >= Quiet
      <3>1. ~active /\ now - lastNetwork >= Quiet
        BY <2>2 DEF NetworkQuiet
      <3>2. ~requests /\ requestedAt <= lastNetwork
        BY <3>1 DEF TimeInv
      <3>3. now - requestedAt >= Quiet
        BY <3>1, <3>2, Constants DEF ClockType
      <3>4. QED
        BY <3>2, <3>3
    <2>4. domTracked => calm >= Quiet
      BY <2>1, <2>2 DEF TimeInv
    <2>5. QED
      BY <2>1, <2>3, <2>4 DEF WaitIsTrue
  <1>8. QED
    BY <1>4, <1>5, <1>6, <1>7, Outcomes

-----------------------------------------------------------------------------
(* The theorems *)

LEMMA Initial == Init => IInv
  <1> SUFFICES ASSUME Init PROVE IInv
    OBVIOUS
  <1> USE DEF Init
  <1>1. PhaseType
    <2>1. pc \in {"load", "sweep", "position"} /\ calls = 0
      OBVIOUS
    <2>2. calls \in 0 .. Calls(job)
      BY <2>1 DEF Calls
    <2>3. job \in Job /\ ~stopped /\ stopped \in BOOLEAN /\ result = "open" /\ why = "none"
      OBVIOUS
    <2>4. pc # "over" /\ pc \in {"position", "sweep", "look", "sleep", "act", "load", "poll", "asked", "over"}
      BY <2>1
    <2> HIDE DEF Init
    <2>5. QED
      BY <2>1, <2>2, <2>3, <2>4 DEF PhaseType
  <1>2. ClockType
    BY Constants DEF ClockType
  <1>3. PageType
    BY DEF PageType
  <1>4. SweepType
    BY Constants DEF SweepType, Candidate
  <1>5. PlaceInv
    BY DEF PlaceInv, Job, Acting, Asserting
  <1>6. TimeInv
    BY Constants DEF TimeInv
  <1>7. LookInv
    <2>1. pc # "look" /\ pc # "sleep"
      OBVIOUS
    <2>2. QED
      BY <2>1 DEF LookInv, Asked, FrameStages, PassedOver, Examined, TriedAll, FramesKnown, Glanced
  <1>8. AimInv /\ BlameInv /\ WaitIsTrue
    BY DEF AimInv, BlameInv, WaitIsTrue
  <1>9. QED
    BY <1>1, <1>2, <1>3, <1>4, <1>5, <1>6, <1>7, <1>8, TypeParts DEF IInv

LEMMA Inductive == IInv /\ [Next]_vars => IInv'
  <1> SUFFICES ASSUME IInv, [Next]_vars PROVE IInv'
    OBVIOUS
  <1>1. /\ PhaseType /\ ClockType /\ PageType /\ SweepType
        /\ PlaceInv /\ TimeInv /\ LookInv /\ AimInv /\ BlameInv /\ WaitIsTrue
    BY TypeParts DEF IInv
  <1>2. Asked /\ FrameStages /\ Glanced
    BY <1>1 DEF LookInv
  <1>3. PhaseType' /\ ClockType' /\ PageType' /\ SweepType'
    BY <1>1, <1>2, PhaseTypeKept, ClockTypeKept, PageTypeKept, SweepTypeKept
  <1>4. TypeOK'
    BY <1>3, TypeParts DEF TypeOK, PhaseType, ClockType, PageType, SweepType
  <1>5. PlaceInv' /\ TimeInv' /\ LookInv'
    BY <1>1, <1>2, PlaceKept, TimeKept, LookKept
  <1>6. AimInv' /\ BlameInv' /\ WaitIsTrue'
    BY <1>1, AimKept, BlameKept, WaitKept
  <1>7. QED
    BY <1>4, <1>5, <1>6 DEF IInv

\* What is known of a phase of a step, in every behaviour of the page: the
\* inductive invariant.
THEOREM Invariance == Spec => []IInv
  BY Initial, Inductive, PTL DEF Spec

\* The element acted on, or asserted about, is the first of the candidates that
\* fits, as far as the page held still while they were looked at, for any number
\* of candidates and of changes (attemptTargetResolution).
THEOREM BestTarget == Spec => []TargetIsBest
  <1>1. IInv => TargetIsBest
    <2> SUFFICES ASSUME IInv,
                        \/ calls = 1 /\ pc = "act" /\ job # "navigate"
                        \/ job = "assertion" /\ result = "passed"
                 PROVE  (c \in steady => look[c] = "good") /\ \A i \in 1 .. c - 1 : ~Held(i)
      BY DEF TargetIsBest
    <2>1. c \in steady => look[c] = "good"
      BY DEF IInv, AimInv
    <2>2. job \notin {"visible", "hidden"}
      BY DEF IInv, PlaceInv, Acting
    <2>3. QED
      BY <2>1, <2>2 DEF IInv, LookInv, PassedOver
  <1>2. QED
    BY <1>1, Invariance, PTL

\* A condition reported to hold was last seen not to hold at least Stable ago; a
\* page reported to have settled in time has had no request for Quiet, and its
\* document had done nothing for Quiet when it was last asked (waitForCondition,
\* waitForAutomaticSettle).
THEOREM WaitsAreTrue == Spec => []WaitIsTrue
  <1>1. IInv => WaitIsTrue
    BY DEF IInv
  <1>2. QED
    BY <1>1, Invariance, PTL

\* What a run that was stopped had not begun by then it never begins
\* (raceWithCancellation, throwIfCancelled).
THEOREM StoppedIsNotBegun == Spec => NotBegunAfterStop
  <1>1. IInv /\ [Next]_vars => [stopped /\ calls = 0 => calls' = 0]_vars
    <2> SUFFICES ASSUME IInv, [Next]_vars, stopped, calls = 0
                 PROVE  calls' = 0
      OBVIOUS
    <2>1. pc # "act" /\ FrameStages /\ SweepType /\ PageType
      BY TypeParts DEF IInv, PlaceInv, LookInv
    <2>2. CASE Page
      BY <2>1, <2>2, PageFacts
    <2>3. CASE Tick \/ Stop \/ UNCHANGED vars
      BY <2>3 DEF Tick, Stop, vars
    <2>4. CASE Phase
      BY <2>1, <2>4, ScanCases DEF Phase, Abandons, Positioned, PositionFails, Sweeps, Asks,
         Resolves, Counts, Glances, ScanFails, ReadsGroups, EvaluationFails, Unresolved, Judges, Wakes,
         CallDone, CallFails, Loaded, AsksDocument, Polls, Looking
    <2>5. QED
      BY <2>2, <2>3, <2>4 DEF Next
  <1>2. QED
    BY <1>1, Invariance, PTL DEF Spec, NotBegunAfterStop


-----------------------------------------------------------------------------
(* What is told of a failure *)

\* The panel's diagnostic of each failure, and the headless runner's error.
LEMMA Told ==
    ASSUME NEW j \in Job, NEW w
    PROVE  LET d == Diagnostic(Error(j, w))
               r == Reported(Error(j, w)) IN
           /\ r \in {PhaseOf(j), "frame"}
           /\ r = "frame" => w = "frame"
           /\ w = "position" /\ j \in Acting \cup {"assertion"} => d = PhaseOf(j)
           /\ w = "frame" /\ j \notin Awaited => d = "frame"
           /\ w = "target" /\ j \in Acting \cup {"assertion"} => d = "target"
           /\ w = "mismatch" /\ j = "assertion" => d = "mismatch"
           /\ w = "group" /\ j = "group" => d = "group"
           /\ w = "text" /\ j = "text" => d = "text"
           /\ w = "condition" /\ j \in Awaited => d = "condition"
           /\ w = "action" /\ j \in Acting \cup {"group"} => d = PhaseOf(j)
  <1> DEFINE t == Thrown(j, w)
             e == Error(j, w)
             d == Diagnostic(e)
             r == Reported(e)
  <1>1. t.phase = PhaseOf(j)
    BY DEF Thrown
  <1>2. e.phase = PhaseOf(j) /\ e.detail = t.detail /\ e.about = t.about
    BY <1>1 DEF Error, Rethrown, Thrown
  <1>3. e.code = IF j \in Awaited \cup {"group"} \/ t.code = "assertion_failed" THEN t.code
                 ELSE IF j \in Asserting THEN "assertion_failed" ELSE "action_failed"
    BY DEF Error, Rethrown, Thrown
  <1>4. t.code = "frame_unavailable" <=> w = "frame"
    BY DEF Thrown
  <1>5. r \in {PhaseOf(j), "frame"} /\ (r = "frame" => w = "frame")
    <2>1. PhaseOf(j) # "frame"
      BY DEF PhaseOf
    <2>2. e.code = "frame_unavailable" => w = "frame"
      BY <1>3, <1>4
    <2> HIDE DEF e
    <2>3. QED
      BY <1>2, <2>1, <2>2 DEF Reported
  <1>6. ASSUME w = "position" /\ j \in Acting \cup {"assertion"}
        PROVE  d = PhaseOf(j)
    <2>1. t.code = "position_failed" /\ t.about = "nothing" /\ t.detail = "none"
      BY <1>6 DEF Thrown
    <2>2. j \notin Awaited \cup {"group"}
      BY <1>6 DEF Acting, Awaited
    <2>3. e.code \in {"assertion_failed", "action_failed"}
      BY <1>3, <2>1, <2>2
    <2> HIDE DEF e, t
    <2>4. QED
      BY <1>2, <2>1, <2>3 DEF Diagnostic, Resolution
  <1>7. ASSUME w = "frame" /\ j \notin Awaited
        PROVE  d = "frame"
    <2>1. t.code = "frame_unavailable" /\ t.about = "frame" /\ t.detail = "none"
      BY <1>7 DEF Thrown
    <2>2. e.code \in {"frame_unavailable", "assertion_failed", "action_failed"}
      BY <1>3, <2>1
    <2> HIDE DEF e, t
    <2>3. QED
      BY <1>2, <2>1, <2>2 DEF Diagnostic, Resolution
  <1>8. ASSUME w = "target" /\ j \in Acting \cup {"assertion"}
        PROVE  d = "target"
    <2>1. t.code = "target_unresolved" /\ t.about = "candidates"
      BY <1>8 DEF Thrown
    <2>2. t.detail = "target" \/ t.detail = "none"
      BY <1>8 DEF Thrown
    <2>3. e.code \in {"assertion_failed", "action_failed"}
      BY <1>3, <1>8, <2>1 DEF Acting, Awaited
    <2>4. t.detail = "none"
      BY <1>8 DEF Thrown
    <2> HIDE DEF e, t
    <2>5. QED
      BY <1>2, <2>1, <2>3, <2>4 DEF Diagnostic, Resolution
  <1>9. ASSUME w \in {"mismatch", "group", "text"}
        PROVE  d = w
    <2>1. t.code = "assertion_failed" /\ t.detail = w
      BY <1>9 DEF Thrown
    <2>2. e.code = "assertion_failed" /\ e.detail = w /\ w # "none"
      BY <1>2, <1>3, <1>9, <2>1
    <2> HIDE DEF e, t
    <2>3. QED
      BY <2>2 DEF Diagnostic
  <1>10. ASSUME w = "condition" /\ j \in Awaited
        PROVE  d = "condition"
    <2>1. e.code = "wait_failed"
      BY <1>3, <1>10 DEF Thrown
    <2> HIDE DEF e, t
    <2>2. QED
      BY <2>1 DEF Diagnostic
  <1>11. ASSUME w = "action" /\ j \in Acting \cup {"group"}
        PROVE  d = PhaseOf(j)
    <2>1. t.code = "raw" /\ t.about = "nothing" /\ t.detail = "none"
      BY <1>11 DEF Thrown
    <2>2. PhaseOf(j) # "waiting"
      BY <1>11 DEF PhaseOf, Acting, Awaited
    <2>3. e.code \in {"raw", "action_failed"}
      BY <1>3, <1>11, <2>1 DEF Acting, Asserting, Awaited
    <2> HIDE DEF e, t
    <2>4. QED
      BY <1>2, <2>1, <2>2, <2>3 DEF Diagnostic, Resolution
  <1>12. QED
    BY <1>5, <1>6, <1>7, <1>8, <1>9, <1>10, <1>11

\* A failed step is blamed on what was so throughout the last look at the page,
\* by the panel and by the headless runner: a frame is called missing, a target
\* unresolved or a text absent only then (diagnosticFor,
\* automationErrorFromReplay).
THEOREM RightlyBlamed == Spec => []BlamedRightly
  <1>1. IInv => BlamedRightly
    <2> SUFFICES ASSUME IInv, result = "failed" PROVE BlamedRightly
      BY DEF BlamedRightly
    <2> DEFINE d == Diagnostic(Error(job, why))
               r == Reported(Error(job, why))
    <2>1. job \in Job /\ Justified
      BY DEF IInv, TypeOK, BlameInv
    <2>2. why \in {"position", "frame", "target", "action", "condition", "text", "mismatch",
                   "group"}
      BY <2>1 DEF IInv, TypeOK, Justified
    <2>3. PhaseOf(job) \in {"asserting", "waiting", "acting"}
      BY DEF PhaseOf
    <2>4. /\ r \in {PhaseOf(job), "frame"}
          /\ r = "frame" => why = "frame"
          /\ d = IF why \in {"position", "action"} THEN PhaseOf(job) ELSE why
      BY <2>1, <2>2, Told DEF Justified
    <2>5. PhaseOf(job) = "acting" => job \notin Asserting \cup Awaited
      BY DEF PhaseOf
    <2>6. job \in Acting => PhaseOf(job) = "acting"
      BY DEF PhaseOf, Acting, Asserting, Awaited
    <2> HIDE DEF d, r
    <2>7. "frame" \in {d, r} /\ 0 \in steady => ~frame
      BY <2>1, <2>2, <2>3, <2>4 DEF Justified
    <2>8. "target" \in {d, r} => \A i \in Candidate : ~Held(i)
      BY <2>1, <2>2, <2>3, <2>4 DEF Justified
    <2>9. "group" \in {d, r} => \A i \in Candidate : ~Held(i)
      BY <2>1, <2>2, <2>3, <2>4 DEF Justified
    <2>10. "text" \in {d, r} => \A i \in {k \in seen : Held(k)} : \E j \in 1 .. i - 1 : ~Open(j)
      BY <2>1, <2>2, <2>3, <2>4 DEF Justified
    <2>11. calls > 0 => {d, r} = {"acting"}
      BY <2>1, <2>2, <2>4, <2>6 DEF Justified
    <2>12. "acting" \in {d} => calls > 0 \/ why = "position"
      BY <2>1, <2>2, <2>4, <2>5 DEF Justified, Asserting
    <2>13. QED
      BY <2>7, <2>8, <2>9, <2>10, <2>11, <2>12 DEF BlamedRightly, d, r
  <1>2. QED
    BY <1>1, Invariance, PTL

=============================================================================
