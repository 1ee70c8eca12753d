------------------------------ MODULE ReplayErrors ------------------------------
(***************************************************************************)
(* What is said of a step that failed: the ReplayCoreError a failure in    *)
(* the page is turned into (replay-core), the diagnostic the interactive   *)
(* engine makes of it and the error the headless runner reports. Wording   *)
(* is left out; what is kept is which thing a message blames.              *)
(***************************************************************************)

\* ReplayFailureCode, but for cancellation and preflight, which end a run before
\* a step fails; "raw" is any error that is no ReplayCoreError.
Code == {"frame_unavailable", "target_unresolved", "position_failed", "action_failed",
         "assertion_failed", "wait_failed", "raw"}

Asserting == {"assertion", "text", "group"}
Awaited == {"visible", "hidden"}

PhaseOf(job) == IF job \in Asserting THEN "asserting"
              ELSE IF job \in Awaited THEN "waiting" ELSE "acting"

\* What is thrown where a job fails for the reason why: the attempts tell of the
\* frame that was not found or of the candidates that did not fit, the detail of
\* what an assertion found instead.
Thrown(job, why) ==
    LET code == CASE why = "position" -> "position_failed"
                  [] why = "frame" -> "frame_unavailable"
                  [] why = "target" -> "target_unresolved"
                  [] why = "condition" -> "wait_failed"
                  [] why \in {"text", "group", "mismatch"} -> "assertion_failed"
                  [] OTHER -> "raw"
    IN [code |-> code, phase |-> PhaseOf(job),
        about |-> CASE why = "frame" -> "frame"
                    [] why \in {"target", "group", "mismatch"} -> "candidates"
                    [] OTHER -> "nothing",
        detail |-> IF why \in {"text", "group", "mismatch"} THEN why ELSE "none"]

\* The catch of executeStepActionUncancelled, past which no other code of an
\* action or an assertion gets; a group's assertion is returned and not awaited,
\* so that what it throws is not caught there.
RethrownWithoutAttempts(job, e) ==
    IF job \in Awaited \cup {"group"} \/ e.code = "assertion_failed" THEN e
    ELSE [e EXCEPT !.code = IF job \in Asserting THEN "assertion_failed" ELSE "action_failed",
                   !.about = "nothing"]
Rethrown(job, e) ==
    IF job \in Awaited \cup {"group"} \/ e.code = "assertion_failed" THEN e
    ELSE [e EXCEPT !.code = IF job \in Asserting THEN "assertion_failed" ELSE "action_failed"]

Error(job, why) == Rethrown(job, Thrown(job, why))

\* resolutionMessage.
Resolution(e, otherwise) ==
    CASE e.about = "frame" -> "frame" [] e.about = "candidates" -> "target" [] OTHER -> otherwise

\* diagnosticFor and frontendErrorMessage: what the failure panel blames.
Diagnostic(e) ==
    CASE e.code = "raw" -> IF e.phase = "waiting" THEN "condition" ELSE e.phase
      [] e.code = "wait_failed" -> "condition"
      [] e.code = "assertion_failed" /\ e.detail # "none" -> e.detail
      [] OTHER -> Resolution(e, e.phase)

\* automationErrorFromReplay and automationMessage: what the headless runner
\* reports.
Reported(e) == IF e.code = "frame_unavailable" THEN "frame" ELSE e.phase

=============================================================================
