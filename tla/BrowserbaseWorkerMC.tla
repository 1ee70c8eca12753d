-------------------------- MODULE BrowserbaseWorkerMC --------------------------
(* Small instances of BrowserbaseWorker for TLC. *)
EXTENDS BrowserbaseWorker

Plain(i) == [id |-> i, kind |-> "click", enabled |-> TRUE, waits |-> {},
             option |-> FALSE, source |-> "recorded", http |-> TRUE]

Shapes(i) == {Plain(i),
              [Plain(i) EXCEPT !.enabled = FALSE],
              [Plain(i) EXCEPT !.option = TRUE],
              [Plain(i) EXCEPT !.waits = {"delay", "condition"}],
              [Plain(i) EXCEPT !.kind = "select"],
              [Plain(i) EXCEPT !.kind = "fill", !.source = "runtime"],
              [Plain(i) EXCEPT !.kind = "assertion"],
              [Plain(i) EXCEPT !.kind = "navigate"]}

Document(s) == [steps |-> s, startUrl |-> TRUE, complete |-> TRUE, valid |-> TRUE]

TwoSteps == {Document(<<a, b>>) : a \in Shapes(1), b \in Shapes(2)}
             \cup {[Document(<<Plain(1), Plain(1)>>) EXCEPT !.complete = FALSE],
                  Document(<<Plain(1), Plain(1)>>)}
=============================================================================
