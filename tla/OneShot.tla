------------------------------ MODULE OneShot ------------------------------
(***************************************************************************)
(* What the first-light bench keeps of the one shot its head promises: one *)
(* shot per launch. A launch opens each device at most once, the worker's  *)
(* first; it banks one receipt, which says no more than was done; and once *)
(* anything is banked no launch gets past the guard. What it does not keep *)
(* is here too: a launch that was killed with nothing banked (Abandon) is  *)
(* followed by one that opens again (Begin), which is not the "exactly one *)
(* open attempt per side, ever" of that head.                              *)
(***************************************************************************)

VARIABLES
  running,  \* the coordinator is between its guard and its end
  opens,    \* the sides whose device the latest launch past the guard has opened
  banked    \* the outcome of the receipt

vars == <<running, opens, banked>>

Init == running = FALSE /\ opens = {} /\ banked = "none"

\* What an abandoned launch opened does not count against the next.
Begin ==
  /\ ~running /\ banked = "none"
  /\ running' = TRUE /\ opens' = {}
  /\ UNCHANGED banked

\* The worker may be slow: its open may come after the run was given up or banked as
\* aborted, but never after one that says it opened nothing, or that all went well.
OpenWorker ==
  /\ "P" \notin opens /\ banked \notin {"skipped", "ok"}
  /\ opens' = opens \cup {"P"}
  /\ UNCHANGED <<running, banked>>

\* The coordinator opens over an open of the worker, and with nothing banked.
OpenCoordinator ==
  /\ running /\ banked = "none" /\ opens = {"P"}
  /\ opens' = {"P", "C"}
  /\ UNCHANGED <<running, banked>>

\* The receipt is truncated, then filled, and with that the run ends.
Truncate ==
  /\ running /\ banked = "none"
  /\ banked' = "torn"
  /\ UNCHANGED <<running, opens>>

Bank ==
  /\ running /\ banked = "torn"
  /\ running' = FALSE
  /\ \/ banked' = "aborted"
     \/ banked' = "skipped" /\ opens = {}
     \/ banked' = "ok" /\ opens = {"P", "C"}
  /\ UNCHANGED opens

\* A kill, or an exception nobody catches, at any moment.
Abandon ==
  /\ running
  /\ running' = FALSE
  /\ UNCHANGED <<opens, banked>>

Next == Begin \/ OpenWorker \/ OpenCoordinator \/ Truncate \/ Bank \/ Abandon

Spec == Init /\ [][Next]_vars
=============================================================================
