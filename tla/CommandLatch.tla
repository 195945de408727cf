----------------------------- MODULE CommandLatch -----------------------------
(***************************************************************************)
(* What the busy flag of a controller promises, whatever the controller    *)
(* commands: at most one worker thread is carrying a command out, a        *)
(* command arriving meanwhile is refused, and a latch that is left closed  *)
(* (a halt was issued, or the worker died under it) never opens again in   *)
(* the life of the process.                                                *)
(*                                                                         *)
(* PowerControl has one latch for the host, PoeControl one for each port.  *)
(***************************************************************************)

CONSTANT Workers   \* the threads of the controller's pool

VARIABLES
  closed,    \* the busy flag
  holders    \* the workers between their check-and-set and their release

latchVars == << closed, holders >>

Init ==
  /\ closed = FALSE
  /\ holders = {}

\* A worker finds the latch open and closes it, in one step.
Acquire(w) ==
  /\ ~closed
  /\ holders = {}
  /\ closed' = TRUE
  /\ holders' = {w}

\* The command is over: another may be accepted.
Release(w) ==
  /\ holders = {w}
  /\ closed' = FALSE
  /\ holders' = {}

\* The worker is done and leaves the latch closed behind it.
Keep(w) ==
  /\ holders = {w}
  /\ holders' = {}
  /\ UNCHANGED closed

\* The process died: its successor starts with an open latch.
Reset ==
  /\ closed' = FALSE
  /\ holders' = {}

Next ==
  \/ \E w \in Workers : Acquire(w) \/ Release(w) \/ Keep(w)
  \/ Reset

Spec == Init /\ [][Next]_latchVars

===============================================================================
