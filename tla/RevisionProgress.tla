--------------------------- MODULE RevisionProgress ---------------------------
(***************************************************************************)
(* What a mount's evaluation state promises to a host that polls it        *)
(* (packages/runtime/README.md, "State"): numbered evaluation waves, the   *)
(* number of the last wave in which every selected cell finished, and the  *)
(* cells that the current wave still waits for.  A wave that was declared  *)
(* settled is never reopened: more work means a new number.                *)
(***************************************************************************)
EXTENDS Integers

CONSTANT Cells

VARIABLES
  input,      \* the current wave, -1 before the first
  settled,    \* the last wave that settled, -1 before the first
  running,    \* the cells the current wave waits for
  closed

vars == <<input, settled, running, closed>>

Init ==
  /\ input = -1
  /\ settled = -1
  /\ running = {}
  /\ closed = FALSE

\* A new wave.  One that waits for nothing is settled from the start.
Open ==
  /\ ~closed
  /\ input' \in Int /\ input' > input
  /\ running' \in SUBSET Cells
  /\ settled' = IF running' = {} THEN input' ELSE settled
  /\ UNCHANGED closed

\* One more cell runs in a wave that has not finished.
Join ==
  /\ ~closed
  /\ running # {}
  /\ \E c \in Cells : running' = running \cup {c}
  /\ UNCHANGED <<input, settled, closed>>

Finish ==
  /\ ~closed
  /\ \E c \in running : running' = running \ {c}
  /\ UNCHANGED <<input, settled, closed>>

Settle ==
  /\ ~closed
  /\ running = {}
  /\ settled' = input
  /\ UNCHANGED <<input, running, closed>>

\* The whole wave fails: it is over, under the same or a new number.
Abandon ==
  /\ ~closed
  /\ input' \in Int /\ input' >= input
  /\ running' = {}
  /\ settled' = input'
  /\ UNCHANGED closed

Shut ==
  /\ ~closed
  /\ closed' = TRUE
  /\ running' = {}
  /\ UNCHANGED <<input, settled>>

Next == Open \/ Join \/ Finish \/ Settle \/ Abandon \/ Shut

Spec == Init /\ [][Next]_vars
=============================================================================
