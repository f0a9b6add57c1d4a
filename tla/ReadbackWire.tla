----------------------------- MODULE ReadbackWire -----------------------------
(***************************************************************************)
(* What Python requires of an evaluation state it is sent, by a widget's   *)
(* readback or in a snapshot of the engine (validate_readback_wire in      *)
(* _readback.py): the revisions, the pending flag and the results must     *)
(* tell one story, or the whole message is refused with an exception.      *)
(* Shapes and types of the fields are left out.                            *)
(***************************************************************************)
EXTENDS EvaluationOps

ReportedCells(s) == {c \in Cells : s.results[c] # NoResult}

\* Nothing was evaluated yet, or evaluation has a wave that is settled exactly
\* when nothing is pending.
RevisionsAccepted(s) ==
  \/ /\ s.inputRevision = NoRevision
     /\ s.settledRevision = NoRevision /\ s.pending = {} /\ ReportedCells(s) = {}
  \/ /\ s.inputRevision # NoRevision
     /\ s.settledRevision <= s.inputRevision
     /\ s.pending = {} <=> s.settledRevision = s.inputRevision

ResultAccepted(s, c) == c \in s.selected /\ s.results[c].revision \in 0..s.inputRevision

Accepted(s) ==
  /\ RevisionsAccepted(s)
  /\ \A c \in ReportedCells(s) : ResultAccepted(s, c)
  /\ s.inputRevision # NoRevision /\ ReportedCells(s) # s.selected => s.errors
  /\ s.pending # {} <=> \E c \in Cells : s.results[c].status = "pending"
=============================================================================
