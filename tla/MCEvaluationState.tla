--------------------------- MODULE MCEvaluationState ---------------------------
(* Two shown cells and a hidden one; input changes that reach one, the other, *)
(* both or only the hidden cell.                                              *)
EXTENDS EvaluationState, TLC
CONSTANTS c1, c2, hidden, display, variable
MCCells == {c1, c2, hidden}
MCSelected == {c1, c2}
MCChannels == {display, variable}
MCAffectedSets == {{c1}, {c1, c2}, {hidden}}
\* Those that reach a shown cell.
MCReachingSets == {{c1}, {c1, c2}}
\* The two channels of a cell are interchangeable.
MCSymmetry == Permutations(MCChannels)
=============================================================================
