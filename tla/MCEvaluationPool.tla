--------------------------- MODULE MCEvaluationPool ---------------------------
(* Two coroutines and a thread: both coroutines want the same cell, the thread *)
(* a catalog of two cells; one coroutine accepts the enclosing selection.      *)
EXTENDS EvaluationPool, TLC
CONSTANTS reader, rival, catalog
OneCellOrBoth == reader :> {1} @@ rival :> {1} @@ catalog :> {1, 2}
=============================================================================
