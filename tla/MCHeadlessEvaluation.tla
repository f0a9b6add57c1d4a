------------------------ MODULE MCHeadlessEvaluation ------------------------
(* `shown' has no name and uses `source', a view, and `other', whose name is    *)
(* assigned by the cell itself; the host may take over both names.              *)
EXTENDS HeadlessEvaluation, TLC
CONSTANTS source, shown, other
MCChannels == {"display", "variable", "failure"}
Three == {source, shown, other}
ShownUsesSource == source :> {} @@ shown :> {source} @@ other :> {}
ShownUsesBoth == source :> {} @@ other :> {} @@ shown :> {source, other}
ShownInput == {{shown}}
=============================================================================
