---------------------------- MODULE MCNotebookMount ----------------------------
(* Notebooks of two or three cells: `source' is referenced by `shown'; `other' *)
(* is a second source of it, or a cell that cannot be analysed.                *)
EXTENDS NotebookMount, TLC
CONSTANTS source, shown, other
MCChannels == {"display", "variable", "failure"}
Two == {source, shown}
Three == {source, shown, other}
ShownUsesSource == source :> {} @@ shown :> {source}
ShownUsesSourceOnly == ShownUsesSource @@ other :> {}
ShownUsesBoth == source :> {} @@ shown :> {source, other} @@ other :> {}
EachInput == {{source}, {shown}}
ShownInput == {{shown}}
=============================================================================
