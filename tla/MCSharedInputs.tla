----------------------------- MODULE MCSharedInputs -----------------------------
(* One or two names, two views, and a file that cannot be shared. *)
EXTENDS SharedInputs
CONSTANTS a, b, v1, v2, file
One == {a}
Two == {a, b}
=============================================================================
