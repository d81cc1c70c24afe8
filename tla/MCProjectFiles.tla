--------------------------- MODULE MCProjectFiles ---------------------------
(* Two project files, and data files of which two in different directories have the
   same basename. *)
EXTENDS ProjectFiles, TLC

CONSTANTS p1, p2, a, b

MCStem == p1 :> "run1" @@ p2 :> "run2"
MCUserPath == {<<"tmp", "gs">>, <<"data", "gs">>, <<"tmp", "ut">>}
Symmetry == Permutations(Manager) \cup Permutations(Content)
=============================================================================
