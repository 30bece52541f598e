---------------------------- MODULE MCWorkDialogs ----------------------------
(* WorkDialogs for TLC: files with one name, and files with names of their own. *)
EXTENDS WorkDialogs

MCOwnNames == [f \in Files |-> f]
Symmetric == Permutations(Tabs) \union Permutations(Files)
=============================================================================
