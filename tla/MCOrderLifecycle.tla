--------------------------- MODULE MCOrderLifecycle ---------------------------
(* Instances of OrderLifecycle, and of its views, for TLC. *)
EXTENDS LiveScreens, TLC

\* Two proposals: a dear one that expires after the first day, a cheap one later.
MCTerms == {[price |-> 2, deadline |-> 0], [price |-> 1, deadline |-> 1]}
MCOneTerm == {[price |-> 1, deadline |-> 0]}

MCSymmetry == Permutations(Companies) \union Permutations(Files) \union Permutations(Texts)
=============================================================================
