------------------------------ MODULE MCAccounts ------------------------------
(* Instances of Accounts for TLC: a person with two browsers, another who may   *)
(* type the address of the first by mistake.                                      *)
EXTENDS Accounts, TLC

CONSTANTS anna, boris, annasMail, laptop, phone, office

MCOwner == [b \in Browsers |-> IF b = office THEN boris ELSE anna]
MCMailOf == [p \in People |-> IF p = anna THEN {annasMail} ELSE {}]

\* The two browsers of one person differ in nothing.
Symmetric == Permutations({laptop, phone})
=============================================================================
