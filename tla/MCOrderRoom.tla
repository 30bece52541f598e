------------------------------ MODULE MCOrderRoom ------------------------------
(* An instance of OrderRoom for TLC: one tab, of a company. *)
EXTENDS OrderRoom

MCCompanyOwns == [t \in Tabs |-> CHOOSE c \in Companies : TRUE]
=============================================================================
