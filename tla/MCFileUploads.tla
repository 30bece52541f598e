---------------------------- MODULE MCFileUploads ----------------------------
(***************************************************************************)
(* FileUploads with two uploads of work to one order, which may bring the  *)
(* same content under the same or another name, and a creation of a second *)
(* order of the same client, which may be removed meanwhile.               *)
(***************************************************************************)
EXTENDS FileUploads

MCClientOf == [o \in Orders |-> "anna"]
MCOrderOf == [r1 |-> "house", r2 |-> "house", r3 |-> "flat"]

plan == [hash |-> "h1", name |-> "plan"]
copy == [hash |-> "h1", name |-> "copy"]
photo == [hash |-> "h2", name |-> "photo"]
sketch == [hash |-> "h3", name |-> "sketch"]

MCFiles == {plan, copy, photo, sketch}
MCSize == [h1 |-> 1, h2 |-> 1, h3 |-> 2]

MCBatches == [r1 |-> {{plan}, {sketch}}, r2 |-> {{copy, photo}}, r3 |-> {{plan}}]

MCLimit == [a \in Accounts |-> 3]

=============================================================================
