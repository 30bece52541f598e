--------------------------- MODULE MCUploadAdmission ---------------------------
(* An instance of UploadAdmission and its queue for TLC: four requests to one   *)
(* order, two of them with files, and one with files to another.                *)
EXTENDS UploadAdmission

CONSTANTS a, b, c, d, e, order1, order2

MCCallers == {a, b, c, d, e}
MCKeyOf == [x \in MCCallers |-> IF x = e THEN order2 ELSE order1]
=============================================================================
