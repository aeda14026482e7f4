------------------------------- MODULE Editing -------------------------------
(***************************************************************************)
(* What the settings pages of the admin app have in common.  A PUT or a    *)
(* PATCH reads the stored row, merges the fields of the body into it, and  *)
(* writes the result in a later statement; whatever another admin stored   *)
(* in between is not looked at again.                                      *)
(***************************************************************************)
CONSTANTS
    Editors,  \* admin requests being served at the same time
    Absent    \* a field the body leaves out; a row that is not there

Idle == [at |-> "idle"]

\* Mutant: a field the body leaves out is written as null.
Taken(field, stored) == field

\* The merge of one field of a body: nil keeps the stored value.
Given(field, stored) == IF field = Absent THEN stored ELSE field
=============================================================================
