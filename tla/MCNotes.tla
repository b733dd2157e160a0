------------------------------ MODULE MCNotes ------------------------------
(***************************************************************************)
(* Instances of Notes for TLC: one note, an owner and a collaborator.      *)
(***************************************************************************)
EXTENDS Notes, TLC

CONSTANTS t2, b1   \* a title and a body

\* One field per PATCH: a new title, or a body that goes through the check of
\* its references and leaves the title as it was.
OneField == {[title |-> t2, body |-> Keep], [title |-> Keep, body |-> b1]}

Symmetry == Permutations(Workers) \cup Permutations(UserIds)
=============================================================================
