----------------------------- MODULE MCSharing -----------------------------
(***************************************************************************)
(* Instances of Sharing for TLC.                                           *)
(***************************************************************************)
EXTENDS Sharing, TLC

CONSTANTS ann, n1

\* Every note is ann's.
AnnOwns == [n \in NoteIds |-> ann]

Symmetry == Permutations(Workers) \cup Permutations(UserIds \ {ann})
=============================================================================
