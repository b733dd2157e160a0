----------------------------- MODULE MCServing -----------------------------
(***************************************************************************)
(* Instances of Serving for TLC.                                           *)
(***************************************************************************)
EXTENDS Serving, TLC

\* Bodies between statements and hidden errors, transactions behind a query, a
\* write before a call to the bucket.
FewPaths == {p \in NoteUpdate \cup MemberLeave : Len(p) \in 4..5} \cup AttachmentDelete

Symmetry == Permutations(Clients)
=============================================================================
