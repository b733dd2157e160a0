---------------------------- MODULE NoteContent ----------------------------
(***************************************************************************)
(* The fields of a note that clients edit, and the partial update the      *)
(* PATCH body describes.  A field is a title or a body; tags behave as a   *)
(* title does and are not kept apart.                                      *)
(***************************************************************************)
CONSTANTS Titles, Bodies,
          Keep        \* the value of a field the PATCH body omits

ASSUME KeepIsNoField == Keep \notin Titles \cup Bodies

Contents == [title : Titles, body : Bodies]

Patches == [title : Titles \cup {Keep}, body : Bodies \cup {Keep}]

NoPatch == [title |-> Keep, body |-> Keep]

\* What a note's log keeps of one committed state.
States == [title : Titles, body : Bodies, deleted : BOOLEAN]

\* Mutant: the column is set to the parameter, given or not.
CoalesceNot(new, old) == new

\* coalesce(narg, column), field by field.
Coalesce(new, old) == IF new = Keep THEN old ELSE new

Apply(state, patch) ==
  [title   |-> Coalesce(patch.title, state.title),
   body    |-> Coalesce(patch.body, state.body),
   deleted |-> state.deleted]
=============================================================================
