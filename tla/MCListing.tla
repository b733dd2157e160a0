----------------------------- MODULE MCListing -----------------------------
(***************************************************************************)
(* An instance of Listing for TLC: a note of the caller's and one of       *)
(* somebody else's.                                                        *)
(***************************************************************************)
EXTENDS Listing

CONSTANTS ann, bob

Owners == [n \in NoteIds |-> IF n = 1 THEN ann ELSE bob]

\* To the caller as a viewer, to the team as editors, or to nobody.
GrantsUsed == {NoGrant, [NoGrant EXCEPT !.user = RoleViewer],
               [NoGrant EXCEPT !.team = RoleEditor]}

\* Everything, a search, the bin, a team's notes found by a query, and what
\* bob owns.
FiltersUsed == {NoFilter,
                [NoFilter EXCEPT !.query = TRUE],
                [NoFilter EXCEPT !.deleted = TRUE],
                [NoFilter EXCEPT !.query = TRUE, !.team = TRUE],
                [NoFilter EXCEPT !.shared = TRUE, !.owner = bob]}
=============================================================================
