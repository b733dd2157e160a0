------------------------------- MODULE Authz -------------------------------
(***************************************************************************)
(* The access rules of internal/authz: the ranked roles, the decision      *)
(* table from actions to the lowest role they need, and the effective role *)
(* that the note queries compute from a user's grants.  Everything here is *)
(* pure; every module that authorises a request extends this one.          *)
(***************************************************************************)
EXTENDS Integers

RoleNone   == 0
RoleViewer == 1
RoleEditor == 2
RoleOwner  == 3

Roles == RoleNone .. RoleOwner

\* The roles note_shares.role can hold.  Owner is not grantable: it comes from
\* notes.owner_user_id alone.
GrantRoles == {RoleViewer, RoleEditor}

ViewerActions == {"read", "listShares", "downloadAttachment"}
EditorActions == {"update", "addAttachment", "removeAttachment"}
OwnerActions  == {"delete", "restore", "share", "revokeShare"}

NoteActions == ViewerActions \cup EditorActions \cup OwnerActions

\* Mutant: delete and restore opened to editors.
MinimumRoleEditorDeletes ==
  [action \in NoteActions |->
     CASE action \in ViewerActions -> RoleViewer
       [] action \in EditorActions \cup {"delete", "restore"} -> RoleEditor
       [] OTHER -> RoleOwner]

\* The decision table.
MinimumRole ==
  [action \in NoteActions |->
     CASE action \in ViewerActions -> RoleViewer
       [] action \in EditorActions -> RoleEditor
       [] action \in OwnerActions  -> RoleOwner]

\* An action missing from the table denies.
Can(role, action) ==
  /\ action \in NoteActions
  /\ role >= MinimumRole[action]

\* max(...) over the ranks of the matching grants, none when there is none.
HighestRank(ranks) ==
  IF ranks = {} THEN RoleNone
  ELSE CHOOSE r \in ranks : \A q \in ranks : q <= r

\* The "case when owner" of GetNoteWithAccess and ListNotes.
EffectiveRole(user, owner, ranks) ==
  IF user = owner THEN RoleOwner ELSE HighestRank(ranks)
=============================================================================
