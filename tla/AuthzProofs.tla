---------------------------- MODULE AuthzProofs ----------------------------
(***************************************************************************)
(* What the other proofs need to know of the access rules: what the rank   *)
(* computed from a user's grants is, that the decision table is monotone   *)
(* in it, and that no grant amounts to ownership.                          *)
(***************************************************************************)
EXTENDS Authz, TLAPS

-----------------------------------------------------------------------------
(* Lemmas about the access rules. *)

\* HighestRank is the max() of GetNoteWithAccess: the highest grant, not the
\* first nor the alphabetically greatest.
LEMMA HighestRankIsMax ==
  ASSUME NEW S, S \subseteq Roles, S # {}
  PROVE  /\ HighestRank(S) \in S
         /\ \A q \in S : q <= HighestRank(S)
<1>1. \E r \in S : \A q \in S : q <= r
  <2>1. \A q \in S : q \in Int /\ (q = 0 \/ q = 1 \/ q = 2 \/ q = 3)
    BY DEF Roles, RoleNone, RoleOwner
  <2>2. CASE 3 \in S
    BY <2>1, <2>2
  <2>3. CASE 3 \notin S /\ 2 \in S
    BY <2>1, <2>3
  <2>4. CASE 3 \notin S /\ 2 \notin S /\ 1 \in S
    BY <2>1, <2>4
  <2>5. CASE 3 \notin S /\ 2 \notin S /\ 1 \notin S
    <3>1. PICK x \in S : TRUE
      OBVIOUS
    <3>. QED BY <2>1, <2>5, <3>1
  <2>. QED BY <2>2, <2>3, <2>4, <2>5
<1>. QED BY <1>1 DEF HighestRank

LEMMA EffectiveRoleType ==
  ASSUME NEW user, NEW owner, NEW S, S \subseteq Roles
  PROVE  EffectiveRole(user, owner, S) \in Roles
<1>1. HighestRank(S) \in Roles
  <2>1. CASE S = {}
    BY <2>1 DEF HighestRank, Roles, RoleNone, RoleOwner
  <2>2. CASE S # {}
    BY <2>2, HighestRankIsMax
  <2>. QED BY <2>1, <2>2
<1>. QED BY <1>1 DEF EffectiveRole, Roles, RoleNone, RoleOwner

\* A higher role never loses an action: Can is monotone in the rank.
THEOREM CanIsMonotone ==
  ASSUME NEW low \in Roles, NEW high \in Roles, low <= high,
         NEW action, Can(low, action)
  PROVE  Can(high, action)
<1>1. action \in NoteActions /\ low >= MinimumRole[action]
  BY DEF Can
<1>2. MinimumRole[action] \in Roles
  BY <1>1 DEF MinimumRole, NoteActions, ViewerActions, EditorActions,
              OwnerActions, Roles, RoleNone, RoleViewer, RoleEditor, RoleOwner
<1>. QED BY <1>1, <1>2 DEF Can, Roles, RoleNone, RoleOwner

\* Read access comes first: whoever may do anything to a note may read it, so
\* load()'s 404 never hides a note from somebody its 403 or success would serve.
THEOREM AnyActionImpliesRead ==
  ASSUME NEW role \in Roles, NEW action, Can(role, action)
  PROVE  Can(role, "read")
BY DEF Can, MinimumRole, NoteActions, ViewerActions, EditorActions,
       OwnerActions, Roles, RoleNone, RoleViewer, RoleEditor, RoleOwner

\* Owner-only actions are out of reach of any grant: without being the owner,
\* the rank computed from granted roles opens none of them.
THEOREM OwnerActionsAreOwners ==
  ASSUME NEW user, NEW owner, NEW S, S \subseteq {RoleNone} \cup GrantRoles,
         NEW action \in OwnerActions,
         Can(EffectiveRole(user, owner, S), action)
  PROVE  user = owner
<1>. SUFFICES ASSUME user # owner
              PROVE  FALSE
  OBVIOUS
<1>1. HighestRank(S) >= RoleOwner
  BY DEF Can, EffectiveRole, MinimumRole, NoteActions, ViewerActions,
         EditorActions, OwnerActions
<1>2. S \subseteq Roles /\ \A q \in S : q < RoleOwner
  BY DEF GrantRoles, Roles, RoleNone, RoleViewer, RoleEditor, RoleOwner
<1>3. HighestRank(S) < RoleOwner
  <2>1. CASE S = {}
    BY <2>1 DEF HighestRank, RoleNone, RoleOwner
  <2>2. CASE S # {}
    BY <1>2, <2>2, HighestRankIsMax
  <2>. QED BY <2>1, <2>2
<1>4. HighestRank(S) \in Roles
  <2>1. CASE S = {}
    BY <2>1 DEF HighestRank, Roles, RoleNone, RoleOwner
  <2>2. CASE S # {}
    BY <1>2, <2>2, HighestRankIsMax
  <2>. QED BY <2>1, <2>2
<1>. QED BY <1>1, <1>3, <1>4 DEF Roles, RoleNone, RoleOwner

\* Read access is a grant or ownership: someone with no row that reaches him, and
\* only he, may not read a note he does not own.
THEOREM ReadingTakesAGrant ==
  ASSUME NEW user, NEW owner, NEW S, S \subseteq {RoleNone} \cup GrantRoles
  PROVE  Can(EffectiveRole(user, owner, S), "read") <=>
           user = owner \/ \E role \in S : role # RoleNone
<1>1. S \subseteq Roles
  BY DEF GrantRoles, Roles, RoleNone, RoleViewer, RoleEditor, RoleOwner
<1>2. ASSUME NEW role \in Roles
      PROVE  Can(role, "read") <=> role # RoleNone
  BY DEF Can, MinimumRole, NoteActions, ViewerActions, EditorActions,
         OwnerActions, Roles, RoleNone, RoleViewer, RoleEditor, RoleOwner
<1>3. CASE user = owner
  BY <1>2, <1>3 DEF EffectiveRole, Roles, RoleNone, RoleOwner
<1>4. CASE user # owner /\ S = {}
  BY <1>2, <1>4 DEF EffectiveRole, HighestRank, Roles, RoleNone, RoleOwner
<1>5. CASE user # owner /\ S # {}
  <2>1. /\ HighestRank(S) \in S
        /\ \A q \in S : q <= HighestRank(S)
    BY <1>1, <1>5, HighestRankIsMax
  <2>2. ASSUME NEW role \in S, role # RoleNone
        PROVE  HighestRank(S) # RoleNone
    <3>1. role \in Roles /\ HighestRank(S) \in Roles
      BY <1>1, <2>1
    <3>2. role <= HighestRank(S)
      BY <2>1
    <3>. QED BY <2>2, <3>1, <3>2 DEF Roles, RoleNone, RoleOwner
  <2>. QED BY <1>1, <1>2, <1>5, <2>1, <2>2 DEF EffectiveRole
<1>. QED BY <1>3, <1>4, <1>5
=============================================================================
