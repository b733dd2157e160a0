------------------------------ MODULE Sharing ------------------------------
(***************************************************************************)
(* Who may see a note: accounts, teams, memberships and share grants.      *)
(* The handlers of internal/teams, of internal/notes/shares.go and the     *)
(* account deletion of internal/users, over the tables users, teams,       *)
(* team_members and note_shares.                                           *)
(*                                                                         *)
(* Handlers run concurrently and Store.Tx opens transactions at Postgres's *)
(* default level, READ COMMITTED: every statement sees what is committed   *)
(* when it starts, whether or not it runs inside a transaction.  An action *)
(* below is one statement; the last write of a transaction carries its     *)
(* COMMIT.  A write that does not commit at once (deleting a team's grants *)
(* before the team, an account before its grants) keeps its row locks      *)
(* until then, and a statement that needs one of those rows waits.         *)
(***************************************************************************)
EXTENDS Authz, FiniteSets

CONSTANTS UserIds, TeamIds, NoteIds,
          Owner,      \* note -> its owner; notes.owner_user_id never changes
          Workers,    \* request goroutines
          Nothing

ASSUME SharingAssumption ==
  /\ IsFiniteSet(UserIds)
  /\ UserIds \cap TeamIds = {}
  /\ Nothing \notin UserIds
  /\ Owner \in [NoteIds -> UserIds]

Principals == UserIds \cup TeamIds

\* team_members.role, as ranks; NotMember is the absence of a row.
NotMember  == 0
RoleMember == 1
RoleAdmin  == 2

MemberRoles == {RoleMember, RoleAdmin}

VARIABLES
  users,     \* user -> whether the account is live (deleted_at is null)
  teams,     \* team id -> "free", "live" or "deleted"; ids are never reused
  members,   \* team -> user -> team_members.role, NotMember without a row
  shares,    \* note -> principal -> note_shares.role, RoleNone without a row
  req        \* worker -> the request it serves

tables == <<users, teams, members, shares>>
vars == <<users, teams, members, shares, req>>

TeamOps  == {"addMember", "removeMember", "leave", "deleteTeam"}
ShareOps == {"upsertShare", "revokeShare"}

\* `doomed` is the uncommitted DeleteTeamShareGrants of a transaction: the notes
\* whose grant to the team it has deleted and locked.  `seen` is a history
\* variable: the admins in the table when the last-admin guard last looked,
\* {Nothing} if it never did.
IdleReq == [pc |-> "idle", op |-> "none", user |-> Nothing, on |-> Nothing,
            target |-> Nothing, role |-> 0, doomed |-> {}, seen |-> {Nothing}]

Init ==
  /\ users = [u \in UserIds |-> TRUE]
  /\ teams = [t \in TeamIds |-> "free"]
  /\ members = [t \in TeamIds |-> [u \in UserIds |-> NotMember]]
  /\ shares = [n \in NoteIds |-> [p \in Principals |-> RoleNone]]
  /\ req = [w \in Workers |-> IdleReq]

Admins(t) == {u \in UserIds : members[t][u] = RoleAdmin}

\* The effective_role column of GetNoteWithAccess, from the tables.
Grants(u, n) ==
  {shares[n][u]} \cup
  {shares[n][t] : t \in {s \in TeamIds : members[s][u] # NotMember}}

RoleOf(u, n) == EffectiveRole(u, Owner[n], Grants(u, n))

\* Rows of note_shares that another transaction has deleted and not committed.
Locked(w, n, p) ==
  \E o \in Workers \ {w} : req[o].on = p /\ n \in req[o].doomed

-----------------------------------------------------------------------------
Start(w, op, user, on, target, role, pc) ==
  req' = [req EXCEPT ![w] =
            [IdleReq EXCEPT !.pc = pc, !.op = op, !.user = user, !.on = on,
                            !.target = target, !.role = role]]

\* A request arrives with a valid token; tokens outlive their account.
ReceiveTeamOp(w) ==
  /\ req[w].pc = "idle"
  /\ \E u \in UserIds, t \in TeamIds, op \in TeamOps :
       \E target \in CASE op \in {"addMember", "removeMember"} -> UserIds
                       [] op = "leave" -> {u}
                       [] OTHER -> {Nothing},
          role \in IF op = "addMember" THEN MemberRoles ELSE {0} :
         Start(w, op, u, t, target, role, "membership")
  /\ UNCHANGED tables

\* Mutant: upsertShare without ParseGrantRole.
ReceiveShareOpAnyRole(w) ==
  /\ req[w].pc = "idle"
  /\ \E u \in UserIds, n \in NoteIds, op \in ShareOps, p \in Principals :
       \E role \in RoleViewer .. RoleOwner : Start(w, op, u, n, p, role, "load")
  /\ UNCHANGED tables

ReceiveShareOp(w) ==
  /\ req[w].pc = "idle"
  /\ \E u \in UserIds, n \in NoteIds, op \in ShareOps, p \in Principals :
       \E role \in IF op = "upsertShare" THEN GrantRoles ELSE {0} :
         Start(w, op, u, n, p, role, "load")
  /\ UNCHANGED tables

ReceiveDeleteMe(w) ==
  /\ req[w].pc = "idle"
  /\ \E u \in UserIds :
       Start(w, "deleteMe", u, Nothing, Nothing, 0, "softDelete")
  /\ UNCHANGED tables

Goto(w, pc) == req' = [req EXCEPT ![w].pc = pc]

\* Mutant: the transaction is never rolled back nor committed (Tx without its
\* deferred Rollback), so its row locks stay.
FinishHolding(w) == req' = [req EXCEPT ![w].pc = "idle"]

\* The response is written; a transaction still open is rolled back.
Finish(w) == req' = [req EXCEPT ![w] = IdleReq]

-----------------------------------------------------------------------------
(* Teams. *)

\* create: team and first admin in one transaction, invisible until it commits.
CreateTeam(w) ==
  /\ req[w].pc = "idle"
  /\ \E u \in UserIds, t \in TeamIds :
       /\ teams[t] = "free"
       /\ teams' = [teams EXCEPT ![t] = "live"]
       /\ members' = [members EXCEPT ![t][u] = RoleAdmin]
  /\ UNCHANGED <<users, shares, req>>

\* Mutant: leave goes around the last-admin guard.
MembershipLeaveUnguarded(w) ==
  LET r    == req[w]
      role == members[r.on][r.user]
  IN  /\ r.pc = "membership"
      /\ \/ /\ role = NotMember \/ (role = RoleMember /\ r.op # "leave")
            /\ Finish(w)
         \/ /\ role = RoleAdmin \/ (role = RoleMember /\ r.op = "leave")
            /\ Goto(w, CASE r.op = "deleteTeam" -> "dropGrants"
                         [] r.op = "addMember" /\ r.role = RoleAdmin -> "write"
                         [] r.op = "leave" -> "write"
                         [] OTHER -> "guard")
      /\ UNCHANGED tables

\* membership(): 404 to a non-member, 403 to a member where an admin is needed.
Membership(w) ==
  LET r    == req[w]
      role == members[r.on][r.user]
  IN  /\ r.pc = "membership"
      /\ \/ /\ role = NotMember \/ (role = RoleMember /\ r.op # "leave")
            /\ Finish(w)
         \/ /\ role = RoleAdmin \/ (role = RoleMember /\ r.op = "leave")
            /\ Goto(w, CASE r.op = "deleteTeam" -> "dropGrants"
                         [] r.op = "addMember" /\ r.role = RoleAdmin -> "write"
                         [] OTHER -> "guard")
      /\ UNCHANGED tables

\* guardLastAdmin, first statement: only removing an admin can strand the team.
GuardMembership(w) ==
  LET r == req[w]
  IN  /\ r.pc = "guard"
      /\ req' = [req EXCEPT ![w].seen = Admins(r.on),
                            ![w].pc = IF members[r.on][r.target] = RoleAdmin
                                        THEN "count" ELSE "write"]
      /\ UNCHANGED tables

CountTeamAdmins(w) ==
  LET r == req[w]
  IN  /\ r.pc = "count"
      /\ \/ /\ Cardinality(Admins(r.on)) <= 1
            /\ Finish(w)
         \/ /\ Cardinality(Admins(r.on)) > 1
            /\ req' = [req EXCEPT ![w].seen = Admins(r.on),
                                  ![w].pc = "write"]
      /\ UNCHANGED tables

\* Mutant: team_members without its foreign key.
AddTeamMemberNoFK(w) ==
  LET r == req[w]
  IN  /\ r.pc = "write" /\ r.op = "addMember"
      /\ members' = [members EXCEPT ![r.on][r.target] = r.role]
      /\ Finish(w)
      /\ UNCHANGED <<users, teams, shares>>

\* An upsert.  The foreign key on team_id refuses it once the team is gone.
AddTeamMember(w) ==
  LET r == req[w]
  IN  /\ r.pc = "write" /\ r.op = "addMember"
      /\ members' = IF teams[r.on] = "live"
                      THEN [members EXCEPT ![r.on][r.target] = r.role]
                      ELSE members
      /\ Finish(w)
      /\ UNCHANGED <<users, teams, shares>>

\* Zero rows is a 404 and a rollback; the table is the same either way.
RemoveTeamMember(w) ==
  LET r == req[w]
  IN  /\ r.pc = "write" /\ r.op \in {"removeMember", "leave"}
      /\ members' = [members EXCEPT ![r.on][r.target] = NotMember]
      /\ Finish(w)
      /\ UNCHANGED <<users, teams, shares>>

\* Mutant: the grants are deleted outside the team's transaction.
DeleteTeamShareGrantsAlone(w) ==
  LET r == req[w]
  IN  /\ r.pc = "dropGrants"
      /\ shares' = [n \in NoteIds |-> [shares[n] EXCEPT ![r.on] = RoleNone]]
      /\ Goto(w, "dropTeam")
      /\ UNCHANGED <<users, teams, members>>

\* The grants the statement can see; others may still be inserted.
DeleteTeamShareGrants(w) ==
  LET r     == req[w]
      named == {n \in NoteIds : shares[n][r.on] # RoleNone}
  IN  /\ r.pc = "dropGrants"
      /\ \A n \in named : ~ Locked(w, n, r.on)
      /\ req' = [req EXCEPT ![w].doomed = named, ![w].pc = "dropTeam"]
      /\ UNCHANGED tables

\* The memberships cascade.  Zero rows rolls the grants' deletion back.
DeleteTeam(w) ==
  LET r == req[w]
  IN  /\ r.pc = "dropTeam"
      /\ \/ /\ teams[r.on] = "live"
            /\ teams' = [teams EXCEPT ![r.on] = "deleted"]
            /\ members' = [members EXCEPT ![r.on] =
                             [u \in UserIds |-> NotMember]]
            /\ shares' = [n \in NoteIds |->
                            IF n \in r.doomed
                              THEN [shares[n] EXCEPT ![r.on] = RoleNone]
                              ELSE shares[n]]
         \/ /\ teams[r.on] # "live"
            /\ UNCHANGED <<teams, members, shares>>
      /\ Finish(w)
      /\ UNCHANGED users

-----------------------------------------------------------------------------
(* Share grants. *)

\* load(): share and revokeShare are owner's actions, and the owner gains
\* nothing from a grant to himself (400).
LoadForShare(w) ==
  LET r == req[w]
  IN  /\ r.pc = "load"
      /\ \/ /\ ~ Can(RoleOf(r.user, r.on),
                     IF r.op = "upsertShare" THEN "share" ELSE "revokeShare")
            /\ Finish(w)
         \/ /\ Can(RoleOf(r.user, r.on), "share") /\ r.op = "upsertShare"
            /\ IF r.target = r.user THEN Finish(w) ELSE Goto(w, "principal")
         \/ /\ Can(RoleOf(r.user, r.on), "revokeShare")
            /\ r.op = "revokeShare"
            /\ Goto(w, "revoke")
      /\ UNCHANGED tables

\* validatePrincipal, first statement: UserExists or TeamExists.
PrincipalExists(w) ==
  LET p == req[w].target
  IN  /\ req[w].pc = "principal"
      /\ \/ /\ p \in UserIds
            /\ IF users[p] THEN Goto(w, "upsert") ELSE Finish(w)
         \/ /\ p \in TeamIds
            /\ IF teams[p] = "live" THEN Goto(w, "isMember") ELSE Finish(w)
      /\ UNCHANGED tables

IsTeamMember(w) ==
  LET r == req[w]
  IN  /\ r.pc = "isMember"
      /\ IF members[r.target][r.user] # NotMember THEN Goto(w, "upsert")
                                               ELSE Finish(w)
      /\ UNCHANGED tables

UpsertNoteShare(w) ==
  LET r == req[w]
  IN  /\ r.pc = "upsert"
      /\ ~ Locked(w, r.on, r.target)
      /\ shares' = [shares EXCEPT ![r.on][r.target] = r.role]
      /\ Finish(w)
      /\ UNCHANGED <<users, teams, members>>

DeleteNoteShare(w) ==
  LET r == req[w]
  IN  /\ r.pc = "revoke"
      /\ ~ Locked(w, r.on, r.target)
      /\ shares' = [shares EXCEPT ![r.on][r.target] = RoleNone]
      /\ Finish(w)
      /\ UNCHANGED <<users, teams, members>>

-----------------------------------------------------------------------------
(* Account deletion: one transaction; the row stays locked until it commits. *)

SoftDeleteUser(w) ==
  LET u == req[w].user
  IN  /\ req[w].pc = "softDelete"
      /\ \A o \in Workers \ {w} :
           ~ (req[o].pc = "dropUserGrants" /\ req[o].user = u)
      /\ IF users[u] THEN Goto(w, "dropUserGrants") ELSE Finish(w)
      /\ UNCHANGED tables

\* Mutant: deleteMe forgets the grants that name the user.
DeleteUserKeepsGrants(w) ==
  /\ req[w].pc = "dropUserGrants"
  /\ users' = [users EXCEPT ![req[w].user] = FALSE]
  /\ Finish(w)
  /\ UNCHANGED <<teams, members, shares>>

DeleteUserShareGrants(w) ==
  LET u == req[w].user
  IN  /\ req[w].pc = "dropUserGrants"
      /\ users' = [users EXCEPT ![u] = FALSE]
      /\ shares' = [n \in NoteIds |-> [shares[n] EXCEPT ![u] = RoleNone]]
      /\ Finish(w)
      /\ UNCHANGED <<teams, members>>

-----------------------------------------------------------------------------
\* The statement fails, the deadline passes, the client leaves or the process
\* dies: whatever transaction was open is rolled back.
Abort(w) ==
  /\ req[w].pc # "idle"
  /\ Finish(w)
  /\ UNCHANGED tables

Receive(w) ==
  CreateTeam(w) \/ ReceiveTeamOp(w) \/ ReceiveShareOp(w) \/ ReceiveDeleteMe(w)

Statement(w) ==
  \/ Membership(w) \/ GuardMembership(w) \/ CountTeamAdmins(w)
  \/ AddTeamMember(w) \/ RemoveTeamMember(w)
  \/ DeleteTeamShareGrants(w) \/ DeleteTeam(w)
  \/ LoadForShare(w) \/ PrincipalExists(w) \/ IsTeamMember(w)
  \/ UpsertNoteShare(w) \/ DeleteNoteShare(w)
  \/ SoftDeleteUser(w) \/ DeleteUserShareGrants(w)

Next == \E w \in Workers : Receive(w) \/ Statement(w) \/ Abort(w)

Spec == Init /\ [][Next]_vars

\* net/http keeps running every handler, and Postgres grants row locks in the
\* order they are waited for, so a statement enabled again and again runs.
FairSpec == Spec /\ \A w \in Workers : SF_vars(Statement(w))

-----------------------------------------------------------------------------
(* Properties. *)

Pcs == {"idle", "membership", "guard", "count", "write", "dropGrants",
        "dropTeam", "load", "principal", "isMember", "upsert", "revoke",
        "softDelete", "dropUserGrants"}

Requests == [pc : Pcs, op : TeamOps \cup ShareOps \cup {"none", "deleteMe"},
             user : UserIds \cup {Nothing},
             on : TeamIds \cup NoteIds \cup {Nothing},
             target : Principals \cup {Nothing},
             role : {0} \cup GrantRoles \cup MemberRoles,
             doomed : SUBSET NoteIds, seen : SUBSET (UserIds \cup {Nothing})]

\* Types of the four tables and of the requests in flight.
TypeOK ==
  /\ users \in [UserIds -> BOOLEAN]
  /\ teams \in [TeamIds -> {"free", "live", "deleted"}]
  /\ members \in [TeamIds -> [UserIds -> {NotMember} \cup MemberRoles]]
  /\ shares \in [NoteIds -> [Principals -> {RoleNone} \cup GrantRoles]]
  /\ req \in [Workers -> Requests]

\* A grant that outlives its team opens nothing: whatever order sharing, team
\* deletion and joining commit in, nobody is a member of a team that is gone, so
\* effective_role never matches the row.
OrphanGrantsOpenNothing ==
  \A n \in NoteIds, t \in TeamIds, u \in UserIds :
    shares[n][t] # RoleNone /\ members[t][u] # NotMember => teams[t] = "live"

\* A deletion that does not commit takes no grant with it: a grant goes because
\* the owner revoked it, or in the very step that removes its team or account.
GrantsGoWithTheirPrincipal ==
  [][\A n \in NoteIds, p \in Principals :
       shares[n][p] # RoleNone /\ shares'[n][p] = RoleNone =>
         \/ \E w \in Workers : /\ req[w].pc = "revoke" /\ req'[w].pc = "idle"
                               /\ req[w].on = n /\ req[w].target = p
                               /\ req[w].user = Owner[n]
         \/ p \in TeamIds /\ teams[p] = "live" /\ teams'[p] = "deleted"
         \/ p \in UserIds /\ users[p] /\ ~ users'[p]]_vars

\* Admins whose account is live: a deleted account keeps its memberships.
LiveAdmins(t) == {u \in Admins(t) : users[u]}

\* On every path (remove, demote, leave) guardLastAdmin is right about what it
\* saw.  A team loses the last admin who can log in only to a request whose guard
\* looked, and looked at other admins than the ones it then acted on, or counted
\* one whose account is deleted; or to that admin's own deleteMe, which asks no
\* guard.
StrandedByRaceOrDeletion ==
  [][\A t \in TeamIds :
       LiveAdmins(t) # {} /\ LiveAdmins(t)' = {} /\ teams'[t] = "live" =>
         \E w \in Workers :
           /\ req'[w].pc = "idle"
           /\ \/ req[w].op = "deleteMe" /\ LiveAdmins(t) = {req[w].user}
              \/ /\ req[w].pc = "write" /\ req[w].on = t
                 /\ \/ req[w].seen \notin {{Nothing}, Admins(t)}
                    \/ \E u \in Admins(t) \cap req[w].seen : ~ users[u]]_vars

\* A grant that names no live team or account.
Orphan(n, p) ==
  /\ shares[n][p] # RoleNone
  /\ ~ (p \in UserIds /\ users[p])
  /\ ~ (p \in TeamIds /\ teams[p] = "live")

\* A grant is left naming a deleted team or account only by a share whose
\* principal was there when it was validated, or that came after the team's
\* deletion had looked for its grants: never by a deletion on its own.
OrphanedOnlyByRace ==
  [][\A n \in NoteIds, p \in Principals :
       Orphan(n, p)' /\ ~ Orphan(n, p) =>
         \E w \in Workers :
           /\ req'[w].pc = "idle"
           /\ \/ req[w].pc = "upsert" /\ req[w].on = n /\ req[w].target = p
              \/ req[w].pc = "dropTeam" /\ req[w].on = p /\ n \notin req[w].doomed]_vars

\* Nobody waits for ever: the row locks of team and account deletion are always
\* released, and no two requests wait for each other.
RequestsEnd ==
  \A w \in Workers : req[w].pc # "idle" ~> req[w].pc = "idle"

-----------------------------------------------------------------------------
(* Statements of the repository the code does not keep (violation runs). *)

\* guardLastAdmin and CAPABILITIES.md: a team cannot lose its last admin.
TeamKeepsAnAdmin ==
  \A t \in TeamIds : teams[t] = "live" => Admins(t) # {}

\* auth/middleware.go: a deleted user's notes are unreachable and their grants
\* removed, so a token that outlives the account opens nothing.
DeletedUserSeesNothing ==
  \A u \in UserIds, n \in NoteIds : ~ users[u] => RoleOf(u, n) = RoleNone
=============================================================================
