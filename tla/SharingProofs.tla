--------------------------- MODULE SharingProofs ---------------------------
(***************************************************************************)
(* Proofs about sharing, for any set of teams, notes and request           *)
(* goroutines, and any finite set of users.                                *)
(*                                                                         *)
(* The invariant is in three parts.  NoGhostMembers is what the foreign    *)
(* key and the cascade keep between team_members and teams.  RequestsOK    *)
(* says of each request what its later statements rely on: which handler   *)
(* it runs, on what, and what the guard it has passed has seen.            *)
(* AccountsLocked is the row lock of an account deletion: the account is   *)
(* still live, and nobody else is about to delete it.                      *)
(***************************************************************************)
EXTENDS Sharing, AuthzProofs, FiniteSetTheorems

-----------------------------------------------------------------------------
(* The inductive invariant. *)

NoGhostMembers ==
  \A t \in TeamIds, u \in UserIds :
    members[t][u] # NotMember => teams[t] = "live"

\* A team's request names a team, and from its guard on somebody to remove,
\* demote or add; past the guard it saw an admin other than its target, if it saw
\* the target as one.
TeamOpOK(r) ==
  /\ r.pc \in {"membership", "guard", "count", "write", "dropGrants",
               "dropTeam"} =>
       r.op \in TeamOps /\ r.on \in TeamIds
  /\ r.pc \in {"guard", "count", "write"} => r.op # "deleteTeam"
  /\ r.pc \in {"membership", "guard", "count", "write"} /\ r.op # "deleteTeam"
       => r.target \in UserIds
  /\ r.pc \in {"membership", "guard", "count", "write"} /\ r.op = "addMember"
       => r.role \in MemberRoles
  /\ r.pc = "write" /\ ~ (r.op = "addMember" /\ r.role = RoleAdmin) =>
       /\ r.seen \subseteq UserIds
       /\ r.target \in r.seen => \E u \in r.seen : u # r.target

\* A share names a note, a principal and a role the check constraint admits;
\* whoever is past load() owns the note.
ShareOpOK(r) ==
  /\ r.pc \in {"load", "principal", "isMember", "upsert", "revoke"} =>
       /\ r.op \in ShareOps
       /\ r.on \in NoteIds /\ r.target \in Principals /\ r.user \in UserIds
  /\ r.pc = "load" /\ r.op = "upsertShare" => r.role \in GrantRoles
  /\ r.pc \in {"principal", "isMember", "upsert"} => r.role \in GrantRoles
  /\ r.pc = "isMember" => r.target \in TeamIds
  /\ r.pc = "revoke" => r.user = Owner[r.on]

DeletionOK(r) ==
  r.pc \in {"softDelete", "dropUserGrants"} =>
    r.op = "deleteMe" /\ r.user \in UserIds

ReqOK(r) == TeamOpOK(r) /\ ShareOpOK(r) /\ DeletionOK(r)

RequestsOK == \A w \in Workers : ReqOK(req[w])

Deleting(w, u) == req[w].pc = "dropUserGrants" /\ req[w].user = u

AccountsLocked ==
  \A w \in Workers, u \in UserIds :
    Deleting(w, u) => users[u] /\ \A o \in Workers \ {w} : ~ Deleting(o, u)

IInv == TypeOK /\ NoGhostMembers /\ RequestsOK /\ AccountsLocked

TablesTyped ==
  /\ users \in [UserIds -> BOOLEAN]
  /\ teams \in [TeamIds -> {"free", "live", "deleted"}]
  /\ members \in [TeamIds -> [UserIds -> {NotMember} \cup MemberRoles]]
  /\ shares \in [NoteIds -> [Principals -> {RoleNone} \cup GrantRoles]]

-----------------------------------------------------------------------------
(* What one step of one request preserves. *)

LEMMA IdleReqOK == IdleReq \in Requests /\ ReqOK(IdleReq)
BY DEF IdleReq, Requests, Pcs, ReqOK, TeamOpOK, ShareOpOK, DeletionOK

\* The frame of every step a request takes: the other requests keep what they
\* rely on, for the only account it may delete is the one it has locked.
LEMMA OneRequest ==
  ASSUME IInv, NEW w \in Workers, NEW q \in Requests,
         req' = [req EXCEPT ![w] = q],
         ReqOK(q), q.pc # "dropUserGrants",
         TablesTyped', NoGhostMembers',
         \A u \in UserIds : users'[u] # users[u] => Deleting(w, u)
  PROVE  IInv'
<1>1. /\ req' \in [Workers -> Requests]
      /\ req'[w] = q
      /\ \A o \in Workers \ {w} : req'[o] = req[o]
  BY DEF IInv, TypeOK
<1>2. TypeOK'
  BY <1>1 DEF TypeOK, TablesTyped
<1>3. RequestsOK'
  BY <1>1 DEF IInv, RequestsOK
<1>4. AccountsLocked'
  <2>1. SUFFICES ASSUME NEW o \in Workers, NEW u \in UserIds, Deleting(o, u)'
                 PROVE  /\ users'[u]
                        /\ \A x \in Workers \ {o} : ~ Deleting(x, u)'
    BY DEF AccountsLocked
  <2>2. o # w /\ Deleting(o, u)
    BY <1>1, <2>1 DEF Deleting
  <2>3. users[u] /\ \A x \in Workers \ {o} : ~ Deleting(x, u)
    BY <2>2 DEF IInv, AccountsLocked
  <2>4. users'[u] = users[u]
    BY <2>2, <2>3
  <2>. QED BY <1>1, <2>3, <2>4 DEF Deleting
<1>. QED BY <1>2, <1>3, <1>4 DEF IInv

\* A step that only moves the request on.
LEMMA QuietStep ==
  ASSUME IInv, NEW w \in Workers, NEW q \in Requests,
         req' = [req EXCEPT ![w] = q],
         ReqOK(q), q.pc # "dropUserGrants", UNCHANGED tables
  PROVE  IInv'
<1>1. TablesTyped' /\ NoGhostMembers' /\ users' = users
  BY DEF IInv, TypeOK, TablesTyped, NoGhostMembers, tables
<1>. QED BY <1>1, OneRequest

LEMMA QuietFinish ==
  ASSUME IInv, NEW w \in Workers, Finish(w), UNCHANGED tables
  PROVE  IInv'
<1>1. IdleReq.pc # "dropUserGrants"
  BY DEF IdleReq
<1>. QED BY <1>1, IdleReqOK, QuietStep DEF Finish

\* A request that goes on to its next statement with what it has.
LEMMA GotoRecord ==
  ASSUME TypeOK, NEW w \in Workers, NEW pc \in Pcs
  PROVE  LET q == [req[w] EXCEPT !.pc = pc]
         IN  /\ q \in Requests
             /\ q.pc = pc /\ q.op = req[w].op /\ q.user = req[w].user
             /\ q.on = req[w].on /\ q.target = req[w].target
             /\ q.role = req[w].role /\ q.seen = req[w].seen
             /\ q.doomed = req[w].doomed
BY DEF TypeOK, Requests

LEMMA QuietGoto ==
  ASSUME IInv, NEW w \in Workers, NEW pc \in Pcs, pc # "dropUserGrants",
         Goto(w, pc), UNCHANGED tables,
         ReqOK([req[w] EXCEPT !.pc = pc])
  PROVE  IInv'
<1>. DEFINE q == [req[w] EXCEPT !.pc = pc]
<1>1. q \in Requests /\ q.pc = pc
  BY GotoRecord DEF IInv
<1>2. req' = [req EXCEPT ![w] = q]
  BY DEF Goto
<1>3. ReqOK(q)
  OBVIOUS
<1>. HIDE DEF q
<1>. QED BY <1>1, <1>2, <1>3, QuietStep

-----------------------------------------------------------------------------
(* One lemma per action. *)

LEMMA StartStep ==
  ASSUME IInv, NEW w \in Workers, UNCHANGED tables,
         NEW op \in TeamOps \cup ShareOps \cup {"none", "deleteMe"},
         NEW user \in UserIds, NEW on \in TeamIds \cup NoteIds \cup {Nothing},
         NEW target \in Principals \cup {Nothing},
         NEW role \in {0} \cup GrantRoles \cup MemberRoles,
         NEW pc \in {"membership", "load", "softDelete"},
         Start(w, op, user, on, target, role, pc),
         \A q \in Requests :
           /\ q.pc = pc /\ q.op = op /\ q.user = user /\ q.on = on
           /\ q.target = target /\ q.role = role
           => ReqOK(q)
  PROVE  IInv'
<1>. DEFINE q == [IdleReq EXCEPT !.pc = pc, !.op = op, !.user = user,
                                 !.on = on, !.target = target, !.role = role]
<1>0. pc \in Pcs
  BY DEF Pcs
<1>1. /\ q \in Requests
      /\ q.pc = pc /\ q.op = op /\ q.user = user /\ q.on = on
      /\ q.target = target /\ q.role = role
  BY <1>0 DEF IdleReq, Requests
<1>2. req' = [req EXCEPT ![w] = q]
  BY DEF Start
<1>. HIDE DEF q
<1>3. ReqOK(q)
  BY <1>1, Zenon
<1>4. q.pc # "dropUserGrants"
  BY <1>1
<1>. QED BY <1>1, <1>2, <1>3, <1>4, QuietStep

LEMMA ReceiveTeamOpStep ==
  ASSUME IInv, NEW w \in Workers, ReceiveTeamOp(w)
  PROVE  IInv'
<1>1. PICK u \in UserIds, t \in TeamIds, op \in TeamOps :
        \E target \in CASE op \in {"addMember", "removeMember"} -> UserIds
                        [] op = "leave" -> {u}
                        [] OTHER -> {Nothing},
           role \in IF op = "addMember" THEN MemberRoles ELSE {0} :
          Start(w, op, u, t, target, role, "membership")
  BY DEF ReceiveTeamOp
<1>2. PICK target \in UserIds \cup {Nothing}, role \in {0} \cup MemberRoles :
        /\ Start(w, op, u, t, target, role, "membership")
        /\ op # "deleteTeam" => target \in UserIds
        /\ op = "addMember" => role \in MemberRoles
  BY <1>1 DEF TeamOps
<1>3. \A q \in Requests :
        /\ q.pc = "membership" /\ q.op = op /\ q.on = t
        /\ q.target = target /\ q.role = role
        => ReqOK(q)
  BY <1>2 DEF ReqOK, TeamOpOK, ShareOpOK, DeletionOK
<1>4. UNCHANGED tables
  BY DEF ReceiveTeamOp
<1>. QED BY <1>2, <1>3, <1>4, StartStep DEF Principals

LEMMA ReceiveShareOpStep ==
  ASSUME IInv, NEW w \in Workers, ReceiveShareOp(w)
  PROVE  IInv'
<1>1. PICK u \in UserIds, n \in NoteIds, op \in ShareOps, p \in Principals :
        \E role \in IF op = "upsertShare" THEN GrantRoles ELSE {0} :
          Start(w, op, u, n, p, role, "load")
  BY DEF ReceiveShareOp
<1>2. PICK role \in {0} \cup GrantRoles :
        /\ Start(w, op, u, n, p, role, "load")
        /\ op = "upsertShare" => role \in GrantRoles
  BY <1>1
<1>3. \A q \in Requests :
        /\ q.pc = "load" /\ q.op = op /\ q.user = u /\ q.on = n
        /\ q.target = p /\ q.role = role
        => ReqOK(q)
  BY <1>2 DEF ReqOK, TeamOpOK, ShareOpOK, DeletionOK
<1>4. UNCHANGED tables
  BY DEF ReceiveShareOp
<1>. QED BY <1>2, <1>3, <1>4, StartStep

LEMMA ReceiveDeleteMeStep ==
  ASSUME IInv, NEW w \in Workers, ReceiveDeleteMe(w)
  PROVE  IInv'
<1>1. PICK u \in UserIds :
        Start(w, "deleteMe", u, Nothing, Nothing, 0, "softDelete")
  BY DEF ReceiveDeleteMe
<1>2. \A q \in Requests :
        q.pc = "softDelete" /\ q.op = "deleteMe" /\ q.user = u => ReqOK(q)
  BY DEF ReqOK, TeamOpOK, ShareOpOK, DeletionOK
<1>3. UNCHANGED tables
  BY DEF ReceiveDeleteMe
<1>. QED BY <1>1, <1>2, <1>3, StartStep

LEMMA CreateTeamStep ==
  ASSUME IInv, NEW w \in Workers, CreateTeam(w)
  PROVE  IInv'
<1>1. PICK u \in UserIds, t \in TeamIds :
        /\ teams' = [teams EXCEPT ![t] = "live"]
        /\ members' = [members EXCEPT ![t][u] = RoleAdmin]
  BY DEF CreateTeam
<1>2. UNCHANGED <<users, shares, req>>
  BY DEF CreateTeam
<1>3. TypeOK'
  BY <1>1, <1>2 DEF IInv, TypeOK, MemberRoles
<1>4. NoGhostMembers'
  BY <1>1 DEF IInv, TypeOK, NoGhostMembers
<1>. QED BY <1>2, <1>3, <1>4
         DEF IInv, RequestsOK, AccountsLocked, Deleting

LEMMA MembershipStep ==
  ASSUME IInv, NEW w \in Workers, Membership(w)
  PROVE  IInv'
<1>. DEFINE pc == CASE req[w].op = "deleteTeam" -> "dropGrants"
                    [] req[w].op = "addMember" /\ req[w].role = RoleAdmin
                         -> "write"
                    [] OTHER -> "guard"
<1>1. /\ req[w].pc = "membership" /\ UNCHANGED tables
      /\ Finish(w) \/ Goto(w, pc)
  BY DEF Membership
<1>2. CASE Goto(w, pc)
  <2>1. pc \in {"dropGrants", "write", "guard"}
    OBVIOUS
  <2>2. pc \in Pcs /\ pc # "dropUserGrants"
    BY <2>1 DEF Pcs
  <2>3. /\ pc = "dropGrants" <=> req[w].op = "deleteTeam"
        /\ pc = "write" =>
             req[w].op = "addMember" /\ req[w].role = RoleAdmin
    OBVIOUS
  <2>. HIDE DEF pc
  <2>4. ReqOK([req[w] EXCEPT !.pc = pc])
    <3>. DEFINE q == [req[w] EXCEPT !.pc = pc]
    <3>1. /\ q.pc = pc /\ q.op = req[w].op /\ q.user = req[w].user
          /\ q.on = req[w].on /\ q.target = req[w].target
          /\ q.role = req[w].role /\ q.seen = req[w].seen
      BY <2>2, GotoRecord DEF IInv
    <3>2. TeamOpOK(req[w])
      BY DEF IInv, RequestsOK, ReqOK
    <3>. HIDE DEF q
    <3>3. ReqOK(q)
      BY <1>1, <2>1, <2>3, <3>1, <3>2
         DEF ReqOK, TeamOpOK, ShareOpOK, DeletionOK
    <3>. QED BY <3>3 DEF q
  <2>. QED BY <1>1, <1>2, <2>2, <2>4, QuietGoto
<1>. QED BY <1>1, <1>2, QuietFinish

\* A guard that lets a removal pass has seen somebody else who stays an admin.
LEMMA GuardMembershipStep ==
  ASSUME IInv, NEW w \in Workers, GuardMembership(w)
  PROVE  IInv'
<1>. DEFINE r  == req[w]
            pc == IF members[r.on][r.target] = RoleAdmin THEN "count"
                                                         ELSE "write"
            q  == [r EXCEPT !.seen = Admins(r.on), !.pc = pc]
<1>1. r.pc = "guard" /\ UNCHANGED tables /\ req' = [req EXCEPT ![w] = q]
  BY DEF GuardMembership
<1>2. r \in Requests /\ ReqOK(r)
  BY DEF IInv, TypeOK, RequestsOK
<1>3. Admins(r.on) \subseteq UserIds
  BY DEF Admins
<1>4. pc \in {"count", "write"} /\ pc \in Pcs
  BY DEF Pcs
<1>5. pc = "write" => r.target \notin Admins(r.on)
  BY DEF Admins
<1>. HIDE DEF pc
<1>6. /\ q \in Requests
      /\ q.pc = pc /\ q.op = r.op /\ q.on = r.on /\ q.target = r.target
      /\ q.role = r.role /\ q.seen = Admins(r.on)
  BY <1>2, <1>3, <1>4 DEF Requests
<1>. HIDE DEF q
<1>7. ReqOK(q)
  BY <1>1, <1>2, <1>3, <1>4, <1>5, <1>6
     DEF ReqOK, TeamOpOK, ShareOpOK, DeletionOK
<1>. QED BY <1>1, <1>4, <1>6, <1>7, QuietStep

LEMMA TwoAdmins ==
  ASSUME NEW S, IsFiniteSet(S), Cardinality(S) > 1, NEW u
  PROVE  \E x \in S : x # u
<1>. SUFFICES ASSUME \A x \in S : x = u
              PROVE  FALSE
  OBVIOUS
<1>1. S \in SUBSET {u}
  OBVIOUS
<1>2. IsFiniteSet({u}) /\ Cardinality({u}) = 1
  BY FS_Singleton
<1>3. Cardinality(S) <= 1
  BY <1>1, <1>2, FS_Subset
<1>4. Cardinality(S) \in Nat
  BY FS_CardinalityType
<1>. QED BY <1>3, <1>4

LEMMA CountTeamAdminsStep ==
  ASSUME IInv, NEW w \in Workers, CountTeamAdmins(w)
  PROVE  IInv'
<1>. DEFINE r == req[w]
            q == [r EXCEPT !.seen = Admins(r.on), !.pc = "write"]
<1>1. r.pc = "count" /\ UNCHANGED tables
  BY DEF CountTeamAdmins
<1>2. CASE Finish(w)
  BY <1>1, <1>2, QuietFinish
<1>3. CASE /\ Cardinality(Admins(r.on)) > 1
           /\ req' = [req EXCEPT ![w] = q]
  <2>1. r \in Requests /\ ReqOK(r)
    BY DEF IInv, TypeOK, RequestsOK
  <2>2. Admins(r.on) \subseteq UserIds
    BY DEF Admins
  <2>3. IsFiniteSet(Admins(r.on))
    BY <2>2, FS_Subset, SharingAssumption
  <2>4. \E u \in Admins(r.on) : u # r.target
    BY <1>3, <2>3, TwoAdmins
  <2>5. /\ q \in Requests
        /\ q.pc = "write" /\ q.op = r.op /\ q.on = r.on
        /\ q.target = r.target /\ q.role = r.role /\ q.seen = Admins(r.on)
    BY <2>1, <2>2 DEF Requests, Pcs
  <2>. HIDE DEF q
  <2>6. ReqOK(q)
    BY <1>1, <2>1, <2>2, <2>4, <2>5
       DEF ReqOK, TeamOpOK, ShareOpOK, DeletionOK
  <2>. QED BY <1>1, <1>3, <2>5, <2>6, QuietStep
<1>. QED BY <1>2, <1>3 DEF CountTeamAdmins

\* The write that ends a request of a team's, and the answer.
LEMMA MembersWritten ==
  ASSUME IInv, NEW w \in Workers, Finish(w),
         UNCHANGED <<users, teams, shares>>,
         NEW t \in TeamIds, NEW u \in UserIds,
         NEW role \in {NotMember} \cup MemberRoles,
         role # NotMember => teams[t] = "live",
         members' = [members EXCEPT ![t][u] = role]
  PROVE  IInv'
<1>1. TablesTyped' /\ NoGhostMembers'
  BY DEF IInv, TypeOK, TablesTyped, NoGhostMembers
<1>2. IdleReq.pc # "dropUserGrants"
  BY DEF IdleReq
<1>. QED BY <1>1, <1>2, IdleReqOK, OneRequest DEF Finish

LEMMA AddTeamMemberStep ==
  ASSUME IInv, NEW w \in Workers, AddTeamMember(w)
  PROVE  IInv'
<1>. DEFINE r == req[w]
<1>1. /\ r.pc = "write" /\ r.op = "addMember" /\ Finish(w)
      /\ UNCHANGED <<users, teams, shares>>
  BY DEF AddTeamMember
<1>2. r.on \in TeamIds /\ r.target \in UserIds /\ r.role \in MemberRoles
  BY <1>1 DEF IInv, RequestsOK, ReqOK, TeamOpOK
<1>3. CASE teams[r.on] = "live"
  <2>1. members' = [members EXCEPT ![r.on][r.target] = r.role]
    BY <1>3 DEF AddTeamMember
  <2>. QED BY <1>1, <1>2, <1>3, <2>1, MembersWritten
<1>4. CASE teams[r.on] # "live"
  <2>1. members' = members
    BY <1>4 DEF AddTeamMember
  <2>. QED BY <1>1, <2>1, QuietFinish DEF tables
<1>. QED BY <1>3, <1>4

LEMMA RemoveTeamMemberStep ==
  ASSUME IInv, NEW w \in Workers, RemoveTeamMember(w)
  PROVE  IInv'
<1>. DEFINE r == req[w]
<1>1. /\ r.pc = "write" /\ r.op \in {"removeMember", "leave"} /\ Finish(w)
      /\ UNCHANGED <<users, teams, shares>>
      /\ members' = [members EXCEPT ![r.on][r.target] = NotMember]
  BY DEF RemoveTeamMember
<1>2. r.on \in TeamIds /\ r.target \in UserIds
  BY <1>1 DEF IInv, RequestsOK, ReqOK, TeamOpOK
<1>. QED BY <1>1, <1>2, MembersWritten

LEMMA DeleteTeamShareGrantsStep ==
  ASSUME IInv, NEW w \in Workers, DeleteTeamShareGrants(w)
  PROVE  IInv'
<1>. DEFINE r     == req[w]
            named == {n \in NoteIds : shares[n][r.on] # RoleNone}
            q     == [r EXCEPT !.doomed = named, !.pc = "dropTeam"]
<1>1. r.pc = "dropGrants" /\ UNCHANGED tables
      /\ req' = [req EXCEPT ![w] = q]
  BY DEF DeleteTeamShareGrants
<1>2. r \in Requests /\ ReqOK(r)
  BY DEF IInv, TypeOK, RequestsOK
<1>3. named \subseteq NoteIds
  OBVIOUS
<1>. HIDE DEF named
<1>4. /\ q \in Requests
      /\ q.pc = "dropTeam" /\ q.op = r.op /\ q.on = r.on
  BY <1>2, <1>3 DEF Requests, Pcs
<1>. HIDE DEF q
<1>5. ReqOK(q)
  BY <1>1, <1>2, <1>4 DEF ReqOK, TeamOpOK, ShareOpOK, DeletionOK
<1>. QED BY <1>1, <1>4, <1>5, QuietStep

LEMMA DeleteTeamStep ==
  ASSUME IInv, NEW w \in Workers, DeleteTeam(w)
  PROVE  IInv'
<1>. DEFINE r == req[w]
<1>1. r.pc = "dropTeam" /\ Finish(w) /\ users' = users
  BY DEF DeleteTeam
<1>2. r.on \in TeamIds
  BY <1>1 DEF IInv, RequestsOK, ReqOK, TeamOpOK
<1>3. CASE /\ teams' = [teams EXCEPT ![r.on] = "deleted"]
           /\ members' = [members EXCEPT ![r.on] =
                            [u \in UserIds |-> NotMember]]
           /\ shares' = [n \in NoteIds |->
                           IF n \in r.doomed
                             THEN [shares[n] EXCEPT ![r.on] = RoleNone]
                             ELSE shares[n]]
  <2>1. TablesTyped'
    BY <1>1, <1>2, <1>3 DEF IInv, TypeOK, TablesTyped
  <2>2. NoGhostMembers'
    BY <1>2, <1>3 DEF IInv, TypeOK, NoGhostMembers
  <2>3. IdleReq.pc # "dropUserGrants"
    BY DEF IdleReq
  <2>. QED BY <1>1, <2>1, <2>2, <2>3, IdleReqOK, OneRequest DEF Finish
<1>4. CASE UNCHANGED <<teams, members, shares>>
  BY <1>1, <1>4, QuietFinish DEF tables
<1>. QED BY <1>3, <1>4 DEF DeleteTeam

\* load() lets only the owner share.
LEMMA LoadForShareStep ==
  ASSUME IInv, NEW w \in Workers, LoadForShare(w)
  PROVE  IInv'
<1>. DEFINE r == req[w]
<1>1. r.pc = "load" /\ UNCHANGED tables
  BY DEF LoadForShare
<1>2. r \in Requests /\ ReqOK(r)
  BY DEF IInv, TypeOK, RequestsOK
<1>3. CASE Finish(w)
  BY <1>1, <1>3, QuietFinish
<1>4. ASSUME NEW pc \in {"principal", "revoke"}, Goto(w, pc),
             pc = "principal" => r.op = "upsertShare",
             pc = "revoke" => Can(RoleOf(r.user, r.on), "revokeShare")
      PROVE  IInv'
  <2>. DEFINE q == [r EXCEPT !.pc = pc]
  <2>1. pc \in Pcs
    BY DEF Pcs
  <2>2. /\ q.pc = pc /\ q.op = r.op /\ q.user = r.user /\ q.on = r.on
        /\ q.target = r.target /\ q.role = r.role
    BY <2>1, GotoRecord DEF IInv
  <2>3. /\ r.op \in ShareOps /\ r.on \in NoteIds /\ r.target \in Principals
        /\ r.user \in UserIds
        /\ r.op = "upsertShare" => r.role \in GrantRoles
    BY <1>1, <1>2 DEF ReqOK, ShareOpOK
  <2>4. pc = "revoke" => r.user = Owner[r.on]
    <3>1. Grants(r.user, r.on) \subseteq {RoleNone} \cup GrantRoles
      BY <2>3 DEF Grants, IInv, TypeOK, Principals
    <3>. QED BY <1>4, <3>1, OwnerActionsAreOwners DEF RoleOf, OwnerActions
  <2>. HIDE DEF q
  <2>5. ReqOK(q)
    BY <1>4, <2>2, <2>3, <2>4 DEF ReqOK, TeamOpOK, ShareOpOK, DeletionOK
  <2>. QED BY <1>1, <1>4, <2>1, <2>5, QuietGoto DEF q
<1>. QED BY <1>3, <1>4 DEF LoadForShare

LEMMA PrincipalExistsStep ==
  ASSUME IInv, NEW w \in Workers, PrincipalExists(w)
  PROVE  IInv'
<1>. DEFINE r == req[w]
<1>1. r.pc = "principal" /\ UNCHANGED tables
  BY DEF PrincipalExists
<1>2. r \in Requests /\ ReqOK(r)
  BY DEF IInv, TypeOK, RequestsOK
<1>3. CASE Finish(w)
  BY <1>1, <1>3, QuietFinish
<1>4. ASSUME NEW pc \in {"upsert", "isMember"}, Goto(w, pc),
             pc = "isMember" => r.target \in TeamIds
      PROVE  IInv'
  <2>. DEFINE q == [r EXCEPT !.pc = pc]
  <2>1. pc \in Pcs
    BY DEF Pcs
  <2>2. /\ q.pc = pc /\ q.op = r.op /\ q.user = r.user /\ q.on = r.on
        /\ q.target = r.target /\ q.role = r.role
    BY <2>1, GotoRecord DEF IInv
  <2>. HIDE DEF q
  <2>3. ReqOK(q)
    BY <1>1, <1>2, <1>4, <2>2
       DEF ReqOK, TeamOpOK, ShareOpOK, DeletionOK
  <2>. QED BY <1>1, <1>4, <2>1, <2>3, QuietGoto DEF q
<1>. QED BY <1>3, <1>4 DEF PrincipalExists

LEMMA IsTeamMemberStep ==
  ASSUME IInv, NEW w \in Workers, IsTeamMember(w)
  PROVE  IInv'
<1>. DEFINE r == req[w]
            q == [r EXCEPT !.pc = "upsert"]
<1>1. /\ r.pc = "isMember" /\ UNCHANGED tables
      /\ Finish(w) \/ Goto(w, "upsert")
  BY DEF IsTeamMember
<1>2. /\ q.pc = "upsert" /\ q.op = r.op /\ q.user = r.user /\ q.on = r.on
      /\ q.target = r.target /\ q.role = r.role
  BY GotoRecord DEF IInv, Pcs
<1>3. ReqOK(r)
  BY DEF IInv, RequestsOK
<1>. HIDE DEF q
<1>4. ReqOK(q)
  BY <1>1, <1>2, <1>3 DEF ReqOK, TeamOpOK, ShareOpOK, DeletionOK
<1>5. "upsert" \in Pcs
  BY DEF Pcs
<1>6. CASE Goto(w, "upsert")
  BY <1>1, <1>4, <1>5, <1>6, QuietGoto DEF q
<1>. QED BY <1>1, <1>6, QuietFinish

\* One row of note_shares written, and the answer.
LEMMA ShareWritten ==
  ASSUME IInv, NEW w \in Workers, Finish(w),
         UNCHANGED <<users, teams, members>>,
         NEW n \in NoteIds, NEW p \in Principals,
         NEW role \in {RoleNone} \cup GrantRoles,
         shares' = [shares EXCEPT ![n][p] = role]
  PROVE  IInv'
<1>1. TablesTyped' /\ NoGhostMembers'
  BY DEF IInv, TypeOK, TablesTyped, NoGhostMembers
<1>2. IdleReq.pc # "dropUserGrants"
  BY DEF IdleReq
<1>. QED BY <1>1, <1>2, IdleReqOK, OneRequest DEF Finish

LEMMA UpsertNoteShareStep ==
  ASSUME IInv, NEW w \in Workers, UpsertNoteShare(w)
  PROVE  IInv'
<1>1. req[w].pc = "upsert" /\ Finish(w)
      /\ UNCHANGED <<users, teams, members>>
      /\ shares' = [shares EXCEPT ![req[w].on][req[w].target] = req[w].role]
  BY DEF UpsertNoteShare
<1>2. /\ req[w].on \in NoteIds /\ req[w].target \in Principals
      /\ req[w].role \in GrantRoles
  BY <1>1 DEF IInv, RequestsOK, ReqOK, ShareOpOK
<1>. QED BY <1>1, <1>2, ShareWritten

LEMMA DeleteNoteShareStep ==
  ASSUME IInv, NEW w \in Workers, DeleteNoteShare(w)
  PROVE  IInv'
<1>1. req[w].pc = "revoke" /\ Finish(w)
      /\ UNCHANGED <<users, teams, members>>
      /\ shares' = [shares EXCEPT ![req[w].on][req[w].target] = RoleNone]
  BY DEF DeleteNoteShare
<1>2. req[w].on \in NoteIds /\ req[w].target \in Principals
  BY <1>1 DEF IInv, RequestsOK, ReqOK, ShareOpOK
<1>. QED BY <1>1, <1>2, ShareWritten

\* The row lock: nobody else is deleting the account when its row is found live.
LEMMA SoftDeleteUserStep ==
  ASSUME IInv, NEW w \in Workers, SoftDeleteUser(w)
  PROVE  IInv'
<1>. DEFINE r == req[w]
            q == [r EXCEPT !.pc = "dropUserGrants"]
<1>1. r.pc = "softDelete" /\ UNCHANGED tables
      /\ \A o \in Workers \ {w} :
           ~ (req[o].pc = "dropUserGrants" /\ req[o].user = r.user)
  BY DEF SoftDeleteUser
<1>2. CASE Finish(w)
  BY <1>1, <1>2, QuietFinish
<1>3. CASE users[r.user] /\ Goto(w, "dropUserGrants")
  <2>1. /\ q \in Requests /\ q.pc = "dropUserGrants" /\ q.op = r.op
        /\ q.user = r.user
    BY GotoRecord DEF IInv, Pcs
  <2>. HIDE DEF q
  <2>2. ReqOK(q)
    BY <1>1, <2>1 DEF IInv, RequestsOK, ReqOK, TeamOpOK, ShareOpOK, DeletionOK
  <2>3. /\ req' \in [Workers -> Requests] /\ req'[w] = q
        /\ \A o \in Workers \ {w} : req'[o] = req[o]
    BY <1>3, <2>1 DEF Goto, IInv, TypeOK, q
  <2>4. TypeOK' /\ NoGhostMembers'
    BY <1>1, <2>3 DEF IInv, TypeOK, NoGhostMembers, tables
  <2>5. RequestsOK'
    BY <2>2, <2>3 DEF IInv, RequestsOK
  <2>6. AccountsLocked'
    BY <1>1, <1>3, <2>1, <2>3 DEF IInv, AccountsLocked, Deleting, tables
  <2>. QED BY <2>4, <2>5, <2>6 DEF IInv
<1>. QED BY <1>2, <1>3 DEF SoftDeleteUser

LEMMA DeleteUserShareGrantsStep ==
  ASSUME IInv, NEW w \in Workers, DeleteUserShareGrants(w)
  PROVE  IInv'
<1>. DEFINE u == req[w].user
<1>1. /\ req[w].pc = "dropUserGrants" /\ Finish(w)
      /\ users' = [users EXCEPT ![u] = FALSE]
      /\ shares' = [n \in NoteIds |-> [shares[n] EXCEPT ![u] = RoleNone]]
      /\ UNCHANGED <<teams, members>>
  BY DEF DeleteUserShareGrants
<1>2. u \in UserIds
  BY <1>1 DEF IInv, RequestsOK, ReqOK, DeletionOK
<1>3. TablesTyped'
  BY <1>1 DEF IInv, TypeOK, TablesTyped
<1>4. NoGhostMembers'
  BY <1>1 DEF IInv, NoGhostMembers
<1>5. \A v \in UserIds : users'[v] # users[v] => Deleting(w, v)
  BY <1>1, <1>2 DEF IInv, TypeOK, Deleting
<1>6. IdleReq.pc # "dropUserGrants"
  BY DEF IdleReq
<1>. QED BY <1>1, <1>3, <1>4, <1>5, <1>6, IdleReqOK, OneRequest DEF Finish

-----------------------------------------------------------------------------
(* The invariant. *)

LEMMA InvInit == Init => IInv
<1>. SUFFICES ASSUME Init PROVE IInv
  OBVIOUS
<1>1. \A w \in Workers : req[w] = IdleReq
  BY DEF Init
<1>2. TypeOK
  BY IdleReqOK DEF Init, TypeOK
<1>3. NoGhostMembers
  BY DEF Init, NoGhostMembers
<1>4. RequestsOK
  BY <1>1, IdleReqOK DEF RequestsOK
<1>5. AccountsLocked
  BY <1>1 DEF AccountsLocked, Deleting, IdleReq
<1>. QED BY <1>2, <1>3, <1>4, <1>5 DEF IInv

LEMMA InvStep == IInv /\ [Next]_vars => IInv'
<1>. SUFFICES ASSUME IInv, [Next]_vars PROVE IInv'
  OBVIOUS
<1>1. ASSUME NEW w \in Workers, Receive(w) PROVE IInv'
  BY <1>1, CreateTeamStep, ReceiveTeamOpStep, ReceiveShareOpStep,
     ReceiveDeleteMeStep DEF Receive
<1>2. ASSUME NEW w \in Workers, Statement(w) PROVE IInv'
  BY <1>2, MembershipStep, GuardMembershipStep, CountTeamAdminsStep,
     AddTeamMemberStep, RemoveTeamMemberStep, DeleteTeamShareGrantsStep,
     DeleteTeamStep, LoadForShareStep, PrincipalExistsStep, IsTeamMemberStep,
     UpsertNoteShareStep, DeleteNoteShareStep, SoftDeleteUserStep,
     DeleteUserShareGrantsStep DEF Statement
<1>3. ASSUME NEW w \in Workers, Abort(w) PROVE IInv'
  BY <1>3, QuietFinish DEF Abort
<1>4. CASE UNCHANGED vars
  BY <1>4 DEF vars, IInv, TypeOK, NoGhostMembers, RequestsOK, AccountsLocked,
              Deleting
<1>. QED BY <1>1, <1>2, <1>3, <1>4 DEF Next

\* The inductive invariant holds in every reachable state.
THEOREM Invariance == Spec => []IInv
BY InvInit, InvStep, PTL DEF Spec

\* Every reachable state is well typed, for every number of teams, notes, users
\* and concurrent requests.
THEOREM TypeCorrect == Spec => []TypeOK
<1>1. IInv => TypeOK
  BY DEF IInv
<1>. QED BY <1>1, Invariance, PTL

\* A grant that outlives its team opens nothing.
THEOREM OrphansAreHarmless == Spec => []OrphanGrantsOpenNothing
<1>1. IInv => OrphanGrantsOpenNothing
  BY DEF IInv, NoGhostMembers, OrphanGrantsOpenNothing
<1>. QED BY <1>1, Invariance, PTL

-----------------------------------------------------------------------------
(* The action properties. *)

LEMMA FinishIdle ==
  ASSUME TypeOK, NEW w \in Workers, Finish(w)
  PROVE  req'[w].pc = "idle"
BY SMTT(30) DEF TypeOK, Finish, IdleReq

\* Which statements write which tables.
LEMMA Writers ==
  ASSUME [Next]_vars
  PROVE  \/ UNCHANGED tables
         \/ \E w \in Workers :
              \/ CreateTeam(w) \/ AddTeamMember(w) \/ RemoveTeamMember(w)
              \/ DeleteTeam(w) \/ UpsertNoteShare(w) \/ DeleteNoteShare(w)
              \/ DeleteUserShareGrants(w)
BY ZenonT(40) DEF Next, vars, tables, Receive, Statement, Abort, ReceiveTeamOp,
       ReceiveShareOp, ReceiveDeleteMe, Membership, GuardMembership,
       CountTeamAdmins, DeleteTeamShareGrants, LoadForShare, PrincipalExists,
       IsTeamMember, SoftDeleteUser

\* Where a grant may go.
GrantGoes(n, p) ==
  shares[n][p] # RoleNone /\ shares'[n][p] = RoleNone =>
    \/ \E w \in Workers : /\ req[w].pc = "revoke" /\ req'[w].pc = "idle"
                          /\ req[w].on = n /\ req[w].target = p
                          /\ req[w].user = Owner[n]
    \/ p \in TeamIds /\ teams[p] = "live" /\ teams'[p] = "deleted"
    \/ p \in UserIds /\ users[p] /\ ~ users'[p]

LEMMA GrantStep ==
  ASSUME IInv, [Next]_vars, NEW n \in NoteIds, NEW p \in Principals
  PROVE  GrantGoes(n, p)
<1>1. CASE shares' = shares
  BY <1>1 DEF GrantGoes
<1>2. ASSUME NEW w \in Workers, DeleteTeam(w)
      PROVE  GrantGoes(n, p)
  <2>1. CASE UNCHANGED <<teams, members, shares>>
    BY <1>1, <2>1
  <2>2. CASE /\ teams[req[w].on] = "live"
             /\ teams' = [teams EXCEPT ![req[w].on] = "deleted"]
             /\ shares' = [m \in NoteIds |->
                             IF m \in req[w].doomed
                               THEN [shares[m] EXCEPT ![req[w].on] = RoleNone]
                               ELSE shares[m]]
    <3>1. req[w].on \in TeamIds
      BY <1>2 DEF DeleteTeam, IInv, RequestsOK, ReqOK, TeamOpOK
    <3>2. p # req[w].on => shares'[n][p] = shares[n][p]
      BY <2>2 DEF IInv, TypeOK
    <3>3. teams'[req[w].on] = "deleted"
      BY <2>2, <3>1 DEF IInv, TypeOK
    <3>. QED BY <2>2, <3>1, <3>2, <3>3 DEF GrantGoes
  <2>. QED BY <1>2, <2>1, <2>2 DEF DeleteTeam
<1>3. ASSUME NEW w \in Workers, UpsertNoteShare(w)
      PROVE  GrantGoes(n, p)
  <2>1. req[w].role # RoleNone
    BY <1>3 DEF UpsertNoteShare, IInv, RequestsOK, ReqOK, ShareOpOK,
                GrantRoles, RoleNone, RoleViewer, RoleEditor
  <2>2. shares' = [shares EXCEPT ![req[w].on][req[w].target] = req[w].role]
    BY <1>3 DEF UpsertNoteShare
  <2>. QED BY <2>1, <2>2 DEF GrantGoes, IInv, TypeOK
<1>4. ASSUME NEW w \in Workers, DeleteNoteShare(w)
      PROVE  GrantGoes(n, p)
  <2>1. /\ req[w].pc = "revoke" /\ req'[w].pc = "idle"
        /\ req[w].user = Owner[req[w].on]
        /\ shares' = [shares EXCEPT ![req[w].on][req[w].target] = RoleNone]
    BY <1>4, FinishIdle
       DEF DeleteNoteShare, IInv, RequestsOK, ReqOK, ShareOpOK
  <2>. QED BY <2>1 DEF GrantGoes, IInv, TypeOK
<1>5. ASSUME NEW w \in Workers, DeleteUserShareGrants(w)
      PROVE  GrantGoes(n, p)
  <2>1. /\ req[w].user \in UserIds /\ users[req[w].user]
        /\ users' = [users EXCEPT ![req[w].user] = FALSE]
        /\ shares' = [m \in NoteIds |->
                        [shares[m] EXCEPT ![req[w].user] = RoleNone]]
    BY <1>5 DEF DeleteUserShareGrants, IInv, RequestsOK, ReqOK, DeletionOK,
                AccountsLocked, Deleting
  <2>. QED BY <2>1 DEF GrantGoes, IInv, TypeOK
<1>. QED
  BY <1>1, <1>2, <1>3, <1>4, <1>5, Writers
     DEF tables, CreateTeam, AddTeamMember, RemoveTeamMember

\* A grant goes because the note's owner revoked it, or in the very step that
\* removes its team or its account.
THEOREM GrantsFollow == Spec => GrantsGoWithTheirPrincipal
<1>1. IInv /\ [Next]_vars =>
        [\A n \in NoteIds, p \in Principals :
           shares[n][p] # RoleNone /\ shares'[n][p] = RoleNone =>
             \/ \E w \in Workers :
                  /\ req[w].pc = "revoke" /\ req'[w].pc = "idle"
                  /\ req[w].on = n /\ req[w].target = p
                  /\ req[w].user = Owner[n]
             \/ p \in TeamIds /\ teams[p] = "live" /\ teams'[p] = "deleted"
             \/ p \in UserIds /\ users[p] /\ ~ users'[p]]_vars
  BY GrantStep DEF GrantGoes
<1>. QED BY <1>1, Invariance, PTL DEF Spec, GrantsGoWithTheirPrincipal

\* How a grant may be left without its principal.
LeftOrphan(n, p) ==
  Orphan(n, p)' /\ ~ Orphan(n, p) =>
    \E w \in Workers :
      /\ req'[w].pc = "idle"
      /\ \/ req[w].pc = "upsert" /\ req[w].on = n /\ req[w].target = p
         \/ req[w].pc = "dropTeam" /\ req[w].on = p /\ n \notin req[w].doomed

LEMMA OrphanStep ==
  ASSUME IInv, [Next]_vars, NEW n \in NoteIds, NEW p \in Principals
  PROVE  LeftOrphan(n, p)
<1>1. CASE UNCHANGED <<users, teams, shares>>
  BY <1>1 DEF LeftOrphan, Orphan
<1>2. ASSUME NEW w \in Workers, CreateTeam(w)
      PROVE  LeftOrphan(n, p)
  BY <1>2 DEF CreateTeam, LeftOrphan, Orphan, IInv, TypeOK
<1>3. ASSUME NEW w \in Workers, DeleteTeam(w)
      PROVE  LeftOrphan(n, p)
  <2>1. CASE UNCHANGED <<teams, members, shares>>
    BY <1>1, <1>3, <2>1 DEF DeleteTeam
  <2>2. CASE /\ teams' = [teams EXCEPT ![req[w].on] = "deleted"]
             /\ shares' = [m \in NoteIds |->
                             IF m \in req[w].doomed
                               THEN [shares[m] EXCEPT ![req[w].on] = RoleNone]
                               ELSE shares[m]]
    <3>1. /\ req[w].pc = "dropTeam" /\ req'[w].pc = "idle" /\ users' = users
          /\ req[w].on \in TeamIds
      BY <1>3, FinishIdle
         DEF DeleteTeam, IInv, RequestsOK, ReqOK, TeamOpOK
    <3>2. CASE p # req[w].on
      <4>1. shares'[n][p] = shares[n][p] /\ (p \in TeamIds => teams'[p] = teams[p])
        BY <2>2, <3>2 DEF IInv, TypeOK
      <4>. QED BY <3>1, <4>1 DEF LeftOrphan, Orphan
    <3>3. CASE p = req[w].on /\ n \in req[w].doomed
      <4>1. shares'[n][p] = RoleNone
        BY <2>2, <3>3 DEF IInv, TypeOK
      <4>. QED BY <4>1 DEF LeftOrphan, Orphan
    <3>. QED BY <3>1, <3>2, <3>3 DEF LeftOrphan
  <2>. QED BY <1>3, <2>1, <2>2 DEF DeleteTeam
<1>4. ASSUME NEW w \in Workers, UpsertNoteShare(w)
      PROVE  LeftOrphan(n, p)
  <2>1. /\ req[w].pc = "upsert" /\ req'[w].pc = "idle"
        /\ UNCHANGED <<users, teams>>
        /\ shares' = [shares EXCEPT ![req[w].on][req[w].target] = req[w].role]
    BY <1>4, FinishIdle DEF UpsertNoteShare, IInv
  <2>2. (req[w].on = n /\ req[w].target = p) \/ shares'[n][p] = shares[n][p]
    BY <2>1 DEF IInv, TypeOK
  <2>. QED BY <2>1, <2>2 DEF LeftOrphan, Orphan
<1>5. ASSUME NEW w \in Workers, DeleteNoteShare(w)
      PROVE  LeftOrphan(n, p)
  <2>1. /\ UNCHANGED <<users, teams>>
        /\ shares'[n][p] \in {RoleNone, shares[n][p]}
    BY <1>5 DEF DeleteNoteShare, IInv, TypeOK
  <2>. QED BY <2>1 DEF LeftOrphan, Orphan
<1>6. ASSUME NEW w \in Workers, DeleteUserShareGrants(w)
      PROVE  LeftOrphan(n, p)
  <2>. DEFINE u == req[w].user
  <2>1. /\ teams' = teams
        /\ users' = [users EXCEPT ![u] = FALSE]
        /\ shares' = [m \in NoteIds |-> [shares[m] EXCEPT ![u] = RoleNone]]
    BY <1>6 DEF DeleteUserShareGrants
  <2>2. CASE p = u
    <3>1. shares'[n][p] = RoleNone
      BY <2>1, <2>2 DEF IInv, TypeOK
    <3>. QED BY <3>1 DEF LeftOrphan, Orphan
  <2>3. CASE p # u
    <3>1. shares'[n][p] = shares[n][p] /\ (p \in UserIds => users'[p] = users[p])
      BY <2>1, <2>3 DEF IInv, TypeOK
    <3>. QED BY <2>1, <3>1 DEF LeftOrphan, Orphan
  <2>. QED BY <2>2, <2>3
<1>. QED
  BY <1>1, <1>2, <1>3, <1>4, <1>5, <1>6, Writers
     DEF tables, AddTeamMember, RemoveTeamMember

\* No deletion on its own leaves a grant without its principal: it takes a share
\* that was validated before, or came after the deletion looked.
THEOREM OrphansComeFromRaces == Spec => OrphanedOnlyByRace
<1>1. IInv /\ [Next]_vars =>
        [\A n \in NoteIds, p \in Principals :
           Orphan(n, p)' /\ ~ Orphan(n, p) =>
             \E w \in Workers :
               /\ req'[w].pc = "idle"
               /\ \/ req[w].pc = "upsert" /\ req[w].on = n /\ req[w].target = p
                  \/ req[w].pc = "dropTeam" /\ req[w].on = p
                       /\ n \notin req[w].doomed]_vars
  BY OrphanStep DEF LeftOrphan
<1>. QED BY <1>1, Invariance, PTL DEF Spec, OrphanedOnlyByRace

\* How a team may lose the last admin who can log in.
Strands(t) ==
  LiveAdmins(t) # {} /\ LiveAdmins(t)' = {} /\ teams'[t] = "live" =>
    \E w \in Workers :
      /\ req'[w].pc = "idle"
      /\ \/ req[w].op = "deleteMe" /\ LiveAdmins(t) = {req[w].user}
         \/ /\ req[w].pc = "write" /\ req[w].on = t
            /\ \/ req[w].seen \notin {{Nothing}, Admins(t)}
               \/ \E u \in Admins(t) \cap req[w].seen : ~ users[u]

\* The guard's reasoning.  Somebody else was an admin in what it saw: if the table
\* still is what it saw, that admin stays, unless the account is dead.
LEMMA GuardReasoning ==
  ASSUME IInv, NEW w \in Workers, Finish(w), users' = users,
         req[w].pc = "write",
         ~ (req[w].op = "addMember" /\ req[w].role = RoleAdmin),
         NEW role, role # RoleAdmin,
         members' = [members EXCEPT ![req[w].on][req[w].target] = role],
         NEW t \in TeamIds
  PROVE  Strands(t)
<1>. DEFINE r == req[w]
<1>1. SUFFICES ASSUME LiveAdmins(t) # {}, LiveAdmins(t)' = {}
               PROVE  /\ r.on = t
                      /\ \/ r.seen \notin {{Nothing}, Admins(t)}
                         \/ \E u \in Admins(t) \cap r.seen : ~ users[u]
  BY FinishIdle DEF Strands, IInv
<1>2. /\ r.on \in TeamIds /\ r.target \in UserIds
      /\ r.seen \subseteq UserIds
      /\ r.target \in r.seen => \E u \in r.seen : u # r.target
  BY DEF IInv, RequestsOK, ReqOK, TeamOpOK, TeamOps
<1>3. \A v \in UserIds :
        v \in LiveAdmins(t) => r.on = t /\ v = r.target
  BY <1>1, <1>2 DEF LiveAdmins, Admins, IInv, TypeOK
<1>4. r.on = t /\ LiveAdmins(t) = {r.target}
  BY <1>1, <1>3 DEF LiveAdmins, Admins
<1>5. r.seen # {Nothing}
  BY <1>2, SharingAssumption
<1>6. ASSUME r.seen = Admins(t)
      PROVE  \E u \in Admins(t) \cap r.seen : ~ users[u]
  <2>1. r.target \in r.seen
    BY <1>4, <1>6 DEF LiveAdmins
  <2>2. PICK u \in r.seen : u # r.target
    BY <1>2, <2>1
  <2>3. ~ users[u]
    BY <1>4, <1>6, <2>2 DEF LiveAdmins
  <2>. QED BY <1>6, <2>2, <2>3
<1>. QED BY <1>4, <1>5, <1>6

\* A team only gains by an admin added.
LEMMA AdminAdded ==
  ASSUME TypeOK, users' = users, NEW s \in TeamIds, NEW v \in UserIds,
         members' = [members EXCEPT ![s][v] = RoleAdmin], NEW t \in TeamIds
  PROVE  LiveAdmins(t) \subseteq LiveAdmins(t)'
BY DEF TypeOK, LiveAdmins, Admins

LEMMA StrandStep ==
  ASSUME IInv, [Next]_vars, NEW t \in TeamIds
  PROVE  Strands(t)
<1>1. CASE UNCHANGED <<users, members>>
  BY <1>1 DEF Strands, LiveAdmins, Admins
<1>2. ASSUME NEW w \in Workers, CreateTeam(w)
      PROVE  Strands(t)
  <2>1. \E u \in UserIds, s \in TeamIds :
          members' = [members EXCEPT ![s][u] = RoleAdmin]
    BY <1>2 DEF CreateTeam
  <2>2. LiveAdmins(t) \subseteq LiveAdmins(t)'
    BY <1>2, <2>1, AdminAdded DEF CreateTeam, IInv
  <2>. QED BY <2>2 DEF Strands
<1>3. ASSUME NEW w \in Workers, AddTeamMember(w)
      PROVE  Strands(t)
  <2>1. /\ req[w].pc = "write" /\ req[w].op = "addMember" /\ Finish(w)
        /\ users' = users
        /\ \/ members' = members
           \/ members' = [members EXCEPT ![req[w].on][req[w].target]
                                           = req[w].role]
    BY <1>3 DEF AddTeamMember
  <2>2. req[w].on \in TeamIds /\ req[w].target \in UserIds
    BY <2>1 DEF IInv, RequestsOK, ReqOK, TeamOpOK
  <2>3. CASE members' = members
    BY <1>1, <2>1, <2>3
  <2>4. CASE /\ members' = [members EXCEPT ![req[w].on][req[w].target]
                                             = req[w].role]
             /\ req[w].role = RoleAdmin
    <3>1. LiveAdmins(t) \subseteq LiveAdmins(t)'
      BY <2>1, <2>2, <2>4, AdminAdded DEF IInv
    <3>. QED BY <3>1 DEF Strands
  <2>5. CASE /\ members' = [members EXCEPT ![req[w].on][req[w].target]
                                             = req[w].role]
             /\ req[w].role # RoleAdmin
    BY <2>1, <2>5, GuardReasoning
  <2>. QED BY <2>1, <2>3, <2>4, <2>5
<1>4. ASSUME NEW w \in Workers, RemoveTeamMember(w)
      PROVE  Strands(t)
  <2>1. /\ req[w].pc = "write" /\ req[w].op # "addMember" /\ Finish(w)
        /\ users' = users
        /\ members' = [members EXCEPT ![req[w].on][req[w].target] = NotMember]
    BY <1>4 DEF RemoveTeamMember
  <2>2. NotMember # RoleAdmin
    BY DEF NotMember, RoleAdmin
  <2>. QED BY <2>1, <2>2, GuardReasoning
<1>5. ASSUME NEW w \in Workers, DeleteTeam(w)
      PROVE  Strands(t)
  <2>1. CASE UNCHANGED <<teams, members, shares>>
    BY <1>1, <1>5, <2>1 DEF DeleteTeam
  <2>2. CASE /\ teams' = [teams EXCEPT ![req[w].on] = "deleted"]
             /\ members' = [members EXCEPT ![req[w].on] =
                              [u \in UserIds |-> NotMember]]
    <3>1. CASE t = req[w].on
      <4>1. teams'[t] = "deleted"
        BY <2>2, <3>1 DEF IInv, TypeOK
      <4>. QED BY <4>1 DEF Strands
    <3>2. CASE t # req[w].on
      <4>1. members'[t] = members[t] /\ users' = users
        BY <1>5, <2>2, <3>2 DEF DeleteTeam, IInv, TypeOK
      <4>. QED BY <4>1 DEF Strands, LiveAdmins, Admins
    <3>. QED BY <3>1, <3>2
  <2>. QED BY <1>5, <2>1, <2>2 DEF DeleteTeam
<1>6. ASSUME NEW w \in Workers, DeleteUserShareGrants(w)
      PROVE  Strands(t)
  <2>. DEFINE u == req[w].user
  <2>1. /\ req'[w].pc = "idle" /\ req[w].op = "deleteMe"
        /\ users' = [users EXCEPT ![u] = FALSE] /\ members' = members
    BY <1>6, FinishIdle
       DEF DeleteUserShareGrants, IInv, RequestsOK, ReqOK, DeletionOK
  <2>2. \A v \in UserIds \ {u} : v \in LiveAdmins(t) => v \in LiveAdmins(t)'
    BY <2>1 DEF LiveAdmins, Admins, IInv, TypeOK
  <2>3. LiveAdmins(t) # {} /\ LiveAdmins(t)' = {} => LiveAdmins(t) = {u}
    BY <2>2 DEF LiveAdmins, Admins
  <2>. QED BY <2>1, <2>3 DEF Strands
<1>. QED
  BY <1>1, <1>2, <1>3, <1>4, <1>5, <1>6, Writers
     DEF tables, UpsertNoteShare, DeleteNoteShare

\* On every path the last-admin guard is right about what it saw: a team loses
\* the last admin who can log in only by a race with the guard, a deleted account
\* the guard counts, or that admin's own deleteMe.
THEOREM StrandedByRaces == Spec => StrandedByRaceOrDeletion
<1>1. IInv /\ [Next]_vars =>
        [\A t \in TeamIds :
           LiveAdmins(t) # {} /\ LiveAdmins(t)' = {} /\ teams'[t] = "live" =>
             \E w \in Workers :
               /\ req'[w].pc = "idle"
               /\ \/ req[w].op = "deleteMe" /\ LiveAdmins(t) = {req[w].user}
                  \/ /\ req[w].pc = "write" /\ req[w].on = t
                     /\ \/ req[w].seen \notin {{Nothing}, Admins(t)}
                        \/ \E u \in Admins(t) \cap req[w].seen :
                             ~ users[u]]_vars
  BY StrandStep DEF Strands
<1>. QED BY <1>1, Invariance, PTL DEF Spec, StrandedByRaceOrDeletion
=============================================================================
