------------------------------ MODULE Accounts ------------------------------
(***************************************************************************)
(* Accounts and their tokens: registration, login, profile and password    *)
(* changes and the deletion of one's account (internal/users,              *)
(* internal/auth), over the table users.                                   *)
(*                                                                         *)
(* An action is one SQL statement and the code up to the next one; other   *)
(* requests run in between, and a token keeps opening the routes behind    *)
(* the middleware when its account is gone.  Input that fails validation   *)
(* is refused before any statement and left out; addresses are normalised. *)
(* The grants that go with a deleted account are in Sharing.               *)
(***************************************************************************)
EXTENDS FiniteSets

CONSTANTS AccountIds,   \* bound: the accounts ever created
          Emails, Passwords,
          Workers,      \* request goroutines
          Nothing

VARIABLES
  accounts,   \* id -> its row, Nothing before it is created
  tokens,     \* the accounts some unexpired token names
  req         \* worker -> the request it serves

vars == <<accounts, tokens, req>>

Rows == [email : Emails, password : Passwords, deleted : BOOLEAN]

ASSUME AccountsAssumption ==
  Nothing \notin AccountIds \cup Emails \cup Passwords \cup Rows

Ops == {"register", "login", "updateMe", "changePassword", "deleteMe"}

\* `user` is the account the token names, or the one a login found; `given` a
\* password the request presents, `new` one it asks for.  History variables:
\* `held`, the live accounts that had the presented credentials at some time
\* since the request came in; `took`, whether since then the account had the
\* new password, or was deleted.
IdleReq == [pc |-> "idle", op |-> "none", user |-> Nothing, email |-> Nothing,
            given |-> Nothing, new |-> Nothing, status |-> 0,
            held |-> {}, took |-> FALSE]

Init ==
  /\ accounts = [a \in AccountIds |-> Nothing]
  /\ tokens = {}
  /\ req = [w \in Workers |-> IdleReq]

Live(a, acc) == acc[a] # Nothing /\ ~ acc[a].deleted

\* Mutant: an index that is not unique.
EmailTakenUnindexed(e, a) == FALSE

\* users_email_live_uniq: only live accounts occupy an address.
EmailTaken(e, a) ==
  \E b \in AccountIds \ {a} : Live(b, accounts) /\ accounts[b].email = e

-----------------------------------------------------------------------------
Holds(a, r, acc) ==
  /\ Live(a, acc)
  /\ acc[a].password = r.given
  /\ r.email # Nothing => acc[a].email = r.email

\* What a request sees of the table while it is served.
Witness(r, acc) ==
  [r EXCEPT !.held = @ \cup {a \in AccountIds : Holds(a, r, acc)},
            !.took = @ \/ ( /\ r.op = "changePassword"
                            /\ \/ acc[r.user].deleted
                               \/ acc[r.user].password = r.new )]

Goto(w, pc) == req' = [req EXCEPT ![w].pc = pc]

Done(r, status) == [r EXCEPT !.pc = "reply", !.status = status]

Answer(w, status) == req' = [req EXCEPT ![w] = Done(@, status)]

\* A statement of w's commits acc.  The request goes on as next or, when an error
\* comes before its result (a deadline, a client that leaves, a lost connection), is
\* answered as failed.  503 stands for whatever WriteProblem answers to an error
\* that is no Problem; Serving tells its 499, 500 and 503 apart.
Commit(w, acc, next, failed) ==
  /\ accounts' = acc
  /\ \E r \in {next, Done(req[w], failed)} :
       req' = [o \in Workers |-> Witness(IF o = w THEN r ELSE req[o], acc)]
  /\ UNCHANGED tokens

Receive(w) ==
  /\ req[w].pc = "idle"
  /\ \E r \in
       [op : {"register"}, user : {Nothing}, email : Emails,
        given : {Nothing}, new : Passwords] \cup
       [op : {"login"}, user : {Nothing}, email : Emails,
        given : Passwords, new : {Nothing}] \cup
       [op : {"updateMe"}, user : tokens, email : Emails \cup {Nothing},
        given : {Nothing}, new : {Nothing}] \cup
       [op : {"changePassword"}, user : tokens, email : {Nothing},
        given : Passwords, new : Passwords] \cup
       [op : {"deleteMe"}, user : tokens, email : {Nothing},
        given : {Nothing}, new : {Nothing}] :
       req' = [req EXCEPT ![w] = Witness(
                 [IdleReq EXCEPT !.pc = IF r.op \in {"login", "changePassword"}
                                          THEN "read" ELSE "write",
                                 !.op = r.op, !.user = r.user,
                                 !.email = r.email, !.given = r.given,
                                 !.new = r.new], accounts)]
  /\ UNCHANGED <<accounts, tokens>>

-----------------------------------------------------------------------------
(* Registration and login. *)

CreateUser(w) ==
  LET r == req[w]
  IN  /\ r.pc = "write" /\ r.op = "register"
      /\ \/ /\ EmailTaken(r.email, Nothing)
            /\ Answer(w, 409)
            /\ UNCHANGED <<accounts, tokens>>
         \/ /\ ~ EmailTaken(r.email, Nothing)
            /\ \E a \in AccountIds :
                 /\ accounts[a] = Nothing
                 /\ Commit(w, [accounts EXCEPT ![a] =
                                 [email |-> r.email, password |-> r.new,
                                  deleted |-> FALSE]],
                           [r EXCEPT !.pc = "issue", !.user = a], 503)

\* Mutant: the address looked up among deleted accounts too.
GetUserByEmailAny(e) ==
  {a \in AccountIds : accounts[a] # Nothing /\ accounts[a].email = e}

GetUserByEmail(e) ==
  {a \in AccountIds : Live(a, accounts) /\ accounts[a].email = e}

\* An unknown address and a wrong password get one and the same answer.
Login(w) ==
  LET r     == req[w]
      found == {a \in GetUserByEmail(r.email) : accounts[a].password = r.given}
  IN  /\ r.pc = "read" /\ r.op = "login"
      /\ \/ found = {} /\ Answer(w, 401)
         \/ \E a \in found :
              req' = [req EXCEPT ![w].user = a, ![w].pc = "issue"]
      /\ UNCHANGED <<accounts, tokens>>

\* Whatever became of the account since it was read.
Issue(w) ==
  /\ req[w].pc = "issue"
  /\ tokens' = tokens \cup {req[w].user}
  /\ Answer(w, 200)
  /\ UNCHANGED accounts

\* The last unexpired token of an account expires.
Expire(a) ==
  /\ a \in tokens
  /\ tokens' = tokens \ {a}
  /\ UNCHANGED <<accounts, req>>

-----------------------------------------------------------------------------
(* The account of the token. *)

\* Mutant: an omitted address is written, not coalesced.
UpdateUserProfileUncoalesced(w) ==
  LET r == req[w]
  IN  /\ r.pc = "write" /\ r.op = "updateMe"
      /\ Live(r.user, accounts) /\ ~ EmailTaken(r.email, r.user)
      /\ Commit(w, [accounts EXCEPT ![r.user].email = r.email],
                Done(r, 200), 503)

UpdateUserProfile(w) ==
  LET r == req[w]
      e == IF r.email = Nothing THEN accounts[r.user].email ELSE r.email
  IN  /\ r.pc = "write" /\ r.op = "updateMe"
      /\ \/ /\ ~ Live(r.user, accounts)
            /\ Answer(w, 401)
            /\ UNCHANGED <<accounts, tokens>>
         \/ /\ Live(r.user, accounts) /\ EmailTaken(e, r.user)
            /\ Answer(w, 409)
            /\ UNCHANGED <<accounts, tokens>>
         \/ /\ Live(r.user, accounts) /\ ~ EmailTaken(e, r.user)
            /\ Commit(w, [accounts EXCEPT ![r.user].email = e],
                      Done(r, 200), 503)

\* Mutant: the current password is not asked for.
ReadPasswordUnchecked(w) ==
  /\ req[w].pc = "read" /\ req[w].op = "changePassword"
  /\ Goto(w, "write")
  /\ UNCHANGED <<accounts, tokens>>

\* changePassword, first statement: GetUser and the check.
ReadPassword(w) ==
  LET r == req[w]
  IN  /\ r.pc = "read" /\ r.op = "changePassword"
      /\ \/ ~ Live(r.user, accounts) /\ Answer(w, 401)
         \/ /\ Live(r.user, accounts)
            /\ IF accounts[r.user].password = r.given
                 THEN Goto(w, "write") ELSE Answer(w, 403)
      /\ UNCHANGED <<accounts, tokens>>

\* Mutant: the update repeats the check, and its row count is still ignored.
UpdateUserPasswordIfCurrent(w) ==
  LET r == req[w]
  IN  /\ r.pc = "write" /\ r.op = "changePassword"
      /\ Commit(w, IF /\ Live(r.user, accounts)
                      /\ accounts[r.user].password = r.given
                     THEN [accounts EXCEPT ![r.user].password = r.new]
                     ELSE accounts, Done(r, 204), 503)

\* Mutant: the update without "deleted_at is null".
UpdateUserPasswordAnyRow(w) ==
  LET r == req[w]
  IN  /\ r.pc = "write" /\ r.op = "changePassword"
      /\ Commit(w, [accounts EXCEPT ![r.user].password = r.new],
                Done(r, 204), 503)

\* Its second statement, a slow hash later; the row count is not looked at.
UpdateUserPassword(w) ==
  LET r == req[w]
  IN  /\ r.pc = "write" /\ r.op = "changePassword"
      /\ Commit(w, IF Live(r.user, accounts)
                     THEN [accounts EXCEPT ![r.user].password = r.new]
                     ELSE accounts, Done(r, 204), 503)

\* deleteMe's transaction: others wait for the row until it commits.  Every
\* failure is answered 401.
SoftDeleteUser(w) ==
  LET r == req[w]
  IN  /\ r.pc = "write" /\ r.op = "deleteMe"
      /\ \/ /\ ~ Live(r.user, accounts)
            /\ Answer(w, 401)
            /\ UNCHANGED <<accounts, tokens>>
         \/ /\ Live(r.user, accounts)
            /\ Commit(w, [accounts EXCEPT ![r.user].deleted = TRUE],
                      Done(r, 204), 401)

-----------------------------------------------------------------------------
\* A statement fails, the deadline passes or the client leaves: 503, but for the two
\* handlers that answer any error with "account no longer exists".
StatementFails(w) ==
  LET r == req[w]
  IN  /\ r.pc \in {"read", "write"}
      /\ Answer(w, IF \/ r.op = "deleteMe"
                      \/ r.op = "changePassword" /\ r.pc = "read"
                     THEN 401 ELSE 503)
      /\ UNCHANGED <<accounts, tokens>>

Respond(w) ==
  /\ req[w].pc = "reply"
  /\ req' = [req EXCEPT ![w] = IdleReq]
  /\ UNCHANGED <<accounts, tokens>>

Next ==
  \/ \E w \in Workers :
       \/ Receive(w) \/ CreateUser(w) \/ Login(w) \/ Issue(w)
       \/ UpdateUserProfile(w) \/ ReadPassword(w) \/ UpdateUserPassword(w)
       \/ SoftDeleteUser(w) \/ StatementFails(w) \/ Respond(w)
  \/ \E a \in AccountIds : Expire(a)

Spec == Init /\ [][Next]_vars

-----------------------------------------------------------------------------
(* Properties. *)

Pcs == {"idle", "read", "write", "issue", "reply"}

Statuses == {0, 200, 204, 401, 403, 409, 503}

Requests == [pc : Pcs, op : Ops \cup {"none"}, user : AccountIds \cup {Nothing},
             email : Emails \cup {Nothing}, given : Passwords \cup {Nothing},
             new : Passwords \cup {Nothing}, status : Statuses,
             held : SUBSET AccountIds, took : BOOLEAN]

\* Types of the table, the tokens and the requests.
TypeOK ==
  /\ accounts \in [AccountIds -> Rows \cup {Nothing}]
  /\ tokens \subseteq {a \in AccountIds : accounts[a] # Nothing}
  /\ req \in [Workers -> Requests]

\* Two live accounts never share an address, through registrations, changes of
\* address and accounts registered anew after a deletion, in any order.
OneLiveAccount ==
  \A a, b \in AccountIds :
    /\ a # b /\ Live(a, accounts) /\ Live(b, accounts)
    => accounts[a].email # accounts[b].email

\* A deleted account's row never changes again, whatever its tokens still start
\* and whatever of its requests was in flight: it stays the tombstone it is.
TombstonesFrozen ==
  [][\A a \in AccountIds :
       accounts[a] # Nothing /\ accounts[a].deleted =>
         accounts'[a] = accounts[a]]_accounts

\* A login answered 200 gives a token for an account that was live and had the
\* address and the password presented while the request was served: never for
\* one deleted before, nor for another that has the address by now.
LoginOpensOwnAccount ==
  \A w \in Workers :
    req[w].op = "login" /\ req[w].status = 200 => req[w].user \in req[w].held

\* A password change answered 204 took effect: the account had the new password
\* at some time since the request came in, unless it was deleted meanwhile, in
\* which case zero rows were updated.
AnsweredChangeTook ==
  \A w \in Workers :
    req[w].op = "changePassword" /\ req[w].status = 204 => req[w].took

\* A token alone changes no password: whoever replaces it presented one that was
\* the account's when the request came in or later.  It need not be the one it
\* replaces: two overlapping changes both pass the check and the second wins.
TokenAloneChangesNothing ==
  [][\A a \in AccountIds :
       /\ accounts[a] # Nothing
       /\ accounts'[a].password # accounts[a].password
       => \E w \in Workers :
            /\ req[w].pc = "write" /\ req'[w].pc = "reply"
            /\ req[w].op = "changePassword" /\ req[w].user = a
            /\ a \in req[w].held]_accounts
=============================================================================
