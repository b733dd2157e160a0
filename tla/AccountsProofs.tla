--------------------------- MODULE AccountsProofs ---------------------------
(***************************************************************************)
(* Proofs about accounts, for any sets of accounts, addresses, passwords   *)
(* and request goroutines.                                                 *)
(*                                                                         *)
(* An account is read in one statement and acted on in another, so the     *)
(* invariant carries from the first to the second what was true then: the  *)
(* history variable `held` is never behind the table (HeldNow), and a      *)
(* request past its check was in it (RequestsOK).                          *)
(***************************************************************************)
EXTENDS Accounts, TLAPS

-----------------------------------------------------------------------------
(* The inductive invariant. *)

OneLivePerAddress(acc) ==
  \A a, b \in AccountIds :
    a # b /\ Live(a, acc) /\ Live(b, acc) => acc[a].email # acc[b].email

HeldNow(r, acc) == \A a \in AccountIds : Holds(a, r, acc) => a \in r.held

\* Which handler is where, with what.
ControlOK(r) ==
  /\ r.pc = "idle" => r.op = "none"
  /\ r.pc = "read" => r.op \in {"login", "changePassword"}
  /\ r.pc = "issue" => r.op \in {"register", "login"}
  /\ r.pc # "reply" => r.status = 0
  /\ r.op = "register" => r.email \in Emails /\ r.new \in Passwords
  /\ r.op = "changePassword" => r.email = Nothing /\ r.new \in Passwords

\* A row, once there, stays: the account a token names, or a login found.
NamesRow(r, acc) ==
  r.op \in {"updateMe", "changePassword", "deleteMe"} \/ r.pc = "issue" =>
    r.user \in AccountIds /\ acc[r.user] # Nothing

\* What was checked was so at the time.
CheckedOK(r) ==
  /\ r.op = "login" /\ (r.pc = "issue" \/ r.status = 200) => r.user \in r.held
  /\ r.op = "changePassword" /\ r.pc = "write" => r.user \in r.held
  /\ r.op = "changePassword" /\ r.status = 204 => r.took

ReqOK(r, acc) == ControlOK(r) /\ NamesRow(r, acc) /\ CheckedOK(r)

RequestsOK ==
  \A w \in Workers : ReqOK(req[w], accounts) /\ HeldNow(req[w], accounts)

IInv == TypeOK /\ OneLivePerAddress(accounts) /\ RequestsOK

-----------------------------------------------------------------------------
(* Records. *)

\* The parts of a request that make no difference to what it has checked.
SameCall(q, r) ==
  /\ q.op = r.op /\ q.email = r.email /\ q.given = r.given /\ q.new = r.new

LEMMA WitnessRecord ==
  ASSUME NEW r \in Requests, NEW acc
  PROVE  /\ Witness(r, acc) \in Requests
         /\ SameCall(Witness(r, acc), r)
         /\ Witness(r, acc).pc = r.pc /\ Witness(r, acc).user = r.user
         /\ Witness(r, acc).status = r.status
         /\ Witness(r, acc).held =
              r.held \cup {a \in AccountIds : Holds(a, r, acc)}
         /\ Witness(r, acc).took <=>
              \/ r.took
              \/ /\ r.op = "changePassword"
                 /\ acc[r.user].deleted \/ acc[r.user].password = r.new
<1>. DEFINE held == r.held \cup {a \in AccountIds : Holds(a, r, acc)}
            took == \/ r.took
                    \/ /\ r.op = "changePassword"
                       /\ acc[r.user].deleted \/ acc[r.user].password = r.new
            q == Witness(r, acc)
<1>1. held \in SUBSET AccountIds
  BY DEF Requests
<1>2. took \in BOOLEAN
  OBVIOUS
<1>3. q = [r EXCEPT !.held = held, !.took = took]
  BY Zenon DEF Witness
<1>. HIDE DEF held, took
<1>4. /\ q \in Requests /\ q.held = held /\ q.took = took
  BY <1>1, <1>2, <1>3 DEF Requests
<1>5. /\ q.op = r.op /\ q.email = r.email /\ q.given = r.given
      /\ q.new = r.new /\ q.pc = r.pc /\ q.user = r.user
      /\ q.status = r.status
  BY <1>3 DEF Requests
<1>6. q.took <=> took
  BY <1>4
<1>. QED BY <1>4, <1>5, <1>6 DEF SameCall, held, took

\* Witnessing a commit brings `held` up to date and forgets nothing.
LEMMA WitnessOK ==
  ASSUME NEW r \in Requests, NEW acc, ReqOK(r, acc)
  PROVE  /\ Witness(r, acc) \in Requests
         /\ ReqOK(Witness(r, acc), acc)
         /\ HeldNow(Witness(r, acc), acc)
<1>. DEFINE q == Witness(r, acc)
<1>1. /\ q \in Requests /\ SameCall(q, r)
      /\ q.pc = r.pc /\ q.user = r.user /\ q.status = r.status
      /\ q.held = r.held \cup {a \in AccountIds : Holds(a, r, acc)}
      /\ r.took => q.took
  BY WitnessRecord
<1>. HIDE DEF q
<1>2. ReqOK(q, acc)
  BY <1>1 DEF ReqOK, ControlOK, NamesRow, CheckedOK, SameCall
<1>3. HeldNow(q, acc)
  BY <1>1 DEF HeldNow, Holds, SameCall
<1>. QED BY <1>1, <1>2, <1>3 DEF q

LEMMA DoneRecord ==
  ASSUME NEW r \in Requests, NEW status \in Statuses
  PROVE  /\ Done(r, status) \in Requests
         /\ SameCall(Done(r, status), r)
         /\ Done(r, status).pc = "reply" /\ Done(r, status).status = status
         /\ Done(r, status).user = r.user /\ Done(r, status).held = r.held
         /\ Done(r, status).took = r.took
BY DEF Done, Requests, Pcs, SameCall

LEMMA IdleReqOK ==
  ASSUME NEW acc \in [AccountIds -> Rows \cup {Nothing}]
  PROVE  IdleReq \in Requests /\ ReqOK(IdleReq, acc) /\ HeldNow(IdleReq, acc)
<1>1. IdleReq \in Requests
  BY DEF IdleReq, Requests, Pcs, Statuses
<1>2. ReqOK(IdleReq, acc)
  BY DEF IdleReq, ReqOK, ControlOK, NamesRow, CheckedOK
<1>3. ASSUME NEW a \in AccountIds, Holds(a, IdleReq, acc)
      PROVE  FALSE
  <2>1. acc[a].password = Nothing
    BY <1>3 DEF Holds, IdleReq
  <2>2. acc[a] \in Rows
    BY <1>3 DEF Holds, Live
  <2>. QED BY <2>1, <2>2, AccountsAssumption DEF Rows
<1>. QED BY <1>1, <1>2, <1>3 DEF HeldNow

-----------------------------------------------------------------------------
(* What one step of one request preserves. *)

\* A step that writes no account.
LEMMA OneRequest ==
  ASSUME IInv, NEW w \in Workers, NEW q \in Requests,
         req' = [req EXCEPT ![w] = q], accounts' = accounts,
         tokens' \subseteq {a \in AccountIds : accounts[a] # Nothing},
         ReqOK(q, accounts), HeldNow(q, accounts)
  PROVE  IInv'
<1>1. /\ req' \in [Workers -> Requests]
      /\ req'[w] = q
      /\ \A o \in Workers \ {w} : req'[o] = req[o]
  BY DEF IInv, TypeOK
<1>2. TypeOK'
  BY <1>1 DEF IInv, TypeOK
<1>3. OneLivePerAddress(accounts)'
  BY DEF IInv, OneLivePerAddress, Live
<1>4. ASSUME NEW o \in Workers
      PROVE  ReqOK(req'[o], accounts') /\ HeldNow(req'[o], accounts')
  <2>1. CASE o = w
    BY <1>1, <2>1
  <2>2. CASE o # w
    BY <1>1, <2>2 DEF IInv, RequestsOK
  <2>. QED BY <2>1, <2>2
<1>5. RequestsOK'
  BY <1>4 DEF RequestsOK
<1>. QED BY <1>2, <1>3, <1>5 DEF IInv

LEMMA AnswerStep ==
  ASSUME IInv, NEW w \in Workers, NEW status \in Statuses,
         Answer(w, status), accounts' = accounts,
         tokens' \subseteq {a \in AccountIds : accounts[a] # Nothing},
         req[w].pc # "idle",
         req[w].op = "login" /\ status = 200 => req[w].user \in req[w].held,
         req[w].op = "changePassword" => status # 204
  PROVE  IInv'
<1>. DEFINE r == req[w]
            q == Done(r, status)
<1>1. r \in Requests /\ ReqOK(r, accounts) /\ HeldNow(r, accounts)
  BY DEF IInv, TypeOK, RequestsOK
<1>2. /\ q \in Requests /\ SameCall(q, r)
      /\ q.pc = "reply" /\ q.status = status
      /\ q.user = r.user /\ q.held = r.held
  BY <1>1, DoneRecord
<1>3. req' = [req EXCEPT ![w] = q]
  BY DEF Answer
<1>. HIDE DEF q
<1>4. ReqOK(q, accounts)
  BY <1>1, <1>2 DEF ReqOK, ControlOK, NamesRow, CheckedOK, SameCall
<1>5. HeldNow(q, accounts)
  BY <1>1, <1>2 DEF HeldNow, Holds, SameCall
<1>. QED BY <1>2, <1>3, <1>4, <1>5, OneRequest

\* A step that writes accounts: every request sees it.
LEMMA CommitStep ==
  ASSUME IInv, NEW w \in Workers,
         NEW acc \in [AccountIds -> Rows \cup {Nothing}],
         NEW next \in Requests, NEW failed \in Statuses \ {0, 200, 204},
         Commit(w, acc, next, failed), req[w].pc = "write",
         \A a \in AccountIds : accounts[a] # Nothing => acc[a] # Nothing,
         OneLivePerAddress(acc),
         ReqOK(Witness(next, acc), acc)
  PROVE  IInv'
<1>. DEFINE fail == Done(req[w], failed)
<1>1. PICK r \in {next, fail} :
        req' = [o \in Workers |-> Witness(IF o = w THEN r ELSE req[o], acc)]
  BY DEF Commit
<1>2. accounts' = acc /\ tokens' = tokens
  BY DEF Commit
<1>3. ASSUME NEW o \in Workers
      PROVE  req[o] \in Requests /\ ReqOK(req[o], acc)
  BY DEF IInv, TypeOK, RequestsOK, ReqOK, NamesRow
<1>4. fail \in Requests /\ ReqOK(fail, acc)
  <2>1. /\ fail \in Requests /\ SameCall(fail, req[w])
        /\ fail.pc = "reply" /\ fail.status = failed
        /\ fail.user = req[w].user /\ fail.held = req[w].held
    BY <1>3, DoneRecord
  <2>2. failed # 200 /\ failed # 204
    OBVIOUS
  <2>. HIDE DEF fail
  <2>. QED BY <1>3, <2>1, <2>2
           DEF ReqOK, ControlOK, NamesRow, CheckedOK, SameCall
<1>. HIDE DEF fail
<1>5. ASSUME NEW o \in Workers
      PROVE  /\ req'[o] \in Requests
             /\ ReqOK(req'[o], acc) /\ HeldNow(req'[o], acc)
  <2>1. CASE o # w
    <3>1. req'[o] = Witness(req[o], acc)
      BY <1>1, <2>1
    <3>. QED BY <1>3, <3>1, WitnessOK
  <2>2. CASE o = w /\ r = fail
    <3>1. req'[o] = Witness(fail, acc)
      BY <1>1, <2>2
    <3>. QED BY <1>4, <3>1, WitnessOK
  <2>3. CASE o = w /\ r = next
    <3>1. req'[o] = Witness(next, acc)
      BY <1>1, <2>3
    <3>2. Witness(next, acc) \in Requests
      BY WitnessRecord
    <3>3. HeldNow(Witness(next, acc), acc)
      <4>. DEFINE q == Witness(next, acc)
      <4>1. /\ SameCall(q, next)
            /\ q.held = next.held \cup {a \in AccountIds : Holds(a, next, acc)}
        BY WitnessRecord
      <4>. HIDE DEF q
      <4>2. HeldNow(q, acc)
        BY <4>1 DEF HeldNow, Holds, SameCall
      <4>. QED BY <4>2 DEF q
    <3>. QED BY <3>1, <3>2, <3>3
  <2>. QED BY <1>1, <2>1, <2>2, <2>3
<1>6. req' \in [Workers -> Requests]
  BY <1>1, <1>5
<1>7. TypeOK'
  BY <1>2, <1>6 DEF IInv, TypeOK
<1>8. OneLivePerAddress(accounts)'
  BY <1>2 DEF OneLivePerAddress, Live
<1>9. RequestsOK'
  BY <1>2, <1>5 DEF RequestsOK
<1>. QED BY <1>7, <1>8, <1>9 DEF IInv

-----------------------------------------------------------------------------
(* One lemma per action. *)

\* The requests that come in.
Asked ==
  [op : {"register"}, user : {Nothing}, email : Emails,
   given : {Nothing}, new : Passwords] \cup
  [op : {"login"}, user : {Nothing}, email : Emails,
   given : Passwords, new : {Nothing}] \cup
  [op : {"updateMe"}, user : tokens, email : Emails \cup {Nothing},
   given : {Nothing}, new : {Nothing}] \cup
  [op : {"changePassword"}, user : tokens, email : {Nothing},
   given : Passwords, new : Passwords] \cup
  [op : {"deleteMe"}, user : tokens, email : {Nothing},
   given : {Nothing}, new : {Nothing}]

LEMMA AskedFields ==
  ASSUME NEW x \in Asked
  PROVE  /\ x.op \in Ops /\ x.user \in tokens \cup {Nothing}
         /\ x.email \in Emails \cup {Nothing}
         /\ x.given \in Passwords \cup {Nothing}
         /\ x.new \in Passwords \cup {Nothing}
         /\ x.op \in {"updateMe", "changePassword", "deleteMe"} =>
              x.user \in tokens
         /\ x.op = "register" => x.email \in Emails /\ x.new \in Passwords
         /\ x.op = "changePassword" => x.email = Nothing /\ x.new \in Passwords
<1>1. CASE x \in [op : {"register"}, user : {Nothing}, email : Emails,
                  given : {Nothing}, new : Passwords]
  BY <1>1 DEF Ops
<1>2. CASE x \in [op : {"login"}, user : {Nothing}, email : Emails,
                  given : Passwords, new : {Nothing}]
  BY <1>2 DEF Ops
<1>3. CASE x \in [op : {"updateMe"}, user : tokens, email : Emails \cup {Nothing},
                  given : {Nothing}, new : {Nothing}]
  BY <1>3 DEF Ops
<1>4. CASE x \in [op : {"changePassword"}, user : tokens, email : {Nothing},
                  given : Passwords, new : Passwords]
  BY <1>4 DEF Ops
<1>5. CASE x \in [op : {"deleteMe"}, user : tokens, email : {Nothing},
                  given : {Nothing}, new : {Nothing}]
  BY <1>5 DEF Ops
<1>. QED BY Zenon, <1>1, <1>2, <1>3, <1>4, <1>5 DEF Asked

LEMMA ReceiveStep ==
  ASSUME IInv, NEW w \in Workers, Receive(w)
  PROVE  IInv'
<1>1. PICK x \in Asked :
        req' = [req EXCEPT ![w] = Witness(
                 [IdleReq EXCEPT !.pc = IF x.op \in {"login", "changePassword"}
                                          THEN "read" ELSE "write",
                                 !.op = x.op, !.user = x.user,
                                 !.email = x.email, !.given = x.given,
                                 !.new = x.new], accounts)]
  BY Zenon DEF Receive, Asked
<1>. DEFINE pc == IF x.op \in {"login", "changePassword"} THEN "read" ELSE "write"
            r  == [IdleReq EXCEPT !.pc = pc, !.op = x.op, !.user = x.user,
                                  !.email = x.email, !.given = x.given,
                                  !.new = x.new]
<1>2. UNCHANGED <<accounts, tokens>>
  BY DEF Receive
<1>3. /\ tokens \subseteq AccountIds
      /\ \A a \in tokens : accounts[a] # Nothing
  BY DEF IInv, TypeOK
<1>4. pc \in Pcs /\ pc \in {"read", "write"}
      /\ (pc = "read" <=> x.op \in {"login", "changePassword"})
  BY DEF Pcs
<1>7. req' = [req EXCEPT ![w] = Witness(r, accounts)]
  BY <1>1
<1>. HIDE DEF pc
<1>5. /\ r \in Requests
      /\ r.pc = pc /\ r.op = x.op /\ r.user = x.user /\ r.email = x.email
      /\ r.new = x.new /\ r.status = 0
  <2>1. x.user \in AccountIds \cup {Nothing} /\ x.op \in Ops \cup {"none"}
    BY <1>3, AskedFields
  <2>2. IdleReq \in Requests /\ IdleReq.status = 0
    BY IdleReqOK DEF IdleReq, IInv, TypeOK
  <2>. QED BY <1>4, <2>1, <2>2, AskedFields DEF Requests
<1>. HIDE DEF r
<1>6. ReqOK(r, accounts)
  <2>1. r.pc \in {"read", "write"} /\ (r.pc = "read" <=> r.op \in {"login", "changePassword"})
    BY <1>4, <1>5
  <2>. QED BY <1>3, <1>5, <2>1, AskedFields
              DEF ReqOK, ControlOK, NamesRow, CheckedOK
<1>. QED BY <1>2, <1>3, <1>5, <1>6, <1>7, WitnessOK, OneRequest

\* An address nobody live has may be given to one account.
LEMMA AddressFree ==
  ASSUME IInv, NEW a \in AccountIds, NEW row \in Rows, ~ EmailTaken(row.email, a)
  PROVE  /\ [accounts EXCEPT ![a] = row] \in [AccountIds -> Rows \cup {Nothing}]
         /\ \A b \in AccountIds :
              accounts[b] # Nothing => [accounts EXCEPT ![a] = row][b] # Nothing
         /\ [accounts EXCEPT ![a] = row][a] = row /\ row # Nothing
         /\ OneLivePerAddress([accounts EXCEPT ![a] = row])
<1>. DEFINE acc == [accounts EXCEPT ![a] = row]
<1>1. /\ acc \in [AccountIds -> Rows \cup {Nothing}]
      /\ acc[a] = row /\ \A b \in AccountIds \ {a} : acc[b] = accounts[b]
      /\ row # Nothing
  BY AccountsAssumption DEF IInv, TypeOK
<1>. HIDE DEF acc
<1>2. OneLivePerAddress(acc)
  BY <1>1 DEF OneLivePerAddress, Live, EmailTaken, IInv
<1>. QED BY <1>1, <1>2 DEF acc

LEMMA CreateUserStep ==
  ASSUME IInv, NEW w \in Workers, CreateUser(w)
  PROVE  IInv'
<1>. DEFINE r == req[w]
<1>1. r.pc = "write" /\ r.op = "register"
  BY DEF CreateUser
<1>2. r \in Requests /\ ReqOK(r, accounts)
  BY DEF IInv, TypeOK, RequestsOK
<1>3. CASE Answer(w, 409) /\ UNCHANGED <<accounts, tokens>>
  <2>1. tokens' \subseteq {a \in AccountIds : accounts[a] # Nothing}
    BY <1>3 DEF IInv, TypeOK
  <2>. QED BY <1>1, <1>3, <2>1, AnswerStep DEF Statuses
<1>4. ASSUME ~ EmailTaken(r.email, Nothing),
             NEW a \in AccountIds, accounts[a] = Nothing,
             Commit(w, [accounts EXCEPT ![a] =
                          [email |-> r.email, password |-> r.new,
                           deleted |-> FALSE]],
                    [r EXCEPT !.pc = "issue", !.user = a], 503)
      PROVE  IInv'
  <2>. DEFINE row  == [email |-> r.email, password |-> r.new, deleted |-> FALSE]
              acc  == [accounts EXCEPT ![a] = row]
              next == [r EXCEPT !.pc = "issue", !.user = a]
  <2>1. row \in Rows /\ row.email = r.email
    BY <1>1, <1>2 DEF ReqOK, ControlOK, Rows
  <2>2. ~ EmailTaken(row.email, a)
    BY <1>4, <2>1, AccountsAssumption DEF EmailTaken
  <2>. HIDE DEF row
  <2>3. /\ acc \in [AccountIds -> Rows \cup {Nothing}]
        /\ \A b \in AccountIds : accounts[b] # Nothing => acc[b] # Nothing
        /\ acc[a] # Nothing
        /\ OneLivePerAddress(acc)
    BY <2>1, <2>2, AddressFree
  <2>. HIDE DEF acc
  <2>4. /\ next \in Requests /\ SameCall(next, r)
        /\ next.pc = "issue" /\ next.user = a /\ next.status = r.status
    BY <1>2 DEF Requests, Pcs, SameCall
  <2>5. Commit(w, acc, next, 503)
    BY <1>4 DEF acc, row
  <2>. HIDE DEF next
  <2>6. ReqOK(next, acc)
    BY <1>1, <1>2, <2>3, <2>4
       DEF ReqOK, ControlOK, NamesRow, CheckedOK, SameCall
  <2>7. ReqOK(Witness(next, acc), acc)
    BY <2>4, <2>6, WitnessOK
  <2>8. 503 \in Statuses \ {0, 200, 204}
    BY DEF Statuses
  <2>. QED BY <1>1, <2>3, <2>4, <2>5, <2>7, <2>8, CommitStep
<1>. QED BY <1>3, <1>4 DEF CreateUser

\* A login found the account live, under that address and with that password.
LEMMA LoginStep ==
  ASSUME IInv, NEW w \in Workers, Login(w)
  PROVE  IInv'
<1>. DEFINE r == req[w]
            found == {a \in GetUserByEmail(r.email) :
                        accounts[a].password = r.given}
<1>1. r.pc = "read" /\ r.op = "login" /\ UNCHANGED <<accounts, tokens>>
  BY DEF Login
<1>2. r \in Requests /\ ReqOK(r, accounts) /\ HeldNow(r, accounts)
  BY DEF IInv, TypeOK, RequestsOK
<1>3. tokens' \subseteq {a \in AccountIds : accounts[a] # Nothing}
  BY <1>1 DEF IInv, TypeOK
<1>4. CASE Answer(w, 401)
  BY <1>1, <1>3, <1>4, AnswerStep DEF Statuses
<1>5. ASSUME NEW a \in found,
             req' = [req EXCEPT ![w].user = a, ![w].pc = "issue"]
      PROVE  IInv'
  <2>. DEFINE q == [r EXCEPT !.user = a, !.pc = "issue"]
  <2>1. a \in AccountIds /\ Holds(a, r, accounts)
    BY DEF GetUserByEmail, Holds
  <2>2. a \in r.held /\ accounts[a] # Nothing
    BY <1>2, <2>1 DEF HeldNow, Holds, Live
  <2>3. /\ q \in Requests /\ SameCall(q, r)
        /\ q.pc = "issue" /\ q.user = a /\ q.status = r.status
        /\ q.held = r.held
    BY <1>2, <2>1 DEF Requests, Pcs, SameCall
  <2>4. req' = [req EXCEPT ![w] = q]
    BY <1>5
  <2>. HIDE DEF q
  <2>5. ReqOK(q, accounts)
    BY <1>1, <1>2, <2>1, <2>2, <2>3
       DEF ReqOK, ControlOK, NamesRow, CheckedOK, SameCall
  <2>6. HeldNow(q, accounts)
    BY <1>2, <2>3 DEF HeldNow, Holds, SameCall
  <2>. QED BY <1>1, <1>3, <2>3, <2>4, <2>5, <2>6, OneRequest
<1>. QED BY <1>4, <1>5 DEF Login

LEMMA IssueStep ==
  ASSUME IInv, NEW w \in Workers, Issue(w)
  PROVE  IInv'
<1>1. /\ req[w].pc = "issue" /\ Answer(w, 200) /\ accounts' = accounts
      /\ tokens' = tokens \cup {req[w].user}
  BY DEF Issue
<1>2. ReqOK(req[w], accounts)
  BY DEF IInv, RequestsOK
<1>3. tokens' \subseteq {a \in AccountIds : accounts[a] # Nothing}
  BY <1>1, <1>2 DEF IInv, TypeOK, ReqOK, NamesRow
<1>4. req[w].op = "login" => req[w].user \in req[w].held
  BY <1>1, <1>2 DEF ReqOK, CheckedOK
<1>. QED BY <1>1, <1>3, <1>4, AnswerStep DEF Statuses

LEMMA ExpireStep ==
  ASSUME IInv, NEW a \in AccountIds, Expire(a)
  PROVE  IInv'
BY DEF Expire, IInv, TypeOK, OneLivePerAddress, Live, RequestsOK, HeldNow,
       Holds, ReqOK, NamesRow

\* The row a request's account has, live or dead.
LEMMA OwnRow ==
  ASSUME IInv, NEW w \in Workers,
         req[w].op \in {"updateMe", "changePassword", "deleteMe"}
  PROVE  req[w].user \in AccountIds /\ accounts[req[w].user] \in Rows
BY DEF IInv, TypeOK, RequestsOK, ReqOK, NamesRow

\* An answer to whoever writes its own row: the call is over.
LEMMA DoneOK ==
  ASSUME IInv, NEW w \in Workers, req[w].pc = "write",
         req[w].op \in {"updateMe", "deleteMe"},
         NEW acc, acc[req[w].user] # Nothing, NEW status \in Statuses
  PROVE  /\ Done(req[w], status) \in Requests
         /\ ReqOK(Witness(Done(req[w], status), acc), acc)
<1>. DEFINE r == req[w]
            q == Done(r, status)
<1>1. r \in Requests /\ ReqOK(r, accounts)
  BY DEF IInv, TypeOK, RequestsOK
<1>2. /\ q \in Requests /\ SameCall(q, r)
      /\ q.pc = "reply" /\ q.user = r.user
  BY <1>1, DoneRecord
<1>. HIDE DEF q
<1>3. ReqOK(q, acc)
  BY <1>1, <1>2 DEF ReqOK, ControlOK, NamesRow, CheckedOK, SameCall
<1>4. ReqOK(Witness(q, acc), acc)
  BY <1>2, <1>3, WitnessOK
<1>. QED BY <1>2, <1>4 DEF q

LEMMA UpdateUserProfileStep ==
  ASSUME IInv, NEW w \in Workers, UpdateUserProfile(w)
  PROVE  IInv'
<1>. DEFINE r == req[w]
            e == IF r.email = Nothing THEN accounts[r.user].email ELSE r.email
<1>1. r.pc = "write" /\ r.op = "updateMe"
  BY DEF UpdateUserProfile
<1>2. ASSUME NEW status \in {401, 409}, Answer(w, status),
             UNCHANGED <<accounts, tokens>>
      PROVE  IInv'
  <2>1. tokens' \subseteq {a \in AccountIds : accounts[a] # Nothing}
    BY <1>2 DEF IInv, TypeOK
  <2>. QED BY <1>1, <1>2, <2>1, AnswerStep DEF Statuses
<1>3. CASE /\ Live(r.user, accounts) /\ ~ EmailTaken(e, r.user)
           /\ Commit(w, [accounts EXCEPT ![r.user].email = e],
                     Done(r, 200), 503)
  <2>. DEFINE row == [accounts[r.user] EXCEPT !.email = e]
              acc == [accounts EXCEPT ![r.user] = row]
  <2>1. r.user \in AccountIds /\ accounts[r.user] \in Rows /\ r \in Requests
    BY <1>1, OwnRow DEF IInv, TypeOK
  <2>2. e \in Emails
    BY <2>1 DEF Rows, Requests
  <2>. HIDE DEF e
  <2>3. row \in Rows /\ row.email = e
    BY <2>1, <2>2 DEF Rows
  <2>4. [accounts EXCEPT ![r.user].email = e] = acc
    OBVIOUS
  <2>. HIDE DEF row
  <2>5. /\ acc \in [AccountIds -> Rows \cup {Nothing}]
        /\ \A b \in AccountIds : accounts[b] # Nothing => acc[b] # Nothing
        /\ acc[r.user] # Nothing
        /\ OneLivePerAddress(acc)
    BY <1>3, <2>1, <2>3, AddressFree
  <2>. HIDE DEF acc
  <2>6. Commit(w, acc, Done(r, 200), 503)
    BY <1>3, <2>4
  <2>7. 200 \in Statuses /\ 503 \in Statuses \ {0, 200, 204}
    BY DEF Statuses
  <2>8. /\ Done(r, 200) \in Requests
        /\ ReqOK(Witness(Done(r, 200), acc), acc)
    BY <1>1, <2>5, <2>7, DoneOK
  <2>. QED BY <1>1, <2>5, <2>6, <2>7, <2>8, CommitStep
<1>. QED BY <1>2, <1>3 DEF UpdateUserProfile

\* The password presented was the account's when it was read.
LEMMA ReadPasswordStep ==
  ASSUME IInv, NEW w \in Workers, ReadPassword(w)
  PROVE  IInv'
<1>. DEFINE r == req[w]
            q == [r EXCEPT !.pc = "write"]
<1>1. /\ r.pc = "read" /\ r.op = "changePassword"
      /\ UNCHANGED <<accounts, tokens>>
  BY DEF ReadPassword
<1>2. r \in Requests /\ ReqOK(r, accounts) /\ HeldNow(r, accounts)
  BY DEF IInv, TypeOK, RequestsOK
<1>3. tokens' \subseteq {a \in AccountIds : accounts[a] # Nothing}
  BY <1>1 DEF IInv, TypeOK
<1>4. ASSUME NEW status \in {401, 403}, Answer(w, status)
      PROVE  IInv'
  BY <1>1, <1>3, <1>4, AnswerStep DEF Statuses
<1>5. CASE /\ Live(r.user, accounts) /\ accounts[r.user].password = r.given
           /\ Goto(w, "write")
  <2>1. r.user \in AccountIds /\ r.email = Nothing
    BY <1>1, <1>2 DEF ReqOK, NamesRow, ControlOK
  <2>2. r.user \in r.held
    BY <1>2, <1>5, <2>1 DEF HeldNow, Holds
  <2>3. /\ q \in Requests /\ SameCall(q, r)
        /\ q.pc = "write" /\ q.user = r.user /\ q.status = r.status
        /\ q.held = r.held
    BY <1>2 DEF Requests, Pcs, SameCall
  <2>4. req' = [req EXCEPT ![w] = q]
    BY <1>5 DEF Goto
  <2>. HIDE DEF q
  <2>5. ReqOK(q, accounts)
    BY <1>1, <1>2, <2>2, <2>3
       DEF ReqOK, ControlOK, NamesRow, CheckedOK, SameCall
  <2>6. HeldNow(q, accounts)
    BY <1>2, <2>3 DEF HeldNow, Holds, SameCall
  <2>. QED BY <1>1, <1>3, <2>3, <2>4, <2>5, <2>6, OneRequest
<1>. QED BY <1>4, <1>5 DEF ReadPassword

\* A row that keeps its address and is no more alive than it was.
LEMMA RowRewritten ==
  ASSUME IInv, NEW a \in AccountIds, NEW row \in Rows, accounts[a] # Nothing,
         row.email = accounts[a].email, accounts[a].deleted => row.deleted
  PROVE  /\ [accounts EXCEPT ![a] = row] \in [AccountIds -> Rows \cup {Nothing}]
         /\ \A b \in AccountIds :
              accounts[b] # Nothing => [accounts EXCEPT ![a] = row][b] # Nothing
         /\ [accounts EXCEPT ![a] = row][a] = row /\ row # Nothing
         /\ OneLivePerAddress([accounts EXCEPT ![a] = row])
<1>. DEFINE acc == [accounts EXCEPT ![a] = row]
<1>1. /\ acc \in [AccountIds -> Rows \cup {Nothing}]
      /\ acc[a] = row /\ \A b \in AccountIds \ {a} : acc[b] = accounts[b]
      /\ row # Nothing
  BY AccountsAssumption DEF IInv, TypeOK
<1>. HIDE DEF acc
<1>2. OneLivePerAddress(acc)
  BY <1>1 DEF OneLivePerAddress, Live, IInv
<1>. QED BY <1>1, <1>2 DEF acc

LEMMA UpdateUserPasswordStep ==
  ASSUME IInv, NEW w \in Workers, UpdateUserPassword(w)
  PROVE  IInv'
<1>. DEFINE r    == req[w]
            row  == [accounts[r.user] EXCEPT !.password = r.new]
            acc  == IF Live(r.user, accounts)
                      THEN [accounts EXCEPT ![r.user] = row] ELSE accounts
            next == Done(r, 204)
<1>1. r.pc = "write" /\ r.op = "changePassword"
  BY DEF UpdateUserPassword
<1>2. r \in Requests /\ ReqOK(r, accounts)
  BY DEF IInv, TypeOK, RequestsOK
<1>3. /\ r.user \in AccountIds /\ accounts[r.user] \in Rows
      /\ accounts[r.user] # Nothing /\ r.new \in Passwords
  BY <1>1, <1>2, OwnRow, AccountsAssumption DEF ReqOK, ControlOK
<1>4. Commit(w, acc, next, 503)
  BY DEF UpdateUserPassword
<1>5. /\ row \in Rows /\ row.email = accounts[r.user].email
      /\ row.password = r.new
  BY <1>3 DEF Rows
<1>6. row.deleted = accounts[r.user].deleted
  BY <1>3, Zenon DEF Rows
<1>. HIDE DEF row
<1>7. /\ acc \in [AccountIds -> Rows \cup {Nothing}]
      /\ \A b \in AccountIds : accounts[b] # Nothing => acc[b] # Nothing
      /\ OneLivePerAddress(acc)
      /\ acc[r.user].deleted \/ acc[r.user].password = r.new
  <2>1. CASE Live(r.user, accounts)
    <3>1. /\ acc = [accounts EXCEPT ![r.user] = row]
          /\ accounts[r.user].deleted => row.deleted
      BY <1>6, <2>1
    <3>. HIDE DEF acc
    <3>. QED BY <1>3, <1>5, <3>1, RowRewritten
  <2>2. CASE ~ Live(r.user, accounts)
    BY <1>3, <2>2 DEF Live, IInv, TypeOK
  <2>. QED BY <2>1, <2>2
<1>. HIDE DEF acc
<1>8. 204 \in Statuses /\ 503 \in Statuses \ {0, 200, 204}
  BY DEF Statuses
<1>9. /\ next \in Requests /\ SameCall(next, r)
      /\ next.pc = "reply" /\ next.user = r.user
  BY <1>2, <1>8, DoneRecord
<1>. HIDE DEF next
<1>10. ReqOK(Witness(next, acc), acc)
  <2>. DEFINE q == Witness(next, acc)
  <2>1. /\ SameCall(q, next) /\ q.pc = next.pc /\ q.user = next.user
        /\ q.took <=> \/ next.took
                      \/ /\ next.op = "changePassword"
                         /\ \/ acc[next.user].deleted
                            \/ acc[next.user].password = next.new
    BY <1>9, WitnessRecord
  <2>2. q.took
    BY <1>1, <1>7, <1>9, <2>1 DEF SameCall
  <2>. HIDE DEF q
  <2>3. ReqOK(q, acc)
    BY <1>1, <1>2, <1>7, <1>9, <2>1, <2>2
       DEF ReqOK, ControlOK, NamesRow, CheckedOK, SameCall
  <2>. QED BY <2>3 DEF q
<1>. QED BY <1>1, <1>4, <1>7, <1>8, <1>9, <1>10, CommitStep

LEMMA SoftDeleteUserStep ==
  ASSUME IInv, NEW w \in Workers, SoftDeleteUser(w)
  PROVE  IInv'
<1>. DEFINE r == req[w]
<1>1. r.pc = "write" /\ r.op = "deleteMe"
  BY DEF SoftDeleteUser
<1>2. CASE Answer(w, 401) /\ UNCHANGED <<accounts, tokens>>
  <2>1. tokens' \subseteq {a \in AccountIds : accounts[a] # Nothing}
    BY <1>2 DEF IInv, TypeOK
  <2>. QED BY <1>1, <1>2, <2>1, AnswerStep DEF Statuses
<1>3. CASE Commit(w, [accounts EXCEPT ![r.user].deleted = TRUE],
                  Done(r, 204), 401)
  <2>. DEFINE row == [accounts[r.user] EXCEPT !.deleted = TRUE]
              acc == [accounts EXCEPT ![r.user] = row]
  <2>1. /\ r.user \in AccountIds /\ accounts[r.user] \in Rows
        /\ accounts[r.user] # Nothing
    BY <1>1, OwnRow, AccountsAssumption
  <2>2. row \in Rows /\ row.email = accounts[r.user].email
    BY <2>1 DEF Rows
  <2>3. row.deleted
    BY <2>1, Zenon DEF Rows
  <2>4. [accounts EXCEPT ![r.user].deleted = TRUE] = acc
    OBVIOUS
  <2>. HIDE DEF row
  <2>5. /\ acc \in [AccountIds -> Rows \cup {Nothing}]
        /\ \A b \in AccountIds : accounts[b] # Nothing => acc[b] # Nothing
        /\ acc[r.user] # Nothing
        /\ OneLivePerAddress(acc)
    BY <2>1, <2>2, <2>3, RowRewritten
  <2>. HIDE DEF acc
  <2>6. Commit(w, acc, Done(r, 204), 401)
    BY <1>3, <2>4
  <2>7. 204 \in Statuses /\ 401 \in Statuses \ {0, 200, 204}
    BY DEF Statuses
  <2>8. /\ Done(r, 204) \in Requests
        /\ ReqOK(Witness(Done(r, 204), acc), acc)
    BY <1>1, <2>5, <2>7, DoneOK
  <2>. QED BY <1>1, <2>5, <2>6, <2>7, <2>8, CommitStep
<1>. QED BY <1>2, <1>3 DEF SoftDeleteUser

LEMMA StatementFailsStep ==
  ASSUME IInv, NEW w \in Workers, StatementFails(w)
  PROVE  IInv'
<1>1. PICK status \in {401, 503} : Answer(w, status)
  BY DEF StatementFails
<1>2. /\ req[w].pc \in {"read", "write"} /\ accounts' = accounts
      /\ tokens' \subseteq {a \in AccountIds : accounts[a] # Nothing}
  BY DEF StatementFails, IInv, TypeOK
<1>. QED BY <1>1, <1>2, AnswerStep DEF Statuses

LEMMA RespondStep ==
  ASSUME IInv, NEW w \in Workers, Respond(w)
  PROVE  IInv'
<1>1. /\ req' = [req EXCEPT ![w] = IdleReq] /\ accounts' = accounts
      /\ tokens' \subseteq {a \in AccountIds : accounts[a] # Nothing}
      /\ accounts \in [AccountIds -> Rows \cup {Nothing}]
  BY DEF Respond, IInv, TypeOK
<1>. QED BY <1>1, IdleReqOK, OneRequest

-----------------------------------------------------------------------------
(* The invariant. *)

LEMMA InvInit == Init => IInv
<1>. SUFFICES ASSUME Init PROVE IInv
  OBVIOUS
<1>1. /\ \A w \in Workers : req[w] = IdleReq
      /\ accounts \in [AccountIds -> Rows \cup {Nothing}]
  BY DEF Init
<1>2. TypeOK
  BY <1>1, IdleReqOK DEF Init, TypeOK
<1>3. OneLivePerAddress(accounts)
  BY DEF Init, OneLivePerAddress, Live
<1>4. RequestsOK
  BY <1>1, IdleReqOK DEF RequestsOK
<1>. QED BY <1>2, <1>3, <1>4 DEF IInv

LEMMA InvStep == IInv /\ [Next]_vars => IInv'
<1>. SUFFICES ASSUME IInv, [Next]_vars PROVE IInv'
  OBVIOUS
<1>1. ASSUME NEW w \in Workers,
             \/ Receive(w) \/ CreateUser(w) \/ Login(w) \/ Issue(w)
             \/ UpdateUserProfile(w) \/ ReadPassword(w) \/ UpdateUserPassword(w)
             \/ SoftDeleteUser(w) \/ StatementFails(w) \/ Respond(w)
      PROVE  IInv'
  BY <1>1, ReceiveStep, CreateUserStep, LoginStep, IssueStep,
     UpdateUserProfileStep, ReadPasswordStep, UpdateUserPasswordStep,
     SoftDeleteUserStep, StatementFailsStep, RespondStep
<1>2. ASSUME NEW a \in AccountIds, Expire(a) PROVE IInv'
  BY <1>2, ExpireStep
<1>3. CASE UNCHANGED vars
  BY <1>3 DEF vars, IInv, TypeOK, OneLivePerAddress, Live, RequestsOK, HeldNow,
              Holds, ReqOK, NamesRow
<1>. QED BY <1>1, <1>2, <1>3 DEF Next

\* The inductive invariant holds in every reachable state.
THEOREM Invariance == Spec => []IInv
BY InvInit, InvStep, PTL DEF Spec

\* Every reachable state is well typed, however many accounts and requests.
THEOREM TypeCorrect == Spec => []TypeOK
<1>1. IInv => TypeOK
  BY DEF IInv
<1>. QED BY <1>1, Invariance, PTL

\* Two live accounts never share an address.
THEOREM AddressesApart == Spec => []OneLiveAccount
<1>1. IInv => OneLiveAccount
  BY DEF IInv, OneLivePerAddress, OneLiveAccount
<1>. QED BY <1>1, Invariance, PTL

\* A login's token is for an account that was live, with that address and that
\* password, while the request was served.
THEOREM LoginsOpenOwn == Spec => []LoginOpensOwnAccount
<1>1. IInv => LoginOpensOwnAccount
  BY DEF IInv, RequestsOK, ReqOK, CheckedOK, LoginOpensOwnAccount
<1>. QED BY <1>1, Invariance, PTL

\* A password change answered 204 took effect, unless its account was deleted.
THEOREM ChangesTake == Spec => []AnsweredChangeTook
<1>1. IInv => AnsweredChangeTook
  BY DEF IInv, RequestsOK, ReqOK, CheckedOK, AnsweredChangeTook
<1>. QED BY <1>1, Invariance, PTL

-----------------------------------------------------------------------------
(* What a step may do to a row: create it, or rewrite a live one. *)

\* A password is replaced for a request that presented one the account had.
Presented(a) ==
  \E w \in Workers :
    /\ req[w].pc = "write" /\ req'[w].pc = "reply"
    /\ req[w].op = "changePassword" /\ req[w].user = a
    /\ a \in req[w].held

RowMove(a) ==
  \/ accounts'[a] = accounts[a]
  \/ accounts[a] = Nothing
  \/ /\ Live(a, accounts)
     /\ accounts'[a].password = accounts[a].password \/ Presented(a)

\* One row is rewritten at a time.
LEMMA OneRowMoves ==
  ASSUME IInv, NEW b \in AccountIds, NEW row,
         accounts' = [accounts EXCEPT ![b] = row],
         \/ accounts[b] = Nothing
         \/ /\ Live(b, accounts)
            /\ row.password = accounts[b].password \/ Presented(b)
  PROVE  \A a \in AccountIds : RowMove(a)
<1>1. /\ accounts'[b] = row
      /\ \A a \in AccountIds \ {b} : accounts'[a] = accounts[a]
  BY DEF IInv, TypeOK
<1>2. RowMove(b)
  BY <1>1 DEF RowMove
<1>3. \A a \in AccountIds \ {b} : RowMove(a)
  BY <1>1 DEF RowMove
<1>. QED BY <1>2, <1>3

LEMMA PasswordPresented ==
  ASSUME IInv, NEW w \in Workers, UpdateUserPassword(w)
  PROVE  Presented(req[w].user)
<1>. DEFINE r == req[w]
            acc == IF Live(r.user, accounts)
                     THEN [accounts EXCEPT ![r.user].password = r.new]
                     ELSE accounts
<1>1. /\ r.pc = "write" /\ r.op = "changePassword"
      /\ Commit(w, acc, Done(r, 204), 503)
  BY DEF UpdateUserPassword
<1>. HIDE DEF acc
<1>2. r \in Requests /\ r.user \in r.held
  BY <1>1 DEF IInv, TypeOK, RequestsOK, ReqOK, CheckedOK
<1>3. PICK status \in {204, 503} : req'[w] = Witness(Done(r, status), acc)
  BY <1>1 DEF Commit
<1>4. Done(r, status) \in Requests /\ Done(r, status).pc = "reply"
  BY <1>2, DoneRecord DEF Statuses
<1>5. req'[w].pc = "reply"
  BY <1>3, <1>4, WitnessRecord
<1>. QED BY <1>1, <1>2, <1>5 DEF Presented

LEMMA RowsMove ==
  ASSUME IInv, [Next]_vars
  PROVE  \A a \in AccountIds : RowMove(a)
<1>1. CASE UNCHANGED accounts
  BY <1>1 DEF RowMove
<1>2. ASSUME NEW w \in Workers, CreateUser(w), accounts' # accounts
      PROVE  \A a \in AccountIds : RowMove(a)
  <2>1. PICK b \in AccountIds :
          /\ accounts[b] = Nothing
          /\ accounts' = [accounts EXCEPT ![b] =
                            [email |-> req[w].email, password |-> req[w].new,
                             deleted |-> FALSE]]
    BY <1>2 DEF CreateUser, Commit
  <2>. QED BY <2>1, OneRowMoves
<1>3. ASSUME NEW w \in Workers, accounts' # accounts,
             UpdateUserProfile(w) \/ SoftDeleteUser(w) \/ UpdateUserPassword(w)
      PROVE  \A a \in AccountIds : RowMove(a)
  <2>. DEFINE b == req[w].user
              e == IF req[w].email = Nothing THEN accounts[b].email
                                             ELSE req[w].email
  <2>1. req[w].op \in {"updateMe", "changePassword", "deleteMe"}
    BY <1>3 DEF UpdateUserProfile, SoftDeleteUser, UpdateUserPassword
  <2>2. b \in AccountIds /\ accounts[b] \in Rows
    BY <2>1, OwnRow
  <2>3. CASE UpdateUserProfile(w)
    <3>1. /\ Live(b, accounts)
          /\ accounts' = [accounts EXCEPT ![b] = [accounts[b] EXCEPT !.email = e]]
      BY <1>3, <2>3 DEF UpdateUserProfile, Commit
    <3>2. [accounts[b] EXCEPT !.email = e].password = accounts[b].password
      BY <2>2 DEF Rows
    <3>. QED BY <2>2, <3>1, <3>2, OneRowMoves
  <2>4. CASE SoftDeleteUser(w)
    <3>1. /\ Live(b, accounts)
          /\ accounts' = [accounts EXCEPT ![b] =
                            [accounts[b] EXCEPT !.deleted = TRUE]]
      BY <1>3, <2>4 DEF SoftDeleteUser, Commit
    <3>2. [accounts[b] EXCEPT !.deleted = TRUE].password = accounts[b].password
      BY <2>2 DEF Rows
    <3>. QED BY <2>2, <3>1, <3>2, OneRowMoves
  <2>5. CASE UpdateUserPassword(w)
    <3>1. /\ Live(b, accounts)
          /\ accounts' = [accounts EXCEPT ![b] =
                            [accounts[b] EXCEPT !.password = req[w].new]]
      BY <1>3, <2>5 DEF UpdateUserPassword, Commit
    <3>2. Presented(b)
      BY <2>5, PasswordPresented
    <3>. QED BY <2>2, <3>1, <3>2, OneRowMoves
  <2>. QED BY <1>3, <2>3, <2>4, <2>5
<1>. QED
  BY <1>1, <1>2, <1>3
     DEF Next, vars, Receive, Login, Issue, ReadPassword, StatementFails,
         Respond, Expire

\* A deleted account's row never changes again.
THEOREM TombstonesStay == Spec => TombstonesFrozen
<1>1. IInv /\ [Next]_vars =>
        [\A a \in AccountIds :
           accounts[a] # Nothing /\ accounts[a].deleted =>
             accounts'[a] = accounts[a]]_accounts
  BY RowsMove DEF RowMove, Live
<1>. QED BY <1>1, Invariance, PTL DEF Spec, TombstonesFrozen

\* A token alone changes no password.
THEOREM PasswordsArePresented == Spec => TokenAloneChangesNothing
<1>1. IInv /\ [Next]_vars =>
        [\A a \in AccountIds :
           /\ accounts[a] # Nothing
           /\ accounts'[a].password # accounts[a].password
           => \E w \in Workers :
                /\ req[w].pc = "write" /\ req'[w].pc = "reply"
                /\ req[w].op = "changePassword" /\ req[w].user = a
                /\ a \in req[w].held]_accounts
  BY RowsMove DEF RowMove, Presented
<1>. QED BY <1>1, Invariance, PTL DEF Spec, TokenAloneChangesNothing
=============================================================================
