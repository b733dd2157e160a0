-------------------------- MODULE NotesRefinement --------------------------
(***************************************************************************)
(* The note handlers implement NoteHistory, for every set of notes, users, *)
(* request goroutines and contents: each of their steps is, under the      *)
(* mapping of module Notes, a step of the call it serves or no step at     *)
(* all.  What a mapped step needs of the state (that a row is the last     *)
(* state of its log, under its length) is the invariant of NotesProofs.    *)
(***************************************************************************)
EXTENDS NotesProofs

-----------------------------------------------------------------------------
(* The mapping. *)

\* The calls as NoteHistory sees them.
Calls == [w \in Workers |-> CallOf(req[w])]

LEMMA SameContent ==
  /\ History!States = States /\ History!NoPatch = NoPatch
  /\ History!Patches = Patches
  /\ \A s, p : History!Apply(s, p) = Apply(s, p)
BY DEF History!States, States, History!NoPatch, NoPatch, History!Patches,
       Patches, History!Apply, Apply, History!Coalesce, Coalesce

\* A step of one request is a step of its call.
LEMMA OneCall ==
  ASSUME NEW w \in Workers, NEW q, req \in [Workers -> Requests],
         req' = [req EXCEPT ![w] = q]
  PROVE  /\ Calls' = [Calls EXCEPT ![w] = CallOf(q)]
         /\ Calls[w] = CallOf(req[w]) /\ Calls'[w] = CallOf(q)
BY DEF Calls

\* Statuses other than 0 are answers, and what they say.
LEMMA Outcomes ==
  /\ \A status \in {200, 201, 204} : OutcomeOf(status) = "ok"
  /\ \A status \in {400, 403, 404, 409, 428} : OutcomeOf(status) = "refused"
  /\ OutcomeOf(500) = "unknown" /\ OutcomeOf(0) = "none"
BY DEF OutcomeOf

Pending(w) == req[w].pc \notin {"idle", "reply"}

\* The fields of a call.
LEMMA CallFields ==
  ASSUME NEW r
  PROVE  /\ CallOf(r).phase = PhaseOf(r.pc) /\ CallOf(r).op = r.op
         /\ CallOf(r).note = r.note /\ CallOf(r).basis = r.ifMatch
         /\ CallOf(r).patch = r.patch
BY DEF CallOf

\* An answer is a reply.
LEMMA AnswerReplies ==
  ASSUME TypeOK, NEW w \in Workers, Pending(w), NEW status \in Statuses,
         NEW view \in Views \cup {Nothing}, Answer(w, status, view)
  PROVE  /\ History!Reply(w, OutcomeOf(status), ShownIn(view))
         /\ Calls[w].phase = "pending" /\ Calls'[w].phase = "replied"
<1>. DEFINE r == req[w]
            q == [r EXCEPT !.pc = "reply", !.status = status, !.view = view]
            outcome == OutcomeOf(status)
            shown == ShownIn(view)
<1>1. req' = [req EXCEPT ![w] = q] /\ r \in Requests
  BY DEF Answer, TypeOK
<1>2. q.pc = "reply" /\ q.status = status /\ q.view = view
  BY <1>1 DEF Requests
<1>3. SameCall(q, r)
  BY <1>1, Zenon DEF Requests, SameCall
<1>. HIDE DEF q
<1>4. /\ Calls' = [Calls EXCEPT ![w] = CallOf(q)]
      /\ Calls[w] = CallOf(r) /\ Calls'[w] = CallOf(q)
  BY <1>1, OneCall DEF TypeOK
<1>5. CallOf(q) = [phase |-> "replied", op |-> r.op, note |-> r.note,
                   basis |-> r.ifMatch, patch |-> r.patch,
                   outcome |-> outcome, shown |-> shown]
  BY <1>2, <1>3, Zenon DEF CallOf, PhaseOf, SameCall
<1>6. PhaseOf(r.pc) = "pending"
  BY DEF Pending, PhaseOf
<1>7. Calls[w].phase = "pending" /\ Calls'[w].phase = "replied"
  <2>1. CallOf(r).phase = "pending"
    BY <1>6, CallFields
  <2>2. CallOf(q).phase = "replied"
    BY <1>5
  <2>. QED BY <1>4, <2>1, <2>2
<1>. HIDE DEF outcome, shown
<1>8. CallOf(q) = History!Replied(CallOf(r), outcome, shown)
  BY <1>5, CallFields, Zenon DEF History!Replied
<1>9. Calls' = [Calls EXCEPT ![w] = History!Replied(Calls[w], outcome, shown)]
  BY <1>4, <1>8
<1>. QED BY <1>7, <1>9 DEF History!Reply, Calls, outcome, shown

-----------------------------------------------------------------------------
(* What a statement and its answer are to the call. *)

\* The call of a request a handler works on.
LEMMA PendingCall ==
  ASSUME NEW w \in Workers
  PROVE  /\ Calls[w].op = req[w].op /\ Calls[w].note = req[w].note
         /\ Calls[w].basis = req[w].ifMatch /\ Calls[w].patch = req[w].patch
<1>1. Calls[w] = CallOf(req[w])
  BY DEF Calls
<1>. QED BY <1>1, CallFields

\* Errors without a body change nothing, and say so or, the 500, say nothing.
LEMMA Refused ==
  ASSUME TypeOK, NEW w \in Workers, Pending(w),
         NEW status \in {400, 403, 404, 409, 428, 500},
         Answer(w, status, Nothing), NoCommit
  PROVE  History!Step(w)
<1>1. status \in Statuses
  BY DEF Statuses
<1>2. /\ History!Reply(w, OutcomeOf(status), ShownIn(Nothing))
      /\ Calls[w].phase = "pending" /\ Calls'[w].phase = "replied"
  BY <1>1, AnswerReplies
<1>3. OutcomeOf(status) \in {"refused", "unknown"} /\ ShownIn(Nothing) = Nothing
  BY Outcomes DEF ShownIn
<1>4. History!Refuse(w)
  BY <1>2, <1>3 DEF History!Refuse, NoCommit
<1>. QED BY <1>2, <1>4 DEF History!Step, Calls

\* What a body shows of the row it was made from: the last state of the log.
LEMMA ShownRow ==
  ASSUME NEW row \in Rows, NEW role \in Roles, NEW states,
         row.version = Len(states), states[Len(states)] = StateOf(row)
  PROVE  ShownIn(ViewOf(row, role)) = History!Shown(states)
<1>1. ViewOf(row, role) # Nothing
  BY ViewType, NotesAssumption
<1>2. /\ states[Len(states)].title = row.title
      /\ states[Len(states)].body = row.body
  BY DEF StateOf
<1>3. /\ ViewOf(row, role).version = row.version
      /\ ViewOf(row, role).title = row.title
      /\ ViewOf(row, role).body = row.body
  BY DEF ViewOf
<1>. QED BY <1>1, <1>2, <1>3 DEF ShownIn, History!Shown

\* Whether the note is deleted is what its log's last state says.
LEMMA LiveRow ==
  ASSUME IInv, NEW w \in Workers, Pending(w), Exists(req[w].note)
  PROVE  /\ log[req[w].note] # <<>>
         /\ History!Last(req[w].note) = StateOf(notes[req[w].note])
         /\ History!Live(req[w].note) <=> ~ notes[req[w].note].deleted
<1>. DEFINE n == req[w].note
<1>1. /\ Len(log[n]) \in Nat \ {0}
      /\ log[n][Len(log[n])] = StateOf(notes[n])
      /\ n \in NoteIds
  BY Found DEF Pending
<1>2. History!Last(n) = StateOf(notes[n])
  BY <1>1 DEF History!Last
<1>3. log[n] # <<>>
  BY <1>1 DEF IInv, TypeOK
<1>4. StateOf(notes[n]).deleted <=> notes[n].deleted
  BY Zenon DEF StateOf
<1>. QED BY <1>2, <1>3, <1>4 DEF History!Live

\* A read, or a conflict, that shows the live note.
LEMMA Observed ==
  ASSUME IInv, NEW w \in Workers, Pending(w), Exists(req[w].note),
         ~ notes[req[w].note].deleted, NEW role \in Roles,
         NEW status \in {200, 409},
         req[w].op = IF status = 200 THEN "read" ELSE "update",
         Answer(w, status, ViewOf(notes[req[w].note], role)), NoCommit
  PROVE  History!Step(w)
<1>. DEFINE n == req[w].note
            view == ViewOf(notes[n], role)
<1>1. /\ notes[n] \in Rows /\ notes[n].version = Len(log[n])
      /\ log[n][Len(log[n])] = StateOf(notes[n])
  BY Found DEF Pending
<1>2. view \in Views /\ status \in Statuses /\ TypeOK
  BY <1>1, ViewType DEF Statuses, IInv
<1>3. ShownIn(view) = History!Shown(log[n])
  BY <1>1, ShownRow
<1>4. Answer(w, status, view)
  OBVIOUS
<1>. HIDE DEF view
<1>5. /\ History!Reply(w, OutcomeOf(status), History!Shown(log[n]))
      /\ Calls[w].phase = "pending" /\ Calls'[w].phase = "replied"
  BY <1>2, <1>3, <1>4, AnswerReplies
<1>6. History!Live(n)
  BY LiveRow
<1>7. OutcomeOf(status) = IF status = 200 THEN "ok" ELSE "refused"
  BY Outcomes
<1>8. Calls[w].op = req[w].op /\ Calls[w].note = n
  BY PendingCall
<1>9. History!Observe(w)
  BY <1>5, <1>6, <1>7, <1>8 DEF History!Observe, NoCommit, Calls
<1>. QED BY <1>5, <1>9 DEF History!Step, Calls

\* A delete whose note somebody else has deleted.
LEMMA FoundDeleted ==
  ASSUME IInv, NEW w \in Workers, Pending(w), Exists(req[w].note),
         notes[req[w].note].deleted, req[w].op = "delete",
         Answer(w, 204, Nothing), NoCommit
  PROVE  History!Step(w)
<1>1. 204 \in Statuses /\ TypeOK
  BY DEF Statuses, IInv
<1>2. /\ History!Reply(w, OutcomeOf(204), ShownIn(Nothing))
      /\ Calls[w].phase = "pending" /\ Calls'[w].phase = "replied"
  BY <1>1, AnswerReplies
<1>3. OutcomeOf(204) = "ok" /\ ShownIn(Nothing) = Nothing
  BY Outcomes DEF ShownIn
<1>4. log[req[w].note] # <<>> /\ ~ History!Live(req[w].note)
  BY LiveRow
<1>5. Calls[w].op = req[w].op /\ Calls[w].note = req[w].note
  BY PendingCall
<1>6. History!AlreadyDeleted(w)
  BY <1>2, <1>3, <1>4, <1>5 DEF History!AlreadyDeleted, NoCommit, Calls
<1>. QED BY <1>2, <1>6 DEF History!Step, Calls

\* A commit, and one of the two answers to it.
LEMMA Taken ==
  ASSUME IInv, NEW w \in Workers, Pending(w), req[w].note \in NoteIds,
         NEW row \in Rows, NEW role \in Roles, NEW status \in Statuses,
         NEW view \in {Nothing, ViewOf(row, role)},
         Commit(req[w].note, row), Answer(w, status, view),
         row.version = Len(log[req[w].note]) + 1,
         History!Extends(Calls[w], StateOf(row)),
         \/ /\ status \in {200, 201, 204}
            /\ view = Nothing <=> req[w].op = "delete"
         \/ status = 500 /\ view = Nothing
  PROVE  History!Step(w)
<1>. DEFINE n == req[w].note
            s == StateOf(row)
<1>1. view \in Views \cup {Nothing} /\ TypeOK
  BY ViewType DEF IInv
<1>2. /\ History!Reply(w, OutcomeOf(status), ShownIn(view))
      /\ Calls[w].phase = "pending" /\ Calls'[w].phase = "replied"
  BY <1>1, AnswerReplies
<1>3. s \in States /\ log[n] \in Seq(States)
  BY StateOfType DEF IInv, TypeOK
<1>. HIDE DEF s
<1>4. log' = [log EXCEPT ![n] = Append(log[n], s)]
  BY DEF Commit, s
<1>5. log'[n] = Append(log[n], s)
  BY <1>1, <1>4 DEF TypeOK
<1>6. Len(log'[n]) = Len(log[n]) + 1 /\ log'[n][Len(log[n]) + 1] = s
  BY <1>3, <1>5
<1>7. ShownIn(ViewOf(row, role)) = History!Shown(log'[n])
  <2>. DEFINE states == log'[n]
  <2>1. row.version = Len(states) /\ states[Len(states)] = StateOf(row)
    BY <1>6 DEF s
  <2>. HIDE DEF states
  <2>2. ShownIn(ViewOf(row, role)) = History!Shown(states)
    BY <2>1, ShownRow
  <2>. QED BY <2>2 DEF states
<1>8. Calls[w].op = req[w].op /\ Calls[w].note = n
  BY PendingCall
<1>9. ViewOf(row, role) # Nothing
  BY ViewType, NotesAssumption
<1>10. \/ History!Reply(w, "ok", IF Calls[w].op = "delete" THEN Nothing
                                 ELSE History!Shown(log'[Calls[w].note]))
       \/ History!Reply(w, "unknown", Nothing)
  <2>1. ShownIn(Nothing) = Nothing
    BY DEF ShownIn
  <2>2. CASE status \in {200, 201, 204} /\ (view = Nothing <=> req[w].op = "delete")
    <3>1. OutcomeOf(status) = "ok"
      BY <2>2, Outcomes
    <3>2. ShownIn(view) = IF Calls[w].op = "delete" THEN Nothing
                          ELSE History!Shown(log'[Calls[w].note])
      BY <1>7, <1>8, <1>9, <2>1, <2>2
    <3>. QED BY <1>2, <3>1, <3>2
  <2>3. CASE status = 500 /\ view = Nothing
    BY <1>2, <2>1, <2>3, Outcomes
  <2>. QED BY <2>2, <2>3
<1>11. History!Extends(Calls[w], s) /\ s \in History!States
  BY <1>3, SameContent DEF s
<1>12. log' = [log EXCEPT ![Calls[w].note] = Append(@, s)]
  BY <1>4, <1>8
<1>13. History!Take(w)
  BY <1>10, <1>11, <1>12 DEF History!Take, Calls
<1>. QED BY <1>2, <1>13 DEF History!Step, Calls

-----------------------------------------------------------------------------
(* One lemma per action. *)

\* A request that comes in is a call.
LEMMA ReceiveIsCall ==
  ASSUME IInv, NEW w \in Workers, Receive(w)
  PROVE  History!Step(w)
<1>0. PICK op \in Ops, u \in UserIds, n \in NoteIds :
        \E v \in IfMatches(op), p \in Payloads(op) :
          req' = [req EXCEPT ![w] = Opened(op, u, n, v, p)]
  BY DEF Receive
<1>1. PICK v \in IfMatches(op), p \in Payloads(op) :
        req' = [req EXCEPT ![w] = Opened(op, u, n, v, p)]
  BY <1>0
<1>. DEFINE pc == IF op = "create" THEN "write" ELSE "load"
            q == Opened(op, u, n, v, p)
<1>2. p \in Patches
  BY NoPatchType, NotesAssumption DEF Contents, Patches, Payloads
<1>3. v \in Versions
  BY NotesAssumption DEF Versions, IfMatches
<1>4. /\ q.pc = pc /\ q.op = op /\ q.note = n /\ q.ifMatch = v
      /\ q.patch = p /\ q.status = 0 /\ q.view = Nothing
  BY Zenon DEF Opened
<1>5. PhaseOf(pc) = "pending"
  BY DEF PhaseOf
<1>6. OutcomeOf(0) = "none" /\ ShownIn(Nothing) = Nothing
  BY Outcomes DEF ShownIn
<1>7. req[w].pc = "idle" /\ req \in [Workers -> Requests]
  BY DEF Receive, IInv, TypeOK
<1>. HIDE DEF q, pc
<1>8. /\ Calls' = [Calls EXCEPT ![w] = CallOf(q)]
      /\ Calls[w] = CallOf(req[w]) /\ Calls'[w] = CallOf(q)
  BY <1>1, <1>7, OneCall DEF q
<1>9. CallOf(q) = [phase |-> "pending", op |-> op, note |-> n, basis |-> v,
                   patch |-> p, outcome |-> "none", shown |-> Nothing]
  BY <1>4, <1>5, <1>6, Zenon DEF CallOf
<1>10. CallOf(q) \in History!Calls
  BY <1>2, <1>3, <1>9, SameContent DEF History!Calls, Ops
<1>11. Calls[w].phase = "idle"
  BY <1>7, <1>8, CallFields DEF PhaseOf
<1>12. Calls'[w].phase = "pending"
  BY <1>8, <1>9
<1>13. History!Call(w)
  BY <1>8, <1>10, <1>11 DEF History!Call, Receive, Calls
<1>. QED BY <1>11, <1>12, <1>13 DEF History!Step, Calls

\* The response goes out: the call returns.
LEMMA RespondIsReturn ==
  ASSUME IInv, NEW w \in Workers, Respond(w)
  PROVE  History!Step(w)
<1>1. req[w].pc = "reply" /\ req' = [req EXCEPT ![w] = IdleReq]
  BY DEF Respond
<1>2. req \in [Workers -> Requests]
  BY DEF IInv, TypeOK
<1>. DEFINE q == IdleReq
<1>3. /\ q.pc = "idle" /\ q.op = "none" /\ q.note = Nothing /\ q.ifMatch = 0
      /\ q.patch = NoPatch /\ q.status = 0 /\ q.view = Nothing
  BY DEF IdleReq
<1>4. OutcomeOf(0) = "none" /\ ShownIn(Nothing) = Nothing
      /\ PhaseOf("idle") = "idle"
  BY Outcomes DEF ShownIn, PhaseOf
<1>. HIDE DEF q
<1>5. /\ Calls' = [Calls EXCEPT ![w] = CallOf(q)]
      /\ Calls[w] = CallOf(req[w]) /\ Calls'[w] = CallOf(q)
  BY <1>1, <1>2, OneCall DEF q
<1>6. CallOf(q) = History!IdleCall
  BY <1>3, <1>4, SameContent, Zenon DEF CallOf, History!IdleCall
<1>7. Calls[w].phase = "replied"
  BY <1>1, <1>5, CallFields DEF PhaseOf
<1>8. Calls'[w].phase = "idle"
  BY <1>5, <1>6 DEF History!IdleCall
<1>9. History!Return(w)
  BY <1>5, <1>6, <1>7 DEF History!Return, Respond, NoCommit, Calls
<1>. QED BY <1>7, <1>8, <1>9 DEF History!Step, Calls

\* A request that goes on to its next statement is a call that waits.
LEMMA GotoStutters ==
  ASSUME TypeOK, NEW w \in Workers, Pending(w),
         NEW pc \in {"validate", "write", "conflict"}, NEW role \in Roles,
         Goto(w, pc, role), NoCommit
  PROVE  UNCHANGED History!vars
<1>. DEFINE r == req[w]
            q == [r EXCEPT !.pc = pc, !.role = role]
<1>1. req' = [req EXCEPT ![w] = q] /\ r \in Requests
  BY DEF Goto, TypeOK
<1>2. q.pc = pc
  BY <1>1 DEF Requests
<1>3. SameCall(q, r) /\ q.status = r.status /\ q.view = r.view
  BY <1>1, Zenon DEF Requests, SameCall
<1>. HIDE DEF q
<1>4. Calls' = [Calls EXCEPT ![w] = CallOf(q)] /\ Calls[w] = CallOf(r)
  BY <1>1, OneCall DEF TypeOK
<1>5. PhaseOf(q.pc) = PhaseOf(r.pc)
  BY <1>2 DEF Pending, PhaseOf
<1>6. CallOf(q) = CallOf(r)
  BY <1>3, <1>5, Zenon DEF CallOf, SameCall
<1>7. Calls' = Calls
  BY <1>4, <1>6 DEF Calls
<1>. QED BY <1>7 DEF NoCommit, History!vars, Calls

\* What each of a handler's steps is to NoteHistory.
Refines(w) == History!Step(w) \/ UNCHANGED History!vars

LEMMA LoadRefines ==
  ASSUME IInv, NEW w \in Workers, Load(w)
  PROVE  Refines(w)
<1>. DEFINE r == req[w]
            n == req[w].note
            role == RoleOf(req[w].user, req[w].note)
<1>1. req[w].pc = "load" /\ Pending(w) /\ NoCommit /\ TypeOK
  BY DEF Load, Pending, IInv
<1>2. ASSUME NEW status \in {400, 403, 404, 409, 428},
             Answer(w, status, Nothing)
      PROVE  Refines(w)
  BY <1>1, <1>2, Refused DEF Refines
<1>3. CASE LoadRefusal(r) # 0 /\ Answer(w, LoadRefusal(r), Nothing)
  <2>1. LoadRefusal(r) \in {403, 404}
    BY <1>3 DEF LoadRefusal
  <2>. QED BY <1>2, <1>3, <2>1
<1>4. CASE LoadRefusal(r) = 0 /\ AfterLoad(w)
  <2>1. /\ Exists(n) /\ role \in Roles
        /\ notes[n].deleted => req[w].op = "restore"
    BY <1>1, <1>4, Loaded
  <2>2. CASE r.op = "read" /\ Answer(w, 200, ViewOf(notes[n], role))
    <3>1. ~ notes[n].deleted
      BY <2>1, <2>2
    <3>. QED BY <1>1, <2>1, <2>2, <3>1, Observed DEF Refines
  <2>3. CASE \E status \in {428, 400, 409} : Answer(w, status, Nothing)
    BY <1>2, <2>3
  <2>4. CASE \E pc \in {"validate", "write"} : Goto(w, pc, role)
    BY <1>1, <2>1, <2>4, GotoStutters DEF Refines
  <2>. QED BY <1>4, <2>2, <2>3, <2>4 DEF AfterLoad
<1>. QED BY <1>3, <1>4 DEF Load

LEMMA ValidateBodyRefines ==
  ASSUME IInv, NEW w \in Workers, ValidateBody(w)
  PROVE  Refines(w)
<1>1. Pending(w) /\ NoCommit /\ TypeOK /\ req[w].role \in Roles
  BY DEF ValidateBody, Pending, IInv, TypeOK, Requests
<1>2. CASE Goto(w, "write", req[w].role)
  BY <1>1, <1>2, GotoStutters DEF Refines
<1>3. CASE Answer(w, 400, Nothing)
  BY <1>1, <1>3, Refused DEF Refines
<1>. QED BY <1>2, <1>3 DEF ValidateBody

LEMMA StatementFailsRefines ==
  ASSUME IInv, NEW w \in Workers, StatementFails(w)
  PROVE  Refines(w)
<1>1. Pending(w) /\ NoCommit /\ TypeOK
  BY DEF StatementFails, AnswerError, Pending, IInv
<1>2. \E status \in {404, 500} : Answer(w, status, Nothing)
  BY DEF StatementFails, AnswerError
<1>. QED BY <1>1, <1>2, Refused DEF Refines

LEMMA ConflictRefines ==
  ASSUME IInv, NEW w \in Workers, Conflict(w)
  PROVE  Refines(w)
<1>. DEFINE r == req[w]
            n == req[w].note
            role == RoleOf(req[w].user, req[w].note)
<1>1. r.pc = "conflict" /\ Pending(w) /\ NoCommit /\ TypeOK
  BY DEF Conflict, Pending, IInv
<1>2. CASE Answer(w, 404, Nothing)
  BY <1>1, <1>2, Refused DEF Refines
<1>3. CASE /\ Exists(n) /\ ~ notes[n].deleted
           /\ Answer(w, 409, ViewOf(notes[n], role))
  <2>1. r.user \in UserIds /\ n \in NoteIds /\ r.op = "update"
    BY <1>1 DEF IInv, RequestsOK, ReqOK, ControlOK, Started
  <2>2. role \in Roles
    BY <1>1, <2>1, RoleOfType
  <2>. QED BY <1>1, <1>3, <2>1, <2>2, Observed DEF Refines
<1>. QED BY <1>2, <1>3 DEF Conflict

LEMMA CreateNoteRefines ==
  ASSUME IInv, NEW w \in Workers, CreateNote(w)
  PROVE  Refines(w)
<1>. DEFINE r == req[w]
            n == req[w].note
            row == [owner |-> r.user, title |-> r.patch.title,
                    body |-> r.patch.body, version |-> 1, deleted |-> FALSE]
<1>1. /\ r.pc = "write" /\ r.op = "create" /\ Pending(w) /\ TypeOK
      /\ \/ /\ Commit(n, row)
            /\ \/ Answer(w, 201, ViewOf(row, RoleOwner))
               \/ Answer(w, 500, Nothing)
         \/ NoCommit /\ Answer(w, 400, Nothing)
  BY Zenon DEF CreateNote, AnswerError, Pending, IInv
<1>2. r.patch \in Contents /\ r.user \in UserIds /\ n \in NoteIds
  BY <1>1 DEF IInv, RequestsOK, ReqOK, PendingOK, ControlOK, Started
<1>3. log[n] = <<>>
  BY <1>1, <1>2 DEF IInv, CreatesApart, Inserting, RowsAreLogged, RowOK, Exists
<1>4. row \in Rows /\ row.version = Len(log[n]) + 1
  BY <1>2, <1>3 DEF Rows, Contents
<1>5. StateOf(row) = [title |-> r.patch.title, body |-> r.patch.body,
                      deleted |-> FALSE]
  BY Zenon DEF StateOf
<1>. HIDE DEF row
<1>6. /\ Calls[w].op = "create" /\ Calls[w].note = n
      /\ Calls[w].patch = r.patch
  BY <1>1, PendingCall
<1>7. History!Extends(Calls[w], StateOf(row))
  BY <1>3, <1>5, <1>6 DEF History!Extends
<1>8. RoleOwner \in Roles /\ ViewOf(row, RoleOwner) # Nothing
  BY <1>4, ViewType, NotesAssumption DEF Roles, RoleNone, RoleOwner
<1>9. CASE Commit(n, row) /\ Answer(w, 201, ViewOf(row, RoleOwner))
  <2>. DEFINE view == ViewOf(row, RoleOwner)
  <2>1. view \in {Nothing, ViewOf(row, RoleOwner)} /\ Answer(w, 201, view)
        /\ view # Nothing
    BY <1>8, <1>9
  <2>. HIDE DEF view
  <2>. QED BY <1>1, <1>2, <1>4, <1>7, <1>8, <1>9, <2>1, Taken
           DEF Refines, Statuses
<1>10. CASE Commit(n, row) /\ Answer(w, 500, Nothing)
  BY <1>1, <1>2, <1>4, <1>7, <1>8, <1>10, Taken DEF Refines, Statuses
<1>11. CASE NoCommit /\ Answer(w, 400, Nothing)
  BY <1>1, <1>11, Refused DEF Refines
<1>. QED BY <1>1, <1>9, <1>10, <1>11

LEMMA UpdateNoteRefines ==
  ASSUME IInv, NEW w \in Workers, UpdateNote(w)
  PROVE  Refines(w)
<1>. DEFINE r == req[w]
            n == req[w].note
            row == Edited(notes[n], r.patch)
<1>1. /\ r.pc = "write" /\ r.op = "update" /\ Pending(w) /\ TypeOK
      /\ \/ /\ UpdateMatches(r)
            /\ Commit(n, row)
            /\ Answer(w, 200, ViewOf(row, r.role)) \/ Answer(w, 500, Nothing)
         \/ NoCommit /\ Goto(w, "conflict", r.role)
  BY Zenon DEF UpdateNote, AnswerError, Pending, IInv
<1>2. r.role \in Roles /\ r.patch \in Patches
  BY <1>1 DEF TypeOK, Requests
<1>3. CASE NoCommit /\ Goto(w, "conflict", r.role)
  BY <1>1, <1>2, <1>3, GotoStutters DEF Refines
<1>4. CASE /\ UpdateMatches(r) /\ Commit(n, row)
           /\ Answer(w, 200, ViewOf(row, r.role)) \/ Answer(w, 500, Nothing)
  <2>1. Exists(n) /\ notes[n].version = r.ifMatch /\ ~ notes[n].deleted
    BY <1>4 DEF UpdateMatches
  <2>2. /\ n \in NoteIds /\ notes[n] \in Rows
        /\ notes[n].version = Len(log[n])
    BY <1>1, <2>1, Found
  <2>3. /\ row \in Rows /\ row.version = Len(log[n]) + 1
        /\ StateOf(row) = Apply(StateOf(notes[n]), r.patch)
    BY <1>2, <2>2, EditedType
  <2>4. History!Last(n) = StateOf(notes[n]) /\ History!Live(n)
    BY <1>1, <2>1, LiveRow
  <2>5. /\ Calls[w].op = "update" /\ Calls[w].note = n
        /\ Calls[w].patch = r.patch /\ Calls[w].basis = r.ifMatch
    BY <1>1, PendingCall
  <2>6. StateOf(row) = History!Apply(History!Last(n), r.patch)
    BY <2>3, <2>4, SameContent
  <2>. HIDE DEF row
  <2>7. History!Extends(Calls[w], StateOf(row))
    BY <2>1, <2>2, <2>4, <2>5, <2>6 DEF History!Extends
  <2>8. CASE Answer(w, 200, ViewOf(row, r.role))
    <3>. DEFINE view == ViewOf(row, r.role)
    <3>1. /\ view \in {Nothing, ViewOf(row, r.role)} /\ Answer(w, 200, view)
          /\ view # Nothing
      BY <1>2, <2>3, <2>8, ViewType, NotesAssumption
    <3>. HIDE DEF view
    <3>. QED BY <1>1, <1>2, <1>4, <2>2, <2>3, <2>7, <3>1, Taken
             DEF Refines, Statuses
  <2>9. CASE Answer(w, 500, Nothing)
    BY <1>1, <1>2, <1>4, <2>2, <2>3, <2>7, <2>9, Taken DEF Refines, Statuses
  <2>. QED BY <1>4, <2>8, <2>9
<1>. QED BY <1>1, <1>3, <1>4

\* What deleting and restoring do to the state a row stands for.
LEMMA LifecycleStates ==
  ASSUME NEW row \in Rows
  PROVE  /\ StateOf(SoftDeleted(row)) = [StateOf(row) EXCEPT !.deleted = TRUE]
         /\ StateOf(Restored(row)) = [StateOf(row) EXCEPT !.deleted = FALSE]
<1>. DEFINE s == StateOf(row)
<1>1. s = [title |-> row.title, body |-> row.body, deleted |-> row.deleted]
  BY DEF StateOf
<1>. HIDE DEF s
<1>2. ASSUME NEW flag \in BOOLEAN
      PROVE  [s EXCEPT !.deleted = flag]
               = [title |-> row.title, body |-> row.body, deleted |-> flag]
  BY <1>1
<1>3. /\ SoftDeleted(row).title = row.title /\ SoftDeleted(row).body = row.body
      /\ Restored(row).title = row.title /\ Restored(row).body = row.body
  BY Zenon DEF Rows, SoftDeleted, Restored
<1>4. SoftDeleted(row).deleted = TRUE /\ Restored(row).deleted = FALSE
  BY Zenon DEF Rows, SoftDeleted, Restored
<1>5. StateOf(SoftDeleted(row))
        = [title |-> row.title, body |-> row.body, deleted |-> TRUE]
  BY <1>3, <1>4, Zenon DEF StateOf
<1>6. StateOf(Restored(row))
        = [title |-> row.title, body |-> row.body, deleted |-> FALSE]
  BY <1>3, <1>4, Zenon DEF StateOf
<1>. QED BY <1>2, <1>5, <1>6 DEF s

LEMMA SoftDeleteNoteRefines ==
  ASSUME IInv, NEW w \in Workers, SoftDeleteNote(w)
  PROVE  Refines(w)
<1>. DEFINE r == req[w]
            n == req[w].note
            row == SoftDeleted(notes[n])
<1>1. /\ r.pc = "write" /\ r.op = "delete" /\ Pending(w) /\ TypeOK
      /\ \/ /\ SoftDeleteMatches(r) /\ Commit(n, row)
            /\ Answer(w, 204, Nothing) \/ Answer(w, 500, Nothing)
         \/ ~ SoftDeleteMatches(r) /\ NoCommit /\ Answer(w, 204, Nothing)
  BY Zenon DEF SoftDeleteNote, AnswerError, Pending, IInv
<1>2. Exists(n)
  BY <1>1 DEF IInv, RequestsOK, ReqOK, PendingOK, Exists
<1>3. CASE ~ SoftDeleteMatches(r) /\ NoCommit /\ Answer(w, 204, Nothing)
  <2>1. notes[n].deleted
    BY <1>2, <1>3 DEF SoftDeleteMatches
  <2>. QED BY <1>1, <1>2, <1>3, <2>1, FoundDeleted DEF Refines
<1>4. CASE /\ SoftDeleteMatches(r) /\ Commit(n, row)
           /\ Answer(w, 204, Nothing) \/ Answer(w, 500, Nothing)
  <2>1. /\ n \in NoteIds /\ notes[n] \in Rows /\ ~ notes[n].deleted
        /\ notes[n].version = Len(log[n])
    BY <1>1, <1>2, <1>4, Found DEF SoftDeleteMatches
  <2>2. row \in Rows /\ row.version = Len(log[n]) + 1
    BY <2>1, LifecycleType
  <2>3. History!Last(n) = StateOf(notes[n]) /\ History!Live(n)
    BY <1>1, <1>2, <2>1, LiveRow
  <2>4. StateOf(row) = [History!Last(n) EXCEPT !.deleted = TRUE]
    BY <2>1, <2>3, LifecycleStates
  <2>5. Calls[w].op = "delete" /\ Calls[w].note = n
    BY <1>1, PendingCall
  <2>. HIDE DEF row
  <2>6. History!Extends(Calls[w], StateOf(row))
    BY <2>3, <2>4, <2>5 DEF History!Extends
  <2>7. RoleNone \in Roles
    BY DEF Roles, RoleNone, RoleOwner
  <2>8. PICK status \in {204, 500} : Answer(w, status, Nothing)
    BY <1>4
  <2>. QED BY <1>1, <1>4, <2>1, <2>2, <2>6, <2>7, <2>8, Taken
           DEF Refines, Statuses
<1>. QED BY <1>1, <1>3, <1>4

LEMMA RestoreNoteRefines ==
  ASSUME IInv, NEW w \in Workers, RestoreNote(w)
  PROVE  Refines(w)
<1>. DEFINE r == req[w]
            n == req[w].note
            row == Restored(notes[n])
<1>1. /\ r.pc = "write" /\ r.op = "restore" /\ Pending(w) /\ TypeOK
      /\ \/ /\ RestoreMatches(r) /\ Commit(n, row)
            /\ Answer(w, 200, ViewOf(row, r.role)) \/ Answer(w, 500, Nothing)
         \/ NoCommit /\ Answer(w, 500, Nothing)
  BY Zenon DEF RestoreNote, AnswerError, Pending, IInv
<1>2. r.role \in Roles
  BY <1>1 DEF TypeOK, Requests
<1>3. CASE NoCommit /\ Answer(w, 500, Nothing)
  BY <1>1, <1>3, Refused DEF Refines
<1>4. CASE /\ RestoreMatches(r) /\ Commit(n, row)
           /\ Answer(w, 200, ViewOf(row, r.role)) \/ Answer(w, 500, Nothing)
  <2>1. Exists(n) /\ notes[n].deleted
    BY <1>4 DEF RestoreMatches
  <2>2. /\ n \in NoteIds /\ notes[n] \in Rows
        /\ notes[n].version = Len(log[n])
    BY <1>1, <2>1, Found
  <2>3. row \in Rows /\ row.version = Len(log[n]) + 1
    BY <2>2, LifecycleType
  <2>4. /\ log[n] # <<>> /\ History!Last(n) = StateOf(notes[n])
        /\ ~ History!Live(n)
    BY <1>1, <2>1, LiveRow
  <2>5. StateOf(row) = [History!Last(n) EXCEPT !.deleted = FALSE]
    BY <2>2, <2>4, LifecycleStates
  <2>6. Calls[w].op = "restore" /\ Calls[w].note = n
    BY <1>1, PendingCall
  <2>. HIDE DEF row
  <2>7. History!Extends(Calls[w], StateOf(row))
    BY <2>4, <2>5, <2>6 DEF History!Extends
  <2>8. CASE Answer(w, 200, ViewOf(row, r.role))
    <3>. DEFINE view == ViewOf(row, r.role)
    <3>1. /\ view \in {Nothing, ViewOf(row, r.role)} /\ Answer(w, 200, view)
          /\ view # Nothing
      BY <1>2, <2>3, <2>8, ViewType, NotesAssumption
    <3>. HIDE DEF view
    <3>. QED BY <1>1, <1>2, <1>4, <2>2, <2>3, <2>7, <3>1, Taken
             DEF Refines, Statuses
  <2>9. CASE Answer(w, 500, Nothing)
    BY <1>1, <1>2, <1>4, <2>2, <2>3, <2>7, <2>9, Taken DEF Refines, Statuses
  <2>. QED BY <1>4, <2>8, <2>9
<1>. QED BY <1>1, <1>3, <1>4

-----------------------------------------------------------------------------
(* The theorem. *)

LEMMA InitMaps == Init => History!Init
<1>. SUFFICES ASSUME Init PROVE History!Init
  OBVIOUS
<1>1. /\ IdleReq.pc = "idle" /\ IdleReq.op = "none" /\ IdleReq.note = Nothing
      /\ IdleReq.ifMatch = 0 /\ IdleReq.patch = NoPatch /\ IdleReq.status = 0
      /\ IdleReq.view = Nothing
  BY DEF IdleReq
<1>2. OutcomeOf(0) = "none" /\ ShownIn(Nothing) = Nothing
      /\ PhaseOf("idle") = "idle"
  BY Outcomes DEF ShownIn, PhaseOf
<1>3. CallOf(IdleReq) = History!IdleCall
  BY <1>1, <1>2, SameContent, Zenon DEF CallOf, History!IdleCall
<1>. QED BY <1>3 DEF Init, History!Init

LEMMA StepMaps == IInv /\ [Next]_vars => [History!Next]_(History!vars)
<1>. SUFFICES ASSUME IInv, [Next]_vars
              PROVE  History!Next \/ UNCHANGED History!vars
  OBVIOUS
<1>1. ASSUME NEW w \in Workers, Refines(w)
      PROVE  History!Next \/ UNCHANGED History!vars
  BY <1>1 DEF Refines, History!Next
<1>2. ASSUME NEW w \in Workers, Receive(w) \/ Respond(w) PROVE Refines(w)
  BY <1>2, ReceiveIsCall, RespondIsReturn DEF Refines
<1>3. ASSUME NEW w \in Workers,
             Load(w) \/ ValidateBody(w) \/ Conflict(w) \/ StatementFails(w)
      PROVE  Refines(w)
  BY <1>3, LoadRefines, ValidateBodyRefines, ConflictRefines,
     StatementFailsRefines
<1>4. ASSUME NEW w \in Workers,
             \/ CreateNote(w) \/ UpdateNote(w)
             \/ SoftDeleteNote(w) \/ RestoreNote(w)
      PROVE  Refines(w)
  BY <1>4, CreateNoteRefines, UpdateNoteRefines, SoftDeleteNoteRefines,
     RestoreNoteRefines
<1>5. ASSUME NEW n \in NoteIds, ChangeAccess(n) PROVE UNCHANGED History!vars
  BY <1>5 DEF ChangeAccess, History!vars
<1>6. CASE UNCHANGED vars
  BY <1>6 DEF vars, History!vars
<1>. QED BY <1>1, <1>2, <1>3, <1>4, <1>5, <1>6 DEF Next

\* The handlers keep the promise of NoteHistory, for any number of concurrent
\* requests: each takes effect once, at one instant between its call and its
\* reply and on the state it names, or not at all, and its answer says so.
THEOREM HandlersImplementHistory == Spec => ImplementsHistory
<1>1. Init => History!Init
  BY InitMaps
<1>2. IInv /\ [Next]_vars => [History!Next]_(History!vars)
  BY StepMaps
<1>. QED BY <1>1, <1>2, Invariance, PTL
         DEF Spec, ImplementsHistory, History!Spec

=============================================================================
