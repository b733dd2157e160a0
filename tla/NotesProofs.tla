---------------------------- MODULE NotesProofs ----------------------------
(***************************************************************************)
(* Proofs about the note handlers, for every set of notes, users, workers  *)
(* and contents and every bound on versions.                               *)
(*                                                                         *)
(* The invariant is in three parts.  RowsAreLogged ties the version column *)
(* to the history: a row is the last state of its note's log and carries   *)
(* its length.  RequestsOK says of every request what the later statements *)
(* rely on and what its answer promised; it survives other requests'       *)
(* commits because those only append to the log (Evolves).  CreatesApart   *)
(* says an insert finds its id unused.                                     *)
(***************************************************************************)
EXTENDS Notes, AuthzProofs

-----------------------------------------------------------------------------
(* Types. *)

LEMMA RoleOfType ==
  ASSUME TypeOK, NEW u \in UserIds, NEW n \in NoteIds
  PROVE  RoleOf(u, n) \in Roles
<1>1. {access[n][u]} \subseteq Roles
  BY DEF TypeOK, GrantRoles, Roles, RoleNone, RoleViewer, RoleEditor, RoleOwner
<1>. QED BY <1>1, EffectiveRoleType DEF RoleOf

LEMMA NoPatchType == NoPatch \in Patches
BY DEF NoPatch, Patches

LEMMA IdleReqType == IdleReq \in Requests
BY NoPatchType, NotesAssumption
   DEF IdleReq, Requests, Pcs, Versions, Roles, RoleNone, RoleOwner, Statuses

LEMMA TypeInit == Init => TypeOK
BY IdleReqType DEF Init, TypeOK, GrantRoles

\* What a request is once a statement is over.
LEMMA GotoType ==
  ASSUME TypeOK, NEW w \in Workers, NEW pc \in Pcs, NEW role \in Roles,
         Goto(w, pc, role)
  PROVE  req' \in [Workers -> Requests]
<1>1. [req[w] EXCEPT !.pc = pc, !.role = role] \in Requests
  BY DEF TypeOK, Requests
<1>. QED BY <1>1 DEF TypeOK, Goto

LEMMA AnswerType ==
  ASSUME TypeOK, NEW w \in Workers, NEW status \in Statuses,
         NEW view \in Views \cup {Nothing}, Answer(w, status, view)
  PROVE  req' \in [Workers -> Requests]
<1>1. [req[w] EXCEPT !.pc = "reply", !.status = status, !.view = view]
        \in Requests
  BY ZenonT(40) DEF TypeOK, Requests, Pcs
<1>. QED BY <1>1 DEF TypeOK, Answer

LEMMA ViewType ==
  ASSUME NEW row \in Rows, NEW role \in Roles
  PROVE  ViewOf(row, role) \in Views
BY DEF Rows, Views, ViewOf

LEMMA StateOfType ==
  ASSUME NEW row \in Rows
  PROVE  StateOf(row) \in States
BY DEF Rows, StateOf, States

LEMMA CommitType ==
  ASSUME TypeOK, NEW n \in NoteIds, NEW row \in Rows, Commit(n, row)
  PROVE  /\ notes' \in [NoteIds -> Rows \cup {Nothing}]
         /\ log' \in [NoteIds -> Seq(States)]
<1>1. Append(log[n], StateOf(row)) \in Seq(States)
  BY StateOfType DEF TypeOK
<1>. QED BY <1>1 DEF TypeOK, Commit

LEMMA EditedType ==
  ASSUME NEW row \in Rows, NEW patch \in Patches
  PROVE  /\ Edited(row, patch) \in Rows
         /\ Edited(row, patch).version = row.version + 1
         /\ Edited(row, patch).deleted = row.deleted
         /\ Edited(row, patch).owner = row.owner
         /\ StateOf(Edited(row, patch)) = Apply(StateOf(row), patch)
<1>1. /\ Coalesce(patch.title, row.title) \in Titles
      /\ Coalesce(patch.body, row.body) \in Bodies
  BY DEF Rows, Patches, Coalesce
<1>2. row.version + 1 \in Nat
  BY DEF Rows
<1>3. Edited(row, patch) \in Rows
  BY <1>1, <1>2, Zenon DEF Rows, Edited
<1>4. /\ Edited(row, patch).version = row.version + 1
      /\ Edited(row, patch).title = Coalesce(patch.title, row.title)
      /\ Edited(row, patch).body = Coalesce(patch.body, row.body)
  BY <1>1 DEF Rows, Edited
<1>5. /\ Edited(row, patch).deleted = row.deleted
      /\ Edited(row, patch).owner = row.owner
  BY Zenon DEF Rows, Edited
<1>6. Apply(StateOf(row), patch) =
        [title   |-> Coalesce(patch.title, row.title),
         body    |-> Coalesce(patch.body, row.body),
         deleted |-> row.deleted]
  BY Zenon DEF Apply, StateOf
<1>. QED BY <1>3, <1>4, <1>5, <1>6 DEF StateOf

LEMMA LifecycleType ==
  ASSUME NEW row \in Rows
  PROVE  /\ SoftDeleted(row) \in Rows
         /\ SoftDeleted(row).version = row.version + 1
         /\ SoftDeleted(row).deleted
         /\ SoftDeleted(row).owner = row.owner
         /\ Restored(row) \in Rows
         /\ Restored(row).version = row.version + 1
         /\ ~ Restored(row).deleted
         /\ Restored(row).owner = row.owner
<1>1. row.version + 1 \in Nat
  BY DEF Rows
<1>2. SoftDeleted(row) \in Rows /\ Restored(row) \in Rows
  BY <1>1, Zenon DEF Rows, SoftDeleted, Restored
<1>3. SoftDeleted(row).deleted /\ ~ Restored(row).deleted
  BY Zenon DEF Rows, SoftDeleted, Restored
<1>4. /\ SoftDeleted(row).version = row.version + 1
      /\ SoftDeleted(row).owner = row.owner
      /\ Restored(row).version = row.version + 1
      /\ Restored(row).owner = row.owner
  BY Zenon DEF Rows, SoftDeleted, Restored
<1>. QED BY <1>2, <1>3, <1>4

-----------------------------------------------------------------------------
(* The inductive invariant. *)

\* A row is the last state of its note's log, under its length as version.
RowOK(row, states) ==
  \/ row = Nothing /\ states = <<>>
  \/ /\ row # Nothing /\ states # <<>>
     /\ row.version = Len(states)
     /\ states[Len(states)] = StateOf(row)

RowsAreLogged == \A n \in NoteIds : RowOK(notes[n], log[n])

Started(r) == r.op \in Ops /\ r.user \in UserIds /\ r.note \in NoteIds

\* Which handler is where: only an update checks a body or conflicts, and
\* nothing is shown before the reply.
ControlOK(r) ==
  /\ r.pc # "idle" => Started(r)
  /\ r.pc # "reply" => r.view = Nothing
  /\ r.pc = "idle" => ~ r.known
  /\ r.pc \in {"validate", "conflict"} => r.op = "update"

\* What the statement a request is about to run relies on.
PendingOK(r, row, states) ==
  /\ r.known => r.op = "update" /\ r.ifMatch \in 1 .. Len(states)
  /\ r.pc = "conflict" /\ r.known => Len(states) > r.ifMatch \/ row.deleted
  /\ r.pc = "write" /\ r.op \in {"delete", "restore"} =>
       row # Nothing /\ row.owner = r.user
  /\ r.pc = "write" /\ r.op = "create" => r.patch \in Contents

\* What an answer promised.
AnswerOK(r, states) ==
  /\ r.view # Nothing => /\ r.view.version \in 1 .. Len(states)
                         /\ states[r.view.version] = StateOf(r.view)
                         /\ ~ r.view.deleted
  /\ r.pc = "reply" /\ r.op = "update" /\ r.status = 200 =>
       /\ r.view # Nothing
       /\ r.ifMatch \in 1 .. Len(states)
       /\ r.view.version = r.ifMatch + 1
       /\ states[r.view.version] = Apply(states[r.ifMatch], r.patch)
  /\ r.pc = "reply" /\ r.op = "update" /\ r.status = 409 /\ r.known =>
       r.view # Nothing /\ r.view.version > r.ifMatch

ReqOK(r, row, states) ==
  ControlOK(r) /\ PendingOK(r, row, states) /\ AnswerOK(r, states)

RequestsOK ==
  \A w \in Workers : ReqOK(req[w], notes[req[w].note], log[req[w].note])

Inserting(w) == req[w].pc = "write" /\ req[w].op = "create"

\* An insert finds its id unused, and no other insert races it to that id.
CreatesApart ==
  \A w \in Workers : Inserting(w) =>
    /\ ~ Exists(req[w].note)
    /\ \A o \in Workers \ {w} : Inserting(o) => req[o].note # req[w].note

IInv == TypeOK /\ RowsAreLogged /\ RequestsOK /\ CreatesApart

\* All a statement ever does to a note: nothing, or a state more at the end of
\* its log.  No row goes away and no note changes hands.
Evolved(row, states, nrow, nstates) ==
  \/ nrow = row /\ nstates = states
  \/ /\ \E s \in States : nstates = Append(states, s)
     /\ nrow # Nothing
     /\ row # Nothing => nrow.owner = row.owner

-----------------------------------------------------------------------------
(* What one statement of one request preserves. *)

\* A request another request's commit passes by keeps what it relies on.
LEMMA ReqOKStable ==
  ASSUME NEW r \in Requests,
         NEW row \in Rows \cup {Nothing}, NEW states \in Seq(States),
         NEW nrow, NEW nstates,
         ReqOK(r, row, states),
         Evolved(row, states, nrow, nstates)
  PROVE  ReqOK(r, nrow, nstates)
<1>1. CASE nrow = row /\ nstates = states
  BY <1>1
<1>2. CASE /\ \E s \in States : nstates = Append(states, s)
           /\ nrow # Nothing
           /\ row # Nothing => nrow.owner = row.owner
  <2>1. PICK s \in States : nstates = Append(states, s)
    BY <1>2
  <2>2. /\ Len(nstates) = Len(states) + 1
        /\ Len(states) \in Nat
        /\ \A i \in 1 .. Len(states) : nstates[i] = states[i]
    BY <2>1
  <2>3. r.ifMatch \in Nat
    BY DEF Requests, Versions
  <2>4. ControlOK(r)
    BY DEF ReqOK
  <2>5. PendingOK(r, nrow, nstates)
    BY <1>2, <2>2, <2>3 DEF ReqOK, PendingOK
  <2>6. AnswerOK(r, nstates)
    <3>1. r.view # Nothing => r.view.version \in 1 .. Len(states)
      BY DEF ReqOK, AnswerOK
    <3>2. r.view # Nothing =>
            /\ r.view.version \in 1 .. Len(nstates)
            /\ nstates[r.view.version] = states[r.view.version]
      BY <2>2, <3>1
    <3>3. r.ifMatch \in 1 .. Len(states) =>
            /\ r.ifMatch \in 1 .. Len(nstates)
            /\ nstates[r.ifMatch] = states[r.ifMatch]
      BY <2>2, <2>3
    <3>. QED BY <3>2, <3>3 DEF ReqOK, AnswerOK
  <2>. QED BY <2>4, <2>5, <2>6 DEF ReqOK
<1>. QED BY <1>1, <1>2 DEF Evolved

\* The frame of every step a request takes: its own record is well-formed
\* afterwards, and it left every note alone or took it one version on.
LEMMA OneRequest ==
  ASSUME IInv, NEW w \in Workers, NEW q \in Requests,
         req' = [req EXCEPT ![w] = q],
         UNCHANGED access,
         notes' \in [NoteIds -> Rows \cup {Nothing}],
         log' \in [NoteIds -> Seq(States)],
         \A n \in NoteIds : Evolved(notes[n], log[n], notes'[n], log'[n]),
         \A n \in NoteIds : RowOK(notes'[n], log'[n]),
         ReqOK(q, notes'[q.note], log'[q.note]),
         ~ (q.pc = "write" /\ q.op = "create"),
         \A o \in Workers \ {w} :
            Inserting(o) => notes'[req[o].note] = notes[req[o].note]
  PROVE  IInv'
<1>1. /\ req' \in [Workers -> Requests]
      /\ req'[w] = q
      /\ \A o \in Workers \ {w} : req'[o] = req[o]
  BY DEF IInv, TypeOK
<1>2. TypeOK'
  BY <1>1 DEF IInv, TypeOK
<1>3. RowsAreLogged'
  BY DEF RowsAreLogged
<1>4. RequestsOK'
  <2>1. SUFFICES ASSUME NEW o \in Workers, o # w
                 PROVE  ReqOK(req[o], notes'[req[o].note], log'[req[o].note])
    BY <1>1 DEF RequestsOK
  <2>2. /\ ReqOK(req[o], notes[req[o].note], log[req[o].note])
        /\ req[o] \in Requests
    BY DEF IInv, RequestsOK, TypeOK
  <2>3. CASE req[o].pc = "idle"
    BY <2>2, <2>3 DEF ReqOK, ControlOK, PendingOK, AnswerOK
  <2>4. CASE req[o].pc # "idle"
    <3>1. req[o].note \in NoteIds
      BY <2>2, <2>4 DEF ReqOK, ControlOK, Started
    <3>2. /\ notes[req[o].note] \in Rows \cup {Nothing}
          /\ log[req[o].note] \in Seq(States)
      BY <3>1 DEF IInv, TypeOK
    <3>3. Evolved(notes[req[o].note], log[req[o].note],
                  notes'[req[o].note], log'[req[o].note])
      BY <3>1
    <3>. DEFINE row == notes[req[o].note]
                states == log[req[o].note]
                nrow == notes'[req[o].note]
                nstates == log'[req[o].note]
    <3>4. /\ req[o] \in Requests
          /\ row \in Rows \cup {Nothing}
          /\ states \in Seq(States)
          /\ ReqOK(req[o], row, states)
          /\ Evolved(row, states, nrow, nstates)
      BY <2>2, <3>2, <3>3
    <3>. HIDE DEF row, states, nrow, nstates
    <3>5. ReqOK(req[o], nrow, nstates)
      BY <3>4, ReqOKStable
    <3>. QED BY <3>5 DEF nrow, nstates
  <2>. QED BY <2>3, <2>4
<1>5. CreatesApart'
  BY <1>1 DEF IInv, CreatesApart, Inserting, Exists
<1>. QED BY <1>2, <1>3, <1>4, <1>5 DEF IInv

\* The parts of a request that no statement changes.
SameCall(q, r) ==
  /\ q.op = r.op /\ q.user = r.user /\ q.note = r.note
  /\ q.ifMatch = r.ifMatch /\ q.patch = r.patch /\ q.known = r.known

LEMMA AnsweredRecord ==
  ASSUME NEW r \in Requests, NEW status \in Statuses,
         NEW view \in Views \cup {Nothing}
  PROVE  LET q == [r EXCEPT !.pc = "reply", !.status = status, !.view = view]
         IN  /\ q \in Requests
             /\ q.pc = "reply" /\ q.status = status /\ q.view = view
             /\ SameCall(q, r)
<1>. DEFINE q == [r EXCEPT !.pc = "reply", !.status = status, !.view = view]
<1>1. q \in Requests
  BY DEF Requests, Pcs
<1>2. q.pc = "reply" /\ q.status = status /\ q.view = view
  BY DEF Requests
<1>3. SameCall(q, r)
  BY Zenon DEF Requests, SameCall
<1>. QED BY <1>1, <1>2, <1>3

\* An answer that leaves the tables alone.
LEMMA QuietAnswer ==
  ASSUME IInv, NEW w \in Workers, req[w].pc # "idle",
         NEW status \in Statuses, NEW view \in Views \cup {Nothing},
         Answer(w, status, view), NoCommit, UNCHANGED access,
         view # Nothing =>
           /\ Exists(req[w].note)
           /\ view.version = notes[req[w].note].version
           /\ StateOf(view) = StateOf(notes[req[w].note])
           /\ ~ view.deleted,
         req[w].op = "update" => status # 200,
         req[w].op = "update" /\ status = 409 /\ req[w].known =>
           view # Nothing /\ view.version > req[w].ifMatch
  PROVE  IInv'
<1>. DEFINE q == [req[w] EXCEPT !.pc = "reply", !.status = status,
                                !.view = view]
            n == req[w].note
<1>1. /\ q \in Requests
      /\ q.pc = "reply" /\ q.status = status /\ q.view = view
      /\ SameCall(q, req[w])
  BY AnsweredRecord DEF IInv, TypeOK
<1>2. req' = [req EXCEPT ![w] = q]
  BY DEF Answer
<1>3. notes' = notes /\ log' = log
  BY DEF NoCommit
<1>4. /\ ControlOK(req[w]) /\ PendingOK(req[w], notes[n], log[n])
      /\ n \in NoteIds
  BY DEF IInv, RequestsOK, ReqOK, ControlOK, Started
<1>5. RowOK(notes[n], log[n]) /\ notes[n] \in Rows \cup {Nothing}
        /\ log[n] \in Seq(States)
  BY <1>4 DEF IInv, RowsAreLogged, TypeOK
<1>. HIDE DEF q
<1>6. ReqOK(q, notes[n], log[n])
  <2>1. ControlOK(q)
    BY <1>1, <1>4 DEF ControlOK, Started, SameCall
  <2>2. PendingOK(q, notes[n], log[n])
    BY <1>1, <1>4 DEF PendingOK, SameCall
  <2>3. AnswerOK(q, log[n])
    <3>1. view # Nothing => /\ view.version \in 1 .. Len(log[n])
                            /\ log[n][view.version] = StateOf(view)
      BY <1>5 DEF RowOK, Exists
    <3>. QED BY <1>1, <3>1 DEF AnswerOK, SameCall
  <2>. QED BY <2>1, <2>2, <2>3 DEF ReqOK
<1>. QED BY <1>1, <1>2, <1>3, <1>6, OneRequest
         DEF IInv, TypeOK, RowsAreLogged, Evolved, SameCall

\* A request that goes on to its next statement.
LEMMA QuietGoto ==
  ASSUME IInv, NEW w \in Workers, req[w].pc # "idle", req[w].pc # "reply",
         NEW pc \in {"validate", "write", "conflict"}, NEW role \in Roles,
         Goto(w, pc, role), NoCommit, UNCHANGED access,
         req[w].op # "create",
         pc \in {"validate", "conflict"} => req[w].op = "update",
         pc = "conflict" /\ req[w].known =>
           \/ Len(log[req[w].note]) > req[w].ifMatch
           \/ notes[req[w].note].deleted,
         pc = "write" /\ req[w].op \in {"delete", "restore"} =>
           /\ notes[req[w].note] # Nothing
           /\ notes[req[w].note].owner = req[w].user
  PROVE  IInv'
<1>. DEFINE q == [req[w] EXCEPT !.pc = pc, !.role = role]
            n == req[w].note
<1>1. /\ q \in Requests
      /\ q.pc = pc /\ q.status = req[w].status /\ q.view = req[w].view
      /\ q.op = req[w].op /\ q.user = req[w].user /\ q.note = n
      /\ q.ifMatch = req[w].ifMatch /\ q.patch = req[w].patch
      /\ q.known = req[w].known
  BY DEF IInv, TypeOK, Requests, Pcs
<1>2. req' = [req EXCEPT ![w] = q]
  BY DEF Goto
<1>3. notes' = notes /\ log' = log
  BY DEF NoCommit
<1>4. /\ ControlOK(req[w]) /\ PendingOK(req[w], notes[n], log[n])
      /\ n \in NoteIds
  BY DEF IInv, RequestsOK, ReqOK, ControlOK, Started
<1>. HIDE DEF q
<1>5. ReqOK(q, notes[n], log[n])
  <2>1. ControlOK(q)
    BY <1>1, <1>4 DEF ControlOK, Started
  <2>2. PendingOK(q, notes[n], log[n])
    BY <1>1, <1>4 DEF PendingOK
  <2>3. AnswerOK(q, log[n])
    BY <1>1, <1>4 DEF AnswerOK, ControlOK
  <2>. QED BY <2>1, <2>2, <2>3 DEF ReqOK
<1>. QED BY <1>1, <1>2, <1>3, <1>5, OneRequest
         DEF IInv, TypeOK, RowsAreLogged, Evolved

\* A statement that commits a row, and the answer to it.
LEMMA CommitAnswer ==
  ASSUME IInv, NEW w \in Workers, req[w].pc = "write",
         NEW row \in Rows, NEW status \in Statuses, NEW role \in Roles,
         NEW view \in {Nothing, ViewOf(row, role)},
         Commit(req[w].note, row), Answer(w, status, view), UNCHANGED access,
         Exists(req[w].note) \/ Inserting(w),
         row.version = Len(log[req[w].note]) + 1,
         Exists(req[w].note) => row.owner = notes[req[w].note].owner,
         view # Nothing => ~ row.deleted,
         status # 409,
         req[w].op = "update" /\ status = 200 =>
           /\ view # Nothing
           /\ req[w].ifMatch = Len(log[req[w].note])
           /\ req[w].ifMatch > 0
           /\ StateOf(row) =
                Apply(log[req[w].note][req[w].ifMatch], req[w].patch)
  PROVE  IInv'
<1>. DEFINE q == [req[w] EXCEPT !.pc = "reply", !.status = status,
                                !.view = view]
            n == req[w].note
            s == StateOf(row)
<1>1. /\ view \in Views \cup {Nothing}
      /\ view # Nothing => view.version = row.version /\ StateOf(view) = s
                             /\ view.deleted = row.deleted
  BY ViewType DEF ViewOf, StateOf
<1>2. /\ q \in Requests
      /\ q.pc = "reply" /\ q.status = status /\ q.view = view
      /\ SameCall(q, req[w])
  BY <1>1, AnsweredRecord DEF IInv, TypeOK
<1>3. req' = [req EXCEPT ![w] = q]
  BY DEF Answer
<1>4. /\ ControlOK(req[w]) /\ PendingOK(req[w], notes[n], log[n])
      /\ n \in NoteIds
  BY DEF IInv, RequestsOK, ReqOK, ControlOK, Started
<1>5. /\ notes \in [NoteIds -> Rows \cup {Nothing}]
      /\ log \in [NoteIds -> Seq(States)]
      /\ row # Nothing
      /\ s \in States
  BY StateOfType, NotesAssumption DEF IInv, TypeOK
<1>. HIDE DEF q
<1>6. /\ notes' = [notes EXCEPT ![n] = row]
      /\ log' = [log EXCEPT ![n] = Append(log[n], s)]
  BY DEF Commit
<1>7. /\ notes'[n] = row /\ log'[n] = Append(log[n], s)
      /\ \A m \in NoteIds \ {n} : notes'[m] = notes[m] /\ log'[m] = log[m]
  BY <1>4, <1>5, <1>6
<1>. HIDE DEF s
<1>8. /\ Len(log'[n]) = Len(log[n]) + 1 /\ Len(log[n]) \in Nat
      /\ log'[n][Len(log[n]) + 1] = s
      /\ \A i \in 1 .. Len(log[n]) : log'[n][i] = log[n][i]
      /\ log'[n] \in Seq(States) /\ log'[n] # <<>>
  BY <1>4, <1>5, <1>7, SMTT(30)
<1>9. ReqOK(q, row, log'[n])
  <2>1. ControlOK(q)
    BY <1>2, <1>4 DEF ControlOK, Started, SameCall
  <2>2. PendingOK(q, row, log'[n])
    BY <1>2, <1>4, <1>8 DEF PendingOK, SameCall
  <2>3. AnswerOK(q, log'[n])
    <3>1. view # Nothing => /\ q.view.version = Len(log[n]) + 1
                            /\ log'[n][q.view.version] = StateOf(q.view)
                            /\ ~ q.view.deleted
      BY <1>1, <1>2, <1>8
    <3>2. q.view # Nothing => /\ q.view.version \in 1 .. Len(log'[n])
                              /\ log'[n][q.view.version] = StateOf(q.view)
                              /\ ~ q.view.deleted
      BY <1>2, <1>8, <3>1
    <3>3. ASSUME q.op = "update", q.status = 200
          PROVE  /\ q.view # Nothing
                 /\ q.ifMatch \in 1 .. Len(log'[n])
                 /\ q.view.version = q.ifMatch + 1
                 /\ log'[n][q.view.version]
                      = Apply(log'[n][q.ifMatch], q.patch)
      <4>1. /\ q.view # Nothing
            /\ q.ifMatch = Len(log[n]) /\ q.ifMatch > 0
            /\ s = Apply(log[n][q.ifMatch], q.patch)
        BY <1>2, <3>3 DEF SameCall, s
      <4>2. log'[n][q.ifMatch] = log[n][q.ifMatch]
        BY <1>8, <4>1
      <4>. QED BY <1>2, <1>8, <3>1, <4>1, <4>2, SMTT(30)
    <3>. QED BY <1>2, <3>2, <3>3 DEF AnswerOK
  <2>. QED BY <2>1, <2>2, <2>3 DEF ReqOK
<1>10. /\ notes' \in [NoteIds -> Rows \cup {Nothing}]
       /\ log' \in [NoteIds -> Seq(States)]
  BY <1>4, <1>5, <1>6, <1>7, <1>8
<1>11. ASSUME NEW m \in NoteIds
       PROVE  Evolved(notes[m], log[m], notes'[m], log'[m])
  <2>1. CASE m # n
    BY <1>7, <2>1 DEF Evolved
  <2>2. CASE m = n
    <3>1. notes[n] # Nothing => row.owner = notes[n].owner
      BY DEF Exists
    <3>2. Evolved(notes[n], log[n], row, Append(log[n], s))
      BY <1>5, <3>1 DEF Evolved
    <3>. QED BY <1>7, <2>2, <3>2
  <2>. QED BY <2>1, <2>2
<1>12. ASSUME NEW m \in NoteIds
       PROVE  RowOK(notes'[m], log'[m])
  <2>1. CASE m = n
    BY <1>5, <1>7, <1>8, <2>1 DEF RowOK, s
  <2>2. CASE m # n
    BY <1>7, <2>2 DEF IInv, RowsAreLogged
  <2>. QED BY <2>1, <2>2
<1>13. ASSUME NEW o \in Workers \ {w}, Inserting(o)
       PROVE  notes'[req[o].note] = notes[req[o].note]
  <2>1. req[o].note # n
    BY <1>13 DEF IInv, CreatesApart
  <2>2. req[o].note \in NoteIds
    BY <1>13 DEF IInv, RequestsOK, ReqOK, ControlOK, Started, Inserting
  <2>. QED BY <1>7, <2>1, <2>2
<1>. QED BY <1>2, <1>3, <1>7, <1>9, <1>10, <1>11, <1>12, <1>13, OneRequest, ZenonT(40)
     DEF SameCall

-----------------------------------------------------------------------------
(* One lemma per action. *)

LEMMA ReceiveStep ==
  ASSUME IInv, NEW w \in Workers, Receive(w)
  PROVE  IInv'
<1>1. PICK op \in Ops, u \in UserIds, n \in NoteIds :
        \E v \in IfMatches(op), p \in Payloads(op) :
          /\ op \in Mutations => Room(n)
          /\ op = "create" =>
               ~ Exists(n) /\ \A o \in Workers : req[o].note # n
          /\ req' = [req EXCEPT ![w] = Opened(op, u, n, v, p)]
  BY DEF Receive
<1>2. PICK v \in IfMatches(op), p \in Payloads(op) :
        /\ op = "create" => ~ Exists(n) /\ \A o \in Workers : req[o].note # n
        /\ req' = [req EXCEPT ![w] = Opened(op, u, n, v, p)]
  BY <1>1
<1>. DEFINE pc == IF op = "create" THEN "write" ELSE "load"
            known == Exists(n) /\ v \in 1 .. notes[n].version
            q == Opened(op, u, n, v, p)
<1>3. pc \in Pcs /\ known \in BOOLEAN
  BY DEF Pcs
<1>4. p \in Patches
  BY NoPatchType, NotesAssumption DEF Contents, Patches, Payloads
<1>5. v \in Versions
  BY NotesAssumption DEF Versions, IfMatches
<1>. HIDE DEF pc, known
<1>6. q = [pc |-> pc, op |-> op, user |-> u, note |-> n, ifMatch |-> v,
           patch |-> p, role |-> RoleNone, known |-> known, status |-> 0,
           view |-> Nothing]
  BY Zenon DEF Opened, pc, known
<1>. HIDE DEF q
<1>8. q \in Requests
  BY <1>3, <1>4, <1>5, <1>6
     DEF Requests, Statuses, Roles, RoleNone, RoleOwner
<1>9. /\ req' \in [Workers -> Requests]
      /\ req'[w] = q
      /\ \A o \in Workers \ {w} : req'[o] = req[o]
  BY <1>2, <1>8 DEF IInv, TypeOK, q
<1>10. UNCHANGED <<notes, access, log>>
  BY DEF Receive
<1>11. /\ q.pc = pc /\ q.op = op /\ q.user = u /\ q.note = n
       /\ q.ifMatch = v /\ q.patch = p /\ q.view = Nothing
  BY <1>6
<1>12. q.known <=> known
  BY <1>6, Zenon
<1>13. q.known => q.op = "update" /\ q.ifMatch \in 1 .. Len(log[n])
  <2>1. known => v \in 1 .. Len(log[n])
    BY DEF known, Exists, IInv, RowsAreLogged, RowOK
  <2>2. known => op = "update"
    BY DEF known, IfMatches
  <2>. QED BY <1>11, <1>12, <2>1, <2>2
<1>14. ReqOK(q, notes[n], log[n])
  BY <1>11, <1>13
     DEF ReqOK, ControlOK, PendingOK, AnswerOK, Started, pc, Payloads
<1>15. TypeOK'
  BY <1>9, <1>10 DEF IInv, TypeOK
<1>16. RowsAreLogged'
  BY <1>10 DEF IInv, RowsAreLogged
<1>17. RequestsOK'
  BY <1>9, <1>10, <1>11, <1>14 DEF IInv, RequestsOK
<1>18. CreatesApart'
  BY <1>2, <1>9, <1>10, <1>11 DEF IInv, CreatesApart, Inserting, Exists, pc
<1>. QED BY <1>15, <1>16, <1>17, <1>18 DEF IInv

\* What load() has checked by the time it lets a request through.
LEMMA Loaded ==
  ASSUME IInv, NEW w \in Workers, req[w].pc = "load",
         LoadRefusal(req[w]) = 0
  PROVE  /\ req[w].note \in NoteIds /\ req[w].user \in UserIds
         /\ Exists(req[w].note)
         /\ notes[req[w].note] \in Rows
         /\ notes[req[w].note].version = Len(log[req[w].note])
         /\ RoleOf(req[w].user, req[w].note) \in Roles
         /\ Can(RoleOf(req[w].user, req[w].note), req[w].op)
         /\ notes[req[w].note].deleted => req[w].op = "restore"
<1>1. req[w].note \in NoteIds /\ req[w].user \in UserIds
  BY DEF IInv, RequestsOK, ReqOK, ControlOK, Started
<1>2. Exists(req[w].note)
  BY DEF LoadRefusal
<1>3. notes[req[w].note] \in Rows
  BY <1>1, <1>2 DEF Exists, IInv, TypeOK
<1>4. notes[req[w].note].version = Len(log[req[w].note])
  BY <1>1, <1>2 DEF Exists, IInv, RowsAreLogged, RowOK
<1>5. RoleOf(req[w].user, req[w].note) \in Roles
  BY <1>1, RoleOfType DEF IInv
<1>6. Can(RoleOf(req[w].user, req[w].note), req[w].op)
  BY DEF LoadRefusal
<1>7. notes[req[w].note].deleted => req[w].op = "restore"
  BY DEF LoadRefusal
<1>. QED BY <1>1, <1>2, <1>3, <1>4, <1>5, <1>6, <1>7

\* An owner-only action is the owner's: no grant reaches that rank.
LEMMA OnlyOwner ==
  ASSUME TypeOK, NEW u \in UserIds, NEW n \in NoteIds,
         NEW op \in {"delete", "restore"}, Can(RoleOf(u, n), op)
  PROVE  notes[n].owner = u
BY OwnerActionsAreOwners DEF RoleOf, OwnerActions, TypeOK

LEMMA LoadStep ==
  ASSUME IInv, NEW w \in Workers, Load(w)
  PROVE  IInv'
<1>. DEFINE r == req[w]
            n == req[w].note
            role == RoleOf(req[w].user, req[w].note)
<1>1. req[w].pc = "load" /\ NoCommit /\ UNCHANGED access
  BY DEF Load
<1>2. CASE LoadRefusal(r) # 0 /\ Answer(w, LoadRefusal(r), Nothing)
  <2>1. LoadRefusal(r) \in {403, 404}
    BY <1>2 DEF LoadRefusal
  <2>2. LoadRefusal(r) \in Statuses /\ LoadRefusal(r) \notin {200, 409}
    BY <2>1 DEF Statuses
  <2>. QED BY <1>1, <1>2, <2>2, QuietAnswer
<1>3. CASE LoadRefusal(r) = 0 /\ AfterLoad(w)
  <2>1. /\ n \in NoteIds /\ req[w].user \in UserIds
        /\ Exists(n) /\ notes[n] \in Rows
        /\ role \in Roles
        /\ Can(role, req[w].op)
        /\ notes[n].deleted => req[w].op = "restore"
    BY <1>1, <1>3, Loaded
  <2>2. CASE r.op = "read" /\ Answer(w, 200, ViewOf(notes[n], role))
    <3>1. /\ ViewOf(notes[n], role) \in Views
          /\ ViewOf(notes[n], role).version = notes[n].version
          /\ StateOf(ViewOf(notes[n], role)) = StateOf(notes[n])
      BY <2>1, ViewType DEF ViewOf, StateOf
    <3>2. ~ ViewOf(notes[n], role).deleted
      BY <2>1, <2>2 DEF ViewOf
    <3>. QED BY <1>1, <2>1, <2>2, <3>1, <3>2, QuietAnswer DEF Statuses
  <2>3. CASE /\ r.op = "update"
             /\ \E status \in {428, 400} : Answer(w, status, Nothing)
    BY <1>1, <2>3, QuietAnswer DEF Statuses
  <2>4. CASE r.op = "update" /\ Answer(w, 400, Nothing)
    BY <1>1, <2>4, QuietAnswer DEF Statuses
  <2>5. CASE /\ r.op = "update"
             /\ Goto(w, IF r.patch.body = Keep THEN "write" ELSE "validate",
                     role)
    BY <1>1, <2>1, <2>5, QuietGoto
  <2>6. CASE r.op \in {"delete", "restore"} /\ Goto(w, "write", role)
    <3>1. notes[n].owner = req[w].user
      BY <2>1, <2>6, OnlyOwner DEF IInv
    <3>. QED BY <1>1, <2>1, <2>6, <3>1, QuietGoto DEF Exists
  <2>7. CASE r.op = "restore" /\ Answer(w, 409, Nothing)
    BY <1>1, <2>7, QuietAnswer DEF Statuses
  <2>. QED BY <1>3, <2>2, <2>3, <2>4, <2>5, <2>6, <2>7 DEF AfterLoad
<1>. QED BY <1>2, <1>3 DEF Load

LEMMA ValidateBodyStep ==
  ASSUME IInv, NEW w \in Workers, ValidateBody(w)
  PROVE  IInv'
<1>1. /\ req[w].pc = "validate" /\ NoCommit /\ UNCHANGED access
      /\ req[w].op = "update" /\ req[w].role \in Roles
  BY DEF ValidateBody, IInv, RequestsOK, ReqOK, ControlOK, TypeOK, Requests
<1>2. CASE Goto(w, "write", req[w].role)
  BY <1>1, <1>2, QuietGoto
<1>3. CASE Answer(w, 400, Nothing)
  BY <1>1, <1>3, QuietAnswer DEF Statuses
<1>. QED BY <1>2, <1>3 DEF ValidateBody

LEMMA CreateNoteStep ==
  ASSUME IInv, NEW w \in Workers, CreateNote(w)
  PROVE  IInv'
<1>. DEFINE r == req[w]
            row == [owner |-> r.user, title |-> r.patch.title,
                    body |-> r.patch.body, version |-> 1, deleted |-> FALSE]
<1>1. /\ r.pc = "write" /\ r.op = "create" /\ UNCHANGED access
      /\ \/ /\ Commit(r.note, row)
            /\ \/ Answer(w, 201, ViewOf(row, RoleOwner))
               \/ Answer(w, 500, Nothing)
         \/ NoCommit /\ Answer(w, 400, Nothing)
  BY Zenon DEF CreateNote, AnswerError
<1>2. r.patch \in Contents /\ r.user \in UserIds /\ r.note \in NoteIds
  BY <1>1 DEF IInv, RequestsOK, ReqOK, PendingOK, ControlOK, Started
<1>3. row \in Rows /\ row.version = 1 /\ ~ row.deleted
  BY <1>2 DEF Rows, Contents
<1>4. ~ Exists(r.note) /\ Inserting(w)
  BY <1>1 DEF IInv, CreatesApart, Inserting
<1>5. Len(log[r.note]) = 0
  BY <1>2, <1>4 DEF IInv, RowsAreLogged, RowOK, Exists
<1>6. RoleOwner \in Roles
  BY DEF Roles, RoleNone, RoleOwner
<1>. HIDE DEF row
<1>7. CASE Commit(r.note, row) /\ Answer(w, 201, ViewOf(row, RoleOwner))
  BY <1>1, <1>3, <1>4, <1>5, <1>6, <1>7, CommitAnswer DEF Statuses
<1>8. CASE Commit(r.note, row) /\ Answer(w, 500, Nothing)
  BY <1>1, <1>3, <1>4, <1>5, <1>6, <1>8, CommitAnswer DEF Statuses
<1>9. CASE NoCommit /\ Answer(w, 400, Nothing)
  BY <1>1, <1>9, QuietAnswer DEF Statuses
<1>. QED BY <1>1, <1>7, <1>8, <1>9

\* What the statement of a request on an existing note finds.
LEMMA Found ==
  ASSUME IInv, NEW w \in Workers, req[w].pc # "idle", Exists(req[w].note)
  PROVE  /\ req[w].note \in NoteIds
         /\ notes[req[w].note] \in Rows
         /\ Len(log[req[w].note]) \in Nat \ {0}
         /\ notes[req[w].note].version = Len(log[req[w].note])
         /\ log[req[w].note][Len(log[req[w].note])]
              = StateOf(notes[req[w].note])
<1>1. req[w].note \in NoteIds
  BY DEF IInv, RequestsOK, ReqOK, ControlOK, Started
<1>2. RowOK(notes[req[w].note], log[req[w].note])
  BY <1>1 DEF IInv, RowsAreLogged
<1>3. /\ notes[req[w].note] \in Rows
      /\ log[req[w].note] \in Seq(States)
  BY <1>1 DEF Exists, IInv, TypeOK
<1>. QED BY <1>1, <1>2, <1>3 DEF RowOK, Exists

LEMMA UpdateNoteStep ==
  ASSUME IInv, NEW w \in Workers, UpdateNote(w)
  PROVE  IInv'
<1>. DEFINE r == req[w]
            n == req[w].note
            row == Edited(notes[req[w].note], req[w].patch)
<1>1. /\ r.pc = "write" /\ r.op = "update" /\ UNCHANGED access
      /\ \/ /\ UpdateMatches(r)
            /\ Commit(n, row)
            /\ Answer(w, 200, ViewOf(row, r.role)) \/ Answer(w, 500, Nothing)
         \/ ~ UpdateMatches(r) /\ NoCommit /\ Goto(w, "conflict", r.role)
  BY Zenon DEF UpdateNote, AnswerError
<1>2. r \in Requests /\ r.role \in Roles /\ r.patch \in Patches
  BY DEF IInv, TypeOK, Requests
<1>3. CASE /\ UpdateMatches(r) /\ Commit(n, row)
           /\ Answer(w, 200, ViewOf(row, r.role)) \/ Answer(w, 500, Nothing)
  <2>1. /\ Exists(n) /\ notes[n].version = r.ifMatch /\ ~ notes[n].deleted
    BY <1>3 DEF UpdateMatches
  <2>2. /\ notes[n] \in Rows
        /\ Len(log[n]) \in Nat \ {0}
        /\ notes[n].version = Len(log[n])
        /\ log[n][Len(log[n])] = StateOf(notes[n])
    BY <1>1, <2>1, Found
  <2>3. /\ row \in Rows
        /\ row.version = notes[n].version + 1
        /\ ~ row.deleted
        /\ row.owner = notes[n].owner
        /\ StateOf(row) = Apply(StateOf(notes[n]), r.patch)
    BY <1>2, <2>1, <2>2, EditedType
  <2>4. /\ r.ifMatch = Len(log[n]) /\ r.ifMatch > 0
        /\ StateOf(row) = Apply(log[n][r.ifMatch], r.patch)
    BY <2>1, <2>2, <2>3
  <2>. HIDE DEF row
  <2>5. CASE Answer(w, 200, ViewOf(row, r.role))
    <3>1. ViewOf(row, r.role) # Nothing
      BY <1>2, <2>3, ViewType, NotesAssumption
    <3>2. Commit(n, row)
      BY <1>3
    <3>3. 200 \in Statuses
      BY DEF Statuses
    <3>4. row.version = Len(log[n]) + 1
      BY <2>2, <2>3
    <3>. DEFINE view == ViewOf(row, r.role)
    <3>5. view \in {Nothing, ViewOf(row, r.role)}
      OBVIOUS
    <3>. HIDE DEF view
    <3>6. Answer(w, 200, view) /\ view # Nothing
      BY <2>5, <3>1 DEF view
    <3>. QED
      BY <1>1, <1>2, <2>1, <2>3, <2>4, <3>2, <3>3, <3>4, <3>5, <3>6,
         CommitAnswer
  <2>6. CASE Answer(w, 500, Nothing)
    <3>1. 500 \in Statuses /\ 500 # 409 /\ 500 # 200
      BY DEF Statuses
    <3>2. Commit(n, row) /\ row.version = Len(log[n]) + 1
      BY <1>3, <2>2, <2>3
    <3>3. Nothing \in {Nothing, ViewOf(row, r.role)}
      OBVIOUS
    <3>. QED
      BY <1>1, <1>2, <2>1, <2>3, <2>6, <3>1, <3>2, <3>3, CommitAnswer
  <2>. QED BY <1>3, <2>5, <2>6
<1>4. CASE ~ UpdateMatches(r) /\ NoCommit /\ Goto(w, "conflict", r.role)
  <2>1. r.known => Len(log[n]) > r.ifMatch \/ notes[n].deleted
    <3>1. SUFFICES ASSUME r.known
                   PROVE  Len(log[n]) > r.ifMatch \/ notes[n].deleted
      OBVIOUS
    <3>2. r.ifMatch \in 1 .. Len(log[n])
      BY <3>1 DEF IInv, RequestsOK, ReqOK, PendingOK
    <3>3. n \in NoteIds /\ RowOK(notes[n], log[n])
      BY <1>1
         DEF IInv, RequestsOK, ReqOK, ControlOK, Started, RowsAreLogged
    <3>4. Exists(n) /\ notes[n].version = Len(log[n])
      BY <3>2, <3>3 DEF RowOK, Exists
    <3>5. log[n] \in Seq(States)
      BY <3>3 DEF IInv, TypeOK
    <3>. QED BY <1>4, <3>2, <3>4, <3>5 DEF UpdateMatches
  <2>. QED BY <1>1, <1>2, <1>4, <2>1, QuietGoto
<1>. QED BY <1>1, <1>3, <1>4

LEMMA ConflictStep ==
  ASSUME IInv, NEW w \in Workers, Conflict(w)
  PROVE  IInv'
<1>. DEFINE r == req[w]
            n == req[w].note
            view == ViewOf(notes[n], RoleOf(r.user, n))
<1>1. r.pc = "conflict" /\ NoCommit /\ UNCHANGED access
  BY DEF Conflict
<1>2. CASE (~ Exists(n) \/ notes[n].deleted) /\ Answer(w, 404, Nothing)
  BY <1>1, <1>2, QuietAnswer DEF Statuses
<1>3. CASE Exists(n) /\ ~ notes[n].deleted /\ Answer(w, 409, view)
  <2>1. /\ n \in NoteIds /\ notes[n] \in Rows
        /\ notes[n].version = Len(log[n])
    BY <1>1, <1>3, Found
  <2>2. r.user \in UserIds
    BY <1>1 DEF IInv, RequestsOK, ReqOK, ControlOK, Started
  <2>3. RoleOf(r.user, n) \in Roles
    BY <2>1, <2>2, RoleOfType DEF IInv
  <2>4. /\ view \in Views /\ view.version = notes[n].version
        /\ StateOf(view) = StateOf(notes[n])
    BY <2>1, <2>3, ViewType DEF ViewOf, StateOf
  <2>5. ~ view.deleted
    BY <1>3, Zenon DEF ViewOf
  <2>6. r.known => view # Nothing /\ view.version > r.ifMatch
    BY <1>1, <1>3, <2>1, <2>4, NotesAssumption
       DEF IInv, RequestsOK, ReqOK, PendingOK
  <2>. HIDE DEF view
  <2>. QED BY <1>1, <1>3, <2>4, <2>5, <2>6, QuietAnswer DEF Statuses
<1>. QED BY <1>2, <1>3 DEF Conflict

LEMMA SoftDeleteNoteStep ==
  ASSUME IInv, NEW w \in Workers, SoftDeleteNote(w)
  PROVE  IInv'
<1>. DEFINE n == req[w].note
            row == SoftDeleted(notes[n])
<1>1. req[w].pc = "write" /\ req[w].op = "delete" /\ UNCHANGED access
  BY DEF SoftDeleteNote
<1>2. CASE /\ SoftDeleteMatches(req[w]) /\ Commit(n, row)
           /\ Answer(w, 204, Nothing) \/ Answer(w, 500, Nothing)
  <2>1. Exists(n)
    BY <1>2 DEF SoftDeleteMatches
  <2>2. notes[n] \in Rows /\ notes[n].version = Len(log[n])
    BY <1>1, <2>1, Found
  <2>3. /\ row \in Rows /\ row.version = notes[n].version + 1
        /\ row.owner = notes[n].owner
    BY <2>2, LifecycleType
  <2>4. RoleNone \in Roles
    BY DEF Roles, RoleNone, RoleOwner
  <2>. HIDE DEF row
  <2>. QED BY <1>1, <1>2, <2>1, <2>2, <2>3, <2>4, CommitAnswer DEF Statuses
<1>3. CASE NoCommit /\ Answer(w, 204, Nothing)
  BY <1>1, <1>3, QuietAnswer DEF Statuses
<1>. QED BY <1>2, <1>3 DEF SoftDeleteNote, AnswerError

LEMMA RestoreNoteStep ==
  ASSUME IInv, NEW w \in Workers, RestoreNote(w)
  PROVE  IInv'
<1>. DEFINE n == req[w].note
            row == Restored(notes[n])
<1>1. /\ req[w].pc = "write" /\ req[w].op = "restore" /\ UNCHANGED access
      /\ req[w].role \in Roles
  BY DEF RestoreNote, IInv, TypeOK, Requests
<1>2. CASE /\ RestoreMatches(req[w]) /\ Commit(n, row)
           /\ \/ Answer(w, 200, ViewOf(row, req[w].role))
              \/ Answer(w, 500, Nothing)
  <2>1. Exists(n)
    BY <1>2 DEF RestoreMatches
  <2>2. notes[n] \in Rows /\ notes[n].version = Len(log[n])
    BY <1>1, <2>1, Found
  <2>3. /\ row \in Rows /\ row.version = notes[n].version + 1
        /\ row.owner = notes[n].owner /\ ~ row.deleted
    BY <2>2, LifecycleType
  <2>. HIDE DEF row
  <2>. QED BY <1>1, <1>2, <2>1, <2>2, <2>3, CommitAnswer DEF Statuses
<1>3. CASE NoCommit /\ Answer(w, 500, Nothing)
  BY <1>1, <1>3, QuietAnswer DEF Statuses
<1>. QED BY <1>2, <1>3 DEF RestoreNote, AnswerError

LEMMA StatementFailsStep ==
  ASSUME IInv, NEW w \in Workers, StatementFails(w)
  PROVE  IInv'
BY QuietAnswer DEF StatementFails, AnswerError, Statuses

LEMMA RespondStep ==
  ASSUME IInv, NEW w \in Workers, Respond(w)
  PROVE  IInv'
<1>1. /\ req' = [req EXCEPT ![w] = IdleReq]
      /\ notes' = notes /\ log' = log /\ UNCHANGED access
  BY DEF Respond, NoCommit
<1>2. ReqOK(IdleReq, notes'[IdleReq.note], log'[IdleReq.note])
  BY DEF ReqOK, ControlOK, PendingOK, AnswerOK, IdleReq
<1>3. IdleReq.pc = "idle"
  BY DEF IdleReq
<1>. QED BY <1>1, <1>2, <1>3, IdleReqType, OneRequest
         DEF IInv, TypeOK, RowsAreLogged, Evolved

LEMMA ChangeAccessStep ==
  ASSUME IInv, NEW n \in NoteIds, ChangeAccess(n)
  PROVE  IInv'
<1>1. UNCHANGED <<notes, req, log>>
  BY DEF ChangeAccess
<1>2. access' \in [NoteIds -> [UserIds -> {RoleNone} \cup GrantRoles]]
  BY DEF ChangeAccess, IInv, TypeOK
<1>. QED BY <1>1, <1>2
         DEF IInv, TypeOK, RowsAreLogged, RequestsOK, CreatesApart,
             Inserting, Exists

-----------------------------------------------------------------------------
(* The theorems. *)

LEMMA InvInit == Init => IInv
<1>. SUFFICES ASSUME Init PROVE IInv
  OBVIOUS
<1>1. TypeOK
  BY TypeInit
<1>2. RowsAreLogged
  BY DEF Init, RowsAreLogged, RowOK
<1>3. \A w \in Workers : req[w] = IdleReq
  BY DEF Init
<1>4. RequestsOK
  BY <1>3
     DEF RequestsOK, ReqOK, ControlOK, PendingOK, AnswerOK, IdleReq
<1>5. CreatesApart
  BY <1>3 DEF CreatesApart, Inserting, IdleReq
<1>. QED BY <1>1, <1>2, <1>4, <1>5 DEF IInv

LEMMA InvStep == IInv /\ [Next]_vars => IInv'
<1>. SUFFICES ASSUME IInv, [Next]_vars PROVE IInv'
  OBVIOUS
<1>1. ASSUME NEW w \in Workers, Receive(w) PROVE IInv'
  BY <1>1, ReceiveStep
<1>2. ASSUME NEW w \in Workers, Load(w) PROVE IInv'
  BY <1>2, LoadStep
<1>3. ASSUME NEW w \in Workers, ValidateBody(w) PROVE IInv'
  BY <1>3, ValidateBodyStep
<1>4. ASSUME NEW w \in Workers, CreateNote(w) PROVE IInv'
  BY <1>4, CreateNoteStep
<1>5. ASSUME NEW w \in Workers, UpdateNote(w) PROVE IInv'
  BY <1>5, UpdateNoteStep
<1>6. ASSUME NEW w \in Workers, Conflict(w) PROVE IInv'
  BY <1>6, ConflictStep
<1>7. ASSUME NEW w \in Workers, SoftDeleteNote(w) PROVE IInv'
  BY <1>7, SoftDeleteNoteStep
<1>8. ASSUME NEW w \in Workers, RestoreNote(w) PROVE IInv'
  BY <1>8, RestoreNoteStep
<1>9. ASSUME NEW w \in Workers, StatementFails(w) PROVE IInv'
  BY <1>9, StatementFailsStep
<1>10. ASSUME NEW w \in Workers, Respond(w) PROVE IInv'
  BY <1>10, RespondStep
<1>11. ASSUME NEW n \in NoteIds, ChangeAccess(n) PROVE IInv'
  BY <1>11, ChangeAccessStep
<1>12. CASE UNCHANGED vars
  BY <1>12
     DEF vars, IInv, TypeOK, RowsAreLogged, RequestsOK, CreatesApart,
         Inserting, Exists
<1>. QED
  BY <1>1, <1>2, <1>3, <1>4, <1>5, <1>6, <1>7, <1>8, <1>9, <1>10, <1>11,
     <1>12 DEF Next

\* The inductive invariant holds in every reachable state.
THEOREM Invariance == Spec => []IInv
BY InvInit, InvStep, PTL DEF Spec

\* Every reachable state is well typed, whatever the bounds.
THEOREM TypeCorrect == Spec => []TypeOK
<1>1. IInv => TypeOK
  BY DEF IInv
<1>. QED BY <1>1, Invariance, PTL

\* An entity tag names one state of its note, and no response shows a deleted
\* one, for any number of concurrent requests.
THEOREM ETags == Spec => []ETagNamesOneState
<1>1. IInv => ETagNamesOneState
  BY DEF IInv, RequestsOK, ReqOK, AnswerOK, ETagNamesOneState
<1>. QED BY <1>1, Invariance, PTL

\* No update answered 200 loses another one: it was applied to the very state
\* its If-Match names.
THEOREM NoLostUpdate == Spec => []UpdateBuildsOnIfMatch
<1>1. IInv => UpdateBuildsOnIfMatch
  BY DEF IInv, RequestsOK, ReqOK, AnswerOK, UpdateBuildsOnIfMatch, Answered
<1>. QED BY <1>1, Invariance, PTL

\* A 409 hands back something its client has not seen.
THEOREM ConflictsAreReal == Spec => []ConflictIsNewer
<1>1. IInv => ConflictIsNewer
  BY DEF IInv, RequestsOK, ReqOK, AnswerOK, ConflictIsNewer, Answered
<1>. QED BY <1>1, Invariance, PTL

\* The step that deletes or restores a note, named: its worker, and its owner.
OwnersStep(n) ==
  notes[n] # Nothing /\ notes'[n].deleted # notes[n].deleted =>
    \E w \in Workers : /\ req[w].note = n
                       /\ req[w].op \in {"delete", "restore"}
                       /\ req[w].pc = "write" /\ req'[w].pc = "reply"
                       /\ req[w].user = notes'[n].owner

LEMMA LifecycleStep ==
  ASSUME IInv, NEW w \in Workers, SoftDeleteNote(w) \/ RestoreNote(w),
         NEW n \in NoteIds
  PROVE  OwnersStep(n)
<1>. DEFINE m == req[w].note
<1>1. /\ req[w].pc = "write" /\ req[w].op \in {"delete", "restore"}
      /\ \/ NoCommit
         \/ Exists(m) /\ Commit(m, SoftDeleted(notes[m]))
         \/ Exists(m) /\ Commit(m, Restored(notes[m]))
  BY DEF SoftDeleteNote, RestoreNote, SoftDeleteMatches, RestoreMatches
<1>2. req'[w].pc = "reply"
  <2>1. \E status, view : Answer(w, status, view)
    BY DEF SoftDeleteNote, RestoreNote, AnswerError
  <2>2. req[w] \in Requests /\ req \in [Workers -> Requests]
    BY DEF IInv, TypeOK
  <2>. QED BY <2>1, <2>2 DEF Answer, Requests
<1>3. CASE NoCommit
  BY <1>3 DEF NoCommit, OwnersStep
<1>4. ASSUME NEW row \in Rows, Exists(m), Commit(m, row),
             row.owner = notes[m].owner
      PROVE  OwnersStep(n)
  <2>1. m \in NoteIds /\ notes \in [NoteIds -> Rows \cup {Nothing}]
    BY <1>1, <1>4, Found DEF IInv, TypeOK
  <2>2. notes'[m] = row /\ \A k \in NoteIds \ {m} : notes'[k] = notes[k]
    BY <1>4, <2>1 DEF Commit
  <2>3. req[w].user = notes[m].owner
    BY <1>1 DEF IInv, RequestsOK, ReqOK, PendingOK
  <2>. QED BY <1>1, <1>2, <1>4, <2>2, <2>3 DEF OwnersStep
<1>5. Exists(m) => notes[m] \in Rows
  BY <1>1, Found
<1>6. CASE Exists(m) /\ Commit(m, SoftDeleted(notes[m]))
  BY <1>4, <1>5, <1>6, LifecycleType
<1>7. CASE Exists(m) /\ Commit(m, Restored(notes[m]))
  BY <1>4, <1>5, <1>7, LifecycleType
<1>. QED BY <1>1, <1>3, <1>6, <1>7

\* Every other statement leaves each note as deleted, or as live, as it was.
LEMMA DeletedKept ==
  ASSUME IInv, NEW w \in Workers, CreateNote(w) \/ UpdateNote(w),
         NEW n \in NoteIds, notes[n] # Nothing
  PROVE  notes'[n].deleted = notes[n].deleted
<1>. DEFINE m == req[w].note
<1>1. notes \in [NoteIds -> Rows \cup {Nothing}]
  BY DEF IInv, TypeOK
<1>2. CASE NoCommit
  BY <1>2 DEF NoCommit
<1>3. CASE CreateNote(w) /\ ~ NoCommit
  <2>1. ~ Exists(m)
    BY <1>3 DEF CreateNote, IInv, CreatesApart, Inserting
  <2>2. \E row : notes' = [notes EXCEPT ![m] = row]
    BY <1>3 DEF CreateNote, Commit
  <2>. QED BY <1>1, <2>1, <2>2 DEF Exists
<1>4. CASE UpdateNote(w) /\ ~ NoCommit
  <2>1. /\ req[w].pc = "write" /\ Exists(m)
        /\ notes' = [notes EXCEPT ![m] = Edited(notes[m], req[w].patch)]
    BY <1>4 DEF UpdateNote, UpdateMatches, Commit
  <2>2. notes[m] \in Rows
    BY <2>1, Found
  <2>3. req[w].patch \in Patches
    BY DEF IInv, TypeOK, Requests
  <2>4. Edited(notes[m], req[w].patch).deleted = notes[m].deleted
    BY <2>2, <2>3, EditedType
  <2>. QED BY <1>1, <2>1, <2>4
<1>. QED BY <1>2, <1>3, <1>4

\* Only the note's owner ever deletes or restores it, at the moment the
\* statement commits and not only when load() looked.
THEOREM OwnerOnlyLifecycle == Spec => LifecycleByOwner
<1>1. ASSUME IInv, [Next]_vars, NEW n \in NoteIds
      PROVE  OwnersStep(n)
  <2>1. ASSUME NEW w \in Workers, SoftDeleteNote(w) \/ RestoreNote(w)
        PROVE  OwnersStep(n)
    BY <1>1, <2>1, LifecycleStep
  <2>2. ASSUME NEW w \in Workers, CreateNote(w) \/ UpdateNote(w)
        PROVE  OwnersStep(n)
    BY <1>1, <2>2, DeletedKept DEF OwnersStep
  <2>3. CASE notes' = notes
    BY <2>3 DEF OwnersStep
  <2>. QED
    BY <1>1, <2>1, <2>2, <2>3
       DEF Next, vars, Receive, Load, ValidateBody, Conflict, StatementFails,
           Respond, ChangeAccess, NoCommit
<1>2. IInv /\ [Next]_vars =>
        [\A n \in NoteIds :
           notes[n] # Nothing /\ notes'[n].deleted # notes[n].deleted =>
             \E w \in Workers : /\ req[w].note = n
                                /\ req[w].op \in {"delete", "restore"}
                                /\ req[w].pc = "write" /\ req'[w].pc = "reply"
                                /\ req[w].user = notes'[n].owner]_vars
  BY <1>1 DEF OwnersStep
<1>. QED BY <1>2, Invariance, PTL DEF Spec, LifecycleByOwner
=============================================================================
