------------------------------- MODULE Notes -------------------------------
(***************************************************************************)
(* The note handlers (internal/notes/handler.go) over the notes table.     *)
(* Every request runs in a goroutine of its own and talks to Postgres one  *)
(* statement at a time, so each action below is one statement together     *)
(* with the code up to the next one.  Between two statements of a request  *)
(* any other request may commit, and any user's access may change.         *)
(*                                                                         *)
(* note_shares and team_members are seen through what GetNoteWithAccess    *)
(* computes from them, the highest rank a user is granted on a note;       *)
(* module Sharing has the tables themselves.                               *)
(***************************************************************************)
EXTENDS Authz, NoteContent, Sequences, FiniteSets

CONSTANTS NoteIds, UserIds,
          Workers,     \* request goroutines
          SentPatches, \* the PATCH bodies clients send
          MaxVersion,  \* bound: no note is taken past this version
          Nothing      \* no row, no body

Versions == 0 .. MaxVersion

VARIABLES
  notes,    \* the table: note -> row, Nothing before CreateNote
  access,   \* note -> user -> highest rank granted, directly or by a team
  req,      \* worker -> the request it serves
  log       \* history variable: note -> the states it went through

vars == <<notes, access, req, log>>

\* The handler method a request runs until its response is written.
Ops == {"create", "read", "update", "delete", "restore"}

Mutations == {"create", "update", "delete", "restore"}

\* `known` is a history variable: the version an update names existed when the
\* request came in.
IdleReq == [pc |-> "idle", op |-> "none", user |-> Nothing, note |-> Nothing,
            ifMatch |-> 0, patch |-> NoPatch, role |-> RoleNone, known |-> FALSE,
            status |-> 0, view |-> Nothing]

Rows == [owner : UserIds, title : Titles, body : Bodies,
         version : Nat, deleted : BOOLEAN]

Views == [version : Nat, title : Titles, body : Bodies,
          deleted : BOOLEAN, role : Roles]

ASSUME NotesAssumption ==
  /\ SentPatches \subseteq Patches
  /\ MaxVersion \in Nat
  /\ IsFiniteSet(Workers)
  /\ Nothing \notin NoteIds \cup Rows \cup Views

Init ==
  /\ notes = [n \in NoteIds |-> Nothing]
  /\ access = [n \in NoteIds |-> [u \in UserIds |-> RoleNone]]
  /\ req = [w \in Workers |-> IdleReq]
  /\ log = [n \in NoteIds |-> <<>>]

-----------------------------------------------------------------------------
(* Statements of notes.sql. *)

Exists(n) == notes[n] # Nothing

\* The effective_role column of GetNoteWithAccess.
RoleOf(u, n) == EffectiveRole(u, notes[n].owner, {access[n][u]})

\* The row as a response body carries it (fromAccess, fromUpdate, ...).
ViewOf(row, role) ==
  [version |-> row.version, title |-> row.title, body |-> row.body,
   deleted |-> row.deleted, role |-> role]

\* The row of UpdateNote, had its predicate held.
Edited(row, patch) ==
  [row EXCEPT !.title = Coalesce(patch.title, @),
              !.body = Coalesce(patch.body, @), !.version = @ + 1]

SoftDeleted(row) == [row EXCEPT !.deleted = TRUE, !.version = @ + 1]

\* Mutant: restoring keeps the version.
RestoredSameVersion(row) == [row EXCEPT !.deleted = FALSE]

Restored(row) == [row EXCEPT !.deleted = FALSE, !.version = @ + 1]

\* Mutant: no version in the where clause.
UpdateMatchesAnyVersion(r) == Exists(r.note) /\ ~ notes[r.note].deleted

\* Mutant: the expected version is taken for the one the update will write.
UpdateMatchesNext(r) ==
  /\ Exists(r.note)
  /\ notes[r.note].version = r.ifMatch - 1
  /\ ~ notes[r.note].deleted

\* The where clauses: whether the statement finds its row.
UpdateMatches(r) ==
  /\ Exists(r.note)
  /\ notes[r.note].version = r.ifMatch
  /\ ~ notes[r.note].deleted

\* Mutant: no "deleted_at is null" in SoftDeleteNote.
SoftDeleteMatchesDeleted(r) == Exists(r.note)

SoftDeleteMatches(r) == Exists(r.note) /\ ~ notes[r.note].deleted

RestoreMatches(r) == Exists(r.note) /\ notes[r.note].deleted

StateOf(row) == [title |-> row.title, body |-> row.body,
                 deleted |-> row.deleted]

Commit(n, row) ==
  /\ notes' = [notes EXCEPT ![n] = row]
  /\ log' = [log EXCEPT ![n] = Append(@, StateOf(row))]

NoCommit == UNCHANGED <<notes, log>>

-----------------------------------------------------------------------------
(* A request's own steps. *)

Goto(w, pc, role) ==
  req' = [req EXCEPT ![w] = [@ EXCEPT !.pc = pc, !.role = role]]

Answer(w, status, view) ==
  req' = [req EXCEPT ![w] = [@ EXCEPT !.pc = "reply", !.status = status,
                                      !.view = view]]

\* WriteProblem's answer to an error that is no Problem: the client has gone, the
\* request's deadline or statement_timeout has passed, the connection was lost,
\* anything else.  500 stands for the 499, 503 or 500 it is (module Serving tells
\* them apart): none of them says whether the statement took effect.
AnswerError(w) == Answer(w, 500, Nothing)

\* Versions the mutations already under way may still use up; bounds the model.
Room(n) ==
  (IF Exists(n) THEN notes[n].version ELSE 0)
    + Cardinality({w \in Workers : req[w].note = n /\ req[w].op \in Mutations})
  < MaxVersion

\* A request as its handler starts on it.  A create's checks come before its
\* only statement; every other handler loads the note first.
Opened(op, u, n, v, p) ==
  [pc |-> IF op = "create" THEN "write" ELSE "load",
   op |-> op, user |-> u, note |-> n, ifMatch |-> v, patch |-> p,
   role |-> RoleNone, known |-> Exists(n) /\ v \in 1 .. notes[n].version,
   status |-> 0, view |-> Nothing]

\* The If-Match an update sends is any number, or 0 for a header that names
\* none; a client may guess.
IfMatches(op) == IF op = "update" THEN Versions ELSE {0}

Payloads(op) == CASE op = "create" -> Contents
                  [] op = "update" -> SentPatches
                  [] OTHER         -> {NoPatch}

Receive(w) ==
  /\ req[w].pc = "idle"
  /\ \E op \in Ops, u \in UserIds, n \in NoteIds :
       \E v \in IfMatches(op), p \in Payloads(op) :
         /\ op \in Mutations => Room(n)
         /\ op = "create" => ~ Exists(n) /\ \A o \in Workers : req[o].note # n
         /\ req' = [req EXCEPT ![w] = Opened(op, u, n, v, p)]
  /\ UNCHANGED <<notes, access, log>>

\* The checks of load(), in its order; 0 when the request may go on.
LoadRefusal(r) ==
  IF ~ Exists(r.note) THEN 404
  ELSE LET role == RoleOf(r.user, r.note)
       IN  IF ~ Can(role, "read") THEN 404
           ELSE IF notes[r.note].deleted /\ r.op # "restore" THEN 404
           ELSE IF ~ Can(role, r.op) THEN 403
           ELSE 0

\* What each handler does once load() lets it through, up to its next
\* statement.  A PATCH with a body goes on to check the body's references.
AfterLoad(w) ==
  LET r    == req[w]
      role == RoleOf(r.user, r.note)
  IN  \/ /\ r.op = "read"
         /\ Answer(w, 200, ViewOf(notes[r.note], role))
      \/ /\ r.op = "update" /\ r.ifMatch = 0
         /\ \E status \in {428, 400} : Answer(w, status, Nothing)
      \/ /\ r.op = "update" /\ r.ifMatch > 0
         /\ \/ Answer(w, 400, Nothing)
            \/ Goto(w, IF r.patch.body = Keep THEN "write" ELSE "validate",
                    role)
      \/ /\ r.op = "delete"
         /\ Goto(w, "write", role)
      \/ /\ r.op = "restore" /\ ~ notes[r.note].deleted
         /\ Answer(w, 409, Nothing)
      \/ /\ r.op = "restore" /\ notes[r.note].deleted
         /\ Goto(w, "write", role)

Load(w) ==
  /\ req[w].pc = "load"
  /\ \/ /\ LoadRefusal(req[w]) # 0
        /\ Answer(w, LoadRefusal(req[w]), Nothing)
     \/ /\ LoadRefusal(req[w]) = 0
        /\ AfterLoad(w)
  /\ NoCommit
  /\ UNCHANGED access

\* validateBodyReferences reads the attachments table only; module Attachments
\* says what decides between its two outcomes.
ValidateBody(w) ==
  /\ req[w].pc = "validate"
  /\ \/ Goto(w, "write", req[w].role)
     \/ Answer(w, 400, Nothing)
  /\ NoCommit
  /\ UNCHANGED access

\* A new note's checks come before its only statement, the insert.
CreateNote(w) ==
  LET r   == req[w]
      row == [owner |-> r.user, title |-> r.patch.title, body |-> r.patch.body,
              version |-> 1, deleted |-> FALSE]
  IN  /\ req[w].pc = "write" /\ r.op = "create"
      /\ \/ /\ Commit(r.note, row)
            /\ \/ Answer(w, 201, ViewOf(row, RoleOwner))
               \/ AnswerError(w)
         \/ /\ NoCommit
            /\ Answer(w, 400, Nothing)
      /\ UNCHANGED access

\* When a mutation's statement commits, the answer is its success or, where its
\* result never came back, that of the error: the deadline passed, the client went
\* away, the connection was lost.
UpdateNote(w) ==
  LET r   == req[w]
      row == Edited(notes[r.note], r.patch)
  IN  /\ req[w].pc = "write" /\ r.op = "update"
      /\ \/ /\ UpdateMatches(r)
            /\ Commit(r.note, row)
            /\ \/ Answer(w, 200, ViewOf(row, r.role))
               \/ AnswerError(w)
         \/ /\ ~ UpdateMatches(r)
            /\ NoCommit
            /\ Goto(w, "conflict", r.role)
      /\ UNCHANGED access

\* conflict() re-reads the note to tell a lost race from a deleted note.
Conflict(w) ==
  LET r == req[w]
  IN  /\ req[w].pc = "conflict"
      /\ IF ~ Exists(r.note) \/ notes[r.note].deleted
           THEN Answer(w, 404, Nothing)
           ELSE Answer(w, 409, ViewOf(notes[r.note], RoleOf(r.user, r.note)))
      /\ NoCommit
      /\ UNCHANGED access

\* Zero rows means somebody else deleted it: 204 all the same.
SoftDeleteNote(w) ==
  LET r == req[w]
  IN  /\ req[w].pc = "write" /\ r.op = "delete"
      /\ \/ /\ SoftDeleteMatches(r)
            /\ Commit(r.note, SoftDeleted(notes[r.note]))
            /\ Answer(w, 204, Nothing) \/ AnswerError(w)
         \/ /\ ~ SoftDeleteMatches(r)
            /\ NoCommit
            /\ Answer(w, 204, Nothing)
      /\ UNCHANGED access

\* Zero rows is pgx.ErrNoRows, which WriteProblem does not know: 500.
RestoreNote(w) ==
  LET r   == req[w]
      row == Restored(notes[r.note])
  IN  /\ req[w].pc = "write" /\ r.op = "restore"
      /\ \/ /\ RestoreMatches(r)
            /\ Commit(r.note, row)
            /\ \/ Answer(w, 200, ViewOf(row, r.role))
               \/ AnswerError(w)
         \/ /\ ~ RestoreMatches(r)
            /\ NoCommit
            /\ AnswerError(w)
      /\ UNCHANGED access

\* A statement that fails, or is cancelled, before it took effect.  conflict()
\* turns any error of its own into a 404.
StatementFails(w) ==
  /\ req[w].pc \in {"load", "validate", "write", "conflict"}
  /\ IF req[w].pc = "conflict" THEN Answer(w, 404, Nothing) ELSE AnswerError(w)
  /\ NoCommit
  /\ UNCHANGED access

\* The response goes out, or its client has gone.
Respond(w) ==
  /\ req[w].pc = "reply"
  /\ req' = [req EXCEPT ![w] = IdleReq]
  /\ NoCommit
  /\ UNCHANGED access

\* A statement of another component changes who may see a note: a share granted
\* or revoked, a member added or removed, a team or an account deleted.  What
\* the owner is granted by a team is never looked at.
ChangeAccess(n) ==
  /\ Exists(n)
  /\ \E f \in [UserIds -> {RoleNone} \cup GrantRoles] :
       /\ f[notes[n].owner] = RoleNone
       /\ access' = [access EXCEPT ![n] = f]
  /\ UNCHANGED <<notes, req, log>>

Next ==
  \/ \E w \in Workers :
       \/ Receive(w) \/ Load(w) \/ ValidateBody(w)
       \/ CreateNote(w) \/ UpdateNote(w) \/ Conflict(w)
       \/ SoftDeleteNote(w) \/ RestoreNote(w)
       \/ StatementFails(w) \/ Respond(w)
  \/ \E n \in NoteIds : ChangeAccess(n)

Spec == Init /\ [][Next]_vars

-----------------------------------------------------------------------------
(* Properties. *)

Pcs == {"idle", "load", "validate", "write", "conflict", "reply"}

Statuses == {0, 200, 201, 204, 400, 403, 404, 409, 428, 500}

Requests == [pc : Pcs, op : Ops \cup {"none"}, user : UserIds \cup {Nothing},
             note : NoteIds \cup {Nothing}, ifMatch : Versions,
             patch : Patches, role : Roles, known : BOOLEAN,
             status : Statuses, view : Views \cup {Nothing}]

\* Types of the table, the grants, the requests in flight and the history.
TypeOK ==
  /\ notes \in [NoteIds -> Rows \cup {Nothing}]
  /\ access \in [NoteIds -> [UserIds -> {RoleNone} \cup GrantRoles]]
  /\ req \in [Workers -> Requests]
  /\ log \in [NoteIds -> Seq(States)]

Answered(w, status) == req[w].pc = "reply" /\ req[w].status = status

\* An entity tag names one state.  Whatever body a response carries (a read, a
\* write's result, the current state in a 409) is the state the note had at the
\* version printed as its ETag, and no deleted state is ever shown: setETag
\* and If-Match only make sense if update, soft delete and restore all move
\* the version.
ETagNamesOneState ==
  \A w \in Workers :
    LET r == req[w]
    IN  r.view # Nothing =>
          /\ r.view.version \in 1 .. Len(log[r.note])
          /\ log[r.note][r.view.version] = StateOf(r.view)
          /\ ~ r.view.deleted

\* No lost update.  A PATCH answered 200 changed exactly the state its If-Match
\* named: the version right after it holds that state with the patch applied,
\* whatever committed between the handler's load and its UpdateNote.
UpdateBuildsOnIfMatch ==
  \A w \in Workers :
    LET r == req[w]
    IN  Answered(w, 200) /\ r.op = "update" =>
          /\ r.view.version = r.ifMatch + 1
          /\ log[r.note][r.view.version] =
               Apply(log[r.note][r.ifMatch], r.patch)

\* A conflict is real.  When a client sent a version that existed when its
\* request came in, the state a 409 hands back is strictly newer, even if the
\* note was deleted and restored in between: conflict() never says "has changed"
\* about the state the client already holds.
ConflictIsNewer ==
  \A w \in Workers :
    LET r == req[w]
    IN  Answered(w, 409) /\ r.op = "update" /\ r.known =>
          r.view.version > r.ifMatch

\* Deleting and restoring stay with the owner at the moment they commit, not
\* only when load() looked: no change of grants in between hands them over.
LifecycleByOwner ==
  [][\A n \in NoteIds :
       notes[n] # Nothing /\ notes'[n].deleted # notes[n].deleted =>
         \E w \in Workers : /\ req[w].note = n
                            /\ req[w].op \in {"delete", "restore"}
                            /\ req[w].pc = "write" /\ req'[w].pc = "reply"
                            /\ req[w].user = notes'[n].owner]_vars

-----------------------------------------------------------------------------
(* The promise of NoteHistory, kept by the handlers. *)

PhaseOf(pc) == CASE pc = "idle"  -> "idle"
                 [] pc = "reply" -> "replied"
                 [] OTHER        -> "pending"

OutcomeOf(status) == CASE status = 0 -> "none"
                       [] status \in {200, 201, 204} -> "ok"
                       [] status = 500 -> "unknown"
                       [] OTHER -> "refused"

ShownIn(view) ==
  IF view = Nothing THEN Nothing
  ELSE [version |-> view.version,
        state   |-> [title |-> view.title, body |-> view.body]]

CallOf(r) == [phase |-> PhaseOf(r.pc), op |-> r.op, note |-> r.note,
              basis |-> r.ifMatch, patch |-> r.patch,
              outcome |-> OutcomeOf(r.status), shown |-> ShownIn(r.view)]

History == INSTANCE NoteHistory
             WITH history <- log, call <- [w \in Workers |-> CallOf(req[w])]

\* Every behaviour of the handlers is a behaviour of NoteHistory: requests take
\* effect once, at one instant, on the state they name, and say so truthfully.
ImplementsHistory == History!Spec

-----------------------------------------------------------------------------
(* A statement of the repository the code does not keep (violation run). *)

\* handler.go: without read access the answer is 404, for every handler.
ShownOnlyToReaders ==
  \A w \in Workers : req[w].view # Nothing => Can(req[w].view.role, "read")
=============================================================================
