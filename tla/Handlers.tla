------------------------------ MODULE Handlers ------------------------------
(***************************************************************************)
(* What each handler asks of the process around it, in order: the client's *)
(* body, the connection pool, Postgres, the bucket.  A handler is the set  *)
(* of paths it may take when nothing fails; module Serving runs them under *)
(* deadlines, failures and shutdown.  What the statements do to the tables *)
(* is in Notes, Sharing, Accounts, Attachments and Listing.                *)
(*                                                                         *)
(* Refusals are not listed: Serving lets a handler refuse between any two  *)
(* steps.  Presigning is local, and hashing a password ignores the         *)
(* context: both are handler code.                                         *)
(***************************************************************************)
EXTENDS Sequences

Kinds == {"body",      \* decode the request's body
          "query",     \* a statement of its own, and what it changes: nothing
          "write",     \* a statement of its own that changes a row
          "begin", "txQuery", "txWrite", "commit",
          "ask",       \* Stat: a call to the bucket
          "discard",   \* Delete: one whose error is only logged
          "refuse"}    \* the handler answers with a problem of its own

\* `hides`: whatever error the step ends with, the handler answers a problem
\* of its own and WriteProblem never sees it.
Steps == [kind : Kinds, hides : BOOLEAN]

Does(k) == [kind |-> k, hides |-> FALSE]

Hidden(s) == [s EXCEPT !.hides = TRUE]

Body    == Does("body")
Query   == Does("query")
Write   == Does("write")
Begin   == Does("begin")
TxQuery == Does("txQuery")
TxWrite == Does("txWrite")
Commit  == Does("commit")
Ask     == Does("ask")
Discard == Does("discard")
Refuse  == Does("refuse")

\* A statement outside a transaction takes a connection for itself.
Pooled == {"query", "write", "begin"}
InTx   == {"txQuery", "txWrite", "commit"}

-----------------------------------------------------------------------------
\* internal/notes/handler.go and list.go.  An update reads each reference of a
\* new body, and the note once more when its UPDATE matched no row; that read
\* answers any error with "note not found".  A delete that matches no row is
\* answered 204.
NoteCreate  == {<<Body, Write>>}

NoteGet     == {<<Query>>}

\* Mutant: update validates the new body's references after its UPDATE.
NoteUpdateThenValidate ==
  {<<Query, Body, Write>>,
   <<Query, Body, Write, Query>>,
   <<Query, Body, Query, Hidden(Query), Refuse>>}

NoteUpdate ==
  {<<Query, Body, Write>>,
   <<Query, Body, Query, Write>>,
   <<Query, Body, Query, Hidden(Query), Refuse>>}

NoteDelete  == {<<Query, Write>>, <<Query, Query>>}
NoteRestore == {<<Query, Write>>}
NoteList    == {<<Query>>}

\* internal/notes/shares.go: a user is looked up, a team and the membership.
ShareList   == {<<Query, Query>>}
ShareUpsert == {<<Query, Body, Query, Write>>,
                <<Query, Body, Query, Query, Write>>}
ShareRevoke == {<<Query, Write>>}

\* internal/notes/attachments.go.  A completion is idempotent, and discards an
\* object over the cap.
AttachmentCreate   == {<<Query, Body, Write>>}
AttachmentComplete == {<<Query, Query>>,
                       <<Query, Query, Ask, Write>>,
                       <<Query, Query, Ask, Discard, Refuse>>}
AttachmentList     == {<<Query, Query>>}
AttachmentDelete   == {<<Query, Query, Write, Discard>>}

\* internal/teams/handler.go.  get answers any error of its second read with
\* "team not found"; guardLastAdmin counts only for an admin.
TeamCreate  == {<<Body, Begin, TxWrite, TxWrite, Commit>>}
TeamList    == {<<Query>>}
TeamGet     == {<<Query, Hidden(Query)>>}
TeamUpdate  == {<<Query, Body, Write>>}
TeamDelete  == {<<Query, Begin, TxWrite, TxWrite, Commit>>}
MemberList  == {<<Query, Query>>}
MemberAdd   == {<<Query, Body, Begin, TxWrite, Commit>>,
                <<Query, Body, Begin, TxQuery, TxWrite, Commit>>,
                <<Query, Body, Begin, TxQuery, TxQuery, TxWrite, Commit>>}

\* Mutant: guardLastAdmin reads through the store, on a connection of its own.
MemberLeaveOutsideTx ==
  {<<Query, Begin, Query, TxWrite, Commit>>,
   <<Query, Begin, Query, Query, TxWrite, Commit>>}

MemberLeave ==
  {<<Query, Begin, TxQuery, TxWrite, Commit>>,
   <<Query, Begin, TxQuery, TxQuery, TxWrite, Commit>>}

\* internal/users/handler.go.  changePassword answers any error of its read,
\* and deleteMe any error at all, with "account no longer exists".
Register       == {<<Body, Write>>}
Login          == {<<Body, Query>>}
Me             == {<<Query>>}
UpdateMe       == {<<Body, Write>>}
ChangePassword == {<<Body, Hidden(Query), Write>>}
DeleteMe       == {<<Hidden(Begin), Hidden(TxWrite), Hidden(TxWrite), Hidden(Commit)>>}
UserLookup     == {<<Query>>}

\* Everything the public listener serves.
PublicPaths ==
  UNION {NoteCreate, NoteGet, NoteUpdate, NoteDelete, NoteRestore, NoteList,
         ShareList, ShareUpsert, ShareRevoke,
         AttachmentCreate, AttachmentComplete, AttachmentList, AttachmentDelete,
         TeamCreate, TeamList, TeamGet, TeamUpdate, TeamDelete,
         MemberList, MemberAdd, MemberLeave,
         Register, Login, Me, UpdateMe, ChangePassword, DeleteMe, UserLookup}

\* The admin listener: liveness touches nothing, readiness pings the database
\* and answers any error with its own 503.
AdminPaths == {<<>>, <<Hidden(Query)>>}

\* A path that, taken to its end, has changed the tables.
Mutates(p) == \E i \in DOMAIN p : p[i].kind \in {"write", "commit"}
=============================================================================
