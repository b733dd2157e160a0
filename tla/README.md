# A formal model of the notes service

TLA+ modules, TLC runs and TLAPS proofs about the shared-notes API in this
repository: a Go service (`cmd/api`) over Postgres and an S3-compatible bucket,
with a batch command (`cmd/sweep`) beside it. The modules are translated from
the code; a `.cfg` gives TLC a small instance; the `…Proofs` modules and
`NotesRefinement` hold for every instance. Every safety and action property the runs
check is also proved, and so is the refinement; liveness is model-checked.

## 1. The system

Every HTTP request runs in a goroutine of its own. It authenticates a bearer
token, then talks to Postgres one statement at a time, mostly without a
transaction, and sometimes to the bucket. The process keeps no state between
requests besides the connection pool: what two requests share is in the tables
and in the bucket, and what can go wrong between them happens *between two
statements*. Transactions, where there are any, run in READ COMMITTED, Postgres's
default, and hold the row locks of what they wrote. A deadline per request
(`REQUEST_TIMEOUT`) and one per statement (`statement_timeout`) may end either
at any point.

| Part | State | Operations | Hard behaviour | What makes it correct |
|---|---|---|---|---|
| Access rules, `internal/authz` | none | role ranks, decision table, `Can`; the `effective_role` column of the queries | a max over grants, the owner decided first | monotone in the role; no role that can act cannot read |
| Note handlers, `internal/notes/handler.go` | `notes` | create, get, update (If-Match), delete, restore, and the 409 of a lost update | two or three statements per request, role and row read before the write | entity tags name states, no lost update, owner-only life cycle |
| Share grants, `internal/notes/shares.go` | `note_shares` | list, upsert, revoke | a polymorphic principal without a foreign key, validated in an earlier statement | grants name what exists; those that do not open nothing |
| Teams, `internal/teams` | `teams`, `team_members` | create, rename, delete, add/promote/demote, remove, leave | last-admin guard counting in a READ COMMITTED transaction | a team keeps an admin; deletion is all or nothing |
| Accounts, `internal/users` | `users` | register, login, profile, password, delete | soft delete and grant removal in one transaction; tokens outlive it | grants go with the account; one account per address |
| Attachments, `internal/notes/attachments.go` | `attachments`, the bucket, references in a body | create and presign, complete, list, delete, resolve | two stores, a client uploading on its own, retries | a ready row is verified; a body points at ready rows |
| Sweep, `cmd/sweep` | a listing | delete the object, then the row, of each stale pending upload | a stale listing, failures per row, overlapping runs | only abandoned uploads go, and all of them do |
| Listing and search, `internal/store/notes_list.go` | a cursor held by the client | keyset pages by time or by rank | pages read while notes move | no note twice, none missed that did not move |
| Store, `internal/store` | the pool | `Tx`, error classification | rollback on every path | a transaction is all or nothing |
| API process, `cmd/api` | listeners, pool, health | start, serve, drain, exit | shutdown with requests in flight, a listener that fails, one wait for both listeners | the pool outlives what uses it; the process leaves in time |
| Middleware, `internal/obs`, `internal/httpx` | per request | deadline, panic recovery, status, problem responses | a late answer and a deadline | answered while the socket takes it; 500 means a bug; metrics tell what happened, panics included |
| Router and health, `internal/server` | none | the routes of both listeners, liveness, readiness | readiness through a pool the clients have filled | a probe is answered before its client gives up |

They interact through the tables alone: a note's role is computed from
`notes`, `note_shares` and `team_members` in one statement; teams and accounts
remove grants of their own when they are deleted; an update reads the
`attachments` rows its body refers to; the sweep deletes rows and objects under
the API's feet. `PROJECT.json` lists every component with what is left out of
it, and every hazard at the line where it bites.

## 2. The modules

```
 Authz ────┐                 NoteHistory (what clients are promised)
 NoteContent ─┬─ Notes ── implements ──┘
              │    └── NotesProofs ── NotesRefinement
 Authz ─┬─── Sharing ──── SharingProofs
        ├─── Listing ──── ListingProofs
        └─── AuthzProofs (under the proofs of Notes, Sharing and Listing)
             Attachments ─ AttachmentsProofs
             Accounts ──── AccountsProofs
 Handlers ── Serving ───── ServingProofs
```

The modules cut the system twice. `Notes`, `Sharing`, `Attachments`, `Accounts` and
`Listing` say what statements do to the tables, and let a deadline or a failure come at any
point. `Handlers` and `Serving` say when statements run, on which connection, for how long
and with which answer, and forget what they do.

**Authz.** Role ranks, `MinimumRole` and `Can` from `role.go`; `EffectiveRole`
is the `effective_role` expression of `notes.sql`.

**NoteContent.** A note's editable fields and the partial update: `Keep` is a
field the PATCH omits, `Coalesce` the `coalesce(narg, column)` of `UpdateNote`.
Tags are edited exactly as a title is and are not kept apart.

**Notes.** The table row (`owner`, `title`, `body`, `version`, `deleted`), and for
each worker the request it serves. `pc` is the next statement of the
handler: `load` (GetNoteWithAccess), `validate` (the references of a new body),
`write` (the mutation), `conflict` (the second read of a lost update), `reply`
(a response written). One action is one statement and all the code up to the
next one, so any other request may commit in between.

| Code | Definition |
|---|---|
| `load` | `LoadRefusal` (its four checks in order), `Load` |
| `getNote`, `updateNote`, `deleteNote`, `restoreNote` after load | `AfterLoad` |
| `CreateNote`, `UpdateNote`, `SoftDeleteNote`, `RestoreNote` in `notes.sql` | `…Matches` (where clause), `Edited`/`SoftDeleted`/`Restored` (set list), action of the same name |
| `conflict` | `Conflict` |
| an error of a statement, a deadline or a lost connection | before it took effect `StatementFails`; after it committed, the `AnswerError` branch of each write |
| any change of grants by others | `ChangeAccess` |

`access` is what `GetNoteWithAccess` computes from the grant tables, and
`ChangeAccess` may change it arbitrarily between two statements: more than any
sequence of share and team operations does, so what holds here holds with them.
Two history variables serve the properties: `log`, the states a note went
through, and `req.known`, whether the version an update names existed when the
request came in.

**NoteHistory.** The abstract specification: a note is an append-only history of
states, an entity tag an index into it, a request takes effect once, between its
call and its reply, or not at all. `Notes` implements it under the mapping
`history <- log`, `call <- CallOf(req)`. A 2xx is given only to a request that took effect, a 4xx
only to one that did not. The answer `WriteProblem` gives to an error that is no `Problem`
commits to neither, since a deadline, or a connection lost while the statement commits, leaves
the change made. `AnswerError` writes it with the status 500, which stands for 499, 500 and 503 alike,
and restore's 500 for zero rows is one of them to a client.

**Sharing.** The four tables `users`, `teams`, `members`, `shares` as they are
committed, and per worker the request it serves. Transactions are modelled by
their statements: what a statement of an open transaction wrote is kept in the
request (`doomed`) and reaches the tables with the commit; another statement that
meets a locked row waits (`Locked`). `CountTeamAdmins` reads the committed
rows, as READ COMMITTED does. `seen` is a history variable, the admins the guard
looked at. `AddTeamMember` is refused by its foreign key once the team is gone;
the principal of a share has no such key.

**Attachments.** One note's rows, their sizes, the objects in the bucket, the
references in the saved body, requests and sweeps. `age` stands for the clock:
`fresh` while the presigned URL works, `expired` after `UploadTTL`, `stale` past
the sweep's cutoff. A client may `Put` whatever it likes as long as its URL is
valid, whatever became of the row. A request lasts seconds and these
periods minutes and hours, which is why `Pass` waits for the signing to end.
The bucket itself is modelled from how `internal/storage` uses it.

**Listing.** One caller walking the pages of one list, over rows reduced to what
the query orders and filters by (`updated`, `rank`, `deleted`), with the caller's
grants and team membership. A page is one statement (`Page`: predicate, order,
limit + 1, next cursor); between two pages anybody may write or share a note.
`Write` may stamp any time: `now()` is when a statement arrived, and statements
wait for rows, so times need not rise with the writes. The server keeps
nothing between pages, so `Begin` may go on from the cursor of an earlier walk under
another filter. History variables: `met` counts how often the walk returned a
note, `still` the notes not written since it began, `due` those of them it owes.

**Accounts.** The table `users`, the accounts unexpired tokens name, and requests
statement by statement: `CreateUser`, `Login` (GetUserByEmail and the comparison)
and `Issue`, `UpdateUserProfile`, `ReadPassword` and `UpdateUserPassword`, and
`SoftDeleteUser` for deleteMe's transaction, which `Sharing` takes apart. Every
write may be answered 503 after it committed; 503 stands here, and in `Attachments`, for any
answer `WriteProblem` gives to an error that is no `Problem`. History variables: `held`, the live
accounts that had the presented credentials since the request came in; `took`,
whether a new password was in place since then.

**Handlers.** What each handler of both listeners asks of the process around it, in
order: the client's body, the pool, a transaction's statements, the bucket. A handler is
the set of paths it may take when nothing fails. `hides` marks the steps whose error,
whatever it was, the handler answers with a problem of its own, so that `WriteProblem`
never sees it.

**Serving.** The process that runs those paths: `cmd/api`'s main (`phase`), the two
listeners, the pool, the middleware, and a goroutine per request. `pc` is what a request
waits for: its `body`, a connection (`acquire`), Postgres (`statement`), the `bucket`; `written` is an
answer. Everything a handler does up to its next wait is one action (`Continue`): it goes on,
answers, refuses, or panics.

| Code | Definition |
|---|---|
| the routes, `Handler.Routes`, `server.New`, `handleReady` | the paths of `Handlers` |
| `store.Tx`: Begin, deferred Rollback, Commit | the kinds `begin`, `txQuery`, `txWrite`, `commit`; `StatementDone`, `GivesBack` |
| pgxpool's acquire, release, a closed pool | `Acquire`, `HasRoom`, `PoolClosed` |
| `obs.Timeout`, `handleReady`'s context | `Deadline`, `Expired`, `Cancelled` |
| the middleware of both routers, from the handler outwards | `Unwound`, its layers `Timed`, `Recovered`, `Observed`, and what the handler leaves them, `Handled` |
| `statusRecorder` and the `ResponseWriter` under it | `WriteHeader` |
| `httpx.WriteProblem` | `StatusOf` |
| `httpx.DecodeJSON` and the socket's read deadline | `BodyRead`, `BodyFails` |
| `statement_timeout` | `StatementFails(r, "queryCanceled")` |
| `run`: start, select, the two `Shutdown`s, `pool.Close` | `Boot`, `BootFails`, `ServerError`, `SignalSeen`, `PublicDrained`, `AdminDrained`, `Exit` |

The middleware is modelled by what each layer does with what the one inside it left: a status
sent or none, the status the recorder holds, a panic on its way up. `obs.Timeout` and
`obs.Observe` count after their call returns, without a defer, so a panic passes both by; only
`obs.Recover` between them stops it. A second `WriteHeader` changes what is recorded and not
what was sent: a handler that panics with its 200 already out leaves the client a broken-off 200
and the metrics a 500. `MetricsTellWhatHappened` says so, and breaks when two layers change places.

Time is explicit: `age` is how long a request has been served, `busy` how long its
statement has run, `drain` how long main has been stopping. `Tick` passes only while
everybody waits for something outside the process; handler code, expired timers and main's
next statement take no time. History variables: `parked`, `done` and `mutates`.

**MC modules** give TLC instances and symmetry sets. Definitions marked `Mutant` sit
next to what they distort; each is a plausible bug that a property has to notice.

## 3. The runs

All bounds are constants of the modules. Deadlock is checked in every run.

| Run | Instance | States | Shows |
|---|---|---|---|
| `notes` | 2 requests, 2 users, 1 note, 4 versions, every If-Match in 0..4 | 930 000 | `ETagNamesOneState`, `UpdateBuildsOnIfMatch`, `ConflictIsNewer`, `LifecycleByOwner`, `ImplementsHistory` |
| `listing` | 2 notes, limits 1..2, 5 filters, 2 times, ranks 0..2, cursors reused | 560 000 | `UntouchedMetOnce`, `NeverTwice`, `NeverWidens` |
| `accounts` | 2 requests, 2 accounts, 2 addresses, 3 passwords | 1.1 million | `OneLiveAccount`, `LoginOpensOwnAccount`, `AnsweredChangeTook`, `TombstonesFrozen`, `TokenAloneChangesNothing` |
| `sharing` | 2 requests, 2 users, 1 team, 1 note | 1.6 million | `OrphanGrantsOpenNothing`, `GrantsGoWithTheirPrincipal`, `StrandedByRaceOrDeletion`, `OrphanedOnlyByRace` |
| `sharing_liveness` | 2 requests, 1 user, fairness | 12 000 | `RequestsEnd` |
| `attachments` | 2 requests, 2 sweeps, 1 attachment, sizes 0..3 with a cap of 2 | 120 000 | `ReadyWithinCap`, `BodyRefsUploaded`, `VerifiedSizeStays`, `DanglingOnlyByRace`, `ObjectLostOnlyByRace` |
| `attachments_swept` | 1 request, 1 sweep taking 1 row at a time, 2 attachments, fairness | 92 000 | `AbandonedUploadsSwept` |
| `serving` | 2 clients, 1 probe, 1 connection, periods of 1 to 4 | 1.5 million | `ConnectionsAccounted`, `HoldersNeverWait`, `SafeToRetry`, `AnsweredInTime`, `OkMeansDone`, `OwnFaultOnly`, `MetricsTellWhatHappened`, `ClosedInOrder`, `LeavesInTime`, `CutOnlyAfterWait` |

Why these bounds are enough to be interesting. A lost update, a conflict that is
not one, or a version reused needs two overlapping requests and a note that moves
twice while one of them is in flight: create, delete, restore and update make four
versions. One note suffices because no statement touches two. Two users are an
owner and somebody whose access comes and goes. A stranded team needs two admins
and two requests. Sizes 0, 1, the cap and one past it are the boundaries of both size
checks. Two notes, one the caller's and one not, and a limit of
1 or 2 give a walk of one page, of two, and of one that ends exactly at its limit, with equal
and different keys; the five filters are everything, a search, the bin, a team's notes
searched, and another user's notes shared with the caller. Two accounts and two addresses are
enough to hand an address over and to register it anew; three passwords, for a change to be
overwritten by another with a third. Two attachments with a batch of one make the sweep take several runs. In `serving`,
two clients and a probe share one connection, so somebody always waits for it. The periods are
the smallest that nest as the configuration has them, with a `SHUTDOWN_WAIT` shorter than
a request may take, so that the drain can run out; the paths are those with a body between
statements, hidden errors, a transaction behind a query, and a write before a call to the bucket
(`FewPaths`). `MaxVersion`
also limits what an If-Match may name; requests are only received while the
versions they might use up exist (`Room`), so the bound never cuts a request short.

### Where the code and its documentation differ

A run marked `violation` states what a document, a comment or a test of the
repository says, and TLC shows a behaviour of the code against it. `PROJECT.json`
quotes the lines.

| Run | Said | Shown |
|---|---|---|
| `notes_conflict` | every handler checks read access | the 409 of a lost update shows the note to somebody removed after `load` |
| `sharing_last_admin` | counting in the transaction keeps two removals apart | READ COMMITTED does not: both count two, both remove one |
| `sharing_deleted_user` | a deleted user's token opens nothing | its own notes and its teams' notes stay open |
| `attachments_sweep_ready` | only pending uploads are swept | the upload is completed between the listing and its turn |

Four passing properties bound what such races may do. `OrphanedOnlyByRace`,
`DanglingOnlyByRace` and `ObjectLostOnlyByRace` say that a grant that names nobody, a
reference that points nowhere and a ready row whose object is gone come about only through
the overlap each of them describes: with one request at a time, and no sweep beside it, none of the
three exists. `CAPABILITIES.md` promises the first two without that condition (lines 68,
109 and 111). The third needs a client that uploads again: two completions see an oversize object, the
client replaces it and completes it, and the second of the two discards what has just become
ready. `StrandedByRaceOrDeletion` says the same of a team without an admin who can
log in, which besides its race has two sequential causes, both an account's deletion.

Met while modelling and left without a run of their own: an update in flight
commits after its author's access is removed (`UpdateNote` has no access predicate);
the only admin of a team may delete the account, as `deleteMe` does not ask
`guardLastAdmin`, and an admin whose account is deleted still counts for it
(`queries/teams.sql`, line 61), so that the last one who can log in may leave (`CAPABILITIES.md`, line 69, says a
team cannot lose its last admin; `StrandedByRaceOrDeletion` says that these two and the
race above are the only ways); an object whose row
was deleted first and whose own deletion failed is never collected, as the sweep lists
rows (`attachments.go`, line 250, says it is); the upload URL still works after completion, so that the object may
stop having the recorded size (`attachments.go`, line 174, says it is always true); of two overlapping
restores of one note the second finds no row and answers 500 (`handler.go`, line 275), though
`problem.go` keeps 500 for bugs; `deleteMe` and the first read of `changePassword` answer
every failure, a deadline too, with 401 "account no longer exists" (`users/handler.go`, lines
269 and 330), where `obs/middleware.go` (line 40) says 503; of two overlapping password changes
the second wins although the password it checked is no longer the current one; of two
overlapping completions the second answers 500, and so does the
completion of an empty upload, which the table's `size_bytes > 0` refuses.

Met in `Serving`: a deploy drops requests that outlive `SHUTDOWN_WAIT`, whose default is
`REQUEST_TIMEOUT` while a body may take `ReadTimeout` before the deadline is looked at, and nothing relates
the periods (`CAPABILITIES.md`, line 126, answers "No"; `CutOnlyAfterWait` is what holds). A
request that meets the pool closed by a failed listener or an overrun drain answers 500. Reads whose
every error becomes "not found" or "account no longer exists" hide a deadline as a 4xx
(`users/handler.go`, lines 269 and 330, `teams/handler.go`, line 134, `notes/handler.go`, line 229;
`obs/middleware.go`, line 38, says 503). A handler that panics past its deadline is not in the timeouts
counter. `auth/middleware.go`, line 35, puts the user id on a copy of the request that
`obs/middleware.go`, line 143, never sees, so the request log has none. Renaming a team
that is deleted meanwhile answers 500.

### Fairness

Safety runs assume none. `Sharing!FairSpec` has strong fairness of each worker's
statements: handlers keep running and Postgres grants a row lock to whoever has
waited, so a statement enabled again and again runs; nothing forces requests to
arrive or to fail. `Attachments!FairSpec` has weak fairness of starting a sweep
(it is run from a scheduler) and strong fairness of the bucket and the database
eventually serving it; killing a sweep half-way, and any number of failures before that, remain
possible. The clock (`Pass`) and clients are never forced.

`Serving` needs no fairness: its clocks turn "eventually" into bounds. `Tick` is disabled
while something is due, so `AnsweredInTime` and `LeavesInTime` are invariants, and the deadlock
check says that time is never stuck. Two assumptions stand behind it. Handler code takes no
time, hashing a password included, so the bounds are up to that. And between two
statements of a transaction no time passes, so `idle_in_transaction_session_timeout` never fires.

## 4. The proofs

Every component's proofs are laid out alike: the inductive invariant `IInv` in named
parts, frame lemmas about a step of one request and what it leaves alone, one lemma per
action, `InvInit` and `InvStep`, then the theorems. `Invariance` is `Spec => []IInv`, and
`TypeCorrect` is its type part. TLC checked each `IInv` as an invariant of the component's
run before it was proved. The assumptions are those named in the modules: that sets which are
told apart in the code are apart (`Nothing` is no user, row, cursor or answer), that bounds are
numbers, and that what a request counts over is finite.

### Access rules

`AuthzProofs` has the lemmas about the pure operators (`HighestRankIsMax`: the rank
computed from grants is the greatest of them) and four theorems. `CanIsMonotone`: a higher role
never loses an action. `AnyActionImpliesRead`: the 404 of `load` hides no note from a caller that
could do anything to it. `OwnerActionsAreOwners`: no set of grants opens an owner's action.
`ReadingTakesAGrant`: reading takes ownership or one grant, and either is enough. The proofs of
`Notes`, `Sharing` and `Listing` cite them.

### The note handlers

`NotesProofs` proves, for any set of users, notes, contents and any finite set of
workers, that every property of the run `notes` holds:

- `TypeCorrect`, `ETags`, `NoLostUpdate`, `ConflictsAreReal`: `Spec => []…`;
- `OwnerOnlyLifecycle`: the action property, from the same invariant;
- `HandlersImplementHistory`: the refinement, `Spec => ImplementsHistory`.

The assumptions are `NotesAssumption` (patches are patches, the bound is a number,
`Nothing` is no row and no body, workers are finite) and `KeepIsNoField`. Finiteness is
needed only because `Room` counts requests.

None of the properties is inductive: a reply's view says nothing about the row
it came from. `Invariance` proves the strengthening `IInv`:

- `RowsAreLogged`: a row's version is the length of its note's log and its contents
  are the log's last state, so matching a version is matching a *state*;
- `PendingOK`: what a request carries past `load` stays true until its write: a
  delete or a restore belongs to the note's owner (owners never change), a
  version `known` on arrival is at most the row's, and a conflict is entered only
  when the row is past it or deleted, and every later state is then newer;
- `AnswerOK`: the view and the patch of a reply, against the log, which only grows;
- `CreatesApart`: two creates never hold one identifier, so an insert never meets
  a row; `ControlOK`: which operations reach which statement.

The proof has one lemma per action. `ReqOKStable` says a request's part of the
invariant survives what any *other* request does to the tables
(`Evolved`: logs grow by appending, versions never go back, owners stay);
`QuietAnswer` and `QuietGoto` handle the steps that change no row, `CommitAnswer` those
that do. `InvStep` puts them together by cases on `Next`.

`NotesRefinement` shows that every step maps to a step of `NoteHistory` or to none
(`StepMaps`, `InitMaps`). The lemmas follow what a statement and its answer are to the call:
`Refused` (an error without a body), `Observed` (a read, or the 409 that shows the current
state), `FoundDeleted`, `Taken` (a commit with either of its answers) and `GotoStutters`; each
action is then one of them. The mapped steps need the invariant: `Taken` and `Observed` that a row
is the last state of its log under its length (`RowsAreLogged`), a create that its log is
empty (`CreatesApart`), a delete that its note exists (`PendingOK`).

### Sharing

`SharingProofs` proves every safety property of the run `sharing`: `OrphansAreHarmless`,
`GrantsFollow`, `OrphansComeFromRaces` and `StrandedByRaces`, for any teams, notes and
workers and any finite set of users (finite because the guard counts them). `IInv` has three
parts beside the types. `NoGhostMembers`: a membership of a team that is gone does not
exist, which the foreign key keeps against an `AddTeamMember` that comes late; it is why an
orphaned grant matches nobody. `RequestsOK`: past its guard a request saw an admin other than its
target, past `load` a revocation is by the note's owner. `AccountsLocked`: while a
deletion is open, its account is live and no second deletion is. The two properties
about races are proved action by action: a step that orphans a grant, or takes the last
live admin away, is named, and is one of those the property lists.

### Accounts

`AccountsProofs` proves every property of the run `accounts`: `AddressesApart`,
`LoginsOpenOwn`, `ChangesTake`, `TombstonesStay` and `PasswordsArePresented`. What a request reads
in one statement it acts on in the next, so the invariant carries over what was true then:
`HeldNow` says that the history variable `held` is never behind the table, `CheckedOK` that a
request past its check was in it, `NamesRow` that the account a token names has a row, as rows are
never removed.

### Attachments

`AttachmentsProofs` proves every safety property of the run `attachments`:
`ReadyIsWithinCap`, `BodyRefersToUploads`, `VerifiedSizesStay`, `DeadReferencesAreRaces` and
`LostObjectsAreRaces`, for any number of attachments, workers and sweeps, any cap
and any uploads. A row only moves forward (`Forward`: free, pending, ready, gone), so
what a process learned of it stays half true: a row it found is never free
again, a checked reference is ready or gone, an object about to be deleted by a request
belongs to a row that is gone (`RequestOK`, `SweepOK`).

### Listing

`ListingProofs` proves every property of the run `listing`: `WalksAreComplete`, `NoRepeats`
and `FiltersNeverWiden`, for any finite set of notes, any filters, limits and ranks and any writes between
two pages. The heart is one page: `FirstOfCuts` and `PageCuts` show that the cursor it returns
separates the notes it returned from those it did not, and lies beyond the cursor it was asked
for. So a note nobody writes stays on one side of the cursor, met and passed or owed and still to
come, which is `WalkOK`.

### The API process

`ServingProofs` proves every property of the run `serving`, for any finite sets of clients and
probes, any pool of at least one connection, any of the handlers' paths, and any periods
that nest as `PeriodsNest` says: `StatementTimeout < RequestTimeout < WriteTimeout` and
`ReadTimeout < WriteTimeout`, from `config.Load` and its constants, and
`ReadyTimeout < ProbeTimeout`. Nothing is assumed of `ShutdownWait`, as nothing in the code is.

The invariant `IInv` has three parts beside the types:

- `RequestOK` says of one request that what is left of its path is `Proper`: a transaction is a
  run of steps that ends in its commit, and nothing after a lasting change waits for the pool. This
  is why a holder never waits and why a shed request is safe to retry; that every handler is
  `Proper` to begin with is `PublicPathsGood` and `AdminPathsGood`, path by path. The
  rest ties the connection, the clocks, the answer and the history variables to the
  place.
- `PoolOK`: the pool's count is the number of holders, and within its limit. `MovedPool`
  shows that a step changes both by the same amount.
- `ShutdownOK`: for each phase of main, which listeners take requests, whether the pool is open
  and who may still be served. Whoever is still served while main drains was admitted before the
  signal (a client) or before the public listener was done (a probe), so that its age bounds
  `drain`; the bound on leaving follows, since `pool.Close` waits only for holders, and a
  holder is within its deadline.

How a request ends is proved layer by layer, from `HeaderFacts` and `HandledFacts` to
`UnwoundFacts`: whatever the handler leaves, a status reaches the client and the recorder holds what
the property says.

Every step of a request is `Moved`: one record changes, its connection is what the
pool counts, and its clock stays. `RequestStepMoves` shows that by cases; `MovedKeeps`, the lemmas
named after main's steps, and `TickKeeps` then carry `IInv`. TLC checked `IInv` on the whole `serving`
instance first.

### What is only model-checked

The two liveness properties, `RequestsEnd` and `AbandonedUploadsSwept`: they rest on
fairness and `ENABLED`, which are outside this proof system's reach. The runs marked `violation`
show a behaviour on one instance, which is all a counterexample needs. `Handlers` and `Serving` are
proved for any of the handlers' paths, but the tables' modules are not composed with them.

## 5. What is not modelled

- Authentication's cryptography and password hashing: library calls.
- Wording, JSON, the other metrics, logs, the API document, migrations' execution, seed data,
  deployment files, test helpers: no state that a property here is about.
- A team's name and the read-only lists: nothing another part depends on.
- Postgres beyond statements, READ COMMITTED visibility and row locks.
- Two notes at once, outside `Listing`: no other operation spans two, and references cannot
  cross notes.
- In `Serving`: the order of the pool's queue (any waiter may be next, which allows more);
  connections that die or are opened anew (what such an error does to a request is there: it is an
  error of the statement, and in `Notes`, `Accounts` and `Attachments` one that may follow the commit); a client that leaves before its body is
  read (the server notices only afterwards) and the expiry of the read deadline while the
  handler is past the body, which cancels as a client that leaves does; errors of a listener
  once main has left its select, which nobody reads; a second signal.
- Two habits of the libraries, which `Serving` idealises. pgxpool frees the place of a cancelled
  connection once it is closed, which happens a moment later in a goroutine of its own; `Cancelled` frees it
  at once. So `ConnectionsAccounted` holds of the process once such closes are over, a waiter may
  wait that much longer, and so may `pool.Close`. And net/http's `Shutdown` may still serve the first
  request of a connection accepted just before its listener closed, where `Admit` needs the
  listener up; such a request may begin after the signal, within the time `Shutdown` waits.
  `LeavesInTime` and `CutOnlyAfterWait` are exact up to these two.
- In `attachments_swept`: an object whose deletion fails for good, which the fairness excludes, and a
  batch of several rows in which one fails before others are tried (its batch is one; the safety
  run `attachments` has failures of single rows).

## 6. Plan

Next modules, the most important first:

1. A composition of `Notes` with `Sharing`'s tables in place of `ChangeAccess`.
2. Tag normalisation as an operator checked against a reference definition.

Next theorems: what binds the components together, once 1. is written: that `Sharing` gives
`Notes` an `access` that only `ChangeAccess` steps change, so that the theorems about the note
handlers hold with the tables in its place.
