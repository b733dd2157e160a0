------------------------------ MODULE Serving ------------------------------
(***************************************************************************)
(* The API process: cmd/api's start and shutdown, the two listeners, the   *)
(* middleware around every request (internal/obs), the bounded pool, and   *)
(* the problem responses (internal/httpx).  The handlers are the paths of  *)
(* module Handlers.                                                        *)
(*                                                                         *)
(* Time is explicit.  Handler code, timers that are due and main's next    *)
(* statement take no time; waiting does: Tick passes while every request   *)
(* waits for the client's body, a connection, Postgres or the bucket, and  *)
(* nothing else is due.                                                    *)
(***************************************************************************)
EXTENDS Handlers, Integers, FiniteSets

CONSTANTS
  Clients,           \* request goroutines of the public listener
  Probes,            \* of the admin listener
  Served,            \* the paths clients ask for
  MaxConns,          \* DB_MAX_CONNS
  RequestTimeout, StatementTimeout, ShutdownWait,   \* the environment
  ReadTimeout, WriteTimeout,                        \* constants of config.go
  ReadyTimeout,      \* handleReady's context
  ProbeTimeout       \* the healthcheck's own client

\* What config.Load checks, and how the constants of the code are nested.
\* Nothing relates SHUTDOWN_WAIT to the other periods.
PeriodsNest ==
  /\ {RequestTimeout, StatementTimeout, ReadTimeout, WriteTimeout,
      ReadyTimeout, ProbeTimeout} \subseteq Nat \ {0}
  /\ ShutdownWait \in Nat
  /\ StatementTimeout < RequestTimeout /\ RequestTimeout < WriteTimeout
  /\ ReadTimeout < WriteTimeout
  /\ ReadyTimeout < ProbeTimeout

ASSUME ServingAssumption ==
  /\ IsFiniteSet(Clients) /\ IsFiniteSet(Probes) /\ Clients \cap Probes = {}
  /\ Served \subseteq PublicPaths
  /\ MaxConns \in Nat \ {0}
  /\ PeriodsNest

VARIABLES
  phase,      \* where main is: boot, serving, public, admin, closing, exited
  signalled,  \* SIGTERM has arrived: main's signal context is done
  listener,   \* public and admin: starting, up, failed or closed
  drain,      \* time since main saw the signal, NotDraining before
  pool,       \* whether it is open, and how many connections are acquired
  req         \* what each request goroutine waits for, or has answered

process == <<phase, signalled, listener, drain>>
vars == <<phase, signalled, listener, drain, pool, req>>

Requests == Clients \cup Probes
Listeners == {"public", "admin"}
NotDraining == -1

\* `path` is what the handler still has to do, from the step it waits in; `busy`
\* the time its statement has run.  `parked`, `done` and `mutates` are history
\* variables: the context ended in the pool's queue; a change is committed; the
\* path makes one.
IdleReq == [pc |-> "idle", path |-> <<>>, conn |-> FALSE,
            age |-> 0, busy |-> 0, err |-> "none", status |-> 0,
            recorded |-> 0, counted |-> FALSE, late |-> FALSE,
            parked |-> FALSE, done |-> FALSE, mutates |-> FALSE]

Init ==
  /\ phase = "boot"
  /\ signalled = FALSE
  /\ listener = [l \in Listeners |-> "closed"]
  /\ drain = NotDraining
  /\ pool = [open |-> FALSE, acquired |-> 0]
  /\ req = [r \in Requests |-> IdleReq]

ListenerOf(r) == IF r \in Clients THEN "public" ELSE "admin"
PathsOf(r)    == IF r \in Clients THEN Served ELSE AdminPaths

\* Mutant: obs.Timeout not mounted, as with a zero duration.
DeadlineNone(r) == IF r \in Clients THEN WriteTimeout + ReadTimeout ELSE ReadyTimeout

\* obs.Timeout's deadline, and handleReady's.
Deadline(r) == IF r \in Clients THEN RequestTimeout ELSE ReadyTimeout

\* How long whoever asked still takes the answer: the socket's WriteTimeout, and
\* the healthcheck's client.
Patience(r) == IF r \in Clients THEN WriteTimeout ELSE ProbeTimeout

\* Requests a listener has not done with.
ActiveOf(l) == {r \in Requests : ListenerOf(r) = l /\ req[r].pc # "idle"}

Current(q) == Head(q.path)

-----------------------------------------------------------------------------
(* The answer.                                                             *)

\* A problem of the handler's own: some 4xx, 503 from handleReady.
OwnStatus(r) == IF r \in Clients THEN 400 ELSE 503

\* Mutant: WriteProblem without its cases for context errors.
StatusOfGeneric(r, err) ==
  CASE err = "none"          -> 200
    [] err = "queryCanceled" -> 503
    [] err = "problem"       -> OwnStatus(r)
    [] OTHER                 -> 500

\* WriteProblem's classification of what the handler ends with.  An error is
\* "canceled" only when the request's context is: a closed pool is not.
StatusOf(r, err) ==
  CASE err = "none"                          -> 200
    [] err = "canceled"                      -> 499
    [] err \in {"deadline", "queryCanceled"} -> 503
    [] err = "problem"                       -> OwnStatus(r)
    [] OTHER                                 -> 500

\* The request's context is past its deadline.
Expired(r, q) == q.age >= Deadline(r)

\* What a handler that has come to its end leaves to the middleware: the status
\* sent and the one its statusRecorder holds, 0 for none yet; whether a panic is
\* on its way up; and what the metrics then say.
Unwritten == [sent |-> 0, seen |-> 0, panics |-> FALSE,
              counted |-> FALSE, recorded |-> 0]

\* statusRecorder takes every status, the ResponseWriter under it the first only.
WriteHeader(u, status) ==
  [u EXCEPT !.seen = status, !.sent = IF @ = 0 THEN status ELSE @]

\* The handler writes its answer and returns, or panics: before it has written
\* anything, or with the status `begun` out and its body not encoded yet.
Handled(r, err, begun) ==
  CASE err # "panic"               -> WriteHeader(Unwritten, StatusOf(r, err))
    [] err = "panic" /\ begun = 0 -> [Unwritten EXCEPT !.panics = TRUE]
    [] err = "panic" /\ begun # 0 -> [WriteHeader(Unwritten, begun) EXCEPT !.panics = TRUE]

\* obs.Timeout and obs.Observe have no defer for what they count: a panic that
\* reaches them passes by.
Timed(expired, u) == IF u.panics THEN u ELSE [u EXCEPT !.counted = expired]

Observed(u) ==
  IF u.panics THEN u ELSE [u EXCEPT !.recorded = IF u.seen = 0 THEN 200 ELSE u.seen]

\* obs.Recover ends the panic with a 500, whatever was written before.
Recovered(u) ==
  IF u.panics THEN [WriteHeader(u, 500) EXCEPT !.panics = FALSE] ELSE u

\* Mutant: Recover mounted outside Observe.
UnwoundRecoverFirst(r, expired, u) ==
  IF r \in Clients THEN Recovered(Observed(Timed(expired, u))) ELSE Recovered(u)

\* The middleware of PublicRouter, and of AdminRouter, from the handler outwards.
Unwound(r, expired, u) ==
  IF r \in Clients THEN Observed(Recovered(Timed(expired, u))) ELSE Recovered(u)

\* The handler comes to its end, and the middleware around it unwinds.
Ended(r, q, err, begun) ==
  LET u == Unwound(r, Expired(r, q), Handled(r, err, begun))
  IN [pc |-> "written", path |-> <<>>, conn |-> FALSE, age |-> 0, busy |-> 0,
      err |-> err, status |-> u.sent, recorded |-> u.recorded,
      counted |-> u.counted, late |-> q.age >= Patience(r),
      parked |-> q.parked, done |-> q.done, mutates |-> q.mutates]

Answered(r, q, err) == Ended(r, q, err, 0)

-----------------------------------------------------------------------------
(* From one step of a handler to the next.                                 *)

\* Mutant: newPool leaves the pool unbounded.
HasRoomAlways == TRUE

\* poolCfg.MaxConns.
HasRoom == pool.acquired < MaxConns

\* Mutant: Tx without its deferred Rollback, only failed statements give back.
GivesBackFailedOnly(q) == IF q.conn /\ q.pc = "statement" THEN 1 ELSE 0

\* What a request that goes no further gives back: the connection of its
\* statement or, through Tx's deferred Rollback, of its transaction.
GivesBack(q) == IF q.conn THEN 1 ELSE 0

\* The step is over and handler code runs.
Passed(q) == [q EXCEPT !.pc = "code", !.path = Tail(@), !.busy = 0]

WaitFor(step) ==
  CASE step.kind = "body"               -> "body"
    [] step.kind \in Pooled             -> "acquire"
    [] step.kind \in InTx               -> "statement"
    [] step.kind \in {"ask", "discard"} -> "bucket"

Become(r, q, back) ==
  /\ req' = [req EXCEPT ![r] = q]
  /\ pool' = [pool EXCEPT !.acquired = @ - back]
  /\ UNCHANGED process

\* Handler code goes on to its next step, or has come to its end and answers
\* 2xx, or refuses by what it has read or been sent, or panics, which it may also
\* do when the answer it has begun is encoded.
Continue(r, q, back) ==
  \/ /\ q.path # <<>> /\ Current(q).kind # "refuse"
     /\ Become(r, [q EXCEPT !.pc = WaitFor(Current(q))], back)
  \/ /\ q.path = <<>>
     /\ Become(r, Answered(r, q, "none"), back)
  \/ /\ q.path # <<>> /\ Current(q).kind # "discard"
     /\ Become(r, Answered(r, q, "problem"), back + GivesBack(q))
  \/ Become(r, Answered(r, q, "panic"), back + GivesBack(q))
  \/ /\ q.path = <<>>
     /\ Become(r, Ended(r, q, "panic", 200), back + GivesBack(q))

\* Mutant: Tx drops the error of its Commit.
IgnoredCommit(step) == step.kind \in {"discard", "commit"}

\* The one error that is only logged.
Ignored(step) == step.kind = "discard"

\* The step ends with an error, and the handler with it.
Fail(r, q, err) ==
  IF Ignored(Current(q))
  THEN Continue(r, [Passed(q) EXCEPT !.conn = FALSE], GivesBack(q))
  ELSE Become(r, Answered(r, q, IF Current(q).hides THEN "problem" ELSE err),
              GivesBack(q))

-----------------------------------------------------------------------------
(* The steps of a request.                                                 *)

\* The listener hands a request to the router.
Admit(r, p) ==
  /\ listener[ListenerOf(r)] = "up"
  /\ req[r].pc = "idle"
  /\ Continue(r, [IdleReq EXCEPT !.pc = "code", !.path = p, !.mutates = Mutates(p)], 0)

\* DecodeJSON got the body, or it was malformed, or the client went away, or
\* the socket's read deadline passed.  None of this looks at the context.
BodyRead(r) ==
  /\ req[r].pc = "body" /\ req[r].age < ReadTimeout
  /\ Continue(r, Passed(req[r]), 0)

BodyFails(r) ==
  /\ req[r].pc = "body"
  /\ Fail(r, req[r], "problem")

Acquire(r) ==
  /\ req[r].pc = "acquire" /\ ~Expired(r, req[r])
  /\ pool.open /\ HasRoom
  /\ Become(r, [req[r] EXCEPT !.pc = "statement", !.conn = TRUE], -1)

\* A closed pool hands out nothing.
PoolClosed(r) ==
  /\ req[r].pc = "acquire" /\ ~pool.open
  /\ Fail(r, req[r], "closed")

\* Postgres answers.  Outside a transaction, and with its COMMIT, the connection
\* goes back.
StatementDone(r) ==
  LET kind == Current(req[r]).kind
      keeps == kind \in {"begin", "txQuery", "txWrite"}
  IN /\ req[r].pc = "statement"
     /\ Continue(r, [Passed(req[r]) EXCEPT !.conn = keeps,
                                           !.done = @ \/ kind \in {"write", "commit"}],
                 IF keeps THEN 0 ELSE 1)

\* A violated constraint or a missing row, which the handler classifies; any
\* other error of the database; or, past its timeout, SQLSTATE 57014.
StatementFails(r, err) ==
  /\ req[r].pc = "statement"
  /\ err = "queryCanceled" => req[r].busy >= StatementTimeout
  /\ Fail(r, req[r], err)

BucketAnswers(r) ==
  /\ req[r].pc = "bucket"
  /\ Continue(r, Passed(req[r]), 0) \/ Fail(r, req[r], "other")

\* The server notices that its client has hung up, once it has read the body and
\* while the handler waits for something else.
HangsUp(r, q) ==
  r \in Clients /\ \A i \in DOMAIN q.path : q.path[i].kind # "body"

\* The context ends under a call that waits, or has ended before it, and the call
\* returns its error.  Postgres may have finished the statement all the same; the
\* connection is destroyed, and its place in the pool is free.
Cancelled(r, err) ==
  LET q == req[r]
  IN /\ q.pc \in {"acquire", "statement", "bucket"}
     /\ IF Expired(r, q) THEN err = "deadline" ELSE err = "canceled" /\ HangsUp(r, q)
     /\ \E finished \in BOOLEAN :
          /\ finished => q.pc = "statement" /\ Current(q).kind \in {"write", "commit"}
          /\ Fail(r, [q EXCEPT !.parked = q.pc = "acquire", !.done = @ \/ finished], err)

\* The response is out and the goroutine takes another request.
Leave(r) ==
  /\ req[r].pc = "written"
  /\ Become(r, IdleReq, 0)

RequestStep(r) ==
  \/ \E p \in PathsOf(r) : Admit(r, p)
  \/ BodyRead(r)
  \/ BodyFails(r)
  \/ Acquire(r)
  \/ PoolClosed(r)
  \/ StatementDone(r)
  \/ \E err \in {"problem", "other", "queryCanceled"} : StatementFails(r, err)
  \/ BucketAnswers(r)
  \/ \E err \in {"deadline", "canceled"} : Cancelled(r, err)
  \/ Leave(r)

-----------------------------------------------------------------------------
(* main.                                                                   *)

\* newPool's first ping succeeded: both listeners start.
Boot ==
  /\ phase = "boot"
  /\ phase' = "serving"
  /\ pool' = [pool EXCEPT !.open = TRUE]
  /\ listener' = [l \in Listeners |-> "starting"]
  /\ UNCHANGED <<signalled, drain, req>>

\* The configuration, the ping or the bucket client failed, or a signal ended
\* the ping.
BootFails ==
  /\ phase = "boot"
  /\ phase' = "exited"
  /\ UNCHANGED <<signalled, listener, drain, pool, req>>

\* Once main drains or closes, another signal changes nothing.
Signal ==
  /\ ~signalled /\ phase \in {"boot", "serving"}
  /\ signalled' = TRUE
  /\ UNCHANGED <<phase, listener, drain, pool, req>>

Listens(l) ==
  /\ listener[l] = "starting"
  /\ listener' = [listener EXCEPT ![l] = "up"]
  /\ UNCHANGED <<phase, signalled, drain, pool, req>>

\* ListenAndServe returns: the port is taken, or accepting failed.  Once main has
\* left its select nobody reads the error.
ListenerFails(l) ==
  /\ phase = "serving"
  /\ listener[l] \in {"starting", "up"}
  /\ listener' = [listener EXCEPT ![l] = "failed"]
  /\ UNCHANGED <<phase, signalled, drain, pool, req>>

ClosesPool == pool' = [pool EXCEPT !.open = FALSE]

\* main's select takes the error: run returns it, and nothing is drained.
ServerError ==
  /\ phase = "serving"
  /\ \E l \in Listeners : listener[l] = "failed"
  /\ phase' = "closing"
  /\ ClosesPool
  /\ UNCHANGED <<signalled, listener, drain, req>>

Stopped(l) == [listener EXCEPT ![l] = IF @ = "failed" THEN @ ELSE "closed"]

\* Mutant: both listeners are closed at once.
SignalSeenBoth ==
  /\ phase = "serving" /\ signalled
  /\ phase' = "public"
  /\ listener' = [l \in Listeners |-> "closed"]
  /\ drain' = 0
  /\ UNCHANGED <<signalled, pool, req>>

\* main's select takes the signal: public.Shutdown closes its listener and waits.
SignalSeen ==
  /\ phase = "serving" /\ signalled
  /\ phase' = "public"
  /\ listener' = Stopped("public")
  /\ drain' = 0
  /\ UNCHANGED <<signalled, pool, req>>

\* Mutant: Shutdown is given no deadline.
OverdueNever == FALSE

\* Mutant: Shutdown is given the signal's context, already done.
OverdueAtOnce == TRUE

\* shutdownCtx, one for both listeners, is done.
Overdue == drain >= ShutdownWait

\* public.Shutdown returns; admin.Shutdown begins.
PublicDrained ==
  /\ phase = "public"
  /\ ActiveOf("public") = {} \/ Overdue
  /\ phase' = "admin"
  /\ listener' = Stopped("admin")
  /\ UNCHANGED <<signalled, drain, pool, req>>

\* admin.Shutdown returns, run returns, and pool.Close begins.
AdminDrained ==
  /\ phase = "admin"
  /\ ActiveOf("admin") = {} \/ Overdue
  /\ phase' = "closing"
  /\ ClosesPool
  /\ UNCHANGED <<signalled, listener, drain, req>>

\* pool.Close returns when every connection is back.  The process exits, and
\* whoever has had no answer gets none.
Exit ==
  /\ phase = "closing" /\ pool.acquired = 0
  /\ phase' = "exited"
  /\ listener' = [l \in Listeners |-> "closed"]
  /\ req' = [r \in Requests |-> IdleReq]
  /\ drain' = NotDraining
  /\ UNCHANGED <<signalled, pool>>

\* Whoever runs the service starts it again.
Restart ==
  /\ phase = "exited"
  /\ phase' = "boot"
  /\ signalled' = FALSE
  /\ UNCHANGED <<listener, drain, pool, req>>

MainStep ==
  \/ Boot \/ BootFails \/ Signal
  \/ \E l \in Listeners : Listens(l) \/ ListenerFails(l)
  \/ ServerError \/ SignalSeen \/ PublicDrained \/ AdminDrained \/ Exit \/ Restart

-----------------------------------------------------------------------------
(* Time.                                                                   *)

Waits(r) ==
  LET q == req[r]
  IN \/ q.pc = "idle"
     \/ q.pc = "body" /\ q.age < ReadTimeout
     \/ /\ ~Expired(r, q)
        /\ \/ q.pc = "bucket"
           \/ q.pc = "statement" /\ q.busy < StatementTimeout
           \/ q.pc = "acquire" /\ ~HasRoom

MainWaits ==
  \/ phase = "serving" /\ ~signalled /\ \A l \in Listeners : listener[l] # "failed"
  \/ phase = "public" /\ ActiveOf("public") # {} /\ ~Overdue
  \/ phase = "admin" /\ ActiveOf("admin") # {} /\ ~Overdue
  \/ phase = "closing" /\ pool.acquired > 0

\* The bound on both clocks: past it, they tell nothing more.
MaxAge == WriteTimeout + ProbeTimeout + ShutdownWait

Older(n) == IF n < MaxAge THEN n + 1 ELSE n

Tick ==
  /\ MainWaits
  /\ \E r \in Requests : req[r].pc # "idle"
  /\ \A r \in Requests : Waits(r)
  /\ req' = [r \in Requests |->
       IF req[r].pc = "idle" THEN req[r]
       ELSE [req[r] EXCEPT !.age = Older(@),
                           !.busy = IF req[r].pc = "statement" THEN @ + 1 ELSE @]]
  /\ drain' = IF drain = NotDraining THEN drain ELSE Older(drain)
  /\ UNCHANGED <<phase, signalled, listener, pool>>

Next ==
  \/ \E r \in Requests : RequestStep(r)
  \/ MainStep
  \/ Tick

Spec == Init /\ [][Next]_vars

-----------------------------------------------------------------------------
(* Properties.                                                             *)

Places == {"idle", "body", "acquire", "statement", "bucket", "written"}
Ages   == 0..MaxAge
Runs   == 0..StatementTimeout
Errors == {"none", "problem", "other", "queryCanceled", "deadline", "canceled",
           "panic", "closed"}
Statuses == {0, 200, 400, 499, 500, 503}

RequestStates ==
  [pc : Places, path : Seq(Steps), conn : BOOLEAN, age : Ages, busy : Runs,
   err : Errors, status : Statuses, recorded : Statuses, counted : BOOLEAN,
   late : BOOLEAN, parked : BOOLEAN, done : BOOLEAN, mutates : BOOLEAN]

\* Types; in particular no more than MaxConns connections are ever out, no
\* statement runs past its timeout.
TypeOK ==
  /\ phase \in {"boot", "serving", "public", "admin", "closing", "exited"}
  /\ signalled \in BOOLEAN
  /\ listener \in [Listeners -> {"starting", "up", "failed", "closed"}]
  /\ drain \in NotDraining..MaxAge
  /\ pool \in [open : BOOLEAN, acquired : 0..MaxConns]
  /\ req \in [Requests -> RequestStates]

\* The pool's count of acquired connections (pgxpool_connections) is exactly the
\* requests that hold one, through errors, panics, deadlines and rollbacks: a
\* connection is never leaked and never given back twice.
ConnectionsAccounted ==
  pool.acquired = Cardinality({r \in Requests : req[r].conn})

\* A request that holds a connection never waits for another one, for the bucket
\* or for its client (DISCUSSION.md, section 13): the pool cannot deadlock, nor
\* be held by a slow client.
HoldersNeverWait ==
  \A r \in Requests : req[r].conn => req[r].pc = "statement"

\* "A request that times out waiting has done nothing ... always safe to retry"
\* (DISCUSSION.md, section 13): whoever gives up in the pool's queue has not
\* committed anything before.
SafeToRetry == \A r \in Requests : req[r].parked => ~req[r].done

\* Every answer is written while the socket still takes it: before WriteTimeout
\* for a client, whatever its body, the pool, Postgres or the bucket do, and
\* before the healthcheck gives up for a probe, even with every connection taken.
AnsweredInTime == \A r \in Requests : ~req[r].late

\* A 2xx from a handler that changes the tables means the change is committed.
OkMeansDone ==
  \A r \in Requests : req[r].status = 200 /\ req[r].mutates => req[r].done

\* A 500 means a bug or a broken database (problem.go, line 92): load that was
\* shed and clients that left are not among them, only requests that met a pool
\* closed after the drain gave up on them, or without one.
OwnFaultOnly ==
  \A r \in Requests :
    req[r].status = 500 =>
      \/ req[r].err \in {"panic", "other"}
      \/ req[r].err = "closed" /\ (drain = NotDraining \/ drain >= ShutdownWait)

\* What the metrics say is what happened, though every layer of the middleware
\* sees only what the one inside it leaves (server.go, line 50).  No panic drops a
\* connection, on either listener.  A panic is recorded as a 500, even when the
\* client already has the 200 of an answer that broke off; every other answer is
\* recorded with the status that was sent, and one shed at its deadline is in the
\* timeouts too.
MetricsTellWhatHappened ==
  \A r \in Requests :
    LET q == req[r]
    IN q.pc = "written" =>
         /\ q.status # 0
         /\ r \in Clients =>
              /\ q.recorded = IF q.err = "panic" THEN 500 ELSE q.status
              /\ q.status = 503 /\ q.err = "deadline" => q.counted

\* The order of shutdown (main.go, line 141): the admin listener answers as long
\* as clients are being drained, and the pool stays open as long as anybody is,
\* until the bounded wait is over or because a listener failed.
ClosedInOrder ==
  /\ phase \in {"serving", "public"} => listener["admin"] # "closed" /\ pool.open
  /\ phase = "admin" => pool.open
  /\ drain # NotDraining /\ drain < ShutdownWait =>
       /\ phase \in {"admin", "closing"} => ActiveOf("public") = {}
       /\ phase = "closing" => ActiveOf("admin") = {}

\* A deploy cuts a client's request off only when it is still unanswered after
\* SHUTDOWN_WAIT (main.go, line 133); nothing else cuts one off but a listener
\* that failed, which skips the drain.
CutOnlyAfterWait ==
  [][phase' = "exited" /\ ActiveOf("public") # {} =>
       drain >= ShutdownWait \/ \E l \in Listeners : listener[l] = "failed"]_vars

\* "A stuck handler cannot block the deploy forever" (main.go, line 135): from the
\* signal to the exit it takes no longer than the wait and what the last holder
\* of a connection may still take, pool.Close included.
LeavesInTime ==
  drain <= RequestTimeout \/ drain <= ShutdownWait + ReadyTimeout
=============================================================================
