--------------------------- MODULE ServingProofs ---------------------------
(***************************************************************************)
(* Proofs about the API process, for any number of clients and probes, any *)
(* pool, any handlers of module Handlers and any periods that nest as      *)
(* config.Load has it.                                                     *)
(*                                                                         *)
(* The invariant is in three parts.  RequestOK says of one request that    *)
(* what is left of its path is well formed (Proper), that it holds a       *)
(* connection exactly while a statement runs, and what its answer          *)
(* promised.  PoolOK counts connections.  ShutdownOK ties main's position  *)
(* to the listeners, the pool, the clocks and who is still being served.   *)
(***************************************************************************)
EXTENDS Serving, FiniteSetTheorems, SequenceTheorems, TLAPS

-----------------------------------------------------------------------------
(* What the rest of a path is like.                                        *)

Keeps == {"begin", "txQuery", "txWrite"}   \* a transaction goes on after these
Takes == {"write", "commit"}               \* these make a change last

\* A transaction is one run of steps that ends with its commit, and nothing after
\* a lasting change waits for the pool.
Proper(p) ==
  /\ p \in Seq(Steps)
  /\ \A i \in 1..Len(p) :
       /\ p[i].kind \in Keeps <=> i < Len(p) /\ p[i+1].kind \in InTx
       /\ p[i].kind \in Takes =>
            \A j \in 1..Len(p) : i < j => p[j].kind \notin Pooled

StartsOutside(p) == p # <<>> => Head(p).kind \notin InTx

NoBody(p)  == \A i \in 1..Len(p) : p[i].kind # "body"
Unqueued(p) == \A i \in 1..Len(p) : p[i].kind \notin Pooled
WillTake(p) == \E i \in 1..Len(p) : p[i].kind \in Takes

-----------------------------------------------------------------------------
(* The inductive invariant.                                                *)

Underway(q) == q.pc \notin {"idle", "written"}

\* The metrics of a request that is answered.
Measured(q) ==
  /\ q.recorded = IF q.err = "panic" THEN 500 ELSE q.status
  /\ q.status = 503 /\ q.err = "deadline" => q.counted

\* What one request relies on, whatever the others and main do.
RequestOK(r, q) ==
  /\ q \in RequestStates
  /\ Proper(q.path)
  /\ r \in Probes => NoBody(q.path)
  /\ q.conn <=> q.pc = "statement"
  /\ Underway(q) <=> q.path # <<>>
  /\ Underway(q) =>
       /\ Current(q).kind # "refuse"
       /\ \/ q.pc = WaitFor(Current(q))
          \/ q.pc = "statement" /\ Current(q).kind \in Pooled
  /\ q.done => Unqueued(q.path)
  /\ Underway(q) /\ q.mutates => q.done \/ WillTake(q.path)
  /\ q.age < Patience(r) /\ ~q.late
  /\ q.pc # "written" => q.status = 0 /\ q.err = "none" /\ ~q.parked
  /\ q.parked => ~q.done
  /\ q.status = 200 /\ q.mutates => q.done
  /\ q.status = 500 => q.err \in {"panic", "other", "closed"}
  /\ q.pc = "written" => q.status # 0 /\ (r \in Clients => Measured(q))

PoolOK ==
  /\ ConnectionsAccounted
  /\ pool.acquired <= MaxConns

Closed(l) == listener[l] \in {"failed", "closed"}

\* Where main is decides which listeners take requests, whether the pool is open,
\* and who may still be served; the clocks of those who are bound the drain.
ShutdownOK ==
  /\ phase \in {"boot", "exited"} =>
       /\ drain = NotDraining /\ ~pool.open
       /\ \A l \in Listeners : listener[l] = "closed"
       /\ \A r \in Requests : req[r].pc = "idle"
  /\ phase = "serving" =>
       drain = NotDraining /\ pool.open /\ \A l \in Listeners : listener[l] # "closed"
  /\ phase = "public" =>
       /\ drain \in 0..ShutdownWait /\ pool.open
       /\ Closed("public") /\ listener["admin"] # "closed"
  /\ phase = "admin" =>
       /\ drain \in 0..ShutdownWait /\ pool.open
       /\ \A l \in Listeners : Closed(l)
       /\ drain < ShutdownWait => ActiveOf("public") = {}
  /\ phase = "closing" =>
       /\ ~pool.open
       /\ drain = NotDraining => \E l \in Listeners : listener[l] = "failed"
       /\ drain # NotDraining => \A l \in Listeners : Closed(l)
       /\ drain \in 0..(ShutdownWait - 1) => \A r \in Requests : req[r].pc = "idle"
  /\ LeavesInTime
  /\ drain # NotDraining =>
       /\ \A r \in Clients : Underway(req[r]) => req[r].age >= drain
       /\ \A r \in Probes : Underway(req[r]) => req[r].age + ShutdownWait >= drain
  /\ pool.open => \A r \in Requests : req[r].err # "closed"

IInv ==
  /\ TypeOK
  /\ \A r \in Requests : RequestOK(r, req[r])
  /\ PoolOK
  /\ ShutdownOK

-----------------------------------------------------------------------------
(* The handlers' paths.                                                    *)

LEMMA StepConstants ==
  /\ Body \in Steps /\ Query \in Steps /\ Write \in Steps /\ Begin \in Steps
  /\ TxQuery \in Steps /\ TxWrite \in Steps /\ Commit \in Steps
  /\ Ask \in Steps /\ Discard \in Steps /\ Refuse \in Steps
  /\ Hidden(Query) \in Steps /\ Hidden(Begin) \in Steps
  /\ Hidden(TxWrite) \in Steps /\ Hidden(Commit) \in Steps
BY DEF Body, Query, Write, Begin, TxQuery, TxWrite, Commit, Ask, Discard, Refuse,
       Hidden, Does, Steps, Kinds

LEMMA KindsOfSteps ==
  /\ Body.kind = "body" /\ Query.kind = "query" /\ Write.kind = "write"
  /\ Begin.kind = "begin" /\ TxQuery.kind = "txQuery" /\ TxWrite.kind = "txWrite"
  /\ Commit.kind = "commit" /\ Ask.kind = "ask" /\ Discard.kind = "discard"
  /\ Refuse.kind = "refuse"
  /\ Hidden(Query).kind = "query" /\ Hidden(Begin).kind = "begin"
  /\ Hidden(TxWrite).kind = "txWrite" /\ Hidden(Commit).kind = "commit"
BY DEF Body, Query, Write, Begin, TxQuery, TxWrite, Commit, Ask, Discard, Refuse,
       Hidden, Does

GoodPath(p) == Proper(p) /\ StartsOutside(p)

LEMMA LiteralPaths ==
  /\ GoodPath(<<>>)
  /\ GoodPath(<<Query>>)
  /\ GoodPath(<<Body, Query>>)
  /\ GoodPath(<<Body, Write>>)
  /\ GoodPath(<<Query, Hidden(Query)>>)
  /\ GoodPath(<<Query, Query>>)
  /\ GoodPath(<<Query, Write>>)
  /\ GoodPath(<<Body, Hidden(Query), Write>>)
  /\ GoodPath(<<Query, Body, Write>>)
  /\ GoodPath(<<Hidden(Begin), Hidden(TxWrite), Hidden(TxWrite), Hidden(Commit)>>)
  /\ GoodPath(<<Query, Body, Query, Write>>)
  /\ GoodPath(<<Query, Query, Ask, Write>>)
  /\ GoodPath(<<Query, Query, Write, Discard>>)
  /\ GoodPath(<<Body, Begin, TxWrite, TxWrite, Commit>>)
  /\ GoodPath(<<Query, Begin, TxQuery, TxWrite, Commit>>)
  /\ GoodPath(<<Query, Begin, TxWrite, TxWrite, Commit>>)
  /\ GoodPath(<<Query, Body, Begin, TxWrite, Commit>>)
  /\ GoodPath(<<Query, Body, Query, Hidden(Query), Refuse>>)
  /\ GoodPath(<<Query, Body, Query, Query, Write>>)
  /\ GoodPath(<<Query, Query, Ask, Discard, Refuse>>)
  /\ GoodPath(<<Query, Begin, TxQuery, TxQuery, TxWrite, Commit>>)
  /\ GoodPath(<<Query, Body, Begin, TxQuery, TxWrite, Commit>>)
  /\ GoodPath(<<Query, Body, Begin, TxQuery, TxQuery, TxWrite, Commit>>)
  /\ GoodPath(<<Hidden(Query)>>)
<1>. USE StepConstants, KindsOfSteps
     DEF GoodPath, Proper, StartsOutside, Keeps, Takes, InTx, Pooled
<1>1. GoodPath(<<>>)
  OBVIOUS
<1>2. GoodPath(<<Query>>)
  OBVIOUS
<1>3. GoodPath(<<Body, Query>>)
  OBVIOUS
<1>4. GoodPath(<<Body, Write>>)
  OBVIOUS
<1>5. GoodPath(<<Query, Hidden(Query)>>)
  OBVIOUS
<1>6. GoodPath(<<Query, Query>>)
  OBVIOUS
<1>7. GoodPath(<<Query, Write>>)
  OBVIOUS
<1>8. GoodPath(<<Body, Hidden(Query), Write>>)
  OBVIOUS
<1>9. GoodPath(<<Query, Body, Write>>)
  OBVIOUS
<1>10. GoodPath(<<Hidden(Begin), Hidden(TxWrite), Hidden(TxWrite), Hidden(Commit)>>)
  OBVIOUS
<1>11. GoodPath(<<Query, Body, Query, Write>>)
  OBVIOUS
<1>12. GoodPath(<<Query, Query, Ask, Write>>)
  OBVIOUS
<1>13. GoodPath(<<Query, Query, Write, Discard>>)
  OBVIOUS
<1>14. GoodPath(<<Body, Begin, TxWrite, TxWrite, Commit>>)
  OBVIOUS
<1>15. GoodPath(<<Query, Begin, TxQuery, TxWrite, Commit>>)
  OBVIOUS
<1>16. GoodPath(<<Query, Begin, TxWrite, TxWrite, Commit>>)
  OBVIOUS
<1>17. GoodPath(<<Query, Body, Begin, TxWrite, Commit>>)
  OBVIOUS
<1>18. GoodPath(<<Query, Body, Query, Hidden(Query), Refuse>>)
  OBVIOUS
<1>19. GoodPath(<<Query, Body, Query, Query, Write>>)
  OBVIOUS
<1>20. GoodPath(<<Query, Query, Ask, Discard, Refuse>>)
  OBVIOUS
<1>21. GoodPath(<<Query, Begin, TxQuery, TxQuery, TxWrite, Commit>>)
  OBVIOUS
<1>22. GoodPath(<<Query, Body, Begin, TxQuery, TxWrite, Commit>>)
  OBVIOUS
<1>23. GoodPath(<<Query, Body, Begin, TxQuery, TxQuery, TxWrite, Commit>>)
  OBVIOUS
<1>24. GoodPath(<<Hidden(Query)>>)
  OBVIOUS
<1>. QED
  BY <1>1, <1>2, <1>3, <1>4, <1>5, <1>6, <1>7, <1>8, <1>9, <1>10, <1>11,
     <1>12, <1>13, <1>14, <1>15, <1>16, <1>17, <1>18, <1>19, <1>20, <1>21,
     <1>22, <1>23, <1>24

\* Every handler of the public listener is well formed.
LEMMA PublicPathsGood ==
  \A p \in PublicPaths : GoodPath(p)
BY LiteralPaths
DEF PublicPaths, NoteCreate, NoteGet, NoteUpdate, NoteDelete, NoteRestore,
    NoteList, ShareList, ShareUpsert, ShareRevoke, AttachmentCreate,
    AttachmentComplete, AttachmentList, AttachmentDelete, TeamCreate, TeamList,
    TeamGet, TeamUpdate, TeamDelete, MemberList, MemberAdd, MemberLeave,
    Register, Login, Me, UpdateMe, ChangePassword, DeleteMe, UserLookup

LEMMA AdminPathsGood ==
  \A p \in AdminPaths : GoodPath(p) /\ NoBody(p)
<1>1. \A p \in AdminPaths : GoodPath(p)
  BY LiteralPaths DEF AdminPaths
<1>2. NoBody(<<>>) /\ NoBody(<<Hidden(Query)>>)
  BY StepConstants, KindsOfSteps DEF NoBody
<1>. QED BY <1>1, <1>2 DEF AdminPaths

LEMMA TailFacts ==
  ASSUME NEW p, Proper(p), p # <<>>
  PROVE  /\ Proper(Tail(p))
         /\ Head(p) \in Steps
         /\ NoBody(p) => NoBody(Tail(p)) /\ Head(p).kind # "body"
         /\ Unqueued(p) => Unqueued(Tail(p)) /\ Head(p).kind \notin Pooled
         /\ WillTake(p) => Head(p).kind \in Takes \/ WillTake(Tail(p))
         /\ Head(p).kind \in Keeps => Tail(p) # <<>> /\ Head(Tail(p)).kind \in InTx
         /\ Head(p).kind \notin Keeps => StartsOutside(Tail(p))
         /\ Head(p).kind \in Takes => Unqueued(Tail(p))
<1>1. /\ p \in Seq(Steps) /\ Len(p) \in Nat /\ Len(p) >= 1
      /\ Tail(p) \in Seq(Steps) /\ Len(Tail(p)) = Len(p) - 1
      /\ Head(p) = p[1] /\ p[1] \in Steps
      /\ \A i \in 1..Len(Tail(p)) : Tail(p)[i] = p[i+1]
  BY DEF Proper
<1>2. Tail(p) # <<>> => Len(p) >= 2 /\ Head(Tail(p)) = p[2]
  BY <1>1
<1>3. Len(p) >= 2 => Tail(p) # <<>>
  BY <1>1
<1>4. Proper(Tail(p))
  <2>1. ASSUME NEW i \in 1..Len(Tail(p))
        PROVE  Tail(p)[i].kind \in Keeps <=>
                 i < Len(Tail(p)) /\ Tail(p)[i+1].kind \in InTx
    <3>1. p[i+1].kind \in Keeps <=> i+1 < Len(p) /\ p[i+2].kind \in InTx
      <4>1. i+1 \in 1..Len(p) /\ (i+1)+1 = i+2
        BY <1>1
      <4>. QED BY <4>1 DEF Proper
    <3>2. i < Len(Tail(p)) => Tail(p)[i+1] = p[i+2]
      BY <1>1
    <3>. QED BY <1>1, <3>1, <3>2
  <2>2. ASSUME NEW i \in 1..Len(Tail(p)), Tail(p)[i].kind \in Takes,
               NEW j \in 1..Len(Tail(p)), i < j
        PROVE  Tail(p)[j].kind \notin Pooled
    BY <1>1, <2>2 DEF Proper
  <2>. QED BY <1>1, <2>1, <2>2 DEF Proper
<1>5. NoBody(p) => NoBody(Tail(p)) /\ Head(p).kind # "body"
  BY <1>1 DEF NoBody
<1>6. Unqueued(p) => Unqueued(Tail(p)) /\ Head(p).kind \notin Pooled
  BY <1>1 DEF Unqueued
<1>7. WillTake(p) => Head(p).kind \in Takes \/ WillTake(Tail(p))
  <2>. SUFFICES ASSUME NEW i \in 1..Len(p), p[i].kind \in Takes, i # 1
                PROVE  WillTake(Tail(p))
    BY <1>1 DEF WillTake
  <2>1. i-1 \in 1..Len(Tail(p)) /\ Tail(p)[i-1] = p[i]
    BY <1>1
  <2>. QED BY <2>1 DEF WillTake
<1>8. Head(p).kind \in Keeps => Tail(p) # <<>> /\ Head(Tail(p)).kind \in InTx
  BY <1>1, <1>2, <1>3 DEF Proper
<1>9. Head(p).kind \notin Keeps => StartsOutside(Tail(p))
  BY <1>1, <1>2 DEF Proper, StartsOutside
<1>10. Head(p).kind \in Takes => Unqueued(Tail(p))
  BY <1>1 DEF Proper, Unqueued
<1>. QED BY <1>1, <1>4, <1>5, <1>6, <1>7, <1>8, <1>9, <1>10

-----------------------------------------------------------------------------
(* One request.                                                            *)

LEMMA Periods ==
  /\ MaxConns \in Nat /\ MaxConns >= 1
  /\ RequestTimeout \in Nat /\ StatementTimeout \in Nat /\ ShutdownWait \in Nat
  /\ ReadTimeout \in Nat /\ WriteTimeout \in Nat
  /\ ReadyTimeout \in Nat /\ ProbeTimeout \in Nat
  /\ ReadyTimeout >= 1 /\ RequestTimeout >= 1
  /\ StatementTimeout < RequestTimeout /\ RequestTimeout < WriteTimeout
  /\ ReadTimeout < WriteTimeout /\ ReadyTimeout < ProbeTimeout
BY ServingAssumption DEF PeriodsNest

LEMMA Clocks ==
  /\ MaxAge \in Nat /\ MaxAge >= ShutdownWait /\ MaxAge >= WriteTimeout
  /\ \A r : /\ Deadline(r) \in Nat /\ Patience(r) \in Nat
            /\ Deadline(r) < Patience(r) /\ Patience(r) >= 1
            /\ Patience(r) <= MaxAge
BY Periods DEF MaxAge, Deadline, Patience

\* A request record at any place, between two steps too.
AnyStates ==
  [pc : Places \cup {"code"}, path : Seq(Steps), conn : BOOLEAN, age : Ages,
   busy : Runs, err : Errors, status : Statuses, recorded : Statuses,
   counted : BOOLEAN, late : BOOLEAN, parked : BOOLEAN, done : BOOLEAN,
   mutates : BOOLEAN]

\* Handler code runs: a connection is held exactly when the transaction goes on.
InCode(r, q) ==
  /\ q \in AnyStates
  /\ Proper(q.path)
  /\ r \in Probes => NoBody(q.path)
  /\ q.conn <=> q.path # <<>> /\ Head(q.path).kind \in InTx
  /\ q.busy = 0
  /\ q.done => Unqueued(q.path)
  /\ q.mutates => q.done \/ WillTake(q.path)
  /\ q.age < Patience(r) /\ ~q.late
  /\ q.status = 0 /\ q.err = "none" /\ ~q.parked

LEMMA Members ==
  /\ 0 \in Ages /\ 0 \in Runs /\ "none" \in Errors /\ 0 \in Statuses
  /\ "written" \in Places /\ "idle" \in Places /\ <<>> \in Seq(Steps)
  /\ FALSE \in BOOLEAN /\ TRUE \in BOOLEAN
BY Clocks, Periods DEF Ages, Runs, Errors, Statuses, Places

\* What the middleware passes outwards.
Responses == [sent : Statuses, seen : Statuses, panics : BOOLEAN,
              counted : BOOLEAN, recorded : Statuses]

LEMMA HeaderFacts ==
  ASSUME NEW u \in Responses, NEW s \in Statuses
  PROVE  /\ WriteHeader(u, s) \in Responses
         /\ WriteHeader(u, s).sent = IF u.sent = 0 THEN s ELSE u.sent
         /\ WriteHeader(u, s).seen = s
         /\ WriteHeader(u, s).panics = u.panics
         /\ WriteHeader(u, s).counted = u.counted
BY DEF WriteHeader, Responses

\* What comes out of the handler: an answer, or a panic with or without a header
\* before it.
LEMMA HandledFacts ==
  ASSUME NEW r, NEW err \in Errors, NEW begun \in {0, 200}
  PROVE  LET u == Handled(r, err, begun)
         IN  /\ u \in Responses /\ (u.panics <=> err = "panic")
             /\ err = "panic" => u.sent = begun
             /\ err # "panic" => u.sent = StatusOf(r, err) /\ u.seen = u.sent
<1>1. Unwritten \in Responses /\ Unwritten.sent = 0 /\ Unwritten.panics = FALSE
  BY DEF Unwritten, Responses, Statuses
<1>2. StatusOf(r, err) \in Statuses /\ 200 \in Statuses
  BY DEF StatusOf, OwnStatus, Statuses
<1>3. CASE err # "panic"
  <2>1. Handled(r, err, begun) = WriteHeader(Unwritten, StatusOf(r, err))
    BY <1>3 DEF Handled
  <2>. DEFINE h == WriteHeader(Unwritten, StatusOf(r, err))
  <2>2. h \in Responses /\ h.sent = StatusOf(r, err) /\ h.seen = h.sent
    BY <1>1, <1>2, HeaderFacts
  <2>3. ~h.panics
    BY <1>1, <1>2, HeaderFacts
  <2>. HIDE DEF h
  <2>4. Handled(r, err, begun) = h
    BY <2>1 DEF h
  <2>. QED BY <1>3, <2>2, <2>3, <2>4
<1>4. CASE err = "panic" /\ begun = 0
  <2>1. Handled(r, err, begun) = [Unwritten EXCEPT !.panics = TRUE]
    BY <1>4 DEF Handled
  <2>. QED BY <1>1, <1>4, <2>1, ZenonT(40) DEF Responses
<1>5. CASE err = "panic" /\ begun # 0
  <2>. DEFINE h == WriteHeader(Unwritten, begun)
  <2>1. Handled(r, err, begun) = [h EXCEPT !.panics = TRUE]
    BY <1>5 DEF Handled
  <2>2. h \in Responses /\ h.sent = begun
    BY <1>1, <1>2, <1>5, HeaderFacts
  <2>. HIDE DEF h
  <2>. QED BY <1>5, <2>1, <2>2, ZenonT(40) DEF Responses
<1>. QED BY <1>3, <1>4, <1>5

\* Each layer by itself.
LEMMA TimedFacts ==
  ASSUME NEW u \in Responses, NEW expired \in BOOLEAN
  PROVE  /\ Timed(expired, u) \in Responses
         /\ Timed(expired, u).sent = u.sent /\ Timed(expired, u).seen = u.seen
         /\ Timed(expired, u).panics = u.panics
         /\ ~u.panics => Timed(expired, u).counted = expired
BY Zenon DEF Timed, Responses

LEMMA RecoveredFacts ==
  ASSUME NEW u \in Responses
  PROVE  /\ Recovered(u) \in Responses /\ Recovered(u).panics = FALSE
         /\ Recovered(u).sent = IF u.panics /\ u.sent = 0 THEN 500 ELSE u.sent
         /\ Recovered(u).seen = IF u.panics THEN 500 ELSE u.seen
         /\ Recovered(u).counted = u.counted
<1>1. 500 \in Statuses
  BY DEF Statuses
<1>2. CASE u.panics
  <2>. DEFINE h == WriteHeader(u, 500)
  <2>1. h \in Responses
    BY <1>1, HeaderFacts
  <2>2. /\ h.sent = (IF u.sent = 0 THEN 500 ELSE u.sent)
        /\ h.seen = 500 /\ h.counted = u.counted
    BY <1>1, HeaderFacts
  <2>3. Recovered(u) = [h EXCEPT !.panics = FALSE]
    BY <1>2 DEF Recovered
  <2>. HIDE DEF h
  <2>4. /\ Recovered(u) \in Responses /\ Recovered(u).panics = FALSE
        /\ Recovered(u).sent = h.sent /\ Recovered(u).seen = h.seen
        /\ Recovered(u).counted = h.counted
    BY <2>1, <2>3 DEF Responses
  <2>. QED BY <1>2, <2>2, <2>4
<1>3. CASE ~u.panics
  BY <1>3 DEF Recovered, Responses
<1>. QED BY <1>2, <1>3

LEMMA ObservedFacts ==
  ASSUME NEW u \in Responses, ~u.panics
  PROVE  /\ Observed(u) \in Responses /\ Observed(u).sent = u.sent
         /\ Observed(u).recorded = IF u.seen = 0 THEN 200 ELSE u.seen
         /\ Observed(u).counted = u.counted
BY DEF Observed, Responses, Statuses

\* The layers together.  A panic goes up to Recover, which is inside Observe: it
\* is sent, if nothing was, and recorded in any case.
LEMMA UnwoundFacts ==
  ASSUME NEW r \in Requests, NEW expired \in BOOLEAN, NEW err \in Errors,
         NEW begun \in {0, 200}
  PROVE  LET u == Unwound(r, expired, Handled(r, err, begun))
         IN  /\ u.sent \in Statuses /\ u.recorded \in Statuses /\ u.counted \in BOOLEAN
             /\ u.sent = IF err # "panic" THEN StatusOf(r, err)
                         ELSE IF begun = 0 THEN 500 ELSE begun
             /\ r \in Clients =>
                  /\ u.recorded = IF err = "panic" THEN 500 ELSE u.sent
                  /\ err # "panic" => u.counted = expired
<1>. DEFINE h == Handled(r, err, begun)
            t == Timed(expired, h)
<1>1. /\ h \in Responses /\ (h.panics <=> err = "panic")
      /\ err = "panic" => h.sent = begun
      /\ err # "panic" => h.sent = StatusOf(r, err) /\ h.seen = h.sent
  BY HandledFacts
<1>2. StatusOf(r, err) # 0
  BY DEF StatusOf, OwnStatus
<1>. HIDE DEF h
<1>3. /\ t \in Responses /\ t.sent = h.sent /\ t.seen = h.seen /\ t.panics = h.panics
      /\ ~h.panics => t.counted = expired
  BY <1>1, TimedFacts
<1>. HIDE DEF t
<1>4. CASE r \in Clients
  <2>. DEFINE v == Recovered(t)
              u == Observed(v)
  <2>1. /\ v \in Responses /\ ~v.panics
        /\ v.sent = (IF t.panics /\ t.sent = 0 THEN 500 ELSE t.sent)
        /\ v.seen = (IF t.panics THEN 500 ELSE t.seen)
        /\ v.counted = t.counted
    BY <1>3, RecoveredFacts
  <2>. HIDE DEF v
  <2>2. /\ u \in Responses /\ u.sent = v.sent /\ u.counted = v.counted
        /\ u.recorded = IF v.seen = 0 THEN 200 ELSE v.seen
    BY <2>1, ObservedFacts
  <2>3. Unwound(r, expired, h) = u
    BY <1>4 DEF Unwound, u, v, t
  <2>. HIDE DEF u
  <2>4. u.sent \in Statuses /\ u.recorded \in Statuses /\ u.counted \in BOOLEAN
    BY <2>2 DEF Responses
  <2>5. /\ u.sent = IF err # "panic" THEN StatusOf(r, err)
                    ELSE IF begun = 0 THEN 500 ELSE begun
        /\ u.recorded = IF err = "panic" THEN 500 ELSE u.sent
    <3>1. CASE err = "panic"
      <4>1. h.panics /\ h.sent = begun
        BY <1>1, <3>1
      <4>2. t.panics /\ t.sent = begun
        BY <1>3, <4>1
      <4>3. v.seen = 500 /\ v.sent = (IF begun = 0 THEN 500 ELSE begun)
        BY <2>1, <4>2
      <4>. QED BY <2>2, <3>1, <4>3
    <3>2. CASE err # "panic"
      <4>1. ~h.panics /\ h.sent = StatusOf(r, err) /\ h.seen = h.sent
        BY <1>1, <3>2
      <4>2. ~t.panics /\ t.sent = h.sent /\ t.seen = h.sent
        BY <1>3, <4>1
      <4>3. v.seen = h.sent /\ v.sent = h.sent
        BY <2>1, <4>2
      <4>. QED BY <1>2, <2>2, <3>2, <4>1, <4>3
    <3>. QED BY <3>1, <3>2
  <2>6. err # "panic" => u.counted = expired
    BY <1>1, <1>3, <2>1, <2>2
  <2>. QED BY <1>4, <2>3, <2>4, <2>5, <2>6 DEF h
<1>5. CASE r \notin Clients
  <2>. DEFINE v == Recovered(h)
  <2>1. v \in Responses /\ v.sent = IF h.panics /\ h.sent = 0 THEN 500 ELSE h.sent
    BY <1>1, RecoveredFacts
  <2>2. Unwound(r, expired, h) = v
    BY <1>5 DEF Unwound
  <2>. HIDE DEF v
  <2>3. v.sent \in Statuses /\ v.recorded \in Statuses /\ v.counted \in BOOLEAN
    BY <2>1 DEF Responses
  <2>4. v.sent = IF err # "panic" THEN StatusOf(r, err)
                 ELSE IF begun = 0 THEN 500 ELSE begun
    BY <1>1, <2>1
  <2>. QED BY <1>5, <2>2, <2>3, <2>4 DEF h
<1>. QED BY <1>4, <1>5

\* An answer keeps what RequestOK promises of it.
LEMMA EndedOK ==
  ASSUME NEW r \in Requests, NEW q \in AnyStates, NEW err \in Errors,
         NEW begun \in {0, 200},
         q.age < Patience(r),
         err = "none" \/ begun = 200 => (q.mutates => q.done),
         q.parked => ~q.done,
         err = "deadline" => Expired(r, q)
  PROVE  /\ RequestOK(r, Ended(r, q, err, begun))
         /\ Ended(r, q, err, begun).pc = "written"
         /\ Ended(r, q, err, begun).err = err
         /\ GivesBack(Ended(r, q, err, begun)) = 0
<1>. DEFINE a == Ended(r, q, err, begun)
            u == Unwound(r, Expired(r, q), Handled(r, err, begun))
<1>1. /\ StatusOf(r, err) # 0
      /\ StatusOf(r, err) = 200 => err = "none"
      /\ StatusOf(r, err) = 500 => err \in {"panic", "other", "closed"}
  BY DEF StatusOf, OwnStatus, Errors
<1>2. /\ u.sent \in Statuses /\ u.recorded \in Statuses /\ u.counted \in BOOLEAN
      /\ u.sent = IF err # "panic" THEN StatusOf(r, err)
                  ELSE IF begun = 0 THEN 500 ELSE begun
      /\ r \in Clients =>
           /\ u.recorded = IF err = "panic" THEN 500 ELSE u.sent
           /\ err # "panic" => u.counted = Expired(r, q)
  <2>1. Expired(r, q) \in BOOLEAN
    BY DEF Expired
  <2>. QED BY <2>1, UnwoundFacts
<1>. HIDE DEF u
<1>3. a = [pc |-> "written", path |-> <<>>, conn |-> FALSE, age |-> 0, busy |-> 0,
           err |-> err, status |-> u.sent, recorded |-> u.recorded,
           counted |-> u.counted, late |-> (q.age >= Patience(r)),
           parked |-> q.parked, done |-> q.done, mutates |-> q.mutates]
  BY DEF Ended, u
<1>4. /\ a.pc = "written" /\ a.path = <<>> /\ a.conn = FALSE
      /\ a.err = err /\ a.status = u.sent /\ a.recorded = u.recorded
      /\ a.counted = u.counted /\ a.age = 0 /\ a.late = (q.age >= Patience(r))
      /\ a.parked = q.parked /\ a.done = q.done /\ a.mutates = q.mutates
  BY <1>3 DEF AnyStates
<1>5. a \in RequestStates
  <2>1. (q.age >= Patience(r)) \in BOOLEAN
    OBVIOUS
  <2>2. u.sent \in Statuses /\ u.recorded \in Statuses /\ u.counted \in BOOLEAN
    BY <1>2
  <2>3. q.parked \in BOOLEAN /\ q.done \in BOOLEAN /\ q.mutates \in BOOLEAN
    BY DEF AnyStates
  <2>. HIDE DEF a
  <2>. QED BY <1>3, <2>1, <2>2, <2>3, Members, Zenon DEF RequestStates
<1>6. Proper(<<>>) /\ NoBody(<<>>) /\ Unqueued(<<>>)
  BY DEF Proper, NoBody, Unqueued
<1>7. ~a.late /\ a.age < Patience(r)
  BY <1>4, Clocks DEF AnyStates, Ages
<1>8. a.status # 0 /\ (r \in Clients => Measured(a))
  BY <1>1, <1>2, <1>4 DEF Measured
<1>9. GivesBack(a) = 0
  BY <1>4 DEF GivesBack
<1>10. (a.status = 200 /\ a.mutates => a.done) /\ (a.status = 500 => err \in {"panic", "other", "closed"})
  BY <1>1, <1>2, <1>4
<1>. HIDE DEF a
<1>11. RequestOK(r, a)
  BY <1>4, <1>5, <1>6, <1>7, <1>8, <1>10 DEF RequestOK, Underway
<1>. QED BY <1>4, <1>9, <1>11 DEF a

LEMMA AnsweredOK ==
  ASSUME NEW r \in Requests, NEW q \in AnyStates, NEW err \in Errors,
         q.age < Patience(r),
         err = "none" /\ q.mutates => q.done,
         q.parked => ~q.done,
         err = "deadline" => Expired(r, q)
  PROVE  /\ RequestOK(r, Answered(r, q, err))
         /\ Answered(r, q, err).pc = "written"
         /\ Answered(r, q, err).err = err
         /\ GivesBack(Answered(r, q, err)) = 0
BY EndedOK DEF Answered

\* A step of request r to the record q: what it takes or gives back is what the
\* pool counts, and the rest of the process stays.
Moves(r, q) ==
  /\ RequestOK(r, q)
  /\ Become(r, q, GivesBack(req[r]) - GivesBack(q))
  /\ q.pc # "idle"
  /\ Underway(q) => q.age = req[r].age \/ (req[r].pc = "idle" /\ q.age = 0)

LEMMA MovesOnEnd ==
  ASSUME NEW r \in Requests, NEW q \in AnyStates, NEW err \in Errors,
         NEW begun \in {0, 200}, NEW back,
         Become(r, Ended(r, q, err, begun), back),
         back = GivesBack(req[r]),
         q.age < Patience(r),
         err = "none" \/ begun = 200 => (q.mutates => q.done),
         q.parked => ~q.done,
         err = "deadline" => Expired(r, q)
  PROVE  Moves(r, Ended(r, q, err, begun))
<1>. DEFINE a == Ended(r, q, err, begun)
<1>1. RequestOK(r, a) /\ a.pc = "written" /\ GivesBack(a) = 0
  BY EndedOK
<1>. HIDE DEF a
<1>2. GivesBack(req[r]) - 0 = GivesBack(req[r])
  BY DEF GivesBack
<1>3. Become(r, a, back)
  BY DEF a
<1>4. Moves(r, a)
  BY <1>1, <1>2, <1>3 DEF Moves, Underway
<1>. QED BY <1>4 DEF a

LEMMA MovesOnAnswer ==
  ASSUME NEW r \in Requests, NEW q \in AnyStates, NEW err \in Errors, NEW back,
         Become(r, Answered(r, q, err), back),
         back = GivesBack(req[r]),
         q.age < Patience(r),
         err = "none" /\ q.mutates => q.done,
         q.parked => ~q.done,
         err = "deadline" => Expired(r, q)
  PROVE  Moves(r, Answered(r, q, err))
BY MovesOnEnd DEF Answered

\* Handler code that has gone on waits as RequestOK has it.
LEMMA WaitingOK ==
  ASSUME NEW r \in Requests, NEW q, InCode(r, q), q.path # <<>>,
         Current(q).kind # "refuse"
  PROVE  LET w == [q EXCEPT !.pc = WaitFor(Current(q))]
         IN  RequestOK(r, w) /\ w.pc # "idle" /\ w.conn = q.conn /\ w.age = q.age
             /\ w.err = "none"
<1>. DEFINE w == [q EXCEPT !.pc = WaitFor(Current(q))]
<1>1. Current(q) \in Steps
  BY TailFacts DEF InCode, Current
<1>2. /\ WaitFor(Current(q)) \in Places \ {"idle", "written"}
      /\ WaitFor(Current(q)) = "statement" <=> Current(q).kind \in InTx
  <2>1. Current(q).kind \in Kinds
    BY <1>1 DEF Steps
  <2>. QED BY <2>1 DEF WaitFor, Kinds, Places, Pooled, InTx
<1>3. /\ w.pc = WaitFor(Current(q)) /\ w.path = q.path /\ w.conn = q.conn
      /\ w.err = q.err /\ w.status = q.status /\ w.age = q.age /\ w.late = q.late
      /\ w.parked = q.parked /\ w.done = q.done /\ w.mutates = q.mutates
      /\ w.recorded = q.recorded /\ w.counted = q.counted
  BY DEF InCode, AnyStates
<1>4. w \in RequestStates
  BY <1>2, Zenon DEF InCode, AnyStates, RequestStates
<1>5. Current(w) = Current(q)
  BY <1>3 DEF Current
<1>6. w.conn <=> w.pc = "statement"
  BY <1>2, <1>3 DEF InCode, Current
<1>. HIDE DEF w
<1>7. RequestOK(r, w)
  BY <1>2, <1>3, <1>4, <1>5, <1>6 DEF RequestOK, InCode, Underway
<1>. QED BY <1>2, <1>3, <1>7 DEF w, InCode

\* From handler code, whichever way it goes on.
LEMMA MovesOnCode ==
  ASSUME NEW r \in Requests, NEW q, InCode(r, q),
         q.age = req[r].age \/ (req[r].pc = "idle" /\ q.age = 0),
         Continue(r, q, GivesBack(req[r]) - GivesBack(q))
  PROVE  \E n \in RequestStates : Moves(r, n) /\ n.err # "closed"
                                  /\ GivesBack(n) <= GivesBack(q)
<1>. USE DEF InCode
<1>. DEFINE back == GivesBack(req[r]) - GivesBack(q)
<1>0. GivesBack(q) \in {0, 1} /\ GivesBack(req[r]) \in {0, 1}
  BY DEF GivesBack
<1>1. CASE /\ q.path # <<>> /\ Current(q).kind # "refuse"
           /\ Become(r, [q EXCEPT !.pc = WaitFor(Current(q))], back)
  <2>. DEFINE w == [q EXCEPT !.pc = WaitFor(Current(q))]
  <2>1. RequestOK(r, w) /\ w.pc # "idle" /\ w.conn = q.conn /\ w.age = q.age
        /\ w.err = "none"
    BY <1>1, WaitingOK
  <2>2. GivesBack(w) = GivesBack(q)
    BY <2>1 DEF GivesBack
  <2>. HIDE DEF w
  <2>3. Moves(r, w)
    BY <1>1, <2>1, <2>2 DEF w, Moves
  <2>. QED BY <1>0, <2>1, <2>2, <2>3 DEF RequestOK
<1>2. CASE q.path = <<>> /\ Become(r, Answered(r, q, "none"), back)
  <2>1. ~q.conn /\ GivesBack(q) = 0
    BY <1>2 DEF GivesBack
  <2>2. q.mutates => q.done
    BY <1>2 DEF WillTake
  <2>3. Moves(r, Answered(r, q, "none"))
    BY <1>0, <1>2, <2>1, <2>2, MovesOnAnswer DEF Errors
  <2>4. Answered(r, q, "none") \in RequestStates /\ Answered(r, q, "none").err = "none"
        /\ GivesBack(Answered(r, q, "none")) = 0
    BY <2>2, AnsweredOK DEF RequestOK, Errors
  <2>. QED BY <1>0, <2>3, <2>4
<1>3. ASSUME NEW err \in {"problem", "panic"},
             Become(r, Answered(r, q, err), back + GivesBack(q))
      PROVE  \E n \in RequestStates : Moves(r, n) /\ n.err # "closed"
                                      /\ GivesBack(n) <= GivesBack(q)
  <2>1. back + GivesBack(q) = GivesBack(req[r])
    BY <1>0
  <2>2. Moves(r, Answered(r, q, err))
    BY <1>3, <2>1, MovesOnAnswer DEF Errors
  <2>3. Answered(r, q, err) \in RequestStates /\ Answered(r, q, err).err = err
        /\ GivesBack(Answered(r, q, err)) = 0
    BY AnsweredOK DEF RequestOK, Errors
  <2>. QED BY <1>0, <2>2, <2>3
<1>4. CASE q.path = <<>> /\ Become(r, Ended(r, q, "panic", 200), back + GivesBack(q))
  <2>. DEFINE n == Ended(r, q, "panic", 200)
  <2>1. ~q.conn /\ back + GivesBack(q) = GivesBack(req[r])
    BY <1>0, <1>4
  <2>2. q.mutates => q.done
    BY <1>4 DEF WillTake
  <2>3. Moves(r, n)
    BY <1>4, <2>1, <2>2, MovesOnEnd DEF Errors
  <2>4. n \in RequestStates /\ n.err = "panic" /\ GivesBack(n) = 0
    BY <2>2, EndedOK DEF RequestOK, Errors
  <2>. HIDE DEF n
  <2>. QED BY <1>0, <2>3, <2>4
<1>. QED BY <1>1, <1>2, <1>3, <1>4 DEF Continue

\* The step failed: only the error of a discard lets the handler go on.
LEMMA MovesOnFail ==
  ASSUME NEW r \in Requests, RequestOK(r, req[r]), Underway(req[r]),
         NEW parked \in BOOLEAN, NEW done \in BOOLEAN, NEW err \in Errors,
         parked => req[r].pc = "acquire" /\ ~done,
         done # req[r].done => req[r].pc = "statement",
         err = "deadline" => Expired(r, req[r]),
         err # "none",
         Fail(r, [req[r] EXCEPT !.parked = parked, !.done = done], err)
  PROVE  \E n \in RequestStates : Moves(r, n) /\ GivesBack(n) <= GivesBack(req[r])
                                  /\ (n.err = "closed" => err = "closed")
<1>. DEFINE q == [req[r] EXCEPT !.parked = parked, !.done = done]
<1>1. /\ q.pc = req[r].pc /\ q.path = req[r].path /\ q.conn = req[r].conn
      /\ q.age = req[r].age /\ q.late = req[r].late /\ q.mutates = req[r].mutates
      /\ q.status = req[r].status /\ q.err = req[r].err
      /\ q.parked = parked /\ q.done = done
  BY DEF RequestOK, RequestStates
<1>2. q \in RequestStates /\ q \in AnyStates
  <2>0. req[r] \in RequestStates
    BY DEF RequestOK
  <2>1. q \in RequestStates
    BY <2>0, Zenon DEF RequestStates
  <2>. QED BY <2>1 DEF RequestStates, AnyStates
<1>3. GivesBack(q) = GivesBack(req[r]) /\ GivesBack(q) \in {0, 1}
  BY <1>1 DEF GivesBack
<1>4. q.path # <<>> /\ Current(q) = Head(q.path) /\ Current(q) = Current(req[r])
  BY <1>1 DEF RequestOK, Current
<1>5. Current(q).kind \in Kinds
  BY <1>1, <1>4, TailFacts DEF RequestOK, Steps
<1>. HIDE DEF q
<1>6. CASE ~Ignored(Current(q))
  <2>. DEFINE e == IF Current(q).hides THEN "problem" ELSE err
  <2>1. e \in Errors /\ e # "none" /\ (e = "deadline" => Expired(r, q))
        /\ (e = "closed" => err = "closed")
    BY <1>1 DEF Errors, Expired
  <2>2. Become(r, Answered(r, q, e), GivesBack(q))
    BY <1>6 DEF Fail, q
  <2>. HIDE DEF e
  <2>3. q.age < Patience(r) /\ (q.parked => ~q.done)
    BY <1>1 DEF RequestOK
  <2>4. Moves(r, Answered(r, q, e))
    BY <1>2, <1>3, <2>1, <2>2, <2>3, MovesOnAnswer
  <2>5. Answered(r, q, e) \in RequestStates /\ Answered(r, q, e).err = e
        /\ GivesBack(Answered(r, q, e)) = 0
    BY <1>2, <2>1, <2>3, AnsweredOK DEF RequestOK
  <2>. QED BY <1>3, <2>1, <2>4, <2>5
<1>7. CASE Ignored(Current(q))
  <2>. DEFINE n == [Passed(q) EXCEPT !.conn = FALSE]
  <2>1. Current(req[r]).kind = "discard"
    BY <1>4, <1>7 DEF Ignored
  <2>2. req[r].pc = "bucket"
    BY <2>1 DEF RequestOK, WaitFor, Pooled, InTx
  <2>3. ~parked /\ done = req[r].done /\ ~req[r].conn
    BY <2>2 DEF RequestOK
  <2>4. Continue(r, n, GivesBack(q))
    BY <1>7 DEF Fail, q
  <2>5. /\ n.pc = "code" /\ n.path = Tail(q.path) /\ n.conn = FALSE /\ n.age = q.age
        /\ n.late = q.late /\ n.mutates = q.mutates /\ n.busy = 0
        /\ n.status = q.status /\ n.err = q.err /\ n.parked = q.parked /\ n.done = q.done
    BY <1>2 DEF Passed, AnyStates
  <2>6. n \in AnyStates
    <3>1. Tail(q.path) \in Seq(Steps) /\ "code" \in Places \cup {"code"}
      BY <1>2, <1>4 DEF AnyStates
    <3>. QED BY <1>2, <3>1, Members, Zenon DEF Passed, AnyStates
  <2>7. Proper(q.path) /\ q.path # <<>> /\ Head(q.path).kind = "discard"
    BY <1>1, <1>4, <2>1 DEF RequestOK
  <2>. HIDE DEF n
  <2>8. InCode(r, n)
    <3>1. StartsOutside(Tail(q.path))
      BY <2>7, TailFacts DEF Keeps
    <3>2. /\ Proper(n.path)
          /\ r \in Probes => NoBody(n.path)
          /\ n.done => Unqueued(n.path)
          /\ n.mutates => n.done \/ WillTake(n.path)
      BY <1>1, <2>3, <2>5, <2>7, TailFacts DEF RequestOK, Takes
    <3>3. n.age < Patience(r) /\ ~n.late /\ n.status = 0 /\ n.err = "none" /\ ~n.parked
      BY <1>1, <2>2, <2>3, <2>5 DEF RequestOK
    <3>4. n.conn <=> n.path # <<>> /\ Head(n.path).kind \in InTx
      BY <2>5, <3>1 DEF StartsOutside
    <3>. QED BY <2>5, <2>6, <3>2, <3>3, <3>4 DEF InCode
  <2>9. GivesBack(n) = 0 /\ GivesBack(req[r]) = 0
    BY <2>3, <2>5 DEF GivesBack
  <2>10. n.age = req[r].age
    BY <1>1, <2>5
  <2>11. GivesBack(q) = GivesBack(req[r]) - GivesBack(n)
    BY <1>3, <2>9
  <2>12. \E m \in RequestStates : Moves(r, m) /\ m.err # "closed"
                                  /\ GivesBack(m) <= GivesBack(n)
    <3>1. Continue(r, n, GivesBack(req[r]) - GivesBack(n))
      BY <2>4, <2>11
    <3>. QED BY <2>8, <2>10, <3>1, MovesOnCode
  <2>. QED BY <2>9, <2>12
<1>. QED BY <1>6, <1>7

-----------------------------------------------------------------------------
(* Every step of a request moves that request alone.                       *)

MovesTo(r, q) ==
  /\ q \in RequestStates /\ RequestOK(r, q)
  /\ Become(r, q, GivesBack(req[r]) - GivesBack(q))
  /\ req[r].pc = "idle" /\ q.pc # "idle" => listener[ListenerOf(r)] = "up"
  /\ Underway(q) => q.age = req[r].age \/ (req[r].pc = "idle" /\ q.age = 0)
  /\ q.err = "closed" => req[r].pc # "idle" /\ ~pool.open
  /\ req[r].pc = "written" => q.pc = "idle"
  /\ GivesBack(q) <= GivesBack(req[r]) \/ HasRoom

Moved(r) == \E q \in RequestStates : MovesTo(r, q)

LEMMA IdleOK ==
  ASSUME NEW r \in Requests
  PROVE  /\ RequestOK(r, IdleReq) /\ GivesBack(IdleReq) = 0
         /\ IdleReq \in RequestStates /\ IdleReq \in AnyStates
<1>1. IdleReq \in RequestStates /\ IdleReq \in AnyStates
  BY Members, Zenon DEF IdleReq, RequestStates, AnyStates
<1>2. Proper(<<>>) /\ NoBody(<<>>) /\ Unqueued(<<>>)
  BY DEF Proper, NoBody, Unqueued
<1>3. 0 < Patience(r)
  BY Clocks
<1>. QED BY <1>1, <1>2, <1>3 DEF RequestOK, IdleReq, Underway, GivesBack

LEMMA AdmitMoves ==
  ASSUME NEW r \in Requests, RequestOK(r, req[r]), NEW p \in PathsOf(r), Admit(r, p)
  PROVE  Moved(r)
<1>. DEFINE q == [IdleReq EXCEPT !.pc = "code", !.path = p, !.mutates = Mutates(p)]
<1>1. GoodPath(p) /\ (r \in Probes => NoBody(p))
  <2>1. CASE r \in Clients
    <3>1. r \notin Probes
      BY <2>1, ServingAssumption
    <3>. QED BY <2>1, <3>1, PublicPathsGood, ServingAssumption DEF PathsOf
  <2>2. CASE r \notin Clients
    BY <2>2, AdminPathsGood DEF PathsOf
  <2>. QED BY <2>1, <2>2
<1>2. /\ q.pc = "code" /\ q.path = p /\ q.mutates = Mutates(p) /\ ~q.conn /\ q.age = 0
      /\ q.busy = 0 /\ q.err = "none" /\ q.status = 0 /\ ~q.late /\ ~q.parked /\ ~q.done
  BY DEF IdleReq
<1>3. q \in AnyStates
  <2>1. Mutates(p) \in BOOLEAN /\ p \in Seq(Steps) /\ "code" \in Places \cup {"code"}
    BY <1>1 DEF Mutates, GoodPath, Proper
  <2>. QED BY <2>1, IdleOK, Zenon DEF AnyStates
<1>4. Mutates(p) => WillTake(p)
  BY <1>1 DEF Mutates, WillTake, GoodPath, Proper, Takes
<1>5. Continue(r, q, 0)
  BY DEF Admit
<1>. HIDE DEF q
<1>6. InCode(r, q)
  BY <1>1, <1>2, <1>3, <1>4, Clocks DEF InCode, GoodPath, StartsOutside
<1>7. /\ req[r].pc = "idle" /\ ~req[r].conn /\ listener[ListenerOf(r)] = "up"
  BY DEF Admit, RequestOK
<1>8. GivesBack(q) = 0 /\ GivesBack(req[r]) = 0
  BY <1>2, <1>7 DEF GivesBack
<1>9. Continue(r, q, GivesBack(req[r]) - GivesBack(q))
  BY <1>5, <1>8
<1>10. PICK n \in RequestStates : Moves(r, n) /\ n.err # "closed"
                                 /\ GivesBack(n) <= GivesBack(q)
  BY <1>2, <1>6, <1>7, <1>9, MovesOnCode
<1>. QED BY <1>7, <1>8, <1>10 DEF Moved, MovesTo, Moves

\* A step that ends well, without a statement: the body is read, the bucket answers.
LEMMA PassMoves ==
  ASSUME NEW r \in Requests, RequestOK(r, req[r]), req[r].pc \in {"body", "bucket"},
         Continue(r, Passed(req[r]), 0)
  PROVE  Moved(r)
<1>. DEFINE old == req[r]  q == Passed(old)
<1>1. old \in RequestStates /\ old.path # <<>> /\ Proper(old.path) /\ ~old.conn
      /\ Current(old) = Head(old.path)
  BY DEF RequestOK, Underway, Current
<1>2. Current(old).kind \notin Pooled \cup InTx
  BY DEF RequestOK, Underway, WaitFor, Pooled, InTx
<1>3. /\ q.pc = "code" /\ q.path = Tail(old.path) /\ q.conn = old.conn /\ q.age = old.age
      /\ q.late = old.late /\ q.mutates = old.mutates /\ q.busy = 0
      /\ q.status = old.status /\ q.err = old.err /\ q.parked = old.parked
      /\ q.done = old.done
  BY <1>1 DEF Passed, RequestStates
<1>4. q \in AnyStates
  <2>1. Tail(old.path) \in Seq(Steps) /\ "code" \in Places \cup {"code"}
        /\ old \in AnyStates
    BY <1>1 DEF RequestStates, AnyStates
  <2>. QED BY <2>1, Members, Zenon DEF Passed, AnyStates
<1>5. /\ Proper(q.path) /\ StartsOutside(q.path)
      /\ r \in Probes => NoBody(q.path)
      /\ q.done => Unqueued(q.path)
      /\ q.mutates => q.done \/ WillTake(q.path)
  <2>1. Head(old.path).kind \notin Keeps \cup Takes
    BY <1>1, <1>2 DEF Keeps, Takes, Pooled, InTx
  <2>. QED BY <1>1, <1>3, <2>1, TailFacts DEF RequestOK, Underway
<1>6. q.age < Patience(r) /\ ~q.late /\ q.status = 0 /\ q.err = "none" /\ ~q.parked
  BY <1>3 DEF RequestOK
<1>7. GivesBack(q) = 0 /\ GivesBack(old) = 0 /\ q.age = req[r].age
  BY <1>1, <1>3 DEF GivesBack
<1>8. Continue(r, q, GivesBack(req[r]) - GivesBack(q))
  BY <1>7
<1>. HIDE DEF q
<1>9. InCode(r, q)
  BY <1>1, <1>3, <1>4, <1>5, <1>6 DEF InCode, StartsOutside
<1>10. PICK n \in RequestStates : Moves(r, n) /\ n.err # "closed"
                                 /\ GivesBack(n) <= GivesBack(q)
  BY <1>7, <1>8, <1>9, MovesOnCode
<1>. QED BY <1>7, <1>10 DEF Moved, MovesTo, Moves

\* A step that fails with the request's record as it was.
LEMMA FailMoves ==
  ASSUME NEW r \in Requests, RequestOK(r, req[r]), Underway(req[r]),
         NEW err \in Errors, err # "none",
         err = "deadline" => Expired(r, req[r]),
         err = "closed" => ~pool.open,
         Fail(r, req[r], err)
  PROVE  Moved(r)
<1>1. req[r] \in RequestStates /\ ~req[r].parked
  BY DEF RequestOK, Underway
<1>2. req[r] = [req[r] EXCEPT !.parked = FALSE, !.done = req[r].done]
        /\ req[r].done \in BOOLEAN
  BY <1>1 DEF RequestStates
<1>3. Fail(r, [req[r] EXCEPT !.parked = FALSE, !.done = req[r].done], err)
  BY <1>2
<1>4. PICK n \in RequestStates : Moves(r, n) /\ GivesBack(n) <= GivesBack(req[r])
                                /\ (n.err = "closed" => err = "closed")
  BY <1>2, <1>3, MovesOnFail
<1>. QED BY <1>4 DEF Moved, MovesTo, Moves, Underway

LEMMA AcquireMoves ==
  ASSUME NEW r \in Requests, RequestOK(r, req[r]), Acquire(r)
  PROVE  Moved(r)
<1>. DEFINE q == [req[r] EXCEPT !.pc = "statement", !.conn = TRUE]
<1>1. /\ req[r] \in RequestStates /\ req[r].pc = "acquire" /\ ~req[r].conn /\ HasRoom
      /\ Become(r, q, -1)
  BY DEF Acquire, RequestOK
<1>2. /\ q.pc = "statement" /\ q.conn /\ q.path = req[r].path /\ q.age = req[r].age
      /\ q.err = req[r].err /\ q.status = req[r].status /\ q.late = req[r].late
      /\ q.parked = req[r].parked /\ q.done = req[r].done /\ q.mutates = req[r].mutates
  BY <1>1 DEF RequestStates
<1>3. q \in RequestStates
  <2>1. "statement" \in Places
    BY DEF Places
  <2>. QED BY <1>1, <2>1, Members, Zenon DEF RequestStates
<1>4. Current(req[r]).kind \in Pooled
  <2>1. /\ Current(req[r]).kind \in Kinds \ {"refuse"}
        /\ WaitFor(Current(req[r])) = "acquire"
    BY <1>1, TailFacts DEF RequestOK, Underway, Current, Steps
  <2>2. CASE Current(req[r]).kind = "body"
    BY <2>1, <2>2 DEF WaitFor
  <2>3. CASE Current(req[r]).kind \in InTx
    BY <2>1, <2>3 DEF WaitFor, InTx, Pooled
  <2>4. CASE Current(req[r]).kind \in {"ask", "discard"}
    BY <2>1, <2>4 DEF WaitFor, InTx, Pooled
  <2>. QED BY <2>1, <2>2, <2>3, <2>4 DEF Kinds, Pooled, InTx
<1>5. Current(q) = Current(req[r])
  BY <1>2 DEF Current
<1>6. GivesBack(q) = 1 /\ GivesBack(req[r]) = 0 /\ 0 - 1 = -1
  BY <1>1, <1>2 DEF GivesBack
<1>. HIDE DEF q
<1>7. RequestOK(r, q)
  BY <1>1, <1>2, <1>3, <1>4, <1>5 DEF RequestOK, Underway, Pooled
<1>8. q.err # "closed"
  BY <1>1, <1>2 DEF RequestOK
<1>. QED BY <1>1, <1>2, <1>3, <1>6, <1>7, <1>8 DEF Moved, MovesTo

LEMMA StatementDoneMoves ==
  ASSUME NEW r \in Requests, RequestOK(r, req[r]), StatementDone(r)
  PROVE  Moved(r)
<1>. DEFINE old  == req[r]
            kind == Current(old).kind
            q    == [Passed(old) EXCEPT !.conn = kind \in Keeps,
                                        !.done = @ \/ kind \in Takes]
<1>1. /\ old \in RequestStates /\ old.path # <<>> /\ Proper(old.path) /\ old.conn
      /\ Current(old) = Head(old.path)
  BY DEF StatementDone, RequestOK, Underway, Current
<1>2. /\ q.pc = "code" /\ q.path = Tail(old.path) /\ q.conn = (kind \in Keeps)
      /\ q.done = (old.done \/ kind \in Takes) /\ q.age = old.age
      /\ q.late = old.late /\ q.mutates = old.mutates /\ q.busy = 0
      /\ q.status = old.status /\ q.err = old.err /\ q.parked = old.parked
  BY <1>1 DEF Passed, RequestStates
<1>3. q \in AnyStates
  <2>1. Tail(old.path) \in Seq(Steps) /\ "code" \in Places \cup {"code"}
        /\ old \in AnyStates
    BY <1>1 DEF RequestStates, AnyStates
  <2>2. Passed(old) \in AnyStates
    BY <2>1, Members, Zenon DEF Passed, AnyStates
  <2>3. (kind \in Keeps) \in BOOLEAN /\ (Passed(old).done \/ kind \in Takes) \in BOOLEAN
    OBVIOUS
  <2>. QED BY <2>2, <2>3, Zenon DEF AnyStates
<1>4. /\ Proper(q.path)
      /\ r \in Probes => NoBody(q.path)
      /\ q.done => Unqueued(q.path)
      /\ q.mutates => q.done \/ WillTake(q.path)
      /\ q.conn <=> q.path # <<>> /\ Head(q.path).kind \in InTx
  <2>1. /\ kind \in Keeps => q.path # <<>> /\ Head(q.path).kind \in InTx
        /\ kind \notin Keeps => StartsOutside(q.path)
    BY <1>1, <1>2, TailFacts
  <2>2. /\ r \in Probes => NoBody(old.path)
        /\ old.done => Unqueued(old.path)
        /\ old.mutates => old.done \/ WillTake(old.path)
    BY <1>1 DEF RequestOK, Underway, StatementDone
  <2>3. Proper(q.path) /\ (r \in Probes => NoBody(q.path))
    BY <1>1, <1>2, <2>2, TailFacts
  <2>4. q.done => Unqueued(q.path)
    BY <1>1, <1>2, <2>2, TailFacts
  <2>5. q.mutates => q.done \/ WillTake(q.path)
    BY <1>1, <1>2, <2>2, TailFacts
  <2>6. q.conn <=> q.path # <<>> /\ Head(q.path).kind \in InTx
    BY <1>2, <2>1 DEF StartsOutside
  <2>. QED BY <2>3, <2>4, <2>5, <2>6
<1>5. q.age < Patience(r) /\ ~q.late /\ q.status = 0 /\ q.err = "none" /\ ~q.parked
  BY <1>2 DEF RequestOK, StatementDone
<1>7. Continue(r, q, IF kind \in Keeps THEN 0 ELSE 1)
  BY DEF StatementDone, Keeps, Takes
<1>. HIDE DEF q
<1>6. /\ GivesBack(old) = 1
      /\ GivesBack(q) = IF kind \in Keeps THEN 1 ELSE 0
      /\ q.age = req[r].age
  BY <1>1, <1>2 DEF GivesBack
<1>8. Continue(r, q, GivesBack(req[r]) - GivesBack(q))
  <2>1. GivesBack(req[r]) - GivesBack(q) = IF kind \in Keeps THEN 0 ELSE 1
    BY <1>6
  <2>. QED BY <1>7, <2>1
<1>9. InCode(r, q)
  BY <1>2, <1>3, <1>4, <1>5 DEF InCode
<1>10. PICK n \in RequestStates : Moves(r, n) /\ n.err # "closed"
                                 /\ GivesBack(n) <= GivesBack(q)
  BY <1>6, <1>8, <1>9, MovesOnCode
<1>11. GivesBack(n) <= GivesBack(req[r]) /\ req[r].pc = "statement"
  BY <1>6, <1>10 DEF StatementDone, GivesBack
<1>. QED BY <1>10, <1>11 DEF Moved, MovesTo, Moves

LEMMA CancelledMoves ==
  ASSUME NEW r \in Requests, RequestOK(r, req[r]),
         NEW err \in {"deadline", "canceled"}, Cancelled(r, err)
  PROVE  Moved(r)
<1>1. /\ req[r].pc \in {"acquire", "statement", "bucket"}
      /\ err = "deadline" => Expired(r, req[r])
  BY DEF Cancelled
<1>2. PICK finished \in BOOLEAN :
        /\ finished => req[r].pc = "statement" /\ Current(req[r]).kind \in Takes
        /\ Fail(r, [req[r] EXCEPT !.parked = req[r].pc = "acquire",
                                  !.done = @ \/ finished], err)
  BY DEF Cancelled, Takes
<1>. DEFINE parked == req[r].pc = "acquire"
            done   == req[r].done \/ finished
<1>3. Underway(req[r]) /\ req[r] \in RequestStates
  BY <1>1 DEF Underway, RequestOK
<1>4. [req[r] EXCEPT !.parked = req[r].pc = "acquire", !.done = @ \/ finished]
        = [req[r] EXCEPT !.parked = parked, !.done = done]
  BY <1>3 DEF RequestStates
<1>5. parked => ~done
  <2>. SUFFICES ASSUME req[r].pc = "acquire", req[r].done PROVE FALSE
    BY <1>2
  <2>1. Unqueued(req[r].path) /\ Proper(req[r].path) /\ req[r].path # <<>>
    BY <1>3 DEF RequestOK
  <2>2. Head(req[r].path) \in Steps /\ Head(req[r].path).kind \notin Pooled
    BY <2>1, TailFacts
  <2>. QED BY <1>3, <2>2 DEF RequestOK, Current, WaitFor, Steps, Kinds, InTx, Pooled
<1>6. done # req[r].done => req[r].pc = "statement"
  BY <1>2, <1>3 DEF RequestStates
<1>7. parked \in BOOLEAN /\ done \in BOOLEAN /\ err \in Errors
  BY DEF Errors
<1>8. Fail(r, [req[r] EXCEPT !.parked = parked, !.done = done], err)
  BY <1>2, <1>4
<1>. HIDE DEF parked, done
<1>9. parked => req[r].pc = "acquire"
  BY DEF parked
<1>10. PICK n \in RequestStates : Moves(r, n) /\ GivesBack(n) <= GivesBack(req[r])
                                /\ (n.err = "closed" => err = "closed")
  BY <1>1, <1>3, <1>5, <1>6, <1>7, <1>8, <1>9, MovesOnFail
<1>. QED BY <1>1, <1>10 DEF Moved, MovesTo, Moves

LEMMA LeaveMoves ==
  ASSUME NEW r \in Requests, RequestOK(r, req[r]), Leave(r)
  PROVE  Moved(r)
<1>1. GivesBack(req[r]) = 0
  BY DEF Leave, RequestOK, GivesBack
<1>2. Become(r, IdleReq, GivesBack(req[r]) - GivesBack(IdleReq))
  BY <1>1, IdleOK DEF Leave
<1>. QED BY <1>1, <1>2, IdleOK DEF Moved, MovesTo, IdleReq, Underway

LEMMA RequestStepMoves ==
  ASSUME NEW r \in Requests, RequestOK(r, req[r]), RequestStep(r)
  PROVE  Moved(r)
<1>1. CASE \E p \in PathsOf(r) : Admit(r, p)
  BY <1>1, AdmitMoves
<1>2. CASE BodyRead(r)
  BY <1>2, PassMoves DEF BodyRead
<1>3. CASE BodyFails(r)
  BY <1>3, FailMoves DEF BodyFails, Errors, Underway
<1>4. CASE Acquire(r)
  BY <1>4, AcquireMoves
<1>5. CASE PoolClosed(r)
  BY <1>5, FailMoves DEF PoolClosed, Errors, Underway
<1>6. CASE StatementDone(r)
  BY <1>6, StatementDoneMoves
<1>7. ASSUME NEW err \in {"problem", "other", "queryCanceled"}, StatementFails(r, err)
      PROVE  Moved(r)
  BY <1>7, FailMoves DEF StatementFails, Errors, Underway
<1>8. CASE BucketAnswers(r)
  BY <1>8, FailMoves, PassMoves DEF BucketAnswers, Errors, Underway
<1>9. ASSUME NEW err \in {"deadline", "canceled"}, Cancelled(r, err)
      PROVE  Moved(r)
  BY <1>9, CancelledMoves
<1>10. CASE Leave(r)
  BY <1>10, LeaveMoves
<1>. QED BY <1>1, <1>2, <1>3, <1>4, <1>5, <1>6, <1>7, <1>8, <1>9, <1>10 DEF RequestStep

-----------------------------------------------------------------------------
(* A request that moves keeps the invariant.                               *)

LEMMA RequestsFinite == IsFiniteSet(Requests)
BY ServingAssumption, FS_Union DEF Requests

\* What a request that moved leaves of the rest.
LEMMA MovedFrame ==
  ASSUME IInv, NEW r \in Requests, NEW q, MovesTo(r, q)
  PROVE  /\ req' = [req EXCEPT ![r] = q] /\ req' \in [Requests -> RequestStates]
         /\ req'[r] = q /\ \A s \in Requests \ {r} : req'[s] = req[s]
         /\ pool' \in [open : BOOLEAN, acquired : Int]
         /\ pool'.open = pool.open
         /\ pool'.acquired = pool.acquired - (GivesBack(req[r]) - GivesBack(q))
         /\ UNCHANGED process
<1>1. /\ req \in [Requests -> RequestStates]
      /\ pool \in [open : BOOLEAN, acquired : 0..MaxConns]
  BY DEF IInv, TypeOK
<1>2. /\ req' = [req EXCEPT ![r] = q]
      /\ pool' = [pool EXCEPT !.acquired = @ - (GivesBack(req[r]) - GivesBack(q))]
      /\ UNCHANGED process
  BY DEF MovesTo, Become
<1>3. GivesBack(req[r]) \in Int /\ GivesBack(q) \in Int /\ q \in RequestStates
  BY DEF GivesBack, MovesTo
<1>4. req' \in [Requests -> RequestStates]
  BY <1>1, <1>2, <1>3
<1>5. req'[r] = q /\ \A s \in Requests \ {r} : req'[s] = req[s]
  BY <1>1, <1>2
<1>6. /\ pool' \in [open : BOOLEAN, acquired : Int]
      /\ pool'.open = pool.open
      /\ pool'.acquired = pool.acquired - (GivesBack(req[r]) - GivesBack(q))
  BY <1>1, <1>2, <1>3, Periods
<1>. QED BY <1>2, <1>4, <1>5, <1>6

LEMMA MovedPool ==
  ASSUME IInv, NEW r \in Requests, NEW q, MovesTo(r, q)
  PROVE  PoolOK' /\ pool'.acquired \in 0..MaxConns
<1>. DEFINE H == {s \in Requests : req[s].conn}
            G == {s \in Requests : req'[s].conn}
<1>1. /\ req'[r] = q /\ \A s \in Requests \ {r} : req'[s] = req[s]
      /\ pool'.acquired = pool.acquired - (GivesBack(req[r]) - GivesBack(q))
      /\ pool \in [open : BOOLEAN, acquired : 0..MaxConns]
      /\ pool.acquired = Cardinality(H) /\ pool.acquired <= MaxConns
      /\ q.conn \in BOOLEAN /\ req[r].conn \in BOOLEAN
  BY MovedFrame, ZenonT(40) DEF IInv, TypeOK, PoolOK, ConnectionsAccounted, MovesTo, RequestStates
<1>2. IsFiniteSet(H) /\ IsFiniteSet(G)
  BY RequestsFinite, FS_Subset
<1>3. Cardinality(H) \in Nat /\ Cardinality(G) \in Nat
  BY <1>2, FS_CardinalityType
<1>4. Cardinality(G) = Cardinality(H) - (GivesBack(req[r]) - GivesBack(q))
  <2>1. CASE q.conn
    <3>1. G = H \cup {r}
      BY <1>1, <2>1
    <3>2. Cardinality(G) = IF r \in H THEN Cardinality(H) ELSE Cardinality(H) + 1
      BY <1>2, <3>1, FS_AddElement
    <3>. QED BY <1>1, <1>3, <2>1, <3>2 DEF GivesBack
  <2>2. CASE ~q.conn
    <3>1. G = H \ {r}
      BY <1>1, <2>2
    <3>2. Cardinality(G) = IF r \in H THEN Cardinality(H) - 1 ELSE Cardinality(H)
      BY <1>2, <3>1, FS_RemoveElement
    <3>. QED BY <1>1, <1>3, <2>2, <3>2 DEF GivesBack
  <2>. QED BY <2>1, <2>2
<1>5. pool'.acquired = Cardinality(G)
  BY <1>1, <1>4
<1>6. pool'.acquired <= MaxConns
  BY <1>1, <1>3, Periods DEF MovesTo, HasRoom, GivesBack
<1>7. ConnectionsAccounted'
  BY <1>5 DEF ConnectionsAccounted
<1>. QED BY <1>3, <1>5, <1>6, <1>7, Periods DEF PoolOK

LEMMA MovedShutdown ==
  ASSUME IInv, NEW r \in Requests, NEW q, MovesTo(r, q)
  PROVE  ShutdownOK'
<1>1. /\ req'[r] = q /\ \A s \in Requests \ {r} : req'[s] = req[s]
      /\ pool'.open = pool.open
      /\ phase' = phase /\ drain' = drain /\ listener' = listener
  BY MovedFrame DEF process
<1>2. /\ phase \in {"boot", "serving", "public", "admin", "closing", "exited"}
      /\ drain \in NotDraining..MaxAge
      /\ q \in RequestStates /\ req[r] \in RequestStates
  BY DEF IInv, TypeOK, MovesTo
<1>3. ShutdownOK
  BY DEF IInv
<1>4. /\ req[r].pc = "idle" /\ q.pc # "idle" => listener[ListenerOf(r)] = "up"
      /\ Underway(q) => q.age = req[r].age \/ (req[r].pc = "idle" /\ q.age = 0)
      /\ q.err = "closed" => req[r].pc # "idle" /\ ~pool.open
      /\ req[r].pc = "written" => q.pc = "idle"
  BY DEF MovesTo
<1>5. ListenerOf(r) \in Listeners /\ (r \in Clients <=> ListenerOf(r) = "public")
  BY DEF ListenerOf, Listeners
<1>6. \A l \in Listeners : Closed(l)' = Closed(l)
  BY <1>1 DEF Closed
<1>7. ASSUME phase \in {"boot", "exited"}
      PROVE  \A s \in Requests : req'[s].pc = "idle"
  BY <1>1, <1>3, <1>4, <1>5, <1>7 DEF ShutdownOK
<1>8. ASSUME ActiveOf("public") = {}, Closed("public")
      PROVE  ActiveOf("public")' = {}
  BY <1>1, <1>4, <1>5, <1>8 DEF ActiveOf, Closed
<1>9. ASSUME \A s \in Requests : req[s].pc = "idle", \A l \in Listeners : Closed(l)
      PROVE  \A s \in Requests : req'[s].pc = "idle"
  BY <1>1, <1>4, <1>5, <1>9 DEF Closed
<1>10. LeavesInTime'
  BY <1>1, <1>3 DEF ShutdownOK, LeavesInTime
<1>11. ASSUME drain # NotDraining, NEW s \in Clients, Underway(req'[s])
       PROVE  req'[s].age >= drain
  <2>1. Closed("public")
    BY <1>2, <1>3, <1>11 DEF ShutdownOK, Listeners
  <2>2. s \in Requests /\ (Underway(req[s]) => req[s].age >= drain)
    BY <1>3, <1>11 DEF ShutdownOK, Requests
  <2>3. CASE s # r
    BY <1>1, <1>11, <2>2, <2>3
  <2>4. CASE s = r
    <3>1. q.pc # "idle" /\ q.pc # "written"
      BY <1>1, <1>11, <2>4 DEF Underway
    <3>2. req[r].pc # "idle"
      BY <1>4, <1>5, <1>11, <2>1, <2>4, <3>1 DEF Closed
    <3>3. Underway(req[r])
      BY <1>4, <3>1, <3>2 DEF Underway
    <3>. QED BY <1>1, <1>4, <1>11, <2>2, <2>4, <3>2, <3>3
  <2>. QED BY <2>3, <2>4
<1>12. ASSUME drain # NotDraining, NEW s \in Probes, Underway(req'[s])
       PROVE  req'[s].age + ShutdownWait >= drain
  <2>1. s \in Requests /\ (Underway(req[s]) => req[s].age + ShutdownWait >= drain)
    BY <1>3, <1>12 DEF ShutdownOK, Requests
  <2>2. CASE s # r
    BY <1>1, <1>12, <2>1, <2>2
  <2>3. CASE s = r
    <3>1. q.pc # "idle" /\ q.pc # "written"
      BY <1>1, <1>12, <2>3 DEF Underway
    <3>2. CASE req[r].pc = "idle"
      <4>1. listener["admin"] = "up"
        BY <1>4, <3>1, <3>2, <2>3, <1>12, ServingAssumption DEF ListenerOf
      <4>2. phase = "public" /\ drain \in 0..ShutdownWait
        BY <1>2, <1>3, <1>12, <4>1 DEF ShutdownOK, Closed, Listeners
      <4>3. q.age \in Nat
        BY <1>2, Clocks DEF RequestStates, Ages
      <4>. QED BY <1>1, <2>3, <4>2, <4>3, Periods
    <3>3. CASE req[r].pc # "idle"
      BY <1>1, <1>4, <1>12, <2>1, <2>3, <3>1, <3>3 DEF Underway
    <3>. QED BY <3>2, <3>3
  <2>. QED BY <2>2, <2>3
<1>13. ASSUME pool.open, NEW s \in Requests
       PROVE  req'[s].err # "closed"
  BY <1>1, <1>3, <1>4, <1>13 DEF ShutdownOK
<1>14. /\ phase \in {"boot", "exited"} =>
            /\ drain = NotDraining /\ ~pool.open
            /\ \A l \in Listeners : listener[l] = "closed"
       /\ phase = "serving" =>
            drain = NotDraining /\ pool.open /\ \A l \in Listeners : listener[l] # "closed"
       /\ phase = "public" =>
            /\ drain \in 0..ShutdownWait /\ pool.open
            /\ Closed("public") /\ listener["admin"] # "closed"
  BY <1>3 DEF ShutdownOK
<1>15. phase = "admin" =>
            /\ drain \in 0..ShutdownWait /\ pool.open
            /\ \A l \in Listeners : Closed(l)
            /\ drain < ShutdownWait => ActiveOf("public")' = {}
  BY <1>3, <1>8 DEF ShutdownOK, Listeners
<1>16. phase = "closing" =>
       /\ ~pool.open
       /\ drain = NotDraining => \E l \in Listeners : listener[l] = "failed"
       /\ drain # NotDraining => \A l \in Listeners : Closed(l)
       /\ drain \in 0..(ShutdownWait - 1) => \A s \in Requests : req'[s].pc = "idle"
  <2>1. drain \in 0..(ShutdownWait - 1) => drain # NotDraining
    BY Periods DEF NotDraining
  <2>. QED BY <1>3, <1>9, <2>1 DEF ShutdownOK
<1>. QED
  BY <1>1, <1>6, <1>7, <1>10, <1>11, <1>12, <1>13, <1>14, <1>15, <1>16
     DEF ShutdownOK, Listeners, Closed

LEMMA MovedKeeps ==
  ASSUME IInv, NEW r \in Requests, Moved(r)
  PROVE  IInv'
<1>1. PICK q \in RequestStates : MovesTo(r, q)
  BY DEF Moved
<1>2. /\ req' \in [Requests -> RequestStates]
      /\ req'[r] = q /\ \A s \in Requests \ {r} : req'[s] = req[s]
      /\ pool' \in [open : BOOLEAN, acquired : Int]
      /\ phase' = phase /\ signalled' = signalled /\ listener' = listener
      /\ drain' = drain
  BY <1>1, MovedFrame DEF process
<1>3. PoolOK' /\ pool'.acquired \in 0..MaxConns /\ ShutdownOK'
  BY <1>1, MovedPool, MovedShutdown
<1>4. pool' \in [open : BOOLEAN, acquired : 0..MaxConns]
  BY <1>2, <1>3
<1>5. TypeOK'
  BY <1>2, <1>4 DEF IInv, TypeOK
<1>6. ASSUME NEW s \in Requests
      PROVE  RequestOK(s, req'[s])
  BY <1>1, <1>2 DEF IInv, MovesTo
<1>. QED BY <1>3, <1>5, <1>6 DEF IInv

-----------------------------------------------------------------------------
(* main keeps the invariant.                                               *)

Phases == {"boot", "serving", "public", "admin", "closing", "exited"}
States == {"starting", "up", "failed", "closed"}

\* Every step of main but its exit leaves the requests alone.
LEMMA MainFrame ==
  ASSUME IInv, UNCHANGED req, phase' \in Phases, signalled' \in BOOLEAN,
         listener' \in [Listeners -> States], drain' \in NotDraining..MaxAge,
         pool' \in [open : BOOLEAN, acquired : 0..MaxConns],
         pool'.acquired = pool.acquired, ShutdownOK'
  PROVE  IInv'
<1>1. TypeOK'
  BY DEF IInv, TypeOK, Phases, States
<1>2. PoolOK'
  BY DEF IInv, PoolOK, ConnectionsAccounted
<1>. QED BY <1>1, <1>2 DEF IInv

LEMMA Closes ==
  ASSUME TypeOK, ClosesPool
  PROVE  /\ pool' \in [open : BOOLEAN, acquired : 0..MaxConns]
         /\ pool'.acquired = pool.acquired /\ ~pool'.open
BY DEF TypeOK, ClosesPool

LEMMA BootKeeps ==
  ASSUME IInv, Boot
  PROVE  IInv'
<1>1. /\ phase = "boot" /\ phase' = "serving" /\ drain' = drain /\ req' = req
      /\ signalled' = signalled
      /\ listener' = [l \in Listeners |-> "starting"]
      /\ pool' \in [open : BOOLEAN, acquired : 0..MaxConns]
      /\ pool'.acquired = pool.acquired /\ pool'.open
  BY DEF Boot, IInv, TypeOK
<1>2. drain = NotDraining /\ \A r \in Requests : req[r].pc = "idle"
  BY <1>1 DEF IInv, ShutdownOK
<1>3. \A r \in Requests : req[r].err # "closed"
  BY <1>2 DEF IInv, RequestOK
<1>4. ShutdownOK'
  BY <1>1, <1>2, <1>3 DEF IInv, ShutdownOK, LeavesInTime
<1>5. listener' \in [Listeners -> States]
  BY <1>1 DEF States
<1>. QED BY <1>1, <1>4, <1>5, MainFrame DEF IInv, TypeOK, Phases

LEMMA BootFailsKeeps ==
  ASSUME IInv, BootFails
  PROVE  IInv'
<1>1. /\ phase = "boot" /\ phase' = "exited"
      /\ UNCHANGED <<signalled, listener, drain, pool, req>>
  BY DEF BootFails
<1>2. \A l \in {"public"} : ActiveOf(l)' = ActiveOf(l)
  BY <1>1 DEF ActiveOf
<1>3. ShutdownOK'
  BY <1>1, <1>2 DEF IInv, ShutdownOK, LeavesInTime
<1>. QED BY <1>1, <1>3, MainFrame DEF IInv, TypeOK, Phases, States

LEMMA SignalKeeps ==
  ASSUME IInv, Signal
  PROVE  IInv'
<1>1. signalled' = TRUE /\ UNCHANGED <<phase, listener, drain, pool, req>>
  BY DEF Signal
<1>2. ShutdownOK'
  BY <1>1 DEF IInv, ShutdownOK, LeavesInTime, Closed, ActiveOf
<1>. QED BY <1>1, <1>2, MainFrame DEF IInv, TypeOK, Phases, States

LEMMA ListensKeeps ==
  ASSUME IInv, NEW l \in Listeners, Listens(l)
  PROVE  IInv'
<1>1. /\ listener[l] = "starting" /\ listener' = [listener EXCEPT ![l] = "up"]
      /\ UNCHANGED <<phase, signalled, drain, pool, req>>
      /\ listener \in [Listeners -> States]
  BY DEF Listens, IInv, TypeOK, States
<1>2. /\ listener' \in [Listeners -> States]
      /\ listener'[l] = "up" /\ \A k \in Listeners \ {l} : listener'[k] = listener[k]
  BY <1>1 DEF States
<1>3. \A k \in Listeners : /\ listener[k] \in {"failed", "closed"} => listener'[k] = listener[k]
                           /\ listener'[k] = "closed" => listener[k] = "closed"
  BY <1>1, <1>2
<1>4. ActiveOf("public")' = ActiveOf("public")
  BY <1>1 DEF ActiveOf
<1>5. ShutdownOK
  BY DEF IInv
<1>6. ShutdownOK'
  BY <1>1, <1>3, <1>4, <1>5 DEF ShutdownOK, LeavesInTime, Closed, Listeners
<1>. QED BY <1>1, <1>2, <1>6, MainFrame DEF IInv, TypeOK, Phases

LEMMA ListenerFailsKeeps ==
  ASSUME IInv, NEW l \in Listeners, ListenerFails(l)
  PROVE  IInv'
<1>1. /\ phase = "serving" /\ listener' = [listener EXCEPT ![l] = "failed"]
      /\ UNCHANGED <<phase, signalled, drain, pool, req>>
      /\ listener \in [Listeners -> States]
  BY DEF ListenerFails, IInv, TypeOK, States
<1>2. /\ listener' \in [Listeners -> States]
      /\ listener'[l] = "failed" /\ \A k \in Listeners \ {l} : listener'[k] = listener[k]
  BY <1>1 DEF States
<1>3. \A k \in Listeners : listener'[k] # "closed"
  BY <1>1, <1>2 DEF IInv, ShutdownOK
<1>4. ShutdownOK'
  BY <1>1, <1>3 DEF IInv, ShutdownOK, LeavesInTime
<1>. QED BY <1>1, <1>2, <1>4, MainFrame DEF IInv, TypeOK, Phases

LEMMA ServerErrorKeeps ==
  ASSUME IInv, ServerError
  PROVE  IInv'
<1>1. /\ phase = "serving" /\ phase' = "closing"
      /\ \E l \in Listeners : listener[l] = "failed"
      /\ UNCHANGED <<signalled, listener, drain, req>>
      /\ pool' \in [open : BOOLEAN, acquired : 0..MaxConns]
      /\ pool'.acquired = pool.acquired /\ ~pool'.open
  BY Closes DEF ServerError, IInv
<1>2. drain = NotDraining
  BY <1>1 DEF IInv, ShutdownOK
<1>3. NotDraining \notin 0..(ShutdownWait - 1)
  BY Periods DEF NotDraining
<1>4. ShutdownOK'
  BY <1>1, <1>2, <1>3 DEF IInv, ShutdownOK, LeavesInTime
<1>. QED BY <1>1, <1>4, MainFrame DEF IInv, TypeOK, Phases, States

LEMMA StoppedFacts ==
  ASSUME TypeOK, NEW l \in Listeners, listener' = Stopped(l)
  PROVE  /\ listener' \in [Listeners -> States]
         /\ Closed(l)'
         /\ \A k \in Listeners \ {l} : listener'[k] = listener[k]
<1>1. listener \in [Listeners -> States]
  BY DEF TypeOK, States
<1>2. listener' = [listener EXCEPT ![l] = IF listener[l] = "failed" THEN listener[l]
                                          ELSE "closed"]
  BY <1>1 DEF Stopped
<1>. QED BY <1>1, <1>2 DEF States, Closed

LEMMA SignalSeenKeeps ==
  ASSUME IInv, SignalSeen
  PROVE  IInv'
<1>1. /\ phase = "serving" /\ phase' = "public" /\ drain' = 0
      /\ UNCHANGED <<signalled, pool, req>> /\ listener' = Stopped("public")
  BY DEF SignalSeen
<1>2. /\ listener' \in [Listeners -> States] /\ Closed("public")'
      /\ listener'["admin"] = listener["admin"]
  BY <1>1, StoppedFacts DEF IInv, Listeners
<1>3. pool.open /\ listener["admin"] # "closed"
  BY <1>1 DEF IInv, ShutdownOK, Listeners
<1>4. 0 \in 0..ShutdownWait /\ 0 \in NotDraining..MaxAge
  BY Periods, Clocks DEF NotDraining
<1>5. \A r \in Requests : req[r].age \in Nat
  BY Clocks DEF IInv, RequestOK, RequestStates, Ages
<1>6. /\ \A r \in Clients : Underway(req[r]) => req[r].age >= 0
      /\ \A r \in Probes : Underway(req[r]) => req[r].age + ShutdownWait >= 0
  BY <1>5, Periods DEF Requests
<1>7. LeavesInTime'
  BY <1>1, Periods DEF LeavesInTime
<1>8. ShutdownOK'
  BY <1>1, <1>2, <1>3, <1>4, <1>6, <1>7 DEF IInv, ShutdownOK
<1>. QED BY <1>1, <1>2, <1>4, <1>8, MainFrame DEF IInv, TypeOK, Phases

LEMMA PublicDrainedKeeps ==
  ASSUME IInv, PublicDrained
  PROVE  IInv'
<1>1. /\ phase = "public" /\ phase' = "admin" /\ UNCHANGED <<signalled, drain, pool, req>>
      /\ listener' = Stopped("admin")
      /\ ActiveOf("public") = {} \/ drain >= ShutdownWait
  BY DEF PublicDrained, Overdue
<1>2. /\ listener' \in [Listeners -> States] /\ Closed("admin")'
      /\ listener'["public"] = listener["public"]
  BY <1>1, StoppedFacts DEF IInv, Listeners
<1>3. drain \in 0..ShutdownWait /\ pool.open /\ Closed("public")
  BY <1>1 DEF IInv, ShutdownOK
<1>4. \A l \in Listeners : Closed(l)'
  BY <1>2, <1>3 DEF Closed, Listeners
<1>5. drain < ShutdownWait => ActiveOf("public")' = {}
  BY <1>1, <1>3, Periods DEF ActiveOf
<1>6. ShutdownOK'
  BY <1>1, <1>3, <1>4, <1>5 DEF IInv, ShutdownOK, LeavesInTime
<1>. QED BY <1>1, <1>2, <1>6, MainFrame DEF IInv, TypeOK, Phases

LEMMA AdminDrainedKeeps ==
  ASSUME IInv, AdminDrained
  PROVE  IInv'
<1>1. /\ phase = "admin" /\ phase' = "closing"
      /\ UNCHANGED <<signalled, listener, drain, req>>
      /\ ActiveOf("admin") = {} \/ drain >= ShutdownWait
      /\ pool' \in [open : BOOLEAN, acquired : 0..MaxConns]
      /\ pool'.acquired = pool.acquired /\ ~pool'.open
  BY Closes DEF AdminDrained, Overdue, IInv
<1>2. /\ drain \in 0..ShutdownWait /\ drain # NotDraining
      /\ \A l \in Listeners : Closed(l)
      /\ drain < ShutdownWait => ActiveOf("public") = {}
  BY <1>1, Periods DEF IInv, ShutdownOK, NotDraining
<1>3. ASSUME drain \in 0..(ShutdownWait - 1), NEW r \in Requests
      PROVE  req[r].pc = "idle"
  <2>1. ActiveOf("admin") = {} /\ ActiveOf("public") = {}
    BY <1>1, <1>2, <1>3, Periods
  <2>2. ListenerOf(r) \in {"public", "admin"}
    BY DEF ListenerOf
  <2>. QED BY <2>1, <2>2 DEF ActiveOf
<1>4. ShutdownOK'
  BY <1>1, <1>2, <1>3 DEF IInv, ShutdownOK, LeavesInTime, Closed
<1>. QED BY <1>1, <1>4, MainFrame DEF IInv, TypeOK, Phases, States

LEMMA ExitKeeps ==
  ASSUME IInv, Exit
  PROVE  IInv'
<1>1. /\ phase = "closing" /\ phase' = "exited" /\ pool.acquired = 0
      /\ listener' = [l \in Listeners |-> "closed"]
      /\ req' = [r \in Requests |-> IdleReq] /\ drain' = NotDraining
      /\ pool' = pool /\ signalled' = signalled /\ ~pool.open
  BY DEF Exit, IInv, ShutdownOK
<1>2. \A r \in Requests : req'[r] = IdleReq /\ RequestOK(r, req'[r])
  BY <1>1, IdleOK
<1>3. TypeOK'
  <2>1. req' \in [Requests -> RequestStates]
    BY <1>1, IdleOK
  <2>2. NotDraining \in NotDraining..MaxAge
    BY Clocks DEF NotDraining
  <2>. QED BY <1>1, <2>1, <2>2 DEF IInv, TypeOK
<1>4. PoolOK'
  <2>1. {r \in Requests : req'[r].conn} = {}
    BY <1>2 DEF IdleReq
  <2>. QED BY <1>1, <2>1, FS_EmptySet, Periods DEF PoolOK, ConnectionsAccounted
<1>5. ShutdownOK'
  <2>1. \A r \in Requests : req'[r].pc = "idle"
    BY <1>2 DEF IdleReq
  <2>2. LeavesInTime'
    BY <1>1, Periods DEF LeavesInTime, NotDraining
  <2>. QED BY <1>1, <2>1, <2>2 DEF ShutdownOK
<1>. QED BY <1>2, <1>3, <1>4, <1>5 DEF IInv

LEMMA RestartKeeps ==
  ASSUME IInv, Restart
  PROVE  IInv'
<1>1. /\ phase = "exited" /\ phase' = "boot" /\ signalled' = FALSE
      /\ UNCHANGED <<listener, drain, pool, req>>
  BY DEF Restart
<1>2. ShutdownOK'
  BY <1>1 DEF IInv, ShutdownOK, LeavesInTime
<1>. QED BY <1>1, <1>2, MainFrame DEF IInv, TypeOK, Phases, States

LEMMA MainKeeps ==
  ASSUME IInv, MainStep
  PROVE  IInv'
BY BootKeeps, BootFailsKeeps, SignalKeeps, ListensKeeps, ListenerFailsKeeps,
   ServerErrorKeeps, SignalSeenKeeps, PublicDrainedKeeps, AdminDrainedKeeps,
   ExitKeeps, RestartKeeps
DEF MainStep

-----------------------------------------------------------------------------
(* Time keeps the invariant.                                               *)

\* What Tick does to one request.
LEMMA TickedRequest ==
  ASSUME IInv, Tick, NEW r \in Requests
  PROVE  /\ req[r].pc = "idle" => req'[r] = req[r]
         /\ req[r].pc # "idle" =>
              /\ req'[r] \in RequestStates
              /\ req'[r].age = Older(req[r].age)
              /\ req'[r].pc = req[r].pc /\ req'[r].path = req[r].path
              /\ req'[r].conn = req[r].conn /\ req'[r].err = req[r].err
              /\ req'[r].status = req[r].status /\ req'[r].recorded = req[r].recorded
              /\ req'[r].counted = req[r].counted /\ req'[r].late = req[r].late
              /\ req'[r].parked = req[r].parked /\ req'[r].done = req[r].done
              /\ req'[r].mutates = req[r].mutates
<1>1. /\ Waits(r) /\ req[r] \in RequestStates
      /\ req'[r] = IF req[r].pc = "idle" THEN req[r]
                   ELSE [req[r] EXCEPT !.age = Older(@),
                           !.busy = IF req[r].pc = "statement" THEN @ + 1 ELSE @]
  BY DEF Tick, IInv, TypeOK
<1>. DEFINE age  == Older(req[r].age)
            busy == IF req[r].pc = "statement" THEN req[r].busy + 1 ELSE req[r].busy
<1>2. ASSUME req[r].pc # "idle"
      PROVE  req'[r] = [req[r] EXCEPT !.age = age, !.busy = busy]
  BY <1>1, <1>2 DEF RequestStates
<1>3. req[r].age \in 0..MaxAge /\ req[r].busy \in 0..StatementTimeout
  BY <1>1 DEF RequestStates, Ages, Runs
<1>4. age \in Ages
  BY <1>3, Clocks DEF Ages, Older
<1>5. busy \in Runs
  BY <1>1, <1>3, Periods DEF Waits, Runs
<1>. HIDE DEF age, busy
<1>6. ASSUME req[r].pc # "idle"
      PROVE  req'[r] \in RequestStates
  BY <1>1, <1>2, <1>4, <1>5, <1>6, Zenon DEF RequestStates
<1>7. ASSUME req[r].pc # "idle"
      PROVE  /\ req'[r].age = age
             /\ req'[r].pc = req[r].pc /\ req'[r].path = req[r].path
             /\ req'[r].conn = req[r].conn /\ req'[r].err = req[r].err
             /\ req'[r].status = req[r].status /\ req'[r].recorded = req[r].recorded
             /\ req'[r].counted = req[r].counted /\ req'[r].late = req[r].late
             /\ req'[r].parked = req[r].parked /\ req'[r].done = req[r].done
             /\ req'[r].mutates = req[r].mutates
  BY <1>1, <1>2, <1>7 DEF RequestStates
<1>. QED BY <1>1, <1>6, <1>7 DEF age

\* Whoever waits has not run out of what its client allows.
LEMMA TickedInTime ==
  ASSUME IInv, Tick, NEW r \in Requests, req[r].pc # "idle"
  PROVE  /\ Older(req[r].age) < Patience(r) /\ Older(req[r].age) = req[r].age + 1
         /\ Underway(req[r])
         /\ req[r].conn => ~Expired(r, req[r])
<1>1. Waits(r) /\ RequestOK(r, req[r]) /\ req[r].age \in Nat
  <2>1. Waits(r)
    BY DEF Tick
  <2>2. RequestOK(r, req[r])
    BY DEF IInv
  <2>3. req[r].age \in Ages
    BY <2>2 DEF RequestOK, RequestStates
  <2>. QED BY <2>1, <2>2, <2>3, Clocks DEF Ages
<1>2. req[r].pc # "written" /\ Underway(req[r])
  BY <1>1 DEF Waits, Underway
<1>3. CASE req[r].pc = "body" /\ req[r].age < ReadTimeout
  <2>1. r \in Clients
    <3>1. Proper(req[r].path) /\ req[r].path # <<>> /\ Current(req[r]).kind = "body"
      <4>1. /\ Proper(req[r].path) /\ req[r].path # <<>>
            /\ Current(req[r]).kind \in Kinds \ {"refuse"}
            /\ WaitFor(Current(req[r])) = "body"
        BY <1>1, <1>2, <1>3, TailFacts DEF RequestOK, Current, Steps
      <4>2. CASE Current(req[r]).kind \in Pooled
        BY <4>1, <4>2 DEF WaitFor, Pooled
      <4>3. CASE Current(req[r]).kind \in InTx
        BY <4>1, <4>3 DEF WaitFor, InTx, Pooled
      <4>4. CASE Current(req[r]).kind \in {"ask", "discard"}
        BY <4>1, <4>4 DEF WaitFor, InTx, Pooled
      <4>. QED BY <4>1, <4>2, <4>3, <4>4 DEF Kinds, Pooled, InTx
    <3>2. r \notin Probes
      BY <1>1, <3>1, TailFacts DEF RequestOK, Current
    <3>. QED BY <3>2 DEF Requests
  <2>2. Older(req[r].age) = req[r].age + 1 /\ Older(req[r].age) < Patience(r)
    BY <1>1, <1>3, <2>1, Periods, Clocks DEF Patience, Older
  <2>3. ~req[r].conn
    BY <1>1, <1>3 DEF RequestOK
  <2>. QED BY <1>2, <2>2, <2>3
<1>4. CASE ~Expired(r, req[r])
  <2>1. req[r].age < Deadline(r) /\ Deadline(r) < Patience(r) /\ Patience(r) <= MaxAge
        /\ Deadline(r) \in Nat /\ Patience(r) \in Nat /\ MaxAge \in Nat
    BY <1>1, <1>4, Clocks DEF Expired
  <2>2. Older(req[r].age) = req[r].age + 1 /\ Older(req[r].age) < Patience(r)
    BY <1>1, <2>1 DEF Older
  <2>. QED BY <1>2, <1>4, <2>2
<1>5. req[r].conn => req[r].pc = "statement"
  BY <1>1 DEF RequestOK
<1>. QED BY <1>1, <1>3, <1>4, <1>5 DEF Waits

LEMMA TickedOK ==
  ASSUME IInv, Tick, NEW r \in Requests
  PROVE  RequestOK(r, req'[r])
<1>1. RequestOK(r, req[r])
  BY DEF IInv
<1>2. CASE req[r].pc = "idle"
  BY <1>1, <1>2, TickedRequest
<1>3. CASE req[r].pc # "idle"
  <2>1. /\ req'[r] \in RequestStates
        /\ req'[r].age < Patience(r)
        /\ req'[r].pc = req[r].pc /\ req'[r].path = req[r].path
        /\ req'[r].conn = req[r].conn /\ req'[r].err = req[r].err
        /\ req'[r].status = req[r].status /\ req'[r].recorded = req[r].recorded
        /\ req'[r].counted = req[r].counted /\ req'[r].late = req[r].late
        /\ req'[r].parked = req[r].parked /\ req'[r].done = req[r].done
        /\ req'[r].mutates = req[r].mutates
    BY <1>3, TickedRequest, TickedInTime
  <2>2. Current(req'[r]) = Current(req[r])
    BY <2>1 DEF Current
  <2>3. Measured(req'[r]) <=> Measured(req[r])
    BY <2>1 DEF Measured
  <2>. QED BY <1>1, <2>1, <2>2, <2>3 DEF RequestOK, Underway
<1>. QED BY <1>2, <1>3

\* Somebody holds a connection while pool.Close still waits.
LEMMA HolderExists ==
  ASSUME PoolOK, pool.acquired > 0
  PROVE  \E r \in Requests : req[r].conn
<1>. SUFFICES ASSUME \A r \in Requests : ~req[r].conn PROVE FALSE
  OBVIOUS
<1>1. {r \in Requests : req[r].conn} = {}
  OBVIOUS
<1>. QED BY <1>1, FS_EmptySet DEF PoolOK, ConnectionsAccounted

LEMMA OlderFacts ==
  ASSUME NEW m \in 0..MaxAge, NEW n \in 0..MaxAge
  PROVE  /\ Older(n) \in 0..MaxAge /\ Older(n) >= n /\ Older(n) <= n + 1
         /\ m >= n => Older(m) >= Older(n)
         /\ m + ShutdownWait >= n => Older(m) + ShutdownWait >= Older(n)
BY Clocks, Periods DEF Older

LEMMA TickedShutdown ==
  ASSUME IInv, Tick
  PROVE  ShutdownOK' /\ drain' \in NotDraining..MaxAge
<1>1. /\ MainWaits /\ \E r \in Requests : req[r].pc # "idle"
      /\ drain' = IF drain = NotDraining THEN drain ELSE Older(drain)
      /\ UNCHANGED <<phase, signalled, listener, pool>>
  BY DEF Tick
<1>2. /\ ShutdownOK /\ PoolOK
      /\ \A r \in Requests : RequestOK(r, req[r])
      /\ drain \in NotDraining..MaxAge
  BY DEF IInv, TypeOK
<1>3. \A r \in Requests :
        /\ req'[r].pc = req[r].pc
        /\ req'[r].err = req[r].err
        /\ req[r].pc # "idle" => req'[r].age = Older(req[r].age)
  BY TickedRequest
<1>4. drain # NotDraining =>
        /\ drain \in 0..MaxAge /\ drain' = Older(drain)
        /\ drain' \in 0..MaxAge /\ drain' >= drain /\ drain' <= drain + 1
        /\ drain' # NotDraining
  <2>1. drain # NotDraining => drain \in 0..MaxAge
    BY <1>2, Clocks DEF NotDraining
  <2>. QED BY <1>1, <2>1, OlderFacts, Clocks DEF NotDraining
<1>5. drain' \in NotDraining..MaxAge
  BY <1>1, <1>2, <1>4, Clocks DEF NotDraining
<1>6. ActiveOf("public")' = ActiveOf("public")
  BY <1>3 DEF ActiveOf
<1>7. ASSUME phase \in {"public", "admin"}
      PROVE  drain' \in 0..ShutdownWait /\ drain # NotDraining
  <2>1. drain \in 0..ShutdownWait /\ drain < ShutdownWait
    BY <1>1, <1>2, <1>7, Periods DEF ShutdownOK, MainWaits, Overdue
  <2>2. drain # NotDraining
    BY <2>1, Periods DEF NotDraining
  <2>. QED BY <1>4, <2>1, <2>2, Periods
<1>8. ASSUME phase = "closing", drain # NotDraining
      PROVE  drain >= ShutdownWait /\ drain' >= ShutdownWait
  <2>1. drain \notin 0..(ShutdownWait - 1)
    BY <1>1, <1>2, <1>8 DEF ShutdownOK
  <2>. QED BY <1>4, <1>8, <2>1, Periods, Clocks
<1>9. ASSUME drain # NotDraining, NEW r \in Clients, Underway(req'[r])
      PROVE  req'[r].age >= drain'
  <2>1. r \in Requests /\ Underway(req[r])
    BY <1>3, <1>9 DEF Requests, Underway
  <2>2. req[r].age >= drain /\ req[r].age \in 0..MaxAge
    BY <1>2, <1>9, <2>1 DEF ShutdownOK, RequestOK, RequestStates, Ages
  <2>. QED BY <1>3, <1>4, <1>9, <2>1, <2>2, OlderFacts DEF Underway
<1>10. ASSUME drain # NotDraining, NEW r \in Probes, Underway(req'[r])
      PROVE  req'[r].age + ShutdownWait >= drain'
  <2>1. r \in Requests /\ Underway(req[r])
    BY <1>3, <1>10 DEF Requests, Underway
  <2>2. req[r].age + ShutdownWait >= drain /\ req[r].age \in 0..MaxAge
    BY <1>2, <1>10, <2>1 DEF ShutdownOK, RequestOK, RequestStates, Ages
  <2>. QED BY <1>3, <1>4, <1>10, <2>1, <2>2, OlderFacts DEF Underway
<1>11. LeavesInTime'
  <2>1. CASE drain = NotDraining
    BY <1>1, <2>1, Periods DEF LeavesInTime, NotDraining
  <2>2. CASE phase \in {"public", "admin"}
    BY <1>7, <2>2, Periods DEF LeavesInTime
  <2>3. CASE phase = "closing" /\ drain # NotDraining
    <3>1. pool.acquired > 0
      BY <1>1, <2>3 DEF MainWaits
    <3>2. PICK r \in Requests : req[r].conn
      BY <1>2, <3>1, HolderExists
    <3>3. req[r].pc # "idle" /\ ~Expired(r, req[r]) /\ Underway(req[r])
      <4>1. req[r].pc # "idle"
        BY <1>2, <3>2 DEF RequestOK
      <4>. QED BY <3>2, <4>1, TickedInTime
    <3>4. req[r].age \in Nat /\ req[r].age < Deadline(r)
      BY <1>2, <3>3, Clocks DEF Expired, RequestOK, RequestStates, Ages
    <3>5. CASE r \in Clients
      <4>1. req[r].age >= drain /\ Deadline(r) = RequestTimeout
        BY <1>2, <2>3, <3>3, <3>5 DEF ShutdownOK, Deadline
      <4>. QED BY <1>4, <2>3, <3>4, <4>1, Periods, Clocks DEF LeavesInTime
    <3>6. CASE r \notin Clients
      <4>1. /\ req[r].age + ShutdownWait >= drain
            /\ Deadline(r) = ReadyTimeout
        BY <1>2, <2>3, <3>3, <3>6 DEF ShutdownOK, Deadline, Requests
      <4>. QED BY <1>4, <2>3, <3>4, <4>1, Periods, Clocks DEF LeavesInTime
    <3>. QED BY <3>5, <3>6
  <2>4. phase = "serving" => drain = NotDraining
    BY <1>2 DEF ShutdownOK
  <2>. QED BY <1>1, <2>1, <2>2, <2>3, <2>4 DEF MainWaits
<1>12. /\ phase \in {"boot", "exited"} =>
            /\ drain' = NotDraining /\ ~pool.open
            /\ \A l \in Listeners : listener[l] = "closed"
            /\ \A r \in Requests : req'[r].pc = "idle"
       /\ phase = "serving" =>
            drain' = NotDraining /\ pool.open /\ \A l \in Listeners : listener[l] # "closed"
  BY <1>1, <1>2, <1>3 DEF ShutdownOK
<1>13. /\ phase = "public" =>
            /\ drain' \in 0..ShutdownWait /\ pool.open
            /\ Closed("public") /\ listener["admin"] # "closed"
       /\ phase = "admin" =>
            /\ drain' \in 0..ShutdownWait /\ pool.open
            /\ \A l \in Listeners : Closed(l)
            /\ drain' < ShutdownWait => ActiveOf("public")' = {}
  <2>1. phase = "admin" /\ drain' < ShutdownWait => drain < ShutdownWait
    BY <1>4, <1>7, Periods, Clocks
  <2>. QED BY <1>2, <1>6, <1>7, <2>1 DEF ShutdownOK
<1>14. phase = "closing" =>
         /\ ~pool.open
         /\ drain' = NotDraining => \E l \in Listeners : listener[l] = "failed"
         /\ drain' # NotDraining => \A l \in Listeners : Closed(l)
         /\ drain' \notin 0..(ShutdownWait - 1)
  <2>1. drain' = NotDraining <=> drain = NotDraining
    BY <1>1, <1>4
  <2>2. phase = "closing" => drain' \notin 0..(ShutdownWait - 1)
    BY <1>1, <1>8, Periods DEF NotDraining
  <2>. QED BY <1>2, <2>1, <2>2 DEF ShutdownOK
<1>15. pool.open => \A r \in Requests : req'[r].err # "closed"
  BY <1>2, <1>3 DEF ShutdownOK
<1>16. drain' # NotDraining => drain # NotDraining
  BY <1>1
<1>. QED
  BY <1>1, <1>5, <1>9, <1>10, <1>11, <1>12, <1>13, <1>14, <1>15, <1>16
     DEF ShutdownOK, Closed

LEMMA TickKeeps ==
  ASSUME IInv, Tick
  PROVE  IInv'
<1>1. req' \in [Requests -> RequestStates]
  <2>1. \A r \in Requests : req'[r] \in RequestStates
    BY TickedRequest DEF IInv, RequestOK
  <2>2. /\ DOMAIN req' = Requests
        /\ req' = [r \in Requests |-> req'[r]]
    BY DEF Tick
  <2>. QED BY <2>1, <2>2
<1>2. TypeOK'
  BY <1>1, TickedShutdown DEF Tick, IInv, TypeOK
<1>3. PoolOK'
  <2>1. \A r \in Requests : req'[r].conn = req[r].conn
    BY TickedRequest
  <2>2. {r \in Requests : req'[r].conn} = {r \in Requests : req[r].conn}
    BY <2>1
  <2>. QED BY <2>2 DEF Tick, IInv, PoolOK, ConnectionsAccounted
<1>. QED BY <1>2, <1>3, TickedOK, TickedShutdown DEF IInv

-----------------------------------------------------------------------------
(* The theorems.                                                           *)

LEMMA InitOK == Init => IInv
<1>. SUFFICES ASSUME Init PROVE IInv
  OBVIOUS
<1>1. /\ phase = "boot" /\ signalled = FALSE /\ drain = NotDraining
      /\ listener = [l \in Listeners |-> "closed"]
      /\ pool = [open |-> FALSE, acquired |-> 0]
      /\ req = [r \in Requests |-> IdleReq]
  BY DEF Init
<1>2. \A r \in Requests : req[r] = IdleReq /\ RequestOK(r, req[r])
  BY <1>1, IdleOK
<1>3. TypeOK
  <2>1. req \in [Requests -> RequestStates]
    BY <1>1, IdleOK
  <2>2. NotDraining \in NotDraining..MaxAge
    BY Clocks DEF NotDraining
  <2>3. pool \in [open : BOOLEAN, acquired : 0..MaxConns]
    BY <1>1, Periods
  <2>. QED BY <1>1, <2>1, <2>2, <2>3 DEF TypeOK
<1>4. PoolOK
  <2>1. {r \in Requests : req[r].conn} = {}
    BY <1>2 DEF IdleReq
  <2>. QED BY <1>1, <2>1, FS_EmptySet, Periods DEF PoolOK, ConnectionsAccounted
<1>5. ShutdownOK
  <2>1. \A r \in Requests : req[r].pc = "idle"
    BY <1>2 DEF IdleReq
  <2>2. LeavesInTime
    BY <1>1, Periods DEF LeavesInTime, NotDraining
  <2>. QED BY <1>1, <2>1, <2>2 DEF ShutdownOK
<1>. QED BY <1>2, <1>3, <1>4, <1>5 DEF IInv

LEMMA NextKeeps == IInv /\ [Next]_vars => IInv'
<1>. SUFFICES ASSUME IInv, [Next]_vars PROVE IInv'
  OBVIOUS
<1>1. ASSUME NEW r \in Requests, RequestStep(r)
      PROVE  IInv'
  BY <1>1, RequestStepMoves, MovedKeeps DEF IInv
<1>2. CASE MainStep
  BY <1>2, MainKeeps
<1>3. CASE Tick
  BY <1>3, TickKeeps
<1>4. CASE UNCHANGED vars
  BY <1>4 DEF vars, IInv, TypeOK, PoolOK, ConnectionsAccounted, ShutdownOK, LeavesInTime,
              Closed, ActiveOf
<1>. QED BY <1>1, <1>2, <1>3, <1>4 DEF Next

\* The inductive invariant holds of the API process: whatever the clients, the
\* database, the bucket and the signals do, and in whatever order.
THEOREM Invariance == Spec => []IInv
BY InitOK, NextKeeps, PTL DEF Spec

\* What the invariant says of one request, in the terms of the properties.
LEMMA RequestFacts ==
  ASSUME IInv
  PROVE  HoldersNeverWait /\ SafeToRetry /\ AnsweredInTime /\ OkMeansDone
         /\ MetricsTellWhatHappened
<1>1. \A r \in Requests : RequestOK(r, req[r])
  BY DEF IInv
<1>2. HoldersNeverWait
  BY <1>1 DEF HoldersNeverWait, RequestOK
<1>3. SafeToRetry
  BY <1>1 DEF SafeToRetry, RequestOK
<1>4. AnsweredInTime
  BY <1>1 DEF AnsweredInTime, RequestOK
<1>5. OkMeansDone
  BY <1>1 DEF OkMeansDone, RequestOK
<1>6. MetricsTellWhatHappened
  BY <1>1 DEF MetricsTellWhatHappened, RequestOK, Measured
<1>. QED BY <1>2, <1>3, <1>4, <1>5, <1>6

\* Types hold for every value of the constants: the pool is never overdrawn, no
\* statement outlives its timeout, and handlers only ever wait for what they may.
THEOREM TypeCorrect == Spec => []TypeOK
<1>1. IInv => TypeOK
  BY DEF IInv
<1>. QED BY <1>1, Invariance, PTL

\* The pool's books balance: a connection is acquired exactly when some request
\* holds it, through every error, panic, deadline and rollback.
THEOREM PoolBalanced == Spec => []ConnectionsAccounted
<1>1. IInv => ConnectionsAccounted
  BY DEF IInv, PoolOK
<1>. QED BY <1>1, Invariance, PTL

\* While it holds a connection a request waits for Postgres and for nothing else:
\* requests cannot deadlock on the pool.
THEOREM NoHoldAndWait == Spec => []HoldersNeverWait
BY RequestFacts, Invariance, PTL

\* A request that times out in the pool's queue has changed nothing.
THEOREM ShedIsSafe == Spec => []SafeToRetry
BY RequestFacts, Invariance, PTL

\* Every answer, the timeout's own included, is written before the socket or the
\* healthcheck stops taking it, as long as the periods nest.
THEOREM InTime == Spec => []AnsweredInTime
BY RequestFacts, Invariance, PTL

\* A success is never reported for a change that is not committed.
THEOREM OkIsDone == Spec => []OkMeansDone
BY RequestFacts, Invariance, PTL

\* The middleware nests so that its metrics are true: no panic is lost, on its way
\* up, to Recover's answer or to Observe's record, whether or not a header was out,
\* and every other answer is recorded as it was sent.
THEOREM MetricsTrue == Spec => []MetricsTellWhatHappened
BY RequestFacts, Invariance, PTL

\* A 500 is a bug, a broken database or a pool closed with the drain given up.
THEOREM FaultsAreOwn == Spec => []OwnFaultOnly
<1>1. IInv => OwnFaultOnly
  <2>. SUFFICES ASSUME IInv, NEW r \in Requests, req[r].status = 500,
                       req[r].err \notin {"panic", "other"}
                PROVE  req[r].err = "closed" /\ (drain = NotDraining \/ drain >= ShutdownWait)
    BY DEF OwnFaultOnly
  <2>1. RequestOK(r, req[r]) /\ ShutdownOK /\ drain \in NotDraining..MaxAge
        /\ phase \in {"boot", "serving", "public", "admin", "closing", "exited"}
    BY DEF IInv, TypeOK
  <2>2. req[r].err = "closed" /\ req[r].pc # "idle"
    BY <2>1 DEF RequestOK
  <2>3. phase \in {"boot", "exited", "closing"}
    BY <2>1, <2>2 DEF ShutdownOK
  <2>4. phase = "closing" => drain \notin 0..(ShutdownWait - 1)
    BY <2>1, <2>2 DEF ShutdownOK
  <2>5. phase \in {"boot", "exited"} => drain = NotDraining
    BY <2>1 DEF ShutdownOK
  <2>6. drain # NotDraining => drain \in 0..MaxAge
    BY <2>1, Clocks DEF NotDraining
  <2>. QED BY <2>2, <2>3, <2>4, <2>5, <2>6, Periods, Clocks
<1>. QED BY <1>1, Invariance, PTL

\* While anybody is being drained within the wait, the pool is open, and the admin
\* listener answers until the public one is done.
THEOREM InOrder == Spec => []ClosedInOrder
<1>1. IInv => ClosedInOrder
  <2>. SUFFICES ASSUME IInv PROVE ClosedInOrder
    OBVIOUS
  <2>1. ShutdownOK /\ drain \in NotDraining..MaxAge
    BY DEF IInv, TypeOK
  <2>2. drain # NotDraining => drain \in 0..MaxAge
    BY <2>1, Clocks DEF NotDraining
  <2>3. /\ phase \in {"serving", "public"} => listener["admin"] # "closed" /\ pool.open
        /\ phase = "admin" => pool.open
    BY <2>1 DEF ShutdownOK, Listeners
  <2>4. ASSUME drain # NotDraining, drain < ShutdownWait, phase = "admin"
        PROVE  ActiveOf("public") = {}
    BY <2>1, <2>4 DEF ShutdownOK
  <2>5. ASSUME drain # NotDraining, drain < ShutdownWait, phase = "closing"
        PROVE  ActiveOf("public") = {} /\ ActiveOf("admin") = {}
    <3>1. drain \in 0..(ShutdownWait - 1)
      BY <2>2, <2>5, Periods, Clocks
    <3>2. \A r \in Requests : req[r].pc = "idle"
      BY <2>1, <2>5, <3>1 DEF ShutdownOK
    <3>. QED BY <3>2 DEF ActiveOf
  <2>. QED BY <2>3, <2>4, <2>5 DEF ClosedInOrder
<1>. QED BY <1>1, Invariance, PTL

\* From the signal to the exit no longer than SHUTDOWN_WAIT and what one holder of
\* a connection may still take: pool.Close cannot hold the deploy up for longer.
THEOREM Leaves == Spec => []LeavesInTime
<1>1. IInv => LeavesInTime
  BY DEF IInv, ShutdownOK
<1>. QED BY <1>1, Invariance, PTL

\* No step of the process cuts a client off before the wait is over, unless a
\* listener failed.
THEOREM NobodyCutOff == Spec => CutOnlyAfterWait
<1>1. ASSUME IInv, [Next]_vars, phase' = "exited", ActiveOf("public") # {}
      PROVE  drain >= ShutdownWait \/ \E l \in Listeners : listener[l] = "failed"
  <2>1. ShutdownOK /\ drain \in NotDraining..MaxAge
        /\ \A r \in Requests : RequestOK(r, req[r])
    BY <1>1 DEF IInv, TypeOK
  <2>2. phase' = phase \/ BootFails \/ Exit
    <3>1. ASSUME NEW r \in Requests, RequestStep(r)
          PROVE  phase' = phase
      BY <2>1, <3>1, RequestStepMoves DEF Moved, MovesTo, Become, process
    <3>2. ASSUME MainStep, ~BootFails, ~Exit
          PROVE  phase' = phase
      BY <1>1, <3>2 DEF MainStep, Boot, Signal, Listens, ListenerFails, ServerError,
                        SignalSeen, PublicDrained, AdminDrained, Restart
    <3>3. Tick \/ UNCHANGED vars => phase' = phase
      BY DEF Tick, vars
    <3>. QED BY <1>1, <3>1, <3>2, <3>3 DEF Next
  <2>3. phase \notin {"boot", "exited"}
    BY <1>1, <2>1 DEF ShutdownOK, ActiveOf
  <2>4. Exit /\ phase = "closing"
    BY <1>1, <2>2, <2>3 DEF BootFails, Exit
  <2>5. drain \notin 0..(ShutdownWait - 1)
    BY <1>1, <2>1, <2>4 DEF ShutdownOK, ActiveOf
  <2>6. drain = NotDraining => \E l \in Listeners : listener[l] = "failed"
    BY <2>1, <2>4 DEF ShutdownOK
  <2>7. drain # NotDraining => drain \in 0..MaxAge
    BY <2>1, Clocks DEF NotDraining
  <2>. QED BY <2>5, <2>6, <2>7, Periods, Clocks
<1>2. IInv /\ [Next]_vars =>
        [phase' = "exited" /\ ActiveOf("public") # {} =>
           (drain >= ShutdownWait \/ \E l \in Listeners : listener[l] = "failed")]_vars
  BY <1>1
<1>. QED BY <1>2, Invariance, PTL DEF Spec, CutOnlyAfterWait
=============================================================================
