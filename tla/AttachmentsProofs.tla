------------------------- MODULE AttachmentsProofs -------------------------
(***************************************************************************)
(* Proofs about attachments, for any number of attachments, request        *)
(* goroutines and sweeps, any cap and any uploads.                         *)
(*                                                                         *)
(* A row only moves forward (Forward): free, pending, ready, gone.  What a *)
(* request or a sweep learned of a row in one statement is therefore still *)
(* half true in the next: a row it found is never free again, a reference  *)
(* it checked is ready or gone, an object it deletes belongs to a row that *)
(* is gone for good (RequestOK, SweepOK).                                  *)
(***************************************************************************)
EXTENDS Attachments, TLAPS

-----------------------------------------------------------------------------
(* The inductive invariant. *)

Table == [AttIds -> {"free", "pending", "ready", "gone"}]

\* The handlers that act on the row of one attachment.
ActsOnRow == {"presign", "stat", "discard", "markReady", "dropRow", "dropObject"}

RequestOK(r, t) ==
  /\ r.pc = "load" =>
       /\ r.op \in {"complete", "delete"} => r.att \in AttIds
       /\ r.todo = r.refs
  /\ r.pc = "find" => r.op \in {"complete", "delete"} /\ r.att \in AttIds
  /\ r.pc \in ActsOnRow => r.att \in AttIds /\ t[r.att] # "free"
  /\ r.pc = "markReady" => r.bytes <= MaxBytes
  /\ r.pc = "dropRow" => r.att \notin r.refs
  /\ r.pc = "dropObject" => t[r.att] = "gone"
  /\ r.pc = "check" =>
       \A a \in r.refs : a \in r.todo \/ t[a] \in {"ready", "gone"}

SweepOK(p, t) ==
  /\ \A a \in p.stale : t[a] # "free"
  /\ p.pc = "row" => p.att \in AttIds /\ t[p.att] # "free"

ProcessesOK ==
  /\ \A w \in Workers : RequestOK(req[w], rows)
  /\ \A s \in Sweepers : SweepOK(sweep[s], rows)

IInv == TypeOK /\ ReadyWithinCap /\ BodyRefsUploaded /\ ProcessesOK

-----------------------------------------------------------------------------
(* Rows move forward, and what was learned of them stands. *)

Forward(t, u) ==
  \A a \in AttIds :
    \/ u[a] = t[a]
    \/ t[a] = "free" /\ u[a] = "pending"
    \/ t[a] = "pending" /\ u[a] = "ready"
    \/ t[a] # "free" /\ u[a] = "gone"

LEMMA RequestStands ==
  ASSUME NEW t, NEW u, Forward(t, u), NEW r \in Requests, RequestOK(r, t)
  PROVE  RequestOK(r, u)
<1>1. \A a \in AttIds :
        /\ t[a] # "free" => u[a] # "free"
        /\ t[a] = "gone" => u[a] = "gone"
        /\ t[a] \in {"ready", "gone"} => u[a] \in {"ready", "gone"}
  BY DEF Forward
<1>2. r.refs \subseteq AttIds
  BY DEF Requests
<1>. QED BY <1>1, <1>2 DEF RequestOK, ActsOnRow

LEMMA SweepStands ==
  ASSUME NEW t, NEW u, Forward(t, u), NEW p \in Sweeps, SweepOK(p, t)
  PROVE  SweepOK(p, u)
<1>1. \A a \in AttIds : t[a] # "free" => u[a] # "free"
  BY DEF Forward
<1>2. p.stale \subseteq AttIds
  BY DEF Sweeps
<1>. QED BY <1>1, <1>2 DEF SweepOK

\* A step of one request, which may move a row on.
LEMMA RequestMoves ==
  ASSUME IInv, NEW w \in Workers, NEW q \in Requests,
         req' = [req EXCEPT ![w] = q], sweep' = sweep,
         Forward(rows, rows'), RequestOK(q, rows')
  PROVE  /\ req' \in [Workers -> Requests] /\ sweep' \in [Sweepers -> Sweeps]
         /\ ProcessesOK'
<1>1. /\ req' \in [Workers -> Requests] /\ sweep' \in [Sweepers -> Sweeps]
      /\ req'[w] = q /\ \A o \in Workers \ {w} : req'[o] = req[o]
  BY DEF IInv, TypeOK
<1>2. ASSUME NEW o \in Workers
      PROVE  RequestOK(req'[o], rows')
  <2>1. CASE o = w
    BY <1>1, <2>1
  <2>2. CASE o # w
    <3>1. req[o] \in Requests /\ RequestOK(req[o], rows) /\ req'[o] = req[o]
      BY <1>1, <2>2 DEF IInv, TypeOK, ProcessesOK
    <3>. QED BY <3>1, RequestStands
  <2>. QED BY <2>1, <2>2
<1>3. ASSUME NEW s \in Sweepers
      PROVE  SweepOK(sweep'[s], rows')
  <2>1. sweep[s] \in Sweeps /\ SweepOK(sweep[s], rows)
    BY DEF IInv, TypeOK, ProcessesOK
  <2>. QED BY <2>1, SweepStands
<1>. QED BY <1>1, <1>2, <1>3 DEF ProcessesOK

\* One that moves none.
LEMMA QuietStep ==
  ASSUME IInv, NEW w \in Workers, NEW q \in Requests,
         req' = [req EXCEPT ![w] = q], UNCHANGED <<db, sweep>>,
         object' \in [AttIds -> Sizes \cup {Nothing}],
         age' \in [AttIds -> {"unsigned", "fresh", "expired", "stale"}],
         RequestOK(q, rows)
  PROVE  IInv'
<1>1. UNCHANGED <<body, rows, size, sweep>>
  BY DEF db
<1>2. Forward(rows, rows') /\ RequestOK(q, rows')
  BY <1>1 DEF Forward
<1>3. /\ req' \in [Workers -> Requests] /\ sweep' \in [Sweepers -> Sweeps]
      /\ ProcessesOK'
  BY <1>1, <1>2, RequestMoves
<1>4. TypeOK'
  BY <1>1, <1>3 DEF IInv, TypeOK
<1>5. ReadyWithinCap' /\ BodyRefsUploaded'
  BY <1>1 DEF IInv, ReadyWithinCap, BodyRefsUploaded
<1>. QED BY <1>3, <1>4, <1>5 DEF IInv

Replied(r, status) ==
  [IdleReq EXCEPT !.pc = "reply", !.op = r.op, !.att = r.att, !.status = status]

LEMMA IdleReqOK == IdleReq \in Requests /\ \A t : RequestOK(IdleReq, t)
<1>1. IdleReq \in Requests
  BY DEF IdleReq, Requests, Pcs, Statuses
<1>2. IdleReq.pc = "idle"
  BY DEF IdleReq
<1>. QED BY <1>1, <1>2 DEF RequestOK, ActsOnRow

LEMMA RepliedOK ==
  ASSUME NEW r \in Requests, NEW status \in Statuses
  PROVE  /\ Replied(r, status) \in Requests
         /\ Replied(r, status).pc = "reply"
         /\ \A t : RequestOK(Replied(r, status), t)
<1>. DEFINE q == Replied(r, status)
<1>1. "reply" \in Pcs
  BY DEF Pcs
<1>2. q \in Requests /\ q.pc = "reply"
  BY <1>1, IdleReqOK DEF Requests, Replied
<1>. HIDE DEF q
<1>3. \A t : RequestOK(q, t)
  BY <1>2 DEF RequestOK, ActsOnRow
<1>. QED BY <1>2, <1>3 DEF q

LEMMA AnswerStep ==
  ASSUME IInv, NEW w \in Workers, NEW status \in Statuses, Answer(w, status),
         UNCHANGED <<db, sweep>>,
         object' \in [AttIds -> Sizes \cup {Nothing}],
         age' \in [AttIds -> {"unsigned", "fresh", "expired", "stale"}]
  PROVE  IInv'
<1>1. req' = [req EXCEPT ![w] = Replied(req[w], status)]
  BY DEF Answer, Replied
<1>2. req[w] \in Requests
  BY DEF IInv, TypeOK
<1>. QED BY <1>1, <1>2, RepliedOK, QuietStep

LEMMA GotoStep ==
  ASSUME IInv, NEW w \in Workers, NEW pc \in Pcs, Goto(w, pc),
         UNCHANGED <<db, bucket, sweep>>,
         pc = "find" => req[w].op \in {"complete", "delete"}
                        /\ req[w].att \in AttIds,
         pc \in ActsOnRow => /\ req[w].att \in AttIds
                             /\ rows[req[w].att] # "free",
         pc = "dropRow" => req[w].att \notin req[w].refs,
         pc = "check" => req[w].todo = req[w].refs,
         pc \notin {"load", "markReady", "dropObject"}
  PROVE  IInv'
<1>. DEFINE q == [req[w] EXCEPT !.pc = pc]
<1>1. req' = [req EXCEPT ![w] = q]
  BY DEF Goto
<1>2. /\ q \in Requests /\ q.pc = pc /\ q.op = req[w].op /\ q.att = req[w].att
      /\ q.refs = req[w].refs /\ q.todo = req[w].todo
  BY DEF IInv, TypeOK, Requests
<1>. HIDE DEF q
<1>3. RequestOK(q, rows)
  BY <1>2 DEF RequestOK
<1>4. /\ object' \in [AttIds -> Sizes \cup {Nothing}]
      /\ age' \in [AttIds -> {"unsigned", "fresh", "expired", "stale"}]
      /\ UNCHANGED <<db, sweep>>
  BY DEF bucket, IInv, TypeOK
<1>. QED BY <1>1, <1>2, <1>3, <1>4, QuietStep

\* A step of the clients or of time: no row, no process moves.
LEMMA OutsideStep ==
  ASSUME IInv, UNCHANGED <<db, req, sweep>>,
         object' \in [AttIds -> Sizes \cup {Nothing}],
         age' \in [AttIds -> {"unsigned", "fresh", "expired", "stale"}]
  PROVE  IInv'
BY DEF db, IInv, TypeOK, ReadyWithinCap, BodyRefsUploaded, ProcessesOK

-----------------------------------------------------------------------------
(* One lemma per action. *)

LEMMA ReceiveStep ==
  ASSUME IInv, NEW w \in Workers, Receive(w)
  PROVE  IInv'
<1>1. PICK op \in Ops,
           att \in AttIds \cup {Nothing}, refs \in SUBSET AttIds :
        /\ op \in {"complete", "delete"} => att \in AttIds
        /\ req' = [req EXCEPT ![w] =
                     [IdleReq EXCEPT !.pc = "load", !.op = op, !.att = att,
                                     !.refs = refs, !.todo = refs]]
  <2>1. PICK op \in Ops :
          \E att \in IF op \in {"complete", "delete"} THEN AttIds ELSE {Nothing},
             refs \in IF op = "update" THEN SUBSET AttIds ELSE {{}} :
            req' = [req EXCEPT ![w] =
                     [IdleReq EXCEPT !.pc = "load", !.op = op, !.att = att,
                                     !.refs = refs, !.todo = refs]]
    BY DEF Receive
  <2>. QED BY <2>1
<1>. DEFINE q == [IdleReq EXCEPT !.pc = "load", !.op = op, !.att = att,
                                !.refs = refs, !.todo = refs]
<1>2. "load" \in Pcs
  BY DEF Pcs
<1>3. /\ q \in Requests /\ q.pc = "load" /\ q.op = op /\ q.att = att
      /\ q.refs = refs /\ q.todo = refs
  BY <1>2, IdleReqOK DEF Requests
<1>4. req' = [req EXCEPT ![w] = q]
  BY <1>1
<1>. HIDE DEF q
<1>5. RequestOK(q, rows)
  BY <1>1, <1>3 DEF RequestOK, ActsOnRow
<1>. QED BY <1>3, <1>4, <1>5, QuietStep DEF Receive, bucket, IInv, TypeOK

LEMMA LoadStep ==
  ASSUME IInv, NEW w \in Workers, Load(w)
  PROVE  IInv'
<1>. DEFINE r == req[w]
<1>1. r \in Requests /\ RequestOK(r, rows) /\ r.pc = "load"
  BY DEF Load, IInv, TypeOK, ProcessesOK
<1>2. /\ UNCHANGED <<db, bucket, sweep>>
      /\ object' \in [AttIds -> Sizes \cup {Nothing}]
      /\ age' \in [AttIds -> {"unsigned", "fresh", "expired", "stale"}]
  BY DEF Load, bucket, IInv, TypeOK
<1>3. CASE Answer(w, 404)
  BY <1>2, <1>3, AnswerStep DEF Statuses
<1>4. CASE Goto(w, "insert")
  <2>1. "insert" \in Pcs
    BY DEF Pcs
  <2>. QED BY <1>2, <1>4, <2>1, GotoStep DEF ActsOnRow
<1>5. CASE r.op = "complete" /\ Goto(w, "find")
  <2>1. "find" \in Pcs /\ r.att \in AttIds
    BY <1>1, <1>5 DEF Pcs, RequestOK
  <2>. QED BY <1>2, <1>5, <2>1, GotoStep DEF ActsOnRow
<1>6. CASE Goto(w, "check")
  <2>1. "check" \in Pcs /\ r.todo = r.refs
    BY <1>1 DEF Pcs, RequestOK
  <2>. QED BY <1>2, <1>6, <2>1, GotoStep DEF ActsOnRow
<1>7. CASE /\ r.op = "delete"
           /\ req' = [req EXCEPT ![w].pc = "find", ![w].refs = body]
  <2>. DEFINE q == [r EXCEPT !.pc = "find", !.refs = body]
  <2>1. "find" \in Pcs /\ body \in SUBSET AttIds
    BY DEF Pcs, IInv, TypeOK
  <2>2. q \in Requests /\ q.pc = "find" /\ q.op = r.op /\ q.att = r.att
    BY <1>1, <2>1 DEF Requests
  <2>3. req' = [req EXCEPT ![w] = q]
    BY <1>7
  <2>. HIDE DEF q
  <2>4. RequestOK(q, rows)
    BY <1>1, <1>7, <2>2 DEF RequestOK, ActsOnRow
  <2>. QED BY <1>2, <2>2, <2>3, <2>4, QuietStep
<1>. QED BY <1>3, <1>4, <1>5, <1>6, <1>7 DEF Load

\* A new row is free until now: no body and no completed upload has it.
LEMMA CreateAttachmentStep ==
  ASSUME IInv, NEW w \in Workers, CreateAttachment(w)
  PROVE  IInv'
<1>. DEFINE r == req[w]
<1>1. PICK a \in AttIds, declared \in 1 .. MaxBytes :
        /\ rows[a] = "free"
        /\ rows' = [rows EXCEPT ![a] = "pending"]
        /\ size' = [size EXCEPT ![a] = declared]
        /\ req' = [req EXCEPT ![w].pc = "presign", ![w].att = a]
  BY DEF CreateAttachment
<1>. DEFINE q == [r EXCEPT !.pc = "presign", !.att = a]
<1>2. UNCHANGED <<body, object, age, sweep>>
  BY DEF CreateAttachment, bucket
<1>3. /\ rows' \in Table /\ rows'[a] = "pending"
      /\ \A b \in AttIds \ {a} : rows'[b] = rows[b]
  BY <1>1 DEF IInv, TypeOK, Table
<1>4. /\ size' \in [AttIds -> 0 .. MaxBytes]
      /\ \A b \in AttIds \ {a} : size'[b] = size[b]
  BY <1>1, AttachmentsAssumption DEF IInv, TypeOK
<1>5. "presign" \in Pcs
  BY DEF Pcs
<1>6. q \in Requests /\ q.pc = "presign" /\ q.att = a
  BY <1>5 DEF IInv, TypeOK, Requests
<1>7. req' = [req EXCEPT ![w] = q]
  BY <1>1
<1>. HIDE DEF q
<1>8. Forward(rows, rows') /\ RequestOK(q, rows')
  BY <1>1, <1>3, <1>6 DEF Forward, RequestOK, ActsOnRow
<1>9. /\ req' \in [Workers -> Requests] /\ sweep' \in [Sweepers -> Sweeps]
      /\ ProcessesOK'
  BY <1>2, <1>6, <1>7, <1>8, RequestMoves
<1>10. TypeOK'
  BY <1>2, <1>3, <1>4, <1>9 DEF IInv, TypeOK, Table
<1>11. ReadyWithinCap' /\ BodyRefsUploaded'
  BY <1>1, <1>2, <1>3, <1>4 DEF IInv, TypeOK, ReadyWithinCap, BodyRefsUploaded
<1>. QED BY <1>9, <1>10, <1>11 DEF IInv

LEMMA PresignPutStep ==
  ASSUME IInv, NEW w \in Workers, PresignPut(w)
  PROVE  IInv'
<1>1. PICK status \in {201, 500} : Answer(w, status)
  BY DEF PresignPut
<1>2. /\ UNCHANGED <<db, sweep>>
      /\ object' \in [AttIds -> Sizes \cup {Nothing}]
      /\ age' \in [AttIds -> {"unsigned", "fresh", "expired", "stale"}]
  BY DEF PresignPut, IInv, TypeOK
<1>. QED BY <1>1, <1>2, AnswerStep DEF Statuses

LEMMA PutStep ==
  ASSUME IInv, NEW a \in AttIds, Put(a)
  PROVE  IInv'
BY OutsideStep DEF Put, IInv, TypeOK

LEMMA PassStep ==
  ASSUME IInv, NEW a \in AttIds, Pass(a)
  PROVE  IInv'
BY OutsideStep DEF Pass, IInv, TypeOK

LEMMA LoadAttachmentStep ==
  ASSUME IInv, NEW w \in Workers, LoadAttachment(w)
  PROVE  IInv'
<1>. DEFINE r == req[w]
<1>1. r \in Requests /\ RequestOK(r, rows) /\ r.pc = "find"
  BY DEF LoadAttachment, IInv, TypeOK, ProcessesOK
<1>2. /\ UNCHANGED <<db, bucket, sweep>>
      /\ object' \in [AttIds -> Sizes \cup {Nothing}]
      /\ age' \in [AttIds -> {"unsigned", "fresh", "expired", "stale"}]
  BY DEF LoadAttachment, bucket, IInv, TypeOK
<1>3. r.att \in AttIds /\ (HasRow(r.att) => rows[r.att] # "free")
  BY <1>1 DEF RequestOK, HasRow
<1>4. ASSUME NEW status \in {200, 404, 409}, Answer(w, status) PROVE IInv'
  BY <1>2, <1>4, AnswerStep DEF Statuses
<1>5. CASE HasRow(r.att) /\ Goto(w, "stat")
  <2>1. "stat" \in Pcs
    BY DEF Pcs
  <2>. QED BY <1>2, <1>3, <1>5, <2>1, GotoStep
<1>6. CASE HasRow(r.att) /\ r.att \notin r.refs /\ Goto(w, "dropRow")
  <2>1. "dropRow" \in Pcs
    BY DEF Pcs
  <2>. QED BY <1>2, <1>3, <1>6, <2>1, GotoStep
<1>. QED BY <1>4, <1>5, <1>6 DEF LoadAttachment

LEMMA StatStep ==
  ASSUME IInv, NEW w \in Workers, Stat(w)
  PROVE  IInv'
<1>. DEFINE r == req[w]
<1>1. r \in Requests /\ RequestOK(r, rows) /\ r.pc = "stat"
  BY DEF Stat, IInv, TypeOK, ProcessesOK
<1>2. /\ UNCHANGED <<db, bucket, sweep>>
      /\ object' \in [AttIds -> Sizes \cup {Nothing}]
      /\ age' \in [AttIds -> {"unsigned", "fresh", "expired", "stale"}]
  BY DEF Stat, bucket, IInv, TypeOK
<1>3. r.att \in AttIds /\ rows[r.att] # "free"
  BY <1>1 DEF RequestOK, ActsOnRow
<1>4. CASE Answer(w, 409)
  BY <1>2, <1>4, AnswerStep DEF Statuses
<1>5. CASE Goto(w, "discard")
  <2>1. "discard" \in Pcs
    BY DEF Pcs
  <2>. QED BY <1>2, <1>3, <1>5, <2>1, GotoStep
<1>6. CASE /\ object[r.att] # Nothing /\ object[r.att] <= MaxBytes
           /\ req' = [req EXCEPT ![w].pc = "markReady", ![w].bytes = object[r.att]]
  <2>. DEFINE q == [r EXCEPT !.pc = "markReady", !.bytes = object[r.att]]
  <2>1. "markReady" \in Pcs /\ object[r.att] \in Sizes
    BY <1>3, <1>6 DEF Pcs, IInv, TypeOK
  <2>2. /\ q \in Requests /\ q.pc = "markReady" /\ q.att = r.att
        /\ q.bytes = object[r.att]
    BY <1>1, <2>1 DEF Requests
  <2>3. req' = [req EXCEPT ![w] = q]
    BY <1>6
  <2>. HIDE DEF q
  <2>4. RequestOK(q, rows)
    BY <1>3, <1>6, <2>2 DEF RequestOK, ActsOnRow
  <2>. QED BY <1>2, <2>2, <2>3, <2>4, QuietStep
<1>. QED BY <1>4, <1>5, <1>6 DEF Stat

LEMMA DiscardOversizeStep ==
  ASSUME IInv, NEW w \in Workers, DiscardOversize(w)
  PROVE  IInv'
<1>1. /\ Answer(w, 413) /\ UNCHANGED <<db, sweep>>
      /\ object' \in [AttIds -> Sizes \cup {Nothing}]
      /\ age' \in [AttIds -> {"unsigned", "fresh", "expired", "stale"}]
  BY DEF DiscardOversize, IInv, TypeOK
<1>. QED BY <1>1, AnswerStep DEF Statuses

\* A verified size is of an object found, not empty and within the cap.
LEMMA MarkAttachmentReadyStep ==
  ASSUME IInv, NEW w \in Workers, MarkAttachmentReady(w)
  PROVE  IInv'
<1>. DEFINE r == req[w]
            a == r.att
<1>1. r \in Requests /\ RequestOK(r, rows) /\ r.pc = "markReady"
  BY DEF MarkAttachmentReady, IInv, TypeOK, ProcessesOK
<1>2. a \in AttIds /\ r.bytes <= MaxBytes /\ r.bytes \in Nat
  <2>1. a \in AttIds /\ r.bytes <= MaxBytes
    BY <1>1 DEF RequestOK, ActsOnRow
  <2>2. r.bytes \in Sizes \cup {0}
    BY <1>1 DEF Requests
  <2>3. \A n \in Sizes \cup {0} : n \in Nat
    BY AttachmentsAssumption
  <2>4. r.bytes \in Nat
    BY <2>2, <2>3
  <2>. QED BY <2>1, <2>4
<1>3. UNCHANGED <<body, object, age, sweep>>
  BY DEF MarkAttachmentReady, bucket
<1>4. CASE Answer(w, 500) /\ UNCHANGED <<rows, size>>
  <2>1. /\ UNCHANGED <<db, sweep>>
        /\ object' \in [AttIds -> Sizes \cup {Nothing}]
        /\ age' \in [AttIds -> {"unsigned", "fresh", "expired", "stale"}]
    BY <1>3, <1>4 DEF db, IInv, TypeOK
  <2>. QED BY <1>4, <2>1, AnswerStep DEF Statuses
<1>5. CASE /\ rows[a] = "pending" /\ r.bytes > 0
           /\ rows' = [rows EXCEPT ![a] = "ready"]
           /\ size' = [size EXCEPT ![a] = r.bytes]
           /\ Answer(w, 200)
  <2>1. /\ rows' \in Table /\ rows'[a] = "ready"
        /\ \A b \in AttIds \ {a} : rows'[b] = rows[b]
    BY <1>2, <1>5 DEF IInv, TypeOK, Table
  <2>2. r.bytes \in 1 .. MaxBytes /\ MaxBytes \in Nat
    BY <1>2, <1>5, AttachmentsAssumption
  <2>3. /\ size' \in [AttIds -> 0 .. MaxBytes] /\ size'[a] = r.bytes
        /\ \A b \in AttIds \ {a} : size'[b] = size[b]
    BY <1>2, <1>5, <2>2 DEF IInv, TypeOK
  <2>4. Forward(rows, rows')
    BY <1>5, <2>1 DEF Forward
  <2>5. req' = [req EXCEPT ![w] = Replied(r, 200)]
    BY <1>5 DEF Answer, Replied
  <2>6. /\ Replied(r, 200) \in Requests
        /\ RequestOK(Replied(r, 200), rows')
    BY <1>1, RepliedOK DEF Statuses
  <2>7. /\ req' \in [Workers -> Requests] /\ sweep' \in [Sweepers -> Sweeps]
        /\ ProcessesOK'
    BY <1>3, <2>4, <2>5, <2>6, RequestMoves
  <2>8. TypeOK'
    BY <1>3, <2>1, <2>3, <2>7 DEF IInv, TypeOK, Table
  <2>9. ReadyWithinCap' /\ BodyRefsUploaded'
    BY <1>3, <2>1, <2>2, <2>3
       DEF IInv, TypeOK, ReadyWithinCap, BodyRefsUploaded
  <2>. QED BY <2>7, <2>8, <2>9 DEF IInv
<1>. QED BY <1>4, <1>5 DEF MarkAttachmentReady

\* A row that goes takes nothing with it that was promised of the others.
LEMMA RowGone ==
  ASSUME IInv, NEW a \in AttIds, rows[a] # "free",
         rows' = [rows EXCEPT ![a] = "gone"],
         UNCHANGED <<body, size, object, age>>
  PROVE  /\ rows' \in Table /\ rows'[a] = "gone"
         /\ Forward(rows, rows')
         /\ ReadyWithinCap' /\ BodyRefsUploaded'
<1>1. /\ rows' \in Table /\ rows'[a] = "gone"
      /\ \A b \in AttIds \ {a} : rows'[b] = rows[b]
  BY DEF IInv, TypeOK, Table
<1>. QED BY <1>1 DEF Forward, IInv, TypeOK, ReadyWithinCap, BodyRefsUploaded

LEMMA DeleteAttachmentStep ==
  ASSUME IInv, NEW w \in Workers, DeleteAttachment(w)
  PROVE  IInv'
<1>. DEFINE r == req[w]
            q == [r EXCEPT !.pc = "dropObject"]
<1>1. r \in Requests /\ RequestOK(r, rows) /\ r.pc = "dropRow"
  BY DEF DeleteAttachment, IInv, TypeOK, ProcessesOK
<1>2. r.att \in AttIds /\ rows[r.att] # "free"
  BY <1>1 DEF RequestOK, ActsOnRow
<1>3. /\ UNCHANGED <<body, size, object, age, sweep>>
      /\ rows' = [rows EXCEPT ![r.att] = "gone"]
      /\ req' = [req EXCEPT ![w] = q]
  BY DEF DeleteAttachment, Goto, bucket
<1>4. /\ rows' \in Table /\ rows'[r.att] = "gone" /\ Forward(rows, rows')
      /\ ReadyWithinCap' /\ BodyRefsUploaded'
  BY <1>2, <1>3, RowGone
<1>5. "dropObject" \in Pcs
  BY DEF Pcs
<1>6. q \in Requests /\ q.pc = "dropObject" /\ q.att = r.att
  BY <1>1, <1>5 DEF Requests
<1>. HIDE DEF q
<1>7. RequestOK(q, rows')
  BY <1>2, <1>4, <1>6 DEF RequestOK, ActsOnRow
<1>8. /\ req' \in [Workers -> Requests] /\ sweep' \in [Sweepers -> Sweeps]
      /\ ProcessesOK'
  BY <1>3, <1>4, <1>6, <1>7, RequestMoves
<1>9. TypeOK'
  BY <1>3, <1>4, <1>8 DEF IInv, TypeOK, Table
<1>. QED BY <1>4, <1>8, <1>9 DEF IInv

LEMMA DeleteObjectStep ==
  ASSUME IInv, NEW w \in Workers, DeleteObject(w)
  PROVE  IInv'
<1>1. /\ Answer(w, 204) /\ UNCHANGED <<db, sweep>>
      /\ object' \in [AttIds -> Sizes \cup {Nothing}]
      /\ age' \in [AttIds -> {"unsigned", "fresh", "expired", "stale"}]
  BY DEF DeleteObject, IInv, TypeOK
<1>. QED BY <1>1, AnswerStep DEF Statuses

LEMMA CheckReferenceStep ==
  ASSUME IInv, NEW w \in Workers, CheckReference(w)
  PROVE  IInv'
<1>. DEFINE r == req[w]
<1>1. r \in Requests /\ RequestOK(r, rows) /\ r.pc = "check"
  BY DEF CheckReference, IInv, TypeOK, ProcessesOK
<1>2. /\ UNCHANGED <<db, bucket, sweep>>
      /\ object' \in [AttIds -> Sizes \cup {Nothing}]
      /\ age' \in [AttIds -> {"unsigned", "fresh", "expired", "stale"}]
  BY DEF CheckReference, bucket, IInv, TypeOK
<1>3. CASE Answer(w, 400)
  BY <1>2, <1>3, AnswerStep DEF Statuses
<1>4. ASSUME NEW a \in r.todo, rows[a] = "ready",
             req' = [req EXCEPT ![w].todo = @ \ {a}]
      PROVE  IInv'
  <2>. DEFINE q == [r EXCEPT !.todo = r.todo \ {a}]
  <2>1. r.todo \ {a} \in SUBSET AttIds
    BY <1>1 DEF Requests
  <2>2. /\ q \in Requests /\ q.pc = "check" /\ q.refs = r.refs
        /\ q.todo = r.todo \ {a}
    BY <1>1, <2>1 DEF Requests
  <2>3. req' = [req EXCEPT ![w] = q]
    BY <1>4
  <2>. HIDE DEF q
  <2>4. \A b \in r.refs : b \in r.todo \/ rows[b] \in {"ready", "gone"}
    BY <1>1 DEF RequestOK
  <2>5. RequestOK(q, rows)
    BY <1>4, <2>2, <2>4 DEF RequestOK, ActsOnRow
  <2>. QED BY <1>2, <2>2, <2>3, <2>5, QuietStep
<1>. QED BY <1>3, <1>4 DEF CheckReference

\* Every reference of the body saved was ready when it was checked.
LEMMA UpdateBodyStep ==
  ASSUME IInv, NEW w \in Workers, UpdateBody(w)
  PROVE  IInv'
<1>. DEFINE r == req[w]
<1>1. r \in Requests /\ RequestOK(r, rows) /\ r.pc = "check" /\ r.todo = {}
  BY DEF UpdateBody, IInv, TypeOK, ProcessesOK
<1>2. UNCHANGED <<rows, size, object, age, sweep>>
  BY DEF UpdateBody, bucket
<1>3. /\ body' \subseteq AttIds
      /\ \A a \in body' : rows[a] \in {"ready", "gone"}
  <2>1. CASE body' = body
    BY <2>1 DEF IInv, TypeOK, BodyRefsUploaded
  <2>2. CASE body' = r.refs
    BY <1>1, <2>2 DEF RequestOK, Requests
  <2>. QED BY <2>1, <2>2 DEF UpdateBody
<1>4. PICK status \in {200, 409} : Answer(w, status)
  BY DEF UpdateBody
<1>5. req' = [req EXCEPT ![w] = Replied(r, status)]
  BY <1>4 DEF Answer, Replied
<1>6. Replied(r, status) \in Requests /\ RequestOK(Replied(r, status), rows')
  BY <1>1, RepliedOK DEF Statuses
<1>7. Forward(rows, rows')
  BY <1>2 DEF Forward
<1>8. /\ req' \in [Workers -> Requests] /\ sweep' \in [Sweepers -> Sweeps]
      /\ ProcessesOK'
  BY <1>2, <1>5, <1>6, <1>7, RequestMoves
<1>9. TypeOK'
  BY <1>2, <1>3, <1>8 DEF IInv, TypeOK
<1>10. ReadyWithinCap' /\ BodyRefsUploaded'
  BY <1>2, <1>3 DEF IInv, ReadyWithinCap, BodyRefsUploaded
<1>. QED BY <1>8, <1>9, <1>10 DEF IInv

LEMMA FailStep ==
  ASSUME IInv, NEW w \in Workers, Fail(w)
  PROVE  IInv'
BY AnswerStep DEF Fail, Statuses, bucket, IInv, TypeOK

LEMMA RespondStep ==
  ASSUME IInv, NEW w \in Workers, Respond(w)
  PROVE  IInv'
BY IdleReqOK, QuietStep DEF Respond, bucket, IInv, TypeOK

-----------------------------------------------------------------------------
(* The sweep's. *)

\* A step of one sweep, which may collect a row or an object.
LEMMA SweepMoves ==
  ASSUME IInv, NEW s \in Sweepers, NEW p \in Sweeps,
         sweep' = [sweep EXCEPT ![s] = p], UNCHANGED <<body, size, age, req>>,
         rows' \in Table, Forward(rows, rows'),
         object' \in [AttIds -> Sizes \cup {Nothing}],
         ReadyWithinCap' /\ BodyRefsUploaded', SweepOK(p, rows')
  PROVE  IInv'
<1>1. /\ sweep' \in [Sweepers -> Sweeps]
      /\ sweep'[s] = p /\ \A o \in Sweepers \ {s} : sweep'[o] = sweep[o]
  BY DEF IInv, TypeOK
<1>2. TypeOK'
  BY <1>1 DEF IInv, TypeOK, Table
<1>3. ASSUME NEW o \in Sweepers
      PROVE  SweepOK(sweep'[o], rows')
  <2>1. CASE o = s
    BY <1>1, <2>1
  <2>2. CASE o # s
    <3>1. /\ sweep[o] \in Sweeps /\ SweepOK(sweep[o], rows)
          /\ sweep'[o] = sweep[o]
      BY <1>1, <2>2 DEF IInv, TypeOK, ProcessesOK
    <3>. QED BY <3>1, SweepStands
  <2>. QED BY <2>1, <2>2
<1>4. ASSUME NEW w \in Workers
      PROVE  RequestOK(req'[w], rows')
  <2>1. req[w] \in Requests /\ RequestOK(req[w], rows) /\ req'[w] = req[w]
    BY DEF IInv, TypeOK, ProcessesOK
  <2>. QED BY <2>1, RequestStands
<1>. QED BY <1>2, <1>3, <1>4 DEF IInv, ProcessesOK

\* One that collects no row.
LEMMA SweepQuiet ==
  ASSUME IInv, NEW s \in Sweepers, NEW p \in Sweeps,
         sweep' = [sweep EXCEPT ![s] = p], UNCHANGED <<db, age, req>>,
         object' \in [AttIds -> Sizes \cup {Nothing}], SweepOK(p, rows)
  PROVE  IInv'
<1>1. UNCHANGED <<body, rows, size>>
  BY DEF db
<1>2. /\ rows' \in Table /\ Forward(rows, rows') /\ SweepOK(p, rows')
      /\ ReadyWithinCap' /\ BodyRefsUploaded'
  BY <1>1 DEF Forward, Table, IInv, TypeOK, ReadyWithinCap, BodyRefsUploaded
<1>. QED BY <1>1, <1>2, SweepMoves

LEMMA IdleSweepOK == IdleSweep \in Sweeps /\ \A t : SweepOK(IdleSweep, t)
BY DEF IdleSweep, Sweeps, SweepOK

LEMMA AfterOK ==
  ASSUME IInv, NEW s \in Sweepers, NEW a
  PROVE  /\ After(s, a) \in Sweeps
         /\ \A t : Forward(rows, t) => SweepOK(After(s, a), t)
         /\ After(s, a).pc # "row"
<1>. DEFINE left == sweep[s].stale \ {a}
            p == [IdleSweep EXCEPT !.pc = "object", !.stale = left]
<1>1. sweep[s] \in Sweeps /\ SweepOK(sweep[s], rows)
  BY DEF IInv, TypeOK, ProcessesOK
<1>2. left \in SUBSET AttIds
  BY <1>1 DEF Sweeps
<1>3. p \in Sweeps /\ p.pc = "object" /\ p.stale = left
  BY <1>2, IdleSweepOK DEF Sweeps
<1>4. After(s, a) = IdleSweep \/ After(s, a) = p
  BY DEF After
<1>. HIDE DEF p
<1>5. ASSUME NEW t, Forward(rows, t) PROVE SweepOK(p, t)
  BY <1>1, <1>2, <1>3, <1>5 DEF SweepOK, Forward
<1>6. IdleSweep.pc = "idle"
  BY DEF IdleSweep
<1>. QED BY <1>3, <1>4, <1>5, <1>6, IdleSweepOK

LEMMA ListStaleUploadsStep ==
  ASSUME IInv, NEW s \in Sweepers, ListStaleUploads(s)
  PROVE  IInv'
<1>. DEFINE p == [IdleSweep EXCEPT !.pc = "object", !.stale = Oldest(Stale)]
<1>1. /\ Oldest(Stale) \in SUBSET AttIds
      /\ \A a \in Oldest(Stale) : rows[a] # "free"
  BY DEF Oldest, Stale
<1>2. p \in Sweeps /\ p.pc = "object" /\ p.stale = Oldest(Stale)
  BY <1>1, IdleSweepOK DEF Sweeps
<1>3. sweep' = [sweep EXCEPT ![s] = p]
  BY DEF ListStaleUploads
<1>. HIDE DEF p
<1>4. SweepOK(p, rows)
  BY <1>1, <1>2 DEF SweepOK
<1>. QED BY <1>2, <1>3, <1>4, SweepQuiet DEF ListStaleUploads, bucket, IInv, TypeOK

LEMMA SweepObjectStep ==
  ASSUME IInv, NEW s \in Sweepers, SweepObject(s)
  PROVE  IInv'
<1>1. sweep[s] \in Sweeps /\ SweepOK(sweep[s], rows)
  BY DEF IInv, TypeOK, ProcessesOK
<1>2. PICK a \in sweep[s].stale :
        \/ sweep' = [sweep EXCEPT ![s].pc = "row", ![s].att = a]
        \/ sweep' = [sweep EXCEPT ![s] = After(s, a)]
  BY DEF SweepObject
<1>3. a \in AttIds /\ rows[a] # "free"
  BY <1>1 DEF Sweeps, SweepOK
<1>4. /\ UNCHANGED <<db, age, req>>
      /\ object' \in [AttIds -> Sizes \cup {Nothing}]
  BY DEF SweepObject, IInv, TypeOK
<1>5. CASE sweep' = [sweep EXCEPT ![s].pc = "row", ![s].att = a]
  <2>. DEFINE p == [sweep[s] EXCEPT !.pc = "row", !.att = a]
  <2>1. /\ p \in Sweeps /\ p.pc = "row" /\ p.att = a
        /\ p.stale = sweep[s].stale
    BY <1>1, <1>3 DEF Sweeps
  <2>2. sweep' = [sweep EXCEPT ![s] = p]
    BY <1>5
  <2>. HIDE DEF p
  <2>3. SweepOK(p, rows)
    BY <1>1, <1>3, <2>1 DEF SweepOK
  <2>. QED BY <1>4, <2>1, <2>2, <2>3, SweepQuiet
<1>6. CASE sweep' = [sweep EXCEPT ![s] = After(s, a)]
  <2>1. Forward(rows, rows)
    BY DEF Forward
  <2>. QED BY <1>4, <1>6, <2>1, AfterOK, SweepQuiet
<1>. QED BY <1>2, <1>5, <1>6

LEMMA SweepRowStep ==
  ASSUME IInv, NEW s \in Sweepers, SweepRow(s)
  PROVE  IInv'
<1>. DEFINE a == sweep[s].att
<1>1. /\ SweepOK(sweep[s], rows) /\ sweep[s].pc = "row"
      /\ sweep' = [sweep EXCEPT ![s] = After(s, a)]
      /\ UNCHANGED <<body, size, object, age, req>>
  BY DEF SweepRow, bucket, IInv, ProcessesOK
<1>2. a \in AttIds /\ rows[a] # "free"
  BY <1>1 DEF SweepOK
<1>3. /\ rows' \in Table /\ Forward(rows, rows')
      /\ ReadyWithinCap' /\ BodyRefsUploaded'
  <2>1. CASE rows' = [rows EXCEPT ![a] = "gone"]
    BY <1>1, <1>2, <2>1, RowGone
  <2>2. CASE rows' = rows
    BY <1>1, <2>2
       DEF Table, Forward, IInv, TypeOK, ReadyWithinCap, BodyRefsUploaded
  <2>. QED BY <2>1, <2>2 DEF SweepRow
<1>4. After(s, a) \in Sweeps /\ SweepOK(After(s, a), rows')
  BY <1>3, AfterOK
<1>5. object' \in [AttIds -> Sizes \cup {Nothing}]
  BY <1>1 DEF IInv, TypeOK
<1>. QED BY <1>1, <1>3, <1>4, <1>5, SweepMoves

LEMMA SweepStopsStep ==
  ASSUME IInv, NEW s \in Sweepers, SweepStops(s)
  PROVE  IInv'
BY IdleSweepOK, SweepQuiet DEF SweepStops, bucket, IInv, TypeOK

-----------------------------------------------------------------------------
(* The invariant. *)

LEMMA InvInit == Init => IInv
<1>. SUFFICES ASSUME Init PROVE IInv
  OBVIOUS
<1>1. TypeOK
  BY IdleReqOK, IdleSweepOK, AttachmentsAssumption DEF Init, TypeOK
<1>2. ProcessesOK
  BY IdleReqOK, IdleSweepOK DEF Init, ProcessesOK
<1>. QED BY <1>1, <1>2 DEF Init, IInv, ReadyWithinCap, BodyRefsUploaded

LEMMA InvStep == IInv /\ [Next]_vars => IInv'
<1>. SUFFICES ASSUME IInv, [Next]_vars PROVE IInv'
  OBVIOUS
<1>1. ASSUME NEW w \in Workers, Receive(w) \/ Serve(w) \/ Fail(w)
      PROVE  IInv'
  BY <1>1, ReceiveStep, LoadStep, CreateAttachmentStep, PresignPutStep,
     LoadAttachmentStep, StatStep, DiscardOversizeStep, MarkAttachmentReadyStep,
     DeleteAttachmentStep, DeleteObjectStep, CheckReferenceStep,
     UpdateBodyStep, FailStep, RespondStep DEF Serve
<1>2. ASSUME NEW a \in AttIds, Put(a) \/ Pass(a)
      PROVE  IInv'
  BY <1>2, PutStep, PassStep
<1>3. ASSUME NEW s \in Sweepers, Sweep(s) \/ SweepStops(s)
      PROVE  IInv'
  BY <1>3, ListStaleUploadsStep, SweepObjectStep, SweepRowStep,
     SweepStopsStep DEF Sweep
<1>4. CASE UNCHANGED vars
  BY <1>4 DEF vars, IInv, TypeOK, ReadyWithinCap, BodyRefsUploaded, ProcessesOK
<1>. QED BY <1>1, <1>2, <1>3, <1>4 DEF Next

\* The inductive invariant holds in every reachable state.
THEOREM Invariance == Spec => []IInv
BY InvInit, InvStep, PTL DEF Spec

\* Every reachable state is well typed, however many uploads and sweeps.
THEOREM TypeCorrect == Spec => []TypeOK
<1>1. IInv => TypeOK
  BY DEF IInv
<1>. QED BY <1>1, Invariance, PTL

\* A ready attachment is never empty and never over the cap.
THEOREM ReadyIsWithinCap == Spec => []ReadyWithinCap
<1>1. IInv => ReadyWithinCap
  BY DEF IInv
<1>. QED BY <1>1, Invariance, PTL

\* The body refers only to uploads that were completed.
THEOREM BodyRefersToUploads == Spec => []BodyRefsUploaded
<1>1. IInv => BodyRefsUploaded
  BY DEF IInv
<1>. QED BY <1>1, Invariance, PTL

-----------------------------------------------------------------------------
(* What a step may do to a row, an object and the body, and whose it is. *)

Completes(a) ==
  \E w \in Workers : /\ req[w].pc = "markReady" /\ req'[w].pc = "reply"
                     /\ req[w].att = a
Collects(a) ==
  \E s \in Sweepers : /\ sweep[s].pc = "row" /\ sweep'[s].pc # "row"
                      /\ sweep[s].att = a
Deletes(a) ==
  \E w \in Workers : /\ req[w].pc = "dropRow" /\ req'[w].pc = "dropObject"
                     /\ req[w].att = a /\ a \notin req[w].refs

RowMove(a) ==
  \/ rows'[a] = rows[a] /\ size'[a] = size[a]
  \/ rows[a] = "free" /\ rows'[a] = "pending"
  \/ rows[a] = "pending" /\ rows'[a] = "ready" /\ Completes(a)
  \/ rows'[a] = "gone" /\ size'[a] = size[a] /\ (Collects(a) \/ Deletes(a))

LEMMA RepliesOver ==
  ASSUME IInv, NEW w \in Workers, NEW status \in Statuses, Answer(w, status)
  PROVE  req'[w].pc = "reply"
<1>1. req' = [req EXCEPT ![w] = Replied(req[w], status)] /\ req[w] \in Requests
  BY SMTT(30) DEF Answer, Replied, IInv, TypeOK
<1>. QED BY <1>1, RepliedOK DEF IInv, TypeOK

LEMMA RowsMove ==
  ASSUME IInv, [Next]_vars, NEW a \in AttIds
  PROVE  RowMove(a)
<1>1. CASE UNCHANGED <<rows, size>>
  BY <1>1 DEF RowMove
<1>2. ASSUME NEW w \in Workers, CreateAttachment(w)
      PROVE  RowMove(a)
  <2>1. PICK b \in AttIds, declared \in 1 .. MaxBytes :
          /\ rows[b] = "free"
          /\ rows' = [rows EXCEPT ![b] = "pending"]
          /\ size' = [size EXCEPT ![b] = declared]
    BY <1>2 DEF CreateAttachment
  <2>. QED BY <2>1 DEF RowMove, IInv, TypeOK
<1>3. ASSUME NEW w \in Workers, MarkAttachmentReady(w),
             ~ UNCHANGED <<rows, size>>
      PROVE  RowMove(a)
  <2>1. /\ rows[req[w].att] = "pending" /\ req[w].pc = "markReady"
        /\ rows' = [rows EXCEPT ![req[w].att] = "ready"]
        /\ size' = [size EXCEPT ![req[w].att] = req[w].bytes]
        /\ Answer(w, 200)
    BY <1>3 DEF MarkAttachmentReady
  <2>2. req'[w].pc = "reply"
    BY <2>1, RepliesOver DEF Statuses
  <2>3. Completes(req[w].att)
    BY <2>1, <2>2 DEF Completes
  <2>. QED BY <2>1, <2>3 DEF RowMove, IInv, TypeOK
<1>4. ASSUME NEW w \in Workers, DeleteAttachment(w)
      PROVE  RowMove(a)
  <2>1. /\ req[w].pc = "dropRow" /\ size' = size
        /\ rows' = [rows EXCEPT ![req[w].att] = "gone"]
        /\ req' = [req EXCEPT ![w].pc = "dropObject"]
    BY <1>4 DEF DeleteAttachment, Goto
  <2>2. req[w] \in Requests /\ req[w].att \notin req[w].refs
    BY <2>1 DEF IInv, TypeOK, ProcessesOK, RequestOK
  <2>3. req'[w].pc = "dropObject"
    BY <2>1, <2>2 DEF IInv, TypeOK, Requests
  <2>4. Deletes(req[w].att)
    BY <2>1, <2>2, <2>3 DEF Deletes
  <2>. QED BY <2>1, <2>4 DEF RowMove, IInv, TypeOK
<1>5. ASSUME NEW s \in Sweepers, SweepRow(s), ~ UNCHANGED <<rows, size>>
      PROVE  RowMove(a)
  <2>1. /\ sweep[s].pc = "row" /\ size' = size
        /\ rows' = [rows EXCEPT ![sweep[s].att] = "gone"]
        /\ sweep' = [sweep EXCEPT ![s] = After(s, sweep[s].att)]
    BY <1>5 DEF SweepRow
  <2>2. sweep'[s].pc # "row"
    BY <2>1, AfterOK DEF IInv, TypeOK
  <2>3. Collects(sweep[s].att)
    BY <2>1, <2>2 DEF Collects
  <2>. QED BY <2>1, <2>3 DEF RowMove, IInv, TypeOK
<1>. QED
  BY <1>1, <1>2, <1>3, <1>4, <1>5, ZenonT(40)
     DEF Next, Serve, Sweep, vars, db, Receive, Load, PresignPut, Put, Pass,
         LoadAttachment, Stat, DiscardOversize, DeleteObject, CheckReference,
         UpdateBody, Fail, Respond, ListStaleUploads, SweepObject, SweepStops

\* A verified size is not rewritten, nor its attachment taken back.
THEOREM VerifiedSizesStay == Spec => VerifiedSizeStays
<1>1. IInv /\ [Next]_vars =>
        [\A a \in AttIds :
           rows[a] = "ready" => /\ rows'[a] \in {"ready", "gone"}
                                /\ size'[a] = size[a]]_vars
  BY RowsMove DEF RowMove
<1>. QED BY <1>1, Invariance, PTL DEF Spec, VerifiedSizeStays

Saves(w) ==
  /\ req[w].pc = "check" /\ req'[w].pc = "reply"
  /\ req[w].todo = {} /\ body' = req[w].refs

\* A body saved refers to what was ready when it was checked.
LEMMA BodyMoves ==
  ASSUME IInv, [Next]_vars, body' # body
  PROVE  /\ UNCHANGED rows
         /\ \E w \in Workers :
              Saves(w) /\ \A a \in req[w].refs : rows[a] \in {"ready", "gone"}
<1>1. PICK w \in Workers : UpdateBody(w)
  BY ZenonT(40) DEF Next, Serve, Sweep, vars, db, Receive, Load, CreateAttachment,
         PresignPut, Put, Pass, LoadAttachment, Stat, DiscardOversize,
         MarkAttachmentReady, DeleteAttachment, DeleteObject, CheckReference,
         Fail, Respond, ListStaleUploads, SweepObject, SweepRow, SweepStops
<1>2. /\ req[w].pc = "check" /\ req[w].todo = {} /\ body' = req[w].refs
      /\ Answer(w, 200) /\ UNCHANGED rows
  BY <1>1 DEF UpdateBody
<1>3. req'[w].pc = "reply"
  BY <1>2, RepliesOver DEF Statuses
<1>4. \A a \in req[w].refs : rows[a] \in {"ready", "gone"}
  BY <1>2 DEF IInv, ProcessesOK, RequestOK
<1>. QED BY <1>2, <1>3, <1>4 DEF Saves

\* A reference goes dead, or is saved dead, only by a race.
THEOREM DeadReferencesAreRaces == Spec => DanglingOnlyByRace
<1>1. IInv /\ [Next]_vars =>
        [\A a \in AttIds :
           a \in body' /\ rows'[a] # "ready" /\ ~ (a \in body /\ rows[a] # "ready") =>
             \/ \E s \in Sweepers : /\ sweep[s].pc = "row" /\ sweep'[s].pc # "row"
                                    /\ sweep[s].att = a
             \/ \E w \in Workers :
                  \/ /\ req[w].pc = "dropRow" /\ req'[w].pc = "dropObject"
                     /\ req[w].att = a /\ a \notin req[w].refs
                  \/ /\ req[w].pc = "check" /\ req'[w].pc = "reply"
                     /\ a \in req[w].refs /\ req[w].todo = {}
                     /\ rows[a] = "gone"]_vars
  <2>. SUFFICES ASSUME IInv, [Next]_vars, NEW a \in AttIds,
                       a \in body', rows'[a] # "ready",
                       ~ (a \in body /\ rows[a] # "ready")
                PROVE  \/ Collects(a) \/ Deletes(a)
                       \/ \E w \in Workers :
                            /\ req[w].pc = "check" /\ req'[w].pc = "reply"
                            /\ a \in req[w].refs /\ req[w].todo = {}
                            /\ rows[a] = "gone"
    BY DEF Collects, Deletes
  <2>1. CASE a \in body
    BY <2>1, RowsMove DEF RowMove
  <2>2. CASE a \notin body
    BY <2>2, BodyMoves DEF Saves
  <2>. QED BY <2>1, <2>2
<1>. QED BY <1>1, Invariance, PTL DEF Spec, DanglingOnlyByRace

CollectsObject(a) ==
  \E s \in Sweepers : /\ sweep[s].pc = "object" /\ sweep'[s].pc = "row"
                      /\ sweep'[s].att = a

Discards(a) ==
  \E w \in Workers : /\ req[w].pc = "discard" /\ req'[w].pc = "reply"
                     /\ req[w].att = a

\* A deleter's object belongs to a row that is gone for good.
LEMMA ObjectsMove ==
  ASSUME IInv, [Next]_vars, NEW a \in AttIds,
         object'[a] = Nothing, object[a] # Nothing
  PROVE  CollectsObject(a) \/ Discards(a) \/ rows'[a] = "gone"
<1>1. ASSUME NEW b \in Sizes, NEW c \in AttIds,
             object' = [object EXCEPT ![c] = b]
      PROVE  FALSE
  BY <1>1, AttachmentsAssumption DEF IInv, TypeOK
<1>2. ASSUME NEW w \in Workers, DiscardOversize(w)
      PROVE  Discards(a)
  <2>1. req[w].pc = "discard" /\ req[w].att = a /\ Answer(w, 413)
    BY <1>2 DEF DiscardOversize, IInv, TypeOK
  <2>2. req'[w].pc = "reply"
    BY <2>1, RepliesOver DEF Statuses
  <2>. QED BY <2>1, <2>2 DEF Discards
<1>3. ASSUME NEW w \in Workers, DeleteObject(w)
      PROVE  rows'[a] = "gone"
  <2>1. req[w].pc = "dropObject" /\ req[w].att = a /\ rows' = rows
    BY <1>3 DEF DeleteObject, db, IInv, TypeOK
  <2>. QED BY <2>1 DEF IInv, ProcessesOK, RequestOK
<1>4. ASSUME NEW s \in Sweepers, SweepObject(s)
      PROVE  CollectsObject(a)
  <2>1. PICK b \in sweep[s].stale :
          /\ object' = [object EXCEPT ![b] = Nothing]
          /\ sweep' = [sweep EXCEPT ![s].pc = "row", ![s].att = b]
    BY <1>4 DEF SweepObject
  <2>2. b = a /\ sweep[s] \in Sweeps /\ sweep[s].pc = "object"
    BY <1>4, <2>1 DEF SweepObject, IInv, TypeOK
  <2>3. sweep'[s].pc = "row" /\ sweep'[s].att = a
    BY <2>1, <2>2 DEF IInv, TypeOK, Sweeps
  <2>. QED BY <2>2, <2>3 DEF CollectsObject
<1>5. object' # object
  OBVIOUS
<1>. QED
  BY <1>1, <1>2, <1>3, <1>4, <1>5, ZenonT(40)
     DEF Next, Serve, Sweep, vars, db, bucket, Receive, Load, CreateAttachment,
         PresignPut, Put, Pass, LoadAttachment, Stat, MarkAttachmentReady,
         DeleteAttachment, CheckReference, UpdateBody, Fail, Respond,
         ListStaleUploads, SweepRow, SweepStops

\* A ready row loses its object, or is completed without one, only by a race.
THEOREM LostObjectsAreRaces == Spec => ObjectLostOnlyByRace
<1>1. IInv /\ [Next]_vars =>
        [\A a \in AttIds :
           /\ rows'[a] = "ready" /\ object'[a] = Nothing
           /\ ~ (rows[a] = "ready" /\ object[a] = Nothing)
           => \/ \E s \in Sweepers : /\ sweep[s].pc = "object" /\ sweep'[s].pc = "row"
                                      /\ sweep'[s].att = a
              \/ \E w \in Workers : /\ req[w].att = a /\ req'[w].pc = "reply"
                                    /\ req[w].pc \in {"discard", "markReady"}]_vars
  <2>. SUFFICES ASSUME IInv, [Next]_vars, NEW a \in AttIds,
                       rows'[a] = "ready", object'[a] = Nothing,
                       ~ (rows[a] = "ready" /\ object[a] = Nothing)
                PROVE  CollectsObject(a) \/ Discards(a) \/ Completes(a)
    BY DEF CollectsObject, Discards, Completes
  <2>1. CASE rows[a] # "ready"
    BY <2>1, RowsMove DEF RowMove
  <2>2. CASE object[a] # Nothing
    BY <2>2, ObjectsMove
  <2>. QED BY <2>1, <2>2
<1>. QED BY <1>1, Invariance, PTL DEF Spec, ObjectLostOnlyByRace
=============================================================================
