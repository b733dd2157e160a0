---------------------------- MODULE Attachments ----------------------------
(***************************************************************************)
(* Attachments of one note: rows in Postgres, objects in the bucket, and   *)
(* references to them in the note's body.  The handlers of                 *)
(* internal/notes/attachments.go, the part of the note update that checks  *)
(* a body's references, and cmd/sweep.                                     *)
(*                                                                         *)
(* A client uploads straight to the bucket with a presigned URL, which     *)
(* signs no length and stays valid for UploadTTL whatever happens to the   *)
(* row.  Nothing is atomic across the two stores, and each action is one   *)
(* statement or one bucket call.  Whether the caller may act at all, and   *)
(* whether an update's If-Match still matches, is module Notes's business: *)
(* here a request may be refused at those points for no further reason.    *)
(***************************************************************************)
EXTENDS Integers, FiniteSets

CONSTANTS MaxAtt,     \* bound: attachments ever created on the note
          MaxBytes,   \* Storage.MaxBytes
          Sizes,      \* what clients upload; may exceed MaxBytes or be 0
          Batch,      \* -batch: rows a sweep takes
          Workers,    \* request goroutines
          Sweepers,   \* processes running cmd/sweep
          Nothing

ASSUME AttachmentsAssumption ==
  /\ MaxAtt \in Nat /\ MaxBytes \in Nat /\ Batch \in Nat \ {0}
  /\ Sizes \subseteq Nat
  /\ Nothing \notin Nat

AttIds == 1 .. MaxAtt   \* in the order of created_at

VARIABLES
  body,     \* referencedIDs of the note's saved body
  rows,     \* attachment -> its row's status, "free" before, "gone" after
  size,     \* attachment -> size_bytes
  object,   \* attachment -> size of the object under its key, or Nothing
  age,      \* attachment -> age of its row; the upload URL works while "fresh"
  req,      \* worker -> the request it serves
  sweep     \* sweeper -> what is left of its run

vars == <<body, rows, size, object, age, req, sweep>>
db     == <<body, rows, size>>
bucket == <<object, age>>

Ops == {"create", "complete", "delete", "update"}

\* `refs` is the body a delete loaded, or the body an update is to save;
\* `todo` the references of the latter still unchecked; `bytes` what Stat said.
IdleReq == [pc |-> "idle", op |-> "none", att |-> Nothing, refs |-> {},
            todo |-> {}, bytes |-> 0, status |-> 0]

IdleSweep == [pc |-> "idle", stale |-> {}, att |-> Nothing]

Init ==
  /\ body = {}
  /\ rows = [a \in AttIds |-> "free"]
  /\ size = [a \in AttIds |-> 0]
  /\ object = [a \in AttIds |-> Nothing]
  /\ age = [a \in AttIds |-> "unsigned"]
  /\ req = [w \in Workers |-> IdleReq]
  /\ sweep = [s \in Sweepers |-> IdleSweep]

HasRow(a) == rows[a] \in {"pending", "ready"}

-----------------------------------------------------------------------------
Goto(w, pc) == req' = [req EXCEPT ![w].pc = pc]

Answer(w, status) ==
  req' = [req EXCEPT ![w] = [IdleReq EXCEPT !.pc = "reply", !.op = req[w].op,
                               !.att = req[w].att, !.status = status]]

\* An id for every attachment being created; bounds the model.
Room ==
  Cardinality({w \in Workers : req[w].op = "create" /\ req[w].att = Nothing})
    < Cardinality({a \in AttIds : rows[a] = "free"})

Receive(w) ==
  /\ req[w].pc = "idle"
  /\ \E op \in Ops :
       /\ op = "create" => Room
       /\ \E a \in IF op \in {"complete", "delete"} THEN AttIds ELSE {Nothing},
             refs \in IF op = "update" THEN SUBSET AttIds ELSE {{}} :
            req' = [req EXCEPT ![w] =
                      [IdleReq EXCEPT !.pc = "load", !.op = op, !.att = a,
                                      !.refs = refs, !.todo = refs]]
  /\ UNCHANGED <<db, bucket, sweep>>

\* load(), and the request's own validation.
Load(w) ==
  /\ req[w].pc = "load"
  /\ \/ Answer(w, 404)
     \/ req[w].op = "create"   /\ Goto(w, "insert")
     \/ req[w].op = "complete" /\ Goto(w, "find")
     \/ req[w].op = "update"   /\ Goto(w, "check")
     \/ /\ req[w].op = "delete"
        /\ req' = [req EXCEPT ![w].pc = "find", ![w].refs = body]
  /\ UNCHANGED <<db, bucket, sweep>>

-----------------------------------------------------------------------------
(* createAttachment: a pending row, then a URL. *)

\* Mutant: the declared size is not validated.
CreateAttachmentAnySize(w) ==
  /\ req[w].pc = "insert"
  /\ \E a \in AttIds, declared \in Sizes \ {0} :
       /\ rows[a] = "free" /\ \A b \in 1 .. a - 1 : rows[b] # "free"
       /\ rows' = [rows EXCEPT ![a] = "pending"]
       /\ size' = [size EXCEPT ![a] = declared]
       /\ req' = [req EXCEPT ![w].pc = "presign", ![w].att = a]
  /\ UNCHANGED <<body, bucket, sweep>>

CreateAttachment(w) ==
  /\ req[w].pc = "insert"
  /\ \E a \in AttIds, declared \in 1 .. MaxBytes :
       /\ rows[a] = "free" /\ \A b \in 1 .. a - 1 : rows[b] # "free"
       /\ rows' = [rows EXCEPT ![a] = "pending"]
       /\ size' = [size EXCEPT ![a] = declared]
       /\ req' = [req EXCEPT ![w].pc = "presign", ![w].att = a]
  /\ UNCHANGED <<body, bucket, sweep>>

\* If signing fails the row stays behind, pending, with no URL to complete it.
PresignPut(w) ==
  /\ req[w].pc = "presign"
  /\ \/ /\ age' = [age EXCEPT ![req[w].att] = "fresh"]
        /\ Answer(w, 201)
     \/ /\ Answer(w, 500)
        /\ UNCHANGED age
  /\ UNCHANGED <<db, object, sweep>>

\* The client, any number of times while its URL is valid.
Put(a) ==
  /\ rows[a] # "free" /\ age[a] = "fresh"
  /\ \E bytes \in Sizes : object' = [object EXCEPT ![a] = bytes]
  /\ UNCHANGED <<db, age, req, sweep>>

\* UploadTTL (15m) passes, then the sweep's cutoff (24h); both are far longer
\* than a request may take (15s).
Pass(a) ==
  /\ rows[a] # "free"
  /\ \A w \in Workers : ~ (req[w].pc = "presign" /\ req[w].att = a)
  /\ \/ age[a] \in {"unsigned", "fresh"}
        /\ age' = [age EXCEPT ![a] = "expired"]
     \/ age[a] = "expired" /\ age' = [age EXCEPT ![a] = "stale"]
  /\ UNCHANGED <<db, object, req, sweep>>

-----------------------------------------------------------------------------
(* loadAttachment, completeAttachment and deleteAttachment. *)

\* Mutant: no check of the body's references before a delete.
LoadAttachmentUnreferenced(w) ==
  LET a == req[w].att
  IN  /\ req[w].pc = "find"
      /\ \/ ~ HasRow(a) /\ Answer(w, 404)
         \/ /\ HasRow(a) /\ req[w].op = "complete"
            /\ IF rows[a] = "ready" THEN Answer(w, 200) ELSE Goto(w, "stat")
         \/ HasRow(a) /\ req[w].op = "delete" /\ Goto(w, "dropRow")
      /\ UNCHANGED <<db, bucket, sweep>>

LoadAttachment(w) ==
  LET a == req[w].att
  IN  /\ req[w].pc = "find"
      /\ \/ ~ HasRow(a) /\ Answer(w, 404)
         \/ /\ HasRow(a) /\ req[w].op = "complete"
            /\ IF rows[a] = "ready" THEN Answer(w, 200) ELSE Goto(w, "stat")
         \/ /\ HasRow(a) /\ req[w].op = "delete"
            /\ IF a \in req[w].refs THEN Answer(w, 409) ELSE Goto(w, "dropRow")
      /\ UNCHANGED <<db, bucket, sweep>>

\* Mutant: the size is not compared with the cap.
StatUncapped(w) ==
  LET a == req[w].att
  IN  /\ req[w].pc = "stat"
      /\ \/ object[a] = Nothing /\ Answer(w, 409)
         \/ /\ object[a] # Nothing
            /\ req' = [req EXCEPT ![w].pc = "markReady", ![w].bytes = object[a]]
      /\ UNCHANGED <<db, bucket, sweep>>

Stat(w) ==
  LET a == req[w].att
  IN  /\ req[w].pc = "stat"
      /\ \/ object[a] = Nothing /\ Answer(w, 409)
         \/ /\ object[a] # Nothing /\ object[a] > MaxBytes
            /\ Goto(w, "discard")
         \/ /\ object[a] # Nothing /\ object[a] <= MaxBytes
            /\ req' = [req EXCEPT ![w].pc = "markReady", ![w].bytes = object[a]]
      /\ UNCHANGED <<db, bucket, sweep>>

\* The object is deleted, or the bucket refuses; the error is ignored.
DiscardOversize(w) ==
  /\ req[w].pc = "discard"
  /\ \/ object' = [object EXCEPT ![req[w].att] = Nothing]
     \/ UNCHANGED object
  /\ Answer(w, 413)
  /\ UNCHANGED <<db, age, sweep>>

\* Mutant: no "status = 'pending'" in the where clause.
MarkAttachmentReadyAgain(w) ==
  LET a == req[w].att
  IN  /\ req[w].pc = "markReady"
      /\ \/ /\ HasRow(a) /\ req[w].bytes > 0
            /\ rows' = [rows EXCEPT ![a] = "ready"]
            /\ size' = [size EXCEPT ![a] = req[w].bytes]
            /\ Answer(w, 200)
         \/ /\ ~ HasRow(a) \/ req[w].bytes = 0
            /\ Answer(w, 500)
            /\ UNCHANGED <<rows, size>>
      /\ UNCHANGED <<body, bucket, sweep>>

\* size_bytes > 0 is a check constraint, and its violation nobody's Problem.
MarkAttachmentReady(w) ==
  LET a == req[w].att
  IN  /\ req[w].pc = "markReady"
      /\ \/ /\ rows[a] = "pending" /\ req[w].bytes > 0
            /\ rows' = [rows EXCEPT ![a] = "ready"]
            /\ size' = [size EXCEPT ![a] = req[w].bytes]
            /\ Answer(w, 200)
         \/ /\ rows[a] # "pending" \/ req[w].bytes = 0
            /\ Answer(w, 500)
            /\ UNCHANGED <<rows, size>>
      /\ UNCHANGED <<body, bucket, sweep>>

\* Mutant: the statement matches no row, and the count is ignored.
DeleteAttachmentNoMatch(w) ==
  /\ req[w].pc = "dropRow"
  /\ Goto(w, "dropObject")
  /\ UNCHANGED <<db, bucket, sweep>>

DeleteAttachment(w) ==
  /\ req[w].pc = "dropRow"
  /\ rows' = [rows EXCEPT ![req[w].att] = "gone"]
  /\ Goto(w, "dropObject")
  /\ UNCHANGED <<body, size, bucket, sweep>>

\* Row first, object second; a failure is only logged.
DeleteObject(w) ==
  /\ req[w].pc = "dropObject"
  /\ \/ object' = [object EXCEPT ![req[w].att] = Nothing]
     \/ UNCHANGED object
  /\ Answer(w, 204)
  /\ UNCHANGED <<db, age, sweep>>

-----------------------------------------------------------------------------
(* update: validateBodyReferences, one query per reference, then the write. *)

\* Mutant: a reference need only exist, ready or not.
CheckReferenceExists(w) ==
  /\ req[w].pc = "check"
  /\ \E a \in req[w].todo :
       IF HasRow(a)
         THEN req' = [req EXCEPT ![w].todo = @ \ {a}]
         ELSE Answer(w, 400)
  /\ UNCHANGED <<db, bucket, sweep>>

CheckReference(w) ==
  /\ req[w].pc = "check"
  /\ \E a \in req[w].todo :
       IF rows[a] = "ready"
         THEN req' = [req EXCEPT ![w].todo = @ \ {a}]
         ELSE Answer(w, 400)
  /\ UNCHANGED <<db, bucket, sweep>>

UpdateBody(w) ==
  /\ req[w].pc = "check" /\ req[w].todo = {}
  /\ \/ body' = req[w].refs /\ Answer(w, 200)
     \/ Answer(w, 409) /\ UNCHANGED body
  /\ UNCHANGED <<rows, size, bucket, sweep>>

\* A statement or a Stat fails, the deadline passes or the client leaves.  503
\* stands for whatever WriteProblem answers to an error that is no Problem.  A row
\* whose commit the handler does not hear of is as after the next step's failure.
Fail(w) ==
  /\ req[w].pc \notin {"idle", "reply", "discard", "dropObject"}
  /\ Answer(w, 503)
  /\ UNCHANGED <<db, bucket, sweep>>

Respond(w) ==
  /\ req[w].pc = "reply"
  /\ req' = [req EXCEPT ![w] = IdleReq]
  /\ UNCHANGED <<db, bucket, sweep>>

-----------------------------------------------------------------------------
(* cmd/sweep. *)

Stale == {a \in AttIds : rows[a] = "pending" /\ age[a] = "stale"}

\* order by created_at limit Batch.
Oldest(S) == {a \in S : Cardinality({b \in S : b < a}) < Batch}

ListStaleUploads(s) ==
  /\ sweep[s].pc = "idle" /\ Stale # {}
  /\ sweep' = [sweep EXCEPT ![s] = [IdleSweep EXCEPT !.pc = "object",
                                      !.stale = Oldest(Stale)]]
  /\ UNCHANGED <<db, bucket, req>>

\* On to the next listed row, or the end of the run.
After(s, a) ==
  IF sweep[s].stale = {a} THEN IdleSweep
  ELSE [IdleSweep EXCEPT !.pc = "object", !.stale = sweep[s].stale \ {a}]

\* Mutant: an object that is not there counts as a failure.
SweepObjectMustExist(s) ==
  /\ sweep[s].pc = "object"
  /\ \E a \in sweep[s].stale :
       /\ \A b \in sweep[s].stale : a <= b
       /\ \/ /\ object[a] # Nothing
             /\ object' = [object EXCEPT ![a] = Nothing]
             /\ sweep' = [sweep EXCEPT ![s].pc = "row", ![s].att = a]
          \/ /\ UNCHANGED object
             /\ sweep' = [sweep EXCEPT ![s] = After(s, a)]
  /\ UNCHANGED <<db, age, req>>

\* Object first: a failure leaves the row for the next run.
SweepObject(s) ==
  /\ sweep[s].pc = "object"
  /\ \E a \in sweep[s].stale :
       /\ \A b \in sweep[s].stale : a <= b
       /\ \/ /\ object' = [object EXCEPT ![a] = Nothing]
             /\ sweep' = [sweep EXCEPT ![s].pc = "row", ![s].att = a]
          \/ /\ UNCHANGED object
             /\ sweep' = [sweep EXCEPT ![s] = After(s, a)]
  /\ UNCHANGED <<db, age, req>>

\* DeleteAttachmentByID, whatever the row has become since it was listed; a
\* failure leaves it for the next run.
SweepRow(s) ==
  /\ sweep[s].pc = "row"
  /\ \/ rows' = [rows EXCEPT ![sweep[s].att] = "gone"]
     \/ UNCHANGED rows
  /\ sweep' = [sweep EXCEPT ![s] = After(s, sweep[s].att)]
  /\ UNCHANGED <<body, size, bucket, req>>

\* The process is killed, or runs out of its ten minutes.
SweepStops(s) ==
  /\ sweep[s].pc # "idle"
  /\ sweep' = [sweep EXCEPT ![s] = IdleSweep]
  /\ UNCHANGED <<db, bucket, req>>

-----------------------------------------------------------------------------
Serve(w) ==
  \/ Load(w) \/ CreateAttachment(w) \/ PresignPut(w) \/ LoadAttachment(w)
  \/ Stat(w) \/ DiscardOversize(w) \/ MarkAttachmentReady(w)
  \/ DeleteAttachment(w) \/ DeleteObject(w)
  \/ CheckReference(w) \/ UpdateBody(w) \/ Respond(w)

Sweep(s) == ListStaleUploads(s) \/ SweepObject(s) \/ SweepRow(s)

Next ==
  \/ \E w \in Workers : Receive(w) \/ Serve(w) \/ Fail(w)
  \/ \E a \in AttIds : Put(a) \/ Pass(a)
  \/ \E s \in Sweepers : Sweep(s) \/ SweepStops(s)

Spec == Init /\ [][Next]_vars

\* The two halves of sweeping a row, done.
SweepObjectDone(s) == SweepObject(s) /\ sweep'[s].pc = "row"
SweepRowDone(s)    == SweepRow(s) /\ rows'[sweep[s].att] = "gone"

\* cmd/sweep is run again and again (cron), and neither the bucket nor the
\* database fails it for ever.
FairSpec ==
  /\ Spec
  /\ \A s \in Sweepers : /\ WF_vars(ListStaleUploads(s))
                         /\ SF_vars(SweepObjectDone(s))
                         /\ SF_vars(SweepRowDone(s))

-----------------------------------------------------------------------------
(* Properties. *)

Pcs == {"idle", "load", "insert", "presign", "find", "stat", "discard",
        "markReady", "dropRow", "dropObject", "check", "reply"}

Statuses == {0, 200, 201, 204, 400, 404, 409, 413, 500, 503}

Requests ==
  [pc : Pcs, op : Ops \cup {"none"}, att : AttIds \cup {Nothing},
   refs : SUBSET AttIds, todo : SUBSET AttIds, bytes : Sizes \cup {0},
   status : Statuses]

Sweeps == [pc : {"idle", "object", "row"}, stale : SUBSET AttIds,
           att : AttIds \cup {Nothing}]

\* Types of the rows, the objects and the processes.
TypeOK ==
  /\ body \subseteq AttIds
  /\ rows \in [AttIds -> {"free", "pending", "ready", "gone"}]
  /\ size \in [AttIds -> 0 .. MaxBytes]
  /\ object \in [AttIds -> Sizes \cup {Nothing}]
  /\ age \in [AttIds -> {"unsigned", "fresh", "expired", "stale"}]
  /\ req \in [Workers -> Requests]
  /\ sweep \in [Sweepers -> Sweeps]

\* attachments.sql on MarkAttachmentReady: a second completion cannot rewrite a
\* verified size, nor take a ready attachment back, however late its Stat was.
VerifiedSizeStays ==
  [][\A a \in AttIds :
       rows[a] = "ready" => /\ rows'[a] \in {"ready", "gone"}
                            /\ size'[a] = size[a]]_vars

\* What completeAttachment accepts is never empty and never over the cap, with
\* uploads replacing the object at any moment between its calls.
ReadyWithinCap ==
  \A a \in AttIds : rows[a] = "ready" => size[a] \in 1 .. MaxBytes

\* The body never points at an upload that was not completed, nor at an id never
\* issued, however completions, updates, deletes and sweeps interleave; at worst
\* it points at an attachment that is gone.
BodyRefsUploaded == \A a \in body : rows[a] \in {"ready", "gone"}

\* A reference goes dead, or is saved dead, only by a race: a sweep reached its
\* row, the body was replaced after a delete had looked for references in it, or
\* an attachment went away after an update had checked it, and all the others the
\* new body names.
DanglingOnlyByRace ==
  [][\A a \in AttIds :
       a \in body' /\ rows'[a] # "ready" /\ ~ (a \in body /\ rows[a] # "ready") =>
         \/ \E s \in Sweepers : /\ sweep[s].pc = "row" /\ sweep'[s].pc # "row"
                                /\ sweep[s].att = a
         \/ \E w \in Workers :
              \/ /\ req[w].pc = "dropRow" /\ req'[w].pc = "dropObject"
                 /\ req[w].att = a /\ a \notin req[w].refs
              \/ /\ req[w].pc = "check" /\ req'[w].pc = "reply"
                 /\ a \in req[w].refs /\ req[w].todo = {}
                 /\ rows[a] = "gone"]_vars

\* "A row pointing at nothing" (attachments.go, line 247) is not left by a deletion,
\* whichever of its halves fails.  A ready row is without its object only by a
\* race: a sweep that listed the row before it was completed, a second completion
\* that found a later upload over the cap and discards it, or a completion whose
\* Stat came before one of these.
ObjectLostOnlyByRace ==
  [][\A a \in AttIds :
       /\ rows'[a] = "ready" /\ object'[a] = Nothing
       /\ ~ (rows[a] = "ready" /\ object[a] = Nothing)
       => \/ \E s \in Sweepers : /\ sweep[s].pc = "object" /\ sweep'[s].pc = "row"
                                  /\ sweep'[s].att = a
          \/ \E w \in Workers : /\ req[w].att = a /\ req'[w].pc = "reply"
                                /\ req[w].pc \in {"discard", "markReady"}]_vars

\* Abandoned uploads are cleaned up: an upload left pending past the cutoff is,
\* some run later, completed or gone, the oldest first and Batch at a time.
AbandonedUploadsSwept ==
  \A a \in AttIds :
    a \in Stale ~> a \notin Stale

-----------------------------------------------------------------------------
(* Statements of the repository the code does not keep (violation runs). *)

\* cmd/sweep: what it collects is rows still pending.
SweepsOnlyPending ==
  [][\A a \in AttIds, s \in Sweepers :
       sweep[s].pc = "row" /\ sweep[s].att = a /\ sweep'[s].pc # "row"
         /\ rows'[a] = "gone" => rows[a] \in {"pending", "gone"}]_vars
=============================================================================
