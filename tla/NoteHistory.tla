---------------------------- MODULE NoteHistory ----------------------------
(***************************************************************************)
(* What the notes handlers promise their clients, with no table, no role   *)
(* and no statement in it: a note is an append-only history of states, an  *)
(* entity tag is an index into it, and a request either takes effect once, *)
(* at one instant between its call and its reply, or not at all.           *)
(*                                                                         *)
(*  - an update extends the history of exactly the state its If-Match      *)
(*    names, and only while that state is still the last one;              *)
(*  - "ok" is answered only to a request that took effect (a delete may    *)
(*    also find its work done), "refused" only to one that did not, and    *)
(*    "unknown" (the answer to an error, a 499 or 5xx) says neither;       *)
(*  - a state shown in a reply was the last state, and not deleted, at     *)
(*    that same instant.                                                   *)
(***************************************************************************)
EXTENDS NoteContent, Integers, Sequences

CONSTANTS NoteIds, Workers,
          Versions,   \* what an If-Match header can name; 0 stands for none
          Nothing     \* a reply without a body

VARIABLES history,    \* note -> sequence of states; <<>> until it is created
          call        \* worker -> the call it is serving

vars == <<history, call>>

Outcomes == {"none", "ok", "refused", "unknown"}

IdleCall == [phase |-> "idle", op |-> "none", note |-> Nothing, basis |-> 0,
             patch |-> NoPatch, outcome |-> "none", shown |-> Nothing]

Init ==
  /\ history = [n \in NoteIds |-> <<>>]
  /\ call = [w \in Workers |-> IdleCall]

Last(n) == history[n][Len(history[n])]

Live(n) == /\ history[n] # <<>>
           /\ ~ Last(n).deleted

\* A state as a reply shows it: under its entity tag.
Shown(log) == [version |-> Len(log),
               state   |-> [title |-> log[Len(log)].title,
                            body  |-> log[Len(log)].body]]

\* A call as it comes in.
Calls == [phase : {"pending"}, op : {"create", "read", "update", "delete", "restore"},
          note : NoteIds, basis : Versions, patch : Patches,
          outcome : {"none"}, shown : {Nothing}]

Call(w) ==
  /\ call[w].phase = "idle"
  /\ call'[w] \in Calls
  /\ call' = [call EXCEPT ![w] = call'[w]]
  /\ UNCHANGED history

\* A call once it is replied to.
Replied(c, outcome, shown) ==
  [phase |-> "replied", op |-> c.op, note |-> c.note, basis |-> c.basis,
   patch |-> c.patch, outcome |-> outcome, shown |-> shown]

Reply(w, outcome, shown) ==
  call' = [call EXCEPT ![w] = Replied(@, outcome, shown)]

\* The state a call adds to its note's history, where it may add one.
Extends(c, state) ==
  \/ /\ c.op = "create"
     /\ history[c.note] = <<>>
     /\ state = [title |-> c.patch.title, body |-> c.patch.body,
                 deleted |-> FALSE]
  \/ /\ c.op = "update"
     /\ Live(c.note)
     /\ c.basis = Len(history[c.note])
     /\ state = Apply(Last(c.note), c.patch)
  \/ /\ c.op = "delete"
     /\ Live(c.note)
     /\ state = [Last(c.note) EXCEPT !.deleted = TRUE]
  \/ /\ c.op = "restore"
     /\ history[c.note] # <<>>
     /\ ~ Live(c.note)
     /\ state = [Last(c.note) EXCEPT !.deleted = FALSE]

\* The call takes effect; its reply says so, or is that of an error that came in
\* the way of the result while the statement was committing.
Take(w) ==
  \E state \in States :
    /\ Extends(call[w], state)
    /\ history' = [history EXCEPT ![call[w].note] = Append(@, state)]
    /\ \/ Reply(w, "ok", IF call[w].op = "delete" THEN Nothing
                         ELSE Shown(history'[call[w].note]))
       \/ Reply(w, "unknown", Nothing)

\* A read, or the 409 that hands an updater the current state.
Observe(w) ==
  /\ Live(call[w].note)
  /\ \/ /\ call[w].op = "read"
        /\ Reply(w, "ok", Shown(history[call[w].note]))
     \/ /\ call[w].op = "update"
        /\ Reply(w, "refused", Shown(history[call[w].note]))
  /\ UNCHANGED history

AlreadyDeleted(w) ==
  /\ call[w].op = "delete"
  /\ history[call[w].note] # <<>>
  /\ ~ Live(call[w].note)
  /\ Reply(w, "ok", Nothing)
  /\ UNCHANGED history

Refuse(w) ==
  /\ \/ Reply(w, "refused", Nothing)
     \/ Reply(w, "unknown", Nothing)
  /\ UNCHANGED history

Return(w) ==
  /\ call[w].phase = "replied"
  /\ call' = [call EXCEPT ![w] = IdleCall]
  /\ UNCHANGED history

Step(w) ==
  /\ call'[w].phase # call[w].phase
  /\ \/ Call(w)
     \/ /\ call[w].phase = "pending"
        /\ Take(w) \/ Observe(w) \/ AlreadyDeleted(w) \/ Refuse(w)
     \/ Return(w)

Next == \E w \in Workers : Step(w)

Spec == Init /\ [][Next]_vars
=============================================================================
