------------------------------ MODULE Listing ------------------------------
(***************************************************************************)
(* Listing and search (internal/notes/list.go, internal/store/             *)
(* notes_list.go): one caller walks the pages of a filtered list, by       *)
(* recency or, with a query, by relevance, while notes are created,        *)
(* edited, deleted, restored and shared between any two pages.             *)
(*                                                                         *)
(* A page is one statement and sees one state of the tables.  Nothing is   *)
(* kept on the server between pages: the cursor is the sort key of the     *)
(* last row of the page before, and the client may send it with a filter   *)
(* it was not made for.                                                    *)
(***************************************************************************)
EXTENDS Authz, FiniteSets

CONSTANTS NoteIds,    \* numbers, in the order of the ids
          Caller,
          Owner,      \* note -> its owner; it never changes
          Grants,     \* what the caller may be granted on a note
          Filters,    \* the filters of the walks
          MaxRank,    \* ts_rank of a note for the query, 0 when no match
          MaxLimit,   \* maxLimit
          MaxTime,    \* bound: times are 1 .. MaxTime
          Nothing

\* A filter's owner is a user, or Nothing when it is not given.
AllFilters == [query : BOOLEAN, deleted : BOOLEAN, shared : BOOLEAN,
               team : BOOLEAN, owner : {Owner[n] : n \in NoteIds} \cup
                                       {Caller, Nothing}]

Rows == [updated : 1 .. MaxTime, rank : 0 .. MaxRank, deleted : BOOLEAN]

Cursors == [updated : 1 .. MaxTime, id : NoteIds, rank : 0 .. MaxRank]

\* parseListFilter answers 400 to shared_with_me with owner=me.
ASSUME ListingAssumption ==
  /\ NoteIds \subseteq Nat \ {0} /\ IsFiniteSet(NoteIds)
  /\ {MaxRank, MaxLimit, MaxTime} \subseteq Nat \ {0}
  /\ Grants \subseteq [user : {RoleNone} \cup GrantRoles,
                       team : {RoleNone} \cup GrantRoles]
  /\ Filters \subseteq {f \in AllFilters : ~ (f.shared /\ f.owner = Caller)}
  /\ Nothing \notin {Caller} \cup {Owner[n] : n \in NoteIds} \cup Rows \cup Cursors

VARIABLES
  notes,    \* note -> its row, Nothing before it is created
  grants,   \* note -> the grant rows to the caller and to the team
  member,   \* whether the caller is in that team
  walk      \* the client's walk

vars == <<notes, grants, member, walk>>

NoGrant == [user |-> RoleNone, team |-> RoleNone]

NoFilter == [query |-> FALSE, deleted |-> FALSE, shared |-> FALSE,
             team |-> FALSE, owner |-> Nothing]

\* History variables: `met`, how often the walk returned a note; `still`, the
\* notes not written since it began; `due`, those of them it owes the client,
\* listed for it when it began and neither shared nor unshared away since.
Init ==
  /\ notes = [n \in NoteIds |-> Nothing]
  /\ grants = [n \in NoteIds |-> NoGrant]
  /\ member = FALSE
  /\ walk = [pc |-> "idle", filter |-> NoFilter, cursor |-> Nothing,
             met |-> [n \in NoteIds |-> 0], still |-> {}, due |-> {}]

-----------------------------------------------------------------------------
(* The query. *)

\* The rows of note_shares that reach the caller.
Reaching(n) ==
  {grants[n].user} \cup (IF member THEN {grants[n].team} ELSE {})

\* The authorization predicate: the owner, or some grant.
Authorized(n) == Owner[n] = Caller \/ \E role \in Reaching(n) : role # RoleNone

\* Mutant: deleted notes listed without the restriction to their owner.
DeletedScopeAnyone(n, f) == notes[n].deleted = f.deleted

\* ?deleted=true lists what the caller owns and deleted.
DeletedScope(n, f) ==
  IF f.deleted THEN notes[n].deleted /\ Owner[n] = Caller
               ELSE ~ notes[n].deleted

\* The filters proper: each narrows.  Tags narrow as the query does, without
\* an order of their own, and are not kept apart.
Narrowed(n, f) ==
  /\ f.owner # Nothing => Owner[n] = f.owner
  /\ f.shared => Owner[n] # Caller
  /\ f.team => member /\ grants[n].team # RoleNone
  /\ f.query => notes[n].rank > 0

Matches(n, f) ==
  /\ notes[n] # Nothing
  /\ Authorized(n) /\ DeletedScope(n, f) /\ Narrowed(n, f)

\* The first sort column, newest or most relevant first; ids break ties.
Key(n, f) == IF f.query THEN notes[n].rank ELSE notes[n].updated

Before(m, n, f) ==
  \/ Key(m, f) > Key(n, f)
  \/ Key(m, f) = Key(n, f) /\ m > n

\* Mutant: the row comparison is not strict.
BeyondOrAt(n, c, f) ==
  LET key == IF f.query THEN c.rank ELSE c.updated
  IN  Key(n, f) < key \/ (Key(n, f) = key /\ n <= c.id)

\* The keyset predicate.
Beyond(n, c, f) ==
  LET key == IF f.query THEN c.rank ELSE c.updated
  IN  Key(n, f) < key \/ (Key(n, f) = key /\ n < c.id)

\* rank is 0::real where the page was not ordered by it.
CursorAt(n, f) ==
  [updated |-> notes[n].updated, id |-> n,
   rank |-> IF f.query THEN notes[n].rank ELSE 0]

\* "order by ... limit k".
FirstOf(S, k, f) ==
  {n \in S : Cardinality({m \in S : Before(m, n, f)}) < k}

-----------------------------------------------------------------------------
(* The client. *)

\* What a client may expect: what it could read one by one, narrowed.
Wanted(n, f) ==
  /\ notes[n] # Nothing
  /\ Can(EffectiveRole(Caller, Owner[n], Reaching(n)), "read")
  /\ notes[n].deleted = f.deleted
  /\ f.deleted => Owner[n] = Caller
  /\ Narrowed(n, f)

\* A walk begins without a cursor, or goes on from one of an earlier walk.
Begin ==
  \E f \in Filters, c \in {Nothing, walk.cursor} :
    /\ walk' = [pc |-> "paging", filter |-> f, cursor |-> c,
                met |-> [n \in NoteIds |-> 0], still |-> NoteIds,
                due |-> IF c = Nothing THEN {n \in NoteIds : Wanted(n, f)}
                                       ELSE {}]
    /\ UNCHANGED <<notes, grants, member>>

\* Mutant: the next cursor is taken from the extra row.
NextCursorExtra(S, k, f) ==
  IF Cardinality(S) <= k THEN Nothing
  ELSE CursorAt(CHOOSE n \in FirstOf(S, k + 1, f) :
                  \A m \in FirstOf(S, k + 1, f) : ~ Before(n, m, f), f)

\* The position of the page's last row, when the extra row shows there are more.
NextCursor(S, k, f) ==
  IF Cardinality(S) <= k THEN Nothing
  ELSE CursorAt(CHOOSE n \in FirstOf(S, k, f) :
                  \A m \in FirstOf(S, k, f) : ~ Before(n, m, f), f)

\* The rows a page is taken from.
Left(f, c) ==
  {n \in NoteIds : Matches(n, f) /\ (c # Nothing => Beyond(n, c, f))}

\* ListNotes; every page may ask for a limit of its own, clamped to MaxLimit.
Page ==
  /\ walk.pc = "paging"
  /\ \E k \in 1 .. MaxLimit :
       LET f    == walk.filter
           S    == Left(f, walk.cursor)
           next == NextCursor(S, k, f)
       IN  walk' = [walk EXCEPT
             !.pc = IF next = Nothing THEN "done" ELSE "paging",
             !.cursor = next,
             !.met = [n \in NoteIds |->
                        IF n \in FirstOf(S, k, f) /\ @[n] < 2
                          THEN @[n] + 1 ELSE @[n]]]
  /\ UNCHANGED <<notes, grants, member>>

-----------------------------------------------------------------------------
(* What others do meanwhile. *)

\* The walk still owes what it owed, but for the notes a step touches.
Touch ==
  \E f \in {walk.filter}, same \in {{n \in NoteIds : notes'[n] = notes[n]}} :
    walk' = [walk EXCEPT !.still = @ \cap same,
                         !.due = {n \in @ \cap same : Wanted(n, f)'}]

\* updated_at is now(), the time a statement arrived.  Statements wait for rows,
\* so stamps need not rise in the order of the writes: any time may come next.
Write(n, rank, deleted) ==
  /\ \E t \in 1 .. MaxTime :
       notes' = [notes EXCEPT ![n] = [updated |-> t, rank |-> rank,
                                      deleted |-> deleted]]
  /\ UNCHANGED <<grants, member>>
  /\ Touch

\* Mutant: updated_at without its default.
CreateNoteUnstamped(n) ==
  /\ notes[n] = Nothing
  /\ notes' = [notes EXCEPT ![n] = [updated |-> 0, rank |-> 0,
                                    deleted |-> FALSE]]
  /\ UNCHANGED <<grants, member>>
  /\ Touch

CreateNote(n) ==
  /\ notes[n] = Nothing
  /\ \E rank \in 0 .. MaxRank : Write(n, rank, FALSE)

UpdateNote(n) ==
  /\ notes[n] # Nothing /\ ~ notes[n].deleted
  /\ \E rank \in 0 .. MaxRank : Write(n, rank, FALSE)

SoftDeleteNote(n) ==
  /\ notes[n] # Nothing /\ ~ notes[n].deleted
  /\ Write(n, notes[n].rank, TRUE)

RestoreNote(n) ==
  /\ notes[n] # Nothing /\ notes[n].deleted
  /\ Write(n, notes[n].rank, FALSE)

\* A share granted, changed or revoked; the owner has none of his own.
Share(n) ==
  /\ notes[n] # Nothing
  /\ \E g \in Grants :
       /\ Owner[n] = Caller => g.user = RoleNone
       /\ grants' = [grants EXCEPT ![n] = g]
  /\ UNCHANGED <<notes, member>>
  /\ Touch

JoinOrLeave ==
  /\ member' = ~ member
  /\ UNCHANGED <<notes, grants>>
  /\ Touch

Next ==
  \/ Begin \/ Page
  \/ \E n \in NoteIds : \/ CreateNote(n) \/ UpdateNote(n)
                        \/ SoftDeleteNote(n) \/ RestoreNote(n) \/ Share(n)
  \/ JoinOrLeave

Spec == Init /\ [][Next]_vars

-----------------------------------------------------------------------------
(* Properties. *)

Walks == [pc : {"idle", "paging", "done"}, filter : Filters \cup {NoFilter},
          cursor : Cursors \cup {Nothing}, met : [NoteIds -> 0 .. 2],
          still : SUBSET NoteIds, due : SUBSET NoteIds]

\* Types of the tables and of the walk.
TypeOK ==
  /\ notes \in [NoteIds -> Rows \cup {Nothing}]
  /\ grants \in [NoteIds -> Grants \cup {NoGrant}]
  /\ member \in BOOLEAN
  /\ walk \in Walks
  /\ walk.due \subseteq walk.still

\* A walk misses nothing it owes: when the last page says there is no more,
\* every note the client could read and filter for from the first page on, and
\* that nobody wrote or unshared, was returned exactly once, whatever was written around
\* it and whatever limits the pages had.
UntouchedMetOnce ==
  walk.pc = "done" => \A n \in walk.due : walk.met[n] = 1

\* A note is returned twice only if it was written meanwhile: not because
\* somebody shared it, because ids tie, because the limit changed between pages,
\* or because the walk goes on from the cursor of another walk, made for another
\* filter or another order.
NeverTwice ==
  \A n \in NoteIds : walk.met[n] > 1 => n \notin walk.still

\* SPEC.md: filters never widen access.  Whatever the filter and the cursor, a
\* page returns only notes that GET would show the caller at that moment, or
\* deleted notes of the caller's own.
NeverWidens ==
  [][\A n \in NoteIds :
       walk'.met[n] > walk.met[n] =>
         /\ Can(EffectiveRole(Caller, Owner[n], Reaching(n)), "read")
         /\ notes[n].deleted => Owner[n] = Caller]_vars
=============================================================================
