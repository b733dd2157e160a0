--------------------------- MODULE ListingProofs ---------------------------
(***************************************************************************)
(* Proofs about listing, for any notes, filters, limits and any writes     *)
(* between two pages.                                                      *)
(*                                                                         *)
(* The heart is one page (PageCuts): the cursor it returns separates the   *)
(* notes it returned from those it did not, and lies beyond the cursor it  *)
(* was asked for.  A note nobody writes therefore stays on one side of the *)
(* cursor, met or still to come (WalkOK).                                  *)
(***************************************************************************)
EXTENDS Listing, AuthzProofs, FiniteSetTheorems

-----------------------------------------------------------------------------
(* The inductive invariant. *)

\* The walk has gone past where the note is.
Passed(n) ==
  walk.cursor # Nothing /\ ~ Beyond(n, walk.cursor, walk.filter)

WalkOK ==
  /\ walk.pc = "idle" => walk.due = {} /\ \A n \in NoteIds : walk.met[n] = 0
  /\ walk.pc = "paging" =>
       /\ walk.filter \in Filters
       /\ \A n \in walk.still :
            walk.met[n] > 0 => notes[n] # Nothing /\ Passed(n)
       /\ \A n \in walk.due :
            Wanted(n, walk.filter) /\ (walk.met[n] = 0 => ~ Passed(n))
  /\ \A n \in walk.still : walk.met[n] <= 1
  /\ UntouchedMetOnce

IInv == TypeOK /\ WalkOK

-----------------------------------------------------------------------------
(* Finite orders. *)

\* A finite set with a strict order has a first element: one with no smaller
\* set of predecessors, which would be that of any of its own predecessors.
LEMMA FirstExists ==
  ASSUME NEW S, IsFiniteSet(S), S # {}, NEW R,
         \A x \in S : <<x, x>> \notin R,
         \A x, y, z \in S : <<x, y>> \in R /\ <<y, z>> \in R => <<x, z>> \in R
  PROVE  \E x \in S : \A y \in S : <<y, x>> \notin R
<1>. DEFINE Pred(x) == {y \in S : <<y, x>> \in R}
            T == {Pred(x) : x \in S}
<1>1. T \subseteq FiniteSubsetsOf(S) /\ T # {}
  <2>1. FiniteSubsetsOf(S) = SUBSET S
    BY FS_FiniteSubsetsOfFinite
  <2>2. \A x \in S : Pred(x) \in SUBSET S
    OBVIOUS
  <2>. HIDE DEF Pred
  <2>. QED BY <2>1, <2>2
<1>2. PICK P \in T : \A Q \in T : <<Q, P>> \notin StrictSubsetOrdering(S)
  BY <1>1, FS_StrictSubsetOrderingWellFounded, WFMin
<1>3. PICK x \in S : P = Pred(x)
  BY <1>2
<1>4. ASSUME NEW y \in S, <<y, x>> \in R
      PROVE  FALSE
  <2>1. Pred(y) \in T /\ Pred(y) \subseteq S /\ P \subseteq S
    <3>1. Pred(y) \subseteq S /\ P \subseteq S
      BY <1>3
    <3>2. Pred(y) \in T
      <4>. HIDE DEF Pred
      <4>. QED OBVIOUS
    <3>. QED BY <3>1, <3>2
  <2>2. Pred(y) \subseteq P /\ y \in P /\ y \notin Pred(y)
    BY <1>3, <1>4
  <2>3. <<Pred(y), P>> \in StrictSubsetOrdering(S)
    BY <2>1, <2>2 DEF StrictSubsetOrdering
  <2>. QED BY <1>2, <2>1, <2>3
<1>. QED BY <1>4

-----------------------------------------------------------------------------
(* The order of a page. *)

LEMMA ListingConstants ==
  /\ \A n \in NoteIds : n \in Int
  /\ \A S \in SUBSET NoteIds : IsFiniteSet(S) /\ Cardinality(S) \in Nat
<1>1. NoteIds \subseteq Nat /\ IsFiniteSet(NoteIds)
  BY ListingAssumption
<1>2. \A S \in SUBSET NoteIds : IsFiniteSet(S)
  BY <1>1, FS_Subset
<1>. QED BY <1>1, <1>2, FS_CardinalityType

LEMMA Keys ==
  ASSUME TypeOK, NEW n \in NoteIds, notes[n] # Nothing, NEW f
  PROVE  Key(n, f) \in Int
<1>1. notes[n] \in Rows
  BY DEF TypeOK
<1>2. notes[n].rank \in 0 .. MaxRank /\ notes[n].updated \in 1 .. MaxTime
  BY <1>1 DEF Rows
<1>. QED BY <1>2 DEF Key

\* Ids break ties: two listed notes are never level.
LEMMA BeforeIsAnOrder ==
  ASSUME TypeOK, NEW S \in SUBSET NoteIds,
         \A n \in S : notes[n] # Nothing, NEW f
  PROVE  /\ \A x \in S : ~ Before(x, x, f)
         /\ \A x, y, z \in S :
              Before(x, y, f) /\ Before(y, z, f) => Before(x, z, f)
         /\ \A x, y \in S : x = y \/ Before(x, y, f) \/ Before(y, x, f)
<1>1. \A x \in S : Key(x, f) \in Int /\ x \in Int
  BY Keys, ListingConstants
<1>. QED BY <1>1 DEF Before

\* A set of listed notes has a first and a last.
LEMMA Ends ==
  ASSUME TypeOK, NEW S \in SUBSET NoteIds, S # {},
         \A n \in S : notes[n] # Nothing, NEW f
  PROVE  /\ \E x \in S : \A y \in S : ~ Before(y, x, f)
         /\ \E x \in S : \A y \in S : ~ Before(x, y, f)
<1>1. IsFiniteSet(S)
  BY ListingConstants
<1>. DEFINE R == {p \in S \X S : Before(p[1], p[2], f)}
            Q == {p \in S \X S : Before(p[2], p[1], f)}
<1>2. \A x, y \in S : /\ <<x, y>> \in R <=> Before(x, y, f)
                      /\ <<x, y>> \in Q <=> Before(y, x, f)
  OBVIOUS
<1>. HIDE DEF R, Q
<1>3. /\ \A x \in S : ~ Before(x, x, f)
      /\ \A x, y, z \in S :
           Before(x, y, f) /\ Before(y, z, f) => Before(x, z, f)
  BY BeforeIsAnOrder
<1>4. \E x \in S : \A y \in S : <<y, x>> \notin R
  <2>1. /\ \A x \in S : <<x, x>> \notin R
        /\ \A x, y, z \in S : <<x, y>> \in R /\ <<y, z>> \in R => <<x, z>> \in R
    BY <1>2, <1>3
  <2>. QED BY <1>1, <2>1, FirstExists
<1>5. \E x \in S : \A y \in S : <<y, x>> \notin Q
  <2>1. /\ \A x \in S : <<x, x>> \notin Q
        /\ \A x, y, z \in S : <<x, y>> \in Q /\ <<y, z>> \in Q => <<x, z>> \in Q
    BY <1>2, <1>3
  <2>. QED BY <1>1, <2>1, FirstExists
<1>. QED BY <1>2, <1>4, <1>5

Preceding(S, n, f) == {m \in S : Before(m, n, f)}

\* "order by ... limit k" takes the first k: whatever comes before a note it
\* takes it takes too, everything when there is no more than that, and
\* something when there is something.
LEMMA FirstOfCuts ==
  ASSUME TypeOK, NEW S \in SUBSET NoteIds,
         \A n \in S : notes[n] # Nothing, NEW f, NEW k \in Nat \ {0}
  PROVE  /\ FirstOf(S, k, f) \subseteq S
         /\ \A n \in FirstOf(S, k, f), m \in S :
              Before(m, n, f) => m \in FirstOf(S, k, f)
         /\ Cardinality(S) <= k => FirstOf(S, k, f) = S
         /\ S # {} => FirstOf(S, k, f) # {}
<1>. DEFINE F == FirstOf(S, k, f)
<1>1. /\ \A n \in S : n \in F <=> Cardinality(Preceding(S, n, f)) < k
      /\ F \subseteq S
  BY DEF FirstOf, Preceding
<1>. HIDE DEF F
<1>2. \A T \in SUBSET S : IsFiniteSet(T) /\ Cardinality(T) \in Nat
  BY ListingConstants
<1>3. \A n \in S : Preceding(S, n, f) \in SUBSET S
  BY DEF Preceding
<1>4. ASSUME NEW n \in F, NEW m \in S, Before(m, n, f)
      PROVE  m \in F
  <2>1. Preceding(S, m, f) \in SUBSET Preceding(S, n, f)
    BY <1>1, <1>4, BeforeIsAnOrder DEF Preceding
  <2>2. Cardinality(Preceding(S, m, f)) <= Cardinality(Preceding(S, n, f))
    BY <1>1, <1>2, <1>3, <2>1, FS_Subset
  <2>. QED BY <1>1, <1>2, <1>3, <2>2
<1>5. ASSUME Cardinality(S) <= k, NEW n \in S
      PROVE  n \in F
  <2>1. n \notin Preceding(S, n, f)
    BY BeforeIsAnOrder DEF Preceding
  <2>2. /\ Cardinality(Preceding(S, n, f)) <= Cardinality(S)
        /\ Cardinality(Preceding(S, n, f)) # Cardinality(S)
    BY <1>2, <1>3, <2>1, FS_Subset
  <2>3. Cardinality(S) \in Nat /\ Cardinality(Preceding(S, n, f)) \in Nat
    BY <1>2, <1>3
  <2>. QED BY <1>1, <1>5, <2>2, <2>3
<1>6. ASSUME S # {}
      PROVE  F # {}
  <2>1. PICK x \in S : \A y \in S : ~ Before(y, x, f)
    BY <1>6, Ends
  <2>2. Preceding(S, x, f) = {}
    BY <2>1 DEF Preceding
  <2>. QED BY <1>1, <2>2, FS_EmptySet
<1>. QED BY <1>1, <1>4, <1>5, <1>6 DEF F

-----------------------------------------------------------------------------
(* One page. *)

\* The rows a page is taken from, and what the order needs of them.
LEMMA LeftRows ==
  ASSUME NEW f, NEW c
  PROVE  /\ Left(f, c) \in SUBSET NoteIds
         /\ \A n \in Left(f, c) :
              notes[n] # Nothing /\ Matches(n, f) /\ (c # Nothing => Beyond(n, c, f))
BY DEF Left, Matches

LEMMA CursorIsRow ==
  ASSUME TypeOK, NEW n \in NoteIds, notes[n] # Nothing, NEW f \in AllFilters
  PROVE  /\ CursorAt(n, f) \in Cursors /\ CursorAt(n, f) # Nothing
         /\ \A m \in NoteIds :
              Beyond(m, CursorAt(n, f), f) <=> Before(n, m, f)
<1>1. notes[n] \in Rows /\ MaxRank \in Nat
  BY ListingAssumption DEF TypeOK
<1>2. notes[n].updated \in 1 .. MaxTime /\ notes[n].rank \in 0 .. MaxRank
  BY <1>1 DEF Rows
<1>. DEFINE rank == IF f.query THEN notes[n].rank ELSE 0
            c == CursorAt(n, f)
<1>3. rank \in 0 .. MaxRank
  BY <1>1, <1>2
<1>4. c = [updated |-> notes[n].updated, id |-> n, rank |-> rank]
  BY DEF CursorAt
<1>. HIDE DEF rank
<1>5. c \in Cursors
  BY <1>2, <1>3, <1>4 DEF Cursors
<1>6. c # Nothing
  BY <1>5, ListingAssumption
<1>7. c.updated = notes[n].updated /\ c.id = n /\ c.rank = rank
  BY <1>4
<1>8. (IF f.query THEN c.rank ELSE c.updated) = Key(n, f)
  BY <1>7 DEF Key, rank
<1>. HIDE DEF c
<1>9. ASSUME NEW m \in NoteIds
      PROVE  Beyond(m, c, f) <=> Before(n, m, f)
  <2>1. n \in Int /\ m \in Int
    BY ListingConstants
  <2>2. Beyond(m, c, f) <=>
          \/ Key(m, f) < Key(n, f)
          \/ Key(m, f) = Key(n, f) /\ m < n
    BY <1>7, <1>8 DEF Beyond
  <2>. QED BY <2>1, <2>2 DEF Before
<1>. QED BY <1>5, <1>6, <1>9 DEF c

\* Whatever is beyond a row that is itself beyond a cursor is beyond that one.
LEMMA CursorMovesOn ==
  ASSUME TypeOK, NEW f \in AllFilters, NEW c \in Cursors,
         NEW n \in NoteIds, notes[n] # Nothing, Beyond(n, c, f),
         NEW m \in NoteIds, notes[m] # Nothing, Before(n, m, f)
  PROVE  Beyond(m, c, f)
<1>. DEFINE key == IF f.query THEN c.rank ELSE c.updated
<1>1. key \in Int /\ c.id \in Int
  <2>1. /\ c.rank \in 0 .. MaxRank /\ c.updated \in 1 .. MaxTime
        /\ c.id \in NoteIds
    BY DEF Cursors
  <2>. QED BY <2>1, ListingConstants
<1>2. Key(n, f) \in Int /\ Key(m, f) \in Int /\ n \in Int /\ m \in Int
  BY Keys, ListingConstants
<1>3. \A x : Beyond(x, c, f) <=> (Key(x, f) < key \/ (Key(x, f) = key /\ x < c.id))
  BY DEF Beyond
<1>. HIDE DEF key
<1>. QED BY <1>1, <1>2, <1>3 DEF Before

\* What one page does.  With no more to come it returned all there was; else
\* its cursor separates what it returned from what it did not, and a note the
\* old cursor had passed is passed by the new one.
LEMMA PageCuts ==
  ASSUME TypeOK, NEW f \in AllFilters, NEW c \in Cursors \cup {Nothing},
         NEW k \in Nat \ {0}
  PROVE  LET S    == Left(f, c)
             F    == FirstOf(S, k, f)
             next == NextCursor(S, k, f)
         IN  /\ F \subseteq S
             /\ next \in Cursors \cup {Nothing}
             /\ next = Nothing => F = S
             /\ next # Nothing =>
                  /\ \A n \in F : ~ Beyond(n, next, f)
                  /\ \A n \in S \ F : Beyond(n, next, f)
                  /\ \A n \in NoteIds :
                       /\ notes[n] # Nothing /\ c # Nothing
                       /\ ~ Beyond(n, c, f)
                       => ~ Beyond(n, next, f)
<1>. DEFINE S    == Left(f, c)
            F    == FirstOf(S, k, f)
            next == NextCursor(S, k, f)
<1>1. /\ S \in SUBSET NoteIds
      /\ \A n \in S : notes[n] # Nothing /\ (c # Nothing => Beyond(n, c, f))
  BY LeftRows
<1>. HIDE DEF S
<1>2. Cardinality(S) \in Nat
  BY <1>1, ListingConstants
<1>3. /\ F \subseteq S
      /\ \A n \in F, m \in S : Before(m, n, f) => m \in F
      /\ Cardinality(S) <= k => F = S
      /\ S # {} => F # {}
  BY <1>1, FirstOfCuts
<1>. HIDE DEF F
<1>4. CASE Cardinality(S) <= k
  <2>1. next = Nothing
    BY <1>4 DEF NextCursor
  <2>. QED BY <1>3, <1>4, <2>1 DEF F, S
<1>5. CASE ~ (Cardinality(S) <= k)
  <2>. DEFINE last == CHOOSE n \in F : \A m \in F : ~ Before(n, m, f)
  <2>1. next = CursorAt(last, f)
    BY <1>5 DEF NextCursor, F
  <2>2. S # {}
    BY <1>5, FS_EmptySet
  <2>3. last \in F /\ \A m \in F : ~ Before(last, m, f)
    <3>1. \E n \in F : \A m \in F : ~ Before(n, m, f)
      BY <1>1, <1>3, <2>2, Ends
    <3>. QED BY <3>1
  <2>. HIDE DEF last
  <2>4. last \in NoteIds /\ last \in S /\ notes[last] # Nothing
    BY <1>1, <1>3, <2>3
  <2>5. /\ next \in Cursors /\ next # Nothing
        /\ \A m \in NoteIds : Beyond(m, next, f) <=> Before(last, m, f)
    BY <2>1, <2>4, CursorIsRow
  <2>. HIDE DEF next
  <2>6. \A n \in F : ~ Beyond(n, next, f)
    BY <1>1, <1>3, <2>3, <2>5
  <2>7. ASSUME NEW n \in S \ F
        PROVE  Beyond(n, next, f)
    <3>1. ~ Before(n, last, f) /\ n # last
      BY <1>3, <2>3
    <3>2. Before(last, n, f)
      BY <1>1, <2>4, <3>1, BeforeIsAnOrder
    <3>. QED BY <1>1, <2>5, <3>2
  <2>8. ASSUME NEW n \in NoteIds, notes[n] # Nothing, c # Nothing,
               Beyond(n, next, f)
        PROVE  Beyond(n, c, f)
    <3>1. Before(last, n, f) /\ Beyond(last, c, f) /\ c \in Cursors
      BY <1>1, <2>4, <2>5, <2>8
    <3>. QED BY <2>4, <2>8, <3>1, CursorMovesOn
  <2>. QED BY <1>3, <2>5, <2>6, <2>7, <2>8 DEF F, S, next
<1>. QED BY <1>4, <1>5

-----------------------------------------------------------------------------
(* Who sees what. *)

LEMMA ReachingType ==
  ASSUME TypeOK, NEW n \in NoteIds
  PROVE  Reaching(n) \subseteq {RoleNone} \cup GrantRoles
<1>1. grants[n].user \in {RoleNone} \cup GrantRoles
      /\ grants[n].team \in {RoleNone} \cup GrantRoles
  BY ListingAssumption DEF TypeOK, NoGrant
<1>. QED BY <1>1 DEF Reaching

\* The query's predicate is read access to that one note.
LEMMA AuthorizedIsRead ==
  ASSUME TypeOK, NEW n \in NoteIds
  PROVE  Authorized(n) <=>
           Can(EffectiveRole(Caller, Owner[n], Reaching(n)), "read")
BY ReachingType, ReadingTakesAGrant DEF Authorized

LEMMA WantedMatches ==
  ASSUME TypeOK, NEW n \in NoteIds, NEW f, Wanted(n, f)
  PROVE  Matches(n, f)
BY AuthorizedIsRead DEF Wanted, Matches, DeletedScope

-----------------------------------------------------------------------------
(* One lemma per action. *)

LEMMA BeginStep ==
  ASSUME IInv, Begin
  PROVE  IInv'
<1>1. PICK f \in Filters, c \in {Nothing, walk.cursor} :
        walk' = [pc |-> "paging", filter |-> f, cursor |-> c,
                 met |-> [n \in NoteIds |-> 0], still |-> NoteIds,
                 due |-> IF c = Nothing THEN {n \in NoteIds : Wanted(n, f)}
                                        ELSE {}]
  BY DEF Begin
<1>2. UNCHANGED <<notes, grants, member>>
  BY DEF Begin
<1>3. /\ walk'.pc = "paging" /\ walk'.filter = f /\ walk'.cursor = c
      /\ walk'.met = [n \in NoteIds |-> 0] /\ walk'.still = NoteIds
      /\ walk'.due \subseteq NoteIds
      /\ \A n \in walk'.due : c = Nothing /\ Wanted(n, f)
  BY <1>1
<1>4. walk' \in Walks
  <2>1. c \in Cursors \cup {Nothing}
    BY DEF IInv, TypeOK, Walks
  <2>. QED BY <1>1, <1>3, <2>1 DEF Walks
<1>5. TypeOK'
  BY <1>2, <1>3, <1>4 DEF IInv, TypeOK
<1>6. \A n \in walk'.due : Wanted(n, walk.filter)' /\ ~ Passed(n)'
  BY <1>2, <1>3 DEF Wanted, Narrowed, Reaching, Passed
<1>7. WalkOK'
  <2>1. \A n \in NoteIds : walk'.met[n] = 0
    BY <1>3
  <2>. QED BY <1>3, <1>6, <2>1 DEF WalkOK, UntouchedMetOnce
<1>. QED BY <1>5, <1>7 DEF IInv

LEMMA PageStep ==
  ASSUME IInv, Page
  PROVE  IInv'
<1>. DEFINE f == walk.filter
            c == walk.cursor
            S == Left(f, c)
<1>1. PICK k \in 1 .. MaxLimit :
        walk' = [walk EXCEPT
          !.pc = IF NextCursor(S, k, f) = Nothing THEN "done" ELSE "paging",
          !.cursor = NextCursor(S, k, f),
          !.met = [n \in NoteIds |->
                     IF n \in FirstOf(S, k, f) /\ walk.met[n] < 2
                       THEN walk.met[n] + 1 ELSE walk.met[n]]]
  BY DEF Page
<1>. DEFINE F    == FirstOf(S, k, f)
            next == NextCursor(S, k, f)
            met  == [n \in NoteIds |-> IF n \in F /\ walk.met[n] < 2
                                       THEN walk.met[n] + 1 ELSE walk.met[n]]
            pc   == IF next = Nothing THEN "done" ELSE "paging"
<1>2. UNCHANGED <<notes, grants, member>> /\ walk.pc = "paging"
  BY DEF Page
<1>3. TypeOK /\ walk \in Walks /\ WalkOK /\ walk.due \subseteq walk.still
  BY DEF IInv, TypeOK
<1>4. /\ f \in Filters /\ f \in AllFilters /\ c \in Cursors \cup {Nothing}
      /\ k \in Nat \ {0}
  BY <1>2, <1>3, ListingAssumption DEF WalkOK, Walks
<1>5. /\ S \in SUBSET NoteIds
      /\ \A n \in S : notes[n] # Nothing /\ (c # Nothing => Beyond(n, c, f))
  BY LeftRows
<1>6. /\ F \subseteq S /\ next \in Cursors \cup {Nothing}
      /\ next = Nothing => F = S
      /\ next # Nothing =>
           /\ \A n \in F : ~ Beyond(n, next, f)
           /\ \A n \in S \ F : Beyond(n, next, f)
           /\ \A n \in NoteIds :
                notes[n] # Nothing /\ c # Nothing /\ ~ Beyond(n, c, f)
                => ~ Beyond(n, next, f)
  BY <1>3, <1>4, PageCuts
<1>7. \A n \in NoteIds : Wanted(n, f) /\ ~ Passed(n) => n \in S
  BY <1>3, WantedMatches DEF Left, Passed
<1>8. walk' = [walk EXCEPT !.pc = pc, !.cursor = next, !.met = met]
  BY <1>1
<1>. HIDE DEF S, F, next
<1>9. /\ met \in [NoteIds -> 0 .. 2]
      /\ \A n \in NoteIds : met[n] = IF n \in F /\ walk.met[n] < 2
                                      THEN walk.met[n] + 1 ELSE walk.met[n]
  BY <1>3 DEF Walks
<1>. HIDE DEF met
<1>10. pc \in {"paging", "done"} /\ (pc = "paging" <=> next # Nothing)
  OBVIOUS
<1>. HIDE DEF pc
<1>11. /\ walk' \in Walks /\ walk'.pc = pc /\ walk'.cursor = next
       /\ walk'.met = met /\ walk'.filter = f /\ walk'.still = walk.still
       /\ walk'.due = walk.due
  BY <1>3, <1>6, <1>8, <1>9, <1>10 DEF Walks
\* A note met before lies behind the cursor, and is not met again.
<1>12. ASSUME NEW n \in walk.still
       PROVE  /\ n \in NoteIds /\ walk.met[n] \in {0, 1}
              /\ walk.met[n] = 1 => n \notin F /\ met[n] = 1
              /\ walk.met[n] = 0 => met[n] = IF n \in F THEN 1 ELSE 0
  <2>1. n \in NoteIds /\ walk.met[n] \in 0 .. 2 /\ walk.met[n] <= 1
    BY <1>3 DEF Walks, WalkOK
  <2>2. walk.met[n] > 0 => c # Nothing /\ ~ Beyond(n, c, f)
    BY <1>2, <1>3 DEF WalkOK, Passed
  <2>. QED BY <1>5, <1>6, <1>9, <2>1, <2>2
<1>13. ASSUME NEW n \in walk.due
       PROVE  /\ n \in walk.still /\ n \in NoteIds /\ Wanted(n, f)
              /\ walk.met[n] = 0 => n \in S
  <2>1. n \in walk.still /\ n \in NoteIds
    BY <1>3 DEF Walks
  <2>2. Wanted(n, f) /\ (walk.met[n] = 0 => ~ Passed(n))
    BY <1>2, <1>3 DEF WalkOK
  <2>. QED BY <1>7, <2>1, <2>2
<1>14. TypeOK'
  BY <1>2, <1>3, <1>11 DEF TypeOK
<1>15. ASSUME NEW n \in walk.still, met[n] > 0, next # Nothing
       PROVE  notes[n] # Nothing /\ ~ Beyond(n, next, f)
  <2>1. CASE walk.met[n] = 1
    BY <1>2, <1>3, <1>6, <1>12, <1>15, <2>1 DEF WalkOK, Passed
  <2>2. CASE n \in F
    BY <1>5, <1>6, <1>15, <2>2
  <2>. QED BY <1>12, <1>15, <2>1, <2>2
<1>16. ASSUME NEW n \in walk.due, met[n] = 0, next # Nothing
       PROVE  Beyond(n, next, f)
  BY <1>6, <1>12, <1>13, <1>16
<1>17. ASSUME NEW n \in walk.due, next = Nothing
       PROVE  met[n] = 1
  BY <1>6, <1>12, <1>13, <1>17
<1>18. \A n \in walk.due : Wanted(n, walk.filter)'
  BY <1>2, <1>11, <1>13 DEF Wanted, Narrowed, Reaching
<1>19. WalkOK'
  <2>1. walk'.pc # "idle" /\ (walk'.pc = "paging" <=> next # Nothing)
    BY <1>10, <1>11
  <2>2. \A n \in walk'.still : walk'.met[n] <= 1
    BY <1>11, <1>12
  <2>. QED BY <1>2, <1>4, <1>10, <1>11, <1>15, <1>16, <1>17, <1>18, <2>1, <2>2
           DEF WalkOK, Passed, UntouchedMetOnce, Beyond, Key
<1>. QED BY <1>14, <1>19, SMTT(30) DEF IInv

\* What others write takes a note off the walk's hands, or leaves it where it is.
LEMMA TouchStep ==
  ASSUME IInv, Touch, notes' \in [NoteIds -> Rows \cup {Nothing}],
         grants' \in [NoteIds -> Grants \cup {NoGrant}], member' \in BOOLEAN
  PROVE  IInv'
<1>1. PICK f \in {walk.filter},
           same \in {{n \in NoteIds : notes'[n] = notes[n]}} :
        walk' = [walk EXCEPT !.still = walk.still \cap same,
                             !.due = {n \in walk.due \cap same : Wanted(n, f)'}]
  BY DEF Touch
<1>. DEFINE due == {n \in walk.due \cap same : Wanted(n, f)'}
<1>2. /\ walk \in Walks /\ WalkOK /\ walk.due \subseteq walk.still
      /\ same \subseteq NoteIds /\ \A n \in same : notes'[n] = notes[n]
  BY DEF IInv, TypeOK
<1>3. due \subseteq walk.due \cap same /\ \A n \in due : Wanted(n, f)'
  OBVIOUS
<1>4. walk' = [walk EXCEPT !.still = walk.still \cap same, !.due = due]
  BY <1>1
<1>. HIDE DEF due
<1>5. /\ walk' \in Walks /\ walk'.pc = walk.pc /\ walk'.cursor = walk.cursor
      /\ walk'.met = walk.met /\ walk'.filter = walk.filter
      /\ walk'.still = walk.still \cap same /\ walk'.due = due
  BY <1>2, <1>3, <1>4 DEF Walks
<1>6. TypeOK'
  BY <1>2, <1>3, <1>5 DEF TypeOK
<1>7. \A n \in due : Wanted(n, walk.filter)'
  BY <1>1, <1>3, <1>5 DEF Wanted, Narrowed, Reaching
<1>8. \A n \in same : Passed(n)' <=> Passed(n)
  BY <1>2, <1>5 DEF Passed, Beyond, Key
<1>9. WalkOK'
  BY <1>2, <1>3, <1>5, <1>7, <1>8 DEF WalkOK, UntouchedMetOnce
<1>. QED BY <1>6, <1>9 DEF IInv

LEMMA WriteStep ==
  ASSUME IInv, NEW n \in NoteIds, NEW rank \in 0 .. MaxRank,
         NEW deleted \in BOOLEAN, Write(n, rank, deleted)
  PROVE  IInv'
<1>1. PICK t \in 1 .. MaxTime :
        notes' = [notes EXCEPT ![n] = [updated |-> t, rank |-> rank,
                                       deleted |-> deleted]]
  BY DEF Write
<1>2. [updated |-> t, rank |-> rank, deleted |-> deleted] \in Rows
  BY DEF Rows
<1>3. notes' \in [NoteIds -> Rows \cup {Nothing}]
  BY <1>1, <1>2 DEF IInv, TypeOK
<1>. QED BY <1>3, TouchStep DEF Write, IInv, TypeOK

LEMMA NoteStep ==
  ASSUME IInv, NEW n \in NoteIds,
         CreateNote(n) \/ UpdateNote(n) \/ SoftDeleteNote(n) \/ RestoreNote(n)
  PROVE  IInv'
<1>1. CASE CreateNote(n) \/ UpdateNote(n)
  BY <1>1, WriteStep DEF CreateNote, UpdateNote
<1>2. CASE SoftDeleteNote(n) \/ RestoreNote(n)
  <2>1. notes[n].rank \in 0 .. MaxRank
    BY <1>2 DEF SoftDeleteNote, RestoreNote, IInv, TypeOK, Rows
  <2>. QED BY <1>2, <2>1, WriteStep DEF SoftDeleteNote, RestoreNote
<1>. QED BY <1>1, <1>2

LEMMA ShareStep ==
  ASSUME IInv, NEW n \in NoteIds, Share(n)
  PROVE  IInv'
<1>1. PICK g \in Grants : grants' = [grants EXCEPT ![n] = g]
  BY DEF Share
<1>2. grants' \in [NoteIds -> Grants \cup {NoGrant}]
  BY <1>1 DEF IInv, TypeOK
<1>. QED BY <1>2, TouchStep DEF Share, IInv, TypeOK

LEMMA JoinOrLeaveStep ==
  ASSUME IInv, JoinOrLeave
  PROVE  IInv'
BY TouchStep DEF JoinOrLeave, IInv, TypeOK

-----------------------------------------------------------------------------
(* The invariant. *)

LEMMA InvInit == Init => IInv
<1>. SUFFICES ASSUME Init PROVE IInv
  OBVIOUS
<1>1. /\ walk \in Walks /\ walk.pc = "idle" /\ walk.due = {}
      /\ walk.still = {} /\ \A n \in NoteIds : walk.met[n] = 0
  BY DEF Init, Walks
<1>2. TypeOK
  BY <1>1 DEF Init, TypeOK
<1>3. WalkOK
  BY <1>1 DEF WalkOK, UntouchedMetOnce
<1>. QED BY <1>2, <1>3 DEF IInv

LEMMA InvStep == IInv /\ [Next]_vars => IInv'
<1>. SUFFICES ASSUME IInv, [Next]_vars PROVE IInv'
  OBVIOUS
<1>1. ASSUME NEW n \in NoteIds,
             \/ CreateNote(n) \/ UpdateNote(n)
             \/ SoftDeleteNote(n) \/ RestoreNote(n) \/ Share(n)
      PROVE  IInv'
  BY <1>1, NoteStep, ShareStep
<1>2. CASE UNCHANGED vars
  BY <1>2 DEF vars, IInv, TypeOK, WalkOK, UntouchedMetOnce, Passed, Beyond, Key,
              Wanted, Narrowed, Reaching
<1>. QED BY <1>1, <1>2, BeginStep, PageStep, JoinOrLeaveStep DEF Next

\* The inductive invariant holds in every reachable state.
THEOREM Invariance == Spec => []IInv
BY InvInit, InvStep, PTL DEF Spec

\* Every reachable state is well typed, however many notes and pages.
THEOREM TypeCorrect == Spec => []TypeOK
<1>1. IInv => TypeOK
  BY DEF IInv
<1>. QED BY <1>1, Invariance, PTL

\* A walk to the end misses nothing it owes, and returns it once.
THEOREM WalksAreComplete == Spec => []UntouchedMetOnce
<1>1. IInv => UntouchedMetOnce
  BY DEF IInv, WalkOK
<1>. QED BY <1>1, Invariance, PTL

\* A note is returned twice only if it was written meanwhile.
THEOREM NoRepeats == Spec => []NeverTwice
<1>1. IInv => NeverTwice
  <2>. SUFFICES ASSUME IInv, NEW n \in NoteIds, walk.met[n] > 1,
                       n \in walk.still
                PROVE  FALSE
    BY DEF NeverTwice
  <2>1. walk.met[n] <= 1 /\ walk.met[n] \in 0 .. 2
    BY DEF IInv, TypeOK, WalkOK, Walks
  <2>. QED BY <2>1
<1>. QED BY <1>1, Invariance, PTL

\* Only a page returns notes, and only what a read would show the caller.
LEMMA PageShows ==
  ASSUME IInv, [Next]_vars, NEW n \in NoteIds, walk'.met[n] > walk.met[n]
  PROVE  /\ Can(EffectiveRole(Caller, Owner[n], Reaching(n)), "read")
         /\ notes[n].deleted => Owner[n] = Caller
<1>1. TypeOK /\ walk \in Walks /\ walk.met[n] \in 0 .. 2
  BY DEF IInv, TypeOK, Walks
<1>2. CASE Page
  <2>1. PICK k \in 1 .. MaxLimit :
          walk'.met[n] = IF n \in FirstOf(Left(walk.filter, walk.cursor), k,
                                          walk.filter) /\ walk.met[n] < 2
                           THEN walk.met[n] + 1 ELSE walk.met[n]
    BY <1>1, <1>2 DEF Page, Walks
  <2>2. n \in Left(walk.filter, walk.cursor)
    BY <1>1, <2>1 DEF FirstOf
  <2>3. Matches(n, walk.filter)
    BY <2>2 DEF Left
  <2>. QED BY <1>1, <2>3, AuthorizedIsRead DEF Matches, DeletedScope
<1>3. CASE Begin
  <2>1. walk'.met[n] = 0
    BY <1>3 DEF Begin
  <2>. QED BY <1>1, <2>1
<1>4. CASE Touch
  <2>1. walk'.met = walk.met
    BY <1>1, <1>4 DEF Touch, Walks
  <2>. QED BY <1>1, <2>1
<1>5. CASE UNCHANGED walk
  BY <1>1, <1>5
<1>. QED
  BY <1>2, <1>3, <1>4, <1>5
     DEF Next, vars, CreateNote, UpdateNote, SoftDeleteNote, RestoreNote, Write,
         Share, JoinOrLeave

\* Whatever the filter and the cursor, a page shows only what a read would.
THEOREM FiltersNeverWiden == Spec => NeverWidens
<1>1. IInv /\ [Next]_vars =>
        [\A n \in NoteIds :
           walk'.met[n] > walk.met[n] =>
             /\ Can(EffectiveRole(Caller, Owner[n], Reaching(n)), "read")
             /\ notes[n].deleted => Owner[n] = Caller]_vars
  BY PageShows
<1>. QED BY <1>1, Invariance, PTL DEF Spec, NeverWidens
=============================================================================
