---------------------------- MODULE ListingProofs ----------------------------
(***************************************************************************)
(* The promises of paging, proved for any number of projects, of           *)
(* organizations and of pages: that what a client has received covers the  *)
(* front of the list, and from this that nothing is skipped, the total is  *)
(* reached and projects are seen in the order of time, as far as their     *)
(* texts have it (TimestampsProofs).                                       *)
(***************************************************************************)
EXTENDS Listing, TimestampsProofs, FiniteSetTheorems

(* The order of the list and the walk over it. *)

(* The projects of an organization that are listed before one of them. *)
BeforeIn(org, a) == {b \in Rows(org) : Precedes(b, a)}

Typed ==
  /\ project \in [Ids -> ProjectRow \cup {None}]
  /\ IsFiniteSet(Stored)
  /\ walk = NoWalk \/ walk \in Walk

(* Of the projects that existed when the walk began, those whose place in  *)
(* the list is now within the number received have been seen: a project    *)
(* inserted before them moves them back, never forward.                    *)
FrontIsSeen ==
  walk.pc # "idle" =>
    /\ walk.begun \subseteq Rows(walk.org)
    /\ \A a \in walk.begun :
         Cardinality(BeforeIn(walk.org, a)) < walk.received => a \in walk.seen

(* No project leaves the list, so a total is never more than there are. *)
TotalIsThere ==
  walk.pc # "idle" => walk.total <= Count(walk.org)

(* Projects are seen from the front of the list: of those that existed when *)
(* the walk began, none is missed before one that was seen.                *)
SeenFromTheFront ==
  /\ walk.begun \cup walk.seen \subseteq Stored
  /\ \A a \in walk.begun, b \in walk.seen :
       Precedes(a, b) => a \in walk.seen

(* The inductive invariant: what a finished walk promises follows, at its  *)
(* last page, from what holds after every page.                            *)
IInv ==
  /\ Typed /\ FrontIsSeen /\ SeenFromTheFront /\ TotalIsThere
  /\ NothingIsSkipped /\ TotalIsReached

(* Every stored project has a time, and every organization finitely many.  *)
LEMMA RowFacts ==
  ASSUME Typed
  PROVE  /\ \A a \in Stored : a \in Nat /\ project[a].time \in Nat
         /\ \A org : IsFiniteSet(Rows(org)) /\ Cardinality(Rows(org)) \in Nat
<1>1. ASSUME NEW a \in Stored PROVE a \in Nat /\ project[a].time \in Nat
  <2>1. a \in Ids /\ project[a] \in ProjectRow
    BY DEF Typed, Stored
  <2> QED
    BY <2>1, ListingAssumption DEF ProjectRow
<1>2. ASSUME NEW org
      PROVE IsFiniteSet(Rows(org)) /\ Cardinality(Rows(org)) \in Nat
  <2>1. Rows(org) \in SUBSET Stored
    BY DEF Rows
  <2> QED
    BY <2>1, FS_Subset, FS_CardinalityType DEF Typed
<1> QED
  BY <1>1, <1>2

(* ORDER BY the text, then the identifier, is a total order of the rows. *)
LEMMA OrderIsTotal ==
  ASSUME Typed, NEW a \in Stored, NEW b \in Stored
  PROVE  /\ ~Precedes(a, a)
         /\ a # b => Precedes(a, b) \/ Precedes(b, a)
<1>1. /\ a \in Nat /\ b \in Nat
      /\ project[a].time \in Nat /\ project[b].time \in Nat
  BY RowFacts
<1>2. ~Precedes(a, a)
  BY <1>1, NeverBeforeItself DEF Precedes
<1>3. CASE Text(project[a].time) # Text(project[b].time)
  BY <1>1, <1>2, <1>3, TextsCompare DEF Precedes
<1>4. CASE Text(project[a].time) = Text(project[b].time)
  <2>1. a # b => a < b \/ b < a
    BY <1>1
  <2> QED
    BY <1>2, <1>4, <2>1 DEF Precedes
<1> QED
  BY <1>3, <1>4

LEMMA LeastType ==
  ASSUME NEW i \in Nat, NEW j \in Nat
  PROVE  /\ Least(i, j) \in Nat /\ Least(i, j) <= i /\ Least(i, j) <= j
         /\ Least(i, j) = i \/ Least(i, j) = j
BY DEF Least

(* A page behind an offset: whatever comes before the end of the page, or  *)
(* before one of its rows, is on the page or before the offset, and a page *)
(* is only empty behind the last row.                                      *)
LEMMA PageCovers ==
  ASSUME Typed, NEW org, NEW limit \in Nat \ {0}, NEW offset \in Nat,
         NEW page \in Pages(org, limit, offset)
  PROVE  /\ page \subseteq Rows(org) /\ Cardinality(page) \in Nat
         /\ \A a \in Rows(org) :
              Cardinality(BeforeIn(org, a)) < offset + Cardinality(page) =>
                a \in page \/ Cardinality(BeforeIn(org, a)) < offset
         /\ \A a \in Rows(org), b \in page : Precedes(a, b) =>
              a \in page \/ Cardinality(BeforeIn(org, a)) < offset
         /\ page = {} => Count(org) <= offset
<1> DEFINE R == Rows(org)
           N == Cardinality(R)
<1>1. IsFiniteSet(R) /\ N \in Nat /\ R \subseteq Stored
  BY RowFacts DEF Rows
<1>2. page \in SUBSET R
  BY DEF Pages
<1>3. PICK skipped \in SUBSET (R \ page) :
        /\ Cardinality(skipped) = Least(offset, N)
        /\ Cardinality(page) = Least(limit, N - Cardinality(skipped))
        /\ Leads(skipped, R \ skipped)
        /\ Leads(page, R \ (skipped \cup page))
  BY DEF Pages
<1> DEFINE s == Cardinality(skipped)
           p == Cardinality(page)
           B(a) == BeforeIn(org, a)
<1>4. /\ IsFiniteSet(skipped) /\ s \in Nat /\ s <= N
      /\ s = N => skipped = R
      /\ IsFiniteSet(page) /\ p \in Nat
  <2>1. skipped \in SUBSET R
    OBVIOUS
  <2> QED
    BY <1>1, <1>2, <2>1, FS_Subset, FS_CardinalityType
<1>5. s <= offset /\ (s = offset \/ s = N)
  BY <1>1, <1>3, LeastType
<1>6. \A a \in R : IsFiniteSet(B(a)) /\ Cardinality(B(a)) \in Nat
  <2> TAKE a \in R
  <2>1. B(a) \in SUBSET R
    BY DEF BeforeIn
  <2> QED
    BY <1>1, <2>1, FS_Subset, FS_CardinalityType
<1>7. ASSUME NEW a \in R, a \in skipped
      PROVE  Cardinality(B(a)) < offset
  <2>1. \A b \in R : Precedes(b, a) => b \in skipped
    BY <1>3, <1>7 DEF Leads
  <2>2. ~Precedes(a, a)
    BY <1>1, OrderIsTotal
  <2>3. B(a) \in SUBSET (skipped \ {a})
    BY <2>1, <2>2 DEF BeforeIn
  <2>4. /\ IsFiniteSet(skipped \ {a})
        /\ Cardinality(skipped \ {a}) = s - 1
    BY <1>4, <1>7, FS_RemoveElement
  <2>5. Cardinality(B(a)) <= s - 1
    BY <2>3, <2>4, FS_Subset
  <2> QED
    BY <1>4, <1>5, <1>6, <2>5
<1>8. ASSUME NEW a \in R, a \notin skipped, a \notin page
      PROVE  Cardinality(B(a)) >= offset + p
  <2>1. ASSUME NEW b \in skipped \cup page
        PROVE  b \in B(a)
    <3>1. b \in R /\ b # a
      BY <1>2, <1>8
    <3>2. ~Precedes(a, b)
      BY <1>3, <1>8 DEF Leads
    <3>3. Precedes(b, a)
      BY <1>1, <3>1, <3>2, OrderIsTotal
    <3> QED
      BY <3>1, <3>3 DEF BeforeIn
  <2>2. skipped \cup page \in SUBSET B(a)
    BY <2>1
  <2>3. skipped \cap page = {}
    OBVIOUS
  <2>4. Cardinality(skipped \cup page) = s + p
    <3>1. Cardinality(skipped \cup page)
            = Cardinality(skipped) + Cardinality(page)
              - Cardinality(skipped \cap page)
      BY <1>4, FS_Union
    <3> QED
      BY <1>4, <2>3, <3>1, FS_EmptySet
  <2>5. Cardinality(skipped \cup page) <= Cardinality(B(a))
    BY <1>6, <2>2, FS_Subset
  <2>6. s = offset
    BY <1>4, <1>5, <1>8
  <2> QED
    BY <1>4, <1>6, <2>4, <2>5, <2>6
<1>9. ASSUME page = {} PROVE N <= offset
  <2>1. p = 0
    BY <1>9, FS_EmptySet
  <2>2. N - s \in Nat
    BY <1>1, <1>4
  <2>3. N - s = 0
    BY <1>3, <2>1, <2>2, LeastType
  <2> QED
    BY <1>1, <1>4, <1>5, <2>3
<1>10. ASSUME NEW a \in R, Cardinality(B(a)) < offset + p
       PROVE  a \in page \/ Cardinality(B(a)) < offset
  <2>1. ~(Cardinality(B(a)) >= offset + p)
    BY <1>4, <1>6, <1>10
  <2> QED
    BY <1>7, <1>8, <2>1
<1>11. ASSUME NEW a \in R, NEW b \in page, Precedes(a, b)
       PROVE  a \in page \/ Cardinality(B(a)) < offset
  <2>1. a \in skipped \cup page
    BY <1>3, <1>11 DEF Leads
  <2> QED
    BY <1>7, <2>1
<1> QED
  BY <1>2, <1>4, <1>9, <1>10, <1>11 DEF Count
-----------------------------------------------------------------------------
(* The steps. *)

LEMMA WalkIsFinite ==
  ASSUME Typed, walk.pc # "idle"
  PROVE  /\ walk \in Walk
         /\ walk.received \in Nat /\ walk.total \in Nat
         /\ Normalize(walk.limit) \in Nat \ {0}
<1>1. walk \in Walk
  BY DEF Typed, NoWalk
<1>2. walk.limit \in Nat /\ walk.received \in Nat /\ walk.total \in Nat
  BY <1>1 DEF Walk
<1>3. Normalize(walk.limit) \in Nat \ {0}
  BY <1>2, ListingAssumption DEF Normalize
<1> QED
  BY <1>1, <1>2, <1>3

(* A creation keeps every row and its place relative to the others, so it  *)
(* can only add to what is listed before a row.                            *)
LEMMA CreateAdds ==
  ASSUME Typed, NEW id \in Ids, NEW org \in Orgs, NEW time \in Instants,
         Create(id, org, time)
  PROVE  /\ Typed'
         /\ \A a \in Stored : a \in Stored' /\ project'[a] = project[a]
         /\ \A o : Rows(o) \subseteq Rows(o)' /\ Count(o) <= Count(o)'
         /\ \A o : \A a \in Rows(o) :
              Cardinality(BeforeIn(o, a)) <= Cardinality(BeforeIn(o, a)')
<1>1. \A a \in Stored : a \in Stored' /\ project'[a] = project[a]
  BY DEF Typed, Create, Stored
<1>2. Typed'
  <2>1. project' \in [Ids -> ProjectRow \cup {None}]
    <3>1. [org |-> org, time |-> time] \in ProjectRow
      BY DEF ProjectRow
    <3> QED
      BY <3>1 DEF Typed, Create
  <2>2. Stored' \in SUBSET (Stored \cup {id})
    BY DEF Typed, Create, Stored
  <2>3. IsFiniteSet(Stored')
    BY <2>2, FS_AddElement, FS_Subset DEF Typed
  <2> QED
    BY <2>1, <2>3 DEF Typed, Create
<1>3. ASSUME NEW o PROVE Rows(o) \subseteq Rows(o)' /\ Count(o) <= Count(o)'
  <2>1. Rows(o) \in SUBSET (Rows(o)')
    BY <1>1 DEF Rows
  <2>2. IsFiniteSet(Rows(o)')
    <3>1. Rows(o)' \in SUBSET (Stored')
      BY DEF Rows
    <3> QED
      BY <1>2, <3>1, FS_Subset DEF Typed
  <2>3. Cardinality(Rows(o)) <= Cardinality(Rows(o)')
    BY <2>1, <2>2, FS_Subset
  <2> QED
    BY <2>1, <2>3 DEF Count
<1>4. ASSUME NEW o, NEW a \in Rows(o)
      PROVE  Cardinality(BeforeIn(o, a)) <= Cardinality(BeforeIn(o, a)')
  <2>1. \A b \in Rows(o) : Precedes(b, a) => Precedes(b, a)'
    <3>1. \A b \in Rows(o) : project'[b] = project[b]
      BY <1>1 DEF Rows
    <3> QED
      BY <3>1 DEF Precedes
  <2>2. BeforeIn(o, a) \in SUBSET (BeforeIn(o, a)')
    BY <1>3, <2>1 DEF BeforeIn
  <2>3. IsFiniteSet(BeforeIn(o, a)')
    <3>1. BeforeIn(o, a)' \in SUBSET (Stored')
      BY DEF BeforeIn, Rows
    <3> QED
      BY <1>2, <3>1, FS_Subset DEF Typed
  <2> QED
    BY <2>2, <2>3, FS_Subset
<1> QED
  BY <1>1, <1>2, <1>3, <1>4

LEMMA BeforeType ==
  ASSUME Typed, NEW o, NEW a
  PROVE  Cardinality(BeforeIn(o, a)) \in Nat
<1>1. BeforeIn(o, a) \in SUBSET Rows(o)
  BY DEF BeforeIn
<1> QED
  BY <1>1, RowFacts, FS_Subset, FS_CardinalityType

LEMMA CreateStep ==
  ASSUME IInv, NEW id \in Ids, NEW org \in Orgs, NEW time \in Instants,
         Create(id, org, time)
  PROVE  IInv'
<1>1. walk' = walk
  BY DEF Create
<1>o. PICK o : o = walk.org /\ o = walk'.org
  BY <1>1
<1>2. Typed /\ Typed'
  BY CreateAdds DEF IInv
<1>3. FrontIsSeen'
  <2> SUFFICES ASSUME walk.pc # "idle"
               PROVE  /\ walk.begun \subseteq Rows(o)'
                      /\ \A a \in walk.begun :
                           Cardinality(BeforeIn(o, a)') < walk.received
                             => a \in walk.seen
    BY <1>1, <1>o DEF FrontIsSeen, BeforeIn, Rows
  <2>1. walk.begun \subseteq Rows(o)
    BY <1>o DEF IInv, FrontIsSeen
  <2>2. walk.begun \subseteq Rows(o)'
    BY <1>2, <2>1, CreateAdds
  <2>3. ASSUME NEW a \in walk.begun,
               Cardinality(BeforeIn(o, a)') < walk.received
        PROVE  a \in walk.seen
    <3>1. Cardinality(BeforeIn(o, a))
            <= Cardinality(BeforeIn(o, a)')
      BY <1>2, <2>1, CreateAdds
    <3>2. /\ Cardinality(BeforeIn(o, a)) \in Nat
          /\ walk.received \in Nat
      BY <1>2, BeforeType, WalkIsFinite
    <3>3. Cardinality(BeforeIn(o, a)') \in Nat
      <4>1. BeforeIn(o, a)' \in SUBSET (Stored')
        BY DEF BeforeIn, Rows
      <4> QED
        BY <1>2, <4>1, FS_Subset, FS_CardinalityType DEF Typed
    <3>4. Cardinality(BeforeIn(o, a)) < walk.received
      BY <2>3, <3>1, <3>2, <3>3
    <3> QED
      BY <1>o, <3>4 DEF IInv, FrontIsSeen
  <2> QED
    BY <2>2, <2>3
<1>4. TotalIsThere'
  <2> SUFFICES ASSUME walk.pc # "idle"
               PROVE  walk.total <= Count(o)'
    BY <1>1, <1>o DEF TotalIsThere, Count, Rows
  <2>1. Count(o) <= Count(o)'
    BY <1>2, CreateAdds
  <2>2. walk.total <= Count(o)
    BY <1>o DEF IInv, TotalIsThere
  <2>3. /\ walk.total \in Nat /\ Count(o) \in Nat
    BY <1>2, RowFacts, WalkIsFinite DEF Count
  <2>4. Count(o)' \in Nat
    <3>1. Rows(o)' \in SUBSET (Stored')
      BY DEF Rows
    <3> QED
      BY <1>2, <3>1, FS_Subset, FS_CardinalityType DEF Typed, Count
  <2> QED
    BY <2>1, <2>2, <2>3, <2>4
<1>5. NothingIsSkipped' /\ TotalIsReached'
  BY <1>1 DEF IInv, NothingIsSkipped, TotalIsReached
<1>6. SeenFromTheFront'
  <2>1. \A a \in Stored : a \in Stored' /\ project'[a] = project[a]
    BY <1>2, CreateAdds
  <2>2. walk.begun \cup walk.seen \subseteq Stored
    BY DEF IInv, SeenFromTheFront
  <2> QED
    BY <1>1, <2>1, <2>2 DEF IInv, SeenFromTheFront, Precedes
<1> QED
  BY <1>2, <1>3, <1>4, <1>5, <1>6 DEF IInv

LEMMA BeginStep ==
  ASSUME IInv, NEW org \in Orgs, NEW limit \in Asked, Begin(org, limit)
  PROVE  IInv'
<1>1. project' = project
  BY DEF Begin
<1>2. /\ walk'.pc = "asking" /\ walk'.org = org /\ walk'.limit = limit
      /\ walk'.begun = Rows(org) /\ walk'.seen = {}
      /\ walk'.received = 0 /\ walk'.total = 0
  BY DEF Begin, NoWalk
<1>3. Typed'
  <2>1. Rows(org) \in SUBSET Ids
    BY DEF Rows, Stored
  <2>2. walk' \in Walk
    BY <2>1, ListingAssumption DEF Begin, NoWalk, Walk
  <2> QED
    BY <1>1, <2>2 DEF IInv, Typed, Stored
<1>4. Rows(org)' = Rows(org)
  BY <1>1 DEF Rows, Stored
<1>5. FrontIsSeen'
  <2>1. \A a : Cardinality(BeforeIn(org, a)') \in Nat
    <3>1. \A a : BeforeIn(org, a)' = BeforeIn(org, a)
      BY <1>1 DEF BeforeIn, Rows, Stored, Precedes
    <3> QED
      BY <3>1, BeforeType DEF IInv
  <2>2. \A a : ~(Cardinality(BeforeIn(org, a)') < 0)
    BY <2>1
  <2> QED
    BY <1>2, <1>4, <2>2 DEF FrontIsSeen, BeforeIn
<1>6. TotalIsThere'
  <2>1. Count(org)' \in Nat
    BY <1>4, RowFacts DEF IInv, Count
  <2>2. 0 <= Count(org)'
    BY <2>1
  <2> QED
    BY <1>2, <2>2 DEF TotalIsThere, Count, Rows
<1>7. SeenFromTheFront'
  BY <1>1, <1>2 DEF SeenFromTheFront, Rows, Stored
<1> QED
  BY <1>2, <1>3, <1>5, <1>6, <1>7
  DEF IInv, NothingIsSkipped, TotalIsReached

LEMMA CountStep == ASSUME IInv, CountProjects PROVE IInv'
<1>1. project' = project
  BY DEF CountProjects
<1>2. walk \in Walk
  BY WalkIsFinite DEF IInv, CountProjects
<1>3. /\ walk' \in Walk
      /\ walk'.pc = "counted" /\ walk'.org = walk.org
      /\ walk'.begun = walk.begun /\ walk'.seen = walk.seen
      /\ walk'.received = walk.received /\ walk'.total = Count(walk.org)
  <2>1. Count(walk.org) \in Nat
    BY RowFacts DEF IInv, Count
  <2> QED
    BY <1>2, <2>1 DEF CountProjects, Walk
<1>4. Typed'
  BY <1>1, <1>3 DEF IInv, Typed, Stored
<1>5. \A o : /\ Rows(o)' = Rows(o)
             /\ \A a : BeforeIn(o, a)' = BeforeIn(o, a)
  BY <1>1 DEF BeforeIn, Rows, Stored, Precedes
<1>6. FrontIsSeen'
  <2>1. walk.pc # "idle"
    BY DEF CountProjects
  <2> QED
    BY <1>1, <1>3, <1>5, <2>1
    DEF IInv, FrontIsSeen, BeforeIn, Rows, Stored, Precedes
<1>7. TotalIsThere'
  <2>1. PICK o : o = walk.org /\ o = walk'.org
    BY <1>3
  <2>2. walk'.total = Count(o)' /\ walk'.total <= walk'.total
    BY <1>1, <1>3, <2>1 DEF Count, Rows, Stored, Walk
  <2> QED
    BY <2>1, <2>2 DEF TotalIsThere, Count, Rows
<1>8. SeenFromTheFront'
  BY <1>1, <1>3 DEF IInv, SeenFromTheFront, Stored, Precedes
<1> QED
  BY <1>3, <1>4, <1>6, <1>7, <1>8 DEF IInv, NothingIsSkipped, TotalIsReached

LEMMA PageStep == ASSUME IInv, ListPage PROVE IInv'
<1> DEFINE limit == Normalize(walk.limit)
           o == walk.org
           k == walk.received
<1>1. project' = project
  BY DEF ListPage
<1>2. /\ Typed /\ walk.pc # "idle" /\ walk \in Walk
      /\ k \in Nat /\ walk.total \in Nat /\ limit \in Nat \ {0}
  BY WalkIsFinite DEF IInv, ListPage
<1>3. PICK page \in Pages(o, limit, k) :
        walk' = [walk EXCEPT
                   !.pc = IF page = {} THEN "finished" ELSE "asking",
                   !.seen = walk.seen \cup page,
                   !.received = k + Cardinality(page)]
  BY DEF ListPage
<1>4. /\ page \subseteq Rows(o) /\ Cardinality(page) \in Nat
      /\ \A a \in Rows(o) :
           Cardinality(BeforeIn(o, a)) < k + Cardinality(page) =>
             a \in page \/ Cardinality(BeforeIn(o, a)) < k
      /\ \A a \in Rows(o), b \in page : Precedes(a, b) =>
           a \in page \/ Cardinality(BeforeIn(o, a)) < k
      /\ page = {} => Count(o) <= k
  <2> HIDE DEF o, k, limit
  <2> QED
    BY <1>2, PageCovers
<1>5. /\ walk' \in Walk
      /\ walk'.pc = IF page = {} THEN "finished" ELSE "asking"
      /\ walk'.org = o /\ walk'.begun = walk.begun
      /\ walk'.seen = walk.seen \cup page
      /\ walk'.received = k + Cardinality(page)
      /\ walk'.total = walk.total
  <2>1. page \subseteq Ids
    BY <1>4 DEF Rows, Stored
  <2>2. k + Cardinality(page) \in Nat
    BY <1>2, <1>4
  <2>3. (IF page = {} THEN "finished" ELSE "asking")
          \in {"asking", "counted", "finished"}
    OBVIOUS
  <2> DEFINE received == k + Cardinality(page)
             pc == IF page = {} THEN "finished" ELSE "asking"
  <2>4. received \in Nat /\ pc \in {"asking", "counted", "finished"}
    BY <2>2, <2>3
  <2>5. walk' = [walk EXCEPT !.pc = pc, !.seen = walk.seen \cup page,
                             !.received = received]
    BY <1>3
  <2> HIDE DEF received, pc
  <2>6. /\ walk' \in Walk /\ walk'.pc = pc
        /\ walk'.org = o /\ walk'.begun = walk.begun
        /\ walk'.seen = walk.seen \cup page
        /\ walk'.received = received /\ walk'.total = walk.total
    BY <1>2, <2>1, <2>4, <2>5 DEF Walk
  <2> QED
    BY <2>6 DEF received, pc
<1>6. Typed'
  BY <1>1, <1>5 DEF IInv, Typed, Stored
<1>7. walk.begun \subseteq Rows(o)
  BY <1>2 DEF IInv, FrontIsSeen
<1>8. ASSUME NEW a \in walk.begun,
             Cardinality(BeforeIn(o, a)) < k + Cardinality(page)
      PROVE  a \in walk.seen \cup page
  <2>1. a \in page \/ Cardinality(BeforeIn(o, a)) < k
    BY <1>4, <1>7, <1>8
  <2> QED
    BY <1>2, <2>1 DEF IInv, FrontIsSeen
<1>9. PICK org : org = walk.org /\ org = walk'.org
  BY <1>5
<1>10. FrontIsSeen'
  <2>1. /\ Rows(org)' = Rows(org)
        /\ \A a : BeforeIn(org, a)' = BeforeIn(org, a)
    BY <1>1 DEF BeforeIn, Rows, Stored, Precedes
  <2>2. walk'.begun \subseteq Rows(org)'
    BY <1>5, <1>7, <1>9, <2>1
  <2>3. \A a \in walk'.begun :
          Cardinality(BeforeIn(org, a)') < walk'.received => a \in walk'.seen
    BY <1>5, <1>8, <1>9, <2>1
  <2> QED
    BY <1>9, <2>2, <2>3 DEF FrontIsSeen, BeforeIn, Rows
<1>11. TotalIsThere'
  <2>1. Count(org)' = Count(org)
    BY <1>1 DEF Count, Rows, Stored
  <2>2. walk'.total <= Count(org)'
    BY <1>2, <1>5, <1>9, <2>1 DEF IInv, TotalIsThere
  <2> QED
    BY <1>9, <2>2 DEF TotalIsThere, Count, Rows
<1>12. ASSUME walk'.pc = "finished"
       PROVE  /\ walk'.begun \subseteq walk'.seen
              /\ walk'.received >= walk'.total
  <2>1. page = {} /\ Cardinality(page) = 0
    BY <1>5, <1>12, FS_EmptySet
  <2>2. Count(o) <= k
    BY <1>4, <2>1
  <2>3. Count(o) \in Nat
    BY <1>2, RowFacts DEF Count
  (* Every row comes before the offset: a row is not before itself. *)
  <2>4. ASSUME NEW a \in walk.begun
        PROVE  Cardinality(BeforeIn(o, a)) < k
    <3>1. a \in Rows(o) /\ a \in Stored
      BY <1>7 DEF Rows
    <3>2. ~Precedes(a, a)
      BY <1>2, <3>1, OrderIsTotal
    <3>3. BeforeIn(o, a) \in SUBSET (Rows(o) \ {a})
      BY <3>2 DEF BeforeIn
    <3>4. /\ IsFiniteSet(Rows(o) \ {a})
          /\ Cardinality(Rows(o) \ {a}) = Count(o) - 1
      BY <1>2, <3>1, RowFacts, FS_RemoveElement DEF Count
    <3>5. Cardinality(BeforeIn(o, a)) <= Count(o) - 1
      BY <3>3, <3>4, FS_Subset
    <3>6. Cardinality(BeforeIn(o, a)) \in Nat
      BY <1>2, BeforeType
    <3> QED
      BY <1>2, <2>2, <2>3, <3>5, <3>6
  <2>5. walk.begun \subseteq walk.seen
    BY <1>2, <2>4 DEF IInv, FrontIsSeen
  <2>6. walk.total <= k
    BY <1>2, <2>2, <2>3 DEF IInv, TotalIsThere
  <2> QED
    BY <1>2, <1>5, <2>1, <2>5, <2>6
<1>13. SeenFromTheFront'
  <2>1. /\ Stored' = Stored
        /\ \A a, b : Precedes(a, b)' <=> Precedes(a, b)
    BY <1>1 DEF Stored, Precedes
  <2>2. walk'.begun \cup walk'.seen \subseteq Stored
    BY <1>4, <1>5 DEF IInv, SeenFromTheFront, Rows
  <2>3. ASSUME NEW a \in walk.begun, NEW b \in walk.seen \cup page,
               Precedes(a, b)
        PROVE  a \in walk.seen \cup page
    <3>1. CASE b \in walk.seen
      BY <2>3, <3>1 DEF IInv, SeenFromTheFront
    <3>2. CASE b \in page
      <4>1. a \in page \/ Cardinality(BeforeIn(o, a)) < k
        BY <1>4, <1>7, <2>3, <3>2
      <4> QED
        BY <1>2, <4>1 DEF IInv, FrontIsSeen
    <3> QED
      BY <2>3, <3>1, <3>2
  <2> QED
    BY <1>5, <2>1, <2>2, <2>3 DEF SeenFromTheFront, Precedes
<1> QED
  BY <1>6, <1>10, <1>11, <1>12, <1>13
  DEF IInv, NothingIsSkipped, TotalIsReached

LEMMA InductiveInit == Init => IInv
<1> SUFFICES ASSUME Init PROVE IInv
  OBVIOUS
<1>1. Stored = {} /\ IsFiniteSet(Stored)
  BY FS_EmptySet DEF Init, Stored
<1> QED
  BY <1>1 DEF Init, IInv, Typed, NoWalk, FrontIsSeen, SeenFromTheFront,
              TotalIsThere, NothingIsSkipped, TotalIsReached

LEMMA InductiveStep == ASSUME IInv, [Next]_vars PROVE IInv'
<1>1. CASE UNCHANGED vars
  BY <1>1
  DEF IInv, vars, Typed, FrontIsSeen, SeenFromTheFront, TotalIsThere,
      NothingIsSkipped, TotalIsReached, BeforeIn, Count, Rows, Stored, Precedes
<1> QED
  BY <1>1, CreateStep, BeginStep, CountStep, PageStep DEF Next

(* Whatever is inserted while a client fetches its pages: when it ends it  *)
(* has seen every project that existed when it began, and has received at  *)
(* least as many as the last answer's total promised.                      *)
THEOREM PagingIsComplete == Spec => [](NothingIsSkipped /\ TotalIsReached)
<1>1. Init => IInv
  BY InductiveInit
<1>2. IInv /\ [Next]_vars => IInv'
  BY InductiveStep
<1>3. IInv => NothingIsSkipped /\ TotalIsReached
  BY DEF IInv
<1> QED
  BY <1>1, <1>2, <1>3, PTL DEF Spec

(* Wherever a client stops, what it has seen is earlier than what it has   *)
(* not, but for times whose texts are out of the order of time.            *)
THEOREM PagingFollowsTime == Spec => []SeenInOrder
<1>1. IInv => SeenInOrder
  <2> SUFFICES ASSUME IInv, NEW a \in walk.begun, NEW b \in walk.seen,
                      project[a].time < project[b].time,
                      ~CutOff(project[a].time, project[b].time)
               PROVE  a \in walk.seen
    BY DEF SeenInOrder
  <2> DEFINE s == project[a].time
             t == project[b].time
  <2>1. a \in Stored /\ b \in Stored
    BY DEF IInv, SeenFromTheFront
  <2>2. s \in Nat /\ t \in Nat /\ s < t /\ ~CutOff(s, t)
    BY <2>1, RowFacts DEF IInv
  <2>3. TextLess(s, t) => Precedes(a, b)
    BY DEF Precedes
  <2> HIDE DEF s, t
  <2>4. TextLess(s, t)
    BY <2>2, TextsAndTimes, TextsCompare
  <2> QED
    BY <2>3, <2>4 DEF IInv, SeenFromTheFront
<1>2. Init => IInv
  BY InductiveInit
<1>3. IInv /\ [Next]_vars => IInv'
  BY InductiveStep
<1> QED
  BY <1>1, <1>2, <1>3, PTL DEF Spec
=============================================================================
