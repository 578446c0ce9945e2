------------------------------- MODULE Listing -------------------------------
(***************************************************************************)
(* Listing projects by pages while projects are created: ListProjects of   *)
(* internal/service/project.go and internal/storage/sqlite/project.go, as  *)
(* a client walks it.  The count and the page are two statements without a *)
(* transaction, each page is a request of its own, and nothing holds the   *)
(* table still.                                                            *)
(*                                                                         *)
(* The list is sorted by created_at or by target_open_at.  Clients choose  *)
(* the target, and created_at is taken before the transaction that inserts *)
(* the project, which may commit much later; so a project may appear with  *)
(* any time at any moment.  Times are sorted as the texts of Timestamps.   *)
(***************************************************************************)
EXTENDS Timestamps, FiniteSets

CONSTANTS
  Ids,            \* identifiers of projects; numbers, for their order
  Orgs,
  Instants,       \* values of the column sorted by
  Asked,          \* values of the query's limit, 0 if it has none
  Usual, Most,    \* 25 and 100 projects on a page
  None            \* the absent value

ASSUME ListingAssumption ==
  /\ Ids \subseteq Nat /\ Asked \subseteq Nat /\ Instants \subseteq Nat
  /\ Usual \in Nat \ {0} /\ Most \in Nat \ {0} /\ Usual <= Most

VARIABLES
  project,   \* Ids -> row of projects, or None
  walk       \* the client's walk over the list

vars == <<project, walk>>

-----------------------------------------------------------------------------
(* time: created_at or target_open_at, whichever is sorted by *)
ProjectRow == [org : Orgs, time : Instants]

(* The walk of one client.  begun: the projects of the organization when   *)
(* it began; total: what the last answer said; received: how many projects *)
(* came, repeated ones included.                                           *)
NoWalk == [pc |-> "idle", org |-> None, limit |-> 0, begun |-> {},
           seen |-> {}, received |-> 0, total |-> 0]

Walk == [pc : {"asking", "counted", "finished"}, org : Orgs, limit : Nat,
         begun : SUBSET Ids, seen : SUBSET Ids, received : Nat, total : Nat]

Init ==
  /\ project = [id \in Ids |-> None]
  /\ walk = NoWalk

Stored == {id \in Ids : project[id] # None}

(* WHERE organization_id=? *)
Rows(org) == {id \in Stored : project[id].org = org}

(* Mutated form: the organization is left out of the count. *)
CountAll(org) == Cardinality(Stored)

Count(org) == Cardinality(Rows(org))

(* Page.Normalize, of the limit *)
Normalize(limit) == IF limit = 0 THEN Usual
                    ELSE IF limit > Most THEN Most ELSE limit

(* Mutated form: ORDER BY the time alone *)
PrecedesByTime(a, b) == TextLess(project[a].time, project[b].time)

(* Mutated form: ORDER BY the identifier alone *)
PrecedesById(a, b) == a < b

(* ORDER BY the time's text, then the identifier *)
Precedes(a, b) ==
  \/ TextLess(project[a].time, project[b].time)
  \/ Text(project[a].time) = Text(project[b].time) /\ a < b

Least(m, n) == IF m < n THEN m ELSE n

(* No row of the rest must come before one of the first. *)
Leads(first, rest) == \A a \in first, b \in rest : ~Precedes(b, a)

(* The answers that ORDER BY, LIMIT and OFFSET permit; with a total order  *)
(* there is one.                                                           *)
Pages(org, limit, offset) ==
  {page \in SUBSET Rows(org) :
     \E skipped \in SUBSET (Rows(org) \ page) :
       /\ Cardinality(skipped) = Least(offset, Cardinality(Rows(org)))
       /\ Cardinality(page) =
            Least(limit, Cardinality(Rows(org)) - Cardinality(skipped))
       /\ Leads(skipped, Rows(org) \ skipped)
       /\ Leads(page, Rows(org) \ (skipped \cup page))}

-----------------------------------------------------------------------------
(* The transaction of a creation commits. *)
Create(id, org, time) ==
  /\ project[id] = None
  /\ project' = [project EXCEPT ![id] = [org |-> org, time |-> time]]
  /\ UNCHANGED walk

(* A client asks for its first page. *)
Begin(org, limit) ==
  /\ walk.pc = "idle"
  /\ walk' = [NoWalk EXCEPT !.pc = "asking", !.org = org, !.limit = limit,
                            !.begun = Rows(org)]
  /\ UNCHANGED project

(* The first statement of ListProjects, SELECT COUNT *)
CountProjects ==
  /\ walk.pc = "asking"
  /\ walk' = [walk EXCEPT !.pc = "counted", !.total = Count(walk.org)]
  /\ UNCHANGED project

(* The second one, SELECT the page.  The client goes on behind what it     *)
(* received until a page is empty.                                         *)
ListPage ==
  /\ walk.pc = "counted"
  /\ \E page \in Pages(walk.org, Normalize(walk.limit), walk.received) :
       walk' = [walk EXCEPT
         !.pc = IF page = {} THEN "finished" ELSE "asking",
         !.seen = @ \cup page,
         !.received = @ + Cardinality(page)]
  /\ UNCHANGED project

Next ==
  \/ \E id \in Ids, org \in Orgs, time \in Instants : Create(id, org, time)
  \/ \E org \in Orgs, limit \in Asked : Begin(org, limit)
  \/ CountProjects
  \/ ListPage

Spec == Init /\ [][Next]_vars

-----------------------------------------------------------------------------
(* However many projects are inserted before, between and behind the pages *)
(* that were fetched: a client that goes on until a page is empty has seen *)
(* every project that existed when it began.                               *)
NothingIsSkipped ==
  walk.pc = "finished" => walk.begun \subseteq walk.seen

(* The total of an answer is taken apart from its page, but never promises *)
(* more projects than the pages then bring.                                *)
TotalIsReached ==
  walk.pc = "finished" => walk.received >= walk.total

(* A client that stops early has the earliest projects: after any page, if *)
(* it has seen a project, it has seen all that existed when it began and   *)
(* have an earlier time.  The one exception is a time that is the later    *)
(* one with the end of its fraction cut off, whose text sorts behind it;   *)
(* it never reaches across a second.                                       *)
SeenInOrder ==
  \A a \in walk.begun, b \in walk.seen :
    /\ project[a].time < project[b].time
    /\ ~CutOff(project[a].time, project[b].time)
    => a \in walk.seen
=============================================================================
