--------------------------- MODULE ProjectsProofs ---------------------------
(***************************************************************************)
(* Proofs about Projects: type correctness, the safety of creations under  *)
(* idempotency keys, and that the transactions implement ProjectRegistry.  *)
(* The inductive invariant adds to the checked invariants what an answer   *)
(* on its way to the client stands for.                                    *)
(***************************************************************************)
EXTENDS Projects, TLAPS

(* The project an answer names is stored as it was asked for, and the key  *)
(* of the request, if it had one, remembers it.                            *)
Stored(id, org, k, name) ==
  /\ project[id] = [org |-> org, name |-> name]
  /\ k # NoKey => key[<<org, k>>] # None /\ key[<<org, k>>].response = id

AnsweredIsStored ==
  \A h \in Handlers : At(h, "answered") =>
    Stored(request[h].id, Org(h), request[h].key, request[h].name)

IInv == /\ TypeOK /\ WritersAreSerial /\ CreationIsWhole
        /\ AnswersAgree /\ AnsweredIsStored

-----------------------------------------------------------------------------
(* What the type of a request gives about its parts. *)
LEMMA RequestParts ==
  ASSUME TypeOK, NEW h \in Handlers, InFlight(h)
  PROVE  /\ request[h] \in Request
         /\ Org(h) \in Orgs /\ request[h].name \in Names
         /\ request[h].id \in Ids /\ NewProject(h) \in ProjectRow
         /\ request[h].key # NoKey => Slot(h) \in Orgs \X Keys
<1>1. request[h] \in Request
  BY DEF TypeOK, InFlight
<1>2. Org(h) \in Orgs
  BY <1>1, ProjectsAssumption DEF Request, Org
<1> QED
  BY <1>1, <1>2 DEF Request, NewProject, ProjectRow, Slot

(* The row that Commit writes for a key remembers the request. *)
LEMMA RememberedRow ==
  ASSUME TypeOK, NEW h \in Handlers, InFlight(h)
  PROVE  LET row == [name |-> request[h].name, response |-> request[h].id,
                     expires |-> request[h].at + Lifetime]
         IN row \in KeyRow /\ row # None
<1>1. request[h] \in Request
  BY RequestParts
<1>2. request[h].at \in Nat /\ Lifetime \in Nat
  BY <1>1, ProjectsAssumption DEF Request
<1>3. request[h].at + Lifetime \in Nat
  BY <1>2
<1>4. [name |-> request[h].name, response |-> request[h].id,
       expires |-> request[h].at + Lifetime] \in KeyRow
  BY <1>1, <1>3 DEF Request, KeyRow
<1> QED
  BY <1>4, RowAssumption

(* A row of an organization is not the absent project. *)
LEMMA RowsExist ==
  ASSUME NEW org \in Orgs, NEW name
  PROVE  [org |-> org, name |-> name] # NoProject
<1>1. [org |-> org, name |-> name].org # NoProject.org
  BY ProjectsAssumption DEF NoProject
<1> QED
  BY <1>1

(* The constraint the insert of a project satisfies, read as a fact about  *)
(* names.                                                                  *)
LEMMA FreshName ==
  ASSUME TypeOK, NEW h \in Handlers, InFlight(h), Insertable(h)
  PROVE  \A id \in Ids : project[id].org = Org(h)
                         => project[id].name # request[h].name
<1> SUFFICES ASSUME NEW id \in Ids, project[id].org = Org(h),
                    project[id].name = request[h].name
             PROVE  FALSE
  OBVIOUS
<1>1. project[id] \in ProjectRow
  BY RequestParts, ProjectsAssumption DEF TypeOK, NoProject, ProjectRow
<1>2. project[id] = NewProject(h)
  BY <1>1 DEF ProjectRow, NewProject
<1> QED
  BY <1>2 DEF Insertable

-----------------------------------------------------------------------------
(* A step that changes the request of one handler and no table keeps the   *)
(* invariant, if the new request respects it.                              *)
LEMMA RequestStep ==
  ASSUME IInv, NEW h \in Handlers, NEW r \in Request \cup {None},
         request' = [request EXCEPT ![h] = r],
         UNCHANGED <<now, project, key, events, commits>>,
         r # None /\ r.pc # "answered" =>
           /\ project[r.id] = NoProject
           /\ \A g \in Handlers \ {h} : InFlight(g) => request[g].id # r.id,
         r # None /\ r.pc = "writing" =>
           /\ r.snapshot = commits /\ \A g \in Handlers : ~At(g, "writing")
           /\ \A id \in Ids : project[id] # [org |-> UserOrg[r.user],
                                             name |-> r.name]
           /\ r.key # NoKey => key[<<UserOrg[r.user], r.key>>] = None,
         r # None /\ r.pc = "answered" =>
           Stored(r.id, UserOrg[r.user], r.key, r.name),
         answers' \subseteq Answer,
         \A a \in answers' : Stored(a.id, a.org, a.key, a.name)
  PROVE  IInv'
<1>1. /\ request'[h] = r
      /\ \A g \in Handlers \ {h} : request'[g] = request[g]
      /\ request' \in [Handlers -> Request \cup {None}]
  BY DEF IInv, TypeOK
<1>2. \A g \in Handlers \ {h} :
        /\ InFlight(g)' <=> InFlight(g)
        /\ Org(g)' = Org(g) /\ Slot(g)' = Slot(g)
        /\ NewProject(g)' = NewProject(g)
        /\ \A pc : At(g, pc)' <=> At(g, pc)
  BY <1>1 DEF InFlight, Org, Slot, NewProject, At
<1>3. /\ InFlight(h)' <=> r # None
      /\ \A pc : At(h, pc)' <=> r # None /\ r.pc = pc
      /\ Org(h)' = UserOrg[r.user]
      /\ Slot(h)' = <<UserOrg[r.user], r.key>>
      /\ NewProject(h)' = [org |-> UserOrg[r.user], name |-> r.name]
  BY <1>1 DEF InFlight, At, Org, Slot, NewProject
<1>4. TypeOK'
  <2>1. ASSUME NEW g \in Handlers, InFlight(g)', ~At(g, "answered")'
        PROVE  /\ project'[request'[g].id] = NoProject
               /\ \A f \in Handlers \ {g} :
                    InFlight(f)' => request'[f].id # request'[g].id
    <3>1. CASE g = h
      BY <1>1, <1>2, <1>3, <2>1, <3>1
    <3>2. CASE g # h
      <4>1. /\ InFlight(g) /\ ~At(g, "answered")
            /\ request'[g] = request[g]
        BY <1>1, <1>2, <2>1, <3>2
      <4>2. /\ project[request[g].id] = NoProject
            /\ \A f \in Handlers \ {g} :
                 InFlight(f) => request[f].id # request[g].id
        BY <4>1 DEF IInv, TypeOK
      <4>3. request[g].id \in Ids
        BY <4>1, RequestParts DEF IInv
      <4>4. InFlight(h)' => r.id # request[g].id
        <5>1. CASE r # None /\ r.pc # "answered"
          BY <5>1, <3>2, <4>1
        <5>2. CASE r # None /\ r.pc = "answered"
          <6>1. r.user \in Users /\ UserOrg[r.user] \in Orgs
            BY <5>2, ProjectsAssumption DEF Request
          <6>2. project[r.id] # NoProject
            BY <5>2, <6>1, RowsExist DEF Stored
          <6> QED
            BY <6>2, <4>2
        <5> QED
          BY <5>1, <5>2, <1>3
      <4> QED
        BY <1>1, <1>2, <4>1, <4>2, <4>4
    <3> QED
      BY <3>1, <3>2
  <2> QED
    BY <1>1, <2>1 DEF IInv, TypeOK
<1>5. WritersAreSerial'
  <2> SUFFICES ASSUME NEW g \in Handlers, At(g, "writing")'
               PROVE  /\ request'[g].snapshot = commits'
                      /\ \A f \in Handlers : At(f, "writing")' => f = g
                      /\ Insertable(g)'
    BY DEF WritersAreSerial
  <2>1. CASE g = h
    <3>1. r # None /\ r.pc = "writing"
      BY <2>1, <1>3
    <3>2. Insertable(g)'
      BY <2>1, <3>1, <1>1, <1>3 DEF Insertable
    <3> QED
      BY <2>1, <3>1, <3>2, <1>1, <1>2
  <2>2. CASE g # h
    <3>1. At(g, "writing") /\ request'[g] = request[g]
      BY <2>2, <1>1, <1>2
    <3>2. /\ request[g].snapshot = commits /\ Insertable(g)
          /\ \A f \in Handlers : At(f, "writing") => f = g
      BY <3>1 DEF IInv, WritersAreSerial
    <3>3. Insertable(g)'
      BY <2>2, <3>1, <3>2, <1>2 DEF Insertable
    <3> QED
      BY <2>2, <3>1, <3>2, <3>3, <1>2, <1>3
  <2> QED
    BY <2>1, <2>2
<1>6. CreationIsWhole'
  BY DEF IInv, CreationIsWhole
<1>7. AnswersAgree'
  BY DEF AnswersAgree, Stored
<1>8. AnsweredIsStored'
  <2> SUFFICES ASSUME NEW g \in Handlers, At(g, "answered")'
               PROVE  Stored(request[g].id, Org(g), request[g].key,
                             request[g].name)'
    BY DEF AnsweredIsStored
  <2>1. CASE g = h
    BY <2>1, <1>1, <1>3 DEF Stored
  <2>2. CASE g # h
    BY <2>2, <1>1, <1>2 DEF IInv, AnsweredIsStored, Stored
  <2> QED
    BY <2>1, <2>2
<1> QED
  BY <1>4, <1>5, <1>6, <1>7, <1>8 DEF IInv

(* What the answers so far were told stays stored while no table changes.  *)
LEMMA ToldStays ==
  ASSUME IInv, UNCHANGED <<project, key, answers>>
  PROVE  /\ answers' \subseteq Answer
         /\ \A a \in answers' : Stored(a.id, a.org, a.key, a.name)
BY DEF IInv, TypeOK, AnswersAgree, Stored

(* The commit of a creation makes every conjunct true of the new rows and  *)
(* leaves the old ones alone, for the writer holds the lock and its        *)
(* project and key are new.                                                *)
LEMMA CommitStep ==
  ASSUME IInv, NEW h \in Handlers, Commit(h)
  PROVE  IInv'
<1> DEFINE r == request[h]
<1>1. /\ r \in Request /\ InFlight(h) /\ r.pc = "writing"
      /\ Org(h) \in Orgs /\ r.name \in Names /\ r.id \in Ids
      /\ r.user \in Users /\ r.key \in Keys \cup {NoKey}
      /\ NewProject(h) \in ProjectRow
      /\ r.key # NoKey => Slot(h) \in Orgs \X Keys
  BY RequestParts DEF Commit, At, IInv, Request
<1>2. /\ project[r.id] = NoProject
      /\ \A g \in Handlers \ {h} : InFlight(g) => request[g].id # r.id
      /\ \A g \in Handlers : At(g, "writing") => g = h
      /\ r.key # NoKey => key[Slot(h)] = None
  BY <1>1 DEF Commit, At, IInv, TypeOK, WritersAreSerial, Insertable
<1>3. /\ project' \in [Ids -> ProjectRow \cup {NoProject}]
      /\ project'[r.id] = NewProject(h)
      /\ \A id \in Ids : id # r.id => project'[id] = project[id]
  BY <1>1 DEF Commit, IInv, TypeOK
<1>4. /\ key' \in [Orgs \X Keys -> KeyRow \cup {None}]
      /\ r.key # NoKey =>
           /\ key'[Slot(h)] # None
           /\ key'[Slot(h)].response = r.id /\ key'[Slot(h)].name = r.name
      /\ \A slot \in Orgs \X Keys :
           r.key = NoKey \/ slot # Slot(h) => key'[slot] = key[slot]
  <2> DEFINE row == [name |-> r.name, response |-> r.id,
                     expires |-> r.at + Lifetime]
  <2>1. row \in KeyRow /\ row # None
    BY <1>1, RememberedRow DEF IInv
  <2>2. row.response = r.id /\ row.name = r.name
    OBVIOUS
  <2>3. key' = IF r.key = NoKey THEN key ELSE [key EXCEPT ![Slot(h)] = row]
    BY DEF Commit
  <2>4. key \in [Orgs \X Keys -> KeyRow \cup {None}]
    BY DEF IInv, TypeOK
  <2> HIDE DEF row
  <2> QED
    BY <1>1, <2>1, <2>2, <2>3, <2>4
<1>5. /\ events' \in [Ids -> Nat] /\ events'[r.id] = 1
      /\ \A id \in Ids : id # r.id => events'[id] = events[id]
  <2>1. events[r.id] = 0 /\ events \in [Ids -> Nat]
    BY <1>1, <1>2 DEF IInv, TypeOK, CreationIsWhole
  <2> QED
    BY <1>1, <2>1 DEF Commit
<1>6. /\ request' \in [Handlers -> Request \cup {None}]
      /\ request'[h] = [r EXCEPT !.pc = "answered"]
      /\ request'[h].pc = "answered"
      /\ request'[h].id = r.id /\ request'[h].user = r.user
      /\ request'[h].key = r.key /\ request'[h].name = r.name
      /\ request'[h] # None
      /\ \A g \in Handlers \ {h} : request'[g] = request[g]
  <2>1. [r EXCEPT !.pc = "answered"] \in Request
    BY <1>1 DEF Request
  <2>2. /\ request' = [request EXCEPT ![h] = [r EXCEPT !.pc = "answered"]]
        /\ request \in [Handlers -> Request \cup {None}]
    BY DEF Commit, IInv, TypeOK
  <2>3. [r EXCEPT !.pc = "answered"] # None
    BY <2>1, RowAssumption
  <2> QED
    BY <1>1, <2>1, <2>2, <2>3 DEF Request
<1>7. ASSUME NEW id \in Ids, NEW org \in Orgs, NEW k \in Keys \cup {NoKey},
             NEW name, Stored(id, org, k, name)
      PROVE  Stored(id, org, k, name)'
  <2>1. id # r.id
    BY <1>2, <1>7, RowsExist DEF Stored
  <2>2. k # NoKey => <<org, k>> \in Orgs \X Keys /\ key'[<<org, k>>] = key[<<org, k>>]
    BY <1>2, <1>4, <1>7 DEF Stored
  <2> QED
    BY <1>3, <1>7, <2>1, <2>2 DEF Stored
<1> HIDE DEF r
<1>8. \A g \in Handlers \ {h} :
        /\ InFlight(g)' <=> InFlight(g)
        /\ Org(g)' = Org(g)
        /\ \A pc : At(g, pc)' <=> At(g, pc)
  BY <1>6 DEF InFlight, Org, At
<1>9. At(h, "answered")' /\ Org(h)' = Org(h) /\ InFlight(h)'
  BY <1>6 DEF At, InFlight, Org, r
<1>10. TypeOK'
  <2>1. commits + 1 \in Nat
    BY DEF IInv, TypeOK
  <2>2. now' \in Times /\ commits' \in Nat /\ answers' \subseteq Answer
    BY <2>1 DEF IInv, TypeOK, Commit
  <2>3. ASSUME NEW g \in Handlers, InFlight(g)', ~At(g, "answered")'
        PROVE  /\ project'[request'[g].id] = NoProject
               /\ \A f \in Handlers \ {g} :
                    InFlight(f)' => request'[f].id # request'[g].id
    <3>1. g # h /\ InFlight(g) /\ ~At(g, "answered") /\ request'[g] = request[g]
      BY <2>3, <1>6, <1>8, <1>9
    <3>2. /\ project[request[g].id] = NoProject /\ request[g].id \in Ids
          /\ \A f \in Handlers \ {g} :
               InFlight(f) => request[f].id # request[g].id
      BY <3>1, RequestParts DEF IInv, TypeOK
    <3>3. request[g].id # r.id
      BY <3>1, <1>2
    <3> QED
      BY <3>1, <3>2, <3>3, <1>3, <1>6, <1>8
  <2> QED
    BY <1>3, <1>4, <1>5, <1>6, <2>2, <2>3 DEF TypeOK
<1>11. WritersAreSerial'
  <2>1. ASSUME NEW g \in Handlers, At(g, "writing")'
        PROVE  FALSE
    BY <2>1, <1>2, <1>6, <1>8 DEF At
  <2> QED
    BY <2>1 DEF WritersAreSerial
<1>12. CreationIsWhole'
  <2>1. ASSUME NEW id \in Ids
        PROVE  events'[id] = IF project'[id] = NoProject THEN 0 ELSE 1
    <3>1. CASE id = r.id
      BY <3>1, <1>1, <1>3, <1>5, RowsExist DEF NewProject, r
    <3>2. CASE id # r.id
      BY <3>2, <1>3, <1>5 DEF IInv, CreationIsWhole
    <3> QED
      BY <3>1, <3>2
  <2>2. ASSUME NEW org \in Orgs, NEW k \in Keys, key'[<<org, k>>] # None
        PROVE  project'[key'[<<org, k>>].response]
                 = [org |-> org, name |-> key'[<<org, k>>].name]
    <3>1. CASE r.key # NoKey /\ <<org, k>> = Slot(h)
      BY <3>1, <1>3, <1>4 DEF Slot, NewProject, r
    <3>2. CASE ~(r.key # NoKey /\ <<org, k>> = Slot(h))
      <4>1. key'[<<org, k>>] = key[<<org, k>>] /\ <<org, k>> \in Orgs \X Keys
        BY <3>2, <1>4
      <4>2. key[<<org, k>>].response \in Ids
        BY <4>1, <2>2 DEF IInv, TypeOK, KeyRow
      <4>3. project[key[<<org, k>>].response]
              = [org |-> org, name |-> key[<<org, k>>].name]
        BY <4>1, <2>2 DEF IInv, CreationIsWhole
      <4>4. key[<<org, k>>].response # r.id
        BY <4>3, <1>2, RowsExist
      <4> QED
        BY <4>1, <4>2, <4>3, <4>4, <1>3
    <3> QED
      BY <3>1, <3>2
  <2> QED
    BY <2>1, <2>2 DEF CreationIsWhole
<1>13. AnswersAgree'
  <2>1. ASSUME NEW a \in answers
        PROVE  Stored(a.id, a.org, a.key, a.name)'
    <3>1. a.id \in Ids /\ a.org \in Orgs /\ a.key \in Keys \cup {NoKey}
      BY DEF IInv, TypeOK, Answer
    <3>2. Stored(a.id, a.org, a.key, a.name)
      BY DEF IInv, AnswersAgree, Stored
    <3> QED
      BY <3>1, <3>2, <1>7
  <2> QED
    BY <2>1 DEF AnswersAgree, Stored, Commit
<1>14. AnsweredIsStored'
  <2>1. ASSUME NEW g \in Handlers, At(g, "answered")'
        PROVE  Stored(request[g].id, Org(g), request[g].key,
                      request[g].name)'
    <3>1. CASE g = h
      BY <3>1, <1>1, <1>3, <1>4, <1>6, <1>9 DEF Stored, NewProject, Slot, r
    <3>2. CASE g # h
      <4>1. At(g, "answered") /\ InFlight(g)
        BY <2>1, <3>2, <1>8 DEF At
      <4>2. /\ request[g].id \in Ids /\ Org(g) \in Orgs
            /\ request[g].key \in Keys \cup {NoKey}
        BY <4>1, RequestParts DEF IInv, Request
      <4>3. Stored(request[g].id, Org(g), request[g].key, request[g].name)
        BY <4>1 DEF IInv, AnsweredIsStored
      <4> QED
        BY <4>2, <4>3, <3>2, <1>6, <1>7, <1>8 DEF Stored
    <3> QED
      BY <3>1, <3>2
  <2> QED
    BY <2>1 DEF AnsweredIsStored
<1> QED
  BY <1>10, <1>11, <1>12, <1>13, <1>14 DEF IInv

-----------------------------------------------------------------------------
LEMMA InitEstablishes == Init => IInv
<1> SUFFICES ASSUME Init PROVE IInv
  OBVIOUS
<1>1. /\ now \in Times /\ now \in Nat /\ commits \in Nat
      /\ project \in [Ids -> ProjectRow \cup {NoProject}]
      /\ key \in [Orgs \X Keys -> KeyRow \cup {None}]
      /\ events \in [Ids -> Nat]
      /\ request \in [Handlers -> Request \cup {None}]
      /\ answers = {}
      /\ \A h \in Handlers : request[h] = None
  BY ProjectsAssumption DEF Init
<1>2. \A h \in Handlers : ~InFlight(h) /\ \A pc : ~At(h, pc)
  BY <1>1 DEF InFlight, At
<1>3. TypeOK
  BY <1>1, <1>2 DEF TypeOK
<1>4. CreationIsWhole
  BY DEF Init, CreationIsWhole
<1> QED
  BY <1>1, <1>2, <1>3, <1>4
     DEF IInv, WritersAreSerial, AnswersAgree, AnsweredIsStored

(* Every step keeps the invariant: one case for each action of Next. *)
LEMMA StepKeeps == IInv /\ [Next]_vars => IInv'
<1> SUFFICES ASSUME IInv, [Next]_vars PROVE IInv'
  OBVIOUS
<1> DEFINE Told == /\ answers' \subseteq Answer
                   /\ \A a \in answers' : Stored(a.id, a.org, a.key, a.name)
<1>0. UNCHANGED <<project, key, answers>> => Told
  BY ToldStays
<1>1. ASSUME NEW h \in Handlers, NEW u \in Users, NEW k \in Keys \cup {NoKey},
             NEW name \in Names, NEW id \in Ids, Receive(h, u, k, name, id)
      PROVE  IInv'
  <2> DEFINE r == [pc |-> "begun", user |-> u, key |-> k, name |-> name,
                   id |-> id, at |-> now, snapshot |-> 0]
  <2>1. r \in Request
    BY DEF Request, IInv, TypeOK
  <2>2. r.pc = "begun" /\ r.id = id
    OBVIOUS
  <2>3. /\ request' = [request EXCEPT ![h] = r] /\ Told
        /\ UNCHANGED <<now, project, key, events, commits>>
        /\ project[id] = NoProject
        /\ \A g \in Handlers \ {h} : InFlight(g) => request[g].id # id
    BY <1>0, <1>1 DEF Receive
  <2> HIDE DEF r
  <2> QED
    BY <2>1, <2>2, <2>3, RequestStep
<1>2. ASSUME NEW h \in Handlers, MissKey(h)
      PROVE  IInv'
  <2> DEFINE r == [request[h] EXCEPT !.pc = "reading", !.snapshot = commits]
  <2>1. request[h] \in Request /\ request[h].pc = "begun" /\ InFlight(h)
    BY <1>2, RequestParts DEF MissKey, At, IInv
  <2>2. r \in Request /\ r.pc = "reading" /\ r.id = request[h].id
    BY <2>1 DEF Request, IInv, TypeOK
  <2>3. /\ request' = [request EXCEPT ![h] = r] /\ Told
        /\ UNCHANGED <<now, project, key, events, commits>>
    BY <1>0, <1>2 DEF MissKey
  <2>4. /\ project[r.id] = NoProject
        /\ \A g \in Handlers \ {h} : InFlight(g) => request[g].id # r.id
    BY <2>1, <2>2 DEF IInv, TypeOK, At
  <2> HIDE DEF r
  <2> QED
    BY <2>2, <2>3, <2>4, RequestStep
<1>3. ASSUME NEW h \in Handlers, Replay(h)
      PROVE  IInv'
  <2> DEFINE r == [request[h] EXCEPT !.pc = "answered",
                                     !.id = key[Slot(h)].response]
  <2>1. /\ request[h] \in Request /\ request[h].key # NoKey
        /\ request[h].key \in Keys /\ Org(h) \in Orgs
        /\ Slot(h) \in Orgs \X Keys /\ Slot(h) = <<Org(h), request[h].key>>
    BY <1>3, RequestParts DEF Replay, At, IInv, Request, Slot
  <2>2. key[Slot(h)] # None /\ key[Slot(h)].name = request[h].name
    BY <1>3 DEF Replay, Replayable
  <2>3. key[Slot(h)].response \in Ids
    BY <2>1, <2>2 DEF IInv, TypeOK, KeyRow
  <2>4. /\ r \in Request /\ r.pc = "answered" /\ r.user = request[h].user
        /\ r.key = request[h].key /\ r.name = request[h].name
        /\ r.id = key[Slot(h)].response
    BY <2>1, <2>3 DEF Request
  <2>5. /\ request' = [request EXCEPT ![h] = r] /\ Told
        /\ UNCHANGED <<now, project, key, events, commits>>
    BY <1>0, <1>3 DEF Replay
  <2> HIDE DEF r
  <2>6. Stored(r.id, UserOrg[r.user], r.key, r.name)
    BY <2>1, <2>2, <2>4 DEF IInv, CreationIsWhole, Stored, Org
  <2> QED
    BY <2>4, <2>5, <2>6, RequestStep
<1>4. ASSUME NEW h \in Handlers, Insert(h)
      PROVE  IInv'
  <2> DEFINE r == [request[h] EXCEPT !.pc = "writing", !.snapshot = commits]
  <2>1. /\ request[h] \in Request /\ InFlight(h) /\ ~At(h, "answered")
    BY <1>4, RequestParts DEF Insert, At, IInv
  <2>2. /\ r \in Request /\ r.pc = "writing" /\ r.snapshot = commits
        /\ r.id = request[h].id /\ r.user = request[h].user
        /\ r.key = request[h].key /\ r.name = request[h].name
    BY <2>1 DEF Request, IInv, TypeOK
  <2>3. /\ request' = [request EXCEPT ![h] = r] /\ Told
        /\ UNCHANGED <<now, project, key, events, commits>>
        /\ \A g \in Handlers : ~At(g, "writing")
        /\ Insertable(h)
    BY <1>0, <1>4 DEF Insert
  <2>4. /\ project[r.id] = NoProject
        /\ \A g \in Handlers \ {h} : InFlight(g) => request[g].id # r.id
    BY <2>1, <2>2 DEF IInv, TypeOK
  <2> HIDE DEF r
  <2>5. /\ \A id \in Ids : project[id] # [org |-> UserOrg[r.user],
                                          name |-> r.name]
        /\ r.key # NoKey => key[<<UserOrg[r.user], r.key>>] = None
    BY <2>2, <2>3 DEF Insertable, NewProject, Slot, Org
  <2> QED
    BY <2>2, <2>3, <2>4, <2>5, RequestStep
<1>5. ASSUME NEW h \in Handlers, Deliver(h)
      PROVE  IInv'
  <2> DEFINE a == [org |-> Org(h), key |-> request[h].key,
                   name |-> request[h].name, id |-> request[h].id]
  <2>1. a \in Answer
    BY <1>5, RequestParts DEF Deliver, At, IInv, Request, Answer
  <2>2. Stored(a.id, a.org, a.key, a.name)
    BY <1>5 DEF Deliver, IInv, AnsweredIsStored
  <2>3. /\ answers' = answers \cup {a}
        /\ request' = [request EXCEPT ![h] = None]
        /\ UNCHANGED <<now, project, key, events, commits>>
    BY <1>5 DEF Deliver
  <2> HIDE DEF a
  <2>4. Told
    BY <2>1, <2>2, <2>3 DEF IInv, TypeOK, AnswersAgree, Stored
  <2> QED
    BY <2>3, <2>4, RequestStep
<1>6. ASSUME NEW h \in Handlers, Fail(h)
      PROVE  IInv'
  <2>1. /\ request' = [request EXCEPT ![h] = None] /\ Told
        /\ UNCHANGED <<now, project, key, events, commits>>
    BY <1>0, <1>6 DEF Fail
  <2> QED
    BY <2>1, RequestStep
<1>7. ASSUME CommitElsewhere
      PROVE  IInv'
  <2>1. commits' \in Nat
    BY <1>7 DEF CommitElsewhere, IInv, TypeOK
  <2>2. UNCHANGED <<now, project, key, events, request, answers>>
    BY <1>7 DEF CommitElsewhere
  <2>3. TypeOK' /\ CreationIsWhole' /\ AnswersAgree' /\ AnsweredIsStored'
    BY <2>1, <2>2 DEF IInv, TypeOK, CreationIsWhole, AnswersAgree,
      AnsweredIsStored, Stored, InFlight, At, Org
  <2>4. WritersAreSerial'
    BY <1>7, <2>2 DEF CommitElsewhere, WritersAreSerial, At, InFlight
  <2> QED
    BY <2>3, <2>4 DEF IInv
<1>8. ASSUME UNCHANGED <<project, key, events, commits, request, answers>>,
             now' \in Times
      PROVE  IInv'
  BY <1>8 DEF IInv, TypeOK, WritersAreSerial, CreationIsWhole, AnswersAgree,
    AnsweredIsStored, Stored, InFlight, At, Org, Slot, NewProject, Insertable
<1>9. CASE Tick
  BY <1>8, <1>9 DEF Tick
<1>10. CASE UNCHANGED vars
  BY <1>8, <1>10 DEF vars, IInv, TypeOK
<1> HIDE DEF Told
<1> QED
  BY <1>1, <1>2, <1>3, <1>4, <1>5, <1>6, <1>7, <1>9, <1>10, CommitStep DEF Next

LEMMA AlwaysIInv == Spec => []IInv
BY InitEstablishes, StepKeeps, PTL DEF Spec

(* Rows keep their types, and the identifier of a request in flight is its *)
(* own and not in use before the request is answered.                      *)
THEOREM TypeCorrect == Spec => []TypeOK
<1>1. IInv => TypeOK
  BY DEF IInv
<1> QED
  BY <1>1, AlwaysIInv, PTL

(* Whatever requests race, fail, are repeated or lose their answers: one   *)
(* transaction writes at a time and on the newest state, a project and its *)
(* audit event and its key exist together, and all who are told of success *)
(* under one key are told of one project.                                  *)
THEOREM CreationIsSafe ==
  Spec => [](WritersAreSerial /\ CreationIsWhole /\ AnswersAgree)
<1>1. IInv => WritersAreSerial /\ CreationIsWhole /\ AnswersAgree
  BY DEF IInv
<1> QED
  BY <1>1, AlwaysIInv, PTL

-----------------------------------------------------------------------------
(* The commit of a request is the creation of its project. *)
LEMMA CommitCreates ==
  ASSUME IInv, NEW h \in Handlers, Commit(h)
  PROVE  Registry!Create(Org(h), request[h].key, request[h].name,
                         request[h].id)
<1> DEFINE r == request[h]
           k == Slot(h)
<1>1. /\ r \in Request /\ InFlight(h) /\ ~At(h, "answered") /\ At(h, "writing")
      /\ r.id \in Ids /\ Org(h) \in Orgs
      /\ r.key # NoKey => k \in Orgs \X Keys
  BY RequestParts DEF Commit, At, IInv
<1>2. project[r.id] = NoProject /\ Insertable(h)
  BY <1>1 DEF IInv, TypeOK, WritersAreSerial
<1>3. /\ project[r.id].org = None
      /\ \A other \in Ids : project[other].org = Org(h)
                            => project[other].name # r.name
  BY <1>1, <1>2, FreshName DEF IInv, NoProject
<1>4. r.key # NoKey => created[<<Org(h), r.key>>] = None
  BY <1>1, <1>2 DEF Insertable, created, Slot
<1>5. project' = [project EXCEPT ![r.id] = [org |-> Org(h), name |-> r.name]]
  BY DEF Commit, NewProject
<1>6. created' = IF r.key = NoKey THEN created
                 ELSE [created EXCEPT ![<<Org(h), r.key>>] = r.id]
  <2>1. CASE r.key = NoKey
    BY <2>1 DEF Commit, created
  <2>2. CASE r.key # NoKey
    <3> DEFINE row == [name |-> r.name, response |-> r.id,
                       expires |-> r.at + Lifetime]
    <3>1. key \in [Orgs \X Keys -> KeyRow \cup {None}]
      BY DEF IInv, TypeOK
    <3>2. key' = [key EXCEPT ![k] = row]
      BY <2>2 DEF Commit
    <3>3. row # None /\ row.response = r.id
      BY <1>1, RememberedRow DEF IInv
    <3> HIDE DEF row
    <3>4. /\ key'[k] = row
          /\ \A slot \in Orgs \X Keys : slot # k => key'[slot] = key[slot]
      BY <1>1, <2>2, <3>1, <3>2
    <3>5. created' = [created EXCEPT ![k] = r.id]
      BY <1>1, <2>2, <3>3, <3>4 DEF created
    <3> QED
      BY <2>2, <3>5 DEF Slot
  <2> QED
    BY <2>1, <2>2
<1> QED
  BY <1>3, <1>4, <1>5, <1>6 DEF Registry!Create

(* The transactions that race over the tables, one statement at a time,    *)
(* implement creations that happen all at once or not at all.              *)
THEOREM CreationRefines == Spec => ImplementsRegistry
<1>1. Init => Registry!Init
  BY DEF Init, NoProject, created, Registry!Init
<1>2. IInv /\ [Next]_vars => [Registry!Next]_<<project, created>>
  <2> SUFFICES ASSUME IInv, [Next]_vars
               PROVE  [Registry!Next]_<<project, created>>
    OBVIOUS
  <2>1. CASE \E h \in Handlers : Commit(h)
    <3>1. PICK h \in Handlers : Commit(h)
      BY <2>1
    <3>2. /\ Org(h) \in Orgs /\ request[h].key \in Keys \cup {NoKey}
          /\ request[h].name \in Names /\ request[h].id \in Ids
      BY <3>1, RequestParts DEF Commit, At, IInv, Request
    <3> QED
      BY <3>1, <3>2, CommitCreates DEF Registry!Next
  <2>2. CASE UNCHANGED <<project, key>>
    BY <2>2 DEF created
  <2> QED
    BY <2>1, <2>2 DEF Next, vars, Receive, MissKey, Replay, Insert, Deliver,
      Fail, CommitElsewhere, Tick
<1> QED
  BY <1>1, <1>2, AlwaysIInv, PTL DEF Spec, ImplementsRegistry, Registry!Spec
=============================================================================
