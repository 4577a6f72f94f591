---------------------------- MODULE ListingProofs ----------------------------
(***************************************************************************)
(* Proofs for Listing, for every number of rows and changes, every page    *)
(* and batch size: a walk returns each row that keeps its place exactly    *)
(* once, pages advance, the purge is complete, no event is dropped for the  *)
(* way it was built.                                                       *)
(***************************************************************************)
EXTENDS Listing, FiniteSetTheorems, TLAPS

-----------------------------------------------------------------------------
(* The inductive invariants.                                                *)

(* The order of the walk is one its list knows.                             *)
OrderOK == /\ query.order.field \in Orderable(kind)
           /\ kind \in {"session", "audit"} => query.order = NewestFirst

(* While the purge deletes, what it still has to delete is before the       *)
(* cutoff; it looks at the audit table only.                                *)
PurgeOK ==
  /\ kind # "audit" => purge.pc = "idle"
  /\ purge.pc = "deleting" =>
       \A id \in purge.doomed : table[id] # Absent => table[id].at < purge.cutoff
  /\ purge.pc = "done" => \A id \in purge.doomed : table[id] = Absent

BaseInv == TypeOK /\ OrderOK /\ PurgeOK /\ EventsAreWellFormed

(* The row lies ahead of the page token.                                    *)
Ahead(id) == Precedes(query.order.dir, CursorKey(query.order.field, after),
                      Placed(table, id))

(* What was returned, and has not moved, is not ahead of the token; an      *)
(* assignment that was returned and removed counts as moved.                *)
ReturnedOK ==
  /\ after = First => \A id \in Ids : seen[id] = 0
  /\ \A id \in Ids \ moved :
       /\ seen[id] <= 1
       /\ seen[id] = 1 /\ table[id] # Absent /\ after \in Token => ~ Ahead(id)
       /\ seen[id] = 1 /\ kind = "assignment" => table[id] # Absent

(* A row that matched and kept its place is still there, and was returned,  *)
(* is ahead of the token, or could not be read.                             *)
SteadyOK ==
  /\ steady \cap moved = {}
  /\ \A id \in steady :
       /\ table[id] # Absent /\ Matches(table, id)
       /\ after \in Token /\ id \notin unread => seen[id] = 1 \/ Ahead(id)
       /\ after = Done /\ id \notin unread => seen[id] = 1

WalkInv == BaseInv /\ ReturnedOK /\ SteadyOK

-----------------------------------------------------------------------------
(* The order of a list, and the page cut from it.                           *)

(* Precedes orders pairs of integers strictly and totally.                  *)
LEMMA PrecedesIrreflexive ==
  ASSUME NEW dir, NEW j \in Int \X Int
  PROVE  ~ Precedes(dir, j, j)
BY DEF Precedes

LEMMA PrecedesTransitive ==
  ASSUME NEW dir, NEW i \in Int \X Int, NEW j \in Int \X Int,
         NEW k \in Int \X Int, Precedes(dir, i, j), Precedes(dir, j, k)
  PROVE  Precedes(dir, i, k)
BY DEF Precedes

LEMMA PrecedesTotal ==
  ASSUME NEW dir, NEW j \in Int \X Int, NEW k \in Int \X Int, j[2] # k[2]
  PROVE  Precedes(dir, j, k) \/ Precedes(dir, k, j)
BY DEF Precedes

Fields == {"created", "id", "name", "auth"}

(* A list is ordered by a pair that ends in the id.                         *)
LEMMA KeyType ==
  ASSUME NEW field \in Fields, NEW r \in Row, NEW id \in Ids
  PROVE  /\ OrderKey(field, r, id) \in Int \X Int
         /\ OrderKey(field, r, id)[2] = id
<1>1. r.at \in Int /\ r.name \in Int /\ id \in Int
  <2>1. r.at \in Times /\ r.name \in Names
    BY DEF Row
  <2>2. Times \subseteq Int /\ Names \subseteq Int /\ Ids \subseteq Int
    BY KeysAssumption
  <2> QED BY <2>1, <2>2
<1> QED BY <1>1 DEF OrderKey, Fields, Epoch

(* A nonempty finite set has an element that no other is below.             *)
LEMMA LeastExists ==
  ASSUME NEW S, IsFiniteSet(S), S # {}, NEW R,
         \A x \in S : <<x, x>> \notin R,
         \A x, y, z \in S : <<x, y>> \in R /\ <<y, z>> \in R => <<x, z>> \in R
  PROVE  \E x \in S : \A y \in S : <<y, x>> \notin R
<1> DEFINE Below(x) == {y \in S : <<y, x>> \in R}
           T == {Below(x) : x \in S}
<1>1. T \subseteq FiniteSubsetsOf(S) /\ T # {}
  <2>1. FiniteSubsetsOf(S) = SUBSET S
    BY FS_FiniteSubsetsOfFinite
  <2>2. PICK x \in S : TRUE
    OBVIOUS
  <2>3. Below(x) \in T
    BY <2>2, Zenon
  <2>4. ASSUME NEW Y \in T PROVE Y \subseteq S
    <3>1. PICK y \in S : Y = Below(y)
      BY <2>4
    <3> QED BY <3>1
  <2>5. T \subseteq SUBSET S
    <3> HIDE DEF T
    <3> QED BY <2>4
  <2> QED BY <2>1, <2>3, <2>5
<1>2. PICK X \in T : \A Y \in T : <<Y, X>> \notin StrictSubsetOrdering(S)
  BY <1>1, FS_StrictSubsetOrderingWellFounded, WFMin
<1>3. PICK x \in S : X = Below(x)
  OBVIOUS
<1>4. ASSUME NEW y \in S, <<y, x>> \in R PROVE FALSE
  <2>1. Below(y) \subseteq X /\ y \in X /\ y \notin Below(y)
    BY <1>3, <1>4
  <2>2. <<Below(y), X>> \in StrictSubsetOrdering(S)
    BY <2>1, <1>3 DEF StrictSubsetOrdering
  <2> QED BY <1>2, <2>2
<1> QED BY <1>4

(* Rows of the table that a list is cut from.                               *)
Rows(ids, order) == /\ ids \subseteq Ids /\ order.field \in Fields
                    /\ \A id \in ids : table[id] \in Row

(* Their keys are in a strict total order.                                  *)
LEMMA RowsOrdered ==
  ASSUME NEW ids, NEW order, Rows(ids, order)
  PROVE  /\ IsFiniteSet(ids)
         /\ \A i \in ids : Key(order, i) \in Int \X Int
         /\ \A i \in ids :
               ~ Precedes(order.dir, Key(order, i), Key(order, i))
         /\ \A i, j \in ids :
               \/ i = j \/ Precedes(order.dir, Key(order, i), Key(order, j))
               \/ Precedes(order.dir, Key(order, j), Key(order, i))
         /\ \A i, j, k \in ids :
               /\ Precedes(order.dir, Key(order, i), Key(order, j))
               /\ Precedes(order.dir, Key(order, j), Key(order, k))
               => Precedes(order.dir, Key(order, i), Key(order, k))
<1>1. ids \subseteq Ids
  BY DEF Rows
<1>2. IsFiniteSet(ids)
  BY <1>1, KeysAssumption, FS_Subset
<1>3. ASSUME NEW i \in ids
      PROVE  Key(order, i) \in Int \X Int /\ Key(order, i)[2] = i
  BY KeyType DEF Rows, Key
<1>4. ASSUME NEW i \in ids
      PROVE  ~ Precedes(order.dir, Key(order, i), Key(order, i))
  BY <1>3, PrecedesIrreflexive
<1>5. ASSUME NEW i \in ids, NEW j \in ids, i # j
      PROVE  \/ Precedes(order.dir, Key(order, i), Key(order, j))
             \/ Precedes(order.dir, Key(order, j), Key(order, i))
  BY <1>3, <1>5, PrecedesTotal
<1>6. ASSUME NEW i \in ids, NEW j \in ids, NEW k \in ids,
             Precedes(order.dir, Key(order, i), Key(order, j)),
             Precedes(order.dir, Key(order, j), Key(order, k))
      PROVE  Precedes(order.dir, Key(order, i), Key(order, k))
  BY <1>3, <1>6, PrecedesTransitive
<1> QED BY <1>2, <1>3, <1>4, <1>5, <1>6

(* A page that is not all of ids has a first row, so it has a last one.     *)
LEMMA FirstRowsNonempty ==
  ASSUME NEW ids, NEW order, Rows(ids, order), NEW size \in Nat, size >= 1,
         ids # {}
  PROVE  FirstRows(ids, order, size) # {}
<1> DEFINE R == {p \in ids \X ids :
                  Precedes(order.dir, Key(order, p[1]), Key(order, p[2]))}
<1>1. \A x, y \in ids : <<x, y>> \in R
                       <=> Precedes(order.dir, Key(order, x), Key(order, y))
  OBVIOUS
<1> HIDE DEF R
<1>2. PICK x \in ids : \A y \in ids : <<y, x>> \notin R
  <2>1. \A y \in ids : <<y, y>> \notin R
    BY <1>1, RowsOrdered
  <2>2. \A y, z, w \in ids : <<y, z>> \in R /\ <<z, w>> \in R => <<y, w>> \in R
    BY <1>1, RowsOrdered
  <2> QED BY <2>1, <2>2, RowsOrdered, LeastExists
<1>3. Before(ids, order, x) = {}
  BY <1>1, <1>2 DEF Before
<1> QED BY <1>3, FS_EmptySet DEF FirstRows

(* LastRow is the last of the rows.                                         *)
LEMMA LastRowIsLast ==
  ASSUME NEW ids, NEW order, Rows(ids, order), ids # {}
  PROVE  /\ LastRow(ids, order) \in ids
         /\ \A j \in ids : ~ Precedes(order.dir, Key(order, LastRow(ids, order)),
                                      Key(order, j))
<1> DEFINE R == {p \in ids \X ids :
                  Precedes(order.dir, Key(order, p[2]), Key(order, p[1]))}
           last == LastRow(ids, order)
<1>1. \A x, y \in ids : <<x, y>> \in R
                       <=> Precedes(order.dir, Key(order, y), Key(order, x))
  OBVIOUS
<1> HIDE DEF R
<1>2. PICK x \in ids : \A y \in ids : <<y, x>> \notin R
  <2>1. \A y \in ids : <<y, y>> \notin R
    BY <1>1, RowsOrdered
  <2>2. \A y, z, w \in ids : <<y, z>> \in R /\ <<z, w>> \in R => <<y, w>> \in R
    BY <1>1, RowsOrdered
  <2> QED BY <2>1, <2>2, RowsOrdered, LeastExists
<1>3. \A j \in ids \ {x} : Precedes(order.dir, Key(order, j), Key(order, x))
  BY <1>1, <1>2, RowsOrdered
<1>4. last \in ids /\ \A j \in ids \ {last} :
                       Precedes(order.dir, Key(order, j), Key(order, last))
  BY <1>3 DEF LastRow
<1> HIDE DEF last
<1>5. ASSUME NEW j \in ids, Precedes(order.dir, Key(order, last), Key(order, j))
      PROVE  FALSE
  BY <1>4, <1>5, RowsOrdered
<1> QED BY <1>4, <1>5 DEF last

(* What is not among the first rows comes after each of them.               *)
LEMMA FirstRowsClosed ==
  ASSUME NEW ids, NEW order, Rows(ids, order), NEW size \in Nat,
         NEW i \in FirstRows(ids, order, size),
         NEW j \in ids \ FirstRows(ids, order, size)
  PROVE  Precedes(order.dir, Key(order, i), Key(order, j))
<1>1. i \in ids /\ i # j
  BY DEF FirstRows
<1>2. ASSUME Precedes(order.dir, Key(order, j), Key(order, i)) PROVE FALSE
  <2>1. Before(ids, order, j) \subseteq Before(ids, order, i)
    BY <1>1, <1>2, RowsOrdered DEF Before
  <2>2. Before(ids, order, i) \subseteq ids
    BY DEF Before
  <2>3. IsFiniteSet(Before(ids, order, i))
    BY <2>2, RowsOrdered, FS_Subset
  <2>4. /\ Cardinality(Before(ids, order, j)) \in Nat
        /\ Cardinality(Before(ids, order, i)) \in Nat
        /\ Cardinality(Before(ids, order, j)) <= Cardinality(Before(ids, order, i))
    BY <2>1, <2>3, FS_Subset, FS_CardinalityType
  <2>5. Cardinality(Before(ids, order, i)) < size
    BY DEF FirstRows
  <2>6. Cardinality(Before(ids, order, j)) < size
    BY <2>4, <2>5
  <2> QED BY <2>6 DEF FirstRows
<1> QED BY <1>1, <1>2, RowsOrdered

(* A page: some of the rows that follow the token, all of them if there is  *)
(* no next token; otherwise the token is that of a row of the page, which   *)
(* no row of the page follows and every row left over does.                 *)
LEMMA PageCut ==
  ASSUME NEW ids, NEW order, Rows(ids, order), NEW size \in Nat, size >= 1,
         NEW named \in BOOLEAN
  PROVE  LET page == Page(ids, order, size, named)
             next == Following(ids, order)
         IN  /\ page.ids \subseteq next
             /\ \/ page.next = Done /\ page.ids = next
                \/ \E last \in page.ids :
                     /\ page.next = IF named THEN FullToken(last)
                                    ELSE TimeToken(last)
                     /\ \A j \in page.ids :
                          ~ Precedes(order.dir, Key(order, last), Key(order, j))
                     /\ \A j \in next \ page.ids :
                          Precedes(order.dir, Key(order, last), Key(order, j))
<1> DEFINE next == Following(ids, order)
           cut  == FirstRows(next, order, size)
           last == LastRow(cut, order)
<1>1. next \subseteq ids /\ Rows(next, order)
  BY DEF Following, Rows
<1> HIDE DEF next
<1>2. cut \subseteq next /\ Rows(cut, order)
  BY <1>1 DEF FirstRows, Rows
<1>3. /\ Page(ids, order, size, named).ids = cut
      /\ Page(ids, order, size, named).next =
           IF cut = next THEN Done
           ELSE IF named THEN FullToken(last) ELSE TimeToken(last)
  BY DEF Page, next
<1>4. CASE cut = next
  BY <1>3, <1>4 DEF next
<1>5. CASE cut # next
  <2>1. next # {}
    BY <1>2, <1>5
  <2>2. cut # {}
    BY <1>1, <2>1, FirstRowsNonempty
  <2>3. \A j \in next \ cut : \A i \in cut :
          Precedes(order.dir, Key(order, i), Key(order, j))
    BY <1>1, FirstRowsClosed
  <2> HIDE DEF cut
  <2>4. last \in cut /\ \A j \in cut :
          ~ Precedes(order.dir, Key(order, last), Key(order, j))
    BY <1>2, <2>2, LastRowIsLast
  <2> HIDE DEF last
  <2> QED BY <1>2, <1>3, <1>5, <2>3, <2>4 DEF next
<1> QED BY <1>4, <1>5

-----------------------------------------------------------------------------
(* Changes of the table.                                                    *)

(* What every change does: it leaves the walk alone, keeps as steady only   *)
(* rows that stayed as they were or matching and in place, and counts rows  *)
(* that changed place, or assignments that went, as moved.                  *)
TableStep ==
  /\ WalkUnchanged /\ UNCHANGED <<kind, query, dropped>>
  /\ table' \in [Ids -> Row \cup {Absent}]
  /\ changes' \in 0 .. MaxChanges
  /\ purge' \in PurgeState
  /\ steady' \subseteq steady
  /\ moved \subseteq moved' /\ moved' \subseteq Ids
  /\ \A id \in steady' :
       /\ id \in moved' => id \in moved
       /\ \/ table'[id] = table[id]
          \/ /\ table'[id] # Absent /\ Matches(table', id)
             /\ Placed(table', id) = Placed(table, id)
  /\ \A id \in Ids \ moved' :
       \/ table'[id] = table[id]
       \/ table[id] = Absent /\ (kind # "assignment" => seen[id] = 0)
       \/ table'[id] = Absent /\ kind # "assignment"
       \/ /\ table[id] # Absent /\ table'[id] # Absent
          /\ Placed(table', id) = Placed(table, id)

(* A change that goes through Becomes.                                      *)
LEMMA BecomesStep ==
  ASSUME BaseInv, NEW t \in [Ids -> Row \cup {Absent}], Becomes(t),
         UNCHANGED <<kind, query, purge, dropped>>,
         \A id \in Ids : \/ t[id] = table[id]
                         \/ table[id] = Absent
                            /\ (kind # "assignment" => seen[id] = 0)
                         \/ table[id] # Absent /\ t[id] # Absent
  PROVE  TableStep
<1> USE DEF BaseInv, Becomes
<1>1. /\ table' = t /\ WalkUnchanged /\ purge' \in PurgeState
      /\ steady' \subseteq steady /\ moved \subseteq moved'
  BY DEF TypeOK
<1>2. changes' \in 0 .. MaxChanges
  BY SizesAssumption DEF TypeOK
<1>3. moved' \subseteq Ids
  BY DEF TypeOK, Present
<1>4. ASSUME NEW id \in steady'
      PROVE  /\ id \in moved' => id \in moved
             /\ table'[id] # Absent /\ Matches(table', id)
             /\ Placed(table', id) = Placed(table, id)
  BY <1>4
<1>5. ASSUME NEW id \in Ids \ moved', table[id] # Absent, t[id] # Absent
      PROVE  Placed(table', id) = Placed(table, id)
  BY <1>5 DEF Present
<1> QED BY <1>1, <1>2, <1>3, <1>4, <1>5 DEF TableStep

(* Rows are created, renamed and change status, deleted.                    *)
LEMMA CreateStep ==
  ASSUME BaseInv, NEW id \in Ids, CreateRow(id), UNCHANGED <<kind, query>>
  PROVE  TableStep /\ PurgeOK' /\ EventsAreWellFormed'
<1>1. PICK r \in Varies(kind, query) : Becomes([table EXCEPT ![id] = r])
  BY DEF CreateRow
<1>2. r \in Row /\ table \in [Ids -> Row \cup {Absent}]
  BY DEF Varies, BaseInv, TypeOK
<1>3. TableStep
  BY <1>1, <1>2, BecomesStep DEF CreateRow
<1> QED BY <1>3 DEF CreateRow, BaseInv, PurgeOK, EventsAreWellFormed

LEMMA RenameStep ==
  ASSUME BaseInv, NEW id \in Ids, RenameRow(id), UNCHANGED <<kind, query>>
  PROVE  TableStep /\ PurgeOK' /\ EventsAreWellFormed'
<1>1. PICK n \in Names : Becomes([table EXCEPT ![id].name = n])
  BY DEF RenameRow
<1>2. table \in [Ids -> Row \cup {Absent}] /\ table[id] \in Row
  BY DEF BaseInv, TypeOK, RenameRow
<1>3. [table[id] EXCEPT !.name = n] \in Row
  BY <1>2 DEF Row
<1>4. [table[id] EXCEPT !.name = n] # Absent
  BY <1>3 DEF Row, Absent, Statuses, Outcomes
<1>5. TableStep
  BY <1>1, <1>2, <1>3, <1>4, BecomesStep DEF RenameRow
<1> QED BY <1>5 DEF RenameRow, BaseInv, PurgeOK, EventsAreWellFormed

LEMMA StatusStep ==
  ASSUME BaseInv, NEW id \in Ids, ChangeStatus(id), UNCHANGED <<kind, query>>
  PROVE  TableStep /\ PurgeOK' /\ EventsAreWellFormed'
<1>1. PICK s \in {"active", "inactive"} :
        Becomes([table EXCEPT ![id].status = s])
  BY DEF ChangeStatus
<1>2. table \in [Ids -> Row \cup {Absent}] /\ table[id] \in Row
  BY DEF BaseInv, TypeOK, ChangeStatus
<1>3. [table[id] EXCEPT !.status = s] \in Row
  BY <1>2 DEF Row, Statuses
<1>4. [table[id] EXCEPT !.status = s] # Absent
  BY <1>3 DEF Row, Absent, Statuses, Outcomes
<1>5. TableStep
  BY <1>1, <1>2, <1>3, <1>4, BecomesStep DEF ChangeStatus
<1> QED BY <1>5 DEF ChangeStatus, BaseInv, PurgeOK, EventsAreWellFormed

LEMMA DeleteStep ==
  ASSUME BaseInv, NEW id \in Ids, DeleteRow(id), UNCHANGED <<kind, query>>
  PROVE  TableStep /\ PurgeOK' /\ EventsAreWellFormed'
<1>1. /\ table' = [table EXCEPT ![id] = Absent]
      /\ table' \in [Ids -> Row \cup {Absent}]
      /\ steady' = steady \ {id} /\ moved' = moved \cup {id}
      /\ moved' \subseteq Ids
      /\ WalkUnchanged /\ purge' = purge /\ purge' \in PurgeState
      /\ dropped' = dropped
  BY DEF DeleteRow, BaseInv, TypeOK
<1>2. changes' \in 0 .. MaxChanges
  BY SizesAssumption DEF DeleteRow, BaseInv, TypeOK
<1>3. TableStep
  BY <1>1, <1>2 DEF TableStep, BaseInv, TypeOK
<1> QED BY <1>1, <1>3 DEF DeleteRow, BaseInv, PurgeOK, EventsAreWellFormed

(* Every emitting use case has a known event type and subject type, and     *)
(* takes its ids from somewhere.                                            *)
Sources == {"request", "minted", "actor", "row", "none"}

UseCaseOK(u) == /\ u.event \in EventTypes /\ u.subject \in SubjectTypes
                /\ u.subjectFrom \in Sources /\ u.appFrom \in Sources

LEMMA UseCasesOK ==
  ASSUME NEW events \in SUBSET EventTypes, NEW subject \in SubjectTypes,
         NEW from \in Sources, NEW app \in Sources,
         NEW u \in UseCases(events, subject, from, app)
  PROVE  UseCaseOK(u)
BY DEF UseCases, UseCaseOK

LEMMA TableOfUseCases ==
  \A u \in ActorUseCases \cup AnonymousUseCases : UseCaseOK(u)
<1> USE DEF Sources, SubjectTypes
<1>1. \A u \in IdentityUseCases : UseCaseOK(u)
  BY UseCasesOK DEF IdentityUseCases, EventTypes
<1>2. \A u \in AppUseCases : UseCaseOK(u)
  BY UseCasesOK DEF AppUseCases, EventTypes
<1>3. \A u \in RoleUseCases : UseCaseOK(u)
  BY UseCasesOK DEF RoleUseCases, EventTypes
<1>4. \A u \in ServiceAccountUseCases : UseCaseOK(u)
  BY UseCasesOK DEF ServiceAccountUseCases, EventTypes
<1>5. \A u \in AccessUseCases : UseCaseOK(u)
  BY UseCasesOK DEF AccessUseCases, EventTypes
<1>6. \A u \in AuthUseCases : UseCaseOK(u)
  BY UseCasesOK DEF AuthUseCases, EventTypes
<1>7. \A u \in AnonymousUseCases : UseCaseOK(u)
  BY UseCasesOK DEF AnonymousUseCases, EventTypes
<1> QED BY <1>1, <1>2, <1>3, <1>4, <1>5, <1>6, <1>7, Zenon DEF ActorUseCases

(* What NewAudit asks of an event before its outcome is stamped.            *)
ParamsOK(p) ==
  /\ p.eventType \in EventTypes
  /\ p.actorType \in ActorTypes
  /\ IF RequiresActorID(p.actorType) THEN Parses(p.actorID)
     ELSE p.actorID = Unset
  /\ p.subjectID # Unset =>
       p.subjectType \in SubjectTypes /\ Parses(p.subjectID)
  /\ p.appID # Unset => Parses(p.appID)
  /\ p.ip \in PeerIPs
  /\ p.metadata = {}

(* An id a use case fills in is a UUID or still unset, whatever the request *)
(* carried, as the event is begun after the ids were parsed.                *)
LEMMA IDsParse ==
  ASSUME NEW source \in Sources, NEW raw, NEW isRead \in BOOLEAN,
         source = "request" => Parses(raw)
  PROVE  IDFrom(source, raw, isRead) \in {Unset, "uuid"}
BY DEF IDFrom, Sources, Parses, Unset

LEMMA FilledOK ==
  ASSUME NEW event \in EventTypes, NEW type \in ActorTypes, NEW actorID,
         NEW ip \in PeerIPs,
         IF RequiresActorID(type) THEN Parses(actorID) ELSE actorID = Unset,
         NEW u, UseCaseOK(u), NEW req, Begun(u, req), NEW read
  PROVE  ParamsOK(Filled(Params(event, type, actorID, ip), u, req, read))
<1> DEFINE sid == IDFrom(u.subjectFrom, req.subject, "subject" \in read)
           aid == IDFrom(u.appFrom, req.app, "app" \in read)
           p   == Filled(Params(event, type, actorID, ip), u, req, read)
<1>1. sid \in {Unset, "uuid"} /\ aid \in {Unset, "uuid"}
  <2>1. ("subject" \in read) \in BOOLEAN /\ ("app" \in read) \in BOOLEAN
    OBVIOUS
  <2>2. sid \in {Unset, "uuid"}
    BY <2>1, IDsParse, Zenon DEF UseCaseOK, Begun
  <2>3. aid \in {Unset, "uuid"}
    BY <2>1, IDsParse, Zenon DEF UseCaseOK, Begun
  <2> QED BY <2>2, <2>3
<1>2. /\ p.eventType = event /\ p.actorType = type /\ p.actorID = actorID
      /\ p.subjectType = IF sid = Unset THEN Unknown ELSE u.subject
      /\ p.subjectID = sid /\ p.appID = aid /\ p.ip = ip /\ p.metadata = {}
  BY DEF Filled, Params
<1> HIDE DEF sid, aid, p
<1>3. ParamsOK(p)
  BY <1>1, <1>2 DEF ParamsOK, UseCaseOK, Parses
<1> QED BY <1>3 DEF p

LEMMA StampedOK ==
  ASSUME NEW event, NEW type, NEW actorID, NEW ip, NEW u, NEW req, NEW read,
         NEW err \in Results,
         ParamsOK(Filled(Params(event, type, actorID, ip), u, req, read))
  PROVE  NewAudit(
           Stamped(Filled(Params(event, type, actorID, ip), u, req, read), err))
<1> DEFINE p == Filled(Params(event, type, actorID, ip), u, req, read)
           q == Stamped(p, err)
<1>1. /\ q.eventType = p.eventType /\ q.actorType = p.actorType
      /\ q.actorID = p.actorID /\ q.subjectType = p.subjectType
      /\ q.subjectID = p.subjectID /\ q.appID = p.appID /\ q.ip = p.ip
      /\ q.metadata = p.metadata
      /\ q.outcome = IF err = "OK" THEN "success" ELSE Classify(err).outcome
      /\ q.reason = IF err = "OK" THEN NoReason ELSE Classify(err).reason
  BY DEF Filled, Params, Stamped, Success, WithOutcome
<1>2. ParamsOK(p)
  OBVIOUS
<1> HIDE DEF p, q
<1>3. q.outcome \in Outcomes /\ q.reason \in Reasons \cup {NoReason}
  BY <1>1 DEF Results, Classify, errReasonMap, Outcomes, Reasons
<1>4. q.outcome = "success" => q.reason = NoReason
  BY <1>1 DEF Results, Classify, errReasonMap
<1>5. validateMetadata(q.metadata)
  BY <1>1, <1>2, FS_EmptySet DEF validateMetadata, ParamsOK, MetadataMaxEntries
<1>6. NewAudit(q)
  <2>1. q.eventType \in EventTypes /\ q.actorType \in ActorTypes
    BY <1>1, <1>2 DEF ParamsOK
  <2>2. IF RequiresActorID(q.actorType) THEN Parses(q.actorID)
        ELSE q.actorID = Unset
    BY <1>1, <1>2, Zenon DEF ParamsOK
  <2>3. /\ q.subjectID # Unset =>
             q.subjectType \in SubjectTypes /\ Parses(q.subjectID)
        /\ q.appID # Unset => Parses(q.appID)
    BY <1>1, <1>2, Zenon DEF ParamsOK
  <2>4. q.ip # Unset => q.ip = "addr"
    BY <1>1, <1>2 DEF ParamsOK, PeerIPs
  <2> QED BY <1>3, <1>4, <1>5, <2>1, <2>2, <2>3, <2>4, Zenon DEF NewAudit
<1> QED BY <1>6 DEF p, q

(* Whoever calls, whatever the request carries and wherever the use case    *)
(* stops, the event it builds passes NewAudit.                              *)
LEMMA EventsPass == \A q \in Built : NewAudit(q)
<1>1. ASSUME NEW p \in ActorParams, NEW err \in Results
      PROVE  NewAudit(Stamped(p, err))
  <2>1. PICK c \in Calls(ActorKinds, ActorUseCases) :
          /\ Begun(c.use, c.req)
          /\ p = Filled(BaseFromActor(c.by, c.use.event, c.ip), c.use, c.req,
                        c.read)
    BY <1>1 DEF ActorParams
  <2>2. c.by \in ActorKinds /\ c.use \in ActorUseCases /\ c.ip \in PeerIPs
    BY DEF Calls
  <2>3. MapActorKind(c.by) \in {"user", "service"}
    BY <2>2 DEF MapActorKind, ActorKinds
  <2>4. /\ MapActorKind(c.by) \in ActorTypes
        /\ IF RequiresActorID(MapActorKind(c.by)) THEN Parses("uuid")
           ELSE "uuid" = Unset
    BY <2>3 DEF ActorTypes, RequiresActorID, Parses
  <2>5. UseCaseOK(c.use) /\ c.use.event \in EventTypes
    BY <2>2, TableOfUseCases DEF UseCaseOK
  <2>6. ParamsOK(Filled(Params(c.use.event, MapActorKind(c.by), "uuid", c.ip),
                        c.use, c.req, c.read))
    BY <2>1, <2>2, <2>4, <2>5, FilledOK
  <2> QED BY <1>1, <2>1, <2>6, StampedOK DEF BaseFromActor
<1>2. ASSUME NEW p \in AnonymousParams, NEW err \in Results
      PROVE  NewAudit(Stamped(p, err))
  <2>1. PICK c \in Calls({"nobody"}, AnonymousUseCases) :
          /\ Begun(c.use, c.req)
          /\ p = Filled(AnonymousBase(c.use.event, c.ip), c.use, c.req, c.read)
    BY <1>2 DEF AnonymousParams
  <2>2. c.use \in AnonymousUseCases /\ c.ip \in PeerIPs
    BY DEF Calls
  <2>3. "anonymous" \in ActorTypes /\ ~ RequiresActorID("anonymous")
    BY DEF ActorTypes, RequiresActorID
  <2>4. IF RequiresActorID("anonymous") THEN Parses(Unset) ELSE Unset = Unset
    BY <2>3, Zenon
  <2>5. UseCaseOK(c.use) /\ c.use.event \in EventTypes
    BY <2>2, TableOfUseCases DEF UseCaseOK
  <2>6. ParamsOK(Filled(Params(c.use.event, "anonymous", Unset, c.ip),
                        c.use, c.req, c.read))
    BY <2>1, <2>2, <2>3, <2>4, <2>5, FilledOK
  <2> QED BY <1>2, <2>1, <2>6, StampedOK DEF AnonymousBase
<1> QED BY <1>1, <1>2 DEF Built

LEMMA NothingRefused == Refused = {} /\ Recorded \subseteq Outcomes
<1>1. Refused = {}
  BY EventsPass DEF Refused
<1>2. \A q \in Built : q.outcome \in Outcomes
  BY EventsPass DEF NewAudit
<1> QED BY <1>1, <1>2 DEF Recorded

LEMMA EmitStep ==
  ASSUME BaseInv, NEW id \in Ids, Emit(id), UNCHANGED <<kind, query>>
  PROVE  TableStep /\ PurgeOK' /\ EventsAreWellFormed'
<1>1. table \in [Ids -> Row \cup {Absent}]
  BY DEF BaseInv, TypeOK
<1>2. PICK outcome \in Recorded :
        LET row == [at |-> Now, name |-> 1, status |-> outcome]
        IN  \/ Becomes([table EXCEPT ![id] = row]) /\ UNCHANGED dropped
            \/ Becomes(table) /\ UNCHANGED dropped
  BY NothingRefused DEF Emit, OccurredAt
<1> DEFINE row == [at |-> Now, name |-> 1, status |-> outcome]
<1>3. row \in Row
  <2>1. Now \in Times
    BY KeysAssumption DEF Now
  <2>2. 1 \in Names
    BY KeysAssumption
  <2>3. outcome \in Statuses
    BY NothingRefused DEF Statuses
  <2> QED BY <2>1, <2>2, <2>3 DEF Row
<1> HIDE DEF row
<1>4. PICK t \in {table, [table EXCEPT ![id] = row]} :
        Becomes(t) /\ UNCHANGED dropped
  BY <1>2 DEF row
<1>5. t \in [Ids -> Row \cup {Absent}] /\ \A i \in Ids \ {id} : t[i] = table[i]
  BY <1>1, <1>3, <1>4
<1>6. TableStep
  BY <1>4, <1>5, BecomesStep DEF Emit
<1>7. PurgeOK'
  <2>1. purge' = purge /\ id \notin purge.doomed /\ table' = t
    BY <1>4 DEF Emit, Becomes
  <2>2. purge.doomed \subseteq Ids
    BY DEF BaseInv, TypeOK, PurgeState
  <2> QED BY <1>5, <2>1, <2>2 DEF PurgeOK, BaseInv
<1> QED BY <1>4, <1>6, <1>7 DEF BaseInv, EventsAreWellFormed

(* The purge: a cutoff, batches, a failure.                                 *)
LEMMA CutoffStep ==
  ASSUME BaseInv, resolveAuditCutoff, UNCHANGED <<kind, query>>
  PROVE  TableStep /\ PurgeOK' /\ EventsAreWellFormed'
<1>1. PICK t \in Times \cup {Tomorrow} :
        purge' = [pc |-> "deleting", cutoff |-> t,
                  doomed |-> {id \in Present(table) : table[id].at < t}]
  BY DEF resolveAuditCutoff
<1>2. purge' \in PurgeState
  BY <1>1 DEF PurgeState, Present
<1>3. TableStep
  BY <1>2 DEF TableStep, resolveAuditCutoff, BaseInv, TypeOK
<1>4. PurgeOK'
  BY <1>1 DEF PurgeOK, resolveAuditCutoff, Present
<1> QED BY <1>3, <1>4 DEF resolveAuditCutoff, BaseInv, EventsAreWellFormed

LEMMA FailStep ==
  ASSUME BaseInv, PurgeFails, UNCHANGED <<kind, query>>
  PROVE  TableStep /\ PurgeOK' /\ EventsAreWellFormed'
<1>1. purge' \in PurgeState /\ purge'.pc = "failed"
  BY DEF PurgeFails, BaseInv, TypeOK, PurgeState
<1>2. TableStep
  BY <1>1 DEF TableStep, PurgeFails, BaseInv, TypeOK
<1>3. PurgeOK'
  BY <1>1 DEF PurgeOK, PurgeFails, BaseInv
<1> QED BY <1>2, <1>3 DEF PurgeFails, BaseInv, EventsAreWellFormed

LEMMA BatchStep ==
  ASSUME BaseInv, auditPurge, UNCHANGED <<kind, query>>
  PROVE  TableStep /\ PurgeOK' /\ EventsAreWellFormed'
<1> USE DEF auditPurge, PurgeBatch
<1>1. PICK batch \in SUBSET Expired :
        /\ Cardinality(batch) < BatchSize => batch = Expired
        /\ table' = [id \in Ids |-> IF id \in batch THEN Absent ELSE table[id]]
        /\ steady' = steady \ batch
        /\ purge' = [purge EXCEPT !.pc = IF Cardinality(batch) < BatchSize
                                         THEN "done" ELSE "deleting"]
  OBVIOUS
<1>2. kind = "audit" /\ purge.pc = "deleting"
  BY DEF BaseInv, PurgeOK
<1>3. /\ purge' \in PurgeState
      /\ purge'.cutoff = purge.cutoff /\ purge'.doomed = purge.doomed
      /\ purge'.pc = IF Cardinality(batch) < BatchSize THEN "done" ELSE "deleting"
  BY <1>1 DEF BaseInv, TypeOK, PurgeState
<1>4. TableStep
  <2>1. table' \in [Ids -> Row \cup {Absent}]
    BY <1>1 DEF BaseInv, TypeOK
  <2>2. \A id \in Ids : id \notin batch => table'[id] = table[id]
    BY <1>1
  <2>3. \A id \in Ids : id \in batch => table'[id] = Absent
    BY <1>1
  <2>4. /\ steady \subseteq Ids /\ moved' = moved /\ moved \subseteq Ids
        /\ changes' \in 0 .. MaxChanges /\ dropped' = dropped
    BY DEF BaseInv, TypeOK
  <2> QED BY <1>1, <1>2, <1>3, <2>1, <2>2, <2>3, <2>4 DEF TableStep
<1>5. PurgeOK'
  <2>1. \A id \in purge.doomed : id \in Ids
    BY DEF BaseInv, TypeOK, PurgeState
  <2>2. \A id \in purge.doomed :
          \/ table'[id] = Absent
          \/ id \notin batch /\ table'[id] = table[id] /\ table[id] # Absent
    BY <1>1, <2>1
  <2>3. \A id \in purge.doomed : table[id] # Absent => id \in Expired
    BY <1>2, <2>1 DEF BaseInv, PurgeOK, Expired, Present
  <2>4. \A id \in purge.doomed :
          table'[id] # Absent => table'[id].at < purge.cutoff
    BY <1>2, <2>2 DEF BaseInv, PurgeOK
  <2>5. purge'.pc = "done" => batch = Expired
    BY <1>1, <1>3
  <2> QED BY <1>2, <1>3, <2>2, <2>3, <2>4, <2>5 DEF PurgeOK
<1> QED BY <1>4, <1>5 DEF BaseInv, EventsAreWellFormed

-----------------------------------------------------------------------------
(* Requests.                                                                *)

(* A request delivers a page of the selected rows, without some of them,    *)
(* and with tokens that keep the name where the list is ordered by it ...   *)
Delivered ==
  \E named \in BOOLEAN, skipped \in SUBSET Ids :
    /\ query.order.field = "name" => named
    /\ query.size >= 0 /\ after # Done
    /\ Deliver(Page(Selected, query.order, Size, named), skipped)

(* ... or answers with an error.                                            *)
Declined == reply' \in {"INVALID_ARGUMENT", "PERMISSION_DENIED", "INTERNAL"}
            /\ UNCHANGED <<after, seen, unread>>

LEMMA RequestEffect ==
  ASSUME BaseInv, NEW named \in BOOLEAN, query.order.field = "name" => named,
         Request(Page(Selected, query.order, Size, named))
  PROVE  TableUnchanged /\ (Delivered \/ Declined)
<1>1. {} \in SUBSET Ids
  OBVIOUS
<1> QED BY <1>1 DEF Request, Delivered, Declined, Refuse

LEMMA ListEffect ==
  ASSUME BaseInv, List
  PROVE  TableUnchanged /\ (Delivered \/ Declined)
<1> USE DEF BaseInv
<1>1. CASE ListUsers \/ ListApps \/ ListRoles \/ ListServiceAccounts
  <2>1. Request(Page(Selected, query.order, Size, TRUE))
    BY <1>1 DEF ListUsers, ListApps, ListRoles, ListServiceAccounts, UserPage,
       AppPage, RolePage, ServiceAccountPage
  <2> QED BY <2>1, RequestEffect
<1>2. CASE ListSessions
  <2>1. query.order = NewestFirst
    BY <1>2 DEF ListSessions, OrderOK
  <2>2. query.order.field # "name"
    BY <2>1 DEF NewestFirst
  <2>3. Request(Page(Selected, query.order, Size, FALSE))
    BY <1>2, <2>1 DEF ListSessions, selectSessionsPage
  <2> QED BY <2>2, <2>3, RequestEffect
<1>3. CASE ListAuditEvents
  <2>1. query.order = NewestFirst
    BY <1>3 DEF ListAuditEvents, OrderOK
  <2>2. query.order.field # "name"
    BY <2>1 DEF NewestFirst
  <2>3. CASE Request(AuditPage(Size))
    <3>1. Request(Page(Selected, query.order, Size, FALSE))
      BY <2>1, <2>3 DEF AuditPage
    <3> QED BY <2>2, <3>1, RequestEffect
  <2>4. CASE TableUnchanged /\ Refuse("PERMISSION_DENIED")
    BY <2>4 DEF Declined, Refuse
  <2> QED BY <1>3, <2>3, <2>4 DEF ListAuditEvents
<1>4. CASE ListUserRoles
  <2>1. query.order.field # "name"
    BY <1>4 DEF ListUserRoles, OrderOK, Orderable, AssignmentOrders
  <2>2. TableUnchanged /\ after # Done
    BY <1>4 DEF ListUserRoles
  <2>3. CASE Refuse("INVALID_ARGUMENT") \/ Refuse("INTERNAL")
    BY <2>2, <2>3 DEF Declined, Refuse
  <2>4. ASSUME query.size >= 0,
               NEW skipped \in SUBSET AssignmentPage(Size).ids,
               Deliver(AssignmentPage(Size), skipped)
        PROVE  Delivered
    <3>1. AssignmentPage(Size) = Page(Selected, query.order, Size, FALSE)
      BY DEF AssignmentPage
    <3>2. AssignmentPage(Size).ids \subseteq Ids
      BY <3>1 DEF Page, FirstRows, Following, Selected, Present
    <3> QED BY <2>1, <2>2, <2>4, <3>1, <3>2 DEF Delivered
  <2>5. query.size \in Int
    BY SizesAssumption DEF TypeOK, Query
  <2> QED BY <1>4, <2>2, <2>3, <2>4, <2>5 DEF ListUserRoles
<1> QED BY <1>1, <1>2, <1>3, <1>4 DEF List

(* The selected rows are rows, and the page has room for one at least.      *)
LEMMA SelectedRows ==
  ASSUME BaseInv
  PROVE  /\ Rows(Selected, query.order)
         /\ query.size >= 0 => Size \in Nat /\ Size >= 1
<1>1. query.order.field \in Fields
  BY DEF BaseInv, OrderOK, Orderable, UserOrders, AppOrders, RoleOrders,
     ServiceAccountOrders, AssignmentOrders, Fields
<1>2. \A id \in Selected : id \in Ids /\ table[id] \in Row
  BY DEF BaseInv, TypeOK, Selected, Present
<1>3. query.size \in Int
  BY SizesAssumption DEF BaseInv, TypeOK, Query
<1> QED BY <1>1, <1>2, <1>3, SizesAssumption DEF Rows, Size, ClampPageSize

(* Tokens made from a row; they name its place in the order.                *)
LEMMA TokensOfRows ==
  ASSUME BaseInv, NEW id \in Selected, NEW named \in BOOLEAN,
         query.order.field = "name" => named, NEW c,
         c = IF named THEN FullToken(id) ELSE TimeToken(id)
  PROVE  /\ c \in Token /\ c # First /\ c # Done
         /\ query.order.field # "auth" =>
              CursorKey(query.order.field, c) = Key(query.order, id)
<1>1. id \in Ids /\ table[id].at \in Times /\ table[id].name \in Names
  <2>1. id \in Ids /\ table[id] \in Row
    BY SelectedRows DEF Rows
  <2> QED BY <2>1 DEF Row
<1>2. id # 0 /\ id # -1
  BY <1>1, KeysAssumption
<1>3. /\ c \in Token /\ c.id = id /\ c.at = table[id].at
      /\ named => c.name = table[id].name
  BY <1>1 DEF FullToken, TimeToken, Token
<1>4. query.order.field \in Fields
  BY SelectedRows DEF Rows
<1>5. query.order.field # "auth" =>
        CursorKey(query.order.field, c) = Key(query.order, id)
  BY <1>3, <1>4 DEF CursorKey, Key, OrderKey, Fields
<1> QED BY <1>2, <1>3, <1>5 DEF First, Done

(* What a delivered page did.                                               *)
LEMMA DeliverEffect ==
  ASSUME BaseInv, Delivered
  PROVE  \E cut \in SUBSET Following(Selected, query.order),
            skipped \in SUBSET Ids :
           /\ after # Done /\ reply' = "page"
           /\ seen' = [id \in Ids |-> IF id \in cut \ skipped /\ seen[id] < 2
                                      THEN seen[id] + 1 ELSE seen[id]]
           /\ unread' = unread \cup skipped
           /\ \/ after' = Done /\ cut = Following(Selected, query.order)
              \/ \E last \in cut :
                   /\ after' \in Token /\ after' # First /\ after' # Done
                   /\ query.order.field # "auth" =>
                        CursorKey(query.order.field, after')
                          = Key(query.order, last)
                   /\ \A j \in cut :
                        ~ Precedes(query.order.dir, Key(query.order, last),
                                   Key(query.order, j))
                   /\ \A j \in Following(Selected, query.order) \ cut :
                        Precedes(query.order.dir, Key(query.order, last),
                                 Key(query.order, j))
<1>1. PICK named \in BOOLEAN, skipped \in SUBSET Ids :
        /\ query.order.field = "name" => named
        /\ query.size >= 0 /\ after # Done
        /\ Deliver(Page(Selected, query.order, Size, named), skipped)
  BY DEF Delivered
<1> DEFINE page == Page(Selected, query.order, Size, named)
           next == Following(Selected, query.order)
<1>2. /\ page.ids \subseteq next
      /\ \/ page.next = Done /\ page.ids = next
         \/ \E last \in page.ids :
              /\ page.next = IF named THEN FullToken(last) ELSE TimeToken(last)
              /\ \A j \in page.ids :
                   ~ Precedes(query.order.dir, Key(query.order, last),
                              Key(query.order, j))
              /\ \A j \in next \ page.ids :
                   Precedes(query.order.dir, Key(query.order, last),
                            Key(query.order, j))
  BY <1>1, SelectedRows, PageCut
<1>3. /\ reply' = "page" /\ after' = page.next
      /\ seen' = [id \in Ids |-> IF id \in page.ids \ skipped /\ seen[id] < 2
                                 THEN seen[id] + 1 ELSE seen[id]]
      /\ unread' = unread \cup skipped
  BY <1>1 DEF Deliver
<1> HIDE DEF page
<1>4. CASE page.next = Done /\ page.ids = next
  <2> DEFINE cut == page.ids
  <2>1. cut \in SUBSET next
    BY <1>2
  <2> HIDE DEF cut
  <2> QED BY <1>1, <1>3, <1>4, <2>1 DEF cut
<1>5. ASSUME NEW last \in page.ids,
             page.next = IF named THEN FullToken(last) ELSE TimeToken(last)
      PROVE  /\ after' \in Token /\ after' # First /\ after' # Done
             /\ query.order.field # "auth" =>
                  CursorKey(query.order.field, after') = Key(query.order, last)
  <2>1. last \in Selected
    BY <1>2, <1>5 DEF Following
  <2> QED BY <1>1, <1>3, <1>5, <2>1, TokensOfRows
<1> HIDE DEF next
<1>6. ASSUME NEW last \in page.ids,
             page.next = IF named THEN FullToken(last) ELSE TimeToken(last),
             \A j \in page.ids :
               ~ Precedes(query.order.dir, Key(query.order, last),
                          Key(query.order, j)),
             \A j \in next \ page.ids :
               Precedes(query.order.dir, Key(query.order, last),
                        Key(query.order, j))
      PROVE  \E x \in page.ids :
               /\ after' \in Token /\ after' # First /\ after' # Done
               /\ query.order.field # "auth" =>
                    CursorKey(query.order.field, after') = Key(query.order, x)
               /\ \A j \in page.ids :
                    ~ Precedes(query.order.dir, Key(query.order, x),
                               Key(query.order, j))
               /\ \A j \in next \ page.ids :
                    Precedes(query.order.dir, Key(query.order, x),
                             Key(query.order, j))
  BY <1>5, <1>6
<1>7. CASE ~ (page.next = Done /\ page.ids = next)
  <2> DEFINE cut == page.ids
  <2>1. cut \in SUBSET next
    BY <1>2
  <2>2. \E last \in cut :
               /\ after' \in Token /\ after' # First /\ after' # Done
               /\ query.order.field # "auth" =>
                    CursorKey(query.order.field, after') = Key(query.order, last)
               /\ \A j \in cut :
                    ~ Precedes(query.order.dir, Key(query.order, last),
                               Key(query.order, j))
               /\ \A j \in next \ cut :
                    Precedes(query.order.dir, Key(query.order, last),
                             Key(query.order, j))
    BY <1>2, <1>6, <1>7
  <2>3. after # Done
    BY <1>1
  <2> HIDE DEF cut
  <2> QED BY <1>3, <2>1, <2>2, <2>3, Zenon DEF cut, next
<1> QED BY <1>4, <1>7

-----------------------------------------------------------------------------
(* The invariant without the walk.                                          *)

(* A step is a change of the table, a page or a refusal.                    *)
LEMMA StepEffect ==
  ASSUME BaseInv, Next
  PROVE  \/ TableStep /\ PurgeOK' /\ EventsAreWellFormed'
         \/ /\ TableUnchanged /\ UNCHANGED <<kind, query>>
            /\ Delivered \/ Declined
BY ListEffect, CutoffStep, BatchStep, FailStep, CreateStep, DeleteStep,
   RenameStep, StatusStep, EmitStep DEF Next, Step

LEMMA InitBase == Init => BaseInv
<1> SUFFICES ASSUME Init PROVE BaseInv OBVIOUS
<1>1. table \in [Ids -> Row \cup {Absent}]
  BY DEF Init, Varies
<1>2. purge \in PurgeState /\ purge.pc = "idle"
  BY DEF Init, PurgeState
<1>3. steady \subseteq Ids
  BY DEF Init, Selected, Present
<1>4. TypeOK
  <2>1. changes \in 0 .. MaxChanges /\ seen \in [Ids -> 0 .. 2]
    BY SizesAssumption DEF Init
  <2>2. dropped \in BOOLEAN
    BY DEF Init
  <2>3. moved \subseteq Ids /\ unread \subseteq Ids
    BY DEF Init
  <2>4. /\ kind \in Kinds /\ query \in Query
        /\ after \in Token \cup {First, Done} /\ reply = "none"
    BY DEF Init
  <2> QED BY <1>1, <1>2, <1>3, <2>1, <2>2, <2>3, <2>4 DEF TypeOK
<1>5. OrderOK
  BY DEF Init, OrderOK
<1>6. PurgeOK
  BY <1>2 DEF PurgeOK
<1> QED BY <1>4, <1>5, <1>6 DEF Init, BaseInv, EventsAreWellFormed

LEMMA NextBase == BaseInv /\ [Next]_vars => BaseInv'
<1> SUFFICES ASSUME BaseInv, [Next]_vars PROVE BaseInv' OBVIOUS
<1>1. CASE UNCHANGED vars
  BY <1>1 DEF vars, BaseInv, TypeOK, OrderOK, PurgeOK, EventsAreWellFormed
<1>2. CASE TableStep /\ PurgeOK' /\ EventsAreWellFormed'
  <2>1. TypeOK'
    BY <1>2 DEF TableStep, WalkUnchanged, BaseInv, TypeOK, EventsAreWellFormed
  <2>2. OrderOK'
    BY <1>2 DEF TableStep, BaseInv, OrderOK
  <2> QED BY <1>2, <2>1, <2>2 DEF BaseInv
<1>3. ASSUME TableUnchanged, UNCHANGED <<kind, query>>, Delivered \/ Declined
      PROVE  BaseInv'
  <2>1. after' \in Token \cup {First, Done} /\ unread' \subseteq Ids
        /\ seen' \in [Ids -> 0 .. 2]
        /\ reply' \in {"page", "INVALID_ARGUMENT", "PERMISSION_DENIED", "INTERNAL"}
    <3>1. CASE Declined
      BY <3>1 DEF Declined, BaseInv, TypeOK
    <3>2. CASE Delivered
      <4>1. PICK cut \in SUBSET Following(Selected, query.order),
                 skipped \in SUBSET Ids :
              /\ reply' = "page"
              /\ seen' = [id \in Ids |-> IF id \in cut \ skipped /\ seen[id] < 2
                                         THEN seen[id] + 1 ELSE seen[id]]
              /\ unread' = unread \cup skipped
              /\ after' = Done \/ after' \in Token
        BY <3>2, DeliverEffect
      <4>2. seen \in [Ids -> 0 .. 2] /\ unread \subseteq Ids
        BY DEF BaseInv, TypeOK
      <4> QED BY <4>1, <4>2
    <3> QED BY <1>3, <3>1, <3>2
  <2>2. TypeOK'
    BY <1>3, <2>1 DEF TableUnchanged, BaseInv, TypeOK
  <2>3. OrderOK' /\ PurgeOK' /\ EventsAreWellFormed'
    BY <1>3 DEF TableUnchanged, BaseInv, OrderOK, PurgeOK, EventsAreWellFormed
  <2> QED BY <2>2, <2>3 DEF BaseInv
<1> QED BY <1>1, <1>2, <1>3, StepEffect

-----------------------------------------------------------------------------
(* The walk.                                                                *)

LEMMA InitWalk == Init => WalkInv
<1> SUFFICES ASSUME Init PROVE WalkInv OBVIOUS
<1>1. after = First /\ First # Done
  BY DEF Init, First, Done
<1>2. First \notin Token
  BY KeysAssumption DEF First, Token
<1>3. ReturnedOK
  BY <1>1, <1>2 DEF Init, ReturnedOK
<1>4. SteadyOK
  BY <1>1, <1>2 DEF Init, SteadyOK, Selected, Present
<1> QED BY <1>3, <1>4, InitBase DEF WalkInv

(* Changes of the table do not touch what the walk relies on.               *)
LEMMA TableStepWalk ==
  ASSUME WalkInv, TableStep PROVE ReturnedOK' /\ SteadyOK'
<1>1. UNCHANGED <<after, seen, unread, kind, query>>
  BY DEF TableStep, WalkUnchanged
<1>2. ASSUME NEW id \in Ids, Placed(table', id) = Placed(table, id)
      PROVE  Ahead(id)' <=> Ahead(id)
  BY <1>1, <1>2 DEF Ahead, Placed
<1>3. ASSUME NEW id \in Ids, table'[id] = table[id]
      PROVE  Placed(table', id) = Placed(table, id)
  BY <1>3 DEF Placed
<1>4. seen \in [Ids -> 0 .. 2] /\ steady \subseteq Ids
  BY DEF WalkInv, BaseInv, TypeOK
<1>5. ReturnedOK'
  <2>1. after' = First => \A id \in Ids : seen'[id] = 0
    BY <1>1 DEF WalkInv, ReturnedOK
  <2>2. ASSUME NEW id \in Ids \ moved'
        PROVE  /\ seen'[id] <= 1
               /\ seen'[id] = 1 /\ table'[id] # Absent /\ after' \in Token
                    => ~ Ahead(id)'
               /\ seen'[id] = 1 /\ kind' = "assignment" => table'[id] # Absent
    <3>1. id \notin moved
      BY DEF TableStep
    <3>2. /\ seen[id] <= 1
          /\ seen[id] = 1 /\ table[id] # Absent /\ after \in Token => ~ Ahead(id)
          /\ seen[id] = 1 /\ kind = "assignment" => table[id] # Absent
      BY <3>1 DEF WalkInv, ReturnedOK
    <3>3. CASE table'[id] = table[id]
      BY <1>1, <1>2, <1>3, <3>2, <3>3
    <3>4. CASE table[id] = Absent /\ (kind # "assignment" => seen[id] = 0)
      BY <1>1, <3>2, <3>4
    <3>5. CASE table'[id] = Absent /\ kind # "assignment"
      BY <1>1, <3>2, <3>5
    <3>6. CASE /\ table[id] # Absent /\ table'[id] # Absent
               /\ Placed(table', id) = Placed(table, id)
      BY <1>1, <1>2, <3>2, <3>6
    <3> QED BY <3>3, <3>4, <3>5, <3>6 DEF TableStep
  <2> QED BY <2>1, <2>2 DEF ReturnedOK
<1>6. SteadyOK'
  <2>1. steady' \cap moved' = {}
    BY DEF TableStep, WalkInv, SteadyOK
  <2>2. ASSUME NEW id \in steady'
        PROVE  /\ table'[id] # Absent /\ Matches(table, id)'
               /\ after' \in Token /\ id \notin unread'
                    => seen'[id] = 1 \/ Ahead(id)'
               /\ after' = Done /\ id \notin unread' => seen'[id] = 1
    <3>1. id \in steady /\ id \in Ids
      BY <1>4 DEF TableStep
    <3>2. /\ table[id] # Absent /\ Matches(table, id)
          /\ after \in Token /\ id \notin unread => seen[id] = 1 \/ Ahead(id)
          /\ after = Done /\ id \notin unread => seen[id] = 1
      BY <3>1 DEF WalkInv, SteadyOK
    <3>3. /\ table'[id] # Absent /\ Matches(table', id)
          /\ Placed(table', id) = Placed(table, id)
      <4>1. CASE table'[id] = table[id]
        BY <1>3, <3>1, <3>2, <4>1 DEF Matches
      <4>2. CASE table'[id] # table[id]
        BY <4>2 DEF TableStep
      <4> QED BY <4>1, <4>2
    <3>4. Matches(table, id)'
      BY <1>1, <3>3 DEF Matches
    <3> QED BY <1>1, <1>2, <3>1, <3>2, <3>3, <3>4
  <2> QED BY <2>1, <2>2 DEF SteadyOK
<1> QED BY <1>5, <1>6

(* A page returns nothing that was returned before, and leaves out nothing  *)
(* that it passes.                                                          *)
LEMMA DeliveredWalk ==
  ASSUME WalkInv, query.order.field # "auth", Delivered, TableUnchanged,
         UNCHANGED <<kind, query>>
  PROVE  ReturnedOK' /\ SteadyOK'
<1> DEFINE dir == query.order.dir
           edge == CursorKey(query.order.field, after)
           key(id) == Key(query.order, id)
           next == Following(Selected, query.order)
<1>1. BaseInv /\ Rows(Selected, query.order)
  BY SelectedRows DEF WalkInv
<1>2. /\ seen \in [Ids -> 0 .. 2] /\ steady \subseteq Ids
      /\ after \in Token \cup {First, Done}
  BY DEF WalkInv, BaseInv, TypeOK
<1>3. PICK cut \in SUBSET next, skipped \in SUBSET Ids :
        /\ after # Done
        /\ seen' = [id \in Ids |-> IF id \in cut \ skipped /\ seen[id] < 2
                                   THEN seen[id] + 1 ELSE seen[id]]
        /\ unread' = unread \cup skipped
        /\ \/ after' = Done /\ cut = next
           \/ \E last \in cut :
                /\ after' \in Token /\ after' # First /\ after' # Done
                /\ CursorKey(query.order.field, after') = key(last)
                /\ \A j \in cut : ~ Precedes(dir, key(last), key(j))
                /\ \A j \in next \ cut : Precedes(dir, key(last), key(j))
  BY <1>1, DeliverEffect
<1>4. Done \notin Token /\ First \notin Token /\ First # Done
  BY KeysAssumption DEF Done, First, Token
<1>5. ASSUME NEW id \in Selected
      PROVE  /\ id \in next <=> after = First \/ Precedes(dir, edge, key(id))
             /\ id \in Ids /\ table[id] # Absent /\ key(id) \in Int \X Int
  <2>1. id \in Ids /\ table[id] # Absent
    BY DEF Selected, Present
  <2>2. key(id) \in Int \X Int
    BY <1>1, RowsOrdered
  <2> QED BY <2>1, <2>2 DEF Following, keysetClause
<1>6. ASSUME NEW id \in Ids
      PROVE  /\ Ahead(id) <=> Precedes(dir, edge, key(id))
             /\ Ahead(id)' <=> Precedes(dir, CursorKey(query.order.field, after'),
                                        key(id))
  BY DEF Ahead, Placed, Key, TableUnchanged
<1>7. after \in Token => edge \in Int \X Int
  <2>1. query.order.field \in Fields
    BY <1>1 DEF Rows
  <2>2. Times \cup {0} \subseteq Int /\ Names \cup {0} \subseteq Int
        /\ Ids \subseteq Int
    BY KeysAssumption
  <2> QED BY <2>1, <2>2 DEF CursorKey, Token, Fields
<1>8. next \subseteq Selected
  BY DEF Following
<1>9. UNCHANGED <<table, steady, moved, kind, query>>
  BY DEF TableUnchanged
<1> HIDE DEF dir, edge, key, next
<1>10. ASSUME NEW id \in Ids, id \in next, id \notin moved PROVE seen[id] = 0
  <2>1. id \in Selected
    BY <1>8, <1>10
  <2>2. seen[id] <= 1 /\ seen[id] \in 0 .. 2
    BY <1>2, <1>10 DEF WalkInv, ReturnedOK
  <2>3. CASE after = First
    BY <2>3 DEF WalkInv, ReturnedOK
  <2>4. CASE after \in Token
    <3>1. Ahead(id)
      BY <1>4, <1>5, <1>6, <1>10, <2>1, <2>4
    <3>2. seen[id] # 1
      BY <1>5, <1>10, <2>1, <2>4, <3>1 DEF WalkInv, ReturnedOK
    <3> QED BY <2>2, <3>2
  <2> QED BY <1>2, <1>3, <2>3, <2>4
<1>11. ASSUME NEW id \in Ids, id \notin moved
       PROVE  /\ seen'[id] <= 1 /\ seen'[id] >= seen[id]
              /\ id \in cut \ skipped => seen'[id] = 1
              /\ id \notin cut \ skipped => seen'[id] = seen[id]
  <2>1. seen[id] <= 1 /\ seen[id] \in 0 .. 2
    BY <1>2, <1>11 DEF WalkInv, ReturnedOK
  <2>2. id \in cut => seen[id] = 0
    BY <1>10, <1>11
  <2> QED BY <1>3, <2>1, <2>2
<1>12. ReturnedOK'
  <2>1. after' # First
    BY <1>3, <1>4
  <2>2. ASSUME NEW id \in Ids, id \notin moved, seen'[id] = 1, table[id] # Absent,
               after' \in Token, Ahead(id)'
        PROVE  FALSE
    <3>1. PICK last \in cut :
            /\ CursorKey(query.order.field, after') = key(last)
            /\ \A j \in cut : ~ Precedes(dir, key(last), key(j))
      BY <1>3, <1>4, <2>2
    <3>2. Precedes(dir, key(last), key(id))
      BY <1>6, <2>2, <3>1
    <3>3. id \notin cut
      BY <3>1, <3>2
    <3>4. seen[id] = 1
      BY <1>11, <2>2, <3>3
    <3>5. after \in Token
      BY <1>2, <1>3, <3>4 DEF WalkInv, ReturnedOK
    <3>6. ~ Precedes(dir, edge, key(id))
      BY <1>6, <2>2, <3>4, <3>5 DEF WalkInv, ReturnedOK
    <3>7. Precedes(dir, edge, key(last)) /\ key(last) \in Int \X Int
      BY <1>4, <1>5, <1>8, <3>5
    <3>8. key(id) \in Int \X Int
      <4>1. table[id] \in Row
        BY <2>2 DEF WalkInv, BaseInv, TypeOK
      <4>2. query.order.field \in Fields
        BY <1>1 DEF Rows
      <4> QED BY <4>1, <4>2, KeyType DEF key, Key
    <3> QED BY <1>7, <3>2, <3>5, <3>6, <3>7, <3>8, PrecedesTransitive
  <2>3. ASSUME NEW id \in Ids, id \notin moved, seen'[id] = 1,
               kind = "assignment"
        PROVE  table[id] # Absent
    <3>1. CASE id \in cut
      BY <1>5, <1>8, <3>1
    <3>2. CASE id \notin cut
      BY <1>11, <2>3, <3>2 DEF WalkInv, ReturnedOK
    <3> QED BY <3>1, <3>2
  <2> QED BY <1>9, <1>11, <2>1, <2>2, <2>3 DEF ReturnedOK
<1>13. ASSUME NEW id \in steady, id \notin unread'
       PROVE  seen'[id] = 1 \/ (after' \in Token /\ Ahead(id)')
  <2>1. id \in Ids /\ id \notin moved /\ id \in Selected
    BY <1>2 DEF WalkInv, SteadyOK, Selected, Present
  <2>2. id \notin unread /\ id \notin skipped
    BY <1>3, <1>13
  <2>3. CASE seen[id] = 1
    <3>1. seen'[id] \in 0 .. 2
      BY <1>2, <1>3, <2>1
    <3> QED BY <1>11, <2>1, <2>3, <3>1
  <2>4. CASE seen[id] # 1
    <3>1. id \in next
      BY <1>2, <1>3, <1>5, <1>6, <2>1, <2>2, <2>4 DEF WalkInv, SteadyOK
    <3>2. CASE id \in cut
      BY <1>11, <2>1, <2>2, <3>2
    <3>3. CASE id \notin cut
      <4>1. PICK last \in cut :
              /\ after' \in Token
              /\ CursorKey(query.order.field, after') = key(last)
              /\ Precedes(dir, key(last), key(id))
        BY <1>3, <3>1, <3>3
      <4> QED BY <1>6, <2>1, <4>1
    <3> QED BY <3>2, <3>3
  <2> QED BY <2>3, <2>4
<1>14. SteadyOK'
  <2>1. \A id \in steady : table'[id] # Absent /\ Matches(table, id)'
    BY <1>9 DEF WalkInv, SteadyOK, Matches
  <2> QED BY <1>4, <1>9, <1>13, <2>1 DEF WalkInv, SteadyOK
<1> QED BY <1>12, <1>14

LEMMA NextWalk ==
  ASSUME "auth" \notin OrderFields
  PROVE  WalkInv /\ [Next]_vars => WalkInv'
<1> SUFFICES ASSUME WalkInv, [Next]_vars PROVE WalkInv' OBVIOUS
<1>1. BaseInv /\ BaseInv'
  BY NextBase DEF WalkInv
<1>2. query.order.field # "auth"
  BY DEF WalkInv, BaseInv, TypeOK, Query, Orders
<1>3. CASE UNCHANGED vars
  <2>1. UNCHANGED <<kind, table, query, after, seen, steady, moved, unread>>
    BY <1>3 DEF vars
  <2>2. \A id \in Ids : Ahead(id)' <=> Ahead(id)
    BY <2>1 DEF Ahead, Placed
  <2>3. \A id \in Ids : Matches(table, id)' <=> Matches(table, id)
    BY <2>1 DEF Matches
  <2>4. steady \subseteq Ids
    BY <1>1 DEF BaseInv, TypeOK
  <2> QED BY <1>1, <2>1, <2>2, <2>3, <2>4 DEF WalkInv, ReturnedOK, SteadyOK
<1>4. CASE TableStep
  BY <1>1, <1>4, TableStepWalk DEF WalkInv
<1>5. ASSUME TableUnchanged, UNCHANGED <<kind, query>>, Delivered
      PROVE  WalkInv'
  BY <1>1, <1>2, <1>5, DeliveredWalk DEF WalkInv
<1>6. ASSUME TableUnchanged, UNCHANGED <<kind, query>>, Declined
      PROVE  WalkInv'
  <2>1. UNCHANGED <<kind, table, query, after, seen, steady, moved, unread>>
    BY <1>6 DEF TableUnchanged, Declined
  <2>2. \A id \in Ids : Ahead(id)' <=> Ahead(id)
    BY <2>1 DEF Ahead, Placed
  <2>3. \A id \in Ids : Matches(table, id)' <=> Matches(table, id)
    BY <2>1 DEF Matches
  <2>4. steady \subseteq Ids
    BY <1>1 DEF BaseInv, TypeOK
  <2> QED BY <1>1, <2>1, <2>2, <2>3, <2>4 DEF WalkInv, ReturnedOK, SteadyOK
<1> QED BY <1>1, <1>3, <1>4, <1>5, <1>6, StepEffect

-----------------------------------------------------------------------------
(* The theorems.                                                            *)

(* The invariant that needs no order, and the one of the walk.              *)
THEOREM BaseInvariant == Spec => []BaseInv
BY InitBase, NextBase, PTL DEF Spec

THEOREM WalkInvariant ==
  ASSUME "auth" \notin OrderFields PROVE Spec => []WalkInv
BY InitWalk, NextWalk, PTL DEF Spec

(* Every state of the lists, the audit table and the purge is well formed.  *)
THEOREM TypeCorrect == Spec => []TypeOK
<1>1. BaseInv => TypeOK
  BY DEF BaseInv
<1> QED BY <1>1, BaseInvariant, PTL

(* Whatever batches the database chooses and however many events arrive, a  *)
(* purge that finished left nothing it set out to delete.                   *)
THEOREM PurgesAreComplete == Spec => []PurgeIsComplete
<1>1. BaseInv => PurgeIsComplete
  BY DEF BaseInv, PurgeOK, PurgeIsComplete, Present
<1> QED BY <1>1, BaseInvariant, PTL

(* No event is dropped for the way it was built.                            *)
THEOREM EventsWellFormed == Spec => []EventsAreWellFormed
<1>1. BaseInv => EventsAreWellFormed
  BY DEF BaseInv
<1> QED BY <1>1, BaseInvariant, PTL

(* In every order but last_authenticated_at, no list returns a row twice    *)
(* that kept its place.                                                     *)
THEOREM NoRowsTwice ==
  ASSUME "auth" \notin OrderFields PROVE Spec => []NoRowTwice
<1>1. WalkInv => NoRowTwice
  BY DEF WalkInv, ReturnedOK, NoRowTwice
<1> QED BY <1>1, WalkInvariant, PTL

(* Nor does it leave one out, however the rows around it come and go.       *)
THEOREM WalksAreComplete ==
  ASSUME "auth" \notin OrderFields PROVE Spec => []WalkIsComplete
<1>1. WalkInv => WalkIsComplete
  BY DEF WalkInv, SteadyOK, WalkIsComplete
<1> QED BY <1>1, WalkInvariant, PTL

(* Each page moves the token strictly along the order.                      *)
THEOREM PagesAlwaysAdvance ==
  ASSUME "auth" \notin OrderFields PROVE Spec => PagesAdvance
<1> DEFINE A == reply' = "page" /\ after \in Token /\ after' \in Token
                  => Precedes(query.order.dir,
                              CursorKey(query.order.field, after),
                              CursorKey(query.order.field, after'))
<1>1. ASSUME BaseInv, Next PROVE A
  <2> SUFFICES ASSUME reply' = "page", after \in Token, after' \in Token
               PROVE  Precedes(query.order.dir,
                               CursorKey(query.order.field, after),
                               CursorKey(query.order.field, after'))
    OBVIOUS
  <2>1. Delivered
    BY <1>1, StepEffect DEF TableStep, WalkUnchanged, Declined
  <2>2. query.order.field # "auth"
    BY <1>1 DEF BaseInv, TypeOK, Query, Orders
  <2>3. Done \notin Token /\ First \notin Token
    BY KeysAssumption DEF Done, First, Token
  <2>4. PICK last \in Following(Selected, query.order) :
          CursorKey(query.order.field, after') = Key(query.order, last)
    BY <1>1, <2>1, <2>2, <2>3, DeliverEffect
  <2> QED BY <2>3, <2>4 DEF Following, keysetClause
<1>2. BaseInv /\ [Next]_vars => [A]_vars
  BY <1>1
<1> QED BY <1>2, BaseInvariant, PTL DEF Spec, PagesAdvance

-----------------------------------------------------------------------------
(* The purge ends: what PurgeEnds rests on besides fairness.                *)

(* While audit-purge runs up to a time that has come, nothing is added to   *)
(* what lies before its cutoff, however many events arrive; whatever the    *)
(* cutoff, every batch that does not end the loop takes something away.     *)
PurgeGoesForward ==
  [][purge.pc = "deleting" /\ purge'.pc = "deleting" =>
       /\ purge.cutoff <= Now => Expired' \subseteq Expired
       /\ auditPurge => Expired' \subseteq Expired /\ Expired' # Expired]_vars

(* A new event is stamped with the clock.                                   *)
LEMMA EmitKeepsExpired ==
  ASSUME BaseInv, NEW id \in Ids, Emit(id), purge.pc = "deleting",
         purge.cutoff <= Now
  PROVE  Expired' \subseteq Expired
<1>1. table \in [Ids -> Row \cup {Absent}] /\ purge' = purge
  BY DEF BaseInv, TypeOK, PurgeState, Emit
<1>2. Now \in Times
  BY KeysAssumption DEF Now
<1>3. ~ (Now < purge.cutoff)
  <2>1. Now \in Nat
    BY <1>2, KeysAssumption
  <2>2. purge.cutoff \in Times \cup {0, Now + 1}
    BY DEF BaseInv, TypeOK, PurgeState, Tomorrow
  <2> DEFINE now == Now
             cut == purge.cutoff
  <2>3. cut \in Nat /\ now \in Nat /\ cut <= now
    <3>1. Times \subseteq Nat /\ now \in Nat /\ cut \in Times \cup {0, now + 1}
      BY <2>1, <2>2, KeysAssumption
    <3> HIDE DEF now, cut
    <3>2. cut \in Nat
      BY <3>1
    <3>3. cut <= now
      BY DEF cut, now
    <3> QED BY <3>1, <3>2, <3>3
  <2> HIDE DEF now, cut
  <2>4. ~ (now < cut)
    BY <2>3
  <2> QED BY <2>4 DEF now, cut
<1>4. \/ table' = table
      \/ \E r : table' = [table EXCEPT ![id] = r] /\ r.at = Now
  <2>1. PICK outcome \in Recorded :
          \/ Becomes([table EXCEPT ![id] =
               [at |-> Now, name |-> 1, status |-> outcome]])
          \/ Becomes(table)
    BY NothingRefused DEF Emit, OccurredAt
  <2> DEFINE row == [at |-> Now, name |-> 1, status |-> outcome]
  <2>2. row.at = Now
    OBVIOUS
  <2> HIDE DEF row
  <2>3. Becomes([table EXCEPT ![id] = row]) \/ Becomes(table)
    BY <2>1 DEF row
  <2>4. table' = [table EXCEPT ![id] = row] \/ table' = table
    BY <2>3 DEF Becomes
  <2> QED BY <2>2, <2>4
<1>5. \A i \in Ids : table'[i] = table[i] \/ table'[i].at = Now
  BY <1>1, <1>4
<1> QED BY <1>1, <1>3, <1>5 DEF Expired, Present

LEMMA BatchShrinks ==
  ASSUME BaseInv, auditPurge, purge'.pc = "deleting"
  PROVE  Expired' \subseteq Expired /\ Expired' # Expired
<1>1. PICK batch \in SUBSET Expired :
        /\ table' = [id \in Ids |-> IF id \in batch THEN Absent ELSE table[id]]
        /\ purge' = [purge EXCEPT !.pc = IF Cardinality(batch) < BatchSize
                                         THEN "done" ELSE "deleting"]
  BY DEF auditPurge, PurgeBatch
<1>2. /\ ~ (Cardinality(batch) < BatchSize) /\ purge'.cutoff = purge.cutoff
  BY <1>1 DEF BaseInv, TypeOK, PurgeState
<1>3. batch # {}
  BY <1>2, SizesAssumption, FS_EmptySet
<1>4. Expired \subseteq Ids
  BY DEF Expired, Present
<1>5. Expired' = Expired \ batch
  BY <1>1, <1>2, <1>4 DEF Expired, Present
<1> QED BY <1>3, <1>5

(* The purge can neither go round in circles nor be kept busy by traffic.   *)
THEOREM PurgeAlwaysGoesForward == Spec => PurgeGoesForward
<1> DEFINE Forward ==
             purge.pc = "deleting" /\ purge'.pc = "deleting" =>
               /\ purge.cutoff <= Now => Expired' \subseteq Expired
               /\ auditPurge => Expired' \subseteq Expired /\ Expired' # Expired
<1>1. ASSUME BaseInv, Next PROVE Forward
  <2> SUFFICES ASSUME purge.pc = "deleting", purge'.pc = "deleting"
               PROVE  /\ purge.cutoff <= Now => Expired' \subseteq Expired
                      /\ auditPurge =>
                           Expired' \subseteq Expired /\ Expired' # Expired
    OBVIOUS
  <2>1. kind = "audit"
    BY <1>1 DEF BaseInv, PurgeOK
  <2>2. CASE auditPurge
    BY <1>1, <2>2, BatchShrinks
  <2>3. CASE ~ auditPurge
    <3>1. CASE \E id \in Ids : Emit(id)
      BY <1>1, <2>3, <3>1, EmitKeepsExpired
    <3>2. CASE UNCHANGED <<table, purge>>
      BY <2>3, <3>2 DEF Expired, Present
    <3>3. CASE List
      BY <1>1, <3>2, <3>3, ListEffect DEF TableUnchanged
    <3>4. ~ PurgeFails /\ ~ resolveAuditCutoff
      BY <1>1 DEF PurgeFails, resolveAuditCutoff, BaseInv, TypeOK, PurgeState
    <3>5. \A id \in Ids : /\ ~ CreateRow(id) /\ ~ DeleteRow(id)
                          /\ ~ RenameRow(id) /\ ~ ChangeStatus(id)
      BY <2>1 DEF CreateRow, DeleteRow, RenameRow, ChangeStatus
    <3> QED BY <1>1, <2>3, <3>1, <3>3, <3>4, <3>5 DEF Next, Step
  <2> QED BY <2>2, <2>3
<1>2. BaseInv /\ [Next]_vars => [Forward]_vars
  BY <1>1
<1> QED BY <1>2, BaseInvariant, PTL DEF Spec, PurgeGoesForward
=============================================================================
