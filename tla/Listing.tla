------------------------------- MODULE Listing -------------------------------
(***************************************************************************)
(* One client walks one of the seven paged lists (ListUsers, ListApps,     *)
(* ListRoles, ListServiceAccounts, ListUserRoles, ListSessions,            *)
(* ListAuditEvents) page by page with the token of the page before, while  *)
(* rows are created, changed and deleted, and while audit-purge runs.  A   *)
(* page is one SELECT over a keyset; ListUserRoles then reads each role of *)
(* the page.  A row is the columns the lists order and filter by.          *)
(***************************************************************************)
EXTENDS Integers, AuditEvents

CONSTANTS
  Kinds,        \* the lists looked at
  OrderFields,  \* the columns a client may order by
  Ids,          \* primary keys, integers
  Times, Names, \* column values, integers
  PageSizes,    \* values of page_size on the wire
  DefaultSize, MaxSize, \* DefaultListPageSize, MaxListPageSize
  BatchSize,    \* -batch-size of audit-purge
  MaxChanges    \* bound on changes during the walk

ASSUME SizesAssumption ==
  /\ PageSizes \subseteq Int
  /\ DefaultSize \in 1 .. MaxSize /\ MaxSize \in Nat
  /\ BatchSize \in Nat \ {0} /\ MaxChanges \in Nat

ASSUME KeysAssumption ==
  /\ IsFiniteSet(Ids) /\ Ids \subseteq Nat \ {0}
  /\ Times \subseteq Nat /\ Names \subseteq Nat /\ 1 \in Names
  /\ \E t \in Times : \A u \in Times : u <= t

VARIABLES
  kind,    \* the list
  table,   \* its rows
  query,   \* order, filters and page size of the client's requests
  after,   \* page token of the next request, First or Done
  reply,   \* the last answer
  purge,   \* audit-purge
  changes, \* changes so far
  seen,    \* history: how often a row was returned
  steady,  \* history: rows matching, in one place, ever since the walk began
  moved,   \* history: rows that changed place in the order
  unread,  \* history: rows left out because reading their role failed
  dropped  \* history: an audit event was built wrong and dropped

vars == <<kind, table, query, after, reply, purge, changes, seen, steady,
          moved, unread, dropped>>

Statuses == {"active", "inactive"} \cup Outcomes
Absent   == [at |-> 0, name |-> 0, status |-> "absent"]
Row      == [at : Times, name : Names, status : Statuses]
Now      == CHOOSE t \in Times : \A u \in Times : u <= t
Tomorrow == Now + 1 \* a time to come
Epoch    == 0

Token == [at : Times \cup {0}, name : Names \cup {0}, id : Ids]
First == [at |-> 0, name |-> 0, id |-> 0]  \* no token yet
Done  == [at |-> 0, name |-> 0, id |-> -1] \* no next token

Orders == [field : OrderFields, dir : {"asc", "desc"}]
Query  == [order : Orders, statuses : {{}, {"active"}, {"failure"}},
           from : Times \cup {0}, to : Times \cup {0}, size : PageSizes]

PurgeState == [pc : {"idle", "deleting", "done", "failed"},
               cutoff : Times \cup {0, Tomorrow}, doomed : SUBSET Ids]

TypeOK ==
  /\ kind \in Kinds
  /\ table \in [Ids -> Row \cup {Absent}]
  /\ query \in Query
  /\ after \in Token \cup {First, Done}
  /\ reply \in {"none", "page", "INVALID_ARGUMENT", "PERMISSION_DENIED",
                "INTERNAL"}
  /\ purge \in PurgeState
  /\ changes \in 0 .. MaxChanges
  /\ seen \in [Ids -> 0 .. 2]
  /\ steady \subseteq Ids /\ moved \subseteq Ids /\ unread \subseteq Ids
  /\ dropped \in BOOLEAN

-----------------------------------------------------------------------------
(* Order and keyset.                                                        *)

Present(t) == {id \in Ids : t[id] # Absent}

(* The columns of ORDER BY.  last_authenticated_at is never written, so it  *)
(* is NULL, which sorts like the epoch.                                     *)
OrderKey(field, r, id) ==
  CASE field = "created" -> <<r.at, id>>
    [] field = "id"      -> <<0, id>>
    [] field = "name"    -> <<r.name, id>>
    [] field = "auth"    -> <<Epoch, id>>

(* The cursor's fields that the keyset clause binds.  The clause for        *)
(* last_authenticated_at binds the cursor's creation time.                  *)
CursorKey(field, c) ==
  CASE field = "created" -> <<c.at, c.id>>
    [] field = "id"      -> <<0, c.id>>
    [] field = "name"    -> <<c.name, c.id>>
    [] field = "auth"    -> <<c.at, c.id>>

Precedes(dir, j, k) ==
  LET less(a, b) == a[1] < b[1] \/ (a[1] = b[1] /\ a[2] < b[2])
  IN  IF dir = "asc" THEN less(j, k) ELSE less(k, j)

(* Mutant: the tie-breaker is left out of the keyset.                       *)
KeysetUntied(order, c, key) ==
  LET edge == CursorKey(order.field, c)
  IN  IF order.dir = "asc" THEN edge[1] < key[1] ELSE key[1] < edge[1]

(* Mutant: the keyset is not strict.                                        *)
KeysetInclusive(order, c, key) ==
  \/ Precedes(order.dir, CursorKey(order.field, c), key)
  \/ CursorKey(order.field, c) = key

keysetClause(order, c, key) ==
  Precedes(order.dir, CursorKey(order.field, c), key)

ClampPageSize(raw) == IF raw = 0 THEN DefaultSize
                      ELSE IF raw > MaxSize THEN MaxSize ELSE raw

(* What a cursor keeps of a row, where it is ordered by name and elsewhere. *)
FullToken(id)  == [at |-> table[id].at, name |-> table[id].name, id |-> id]
TimeToken(id)  == [at |-> table[id].at, name |-> 0, id |-> id]

Key(order, id) == OrderKey(order.field, table[id], id)

(* The rows of ids after the token, the first size rows of ids, the last    *)
(* one of them.                                                             *)
Following(ids, order) ==
  {id \in ids : after = First \/ keysetClause(order, after, Key(order, id))}

Before(ids, order, id) ==
  {j \in ids : Precedes(order.dir, Key(order, j), Key(order, id))}

FirstRows(ids, order, size) ==
  {id \in ids : Cardinality(Before(ids, order, id)) < size}

LastRow(ids, order) ==
  CHOOSE id \in ids : \A j \in ids \ {id} :
                        Precedes(order.dir, Key(order, j), Key(order, id))

(* A page of ids.  One row more than asked for is read; if it is there, the *)
(* page has a next token, made from its last row.                           *)
Page(ids, order, size, named) ==
  LET next == Following(ids, order)
      page == FirstRows(next, order, size)
      last == LastRow(page, order)
  IN  [ids  |-> page,
       next |-> IF page = next THEN Done
                ELSE IF named THEN FullToken(last) ELSE TimeToken(last)]

-----------------------------------------------------------------------------
(* What each list selects.                                                  *)

InStatuses(r, q) == q.statuses # {} => r.status \in q.statuses

(* Without a filter DELETED users are left out.                             *)
UserMatches(r, q)           == /\ InStatuses(r, q)
                               /\ q.statuses = {} => r.status # "inactive"
AppMatches(r, q)            == InStatuses(r, q)
RoleMatches(r, q)           == InStatuses(r, q)
ServiceAccountMatches(r, q) == InStatuses(r, q)
AssignmentMatches(r, q)     == TRUE \* every role of the user in the app
SessionMatches(r)           == r.status = "active" \* not revoked, not expired
AuditMatches(r, q)          == /\ InStatuses(r, q)
                               /\ q.from # 0 => q.from <= r.at
                               /\ q.to # 0 => r.at < q.to

Matches(t, id) ==
  LET r == t[id]
  IN  CASE kind = "user"       -> UserMatches(r, query)
        [] kind = "app"        -> AppMatches(r, query)
        [] kind = "role"       -> RoleMatches(r, query)
        [] kind = "account"    -> ServiceAccountMatches(r, query)
        [] kind = "assignment" -> AssignmentMatches(r, query)
        [] kind = "session"    -> SessionMatches(r)
        [] kind = "audit"      -> AuditMatches(r, query)

Selected == {id \in Present(table) : Matches(table, id)}

NewestFirst == [field |-> "created", dir |-> "desc"]

UserPage(size)           == Page(Selected, query.order, size, TRUE)
AppPage(size)            == Page(Selected, query.order, size, TRUE)
RolePage(size)           == Page(Selected, query.order, size, TRUE)
ServiceAccountPage(size) == Page(Selected, query.order, size, TRUE)
AssignmentPage(size)     == Page(Selected, query.order, size, FALSE)
AuditPage(size)          == Page(Selected, NewestFirst, size, FALSE)

(* ListSessions reads every session of the user, newest first, keeps the    *)
(* active ones and cuts the page in memory.                                 *)
selectSessionsPage(size) == Page(Selected, NewestFirst, size, FALSE)

-----------------------------------------------------------------------------
(* The columns each list can be ordered by.                                 *)
UserOrders           == {"created", "id", "name"}
AppOrders            == {"created", "id", "name"}
RoleOrders           == {"created", "id", "name"}
ServiceAccountOrders == {"created", "id", "name", "auth"}
AssignmentOrders     == {"created", "id"}

Orderable(k) == CASE k = "user"       -> UserOrders
                  [] k = "app"        -> AppOrders
                  [] k = "role"       -> RoleOrders
                  [] k = "account"    -> ServiceAccountOrders
                  [] k = "assignment" -> AssignmentOrders
                  [] OTHER            -> {"created"}

(* Rows differ only in the columns the walk orders and filters by.          *)
Varies(k, q) ==
  {r \in Row :
     /\ q.order.field # "name" => r.name = 1
     /\ q.order.field \notin {"created", "auth"} => r.at = 1
     /\ r.status \in IF k = "audit" THEN {"success", "failure"}
                     ELSE IF k \in {"user", "session"} \/ q.statuses # {}
                     THEN {"active", "inactive"} ELSE {"active"}}

Init ==
  /\ kind \in Kinds
  /\ query \in Query
  /\ query.order.field \in Orderable(kind)
  /\ kind \in {"session", "audit"} => query.order = NewestFirst
  /\ query.statuses \in
       IF kind = "audit" THEN {{}, {"failure"}}
       ELSE IF kind \in {"assignment", "session"} THEN {{}}
       ELSE {{}, {"active"}}
  /\ kind # "audit" => query.from = 0 /\ query.to = 0
  /\ query.from # 0 => query.to = 0
  /\ table \in [Ids -> Varies(kind, query) \cup {Absent}]
  /\ after = First /\ reply = "none"
  /\ purge = [pc |-> "idle", cutoff |-> 0, doomed |-> {}]
  /\ changes = 0
  /\ seen = [id \in Ids |-> 0]
  /\ steady = Selected
  /\ moved = {} /\ unread = {} /\ dropped = FALSE

-----------------------------------------------------------------------------
(* One request of the walk.                                                 *)

TableUnchanged == UNCHANGED <<table, purge, changes, steady, moved, dropped>>

Refuse(code) == reply' = code /\ UNCHANGED <<after, seen, unread>>

(* The page goes out without the rows in skipped.                           *)
Deliver(page, skipped) ==
  /\ reply' = "page"
  /\ after' = page.next
  /\ seen' = [id \in Ids |-> IF id \in page.ids \ skipped /\ seen[id] < 2
                             THEN seen[id] + 1 ELSE seen[id]]
  /\ unread' = unread \cup skipped

Size == ClampPageSize(query.size)

(* A list use case: clamp the page size, decode the token, read one page.   *)
Request(page) ==
  /\ after # Done
  /\ TableUnchanged
  /\ \/ query.size < 0 /\ Refuse("INVALID_ARGUMENT")
     \/ query.size >= 0 /\ Deliver(page, {})
     \/ query.size >= 0 /\ Refuse("INTERNAL")

ListUsers           == kind = "user" /\ Request(UserPage(Size))
ListApps            == kind = "app" /\ Request(AppPage(Size))
ListRoles           == kind = "role" /\ Request(RolePage(Size))
ListServiceAccounts == kind = "account" /\ Request(ServiceAccountPage(Size))
ListSessions        == kind = "session" /\ Request(selectSessionsPage(Size))

(* A role whose read fails, for whatever reason, is left out of the page.   *)
ListUserRoles ==
  /\ kind = "assignment" /\ after # Done
  /\ TableUnchanged
  /\ IF query.size < 0 THEN Refuse("INVALID_ARGUMENT")
     ELSE \/ LET page == AssignmentPage(Size)
             IN  \E skipped \in SUBSET page.ids : Deliver(page, skipped)
          \/ Refuse("INTERNAL")

(* Every page asks CanReadAudit first.                                      *)
ListAuditEvents ==
  /\ kind = "audit"
  /\ \/ Request(AuditPage(Size))
     \/ after # Done /\ TableUnchanged /\ Refuse("PERMISSION_DENIED")

-----------------------------------------------------------------------------
(* Changes to the table during the walk.                                    *)

WalkUnchanged == UNCHANGED <<after, seen, unread>> /\ reply' = "none"

Placed(t, id) == OrderKey(query.order.field, t[id], id)

(* Keeps the history for the change of table to t.                          *)
Becomes(t) ==
  /\ changes < MaxChanges /\ changes' = changes + 1
  /\ table' = t
  /\ steady' = {id \in steady : /\ t[id] # Absent /\ Matches(t, id)
                                /\ Placed(t, id) = Placed(table, id)}
  /\ moved' = moved \cup {id \in Present(table) \cap Present(t) :
                            Placed(t, id) # Placed(table, id)}
  /\ WalkUnchanged

(* A new row, or an assignment granted again, which moves it.               *)
CreateRow(id) ==
  /\ kind # "audit"
  /\ table[id] = Absent
  /\ kind # "assignment" => seen[id] = 0 /\ id \notin moved
  /\ \E r \in Varies(kind, query) :
       /\ r.status = "active"
       /\ query.order.field \in {"created", "auth"} => r.at = Now
       /\ Becomes([table EXCEPT ![id] = r])
  /\ UNCHANGED <<purge, dropped>>

(* PermanentlyDeleteX, or a role removed from the user.  A deleted id does  *)
(* not come back, except in an assignment.                                  *)
DeleteRow(id) ==
  /\ kind \notin {"audit", "session"}
  /\ table[id] # Absent
  /\ changes < MaxChanges /\ changes' = changes + 1
  /\ table' = [table EXCEPT ![id] = Absent]
  /\ steady' = steady \ {id} /\ moved' = moved \cup {id}
  /\ WalkUnchanged
  /\ UNCHANGED <<purge, dropped>>

(* UpdateX gives the row another name.                                      *)
RenameRow(id) ==
  /\ kind \in {"user", "app", "role", "account"}
  /\ query.order.field = "name"
  /\ table[id] # Absent
  /\ \E n \in Names \ {table[id].name} :
       Becomes([table EXCEPT ![id].name = n])
  /\ UNCHANGED <<purge, dropped>>

(* A lifecycle change, the revocation or the expiry of a session.           *)
ChangeStatus(id) ==
  /\ kind \notin {"audit", "assignment"}
  /\ table[id] # Absent
  /\ kind = "session" => table[id].status = "active"
  /\ \E s \in {"active", "inactive"} \ {table[id].status} :
       Becomes([table EXCEPT ![id].status = s])
  /\ UNCHANGED <<purge, dropped>>

(* Mutant: the time is not defaulted.                                       *)
OccurredUnset == Epoch

OccurredAt == Now

(* A use case ends and emits an event: NewAudit may refuse it, the INSERT   *)
(* may fail; either way the use case does not notice.                       *)
Emit(id) ==
  /\ kind = "audit"
  /\ table[id] = Absent /\ seen[id] = 0 /\ id \notin purge.doomed
  /\ \/ /\ \E outcome \in Recorded :
            \/ Becomes([table EXCEPT ![id] = [at |-> OccurredAt, name |-> 1,
                                             status |-> outcome]])
            \/ Becomes(table)
        /\ UNCHANGED dropped
     \/ /\ Refused # {}
        /\ Becomes(table)
        /\ dropped' = TRUE
  /\ UNCHANGED purge

-----------------------------------------------------------------------------
(* The audit-purge command.                                                 *)

Expired == {id \in Present(table) : table[id].at < purge.cutoff}

(* -older-than gives a cutoff in the past, -before any time, also one ahead *)
(* of the clock; doomed remembers what lies before it.                      *)
resolveAuditCutoff ==
  /\ kind = "audit" /\ purge.pc = "idle"
  /\ \E t \in Times \cup {Tomorrow} :
       purge' = [pc |-> "deleting", cutoff |-> t,
                 doomed |-> {id \in Present(table) : table[id].at < t}]
  /\ WalkUnchanged
  /\ UNCHANGED <<table, changes, steady, moved, dropped>>

(* One DELETE ... LIMIT takes any batch of old rows; the loop ends with the *)
(* first batch of fewer than full rows.                                     *)
PurgeBatch(full) ==
  /\ purge.pc = "deleting"
  /\ \E batch \in SUBSET Expired :
       /\ Cardinality(batch) <= BatchSize
       /\ Cardinality(batch) < BatchSize => batch = Expired
       /\ table' = [id \in Ids |-> IF id \in batch THEN Absent ELSE table[id]]
       /\ steady' = steady \ batch
       /\ purge' = [purge EXCEPT !.pc = IF Cardinality(batch) < full
                                        THEN "done" ELSE "deleting"]
  /\ WalkUnchanged
  /\ UNCHANGED <<changes, moved, dropped>>

(* Mutants: a full batch ends the loop, or an empty one does not.           *)
PurgeStopsEarly == PurgeBatch(BatchSize + 1)
PurgeGoesOn     == PurgeBatch(0)

auditPurge == PurgeBatch(BatchSize)

(* A failed batch ends the command.                                         *)
PurgeFails ==
  /\ purge.pc = "deleting"
  /\ purge' = [purge EXCEPT !.pc = "failed"]
  /\ WalkUnchanged
  /\ UNCHANGED <<table, changes, steady, moved, dropped>>

-----------------------------------------------------------------------------
List == \/ ListUsers \/ ListApps \/ ListRoles \/ ListServiceAccounts
        \/ ListUserRoles \/ ListSessions \/ ListAuditEvents

Step == \/ List
        \/ resolveAuditCutoff \/ auditPurge \/ PurgeFails
        \/ \E id \in Ids : \/ CreateRow(id) \/ DeleteRow(id) \/ RenameRow(id)
                           \/ ChangeStatus(id) \/ Emit(id)

Next == Step /\ UNCHANGED <<kind, query>>

Purge == auditPurge /\ UNCHANGED <<kind, query>>

(* The purge is a loop in a process of its own.                             *)
Spec == Init /\ [][Next]_vars /\ WF_vars(Purge)

-----------------------------------------------------------------------------
(* Properties.                                                              *)

(* No row is on two pages of a walk unless it changed its place in the      *)
(* order, was deleted or was granted again meanwhile.                       *)
NoRowTwice == \A id \in Ids \ moved : seen[id] <= 1

(* When a walk ends, every row that matched and kept its place throughout   *)
(* was returned exactly once, however the rows around it changed; only the  *)
(* roles whose read failed are missing.                                     *)
WalkIsComplete == after = Done => \A id \in steady \ unread : seen[id] = 1

(* Each page leaves the token strictly further along the order, so a walk   *)
(* ends once rows stop being added ahead of it.                             *)
PagesAdvance ==
  [][reply' = "page" /\ after \in Token /\ after' \in Token
       => Precedes(query.order.dir, CursorKey(query.order.field, after),
                   CursorKey(query.order.field, after'))]_vars

(* A finished purge left no event that was older than the cutoff when it    *)
(* began, whatever batches the database chose.                              *)
PurgeIsComplete ==
  purge.pc = "done" => purge.doomed \cap Present(table) = {}

(* A purge up to a time that has come ends, done or failed, while events    *)
(* keep arriving; one up to a time ahead deletes the arriving events too    *)
(* and may chase them.                                                      *)
PurgeEnds == (purge.pc = "deleting" /\ purge.cutoff <= Now)
               ~> (purge.pc \in {"done", "failed"})

(* Whoever calls, whatever ids the request carries and wherever a use case  *)
(* stops, the event it builds passes every check of NewAudit: none is       *)
(* dropped for the way it was built.                                        *)
EventsAreWellFormed == ~ dropped

=============================================================================
