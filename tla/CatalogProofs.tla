---------------------------- MODULE CatalogProofs ----------------------------
(***************************************************************************)
(* Proofs about Catalog for any number of calls, names, permissions and     *)
(* etags, and for each of the three kinds of row.  As in                    *)
(* UserAccountsProofs the steps are first reduced to what they do to the    *)
(* row (RowEffect) and to the calls (CallEffect); the conjuncts of the      *)
(* inductive invariant follow from the effects.                             *)
(***************************************************************************)
EXTENDS Catalog, TLAPS

(* The etags in use were minted, and what was minted is remembered.         *)
EtagsMinted ==
  /\ row # NoRow => row.etag < nextEtag
  /\ \A c \in Calls : call[c].snap # NoRow => call[c].snap.etag < nextEtag
  /\ \A e \in Etags : version[e] # NoRow <=> e < nextEtag

(* The permissions some version of the row was written with.                *)
Kept(ps) == \E e \in Etags : version[e] # NoRow /\ version[e].perms = ps

(* The use cases that go on to Repository.Update.                           *)
SaveOps == CASE kind = "app"     -> {"update", "disable", "enable", "enter", "exit"}
             [] kind = "role"    -> {"update", "disable", "enable"}
             [] kind = "account" -> {"update", "disable", "enable", "rotate"}

(* What each program point of a call relies on.                             *)
CallOK(st) ==
  /\ st.pc \in {"idle", "discriminate"} => st.etag = 0
  /\ st.pc \in {"permissions", "write", "delete"} => st.snap # NoRow
  /\ st.pc = "write" => st.op \in SaveOps
  /\ st.pc = "permissions" => kind = "role" /\ st.op \in SaveOps \cup {"delete"}
  /\ st.pc = "delete" => st.etag = st.snap.etag
  /\ kind # "role" => /\ st.patch.perms = Unset
                      /\ st.snap # NoRow => st.snap.perms = {}

CallsOK == \A c \in Calls : CallOK(call[c])

(* A role about to be saved has permissions that belong together, unless it *)
(* was deleted between the two statements of its read; apps and accounts    *)
(* have none.                                                               *)
PermsOK ==
  /\ kind = "role" => \A c \in Calls : At(c, "write") =>
       row = NoRow \/ Kept(call[c].snap.perms)
  /\ kind # "role" => /\ perms = {}
                      /\ \A e \in Etags : version[e] # NoRow => version[e].perms = {}

(* Only an app can be in maintenance.                                       *)
KindStatus == IF kind = "app" THEN AppStatus ELSE RoleStatus

StatusesOK ==
  \A e \in Etags : version[e] # NoRow => version[e].status \in KindStatus

Inv ==
  /\ TypeOK
  /\ EtagNamesOneVersion
  /\ PermissionsAreWhole
  /\ EtagsMinted
  /\ CallsOK
  /\ PermsOK
  /\ StatusesOK

(* The row stays, or is deleted, or is replaced by an aggregate that is     *)
(* recorded under a new etag, or by one that its etag already names.        *)
RowEffect ==
  \/ NothingWritten
  \/ row' = NoRow /\ perms' = {} /\ UNCHANGED <<nextEtag, version>>
  \/ \E a \in Aggregate :
       /\ row # NoRow \/ nextEtag = 1
       /\ row' = Columns(a) /\ perms' = a.perms
       /\ kind # "role" => a.perms = {}
       /\ a.status \in KindStatus
       /\ row = NoRow => a.status = "ACTIVE"
       /\ a.etag = nextEtag /\ nextEtag \in Etags /\ nextEtag' = nextEtag + 1
       /\ version' = [version EXCEPT ![nextEtag] = a]
  \/ \E a \in Aggregate :
       /\ row # NoRow
       /\ row' = Columns(a) /\ perms' = a.perms
       /\ Kept(a.perms)
       /\ a.etag < nextEtag /\ Columns(a) = Columns(version[a.etag])
       /\ UNCHANGED <<nextEtag, version>>

(* One call moves, or none.  What it then holds is nothing, the columns it  *)
(* held, or those of the row as it is.                                      *)
CallEffect ==
  /\ reply' \in GRPCCodes /\ secretIn' \in Secrets
  /\ \/ UNCHANGED call
     \/ \E c \in Calls, st \in CallState :
          /\ call' = [call EXCEPT ![c] = st]
          /\ CallOK(st)
          /\ \/ st.snap = NoRow
             \/ /\ call[c].snap # NoRow /\ st.snap # NoRow
                /\ Columns(st.snap) = Columns(call[c].snap)
             \/ row # NoRow /\ st.snap # NoRow /\ Columns(st.snap) = row
          /\ (kind = "role" /\ st.pc = "write") =>
               row = NoRow \/ Kept(st.snap.perms)

-----------------------------------------------------------------------------
(* Values.                                                                  *)

LEMMA IdleState == Idle \in CallState /\ Idle.snap = NoRow /\ CallOK(Idle)
<1>1. NoPatch \in RolePatches
  BY DEF NoPatch, RolePatches
<1>2. 0 \in 0 .. MaxEtags
  BY CatalogBounds
<1>3. Idle \in CallState
  BY <1>1, <1>2 DEF Idle, CallState, PCs, Ops
<1>4. Idle.patch.perms = Unset /\ Idle.etag = 0 /\ Idle.pc = "idle" /\ Idle.snap = NoRow
  BY DEF Idle, NoPatch
<1> QED BY <1>3, <1>4 DEF CallOK

LEMMA AggregateFields ==
  ASSUME NEW a \in Aggregate
  PROVE  /\ a.name \in Names /\ a.status \in AppStatus /\ a.etag \in Etags
         /\ a.secret \in Secrets /\ a.perms \in SUBSET Permissions
         /\ Columns(a) \in Row /\ Columns(a).etag = a.etag
         /\ Columns(a) # NoRow /\ a # NoRow
<1>1. Columns(a) \in Row
  BY DEF Aggregate, Columns, Row
<1> QED BY <1>1, NoRowIsNoRow DEF Aggregate, Columns

(* A row as read.                                                           *)
LEMMA Restored ==
  ASSUME NEW r \in Row, NEW ps \in SUBSET Permissions
  PROVE  /\ Restore(r, ps) \in Aggregate /\ Restore(r, ps) # NoRow
         /\ Columns(Restore(r, ps)) = r
         /\ Restore(r, ps).perms = ps /\ Restore(r, ps).etag = r.etag
<1>1. Restore(r, ps) \in Aggregate
  BY DEF Restore, Row, Aggregate
<1> QED BY <1>1, NoRowIsNoRow DEF Restore, Row, Columns

(* b is a, or differs from it under the etag e.                             *)
Derived(b, a, e) == b = a \/ (b.etag = e /\ (e \in Etags => b \in Aggregate))

LEMMA SetStatusDerives ==
  ASSUME NEW a \in Aggregate, NEW s \in AppStatus, NEW e
  PROVE  /\ Derived(SetStatus(a, s, e), a, e)
         /\ SetStatus(a, s, e).perms = a.perms /\ SetStatus(a, s, e).status = s
BY DEF SetStatus, Aggregate, Derived

LEMMA RotateDerives ==
  ASSUME NEW a \in Aggregate, NEW e
  PROVE  /\ Derived(RotateSecret(a, e), a, e)
         /\ RotateSecret(a, e).perms = a.perms
         /\ RotateSecret(a, e).status = a.status
<1>1. e \in Etags => e \in Secrets
  BY CatalogBounds DEF Etags, Secrets
<1> QED BY <1>1 DEF RotateSecret, Aggregate, Derived

LEMMA PatchDerives ==
  ASSUME NEW a \in Aggregate, NEW p \in RolePatches, NEW e
  PROVE  /\ Derived(ApplyPatch(a, p, e), a, e)
         /\ p.perms = Unset => ApplyPatch(a, p, e).perms = a.perms
         /\ ApplyPatch(a, p, e).status = a.status
<1> DEFINE b == [a EXCEPT !.name = Patched(p.name, a.name),
                          !.perms = Patched(p.perms, a.perms)]
<1>1. /\ Patched(p.name, a.name) \in Names
      /\ Patched(p.perms, a.perms) \in SUBSET Permissions
      /\ p.perms = Unset => Patched(p.perms, a.perms) = a.perms
  BY PermSetsAssumption DEF RolePatches, Patched, Aggregate
<1>2. /\ b \in Aggregate /\ b.perms = Patched(p.perms, a.perms)
      /\ b.status = a.status
  BY <1>1 DEF Aggregate
<1>3. ApplyPatch(a, p, e) = IF b = a THEN a ELSE [b EXCEPT !.etag = e]
  BY DEF ApplyPatch
<1> HIDE DEF b
<1>4. CASE b = a
  BY <1>1, <1>2, <1>3, <1>4 DEF Derived
<1>5. CASE b # a
  <2>1. ApplyPatch(a, p, e) = [b EXCEPT !.etag = e]
    BY <1>3, <1>5
  <2>2. /\ ApplyPatch(a, p, e).etag = e /\ ApplyPatch(a, p, e).perms = b.perms
        /\ ApplyPatch(a, p, e).status = b.status
    BY <1>2, <2>1 DEF Aggregate
  <2>3. e \in Etags => ApplyPatch(a, p, e) \in Aggregate
    BY <1>2, <2>1 DEF Aggregate
  <2> QED BY <1>1, <1>2, <2>2, <2>3 DEF Derived
<1> QED BY <1>4, <1>5

(* The aggregate a call saves, of whichever kind.                           *)
Mutate(s, e) == CASE kind = "app"     -> MutateApp(s, e)
                  [] kind = "role"    -> MutateRole(s, e)
                  [] kind = "account" -> MutateServiceAccount(s, e)

LEMMA MutateDerives ==
  ASSUME kind \in Kinds, NEW s \in CallState, s.snap \in Aggregate,
         s.op \in SaveOps, NEW e
  PROVE  /\ Derived(Mutate(s, e), s.snap, e)
         /\ s.patch.perms = Unset => Mutate(s, e).perms = s.snap.perms
         /\ s.snap.status \in KindStatus => Mutate(s, e).status \in KindStatus
<1>1. s.patch \in RolePatches
  BY DEF CallState
<1>2. \A st \in AppStatus : /\ Derived(SetStatus(s.snap, st, e), s.snap, e)
                            /\ SetStatus(s.snap, st, e).perms = s.snap.perms
                            /\ SetStatus(s.snap, st, e).status = st
  BY SetStatusDerives
<1>3. /\ "ACTIVE" \in AppStatus /\ "DISABLED" \in AppStatus /\ "MAINTENANCE" \in AppStatus
      /\ "ACTIVE" \in KindStatus /\ "DISABLED" \in KindStatus
      /\ kind = "app" => "MAINTENANCE" \in KindStatus
  BY DEF AppStatus, RoleStatus, KindStatus
<1>4. /\ Derived(ApplyPatch(s.snap, s.patch, e), s.snap, e)
      /\ s.patch.perms = Unset =>
           ApplyPatch(s.snap, s.patch, e).perms = s.snap.perms
      /\ ApplyPatch(s.snap, s.patch, e).status = s.snap.status
  BY <1>1, PatchDerives
<1>5. /\ Derived(RotateSecret(s.snap, e), s.snap, e)
      /\ RotateSecret(s.snap, e).perms = s.snap.perms
      /\ RotateSecret(s.snap, e).status = s.snap.status
  BY RotateDerives
<1>6. CASE kind = "app"
  <2>1. Mutate(s, e) = MutateApp(s, e)
    BY <1>6 DEF Mutate
  <2>2. s.op \in {"update", "disable", "enable", "enter", "exit"}
    BY <1>6 DEF SaveOps
  <2> QED BY <1>2, <1>3, <1>4, <1>6, <2>1, <2>2 DEF MutateApp, AppDisable,
     AppEnable, AppEnterMaintenance, AppExitMaintenance
<1>7. CASE kind = "role"
  <2>1. Mutate(s, e) = MutateRole(s, e)
    BY <1>7 DEF Mutate
  <2>2. s.op \in {"update", "disable", "enable"}
    BY <1>7 DEF SaveOps
  <2> QED BY <1>2, <1>3, <1>4, <2>1, <2>2 DEF MutateRole, RoleDisable, RoleEnable
<1>8. CASE kind = "account"
  <2>1. Mutate(s, e) = MutateServiceAccount(s, e)
    BY <1>8 DEF Mutate
  <2>2. s.op \in {"update", "disable", "enable", "rotate"}
    BY <1>8 DEF SaveOps
  <2> QED BY <1>2, <1>3, <1>4, <1>5, <2>1, <2>2 DEF MutateServiceAccount,
          ServiceAccountDisable, ServiceAccountEnable
<1> QED BY <1>6, <1>7, <1>8 DEF Kinds

(* Every error becomes a gRPC code.                                         *)
LEMMA MapErrorType ==
  ASSUME kind \in Kinds, NEW err
  PROVE  MapError(err, ErrorMap) \in GRPCCodes /\ MapError(err, AuthErrorMap) \in GRPCCodes
<1>1. \A x \in DOMAIN AppErrorMap : AppErrorMap[x] \in GRPCCodes
  BY DEF AppErrorMap, GRPCCodes
<1>2. \A x \in DOMAIN RoleErrorMap : RoleErrorMap[x] \in GRPCCodes
  BY DEF RoleErrorMap, GRPCCodes
<1>3. \A x \in DOMAIN ServiceAccountErrorMap : ServiceAccountErrorMap[x] \in GRPCCodes
  BY DEF ServiceAccountErrorMap, GRPCCodes
<1>4. \A x \in DOMAIN AuthErrorMap : AuthErrorMap[x] \in GRPCCodes
  BY DEF AuthErrorMap, GRPCCodes
<1>5. ErrorMap \in {AppErrorMap, RoleErrorMap, ServiceAccountErrorMap}
  BY DEF ErrorMap, Kinds
<1>6. {"OK", "InvalidArgument", "Internal"} \subseteq GRPCCodes
  BY DEF GRPCCodes
<1> QED BY <1>1, <1>2, <1>3, <1>4, <1>5, <1>6 DEF MapError

-----------------------------------------------------------------------------
(* What the steps do to the calls.                                          *)

LEMMA ReturnEffect ==
  ASSUME Inv, NEW c \in Calls, NEW err, Return(c, err)
  PROVE  CallEffect
<1>1. reply' \in GRPCCodes /\ secretIn' \in Secrets
  BY MapErrorType, CatalogBounds DEF Return, Inv, TypeOK, Secrets
<1>2. Idle.pc = "idle"
  BY DEF Idle
<1> QED BY <1>1, <1>2, IdleState DEF Return, CallEffect

LEMMA GotoEffect ==
  ASSUME Inv, NEW c \in Calls, NEW st \in CallState, Goto(c, st), CallOK(st),
         \/ st.snap = NoRow
         \/ /\ call[c].snap # NoRow /\ st.snap # NoRow
            /\ Columns(st.snap) = Columns(call[c].snap)
         \/ row # NoRow /\ st.snap # NoRow /\ Columns(st.snap) = row,
         (kind = "role" /\ st.pc = "write") => row = NoRow \/ Kept(st.snap.perms)
  PROVE  CallEffect
<1>1. reply' \in GRPCCodes /\ secretIn' \in Secrets
  BY CatalogBounds DEF Goto, GRPCCodes, Secrets
<1> QED BY <1>1 DEF Goto, CallEffect

LEMMA NoRowAffectedEffect ==
  ASSUME Inv, NEW c \in Calls, NoRowAffected(c)
  PROVE  CallEffect
<1> DEFINE st == [Idle EXCEPT !.pc = "discriminate"]
<1>1. st \in CallState /\ st.snap = NoRow /\ st.pc = "discriminate" /\ CallOK(st)
  <2>1. st \in CallState
    BY IdleState DEF CallState, PCs
  <2>2. /\ st.snap = NoRow /\ st.pc = "discriminate" /\ st.etag = 0
        /\ st.patch.perms = Unset
    BY DEF Idle, NoPatch
  <2> QED BY <2>1, <2>2 DEF CallOK
<1>2. CASE Return(c, NotFound)
  BY <1>2, ReturnEffect
<1>3. CASE Goto(c, st)
  BY <1>1, <1>3, GotoEffect
<1> QED BY <1>2, <1>3 DEF NoRowAffected

(* Started is the state in which a call waits for its first read.           *)
LEMMA StartedState ==
  ASSUME NEW op \in Ops, NEW pc \in PCs, NEW e \in 0 .. MaxEtags,
         NEW p \in RolePatches, NEW s \in Aggregate
  PROVE  LET st == [Started(op, pc, e, p) EXCEPT !.snap = s]
         IN  /\ st \in CallState
             /\ st.op = op /\ st.pc = pc /\ st.etag = e /\ st.patch = p
             /\ st.snap = s
<1>1. Idle \in CallState
  BY IdleState
<1> QED BY <1>1 DEF Started, CallState

LEMMA LoadEffect ==
  ASSUME Inv, NEW c \in Calls, NEW op \in Ops, NEW pc \in {"permissions", "write", "delete"},
         NEW e \in 0 .. MaxEtags, NEW p \in RolePatches,
         Load(c, Started(op, pc, e, p)),
         kind = "role" => pc = "permissions",
         pc = "permissions" => kind = "role" /\ op \in SaveOps \cup {"delete"},
         pc = "write" => op \in SaveOps,
         pc = "delete" => row = NoRow \/ row.etag = e,
         kind # "role" => p.perms = Unset
  PROVE  CallEffect /\ NothingWritten
<1>1. NothingWritten
  BY DEF Load
<1>2. CASE Return(c, NotFound) \/ Return(c, "INTERNAL")
  BY <1>1, <1>2, ReturnEffect
<1>3. CASE row # NoRow /\ Goto(c, [Started(op, pc, e, p) EXCEPT !.snap = Restore(row, {})])
  <2> DEFINE s  == Restore(row, {})
             st == [Started(op, pc, e, p) EXCEPT !.snap = s]
  <2>1. row \in Row
    BY <1>3 DEF Inv, TypeOK
  <2>2. /\ s \in Aggregate /\ s # NoRow /\ Columns(s) = row
        /\ s.perms = {} /\ s.etag = row.etag
    BY <2>1, Restored
  <2>3. pc \in PCs
    BY DEF PCs
  <2> HIDE DEF s
  <2>4. /\ st \in CallState /\ st.op = op /\ st.pc = pc /\ st.etag = e
        /\ st.patch = p /\ st.snap = s
    BY <2>2, <2>3, StartedState
  <2> HIDE DEF st
  <2>5. CallOK(st)
    BY <1>3, <2>2, <2>4 DEF CallOK
  <2>6. Goto(c, st)
    BY <1>3 DEF st, s
  <2> QED BY <1>1, <1>3, <2>2, <2>4, <2>5, <2>6, GotoEffect
<1> QED BY <1>2, <1>3 DEF Load

-----------------------------------------------------------------------------
(* What the writes do.                                                      *)

LEMMA AcknowledgeEffect ==
  ASSUME Inv, NEW c \in Calls, Acknowledge(c)
  PROVE  CallEffect
BY ReturnEffect DEF Acknowledge

(* The first INSERT.                                                        *)
LEMMA InsertEffect ==
  ASSUME Inv, NEW c \in Calls, NEW a \in Aggregate, Insert(c, a), a.etag = 1,
         kind # "role" => a.perms = {}, a.status = "ACTIVE"
  PROVE  RowEffect /\ CallEffect
<1>1. CASE NothingWritten /\ (Return(c, AlreadyExists) \/ Return(c, "INTERNAL"))
  BY <1>1, ReturnEffect DEF RowEffect
<1>2. CASE Write(a, a.perms) /\ Acknowledge(c)
  <2>1. nextEtag = 1 /\ nextEtag \in Etags /\ a.status \in KindStatus
    BY CatalogBounds DEF Insert, Etags, KindStatus, AppStatus, RoleStatus
  <2>2. RowEffect
    BY <1>2, <2>1 DEF Write, RowEffect
  <2> QED BY <1>2, <2>2, AcknowledgeEffect
<1> QED BY <1>1, <1>2 DEF Insert

LEMMA NewDerives ==
  ASSUME NEW name \in Names, NEW s \in {0, 1}, NEW ps \in SUBSET Permissions
  PROVE  /\ New(name, s, ps, 1) \in Aggregate
         /\ New(name, s, ps, 1).etag = 1 /\ New(name, s, ps, 1).perms = ps
         /\ New(name, s, ps, 1).status = "ACTIVE"
<1>1. 1 \in Etags /\ s \in Secrets
  BY CatalogBounds DEF Etags, Secrets
<1> QED BY <1>1 DEF New, Aggregate, AppStatus

(* A call about to save holds an aggregate that its etag names.             *)
LEMMA SavedAggregate ==
  ASSUME Inv, NEW c \in Calls, At(c, "write")
  PROVE  /\ call[c] \in CallState /\ call[c].snap \in Aggregate
         /\ call[c].op \in SaveOps
         /\ call[c].snap.etag < nextEtag
         /\ Columns(call[c].snap) = Columns(version[call[c].snap.etag])
         /\ kind # "role" => call[c].patch.perms = Unset /\ call[c].snap.perms = {}
         /\ call[c].snap.status \in KindStatus
<1> DEFINE a == call[c].snap
<1>1. /\ call[c] \in CallState /\ a \in Aggregate
      /\ call[c].op \in SaveOps
      /\ a.etag < nextEtag
      /\ Columns(a) = Columns(version[a.etag])
      /\ kind # "role" => call[c].patch.perms = Unset /\ a.perms = {}
  BY DEF Inv, TypeOK, CallState, CallsOK, CallOK, At, EtagsMinted,
     EtagNamesOneVersion
<1>2. version[a.etag].status \in KindStatus
  BY <1>1, AggregateFields DEF Inv, EtagsMinted, StatusesOK
<1>3. a.status = version[a.etag].status
  BY <1>1 DEF Columns
<1> QED BY <1>1, <1>2, <1>3

(* Repository.Update, the same for the three kinds.                         *)
LEMMA UpdateRowEffect ==
  ASSUME Inv, NEW c \in Calls, At(c, "write"), NEW a,
         a = Mutate(call[c], nextEtag), UpdateRow(c, a, a.perms)
  PROVE  RowEffect /\ CallEffect
<1> DEFINE snap == call[c].snap
<1>1. /\ call[c] \in CallState /\ snap \in Aggregate /\ call[c].op \in SaveOps
      /\ snap.etag < nextEtag /\ Columns(snap) = Columns(version[snap.etag])
      /\ kind # "role" => call[c].patch.perms = Unset /\ snap.perms = {}
      /\ snap.status \in KindStatus
  BY SavedAggregate
<1>2. kind \in Kinds /\ nextEtag \in Nat
  BY DEF Inv, TypeOK
<1>3. /\ Derived(a, snap, nextEtag) /\ (kind # "role" => a.perms = {})
      /\ a.status \in KindStatus
  BY <1>1, <1>2, MutateDerives
<1>4. a.etag \in Etags
  BY DEF UpdateRow
<1>5. CASE NoRowAffected(c)
  BY <1>5, NoRowAffectedEffect DEF NoRowAffected, RowEffect
<1>6. CASE NothingWritten /\ Return(c, AlreadyExists)
  BY <1>6, ReturnEffect DEF RowEffect
<1>7. CASE Matches(row, call[c].etag) /\ Write(a, a.perms) /\ Acknowledge(c)
  <2>1. row # NoRow /\ row.etag \in Etags /\ version[row.etag] # NoRow
    BY <1>7 DEF Matches, Inv, TypeOK, Row, EtagsMinted
  <2>2. CASE a = snap
    <3>1. Kept(a.perms)
      <4>1. CASE kind = "role"
        BY <2>1, <2>2, <4>1 DEF Inv, PermsOK
      <4>2. CASE kind # "role"
        BY <1>3, <2>1, <4>2 DEF Inv, PermsOK, Kept
      <4> QED BY <4>1, <4>2
    <3>2. a.etag # nextEtag
      BY <1>1, <1>2, <2>2, AggregateFields DEF Etags
    <3> QED BY <1>1, <1>7, <2>1, <2>2, <3>1, <3>2, AcknowledgeEffect
            DEF Write, RowEffect
  <2>3. CASE a.etag = nextEtag /\ (nextEtag \in Etags => a \in Aggregate)
    <3>1. a \in Aggregate /\ nextEtag \in Etags
      BY <1>4, <2>3
    <3> QED BY <1>3, <1>7, <2>1, <2>3, <3>1, AcknowledgeEffect DEF Write,
       RowEffect
  <2> QED BY <1>3, <2>2, <2>3 DEF Derived
<1> QED BY <1>5, <1>6, <1>7 DEF UpdateRow

LEMMA RepositoryUpdateEffect ==
  ASSUME Inv, NEW c \in Calls,
         \/ AppRepositoryUpdate(c) \/ RoleRepositoryUpdate(c)
         \/ ServiceAccountRepositoryUpdate(c)
  PROVE  RowEffect /\ CallEffect
<1> DEFINE a == Mutate(call[c], nextEtag)
<1>1. At(c, "write")
  BY DEF AppRepositoryUpdate, RoleRepositoryUpdate, ServiceAccountRepositoryUpdate
<1>2. kind # "role" => a.perms = {}
  <2>1. /\ call[c] \in CallState /\ call[c].snap \in Aggregate
        /\ call[c].op \in SaveOps
        /\ kind # "role" => call[c].patch.perms = Unset /\ call[c].snap.perms = {}
    BY <1>1, SavedAggregate
  <2>2. kind \in Kinds
    BY DEF Inv, TypeOK
  <2> QED BY <2>1, <2>2, MutateDerives
<1>3. UpdateRow(c, a, a.perms)
  <2>1. CASE AppRepositoryUpdate(c)
    <3>1. kind = "app" /\ UpdateRow(c, MutateApp(call[c], nextEtag), {})
      BY <2>1 DEF AppRepositoryUpdate
    <3>2. a = MutateApp(call[c], nextEtag)
      BY <3>1 DEF Mutate
    <3> QED BY <1>2, <3>1, <3>2
  <2>2. CASE RoleRepositoryUpdate(c)
    <3>1. /\ kind = "role"
          /\ UpdateRow(c, MutateRole(call[c], nextEtag), MutateRole(call[c], nextEtag).perms)
      BY <2>2 DEF RoleRepositoryUpdate, RewritePermissions
    <3>2. a = MutateRole(call[c], nextEtag)
      BY <3>1 DEF Mutate
    <3> QED BY <3>1, <3>2
  <2>3. CASE ServiceAccountRepositoryUpdate(c)
    <3>1. kind = "account" /\ UpdateRow(c, MutateServiceAccount(call[c], nextEtag), {})
      BY <2>3 DEF ServiceAccountRepositoryUpdate
    <3>2. a = MutateServiceAccount(call[c], nextEtag)
      BY <3>1 DEF Mutate
    <3> QED BY <1>2, <3>1, <3>2
  <2> QED BY <2>1, <2>2, <2>3
<1> HIDE DEF a
<1> QED BY <1>1, <1>3, UpdateRowEffect DEF a

LEMMA DeleteEffect ==
  ASSUME Inv, NEW c \in Calls, DeleteRow(c)
  PROVE  RowEffect /\ CallEffect
<1>1. CASE NoRowAffected(c)
  BY <1>1, NoRowAffectedEffect DEF NoRowAffected, RowEffect
<1>2. CASE /\ row' = NoRow /\ perms' = {} /\ UNCHANGED <<nextEtag, version>>
           /\ Acknowledge(c)
  BY <1>2, AcknowledgeEffect DEF RowEffect
<1> QED BY <1>1, <1>2 DEF DeleteRow

(* The second half of a role's read.                                        *)
LEMMA GetPermissionsEffect ==
  ASSUME Inv, NEW c \in Calls, RoleGetPermissions(c)
  PROVE  RowEffect /\ CallEffect
<1> DEFINE s  == [call[c] EXCEPT !.snap.perms = perms]
<1>1. /\ call[c] \in CallState /\ call[c].snap \in Aggregate /\ call[c].snap # NoRow
      /\ kind = "role" /\ call[c].op \in SaveOps \cup {"delete"}
      /\ perms \in SUBSET Permissions
  BY DEF RoleGetPermissions, At, Inv, TypeOK, CallState, CallsOK, CallOK
<1>2. /\ s.snap \in Aggregate /\ s.snap.perms = perms
      /\ Columns(s.snap) = Columns(call[c].snap)
      /\ s.op = call[c].op /\ s.etag = call[c].etag /\ s.patch = call[c].patch
  BY <1>1 DEF CallState, Aggregate, Columns
<1>3. s \in CallState /\ s.snap # NoRow
  BY <1>1, <1>2, AggregateFields DEF CallState
<1>4. row = NoRow \/ Kept(perms)
  BY DEF Inv, PermissionsAreWhole, Kept
<1>5. NothingWritten
  BY DEF RoleGetPermissions
<1> HIDE DEF s
<1>6. CASE s.op # "delete" /\ Goto(c, [s EXCEPT !.pc = "write"])
  <2> DEFINE st == [s EXCEPT !.pc = "write"]
  <2>1. /\ st \in CallState /\ st.pc = "write" /\ st.snap = s.snap
        /\ st.op = s.op
    BY <1>3 DEF CallState, PCs
  <2> HIDE DEF st
  <2>2. CallOK(st)
    BY <1>1, <1>2, <1>3, <1>6, <2>1 DEF CallOK
  <2>3. Goto(c, st)
    BY <1>6 DEF st
  <2> QED BY <1>1, <1>2, <1>3, <1>4, <1>5, <2>1, <2>2, <2>3,
     GotoEffect DEF RowEffect
<1>7. CASE s.snap.etag = s.etag /\ Goto(c, [s EXCEPT !.pc = "delete"])
  <2> DEFINE st == [s EXCEPT !.pc = "delete"]
  <2>1. /\ st \in CallState /\ st.pc = "delete" /\ st.snap = s.snap
        /\ st.etag = s.etag
    BY <1>3 DEF CallState, PCs
  <2> HIDE DEF st
  <2>2. CallOK(st)
    BY <1>1, <1>2, <1>3, <1>7, <2>1 DEF CallOK
  <2>3. Goto(c, st)
    BY <1>7 DEF st
  <2> QED BY <1>1, <1>2, <1>3, <1>5, <2>1, <2>2, <2>3, GotoEffect DEF RowEffect
<1>8. CASE Return(c, "ETAG_MISMATCH")
  BY <1>5, <1>8, ReturnEffect DEF RowEffect
<1> QED BY <1>6, <1>7, <1>8 DEF RoleGetPermissions, s

-----------------------------------------------------------------------------
(* The services.                                                            *)

LEMMA InvalidEffect ==
  ASSUME Inv, NEW c \in Calls, Invalid(c)
  PROVE  RowEffect /\ CallEffect
BY ReturnEffect DEF Invalid, RowEffect

LEMMA PatchTypes ==
  /\ NoPatch \in RolePatches /\ NoPatch.perms = Unset
  /\ \A p \in AppPatches \cup ServiceAccountPatches :
       p \in RolePatches /\ p.perms = Unset
BY DEF NoPatch, RolePatches, AppPatches, ServiceAccountPatches

(* UpdateX up to its first read.                                            *)
LEMMA UpdateBeginEffect ==
  ASSUME Inv, NEW c \in Calls, NEW p \in RolePatches, NEW e \in -1 .. nextEtag - 1,
         NEW pc, pc = IF kind = "role" THEN "permissions" ELSE "write",
         UpdateBegin(c, pc, p, e), kind # "role" => p.perms = Unset
  PROVE  RowEffect /\ CallEffect
<1>1. CASE Invalid(c)
  BY <1>1, InvalidEffect
<1>2. CASE GivenEtag(e) /\ Load(c, Started("update", pc, e, p))
  <2>1. e \in 0 .. MaxEtags
    BY <1>2, CatalogBounds DEF GivenEtag, Inv, TypeOK
  <2>2. "update" \in Ops /\ "update" \in SaveOps /\ pc \in {"permissions", "write", "delete"}
    BY DEF Ops, SaveOps, Inv, TypeOK, Kinds
  <2> QED BY <1>2, <2>1, <2>2, LoadEffect DEF RowEffect
<1> QED BY <1>1, <1>2 DEF UpdateBegin

(* A lifecycle call or a rotation up to its first read.                     *)
LEMMA SaveBeginEffect ==
  ASSUME Inv, NEW c \in Calls, NEW op \in Ops, op \in SaveOps,
         NEW e \in -1 .. nextEtag - 1, GivenEtag(e),
         NEW pc, pc = IF kind = "role" THEN "permissions" ELSE "write",
         Load(c, Started(op, pc, e, NoPatch))
  PROVE  RowEffect /\ CallEffect
<1>1. e \in 0 .. MaxEtags
  BY CatalogBounds DEF GivenEtag, Inv, TypeOK
<1>2. pc \in {"permissions", "write", "delete"}
  OBVIOUS
<1> QED BY <1>1, <1>2, LoadEffect, PatchTypes DEF RowEffect

LEMMA LifecycleBeginEffect ==
  ASSUME Inv, NEW c \in Calls, NEW op \in Ops, op \in SaveOps,
         NEW pc, pc = IF kind = "role" THEN "permissions" ELSE "write",
         NEW allowMissing, LifecycleBegin(c, op, pc, allowMissing)
  PROVE  RowEffect /\ CallEffect
<1>1. CASE Load(c, Started(op, pc, 0, NoPatch))
  <2>1. 0 \in -1 .. nextEtag - 1 /\ GivenEtag(0)
    BY DEF Inv, TypeOK, GivenEtag
  <2> QED BY <1>1, <2>1, SaveBeginEffect
<1>2. CASE NothingWritten /\ Acknowledge(c)
  BY <1>2, AcknowledgeEffect DEF RowEffect
<1> QED BY <1>1, <1>2 DEF LifecycleBegin

LEMMA DeleteBeginEffect ==
  ASSUME Inv, NEW c \in Calls, NEW e \in -1 .. nextEtag - 1,
         \/ kind # "role" /\ DeleteBegin(c, e)
         \/ PermanentlyDeleteRole(c, e)
  PROVE  RowEffect /\ CallEffect
<1>1. CASE Invalid(c)
  BY <1>1, InvalidEffect
<1>2. CASE NothingWritten /\ Refuse(c, "ETAG_MISMATCH")
  BY <1>2, ReturnEffect DEF RowEffect, Refuse
<1>3. ASSUME SpecificEtag(e) PROVE e \in 0 .. MaxEtags
  BY <1>3, CatalogBounds DEF SpecificEtag, Inv, TypeOK
<1>4. "delete" \in Ops
  BY DEF Ops
<1>5. CASE /\ kind # "role" /\ SpecificEtag(e) /\ (row = NoRow \/ row.etag = e)
           /\ Load(c, Started("delete", "delete", e, NoPatch))
  BY <1>3, <1>4, <1>5, LoadEffect, PatchTypes DEF RowEffect
<1>6. CASE /\ kind = "role" /\ SpecificEtag(e)
           /\ Load(c, Started("delete", "permissions", e, NoPatch))
  BY <1>3, <1>4, <1>6, LoadEffect, PatchTypes DEF RowEffect
<1> QED BY <1>1, <1>2, <1>5, <1>6 DEF DeleteBegin, PermanentlyDeleteRole

LEMMA AppEffect ==
  ASSUME Inv, NEW c \in Calls, AppService(c)
  PROVE  RowEffect /\ CallEffect
<1>1. ASSUME NEW name \in Names, CreateApp(c, name)
      PROVE  RowEffect /\ CallEffect
  <2>1. /\ NewApp(name, 1) \in Aggregate /\ NewApp(name, 1).etag = 1
        /\ NewApp(name, 1).perms = {} /\ NewApp(name, 1).status = "ACTIVE"
    BY NewDerives DEF NewApp
  <2> QED BY <1>1, <2>1, InsertEffect DEF CreateApp
<1>2. ASSUME NEW p \in AppPatches, NEW e \in -1 .. nextEtag - 1, UpdateApp(c, p, e)
      PROVE  RowEffect /\ CallEffect
  BY <1>2, PatchTypes, UpdateBeginEffect DEF UpdateApp
<1>3. ASSUME NEW op \in {"disable", "enable", "enter", "exit"}, NEW b \in BOOLEAN,
             AppLifecycle(c, op, b)
      PROVE  RowEffect /\ CallEffect
  <2>1. kind = "app" /\ op \in Ops /\ op \in SaveOps
    BY <1>3 DEF AppLifecycle, Ops, SaveOps
  <2>2. ASSUME NEW err, NothingWritten, Return(c, err) PROVE RowEffect /\ CallEffect
    BY <2>2, ReturnEffect DEF RowEffect
  <2>3. CASE LifecycleBegin(c, op, "write", b)
    BY <2>1, <2>3, LifecycleBeginEffect
  <2> QED BY <1>3, <2>2, <2>3 DEF AppLifecycle, Refuse
<1>4. ASSUME NEW e \in -1 .. nextEtag - 1, PermanentlyDeleteApp(c, e)
      PROVE  RowEffect /\ CallEffect
  BY <1>4, DeleteBeginEffect DEF PermanentlyDeleteApp
<1>5. CASE AppRepositoryUpdate(c)
  BY <1>5, RepositoryUpdateEffect
<1>6. CASE AppRepositoryDelete(c)
  BY <1>6, DeleteEffect DEF AppRepositoryDelete
<1> QED BY <1>1, <1>2, <1>3, <1>4, <1>5, <1>6 DEF AppService

LEMMA RoleEffect ==
  ASSUME Inv, NEW c \in Calls, RoleService(c)
  PROVE  RowEffect /\ CallEffect
<1>1. ASSUME NEW name \in Names, NEW ps \in PermSets, CreateRole(c, name, ps)
      PROVE  RowEffect /\ CallEffect
  <2>1. /\ NewRole(name, ps, 1) \in Aggregate /\ NewRole(name, ps, 1).etag = 1
        /\ NewRole(name, ps, 1).status = "ACTIVE"
    BY NewDerives, PermSetsAssumption DEF NewRole
  <2> QED BY <1>1, <2>1, InsertEffect DEF CreateRole
<1>2. ASSUME NEW p \in RolePatches, NEW e \in -1 .. nextEtag - 1, UpdateRole(c, p, e)
      PROVE  RowEffect /\ CallEffect
  BY <1>2, UpdateBeginEffect DEF UpdateRole
<1>3. ASSUME NEW op \in {"disable", "enable"}, NEW b \in BOOLEAN, RoleLifecycle(c, op, b)
      PROVE  RowEffect /\ CallEffect
  <2>1. kind = "role" /\ op \in Ops /\ op \in SaveOps
    BY <1>3 DEF RoleLifecycle, Ops, SaveOps
  <2> QED BY <1>3, <2>1, LifecycleBeginEffect DEF RoleLifecycle
<1>4. ASSUME NEW e \in -1 .. nextEtag - 1, PermanentlyDeleteRole(c, e)
      PROVE  RowEffect /\ CallEffect
  BY <1>4, DeleteBeginEffect
<1>5. CASE RoleGetPermissions(c)
  BY <1>5, GetPermissionsEffect
<1>6. CASE RoleRepositoryUpdate(c)
  BY <1>6, RepositoryUpdateEffect
<1>7. CASE RoleRepositoryDelete(c)
  BY <1>7, DeleteEffect DEF RoleRepositoryDelete
<1> QED BY <1>1, <1>2, <1>3, <1>4, <1>5, <1>6, <1>7 DEF RoleService

LEMMA ServiceAccountEffect ==
  ASSUME Inv, NEW c \in Calls, ServiceAccountService(c)
  PROVE  RowEffect /\ CallEffect
<1>1. ASSUME NEW name \in Names, CreateServiceAccount(c, name)
      PROVE  RowEffect /\ CallEffect
  <2>1. /\ NewServiceAccount(name, 1) \in Aggregate
        /\ NewServiceAccount(name, 1).etag = 1
        /\ NewServiceAccount(name, 1).perms = {}
        /\ NewServiceAccount(name, 1).status = "ACTIVE"
    BY NewDerives DEF NewServiceAccount
  <2> QED BY <1>1, <2>1, InsertEffect DEF CreateServiceAccount
<1>2. ASSUME NEW p \in ServiceAccountPatches, NEW e \in -1 .. nextEtag - 1,
             UpdateServiceAccount(c, p, e)
      PROVE  RowEffect /\ CallEffect
  BY <1>2, PatchTypes, UpdateBeginEffect DEF UpdateServiceAccount
<1>3. ASSUME NEW op \in {"disable", "enable"}, NEW b \in BOOLEAN,
             ServiceAccountLifecycle(c, op, b)
      PROVE  RowEffect /\ CallEffect
  <2>1. kind = "account" /\ op \in Ops /\ op \in SaveOps
    BY <1>3 DEF ServiceAccountLifecycle, Ops, SaveOps
  <2> QED BY <1>3, <2>1, LifecycleBeginEffect DEF ServiceAccountLifecycle
<1>4. ASSUME NEW e \in -1 .. nextEtag - 1, RotateCredentials(c, e)
      PROVE  RowEffect /\ CallEffect
  <2>1. kind = "account" /\ "rotate" \in Ops /\ "rotate" \in SaveOps
    BY <1>4 DEF RotateCredentials, Ops, SaveOps
  <2>2. CASE Invalid(c)
    BY <2>2, InvalidEffect
  <2>3. CASE GivenEtag(e) /\ Load(c, Started("rotate", "write", e, NoPatch))
    BY <2>1, <2>3, SaveBeginEffect
  <2> QED BY <1>4, <2>2, <2>3 DEF RotateCredentials
<1>5. ASSUME NEW e \in -1 .. nextEtag - 1, PermanentlyDeleteServiceAccount(c, e)
      PROVE  RowEffect /\ CallEffect
  BY <1>5, DeleteBeginEffect DEF PermanentlyDeleteServiceAccount
<1>6. ASSUME NEW secret \in 1 .. nextEtag - 1, AuthenticateServiceAccount(c, secret)
      PROVE  RowEffect /\ CallEffect
  <2>1. reply' \in GRPCCodes
    BY <1>6, MapErrorType DEF AuthenticateServiceAccount, Inv, TypeOK
  <2>2. secretIn' \in Secrets
    <3>1. 0 \in Secrets /\ secret \in Secrets
      BY CatalogBounds DEF Inv, TypeOK, Secrets
    <3> QED BY <1>6, <3>1 DEF AuthenticateServiceAccount
  <2> QED BY <1>6, <2>1, <2>2 DEF AuthenticateServiceAccount, RowEffect,
     CallEffect
<1>7. CASE ServiceAccountRepositoryUpdate(c)
  BY <1>7, RepositoryUpdateEffect
<1>8. CASE ServiceAccountRepositoryDelete(c)
  BY <1>8, DeleteEffect DEF ServiceAccountRepositoryDelete
<1> QED BY <1>1, <1>2, <1>3, <1>4, <1>5, <1>6, <1>7,
   <1>8 DEF ServiceAccountService

(* Every step has one of the effects on the row and one on the calls.       *)
LEMMA Effects ==
  ASSUME Inv, Next
  PROVE  UNCHANGED kind /\ RowEffect /\ CallEffect
<1>1. CASE AppCascade
  <2>1. reply' \in GRPCCodes /\ secretIn' \in Secrets
    BY <1>1, CatalogBounds DEF AppCascade, GRPCCodes, Secrets
  <2> QED BY <1>1, <2>1 DEF Next, AppCascade, RowEffect, CallEffect
<1>2. ASSUME NEW c \in Calls, Step(c) PROVE RowEffect /\ CallEffect
  <2>1. CASE Discriminate(c)
    BY <2>1, ReturnEffect DEF Discriminate, RowEffect
  <2>2. CASE CallFails(c)
    BY <2>2, ReturnEffect DEF CallFails, RowEffect
  <2> QED BY <1>2, <2>1, <2>2, AppEffect, RoleEffect,
     ServiceAccountEffect DEF Step
<1> QED BY <1>1, <1>2 DEF Next

-----------------------------------------------------------------------------
(* The inductive invariant.                                                 *)

LEMMA InitInv == Init => Inv
<1> SUFFICES ASSUME Init PROVE Inv
  OBVIOUS
<1>1. kind \in Kinds /\ row = NoRow /\ nextEtag = 1 /\ perms = {}
  BY DEF Init
<1>2. \A c \in Calls : call[c] = Idle
  BY DEF Init
<1>3. \A e \in Etags : version[e] = NoRow
  BY DEF Init
<1>4. TypeOK
  <2>1. call \in [Calls -> CallState] /\ version \in [Etags -> Aggregate \cup {NoRow}]
    BY IdleState DEF Init
  <2>2. 1 \in 1 .. MaxEtags + 1 /\ 0 \in Secrets /\ "none" \in GRPCCodes
    BY CatalogBounds DEF Secrets, GRPCCodes
  <2> QED BY <1>1, <2>1, <2>2 DEF Init, TypeOK
<1>5. EtagsMinted
  BY <1>1, <1>2, <1>3, IdleState, CatalogBounds DEF EtagsMinted, Etags
<1>6. Idle.pc = "idle"
  BY DEF Idle
<1> QED BY <1>1, <1>2, <1>3, <1>4, <1>5, <1>6, IdleState
        DEF Inv, EtagNamesOneVersion, PermissionsAreWhole, CallsOK, PermsOK,
        StatusesOK, At

(* What the effect on the row leaves of its history: it only grows, the     *)
(* stored etag is one of it, and a deleted row does not return.             *)
LEMMA RowNext ==
  ASSUME Inv, UNCHANGED kind, RowEffect
  PROVE  /\ row' \in Row \cup {NoRow} /\ perms' \subseteq Permissions
         /\ nextEtag' \in 1 .. MaxEtags + 1 /\ nextEtag <= nextEtag'
         /\ version' \in [Etags -> Aggregate \cup {NoRow}]
         /\ \A e \in Etags : e < nextEtag => version'[e] = version[e]
         /\ \A e \in Etags : version'[e] # NoRow <=> e < nextEtag'
         /\ row' # NoRow => /\ row'.etag < nextEtag'
                            /\ row' = Columns(version'[row'.etag])
                            /\ Kept(perms)'
         /\ row' # NoRow => row # NoRow \/ nextEtag = 1
         /\ kind # "role" => /\ perms' = {}
                             /\ \A e \in Etags : version'[e] # NoRow =>
                                                    version'[e].perms = {}
         /\ \A e \in Etags : version'[e] # NoRow => version'[e].status \in KindStatus
<1>1. /\ row \in Row \cup {NoRow} /\ perms \subseteq Permissions
      /\ nextEtag \in 1 .. MaxEtags + 1 /\ MaxEtags \in Nat
      /\ version \in [Etags -> Aggregate \cup {NoRow}]
      /\ \A e \in Etags : version[e] # NoRow <=> e < nextEtag
      /\ row # NoRow => row.etag < nextEtag /\ row = Columns(version[row.etag])
      /\ row # NoRow => Kept(perms)
      /\ kind # "role" => /\ perms = {}
                          /\ \A e \in Etags : version[e] # NoRow => version[e].perms = {}
      /\ \A e \in Etags : version[e] # NoRow => version[e].status \in KindStatus
  BY CatalogBounds DEF Inv, TypeOK, EtagsMinted, EtagNamesOneVersion, PermsOK,
     PermissionsAreWhole, StatusesOK, Kept
<1>2. CASE NothingWritten
  BY <1>1, <1>2 DEF NothingWritten, Kept
<1>3. CASE row' = NoRow /\ perms' = {} /\ UNCHANGED <<nextEtag, version>>
  BY <1>1, <1>3
<1>4. ASSUME NEW a \in Aggregate,
             row # NoRow \/ nextEtag = 1,
             row' = Columns(a), perms' = a.perms,
             kind # "role" => a.perms = {}, a.status \in KindStatus,
             a.etag = nextEtag, nextEtag \in Etags, nextEtag' = nextEtag + 1,
             version' = [version EXCEPT ![nextEtag] = a]
      PROVE  /\ row' \in Row /\ perms' \subseteq Permissions
             /\ nextEtag' \in 1 .. MaxEtags + 1 /\ nextEtag <= nextEtag'
             /\ version' \in [Etags -> Aggregate \cup {NoRow}]
             /\ \A e \in Etags : e < nextEtag => version'[e] = version[e]
             /\ \A e \in Etags : version'[e] # NoRow <=> e < nextEtag'
             /\ row'.etag < nextEtag' /\ row' = Columns(version'[row'.etag])
             /\ Kept(perms)'
             /\ kind # "role" => /\ perms' = {}
                                 /\ \A e \in Etags : version'[e] # NoRow =>
                                                        version'[e].perms = {}
             /\ \A e \in Etags : version'[e] # NoRow => version'[e].status \in KindStatus
  <2>1. /\ row' \in Row /\ row'.etag = nextEtag /\ perms' \subseteq Permissions
        /\ a # NoRow
    BY <1>4, AggregateFields
  <2>2. /\ version' \in [Etags -> Aggregate \cup {NoRow}] /\ version'[nextEtag] = a
        /\ \A e \in Etags \ {nextEtag} : version'[e] = version[e]
    BY <1>1, <1>4
  <2>3. /\ nextEtag' \in 1 .. MaxEtags + 1 /\ nextEtag <= nextEtag'
        /\ nextEtag < nextEtag'
    BY <1>1, <1>4 DEF Etags
  <2>4. \A e \in Etags : e < nextEtag => version'[e] = version[e]
    BY <1>1, <2>2 DEF Etags
  <2>5. \A e \in Etags : version'[e] # NoRow <=> e < nextEtag'
    BY <1>1, <1>4, <2>1, <2>2 DEF Etags
  <2>6. Kept(perms)'
    BY <1>4, <2>1, <2>2 DEF Kept
  <2>7. kind # "role" => \A e \in Etags : version'[e] # NoRow => version'[e].perms = {}
    BY <1>1, <1>4, <2>2
  <2>8. \A e \in Etags : version'[e] # NoRow => version'[e].status \in KindStatus
    BY <1>1, <1>4, <2>2
  <2> QED BY <1>4, <2>1, <2>2, <2>3, <2>4, <2>5, <2>6, <2>7, <2>8
<1>5. ASSUME NEW a \in Aggregate,
             row # NoRow, row' = Columns(a), perms' = a.perms, Kept(a.perms),
             a.etag < nextEtag, Columns(a) = Columns(version[a.etag]),
             UNCHANGED <<nextEtag, version>>
      PROVE  /\ row' \in Row /\ perms' \subseteq Permissions
             /\ row'.etag < nextEtag' /\ row' = Columns(version'[row'.etag])
             /\ Kept(perms)'
             /\ kind # "role" => perms' = {}
  <2>1. /\ row' \in Row /\ row'.etag = a.etag /\ perms' \subseteq Permissions
    BY <1>5, AggregateFields
  <2>2. Kept(perms)'
    BY <1>5 DEF Kept
  <2>3. kind # "role" => perms' = {}
    BY <1>1, <1>5 DEF Kept
  <2> QED BY <1>5, <2>1, <2>2, <2>3
<1> QED BY <1>1, <1>2, <1>3, <1>4, <1>5, NoRowIsNoRow DEF RowEffect

(* What a call holds after a step carries an etag of the history, with the  *)
(* columns that etag names.                                                 *)
LEMMA SnapsNext ==
  ASSUME Inv, UNCHANGED kind, RowEffect, CallEffect, NEW c \in Calls
  PROVE  call'[c].snap # NoRow =>
           /\ call'[c].snap.etag < nextEtag'
           /\ Columns(call'[c].snap) = Columns(version'[call'[c].snap.etag])
<1> DEFINE Named(a) == /\ a.etag \in Etags /\ a.etag < nextEtag
                       /\ Columns(a) = Columns(version[a.etag])
<1>1. nextEtag \in Nat /\ nextEtag' \in Nat /\ nextEtag <= nextEtag'
      /\ \A e \in Etags : e < nextEtag => version'[e] = version[e]
  BY RowNext, CatalogBounds DEF Inv, TypeOK
<1>2. \A d \in Calls : call[d].snap # NoRow => Named(call[d].snap)
  BY AggregateFields DEF Inv, TypeOK, CallState, EtagsMinted, EtagNamesOneVersion
<1>3. row # NoRow => row.etag \in Etags /\ row.etag < nextEtag /\ row = Columns(version[row.etag])
  BY DEF Inv, TypeOK, Row, EtagsMinted, EtagNamesOneVersion
<1>4. call'[c].snap # NoRow => Named(call'[c].snap)
  <2>1. CASE UNCHANGED call
    BY <1>2, <2>1
  <2>2. ASSUME NEW d \in Calls, NEW st \in CallState,
               call' = [call EXCEPT ![d] = st],
               \/ st.snap = NoRow
               \/ /\ call[d].snap # NoRow /\ st.snap # NoRow
                  /\ Columns(st.snap) = Columns(call[d].snap)
               \/ row # NoRow /\ st.snap # NoRow /\ Columns(st.snap) = row
        PROVE  call'[c].snap # NoRow => Named(call'[c].snap)
    <3>1. call'[c] = IF c = d THEN st ELSE call[c]
      BY <2>2 DEF Inv, TypeOK
    <3>2. ASSUME NEW a, NEW b, Columns(a) = Columns(b) PROVE a.etag = b.etag
      BY <3>2 DEF Columns
    <3>3. ASSUME NEW a, Columns(a) = row PROVE a.etag = row.etag
      BY <3>3 DEF Columns
    <3>4. st.snap # NoRow => Named(st.snap)
      BY <1>2, <1>3, <2>2, <3>2, <3>3
    <3> QED BY <1>2, <3>1, <3>4
  <2> QED BY <2>1, <2>2 DEF CallEffect
<1> QED BY <1>1, <1>4 DEF Etags

(* The calls keep what their program points rely on.                        *)
LEMMA CallsNext ==
  ASSUME Inv, UNCHANGED kind, CallEffect
  PROVE  CallsOK' /\ call' \in [Calls -> CallState]
<1>1. SaveOps' = SaveOps
  BY DEF SaveOps
<1>2. \A c \in Calls : CallOK(call'[c])
  BY DEF CallEffect, Inv, TypeOK, CallsOK
<1>3. call' \in [Calls -> CallState]
  BY DEF CallEffect, Inv, TypeOK
<1> QED BY <1>1, <1>2, <1>3 DEF CallsOK, CallOK

(* A role about to be saved keeps permissions of one version.               *)
LEMMA PermsNext ==
  ASSUME Inv, UNCHANGED kind, RowEffect, CallEffect
  PROVE  PermsOK'
<1>1. /\ \A e \in Etags : e < nextEtag => version'[e] = version[e]
      /\ \A e \in Etags : version[e] # NoRow <=> e < nextEtag
      /\ row' # NoRow => row # NoRow \/ nextEtag = 1
  BY RowNext DEF Inv, EtagsMinted
<1>2. nextEtag = 1 => \A c \in Calls : call[c].snap = NoRow
  BY AggregateFields, CatalogBounds DEF Inv, TypeOK, CallState, EtagsMinted, Etags
<1>3. ASSUME kind = "role", NEW c \in Calls, call'[c].pc = "write", row' # NoRow
      PROVE  \E e \in Etags : /\ version'[e] # NoRow
                              /\ version'[e].perms = call'[c].snap.perms
  <2>1. ASSUME call'[c] = call[c] PROVE Kept(call[c].snap.perms)
    BY <1>1, <1>2, <1>3, <2>1 DEF Inv, PermsOK, At, CallsOK, CallOK
  <2>2. ASSUME NEW st \in CallState, call'[c] = st, CallOK(st),
               \/ st.snap = NoRow
               \/ call[c].snap # NoRow
               \/ row # NoRow,
               st.pc = "write" => row = NoRow \/ Kept(st.snap.perms)
        PROVE  Kept(st.snap.perms)
    <3>1. row # NoRow \/ nextEtag = 1
      BY <1>1, <1>3
    <3>2. CASE row # NoRow
      BY <1>3, <2>2, <3>2
    <3>3. CASE row = NoRow
      BY <1>2, <1>3, <2>2, <3>1, <3>3 DEF CallOK
    <3> QED BY <3>2, <3>3
  <2>3. \/ call'[c] = call[c]
        \/ \E st \in CallState :
             /\ call'[c] = st /\ CallOK(st)
             /\ st.snap = NoRow \/ call[c].snap # NoRow \/ row # NoRow
             /\ st.pc = "write" => row = NoRow \/ Kept(st.snap.perms)
    BY <1>3 DEF CallEffect, Inv, TypeOK
  <2>4. Kept(call'[c].snap.perms)
    BY <2>1, <2>2, <2>3
  <2> QED BY <1>1, <2>4 DEF Kept
<1>4. kind # "role" => /\ perms' = {}
                       /\ \A e \in Etags : version'[e] # NoRow => version'[e].perms = {}
  BY RowNext
<1> QED BY <1>3, <1>4 DEF PermsOK, At, Kept

(* The invariant is inductive.                                              *)
LEMMA StepInv == Inv /\ [Next]_vars => Inv'
<1>1. ASSUME Inv, Next PROVE Inv'
  <2>1. UNCHANGED kind /\ RowEffect /\ CallEffect
    BY <1>1, Effects
  <2>2. CallsOK' /\ call' \in [Calls -> CallState]
    BY <1>1, <2>1, CallsNext
  <2>3. PermsOK'
    BY <1>1, <2>1, PermsNext
  <2>4. TypeOK'
    BY <1>1, <2>1, <2>2, RowNext DEF CallEffect, Inv, TypeOK
  <2>5. EtagsMinted'
    BY <1>1, <2>1, RowNext, SnapsNext DEF EtagsMinted
  <2>6. EtagNamesOneVersion'
    BY <1>1, <2>1, RowNext, SnapsNext DEF EtagNamesOneVersion
  <2>7. PermissionsAreWhole'
    BY <1>1, <2>1, RowNext DEF PermissionsAreWhole, Kept
  <2>8. StatusesOK'
    BY <1>1, <2>1, RowNext DEF StatusesOK, KindStatus
  <2> QED BY <2>2, <2>3, <2>4, <2>5, <2>6, <2>7, <2>8 DEF Inv
<1>2. ASSUME Inv, UNCHANGED vars PROVE Inv'
  BY <1>2 DEF vars, Inv, TypeOK, EtagNamesOneVersion, PermissionsAreWhole,
     EtagsMinted, CallsOK, CallOK, SaveOps, PermsOK, StatusesOK, KindStatus, Kept,
     At
<1> QED BY <1>1, <1>2

(* Every reachable state satisfies the inductive invariant.                 *)
THEOREM InvInvariant == Spec => []Inv
BY InitInv, StepInv, PTL DEF Spec

(* The types of the tables, of the calls in flight and of the history.      *)
THEOREM TypeCorrect == Spec => []TypeOK
<1>1. Inv => TypeOK
  BY DEF Inv
<1> QED BY <1>1, InvInvariant, PTL

(* An etag stands for one version of the columns of an app, a role or a     *)
(* service account, whatever stale row a lifecycle call writes back.        *)
THEOREM EtagsNameVersions == Spec => []EtagNamesOneVersion
<1>1. Inv => EtagNamesOneVersion
  BY DEF Inv
<1> QED BY <1>1, InvInvariant, PTL

(* The permissions of a role are never a mixture of two requests, although  *)
(* GetByID reads them in a second statement.                                *)
THEOREM PermissionsStayWhole == Spec => []PermissionsAreWhole
<1>1. Inv => PermissionsAreWhole
  BY DEF Inv
<1> QED BY <1>1, InvInvariant, PTL

-----------------------------------------------------------------------------
(* Writes with an etag.                                                     *)

(* The row changes through a call that creates it or whose etag it still    *)
(* has, and only a call at its DELETE removes it.                           *)
Targeted(c) ==
  \/ row' = row
  \/ At(c, "idle")
  \/ Matches(row, call[c].etag) /\ (row' = NoRow => At(c, "delete"))

LEMMA UpdateRowTargeted ==
  ASSUME Inv, NEW c \in Calls, At(c, "write"), NEW a, NEW ps,
         a = Mutate(call[c], nextEtag), UpdateRow(c, a, ps)
  PROVE  Targeted(c)
<1>1. a.etag \in Etags
  BY DEF UpdateRow
<1>2. a \in Aggregate
  <2>1. /\ call[c] \in CallState /\ call[c].snap \in Aggregate
        /\ call[c].op \in SaveOps /\ kind \in Kinds
    BY SavedAggregate DEF Inv, TypeOK
  <2>2. Derived(a, call[c].snap, nextEtag)
    BY <2>1, MutateDerives
  <2> QED BY <1>1, <2>1, <2>2 DEF Derived
<1>3. Columns(a) # NoRow
  BY <1>2, AggregateFields
<1> QED BY <1>3 DEF UpdateRow, Write, NoRowAffected, NothingWritten, Targeted

(* A step of a call moves no other call.                                    *)
OthersStay(c) == \A d \in Calls \ {c} : call'[d] = call[d]

LEMMA MovesOne ==
  ASSUME Inv, NEW c \in Calls
  PROVE  /\ \A st : Goto(c, st) => OthersStay(c)
         /\ \A err : Return(c, err) => OthersStay(c)
         /\ Acknowledge(c) => OthersStay(c)
         /\ \A err : Refuse(c, err) => OthersStay(c)
         /\ NoRowAffected(c) => OthersStay(c) /\ Targeted(c)
         /\ Invalid(c) => OthersStay(c) /\ Targeted(c)
         /\ \A st : Load(c, st) => OthersStay(c) /\ Targeted(c)
<1>1. \A st : Goto(c, st) => OthersStay(c)
  BY DEF Goto, OthersStay, Inv, TypeOK
<1>2. \A err : Return(c, err) => OthersStay(c)
  BY DEF Return, OthersStay, Inv, TypeOK
<1> QED BY <1>1, <1>2 DEF Acknowledge, Refuse, NoRowAffected, Invalid, Load,
        NothingWritten, Targeted

LEMMA UpdateRowMovesOne ==
  ASSUME Inv, NEW c \in Calls, NEW a, NEW ps, UpdateRow(c, a, ps)
  PROVE  OthersStay(c)
BY MovesOne DEF UpdateRow

LEMMA SavesTargeted ==
  ASSUME Inv, NEW c \in Calls,
         \/ AppRepositoryUpdate(c) \/ RoleRepositoryUpdate(c)
         \/ ServiceAccountRepositoryUpdate(c)
  PROVE  Targeted(c) /\ OthersStay(c)
<1>1. ASSUME NEW a, NEW ps, At(c, "write"), a = Mutate(call[c], nextEtag),
             UpdateRow(c, a, ps)
      PROVE  Targeted(c) /\ OthersStay(c)
  BY <1>1, UpdateRowTargeted, UpdateRowMovesOne
<1>2. CASE AppRepositoryUpdate(c)
  <2>1. /\ kind = "app" /\ At(c, "write")
        /\ UpdateRow(c, MutateApp(call[c], nextEtag), {})
    BY <1>2 DEF AppRepositoryUpdate
  <2>2. MutateApp(call[c], nextEtag) = Mutate(call[c], nextEtag)
    BY <2>1 DEF Mutate
  <2> QED BY <1>1, <2>1, <2>2
<1>3. CASE RoleRepositoryUpdate(c)
  <2>1. /\ kind = "role" /\ At(c, "write")
        /\ \E ps : UpdateRow(c, MutateRole(call[c], nextEtag), ps)
    BY <1>3 DEF RoleRepositoryUpdate
  <2>2. MutateRole(call[c], nextEtag) = Mutate(call[c], nextEtag)
    BY <2>1 DEF Mutate
  <2> QED BY <1>1, <2>1, <2>2
<1>4. CASE ServiceAccountRepositoryUpdate(c)
  <2>1. /\ kind = "account" /\ At(c, "write")
        /\ UpdateRow(c, MutateServiceAccount(call[c], nextEtag), {})
    BY <1>4 DEF ServiceAccountRepositoryUpdate
  <2>2. MutateServiceAccount(call[c], nextEtag) = Mutate(call[c], nextEtag)
    BY <2>1 DEF Mutate
  <2> QED BY <1>1, <2>1, <2>2
<1> QED BY <1>2, <1>3, <1>4

LEMMA StepTargeted ==
  ASSUME Inv, NEW c \in Calls, Step(c)
  PROVE  Targeted(c) /\ OthersStay(c)
<1>1. ASSUME NEW a, Insert(c, a) PROVE Targeted(c) /\ OthersStay(c)
  BY <1>1, MovesOne DEF Insert, Targeted
<1>2. ASSUME DeleteRow(c) PROVE Targeted(c) /\ OthersStay(c)
  BY <1>2, MovesOne DEF DeleteRow, Targeted
<1>3. ASSUME NEW err, NothingWritten, Return(c, err)
      PROVE  Targeted(c) /\ OthersStay(c)
  BY <1>3, MovesOne DEF NothingWritten, Targeted
<1>4. ASSUME NEW st, NothingWritten, Goto(c, st)
      PROVE  Targeted(c) /\ OthersStay(c)
  BY <1>4, MovesOne DEF NothingWritten, Targeted
<1>5. /\ NothingWritten /\ Acknowledge(c) => Targeted(c) /\ OthersStay(c)
      /\ \A err : NothingWritten /\ Refuse(c, err) => Targeted(c) /\ OthersStay(c)
  BY <1>3 DEF Acknowledge, Refuse
<1>6. CASE AppService(c)
  BY <1>1, <1>2, <1>3, <1>6, <1>5, MovesOne, SavesTargeted DEF AppService,
     CreateApp, UpdateApp, UpdateBegin, AppLifecycle, LifecycleBegin,
     PermanentlyDeleteApp, DeleteBegin, AppRepositoryDelete
<1>7. CASE RoleService(c)
  <2>1. CASE RoleGetPermissions(c)
    BY <1>3, <1>4, <2>1 DEF RoleGetPermissions
  <2> QED BY <1>1, <1>2, <1>3, <1>7, <1>5, <2>1, MovesOne,
     SavesTargeted DEF RoleService, CreateRole, UpdateRole, UpdateBegin,
     RoleLifecycle, LifecycleBegin, PermanentlyDeleteRole, RoleRepositoryDelete
<1>8. CASE ServiceAccountService(c)
  <2>1. ASSUME NEW secret, AuthenticateServiceAccount(c, secret)
        PROVE  Targeted(c) /\ OthersStay(c)
    BY <2>1 DEF AuthenticateServiceAccount, NothingWritten, Targeted, OthersStay
  <2> QED BY <1>1, <1>2, <1>3, <1>8, <1>5, <2>1, MovesOne, SavesTargeted
          DEF ServiceAccountService, CreateServiceAccount, UpdateServiceAccount,
          UpdateBegin, ServiceAccountLifecycle, LifecycleBegin, RotateCredentials,
          PermanentlyDeleteServiceAccount, DeleteBegin, ServiceAccountRepositoryDelete
<1>9. CASE Discriminate(c) \/ CallFails(c)
  BY <1>3, <1>9 DEF Discriminate, CallFails
<1> QED BY <1>6, <1>7, <1>8, <1>9 DEF Step

(* UpdateX, RotateCredentials and PermanentlyDeleteX with an etag act on    *)
(* the version it names, and a deletion on the row its call has read.       *)
THEOREM PinnedWritesAct == Spec => PinnedWritesActOnNamedVersion
<1>1. ASSUME Inv, Next, NEW c \in Calls,
             call'[c] # call[c], row' # row, call[c].etag # 0
      PROVE  /\ row = Columns(version[call[c].etag])
             /\ row' = NoRow => row = Columns(call[c].snap)
  <2>1. PICK d \in Calls : Step(d)
    BY <1>1 DEF Next, AppCascade
  <2>2. Targeted(c)
    BY <1>1, <2>1, StepTargeted DEF OthersStay
  <2>3. ~ At(c, "idle")
    BY <1>1 DEF At, Inv, CallsOK, CallOK
  <2>4. row # NoRow /\ row.etag = call[c].etag /\ (row' = NoRow => At(c, "delete"))
    BY <1>1, <2>2, <2>3 DEF Targeted, Matches
  <2>5. row = Columns(version[call[c].etag])
    BY <1>1, <2>4 DEF Inv, EtagNamesOneVersion
  <2>6. ASSUME row' = NoRow PROVE row = Columns(call[c].snap)
    <3>1. call[c].snap # NoRow /\ call[c].etag = call[c].snap.etag
      BY <1>1, <2>4, <2>6 DEF At, Inv, CallsOK, CallOK
    <3> QED BY <1>1, <2>5, <3>1 DEF Inv, EtagNamesOneVersion
  <2> QED BY <2>5, <2>6
<1>2. Inv /\ [Next]_vars =>
        [\A c \in Calls :
           (call'[c] # call[c] /\ row' # row /\ call[c].etag # 0) =>
              /\ row = Columns(version[call[c].etag])
              /\ row' = NoRow => row = Columns(call[c].snap)]_vars
  BY <1>1
<1> QED BY <1>2, InvInvariant, PTL DEF Spec, PinnedWritesActOnNamedVersion

-----------------------------------------------------------------------------
(* The abstract row.                                                        *)

LEMMA RowEffectRefines ==
  ASSUME Inv, UNCHANGED kind, RowEffect
  PROVE  [Versions!Next]_(Versions!vars)
<1>1. /\ nextEtag \in Nat /\ nextEtag >= 1
      /\ row # NoRow => row.etag \in 1 .. nextEtag - 1
  BY CatalogBounds DEF Inv, TypeOK, EtagsMinted, Row, Etags
<1>2. ASSUME NEW a \in Aggregate, row' = Columns(a)
      PROVE  row' # NoRow /\ row'.etag = a.etag /\ a.etag \in Nat /\ a.etag >= 1
  BY <1>2, AggregateFields, CatalogBounds DEF Etags
<1>3. CASE NothingWritten
  BY <1>3 DEF NothingWritten, Versions!vars
<1>4. CASE row' = NoRow /\ UNCHANGED <<nextEtag, version>>
  BY <1>1, <1>4 DEF Versions!vars, Versions!Next, Versions!Delete
<1>5. ASSUME NEW a \in Aggregate, row' = Columns(a), row = NoRow => nextEtag = 1,
             a.etag = nextEtag, nextEtag' = nextEtag + 1
      PROVE  Versions!Next
  <2>1. CASE nextEtag = 1
    BY <1>1, <1>2, <1>5, <2>1 DEF Versions!Next, Versions!Create
  <2>2. CASE row # NoRow
    BY <1>1, <1>2, <1>5, <2>2 DEF Versions!Next, Versions!Stamp
  <2> QED BY <1>5, <2>1, <2>2
<1>6. ASSUME NEW a \in Aggregate, row # NoRow, row' = Columns(a),
             a.etag < nextEtag, UNCHANGED nextEtag
      PROVE  Versions!Next
  BY <1>1, <1>2, <1>6 DEF Versions!Next, Versions!WriteBack
<1> QED BY <1>3, <1>4, <1>5, <1>6 DEF RowEffect

(* An app, a role or a service account is created once, every change is a   *)
(* fresh version or an older one written back, and no stale save brings a   *)
(* deleted row back: Catalog implements VersionedRow.                       *)
THEOREM CatalogRefinesVersionedRow == Spec => ImplementsVersionedRow
<1>1. Init => Versions!Init
  BY DEF Init, Versions!Init
<1>2. Inv /\ [Next]_vars => [Versions!Next]_(Versions!vars)
  <2>1. Inv /\ Next => [Versions!Next]_(Versions!vars)
    BY Effects, RowEffectRefines
  <2>2. UNCHANGED vars => UNCHANGED Versions!vars
    BY DEF vars, Versions!vars
  <2> QED BY <2>1, <2>2
<1> QED BY <1>1, <1>2, InvInvariant, PTL
    DEF Spec, ImplementsVersionedRow, Versions!Spec
-----------------------------------------------------------------------------
(* The status of the row.                                                   *)

(* The moves of a status among S: born ACTIVE, then any of S, then gone.    *)
StatusMoves(S) ==
  \/ Standing' = Standing
  \/ Standing = "unborn" /\ Standing' = "ACTIVE"
  \/ Standing \in S /\ Standing' \in S
  \/ Standing \in S /\ Standing' = "gone"

LEMMA RowEffectMoves ==
  ASSUME Inv, UNCHANGED kind, RowEffect
  PROVE  StatusMoves(KindStatus)
<1>1. ASSUME row # NoRow PROVE Standing = row.status /\ row.status \in KindStatus
  <2>1. /\ row.etag \in Etags /\ version[row.etag].status \in KindStatus
        /\ row = Columns(version[row.etag])
    BY <1>1 DEF Inv, TypeOK, Row, EtagsMinted, EtagNamesOneVersion, StatusesOK
  <2> QED BY <1>1, <2>1 DEF Columns, Standing
<1>2. ASSUME NEW a \in Aggregate, row' = Columns(a) PROVE Standing' = a.status
  <2>1. Columns(a) # NoRow /\ Columns(a).status = a.status
    BY <1>2, AggregateFields DEF Columns
  <2> QED BY <1>2, <2>1 DEF Standing
<1>3. CASE NothingWritten
  BY <1>3 DEF NothingWritten, Standing, StatusMoves
<1>4. CASE row' = NoRow /\ UNCHANGED <<nextEtag, version>>
  <2>1. CASE row = NoRow
    BY <1>4, <2>1 DEF Standing, StatusMoves
  <2>2. CASE row # NoRow
    <3>1. nextEtag # 1
      BY <2>2 DEF Inv, TypeOK, Row, EtagsMinted, Etags
    <3> QED BY <1>1, <1>4, <2>2, <3>1 DEF Standing, StatusMoves
  <2> QED BY <2>1, <2>2
<1>5. ASSUME NEW a \in Aggregate, row # NoRow \/ nextEtag = 1, row' = Columns(a),
             a.status \in KindStatus, row = NoRow => a.status = "ACTIVE"
      PROVE  StatusMoves(KindStatus)
  <2>1. CASE row = NoRow
    BY <1>2, <1>5, <2>1 DEF Standing, StatusMoves
  <2>2. CASE row # NoRow
    BY <1>1, <1>2, <1>5, <2>2 DEF StatusMoves
  <2> QED BY <2>1, <2>2
<1>6. ASSUME NEW a \in Aggregate, row # NoRow, row' = Columns(a), a.etag < nextEtag,
             Columns(a) = Columns(version[a.etag])
      PROVE  StatusMoves(KindStatus)
  <2>1. version[a.etag].status \in KindStatus
    BY <1>6, AggregateFields DEF Inv, EtagsMinted, StatusesOK
  <2>2. a.status = version[a.etag].status
    BY <1>6 DEF Columns
  <2> QED BY <1>1, <1>2, <1>6, <2>1, <2>2 DEF StatusMoves
<1> QED BY <1>3, <1>4, <1>5, <1>6 DEF RowEffect

LEMMA StatusStep == Inv /\ [Next]_vars => StatusMoves(KindStatus) /\ kind' = kind
<1>1. Inv /\ Next => StatusMoves(KindStatus) /\ kind' = kind
  BY Effects, RowEffectMoves
<1>2. UNCHANGED vars => StatusMoves(KindStatus) /\ kind' = kind
  BY DEF vars, Standing, StatusMoves
<1> QED BY <1>1, <1>2

(* An app is created ACTIVE, moves between its three statuses, and once     *)
(* PermanentlyDeleteApp has removed it no save in flight gives it a status  *)
(* again.                                                                   *)
THEOREM AppRefinesRowLifecycle == Spec /\ kind = "app" => AppLife!Spec
<1>1. Init => AppLife!Init
  BY DEF Init, Standing, AppLife!Init
<1>2. Inv /\ kind = "app" /\ [Next]_vars => [AppLife!Next]_Standing /\ (kind = "app")'
  <2>1. StatusMoves(AppStatus) => [AppLife!Next]_Standing
    BY DEF StatusMoves, AppLife!Next, AppLife!Create, AppLife!Change,
       AppLife!Delete
  <2>2. kind = "app" => KindStatus = AppStatus
    BY DEF KindStatus
  <2> QED BY <2>1, <2>2, StatusStep
<1> QED BY <1>1, <1>2, InvInvariant, PTL DEF Spec, AppLife!Spec

(* Roles and service accounts do the same with two statuses: neither is     *)
(* ever in maintenance.                                                     *)
THEOREM RoleRefinesRowLifecycle == Spec /\ kind # "app" => RoleLife!Spec
<1>1. Init => RoleLife!Init
  BY DEF Init, Standing, RoleLife!Init
<1>2. Inv /\ kind # "app" /\ [Next]_vars => [RoleLife!Next]_Standing /\ (kind # "app")'
  <2>1. StatusMoves(RoleStatus) => [RoleLife!Next]_Standing
    BY DEF StatusMoves, RoleLife!Next, RoleLife!Create, RoleLife!Change,
       RoleLife!Delete
  <2>2. kind # "app" => KindStatus = RoleStatus
    BY DEF KindStatus
  <2> QED BY <2>1, <2>2, StatusStep
<1> QED BY <1>1, <1>2, InvInvariant, PTL DEF Spec, RoleLife!Spec
=============================================================================
