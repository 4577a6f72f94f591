------------------------- MODULE AccessControlProofs -------------------------
(***************************************************************************)
(* Proofs about AccessControl for any number of calls, users, roles, apps   *)
(* and permissions.  A call remembers what its checks have established      *)
(* (CallOK); what it saw is kept in seen, which only grows during a call.   *)
(***************************************************************************)
EXTENDS AccessControl, SequenceTheorems, TLAPS

(* The round trips of a plan.                                               *)
In(plan) == {plan[i] : i \in DOMAIN plan}

(* Those that end a call, those that are transactions, those that grant.    *)
Final == {"create", "bulkCreate", "get", "has", "delete", "bulkDelete",
          "permissions", "hydrate"}
Bulk == {"bulkCreate", "bulkDelete"}
Granting(s) == "create" \in In(s.plan) \/ "bulkCreate" \in In(s.plan)

(* loadActiveRoleInApp let the role pass.                                   *)
Passed(s, r, h) == s.app \in {NoId, AppOf[r]} /\ r \in h.active

(* A call s that has seen h.                                                *)
PlanOK(s) ==
  /\ s.plan # <<>> /\ s.plan[Len(s.plan)] \in Final
  /\ s.user \in Users
  /\ "get" \in In(s.plan) => Len(s.plan) = 1
  /\ \A i \in DOMAIN s.plan :
       /\ s.plan[i] \in Final => i = Len(s.plan)
       /\ s.plan[i] = "hydrate" /\ i > 1 => s.plan[i - 1] = "list"
       /\ s.plan[i] \in Bulk /\ i > 1 => s.plan[i - 1] \in {"role", "activeRole"}

GrantOK(s, h) ==
  Granting(s) =>
    /\ In(s.plan) \subseteq {"app", "userEligible", "activeRole", "create", "bulkCreate"}
    /\ "create" \in In(s.plan) => s.app = NoId /\ \E r \in Roles : s.roles = {r}
    /\ "bulkCreate" \in In(s.plan) => s.app \in Apps
    /\ s.todo \subseteq s.roles
    /\ "activeRole" \notin In(s.plan) => \A r \in s.roles : Passed(s, r, h)
    /\ s.plan[1] = "activeRole" => \A r \in s.roles \ s.todo : Passed(s, r, h)
    /\ "userEligible" \notin In(s.plan) => s.user \in h.active

ReadOK(s, h) ==
  /\ s.plan[1] = "get" => s.roles \subseteq h.held
  /\ "hydrate" \in In(s.plan) => s.roles \subseteq h.held
  /\ s.plan[1] = "hydrate" => s.todo \subseteq h.held

CallOK(s, h) == s # Idle => PlanOK(s) /\ GrantOK(s, h) /\ ReadOK(s, h)

CallsOK == \A c \in Calls : CallOK(call[c], seen[c])

(* What a call could observe now is among what it has seen.                 *)
NowSeen == \A c \in Calls : call[c] # Idle =>
  /\ Now(c).held \subseteq seen[c].held
  /\ Now(c).lost \subseteq seen[c].lost
  /\ Now(c).active \subseteq seen[c].active

(* A role lives no longer than its app.                                     *)
RolesInApps == \A r \in Roles : Exists(role[r]) => app[AppOf[r]] = "live"

(* What an open transaction has dealt with is as it left it: its locks keep *)
(* the pairs, and those of an INSERT the user and the role.                 *)
Dealt(s) == s.roles \ s.todo

TxOK(c) ==
  /\ At(c, "bulkCreate") => \A r \in Dealt(call[c]) :
       /\ Exists(user[call[c].user]) /\ Exists(role[r])
       /\ r \in call[c].pending \/ Has(call[c].user, r)
  /\ At(c, "bulkDelete") => \A r \in Dealt(call[c]) :
       r \in call[c].pending \/ ~ Has(call[c].user, r)
  /\ At(c, "bulkCreate") \/ At(c, "bulkDelete") =>
       call[c].pending \subseteq Dealt(call[c]) /\ call[c].todo \subseteq call[c].roles

Exclusive == \A c, d \in Calls : c # d => Locks(c) \cap Locks(d) = {}

TxsOK == (\A c \in Calls : TxOK(c)) /\ Exclusive

Inv == /\ TypeOK /\ AssignmentsBelong /\ RolesInApps /\ CallsOK /\ NowSeen
       /\ TxsOK
-----------------------------------------------------------------------------
(* Plans.                                                                   *)

PlanSet == UNION {[1 .. n -> Steps] : n \in 0 .. 4}

LEMMA PlanType ==
  ASSUME NEW p \in PlanSet
  PROVE  p \in Seq(Steps) /\ Len(p) \in 0 .. 4 /\ DOMAIN p = 1 .. Len(p)
<1>1. PICK n \in 0 .. 4 : p \in [1 .. n -> Steps]
  BY DEF PlanSet
<1>2. p \in Seq(Steps) /\ Len(p) = n
  BY <1>1
<1> QED BY <1>1, <1>2

(* The rest of a plan.                                                      *)
LEMMA PlanTail ==
  ASSUME NEW p \in PlanSet, p # <<>>
  PROVE  /\ Len(p) \in 1 .. 4 /\ Head(p) = p[1] /\ p[1] \in In(p)
         /\ Tail(p) \in PlanSet /\ Len(Tail(p)) = Len(p) - 1
         /\ DOMAIN Tail(p) = 1 .. Len(p) - 1 /\ DOMAIN p = 1 .. Len(p)
         /\ \A i \in 1 .. Len(p) - 1 : Tail(p)[i] = p[i + 1]
         /\ In(Tail(p)) \subseteq In(p)
         /\ In(p) \subseteq {p[1]} \cup In(Tail(p))
<1>1. p \in Seq(Steps) /\ Len(p) \in 0 .. 4 /\ DOMAIN p = 1 .. Len(p)
  BY PlanType
<1>2. Len(p) # 0
  BY <1>1, EmptySeq
<1>3. /\ Head(p) = p[1] /\ Tail(p) \in Seq(Steps) /\ Len(Tail(p)) = Len(p) - 1
      /\ \A i \in 1 .. Len(Tail(p)) : Tail(p)[i] = p[i + 1]
  BY <1>1, <1>2, HeadTailProperties
<1>4. DOMAIN Tail(p) = 1 .. Len(p) - 1
  BY <1>3
<1>5. Tail(p) \in [1 .. Len(p) - 1 -> Steps]
  BY <1>1, <1>2, <1>3, LenProperties
<1>6. Tail(p) \in PlanSet
  BY <1>1, <1>2, <1>5 DEF PlanSet
<1>7. In(Tail(p)) \subseteq In(p)
  <2> SUFFICES ASSUME NEW i \in 1 .. Len(p) - 1 PROVE Tail(p)[i] \in In(p)
    BY <1>4 DEF In
  <2>1. i + 1 \in DOMAIN p /\ Tail(p)[i] = p[i + 1]
    BY <1>1, <1>3
  <2> QED BY <2>1 DEF In
<1>8. In(p) \subseteq {p[1]} \cup In(Tail(p))
  <2> SUFFICES ASSUME NEW i \in 1 .. Len(p), i # 1 PROVE p[i] \in In(Tail(p))
    BY <1>1 DEF In
  <2>1. i - 1 \in 1 .. Len(p) - 1 /\ (i - 1) + 1 = i
    BY <1>1
  <2>2. i - 1 \in DOMAIN Tail(p) /\ Tail(p)[i - 1] = p[i]
    BY <1>3, <1>4, <2>1
  <2> QED BY <2>2 DEF In
<1>9. p[1] \in In(p)
  BY <1>1, <1>2 DEF In
<1> QED BY <1>1, <1>2, <1>3, <1>4, <1>6, <1>7, <1>8, <1>9

(* The plans of the use cases that do not grant.                            *)
ReadPlans == {<<"userExists", "role", "delete">>,
              <<"app", "userExists", "role", "bulkDelete">>,
              <<"userExists", "app", "permissions">>,
              <<"userExists", "role", "has">>,
              <<"resolve", "userExists", "app", "permissions">>,
              <<"userExists", "app", "list", "hydrate">>}

LEMMA ReadPlanOK ==
  ASSUME NEW p \in ReadPlans
  PROVE  /\ p \in PlanSet /\ p # <<>> /\ p[Len(p)] \in Final
         /\ p[1] \notin {"get", "hydrate"}
         /\ {"create", "bulkCreate", "get"} \cap In(p) = {}
         /\ \A i \in DOMAIN p :
              /\ p[i] \in Final => i = Len(p)
              /\ p[i] = "hydrate" /\ i > 1 => p[i - 1] = "list"
              /\ p[i] \in Bulk /\ i > 1 => p[i - 1] \in {"role", "activeRole"}
<1>1. CASE p = <<"userExists", "role", "delete">>
  <2>1. p \in [1 .. 3 -> Steps]
    BY <1>1 DEF Steps
  <2> QED BY <1>1, <2>1 DEF PlanSet, Final, Bulk, In
<1>2. CASE p = <<"app", "userExists", "role", "bulkDelete">>
  <2>1. p \in [1 .. 4 -> Steps]
    BY <1>2 DEF Steps
  <2> QED BY <1>2, <2>1 DEF PlanSet, Final, Bulk, In
<1>3. CASE p = <<"userExists", "app", "permissions">>
  <2>1. p \in [1 .. 3 -> Steps]
    BY <1>3 DEF Steps
  <2> QED BY <1>3, <2>1 DEF PlanSet, Final, Bulk, In
<1>4. CASE p = <<"userExists", "role", "has">>
  <2>1. p \in [1 .. 3 -> Steps]
    BY <1>4 DEF Steps
  <2> QED BY <1>4, <2>1 DEF PlanSet, Final, Bulk, In
<1>5. CASE p = <<"resolve", "userExists", "app", "permissions">>
  <2>1. p \in [1 .. 4 -> Steps]
    BY <1>5 DEF Steps
  <2> QED BY <1>5, <2>1 DEF PlanSet, Final, Bulk, In
<1>6. CASE p = <<"userExists", "app", "list", "hydrate">>
  <2>1. p \in [1 .. 4 -> Steps]
    BY <1>6 DEF Steps
  <2> QED BY <1>6, <2>1 DEF PlanSet, Final, Bulk, In
<1> QED BY <1>1, <1>2, <1>3, <1>4, <1>5, <1>6 DEF ReadPlans

GrantPlan     == <<"activeRole", "userEligible", "create">>
BulkGrantPlan == <<"app", "userEligible", "activeRole", "bulkCreate">>

LEMMA GrantPlanOK ==
  ASSUME NEW p \in {GrantPlan, BulkGrantPlan}
  PROVE  /\ p \in PlanSet /\ p # <<>> /\ p[Len(p)] \in Final
         /\ p[1] \notin {"get", "hydrate"} /\ {"get", "hydrate"} \cap In(p) = {}
         /\ In(p) \subseteq {"app", "userEligible", "activeRole", "create", "bulkCreate"}
         /\ {"userEligible", "activeRole"} \subseteq In(p)
         /\ "create" \in In(p) <=> p = GrantPlan
         /\ "bulkCreate" \in In(p) <=> p = BulkGrantPlan
         /\ \A i \in DOMAIN p :
              /\ p[i] # "hydrate" /\ (p[i] \in Final => i = Len(p))
              /\ p[i] \in Bulk /\ i > 1 => p[i - 1] \in {"role", "activeRole"}
<1>1. CASE p = GrantPlan
  <2>1. p \in [1 .. 3 -> Steps]
    BY <1>1 DEF Steps, GrantPlan
  <2>2. In(p) = {"activeRole", "userEligible", "create"} /\ p # BulkGrantPlan
    BY <1>1 DEF In, GrantPlan, BulkGrantPlan
  <2> QED BY <1>1, <2>1, <2>2 DEF PlanSet, Final, Bulk, GrantPlan
<1>2. CASE p = BulkGrantPlan
  <2>1. p \in [1 .. 4 -> Steps]
    BY <1>2 DEF Steps, BulkGrantPlan
  <2>2. In(p) = {"app", "userEligible", "activeRole", "bulkCreate"} /\ p # GrantPlan
    BY <1>2 DEF In, GrantPlan, BulkGrantPlan
  <2> QED BY <1>2, <2>1, <2>2 DEF PlanSet, Final, Bulk, BulkGrantPlan
<1> QED BY <1>1, <1>2
-----------------------------------------------------------------------------
(* States of a call.                                                        *)

Reply == [code : GRPCCodes, allowed : SUBSET Permission, roles : SUBSET Roles]

SeenSet == [held : SUBSET Roles, lost : SUBSET Roles,
            active : SUBSET (Users \cup Roles)]

LEMMA IdleState == Idle \in CallState /\ Idle.plan = <<>>
<1>1. <<>> \in [1 .. 0 -> Steps]
  OBVIOUS
<1>2. <<>> \in PlanSet
  BY <1>1 DEF PlanSet
<1> QED BY <1>2 DEF Idle, CallState, PlanSet

LEMMA ReplyTypes ==
  /\ NoReply \in Reply
  /\ \A err : MapError(err, AccessErrorMap) \in GRPCCodes
<1>1. \A x \in DOMAIN AccessErrorMap : AccessErrorMap[x] \in GRPCCodes
  BY DEF AccessErrorMap, GRPCCodes
<1>2. {"none", "OK", "InvalidArgument", "Internal"} \subseteq GRPCCodes
  BY DEF GRPCCodes
<1> QED BY <1>1, <1>2 DEF MapError, NoReply, Reply

(* An error is never answered as a success.                                 *)
LEMMA ErrorsAreErrors ==
  /\ \A err : err # "OK" => MapError(err, AccessErrorMap) # "OK"
  /\ MapError("OK", AccessErrorMap) = "OK"
<1>1. \A x \in DOMAIN AccessErrorMap : AccessErrorMap[x] # "OK"
  BY DEF AccessErrorMap
<1> QED BY <1>1 DEF MapError

LEMMA Replied ==
  ASSUME NEW c, NEW err, NEW allowed, NEW roles, Answer(c, err, allowed, roles)
  PROVE  /\ reply'.code = MapError(err, AccessErrorMap)
         /\ reply'.allowed = allowed /\ reply'.roles = roles
BY DEF Answer

(* What a call relies on stays when it has seen more.                       *)
LEMMA MoreSeen ==
  ASSUME NEW s, NEW h, NEW g, CallOK(s, h),
         h.held \subseteq g.held, h.active \subseteq g.active
  PROVE  CallOK(s, g)
<1>1. \A r : Passed(s, r, h) => Passed(s, r, g)
  BY DEF Passed
<1>2. GrantOK(s, h) => GrantOK(s, g)
  BY <1>1 DEF GrantOK
<1>3. ReadOK(s, h) => ReadOK(s, g)
  BY DEF ReadOK
<1> QED BY <1>2, <1>3 DEF CallOK

(* A call that begins.                                                      *)
LEMMA StartedReads ==
  ASSUME NEW p \in ReadPlans, NEW u \in Users, NEW a \in Apps \cup {NoId},
         NEW rs \in SUBSET Roles, NEW perms \in SUBSET Permission, NEW h,
         "hydrate" \in In(p) => rs = {}
  PROVE  LET s == [plan |-> p, user |-> u, app |-> a, roles |-> rs,
                   todo |-> rs, pending |-> {}, perms |-> perms]
         IN  s \in CallState /\ CallOK(s, h)
<1> DEFINE s == [plan |-> p, user |-> u, app |-> a, roles |-> rs,
                 todo |-> rs, pending |-> {}, perms |-> perms]
<1>1. /\ p \in PlanSet /\ p # <<>> /\ p[Len(p)] \in Final
      /\ p[1] \notin {"get", "hydrate"}
      /\ {"create", "bulkCreate", "get"} \cap In(p) = {}
      /\ \A i \in DOMAIN p :
           /\ p[i] \in Final => i = Len(p)
           /\ p[i] = "hydrate" /\ i > 1 => p[i - 1] = "list"
           /\ p[i] \in Bulk /\ i > 1 => p[i - 1] \in {"role", "activeRole"}
  BY ReadPlanOK
<1>2. s \in CallState
  BY <1>1 DEF CallState, PlanSet
<1>3. s.plan = p /\ s.user = u /\ s.roles = rs
  OBVIOUS
<1> HIDE DEF s
<1>4. CallOK(s, h)
  BY <1>1, <1>3 DEF CallOK, PlanOK, GrantOK, Granting, ReadOK
<1> QED BY <1>2, <1>4 DEF s

LEMMA StartedGrants ==
  ASSUME NEW p \in {GrantPlan, BulkGrantPlan}, NEW u \in Users, NEW a \in Apps \cup {NoId},
         NEW rs \in SUBSET Roles, NEW h,
         p = GrantPlan => a = NoId /\ \E r \in Roles : rs = {r},
         p = BulkGrantPlan => a \in Apps
  PROVE  LET s == [plan |-> p, user |-> u, app |-> a, roles |-> rs,
                   todo |-> rs, pending |-> {}, perms |-> {}]
         IN  s \in CallState /\ CallOK(s, h)
<1> DEFINE s == [plan |-> p, user |-> u, app |-> a, roles |-> rs,
                 todo |-> rs, pending |-> {}, perms |-> {}]
<1>1. /\ p \in PlanSet /\ p # <<>> /\ p[Len(p)] \in Final
      /\ p[1] \notin {"get", "hydrate"} /\ {"get", "hydrate"} \cap In(p) = {}
      /\ In(p) \subseteq {"app", "userEligible", "activeRole", "create", "bulkCreate"}
      /\ {"userEligible", "activeRole"} \subseteq In(p)
      /\ "create" \in In(p) <=> p = GrantPlan
      /\ "bulkCreate" \in In(p) <=> p = BulkGrantPlan
      /\ \A i \in DOMAIN p :
           /\ p[i] # "hydrate" /\ (p[i] \in Final => i = Len(p))
           /\ p[i] \in Bulk /\ i > 1 => p[i - 1] \in {"role", "activeRole"}
  BY GrantPlanOK
<1>2. s \in CallState
  BY <1>1 DEF CallState, PlanSet
<1>3. s.plan = p /\ s.user = u /\ s.roles = rs /\ s.todo = rs /\ s.app = a
  OBVIOUS
<1> HIDE DEF s
<1>4. PlanOK(s)
  BY <1>1, <1>3 DEF PlanOK
<1>5. GrantOK(s, h)
  BY <1>1, <1>3 DEF GrantOK
<1>6. ReadOK(s, h)
  BY <1>1, <1>3 DEF ReadOK
<1> QED BY <1>2, <1>4, <1>5, <1>6 DEF s, CallOK

(* What is left of a plan after a round trip that does not end it.          *)
LEMMA PlanGoesOn ==
  ASSUME NEW s \in CallState, PlanOK(s), s.plan[1] \notin Final
  PROVE  LET q == Tail(s.plan)
         IN  /\ q \in PlanSet /\ q # <<>> /\ q[Len(q)] \in Final
             /\ In(q) \subseteq In(s.plan) /\ In(s.plan) \subseteq {s.plan[1]} \cup In(q)
             /\ s.plan[1] \in In(s.plan)
             /\ "get" \notin In(q) /\ q[1] # "get"
             /\ \A i \in DOMAIN q :
                  /\ q[i] \in Final => i = Len(q)
                  /\ q[i] = "hydrate" /\ i > 1 => q[i - 1] = "list"
                  /\ q[i] \in Bulk /\ i > 1 => q[i - 1] \in {"role", "activeRole"}
             /\ q[1] = "hydrate" => s.plan[1] = "list"
             /\ q[1] \in Bulk => s.plan[1] \in {"role", "activeRole"}
<1> DEFINE p == s.plan  q == Tail(s.plan)
<1>1. p \in PlanSet /\ p # <<>>
  BY DEF PlanOK, CallState, PlanSet
<1>2. /\ Len(p) \in 1 .. 4 /\ p[1] \in In(p)
      /\ q \in PlanSet /\ Len(q) = Len(p) - 1
      /\ DOMAIN q = 1 .. Len(p) - 1 /\ DOMAIN p = 1 .. Len(p)
      /\ \A i \in 1 .. Len(p) - 1 : q[i] = p[i + 1]
      /\ In(q) \subseteq In(p) /\ In(p) \subseteq {p[1]} \cup In(q)
  BY <1>1, PlanTail
<1>3. Len(p) > 1
  BY <1>1, <1>2 DEF PlanOK
<1> HIDE DEF q
<1>4. /\ q # <<>> /\ q[Len(q)] = p[Len(p)] /\ 1 \in DOMAIN q /\ q[1] = p[2]
      /\ q[1] \in In(q)
  BY <1>2, <1>3 DEF In
<1>5. \A i \in DOMAIN q :
        /\ q[i] \in Final => i = Len(q)
        /\ q[i] = "hydrate" /\ i > 1 => q[i - 1] = "list"
        /\ q[i] \in Bulk /\ i > 1 => q[i - 1] \in {"role", "activeRole"}
  <2> SUFFICES ASSUME NEW i \in 1 .. Len(p) - 1
               PROVE  /\ q[i] \in Final => i = Len(q)
                      /\ q[i] = "hydrate" /\ i > 1 => q[i - 1] = "list"
                      /\ q[i] \in Bulk /\ i > 1 => q[i - 1] \in {"role", "activeRole"}
    BY <1>2
  <2>1. i + 1 \in DOMAIN p /\ p[i + 1] = q[i] /\ i + 1 > 1 /\ (i + 1) - 1 = i
    BY <1>2
  <2>2. q[i] \in Final => i + 1 = Len(p)
    BY <2>1 DEF PlanOK
  <2>3. /\ q[i] = "hydrate" => p[i] = "list"
        /\ q[i] \in Bulk => p[i] \in {"role", "activeRole"}
    BY <2>1 DEF PlanOK
  <2>4. i > 1 => q[i - 1] = p[i]
    BY <1>2
  <2> QED BY <1>2, <2>2, <2>3, <2>4
<1>6. "get" \notin In(q) /\ q[1] # "get"
  BY <1>2, <1>3, <1>4 DEF PlanOK
<1>7. /\ q[1] = "hydrate" => p[1] = "list"
      /\ q[1] \in Bulk => p[1] \in {"role", "activeRole"}
  BY <1>2, <1>3, <1>4 DEF PlanOK
<1> QED BY <1>2, <1>4, <1>5, <1>6, <1>7 DEF PlanOK, q

(* A precondition is met: the next round trip.  Of a grant the checks that  *)
(* are over stay so; the one at hand was met.                               *)
LEMMA AdvancedState ==
  ASSUME NEW s \in CallState, s # Idle, NEW h, CallOK(s, h),
         s.plan[1] \in {"userEligible", "userExists", "app", "role", "activeRole"},
         s.plan[1] = "userEligible" => s.user \in h.active,
         (Granting(s) /\ s.plan[1] = "activeRole") => \A r \in s.todo : Passed(s, r, h)
  PROVE  LET t == [s EXCEPT !.plan = Tail(@), !.todo = s.roles, !.pending = {}]
         IN  t \in CallState /\ CallOK(t, h)
<1> DEFINE t == [s EXCEPT !.plan = Tail(@), !.todo = s.roles, !.pending = {}]
           p == s.plan  q == Tail(s.plan)
<1>1. PlanOK(s) /\ GrantOK(s, h) /\ ReadOK(s, h)
  BY DEF CallOK
<1>2. /\ q \in PlanSet /\ q # <<>> /\ q[Len(q)] \in Final
      /\ In(q) \subseteq In(p) /\ In(p) \subseteq {p[1]} \cup In(q)
      /\ p[1] \in In(p) /\ "get" \notin In(q) /\ q[1] # "get"
      /\ \A i \in DOMAIN q :
           /\ q[i] \in Final => i = Len(q)
           /\ q[i] = "hydrate" /\ i > 1 => q[i - 1] = "list"
           /\ q[i] \in Bulk /\ i > 1 => q[i - 1] \in {"role", "activeRole"}
      /\ q[1] # "hydrate"
  BY <1>1, PlanGoesOn DEF Final
<1>3. /\ t \in CallState /\ t.plan = q /\ t.todo = s.roles
      /\ t.roles = s.roles /\ t.user = s.user /\ t.app = s.app
  BY <1>2 DEF CallState, PlanSet
<1> HIDE DEF t, q
<1>4. PlanOK(t)
  BY <1>1, <1>2, <1>3 DEF PlanOK
<1>5. GrantOK(t, h)
  <2> SUFFICES ASSUME Granting(t) PROVE GrantOK(t, h)
    BY DEF GrantOK
  <2>1. Granting(s)
    BY <1>2, <1>3 DEF Granting
  <2>2. \A r : Passed(t, r, h) <=> Passed(s, r, h)
    BY <1>3 DEF Passed
  <2>3. ASSUME "activeRole" \notin In(q), NEW r \in s.roles PROVE Passed(t, r, h)
    <3>1. CASE p[1] = "activeRole"
      BY <1>1, <2>1, <2>2, <2>3, <3>1 DEF GrantOK
    <3>2. CASE p[1] # "activeRole"
      BY <1>1, <1>2, <2>1, <2>2, <2>3, <3>2 DEF GrantOK
    <3> QED BY <3>1, <3>2
  <2>4. ASSUME "userEligible" \notin In(q) PROVE s.user \in h.active
    BY <1>1, <1>2, <2>1, <2>4 DEF GrantOK
  <2> QED BY <1>1, <1>2, <1>3, <2>1, <2>3, <2>4 DEF GrantOK
<1>6. ReadOK(t, h)
  BY <1>1, <1>2, <1>3 DEF ReadOK
<1> QED BY <1>3, <1>4, <1>5, <1>6 DEF CallOK, t

(* The same for the reads that find an app or a list of roles.              *)
LEMMA ReadOnState ==
  ASSUME NEW s \in CallState, s # Idle, NEW h, NEW g, CallOK(s, h),
         s.plan[1] \in {"resolve", "list"}, h.held \subseteq g.held,
         NEW t \in CallState, t.plan = Tail(s.plan), t.user = s.user,
         t.roles = s.roles, s.plan[1] = "list" => t.todo \subseteq g.held
  PROVE  CallOK(t, g)
<1> DEFINE p == s.plan  q == Tail(s.plan)
<1>1. PlanOK(s) /\ GrantOK(s, h) /\ ReadOK(s, h)
  BY DEF CallOK
<1>2. /\ q \in PlanSet /\ q # <<>> /\ q[Len(q)] \in Final
      /\ In(q) \subseteq In(p) /\ p[1] \in In(p)
      /\ "get" \notin In(q) /\ q[1] # "get"
      /\ \A i \in DOMAIN q :
           /\ q[i] \in Final => i = Len(q)
           /\ q[i] = "hydrate" /\ i > 1 => q[i - 1] = "list"
           /\ q[i] \in Bulk /\ i > 1 => q[i - 1] \in {"role", "activeRole"}
      /\ q[1] = "hydrate" => p[1] = "list"
  BY <1>1, PlanGoesOn DEF Final
<1> HIDE DEF q
<1>3. t.plan = q
  BY DEF q
<1>4. PlanOK(t)
  BY <1>1, <1>2, <1>3 DEF PlanOK
<1>5. ~ Granting(t)
  BY <1>1, <1>2, <1>3 DEF Granting, GrantOK
<1>6. ReadOK(t, g)
  BY <1>1, <1>2, <1>3 DEF ReadOK
<1> QED BY <1>4, <1>5, <1>6 DEF CallOK, GrantOK

-----------------------------------------------------------------------------
(* What the steps do to the calls.                                          *)

LEMMA CallFacts ==
  ASSUME Inv, NEW c \in Calls
  PROVE  /\ call[c] \in CallState /\ CallOK(call[c], seen[c])
         /\ call[c].roles \subseteq Roles /\ call[c].todo \subseteq Roles
         /\ call[c].pending \subseteq Roles
         /\ call[c].perms \subseteq Permission
         /\ call[c].app \in Apps \cup {NoId}
         /\ call[c].plan \in PlanSet
         /\ call[c] # Idle => /\ call[c].plan # <<>> /\ call[c].user \in Users
                              /\ Head(call[c].plan) = call[c].plan[1]
<1>1. call[c] \in CallState /\ CallOK(call[c], seen[c])
  BY DEF Inv, TypeOK, CallsOK
<1>2. call[c].plan \in PlanSet
  BY <1>1 DEF CallState, PlanSet
<1>3. call[c] # Idle => call[c].plan # <<>> /\ call[c].user \in Users
  BY <1>1 DEF CallOK, PlanOK
<1> QED BY <1>1, <1>2, <1>3, PlanTail DEF CallState

(* A step keeps what its calls have seen and adds what they could see.      *)
LEMMA SeenNext ==
  ASSUME Inv, Remember, NEW c \in Calls, call'[c] # Idle
  PROVE  /\ seen[c].held \subseteq seen'[c].held
         /\ seen[c].lost \subseteq seen'[c].lost
         /\ seen[c].active \subseteq seen'[c].active
         /\ \A r \in call'[c].roles \cup call'[c].todo :
              IF HasIn(assigned', call'[c].user, r) THEN r \in seen'[c].held
                                                    ELSE r \in seen'[c].lost
<1>1. seen'[c] = [held   |-> seen[c].held \cup Now(c)'.held,
                  lost   |-> seen[c].lost \cup Now(c)'.lost,
                  active |-> seen[c].active \cup Now(c)'.active]
  BY DEF Remember
<1>2. /\ Now(c)'.held = {r \in call'[c].roles \cup call'[c].todo :
                          HasIn(assigned', call'[c].user, r)}
      /\ Now(c)'.lost = {r \in call'[c].roles \cup call'[c].todo :
                          ~ HasIn(assigned', call'[c].user, r)}
  BY DEF Now, Has, HasIn
<1> QED BY <1>1, <1>2

Moves(c, t) ==
  /\ call' = [call EXCEPT ![c] = t]
  /\ t \in CallState /\ CallOK(t, seen'[c])

CallEffect ==
  /\ reply' \in Reply
  /\ \/ UNCHANGED call
     \/ call' = [c \in Calls |-> Idle]
     \/ \E c \in Calls, t \in CallState : Moves(c, t)

LEMMA AnswerEffect ==
  ASSUME NEW c \in Calls, NEW err, NEW allowed \in SUBSET Permission,
         NEW roles \in SUBSET Roles, Answer(c, err, allowed, roles)
  PROVE  CallEffect
<1>1. reply' \in Reply
  BY ReplyTypes DEF Answer, Reply
<1>2. Moves(c, Idle)
  BY IdleState DEF Answer, Moves, CallOK
<1> QED BY <1>1, <1>2, IdleState DEF CallEffect

LEMMA ReturnEffect ==
  ASSUME NEW c \in Calls, NEW err, Return(c, err)
  PROVE  CallEffect
BY AnswerEffect DEF Return

(* A step into a state that is in order by what the call has seen before.   *)
LEMMA GotoEffect ==
  ASSUME Inv, Remember, NEW c \in Calls, NEW t \in CallState,
         call' = [call EXCEPT ![c] = t], CallOK(t, seen[c]), reply' = NoReply
  PROVE  CallEffect
<1>1. call'[c] = t
  BY DEF Inv, TypeOK
<1>2. CallOK(t, seen'[c])
  <2>1. CASE t = Idle
    BY <2>1 DEF CallOK
  <2>2. CASE t # Idle
    BY <1>1, <2>2, SeenNext, MoreSeen
  <2> QED BY <2>1, <2>2
<1> QED BY <1>2, ReplyTypes DEF Moves, CallEffect

LEMMA AdvanceEffect ==
  ASSUME Inv, Remember, NEW c \in Calls,
         NEW step \in {"userEligible", "userExists", "app", "role", "activeRole"},
         At(c, step), Advance(c),
         step = "userEligible" => user[call[c].user] = "ACTIVE",
         (Granting(call[c]) /\ step = "activeRole") =>
            \A r \in call[c].todo : Passed(call[c], r, seen[c])
  PROVE  CallEffect
<1> DEFINE s == call[c]
           t == [s EXCEPT !.plan = Tail(@), !.todo = s.roles, !.pending = {}]
<1>1. /\ s \in CallState /\ s # Idle /\ CallOK(s, seen[c])
      /\ s.plan[1] = step /\ s.user \in Users
  BY CallFacts DEF At, IsIdle
<1>2. step = "userEligible" => s.user \in seen[c].active
  <2>1. s.user \in Users /\ user[s.user] = "ACTIVE" => s.user \in Now(c).active
    BY DEF Now
  <2> QED BY <1>1, <2>1 DEF Inv, NowSeen
<1>3. t \in CallState /\ CallOK(t, seen[c])
  BY <1>1, <1>2, AdvancedState
<1>4. call' = [call EXCEPT ![c] = t] /\ reply' = NoReply
  BY DEF Advance
<1> HIDE DEF t
<1> QED BY <1>3, <1>4, GotoEffect

LEMMA RequireEffect ==
  ASSUME Inv, Remember, NEW c \in Calls,
         NEW step \in {"userEligible", "userExists", "app"}, NEW err,
         Require(c, step, err),
         (err = "OK" /\ step = "userEligible") => user[call[c].user] = "ACTIVE"
  PROVE  CallEffect
<1>1. CASE Return(c, err)
  BY <1>1, ReturnEffect
<1>2. CASE err = "OK" /\ Advance(c)
  BY <1>2, AdvanceEffect DEF Require
<1> QED BY <1>1, <1>2 DEF Require

(* todo loses a role that passed.                                           *)
LEMMA ShrunkEffect ==
  ASSUME Inv, Remember, NEW c \in Calls, call[c] # Idle, NEW r \in call[c].todo,
         NEW t \in CallState, t.todo = call[c].todo \ {r}, t.plan = call[c].plan,
         t.roles = call[c].roles, t.app = call[c].app, t.user = call[c].user,
         call' = [call EXCEPT ![c] = t], reply' = NoReply,
         (Granting(call[c]) /\ call[c].plan[1] = "activeRole") =>
            Passed(call[c], r, seen[c])
  PROVE  CallEffect
<1> DEFINE s == call[c]
<1>1. s \in CallState /\ PlanOK(s) /\ GrantOK(s, seen[c]) /\ ReadOK(s, seen[c])
  BY CallFacts DEF CallOK
<1>4. PlanOK(t)
  BY <1>1 DEF PlanOK
<1>5. GrantOK(t, seen[c])
  BY <1>1 DEF GrantOK, Granting, Passed
<1>6. ReadOK(t, seen[c])
  BY <1>1 DEF ReadOK
<1> QED BY <1>4, <1>5, <1>6, GotoEffect DEF CallOK

LEMMA ShrinkEffect ==
  ASSUME Inv, Remember, NEW c \in Calls, call[c] # Idle, NEW r \in call[c].todo,
         call' = [call EXCEPT ![c].todo = @ \ {r}], reply' = NoReply,
         (Granting(call[c]) /\ call[c].plan[1] = "activeRole") =>
            Passed(call[c], r, seen[c])
  PROVE  CallEffect
<1> DEFINE s == call[c]
           t == [s EXCEPT !.todo = @ \ {r}]
<1>1. /\ t \in CallState /\ t.todo = s.todo \ {r} /\ t.plan = s.plan
      /\ t.roles = s.roles /\ t.app = s.app /\ t.user = s.user
  BY CallFacts DEF CallState
<1>2. call' = [call EXCEPT ![c] = t]
  OBVIOUS
<1> HIDE DEF t
<1> QED BY <1>1, <1>2, ShrunkEffect

(* A statement of an open transaction.                                      *)
LEMMA StatementEffect ==
  ASSUME Inv, Remember, NEW c \in Calls, NEW step \in Bulk, At(c, step),
         NEW r \in call[c].todo, NEW changed \in BOOLEAN, StatementDone(c, r, changed)
  PROVE  CallEffect
<1> DEFINE s == call[c]
           q == IF changed THEN s.pending \cup {r} ELSE s.pending
           t == [s EXCEPT !.todo = @ \ {r}, !.pending = q]
<1>1. s \in CallState /\ s # Idle /\ s.plan[1] = step /\ r \in Roles /\ q \subseteq Roles
  BY CallFacts DEF At, IsIdle
<1>2. /\ t \in CallState /\ t.todo = s.todo \ {r} /\ t.plan = s.plan
      /\ t.roles = s.roles /\ t.app = s.app /\ t.user = s.user
  BY <1>1 DEF CallState
<1>3. call' = [call EXCEPT ![c] = t] /\ reply' = NoReply
  BY DEF StatementDone
<1>4. s.plan[1] # "activeRole"
  BY <1>1 DEF Bulk
<1> HIDE DEF t
<1> QED BY <1>1, <1>2, <1>3, <1>4, ShrunkEffect

LEMMA AnyRoleEffect ==
  ASSUME Inv, Remember, NEW c \in Calls, loadAnyRole(c)
  PROVE  CallEffect
<1>1. call[c] # Idle /\ call[c].plan[1] = "role" /\ At(c, "role")
  BY CallFacts DEF loadAnyRole, RequireRoles, At, IsIdle
<1>2. ASSUME NEW err, Return(c, err) PROVE CallEffect
  BY <1>2, ReturnEffect
<1>3. CASE Advance(c)
  BY <1>1, <1>3, AdvanceEffect
<1>4. ASSUME NEW r \in call[c].todo, call' = [call EXCEPT ![c].todo = @ \ {r}],
             reply' = NoReply
      PROVE  CallEffect
  BY <1>1, <1>4, ShrinkEffect
<1> QED BY <1>2, <1>3, <1>4 DEF loadAnyRole, RequireRoles

LEMMA ActiveRoleEffect ==
  ASSUME Inv, Remember, NEW c \in Calls, loadActiveRoleInApp(c)
  PROVE  CallEffect
<1>1. call[c] # Idle /\ call[c].plan[1] = "activeRole" /\ At(c, "activeRole")
  BY CallFacts DEF loadActiveRoleInApp, RequireRoles, At, IsIdle
<1>2. ASSUME NEW err, Return(c, err) PROVE CallEffect
  BY <1>2, ReturnEffect
<1>3. ASSUME Granting(call[c]), NEW r \in call[c].todo, role[r] = "ACTIVE",
             call[c].app \in {NoId, AppOf[r]}
      PROVE  Passed(call[c], r, seen[c])
  <2>1. r \in call[c].roles
    BY <1>1, <1>3, CallFacts DEF CallOK, GrantOK
  <2>2. r \in Now(c).active
    BY <1>3, <2>1 DEF Now
  <2> QED BY <1>1, <1>3, <2>2 DEF Inv, NowSeen, Passed
<1>4. ASSUME NEW r \in call[c].todo, role[r] = "ACTIVE", call[c].app \in {NoId, AppOf[r]},
             call[c].todo = {r}, Advance(c)
      PROVE  CallEffect
  BY <1>1, <1>3, <1>4, AdvanceEffect
<1>5. ASSUME NEW r \in call[c].todo, role[r] = "ACTIVE", call[c].app \in {NoId, AppOf[r]},
             call' = [call EXCEPT ![c].todo = @ \ {r}], reply' = NoReply
      PROVE  CallEffect
  BY <1>1, <1>3, <1>5, ShrinkEffect
<1> QED BY <1>2, <1>4, <1>5 DEF loadActiveRoleInApp, RequireRoles
(* The INSERTs.                                                             *)
LEMMA CreatedHas ==
  ASSUME NEW u, NEW rs, NEW a
  PROVE  \A r \in rs : HasIn(CreateRoleAssignments(u, rs, a), u, r)
<1> SUFFICES ASSUME NEW r \in rs PROVE HasIn(CreateRoleAssignments(u, rs, a), u, r)
  OBVIOUS
<1>1. CASE Has(u, r)
  BY <1>1 DEF Has, HasIn, CreateRoleAssignments
<1>2. CASE ~ Has(u, r)
  <2>1. NewRoleAssignment(u, r, a) \in CreateRoleAssignments(u, rs, a)
    BY <1>2 DEF CreateRoleAssignments
  <2>2. NewRoleAssignment(u, r, a).user = u /\ NewRoleAssignment(u, r, a).role = r
    BY DEF NewRoleAssignment
  <2> QED BY <2>1, <2>2 DEF HasIn
<1> QED BY <1>1, <1>2

(* A committed INSERT, and the duplicates left to read.                     *)
LEMMA CommitHas ==
  ASSUME NEW c, NEW rs, CommitInserts(c, rs),
         \A r \in call[c].roles \ rs : Has(call[c].user, r)
  PROVE  \A r \in call[c].roles : HasIn(assigned', call[c].user, r)
<1>1. assigned' = CreateRoleAssignments(call[c].user, rs, AssignmentApp(c))
  BY DEF CommitInserts
<1>2. assigned \subseteq assigned'
  BY <1>1 DEF CreateRoleAssignments
<1> QED BY <1>1, <1>2, CreatedHas DEF Has, HasIn

LEMMA CommitEffect ==
  ASSUME Inv, Remember, NEW c \in Calls, call[c] # Idle, NEW rs, CommitInserts(c, rs),
         \A r \in call[c].roles \ rs : Has(call[c].user, r)
  PROVE  CallEffect
<1> DEFINE dups == call[c].roles \ rs
<1>1. ASSUME NEW err, Return(c, err) PROVE CallEffect
  BY <1>1, ReturnEffect
<1>3. ASSUME reply' = NoReply,
             call' = [call EXCEPT ![c].plan = <<"get">>, ![c].todo = dups,
                                  ![c].pending = {}]
      PROVE  CallEffect
  <2> DEFINE s == call[c]
             t == [s EXCEPT !.plan = <<"get">>, !.todo = dups, !.pending = {}]
  <2>1. s \in CallState /\ s # Idle /\ s.user \in Users /\ s.roles \subseteq Roles
    BY CallFacts
  <2>2. <<"get">> \in PlanSet /\ <<"get">> # <<>>
    <3>1. <<"get">> \in [1 .. 1 -> Steps]
      BY DEF Steps
    <3>2. 1 \in 0 .. 4
      OBVIOUS
    <3>3. Len(<<"get">>) = 1 /\ Len(<<>>) = 0
      OBVIOUS
    <3> QED BY <3>1, <3>2, <3>3 DEF PlanSet
  <2>3. /\ t \in CallState /\ t.plan = <<"get">> /\ t.user = s.user
        /\ t.roles = s.roles /\ t.todo = dups
    BY <2>1, <2>2 DEF CallState, PlanSet
  <2>4. call' = [call EXCEPT ![c] = t]
    BY <1>3
  <2>5. call'[c] = t
    BY <2>4 DEF Inv, TypeOK
  <2> HIDE DEF t
  <2>6. t # Idle
    BY <2>2, <2>3, IdleState
  <2>7. \A r \in t.roles : HasIn(assigned', t.user, r)
    BY <2>3, CommitHas
  <2>8. t.roles \subseteq seen'[c].held
    BY <2>5, <2>6, <2>7, SeenNext
  <2>9. In(t.plan) = {"get"} /\ Len(t.plan) = 1 /\ t.plan[1] = "get" /\ t.plan # <<>>
        /\ DOMAIN t.plan = {1}
    BY <2>3 DEF In
  <2>10. CallOK(t, seen'[c])
    BY <2>1, <2>3, <2>8, <2>9 DEF CallOK, PlanOK, GrantOK, Granting, ReadOK, Final, Bulk
  <2> QED BY <1>3, <2>3, <2>4, <2>10, ReplyTypes DEF Moves, CallEffect
<1> QED BY <1>1, <1>3 DEF CommitInserts

(* A call about to grant is at the last round trip of its plan.             *)
LEMMA LastStep ==
  ASSUME Inv, NEW c \in Calls, NEW step \in Final, At(c, step)
  PROVE  /\ call[c] # Idle /\ call[c].plan[1] = step /\ In(call[c].plan) = {step}
         /\ PlanOK(call[c]) /\ GrantOK(call[c], seen[c])
<1> DEFINE s == call[c]
<1>1. /\ s # Idle /\ s.plan[1] = step /\ s.plan # <<>> /\ s.plan \in PlanSet
      /\ PlanOK(s) /\ GrantOK(s, seen[c])
  BY CallFacts DEF At, IsIdle, CallOK
<1>2. Len(s.plan) \in 1 .. 4 /\ DOMAIN s.plan = 1 .. Len(s.plan)
  BY <1>1, PlanTail
<1>3. Len(s.plan) = 1
  <2>1. 1 \in DOMAIN s.plan /\ s.plan[1] \in Final
    BY <1>1, <1>2
  <2>2. \A i \in DOMAIN s.plan : s.plan[i] \in Final => i = Len(s.plan)
    BY <1>1 DEF PlanOK
  <2> QED BY <2>1, <2>2
<1> QED BY <1>1, <1>2, <1>3 DEF In

(* The rows a committed grant finds in place.                               *)
LEMMA CreateDups ==
  ASSUME Inv, NEW c \in Calls, At(c, "create"), NEW r \in call[c].roles,
         NEW x \in call[c].roles \ {q \in {r} : ~ Has(call[c].user, q)}
  PROVE  Has(call[c].user, x)
<1>1. PICK q \in Roles : call[c].roles = {q}
  BY LastStep DEF GrantOK, Granting, Final
<1> QED BY <1>1

LEMMA BulkDups ==
  ASSUME Inv, NEW c \in Calls, At(c, "bulkCreate"), call[c].todo = {}
  PROVE  /\ \A r \in call[c].roles \ call[c].pending : Has(call[c].user, r)
         /\ call[c].pending \subseteq call[c].roles
BY DEF Inv, TxsOK, TxOK, Dealt

LEMMA CreateEffect ==
  ASSUME Inv, Remember, NEW c \in Calls, Create(c) \/ BulkCreate(c)
  PROVE  CallEffect
<1>1. call[c] # Idle
  BY DEF Create, BulkCreate, At, IsIdle
<1>2. CASE ForeignKeyBroken(c)
  BY <1>2, ReturnEffect DEF ForeignKeyBroken
<1>3. ASSUME At(c, "create"), NEW r \in call[c].roles,
             CommitInserts(c, {q \in {r} : ~ Has(call[c].user, q)})
      PROVE  CallEffect
  BY <1>1, <1>3, CreateDups, CommitEffect
<1>4. CASE At(c, "bulkCreate") /\ call[c].todo = {} /\ CommitInserts(c, call[c].pending)
  BY <1>1, <1>4, BulkDups, CommitEffect
<1>5. ASSUME At(c, "bulkCreate"), NEW r \in call[c].todo, InsertInTx(c, r)
      PROVE  CallEffect
  <2>1. (~ Has(call[c].user, r)) \in BOOLEAN
    BY DEF Has, HasIn
  <2>2. "bulkCreate" \in Bulk
    BY DEF Bulk
  <2> QED BY <1>5, <2>1, <2>2, StatementEffect DEF InsertInTx
<1> QED BY <1>2, <1>3, <1>4, <1>5 DEF Create, BulkCreate

LEMMA DeleteEffect ==
  ASSUME Inv, Remember, NEW c \in Calls, Delete(c) \/ BulkDelete(c)
  PROVE  CallEffect
<1>1. ASSUME NEW rs, CommitDeletes(c, rs) PROVE CallEffect
  BY <1>1, ReturnEffect DEF CommitDeletes
<1>2. ASSUME At(c, "bulkDelete"), NEW r \in call[c].todo,
             StatementDone(c, r, Has(call[c].user, r))
      PROVE  CallEffect
  <2>1. Has(call[c].user, r) \in BOOLEAN
    BY DEF Has, HasIn
  <2>2. "bulkDelete" \in Bulk
    BY DEF Bulk
  <2> QED BY <1>2, <2>1, <2>2, StatementEffect
<1> QED BY <1>1, <1>2 DEF Delete, BulkDelete

LEMMA GetEffect ==
  ASSUME Inv, Remember, NEW c \in Calls, Get(c)
  PROVE  CallEffect
<1>1. call[c] # Idle /\ call[c].plan[1] = "get"
  BY CallFacts DEF Get, At, IsIdle
<1>2. ASSUME NEW err, Return(c, err) PROVE CallEffect
  BY <1>2, ReturnEffect
<1>3. ASSUME NEW r \in call[c].todo, call' = [call EXCEPT ![c].todo = @ \ {r}],
             reply' = NoReply
      PROVE  CallEffect
  BY <1>1, <1>3, ShrinkEffect
<1> QED BY <1>2, <1>3 DEF Get

LEMMA MatchingRoles ==
  ASSUME Inv, NEW u, NEW a, NEW p
  PROVE  matchPermissions(ListActivePermissionsByUserApp(u, a), p) \subseteq Roles
<1>1. \A x \in assigned : x.role \in Roles
  BY DEF Inv, TypeOK, RoleAssignment
<1>2. \A row \in ListActivePermissionsByUserApp(u, a) : row[1] \in Roles
  BY <1>1 DEF ListActivePermissionsByUserApp
<1> QED BY <1>2 DEF matchPermissions

LEMMA ListActivePermissionsEffect ==
  ASSUME Inv, NEW c \in Calls, ListActivePermissions(c)
  PROVE  CallEffect
<1> DEFINE rows == ListActivePermissionsByUserApp(call[c].user, call[c].app)
           ok   == {p \in call[c].perms : matchPermissions(rows, p) # {}}
           held == UNION {matchPermissions(rows, p) : p \in ok}
<1>1. Answer(c, "OK", ok, held)
  BY DEF ListActivePermissions
<1>2. \A p : matchPermissions(rows, p) \subseteq Roles
  BY MatchingRoles
<1> HIDE DEF rows
<1>3. ok \in SUBSET Permission /\ held \in SUBSET Roles
  BY <1>2, CallFacts
<1> QED BY <1>1, <1>3, AnswerEffect
LEMMA ResolveEffect ==
  ASSUME Inv, Remember, NEW c \in Calls, resolveAdminAppID(c)
  PROVE  CallEffect /\ appID' \in AdminApps \cup {NoId}
<1>1. ASSUME NEW err, Return(c, err), UNCHANGED appID
      PROVE  CallEffect /\ appID' \in AdminApps \cup {NoId}
  BY <1>1, ReturnEffect DEF Inv, TypeOK
<1>2. ASSUME NEW a \in AdminApps, appID' = a, reply' = NoReply,
             call' = [call EXCEPT ![c].app = a, ![c].plan = Tail(@)]
      PROVE  CallEffect /\ appID' \in AdminApps \cup {NoId}
  <2> DEFINE s == call[c]
             t == [s EXCEPT !.app = a, !.plan = Tail(@)]
  <2>1. /\ s \in CallState /\ s # Idle /\ CallOK(s, seen[c]) /\ s.plan[1] = "resolve"
        /\ s.plan \in PlanSet /\ s.plan # <<>>
    BY CallFacts DEF resolveAdminAppID, At, IsIdle
  <2>2. Tail(s.plan) \in PlanSet /\ a \in Apps
    BY <2>1, PlanTail, IdsAssumption
  <2>3. /\ t \in CallState /\ t.plan = Tail(s.plan) /\ t.user = s.user
        /\ t.roles = s.roles
    BY <2>1, <2>2 DEF CallState, PlanSet
  <2>4. call' = [call EXCEPT ![c] = t]
    BY <1>2
  <2> HIDE DEF t
  <2>5. CallOK(t, seen[c])
    BY <2>1, <2>3, ReadOnState
  <2> QED BY <1>2, <2>3, <2>4, <2>5, GotoEffect
<1> QED BY <1>1, <1>2 DEF resolveAdminAppID

LEMMA ListAssignmentsEffect ==
  ASSUME Inv, Remember, NEW c \in Calls, ListAssignments(c)
  PROVE  CallEffect
<1> DEFINE s  == call[c]
           rs == {x.role : x \in {y \in assigned : y.user = s.user /\ y.app = s.app}}
           t  == [s EXCEPT !.plan = Tail(@), !.todo = rs]
<1>1. CASE Return(c, "OK")
  BY <1>1, ReturnEffect
<1>2. CASE call' = [call EXCEPT ![c].plan = Tail(@), ![c].todo = rs] /\ reply' = NoReply
  <2>1. /\ s \in CallState /\ s # Idle /\ CallOK(s, seen[c]) /\ s.plan[1] = "list"
        /\ s.plan \in PlanSet /\ s.plan # <<>> /\ PlanOK(s)
    BY CallFacts DEF ListAssignments, At, IsIdle, CallOK
  <2>2. Tail(s.plan) \in PlanSet /\ Tail(s.plan) # <<>>
    BY <2>1, PlanGoesOn DEF Final
  <2>3. rs \subseteq Roles /\ \A r \in rs : HasIn(assigned', s.user, r)
    BY DEF Inv, TypeOK, RoleAssignment, HasIn, ListAssignments, NothingWritten, tables
  <2>4. /\ t \in CallState /\ t.plan = Tail(s.plan) /\ t.user = s.user
        /\ t.roles = s.roles /\ t.todo = rs
    BY <2>1, <2>2, <2>3 DEF CallState, PlanSet
  <2>5. call' = [call EXCEPT ![c] = t] /\ call'[c] = t
    BY <1>2 DEF Inv, TypeOK
  <2> HIDE DEF t, rs
  <2>6. t # Idle
    BY <2>2, <2>4, IdleState
  <2>7. seen[c].held \subseteq seen'[c].held /\ t.todo \subseteq seen'[c].held
    BY <2>3, <2>4, <2>5, <2>6, SeenNext
  <2>8. CallOK(t, seen'[c])
    BY <2>1, <2>4, <2>7, ReadOnState
  <2> QED BY <1>2, <2>4, <2>5, <2>8, ReplyTypes DEF Moves, CallEffect
<1> QED BY <1>1, <1>2 DEF ListAssignments

LEMMA HydrateEffect ==
  ASSUME Inv, Remember, NEW c \in Calls, HydrateRole(c)
  PROVE  CallEffect
<1> DEFINE s == call[c]
<1>1. /\ s \in CallState /\ s # Idle /\ s.plan[1] = "hydrate" /\ s.plan[1] \in In(s.plan)
      /\ PlanOK(s) /\ GrantOK(s, seen[c]) /\ ReadOK(s, seen[c])
      /\ s.roles \subseteq Roles /\ s.todo \subseteq Roles
  BY CallFacts, PlanTail DEF HydrateRole, At, IsIdle, CallOK
<1>2. PICK r \in s.todo, loaded \in {{}} \cup {{q} : q \in s.todo} :
        /\ loaded # {} => loaded = {r}
        /\ IF s.todo = {r} THEN Answer(c, "OK", {}, s.roles \cup loaded)
           ELSE /\ call' = [call EXCEPT ![c].todo = @ \ {r},
                                        ![c].roles = @ \cup loaded]
                /\ reply' = NoReply
  BY DEF HydrateRole
<1>3. loaded \subseteq s.todo
  BY <1>2
<1>4. CASE Answer(c, "OK", {}, s.roles \cup loaded)
  BY <1>1, <1>3, <1>4, AnswerEffect
<1>5. CASE /\ call' = [call EXCEPT ![c].todo = @ \ {r}, ![c].roles = @ \cup loaded]
           /\ reply' = NoReply
  <2> DEFINE t == [s EXCEPT !.todo = @ \ {r}, !.roles = @ \cup loaded]
  <2>1. /\ t \in CallState /\ t.plan = s.plan /\ t.user = s.user
        /\ t.todo = s.todo \ {r} /\ t.roles = s.roles \cup loaded
    BY <1>1, <1>3 DEF CallState
  <2>2. call' = [call EXCEPT ![c] = t]
    BY <1>5
  <2> HIDE DEF t
  <2>3. CallOK(t, seen[c])
    BY <1>1, <1>3, <2>1 DEF CallOK, PlanOK, GrantOK, Granting, ReadOK
  <2> QED BY <1>5, <2>1, <2>2, <2>3, GotoEffect
<1> QED BY <1>2, <1>4, <1>5

(* Every round trip of a call.                                              *)
LEMMA StepEffect ==
  ASSUME Inv, Remember, NEW c \in Calls, Step(c)
  PROVE  CallEffect
<1>1. ASSUME NEW err, Return(c, err) PROVE CallEffect
  BY <1>1, ReturnEffect
<1>2. CASE requireUserExists(c)
  BY <1>2, RequireEffect DEF requireUserExists
<1>3. CASE requireUserEligible(c)
  BY <1>3, RequireEffect DEF requireUserEligible
<1>4. CASE requireAppExists(c)
  BY <1>4, RequireEffect DEF requireAppExists
<1>5. CASE Create(c) \/ BulkCreate(c)
  BY <1>5, CreateEffect
<1>6. CASE Delete(c) \/ BulkDelete(c)
  BY <1>6, DeleteEffect
<1>7. CASE HasAssignment(c)
  BY <1>7, CallFacts, AnswerEffect DEF HasAssignment
<1>8. CASE CallFails(c)
  BY <1>1, <1>8 DEF CallFails
<1> QED BY <1>2, <1>3, <1>4, <1>5, <1>6, <1>7, <1>8, AnyRoleEffect, ActiveRoleEffect,
        GetEffect, ListActivePermissionsEffect, ResolveEffect, ListAssignmentsEffect,
        HydrateEffect DEF Step

LEMMA StartReadEffect ==
  ASSUME NEW c \in Calls, NEW p \in ReadPlans, NEW u \in Users,
         NEW a \in Apps \cup {NoId}, NEW rs \in SUBSET Roles,
         NEW perms \in SUBSET Permission, "hydrate" \in In(p) => rs = {},
         Start(c, p, u, a, rs, perms)
  PROVE  CallEffect
<1> DEFINE t == [plan |-> p, user |-> u, app |-> a, roles |-> rs,
                 todo |-> rs, pending |-> {}, perms |-> perms]
<1>1. t \in CallState /\ CallOK(t, seen'[c])
  BY StartedReads
<1>2. call' = [call EXCEPT ![c] = t] /\ reply' = NoReply
  BY DEF Start
<1> HIDE DEF t
<1> QED BY <1>1, <1>2, ReplyTypes DEF Moves, CallEffect

LEMMA StartGrantEffect ==
  ASSUME NEW c \in Calls, NEW p \in {GrantPlan, BulkGrantPlan}, NEW u \in Users,
         NEW a \in Apps \cup {NoId}, NEW rs \in SUBSET Roles,
         p = GrantPlan => a = NoId /\ \E r \in Roles : rs = {r},
         p = BulkGrantPlan => a \in Apps,
         Start(c, p, u, a, rs, {})
  PROVE  CallEffect
<1> DEFINE t == [plan |-> p, user |-> u, app |-> a, roles |-> rs,
                 todo |-> rs, pending |-> {}, perms |-> {}]
<1>1. t \in CallState /\ CallOK(t, seen'[c])
  BY StartedGrants
<1>2. call' = [call EXCEPT ![c] = t] /\ reply' = NoReply
  BY DEF Start
<1> HIDE DEF t
<1> QED BY <1>1, <1>2, ReplyTypes DEF Moves, CallEffect

(* The begin of every RPC.                                                  *)
LEMMA ServiceEffect ==
  ASSUME Inv, NEW c \in Calls, AccessService(c)
  PROVE  CallEffect
<1>1. PICK u \in Users :
        \/ \E r \in Roles : \/ GrantRoleToUser(c, u, r)
                            \/ RemoveRoleFromUser(c, u, r)
                            \/ HasRoleInApp(c, u, r)
        \/ \E a \in Apps, rids \in Lists(Roles) : \/ BulkGrantRoles(c, u, a, rids)
                                                  \/ BulkRemoveRoles(c, u, a, rids)
        \/ \E a \in Apps, p \in Permission : CheckPermission(c, u, a, p)
        \/ \E a \in Apps, ps \in Lists(Permission) : BatchCheckPermission(c, u, a, ps)
        \/ \E a \in Apps : ListUserRoles(c, u, a)
        \/ CanReadAudit(c, u)
  BY DEF AccessService
<1>2. ASSUME Invalid(c) PROVE CallEffect
  BY <1>2, ReturnEffect DEF Invalid
<1>3. GrantPlan # BulkGrantPlan
  <2>1. Len(GrantPlan) = 3 /\ Len(BulkGrantPlan) = 4
    BY DEF GrantPlan, BulkGrantPlan
  <2> QED BY <2>1
<1>4. ASSUME NEW r \in Roles, GrantRoleToUser(c, u, r) PROVE CallEffect
  <2>1. Start(c, GrantPlan, u, NoId, {r}, {})
    BY <1>4 DEF GrantRoleToUser, GrantPlan
  <2> QED BY <1>3, <2>1, StartGrantEffect
<1>5. ASSUME NEW p \in ReadPlans, NEW a \in Apps \cup {NoId}, NEW rs \in SUBSET Roles,
             NEW perms \in SUBSET Permission, "hydrate" \in In(p) => rs = {},
             Start(c, p, u, a, rs, perms)
      PROVE  CallEffect
  BY <1>5, StartReadEffect
<1>6. /\ "hydrate" \notin In(<<"userExists", "role", "delete">>)
      /\ "hydrate" \notin In(<<"app", "userExists", "role", "bulkDelete">>)
      /\ "hydrate" \notin In(<<"userExists", "role", "has">>)
  BY DEF In
<1>7. ASSUME NEW r \in Roles, RemoveRoleFromUser(c, u, r) PROVE CallEffect
  BY <1>5, <1>6, <1>7 DEF RemoveRoleFromUser, ReadPlans
<1>8. ASSUME NEW r \in Roles, HasRoleInApp(c, u, r) PROVE CallEffect
  BY <1>5, <1>6, <1>8 DEF HasRoleInApp, ReadPlans
<1>9. ASSUME NEW S, NEW list \in Lists(S) PROVE Entries(list) \subseteq S
  BY <1>9 DEF Lists, Entries
<1>10. ASSUME NEW a \in Apps, NEW rids \in Lists(Roles), BulkGrantRoles(c, u, a, rids)
       PROVE  CallEffect
  <2>1. CASE Start(c, BulkGrantPlan, u, a, Entries(rids), {})
    BY <1>3, <1>9, <2>1, StartGrantEffect
  <2> QED BY <1>2, <1>10, <2>1 DEF BulkGrantRoles, BulkGrantPlan
<1>11. ASSUME NEW a \in Apps, NEW rids \in Lists(Roles), BulkRemoveRoles(c, u, a, rids)
       PROVE  CallEffect
  BY <1>2, <1>5, <1>6, <1>9, <1>11 DEF BulkRemoveRoles, ReadPlans
<1>12. ASSUME NEW a \in Apps, NEW ps \in SUBSET Permission,
              Start(c, <<"userExists", "app", "permissions">>, u, a, {}, ps)
       PROVE  CallEffect
  BY <1>5, <1>12 DEF ReadPlans
<1>13. ASSUME NEW a \in Apps, NEW p \in Permission, CheckPermission(c, u, a, p)
       PROVE  CallEffect
  BY <1>2, <1>12, <1>13 DEF CheckPermission
<1>14. ASSUME NEW a \in Apps, NEW ps \in Lists(Permission),
              BatchCheckPermission(c, u, a, ps)
       PROVE  CallEffect
  BY <1>2, <1>9, <1>12, <1>14 DEF BatchCheckPermission
<1>15. ASSUME NEW a \in Apps, ListUserRoles(c, u, a) PROVE CallEffect
  BY <1>5, <1>15 DEF ListUserRoles, ReadPlans
<1>16. CASE CanReadAudit(c, u)
  <2>1. appID # NoId => appID \in Apps
    BY IdsAssumption DEF Inv, TypeOK
  <2>2. CASE Return(c, "OK")
    BY <2>2, ReturnEffect
  <2>3. CASE Start(c, <<"resolve", "userExists", "app", "permissions">>,
                   u, NoId, {}, {AuditRead})
    BY <1>5, <2>3, AuditReadAssumption DEF ReadPlans
  <2>4. CASE /\ appID # NoId
             /\ Start(c, <<"userExists", "app", "permissions">>, u, appID, {}, {AuditRead})
    BY <1>12, <2>1, <2>4, AuditReadAssumption
  <2> QED BY <1>16, <2>2, <2>3, <2>4 DEF CanReadAudit
<1> QED BY <1>1, <1>4, <1>7, <1>8, <1>10, <1>11, <1>13, <1>14, <1>15, <1>16
-----------------------------------------------------------------------------
(* What the steps do to the tables.                                         *)

TablesOK ==
  /\ user \in [Users -> UserStatus \cup {"unborn", "gone"}]
  /\ role \in [Roles -> {"ACTIVE", "DISABLED", "unborn", "gone"}]
  /\ app \in [Apps -> {"unborn", "live", "gone"}]
  /\ assigned \subseteq RoleAssignment
  /\ appID \in AdminApps \cup {NoId}
  /\ AssignmentsBelong
  /\ RolesInApps

LEMMA TablesStay ==
  ASSUME Inv, UNCHANGED tables, appID' \in AdminApps \cup {NoId}
  PROVE  TablesOK'
BY DEF Inv, TypeOK, tables, TablesOK, AssignmentsBelong, RolesInApps, References

LEMMA NothingWrittenTables == ASSUME Inv, NothingWritten PROVE TablesOK'
BY TablesStay DEF NothingWritten, Inv, TypeOK

(* New rows under the foreign keys, with the app of their role.             *)
LEMMA AssignedTables ==
  ASSUME Inv, TablesButAssigned, NEW u \in Users, NEW rs \in SUBSET Roles, NEW a,
         assigned' = CreateRoleAssignments(u, rs, a),
         Exists(user[u]), \A r \in rs : Exists(role[r]) /\ AppOf[r] = a
  PROVE  TablesOK'
<1>1. \A r \in rs : AppOf[r] \in Apps /\ app[AppOf[r]] = "live"
  BY IdsAssumption DEF Inv, RolesInApps
<1>2. ASSUME NEW x \in assigned' \ assigned
      PROVE  /\ x \in RoleAssignment /\ References(x)
             /\ x.app = AppOf[x.role] /\ app[x.app] = "live"
  <2>1. PICK r \in rs : x = NewRoleAssignment(u, r, a)
    BY <1>2 DEF CreateRoleAssignments
  <2>2. x.user = u /\ x.role = r /\ x.app = a /\ x \in RoleAssignment
    BY <1>1, <2>1 DEF NewRoleAssignment, RoleAssignment
  <2> QED BY <1>1, <2>2 DEF References
<1>3. ASSUME NEW x \in assigned
      PROVE  /\ x \in RoleAssignment /\ References(x)
             /\ x.app = AppOf[x.role] /\ app[x.app] = "live"
  BY DEF Inv, TypeOK, AssignmentsBelong
<1>4. UNCHANGED <<user, role, app, appID>>
  BY DEF TablesButAssigned
<1>5. assigned' \subseteq RoleAssignment /\ AssignmentsBelong'
  BY <1>2, <1>3, <1>4 DEF AssignmentsBelong, References
<1> QED BY <1>4, <1>5 DEF TablesOK, Inv, TypeOK, RolesInApps

LEMMA RemovedTables ==
  ASSUME Inv, TablesButAssigned, assigned' \subseteq assigned
  PROVE  TablesOK'
BY DEF Inv, TypeOK, TablesButAssigned, TablesOK, AssignmentsBelong, RolesInApps, References

(* A call that grants has checked its roles, and its app is theirs.         *)
LEMMA GrantFacts ==
  ASSUME Inv, NEW c \in Calls, NEW step \in {"create", "bulkCreate"}, At(c, step)
  PROVE  /\ call[c].user \in Users /\ call[c].user \in seen[c].active
         /\ \A r \in call[c].roles : /\ r \in Roles /\ r \in seen[c].active
                                    /\ AppOf[r] = AssignmentApp(c)
<1> DEFINE s == call[c]
<1>1. s.user \in Users /\ s.roles \subseteq Roles
  BY CallFacts DEF At, IsIdle
<1>2. In(s.plan) = {step} /\ GrantOK(s, seen[c])
  BY LastStep DEF Final
<1>3. Granting(s)
  BY <1>2 DEF Granting
<1>4. s.user \in seen[c].active /\ \A r \in s.roles : Passed(s, r, seen[c])
  BY <1>1, <1>2, <1>3 DEF GrantOK
<1>5. ASSUME NEW r \in s.roles PROVE AppOf[r] = AssignmentApp(c)
  <2>1. CASE step = "create"
    <3>1. s.app = NoId /\ s.roles = {r} /\ r \in Roles
      BY <1>1, <1>2, <1>3, <1>5, <2>1 DEF GrantOK
    <3>2. \A q \in Roles : s.roles = {q} <=> q = r
      BY <3>1
    <3>3. (CHOOSE q \in Roles : s.roles = {q}) = r
      BY <3>1, <3>2
    <3> QED BY <3>1, <3>3 DEF AssignmentApp
  <2>2. CASE step = "bulkCreate"
    <3>1. s.app \in Apps /\ s.app # NoId
      BY <1>1, <1>2, <1>3, <2>2, IdsAssumption DEF GrantOK
    <3> QED BY <1>4, <1>5, <3>1 DEF Passed, AssignmentApp
  <2> QED BY <2>1, <2>2
<1> QED BY <1>1, <1>4, <1>5 DEF Passed

LEMMA CommitTables ==
  ASSUME Inv, NEW c \in Calls, NEW step \in {"create", "bulkCreate"}, At(c, step),
         NEW rs \in SUBSET call[c].roles, CommitInserts(c, rs),
         \A r \in rs : Exists(user[call[c].user]) /\ Exists(role[r])
  PROVE  TablesOK'
<1> DEFINE s == call[c]
<1>1. /\ s.user \in Users /\ s.roles \in SUBSET Roles
      /\ \A r \in s.roles : AppOf[r] = AssignmentApp(c)
  BY GrantFacts
<1>2. /\ TablesButAssigned
      /\ assigned' = CreateRoleAssignments(s.user, rs, AssignmentApp(c))
  BY DEF CommitInserts
<1>3. CASE rs = {}
  <2>1. assigned' = assigned
    BY <1>2, <1>3 DEF CreateRoleAssignments
  <2> QED BY <1>2, <2>1, RemovedTables
<1>4. CASE rs # {}
  BY <1>1, <1>2, <1>4, AssignedTables
<1> QED BY <1>3, <1>4

LEMMA CreateTables ==
  ASSUME Inv, NEW c \in Calls, Create(c) \/ BulkCreate(c)
  PROVE  TablesOK'
<1> DEFINE s == call[c]
<1>1. CASE NothingWritten
  BY <1>1, NothingWrittenTables
<1>2. ASSUME At(c, "create"), NEW r \in s.roles, ForeignKeysHold(c, r),
             CommitInserts(c, {q \in {r} : ~ Has(s.user, q)})
      PROVE  TablesOK'
  <2>1. Exists(user[s.user]) /\ Exists(role[r])
    BY <1>2 DEF ForeignKeysHold, References, NewRoleAssignment
  <2> QED BY <1>2, <2>1, CommitTables
<1>3. CASE At(c, "bulkCreate") /\ s.todo = {} /\ CommitInserts(c, s.pending)
  <2>1. \A r \in s.pending : Exists(user[s.user]) /\ Exists(role[r])
    BY <1>3, BulkDups DEF Inv, TxsOK, TxOK, Dealt
  <2> QED BY <1>3, <2>1, BulkDups, CommitTables
<1> QED BY <1>1, <1>2, <1>3 DEF Create, BulkCreate, ForeignKeyBroken, InsertInTx

LEMMA StepTables ==
  ASSUME Inv, Remember, NEW c \in Calls, Step(c)
  PROVE  TablesOK'
<1>1. CASE NothingWritten
  BY <1>1, NothingWrittenTables
<1>2. CASE Create(c) \/ BulkCreate(c)
  BY <1>2, CreateTables
<1>3. CASE Delete(c) \/ BulkDelete(c)
  BY <1>1, <1>3, RemovedTables DEF Delete, BulkDelete, CommitDeletes,
     DeleteRoleAssignments
<1>4. CASE resolveAdminAppID(c)
  BY <1>4, ResolveEffect, TablesStay DEF resolveAdminAppID
<1> QED BY <1>1, <1>2, <1>3, <1>4 DEF Step, requireUserExists, requireUserEligible,
        requireAppExists, Require, loadAnyRole, loadActiveRoleInApp, RequireRoles, Get,
        ListActivePermissions, HasAssignment, ListAssignments, HydrateRole, CallFails

LEMMA ServiceTables ==
  ASSUME Inv, NEW c \in Calls, AccessService(c)
  PROVE  TablesOK'
<1>1. NothingWritten
  BY DEF AccessService, GrantRoleToUser, RemoveRoleFromUser, HasRoleInApp, BulkGrantRoles,
     BulkRemoveRoles, CheckPermission, BatchCheckPermission, ListUserRoles, CanReadAudit,
     Start, Invalid
<1> QED BY <1>1, NothingWrittenTables

(* Rows that go take their assignments with them.                           *)
LEMMA DeletedTables ==
  ASSUME Inv, NEW us \in SUBSET Users, NEW rs \in SUBSET Roles, NEW as \in SUBSET Apps,
         user' = [u \in Users |-> IF u \in us THEN "gone" ELSE user[u]],
         role' = [r \in Roles |-> IF r \in rs THEN "gone" ELSE role[r]],
         app' = [a \in Apps |-> IF a \in as THEN "gone" ELSE app[a]],
         assigned' = {x \in assigned : x.user \notin us /\ x.role \notin rs},
         UNCHANGED appID, \A r \in Roles : AppOf[r] \in as => r \in rs
  PROVE  TablesOK'
<1>1. /\ user' \in [Users -> UserStatus \cup {"unborn", "gone"}]
      /\ role' \in [Roles -> {"ACTIVE", "DISABLED", "unborn", "gone"}]
      /\ app' \in [Apps -> {"unborn", "live", "gone"}]
      /\ assigned' \subseteq RoleAssignment /\ appID' \in AdminApps \cup {NoId}
  BY DEF Inv, TypeOK
<1>2. RolesInApps'
  BY IdsAssumption DEF Inv, RolesInApps, Exists
<1>3. AssignmentsBelong'
  <2> SUFFICES ASSUME NEW x \in assigned'
               PROVE  References(x)' /\ x.app = AppOf[x.role] /\ app'[x.app] = "live"
    BY DEF AssignmentsBelong
  <2>1. /\ x \in assigned /\ x \in RoleAssignment /\ x.user \notin us /\ x.role \notin rs
    BY DEF Inv, TypeOK
  <2>2. References(x) /\ x.app = AppOf[x.role] /\ app[x.app] = "live"
    BY <2>1 DEF Inv, AssignmentsBelong
  <2>3. x.user \in Users /\ x.role \in Roles /\ x.app \in Apps
    BY <2>1 DEF RoleAssignment
  <2>4. x.app \notin as
    BY <2>1, <2>2, <2>3
  <2> QED BY <2>1, <2>2, <2>3, <2>4 DEF References
<1> QED BY <1>1, <1>2, <1>3 DEF TablesOK

(* Rows that are born or change their status.                               *)
LEMMA GrownTables ==
  ASSUME Inv,
         user' \in [Users -> UserStatus \cup {"unborn", "gone"}],
         role' \in [Roles -> {"ACTIVE", "DISABLED", "unborn", "gone"}],
         app' \in [Apps -> {"unborn", "live", "gone"}],
         UNCHANGED appID,
         \A u \in Users : Exists(user[u]) => Exists(user'[u]),
         \A r \in Roles : Exists(role[r]) => Exists(role'[r]),
         \A a \in Apps : app[a] = "live" => app'[a] = "live",
         \A r \in Roles : Exists(role'[r]) => Exists(role[r]) \/ app'[AppOf[r]] = "live",
         \A x \in assigned' : x \in assigned \/
            /\ x \in RoleAssignment /\ Exists(user'[x.user]) /\ Exists(role'[x.role])
            /\ x.app = AppOf[x.role]
  PROVE  TablesOK'
<1>1. RolesInApps'
  BY IdsAssumption DEF Inv, RolesInApps
<1>2. ASSUME NEW x \in assigned'
      PROVE  /\ x \in RoleAssignment /\ References(x)'
             /\ x.app = AppOf[x.role] /\ app'[x.app] = "live"
  <2>1. CASE x \in assigned
    <3>1. /\ x \in RoleAssignment /\ References(x) /\ x.app = AppOf[x.role]
          /\ app[x.app] = "live"
      BY <2>1 DEF Inv, TypeOK, AssignmentsBelong
    <3>2. x.user \in Users /\ x.role \in Roles /\ x.app \in Apps
      BY <3>1 DEF RoleAssignment
    <3> QED BY <3>1, <3>2 DEF References
  <2>2. CASE x \notin assigned
    <3>1. /\ x \in RoleAssignment /\ Exists(user'[x.user]) /\ Exists(role'[x.role])
          /\ x.app = AppOf[x.role]
      BY <1>2, <2>2
    <3>2. x.role \in Roles
      BY <3>1 DEF RoleAssignment
    <3> QED BY <1>1, <3>1, <3>2 DEF References, RolesInApps
  <2> QED BY <2>1, <2>2
<1>3. assigned' \subseteq RoleAssignment /\ AssignmentsBelong'
  BY <1>2 DEF AssignmentsBelong
<1> QED BY <1>1, <1>3 DEF TablesOK, Inv, TypeOK

LEMMA CreatedRows ==
  ASSUME NEW u \in Users, NEW rs \in SUBSET Roles, NEW a \in Apps,
         \A r \in rs : AppOf[r] = a
  PROVE  \A x \in CreateRoleAssignments(u, rs, a) : x \in assigned \/
            /\ x \in RoleAssignment /\ x.user = u /\ x.role \in rs
            /\ x.app = AppOf[x.role]
BY DEF CreateRoleAssignments, NewRoleAssignment, RoleAssignment

LEMMA SeedTables ==
  ASSUME Inv, NEW a \in AdminApps, NEW u \in Users, seedAdmin(a, u)
  PROVE  TablesOK'
<1>1. /\ app \in [Apps -> {"unborn", "live", "gone"}]
      /\ user \in [Users -> UserStatus \cup {"unborn", "gone"}]
      /\ role \in [Roles -> {"ACTIVE", "DISABLED", "unborn", "gone"}]
      /\ a \in Apps
  BY IdsAssumption DEF Inv, TypeOK
<1>2. /\ app' = [app EXCEPT ![a] = "live"] /\ UNCHANGED appID
      /\ role' = Born(role, RolesOf(a)) /\ user' = Born(user, {u})
      /\ assigned' = CreateRoleAssignments(u, RolesOf(a), a)
      /\ user[u] # "gone" /\ \A r \in RolesOf(a) : role[r] # "gone"
  BY DEF seedAdmin, SeedRoles, SeedUser, SeedAssignments
<1>3. /\ RolesOf(a) \in SUBSET Roles /\ \A r \in RolesOf(a) : AppOf[r] = a
  BY DEF RolesOf
<1>4. /\ role' \in [Roles -> {"ACTIVE", "DISABLED", "unborn", "gone"}]
      /\ \A r \in Roles : Exists(role[r]) => Exists(role'[r])
      /\ \A r \in RolesOf(a) : Exists(role'[r])
      /\ \A r \in Roles : Exists(role'[r]) => Exists(role[r]) \/ r \in RolesOf(a)
  BY <1>1, <1>2, <1>3 DEF Born, Exists
<1>5. /\ user' \in [Users -> UserStatus \cup {"unborn", "gone"}]
      /\ \A v \in Users : Exists(user[v]) => Exists(user'[v])
      /\ Exists(user'[u])
  BY <1>1, <1>2 DEF Born, Exists, UserStatus
<1>6. /\ app' \in [Apps -> {"unborn", "live", "gone"}] /\ app'[a] = "live"
      /\ \A b \in Apps : app[b] = "live" => app'[b] = "live"
  BY <1>1, <1>2
<1>7. \A x \in assigned' : x \in assigned \/
         /\ x \in RoleAssignment /\ x.user = u /\ x.role \in RolesOf(a)
         /\ x.app = AppOf[x.role]
  BY <1>1, <1>2, <1>3, CreatedRows
<1> QED BY <1>2, <1>3, <1>4, <1>5, <1>6, <1>7, GrownTables

(* The writes of the other services.                                        *)
LEMMA ElsewhereTables ==
  ASSUME Inv, Elsewhere
  PROVE  TablesOK'
<1>1. /\ app \in [Apps -> {"unborn", "live", "gone"}]
      /\ user \in [Users -> UserStatus \cup {"unborn", "gone"}]
      /\ role \in [Roles -> {"ACTIVE", "DISABLED", "unborn", "gone"}]
      /\ assigned \subseteq RoleAssignment
  BY DEF Inv, TypeOK
<1>2. ASSUME NEW u \in Users, NEW status \in UserStatus,
             SetUserStatus(u, status) \/ CreateUser(u)
      PROVE  TablesOK'
  <2>1. \E st \in UserStatus : user' = [user EXCEPT ![u] = st]
    BY <1>2 DEF SetUserStatus, CreateUser, UserStatus
  <2>2. UNCHANGED <<role, app, assigned, appID>>
    BY <1>2 DEF SetUserStatus, CreateUser
  <2> QED BY <1>1, <2>1, <2>2, GrownTables DEF UserStatus, Exists
<1>3. ASSUME NEW r \in Roles, NEW status \in {"ACTIVE", "DISABLED"},
             SetRoleStatus(r, status) \/ CreateRole(r)
      PROVE  TablesOK'
  <2>1. \E st \in {"ACTIVE", "DISABLED"} : role' = [role EXCEPT ![r] = st]
    BY <1>3 DEF SetRoleStatus, CreateRole
  <2>2. UNCHANGED <<user, app, assigned, appID>>
    BY <1>3 DEF SetRoleStatus, CreateRole
  <2>3. Exists(role[r]) \/ app[AppOf[r]] = "live"
    BY <1>3 DEF SetRoleStatus, CreateRole
  <2> QED BY <1>1, <2>1, <2>2, <2>3, GrownTables DEF Exists
<1>4. ASSUME NEW a \in Apps, CreateApp(a) PROVE TablesOK'
  BY <1>1, <1>4, GrownTables DEF CreateApp
<1>5. ASSUME NEW u \in Users, PermanentlyDeleteUser(u) PROVE TablesOK'
  <2> DEFINE us == {u}  rs == {}  as == {}
  <2>1. /\ us \in SUBSET Users /\ rs \in SUBSET Roles /\ as \in SUBSET Apps
        /\ \A q \in Roles : AppOf[q] \in as => q \in rs
    BY DEF RolesOf
  <2>2. /\ user' = [v \in Users |-> IF v \in us THEN "gone" ELSE user[v]]
        /\ role' = [q \in Roles |-> IF q \in rs THEN "gone" ELSE role[q]]
        /\ app' = [b \in Apps |-> IF b \in as THEN "gone" ELSE app[b]]
        /\ assigned' = {x \in assigned : x.user \notin us /\ x.role \notin rs}
        /\ UNCHANGED appID
    BY <1>1, <1>5 DEF PermanentlyDeleteUser
  <2> HIDE DEF us, rs, as
  <2> QED BY <2>1, <2>2, DeletedTables
<1>6. ASSUME NEW r \in Roles, PermanentlyDeleteRole(r) PROVE TablesOK'
  <2> DEFINE us == {}  rs == {r}  as == {}
  <2>1. /\ us \in SUBSET Users /\ rs \in SUBSET Roles /\ as \in SUBSET Apps
        /\ \A q \in Roles : AppOf[q] \in as => q \in rs
    BY DEF RolesOf
  <2>2. /\ user' = [v \in Users |-> IF v \in us THEN "gone" ELSE user[v]]
        /\ role' = [q \in Roles |-> IF q \in rs THEN "gone" ELSE role[q]]
        /\ app' = [b \in Apps |-> IF b \in as THEN "gone" ELSE app[b]]
        /\ assigned' = {x \in assigned : x.user \notin us /\ x.role \notin rs}
        /\ UNCHANGED appID
    BY <1>1, <1>6 DEF PermanentlyDeleteRole, DeleteRoles
  <2> HIDE DEF us, rs, as
  <2> QED BY <2>1, <2>2, DeletedTables
<1>7. ASSUME NEW a \in Apps, PermanentlyDeleteApp(a) PROVE TablesOK'
  <2> DEFINE us == {}  rs == RolesOf(a)  as == {a}
  <2>1. /\ us \in SUBSET Users /\ rs \in SUBSET Roles /\ as \in SUBSET Apps
        /\ \A q \in Roles : AppOf[q] \in as => q \in rs
    BY DEF RolesOf
  <2>2. /\ user' = [v \in Users |-> IF v \in us THEN "gone" ELSE user[v]]
        /\ role' = [q \in Roles |-> IF q \in rs THEN "gone" ELSE role[q]]
        /\ app' = [b \in Apps |-> IF b \in as THEN "gone" ELSE app[b]]
        /\ assigned' = {x \in assigned : x.user \notin us /\ x.role \notin rs}
        /\ UNCHANGED appID
    BY <1>1, <1>7 DEF PermanentlyDeleteApp, DeleteRoles
  <2> HIDE DEF us, rs, as
  <2> QED BY <2>1, <2>2, DeletedTables
<1>8. ASSUME NEW u \in Users, NEW r \in Roles, AssignElsewhere(u, r) PROVE TablesOK'
  <2>1. Exists(user[u]) /\ Exists(role[r])
    BY <1>8 DEF AssignElsewhere, References, NewRoleAssignment
  <2>2. TablesButAssigned /\ assigned' = CreateRoleAssignments(u, {r}, AppOf[r])
    BY <1>8 DEF AssignElsewhere, TablesButAssigned
  <2> QED BY <2>1, <2>2, AssignedTables
<1>9. ASSUME NEW u \in Users, NEW r \in Roles, RemoveElsewhere(u, r) PROVE TablesOK'
  BY <1>9, RemovedTables DEF RemoveElsewhere, DeleteRoleAssignments, TablesButAssigned
<1>10. CASE Restart
  BY <1>10, TablesStay DEF Restart
<1>11. "ACTIVE" \in UserStatus
  BY DEF UserStatus
<1> QED BY <1>2, <1>3, <1>4, <1>5, <1>6, <1>7, <1>8, <1>9, <1>10, <1>11, SeedTables
        DEF Elsewhere

-----------------------------------------------------------------------------
(* A step in which a call moves is a step of that call, the restart aside.  *)

OthersStay(c) == \A d \in Calls \ {c} : call'[d] = call[d]

LEMMA MovesOne ==
  ASSUME Inv, NEW c \in Calls, Step(c) \/ AccessService(c)
  PROVE  OthersStay(c)
<1>1. call \in [Calls -> CallState]
  BY DEF Inv, TypeOK
<1>2. \A t : call' = [call EXCEPT ![c] = t] => OthersStay(c)
  BY <1>1 DEF OthersStay
<1>3. \A err : Return(c, err) => OthersStay(c)
  BY <1>2 DEF Return, Answer
<1>4. CASE AccessService(c)
  BY <1>2, <1>3, <1>4 DEF AccessService, GrantRoleToUser, RemoveRoleFromUser,
     HasRoleInApp, BulkGrantRoles, BulkRemoveRoles, CheckPermission,
     BatchCheckPermission, ListUserRoles, CanReadAudit, Start, Invalid
<1>5. CASE Step(c)
  <2>1. Advance(c) => OthersStay(c)
    BY <1>2 DEF Advance
  <2>2. \A r : call' = [call EXCEPT ![c].todo = @ \ {r}] => OthersStay(c)
    BY <1>2
  <2>3. CASE requireUserExists(c) \/ requireUserEligible(c) \/ requireAppExists(c)
    BY <1>3, <2>1, <2>3 DEF requireUserExists, requireUserEligible, requireAppExists,
       Require
  <2>4. CASE loadAnyRole(c) \/ loadActiveRoleInApp(c)
    BY <1>3, <2>1, <2>2, <2>4 DEF loadAnyRole, loadActiveRoleInApp, RequireRoles
  <2>5. CASE Create(c) \/ BulkCreate(c)
    BY <1>2, <1>3, <2>5 DEF Create, BulkCreate, CommitInserts, InsertInTx,
       StatementDone, ForeignKeyBroken
  <2>6. CASE Get(c)
    BY <1>3, <2>2, <2>6 DEF Get
  <2>7. CASE Delete(c) \/ BulkDelete(c) \/ CallFails(c)
    BY <1>2, <1>3, <2>7 DEF Delete, BulkDelete, CommitDeletes, StatementDone, CallFails
  <2>8. CASE ListActivePermissions(c) \/ HasAssignment(c)
    BY <1>2, <2>8 DEF ListActivePermissions, HasAssignment, Answer
  <2>9. CASE resolveAdminAppID(c) \/ ListAssignments(c)
    BY <1>2, <1>3, <2>9 DEF resolveAdminAppID, ListAssignments
  <2>10. CASE HydrateRole(c)
    BY <1>2, <2>10 DEF HydrateRole, Answer
  <2> QED BY <1>5, <2>3, <2>4, <2>5, <2>6, <2>7, <2>8, <2>9, <2>10 DEF Step
<1> QED BY <1>4, <1>5

LEMMA WhoMoves ==
  ASSUME Inv, Next, NEW c \in Calls, call'[c] # call[c]
  PROVE  \/ Step(c)
         \/ AccessService(c) /\ call[c] = Idle /\ NothingWritten
         \/ reply' = NoReply /\ UNCHANGED tables
<1>1. CASE Elsewhere
  <2>1. UNCHANGED call \/ Restart
    BY <1>1 DEF Elsewhere, CreateUser, PermanentlyDeleteUser, SetUserStatus, seedAdmin,
       AssignElsewhere, RemoveElsewhere, CreateRole, PermanentlyDeleteRole,
       SetRoleStatus, CreateApp, PermanentlyDeleteApp, NoCall
  <2> QED BY <2>1 DEF Restart
<1>2. ASSUME NEW d \in Calls, Step(d) PROVE Step(c)
  BY <1>2, MovesOne DEF OthersStay
<1>3. ASSUME NEW d \in Calls, AccessService(d)
      PROVE  AccessService(c) /\ call[c] = Idle /\ NothingWritten
  <2>1. c = d
    BY <1>3, MovesOne DEF OthersStay
  <2>2. \A plan, u, a, rs, perms :
          Start(d, plan, u, a, rs, perms) => IsIdle(d) /\ NothingWritten
    BY DEF Start
  <2>3. Invalid(d) => IsIdle(d) /\ NothingWritten
    BY DEF Invalid
  <2>4. IsIdle(d) /\ NothingWritten
    BY <1>3, <2>2, <2>3 DEF AccessService, GrantRoleToUser, RemoveRoleFromUser,
       HasRoleInApp, BulkGrantRoles, BulkRemoveRoles, CheckPermission,
       BatchCheckPermission, ListUserRoles, CanReadAudit
  <2> QED BY <1>3, <2>1, <2>4 DEF IsIdle
<1> QED BY <1>1, <1>2, <1>3 DEF Next

(* A statement in an open transaction of c.                                 *)
Statement(c, r) ==
  /\ MayLock(c, r) /\ NothingWritten
  /\ \/ /\ At(c, "bulkCreate") /\ ForeignKeysHold(c, r)
        /\ StatementDone(c, r, ~ Has(call[c].user, r))
     \/ At(c, "bulkDelete") /\ StatementDone(c, r, Has(call[c].user, r))

(* A call s that has done nothing in a transaction.                         *)
NoTx(s) == s = Idle \/ Head(s.plan) \notin Bulk \/ (s.todo = s.roles /\ s.pending = {})

LEMMA TxMoves ==
  ASSUME Inv, NEW c \in Calls, Step(c) \/ AccessService(c)
  PROVE  NoTx(call'[c]) \/ \E r \in call[c].todo : Statement(c, r)
<1> DEFINE s == call[c]
<1>1. call \in [Calls -> CallState] /\ s \in CallState
  BY DEF Inv, TypeOK
<1>2. \A t : call' = [call EXCEPT ![c] = t] => call'[c] = t
  BY <1>1
<1>3. \A err, allowed, roles : Answer(c, err, allowed, roles) => NoTx(call'[c])
  BY <1>2 DEF Answer, NoTx
<1>4. \A err : Return(c, err) => NoTx(call'[c])
  BY <1>3 DEF Return
<1>5. ASSUME NEW plan, NEW u, NEW a, NEW rs, NEW perms, Start(c, plan, u, a, rs, perms)
      PROVE  NoTx(call'[c])
  <2>1. call'[c] = [plan |-> plan, user |-> u, app |-> a, roles |-> rs, todo |-> rs,
                    pending |-> {}, perms |-> perms]
    BY <1>2, <1>5 DEF Start
  <2>2. call'[c].todo = call'[c].roles /\ call'[c].pending = {}
    BY <2>1
  <2> QED BY <2>2 DEF NoTx
<1>6. CASE AccessService(c)
  BY <1>4, <1>5, <1>6 DEF AccessService, GrantRoleToUser, RemoveRoleFromUser,
     HasRoleInApp, BulkGrantRoles, BulkRemoveRoles, CheckPermission,
     BatchCheckPermission, ListUserRoles, CanReadAudit, Invalid
<1>7. CASE Step(c)
  <2>1. Advance(c) => NoTx(call'[c])
    <3> SUFFICES ASSUME Advance(c) PROVE NoTx(call'[c])
      OBVIOUS
    <3>1. call'[c] = [s EXCEPT !.plan = Tail(@), !.todo = s.roles, !.pending = {}]
      BY <1>1 DEF Advance
    <3>2. call'[c].todo = s.roles /\ call'[c].roles = s.roles /\ call'[c].pending = {}
      BY <1>1, <3>1 DEF CallState
    <3> QED BY <3>2 DEF NoTx
  <2>2. ASSUME NEW r, call' = [call EXCEPT ![c].todo = @ \ {r}],
               NEW step \in {"role", "activeRole", "get"}, At(c, step)
        PROVE  NoTx(call'[c])
    <3>1. call'[c] = [s EXCEPT !.todo = @ \ {r}]
      BY <1>1, <2>2
    <3>2. call'[c].plan = s.plan
      BY <1>1, <3>1 DEF CallState
    <3> QED BY <2>2, <3>2 DEF At, NoTx, Bulk
  <2>3. CASE requireUserExists(c) \/ requireUserEligible(c) \/ requireAppExists(c)
    BY <1>4, <2>1, <2>3 DEF requireUserExists, requireUserEligible, requireAppExists,
       Require
  <2>4. CASE loadAnyRole(c) \/ loadActiveRoleInApp(c)
    BY <1>4, <2>1, <2>2, <2>4 DEF loadAnyRole, loadActiveRoleInApp, RequireRoles
  <2>5. ASSUME NEW rs, CommitInserts(c, rs) PROVE NoTx(call'[c])
    <3>1. CASE call' = [call EXCEPT ![c].plan = <<"get">>, ![c].todo = s.roles \ rs,
                                    ![c].pending = {}]
      <4>1. call'[c] = [s EXCEPT !.plan = <<"get">>, !.todo = s.roles \ rs, !.pending = {}]
        BY <1>1, <3>1
      <4>2. call'[c].plan = <<"get">>
        BY <1>1, <4>1 DEF CallState
      <4> QED BY <4>2 DEF NoTx, Bulk
    <3> QED BY <1>4, <2>5, <3>1 DEF CommitInserts
  <2>6. CASE Create(c) \/ BulkCreate(c)
    BY <1>4, <2>5, <2>6 DEF Create, BulkCreate, InsertInTx, ForeignKeyBroken, Statement
  <2>7. CASE Get(c)
    BY <1>4, <2>2, <2>7 DEF Get
  <2>8. CASE Delete(c) \/ BulkDelete(c) \/ CallFails(c)
    BY <1>4, <2>8 DEF Delete, BulkDelete, CommitDeletes, CallFails, Statement
  <2>9. CASE ListActivePermissions(c) \/ HasAssignment(c)
    BY <1>3, <2>9 DEF ListActivePermissions, HasAssignment
  <2>10. ASSUME NEW step \in {"resolve", "list"}, At(c, step),
                call'[c].plan = Tail(s.plan)
         PROVE  NoTx(call'[c])
    <3>1. s \in CallState /\ PlanOK(s) /\ s.plan[1] = step /\ step \notin Final
      BY <2>10, CallFacts DEF At, IsIdle, CallOK, Final
    <3>2. /\ Tail(s.plan) \in PlanSet /\ Tail(s.plan) # <<>>
          /\ Tail(s.plan)[1] \in Bulk => s.plan[1] \in {"role", "activeRole"}
      BY <3>1, PlanGoesOn
    <3>3. Head(Tail(s.plan)) = Tail(s.plan)[1]
      BY <3>2, PlanTail
    <3> QED BY <2>10, <3>1, <3>2, <3>3 DEF NoTx
  <2>11. CASE resolveAdminAppID(c)
    <3>1. ASSUME NEW a, call' = [call EXCEPT ![c].app = a, ![c].plan = Tail(@)]
          PROVE  call'[c].plan = Tail(s.plan)
      <4>1. call'[c] = [s EXCEPT !.app = a, !.plan = Tail(@)]
        BY <1>1, <3>1
      <4> QED BY <1>1, <4>1 DEF CallState
    <3> QED BY <1>4, <2>10, <2>11, <3>1 DEF resolveAdminAppID
  <2>12. CASE ListAssignments(c)
    <3>1. ASSUME NEW rs, call' = [call EXCEPT ![c].plan = Tail(@), ![c].todo = rs]
          PROVE  call'[c].plan = Tail(s.plan)
      <4>1. call'[c] = [s EXCEPT !.plan = Tail(@), !.todo = rs]
        BY <1>1, <3>1
      <4> QED BY <1>1, <4>1 DEF CallState
    <3> QED BY <1>4, <2>10, <2>12, <3>1 DEF ListAssignments
  <2>13. CASE HydrateRole(c)
    <3>1. ASSUME NEW r, NEW loaded,
                 call' = [call EXCEPT ![c].todo = @ \ {r}, ![c].roles = @ \cup loaded]
          PROVE  NoTx(call'[c])
      <4>1. call'[c] = [s EXCEPT !.todo = @ \ {r}, !.roles = @ \cup loaded]
        BY <1>1, <3>1
      <4>2. call'[c].plan = s.plan
        BY <1>1, <4>1 DEF CallState
      <4> QED BY <2>13, <4>2 DEF HydrateRole, At, NoTx, Bulk
    <3> QED BY <1>3, <2>13, <3>1 DEF HydrateRole
  <2> QED BY <1>7, <2>3, <2>4, <2>6, <2>7, <2>8, <2>9, <2>11, <2>12, <2>13 DEF Step
<1> QED BY <1>6, <1>7

(* The writes of a call: rows of its own, which no other call has locked.   *)
LEMMA OwnLocks ==
  ASSUME Inv, NEW c \in Calls, At(c, "bulkCreate") \/ At(c, "bulkDelete"),
         NEW r \in call[c].pending
  PROVE  <<call[c].user, r>> \notin LockedBy(Calls \ {c})
<1>1. r \in call[c].roles \ call[c].todo
  BY DEF Inv, TxsOK, TxOK, Dealt
<1>2. <<call[c].user, r>> \in Locks(c)
  BY <1>1 DEF Locks
<1> QED BY <1>2 DEF Inv, TxsOK, Exclusive, LockedBy

LEMMA WhoInserts ==
  ASSUME Inv, NEW c \in Calls, Create(c) \/ BulkCreate(c),
         ~ NothingWritten \/ reply'.code = "OK"
  PROVE  \E rs \in SUBSET call[c].roles :
           /\ CommitInserts(c, rs)
           /\ \A r \in call[c].roles \ rs : Has(call[c].user, r)
           /\ \A r \in rs : <<call[c].user, r>> \notin LockedBy(Calls \ {c})
<1>0. ~ ForeignKeyBroken(c) /\ \A r : ~ InsertInTx(c, r)
  BY Replied, ErrorsAreErrors DEF ForeignKeyBroken, InsertInTx, StatementDone, Return,
     NoReply
<1>1. CASE Create(c)
  <2>1. PICK r \in call[c].roles :
          MayLock(c, r) /\ CommitInserts(c, {q \in {r} : ~ Has(call[c].user, q)})
    BY <1>0, <1>1 DEF Create
  <2>2. \A x \in call[c].roles \ {q \in {r} : ~ Has(call[c].user, q)} :
          Has(call[c].user, x)
    BY <1>1, CreateDups DEF Create
  <2> QED BY <2>1, <2>2 DEF MayLock
<1>2. CASE BulkCreate(c)
  <2>1. At(c, "bulkCreate") /\ call[c].todo = {} /\ CommitInserts(c, call[c].pending)
    BY <1>0, <1>2 DEF BulkCreate
  <2> QED BY <2>1, BulkDups, OwnLocks
<1> QED BY <1>1, <1>2

LEMMA WhoDeletes ==
  ASSUME Inv, NEW c \in Calls, Delete(c) \/ BulkDelete(c),
         ~ NothingWritten \/ reply'.code = "OK"
  PROVE  \E rs \in SUBSET call[c].roles :
           /\ CommitDeletes(c, rs)
           /\ \A r \in call[c].roles \ rs : ~ Has(call[c].user, r)
           /\ \A r \in rs : <<call[c].user, r>> \notin LockedBy(Calls \ {c})
<1>1. CASE Delete(c)
  BY <1>1 DEF Delete, MayLock
<1>2. CASE BulkDelete(c)
  <2>1. At(c, "bulkDelete") /\ call[c].todo = {} /\ CommitDeletes(c, call[c].pending)
    <3>1. \A r, changed : ~ (NothingWritten /\ StatementDone(c, r, changed))
      BY DEF StatementDone, NoReply
    <3> QED BY <1>2, <3>1 DEF BulkDelete
  <2>2. /\ call[c].pending \subseteq call[c].roles
        /\ \A r \in call[c].roles \ call[c].pending : ~ Has(call[c].user, r)
    BY <2>1 DEF Inv, TxsOK, TxOK, Dealt
  <2> QED BY <2>1, <2>2, OwnLocks
<1> QED BY <1>1, <1>2

LEMMA WhoElse ==
  ASSUME NEW c \in Calls, Step(c) \/ AccessService(c), ~ UNCHANGED tables
  PROVE  /\ Create(c) \/ BulkCreate(c) \/ Delete(c) \/ BulkDelete(c)
         /\ ~ NothingWritten
<1>1. ~ NothingWritten
  BY DEF NothingWritten, tables
<1>2. ~ AccessService(c)
  BY <1>1 DEF AccessService, GrantRoleToUser, RemoveRoleFromUser, HasRoleInApp,
     BulkGrantRoles, BulkRemoveRoles, CheckPermission, BatchCheckPermission,
     ListUserRoles, CanReadAudit, Start, Invalid
<1> QED BY <1>1, <1>2 DEF Step, requireUserExists, requireUserEligible,
        requireAppExists, Require, loadAnyRole, loadActiveRoleInApp, RequireRoles, Get,
        ListActivePermissions, HasAssignment, ListAssignments, HydrateRole, CallFails,
        resolveAdminAppID

(* What an INSERT and a DELETE leave of a pair that is not theirs.          *)
LEMMA OtherPairs ==
  ASSUME NEW u, NEW rs, NEW a, NEW v, NEW q, v # u \/ q \notin rs
  PROVE  /\ HasIn(CreateRoleAssignments(u, rs, a), v, q) <=> Has(v, q)
         /\ HasIn(DeleteRoleAssignments(u, rs), v, q) <=> Has(v, q)
<1>1. \A x \in CreateRoleAssignments(u, rs, a) :
        x \in assigned \/ (x.user = u /\ x.role \in rs)
  BY DEF CreateRoleAssignments, NewRoleAssignment
<1>2. assigned \subseteq CreateRoleAssignments(u, rs, a)
  BY DEF CreateRoleAssignments
<1>3. HasIn(CreateRoleAssignments(u, rs, a), v, q) <=> Has(v, q)
  BY <1>1, <1>2 DEF Has, HasIn
<1>4. HasIn(DeleteRoleAssignments(u, rs), v, q) <=> Has(v, q)
  BY DEF Has, HasIn, DeleteRoleAssignments
<1> QED BY <1>3, <1>4

(* A step that leaves alone what the transaction of c has dealt with.       *)
Respects(c) ==
  LET u == call[c].user
  IN  \A r \in Dealt(call[c]) :
        /\ At(c, "bulkCreate") =>
             /\ Exists(user[u]) => Exists(user'[u])
             /\ Exists(role[r]) => Exists(role'[r])
             /\ Has(u, r) => HasIn(assigned', u, r)
        /\ At(c, "bulkDelete") => (HasIn(assigned', u, r) => Has(u, r))

LEMMA TablesStayRespects ==
  ASSUME NEW c, UNCHANGED <<user, role, assigned>> PROVE Respects(c)
BY DEF Respects, Has, HasIn

LEMMA DealtIsLocked ==
  ASSUME NEW c, At(c, "bulkCreate") \/ At(c, "bulkDelete"), NEW r \in Dealt(call[c])
  PROVE  <<call[c].user, r>> \in Locks(c)
BY DEF Locks, Dealt

(* Writes to pairs that c has not locked.                                   *)
LEMMA OthersPairsRespect ==
  ASSUME NEW c \in Calls, NEW u, NEW rs, NEW a,
         \/ assigned' = CreateRoleAssignments(u, rs, a)
         \/ assigned' = DeleteRoleAssignments(u, rs),
         \A r \in rs : <<u, r>> \notin Locks(c),
         \A v : v = call[c].user => (Exists(user[v]) => Exists(user'[v])),
         \A r \in Dealt(call[c]) : Exists(role[r]) => Exists(role'[r])
  PROVE  Respects(c)
<1> DEFINE v == call[c].user
<1>1. ASSUME NEW r \in Dealt(call[c]), At(c, "bulkCreate") \/ At(c, "bulkDelete")
      PROVE  HasIn(assigned', v, r) <=> Has(v, r)
  <2>1. v # u \/ r \notin rs
    BY <1>1, DealtIsLocked
  <2> QED BY <2>1, OtherPairs
<1> QED BY <1>1 DEF Respects

LEMMA StepRespects ==
  ASSUME Inv, NEW c \in Calls, NEW d \in Calls, c # d, Step(d) \/ AccessService(d)
  PROVE  Respects(c)
<1>1. CASE UNCHANGED tables
  BY <1>1, TablesStayRespects DEF tables
<1>2. ASSUME NEW rs, CommitInserts(d, rs) \/ CommitDeletes(d, rs),
             \A r \in rs : <<call[d].user, r>> \notin LockedBy(Calls \ {d})
      PROVE  Respects(c)
  <2>1. \A r \in rs : <<call[d].user, r>> \notin Locks(c)
    BY <1>2 DEF LockedBy
  <2>2. UNCHANGED <<user, role>>
    BY <1>2 DEF CommitInserts, CommitDeletes, TablesButAssigned
  <2>3. \/ assigned' = CreateRoleAssignments(call[d].user, rs, AssignmentApp(d))
        \/ assigned' = DeleteRoleAssignments(call[d].user, rs)
    BY <1>2 DEF CommitInserts, CommitDeletes
  <2> QED BY <2>1, <2>2, <2>3, OthersPairsRespect
<1>3. CASE ~ UNCHANGED tables
  <2>1. \/ (Create(d) \/ BulkCreate(d)) /\ ~ NothingWritten
        \/ (Delete(d) \/ BulkDelete(d)) /\ ~ NothingWritten
    BY <1>3, WhoElse
  <2>2. CASE (Create(d) \/ BulkCreate(d)) /\ ~ NothingWritten
    BY <1>2, <2>2, WhoInserts
  <2>3. CASE (Delete(d) \/ BulkDelete(d)) /\ ~ NothingWritten
    BY <1>2, <2>3, WhoDeletes
  <2> QED BY <2>1, <2>2, <2>3
<1> QED BY <1>1, <1>3

(* A deletion of users us and roles rs that no INSERT of c refers to.       *)
LEMMA DeletionRespects ==
  ASSUME Inv, NEW c \in Calls, NEW us, NEW rs,
         \A pair \in Referenced : pair[1] \notin us /\ pair[2] \notin rs,
         user' = [u \in Users |-> IF u \in us THEN "gone" ELSE user[u]],
         role' = [r \in Roles |-> IF r \in rs THEN "gone" ELSE role[r]],
         assigned' = {x \in assigned : x.user \notin us /\ x.role \notin rs}
  PROVE  Respects(c)
<1> DEFINE v == call[c].user
<1>1. ASSUME NEW r \in Dealt(call[c]), At(c, "bulkCreate")
      PROVE  v \notin us /\ r \notin rs /\ v \in Users /\ r \in Roles
  <2>1. <<v, r>> \in Referenced
    BY <1>1, DealtIsLocked DEF Referenced, LockedBy
  <2>2. v \in Users /\ r \in Roles
    BY <1>1, CallFacts DEF At, IsIdle, Dealt
  <2> QED BY <2>1, <2>2
<1>2. ASSUME NEW r \in Dealt(call[c]), At(c, "bulkCreate"), Has(v, r)
      PROVE  HasIn(assigned', v, r)
  BY <1>1, <1>2 DEF Has, HasIn
<1>3. ASSUME NEW r, HasIn(assigned', v, r) PROVE Has(v, r)
  BY <1>3 DEF Has, HasIn
<1> QED BY <1>1, <1>2, <1>3 DEF Respects

LEMMA ElsewhereRespects ==
  ASSUME Inv, NEW c \in Calls, Elsewhere
  PROVE  Respects(c)
<1>1. /\ user \in [Users -> UserStatus \cup {"unborn", "gone"}]
      /\ role \in [Roles -> {"ACTIVE", "DISABLED", "unborn", "gone"}]
      /\ call[c] # Idle => call[c].user \in Users
      /\ Dealt(call[c]) \subseteq Roles
  BY CallFacts DEF Inv, TypeOK, Dealt
<1>2. call[c] = Idle => Respects(c)
  BY DEF Respects, At, IsIdle
<1> SUFFICES ASSUME call[c] # Idle PROVE Respects(c)
  BY <1>2
<1>3. ASSUME NEW u \in Users, NEW status \in UserStatus,
             SetUserStatus(u, status) \/ CreateUser(u)
      PROVE  Respects(c)
  <2>1. \E st \in UserStatus : user' = [user EXCEPT ![u] = st]
    BY <1>3 DEF SetUserStatus, CreateUser, UserStatus
  <2>2. UNCHANGED <<role, assigned>>
    BY <1>3 DEF SetUserStatus, CreateUser
  <2>3. \A v \in Users : Exists(user[v]) => Exists(user'[v])
    BY <1>1, <2>1 DEF UserStatus, Exists
  <2> QED BY <1>1, <2>2, <2>3 DEF Respects, Has, HasIn
<1>4. ASSUME NEW r \in Roles, NEW status \in {"ACTIVE", "DISABLED"},
             SetRoleStatus(r, status) \/ CreateRole(r)
      PROVE  Respects(c)
  <2>1. \E st \in {"ACTIVE", "DISABLED"} : role' = [role EXCEPT ![r] = st]
    BY <1>4 DEF SetRoleStatus, CreateRole
  <2>2. UNCHANGED <<user, assigned>>
    BY <1>4 DEF SetRoleStatus, CreateRole
  <2>3. \A q \in Roles : Exists(role[q]) => Exists(role'[q])
    BY <1>1, <2>1 DEF Exists
  <2> QED BY <1>1, <2>2, <2>3 DEF Respects, Has, HasIn
<1>5. ASSUME NEW a \in Apps, CreateApp(a) PROVE Respects(c)
  BY <1>5, TablesStayRespects DEF CreateApp
<1>6. ASSUME NEW u \in Users, PermanentlyDeleteUser(u) PROVE Respects(c)
  <2> DEFINE us == {u}  rs == {}
  <2>1. /\ user' = [v \in Users |-> IF v \in us THEN "gone" ELSE user[v]]
        /\ role' = [q \in Roles |-> IF q \in rs THEN "gone" ELSE role[q]]
        /\ assigned' = {x \in assigned : x.user \notin us /\ x.role \notin rs}
        /\ \A pair \in Referenced : pair[1] \notin us /\ pair[2] \notin rs
    BY <1>1, <1>6 DEF PermanentlyDeleteUser
  <2> HIDE DEF us, rs
  <2> QED BY <2>1, DeletionRespects
<1>7. ASSUME NEW rs, DeleteRoles(rs), UNCHANGED user,
             \A pair \in Referenced : pair[2] \notin rs
      PROVE  Respects(c)
  <2> DEFINE us == {}
  <2>1. /\ user' = [v \in Users |-> IF v \in us THEN "gone" ELSE user[v]]
        /\ role' = [q \in Roles |-> IF q \in rs THEN "gone" ELSE role[q]]
        /\ assigned' = {x \in assigned : x.user \notin us /\ x.role \notin rs}
        /\ \A pair \in Referenced : pair[1] \notin us /\ pair[2] \notin rs
    BY <1>1, <1>7 DEF DeleteRoles
  <2> HIDE DEF us
  <2> QED BY <2>1, DeletionRespects
<1>8. ASSUME NEW r \in Roles, PermanentlyDeleteRole(r) PROVE Respects(c)
  BY <1>7, <1>8 DEF PermanentlyDeleteRole
<1>9. ASSUME NEW a \in Apps, PermanentlyDeleteApp(a) PROVE Respects(c)
  BY <1>7, <1>9 DEF PermanentlyDeleteApp
<1>10. ASSUME NEW u \in Users, NEW r \in Roles,
              AssignElsewhere(u, r) \/ RemoveElsewhere(u, r)
       PROVE  Respects(c)
  <2>1. <<u, r>> \notin Locks(c)
    BY <1>10 DEF AssignElsewhere, RemoveElsewhere, LockedBy
  <2>2. \/ assigned' = CreateRoleAssignments(u, {r}, AppOf[r])
        \/ assigned' = DeleteRoleAssignments(u, {r})
    BY <1>10 DEF AssignElsewhere, RemoveElsewhere
  <2>3. UNCHANGED <<user, role>>
    BY <1>10 DEF AssignElsewhere, RemoveElsewhere
  <2> QED BY <2>1, <2>2, <2>3, OthersPairsRespect
<1>11. ASSUME NEW u \in Users, NEW a \in AdminApps, seedAdmin(a, u) PROVE Respects(c)
  <2>1. \A r \in RolesOf(a) : <<u, r>> \notin Locks(c)
    BY <1>11 DEF seedAdmin, LockedBy
  <2>2. /\ assigned' = CreateRoleAssignments(u, RolesOf(a), a)
        /\ role' = Born(role, RolesOf(a)) /\ user' = Born(user, {u})
    BY <1>11 DEF seedAdmin, SeedRoles, SeedUser, SeedAssignments
  <2>3. /\ \A v \in Users : Exists(user[v]) => Exists(user'[v])
        /\ \A q \in Roles : Exists(role[q]) => Exists(role'[q])
    BY <1>1, <2>2 DEF Born, Exists
  <2> QED BY <1>1, <2>1, <2>2, <2>3, OthersPairsRespect
<1>12. CASE Restart
  BY <1>12, TablesStayRespects DEF Restart, tables
<1>13. "ACTIVE" \in UserStatus
  BY DEF UserStatus
<1> QED BY <1>3, <1>4, <1>5, <1>6, <1>8, <1>9, <1>10, <1>11, <1>12, <1>13 DEF Elsewhere

(* How the transaction of c fares in a step.                                *)
LEMMA TxStays ==
  ASSUME Inv, NEW c \in Calls, call'[c] = call[c], Respects(c)
  PROVE  TxOK(c)' /\ Locks(c)' = Locks(c)
<1>1. \A step : At(c, step)' <=> At(c, step)
  BY DEF At, IsIdle
<1>2. TxOK(c)
  BY DEF Inv, TxsOK
<1>3. \A u, r : Has(u, r)' <=> HasIn(assigned', u, r)
  BY DEF Has, HasIn
<1>4. TxOK(c)'
  BY <1>1, <1>2, <1>3 DEF TxOK, Respects, Dealt
<1>5. Locks(c)' = Locks(c)
  BY <1>1 DEF Locks
<1> QED BY <1>4, <1>5

LEMMA TxGrows ==
  ASSUME Inv, NEW c \in Calls, NEW r \in call[c].todo, Statement(c, r)
  PROVE  TxOK(c)' /\ Locks(c)' \subseteq Locks(c) \cup {<<call[c].user, r>>}
<1> DEFINE s == call[c]  t == call'[c]
<1>1. call \in [Calls -> CallState] /\ s \in CallState
  BY DEF Inv, TypeOK
<1>2. UNCHANGED tables
  BY DEF Statement, NothingWritten
<1>3. \A step : At(c, step) => s # Idle /\ s.plan # <<>> /\ Head(s.plan) = step
  BY CallFacts DEF At, IsIdle
<1>4. PICK q \in {s.pending, s.pending \cup {r}} :
        /\ t = [s EXCEPT !.todo = @ \ {r}, !.pending = q]
        /\ At(c, "bulkCreate") =>
             /\ ForeignKeysHold(c, r)
             /\ q = IF Has(s.user, r) THEN s.pending ELSE s.pending \cup {r}
        /\ At(c, "bulkDelete") =>
             q = IF Has(s.user, r) THEN s.pending \cup {r} ELSE s.pending
  <2>1. CASE At(c, "bulkCreate")
    <3>1. ~ At(c, "bulkDelete")
      BY <2>1 DEF At
    <3> QED BY <1>1, <2>1, <3>1 DEF Statement, StatementDone
  <2>2. CASE At(c, "bulkDelete")
    <3>1. ~ At(c, "bulkCreate")
      BY <2>2 DEF At
    <3> QED BY <1>1, <2>2, <3>1 DEF Statement, StatementDone
  <2> QED BY <2>1, <2>2 DEF Statement
<1>5. /\ t.plan = s.plan /\ t.user = s.user /\ t.roles = s.roles
      /\ t.todo = s.todo \ {r} /\ t.pending = q
  BY <1>1, <1>4 DEF CallState
<1>6. At(c, "bulkCreate") \/ At(c, "bulkDelete")
  BY DEF Statement
<1>7. t # Idle
  BY <1>3, <1>5, <1>6, IdleState
<1>8. \A step : At(c, step)' <=> At(c, step)
  BY <1>3, <1>5, <1>6, <1>7 DEF At, IsIdle
<1>9. /\ \A x \in Dealt(t) : x \in Dealt(s) \/ x = r
      /\ Dealt(s) \subseteq Dealt(t)
  BY <1>5 DEF Dealt
<1>15. Locks(c)' \subseteq Locks(c) \cup {<<s.user, r>>}
  <2>1. Locks(c) = {s.user} \X Dealt(s)
    BY <1>6 DEF Locks, Dealt
  <2>2. Locks(c)' = {t.user} \X Dealt(t)
    BY <1>6, <1>8 DEF Locks, Dealt
  <2> QED BY <1>5, <1>9, <2>1, <2>2
<1>10. TxOK(c)
  BY DEF Inv, TxsOK
<1>16. t.todo \subseteq t.roles
  BY <1>5, <1>6, <1>10 DEF TxOK
<1>11. \A u, x : HasIn(assigned', u, x) <=> Has(u, x)
  BY <1>2 DEF Has, tables
<1>12. user' = user /\ role' = role
  BY <1>2 DEF tables
<1>13. CASE At(c, "bulkCreate")
  <2>1. ~ At(c, "bulkDelete")
    BY <1>13 DEF At
  <2>2. r \in s.roles
    BY <1>10, <1>13 DEF TxOK
  <2>3. Exists(user[s.user]) /\ Exists(role[r])
    BY <1>4, <1>13 DEF ForeignKeysHold, References, NewRoleAssignment
  <2>4. q \subseteq Dealt(t)
    BY <1>4, <1>5, <1>9, <1>10, <1>13, <2>2 DEF TxOK, Dealt
  <2>5. ASSUME NEW x \in Dealt(t)
        PROVE  /\ Exists(user[s.user]) /\ Exists(role[x])
               /\ x \in q \/ Has(s.user, x)
    BY <1>4, <1>9, <1>10, <1>13, <2>3, <2>5 DEF TxOK
  <2>6. \A x \in Dealt(t) : /\ Exists(user'[t.user]) /\ Exists(role'[x])
                            /\ x \in t.pending \/ HasIn(assigned', t.user, x)
    BY <1>5, <1>11, <1>12, <2>5
  <2>7. ~ At(c, "bulkDelete")' /\ At(c, "bulkCreate")'
    BY <1>8, <1>13, <2>1
  <2>8. TxOK(c)'
    BY <1>5, <1>16, <2>4, <2>6, <2>7 DEF TxOK, Dealt, Has, HasIn
  <2> QED BY <1>15, <2>8
<1>14. CASE At(c, "bulkDelete")
  <2>1. ~ At(c, "bulkCreate")
    BY <1>14 DEF At
  <2>2. r \in s.roles
    BY <1>10, <1>14 DEF TxOK
  <2>3. q \subseteq Dealt(t)
    BY <1>4, <1>5, <1>9, <1>10, <1>14, <2>2 DEF TxOK, Dealt
  <2>4. ASSUME NEW x \in Dealt(t) PROVE x \in q \/ ~ Has(s.user, x)
    BY <1>4, <1>9, <1>10, <1>14, <2>4 DEF TxOK
  <2>5. \A x \in Dealt(t) : x \in t.pending \/ ~ HasIn(assigned', t.user, x)
    BY <1>5, <1>11, <2>4
  <2>6. At(c, "bulkDelete")' /\ ~ At(c, "bulkCreate")'
    BY <1>8, <1>14, <2>1
  <2>7. TxOK(c)'
    BY <1>5, <1>16, <2>3, <2>5, <2>6 DEF TxOK, Dealt, Has, HasIn
  <2> QED BY <1>15, <2>7
<1> QED BY <1>6, <1>13, <1>14

LEMMA TxsNext == ASSUME Inv, Next PROVE TxsOK'
<1>1. CASE Elsewhere
  <2>1. UNCHANGED call \/ call' = [c \in Calls |-> Idle]
    BY <1>1 DEF Elsewhere, CreateUser, PermanentlyDeleteUser, SetUserStatus, seedAdmin,
       AssignElsewhere, RemoveElsewhere, CreateRole, PermanentlyDeleteRole,
       SetRoleStatus, CreateApp, PermanentlyDeleteApp, Restart, NoCall
  <2>2. CASE UNCHANGED call
    <3>1. \A c \in Calls : TxOK(c)' /\ Locks(c)' = Locks(c)
      BY <1>1, <2>2, ElsewhereRespects, TxStays
    <3> QED BY <3>1 DEF Inv, TxsOK, Exclusive
  <2>3. CASE call' = [c \in Calls |-> Idle]
    <3>1. \A c \in Calls : TxOK(c)' /\ Locks(c)' = {}
      BY <2>3 DEF TxOK, Locks, At, IsIdle
    <3> QED BY <3>1 DEF TxsOK, Exclusive
  <2> QED BY <2>1, <2>2, <2>3
<1>2. ASSUME NEW d \in Calls, Step(d) \/ AccessService(d) PROVE TxsOK'
  <2>1. \A c \in Calls \ {d} : TxOK(c)' /\ Locks(c)' = Locks(c)
    BY <1>2, MovesOne, StepRespects, TxStays DEF OthersStay
  <2>2. TxOK(d)' /\ \A c \in Calls \ {d} : Locks(c) \cap Locks(d)' = {}
    <3>1. CASE NoTx(call'[d])
      <4>1. TxOK(d)' /\ Locks(d)' = {}
        BY <3>1 DEF NoTx, TxOK, Locks, Dealt, At, IsIdle, Bulk
      <4> QED BY <4>1
    <3>2. ASSUME NEW r \in call[d].todo, Statement(d, r)
          PROVE  TxOK(d)' /\ \A c \in Calls \ {d} : Locks(c) \cap Locks(d)' = {}
      <4>1. TxOK(d)' /\ Locks(d)' \subseteq Locks(d) \cup {<<call[d].user, r>>}
        BY <3>2, TxGrows
      <4>2. \A c \in Calls \ {d} : <<call[d].user, r>> \notin Locks(c)
        BY <3>2 DEF Statement, MayLock, LockedBy
      <4> QED BY <4>1, <4>2 DEF Inv, TxsOK, Exclusive
    <3> QED BY <1>2, <3>1, <3>2, TxMoves
  <2> QED BY <2>1, <2>2 DEF Inv, TxsOK, Exclusive
<1> QED BY <1>1, <1>2 DEF Next

-----------------------------------------------------------------------------
(* The inductive invariant.                                                 *)

LEMMA Effects ==
  ASSUME Inv, Next
  PROVE  CallEffect /\ TablesOK' /\ Remember
<1>1. Remember
  BY DEF Next
<1>2. CASE Elsewhere
  <2>1. (UNCHANGED call \/ call' = [c \in Calls |-> Idle]) /\ reply' = NoReply
    BY <1>2 DEF Elsewhere, CreateUser, PermanentlyDeleteUser, SetUserStatus, seedAdmin,
       AssignElsewhere, RemoveElsewhere, CreateRole, PermanentlyDeleteRole,
       SetRoleStatus, CreateApp, PermanentlyDeleteApp, Restart, NoCall
  <2> QED BY <1>1, <1>2, <2>1, ElsewhereTables, ReplyTypes DEF CallEffect
<1>3. ASSUME NEW c \in Calls, AccessService(c) \/ Step(c) PROVE CallEffect /\ TablesOK'
  BY <1>1, <1>3, StepEffect, ServiceEffect, StepTables, ServiceTables
<1> QED BY <1>1, <1>2, <1>3 DEF Next

LEMMA InitInv == Init => Inv
<1> SUFFICES ASSUME Init PROVE Inv
  OBVIOUS
<1>1. \A c \in Calls : call[c] = Idle
  BY DEF Init
<1>2. CallsOK /\ NowSeen
  BY <1>1 DEF CallsOK, CallOK, NowSeen
<1>3. AssignmentsBelong /\ RolesInApps
  BY DEF Init, AssignmentsBelong, RolesInApps, Exists
<1>6. TxsOK
  BY <1>1 DEF TxsOK, TxOK, Exclusive, Locks, At, IsIdle
<1>4. NothingSeen \in SeenSet
  BY DEF NothingSeen, SeenSet
<1>5. TypeOK
  BY <1>4, IdleState, ReplyTypes DEF Init, TypeOK, SeenSet, Reply
<1> QED BY <1>2, <1>3, <1>5, <1>6 DEF Inv

LEMMA CallsNext ==
  ASSUME Inv, Remember, CallEffect
  PROVE  call' \in [Calls -> CallState] /\ CallsOK'
<1>1. call \in [Calls -> CallState]
  BY DEF Inv, TypeOK
<1>2. call' \in [Calls -> CallState]
  BY <1>1, IdleState DEF CallEffect, Moves
<1>3. ASSUME NEW c \in Calls, call'[c] = call[c] PROVE CallOK(call'[c], seen'[c])
  <2>1. CASE call'[c] = Idle
    BY <2>1 DEF CallOK
  <2>2. CASE call'[c] # Idle
    BY <1>3, <2>2, CallFacts, SeenNext, MoreSeen
  <2> QED BY <2>1, <2>2
<1>4. ASSUME NEW c \in Calls PROVE CallOK(call'[c], seen'[c])
  <2>1. CASE UNCHANGED call
    BY <1>3, <2>1
  <2>2. CASE call' = [d \in Calls |-> Idle]
    BY <2>2 DEF CallOK
  <2>3. ASSUME NEW d \in Calls, NEW t \in CallState, Moves(d, t)
        PROVE  CallOK(call'[c], seen'[c])
    <3>1. call'[c] = IF c = d THEN t ELSE call[c]
      BY <1>1, <2>3 DEF Moves
    <3> QED BY <1>3, <2>3, <3>1 DEF Moves
  <2> QED BY <2>1, <2>2, <2>3 DEF CallEffect
<1> QED BY <1>2, <1>4 DEF CallsOK, CallOK, PlanOK, GrantOK, ReadOK, Granting, Passed

LEMMA SeenTypes ==
  ASSUME Inv, Remember, call' \in [Calls -> CallState]
  PROVE  seen' \in [Calls -> SeenSet] /\ NowSeen'
<1>1. ASSUME NEW c \in Calls
      PROVE  /\ Now(c)'.held \subseteq Roles /\ Now(c)'.lost \subseteq Roles
             /\ Now(c)'.active \subseteq Users \cup Roles
  <2>1. call'[c].roles \subseteq Roles /\ call'[c].todo \subseteq Roles
    BY DEF CallState
  <2> QED BY <2>1 DEF Now
<1>2. seen \in [Calls -> SeenSet] /\ NothingSeen \in SeenSet
  BY DEF Inv, TypeOK, SeenSet, NothingSeen
<1>3. seen' \in [Calls -> SeenSet]
  BY <1>1, <1>2 DEF Remember, SeenSet
<1>4. ASSUME NEW c \in Calls, call'[c] # Idle
      PROVE  /\ Now(c)'.held \subseteq seen'[c].held
             /\ Now(c)'.lost \subseteq seen'[c].lost
             /\ Now(c)'.active \subseteq seen'[c].active
  <2>1. seen'[c] = [held   |-> seen[c].held \cup Now(c)'.held,
                    lost   |-> seen[c].lost \cup Now(c)'.lost,
                    active |-> seen[c].active \cup Now(c)'.active]
    BY <1>4 DEF Remember
  <2> QED BY <2>1
<1>5. NowSeen'
  BY <1>4 DEF NowSeen
<1> QED BY <1>3, <1>5

(* The invariant is inductive.                                              *)
LEMMA StepInv == Inv /\ [Next]_vars => Inv'
<1>1. ASSUME Inv, Next PROVE Inv'
  <2>1. CallEffect /\ TablesOK' /\ Remember
    BY <1>1, Effects
  <2>2. call' \in [Calls -> CallState] /\ CallsOK'
    BY <1>1, <2>1, CallsNext
  <2>3. seen' \in [Calls -> SeenSet] /\ NowSeen'
    BY <1>1, <2>1, <2>2, SeenTypes
  <2>4. TypeOK'
    BY <2>1, <2>2, <2>3 DEF TypeOK, TablesOK, CallEffect, Reply, SeenSet
  <2> QED BY <1>1, <2>1, <2>2, <2>3, <2>4, TxsNext DEF Inv, TablesOK
<1>2. ASSUME Inv, UNCHANGED vars PROVE Inv'
  <2>1. TypeOK'
    BY <1>2 DEF vars, Inv, TypeOK
  <2>2. AssignmentsBelong' /\ RolesInApps'
    BY <1>2 DEF vars, Inv, AssignmentsBelong, References, RolesInApps
  <2>3. CallsOK'
    BY <1>2 DEF vars, Inv, CallsOK, CallOK, PlanOK, GrantOK, Granting, Passed, ReadOK
  <2>4. \A c \in Calls : Now(c)' = Now(c)
    BY <1>2 DEF vars, Now, Has, HasIn
  <2>5. NowSeen'
    BY <1>2, <2>4 DEF vars, Inv, NowSeen
  <2>6. \A c \in Calls : TxOK(c)' /\ Locks(c)' = Locks(c)
    BY <1>2, TablesStayRespects, TxStays DEF vars
  <2>7. TxsOK'
    BY <1>2, <2>6 DEF Inv, TxsOK, Exclusive
  <2> QED BY <2>1, <2>2, <2>3, <2>5, <2>7 DEF Inv
<1> QED BY <1>1, <1>2

(* Every reachable state satisfies the inductive invariant.                 *)
THEOREM InvInvariant == Spec => []Inv
BY InitInv, StepInv, PTL DEF Spec

(* The types of the tables, of the calls in flight and of what they saw.    *)
THEOREM TypeCorrect == Spec => []TypeOK
<1>1. Inv => TypeOK
  BY DEF Inv
<1> QED BY <1>1, InvInvariant, PTL

(* No race of grants, bulk grants, removals, deletions and the seed leaves  *)
(* an assignment without its user or role, or under the app of another.     *)
THEOREM AssignmentsAlwaysBelong == Spec => []AssignmentsBelong
<1>1. Inv => AssignmentsBelong
  BY DEF Inv
<1> QED BY <1>1, InvInvariant, PTL

-----------------------------------------------------------------------------
(* Action properties.                                                       *)

(* The writes of a call.                                                    *)
LEMMA WhoWrites ==
  ASSUME Inv, Next, NEW c \in Calls, call'[c] # call[c], assigned' # assigned
  PROVE  \/ (Create(c) \/ BulkCreate(c)) /\ ~ NothingWritten
         \/ (Delete(c) \/ BulkDelete(c)) /\ ~ NothingWritten
<1>1. Step(c) /\ ~ UNCHANGED tables
  BY WhoMoves DEF NothingWritten, tables
<1> QED BY <1>1, WhoElse

(* A grant adds only roles that passed loadActiveRoleInApp, to a user that  *)
(* passed requireUserEligible, during the call.                             *)
THEOREM GrantsSeeEligibility == Spec => GrantsSawEligibility
<1>1. ASSUME Inv, Next, NEW c \in Calls, NEW x \in assigned' \ assigned,
             call'[c] # call[c]
      PROVE  {x.user, x.role} \subseteq seen[c].active
  <2>1. CASE (Delete(c) \/ BulkDelete(c)) /\ ~ NothingWritten
    BY <1>1, <2>1, WhoDeletes DEF CommitDeletes, DeleteRoleAssignments
  <2>2. CASE (Create(c) \/ BulkCreate(c)) /\ ~ NothingWritten
    <3>1. /\ call[c].user \in seen[c].active
          /\ \A r \in call[c].roles : r \in seen[c].active
      BY <1>1, <2>2, GrantFacts DEF Create, BulkCreate
    <3>2. PICK r \in call[c].roles :
            x = NewRoleAssignment(call[c].user, r, AssignmentApp(c))
      BY <1>1, <2>2, WhoInserts DEF CommitInserts, CreateRoleAssignments
    <3> QED BY <3>1, <3>2 DEF NewRoleAssignment
  <2> QED BY <1>1, <2>1, <2>2, WhoWrites
<1>2. Inv /\ [Next]_vars =>
        [\A c \in Calls : \A x \in assigned' \ assigned :
           call'[c] # call[c] => {x.user, x.role} \subseteq seen[c].active]_vars
  BY <1>1
<1> QED BY <1>2, InvInvariant, PTL DEF Spec, GrantsSawEligibility

LEMMA DeletedHasNot ==
  ASSUME NEW u, NEW rs, NEW r \in rs
  PROVE  ~ HasIn(DeleteRoleAssignments(u, rs), u, r)
BY DEF HasIn, DeleteRoleAssignments

(* A committed DELETE leaves none of the roles of the request.              *)
LEMMA DeletedAll ==
  ASSUME NEW c, NEW rs, CommitDeletes(c, rs),
         \A r \in call[c].roles \ rs : ~ Has(call[c].user, r)
  PROVE  \A r \in call[c].roles : ~ HasIn(assigned', call[c].user, r)
<1>1. assigned' = DeleteRoleAssignments(call[c].user, rs)
  BY DEF CommitDeletes
<1>2. assigned' \subseteq assigned
  BY <1>1 DEF DeleteRoleAssignments
<1> QED BY <1>1, <1>2, DeletedHasNot DEF Has, HasIn

(* A bulk grant or removal of any size takes effect as a whole, whatever    *)
(* other calls and servers do between its statements: the locks keep what   *)
(* it found in place until the COMMIT.                                      *)
THEOREM BulkAllOrNothing == Spec => BulkIsAllOrNothing
<1>1. ASSUME Inv, Next, NEW c \in Calls, call'[c] # call[c], assigned' # assigned
      PROVE  \/ \A r \in call[c].roles : HasIn(assigned', call[c].user, r)
             \/ \A r \in call[c].roles : ~ HasIn(assigned', call[c].user, r)
  <2>1. CASE (Delete(c) \/ BulkDelete(c)) /\ ~ NothingWritten
    BY <1>1, <2>1, WhoDeletes, DeletedAll
  <2>2. CASE (Create(c) \/ BulkCreate(c)) /\ ~ NothingWritten
    BY <1>1, <2>2, WhoInserts, CommitHas
  <2> QED BY <1>1, <2>1, <2>2, WhoWrites
<1>2. Inv /\ [Next]_vars =>
        [\A c \in Calls :
           (call'[c] # call[c] /\ assigned' # assigned) =>
             \/ \A r \in call[c].roles : HasIn(assigned', call[c].user, r)
             \/ \A r \in call[c].roles : ~ HasIn(assigned', call[c].user, r)]_vars
  BY <1>1
<1> QED BY <1>2, InvInvariant, PTL DEF Spec, BulkIsAllOrNothing

(* What a call that ends with OK has seen, for the round trip it ends with. *)
AnswerHeld(c) ==
  LET held == seen[c].held \cup {r \in Roles : HasIn(assigned', call[c].user, r)}
      lost == seen[c].lost \cup {r \in Roles : ~ HasIn(assigned', call[c].user, r)}
  IN  /\ Head(call[c].plan) \in {"create", "bulkCreate", "get"} =>
           call[c].roles \subseteq held
      /\ Head(call[c].plan) \in {"delete", "bulkDelete"} =>
           call[c].roles \subseteq lost
      /\ Head(call[c].plan) \in {"has", "hydrate"} => reply'.roles \subseteq held
      /\ Head(call[c].plan) = "has" =>
           call[c].roles \ reply'.roles \subseteq lost

LEMMA StepAnswers ==
  ASSUME Inv, NEW c \in Calls, Step(c), call'[c] = Idle, reply'.code = "OK"
  PROVE  AnswerHeld(c)
<1> DEFINE s == call[c]
<1>1. /\ s.roles \subseteq Roles
      /\ s # Idle => /\ PlanOK(s) /\ ReadOK(s, seen[c]) /\ Head(s.plan) = s.plan[1]
                     /\ s.plan[1] \in In(s.plan)
  BY CallFacts, PlanTail DEF CallOK
<1>2. NoReply.code # "OK"
  BY DEF NoReply
<1>3. ASSUME NEW step \in {"userEligible", "userExists", "app", "role", "activeRole",
                          "permissions", "resolve", "list"}, At(c, step)
      PROVE  AnswerHeld(c)
  BY <1>3 DEF At, AnswerHeld
<1>4. CASE Create(c) \/ BulkCreate(c)
  <2>1. Head(s.plan) \in {"create", "bulkCreate"}
    BY <1>4 DEF Create, BulkCreate, At
  <2>2. \A r \in s.roles : HasIn(assigned', s.user, r)
    BY <1>4, WhoInserts, CommitHas
  <2> QED BY <1>1, <2>1, <2>2 DEF AnswerHeld
<1>5. CASE Get(c)
  <2>1. s # Idle /\ Head(s.plan) = "get"
    BY <1>5 DEF Get, At, IsIdle
  <2>2. s.roles \subseteq seen[c].held
    BY <1>1, <2>1 DEF ReadOK
  <2> QED BY <2>1, <2>2 DEF AnswerHeld
<1>6. CASE Delete(c) \/ BulkDelete(c)
  <2>1. Head(s.plan) \in {"delete", "bulkDelete"}
    BY <1>6 DEF Delete, BulkDelete, At
  <2>2. \A r \in s.roles : ~ HasIn(assigned', s.user, r)
    BY <1>6, WhoDeletes, DeletedAll
  <2> QED BY <1>1, <2>1, <2>2 DEF AnswerHeld
<1>7. CASE HasAssignment(c)
  <2>1. Head(s.plan) = "has" /\ assigned' = assigned
    BY <1>7 DEF HasAssignment, At, NothingWritten, tables
  <2>2. reply'.roles = {r \in s.roles : HasIn(assigned', s.user, r)}
    BY <1>7, <2>1, Replied DEF HasAssignment, Has
  <2> QED BY <1>1, <2>1, <2>2 DEF AnswerHeld
<1>8. CASE HydrateRole(c)
  <2>1. s # Idle /\ Head(s.plan) = "hydrate"
    BY <1>8 DEF HydrateRole, At, IsIdle
  <2>2. s.roles \subseteq seen[c].held /\ s.todo \subseteq seen[c].held
    BY <1>1, <2>1 DEF ReadOK
  <2>3. \E loaded \in SUBSET s.todo : Answer(c, "OK", {}, s.roles \cup loaded)
    BY <1>2, <1>8 DEF HydrateRole
  <2>4. reply'.roles \subseteq seen[c].held
    BY <2>2, <2>3, Replied
  <2> QED BY <2>1, <2>4 DEF AnswerHeld
<1>9. ~ CallFails(c)
  BY Replied, ErrorsAreErrors DEF CallFails, Return
<1> QED BY <1>3, <1>4, <1>5, <1>6, <1>7, <1>8, <1>9 DEF Step, requireUserExists,
        requireUserEligible, requireAppExists, Require, loadAnyRole,
        loadActiveRoleInApp, RequireRoles, ListActivePermissions, ListAssignments,
        resolveAdminAppID

(* What AccessService answers was so at some moment of the call.            *)
THEOREM AnswersHold == Spec => AnswersHeldDuringCall
<1>1. ASSUME Inv, Next, NEW c \in Calls, Ends(c), reply'.code = "OK"
      PROVE  AnswerHeld(c)
  <2>1. NoReply.code # "OK"
    BY DEF NoReply
  <2>2. Step(c) /\ call'[c] = Idle
    BY <1>1, <2>1, WhoMoves DEF Ends
  <2> QED BY <1>1, <2>2, StepAnswers
<1>2. Inv /\ [Next]_vars =>
        [\A c \in Calls : (Ends(c) /\ reply'.code = "OK") => AnswerHeld(c)]_vars
  BY <1>1
<1> QED BY <1>2, InvInvariant, PTL DEF Spec, AnswersHeldDuringCall, AnswerHeld

(* The only step that allows something.                                     *)
LEMMA WhoAllows ==
  ASSUME Inv, NEW c \in Calls, Step(c), reply'.allowed # {}
  PROVE  ListActivePermissions(c)
<1>1. NoReply.allowed = {}
  BY DEF NoReply
<1>2. \A err : ~ Return(c, err)
  BY Replied DEF Return
<1>3. \A roles : ~ Answer(c, "OK", {}, roles)
  BY Replied
<1>4. ~ Advance(c)
  BY <1>1 DEF Advance
<1> QED BY <1>1, <1>2, <1>3, <1>4 DEF Step, requireUserExists,
        requireUserEligible, requireAppExists, Require, loadAnyRole,
        loadActiveRoleInApp, RequireRoles, Create, BulkCreate, CommitInserts, InsertInTx,
        StatementDone, ForeignKeyBroken, Get, Delete, BulkDelete, CommitDeletes, HasAssignment,
        resolveAdminAppID, ListAssignments, HydrateRole, CallFails

(* The audit log opens only to a holder of an ACTIVE role of the live       *)
(* sso-admin app, although the authorizer caches the app's id.              *)
THEOREM AuditOpensOnlyToAdmins == Spec => AuditOpensToAdmins
<1>1. ASSUME Inv, Next, AuditRead \in reply'.allowed, NEW c \in Calls, Ends(c),
             call[c].app \in AdminApps
      PROVE  /\ app[call[c].app] = "live"
             /\ \E r \in RolesOf(call[c].app) :
                  Has(call[c].user, r) /\ role[r] = "ACTIVE"
  <2> DEFINE s    == call[c]
             rows == ListActivePermissionsByUserApp(s.user, s.app)
             ok   == {p \in s.perms : matchPermissions(rows, p) # {}}
  <2>1. NoReply.allowed = {}
    BY DEF NoReply
  <2>2. Step(c)
    BY <1>1, <2>1, WhoMoves DEF Ends
  <2>3. reply'.allowed = ok
    BY <1>1, <2>2, WhoAllows, Replied DEF ListActivePermissions
  <2>4. matchPermissions(rows, AuditRead) # {}
    BY <1>1, <2>3
  <2>5. rows # {}
    BY <2>4 DEF matchPermissions
  <2>6. PICK x \in assigned : x.user = s.user /\ x.app = s.app /\ role[x.role] = "ACTIVE"
    BY <2>5 DEF ListActivePermissionsByUserApp
  <2>7. x.role \in Roles /\ x.app = AppOf[x.role] /\ app[x.app] = "live"
    BY <1>1, <2>6 DEF Inv, TypeOK, RoleAssignment, AssignmentsBelong
  <2> QED BY <2>6, <2>7 DEF RolesOf, Has, HasIn
<1>2. Inv /\ [Next]_vars =>
        [(AuditRead \in reply'.allowed) =>
           \A c \in Calls : (Ends(c) /\ call[c].app \in AdminApps) =>
             /\ app[call[c].app] = "live"
             /\ \E r \in RolesOf(call[c].app) :
                  Has(call[c].user, r) /\ role[r] = "ACTIVE"]_vars
  BY <1>1
<1> QED BY <1>2, InvInvariant, PTL DEF Spec, AuditOpensToAdmins

-----------------------------------------------------------------------------
(* The users and roles underneath.                                          *)

(* What IdentityService promises about the user u, RoleService about the    *)
(* role r.                                                                  *)
Account(u) == INSTANCE RowLifecycle WITH
  Statuses <- UserStatus, Purgeable <- {"DELETED"}, status <- user[u]

RoleRow(r) == INSTANCE RowLifecycle WITH
  Statuses  <- {"ACTIVE", "DISABLED"},
  Purgeable <- {"ACTIVE", "DISABLED"},
  status    <- role[r]

(* Any step that keeps the promise, as the tables here see it: a purge      *)
(* waits for INSERTs that refer to its row and takes the assignments along, *)
(* and a role is created in a live app.                                     *)
AccountStep(u) ==
  /\ Account(u)!Next
  /\ Account(u)!Delete => \A pair \in Referenced : pair[1] # u
  /\ user' = [user EXCEPT ![u] = user'[u]]
  /\ assigned' = {x \in assigned : user'[u] = "gone" => x.user # u}
  /\ NoCall
  /\ UNCHANGED <<role, app, appID>>
  /\ Remember

RoleStep(r) ==
  /\ RoleRow(r)!Next
  /\ RoleRow(r)!Create => app[AppOf[r]] = "live"
  /\ RoleRow(r)!Delete => \A pair \in Referenced : pair[2] # r
  /\ role' = [role EXCEPT ![r] = role'[r]]
  /\ assigned' = {x \in assigned : role'[r] = "gone" => x.role # r}
  /\ NoCall
  /\ UNCHANGED <<user, app, appID>>
  /\ Remember

(* AccessService is proved against every behaviour of a user that           *)
(* UserAccounts can show: AccountRefinesRowLifecycle bounds what an account *)
(* does, and each such step is a step here.                                 *)
THEOREM EveryAccountStepIsCovered ==
  ASSUME Inv, NEW u \in Users, AccountStep(u)
  PROVE  Next
<1>1. /\ Account(u)!Next /\ NoCall /\ Remember
      /\ Account(u)!Delete => \A pair \in Referenced : pair[1] # u
      /\ user' = [user EXCEPT ![u] = user'[u]]
      /\ assigned' = {x \in assigned : user'[u] = "gone" => x.user # u}
      /\ UNCHANGED <<role, app, appID>>
  BY DEF AccountStep
<1>2. user'[u] # "gone" => assigned' = assigned
  BY <1>1
<1>3. CASE Account(u)!Create
  <2>1. user[u] = "unborn" /\ user'[u] = "ACTIVE"
    BY <1>3 DEF Account!Create
  <2>2. CreateUser(u)
    BY <1>1, <1>2, <2>1 DEF CreateUser
  <2> QED BY <1>1, <2>2 DEF Next, Elsewhere
<1>4. CASE Account(u)!Change
  <2>1. user[u] \in UserStatus /\ user'[u] \in UserStatus
    BY <1>4 DEF Account!Change
  <2>2. Exists(user[u]) /\ user'[u] # "gone"
    BY <2>1 DEF UserStatus, Exists
  <2>3. SetUserStatus(u, user'[u])
    BY <1>1, <1>2, <2>2 DEF SetUserStatus
  <2> QED BY <1>1, <2>1, <2>3 DEF Next, Elsewhere
<1>5. CASE Account(u)!Delete
  <2>1. user[u] = "DELETED" /\ user'[u] = "gone"
    BY <1>5 DEF Account!Delete
  <2>2. PermanentlyDeleteUser(u)
    BY <1>1, <1>5, <2>1 DEF PermanentlyDeleteUser
  <2> QED BY <1>1, <2>2 DEF Next, Elsewhere
<1> QED BY <1>1, <1>3, <1>4, <1>5 DEF Account!Next

(* The same for roles, with RoleRefinesRowLifecycle of CatalogProofs.       *)
THEOREM EveryRoleStepIsCovered ==
  ASSUME Inv, NEW r \in Roles, RoleStep(r)
  PROVE  Next
<1>1. /\ RoleRow(r)!Next /\ NoCall /\ Remember
      /\ RoleRow(r)!Create => app[AppOf[r]] = "live"
      /\ RoleRow(r)!Delete => \A pair \in Referenced : pair[2] # r
      /\ role' = [role EXCEPT ![r] = role'[r]]
      /\ assigned' = {x \in assigned : role'[r] = "gone" => x.role # r}
      /\ UNCHANGED <<user, app, appID>>
  BY DEF RoleStep
<1>2. role'[r] # "gone" => assigned' = assigned
  BY <1>1
<1>3. CASE RoleRow(r)!Create
  <2>1. role[r] = "unborn" /\ role'[r] = "ACTIVE"
    BY <1>3 DEF RoleRow!Create
  <2>2. CreateRole(r)
    BY <1>1, <1>2, <1>3, <2>1 DEF CreateRole
  <2> QED BY <1>1, <2>2 DEF Next, Elsewhere
<1>4. CASE RoleRow(r)!Change
  <2>1. role[r] \in {"ACTIVE", "DISABLED"} /\ role'[r] \in {"ACTIVE", "DISABLED"}
    BY <1>4 DEF RoleRow!Change
  <2>2. Exists(role[r]) /\ role'[r] # "gone"
    BY <2>1 DEF Exists
  <2>3. SetRoleStatus(r, role'[r])
    BY <1>1, <1>2, <2>2 DEF SetRoleStatus
  <2> QED BY <1>1, <2>1, <2>3 DEF Next, Elsewhere
<1>5. CASE RoleRow(r)!Delete
  <2>1. role[r] \in {"ACTIVE", "DISABLED"} /\ role'[r] = "gone"
    BY <1>5 DEF RoleRow!Delete
  <2>2. Exists(role[r]) /\ role \in [Roles -> {"ACTIVE", "DISABLED", "unborn", "gone"}]
    BY <2>1 DEF Exists, Inv, TypeOK
  <2>3. DeleteRoles({r})
    <3>1. role' = [q \in Roles |-> IF q \in {r} THEN "gone" ELSE role[q]]
      BY <1>1, <2>1, <2>2
    <3>2. assigned' = {x \in assigned : x.role \notin {r}}
      BY <1>1, <2>1
    <3> QED BY <3>1, <3>2 DEF DeleteRoles
  <2>4. PermanentlyDeleteRole(r)
    BY <1>1, <1>5, <2>2, <2>3 DEF PermanentlyDeleteRole
  <2> QED BY <1>1, <2>4 DEF Next, Elsewhere
<1> QED BY <1>1, <1>3, <1>4, <1>5 DEF RoleRow!Next
=============================================================================
