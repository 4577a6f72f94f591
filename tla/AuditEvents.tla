----------------------------- MODULE AuditEvents -----------------------------
(***************************************************************************)
(* How a use case turns its result into an audit event: the params begun   *)
(* from the actor or the anonymous flow, the subject and app filled in as  *)
(* the use case finds them, the outcome and reason stamped by Classify or  *)
(* by Success, Fail and Deny, and the checks of NewAudit, whose failure    *)
(* drops the event.  An id is unset, a UUID or any other text; an address  *)
(* is unset, an IP or any other text; the user agent is cut to length and  *)
(* never refused, so it is left out.                                       *)
(***************************************************************************)
EXTENDS Naturals, FiniteSets

MetadataMaxEntries  == 32
MetadataKeyMaxLen   == 64
MetadataValueMaxLen == 512

(* The event types with a slug; the reads among them are never emitted.     *)
EventTypes ==
  {"identity.create_user", "identity.get_user", "identity.list_users",
   "identity.update_user", "identity.disable_user", "identity.enable_user",
   "identity.soft_delete_user", "identity.permanently_delete_user",
   "app.create_app", "app.get_app", "app.list_apps", "app.update_app",
   "app.disable_app", "app.enable_app", "app.enter_maintenance_mode",
   "app.exit_maintenance_mode", "app.permanently_delete_app",
   "role.create_role", "role.get_role", "role.list_roles",
   "role.update_role", "role.disable_role", "role.enable_role",
   "role.permanently_delete_role", "service_account.create_service_account",
   "service_account.get_service_account",
   "service_account.list_service_account",
   "service_account.update_service_account",
   "service_account.rotate_credentials",
   "service_account.disable_service_account",
   "service_account.enable_service_account",
   "service_account.permanently_delete_service_account",
   "access.has_role_in_app",
   "access.list_user_roles", "access.check_permission",
   "access.batch_check_permission", "access.grant_role_to_user",
   "access.remove_role_from_user", "access.bulk_grant_roles",
   "access.bulk_remove_roles", "auth.register", "auth.login", "auth.logout",
   "auth.refresh", "auth.validate_token", "auth.change_password",
   "auth.list_sessions", "auth.revoke_session", "auth.revoke_all_sessions",
   "auth.revoke_token", "auth.generate_recovery_codes",
   "auth.reset_password_with_recovery_code",
   "auth.authenticate_service_account"}

ActorTypes   == {"user", "service", "system", "anonymous"}
SubjectTypes == {"user", "role", "app", "session", "role_assignment",
                 "service_account"}
Outcomes     == {"success", "failure", "denied"}
Unknown      == "unknown" \* the zero value of each enum
Unset        == ""
NoReason     == ""

(* ParseActorID, ParseSubjectID, ParseAppID and the Parse functions of the  *)
(* modules all are uuid.Parse.                                              *)
Parses(id) == id = "uuid"

-----------------------------------------------------------------------------
(* The use cases that emit: where the subject's id and the app's id come    *)
(* from.  "request" ids are parsed before anything else, "minted" ones are  *)
(* new, the "actor" one is the subject of the verified token, a "row" one   *)
(* is set once the row has been read.                                       *)

UseCases(events, subject, subjectFrom, appFrom) ==
  {[event |-> e, subject |-> subject, subjectFrom |-> subjectFrom,
    appFrom |-> appFrom] : e \in events}

(* These have no actor.                                                     *)
AnonymousUseCases ==
  UNION {UseCases({"auth.register"}, "user", "minted", "none"),
         UseCases({"auth.login"}, "user", "row", "request"),
         UseCases({"auth.refresh"}, "session", "row", "none"),
         UseCases({"auth.reset_password_with_recovery_code"},
                  "user", "row", "row"),
         UseCases({"auth.authenticate_service_account"},
                  "service_account", "row", "request")}

IdentityUseCases ==
  UNION {UseCases({"identity.create_user"}, "user", "minted", "none"),
         UseCases({"identity.update_user", "identity.disable_user",
                   "identity.enable_user", "identity.soft_delete_user",
                   "identity.permanently_delete_user"},
                  "user", "request", "none")}

AppUseCases ==
  UNION {UseCases({"app.create_app"}, "app", "minted", "minted"),
         UseCases({"app.update_app", "app.disable_app", "app.enable_app",
                   "app.enter_maintenance_mode", "app.exit_maintenance_mode",
                   "app.permanently_delete_app"},
                  "app", "request", "request")}

(* The subject of CreateRole is the app.                                    *)
RoleUseCases ==
  UNION {UseCases({"role.create_role"}, "app", "request", "none"),
         UseCases({"role.update_role", "role.disable_role",
                   "role.enable_role", "role.permanently_delete_role"},
                  "role", "request", "none")}

ServiceAccountUseCases ==
  UNION {UseCases({"service_account.create_service_account"},
                  "service_account", "minted", "none"),
         UseCases({"service_account.update_service_account",
                   "service_account.rotate_credentials",
                   "service_account.disable_service_account",
                   "service_account.enable_service_account",
                   "service_account.permanently_delete_service_account"},
                  "service_account", "request", "none")}

AccessUseCases ==
  UNION {UseCases({"access.grant_role_to_user",
                   "access.remove_role_from_user"},
                  "user", "request", "row"),
         UseCases({"access.bulk_grant_roles", "access.bulk_remove_roles"},
                  "user", "request", "request")}

AuthUseCases ==
  UNION {UseCases({"auth.logout"}, "user", "actor", "none"),
         UseCases({"auth.change_password", "auth.revoke_all_sessions",
                   "auth.generate_recovery_codes"},
                  "user", "request", "none"),
         UseCases({"auth.revoke_session"}, "session", "request", "none"),
         UseCases({"auth.revoke_token"}, "session", "row", "none")}

ActorUseCases == UNION {IdentityUseCases, AppUseCases, RoleUseCases,
                        ServiceAccountUseCases, AccessUseCases, AuthUseCases}

-----------------------------------------------------------------------------
(* Kinds of principal the auth interceptor injects, with the id of a user   *)
(* or service account, and the address of the TCP peer if there is one.     *)
ActorKinds == {"user", "service_account"}
PeerIPs    == {Unset, "addr"}

MapActorKind(k) ==
  CASE k = "user"            -> "user"
    [] k = "service_account" -> "service"
    [] OTHER                 -> Unknown

Params(event, actorType, actorID, ip) ==
  [eventType |-> event, actorType |-> actorType, actorID |-> actorID,
   subjectType |-> Unknown, subjectID |-> Unset, appID |-> Unset,
   outcome |-> Unknown, reason |-> NoReason, ip |-> ip, metadata |-> {}]

BaseFromActor(k, event, ip) == Params(event, MapActorKind(k), "uuid", ip)

AnonymousBase(event, ip) == Params(event, "anonymous", Unset, ip)

(* What the client sent as the ids of the subject and the app.              *)
Requests == [subject : {"uuid", "text"}, app : {"uuid", "text"}]

(* Mutant: the event is begun before the ids of the request are parsed.     *)
BegunUnparsed(u, req) == TRUE

(* The event is begun once the ids taken from the request have parsed; if   *)
(* one does not, the use case returns without an event.                     *)
Begun(u, req) == /\ u.subjectFrom = "request" => Parses(req.subject)
                 /\ u.appFrom = "request" => Parses(req.app)

(* The rows a use case has read when it emits.                              *)
Progress == {{}, {"app"}, {"app", "subject"}}

IDFrom(source, raw, isRead) ==
  CASE source = "request"             -> raw
    [] source \in {"minted", "actor"} -> "uuid"
    [] source = "row"                 -> IF isRead THEN "uuid" ELSE Unset
    [] source = "none"                -> Unset

(* SubjectType is assigned together with SubjectID.                         *)
Filled(base, u, req, read) ==
  LET sid == IDFrom(u.subjectFrom, req.subject, "subject" \in read)
  IN  [base EXCEPT
         !.subjectType = IF sid = Unset THEN Unknown ELSE u.subject,
         !.subjectID = sid,
         !.appID = IDFrom(u.appFrom, req.app, "app" \in read)]

(* A use case on its way to an event: who calls, from where, with what ids, *)
(* and what it has read.                                                    *)
Calls(by, uses) == [by : by, ip : PeerIPs, use : uses, req : Requests,
                    read : Progress]

ActorParams ==
  {Filled(BaseFromActor(c.by, c.use.event, c.ip), c.use, c.req, c.read) :
     c \in {d \in Calls(ActorKinds, ActorUseCases) : Begun(d.use, d.req)}}

AnonymousParams ==
  {Filled(AnonymousBase(c.use.event, c.ip), c.use, c.req, c.read) :
     c \in {d \in Calls({"nobody"}, AnonymousUseCases) : Begun(d.use, d.req)}}

-----------------------------------------------------------------------------
(* What a use case can end with: a sentinel that is a failure, one that is  *)
(* a policy denial, a refused input, or an error of the driver, whose text  *)
(* has no bound.                                                            *)
Results == {"OK", "VALIDATION_FAILED", "USER_NOT_FOUND", "ROLE_DISABLED",
            "driver error"}

(* The reason constants, all much shorter than ReasonMaxLen.                *)
Reasons == {"VALIDATION_FAILED", "USER_NOT_FOUND", "ROLE_DISABLED",
            "INTERNAL"}

errReasonMap == [err \in {"USER_NOT_FOUND", "ROLE_DISABLED"} |->
                   IF err = "ROLE_DISABLED" THEN "denied" ELSE "failure"]

Classify(err) ==
  IF err \in DOMAIN errReasonMap
  THEN [outcome |-> errReasonMap[err], reason |-> err]
  ELSE [outcome |-> "failure",
        reason |-> IF err = "VALIDATION_FAILED" THEN err ELSE "INTERNAL"]

WithOutcome(p, or) == [p EXCEPT !.outcome = or.outcome, !.reason = or.reason]

Success(p) == WithOutcome(p, [outcome |-> "success", reason |-> NoReason])

(* The params the use case hands to Auditor.Emit.                           *)
Stamped(p, err) == IF err = "OK" THEN Success(p)
                   ELSE WithOutcome(p, Classify(err))

Built == UNION {{Stamped(p, err) : err \in Results} :
                  p \in ActorParams \cup AnonymousParams}

-----------------------------------------------------------------------------
RequiresActorID(type) == type \in {"user", "service"}

(* An entry of the metadata is the lengths of its key and value.            *)
validateMetadata(m) ==
  /\ Cardinality(m) <= MetadataMaxEntries
  /\ \A e \in m : e[1] <= MetadataKeyMaxLen /\ e[2] <= MetadataValueMaxLen

(* NewAudit accepts.                                                        *)
NewAudit(p) ==
  /\ p.eventType \in EventTypes
  /\ p.actorType \in ActorTypes
  /\ p.outcome \in Outcomes
  /\ IF RequiresActorID(p.actorType) THEN Parses(p.actorID)
     ELSE p.actorID = Unset
  /\ p.subjectID # Unset =>
       p.subjectType \in SubjectTypes /\ Parses(p.subjectID)
  /\ p.appID # Unset => Parses(p.appID)
  /\ p.ip # Unset => p.ip = "addr"
  /\ p.reason \in Reasons \cup {NoReason} \* at most ReasonMaxLen bytes
  /\ p.outcome = "success" => p.reason = NoReason
  /\ validateMetadata(p.metadata)

(* The outcomes that reach the table, and what is dropped on the way.       *)
Recorded == {p.outcome : p \in {q \in Built : NewAudit(q)}}
Refused  == {p \in Built : ~ NewAudit(p)}
=============================================================================
