---------------------------- MODULE CatalogStore ----------------------------
(***************************************************************************)
(* The aggregates App, Role and ServiceAccount with the statements of      *)
(* their tables.  A row keeps the columns that the use cases write; ids,   *)
(* slugs and timestamps, which never decide anything after the row exists, *)
(* are left out.  name stands for the columns a client may patch: the name *)
(* with an app's link, a role's or an account's description.  A role's     *)
(* permissions are rows of their own table, so an aggregate is a row       *)
(* together with a permission set.                                         *)
(***************************************************************************)
EXTENDS Integers

CONSTANTS
  Names,       \* names a client may give
  Taken,       \* those of them that other rows of the table have
  Permissions, \* permissions of a role
  PermSets,    \* the sets of them that clients ask for
  Unset,       \* a field that is not in the update mask
  NoRow,       \* no row
  MaxEtags     \* bound: etags minted

ASSUME CatalogBounds == MaxEtags \in Nat \ {0} /\ Taken \subseteq Names
ASSUME PermSetsAssumption == PermSets \subseteq SUBSET Permissions
ASSUME UnsetIsNoValue ==
  /\ Unset \notin Names
  /\ \A ps \in PermSets : ps # Unset

Etags == 1 .. MaxEtags

(* The secret of a service account is named by the etag it was minted with; *)
(* apps and roles have none.                                                *)
Secrets == 0 .. MaxEtags

Kinds == {"app", "role", "account"}

AppStatus            == {"ACTIVE", "DISABLED", "MAINTENANCE"}
RoleStatus           == {"ACTIVE", "DISABLED"}
ServiceAccountStatus == {"ACTIVE", "DISABLED"}

Aggregate == [name : Names, status : AppStatus, etag : Etags,
              secret : Secrets, perms : SUBSET Permissions]

(* The columns of the row itself.                                           *)
Columns(a) == [name |-> a.name, status |-> a.status,
               etag |-> a.etag, secret |-> a.secret]
Row == [name : Names, status : AppStatus, etag : Etags,
        secret : Secrets]

ASSUME NoRowIsNoRow == NoRow \notin Row /\ NoRow \notin Aggregate

(* RestoreRole and its siblings: a row as read, with its permissions.       *)
Restore(r, ps) == [name |-> r.name, status |-> r.status,
                   etag |-> r.etag, secret |-> r.secret, perms |-> ps]

-----------------------------------------------------------------------------
(* Constructors.                                                            *)

New(name, secret, ps, e) ==
  [name |-> name, status |-> "ACTIVE", etag |-> e,
   secret |-> secret, perms |-> ps]

(* Mutant: the status is left at the enum's zero value.                     *)
NewAppUnspecified(name, e) == [New(name, 0, {}, e) EXCEPT !.status = "UNSPECIFIED"]

NewApp(name, e)            == New(name, 0, {}, e)
NewRole(name, ps, e)       == New(name, 0, ps, e)
NewServiceAccount(name, e) == New(name, e, {}, e)

-----------------------------------------------------------------------------
(* Mutators.  Each stamps a new etag exactly when it changes something.     *)

(* Mutant: the transition does not advance the etag.                        *)
SetStatusUnbumped(a, status, e) == [a EXCEPT !.status = status]

SetStatus(a, status, e) ==
  IF a.status = status THEN a ELSE [a EXCEPT !.status = status, !.etag = e]

AppDisable(a, e)          == SetStatus(a, "DISABLED", e)
AppEnable(a, e)           == SetStatus(a, "ACTIVE", e)
AppEnterMaintenance(a, e) == SetStatus(a, "MAINTENANCE", e)
AppExitMaintenance(a, e)  == SetStatus(a, "ACTIVE", e)

(* The state the App mutators refuse to start from.                         *)
AppRefusals == [disable |-> {}, enable |-> {"MAINTENANCE"},
                enter |-> {"DISABLED"}, exit |-> {"DISABLED"}]

RoleDisable(a, e)           == SetStatus(a, "DISABLED", e)
RoleEnable(a, e)            == SetStatus(a, "ACTIVE", e)
ServiceAccountDisable(a, e) == SetStatus(a, "DISABLED", e)
ServiceAccountEnable(a, e)  == SetStatus(a, "ACTIVE", e)

Patched(p, old) == IF p = Unset THEN old ELSE p

ApplyPatch(a, p, e) ==
  LET b == [a EXCEPT !.name = Patched(p.name, @), !.perms = Patched(p.perms, @)]
  IN  IF b = a THEN a ELSE [b EXCEPT !.etag = e]

RotateSecret(a, e) == [a EXCEPT !.secret = e, !.etag = e]

(* buildPatch: the fields in the mask, of those the kind has.               *)
AppPatches            == [name : Names \cup {Unset}, perms : {Unset}]
RolePatches           == [name  : Names \cup {Unset},
                          perms : PermSets \cup {Unset}]
ServiceAccountPatches == [name : Names \cup {Unset}, perms : {Unset}]
IsEmpty(p)            == p.name = Unset /\ p.perms = Unset

-----------------------------------------------------------------------------
(* WHERE id = ? [AND etag = ?]; the expected etag 0 is the wildcard.        *)

(* Mutant: the etag is not tested.                                          *)
MatchesAnyEtag(r, e) == r # NoRow

Matches(r, e) == r # NoRow /\ (e = 0 \/ r.etag = e)

(* ParseExpectedEtag: -1 is a missing etag, 0 the wildcard.                 *)
ExpectedEtags   == -1 .. MaxEtags
GivenEtag(e)    == e # -1
SpecificEtag(e) == e > 0

(* DELETE and INSERT of role_permissions inside the transaction.            *)

(* Mutant: the old permissions are not cleared first.                       *)
RewriteUncleared(stored, desired) == stored \cup desired

RewritePermissions(stored, desired) == desired
=============================================================================
