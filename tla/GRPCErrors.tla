----------------------------- MODULE GRPCErrors -----------------------------
(***************************************************************************)
(* How the gRPC adapters turn the errors of the use cases into status      *)
(* codes.  An error is named by its sentinel; "OK" is no error.  An error  *)
(* that is in no table, a database failure above all, becomes Internal.    *)
(***************************************************************************)
AppErrorMap ==
  [APP_NOT_FOUND |-> "NotFound", APP_ALREADY_EXISTS |-> "AlreadyExists",
   ETAG_MISMATCH |-> "Aborted", APP_DISABLED |-> "FailedPrecondition",
   APP_IN_MAINTENANCE |-> "FailedPrecondition"]

RoleErrorMap ==
  [ROLE_NOT_FOUND |-> "NotFound", ROLE_ALREADY_EXISTS |-> "AlreadyExists",
   ETAG_MISMATCH |-> "Aborted"]

ServiceAccountErrorMap ==
  [SERVICE_ACCOUNT_NOT_FOUND |-> "NotFound", ETAG_MISMATCH |-> "Aborted",
   SERVICE_ACCOUNT_ALREADY_EXISTS |-> "AlreadyExists",
   SERVICE_ACCOUNT_DISABLED |-> "FailedPrecondition"]

(* A missing service account answers like a wrong secret, a replayed        *)
(* refresh token like any bad token.  ErrEtagMismatch is not in this table. *)
AuthErrorMap ==
  [INVALID_CREDENTIALS |-> "Unauthenticated",
   INVALID_TOKEN |-> "Unauthenticated",
   REFRESH_TOKEN_REUSED |-> "Unauthenticated",
   PASSWORD_MISMATCH |-> "Unauthenticated",
   RECOVERY_CODE_INVALID |-> "Unauthenticated",
   INVALID_CLIENT_CREDENTIALS |-> "Unauthenticated",
   SERVICE_ACCOUNT_NOT_FOUND |-> "Unauthenticated",
   USER_BLOCKED |-> "FailedPrecondition", USER_DELETED |-> "FailedPrecondition",
   APP_DISABLED |-> "FailedPrecondition",
   APP_IN_MAINTENANCE |-> "FailedPrecondition",
   SERVICE_ACCOUNT_DISABLED |-> "FailedPrecondition",
   SESSION_NOT_OWNED |-> "PermissionDenied",
   USER_ALREADY_EXISTS |-> "AlreadyExists",
   USER_NOT_FOUND |-> "NotFound", SESSION_NOT_FOUND |-> "NotFound",
   APP_NOT_FOUND |-> "NotFound"]

(* ErrAssignmentNotFound is not in the table of AccessService.              *)
AccessErrorMap ==
  [USER_NOT_FOUND |-> "NotFound", ROLE_NOT_FOUND |-> "NotFound",
   APP_NOT_FOUND |-> "NotFound", ROLE_DISABLED |-> "FailedPrecondition",
   ROLE_NOT_IN_APP |-> "FailedPrecondition",
   USER_NOT_ELIGIBLE |-> "FailedPrecondition"]

GRPCCodes == {"none", "OK", "InvalidArgument", "NotFound", "AlreadyExists",
              "Aborted", "FailedPrecondition", "Unauthenticated",
              "PermissionDenied", "Internal"}

MapError(err, errorMap) ==
  IF err = "OK" THEN "OK"
  ELSE IF err = "VALIDATION_FAILED" THEN "InvalidArgument"
  ELSE IF err \in DOMAIN errorMap THEN errorMap[err] ELSE "Internal"

=============================================================================
