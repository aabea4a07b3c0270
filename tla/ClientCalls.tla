----------------------------- MODULE ClientCalls -----------------------------
(***************************************************************************)
(* The operations of the three client libraries: UserIDMClient, UserIdm    *)
(* and UserAuthNative.  Each is one call of a proxy; they differ in what   *)
(* they do when there is no service and when the callback's stub cannot be *)
(* allocated.                                                              *)
(***************************************************************************)
EXTENDS IdmParcels, AuthParcels, Overlay

(***************************************************************************)
(* An operation returns noServer when the service is not there, and calls  *)
(* the application's callback first if "tells".  nostub is what it returns *)
(* when new (std::nothrow) gives no stub ("never": plain new, or no        *)
(* callback); "apologises" says whether it calls the callback then.        *)
(***************************************************************************)
Operation(method, noServer, tells, nostub, apologises) ==
  [method |-> method, noServer |-> noServer, noServerTells |-> tells, nostub |-> nostub,
   apologises |-> apologises]

UserIDMClientOps ==
  LET Op(method, noServer) == Operation(method, noServer, FALSE, "never", FALSE) IN
  [USERIDM_ADD_CREDENTIAL      |-> Op(EnrolMethods.USERIDM_ADD_CREDENTIAL, "void"),
   USERIDM_UPDATE_CREDENTIAL   |-> Op(EnrolMethods.USERIDM_UPDATE_CREDENTIAL, "void"),
   USERIDM_DELUSER             |-> Op(DeleteMethods.USERIDM_DELUSER, "void"),
   USERIDM_DELCRED             |-> Op(DeleteMethods.USERIDM_DELCRED, "void"),
   USERIDM_CLOSE_SESSION       |-> Op(SessionMethods.USERIDM_CLOSE_SESSION, "void"),
   USERIDM_OPEN_SESSION        |-> Op(SessionMethods.USERIDM_OPEN_SESSION, "FAIL"),
   USERIDM_GET_AUTH_INFO       |-> Op(QueryMethods.USERIDM_GET_AUTH_INFO, "FAIL"),
   USERIDM_GET_AUTH_INFO_BY_ID |-> Op(QueryMethods.USERIDM_GET_AUTH_INFO_BY_ID, "FAIL"),
   USERIDM_GET_SEC_INFO        |-> Op(QueryMethods.USERIDM_GET_SEC_INFO, "FAIL"),
   USERIDM_CANCEL              |-> Op(CancelMethods.USERIDM_CANCEL, "FAIL"),
   USERIDM_ENFORCE_DELUSER     |-> Op(DeleteMethods.USERIDM_ENFORCE_DELUSER, "FAIL")]

UserIdmSessionOps ==
  LET Op(method, noServer) == Operation(method, noServer, FALSE, "never", FALSE) IN
  [USERIDM_OPEN_SESSION_BY_ID  |-> Op(SessionMethods.USERIDM_OPEN_SESSION_BY_ID, "E_RET_NOSERVER"),
   USERIDM_CLOSE_SESSION_BY_ID |-> Op(SessionMethods.USERIDM_CLOSE_SESSION_BY_ID, "void"),
   USERIDM_CANCEL_BY_ID        |-> Op(CancelMethods.USERIDM_CANCEL_BY_ID, "E_RET_NOSERVER")]

UserIdmCallbackOps ==
  LET Op(method) == Operation(method, "void", TRUE, "void", TRUE) IN
  [USERIDM_ADD_CREDENTIAL_BY_ID    |-> Op(EnrolMethods.USERIDM_ADD_CREDENTIAL_BY_ID),
   USERIDM_UPDATE_CREDENTIAL_BY_ID |-> Op(EnrolMethods.USERIDM_UPDATE_CREDENTIAL_BY_ID),
   USERIDM_DELUSER_BY_ID           |-> Op(DeleteMethods.USERIDM_DELUSER_BY_ID),
   USERIDM_DELCREDENTIAL           |-> Op(DeleteMethods.USERIDM_DELCREDENTIAL)]

UserIdmQueryOps ==
  LET Op(method) == Operation(method, "E_RET_NOSERVER", TRUE, "GENERAL_ERROR", TRUE) IN
  [USERIDM_GET_AUTH_INFO_BY_ID |-> Op(QueryMethods.USERIDM_GET_AUTH_INFO_BY_ID),
   USERIDM_GET_SEC_INFO        |-> Op(QueryMethods.USERIDM_GET_SEC_INFO),
   USERIDM_ENFORCE_DELUSER     |-> Op(DeleteMethods.USERIDM_ENFORCE_DELUSER)]

UserIdmOps == UserIdmSessionOps ++ UserIdmCallbackOps ++ UserIdmQueryOps

UserAuthPropertyOps ==
  LET Op(method) == Operation(method, "void", TRUE, "void", FALSE) IN
  [USER_AUTH_GET_AVAILABLE_STATUS |->
     Operation(PropertyMethods.USER_AUTH_GET_AVAILABLE_STATUS, "E_RET_NOSERVER", FALSE, "never", FALSE),
   USER_AUTH_GET_PROPERTY         |-> Op(PropertyMethods.USER_AUTH_GET_PROPERTY),
   USER_AUTH_GET_PROPERTY_BY_ID   |-> Op(PropertyMethods.USER_AUTH_GET_PROPERTY_BY_ID),
   USER_AUTH_SET_PROPERTY         |-> Op(PropertyMethods.USER_AUTH_SET_PROPERTY)]

\* Auth's error is returned where its caller expects the id of a context.
UserAuthOps ==
  LET Op(method, noServer, nostub) == Operation(method, noServer, FALSE, nostub, FALSE) IN
  [USER_AUTH_AUTH        |-> Op(AuthMethods.USER_AUTH_AUTH, "E_RET_NOSERVER", "GENERAL_ERROR"),
   USER_AUTH_AUTH_USER   |-> Op(AuthMethods.USER_AUTH_AUTH_USER, "E_RET_NOSERVER", "GENERAL_ERROR"),
   USER_AUTH_CANCEL_AUTH |-> Op(AuthMethods.USER_AUTH_CANCEL_AUTH, "E_RET_NOSERVER", "never"),
   USER_AUTH_GET_VERSION |-> Op(AuthMethods.USER_AUTH_GET_VERSION, "INVALID_PARAMETERS", "never")]

UserAuthNativeOps == UserAuthPropertyOps ++ UserAuthOps

Libraries == {"UserIDMClient", "UserIdm", "UserAuthNative"}

OpsOf == [UserIDMClient |-> UserIDMClientOps, UserIdm |-> UserIdmOps, UserAuthNative |-> UserAuthNativeOps]
=============================================================================
