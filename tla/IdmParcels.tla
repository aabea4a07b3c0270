----------------------------- MODULE IdmParcels ------------------------------
(***************************************************************************)
(* The parcels of user_idm: UserIDMProxy and UserIDMStub, and the three    *)
(* callbacks the service has in the application.                           *)
(***************************************************************************)
EXTENDS Parcels, Overlay

UserId   == <<Word("userId")>>
Callback == <<Remote("callback")>>

(***************************************************************************)
(* UserIDMProxy                                                            *)
(***************************************************************************)

SessionMethods ==
  [USERIDM_OPEN_SESSION        |-> Method(<<>>, "sync", <<Long("challenge")>>, "FAIL", "0"),
   USERIDM_OPEN_SESSION_BY_ID  |-> Method(UserId, "sync", <<Long("challenge")>>, "FAIL", "0"),
   USERIDM_CLOSE_SESSION       |-> Method(<<>>, "sync", <<>>, "void", "void"),
   USERIDM_CLOSE_SESSION_BY_ID |-> Method(UserId, "sync", <<>>, "void", "void")]

\* Mutants of QueryMethods: a query that does not wait for its reply, and one that
\* its proxy answers too.
QueryMethodsAsync ==
  [USERIDM_GET_AUTH_INFO |->
     Method(<<Word("authType")>> \o Callback, "async", <<Word("result")>>, "FAIL", "FAIL")]

QueryMethodsTell ==
  [name \in {"USERIDM_GET_AUTH_INFO", "USERIDM_GET_AUTH_INFO_BY_ID", "USERIDM_GET_SEC_INFO"} |->
     Telling(Method(<<Word("authType")>> \o Callback, "sync", <<Word("result")>>, "FAIL", "FAIL"))]

QueryMethods ==
  [USERIDM_GET_AUTH_INFO |->
     Method(<<Word("authType")>> \o Callback, "sync", <<Word("result")>>, "FAIL", "FAIL"),
   USERIDM_GET_AUTH_INFO_BY_ID |->
     Telling(Method(UserId \o <<Word("authType")>> \o Callback, "sync", <<Word("result")>>, "FAIL", "FAIL")),
   USERIDM_GET_SEC_INFO |->
     Telling(Method(UserId \o Callback, "sync", <<Word("result")>>, "FAIL", "FAIL"))]

\* How AddCredential and UpdateCredential write an AddCredInfo.
CredInfoFields == <<Word("authType"), Long("authSubType"), Bytes("token")>>

EnrolMethods ==
  [USERIDM_ADD_CREDENTIAL |-> Method(CredInfoFields \o Callback, "async", <<>>, "void", "void"),
   USERIDM_ADD_CREDENTIAL_BY_ID |->
     Telling(Method(UserId \o CredInfoFields \o Callback, "async", <<>>, "void", "void")),
   USERIDM_UPDATE_CREDENTIAL |-> Method(CredInfoFields \o Callback, "async", <<>>, "void", "void"),
   USERIDM_UPDATE_CREDENTIAL_BY_ID |->
     Telling(Method(UserId \o CredInfoFields \o Callback, "async", <<>>, "void", "void"))]

CancelMethods ==
  [USERIDM_CANCEL       |-> Method(<<Long("challenge")>>, "sync", <<Word("result")>>, "FAIL", "FAIL"),
   USERIDM_CANCEL_BY_ID |-> Method(UserId, "sync", <<Word("result")>>, "FAIL", "FAIL")]

\* EnforceDelUser reads the reply of a call that does not wait for one.
DeleteMethods ==
  [USERIDM_ENFORCE_DELUSER |->
     Telling(Method(UserId \o Callback, "async", <<Word("result")>>, "FAIL", "FAIL")),
   USERIDM_DELUSER |-> Method(<<Bytes("token")>> \o Callback, "async", <<>>, "void", "void"),
   USERIDM_DELUSER_BY_ID |->
     Telling(Method(UserId \o <<Bytes("token")>> \o Callback, "async", <<>>, "void", "void")),
   USERIDM_DELCRED |->
     Method(<<Long("credentialId"), Bytes("token")>> \o Callback, "async", <<>>, "void", "void"),
   USERIDM_DELCREDENTIAL |->
     Telling(Method(UserId \o <<Long("credentialId"), Bytes("token")>> \o Callback,
                    "async", <<>>, "void", "void"))]

IdmMethods == SessionMethods ++ QueryMethods ++ EnrolMethods ++ CancelMethods ++ DeleteMethods

(***************************************************************************)
(* UserIDMStub                                                             *)
(***************************************************************************)

SessionHandlers ==
  [USERIDM_OPEN_SESSION        |-> Handler(<<>>, "none", <<Long("challenge")>>, "SUCCESS"),
   USERIDM_OPEN_SESSION_BY_ID  |-> Handler(UserId, "none", <<Long("challenge")>>, "SUCCESS"),
   USERIDM_CLOSE_SESSION       |-> Handler(<<>>, "none", <<>>, "SUCCESS"),
   USERIDM_CLOSE_SESSION_BY_ID |-> Handler(UserId, "none", <<>>, "SUCCESS")]

QueryHandlers ==
  [USERIDM_GET_AUTH_INFO |->
     Handler(<<Word("authType")>> \o Callback, "ERR_INVALID_VALUE", <<Word("result")>>, "SUCCESS"),
   USERIDM_GET_AUTH_INFO_BY_ID |->
     Handler(UserId \o <<Word("authType")>> \o Callback, "ERR_INVALID_VALUE", <<Word("result")>>, "SUCCESS"),
   USERIDM_GET_SEC_INFO |->
     Handler(UserId \o Callback, "ERR_INVALID_VALUE", <<Word("result")>>, "SUCCESS")]

\* A mutant: the stub reads the token before the sub-type.
CredInfoReadsSwapped == <<Word("authType"), Bytes("token"), Long("authSubType")>>

\* How the four stubs of an enrolment read it back.
CredInfoReads == <<Word("authType"), Long("authSubType"), Bytes("token")>>

EnrolHandlers ==
  [USERIDM_ADD_CREDENTIAL          |-> Handler(CredInfoReads \o Callback, "FAIL", <<>>, "SUCCESS"),
   USERIDM_ADD_CREDENTIAL_BY_ID    |-> Handler(UserId \o CredInfoReads \o Callback, "FAIL", <<>>, "SUCCESS"),
   USERIDM_UPDATE_CREDENTIAL       |-> Handler(CredInfoReads \o Callback, "FAIL", <<>>, "SUCCESS"),
   USERIDM_UPDATE_CREDENTIAL_BY_ID |-> Handler(UserId \o CredInfoReads \o Callback, "FAIL", <<>>, "SUCCESS")]

\* These three return what the service returned, not that the call arrived.
CancelHandlers ==
  [USERIDM_CANCEL          |-> Handler(<<Long("challenge")>>, "none", <<Word("result")>>, "ret"),
   USERIDM_CANCEL_BY_ID    |-> Handler(UserId, "none", <<Word("result")>>, "ret"),
   USERIDM_ENFORCE_DELUSER |-> Handler(UserId \o Callback, "FAIL", <<Word("result")>>, "ret")]

DeleteHandlers ==
  [USERIDM_DELUSER       |-> Handler(<<Bytes("token")>> \o Callback, "FAIL", <<>>, "SUCCESS"),
   USERIDM_DELUSER_BY_ID |-> Handler(UserId \o <<Bytes("token")>> \o Callback, "FAIL", <<>>, "SUCCESS"),
   USERIDM_DELCRED       |->
     Handler(<<Long("credentialId"), Bytes("token")>> \o Callback, "FAIL", <<>>, "SUCCESS"),
   USERIDM_DELCREDENTIAL |->
     Handler(UserId \o <<Long("credentialId"), Bytes("token")>> \o Callback, "FAIL", <<>>, "SUCCESS")]

IdmHandlers == SessionHandlers ++ QueryHandlers ++ EnrolHandlers ++ CancelHandlers ++ DeleteHandlers

(***************************************************************************)
(* The callbacks: IIDMCallback, IGetInfoCallback, IGetSecInfoCallback      *)
(***************************************************************************)

\* The proxies read a result from the reply only to log it.
IdmCallbackMethods ==
  [IDM_CALLBACK_ON_RESULT |->
     Method(<<Word("result"), Long("credentialId")>>, "sync", <<>>, "void", "void"),
   IDM_CALLBACK_ON_ACQUIRE_INFO |->
     Method(<<Word("module"), Word("acquire"), Long("credentialId")>>, "sync", <<>>, "void", "void")]

IdmCallbackHandlers ==
  [IDM_CALLBACK_ON_RESULT |->
     Handler(<<Word("result"), Long("credentialId")>>, "none", <<>>, "SUCCESS"),
   IDM_CALLBACK_ON_ACQUIRE_INFO |->
     Handler(<<Word("module"), Word("acquire"), Long("credentialId")>>, "none", <<>>, "SUCCESS")]

(***************************************************************************)
(* OnGetInfo writes the number of credentials and then each of them: a     *)
(* field is named with the place of its credential.                        *)
(***************************************************************************)

CredentialFields(i) ==
  <<Long(<<"credentialId", i>>), Word(<<"authType", i>>), Long(<<"authSubType", i>>),
    Long(<<"templateId", i>>)>>

OnGetInfoMethod(n) ==
  Method(<<Word("n")>> \o [f \in 1..(4 * n) |-> CredentialFields(((f - 1) \div 4) + 1)[((f - 1) % 4) + 1]],
         "sync", <<>>, "void", "void")

CredentialReads(i) ==
  <<Long(<<"credentialId", i>>), Word(<<"authType", i>>), Long(<<"authSubType", i>>),
    Long(<<"templateId", i>>)>>

\* The stub reads as many credentials as the first word says.
OnGetInfoHandler(n) ==
  Handler(<<Word("n")>> \o [f \in 1..(4 * n) |-> CredentialReads(((f - 1) \div 4) + 1)[((f - 1) % 4) + 1]],
          "none", <<>>, "SUCCESS")

\* Of a SecInfo, OnGetSecInfo writes the length of the list but not the list.
OnGetSecInfoMethod ==
  Method(<<Long("secureUid"), Word("enrolledInfoLen")>>, "sync", <<>>, "void", "void")

OnGetSecInfoHandler ==
  Handler(<<Long("secureUid"), Word("enrolledInfoLen")>>, "none", <<>>, "SUCCESS")
=============================================================================
