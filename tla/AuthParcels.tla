----------------------------- MODULE AuthParcels -----------------------------
(***************************************************************************)
(* The parcels of user_auth: UserAuthProxy and UserAuthStub, and the       *)
(* callback the service has in the application, UserAuthAsyncProxy and     *)
(* UserAuthAsyncStub.  These stubs check every read.                       *)
(***************************************************************************)
EXTENDS Parcels, Overlay

PropertyMethods ==
  [USER_AUTH_GET_AVAILABLE_STATUS |->
     Method(<<Word("authType"), Word("authTrustLevel")>>, "sync", <<Word("result")>>,
            "GENERAL_ERROR", "GENERAL_ERROR"),
   USER_AUTH_GET_PROPERTY |->
     Telling(Method(<<Word("authType"), Words("keys"), Remote("callback")>>, "async", <<>>,
                    "void", "void")),
   USER_AUTH_GET_PROPERTY_BY_ID |->
     Telling(Method(<<Word("userId"), Word("authType"), Words("keys"), Remote("callback")>>,
                    "async", <<>>, "void", "void")),
   USER_AUTH_SET_PROPERTY |->
     Telling(Method(<<Word("authType"), Word("key"), Bytes("setInfo"), Remote("callback")>>,
                    "async", <<>>, "void", "void"))]

AuthMethods ==
  [USER_AUTH_AUTH |->
     Method(<<Long("challenge"), Word("authType"), Word("authTrustLevel"), Remote("callback")>>,
            "sync", <<Long("contextId")>>, "0", "0"),
   USER_AUTH_AUTH_USER |->
     Method(<<Word("userId"), Long("challenge"), Word("authType"), Word("authTrustLevel"),
              Remote("callback")>>, "sync", <<Long("contextId")>>, "0", "0"),
   USER_AUTH_CANCEL_AUTH |->
     Method(<<Long("contextId")>>, "sync", <<Word("result")>>, "E_WRITE_PARCEL_ERROR", "IPC_ERROR"),
   USER_AUTH_GET_VERSION |->
     Method(<<>>, "sync", <<Word("result")>>, "GENERAL_ERROR", "IPC_ERROR")]

UserAuthMethods == PropertyMethods ++ AuthMethods

PropertyHandlers ==
  [USER_AUTH_GET_AVAILABLE_STATUS |->
     Handler(<<Word("authType"), Word("authTrustLevel")>>, "none", <<Word("result")>>, "SUCCESS"),
   USER_AUTH_GET_PROPERTY |->
     Handler(<<Word("authType"), Words("keys"), Remote("callback")>>, "E_READ_PARCEL_ERROR", <<>>,
             "SUCCESS"),
   USER_AUTH_GET_PROPERTY_BY_ID |->
     Handler(<<Word("userId"), Word("authType"), Words("keys"), Remote("callback")>>,
             "E_READ_PARCEL_ERROR", <<>>, "SUCCESS")]

SetPropertyHandler ==
  [USER_AUTH_SET_PROPERTY |->
     Handler(<<Word("authType"), Word("key"), Bytes("setInfo"), Remote("callback")>>,
             "E_READ_PARCEL_ERROR", <<>>, "SUCCESS")]

AuthHandlers ==
  [USER_AUTH_AUTH |->
     Handler(<<Long("challenge"), Word("authType"), Word("authTrustLevel"), Remote("callback")>>,
             "E_READ_PARCEL_ERROR", <<Long("contextId")>>, "SUCCESS"),
   USER_AUTH_AUTH_USER |->
     Handler(<<Word("userId"), Long("challenge"), Word("authType"), Word("authTrustLevel"),
               Remote("callback")>>, "E_READ_PARCEL_ERROR", <<Long("contextId")>>, "SUCCESS"),
   USER_AUTH_CANCEL_AUTH |->
     Handler(<<Long("contextId")>>, "none", <<Word("result")>>, "SUCCESS"),
   USER_AUTH_GET_VERSION |-> Handler(<<>>, "none", <<Word("result")>>, "SUCCESS")]

UserAuthHandlers == PropertyHandlers ++ SetPropertyHandler ++ AuthHandlers

(***************************************************************************)
(* The callback: the proxies read a result from the reply only to log it.  *)
(***************************************************************************)

AsyncMethods ==
  [USER_AUTH_ACQUIRE_INFO |->
     Method(<<Word("module"), Word("acquireInfo"), Word("extraInfo")>>, "sync", <<>>, "void", "void"),
   USER_AUTH_ON_RESULT |->
     Method(<<Word("result"), Bytes("token"), Word("remainTimes"), Word("freezingTime")>>,
            "sync", <<>>, "void", "void"),
   USER_AUTH_GET_EX_PROP |->
     Method(<<Word("result"), Long("authSubType"), Word("remainTimes"), Word("freezingTime")>>,
            "sync", <<>>, "void", "void"),
   USER_AUTH_SET_EX_PROP |-> Method(<<Word("result")>>, "sync", <<>>, "void", "void")]

AsyncHandlers ==
  [USER_AUTH_ACQUIRE_INFO |->
     Handler(<<Word("module"), Word("acquireInfo"), Word("extraInfo")>>, "none", <<>>, "SUCCESS"),
   USER_AUTH_ON_RESULT |->
     Handler(<<Word("result"), Bytes("token"), Word("remainTimes"), Word("freezingTime")>>, "none",
             <<>>, "SUCCESS"),
   USER_AUTH_GET_EX_PROP |->
     Handler(<<Word("result"), Long("authSubType"), Word("remainTimes"), Word("freezingTime")>>,
             "none", <<>>, "SUCCESS"),
   USER_AUTH_SET_EX_PROP |-> Handler(<<Word("result")>>, "none", <<>>, "SUCCESS")]
=============================================================================
