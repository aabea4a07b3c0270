---------------------------- MODULE CoAuthParcels ----------------------------
(***************************************************************************)
(* The parcels of co_auth: CoAuthProxy and CoAuthStub, the callbacks the   *)
(* service has in an executor's process and in a querying one, and the     *)
(* ExecutorMessenger the executor has in the service.                      *)
(***************************************************************************)
EXTENDS Parcels

\* WriteAuthExecutor, from the getters of AuthExecutor.
AuthExecutorFields ==
  <<Word("authType"), Long("authAbility"), Word("executorSecLevel"), Word("executorType"),
    Bytes("publicKey"), Bytes("deviceId")>>

CoAuthMethods ==
  [COAUTH_EXECUTOR_REGIST |->
     Method(AuthExecutorFields \o <<Remote("callback")>>, "sync", <<Long("executorId")>>, "0", "0"),
   COAUTH_QUERY_STATUS |->
     Method(AuthExecutorFields \o <<Remote("callback")>>, "async", <<>>, "void", "void")]

\* ReadAuthExecutor, into the setters of AuthExecutor.
AuthExecutorReads ==
  <<Word("authType"), Long("authAbility"), Word("executorSecLevel"), Word("executorType"),
    Bytes("publicKey"), Bytes("deviceId")>>

CoAuthHandlers ==
  [COAUTH_EXECUTOR_REGIST |->
     Handler(AuthExecutorReads \o <<Remote("callback")>>, "FAIL", <<Long("executorId")>>, "SUCCESS"),
   COAUTH_QUERY_STATUS |->
     Handler(AuthExecutorReads \o <<Remote("callback")>>, "FAIL", <<>>, "SUCCESS")]

(***************************************************************************)
(* ExecutorCallbackProxy and ExecutorCallbackStub: an AuthAttributes goes  *)
(* as the vector that Pack makes of it.                                    *)
(***************************************************************************)

ReadyMethod ==
  [ON_MESSENGER_READY |->
     Method(<<Remote("messenger"), Bytes("publicKey"), Longs("templateIds")>>, "sync", <<>>,
            "void", "void")]

ExecuteMethods ==
  [ON_BEGIN_EXECUTE |->
     Method(<<Long("scheduleId"), Bytes("publicKey"), Bytes("attributes")>>, "sync",
            <<Word("result")>>, "FAIL", "FAIL"),
   ON_END_EXECUTE |->
     Method(<<Long("scheduleId"), Bytes("attributes")>>, "sync", <<Word("result")>>, "FAIL", "FAIL")]

\* OnGetProperty also unpacks the values in the reply.
ExecutorPropertyMethods ==
  [ON_SET_PROPERTY |-> Method(<<Bytes("attributes")>>, "sync", <<Word("result")>>, "FAIL", "FAIL"),
   ON_GET_PROPERTY |->
     Method(<<Bytes("attributes")>>, "sync", <<Word("result"), Bytes("values")>>, "FAIL", "FAIL")]

ExecutorHandlers ==
  [ON_MESSENGER_READY |->
     Handler(<<Remote("messenger"), Bytes("publicKey"), Longs("templateIds")>>, "FAIL", <<>>, "SUCCESS"),
   ON_BEGIN_EXECUTE |->
     Handler(<<Long("scheduleId"), Bytes("publicKey"), Bytes("attributes")>>, "none",
             <<Word("result")>>, "SUCCESS"),
   ON_END_EXECUTE |->
     Handler(<<Long("scheduleId"), Bytes("attributes")>>, "none", <<Word("result")>>, "SUCCESS"),
   ON_SET_PROPERTY |-> Handler(<<Bytes("attributes")>>, "none", <<Word("result")>>, "SUCCESS"),
   ON_GET_PROPERTY |->
     Handler(<<Bytes("attributes")>>, "none", <<Word("result"), Bytes("values")>>, "SUCCESS")]

(***************************************************************************)
(* ExecutorMessengerProxy and ExecutorMessengerStub, and the query result. *)
(* A call of the messenger that does not arrive returns SUCCESS.           *)
(***************************************************************************)

MessengerMethods ==
  [COAUTH_SEND_DATA |->
     Method(<<Long("scheduleId"), Long("transNum"), Word("srcType"), Word("dstType"), Bytes("msg")>>,
            "sync", <<Word("result")>>, "FAIL", "SUCCESS"),
   COAUTH_FINISH |->
     Method(<<Long("scheduleId"), Word("srcType"), Word("resultCode"), Bytes("attributes")>>,
            "sync", <<Word("result")>>, "FAIL", "SUCCESS")]

MessengerHandlers ==
  [COAUTH_SEND_DATA |->
     Handler(<<Long("scheduleId"), Long("transNum"), Word("srcType"), Word("dstType"), Bytes("msg")>>,
             "none", <<Word("result")>>, "SUCCESS"),
   COAUTH_FINISH |->
     Handler(<<Long("scheduleId"), Word("srcType"), Word("resultCode"), Bytes("attributes")>>,
             "none", <<Word("result")>>, "SUCCESS")]

QueryResultMethod ==
  [COAUTH_QUERY_RESULT |-> Method(<<Word("resultCode")>>, "sync", <<>>, "void", "void")]

QueryResultHandler ==
  [COAUTH_QUERY_RESULT |-> Handler(<<Word("resultCode")>>, "none", <<>>, "SUCCESS")]
=============================================================================
