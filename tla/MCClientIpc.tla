----------------------------- MODULE MCClientIpc -----------------------------
(***************************************************************************)
(* ClientIpc with two threads: one makes any call of the library, the      *)
(* other shares the proxy with it, and two instances of the service.       *)
(***************************************************************************)
EXTENDS ClientIpc, TLC

CONSTANTS r1, r2

MCOpsTried ==
  (r1 :> UNION {DOMAIN OpsOf[l] : l \in Libraries}) @@
  (r2 :> {"USERIDM_CLOSE_SESSION", "USERIDM_CANCEL_BY_ID", "USER_AUTH_GET_VERSION"})

\* A device that does it all, and one thing of it missing after another.
Able == [permitted |-> TRUE, account |-> TRUE, credential |-> TRUE, executor |-> "answers",
         values |-> {"AUTH_SUBTYPE", "AUTH_REMAIN_COUNT", "AUTH_REMAIN_TIME"}, level |-> 3]

MCWorlds ==
  {Able, [Able EXCEPT !.permitted = FALSE], [Able EXCEPT !.account = FALSE],
   [Able EXCEPT !.credential = FALSE], [Able EXCEPT !.executor = "none"],
   [Able EXCEPT !.executor = "fails"], [Able EXCEPT !.values = {"AUTH_SUBTYPE"}],
   [Able EXCEPT !.level = 1], [Able EXCEPT !.level = 0]}

MCKeySets == {{"AUTH_SUB_TYPE", "FREEZING_TIME"}, {"OTHER"}}
=============================================================================
