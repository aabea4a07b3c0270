--------------------------- MODULE PropertyServing ---------------------------
(***************************************************************************)
(* What services/user_auth answers a GetProperty, a SetProperty and a      *)
(* GetAvailableStatus: no state of its own, only what it finds in its      *)
(* world.  A world is a record                                             *)
(*   permitted   AccessTokenKit grants ACCESS_USER_AUTH_INTERNAL           *)
(*   account     the query for the active account finds one                *)
(*   credential  the device knows a credential of the user and type        *)
(*   executor    "none" registered, or it "fails" or "answers"             *)
(*   values      the attributes in its answer                              *)
(*   level       the trust level of the device, 0 on error                *)
(***************************************************************************)
EXTENDS Naturals

\* What is sent to the application, and through which method of its callback.
Sent(how, result) == [how |-> how, result |-> result]

\* The attribute each key of a request is read from.
AttributeOf(key) ==
  CASE key = "AUTH_SUB_TYPE" -> "AUTH_SUBTYPE"
    [] key = "REMAIN_TIMES"  -> "AUTH_REMAIN_COUNT"
    [] key = "FREEZING_TIME" -> "AUTH_REMAIN_TIME"

Keys == {"AUTH_SUB_TYPE", "REMAIN_TIMES", "FREEZING_TIME"}

\* UserAuthAdapter::GetEachExecutorProp
GetEachExecutorProp(keys, values) ==
  IF ~(keys \subseteq Keys) THEN "ERROR"
  ELSE IF \E k \in keys : AttributeOf(k) \notin values THEN "ERROR" ELSE "SUCCESS"

\* CoAuthManager::GetExecutorProp and SetExecutorProp: the executor's own answer.
ExecutorProp(world) ==
  CASE world.executor = "none"    -> "FAIL"
    [] world.executor = "fails"   -> "ERROR"
    [] world.executor = "answers" -> "SUCCESS"

\* UserAuthAdapter::GetExecutorProp, the result it puts in the property.
GetExecutorProp(world, keys) ==
  IF ExecutorProp(world) # "SUCCESS" THEN ExecutorProp(world)
  ELSE GetEachExecutorProp(keys, world.values)

\* UserAuthAdapter::GetPropAuthInfo and UserAuthCallbackImplIdmGetProp::OnGetInfo
GetPropAuthInfo(world, keys) ==
  Sent("onExecutorPropertyInfo", IF world.credential THEN GetExecutorProp(world, keys) ELSE "FAIL")

\* UserAuthService::GetProperty refuses through onResult.
GetProperty(world, keys, byId) ==
  IF ~world.permitted THEN Sent("onResult", "E_CHECK_PERMISSION_FAILED")
  ELSE IF ~byId /\ ~world.account THEN Sent("onResult", "FAIL")
  ELSE GetPropAuthInfo(world, keys)

\* UserAuthService::SetProperty; UserAuthAdapter::SetExecutorProp answers through
\* UserAuthCallbackImplSetProp.
SetProperty(world) ==
  IF ~world.permitted THEN Sent("onResult", "E_CHECK_PERMISSION_FAILED")
  ELSE Sent("onSetExecutorProperty", ExecutorProp(world))

\* UserAuthService::GetAvailableStatus, for a trust level that is asked for.
GetAvailableStatus(world, asked) ==
  IF ~world.permitted THEN "E_CHECK_PERMISSION_FAILED"
  ELSE IF asked \notin 1..4 THEN "TRUST_LEVEL_NOT_SUPPORT"
  ELSE IF ~world.account THEN "ERROR"
  ELSE IF world.level = 0 THEN "ERROR"
  ELSE IF world.level < asked THEN "TRUST_LEVEL_NOT_SUPPORT" ELSE "SUCCESS"
=============================================================================
