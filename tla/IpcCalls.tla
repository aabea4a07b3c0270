------------------------------- MODULE IpcCalls -------------------------------
(***************************************************************************)
(* One call through a proxy and its stub, for every method of the          *)
(* interfaces between the processes: the service (UserIDM, UserAuth,       *)
(* CoAuth), the callbacks it has in an application or an executor, and the *)
(* messenger an executor has in the service.  The method's tables are in   *)
(* IdmParcels, AuthParcels and CoAuthParcels.                              *)
(*                                                                         *)
(* Any write into a parcel may fail, the Binder may refuse the request,    *)
(* and the handler behind the stub succeeds or not.                        *)
(***************************************************************************)
EXTENDS IdmParcels, AuthParcels, CoAuthParcels, AuthAttributes

CONSTANTS
  MaxCredentials,  \* bound on the credentials of one OnGetInfo
  MaxSets,         \* bound on the SetXValue calls on one AuthAttributes
  Samples          \* the calls <<tag, type, value>> that are tried

ASSUME IpcAssumption ==
  /\ MaxCredentials \in Nat /\ MaxSets \in Nat
  /\ \A s \in Samples : s[1] \in Tags /\ IsValue(s[2], s[3])

VARIABLES
  phase,      \* "idle", "packing", "written", "sent", "handling", "served" or "over"
  attributes, \* the AuthAttributes the sender builds
  buffer,     \* the bytes Pack makes of it
  cursor,     \* how far the loop of Pack, or of Unpack, has come
  invocation, \* the call under way: its operation, and of OnGetInfo the length
  parcel,     \* the cells the proxy wrote
  args,       \* what the stub read
  unpacked,   \* the AuthAttributes the receiver unpacked
  verdict,    \* what the handler returned to its stub
  code,       \* what the stub returned to the Binder
  outcome     \* what the proxy returned to its caller

packVars == <<attributes, buffer, cursor>>
ipcVars == <<phase, packVars, invocation, parcel, args, unpacked, verdict, code, outcome>>

NoInvocation == [op |-> "none", n |-> 0]

FixedMethods ==
  IdmMethods ++ IdmCallbackMethods ++ UserAuthMethods ++ AsyncMethods ++ CoAuthMethods ++
  ReadyMethod ++ ExecuteMethods ++ ExecutorPropertyMethods ++ MessengerMethods ++ QueryResultMethod ++
  [ON_GET_SEC_INFO |-> OnGetSecInfoMethod]

FixedHandlers ==
  IdmHandlers ++ IdmCallbackHandlers ++ UserAuthHandlers ++ AsyncHandlers ++ CoAuthHandlers ++
  ExecutorHandlers ++ MessengerHandlers ++ QueryResultHandler ++
  [ON_GET_SEC_INFO |-> OnGetSecInfoHandler]

Invocations == [op : DOMAIN FixedMethods, n : {0}] \union [op : {"ON_GET_INFO"}, n : 0..MaxCredentials]

MethodOf(c)  == IF c.op = "ON_GET_INFO" THEN OnGetInfoMethod(c.n) ELSE FixedMethods[c.op]
HandlerOf(c) == IF c.op = "ON_GET_INFO" THEN OnGetInfoHandler(c.n) ELSE FixedHandlers[c.op]

Names(fields) == [i \in DOMAIN fields |-> fields[i].name]
ReadAll(cells, fields) == [i \in DOMAIN fields |-> ReadAt(cells, i, fields[i].shape)]

CarriesAttributes(c) == "attributes" \in ToSet(Names(MethodOf(c).fields))

IpcInit ==
  /\ phase = "idle"
  /\ attributes = Empty /\ unpacked = Empty /\ buffer = <<>> /\ cursor = 0
  /\ invocation = NoInvocation /\ parcel = <<>> /\ args = <<>>
  /\ verdict = "none" /\ code = "none" /\ outcome = "none"

(***************************************************************************)
(* The caller's process                                                    *)
(***************************************************************************)

\* The caller sets an attribute, again or with the type of another one included.
SetAttribute(s) ==
  /\ phase = "idle" /\ Len(attributes.exist) < MaxSets
  /\ attributes' = Set(attributes, s[1], s[2], s[3])
  /\ UNCHANGED <<phase, buffer, cursor, invocation, parcel, args, unpacked, verdict, code, outcome>>

\* The caller calls the proxy, which writes the parameters one after another.
Invoke(c) ==
  /\ phase = "idle" /\ attributes = Empty /\ ~CarriesAttributes(c)
  /\ phase' = "written" /\ invocation' = c
  /\ parcel' = MethodOf(c).fields
  /\ UNCHANGED <<packVars, args, unpacked, verdict, code, outcome>>

\* The proxy packs the attributes before it writes them.  Pack first sorts
\* existAttributes_, in place.
InvokePack(c) ==
  /\ phase = "idle" /\ CarriesAttributes(c)
  /\ phase' = "packing" /\ invocation' = c
  /\ \E order \in Bijection(DOMAIN attributes.exist, DOMAIN attributes.exist) :
       LET sorted == [i \in DOMAIN attributes.exist |-> attributes.exist[order[i]]] IN
       /\ \A i, j \in DOMAIN sorted : i < j => sorted[i] <= sorted[j]
       /\ attributes' = [values |-> attributes.values, exist |-> sorted]
  /\ UNCHANGED <<buffer, cursor, parcel, args, unpacked, verdict, code, outcome>>

\* The loop of Pack: the signature is left for the end.
PackAttribute ==
  /\ phase = "packing" /\ cursor < Len(attributes.exist)
  /\ cursor' = cursor + 1
  /\ LET t == attributes.exist[cursor + 1] IN
     buffer' = IF t = AUTH_SIGNATURE THEN buffer ELSE buffer \o Field(attributes, t)
  /\ UNCHANGED <<phase, attributes, invocation, parcel, args, unpacked, verdict, code, outcome>>

\* The end of Pack, and the parameters are written.
PackEnds ==
  /\ phase = "packing" /\ cursor = Len(attributes.exist)
  /\ phase' = "written"
  /\ buffer' = Enclosed(attributes, buffer)
  /\ parcel' = MethodOf(invocation).fields
  /\ UNCHANGED <<attributes, cursor, invocation, args, unpacked, verdict, code, outcome>>

\* A write fails: the request is not sent.
InvokeFails(c) ==
  /\ phase = "idle" /\ attributes = Empty
  /\ phase' = "over" /\ invocation' = c
  /\ outcome' = MethodOf(c).unwritten
  /\ UNCHANGED <<packVars, parcel, args, unpacked, verdict, code>>

\* SendRequest: a TF_ASYNC one returns at once, and a method that reads the reply
\* nobody has written finds zero there, which is SUCCESS.
SendRequest ==
  /\ phase = "written"
  /\ phase' = "sent"
  /\ IF MethodOf(invocation).mode = "sync" THEN UNCHANGED outcome
     ELSE outcome' = IF MethodOf(invocation).reply = <<>> THEN "void" ELSE "SUCCESS"
  /\ UNCHANGED <<packVars, invocation, parcel, args, unpacked, verdict, code>>

\* SendRequest refuses the parcel.
SendRequestFails ==
  /\ phase = "written"
  /\ phase' = "over"
  /\ outcome' = MethodOf(invocation).unsent
  /\ UNCHANGED <<packVars, invocation, parcel, args, unpacked, verdict, code>>

\* A TF_SYNC SendRequest returns with the stub's code, and the proxy reads the reply.
ProxyReturns ==
  LET method == MethodOf(invocation) IN
  /\ phase = "served" /\ method.mode = "sync"
  /\ phase' = "over"
  /\ outcome' = IF code # "SUCCESS" THEN method.unsent
                 ELSE IF method.reply = <<>> THEN "void" ELSE verdict
  /\ UNCHANGED <<packVars, invocation, parcel, args, unpacked, verdict, code>>

(***************************************************************************)
(* The stub's process                                                      *)
(***************************************************************************)

\* OnRemoteRequest: the stub reads its parameters and gives up when no callback is
\* among them.  Unpack skips the root and the data headers; an empty buffer has
\* nothing behind them.
ReadRequest ==
  LET handler == HandlerOf(invocation)
      read    == ReadAll(parcel, handler.fields)
      orphan  == \E i \in DOMAIN read : handler.fields[i].shape = "remote" /\ read[i] = Garbled
  IN
  /\ phase = "sent"
  /\ args' = read
  /\ cursor' = 16
  /\ IF orphan THEN phase' = "served" /\ code' = handler.orphan
     ELSE phase' = "handling" /\ UNCHANGED code
  /\ UNCHANGED <<attributes, buffer, invocation, parcel, unpacked, verdict, outcome>>

\* The loop of Unpack: an attribute that fails the length check ends it, and an
\* array of no bytes is not set.
UnpackAttribute ==
  LET tag    == WordAt(buffer, cursor)
      length == WordAt(buffer, cursor + 4)
      type   == Position[tag]
  IN
  /\ phase = "handling" /\ cursor < Len(buffer)
  /\ IF CheckLengthPass(type, cursor + 8, length, Len(buffer))
     THEN /\ cursor' = cursor + 8 + length
          /\ unpacked' = IF type = "uint8s" /\ length = 0 THEN unpacked
                         ELSE Set(unpacked, tag, type, Value(type, buffer, cursor + 8, length))
     ELSE cursor' = Len(buffer) /\ UNCHANGED unpacked
  /\ UNCHANGED <<phase, attributes, buffer, invocation, parcel, args, verdict, code, outcome>>

\* The stub calls the handler and writes its result.
Serve(result) ==
  /\ phase = "handling" /\ cursor >= Len(buffer)
  /\ phase' = "served"
  /\ verdict' = result
  /\ code' = IF HandlerOf(invocation).code = "ret" THEN result ELSE "SUCCESS"
  /\ UNCHANGED <<packVars, invocation, parcel, args, unpacked, outcome>>

\* The handler has been called and its result cannot be written into the reply.
WriteReplyFails(result) ==
  /\ phase = "handling" /\ cursor >= Len(buffer) /\ HandlerOf(invocation).reply # <<>>
  /\ phase' = "served"
  /\ verdict' = result /\ code' = "FAIL"
  /\ UNCHANGED <<packVars, invocation, parcel, args, unpacked, outcome>>

Done == phase \in {"served", "over"} /\ outcome # "none" /\ UNCHANGED ipcVars

IpcNext ==
  \/ \E s \in Samples : SetAttribute(s)
  \/ \E c \in Invocations : Invoke(c) \/ InvokePack(c) \/ InvokeFails(c)
  \/ PackAttribute \/ PackEnds
  \/ SendRequest \/ SendRequestFails \/ ProxyReturns
  \/ ReadRequest \/ UnpackAttribute
  \/ \E result \in {"SUCCESS", "ERROR"} : Serve(result) \/ WriteReplyFails(result)
  \/ Done

IpcSpec == IpcInit /\ [][IpcNext]_ipcVars

(***************************************************************************)
(* Properties                                                              *)
(***************************************************************************)

\* A stub reads by position what the proxy wrote by position, in another file and
\* with no name or type in the parcel: every handler gets each parameter its
\* caller gave, whole lists included.
StubReadsWhatProxyWrote ==
  phase = "served" => args = Names(MethodOf(invocation).fields)

\* What the proxy returns is what the service did.  Success: but for three calls
\* that say so whatever happens, EnforceDelUser, which reads the reply of a TF_ASYNC
\* call (useridm_proxy.cpp:392), and the executor's two messages, which return
\* SUCCESS when SendRequest fails (executor_messenger_proxy.cpp:32 and 93).  An
\* error that could be written into the reply: but for UserIDM's two Cancels, whose
\* stubs return it to the Binder as well, which drops the reply
\* (useridm_stub.cpp:247 and 259).
ReturnIsTrue ==
  /\ outcome = "SUCCESS" =>
       verdict = "SUCCESS" \/ invocation.op \in {"USERIDM_ENFORCE_DELUSER", "COAUTH_SEND_DATA", "COAUTH_FINISH"}
  /\ phase = "over" /\ verdict = "ERROR" /\ code # "FAIL" /\ outcome # "void" =>
       outcome = "ERROR" \/ invocation.op \in {"USERIDM_CANCEL", "USERIDM_CANCEL_BY_ID"}

\* Unpack gives the receiver every attribute that was set, the last value of one
\* that was set twice and nothing that was not, but for an empty byte array, which
\* is gone (auth_attributes.cpp:238).
AttributesArrive ==
  phase = "served" /\ CarriesAttributes(invocation) /\ verdict # "none" =>
    \A t \in Tags :
      Get(unpacked, t) = IF Position[t] = "uint8s" /\ Get(attributes, t) = <<>> THEN Missing
                         ELSE Get(attributes, t)
=============================================================================
