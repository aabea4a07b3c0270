------------------------------ MODULE ClientIpc ------------------------------
(***************************************************************************)
(* A client library in an application and the service it calls: the proxy  *)
(* the library caches, the death notice that makes it drop the proxy, the  *)
(* calls of the application's threads, and the calls the service makes on  *)
(* the application's callbacks.  The service's process may die and a new   *)
(* one take its place at any time; its instances are numbered.             *)
(*                                                                         *)
(* What a service does with an enrolment, a deletion or an authentication  *)
(* is the subject of UserIdm and UserAuth; here it is the number of times  *)
(* the callback is called.  The queries are served as the code does.       *)
(***************************************************************************)
EXTENDS ClientCalls, PropertyServing, FiniteSets

CONSTANTS
  Requests,   \* one call each, on a thread of its own
  OpsTried,   \* OpsTried[r]: the operations request r may be
  Worlds,     \* what the service may find (module PropertyServing)
  KeySets,    \* the keys of a GetProperty
  MaxAnswers, \* bound on the answers of one deletion, enrolment or authentication
  MaxDeaths,  \* bound on the deaths of the service
  NoService, Free

ASSUME ClientAssumption ==
  /\ MaxDeaths \in Nat /\ MaxAnswers \in Nat \ {0}
  /\ NoService \notin 1..(MaxDeaths + 1)
  /\ Free \notin Requests

VARIABLES
  library,  \* which of the three libraries this is
  service,  \* the instance of the service that runs, or NoService
  deaths,   \* how many instances have died
  proxy,    \* proxy_: the instance it is for, or NoService
  lock,     \* mutex_: the request that holds it, or Free
  watched,  \* the instances whose death recipient is registered
  notices,  \* OnRemoteDied calls that are due
  pc,       \* pc[r]: where the thread of request r is
  call,     \* call[r]: the operation and its arguments
  target,   \* target[r]: the instance GetProxy found
  serving,  \* serving[r]: what the service still does for it
  message,  \* message[r]: the calls of the callback the service is about to make
  reply,    \* reply[r]: what the stub writes into the reply
  told,     \* told[r]: what the application's callback was given
  returned  \* returned[r]: what the library returned

clientVars == <<library, proxy, lock, watched>>
requestVars == <<pc, call, target, told, returned>>
serviceVars == <<serving, message, reply>>
vars == <<library, service, deaths, proxy, lock, watched, notices, pc, call, target, serving, message,
          reply, told, returned>>

Services == 1..(MaxDeaths + 1)

NoCall == [op |-> "none", keys |-> {}, surface |-> FALSE, asked |-> 1]

Op(r) == OpsOf[library][call[r].op]

PropertyQueries == {"USER_AUTH_GET_PROPERTY", "USER_AUTH_GET_PROPERTY_BY_ID"}
Queries == {"USERIDM_GET_AUTH_INFO", "USERIDM_GET_AUTH_INFO_BY_ID", "USERIDM_GET_SEC_INFO"}
Enrolments == {"USERIDM_ADD_CREDENTIAL", "USERIDM_ADD_CREDENTIAL_BY_ID", "USERIDM_UPDATE_CREDENTIAL",
               "USERIDM_UPDATE_CREDENTIAL_BY_ID"}
Authentications == {"USER_AUTH_AUTH", "USER_AUTH_AUTH_USER"}
UserDeletions == {"USERIDM_DELUSER", "USERIDM_DELUSER_BY_ID", "USERIDM_ENFORCE_DELUSER"}
CredDeletions == {"USERIDM_DELCRED", "USERIDM_DELCREDENTIAL"}

\* The operations that are given a callback.
WithCallback == PropertyQueries \union Queries \union Enrolments \union Authentications \union
                UserDeletions \union CredDeletions \union {"USER_AUTH_SET_PROPERTY"}

\* The method of the application's callback an operation's answers come through.
CallbackOf(op) ==
  IF op \in PropertyQueries THEN "onExecutorPropertyInfo"
  ELSE IF op = "USER_AUTH_SET_PROPERTY" THEN "onSetExecutorProperty" ELSE "onResult"

TypeOK ==
  /\ library \in Libraries
  /\ service \in Services \union {NoService} /\ deaths \in 0..MaxDeaths
  /\ service # NoService => service = deaths + 1
  /\ proxy \in Services \union {NoService}
  /\ lock \in Requests \union {Free}
  /\ watched \subseteq Services /\ notices \subseteq Services
  /\ pc \in [Requests -> {"idle", "lock", "check", "watch", "store", "ready", "wait", "over"}]
  /\ target \in [Requests -> Services \union {NoService}]

Init ==
  /\ library \in Libraries
  /\ service = NoService /\ deaths = 0 /\ proxy = NoService /\ lock = Free
  /\ watched = {} /\ notices = {}
  /\ pc = [r \in Requests |-> "idle"]
  /\ call = [r \in Requests |-> NoCall]
  /\ target = [r \in Requests |-> NoService]
  /\ serving = [r \in Requests |-> "none"]
  /\ message = [r \in Requests |-> <<>>]
  /\ reply = [r \in Requests |-> "none"]
  /\ told = [r \in Requests |-> <<>>]
  /\ returned = [r \in Requests |-> "none"]

Goto(r, label) == pc' = [pc EXCEPT ![r] = label]
Tell(r, result) == told' = [told EXCEPT ![r] = Append(@, result)]

\* The library's function ends; it calls the callback itself if "tells".
End(r, value, tells, result) ==
  /\ Goto(r, "over")
  /\ returned' = [returned EXCEPT ![r] = value]
  /\ IF tells THEN Tell(r, result) ELSE UNCHANGED told

(***************************************************************************)
(* The application's thread                                                *)
(***************************************************************************)

Calls(op) ==
  [op : {op}, keys : IF op \in PropertyQueries THEN KeySets ELSE {{}},
   surface : IF op = "USER_AUTH_SET_PROPERTY" THEN BOOLEAN ELSE {FALSE},
   asked : IF op = "USER_AUTH_GET_AVAILABLE_STATUS" THEN {2, 5} ELSE {1}]

Begin(r) ==
  /\ pc[r] = "idle"
  /\ \E op \in OpsTried[r] \intersect DOMAIN OpsOf[library] : \E c \in Calls(op) :
       call' = [call EXCEPT ![r] = c]
  /\ Goto(r, "lock")
  /\ UNCHANGED <<service, deaths, clientVars, notices, target, serviceVars, told, returned>>

\* Without a callback nothing is called and nothing asked.
NullCallback(r) ==
  /\ pc[r] = "idle"
  /\ \E op \in OpsTried[r] \intersect DOMAIN OpsOf[library] \intersect WithCallback :
       End(r, IF OpsOf[library][op].method.unsent = "void" THEN "void" ELSE "INVALID_PARAMETERS", FALSE, "")
  /\ UNCHANGED <<service, deaths, clientVars, notices, call, target, serviceVars>>

\* GetProxy, under mutex_: the cached proxy if there is one.
GetProxy(r) ==
  /\ pc[r] = "lock" /\ lock = Free
  /\ IF proxy # NoService THEN /\ target' = [target EXCEPT ![r] = proxy]
                               /\ Goto(r, "ready") /\ UNCHANGED lock
                          ELSE /\ lock' = r
                               /\ Goto(r, "check") /\ UNCHANGED target
  /\ UNCHANGED <<library, service, deaths, proxy, watched, notices, call, serviceVars, told, returned>>

\* A mutant: the early return leaves the mutex locked.
NoProxyKeepsLock(r) ==
  UNCHANGED lock /\ End(r, Op(r).noServer, Op(r).noServerTells, "E_RET_NOSERVER")

\* GetProxy returns nullptr: the operation's own way to say so.
NoProxy(r) ==
  /\ lock' = Free
  /\ End(r, Op(r).noServer, Op(r).noServerTells, "E_RET_NOSERVER")

CheckSystemAbility(r) ==
  /\ pc[r] = "check"
  /\ IF service = NoService THEN NoProxy(r) /\ UNCHANGED target
     ELSE /\ target' = [target EXCEPT ![r] = service]
          /\ Goto(r, "watch") /\ UNCHANGED <<lock, told, returned>>
  /\ UNCHANGED <<library, service, deaths, proxy, watched, notices, call, serviceVars>>

\* The service may have died since: then there is nothing to watch.
AddDeathRecipient(r) ==
  /\ pc[r] = "watch"
  /\ IF target[r] = service
     THEN /\ watched' = watched \union {target[r]}
          /\ Goto(r, "store") /\ UNCHANGED <<lock, told, returned>>
     ELSE NoProxy(r) /\ UNCHANGED watched
  /\ UNCHANGED <<library, service, deaths, proxy, notices, call, target, serviceVars>>

StoreProxy(r) ==
  /\ pc[r] = "store"
  /\ proxy' = target[r] /\ lock' = Free
  /\ Goto(r, "ready")
  /\ UNCHANGED <<library, service, deaths, watched, notices, call, target, serviceVars, told, returned>>

\* No memory for the callback's stub.
NoStub(r) ==
  /\ pc[r] = "ready" /\ call[r].op \in WithCallback /\ Op(r).nostub # "never"
  /\ End(r, Op(r).nostub, Op(r).apologises, "GENERAL_ERROR")
  /\ UNCHANGED <<service, deaths, clientVars, notices, call, target, serviceVars>>

\* A surface for the face executor is set in this process, by SetSurfaceId.
SetSurfaceId(r) ==
  /\ pc[r] = "ready" /\ call[r].surface
  /\ \E result \in {"SUCCESS", "GENERAL_ERROR"} : End(r, "void", TRUE, result)
  /\ UNCHANGED <<service, deaths, clientVars, notices, call, target, serviceVars>>

WriteFails(r) ==
  /\ pc[r] = "ready" /\ ~call[r].surface
  /\ End(r, Op(r).method.unwritten, FALSE, "")
  /\ UNCHANGED <<service, deaths, clientVars, notices, call, target, serviceVars>>

Unsent(r) == End(r, Op(r).method.unsent, Op(r).method.tells, "FAIL")

\* SendRequest: TF_ASYNC returns at once, TF_SYNC waits for the reply.
Send(r) ==
  /\ pc[r] = "ready" /\ ~call[r].surface /\ target[r] = service
  /\ serving' = [serving EXCEPT ![r] = "asked"]
  /\ IF Op(r).method.mode = "async" THEN End(r, IF Op(r).method.reply = <<>> THEN "void" ELSE "SUCCESS", FALSE, "")
     ELSE Goto(r, "wait") /\ UNCHANGED <<told, returned>>
  /\ UNCHANGED <<service, deaths, clientVars, notices, call, target, message, reply>>

SendFails(r) ==
  /\ pc[r] = "ready" /\ ~call[r].surface /\ target[r] # service
  /\ Unsent(r)
  /\ UNCHANGED <<service, deaths, clientVars, notices, call, target, serviceVars>>

\* The reply, or the error that the service died.
Return(r) ==
  /\ pc[r] = "wait"
  /\ \/ /\ serving[r] \in {"later", "done"}
        /\ End(r, IF Op(r).method.reply = <<>> THEN "void" ELSE reply[r], FALSE, "")
     \/ serving[r] = "died" /\ Unsent(r)
  /\ UNCHANGED <<service, deaths, clientVars, notices, call, target, serviceVars>>

(***************************************************************************)
(* Death and restart                                                       *)
(***************************************************************************)

\* A mutant: the reset does not wait for the mutex.
ResetProxyUnlocked(g) ==
  /\ g \in notices
  /\ notices' = notices \ {g}
  /\ IF proxy = g THEN proxy' = NoService /\ watched' = watched \ {g}
     ELSE UNCHANGED <<proxy, watched>>
  /\ UNCHANGED <<library, service, deaths, lock, requestVars, serviceVars>>

\* OnRemoteDied and ResetProxy, under mutex_: only the proxy of the dead instance.
ResetProxy(g) ==
  /\ g \in notices /\ lock = Free
  /\ notices' = notices \ {g}
  /\ IF proxy = g THEN proxy' = NoService /\ watched' = watched \ {g}
     ELSE UNCHANGED <<proxy, watched>>
  /\ UNCHANGED <<library, service, deaths, lock, requestVars, serviceVars>>

Start ==
  /\ service = NoService
  /\ service' = deaths + 1
  /\ UNCHANGED <<deaths, clientVars, notices, requestVars, serviceVars>>

\* Every request it has is lost, and the Binder tells who watches.
Die ==
  /\ service # NoService /\ deaths < MaxDeaths
  /\ deaths' = deaths + 1
  /\ service' = NoService
  /\ notices' = notices \union (watched \intersect {service})
  /\ serving' = [r \in Requests |-> IF serving[r] \in {"none", "done"} THEN serving[r] ELSE "died"]
  /\ message' = [r \in Requests |-> <<>>]
  /\ UNCHANGED <<clientVars, requestVars, reply>>

(***************************************************************************)
(* The service                                                             *)
(***************************************************************************)

Serving(r, stage) == serving' = [serving EXCEPT ![r] = stage]
Calling(r, what) == message' = [message EXCEPT ![r] = what]
Replying(r, value) == reply' = [reply EXCEPT ![r] = value]

\* UserIDMService::GetAuthInfo of the own user may refuse without a callback; each
\* of them calls it before it returns.
ServeQuery(r) ==
  /\ serving[r] = "asked" /\ call[r].op \in Queries
  /\ Serving(r, "replying")
  /\ \/ /\ Calling(r, <<Sent("onResult", "info")>>)
        /\ \E ret \in {"SUCCESS", "FAIL"} : Replying(r, ret)
     \/ /\ call[r].op = "USERIDM_GET_AUTH_INFO"
        /\ Replying(r, "CHECK_PERMISSION_FAILED") /\ UNCHANGED message
  /\ UNCHANGED <<service, deaths, clientVars, notices, requestVars>>

\* The property queries and SetProperty answer on the thread that serves them.
ServeProperty(r) ==
  /\ serving[r] = "asked"
  /\ \E world \in Worlds :
       \/ /\ call[r].op \in PropertyQueries
          /\ Calling(r, <<GetProperty(world, call[r].keys, call[r].op = "USER_AUTH_GET_PROPERTY_BY_ID")>>)
       \/ /\ call[r].op = "USER_AUTH_SET_PROPERTY"
          /\ Calling(r, <<SetProperty(world)>>)
  /\ Serving(r, "replying")
  /\ UNCHANGED <<service, deaths, clientVars, notices, requestVars, reply>>

\* A mutant: the callback is not kept with the schedule.
ServeScheduleNoCallback(r) ==
  /\ serving[r] = "asked" /\ call[r].op \in Enrolments \union Authentications
  /\ Serving(r, "later")
  /\ Replying(r, "contextId")
  /\ UNCHANGED <<service, deaths, clientVars, notices, requestVars, message>>

\* The reply comes at once.  An enrolment is answered when it is refused or when its
\* schedule is over, and again: an update by OnFinish after the handler of the
\* property has answered, each of them by a second OnFinish (UserIdm).  An
\* authentication may never be answered, without schedules or with a device that
\* leaves it undone, and is told BUSY after its answer (UserAuth).
ServeSchedule(r) ==
  /\ serving[r] = "asked" /\ call[r].op \in Enrolments \union Authentications
  /\ \E n \in 0..MaxAnswers :
       /\ n = 0 => call[r].op \in Authentications
       /\ Calling(r, [i \in 1..n |-> Sent("onResult", "result")])
       /\ Serving(r, IF n = 0 THEN "done" ELSE "later")
  /\ Replying(r, "contextId")
  /\ UNCHANGED <<service, deaths, clientVars, notices, requestVars>>

\* DelExecutorPinInfoCtrl answers for each credential that is a PIN or a face, and
\* skips the others.  DelCred answers, and answers again when it did not know the
\* user; neither it nor DelCredential answers when the credential is no face.
ServeDeletion(r) ==
  /\ serving[r] = "asked"
  /\ \E n \in 0..MaxAnswers :
       /\ \/ call[r].op \in UserDeletions
          \/ call[r].op = "USERIDM_DELCRED" /\ n <= 2
          \/ call[r].op = "USERIDM_DELCREDENTIAL" /\ n <= 1
       /\ Calling(r, [i \in 1..n |-> Sent("onResult", "result")])
  /\ Serving(r, "replying")
  /\ UNCHANGED <<service, deaths, clientVars, notices, requestVars, reply>>

\* A session, a Cancel, the version, the status: only a reply.
ServeCall(r) ==
  /\ serving[r] = "asked" /\ call[r].op \notin WithCallback
  /\ Serving(r, "replying")
  /\ IF call[r].op = "USER_AUTH_GET_AVAILABLE_STATUS"
     THEN \E world \in Worlds : Replying(r, GetAvailableStatus(world, call[r].asked))
     ELSE Replying(r, "value")
  /\ UNCHANGED <<service, deaths, clientVars, notices, requestVars, message>>

\* A callback of the service, TF_SYNC: a stub that was made for another kind of
\* callback has nobody to pass the call to.
CallBack(r) ==
  /\ message[r] # <<>>
  /\ Calling(r, Tail(message[r]))
  /\ IF Head(message[r]).how = CallbackOf(call[r].op) THEN Tell(r, Head(message[r]).result) ELSE UNCHANGED told
  /\ IF serving[r] = "later" /\ Tail(message[r]) = <<>> THEN Serving(r, "done") ELSE UNCHANGED serving
  /\ UNCHANGED <<service, deaths, clientVars, notices, pc, call, target, reply, returned>>

Reply(r) ==
  /\ serving[r] = "replying" /\ message[r] = <<>>
  /\ Serving(r, "done")
  /\ UNCHANGED <<service, deaths, clientVars, notices, requestVars, message, reply>>

\* The reply cannot be written: the Binder returns FAIL, and the caller sees a call
\* that did not arrive.
ReplyFails(r) ==
  /\ serving[r] = "replying" /\ message[r] = <<>> /\ Op(r).method.reply # <<>> /\ pc[r] = "wait"
  /\ Serving(r, "done")
  /\ Unsent(r)
  /\ UNCHANGED <<service, deaths, clientVars, notices, call, target, message, reply>>

(***************************************************************************)
(* The specification                                                       *)
(***************************************************************************)

ThreadStep(r) ==
  \/ GetProxy(r) \/ CheckSystemAbility(r) \/ AddDeathRecipient(r) \/ StoreProxy(r)
  \/ NoStub(r) \/ SetSurfaceId(r) \/ WriteFails(r) \/ Send(r) \/ SendFails(r) \/ Return(r)

ServiceStep(r) ==
  \/ ServeQuery(r) \/ ServeProperty(r) \/ ServeSchedule(r) \/ ServeDeletion(r) \/ ServeCall(r)
  \/ CallBack(r) \/ Reply(r) \/ ReplyFails(r)

Next ==
  \/ \E r \in Requests : Begin(r) \/ NullCallback(r) \/ ThreadStep(r) \/ ServiceStep(r)
  \/ \E g \in Services : ResetProxy(g)
  \/ Start \/ Die

Spec == Init /\ [][Next]_vars

\* Threads run, and so do the Binder's threads that serve and that bring a notice.
\* An application is not bound to call, a service neither to die nor to start.
Fairness ==
  /\ \A r \in Requests : WF_vars(ThreadStep(r)) /\ WF_vars(ServiceStep(r))
  /\ \A g \in Services : WF_vars(ResetProxy(g))

FairSpec == Spec /\ Fairness

(***************************************************************************)
(* Properties                                                              *)
(***************************************************************************)

\* The library never keeps the proxy of a dead service for good: whichever of
\* the death, its notice and GetProxy's steps comes first, the notice is still to
\* come when the proxy is stale.
ProxyFollowsService ==
  proxy # NoService /\ proxy # service => proxy \in notices

\* The operations the service may answer more than once.
OftenAnswered == Enrolments \union Authentications \union UserDeletions \union {"USERIDM_DELCRED"}

\* An application is told once, though the service and the library itself both
\* answer.  What the service tells more than once, a deletion of several credentials
\* or an enrolment, the library never adds an answer of its own to; only the two
\* queries that a proxy answers when the call fails are answered again, when it was
\* the reply that was lost (useridm_proxy.cpp:148 and 176).
ToldOnce ==
  \A r \in Requests : Len(told[r]) > 1 =>
    \/ call[r].op \in OftenAnswered /\ \A i \in DOMAIN told[r] : told[r][i] = "result"
    \/ /\ call[r].op \in {"USERIDM_GET_AUTH_INFO_BY_ID", "USERIDM_GET_SEC_INFO"}
       /\ told[r] = <<"info", "FAIL">>

\* Every call of the library returns, with the mutex free for the next: no path
\* through GetProxy, a death between its steps included, leaves it locked.
CallsReturn == \A r \in Requests : pc[r] = "lock" ~> pc[r] = "over"

\* An enrolment and a query that the service was asked it answers, unless it dies:
\* but for the query of the own user, which may be refused by its return value.
\* Deletions may be silent, authentications left undone, and the property requests
\* are refused through a method that goes nowhere.
AcceptedIsAnswered ==
  \A r \in Requests :
    serving[r] = "asked" /\ call[r].op \in (Enrolments \union Queries) \ {"USERIDM_GET_AUTH_INFO"}
      ~> told[r] # <<>> \/ serving[r] = "died"

\* GetProperty and SetProperty of UserAuthService: iuser_auth.h:74 says of their
\* callback that "the authentication result code is returned through" it.
PropertyIsAnswered ==
  \A r \in Requests :
    serving[r] = "asked" /\ call[r].op \in PropertyQueries \union {"USER_AUTH_SET_PROPERTY"}
      ~> told[r] # <<>> \/ serving[r] = "died"
=============================================================================
