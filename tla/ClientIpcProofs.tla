--------------------------- MODULE ClientIpcProofs --------------------------
(***************************************************************************)
(* Proofs about ClientIpc, for every set of requests, whatever they ask,   *)
(* and any number of deaths of the service; and, at the end, about the     *)
(* single call of IpcCalls that every one of them is made of.              *)
(***************************************************************************)
EXTENDS ClientIpc, IpcCalls, TLAPS

Locked == {"check", "watch", "store"}

\* mutex_ belongs to the request that is between GetProxy and the end of it.
LockInv == \A r \in Requests : pc[r] \in Locked <=> lock = r

\* The library will hear of the death of instance g, or has a notice of it due.
Known(g) ==
  \/ g = service /\ g \in watched
  \/ g \in 1..deaths /\ g \in notices

\* What is cached, or about to be, is known.
ProxyInv == proxy # NoService => Known(proxy)
StoreInv == \A r \in Requests : pc[r] = "store" => Known(target[r])

\* Only an instance is watched.
WatchInv == \A r \in Requests : pc[r] = "watch" => target[r] # NoService

IInv == TypeOK /\ LockInv /\ ProxyInv /\ StoreInv /\ WatchInv

\* A thread outside GetProxy that goes somewhere else outside it changes nothing
\* of this, if it leaves the service and the library's state alone.
LEMMA OtherSteps ==
  ASSUME IInv, NEW r \in Requests, NEW label \in {"lock", "ready", "wait", "over"},
         pc[r] \notin Locked,
         Goto(r, label) \/ UNCHANGED pc,
         UNCHANGED <<service, deaths, clientVars, notices, target>>
  PROVE  IInv'
<1> USE ClientAssumption DEF IInv, TypeOK, Services, Libraries, clientVars, Goto, Locked
<1>1. \A q \in Requests : pc'[q] = pc[q] \/ (q = r /\ pc'[q] = label)
  OBVIOUS
<1>2. TypeOK'
  OBVIOUS
<1>3. LockInv'
  BY <1>1 DEF LockInv
<1>4. ProxyInv'
  BY DEF ProxyInv, Known
<1>5. StoreInv' /\ WatchInv'
  BY <1>1 DEF StoreInv, WatchInv, Known
<1> QED
  BY <1>2, <1>3, <1>4, <1>5

\* GetProxy gives up with mutex_ released.
LEMMA GivingUp ==
  ASSUME IInv, NEW r \in Requests, pc[r] \in Locked, NoProxy(r),
         UNCHANGED <<library, service, deaths, proxy, watched, notices, target>>
  PROVE  IInv'
<1> USE ClientAssumption DEF IInv, TypeOK, Services, Goto, End, NoProxy, Locked
<1>1. lock = r /\ lock' = Free /\ pc' = [pc EXCEPT ![r] = "over"]
  BY DEF LockInv
<1>2. \A q \in Requests : pc'[q] = IF q = r THEN "over" ELSE pc[q]
  BY <1>1
<1>3. TypeOK'
  BY <1>1
<1>4. LockInv'
  BY <1>1, <1>2 DEF LockInv
<1>5. ProxyInv' /\ StoreInv' /\ WatchInv'
  BY <1>2 DEF ProxyInv, StoreInv, WatchInv, Known
<1> QED
  BY <1>3, <1>4, <1>5

\* The steps of GetProxy keep the invariant.
LEMMA GetProxySteps ==
  ASSUME IInv, NEW r \in Requests,
         GetProxy(r) \/ CheckSystemAbility(r) \/ AddDeathRecipient(r) \/ StoreProxy(r)
  PROVE  IInv'
<1> USE ClientAssumption DEF IInv, TypeOK, Services, Goto, Locked
<1>1. CASE GetProxy(r)
  <2>1. CASE proxy # NoService
    <3>1. \A q \in Requests : pc'[q] = IF q = r THEN "ready" ELSE pc[q]
      BY <1>1, <2>1 DEF GetProxy
    <3>2. TypeOK' /\ lock' = lock /\ pc[r] = "lock"
      BY <1>1, <2>1 DEF GetProxy
    <3>3. \A q \in Requests : q # r => target'[q] = target[q]
      BY <1>1, <2>1 DEF GetProxy
    <3>4. LockInv'
      BY <3>1, <3>2 DEF LockInv
    <3>5. ProxyInv' /\ StoreInv' /\ WatchInv'
      BY <1>1, <3>1, <3>3 DEF GetProxy, ProxyInv, StoreInv, WatchInv, Known
    <3> QED
      BY <3>2, <3>4, <3>5
  <2>2. CASE proxy = NoService
    <3>1. \A q \in Requests : pc'[q] = IF q = r THEN "check" ELSE pc[q]
      BY <1>1, <2>2 DEF GetProxy
    <3>2. TypeOK' /\ lock' = r /\ lock = Free /\ target' = target
      BY <1>1, <2>2 DEF GetProxy
    <3>3. LockInv'
      BY <3>1, <3>2 DEF LockInv
    <3>4. ProxyInv' /\ StoreInv' /\ WatchInv'
      BY <1>1, <3>1, <3>2 DEF GetProxy, ProxyInv, StoreInv, WatchInv, Known
    <3> QED
      BY <3>2, <3>3, <3>4
  <2> QED
    BY <2>1, <2>2
<1>2. CASE CheckSystemAbility(r)
  <2>1. CASE service = NoService
    BY <1>2, <2>1, GivingUp DEF CheckSystemAbility
  <2>2. CASE service # NoService
    <3>1. \A q \in Requests : pc'[q] = IF q = r THEN "watch" ELSE pc[q]
      BY <1>2, <2>2 DEF CheckSystemAbility
    <3>2. TypeOK' /\ lock' = lock /\ pc[r] = "check"
      BY <1>2, <2>2 DEF CheckSystemAbility
    <3>3. \A q \in Requests : q # r => target'[q] = target[q]
      BY <1>2, <2>2 DEF CheckSystemAbility
    <3>4. LockInv'
      BY <3>1, <3>2 DEF LockInv
    <3>5. UNCHANGED <<service, deaths, proxy, watched, notices>> /\ target'[r] # NoService
      BY <1>2, <2>2 DEF CheckSystemAbility
    <3>6. ProxyInv'
      BY <3>5 DEF ProxyInv, Known
    <3>7. StoreInv' /\ WatchInv'
      BY <3>1, <3>3, <3>5 DEF StoreInv, WatchInv, Known
    <3> QED
      BY <3>2, <3>4, <3>6, <3>7
  <2> QED
    BY <2>1, <2>2
<1>3. CASE AddDeathRecipient(r)
  <2>1. CASE target[r] # service
    BY <1>3, <2>1, GivingUp DEF AddDeathRecipient
  <2>2. CASE target[r] = service
    <3>1. \A q \in Requests : pc'[q] = IF q = r THEN "store" ELSE pc[q]
      BY <1>3, <2>2 DEF AddDeathRecipient
    <3>2. lock' = lock /\ pc[r] = "watch" /\ target' = target /\ watched' = watched \union {target[r]}
          /\ UNCHANGED <<library, service, deaths, proxy, notices>>
      BY <1>3, <2>2 DEF AddDeathRecipient
    <3>3. target[r] \in Services /\ service \in Services
      BY <2>2, <3>2 DEF WatchInv
    <3>4. TypeOK'
      BY <1>3, <2>2, <3>2, <3>3 DEF AddDeathRecipient
    <3>5. LockInv'
      BY <3>1, <3>2 DEF LockInv
    <3>6. \A g : Known(g) => Known(g)'
      BY <3>2 DEF Known
    <3>7. Known(target[r])'
      BY <2>2, <3>2 DEF Known
    <3>8. ProxyInv'
      BY <3>2, <3>6 DEF ProxyInv
    <3>9. StoreInv' /\ WatchInv'
      BY <3>1, <3>2, <3>6, <3>7 DEF StoreInv, WatchInv
    <3> QED
      BY <3>4, <3>5, <3>8, <3>9
  <2> QED
    BY <2>1, <2>2
<1>4. CASE StoreProxy(r)
  <2>1. \A q \in Requests : pc'[q] = IF q = r THEN "ready" ELSE pc[q]
    BY <1>4 DEF StoreProxy
  <2>2. pc[r] = "store" /\ proxy' = target[r] /\ lock' = Free
        /\ UNCHANGED <<library, service, deaths, watched, notices, target>>
    BY <1>4 DEF StoreProxy
  <2>3. lock = r /\ Known(target[r])
    BY <2>2 DEF LockInv, StoreInv
  <2>4. TypeOK'
    BY <1>4, <2>2 DEF StoreProxy
  <2>5. LockInv'
    BY <2>1, <2>2, <2>3 DEF LockInv
  <2>6. ProxyInv' /\ StoreInv' /\ WatchInv'
    BY <2>1, <2>2, <2>3 DEF ProxyInv, StoreInv, WatchInv, Known
  <2> QED
    BY <2>4, <2>5, <2>6
<1> QED
  BY <1>1, <1>2, <1>3, <1>4

\* A death leaves a notice to everyone who watched, and a notice is delivered
\* only when nobody is between finding an instance and caching it.
LEMMA DeathSteps ==
  ASSUME IInv,
         Start \/ Die \/ \E g \in Services : ResetProxy(g)
  PROVE  IInv'
<1> USE ClientAssumption DEF IInv, TypeOK, Services, Locked, clientVars, requestVars
<1>1. CASE Start
  <2>1. service = NoService /\ service' = deaths + 1
        /\ UNCHANGED <<library, deaths, proxy, lock, watched, notices, pc, target>>
    BY <1>1 DEF Start
  <2>2. TypeOK' /\ LockInv' /\ WatchInv'
    BY <2>1 DEF LockInv, WatchInv
  <2>3. \A g \in Services : Known(g) => Known(g)'
    BY <2>1 DEF Known
  <2>4. proxy # NoService => proxy \in Services
    OBVIOUS
  <2>5. ProxyInv'
    BY <2>1, <2>3, <2>4 DEF ProxyInv
  <2>6. ASSUME NEW r \in Requests, pc[r] = "store"
        PROVE  target[r] \in Services
    BY <2>6, <2>1 DEF StoreInv, Known
  <2>7. StoreInv'
    BY <2>1, <2>3, <2>6 DEF StoreInv
  <2> QED
    BY <2>2, <2>5, <2>7
<1>2. CASE Die
  <2>1. /\ service = deaths + 1 /\ deaths < MaxDeaths
        /\ deaths' = deaths + 1 /\ service' = NoService
        /\ notices' = notices \union (watched \intersect {service})
        /\ UNCHANGED <<library, proxy, lock, watched, pc, target>>
    BY <1>2 DEF Die
  <2>2. TypeOK' /\ LockInv' /\ WatchInv'
    BY <2>1 DEF LockInv, WatchInv
  <2>3. \A g : Known(g) => Known(g)'
    BY <2>1 DEF Known
  <2>4. ProxyInv' /\ StoreInv'
    BY <2>1, <2>3 DEF ProxyInv, StoreInv
  <2> QED
    BY <2>2, <2>4
<1>3. ASSUME NEW g \in Services, ResetProxy(g)
      PROVE  IInv'
  <2>1. /\ lock = Free /\ notices' = notices \ {g}
        /\ UNCHANGED <<library, service, deaths, lock, pc, target>>
    BY <1>3 DEF ResetProxy
  <2>2. \A r \in Requests : pc[r] # "store"
    BY <2>1 DEF LockInv
  <2>3. TypeOK' /\ LockInv' /\ WatchInv' /\ StoreInv'
    BY <1>3, <2>1, <2>2 DEF ResetProxy, LockInv, WatchInv, StoreInv
  <2>4. ProxyInv'
    <3>1. CASE proxy = g
      BY <1>3, <3>1 DEF ResetProxy, ProxyInv
    <3>2. CASE proxy # g
      BY <1>3, <2>1, <3>2 DEF ResetProxy, ProxyInv, Known
    <3> QED
      BY <3>1, <3>2
  <2> QED
    BY <2>3, <2>4
<1> QED
  BY <1>1, <1>2, <1>3

\* The invariant is inductive.
LEMMA Inductive == Spec => []IInv
<1>1. Init => IInv
  BY ClientAssumption DEF Init, IInv, TypeOK, LockInv, ProxyInv, StoreInv, WatchInv, Services, Locked
<1>2. IInv /\ [Next]_vars => IInv'
  <2> SUFFICES ASSUME IInv, [Next]_vars
               PROVE  IInv'
    OBVIOUS
  <2>1. ASSUME NEW r \in Requests, Begin(r) \/ NullCallback(r)
        PROVE  IInv'
    <3>1. CASE Begin(r)
      BY <3>1, OtherSteps DEF Begin, Locked, requestVars, clientVars
    <3>2. CASE NullCallback(r)
      BY <3>2, OtherSteps DEF NullCallback, Locked, End, clientVars
    <3> QED
      BY <2>1, <3>1, <3>2
  <2>2. ASSUME NEW r \in Requests, ThreadStep(r)
        PROVE  IInv'
    <3> USE DEF Locked, End, Unsent
    <3>1. CASE GetProxy(r) \/ CheckSystemAbility(r) \/ AddDeathRecipient(r) \/ StoreProxy(r)
      BY <3>1, GetProxySteps
    <3>2. CASE NoStub(r) \/ SetSurfaceId(r) \/ WriteFails(r)
      BY <3>2, OtherSteps DEF NoStub, SetSurfaceId, WriteFails
    <3>3. CASE Send(r)
      BY <3>3, OtherSteps DEF Send
    <3>4. CASE SendFails(r)
      BY <3>4, OtherSteps DEF SendFails
    <3>5. CASE Return(r)
      BY <3>5, OtherSteps DEF Return
    <3> QED
      BY <2>2, <3>1, <3>2, <3>3, <3>4, <3>5 DEF ThreadStep
  <2>3. ASSUME NEW r \in Requests, ServiceStep(r)
        PROVE  IInv'
    <3>1. CASE ReplyFails(r)
      BY <3>1, OtherSteps DEF ReplyFails, Unsent, End, Locked
    <3>2. CASE ~ReplyFails(r)
      <4>1. UNCHANGED <<service, deaths, clientVars, notices, pc, target>>
        BY <2>3, <3>2 DEF ServiceStep, ServeQuery, ServeProperty, ServeSchedule, ServeDeletion, ServeCall,
           CallBack, Reply, requestVars
      <4> QED
        BY <4>1 DEF IInv, TypeOK, LockInv, ProxyInv, StoreInv, WatchInv, Known, clientVars
    <3> QED
      BY <3>1, <3>2
  <2>4. CASE Start \/ Die \/ \E g \in Services : ResetProxy(g)
    BY <2>4, DeathSteps
  <2>5. CASE UNCHANGED vars
    BY <2>5 DEF vars, IInv, TypeOK, LockInv, ProxyInv, StoreInv, WatchInv, Known
  <2> QED
    BY <2>1, <2>2, <2>3, <2>4, <2>5 DEF Next
<1> QED
  BY <1>1, <1>2, PTL DEF Spec

\* Every state of the client library and of the service that runs is of its
\* type; the instances that were ever started number deaths + 1 at most.
THEOREM ClientTypes == Spec => []TypeOK
BY Inductive, PTL DEF IInv

\* GetProxy, OnRemoteDied and ResetProxy never leave the library with the proxy
\* of a dead service and no notice of its death to come.
THEOREM ProxyIsFollowed == Spec => []ProxyFollowsService
<1>1. IInv => ProxyFollowsService
  BY ClientAssumption DEF IInv, ProxyInv, Known, ProxyFollowsService
<1> QED
  BY <1>1, Inductive, PTL

(***************************************************************************)
(* What the callback is told                                               *)
(***************************************************************************)

\* The two queries whose proxy answers although it waits for the reply.
ToldTwice == {"USERIDM_GET_AUTH_INFO_BY_ID", "USERIDM_GET_SEC_INFO"}

\* A table in which only those two do both.
Tame(ops) ==
  \A op \in DOMAIN ops : ops[op].method.tells => ops[op].method.mode = "async" \/ op \in ToldTwice

LEMMA TameOverlay ==
  ASSUME NEW f, NEW g, Tame(f), Tame(g)
  PROVE  Tame(f ++ g)
BY DEF Tame, ++

\* No method of a library answers a call that it waits for, but those two.
LEMMA LibrariesAreTame == \A l \in Libraries : Tame(OpsOf[l])
<1> USE DEF Tame, ToldTwice, Operation, Method, Telling
<1>1. Tame(UserIDMClientOps)
  BY DEF UserIDMClientOps, SessionMethods, QueryMethods, EnrolMethods, CancelMethods, DeleteMethods
<1>2. Tame(UserIdmSessionOps)
  BY DEF UserIdmSessionOps, SessionMethods, CancelMethods
<1>3. Tame(UserIdmCallbackOps)
  BY DEF UserIdmCallbackOps, EnrolMethods, DeleteMethods
<1>4. Tame(UserIdmQueryOps)
  BY DEF UserIdmQueryOps, QueryMethods, DeleteMethods
<1>5. Tame(UserAuthPropertyOps)
  BY DEF UserAuthPropertyOps, PropertyMethods
<1>6. Tame(UserAuthOps)
  BY DEF UserAuthOps, AuthMethods
<1> QED
  <2> HIDE DEF Tame
  <2> QED
    BY <1>1, <1>2, <1>3, <1>4, <1>5, <1>6, TameOverlay DEF Libraries, OpsOf, UserIdmOps, UserAuthNativeOps

Short(s) == s = <<>> \/ s = <<s[1]>>

\* What the service says, and an application hears, more than once.
Answer == Sent("onResult", "result")
Results == Seq({"result"})

\* Nothing is served or told before the request is sent, and GetProxy runs for an
\* operation the library has.
Sending == {"idle", "lock", "check", "watch", "store", "ready"}
SendingInv(r) ==
  /\ pc[r] \in Sending => serving[r] = "none" /\ told[r] = <<>>
  /\ pc[r] \notin {"idle", "over"} => call[r].op \in DOMAIN OpsOf[library]
  /\ pc[r] = "wait" => Op(r).method.mode # "async"

\* When the service has something to say.
ServingInv(r) ==
  /\ serving[r] \in {"none", "asked", "replying", "later", "done", "died"}
  /\ serving[r] \notin {"replying", "later"} => message[r] = <<>>
  /\ serving[r] = "later" => message[r] # <<>> /\ call[r].op \in OftenAnswered
  /\ serving[r] = "asked" => told[r] = <<>>

\* The service has one thing to say, and the library adds to it in two queries.
ToldInv(r) ==
  call[r].op \notin OftenAnswered =>
    /\ serving[r] = "replying" => message[r] = <<>> \/ (told[r] = <<>> /\ Short(message[r]))
    /\ Short(told[r]) \/ (call[r].op \in ToldTwice /\ pc[r] = "over" /\ told[r] = <<"info", "FAIL">>)

\* What the service says often the library does not add to.
OftenInv(r) ==
  call[r].op \in OftenAnswered =>
    /\ message[r] \in Seq({Answer})
    /\ told[r] \in Results \/ (serving[r] = "none" /\ Short(told[r]))

\* While one of the two queries waits, it has been told what the service found.
WaitingInv(r) ==
  call[r].op \in ToldTwice =>
    /\ message[r] \in {<<>>, <<Sent("onResult", "info")>>}
    /\ pc[r] = "wait" => told[r] \in {<<>>, <<"info">>}

RequestInv(r) == SendingInv(r) /\ ServingInv(r) /\ ToldInv(r) /\ OftenInv(r) /\ WaitingInv(r)

\* The variables that are functions of the request.
FunInv ==
  /\ pc = [r \in Requests |-> pc[r]] /\ call = [r \in Requests |-> call[r]]
  /\ serving = [r \in Requests |-> serving[r]]
  /\ message = [r \in Requests |-> message[r]] /\ told = [r \in Requests |-> told[r]]
  /\ library \in Libraries

AllInv == FunInv /\ \A r \in Requests : RequestInv(r)

\* Sequences of no and of one element.
LEMMA ShortSequences ==
  /\ \A x : Append(<<>>, x) = <<x>>
  /\ \A x, y : Append(<<x>>, y) = <<x, y>>
  /\ \A x : Tail(<<x>>) = <<>> /\ Head(<<x>>) = x /\ <<x>> # <<>> /\ Short(<<x>>)
  /\ Short(<<>>)
<1>1. \A x : Append(<<>>, x) = <<x>>
  OBVIOUS
<1>2. ASSUME NEW x, NEW y
      PROVE  Append(<<x>>, y) = <<x, y>>
  <2>1. <<x>> \in Seq({x, y}) /\ Len(<<x>>) = 1
    OBVIOUS
  <2>2. /\ Append(<<x>>, y) \in Seq({x, y})
        /\ Len(Append(<<x>>, y)) = 2 /\ Append(<<x>>, y)[1] = x /\ Append(<<x>>, y)[2] = y
    BY <2>1
  <2>3. Append(<<x>>, y) = [i \in 1..2 |-> Append(<<x>>, y)[i]]
    BY <2>2
  <2>4. <<x, y>> = [i \in 1..2 |-> IF i = 1 THEN x ELSE y]
    OBVIOUS
  <2>5. \A i \in 1..2 : Append(<<x>>, y)[i] = IF i = 1 THEN x ELSE y
    BY <2>2
  <2> QED
    BY <2>3, <2>4, <2>5
<1>3. \A x : Tail(<<x>>) = <<>>
  OBVIOUS
<1>4. \A x : Head(<<x>>) = x /\ <<x>> # <<>>
  OBVIOUS
<1>5. Short(<<>>) /\ \A x : Short(<<x>>)
  BY DEF Short
<1> QED
  BY <1>1, <1>2, <1>3, <1>4, <1>5

\* Sequences of the service's one answer.
LEMMA AnswerSequences ==
  /\ <<>> \in Seq({Answer}) /\ <<>> \in Results
  /\ \A s \in Results : Append(s, "result") \in Results
  /\ \A s \in Seq({Answer}) : s # <<>> => Tail(s) \in Seq({Answer}) /\ Head(s) = Answer
  /\ \A s \in Results : \A i \in DOMAIN s : s[i] = "result"
  /\ Answer.result = "result"
BY DEF Results, Answer, Sent

LEMMA OftenIsNotTwice == ToldTwice \intersect OftenAnswered = {}
BY DEF ToldTwice, OftenAnswered, Enrolments, Authentications, UserDeletions

\* What concerns request r only.
OnlyOf(r) ==
  /\ UNCHANGED library
  /\ \A q \in Requests \ {r} :
       /\ pc'[q] = pc[q] /\ call'[q] = call[q] /\ serving'[q] = serving[q]
       /\ message'[q] = message[q] /\ told'[q] = told[q]

LEMMA OthersKeep ==
  ASSUME NEW r \in Requests, AllInv, FunInv', OnlyOf(r), RequestInv(r)'
  PROVE  AllInv'
<1>1. ASSUME NEW q \in Requests, q # r
      PROVE  RequestInv(q)'
  BY <1>1 DEF AllInv, OnlyOf, RequestInv, SendingInv, ServingInv, ToldInv, OftenInv, WaitingInv, Op
<1> QED
  BY <1>1 DEF AllInv

\* The library's function ends: it told nobody, or was the first to.
LEMMA EndOfCall ==
  ASSUME NEW r \in Requests, AllInv, NEW value, NEW tells, NEW result,
         End(r, value, tells, result),
         pc[r] \in Sending \/ ~tells,
         UNCHANGED <<library, call, message>>,
         \/ UNCHANGED serving
         \/ pc[r] = "ready" /\ ~tells /\ serving' = [serving EXCEPT ![r] = "asked"]
  PROVE  AllInv'
<1>1. FunInv' /\ OnlyOf(r)
  BY DEF AllInv, FunInv, OnlyOf, End, Goto, Tell
<1>2. pc'[r] = "over" /\ call'[r] = call[r] /\ message'[r] = message[r]
  BY DEF End, Goto, AllInv, FunInv
<1>3. told'[r] = IF tells THEN Append(told[r], result) ELSE told[r]
  BY DEF End, Tell, AllInv, FunInv
<1>4. \/ serving'[r] = serving[r]
      \/ pc[r] = "ready" /\ ~tells /\ serving'[r] = "asked"
  BY DEF AllInv, FunInv
<1>5. RequestInv(r)
  BY DEF AllInv
<1>6. CASE tells
  <2>1. serving[r] = "none" /\ serving'[r] = "none" /\ message[r] = <<>> /\ told'[r] = <<result>>
    BY <1>3, <1>4, <1>5, <1>6, ShortSequences DEF RequestInv, SendingInv, ServingInv
  <2>2. RequestInv(r)'
    BY <1>2, <2>1, ShortSequences, AnswerSequences DEF RequestInv, SendingInv, ServingInv, ToldInv, OftenInv, WaitingInv, Sending
  <2> QED
    BY <1>1, <2>2, OthersKeep
<1>7. CASE ~tells
  <2>1. RequestInv(r)'
    BY <1>2, <1>3, <1>4, <1>5, <1>7, ShortSequences, AnswerSequences
       DEF RequestInv, SendingInv, ServingInv, ToldInv, OftenInv, WaitingInv, Sending
  <2> QED
    BY <1>1, <2>1, OthersKeep
<1> QED
  BY <1>6, <1>7

\* GetProxy goes on, for an operation that the library has.
LEMMA GetProxyTellsNobody ==
  ASSUME NEW r \in Requests, AllInv, pc[r] \in Sending,
         NEW label \in Sending \ {"idle"}, Goto(r, label),
         UNCHANGED <<library, serving, message, told>>,
         NEW c, call' = [call EXCEPT ![r] = c], c.op \in DOMAIN OpsOf[library]
  PROVE  AllInv'
<1>1. FunInv' /\ OnlyOf(r)
  BY DEF AllInv, FunInv, OnlyOf, Goto
<1>2. pc'[r] = label /\ call'[r] = c
  BY DEF Goto, AllInv, FunInv
<1>3. RequestInv(r)
  BY DEF AllInv
<1>4. RequestInv(r)'
  BY <1>2, <1>3, ShortSequences, AnswerSequences DEF RequestInv, SendingInv, ServingInv, ToldInv, OftenInv, WaitingInv, Sending
<1> QED
  BY <1>1, <1>4, OthersKeep

\* A synchronous call is sent.
LEMMA SendAndWait ==
  ASSUME NEW r \in Requests, AllInv, pc[r] = "ready", Op(r).method.mode # "async",
         Goto(r, "wait"), serving' = [serving EXCEPT ![r] = "asked"],
         UNCHANGED <<library, call, message, told>>
  PROVE  AllInv'
<1>1. FunInv' /\ OnlyOf(r)
  BY DEF AllInv, FunInv, OnlyOf, Goto
<1>2. pc'[r] = "wait" /\ serving'[r] = "asked" /\ UNCHANGED <<call[r], told[r], message[r]>>
  BY DEF Goto, AllInv, FunInv
<1>3. RequestInv(r) /\ Op(r)' = Op(r)
  BY DEF AllInv, Op
<1>4. RequestInv(r)'
  BY <1>2, <1>3, ShortSequences, AnswerSequences DEF RequestInv, SendingInv, ServingInv, ToldInv, OftenInv, WaitingInv, Sending
<1> QED
  BY <1>1, <1>4, OthersKeep

\* The reply is lost: the two queries may tell their callback again.
LEMMA LostReply ==
  ASSUME NEW r \in Requests, AllInv, pc[r] = "wait", Unsent(r), message[r] = <<>>,
         \/ serving[r] = "died" /\ UNCHANGED serving
         \/ serving[r] = "replying" /\ serving' = [serving EXCEPT ![r] = "done"],
         UNCHANGED <<library, call, message>>
  PROVE  AllInv'
<1>1. FunInv' /\ OnlyOf(r)
  BY DEF AllInv, FunInv, OnlyOf, Unsent, End, Goto, Tell
<1>2. pc'[r] = "over" /\ serving'[r] \in {"died", "done"} /\ call'[r] = call[r] /\ message'[r] = <<>>
  BY DEF Unsent, End, Goto, AllInv, FunInv
<1>3. told'[r] = IF Op(r).method.tells THEN Append(told[r], "FAIL") ELSE told[r]
  BY DEF Unsent, End, Tell, AllInv, FunInv
<1>4. RequestInv(r)
  BY DEF AllInv
<1>5. Op(r).method.tells => call[r].op \in ToldTwice
  <2>1. call[r].op \in DOMAIN OpsOf[library] /\ Op(r).method.mode # "async"
    BY <1>4 DEF RequestInv, SendingInv
  <2>2. Tame(OpsOf[library])
    BY LibrariesAreTame DEF AllInv, FunInv
  <2> QED
    BY <2>1, <2>2 DEF Tame, Op
<1>6. call[r].op \in ToldTwice => told[r] \in {<<>>, <<"info">>}
  BY <1>4 DEF RequestInv, WaitingInv
<1>7. SendingInv(r)' /\ ServingInv(r)' /\ WaitingInv(r)'
  BY <1>2 DEF SendingInv, ServingInv, WaitingInv, Sending
<1>8. ToldInv(r)'
  <2>1. CASE Op(r).method.tells
    <3>1. told'[r] \in {<<"FAIL">>, <<"info", "FAIL">>}
      BY <1>3, <1>5, <1>6, <2>1, ShortSequences
    <3> QED
      BY <1>2, <1>5, <2>1, <3>1, ShortSequences DEF ToldInv
  <2>2. CASE ~Op(r).method.tells
    BY <1>2, <1>3, <1>4, <2>2 DEF RequestInv, ToldInv
  <2> QED
    BY <2>1, <2>2
<1>9. OftenInv(r)'
  <2>1. call[r].op \in OftenAnswered => told'[r] = told[r] /\ serving[r] # "none"
    BY <1>3, <1>5, OftenIsNotTwice
  <2> QED
    BY <1>2, <1>4, <2>1, AnswerSequences DEF RequestInv, OftenInv
<1> QED
  BY <1>1, <1>7, <1>8, <1>9, OthersKeep DEF RequestInv

\* The service has something to say to a request it was asked.
LEMMA Served ==
  ASSUME NEW r \in Requests, AllInv, serving[r] = "asked",
         NEW stage, NEW what, Serving(r, stage), Calling(r, what),
         \/ /\ stage = "replying"
            /\ IF call[r].op \in OftenAnswered THEN what \in Seq({Answer}) ELSE Short(what)
            /\ call[r].op \in ToldTwice => what \in {<<>>, <<Sent("onResult", "info")>>}
         \/ /\ call[r].op \in OftenAnswered /\ what \in Seq({Answer})
            /\ stage = IF what = <<>> THEN "done" ELSE "later",
         UNCHANGED <<library, pc, call, told>>
  PROVE  AllInv'
<1>1. FunInv' /\ OnlyOf(r)
  BY DEF AllInv, FunInv, OnlyOf, Serving, Calling
<1>2. serving'[r] = stage /\ message'[r] = what /\ UNCHANGED <<pc[r], call[r], told[r]>>
  BY DEF Serving, Calling, AllInv, FunInv
<1>3. RequestInv(r) /\ Op(r)' = Op(r)
  BY DEF AllInv, Op
<1>4. SendingInv(r)' /\ ServingInv(r)'
  BY <1>2, <1>3 DEF RequestInv, SendingInv, ServingInv, Sending
<1>5. ToldInv(r)' /\ OftenInv(r)' /\ WaitingInv(r)'
  BY <1>2, <1>3, ShortSequences, AnswerSequences, OftenIsNotTwice
     DEF RequestInv, ServingInv, ToldInv, OftenInv, WaitingInv
<1> QED
  BY <1>1, <1>4, <1>5, OthersKeep DEF RequestInv

\* The application's callback is called, or its stub has nobody to call.
LEMMA CallBackTells ==
  ASSUME NEW r \in Requests, AllInv, CallBack(r)
  PROVE  AllInv'
<1>1. FunInv' /\ OnlyOf(r)
  BY DEF AllInv, FunInv, OnlyOf, CallBack, Serving, Calling, Tell, clientVars
<1>2. /\ message[r] # <<>> /\ message'[r] = Tail(message[r])
      /\ UNCHANGED <<pc[r], call[r]>>
      /\ serving'[r] = IF serving[r] = "later" /\ Tail(message[r]) = <<>> THEN "done" ELSE serving[r]
      /\ told'[r] = told[r] \/ told'[r] = Append(told[r], Head(message[r]).result)
  BY DEF CallBack, Serving, Calling, Tell, AllInv, FunInv
<1>3. RequestInv(r) /\ Op(r)' = Op(r)
  BY <1>1, <1>2 DEF AllInv, Op, OnlyOf
<1>4. serving[r] \notin {"none", "asked", "done", "died"} /\ pc[r] \notin Sending
  BY <1>2, <1>3 DEF RequestInv, SendingInv, ServingInv
<1>5. SendingInv(r)'
  BY <1>1, <1>2, <1>3, <1>4 DEF RequestInv, SendingInv, OnlyOf
<1>6. ServingInv(r)'
  BY <1>2, <1>3, <1>4 DEF RequestInv, ServingInv
<1>7. CASE call[r].op \in OftenAnswered
  <2>1. message[r] \in Seq({Answer}) /\ told[r] \in Results
    BY <1>3, <1>4, <1>7 DEF RequestInv, OftenInv, ServingInv
  <2>2. message'[r] \in Seq({Answer}) /\ told'[r] \in Results
    BY <1>2, <2>1, AnswerSequences
  <2>3. ToldInv(r)' /\ OftenInv(r)' /\ WaitingInv(r)'
    BY <1>2, <1>7, <2>2, OftenIsNotTwice DEF ToldInv, OftenInv, WaitingInv
  <2> QED
    BY <1>1, <1>5, <1>6, <2>3, OthersKeep DEF RequestInv
<1>8. CASE call[r].op \notin OftenAnswered
  <2>1. serving[r] = "replying" /\ told[r] = <<>> /\ message[r] = <<message[r][1]>>
    BY <1>2, <1>3, <1>4, <1>8 DEF RequestInv, ToldInv, ServingInv, Short
  <2>2. message'[r] = <<>> /\ Head(message[r]) = message[r][1]
    BY <1>2, <2>1, ShortSequences
  <2>3. told'[r] = <<>> \/ told'[r] = <<message[r][1].result>>
    BY <1>2, <2>1, <2>2, ShortSequences
  <2>4. ToldInv(r)'
    BY <2>2, <2>3, ShortSequences DEF ToldInv
  <2>5. call[r].op \in ToldTwice => told'[r] \in {<<>>, <<"info">>}
    <3>1. SUFFICES ASSUME call[r].op \in ToldTwice
                   PROVE  told'[r] \in {<<>>, <<"info">>}
      OBVIOUS
    <3>2. message[r] = <<Sent("onResult", "info")>>
      BY <1>2, <1>3, <3>1 DEF RequestInv, WaitingInv
    <3>3. message[r][1].result = "info"
      BY <3>2 DEF Sent
    <3> QED
      BY <2>3, <3>3
  <2>6. OftenInv(r)' /\ WaitingInv(r)'
    BY <1>2, <1>8, <2>2, <2>5 DEF OftenInv, WaitingInv
  <2> QED
    BY <1>1, <1>5, <1>6, <2>4, <2>6, OthersKeep DEF RequestInv
<1> QED
  BY <1>7, <1>8

\* The service's reply is sent.
LEMMA ReplyTellsNobody ==
  ASSUME NEW r \in Requests, AllInv, Reply(r)
  PROVE  AllInv'
<1>1. FunInv' /\ OnlyOf(r)
  BY DEF AllInv, FunInv, OnlyOf, Reply, Serving, clientVars, requestVars
<1>2. /\ serving[r] = "replying" /\ serving'[r] = "done" /\ message[r] = <<>>
      /\ UNCHANGED <<library, pc[r], call[r], told[r], message[r]>>
  BY DEF Reply, Serving, AllInv, FunInv, clientVars, requestVars
<1>3. RequestInv(r) /\ Op(r)' = Op(r)
  BY <1>2 DEF AllInv, Op
<1>4. RequestInv(r)'
  BY <1>2, <1>3 DEF RequestInv, SendingInv, ServingInv, ToldInv, OftenInv, WaitingInv
<1> QED
  BY <1>1, <1>4, OthersKeep

\* A death silences the service, and what was told is told.
LEMMA DeathTellsNobody ==
  ASSUME AllInv, Die
  PROVE  AllInv'
<1>1. FunInv'
  BY DEF AllInv, FunInv, Die, clientVars, requestVars
<1>2. ASSUME NEW r \in Requests
      PROVE  RequestInv(r)'
  <2>1. /\ serving'[r] = IF serving[r] \in {"none", "done"} THEN serving[r] ELSE "died"
        /\ message'[r] = <<>>
        /\ UNCHANGED <<library, pc[r], call[r], told[r]>>
    BY DEF Die, clientVars, requestVars
  <2>2. RequestInv(r) /\ Op(r)' = Op(r)
    BY <2>1 DEF AllInv, Op
  <2> QED
    BY <2>1, <2>2 DEF RequestInv, SendingInv, ServingInv, ToldInv, OftenInv, WaitingInv
<1> QED
  BY <1>1, <1>2 DEF AllInv

\* A deletion of one credential is answered at most once.
LEMMA FewAnswers ==
  ASSUME NEW n \in Nat, n <= 1, NEW x
  PROVE  Short([i \in 1..n |-> x])
<1>1. CASE n = 0
  BY <1>1 DEF Short
<1>2. CASE n = 1
  BY <1>2 DEF Short
<1> QED
  BY <1>1, <1>2

\* However many answers there are, they are all alike.
LEMMA ManyAnswers ==
  ASSUME NEW n \in Nat, NEW x
  PROVE  /\ [i \in 1..n |-> x] \in Seq({x})
         /\ [i \in 1..n |-> x] = <<>> <=> n = 0
<1>1. [i \in 1..n |-> x] \in Seq({x}) /\ Len([i \in 1..n |-> x]) = n
  OBVIOUS
<1>2. Len(<<>>) = 0
  OBVIOUS
<1>3. n = 0 => [i \in 1..n |-> x] = <<>>
  OBVIOUS
<1> QED
  BY <1>1, <1>2, <1>3

\* The service's answers, one action after another.
LEMMA ServingSteps ==
  ASSUME NEW r \in Requests, AllInv,
         ServeQuery(r) \/ ServeProperty(r) \/ ServeSchedule(r) \/ ServeDeletion(r) \/ ServeCall(r)
  PROVE  AllInv'
<1> USE DEF requestVars, clientVars
<1>1. message[r] = <<>> \/ serving[r] # "asked"
  BY DEF AllInv, RequestInv, ServingInv
<1>2. UNCHANGED message => Calling(r, message[r])
  BY DEF Calling, AllInv, FunInv
<1>3. CASE ServeQuery(r)
  <2>1. call[r].op \notin OftenAnswered
    BY <1>3 DEF ServeQuery, Queries, OftenAnswered, Enrolments, Authentications, UserDeletions
  <2>2. Calling(r, <<Sent("onResult", "info")>>) \/ Calling(r, <<>>)
    BY <1>1, <1>2, <1>3 DEF ServeQuery
  <2> QED
    BY <1>3, <2>1, <2>2, Served, ShortSequences DEF ServeQuery
<1>4. CASE ServeProperty(r)
  <2>1. call[r].op \notin OftenAnswered /\ call[r].op \notin ToldTwice
    BY <1>4 DEF ServeProperty, PropertyQueries, OftenAnswered, Enrolments, Authentications, UserDeletions, ToldTwice
  <2>2. PICK x : Calling(r, <<x>>)
    BY <1>4 DEF ServeProperty
  <2> QED
    BY <1>4, <2>1, <2>2, Served, ShortSequences DEF ServeProperty
<1>5. CASE ServeSchedule(r)
  <2>1. PICK n \in 0..MaxAnswers :
          /\ Calling(r, [i \in 1..n |-> Answer])
          /\ Serving(r, IF n = 0 THEN "done" ELSE "later")
    BY <1>5 DEF ServeSchedule, Answer
  <2>2. n \in Nat /\ call[r].op \in OftenAnswered
    BY <1>5, ClientAssumption DEF ServeSchedule, OftenAnswered
  <2>3. /\ [i \in 1..n |-> Answer] \in Seq({Answer})
        /\ [i \in 1..n |-> Answer] = <<>> <=> n = 0
    BY <2>2, ManyAnswers
  <2> QED
    BY <1>5, <2>1, <2>2, <2>3, Served DEF ServeSchedule
<1>6. CASE ServeDeletion(r)
  <2>1. PICK n \in 0..MaxAnswers :
          /\ \/ call[r].op \in UserDeletions
             \/ call[r].op = "USERIDM_DELCRED" /\ n <= 2
             \/ call[r].op = "USERIDM_DELCREDENTIAL" /\ n <= 1
          /\ Calling(r, [i \in 1..n |-> Answer])
    BY <1>6 DEF ServeDeletion, Answer
  <2>2. call[r].op \notin ToldTwice
    BY <2>1 DEF UserDeletions, ToldTwice
  <2>3. call[r].op \notin OftenAnswered => n <= 1
    BY <2>1 DEF OftenAnswered
  <2>4. n \in Nat
    BY <2>1, ClientAssumption
  <2>5. IF call[r].op \in OftenAnswered THEN [i \in 1..n |-> Answer] \in Seq({Answer})
                                        ELSE Short([i \in 1..n |-> Answer])
    BY <2>3, <2>4, FewAnswers, ManyAnswers
  <2> QED
    BY <1>6, <2>1, <2>2, <2>5, Served DEF ServeDeletion
<1>7. CASE ServeCall(r)
  <2>1. Calling(r, <<>>)
    BY <1>1, <1>2, <1>7 DEF ServeCall
  <2> QED
    BY <1>7, <2>1, Served, ShortSequences, AnswerSequences DEF ServeCall
<1> QED
  BY <1>3, <1>4, <1>5, <1>6, <1>7

\* The steps of a request's thread, one after another.
LEMMA ThreadSteps ==
  ASSUME NEW r \in Requests, AllInv, ThreadStep(r)
  PROVE  AllInv'
<1> USE DEF clientVars, requestVars, serviceVars, Sending
<1>1. call = [call EXCEPT ![r] = call[r]] /\ RequestInv(r)
  BY DEF AllInv, FunInv
<1>2. pc[r] \notin {"idle", "over"} => call[r].op \in DOMAIN OpsOf[library]
  BY <1>1 DEF RequestInv, SendingInv
<1>3. CASE GetProxy(r)
  <2>1. pc[r] = "lock" /\ (Goto(r, "ready") \/ Goto(r, "check")) /\ UNCHANGED <<library, call, serving, message, told>>
    BY <1>3 DEF GetProxy
  <2> QED
    BY <1>1, <1>2, <2>1, GetProxyTellsNobody
<1>4. CASE CheckSystemAbility(r)
  <2>1. pc[r] = "check" /\ UNCHANGED <<library, call, serving, message>>
    BY <1>4 DEF CheckSystemAbility
  <2>2. CASE NoProxy(r)
    BY <2>1, <2>2, EndOfCall DEF NoProxy
  <2>3. CASE Goto(r, "watch") /\ UNCHANGED told
    BY <1>1, <1>2, <2>1, <2>3, GetProxyTellsNobody
  <2> QED
    BY <1>4, <2>2, <2>3 DEF CheckSystemAbility
<1>5. CASE AddDeathRecipient(r)
  <2>1. pc[r] = "watch" /\ UNCHANGED <<library, call, serving, message>>
    BY <1>5 DEF AddDeathRecipient
  <2>2. CASE NoProxy(r)
    BY <2>1, <2>2, EndOfCall DEF NoProxy
  <2>3. CASE Goto(r, "store") /\ UNCHANGED told
    BY <1>1, <1>2, <2>1, <2>3, GetProxyTellsNobody
  <2> QED
    BY <1>5, <2>2, <2>3 DEF AddDeathRecipient
<1>6. CASE StoreProxy(r)
  <2>1. pc[r] = "store" /\ Goto(r, "ready") /\ UNCHANGED <<library, call, serving, message, told>>
    BY <1>6 DEF StoreProxy
  <2> QED
    BY <1>1, <1>2, <2>1, GetProxyTellsNobody
<1>7. CASE NoStub(r) \/ SetSurfaceId(r) \/ WriteFails(r) \/ SendFails(r)
  <2>1. PICK value, tells, result : End(r, value, tells, result)
    BY <1>7 DEF NoStub, SetSurfaceId, WriteFails, SendFails, Unsent
  <2>2. pc[r] = "ready" /\ UNCHANGED <<library, call, serving, message>>
    BY <1>7 DEF NoStub, SetSurfaceId, WriteFails, SendFails
  <2> QED
    BY <2>1, <2>2, EndOfCall
<1>8. CASE Send(r)
  <2>1. pc[r] = "ready" /\ serving' = [serving EXCEPT ![r] = "asked"] /\ UNCHANGED <<library, call, message>>
    BY <1>8 DEF Send
  <2>2. CASE Op(r).method.mode = "async"
    <3>1. PICK value : End(r, value, FALSE, "")
      BY <1>8, <2>2 DEF Send
    <3> QED
      BY <2>1, <3>1, EndOfCall
  <2>3. CASE Op(r).method.mode # "async"
    BY <1>8, <2>1, <2>3, SendAndWait DEF Send
  <2> QED
    BY <2>2, <2>3
<1>9. CASE Return(r)
  <2>1. pc[r] = "wait" /\ UNCHANGED <<library, call, serving, message>>
    BY <1>9 DEF Return
  <2>2. CASE \E value : End(r, value, FALSE, "")
    BY <2>1, <2>2, EndOfCall
  <2>3. CASE serving[r] = "died" /\ Unsent(r)
    <3>1. message[r] = <<>>
      BY <1>1, <2>3 DEF RequestInv, ServingInv
    <3> QED
      BY <2>1, <2>3, <3>1, LostReply
  <2> QED
    BY <1>9, <2>2, <2>3 DEF Return
<1> QED
  BY <1>3, <1>4, <1>5, <1>6, <1>7, <1>8, <1>9 DEF ThreadStep

\* What every request is told follows its stages, in every reachable state.
LEMMA AllInductive == Spec => []AllInv
<1>1. Init => AllInv
  BY ShortSequences
     DEF Init, AllInv, FunInv, RequestInv, SendingInv, ServingInv, ToldInv, OftenInv, WaitingInv, Sending
<1>2. AllInv /\ [Next]_vars => AllInv'
  <2> SUFFICES ASSUME AllInv, [Next]_vars
               PROVE  AllInv'
    OBVIOUS
  <2>1. ASSUME NEW r \in Requests, Begin(r)
        PROVE  AllInv'
    <3>1. PICK op \in OpsTried[r] \intersect DOMAIN OpsOf[library] : \E c \in Calls(op) : call' = [call EXCEPT ![r] = c]
      BY <2>1 DEF Begin
    <3>2. PICK c \in Calls(op) : call' = [call EXCEPT ![r] = c]
      BY <3>1
    <3>3. c.op \in DOMAIN OpsOf[library]
      BY <3>1, <3>2 DEF Calls
    <3>4. pc[r] = "idle" /\ Goto(r, "lock") /\ UNCHANGED <<library, serving, message, told>>
      BY <2>1 DEF Begin, clientVars, serviceVars
    <3> QED
      BY <3>2, <3>3, <3>4, GetProxyTellsNobody DEF Sending
  <2>2. ASSUME NEW r \in Requests, NullCallback(r)
        PROVE  AllInv'
    <3>1. PICK value : End(r, value, FALSE, "")
      BY <2>2 DEF NullCallback
    <3> QED
      BY <2>2, <3>1, EndOfCall DEF NullCallback, Sending, clientVars, serviceVars
  <2>3. ASSUME NEW r \in Requests, ThreadStep(r)
        PROVE  AllInv'
    BY <2>3, ThreadSteps
  <2>4. ASSUME NEW r \in Requests, ServiceStep(r)
        PROVE  AllInv'
    <3>1. CASE ReplyFails(r)
      BY <3>1, LostReply DEF ReplyFails, Serving, clientVars
    <3> QED
      BY <2>4, <3>1, ServingSteps, CallBackTells, ReplyTellsNobody DEF ServiceStep
  <2>5. CASE Die
    BY <2>5, DeathTellsNobody
  <2>6. CASE UNCHANGED <<library, requestVars, serviceVars>>
    BY <2>6 DEF requestVars, serviceVars, AllInv, FunInv, RequestInv, SendingInv, ServingInv, ToldInv,
       OftenInv, WaitingInv, Op
  <2>7. (Start \/ (\E g \in Services : ResetProxy(g)) \/ UNCHANGED vars) => UNCHANGED <<library, requestVars, serviceVars>>
    BY DEF Start, ResetProxy, vars, requestVars, serviceVars, clientVars
  <2> QED
    BY <2>1, <2>2, <2>3, <2>4, <2>5, <2>6, <2>7 DEF Next
<1> QED
  BY <1>1, <1>2, PTL DEF Spec

\* An application's callback is called once, though the service, its stub and the
\* library itself may each call it: but for what the service itself answers more than
\* once, which the library never adds to, and the two queries whose proxy answers
\* again when only the reply was lost.
THEOREM CallbackIsToldOnce == Spec => []ToldOnce
<1>1. AllInv => ToldOnce
  <2> SUFFICES ASSUME AllInv, NEW r \in Requests, Len(told[r]) > 1
               PROVE  \/ call[r].op \in OftenAnswered /\ \A i \in DOMAIN told[r] : told[r][i] = "result"
                      \/ call[r].op \in ToldTwice /\ told[r] = <<"info", "FAIL">>
    BY DEF ToldOnce, ToldTwice
  <2>1. ~Short(told[r])
    <3>1. Len(<<>>) = 0 /\ \A x : Len(<<x>>) = 1
      OBVIOUS
    <3>2. Short(told[r]) => told[r] = <<>> \/ \E x : told[r] = <<x>>
      BY Zenon DEF Short
    <3>3. told[r] # <<>>
      BY <3>1
    <3>4. ASSUME NEW x, told[r] = <<x>>
          PROVE  FALSE
      BY <3>1, <3>4
    <3> QED
      BY <3>2, <3>3, <3>4, Zenon
  <2>2. CASE call[r].op \in OftenAnswered
    <3>1. told[r] \in Results
      BY <2>1, <2>2 DEF AllInv, RequestInv, OftenInv
    <3> QED
      BY <2>2, <3>1, AnswerSequences
  <2>3. CASE call[r].op \notin OftenAnswered
    BY <2>1, <2>3 DEF AllInv, RequestInv, ToldInv
  <2> QED
    BY <2>2, <2>3
<1> QED
  BY <1>1, AllInductive, PTL

(***************************************************************************)
(* Nobody is kept waiting: of CallsReturn and AcceptedIsAnswered, which    *)
(* are liveness, the part that is safety.                                  *)
(***************************************************************************)

IsSequence(s) == \E S : s \in Seq(S)

\* The operations AcceptedIsAnswered is about.
Promised == (Enrolments \union Queries) \ {"USERIDM_GET_AUTH_INFO"}

\* The next call of the callback is one its stub passes on to the application.
CallIsDue(r) == message[r] # <<>> /\ Head(message[r]).how = CallbackOf(call[r].op)

\* A promise that the service has taken up is kept, or is about to be.
PromiseInv(r) ==
  call[r].op \in Promised /\ serving[r] \in {"replying", "later", "done"} =>
    told[r] # <<>> \/ CallIsDue(r)

\* A thread waits for a request that was sent.
ProgressInv(r) ==
  /\ IsSequence(told[r])
  /\ pc[r] = "wait" => serving[r] # "none"
  /\ PromiseInv(r)

\* A callback that is told something more has been told something.
LEMMA TellingAdds ==
  ASSUME NEW s, NEW x, IsSequence(s)
  PROVE  IsSequence(Append(s, x)) /\ Append(s, x) # <<>>
<1>1. PICK S : s \in Seq(S)
  BY DEF IsSequence
<1>2. s \in Seq(S \union {x})
  BY <1>1
<1>3. Append(s, x) \in Seq(S \union {x}) /\ Len(Append(s, x)) = Len(s) + 1 /\ Len(s) \in Nat
  BY <1>2
<1>4. IsSequence(Append(s, x))
  BY <1>3, Zenon DEF IsSequence
<1> QED
  BY <1>3, <1>4

\* What a step of request r must leave for its promise to stay kept.
LEMMA ProgressKept ==
  ASSUME NEW r \in Requests, ProgressInv(r), UNCHANGED call[r],
         told'[r] = told[r] \/ \E x : told'[r] = Append(told[r], x),
         pc'[r] = "wait" => serving'[r] # "none",
         \/ UNCHANGED <<serving[r], message[r]>>
         \/ serving'[r] \notin {"replying", "later", "done"}
         \/ message[r] = <<>> /\ serving[r] = "replying"
         \/ told'[r] # <<>>
         \/ CallIsDue(r)'
  PROVE  ProgressInv(r)'
<1>1. IsSequence(told'[r]) /\ (told[r] # <<>> => told'[r] # <<>>)
  BY TellingAdds DEF ProgressInv
<1>2. PromiseInv(r)'
  BY <1>1 DEF ProgressInv, PromiseInv, CallIsDue
<1> QED
  BY <1>1, <1>2 DEF ProgressInv

\* A step of one request leaves the others where they are.
LEMMA OthersProgress ==
  ASSUME NEW r \in Requests, \A q \in Requests : ProgressInv(q), OnlyOf(r), ProgressInv(r)'
  PROVE  \A q \in Requests : ProgressInv(q)'
BY DEF OnlyOf, ProgressInv, PromiseInv, CallIsDue

\* The application's threads promise nothing.
LEMMA ThreadProgress ==
  ASSUME NEW r \in Requests, AllInv, \A q \in Requests : ProgressInv(q),
         NullCallback(r) \/ ThreadStep(r) \/ ReplyFails(r)
  PROVE  \A q \in Requests : ProgressInv(q)'
<1> USE DEF clientVars, requestVars, serviceVars, AllInv, FunInv
<1>1. CASE \E value, tells, result : End(r, value, tells, result)
  <2>1. PICK value, tells, result : End(r, value, tells, result)
    BY <1>1
  <2>2. /\ OnlyOf(r) /\ UNCHANGED call[r] /\ pc'[r] = "over"
        /\ told'[r] = told[r] \/ \E x : told'[r] = Append(told[r], x)
    <3>1. told'[r] = told[r] \/ told'[r] = Append(told[r], result)
      BY <2>1 DEF End, Goto, Tell
    <3>2. /\ \A q \in Requests \ {r} : pc'[q] = pc[q] /\ told'[q] = told[q]
          /\ pc'[r] = "over"
      BY <2>1 DEF End, Goto, Tell
    <3>3. /\ UNCHANGED <<library, call, message>>
          /\ \A q \in Requests \ {r} : serving'[q] = serving[q]
      BY DEF NullCallback, ThreadStep, GetProxy, CheckSystemAbility, AddDeathRecipient, StoreProxy, NoStub,
         SetSurfaceId, WriteFails, Send, SendFails, Return, ReplyFails, Serving
    <3> QED
      BY <3>1, <3>2, <3>3 DEF OnlyOf
  <2>3. \/ UNCHANGED <<serving[r], message[r]>>
        \/ serving'[r] \notin {"replying", "later", "done"}
        \/ message[r] = <<>> /\ serving[r] = "replying"
    BY DEF NullCallback, ThreadStep, GetProxy, CheckSystemAbility, AddDeathRecipient, StoreProxy, NoStub,
       SetSurfaceId, WriteFails, Send, SendFails, Return, ReplyFails, Serving
  <2> QED
    BY <2>2, <2>3, ProgressKept, OthersProgress
<1>2. CASE UNCHANGED <<library, call, message, told>> /\ \E label \in Sending : Goto(r, label) /\ UNCHANGED serving
  <2>1. OnlyOf(r) /\ pc'[r] # "wait" /\ UNCHANGED <<told[r], call[r], message[r], serving[r]>>
    BY <1>2 DEF OnlyOf, Goto, Sending
  <2> QED
    BY <2>1, ProgressKept, OthersProgress
<1>3. CASE Send(r) /\ Goto(r, "wait") /\ UNCHANGED told
  <2>1. OnlyOf(r) /\ serving'[r] = "asked" /\ UNCHANGED <<told[r], call[r], message[r]>>
    BY <1>3 DEF Send, OnlyOf, Goto
  <2> QED
    BY <2>1, ProgressKept, OthersProgress
<1>4. ReplyFails(r) \/ NullCallback(r) \/ NoStub(r) \/ SetSurfaceId(r) \/ WriteFails(r) \/ SendFails(r) \/ Return(r)
        => \E value, tells, result : End(r, value, tells, result)
  BY Zenon DEF ReplyFails, NullCallback, NoStub, SetSurfaceId, WriteFails, SendFails, Return, Unsent
<1>5. GetProxy(r) \/ StoreProxy(r) =>
        UNCHANGED <<library, call, message, told>> /\ \E label \in Sending : Goto(r, label) /\ UNCHANGED serving
  BY DEF GetProxy, StoreProxy, Sending
<1>6. CheckSystemAbility(r) \/ AddDeathRecipient(r) =>
        \/ \E value, tells, result : End(r, value, tells, result)
        \/ UNCHANGED <<library, call, message, told>> /\ \E label \in Sending : Goto(r, label) /\ UNCHANGED serving
  <2>1. NoProxy(r) => \E value, tells, result : End(r, value, tells, result)
    BY Zenon DEF NoProxy
  <2>2. CheckSystemAbility(r) \/ AddDeathRecipient(r) =>
          \/ NoProxy(r)
          \/ UNCHANGED told /\ \E label \in Sending : Goto(r, label)
    BY DEF CheckSystemAbility, AddDeathRecipient, Sending
  <2>3. CheckSystemAbility(r) \/ AddDeathRecipient(r) => UNCHANGED <<library, call, message, serving>>
    BY DEF CheckSystemAbility, AddDeathRecipient
  <2> QED
    BY <2>1, <2>2, <2>3
<1>7. Send(r) => \/ \E value, tells, result : End(r, value, tells, result)
                 \/ Goto(r, "wait") /\ UNCHANGED told
  <2>1. ASSUME Send(r), Op(r).method.mode = "async"
        PROVE  \E value, tells, result : End(r, value, tells, result)
    BY <2>1, Zenon DEF Send
  <2> QED
    BY <2>1 DEF Send
<1> QED
  BY <1>1, <1>2, <1>3, <1>4, <1>5, <1>6, <1>7 DEF ThreadStep

\* What the service takes up it answers: the calls of the callback it is about to
\* make are on a method whose stub passes them on.
LEMMA ServiceProgress ==
  ASSUME NEW r \in Requests, AllInv, \A q \in Requests : ProgressInv(q),
         \/ ServeQuery(r) \/ ServeProperty(r) \/ ServeSchedule(r) \/ ServeDeletion(r) \/ ServeCall(r)
         \/ CallBack(r) \/ Reply(r)
  PROVE  \A q \in Requests : ProgressInv(q)'
<1> USE DEF clientVars, requestVars, AllInv, FunInv
<1>1. OnlyOf(r) /\ UNCHANGED <<pc[r], call[r]>>
  BY DEF ServeQuery, ServeProperty, ServeSchedule, ServeDeletion, ServeCall, CallBack, Reply, OnlyOf,
     Serving, Calling, Tell
<1>2. pc'[r] = "wait" => serving'[r] # "none"
  BY <1>1 DEF ServeQuery, ServeProperty, ServeSchedule, ServeDeletion, ServeCall, CallBack, Reply, Serving,
     ProgressInv
<1>3. \A x : x.op \in Promised => CallbackOf(x.op) = "onResult"
  BY DEF Promised, CallbackOf, Enrolments, Queries, PropertyQueries
<1>4. \A result : Head(<<Sent("onResult", result)>>).how = "onResult" /\ <<Sent("onResult", result)>> # <<>>
  BY ShortSequences DEF Sent
<1> SUFFICES ProgressInv(r)'
  BY <1>1, OthersProgress
<1>5. CASE ServeQuery(r)
  <2>1. told'[r] = told[r]
    BY <1>5 DEF ServeQuery
  <2>2. CASE call[r].op \in Promised
    <3>1. message'[r] = <<Sent("onResult", "info")>>
      BY <1>5, <2>2 DEF ServeQuery, Calling, Promised
    <3>2. CallIsDue(r)'
      BY <1>1, <1>3, <1>4, <2>2, <3>1 DEF CallIsDue
    <3> QED
      BY <1>1, <1>2, <2>1, <3>2, ProgressKept
  <2>3. CASE call[r].op \notin Promised
    BY <1>1, <1>2, <2>1, <2>3 DEF ProgressInv, PromiseInv
  <2> QED
    BY <2>2, <2>3
<1>6. CASE ServeProperty(r) \/ ServeCall(r)
  <2>1. told'[r] = told[r] /\ call[r].op \notin Promised
    BY <1>6 DEF ServeProperty, ServeCall, Promised, PropertyQueries, Enrolments, Queries, WithCallback
  <2> QED
    BY <1>1, <1>2, <2>1 DEF ProgressInv, PromiseInv
<1>7. CASE ServeSchedule(r)
  <2>1. told'[r] = told[r]
    BY <1>7 DEF ServeSchedule
  <2>2. CASE call[r].op \in Promised
    <3>1. PICK n \in 0..MaxAnswers :
            /\ n = 0 => call[r].op \in Authentications
            /\ Calling(r, [i \in 1..n |-> Answer])
      BY <1>7 DEF ServeSchedule, Answer
    <3>2. n \in Nat /\ n > 0
      BY <2>2, <3>1, ClientAssumption DEF Promised, Enrolments, Queries, Authentications
    <3>3. message'[r] = [i \in 1..n |-> Answer]
      BY <3>1 DEF Calling
    <3>4. message'[r] # <<>> /\ Head(message'[r]) = Answer
      BY <3>2, <3>3, ManyAnswers, AnswerSequences
    <3>5. CallIsDue(r)'
      BY <1>1, <1>3, <2>2, <3>4 DEF CallIsDue, Answer, Sent
    <3> QED
      BY <1>1, <1>2, <2>1, <3>5, ProgressKept
  <2>3. CASE call[r].op \notin Promised
    BY <1>1, <1>2, <2>1, <2>3 DEF ProgressInv, PromiseInv
  <2> QED
    BY <2>2, <2>3
<1>8. CASE ServeDeletion(r)
  <2>1. told'[r] = told[r] /\ call[r].op \notin Promised
    BY <1>8 DEF ServeDeletion, Promised, Enrolments, Queries, UserDeletions
  <2> QED
    BY <1>1, <1>2, <2>1 DEF ProgressInv, PromiseInv
<1>9. CASE CallBack(r)
  <2>1. told'[r] = told[r] \/ told'[r] = Append(told[r], Head(message[r]).result)
    BY <1>9 DEF CallBack, Tell
  <2>2. message[r] # <<>> /\ serving[r] \in {"replying", "later"}
    BY <1>9 DEF CallBack, RequestInv, ServingInv
  <2>3. CASE call[r].op \in Promised
    <3>1. CASE told[r] # <<>>
      BY <1>1, <1>2, <2>1, <3>1, TellingAdds, ProgressKept DEF ProgressInv
    <3>2. CASE told[r] = <<>>
      <4>1. CallIsDue(r)
        BY <2>2, <2>3, <3>2 DEF ProgressInv, PromiseInv
      <4>2. told'[r] = Append(told[r], Head(message[r]).result)
        BY <1>9, <4>1 DEF CallBack, Tell, CallIsDue
      <4>3. told'[r] # <<>>
        BY <4>2, TellingAdds DEF ProgressInv
      <4> QED
        BY <1>1, <1>2, <4>2, <4>3, ProgressKept
    <3> QED
      BY <3>1, <3>2
  <2>4. CASE call[r].op \notin Promised
    BY <1>1, <1>2, <2>1, <2>4, TellingAdds DEF ProgressInv, PromiseInv
  <2> QED
    BY <2>3, <2>4
<1>10. CASE Reply(r)
  BY <1>1, <1>2, <1>10, ProgressKept DEF Reply
<1> QED
  BY <1>5, <1>6, <1>7, <1>8, <1>9, <1>10

\* No request loses its way to an answer, in every reachable state.
LEMMA ProgressInductive == Spec => [](\A r \in Requests : ProgressInv(r))
<1>1. Init => \A r \in Requests : ProgressInv(r)
  <2>1. IsSequence(<<>>)
    <3>1. <<>> \in Seq({})
      OBVIOUS
    <3> QED
      BY <3>1, Zenon DEF IsSequence
  <2> QED
    BY <2>1 DEF Init, ProgressInv, PromiseInv
<1>2. AllInv /\ (\A r \in Requests : ProgressInv(r)) /\ [Next]_vars => (\A r \in Requests : ProgressInv(r))'
  <2> SUFFICES ASSUME AllInv, \A r \in Requests : ProgressInv(r), [Next]_vars
               PROVE  \A r \in Requests : ProgressInv(r)'
    OBVIOUS
  <2>1. ASSUME NEW r \in Requests, Begin(r)
        PROVE  \A q \in Requests : ProgressInv(q)'
    <3>1. /\ OnlyOf(r) /\ pc'[r] = "lock"
          /\ UNCHANGED <<told[r], serving[r], message[r]>>
      BY <2>1 DEF Begin, OnlyOf, Goto, AllInv, FunInv, clientVars, serviceVars
    <3>2. serving[r] = "none"
      BY <2>1 DEF AllInv, RequestInv, SendingInv, Sending, Begin
    <3> QED
      BY <3>1, <3>2, OthersProgress DEF ProgressInv, PromiseInv
  <2>2. ASSUME NEW r \in Requests, NullCallback(r) \/ ThreadStep(r) \/ ServiceStep(r)
        PROVE  \A q \in Requests : ProgressInv(q)'
    BY <2>2, ThreadProgress, ServiceProgress DEF ServiceStep
  <2>3. CASE Die
    <3> TAKE r \in Requests
    <3>1. /\ UNCHANGED <<pc[r], call[r], told[r]>>
          /\ serving'[r] = IF serving[r] \in {"none", "done"} THEN serving[r] ELSE "died"
          /\ message'[r] = <<>>
      BY <2>3 DEF Die, clientVars, requestVars
    <3>2. serving[r] \in {"none", "done"} => message[r] = <<>>
      BY DEF AllInv, RequestInv, ServingInv
    <3> QED
      BY <3>1, <3>2, ProgressKept DEF ProgressInv
  <2>4. CASE UNCHANGED <<library, requestVars, serviceVars>>
    BY <2>4 DEF requestVars, serviceVars, ProgressInv, PromiseInv, CallIsDue
  <2>5. (Start \/ (\E g \in Services : ResetProxy(g)) \/ UNCHANGED vars) => UNCHANGED <<library, requestVars, serviceVars>>
    BY DEF Start, ResetProxy, vars, requestVars, serviceVars, clientVars
  <2> QED
    BY <2>1, <2>2, <2>3, <2>4, <2>5 DEF Next
<1> QED
  BY <1>1, <1>2, AllInductive, PTL DEF Spec

\* A callback the service owes an answer has it, or the service is about to make a
\* call that the callback's stub passes on to the application; or the service died
\* before. The safety half of AcceptedIsAnswered.
AnswerIsOnItsWay ==
  \A r \in Requests :
    call[r].op \in Promised /\ serving[r] # "none" =>
      serving[r] \in {"asked", "died"} \/ told[r] # <<>> \/ CallIsDue(r)

\* Whatever addition, update or query a live service has taken up, the callback was
\* told or is about to be: no way through its handlers forgets it.
THEOREM AnswersAreOnTheirWay == Spec => []AnswerIsOnItsWay
<1>1. AllInv /\ (\A r \in Requests : ProgressInv(r)) => AnswerIsOnItsWay
  BY DEF AllInv, RequestInv, ServingInv, ProgressInv, PromiseInv, AnswerIsOnItsWay
<1> QED
  BY <1>1, AllInductive, ProgressInductive, PTL

\* A call that has not returned has a step of its own to take, or mutex_ is held by
\* one between GetProxy and its end that has, or it waits for a service that has
\* its request. The safety half of CallsReturn.
NobodyIsKept ==
  \A r \in Requests :
    pc[r] \notin {"idle", "over"} =>
      \/ pc[r] = "lock" /\ (lock # Free => lock \in Requests /\ pc[lock] \in Locked)
      \/ pc[r] \in Locked \union {"ready"}
      \/ pc[r] = "wait" /\ serving[r] \in {"asked", "replying", "later", "done", "died"}

\* No call of a library blocks another for good: mutex_ is released on every way
\* through GetProxy, and nobody waits for a reply to a request that was not sent.
THEOREM CallsGoOn == Spec => []NobodyIsKept
<1>1. IInv /\ AllInv /\ (\A r \in Requests : ProgressInv(r)) => NobodyIsKept
  <2> SUFFICES ASSUME IInv, AllInv, NEW r \in Requests, ProgressInv(r), pc[r] \notin {"idle", "over"}
               PROVE  \/ pc[r] = "lock" /\ (lock # Free => lock \in Requests /\ pc[lock] \in Locked)
                      \/ pc[r] \in Locked \union {"ready"}
                      \/ pc[r] = "wait" /\ serving[r] \in {"asked", "replying", "later", "done", "died"}
    BY DEF NobodyIsKept
  <2>1. lock # Free => lock \in Requests /\ pc[lock] \in Locked
    BY ClientAssumption DEF IInv, TypeOK, LockInv
  <2>2. pc[r] = "wait" => serving[r] \in {"asked", "replying", "later", "done", "died"}
    BY DEF AllInv, RequestInv, ServingInv, ProgressInv
  <2>3. pc[r] \in {"lock", "check", "watch", "store", "ready", "wait"}
    BY DEF IInv, TypeOK
  <2> QED
    BY <2>1, <2>2, <2>3 DEF Locked
<1> QED
  BY <1>1, Inductive, AllInductive, ProgressInductive, PTL

(***************************************************************************)
(* One call through a proxy and its stub: proofs about IpcCalls, which has *)
(* the parcels of the calls ClientIpc makes, for lists of credentials of   *)
(* every length and whatever attributes are set.                           *)
(***************************************************************************)

\* The methods that report success whatever happened to them, and those whose stub
\* returns the service's error to the Binder.
Unheard == {"COAUTH_SEND_DATA", "COAUTH_FINISH"}
Dropped == {"USERIDM_CANCEL", "USERIDM_CANCEL_BY_ID", "USERIDM_ENFORCE_DELUSER"}

\* A method of a proxy and the stub that serves it: the same fields, and what the
\* two return.
Meets(op, method, handler) ==
  /\ method.fields = handler.fields
  /\ method.unwritten # "SUCCESS"
  /\ method.unsent = "SUCCESS" => op \in Unheard
  /\ method.mode # "sync" /\ method.reply # <<>> => op = "USERIDM_ENFORCE_DELUSER"
  /\ op = "USERIDM_ENFORCE_DELUSER" => method.mode # "sync"
  /\ handler.orphan # "SUCCESS"
  /\ handler.code = "ret" => op \in Dropped

\* A proxy's table and a stub's have the same methods, and each meets its stub.
Agree(methods, handlers) ==
  /\ DOMAIN methods = DOMAIN handlers
  /\ \A op \in DOMAIN methods : Meets(op, methods[op], handlers[op])

\* Tables that agree group by group agree.
LEMMA AgreeOverlaid ==
  ASSUME NEW f, NEW g, NEW h, NEW k, Agree(f, h), Agree(g, k)
  PROVE  Agree(f ++ g, h ++ k)
BY DEF Agree, ++

LEMMA OverlayAssociates ==
  ASSUME NEW f, NEW g, NEW h
  PROVE  (f ++ g) ++ h = f ++ (g ++ h)
BY DEF ++

\* The fields of a method and of a stub are what they are made from.
LEMMA MethodHas ==
  ASSUME NEW f, NEW m, NEW r, NEW w, NEW s
  PROVE  /\ Method(f, m, r, w, s).fields = f /\ Telling(Method(f, m, r, w, s)).fields = f
         /\ Method(f, m, r, w, s).mode = m /\ Telling(Method(f, m, r, w, s)).mode = m
         /\ Method(f, m, r, w, s).reply = r /\ Telling(Method(f, m, r, w, s)).reply = r
         /\ Method(f, m, r, w, s).unwritten = w /\ Telling(Method(f, m, r, w, s)).unwritten = w
         /\ Method(f, m, r, w, s).unsent = s /\ Telling(Method(f, m, r, w, s)).unsent = s
BY DEF Method, Telling

LEMMA HandlerHas ==
  ASSUME NEW f, NEW o, NEW r, NEW c
  PROVE  /\ Handler(f, o, r, c).fields = f /\ Handler(f, o, r, c).orphan = o
         /\ Handler(f, o, r, c).code = c
BY DEF Handler

\* Every method of every proxy has the stub it needs, in the other file.
LEMMA TablesAgree == Agree(FixedMethods, FixedHandlers)
<1> USE MethodHas, HandlerHas DEF Meets, Unheard, Dropped
<1>1. Agree(SessionMethods, SessionHandlers)
  BY DEF Agree, SessionMethods, SessionHandlers
<1>2. Agree(QueryMethods, QueryHandlers)
  BY DEF Agree, QueryMethods, QueryHandlers
<1>3. Agree(EnrolMethods, EnrolHandlers)
  <2>1. CredInfoFields = CredInfoReads
    BY DEF CredInfoFields, CredInfoReads
  <2> QED
    BY <2>1 DEF Agree, EnrolMethods, EnrolHandlers
<1>4. Agree(CancelMethods ++ DeleteMethods, CancelHandlers ++ DeleteHandlers)
  <2> DEFINE written == CancelMethods ++ DeleteMethods
             read == CancelHandlers ++ DeleteHandlers
             shared == {"USERIDM_CANCEL", "USERIDM_CANCEL_BY_ID"}
             enforce == "USERIDM_ENFORCE_DELUSER"
             rest == {"USERIDM_DELUSER", "USERIDM_DELUSER_BY_ID", "USERIDM_DELCRED", "USERIDM_DELCREDENTIAL"}
  <2>1. /\ DOMAIN written = shared \union {enforce} \union rest
        /\ \A op \in shared : written[op] = CancelMethods[op]
        /\ \A op \in {enforce} \union rest : written[op] = DeleteMethods[op]
    BY DEF ++, CancelMethods, DeleteMethods
  <2>2. /\ DOMAIN read = shared \union {enforce} \union rest
        /\ \A op \in shared \union {enforce} : read[op] = CancelHandlers[op]
        /\ \A op \in rest : read[op] = DeleteHandlers[op]
    BY DEF ++, CancelHandlers, DeleteHandlers
  <2> HIDE DEF written, read
  <2>3. \A op \in shared : Meets(op, written[op], read[op])
    BY <2>1, <2>2 DEF CancelMethods, CancelHandlers
  <2>4. Meets(enforce, written[enforce], read[enforce])
    BY <2>1, <2>2 DEF CancelHandlers, DeleteMethods
  <2>5. \A op \in rest : Meets(op, written[op], read[op])
    BY <2>1, <2>2 DEF DeleteMethods, DeleteHandlers
  <2> HIDE DEF shared, enforce, rest, Meets
  <2>6. Agree(written, read)
    BY <2>1, <2>2, <2>3, <2>4, <2>5 DEF Agree
  <2> QED
    BY <2>6 DEF written, read
<1>5. Agree(IdmCallbackMethods, IdmCallbackHandlers)
  BY DEF Agree, IdmCallbackMethods, IdmCallbackHandlers
<1>6. Agree(PropertyMethods, PropertyHandlers ++ SetPropertyHandler)
  <2> DEFINE read == PropertyHandlers ++ SetPropertyHandler
  <2>1. DOMAIN read = DOMAIN PropertyMethods
    BY DEF ++, PropertyMethods, PropertyHandlers, SetPropertyHandler
  <2>2. /\ \A op \in DOMAIN PropertyHandlers : read[op] = PropertyHandlers[op]
        /\ read["USER_AUTH_SET_PROPERTY"] = SetPropertyHandler["USER_AUTH_SET_PROPERTY"]
    BY DEF ++, PropertyHandlers, SetPropertyHandler
  <2> HIDE DEF read
  <2>3. \A op \in DOMAIN PropertyMethods : Meets(op, PropertyMethods[op], read[op])
    BY <2>2 DEF PropertyMethods, PropertyHandlers, SetPropertyHandler
  <2> QED
    BY <2>1, <2>3 DEF Agree, read
<1>7. Agree(AuthMethods, AuthHandlers)
  BY DEF Agree, AuthMethods, AuthHandlers
<1>8. Agree(AsyncMethods, AsyncHandlers)
  BY DEF Agree, AsyncMethods, AsyncHandlers
<1>9. Agree(CoAuthMethods, CoAuthHandlers)
  <2>1. AuthExecutorFields = AuthExecutorReads
    BY DEF AuthExecutorFields, AuthExecutorReads
  <2> QED
    BY <2>1 DEF Agree, CoAuthMethods, CoAuthHandlers
<1>10. Agree(ReadyMethod ++ (ExecuteMethods ++ ExecutorPropertyMethods), ExecutorHandlers)
  <2> DEFINE executor == ReadyMethod ++ (ExecuteMethods ++ ExecutorPropertyMethods)
  <2>1. DOMAIN executor = DOMAIN ExecutorHandlers
    BY DEF ++, ReadyMethod, ExecuteMethods, ExecutorPropertyMethods, ExecutorHandlers
  <2>2. /\ executor["ON_MESSENGER_READY"] = ReadyMethod["ON_MESSENGER_READY"]
        /\ \A op \in {"ON_BEGIN_EXECUTE", "ON_END_EXECUTE"} : executor[op] = ExecuteMethods[op]
        /\ \A op \in {"ON_SET_PROPERTY", "ON_GET_PROPERTY"} : executor[op] = ExecutorPropertyMethods[op]
    BY DEF ++, ReadyMethod, ExecuteMethods, ExecutorPropertyMethods
  <2> HIDE DEF executor
  <2>3. \A op \in DOMAIN ExecutorHandlers : Meets(op, executor[op], ExecutorHandlers[op])
    BY <2>2 DEF ReadyMethod, ExecuteMethods, ExecutorPropertyMethods, ExecutorHandlers
  <2> QED
    BY <2>1, <2>3 DEF Agree, executor
<1>11. Agree(MessengerMethods, MessengerHandlers)
  BY DEF Agree, MessengerMethods, MessengerHandlers
<1>12. Agree(QueryResultMethod, QueryResultHandler)
  BY DEF Agree, QueryResultMethod, QueryResultHandler
<1>13. Agree([ON_GET_SEC_INFO |-> OnGetSecInfoMethod], [ON_GET_SEC_INFO |-> OnGetSecInfoHandler])
  BY DEF Agree, OnGetSecInfoMethod, OnGetSecInfoHandler
<1>14. Agree(IdmMethods, IdmHandlers)
  BY <1>1, <1>2, <1>3, <1>4, AgreeOverlaid, OverlayAssociates DEF IdmMethods, IdmHandlers
<1>15. Agree(UserAuthMethods, UserAuthHandlers)
  BY <1>6, <1>7, AgreeOverlaid DEF UserAuthMethods, UserAuthHandlers
<1> QED
  BY <1>5, <1>8, <1>9, <1>10, <1>11, <1>12, <1>13, <1>14, <1>15, AgreeOverlaid, OverlayAssociates
     DEF FixedMethods, FixedHandlers

\* So does every call, the list of OnGetInfo of any length included.
LEMMA EveryCallMeets ==
  ASSUME NEW c \in Invocations
  PROVE  Meets(c.op, MethodOf(c), HandlerOf(c))
<1>1. CASE c.op = "ON_GET_INFO"
  <2>1. \A i : CredentialFields(i) = CredentialReads(i)
    BY DEF CredentialFields, CredentialReads
  <2> DEFINE written == [f \in 1..(4 * c.n) |-> CredentialFields(((f - 1) \div 4) + 1)[((f - 1) % 4) + 1]]
             read    == [f \in 1..(4 * c.n) |-> CredentialReads(((f - 1) \div 4) + 1)[((f - 1) % 4) + 1]]
  <2>2. written = read
    BY <2>1, Zenon
  <2>3. /\ OnGetInfoMethod(c.n) = Method(<<Word("n")>> \o written, "sync", <<>>, "void", "void")
        /\ OnGetInfoHandler(c.n) = Handler(<<Word("n")>> \o read, "none", <<>>, "SUCCESS")
    BY Zenon DEF OnGetInfoMethod, OnGetInfoHandler
  <2> HIDE DEF written, read
  <2>4. Meets("ON_GET_INFO", OnGetInfoMethod(c.n), OnGetInfoHandler(c.n))
    BY <2>2, <2>3, MethodHas, HandlerHas DEF Meets
  <2> QED
    BY <1>1, <2>4 DEF MethodOf, HandlerOf
<1>2. CASE c.op # "ON_GET_INFO"
  <2>1. c.op \in DOMAIN FixedMethods
    BY <1>2 DEF Invocations
  <2> QED
    BY <1>2, <2>1, TablesAgree DEF Agree, MethodOf, HandlerOf
<1> QED
  BY <1>1, <1>2

\* A stub that reads the fields that were written, in their shapes, reads them all.
LEMMA ReadsWhatWasWritten ==
  ASSUME NEW fields
  PROVE  ReadAll(fields, fields) = Names(fields)
BY DEF ReadAll, Names, ReadAt

(***************************************************************************)
(* AuthAttributes: numbers, values and fields in bytes                     *)
(***************************************************************************)

Byte == 0..255
Types == {"bool", "uint32", "uint64", "uint64s", "uint8s"}

\* The tag of every attribute fits in the four bytes Pack gives it.
LEMMA TagsAreWords ==
  /\ AUTH_SIGNATURE \in Tags /\ Position[AUTH_SIGNATURE] = "uint8s"
  /\ \A t \in Tags : IsWord(t) /\ Position[t] \in Types
BY SMTT(60) DEF Tags, Position, ++, AUTH_SIGNATURE, ALGORITHM_INFO, IsWord, Types

\* What putting one array behind another does, byte by byte.
LEMMA Concatenation ==
  ASSUME NEW S, NEW x \in Seq(S), NEW y \in Seq(S)
  PROVE  /\ x \o y \in Seq(S) /\ Len(x \o y) = Len(x) + Len(y)
         /\ Len(x) \in Nat /\ Len(y) \in Nat
         /\ \A i \in 1..Len(x) : (x \o y)[i] = x[i]
         /\ \A i \in 1..Len(y) : (x \o y)[Len(x) + i] = y[i]
<1>1. x \o y \in Seq(S) /\ Len(x \o y) = Len(x) + Len(y) /\ Len(x) \in Nat /\ Len(y) \in Nat
  BY SMT
<1>2. ASSUME NEW i \in 1..Len(x) PROVE (x \o y)[i] = x[i]
  BY SMT
<1>3. ASSUME NEW i \in 1..Len(y) PROVE (x \o y)[Len(x) + i] = y[i]
  BY SMT
<1> QED
  BY <1>1, <1>2, <1>3

\* Each byte of a word is a byte, and each of a long one.
LEMMA EveryByte ==
  ASSUME NEW v \in Nat
  PROVE  \A i \in 1..4 : ByteOf(v, i) \in Byte
<1>1. /\ v % 256 \in 0..255 /\ (v \div 256) % 256 \in 0..255
      /\ (v \div 65536) % 256 \in 0..255 /\ (v \div 16777216) % 256 \in 0..255
  BY SMT
<1> QED
  BY <1>1, SMT DEF ByteOf, Byte

LEMMA EveryLongByte ==
  ASSUME NEW v \in Nat \X Nat
  PROVE  \A i \in 1..8 : LongByte(v, i) \in Byte
<1>1. v[1] \in Nat /\ v[2] \in Nat
  OBVIOUS
<1>2. ASSUME NEW i \in 1..8 PROVE LongByte(v, i) \in Byte
  <2>1. CASE i <= 4
    <3>1. i \in 1..4
      BY <2>1, SMT
    <3> QED
      BY <1>1, <2>1, <3>1, EveryByte DEF LongByte
  <2>2. CASE ~(i <= 4)
    <3>1. i - 4 \in 1..4
      BY <2>2, SMT
    <3> QED
      BY <1>1, <2>2, <3>1, EveryByte DEF LongByte
  <2> QED
    BY <2>1, <2>2
<1> QED
  BY <1>2

\* A number below 2^32 is the sum of its bytes.
LEMMA WordBytes ==
  ASSUME NEW v, IsWord(v)
  PROVE  v = ByteOf(v, 1) + 256 * ByteOf(v, 2) + 65536 * ByteOf(v, 3) + 16777216 * ByteOf(v, 4)
<1>1. v = (v % 256) + 256 * ((v \div 256) % 256) + 65536 * ((v \div 65536) % 256)
                + 16777216 * ((v \div 16777216) % 256)
  BY SMT DEF IsWord
<1>2. /\ ByteOf(v, 1) = v % 256 /\ ByteOf(v, 2) = (v \div 256) % 256
      /\ ByteOf(v, 3) = (v \div 65536) % 256 /\ ByteOf(v, 4) = (v \div 16777216) % 256
  BY SMT DEF ByteOf
<1> QED
  BY <1>1, <1>2, SMT

\* The first bytes of a number, and how many of them there are.
LEMMA NumberBytes ==
  ASSUME NEW v \in Nat, NEW n \in 0..4
  PROVE  /\ LittleEndian(v, n) \in Seq(Byte) /\ Len(LittleEndian(v, n)) = n
         /\ \A i \in 1..n : LittleEndian(v, n)[i] = ByteOf(v, i)
<1>1. \A i \in 1..n : ByteOf(v, i) \in Byte
  BY EveryByte, SMT
<1> QED
  BY <1>1, SMT DEF LittleEndian

\* GetUint32FromUint8 reads the number whose bytes are there.
LEMMA WordRead ==
  ASSUME NEW b \in Seq(Byte), NEW at \in Nat, NEW v, IsWord(v), at + 4 <= Len(b),
         \A i \in 1..4 : b[at + i] = ByteOf(v, i)
  PROVE  WordAt(b, at) = v
<1>1. b[at + 1] = ByteOf(v, 1) /\ b[at + 2] = ByteOf(v, 2) /\ b[at + 3] = ByteOf(v, 3) /\ b[at + 4] = ByteOf(v, 4)
  OBVIOUS
<1>2. Len(b) \in Nat
  OBVIOUS
<1> QED
  BY <1>1, <1>2, WordBytes, SMT DEF WordAt

\* GetUint64FromUint8 reads the two words whose bytes are there.
LEMMA LongRead ==
  ASSUME NEW b \in Seq(Byte), NEW at \in Nat, NEW v, IsLong(v), at + 8 <= Len(b),
         \A i \in 1..8 : b[at + i] = LongByte(v, i)
  PROVE  LongAt(b, at) = v
<1>1. v \in Nat \X Nat /\ IsWord(v[1]) /\ IsWord(v[2])
  BY DEF IsLong
<1>2. at + 4 \in Nat /\ at + 4 <= Len(b) /\ at + 4 + 4 <= Len(b) /\ Len(b) \in Nat
  BY SMT
<1>3. ASSUME NEW i \in 1..4 PROVE b[at + i] = ByteOf(v[1], i)
  <2>1. i \in 1..8 /\ i <= 4
    BY SMT
  <2> QED
    BY <2>1 DEF LongByte
<1>4. ASSUME NEW i \in 1..4 PROVE b[at + 4 + i] = ByteOf(v[2], i)
  <2>1. i + 4 \in 1..8 /\ ~(i + 4 <= 4) /\ (i + 4) - 4 = i /\ at + (i + 4) = at + 4 + i
    BY SMT
  <2>2. b[at + (i + 4)] = LongByte(v, i + 4)
    BY <2>1
  <2>3. LongByte(v, i + 4) = ByteOf(v[2], (i + 4) - 4)
    BY <2>1 DEF LongByte
  <2> QED
    BY <2>1, <2>2, <2>3
<1>5. WordAt(b, at) = v[1]
  BY <1>1, <1>2, <1>3, WordRead
<1>6. WordAt(b, at + 4) = v[2]
  BY <1>1, <1>2, <1>4, WordRead
<1>7. v = <<v[1], v[2]>>
  BY <1>1
<1> QED
  BY <1>5, <1>6, <1>7 DEF LongAt

\* What may be packed for a tag.
Packable(t, v) == IsValue(Position[t], v) \/ (Position[t] = "uint8s" /\ v = Missing)

\* PackToBuffer makes bytes of every value, as many as the type says.
LEMMA PayloadBytes ==
  ASSUME NEW t \in Tags, NEW v, Packable(t, v)
  PROVE  Payload(t, v) \in Seq(Byte) /\ IsWord(Len(Payload(t, v)))
<1>0. IsWord(1) /\ IsWord(4) /\ IsWord(8)
  BY SMT DEF IsWord
<1>1. Position[t] \in Types
  BY TagsAreWords
<1>2. CASE Position[t] = "bool"
  <2>1. v \in Nat
    BY <1>2, SMT DEF Packable, IsValue
  <2>2. Payload(t, v) = LittleEndian(v, 1)
    BY <1>2, SMT DEF Payload
  <2>3. 1 \in 0..4
    BY SMT
  <2>4. LittleEndian(v, 1) \in Seq(Byte) /\ Len(LittleEndian(v, 1)) = 1
    BY <2>1, <2>3, NumberBytes, Zenon
  <2> QED
    BY <1>0, <2>2, <2>4, Zenon
<1>3. CASE Position[t] = "uint32"
  <2>1. v \in Nat
    BY <1>3, SMT DEF Packable, IsValue, IsWord
  <2>2. Payload(t, v) = LittleEndian(v, 4)
    BY <1>3, SMT DEF Payload
  <2>3. 4 \in 0..4
    BY SMT
  <2>4. LittleEndian(v, 4) \in Seq(Byte) /\ Len(LittleEndian(v, 4)) = 4
    BY <2>1, <2>3, NumberBytes, Zenon
  <2> QED
    BY <1>0, <2>2, <2>4, Zenon
<1>4. CASE Position[t] = "uint64"
  <2>1. v \in Nat \X Nat
    BY <1>4, SMT DEF Packable, IsValue, IsLong
  <2>2. Payload(t, v) = [i \in 1..8 |-> LongByte(v, i)]
    BY <1>4, SMT DEF Payload
  <2>3. \A i \in 1..8 : LongByte(v, i) \in Byte
    BY <2>1, EveryLongByte
  <2> QED
    BY <1>0, <2>2, <2>3, SMT
<1>5. CASE Position[t] = "uint8s"
  <2>1. (v \in Seq(Byte) /\ IsWord(Len(v))) \/ v = Missing
    BY <1>5, SMT DEF Packable, IsValue, Byte
  <2>2. <<>> \in Seq(Byte) /\ IsWord(Len(<<>>))
    BY SMT DEF IsWord
  <2> QED
    BY <1>5, <2>1, <2>2, SMT DEF Payload
<1>6. CASE Position[t] = "uint64s"
  <2>1. v \in Seq(Nat \X Nat) /\ IsWord(8 * Len(v)) /\ Len(v) \in Nat
    BY <1>6, SMT DEF Packable, IsValue
  <2>2. ASSUME NEW i \in 1..(8 * Len(v))
        PROVE  LongByte(v[((i - 1) \div 8) + 1], ((i - 1) % 8) + 1) \in Byte
    <3>1. ((i - 1) \div 8) + 1 \in 1..Len(v) /\ ((i - 1) % 8) + 1 \in 1..8
      BY <2>1, SMT
    <3>2. v[((i - 1) \div 8) + 1] \in Nat \X Nat
      BY <2>1, <3>1
    <3> QED
      BY <3>1, <3>2, EveryLongByte
  <2>3. Payload(t, v) = [i \in 1..(8 * Len(v)) |-> LongByte(v[((i - 1) \div 8) + 1], ((i - 1) % 8) + 1)]
    BY <1>6, SMT DEF Payload
  <2> QED
    BY <2>1, <2>2, <2>3, SMT
<1> QED
  BY <1>1, <1>2, <1>3, <1>4, <1>5, <1>6 DEF Types

\* The bytes from one place on are those of a field.
Holds(b, at, t, v) ==
  /\ at + 8 + Len(Payload(t, v)) <= Len(b)
  /\ \A i \in 1..(8 + Len(Payload(t, v))) : b[at + i] = Tlv(t, Payload(t, v))[i]

\* The bytes of a field: its tag, its length and its payload.
LEMMA TlvBytes ==
  ASSUME NEW t \in Nat, NEW p \in Seq(Byte)
  PROVE  /\ Tlv(t, p) \in Seq(Byte) /\ Len(Tlv(t, p)) = 8 + Len(p)
         /\ \A i \in 1..4 : Tlv(t, p)[i] = ByteOf(t, i) /\ Tlv(t, p)[4 + i] = ByteOf(Len(p), i)
         /\ \A i \in 1..Len(p) : Tlv(t, p)[8 + i] = p[i]
<1> DEFINE a == LittleEndian(t, 4)
           l == LittleEndian(Len(p), 4)
<1>1. /\ a \in Seq(Byte) /\ Len(a) = 4 /\ \A i \in 1..4 : a[i] = ByteOf(t, i)
      /\ l \in Seq(Byte) /\ Len(l) = 4 /\ \A i \in 1..4 : l[i] = ByteOf(Len(p), i)
  <2>1. 4 \in 0..4 /\ Len(p) \in Nat
    OBVIOUS
  <2> QED
    BY <2>1, NumberBytes, Zenon DEF a, l
<1>2. Tlv(t, p) = a \o l \o p
  BY DEF Tlv
<1> HIDE DEF a, l
<1>3. /\ a \o l \in Seq(Byte) /\ Len(a \o l) = 8
      /\ \A i \in 1..4 : (a \o l)[i] = a[i] /\ (a \o l)[4 + i] = l[i]
  <2>1. /\ a \o l \in Seq(Byte) /\ Len(a \o l) = Len(a) + Len(l)
        /\ \A i \in 1..Len(a) : (a \o l)[i] = a[i]
        /\ \A i \in 1..Len(l) : (a \o l)[Len(a) + i] = l[i]
    <3>1. a \in Seq(Byte) /\ l \in Seq(Byte)
      BY <1>1
    <3> QED
      BY <3>1, Concatenation, SMT
  <2>2. Len(a) = 4 /\ Len(l) = 4 /\ 4 + 4 = 8
    BY <1>1, SMT
  <2> QED
    BY <2>1, <2>2
<1> DEFINE h == a \o l
<1> HIDE DEF h
<1>4. /\ h \o p \in Seq(Byte) /\ Len(h \o p) = 8 + Len(p)
      /\ \A i \in 1..8 : (h \o p)[i] = h[i]
      /\ \A i \in 1..Len(p) : (h \o p)[8 + i] = p[i]
  <2>1. h \in Seq(Byte) /\ Len(h) = 8
    BY <1>3 DEF h
  <2>2. /\ h \o p \in Seq(Byte) /\ Len(h \o p) = Len(h) + Len(p)
        /\ \A i \in 1..Len(h) : (h \o p)[i] = h[i]
        /\ \A i \in 1..Len(p) : (h \o p)[Len(h) + i] = p[i]
    <3>1. h \in Seq(Byte) /\ p \in Seq(Byte)
      BY <2>1
    <3> QED
      BY <3>1, Concatenation, SMT
  <2> QED
    BY <2>1, <2>2
<1>5. \A i \in 1..4 : i \in 1..8 /\ 4 + i \in 1..8
  BY SMT
<1> QED
  BY <1>1, <1>2, <1>3, <1>4, <1>5 DEF h

\* Where a field was packed, Unpack reads its tag, its length and its payload.
LEMMA FieldRead ==
  ASSUME NEW b \in Seq(Byte), NEW at \in Nat, NEW t \in Tags, NEW v, Packable(t, v), Holds(b, at, t, v)
  PROVE  /\ WordAt(b, at) = t /\ WordAt(b, at + 4) = Len(Payload(t, v))
         /\ \A i \in 1..Len(Payload(t, v)) : b[at + 8 + i] = Payload(t, v)[i]
<1> DEFINE p == Payload(t, v)
<1>1. p \in Seq(Byte) /\ IsWord(Len(p)) /\ Len(p) \in Nat /\ IsWord(t)
  BY PayloadBytes, TagsAreWords
<1>0. t \in Nat
  BY <1>1 DEF IsWord
<1>2. at + 8 + Len(p) <= Len(b) /\ \A i \in 1..(8 + Len(p)) : b[at + i] = Tlv(t, p)[i]
  BY DEF Holds
<1>3. /\ \A i \in 1..4 : Tlv(t, p)[i] = ByteOf(t, i) /\ Tlv(t, p)[4 + i] = ByteOf(Len(p), i)
      /\ \A i \in 1..Len(p) : Tlv(t, p)[8 + i] = p[i]
  BY <1>0, <1>1, TlvBytes
<1> HIDE DEF p
<1>4. \A i \in 1..4 : b[at + i] = ByteOf(t, i)
  <2> TAKE i \in 1..4
  <2>1. b[at + i] = Tlv(t, p)[i]
    BY <1>1, <1>2, SMT
  <2> QED
    BY <1>3, <2>1
<1>5. \A i \in 1..4 : b[at + 4 + i] = ByteOf(Len(p), i)
  <2> TAKE i \in 1..4
  <2>1. b[at + (4 + i)] = Tlv(t, p)[4 + i]
    BY <1>1, <1>2, SMT
  <2>2. at + (4 + i) = at + 4 + i
    BY SMT
  <2> QED
    BY <1>3, <2>1, <2>2
<1>6. \A i \in 1..Len(p) : b[at + 8 + i] = p[i]
  <2> TAKE i \in 1..Len(p)
  <2>1. b[at + (8 + i)] = Tlv(t, p)[8 + i]
    BY <1>1, <1>2, SMT
  <2>2. at + (8 + i) = at + 8 + i
    BY SMT
  <2> QED
    BY <1>3, <2>1, <2>2
<1>7. at + 4 <= Len(b) /\ at + 4 + 4 <= Len(b) /\ at + 4 \in Nat
  BY <1>1, <1>2, SMT
<1>8. WordAt(b, at) = t
  BY <1>1, <1>4, <1>7, WordRead
<1>9. WordAt(b, at + 4) = Len(p)
  BY <1>1, <1>5, <1>7, WordRead
<1> QED
  BY <1>6, <1>8, <1>9 DEF p

\* A field that was packed with a value is read as that value.
LEMMA ValueRead ==
  ASSUME NEW b \in Seq(Byte), NEW at \in Nat, NEW t \in Tags, NEW v, IsValue(Position[t], v),
         NEW p, p = Payload(t, v), p \in Seq(Byte), at + Len(p) <= Len(b),
         \A i \in 1..Len(p) : b[at + i] = p[i],
         Position[t] = "uint8s" => p # <<>>
  PROVE  /\ Value(Position[t], b, at, Len(p)) = v
         /\ CheckLengthPass(Position[t], at, Len(p), Len(b))
<1>1. Position[t] \in Types
  BY TagsAreWords
<1>2. CASE Position[t] = "bool"
  <2>1. v \in {0, 1}
    BY <1>2, SMT DEF IsValue
  <2>2. p = LittleEndian(v, 1) /\ v \in Nat
    BY <1>2, <2>1, SMT DEF Payload
  <2>3. Len(p) = 1 /\ p[1] = ByteOf(v, 1)
    <3>1. 1 \in 0..4 /\ 1 \in 1..1 /\ v \in Nat
      BY <2>1
    <3>2. /\ Len(LittleEndian(v, 1)) = 1
          /\ \A i \in 1..1 : LittleEndian(v, 1)[i] = ByteOf(v, i)
      BY <3>1, NumberBytes, ZenonT(60)
    <3> QED
      BY <2>2, <3>1, <3>2, Zenon
  <2>4. ByteOf(v, 1) = v
    BY <2>1, SMT DEF ByteOf
  <2>5. b[at + 1] = v
    BY <2>3, <2>4, SMT
  <2> QED
    BY <1>2, <2>3, <2>5, SMT DEF Value, CheckLengthPass
<1>3. CASE Position[t] = "uint32"
  <2>1. p = LittleEndian(v, 4) /\ IsWord(v)
    BY <1>3, SMT DEF Payload, IsValue
  <2>2. v \in Nat /\ 4 \in 0..4
    BY <2>1 DEF IsWord
  <2>3. Len(p) = 4 /\ \A i \in 1..4 : p[i] = ByteOf(v, i)
    <3>1. /\ Len(LittleEndian(v, 4)) = 4
          /\ \A i \in 1..4 : LittleEndian(v, 4)[i] = ByteOf(v, i)
      BY <2>2, NumberBytes, ZenonT(60)
    <3> QED
      BY <2>1, <3>1, Zenon
  <2>4. at + 4 <= Len(b) /\ \A i \in 1..4 : b[at + i] = ByteOf(v, i)
    BY <2>3, SMT
  <2>5. WordAt(b, at) = v
    BY <2>1, <2>4, WordRead
  <2> QED
    BY <1>3, <2>3, <2>5, SMT DEF Value, CheckLengthPass
<1>4. CASE Position[t] = "uint64"
  <2>1. p = [i \in 1..8 |-> LongByte(v, i)] /\ IsLong(v)
    BY <1>4, SMT DEF Payload, IsValue
  <2>2. Len(p) = 8 /\ \A i \in 1..8 : p[i] = LongByte(v, i)
    BY <2>1, SMT
  <2>3. at + 8 <= Len(b) /\ \A i \in 1..8 : b[at + i] = LongByte(v, i)
    BY <2>2, SMT
  <2>4. LongAt(b, at) = v
    BY <2>1, <2>3, LongRead
  <2> QED
    BY <1>4, <2>2, <2>4, SMT DEF Value, CheckLengthPass
<1>5. CASE Position[t] = "uint8s"
  <2>1. v \in Seq(Byte)
    BY <1>5, SMT DEF IsValue, Byte
  <2>2. p = v
    BY <1>5, SMT DEF Payload
  <2>3. Value(Position[t], b, at, Len(p)) = [i \in 1..Len(p) |-> b[at + i]]
    BY <1>5, SMT DEF Value
  <2>4. v = [i \in 1..Len(p) |-> b[at + i]]
    BY <2>1, <2>2, SMT
  <2>5. CheckLengthPass(Position[t], at, Len(p), Len(b))
    BY <1>5, SMT DEF CheckLengthPass
  <2> QED
    BY <2>3, <2>4, <2>5, Zenon
<1>6. CASE Position[t] = "uint64s"
  <2>1. v \in Seq(Nat \X Nat) /\ Len(v) \in Nat /\ \A i \in 1..Len(v) : IsLong(v[i])
    BY <1>6, SMT DEF IsValue
  <2>2. p = [i \in 1..(8 * Len(v)) |-> LongByte(v[((i - 1) \div 8) + 1], ((i - 1) % 8) + 1)]
    BY <1>6, SMT DEF Payload
  <2>3. Len(p) = 8 * Len(v) /\ Len(p) \div 8 = Len(v)
    BY <2>1, <2>2, SMT
  <2>4. ASSUME NEW j \in 1..Len(v)
        PROVE  LongAt(b, at + (j - 1) * 8) = v[j]
    <3>1. ASSUME NEW i \in 1..8
          PROVE  b[at + (j - 1) * 8 + i] = LongByte(v[j], i)
      <4> DEFINE k == (j - 1) * 8 + i
      <4>1. k \in 1..(8 * Len(v)) /\ (k - 1) \div 8 = j - 1 /\ (k - 1) % 8 = i - 1
        <5>1. i - 1 \in 0..7 /\ j - 1 \in Nat /\ k \in 1..(8 * Len(v)) /\ k - 1 = 8 * (j - 1) + (i - 1)
          BY <2>1, SMT
        <5>2. \A q \in Nat : \A r \in 0..7 : (8 * q + r) \div 8 = q /\ (8 * q + r) % 8 = r
          BY SMT
        <5> HIDE DEF k
        <5> QED
          BY <5>1, <5>2
      <4>2. at + k = at + (j - 1) * 8 + i /\ j - 1 + 1 = j /\ i - 1 + 1 = i
        BY SMT
      <4> HIDE DEF k
      <4>3. p[k] = LongByte(v[((k - 1) \div 8) + 1], ((k - 1) % 8) + 1)
        BY <2>2, <4>1
      <4>4. b[at + k] = p[k]
        BY <2>3, <4>1
      <4> QED
        BY <4>1, <4>2, <4>3, <4>4
    <3>2. at + (j - 1) * 8 \in Nat /\ at + (j - 1) * 8 + 8 <= Len(b)
      BY <2>1, <2>3, SMT
    <3> QED
      BY <2>1, <3>1, <3>2, LongRead
  <2>5. Value(Position[t], b, at, Len(p)) = [i \in 1..(Len(p) \div 8) |-> LongAt(b, at + (i - 1) * 8)]
    BY <1>6, SMT DEF Value
  <2>6. v = [i \in 1..Len(v) |-> v[i]]
    BY <2>1, SMT
  <2>7. [i \in 1..Len(v) |-> LongAt(b, at + (i - 1) * 8)] = [i \in 1..Len(v) |-> v[i]]
    BY <2>4, Zenon
  <2>8. Value(Position[t], b, at, Len(p)) = v
    BY <2>3, <2>5, <2>6, <2>7, Zenon
  <2> QED
    BY <1>6, <2>8, SMT DEF CheckLengthPass
<1> QED
  BY <1>1, <1>2, <1>3, <1>4, <1>5, <1>6, Zenon DEF Types

\* An attribute that has been set, and one that Pack writes.
IsSet(attrs, t) == \E i \in 1..Len(attrs.exist) : attrs.exist[i] = t
Written(attrs, t) == t = AUTH_SIGNATURE \/ IsSet(attrs, t)

\* existAttributes_ says which values there are, and each is one of its tag's type.
Consistent(attrs) ==
  /\ attrs.exist \in Seq(Tags) /\ DOMAIN attrs.values = Tags
  /\ \A t \in Tags : IF IsSet(attrs, t) THEN IsValue(Position[t], Get(attrs, t)) ELSE Get(attrs, t) = Missing

Size(attrs, t) == 8 + Len(Payload(t, Get(attrs, t)))

\* The bytes from a place on are fields one behind the other: a layout says where
\* each begins and of which tag it is.
Laid(attrs, layout, from, bytes) ==
  /\ DOMAIN layout \subseteq Nat
  /\ from \in DOMAIN layout \union {Len(bytes)}
  /\ \A p \in DOMAIN layout :
       /\ from <= p
       /\ layout[p] \in Tags /\ Written(attrs, layout[p])
       /\ Holds(bytes, p, layout[p], Get(attrs, layout[p]))
       /\ p + Size(attrs, layout[p]) \in DOMAIN layout \union {Len(bytes)}
       /\ \A q \in DOMAIN layout : q <= p \/ p + Size(attrs, layout[p]) <= q

\* What was set, and the signature set or not, has bytes.
LEMMA WrittenIsPackable ==
  ASSUME NEW attrs, Consistent(attrs), NEW t \in Tags, Written(attrs, t)
  PROVE  /\ Packable(t, Get(attrs, t))
         /\ Payload(t, Get(attrs, t)) \in Seq(Byte) /\ Len(Payload(t, Get(attrs, t))) \in Nat
         /\ t \in Nat
<1>1. Packable(t, Get(attrs, t))
  BY TagsAreWords, Zenon DEF Consistent, Written, Packable
<1>2. Payload(t, Get(attrs, t)) \in Seq(Byte)
  BY <1>1, PayloadBytes
<1>3. Len(Payload(t, Get(attrs, t))) \in Nat
  BY <1>2
<1> QED
  BY <1>1, <1>2, <1>3, TagsAreWords DEF IsWord

\* What Pack adds for an attribute: a header of eight bytes and the payload.
LEMMA FieldBytes ==
  ASSUME NEW attrs, Consistent(attrs), NEW t \in Tags, Written(attrs, t)
  PROVE  Field(attrs, t) \in Seq(Byte) /\ Len(Field(attrs, t)) = Size(attrs, t)
BY WrittenIsPackable, TlvBytes, Zenon DEF Field, Size

\* A field stays where it is when bytes are added behind it, and moves with those
\* that are put before it.
LEMMA HoldsMoved ==
  ASSUME NEW b \in Seq(Byte), NEW c \in Seq(Byte), NEW at \in Nat, NEW shift \in Nat,
         NEW t, NEW v, Len(Payload(t, v)) \in Nat, Holds(b, at, t, v),
         shift + Len(b) <= Len(c), \A i \in 1..Len(b) : c[shift + i] = b[i]
  PROVE  Holds(c, shift + at, t, v)
<1> DEFINE n == 8 + Len(Payload(t, v))
<1>1. n \in Nat /\ at + n <= Len(b) /\ Len(b) \in Nat /\ Len(c) \in Nat
      /\ \A i \in 1..n : b[at + i] = Tlv(t, Payload(t, v))[i]
  BY SMT DEF Holds
<1> HIDE DEF n
<1>2. ASSUME NEW i \in 1..n
      PROVE  c[shift + at + i] = b[at + i]
  <2>1. at + i \in 1..Len(b) /\ shift + (at + i) = shift + at + i
    BY <1>1, SMT
  <2>2. c[shift + (at + i)] = b[at + i]
    BY <2>1
  <2> QED
    BY <2>1, <2>2
<1>3. shift + at + n <= Len(c)
  BY <1>1, SMT
<1>4. \A i \in 1..n : c[shift + at + i] = Tlv(t, Payload(t, v))[i]
  BY <1>1, <1>2
<1>5. shift + at + n = shift + at + 8 + Len(Payload(t, v))
  BY SMT DEF n
<1> QED
  BY <1>3, <1>4, <1>5 DEF Holds, n

\* A field is found where it was added.
LEMMA HoldsAppended ==
  ASSUME NEW attrs, Consistent(attrs), NEW t \in Tags, Written(attrs, t), NEW b \in Seq(Byte)
  PROVE  Holds(b \o Field(attrs, t), Len(b), t, Get(attrs, t))
<1> DEFINE f == Field(attrs, t)
           n == Len(Payload(t, Get(attrs, t)))
<1>1. f \in Seq(Byte) /\ Len(f) = 8 + n /\ n \in Nat
  BY FieldBytes, WrittenIsPackable DEF Size
<1> HIDE DEF f, n
<1>2. /\ Len(b \o f) = Len(b) + Len(f) /\ Len(b) \in Nat
      /\ \A i \in 1..Len(f) : (b \o f)[Len(b) + i] = f[i]
  <2>1. f \in Seq(Byte)
    BY <1>1
  <2> QED
    BY <2>1, Concatenation, SMT
<1>3. \A i \in 1..(8 + n) : (b \o f)[Len(b) + i] = f[i]
  BY <1>1, <1>2
<1>4. Len(b) + 8 + n <= Len(b \o f)
  BY <1>1, <1>2, SMT
<1>5. f = Tlv(t, Payload(t, Get(attrs, t)))
  BY DEF f, Field
<1> QED
  BY <1>3, <1>4, <1>5 DEF Holds, f, n

\* The bytes that were there stay, and the field is behind them.
LEMMA FieldAppended ==
  ASSUME NEW attrs, Consistent(attrs), NEW t \in Tags, Written(attrs, t), NEW b \in Seq(Byte)
  PROVE  LET c == b \o Field(attrs, t) IN
         /\ c \in Seq(Byte) /\ Len(c) = Len(b) + Size(attrs, t)
         /\ \A i \in 1..Len(b) : c[i] = b[i]
         /\ Holds(c, Len(b), t, Get(attrs, t))
<1> DEFINE f == Field(attrs, t)
<1>1. f \in Seq(Byte) /\ Len(f) = Size(attrs, t)
  BY FieldBytes
<1>2. Holds(b \o f, Len(b), t, Get(attrs, t))
  BY HoldsAppended
<1> HIDE DEF f
<1>3. /\ b \o f \in Seq(Byte) /\ Len(b \o f) = Len(b) + Len(f)
      /\ \A i \in 1..Len(b) : (b \o f)[i] = b[i]
  <2>1. f \in Seq(Byte)
    BY <1>1
  <2> QED
    BY <2>1, Concatenation, SMT
<1> QED
  BY <1>1, <1>2, <1>3, Zenon DEF f

\* A place of the layout is inside the buffer, with its whole field.
LEMMA PlacesInside ==
  ASSUME NEW attrs, Consistent(attrs), NEW layout, NEW from, NEW b \in Seq(Byte), Laid(attrs, layout, from, b),
         NEW p \in DOMAIN layout
  PROVE  /\ p \in Nat /\ layout[p] \in Tags /\ Written(attrs, layout[p])
         /\ Size(attrs, layout[p]) \in Nat /\ Size(attrs, layout[p]) >= 8
         /\ p + Size(attrs, layout[p]) <= Len(b)
<1>1. p \in Nat /\ layout[p] \in Tags /\ Written(attrs, layout[p]) /\ Holds(b, p, layout[p], Get(attrs, layout[p]))
  BY DEF Laid
<1>2. Len(Payload(layout[p], Get(attrs, layout[p]))) \in Nat
  BY <1>1, WrittenIsPackable
<1> QED
  BY <1>1, <1>2, SMT DEF Holds, Size

\* What the loop of Pack adds is one more field behind the others.
LEMMA FieldAdded ==
  ASSUME NEW attrs, Consistent(attrs), NEW layout, NEW b \in Seq(Byte), Laid(attrs, layout, 0, b),
         NEW t \in Tags, Written(attrs, t), NEW c \in Seq(Byte), Len(c) = Len(b) + Size(attrs, t),
         \A i \in 1..Len(b) : c[i] = b[i], Holds(c, Len(b), t, Get(attrs, t)),
         NEW m, \A p : p \in DOMAIN m <=> p = Len(b) \/ p \in DOMAIN layout, m[Len(b)] = t,
         \A p \in DOMAIN layout : p # Len(b) => m[p] = layout[p]
  PROVE  /\ Laid(attrs, m, 0, c)
         /\ \E p \in DOMAIN m : m[p] = t
         /\ \A q \in DOMAIN layout : \E p \in DOMAIN m : m[p] = layout[q]
<1>1. /\ c \in Seq(Byte) /\ Len(c) = Len(b) + Size(attrs, t) /\ Len(b) \in Nat
      /\ \A i \in 1..Len(b) : c[i] = b[i]
  OBVIOUS
<1>2. \A p \in DOMAIN layout : p \in Nat /\ p < Len(b) /\ p + Size(attrs, layout[p]) <= Len(b) /\ Size(attrs, layout[p]) \in Nat
  BY <1>1, PlacesInside, SMT
<1>3. Size(attrs, t) \in Nat
  BY WrittenIsPackable, SMT DEF Size
<1>4. Holds(c, Len(b), t, Get(attrs, t))
  OBVIOUS
<1>5. \A p \in DOMAIN layout : Holds(c, p, layout[p], Get(attrs, layout[p]))
  <2> TAKE p \in DOMAIN layout
  <2>1. /\ p \in Nat /\ Holds(b, p, layout[p], Get(attrs, layout[p]))
        /\ Len(Payload(layout[p], Get(attrs, layout[p]))) \in Nat
    BY PlacesInside, WrittenIsPackable DEF Laid
  <2>2. 0 \in Nat /\ 0 + p = p /\ 0 + Len(b) <= Len(c) /\ \A i \in 1..Len(b) : c[0 + i] = b[i]
    BY <1>1, <1>3, <2>1, SMT
  <2>3. Holds(c, 0 + p, layout[p], Get(attrs, layout[p]))
    BY <1>1, <2>1, <2>2, HoldsMoved
  <2> QED
    BY <2>2, <2>3
<1>6. /\ \A p : p \in DOMAIN m <=> p = Len(b) \/ p \in DOMAIN layout
      /\ m[Len(b)] = t
      /\ \A p \in DOMAIN layout : m[p] = layout[p]
  BY <1>2
<1>7. Laid(attrs, m, 0, c)
  <2>1. DOMAIN m \subseteq Nat
    BY <1>1, <1>2, <1>6
  <2>2. 0 \in DOMAIN m \union {Len(c)}
    BY <1>6 DEF Laid
  <2>3. ASSUME NEW p \in DOMAIN layout
        PROVE  /\ 0 <= p /\ m[p] \in Tags /\ Written(attrs, m[p])
               /\ Holds(c, p, m[p], Get(attrs, m[p]))
               /\ p + Size(attrs, m[p]) \in DOMAIN m \union {Len(c)}
               /\ \A q \in DOMAIN m : q <= p \/ p + Size(attrs, m[p]) <= q
    <3>1. \A q \in DOMAIN m : q <= p \/ p + Size(attrs, m[p]) <= q
      BY <1>2, <1>6 DEF Laid
    <3> QED
      BY <1>5, <1>6, <3>1 DEF Laid
  <2>4. /\ 0 <= Len(b) /\ m[Len(b)] \in Tags /\ Written(attrs, m[Len(b)])
        /\ Holds(c, Len(b), m[Len(b)], Get(attrs, m[Len(b)]))
        /\ Len(b) + Size(attrs, m[Len(b)]) \in DOMAIN m \union {Len(c)}
        /\ \A q \in DOMAIN m : q <= Len(b) \/ Len(b) + Size(attrs, m[Len(b)]) <= q
    <3>1. \A q \in DOMAIN m : q <= Len(b)
      BY <1>1, <1>2, <1>6, SMT
    <3> QED
      BY <1>1, <1>4, <1>6, <3>1
  <2> QED
    BY <1>6, <2>1, <2>2, <2>3, <2>4 DEF Laid
<1>8. /\ \E p \in DOMAIN m : m[p] = t
      /\ \A q \in DOMAIN layout : \E p \in DOMAIN m : m[p] = layout[q]
  BY <1>6
<1> QED
  BY <1>1, <1>7, <1>8

\* The headers shift the fields by sixteen bytes, and the signature is one more.
LEMMA FieldsEnclosed ==
  ASSUME NEW attrs, Consistent(attrs), NEW layout, NEW b \in Seq(Byte), Laid(attrs, layout, 0, b),
         NEW m, \A p : p \in DOMAIN m <=> p = Len(b) + 16 \/ \E q \in DOMAIN layout : p = q + 16,
         m[Len(b) + 16] = AUTH_SIGNATURE,
         \A q \in DOMAIN layout : q + 16 # Len(b) + 16 => m[q + 16] = layout[q]
  PROVE  /\ Enclosed(attrs, b) \in Seq(Byte)
         /\ Laid(attrs, m, 16, Enclosed(attrs, b))
         /\ \E p \in DOMAIN m : m[p] = AUTH_SIGNATURE
         /\ \A q \in DOMAIN layout : \E p \in DOMAIN m : m[p] = layout[q]
<1> DEFINE f == Field(attrs, AUTH_SIGNATURE)
           d == Tlv(AUTH_DATA, b)
           e == Tlv(AUTH_ROOT, d \o f)
<1>1. AUTH_SIGNATURE \in Tags /\ Written(attrs, AUTH_SIGNATURE)
  BY TagsAreWords DEF Written
<1>2. f \in Seq(Byte) /\ Len(f) = Size(attrs, AUTH_SIGNATURE) /\ Size(attrs, AUTH_SIGNATURE) \in Nat
  BY <1>1, FieldBytes
<1>3. Len(b) \in Nat
  OBVIOUS
<1>4. /\ d \in Seq(Byte) /\ Len(d) = 8 + Len(b)
      /\ \A i \in 1..Len(b) : d[8 + i] = b[i]
  <2>1. AUTH_DATA \in Nat
    BY SMT DEF AUTH_DATA
  <2> QED
    BY <2>1, TlvBytes
<1>5. e = Enclosed(attrs, b)
  BY DEF Enclosed
<1> HIDE DEF d, f
<1>6. /\ d \o f \in Seq(Byte) /\ Len(d \o f) = 8 + Len(b) + Len(f)
      /\ \A i \in 1..Len(d) : (d \o f)[i] = d[i]
      /\ \A i \in 1..Len(f) : (d \o f)[Len(d) + i] = f[i]
  <2>1. d \in Seq(Byte) /\ f \in Seq(Byte)
    BY <1>2, <1>4
  <2>2. /\ d \o f \in Seq(Byte) /\ Len(d \o f) = Len(d) + Len(f)
        /\ \A i \in 1..Len(d) : (d \o f)[i] = d[i]
        /\ \A i \in 1..Len(f) : (d \o f)[Len(d) + i] = f[i]
    BY <2>1, Concatenation, SMT
  <2> QED
    BY <2>2, <1>4
<1> DEFINE g == d \o f
<1>7. /\ e \in Seq(Byte) /\ Len(e) = 8 + Len(g) /\ \A i \in 1..Len(g) : e[8 + i] = g[i]
  <2>1. AUTH_ROOT \in Nat /\ g \in Seq(Byte)
    BY <1>6, SMT DEF AUTH_ROOT
  <2> HIDE DEF g
  <2> QED
    BY <2>1, TlvBytes DEF g
<1> HIDE DEF g, e
<1>8. Len(e) = Len(b) + 16 + Size(attrs, AUTH_SIGNATURE)
  BY <1>2, <1>3, <1>6, <1>7, SMT DEF g
<1>9. ASSUME NEW i \in 1..Len(b)
      PROVE  e[16 + i] = b[i]
  <2>1. 8 + i \in 1..Len(d) /\ 8 + i \in 1..Len(g) /\ 8 + (8 + i) = 16 + i
    BY <1>2, <1>3, <1>4, <1>6, SMT DEF g
  <2>2. e[8 + (8 + i)] = g[8 + i]
    BY <1>7, <2>1
  <2>3. g[8 + i] = d[8 + i]
    BY <1>6, <2>1 DEF g
  <2>4. d[8 + i] = b[i]
    BY <1>4
  <2> QED
    BY <2>1, <2>2, <2>3, <2>4
<1>10. ASSUME NEW i \in 1..Len(f)
       PROVE  e[Len(b) + 16 + i] = f[i]
  <2>1. Len(d) + i \in 1..Len(g) /\ 8 + (Len(d) + i) = Len(b) + 16 + i
    BY <1>2, <1>3, <1>4, <1>6, SMT DEF g
  <2>2. e[8 + (Len(d) + i)] = g[Len(d) + i]
    BY <1>7, <2>1
  <2>3. g[Len(d) + i] = f[i]
    BY <1>6 DEF g
  <2> QED
    BY <2>1, <2>2, <2>3
<1>11. \A p \in DOMAIN layout : Holds(e, p + 16, layout[p], Get(attrs, layout[p]))
  <2> TAKE p \in DOMAIN layout
  <2>1. /\ p \in Nat /\ Holds(b, p, layout[p], Get(attrs, layout[p]))
        /\ Len(Payload(layout[p], Get(attrs, layout[p]))) \in Nat
    BY PlacesInside, WrittenIsPackable DEF Laid
  <2>2. 16 \in Nat /\ 16 + p = p + 16 /\ 16 + Len(b) <= Len(e)
    BY <1>2, <1>3, <1>8, <2>1, SMT
  <2>3. Holds(e, 16 + p, layout[p], Get(attrs, layout[p]))
    BY <1>7, <1>9, <2>1, <2>2, HoldsMoved
  <2> QED
    BY <2>2, <2>3
<1>12. Holds(e, Len(b) + 16, AUTH_SIGNATURE, Get(attrs, AUTH_SIGNATURE))
  <2> DEFINE n == Len(Payload(AUTH_SIGNATURE, Get(attrs, AUTH_SIGNATURE)))
  <2>1. n \in Nat /\ Len(f) = 8 + n
    BY <1>1, <1>2, WrittenIsPackable DEF Size
  <2>2. f = Tlv(AUTH_SIGNATURE, Payload(AUTH_SIGNATURE, Get(attrs, AUTH_SIGNATURE)))
    BY DEF f, Field
  <2> HIDE DEF n
  <2>3. \A i \in 1..(8 + n) : e[Len(b) + 16 + i] = f[i]
    BY <1>10, <2>1
  <2>4. Len(b) + 16 + 8 + n <= Len(e)
    BY <1>2, <1>3, <1>8, <2>1, SMT
  <2> QED
    BY <2>2, <2>3, <2>4 DEF Holds, n
<1>13. \A p \in DOMAIN layout : p \in Nat /\ p < Len(b) /\ p + Size(attrs, layout[p]) <= Len(b) /\ Size(attrs, layout[p]) \in Nat
  BY <1>3, PlacesInside, SMT
<1>14. /\ \A p : p \in DOMAIN m <=> p = Len(b) + 16 \/ \E q \in DOMAIN layout : p = q + 16
       /\ m[Len(b) + 16] = AUTH_SIGNATURE
       /\ \A q \in DOMAIN layout : q + 16 \in DOMAIN m /\ m[q + 16] = layout[q]
  <2>1. \A q \in DOMAIN layout : q + 16 # Len(b) + 16
    BY <1>3, <1>13, SMT
  <2> QED
    BY <2>1
<1>15. Laid(attrs, m, 16, e)
  <2>1. DOMAIN m \subseteq Nat
    BY <1>3, <1>13, <1>14, SMT
  <2>2. 16 \in DOMAIN m \union {Len(e)}
    <3>1. 0 \in DOMAIN layout \union {Len(b)}
      BY DEF Laid
    <3>2. 0 + 16 = 16
      OBVIOUS
    <3> QED
      BY <1>14, <3>1, <3>2
  <2>3. ASSUME NEW q \in DOMAIN layout
        PROVE  /\ 16 <= q + 16 /\ m[q + 16] \in Tags /\ Written(attrs, m[q + 16])
               /\ Holds(e, q + 16, m[q + 16], Get(attrs, m[q + 16]))
               /\ q + 16 + Size(attrs, m[q + 16]) \in DOMAIN m \union {Len(e)}
               /\ \A p \in DOMAIN m : p <= q + 16 \/ q + 16 + Size(attrs, m[q + 16]) <= p
    <3>1. /\ m[q + 16] = layout[q] /\ layout[q] \in Tags /\ Written(attrs, layout[q])
          /\ q + Size(attrs, layout[q]) \in DOMAIN layout \union {Len(b)}
          /\ \A p \in DOMAIN layout : p <= q \/ q + Size(attrs, layout[q]) <= p
      BY <1>14 DEF Laid
    <3>2. 16 <= q + 16 /\ q + Size(attrs, layout[q]) + 16 = q + 16 + Size(attrs, layout[q])
      BY <1>13, SMT
    <3>3. q + 16 + Size(attrs, layout[q]) \in DOMAIN m
      BY <1>14, <3>1, <3>2
    <3>4. \A p \in DOMAIN m : p <= q + 16 \/ q + 16 + Size(attrs, layout[q]) <= p
      <4>1. q + 16 + Size(attrs, layout[q]) <= Len(b) + 16
        BY <1>3, <1>13, SMT
      <4>2. ASSUME NEW p \in DOMAIN layout
            PROVE  p + 16 <= q + 16 \/ q + 16 + Size(attrs, layout[q]) <= p + 16
        <5>1. /\ p \in Nat /\ q \in Nat /\ Size(attrs, layout[q]) \in Nat
              /\ p <= q \/ q + Size(attrs, layout[q]) <= p
          BY <1>13, <3>1
        <5> QED
          BY <5>1, SMT
      <4> QED
        BY <1>14, <4>1, <4>2
    <3> QED
      BY <1>11, <3>1, <3>2, <3>3, <3>4
  <2>4. /\ 16 <= Len(b) + 16 /\ m[Len(b) + 16] \in Tags /\ Written(attrs, m[Len(b) + 16])
        /\ Holds(e, Len(b) + 16, m[Len(b) + 16], Get(attrs, m[Len(b) + 16]))
        /\ Len(b) + 16 + Size(attrs, m[Len(b) + 16]) \in DOMAIN m \union {Len(e)}
        /\ \A p \in DOMAIN m : p <= Len(b) + 16
    <3>1. \A p \in DOMAIN m : p <= Len(b) + 16
      BY <1>3, <1>13, <1>14, SMT
    <3>2. 16 <= Len(b) + 16
      BY <1>3, SMT
    <3> QED
      BY <1>1, <1>8, <1>12, <1>14, <3>1, <3>2
  <2> DEFINE Fits(p) == /\ 16 <= p /\ m[p] \in Tags /\ Written(attrs, m[p])
                        /\ Holds(e, p, m[p], Get(attrs, m[p]))
                        /\ p + Size(attrs, m[p]) \in DOMAIN m \union {Len(e)}
                        /\ \A q \in DOMAIN m : q <= p \/ p + Size(attrs, m[p]) <= q
  <2>5. (\A q \in DOMAIN layout : Fits(q + 16)) /\ Fits(Len(b) + 16)
    BY <2>3, <2>4
  <2> HIDE DEF Fits
  <2>6. \A p \in DOMAIN m : Fits(p)
    BY <1>14, <2>5
  <2> QED
    BY <2>1, <2>2, <2>6 DEF Laid, Fits
<1>16. /\ \E p \in DOMAIN m : m[p] = AUTH_SIGNATURE
       /\ \A q \in DOMAIN layout : \E p \in DOMAIN m : m[p] = layout[q]
  BY <1>14
<1> QED
  BY <1>5, <1>7, <1>15, <1>16

\* What must arrive of an attribute, and what an iteration of Unpack makes of it.
Expected(attrs, t) ==
  IF Position[t] = "uint8s" /\ Get(attrs, t) = <<>> THEN Missing ELSE Get(attrs, t)

\* A loop of Unpack at a place of the layout: the length check passes, the value is
\* the one that was set, and the next place is where the field ends.
LEMMA FieldUnpacked ==
  ASSUME NEW attrs, Consistent(attrs), NEW layout, NEW b \in Seq(Byte), Laid(attrs, layout, 16, b),
         NEW p \in DOMAIN layout
  PROVE  LET t == layout[p]  n == WordAt(b, p + 4) IN
         /\ WordAt(b, p) = t /\ t \in Tags /\ p + 8 + n = p + Size(attrs, t)
         /\ CheckLengthPass(Position[t], p + 8, n, Len(b))
         /\ Position[t] = "uint8s" /\ n = 0 => Expected(attrs, t) = Missing
         /\ ~(Position[t] = "uint8s" /\ n = 0) => Expected(attrs, t) = Value(Position[t], b, p + 8, n)
<1> DEFINE t == layout[p]
           v == Get(attrs, t)
           q == Payload(t, v)
<1>1. p \in Nat /\ t \in Tags /\ Written(attrs, t) /\ Holds(b, p, t, v)
  BY DEF Laid
<1>2. Packable(t, v) /\ q \in Seq(Byte) /\ Len(q) \in Nat
  BY <1>1, WrittenIsPackable
<1>3. /\ WordAt(b, p) = t /\ WordAt(b, p + 4) = Len(q)
      /\ \A i \in 1..Len(q) : b[p + 8 + i] = q[i]
  BY <1>1, <1>2, FieldRead
<1>4. p + 8 + Len(q) = p + Size(attrs, t) /\ p + 8 + Len(q) <= Len(b) /\ p + 8 \in Nat
  BY <1>1, <1>2, SMT DEF Size, Holds
<1>5. CASE Position[t] = "uint8s" /\ Len(q) = 0
  <2>1. q = <<>>
    BY <1>2, <1>5
  <2>2. v = Missing \/ v = <<>>
    BY <1>5, <2>1, SMT DEF Payload
  <2>3. Expected(attrs, t) = Missing
    BY <1>5, <2>2, Zenon DEF Expected
  <2>4. CheckLengthPass(Position[t], p + 8, Len(q), Len(b))
    BY <1>4, <1>5, SMT DEF CheckLengthPass
  <2> QED
    BY <1>1, <1>3, <1>4, <1>5, <2>3, <2>4
<1>6. CASE ~(Position[t] = "uint8s" /\ Len(q) = 0)
  <2>1. Position[t] = "uint8s" => q # <<>>
    BY <1>6
  <2>2. Position[t] = "uint8s" => v # Missing /\ v # <<>>
    BY <2>1, SMT DEF Payload
  <2>3. IsValue(Position[t], v)
    BY <1>2, <2>2, Zenon DEF Packable
  <2> HIDE DEF t, v, q
  <2>4. /\ Value(Position[t], b, p + 8, Len(q)) = v
        /\ CheckLengthPass(Position[t], p + 8, Len(q), Len(b))
    BY <1>1, <1>2, <1>3, <1>4, <2>1, <2>3, ValueRead, SMT DEF q
  <2>5. Expected(attrs, t) = v
    BY <2>2, Zenon DEF Expected, v
  <2> QED
    BY <1>1, <1>3, <1>4, <1>6, <2>4, <2>5 DEF t
<1> QED
  BY <1>5, <1>6

\* Setting a value keeps existAttributes_ and the values together.
LEMMA SetIsConsistent ==
  ASSUME NEW attrs, Consistent(attrs), NEW t \in Tags, NEW type, NEW v, IsValue(type, v)
  PROVE  Consistent(Set(attrs, t, type, v))
<1>1. CASE Position[t] # type
  BY <1>1 DEF Set
<1>2. CASE Position[t] = type
  <2> DEFINE a == Set(attrs, t, type, v)
  <2>1. a.values = [attrs.values EXCEPT ![t] = v] /\ a.exist = Append(attrs.exist, t)
    BY <1>2 DEF Set
  <2> HIDE DEF a
  <2>2. a.exist \in Seq(Tags) /\ DOMAIN a.values = Tags
    BY <2>1 DEF Consistent
  <2>3. \A u \in Tags : Get(a, u) = IF u = t THEN v ELSE Get(attrs, u)
    BY <2>1 DEF Consistent, Get
  <2>4. \A u \in Tags : IsSet(a, u) <=> u = t \/ IsSet(attrs, u)
    <3>1. attrs.exist \in Seq(Tags) /\ Len(attrs.exist) \in Nat
      BY DEF Consistent
    <3>2. /\ Len(a.exist) = Len(attrs.exist) + 1 /\ a.exist[Len(attrs.exist) + 1] = t
          /\ \A i \in 1..Len(attrs.exist) : a.exist[i] = attrs.exist[i]
      BY <2>1, <3>1
    <3>3. 1..(Len(attrs.exist) + 1) = 1..Len(attrs.exist) \union {Len(attrs.exist) + 1}
      BY <3>1
    <3> TAKE u \in Tags
    <3>4. ASSUME IsSet(a, u) PROVE u = t \/ IsSet(attrs, u)
      <4>1. PICK i \in 1..(Len(attrs.exist) + 1) : a.exist[i] = u
        BY <3>2, <3>4 DEF IsSet
      <4> QED
        BY <3>2, <3>3, <4>1 DEF IsSet
    <3>5. ASSUME IsSet(attrs, u) PROVE IsSet(a, u)
      BY <3>2, <3>3, <3>5 DEF IsSet
    <3>6. IsSet(a, t)
      BY <3>1, <3>2 DEF IsSet
    <3> QED
      BY <3>4, <3>5, <3>6
  <2>5. \A u \in Tags : IF IsSet(a, u) THEN IsValue(Position[u], Get(a, u)) ELSE Get(a, u) = Missing
    BY <1>2, <2>3, <2>4, Zenon DEF Consistent
  <2> QED
    BY <2>2, <2>5 DEF Consistent, a
<1> QED
  BY <1>1, <1>2

\* Sorting existAttributes_ changes no value and forgets none.
LEMMA SortedIsConsistent ==
  ASSUME NEW attrs, Consistent(attrs), NEW order \in Bijection(DOMAIN attrs.exist, DOMAIN attrs.exist), NEW b,
         b = [values |-> attrs.values, exist |-> [i \in DOMAIN attrs.exist |-> attrs.exist[order[i]]]]
  PROVE  Consistent(b) /\ b.values = attrs.values
<1> DEFINE n == Len(attrs.exist)
<1>1. attrs.exist \in Seq(Tags) /\ n \in Nat /\ DOMAIN attrs.exist = 1..n
  BY DEF Consistent
<1>2. order \in [1..n -> 1..n] /\ \A w \in 1..n : \E u \in 1..n : order[u] = w
  BY <1>1 DEF Bijection, Surjection, Injection
<1> HIDE DEF n
<1>3. b.values = attrs.values /\ b.exist = [i \in 1..n |-> attrs.exist[order[i]]]
  BY <1>1
<1>4. b.exist \in Seq(Tags) /\ Len(b.exist) = n /\ \A i \in 1..n : b.exist[i] = attrs.exist[order[i]]
  BY <1>1, <1>2, <1>3 DEF n
<1>5. \A t : IsSet(b, t) <=> IsSet(attrs, t)
  <2> TAKE t
  <2>1. ASSUME IsSet(b, t) PROVE IsSet(attrs, t)
    <3>1. PICK i \in 1..n : b.exist[i] = t
      BY <1>4, <2>1 DEF IsSet
    <3>2. order[i] \in 1..n /\ attrs.exist[order[i]] = t
      BY <1>2, <1>4, <3>1
    <3> QED
      BY <3>2 DEF IsSet, n
  <2>2. ASSUME IsSet(attrs, t) PROVE IsSet(b, t)
    <3>1. PICK w \in 1..n : attrs.exist[w] = t
      BY <2>2 DEF IsSet, n
    <3>2. PICK u \in 1..n : order[u] = w
      BY <1>2
    <3>3. b.exist[u] = t
      BY <1>4, <3>1, <3>2
    <3> QED
      BY <1>4, <3>3 DEF IsSet
  <2> QED
    BY <2>1, <2>2
<1> QED
  BY <1>3, <1>4, <1>5, Zenon DEF Consistent, Get

(***************************************************************************)
(* The inductive invariant: CallInv of the parcel and the results, and     *)
(* AttributesInv of the attributes, whose heart is the layout of the       *)
(* buffer: a function from the place of each field to the tag it has.      *)
(***************************************************************************)

Phases == {"idle", "packing", "written", "sent", "handling", "served", "over"}

\* The service answers, and the caller hears, no earlier than the request is sent.
PhaseInv ==
  /\ phase \in Phases
  /\ phase # "idle" => invocation \in Invocations
  /\ phase \in {"idle", "packing", "written"} => outcome = "none"
  /\ phase \in {"idle", "packing", "written", "sent", "handling"} => verdict = "none"

\* What is under way, and that only EnforceDelUser has an answer before its stub has.
SentInv ==
  /\ phase \in {"written", "sent"} => parcel = MethodOf(invocation).fields
  /\ phase = "handling" => args = Names(MethodOf(invocation).fields)
  /\ phase \in {"sent", "handling", "served"} /\ outcome = "SUCCESS" => invocation.op = "USERIDM_ENFORCE_DELUSER"

\* An error the stub tells the Binder is that of the three that return it.
ServedInv ==
  phase = "served" /\ verdict = "ERROR" => code \in {"SUCCESS", "FAIL"} \/ invocation.op \in Dropped

CallInv == PhaseInv /\ SentInv /\ ServedInv /\ StubReadsWhatProxyWrote /\ ReturnIsTrue

\* No call has been made.
LEMMA CallStarts == IpcInit => CallInv
BY DEF IpcInit, CallInv, PhaseInv, Phases, SentInv, ServedInv, StubReadsWhatProxyWrote, ReturnIsTrue

\* Every step of a call keeps what is said of the parcel, the stub's code and the result.
LEMMA CallStep == CallInv /\ [IpcNext]_ipcVars => CallInv'
<1> SUFFICES ASSUME CallInv, [IpcNext]_ipcVars
             PROVE  CallInv'
  OBVIOUS
<1> USE DEF CallInv, PhaseInv, Phases, SentInv, ServedInv, StubReadsWhatProxyWrote, ReturnIsTrue
<1>1. ASSUME NEW s \in Samples, SetAttribute(s)
      PROVE  CallInv'
  BY <1>1 DEF SetAttribute
<1>2. ASSUME NEW c \in Invocations, Invoke(c)
      PROVE  CallInv'
  BY <1>2 DEF Invoke
<1>3. ASSUME NEW c \in Invocations, InvokePack(c)
      PROVE  CallInv'
  BY <1>3 DEF InvokePack
<1>4. ASSUME NEW c \in Invocations, InvokeFails(c)
      PROVE  CallInv'
  BY <1>4, EveryCallMeets DEF InvokeFails, Meets
<1>5. CASE PackAttribute
  BY <1>5 DEF PackAttribute
<1>6. CASE PackEnds
  BY <1>6 DEF PackEnds
<1>7. CASE SendRequest
  BY <1>7, EveryCallMeets DEF SendRequest, Meets
<1>8. CASE SendRequestFails
  BY <1>8, EveryCallMeets DEF SendRequestFails, Meets, Unheard
<1>9. CASE ProxyReturns
  BY <1>9, EveryCallMeets DEF ProxyReturns, Meets, Unheard, Dropped
<1>10. CASE ReadRequest
  BY <1>10, EveryCallMeets, ReadsWhatWasWritten DEF ReadRequest, Meets
<1>11. CASE UnpackAttribute
  BY <1>11 DEF UnpackAttribute
<1>12. ASSUME NEW result \in {"SUCCESS", "ERROR"}, Serve(result)
       PROVE  CallInv'
  BY <1>12, EveryCallMeets DEF Serve, Meets
<1>13. ASSUME NEW result \in {"SUCCESS", "ERROR"}, WriteReplyFails(result)
       PROVE  CallInv'
  BY <1>13, EveryCallMeets DEF WriteReplyFails, Meets
<1>14. CASE UNCHANGED ipcVars
  BY <1>14 DEF ipcVars, packVars
<1> QED
  BY <1>1, <1>2, <1>3, <1>4, <1>5, <1>6, <1>7, <1>8, <1>9, <1>10, <1>11, <1>12, <1>13, <1>14 DEF IpcNext, Done

\* Nothing is packed before the call, and nothing unpacked before the request arrives.
FreshInv ==
  /\ phase = "idle" => buffer = <<>> /\ cursor = 0
  /\ phase \in {"idle", "packing", "written", "sent"} => unpacked = Empty

\* The loop of Pack has laid out the first attributes of existAttributes_.
PackInv ==
  phase = "packing" =>
    /\ buffer \in Seq(Byte) /\ cursor \in 0..Len(attributes.exist)
    /\ \E layout :
         /\ Laid(attributes, layout, 0, buffer)
         /\ \A i \in 1..cursor : attributes.exist[i] # AUTH_SIGNATURE =>
              \E p \in DOMAIN layout : layout[p] = attributes.exist[i]

\* What Unpack has passed has arrived.
Reached(layout) ==
  /\ cursor \in DOMAIN layout \union {Len(buffer)}
  /\ \A p \in DOMAIN layout : p < cursor => Get(unpacked, layout[p]) = Expected(attributes, layout[p])

\* The buffer that is sent holds every attribute, behind the headers.
BufferInv ==
  phase \in {"written", "sent", "handling"} /\ CarriesAttributes(invocation) =>
    /\ buffer \in Seq(Byte)
    /\ \E layout :
         /\ Laid(attributes, layout, 16, buffer)
         /\ \A t \in Tags : Written(attributes, t) => \E p \in DOMAIN layout : layout[p] = t
         /\ phase = "handling" => Reached(layout)

\* Unpack sets nothing that was not set.
UnpackInv ==
  phase = "handling" /\ CarriesAttributes(invocation) =>
    /\ DOMAIN unpacked.values = Tags
    /\ \A t \in Tags : Get(unpacked, t) \in {Missing, Expected(attributes, t)}

AttributesInv == Consistent(attributes) /\ FreshInv /\ PackInv /\ BufferInv /\ UnpackInv

IpcInv == CallInv /\ AttributesInv /\ AttributesArrive

\* An AuthAttributes nobody has set anything in.
LEMMA EmptyIsConsistent ==
  Consistent(Empty) /\ DOMAIN Empty.values = Tags /\ \A t \in Tags : Get(Empty, t) = Missing
<1>1. Empty.exist = <<>> /\ Empty.values = [t \in Tags |-> Missing]
  BY DEF Empty
<1>2. \A t : ~IsSet(Empty, t)
  BY <1>1 DEF IsSet
<1>3. Empty.exist \in Seq(Tags)
  BY <1>1
<1> QED
  BY <1>1, <1>2, <1>3, Zenon DEF Consistent, Get

\* A loop of Pack.
LEMMA PackLoop ==
  ASSUME AttributesInv, PackAttribute
  PROVE  AttributesInv'
<1> DEFINE tag == attributes.exist[cursor + 1]
<1>1. /\ phase = "packing" /\ phase' = "packing" /\ cursor < Len(attributes.exist) /\ cursor' = cursor + 1
      /\ buffer' = IF tag = AUTH_SIGNATURE THEN buffer ELSE buffer \o Field(attributes, tag)
      /\ attributes' = attributes /\ unpacked' = unpacked
  BY DEF PackAttribute
<1>2. buffer \in Seq(Byte) /\ cursor \in 0..Len(attributes.exist) /\ Consistent(attributes) /\ unpacked = Empty
  BY <1>1 DEF AttributesInv, PackInv, FreshInv
<1>3. PICK layout :
         /\ Laid(attributes, layout, 0, buffer)
         /\ \A i \in 1..cursor : attributes.exist[i] # AUTH_SIGNATURE =>
              \E p \in DOMAIN layout : layout[p] = attributes.exist[i]
  BY <1>1 DEF AttributesInv, PackInv
<1>4. /\ cursor + 1 \in 1..Len(attributes.exist) /\ cursor' \in 0..Len(attributes.exist)
      /\ 1..cursor' = 1..cursor \union {cursor + 1}
  <2>1. Len(attributes.exist) \in Nat
    BY <1>2 DEF Consistent
  <2> QED
    BY <1>1, <1>2, <2>1, SMT
<1>5. tag \in Tags /\ Written(attributes, tag)
  <2>1. attributes.exist \in Seq(Tags)
    BY <1>2 DEF Consistent
  <2> QED
    BY <1>4, <2>1 DEF Written, IsSet
<1>6. /\ buffer' \in Seq(Byte)
      /\ \E m : /\ Laid(attributes, m, 0, buffer')
               /\ \A i \in 1..cursor' : attributes.exist[i] # AUTH_SIGNATURE =>
                    \E p \in DOMAIN m : m[p] = attributes.exist[i]
  <2>1. CASE tag = AUTH_SIGNATURE
    BY <1>1, <1>2, <1>3, <1>4, <2>1
  <2>2. CASE tag # AUTH_SIGNATURE
    <3> DEFINE m == [p \in DOMAIN layout \union {Len(buffer)} |-> IF p = Len(buffer) THEN tag ELSE layout[p]]
    <3>1. buffer' = buffer \o Field(attributes, tag)
      BY <1>1, <2>2
    <3>2. /\ \A p : p \in DOMAIN m <=> p = Len(buffer) \/ p \in DOMAIN layout
          /\ m[Len(buffer)] = tag
          /\ \A p \in DOMAIN layout : p # Len(buffer) => m[p] = layout[p]
      OBVIOUS
    <3> HIDE DEF tag, m
    <3>3. /\ buffer' \in Seq(Byte)
          /\ Laid(attributes, m, 0, buffer')
          /\ \E p \in DOMAIN m : m[p] = tag
          /\ \A q \in DOMAIN layout : \E p \in DOMAIN m : m[p] = layout[q]
      <4>1. buffer \in Seq(Byte) /\ Consistent(attributes) /\ Laid(attributes, layout, 0, buffer)
        BY <1>2, <1>3
      <4>2. tag \in Tags /\ Written(attributes, tag)
        BY <1>5
      <4>3. buffer' \in Seq(Byte) /\ Len(buffer') = Len(buffer) + Size(attributes, tag)
            /\ (\A i \in 1..Len(buffer) : buffer'[i] = buffer[i])
            /\ Holds(buffer', Len(buffer), tag, Get(attributes, tag))
        BY <3>1, <4>1, <4>2, FieldAppended, Zenon
      <4> QED
        BY <3>2, <4>1, <4>2, <4>3, FieldAdded
    <3>4. ASSUME NEW i \in 1..cursor', attributes.exist[i] # AUTH_SIGNATURE
          PROVE  \E p \in DOMAIN m : m[p] = attributes.exist[i]
      <4>1. CASE i = cursor + 1
        BY <3>3, <4>1 DEF tag
      <4>2. CASE i \in 1..cursor
        <5>1. PICK q \in DOMAIN layout : layout[q] = attributes.exist[i]
          BY <1>3, <3>4, <4>2
        <5> QED
          BY <3>3, <5>1
      <4> QED
        BY <1>4, <4>1, <4>2
    <3> QED
      BY <3>3, <3>4
  <2> QED
    BY <2>1, <2>2
<1> QED
  BY <1>1, <1>2, <1>4, <1>6 DEF AttributesInv, FreshInv, PackInv, BufferInv, UnpackInv

\* The end of Pack.
LEMMA PackLeaves ==
  ASSUME AttributesInv, PackEnds
  PROVE  AttributesInv'
<1>1. /\ phase = "packing" /\ phase' = "written" /\ cursor = Len(attributes.exist)
      /\ buffer' = Enclosed(attributes, buffer) /\ attributes' = attributes /\ unpacked' = unpacked
  BY DEF PackEnds
<1>2. buffer \in Seq(Byte) /\ Consistent(attributes) /\ unpacked = Empty
  BY <1>1 DEF AttributesInv, PackInv, FreshInv
<1>3. PICK layout :
         /\ Laid(attributes, layout, 0, buffer)
         /\ \A i \in 1..cursor : attributes.exist[i] # AUTH_SIGNATURE =>
              \E p \in DOMAIN layout : layout[p] = attributes.exist[i]
  BY <1>1 DEF AttributesInv, PackInv
<1> DEFINE m == [p \in {q + 16 : q \in DOMAIN layout} \union {Len(buffer) + 16} |->
                   IF p = Len(buffer) + 16 THEN AUTH_SIGNATURE ELSE layout[p - 16]]
<1>4. /\ buffer' \in Seq(Byte)
      /\ Laid(attributes, m, 16, buffer')
      /\ \E p \in DOMAIN m : m[p] = AUTH_SIGNATURE
      /\ \A q \in DOMAIN layout : \E p \in DOMAIN m : m[p] = layout[q]
  <2>0. /\ \A p : p \in DOMAIN m <=> p = Len(buffer) + 16 \/ \E q \in DOMAIN layout : p = q + 16
        /\ m[Len(buffer) + 16] = AUTH_SIGNATURE
        /\ \A q \in DOMAIN layout : q + 16 # Len(buffer) + 16 => m[q + 16] = layout[q]
    <3>1. \A q \in DOMAIN layout : q \in Nat /\ q + 16 - 16 = q
      BY <1>3, SMT DEF Laid
    <3> QED
      BY <3>1
  <2> HIDE DEF m
  <2>1. /\ Enclosed(attributes, buffer) \in Seq(Byte)
        /\ Laid(attributes, m, 16, Enclosed(attributes, buffer))
        /\ \E p \in DOMAIN m : m[p] = AUTH_SIGNATURE
        /\ \A q \in DOMAIN layout : \E p \in DOMAIN m : m[p] = layout[q]
    <3>1. buffer \in Seq(Byte) /\ Consistent(attributes) /\ Laid(attributes, layout, 0, buffer)
      BY <1>2, <1>3
    <3> QED
      BY <3>1, <2>0, FieldsEnclosed
  <2> QED
    BY <1>1, <2>1, Zenon
<1> HIDE DEF m
<1>5. ASSUME NEW t \in Tags, Written(attributes, t)
      PROVE  \E p \in DOMAIN m : m[p] = t
  <2>1. CASE t = AUTH_SIGNATURE
    BY <1>4, <2>1
  <2>2. CASE t # AUTH_SIGNATURE
    <3>1. PICK i \in 1..cursor : attributes.exist[i] = t
      BY <1>1, <1>5, <2>2 DEF Written, IsSet
    <3>2. PICK q \in DOMAIN layout : layout[q] = t
      BY <1>3, <2>2, <3>1
    <3> QED
      BY <1>4, <3>2
  <2> QED
    BY <2>1, <2>2
<1> QED
  BY <1>1, <1>2, <1>4, <1>5 DEF AttributesInv, FreshInv, PackInv, BufferInv, UnpackInv

\* The request arrives: nothing has been unpacked.
LEMMA RequestArrives ==
  ASSUME AttributesInv, PhaseInv, ReadRequest
  PROVE  AttributesInv' /\ AttributesArrive'
<1>1. /\ phase = "sent" /\ phase' \in {"handling", "served"} /\ cursor' = 16
      /\ UNCHANGED <<attributes, buffer, invocation, unpacked, verdict>> /\ verdict = "none" /\ unpacked = Empty
  BY DEF ReadRequest, PhaseInv, AttributesInv, FreshInv
<1>2. BufferInv'
  <2> SUFFICES ASSUME phase' = "handling", CarriesAttributes(invocation')
               PROVE  BufferInv'
    BY <1>1 DEF BufferInv
  <2>1. buffer \in Seq(Byte)
    BY <1>1 DEF AttributesInv, BufferInv
  <2>2. PICK layout : /\ Laid(attributes, layout, 16, buffer)
                      /\ \A t \in Tags : Written(attributes, t) => \E p \in DOMAIN layout : layout[p] = t
    BY <1>1 DEF AttributesInv, BufferInv
  <2>3. 16 \in DOMAIN layout \union {Len(buffer)} /\ \A p \in DOMAIN layout : p \in Nat /\ 16 <= p
    BY <2>2 DEF Laid
  <2>4. Reached(layout)'
    BY <1>1, <2>3, SMT DEF Reached
  <2> QED
    BY <1>1, <2>1, <2>2, <2>4 DEF BufferInv
<1>3. UnpackInv'
  BY <1>1, EmptyIsConsistent DEF UnpackInv
<1> QED
  BY <1>1, <1>2, <1>3 DEF AttributesInv, FreshInv, PackInv, AttributesArrive

\* A loop of Unpack: the field at the cursor arrives, and the cursor is at the next.
LEMMA UnpackLoop ==
  ASSUME AttributesInv, UnpackAttribute
  PROVE  AttributesInv'
<1> DEFINE n == WordAt(buffer, cursor + 4)
           w == WordAt(buffer, cursor)
<1>1. /\ phase = "handling" /\ phase' = "handling" /\ cursor < Len(buffer)
      /\ UNCHANGED <<attributes, buffer, invocation>>
      /\ IF CheckLengthPass(Position[w], cursor + 8, n, Len(buffer))
         THEN /\ cursor' = cursor + 8 + n
              /\ unpacked' = IF Position[w] = "uint8s" /\ n = 0 THEN unpacked
                             ELSE Set(unpacked, w, Position[w], Value(Position[w], buffer, cursor + 8, n))
         ELSE cursor' = Len(buffer) /\ UNCHANGED unpacked
  BY DEF UnpackAttribute
<1> SUFFICES ASSUME CarriesAttributes(invocation)
             PROVE  BufferInv' /\ UnpackInv'
  BY <1>1 DEF AttributesInv, FreshInv, PackInv, BufferInv, UnpackInv
<1>2. /\ buffer \in Seq(Byte) /\ Consistent(attributes) /\ DOMAIN unpacked.values = Tags
      /\ \A t \in Tags : Get(unpacked, t) \in {Missing, Expected(attributes, t)}
  BY <1>1 DEF AttributesInv, BufferInv, UnpackInv
<1>3. PICK layout : /\ Laid(attributes, layout, 16, buffer)
                    /\ \A t \in Tags : Written(attributes, t) => \E p \in DOMAIN layout : layout[p] = t
                    /\ Reached(layout)
  BY <1>1 DEF AttributesInv, BufferInv
<1> DEFINE t == layout[cursor]
<1>4. cursor \in DOMAIN layout /\ cursor \in Nat /\ Len(buffer) \in Nat
  BY <1>1, <1>2, <1>3 DEF Reached, Laid
<1>5. /\ w = t /\ t \in Tags /\ cursor + 8 + n = cursor + Size(attributes, t)
      /\ CheckLengthPass(Position[t], cursor + 8, n, Len(buffer))
      /\ Position[t] = "uint8s" /\ n = 0 => Expected(attributes, t) = Missing
      /\ ~(Position[t] = "uint8s" /\ n = 0) =>
           Expected(attributes, t) = Value(Position[t], buffer, cursor + 8, n)
  BY <1>2, <1>3, <1>4, FieldUnpacked
<1>6. /\ cursor' = cursor + Size(attributes, t)
      /\ unpacked' = IF Position[t] = "uint8s" /\ n = 0 THEN unpacked
                     ELSE Set(unpacked, t, Position[t], Expected(attributes, t))
  BY <1>1, <1>5
<1>7. /\ DOMAIN unpacked'.values = Tags /\ Get(unpacked', t) = Expected(attributes, t)
      /\ \A u \in Tags : u # t => Get(unpacked', u) = Get(unpacked, u)
  <2>1. CASE Position[t] = "uint8s" /\ n = 0
    <3>1. unpacked' = unpacked /\ Expected(attributes, t) = Missing
      BY <1>5, <1>6, <2>1
    <3>2. Get(unpacked, t) \in {Missing, Expected(attributes, t)}
      BY <1>2, <1>5
    <3> QED
      BY <1>2, <3>1, <3>2
  <2>2. CASE ~(Position[t] = "uint8s" /\ n = 0)
    <3> HIDE DEF n, w, t
    <3>1. unpacked' = Set(unpacked, t, Position[t], Expected(attributes, t))
      BY <1>6, <2>2
    <3>2. unpacked'.values = [unpacked.values EXCEPT ![t] = Expected(attributes, t)]
      BY <3>1 DEF Set
    <3> QED
      BY <1>2, <1>5, <3>2 DEF Get
  <2> QED
    BY <2>1, <2>2
<1> HIDE DEF n, w
<1>8. UnpackInv'
  <2>1. \A u \in Tags : Get(unpacked', u) \in {Missing, Expected(attributes, u)}
    BY <1>2, <1>7
  <2> QED
    BY <1>1, <1>7, <2>1 DEF UnpackInv
<1>9. Reached(layout)'
  <2>1. cursor' \in DOMAIN layout \union {Len(buffer')}
    BY <1>1, <1>3, <1>4, <1>6 DEF Laid
  <2>2. ASSUME NEW p \in DOMAIN layout, p < cursor'
        PROVE  Get(unpacked', layout[p]) = Expected(attributes', layout[p])
    <3>1. p <= cursor \/ cursor' <= p
      BY <1>3, <1>4, <1>6 DEF Laid
    <3>2. p \in Nat /\ layout[p] \in Tags /\ cursor' \in Nat
      <4>1. Size(attributes, t) \in Nat
        BY <1>2, <1>3, <1>4, PlacesInside
      <4> QED
        BY <1>3, <1>4, <1>6, <4>1 DEF Laid
    <3>3. p = cursor \/ p < cursor
      BY <1>4, <2>2, <3>1, <3>2, SMT
    <3>4. CASE p = cursor
      BY <1>1, <1>7, <3>4
    <3>5. CASE p < cursor
      <4>1. Get(unpacked, layout[p]) = Expected(attributes, layout[p])
        BY <1>3, <3>5 DEF Reached
      <4> QED
        BY <1>1, <1>7, <3>2, <4>1
    <3> QED
      BY <3>3, <3>4, <3>5
  <2> QED
    BY <2>1, <2>2 DEF Reached
<1> QED
  BY <1>1, <1>2, <1>3, <1>8, <1>9 DEF BufferInv

\* The handler is called when Unpack is at the end: everything has arrived.
LEMMA AllHasArrived ==
  ASSUME AttributesInv, phase = "handling", cursor >= Len(buffer), phase' = "served",
         UNCHANGED <<attributes, buffer, cursor, invocation, unpacked>>
  PROVE  AttributesInv' /\ AttributesArrive'
<1>1. AttributesInv'
  BY DEF AttributesInv, FreshInv, PackInv, BufferInv, UnpackInv
<1>2. ASSUME CarriesAttributes(invocation), NEW t \in Tags
      PROVE  Get(unpacked, t) = Expected(attributes, t)
  <2>1. PICK layout : /\ Laid(attributes, layout, 16, buffer)
                      /\ \A u \in Tags : Written(attributes, u) => \E p \in DOMAIN layout : layout[p] = u
                      /\ Reached(layout)
    BY <1>2 DEF AttributesInv, BufferInv
  <2>2. buffer \in Seq(Byte) /\ Consistent(attributes) /\ Get(unpacked, t) \in {Missing, Expected(attributes, t)}
    BY <1>2 DEF AttributesInv, BufferInv, UnpackInv
  <2>3. CASE Written(attributes, t)
    <3>1. PICK p \in DOMAIN layout : layout[p] = t
      BY <2>1, <2>3
    <3>2. /\ p \in Nat /\ p + Size(attributes, t) <= Len(buffer) /\ Size(attributes, t) \in Nat
          /\ Size(attributes, t) >= 8 /\ Len(buffer) \in Nat
      BY <2>1, <2>2, <3>1, PlacesInside
    <3>3. cursor \in DOMAIN layout \union {Len(buffer)}
      BY <2>1 DEF Reached
    <3>4. cursor \in Nat
      BY <2>1, <3>2, <3>3 DEF Laid
    <3>5. p < cursor
      BY <3>2, <3>4, SMT
    <3> QED
      BY <2>1, <3>1, <3>5 DEF Reached
  <2>4. CASE ~Written(attributes, t)
    <3>1. Get(attributes, t) = Missing
      BY <2>2, <2>4 DEF Consistent, Written
    <3>2. Expected(attributes, t) = Missing
      BY <3>1, Zenon DEF Expected
    <3> QED
      BY <2>2, <3>2
  <2> QED
    BY <2>3, <2>4
<1>3. AttributesArrive'
  BY <1>2, Zenon DEF AttributesArrive, Expected
<1> QED
  BY <1>1, <1>3

\* Nothing is set, packed or unpacked.
LEMMA AttributesStart == IpcInit => AttributesInv /\ AttributesArrive
BY EmptyIsConsistent DEF IpcInit, AttributesInv, FreshInv, PackInv, BufferInv, UnpackInv, AttributesArrive

\* Every step of a call keeps what is said of the attributes and their bytes.
LEMMA AttributesStep ==
  CallInv /\ AttributesInv /\ AttributesArrive /\ [IpcNext]_ipcVars => AttributesInv' /\ AttributesArrive'
<1> SUFFICES ASSUME CallInv, AttributesInv, AttributesArrive, [IpcNext]_ipcVars
             PROVE  AttributesInv' /\ AttributesArrive'
  OBVIOUS
<1>1. ASSUME NEW s \in Samples, SetAttribute(s)
      PROVE  AttributesInv' /\ AttributesArrive'
  <2>1. s[1] \in Tags /\ IsValue(s[2], s[3]) /\ Consistent(attributes)
    BY IpcAssumption DEF AttributesInv
  <2>2. Consistent(attributes)'
    <3>1. attributes' = Set(attributes, s[1], s[2], s[3])
      BY <1>1 DEF SetAttribute
    <3>2. Consistent(Set(attributes, s[1], s[2], s[3]))
      BY <2>1, SetIsConsistent
    <3> QED
      BY <3>1, <3>2
  <2>3. phase' = "idle" /\ phase = "idle" /\ UNCHANGED <<buffer, cursor, unpacked>>
    BY <1>1 DEF SetAttribute
  <2> QED
    BY <2>2, <2>3 DEF AttributesInv, FreshInv, PackInv, BufferInv, UnpackInv, AttributesArrive
<1>2. ASSUME NEW c \in Invocations, Invoke(c)
      PROVE  AttributesInv' /\ AttributesArrive'
  BY <1>2 DEF Invoke, packVars, AttributesInv, FreshInv, PackInv, BufferInv, UnpackInv, AttributesArrive
<1>3. ASSUME NEW c \in Invocations, InvokePack(c)
      PROVE  AttributesInv' /\ AttributesArrive'
  <2>1. PICK order \in Bijection(DOMAIN attributes.exist, DOMAIN attributes.exist) :
           attributes' = [values |-> attributes.values, exist |-> [i \in DOMAIN attributes.exist |-> attributes.exist[order[i]]]]
    BY <1>3 DEF InvokePack
  <2>2. Consistent(attributes')
    BY <2>1, SortedIsConsistent DEF AttributesInv
  <2>3. phase' = "packing" /\ buffer' = <<>> /\ cursor' = 0 /\ unpacked' = Empty
    BY <1>3 DEF InvokePack, AttributesInv, FreshInv
  <2>4. PackInv'
    <3> DEFINE layout == [p \in {} |-> AUTH_SIGNATURE]
    <3>1. Laid(attributes', layout, 0, <<>>)
      BY DEF Laid
    <3>2. Len(attributes'.exist) \in Nat
      BY <2>2 DEF Consistent
    <3>3. <<>> \in Seq(Byte) /\ 0 \in 0..Len(attributes'.exist) /\ 1..0 = {}
      BY <3>2, SMT
    <3> QED
      BY <2>3, <3>1, <3>3 DEF PackInv
  <2> QED
    BY <2>2, <2>3, <2>4 DEF AttributesInv, FreshInv, BufferInv, UnpackInv, AttributesArrive
<1>4. ASSUME NEW c \in Invocations, InvokeFails(c)
      PROVE  AttributesInv' /\ AttributesArrive'
  BY <1>4 DEF InvokeFails, packVars, AttributesInv, FreshInv, PackInv, BufferInv, UnpackInv, AttributesArrive
<1>5. CASE PackAttribute
  BY <1>5, PackLoop DEF PackAttribute, AttributesArrive
<1>6. CASE PackEnds
  BY <1>6, PackLeaves DEF PackEnds, AttributesArrive
<1>7. CASE SendRequest
  BY <1>7 DEF SendRequest, packVars, AttributesInv, FreshInv, PackInv, BufferInv, UnpackInv, AttributesArrive
<1>8. CASE SendRequestFails
  BY <1>8 DEF SendRequestFails, packVars, AttributesInv, FreshInv, PackInv, BufferInv, UnpackInv, AttributesArrive
<1>9. CASE ProxyReturns
  BY <1>9 DEF ProxyReturns, packVars, AttributesInv, FreshInv, PackInv, BufferInv, UnpackInv, AttributesArrive
<1>10. CASE ReadRequest
  BY <1>10, RequestArrives DEF CallInv
<1>11. CASE UnpackAttribute
  BY <1>11, UnpackLoop DEF UnpackAttribute, AttributesArrive
<1>12. ASSUME NEW result \in {"SUCCESS", "ERROR"}, Serve(result) \/ WriteReplyFails(result)
       PROVE  AttributesInv' /\ AttributesArrive'
  BY <1>12, AllHasArrived DEF Serve, WriteReplyFails, packVars
<1>13. CASE UNCHANGED ipcVars
  BY <1>13 DEF ipcVars, packVars, AttributesInv, FreshInv, PackInv, BufferInv, UnpackInv, AttributesArrive, Reached
<1> QED
  BY <1>1, <1>2, <1>3, <1>4, <1>5, <1>6, <1>7, <1>8, <1>9, <1>10, <1>11, <1>12, <1>13 DEF IpcNext, Done

\* The invariant of a call holds in every state of it.
LEMMA IpcInductive == IpcSpec => []IpcInv
<1>1. IpcInit => IpcInv
  BY CallStarts, AttributesStart DEF IpcInv
<1>2. IpcInv /\ [IpcNext]_ipcVars => IpcInv'
  BY CallStep, AttributesStep DEF IpcInv
<1> QED
  BY <1>1, <1>2, PTL DEF IpcSpec

\* Whatever is called, with lists of every length, the handler gets each parameter
\* its caller gave: proxy and stub agree on the order and the type of every one.
THEOREM ParametersArrive == IpcSpec => []StubReadsWhatProxyWrote
<1>1. IpcInv => StubReadsWhatProxyWrote
  BY DEF IpcInv, CallInv
<1> QED
  BY <1>1, IpcInductive, PTL

\* What a proxy returns is what the service did, but for the calls ReturnIsTrue names:
\* whichever write fails, on either side, and whether or not the request is sent.
THEOREM ResultsAreTrue == IpcSpec => []ReturnIsTrue
<1>1. IpcInv => ReturnIsTrue
  BY DEF IpcInv, CallInv
<1> QED
  BY <1>1, IpcInductive, PTL

\* Whatever attributes are set, in whatever order and however often, the handler gets
\* the last value of each from the bytes Pack made: the loops of Pack and of Unpack
\* meet the same fields at the same places.
THEOREM AttributesAreUnpacked == IpcSpec => []AttributesArrive
<1>1. IpcInv => AttributesArrive
  BY DEF IpcInv
<1> QED
  BY <1>1, IpcInductive, PTL
=============================================================================
