# A TLA+ model of useriam_user_auth

`useriam_user_auth` is the user authentication framework of OpenHarmony: applications ask it to
authenticate or to enrol a user, and it coordinates the executors (PIN, face, ...) that do the
work. This directory holds TLA+ modules that model its services and its executor library,
configurations with which TLC checks them on small instances, and proofs that TLAPS checks for
every instance. `PROJECT.json` lists the runs, the code each definition stands for, the hazards of
the code and the properties that cover them.

Paths below are relative to `src/`.

## 1. The system

```
 application                                                 executor process (PIN, face, ...)
   | JS bindings (frameworks/js)                               driver (HDI)
   | UserAuthNative, UserIDMClient                               |  OnResult / OnAcquireInfo
   v  IPC                                                      common/executors: Driver, Executor,
 +-------------------------- one service process -----------+    AsyncCommand, FrameworkExecutorCallback
 | services/user_auth      services/user_idm                |    |           ^
 |   contexts, tasks         challenge + schedule id        |    | IPC       | IPC
 |      \    device (HDI)     /   device (HDI)              |    | Finish    | OnBeginExecute
 |       v                   v                              |    | SendData  | OnEndExecute
 |   services/co_auth: AuthResManager (executors),          | <--+           |
 |   CoAuthManager + ExecutorMessenger + CallMonitor        | ---------------+
 +----------------------------------------------------------+
```

| Component | State | Operations | What is hard | What makes it correct |
|---|---|---|---|---|
| **co_auth schedules**: `CoAuthManager`, `ExecutorMessenger`, `CallMonitor`, the schedules of `AuthResPool` | the schedule pool with a count of executors per entry; the monitor's timeout tasks | `BeginSchedule`/`CoAuthHandle`/`BeginExecute`, `Cancel`, `TimeOut`; an executor's `SendData`, `Finish` | each pool operation locks for itself, so `Finish` on several IPC threads, the timeout and a failing begin interleave | the executors, the failing begin and the timeout speak once each at most; no entry without somebody who erases it; every schedule answered |
| **user_auth contexts**: `UserAuthService`, `UserAuthCallbackImplCoAuth`, `UserAuthDataMgr` | `contexts_`, `saveCoAuthCallback_`, per context `isResultDoneFlag_` and counters | `Auth`, `AuthUser`, `CancelAuth`, `OnFinish`, `OnAcquireInfo` and the tasks they post | an IPC thread, the retained thread, `CancelAuth` and late answers of co_auth meet in one context | one result, no tip after it, thread and context given back |
| **common/thread_pool**: `ThreadGroups` | retained and free pools of one thread, the tasks of each | `RetainTransaction`, `PostTask`, `ReleaseTaskThread`, create and destroy | `AddTask` can wait with the mutex held; a thread gives itself back | one owner per pool, a task runs in its own transaction, every task runs |
| **common/executors**: `DriverManager`, `Driver`, `Executor`, `AsyncCommandBase`, `FrameworkExecutorCallback` | executor list, commands to respond, a mutex each | connect/disconnect events, `OnBeginExecute`, `OnSetProperty`, the driver's `OnResult`/`OnAcquireInfo` | four levels of mutexes taken in different orders; a driver that goes while a command runs | a command ends once; an accepted one is known to its executor; a returned driver is registered again |
| **services/user_idm**: `UserIDMService`, `UserIDMController`, `UserIDMModule`, its handlers | one challenge and one schedule id for the whole service | `OpenSession`, `CloseSession`, `AddCredential`, `UpdateCredential`, `Cancel`, `DelUser`, `DelCred`, `DeleteUser` and the answers of co_auth | check and use of challenge and schedule id are different critical sections | one enrolment at a time, no busy for ever, the client hears what happened |
| **executor registry**: `AuthResManager`, the executors of `AuthResPool`, `CoAuthService`, `AuthExecutorRegistry` | executor id -> callback, death recipients; in the executor's process a cached proxy | `Register`, both death notices, the boot event, lookup by type | a death between death recipient and insert; a restart between getting the proxy and using it; an old callback after a reconnect | whoever is in the pool will be cleared from it and can answer; a driver that stays is found |
| **clients**: `UserAuthNative`, `UserIDMClient`, `UserIdm` | a cached proxy, its mutex and a death recipient | `GetProxy`, `ResetProxy`, one call per service operation | the service dies and starts again between the lookup, the death recipient and the use of a proxy, and under calls that wait for a reply | the cached proxy is of the running service or about to be dropped; a caller comes back; the callback hears once |
| **IPC stubs and proxies** | none | marshalling of a call and its reply, in both directions | fields by position in two files; a write, the request or the reply fails | the far side gets what was sent; what is returned is what was done |
| **AuthAttributes** | a map of attributes and the order they were set in | `Set*`, `Get*`, `Pack`, `Unpack` | lengths, empty values, an attribute set twice | `Unpack` returns what `Pack` was given |
| **user_auth property queries** | none beyond the call's callback | `GetProperty`, `SetProperty`, `GetAvailableStatus` | several early returns, each through a method of the callback | one answer |
| **JavaScript bindings** (`frameworks/js`) | a context per call, callback objects, async works and uv works | the exported functions of user_idm and user_auth | the JS thread, libuv's workers and the library's threads share a context; uv works run in any order | JavaScript hears the first answer, once; what works use is still there; contexts are deleted |
| **common/utils**, **common/logs**, **sa_profile** | none of the protocols' | conversion, logging, start-up profile | - | - |

How they interact: user_auth and user_idm call `CoAuthManager` directly and are called back on
whatever thread finishes a schedule (an executor's IPC thread or the monitor's event runner);
co_auth and executors talk through IPC in both directions; user_auth, and nobody else, moves its
work to `ThreadGroups`; the pools (`AuthResPool`, `UserAuthDataMgr`, `UserIDMModule`) are shared by
all IPC threads and protected for the time of one access.

## 2. Modules

| Module | Models | Lines of code it stands for |
|---|---|---|
| `ScheduleContract` | abstract: what co_auth promises the caller of `BeginSchedule` | the calls of `CoAuthCallback` |
| `CoAuth` | the schedules of co_auth | `coauth_manager.cpp`, `executor_messenger.cpp`, `call_monitor.cpp`, `auth_res_pool.cpp` |
| `ClientContract` | abstract: what user_auth promises the client | the calls of `IUserAuthCallback` |
| `UserAuth` | contexts; instantiates `ScheduleContract` for its schedules | `userauth_service.cpp`, `userauth_excallback_impl.cpp`, `userauth_datamgr.cpp`, `userauth_adapter.cpp`, `userauth_controller.cpp` |
| `ThreadGroups` | the thread groups user_auth posts to | `thread_groups.cpp` |
| `Executor` | one driver, its executors and commands | `executor.cpp`, `async_command/*`, `driver.cpp`, `driver_manager.cpp`, `framework_executor_callback.cpp` |
| `UserIdm` | enrolment sessions; instantiates `ScheduleContract` for its schedules | `useridm_controller.cpp`, `useridm_service.cpp`, `useridm_module.cpp`, `useridm_coauth_handler.cpp`, `useridm_setprop_handler.cpp` |
| `ExecutorRegistry` | executors coming to and leaving the pool of co_auth; restarts of the service | `auth_res_manager.cpp`, `auth_res_pool.cpp`, `auth_executor_registry.cpp`, `coauth_service.cpp`, `driver.cpp` |
| `Parcels` | parcels as sequences of cells; what a proxy method and a stub do with one | `message_parcel` (external), the pattern of all proxies and stubs |
| `Overlay` | records laid over one another: `f ++ g` is what `@@` makes of them, with a definition the provers can use | - |
| `IdmParcels`, `AuthParcels`, `CoAuthParcels` | one record per IPC method: fields written, fields read, mode, reply, results on failure | `useridm_proxy/_stub`, `useridm_callback_*`, `userauth_proxy/_stub`, `userauth_async_*`, `coauth_*`, `executor_callback_*`, `executor_messenger_*` |
| `AuthAttributes` | the setters, `Pack` and `Unpack`, byte by byte | `auth_attributes.cpp` |
| `IpcCalls` | one call through proxy and stub with every failure, and an `AuthAttributes` on its way | the same files |
| `PropertyServing` | what the service answers to a property query | `userauth_service.cpp`, `userauth_controller.cpp`, `userauth_adapter.cpp`, `userauth_excallback_impl.cpp` |
| `ClientCalls` | the operations of the three client libraries | `user_auth_native.cpp`, `useridm_client.cpp`, `user_idm.cpp` and their proxies |
| `ClientIpc` | a client library, its threads and callbacks, and instances of the service that die and start | the same, with the callbacks' stubs and `useridm_service.cpp`, `userauth_service.cpp` |
| `JsCalls`, `JsUserIdm`, `JsUserAuth`, `JsBindings` | the JavaScript functions, workers and uv works | `frameworks/js/napi` |
| `MCCoAuth`, `MCUserAuth`, `MCThreadGroups`, `MCExecutor`, `MCUserIdm`, `MCIpcCalls`, `MCClientIpc`, `MCJsBindings` | symmetry sets and instances for TLC | - |
| `CoAuthProofs`, `UserAuthProofs`, `ThreadGroupsProofs`, `ExecutorProofs`, `UserIdmProofs`, `RegistryProofs`, `ClientIpcProofs`, `JsBindingsProofs` | theorems, each about the module of its name; `ClientIpcProofs` also about `IpcCalls` | - |

The composition goes through the contract. `CoAuth` is shown to implement `ScheduleContract`
(`ImplementsContract`, safety and liveness), and `UserAuth` and `UserIdm` use an INSTANCE of
`ScheduleContract` in place of co_auth, so what is checked of them rests on what co_auth was shown
to do and on nothing else. `UserAuth` in turn is shown to implement `ClientContract`. `ClientIpc` counts
the answers a request can have from user_auth and user_idm, and serves the property queries by
`PropertyServing`; `JsBindings` has the client library as its environment, which does what
`ClientIpc` lets it do: report, answer more than once, or drop the callback.

### How state and actions correspond to the code

The grain is the critical section. Where the code takes a mutex for one access (pools, data
manager, module data) that access is a step, and the place of the thread between two accesses is a
label of a per-thread variable (`handle`, `worker`, `timer` in `CoAuth`; `request`, `task`,
`cancel` in `UserAuth`; `pc`, `finish` in `UserIdm`; `begin`, `onResult`, `listener` in
`Executor`). Where the code holds a mutex over several statements (`ThreadGroups`) the whole
operation is a step, split only where it can wait. What no other thread can see is part of the
step next to it.

* `CoAuth`. `scheResPool` and `executorNum` are the pool, `executors[s]` the schedule's executors
  by type, `timer[s]` its task in the event runner, which has one thread: at most one timeout runs.
  `executor[x]` is the entry of an executor id in the resource pool and the life of its process;
  several ids may have one type, and `Finds` takes the lowest, as the walk over the code's map does.
  A call of `OnBeginExecute` is two steps: it arrives, or fails on its way (`BeginExecutor`), and
  returns (`BeginReturns`), with SUCCESS or with an error; the executor may call `Finish` between the
  two, and after an error too. `OnEndExecute` may fail as well (`missed`), and leaves an executor that
  got it free to finish all the same (`ending`). `FinishCount` and `FinishMinus` are the two critical
  sections of the count in `ExecutorMessenger::Finish`. The local `scheCount` has no initial value: if
  the entry is gone, the test goes either way. `answers[s]` records whose word each call of the
  schedule's callback was: the executors' verdict, the failure of `CoAuthHandle`, the timeout.
* `UserAuth`. `retains_` stands for the entry of `saveCoAuthCallback_` and the thread retained with
  it; `queue[c]` for the tasks posted to that thread; `status`/`told` for the schedules.
  The device (the HDI implementation behind the adapter) may give a request no schedule at all and may
  leave every answer undone; `undone[<<c, k>>]` counts the answers of a schedule it left so, and only
  the properties read it. `OtherThreads` is the number of retained
  threads that contexts outside `Contexts` may hold, so that `RetainTransaction` can fail at any
  time with one context in sight. Two requests never draw the same context id
  here: `GenerateContextId` takes 64 bits from a random source.
* `ThreadGroups`. `retains_`, `frees_` and the queues of the pools. `ThreadPool` is the utils
  library and modelled from its use: a queue with a limit whose `AddTask` waits, `Stop` that joins.
* `Executor`. `generation` counts the `Executor` objects the driver has created; `executorList_` is
  the one in its list, `registered` the one the framework has a callback of, `unregistered` the last
  that named no executor, had no info for the framework or was not taken by it. The four mutexes are
  variables that name their holder. `std::mutex` locked twice by one thread never comes free.
* `UserIdm`. `challenge`, `scheduleId` are the pair `challengeAndScheduleId_`. A call is also the
  name of the challenge or schedule the device draws for it, so ids are fresh; the device behind the
  adapter answers as it likes. A credential in the list of a deletion that is neither PIN nor face has
  no template and no answer. `UserIDMService` refuses a call before the controller sees it
  (permission, parameters): that is `Refuse`.
* `ExecutorRegistry`. `authResPool_` maps ids to callbacks, each the `Executor` object (`generation`)
  of a process; `watched` are the death recipients of the service; `register[p]` is the place of the
  one registration a process can have on its way, which is on the service's side from "add" on;
  `proxy_`, `executorMessenger_` hold the number of the start of the service they are of. A death
  notice is two steps, pool and device (`died` is between them). `late` marks the ids inserted after
  their notice and is read by properties only. `Executor` has the same driver in more detail, with
  its commands and mutexes and a registration that is one step. `OnFrameworkReady` may end before the
  proxy, for want of an HDI or of executor info (`StartRegister`).
* `IpcCalls`. A parcel is a sequence of cells, each with its wire shape and the name of the parameter
  it was written from: a stub that reads in another order, another shape or one field too many gets
  `Garbled`. A method's record carries what the proxy returns when a write fails, when the request
  fails, and what it reads of the reply; the Binder drops the reply of a stub that returns an error,
  and a TF_ASYNC call has none.
* `AuthAttributes`. The bytes are there: tag and length in four bytes each, the value after them, all
  with the lowest byte first, inside the root's and the data's own tag and length; one that was set
  twice comes twice. The module has the setters and what is done for one attribute; the loops over
  them are actions of `IpcCalls`: `InvokePack` sorts, `PackAttribute` and `UnpackAttribute` are one
  turn each, with `buffer` the bytes and `cursor` the loop variable (`i` of `Pack`, `authDataLength`
  of `Unpack`), and `PackEnds` adds the headers and the signature. A `uint64` is a pair of words of 32
  bits, lower and upper, packed and read in eight bytes; lengths and places stay below 2^32, as those
  of a parcel do.
* `ClientIpc`. Instances of the service are numbered; `service` is the one that runs, `proxy` the one
  the library caches. `GetProxy` is four steps (the look at the cached proxy, the lookup of the service, the
  death recipient, the store) with `mutex_` held from the first to the last, since the lookup is IPC and the service may die under
  it. `notices` are the death notices not handled yet; a notice of an instance that is no longer
  cached changes nothing. A request's call is its thread's place, the message at the service and
  the reply; when the instance dies a TF_SYNC caller gets an error and a TF_ASYNC one nothing. How
  often the service answers an enrolment, an authentication or a deletion is what `UserIdm` and
  `UserAuth` show: an enrolment at least once and perhaps again, the other two perhaps not at all.
* `JsBindings`. A call of JavaScript holds the JS thread (`js`) or leaves an async work to a worker;
  the library's answers make uv works, which the loop takes in any order. `call[c].context` says
  who has the call's context, `freed` how often it was deleted, `refs` which references exist.

## 3. Runs

Bounds are the constants of each `.cfg`. All passing runs are exhaustive for their bounds.

| Run | Question | Bounds, and why they suffice |
|---|---|---|
| `CoAuthSchedule` | do pool and monitor stay in step, do executors, failure and timeout speak once each, whom does the timeout end, and does co_auth implement its contract? | one schedule with up to two executors, two executor ids of one type that register and die; the timer may fire while `BeginExecute` is still at work. Schedules share only the timer thread and the registry; the races are between two `Finish`, the begin, one timeout and a cancel; two is the least number of executors for which the first is not the last, and the least number of ids for which the lookup may find another. The invariants are proved for any number |
| `UserAuthOneContext` | one result, tips before it, thread given back, what a failed request leaves behind, `ClientContract` | no, one or two schedules and one tip: the second answer can come at every point of the first one's task. Another context may hold the one thread at any time. Once a context has had two answers (`MaxAnswers`) each schedule answers once only, so one of them can be told twice, and the device may leave any answer undone |
| `ThreadGroups` | ownership of pools, no pool destroyed in use, tasks in their own transaction, which tasks never run | three transactions for two threads and queues of two, so that `AddTask` waits with the mutex held and free pools are used again |
| `Executor` | one end per command, one message at a time, accepted commands tracked, answers delivered, reconnects registered | one command (commands meet only in their executor's mutex and in the walk over them; the invariants are proved for any number), two answers to it, two connects, a driver that goes at any time |
| `UserIdm` | is the first answer of an enrolment true, does an abandoned enrolment enrol, does busy end, is each enrolment answered? | three calls of any kind, two at a time: two to be in the way of each other and one to have set up the session; two credentials |
| `ExecutorRegistry` | is every entry of the pool watched, has it a messenger, which drivers stay unregistered? | one process with two connects, three starts of the service, four ids: a registration that meets a death of its process, a reconnect, or one or two restarts, or that the driver has no info for. Registrations of different processes share the pool alone, under ids that are never given twice; the invariants are proved for any number |
| `IpcCalls` | does each stub read what its proxy wrote, is what is returned what was done, does `Unpack` return what `Pack` was given? | every method of every interface, lists of up to two credentials, every write, request and reply failing; up to three attributes of every type, with empty arrays, values of two and more bytes, 64-bit values with and without an upper half, and a setter of the wrong type. Calls share no state; the invariants are proved for lists of every length and any attributes |
| `ClientIpc` | is a stale proxy always dropped, does every call come back, does the callback hear what it should, once? | two threads of one application, the first with any operation of the three libraries, the second with three that share its proxy; the service dies once and starts again at any point; up to three answers of a deletion, an enrolment or an authentication; nine worlds for the queries: a device that does it all, and one thing missing after another. The invariants are proved for any number of requests and deaths |
| `JsBindings` | does JavaScript hear the first answer, once? do the works find what they use, is an answer told, are contexts deleted? | any function of either binding with any arguments it distinguishes, and beside it one that holds the JS thread or a worker; two tips and two answers of the library, in any order with the works. Calls meet only in the JS thread, the workers and the queue of works; the invariants are proved for any number of them |

`CHECK_DEADLOCK FALSE` is set where the modelled part may come to rest: all requests served
(`UserAuthOneContext`, `UserAuthToken`, `UserIdm`, `JsBindings`), all commands ended and connects used up (`Executor`), all
starts used up and the last service or the process dead (`ExecutorRegistry`, `RegistryReconnect`,
`ClientIpc*`), and in `ThreadGroups`, where threads may really wait for each other. In
`CoAuthSchedule` executors can come and go for ever, in `IpcCalls` a call that is over stays over by
an explicit step, and deadlock is checked in both.

Some properties say exactly how far a guarantee goes where the code stops short of it.
`OnlyJamStopsTasks`: a task of `ThreadGroups` that never runs is one behind a full queue, whose
`AddTask` waits with `ThreadGroups::mutex_` held for a thread that waits for that mutex in
`ReleaseTaskThread`. `ReconnectRegisters`: a driver that comes back is registered unless it names no executor, the
registration itself fails (`executor.cpp:65-75`, `93`), or `Executor::OnHdiDisconnect` walked over an
unfinished command and locked its own mutex.
`TimeoutEndsExecutors`: an executor at work when the timeout starts to cancel is told to end, unless
the call to it fails (`coauth_manager.cpp:145-149`), another of its type has a lower id and hides it
(`auth_res_pool.cpp:77-85`), or `CoAuthHandle` failed and erases the entry (`coauth_manager.cpp:59-64`).
`ThreadReturned`: a thread that is held comes back, unless the context is left undecided: its request
is over, each of its schedules has ended, and the device left every answer undone. That includes the
context without schedules, which `UserAuthAdapter::GenerateSolution` accepts
(`userauth_adapter.cpp:234-248`); `callbackCount_` is 0 from the start, so nobody asks again
(`userauth_excallback_impl.cpp:179`). `ClientContract` has such a request as `Undecide`.
`NoContextOutlivesItsAnswer`: a client that was answered has no entry of `contexts_` left behind but
the one of a failed `Auth` (`userauth_service.cpp:268`).
`OnlyFailureMisses`: a driver that stays while the service stays comes into the pool, unless its
last registration had no info from the driver, was refused or used the proxy of a service that had
died; the boot event may be handled before the process hears of that death, and no other event follows.
`ToldOnce`: a callback of a client hears one answer, except what the service itself answers more than
once, to which the library adds nothing of its own: a deletion, answered for each credential and once
more after `DelCred` has refused it (`useridm_service.cpp:413`); an enrolment, by two `OnFinish` or by
the handler of the property and `OnFinish` (`useridm_setprop_handler.cpp:48`,
`useridm_coauth_handler.cpp:115`); an authentication, by BUSY after its result
(`userauth_excallback_impl.cpp:103`). The other exception are the two
queries whose proxy answers FAIL although only the reply was lost (`useridm_proxy.cpp:148`, `176`).
`AcceptedIsAnswered` speaks of enrolments and of queries whose callback hears a refusal:
authentications may be left undone, and a deletion may find no credential it can tell of.
`ReturnIsTrue` likewise names the calls whose result says nothing: `EnforceDelUser` reads the reply
of a TF_ASYNC call (`useridm_proxy.cpp:392`), an executor's messages return SUCCESS when they were
not sent (`executor_messenger_proxy.cpp:32`, `93`), and the stubs of both `Cancel` hand the service's
error to the Binder, which drops the reply (`useridm_stub.cpp:247`, `259`). `AttributesArrive`
excepts the empty byte array, which `Pack` skips (`auth_attributes.cpp:238`).

### Runs that end in a violation

Each checks what a comment or the interface description says, and TLC finds a behaviour of the
code that does otherwise. Every one is entered under `findings` in `PROJECT.json` with its lines.

| Run | Says | Does |
|---|---|---|
| `UserAuthToken` | a passed authentication carries a token | the executor's code is told although the device refused it |
| `RegistryReconnect` | "after hid connect re-register resource pool" (`executor.cpp:51`) | the new callback is added under a new id and the old one stays; the lookup by type takes the lower id |
| `ClientIpcProperty` | "the authentication result code is returned through the callback" (`iuser_auth.h:56`, `74`) | a property request without permission is refused through `onResult`, and the application's stub of that kind has nobody to pass it to |

Further behaviour that the models have and a reader of the code may not expect:

* Two executors that finish together both read a count of 2 and both count down: nobody is the last,
  and the caller waits for the timeout (`executor_messenger.cpp:70-72`).
* A driver that goes with a command on its way makes `Executor::OnHdiDisconnect` lock its own mutex;
  the thread stops, with `Driver::mutex_` held (`executor.cpp:116`).
* Two enrolments can both pass the check for an active session (`useridm_controller.cpp:176`); the
  first schedule goes on with its id forgotten, and `ForgottenNeverEnrols` shows it enrols nothing.
* An answer of co_auth that comes after the thread of its context went back is told to the client
  as a second result, BUSY (`userauth_excallback_impl.cpp`, the failing `PostTask`).
  `ClientContract` has it as the action `Apologise`.
* A request whose schedule list the device leaves empty, or whose every answer it leaves undone, is
  never answered and keeps its thread (`userauth_excallback_impl.cpp:179`): `Undecided` in `UserAuth`.
  After four of them every request fails with overload.
* An executor whose `OnBeginExecute` returned an error may be at work all the same, and its `Finish`
  may meet the failure that `CoAuthHandle` reports and the timeout: the callback of one schedule can
  hear all three (`coauth_manager.cpp:59-64`, `226-243`), each of them once.
* An executor whose process dies before `AddDeathRecipient` stays in the device
  (`auth_res_manager.cpp:81`), and one that dies before `Insert` stays in the
  pool (`late`); `EntryIsWatched` says that there is no other way to such an entry.
* The handler of a deletion deletes whatever schedule id is active, also that of another call's
  enrolment (`useridm_setprop_handler.cpp:52`).
* `OnFinishModify` ignores the answer of `UpdateCredential`: the device refuses, and the client hears
  SUCCESS (`useridm_coauth_handler.cpp:61`). `FirstAnswerIsTrue` therefore speaks of `addCredential`.
* `DelFaceCredentialCtrl` tells nobody after the deletion of a credential that is no face
  (`useridm_controller.cpp:293`). `EnrolmentAnswered` therefore speaks of enrolments.
* A list of credentials in which none is PIN or face is deleted without a word to the client
  (`useridm_controller.cpp:323-346`).
* A `BeginExecute` that fails at one executor tells none of those already started that the schedule
  is over (`coauth_manager.cpp:59-64`), and one that starts an executor after a `Cancel` has passed its
  place leaves it at work; `TimeoutEndsExecutors` states whom the timeout does end.

## 4. Fairness

* A thread of the service that is not waiting runs on: weak fairness on the steps of each thread
  (`HandleStep`, `FinishStep`, `TimeOutStep`; `RequestStep`, `TaskStep`, `CancelStep`;
  `CallStep`, `FinishStep`; `BeginStep`). The event runner fires an armed timer: part of
  `TimeOutStep`.
* A mutex that comes free again and again is taken in the end: strong fairness on the steps that
  take one (`SF` in `Executor`, and on a thread that calls `ReleaseTaskThread` in `ThreadGroups`).
  The mutexes are `std::mutex` on a preemptive scheduler; nothing here spins to keep one.
* In `CoAuth` an executor need never return from `OnBeginExecute` (`BeginReturns` has no fairness; the
  begin then stays there, and the timeout still tells the callback). A call of `OnEndExecute` does come
  back, with or without an error: it is a step of `TimeOutStep`.
* In `ExecutorRegistry` a registration goes on, and death notices and boot events are delivered. The
  processes, the driver and the service come and go as they like.
* An executor that works need not ever finish, and no fairness is asked of it; of a driver neither,
  except that in `Executor` a call of `OnResult` that has begun goes on. Clients need not call.
* In `ClientIpc` an application's thread that is inside a call goes on, a message that reached a live
  service is served, and a death notice is handled. Applications need not call, and the service
  neither dies nor starts because of fairness. That a live service serves each synchronous call takes
  its IPC threads for granted: the jam of `ThreadGroups` (`OnlyJamStopsTasks`) can keep them.
* In `JsBindings` workers take async works, the loop takes each uv work and each completion, and a
  function of the library returns (`CallsReturn` of `ClientIpc`). The library need not answer.
* In `UserAuth` and `UserIdm` an open schedule is told and released. That is the fairness of
  `ScheduleContract`, which `CoAuthSchedule` shows co_auth to implement. Of the device nothing is
  assumed: it may leave every answer undone.

## 5. Proofs

TLAPS checks, for all values of the constants that satisfy the named assumptions
(`CoAuthAssumption`, `UserAuthAssumption`, `ThreadGroupsAssumption`, `ExecutorAssumption`,
`UserIdmAssumption`, `RegistryAssumption`, `ClientAssumption`, `IpcAssumption`: what is set is a
value the setter takes; `JsBindings` needs none; bounds are natural numbers, the values
that stand for nobody are none of the values they stand beside):

| Theorem | Says | Argument |
|---|---|---|
| `CoAuthProofs!TypeCorrect` | `Spec => []TypeOK` | inductive as it stands; one step per action. `TableUpdate` types an update of one slot of one schedule, `TypesAreSequences` the executors of a new schedule |
| `CoAuthProofs!PoolIsWatched` | `Spec => []PoolAndMonitorAgree` | not inductive as it stands: `AllWatched` adds that executors beyond the loop index, or whose `OnBeginExecute` has not arrived, have not been started, that the timeout is armed before any of them is, and that a `Finish` past `MonitorRemoveCall` has left no timeout armed; otherwise a `Finish` could remove the timer of an entry nobody else watches. `WatchFrame`: the steps of one schedule leave the invariant of the others alone |
| `CoAuthProofs!LastReports` | `Spec => []LastExecutorReports` | `CountInv`: while a schedule has its entry, the count in it is the number of executors not counted yet, by cardinality of the set of counted ones. An executor that reads 1 or less therefore has all the others behind it (`LastOfCount`), and one that read an uninitialized count finds no entry afterwards, for entries never come back |
| `CoAuthProofs!ToldOneVerdict` | `Spec => []OneVerdict` | `TellInv`: who said a verdict is past its report with all others of its schedule counted, so a `Finish` that is about to report, which has the others counted too, is not beside it (`VerdictIsLast`); a failure is from the one `CoAuthHandle`, a timeout from the timer's one task. `WorkMoves`, `HandleMoves`, `TimerMoves`, `PoolMoves` and `AnswerMoves` say once what any step may do to each of these |
| `CoAuthProofs!CancelPassesNobodyOver` | `Spec => [][NobodyPassedOver]_vars`: an executor at work that the timeout has yet to tell keeps its turn in the loop of `Cancel` until it was told, missed or stopped working, one of its type with a lower id is in the registry, or the begin failed | `WorkInv`: an executor at work is one the registry has, alive and of the type it was found for, so the round at its place finds it or a lower id (`RoundEnds`); until the lookup the entry stays, because a Finish that erases it has all other executors behind it (`CountInv`) and a failing begin is an exception (`EntryStays`) |
| `CoAuthProofs!KeepsContract` | `Spec => Contract!Init /\ [][Contract!Next]_contractVars`: `ImplementsContract` without its fairness | each step is one of the contract's or leaves what the contract speaks of alone. Needs the invariants above, and `ErasedTold`: nobody erases an entry whose callback has heard nothing |
| `UserAuthProofs!TypeCorrect` | `Spec => []TypeOK` | one lemma per thread |
| `UserAuthProofs!KeepsClientContract` | `Spec => Client!SafeSpec`: `ImplementsClient` without its fairness | a first result is an answer of the contract (`FirstResultIsAnswer`), a BUSY after it an apology (`BusyIsApology`), everything else a stutter (`SilentIsStutter`). Needs `ContextOK`, which has the client's result before the flag and nothing after, and `VerdictIsLawful`: what a task is about to report is never BUSY, and has a token only with SUCCESS |
| `UserAuthProofs!FlagMeansReleased`, `AnsweredContextsGo`, `TipsComeFirst` | `DoneMeansReleased`, `NoContextOutlivesItsAnswer`, `TipsPrecedeResult` | `ContextOK` holds of every context: nothing is started before its registration (`NothingStarted`), a thread that is back means a context gone and a client answered (`ThreadIsBack`), the stages of `OnFinishHandle` come in order (`TaskIsInOrder`), the flag is the last of them (`FlagIsLast`), only `Auth` leaves an id behind (`OnlyAuthLeaks`), and after the report no task is taken up before the flag is set (`ReportedLast`). A step of one context leaves the others `Untouched`; threads and schedules are shared by number only |
| `UserAuthProofs!NoThreadIsForgotten` | `Spec => []ThreadIsHeld`: a thread that is held has a task to do, or its request or an open schedule will give it one, or its context is left undecided: no schedule, or every answer left undone by the device | `AnswersInv`, on top of `SafetyInv`: schedules are taken in order (`SchedulesInOrder`), the queue holds what was told and not handled (`QueueInOrder`), every answer told is in it or was left undone while the thread is held (`AnswersAreKept`); so a thread with nothing to do has undone all (`ThreadHasDecided`); one lemma for each kind of step |
| `ThreadGroupsProofs!TypeCorrect` | `Spec => []TypeOK` | with the other two parts of the inductive invariant |
| `ThreadGroupsProofs!OwnersAreSingle` | `Spec => []PoolsHaveOneOwner` | free pools are all different and retained by nobody, retained ones by one transaction each |
| `ThreadGroupsProofs!NoneDestroyed` | `Spec => []NoPoolDestroyed` | `SizeInv`: free and retained pools together are no more than `ThreadNum`, which is at most what is kept |
| `ThreadGroupsProofs!NamesAreRight` | `Spec => []TaskSeesItsTransaction` | `NameInv`: at each place of a pool's queue the name the thread will have there, from its present name and the `EnsureTransaction` tasks before that place, is the one the task was posted for; also at the place a transaction that retains the pool would post to |
| `ThreadGroupsProofs!OnlyJamKeepsMutex`, `JamIsFinal` | `Spec => []MutexComesFree`, `Spec => [][StuckForEver]_vars` | the holder of `mutex_` adds its task to a pool of `Targets`; there is room in the queue, or the thread of one of them is in nothing that needs `mutex_`, or all are full and at `finish` (`Stuck`). Needs that no queue is longer than `MaxTaskNum` (`QueueSteps`), that a full one is not empty, and that a target is a pool that runs (`TargetsArePools`). Nothing that is enabled in `Stuck` changes a target |
| `ExecutorProofs!TypeCorrect` | `Spec => []TypeOK` | `EventInv` adds that there are no more `Executor` objects than connects |
| `ExecutorProofs!ToldOnlyOnce`, `MessagesOneByOne` | `FinishOnce`, `OneMessageAtATime` | a thread past the test of `isFinished_` holds the command's mutex (`MutexInv`), has set the flag and told nobody yet (`EndInv`); the command's own IPC thread is in `OnResult` only after the driver refused the request (`BeginInv`) |
| `ExecutorProofs!WorkIsTracked` | `Spec => []AcceptedIsTracked` | `OwnerInv`: `Executor` objects are numbered in the order made; `TrackInv`: `command2Respond_` is left only by commands that were told or never began |
| `ExecutorProofs!MutexesComeFree`, `StuckIsFinal` | `Spec => []NobodyWaitsForEver`, `Spec => [][StuckForEver]_vars` | who may hold each mutex (`LockInv`) and what the walk of `RespondCallbackOnDisconnect` visits while it holds `executorMutex` (`WalkInv`): so the holder of a mutex waits, if at all, for the next one in the order manager, driver, executor, command, but for a walk that meets a command at its end, or itself. `WalkFrame`: no thread but the walk's moves the walk on |
| `UserIdmProofs!ForgottenIsFinal` | `Spec => ForgottenNeverEnrols`, an action property | what it says of one step is true because of all that follow: `Doomed`, once true of a schedule, is true for ever (`DoomedForEver`), for an id is inserted once, before its schedule begins, and a doomed `OnFinish` stops at the comparison with the id |
| `ClientIpcProofs!CallbackIsToldOnce` | `Spec => []ToldOnce` | the tables first: but for the two queries no operation has both an answer to wait for and a proxy that answers (`LibrariesAreTame`, through every overlay of them). Then `RequestInv`, of each request: nothing is told before it is sent (`SendingInv`), the service has told nothing before it serves (`ServingInv`), and then has one thing to say (`ToldInv`), or results only for an operation it answers often, to which the library adds nothing (`OftenInv`), and a query that waits has heard at most its info (`WaitingInv`). A step of one request leaves the others alone (`OthersKeep`) |
| `ClientIpcProofs!AnswersAreOnTheirWay`, `CallsGoOn` | `Spec => []AnswerIsOnItsWay`, `Spec => []NobodyIsKept` | `ProgressInv` on top of `RequestInv`: the calls the service is about to make for such an operation are of the method whose stub passes them on, a call of the callback makes what was told longer (`TellingAdds`), and a thread waits only for a request that was sent. `LockInv` has the holder of `mutex_` inside `GetProxy` |
| `ClientIpcProofs!ParametersArrive`, `ResultsAreTrue` | `StubReadsWhatProxyWrote`, `ReturnIsTrue` of `IpcCalls` | `TablesAgree`: the tables of proxies and stubs have the same methods, and each method `Meets` its stub, in fields and in what the two return. It is proved group by group, and tables that agree make overlays that agree (`AgreeOverlaid`, `OverlayAssociates`). `EveryCallMeets` adds the list of `OnGetInfo`, of any length. `IpcInv` then follows the call: the parcel is the method's fields until it is read, nobody has a verdict before the stub has run, and an error reaches the Binder from three stubs only |
| `ClientIpcProofs!AttributesAreUnpacked` | `AttributesArrive` of `IpcCalls` | the bytes first: a word is the sum of its four bytes (`WordBytes`), a `uint64` the two words of its eight, a field is read as what was packed (`FieldRead`, `ValueRead`). `AttributesInv` is about the layout of the buffer, a function from the place of a field to its tag: fields lie one behind the other (`Laid`) and each place holds its field (`Holds`). A turn of `Pack` adds a place (`FieldAdded`), its end moves all by sixteen bytes and adds the signature (`FieldsEnclosed`), the cursor of `Unpack` goes from place to place and whatever is behind it has arrived (`Reached`, `UnpackLoop`), and at the end nothing is before it (`AllHasArrived`). Since the loops are steps of the specification, no induction over the list is needed |
| `JsBindingsProofs!FirstAnswerIsHeard`, `ContextsAreFound` | `HearsFirstAnswer`, `WorksFindTheirContext` | `CallInv` of the record of each call: its context has one owner at a time and is deleted once (`ContextInv`), the first answer takes it from the callback object (`AnswerInv`), who was told was told that answer and the context is gone (`ToldInv`), and the references live as long as the context (`RefsInv`). `WorksInv`: the work of a result has the context and is its call's only one; a tip was queued before any answer. `CallStep` and `QueueStep` carry both from the call that moves to all |
| `JsBindingsProofs!NobodyIsForgotten` | `Spec => []NobodyForgotten` | of the same invariant: a context that is neither deleted nor in the work of a result is in a callback object the library keeps (`ContextInv`, `QueuedInv`); one the library dropped lives on in the function that still runs (`DropInv`); the references go with the context (`RefsInv`) |
| `ClientIpcProofs!ClientTypes` | `Spec => []TypeOK` | the instances so far are one more than the deaths at most |
| `ClientIpcProofs!ProxyIsFollowed` | `Spec => []ProxyFollowsService` | `Known`: an instance that is cached, or about to be by the holder of `mutex_`, runs and is watched, or its notice is due. `LockInv` keeps the holder of `mutex_` alone between lookup and store |
| `UserIdmProofs!TypeCorrect` | `Spec => []TypeOK` | `TypeInv` adds that a call inside the loop over templates has at least one left, without which `left` could go below zero |
| `UserIdmProofs!FirstAnswer` | `Spec => []FirstAnswerIsTrue` | `AnswerInv`: a schedule begins only after its id was inserted, and before that the client was told nothing (`BegunInOrder`); once the client was told, the id is no longer active, so no later `OnFinish` gets as far as the device, and a credential the client was not told of has its answer on the way (`AnswerOnItsWay`). `ToldFirst`: telling again does not change the first answer |
| `UserIdmProofs!NobodyIsStranded` | `Spec => []NobodyLeftBehind` | `NobodyIsLeft`: every end of `OnFinish` answers and forgets the id, and a schedule leaves the pool between two `OnFinish` only; `AnswerInv` has the answer on the way of those whose id is gone |
| `RegistryProofs!TypeCorrect` | `Spec => []TypeOK` | `TypeInv` adds that an id a registration holds is one the device gave, and that a process with an executor or a registration has connected once (the generation in an entry is not 0) |
| `RegistryProofs!PoolIsCleared` | `Spec => []EntryIsWatched` | `WatchInv`: an id before its death recipient is nobody's (`WatchIsFresh`), before its insert it is watched or its process is dead (`InsertIsFresh`), two registrations never hold the same (`IdsDiffer`), and an id is watched for one process, until whose death the device has it (`WatchedOnce`). `WatchFrame`: all steps that leave device and pool alone |
| `RegistryProofs!RegisteredHasMessenger` | `Spec => []MessengerFollows` | `MessengerInv`: no entry is of an `Executor` object yet to come, so a reconnect starts unregistered (`EntryIsPast`), and a service that is down has no entry and no registration at work, so a start makes no messenger stale (`DownIsEmpty`) |
| `RegistryProofs!NobodyIsMissed` | `Spec => []NoDriverIsMissed`: an executor of a living process that a running service does not find has a registration or a boot event to come, or its last registration had no info from the driver, was refused or went to the proxy of a service that has died | `CaughtInv`: a registration at work is of the `Executor` object in the driver's list, and no other; every step that takes an executor out of the pool or ends a registration leaves one of the ways back (`SightKeeps`) |

Only model-checked: liveness, and the refinements as far as they are about fairness, for the prover has
no ENABLED. Of each of them the safety half is a theorem for all values of the constants,
and what is left to TLC is that the fair step it speaks of is taken:

| Liveness, by TLC | Its safety half, proved |
|---|---|
| `BusyEnds`, `EnrolmentAnswered` | `UserIdmProofs!NobodyIsStranded` |
| `AnsweredIsTold`, `NothingLeaks` | `JsBindingsProofs!NobodyIsForgotten` |
| `ReconnectRegisters`, `AnswerReachesFramework` | `ExecutorProofs!MutexesComeFree` |
| `OnlyJamStopsTasks` | `ThreadGroupsProofs!OnlyJamKeepsMutex`, `JamIsFinal` |
| `AcceptedIsAnswered`, `CallsReturn` | `ClientIpcProofs!AnswersAreOnTheirWay`, `CallsGoOn` |
| `ThreadReturned`, the fairness of `ImplementsClient` | `UserAuthProofs!NoThreadIsForgotten` |
| `TimeoutEndsExecutors` | `CoAuthProofs!CancelPassesNobodyOver` |
| the fairness of `ImplementsContract` | `CoAuthProofs!PoolIsWatched` |
| `OnlyFailureMisses` | `RegistryProofs!NobodyIsMissed` |

## 6. Not modelled

* The Binder itself, permission checks beyond "refused", and the contents of structures copied to and
  from the device; what the device answers is free.
* In `CoAuth` an executor registers, dies and is cleared in one step each; `ExecutorRegistry` models
  the steps between. `QueryStatus` is a stub that answers FAIL, and the lookup by id has no caller.
* What an executor that was never told to end does for the rest of its life (see the end of section 3).
* `AuthApiCallback` and `GetInfoCallbackIDM` of the JavaScript bindings test and take their context
  without a mutex. `JsBindings` has that as one step, because the service makes the calls of one
  callback one after the other; two calls at a time are outside the model. Nor does it say what becomes
  of a tip that an answer overtakes: it looks up a reference that is gone (`user_auth_impl.cpp`,
  `callback.cpp:122`), the exception of `WorksFindTheirContext`.
* Of the system around the registry: the device gives fresh ids in any order and keeps what it was
  told over a restart of the service; the boot event reaches every process alive at the start of the
  service; a process that starts again is another process.
* Of `common/executors`: `DriverManager::Start`, `GetExecutorProp` and the deletion of templates, which
  keep no state there.
* Of the JavaScript bindings: how JS objects are built from results, the exported enumerations, the
  arrays of length 0 that `delCred` and `cancelAuth` take, allocations by napi that fail, and that
  libuv in fact hands the tips and answers of one thread over in order: the model is more general.
* Death of the service process elsewhere than in `ExecutorRegistry` and `ClientIpc`: the pools of
  user_auth and user_idm and the schedules are lost with it, and no state of theirs survives.
* `common/utils`, `common/logs` and `sa_profile`.

## 7. Plan

Written, in this order: `CoAuth` with `ScheduleContract`, `UserAuth` with `ClientContract`,
`ThreadGroups`, `Executor`, `UserIdm`, `ExecutorRegistry`, the parcels with `AuthAttributes` and
`IpcCalls`, `PropertyServing` and `ClientIpc`, `JsBindings`; and the proofs, in the same order.

What is left:

1. `Executor` with two commands, and its registration replaced by the steps of `ExecutorRegistry`.
2. `CoAuth` with the registrations of `ExecutorRegistry` in place of `RegisterExecutor`.
