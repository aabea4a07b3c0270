------------------------------ MODULE UserIdm -------------------------------
(***************************************************************************)
(* services/user_idm: the IPC threads in UserIDMService and                *)
(* UserIDMController, the threads of co_auth in UserIDMCoAuthHandler, and  *)
(* the challenge and schedule id of UserIDMModule they all share.  Its     *)
(* mutex is held for one access only, so each access is a step of its own; *)
(* the client's OnResult is read by nobody here and is part of the step    *)
(* next to it.                                                             *)
(***************************************************************************)
EXTENDS Naturals, Sequences, FiniteSets

CONSTANTS
  Calls,          \* IPC calls; a call also names the challenge or schedule it draws
  None,           \* the 0 of a challenge or schedule id
  IpcThreads,     \* bound on the calls in progress at a time
  MaxCredentials  \* bound on the credentials DeleteUser returns

ASSUME UserIdmAssumption ==
  /\ None \notin Calls
  /\ IpcThreads \in Nat \ {0}
  /\ MaxCredentials \in Nat

VARIABLES
  challenge,   \* challengeAndScheduleId_.first
  scheduleId,  \* challengeAndScheduleId_.second
  kind,        \* kind[r]: which call r is
  pc,          \* pc[r]: where its IPC thread stands
  seen,        \* seen[r]: the local sessionId, or the challenge to cancel
  left,        \* left[r]: credentials whose template is still to be deleted
  status,      \* status[r], told[r]: the schedule of r, as ScheduleContract
  told,        \*   keeps it
  finish,      \* finish[r]: where OnFinish of its handler stands
  verdict,     \* verdict[r]: the result that OnFinish is going to tell
  enrolled,    \* schedules whose token the device took
  results      \* results[r]: what the client's OnResult was called with

vars == <<challenge, scheduleId, kind, pc, seen, left, status, told, finish, verdict,
          enrolled, results>>

data         == <<challenge, scheduleId>>
callVars     == <<kind, pc, seen, left>>
scheduleVars == <<status, told>>
finishVars   == <<finish, verdict, enrolled>>

CoAuth == INSTANCE ScheduleContract WITH Schedules <- Calls

Kinds == {"open", "close", "add", "update", "cancel", "cancelUser", "delUser", "delCred"}

Enrolments == {"add", "update"}

Codes == {"SUCCESS", "FAIL", "BUSY", "ERROR"}

Labels == {"idle", "look", "cancel", "clean", "insert", "check", "busy", "init", "begin", "match",
           "delete", "device", "prop", "returned"}

FinishLabels == {"idle", "match", "enrol", "prop", "end"}

TypeOK ==
  /\ challenge \in Calls \cup {None} /\ scheduleId \in Calls \cup {None}
  /\ kind \in [Calls -> Kinds]
  /\ pc \in [Calls -> Labels]
  /\ seen \in [Calls -> Calls \cup {None}]
  /\ left \in [Calls -> Nat]
  /\ CoAuth!TypeOK
  /\ finish \in [Calls -> FinishLabels]
  /\ verdict \in [Calls -> Codes]
  /\ enrolled \in SUBSET Calls
  /\ results \in [Calls -> Seq(Codes)]

Init ==
  /\ challenge = None /\ scheduleId = None
  /\ kind = [r \in Calls |-> "open"]
  /\ pc = [r \in Calls |-> "idle"]
  /\ seen = [r \in Calls |-> None]
  /\ left = [r \in Calls |-> 0]
  /\ CoAuth!Init
  /\ finish = [r \in Calls |-> "idle"]
  /\ verdict = [r \in Calls |-> "FAIL"]
  /\ enrolled = {}
  /\ results = [r \in Calls |-> <<>>]

OnResult(r, code) == results' = [results EXCEPT ![r] = Append(@, code)]

At(r, kinds, label) == kind[r] \in kinds /\ pc[r] = label

Goto(r, label) == pc' = [pc EXCEPT ![r] = label]

(***************************************************************************)
(* UserIDMService: a call arrives, and is refused or passed on             *)
(***************************************************************************)

FirstLabel(k) ==
  CASE k \in {"open", "close"} -> "look"
    [] k \in Enrolments -> "check"
    [] k = "cancel" -> "match"
    [] OTHER -> "device"

\* Cancel names a challenge OpenSession gave out, or the 0 of a failed one.
Challenges == {None} \cup {o \in Calls : kind[o] = "open" /\ pc[o] = "returned"}

Call(r, k) ==
  /\ pc[r] = "idle"
  /\ Cardinality({q \in Calls : pc[q] \notin {"idle", "returned"}}) < IpcThreads
  /\ kind' = [kind EXCEPT ![r] = k]
  /\ Goto(r, FirstLabel(k))
  /\ \E ch \in IF k = "cancel" THEN Challenges ELSE {None} : seen' = [seen EXCEPT ![r] = ch]
  /\ UNCHANGED <<data, left, scheduleVars, finishVars, results>>

\* CheckPermission or GetCallingUserId fails: the calls with a callback tell it.
Refuse(r, k) ==
  /\ pc[r] = "idle"
  /\ kind' = [kind EXCEPT ![r] = k]
  /\ Goto(r, "returned")
  /\ IF k \in Enrolments \cup {"delUser", "delCred"} THEN OnResult(r, "ERROR")
                                                     ELSE UNCHANGED results
  /\ UNCHANGED <<data, seen, left, scheduleVars, finishVars>>

\* DelCred alone goes on after GetCallingUserId has failed.
RefuseDelCred(r) ==
  /\ At(r, {"delCred"}, "device") /\ results[r] = <<>>
  /\ OnResult(r, "ERROR")
  /\ UNCHANGED <<data, callVars, scheduleVars, finishVars>>

(***************************************************************************)
(* OpenEditSessionCtrl and CloseEditSessionCtrl                            *)
(***************************************************************************)

\* CheckScheduleIdIsActive of the session calls and of the two cancels; the
\* cancels return when no schedule is active.
LookUp(r) ==
  /\ At(r, {"open", "close", "cancel", "cancelUser"}, "look")
  /\ seen' = [seen EXCEPT ![r] = scheduleId]
  /\ Goto(r, IF scheduleId # None THEN "cancel"
             ELSE IF kind[r] \in {"open", "close"} THEN "clean" ELSE "returned")
  /\ UNCHANGED <<data, kind, left, scheduleVars, finishVars, results>>

\* CheckChallenge, and with a challenge Cancel of the schedule: co_auth tells its
\* executors, and the schedule still answers for itself.
CancelOld(r) ==
  /\ At(r, {"open", "close"}, "cancel")
  /\ Goto(r, "clean")
  /\ UNCHANGED <<data, kind, seen, left, scheduleVars, finishVars, results>>

CleanData(r) ==
  /\ At(r, {"open", "close"}, "clean")
  /\ challenge' = None /\ scheduleId' = None
  /\ Goto(r, IF kind[r] = "open" THEN "insert" ELSE "returned")
  /\ UNCHANGED <<kind, seen, left, scheduleVars, finishVars, results>>

\* The device opens a session, or fails and leaves the challenge 0.
InsertChallenge(r) ==
  /\ At(r, {"open"}, "insert")
  /\ challenge' \in {r, None}
  /\ Goto(r, "returned")
  /\ UNCHANGED <<scheduleId, kind, seen, left, scheduleVars, finishVars, results>>

(***************************************************************************)
(* AddCredentialCtrl and UpdateCredentialCtrl                              *)
(***************************************************************************)

CheckChallenge(r) ==
  /\ At(r, Enrolments, "check")
  /\ IF challenge = None THEN Goto(r, "returned") /\ OnResult(r, "FAIL")
                         ELSE Goto(r, "busy") /\ UNCHANGED results
  /\ UNCHANGED <<data, kind, seen, left, scheduleVars, finishVars>>

CheckScheduleIdIsActive(r) ==
  /\ At(r, Enrolments, "busy")
  /\ IF scheduleId # None THEN Goto(r, "returned") /\ OnResult(r, "BUSY")
                          ELSE Goto(r, "init") /\ UNCHANGED results
  /\ UNCHANGED <<data, kind, seen, left, scheduleVars, finishVars>>

\* Mutant: the client is not told that InitSchedule failed.
InitScheduleFailsUntold(r) ==
  /\ At(r, Enrolments, "init")
  /\ Goto(r, "returned")
  /\ UNCHANGED <<data, kind, seen, left, scheduleVars, finishVars, results>>

InitScheduleFails(r) ==
  /\ At(r, Enrolments, "init")
  /\ Goto(r, "returned")
  /\ OnResult(r, "FAIL")
  /\ UNCHANGED <<data, kind, seen, left, scheduleVars, finishVars>>

\* InitSchedule draws a new schedule id, and InsertScheduleId keeps it.
InsertScheduleId(r) ==
  /\ At(r, Enrolments, "init")
  /\ scheduleId' = r
  /\ Goto(r, "begin")
  /\ UNCHANGED <<challenge, kind, seen, left, scheduleVars, finishVars, results>>

\* No schedule is refused outright: CopyScheduleInfo lets none without executors
\* through.
BeginSchedule(r) ==
  /\ At(r, Enrolments, "begin")
  /\ CoAuth!Open(r)
  /\ Goto(r, "returned")
  /\ UNCHANGED <<data, kind, seen, left, finishVars, results>>

(***************************************************************************)
(* DelSchedleIdCtrl, by challenge and by user                              *)
(***************************************************************************)

\* lastChallenge stays 0 without a session, and 0 then matches.
MatchChallenge(r) ==
  /\ \/ /\ At(r, {"cancel"}, "match")
        /\ Goto(r, IF challenge = seen[r] THEN "look" ELSE "returned")
     \/ /\ At(r, {"cancelUser"}, "match")
        /\ Goto(r, IF challenge # None THEN "look" ELSE "returned")
  /\ UNCHANGED <<data, kind, seen, left, scheduleVars, finishVars, results>>

\* UserIDMAdapter::Cancel
CancelEnrollment(r) ==
  /\ At(r, {"cancelUser"}, "device")
  /\ Goto(r, "match") \/ Goto(r, "returned")
  /\ UNCHANGED <<data, kind, seen, left, scheduleVars, finishVars, results>>

\* CoAuthManager::Cancel finds a schedule of the pool only, and fails when an
\* executor does; the cancel by user deletes the id all the same.
CancelSchedule(r) ==
  /\ At(r, {"cancel", "cancelUser"}, "cancel")
  /\ \/ /\ kind[r] = "cancelUser" \/ status[seen[r]] = "open"
        /\ Goto(r, "delete")
     \/ kind[r] = "cancel" /\ Goto(r, "returned")
  /\ UNCHANGED <<data, kind, seen, left, scheduleVars, finishVars, results>>

DeleteSessionId(r) ==
  /\ At(r, {"cancel", "cancelUser"}, "delete")
  /\ scheduleId' = None
  /\ Goto(r, "returned")
  /\ UNCHANGED <<challenge, kind, seen, left, scheduleVars, finishVars, results>>

(***************************************************************************)
(* EnforceDelUser, DelUser, DelCred and DelCredential                      *)
(***************************************************************************)

DeviceRefuses(r) ==
  /\ At(r, {"delUser", "delCred"}, "device")
  /\ Goto(r, "returned")
  /\ OnResult(r, "ERROR")
  /\ UNCHANGED <<data, kind, seen, left, scheduleVars, finishVars>>

\* Mutant: the size of the list is not looked at.
DeleteUserUncounted(r) ==
  /\ At(r, {"delUser"}, "device")
  /\ \E n \in 0..MaxCredentials : left' = [left EXCEPT ![r] = n]
  /\ Goto(r, "prop")
  /\ UNCHANGED <<data, kind, seen, scheduleVars, finishVars, results>>

\* DelExecutorPinInfoCtrl fails without a credential, and has a template to
\* delete for each PIN and FACE of the list: for a list of neither nobody is told.
DeleteUser(r) ==
  /\ At(r, {"delUser"}, "device")
  /\ \E listed \in 0..MaxCredentials, n \in 0..MaxCredentials :
       /\ n <= listed
       /\ left' = [left EXCEPT ![r] = n]
       /\ Goto(r, IF n = 0 THEN "returned" ELSE "prop")
       /\ IF listed = 0 THEN OnResult(r, "FAIL") ELSE UNCHANGED results
  /\ UNCHANGED <<data, kind, seen, scheduleVars, finishVars>>

\* A PIN: FAIL is returned and nobody called.
DelFaceCredentialCtrl(r) ==
  \/ left' = [left EXCEPT ![r] = 1] /\ Goto(r, "prop")
  \/ UNCHANGED left /\ Goto(r, "returned")

DeleteCredential(r) ==
  /\ At(r, {"delCred"}, "device")
  /\ DelFaceCredentialCtrl(r)
  /\ UNCHANGED <<data, kind, seen, scheduleVars, finishVars, results>>

\* SetExecutorProp calls UserIDMSetPropHandler::OnResult before it returns.
SetExecutorProp(r) ==
  /\ At(r, {"delUser", "delCred"}, "prop")
  /\ \E code \in {"SUCCESS", "FAIL"} : OnResult(r, code)
  /\ scheduleId' = None
  /\ left' = [left EXCEPT ![r] = @ - 1]
  /\ Goto(r, IF left[r] = 1 THEN "returned" ELSE "prop")
  /\ UNCHANGED <<challenge, kind, seen, scheduleVars, finishVars>>

(***************************************************************************)
(* UserIDMCoAuthHandler::OnFinish, under the mutex of the handler          *)
(***************************************************************************)

FinishTo(r, label) == finish' = [finish EXCEPT ![r] = label]

Concludes(r, code) == FinishTo(r, "end") /\ verdict' = [verdict EXCEPT ![r] = code]

\* Mutant: a failed schedule leaves the id to whoever comes next.
FinishFailedKeepsId(r, what) ==
  /\ finish[r] = "idle"
  /\ CoAuth!Tell(r, what)
  /\ OnResult(r, "FAIL")
  /\ UNCHANGED <<data, callVars, finishVars>>

\* Any code but SUCCESS: DeleteSessionId, whosever id it is.
FinishFailed(r, what) ==
  /\ finish[r] = "idle"
  /\ CoAuth!Tell(r, what)
  /\ scheduleId' = None
  /\ OnResult(r, "FAIL")
  /\ UNCHANGED <<challenge, callVars, finishVars>>

\* Mutant: any active schedule id will do.
FinishAddUnmatched(r) ==
  /\ kind[r] = "add" /\ finish[r] = "idle"
  /\ CoAuth!Tell(r, "verdict")
  /\ IF scheduleId # None THEN FinishTo(r, "enrol") /\ UNCHANGED verdict
                          ELSE Concludes(r, "FAIL")
  /\ UNCHANGED <<data, callVars, enrolled, results>>

\* ADD_PIN_CRED, ADD_FACE_CRED: the schedule must still be the active one.
FinishAdd(r) ==
  /\ kind[r] = "add" /\ finish[r] = "idle"
  /\ CoAuth!Tell(r, "verdict")
  /\ IF scheduleId = r THEN FinishTo(r, "enrol") /\ UNCHANGED verdict ELSE Concludes(r, "FAIL")
  /\ UNCHANGED <<data, callVars, enrolled, results>>

\* MODIFY_CRED: OnFinishModify looks for a challenge first.
FinishModify(r) ==
  /\ kind[r] = "update" /\ finish[r] = "idle"
  /\ CoAuth!Tell(r, "verdict")
  /\ IF challenge # None THEN FinishTo(r, "match") /\ UNCHANGED verdict ELSE Concludes(r, "FAIL")
  /\ UNCHANGED <<data, callVars, enrolled, results>>

MatchSchedule(r) ==
  /\ finish[r] = "match"
  /\ IF scheduleId = r THEN FinishTo(r, "enrol") /\ UNCHANGED verdict ELSE Concludes(r, "FAIL")
  /\ UNCHANGED <<data, callVars, scheduleVars, enrolled, results>>

\* UserIDMAdapter::AddCredential decides what the client is told.
AddCredential(r) ==
  /\ kind[r] = "add" /\ finish[r] = "enrol"
  /\ \/ enrolled' = enrolled \cup {r} /\ Concludes(r, "SUCCESS")
     \/ UNCHANGED enrolled /\ Concludes(r, "ERROR")
  /\ UNCHANGED <<data, callVars, scheduleVars, results>>

\* What UserIDMAdapter::UpdateCredential returns is not looked at.
UpdateCredential(r) ==
  /\ kind[r] = "update" /\ finish[r] = "enrol"
  /\ FinishTo(r, "prop")
  /\ enrolled' \in {enrolled, enrolled \cup {r}}
  /\ UNCHANGED <<data, callVars, scheduleVars, verdict, results>>

\* SetExecutorProp for the credential that was replaced, whose handler tells the
\* same client.
DeleteReplaced(r) ==
  /\ finish[r] = "prop"
  /\ \E code \in {"SUCCESS", "FAIL"} : OnResult(r, code)
  /\ scheduleId' = None
  /\ Concludes(r, "SUCCESS")
  /\ UNCHANGED <<challenge, callVars, scheduleVars, enrolled>>

\* Mutant: the id is deleted after an add only.
FinishEndsAdd(r) ==
  /\ finish[r] = "end"
  /\ FinishTo(r, "idle")
  /\ OnResult(r, verdict[r])
  /\ scheduleId' = IF kind[r] = "add" THEN None ELSE scheduleId
  /\ UNCHANGED <<challenge, callVars, scheduleVars, verdict, enrolled>>

\* OnResult and DeleteSessionId end both.
FinishEnds(r) ==
  /\ finish[r] = "end"
  /\ FinishTo(r, "idle")
  /\ OnResult(r, verdict[r])
  /\ scheduleId' = None
  /\ UNCHANGED <<challenge, callVars, scheduleVars, verdict, enrolled>>

\* co_auth lets go of a schedule after the OnFinish that told it.
ScheduleReleased(r) ==
  /\ finish[r] = "idle"
  /\ CoAuth!Release(r)
  /\ UNCHANGED <<data, callVars, finishVars, results>>

CallStep(r) ==
  \/ LookUp(r) \/ CancelOld(r) \/ CleanData(r) \/ InsertChallenge(r)
  \/ CheckChallenge(r) \/ CheckScheduleIdIsActive(r)
  \/ InitScheduleFails(r) \/ InsertScheduleId(r) \/ BeginSchedule(r)
  \/ MatchChallenge(r) \/ CancelEnrollment(r) \/ CancelSchedule(r) \/ DeleteSessionId(r)
  \/ DeviceRefuses(r) \/ DeleteUser(r) \/ DeleteCredential(r) \/ SetExecutorProp(r)

OnFinish(r) ==
  \/ \E what \in CoAuth!Kinds : FinishFailed(r, what)
  \/ FinishAdd(r) \/ FinishModify(r)

FinishStep(r) ==
  MatchSchedule(r) \/ AddCredential(r) \/ UpdateCredential(r) \/ DeleteReplaced(r) \/ FinishEnds(r)

Next ==
  \E r \in Calls :
    \/ \E k \in Kinds : Call(r, k) \/ Refuse(r, k)
    \/ CallStep(r) \/ RefuseDelCred(r)
    \/ OnFinish(r) \/ FinishStep(r) \/ ScheduleReleased(r)

\* Threads run on.  A schedule in the pool is told and released: that is what
\* module CoAuth shows of co_auth (ImplementsContract).
Fairness ==
  \A r \in Calls :
    /\ WF_vars(CallStep(r)) /\ WF_vars(FinishStep(r))
    /\ WF_vars(status[r] = "open" /\ (OnFinish(r) \/ ScheduleReleased(r)))

Spec == Init /\ [][Next]_vars

FairSpec == Spec /\ Fairness

(***************************************************************************)
(* Properties                                                              *)
(***************************************************************************)

\* The first answer of addCredential is the true one: SUCCESS if and only if
\* the device took the credential, whatever the verdict, the timeout, a cancel
\* or another session did in between, and it stays true of what comes later.
FirstAnswerIsTrue ==
  \A r \in Calls :
    kind[r] = "add" /\ results[r] # <<>> => (Head(results[r]) = "SUCCESS" <=> r \in enrolled)

\* A schedule whose id UserIDMModule has forgotten (by a cancel, a new session
\* or the end of another schedule) before its OnFinish began enrols nothing.
Forgotten(r) ==
  /\ kind[r] \in Enrolments /\ pc[r] \in {"begin", "returned"}
  /\ scheduleId # r
  /\ finish[r] = "idle" /\ r \notin enrolled

ForgottenNeverEnrols == \A r \in Calls : [](Forgotten(r) => [](r \notin enrolled))

\* BUSY is not for ever: the id of a schedule is forgotten in the end.
BusyEnds == \A r \in Calls : scheduleId = r ~> scheduleId # r

\* Every addCredential and updateCredential is answered.
EnrolmentAnswered ==
  \A r \in Calls : kind[r] \in Enrolments /\ pc[r] # "idle" ~> results[r] # <<>>
=============================================================================
