--------------------------- MODULE UserIdmProofs ----------------------------
(***************************************************************************)
(* Proofs about UserIdm, for every set of calls and every bound.           *)
(***************************************************************************)
EXTENDS UserIdm, SequenceTheorems, TLAPS

\* Telling a client a result keeps the type of what was told.
LEMMA ToldIsTyped ==
  ASSUME NEW r \in Calls, NEW code \in Codes, results \in [Calls -> Seq(Codes)],
         OnResult(r, code)
  PROVE  results' \in [Calls -> Seq(Codes)]
<1>1. Append(results[r], code) \in Seq(Codes)
  OBVIOUS
<1> QED
  BY <1>1 DEF OnResult

\* A loop over templates is entered with one at least, which keeps left in Nat.
LeftInv == \A r \in Calls : pc[r] = "prop" => left[r] > 0

TypeInv == TypeOK /\ LeftInv

\* The types and that strengthening are inductive.
LEMMA TypeInvariant == Spec => []TypeInv
<1> USE UserIdmAssumption DEF TypeInv, LeftInv, TypeOK, CoAuth!TypeOK, CoAuth!Kinds, Kinds, Codes, Labels,
        FinishLabels, Enrolments
<1>1. Init => TypeInv
  BY DEF Init, CoAuth!Init
<1>2. TypeInv /\ [Next]_vars => TypeInv'
  <2> SUFFICES ASSUME TypeInv, [Next]_vars
               PROVE  TypeInv'
    OBVIOUS
  <2> USE DEF data, callVars, scheduleVars, finishVars, At, Goto
  <2>1. ASSUME NEW r \in Calls, NEW k \in Kinds, Call(r, k)
        PROVE  TypeInv'
    <3>1. FirstLabel(k) \in Labels /\ FirstLabel(k) # "prop"
      BY DEF FirstLabel
    <3> QED
      BY <2>1, <3>1 DEF Call, Challenges
  <2>2. ASSUME NEW r \in Calls, NEW k \in Kinds, Refuse(r, k)
        PROVE  TypeInv'
    <3>1. results' \in [Calls -> Seq(Codes)]
      BY <2>2, ToldIsTyped DEF Refuse
    <3> QED
      BY <2>2, <3>1 DEF Refuse
  <2>3. ASSUME NEW r \in Calls, CallStep(r)
        PROVE  TypeInv'
    <3>1. CASE LookUp(r)
      BY <3>1 DEF LookUp
    <3>2. CASE CancelOld(r) \/ CleanData(r) \/ InsertChallenge(r)
      BY <3>2 DEF CancelOld, CleanData, InsertChallenge
    <3>3. CASE CheckChallenge(r)
      <4>1. results' \in [Calls -> Seq(Codes)]
        BY <3>3, ToldIsTyped DEF CheckChallenge
      <4> QED
        BY <3>3, <4>1 DEF CheckChallenge
    <3>4. CASE CheckScheduleIdIsActive(r)
      <4>1. results' \in [Calls -> Seq(Codes)]
        BY <3>4, ToldIsTyped DEF CheckScheduleIdIsActive
      <4> QED
        BY <3>4, <4>1 DEF CheckScheduleIdIsActive
    <3>5. CASE InitScheduleFails(r)
      <4>1. results' \in [Calls -> Seq(Codes)]
        BY <3>5, ToldIsTyped DEF InitScheduleFails
      <4> QED
        BY <3>5, <4>1 DEF InitScheduleFails
    <3>6. CASE InsertScheduleId(r)
      BY <3>6 DEF InsertScheduleId
    <3>7. CASE BeginSchedule(r)
      BY <3>7 DEF BeginSchedule, CoAuth!Open
    <3>8. CASE MatchChallenge(r) \/ CancelEnrollment(r)
      BY <3>8 DEF MatchChallenge, CancelEnrollment
    <3>9. CASE CancelSchedule(r) \/ DeleteSessionId(r)
      BY <3>9 DEF CancelSchedule, DeleteSessionId
    <3>10. CASE DeviceRefuses(r)
      <4>1. results' \in [Calls -> Seq(Codes)]
        BY <3>10, ToldIsTyped DEF DeviceRefuses
      <4> QED
        BY <3>10, <4>1 DEF DeviceRefuses
    <3>11. CASE DeleteUser(r)
      <4>1. results' \in [Calls -> Seq(Codes)]
        BY <3>11, ToldIsTyped DEF DeleteUser
      <4>2. PICK n \in 0..MaxCredentials :
              /\ left' = [left EXCEPT ![r] = n]
              /\ Goto(r, IF n = 0 THEN "returned" ELSE "prop")
        BY <3>11 DEF DeleteUser
      <4>3. n \in Nat /\ left \in [Calls -> Nat] /\ pc \in [Calls -> Labels]
        OBVIOUS
      <4>4. left' \in [Calls -> Nat] /\ pc' \in [Calls -> Labels]
        BY <4>2, <4>3
      <4>5. ASSUME NEW q \in Calls, pc'[q] = "prop"
            PROVE  left'[q] > 0
        BY <4>2, <4>3, <4>5
      <4> QED
        BY <3>11, <4>1, <4>4, <4>5 DEF DeleteUser
    <3>12. CASE DeleteCredential(r)
      <4>1. left \in [Calls -> Nat] /\ pc \in [Calls -> Labels]
        OBVIOUS
      <4>2. CASE left' = [left EXCEPT ![r] = 1] /\ Goto(r, "prop")
        BY <3>12, <4>1, <4>2 DEF DeleteCredential
      <4>3. CASE UNCHANGED left /\ Goto(r, "returned")
        BY <3>12, <4>1, <4>3 DEF DeleteCredential
      <4> QED
        BY <3>12, <4>2, <4>3 DEF DeleteCredential, DelFaceCredentialCtrl
    <3>13. CASE SetExecutorProp(r)
      <4>1. results' \in [Calls -> Seq(Codes)]
        BY <3>13, ToldIsTyped DEF SetExecutorProp
      <4>2. left[r] \in Nat /\ left[r] > 0
        BY <3>13 DEF SetExecutorProp, LeftInv
      <4>3. left' \in [Calls -> Nat] /\ pc' \in [Calls -> Labels] /\ LeftInv'
        BY <3>13, <4>2 DEF SetExecutorProp, LeftInv
      <4> QED
        BY <3>13, <4>1, <4>3 DEF SetExecutorProp
    <3> QED
      BY <2>3, <3>1, <3>2, <3>3, <3>4, <3>5, <3>6, <3>7, <3>8, <3>9, <3>10, <3>11, <3>12, <3>13
      DEF CallStep
  <2>4. ASSUME NEW r \in Calls, RefuseDelCred(r)
        PROVE  TypeInv'
    <3>1. results' \in [Calls -> Seq(Codes)]
      BY <2>4, ToldIsTyped DEF RefuseDelCred
    <3> QED
      BY <2>4, <3>1 DEF RefuseDelCred
  <2>5. ASSUME NEW r \in Calls, OnFinish(r)
        PROVE  TypeInv'
    <3> USE DEF CoAuth!Tell, Concludes, FinishTo
    <3>1. ASSUME NEW what \in CoAuth!Kinds, FinishFailed(r, what)
          PROVE  TypeInv'
      <4>1. results' \in [Calls -> Seq(Codes)]
        BY <3>1, ToldIsTyped DEF FinishFailed
      <4> QED
        BY <3>1, <4>1 DEF FinishFailed
    <3>2. CASE FinishAdd(r)
      BY <3>2 DEF FinishAdd
    <3>3. CASE FinishModify(r)
      BY <3>3 DEF FinishModify
    <3> QED
      BY <2>5, <3>1, <3>2, <3>3 DEF OnFinish
  <2>6. ASSUME NEW r \in Calls, FinishStep(r)
        PROVE  TypeInv'
    <3> USE DEF Concludes, FinishTo
    <3>1. CASE MatchSchedule(r)
      BY <3>1 DEF MatchSchedule
    <3>2. CASE AddCredential(r) \/ UpdateCredential(r)
      BY <3>2 DEF AddCredential, UpdateCredential
    <3>3. CASE DeleteReplaced(r)
      <4>1. results' \in [Calls -> Seq(Codes)]
        BY <3>3, ToldIsTyped DEF DeleteReplaced
      <4> QED
        BY <3>3, <4>1 DEF DeleteReplaced
    <3>4. CASE FinishEnds(r)
      <4>1. results' \in [Calls -> Seq(Codes)]
        BY <3>4, ToldIsTyped DEF FinishEnds
      <4> QED
        BY <3>4, <4>1 DEF FinishEnds
    <3> QED
      BY <2>6, <3>1, <3>2, <3>3, <3>4 DEF FinishStep
  <2>7. ASSUME NEW r \in Calls, ScheduleReleased(r)
        PROVE  TypeInv'
    BY <2>7 DEF ScheduleReleased, CoAuth!Release
  <2>8. CASE UNCHANGED vars
    BY <2>8 DEF vars
  <2> HIDE DEF TypeInv, LeftInv, TypeOK, CoAuth!TypeOK
  <2> QED
    BY <2>1, <2>2, <2>3, <2>4, <2>5, <2>6, <2>7, <2>8 DEF Next
<1> QED
  BY <1>1, <1>2, PTL DEF Spec

\* All variables keep their types. (useridm_controller.cpp,
\* useridm_coauth_handler.cpp, useridm_module.cpp)
THEOREM TypeCorrect == Spec => []TypeOK
<1>1. TypeInv => TypeOK
  BY DEF TypeInv
<1> QED
  BY <1>1, TypeInvariant, PTL

(***************************************************************************)
(* The first answer of addCredential                                       *)
(***************************************************************************)

\* An id is active only after it was inserted, a schedule begins after that, and
\* until then the client was told nothing.
BegunInOrder(r) ==
  /\ scheduleId = r => pc[r] \in {"begin", "returned"}
  /\ status[r] # "idle" => pc[r] = "returned" /\ kind[r] \in Enrolments
  /\ status[r] = "idle" => told[r] = {} /\ finish[r] = "idle" /\ r \notin enrolled
  /\ pc[r] \in {"idle", "check", "busy", "init", "begin"} => results[r] = <<>>

\* Of an addCredential: once the client was told, its id is not active, so no
\* later OnFinish gets as far as the device; a credential the client was not
\* told of has its answer on the way.
AnswerOnItsWay(r) ==
  kind[r] = "add" =>
    /\ results[r] # <<>> => scheduleId # r
    /\ finish[r] \in {"idle", "enrol", "end"}
    /\ finish[r] = "enrol" => results[r] = <<>> /\ r \notin enrolled
    /\ finish[r] = "enrol" \/ finish[r] = "end" \/ r \in enrolled => "verdict" \in told[r]
    /\ finish[r] = "end" /\ results[r] = <<>> => (verdict[r] = "SUCCESS" <=> r \in enrolled)
    /\ r \in enrolled /\ results[r] = <<>> => finish[r] = "end"
    /\ results[r] # <<>> => (Head(results[r]) = "SUCCESS" <=> r \in enrolled)

AnswerInv == \A r \in Calls : BegunInOrder(r) /\ AnswerOnItsWay(r)

\* What telling r a result does to the first answer of every call.
LEMMA ToldFirst ==
  ASSUME NEW r \in Calls, NEW code \in Codes, results \in [Calls -> Seq(Codes)],
         OnResult(r, code)
  PROVE  /\ results'[r] # <<>>
         /\ Head(results'[r]) = IF results[r] = <<>> THEN code ELSE Head(results[r])
         /\ \A q \in Calls : q # r => results'[q] = results[q]
<1>1. results'[r] = Append(results[r], code) /\ results[r] \in Seq(Codes)
  BY DEF OnResult
<1>2. ASSUME NEW s \in Seq(Codes)
      PROVE  /\ Append(s, code) # <<>>
             /\ Head(Append(s, code)) = IF s = <<>> THEN code ELSE Head(s)
  BY HeadTailAppend, AppendProperties, Zenon
<1>3. \A q \in Calls : q # r => results'[q] = results[q]
  BY DEF OnResult
<1> QED
  BY <1>1, <1>2, <1>3

\* AnswerInv is inductive, given the types.
LEMMA AnswerInvariant == Spec => []AnswerInv
<1> USE UserIdmAssumption DEF Enrolments
<1>1. Init => AnswerInv
  BY DEF Init, CoAuth!Init, AnswerInv, BegunInOrder, AnswerOnItsWay
<1>2. TypeInv /\ AnswerInv /\ [Next]_vars => AnswerInv'
  <2> SUFFICES ASSUME TypeOK, AnswerInv, [Next]_vars, NEW q \in Calls
               PROVE  BegunInOrder(q)' /\ AnswerOnItsWay(q)'
    BY DEF TypeInv, AnswerInv
  <2>0. /\ BegunInOrder(q) /\ AnswerOnItsWay(q)
        /\ pc \in [Calls -> Labels] /\ kind \in [Calls -> Kinds]
        /\ status \in [Calls -> {"idle", "open", "released"}]
        /\ told \in [Calls -> SUBSET {"verdict", "failure", "timeout"}]
        /\ finish \in [Calls -> FinishLabels] /\ verdict \in [Calls -> Codes]
        /\ results \in [Calls -> Seq(Codes)] /\ None \notin Calls
        /\ {"SUCCESS", "FAIL", "BUSY", "ERROR"} = Codes
    BY DEF AnswerInv, TypeOK, CoAuth!TypeOK, CoAuth!Kinds, Codes
  <2> USE <2>0 DEF BegunInOrder, AnswerOnItsWay, data, callVars, scheduleVars, finishVars, At, Goto
  <2>1. ASSUME NEW r \in Calls, NEW k \in Kinds, Call(r, k)
        PROVE  BegunInOrder(q)' /\ AnswerOnItsWay(q)'
    BY <2>1 DEF Call
  <2>2. ASSUME NEW r \in Calls, NEW k \in Kinds, Refuse(r, k)
        PROVE  BegunInOrder(q)' /\ AnswerOnItsWay(q)'
    BY <2>2, ToldFirst DEF Refuse
  <2>3. ASSUME NEW r \in Calls, CallStep(r)
        PROVE  BegunInOrder(q)' /\ AnswerOnItsWay(q)'
    <3>1. CASE LookUp(r)
      BY <3>1 DEF LookUp
    <3>2. CASE CancelOld(r) \/ CleanData(r) \/ InsertChallenge(r)
      BY <3>2 DEF CancelOld, CleanData, InsertChallenge
    <3>3. CASE CheckChallenge(r)
      BY <3>3, ToldFirst DEF CheckChallenge
    <3>4. CASE CheckScheduleIdIsActive(r)
      BY <3>4, ToldFirst DEF CheckScheduleIdIsActive
    <3>5. CASE InitScheduleFails(r)
      BY <3>5, ToldFirst DEF InitScheduleFails
    <3>6. CASE InsertScheduleId(r)
      BY <3>6 DEF InsertScheduleId
    <3>7. CASE BeginSchedule(r)
      BY <3>7 DEF BeginSchedule, CoAuth!Open
    <3>8. CASE MatchChallenge(r)
      BY <3>8 DEF MatchChallenge
    <3>9. CASE CancelEnrollment(r)
      BY <3>9 DEF CancelEnrollment
    <3>10. CASE CancelSchedule(r)
      BY <3>10 DEF CancelSchedule
    <3>11. CASE DeleteSessionId(r)
      BY <3>11 DEF DeleteSessionId
    <3>12. CASE DeviceRefuses(r)
      BY <3>12, ToldFirst DEF DeviceRefuses
    <3>13. CASE DeleteUser(r)
      <4>1. /\ pc' \in {[pc EXCEPT ![r] = "returned"], [pc EXCEPT ![r] = "prop"]}
            /\ results' = results \/ OnResult(r, "FAIL")
        BY <3>13 DEF DeleteUser
      <4> QED
        BY <3>13, <4>1, ToldFirst DEF DeleteUser
    <3>14. CASE DeleteCredential(r)
      BY <3>14 DEF DeleteCredential, DelFaceCredentialCtrl
    <3>15. CASE SetExecutorProp(r)
      BY <3>15, ToldFirst DEF SetExecutorProp
    <3> QED
      BY <2>3, <3>1, <3>2, <3>3, <3>4, <3>5, <3>6, <3>7, <3>8, <3>9, <3>10, <3>11, <3>12, <3>13,
         <3>14, <3>15
      DEF CallStep
  <2>4. ASSUME NEW r \in Calls, RefuseDelCred(r)
        PROVE  BegunInOrder(q)' /\ AnswerOnItsWay(q)'
    BY <2>4, ToldFirst DEF RefuseDelCred
  <2>5. ASSUME NEW r \in Calls, OnFinish(r)
        PROVE  BegunInOrder(q)' /\ AnswerOnItsWay(q)'
    <3>1. ASSUME NEW what \in CoAuth!Kinds, FinishFailed(r, what)
          PROVE  BegunInOrder(q)' /\ AnswerOnItsWay(q)'
      BY <3>1, ToldFirst DEF FinishFailed, CoAuth!Tell, CoAuth!Kinds
    <3>2. CASE FinishAdd(r)
      BY <3>2 DEF FinishAdd, CoAuth!Tell, Concludes, FinishTo
    <3>3. CASE FinishModify(r)
      BY <3>3 DEF FinishModify, CoAuth!Tell, Concludes, FinishTo
    <3> QED
      BY <2>5, <3>1, <3>2, <3>3 DEF OnFinish
  <2>6. ASSUME NEW r \in Calls, FinishStep(r)
        PROVE  BegunInOrder(q)' /\ AnswerOnItsWay(q)'
    <3> USE DEF Concludes, FinishTo
    <3>0. finish[r] # "idle" => status[r] # "idle"
      BY DEF AnswerInv
    <3>1. CASE MatchSchedule(r)
      BY <3>0, <3>1 DEF MatchSchedule
    <3>2. CASE AddCredential(r)
      BY <3>0, <3>2 DEF AddCredential
    <3>3. CASE UpdateCredential(r)
      BY <3>0, <3>3 DEF UpdateCredential
    <3>4. CASE DeleteReplaced(r)
      BY <3>0, <3>4, ToldFirst DEF DeleteReplaced
    <3>5. CASE FinishEnds(r)
      BY <3>0, <3>5, ToldFirst DEF FinishEnds
    <3> QED
      BY <2>6, <3>1, <3>2, <3>3, <3>4, <3>5 DEF FinishStep
  <2>7. ASSUME NEW r \in Calls, ScheduleReleased(r)
        PROVE  BegunInOrder(q)' /\ AnswerOnItsWay(q)'
    BY <2>7 DEF ScheduleReleased, CoAuth!Release
  <2>8. CASE UNCHANGED vars
    BY <2>8 DEF vars
  <2> QED
    BY <2>1, <2>2, <2>3, <2>4, <2>5, <2>6, <2>7, <2>8 DEF Next
<1> QED
  BY <1>1, <1>2, TypeInvariant, PTL DEF Spec

\* The first answer to an addCredential is SUCCESS if and only if the device has
\* the credential, then and ever after. (useridm_coauth_handler.cpp)
THEOREM FirstAnswer == Spec => []FirstAnswerIsTrue
<1>1. AnswerInv => FirstAnswerIsTrue
  BY DEF AnswerInv, AnswerOnItsWay, FirstAnswerIsTrue
<1> QED
  BY <1>1, AnswerInvariant, PTL

(***************************************************************************)
(* A schedule whose id was forgotten                                       *)
(***************************************************************************)

\* What Forgotten comes to later: OnFinish of r may begin, and may look for a
\* challenge, but it can no longer get past the comparison with the id.
Doomed(r) ==
  /\ kind[r] \in Enrolments /\ pc[r] \in {"begin", "returned"}
  /\ scheduleId # r
  /\ finish[r] \in {"idle", "match", "end"} /\ r \notin enrolled

\* The id of r is inserted once, before r leaves "init", and nothing else makes
\* it the active one.
LEMMA DoomedForEver ==
  ASSUME NEW q \in Calls
  PROVE  TypeOK /\ Doomed(q) /\ [Next]_vars => Doomed(q)'
<1> SUFFICES ASSUME TypeOK, Doomed(q), [Next]_vars
             PROVE  Doomed(q)'
  OBVIOUS
<1>0. /\ pc \in [Calls -> Labels] /\ kind \in [Calls -> Kinds]
      /\ finish \in [Calls -> FinishLabels] /\ verdict \in [Calls -> Codes]
      /\ None \notin Calls
  BY UserIdmAssumption DEF TypeOK
<1> USE <1>0 DEF Doomed, Enrolments, data, callVars, scheduleVars, finishVars, At, Goto
<1>1. ASSUME NEW r \in Calls, NEW k \in Kinds, Call(r, k) \/ Refuse(r, k)
      PROVE  Doomed(q)'
  BY <1>1 DEF Call, Refuse
<1>2. ASSUME NEW r \in Calls, CallStep(r)
      PROVE  Doomed(q)'
  <2>1. CASE LookUp(r)
    BY <2>1 DEF LookUp
  <2>2. CASE CancelOld(r) \/ CleanData(r) \/ InsertChallenge(r)
    BY <2>2 DEF CancelOld, CleanData, InsertChallenge
  <2>3. CASE CheckChallenge(r) \/ CheckScheduleIdIsActive(r)
    BY <2>3 DEF CheckChallenge, CheckScheduleIdIsActive
  <2>4. CASE InitScheduleFails(r) \/ InsertScheduleId(r) \/ BeginSchedule(r)
    BY <2>4 DEF InitScheduleFails, InsertScheduleId, BeginSchedule
  <2>5. CASE MatchChallenge(r) \/ CancelEnrollment(r) \/ CancelSchedule(r) \/ DeleteSessionId(r)
    BY <2>5 DEF MatchChallenge, CancelEnrollment, CancelSchedule, DeleteSessionId
  <2>6. CASE DeviceRefuses(r) \/ DeleteUser(r)
    BY <2>6 DEF DeviceRefuses, DeleteUser
  <2>7. CASE DeleteCredential(r) \/ SetExecutorProp(r)
    BY <2>7 DEF DeleteCredential, DelFaceCredentialCtrl, SetExecutorProp
  <2> QED
    BY <1>2, <2>1, <2>2, <2>3, <2>4, <2>5, <2>6, <2>7 DEF CallStep
<1>3. ASSUME NEW r \in Calls, RefuseDelCred(r) \/ ScheduleReleased(r)
      PROVE  Doomed(q)'
  BY <1>3 DEF RefuseDelCred, ScheduleReleased
<1>4. ASSUME NEW r \in Calls, OnFinish(r)
      PROVE  Doomed(q)'
  BY <1>4 DEF OnFinish, FinishFailed, FinishAdd, FinishModify, Concludes, FinishTo
<1>5. ASSUME NEW r \in Calls, FinishStep(r)
      PROVE  Doomed(q)'
  BY <1>5 DEF FinishStep, MatchSchedule, AddCredential, UpdateCredential, DeleteReplaced, FinishEnds,
     Concludes, FinishTo
<1>6. CASE UNCHANGED vars
  BY <1>6 DEF vars
<1> QED
  BY <1>1, <1>2, <1>3, <1>4, <1>5, <1>6 DEF Next

\* A cancel, another session or the end of another schedule that makes
\* UserIDMModule forget a schedule's id before its OnFinish began is final: the
\* device never takes that credential. (useridm_module.cpp,
\* useridm_coauth_handler.cpp)
THEOREM ForgottenIsFinal == Spec => ForgottenNeverEnrols
<1>1. ASSUME NEW r \in Calls
      PROVE  Spec => [](Forgotten(r) => [](r \notin enrolled))
  <2>1. Forgotten(r) => Doomed(r)
    BY DEF Forgotten, Doomed
  <2>2. TypeOK /\ Doomed(r) /\ [Next]_vars => Doomed(r)'
    BY DoomedForEver
  <2>3. Doomed(r) => r \notin enrolled
    BY DEF Doomed
  <2> QED
    BY <2>1, <2>2, <2>3, TypeCorrect, PTL DEF Spec
<1> QED
  BY <1>1 DEF ForgottenNeverEnrols

(***************************************************************************)
(* What the liveness properties rest on: nobody is left behind             *)
(***************************************************************************)

\* The pool has the schedule of r, and its OnFinish is still to come or at work.
InHand(r) == status[r] = "open" /\ (told[r] = {} \/ finish[r] # "idle")

\* A client that waits for its enrolment, and an id that makes others BUSY, have a
\* schedule that is in hand, or is about to begin.
NobodyLeftBehind ==
  \A r \in Calls :
    /\ kind[r] \in Enrolments /\ pc[r] = "returned" /\ results[r] = <<>> => InHand(r)
    /\ scheduleId = r =>
         kind[r] \in Enrolments /\ (pc[r] = "begin" \/ (pc[r] = "returned" /\ InHand(r)))

\* Every end of OnFinish tells the client and forgets the id, and a schedule leaves
\* the pool between two calls of OnFinish only.
LEMMA NobodyIsLeft == TypeOK /\ AnswerInv /\ NobodyLeftBehind /\ [Next]_vars => NobodyLeftBehind'
<1> SUFFICES ASSUME TypeOK, AnswerInv, NobodyLeftBehind, [Next]_vars, NEW q \in Calls
             PROVE  /\ (kind[q] \in Enrolments /\ pc[q] = "returned" /\ results[q] = <<>> => InHand(q))'
                    /\ (scheduleId = q =>
                         kind[q] \in Enrolments /\ (pc[q] = "begin" \/ (pc[q] = "returned" /\ InHand(q))))'
  BY DEF NobodyLeftBehind
<1> DEFINE Waits == kind[q] \in Enrolments /\ pc[q] = "returned" /\ results[q] = <<>> => InHand(q)
           Blocks == scheduleId = q =>
                       kind[q] \in Enrolments /\ (pc[q] = "begin" \/ (pc[q] = "returned" /\ InHand(q)))
<1>1. /\ Waits /\ Blocks /\ BegunInOrder(q)
      /\ pc \in [Calls -> Labels] /\ kind \in [Calls -> Kinds]
      /\ status \in [Calls -> {"idle", "open", "released"}]
      /\ told \in [Calls -> SUBSET {"verdict", "failure", "timeout"}]
      /\ finish \in [Calls -> FinishLabels]
      /\ results \in [Calls -> Seq(Codes)] /\ None \notin Calls
      /\ {"SUCCESS", "FAIL", "BUSY", "ERROR"} = Codes
  BY UserIdmAssumption DEF AnswerInv, NobodyLeftBehind, TypeOK, CoAuth!TypeOK, CoAuth!Kinds, Codes
<1> USE <1>1 DEF InHand, BegunInOrder, Enrolments, data, callVars, scheduleVars, finishVars, At, Goto
<1>2. ASSUME NEW r \in Calls, NEW k \in Kinds, Call(r, k)
      PROVE  Waits' /\ Blocks'
  <2>1. FirstLabel(k) # "returned"
    BY DEF FirstLabel
  <2> QED
    BY <1>2, <2>1 DEF Call
<1>3. ASSUME NEW r \in Calls, NEW k \in Kinds, Refuse(r, k)
      PROVE  Waits' /\ Blocks'
  BY <1>3, ToldFirst DEF Refuse
<1>4. ASSUME NEW r \in Calls, CallStep(r)
      PROVE  Waits' /\ Blocks'
  <2>1. CASE LookUp(r) \/ CancelOld(r) \/ CleanData(r) \/ InsertChallenge(r)
    BY <2>1 DEF LookUp, CancelOld, CleanData, InsertChallenge
  <2>2. CASE CheckChallenge(r)
    BY <2>2, ToldFirst DEF CheckChallenge
  <2>3. CASE CheckScheduleIdIsActive(r)
    BY <2>3, ToldFirst DEF CheckScheduleIdIsActive
  <2>4. CASE InitScheduleFails(r)
    BY <2>4, ToldFirst DEF InitScheduleFails
  <2>5. CASE InsertScheduleId(r)
    BY <2>5 DEF InsertScheduleId
  <2>6. CASE BeginSchedule(r)
    BY <2>6 DEF BeginSchedule, CoAuth!Open
  <2>7. CASE MatchChallenge(r) \/ CancelEnrollment(r) \/ CancelSchedule(r) \/ DeleteSessionId(r)
    BY <2>7 DEF MatchChallenge, CancelEnrollment, CancelSchedule, DeleteSessionId
  <2>8. CASE DeviceRefuses(r)
    BY <2>8, ToldFirst DEF DeviceRefuses
  <2>9. CASE DeleteUser(r)
    <3>1. /\ pc' \in {[pc EXCEPT ![r] = "returned"], [pc EXCEPT ![r] = "prop"]}
          /\ results' = results \/ OnResult(r, "FAIL")
      BY <2>9 DEF DeleteUser
    <3> QED
      BY <2>9, <3>1, ToldFirst DEF DeleteUser
  <2>10. CASE DeleteCredential(r)
    BY <2>10 DEF DeleteCredential, DelFaceCredentialCtrl
  <2>11. CASE SetExecutorProp(r)
    BY <2>11, ToldFirst DEF SetExecutorProp
  <2> QED
    BY <1>4, <2>1, <2>2, <2>3, <2>4, <2>5, <2>6, <2>7, <2>8, <2>9, <2>10, <2>11 DEF CallStep
<1>5. ASSUME NEW r \in Calls, RefuseDelCred(r)
      PROVE  Waits' /\ Blocks'
  BY <1>5, ToldFirst DEF RefuseDelCred
<1>6. ASSUME NEW r \in Calls, OnFinish(r)
      PROVE  Waits' /\ Blocks'
  <2>1. ASSUME NEW what \in CoAuth!Kinds, FinishFailed(r, what)
        PROVE  Waits' /\ Blocks'
    BY <2>1, ToldFirst DEF FinishFailed, CoAuth!Tell, CoAuth!Kinds
  <2>2. CASE FinishAdd(r)
    BY <2>2 DEF FinishAdd, CoAuth!Tell, Concludes, FinishTo
  <2>3. CASE FinishModify(r)
    BY <2>3 DEF FinishModify, CoAuth!Tell, Concludes, FinishTo
  <2> QED
    BY <1>6, <2>1, <2>2, <2>3 DEF OnFinish
<1>7. ASSUME NEW r \in Calls, FinishStep(r)
      PROVE  Waits' /\ Blocks'
  <2> USE DEF Concludes, FinishTo
  <2>1. CASE MatchSchedule(r)
    BY <2>1 DEF MatchSchedule
  <2>2. CASE AddCredential(r) \/ UpdateCredential(r)
    BY <2>2 DEF AddCredential, UpdateCredential
  <2>3. CASE DeleteReplaced(r)
    BY <2>3, ToldFirst DEF DeleteReplaced
  <2>4. CASE FinishEnds(r)
    <3>1. verdict[r] \in Codes
      BY DEF TypeOK
    <3> QED
      BY <2>4, <3>1, ToldFirst DEF FinishEnds
  <2> QED
    BY <1>7, <2>1, <2>2, <2>3, <2>4 DEF FinishStep
<1>8. ASSUME NEW r \in Calls, ScheduleReleased(r)
      PROVE  Waits' /\ Blocks'
  BY <1>8 DEF ScheduleReleased, CoAuth!Release
<1>9. CASE UNCHANGED vars
  BY <1>9 DEF vars
<1> QED
  BY <1>2, <1>3, <1>4, <1>5, <1>6, <1>7, <1>8, <1>9 DEF Next

\* No cancel, new session, deletion or late answer leaves a client without an answer
\* or an id that nobody will forget: the schedule behind either is in the pool with
\* its OnFinish to come. With the fairness of co_auth this is BusyEnds and
\* EnrolmentAnswered. (useridm_coauth_handler.cpp, useridm_controller.cpp)
THEOREM NobodyIsStranded == Spec => []NobodyLeftBehind
<1>1. Init => NobodyLeftBehind
  BY UserIdmAssumption DEF Init, CoAuth!Init, NobodyLeftBehind, Enrolments
<1> QED
  BY <1>1, NobodyIsLeft, TypeCorrect, AnswerInvariant, PTL DEF Spec
=============================================================================
