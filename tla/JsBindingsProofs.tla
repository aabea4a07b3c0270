-------------------------- MODULE JsBindingsProofs --------------------------
(***************************************************************************)
(* Proofs about JsBindings, for every set of calls, whatever functions     *)
(* they are of, and any number of answers and reports of progress.         *)
(***************************************************************************)
EXTENDS JsBindings, TLAPS

(***************************************************************************)
(* What the bindings keep of a call, as a record of its own: first the     *)
(* invariant of such a record.                                             *)
(***************************************************************************)

Fields == {"pc", "method", "form", "refs", "context", "freed", "result", "library", "tips", "answers", "told",
           "tipsHeard"}

FieldsInv(k) == DOMAIN k = Fields

\* Who owns the context, and that it is deleted once.
ContextInv(k) ==
  /\ k.context \in {"none", "holder", "callback", "work", "deleted"}
  /\ k.pc = "idle" => k = Fresh
  /\ k.pc = "queued" => k.context = "holder" /\ k.library = "none"
  /\ k.library # "none" => k.context \in {"callback", "work", "deleted"}
  /\ k.freed = IF k.context = "deleted" THEN 1 ELSE 0

\* openSession has no callback object, and so no answers.
SessionInv(k) ==
  k.method = "openSession" =>
    /\ k.pc \in {"queued", "executing", "completing", "done"}
    /\ k.library = "none" /\ k.answers = <<>>
    /\ k.context = IF k.pc = "done" THEN "deleted" ELSE "holder"

AllCodes == Codes \cup {"SUCCESS", "TYPE_NOT_SUPPORT", "INVALID_PARAMETERS"}

\* The first answer is the one that takes the context from its callback object.
AnswerInv(k) ==
  /\ k.answers \in Seq(AllCodes)
  /\ k.context \in {"none", "holder", "callback"} => k.answers = <<>>
  /\ k.context = "work" => k.answers # <<>> /\ k.result = k.answers[1]
  /\ k.method = "getAuthInfo" /\ k.context = "work" => k.result = "SUCCESS"

\* What JavaScript is to hear.
FirstAnswer(k) == IF k.method = "execute" THEN ExecuteResult(k.answers[1]) ELSE k.answers[1]

ToldInv(k) ==
  \/ k.told = <<>>
  \/ /\ k.context = "deleted"
     /\ k.method # "openSession" => k.answers # <<>>
     /\ \E by, code : k.told = <<[by |-> by, code |-> code]>> /\ (k.answers # <<>> => code = FirstAnswer(k))

\* The calls that somebody waits for.
Heard == {"callbacks", "callback", "promise"}

\* The references live as long as the context, and the context until somebody is told or nobody will be.
RefsInv(k) ==
  /\ k.form = "callbacks" => k.method \in ObjectMethods \cup AuthMethods
  /\ k.form \in {"callback", "promise"} => k.method \notin ObjectMethods \cup AuthMethods
  /\ k.refs = IF k.context = "deleted" THEN {} ELSE RefsOf(k.form)
  /\ k.form \in Heard /\ k.context = "deleted" => k.told # <<>> \/ (k.library = "dropped" /\ k.answers = <<>>)

\* A callback object that its destructor deletes the context of lives on in the caller's frame only.
DropInv(k) ==
  k.library = "dropped" /\ k.method \in AuthCallbackMethods /\ k.context = "callback" =>
    k.pc \in {"executing", "calling"}

CallInv(k) ==
  FieldsInv(k) /\ ContextInv(k) /\ SessionInv(k) /\ AnswerInv(k) /\ ToldInv(k) /\ RefsInv(k) /\ DropInv(k)

LEMMA Overlaid ==
  ASSUME NEW k, FieldsInv(k), NEW change, DOMAIN change \subseteq Fields
  PROVE  /\ FieldsInv(change ++ k)
         /\ \A f \in Fields : (change ++ k)[f] = IF f \in DOMAIN change THEN change[f] ELSE k[f]
BY DEF FieldsInv, ++

LEMMA FreshCall == CallInv(Fresh)
BY DEF CallInv, Fresh, FieldsInv, Fields, ContextInv, SessionInv, AnswerInv, ToldInv, RefsInv, RefsOf, Heard, DropInv

\* A function refuses its arguments, or calls the library without a callback.
LEMMA StartWithoutContext ==
  ASSUME NEW k, CallInv(k), k.pc = "idle", NEW m, m # "openSession", NEW pc \in {"done", "calling"}
  PROVE  CallInv([pc |-> pc, method |-> m] ++ k)
<1> DEFINE l == [pc |-> pc, method |-> m] ++ k
<1>1. FieldsInv(l) /\ \A f \in Fields : l[f] = IF f \in {"pc", "method"} THEN [pc |-> pc, method |-> m][f] ELSE k[f]
  BY Overlaid DEF CallInv, Fields
<1>2. k = Fresh
  BY DEF CallInv, ContextInv
<1>3. /\ l.pc = pc /\ l.method = m /\ l.form = "none" /\ l.context = "none" /\ l.freed = 0
      /\ l.library = "none" /\ l.answers = <<>> /\ l.told = <<>> /\ l.refs = {}
  BY <1>1, <1>2 DEF Fresh, Fields
<1> HIDE DEF l
<1>4. CallInv(l)
  BY <1>1, <1>3 DEF CallInv, ContextInv, SessionInv, AnswerInv, ToldInv, RefsInv, RefsOf, DropInv
<1> QED
  BY <1>4 DEF l

\* A function makes the context of a call.
LEMMA StartWithContext ==
  ASSUME NEW k, CallInv(k), k.pc = "idle", NEW m, NEW form,
         form = "callbacks" => m \in ObjectMethods \cup AuthMethods,
         form \in {"callback", "promise"} => m \notin ObjectMethods \cup AuthMethods
  PROVE  /\ CallInv([pc |-> "queued", method |-> m, form |-> form, refs |-> RefsOf(form),
                     context |-> "holder"] ++ k)
         /\ m # "openSession" =>
              CallInv([pc |-> "calling", method |-> m, form |-> form, refs |-> RefsOf(form),
                       context |-> "callback", library |-> "holds"] ++ k)
<1>1. k = Fresh /\ FieldsInv(k)
  BY DEF CallInv, ContextInv
<1>2. CallInv([pc |-> "queued", method |-> m, form |-> form, refs |-> RefsOf(form), context |-> "holder"] ++ k)
  <2> DEFINE change == [pc |-> "queued", method |-> m, form |-> form, refs |-> RefsOf(form), context |-> "holder"]
             l == change ++ k
  <2>1. FieldsInv(l) /\ \A f \in Fields : l[f] = IF f \in DOMAIN change THEN change[f] ELSE k[f]
    BY <1>1, Overlaid DEF Fields
  <2>2. /\ l.pc = "queued" /\ l.method = m /\ l.form = form /\ l.refs = RefsOf(form) /\ l.context = "holder"
        /\ l.freed = 0 /\ l.library = "none" /\ l.answers = <<>> /\ l.told = <<>>
    BY <1>1, <2>1 DEF Fresh, Fields
  <2> HIDE DEF l
  <2>3. CallInv(l)
    BY <2>1, <2>2 DEF CallInv, ContextInv, SessionInv, AnswerInv, ToldInv, RefsInv, DropInv
  <2> QED
    BY <2>3 DEF l
<1>3. m # "openSession" =>
        CallInv([pc |-> "calling", method |-> m, form |-> form, refs |-> RefsOf(form),
                 context |-> "callback", library |-> "holds"] ++ k)
  <2> DEFINE change == [pc |-> "calling", method |-> m, form |-> form, refs |-> RefsOf(form),
                        context |-> "callback", library |-> "holds"]
             l == change ++ k
  <2>1. FieldsInv(l) /\ \A f \in Fields : l[f] = IF f \in DOMAIN change THEN change[f] ELSE k[f]
    BY <1>1, Overlaid DEF Fields
  <2>2. /\ l.pc = "calling" /\ l.method = m /\ l.form = form /\ l.refs = RefsOf(form) /\ l.context = "callback"
        /\ l.freed = 0 /\ l.library = "holds" /\ l.answers = <<>> /\ l.told = <<>>
    BY <1>1, <2>1 DEF Fresh, Fields
  <2> HIDE DEF l
  <2>3. m # "openSession" => CallInv(l)
    BY <2>1, <2>2 DEF CallInv, ContextInv, SessionInv, AnswerInv, ToldInv, RefsInv, DropInv
  <2> QED
    BY <2>3 DEF l
<1> QED
  BY <1>2, <1>3

\* execute answers bad parameters itself.
LEMMA StartRefused ==
  ASSUME NEW k, CallInv(k), k.pc = "idle", NEW form \in {"callback", "promise"}, NEW ret \in AllCodes
  PROVE  CallInv([pc |-> "done", method |-> "execute", form |-> form, refs |-> RefsOf(form), context |-> "work",
                  result |-> ret, answers |-> <<ret>>] ++ k)
<1> DEFINE change == [pc |-> "done", method |-> "execute", form |-> form, refs |-> RefsOf(form), context |-> "work",
                      result |-> ret, answers |-> <<ret>>]
           l == change ++ k
<1>1. k = Fresh /\ FieldsInv(k)
  BY DEF CallInv, ContextInv
<1>2. FieldsInv(l) /\ \A f \in Fields : l[f] = IF f \in DOMAIN change THEN change[f] ELSE k[f]
  BY <1>1, Overlaid DEF Fields
<1>3. /\ l.pc = "done" /\ l.method = "execute" /\ l.form = form /\ l.context = "work" /\ l.result = ret
      /\ l.freed = 0 /\ l.library = "none" /\ l.answers = <<ret>> /\ l.told = <<>> /\ l.refs = RefsOf(form)
  BY <1>1, <1>2 DEF Fresh, Fields
<1> HIDE DEF l
<1>4. CallInv(l)
  BY <1>2, <1>3 DEF CallInv, ContextInv, SessionInv, AnswerInv, ToldInv, RefsInv, DropInv, ObjectMethods, AuthMethods
<1> QED
  BY <1>4 DEF l

\* A worker calls the library, for openSession without a callback object.
LEMMA ExecuteKeeps ==
  ASSUME NEW k, CallInv(k), k.pc = "queued"
  PROVE  CallInv((IF k.method = "openSession" THEN [pc |-> "executing"]
                  ELSE [pc |-> "executing", context |-> "callback", library |-> "holds"]) ++ k)
<1>1. FieldsInv(k)
  BY DEF CallInv
<1>2. CASE k.method = "openSession"
  <2> DEFINE l == [pc |-> "executing"] ++ k
  <2>1. FieldsInv(l) /\ l.pc = "executing" /\ \A f \in Fields \ {"pc"} : l[f] = k[f]
    BY <1>1, Overlaid DEF Fields
  <2> HIDE DEF l
  <2>2. CallInv(l)
    BY <1>2, <2>1 DEF CallInv, ContextInv, SessionInv, AnswerInv, ToldInv, RefsInv, DropInv, Fields, FirstAnswer
  <2> QED
    BY <1>2, <2>2 DEF l
<1>3. CASE k.method # "openSession"
  <2> DEFINE change == [pc |-> "executing", context |-> "callback", library |-> "holds"]
             l == change ++ k
  <2>1. FieldsInv(l) /\ \A f \in Fields : l[f] = IF f \in DOMAIN change THEN change[f] ELSE k[f]
    BY <1>1, Overlaid DEF Fields
  <2>2. /\ l.pc = "executing" /\ l.context = "callback" /\ l.library = "holds"
        /\ l.method = k.method /\ l.form = k.form /\ l.refs = k.refs /\ l.freed = k.freed
        /\ l.result = k.result /\ l.answers = k.answers /\ l.told = k.told
    BY <2>1 DEF Fields
  <2> HIDE DEF l
  <2>3. CallInv(l)
    BY <1>3, <2>1, <2>2 DEF CallInv, ContextInv, SessionInv, AnswerInv, ToldInv, RefsInv, DropInv
  <2> QED
    BY <1>3, <2>3 DEF l
<1> QED
  BY <1>2, <1>3

\* Record l is record k but for some of its fields.
SameBut(k, l, fields) == FieldsInv(l) /\ \A f \in Fields \ fields : l[f] = k[f]

\* The call goes on to its end, or something that the invariant does not speak of changes.
LEMMA MovingOn ==
  ASSUME NEW k, CallInv(k), NEW l, SameBut(k, l, {"pc", "tips", "tipsHeard"}), l.pc = k.pc \/ DropInv(l),
         \/ l.pc = k.pc /\ k.pc # "idle"
         \/ k.pc = "executing" /\ l.pc = "completing"
         \/ k.method # "openSession" /\ l.pc = "done"
  PROVE  CallInv(l)
<1>1. /\ l.method = k.method /\ l.form = k.form /\ l.refs = k.refs /\ l.context = k.context
      /\ l.library = k.library /\ l.freed = k.freed /\ l.result = k.result /\ l.answers = k.answers
      /\ l.told = k.told
  BY DEF SameBut, Fields
<1>2. FieldsInv(l) /\ FirstAnswer(l) = FirstAnswer(k)
  BY <1>1 DEF SameBut, FirstAnswer
<1>3. ContextInv(l) /\ SessionInv(l) /\ AnswerInv(l) /\ RefsInv(l)
  BY <1>1 DEF CallInv, ContextInv, SessionInv, AnswerInv, RefsInv
<1>4. ToldInv(l)
  BY <1>1, <1>2 DEF CallInv, ToldInv
<1>5. DropInv(l)
  BY <1>1 DEF CallInv, DropInv
<1> QED
  BY <1>2, <1>3, <1>4, <1>5 DEF CallInv

\* The library drops the callback object, and a context goes with it or stays.
LEMMA Dropping ==
  ASSUME NEW k, CallInv(k), k.library # "none", NEW l,
         SameBut(k, l, {"pc", "library", "context", "refs", "freed"}), l.library = "dropped",
         l.pc = k.pc \/ l.pc \in {"completing", "done"}, DropInv(l),
         \/ l.context = k.context /\ l.refs = k.refs /\ l.freed = k.freed
         \/ k.context = "callback" /\ l.context = "deleted" /\ l.refs = {} /\ l.freed = k.freed + 1
  PROVE  CallInv(l)
<1>1. /\ l.method = k.method /\ l.form = k.form /\ l.result = k.result /\ l.answers = k.answers
      /\ l.told = k.told
  BY DEF SameBut, Fields
<1>2. FieldsInv(l) /\ FirstAnswer(l) = FirstAnswer(k)
  BY <1>1 DEF SameBut, FirstAnswer
<1>3. k.pc \notin {"idle", "queued"} /\ k.method # "openSession" /\ k.context \in {"callback", "work", "deleted"}
  BY DEF CallInv, ContextInv, SessionInv, Fresh
<1>4. ContextInv(l) /\ SessionInv(l) /\ AnswerInv(l)
  BY <1>1, <1>3 DEF CallInv, ContextInv, SessionInv, AnswerInv
<1>5. ToldInv(l)
  BY <1>1, <1>2, <1>3 DEF CallInv, ToldInv
<1>6. RefsInv(l)
  BY <1>1, <1>3 DEF CallInv, RefsInv, AnswerInv
<1> QED
  BY <1>2, <1>4, <1>5, <1>6 DEF CallInv

LEMMA FirstOfAppended ==
  ASSUME NEW S, NEW s \in Seq(S), NEW x \in S
  PROVE  /\ Append(s, x) \in Seq(S) /\ Append(s, x) # <<>>
         /\ Append(s, x)[1] = IF s = <<>> THEN x ELSE s[1]
<1>1. /\ Append(s, x) \in Seq(S) /\ Len(Append(s, x)) = Len(s) + 1
      /\ Append(s, x)[Len(s) + 1] = x /\ \A i \in 1..Len(s) : Append(s, x)[i] = s[i]
  OBVIOUS
<1>2. s = <<>> \/ 1 \in 1..Len(s)
  OBVIOUS
<1>3. Append(s, x) # <<>>
  BY <1>1
<1>4. CASE s = <<>>
  BY <1>1, <1>3, <1>4
<1>5. CASE 1 \in 1..Len(s)
  BY <1>1, <1>3, <1>5
<1> QED
  BY <1>2, <1>4, <1>5

\* The library answers: the first answer takes the context, or deletes one that has no env.
LEMMA Answering ==
  ASSUME NEW k, CallInv(k), k.library = "holds", NEW code \in AllCodes, NEW l,
         SameBut(k, l, {"context", "result", "answers", "freed"}), l.answers = Append(k.answers, code),
         \/ k.context # "callback" /\ l.context = k.context /\ l.result = k.result /\ l.freed = k.freed
         \/ /\ k.context = "callback" /\ l.context = "work" /\ l.result = code /\ l.freed = k.freed
            /\ k.method = "getAuthInfo" => code = "SUCCESS"
         \/ k.context = "callback" /\ l.context = "deleted" /\ l.freed = 1 /\ k.form = "noEnv"
  PROVE  CallInv(l)
<1>1. /\ l.pc = k.pc /\ l.method = k.method /\ l.form = k.form /\ l.refs = k.refs /\ l.library = k.library
      /\ l.told = k.told
  BY DEF SameBut, Fields
<1>2. k.pc \notin {"idle", "queued"} /\ k.method # "openSession" /\ k.context \in {"callback", "work", "deleted"}
  BY DEF CallInv, ContextInv, SessionInv, Fresh
<1>3. /\ k.answers \in Seq(AllCodes) /\ l.answers \in Seq(AllCodes) /\ l.answers # <<>>
      /\ l.answers[1] = IF k.answers = <<>> THEN code ELSE k.answers[1]
  <2>1. k.answers \in Seq(AllCodes)
    BY DEF CallInv, AnswerInv
  <2> QED
    BY <2>1, FirstOfAppended
<1>4. k.context = "callback" => k.answers = <<>> /\ k.told = <<>>
  BY DEF CallInv, AnswerInv, ToldInv
<1>5. FieldsInv(l) /\ ContextInv(l) /\ SessionInv(l)
  BY <1>1, <1>2 DEF CallInv, SameBut, ContextInv, SessionInv
<1>6. AnswerInv(l)
  BY <1>1, <1>2, <1>3, <1>4 DEF CallInv, AnswerInv
<1>7. RefsInv(l) /\ DropInv(l)
  BY <1>1, <1>2, <1>3, <1>4 DEF CallInv, RefsInv, RefsOf, Heard, DropInv
<1>8. ToldInv(l)
  <2>1. CASE k.told = <<>>
    BY <1>1, <2>1 DEF ToldInv
  <2>2. CASE k.told # <<>>
    <3>1. k.context = "deleted" /\ k.answers # <<>>
      BY <1>2, <2>2 DEF CallInv, ToldInv
    <3>2. l.context = "deleted" /\ FirstAnswer(l) = FirstAnswer(k)
      BY <1>1, <1>3, <3>1 DEF FirstAnswer
    <3>3. PICK by, c : k.told = <<[by |-> by, code |-> c]>> /\ (k.answers # <<>> => c = FirstAnswer(k))
      BY <2>2 DEF CallInv, ToldInv
    <3> QED
      BY <1>1, <1>3, <3>1, <3>2, <3>3 DEF ToldInv
  <2> QED
    BY <2>1, <2>2
<1> QED
  BY <1>5, <1>6, <1>7, <1>8 DEF CallInv

\* A uv work tells JavaScript the first answer, or nobody, and deletes the context.
LEMMA Telling ==
  ASSUME NEW k, CallInv(k), k.context = "work", NEW says, NEW l,
         SameBut(k, l, {"told", "refs", "context", "freed"}),
         l.told = k.told \o says, l.refs = {}, l.context = "deleted", l.freed = k.freed + 1,
         \/ says = <<>> /\ k.form \notin Heard
         \/ \E by : says = <<[by |-> by, code |-> FirstAnswer(k)]>>
  PROVE  CallInv(l)
<1>1. /\ l.pc = k.pc /\ l.method = k.method /\ l.form = k.form /\ l.library = k.library
      /\ l.result = k.result /\ l.answers = k.answers
  BY DEF SameBut, Fields
<1>2. k.pc \notin {"idle", "queued"} /\ k.method # "openSession" /\ k.answers # <<>> /\ k.told = <<>>
  BY DEF CallInv, ContextInv, SessionInv, AnswerInv, ToldInv, Fresh
<1>3. l.told = says
  <2>1. <<>> \o <<>> = <<>> /\ \A x : <<>> \o <<x>> = <<x>>
    OBVIOUS
  <2> QED
    BY <1>2, <2>1
<1>4. FieldsInv(l) /\ ContextInv(l) /\ SessionInv(l) /\ AnswerInv(l)
  BY <1>1, <1>2 DEF CallInv, SameBut, ContextInv, SessionInv, AnswerInv
<1>5. FirstAnswer(l) = FirstAnswer(k)
  BY <1>1 DEF FirstAnswer
<1>6. ToldInv(l)
  BY <1>1, <1>2, <1>3, <1>5 DEF ToldInv
<1>7. RefsInv(l) /\ DropInv(l)
  <2>1. \A x : <<x>> # <<>>
    OBVIOUS
  <2>2. l.form \in Heard => l.told # <<>>
    BY <1>1, <1>3, <2>1
  <2> QED
    BY <1>1, <2>2 DEF CallInv, RefsInv, DropInv
<1> QED
  BY <1>4, <1>6, <1>7 DEF CallInv

\* openSession's Complete tells what its Execute was given.
LEMMA TellingSession ==
  ASSUME NEW k, CallInv(k), k.method = "openSession", k.pc = "completing", NEW l, NEW code,
         SameBut(k, l, {"pc", "told", "refs", "context", "freed"}), l.pc = "done",
         l.told = <<[by |-> k.form, code |-> code]>>, l.refs = {}, l.context = "deleted", l.freed = 1
  PROVE  CallInv(l)
<1>1. /\ l.method = k.method /\ l.form = k.form /\ l.library = k.library
      /\ l.result = k.result /\ l.answers = k.answers /\ FieldsInv(l)
  BY DEF SameBut, Fields
<1>2. k.library = "none" /\ k.answers = <<>> /\ k.form # "callbacks"
  BY DEF CallInv, SessionInv, RefsInv, ObjectMethods, AuthMethods
<1>3. ContextInv(l) /\ SessionInv(l) /\ AnswerInv(l) /\ RefsInv(l) /\ DropInv(l)
  <2>1. l.told # <<>>
    OBVIOUS
  <2> QED
    BY <1>1, <1>2, <2>1 DEF CallInv, ContextInv, SessionInv, AnswerInv, RefsInv, DropInv
<1>4. ToldInv(l)
  BY <1>1, <1>2 DEF ToldInv
<1> QED
  BY <1>1, <1>3, <1>4 DEF CallInv

(***************************************************************************)
(* The works in the queue, and the steps.                                  *)
(***************************************************************************)

\* A result's work has the context of its call and is its call's only one; a tip
\* was queued before any answer.
WorksInv ==
  \A w \in works :
    /\ w.call \in Calls /\ w.kind \in {"result", "tip"}
    /\ w.kind = "result" => call[w.call].context = "work"
    /\ w.kind = "tip" => w.answers = 0
    /\ \A v \in works : w.kind = "result" /\ v.kind = "result" /\ w.call = v.call => w = v

\* A context that a work is to have has it.
QueuedInv ==
  \A c \in Calls : call[c].context = "work" => \E w \in works : w.call = c /\ w.kind = "result"

CallsInv == call = [c \in Calls |-> call[c]] /\ \A c \in Calls : CallInv(call[c])

IInv == CallsInv /\ WorksInv /\ QueuedInv

\* What Become does to one call and to the others.
LEMMA Becoming ==
  ASSUME IInv, NEW c \in Calls, NEW change, DOMAIN change \subseteq Fields, Become(c, change)
  PROVE  /\ call'[c] = change ++ call[c]
         /\ call' = [d \in Calls |-> call'[d]]
         /\ \A d \in Calls : d # c => call'[d] = call[d]
         /\ FieldsInv(call'[c])
         /\ \A f \in Fields : call'[c][f] = IF f \in DOMAIN change THEN change[f] ELSE call[c][f]
<1>1. /\ call'[c] = change ++ call[c]
      /\ call' = [d \in Calls |-> call'[d]]
      /\ \A d \in Calls : d # c => call'[d] = call[d]
  BY DEF Become, IInv, CallsInv
<1>2. FieldsInv(call[c])
  BY DEF IInv, CallsInv, CallInv
<1> QED
  BY <1>1, <1>2, Overlaid

\* A step of one call that queues nothing, and takes a work from the queue only with the context.
LEMMA CallStep ==
  ASSUME IInv, NEW c \in Calls, NEW change, DOMAIN change \subseteq Fields, Become(c, change),
         CallInv(call'[c]), works' \subseteq works,
         \A w \in works \ works' : w.call = c /\ (w.kind = "tip" \/ call'[c].context # "work"),
         call'[c].context = "work" => call[c].context = "work",
         \/ call[c].context # "work" \/ call'[c].context = "work"
         \/ \A w \in works' : w.call = c => w.kind # "result"
  PROVE  IInv'
<1>1. /\ call' = [d \in Calls |-> call'[d]]
      /\ \A d \in Calls : d # c => call'[d] = call[d]
  BY Becoming
<1>2. CallsInv'
  BY <1>1 DEF IInv, CallsInv
<1>3. WorksInv'
  BY <1>1 DEF IInv, WorksInv
<1>4. QueuedInv'
  <2> SUFFICES ASSUME NEW d \in Calls, call'[d].context = "work"
               PROVE  \E w \in works' : w.call = d /\ w.kind = "result"
    BY DEF QueuedInv
  <2>1. PICK w \in works : w.call = d /\ w.kind = "result"
    BY <1>1 DEF IInv, QueuedInv
  <2>2. w \in works'
    BY <2>1
  <2> QED
    BY <2>1, <2>2
<1> QED
  BY <1>2, <1>3, <1>4 DEF IInv

\* A step of one call that queues a work: a result only if the context is new to the works.
LEMMA QueueStep ==
  ASSUME IInv, NEW c \in Calls, NEW change, DOMAIN change \subseteq Fields, Become(c, change),
         CallInv(call'[c]), NEW kind, works' = works \cup {Work(c, kind)},
         \/ kind = "result" /\ call[c].context # "work" /\ call'[c].context = "work"
         \/ kind = "tip" /\ call[c].answers = <<>> /\ call'[c].context = call[c].context
  PROVE  IInv'
<1>1. /\ call' = [d \in Calls |-> call'[d]]
      /\ \A d \in Calls : d # c => call'[d] = call[d]
  BY Becoming
<1>2. CallsInv'
  BY <1>1 DEF IInv, CallsInv
<1>3. Work(c, kind).call = c /\ Work(c, kind).kind = kind
      /\ (call[c].answers = <<>> => Work(c, kind).answers = 0)
  BY DEF Work
<1>4. WorksInv'
  <2>1. CASE kind = "result" /\ call[c].context # "work" /\ call'[c].context = "work"
    <3>1. \A w \in works : w.call = c => w.kind # "result"
      BY <2>1 DEF IInv, WorksInv
    <3> QED
      BY <1>1, <1>3, <2>1, <3>1 DEF IInv, WorksInv
  <2>2. CASE kind = "tip" /\ call[c].answers = <<>> /\ call'[c].context = call[c].context
    BY <1>1, <1>3, <2>2 DEF IInv, WorksInv
  <2> QED
    BY <2>1, <2>2
<1>5. QueuedInv'
  <2> SUFFICES ASSUME NEW d \in Calls, call'[d].context = "work"
               PROVE  \E w \in works' : w.call = d /\ w.kind = "result"
    BY DEF QueuedInv
  <2>1. CASE d = c /\ kind = "result"
    BY <1>3, <2>1
  <2>2. CASE call[d].context = "work"
    BY <2>2 DEF IInv, QueuedInv
  <2> QED
    BY <1>1, <2>1, <2>2
<1> QED
  BY <1>2, <1>4, <1>5 DEF IInv

LEMMA StartsWithoutContext ==
  ASSUME IInv, NEW c \in Calls, NEW m, m # "openSession", Starts(c, m), Refuse(c, m) \/ CallWithout(c, m)
  PROVE  IInv'
<1>1. CallInv(call[c]) /\ call[c].pc = "idle"
  BY DEF IInv, CallsInv, Starts
<1>2. call[c].context # "work"
  BY <1>1 DEF CallInv, ContextInv, Fresh
<1>3. PICK pc \in {"done", "calling"} : Become(c, [pc |-> pc, method |-> m])
  BY DEF Refuse, CallWithout
<1>4. works' = works
  BY DEF Refuse, CallWithout
<1>5. DOMAIN [pc |-> pc, method |-> m] \subseteq Fields
  BY DEF Fields
<1>6. CallInv(call'[c])
  <2>1. call'[c] = [pc |-> pc, method |-> m] ++ call[c]
    BY <1>3, <1>5, Becoming
  <2>2. CallInv([pc |-> pc, method |-> m] ++ call[c])
    BY <1>1, StartWithoutContext
  <2> QED
    BY <2>1, <2>2
<1>7. call'[c].context = call[c].context
  BY <1>3, <1>5, Becoming DEF Fields
<1> QED
  BY <1>2, <1>3, <1>4, <1>5, <1>6, <1>7, CallStep

LEMMA StartsWithContext ==
  ASSUME IInv, NEW c \in Calls, NEW m, NEW form, Starts(c, m),
         form = "callbacks" => m \in ObjectMethods \cup AuthMethods,
         form \in {"callback", "promise"} => m \notin ObjectMethods \cup AuthMethods,
         QueueAsyncWork(c, m, form) \/ (m # "openSession" /\ CallWith(c, m, form))
  PROVE  IInv'
<1>1. CallInv(call[c]) /\ call[c].pc = "idle"
  BY DEF IInv, CallsInv, Starts
<1>2. call[c].context # "work"
  BY <1>1 DEF CallInv, ContextInv, Fresh
<1>3. CASE QueueAsyncWork(c, m, form)
  <2> DEFINE change == [pc |-> "queued", method |-> m, form |-> form, refs |-> RefsOf(form), context |-> "holder"]
  <2>1. Become(c, change) /\ works' = works /\ DOMAIN change \subseteq Fields
    BY <1>3 DEF QueueAsyncWork, Fields
  <2>2. CallInv(call'[c])
    <3>1. call'[c] = change ++ call[c]
      BY <2>1, Becoming
    <3>2. CallInv(change ++ call[c])
      BY <1>1, StartWithContext
    <3> QED
      BY <3>1, <3>2
  <2>3. call'[c].context # "work"
    BY <2>1, Becoming DEF Fields
  <2> QED
    BY <1>2, <2>1, <2>2, <2>3, CallStep
<1>4. CASE m # "openSession" /\ CallWith(c, m, form)
  <2> DEFINE change == [pc |-> "calling", method |-> m, form |-> form, refs |-> RefsOf(form),
                        context |-> "callback", library |-> "holds"]
  <2>1. Become(c, change) /\ works' = works /\ DOMAIN change \subseteq Fields
    BY <1>4 DEF CallWith, Fields
  <2>2. CallInv(call'[c])
    <3>1. call'[c] = change ++ call[c]
      BY <2>1, Becoming
    <3>2. CallInv(change ++ call[c])
      BY <1>1, <1>4, StartWithContext
    <3> QED
      BY <3>1, <3>2
  <2>3. call'[c].context # "work"
    BY <2>1, Becoming DEF Fields
  <2> QED
    BY <1>2, <2>1, <2>2, <2>3, CallStep
<1> QED
  BY <1>3, <1>4

\* The functions of UserIdentityManager.
LEMMA UserIdmFunctions ==
  ASSUME IInv, NEW c \in Calls, UserIdmFunction(c)
  PROVE  IInv'
<1>0. "openSession" \notin ObjectMethods \cup AuthMethods /\ "getAuthInfo" \notin ObjectMethods \cup AuthMethods
  BY DEF ObjectMethods, AuthMethods
<1>1. CASE OpenSession(c)
  BY <1>0, <1>1, StartsWithContext DEF OpenSession
<1>2. CASE CloseSession(c)
  BY <1>2, StartsWithoutContext DEF CloseSession
<1>3. CASE Cancel(c)
  BY <1>3, StartsWithoutContext DEF Cancel
<1>4. CASE GetAuthInfo(c)
  BY <1>0, <1>4, StartsWithContext, StartsWithoutContext DEF GetAuthInfo
<1>5. ASSUME NEW m \in ObjectMethods, NEW args, Starts(c, m), JudgeObjectType(c, m, args)
      PROVE  IInv'
  <2>1. m # "openSession" /\ SaveCallback(args, 2) \notin {"callback", "promise"}
    BY <1>5 DEF ObjectMethods, SaveCallback
  <2> QED
    BY <1>5, <2>1, StartsWithContext, StartsWithoutContext DEF JudgeObjectType
<1>6. CASE AddCredential(c) \/ UpdateCredential(c)
  BY <1>5, <1>6 DEF AddCredential, UpdateCredential, ObjectMethods
<1>7. CASE DelUser(c) \/ DelCred(c)
  <2>1. \A args : JudgeDelUserType(args) \notin {"callback", "promise"} /\ JudgeDelCredType(args) \notin {"callback", "promise"}
    BY DEF JudgeDelUserType, JudgeDelCredType, SaveCallback
  <2> QED
    BY <1>7, <2>1, StartsWithContext DEF DelUser, DelCred, ObjectMethods
<1> QED
  BY <1>1, <1>2, <1>3, <1>4, <1>6, <1>7 DEF UserIdmFunction

\* What execute makes of its arguments.
LEMMA ParsedCodes == \A args : ParseExecuteParameters(args) \in AllCodes
BY DEF ParseExecuteParameters, ParseExecuteParametersZero, ParseExecuteParametersOne, AllCodes

\* The functions of UserAuthImpl.
LEMMA UserAuthFunctions ==
  ASSUME IInv, NEW c \in Calls, UserAuthFunction(c)
  PROVE  IInv'
<1>1. CASE GetVersion(c)
  BY <1>1, StartsWithoutContext DEF GetVersion
<1>2. CASE GetAvailableStatus(c)
  BY <1>2, StartsWithoutContext DEF GetAvailableStatus
<1>3. CASE CancelAuth(c)
  BY <1>3, StartsWithoutContext DEF CancelAuth
<1>4. CASE Auth(c) \/ AuthUser(c)
  <2>0. \A last : CallbackForm(last) \notin {"callback", "promise"}
    BY DEF CallbackForm
  <2>1. ASSUME NEW argc, NEW last, Starts(c, "auth"), BuildAuthInfo(c, argc, last)
        PROVE  IInv'
    BY <2>0, <2>1, StartsWithContext, StartsWithoutContext DEF BuildAuthInfo, AuthMethods
  <2>2. ASSUME NEW argc, NEW last, Starts(c, "authUser"), BuildAuthUserInfo(c, argc, last)
        PROVE  IInv'
    BY <2>0, <2>2, StartsWithContext, StartsWithoutContext DEF BuildAuthUserInfo, AuthMethods
  <2> QED
    BY <1>4, <2>1, <2>2 DEF Auth, AuthUser
<1>5. CASE GetProperty(c) \/ SetProperty(c)
  <2>1. \A args : PropertyForm(args) # "callbacks"
    BY DEF PropertyForm
  <2> QED
    BY <1>5, <2>1, StartsWithContext DEF GetProperty, SetProperty, ObjectMethods, AuthMethods
<1>6. CASE Execute(c)
  <2>1. PICK args \in ExecuteArguments, form \in {"callback", "promise"} :
          IF ParseExecuteParameters(args) = "SUCCESS" THEN CallWith(c, "execute", form)
          ELSE /\ Become(c, [pc |-> "done", method |-> "execute", form |-> form, refs |-> RefsOf(form),
                             context |-> "work", result |-> ParseExecuteParameters(args),
                             answers |-> <<ParseExecuteParameters(args)>>])
               /\ works' = works \cup {Work(c, "result")}
    BY <1>6 DEF Execute
  <2>2. Starts(c, "execute")
    BY <1>6 DEF Execute
  <2>3. CASE ParseExecuteParameters(args) = "SUCCESS"
    BY <2>1, <2>2, <2>3, StartsWithContext DEF ObjectMethods, AuthMethods
  <2>4. CASE ParseExecuteParameters(args) # "SUCCESS"
    <3>1. PICK ret \in AllCodes : ret = ParseExecuteParameters(args)
      BY ParsedCodes
    <3> DEFINE change == [pc |-> "done", method |-> "execute", form |-> form, refs |-> RefsOf(form),
                          context |-> "work", result |-> ret, answers |-> <<ret>>]
    <3>2. Become(c, change) /\ works' = works \cup {Work(c, "result")} /\ DOMAIN change \subseteq Fields
      BY <2>1, <2>4, <3>1 DEF Fields
    <3>3. CallInv(call[c]) /\ call[c].pc = "idle"
      BY <2>2 DEF IInv, CallsInv, Starts
    <3>4. call[c].context # "work"
      BY <3>3 DEF CallInv, ContextInv, Fresh
    <3>5. call'[c] = change ++ call[c] /\ call'[c].context = "work"
      BY <3>2, Becoming DEF Fields
    <3>6. CallInv(call'[c])
      BY <3>3, <3>5, StartRefused
    <3> QED
      BY <3>2, <3>4, <3>5, <3>6, QueueStep
  <2> QED
    BY <2>3, <2>4
<1> QED
  BY <1>1, <1>2, <1>3, <1>4, <1>5, <1>6 DEF UserAuthFunction

\* The steps of the async works.
LEMMA AsyncWorks ==
  ASSUME IInv, NEW c \in Calls, WorkerExecutes(c) \/ OpenSessionComplete(c) \/ Complete(c)
  PROVE  IInv'
<1>1. CallInv(call[c])
  BY DEF IInv, CallsInv
<1>2. CASE WorkerExecutes(c)
  <2> DEFINE change == IF call[c].method = "openSession" THEN [pc |-> "executing"]
                       ELSE [pc |-> "executing", context |-> "callback", library |-> "holds"]
  <2>1. call[c].pc = "queued" /\ Become(c, change) /\ works' = works
    BY <1>2 DEF WorkerExecutes
  <2>2. DOMAIN change \subseteq Fields
    BY DEF Fields
  <2>3. call[c].context # "work"
    BY <1>1, <2>1 DEF CallInv, ContextInv
  <2>4. call'[c] = change ++ call[c]
    BY <2>1, <2>2, Becoming
  <2>5. CallInv(change ++ call[c])
    BY <1>1, <2>1, ExecuteKeeps
  <2>6. CallInv(call'[c])
    BY <2>4, <2>5
  <2>7. call'[c].context # "work"
    BY <2>1, <2>2, <2>3, Becoming DEF Fields
  <2> QED
    BY <2>1, <2>2, <2>3, <2>6, <2>7, CallStep
<1>3. CASE OpenSessionComplete(c)
  <2> DEFINE change == [pc |-> "done", told |-> <<[by |-> call[c].form, code |-> "SUCCESS"]>>,
                        refs |-> {}, context |-> "deleted", freed |-> 1]
  <2>1. call[c].pc = "completing" /\ call[c].method = "openSession" /\ Become(c, change) /\ works' = works
    BY <1>3 DEF OpenSessionComplete
  <2>2. DOMAIN change \subseteq Fields
    BY DEF Fields
  <2>3. call[c].context # "work"
    BY <1>1, <2>1 DEF CallInv, SessionInv
  <2>4. /\ SameBut(call[c], call'[c], {"pc", "told", "refs", "context", "freed"})
        /\ call'[c].pc = "done" /\ call'[c].told = <<[by |-> call[c].form, code |-> "SUCCESS"]>>
        /\ call'[c].context = "deleted" /\ call'[c].refs = {} /\ call'[c].freed = 1
    BY <2>1, <2>2, Becoming DEF SameBut, Fields
  <2>5. CallInv(call'[c])
    BY <1>1, <2>1, <2>4, TellingSession
  <2> QED
    BY <2>1, <2>2, <2>3, <2>4, <2>5, CallStep
<1>4. CASE Complete(c)
  <2>1. /\ call[c].pc = "completing" /\ call[c].method # "openSession"
        /\ Become(c, [pc |-> "done"]) /\ works' = works
    BY <1>4 DEF Complete
  <2>2. DOMAIN [pc |-> "done"] \subseteq Fields
    BY DEF Fields
  <2>3. /\ SameBut(call[c], call'[c], {"pc", "tips", "tipsHeard"})
        /\ call'[c].pc = "done" /\ call'[c].context = call[c].context
        /\ call'[c].library = call[c].library /\ call'[c].method = call[c].method
    BY <2>1, <2>2, Becoming DEF SameBut, Fields
  <2>4. CallInv(call'[c])
    <3>1. DropInv(call'[c])
      BY <1>1, <2>1, <2>3 DEF CallInv, DropInv
    <3> QED
      BY <1>1, <2>1, <2>3, <3>1, MovingOn
  <2> QED
    BY <2>1, <2>2, <2>3, <2>4, CallStep
<1> QED
  BY <1>2, <1>3, <1>4

\* The library's function returns, or the library drops the callback object.
LEMMA LibraryLetsGo ==
  ASSUME IInv, NEW c \in Calls, LibraryReturns(c) \/ LibraryDrops(c)
  PROVE  IInv'
<1> DEFINE k == call[c]
           gone == [context |-> "deleted", refs |-> {}, freed |-> k.freed + 1]
           kept == [context |-> k.context]
<1>1. CallInv(k)
  BY DEF IInv, CallsInv
<1>2. PICK head, tail :
        /\ Become(c, head ++ tail) /\ works' = works
        /\ tail = kept \/ (tail = gone /\ k.context = "callback")
        /\ \/ head = [library |-> "dropped"] /\ k.library = "holds"
           \/ /\ (k.pc = "executing" /\ head = [pc |-> "completing"]) \/ (k.pc = "calling" /\ head = [pc |-> "done"])
              /\ tail = gone => k.library = "dropped"
        /\ \/ tail = gone \/ k.method \notin AuthCallbackMethods \/ k.context # "callback"
           \/ IF head = [library |-> "dropped"] THEN k.pc \in {"executing", "calling"} ELSE k.library # "dropped"
  <2>1. IF k.method \in AuthCallbackMethods /\ k.context = "callback" THEN Destroyed(k) = gone ELSE Destroyed(k) = kept
    BY DEF Destroyed
  <2>2. kept # gone
    <3>1. "refs" \in DOMAIN gone /\ "refs" \notin DOMAIN kept
      OBVIOUS
    <3> QED
      BY <3>1
  <2>3. CASE LibraryReturns(c)
    <3> DEFINE head == [pc |-> IF k.pc = "executing" THEN "completing" ELSE "done"]
               tail == IF k.library = "dropped" THEN Destroyed(k) ELSE kept
    <3>1. Become(c, head ++ tail) /\ works' = works /\ k.pc \in {"executing", "calling"}
      BY <2>3 DEF LibraryReturns
    <3>2. /\ tail = kept \/ (tail = gone /\ k.context = "callback" /\ k.library = "dropped")
          /\ tail = gone \/ k.method \notin AuthCallbackMethods \/ k.context # "callback" \/ k.library # "dropped"
      BY <2>1
    <3>3. (k.pc = "executing" /\ head = [pc |-> "completing"]) \/ (k.pc = "calling" /\ head = [pc |-> "done"])
      BY <3>1
    <3>4. head # [library |-> "dropped"]
      <4>1. "pc" \in DOMAIN head /\ "pc" \notin DOMAIN [library |-> "dropped"]
        OBVIOUS
      <4> HIDE DEF head
      <4> QED
        BY <4>1
    <3> HIDE DEF head, tail, kept, gone
    <3> QED
      BY <2>2, <3>1, <3>2, <3>3, <3>4
  <2>4. CASE LibraryDrops(c)
    <3> DEFINE tail == IF k.pc \in {"executing", "calling"} THEN kept ELSE Destroyed(k)
    <3>1. Become(c, [library |-> "dropped"] ++ tail) /\ works' = works /\ k.library = "holds"
      BY <2>4 DEF LibraryDrops
    <3>2. /\ tail = kept \/ (tail = gone /\ k.context = "callback")
          /\ \/ tail = gone \/ k.method \notin AuthCallbackMethods \/ k.context # "callback"
             \/ k.pc \in {"executing", "calling"}
      BY <2>1
    <3> HIDE DEF tail, kept, gone
    <3> QED
      BY <3>1, <3>2
  <2> QED
    BY <2>3, <2>4
<1>3. /\ DOMAIN (head ++ tail) = DOMAIN head \cup DOMAIN tail
      /\ \A f \in DOMAIN head : (head ++ tail)[f] = head[f]
      /\ \A f \in DOMAIN tail \ DOMAIN head : (head ++ tail)[f] = tail[f]
  BY DEF ++
<1>4. DOMAIN (head ++ tail) \subseteq Fields
  BY <1>2, <1>3 DEF Fields
<1>5. FieldsInv(call'[c])
      /\ \A f \in Fields : call'[c][f] = IF f \in DOMAIN (head ++ tail) THEN (head ++ tail)[f] ELSE k[f]
  BY <1>2, <1>4, Becoming
<1>6. \/ call'[c].context = k.context /\ \A f \in {"refs", "freed"} : call'[c][f] = k[f]
      \/ k.context = "callback" /\ call'[c].context = "deleted" /\ call'[c].refs = {} /\ call'[c].freed = k.freed + 1
         /\ tail = gone
  BY <1>2, <1>3, <1>5 DEF Fields
<1>7. SameBut(k, call'[c], {"pc", "library", "context", "refs", "freed"})
  BY <1>2, <1>3, <1>5 DEF SameBut, Fields
<1>8. CallInv(call'[c])
  <2>0. call'[c].method = k.method /\ (tail = gone => call'[c].context = "deleted")
    BY <1>2, <1>3, <1>5 DEF Fields
  <2>1. CASE head = [library |-> "dropped"] /\ k.library = "holds"
    <3>1. call'[c].library = "dropped" /\ call'[c].pc = k.pc
      BY <1>2, <1>3, <1>5, <2>1 DEF Fields
    <3>2. DropInv(call'[c])
      BY <1>2, <1>6, <2>0, <2>1, <3>1 DEF DropInv
    <3> QED
      BY <1>1, <1>6, <1>7, <2>1, <3>1, <3>2, Dropping
  <2>2. CASE /\ (k.pc = "executing" /\ head = [pc |-> "completing"]) \/ (k.pc = "calling" /\ head = [pc |-> "done"])
             /\ tail = gone => k.library = "dropped"
    <3>1. /\ call'[c].library = k.library
          /\ (k.pc = "executing" /\ call'[c].pc = "completing") \/ (k.pc = "calling" /\ call'[c].pc = "done")
      BY <1>2, <1>3, <1>5, <2>2 DEF Fields
    <3>2. CASE tail = gone
      <4>1. DropInv(call'[c])
        BY <2>0, <3>2 DEF DropInv
      <4> QED
        BY <1>1, <1>6, <1>7, <2>2, <3>1, <3>2, <4>1, Dropping
    <3>3. CASE tail = kept
      <4>1. SameBut(k, call'[c], {"pc", "tips", "tipsHeard"})
        BY <1>3, <1>5, <2>2, <3>3 DEF SameBut, Fields
      <4>2. k.pc = "calling" => k.method # "openSession"
        BY <1>1 DEF CallInv, SessionInv
      <4>3. tail # gone
        BY <3>3
      <4>4. head # [library |-> "dropped"]
        <5>1. "pc" \in DOMAIN head /\ "pc" \notin DOMAIN [library |-> "dropped"]
          BY <2>2
        <5> QED
          BY <5>1
      <4>5. DropInv(call'[c])
        BY <1>2, <1>6, <2>0, <3>1, <4>3, <4>4 DEF DropInv
      <4> QED
        BY <1>1, <3>1, <4>1, <4>2, <4>5, MovingOn
    <3> QED
      BY <1>2, <3>2, <3>3
  <2> QED
    BY <1>2, <2>1, <2>2
<1>9. call[c].context # "work" \/ call'[c].context = "work"
  BY <1>6
<1>10. call'[c].context = "work" => call[c].context = "work"
  BY <1>6
<1> QED
  BY <1>2, <1>4, <1>8, <1>9, <1>10, CallStep

\* The library reports progress: a work is queued while the callback object has the context.
LEMMA Reporting ==
  ASSUME IInv, NEW c \in Calls, LibraryReports(c)
  PROVE  IInv'
<1> DEFINE change == [tips |-> call[c].tips + 1]
<1>1. CallInv(call[c])
  BY DEF IInv, CallsInv
<1>2. call[c].library = "holds" /\ Become(c, change)
  BY DEF LibraryReports, OnAcquireInfo, onAcquireInfo, QueueTip, IgnoreTip
<1>3. DOMAIN change \subseteq Fields
  BY DEF Fields
<1>4. /\ SameBut(call[c], call'[c], {"pc", "tips", "tipsHeard"})
      /\ call'[c].pc = call[c].pc /\ call'[c].context = call[c].context
  BY <1>2, <1>3, Becoming DEF SameBut, Fields
<1>5. call[c].pc # "idle"
  BY <1>1, <1>2 DEF CallInv, ContextInv, Fresh
<1>6. CallInv(call'[c])
  BY <1>1, <1>4, <1>5, MovingOn
<1>7. CASE works' = works
  BY <1>2, <1>3, <1>4, <1>6, <1>7, CallStep
<1>8. CASE works' = works \cup {Work(c, "tip")} /\ call[c].context = "callback"
  <2>1. call[c].answers = <<>>
    BY <1>1, <1>8 DEF CallInv, AnswerInv
  <2> QED
    BY <1>2, <1>3, <1>4, <1>6, <1>8, <2>1, QueueStep
<1> QED
  BY <1>7, <1>8 DEF LibraryReports, OnAcquireInfo, onAcquireInfo, QueueTip, IgnoreTip

\* An answer is taken, ignored, or deletes the context of a call without env.
LEMMA AnswerStep ==
  ASSUME IInv, NEW c \in Calls, call[c].library = "holds", NEW code \in AllCodes,
         \/ call[c].context # "callback" /\ IgnoreResult(c, code)
         \/ /\ call[c].context = "callback" /\ QueueResult(c, code)
            /\ call[c].method = "getAuthInfo" => code = "SUCCESS"
         \/ /\ call[c].context = "callback" /\ call[c].form = "noEnv"
            /\ Become(c, [context |-> "deleted", freed |-> 1, answers |-> Append(call[c].answers, code)])
            /\ UNCHANGED works
  PROVE  IInv'
<1>1. CallInv(call[c])
  BY DEF IInv, CallsInv
<1>2. CASE call[c].context # "callback" /\ IgnoreResult(c, code)
  <2> DEFINE change == [answers |-> Append(call[c].answers, code)]
  <2>1. Become(c, change) /\ works' = works /\ DOMAIN change \subseteq Fields
    BY <1>2 DEF IgnoreResult, Fields
  <2>2. /\ SameBut(call[c], call'[c], {"context", "result", "answers", "freed"})
        /\ call'[c].answers = Append(call[c].answers, code) /\ call'[c].context = call[c].context
        /\ call'[c].result = call[c].result /\ call'[c].freed = call[c].freed
    BY <2>1, Becoming DEF SameBut, Fields
  <2>3. CallInv(call'[c])
    BY <1>1, <1>2, <2>2, Answering
  <2> QED
    BY <2>1, <2>2, <2>3, CallStep
<1>3. CASE /\ call[c].context = "callback" /\ QueueResult(c, code)
           /\ call[c].method = "getAuthInfo" => code = "SUCCESS"
  <2> DEFINE change == [context |-> "work", result |-> code, answers |-> Append(call[c].answers, code)]
  <2>1. Become(c, change) /\ works' = works \cup {Work(c, "result")} /\ DOMAIN change \subseteq Fields
    BY <1>3 DEF QueueResult, Fields
  <2>2. /\ SameBut(call[c], call'[c], {"context", "result", "answers", "freed"})
        /\ call'[c].answers = Append(call[c].answers, code) /\ call'[c].context = "work"
        /\ call'[c].result = code /\ call'[c].freed = call[c].freed
    BY <2>1, Becoming DEF SameBut, Fields
  <2>3. CallInv(call'[c])
    BY <1>1, <1>3, <2>2, Answering
  <2> QED
    BY <1>3, <2>1, <2>2, <2>3, QueueStep
<1>4. CASE /\ call[c].context = "callback" /\ call[c].form = "noEnv"
           /\ Become(c, [context |-> "deleted", freed |-> 1, answers |-> Append(call[c].answers, code)])
           /\ UNCHANGED works
  <2> DEFINE change == [context |-> "deleted", freed |-> 1, answers |-> Append(call[c].answers, code)]
  <2>1. Become(c, change) /\ works' = works /\ DOMAIN change \subseteq Fields
    BY <1>4 DEF Fields
  <2>2. /\ SameBut(call[c], call'[c], {"context", "result", "answers", "freed"})
        /\ call'[c].answers = Append(call[c].answers, code) /\ call'[c].context = "deleted"
        /\ call'[c].freed = 1
    BY <2>1, Becoming DEF SameBut, Fields
  <2>3. CallInv(call'[c])
    BY <1>1, <1>4, <2>2, Answering
  <2> QED
    BY <1>4, <2>1, <2>2, <2>3, CallStep
<1> QED
  BY <1>2, <1>3, <1>4

\* The library answers, through whichever callback object it was given.
LEMMA LibrarySpeaks ==
  ASSUME IInv, NEW c \in Calls, NEW code \in Codes, LibraryAnswers(c, code)
  PROVE  IInv'
<1>1. call[c].library = "holds" /\ code \in AllCodes /\ "SUCCESS" \in AllCodes
  BY DEF LibraryAnswers, AllCodes
<1>2. ASSUME NEW ret \in AllCodes, TakeResult(c, ret), call[c].method = "getAuthInfo" => ret = "SUCCESS"
      PROVE  IInv'
  BY <1>1, <1>2, AnswerStep DEF TakeResult
<1>3. CASE OnResult(c, code)
  <2>1. call[c].method # "getAuthInfo"
    BY <1>3 DEF OnResult, ObjectMethods
  <2> QED
    BY <1>1, <1>3, <2>1, AnswerStep DEF OnResult
<1>4. CASE OnGetInfo(c)
  BY <1>1, <1>2, <1>4 DEF OnGetInfo
<1>5. CASE onResult(c, code) \/ onGetProperty(c, code) \/ onSetProperty(c, code)
  BY <1>1, <1>2, <1>5 DEF onResult, OnUserAuthResult, OnAuthResult, OnExecuteResult, onGetProperty, onSetProperty
<1> QED
  BY <1>3, <1>4, <1>5 DEF LibraryAnswers

\* A uv work tells what its call was answered first, and is the last to use the context.
LEMMA TellingStep ==
  ASSUME IInv, NEW w \in works, w.kind = "result", NEW says, TellAndDelete(w, says),
         \/ says = <<>> /\ call[w.call].form \notin Heard
         \/ \E by : says = <<[by |-> by, code |-> FirstAnswer(call[w.call])]>>
  PROVE  IInv'
<1> DEFINE c == w.call
           change == [told |-> call[c].told \o says, refs |-> {}, context |-> "deleted", freed |-> call[c].freed + 1]
<1>1. c \in Calls /\ call[c].context = "work" /\ CallInv(call[c])
  BY DEF IInv, CallsInv, WorksInv
<1>2. Become(c, change) /\ works' = works \ {w} /\ DOMAIN change \subseteq Fields
  BY DEF TellAndDelete, Fields
<1>3. /\ SameBut(call[c], call'[c], {"told", "refs", "context", "freed"})
      /\ call'[c].told = call[c].told \o says /\ call'[c].refs = {} /\ call'[c].context = "deleted"
      /\ call'[c].freed = call[c].freed + 1
  <2>1. FieldsInv(call'[c]) /\ \A f \in Fields : call'[c][f] = IF f \in DOMAIN change THEN change[f] ELSE call[c][f]
    BY <1>1, <1>2, Becoming
  <2> QED
    BY <2>1 DEF SameBut, Fields
<1>4. CallInv(call'[c])
  BY <1>1, <1>3, Telling
<1>5. \A v \in works' : v.call = c => v.kind # "result"
  BY <1>2 DEF IInv, WorksInv
<1>6. works' \subseteq works /\ (\A v \in works \ works' : v.call = c) /\ call'[c].context = "deleted"
  BY <1>2, <1>3
<1> HIDE DEF change, c
<1> QED
  BY <1>1, <1>2, <1>4, <1>5, <1>6, CallStep

\* The uv works, one kind after another.
LEMMA LoopSteps ==
  ASSUME IInv, NEW w \in works, Loop(w)
  PROVE  IInv'
<1> DEFINE k == call[w.call]
<1>1. w.call \in Calls /\ CallInv(k)
  BY DEF IInv, CallsInv, WorksInv
<1>2. w.kind = "result" => /\ k.context = "work" /\ k.result = k.answers[1]
                           /\ k.method = "getAuthInfo" => k.result = "SUCCESS"
                           /\ k.form = "callbacks" => "onResult" \in k.refs
                           /\ k.form \in {"callback", "promise"} => k.method \notin ObjectMethods \cup AuthMethods
  BY <1>1 DEF IInv, WorksInv, CallInv, AnswerInv, RefsInv, RefsOf
<1>3. CASE OnResultWork(w) \/ OnUserAuthResultWork(w) \/ OnAuthResultWork(w)
  <2>1. w.kind = "result" /\ k.method \in ObjectMethods \cup AuthMethods /\ k.method # "execute" /\ TellOnResult(w)
    BY <1>3 DEF OnResultWork, OnUserAuthResultWork, OnAuthResultWork, ObjectMethods, AuthMethods
  <2>2. k.result = FirstAnswer(k)
    BY <1>2, <2>1 DEF FirstAnswer
  <2>3. CASE "onResult" \in k.refs
    BY <2>1, <2>2, <2>3, TellingStep DEF TellOnResult
  <2>4. CASE "onResult" \notin k.refs
    BY <1>2, <2>1, <2>4, TellingStep DEF TellOnResult, Heard
  <2> QED
    BY <2>3, <2>4
<1>4. CASE OnGetInfoWork(w)
  <2>1. w.kind = "result" /\ FirstAnswer(k) = "SUCCESS"
    BY <1>2, <1>4 DEF OnGetInfoWork, FirstAnswer
  <2> QED
    BY <1>4, <2>1, TellingStep DEF OnGetInfoWork
<1>5. CASE OnExecuteResultWork(w)
  <2>1. w.kind = "result" /\ FirstAnswer(k) = ExecuteResult(k.result)
    BY <1>2, <1>5 DEF OnExecuteResultWork, FirstAnswer
  <2>2. \E by : TellAndDelete(w, <<[by |-> by, code |-> ExecuteResult(k.result)]>>)
    BY <1>5 DEF OnExecuteResultWork
  <2> QED
    BY <2>1, <2>2, TellingStep
<1>6. CASE GetPropertyInfoCallback(w) \/ SetExecutorPropertyCallback(w)
  <2>1. w.kind = "result" /\ k.method # "execute" /\ TellProperty(w)
    BY <1>6 DEF GetPropertyInfoCallback, SetExecutorPropertyCallback
  <2>2. k.result = FirstAnswer(k)
    BY <1>2, <2>1 DEF FirstAnswer
  <2>3. CASE k.form = "silent"
    BY <2>1, <2>3, TellingStep DEF TellProperty, Heard
  <2>4. CASE k.form # "silent"
    BY <2>1, <2>2, <2>4, TellingStep DEF TellProperty
  <2> QED
    BY <2>3, <2>4
<1>7. CASE OnAcquireInfoWork(w) \/ OnAuthAcquireInfo(w)
  <2>1. TellTip(w)
    BY <1>7 DEF OnAcquireInfoWork, OnAuthAcquireInfo
  <2>2. PICK heard : Become(w.call, [tipsHeard |-> k.tipsHeard + heard])
    BY <2>1 DEF TellTip
  <2>3. works' \subseteq works /\ \A v \in works \ works' : v.call = w.call /\ v.kind = "tip"
    BY <1>7, <2>1 DEF TellTip, OnAcquireInfoWork, OnAuthAcquireInfo
  <2>4. DOMAIN [tipsHeard |-> k.tipsHeard + heard] \subseteq Fields
    BY DEF Fields
  <2>5. /\ SameBut(k, call'[w.call], {"pc", "tips", "tipsHeard"})
        /\ call'[w.call].pc = k.pc /\ call'[w.call].context = k.context
    BY <1>1, <2>2, <2>4, Becoming DEF SameBut, Fields
  <2>6. k.pc # "idle"
    <3>1. k.method # "none"
      BY <1>7 DEF OnAcquireInfoWork, OnAuthAcquireInfo, ObjectMethods, AuthMethods
    <3> QED
      BY <1>1, <3>1 DEF CallInv, ContextInv, Fresh
  <2>7. CallInv(call'[w.call])
    BY <1>1, <2>5, <2>6, MovingOn
  <2> QED
    BY <1>1, <2>2, <2>3, <2>4, <2>5, <2>7, CallStep
<1> QED
  BY <1>3, <1>4, <1>5, <1>6, <1>7 DEF Loop

\* The invariant is inductive.
LEMMA Inductive == Spec => []IInv
<1>1. Init => IInv
  BY FreshCall DEF Init, IInv, CallsInv, WorksInv, QueuedInv, Fresh
<1>2. IInv /\ [Next]_vars => IInv'
  <2> SUFFICES ASSUME IInv, [Next]_vars
               PROVE  IInv'
    OBVIOUS
  <2>1. CASE \E c \in Calls : UserIdmFunction(c) \/ UserAuthFunction(c)
    BY <2>1, UserIdmFunctions, UserAuthFunctions
  <2>2. CASE \E c \in Calls : WorkerExecutes(c) \/ OpenSessionComplete(c) \/ Complete(c)
    BY <2>2, AsyncWorks
  <2>3. CASE \E c \in Calls : LibraryReturns(c) \/ LibraryReports(c) \/ LibraryDrops(c)
    BY <2>3, LibraryLetsGo, Reporting
  <2>4. CASE \E c \in Calls, code \in Codes : LibraryAnswers(c, code)
    BY <2>4, LibrarySpeaks
  <2>5. CASE \E w \in works : Loop(w)
    BY <2>5, LoopSteps
  <2>6. CASE UNCHANGED vars
    BY <2>6 DEF vars, IInv, CallsInv, WorksInv, QueuedInv
  <2> QED
    BY <2>1, <2>2, <2>3, <2>4, <2>5, <2>6 DEF Next
<1> QED
  BY <1>1, <1>2, PTL DEF Spec

\* However the library's answers, the reports of progress, the drop of the callback
\* object and the works of the loop interleave, JavaScript hears one answer of a
\* call at most, the first, and its context is deleted once at most.
THEOREM FirstAnswerIsHeard == Spec => []HearsFirstAnswer
<1>1. IInv => HearsFirstAnswer
  <2> SUFFICES ASSUME IInv, NEW c \in Calls
               PROVE  /\ call[c].freed <= 1 /\ Len(call[c].told) <= 1
                      /\ call[c].told # <<>> /\ call[c].answers # <<>> =>
                           call[c].told[1].code = FirstAnswer(call[c])
    BY DEF HearsFirstAnswer, FirstAnswer
  <2>1. CallInv(call[c])
    BY DEF IInv, CallsInv
  <2>2. call[c].freed <= 1
    BY <2>1 DEF CallInv, ContextInv
  <2>3. CASE call[c].told = <<>>
    BY <2>2, <2>3
  <2>4. CASE call[c].told # <<>>
    <3>1. PICK by, code : /\ call[c].told = <<[by |-> by, code |-> code]>>
                          /\ call[c].answers # <<>> => code = FirstAnswer(call[c])
      BY <2>1, <2>4 DEF CallInv, ToldInv
    <3> QED
      BY <2>2, <3>1
  <2> QED
    BY <2>3, <2>4
<1> QED
  BY <1>1, Inductive, PTL

\* Loop finds the context of every result that QueueResult left it, and the reference
\* of every tip but for those that an answer, or the end of the callback object, overtook.
THEOREM ContextsAreFound == Spec => []WorksFindTheirContext
<1>1. IInv => WorksFindTheirContext
  <2> SUFFICES ASSUME IInv, NEW w \in works
               PROVE  LET k == call[w.call] IN
                      /\ w.kind = "result" => k.context = "work"
                      /\ w.kind = "tip" /\ k.form = "callbacks" /\ "onAcquireInfo" \notin k.refs =>
                           \/ k.told # <<>> /\ w.answers = 0
                           \/ k.library = "dropped" /\ k.answers = <<>>
    BY DEF WorksFindTheirContext
  <2>1. w.call \in Calls /\ CallInv(call[w.call])
    BY DEF IInv, CallsInv, WorksInv
  <2> QED
    BY <2>1 DEF IInv, WorksInv, CallInv, RefsInv, RefsOf, Heard
<1> QED
  BY <1>1, Inductive, PTL

\* The result of c is queued for the JS thread.
ResultQueued(c) == \E w \in works : w.call = c /\ w.kind = "result"

\* What AnsweredIsTold and NothingLeaks wait for is on its way: the result is queued with the
\* context, or the function that keeps a dropped callback object alive is still to return.
NobodyForgotten ==
  \A c \in Calls :
    /\ call[c].answers # <<>> /\ call[c].form \in Heard => call[c].told # <<>> \/ ResultQueued(c)
    /\ \/ call[c].answers # <<>>
       \/ call[c].library = "dropped" /\ call[c].method \in AuthCallbackMethods
       => \/ call[c].context = "deleted" /\ call[c].refs = {}
          \/ ResultQueued(c)
          \/ call[c].library = "dropped" /\ call[c].pc \in {"executing", "calling"}

\* No context is lost: whoever of the callback object, the uv work and the function that runs lets
\* go of it last has deleted it, and nobody has deleted it before JavaScript was told.
THEOREM NobodyIsForgotten == Spec => []NobodyForgotten
<1>1. IInv => NobodyForgotten
  <2> SUFFICES ASSUME IInv, NEW c \in Calls
               PROVE  /\ call[c].answers # <<>> /\ call[c].form \in Heard => call[c].told # <<>> \/ ResultQueued(c)
                      /\ \/ call[c].answers # <<>>
                         \/ call[c].library = "dropped" /\ call[c].method \in AuthCallbackMethods
                         => \/ call[c].context = "deleted" /\ call[c].refs = {}
                            \/ ResultQueued(c)
                            \/ call[c].library = "dropped" /\ call[c].pc \in {"executing", "calling"}
    BY DEF NobodyForgotten
  <2>1. CallInv(call[c]) /\ (call[c].context = "work" => ResultQueued(c))
    BY DEF IInv, CallsInv, QueuedInv, ResultQueued
  <2>2. CASE call[c].answers # <<>>
    <3>1. call[c].context \in {"work", "deleted"}
      BY <2>1, <2>2 DEF CallInv, AnswerInv, ContextInv, Fresh
    <3> QED
      BY <2>1, <2>2, <3>1 DEF CallInv, RefsInv
  <2>3. CASE call[c].answers = <<>> /\ call[c].library = "dropped"
    <3>1. call[c].context \in {"callback", "work", "deleted"}
      BY <2>1, <2>3 DEF CallInv, ContextInv, Fresh
    <3> QED
      BY <2>1, <2>3, <3>1 DEF CallInv, RefsInv, DropInv
  <2> QED
    BY <2>2, <2>3
<1> QED
  BY <1>1, Inductive, PTL
=============================================================================
