------------------------------- MODULE JsCalls -------------------------------
(***************************************************************************)
(* What the two JavaScript bindings (napi) have in common.  The functions  *)
(* of the module run on the JS thread; some call the client library there, *)
(* others leave the call to an async work, whose Execute runs on a worker  *)
(* and whose Complete runs on the JS thread again.  Answers arrive on any  *)
(* thread and are taken to the JS thread by uv works; the thread pool of   *)
(* uv completes them in any order.  The client library is the environment: *)
(* it may keep the callback object it is given, report progress, answer    *)
(* twice, or drop it unanswered (ClientIpc says when).                     *)
(***************************************************************************)
EXTENDS Integers, Sequences, Overlay

CONSTANTS Calls,       \* the calls that JavaScript makes
          MethodsOf,   \* MethodsOf[c]: the functions call c may be of
          Codes,       \* the result codes a client library answers with
          MaxTips,     \* how often a library reports progress of one call
          MaxAnswers   \* how often it answers one call

VARIABLES js,      \* the call whose function waits for the client library on the JS thread, or "free"
          call,    \* call[c]: what the bindings keep of call c
          works    \* the uv works that are queued

vars == <<js, call, works>>

Fresh == [pc |-> "idle", method |-> "none", form |-> "none", refs |-> {}, context |-> "none", freed |-> 0,
          result |-> "none", library |-> "none", tips |-> 0, answers |-> <<>>, told |-> <<>>, tipsHeard |-> 0]

Become(c, change) == call' = [call EXCEPT ![c] = change ++ @]

\* The arguments of a call, as far as the functions tell them apart.
Values == {"undefined", "number", "function", "callbacks", "uint8Array", "emptyArray"}
ArgumentLists(max) == UNION {[1..n -> Values] : n \in 0..max}

\* The references that keep the JS functions alive: form says how the call is to be answered.
RefsOf(form) == CASE form = "callbacks" -> {"onResult", "onAcquireInfo"}
                  [] form = "callback"  -> {"callback"}
                  [] OTHER              -> {}

(***************************************************************************)
(* What a function does with a call: refuse its arguments, queue an async  *)
(* work that owns the new context, or call the library on the JS thread    *)
(* with a callback object that owns it, or without one.                    *)
(***************************************************************************)
Starts(c, m) == js = "free" /\ call[c].pc = "idle" /\ m \in MethodsOf[c]

Refuse(c, m) == Become(c, [pc |-> "done", method |-> m]) /\ UNCHANGED <<js, works>>

QueueAsyncWork(c, m, form) ==
  /\ Become(c, [pc |-> "queued", method |-> m, form |-> form, refs |-> RefsOf(form), context |-> "holder"])
  /\ UNCHANGED <<js, works>>

CallWith(c, m, form) ==
  /\ js' = c
  /\ Become(c, [pc |-> "calling", method |-> m, form |-> form, refs |-> RefsOf(form),
                context |-> "callback", library |-> "holds"])
  /\ UNCHANGED works

CallWithout(c, m) ==
  /\ js' = c
  /\ Become(c, [pc |-> "calling", method |-> m])
  /\ UNCHANGED works

\* Complete of the async works that call the library with a callback: only the holder goes.
Complete(c) ==
  /\ js = "free" /\ call[c].pc = "completing" /\ call[c].method # "openSession"
  /\ Become(c, [pc |-> "done"])
  /\ UNCHANGED <<js, works>>

\* A uv work remembers what was queued before it: the answers of its call, and its tips.
Work(c, kind) == [call |-> c, kind |-> kind, answers |-> Len(call[c].answers), tips |-> call[c].tips]

\* Mutant: the callback object keeps the context it has given to a uv work.
QueueResultKeepsContext(c, code) ==
  /\ works' = works \cup {Work(c, "result")}
  /\ Become(c, [result |-> code, answers |-> Append(call[c].answers, code)])

\* uv_queue_work with the context, which is no longer the callback object's.
QueueResult(c, code) ==
  /\ works' = works \cup {Work(c, "result")}
  /\ Become(c, [context |-> "work", result |-> code, answers |-> Append(call[c].answers, code)])

IgnoreResult(c, code) == Become(c, [answers |-> Append(call[c].answers, code)]) /\ UNCHANGED works

TakeResult(c, code) == IF call[c].context = "callback" THEN QueueResult(c, code) ELSE IgnoreResult(c, code)

QueueTip(c) ==
  /\ works' = works \cup {Work(c, "tip")}
  /\ Become(c, [tips |-> call[c].tips + 1])

IgnoreTip(c) == Become(c, [tips |-> call[c].tips + 1]) /\ UNCHANGED works

\* A uv work tells JavaScript (says is what it tells, a sequence), then deletes context and references.
TellAndDelete(w, says) ==
  LET k == call[w.call] IN
  /\ Become(w.call, [told |-> k.told \o says, refs |-> {}, context |-> "deleted", freed |-> k.freed + 1])
  /\ works' = works \ {w}
  /\ UNCHANGED js

TellOnResult(w) ==
  TellAndDelete(w, IF "onResult" \in call[w.call].refs
                   THEN <<[by |-> "onResult", code |-> call[w.call].result]>> ELSE <<>>)

\* A uv work calls onAcquireInfo; a reference deleted before may be used, with either outcome.
TellTip(w) ==
  LET k == call[w.call] IN
  /\ \E heard \in IF "onAcquireInfo" \in k.refs THEN {1} ELSE IF k.form = "callbacks" THEN {0, 1} ELSE {0} :
       Become(w.call, [tipsHeard |-> k.tipsHeard + heard])
  /\ works' = works \ {w}
  /\ UNCHANGED js
=============================================================================
