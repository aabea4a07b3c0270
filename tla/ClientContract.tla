--------------------------- MODULE ClientContract ---------------------------
(***************************************************************************)
(* What services/user_auth promises the client of Auth and AuthUser,       *)
(* without contexts, threads or schedules: one result for each request, a  *)
(* token only with SUCCESS, and after that result nothing but BUSY.  The   *)
(* device may leave a request undecided, and may come back to it.          *)
(***************************************************************************)
EXTENDS Sequences

CONSTANTS Requests, Codes

VARIABLES
  asked,   \* asked[r]: has request r been made, and is it to be decided?
  results  \* results[r]: what its client was told

vars == <<asked, results>>

Busy == [code |-> "BUSY", token |-> FALSE]

Init ==
  /\ asked = [r \in Requests |-> "no"]
  /\ results = [r \in Requests |-> <<>>]

Ask(r) ==
  /\ asked[r] = "no"
  /\ asked' = [asked EXCEPT ![r] = "yes"]
  /\ UNCHANGED results

\* The one result; a request may be refused as it is made.
Answer(r) ==
  /\ results[r] = <<>> /\ asked[r] # "undecided"
  /\ asked' = [asked EXCEPT ![r] = "yes"]
  /\ \E code \in Codes, token \in BOOLEAN :
       /\ token => code = "SUCCESS"
       /\ results' = [results EXCEPT ![r] = <<[code |-> code, token |-> token]>>]

\* The device waits for more than it will get.
Undecide(r) ==
  /\ results[r] = <<>> /\ asked[r] = "yes"
  /\ asked' = [asked EXCEPT ![r] = "undecided"]
  /\ UNCHANGED results

\* A late answer reaches the device all the same.
Redecide(r) ==
  /\ asked[r] = "undecided"
  /\ asked' = [asked EXCEPT ![r] = "yes"]
  /\ UNCHANGED results

Apologise(r) ==
  /\ results[r] # <<>>
  /\ results' = [results EXCEPT ![r] = Append(@, Busy)]
  /\ UNCHANGED asked

Next ==
  \E r \in Requests : Ask(r) \/ Answer(r) \/ Undecide(r) \/ Redecide(r) \/ Apologise(r)

SafeSpec == Init /\ [][Next]_vars

Spec == SafeSpec /\ \A r \in Requests : WF_vars(asked[r] = "yes" /\ (Answer(r) \/ Undecide(r)))
=============================================================================
