-------------------------- MODULE ScheduleContract --------------------------
(***************************************************************************)
(* What services/co_auth promises the caller of BeginSchedule, without     *)
(* executors, threads or timers: a schedule that is saved is released only *)
(* after its callback was told; the executors' verdict, the failure of the *)
(* begin and the timeout are each told at most once; and a saved schedule  *)
(* is released in the end.                                                 *)
(***************************************************************************)
CONSTANT Schedules

VARIABLES
  status,  \* status[s]: "idle", "open" while the pool holds s, "released"
  told     \* told[s]: the kinds of answers the callback of s has had

Kinds == {"verdict", "failure", "timeout"}

TypeOK ==
  /\ status \in [Schedules -> {"idle", "open", "released"}]
  /\ told \in [Schedules -> SUBSET Kinds]

Init ==
  /\ status = [s \in Schedules |-> "idle"]
  /\ told = [s \in Schedules |-> {}]

\* A schedule without executors is refused: a failure, and nothing is saved.
Refuse(s) ==
  /\ status[s] = "idle"
  /\ status' = [status EXCEPT ![s] = "released"]
  /\ told' = [told EXCEPT ![s] = {"failure"}]

Open(s) ==
  /\ status[s] = "idle"
  /\ status' = [status EXCEPT ![s] = "open"]
  /\ UNCHANGED told

\* The thread that lost the race may still tell after the release.
Tell(s, kind) ==
  /\ status[s] # "idle"
  /\ kind \notin told[s]
  /\ told[s] # {} \/ status[s] = "open"
  /\ told' = [told EXCEPT ![s] = @ \cup {kind}]
  /\ UNCHANGED status

Release(s) ==
  /\ status[s] = "open"
  /\ told[s] # {}
  /\ status' = [status EXCEPT ![s] = "released"]
  /\ UNCHANGED told

Progress(s) == Release(s) \/ (status[s] = "open" /\ \E kind \in Kinds : Tell(s, kind))

Next ==
  \E s \in Schedules :
    Refuse(s) \/ Open(s) \/ Release(s) \/ \E kind \in Kinds : Tell(s, kind)

Spec ==
  /\ Init /\ [][Next]_<<status, told>>
  /\ \A s \in Schedules : WF_<<status, told>>(Progress(s))
=============================================================================
