--------------------------- MODULE TaskLifecycle ----------------------------
(***************************************************************************)
(* What a task queue with retries and a dead letter list promises about a  *)
(* task, whatever its workers do: a queued task is worked on, and then     *)
(* completed, queued again, or given up; it is completed at most once, and *)
(* only a task that was given up is put back by hand.  Two requests to put *)
(* it back that meet while it is given up void the last two promises.      *)
(***************************************************************************)
EXTENDS Integers

CONSTANTS Task

VARIABLES state,    \* state of a task
          attempts, \* times the task was given to a worker since it was queued
          doubled   \* tasks that two requests to put them back have met on

State == {"new", "queued", "processing", "retrying", "completed", "dead_letter"}

Init ==
  /\ state = [t \in Task |-> "new"]
  /\ attempts = [t \in Task |-> 0]
  /\ doubled = {}

Move(t, from, to) ==
  /\ state[t] \in from
  /\ state' = [state EXCEPT ![t] = to]
  /\ UNCHANGED doubled

Queue(t) == Move(t, {"new"}, "queued") /\ UNCHANGED attempts

Start(t) ==
  /\ Move(t, {"queued", "retrying"}, "processing")
  /\ attempts' = [attempts EXCEPT ![t] = @ + 1]

Finish(t) == Move(t, {"processing"}, "completed") /\ UNCHANGED attempts
Retry(t) == Move(t, {"processing"}, "retrying") /\ UNCHANGED attempts
GiveUp(t) == Move(t, {"processing"}, "dead_letter") /\ UNCHANGED attempts

PutBack(t) ==
  /\ Move(t, IF t \in doubled THEN State \ {"new"} ELSE {"dead_letter"}, "queued")
  /\ attempts' = [attempts EXCEPT ![t] = 0]

Meet(t) ==
  /\ state[t] = "dead_letter"
  /\ doubled' = doubled \cup {t}
  /\ UNCHANGED <<state, attempts>>

Next ==
  \E t \in Task :
    \/ Queue(t) \/ Start(t) \/ Finish(t) \/ Retry(t) \/ GiveUp(t)
    \/ PutBack(t) \/ Meet(t)

Spec == Init /\ [][Next]_<<state, attempts, doubled>>
=============================================================================
