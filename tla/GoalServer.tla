------------------------------ MODULE GoalServer ------------------------------
(***************************************************************************)
(* What an EasyFleet action server promises to its clients, with no        *)
(* threads, locks or queues: every goal is answered at most once and for   *)
(* good, at most one goal runs at a time, goals that run do so in the      *)
(* order they were accepted, and a goal that never ran is never reported   *)
(* as succeeded.                                                           *)
(*                                                                         *)
(* ActionServer and PythonActionServer implement this specification; the   *)
(* refinement mappings are there.                                          *)
(***************************************************************************)
EXTENDS Integers

CONSTANT MaxGoals   \* how many goals clients send

\* Goals are numbered in the order in which the server receives them.
Goals == 1..MaxGoals

VARIABLE status     \* what has become of each goal

Answers == {"rejected", "succeeded", "canceled", "aborted"}

Status == {"unknown", "accepted", "dropped", "running"} \cup Answers

Init == status = [g \in Goals |-> "unknown"]

Becomes(g, from, to) ==
  /\ status[g] = from
  /\ status' = [status EXCEPT ![g] = to]

\* A new goal is either refused for good or accepted.
Respond(g) == Becomes(g, "unknown", "rejected") \/ Becomes(g, "unknown", "accepted")

\* Superseded by a newer goal, or caught by a halt or a disable: it will
\* never run.
Drop(g) == Becomes(g, "accepted", "dropped")

\* The same of several goals at once, for a server in which several may wait.
DropAll(dropped) ==
  /\ \A g \in dropped : status[g] = "accepted"
  /\ status' = [g \in Goals |-> IF g \in dropped THEN "dropped" ELSE status[g]]

\* Nothing is running and no older goal is still waiting for its turn.
Start(g) ==
  /\ \A h \in Goals : status[h] # "running"
  /\ \A h \in 1..(g - 1) : status[h] # "accepted"
  /\ Becomes(g, "accepted", "running")

\* The result of a goal. Success is only for a goal that ran.
Settle(g) ==
  \/ Becomes(g, "running", "succeeded")
  \/ \E from \in {"running", "dropped"}, to \in {"canceled", "aborted"} :
       Becomes(g, from, to)

Next ==
  \/ \E g \in Goals : Respond(g) \/ Drop(g) \/ Start(g) \/ Settle(g)
  \/ \E dropped \in SUBSET Goals : DropAll(dropped)

Spec == Init /\ [][Next]_status

===============================================================================
