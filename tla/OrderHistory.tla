----------------------------- MODULE OrderHistory -----------------------------
(***************************************************************************)
(* OrderHistory (easyfleet_core): the recent orders of one capability and  *)
(* the states they were last reported in, no more than Capacity of them.   *)
(*                                                                         *)
(* A history is a function from the goals it keeps to their states. Goals  *)
(* are numbered in order of acceptance, so the deque's order is that of    *)
(* the goals: its back is the greatest one.                                *)
(***************************************************************************)
EXTENDS Integers, FiniteSets

CONSTANT Capacity   \* "<capability>.order_history", at least one

Finished == {"succeeded", "canceled", "aborted"}      \* is_terminal()
OrderStates == {"accepted", "executing", "canceling"} \cup Finished

Empty == [g \in {} |-> "accepted"]

FinishedOrders(orders) == {g \in DOMAIN orders : orders[g] \in Finished}

Oldest(goals) == {g \in goals : \A h \in goals : g <= h}

-------------------------------------------------------------------------------
\* A mistake, for update(): without the search by goal id, the first goal of the
\* message decides for every order.
Reported_Unmatched(orders, report) ==
  [g \in DOMAIN orders |->
     IF orders[g] \in Finished \/ report[1] = "unknown" THEN orders[g] ELSE report[1]]

\* A mistake, for update(): finished goals are skipped, not finished orders.
Reported_ActiveOnly(orders, report) ==
  [g \in DOMAIN orders |->
     IF report[g] \in {"unknown"} \cup Finished THEN orders[g] ELSE report[g]]
-------------------------------------------------------------------------------

\* What trim() drops: the oldest finished order, or the oldest one if none has
\* finished. Orders enter one by one, so its loop runs once at most.
Surplus(orders) ==
  IF Cardinality(DOMAIN orders) <= Capacity THEN {}
  ELSE IF FinishedOrders(orders) # {} THEN Oldest(FinishedOrders(orders))
  ELSE Oldest(DOMAIN orders)

Trim(orders) == [g \in DOMAIN orders \ Surplus(orders) |-> orders[g]]

\* accepted(): a new order enters, at the back.
Accepted(orders, goal) ==
  Trim([g \in DOMAIN orders \cup {goal} |-> IF g = goal THEN "accepted" ELSE orders[g]])

\* The states after a message of the action server, which reports a state, or
\* "unknown", for each goal. A finished order never changes again.
Reported(orders, report) ==
  [g \in DOMAIN orders |->
     IF orders[g] \in Finished \/ report[g] = "unknown" THEN orders[g] ELSE report[g]]

\* update()
Update(orders, report) == Trim(Reported(orders, report))

===============================================================================
