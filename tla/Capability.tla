------------------------------ MODULE Capability ------------------------------
(***************************************************************************)
(* Capability (easyfleet_core): the lifecycle node that owns one action    *)
(* server, follows its goals in an OrderHistory and watches the fleet's    *)
(* heartbeat with a LinkWatchdog.                                          *)
(*                                                                         *)
(* The action server is taken at the level of GoalServer, which            *)
(* ActionServer implements. Everything else runs on the node's executor,   *)
(* one callback at a time: lifecycle transitions, timers, subscriptions    *)
(* and the action server's handlers. The server's worker thread runs       *)
(* alongside, and rclcpp_action publishes the goals' states on a topic     *)
(* that keeps only the last message.                                       *)
(***************************************************************************)
EXTENDS Integers, FiniteSets

CONSTANTS
  MaxGoals,       \* how many goals clients send (a bound for TLC)
  Capacity,       \* "<capability>.order_history"
  Timeout,        \* "<capability>.link_timeout", in ticks
  CheckPeriod,    \* ticks between two runs of the link timer
  TimeoutIsSet,   \* the values "link_timeout > 0" may take
  LostCancels     \* the values "on_link_lost = cancel" may take

ASSUME CapabilityAssumption ==
  /\ MaxGoals \in Nat
  /\ Capacity \in Nat \ {0}
  /\ Timeout \in Nat
  /\ CheckPeriod \in Nat \ {0}
  /\ TimeoutIsSet \subseteq BOOLEAN /\ LostCancels \subseteq BOOLEAN

VARIABLES
  lifecycle,      \* the primary state of the lifecycle node
  publishers,     \* capabilities_pub_, status_pub_ and get_order_srv_ exist
  heartbeat,      \* heartbeat_timer_ exists
  watching,       \* link_timer_ and fleet_heartbeat_sub_ exist
  cancel_on_lost, \* cancel_on_link_lost_
  since_check,    \* ticks since the link timer last fired
  status,         \* what has become of each goal, as in GoalServer
  canceling,      \* goals whose cancellation was accepted
  active,         \* the goal the worker holds, or NoGoal
  asked,          \* the goal the worker holds was asked to stop: preempted or halted
  goals_enabled,
  topic, unread,  \* the last goal status message, and whether it is still to be taken
  orders,         \* order_history_
  monitored, age, link,   \* link_watchdog_
  pc,             \* where the executor is
  target          \* the state a transition that disables goals leads to, or "none"

Server == INSTANCE GoalServer
History == INSTANCE OrderHistory
Watchdog == INSTANCE LinkWatchdog WITH MaxAge <- Timeout + CheckPeriod + 1

Goals == Server!Goals
NoGoal == 0
Answers == Server!Answers

node == <<lifecycle, publishers, heartbeat, cancel_on_lost, target>>
goal_vars == <<status, canceling, active, asked>>
topic_vars == <<topic, unread>>
link_vars == <<watching, since_check, monitored, age, link>>
vars == <<node, goal_vars, goals_enabled, topic_vars, orders, link_vars, pc>>

Init ==
  /\ lifecycle = "unconfigured" /\ target = "none"
  /\ publishers = FALSE /\ heartbeat = FALSE /\ watching = FALSE
  /\ cancel_on_lost = FALSE
  /\ since_check = 0
  /\ Server!Init
  /\ canceling = {} /\ asked = FALSE /\ active = NoGoal
  /\ goals_enabled = FALSE
  /\ topic = [g \in Goals |-> "unknown"] /\ unread = FALSE
  /\ orders = History!Empty
  /\ Watchdog!Init
  /\ pc = "idle"

\* The accepted goal that waits for the worker, if any.
Queued == {g \in Goals : status[g] = "accepted"}

\* Whoever takes the queued goal out of the queue: it will never run.
DropQueued ==
  status' = [g \in Goals |-> IF g \in Queued THEN "dropped" ELSE status[g]]

AskActive == asked' = (asked \/ active # NoGoal)

-------------------------------------------------------------------------------
(* Plausible mistakes (see the definitions they are named after).          *)

\* Shutting down does not disable goals.
BeginShutdown_GoalsKept ==
  /\ pc = "idle"
  /\ lifecycle \in {"unconfigured", "inactive", "active"}
  /\ target' = "finalized"
  /\ pc' = "disabling"
  /\ UNCHANGED <<lifecycle, publishers, heartbeat, cancel_on_lost, goal_vars, goals_enabled,
                 topic_vars, orders, link_vars>>

\* The running goal is waited for but not asked to stop.
BeginDisable_NotAsked(to) ==
  /\ pc = "idle"
  /\ target' = to
  /\ goals_enabled' = FALSE
  /\ DropQueued
  /\ pc' = "disabling"
  /\ UNCHANGED <<lifecycle, publishers, heartbeat, cancel_on_lost, canceling, active, asked,
                 topic_vars, orders, link_vars>>

\* The link is compared with its state after the update.
CheckLink_EdgeMissed ==
  /\ pc = "idle" /\ watching
  /\ since_check = CheckPeriod
  /\ since_check' = 0
  /\ Watchdog!Update
  /\ UNCHANGED <<node, goal_vars, goals_enabled, topic_vars, orders, watching, pc>>

-------------------------------------------------------------------------------
(* The lifecycle transitions. One that fails (a bad parameter, a missing   *)
(* file) changes nothing.                                                  *)

\* on_configure()
Configure(cancel) ==
  /\ pc = "idle"
  /\ lifecycle = "unconfigured"
  /\ lifecycle' = "inactive"
  /\ cancel_on_lost' = cancel
  /\ publishers' = TRUE
  /\ UNCHANGED <<heartbeat, target, goal_vars, goals_enabled, topic_vars, orders, link_vars, pc>>

\* on_activate()
Activate(timeout_set) ==
  /\ pc = "idle"
  /\ lifecycle = "inactive"
  /\ lifecycle' = "active"
  /\ heartbeat' = TRUE
  /\ Watchdog!Reset(timeout_set)
  /\ watching' = timeout_set
  /\ since_check' = 0
  /\ goals_enabled' = TRUE
  /\ UNCHANGED <<publishers, cancel_on_lost, target, goal_vars, topic_vars, orders, pc>>

\* disable_goals() at the head of on_deactivate() and of on_shutdown().
BeginDisable(to) ==
  /\ pc = "idle"
  /\ target' = to
  /\ goals_enabled' = FALSE
  /\ DropQueued /\ AskActive
  /\ pc' = "disabling"
  /\ UNCHANGED <<lifecycle, publishers, heartbeat, cancel_on_lost, canceling, active, topic_vars,
                 orders, link_vars>>

BeginDeactivate == lifecycle = "active" /\ BeginDisable("inactive")

BeginShutdown ==
  lifecycle \in {"unconfigured", "inactive", "active"} /\ BeginDisable("finalized")

\* disable_goals() returns: the running goal has, and the dropped one is settled.
\* Then stop_heartbeat(), and on shutdown the publishers go.
Disabled ==
  /\ pc = "disabling"
  /\ active = NoGoal
  /\ \A g \in Goals : status[g] # "dropped"
  /\ heartbeat' = FALSE /\ watching' = FALSE
  /\ publishers' = (publishers /\ target # "finalized")
  /\ lifecycle' = target /\ target' = "none"
  /\ pc' = "idle"
  /\ UNCHANGED <<cancel_on_lost, goal_vars, goals_enabled, topic_vars, orders,
                 since_check, monitored, age, link>>

\* on_cleanup()
Cleanup ==
  /\ pc = "idle"
  /\ lifecycle = "inactive"
  /\ lifecycle' = "unconfigured"
  /\ publishers' = FALSE
  /\ heartbeat' = FALSE /\ watching' = FALSE
  /\ UNCHANGED <<cancel_on_lost, target, goal_vars, goals_enabled, topic_vars, orders,
                 since_check, monitored, age, link, pc>>

-------------------------------------------------------------------------------
(* Goals. The newest goal is the last one that was received.               *)

Unknown == {g \in Goals : status[g] = "unknown"}
Received == Goals \ Unknown

\* A goal request is answered.
ReceiveGoal ==
  /\ pc = "idle"
  /\ \E g \in Unknown :
       /\ \A h \in Unknown : g <= h
       /\ Server!Respond(g)
       /\ status'[g] = "accepted" => goals_enabled
       /\ pc' = IF status'[g] = "accepted" THEN "accepting" ELSE "idle"
  /\ UNCHANGED <<node, canceling, active, asked, goals_enabled, topic_vars, orders, link_vars>>

\* handle_accepted() puts it in the queue: an older queued goal is dropped, the
\* running one asked to stop. (Capability disables goals on this same thread,
\* so they are still enabled.)
EnqueueGoal ==
  /\ pc = "accepting"
  /\ status' = [g \in Goals |->
       IF g \in Queued /\ \E h \in Received : h > g THEN "dropped" ELSE status[g]]
  /\ AskActive
  /\ pc' = "recording"
  /\ UNCHANGED <<node, canceling, active, goals_enabled, topic_vars, orders, link_vars>>

\* goal_accepted_callback_. The worker may run the goal already.
RecordOrder(g) ==
  /\ pc = "recording"
  /\ orders' = History!Accepted(orders, g)
  /\ pc' = "settling"
  /\ UNCHANGED <<node, goal_vars, goals_enabled, topic_vars, link_vars>>

RecordNewest ==
  \E g \in Received : (\A h \in Received : h <= g) /\ RecordOrder(g)

\* The executor settles a goal it dropped.
SettleDropped(g) ==
  /\ pc \in {"settling", "disabling"}
  /\ status[g] = "dropped"
  /\ status' = [status EXCEPT ![g] = IF g \in canceling THEN "canceled" ELSE "aborted"]
  /\ UNCHANGED <<node, canceling, active, asked, goals_enabled, topic_vars, orders, link_vars,
                 pc>>

DoneSettling ==
  /\ pc = "settling"
  /\ \A g \in Goals : status[g] # "dropped"
  /\ pc' = "idle"
  /\ UNCHANGED <<node, goal_vars, goals_enabled, topic_vars, orders, link_vars>>

\* A cancel request for a goal that has no answer yet.
CancelGoal(g) ==
  /\ pc = "idle"
  /\ status[g] \in {"accepted", "running"}
  /\ canceling' = canceling \cup {g}
  /\ UNCHANGED <<node, status, active, asked, goals_enabled, topic_vars, orders, link_vars, pc>>

\* The worker takes the queued goal (not one still on its way there).
StartGoal(g) ==
  /\ active = NoGoal
  /\ pc = "accepting" => \E h \in Received : h > g
  /\ Server!Start(g)
  /\ active' = g
  /\ asked' = FALSE
  /\ UNCHANGED <<node, canceling, goals_enabled, topic_vars, orders, link_vars, pc>>

\* The worker settles the goal it runs; canceled only at a client's request.
SettleGoal(g) ==
  /\ active = g
  /\ Server!Settle(g)
  /\ status'[g] = "canceled" => g \in canceling
  /\ UNCHANGED <<node, canceling, active, asked, goals_enabled, topic_vars, orders, link_vars, pc>>

\* on_execute() has returned with the goal settled.
FinishGoal ==
  /\ active # NoGoal
  /\ status[active] \in Answers
  /\ active' = NoGoal
  /\ asked' = FALSE
  /\ UNCHANGED <<node, status, canceling, goals_enabled, topic_vars, orders, link_vars, pc>>

-------------------------------------------------------------------------------
(* The goal status topic.                                                  *)

\* The state of a goal in rcl_action, which reports no rejected goal.
Reported(g) ==
  CASE status[g] \in {"unknown", "rejected"} -> "unknown"
    [] status[g] \in {"accepted", "dropped", "running"} ->
         IF g \in canceling THEN "canceling" ELSE "executing"
    [] OTHER -> status[g]

Report == [g \in Goals |-> Reported(g)]

\* Some time after a goal changes its state, rclcpp_action publishes them all.
PublishStates ==
  /\ topic # Report
  /\ topic' = Report
  /\ unread' = TRUE
  /\ UNCHANGED <<node, goal_vars, goals_enabled, orders, link_vars, pc>>

\* goal_status_sub_'s callback.
TakeStates ==
  /\ pc = "idle"
  /\ unread
  /\ orders' = History!Update(orders, topic)
  /\ unread' = FALSE
  /\ UNCHANGED <<node, goal_vars, goals_enabled, topic, link_vars, pc>>

-------------------------------------------------------------------------------
(* The link to the fleet.                                                  *)

\* fleet_heartbeat_sub_'s callback; the topic is best effort.
HearFleet ==
  /\ pc = "idle" /\ watching
  /\ Watchdog!Heard
  /\ UNCHANGED <<node, goal_vars, goals_enabled, topic_vars, orders, watching, since_check, pc>>

\* check_link(), with halt_active_goal() when the link is found lost.
CheckLink ==
  /\ pc = "idle" /\ watching
  /\ since_check = CheckPeriod
  /\ since_check' = 0
  /\ Watchdog!Update
  /\ IF link' = "lost" /\ link # "lost" /\ cancel_on_lost
     THEN DropQueued /\ AskActive /\ pc' = "settling"
     ELSE UNCHANGED <<status, asked, pc>>
  /\ UNCHANGED <<node, canceling, active, goals_enabled, topic_vars, orders, watching>>

\* Time passes for the link; its timer fires as soon as it is due and the
\* executor free.
Tick ==
  /\ watching
  /\ ~(pc = "idle" /\ since_check = CheckPeriod)
  /\ Watchdog!Tick
  /\ since_check' = IF since_check = CheckPeriod THEN since_check ELSE since_check + 1
  /\ UNCHANGED <<node, goal_vars, goals_enabled, topic_vars, orders, watching, pc>>

-------------------------------------------------------------------------------
Transition ==
  \/ \E cancel \in LostCancels : Configure(cancel)
  \/ \E timeout_set \in TimeoutIsSet : Activate(timeout_set)
  \/ BeginDeactivate \/ BeginShutdown \/ Cleanup

Client == ReceiveGoal \/ \E g \in Goals : CancelGoal(g)

Handling ==
  \/ EnqueueGoal \/ RecordNewest \/ DoneSettling \/ Disabled
  \/ \E g \in Goals : SettleDropped(g)

Executing == \E g \in Goals : SettleGoal(g)

Worker == FinishGoal \/ \E g \in Goals : StartGoal(g)

Next ==
  \/ Transition \/ Client \/ Handling \/ Executing \/ Worker
  \/ PublishStates \/ TakeStates \/ HearFleet \/ CheckLink \/ Tick

Spec == Init /\ [][Next]_vars

\* A callback that began ends, the worker goes on, messages are delivered, the
\* clock and the link timer run, and a goal that is asked to stop returns.
Fairness ==
  /\ WF_vars(Handling) /\ WF_vars(Worker)
  /\ WF_vars(PublishStates) /\ SF_vars(TakeStates)
  /\ WF_vars(Tick) /\ WF_vars(CheckLink)
  /\ WF_vars((asked \/ active \in canceling) /\ Executing)

FairSpec == Spec /\ Fairness

-------------------------------------------------------------------------------
TypeOK ==
  /\ lifecycle \in {"unconfigured", "inactive", "active", "finalized"}
  /\ target \in {"none", "inactive", "finalized"}
  /\ publishers \in BOOLEAN /\ heartbeat \in BOOLEAN /\ watching \in BOOLEAN
  /\ cancel_on_lost \in BOOLEAN /\ goals_enabled \in BOOLEAN /\ unread \in BOOLEAN
  /\ asked \in BOOLEAN
  /\ since_check \in 0..CheckPeriod
  /\ status \in [Goals -> Server!Status]
  /\ canceling \subseteq Goals
  /\ active \in Goals \cup {NoGoal}
  /\ topic \in [Goals -> {"unknown", "executing", "canceling"} \cup Answers]
  /\ DOMAIN orders \subseteq Goals
  /\ \A g \in DOMAIN orders : orders[g] \in History!OrderStates
  /\ monitored \in BOOLEAN
  /\ age \in Watchdog!Never..(Timeout + CheckPeriod + 1)
  /\ link \in Watchdog!LinkStates
  /\ pc \in {"idle", "accepting", "recording", "settling", "disabling"}

\* Goals are only served while the capability is active: in every other state
\* of the lifecycle no goal is waiting, running or unanswered, however the node
\* got there, and the timers are gone, which use publishers that may be.
OnlyServesWhileActive ==
  /\ lifecycle # "active" =>
       /\ ~goals_enabled /\ ~heartbeat /\ ~watching
       /\ active = NoGoal
       /\ pc \in {"idle", "disabling"}
       /\ \A g \in Goals : status[g] \in {"unknown"} \cup Answers
  /\ heartbeat \/ watching => publishers

\* The history lags behind the goals, but never lies: an order it calls
\* finished has finished that way, one it calls canceling was canceled by a
\* client, and only accepted goals are in it.
HistoryIsTruthful ==
  \A g \in DOMAIN orders :
    /\ status[g] \notin {"unknown", "rejected"}
    /\ orders[g] \in History!Finished => status[g] = orders[g]
    /\ orders[g] = "canceling" => g \in canceling

\* While the capability is active, link_state tells the age of the last
\* heartbeat: lost only if it is older than the timeout, ok only if it was not
\* when the timer last fired, waiting only if there was none since activation.
LinkStateIsTrue ==
  watching =>
    /\ link # "not_monitored"
    /\ link = "waiting" <=> age = Watchdog!Never
    /\ link = "lost" => age > Timeout
    /\ link = "ok" /\ since_check < CheckPeriod => age <= Timeout + since_check

\* A finished order that is still kept is eventually reported as finished, with
\* the goal's own result, though messages overwrite each other on the topic.
OrdersCatchUp ==
  \A g \in Goals :
    g \in DOMAIN orders /\ status[g] \in Answers ~>
      g \notin DOMAIN orders \/ orders[g] = status[g]

\* A transition that disables goals ends, although it blocks the only thread
\* that handles callbacks until the running goal has returned.
TransitionsEnd == pc = "disabling" ~> pc = "idle"

\* "Stops the running goal": with "cancel", when the link is lost under a
\* running goal that goal ends, unless the fleet is heard again before the
\* timer notices or the capability is stopped.
LostLinkStops ==
  \A g \in Goals :
    watching /\ cancel_on_lost /\ link = "ok" /\ age > Timeout /\ active = g ~>
      active # g \/ age = 0 \/ ~watching

===============================================================================
