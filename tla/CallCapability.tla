---------------------------- MODULE CallCapability ----------------------------
(***************************************************************************)
(* CallCapability (easyfleet_bt_nodes): a node of a behaviour tree that    *)
(* calls one capability of one robot. The tree's thread starts, ticks,     *)
(* halts and destroys the node; the thread of the node's ActionClient      *)
(* delivers feedback and outcomes.                                         *)
(*                                                                         *)
(* call_ numbers the calls, and a goal's callbacks remember theirs. Here   *)
(* it is the one goal that has the current number, if any. The client is   *)
(* the one of ActionClient, used by a single caller, the tree.             *)
(***************************************************************************)
EXTENDS ActionClient

CONSTANT Tree   \* the thread that ticks the tree

ASSUME CallCapabilityAssumption == Tree \in Callers

VARIABLES
  node,      \* what the last tick returned, "IDLE" after a halt
  step,      \* what the tree's thread is in the middle of
  current,   \* the goal whose call number is call_, or NoGoal
  result,    \* result_: the goal it is the outcome of, or NoGoal
  feedback,  \* feedback_: the goal it is about, or NoGoal
  deadline,  \* CallPerception's deadline_: "unset", "set", or "passed"
  gone       \* goals 1..gone were sent with clients that are destroyed

client_state == <<server_vars, client_vars, caller_vars>>
node_vars == <<node, step, current, result, feedback, deadline, gone>>
tree_vars == <<client_state, node_vars>>

Nodes == {"IDLE", "RUNNING", "SUCCESS", "FAILURE"}
Steps == {"free", "starting", "sending", "finishing", "destroying", "destroyed"}

TreeInit ==
  /\ Init
  /\ node = "IDLE" /\ step = "free"
  /\ current = NoGoal /\ result = NoGoal /\ feedback = NoGoal
  /\ deadline = "unset" /\ gone = 0

\* The tree's thread is not in a call of the client.
IsFree == step = "free" /\ pc[Tree] = "idle"

-------------------------------------------------------------------------------
(* Plausible mistakes, each for the definition it is named after.          *)

\* A callback of any call is listened to.
IsCurrent_Unchecked(g) == g # NoGoal

\* A call that ends by its feedback or its deadline is not canceled.
Finish_NotCanceled ==
  /\ current' = NoGoal
  /\ UNCHANGED client_state

\* The number of the call is taken before the new one is made.
SendGoal_NumberBefore ==
  /\ step = "sending"
  /\ Send(Tree)
  /\ current' = NoGoal
  /\ node' = "RUNNING" /\ step' = "free"
  /\ UNCHANGED <<result, feedback, deadline, gone>>

-------------------------------------------------------------------------------
(* The client of the node. One that was destroyed hears nothing any more.  *)

\* Each client has its own server (those of destroyed clients are taken for one).
SameServer(g) == {h \in Goals : h <= gone <=> g <= gone}

\* It answers requests in order, and runs one goal at a time in that order.
RespondInTurn(g) ==
  /\ heard[g] # "unsent"
  /\ \A h \in SameServer(g) : h < g => status[h] # "unknown"
  /\ Server!Respond(g)
  /\ UNCHANGED canceling /\ ServerOnly

ProgressInTurn(g) ==
  /\ \/ Server!Drop(g)
     \/ /\ \A h \in SameServer(g) : status[h] # "running" /\ (h < g => status[h] # "accepted")
        /\ Server!Becomes(g, "accepted", "running")
  /\ UNCHANGED canceling /\ ServerOnly

ServerActs(g) ==
  /\ RespondInTurn(g) \/ TakeCancel(g) \/ ProgressInTurn(g) \/ Settle(g)
  /\ UNCHANGED node_vars

\* if (call == call_)
IsCurrent(g) == g = current

\* The callback given to send_goal() for its outcome.
OnOutcome(g) ==
  /\ result' = IF IsCurrent(g) THEN g ELSE result
  /\ UNCHANGED <<node, step, current, feedback, deadline, gone>>

HearAcceptance(g) ==
  /\ g > gone
  /\ (TakeResponse(g) /\ status[g] # "rejected") \/ Responded(g) \/ TakeResult(g)
  /\ UNCHANGED node_vars

\* The outcome REJECTED comes with the answer, any other one with the result,
\* as the last thing the client's callback does.
HearOutcome(g) ==
  /\ g > gone
  /\ (TakeResponse(g) /\ status[g] = "rejected") \/ EndResult(g)
  /\ OnOutcome(g)

\* Feedback of a goal that runs, or that ran and whose result is on its way.
HearFeedback(g) ==
  /\ g > gone
  /\ ExecutorIsFree
  /\ heard[g] = "accepted" /\ status[g] \in {"running"} \cup Answers
  /\ feedback' = IF IsCurrent(g) THEN g ELSE feedback
  /\ UNCHANGED <<client_state, node, step, current, result, deadline, gone>>

ClientActs(g) == HearAcceptance(g) \/ HearOutcome(g)

\* cancel_all_goals() sends its requests one by one.
SendCancels == CancelStep /\ UNCHANGED node_vars

-------------------------------------------------------------------------------
(* The tree.                                                               *)

\* ~ActionClient() joins its thread once that is between two callbacks.
Joined == ExecutorIsFree

\* The client is destroyed: its goals are left alone.
DropClient == Joined /\ gone' = sent

\* A tick that fails at once, and leaves what an earlier call left as it is.
Refused ==
  /\ IsFree /\ node # "RUNNING"
  /\ node' = "FAILURE"
  /\ UNCHANGED <<client_state, step, current, result, feedback, deadline, gone>>

\* onStart() with ports that name no action, or from which no goal is made.
NoAction == Refused
NoGoalMade == Refused

\* onStart(), with a goal from valid ports: another action than the last call's
\* takes a new client.
Start ==
  /\ IsFree /\ node # "RUNNING"
  /\ DropClient \/ UNCHANGED gone
  /\ deadline' \in {"unset", "set"}
  /\ step' = "starting"
  /\ UNCHANGED <<client_state, node, current, result, feedback>>

\* wait_for_server() fails.
NoServer ==
  /\ step = "starting"
  /\ node' = "FAILURE" /\ step' = "free"
  /\ UNCHANGED <<client_state, current, result, feedback, deadline, gone>>

ForgetAnswers ==
  /\ step = "starting"
  /\ result' = NoGoal /\ feedback' = NoGoal
  /\ step' = "sending"
  /\ UNCHANGED <<client_state, node, current, deadline, gone>>

\* A new call_, and its goal is sent ...
SendGoal ==
  /\ step = "sending"
  /\ Send(Tree)
  /\ current' = sent + 1
  /\ node' = "RUNNING" /\ step' = "free"
  /\ UNCHANGED <<result, feedback, deadline, gone>>

\* ... or the server has just gone.
SendFails ==
  /\ step = "sending"
  /\ current' = NoGoal
  /\ node' = "FAILURE" /\ step' = "free"
  /\ UNCHANGED <<client_state, result, feedback, deadline, gone>>

\* The outcome a callback is told: whatever is neither a success nor a
\* cancellation counts as aborted, but for a refusal.
OutcomeOf(g) ==
  IF status[g] \in {"succeeded", "canceled", "rejected"} THEN status[g] ELSE "aborted"

\* A goal's own error code has a say, but only a goal that succeeded succeeds.
ByOutcome(g) == IF OutcomeOf(g) = "succeeded" THEN {"SUCCESS", "FAILURE"} ELSE {"FAILURE"}

\* CallPerception wants enough detections too.
OnResult(g) == ByOutcome(g) \cup {"FAILURE"}

\* on_feedback(): the navigation and manipulation nodes go on, CallPerception
\* ends its call when enough was detected, and a node of one's own may fail it.
OnFeedback == {"RUNNING", "SUCCESS", "FAILURE"}

\* onRunning() with an outcome.
TickResult ==
  /\ IsFree /\ node = "RUNNING"
  /\ result # NoGoal
  /\ node' \in OnResult(result)
  /\ feedback' = NoGoal
  /\ UNCHANGED <<client_state, step, current, result, deadline, gone>>

\* finish(): whatever arrives for the current goal is ignored, and it is canceled.
Finish ==
  /\ current' = NoGoal
  /\ CancelAll(Tree)

\* onRunning() without one: the feedback may say that the call is done, and
\* CallPerception's deadline may have passed. The tick returns after finish().
TickFeedback ==
  /\ IsFree /\ node = "RUNNING"
  /\ result = NoGoal
  /\ feedback' = NoGoal
  /\ \/ /\ feedback # NoGoal
        /\ node' \in OnFeedback \ {"RUNNING"}
        /\ step' = "finishing"
     \/ /\ feedback # NoGoal /\ deadline # "passed"
        /\ UNCHANGED <<node, step>>
     \/ /\ deadline = "passed"
        /\ node' = "FAILURE"
        /\ step' = "finishing"
  /\ UNCHANGED <<client_state, current, result, deadline, gone>>

FinishTick ==
  /\ step = "finishing"
  /\ step' = "free"
  /\ Finish
  /\ UNCHANGED <<node, result, feedback, deadline, gone>>

\* onHalted(), of a running node.
Halt ==
  /\ IsFree /\ node = "RUNNING"
  /\ node' = "IDLE"
  /\ Finish
  /\ UNCHANGED <<step, result, feedback, deadline, gone>>

DeadlinePasses ==
  /\ node = "RUNNING" /\ deadline = "set"
  /\ deadline' = "passed"
  /\ UNCHANGED <<client_state, node, step, current, result, feedback, gone>>

\* The destructor cancels, and waits for the client's thread.
Destroy ==
  /\ IsFree
  /\ CancelAll(Tree)
  /\ node' = "IDLE" /\ step' = "destroying"
  /\ UNCHANGED <<current, result, feedback, deadline, gone>>

Destroyed ==
  /\ step = "destroying" /\ pc[Tree] = "idle"
  /\ DropClient
  /\ step' = "destroyed"
  /\ UNCHANGED <<client_state, node, current, result, feedback, deadline>>

-------------------------------------------------------------------------------
Tick == TickResult \/ TickFeedback \/ FinishTick

Invalid == NoAction \/ NoGoalMade

StartStep == NoServer \/ ForgetAnswers \/ SendGoal \/ SendFails

TreeNext ==
  \/ \E g \in Goals : ServerActs(g) \/ ClientActs(g) \/ HearFeedback(g)
  \/ SendCancels
  \/ Start \/ Invalid \/ StartStep \/ Tick \/ Halt \/ DeadlinePasses \/ Destroy \/ Destroyed

TreeSpec == TreeInit /\ [][TreeNext]_tree_vars

\* The tree goes on ticking a running node and its calls return; the client's
\* thread and the server's handling of requests and cancels go on as in
\* ActionClient. No goal has to end unless it is canceled, no tree has to start,
\* halt or destroy its nodes, and no feedback has to come.
TreeFairness ==
  /\ WF_tree_vars(StartStep) /\ WF_tree_vars(Tick) /\ WF_tree_vars(SendCancels)
  /\ WF_tree_vars(\E g \in Goals : ClientActs(g))
  /\ \A g \in Goals :
       /\ WF_tree_vars(RespondInTurn(g) /\ UNCHANGED node_vars)
       /\ WF_tree_vars(TakeCancel(g) /\ UNCHANGED node_vars)
       /\ WF_tree_vars(g \in canceling /\ Settle(g) /\ UNCHANGED node_vars)
       /\ WF_tree_vars(g \in canceling /\ ProgressInTurn(g) /\ UNCHANGED node_vars)

FairTreeSpec == TreeSpec /\ TreeFairness

-------------------------------------------------------------------------------
\* The types, and the client's.
NodeTypeOK ==
  /\ TypeOK
  /\ node \in Nodes /\ step \in Steps
  /\ {current, result, feedback} \subseteq 0..sent
  /\ deadline \in {"unset", "set", "passed"}
  /\ gone \in 0..sent

\* "if (call == call_)": whatever a running node has heard is about the goal of
\* this very call, never about a halted or an earlier one.
AnswersAreOwn ==
  node = "RUNNING" /\ step = "free" =>
    current = sent /\ {result, feedback} \subseteq {NoGoal, sent}

\* A call that has ended leaves nothing behind: between two calls every goal of
\* this node is over, or its cancellation has been asked for.
NothingLeftRunning ==
  node # "RUNNING" /\ step = "free" => \A g \in 1..sent : g \in wanted \/ Over(g)

\* No outcome is lost between two calls: a node whose goal is over stops
\* running, unless a call of the client ended by an exception.
AnsweredCallsEnd ==
  \A g \in Goals :
    (node = "RUNNING" /\ sent = g /\ heard[g] \in {"rejected", "done"})
      ~> (node # "RUNNING" \/ sent # g \/ pc[Tree] = "thrown")

Ended(g) == status[g] \in {"rejected"} \cup Answers

\* A robot stops doing what the tree no longer wants, as long as the node keeps
\* the client it asked with.
HaltedGoalsStop ==
  \A g \in Goals : g \in wanted ~> Ended(g) \/ g <= gone \/ pc[Tree] = "thrown"

===============================================================================
