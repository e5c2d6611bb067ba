----------------------------- MODULE ActionServer -----------------------------
(***************************************************************************)
(* ActionServerBase (easyfleet_core): the class under every capability. It *)
(* hides a ROS 2 action server behind three hooks and runs goals on a      *)
(* thread of its own.                                                      *)
(*                                                                         *)
(* Three threads share its state:                                          *)
(*   Executor    the rclcpp executor: goal, cancel and parameter services  *)
(*               and timers, one callback at a time (they share the node's *)
(*               default, mutually exclusive callback group);              *)
(*   Controller  whoever calls enable_goals(), disable_goals() and stop(); *)
(*   Worker      the thread worker_loop() runs on.                         *)
(* One action is what a thread does between two points where another       *)
(* thread can interfere: a critical section of mutex_, a read of an        *)
(* atomic, a call on a goal handle.                                        *)
(***************************************************************************)
EXTENDS Integers

CONSTANTS
  MaxGoals,          \* how many goals clients send (a bound for TLC)
  SharedThread,      \* TRUE: the controller's calls are executor callbacks too
                     \* (lifecycle services); FALSE: it is a thread of its own
  PreemptionValues   \* the values "<action>.allow_preemption" takes

ASSUME ConstantsAssumption ==
  /\ MaxGoals \in Nat
  /\ SharedThread \in BOOLEAN
  /\ PreemptionValues \subseteq BOOLEAN
  /\ PreemptionValues # {}

\* Goal ids in the order the server receives the goals (a UUID is only a name).
Goals == 1..MaxGoals
NoGoal == 0          \* a null GoalHandleSharedPtr
GoalOrNone == Goals \cup {NoGoal}

Executor == "executor"
Controller == "controller"
Worker == "worker"
Threads == {Executor, Controller, Worker}

VARIABLES
  received,             \* number of goal requests received so far
  goal_state,           \* rcl_action's state machine of each goal
  goals_enabled, shutting_down, halt_requested,
  goal_halt_requested, preempt_requested, allow_preemption,
  active, pending,      \* active_handle_ and pending_handle_
  pc,                   \* where each thread is
  arg,                  \* the goal handle each thread holds in a local variable
  cont,                 \* where each thread goes on after settle_unstarted()
  stopping              \* the controller's call is stop(), not disable_goals()

switches == <<goals_enabled, shutting_down, stopping>>
requests == <<halt_requested, goal_halt_requested, preempt_requested>>
slots == <<active, pending>>
control == <<pc, arg, cont>>
vars == <<received, goal_state, switches, requests, allow_preemption, slots, control>>

Live == {"executing", "canceling"}                   \* is_active() in rclcpp_action
Terminal == {"succeeded", "canceled", "aborted"}
GoalStates == {"unknown", "rejected"} \cup Live \cup Terminal

\* A node's goal handle is EXECUTING from the moment rclcpp_action accepts it
\* (ACCEPT_AND_EXECUTE) until a result is set.
SetGoal(g, s) == goal_state' = [goal_state EXCEPT ![g] = s]

Goto(t, label) == pc' = [pc EXCEPT ![t] = label]

\* t takes the local variable a and goes on at label.
GotoWith(t, label, a) == Goto(t, label) /\ arg' = [arg EXCEPT ![t] = a]

\* t calls settle_unstarted(a) and goes on at then; a null handle is not settled.
GotoSettling(t, a, then) ==
  /\ GotoWith(t, IF a = NoGoal THEN then ELSE "settle", a)
  /\ cont' = [cont EXCEPT ![t] = then]

Init ==
  /\ received = 0
  /\ goal_state = [g \in Goals |-> "unknown"]
  /\ goals_enabled = TRUE
  /\ shutting_down = FALSE
  /\ halt_requested = FALSE
  /\ goal_halt_requested = FALSE
  /\ preempt_requested = FALSE
  /\ allow_preemption \in PreemptionValues
  /\ active = NoGoal
  /\ pending = NoGoal
  /\ pc = [t \in Threads |-> IF t = Worker THEN "check" ELSE "idle"]
  /\ arg = [t \in Threads |-> NoGoal]
  /\ cont = [t \in Threads |-> "idle"]
  /\ stopping = FALSE

\* With a shared thread a callback begins only when no other one is running.
ExecutorIsFree ==
  /\ pc[Executor] = "idle"
  /\ SharedThread => pc[Controller] = "idle"

ControllerIsFree ==
  /\ pc[Controller] = "idle"
  /\ SharedThread => pc[Executor] = "idle"

-------------------------------------------------------------------------------
(* Plausible mistakes in this class. No action uses these definitions: each  *)
(* stands in for the one it is named after to show which property catches it.*)

\* settle_unstarted() without its is_active() check.
SettleCheck_ActiveUnchecked(t) ==
  /\ pc[t] = "settle"
  /\ Goto(t, IF goal_state[arg[t]] = "canceling" THEN "set_canceled" ELSE "set_aborted")
  /\ UNCHANGED <<received, goal_state, switches, requests, allow_preemption, slots, arg, cont>>

\* Only the running goal counts as busy.
Busy_QueuedIgnored == active # NoGoal

\* The running goal is not told that a newer one waits.
EnqueueGoal_NoPreempt ==
  /\ pc[Executor] = "enqueue"
  /\ pending' = arg[Executor]
  /\ GotoWith(Executor, "callback", pending)
  /\ UNCHANGED <<received, goal_state, switches, requests, allow_preemption, active, cont>>

\* The queued goal is left where it is, to be found by the worker.
DisableGoals_IgnoresQueued(for_stop) ==
  /\ ControllerIsFree
  /\ goals_enabled' = FALSE
  /\ stopping' = for_stop
  /\ halt_requested' = (halt_requested \/ active # NoGoal)
  /\ Goto(Controller, "wait")
  /\ UNCHANGED <<received, goal_state, shutting_down, goal_halt_requested, preempt_requested,
                 allow_preemption, slots, arg, cont>>

\* The halt of a goal is not withdrawn when that goal ends.
FinishGoal_KeepsHalt ==
  /\ pc[Worker] = "finish"
  /\ active' = NoGoal
  /\ Goto(Worker, "notify")
  /\ UNCHANGED <<received, goal_state, switches, requests, allow_preemption, pending, arg, cont>>

\* Whoever waits for the server to be idle is not notified.
NotifyIdle_Forgotten ==
  /\ pc[Worker] = "notify"
  /\ Goto(Worker, "check")
  /\ UNCHANGED <<received, goal_state, switches, requests, allow_preemption, slots, arg, cont>>

-------------------------------------------------------------------------------
(* settle_unstarted(), run by any of the three threads without mutex_.     *)

\* is_active(), then is_canceling().
SettleCheck(t) ==
  /\ pc[t] = "settle"
  /\ \/ /\ goal_state[arg[t]] \notin Live
        /\ GotoWith(t, cont[t], NoGoal)
     \/ /\ goal_state[arg[t]] \in Live
        /\ Goto(t, IF goal_state[arg[t]] = "canceling" THEN "set_canceled" ELSE "set_aborted")
        /\ UNCHANGED arg
  /\ UNCHANGED <<received, goal_state, switches, requests, allow_preemption, slots, cont>>

\* canceled() or abort(), as decided above: a cancel request accepted in
\* between no longer changes the outcome.
SettleWrite(t) ==
  /\ pc[t] \in {"set_canceled", "set_aborted"}
  /\ SetGoal(arg[t], IF pc[t] = "set_canceled" THEN "canceled" ELSE "aborted")
  /\ GotoWith(t, cont[t], NoGoal)
  /\ UNCHANGED <<received, switches, requests, allow_preemption, slots, cont>>

-------------------------------------------------------------------------------
(* The executor's callbacks.                                               *)

\* handle_goal() up to the lock: refused while goals are disabled, or by
\* on_goal_received() (which may also throw).
ReceiveGoal ==
  LET g == received + 1
  IN /\ ExecutorIsFree
     /\ received < MaxGoals
     /\ received' = g
     /\ \/ /\ SetGoal(g, "rejected")
           /\ UNCHANGED <<pc, arg>>
        \/ /\ goals_enabled
           /\ GotoWith(Executor, "admit", g)
           /\ UNCHANGED goal_state
     /\ UNCHANGED <<switches, requests, allow_preemption, slots, cont>>

\* A queued goal counts as busy too.
Busy == active # NoGoal \/ pending # NoGoal

\* The rest of handle_goal(), under mutex_, and what rclcpp_action does with
\* its answer.
AdmitGoal ==
  /\ pc[Executor] = "admit"
  /\ IF goals_enabled /\ (Busy => allow_preemption)
     THEN /\ SetGoal(arg[Executor], "executing")
          /\ Goto(Executor, "accepted")
          /\ UNCHANGED arg
     ELSE /\ SetGoal(arg[Executor], "rejected")
          /\ GotoWith(Executor, "idle", NoGoal)
  /\ UNCHANGED <<received, switches, requests, allow_preemption, slots, cont>>

\* handle_accepted(), first critical section: goals disabled meanwhile?
CheckStillEnabled ==
  /\ pc[Executor] = "accepted"
  /\ IF goals_enabled
     THEN Goto(Executor, "enqueue") /\ UNCHANGED <<arg, cont>>
     ELSE GotoSettling(Executor, arg[Executor], "idle")
  /\ UNCHANGED <<received, goal_state, switches, requests, allow_preemption, slots>>

\* handle_accepted(), second critical section: the goal becomes the queued one,
\* a goal queued before it is bumped, the running one is asked to make way.
EnqueueGoal ==
  /\ pc[Executor] = "enqueue"
  /\ pending' = arg[Executor]
  /\ GotoWith(Executor, "callback", pending)
  /\ preempt_requested' = (preempt_requested \/ active # NoGoal)
  /\ UNCHANGED <<received, goal_state, switches, halt_requested, goal_halt_requested,
                 allow_preemption, active, cont>>

\* goal_accepted_callback_, then the bumped goal is settled.
RunAcceptedCallback ==
  /\ pc[Executor] = "callback"
  /\ GotoSettling(Executor, arg[Executor], "notify")
  /\ UNCHANGED <<received, goal_state, switches, requests, allow_preemption, slots>>

\* cv_.notify_one(): the worker, if it is waiting, looks again.
NotifyWorker ==
  /\ pc[Executor] = "notify"
  /\ pc' = [pc EXCEPT ![Executor] = "idle",
                      ![Worker] = IF @ = "blocked" THEN "check" ELSE @]
  /\ UNCHANGED <<received, goal_state, switches, requests, allow_preemption, slots, arg, cont>>

\* A cancel request that on_cancel_requested() accepts (a refusal changes nothing).
CancelGoal(g) ==
  /\ ExecutorIsFree
  /\ goal_state[g] = "executing"
  /\ SetGoal(g, "canceling")
  /\ UNCHANGED <<received, switches, requests, allow_preemption, slots, control>>

\* on_parameters_set(), until stop() removes the callback.
SetPreemption(v) ==
  /\ ExecutorIsFree
  /\ ~(shutting_down /\ pc[Controller] = "idle")
  /\ allow_preemption' = v
  /\ UNCHANGED <<received, goal_state, switches, requests, slots, control>>

\* halt_active_goal(), called by Capability's link timer.
HaltActiveGoal ==
  /\ ExecutorIsFree
  /\ pending' = NoGoal
  /\ goal_halt_requested' = (goal_halt_requested \/ active # NoGoal)
  /\ GotoSettling(Executor, pending, "idle")
  /\ UNCHANGED <<received, goal_state, switches, halt_requested, preempt_requested,
                 allow_preemption, active>>

-------------------------------------------------------------------------------
(* The controller's calls.                                                 *)

EnableGoals ==
  /\ ControllerIsFree
  /\ goals_enabled' = (goals_enabled \/ ~shutting_down)
  /\ UNCHANGED <<received, goal_state, shutting_down, stopping, requests,
                 allow_preemption, slots, control>>

\* disable_goals(), called by a lifecycle transition or by stop(): no new goal,
\* the queued one is taken out, the running one asked to stop.
DisableGoals(for_stop) ==
  /\ ControllerIsFree
  /\ goals_enabled' = FALSE
  /\ stopping' = for_stop
  /\ pending' = NoGoal
  /\ halt_requested' = (halt_requested \/ active # NoGoal)
  /\ GotoSettling(Controller, pending, "wait")
  /\ UNCHANGED <<received, goal_state, shutting_down, goal_halt_requested, preempt_requested,
                 allow_preemption, active>>

\* idle_cv_.wait(), and what follows it under the same lock.
AwaitIdle ==
  /\ pc[Controller] = "wait"
  /\ \/ /\ active = NoGoal
        /\ halt_requested' = FALSE
        /\ Goto(Controller, IF stopping THEN "shutdown" ELSE "idle")
     \/ /\ active # NoGoal
        /\ Goto(Controller, "blocked")
        /\ UNCHANGED halt_requested
  /\ UNCHANGED <<received, goal_state, switches, goal_halt_requested, preempt_requested,
                 allow_preemption, slots, arg, cont>>

\* stop(), after disable_goals().
BeginShutdown ==
  /\ pc[Controller] = "shutdown"
  /\ shutting_down' = TRUE
  /\ Goto(Controller, "notify_all")
  /\ UNCHANGED <<received, goal_state, goals_enabled, stopping, requests, allow_preemption,
                 slots, arg, cont>>

\* cv_.notify_all().
NotifyShutdown ==
  /\ pc[Controller] = "notify_all"
  /\ pc' = [pc EXCEPT ![Controller] = "join",
                      ![Worker] = IF @ = "blocked" THEN "check" ELSE @]
  /\ UNCHANGED <<received, goal_state, switches, requests, allow_preemption, slots, arg, cont>>

\* worker_.join(), then the parameter callback is removed.
JoinWorker ==
  /\ pc[Controller] = "join"
  /\ pc[Worker] = "done"
  /\ Goto(Controller, "idle")
  /\ stopping' = FALSE
  /\ UNCHANGED <<received, goal_state, goals_enabled, shutting_down, requests,
                 allow_preemption, slots, arg, cont>>

-------------------------------------------------------------------------------
(* worker_loop().                                                          *)

\* cv_.wait() and the rest of its critical section: stop, take the queued goal,
\* or block.
TakeGoal ==
  /\ pc[Worker] = "check"
  /\ \/ /\ shutting_down
        /\ pending' = NoGoal
        /\ GotoSettling(Worker, pending, "done")
        /\ UNCHANGED <<active, preempt_requested>>
     \/ /\ ~shutting_down
        /\ pending # NoGoal
        /\ active' = pending
        /\ pending' = NoGoal
        /\ preempt_requested' = FALSE
        /\ GotoWith(Worker, "taken", pending)
        /\ UNCHANGED cont
     \/ /\ ~shutting_down
        /\ pending = NoGoal
        /\ Goto(Worker, "blocked")
        /\ UNCHANGED <<slots, preempt_requested, arg, cont>>
  /\ UNCHANGED <<received, goal_state, switches, halt_requested, goal_halt_requested,
                 allow_preemption>>

\* Canceled by the client before it ever got to run, or handed to on_execute().
StartGoal ==
  /\ pc[Worker] = "taken"
  /\ \/ /\ goal_state[arg[Worker]] = "canceling"
        /\ SetGoal(arg[Worker], "canceled")
        /\ GotoWith(Worker, "finish", NoGoal)
     \/ /\ goal_state[arg[Worker]] # "canceling"
        /\ Goto(Worker, "run")
        /\ UNCHANGED <<goal_state, arg>>
  /\ UNCHANGED <<received, switches, requests, allow_preemption, slots, cont>>

\* on_execute() sets the result: any but CANCELED at any time, CANCELED only when
\* a client asked for it (the contract in the header).
ExecuteSettles(outcome) ==
  /\ pc[Worker] = "run"
  /\ outcome = "canceled" => goal_state[arg[Worker]] = "canceling"
  /\ SetGoal(arg[Worker], outcome)
  /\ GotoSettling(Worker, arg[Worker], "finish")
  /\ UNCHANGED <<received, switches, requests, allow_preemption, slots>>

\* on_execute() returns or throws without having set a result.
ExecuteReturns ==
  /\ pc[Worker] = "run"
  /\ GotoSettling(Worker, arg[Worker], "finish")
  /\ UNCHANGED <<received, goal_state, switches, requests, allow_preemption, slots>>

\* The end of an iteration: nothing is active and the halt of this goal is over.
FinishGoal ==
  /\ pc[Worker] = "finish"
  /\ active' = NoGoal
  /\ goal_halt_requested' = FALSE
  /\ Goto(Worker, "notify")
  /\ UNCHANGED <<received, goal_state, switches, halt_requested, preempt_requested,
                 allow_preemption, pending, arg, cont>>

\* idle_cv_.notify_all().
NotifyIdle ==
  /\ pc[Worker] = "notify"
  /\ pc' = [pc EXCEPT ![Worker] = "check",
                      ![Controller] = IF @ = "blocked" THEN "wait" ELSE @]
  /\ UNCHANGED <<received, goal_state, switches, requests, allow_preemption, slots, arg, cont>>

\* A condition variable may return without having been notified.
SpuriousWakeup(t) ==
  /\ pc[t] = "blocked"
  /\ Goto(t, IF t = Worker THEN "check" ELSE "wait")
  /\ UNCHANGED <<received, goal_state, switches, requests, allow_preemption, slots, arg, cont>>

-------------------------------------------------------------------------------
Environment ==
  \/ ReceiveGoal
  \/ \E g \in Goals : CancelGoal(g)
  \/ \E v \in PreemptionValues : SetPreemption(v)
  \/ HaltActiveGoal
  \/ EnableGoals
  \/ \E for_stop \in BOOLEAN : DisableGoals(for_stop)
  \/ \E t \in {Controller, Worker} : SpuriousWakeup(t)

ExecutorStep ==
  \/ AdmitGoal \/ CheckStillEnabled \/ EnqueueGoal \/ RunAcceptedCallback \/ NotifyWorker
  \/ SettleCheck(Executor) \/ SettleWrite(Executor)

ControllerStep ==
  \/ AwaitIdle \/ BeginShutdown \/ NotifyShutdown \/ JoinWorker
  \/ SettleCheck(Controller) \/ SettleWrite(Controller)

ExecuteStep == ExecuteReturns \/ \E outcome \in Terminal : ExecuteSettles(outcome)

WorkerStep ==
  \/ TakeGoal \/ StartGoal \/ FinishGoal \/ NotifyIdle
  \/ SettleCheck(Worker) \/ SettleWrite(Worker)

Next == Environment \/ ExecutorStep \/ ControllerStep \/ ExecuteStep \/ WorkerStep

Spec == Init /\ [][Next]_vars

\* What a long-running on_execute() polls, and must then return promptly.
AskedToStop ==
  \/ shutting_down \/ halt_requested \/ goal_halt_requested     \* is_shutdown_requested()
  \/ preempt_requested
  \/ pc[Worker] = "run" /\ goal_state[arg[Worker]] = "canceling"

\* The operating system keeps scheduling the threads and an on_execute() that is
\* asked to stop returns. Nothing obliges clients, timers or the controller to act,
\* nor an on_execute() that nobody asks to stop to end.
Fairness ==
  /\ WF_vars(ExecutorStep)
  /\ WF_vars(ControllerStep)
  /\ WF_vars(WorkerStep)
  /\ WF_vars(AskedToStop /\ ExecuteStep)

FairSpec == Spec /\ Fairness

-------------------------------------------------------------------------------
SettleLabels == {"settle", "set_canceled", "set_aborted"}

ExecutorLabels == {"idle", "admit", "accepted", "enqueue", "callback", "notify"} \cup SettleLabels
ControllerLabels == {"idle", "wait", "blocked", "shutdown", "notify_all", "join"} \cup SettleLabels
WorkerLabels ==
  {"check", "blocked", "taken", "run", "finish", "notify", "done"} \cup SettleLabels

\* Type invariant. In particular a thread that is about to use a goal handle
\* holds one.
TypeOK ==
  /\ received \in 0..MaxGoals
  /\ goal_state \in [Goals -> GoalStates]
  /\ goals_enabled \in BOOLEAN /\ shutting_down \in BOOLEAN /\ stopping \in BOOLEAN
  /\ halt_requested \in BOOLEAN /\ goal_halt_requested \in BOOLEAN
  /\ preempt_requested \in BOOLEAN /\ allow_preemption \in BOOLEAN
  /\ active \in GoalOrNone /\ pending \in GoalOrNone
  /\ pc \in [Threads -> ExecutorLabels \cup ControllerLabels \cup WorkerLabels]
  /\ pc[Executor] \in ExecutorLabels
  /\ pc[Controller] \in ControllerLabels
  /\ pc[Worker] \in WorkerLabels
  /\ arg \in [Threads -> GoalOrNone]
  /\ cont \in [Threads -> {"idle", "notify", "wait", "finish", "done"}]
  /\ \A t \in Threads :
       pc[t] \in SettleLabels \cup {"admit", "accepted", "enqueue", "taken", "run"} =>
         arg[t] # NoGoal

\* Every goal whose client still waits for a result is in exactly one pair of
\* hands: the queue, or a local variable of one thread. Nobody forgets a goal
\* (its client would wait forever) and no two threads settle the same one.
OneHolder ==
  /\ \A g \in Goals : goal_state[g] \in Live => g = pending \/ \E t \in Threads : arg[t] = g
  /\ \A t, u \in Threads : arg[t] = arg[u] /\ arg[t] # NoGoal => t = u
  /\ \A t \in Threads : arg[t] = pending => pending = NoGoal

\* No thread ever asks a goal handle for an invalid transition (rclcpp_action
\* would throw, in a thread with no handler): abort() only a goal that has no
\* result yet, canceled() only one whose cancellation was accepted.
SettlesAreLegal ==
  \A t \in Threads :
    /\ pc[t] = "set_aborted" => goal_state[arg[t]] \in Live
    /\ pc[t] = "set_canceled" => goal_state[arg[t]] = "canceling"
    /\ pc[t] \in {"taken", "run"} => goal_state[arg[t]] \in Live

\* A request to stop never outlives its cause, so no goal is stopped for what
\* was meant for another: a halt for disable_goals() while a call is waiting
\* with goals disabled, a halt of the active goal only while one is active, a
\* preemption only for a goal that a newer one followed.
StopRequestsHaveACause ==
  /\ halt_requested =>
       ~goals_enabled /\ pc[Controller] \in SettleLabels \cup {"wait", "blocked"}
  /\ goal_halt_requested => active # NoGoal
  /\ preempt_requested /\ active # NoGoal =>
       \E g \in Goals : g > active /\ goal_state[g] \notin {"unknown", "rejected"}

\* The newest goal wins: a goal starts only if no goal accepted after it has
\* been queued. (One may have been accepted whose handle_accepted() is still
\* before the queue.)
StartsNewest ==
  active' \notin {active, NoGoal} =>
    \A g \in Goals : g > active' /\ goal_state[g] \notin {"unknown", "rejected"} =>
      g = arg[Executor] /\ pc[Executor] \in {"accepted", "enqueue"}

NewestGoalStarts == [][StartsNewest]_vars

\* "Accepted just before goals were disabled: never run it": no goal starts to
\* run while goals are disabled.
StartsEnabled == active' \notin {active, NoGoal} => goals_enabled

NeverStartsDisabled == [][StartsEnabled]_vars

\* disable_goals() "rejects new goals, aborts a queued one and waits for the
\* running one to return": once it has returned, nothing is left of any goal.
DisabledIsQuiet ==
  ~goals_enabled /\ pc[Controller] = "idle" =>
    /\ active = NoGoal /\ pending = NoGoal
    /\ \A g \in Goals : goal_state[g] \notin Live

\* "If preemption is disallowed and a goal is active, new goals are rejected
\* outright", and a burst of goals has only one accepted: a goal is accepted with
\* preemption off only when every goal accepted before has its result.
ExclusiveWithoutPreemption ==
  [][\A g, h \in Goals :
       ~allow_preemption /\ goal_state[g] \notin Live /\ goal_state'[g] \in Live /\ g # h =>
         goal_state'[h] \notin Live]_vars

\* disable_goals() and stop() return, whatever the goals were doing.
CallsReturn == pc[Controller] # "idle" ~> pc[Controller] = "idle"

\* An accepted goal does not stay queued: it starts, is superseded or is
\* settled, even though nothing tells the running goal to end but the
\* preemption request its arrival makes.
QueuedGoalsMove == \A g \in Goals : pending = g ~> pending # g

-------------------------------------------------------------------------------
(* The action server implements the abstract GoalServer.                   *)

\* A goal is waiting for its turn while it is on its way to the queue or in it,
\* running while the worker holds it, dropped when anyone else does.
Waiting(g) ==
  \/ g = pending
  \/ g = arg[Executor] /\ pc[Executor] \in {"accepted", "enqueue"}

Running(g) == g = arg[Worker] /\ active = g

StatusOf(g) ==
  IF goal_state[g] \notin Live THEN goal_state[g]
  ELSE IF Waiting(g) THEN "accepted"
  ELSE IF Running(g) THEN "running" ELSE "dropped"

AbstractStatus == [g \in Goals |-> StatusOf(g)]

Promise == INSTANCE GoalServer WITH status <- AbstractStatus

\* At most one goal runs at a time, in the order they were accepted; a goal is
\* answered once, for good, and succeeds only if it ran.
KeepsPromise == Promise!Spec

===============================================================================
