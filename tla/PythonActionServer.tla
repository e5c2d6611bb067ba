-------------------------- MODULE PythonActionServer --------------------------
(***************************************************************************)
(* ActionServerBase (easyfleet_mission_manager_py): the Python twin of the *)
(* class in module ActionServer, built differently. There is no worker     *)
(* thread: each goal's callbacks run on whatever thread of the             *)
(* MultiThreadedExecutor is free, several at a time, and a goal waits for  *)
(* its turn inside its own execute callback.                               *)
(*                                                                         *)
(* pc[g] is where the callback of goal g is. The controller is whoever     *)
(* calls enable_goals(), disable_goals() and destroy(), also a callback.   *)
(***************************************************************************)
EXTENDS Integers, Sequences, FiniteSets

CONSTANTS
  MaxGoals,           \* how many goals clients send (a bound for TLC)
  Threads,            \* how many threads the executor has
  PreemptionValues    \* the values "<action>.allow_preemption" takes

ASSUME PythonServerAssumption ==
  /\ MaxGoals \in Nat /\ Threads \in Nat
  /\ PreemptionValues \subseteq BOOLEAN /\ PreemptionValues # {}

Goals == 1..MaxGoals     \* numbered as they arrive

VARIABLES
  received,             \* number of goal requests so far
  goal_state,           \* rclpy's state of each goal
  pc,                   \* where the goal's callback is
  to_mark,              \* the goals its handle_accepted() will mark
  waiting, active,      \* _waiting_handles and _active_handles
  preempted,            \* the goals marked _easyfleet_preempted
  goals_enabled, halt_requested, goal_halt_requested, shutting_down, allow_preemption,
  controller,           \* the controller: "idle", or "disabling"/"destroying"
  entered               \* the goals in the order they entered the table (history)

table == <<waiting, active, preempted>>
switches == <<goals_enabled, halt_requested, goal_halt_requested, shutting_down>>
vars == <<received, goal_state, pc, to_mark, table, switches, allow_preemption, controller, entered>>

Live == {"accepted", "executing", "canceling"}
Terminal == {"succeeded", "canceled", "aborted"}

Init ==
  /\ received = 0
  /\ goal_state = [g \in Goals |-> "unknown"]
  /\ pc = [g \in Goals |-> "none"]
  /\ to_mark = [g \in Goals |-> {}]
  /\ waiting = {} /\ active = {} /\ preempted = {}
  /\ goals_enabled = TRUE /\ shutting_down = FALSE
  /\ halt_requested = FALSE /\ goal_halt_requested = FALSE
  /\ allow_preemption \in PreemptionValues
  /\ controller = "idle"
  /\ entered = <<>>

SetGoal(g, s) == goal_state' = [goal_state EXCEPT ![g] = s]
GoTo(g, place) == pc' = [pc EXCEPT ![g] = place]

\* The callbacks that occupy a thread. A goal between execute() and its execute
\* callback is a task of the executor and occupies none.
Occupied == {g \in Goals : pc[g] \notin {"none", "queued", "over"}}

ThreadIsFree ==
  Cardinality(Occupied) + (IF controller = "idle" THEN 0 ELSE 1) < Threads

-------------------------------------------------------------------------------
(* Plausible mistakes, each for the definition it is named after.          *)

\* is_shutdown_requested() is all that is looked at.
Stopped_SwitchIgnored(g) == shutting_down \/ halt_requested \/ g \in preempted

\* A goal enters the table without marking the one that runs.
InTheWay_WaitingOnly == waiting

\* A goal takes its turn without looking whether another one runs.
HasTurn_Unchecked(g) == TRUE

-------------------------------------------------------------------------------
(* A goal's first callback: _handle_goal() and, if accepted,               *)
(* _handle_accepted(), on one thread.                                      *)

\* _handle_goal(), first critical section.
ReceiveGoal ==
  LET g == received + 1
  IN /\ ThreadIsFree /\ ~shutting_down
     /\ received < MaxGoals
     /\ received' = g
     /\ \/ goals_enabled /\ GoTo(g, "validating") /\ UNCHANGED goal_state
        \/ ~goals_enabled /\ SetGoal(g, "rejected") /\ GoTo(g, "over")
     /\ UNCHANGED <<to_mark, table, switches, allow_preemption, controller, entered>>

\* on_goal_received() refuses the goal, or throws.
RefuseContent(g) ==
  /\ pc[g] = "validating"
  /\ SetGoal(g, "rejected") /\ GoTo(g, "over")
  /\ UNCHANGED <<received, to_mark, table, switches, allow_preemption, controller, entered>>

Busy == active # {} \/ waiting # {}

\* The second critical section. The goal is accepted, but not yet in the table.
AdmitGoal(g) ==
  /\ pc[g] = "validating"
  /\ IF goals_enabled /\ (Busy => allow_preemption)
     THEN SetGoal(g, "accepted") /\ GoTo(g, "accepted")
     ELSE SetGoal(g, "rejected") /\ GoTo(g, "over")
  /\ UNCHANGED <<received, to_mark, table, switches, allow_preemption, controller, entered>>

\* The goals a new one makes way through.
InTheWay == active \cup waiting

\* _handle_accepted(), its critical section.
EnterTable(g) ==
  /\ pc[g] = "accepted"
  /\ to_mark' = [to_mark EXCEPT ![g] = InTheWay]
  /\ waiting' = waiting \cup {g}
  /\ entered' = Append(entered, g)
  /\ GoTo(g, "marking")
  /\ UNCHANGED <<received, goal_state, active, preempted, switches, allow_preemption, controller>>

\* The accepted callback and then, one by one, the marks: without the lock.
MarkPreempted(g, h) ==
  /\ pc[g] = "marking" /\ h \in to_mark[g]
  /\ preempted' = preempted \cup {h}
  /\ to_mark' = [to_mark EXCEPT ![g] = @ \ {h}]
  /\ UNCHANGED <<received, goal_state, pc, waiting, active, switches, allow_preemption,
                 controller, entered>>

\* goal_handle.execute(): EXECUTING, unless canceled already, and a task.
Execute(g) ==
  /\ pc[g] = "marking" /\ to_mark[g] = {}
  /\ SetGoal(g, IF goal_state[g] = "canceling" THEN "canceling" ELSE "executing")
  /\ GoTo(g, "queued")
  /\ UNCHANGED <<received, to_mark, table, switches, allow_preemption, controller, entered>>

-------------------------------------------------------------------------------
(* A goal's second callback, _dispatch_execute().                          *)

\* A thread takes the task.
Dispatch(g) ==
  /\ pc[g] = "queued" /\ ThreadIsFree
  /\ GoTo(g, "turn")
  /\ UNCHANGED <<received, goal_state, to_mark, table, switches, allow_preemption, controller,
                 entered>>

Stopped(g) == shutting_down \/ halt_requested \/ ~goals_enabled \/ g \in preempted

HasTurn(g) == active = {}

\* _wait_for_turn() polls: nothing has to notify it.
TakeTurn(g) ==
  /\ pc[g] = "turn"
  /\ Stopped(g) \/ HasTurn(g)
  /\ waiting' = waiting \ {g}
  /\ active' = IF Stopped(g) THEN active ELSE active \cup {g}
  /\ GoTo(g, IF Stopped(g) THEN "refused" ELSE "taken")
  /\ UNCHANGED <<received, goal_state, to_mark, preempted, switches, allow_preemption,
                 controller, entered>>

\* It must not run: canceled if a client asked for that, else aborted, also when
\* the client asks now.
RefuseTurn(g) ==
  /\ pc[g] = "refused"
  /\ \/ goal_state[g] = "canceling" /\ SetGoal(g, "canceled") /\ GoTo(g, "over")
     \/ goal_state[g] # "canceling" /\ GoTo(g, "aborting") /\ UNCHANGED goal_state
  /\ UNCHANGED <<received, to_mark, table, switches, allow_preemption, controller, entered>>

AbortUnstarted(g) ==
  /\ pc[g] = "aborting"
  /\ SetGoal(g, "aborted") /\ GoTo(g, "over")
  /\ UNCHANGED <<received, to_mark, table, switches, allow_preemption, controller, entered>>

\* Canceled before it got to run, or handed to on_execute().
StartGoal(g) ==
  /\ pc[g] = "taken"
  /\ \/ goal_state[g] = "canceling" /\ SetGoal(g, "canceled") /\ GoTo(g, "settled")
     \/ goal_state[g] # "canceling" /\ GoTo(g, "running") /\ UNCHANGED goal_state
  /\ UNCHANGED <<received, to_mark, table, switches, allow_preemption, controller, entered>>

\* on_execute() returns with the goal settled, canceled only when that was asked
\* for; one it left unsettled, or threw out of, is aborted.
ExecuteSettles(g, outcome) ==
  /\ pc[g] = "running"
  /\ outcome = "canceled" => goal_state[g] = "canceling"
  /\ SetGoal(g, outcome) /\ GoTo(g, "settled")
  /\ UNCHANGED <<received, to_mark, table, switches, allow_preemption, controller, entered>>

\* The finally clause.
EndGoal(g) ==
  /\ pc[g] = "settled"
  /\ active' = active \ {g}
  /\ goal_halt_requested' = FALSE
  /\ GoTo(g, "over")
  /\ UNCHANGED <<received, goal_state, to_mark, waiting, preempted, goals_enabled,
                 halt_requested, shutting_down, allow_preemption, controller, entered>>

-------------------------------------------------------------------------------
(* Other callbacks, and the controller.                                    *)

\* A cancel request that _handle_cancel() accepts.
CancelGoal(g) ==
  /\ ThreadIsFree /\ ~shutting_down
  /\ goal_state[g] \in {"accepted", "executing"}
  /\ SetGoal(g, "canceling")
  /\ UNCHANGED <<received, pc, to_mark, table, switches, allow_preemption, controller, entered>>

SetPreemption(v) ==
  /\ ThreadIsFree /\ ~shutting_down
  /\ allow_preemption' = v
  /\ UNCHANGED <<received, goal_state, pc, to_mark, table, switches, controller, entered>>

HaltActiveGoal ==
  /\ ThreadIsFree
  /\ preempted' = preempted \cup waiting /\ waiting' = {}
  /\ goal_halt_requested' = (goal_halt_requested \/ active # {})
  /\ UNCHANGED <<received, goal_state, pc, to_mark, active, goals_enabled, halt_requested,
                 shutting_down, allow_preemption, controller, entered>>

EnableGoals ==
  /\ controller = "idle" /\ ThreadIsFree
  /\ goals_enabled' = (goals_enabled \/ ~shutting_down)
  /\ UNCHANGED <<received, goal_state, pc, to_mark, table, halt_requested, goal_halt_requested,
                 shutting_down, allow_preemption, controller, entered>>

\* disable_goals(), or the one in destroy(): with nothing active it returns at
\* once, as AwaitIdle says.
DisableGoals(next) ==
  /\ controller = "idle" /\ ~shutting_down /\ ThreadIsFree
  /\ goals_enabled' = FALSE
  /\ preempted' = preempted \cup waiting /\ waiting' = {}
  /\ halt_requested' = (active # {})
  /\ controller' = next
  /\ UNCHANGED <<received, goal_state, pc, to_mark, active, goal_halt_requested, shutting_down,
                 allow_preemption, entered>>

\* The end of disable_goals() and, in destroy(), what follows it.
AwaitIdle ==
  /\ controller # "idle" /\ active = {}
  /\ halt_requested' = FALSE
  /\ shutting_down' = (shutting_down \/ controller = "destroying")
  /\ controller' = "idle"
  /\ UNCHANGED <<received, goal_state, pc, to_mark, table, goals_enabled, goal_halt_requested,
                 allow_preemption, entered>>

-------------------------------------------------------------------------------
Environment ==
  \/ ReceiveGoal \/ HaltActiveGoal \/ EnableGoals
  \/ \E g \in Goals : CancelGoal(g)
  \/ \E v \in PreemptionValues : SetPreemption(v)
  \/ \E next \in {"disabling", "destroying"} : DisableGoals(next)

\* What the callback of g does next when it does not wait for anything outside.
CallbackStep(g) ==
  \/ RefuseContent(g) \/ AdmitGoal(g) \/ EnterTable(g) \/ Execute(g)
  \/ \E h \in Goals : MarkPreempted(g, h)
  \/ TakeTurn(g) \/ RefuseTurn(g) \/ AbortUnstarted(g) \/ StartGoal(g) \/ EndGoal(g)

ExecuteStep(g) == \E outcome \in Terminal : ExecuteSettles(g, outcome)

Next ==
  \/ Environment \/ AwaitIdle
  \/ \E g \in Goals : CallbackStep(g) \/ Dispatch(g) \/ ExecuteStep(g)

Spec == Init /\ [][Next]_vars

\* What an on_execute() polls.
AskedToStop(g) ==
  \/ shutting_down \/ halt_requested \/ goal_halt_requested
  \/ g \in preempted \/ goal_state[g] = "canceling"

\* Threads run, the executor comes to every task (other callbacks compete for its
\* threads), and an on_execute() that is asked to stop returns.
Fairness ==
  /\ WF_vars(AwaitIdle)
  /\ \A g \in Goals :
       /\ WF_vars(CallbackStep(g)) /\ SF_vars(Dispatch(g))
       /\ WF_vars(AskedToStop(g) /\ ExecuteStep(g))

FairSpec == Spec /\ Fairness

-------------------------------------------------------------------------------
Places == {"none", "validating", "accepted", "marking", "queued", "turn", "refused", "aborting",
           "taken", "running", "settled", "over"}

TypeOK ==
  /\ received \in 0..MaxGoals
  /\ goal_state \in [Goals -> {"unknown", "rejected"} \cup Live \cup Terminal]
  /\ pc \in [Goals -> Places]
  /\ to_mark \in [Goals -> SUBSET Goals]
  /\ waiting \subseteq Goals /\ active \subseteq Goals /\ preempted \subseteq Goals
  /\ goals_enabled \in BOOLEAN /\ halt_requested \in BOOLEAN
  /\ goal_halt_requested \in BOOLEAN /\ shutting_down \in BOOLEAN
  /\ allow_preemption \in BOOLEAN
  /\ controller \in {"idle", "disabling", "destroying"}
  /\ entered \in Seq(Goals)

\* "disable_goals() rejects new goals, aborts waiting ones and waits for the running
\* one to return": once it, or destroy(), has returned, no goal runs, or is about
\* to, until goals are enabled again. It did not wait for the goals whose tasks the
\* executor had not begun, nor for those that were accepted and not in the table.
DisabledMeansIdle ==
  controller = "idle" /\ ~goals_enabled =>
    \A g \in Goals : pc[g] \notin {"taken", "running", "settled"}

\* A goal that got a place in the table starts or is settled: with only the marks
\* of a newer goal to tell the running one to end, and on the executor's threads,
\* which goals that wait for their turn occupy.
WaitingGoalsMove ==
  \A g \in Goals : pc[g] \in {"marking", "queued", "turn"} ~> pc[g] \in {"taken", "refused"}

\* "Two goals arriving back to back must not both be accepted when preemption is
\* off." They may: both can be admitted before either is in the table.
ExclusiveWithoutPreemption ==
  [][\A g, h \in Goals :
       /\ ~allow_preemption /\ g # h
       /\ goal_state[g] \notin Live /\ goal_state'[g] \in Live
       => goal_state[h] \notin Live]_vars

-------------------------------------------------------------------------------
(* The Python server implements GoalServer too. Its goals are numbered in   *)
(* the order in which they enter the table, which need not be the order in  *)
(* which they were received.                                                *)

StatusOf(g) ==
  IF goal_state[g] \notin Live THEN goal_state[g]
  ELSE IF g \in active THEN "running"
  ELSE IF g \in preempted \/ pc[g] \in {"refused", "aborting"} THEN "dropped" ELSE "accepted"

AbstractStatus ==
  [n \in Goals |-> IF n <= Len(entered) THEN StatusOf(entered[n]) ELSE "unknown"]

Promise == INSTANCE GoalServer WITH status <- AbstractStatus

\* At most one goal runs at a time, in the order they entered the table; a goal is
\* answered once, for good, and succeeds only if it ran.
KeepsPromise == Promise!Spec

===============================================================================
