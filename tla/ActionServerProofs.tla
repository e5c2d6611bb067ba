-------------------------- MODULE ActionServerProofs --------------------------
(***************************************************************************)
(* Proofs that ActionServer has its safety properties for any number of    *)
(* goals, any values of the preemption parameter and either threading, and *)
(* that it implements GoalServer.                                          *)
(***************************************************************************)
EXTENDS ActionServer, TLAPS

(***************************************************************************)
(* The inductive invariant, in layers, each preserved given those     *)
(* before it. OneHolder alone is not inductive: that a goal is not lost or *)
(* doubled rests on which local variables are dead at each point of each   *)
(* thread (HandlesInHand), on where settle_unstarted() returns to          *)
(* (ReturnPoints), on active_handle_ following the worker                  *)
(* (ActiveFollowsWorker) and on goals being newer than all those received  *)
(* before them (Order).                                                    *)
(***************************************************************************)

\* A thread outside the lines between taking a handle and letting go of it
\* holds none.
HandlesInHand ==
  /\ pc[Executor] \in {"idle", "notify"} => arg[Executor] = NoGoal
  /\ pc[Controller] \notin SettleLabels => arg[Controller] = NoGoal
  /\ pc[Worker] \notin SettleLabels \cup {"taken", "run"} => arg[Worker] = NoGoal

ReturnPoints ==
  /\ pc[Executor] \in SettleLabels => cont[Executor] \in {"idle", "notify"}
  /\ pc[Controller] \in SettleLabels => cont[Controller] = "wait"
  /\ pc[Worker] \in SettleLabels =>
       \/ cont[Worker] = "finish"
       \/ cont[Worker] = "done" /\ shutting_down

\* active_handle_ is the goal the worker runs, from the moment it takes it to
\* the end of the iteration.
ActiveFollowsWorker ==
  /\ pc[Worker] \in {"check", "blocked", "notify", "done"} => active = NoGoal
  /\ pc[Worker] \in {"taken", "run"} => active = arg[Worker]
  /\ pc[Worker] \in SettleLabels =>
       active = IF cont[Worker] = "finish" THEN arg[Worker] ELSE NoGoal
  /\ pc[Worker] = "finish" => active # NoGoal

\* Goals not received yet are unknown and in nobody's hands; the one being
\* received is the newest.
Order ==
  /\ \A g \in Goals : g > received => goal_state[g] = "unknown"
  /\ \A t \in Threads : arg[t] <= received
  /\ active <= received /\ pending <= received
  /\ pc[Executor] \in {"admit", "accepted", "enqueue"} =>
       /\ arg[Executor] = received
       /\ active # received /\ pending # received

\* A goal being received has no state yet, one that is queued or on its way
\* there has no result yet.
QueueIsLive ==
  /\ pc[Executor] = "admit" => goal_state[arg[Executor]] = "unknown"
  /\ pending # NoGoal => goal_state[pending] \in Live
  /\ pc[Executor] \in {"accepted", "enqueue"} => goal_state[arg[Executor]] \in Live

\* The queued goal is the newest one, but for one on its way to the queue.
QueueIsNewest ==
  /\ pending # NoGoal =>
       /\ active < pending
       /\ \A g \in Goals : g > pending /\ goal_state[g] \notin {"unknown", "rejected"} =>
            g = arg[Executor] /\ pc[Executor] \in {"accepted", "enqueue"}
  /\ pc[Executor] = "accepted" /\ ~goals_enabled => pending = NoGoal

\* Goals stay disabled while a call of disable_goals() or stop() is under way,
\* and once the server is stopped.
DisabledWhileWaiting ==
  (pc[Controller] # "idle" \/ shutting_down) => ~goals_enabled

HandInv == HandlesInHand /\ ReturnPoints /\ ActiveFollowsWorker
ControlInv == TypeOK /\ HandInv
HolderInv == OneHolder /\ SettlesAreLegal /\ QueueIsLive
RequestInv == QueueIsNewest /\ DisabledWhileWaiting /\ StopRequestsHaveACause

IInv == ControlInv /\ Order /\ HolderInv /\ RequestInv

\* With one thread for callbacks and calls, no goal is left when goals are disabled.
SharedInv ==
  SharedThread =>
    /\ pc[Executor] = "idle" \/ pc[Controller] = "idle"
    /\ ~goals_enabled =>
         /\ pc[Executor] = "idle"
         /\ pending = NoGoal
         /\ pc[Controller] \notin SettleLabels \cup {"wait", "blocked"} => active = NoGoal
         /\ pc[Worker] \in SettleLabels => cont[Worker] = "finish"

-------------------------------------------------------------------------------
USE ConstantsAssumption
    DEF Goals, NoGoal, GoalOrNone, Threads, Executor, Controller, Worker, Live, Terminal,
        GoalStates, SettleLabels, switches, requests, slots, control, SetGoal, Goto, GotoWith,
        GotoSettling

LEMMA InitInv == Init => IInv
<1> SUFFICES ASSUME Init PROVE IInv
    OBVIOUS
<1> USE DEF Init
<1>1. TypeOK
  <2>1. /\ goals_enabled \in BOOLEAN /\ shutting_down \in BOOLEAN /\ stopping \in BOOLEAN
        /\ halt_requested \in BOOLEAN /\ goal_halt_requested \in BOOLEAN
        /\ preempt_requested \in BOOLEAN
        BY Zenon
  <2> QED BY <2>1 DEF TypeOK, ExecutorLabels, ControllerLabels, WorkerLabels
<1>2. HandlesInHand /\ ReturnPoints /\ ActiveFollowsWorker /\ Order
      BY DEF HandlesInHand, ReturnPoints, ActiveFollowsWorker, Order
<1>3. HolderInv /\ RequestInv
      BY DEF HolderInv, OneHolder, SettlesAreLegal, QueueIsLive, RequestInv, QueueIsNewest,
             DisabledWhileWaiting, StopRequestsHaveACause
<1> QED BY <1>1, <1>2, <1>3 DEF IInv, ControlInv, HandInv

\* Types, and where settle_unstarted() returns to.
LEMMA TypeStep == TypeOK /\ ReturnPoints /\ [Next]_vars => TypeOK'
<1> SUFFICES ASSUME TypeOK /\ ReturnPoints, [Next]_vars PROVE TypeOK'
    OBVIOUS
<1> USE DEF TypeOK, ExecutorLabels, ControllerLabels, WorkerLabels, ReturnPoints
<1>1. CASE ReceiveGoal BY <1>1 DEF ReceiveGoal, ExecutorIsFree
<1>2. CASE AdmitGoal BY <1>2, SMTT(30) DEF AdmitGoal, Busy
<1>3. CASE CheckStillEnabled BY <1>3 DEF CheckStillEnabled
<1>4. CASE EnqueueGoal BY <1>4 DEF EnqueueGoal
<1>5. CASE RunAcceptedCallback BY <1>5 DEF RunAcceptedCallback
<1>6. CASE NotifyWorker BY <1>6 DEF NotifyWorker
<1>7. ASSUME NEW g \in Goals, CancelGoal(g) PROVE TypeOK' BY <1>7 DEF CancelGoal, ExecutorIsFree
<1>8. ASSUME NEW v \in PreemptionValues, SetPreemption(v) PROVE TypeOK'
       BY <1>8 DEF SetPreemption, ExecutorIsFree
<1>9. CASE HaltActiveGoal BY <1>9 DEF HaltActiveGoal, ExecutorIsFree
<1>10. CASE EnableGoals BY <1>10 DEF EnableGoals, ControllerIsFree
<1>11. ASSUME NEW b \in BOOLEAN, DisableGoals(b) PROVE TypeOK'
  <2>1. goals_enabled' \in BOOLEAN
        BY <1>11, Zenon DEF DisableGoals
  <2> QED BY <1>11, <2>1 DEF DisableGoals, ControllerIsFree
<1>12. CASE AwaitIdle
  <2>1. halt_requested' \in BOOLEAN
        BY <1>12, Zenon DEF AwaitIdle, TypeOK
  <2> QED BY <1>12, <2>1 DEF AwaitIdle
<1>13. CASE BeginShutdown BY <1>13 DEF BeginShutdown
<1>14. CASE NotifyShutdown BY <1>14 DEF NotifyShutdown
<1>15. CASE JoinWorker
  <2>1. stopping' \in BOOLEAN
        BY <1>15, Zenon DEF JoinWorker
  <2> QED BY <1>15, <2>1 DEF JoinWorker
<1>16. CASE TakeGoal
  <2>1. preempt_requested' \in BOOLEAN
        BY <1>16, Zenon DEF TakeGoal, TypeOK
  <2> QED BY <1>16, <2>1 DEF TakeGoal
<1>17. CASE StartGoal BY <1>17 DEF StartGoal
<1>18. ASSUME NEW o \in Terminal, ExecuteSettles(o) PROVE TypeOK' BY <1>18 DEF ExecuteSettles
<1>19. CASE ExecuteReturns BY <1>19 DEF ExecuteReturns
<1>20. CASE FinishGoal
  <2>1. goal_halt_requested' \in BOOLEAN
        BY <1>20, Zenon DEF FinishGoal
  <2> QED BY <1>20, <2>1 DEF FinishGoal
<1>21. CASE NotifyIdle BY <1>21 DEF NotifyIdle
<1>22. ASSUME NEW t \in {Controller, Worker}, SpuriousWakeup(t) PROVE TypeOK'
       BY <1>22 DEF SpuriousWakeup
<1>23. ASSUME NEW t \in Threads, SettleCheck(t) PROVE TypeOK' BY <1>23 DEF SettleCheck
<1>24. ASSUME NEW t \in Threads, SettleWrite(t) PROVE TypeOK' BY <1>24 DEF SettleWrite
<1>25. CASE UNCHANGED vars BY <1>25 DEF vars, control
<1> QED
    BY <1>1, <1>2, <1>3, <1>4, <1>5, <1>6, <1>7, <1>8, <1>9, <1>10, <1>11, <1>12, <1>13,
       <1>14, <1>15, <1>16, <1>17, <1>18, <1>19, <1>20, <1>21, <1>22, <1>23, <1>24, <1>25
    DEF Next, Environment, ExecutorStep, ControllerStep, ExecuteStep, WorkerStep

\* Dead handles, return points, the active handle.
LEMMA HandStep == TypeOK /\ HandInv /\ [Next]_vars => HandInv'
<1> SUFFICES ASSUME TypeOK /\ HandInv, [Next]_vars PROVE HandInv'
    OBVIOUS
<1> USE DEF TypeOK, HandInv, HandlesInHand, ReturnPoints, ActiveFollowsWorker
<1>1. CASE ReceiveGoal BY <1>1 DEF ReceiveGoal, ExecutorIsFree
<1>2. CASE AdmitGoal BY <1>2 DEF AdmitGoal, Busy
<1>3. CASE CheckStillEnabled BY <1>3 DEF CheckStillEnabled
<1>4. CASE EnqueueGoal BY <1>4 DEF EnqueueGoal
<1>5. CASE RunAcceptedCallback BY <1>5 DEF RunAcceptedCallback
<1>6. CASE NotifyWorker BY <1>6 DEF NotifyWorker
<1>7. ASSUME NEW g \in Goals, CancelGoal(g) PROVE HandInv'
       BY <1>7 DEF CancelGoal, ExecutorIsFree
<1>8. ASSUME NEW v \in PreemptionValues, SetPreemption(v) PROVE HandInv'
       BY <1>8 DEF SetPreemption, ExecutorIsFree
<1>9. CASE HaltActiveGoal BY <1>9 DEF HaltActiveGoal, ExecutorIsFree
<1>10. CASE EnableGoals BY <1>10 DEF EnableGoals, ControllerIsFree
<1>11. ASSUME NEW b \in BOOLEAN, DisableGoals(b) PROVE HandInv'
       BY <1>11 DEF DisableGoals, ControllerIsFree
<1>12. CASE AwaitIdle BY <1>12 DEF AwaitIdle
<1>13. CASE BeginShutdown BY <1>13 DEF BeginShutdown
<1>14. CASE NotifyShutdown BY <1>14 DEF NotifyShutdown
<1>15. CASE JoinWorker BY <1>15 DEF JoinWorker
<1>16. CASE TakeGoal BY <1>16 DEF TakeGoal
<1>17. CASE StartGoal BY <1>17 DEF StartGoal
<1>18. ASSUME NEW o \in Terminal, ExecuteSettles(o) PROVE HandInv' BY <1>18 DEF ExecuteSettles
<1>19. CASE ExecuteReturns BY <1>19 DEF ExecuteReturns
<1>20. CASE FinishGoal BY <1>20 DEF FinishGoal
<1>21. CASE NotifyIdle BY <1>21 DEF NotifyIdle
<1>22. ASSUME NEW t \in {Controller, Worker}, SpuriousWakeup(t) PROVE HandInv'
       BY <1>22 DEF SpuriousWakeup
<1>23. ASSUME NEW t \in Threads, SettleCheck(t) PROVE HandInv' BY <1>23 DEF SettleCheck
<1>24. ASSUME NEW t \in Threads, SettleWrite(t) PROVE HandInv' BY <1>24 DEF SettleWrite
<1>25. CASE UNCHANGED vars BY <1>25 DEF vars, control
<1> QED
    BY <1>1, <1>2, <1>3, <1>4, <1>5, <1>6, <1>7, <1>8, <1>9, <1>10, <1>11, <1>12, <1>13,
       <1>14, <1>15, <1>16, <1>17, <1>18, <1>19, <1>20, <1>21, <1>22, <1>23, <1>24, <1>25
    DEF Next, Environment, ExecutorStep, ControllerStep, ExecuteStep, WorkerStep

\* Goals are received in order.
LEMMA OrderStep == ControlInv /\ Order /\ [Next]_vars => Order'
<1> SUFFICES ASSUME ControlInv /\ Order, [Next]_vars PROVE Order'
    OBVIOUS
<1> USE DEF ControlInv, TypeOK, HandInv, HandlesInHand, Order
<1>1. CASE ReceiveGoal BY <1>1 DEF ReceiveGoal, ExecutorIsFree
<1>2. CASE AdmitGoal BY <1>2 DEF AdmitGoal, Busy
<1>3. CASE CheckStillEnabled BY <1>3 DEF CheckStillEnabled
<1>4. CASE EnqueueGoal BY <1>4 DEF EnqueueGoal
<1>5. CASE RunAcceptedCallback BY <1>5 DEF RunAcceptedCallback
<1>6. CASE NotifyWorker BY <1>6 DEF NotifyWorker
<1>7. ASSUME NEW g \in Goals, CancelGoal(g) PROVE Order' BY <1>7 DEF CancelGoal, ExecutorIsFree
<1>8. ASSUME NEW v \in PreemptionValues, SetPreemption(v) PROVE Order'
       BY <1>8 DEF SetPreemption, ExecutorIsFree
<1>9. CASE HaltActiveGoal BY <1>9 DEF HaltActiveGoal, ExecutorIsFree
<1>10. CASE EnableGoals BY <1>10 DEF EnableGoals, ControllerIsFree
<1>11. ASSUME NEW b \in BOOLEAN, DisableGoals(b) PROVE Order'
       BY <1>11 DEF DisableGoals, ControllerIsFree
<1>12. CASE AwaitIdle BY <1>12 DEF AwaitIdle
<1>13. CASE BeginShutdown BY <1>13 DEF BeginShutdown
<1>14. CASE NotifyShutdown BY <1>14 DEF NotifyShutdown
<1>15. CASE JoinWorker BY <1>15 DEF JoinWorker
<1>16. CASE TakeGoal BY <1>16 DEF TakeGoal
<1>17. CASE StartGoal BY <1>17 DEF StartGoal
<1>18. ASSUME NEW o \in Terminal, ExecuteSettles(o) PROVE Order' BY <1>18 DEF ExecuteSettles
<1>19. CASE ExecuteReturns BY <1>19 DEF ExecuteReturns
<1>20. CASE FinishGoal BY <1>20 DEF FinishGoal
<1>21. CASE NotifyIdle BY <1>21 DEF NotifyIdle
<1>22. ASSUME NEW t \in {Controller, Worker}, SpuriousWakeup(t) PROVE Order'
       BY <1>22 DEF SpuriousWakeup
<1>23. ASSUME NEW t \in Threads, SettleCheck(t) PROVE Order' BY <1>23 DEF SettleCheck
<1>24. ASSUME NEW t \in Threads, SettleWrite(t) PROVE Order' BY <1>24 DEF SettleWrite
<1>25. CASE UNCHANGED vars BY <1>25 DEF vars, control
<1> QED
    BY <1>1, <1>2, <1>3, <1>4, <1>5, <1>6, <1>7, <1>8, <1>9, <1>10, <1>11, <1>12, <1>13,
       <1>14, <1>15, <1>16, <1>17, <1>18, <1>19, <1>20, <1>21, <1>22, <1>23, <1>24, <1>25
    DEF Next, Environment, ExecutorStep, ControllerStep, ExecuteStep, WorkerStep

\* Nobody loses, doubles or mishandles a goal.
LEMMA HolderStep == ControlInv /\ Order /\ HolderInv /\ [Next]_vars => HolderInv'
<1> SUFFICES ASSUME ControlInv /\ Order /\ HolderInv, [Next]_vars PROVE HolderInv'
    OBVIOUS
<1> USE DEF ControlInv, TypeOK, HandInv, HandlesInHand, ReturnPoints, ActiveFollowsWorker,
            Order, HolderInv, OneHolder, SettlesAreLegal, QueueIsLive
<1>1. CASE ReceiveGoal BY <1>1 DEF ReceiveGoal, ExecutorIsFree
<1>2. CASE AdmitGoal BY <1>2 DEF AdmitGoal, Busy
<1>3. CASE CheckStillEnabled BY <1>3 DEF CheckStillEnabled
<1>4. CASE EnqueueGoal BY <1>4 DEF EnqueueGoal
<1>5. CASE RunAcceptedCallback BY <1>5 DEF RunAcceptedCallback
<1>6. CASE NotifyWorker BY <1>6 DEF NotifyWorker
<1>7. ASSUME NEW g \in Goals, CancelGoal(g) PROVE HolderInv'
       BY <1>7 DEF CancelGoal, ExecutorIsFree
<1>8. ASSUME NEW v \in PreemptionValues, SetPreemption(v) PROVE HolderInv'
       BY <1>8 DEF SetPreemption, ExecutorIsFree
<1>9. CASE HaltActiveGoal BY <1>9 DEF HaltActiveGoal, ExecutorIsFree
<1>10. CASE EnableGoals BY <1>10 DEF EnableGoals, ControllerIsFree
<1>11. ASSUME NEW b \in BOOLEAN, DisableGoals(b) PROVE HolderInv'
       BY <1>11, SMTT(30) DEF DisableGoals, ControllerIsFree
<1>12. CASE AwaitIdle BY <1>12 DEF AwaitIdle
<1>13. CASE BeginShutdown BY <1>13 DEF BeginShutdown
<1>14. CASE NotifyShutdown BY <1>14 DEF NotifyShutdown
<1>15. CASE JoinWorker BY <1>15 DEF JoinWorker
<1>16. CASE TakeGoal BY <1>16 DEF TakeGoal
<1>17. CASE StartGoal BY <1>17 DEF StartGoal
<1>18. ASSUME NEW o \in Terminal, ExecuteSettles(o) PROVE HolderInv' BY <1>18 DEF ExecuteSettles
<1>19. CASE ExecuteReturns BY <1>19 DEF ExecuteReturns
<1>20. CASE FinishGoal BY <1>20 DEF FinishGoal
<1>21. CASE NotifyIdle BY <1>21 DEF NotifyIdle
<1>22. ASSUME NEW t \in {Controller, Worker}, SpuriousWakeup(t) PROVE HolderInv'
       BY <1>22 DEF SpuriousWakeup
<1>23. ASSUME NEW t \in Threads, SettleCheck(t) PROVE HolderInv' BY <1>23 DEF SettleCheck
<1>24. ASSUME NEW t \in Threads, SettleWrite(t) PROVE HolderInv' BY <1>24 DEF SettleWrite
<1>25. CASE UNCHANGED vars BY <1>25 DEF vars, control
<1> QED
    BY <1>1, <1>2, <1>3, <1>4, <1>5, <1>6, <1>7, <1>8, <1>9, <1>10, <1>11, <1>12, <1>13,
       <1>14, <1>15, <1>16, <1>17, <1>18, <1>19, <1>20, <1>21, <1>22, <1>23, <1>24, <1>25
    DEF Next, Environment, ExecutorStep, ControllerStep, ExecuteStep, WorkerStep

\* The queue, the stop requests and what they are for.
LEMMA RequestStep == ControlInv /\ Order /\ HolderInv /\ RequestInv /\ [Next]_vars => RequestInv'
<1> SUFFICES ASSUME ControlInv /\ Order /\ HolderInv /\ RequestInv, [Next]_vars PROVE RequestInv'
    OBVIOUS
<1> USE DEF ControlInv, TypeOK, HandInv, HandlesInHand, ReturnPoints, ActiveFollowsWorker,
            Order, HolderInv, OneHolder, SettlesAreLegal, QueueIsLive, RequestInv,
            QueueIsNewest, DisabledWhileWaiting, StopRequestsHaveACause
<1>1. CASE ReceiveGoal BY <1>1 DEF ReceiveGoal, ExecutorIsFree
<1>2. CASE AdmitGoal
  <2>1. QueueIsNewest' BY <1>2 DEF AdmitGoal
  <2>2. DisabledWhileWaiting' BY <1>2 DEF AdmitGoal
  <2>3. StopRequestsHaveACause'
    <3>1. \A g \in Goals : goal_state[g] \notin {"unknown", "rejected"} =>
            goal_state'[g] = goal_state[g]
          BY <1>2 DEF AdmitGoal
    <3>2. UNCHANGED <<requests, active, goals_enabled>> /\ pc'[Controller] = pc[Controller]
          BY <1>2 DEF AdmitGoal
    <3> QED BY <3>1, <3>2
  <2> QED BY <2>1, <2>2, <2>3
<1>3. CASE CheckStillEnabled BY <1>3 DEF CheckStillEnabled
<1>4. CASE EnqueueGoal BY <1>4 DEF EnqueueGoal
<1>5. CASE RunAcceptedCallback BY <1>5 DEF RunAcceptedCallback
<1>6. CASE NotifyWorker BY <1>6 DEF NotifyWorker
<1>7. ASSUME NEW g \in Goals, CancelGoal(g) PROVE RequestInv'
       BY <1>7 DEF CancelGoal, ExecutorIsFree
<1>8. ASSUME NEW v \in PreemptionValues, SetPreemption(v) PROVE RequestInv'
       BY <1>8 DEF SetPreemption, ExecutorIsFree
<1>9. CASE HaltActiveGoal BY <1>9 DEF HaltActiveGoal, ExecutorIsFree
<1>10. CASE EnableGoals BY <1>10 DEF EnableGoals, ControllerIsFree
<1>11. ASSUME NEW b \in BOOLEAN, DisableGoals(b) PROVE RequestInv'
       BY <1>11 DEF DisableGoals, ControllerIsFree
<1>12. CASE AwaitIdle BY <1>12 DEF AwaitIdle
<1>13. CASE BeginShutdown BY <1>13 DEF BeginShutdown
<1>14. CASE NotifyShutdown BY <1>14 DEF NotifyShutdown
<1>15. CASE JoinWorker BY <1>15 DEF JoinWorker
<1>16. CASE TakeGoal BY <1>16 DEF TakeGoal
<1>17. CASE StartGoal BY <1>17 DEF StartGoal
<1>18. ASSUME NEW o \in Terminal, ExecuteSettles(o) PROVE RequestInv'
       BY <1>18 DEF ExecuteSettles
<1>19. CASE ExecuteReturns BY <1>19 DEF ExecuteReturns
<1>20. CASE FinishGoal BY <1>20 DEF FinishGoal
<1>21. CASE NotifyIdle BY <1>21 DEF NotifyIdle
<1>22. ASSUME NEW t \in {Controller, Worker}, SpuriousWakeup(t) PROVE RequestInv'
       BY <1>22 DEF SpuriousWakeup
<1>23. ASSUME NEW t \in Threads, SettleCheck(t) PROVE RequestInv' BY <1>23 DEF SettleCheck
<1>24. ASSUME NEW t \in Threads, SettleWrite(t) PROVE RequestInv' BY <1>24 DEF SettleWrite
<1>25. CASE UNCHANGED vars BY <1>25 DEF vars, control
<1> QED
    BY <1>1, <1>2, <1>3, <1>4, <1>5, <1>6, <1>7, <1>8, <1>9, <1>10, <1>11, <1>12, <1>13,
       <1>14, <1>15, <1>16, <1>17, <1>18, <1>19, <1>20, <1>21, <1>22, <1>23, <1>24, <1>25
    DEF Next, Environment, ExecutorStep, ControllerStep, ExecuteStep, WorkerStep

\* The inductive invariant, for every number of goals and either threading.
THEOREM Invariance == Spec => []IInv
<1>1. IInv /\ [Next]_vars => IInv'
      BY TypeStep, HandStep, OrderStep, HolderStep, RequestStep
      DEF IInv, ControlInv, HandInv
<1> QED BY <1>1, InitInv, PTL DEF Spec

\* Every variable keeps its type, and no thread uses a null goal handle.
THEOREM TypeCorrect == Spec => []TypeOK
<1>1. IInv => TypeOK BY DEF IInv, ControlInv, HandInv
<1> QED BY <1>1, Invariance, PTL

\* No goal is forgotten, and no two threads hold the same one.
THEOREM GoalsAreNeverLost == Spec => []OneHolder
<1>1. IInv => OneHolder BY DEF IInv, HolderInv
<1> QED BY <1>1, Invariance, PTL

\* No thread asks rclcpp_action for an invalid goal transition.
THEOREM SettlesAlwaysLegal == Spec => []SettlesAreLegal
<1>1. IInv => SettlesAreLegal BY DEF IInv, HolderInv
<1> QED BY <1>1, Invariance, PTL

\* A request to stop one goal never reaches another.
THEOREM StopRequestsNeverLeak == Spec => []StopRequestsHaveACause
<1>1. IInv => StopRequestsHaveACause BY DEF IInv, RequestInv
<1> QED BY <1>1, Invariance, PTL

-------------------------------------------------------------------------------
\* Only the worker makes a goal the active one, from the queue.
LEMMA OnlyQueuedGoalsStart ==
  [Next]_vars /\ active' \notin {active, NoGoal} =>
    active' = pending /\ pending # NoGoal /\ ~shutting_down /\ pc[Worker] = "check"
BY DEF Next, Environment, ExecutorStep, ControllerStep, ExecuteStep, WorkerStep, vars,
       ReceiveGoal, AdmitGoal, CheckStillEnabled, EnqueueGoal, RunAcceptedCallback,
       NotifyWorker, CancelGoal, SetPreemption, HaltActiveGoal, EnableGoals, DisableGoals,
       AwaitIdle, BeginShutdown, NotifyShutdown, JoinWorker, TakeGoal, StartGoal,
       ExecuteSettles, ExecuteReturns, FinishGoal, NotifyIdle, SpuriousWakeup, SettleCheck,
       SettleWrite

\* A goal starts only when no goal accepted after it is queued.
THEOREM NewestGoalWins == Spec => NewestGoalStarts
<1>1. IInv /\ [Next]_vars => [StartsNewest]_vars
      BY OnlyQueuedGoalsStart DEF IInv, RequestInv, QueueIsNewest, StartsNewest
<1> QED BY <1>1, Invariance, PTL DEF Spec, NewestGoalStarts

LEMMA SharedStep == IInv /\ SharedInv /\ [Next]_vars => SharedInv'
<1> SUFFICES ASSUME IInv /\ SharedInv, [Next]_vars PROVE SharedInv'
    OBVIOUS
<1> USE DEF IInv, ControlInv, TypeOK, HandInv, ReturnPoints, ActiveFollowsWorker, RequestInv,
            DisabledWhileWaiting, SharedInv
<1>1. CASE ReceiveGoal BY <1>1 DEF ReceiveGoal, ExecutorIsFree
<1>2. CASE AdmitGoal
  <2>1. SharedThread => goals_enabled BY <1>2 DEF AdmitGoal
  <2> QED BY <1>2, <2>1 DEF AdmitGoal
<1>3. CASE CheckStillEnabled BY <1>3 DEF CheckStillEnabled
<1>4. CASE EnqueueGoal BY <1>4 DEF EnqueueGoal
<1>5. CASE RunAcceptedCallback BY <1>5 DEF RunAcceptedCallback
<1>6. CASE NotifyWorker BY <1>6 DEF NotifyWorker
<1>7. ASSUME NEW g \in Goals, CancelGoal(g) PROVE SharedInv'
       BY <1>7 DEF CancelGoal, ExecutorIsFree
<1>8. ASSUME NEW v \in PreemptionValues, SetPreemption(v) PROVE SharedInv'
       BY <1>8 DEF SetPreemption, ExecutorIsFree
<1>9. CASE HaltActiveGoal BY <1>9 DEF HaltActiveGoal, ExecutorIsFree
<1>10. CASE EnableGoals BY <1>10 DEF EnableGoals, ControllerIsFree
<1>11. ASSUME NEW b \in BOOLEAN, DisableGoals(b) PROVE SharedInv'
       BY <1>11 DEF DisableGoals, ControllerIsFree
<1>12. CASE AwaitIdle BY <1>12 DEF AwaitIdle
<1>13. CASE BeginShutdown BY <1>13 DEF BeginShutdown
<1>14. CASE NotifyShutdown BY <1>14 DEF NotifyShutdown
<1>15. CASE JoinWorker BY <1>15 DEF JoinWorker
<1>16. CASE TakeGoal BY <1>16 DEF TakeGoal
<1>17. CASE StartGoal BY <1>17 DEF StartGoal
<1>18. ASSUME NEW o \in Terminal, ExecuteSettles(o) PROVE SharedInv' BY <1>18 DEF ExecuteSettles
<1>19. CASE ExecuteReturns BY <1>19 DEF ExecuteReturns
<1>20. CASE FinishGoal BY <1>20 DEF FinishGoal
<1>21. CASE NotifyIdle BY <1>21 DEF NotifyIdle
<1>22. ASSUME NEW t \in {Controller, Worker}, SpuriousWakeup(t) PROVE SharedInv'
       BY <1>22 DEF SpuriousWakeup
<1>23. ASSUME NEW t \in Threads, SettleCheck(t) PROVE SharedInv' BY <1>23 DEF SettleCheck
<1>24. ASSUME NEW t \in Threads, SettleWrite(t) PROVE SharedInv' BY <1>24 DEF SettleWrite
<1>25. CASE UNCHANGED vars BY <1>25 DEF vars, control
<1> QED
    BY <1>1, <1>2, <1>3, <1>4, <1>5, <1>6, <1>7, <1>8, <1>9, <1>10, <1>11, <1>12, <1>13,
       <1>14, <1>15, <1>16, <1>17, <1>18, <1>19, <1>20, <1>21, <1>22, <1>23, <1>24, <1>25
    DEF Next, Environment, ExecutorStep, ControllerStep, ExecuteStep, WorkerStep

\* When the controller's calls are executor callbacks, no goal starts while goals are disabled.
THEOREM DisabledGoalsNeverStart == ASSUME SharedThread PROVE Spec => NeverStartsDisabled
<1>1. Init => SharedInv BY DEF Init, SharedInv
<1>2. IInv /\ SharedInv /\ [Next]_vars => [StartsEnabled]_vars
      BY OnlyQueuedGoalsStart DEF SharedInv, StartsEnabled
<1> QED BY <1>1, <1>2, SharedStep, Invariance, PTL DEF Spec, NeverStartsDisabled

\* ... and disable_goals() leaves no goal without a result.
THEOREM DisableLeavesNothing == ASSUME SharedThread PROVE Spec => []DisabledIsQuiet
<1>1. Init => SharedInv BY DEF Init, SharedInv
<1>2. IInv /\ SharedInv => DisabledIsQuiet
      BY DEF IInv, ControlInv, HandInv, HandlesInHand, ActiveFollowsWorker, HolderInv, OneHolder,
             TypeOK, WorkerLabels, ControllerLabels, SharedInv, DisabledIsQuiet
<1> QED BY <1>1, <1>2, SharedStep, Invariance, PTL DEF Spec

\* Only handle_goal() makes a goal one whose client waits for a result.
LEMMA OnlyAdmissionAddsGoals ==
  ASSUME TypeOK, [Next]_vars, ~AdmitGoal, NEW g \in Goals, goal_state'[g] \in Live
  PROVE  goal_state[g] \in Live
<1>1. CASE ReceiveGoal BY <1>1 DEF ReceiveGoal, TypeOK
<1>2. ASSUME NEW h \in Goals, CancelGoal(h) PROVE goal_state[g] \in Live
      BY <1>2 DEF CancelGoal, TypeOK
<1>3. CASE StartGoal BY <1>3 DEF StartGoal, TypeOK
<1>4. ASSUME NEW o \in Terminal, ExecuteSettles(o) PROVE goal_state[g] \in Live
      BY <1>4 DEF ExecuteSettles, TypeOK
<1>5. ASSUME NEW t \in Threads, SettleWrite(t) PROVE goal_state[g] \in Live
      BY <1>5 DEF SettleWrite, TypeOK
<1>6. CASE UNCHANGED goal_state BY <1>6
<1>7. \/ ReceiveGoal \/ StartGoal \/ UNCHANGED goal_state
      \/ \E h \in Goals : CancelGoal(h)
      \/ \E o \in Terminal : ExecuteSettles(o)
      \/ \E t \in Threads : SettleWrite(t)
      BY DEF Next, Environment, ExecutorStep, ControllerStep, ExecuteStep, WorkerStep, vars,
             CheckStillEnabled, EnqueueGoal, RunAcceptedCallback, NotifyWorker, SetPreemption,
             HaltActiveGoal, EnableGoals, DisableGoals, AwaitIdle, BeginShutdown,
             NotifyShutdown, JoinWorker, TakeGoal, ExecuteReturns, FinishGoal, NotifyIdle,
             SpuriousWakeup, SettleCheck
<1> QED BY <1>1, <1>2, <1>3, <1>4, <1>5, <1>6, <1>7

\* When nothing is active or queued, and no call of disable_goals() holds a goal,
\* the goal that is being answered is the only one.
LEMMA NothingIsLive ==
  ASSUME IInv, AdmitGoal, goals_enabled, ~Busy, NEW x \in Goals
  PROVE  goal_state[x] \notin Live
BY SMTT(30) DEF AdmitGoal, Busy, IInv, ControlInv, TypeOK, HandInv,
       HandlesInHand, ReturnPoints, ActiveFollowsWorker, HolderInv, OneHolder,
       QueueIsLive, RequestInv, DisabledWhileWaiting

LEMMA ExclusiveStep ==
  ASSUME IInv, [Next]_vars, NEW g \in Goals, NEW h \in Goals, g # h, ~allow_preemption,
         goal_state[g] \notin Live, goal_state'[g] \in Live
  PROVE  goal_state'[h] \notin Live
<1>1. AdmitGoal BY OnlyAdmissionAddsGoals DEF IInv, ControlInv, HandInv
<1>2. goals_enabled /\ ~Busy => goal_state[h] \notin Live
      BY <1>1, NothingIsLive
<1>3. CASE goals_enabled /\ ~Busy
      BY <1>1, <1>2, <1>3 DEF AdmitGoal, IInv, ControlInv, TypeOK
<1>4. CASE goal_state' = [goal_state EXCEPT ![arg[Executor]] = "rejected"]
      BY <1>4 DEF IInv, ControlInv, TypeOK
<1> QED BY <1>1, <1>3, <1>4 DEF AdmitGoal

\* With preemption off, a second client is never accepted before the first has
\* its result, whenever the parameter was switched.
THEOREM OneClientWithoutPreemption == Spec => ExclusiveWithoutPreemption
<1>1. IInv /\ [Next]_vars =>
        [\A g, h \in Goals :
           ~allow_preemption /\ goal_state[g] \notin Live /\ goal_state'[g] \in Live /\ g # h =>
             goal_state'[h] \notin Live]_vars
      BY ExclusiveStep
<1> QED BY <1>1, Invariance, PTL DEF Spec, ExclusiveWithoutPreemption

-------------------------------------------------------------------------------
(***************************************************************************)
(* ActionServer implements GoalServer: every step either leaves the        *)
(* abstract status of all goals alone or is one of its actions.            *)
(***************************************************************************)

\* One goal moves, the others stay.
LEMMA StatusMoves ==
  ASSUME NEW g \in Goals, NEW from, NEW to, StatusOf(g) = from, StatusOf(g)' = to,
         \A h \in Goals \ {g} : StatusOf(h)' = StatusOf(h)
  PROVE  Promise!Becomes(g, from, to)
BY DEF Promise!Becomes, AbstractStatus

LEMMA StatusStays ==
  ASSUME \A h \in Goals : StatusOf(h)' = StatusOf(h)
  PROVE  UNCHANGED AbstractStatus
BY DEF AbstractStatus

\* No goal moves.
StatusesStay == \A h \in Goals : StatusOf(h)' = StatusOf(h)

\* Goal g moves, no other does.
StatusMove(g, from, to) ==
  /\ StatusOf(g) = from
  /\ StatusOf(g)' = to
  /\ \A h \in Goals \ {g} : StatusOf(h)' = StatusOf(h)

LEMMA StayIsStutter == StatusesStay => UNCHANGED AbstractStatus
BY DEF StatusesStay, AbstractStatus

LEMMA MoveIsBecomes ==
  ASSUME NEW g \in Goals, NEW from, NEW to, StatusMove(g, from, to)
  PROVE  Promise!Becomes(g, from, to)
BY DEF StatusMove, Promise!Becomes, AbstractStatus

LEMMA MoveIsRespond ==
  ASSUME NEW g \in Goals, NEW to \in {"accepted", "rejected"}, StatusMove(g, "unknown", to)
  PROVE  Promise!Next
BY MoveIsBecomes DEF Promise!Next, Promise!Respond, Promise!Goals

LEMMA MoveIsDrop ==
  ASSUME NEW g \in Goals, StatusMove(g, "accepted", "dropped")
  PROVE  Promise!Next
BY MoveIsBecomes DEF Promise!Next, Promise!Drop, Promise!Goals

LEMMA MoveIsSettle ==
  ASSUME NEW g \in Goals, NEW from, NEW to, StatusMove(g, from, to),
         \/ from = "running" /\ to = "succeeded"
         \/ from \in {"running", "dropped"} /\ to \in {"canceled", "aborted"}
  PROVE  Promise!Next
BY MoveIsBecomes DEF Promise!Next, Promise!Settle, Promise!Goals

LEMMA MoveIsStart ==
  ASSUME NEW g \in Goals, StatusMove(g, "accepted", "running"),
         \A h \in Goals : StatusOf(h) # "running",
         \A h \in Goals : StatusOf(h) = "accepted" => h >= g
  PROVE  Promise!Next
<1>1. \A h \in Promise!Goals : AbstractStatus[h] # "running"
      BY DEF AbstractStatus, Promise!Goals
<1>2. \A h \in 1..(g - 1) : AbstractStatus[h] # "accepted"
      BY DEF AbstractStatus
<1> QED BY <1>1, <1>2, MoveIsBecomes DEF Promise!Next, Promise!Start, Promise!Goals

LEMMA RefinementStep == IInv /\ [Next]_vars => [Promise!Next]_AbstractStatus
<1> SUFFICES ASSUME IInv, [Next]_vars PROVE Promise!Next \/ UNCHANGED AbstractStatus
    OBVIOUS
<1> USE DEF StatusOf, Waiting, Running, IInv, ControlInv, TypeOK
<1>1. CASE ReceiveGoal
  <2>1. PICK g \in Goals : g = received + 1 BY <1>1 DEF ReceiveGoal
  <2>4. g # pending /\ (\A t \in Threads : arg[t] # g) /\ goal_state[g] = "unknown"
        BY <2>1 DEF Order
  <2>2. CASE UNCHANGED goal_state
    <3>1. StatusesStay BY <1>1, <2>1, <2>2, <2>4 DEF ReceiveGoal, ExecutorIsFree, StatusesStay,
                          HandInv, HandlesInHand, HolderInv, OneHolder
    <3> QED BY <3>1, StayIsStutter
  <2>3. CASE SetGoal(g, "rejected") /\ UNCHANGED <<pc, arg>>
    <3>1. StatusMove(g, "unknown", "rejected")
          BY <1>1, <2>3, <2>4 DEF ReceiveGoal, StatusMove
    <3> QED BY <3>1, MoveIsRespond
  <2> QED BY <1>1, <2>1, <2>2, <2>3 DEF ReceiveGoal
<1>2. CASE AdmitGoal
  <2>1. PICK g \in Goals : g = arg[Executor] BY <1>2 DEF AdmitGoal
  <2>2. PICK to \in {"accepted", "rejected"} : StatusMove(g, "unknown", to)
        BY <1>2, <2>1 DEF AdmitGoal, StatusMove, HolderInv, QueueIsLive, OneHolder
  <2> QED BY <2>2, MoveIsRespond
<1>3. CASE CheckStillEnabled
  <2>1. PICK g \in Goals : g = arg[Executor] BY <1>3 DEF CheckStillEnabled
  <2>2. StatusesStay \/ StatusMove(g, "accepted", "dropped")
        BY <1>3, <2>1 DEF CheckStillEnabled, StatusMove, StatusesStay, HolderInv, QueueIsLive,
           OneHolder
  <2> QED BY <2>2, StayIsStutter, MoveIsDrop
<1>4. CASE EnqueueGoal
  <2>1. CASE pending = NoGoal
    <3>1. StatusesStay BY <1>4, <2>1 DEF EnqueueGoal, StatusesStay, HolderInv, QueueIsLive,
                          OneHolder
    <3> QED BY <3>1, StayIsStutter
  <2>2. ASSUME NEW g \in Goals, g = pending PROVE Promise!Next
    <3>1. StatusMove(g, "accepted", "dropped")
          BY <1>4, <2>2 DEF EnqueueGoal, StatusMove, HolderInv, QueueIsLive, OneHolder
    <3> QED BY <3>1, MoveIsDrop
  <2> QED BY <2>1, <2>2
<1>5. CASE RunAcceptedCallback
  <2>1. StatusesStay BY <1>5 DEF RunAcceptedCallback, StatusesStay
  <2> QED BY <2>1, StayIsStutter
<1>6. CASE NotifyWorker
  <2>1. StatusesStay BY <1>6 DEF NotifyWorker, StatusesStay
  <2> QED BY <2>1, StayIsStutter
<1>7. ASSUME NEW g \in Goals, CancelGoal(g) PROVE UNCHANGED AbstractStatus
  <2>1. StatusesStay BY <1>7 DEF CancelGoal, StatusesStay
  <2> QED BY <2>1, StayIsStutter
<1>8. CASE HaltActiveGoal
  <2>1. CASE pending = NoGoal
    <3>1. StatusesStay BY <1>8, <2>1 DEF HaltActiveGoal, ExecutorIsFree, StatusesStay, HandInv,
                          HandlesInHand
    <3> QED BY <3>1, StayIsStutter
  <2>2. ASSUME NEW g \in Goals, g = pending PROVE Promise!Next
    <3>1. StatusMove(g, "accepted", "dropped")
          BY <1>8, <2>2 DEF HaltActiveGoal, ExecutorIsFree, StatusMove, HandInv, HandlesInHand,
             HolderInv, QueueIsLive, OneHolder
    <3> QED BY <3>1, MoveIsDrop
  <2> QED BY <2>1, <2>2
<1>9. ASSUME NEW b \in BOOLEAN, DisableGoals(b) PROVE Promise!Next \/ UNCHANGED AbstractStatus
  <2>1. CASE pending = NoGoal
    <3>1. StatusesStay BY <1>9, <2>1 DEF DisableGoals, ControllerIsFree, StatusesStay, HandInv,
                          HandlesInHand
    <3> QED BY <3>1, StayIsStutter
  <2>2. ASSUME NEW g \in Goals, g = pending PROVE Promise!Next
    <3>1. StatusMove(g, "accepted", "dropped")
          BY <1>9, <2>2 DEF DisableGoals, ControllerIsFree, StatusMove, HandInv, HandlesInHand,
             HolderInv, QueueIsLive, OneHolder
    <3> QED BY <3>1, MoveIsDrop
  <2> QED BY <2>1, <2>2
<1>10. CASE TakeGoal
  <2> USE DEF TakeGoal, HandInv, HandlesInHand, ActiveFollowsWorker, HolderInv, QueueIsLive,
             OneHolder
  <2>1. CASE pending = NoGoal
    <3>1. StatusesStay BY <1>10, <2>1 DEF StatusesStay
    <3> QED BY <3>1, StayIsStutter
  <2>2. ASSUME shutting_down, NEW g \in Goals, g = pending PROVE Promise!Next
    <3>1. StatusMove(g, "accepted", "dropped") BY <1>10, <2>2 DEF StatusMove
    <3> QED BY <3>1, MoveIsDrop
  <2>3. ASSUME ~shutting_down, NEW g \in Goals, g = pending PROVE Promise!Next
    <3>1. StatusMove(g, "accepted", "running") BY <1>10, <2>3 DEF StatusMove
    <3>2. \A h \in Goals : StatusOf(h) # "running" BY <1>10
    <3>3. \A h \in Goals : StatusOf(h) = "accepted" => h >= g BY <1>10, <2>3 DEF Order
    <3> QED BY <3>1, <3>2, <3>3, MoveIsStart
  <2> QED BY <2>1, <2>2, <2>3
<1>11. CASE StartGoal
  <2> USE DEF StartGoal, HandInv, ActiveFollowsWorker, HolderInv, OneHolder
  <2>1. CASE UNCHANGED goal_state
    <3>1. StatusesStay BY <1>11, <2>1 DEF StatusesStay
    <3> QED BY <3>1, StayIsStutter
  <2>2. ASSUME NEW g \in Goals, g = arg[Worker], goal_state[g] = "canceling" PROVE Promise!Next
    <3>1. StatusMove(g, "running", "canceled") BY <1>11, <2>2 DEF StatusMove
    <3> QED BY <3>1, MoveIsSettle
  <2> QED BY <1>11, <2>1, <2>2
<1>12. ASSUME NEW o \in Terminal, ExecuteSettles(o) PROVE Promise!Next
  <2>1. PICK g \in Goals : g = arg[Worker] BY <1>12 DEF ExecuteSettles
  <2>2. StatusMove(g, "running", o)
        BY <1>12, <2>1 DEF ExecuteSettles, StatusMove, HandInv, ActiveFollowsWorker, HolderInv,
           OneHolder, SettlesAreLegal
  <2> QED BY <2>2, MoveIsSettle
<1>13. CASE ExecuteReturns
  <2>1. StatusesStay BY <1>13 DEF ExecuteReturns, StatusesStay
  <2> QED BY <2>1, StayIsStutter
<1>14. CASE FinishGoal
  <2>1. StatusesStay BY <1>14 DEF FinishGoal, StatusesStay, HandInv, HandlesInHand
  <2> QED BY <2>1, StayIsStutter
<1>15. ASSUME NEW t \in Threads, SettleCheck(t) PROVE UNCHANGED AbstractStatus
  <2>1. StatusesStay BY <1>15 DEF SettleCheck, StatusesStay, HandInv, ReturnPoints
  <2> QED BY <2>1, StayIsStutter
<1>16. ASSUME NEW t \in Threads, SettleWrite(t) PROVE Promise!Next
  <2>1. PICK g \in Goals : g = arg[t] BY <1>16 DEF SettleWrite
  <2>2. StatusOf(g) \in {"running", "dropped"}
        BY <1>16, <2>1 DEF SettleWrite, HolderInv, OneHolder, SettlesAreLegal
  <2>3. PICK to \in {"canceled", "aborted"} : StatusOf(g)' = to
        BY <1>16, <2>1 DEF SettleWrite
  <2>4. \A h \in Goals \ {g} : StatusOf(h)' = StatusOf(h)
        BY <1>16, <2>1 DEF SettleWrite, HandInv, ReturnPoints
  <2>5. PICK from \in {"running", "dropped"} : StatusOf(g) = from BY <2>2
  <2>6. StatusMove(g, from, to) BY <2>3, <2>4, <2>5 DEF StatusMove
  <2> QED BY <2>6, MoveIsSettle
<1>17. CASE UNCHANGED <<goal_state, slots, arg>> /\ pc'[Executor] = pc[Executor]
  <2>1. StatusesStay BY <1>17 DEF StatusesStay
  <2> QED BY <2>1, StayIsStutter
<1>18. \/ UNCHANGED <<goal_state, slots, arg>> /\ pc'[Executor] = pc[Executor]
       \/ ReceiveGoal \/ AdmitGoal \/ CheckStillEnabled \/ EnqueueGoal \/ RunAcceptedCallback
       \/ NotifyWorker \/ HaltActiveGoal \/ TakeGoal \/ StartGoal \/ ExecuteReturns \/ FinishGoal
       \/ \E g \in Goals : CancelGoal(g)
       \/ \E b \in BOOLEAN : DisableGoals(b)
       \/ \E o \in Terminal : ExecuteSettles(o)
       \/ \E t \in Threads : SettleCheck(t) \/ SettleWrite(t)
       BY DEF Next, Environment, ExecutorStep, ControllerStep, ExecuteStep, WorkerStep, vars,
              SetPreemption, EnableGoals, AwaitIdle, BeginShutdown, NotifyShutdown, JoinWorker,
              NotifyIdle, SpuriousWakeup
<1> QED
    BY <1>1, <1>2, <1>3, <1>4, <1>5, <1>6, <1>7, <1>8, <1>9, <1>10, <1>11, <1>12, <1>13, <1>14,
       <1>15, <1>16, <1>17, <1>18

\* The action server keeps GoalServer's promise: at most one goal runs at a time, in order of
\* acceptance; every goal is answered once and for good, and succeeds only if it ran.
THEOREM ActionServerImplementsGoalServer == Spec => KeepsPromise
<1>1. Init => Promise!Init
      BY DEF Init, Promise!Init, Promise!Goals, AbstractStatus, StatusOf
<1> QED BY <1>1, RefinementStep, Invariance, PTL DEF Spec, KeepsPromise, Promise!Spec

===============================================================================
