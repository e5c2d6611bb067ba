--------------------------- MODULE RunningCapability ---------------------------
(***************************************************************************)
(* RunningCapability (easyfleet_mission_manager): one capability of one    *)
(* robot as a mission script drives it. The mission's thread starts goals, *)
(* stops them, and polls for timeouts and missing heartbeats; the thread   *)
(* of the ActionClient below delivers the outcomes.                        *)
(*                                                                         *)
(* The generation of the code is a number that run() and every local       *)
(* decision to give up increment, and that a goal's callback remembers.    *)
(* Here it is the one goal that has the current number, if any.            *)
(***************************************************************************)
EXTENDS Integers

CONSTANT MaxGoals   \* how many goals are sent (a bound for TLC)

ASSUME RunningCapabilityAssumption == MaxGoals \in Nat

VARIABLES
  status, canceling,                                \* the server
  sent, heard, cancel_before, cancel_on_accept, asked,  \* the ActionClient
  pc, own, todo, wanted,                            \* its caller, the mission
  state,      \* state_
  current,    \* the goal of this generation, or NoGoal
  step,       \* what the mission's thread is in the middle of
  alive,      \* a heartbeat has been seen lately (FleetSession's registry)
  saw_alive,  \* what check_timeout() was told of it
  overdue,    \* deadline_ has passed
  cancel      \* cancel_deadline_: "unset", "set", or "passed"

mission == "mission"

Client == INSTANCE ActionClient WITH Callers <- {mission}

Goals == Client!Goals
NoGoal == Client!NoGoal

client_vars ==
  <<status, canceling, sent, heard, cancel_before, cancel_on_accept, asked, pc, own, todo, wanted>>
mission_vars == <<state, current, step, saw_alive, overdue, cancel>>
vars == <<client_vars, mission_vars, alive>>

Outcomes == {"succeeded", "aborted", "canceled", "rejected"}
States == {"idle", "running", "timeout", "unreachable"} \cup Outcomes
Steps == {"free", "sending", "stopping", "checking"}

Init ==
  /\ Client!Init
  /\ state = "idle" /\ current = NoGoal /\ step = "free"
  /\ alive = FALSE /\ saw_alive = FALSE
  /\ overdue = FALSE /\ cancel = "unset"

\* The mission's thread can make its next call.
IsFree == step = "free" /\ pc[mission] = "idle"

-------------------------------------------------------------------------------
(* Plausible mistakes, each for the definition it is named after.          *)

\* The outcome of a superseded goal is taken for the current one's.
SettleGoal_AnyGoal(g, outcome) ==
  /\ state' = outcome
  /\ UNCHANGED <<current, step, saw_alive, overdue, cancel>>

\* The outcome of a goal that was given up still counts.
GiveUp_SameGeneration(outcome) ==
  /\ state' = outcome
  /\ UNCHANGED current

\* Giving up on a goal without a deadline for its cancellation.
Decide_NoGrace ==
  /\ step = "checking"
  /\ step' = "free"
  /\ IF ~saw_alive
     THEN state' = "unreachable" /\ current' = NoGoal
     ELSE UNCHANGED <<state, current>>
  /\ IF saw_alive /\ overdue /\ cancel = "unset"
     THEN Client!CancelAll(mission) /\ cancel' = "set"
     ELSE UNCHANGED <<client_vars, cancel>>
  /\ UNCHANGED <<saw_alive, overdue, alive>>

\* The callback of a goal is given the number its run() started from.
SendGoal_NumberBefore ==
  /\ step = "sending"
  /\ Client!Send(mission)
  /\ step' = "free"
  /\ UNCHANGED <<state, current, saw_alive, overdue, cancel, alive>>

-------------------------------------------------------------------------------
(* settle()                                                                *)

\* With a generation: only the current goal's outcome counts.
SettleGoal(g, outcome) ==
  /\ state' = IF g = current THEN outcome ELSE state
  /\ UNCHANGED <<current, step, saw_alive, overdue, cancel>>

\* Without one: whatever the network says later is ignored.
GiveUp(outcome) ==
  /\ state' = outcome
  /\ current' = NoGoal

-------------------------------------------------------------------------------
(* The threads of the ActionClient, the server, and the heartbeats.        *)

\* The server may answer or not, and may lose the goal altogether.
ServerStep == Client!ServerStep /\ UNCHANGED <<mission_vars, alive>>

TakeAcceptance(g) ==
  /\ Client!TakeResponse(g) /\ status[g] # "rejected"
  /\ UNCHANGED <<mission_vars, alive>>

Responded(g) == Client!Responded(g) /\ UNCHANGED <<mission_vars, alive>>

TakeRejection(g) ==
  /\ Client!TakeResponse(g) /\ status[g] = "rejected"
  /\ SettleGoal(g, "rejected")
  /\ UNCHANGED alive

TakeResult(g) == Client!TakeResult(g) /\ UNCHANGED <<mission_vars, alive>>

\* The callback given to request() is the last thing the result's callback runs.
DeliverOutcome(g) ==
  /\ Client!EndResult(g)
  /\ SettleGoal(g, status[g])
  /\ UNCHANGED alive

ClientStep ==
  \E g \in Goals :
    TakeAcceptance(g) \/ Responded(g) \/ TakeRejection(g) \/ TakeResult(g) \/ DeliverOutcome(g)

\* A heartbeat arrives, or none has for kAliveTimeout.
Heartbeat == alive' = ~alive /\ UNCHANGED <<client_vars, mission_vars>>

Overdue ==
  /\ state = "running" /\ step # "sending" /\ ~overdue
  /\ overdue' = TRUE
  /\ UNCHANGED <<client_vars, state, current, step, saw_alive, cancel, alive>>

\* kCancelGrace has passed since the cancel.
GraceEnds ==
  /\ cancel = "set"
  /\ cancel' = "passed"
  /\ UNCHANGED <<client_vars, state, current, step, saw_alive, overdue, alive>>

-------------------------------------------------------------------------------
(* The mission.                                                            *)

\* run(), for a robot that is alive (else run_capability() does nothing): a new
\* generation, before the goal is sent.
Run ==
  /\ IsFree
  /\ alive
  /\ state' = "running" /\ current' = NoGoal
  /\ step' = "sending"
  /\ overdue' = FALSE /\ cancel' = "unset"
  /\ UNCHANGED <<client_vars, saw_alive, alive>>

\* request(), with the action server ready ...
SendGoal ==
  /\ step = "sending"
  /\ Client!Send(mission)
  /\ current' = sent + 1
  /\ step' = "free"
  /\ UNCHANGED <<state, saw_alive, overdue, cancel, alive>>

\* ... or not: its callback is called at once.
SendFails ==
  /\ step = "sending"
  /\ state' = "unreachable"
  /\ step' = "free"
  /\ UNCHANGED <<client_vars, current, saw_alive, overdue, cancel, alive>>

\* stop(): with nothing running it returns at once.
Stop ==
  /\ IsFree
  /\ step' = IF state = "running" THEN "stopping" ELSE "free"
  /\ UNCHANGED <<client_vars, state, current, saw_alive, overdue, cancel, alive>>

\* request_cancel(): cancel() once.
AskCancel ==
  IF cancel = "unset"
  THEN Client!CancelAll(mission) /\ cancel' = "set"
  ELSE UNCHANGED <<client_vars, cancel>>

StopCancels ==
  /\ step = "stopping"
  /\ step' = "free"
  /\ AskCancel
  /\ UNCHANGED <<state, current, saw_alive, overdue, alive>>

\* cancel_all_goals() sends its requests one by one.
SendCancels ==
  /\ Client!CancelStep
  /\ UNCHANGED <<mission_vars, alive>>

\* check_timeout() reads the heartbeat, then the state ...
CheckTimeout ==
  /\ IsFree
  /\ state = "running"
  /\ saw_alive' = alive
  /\ step' = "checking"
  /\ UNCHANGED <<client_vars, state, current, overdue, cancel, alive>>

\* ... and decides, whatever has happened to the goal since.
Decide ==
  /\ step = "checking"
  /\ step' = "free"
  /\ IF ~saw_alive THEN GiveUp("unreachable")
     ELSE IF cancel = "passed" THEN GiveUp("timeout")
     ELSE UNCHANGED <<state, current>>
  /\ IF saw_alive /\ overdue THEN AskCancel ELSE UNCHANGED <<client_vars, cancel>>
  /\ UNCHANGED <<saw_alive, overdue, alive>>

-------------------------------------------------------------------------------
MissionStep ==
  \/ Run \/ SendGoal \/ SendFails
  \/ Stop \/ StopCancels \/ CheckTimeout \/ Decide \/ SendCancels

Time == Overdue \/ GraceEnds \/ Heartbeat

Next == ServerStep \/ ClientStep \/ MissionStep \/ Time

Spec == Init /\ [][Next]_vars

\* The mission keeps polling, its calls return, and time passes. Nothing is
\* assumed of the server, of the heartbeats, or of the client's thread.
Fairness ==
  /\ SF_vars(CheckTimeout)
  /\ WF_vars(SendGoal \/ SendFails) /\ WF_vars(StopCancels) /\ WF_vars(Decide)
  /\ WF_vars(SendCancels)
  /\ WF_vars(Overdue) /\ WF_vars(GraceEnds)

FairSpec == Spec /\ Fairness

-------------------------------------------------------------------------------
TypeOK ==
  /\ Client!TypeOK
  /\ state \in States
  /\ current \in 0..sent
  /\ step \in Steps
  /\ alive \in BOOLEAN /\ saw_alive \in BOOLEAN /\ overdue \in BOOLEAN
  /\ cancel \in {"unset", "set", "passed"}
  /\ step = "checking" => pc[mission] = "idle"

\* "Only the request() call that is still the current one when its callback
\* fires is allowed to update state_": an outcome is that of the last goal sent.
OutcomeIsTheLastGoals ==
  state \in Outcomes => current # NoGoal /\ current = sent /\ status[current] = state

\* A goal that is reported as running has an outcome still to come: its only
\* callback has not run, or the goal is about to be sent.
RunningHasAnOutcomeToCome ==
  state = "running" =>
    \/ step = "sending"
    \/ current # NoGoal /\ heard[current] \notin {"rejected", "done"}

\* "Asked to stop, but did not report back": a goal given up as TIMEOUT, and
\* every goal before it, was canceled or is over.
TimeoutMeansCanceled ==
  state = "timeout" => \A g \in 1..sent : g \in wanted \/ Client!Over(g)

\* "Later results are ignored": a goal that was given up stays given up.
GivingUpIsFinal ==
  [][(state \in {"timeout", "unreachable"} /\ state' # state) => (state' = "running")]_vars

\* A mission never waits for ever: a running goal is settled, one way or the
\* other, whatever the robot does, unless the mission ended by an exception.
RunningEnds == state = "running" ~> state # "running" \/ pc[mission] = "thrown"

===============================================================================
