----------------------------- MODULE FleetSession -----------------------------
(***************************************************************************)
(* FleetSession and RobotHandle (easyfleet_mission_manager): what a        *)
(* mission sees of the robots' capabilities. Capabilities send a heartbeat *)
(* and a status report every second, and may die and come back; the        *)
(* session's own thread keeps a registry of what it hears; the mission's   *)
(* thread adds robots, runs capabilities, polls, asks for orders, and      *)
(* destroys handles and session in any order.                              *)
(*                                                                         *)
(* A tick is one period of the heartbeats (1 Hz); whatever is sent in a    *)
(* tick is heard before the next one, or lost. How a goal goes on after it *)
(* is sent is RunningCapability; here it ends somehow, or is given up.     *)
(***************************************************************************)
EXTENDS Integers, FiniteSets, FiniteSetsExt

CONSTANTS
  Robots,         \* the handles, each for the robot of its name
  Capabilities,   \* the action names
  RobotOf,        \* the robot each capability belongs to
  AliveTimeout,   \* kAliveTimeout, in periods of the heartbeats
  MaxOrders,      \* how often the order asked for is accepted (a bound for TLC)
  MaxFaults       \* how many crashes, losses and evictions (a bound for TLC)

ASSUME FleetSessionAssumption ==
  /\ RobotOf \in [Capabilities -> Robots]
  /\ AliveTimeout \in Nat \ {0} /\ MaxOrders \in Nat /\ MaxFaults \in Nat

VARIABLES
  up,        \* the capabilities whose process runs
  since,     \* periods since it started or died, up to AliveTimeout + 1
  due,       \* the capabilities that have yet to send in this period
  lost,      \* heartbeats of each lost in a row (history)
  order,     \* the stamp of the order in the history of each, or Nothing
  stamp,     \* the last stamp given
  faults,    \* crashes, losses and evictions so far
  known,     \* registry_ has an entry, by description or heartbeat
  age,       \* periods since the last heartbeat, up to AliveTimeout
  reported,  \* robot_status_: periods since the last report, up to AliveTimeout
  session,   \* "up", "stopped" (shutdown()), or "destroyed"
  handle,    \* "alone", "attached" (session_ is set), or "destroyed"
  listed,    \* robots_
  run,       \* the state of the last goal of each capability, "idle" if none
  asking,    \* get_order(): the robot it is for, if the mission is inside it
  answers,   \* ... and the answer of each capability
  floor,     \* ... and the stamp each has had ever since it was asked (history)
  found      \* what the last get_order() returned

process_vars == <<up, since, due, lost, order, stamp, faults>>
registry_vars == <<known, age, reported>>
handle_vars == <<session, handle, listed, run>>
query_vars == <<asking, answers, floor, found>>
session_vars == <<process_vars, registry_vars, handle_vars, query_vars>>

Nothing == 0                 \* the order is not found
NotAsked == -2
Unanswered == -1
MaxSince == AliveTimeout + 1

\* The function with the value v at c.
Put(f, c, v) == [f EXCEPT ![c] = v]
All(v) == [c \in Capabilities |-> v]

SessionInit ==
  /\ up = {} /\ since = All(MaxSince) /\ due = {} /\ lost = All(0)
  /\ order = All(Nothing) /\ stamp = 0 /\ faults = 0
  /\ known = {} /\ age = All(AliveTimeout) /\ reported = All(AliveTimeout)
  /\ session = "up"
  /\ handle = [r \in Robots |-> "alone"] /\ listed = {}
  /\ run = All("idle")
  /\ asking = {} /\ answers = All(NotAsked) /\ floor = All(Nothing) /\ found = Nothing

CapabilitiesOf(r) == {c \in Capabilities : RobotOf[c] = r}

\* The mission's thread is not inside get_order().
MissionIsFree == asking = {}

-------------------------------------------------------------------------------
(* Plausible mistakes, each for the definition it is named after.          *)

\* The heartbeats are not waited for long enough.
Alive_OffByOne(c) == age[c] < AliveTimeout - 1

\* A report is kept for as long as the session lives.
Reported_NeverExpires(c) == reported[c] < AliveTimeout \/ c \in known

\* The session goes, and its robots still point to it.
DestroySession_NotDetached ==
  /\ MissionIsFree /\ session # "destroyed"
  /\ session' = "destroyed" /\ listed' = {}
  /\ known' = {} /\ age' = All(AliveTimeout) /\ reported' = All(AliveTimeout)
  /\ UNCHANGED <<handle, run, process_vars, query_vars>>

\* The first capability that has the order wins.
NewestOf_First(stamps) ==
  IF stamps \ {Nothing} = {} THEN Nothing ELSE Min(stamps \ {Nothing})

-------------------------------------------------------------------------------
(* The capabilities' processes.                                            *)

ProcessOnly == UNCHANGED <<registry_vars, handle_vars, query_vars>>

Fault == faults < MaxFaults /\ faults' = faults + 1

\* A capability is activated: its first heartbeat comes a period later.
StartProcess(c) ==
  /\ c \notin up
  /\ up' = up \cup {c} /\ since' = Put(since, c, 0)
  /\ lost' = Put(lost, c, 0)
  /\ UNCHANGED <<due, order, stamp, faults>> /\ ProcessOnly

\* A process dies, and its history and unanswered requests with it.
Crash(c) ==
  /\ c \in up /\ Fault
  /\ up' = up \ {c} /\ since' = Put(since, c, 0)
  /\ due' = due \ {c}
  /\ order' = Put(order, c, Nothing) /\ floor' = Put(floor, c, Nothing)
  /\ UNCHANGED <<lost, stamp, registry_vars, handle_vars, asking, answers, found>>

\* The order is accepted by c (again): a newer stamp under the same id.
AcceptOrder(c) ==
  /\ c \in up /\ stamp < MaxOrders
  /\ stamp' = stamp + 1
  /\ order' = Put(order, c, stamp + 1)
  /\ UNCHANGED <<up, since, due, lost, faults>> /\ ProcessOnly

\* The history of c is full of newer ones.
Evict(c) ==
  /\ order[c] # Nothing /\ Fault
  /\ order' = Put(order, c, Nothing) /\ floor' = Put(floor, c, Nothing)
  /\ UNCHANGED <<up, since, due, lost, stamp, registry_vars, handle_vars, asking,
                 answers, found>>

-------------------------------------------------------------------------------
(* The session's thread, and time.                                         *)

\* The retained description of a capability.
HearDescription(c) ==
  /\ session = "up" /\ c \in up /\ c \notin known
  /\ known' = known \cup {c}
  /\ UNCHANGED <<age, reported, process_vars, handle_vars, query_vars>>

\* alive(): a heartbeat within kAliveTimeout.
Alive(c) == age[c] < AliveTimeout

\* robot_status() returns what was reported within kAliveTimeout.
Reported(c) == reported[c] < AliveTimeout

Later(n, max) == IF n < max THEN n + 1 ELSE max

\* A session that is up hears a heartbeat (unless it is lost) ...
HearStatus(c, arrives) ==
  IF session = "up" /\ arrives
  THEN known' = known \cup {c} /\ age' = Put(age, c, 0)
  ELSE UNCHANGED <<known, age>>

\* ... and on_robot_status() what a robot reports of its capabilities.
OnRobotStatus(c, arrives) ==
  reported' = IF session = "up" /\ arrives THEN Put(reported, c, 0) ELSE reported

\* c sends its heartbeat, and the RobotStatusPublisher of its process reports it.
Send(c, heartbeat, report) ==
  /\ c \in due
  /\ due' = due \ {c}
  /\ IF heartbeat /\ report THEN UNCHANGED faults ELSE session = "up" /\ Fault
  /\ lost' = Put(lost, c, IF heartbeat THEN 0 ELSE Later(lost[c], AliveTimeout))
  /\ HearStatus(c, heartbeat) /\ OnRobotStatus(c, report)
  /\ UNCHANGED <<up, since, order, stamp, handle_vars, query_vars>>

\* The next period, in which every process sends again.
Tick ==
  /\ due = {}
  /\ due' = up
  /\ since' = [c \in Capabilities |-> Later(since[c], MaxSince)]
  /\ age' = [c \in Capabilities |-> Later(age[c], AliveTimeout)]
  /\ reported' = [c \in Capabilities |-> Later(reported[c], AliveTimeout)]
  /\ UNCHANGED <<up, lost, order, stamp, faults, known, handle_vars, query_vars>>

\* The server of a running goal reports its outcome.
HearOutcome(c) ==
  /\ session = "up" /\ run[c] = "running"
  /\ run' = Put(run, c, "over")
  /\ UNCHANGED <<process_vars, registry_vars, session, handle, listed, query_vars>>

-------------------------------------------------------------------------------
(* The mission: the life of the handles and of the session.                *)

\* add_robot() throws for a robot that is attached.
AddRobot(r) ==
  /\ MissionIsFree /\ session # "destroyed" /\ handle[r] = "alone"
  /\ listed' = listed \cup {r}
  /\ handle' = Put(handle, r, "attached")
  /\ UNCHANGED <<session, run, process_vars, registry_vars, query_vars>>

\* running_.clear(), and session_ is forgotten.
Detach(robots) ==
  /\ handle' = [r \in Robots |-> IF r \in robots THEN "alone" ELSE handle[r]]
  /\ run' = [c \in Capabilities |-> IF RobotOf[c] \in robots THEN "idle" ELSE run[c]]

\* remove_robot()
Without(r) == listed \ {r}

\* ~RobotHandle() leaves its session, if any.
DestroyRobot(r) ==
  /\ MissionIsFree /\ handle[r] # "destroyed"
  /\ listed' = IF handle[r] = "attached" THEN Without(r) ELSE listed
  /\ handle' = Put(handle, r, "destroyed")
  /\ run' = [c \in Capabilities |-> IF RobotOf[c] = r THEN "idle" ELSE run[c]]
  /\ UNCHANGED <<session, process_vars, registry_vars, query_vars>>

\* shutdown() joins the session's thread.
Shutdown ==
  /\ MissionIsFree /\ session = "up"
  /\ session' = "stopped"
  /\ UNCHANGED <<handle, listed, run, process_vars, registry_vars, query_vars>>

\* ~FleetSession() detaches every robot, and all it has heard is gone with it.
DestroySession ==
  /\ MissionIsFree /\ session # "destroyed"
  /\ session' = "destroyed" /\ listed' = {}
  /\ Detach(listed)
  /\ known' = {} /\ age' = All(AliveTimeout) /\ reported' = All(AliveTimeout)
  /\ UNCHANGED <<process_vars, query_vars>>

-------------------------------------------------------------------------------
(* The mission: goals and orders.                                          *)

Attached(c) == handle[RobotOf[c]] = "attached"

\* A robot knows its capabilities' heartbeats through its session.
IsAlive(c) == Attached(c) /\ Alive(c)

\* run_capability() throws without a session, and skips what is not active:
\* the state of an earlier goal stays.
RunCapability(c) ==
  /\ MissionIsFree /\ Attached(c) /\ session = "up"
  /\ run' = IF IsAlive(c) THEN Put(run, c, "running") ELSE run
  /\ UNCHANGED <<session, handle, listed, process_vars, registry_vars, query_vars>>

\* check_timeouts() gives up on a capability that is silent.
CheckTimeouts(c) ==
  /\ ~IsAlive(c)
  /\ run' = Put(run, c, "over")

\* spin_some() polls every robot's running goals.
SpinSome(c) ==
  /\ MissionIsFree /\ Attached(c) /\ run[c] = "running"
  /\ CheckTimeouts(c)
  /\ UNCHANGED <<session, handle, listed, process_vars, registry_vars, query_vars>>

\* get_order() asks the known capabilities of the robot, alive or not, whose
\* service it finds: that may lag behind what the process does.
AskOrder(r) ==
  /\ MissionIsFree /\ handle[r] = "attached" /\ session = "up"
  /\ asking' = {r}
  /\ \E ready \in SUBSET (known \cap CapabilitiesOf(r)) :
       /\ answers' = [c \in Capabilities |-> IF c \in ready THEN Unanswered ELSE NotAsked]
       /\ floor' = [c \in Capabilities |-> IF c \in ready THEN order[c] ELSE Nothing]
  /\ found' = Nothing
  /\ UNCHANGED <<process_vars, registry_vars, handle_vars>>

\* find(): the order that was accepted last under the id.
Find(c) == order[c]

\* c answers from its history, and the session's thread takes the answer.
Answer(c) ==
  /\ asking # {} /\ c \in up /\ answers[c] = Unanswered
  /\ answers' = Put(answers, c, Find(c))
  /\ UNCHANGED <<asking, floor, found, process_vars, registry_vars, handle_vars>>

\* The newest of the orders found.
NewestOf(stamps) == Max(stamps \cup {Nothing})

Answered == {c \in Capabilities : answers[c] \notin {NotAsked, Unanswered}}

\* get_order() returns: everybody has answered, or the timeout has passed and
\* the other requests are forgotten.
ReturnOrder ==
  /\ asking # {}
  /\ found' = NewestOf({answers[c] : c \in Answered})
  /\ asking' = {} /\ answers' = All(NotAsked) /\ floor' = All(Nothing)
  /\ UNCHANGED <<process_vars, registry_vars, handle_vars>>

-------------------------------------------------------------------------------
ProcessStep ==
  \E c \in Capabilities : StartProcess(c) \/ Crash(c) \/ AcceptOrder(c) \/ Evict(c)

SendStep == \E c \in Capabilities, heartbeat, report \in BOOLEAN : Send(c, heartbeat, report)

SessionStep == \E c \in Capabilities : HearDescription(c) \/ HearOutcome(c)

MissionThread ==
  \/ \E r \in Robots : AddRobot(r) \/ DestroyRobot(r) \/ AskOrder(r)
  \/ \E c \in Capabilities : RunCapability(c) \/ SpinSome(c) \/ Answer(c)
  \/ Shutdown \/ DestroySession \/ ReturnOrder

SessionNext == ProcessStep \/ SendStep \/ Tick \/ SessionStep \/ MissionThread

SessionSpec == SessionInit /\ [][SessionNext]_session_vars

-------------------------------------------------------------------------------
SessionTypeOK ==
  /\ up \subseteq Capabilities /\ due \subseteq up
  /\ since \in [Capabilities -> 0..MaxSince]
  /\ lost \in [Capabilities -> 0..AliveTimeout]
  /\ order \in [Capabilities -> 0..stamp] /\ stamp \in 0..MaxOrders
  /\ faults \in 0..MaxFaults
  /\ known \subseteq Capabilities
  /\ age \in [Capabilities -> 0..AliveTimeout] /\ reported \in [Capabilities -> 0..AliveTimeout]
  /\ session \in {"up", "stopped", "destroyed"}
  /\ handle \in [Robots -> {"alone", "attached", "destroyed"}] /\ listed \subseteq Robots
  /\ run \in [Capabilities -> {"idle", "running", "over"}]
  /\ asking \subseteq Robots /\ answers \in [Capabilities -> NotAsked..MaxOrders]
  /\ floor \in [Capabilities -> 0..stamp] /\ found \in 0..stamp

\* "Robots that outlive the session must not reach back into it", nor a session
\* reach into a robot that is gone: whatever the order they are destroyed in,
\* each knows the other or neither does, and goals run on attached robots only.
NobodyDangles ==
  /\ \A r \in Robots : r \in listed <=> handle[r] = "attached"
  /\ session = "destroyed" => listed = {}
  /\ \A c \in Capabilities : run[c] # "idle" => Attached(c)

\* "One or two dropped messages don't flip it", for one: a capability that runs
\* counts as alive while the session listens, if no two heartbeats in a row got
\* lost and it has had the time to send some.
OneLossIsTolerated ==
  \A c \in Capabilities :
    session = "up" /\ c \in up /\ since[c] > 2 /\ lost[c] <= 1 => Alive(c)

\* "It reflects the current liveness of the capability's process, including one
\* that dies": nothing the mission can ask says that a capability which has been
\* dead for longer than kAliveTimeout is there.
DeadAreNoticed ==
  \A c \in Capabilities : c \notin up /\ since[c] = MaxSince => ~Alive(c) /\ ~Reported(c)

\* "The newest matching order": a capability that answers does not answer with
\* less than it had when it was asked, and what is returned is not older than
\* what any of those that answered has had since.
NewestIsReturned ==
  [][\A c \in Answered : asking' = {} => found' >= floor[c]]_session_vars

===============================================================================
