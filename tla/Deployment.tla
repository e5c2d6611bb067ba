------------------------------ MODULE Deployment ------------------------------
(***************************************************************************)
(* Deployment (easyfleet_core): the process of one robot. Its main thread  *)
(* brings up all capabilities or none, spins them on one executor until a  *)
(* signal comes, and takes them down in reverse order.                     *)
(*                                                                         *)
(* While the executor spins, clients send goals, which run on worker       *)
(* threads, and anyone may call the capabilities' lifecycle services,      *)
(* which run on the main thread. A signal may come at any moment, also     *)
(* between two statements of spin_until_shutdown().                        *)
(***************************************************************************)
EXTENDS Integers

CONSTANTS
  Size,       \* the most capabilities this robot has
  Tries       \* how often the start is tried (a bound for TLC)

ASSUME DeploymentAssumption == Size \in Nat /\ Tries \in Nat

VARIABLES
  added,      \* capabilities_ holds 1..added
  lifecycle,  \* the primary state of each capability's node
  goal,       \* its goal: "none", "running", or "asked" to stop
  main,       \* what the main thread is doing
  at,         \* the capability that it has reached, or whose service it runs
  target,     \* the state that service leads to
  tries,      \* calls of try_start() that are left
  reporting,  \* robot_status_ exists
  callback,   \* g_cancel_callback is set
  handlers,   \* SIGINT and SIGTERM go to handle_signal()
  spinning,   \* the executor's own flag, which cancel() clears
  heard       \* where the last signal reached handle_signal() (history)

signals == <<callback, handlers, spinning, heard>>
vars == <<added, lifecycle, goal, main, at, target, tries, reporting, signals>>

Capabilities == 1..Size
Added == 1..added
Up == {"inactive", "active"}

Init ==
  /\ added = 0
  /\ lifecycle = [c \in Capabilities |-> "unconfigured"]
  /\ goal = [c \in Capabilities |-> "none"]
  /\ main = "adding" /\ at = 0 /\ target = "none"
  /\ tries = Tries
  /\ reporting = FALSE
  /\ callback = FALSE /\ handlers = FALSE /\ spinning = FALSE /\ heard = "none"

Becomes(c, state) == lifecycle' = [lifecycle EXCEPT ![c] = state]

GoTo(place, c) == main' = place /\ at' = c

\* disable_goals() of c: its goal, if any, is asked to stop.
AskGoal(c) == goal' = [goal EXCEPT ![c] = IF @ = "running" THEN "asked" ELSE @]

-------------------------------------------------------------------------------
(* Plausible mistakes, each for the definition it is named after.          *)

\* Only what was activated is taken back.
TakenDown_ActiveOnly(c) == IF lifecycle[c] = "active" THEN "unconfigured" ELSE lifecycle[c]

\* cancel() of an executor that runs a callback is forgotten.
CancelSpin_Lost == spinning' = (spinning /\ main = "serving")

\* try_start() returns at the first failure.
BringUp_NoRollBack(from, place, to) ==
  /\ main = place /\ at <= added
  /\ \/ /\ lifecycle[at] = from
        /\ Becomes(at, to) /\ GoTo(place, at + 1)
     \/ GoTo("failed", 0) /\ UNCHANGED lifecycle
  /\ UNCHANGED <<added, goal, target, tries, reporting, signals>>

-------------------------------------------------------------------------------
(* Starting.                                                               *)

\* add_capability(): an instance of the plugin, after those that are there.
Add == added' = added + 1

\* ... called with a name, or for each name in the parameters.
AddCapability ==
  /\ main = "adding" /\ added < Size
  /\ Add
  /\ UNCHANGED <<lifecycle, goal, main, at, target, tries, reporting, signals>>

\* try_start(), for the first time or after it failed.
Start ==
  /\ main \in {"adding", "failed"} /\ tries > 0
  /\ tries' = tries - 1
  /\ GoTo("configuring", 1)
  /\ UNCHANGED <<added, lifecycle, goal, target, reporting, signals>>

\* The loop of roll_back and of run(), from the last capability to the first.
BeginTakeDown(place) == GoTo(place, added)

\* configure_node() or activate_node() of one capability: it succeeds, or it
\* fails, leaves the node as it was, and roll_back() begins.
BringUp(from, place, to) ==
  /\ main = place /\ at <= added
  /\ \/ /\ lifecycle[at] = from
        /\ Becomes(at, to) /\ GoTo(place, at + 1)
     \/ BeginTakeDown("undoing") /\ UNCHANGED lifecycle
  /\ UNCHANGED <<added, goal, target, tries, reporting, signals>>

ConfigureNext == BringUp("unconfigured", "configuring", "inactive")
ActivateNext == BringUp("inactive", "activating", "active")

AllConfigured ==
  /\ main = "configuring" /\ at > added
  /\ GoTo("activating", 1)
  /\ UNCHANGED <<added, lifecycle, goal, target, tries, reporting, signals>>

\* robot_status_ is created, once.
Started ==
  /\ main = "activating" /\ at > added
  /\ reporting' = TRUE
  /\ GoTo("ready", 0)
  /\ UNCHANGED <<added, lifecycle, goal, target, tries, signals>>

\* What deactivate_node() and cleanup_node() make of a capability.
TakenDown(c) == IF lifecycle[c] \in Up THEN "unconfigured" ELSE lifecycle[c]

\* One round of the loop. deactivate_node() blocks until the goal has ended.
AskNext ==
  /\ main \in {"undoing", "stopping"} /\ at > 0
  /\ lifecycle[at] = "active" /\ goal[at] = "running"
  /\ AskGoal(at)
  /\ UNCHANGED <<added, lifecycle, main, at, target, tries, reporting, signals>>

TakeDownNext ==
  /\ main \in {"undoing", "stopping"} /\ at > 0
  /\ goal[at] = "none"
  /\ Becomes(at, TakenDown(at))
  /\ GoTo(main, at - 1)
  /\ UNCHANGED <<added, goal, target, tries, reporting, signals>>

AllDown ==
  /\ main \in {"undoing", "stopping"} /\ at = 0
  /\ main' = IF main = "undoing" THEN "failed" ELSE "stopped"
  /\ UNCHANGED <<added, lifecycle, goal, at, target, tries, reporting, signals>>

\* start() ends the process when try_start() fails.
Exit ==
  /\ main = "failed"
  /\ GoTo("over", 0)
  /\ UNCHANGED <<added, lifecycle, goal, target, tries, reporting, signals>>

-------------------------------------------------------------------------------
(* run() and spin_until_shutdown().                                        *)

\* All nodes join the executor; the callback is set before the handlers are.
SetCallback ==
  /\ main = "ready"
  /\ callback' = TRUE
  /\ main' = "hooked"
  /\ UNCHANGED <<added, lifecycle, goal, at, target, tries, reporting, handlers, spinning, heard>>

InstallHandlers ==
  /\ main = "hooked"
  /\ handlers' = TRUE
  /\ main' = "handled"
  /\ UNCHANGED <<added, lifecycle, goal, at, target, tries, reporting, callback, spinning, heard>>

BeginSpin ==
  /\ main = "handled"
  /\ spinning' = TRUE
  /\ main' = "spinning"
  /\ UNCHANGED <<added, lifecycle, goal, at, target, tries, reporting, callback, handlers, heard>>

\* spin() looks at its flag before every callback. (One more may be begun after
\* cancel(), by a spin() that has just looked; any number may be here.)
EndSpin ==
  /\ main = "spinning" /\ ~spinning
  /\ callback' = FALSE
  /\ main' = "unhooked"
  /\ UNCHANGED <<added, lifecycle, goal, at, target, tries, reporting, handlers, spinning, heard>>

RestoreHandlers ==
  /\ main = "unhooked"
  /\ handlers' = FALSE
  /\ BeginTakeDown("stopping")
  /\ UNCHANGED <<added, lifecycle, goal, target, tries, reporting, callback, spinning, heard>>

\* cancel()
CancelSpin == spinning' = FALSE

\* SIGINT or SIGTERM. Before its handlers are installed, and after they are
\* gone, it ends the process on the spot; in between it calls the callback.
Signal ==
  /\ main # "over"
  /\ \/ ~handlers /\ GoTo("over", 0) /\ UNCHANGED <<spinning, heard>>
     \/ handlers /\ callback /\ CancelSpin /\ heard' = main /\ UNCHANGED <<main, at>>
     \/ handlers /\ ~callback /\ heard' = main /\ UNCHANGED <<spinning, main, at>>
  /\ UNCHANGED <<added, lifecycle, goal, target, tries, reporting, callback, handlers>>

\* shutdown(): every node is finalized, and the process can end.
Shutdown ==
  /\ main \in {"adding", "failed", "ready", "stopped"}
  /\ lifecycle' = [c \in Capabilities |-> IF c \in Added THEN "finalized" ELSE lifecycle[c]]
  /\ GoTo("over", 0)
  /\ UNCHANGED <<added, goal, target, tries, reporting, signals>>

-------------------------------------------------------------------------------
(* What happens while the executor spins.                                  *)

\* A goal is accepted and its worker starts.
ReceiveGoal(c) ==
  /\ main = "spinning"
  /\ lifecycle[c] = "active" /\ goal[c] = "none"
  /\ goal' = [goal EXCEPT ![c] = "running"]
  /\ UNCHANGED <<added, lifecycle, main, at, target, tries, reporting, signals>>

\* The worker: on_execute() returns.
EndGoal(c) ==
  /\ goal[c] # "none"
  /\ goal' = [goal EXCEPT ![c] = "none"]
  /\ UNCHANGED <<added, lifecycle, main, at, target, tries, reporting, signals>>

\* An operator's lifecycle call that cannot block.
ChangeState(c) ==
  /\ main = "spinning"
  /\ \/ lifecycle[c] = "unconfigured" /\ Becomes(c, "inactive")
     \/ lifecycle[c] = "inactive" /\ Becomes(c, "active")
     \/ lifecycle[c] = "inactive" /\ Becomes(c, "unconfigured")
     \/ lifecycle[c] \in {"unconfigured", "inactive"} /\ Becomes(c, "finalized")
  /\ UNCHANGED <<added, goal, main, at, target, tries, reporting, signals>>

\* One that can: it waits, on the main thread, for the capability's goal.
BeginService(c, to) ==
  /\ main = "spinning"
  /\ lifecycle[c] = "active"
  /\ AskGoal(c)
  /\ GoTo("serving", c) /\ target' = to
  /\ UNCHANGED <<added, lifecycle, tries, reporting, signals>>

EndService ==
  /\ main = "serving"
  /\ goal[at] = "none"
  /\ Becomes(at, target)
  /\ GoTo("spinning", 0) /\ target' = "none"
  /\ UNCHANGED <<added, goal, tries, reporting, signals>>

-------------------------------------------------------------------------------
MainStep ==
  \/ ConfigureNext \/ AllConfigured \/ ActivateNext \/ Started
  \/ AskNext \/ TakeDownNext \/ AllDown
  \/ SetCallback \/ InstallHandlers \/ BeginSpin \/ EndSpin \/ RestoreHandlers
  \/ EndService

Caller == AddCapability \/ Start \/ Exit \/ Shutdown

Others ==
  \E c \in Added :
    \/ ReceiveGoal(c) \/ EndGoal(c) \/ ChangeState(c)
    \/ \E to \in {"inactive", "finalized"} : BeginService(c, to)

Next == MainStep \/ Caller \/ Others \/ Signal

Spec == Init /\ [][Next]_vars

\* The main thread runs, looks at the executor's flag again and again, and a goal
\* that is asked to stop returns. Nobody has to send signals or goals or call
\* services, and no other goal has to end.
Fairness ==
  /\ WF_vars(MainStep) /\ SF_vars(EndSpin)
  /\ \A c \in Capabilities : WF_vars(goal[c] = "asked" /\ EndGoal(c))

FairSpec == Spec /\ Fairness

-------------------------------------------------------------------------------
TypeOK ==
  /\ added \in 0..Size /\ at \in 0..(Size + 1) /\ tries \in 0..Tries
  /\ lifecycle \in [Capabilities -> Up \cup {"unconfigured", "finalized"}]
  /\ goal \in [Capabilities -> {"none", "running", "asked"}]
  /\ main \in {"adding", "configuring", "activating", "undoing", "failed", "ready", "hooked",
               "handled", "spinning", "serving", "unhooked", "stopping", "stopped", "over"}
  /\ target \in {"none", "inactive", "finalized"}
  /\ reporting \in BOOLEAN
  /\ callback \in BOOLEAN /\ handlers \in BOOLEAN /\ spinning \in BOOLEAN
  /\ heard \in {"none", "handled", "spinning", "serving", "unhooked"}

\* "No half-started robot is left running": a start that succeeded has every
\* capability active, also until the executor spins, and one that failed, at
\* whichever capability and transition, has every one back to unconfigured,
\* and then nothing is reported of the robot.
AllOrNothing ==
  /\ main \in {"ready", "hooked", "handled"} => \A c \in Added : lifecycle[c] = "active"
  /\ main = "failed" => \A c \in Added : lifecycle[c] = "unconfigured"
  /\ main = "failed" => ~reporting

\* When run() returns, no capability is left configured or active and no goal
\* runs, whatever operators did to the capabilities and whoever was blocked in a
\* lifecycle service when the signal came.
NothingLeftBehind ==
  main = "stopped" =>
    \A c \in Added : lifecycle[c] \notin Up /\ goal[c] = "none"

\* "In reverse order": the main thread takes a capability down only after all
\* those that were added later, whether it rolls back or stops.
LastAddedFirst ==
  [][\A c, d \in Added :
       /\ main \in {"undoing", "stopping"}
       /\ lifecycle[c] \in Up /\ lifecycle'[c] \notin Up
       /\ d > c
       => lifecycle[d] \notin Up]_vars

\* "Blocks until SIGINT/SIGTERM": when a signal comes while the executor spins,
\* run() returns, although goals may be running and the main thread may be waiting
\* for one of them in a lifecycle service; or a second signal ends the process.
SignalsEndRun == heard \in {"spinning", "serving"} ~> main \in {"stopped", "over"}

===============================================================================
