# EasyFleet in TLA+

This directory is a verification project for [EasyFleet](../src/README.md), a fleet manager
for ROS 2 robots: TLA+ modules translated from the C++ and Python sources, TLC models that
check them on small instances, and TLAPS proofs of what matters most for every instance.
`PROJECT.json` maps each definition to the source lines it stands for and lists the runs, the
mutants that show what each property catches, the hazards and the theorems.

## 1. The system

EasyFleet has three tiers. *Capabilities* run on the robots: lifecycle nodes, each with one ROS 2
action server. A *mission controller* runs anywhere: it discovers the robots, sends goals to their
capabilities and follows them. A *navigation manager* watches all robots that navigate and pauses
those that would get in each other's way. The tiers only share topics, services and actions.

| component | state | operations | what it must guarantee |
|---|---|---|---|
| `ActionServerBase` (easyfleet_core) | the queued and the active goal handle, switches (`goals_enabled_`, `allow_preemption_`, `shutting_down_`), stop requests | `handle_goal`, `handle_accepted`, cancel, `worker_loop`, `enable_goals`, `disable_goals`, `halt_active_goal`, `stop` | no goal is lost or settled twice; one goal runs at a time; the newest wins; a stop reaches the goal it is meant for; calls return |
| `Capability` | lifecycle state, publishers and timers, order history, link watchdog | the lifecycle transitions, accepted callback, status subscription, heartbeat and link timers | serves goals only while active; reports what is so; stops when the link is lost |
| `OrderHistory` | the last N orders and their states | `accepted`, `update`, `trim`, `find`, `latest` | never lies about an order; unfinished orders stay |
| `LinkWatchdog` | last heartbeat, link state | `reset`, `heard`, `update` | says lost when it is, once per loss |
| `ActionClient`, `CapabilityClient` | the goal handles of the sent goals, send ids | `send_goal`, `send_goal_and_wait`, `cancel_goal`, `request_cancel`, `cancel_all_goals` | a cancel reaches a goal that is still being sent; callbacks fire once |
| `RunningCapability` (easyfleet_mission_manager) | the outcome of one goal, its deadlines | `run`, `stop`, `check_timeout`, `settle` | a mission gets one outcome, that of its last goal, also when the robot dies |
| `FleetSession`, `RobotHandle` | the registry of capabilities with their heartbeats, the robots' reports, the handles | the subscriptions, `add_robot`, `remove_robot`, `run_capability`, `spin_some`, `robot_status`, `get_order`, destructors | the living are alive and the dead are not; handles and session never point to one that is gone; the newest order is returned |
| `Deployment` (easyfleet_core) | the capabilities of a process, the executor, the signal handlers | `add_capability`, `try_start`, `run`, `shutdown` | all capabilities or none; a signal ends it; nothing is left behind |
| conflict detector, navigation manager, watchers (easyfleet_navigation_manager) | who is watched, who is paused and since when, each robot's reported state | heartbeats, `reconcile_watchers`, `check_conflicts`, `on_control`, `ensure_paused`, `resume` | no two robots obstruct each other; someone always moves; nobody is paused for good |
| `RoutesPublisher` | the route graph, its file, the next id, the interactive markers | `publish`, `handle_interactive_feedback`, `save_routes` | an edit hits the segment it was meant for; robots get it; it survives a restart |
| `CallCapability` and its subclasses (easyfleet_bt_nodes) | one call in progress, its number, what it heard | `onStart`, `onRunning`, `onHalted`, the destructor | an answer is the answer of this call; a halted call stops its robot |
| Python action server (easyfleet_mission_manager_py) | the waiting and active handles, switches | `_handle_goal`, `_handle_accepted`, `_dispatch_execute`, `_wait_for_turn`, `halt`, `disable`, `destroy` | what `ActionServerBase` must, on several callback threads |
| tools, interfaces, helpers | none | read-only views; message types | |

Interactions. A client's goal goes through the action's services into `ActionServerBase`, whose
worker thread runs the capability's `on_execute()`; `rclcpp_action` publishes all goals' states on a
topic, which `Capability` reads back to keep its `OrderHistory`. The mission controller publishes a
heartbeat that every capability's `LinkWatchdog` listens to; every capability publishes one that
`FleetSession` and the navigation manager listen to. The navigation manager and a robot's own clients
both write PAUSE and RESUME to the robot's control topic; the robot's GoalManager (EasyNav) has one pause flag.

What is hard here: three threads around one pair of goal handles, or a pool of threads around a table
of them; decisions taken under one lock and
carried out under another; results, states and reports that overtake each other or overwrite each
other in a queue of one; blocking lifecycle transitions on the only callback thread; robots that fall
silent while they are paused; a shared pause flag; fairness of the yielding rule; starts of which one
step fails; signals between two statements; late feedback to a graph that has changed since; objects that
point to each other and die in any order. `hazards` in
`PROJECT.json` lists each at its line.

## 2. Modules

| module | models | how |
|---|---|---|
| `GoalServer` | what an action server promises | abstract specification: one status per goal |
| `ActionServer` | `ActionServerBase` | one action per critical section or handle call, three threads (`pc`, `arg`, `cont`); implements `GoalServer` |
| `ActionServerProofs` | | inductive invariant, safety theorems, the refinement |
| `OrderHistory`, `LinkWatchdog` | the two helper classes | pure operators, and actions over the watchdog's variables |
| `Capability` | `Capability` with its history and watchdog | composes `GoalServer`, `OrderHistory`, `LinkWatchdog`; the executor's callbacks are actions, split where they block |
| `ConflictDetector` | `compute_robots_to_pause()` | operators over abstract gaps and lengths |
| `NavigationManager` | `NavigationManagerNode` for the whole fleet | `reconcile_watchers()` and `check_conflicts()` against robots that do as they like |
| `NavigationManagerProofs` | | all of the package: the routes, the conflict rule and the manager |
| `RobotNavigationWatcher` | the exchange of messages with one robot | the watcher, the manager's decision for this robot and, external, its GoalManager, with two message queues |
| `RobotNavigationWatcherProofs` | | two inductive invariants, for queues of any length |
| `ActionClient` | `ActionClient` | any number of calling threads, the client's own thread and a `GoalServer` at the other end; calls are split where they leave the mutex |
| `RunningCapability` | `RunningCapability`, and of `RobotHandle` and `FleetSession` what drives it | the mission's thread over an `ActionClient`; every decision taken on a value read before is two actions |
| `CallCapability` | a node of a behaviour tree that calls a capability | the tree's thread over an `ActionClient` of its own; calls are split where callbacks can come in between |
| `FleetSession` | `FleetSession`, `RobotHandle` and the processes they hear of | heartbeats and reports in ticks, each sent once a tick or lost; the mission's calls are actions, `get_order()` one per answer |
| `Deployment` | `Deployment` and `spin_until_shutdown()` | the main thread as one action per statement that something can come between; workers, operators and signals around it |
| `PythonActionServer` | the Python action server | one action per critical section, a `pc` per goal's callback, a bounded pool of threads; implements `GoalServer` |
| `RoutesPublisher` | `RoutesPublisher` | every handler is an action, but for its save, which is one of its own: a restart may fall between sending an edit and saving it; a queue between the editors' clicks and the handlers |
| `CallCapabilityProofs` | | the client's safety for any number of goals and of callers, then the node's, which extends it |
| `MissionProofs` | | `RunningCapability` for any number of goals, by the client's proofs through an instance, and `FleetSession` for any number of robots and capabilities |
| `PythonActionServerProofs` | | inductive invariant, safety and the refinement, for any number of goals and threads |
| `CapabilityProofs` | | the three safety properties of a capability, and what its history drops and keeps |
| `DeploymentProofs` | | starts and stops of robots of any size |
| `MC...` | | constants of the TLC instances; where there is none, the `.cfg` gives them |

How state corresponds to code. Variables keep the source's names where TLA+ allows (`goals_enabled`,
`preempt_requested`, `active` and `pending` for `active_handle_` and `pending_handle_`, `waited` for
`currently_paused_` with its time in checks, `held` for one robot's place in it). Goals are numbered
by arrival: an identifier is only a name, and the order lets properties speak of "newer". Mistakes a
programmer could make stand beside the definitions they are mistakes of (`DisableGoals_IgnoresQueued`);
no action uses them, and each shows which property would catch it.

`RunningCapability`'s generation number is represented by `current`, the one goal whose callback
remembers it, since `run()` and every local decision to give up make all earlier callbacks stale.
`CallCapability`'s `call_` is represented in the same way. A segment of `RoutesPublisher` has a `key`
besides its id, which the code knows nothing of: two segments with one id are told apart by it.
History variables, which no guard reads, let properties speak of the past: `wanted` (in `ActionClient`)
says who was asked to be canceled, `stopped` whether the mission called `stop_capability()` since its last
run, `stood` (in `NavigationManager`) at how many checks a robot has stayed paused, `held` and `failed` (in
`RoutesPublisher`) which segments were dragged and not released, and which have edits no save has written.

Definitions marked `external` in the map are libraries: `rclcpp_action`'s state machine of a goal and
its status topic, condition variables' spurious wakeups, the clock, and EasyNav's GoalManager. They
are modelled from how the code uses them.

## 3. Runs

Every bound is a constant of a `.cfg`. "States" are distinct states TLC visits.

| run | instance | shows |
|---|---|---|
| `ActionServer` | 3 goals, the controller's calls on the executor's thread (as in `Capability`), preemption switched at will, fair | stop requests have a cause; with preemption off a goal is accepted only when those before are settled; nothing starts while goals are disabled; calls return; queued goals move; implements `GoalServer` |
| `Capability` | 2 goals, history of 1, link timeout 2 ticks, timer period 1, a lost link cancels, fair | goals are served and timers run only while active; the history is truthful and catches up; the link state is true across activations; a lost link stops the goal; transitions end |
| `NavigationManager` | 3 robots that come and go, 2 lengths, pause of 1 check | paused robots can be resumed, pairs are kept apart, someone moves, everybody's turn comes |
| `RobotNavigationWatcher` | 2 requests and 3 reports in flight, fair | nobody is left standing, held robots stop |
| `ActionClient` | 2 goals, 2 calling threads, fair | a cancel is never forgotten, and gets through |
| `RunningCapability` | 2 goals, fair | outcomes are the last goal's, give-ups are final, a mission never waits for ever |
| `CallCapability` | 2 goals, one node, fair | a node hears only of its own call; no goal is left uncanceled between calls; outcomes end calls; halted goals end |
| `PythonActionServer` | 2 goals, 3 threads, preemption switched at will, fair | idle from the return of `disable_goals()` until goals are enabled; a goal in the table gets its turn; implements `GoalServer` |
| `PythonActionServerOff` | 2 goals, 2 threads, preemption off | **violation**: two goals are accepted back to back (finding) |
| `Deployment` | up to 3 capabilities, 2 tries, fair | all or none after a start; nothing left after a stop; a signal ends the run |
| `FleetSession` | 1 robot with 2 capabilities, liveness of 3 periods, 2 orders, 2 faults | no dangling handle or session; one lost heartbeat is tolerated; the dead are noticed; the newest order is returned |
| `RoutesPublisher` | 2 editors, 2 segments at a time of 3 ever, ids 1 and 2 at first, 2 poses, 2 pieces of feedback in flight, 1 segment at a time whose save failed | robots follow the edits; late feedback hits its own segment or none; a restart takes back no edit that was saved, wherever it falls |

Why the bounds are enough. `ActionServer` has two slots for goals, so three goals reach every
combination of running, queued and superseding; further goals repeat them, and the proofs hold for
any number. `Capability` needs a goal more than its history holds, for `trim()` to have to drop one; what it
chooses is proved of histories of any size. A conflict involves two robots, a cycle three. For a
pause of one check, three robots are also the most `TurnsCome` speaks of (`MaxPause + 2`): the robots that
may take turns before a third one are all there. In larger fleets than that it does not hold (*Seen while
modelling*); within that size the proof covers any number and any pause. On the watcher's topics one message of each kind has to
overtake the other side's decision, which takes two requests and three reports; its proofs hold for any
length. A cancel of all goals tells goals sent before from goals sent after, and a result is the last
goal's or a superseded one's: two goals each, for the tree's node also its present and its former call.
Two threads are enough to cancel a goal another one waits for. The Python server's races are between
the callbacks of two goals; with three threads a third callback (a controller's) runs beside them, and
goals that wait can fill the pool but for one thread. A start can fail before, at and after a capability, which takes three; a second try
starts from what the first left. In the fleet, what two capabilities of one robot report is merged;
two faults give a loss after a loss, and a crash after a loss. A route's id can be taken again only if a
segment is removed and another added while feedback for the first is on its way: three segments ever,
and two pieces of feedback. With two segments a save can fail for one, be pending for the other, and make up
for the first; two poses tell an endpoint that moved from one that did not.

`CHECK_DEADLOCK FALSE` stands where a system may really stop: a capability that is finalized with
all its goals answered and its timers cancelled; a client, a server or a tree whose goals (`MaxGoals`)
are all over; a process that has ended.

### Fairness

`ActionServer`: each thread that can take a step takes one (the operating system schedules them), and
an `on_execute()` that is asked to stop returns, which is what its contract in `action_server_base.hpp` asks
of it; clients, timers and an `on_execute()` nobody asks to stop owe nothing. `PythonActionServer`: the
same of each callback that has a thread; a task whose goal waits for a thread gets one if there is
one again and again (strongly fair, for other callbacks compete for it). `Capability`: callbacks
that began end, messages that are published arrive (strongly fair, since other callbacks compete for
the executor), timers fire. `Deployment`: the main thread goes on, goals that are asked to stop return,
and a spin that was canceled ends although services keep coming (strongly fair).
`RobotNavigationWatcher`: messages are delivered, a second passes, and checks that find the robot still
held, or that have lost sight of it, do happen. Requests are taken with strong fairness because the
model's topic may be full of reports at any moment. `ActionClient`: the client's thread runs, a call
that has copied handles goes on, and the server answers requests, takes cancel requests and settles
what it was asked to cancel (`QueuedGoalsMove` of `ActionServer`); `CallCapability` adds that the tree
keeps ticking a running node and finishes the calls it began. `RunningCapability`: the mission keeps
polling (strongly fair: between two polls it may do anything else), its calls return and time passes;
nothing is assumed of the server, the client's thread or the heartbeats, since the point is that a
mission does not depend on them. `NavigationManager`, `FleetSession` and `RoutesPublisher` have safety
properties only and assume none: `TurnsCome` counts checks, so it needs no fairness of the timers.

### Finding

`PythonActionServerOff`: `_handle_goal()` finds the server idle in one critical section
(`action_server_base.py:336-344`), and the goal enters `_waiting_handles` in another
(`action_server_base.py:354-357`). The callbacks are reentrant on a multi-threaded executor, so a second
request can be accepted in between, against the comment at lines 339-340. The C++ server has the same
two steps, on one callback thread; there the property is proved.

### Seen while modelling

The models contain these behaviours, and no property claims otherwise.

- In a fleet of more than `MaxPause + 2` robots (`max_pause_sec` in periods of the conflict timer) that are
  all in each other's way, the one with the longest path may never go on: the shorter ones are paused again
  after each release, and at each check one of them has priority as well, which then
  decides by path length again (`conflict_detector.cpp:157-176`, `navigation_manager_node.cpp:381-386`,
  against `conflict_detector.hpp:113-115`). With four robots and a pause of one check TLC finds it without any
  robot moving between checks; with three and a pause of none too. The defaults (30 s, 0.5 s) would take more
  than 62 robots; `TurnsCome` speaks of fleets up to that size.
- `disable_goals()` called from a thread other than the executor's can come between the two critical
  sections of `handle_accepted()` (`action_server_base_impl.hpp:309-332`) and miss the goal. The sources
  make no such call: `Capability` disables goals in lifecycle callbacks; a test does
  (`test_fleet_session_robot_handle.cpp`). `ActionServer` has the
  case as `SharedThread = FALSE`; the theorems say which properties need `SharedThread`.
- `check_timeout()` decides on a `state_` it read without `settle_mutex_` and settles without looking
  again (`running_capability.hpp:169-178`): an outcome, a success included, that arrives in between is
  overwritten, against line 49.
- `stop_capability()` returns at once unless the state is RUNNING, so it does not reach a goal that the
  mission gave up on and that the robot still executes, against `robot_handle.hpp:142`. `run_capability()`
  on a robot without a heartbeat leaves the last call's state in place.
- The manager's RESUME ends an operator's pause (`navigation_manager_node.cpp:431`, against
  `navigation_manager_node.hpp:148`): both are one flag of the GoalManager. A restarted manager does not
  know whom it paused.
- A signal between the installation of the handlers and `spin()` (`spin_utils.cpp:49-51`) cancels an
  executor that does not spin yet, and is lost.
- With `kAliveTimeout` of three periods, two lost heartbeats in a row make a live capability look dead,
  where `fleet_session.cpp:35-38` speaks of one or two; the property is stated of one.
- A `CallCapability` that is started for another action, or destroyed, drops its client; a cancel that
  waits for the goal's acceptance goes with it, and the robot goes on (against `call_capability.hpp:212`).
- A half-dragged endpoint is published and saved with any other edit in between; if its marker is gone
  when it is released, the rest of the drag is lost. An edit is sent to the robots before it is saved,
  so a restart in between takes it back; edits that are saved to another `save_path` are not the ones loaded
  after a restart.
- `cancel_all_goals()` would leave by an exception, with handles it has not cancelled yet, if
  `rclcpp_action` refuses a handle whose result has just been delivered (`action_client_impl.hpp:303`
  catches only `RCLError`; the case is in the model, as `pc = "thrown"`).
- `get_status()` reports the newest order, queued or not, where `CapabilityStatus.msg:24` speaks of the
  running one; the pose in `robot_status()` may be older than its stamp. Both are only displayed.

## 4. Proofs

All theorems hold for every value of the constants that the modules' assumptions allow. `tlapm`
checks each leaf with Z3, Zenon or LS4. Each argument is an inductive invariant: the initial states have
it, every step keeps it, and the property follows from it; TLC checked the invariants on small instances
before they were proved.

**ActionServer.** The invariant has to say which thread may hold which goal at each point of its
code, or no step could be shown to keep a goal from being lost. `IInv` adds to the type invariant:
where a thread goes on after settling a goal, that a held handle is live, that goals are received in
order (so "newer" is well defined), one holder per goal, the queue holding the newest accepted goal,
and causes for the stop requests. From it follow `TypeCorrect`, `GoalsAreNeverLost`,
`SettlesAlwaysLegal`, `StopRequestsNeverLeak`, `NewestGoalWins`; with the assumption that calls share
the executor's thread, `DisabledGoalsNeverStart` and `DisableLeavesNothing`. `OneClientWithoutPreemption`
follows from it for one step: only `AdmitGoal` makes a goal live, and at that point a goal without a
result would be queued, active or in the hands of a `disable_goals()` under way.
`ActionServerImplementsGoalServer` shows that every step moves one goal's abstract status along
`GoalServer`'s next-state relation or moves none.

**Capability.** Four groups of conjuncts, each kept on its own. *Serving*: from the moment a transition
disables goals none waits, so none is left to start when it ends; the worker holds the goal that runs;
publishers exist from `on_configure()` on. `OnlyServesWhileActive` alone is not inductive, since it says
nothing of an active node that is on its way out. *Telling*: the topic is as truthful as the history
has to be, and goals are received in order, so the goal whose order is recorded is the accepted one
(`HistoryIsTruthful`). *Watching*: only a watchdog with a timeout is watched (`LinkStateIsTrue`). *Types*.
`GoalSteps` says what any step may do to a goal, and most of *Telling* follows from that lemma alone.
Of the history's operators, `UnfinishedOrdersStay` needs no invariant; `HistoryIsBounded` rests on
`trim()` dropping exactly one order when there is one too many, which takes the least element of a set
of goals (well-foundedness of `<`) and counting (`FiniteSetTheorems`).

**Deployment.** `Progress` says what each of the three loops leaves behind it (up to `at` while starting,
beyond `at` while undoing and stopping); without it `AllOrNothing` and `NothingLeftBehind` only speak of
the states in which the loops have ended. The rest excludes services while a loop runs: they are
served for one of the capabilities only while the executor spins (`Serves`), signals reach the process's
handlers only around the spin (`Hooked`), capabilities not added yet are untouched (`Untouched`), and the
status is reported only after a start (`Silent`).

**Conflict detector.** `SomeoneIsFree`: take the robots in sight with priority if there are any, else
all; of those the moving ones if there are any, else all; of those one with the shortest remaining path
(the last by name). It yields to nobody, and if any robot in sight has priority, it is one of those. The minimum of a set of naturals comes from the
well-foundedness of `<`.

**NavigationManager.** (In `NavigationManagerProofs`, with the routes: it extends both models.) Types
(with `seen \subseteq watched` and symmetric gaps) and `PausedAreWatched` are inductive; `SomeoneAlwaysMoves` lifts `SomeoneIsFree` to checks,
`PairsAlwaysKeepApart` and `ReleasesAlwaysHaveACause` unfold the rule. `EverybodysTurnComes` is a counting
argument, carried by an invariant. A robot that has stayed paused for `MaxPause` checks has priority
(`StoodInv`), so at every later check that passes it over another robot with priority is let go, since
`SomeoneIsFree` picks one of those. `OvertakenInv`: a robot passed over at k checks in a row saw k different robots
go at those checks, because one that was let go is paused again, if at all, at the next check, and has priority
only `MaxPause` checks after that; with at most `MaxPause + 2` robots that is too late to go twice. There
are `NumRobots - 1` others, which bounds k.

**RobotNavigationWatcher.** `StopsAlwaysAccountedFor` needs two facts that are not visible in the
property: the last request on its way to a robot that is not held is RESUME, and a robot standing still
without a goal does not exist. `QuietViewAlwaysTrue` needs to know what the watcher *will* believe:
`EndsPaused` and `EndsIdle` read the belief off the reports on their way, and every step that changes
the robot appends the report that keeps this reading true.

**RoutesPublisher.** (The first part of `NavigationManagerProofs`.) `LateEditsHit` is a property of one
step, but rests on an invariant of all that names a segment: an edit on its way (`InboxInv`) or a drag
under way (`DragInv`) carries an id below `next_route_id`, and if a segment has that id, it is the one
that was meant. That needs ids to be unique and below the next one (`IdsInv`), also for the routes in the
file, from which a restart computes the next id anew; the ids in the file once were below some number,
which is what makes their maximum exist. `RobotsFollow` is inductive with the types. So is `SavedEditsSurvive`
together with it: a save writes what is drawn, hence makes up for all that failed before; what a handler changes
is the segment it then has yet to save, and no other handler begins before that save; and a restart, also
one before the save, draws and sends what the file holds.

**FleetSession.** (In `MissionProofs`.) `NobodyEverDangles` is inductive as it stands. The others speak of one state and need
what leads there. `ALossIsTolerated`: as soon as one heartbeat got through, the age of a capability is at
most the heartbeats lost in a row, plus one that is due (`LossesExplainSilence`); it assumes
`AliveTimeout >= 3`, which the code's `kAliveTimeout` of three periods meets and a smaller one would not.
`TheDeadAreNoticed`: the ages grow with the time a capability has been dead (`TheDeadAreSilent`).
`TheNewestIsReturned`: while `get_order()` waits, no answer is older than its floor, and no order a
capability has still to answer with is (`AnswersAreFresh`), although crashes and evictions change both.

**ActionClient.** (In `CallCapabilityProofs`.) `NobodyCancelsAnotherGoal` needs to know where each
cancel request can come from (`CancelsHaveACause`: `cancel_before_`, a timeout, a copied handle), `CancelsAreNeverForgotten` that a
call never replaces handles another one still holds (`CallsStartEmptyHanded`).

**RunningCapability.** (In `MissionProofs`.) The client's types hold by the client's own proof: `MissionUsesClient` shows that
every step of the mission is a step of `ActionClient` with one caller, and the lemma about its steps is
instantiated. The invariant relates the state, the goal whose callback still counts and what the
mission's thread is doing: nothing can settle a goal between `run()`'s new generation and its
`request()`, only an outcome can arrive while `check_timeout()` decides, and a cancel deadline means
that all goals sent so far were canceled.

**CallCapability.** The node's steps are steps of its client, or leave it alone, so the client's two
invariants are kept by its own lemmas (`TheNodesCancelsAreKept`). `AnswersAreTheNodesOwn` needs, for every
point between the statements of `onStart()`, which goal is the newest and what of it may have been heard
(`CallInv`): the outcome of the last goal may arrive before `send_goal()` has returned.
`NothingIsLeftRunning` is not inductive since it says nothing while a call is under way:
`OlderCallsEnded` says all that time that every goal but the call's own is over or wanted canceled.

**PythonActionServer.** No queue in the code orders the goals; two rules do. A goal polls for its turn
only after it has marked every goal that was in the table when it entered, and a marked goal is refused
its turn. `OrderInv` says what this amounts to in between: of two goals in the table of which the older
may still run, the newer has yet to mark it. With what rclpy knows of a goal at each point of its
callbacks (`StagesInv`) and which points hold a place in the table (`TableInv`) it is inductive.
`PythonServerImplementsGoalServer` numbers goals by their entry into the table (`EnteredInv`: nobody enters
twice, so there are numbers for all, by counting): a step moves one goal's status, or drops all that wait
(`HaltDrops`), or shows nothing because the goal has not entered. `DisabledServerIsIdle` rests
on `DisabledInv`: `disable_goals()` returns when nobody holds the turn, and no turn is given until goals are
enabled; and on `TableInv`, which says that a goal that runs, or is about to, holds it.

Only model-checked: all liveness properties (`CallsReturn`, `QueuedGoalsMove`, `OrdersCatchUp`,
`TransitionsEnd`, `LostLinkStops`, `HeldRobotsStop`, `CanceledGoalsEnd`, `RunningEnds`,
`AnsweredCallsEnd`, `HaltedGoalsStop`, `WaitingGoalsMove`, `SignalsEndRun`), since liveness under fairness
and ENABLED are out of the prover's reach. Facts about recursive definitions for every input cannot be proved here
either; the modules under proof have none.

## 5. Abstractions and limits

- A goal's payload, feedback and outcome message are left out; an order stands for its goal, so a
  client that reuses an order id is not modelled. `rcl_action` never expires a goal in the models.
- Geometry is abstracted to three gaps. The hysteresis factor is taken to be at least 1, as its name and
  default say; below 1 "near" and "close" would swap.
- `TurnsCome` is a promise to fleets of at most `max_pause_sec` / check period + 2 robots, 62 with the defaults;
  the code does not look at that relation, and beyond it the promise fails.
- Control topics are taken as reliable and in order. The RESUME sent to a robot that fell silent is
  "best effort" in the code and delivered in the model.
- In `RunningCapability` the registry of heartbeats is one flag, and a `run()` is one of a robot that is
  alive; the registry itself is `FleetSession`, where in turn a goal just ends or is given up.
- In `FleetSession` what is sent in a period is heard in it or lost; reports are told from no reports, and
  their contents (poses, batteries) are left out. Orders are stamped by one clock.
- `CallCapability`'s ports, blackboard and feedback contents are left out; what the feedback of a
  perception goal says is a choice of the model.
- `Deployment` loads plugins without failure; `run()` of a robot without capabilities is included. A subclass's
  lifecycle callback that throws or returns ERROR, which would leave its node FINALIZED, is left out: the
  repository's own callbacks return SUCCESS or FAILURE.
- `RoutesPublisher`'s segments have one pose in place of two endpoints, and its markers are the controls
  they offer. Writing a file is one step; sending an edit and saving it are two.
- In `PythonActionServer` one controller at a time calls `enable_goals()`, `disable_goals()` and `destroy()`.
- `ActionClient`'s server answers goal requests in the order they were sent, as `ActionServerBase` does.
- `ensure_resumed()` and `resume_sent_` are not used by any caller and are left out.
- Time is discrete where a timeout matters, and only an order of events elsewhere.

### Not modelled

- Capability discovery (`capability_discovery.cpp`): free functions for command line tools, which listen for
  a while and return what they heard. The parsing of descriptions is data.
- Mission helpers, controllers and status markers: goal builders, a base class that calls one method at a
  rate, RViz markers. No state of two actors but behind one mutex each.
- Fleet obstacles, the relay of transforms, the map publisher: transforms and clouds are geometry over the
  reals, with no decision that other parts depend on; the map is read and published once.
- The factory, parameter and naming helpers: a registry filled before it is used, and string clean-up.
- The Python classes other than the action server: they follow their C++ counterparts' rules; nothing
  here says that the two agree.
- Command line and terminal tools (read-only), the interfaces package (types).

## 6. State of the plan

Every component with state that two actors share has a module, and every safety property that a passing
run checks is proved, with both refinements of `GoalServer`. What is left to TLC alone is liveness. A model
of capability discovery, and one of the Python mission manager, would be next.
