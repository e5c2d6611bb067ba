-------------------------- MODULE NavigationManager --------------------------
(***************************************************************************)
(* NavigationManagerNode (easyfleet_navigation_manager): watches the paths *)
(* of the fleet's robots and pauses those that have to make way.           *)
(*                                                                         *)
(* One node on one thread: every action is one of its callbacks. What the  *)
(* robots and the passage of time do in between (driving, replanning, new  *)
(* goals, silence) is in Drive, Replan, ViewChanges and HeartbeatChanges.  *)
(* The exchange of messages with each robot is RobotNavigationWatcher's.   *)
(***************************************************************************)
EXTENDS ConflictDetector

CONSTANTS
  MaxPause,     \* max_pause_sec, in periods of the conflict timer
  MaxLength,    \* the longest path (a bound for TLC)
  StaticList    \* whether "robots.static_list" names the robots

ASSUME NavigationAssumption ==
  /\ NumRobots \in Nat
  /\ MaxPause \in Nat
  /\ MaxLength \in Nat \ {0}
  /\ StaticList \in BOOLEAN

VARIABLES
  heard,      \* robots whose heartbeat is not stale
  watched,    \* robots with a watcher
  seen,       \* watched robots that navigate, with a recent path
  gap,        \* how close each two robots and their paths are
  length,     \* the length of each remaining path
  waited,     \* currently_paused_: for how many checks, or NotPaused
  stood       \* at how many checks it has stayed paused since, up to TooLong
              \* (history)

scene == <<heard, seen, gap, length>>
vars == <<scene, watched, waited, stood>>

NotPaused == -1

\* More checks than it takes until a robot has priority and every other one has
\* gone before it once.
TooLong == MaxPause + NumRobots

Paused == {r \in Robots : waited[r] # NotPaused}

\* Robots paused for more than max_pause_sec at the next check.
Priority == {r \in Paused : waited[r] >= MaxPause}

ToPause == RobotsToPause(seen, gap, length, Paused, Priority)

Init ==
  /\ heard = {}
  /\ watched = IF StaticList THEN Robots ELSE {}
  /\ seen = {}
  /\ gap = [r \in Robots |-> [s \in Robots |-> "far"]]
  /\ length = [r \in Robots |-> MaxLength]
  /\ waited = [r \in Robots |-> NotPaused]
  /\ stood = [r \in Robots |-> 0]

-------------------------------------------------------------------------------
(* The robots.                                                             *)

\* Two robots or their paths come closer or draw apart.
Drive ==
  \E r, s \in Robots, g \in Gaps :
    /\ r < s
    /\ gap' = [gap EXCEPT ![r][s] = g, ![s][r] = g]
    /\ UNCHANGED <<heard, seen, length, watched, waited, stood>>

\* A path gets another length.
Replan ==
  \E r \in Robots, n \in 1..MaxLength :
    /\ length' = [length EXCEPT ![r] = n]
    /\ UNCHANGED <<heard, seen, gap, watched, waited, stood>>

\* A robot starts or stops navigating, its path arrives or grows too old.
ViewChanges ==
  \E r \in watched :
    /\ seen' = IF r \in seen THEN seen \ {r} ELSE seen \cup {r}
    /\ UNCHANGED <<heard, gap, length, watched, waited, stood>>

\* A heartbeat arrives, or none has for staleness_sec.
HeartbeatChanges ==
  \E r \in Robots :
    /\ ~StaticList
    /\ heard' = IF r \in heard THEN heard \ {r} ELSE heard \cup {r}
    /\ UNCHANGED <<seen, gap, length, watched, waited, stood>>

-------------------------------------------------------------------------------
(* The manager's timers.                                                   *)

\* What a check adds to the history.
Count ==
  stood' = [r \in Robots |->
    IF waited[r] = NotPaused \/ waited'[r] = NotPaused THEN 0
    ELSE IF stood[r] < TooLong THEN stood[r] + 1 ELSE TooLong]

\* A mistake, for Reconcile: a dropped robot stays in currently_paused_.
Reconcile_PauseKept ==
  /\ ~StaticList
  /\ watched' = heard
  /\ seen' = seen \cap heard
  /\ UNCHANGED <<heard, gap, length, waited, stood>>

\* A mistake, for CheckConflicts: a robot once paused is not looked at again
\* while it is out of sight.
CheckConflicts_SeenOnly ==
  /\ waited' = [r \in Robots |->
       IF r \notin seen THEN waited[r]
       ELSE IF r \notin ToPause THEN NotPaused
       ELSE IF r \notin Paused THEN 0
       ELSE IF r \in Priority THEN MaxPause ELSE waited[r] + 1]
  /\ Count
  /\ UNCHANGED <<scene, watched>>

\* reconcile_watchers(): a robot that fell silent is resumed and forgotten.
Reconcile ==
  /\ ~StaticList
  /\ watched' = heard
  /\ seen' = seen \cap heard
  /\ waited' = [r \in Robots |-> IF r \in watched \ heard THEN NotPaused ELSE waited[r]]
  /\ stood' = [r \in Robots |-> IF r \in watched \ heard THEN 0 ELSE stood[r]]
  /\ UNCHANGED <<heard, gap, length>>

\* check_conflicts(): one period more for those that stay paused, up to the one
\* that gives priority.
CheckConflicts ==
  /\ waited' = [r \in Robots |->
       IF r \notin watched THEN waited[r]
       ELSE IF r \notin ToPause THEN NotPaused
       ELSE IF r \notin Paused THEN 0
       ELSE IF r \in Priority THEN MaxPause ELSE waited[r] + 1]
  /\ Count
  /\ UNCHANGED <<scene, watched>>

-------------------------------------------------------------------------------
Next ==
  \/ Drive \/ Replan \/ ViewChanges \/ HeartbeatChanges
  \/ Reconcile \/ CheckConflicts

Spec == Init /\ [][Next]_vars

-------------------------------------------------------------------------------
TypeOK ==
  /\ heard \subseteq Robots
  /\ watched \subseteq Robots
  /\ seen \subseteq watched
  /\ gap \in [Robots -> [Robots -> Gaps]]
  /\ \A r, s \in Robots : gap[r][s] = gap[s][r]
  /\ length \in [Robots -> 1..MaxLength]
  /\ waited \in [Robots -> {NotPaused} \cup 0..MaxPause]
  /\ stood \in [Robots -> 0..TooLong]

\* A robot the manager has paused is one it watches, so that it can resume it
\* however the robot leaves the fleet.
PausedAreWatched == Paused \subseteq watched

\* "Two robots that wait for each other would otherwise stay paused forever":
\* however the conflicts run around the fleet, and whoever waits already, a
\* check leaves one of the robots in sight free to go on.
SomeoneMoves ==
  [][CheckConflicts /\ seen # {} => \E r \in seen : waited'[r] = NotPaused]_vars

\* Of every two robots about to obstruct each other, a check stops one.
PairsKeepApart ==
  [][CheckConflicts =>
       \A r, s \in seen : InConflict(gap, Paused, r, s) =>
         waited'[r] # NotPaused \/ waited'[s] # NotPaused]_vars

\* "Not paused and resumed over and over": a robot in sight is released only
\* when its turn has come or when everyone still near it has stopped too.
ReleasesHaveACause ==
  [][\A r \in Paused \cap seen : CheckConflicts /\ waited'[r] = NotPaused =>
       \/ r \in Priority
       \/ \A s \in seen : s # r /\ gap[r][s] # "far" => s \in Paused]_vars

\* A robot that is released has priority again only MaxPause + 2 checks later: no
\* more robots than that take turns for ever, and pass over one more.
FewRobots == NumRobots <= MaxPause + 2

\* "Doesn't block it forever": in a fleet of that size no robot stays paused for
\* more checks than until it has priority, and then one for each of the others,
\* whoever drives, replans, comes or goes.
TurnsCome == FewRobots => \A r \in Robots : stood[r] < TooLong

===============================================================================
