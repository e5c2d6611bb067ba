--------------------------- MODULE ConflictDetector ---------------------------
(***************************************************************************)
(* compute_robots_to_pause() (easyfleet_navigation_manager): which robots  *)
(* have to stop so that no two of them get in each other's way.            *)
(*                                                                         *)
(* Geometry is abstracted to what the rule tells apart. gap[r][s] says how *)
(* close two robots and their lookahead segments are: "close" within the   *)
(* thresholds, "near" only within the wider ones that hold once one of the *)
(* pair is paused (resume_hysteresis_factor >= 1), "far" beyond both.      *)
(* length[r] is the length of r's remaining path.                          *)
(***************************************************************************)
EXTENDS Integers

CONSTANT NumRobots

\* Robots in the order of their names, which is the order of the maps.
Robots == 1..NumRobots

Gaps == {"close", "near", "far"}

-------------------------------------------------------------------------------
(* Plausible mistakes, each for the definition it is named after.          *)

\* Of two robots that are both paused, both go on yielding.
Yields_BothPausedStay(length, paused, priority, r, s) ==
  IF (r \in priority) # (s \in priority) THEN s \in priority
  ELSE IF r \in paused \/ s \in paused THEN r \in paused
  ELSE length[r] > length[s] \/ (length[r] = length[s] /\ r < s)

\* A tie stops neither.
Yields_NoTieBreak(length, paused, priority, r, s) ==
  IF (r \in priority) # (s \in priority) THEN s \in priority
  ELSE IF (r \in paused) # (s \in paused) THEN r \in paused
  ELSE length[r] > length[s]
-------------------------------------------------------------------------------

\* Two robots are about to obstruct each other.
InConflict(gap, paused, r, s) ==
  /\ r # s
  /\ \/ gap[r][s] = "close"
     \/ gap[r][s] = "near" /\ (r \in paused \/ s \in paused)

\* Which one of a pair makes way: not the one with priority, else the one that
\* is paused already, else the one farther from its goal (the first, if equal).
Yields(length, paused, priority, r, s) ==
  IF (r \in priority) # (s \in priority) THEN s \in priority
  ELSE IF (r \in paused) # (s \in paused) THEN r \in paused
  ELSE length[r] > length[s] \/ (length[r] = length[s] /\ r < s)

\* The robots to pause, of those with a path (seen).
RobotsToPause(seen, gap, length, paused, priority) ==
  {r \in seen : \E s \in seen :
     InConflict(gap, paused, r, s) /\ Yields(length, paused, priority, r, s)}

===============================================================================
