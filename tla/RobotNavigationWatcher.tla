------------------------ MODULE RobotNavigationWatcher ------------------------
(***************************************************************************)
(* RobotNavigationWatcher (easyfleet_navigation_manager) and what it talks *)
(* to: one robot's GoalManager, over a control topic it shares with that   *)
(* robot's own clients and operators.                                      *)
(*                                                                         *)
(* The GoalManager is part of EasyNav. Here it keeps one pause flag for    *)
(* everybody, cleared by a new goal and by the end of one, and reports     *)
(* every change on the topic. The topic keeps messages in order and loses  *)
(* none. Which robots have to make way is NavigationManager's; here a      *)
(* check may decide either way for a robot that is in sight.               *)
(***************************************************************************)
EXTENDS Integers, Sequences

CONSTANTS MaxRequests, MaxReports   \* how many messages a topic holds (bounds for TLC)

ASSUME ChannelAssumption == MaxRequests \in Nat /\ MaxReports \in Nat

VARIABLES
  going,            \* the GoalManager has a goal
  halted,           \* its pause flag
  operator_paused,  \* an operator paused this goal and has not resumed it
  requests,         \* PAUSE and RESUME on their way to it
  reports,          \* its reports on their way to the watcher
  watched,          \* there is a watcher for the robot
  navigating, paused,   \* navigating_ and paused_: what the watcher believes
  pause_sent,       \* a PAUSE was sent less than a second ago, unanswered
  recent_path,      \* the last path is not older than path_timeout_sec
  held              \* the robot is in the manager's currently_paused_

robot == <<going, halted, operator_paused>>
topics == <<requests, reports>>
view == <<navigating, paused>>
vars == <<robot, topics, watched, view, pause_sent, recent_path, held>>

Requests == {"pause", "resume"}
Reports == {"accept", "feedback", "ended", "paused", "resumed", "reject"}

Init ==
  /\ going \in BOOLEAN /\ halted = FALSE /\ operator_paused = FALSE
  /\ requests = <<>> /\ reports = <<>>
  /\ watched = FALSE
  /\ navigating = TRUE /\ paused = FALSE
  /\ pause_sent = FALSE /\ recent_path = FALSE
  /\ held = FALSE

-------------------------------------------------------------------------------
(* The GoalManager, the robot's clients and its operators.                 *)

\* A report only reaches a watcher that is there.
Report(msg) ==
  /\ Len(reports) < MaxReports
  /\ reports' = IF watched THEN Append(reports, msg) ELSE reports

RobotOnly == UNCHANGED <<requests, watched, view, pause_sent, recent_path, held>>

\* A new goal, or one that preempts the current goal.
AcceptGoal ==
  /\ going' = TRUE /\ halted' = FALSE /\ operator_paused' = FALSE
  /\ Report("accept")
  /\ RobotOnly

\* FINISHED, FAILED or CANCELLED
EndGoal ==
  /\ going
  /\ going' = FALSE /\ halted' = FALSE /\ operator_paused' = FALSE
  /\ Report("ended")
  /\ RobotOnly

SendFeedback == going /\ Report("feedback") /\ UNCHANGED robot /\ RobotOnly

OperatorPauses ==
  /\ going
  /\ halted' = TRUE /\ operator_paused' = TRUE
  /\ Report("paused")
  /\ UNCHANGED going /\ RobotOnly

OperatorResumes ==
  /\ halted
  /\ halted' = FALSE /\ operator_paused' = FALSE
  /\ Report("resumed")
  /\ UNCHANGED going /\ RobotOnly

\* A request of the manager. An idle robot has nothing to pause or resume.
TakeRequest ==
  /\ requests # <<>>
  /\ requests' = Tail(requests)
  /\ \/ ~going /\ Report("reject") /\ UNCHANGED robot
     \/ going /\ Head(requests) = "pause"
        /\ halted' = TRUE /\ Report("paused") /\ UNCHANGED <<going, operator_paused>>
     \/ going /\ Head(requests) = "resume"
        /\ halted' = FALSE /\ operator_paused' = FALSE /\ Report("resumed")
        /\ UNCHANGED going
  /\ UNCHANGED <<watched, view, pause_sent, recent_path, held>>

-------------------------------------------------------------------------------
(* Plausible mistakes, each for the definition it is named after.          *)

\* The watcher believes it has resumed the robot, so none is sent.
Resume_Confirmed ==
  /\ pause_sent' = FALSE
  /\ requests' = IF paused THEN Append(requests, "resume") ELSE requests

-------------------------------------------------------------------------------
(* The watcher.                                                            *)

\* on_control(), for the reports that say something of the robot.
OnControl(msg) ==
  /\ navigating' = IF msg \in {"ended", "reject"} THEN FALSE
                   ELSE IF msg \in {"accept", "feedback"} THEN TRUE ELSE navigating
  /\ paused' = IF msg \in {"accept", "ended", "resumed", "reject"} THEN FALSE
               ELSE IF msg = "paused" THEN TRUE ELSE paused
  /\ pause_sent' = (pause_sent /\ msg \in {"feedback", "resumed"})

TakeReport ==
  /\ reports # <<>>
  /\ OnControl(Head(reports))
  /\ reports' = Tail(reports)
  /\ UNCHANGED <<robot, requests, watched, recent_path, held>>

\* A path arrives, or the last one grows too old.
PathChanges ==
  /\ watched
  /\ recent_path' = ~recent_path
  /\ UNCHANGED <<robot, topics, watched, view, pause_sent, held>>

\* in_flight() no longer holds: a second has passed.
PauseExpires ==
  /\ pause_sent
  /\ pause_sent' = FALSE
  /\ UNCHANGED <<robot, topics, watched, view, recent_path, held>>

CanSend == Len(requests) < MaxRequests

\* ensure_paused(): PAUSE, unless the robot is paused, idle or about to answer.
EnsurePaused ==
  IF paused \/ ~navigating \/ pause_sent
  THEN UNCHANGED <<requests, pause_sent>>
  ELSE pause_sent' = TRUE /\ requests' = Append(requests, "pause")

\* resume()
Resume == pause_sent' = FALSE /\ requests' = Append(requests, "resume")

-------------------------------------------------------------------------------
(* The manager.                                                            *)

InSight == watched /\ navigating /\ recent_path

\* A mistake, for CheckRobot: PAUSE is sent once, when the robot enters the set.
CheckRobot_PauseOnce(should_pause) ==
  /\ watched /\ CanSend
  /\ held' = should_pause
  /\ IF should_pause /\ ~held THEN EnsurePaused
     ELSE IF held /\ ~should_pause THEN Resume ELSE UNCHANGED <<requests, pause_sent>>
  /\ UNCHANGED <<robot, reports, watched, view, recent_path>>

\* check_conflicts() for this robot. Only a robot in sight may have to pause.
CheckRobot(should_pause) ==
  /\ watched /\ CanSend
  /\ held' = should_pause
  /\ IF should_pause THEN EnsurePaused
     ELSE IF held THEN Resume ELSE UNCHANGED <<requests, pause_sent>>
  /\ UNCHANGED <<robot, reports, watched, view, recent_path>>

MustPause == InSight /\ CheckRobot(TRUE)
MayGo == CheckRobot(FALSE)

\* reconcile_watchers() finds the robot silent, or heard again.
Drop ==
  /\ watched /\ CanSend
  /\ watched' = FALSE
  /\ reports' = <<>>
  /\ IF held THEN Resume ELSE UNCHANGED <<requests, pause_sent>>
  /\ held' = FALSE
  /\ UNCHANGED <<robot, view, recent_path>>

Watch ==
  /\ ~watched
  /\ watched' = TRUE
  /\ navigating' = TRUE /\ paused' = FALSE
  /\ pause_sent' = FALSE /\ recent_path' = FALSE
  /\ UNCHANGED <<robot, topics, held>>

-------------------------------------------------------------------------------
Environment ==
  \/ AcceptGoal \/ EndGoal \/ SendFeedback \/ OperatorPauses \/ OperatorResumes
  \/ PathChanges \/ PauseExpires

Manager == MustPause \/ MayGo \/ Drop \/ Watch

Next == Environment \/ TakeRequest \/ TakeReport \/ Manager

Spec == Init /\ [][Next]_vars

\* Messages arrive, a second passes and the conflict timer fires. The robot, its
\* operators and the conflicts do as they like: a check may release a robot, so
\* what is fair is said of the checks that find it still held, which is what all
\* of them do as long as it stays held, and of those that have lost sight of it.
Fairness ==
  /\ SF_vars(TakeRequest) /\ WF_vars(TakeReport) /\ WF_vars(PauseExpires)
  /\ SF_vars(held /\ MustPause) /\ WF_vars(held /\ ~InSight /\ MayGo)

FairSpec == Spec /\ Fairness

-------------------------------------------------------------------------------
TypeOK ==
  /\ going \in BOOLEAN /\ halted \in BOOLEAN /\ operator_paused \in BOOLEAN
  /\ watched \in BOOLEAN /\ navigating \in BOOLEAN /\ paused \in BOOLEAN
  /\ pause_sent \in BOOLEAN /\ recent_path \in BOOLEAN /\ held \in BOOLEAN
  /\ requests \in Seq(Requests)
  /\ reports \in Seq(Reports)

\* "It must not stay stopped by us": a robot that stands still, and not at an
\* operator's wish, is one the manager still counts as paused or one that a
\* RESUME is on its way to.
StopsAreAccountedFor ==
  halted /\ ~operator_paused /\ ~held =>
    requests # <<>> /\ requests[Len(requests)] = "resume"

\* Once every report has arrived, the watcher believes nothing that is not so: it
\* takes no moving robot for a paused one, and no busy robot for an idle one.
QuietViewIsTrue ==
  watched /\ reports = <<>> => (paused => halted) /\ (~navigating => ~going)

\* "Re-sends PAUSE when a new goal clears it": a robot that has to make way
\* stops, whatever new goals and operators do to the shared pause flag.
HeldRobotsStop == held /\ going ~> halted \/ ~held \/ ~going

===============================================================================
