--------------------- MODULE RobotNavigationWatcherProofs ---------------------
(***************************************************************************)
(* What a watched robot is owed, for topics of any length: it is never     *)
(* left standing by the manager, and the watcher's view of it is only ever *)
(* as old as the reports that have not arrived.                            *)
(***************************************************************************)
EXTENDS RobotNavigationWatcher, SequenceTheorems, TLAPS

\* The manager's last word to a robot it does not hold is RESUME.
LastWord == ~held /\ requests # <<>> => requests[Len(requests)] = "resume"

\* A robot that stands still, and not at an operator's wish, has heard, or is
\* about to hear, from the manager.
StillForAReason == halted /\ ~operator_paused /\ ~held => requests # <<>>

\* An idle robot is not paused.
PausesEndWithGoals == halted => going

\* An unwatched robot's reports reach nobody.
NoOneListens == ~watched => reports = <<>>

IInv == TypeOK /\ NoOneListens /\ LastWord /\ StillForAReason /\ PausesEndWithGoals

\* Dropping the oldest message of a topic leaves its messages and its last one.
LEMMA TailOfTopic ==
  ASSUME NEW S, NEW s \in Seq(S), s # <<>>
  PROVE  /\ Tail(s) \in Seq(S) /\ Head(s) \in S
         /\ Tail(s) # <<>> => Tail(s)[Len(Tail(s))] = s[Len(s)]
         /\ Tail(s) = <<>> => Head(s) = s[Len(s)]
<1>1. Len(s) \in Nat \ {0} /\ Head(s) \in S /\ Tail(s) \in Seq(S)
  OBVIOUS
<1>2. Len(Tail(s)) = Len(s) - 1
  OBVIOUS
<1>3. ASSUME Tail(s) # <<>> PROVE Tail(s)[Len(Tail(s))] = s[Len(s)]
  <2>1. Len(Tail(s)) \in 1..Len(Tail(s))
    BY <1>1, <1>2, <1>3, EmptySeq
  <2>2. QED BY <2>1, <1>1, <1>2
<1>4. ASSUME Tail(s) = <<>> PROVE Head(s) = s[Len(s)]
  <2>1. Len(s) = 1
    BY <1>1, <1>2, <1>4
  <2>2. QED BY <2>1
<1>5. QED BY <1>1, <1>3, <1>4

\* A message put at the end of a topic is its last one.
LEMMA AppendToTopic ==
  ASSUME NEW S, NEW s \in Seq(S), NEW m \in S
  PROVE  /\ Append(s, m) \in Seq(S) /\ Append(s, m) # <<>>
         /\ Append(s, m)[Len(Append(s, m))] = m
  OBVIOUS

\* Every step keeps the invariant: only a check writes to a robot, and it holds
\* a robot it tells to pause.
LEMMA Step == IInv /\ [Next]_vars => IInv'
<1> SUFFICES ASSUME IInv, [Next]_vars PROVE IInv'
  OBVIOUS
<1> USE DEF IInv, TypeOK, NoOneListens, LastWord, StillForAReason, PausesEndWithGoals, Requests, Reports
<1>1. ASSUME NEW msg \in Reports, Report(msg)
      PROVE  reports' \in Seq(Reports) /\ (~watched => reports' = reports)
  BY <1>1 DEF Report
<1>2. CASE AcceptGoal
  BY <1>2, <1>1 DEF AcceptGoal, RobotOnly, view
<1>3. CASE EndGoal
  BY <1>3, <1>1 DEF EndGoal, RobotOnly, view
<1>4. CASE SendFeedback
  BY <1>4, <1>1 DEF SendFeedback, RobotOnly, robot, view
<1>5. CASE OperatorPauses
  BY <1>5, <1>1 DEF OperatorPauses, RobotOnly, view
<1>6. CASE OperatorResumes
  BY <1>6, <1>1 DEF OperatorResumes, RobotOnly, view
<1>7. CASE TakeRequest
  <2>1. /\ requests' \in Seq(Requests) /\ Head(requests) \in Requests
        /\ requests' # <<>> => requests'[Len(requests')] = requests[Len(requests)]
        /\ requests' = <<>> => Head(requests) = requests[Len(requests)]
    BY <1>7, TailOfTopic DEF TakeRequest
  <2>2. TypeOK'
    BY <1>7, <1>1, <2>1 DEF TakeRequest, robot, view
  <2>3. LastWord'
    BY <1>7, <2>1 DEF TakeRequest
  <2>4. StillForAReason' /\ PausesEndWithGoals' /\ NoOneListens'
    BY <1>7, <1>1, <2>1 DEF TakeRequest, robot
  <2>5. QED BY <2>2, <2>3, <2>4
<1>8. CASE TakeReport
  BY <1>8, TailOfTopic DEF TakeReport, OnControl, robot
<1>9. CASE PathChanges
  BY <1>9 DEF PathChanges, robot, topics, view
<1>10. CASE PauseExpires
  BY <1>10 DEF PauseExpires, robot, topics, view
<1>11. /\ Append(requests, "pause") \in Seq(Requests) /\ Append(requests, "pause") # <<>>
       /\ Append(requests, "resume") \in Seq(Requests) /\ Append(requests, "resume") # <<>>
       /\ Append(requests, "resume")[Len(Append(requests, "resume"))] = "resume"
  <2>1. "pause" \in Requests /\ "resume" \in Requests
    BY DEF Requests
  <2>2. requests \in Seq(Requests)
    OBVIOUS
  <2> HIDE DEF Requests
  <2>3. QED BY <2>1, <2>2, AppendToTopic
<1>12. CASE MustPause
  BY <1>12, <1>11 DEF MustPause, CheckRobot, EnsurePaused, robot, view
<1>13. CASE MayGo
  BY <1>13, <1>11 DEF MayGo, CheckRobot, Resume, robot, view
<1>14. CASE Drop
  BY <1>14, <1>11, EmptySeq DEF Drop, Resume, robot, view
<1>15. CASE Watch
  BY <1>15 DEF Watch, robot, topics
<1>16. CASE UNCHANGED vars
  BY <1>16 DEF vars, robot, topics, view
<1>17. QED
  BY <1>2, <1>3, <1>4, <1>5, <1>6, <1>7, <1>8, <1>9, <1>10, <1>12, <1>13, <1>14, <1>15, <1>16
     DEF Next, Environment, Manager

LEMMA Invariance == Spec => []IInv
<1>1. Init => IInv
  BY EmptySeq DEF Init, IInv, TypeOK, NoOneListens, LastWord, StillForAReason, PausesEndWithGoals
<1>2. QED BY <1>1, Step, PTL DEF Spec

\* The types, in every reachable state.
THEOREM TypeCorrect == Spec => []TypeOK
<1>1. IInv => TypeOK
  BY DEF IInv
<1>2. QED BY <1>1, Invariance, PTL

\* However requests, goals and operators interleave, the manager leaves no robot
\* standing: one that stands still and is not held has a RESUME on its way.
THEOREM StopsAlwaysAccountedFor == Spec => []StopsAreAccountedFor
<1>1. IInv => StopsAreAccountedFor
  BY DEF IInv, LastWord, StillForAReason, StopsAreAccountedFor
<1>2. QED BY <1>1, Invariance, PTL

-------------------------------------------------------------------------------
(* The watcher's view: what it will believe once every report has arrived. *)

Clearing == {"accept", "ended", "resumed", "reject"}
Starting == {"accept", "feedback"}
Ending == {"ended", "reject"}

\* From the i-th on, no report of s is one of these.
NoneFrom(s, i, kinds) == \A j \in 1..Len(s) : j >= i => s[j] \notin kinds

\* The belief p that the robot is paused, or n that it navigates, after the reports s.
EndsPaused(s, p) ==
  \/ p /\ NoneFrom(s, 1, Clearing)
  \/ \E i \in 1..Len(s) : s[i] = "paused" /\ NoneFrom(s, i, Clearing)

EndsIdle(s, n) ==
  \/ ~n /\ NoneFrom(s, 1, Starting)
  \/ \E i \in 1..Len(s) : s[i] \in Ending /\ NoneFrom(s, i, Starting)

TrueInTheEnd ==
  watched => (EndsPaused(reports, paused) => halted) /\ (EndsIdle(reports, navigating) => ~going)

\* What a new report at the end of the topic changes.
LEMMA AppendedReport ==
  ASSUME NEW s \in Seq(Reports), NEW m \in Reports, NEW p \in BOOLEAN, NEW n \in BOOLEAN
  PROVE  /\ EndsPaused(Append(s, m), p) => m = "paused" \/ (m \notin Clearing /\ EndsPaused(s, p))
         /\ EndsIdle(Append(s, m), n) => m \in Ending \/ (m \notin Starting /\ EndsIdle(s, n))
<1> DEFINE t == Append(s, m)
<1>1. /\ Len(s) \in Nat /\ Len(t) = Len(s) + 1 /\ t[Len(s) + 1] = m
      /\ \A j \in 1..Len(s) : t[j] = s[j]
  OBVIOUS
<1> HIDE DEF t
<1>2. ASSUME NEW i \in 1..Len(s) + 1, NEW kinds, NoneFrom(t, i, kinds)
      PROVE  m \notin kinds /\ NoneFrom(s, i, kinds)
  BY <1>1, <1>2 DEF NoneFrom
<1>3. 1 \in 1..Len(s) + 1 /\ 1..Len(t) = 1..Len(s) + 1
  BY <1>1
<1>4. ASSUME EndsPaused(t, p), m # "paused" PROVE m \notin Clearing /\ EndsPaused(s, p)
  <2>1. CASE p /\ NoneFrom(t, 1, Clearing)
    BY <2>1, <1>2, <1>3 DEF EndsPaused
  <2>2. CASE \E i \in 1..Len(t) : t[i] = "paused" /\ NoneFrom(t, i, Clearing)
    <3>1. PICK i \in 1..Len(s) + 1 : t[i] = "paused" /\ NoneFrom(t, i, Clearing)
      BY <2>2, <1>3
    <3>2. i \in 1..Len(s) /\ s[i] = "paused"
      BY <3>1, <1>1, <1>4
    <3>3. QED BY <3>1, <3>2, <1>2 DEF EndsPaused
  <2>3. QED BY <1>4, <2>1, <2>2 DEF EndsPaused
<1>5. ASSUME EndsIdle(t, n), m \notin Ending PROVE m \notin Starting /\ EndsIdle(s, n)
  <2>1. CASE ~n /\ NoneFrom(t, 1, Starting)
    BY <2>1, <1>2, <1>3 DEF EndsIdle
  <2>2. CASE \E i \in 1..Len(t) : t[i] \in Ending /\ NoneFrom(t, i, Starting)
    <3>1. PICK i \in 1..Len(s) + 1 : t[i] \in Ending /\ NoneFrom(t, i, Starting)
      BY <2>2, <1>3
    <3>2. i \in 1..Len(s) /\ s[i] \in Ending
      BY <3>1, <1>1, <1>5
    <3>3. QED BY <3>1, <3>2, <1>2 DEF EndsIdle
  <2>3. QED BY <1>5, <2>1, <2>2 DEF EndsIdle
<1>6. QED BY <1>4, <1>5 DEF t

\* Taking the oldest report changes nothing of what the watcher will believe.
LEMMA TakenReport ==
  ASSUME NEW s \in Seq(Reports), s # <<>>, NEW p \in BOOLEAN, NEW n \in BOOLEAN,
         NEW q \in BOOLEAN, NEW k \in BOOLEAN,
         q => Head(s) = "paused" \/ (Head(s) \notin Clearing /\ p),
         ~k => Head(s) \in Ending \/ (Head(s) \notin Starting /\ ~n)
  PROVE  /\ EndsPaused(Tail(s), q) => EndsPaused(s, p)
         /\ EndsIdle(Tail(s), k) => EndsIdle(s, n)
<1> DEFINE t == Tail(s)
<1>1. /\ Len(s) \in Nat \ {0} /\ Len(t) = Len(s) - 1 /\ Head(s) = s[1]
      /\ \A j \in 1..Len(t) : t[j] = s[j + 1]
  OBVIOUS
<1> HIDE DEF t
<1>2. ASSUME NEW i \in 1..Len(t), NEW kinds, NoneFrom(t, i, kinds)
      PROVE  NoneFrom(s, i + 1, kinds)
  <2>1. SUFFICES ASSUME NEW j \in 1..Len(s), j >= i + 1 PROVE s[j] \notin kinds
    BY DEF NoneFrom
  <2>2. j - 1 \in 1..Len(t) /\ j - 1 >= i /\ (j - 1) + 1 = j
    BY <1>1, <2>1
  <2>3. QED BY <2>2, <1>1, <1>2 DEF NoneFrom
<1>3. ASSUME NEW kinds, NoneFrom(t, 1, kinds), s[1] \notin kinds PROVE NoneFrom(s, 1, kinds)
  <2>1. SUFFICES ASSUME NEW j \in 1..Len(s) PROVE s[j] \notin kinds
    BY DEF NoneFrom
  <2>2. CASE j = 1
    BY <2>2, <1>3
  <2>3. CASE j # 1
    <3>1. j - 1 \in 1..Len(t) /\ j - 1 >= 1 /\ (j - 1) + 1 = j
      BY <1>1, <2>3
    <3>2. QED BY <3>1, <1>1, <1>3 DEF NoneFrom
  <2>4. QED BY <2>2, <2>3
<1>4. 1 \in 1..Len(s) /\ \A i \in 1..Len(t) : i + 1 \in 1..Len(s) /\ s[i + 1] = t[i]
  BY <1>1
<1>5. "paused" \notin Clearing /\ Ending \cap Starting = {}
  BY DEF Clearing, Ending, Starting
<1>6. ASSUME EndsPaused(t, q) PROVE EndsPaused(s, p)
  <2>1. CASE q /\ NoneFrom(t, 1, Clearing)
    <3>1. NoneFrom(s, 1, Clearing)
      BY <2>1, <1>1, <1>3, <1>5
    <3>2. QED BY <3>1, <2>1, <1>1, <1>4 DEF EndsPaused
  <2>2. CASE \E i \in 1..Len(t) : t[i] = "paused" /\ NoneFrom(t, i, Clearing)
    BY <2>2, <1>2, <1>4 DEF EndsPaused
  <2>3. QED BY <1>6, <2>1, <2>2 DEF EndsPaused
<1>7. ASSUME EndsIdle(t, k) PROVE EndsIdle(s, n)
  <2>1. CASE ~k /\ NoneFrom(t, 1, Starting)
    <3>1. NoneFrom(s, 1, Starting)
      BY <2>1, <1>1, <1>3, <1>5
    <3>2. QED BY <3>1, <2>1, <1>1, <1>4 DEF EndsIdle
  <2>2. CASE \E i \in 1..Len(t) : t[i] \in Ending /\ NoneFrom(t, i, Starting)
    BY <2>2, <1>2, <1>4 DEF EndsIdle
  <2>3. QED BY <1>7, <2>1, <2>2 DEF EndsIdle
<1>8. QED BY <1>6, <1>7 DEF t

\* Every step that changes the pause flag or the goal of a watched robot sends
\* the report that tells the watcher so.
LEMMA ViewStep == IInv /\ TrueInTheEnd /\ [Next]_vars => TrueInTheEnd'
<1> SUFFICES ASSUME IInv, TrueInTheEnd, [Next]_vars PROVE TrueInTheEnd'
  OBVIOUS
<1>1. /\ reports \in Seq(Reports) /\ paused \in BOOLEAN /\ navigating \in BOOLEAN
      /\ going \in BOOLEAN /\ halted \in BOOLEAN /\ (halted => going)
  BY DEF IInv, TypeOK, PausesEndWithGoals
<1>2. ASSUME NEW msg \in Reports, Report(msg), UNCHANGED <<watched, view>>, watched,
             msg # "paused" => (halted' <=> msg \notin Clearing /\ halted),
             msg \notin Ending => (going' <=> msg \in Starting \/ going),
             msg = "paused" => halted', msg \in Ending => ~going'
      PROVE  TrueInTheEnd'
  <2>1. reports' = Append(reports, msg) /\ paused' = paused /\ navigating' = navigating
    BY <1>2 DEF Report, view
  <2>2. EndsPaused(reports', paused') => msg = "paused" \/ (msg \notin Clearing /\ EndsPaused(reports, paused))
    BY <2>1, <1>1, AppendedReport
  <2>3. EndsIdle(reports', navigating') => msg \in Ending \/ (msg \notin Starting /\ EndsIdle(reports, navigating))
    BY <2>1, <1>1, AppendedReport
  <2>4. QED BY <2>2, <2>3, <1>2 DEF TrueInTheEnd
<1>3. CASE UNCHANGED <<going, halted, reports, watched, view>>
  BY <1>3 DEF TrueInTheEnd, view
<1>4. CASE ~watched'
  BY <1>4 DEF TrueInTheEnd
<1>5. CASE AcceptGoal \/ EndGoal \/ SendFeedback \/ OperatorPauses \/ OperatorResumes
  <2>1. CASE ~watched
    BY <2>1, <1>5, <1>4 DEF AcceptGoal, EndGoal, SendFeedback, OperatorPauses, OperatorResumes, RobotOnly
  <2> SUFFICES ASSUME watched PROVE TrueInTheEnd'
    BY <2>1
  <2> USE DEF Reports, Clearing, Starting, Ending, RobotOnly, view, robot
  <2>2. CASE AcceptGoal
    BY <2>2, <1>2 DEF AcceptGoal
  <2>3. CASE EndGoal
    BY <2>3, <1>2 DEF EndGoal
  <2>4. CASE SendFeedback
    BY <2>4, <1>1, <1>2 DEF SendFeedback
  <2>5. CASE OperatorPauses
    BY <2>5, <1>2 DEF OperatorPauses
  <2>6. CASE OperatorResumes
    BY <2>6, <1>1, <1>2 DEF OperatorResumes
  <2>7. QED BY <1>5, <2>2, <2>3, <2>4, <2>5, <2>6
<1>6. CASE TakeRequest
  <2>1. CASE ~watched
    BY <2>1, <1>6, <1>4 DEF TakeRequest
  <2> SUFFICES ASSUME watched PROVE TrueInTheEnd'
    BY <2>1
  <2> USE DEF Reports, Clearing, Starting, Ending, view, robot
  <2>2. CASE ~going /\ Report("reject") /\ UNCHANGED robot
    BY <2>2, <1>6, <1>1, <1>2 DEF TakeRequest
  <2>3. CASE going /\ halted' = TRUE /\ Report("paused") /\ UNCHANGED <<going, operator_paused>>
    BY <2>3, <1>6, <1>2 DEF TakeRequest
  <2>4. CASE going /\ halted' = FALSE /\ Report("resumed") /\ UNCHANGED going
    BY <2>4, <1>6, <1>2 DEF TakeRequest
  <2>5. QED BY <1>6, <2>2, <2>3, <2>4 DEF TakeRequest
<1>7. CASE TakeReport
  <2>1. /\ reports # <<>> /\ reports' = Tail(reports) /\ OnControl(Head(reports))
        /\ UNCHANGED <<going, halted, watched>>
    BY <1>7 DEF TakeReport, robot
  <2>2. Head(reports) \in Reports
    BY <2>1, <1>1, TailOfTopic
  <2>3. /\ paused' \in BOOLEAN /\ navigating' \in BOOLEAN
        /\ paused' => Head(reports) = "paused" \/ (Head(reports) \notin Clearing /\ paused)
        /\ ~navigating' => Head(reports) \in Ending \/ (Head(reports) \notin Starting /\ ~navigating)
    BY <2>1, <2>2, <1>1 DEF OnControl, Clearing, Starting, Ending
  <2>4. /\ EndsPaused(reports', paused') => EndsPaused(reports, paused)
        /\ EndsIdle(reports', navigating') => EndsIdle(reports, navigating)
    BY <2>1, <2>3, <1>1, TakenReport
  <2>5. QED BY <2>1, <2>4 DEF TrueInTheEnd
<1>8. CASE Watch
  <2>1. paused' = FALSE /\ navigating' = TRUE /\ UNCHANGED <<going, halted, reports>>
    BY <1>8 DEF Watch, robot, topics
  <2>2. reports = <<>>
    BY <1>8 DEF Watch, IInv, NoOneListens
  <2>3. ~EndsPaused(reports', paused') /\ ~EndsIdle(reports', navigating')
    BY <2>1, <2>2 DEF EndsPaused, EndsIdle
  <2>4. QED BY <2>3 DEF TrueInTheEnd
<1>9. CASE PathChanges \/ PauseExpires \/ MustPause \/ MayGo
  BY <1>9, <1>3 DEF PathChanges, PauseExpires, MustPause, MayGo, CheckRobot, robot, topics, view
<1>10. CASE Drop
  BY <1>10, <1>4 DEF Drop
<1>11. CASE UNCHANGED vars
  BY <1>11, <1>3 DEF vars, robot, topics, view
<1>12. QED
  BY <1>5, <1>6, <1>7, <1>8, <1>9, <1>10, <1>11 DEF Next, Environment, Manager

\* However old its view, a watcher that has taken every report knows the robot:
\* it never takes a moving robot for a paused one, nor a busy robot for an idle one.
THEOREM QuietViewAlwaysTrue == Spec => []QuietViewIsTrue
<1>1. Init => TrueInTheEnd
  BY DEF Init, TrueInTheEnd
<1>2. IInv /\ TrueInTheEnd => QuietViewIsTrue
  <2> SUFFICES ASSUME IInv, TrueInTheEnd, watched, reports = <<>>
               PROVE  (paused => halted) /\ (~navigating => ~going)
    BY DEF QuietViewIsTrue
  <2>1. /\ paused => EndsPaused(reports, paused)
        /\ ~navigating => EndsIdle(reports, navigating)
    BY DEF EndsPaused, EndsIdle, NoneFrom
  <2>2. QED BY <2>1 DEF TrueInTheEnd
<1>3. QED BY <1>1, <1>2, ViewStep, Invariance, PTL DEF Spec

===============================================================================
