----------------------- MODULE PythonActionServerProofs -----------------------
(***************************************************************************)
(* Proofs that the Python action server stays idle once disable_goals()    *)
(* has returned, and that it implements GoalServer: for any number of      *)
(* goals and of threads, however their callbacks interleave.               *)
(*                                                                         *)
(* Nothing in the code queues the goals in order. That they nevertheless   *)
(* run in the order they entered the table is due to the marks: a goal     *)
(* does not wait for its turn before it has marked all that were there     *)
(* when it entered, and a marked goal is refused its turn (OrderInv).      *)
(***************************************************************************)
EXTENDS PythonActionServer, FiniteSetTheorems, TLAPS

\* A callback before its goal is in the table, in it, and with the turn.
Unentered == {"none", "validating", "accepted"}
Waits == {"marking", "queued", "turn"}
Holds == {"taken", "running", "settled"}

\* What rclpy knows of a goal at each point of its callbacks.
StagesInv ==
  \A g \in Goals :
    /\ g > received <=> pc[g] = "none"
    /\ pc[g] \in {"none", "validating"} <=> goal_state[g] = "unknown"
    /\ goal_state[g] \in Live
         <=> pc[g] \in {"accepted", "refused", "aborting", "taken", "running"} \cup Waits
    /\ pc[g] = "settled" => goal_state[g] \in Terminal
    /\ to_mark[g] # {} => pc[g] = "marking"

\* A goal that waits for its turn is in the table or is marked; only goals that
\* got into the table are ever marked, or about to be.
TableInv ==
  /\ \A g \in Goals : g \in active <=> pc[g] \in Holds
  /\ \A g \in waiting : pc[g] \in Waits
  /\ \A g \in Goals : pc[g] \in Waits => g \in waiting \cup preempted
  /\ \A g \in preempted : pc[g] \notin Unentered
  /\ \A g \in Goals : \A h \in to_mark[g] : pc[h] \notin Unentered

OnlyOnce(s) == \A i, j \in DOMAIN s : s[i] = s[j] => i = j

EnteredInv ==
  /\ OnlyOnce(entered)
  /\ \A i \in DOMAIN entered : pc[entered[i]] \notin Unentered

\* As long as a goal may still run, those that entered the table after it have yet
\* to mark it: they cannot take their turn before they have.
OrderInv ==
  \A j \in DOMAIN entered : \A i \in 1..(j - 1) :
    entered[i] \in waiting \ preempted => entered[i] \in to_mark[entered[j]]

IInv == TypeOK /\ StagesInv /\ TableInv /\ EnteredInv /\ OrderInv

USE PythonServerAssumption DEF Goals, Live, Terminal, table, switches, SetGoal, GoTo

-------------------------------------------------------------------------------
\* The steps, one name for each.
LEMMA Steps ==
  ASSUME [Next]_vars
  PROVE  \/ ReceiveGoal \/ HaltActiveGoal \/ EnableGoals \/ AwaitIdle \/ UNCHANGED vars
         \/ \E v \in PreemptionValues : SetPreemption(v)
         \/ \E next \in {"disabling", "destroying"} : DisableGoals(next)
         \/ \E g \in Goals :
              \/ RefuseContent(g) \/ AdmitGoal(g) \/ EnterTable(g) \/ Execute(g)
              \/ \E h \in Goals : MarkPreempted(g, h)
              \/ Dispatch(g) \/ TakeTurn(g) \/ RefuseTurn(g) \/ AbortUnstarted(g)
              \/ StartGoal(g) \/ EndGoal(g) \/ CancelGoal(g)
              \/ \E outcome \in Terminal : ExecuteSettles(g, outcome)
BY DEF Next, Environment, CallbackStep, ExecuteStep

\* Steps that let nobody into the table keep its order, and who is in it.
LEMMA NobodyEnters ==
  ASSUME TypeOK, EnteredInv, OrderInv,
         entered' = entered, to_mark' = to_mark,
         waiting' \subseteq waiting, preempted \subseteq preempted',
         \A g \in Goals : pc'[g] \in Unentered => pc[g] \in Unentered
  PROVE  EnteredInv' /\ OrderInv'
<1>1. \A i \in DOMAIN entered : entered[i] \in Goals BY DEF TypeOK
<1>2. EnteredInv' BY <1>1 DEF EnteredInv, OnlyOnce
<1>3. OrderInv' BY DEF OrderInv
<1> QED BY <1>2, <1>3

\* Steps of a callback that leave the table alone, and where they lead.
LEMMA TableAlone ==
  ASSUME TypeOK, TableInv, UNCHANGED <<table, to_mark>>,
         \A g \in Goals :
           /\ pc'[g] \in Holds <=> pc[g] \in Holds
           /\ pc'[g] \in Waits <=> pc[g] \in Waits
           /\ pc'[g] \in Unentered => pc[g] \in Unentered
  PROVE  TableInv'
<1>1. \A g \in waiting : pc'[g] \in Waits BY DEF TypeOK, TableInv
<1>2. \A g \in preempted : pc'[g] \notin Unentered BY DEF TypeOK, TableInv
<1>3. \A g \in Goals : \A h \in to_mark[g] : h \in Goals /\ pc[h] \notin Unentered
      BY DEF TypeOK, TableInv
<1>4. \A g \in Goals : \A h \in to_mark[g] : pc'[h] \notin Unentered BY <1>3
<1> QED BY <1>1, <1>2, <1>4 DEF TableInv

\* It holds before the first request.
LEMMA InitInv == Init => IInv
<1> SUFFICES ASSUME Init PROVE IInv
    OBVIOUS
<1> USE DEF Init
<1>1. TypeOK
  <2>1. allow_preemption \in BOOLEAN BY Zenon
  <2>2. entered \in Seq(Goals) OBVIOUS
  <2>3. received \in 0..MaxGoals OBVIOUS
  <2> QED BY <2>1, <2>2, <2>3 DEF TypeOK, Places
<1>2. StagesInv /\ TableInv BY DEF StagesInv, TableInv, Waits, Holds, Unentered
<1>3. EnteredInv /\ OrderInv BY DEF EnteredInv, OrderInv, OnlyOnce
<1> QED BY <1>1, <1>2, <1>3 DEF IInv

\* Every step keeps the invariant.
LEMMA NextInv == IInv /\ [Next]_vars => IInv'
<1> SUFFICES ASSUME IInv, [Next]_vars PROVE IInv'
    OBVIOUS
<1> USE DEF IInv, Unentered, Waits, Holds
<1>1. CASE UNCHANGED vars
      BY <1>1 DEF vars, TypeOK, StagesInv, TableInv, EnteredInv, OrderInv
<1>2. CASE ReceiveGoal
  <2> DEFINE g == received + 1
  <2>1. g \in Goals /\ pc[g] = "none" BY <1>2 DEF ReceiveGoal, TypeOK, StagesInv
  <2>2. TypeOK'
    <3>1. pc' \in [Goals -> Places] BY <1>2, <2>1 DEF ReceiveGoal, TypeOK, Places
    <3>2. received' \in 0..MaxGoals BY <1>2, <2>1 DEF ReceiveGoal, TypeOK
    <3> HIDE DEF g
    <3> QED BY <1>2, <2>1, <3>1, <3>2 DEF ReceiveGoal, TypeOK
  <2>3. StagesInv' BY <1>2, <2>1 DEF ReceiveGoal, TypeOK, StagesInv
  <2>4. TableInv' BY <1>2, <2>1, TableAlone DEF ReceiveGoal, TypeOK
  <2>5. EnteredInv' /\ OrderInv' BY <1>2, <2>1, NobodyEnters DEF ReceiveGoal, TypeOK
  <2> QED BY <2>2, <2>3, <2>4, <2>5
<1>3. CASE HaltActiveGoal \/ \E next \in {"disabling", "destroying"} : DisableGoals(next)
  <2>1. TypeOK' BY <1>3 DEF HaltActiveGoal, DisableGoals, TypeOK
  <2>2. StagesInv' BY <1>3 DEF HaltActiveGoal, DisableGoals, StagesInv
  <2>3. TableInv' BY <1>3 DEF HaltActiveGoal, DisableGoals, TypeOK, TableInv
  <2>4. EnteredInv' /\ OrderInv' BY <1>3, NobodyEnters DEF HaltActiveGoal, DisableGoals
  <2> QED BY <2>1, <2>2, <2>3, <2>4
<1>4. CASE EnableGoals \/ AwaitIdle \/ \E v \in PreemptionValues : SetPreemption(v)
  <2>1. TypeOK' BY <1>4 DEF EnableGoals, AwaitIdle, SetPreemption, TypeOK
  <2>2. StagesInv' /\ TableInv' /\ EnteredInv' /\ OrderInv'
        BY <1>4 DEF EnableGoals, AwaitIdle, SetPreemption,
                    StagesInv, TableInv, EnteredInv, OnlyOnce, OrderInv
  <2> QED BY <2>1, <2>2
<1>5. ASSUME NEW g \in Goals, RefuseContent(g) \/ AdmitGoal(g) PROVE IInv'
  <2>1. TypeOK' BY <1>5 DEF RefuseContent, AdmitGoal, TypeOK, Places
  <2>2. StagesInv' BY <1>5 DEF RefuseContent, AdmitGoal, TypeOK, StagesInv
  <2>3. TableInv' BY <1>5, TableAlone DEF RefuseContent, AdmitGoal, TypeOK
  <2>4. EnteredInv' /\ OrderInv' BY <1>5, NobodyEnters DEF RefuseContent, AdmitGoal, TypeOK
  <2> QED BY <2>1, <2>2, <2>3, <2>4
<1>6. ASSUME NEW g \in Goals, EnterTable(g) PROVE IInv'
  <2> USE <1>6 DEF EnterTable, InTheWay
  <2>1. TypeOK' BY DEF TypeOK, Places
  <2>2. StagesInv' BY DEF TypeOK, StagesInv
  <2>3. TableInv' BY DEF TypeOK, TableInv
  <2>4. /\ DOMAIN entered' = 1..(Len(entered) + 1) /\ DOMAIN entered = 1..Len(entered)
        /\ entered'[Len(entered) + 1] = g /\ Len(entered) \in Nat
        /\ \A i \in DOMAIN entered : entered'[i] = entered[i] /\ entered[i] # g
        BY DEF TypeOK, EnteredInv
  <2>5. EnteredInv' BY <2>4 DEF EnteredInv, OnlyOnce, TypeOK
  <2>6. ASSUME NEW j \in DOMAIN entered', NEW i \in 1..(j - 1),
               entered'[i] \in waiting' \ preempted'
        PROVE  entered'[i] \in to_mark'[entered'[j]]
    <3>1. i \in DOMAIN entered /\ entered'[i] \in waiting \ preempted BY <2>4, <2>6
    <3>2. CASE j = Len(entered) + 1 BY <2>4, <3>1, <3>2 DEF TypeOK
    <3>3. CASE j \in DOMAIN entered
      <4>1. entered[i] \in to_mark[entered[j]] BY <2>4, <2>6, <3>1, <3>3 DEF OrderInv
      <4> QED BY <2>4, <3>1, <3>3, <4>1 DEF TypeOK
    <3> QED BY <2>4, <3>2, <3>3
  <2> QED BY <2>1, <2>2, <2>3, <2>5, <2>6 DEF OrderInv
<1>7. ASSUME NEW g \in Goals, NEW h \in Goals, MarkPreempted(g, h) PROVE IInv'
  <2> USE <1>7 DEF MarkPreempted
  <2>1. TypeOK' BY DEF TypeOK
  <2>2. StagesInv' BY DEF TypeOK, StagesInv
  <2>3. TableInv' BY DEF TypeOK, TableInv
  <2>4. EnteredInv' BY DEF EnteredInv, OnlyOnce
  <2>5. \A f \in Goals : to_mark'[f] \cup {h} = to_mark[f] \cup {h} BY DEF TypeOK
  <2>6. OrderInv'
    <3> SUFFICES ASSUME NEW j \in DOMAIN entered, NEW i \in 1..(j - 1),
                        entered[i] \in waiting \ preempted'
                 PROVE  entered[i] \in to_mark'[entered[j]]
        BY DEF OrderInv
    <3>1. entered[i] \in to_mark[entered[j]] /\ entered[i] # h BY DEF OrderInv
    <3>2. entered[j] \in Goals BY DEF TypeOK
    <3> QED BY <2>5, <3>1, <3>2
  <2> QED BY <2>1, <2>2, <2>3, <2>4, <2>6
<1>8. ASSUME NEW g \in Goals, Execute(g) \/ Dispatch(g) PROVE IInv'
  <2>1. TypeOK' BY <1>8, ZenonT(30) DEF Execute, Dispatch, TypeOK, Places
  <2>2. StagesInv' BY <1>8, SMTT(30) DEF Execute, Dispatch, TypeOK, StagesInv
  <2>3. TableInv' BY <1>8, TableAlone DEF Execute, Dispatch, TypeOK
  <2>4. EnteredInv' /\ OrderInv' BY <1>8, NobodyEnters DEF Execute, Dispatch, TypeOK
  <2> QED BY <2>1, <2>2, <2>3, <2>4
<1>9. ASSUME NEW g \in Goals, TakeTurn(g) PROVE IInv'
  <2>1. TypeOK' BY <1>9 DEF TakeTurn, TypeOK, Places
  <2>2. StagesInv' BY <1>9 DEF TakeTurn, TypeOK, StagesInv
  <2>3. TableInv' BY <1>9 DEF TakeTurn, TypeOK, TableInv
  <2>4. EnteredInv' /\ OrderInv' BY <1>9, NobodyEnters DEF TakeTurn, TypeOK
  <2> QED BY <2>1, <2>2, <2>3, <2>4
<1>10. ASSUME NEW g \in Goals, RefuseTurn(g) \/ AbortUnstarted(g) \/ StartGoal(g) PROVE IInv'
  <2>1. TypeOK' BY <1>10, ZenonT(30) DEF RefuseTurn, AbortUnstarted, StartGoal, TypeOK, Places
  <2>2. StagesInv' BY <1>10 DEF RefuseTurn, AbortUnstarted, StartGoal, TypeOK, StagesInv
  <2>3. TableInv' BY <1>10, TableAlone DEF RefuseTurn, AbortUnstarted, StartGoal, TypeOK
  <2>4. EnteredInv' /\ OrderInv' BY <1>10, NobodyEnters DEF RefuseTurn, AbortUnstarted, StartGoal, TypeOK
  <2> QED BY <2>1, <2>2, <2>3, <2>4
<1>11. ASSUME NEW g \in Goals, CancelGoal(g) \/ \E outcome \in Terminal : ExecuteSettles(g, outcome)
       PROVE IInv'
  <2>1. TypeOK' BY <1>11, ZenonT(30) DEF CancelGoal, ExecuteSettles, TypeOK, Places
  <2>2. StagesInv' BY <1>11 DEF CancelGoal, ExecuteSettles, TypeOK, StagesInv
  <2>3. TableInv' BY <1>11, TableAlone DEF CancelGoal, ExecuteSettles, TypeOK
  <2>4. EnteredInv' /\ OrderInv' BY <1>11, NobodyEnters DEF CancelGoal, ExecuteSettles, TypeOK
  <2> QED BY <2>1, <2>2, <2>3, <2>4
<1>12. ASSUME NEW g \in Goals, EndGoal(g) PROVE IInv'
  <2>1. TypeOK' BY <1>12 DEF EndGoal, TypeOK, Places
  <2>2. StagesInv' BY <1>12 DEF EndGoal, TypeOK, StagesInv
  <2>3. TableInv' BY <1>12 DEF EndGoal, TypeOK, TableInv
  <2>4. EnteredInv' /\ OrderInv' BY <1>12, NobodyEnters DEF EndGoal, TypeOK
  <2> QED BY <2>1, <2>2, <2>3, <2>4
<1> QED BY <1>1, <1>2, <1>3, <1>4, <1>5, <1>6, <1>7, <1>8, <1>9, <1>10, <1>11, <1>12, Steps

\* The strengthened invariant holds in every state the callbacks can reach.
THEOREM Invariance == Spec => []IInv
<1> QED BY InitInv, NextInv, PTL DEF Spec

-------------------------------------------------------------------------------
\* Every variable keeps to its type: the callbacks of a goal go from one place to
\* the next, and rclpy's state of the goal follows them.
THEOREM TypeCorrect == Spec => []TypeOK
<1> QED BY Invariance, PTL DEF IInv

\* disable_goals() returns when nobody holds the turn, and from then on nobody gets
\* it: DisabledMeansIdle, in terms of the table.
DisabledInv == controller = "idle" /\ ~goals_enabled => active = {}

\* A goal is let through only while goals are enabled, and disabling them makes the
\* controller wait.
LEMMA DisabledStaysIdle ==
  ASSUME DisabledInv, [Next]_vars
  PROVE  DisabledInv'
<1> USE DEF DisabledInv
<1>1. CASE UNCHANGED vars BY <1>1 DEF vars
<1>2. CASE \/ ReceiveGoal \/ HaltActiveGoal
           \/ \E v \in PreemptionValues : SetPreemption(v)
      BY <1>2 DEF ReceiveGoal, HaltActiveGoal, SetPreemption
<1>3. CASE EnableGoals BY <1>3 DEF EnableGoals
<1>4. CASE \E next \in {"disabling", "destroying"} : DisableGoals(next)
      BY <1>4 DEF DisableGoals
<1>5. CASE AwaitIdle BY <1>5 DEF AwaitIdle
<1>6. ASSUME NEW g \in Goals, TakeTurn(g) PROVE DisabledInv'
      BY <1>6 DEF TakeTurn, Stopped
<1>7. ASSUME NEW g \in Goals, EndGoal(g) PROVE DisabledInv'
      BY <1>7 DEF EndGoal
<1>8. ASSUME NEW g \in Goals,
             \/ RefuseContent(g) \/ AdmitGoal(g) \/ EnterTable(g) \/ Execute(g) \/ Dispatch(g)
             \/ \E h \in Goals : MarkPreempted(g, h)
      PROVE  DisabledInv'
      BY <1>8 DEF RefuseContent, AdmitGoal, EnterTable, Execute, Dispatch, MarkPreempted
<1>9. ASSUME NEW g \in Goals,
             \/ RefuseTurn(g) \/ AbortUnstarted(g) \/ StartGoal(g) \/ CancelGoal(g)
             \/ \E outcome \in Terminal : ExecuteSettles(g, outcome)
      PROVE  DisabledInv'
      BY <1>9 DEF RefuseTurn, AbortUnstarted, StartGoal, CancelGoal, ExecuteSettles
<1> QED BY <1>1, <1>2, <1>3, <1>4, <1>5, <1>6, <1>7, <1>8, <1>9, Steps

\* From the return of disable_goals() or destroy() until goals are enabled, no goal
\* runs and none begins to: neither one accepted just before, nor one whose task
\* the executor comes to later.
THEOREM DisabledServerIsIdle == Spec => []DisabledMeansIdle
<1>1. Init => DisabledInv BY DEF Init, DisabledInv
<1>2. IInv /\ DisabledInv => DisabledMeansIdle
      BY DEF IInv, TableInv, Holds, DisabledInv, DisabledMeansIdle
<1> QED BY <1>1, <1>2, Invariance, DisabledStaysIdle, PTL DEF Spec

-------------------------------------------------------------------------------
(* The refinement. In a step at most one goal gets another status, or some *)
(* of those that wait are dropped at once.                                 *)

\* The numbers from 1 to n are n.
LEMMA CountTo ==
  ASSUME NEW n \in Nat
  PROVE  IsFiniteSet(1..n) /\ Cardinality(1..n) = n
BY FS_Interval

\* No goal enters the table twice, so the goals that entered are at most all.
LEMMA Room ==
  ASSUME NEW s \in Seq(Goals), OnlyOnce(s)
  PROVE  Len(s) \in 0..MaxGoals
<1> DEFINE n == Len(s)
<1>1. n \in Nat /\ s \in [1..n -> Goals] OBVIOUS
<1>2. s \in Injection(1..n, Goals) BY <1>1 DEF Injection, IsInjective, OnlyOnce
<1> HIDE DEF n
<1>3. Cardinality(1..n) <= Cardinality(1..MaxGoals) BY <1>2, CountTo, FS_Injection
<1> QED BY <1>1, <1>3, CountTo DEF n

\* The goal g, and no other one, goes from one status to another.
StatusMove(g, from, to) ==
  /\ entered' = entered
  /\ StatusOf(g) = from /\ StatusOf(g)' = to
  /\ \A h \in Goals \ {g} : StatusOf(h)' = StatusOf(h)

StatusesStay ==
  /\ entered' = entered
  /\ \A g \in Goals : StatusOf(g)' = StatusOf(g)

\* A step in which no goal gets another status is a stutter of the abstract server.
LEMMA StayIsStutter ==
  ASSUME TypeOK, StatusesStay
  PROVE  UNCHANGED AbstractStatus
<1>1. \A n \in 1..Len(entered) : entered[n] \in Goals BY DEF TypeOK
<1>2. \A n \in 1..Len(entered) : StatusOf(entered[n])' = StatusOf(entered[n])
      BY <1>1 DEF StatusesStay, StatusOf
<1> QED BY <1>2 DEF StatusesStay, AbstractStatus, TypeOK

\* What becomes of a goal that has not entered the table does not show.
LEMMA UnseenIsStutter ==
  ASSUME TypeOK, EnteredInv, NEW g \in Goals, pc[g] \in Unentered,
         entered' = entered, \A h \in Goals \ {g} : StatusOf(h)' = StatusOf(h)
  PROVE  UNCHANGED AbstractStatus
<1>1. \A n \in 1..Len(entered) : entered[n] \in Goals \ {g}
      BY DEF TypeOK, EnteredInv
<1>2. \A n \in 1..Len(entered) : StatusOf(entered[n])' = StatusOf(entered[n])
      BY <1>1 DEF StatusOf
<1> QED BY <1>2 DEF AbstractStatus, TypeOK

\* The move of a goal that is in the table shows; that of another one does not.
LEMMA MoveShows ==
  ASSUME TypeOK, EnteredInv, NEW g \in Goals, NEW from, NEW to, StatusMove(g, from, to)
  PROVE  \/ UNCHANGED AbstractStatus
         \/ \E n \in 1..Len(entered) : entered[n] = g /\ Promise!Becomes(n, from, to)
<1>1. /\ \A n \in 1..Len(entered) : entered[n] \in Goals
      /\ Len(entered) \in 0..MaxGoals
      BY Room DEF TypeOK, EnteredInv
<1>2. \A n \in 1..Len(entered) : entered[n] # g => StatusOf(entered[n])' = StatusOf(entered[n])
      BY <1>1 DEF StatusMove, StatusOf
<1>3. CASE \A n \in 1..Len(entered) : entered[n] # g
      BY <1>1, <1>2, <1>3 DEF StatusMove, AbstractStatus
<1>4. ASSUME NEW n \in 1..Len(entered), entered[n] = g PROVE Promise!Becomes(n, from, to)
  <2>1. \A m \in 1..Len(entered) : m # n => StatusOf(entered[m])' = StatusOf(entered[m])
        BY <1>1, <1>2, <1>4 DEF EnteredInv, OnlyOnce, TypeOK
  <2>2. AbstractStatus[n] = from BY <1>1, <1>4 DEF AbstractStatus, StatusMove
  <2>3. StatusOf(entered[n])' = to BY <1>4 DEF StatusMove, StatusOf
  <2>4. Len(entered)' = Len(entered) BY DEF StatusMove
  <2>5. \A m \in Goals :
          AbstractStatus'[m] = IF m = n THEN to ELSE AbstractStatus[m]
        BY <2>1, <2>3, <2>4 DEF AbstractStatus
  <2>6. AbstractStatus' = [AbstractStatus EXCEPT ![n] = to]
        BY <2>5 DEF AbstractStatus
  <2> QED BY <2>2, <2>6 DEF Promise!Becomes
<1> QED BY <1>3, <1>4

\* Moves the abstract server can make: a goal that waits is dropped, and one that
\* ran or was dropped gets its answer.
LEMMA MoveIsDrop ==
  ASSUME TypeOK, EnteredInv, NEW g \in Goals, StatusMove(g, "accepted", "dropped")
  PROVE  [Promise!Next]_AbstractStatus
BY MoveShows, Room DEF Promise!Next, Promise!Drop, Promise!Goals, TypeOK, EnteredInv

LEMMA MoveIsSettle ==
  ASSUME TypeOK, EnteredInv, NEW g \in Goals, NEW from, NEW to, StatusMove(g, from, to),
         \/ from = "running" /\ to = "succeeded"
         \/ from \in {"running", "dropped"} /\ to \in {"canceled", "aborted"}
  PROVE  [Promise!Next]_AbstractStatus
BY MoveShows, Room DEF Promise!Next, Promise!Settle, Promise!Goals, TypeOK, EnteredInv

\* A goal whose status is "accepted" is in the table, unless it has yet to enter.
LEMMA AcceptedWaits ==
  ASSUME IInv, NEW i \in DOMAIN entered, StatusOf(entered[i]) = "accepted"
  PROVE  entered[i] \in waiting \ preempted
<1>1. entered[i] \in Goals BY DEF IInv, TypeOK
<1> QED BY <1>1 DEF IInv, StatusOf, StagesInv, TableInv, EnteredInv, Unentered, Waits, Holds

\* A goal that takes its turn does so when none runs, and none that entered before
\* it still may.
LEMMA MoveIsStart ==
  ASSUME IInv, NEW g \in Goals, StatusMove(g, "accepted", "running"),
         active = {}, to_mark[g] = {}
  PROVE  [Promise!Next]_AbstractStatus
<1> USE DEF IInv
<1>1. Len(entered) \in 0..MaxGoals /\ DOMAIN entered = 1..Len(entered)
      BY Room DEF TypeOK, EnteredInv
<1>2. \A n \in Promise!Goals : AbstractStatus[n] # "running"
  <2>1. \A h \in Goals : StatusOf(h) # "running" BY DEF StatusOf, TypeOK
  <2>2. \A n \in 1..Len(entered) : entered[n] \in Goals BY <1>1 DEF TypeOK
  <2> QED BY <1>1, <2>1, <2>2 DEF AbstractStatus, Promise!Goals
<1>3. ASSUME NEW n \in 1..Len(entered), entered[n] = g, Promise!Becomes(n, "accepted", "running")
      PROVE  Promise!Next
  <2>1. ASSUME NEW m \in 1..(n - 1), AbstractStatus[m] = "accepted" PROVE FALSE
    <3>1. m \in DOMAIN entered /\ n \in DOMAIN entered BY <1>1
    <3>2. StatusOf(entered[m]) = "accepted" BY <1>1, <2>1 DEF AbstractStatus
    <3>3. entered[m] \in to_mark[g] BY <1>3, <3>1, <3>2, AcceptedWaits DEF OrderInv
    <3> QED BY <3>3
  <2>2. n \in Promise!Goals BY <1>1 DEF Promise!Goals
  <2> QED BY <1>2, <1>3, <2>1, <2>2 DEF Promise!Next, Promise!Start
<1> QED BY <1>3, MoveShows

\* A goal that enters the table is answered there: it is accepted.
LEMMA EnteringResponds ==
  ASSUME IInv, NEW g \in Goals, EnterTable(g)
  PROVE  Promise!Next
<1> USE DEF IInv
<1> DEFINE n == Len(entered) + 1
<1>1. /\ entered' = Append(entered, g) /\ entered' \in Seq(Goals)
      /\ Len(entered') = n /\ Len(entered) \in Nat
      /\ \A i \in 1..Len(entered) : entered'[i] = entered[i] /\ entered[i] \in Goals
      /\ entered'[n] = g
      BY DEF EnterTable, TypeOK
<1>2. EnteredInv' BY NextInv DEF Next, CallbackStep
<1>3. n \in Goals
  <2>1. OnlyOnce(entered') BY <1>1, <1>2 DEF EnteredInv, OnlyOnce
  <2> HIDE DEF n
  <2>2. Len(entered') \in 0..MaxGoals BY <1>1, <2>1, Room
  <2> QED BY <1>1, <2>2 DEF n
<1>4. StatusOf(g)' = "accepted"
      BY DEF EnterTable, StatusOf, TypeOK, StagesInv, TableInv, Unentered, Holds
<1>5. \A h \in Goals \ {g} : StatusOf(h)' = StatusOf(h)
      BY DEF EnterTable, StatusOf, TypeOK
<1>6. \A i \in 1..Len(entered) : entered[i] # g
  <2>1. pc[g] \in Unentered /\ DOMAIN entered = 1..Len(entered)
        BY DEF EnterTable, TypeOK, Unentered
  <2> QED BY <2>1 DEF EnteredInv
<1>7. \A i \in 1..Len(entered) : StatusOf(entered[i])' = StatusOf(entered[i])
      BY <1>1, <1>5, <1>6 DEF StatusOf
<1>8. Promise!Becomes(n, "unknown", "accepted")
  <2>1. \A i \in 1..Len(entered) : AbstractStatus'[i] = AbstractStatus[i]
        BY <1>1, <1>3, <1>7 DEF AbstractStatus, StatusOf
  <2>2. AbstractStatus[n] = "unknown" /\ AbstractStatus'[n] = "accepted"
        BY <1>1, <1>3, <1>4 DEF AbstractStatus, StatusOf
  <2>3. \A i \in Goals : i > n => AbstractStatus'[i] = AbstractStatus[i]
        BY <1>1, <1>3 DEF AbstractStatus
  <2>4. AbstractStatus' = [AbstractStatus EXCEPT ![n] = "accepted"]
    <3> HIDE DEF n
    <3>1. \A i \in Goals : i \in 1..Len(entered) \/ i = n \/ i > n BY <1>1 DEF n
    <3>2. \A i \in Goals :
            AbstractStatus'[i] = IF i = n THEN "accepted" ELSE AbstractStatus[i]
          BY <2>1, <2>2, <2>3, <3>1
    <3>3. /\ AbstractStatus = [i \in Goals |-> AbstractStatus[i]]
          /\ AbstractStatus' = [i \in Goals |-> AbstractStatus'[i]]
          BY DEF AbstractStatus
    <3> QED BY <3>2, <3>3
  <2> QED BY <2>2, <2>4 DEF Promise!Becomes
<1> QED BY <1>3, <1>8 DEF Promise!Next, Promise!Respond, Promise!Goals

\* Halting and disabling drop all that wait, and nobody else.
LEMMA HaltDrops ==
  ASSUME IInv, UNCHANGED <<goal_state, pc, active, entered>>,
         preempted' = preempted \cup waiting
  PROVE  Promise!Next
<1> USE DEF IInv
<1> DEFINE dropped == {i \in 1..Len(entered) : entered[i] \in waiting \ preempted}
<1>1. /\ Len(entered) \in 0..MaxGoals
      /\ \A i \in 1..Len(entered) : entered[i] \in Goals
      BY Room DEF TypeOK, EnteredInv
<1>2. \A g \in waiting \ preempted : StatusOf(g) = "accepted" /\ StatusOf(g)' = "dropped"
      BY DEF StatusOf, TypeOK, StagesInv, TableInv, Waits, Holds
<1>3. \A g \in Goals : g \notin waiting \ preempted => StatusOf(g)' = StatusOf(g)
      BY DEF StatusOf, TypeOK
<1>4. \A i \in 1..Len(entered) : StatusOf(entered[i])' =
        IF i \in dropped THEN "dropped" ELSE StatusOf(entered[i])
      BY <1>1, <1>2, <1>3 DEF StatusOf
<1>5. \A i \in dropped : AbstractStatus[i] = "accepted" BY <1>1, <1>2 DEF AbstractStatus
<1>6. AbstractStatus' = [i \in Goals |-> IF i \in dropped THEN "dropped" ELSE AbstractStatus[i]]
  <2>1. \A i \in dropped : i \in 1..Len(entered) OBVIOUS
  <2> HIDE DEF dropped
  <2> QED BY <1>1, <1>4, <2>1 DEF AbstractStatus
<1>7. dropped \in SUBSET Promise!Goals BY <1>1 DEF Promise!Goals
<1> QED BY <1>5, <1>6, <1>7 DEF Promise!Next, Promise!DropAll, Promise!Goals

\* Every step of the callbacks is a step of the abstract server, or a stutter.
LEMMA RefinementStep == IInv /\ [Next]_vars => [Promise!Next]_AbstractStatus
<1> SUFFICES ASSUME IInv, [Next]_vars PROVE [Promise!Next]_AbstractStatus
    OBVIOUS
<1> USE DEF IInv
<1>1. ASSUME StatusesStay PROVE [Promise!Next]_AbstractStatus BY <1>1, StayIsStutter
<1>2. CASE \/ UNCHANGED vars \/ EnableGoals \/ AwaitIdle
           \/ \E v \in PreemptionValues : SetPreemption(v)
  <2>1. StatusesStay
        BY <1>2 DEF vars, EnableGoals, AwaitIdle, SetPreemption, StatusesStay, StatusOf
  <2> QED BY <1>1, <2>1
<1>3. CASE HaltActiveGoal \/ \E next \in {"disabling", "destroying"} : DisableGoals(next)
      BY <1>3, HaltDrops DEF HaltActiveGoal, DisableGoals
<1>4. CASE ReceiveGoal
  <2> DEFINE g == received + 1
  <2>1. g \in Goals /\ pc[g] = "none" BY <1>4 DEF ReceiveGoal, TypeOK, StagesInv
  <2> HIDE DEF g
  <2>2. entered' = entered /\ \A h \in Goals \ {g} : StatusOf(h)' = StatusOf(h)
        BY <1>4, <2>1 DEF ReceiveGoal, TypeOK, StatusOf, g
  <2> QED BY <2>1, <2>2, UnseenIsStutter DEF Unentered
<1>5. ASSUME NEW g \in Goals, RefuseContent(g) \/ AdmitGoal(g)
      PROVE  [Promise!Next]_AbstractStatus
  <2>1. pc[g] = "validating" /\ entered' = entered BY <1>5 DEF RefuseContent, AdmitGoal
  <2>2. \A h \in Goals \ {g} : StatusOf(h)' = StatusOf(h)
        BY <1>5 DEF RefuseContent, AdmitGoal, TypeOK, StatusOf
  <2> QED BY <2>1, <2>2, UnseenIsStutter DEF Unentered
<1>6. ASSUME NEW g \in Goals, EnterTable(g) PROVE [Promise!Next]_AbstractStatus
      BY <1>6, EnteringResponds
<1>7. ASSUME NEW g \in Goals, NEW h \in Goals, MarkPreempted(g, h)
      PROVE  [Promise!Next]_AbstractStatus
  <2>1. StatusesStay \/ StatusMove(h, "accepted", "dropped")
        BY <1>7 DEF MarkPreempted, TypeOK, StatusesStay, StatusMove, StatusOf
  <2> QED BY <1>1, <2>1, MoveIsDrop
<1>8. ASSUME NEW g \in Goals, Execute(g) \/ Dispatch(g) \/ CancelGoal(g)
      PROVE  [Promise!Next]_AbstractStatus
  <2>1. StatusesStay
        BY <1>8 DEF Execute, Dispatch, CancelGoal, TypeOK, StagesInv, StatusesStay, StatusOf, Waits
  <2> QED BY <1>1, <2>1
<1>9. ASSUME NEW g \in Goals, TakeTurn(g) PROVE [Promise!Next]_AbstractStatus
  <2> USE <1>9 DEF TakeTurn
  <2>1. goal_state[g] \in Live /\ g \notin active /\ to_mark[g] = {}
        BY DEF TypeOK, StagesInv, TableInv, Waits, Holds
  <2>2. CASE Stopped(g)
    <3>1. StatusesStay \/ StatusMove(g, "accepted", "dropped")
          BY <2>1, <2>2 DEF TypeOK, StatusesStay, StatusMove, StatusOf
    <3> QED BY <1>1, <3>1, MoveIsDrop
  <2>3. CASE ~Stopped(g)
    <3>1. active = {} /\ g \notin preempted BY <2>3 DEF Stopped, HasTurn
    <3>2. StatusMove(g, "accepted", "running")
          BY <2>1, <2>3, <3>1 DEF TypeOK, StatusMove, StatusOf
    <3> QED BY <2>1, <3>1, <3>2, MoveIsStart
  <2> QED BY <2>2, <2>3
<1>10. ASSUME NEW g \in Goals, RefuseTurn(g) \/ AbortUnstarted(g)
       PROVE  [Promise!Next]_AbstractStatus
  <2>1. goal_state[g] \in Live /\ g \notin active
        BY <1>10 DEF RefuseTurn, AbortUnstarted, TypeOK, StagesInv, TableInv, Waits, Holds
  <2>2. \/ StatusesStay \/ StatusMove(g, "dropped", "canceled")
        \/ StatusMove(g, "dropped", "aborted")
        BY <1>10, <2>1 DEF RefuseTurn, AbortUnstarted, TypeOK, StatusesStay, StatusMove, StatusOf
  <2> QED BY <1>1, <2>2, MoveIsSettle
<1>11. ASSUME NEW g \in Goals, StartGoal(g) PROVE [Promise!Next]_AbstractStatus
  <2>1. goal_state[g] \in Live /\ g \in active
        BY <1>11 DEF StartGoal, TypeOK, StagesInv, TableInv, Waits, Holds
  <2>2. StatusesStay \/ StatusMove(g, "running", "canceled")
        BY <1>11, <2>1 DEF StartGoal, TypeOK, StatusesStay, StatusMove, StatusOf
  <2> QED BY <1>1, <2>2, MoveIsSettle
<1>12. ASSUME NEW g \in Goals, NEW outcome \in Terminal, ExecuteSettles(g, outcome)
       PROVE  [Promise!Next]_AbstractStatus
  <2>1. goal_state[g] \in Live /\ g \in active
        BY <1>12 DEF ExecuteSettles, TypeOK, StagesInv, TableInv, Waits, Holds
  <2>2. StatusMove(g, "running", outcome)
        BY <1>12, <2>1 DEF ExecuteSettles, TypeOK, StatusMove, StatusOf
  <2> QED BY <2>2, MoveIsSettle
<1>13. ASSUME NEW g \in Goals, EndGoal(g) PROVE [Promise!Next]_AbstractStatus
  <2>1. StatusesStay BY <1>13 DEF EndGoal, TypeOK, StagesInv, StatusesStay, StatusOf
  <2> QED BY <1>1, <2>1
<1> QED BY <1>2, <1>3, <1>4, <1>5, <1>6, <1>7, <1>8, <1>9, <1>10, <1>11, <1>12, <1>13, Steps

\* Whatever the threads of the executor do, at most one goal runs at a time, in the
\* order they entered the table; every goal is settled once, and succeeds only if
\* it ran (_handle_accepted(), _dispatch_execute(), halt, disable and destroy).
THEOREM PythonServerImplementsGoalServer == Spec => KeepsPromise
<1>1. Init => Promise!Init
      BY DEF Init, Promise!Init, Promise!Goals, AbstractStatus
<1> QED BY <1>1, Invariance, RefinementStep, PTL DEF Spec, KeepsPromise, Promise!Spec
=============================================================================
