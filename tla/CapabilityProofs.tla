--------------------------- MODULE CapabilityProofs ---------------------------
(***************************************************************************)
(* A capability serves goals only while it is active, its history of       *)
(* orders never lies and drops no order it should keep, and its link_state *)
(* is true: for any number of goals, any size of the history, any timeout  *)
(* and any period of the link timer.                                       *)
(***************************************************************************)
EXTENDS Capability, FiniteSetTheorems, TLAPS

\* A transition that disables goals knows where it leads, and from the moment it
\* begins no goal waits: the one the worker holds is the last.
Disabling ==
  /\ pc = "disabling" <=> target # "none"
  /\ pc = "disabling" => ~goals_enabled /\ \A g \in Goals : status[g] # "accepted"
  /\ target = "inactive" => lifecycle = "active"

\* The publishers are there from on_configure() on, and the worker holds the
\* goal that runs.
Holding ==
  /\ lifecycle \in {"inactive", "active"} => publishers
  /\ \A g \in Goals : status[g] = "running" => active = g

Serving == OnlyServesWhileActive /\ Disabling /\ Holding

\* The topic lags behind the goals, as the history does.
TopicIsTruthful ==
  \A g \in Goals :
    /\ topic[g] # "rejected"
    /\ topic[g] \in History!Finished => status[g] = topic[g]
    /\ topic[g] = "canceling" => g \in canceling

\* Goals are received in order, and handle_accepted() handles an accepted one.
InOrder ==
  /\ \A g, h \in Goals : g < h /\ status[g] = "unknown" => status[h] = "unknown"
  /\ pc \in {"accepting", "recording"} =>
       \A g \in Received : (\A h \in Received : h <= g) => status[g] # "rejected"

Telling == HistoryIsTruthful /\ TopicIsTruthful /\ InOrder

\* Only a watchdog with a timeout is watched.
Watching == LinkStateIsTrue /\ (watching => monitored)

IInv == TypeOK /\ Serving /\ Telling /\ Watching

-------------------------------------------------------------------------------
(* The types, in four parts.                                               *)

NodeTypes ==
  /\ lifecycle \in {"unconfigured", "inactive", "active", "finalized"}
  /\ target \in {"none", "inactive", "finalized"}
  /\ publishers \in BOOLEAN /\ heartbeat \in BOOLEAN /\ watching \in BOOLEAN
  /\ cancel_on_lost \in BOOLEAN /\ goals_enabled \in BOOLEAN /\ unread \in BOOLEAN
  /\ pc \in {"idle", "accepting", "recording", "settling", "disabling"}

GoalTypes ==
  /\ asked \in BOOLEAN
  /\ status \in [Goals -> Server!Status]
  /\ canceling \subseteq Goals
  /\ active \in Goals \cup {NoGoal}
  /\ topic \in [Goals -> {"unknown", "executing", "canceling"} \cup Answers]

OrderTypes ==
  /\ DOMAIN orders \subseteq Goals
  /\ \A g \in DOMAIN orders : orders[g] \in History!OrderStates

LinkTypes ==
  /\ since_check \in 0..CheckPeriod
  /\ monitored \in BOOLEAN
  /\ age \in Watchdog!Never..(Timeout + CheckPeriod + 1)
  /\ link \in Watchdog!LinkStates

LEMMA TypesInParts ==
  /\ TypeOK <=> NodeTypes /\ GoalTypes /\ OrderTypes /\ LinkTypes
  /\ TypeOK' <=> NodeTypes' /\ GoalTypes' /\ OrderTypes' /\ LinkTypes'
<1>1. TypeOK <=> NodeTypes /\ GoalTypes /\ OrderTypes /\ LinkTypes
  BY DEF TypeOK, NodeTypes, GoalTypes, OrderTypes, LinkTypes
<1>2. TypeOK' <=> NodeTypes' /\ GoalTypes' /\ OrderTypes' /\ LinkTypes'
  BY DEF TypeOK, NodeTypes, GoalTypes, OrderTypes, LinkTypes
<1> QED BY <1>1, <1>2

LEMMA NodeTypesStay == IInv /\ [Next]_vars => NodeTypes'
<1> SUFFICES ASSUME IInv, [Next]_vars PROVE NodeTypes'
  OBVIOUS
<1>0. NodeTypes /\ Disabling
  BY TypesInParts DEF IInv, Serving
<1> USE <1>0, CapabilityAssumption DEF NodeTypes, node, goal_vars, topic_vars, link_vars
<1>1. CASE Transition
  BY <1>1, ZenonT(30) DEF Transition, Configure, Activate, BeginDeactivate, BeginShutdown,
              BeginDisable, Cleanup
<1>2. CASE Client
  BY <1>2 DEF Client, ReceiveGoal, CancelGoal
<1>3. CASE Handling
  <2>1. CASE EnqueueGoal \/ RecordNewest \/ DoneSettling
    BY <2>1 DEF EnqueueGoal, RecordNewest, RecordOrder, DoneSettling
  <2>2. CASE Disabled
    BY <1>0, <2>2 DEF Disabled, Disabling
  <2>3. CASE \E g \in Goals : SettleDropped(g)
    BY <2>3 DEF SettleDropped
  <2> QED BY <1>3, <2>1, <2>2, <2>3 DEF Handling
<1>4. CASE Executing \/ Worker
  BY <1>4 DEF Executing, SettleGoal, Worker, FinishGoal, StartGoal
<1>5. CASE PublishStates \/ TakeStates
  BY <1>5, ZenonT(30) DEF PublishStates, TakeStates
<1>6. CASE HearFleet \/ CheckLink \/ Tick
  BY <1>6 DEF HearFleet, CheckLink, Tick
<1>7. CASE UNCHANGED vars
  BY <1>7 DEF vars
<1> QED BY <1>1, <1>2, <1>3, <1>4, <1>5, <1>6, <1>7 DEF Next

LEMMA GoalTypesStay == IInv /\ [Next]_vars => GoalTypes'
<1> SUFFICES ASSUME IInv, [Next]_vars PROVE GoalTypes'
  OBVIOUS
<1>0. GoalTypes
  BY TypesInParts DEF IInv
<1>d. DropQueued => status' \in [Goals -> Server!Status]
  BY <1>0 DEF GoalTypes, DropQueued, Server!Status
<1> USE <1>0, <1>d DEF GoalTypes, node, goal_vars, topic_vars, link_vars, AskActive
<1>1. CASE Transition
  BY <1>1 DEF Transition, Configure, Activate, BeginDeactivate, BeginShutdown, BeginDisable,
              Cleanup
<1>2. CASE Client
  <2>1. CASE ReceiveGoal
    BY <2>1 DEF ReceiveGoal, Server!Respond, Server!Becomes, Server!Status, Server!Answers
  <2>2. CASE \E g \in Goals : CancelGoal(g)
    BY <2>2 DEF CancelGoal
  <2> QED BY <1>2, <2>1, <2>2 DEF Client
<1>3. CASE Handling
  <2>1. CASE EnqueueGoal
    BY <2>1 DEF EnqueueGoal, Server!Status
  <2>2. CASE RecordNewest \/ DoneSettling \/ Disabled
    BY <2>2 DEF RecordNewest, RecordOrder, DoneSettling, Disabled
  <2>3. CASE \E g \in Goals : SettleDropped(g)
    BY <2>3 DEF SettleDropped, Server!Status, Server!Answers
  <2> QED BY <1>3, <2>1, <2>2, <2>3 DEF Handling
<1>4. CASE Executing
  BY <1>4 DEF Executing, SettleGoal, Server!Settle, Server!Becomes, Server!Status, Server!Answers
<1>5. CASE Worker
  BY <1>5 DEF Worker, FinishGoal, StartGoal, Server!Start, Server!Becomes, Server!Status
<1>6. CASE PublishStates \/ TakeStates
  BY <1>6 DEF PublishStates, TakeStates, Report, Reported, Server!Status, Answers, Server!Answers
<1>7. CASE HearFleet \/ CheckLink \/ Tick
  BY <1>7 DEF HearFleet, CheckLink, Tick
<1>8. CASE UNCHANGED vars
  BY <1>8 DEF vars
<1> QED BY <1>1, <1>2, <1>3, <1>4, <1>5, <1>6, <1>7, <1>8 DEF Next

\* What accepted() and update() leave in a history.
LEMMA AcceptedKeeps ==
  ASSUME NEW history, NEW goal
  PROVE  LET after == History!Accepted(history, goal)
         IN  /\ DOMAIN after \subseteq DOMAIN history \cup {goal}
             /\ \A g \in DOMAIN after :
                  after[g] = IF g = goal THEN "accepted" ELSE history[g]
BY DEF History!Accepted, History!Trim

LEMMA UpdateKeeps ==
  ASSUME NEW history, NEW report
  PROVE  LET after == History!Update(history, report)
         IN  /\ DOMAIN after \subseteq DOMAIN history
             /\ \A g \in DOMAIN after :
                  after[g] = IF history[g] \in History!Finished \/ report[g] = "unknown"
                             THEN history[g] ELSE report[g]
BY DEF History!Update, History!Reported, History!Trim

\* Only two callbacks change the history.
LEMMA HistoryChanges ==
  [Next]_vars => orders' = orders \/ RecordNewest \/ TakeStates
BY DEF Next, vars, node, goal_vars, topic_vars, link_vars, Transition, Configure, Activate,
       BeginDeactivate, BeginShutdown, BeginDisable, Cleanup, Client, ReceiveGoal, CancelGoal,
       Handling, EnqueueGoal, DoneSettling, Disabled, SettleDropped, Executing, SettleGoal,
       Worker, FinishGoal, StartGoal, PublishStates, HearFleet, CheckLink, Tick

LEMMA OrderTypesStay == IInv /\ [Next]_vars => OrderTypes'
<1> SUFFICES ASSUME IInv, [Next]_vars PROVE OrderTypes'
  OBVIOUS
<1>0. GoalTypes /\ OrderTypes /\ TopicIsTruthful
  BY TypesInParts DEF IInv, Telling
<1>1. CASE orders' = orders
  BY <1>0, <1>1 DEF OrderTypes
<1>2. CASE RecordNewest
  BY <1>0, <1>2, AcceptedKeeps DEF RecordNewest, RecordOrder, Received, OrderTypes,
     History!OrderStates
<1>3. CASE TakeStates
  <2>1. orders' = History!Update(orders, topic)
    BY <1>3 DEF TakeStates
  <2>2. \A g \in Goals :
          topic[g] # "unknown" => topic[g] \in History!OrderStates
    BY <1>0 DEF GoalTypes, TopicIsTruthful, History!OrderStates, History!Finished, Answers,
                Server!Answers
  <2> QED BY <1>0, <2>1, <2>2, UpdateKeeps DEF OrderTypes
<1> QED BY <1>1, <1>2, <1>3, HistoryChanges

\* Only activations, heartbeats, the timer and time change the link.
LEMMA LinkChanges ==
  [Next]_vars =>
    \/ UNCHANGED <<since_check, monitored, age, link>>
    \/ \E timeout_set \in TimeoutIsSet : Activate(timeout_set)
    \/ HearFleet \/ CheckLink \/ Tick
BY DEF Next, vars, link_vars, Transition, Configure, BeginDeactivate, BeginShutdown, BeginDisable,
       Cleanup, Client, ReceiveGoal, CancelGoal, Handling, EnqueueGoal, RecordNewest, RecordOrder,
       DoneSettling, Disabled, SettleDropped, Executing, SettleGoal, Worker, FinishGoal, StartGoal,
       PublishStates, TakeStates

LEMMA LinkTypesStay == IInv /\ [Next]_vars => LinkTypes'
<1> SUFFICES ASSUME IInv, [Next]_vars PROVE LinkTypes'
  OBVIOUS
<1>0. LinkTypes
  BY TypesInParts DEF IInv
<1> USE <1>0, CapabilityAssumption
    DEF LinkTypes, link_vars, Watchdog!Never, Watchdog!LinkStates
<1>1. CASE \E timeout_set \in TimeoutIsSet : Activate(timeout_set)
  BY <1>1 DEF Activate, Watchdog!Reset
<1>2. CASE HearFleet
  BY <1>2 DEF HearFleet, Watchdog!Heard
<1>3. CASE CheckLink
  BY <1>3 DEF CheckLink, Watchdog!Update
<1>4. CASE Tick
  BY <1>4 DEF Tick, Watchdog!Tick
<1>5. CASE UNCHANGED <<since_check, monitored, age, link>>
  BY <1>5
<1> QED BY <1>1, <1>2, <1>3, <1>4, <1>5, LinkChanges

-------------------------------------------------------------------------------
(* Goals are only served while the capability is active.                   *)

LEMMA ServingStays == IInv /\ [Next]_vars => Serving'
<1> SUFFICES ASSUME IInv, [Next]_vars PROVE Serving'
  OBVIOUS
<1>0. NodeTypes /\ GoalTypes /\ OnlyServesWhileActive /\ Disabling /\ Holding
  BY TypesInParts DEF IInv, Serving
<1>n. \A g \in Goals : g # NoGoal
  BY DEF Goals, Server!Goals, NoGoal
<1>d. DropQueued =>
        \A g \in Goals : /\ status'[g] = IF status[g] = "accepted" THEN "dropped" ELSE status[g]
                         /\ status'[g] # "accepted"
  BY DEF DropQueued, Queued
<1> USE <1>0, <1>n
    DEF NodeTypes, GoalTypes, Serving, OnlyServesWhileActive, Disabling, Holding,
        node, goal_vars, topic_vars, link_vars, Answers, Server!Answers
<1>1. CASE \E cancel \in LostCancels : Configure(cancel)
  BY <1>1 DEF Configure
<1>2. CASE \E timeout_set \in TimeoutIsSet : Activate(timeout_set)
  BY <1>2 DEF Activate
<1>3. CASE BeginDeactivate \/ BeginShutdown
  <2>1. PICK to \in {"inactive", "finalized"} :
          /\ BeginDisable(to)
          /\ to = "inactive" => lifecycle = "active"
    BY <1>3 DEF BeginDeactivate, BeginShutdown
  <2> QED BY <1>d, <2>1 DEF BeginDisable
<1>4. CASE Cleanup
  BY <1>4 DEF Cleanup
<1>5. CASE ReceiveGoal
  <2>1. PICK g \in Unknown : /\ Server!Respond(g)
                             /\ status'[g] = "accepted" => goals_enabled
    BY <1>5 DEF ReceiveGoal
  <2>2. /\ status'[g] \in {"rejected", "accepted"}
        /\ \A h \in Goals : h # g => status'[h] = status[h]
    BY <2>1 DEF Server!Respond, Server!Becomes, Unknown
  <2>3. pc = "idle" /\ pc' = IF status'[g] = "accepted" THEN "accepting" ELSE "idle"
    BY <1>5, <2>1, <2>2 DEF ReceiveGoal, Unknown, Server!Respond, Server!Becomes
  <2> QED BY <1>5, <2>1, <2>2, <2>3 DEF ReceiveGoal, Unknown
<1>6. CASE \E g \in Goals : CancelGoal(g)
  BY <1>6 DEF CancelGoal
<1>7. CASE EnqueueGoal
  <2>1. \A g \in Goals :
          status'[g] = status[g] \/ (status[g] = "accepted" /\ status'[g] = "dropped")
    BY <1>7 DEF EnqueueGoal, Queued
  <2> QED BY <1>7, <2>1 DEF EnqueueGoal
<1>8. CASE RecordNewest \/ DoneSettling
  BY <1>8 DEF RecordNewest, RecordOrder, DoneSettling
<1>9. CASE Disabled
  <2>1. \A g \in Goals : status[g] \in {"unknown"} \cup Answers
    BY <1>9 DEF Disabled, Server!Status
  <2> QED BY <1>9, <2>1 DEF Disabled
<1>10. CASE \E g \in Goals : SettleDropped(g)
  <2>1. \A g \in Goals :
          status'[g] = status[g] \/ (status[g] = "dropped" /\ status'[g] \in Answers)
    BY <1>10 DEF SettleDropped
  <2> QED BY <1>10, <2>1 DEF SettleDropped
<1>11. CASE Executing
  <2>1. \A g \in Goals :
          \/ status'[g] = status[g]
          \/ status[g] \in {"running", "dropped"} /\ status'[g] \in Answers
    BY <1>11 DEF Executing, SettleGoal, Server!Settle, Server!Becomes
  <2> QED BY <1>11, <2>1 DEF Executing, SettleGoal
<1>12. CASE FinishGoal
  <2>1. \A g \in Goals : status[g] # "running"
    BY <1>12 DEF FinishGoal
  <2> QED BY <1>12, <2>1 DEF FinishGoal
<1>13. CASE \E g \in Goals : StartGoal(g)
  <2>1. PICK g \in Goals : StartGoal(g)
    BY <1>13
  <2>2. /\ status[g] = "accepted" /\ status'[g] = "running"
        /\ \A h \in Goals : h # g => status'[h] = status[h] /\ status[h] # "running"
    BY <2>1 DEF StartGoal, Server!Start, Server!Becomes, Goals
  <2>3. lifecycle = "active" /\ pc # "disabling"
    BY <2>2
  <2> QED BY <2>1, <2>2, <2>3 DEF StartGoal
<1>14. CASE PublishStates \/ TakeStates \/ HearFleet \/ Tick
  BY <1>14 DEF PublishStates, TakeStates, HearFleet, Tick
<1>15. CASE CheckLink
  <2>1. \/ UNCHANGED <<status, asked, pc>>
        \/ DropQueued /\ AskActive /\ pc' = "settling"
    BY <1>15 DEF CheckLink
  <2>2. lifecycle = "active" /\ pc = "idle"
    BY <1>15 DEF CheckLink
  <2>3. CASE UNCHANGED <<status, asked, pc>>
    BY <1>15, <2>3 DEF CheckLink
  <2>4. CASE DropQueued /\ AskActive /\ pc' = "settling"
    BY <1>15, <1>d, <2>2, <2>4 DEF CheckLink
  <2> QED BY <2>1, <2>3, <2>4
<1>16. CASE UNCHANGED vars
  BY <1>16 DEF vars
<1> QED BY <1>1, <1>2, <1>3, <1>4, <1>5, <1>6, <1>7, <1>8, <1>9, <1>10, <1>11, <1>12, <1>13,
           <1>14, <1>15, <1>16
        DEF Next, Transition, Client, Handling, Executing, Worker

-------------------------------------------------------------------------------
(* The link.                                                               *)

\* Only an activation begins to watch it.
LEMMA WatchingBegins ==
  [Next]_vars => (watching' => watching \/ \E timeout_set \in TimeoutIsSet : Activate(timeout_set))
BY DEF Next, vars, link_vars, Transition, Configure, BeginDeactivate, BeginShutdown, BeginDisable,
       Cleanup, Client, ReceiveGoal, CancelGoal, Handling, EnqueueGoal, RecordNewest, RecordOrder,
       DoneSettling, Disabled, SettleDropped, Executing, SettleGoal, Worker, FinishGoal, StartGoal,
       PublishStates, TakeStates, HearFleet, CheckLink, Tick

LEMMA WatchingStays == IInv /\ [Next]_vars => Watching'
<1> SUFFICES ASSUME IInv, [Next]_vars PROVE Watching'
  OBVIOUS
<1>0. LinkTypes /\ NodeTypes /\ Watching
  BY TypesInParts DEF IInv
<1> USE <1>0, CapabilityAssumption
    DEF LinkTypes, NodeTypes, Watching, LinkStateIsTrue, Watchdog!Never, Watchdog!LinkStates
<1>1. CASE \E timeout_set \in TimeoutIsSet : Activate(timeout_set)
  BY <1>1 DEF Activate, Watchdog!Reset
<1>2. CASE HearFleet
  BY <1>2 DEF HearFleet, Watchdog!Heard
<1>3. CASE CheckLink
  BY <1>3 DEF CheckLink, Watchdog!Update
<1>4. CASE Tick
  <2>1. CASE age \in {-1, Timeout + CheckPeriod + 1}
    BY <1>4, <2>1 DEF Tick, Watchdog!Tick
  <2>2. CASE age \notin {-1, Timeout + CheckPeriod + 1}
    BY <1>4, <2>2 DEF Tick, Watchdog!Tick
  <2> QED BY <2>1, <2>2
<1>5. CASE UNCHANGED <<since_check, monitored, age, link>>
  <2>1. watching' => watching \/ \E timeout_set \in TimeoutIsSet : Activate(timeout_set)
    BY WatchingBegins
  <2>2. CASE watching' => watching
    BY <1>5, <2>2
  <2> QED BY <1>1, <2>1, <2>2
<1> QED BY <1>1, <1>2, <1>3, <1>4, <1>5, LinkChanges

-------------------------------------------------------------------------------
(* The history.                                                            *)

\* What a step may do to the goals: an answer is for good, and is not a
\* rejection unless it is the first thing a goal hears.
GoalStep(g) ==
  \/ status'[g] = status[g]
  \/ status[g] = "unknown" /\ status'[g] \in {"accepted", "rejected"}
  \/ /\ status[g] \in {"accepted", "dropped", "running"}
     /\ status'[g] \in {"dropped", "running", "succeeded", "canceled", "aborted"}

LEMMA GoalSteps ==
  IInv /\ [Next]_vars => \A g \in Goals : GoalStep(g) /\ (g \in canceling => g \in canceling')
<1> SUFFICES ASSUME IInv, [Next]_vars, NEW g \in Goals
             PROVE  GoalStep(g) /\ (g \in canceling => g \in canceling')
  OBVIOUS
<1>0. GoalTypes
  BY TypesInParts DEF IInv
<1>d. DropQueued => GoalStep(g)
  BY DEF DropQueued, Queued, GoalStep
<1> USE <1>0, <1>d DEF GoalTypes, node, goal_vars, topic_vars, link_vars
<1>s. UNCHANGED status => GoalStep(g)
  BY DEF GoalStep
<1> USE <1>s
<1>1. CASE Transition
  BY <1>1 DEF Transition, Configure, Activate, BeginDeactivate, BeginShutdown, BeginDisable,
              Cleanup
<1>2. CASE Client
  <2>1. CASE ReceiveGoal
    BY <2>1 DEF ReceiveGoal, Unknown, Server!Respond, Server!Becomes, GoalStep
  <2>2. CASE \E h \in Goals : CancelGoal(h)
    BY <2>2 DEF CancelGoal
  <2> QED BY <1>2, <2>1, <2>2 DEF Client
<1>3. CASE Handling
  <2>1. CASE EnqueueGoal
    BY <2>1 DEF EnqueueGoal, Queued, GoalStep
  <2>2. CASE RecordNewest \/ DoneSettling \/ Disabled
    BY <2>2 DEF RecordNewest, RecordOrder, DoneSettling, Disabled
  <2>3. CASE \E h \in Goals : SettleDropped(h)
    BY <2>3 DEF SettleDropped, GoalStep
  <2> QED BY <1>3, <2>1, <2>2, <2>3 DEF Handling
<1>4. CASE Executing
  BY <1>4 DEF Executing, SettleGoal, Server!Settle, Server!Becomes, GoalStep
<1>5. CASE Worker
  BY <1>5 DEF Worker, FinishGoal, StartGoal, Server!Start, Server!Becomes, GoalStep
<1>6. CASE PublishStates \/ TakeStates \/ HearFleet \/ CheckLink \/ Tick
  BY <1>6 DEF PublishStates, TakeStates, HearFleet, CheckLink, Tick
<1>7. CASE UNCHANGED vars
  BY <1>7 DEF vars
<1> QED BY <1>1, <1>2, <1>3, <1>4, <1>5, <1>6, <1>7 DEF Next

LEMMA TopicStaysTruthful == IInv /\ [Next]_vars => TopicIsTruthful'
<1> SUFFICES ASSUME IInv, [Next]_vars, NEW g \in Goals
             PROVE  /\ topic'[g] # "rejected"
                    /\ topic'[g] \in History!Finished => status'[g] = topic'[g]
                    /\ topic'[g] = "canceling" => g \in canceling'
  BY DEF TopicIsTruthful
<1>0. GoalTypes /\ TopicIsTruthful /\ GoalStep(g) /\ (g \in canceling => g \in canceling')
  BY TypesInParts, GoalSteps DEF IInv, Telling
<1>1. CASE topic' = topic
  BY <1>0, <1>1 DEF TopicIsTruthful, GoalStep, History!Finished
<1>2. CASE PublishStates
  BY <1>0, <1>2 DEF PublishStates, Report, Reported, History!Finished, GoalTypes, goal_vars,
                    Server!Status, Server!Answers
<1>3. topic' = topic \/ PublishStates
  BY DEF Next, vars, node, goal_vars, topic_vars, link_vars, Transition, Configure, Activate,
         BeginDeactivate, BeginShutdown, BeginDisable, Cleanup, Client, ReceiveGoal, CancelGoal,
         Handling, EnqueueGoal, RecordNewest, RecordOrder, DoneSettling, Disabled, SettleDropped,
         Executing, SettleGoal, Worker, FinishGoal, StartGoal, TakeStates, HearFleet, CheckLink,
         Tick
<1> QED BY <1>1, <1>2, <1>3

\* Only a goal request gives a goal its first answer.
LEMMA OnlyReceivingAnswers ==
  IInv /\ [Next]_vars /\ ~ReceiveGoal =>
    \A g \in Goals : status'[g] = "unknown" <=> status[g] = "unknown"
<1> SUFFICES ASSUME IInv, [Next]_vars, ~ReceiveGoal, NEW g \in Goals
             PROVE  status'[g] = "unknown" <=> status[g] = "unknown"
  OBVIOUS
<1>0. GoalTypes
  BY TypesInParts DEF IInv
<1>d. DropQueued => (status'[g] = "unknown" <=> status[g] = "unknown")
  BY DEF DropQueued, Queued
<1> USE <1>0, <1>d DEF GoalTypes, node, goal_vars, topic_vars, link_vars
<1>1. CASE Transition
  BY <1>1 DEF Transition, Configure, Activate, BeginDeactivate, BeginShutdown, BeginDisable,
              Cleanup
<1>2. CASE \E h \in Goals : CancelGoal(h)
  BY <1>2 DEF CancelGoal
<1>3. CASE Handling
  BY <1>3 DEF Handling, EnqueueGoal, Queued, RecordNewest, RecordOrder, DoneSettling, Disabled,
              SettleDropped
<1>4. CASE Executing \/ Worker
  BY <1>4 DEF Executing, SettleGoal, Server!Settle, Server!Becomes, Worker, FinishGoal, StartGoal,
              Server!Start
<1>5. CASE PublishStates \/ TakeStates \/ HearFleet \/ CheckLink \/ Tick
  BY <1>5 DEF PublishStates, TakeStates, HearFleet, CheckLink, Tick
<1>6. CASE UNCHANGED vars
  BY <1>6 DEF vars
<1> QED BY <1>1, <1>2, <1>3, <1>4, <1>5, <1>6 DEF Next, Client

LEMMA InOrderStays == IInv /\ [Next]_vars => InOrder'
<1> SUFFICES ASSUME IInv, [Next]_vars PROVE InOrder'
  OBVIOUS
<1>0. NodeTypes /\ GoalTypes /\ InOrder /\ \A g \in Goals : GoalStep(g)
  BY TypesInParts, GoalSteps DEF IInv, Telling
<1>g. \A g \in Goals : g \in Int
  BY CapabilityAssumption DEF Goals, Server!Goals
<1>1. CASE ReceiveGoal
  <2>1. PICK g \in Unknown :
          /\ \A h \in Unknown : g <= h
          /\ Server!Respond(g)
          /\ pc' = IF status'[g] = "accepted" THEN "accepting" ELSE "idle"
    BY <1>1 DEF ReceiveGoal
  <2>2. /\ g \in Goals /\ status[g] = "unknown" /\ status'[g] \in {"accepted", "rejected"}
        /\ \A h \in Goals : h # g => status'[h] = status[h]
    BY <1>0, <2>1 DEF GoalTypes, Unknown, Server!Respond, Server!Becomes
  <2>3. \A h, k \in Goals : h < k /\ status'[h] = "unknown" => status'[k] = "unknown"
    BY <1>0, <1>g, <2>1, <2>2 DEF InOrder, Unknown
  <2>4. \A h \in Goals : (\A k \in Received' : k <= h) /\ h \in Received' => h = g
    <3>1. \A h \in Goals : h # g /\ status[h] # "unknown" => h < g
      BY <1>0, <1>g, <2>2 DEF InOrder
    <3>2. g \in Received'
      BY <2>2 DEF Received, Unknown
    <3> QED BY <1>g, <2>2, <3>1, <3>2 DEF Received, Unknown
  <2>5. pc' \in {"accepting", "recording"} => status'[g] # "rejected"
    BY <2>1, <2>2
  <2> QED BY <2>3, <2>4, <2>5 DEF InOrder, Received
<1>2. CASE ~ReceiveGoal
  <2>1. \A g \in Goals : status'[g] = "unknown" <=> status[g] = "unknown"
    BY <1>0, <1>2, OnlyReceivingAnswers
  <2>2. Received' = Received
    BY <2>1 DEF Received, Unknown
  <2>3. pc' \in {"accepting", "recording"} => pc \in {"accepting", "recording"}
    BY <1>2 DEF Next, vars, node, goal_vars, topic_vars, link_vars, Transition, Configure, Activate,
         BeginDeactivate, BeginShutdown, BeginDisable, Cleanup, Client, CancelGoal,
         Handling, EnqueueGoal, RecordNewest, RecordOrder, DoneSettling, Disabled, SettleDropped,
         Executing, SettleGoal, Worker, FinishGoal, StartGoal, PublishStates, TakeStates,
         HearFleet, CheckLink, Tick
  <2>4. \A g \in Received : status'[g] = "rejected" => status[g] = "rejected"
    BY <1>0 DEF GoalStep, Received, Unknown
  <2> QED BY <1>0, <2>1, <2>2, <2>3, <2>4 DEF InOrder
<1> QED BY <1>1, <1>2

LEMMA HistoryStaysTruthful == IInv /\ [Next]_vars => HistoryIsTruthful'
<1> SUFFICES ASSUME IInv, [Next]_vars PROVE HistoryIsTruthful'
  OBVIOUS
<1>0. /\ GoalTypes /\ OrderTypes /\ HistoryIsTruthful /\ TopicIsTruthful /\ InOrder
      /\ \A g \in Goals : GoalStep(g) /\ (g \in canceling => g \in canceling')
  BY TypesInParts, GoalSteps DEF IInv, Telling
<1>1. CASE orders' = orders
  BY <1>0, <1>1 DEF OrderTypes, HistoryIsTruthful, GoalStep, History!Finished
<1>2. CASE RecordNewest
  <2>1. PICK g \in Received : (\A h \in Received : h <= g) /\ RecordOrder(g)
    BY <1>2 DEF RecordNewest
  <2>2. status' = status /\ canceling' = canceling /\ pc = "recording"
    BY <2>1 DEF RecordOrder, goal_vars
  <2>3. g \in Goals /\ status[g] \notin {"unknown", "rejected"}
    BY <1>0, <2>1, <2>2 DEF InOrder, Received, Unknown
  <2>4. orders' = History!Accepted(orders, g)
    BY <2>1 DEF RecordOrder
  <2> QED BY <1>0, <2>2, <2>3, <2>4, AcceptedKeeps DEF HistoryIsTruthful, History!Finished
<1>3. CASE TakeStates
  <2>1. status' = status /\ canceling' = canceling /\ orders' = History!Update(orders, topic)
    BY <1>3 DEF TakeStates, goal_vars
  <2> QED BY <1>0, <2>1, UpdateKeeps DEF HistoryIsTruthful, TopicIsTruthful, OrderTypes
<1> QED BY <1>1, <1>2, <1>3, HistoryChanges

-------------------------------------------------------------------------------
(* The results.                                                            *)

LEMMA Initially == Init => IInv
<1> SUFFICES ASSUME Init PROVE IInv
  OBVIOUS
<1> USE CapabilityAssumption DEF Init, Server!Init, Watchdog!Init, History!Empty
<1>1. NodeTypes /\ OrderTypes
  BY DEF NodeTypes, OrderTypes
<1>2. GoalTypes
  BY DEF GoalTypes, Server!Status, Goals
<1>3. LinkTypes
  <2>1. since_check = 0 /\ age = -1
    BY DEF Watchdog!Never
  <2>2. 0 \in 0..CheckPeriod /\ -1 \in -1..(Timeout + CheckPeriod + 1)
    OBVIOUS
  <2> QED BY <2>1, <2>2 DEF LinkTypes, Watchdog!Never, Watchdog!LinkStates
<1>4. Serving
  BY DEF Serving, OnlyServesWhileActive, Disabling, Holding, Goals
<1>5. Telling
  BY DEF Telling, HistoryIsTruthful, TopicIsTruthful, InOrder, History!Finished, Received, Unknown,
         Goals
<1>6. Watching
  BY DEF Watching, LinkStateIsTrue
<1> QED BY <1>1, <1>2, <1>3, <1>4, <1>5, <1>6, TypesInParts DEF IInv

\* The inductive invariant of a capability.
THEOREM Invariance == Spec => []IInv
<1>1. IInv /\ [Next]_vars => IInv'
  <2> SUFFICES ASSUME IInv, [Next]_vars PROVE IInv'
    OBVIOUS
  <2>1. TypeOK'
    BY NodeTypesStay, GoalTypesStay, OrderTypesStay, LinkTypesStay, TypesInParts
  <2>2. Telling'
    BY HistoryStaysTruthful, TopicStaysTruthful, InOrderStays DEF Telling
  <2> QED BY <2>1, <2>2, ServingStays, WatchingStays DEF IInv
<1> QED BY <1>1, Initially, PTL DEF Spec

\* Every variable of a capability keeps its type.
THEOREM TypeCorrect == Spec => []TypeOK
<1>1. IInv => TypeOK
  BY DEF IInv
<1> QED BY <1>1, Invariance, PTL

\* However the node got where it is in its lifecycle, goals are accepted, queued
\* or run only while it is active, and no timer runs without its publishers.
THEOREM ServesOnlyWhileActive == Spec => []OnlyServesWhileActive
<1>1. IInv => OnlyServesWhileActive
  BY DEF IInv, Serving
<1> QED BY <1>1, Invariance, PTL

\* Whatever messages are lost or late, the history calls no order finished or
\* canceling that is not.
THEOREM HistoryNeverLies == Spec => []HistoryIsTruthful
<1>1. IInv => HistoryIsTruthful
  BY DEF IInv, Telling
<1> QED BY <1>1, Invariance, PTL

\* In any activation, with any timeout and period, link_state is true.
THEOREM LinkStateIsAlwaysTrue == Spec => []LinkStateIsTrue
<1>1. IInv => LinkStateIsTrue
  BY DEF IInv, Watching
<1> QED BY <1>1, Invariance, PTL

-------------------------------------------------------------------------------
(* What the history drops.                                                 *)

\* Accepting an order drops one that has not finished only if none has.
THEOREM UnfinishedOrdersStay ==
  ASSUME NEW history, NEW goal,
         NEW g \in DOMAIN history, history[g] \notin History!Finished,
         g \notin DOMAIN History!Accepted(history, goal)
  PROVE  \A h \in DOMAIN history \ {goal} : history[h] \notin History!Finished
<1> DEFINE entered == [h \in DOMAIN history \cup {goal} |->
                         IF h = goal THEN "accepted" ELSE history[h]]
<1>1. g \in History!Surplus(entered)
  BY DEF History!Accepted, History!Trim
<1>2. entered[g] \notin History!Finished
  BY DEF History!Finished
<1>3. History!FinishedOrders(entered) = {}
  <2> HIDE DEF entered
  <2> QED BY <1>1, <1>2 DEF History!Surplus, History!Oldest, History!FinishedOrders
<1> QED BY <1>3 DEF History!FinishedOrders

\* Every set of goals has an oldest one, if any.
LEMMA OldestIsOne ==
  ASSUME NEW T \in SUBSET Nat, T # {}
  PROVE  \E m \in T : History!Oldest(T) = {m}
<1> DEFINE R == {ss \in Nat \X Nat : ss[1] < ss[2]}
<1>1. IsWellFoundedOn(R, Nat)
  BY NatLessThanWellFounded DEF OpToRel
<1>2. \A m, k \in Nat : k < m => <<k, m>> \in R
  OBVIOUS
<1> HIDE DEF R
<1>3. PICK m \in T : \A k \in T : ~(<<k, m>> \in R)
  BY <1>1, WFMin
<1>4. ASSUME NEW k \in T PROVE m <= k
  <2>1. m \in Nat /\ k \in Nat
    OBVIOUS
  <2>2. ~(k < m)
    BY <2>1, <1>2, <1>3, Zenon
  <2> QED BY <2>1, <2>2
<1>5. \A k \in T : k <= m => k = m
  BY <1>4
<1> QED BY <1>4, <1>5 DEF History!Oldest

\* The history counts as everybody else does.
LEMMA SameCardinality == ASSUME NEW T PROVE History!Cardinality(T) = Cardinality(T)
BY DEF History!Cardinality, Cardinality

\* trim() brings a history that is one order too long back to its size.
LEMMA TrimBounds ==
  ASSUME NEW history, DOMAIN history \in SUBSET Nat, IsFiniteSet(DOMAIN history),
         Cardinality(DOMAIN history) <= Capacity + 1
  PROVE  Cardinality(DOMAIN History!Trim(history)) <= Capacity
<1> USE CapabilityAssumption
<1>0. Cardinality(DOMAIN history) \in Nat
  BY FS_CardinalityType
<1>1. CASE Cardinality(DOMAIN history) <= Capacity
  <2>1. History!Surplus(history) = {}
    BY <1>1, SameCardinality DEF History!Surplus
  <2>2. DOMAIN History!Trim(history) = DOMAIN history
    BY <2>1 DEF History!Trim
  <2> QED BY <1>1, <2>2
<1>2. CASE ~(Cardinality(DOMAIN history) <= Capacity)
  <2>1. DOMAIN history # {}
    BY <1>0, <1>2, FS_EmptySet
  <2>2. History!FinishedOrders(history) \in SUBSET Nat
    BY DEF History!FinishedOrders
  <2>3. PICK m \in DOMAIN history : History!Surplus(history) = {m}
    <3> DEFINE T == IF History!FinishedOrders(history) # {} THEN History!FinishedOrders(history)
                    ELSE DOMAIN history
    <3>1. History!Surplus(history) = History!Oldest(T)
      BY <1>2, SameCardinality DEF History!Surplus
    <3>2. T \in SUBSET Nat /\ T # {} /\ T \subseteq DOMAIN history
      BY <2>1, <2>2 DEF History!FinishedOrders
    <3> HIDE DEF T
    <3>3. PICK m \in T : History!Oldest(T) = {m}
      BY <3>2, OldestIsOne
    <3> QED BY <3>1, <3>2, <3>3
  <2>4. DOMAIN History!Trim(history) = DOMAIN history \ {m}
    BY <2>3 DEF History!Trim
  <2>5. Cardinality(DOMAIN history \ {m}) = Cardinality(DOMAIN history) - 1
    BY FS_RemoveElement
  <2> QED BY <1>0, <2>4, <2>5
<1> QED BY <1>1, <1>2

HistoryBound == Cardinality(DOMAIN orders) <= Capacity

\* However many orders come, no more than Capacity of them are kept.
THEOREM HistoryIsBounded == Spec => []HistoryBound
<1>1. Init => HistoryBound
  BY CapabilityAssumption, FS_EmptySet DEF Init, HistoryBound, History!Empty
<1>2. IInv /\ HistoryBound /\ [Next]_vars => HistoryBound'
  <2> SUFFICES ASSUME IInv, HistoryBound, [Next]_vars PROVE HistoryBound'
    OBVIOUS
  <2> USE CapabilityAssumption
  <2>1. Goals \in SUBSET Nat /\ IsFiniteSet(Goals)
    BY FS_Interval DEF Goals, Server!Goals
  <2>2. DOMAIN orders \in SUBSET Goals
    BY TypesInParts DEF IInv, OrderTypes
  <2>3. IsFiniteSet(DOMAIN orders) /\ Cardinality(DOMAIN orders) \in Nat
    BY <2>1, <2>2, FS_Subset, FS_CardinalityType
  <2>4. CASE orders' = orders
    BY <2>4 DEF HistoryBound
  <2>5. CASE RecordNewest
    <3>1. PICK g \in Goals : orders' = History!Accepted(orders, g)
      BY <2>5 DEF RecordNewest, RecordOrder, Received
    <3> DEFINE entered == [h \in DOMAIN orders \cup {g} |->
                             IF h = g THEN "accepted" ELSE orders[h]]
    <3>2. /\ IsFiniteSet(DOMAIN entered) /\ DOMAIN entered \in SUBSET Nat
          /\ Cardinality(DOMAIN entered) <= Capacity + 1
      <4>1. DOMAIN entered = DOMAIN orders \cup {g}
        OBVIOUS
      <4>2. /\ IsFiniteSet(DOMAIN orders \cup {g})
            /\ Cardinality(DOMAIN orders \cup {g}) <= Cardinality(DOMAIN orders) + 1
        <5> DEFINE D == DOMAIN orders
        <5>1. IsFiniteSet(D) /\ Cardinality(D) \in Nat
          BY <2>3
        <5> HIDE DEF D
        <5>2. /\ IsFiniteSet(D \cup {g})
              /\ Cardinality(D \cup {g}) = IF g \in D THEN Cardinality(D) ELSE Cardinality(D) + 1
          BY <5>1, FS_AddElement, Zenon
        <5>3. IsFiniteSet(D \cup {g}) /\ Cardinality(D \cup {g}) <= Cardinality(D) + 1
          BY <5>1, <5>2
        <5> QED BY <5>3 DEF D
      <4>3. Cardinality(DOMAIN orders \cup {g}) \in Nat
        BY <4>2, FS_CardinalityType
      <4>4. DOMAIN orders \cup {g} \in SUBSET Nat
        BY <2>1, <2>2
      <4> HIDE DEF entered
      <4> QED BY <2>3, <4>1, <4>2, <4>3, <4>4 DEF HistoryBound
    <3>3. orders' = History!Trim(entered)
      BY <3>1 DEF History!Accepted
    <3> HIDE DEF entered
    <3> QED BY <3>2, <3>3, TrimBounds DEF HistoryBound
  <2>6. CASE TakeStates
    <3>1. orders' = History!Update(orders, topic)
      BY <2>6 DEF TakeStates
    <3>2. DOMAIN orders' \in SUBSET DOMAIN orders
      BY <3>1, UpdateKeeps
    <3>3. Cardinality(DOMAIN orders') <= Cardinality(DOMAIN orders)
      BY <2>3, <3>2, FS_Subset
    <3>4. IsFiniteSet(DOMAIN orders') /\ Cardinality(DOMAIN orders') \in Nat
      BY <2>3, <3>2, FS_Subset, FS_CardinalityType
    <3> QED BY <2>3, <3>3, <3>4 DEF HistoryBound
  <2> QED BY <2>4, <2>5, <2>6, HistoryChanges
<1> QED BY <1>1, <1>2, Invariance, PTL DEF Spec
===============================================================================
