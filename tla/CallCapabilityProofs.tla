------------------------- MODULE CallCapabilityProofs -------------------------
(***************************************************************************)
(* Proofs that ActionClient neither forgets a cancel nor cancels a goal    *)
(* nobody wanted canceled, for any number of goals and of callers; and     *)
(* that a behaviour tree's CallCapability, which EXTENDS it, only takes    *)
(* answers of the call it is in, and leaves no goal of an earlier one to   *)
(* run on.                                                                 *)
(***************************************************************************)
EXTENDS CallCapability, TLAPS

-------------------------------------------------------------------------------
(* The client.                                                             *)

(***************************************************************************)
(* NoStrayCancels is not inductive: a request is sent because of           *)
(* cancel_before_, of a timeout, or of a handle a caller has copied, and   *)
(* each of these must come from somebody's wish. CancelsAreKept rests on   *)
(* callers that start a call holding no handle, since it replaces those    *)
(* they hold.                                                              *)
(***************************************************************************)
CancelsHaveACause ==
  /\ 1..cancel_before \subseteq wanted
  /\ cancel_on_accept \subseteq wanted
  /\ \A c \in Callers : todo[c] \subseteq wanted

CallsStartEmptyHanded ==
  \A c \in Callers : pc[c] \in {"idle", "waiting"} => todo[c] = {}

CancelInv == NoStrayCancels /\ CancelsHaveACause

KeepInv == CallsStartEmptyHanded /\ CancelsAreKept

IInv == TypeOK /\ CancelInv /\ KeepInv

-------------------------------------------------------------------------------
USE ClientAssumption
    DEF Goals, NoGoal, Server!Goals, Heard, Hear, server_vars, client_vars, caller_vars, ServerOnly

\* The server's steps touch nothing of the client's but what it accepts to cancel.
LEMMA ServerStepTypes ==
  ASSUME TypeOK, ServerStep
  PROVE  /\ status' \in [Goals -> Server!Status]
         /\ canceling' \subseteq asked
         /\ UNCHANGED <<client_vars, caller_vars>>
<1>1. PICK g \in Goals : Respond(g) \/ TakeCancel(g) \/ Progress(g) \/ Settle(g)
      BY DEF ServerStep
<1>2. ASSUME NEW from, NEW to \in Server!Status, Server!Becomes(g, from, to)
      PROVE  status' \in [Goals -> Server!Status]
      BY <1>2 DEF Server!Becomes, TypeOK
<1> USE DEF Server!Status, Server!Answers
<1>3. CASE Respond(g) BY <1>2, <1>3 DEF Respond, Server!Respond, TypeOK
<1>4. CASE TakeCancel(g) BY <1>4 DEF TakeCancel, TypeOK
<1>5. CASE Progress(g) BY <1>2, <1>5 DEF Progress, Server!Drop, Server!Start, TypeOK
<1>6. CASE Settle(g) BY <1>2, <1>6 DEF Settle, Server!Settle, TypeOK
<1> QED BY <1>1, <1>3, <1>4, <1>5, <1>6

\* The steps of the client, one name for each.
LEMMA NextSteps ==
  ASSUME [Next]_vars
  PROVE  \/ ServerStep \/ UNCHANGED vars
         \/ \E g \in Goals : TakeResponse(g) \/ Responded(g) \/ TakeResult(g) \/ EndResult(g)
         \/ \E c \in Callers :
              \/ Send(c) \/ SendAndWait(c) \/ Answered(c) \/ Unavailable(c) \/ TimesOut(c)
              \/ CancelAll(c)
              \/ \E g \in Goals : CancelGoal(c, g) \/ RequestCancel(c, g)
BY DEF Next, ExecutorStep, CancelStep, CallerStep

LEMMA ExecutorStepTypes ==
  ASSUME TypeOK, NEW g \in Goals,
         TakeResponse(g) \/ Responded(g) \/ TakeResult(g) \/ EndResult(g)
  PROVE  TypeOK'
<1>1. CASE TakeResponse(g) BY <1>1 DEF TakeResponse, TypeOK
<1>2. CASE Responded(g) BY <1>2 DEF Responded, TypeOK
<1>3. CASE TakeResult(g) BY <1>3 DEF TakeResult, TypeOK
<1>4. CASE EndResult(g) BY <1>4 DEF EndResult, TypeOK
<1> QED BY <1>1, <1>2, <1>3, <1>4

LEMMA CallerStepTypes ==
  ASSUME TypeOK, NEW c \in Callers,
         \/ Send(c) \/ SendAndWait(c) \/ Answered(c) \/ Unavailable(c) \/ TimesOut(c)
         \/ CancelAll(c)
         \/ \E g \in Goals : CancelGoal(c, g) \/ RequestCancel(c, g)
  PROVE  TypeOK'
<1>1. CASE Send(c) BY <1>1 DEF Send, SendNext, TypeOK
<1>2. CASE SendAndWait(c) BY <1>2 DEF SendAndWait, SendNext, TypeOK
<1>3. ASSUME StopWaiting(c) PROVE TypeOK'
      BY <1>3 DEF StopWaiting, TypeOK
<1>4. CASE Answered(c) \/ Unavailable(c) BY <1>3, <1>4 DEF Answered, Unavailable
<1>5. CASE TimesOut(c)
  <2>1. own[c] \in 1..sent BY <1>5 DEF TimesOut, TypeOK
  <2>2. PICK handles \in SUBSET {own[c]} : Cancel(c, handles) BY <1>5 DEF TimesOut
  <2>3. /\ pc' \in [Callers -> {"idle", "waiting", "canceling", "thrown"}]
        /\ todo' \in [Callers -> SUBSET (1..sent)]
        BY <2>1, <2>2 DEF Cancel, TypeOK
  <2>4. /\ own' \in [Callers -> 0..sent]
        /\ \A d \in Callers : pc'[d] = "waiting" <=> own'[d] # NoGoal
        BY <1>5, <2>2 DEF TimesOut, Cancel, TypeOK
  <2> QED BY <1>5, <2>1, <2>3, <2>4 DEF TimesOut, TypeOK
<1>6. CASE CancelAll(c) BY <1>6 DEF CancelAll, Cancel, Handles, TypeOK
<1>7. ASSUME NEW g \in Goals, CancelGoal(c, g) PROVE TypeOK'
      BY <1>7 DEF CancelGoal, Cancel, Handles, TypeOK
<1>8. ASSUME NEW g \in Goals, RequestCancel(c, g) PROVE TypeOK'
  <2>1. g \in 1..sent /\ pc[c] = "canceling" BY <1>8 DEF RequestCancel, TypeOK
  <2>2. CASE pc' = [pc EXCEPT ![c] = "thrown"] /\ UNCHANGED <<todo, asked>>
        BY <1>8, <2>1, <2>2 DEF RequestCancel, TypeOK
  <2>3. CASE Cancel(c, todo[c] \ {g}) /\ asked' = asked \cup {g}
        BY <1>8, <2>1, <2>3 DEF RequestCancel, Cancel, TypeOK
  <2> QED BY <1>8, <2>2, <2>3 DEF RequestCancel
<1> QED BY <1>1, <1>2, <1>3, <1>4, <1>5, <1>6, <1>7, <1>8

LEMMA TypeStep == TypeOK /\ [Next]_vars => TypeOK'
<1> SUFFICES ASSUME TypeOK, [Next]_vars PROVE TypeOK'
    OBVIOUS
<1>1. CASE ServerStep BY <1>1, ServerStepTypes DEF TypeOK
<1>2. CASE UNCHANGED vars BY <1>2 DEF vars, TypeOK
<1> QED BY <1>1, <1>2, NextSteps, ExecutorStepTypes, CallerStepTypes

-------------------------------------------------------------------------------
LEMMA CancelStepKept == TypeOK /\ CancelInv /\ [Next]_vars => CancelInv'
<1> SUFFICES ASSUME TypeOK, CancelInv, [Next]_vars PROVE CancelInv'
    OBVIOUS
<1> USE DEF CancelInv, NoStrayCancels, CancelsHaveACause
<1>1. CASE ServerStep BY <1>1, ServerStepTypes
<1>2. CASE UNCHANGED vars BY <1>2 DEF vars
<1>3. ASSUME NEW g \in Goals,
             TakeResponse(g) \/ Responded(g) \/ TakeResult(g) \/ EndResult(g)
      PROVE  CancelInv'
  <2>1. CASE TakeResponse(g) BY <2>1 DEF TakeResponse, TypeOK
  <2>2. CASE Responded(g) BY <2>2 DEF Responded, TypeOK
  <2>3. CASE TakeResult(g) \/ EndResult(g) BY <2>3 DEF TakeResult, EndResult, TypeOK
  <2> QED BY <1>3, <2>1, <2>2, <2>3
<1>4. ASSUME NEW c \in Callers,
             Send(c) \/ SendAndWait(c) \/ Answered(c) \/ Unavailable(c)
      PROVE  CancelInv'
      BY <1>4 DEF Send, SendAndWait, SendNext, Answered, Unavailable, StopWaiting
<1>5. ASSUME NEW c \in Callers, TimesOut(c) PROVE CancelInv'
      BY <1>5 DEF TimesOut, Cancel, TypeOK
<1>6. ASSUME NEW c \in Callers, CancelAll(c) PROVE CancelInv'
      BY <1>6 DEF CancelAll, Cancel, Handles, TypeOK
<1>7. ASSUME NEW c \in Callers, NEW g \in Goals, CancelGoal(c, g) PROVE CancelInv'
      BY <1>7 DEF CancelGoal, Cancel, TypeOK
<1>8. ASSUME NEW c \in Callers, NEW g \in Goals, RequestCancel(c, g) PROVE CancelInv'
  <2>1. CASE pc' = [pc EXCEPT ![c] = "thrown"] /\ UNCHANGED <<todo, asked>>
        BY <1>8, <2>1 DEF RequestCancel, TypeOK
  <2>2. CASE Cancel(c, todo[c] \ {g}) /\ asked' = asked \cup {g}
        BY <1>8, <2>2 DEF RequestCancel, Cancel, TypeOK
  <2> QED BY <1>8, <2>1, <2>2 DEF RequestCancel
<1> QED BY <1>1, <1>2, <1>3, <1>4, <1>5, <1>6, <1>7, <1>8, NextSteps

LEMMA KeepStep == TypeOK /\ KeepInv /\ [Next]_vars => KeepInv'
<1> SUFFICES ASSUME TypeOK, KeepInv, [Next]_vars PROVE KeepInv'
    OBVIOUS
<1> USE DEF KeepInv, CallsStartEmptyHanded, CancelsAreKept, Over
<1>1. CASE ServerStep BY <1>1, ServerStepTypes
<1>2. CASE UNCHANGED vars BY <1>2 DEF vars
<1>3. ASSUME NEW g \in Goals,
             TakeResponse(g) \/ Responded(g) \/ TakeResult(g) \/ EndResult(g)
      PROVE  KeepInv'
  <2>1. CASE TakeResponse(g) BY <2>1 DEF TakeResponse, TypeOK
  <2>2. CASE Responded(g) BY <2>2 DEF Responded, TypeOK
  <2>3. CASE TakeResult(g) BY <2>3 DEF TakeResult, TypeOK
  <2>4. CASE EndResult(g) BY <2>4 DEF EndResult, TypeOK
  <2> QED BY <1>3, <2>1, <2>2, <2>3, <2>4
<1>4. ASSUME NEW c \in Callers,
             Send(c) \/ SendAndWait(c) \/ Answered(c) \/ Unavailable(c)
      PROVE  KeepInv'
  <2>1. CASE Send(c) BY <2>1 DEF Send, SendNext, TypeOK
  <2>2. CASE SendAndWait(c) BY <2>2 DEF SendAndWait, SendNext, TypeOK
  <2>3. CASE Answered(c) \/ Unavailable(c)
        BY <2>3 DEF Answered, Unavailable, StopWaiting, TypeOK
  <2> QED BY <1>4, <2>1, <2>2, <2>3
<1>5. ASSUME NEW c \in Callers, TimesOut(c) PROVE KeepInv'
      BY <1>5 DEF TimesOut, Cancel, Known, Handles, TypeOK
<1>6. ASSUME NEW c \in Callers, CancelAll(c) PROVE KeepInv'
      BY <1>6 DEF CancelAll, Cancel, Handles, TypeOK
<1>7. ASSUME NEW c \in Callers, NEW g \in Goals, CancelGoal(c, g) PROVE KeepInv'
      BY <1>7 DEF CancelGoal, Cancel, TypeOK
<1>8. ASSUME NEW c \in Callers, NEW g \in Goals, RequestCancel(c, g) PROVE KeepInv'
  <2>1. CASE pc' = [pc EXCEPT ![c] = "thrown"] /\ UNCHANGED <<todo, asked>>
        BY <1>8, <2>1 DEF RequestCancel, TypeOK
  <2>2. CASE Cancel(c, todo[c] \ {g}) /\ asked' = asked \cup {g}
        BY <1>8, <2>2 DEF RequestCancel, Cancel, TypeOK
  <2> QED BY <1>8, <2>1, <2>2 DEF RequestCancel
<1> QED BY <1>1, <1>2, <1>3, <1>4, <1>5, <1>6, <1>7, <1>8, NextSteps

-------------------------------------------------------------------------------
LEMMA Invariance == Spec => []IInv
<1>1. Init => IInv
      BY DEF Init, IInv, TypeOK, CancelInv, KeepInv, NoStrayCancels, CancelsHaveACause,
             CallsStartEmptyHanded, CancelsAreKept, Server!Init, Server!Status
<1>2. IInv /\ [Next]_vars => IInv'
      BY TypeStep, CancelStepKept, KeepStep DEF IInv
<1> QED BY <1>1, <1>2, PTL DEF Spec

\* Every variable keeps its type; only a waiting caller has a goal of its own.
THEOREM TypeCorrect == Spec => []TypeOK
<1> QED BY Invariance, PTL DEF IInv

\* No goal is canceled that nobody wanted canceled: a cancel_all_goals() never
\* reaches a goal sent after it.
THEOREM NobodyCancelsAnotherGoal == Spec => []NoStrayCancels
<1>1. IInv => NoStrayCancels BY DEF IInv, CancelInv
<1> QED BY <1>1, Invariance, PTL

\* A cancel is never forgotten, wherever it catches the goal.
THEOREM CancelsAreNeverForgotten == Spec => []CancelsAreKept
<1>1. IInv => CancelsAreKept BY DEF IInv, KeepInv
<1> QED BY <1>1, Invariance, PTL


-------------------------------------------------------------------------------
(***************************************************************************)
(* The node. That a running node hears of its own goal only is not         *)
(* inductive: onStart() forgets what the node has heard well before it     *)
(* takes a new number, and what arrives in between is still let in if it   *)
(* is about the last goal. So that goal must be over by then, or its       *)
(* number already given up.                                                *)
(***************************************************************************)

\* Only the last goal's number can be the current one.
LastIsCurrent == current \in {NoGoal, sent}

\* An outcome is that of a goal which is over.
ResultsAreFinal == result # NoGoal => heard[result] \in {"rejected", "done"}

\* A node that has stopped running, and whose number is still its last goal's,
\* has had that goal's outcome.
NothingMoreToHear ==
  /\ node # "RUNNING" /\ step \in {"free", "starting", "sending"} /\ current # NoGoal
  => heard[current] \in {"rejected", "done"}

RunsBetweenSteps == node = "RUNNING" => step = "free"

StartsAfresh == step = "sending" => result = NoGoal /\ feedback = NoGoal

\* The last goal is the only one that may be left to run, by a node that runs or
\* is about to cancel it.
OlderCallsEnded ==
  \A g \in 1..sent :
    \/ g \in wanted \/ Over(g)
    \/ g = sent /\ (node = "RUNNING" \/ step = "finishing")

CallInv ==
  /\ LastIsCurrent /\ ResultsAreFinal /\ NothingMoreToHear /\ RunsBetweenSteps /\ StartsAfresh
  /\ AnswersAreOwn

TreeInv == NodeTypeOK /\ CancelInv /\ KeepInv /\ CallInv /\ OlderCallsEnded

USE CallCapabilityAssumption DEF client_state, node_vars, tree_vars

\* The steps of the node and its client, one name for each.
LEMMA TreeSteps ==
  ASSUME [TreeNext]_tree_vars
  PROVE  \/ \E g \in Goals :
              ServerActs(g) \/ HearAcceptance(g) \/ HearOutcome(g) \/ HearFeedback(g)
         \/ SendCancels \/ Start \/ Refused \/ NoServer \/ ForgetAnswers \/ SendGoal \/ SendFails
         \/ TickResult \/ TickFeedback \/ FinishTick \/ Halt \/ DeadlinePasses
         \/ Destroy \/ Destroyed \/ UNCHANGED tree_vars
  BY Zenon DEF TreeNext, ClientActs, Tick, Invalid, NoAction, NoGoalMade, StartStep

\* The node's server touches nothing of the client or the node.
LEMMA ServerActsTypes ==
  ASSUME TypeOK, NEW g \in Goals, ServerActs(g)
  PROVE  /\ status' \in [Goals -> Server!Status]
         /\ canceling' \subseteq asked
         /\ UNCHANGED <<client_vars, caller_vars, node_vars>>
<1>1. ASSUME NEW from, NEW to \in Server!Status, Server!Becomes(g, from, to)
      PROVE  status' \in [Goals -> Server!Status]
  BY <1>1 DEF Server!Becomes, TypeOK
<1> USE DEF Server!Status, Server!Answers, ServerActs
<1>2. CASE RespondInTurn(g)
  BY <1>1, <1>2 DEF RespondInTurn, Server!Respond, TypeOK
<1>3. CASE TakeCancel(g)
  BY <1>3 DEF TakeCancel, TypeOK
<1>4. CASE ProgressInTurn(g)
  BY <1>1, <1>4 DEF ProgressInTurn, Server!Drop, TypeOK
<1>5. CASE Settle(g)
  BY <1>1, <1>5 DEF Settle, Server!Settle, TypeOK
<1> QED BY <1>2, <1>3, <1>4, <1>5

\* The node uses its client as ActionClient says, and only its tree does.
LEMMA NodeUsesClient ==
  ASSUME [TreeNext]_tree_vars
  PROVE  (\E g \in Goals : ServerActs(g)) \/ [Next]_vars
<1> USE DEF vars, Next
<1>1. ASSUME NEW g \in Goals, HearAcceptance(g) \/ HearOutcome(g) PROVE Next
  BY <1>1 DEF HearAcceptance, HearOutcome, ExecutorStep
<1>2. CASE SendCancels
  BY <1>2 DEF SendCancels
<1>3. CASE SendGoal \/ FinishTick \/ Halt \/ Destroy
  <2>1. Send(Tree) \/ CancelAll(Tree)
    BY <1>3 DEF SendGoal, FinishTick, Halt, Destroy, Finish
  <2> QED BY <2>1 DEF CallerStep
<1> QED
  BY <1>1, <1>2, <1>3, TreeSteps
     DEF HearFeedback, Start, Refused, NoServer, ForgetAnswers, SendFails, TickResult,
         TickFeedback, DeadlinePasses, Destroyed

\* So what holds of the client alone holds of the node's.
LEMMA ClientKept ==
  TypeOK /\ CancelInv /\ KeepInv /\ [TreeNext]_tree_vars => TypeOK' /\ CancelInv' /\ KeepInv'
<1> SUFFICES ASSUME TypeOK, CancelInv, KeepInv, [TreeNext]_tree_vars
             PROVE  TypeOK' /\ CancelInv' /\ KeepInv'
  OBVIOUS
<1>1. ASSUME NEW g \in Goals, ServerActs(g) PROVE TypeOK' /\ CancelInv' /\ KeepInv'
  <2>1. TypeOK'
    BY <1>1, ServerActsTypes DEF TypeOK
  <2>2. CancelInv'
    BY <1>1, ServerActsTypes DEF CancelInv, NoStrayCancels, CancelsHaveACause
  <2>3. KeepInv'
    BY <1>1, ServerActsTypes DEF KeepInv, CallsStartEmptyHanded, CancelsAreKept, Over
  <2> QED BY <2>1, <2>2, <2>3
<1>2. CASE [Next]_vars
  BY <1>2, TypeStep, CancelStepKept, KeepStep
<1> QED BY <1>1, <1>2, NodeUsesClient

-------------------------------------------------------------------------------
\* What the client's thread hears of a goal, and tells the node.
LEMMA Hears ==
  ASSUME TypeOK, NEW g \in Goals, HearAcceptance(g) \/ HearOutcome(g)
  PROVE  /\ g \in 1..sent /\ UNCHANGED <<sent, wanted, node, step, current, feedback, deadline, gone>>
         /\ heard[g] \notin {"rejected", "done"}
         /\ \E what \in Heard : heard' = [heard EXCEPT ![g] = what]
         /\ heard[g] = "taken" => heard'[g] = "done"
         /\ result' # result => g = current /\ result' = g /\ heard'[g] \in {"rejected", "done"}
<1>1. heard \in [Goals -> Heard] /\ (heard[g] # "unsent" => g \in 1..sent)
  BY DEF TypeOK
<1>2. PICK what \in Heard :
        /\ heard[g] \notin {"unsent", "rejected", "done"} /\ heard' = [heard EXCEPT ![g] = what]
        /\ heard[g] = "taken" => what = "done"
        /\ UNCHANGED <<sent, wanted>>
  <2>1. CASE TakeResponse(g)
    BY <1>1, <2>1 DEF TakeResponse
  <2>2. CASE Responded(g)
    BY <1>1, <2>2 DEF Responded
  <2>3. CASE TakeResult(g)
    BY <1>1, <2>3 DEF TakeResult
  <2>4. CASE EndResult(g)
    BY <1>1, <2>4 DEF EndResult
  <2> QED BY <2>1, <2>2, <2>3, <2>4 DEF HearAcceptance, HearOutcome
<1>3. UNCHANGED <<node, step, current, feedback, deadline, gone>>
  BY DEF HearAcceptance, HearOutcome, OnOutcome
<1>4. ASSUME result' # result
      PROVE  g = current /\ result' = g /\ heard'[g] \in {"rejected", "done"}
  <2>1. HearOutcome(g)
    BY <1>4 DEF HearAcceptance
  <2>2. heard'[g] = "rejected" \/ heard'[g] = "done"
    BY <1>1, <2>1 DEF HearOutcome, TakeResponse, EndResult
  <2> QED BY <1>4, <2>1, <2>2 DEF HearOutcome, OnOutcome, IsCurrent
<1> QED BY <1>1, <1>2, <1>3, <1>4

\* What cancel_all_goals() does: every goal so far is wanted canceled.
LEMMA CancelsAll ==
  ASSUME CancelAll(Tree)
  PROVE  UNCHANGED <<sent, heard>> /\ wanted' = wanted \cup 1..sent
  BY DEF CancelAll

\* A new goal is sent, and the older ones are left as they are.
LEMMA SendsOne ==
  ASSUME TypeOK, Send(Tree)
  PROVE  /\ sent' = sent + 1 /\ sent' \in Goals /\ wanted' = wanted
         /\ heard' = [heard EXCEPT ![sent + 1] = "sent"]
  BY DEF Send, SendNext, TypeOK

\* Requests to cancel are all SendCancels sends.
LEMMA CancelsOnly ==
  ASSUME SendCancels
  PROVE  UNCHANGED <<sent, heard, wanted, node_vars>>
  BY DEF SendCancels, CancelStep, RequestCancel

-------------------------------------------------------------------------------
LEMMA NodeTypesKept == NodeTypeOK /\ TypeOK' /\ [TreeNext]_tree_vars => NodeTypeOK'
<1> SUFFICES ASSUME NodeTypeOK, TypeOK', [TreeNext]_tree_vars PROVE NodeTypeOK'
  OBVIOUS
<1> USE DEF NodeTypeOK, Nodes, Steps
<1>0. TypeOK /\ sent \in 0..MaxGoals /\ sent' \in 0..MaxGoals
  BY DEF TypeOK
<1>1. ASSUME NEW g \in Goals, ServerActs(g) PROVE NodeTypeOK'
  BY <1>0, <1>1, ServerActsTypes
<1>2. ASSUME NEW g \in Goals, HearAcceptance(g) \/ HearOutcome(g) PROVE NodeTypeOK'
  BY <1>0, <1>2, Hears
<1>3. ASSUME NEW g \in Goals, HearFeedback(g) PROVE NodeTypeOK'
  <2>1. g \in 1..sent
    BY <1>0, <1>3 DEF HearFeedback, TypeOK
  <2> QED BY <1>0, <1>3, <2>1 DEF HearFeedback
<1>4. CASE SendCancels
  BY <1>0, <1>4, CancelsOnly
<1>5. CASE Start \/ Refused \/ NoServer \/ ForgetAnswers \/ SendFails
  BY <1>0, <1>5 DEF Start, DropClient, Refused, NoServer, ForgetAnswers, SendFails
<1>6. CASE SendGoal
  <2>1. Send(Tree) /\ current' = sent + 1
    BY <1>6 DEF SendGoal
  <2> QED BY <1>0, <1>6, <2>1, SendsOne DEF SendGoal
<1>7. CASE TickResult
  BY <1>0, <1>7 DEF TickResult, OnResult, ByOutcome
<1>8. CASE TickFeedback
  BY <1>0, <1>8 DEF TickFeedback, OnFeedback
<1>9. CASE FinishTick \/ Halt \/ Destroy
  <2>1. sent' = sent
    BY <1>9, CancelsAll DEF FinishTick, Halt, Destroy, Finish
  <2> QED BY <1>0, <1>9, <2>1 DEF FinishTick, Halt, Destroy, Finish
<1>10. CASE DeadlinePasses \/ Destroyed
  BY <1>0, <1>10 DEF DeadlinePasses, Destroyed, DropClient
<1>11. CASE UNCHANGED tree_vars
  BY <1>0, <1>11
<1> QED
  BY <1>1, <1>2, <1>3, <1>4, <1>5, <1>6, <1>7, <1>8, <1>9, <1>10, <1>11, TreeSteps

\* Whatever arrives is about the last goal, or nobody listens to it.
LEMMA CallKept == NodeTypeOK /\ CallInv /\ [TreeNext]_tree_vars => CallInv'
<1> SUFFICES ASSUME NodeTypeOK, CallInv, [TreeNext]_tree_vars PROVE CallInv'
  OBVIOUS
<1> USE DEF CallInv, LastIsCurrent, ResultsAreFinal, NothingMoreToHear, RunsBetweenSteps,
            StartsAfresh, AnswersAreOwn
<1>0. /\ TypeOK /\ sent \in 0..MaxGoals /\ heard \in [Goals -> Heard]
      /\ {current, result, feedback} \subseteq 0..sent
  BY DEF NodeTypeOK, TypeOK
<1>1. ASSUME NEW g \in Goals, ServerActs(g) PROVE CallInv'
  BY <1>0, <1>1, ServerActsTypes
<1>2. ASSUME NEW g \in Goals, HearAcceptance(g) \/ HearOutcome(g) PROVE CallInv'
  <2>1. PICK what \in Heard : heard' = [heard EXCEPT ![g] = what]
    BY <1>0, <1>2, Hears
  <2>2. /\ g \in 1..sent /\ heard[g] \notin {"rejected", "done"}
        /\ UNCHANGED <<sent, node, step, current, feedback>>
        /\ result' # result => g = current /\ result' = g /\ heard'[g] \in {"rejected", "done"}
    BY <1>0, <1>2, Hears
  <2>3. \A h \in Goals : heard[h] \in {"rejected", "done"} => heard'[h] = heard[h]
    BY <1>0, <2>1, <2>2
  <2> QED BY <1>0, <2>2, <2>3
<1>3. ASSUME NEW g \in Goals, HearFeedback(g) PROVE CallInv'
  BY <1>0, <1>3 DEF HearFeedback, IsCurrent
<1>4. CASE SendCancels
  BY <1>0, <1>4, CancelsOnly
<1>5. CASE Start \/ Refused \/ NoServer \/ ForgetAnswers \/ SendFails
  BY <1>0, <1>5 DEF Start, Refused, NoServer, ForgetAnswers, SendFails, IsFree
<1>6. CASE SendGoal
  <2>1. step = "sending" /\ Send(Tree) /\ current' = sent + 1 /\ node' = "RUNNING" /\ step' = "free"
        /\ UNCHANGED <<result, feedback>>
    BY <1>6 DEF SendGoal
  <2>2. sent' = sent + 1
    BY <1>0, <2>1, SendsOne
  <2> QED BY <1>0, <2>1, <2>2
<1>7. CASE TickResult
  BY <1>0, <1>7 DEF TickResult, OnResult, ByOutcome, IsFree
<1>8. CASE TickFeedback
  BY <1>0, <1>8 DEF TickFeedback, OnFeedback, IsFree
<1>9. CASE FinishTick \/ Halt \/ Destroy
  <2>1. UNCHANGED <<sent, heard>>
    BY <1>9, CancelsAll DEF FinishTick, Halt, Destroy, Finish
  <2> QED BY <1>0, <1>9, <2>1 DEF FinishTick, Halt, Destroy, Finish, IsFree
<1>10. CASE DeadlinePasses \/ Destroyed
  BY <1>0, <1>10 DEF DeadlinePasses, Destroyed
<1>11. CASE UNCHANGED tree_vars
  BY <1>0, <1>11
<1> QED
  BY <1>1, <1>2, <1>3, <1>4, <1>5, <1>6, <1>7, <1>8, <1>9, <1>10, <1>11, TreeSteps

\* A call that ends has heard its goal's outcome or cancels it.
LEMMA OlderStayEnded ==
  NodeTypeOK /\ CallInv /\ OlderCallsEnded /\ [TreeNext]_tree_vars => OlderCallsEnded'
<1> SUFFICES ASSUME NodeTypeOK, CallInv, OlderCallsEnded, [TreeNext]_tree_vars
             PROVE  OlderCallsEnded'
  OBVIOUS
<1> USE DEF OlderCallsEnded, Over
<1>0. /\ TypeOK /\ sent \in 0..MaxGoals /\ heard \in [Goals -> Heard]
      /\ {current, result, feedback} \subseteq 0..sent
  BY DEF NodeTypeOK, TypeOK
<1>1. ASSUME NEW g \in Goals, ServerActs(g) PROVE OlderCallsEnded'
  BY <1>0, <1>1, ServerActsTypes
<1>2. ASSUME NEW g \in Goals, HearAcceptance(g) \/ HearOutcome(g) PROVE OlderCallsEnded'
  <2>1. PICK what \in Heard : heard' = [heard EXCEPT ![g] = what]
    BY <1>0, <1>2, Hears
  <2>2. /\ heard[g] \notin {"rejected", "done"} /\ (heard[g] = "taken" => heard'[g] = "done")
        /\ UNCHANGED <<sent, wanted, node, step>>
    BY <1>0, <1>2, Hears
  <2>3. \A h \in Goals : Over(h) => Over(h)'
    BY <1>0, <2>1, <2>2
  <2> QED BY <1>0, <2>2, <2>3
<1>3. ASSUME NEW g \in Goals, HearFeedback(g) PROVE OlderCallsEnded'
  BY <1>0, <1>3 DEF HearFeedback
<1>4. CASE SendCancels
  BY <1>0, <1>4, CancelsOnly
<1>5. CASE Start \/ Refused \/ NoServer \/ ForgetAnswers \/ SendFails
  BY <1>0, <1>5 DEF Start, Refused, NoServer, ForgetAnswers, SendFails, IsFree, CallInv,
     RunsBetweenSteps
<1>6. CASE SendGoal
  <2>1. step = "sending" /\ Send(Tree) /\ node' = "RUNNING"
    BY <1>6 DEF SendGoal
  <2>2. /\ sent' = sent + 1 /\ sent' \in Goals /\ wanted' = wanted
        /\ heard' = [heard EXCEPT ![sent + 1] = "sent"]
    BY <1>0, <2>1, SendsOne
  <2>3. \A g \in 1..sent : g \in wanted \/ Over(g)
    BY <2>1 DEF CallInv, RunsBetweenSteps
  <2> QED BY <1>0, <2>1, <2>2, <2>3
<1>7. CASE TickResult
  <2>1. node = "RUNNING" /\ step = "free" /\ result # NoGoal /\ UNCHANGED <<sent, heard, wanted, step>>
    BY <1>7 DEF TickResult, IsFree
  <2>2. result = sent /\ heard[sent] \in {"rejected", "done"}
    BY <2>1 DEF CallInv, AnswersAreOwn, ResultsAreFinal
  <2> QED BY <2>1, <2>2
<1>8. CASE TickFeedback
  BY <1>0, <1>8 DEF TickFeedback, OnFeedback, IsFree
<1>9. CASE FinishTick \/ Halt \/ Destroy
  <2>1. UNCHANGED <<sent, heard>> /\ wanted' = wanted \cup 1..sent
    BY <1>9, CancelsAll DEF FinishTick, Halt, Destroy, Finish
  <2> QED BY <2>1
<1>10. CASE DeadlinePasses \/ Destroyed
  BY <1>0, <1>10 DEF DeadlinePasses, Destroyed
<1>11. CASE UNCHANGED tree_vars
  BY <1>0, <1>11
<1> QED
  BY <1>1, <1>2, <1>3, <1>4, <1>5, <1>6, <1>7, <1>8, <1>9, <1>10, <1>11, TreeSteps

-------------------------------------------------------------------------------
LEMMA TreeInvariance == TreeSpec => []TreeInv
<1>1. TreeInit => TreeInv
  <2> SUFFICES ASSUME TreeInit PROVE TreeInv
    OBVIOUS
  <2>1. TypeOK /\ CancelInv /\ KeepInv /\ sent = 0
    BY DEF TreeInit, Init, TypeOK, CancelInv, KeepInv, NoStrayCancels, CancelsHaveACause,
           CallsStartEmptyHanded, CancelsAreKept, Server!Init, Server!Status
  <2>2. NodeTypeOK
    BY <2>1 DEF TreeInit, NodeTypeOK, Nodes, Steps
  <2>3. CallInv /\ OlderCallsEnded
    BY <2>1 DEF TreeInit, CallInv, LastIsCurrent, ResultsAreFinal, NothingMoreToHear,
           RunsBetweenSteps, StartsAfresh, AnswersAreOwn, OlderCallsEnded
  <2> QED BY <2>1, <2>2, <2>3 DEF TreeInv
<1>2. TreeInv /\ [TreeNext]_tree_vars => TreeInv'
  BY ClientKept, NodeTypesKept, CallKept, OlderStayEnded DEF TreeInv, NodeTypeOK
<1> QED BY <1>1, <1>2, PTL DEF TreeSpec

\* The node's variables keep their types, and so do those of the client it uses.
THEOREM NodeTypeCorrect == TreeSpec => []NodeTypeOK
<1> QED BY TreeInvariance, PTL DEF TreeInv

\* A running node never acts on the outcome or the feedback of a goal that it, or
\* a call before it, gave up: callbacks may come at any time, also while the node
\* starts again.
THEOREM AnswersAreTheNodesOwn == TreeSpec => []AnswersAreOwn
<1>1. TreeInv => AnswersAreOwn
  BY DEF TreeInv, CallInv
<1> QED BY <1>1, TreeInvariance, PTL

\* When no call is under way, every goal the node ever sent is over or is wanted
\* canceled, by whichever way its call ended.
THEOREM NothingIsLeftRunning == TreeSpec => []NothingLeftRunning
<1>1. TreeInv => NothingLeftRunning
  BY DEF TreeInv, OlderCallsEnded, NothingLeftRunning
<1> QED BY <1>1, TreeInvariance, PTL

\* And no such cancel is forgotten, nor does it reach a goal sent later: the node
\* can rely on what its client promises.
THEOREM TheNodesCancelsAreKept == TreeSpec => [](CancelsAreKept /\ NoStrayCancels)
<1>1. TreeInv => CancelsAreKept /\ NoStrayCancels
  BY DEF TreeInv, KeepInv, CancelInv
<1> QED BY <1>1, TreeInvariance, PTL

===============================================================================
