----------------------------- MODULE ActionClient -----------------------------
(***************************************************************************)
(* ActionClient (easyfleet_core): sends goals to one action server, for    *)
(* any number of threads, and cancels them.                                *)
(*                                                                         *)
(* The client's own thread (the executor that spins internal_node_) runs   *)
(* the callbacks of answers and results, one at a time. The threads that   *)
(* call the client are the Callers. The server is a GoalServer; requests   *)
(* reach it in order, answers may take any time, and rclcpp_action asks    *)
(* for a goal's result only after the callback of its answer.              *)
(***************************************************************************)
EXTENDS Integers

CONSTANTS
  MaxGoals,   \* how many goals are sent (a bound for TLC)
  Callers     \* the threads that use the client

ASSUME ClientAssumption == MaxGoals \in Nat

VARIABLES
  status,           \* the server: what has become of each goal
  canceling,        \* the server: goals whose cancellation it accepted
  sent,             \* next_send_id_: goals are numbered as they are sent
  heard,            \* what the client has heard of each goal
  cancel_before,    \* cancel_before_
  cancel_on_accept, \* goals whose send_goal_and_wait() timed out
  asked,            \* goals for which a cancel request was sent
  pc,               \* what each caller is doing
  own,              \* the goal it waits for in send_goal_and_wait(), or NoGoal
  todo,             \* the goal handles it has copied to cancel
  wanted            \* the goals callers have asked the client to cancel

Server == INSTANCE GoalServer

Goals == Server!Goals
Answers == Server!Answers
NoGoal == 0

server_vars == <<status, canceling>>
client_vars == <<sent, heard, cancel_before, cancel_on_accept, asked>>
caller_vars == <<pc, own, todo, wanted>>
vars == <<server_vars, client_vars, caller_vars>>

\* "answering" and "taken": the callback of its answer or of its result runs.
Heard == {"unsent", "sent", "answering", "rejected", "accepted", "taken", "done"}

\* active_goals_
Handles == {g \in Goals : heard[g] \in {"answering", "accepted"}}

\* The goal ids send_goal_and_wait() has learnt of.
Known == {g \in Goals : heard[g] \in {"accepted", "taken", "done"}}

ExecutorIsFree == \A g \in Goals : heard[g] \notin {"answering", "taken"}

Init ==
  /\ Server!Init
  /\ canceling = {}
  /\ sent = 0
  /\ heard = [g \in Goals |-> "unsent"]
  /\ cancel_before = 0
  /\ cancel_on_accept = {} /\ asked = {} /\ wanted = {}
  /\ pc = [c \in Callers |-> "idle"]
  /\ own = [c \in Callers |-> NoGoal]
  /\ todo = [c \in Callers |-> {}]

Hear(g, what) == heard' = [heard EXCEPT ![g] = what]

-------------------------------------------------------------------------------
(* The server.                                                             *)

ServerOnly == UNCHANGED <<client_vars, caller_vars>>

\* Goal requests are answered in the order they were sent.
Respond(g) ==
  /\ heard[g] # "unsent"
  /\ \A h \in 1..(g - 1) : status[h] # "unknown"
  /\ Server!Respond(g)
  /\ UNCHANGED canceling /\ ServerOnly

TakeCancel(g) ==
  /\ g \in asked \ canceling
  /\ status[g] \in {"accepted", "dropped", "running"}
  /\ canceling' = canceling \cup {g}
  /\ UNCHANGED status /\ ServerOnly

Progress(g) ==
  /\ Server!Drop(g) \/ Server!Start(g)
  /\ UNCHANGED canceling /\ ServerOnly

\* A goal is only reported as canceled if it was.
Settle(g) ==
  /\ Server!Settle(g)
  /\ status'[g] = "canceled" => g \in canceling
  /\ UNCHANGED canceling /\ ServerOnly

-------------------------------------------------------------------------------
(* Plausible mistakes, each for the definition it is named after.          *)

\* The answer of a goal that cancel_all_goals() has not seen is not checked.
TakeResponse_CancelMissed(g) ==
  /\ ExecutorIsFree
  /\ heard[g] = "sent" /\ status[g] # "unknown"
  /\ Hear(g, IF status[g] = "rejected" THEN "rejected" ELSE "answering")
  /\ UNCHANGED <<sent, cancel_before, cancel_on_accept, asked, server_vars, caller_vars>>

\* A goal whose answer comes after the timeout is left to run.
Responded_TimeoutMissed(g) ==
  /\ heard[g] = "answering"
  /\ Hear(g, "accepted")
  /\ UNCHANGED <<sent, cancel_before, cancel_on_accept, asked, server_vars, caller_vars>>

-------------------------------------------------------------------------------
(* The client's thread.                                                    *)

\* The callback of the answer to a goal: an accepted one is entered in
\* active_goals_, and canceled if cancel_all_goals() came before.
TakeResponse(g) ==
  /\ ExecutorIsFree
  /\ heard[g] = "sent" /\ status[g] # "unknown"
  /\ Hear(g, IF status[g] = "rejected" THEN "rejected" ELSE "answering")
  /\ asked' = IF status[g] # "rejected" /\ g <= cancel_before THEN asked \cup {g} ELSE asked
  /\ UNCHANGED <<sent, cancel_before, cancel_on_accept, server_vars, caller_vars>>

\* Its end: send_goal_and_wait() learns the goal's id, and cancels it if it has
\* timed out. (It is still in active_goals_: no result is taken before.)
Responded(g) ==
  /\ heard[g] = "answering"
  /\ Hear(g, "accepted")
  /\ asked' = IF g \in cancel_on_accept THEN asked \cup {g} ELSE asked
  /\ UNCHANGED <<sent, cancel_before, cancel_on_accept, server_vars, caller_vars>>

\* The callback of a result: the handle leaves active_goals_ ...
TakeResult(g) ==
  /\ ExecutorIsFree
  /\ heard[g] = "accepted" /\ status[g] \in Answers
  /\ Hear(g, "taken")
  /\ UNCHANGED <<sent, cancel_before, cancel_on_accept, asked, server_vars, caller_vars>>

\* ... and after it rclcpp_action forgets the handle.
EndResult(g) ==
  /\ heard[g] = "taken"
  /\ Hear(g, "done")
  /\ UNCHANGED <<sent, cancel_before, cancel_on_accept, asked, server_vars, caller_vars>>

-------------------------------------------------------------------------------
(* The callers.                                                            *)

SendNext ==
  /\ sent < MaxGoals
  /\ sent' = sent + 1
  /\ Hear(sent + 1, "sent")
  /\ UNCHANGED <<cancel_before, cancel_on_accept, asked, server_vars>>

\* send_goal(), with the server ready.
Send(c) ==
  /\ pc[c] = "idle"
  /\ SendNext
  /\ UNCHANGED caller_vars

\* send_goal_and_wait()
SendAndWait(c) ==
  /\ pc[c] = "idle"
  /\ SendNext
  /\ pc' = [pc EXCEPT ![c] = "waiting"]
  /\ own' = [own EXCEPT ![c] = sent + 1]
  /\ UNCHANGED <<todo, wanted>>

StopWaiting(c) ==
  /\ pc' = [pc EXCEPT ![c] = "idle"]
  /\ own' = [own EXCEPT ![c] = NoGoal]
  /\ UNCHANGED <<todo, wanted, client_vars, server_vars>>

\* The promise is set by the goal's result callback.
Answered(c) ==
  /\ pc[c] = "waiting"
  /\ heard[own[c]] \in {"rejected", "taken", "done"}
  /\ StopWaiting(c)

\* The server has been out of reach for too long: SERVER_UNAVAILABLE.
Unavailable(c) ==
  /\ pc[c] = "waiting"
  /\ heard[own[c]] \notin {"rejected", "done"}
  /\ StopWaiting(c)

\* c has copied these handles and is going to cancel them.
Cancel(c, handles) ==
  /\ todo' = [todo EXCEPT ![c] = handles]
  /\ pc' = [pc EXCEPT ![c] = IF handles = {} THEN "idle" ELSE "canceling"]

\* The timeout: cancel_goal() if the goal is known, else on its acceptance.
TimesOut(c) ==
  /\ pc[c] = "waiting"
  /\ heard[own[c]] \notin {"rejected", "done"}
  /\ cancel_on_accept' = cancel_on_accept \cup {own[c]}
  /\ wanted' = wanted \cup {own[c]}
  /\ Cancel(c, {own[c]} \cap Known \cap Handles)
  /\ own' = [own EXCEPT ![c] = NoGoal]
  /\ UNCHANGED <<sent, heard, cancel_before, asked, server_vars>>

\* cancel_goal(): false for a goal that is not in active_goals_.
CancelGoal(c, g) ==
  /\ pc[c] = "idle"
  /\ g \in Handles
  /\ wanted' = wanted \cup {g}
  /\ Cancel(c, {g})
  /\ UNCHANGED <<own, client_vars, server_vars>>

\* cancel_all_goals(): the goals accepted so far now, the others on acceptance.
CancelAll(c) ==
  /\ pc[c] = "idle"
  /\ cancel_before' = sent
  /\ wanted' = wanted \cup 1..sent
  /\ Cancel(c, Handles)
  /\ UNCHANGED <<own, sent, heard, cancel_on_accept, asked, server_vars>>

\* request_cancel() for one of the copied handles. rclcpp_action throws for a
\* handle it has forgotten, and only RCLError is caught.
RequestCancel(c, g) ==
  /\ pc[c] = "canceling" /\ g \in todo[c]
  /\ IF heard[g] = "done"
     THEN /\ pc' = [pc EXCEPT ![c] = "thrown"]
          /\ UNCHANGED <<todo, asked>>
     ELSE /\ Cancel(c, todo[c] \ {g})
          /\ asked' = asked \cup {g}
  /\ UNCHANGED <<own, wanted, sent, heard, cancel_before, cancel_on_accept, server_vars>>

-------------------------------------------------------------------------------
ServerStep == \E g \in Goals : Respond(g) \/ TakeCancel(g) \/ Progress(g) \/ Settle(g)

ExecutorStep ==
  \E g \in Goals : TakeResponse(g) \/ Responded(g) \/ TakeResult(g) \/ EndResult(g)

CancelStep == \E c \in Callers, g \in Goals : RequestCancel(c, g)

CallerStep ==
  \E c \in Callers :
    \/ Send(c) \/ SendAndWait(c) \/ Answered(c) \/ Unavailable(c) \/ TimesOut(c)
    \/ CancelAll(c) \/ \E g \in Goals : CancelGoal(c, g)

Next == ServerStep \/ ExecutorStep \/ CancelStep \/ CallerStep

Spec == Init /\ [][Next]_vars

\* The client's thread runs, a call that copied handles goes on, and the server
\* answers requests, takes cancel requests and settles what is canceled. Nobody
\* has to send, wait or cancel, and no other goal has to end.
Fairness ==
  /\ WF_vars(ExecutorStep) /\ WF_vars(CancelStep)
  /\ \A g \in Goals :
       /\ WF_vars(Respond(g)) /\ WF_vars(TakeCancel(g))
       /\ WF_vars(g \in canceling /\ Settle(g))
       /\ WF_vars(g \in canceling /\ Progress(g))

FairSpec == Spec /\ Fairness

-------------------------------------------------------------------------------
TypeOK ==
  /\ status \in [Goals -> Server!Status]
  /\ sent \in 0..MaxGoals /\ cancel_before \in 0..sent
  /\ heard \in [Goals -> Heard]
  /\ \A g \in Goals : g > sent <=> heard[g] = "unsent"
  /\ canceling \subseteq asked /\ asked \subseteq 1..sent
  /\ cancel_on_accept \subseteq 1..sent /\ wanted \subseteq 1..sent
  /\ pc \in [Callers -> {"idle", "waiting", "canceling", "thrown"}]
  /\ own \in [Callers -> 0..sent]
  /\ todo \in [Callers -> SUBSET (1..sent)]
  /\ \A c \in Callers : pc[c] = "waiting" <=> own[c] # NoGoal

\* The client has heard the end of a goal, or of its rejection.
Over(g) == heard[g] \in {"rejected", "taken", "done"}

\* "The ones already accepted and the ones still waiting for the server's
\* response", and those whose send_goal_and_wait() timed out: at any moment,
\* every goal somebody wanted canceled is over, has its cancel request, is in
\* some caller's hands (of one that an exception ended, it stays there), or will
\* be canceled by the callback of its answer.
CancelsAreKept ==
  \A g \in wanted :
    \/ Over(g) \/ g \in asked
    \/ \E c \in Callers : g \in todo[c]
    \/ heard[g] = "sent" /\ g <= cancel_before
    \/ heard[g] \in {"sent", "answering"} /\ g \in cancel_on_accept

\* "Goals sent afterwards" are left alone: only wanted goals are canceled.
NoStrayCancels == asked \subseteq wanted

\* A cancel gets through, wherever the goal was: nobody waits for a goal that
\* was canceled, unless a call has ended by an exception.
CanceledGoalsEnd ==
  \A g \in Goals : g \in wanted ~> heard[g] \in {"rejected", "done"} \/ \E c \in Callers : pc[c] = "thrown"

===============================================================================
