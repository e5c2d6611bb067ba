---------------------------- MODULE MissionProofs ----------------------------
(***************************************************************************)
(* Proofs about the two models of what a mission has in its hands: the     *)
(* session with its registry (FleetSession) and one capability it runs     *)
(* (RunningCapability), for any number of robots, capabilities and goals.  *)
(***************************************************************************)
EXTENDS RunningCapability, FleetSession, TLAPS, WellFoundedInduction

-------------------------------------------------------------------------------
(* The session and its registry.                                           *)

(***************************************************************************)
(* None of the three properties of the registry and of get_order() is      *)
(* inductive. A capability's age must be bounded all the time, by the      *)
(* heartbeats of it that were lost and by the time it has been dead; and   *)
(* what it has not answered yet must not be less than when it was asked.   *)
(***************************************************************************)

\* What c has yet to send in this period.
Pending(c) == IF c \in due THEN 1 ELSE 0

\* As soon as a heartbeat of c got through, the session has not waited for a
\* newer one for longer than what was lost, and what is on its way, account for.
LossesExplainSilence ==
  \A c \in Capabilities :
    session = "up" /\ c \in up /\ lost[c] < since[c] - Pending(c)
      => age[c] <= lost[c] + Pending(c)

\* Nothing is heard of a dead capability.
TheDeadAreSilent ==
  \A c \in Capabilities :
    c \notin up => age[c] >= since[c] - 1 /\ reported[c] >= since[c] - 1

\* While get_order() waits, an answer that came, and an order that is still to be
\* answered with, is no older than what its capability has had since it was asked.
AnswersAreFresh ==
  /\ asking = {} => \A c \in Capabilities : answers[c] = NotAsked
  /\ \A c \in Capabilities :
       /\ answers[c] = Unanswered => order[c] >= floor[c]
       /\ c \in Answered => answers[c] >= floor[c]
       /\ answers[c] <= stamp

SessionInv ==
  /\ SessionTypeOK /\ NobodyDangles
  /\ LossesExplainSilence /\ TheDeadAreSilent
  /\ AnswersAreFresh

USE FleetSessionAssumption
    DEF MaxSince, NotAsked, Unanswered, Nothing, Put, All, Later,
        process_vars, registry_vars, handle_vars, query_vars, session_vars

-------------------------------------------------------------------------------
(* Lemmas about the operators.                                             *)

\* A set of natural numbers has a least element, if any.
LEMMA LeastNatural ==
  ASSUME NEW T \in SUBSET Nat, T # {}
  PROVE  \E m \in T : \A k \in T : m <= k
<1> DEFINE Less == {ss \in Nat \X Nat : ss[1] < ss[2]}
<1>1. IsWellFoundedOn(Less, Nat)
  BY NatLessThanWellFounded DEF OpToRel
<1>2. \A m, k \in Nat : k < m => <<k, m>> \in Less
  OBVIOUS
<1> HIDE DEF Less
<1>3. PICK m \in T : \A k \in T : ~(<<k, m>> \in Less)
  BY <1>1, WFMin
<1>4. m \in Nat /\ \A k \in T : k \in Nat /\ ~(k < m)
  BY <1>2, <1>3, Zenon
<1>5. \A k \in Nat : ~(k < m) => m <= k
  BY <1>4
<1> QED BY <1>4, <1>5, Zenon

\* A set of numbers with an upper bound has a maximum.
LEMMA MaxOfBounded ==
  ASSUME NEW n \in Nat, NEW T \in SUBSET (0..n), T # {}
  PROVE  Max(T) \in T /\ \A x \in T : Max(T) >= x
<1> DEFINE Below == {n - x : x \in T}
<1>1. Below \in SUBSET Nat /\ Below # {}
  <2>1. \A x \in T : n - x \in Nat
    OBVIOUS
  <2> QED BY <2>1
<1>2. PICK m \in Below : \A k \in Below : m <= k
  <2> HIDE DEF Below
  <2> QED BY <1>1, LeastNatural
<1>3. PICK x \in T : m = n - x
  OBVIOUS
<1>4. \A y \in T : x >= y
  <2> SUFFICES ASSUME NEW y \in T PROVE x >= y
    OBVIOUS
  <2>1. n - y \in Below
    OBVIOUS
  <2>2. n - x <= n - y
    BY <2>1, <1>2, <1>3
  <2> QED BY <2>2
<1> QED BY <1>3, <1>4 DEF Max

\* What get_order() returns is one of the answers, and none of them is newer.
LEMMA NewestOfAnswers ==
  ASSUME NEW n \in Nat, NEW stamps \in SUBSET (0..n)
  PROVE  NewestOf(stamps) \in 0..n /\ \A x \in stamps : NewestOf(stamps) >= x
<1>1. stamps \cup {Nothing} \in SUBSET (0..n) /\ stamps \cup {Nothing} # {}
  OBVIOUS
<1> QED BY <1>1, MaxOfBounded DEF NewestOf

\* The steps, one name for each.
LEMMA NextSteps ==
  ASSUME [SessionNext]_session_vars
  PROVE  \/ \E c \in Capabilities :
              \/ StartProcess(c) \/ Crash(c) \/ AcceptOrder(c) \/ Evict(c)
              \/ HearDescription(c) \/ HearOutcome(c)
              \/ RunCapability(c) \/ SpinSome(c) \/ Answer(c)
              \/ \E heartbeat, report \in BOOLEAN : Send(c, heartbeat, report)
         \/ \E r \in Robots : AddRobot(r) \/ DestroyRobot(r) \/ AskOrder(r)
         \/ Tick \/ Shutdown \/ DestroySession \/ ReturnOrder \/ UNCHANGED session_vars
  BY Zenon DEF SessionNext, ProcessStep, SendStep, SessionStep, MissionThread

-------------------------------------------------------------------------------
(* The types, of one group of variables at a time.                         *)

ProcessTypes ==
  /\ up \subseteq Capabilities /\ due \subseteq up
  /\ since \in [Capabilities -> 0..MaxSince]
  /\ lost \in [Capabilities -> 0..AliveTimeout]
  /\ faults \in 0..MaxFaults

OrderTypes == order \in [Capabilities -> 0..stamp] /\ stamp \in 0..MaxOrders

RegistryTypes ==
  /\ known \subseteq Capabilities
  /\ age \in [Capabilities -> 0..AliveTimeout] /\ reported \in [Capabilities -> 0..AliveTimeout]

MissionTypes ==
  /\ session \in {"up", "stopped", "destroyed"}
  /\ handle \in [Robots -> {"alone", "attached", "destroyed"}] /\ listed \subseteq Robots
  /\ run \in [Capabilities -> {"idle", "running", "over"}]

QueryTypes ==
  /\ asking \subseteq Robots /\ answers \in [Capabilities -> NotAsked..MaxOrders]
  /\ floor \in [Capabilities -> 0..stamp] /\ found \in 0..stamp

LEMMA TypesInParts ==
  SessionTypeOK <=> ProcessTypes /\ OrderTypes /\ RegistryTypes /\ MissionTypes /\ QueryTypes
  BY DEF SessionTypeOK, ProcessTypes, OrderTypes, RegistryTypes, MissionTypes, QueryTypes

\* What starts, dies, ticks and sends.
LEMMA ProcessTypesStay == ProcessTypes /\ [SessionNext]_session_vars => ProcessTypes'
<1> SUFFICES ASSUME ProcessTypes, [SessionNext]_session_vars PROVE ProcessTypes'
  OBVIOUS
<1> USE DEF ProcessTypes, Fault
<1>1. ASSUME NEW c \in Capabilities, StartProcess(c) PROVE ProcessTypes'
  BY <1>1 DEF StartProcess
<1>2. ASSUME NEW c \in Capabilities, Crash(c) PROVE ProcessTypes'
  BY <1>2 DEF Crash
<1>3. ASSUME NEW c \in Capabilities, Evict(c) PROVE ProcessTypes'
  BY <1>3 DEF Evict
<1>4. ASSUME NEW c \in Capabilities, NEW heartbeat, NEW report, Send(c, heartbeat, report)
      PROVE  ProcessTypes'
  BY <1>4 DEF Send
<1>5. CASE Tick
  BY <1>5 DEF Tick
<1>6. CASE UNCHANGED <<up, since, due, lost, faults>>
  BY <1>6
<1> QED
  BY <1>1, <1>2, <1>3, <1>4, <1>5, <1>6, NextSteps
     DEF AcceptOrder, HearDescription, HearOutcome, RunCapability, SpinSome, Answer, AddRobot,
         DestroyRobot, AskOrder, Shutdown, DestroySession, ReturnOrder, ProcessOnly

LEMMA OrderTypesStay == OrderTypes /\ [SessionNext]_session_vars => OrderTypes' /\ stamp <= stamp'
<1> SUFFICES ASSUME OrderTypes, [SessionNext]_session_vars PROVE OrderTypes' /\ stamp <= stamp'
  OBVIOUS
<1> USE DEF OrderTypes
<1>1. ASSUME NEW c \in Capabilities, Crash(c) \/ Evict(c) PROVE OrderTypes' /\ stamp <= stamp'
  BY <1>1 DEF Crash, Evict
<1>2. ASSUME NEW c \in Capabilities, AcceptOrder(c) PROVE OrderTypes' /\ stamp <= stamp'
  BY <1>2 DEF AcceptOrder
<1>3. CASE UNCHANGED <<order, stamp>>
  BY <1>3
<1> QED
  BY <1>1, <1>2, <1>3, NextSteps
     DEF StartProcess, Send, Tick, HearDescription, HearOutcome, RunCapability, SpinSome, Answer,
         AddRobot, DestroyRobot, AskOrder, Shutdown, DestroySession, ReturnOrder

LEMMA RegistryTypesStay == RegistryTypes /\ [SessionNext]_session_vars => RegistryTypes'
<1> SUFFICES ASSUME RegistryTypes, [SessionNext]_session_vars PROVE RegistryTypes'
  OBVIOUS
<1> USE DEF RegistryTypes
<1>1. ASSUME NEW c \in Capabilities, HearDescription(c) PROVE RegistryTypes'
  BY <1>1 DEF HearDescription
<1>2. ASSUME NEW c \in Capabilities, NEW heartbeat, NEW report, Send(c, heartbeat, report)
      PROVE  RegistryTypes'
  BY <1>2 DEF Send, HearStatus, OnRobotStatus
<1>3. CASE Tick
  BY <1>3 DEF Tick
<1>4. CASE DestroySession
  BY <1>4 DEF DestroySession
<1>5. CASE UNCHANGED registry_vars
  BY <1>5
<1> QED
  BY <1>1, <1>2, <1>3, <1>4, <1>5, NextSteps
     DEF StartProcess, Crash, AcceptOrder, Evict, HearOutcome, RunCapability, SpinSome, Answer,
         AddRobot, DestroyRobot, AskOrder, Shutdown, ReturnOrder, ProcessOnly

-------------------------------------------------------------------------------
(* The mission's handles.                                                  *)

\* Robots and session know each other or not, whoever goes first.
LEMMA MissionStays ==
  MissionTypes /\ NobodyDangles /\ [SessionNext]_session_vars => MissionTypes' /\ NobodyDangles'
<1> SUFFICES ASSUME MissionTypes, NobodyDangles, [SessionNext]_session_vars
             PROVE  MissionTypes' /\ NobodyDangles'
  OBVIOUS
<1> USE DEF MissionTypes, NobodyDangles, Attached
<1>1. ASSUME NEW c \in Capabilities, HearOutcome(c) PROVE MissionTypes' /\ NobodyDangles'
  BY <1>1 DEF HearOutcome
<1>2. ASSUME NEW c \in Capabilities, RunCapability(c) PROVE MissionTypes' /\ NobodyDangles'
  BY <1>2 DEF RunCapability
<1>3. ASSUME NEW c \in Capabilities, SpinSome(c) PROVE MissionTypes' /\ NobodyDangles'
  BY <1>3 DEF SpinSome, CheckTimeouts
<1>4. ASSUME NEW r \in Robots, AddRobot(r) PROVE MissionTypes' /\ NobodyDangles'
  BY <1>4 DEF AddRobot
<1>5. ASSUME NEW r \in Robots, DestroyRobot(r) PROVE MissionTypes' /\ NobodyDangles'
  BY <1>5 DEF DestroyRobot, Without
<1>6. CASE Shutdown
  BY <1>6 DEF Shutdown
<1>7. CASE DestroySession
  BY <1>7 DEF DestroySession, Detach
<1>8. CASE UNCHANGED handle_vars
  BY <1>8
<1> QED
  BY <1>1, <1>2, <1>3, <1>4, <1>5, <1>6, <1>7, <1>8, NextSteps
     DEF StartProcess, Crash, AcceptOrder, Evict, Send, Tick, HearDescription, Answer, AskOrder,
         ReturnOrder, ProcessOnly

-------------------------------------------------------------------------------
(* The registry.                                                           *)

LEMMA SilenceStaysExplained ==
  ProcessTypes /\ RegistryTypes /\ LossesExplainSilence /\ [SessionNext]_session_vars => LossesExplainSilence'
<1> SUFFICES ASSUME ProcessTypes, RegistryTypes, LossesExplainSilence, [SessionNext]_session_vars,
                    NEW d \in Capabilities,
                    session' = "up", d \in up', lost'[d] < since'[d] - Pending(d)'
             PROVE  age'[d] <= lost'[d] + Pending(d)'
  BY DEF LossesExplainSilence
<1> USE DEF ProcessTypes, RegistryTypes, LossesExplainSilence, Pending
<1>1. ASSUME NEW c \in Capabilities, StartProcess(c) \/ Crash(c)
      PROVE  age'[d] <= lost'[d] + Pending(d)'
  BY <1>1 DEF StartProcess, Crash, ProcessOnly
<1>2. ASSUME NEW c \in Capabilities, NEW heartbeat \in BOOLEAN, NEW report \in BOOLEAN,
             Send(c, heartbeat, report)
      PROVE  age'[d] <= lost'[d] + Pending(d)'
  <2>1. session = "up" /\ c \in due /\ due' = due \ {c} /\ UNCHANGED <<up, since>>
    BY <1>2 DEF Send
  <2>2. CASE d # c
    BY <1>2, <2>1, <2>2 DEF Send, HearStatus
  <2>3. CASE d = c /\ heartbeat
    BY <1>2, <2>1, <2>3 DEF Send, HearStatus
  <2>4. CASE d = c /\ ~heartbeat
    BY <1>2, <2>1, <2>4 DEF Send, HearStatus
  <2> QED BY <2>2, <2>3, <2>4
<1>3. CASE Tick
  BY <1>3 DEF Tick
<1>4. CASE UNCHANGED <<up, since, due, lost, age, session>>
  BY <1>4
<1>5. CASE Shutdown \/ DestroySession
  BY <1>5 DEF Shutdown, DestroySession
<1> QED
  BY <1>1, <1>2, <1>3, <1>4, <1>5, NextSteps
     DEF AcceptOrder, Evict, HearDescription, HearOutcome, RunCapability, SpinSome, Answer,
         AddRobot, DestroyRobot, AskOrder, ReturnOrder, ProcessOnly

LEMMA TheDeadStaySilent ==
  ProcessTypes /\ RegistryTypes /\ TheDeadAreSilent /\ [SessionNext]_session_vars => TheDeadAreSilent'
<1> SUFFICES ASSUME ProcessTypes, RegistryTypes, TheDeadAreSilent, [SessionNext]_session_vars,
                    NEW d \in Capabilities, d \notin up'
             PROVE  age'[d] >= since'[d] - 1 /\ reported'[d] >= since'[d] - 1
  BY DEF TheDeadAreSilent
<1> DEFINE Silent == age'[d] >= since'[d] - 1 /\ reported'[d] >= since'[d] - 1
<1> USE DEF ProcessTypes, RegistryTypes, TheDeadAreSilent
<1>1. ASSUME NEW c \in Capabilities, StartProcess(c) \/ Crash(c) PROVE Silent
  BY <1>1 DEF StartProcess, Crash, ProcessOnly
<1>2. ASSUME NEW c \in Capabilities, NEW heartbeat, NEW report, Send(c, heartbeat, report)
      PROVE  Silent
  BY <1>2 DEF Send, HearStatus, OnRobotStatus
<1>3. CASE Tick
  BY <1>3 DEF Tick
<1>4. CASE DestroySession
  BY <1>4 DEF DestroySession
<1>5. CASE UNCHANGED <<up, since, age, reported>>
  BY <1>5
<1> QED
  BY <1>1, <1>2, <1>3, <1>4, <1>5, NextSteps
     DEF AcceptOrder, Evict, HearDescription, HearOutcome, RunCapability, SpinSome, Answer,
         AddRobot, DestroyRobot, Shutdown, AskOrder, ReturnOrder, ProcessOnly

-------------------------------------------------------------------------------
(* get_order().                                                            *)

\* What AnswersAreFresh says of one capability.
FreshOf(c) ==
  /\ asking = {} => answers[c] = NotAsked
  /\ answers[c] = Unanswered => order[c] >= floor[c]
  /\ c \in Answered => answers[c] >= floor[c]
  /\ answers[c] <= stamp

LEMMA FreshEach == AnswersAreFresh <=> \A c \in Capabilities : FreshOf(c)
  BY DEF AnswersAreFresh, FreshOf

\* It returns no order that is newer than all that were accepted, nor one that is
\* older than what a capability that answered has had all the time.
LEMMA ReturnedIsNewest ==
  ASSUME OrderTypes, QueryTypes, AnswersAreFresh, ReturnOrder
  PROVE  found' \in 0..stamp /\ \A c \in Answered : found' >= floor[c]
<1> DEFINE stamps == {answers[c] : c \in Answered}
<1>1. stamp \in Nat /\ stamps \in SUBSET (0..stamp)
  BY DEF OrderTypes, QueryTypes, AnswersAreFresh, Answered
<1>2. found' = NewestOf(stamps)
  BY DEF ReturnOrder
<1>3. found' \in 0..stamp /\ \A x \in stamps : found' >= x
  <2> HIDE DEF stamps
  <2> QED BY <1>1, <1>2, NewestOfAnswers
<1>4. ASSUME NEW c \in Answered PROVE found' >= floor[c]
  <2>1. found' >= answers[c] /\ answers[c] >= floor[c]
    BY <1>3 DEF AnswersAreFresh, Answered
  <2>2. found' \in Int /\ answers[c] \in Int /\ floor[c] \in Int
    BY <1>3 DEF OrderTypes, QueryTypes, Answered
  <2> QED BY <2>1, <2>2
<1> QED BY <1>3, <1>4

LEMMA QueryTypesStay ==
  OrderTypes /\ QueryTypes /\ AnswersAreFresh /\ [SessionNext]_session_vars => QueryTypes'
<1> SUFFICES ASSUME OrderTypes, QueryTypes, AnswersAreFresh, [SessionNext]_session_vars PROVE QueryTypes'
  OBVIOUS
<1>0. stamp \in Nat /\ stamp' \in Nat /\ stamp <= stamp'
  BY OrderTypesStay DEF OrderTypes
<1>1. ASSUME NEW c \in Capabilities, Crash(c) \/ Evict(c) PROVE QueryTypes'
  BY <1>1 DEF Crash, Evict, QueryTypes, OrderTypes
<1>2. ASSUME NEW c \in Capabilities, Answer(c) PROVE QueryTypes'
  BY <1>2 DEF Answer, Find, QueryTypes, OrderTypes
<1>3. ASSUME NEW r \in Robots, AskOrder(r) PROVE QueryTypes'
  <2>1. asking' = {r} /\ found' = 0 /\ stamp' = stamp
    BY <1>3 DEF AskOrder
  <2>2. answers' \in [Capabilities -> NotAsked..MaxOrders] /\ floor' \in [Capabilities -> 0..stamp]
    BY <1>3 DEF AskOrder, OrderTypes
  <2> QED BY <2>1, <2>2, <1>0 DEF QueryTypes
<1>4. CASE ReturnOrder
  <2>1. found' \in 0..stamp /\ stamp' = stamp
    BY <1>4, ReturnedIsNewest DEF ReturnOrder
  <2>2. /\ asking' = {} /\ answers' = [c \in Capabilities |-> NotAsked]
        /\ floor' = [c \in Capabilities |-> 0]
    BY <1>4 DEF ReturnOrder
  <2> QED BY <2>1, <2>2, <1>0 DEF QueryTypes
<1>5. CASE UNCHANGED query_vars
  BY <1>0, <1>5 DEF QueryTypes
<1> QED
  BY <1>1, <1>2, <1>3, <1>4, <1>5, NextSteps
     DEF StartProcess, AcceptOrder, Send, Tick, HearDescription, HearOutcome, RunCapability,
         SpinSome, AddRobot, DestroyRobot, Shutdown, DestroySession, ProcessOnly

\* A newer order is a better answer, and what is lost or evicted is no longer
\* asked for.
LEMMA AnswersStayFresh ==
  OrderTypes /\ QueryTypes /\ AnswersAreFresh /\ [SessionNext]_session_vars => AnswersAreFresh'
<1> SUFFICES ASSUME OrderTypes, QueryTypes, AnswersAreFresh, [SessionNext]_session_vars,
                    NEW d \in Capabilities
             PROVE  FreshOf(d)'
  BY DEF AnswersAreFresh, FreshOf
<1>0. FreshOf(d)
  BY FreshEach
<1> USE DEF FreshOf, Answered, OrderTypes, QueryTypes
<1>1. ASSUME NEW c \in Capabilities, Crash(c) \/ Evict(c) PROVE FreshOf(d)'
  BY <1>0, <1>1 DEF Crash, Evict
<1>2. ASSUME NEW c \in Capabilities, AcceptOrder(c) PROVE FreshOf(d)'
  BY <1>0, <1>2 DEF AcceptOrder, ProcessOnly
<1>3. ASSUME NEW c \in Capabilities, Answer(c) PROVE FreshOf(d)'
  BY <1>0, <1>3 DEF Answer, Find
<1>4. ASSUME NEW r \in Robots, AskOrder(r) PROVE FreshOf(d)'
  BY <1>0, <1>4 DEF AskOrder
<1>5. CASE ReturnOrder
  BY <1>0, <1>5 DEF ReturnOrder
<1>6. CASE UNCHANGED <<query_vars, order, stamp>>
  BY <1>0, <1>6
<1> QED
  BY <1>1, <1>2, <1>3, <1>4, <1>5, <1>6, NextSteps
     DEF StartProcess, Send, Tick, HearDescription, HearOutcome, RunCapability,
         SpinSome, AddRobot, DestroyRobot, Shutdown, DestroySession, ProcessOnly

-------------------------------------------------------------------------------
LEMMA Initially == SessionInit => SessionInv
<1> SUFFICES ASSUME SessionInit PROVE SessionInv
  OBVIOUS
<1> USE DEF SessionInit
<1>1. SessionTypeOK
  BY DEF SessionTypeOK
<1>2. NobodyDangles
  BY DEF NobodyDangles, Attached
<1>3. LossesExplainSilence /\ TheDeadAreSilent
  BY DEF LossesExplainSilence, TheDeadAreSilent
<1>4. AnswersAreFresh
  BY DEF AnswersAreFresh, Answered
<1> QED BY <1>1, <1>2, <1>3, <1>4 DEF SessionInv

LEMMA SessionInvariance == SessionSpec => []SessionInv
<1>1. SessionInv /\ [SessionNext]_session_vars => SessionInv'
  <2>1. (ProcessTypes /\ OrderTypes /\ RegistryTypes /\ MissionTypes /\ QueryTypes)' => SessionTypeOK'
    BY DEF SessionTypeOK, ProcessTypes, OrderTypes, RegistryTypes, MissionTypes, QueryTypes
  <2> QED
    BY <2>1, TypesInParts, ProcessTypesStay, OrderTypesStay, RegistryTypesStay, MissionStays,
       SilenceStaysExplained, TheDeadStaySilent, QueryTypesStay, AnswersStayFresh DEF SessionInv
<1> QED BY <1>1, Initially, PTL DEF SessionSpec

\* Every variable keeps its type, and only a process that runs has yet to send.
THEOREM SessionTypeCorrect == SessionSpec => []SessionTypeOK
<1> QED BY SessionInvariance, PTL DEF SessionInv

\* Whatever the order in which the mission destroys session and robots, neither
\* is left with a pointer to the other, nor a goal with a robot that is not attached.
THEOREM NobodyEverDangles == SessionSpec => []NobodyDangles
<1> QED BY SessionInvariance, PTL DEF SessionInv

\* With a kAliveTimeout of at least three periods, as it is in the code, a single
\* heartbeat that is lost never makes a running capability look dead.
THEOREM ALossIsTolerated ==
  ASSUME AliveTimeout >= 3
  PROVE  SessionSpec => []OneLossIsTolerated
<1>1. SessionInv => OneLossIsTolerated
  <2> SUFFICES ASSUME SessionInv, NEW c \in Capabilities,
                      session = "up", c \in up, since[c] > 2, lost[c] <= 1
               PROVE  age[c] < AliveTimeout
    BY DEF OneLossIsTolerated, Alive
  <2>1. age[c] <= lost[c] + Pending(c) /\ Pending(c) \in 0..1
    BY DEF SessionInv, SessionTypeOK, LossesExplainSilence, Pending
  <2> QED BY <2>1 DEF SessionInv, SessionTypeOK
<1> QED BY <1>1, SessionInvariance, PTL

\* A capability that has been dead for longer than kAliveTimeout is neither alive
\* nor reported, whatever was lost, and whoever has started or stopped meanwhile.
THEOREM TheDeadAreNoticed == SessionSpec => []DeadAreNoticed
<1>1. SessionInv => DeadAreNoticed
  BY DEF SessionInv, SessionTypeOK, TheDeadAreSilent, DeadAreNoticed, Alive, Reported
<1> QED BY <1>1, SessionInvariance, PTL

\* get_order() does not return less than what some capability that answered had
\* from the moment it was asked, wherever crashes and evictions fall.
THEOREM TheNewestIsReturned == SessionSpec => NewestIsReturned
<1>1. SessionInv /\ [SessionNext]_session_vars => [\A c \in Answered : asking' = {} => found' >= floor[c]]_session_vars
  <2> SUFFICES ASSUME SessionInv, [SessionNext]_session_vars, NEW c \in Answered, asking' = {}
               PROVE  found' >= floor[c]
    OBVIOUS
  <2>1. asking # {}
    BY DEF SessionInv, AnswersAreFresh, Answered
  <2>2. ReturnOrder
    BY <2>1, NextSteps
       DEF StartProcess, Crash, AcceptOrder, Evict, HearDescription, HearOutcome, RunCapability,
           SpinSome, Answer, Send, AddRobot, DestroyRobot, AskOrder, Tick, Shutdown,
           DestroySession, ProcessOnly
  <2> QED BY <2>2, ReturnedIsNewest, TypesInParts DEF SessionInv
<1> QED BY <1>1, SessionInvariance, PTL DEF SessionSpec, NewestIsReturned
HIDE FleetSessionAssumption
    DEF MaxSince, NotAsked, Unanswered, Nothing, Put, All, Later,
        process_vars, registry_vars, handle_vars, query_vars, session_vars

-------------------------------------------------------------------------------
(* A capability that runs.                                                 *)

\* What has been proved of the client holds of this mission's. (Those lemmas stand
\* beside the ones about a behaviour tree's node, and there is no such node here.)
ClientProofs == INSTANCE CallCapabilityProofs WITH
  Callers <- {mission}, Tree <- mission, node <- "IDLE", step <- "free", current <- NoGoal,
  result <- NoGoal, feedback <- NoGoal, deadline <- "unset", gone <- 0

(***************************************************************************)
(* The invariant ties three things to one another: the state, the goal     *)
(* whose callback still counts, and what the mission's thread is doing.    *)
(***************************************************************************)

\* What the client has heard of a goal's end is what the server decided.
HeardIsTrue ==
  \A g \in Goals :
    /\ heard[g] = "rejected" => status[g] = "rejected"
    /\ heard[g] \in {"taken", "done"} => status[g] \in Outcomes

\* Only the last goal counts, and only before the mission gives up on it.
CurrentIsLast ==
  /\ current \in {NoGoal, sent}
  /\ state \in {"idle", "timeout", "unreachable"} => current = NoGoal

\* While run() is under way nothing can settle the goal; while check_timeout()
\* decides, only an outcome can have.
ThreadInv ==
  /\ step = "sending" => state = "running" /\ current = NoGoal /\ cancel = "unset"
  /\ step = "checking" => state \in {"running"} \cup Outcomes

\* A cancel deadline means that all goals were canceled, a timeout that it passed.
CancelInv ==
  /\ cancel # "unset" => 1..sent \subseteq wanted
  /\ state = "timeout" => cancel # "unset"

StateInv == OutcomeIsTheLastGoals /\ RunningHasAnOutcomeToCome

IInv == TypeOK /\ HeardIsTrue /\ CurrentIsLast /\ ThreadInv /\ CancelInv /\ StateInv

-------------------------------------------------------------------------------
USE RunningCapabilityAssumption DEF Goals, Client!Goals, Client!Server!Goals, NoGoal, Client!NoGoal

LEMMA ClientTypeStep == Client!TypeOK /\ [Client!Next]_client_vars => Client!TypeOK'
  BY ClientProofs!TypeStep
     DEF client_vars, Client!TypeOK, Client!Goals, Client!NoGoal, Client!Heard,
         Client!Next, Client!vars, Client!server_vars, Client!client_vars,
         Client!caller_vars, Client!ServerStep, Client!ExecutorStep,
         Client!CancelStep, Client!CallerStep, Client!Respond, Client!TakeCancel,
         Client!Progress, Client!Settle, Client!TakeResponse, Client!Responded,
         Client!TakeResult, Client!EndResult, Client!Send, Client!SendNext,
         Client!SendAndWait, Client!Answered, Client!Unavailable, Client!StopWaiting,
         Client!TimesOut, Client!CancelGoal, Client!CancelAll, Client!RequestCancel,
         Client!Cancel, Client!Handles, Client!Known, Client!ExecutorIsFree,
         Client!Hear, Client!ServerOnly, Client!Server!Goals, Client!Server!Status,
         Client!Server!Answers, Client!Server!Respond, Client!Server!Drop,
         Client!Server!Start, Client!Server!Settle, Client!Server!Becomes,
         Client!Answers, ClientProofs!TypeOK, ClientProofs!Goals, ClientProofs!NoGoal,
         ClientProofs!Heard, ClientProofs!Next, ClientProofs!vars,
         ClientProofs!server_vars, ClientProofs!client_vars, ClientProofs!caller_vars,
         ClientProofs!ServerStep, ClientProofs!ExecutorStep, ClientProofs!CancelStep,
         ClientProofs!CallerStep, ClientProofs!Respond, ClientProofs!TakeCancel,
         ClientProofs!Progress, ClientProofs!Settle, ClientProofs!TakeResponse,
         ClientProofs!Responded, ClientProofs!TakeResult, ClientProofs!EndResult,
         ClientProofs!Send, ClientProofs!SendNext, ClientProofs!SendAndWait,
         ClientProofs!Answered, ClientProofs!Unavailable, ClientProofs!StopWaiting,
         ClientProofs!TimesOut, ClientProofs!CancelGoal, ClientProofs!CancelAll,
         ClientProofs!RequestCancel, ClientProofs!Cancel, ClientProofs!Handles,
         ClientProofs!Known, ClientProofs!ExecutorIsFree, ClientProofs!Hear,
         ClientProofs!ServerOnly, ClientProofs!Server!Goals,
         ClientProofs!Server!Status, ClientProofs!Server!Answers,
         ClientProofs!Server!Respond, ClientProofs!Server!Drop,
         ClientProofs!Server!Start, ClientProofs!Server!Settle,
         ClientProofs!Server!Becomes, ClientProofs!Answers

LEMMA InitInv == Init => IInv
<1> SUFFICES ASSUME Init PROVE IInv
  OBVIOUS
<1> USE DEF Init, Client!Init, Client!Server!Init
<1>1. Client!TypeOK
  BY DEF Client!TypeOK, Client!Heard, Client!Server!Status
<1>2. TypeOK
  <2>1. alive \in BOOLEAN /\ saw_alive \in BOOLEAN /\ overdue \in BOOLEAN
    BY Zenon
  <2> QED BY <1>1, <2>1 DEF TypeOK, States, Steps
<1>3. HeardIsTrue /\ CurrentIsLast /\ ThreadInv /\ CancelInv /\ StateInv
  BY DEF HeardIsTrue, CurrentIsLast, ThreadInv, CancelInv, StateInv,
         OutcomeIsTheLastGoals, RunningHasAnOutcomeToCome, Outcomes
<1> QED BY <1>2, <1>3 DEF IInv

\* The mission uses its client as any caller does.
LEMMA MissionUsesClient == [Next]_vars => [Client!Next]_client_vars
<1> SUFFICES ASSUME [Next]_vars PROVE Client!Next \/ UNCHANGED client_vars
  BY DEF client_vars
<1> USE DEF Client!Next
<1>1. CASE ServerStep BY <1>1 DEF ServerStep
<1>2. CASE ClientStep
  BY <1>2 DEF ClientStep, TakeAcceptance, Responded, TakeRejection, TakeResult, DeliverOutcome,
              Client!ExecutorStep
<1>3. CASE SendCancels BY <1>3 DEF SendCancels
<1>4. Client!Send(mission) \/ Client!CancelAll(mission) => Client!Next
  BY DEF Client!CallerStep
<1>5. CASE MissionStep /\ ~SendCancels
  BY <1>4, <1>5 DEF MissionStep, Run, SendGoal, SendFails, Stop, StopCancels, CheckTimeout,
                    Decide, AskCancel
<1>6. CASE Time BY <1>6 DEF Time, Overdue, GraceEnds, Heartbeat
<1>7. CASE UNCHANGED vars BY <1>7 DEF vars
<1> QED BY <1>1, <1>2, <1>3, <1>5, <1>6, <1>7 DEF Next

LEMMA ClientTypesKept == TypeOK /\ [Next]_vars => Client!TypeOK'
  BY MissionUsesClient, ClientTypeStep DEF TypeOK


-------------------------------------------------------------------------------
(* What each kind of step does to what the invariant speaks of.            *)

\* The server and the client's thread leave the mission alone, but for the
\* outcome of a goal.
LEMMA ServerKeeps ==
  ASSUME TypeOK, HeardIsTrue, ServerStep
  PROVE  /\ HeardIsTrue'
         /\ \A g \in Goals : status[g] \in Outcomes => status'[g] = status[g]
         /\ UNCHANGED <<sent, heard, wanted, pc, mission_vars, alive>>
<1>1. PICK g \in Goals :
        Client!Respond(g) \/ Client!TakeCancel(g) \/ Client!Progress(g) \/ Client!Settle(g)
  BY DEF ServerStep, Client!ServerStep
<1>2. /\ \A h \in Goals : status[h] \in Outcomes => status'[h] = status[h]
      /\ UNCHANGED <<sent, heard, wanted, pc>>
  BY <1>1 DEF Client!Respond, Client!TakeCancel, Client!Progress, Client!Settle, Client!ServerOnly,
     Client!client_vars, Client!caller_vars, Client!Server!Respond, Client!Server!Drop,
     Client!Server!Start, Client!Server!Settle, Client!Server!Becomes, TypeOK, Client!TypeOK,
     Outcomes
<1> QED BY <1>2 DEF ServerStep, HeardIsTrue, Outcomes, mission_vars

\* What the client has heard of goal g changes, and nothing else but requests.
HearOnly(g, from, to) ==
  /\ heard[g] = from
  /\ heard' = [heard EXCEPT ![g] = to]
  /\ UNCHANGED <<status, sent, wanted, pc>>

LEMMA ClientHears ==
  ASSUME TypeOK, NEW g \in Goals
  PROVE  /\ TakeAcceptance(g) => HearOnly(g, "sent", "answering")
         /\ Responded(g) => HearOnly(g, "answering", "accepted")
         /\ TakeRejection(g) => HearOnly(g, "sent", "rejected") /\ status[g] = "rejected"
         /\ TakeResult(g) => HearOnly(g, "accepted", "taken") /\ status[g] \in Outcomes
         /\ DeliverOutcome(g) => HearOnly(g, "taken", "done")
<1> USE DEF HearOnly, Client!Hear, Client!server_vars, Client!caller_vars
<1>1. TakeAcceptance(g) => HearOnly(g, "sent", "answering")
  BY DEF TakeAcceptance, Client!TakeResponse
<1>2. Responded(g) => HearOnly(g, "answering", "accepted")
  BY DEF Responded, Client!Responded
<1>3. TakeRejection(g) => HearOnly(g, "sent", "rejected") /\ status[g] = "rejected"
  BY DEF TakeRejection, Client!TakeResponse
<1>4. TakeResult(g) => HearOnly(g, "accepted", "taken") /\ status[g] \in Outcomes
  BY DEF TakeResult, Client!TakeResult, Client!Server!Answers, Client!Answers, Outcomes
<1>5. DeliverOutcome(g) => HearOnly(g, "taken", "done")
  BY DEF DeliverOutcome, Client!EndResult
<1> QED BY <1>1, <1>2, <1>3, <1>4, <1>5

\* A cancel adds to what is wanted.
LEMMA CancelsAdd ==
  ASSUME TypeOK, Client!CancelAll(mission)
  PROVE  /\ 1..sent \subseteq wanted'
         /\ UNCHANGED <<status, sent, heard>>
  BY DEF Client!CancelAll, Client!server_vars

LEMMA SendCancelsKeeps ==
  ASSUME TypeOK, SendCancels
  PROVE  /\ UNCHANGED <<status, sent, heard, wanted, mission_vars, alive>>
         /\ pc[mission] = "canceling"
  BY DEF SendCancels, Client!CancelStep, Client!RequestCancel, Client!server_vars

-------------------------------------------------------------------------------
\* A step keeps the invariant: the threads of the client first.
LEMMA ClientStepKeeps ==
  ASSUME IInv, NEW g \in Goals, Client!TypeOK',
         \/ TakeAcceptance(g) \/ Responded(g) \/ TakeRejection(g)
         \/ TakeResult(g) \/ DeliverOutcome(g)
  PROVE  IInv'
<1> USE DEF IInv, HeardIsTrue, CurrentIsLast, ThreadInv, CancelInv, StateInv,
            OutcomeIsTheLastGoals, RunningHasAnOutcomeToCome, HearOnly, Outcomes
<1>1. /\ heard \in [Goals -> Client!Heard] /\ sent \in 0..MaxGoals
      /\ state \in States /\ current \in 0..sent
  BY DEF TypeOK, Client!TypeOK
<1>2. CASE TakeAcceptance(g)
  BY <1>1, <1>2, ClientHears DEF TakeAcceptance, mission_vars, TypeOK
<1>3. CASE Responded(g)
  BY <1>1, <1>3, ClientHears DEF Responded, mission_vars, TypeOK
<1>4. CASE TakeResult(g)
  BY <1>1, <1>4, ClientHears DEF TakeResult, mission_vars, TypeOK
<1>5. CASE TakeRejection(g)
  BY <1>1, <1>5, ClientHears DEF TakeRejection, SettleGoal, TypeOK, States
<1>6. CASE DeliverOutcome(g)
  BY <1>1, <1>6, ClientHears DEF DeliverOutcome, SettleGoal, TypeOK, States
<1> QED BY <1>2, <1>3, <1>4, <1>5, <1>6

\* run() and what follows it.
LEMMA RunKeeps ==
  ASSUME IInv, Client!TypeOK', Run \/ SendGoal \/ SendFails \/ Stop \/ CheckTimeout
  PROVE  IInv'
<1> USE DEF IInv, HeardIsTrue, CurrentIsLast, ThreadInv, CancelInv, StateInv,
            OutcomeIsTheLastGoals, RunningHasAnOutcomeToCome, Outcomes, IsFree
<1>1. /\ heard \in [Goals -> Client!Heard] /\ sent \in 0..MaxGoals
      /\ state \in States /\ current \in 0..sent
  BY DEF TypeOK, Client!TypeOK
<1>2. CASE Run
  <2>1. /\ alive' \in BOOLEAN /\ saw_alive' \in BOOLEAN /\ overdue' \in BOOLEAN
    BY <1>2, Zenon DEF Run, TypeOK
  <2>2. /\ state' = "running" /\ current' = NoGoal /\ step' = "sending" /\ cancel' = "unset"
        /\ UNCHANGED <<status, sent, heard, wanted, pc>>
    BY <1>2 DEF Run, client_vars
  <2> QED BY <1>1, <2>1, <2>2 DEF TypeOK, States, Steps
<1>3. CASE SendGoal
  <2>1. /\ sent' = sent + 1 /\ sent + 1 \in Goals
        /\ heard' = [heard EXCEPT ![sent + 1] = "sent"]
        /\ UNCHANGED <<status, pc>>
    BY <1>1, <1>3 DEF SendGoal, Client!Send, Client!SendNext, Client!Hear, Client!server_vars,
                      Client!caller_vars
  <2> QED BY <1>1, <1>3, <2>1 DEF SendGoal, TypeOK, States, Steps
<1>4. CASE SendFails
  BY <1>1, <1>4 DEF SendFails, client_vars, TypeOK, States, Steps
<1>5. CASE Stop
  BY <1>1, <1>5 DEF Stop, client_vars, TypeOK, States, Steps
<1>6. CASE CheckTimeout
  BY <1>1, <1>6 DEF CheckTimeout, client_vars, TypeOK, States, Steps
<1> QED BY <1>2, <1>3, <1>4, <1>5, <1>6

\* The cancels, and the decision to give up.
LEMMA CancelKeeps ==
  ASSUME IInv, Client!TypeOK', StopCancels \/ SendCancels \/ Decide
  PROVE  IInv'
<1> USE DEF IInv, HeardIsTrue, CurrentIsLast, ThreadInv, CancelInv, StateInv,
            OutcomeIsTheLastGoals, RunningHasAnOutcomeToCome, Outcomes
<1>1. /\ sent \in 0..MaxGoals /\ state \in States /\ current \in 0..sent
      /\ cancel \in {"unset", "set", "passed"}
  BY DEF TypeOK, Client!TypeOK
<1>2. ASSUME AskCancel
      PROVE  /\ UNCHANGED <<status, sent, heard>>
             /\ cancel' \in {cancel, "set"} /\ cancel' # "unset"
             /\ 1..sent \subseteq wanted'
  BY <1>1, <1>2, CancelsAdd DEF AskCancel, client_vars
<1>3. CASE StopCancels
  BY <1>1, <1>2, <1>3 DEF StopCancels, TypeOK, Steps
<1>4. CASE SendCancels
  BY <1>1, <1>4, SendCancelsKeeps DEF mission_vars, TypeOK
<1>5. CASE Decide
  <2>1. /\ UNCHANGED <<status, sent, heard>>
        /\ cancel' \in {cancel, "set"}
        /\ cancel # "unset" => cancel' # "unset"
        /\ cancel' # "unset" => 1..sent \subseteq wanted'
    BY <1>1, <1>2, <1>5 DEF Decide, client_vars
  <2>2. \/ UNCHANGED <<state, current>>
        \/ current' = NoGoal /\ state' = "unreachable"
        \/ current' = NoGoal /\ state' = "timeout" /\ cancel = "passed"
    BY <1>5 DEF Decide, GiveUp
  <2> QED BY <1>1, <1>5, <2>1, <2>2 DEF Decide, TypeOK, States, Steps
<1> QED BY <1>3, <1>4, <1>5

LEMMA StepKeeps == IInv /\ [Next]_vars => IInv'
<1> SUFFICES ASSUME IInv, [Next]_vars PROVE IInv'
  OBVIOUS
<1>1. Client!TypeOK' BY ClientTypesKept DEF IInv
<1>2. CASE ServerStep
  <2>1. /\ HeardIsTrue'
        /\ \A g \in Goals : status[g] \in Outcomes => status'[g] = status[g]
        /\ UNCHANGED <<sent, heard, wanted, pc, mission_vars, alive>>
    BY <1>2, ServerKeeps DEF IInv
  <2>2. TypeOK' BY <1>1, <2>1 DEF IInv, TypeOK, mission_vars
  <2>3. state \in Outcomes => current \in Goals
    BY DEF IInv, TypeOK, Client!TypeOK, StateInv, OutcomeIsTheLastGoals
  <2>4. OutcomeIsTheLastGoals'
    BY <2>1, <2>3 DEF IInv, StateInv, OutcomeIsTheLastGoals, mission_vars
  <2>5. (CurrentIsLast /\ ThreadInv /\ CancelInv /\ RunningHasAnOutcomeToCome)'
    BY <2>1 DEF IInv, CurrentIsLast, ThreadInv, CancelInv, StateInv, RunningHasAnOutcomeToCome,
                mission_vars
  <2> QED BY <2>1, <2>2, <2>4, <2>5 DEF IInv, StateInv
<1>3. CASE ClientStep BY <1>1, <1>3, ClientStepKeeps DEF ClientStep
<1>4. CASE MissionStep BY <1>1, <1>4, RunKeeps, CancelKeeps DEF MissionStep
<1>5. CASE Time
  <2>1. /\ UNCHANGED <<client_vars, state, current, step, saw_alive>>
        /\ cancel' \in {cancel, "passed"} /\ (cancel = "unset" => cancel' = "unset")
    BY <1>5 DEF Time, Overdue, GraceEnds, Heartbeat, mission_vars
  <2>2. alive' \in BOOLEAN /\ overdue' \in BOOLEAN
    BY <1>5, Zenon DEF Time, Overdue, GraceEnds, Heartbeat, mission_vars, IInv, TypeOK
  <2>3. TypeOK' BY <1>1, <2>1, <2>2 DEF IInv, TypeOK, client_vars
  <2>4. (HeardIsTrue /\ CurrentIsLast /\ ThreadInv /\ CancelInv /\ StateInv)'
    BY <2>1 DEF IInv, HeardIsTrue, CurrentIsLast, ThreadInv, CancelInv, StateInv,
                OutcomeIsTheLastGoals, RunningHasAnOutcomeToCome, client_vars
  <2> QED BY <2>3, <2>4 DEF IInv
<1>6. CASE UNCHANGED vars
  BY <1>1, <1>6
     DEF vars, client_vars, mission_vars, IInv, TypeOK, HeardIsTrue, CurrentIsLast, ThreadInv,
         CancelInv, StateInv, OutcomeIsTheLastGoals, RunningHasAnOutcomeToCome
<1> QED BY <1>2, <1>3, <1>4, <1>5, <1>6 DEF Next

LEMMA Invariance == Spec => []IInv
  BY InitInv, StepKeeps, PTL DEF Spec


\* Every variable keeps its type, and a poll only runs between two calls.
THEOREM TypeCorrect == Spec => []TypeOK
<1> QED BY Invariance, PTL DEF IInv

\* settle(): an outcome a mission sees is that of the last goal it sent.
THEOREM OutcomesAreTheLastGoals == Spec => []OutcomeIsTheLastGoals
<1>1. IInv => OutcomeIsTheLastGoals BY DEF IInv, StateInv
<1> QED BY <1>1, Invariance, PTL

\* A goal that is reported as running has its callback still to come.
THEOREM RunningAlwaysHasAnOutcome == Spec => []RunningHasAnOutcomeToCome
<1>1. IInv => RunningHasAnOutcomeToCome BY DEF IInv, StateInv
<1> QED BY <1>1, Invariance, PTL

\* check_timeout() gives up with TIMEOUT only on goals it has asked to cancel.
THEOREM TimeoutsAreCanceled == Spec => []TimeoutMeansCanceled
<1>1. IInv => TimeoutMeansCanceled BY DEF IInv, CancelInv, TimeoutMeansCanceled
<1> QED BY <1>1, Invariance, PTL

\* After giving up, only run() changes the state.
THEOREM GivingUpIsForGood == Spec => GivingUpIsFinal
<1>1. IInv /\ [Next]_vars =>
        [(state \in {"timeout", "unreachable"} /\ state' # state) => (state' = "running")]_vars
  <2> SUFFICES ASSUME IInv, Next, state \in {"timeout", "unreachable"}, state' # state
               PROVE  state' = "running"
    BY DEF vars, mission_vars
  <2>1. CASE ServerStep BY <2>1 DEF ServerStep, mission_vars
  <2>2. CASE ClientStep
    BY <2>2 DEF ClientStep, TakeAcceptance, Responded, TakeRejection, TakeResult, DeliverOutcome,
       SettleGoal, mission_vars, IInv, CurrentIsLast
  <2>3. CASE MissionStep
    BY <2>3 DEF MissionStep, Run, SendGoal, SendFails, Stop, StopCancels, CheckTimeout, Decide,
       GiveUp, SendCancels, mission_vars, IInv, ThreadInv, Outcomes
  <2>4. CASE Time BY <2>4 DEF Time, Overdue, GraceEnds, Heartbeat, mission_vars
  <2> QED BY <2>1, <2>2, <2>3, <2>4 DEF Next
<1> QED BY <1>1, Invariance, PTL DEF Spec, GivingUpIsFinal

===============================================================================
