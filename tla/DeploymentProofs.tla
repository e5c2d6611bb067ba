--------------------------- MODULE DeploymentProofs ---------------------------
(***************************************************************************)
(* A robot of any size is brought up completely or not at all, and is      *)
(* taken down completely and in order. The loops of try_start(), of its    *)
(* roll_back and of run() are covered by what they have done so far        *)
(* (Progress); goals, services and signals leave that alone.               *)
(***************************************************************************)
EXTENDS Deployment, TLAPS

\* Where each loop is, and what it leaves behind it.
Progress ==
  /\ main = "configuring" =>
       /\ at > 0
       /\ \A c \in Added : lifecycle[c] = IF c < at THEN "inactive" ELSE "unconfigured"
  /\ main = "activating" =>
       /\ at > 0
       /\ \A c \in Added : lifecycle[c] = IF c < at THEN "active" ELSE "inactive"
  /\ main = "undoing" =>
       \A c \in Added :
         /\ lifecycle[c] # "finalized"
         /\ c > at => lifecycle[c] = "unconfigured"
  /\ main = "stopping" => \A c \in Added : c > at => lifecycle[c] \notin Up /\ goal[c] = "none"

\* Nothing happens to a capability before it is added.
Untouched ==
  /\ \A c \in Capabilities \ Added : lifecycle[c] = "unconfigured"
  /\ main = "adding" => \A c \in Added : lifecycle[c] = "unconfigured"

\* A service runs for one of the capabilities, and knows where it leads.
Serves == main = "serving" => at \in Added /\ target # "none"

\* The status of the robot is reported once it has started.
Silent ==
  main \in {"adding", "configuring", "activating", "undoing", "failed"} => ~reporting

\* Signals only reach the process's own handlers around the spin.
Hooked == handlers => main \in {"handled", "spinning", "serving", "unhooked"}

IInv ==
  /\ TypeOK /\ AllOrNothing /\ NothingLeftBehind
  /\ Progress /\ Untouched /\ Serves /\ Silent /\ Hooked

\* The types in two parts, of which the provers take one at a time.
Counts == added \in 0..Size /\ at \in 0..(Size + 1) /\ tries \in 0..Tries

States ==
  /\ lifecycle \in [Capabilities -> Up \cup {"unconfigured", "finalized"}]
  /\ goal \in [Capabilities -> {"none", "running", "asked"}]
  /\ main \in {"adding", "configuring", "activating", "undoing", "failed", "ready", "hooked",
               "handled", "spinning", "serving", "unhooked", "stopping", "stopped", "over"}
  /\ target \in {"none", "inactive", "finalized"}
  /\ reporting \in BOOLEAN
  /\ callback \in BOOLEAN /\ handlers \in BOOLEAN /\ spinning \in BOOLEAN
  /\ heard \in {"none", "handled", "spinning", "serving", "unhooked"}

LEMMA TypesInParts == (TypeOK <=> Counts /\ States) /\ (TypeOK' <=> Counts' /\ States')
  BY DEF TypeOK, Counts, States

LEMMA Initially == Init => IInv
<1>1. ASSUME Init PROVE Counts
  BY <1>1, DeploymentAssumption DEF Init, Counts
<1>2. ASSUME Init PROVE States
  BY <1>2 DEF Init, States
<1>3. ASSUME Init
      PROVE  AllOrNothing /\ NothingLeftBehind /\ Progress /\ Untouched /\ Serves /\ Silent /\ Hooked
  BY <1>3 DEF Init, AllOrNothing, NothingLeftBehind, Progress, Untouched, Serves, Silent, Hooked,
              Capabilities, Added
<1> QED BY <1>1, <1>2, <1>3, TypesInParts DEF IInv

LEMMA CountsStay == IInv /\ [Next]_vars => Counts'
<1> SUFFICES ASSUME IInv, [Next]_vars PROVE Counts'
  OBVIOUS
<1>0. Counts
  BY TypesInParts DEF IInv
<1> USE <1>0, DeploymentAssumption DEF Counts, GoTo, signals
<1>1. CASE MainStep
  <2>1. CASE ConfigureNext \/ ActivateNext
    BY <2>1 DEF ConfigureNext, ActivateNext, BringUp, BeginTakeDown
  <2>2. CASE AllConfigured \/ Started
    BY <2>2 DEF AllConfigured, Started
  <2>3. CASE AskNext \/ TakeDownNext \/ AllDown
    BY <2>3 DEF AskNext, TakeDownNext, AllDown
  <2>4. CASE SetCallback \/ InstallHandlers \/ BeginSpin \/ EndSpin
    BY <2>4 DEF SetCallback, InstallHandlers, BeginSpin, EndSpin
  <2>5. CASE RestoreHandlers
    BY <2>5 DEF RestoreHandlers, BeginTakeDown
  <2>6. CASE EndService
    BY <2>6 DEF EndService
  <2> QED BY <1>1, <2>1, <2>2, <2>3, <2>4, <2>5, <2>6 DEF MainStep
<1>2. CASE Caller
  BY <1>2 DEF Caller, AddCapability, Add, Start, Exit, Shutdown
<1>3. CASE Others
  <2>1. PICK c \in Added :
          \/ ReceiveGoal(c) \/ EndGoal(c) \/ ChangeState(c)
          \/ \E to \in {"inactive", "finalized"} : BeginService(c, to)
    BY <1>3 DEF Others
  <2>2. c \in 0..(Size + 1)
    BY DEF Added
  <2> QED BY <2>1, <2>2 DEF ReceiveGoal, EndGoal, ChangeState, BeginService
<1>4. CASE Signal
  BY <1>4 DEF Signal
<1>5. CASE UNCHANGED vars
  BY <1>5 DEF vars
<1> QED BY <1>1, <1>2, <1>3, <1>4, <1>5 DEF Next

LEMMA StatesStay == IInv /\ [Next]_vars => States'
<1> SUFFICES ASSUME IInv, [Next]_vars PROVE States'
  OBVIOUS
<1>0. States /\ Serves /\ Hooked
  BY TypesInParts DEF IInv
<1> USE <1>0 DEF States, GoTo, signals, Becomes, Up
<1>1. CASE MainStep
  <2>1. CASE ConfigureNext \/ ActivateNext
    BY <2>1 DEF ConfigureNext, ActivateNext, BringUp, BeginTakeDown
  <2>2. CASE AllConfigured \/ Started
    BY <2>2 DEF AllConfigured, Started
  <2>3. CASE AskNext \/ AllDown
    BY <2>3 DEF AskNext, AllDown, AskGoal
  <2>4. CASE TakeDownNext
    <3>1. lifecycle' \in [Capabilities -> Up \cup {"unconfigured", "finalized"}]
      BY <2>4 DEF TakeDownNext, TakenDown
    <3> QED BY <2>4, <3>1 DEF TakeDownNext
  <2>5. CASE SetCallback \/ InstallHandlers \/ BeginSpin
    BY <2>5 DEF SetCallback, InstallHandlers, BeginSpin
  <2>6. CASE EndSpin \/ RestoreHandlers
    BY <2>6 DEF EndSpin, RestoreHandlers, BeginTakeDown
  <2>7. CASE EndService
    BY <2>7 DEF EndService, Serves
  <2> QED BY <1>1, <2>1, <2>2, <2>3, <2>4, <2>5, <2>6, <2>7 DEF MainStep
<1>2. CASE Caller
  BY <1>2 DEF Caller, AddCapability, Start, Exit, Shutdown
<1>3. CASE Others
  <2>1. PICK c \in Added :
          \/ ReceiveGoal(c) \/ EndGoal(c) \/ ChangeState(c)
          \/ \E to \in {"inactive", "finalized"} : BeginService(c, to)
    BY <1>3 DEF Others
  <2>2. CASE ReceiveGoal(c) \/ EndGoal(c)
    BY <2>2 DEF ReceiveGoal, EndGoal
  <2>3. CASE ChangeState(c)
    BY <2>3 DEF ChangeState
  <2>4. ASSUME NEW to \in {"inactive", "finalized"}, BeginService(c, to) PROVE States'
    BY <2>4 DEF BeginService, AskGoal
  <2> QED BY <2>1, <2>2, <2>3, <2>4
<1>4. CASE Signal
  BY <1>4 DEF Signal, CancelSpin, Hooked
<1>5. CASE UNCHANGED vars
  BY <1>5 DEF vars
<1> QED BY <1>1, <1>2, <1>3, <1>4, <1>5 DEF Next

\* Each loop gets on, and ends with what the start or the stop is about.
LEMMA LoopsStay ==
  ASSUME IInv, [Next]_vars
  PROVE  AllOrNothing' /\ NothingLeftBehind' /\ Progress'
<1> DEFINE Goal == AllOrNothing' /\ NothingLeftBehind' /\ Progress'
<1> USE DEF IInv, AllOrNothing, NothingLeftBehind, Progress, signals, GoTo, Up, Added
<1>0. added \in Nat /\ at \in Nat /\ Size \in Nat /\ lifecycle \in [Capabilities -> Up \cup {"unconfigured", "finalized"}]
      /\ Added \subseteq Capabilities /\ goal \in [Capabilities -> {"none", "running", "asked"}]
  BY DeploymentAssumption DEF TypeOK, Capabilities
<1>1. CASE MainStep
  <2>1. CASE ConfigureNext
    BY <1>0, <2>1 DEF ConfigureNext, BringUp, BeginTakeDown, Becomes, Silent
  <2>2. CASE ActivateNext
    BY <1>0, <2>2 DEF ActivateNext, BringUp, BeginTakeDown, Becomes, Silent
  <2>3. CASE AllConfigured \/ Started
    BY <1>0, <2>3 DEF AllConfigured, Started
  <2>4. CASE AskNext
    BY <1>0, <2>4 DEF AskNext, AskGoal
  <2>5. CASE TakeDownNext
    BY <1>0, <2>5 DEF TakeDownNext, TakenDown, Becomes
  <2>6. CASE AllDown
    BY <1>0, <2>6 DEF AllDown, Silent
  <2>7. CASE SetCallback \/ InstallHandlers \/ BeginSpin \/ EndSpin \/ RestoreHandlers
    BY <1>0, <2>7 DEF SetCallback, InstallHandlers, BeginSpin, EndSpin, RestoreHandlers, BeginTakeDown
  <2>8. CASE EndService
    BY <1>0, <2>8 DEF EndService
  <2> QED BY <1>1, <2>1, <2>2, <2>3, <2>4, <2>5, <2>6, <2>7, <2>8 DEF MainStep
<1>2. CASE AddCapability
  BY <1>0, <1>2 DEF AddCapability
<1>3. CASE Start
  BY <1>0, <1>3 DEF Start, Untouched
<1>4. CASE Exit \/ Shutdown
  BY <1>0, <1>4 DEF Exit, Shutdown
<1>5. CASE Others
  <2>1. PICK c \in Added :
          \/ ReceiveGoal(c) \/ EndGoal(c) \/ ChangeState(c)
          \/ \E to \in {"inactive", "finalized"} : BeginService(c, to)
    BY <1>5 DEF Others
  <2>2. CASE ReceiveGoal(c)
    BY <1>0, <2>2 DEF ReceiveGoal
  <2>3. CASE EndGoal(c)
    BY <1>0, <2>3 DEF EndGoal
  <2>4. CASE ChangeState(c)
    BY <1>0, <2>4 DEF ChangeState
  <2>5. ASSUME NEW to \in {"inactive", "finalized"}, BeginService(c, to) PROVE Goal
    BY <1>0, <2>5 DEF BeginService
  <2> QED BY <2>1, <2>2, <2>3, <2>4, <2>5
<1>6. CASE Signal
  BY <1>0, <1>6 DEF Signal
<1>7. CASE UNCHANGED vars
  BY <1>7 DEF vars
<1> QED BY <1>1, <1>2, <1>3, <1>4, <1>5, <1>6, <1>7 DEF Next, Caller

\* A service for one of the capabilities, and the others as they were.
LEMMA RestStays ==
  ASSUME IInv, [Next]_vars
  PROVE  Untouched' /\ Serves' /\ Silent' /\ Hooked'
<1> DEFINE Goal == Untouched' /\ Serves' /\ Silent' /\ Hooked'
<1> USE DEF IInv, Untouched, Serves, Silent, Hooked, signals, GoTo
<1>0. /\ added \in Nat /\ at \in Nat /\ Size \in Nat /\ Added = 1..added /\ Added \subseteq Capabilities
      /\ lifecycle \in [Capabilities -> Up \cup {"unconfigured", "finalized"}]
  BY DeploymentAssumption DEF TypeOK, Capabilities, Added
<1>1. CASE MainStep
  <2>1. CASE ConfigureNext \/ ActivateNext
    <3>1. at \in Added
      BY <1>0, <2>1 DEF ConfigureNext, ActivateNext, BringUp, Progress
    <3> QED BY <1>0, <2>1, <3>1 DEF ConfigureNext, ActivateNext, BringUp, BeginTakeDown, Becomes, Added
  <2>2. CASE AllConfigured \/ Started
    BY <1>0, <2>2 DEF AllConfigured, Started, Added
  <2>3. CASE AskNext \/ AllDown
    BY <1>0, <2>3 DEF AskNext, AllDown, Added
  <2>4. CASE TakeDownNext
    <3>1. ASSUME NEW c \in Capabilities \ Added PROVE lifecycle'[c] = "unconfigured"
      BY <1>0, <2>4, <3>1 DEF TakeDownNext, TakenDown, Becomes
    <3> QED BY <1>0, <2>4, <3>1 DEF TakeDownNext, Added
  <2>5. CASE SetCallback \/ InstallHandlers \/ BeginSpin
    BY <1>0, <2>5 DEF SetCallback, InstallHandlers, BeginSpin, Added
  <2>6. CASE EndSpin \/ RestoreHandlers
    BY <1>0, <2>6 DEF EndSpin, RestoreHandlers, BeginTakeDown, Added
  <2>7. CASE EndService
    BY <1>0, <2>7 DEF EndService, Becomes, Added
  <2> QED BY <1>1, <2>1, <2>2, <2>3, <2>4, <2>5, <2>6, <2>7 DEF MainStep
<1>2. CASE AddCapability
  <2>1. \A c \in Capabilities : lifecycle'[c] = "unconfigured"
    BY <1>0, <1>2 DEF AddCapability
  <2>2. Added' \subseteq Capabilities
    BY <1>0, <1>2 DEF AddCapability, Add, Added, Capabilities
  <2> QED BY <1>2, <2>1, <2>2 DEF AddCapability
<1>3. CASE Start
  BY <1>0, <1>3 DEF Start, Added
<1>4. CASE Exit \/ Shutdown
  BY <1>0, <1>4 DEF Exit, Shutdown, Added
<1>5. CASE Others
  <2>1. PICK c \in Added :
          \/ ReceiveGoal(c) \/ EndGoal(c) \/ ChangeState(c)
          \/ \E to \in {"inactive", "finalized"} : BeginService(c, to)
    BY <1>5 DEF Others
  <2>2. CASE ReceiveGoal(c) \/ EndGoal(c)
    BY <1>0, <2>2 DEF ReceiveGoal, EndGoal, Added
  <2>3. CASE ChangeState(c)
    BY <1>0, <2>3 DEF ChangeState, Becomes, Added
  <2>4. ASSUME NEW to \in {"inactive", "finalized"}, BeginService(c, to) PROVE Goal
    BY <1>0, <2>1, <2>4 DEF BeginService, Added
  <2> QED BY <2>1, <2>2, <2>3, <2>4
<1>6. CASE Signal
  BY <1>0, <1>6 DEF Signal, Added
<1>7. CASE UNCHANGED vars
  BY <1>0, <1>7 DEF vars, Added
<1> QED BY <1>1, <1>2, <1>3, <1>4, <1>5, <1>6, <1>7 DEF Next, Caller

\* The inductive invariant, for any number of capabilities.
THEOREM Invariance == Spec => []IInv
<1>1. IInv /\ [Next]_vars => IInv'
  BY CountsStay, StatesStay, TypesInParts, LoopsStay, RestStays DEF IInv
<1> QED BY Initially, <1>1, PTL DEF Spec

\* The variables stay in their types, for a robot of any size.
THEOREM TypeCorrect == Spec => []TypeOK
<1>1. IInv => TypeOK BY DEF IInv
<1> QED BY <1>1, Invariance, PTL

\* No robot of any size is left half-started.
THEOREM StartsAreAllOrNothing == Spec => []AllOrNothing
<1>1. IInv => AllOrNothing BY DEF IInv
<1> QED BY <1>1, Invariance, PTL

\* run() leaves nothing configured, active or running behind.
THEOREM StopsAreComplete == Spec => []NothingLeftBehind
<1>1. IInv => NothingLeftBehind BY DEF IInv
<1> QED BY <1>1, Invariance, PTL

\* However many capabilities there are, and from whichever of them a start is
\* rolled back, the one that was added last goes first.
THEOREM TakesDownInReverse == Spec => LastAddedFirst
<1> DEFINE Order == \A c, d \in Added :
             /\ main \in {"undoing", "stopping"}
             /\ lifecycle[c] \in Up /\ lifecycle'[c] \notin Up
             /\ d > c
             => lifecycle[d] \notin Up
<1>1. ASSUME IInv, Next, NEW c \in Added, NEW d \in Added,
             main \in {"undoing", "stopping"},
             lifecycle[c] \in Up, lifecycle'[c] \notin Up, d > c
      PROVE  lifecycle[d] \notin Up
  <2>1. CASE TakeDownNext
    <3>1. c = at
      <4>1. c \in Capabilities /\ lifecycle \in [Capabilities -> Up \cup {"unconfigured", "finalized"}]
        BY <1>1, DeploymentAssumption DEF IInv, TypeOK, Added, Capabilities
      <4> QED BY <1>1, <2>1, <4>1 DEF TakeDownNext, Becomes
    <3> QED BY <1>1, <3>1 DEF IInv, Progress, Up
  <2>2. CASE ~TakeDownNext
    <3>1. UNCHANGED lifecycle
      BY <1>1, <2>2 DEF Next, MainStep, Caller, Others, ConfigureNext, ActivateNext, BringUp,
           AllConfigured, Started, AskNext, AllDown, SetCallback, InstallHandlers, BeginSpin,
           EndSpin, RestoreHandlers, EndService, AddCapability, Start, Exit, Shutdown,
           ReceiveGoal, EndGoal, ChangeState, BeginService, Signal
    <3> QED BY <1>1, <3>1
  <2> QED BY <2>1, <2>2
<1>2. IInv /\ [Next]_vars => [Order]_vars
  BY <1>1
<1> QED BY <1>2, Invariance, PTL DEF Spec, LastAddedFirst

===============================================================================
