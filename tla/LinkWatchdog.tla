----------------------------- MODULE LinkWatchdog -----------------------------
(***************************************************************************)
(* LinkWatchdog (easyfleet_core): whether a capability still hears the     *)
(* fleet's heartbeat. Its clock is the age of the last heartbeat, in ticks *)
(* of which Timeout make link_timeout; ages past MaxAge are all alike.     *)
(***************************************************************************)
EXTENDS Integers

CONSTANTS
  Timeout,    \* "<capability>.link_timeout", in ticks
  MaxAge      \* more than Timeout: the age from which heartbeats are all alike

VARIABLES
  monitored,  \* timeout_ is set
  age,        \* ticks since last_heard_, or Never
  link        \* state_

watchdog == <<monitored, age, link>>

Never == -1
LinkStates == {"not_monitored", "waiting", "ok", "lost"}

Init == monitored = FALSE /\ age = Never /\ link = "not_monitored"

\* A mistake, for reset(): the last heartbeat is forgotten, the state is kept.
Reset_StateKept(timeout_set) ==
  /\ monitored' = timeout_set
  /\ age' = Never
  /\ UNCHANGED link

\* reset(): with a timeout the link is waiting for its first heartbeat.
Reset(timeout_set) ==
  /\ monitored' = timeout_set
  /\ age' = Never
  /\ link' = IF timeout_set THEN "waiting" ELSE "not_monitored"

\* heard(): ignored without a timeout.
Heard ==
  /\ monitored' = monitored
  /\ IF monitored THEN age' = 0 /\ link' = "ok" ELSE UNCHANGED <<age, link>>

\* update(): only a link that was heard once can be lost.
Update ==
  /\ link' = IF ~monitored \/ age = Never THEN link
             ELSE IF age > Timeout THEN "lost" ELSE "ok"
  /\ UNCHANGED <<monitored, age>>

\* Time goes on.
Tick ==
  /\ age' = IF age \in {Never, MaxAge} THEN age ELSE age + 1
  /\ UNCHANGED <<monitored, link>>

===============================================================================
