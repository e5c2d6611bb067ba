----------------------- MODULE NavigationManagerProofs -----------------------
(***************************************************************************)
(* Proofs about the navigation manager, whose node keeps two things.       *)
(*                                                                         *)
(* The fleet's routes (RoutesPublisher): however edits, saves, failures    *)
(* and restarts interleave, no edit hits another segment, the robots get   *)
(* what is drawn, and what was saved survives.                             *)
(*                                                                         *)
(* Who of the robots in conflict makes way (NavigationManager and its      *)
(* ConflictDetector): for any number of robots, any scene and any          *)
(* max_pause_sec, robots never wait in a circle; and nobody is passed over *)
(* for ever, in a fleet of at most max_pause_sec / conflict period + 2.    *)
(***************************************************************************)
EXTENDS NavigationManager, RoutesPublisher,
        FiniteSetTheorems, SequenceTheorems, WellFoundedInduction, TLAPS

-------------------------------------------------------------------------------
(* The routes.                                                             *)

RouteSegments == [id : Nat, key : Keys, pose : Poses, edit : BOOLEAN]
PlainSegments == [id : Nat, key : Keys, pose : Poses]
Messages == [kind : {"toggle"} \cup EndpointControls, id : Nat, key : Keys]

\* An id is the id of one segment.
OneEach(segments) == \A s, t \in segments : s.id = t.id => s = t

\* What is named like this means the segment it was said of, if it is still there,
\* and no id that is yet to be given.
Addressed(name) ==
  /\ name.id < next_route_id
  /\ \A s \in routes : s.id = name.id => s.key = name.key

InboxInv ==
  /\ inbox \in Seq(Messages)
  /\ \A i \in DOMAIN inbox : Addressed(inbox[i])

DragInv ==
  \A e \in Editors :
    drag[e] # NoSegment => drag[e] \in [id : Nat, key : Keys] /\ Addressed(drag[e])

\* The ids in use are below the next one; those in the file are bounded, since
\* they once were below it.
IdsInv ==
  /\ OneEach(routes) /\ \A s \in routes : s.id < next_route_id
  /\ OneEach(file) /\ \E n \in Nat : \A s \in file : s.id < n

RoutesInv ==
  RoutesTypeOK /\ InboxInv /\ DragInv /\ IdsInv /\ RobotsFollowTheEdits /\ EditsSurvive

USE RoutesAssumption DEF NoKey

\* A set of natural numbers has a least element, if any.
LEMMA LeastNatural ==
  ASSUME NEW T \in SUBSET Nat, T # {}
  PROVE  \E m \in T : \A k \in T : m <= k
<1> DEFINE R == {ss \in Nat \X Nat : ss[1] < ss[2]}
<1>1. IsWellFoundedOn(R, Nat)
  BY NatLessThanWellFounded DEF OpToRel
<1>2. ASSUME NEW m \in Nat, NEW k \in Nat, k < m PROVE <<k, m>> \in R
  BY <1>2
<1> HIDE DEF R
<1>3. PICK m \in T : \A k \in T : ~(<<k, m>> \in R)
  BY <1>1, WFMin
<1>4. ASSUME NEW k \in T PROVE m <= k
  <2>1. m \in Nat /\ k \in Nat
    OBVIOUS
  <2>2. ~(k < m)
    BY <2>1, <1>2, <1>3, Zenon
  <2> QED BY <2>1, <2>2
<1> QED BY <1>4

\* Some list of m naturals has no bound. (None has.)
Unbounded(m) == \E f \in [1..m -> Nat] : \A n \in Nat : \E i \in 1..m : ~(f[i] < n)

LEMMA UnboundedIsShorter ==
  ASSUME NEW m \in Nat, Unbounded(m)
  PROVE  m - 1 \in Nat /\ Unbounded(m - 1)
<1>1. PICK f \in [1..m -> Nat] : \A n \in Nat : \E i \in 1..m : ~(f[i] < n)
  BY DEF Unbounded
<1>2. m # 0
  BY <1>1
<1>3. m - 1 \in Nat /\ f[m] \in Nat
  BY <1>2
<1> DEFINE g == [i \in 1..(m - 1) |-> f[i]]
<1>4. g \in [1..(m - 1) -> Nat]
  OBVIOUS
<1>5. ASSUME NEW n \in Nat PROVE \E i \in 1..(m - 1) : ~(g[i] < n)
  <2> DEFINE b == IF f[m] < n THEN n ELSE f[m] + 1
  <2>1. b \in Nat /\ f[m] < b /\ n <= b
    BY <1>3
  <2>2. PICK i \in 1..m : ~(f[i] < b)
    <3> HIDE DEF b
    <3> QED BY <1>1, <2>1
  <2>3. i # m /\ f[i] \in Nat
    BY <2>1, <2>2
  <2>4. i \in 1..(m - 1) /\ g[i] = f[i]
    BY <2>3
  <2> QED BY <2>1, <2>2, <2>3, <2>4
<1> HIDE DEF g
<1> QED BY <1>3, <1>4, <1>5 DEF Unbounded

\* A finite set of naturals has a bound: there is no shortest list without one.
LEMMA FiniteIsBounded ==
  ASSUME NEW S \in SUBSET Nat, IsFiniteSet(S)
  PROVE  \E n \in Nat : \A s \in S : s < n
<1> DEFINE Long == {m \in Nat : Unbounded(m)}
<1>1. Long = {}
  <2> SUFFICES ASSUME Long # {} PROVE FALSE
    OBVIOUS
  <2>1. PICK m \in Long : \A k \in Long : m <= k
    <3>1. Long \in SUBSET Nat
      OBVIOUS
    <3> HIDE DEF Long
    <3> QED BY <3>1, LeastNatural
  <2>2. m - 1 \in Nat /\ m - 1 \in Long
    BY UnboundedIsShorter
  <2>3. m \in Nat /\ m <= m - 1
    BY <2>1, <2>2
  <2> QED BY <2>3
<1>2. PICK m \in Nat : ExistsBijection(1..m, S)
  BY FS_NatBijection
<1>3. PICK f \in [1..m -> S] : \A s \in S : \E i \in 1..m : f[i] = s
  BY <1>2 DEF ExistsBijection, Bijection, Surjection
<1>4. f \in [1..m -> Nat]
  OBVIOUS
<1>5. ~Unbounded(m)
  BY <1>1
<1>6. PICK n \in Nat : \A i \in 1..m : f[i] < n
  BY <1>4, <1>5 DEF Unbounded
<1> QED BY <1>3, <1>6

\* The id after the last one in use is above all of them.
LEMMA NextIdIsNew ==
  ASSUME NEW segments, NEW n \in Nat, \A s \in segments : s.id \in Nat /\ s.id < n
  PROVE  NextId(segments) \in Nat /\ \A s \in segments : s.id < NextId(segments)
<1> DEFINE T == {s.id : s \in segments} \cup {-1}
           Below == {n - x : x \in T}
<1>1. Below \in SUBSET Nat /\ Below # {}
  <2>1. \A x \in T : n - x \in Nat
    OBVIOUS
  <2> QED BY <2>1
<1>2. PICK m \in Below : \A k \in Below : m <= k
  <2> HIDE DEF Below
  <2> QED BY <1>1, LeastNatural
<1>3. PICK x \in T : m = n - x
  OBVIOUS
<1>4. \A y \in T : x >= y
  <2> SUFFICES ASSUME NEW y \in T PROVE x >= y
    OBVIOUS
  <2>1. n - y \in Below
    OBVIOUS
  <2>2. n - x <= n - y
    BY <2>1, <1>2, <1>3
  <2> QED BY <2>2
<1>5. Max(T) \in T /\ \A y \in T : Max(T) >= y
  BY <1>3, <1>4 DEF Max
<1>6. NextId(segments) = Max(T) + 1
  BY DEF NextId
<1>7. \A s \in segments : s.id \in T /\ s.id \in Nat
  OBVIOUS
<1>8. -1 \in T /\ \A y \in T : y \in Int
  OBVIOUS
<1> HIDE DEF T
<1> QED BY <1>5, <1>6, <1>7, <1>8

-------------------------------------------------------------------------------
(* What the steps do.                                                      *)

LEMMA NextSteps ==
  ASSUME [RoutesNext]_routes_vars
  PROVE  EditorStep \/ Handle \/ Save \/ Reject \/ Restart \/ UNCHANGED routes_vars
  BY DEF RoutesNext

\* An editor only speaks of what it sees, or of what it has been dragging.
LEMMA EditorsAddress ==
  ASSUME RoutesTypeOK, DragInv, IdsInv, EditorStep
  PROVE  /\ UNCHANGED <<routes, next_route_id, sent, file, saving, failed, held, keys>>
         /\ \/ UNCHANGED inbox
            \/ \E m \in Messages : Addressed(m) /\ inbox' = Append(inbox, m)
         /\ \/ UNCHANGED drag
            \/ \E e \in Editors, name \in [id : Nat, key : Keys] :
                 Addressed(name) /\ drag' = [drag EXCEPT ![e] = name]
            \/ \E e \in Editors : drag' = [drag EXCEPT ![e] = NoSegment]
<1>1. ASSUME NEW s \in routes PROVE s \in RouteSegments /\ Addressed(s)
  BY DEF RoutesTypeOK, RouteSegments, IdsInv, OneEach, Addressed
<1>2. ASSUME NEW name, NEW kind \in {"toggle"} \cup EndpointControls,
             name.id \in Nat, name.key \in Keys, Addressed(name), Feedback(kind, name)
      PROVE  \E m \in Messages : Addressed(m) /\ inbox' = Append(inbox, m)
  <2> DEFINE m == [kind |-> kind, id |-> name.id, key |-> name.key]
  <2>1. m \in Messages /\ Addressed(m)
    BY <1>2 DEF Messages, Addressed
  <2>2. inbox' = Append(inbox, m)
    BY <1>2 DEF Feedback
  <2> QED BY <2>1, <2>2
<1>3. ASSUME NEW e \in Editors, NEW s \in routes, Click(e, s)
      PROVE  /\ Manager /\ UNCHANGED drag
             /\ \E m \in Messages : Addressed(m) /\ inbox' = Append(inbox, m)
  <2>1. PICK kind \in {"toggle"} \cup EndpointControls : Feedback(kind, s)
    BY <1>3 DEF Click, Controls
  <2>2. s.id \in Nat /\ s.key \in Keys
    BY <1>1 DEF RouteSegments
  <2> QED BY <1>1, <1>2, <1>3, <2>1, <2>2 DEF Click
<1>4. ASSUME NEW e \in Editors, NEW s \in routes, Grab(e, s)
      PROVE  /\ Manager
             /\ \E m \in Messages : Addressed(m) /\ inbox' = Append(inbox, m)
             /\ \E name \in [id : Nat, key : Keys] :
                  Addressed(name) /\ drag' = [drag EXCEPT ![e] = name]
  <2>1. Feedback("move", s)
    BY <1>4 DEF Grab
  <2>2. s.id \in Nat /\ s.key \in Keys
    BY <1>1 DEF RouteSegments
  <2>3. Name(s) \in [id : Nat, key : Keys] /\ Addressed(Name(s))
    BY <1>1, <2>2 DEF Name, Addressed
  <2> QED BY <1>1, <1>2, <1>4, <2>1, <2>2, <2>3 DEF Grab, EndpointControls
<1>5. ASSUME NEW e \in Editors, drag[e] # NoSegment,
             NEW kind \in {"move", "release"}, Feedback(kind, drag[e])
      PROVE  \E m \in Messages : Addressed(m) /\ inbox' = Append(inbox, m)
  <2>1. drag[e] \in [id : Nat, key : Keys] /\ Addressed(drag[e])
    BY <1>5 DEF DragInv
  <2> QED BY <1>2, <1>5, <2>1 DEF EndpointControls
<1>6. ASSUME NEW e \in Editors, Move(e)
      PROVE  /\ Manager /\ UNCHANGED drag
             /\ \E m \in Messages : Addressed(m) /\ inbox' = Append(inbox, m)
  BY <1>5, <1>6 DEF Move
<1>7. ASSUME NEW e \in Editors, LetGo(e)
      PROVE  /\ Manager /\ drag' = [drag EXCEPT ![e] = NoSegment]
             /\ \/ UNCHANGED inbox
                \/ \E m \in Messages : Addressed(m) /\ inbox' = Append(inbox, m)
  BY <1>5, <1>7 DEF LetGo
<1> QED
  BY <1>3, <1>4, <1>6, <1>7 DEF EditorStep, Manager

\* The feedback a handler gets, and the segment it finds under its id.
LEMMA HandledFeedback ==
  ASSUME InboxInv, Handle
  PROVE  /\ inbox # <<>> /\ inbox' = Tail(inbox) /\ UNCHANGED drag
         /\ Head(inbox) \in Messages /\ Addressed(Head(inbox))
         /\ saving = NoKey
         /\ \E s \in routes, pose \in Poses :
              /\ s.id = Head(inbox).id /\ s.key = Head(inbox).key
              /\ \/ Toggle(Head(inbox), s) \/ AddSegment(Head(inbox), pose)
                 \/ RemoveSegment(Head(inbox), s) \/ Drag(Head(inbox), s, pose)
<1>1. inbox # <<>> /\ inbox' = Tail(inbox) /\ UNCHANGED drag
  BY DEF Handle
<1>2. Head(inbox) = inbox[1] /\ 1 \in DOMAIN inbox /\ Head(inbox) \in Messages
  BY <1>1 DEF InboxInv
<1>3. Addressed(Head(inbox))
  BY <1>2 DEF InboxInv
<1> QED BY <1>1, <1>2, <1>3 DEF Handle, HasMarker, Addressed

\* What changes a segment's pose or edit mode leaves everything else.
LEMMA ReplaceOne ==
  ASSUME RoutesTypeOK, IdsInv, NEW s \in routes, NEW t \in RouteSegments,
         t.id = s.id, t.key = s.key,
         routes' = (routes \ {s}) \cup {t}
  PROVE  /\ routes' \subseteq RouteSegments /\ OneEach(routes)'
         /\ \A u \in routes' : \E r \in routes : u.id = r.id /\ u.key = r.key
         /\ {u.key : u \in routes'} = {u.key : u \in routes}
<1>1. routes \subseteq RouteSegments /\ OneEach(routes)
  BY DEF RoutesTypeOK, RouteSegments, IdsInv
<1>2. routes' \subseteq RouteSegments
  BY <1>1
<1>3. OneEach(routes)'
  BY <1>1 DEF OneEach
<1>4. \A u \in routes' : \E r \in routes : u.id = r.id /\ u.key = r.key
  OBVIOUS
<1>5. \A r \in routes : \E u \in routes' : u.key = r.key
  OBVIOUS
<1> QED BY <1>2, <1>3, <1>4, <1>5

\* What a handler does to the segments: it keeps their ids and keys together, and
\* the id of a new one is new.
SegmentsEdited ==
  /\ keys' \in {keys, keys + 1} /\ next_route_id' \in {next_route_id, next_route_id + 1}
  /\ routes' \subseteq RouteSegments' /\ OneEach(routes)' /\ held' \subseteq Keys'
  /\ \A u \in routes' :
       \/ \E r \in routes : u.id = r.id /\ u.key = r.key
       \/ u.id = next_route_id /\ next_route_id' = next_route_id + 1

\* Only segments with one of these keys are drawn in another way.
DrawnBut(some) == \A d \in Drawn \cup Drawn' : d \in Drawn \cap Drawn' \/ d.key \in some

\* What it tells the robots: all there is, when it has edited one segment, or nothing
\* while an endpoint is dragged.
RobotsTold ==
  \/ \E key \in Keys' :
       Publish(routes', key) /\ DrawnBut({key}) /\ held \ {key} \subseteq held'
  \/ /\ UNCHANGED <<sent, file, saving, failed>>
     /\ {u.key : u \in routes'} = {u.key : u \in routes} /\ held \subseteq held'
     /\ DrawnBut(held')

LEMMA ToggleEdits ==
  ASSUME RoutesTypeOK, IdsInv, NEW f \in Messages, NEW s \in routes, Toggle(f, s)
  PROVE  SegmentsEdited /\ RobotsTold
<1> DEFINE t == [s EXCEPT !.edit = ~@]
<1>1. s \in RouteSegments /\ keys' = keys /\ next_route_id' = next_route_id /\ held' = held
  BY DEF RoutesTypeOK, RouteSegments, Toggle
<1>2. t \in RouteSegments /\ t.id = s.id /\ t.key = s.key /\ t.pose = s.pose
  BY <1>1 DEF RouteSegments
<1>3. routes' = (routes \ {s}) \cup {t}
  BY DEF Toggle
<1>4. RouteSegments' = RouteSegments /\ Keys' = Keys
  BY <1>1 DEF RouteSegments, Keys
<1> HIDE DEF t
<1>5. /\ routes' \subseteq RouteSegments /\ OneEach(routes)'
      /\ \A u \in routes' : \E r \in routes : u.id = r.id /\ u.key = r.key
      /\ {u.key : u \in routes'} = {u.key : u \in routes}
  BY <1>2, <1>3, ReplaceOne
<1>6. SegmentsEdited
  BY <1>1, <1>4, <1>5 DEF SegmentsEdited, RoutesTypeOK
<1>7. Drawn' = Drawn
  BY <1>2, <1>3 DEF Drawn, Plain
<1> QED BY <1>1, <1>5, <1>6, <1>7 DEF RobotsTold, DrawnBut, Toggle

LEMMA DragEdits ==
  ASSUME RoutesTypeOK, IdsInv, NEW f \in Messages, NEW s \in routes, NEW pose \in Poses, Drag(f, s, pose)
  PROVE  SegmentsEdited /\ RobotsTold
<1> DEFINE t == [s EXCEPT !.pose = pose]
<1>1. s \in RouteSegments /\ keys' = keys /\ next_route_id' = next_route_id
  BY DEF RoutesTypeOK, RouteSegments, Drag
<1>2. t \in RouteSegments /\ t.id = s.id /\ t.key = s.key
  BY <1>1 DEF RouteSegments
<1>3. routes' = (routes \ {s}) \cup {t}
  BY DEF Drag
<1>4. RouteSegments' = RouteSegments /\ Keys' = Keys
  BY <1>1 DEF RouteSegments, Keys
<1> HIDE DEF t
<1>5. /\ routes' \subseteq RouteSegments /\ OneEach(routes)'
      /\ \A u \in routes' : \E r \in routes : u.id = r.id /\ u.key = r.key
      /\ {u.key : u \in routes'} = {u.key : u \in routes}
  BY <1>2, <1>3, ReplaceOne
<1>6. held' \subseteq Keys
  BY <1>1 DEF Drag, RoutesTypeOK, RouteSegments
<1>7. SegmentsEdited
  BY <1>1, <1>4, <1>5, <1>6 DEF SegmentsEdited
<1>8. DrawnBut({s.key})
  BY <1>2, <1>3 DEF DrawnBut, Drawn, Plain
<1>9. CASE f.kind = "release"
  <2>1. s.key \in Keys'
    BY <1>1, <1>4 DEF RouteSegments
  <2>2. Publish(routes', s.key) /\ held' = held \ {s.key}
    BY <1>9 DEF Drag
  <2> QED BY <1>7, <1>8, <2>1, <2>2 DEF RobotsTold
<1>10. CASE f.kind # "release"
  <2>1. held' = held \cup {s.key} /\ UNCHANGED <<sent, file, saving, failed>>
    BY <1>10 DEF Drag
  <2>2. DrawnBut(held')
    BY <1>8, <2>1 DEF DrawnBut
  <2> QED BY <1>5, <1>7, <2>1, <2>2 DEF RobotsTold
<1> QED BY <1>9, <1>10

LEMMA AddEdits ==
  ASSUME RoutesTypeOK, IdsInv, NEW f \in Messages, NEW pose \in Poses, AddSegment(f, pose)
  PROVE  SegmentsEdited /\ RobotsTold
<1> DEFINE t == Segment(FreshId, keys + 1, pose)
<1>1. /\ keys' = keys + 1 /\ next_route_id' = next_route_id + 1
      /\ keys \in Nat /\ next_route_id \in Nat /\ held' = held /\ held \subseteq Keys
      /\ routes \subseteq RouteSegments
  BY DEF RoutesTypeOK, RouteSegments, AddSegment
<1>2. Keys \subseteq Keys' /\ keys + 1 \in Keys'
  BY <1>1 DEF Keys
<1>3. RouteSegments \subseteq RouteSegments'
  BY <1>2 DEF RouteSegments
<1>4. t \in RouteSegments' /\ t.id = next_route_id /\ t.key = keys'
  BY <1>1, <1>2 DEF Segment, FreshId, RouteSegments
<1>5. routes' = routes \cup {t}
  BY DEF AddSegment
<1> HIDE DEF t
<1>6. OneEach(routes)'
  <2>1. \A s \in routes : s.id # t.id
    BY <1>1, <1>4 DEF IdsInv, RouteSegments
  <2> QED BY <1>5, <2>1 DEF IdsInv, OneEach
<1>7. \A u \in routes' : u \in routes \/ u.id = next_route_id
  BY <1>4, <1>5
<1>8. routes' \subseteq RouteSegments'
  BY <1>1, <1>3, <1>4, <1>5
<1>9. SegmentsEdited
  BY <1>1, <1>2, <1>6, <1>7, <1>8 DEF SegmentsEdited
<1>10. DrawnBut({keys'})
  BY <1>4, <1>5 DEF DrawnBut, Drawn, Plain
<1> QED BY <1>1, <1>2, <1>9, <1>10 DEF RobotsTold, AddSegment

LEMMA RemoveEdits ==
  ASSUME RoutesTypeOK, IdsInv, NEW f \in Messages, NEW s \in routes, RemoveSegment(f, s)
  PROVE  SegmentsEdited /\ RobotsTold
<1>1. /\ keys' = keys /\ next_route_id' = next_route_id /\ routes' = routes \ {s}
      /\ held' = held \ {s.key}
  BY DEF RemoveSegment
<1>2. RouteSegments' = RouteSegments /\ Keys' = Keys
  BY <1>1 DEF RouteSegments, Keys
<1>3. routes' \subseteq RouteSegments /\ held' \subseteq Keys /\ OneEach(routes)'
  BY <1>1 DEF RoutesTypeOK, RouteSegments, IdsInv, OneEach
<1>4. s.key \in Keys' /\ DrawnBut({s.key})
  BY <1>1, <1>2 DEF DrawnBut, Drawn, Plain, RoutesTypeOK
<1>5. Publish(routes', s.key)
  BY DEF RemoveSegment
<1> QED BY <1>1, <1>2, <1>3, <1>4, <1>5 DEF SegmentsEdited, RobotsTold

LEMMA HandlersEdit ==
  ASSUME RoutesTypeOK, IdsInv, InboxInv, Handle
  PROVE  SegmentsEdited /\ RobotsTold
  BY HandledFeedback, ToggleEdits, DragEdits, AddEdits, RemoveEdits

\* What was addressed to a segment still is after an edit, if it is still there.
LEMMA EditsKeepAddresses ==
  ASSUME RoutesTypeOK, SegmentsEdited, NEW name, name.id \in Nat, Addressed(name)
  PROVE  Addressed(name)'
  BY DEF RoutesTypeOK, SegmentsEdited, Addressed

\* The routes without their edit modes, and with them off.
LEMMA PlainTypes ==
  ASSUME NEW K, NEW segments \in SUBSET [id : Nat, key : K, pose : Poses, edit : BOOLEAN]
  PROVE  /\ Plain(segments) \in SUBSET [id : Nat, key : K, pose : Poses]
         /\ OneEach(segments) => OneEach(Plain(segments))
         /\ {s.key : s \in Plain(segments)} = {s.key : s \in segments}
         /\ \A n \in Nat : (\A s \in segments : s.id < n) => \A s \in Plain(segments) : s.id < n
<1>1. \A d \in Plain(segments) : \E s \in segments :
        d = [id |-> s.id, key |-> s.key, pose |-> s.pose]
  BY DEF Plain
<1>2. \A s \in segments : [id |-> s.id, key |-> s.key, pose |-> s.pose] \in Plain(segments)
  BY DEF Plain
<1>3. Plain(segments) \in SUBSET [id : Nat, key : K, pose : Poses]
  BY <1>1
<1>4. OneEach(segments) => OneEach(Plain(segments))
  BY <1>1 DEF OneEach
<1>5. {s.key : s \in Plain(segments)} = {s.key : s \in segments}
  <2>1. \A d \in Plain(segments) : \E s \in segments : d.key = s.key
    BY <1>1
  <2>2. \A s \in segments : \E d \in Plain(segments) : d.key = s.key
    BY <1>2
  <2> QED BY <2>1, <2>2
<1>6. \A n \in Nat : (\A s \in segments : s.id < n) => \A s \in Plain(segments) : s.id < n
  BY <1>1
<1> QED BY <1>3, <1>4, <1>5, <1>6

LEMMA EditableTypes ==
  ASSUME NEW K, NEW plain \in SUBSET [id : Nat, key : K, pose : Poses]
  PROVE  /\ Editable(plain) \in SUBSET [id : Nat, key : K, pose : Poses, edit : BOOLEAN]
         /\ OneEach(plain) => OneEach(Editable(plain))
         /\ Plain(Editable(plain)) = plain
         /\ \A n \in Nat : (\A s \in plain : s.id < n) => \A s \in Editable(plain) : s.id < n
<1>1. \A s \in Editable(plain) : \E d \in plain :
        s = [id |-> d.id, key |-> d.key, pose |-> d.pose, edit |-> FALSE]
  BY DEF Editable, Segment
<1>2. \A d \in plain :
        [id |-> d.id, key |-> d.key, pose |-> d.pose, edit |-> FALSE] \in Editable(plain)
  BY DEF Editable, Segment
<1>3. \A s \in Editable(plain) : \E d \in plain :
        /\ s = [id |-> d.id, key |-> d.key, pose |-> d.pose, edit |-> FALSE]
        /\ s.id = d.id /\ d.id \in Nat /\ d.key \in K /\ d.pose \in Poses
  BY <1>1
<1>4. Editable(plain) \in SUBSET [id : Nat, key : K, pose : Poses, edit : BOOLEAN]
  <2> SUFFICES ASSUME NEW s \in Editable(plain)
               PROVE  s \in [id : Nat, key : K, pose : Poses, edit : BOOLEAN]
    OBVIOUS
  <2>1. PICK d \in plain :
          /\ s = [id |-> d.id, key |-> d.key, pose |-> d.pose, edit |-> FALSE]
          /\ d.id \in Nat /\ d.key \in K /\ d.pose \in Poses
    BY <1>3
  <2> QED BY <2>1
<1>5. ASSUME OneEach(plain) PROVE OneEach(Editable(plain))
  <2> SUFFICES ASSUME NEW s \in Editable(plain), NEW t \in Editable(plain), s.id = t.id
               PROVE  s = t
    BY DEF OneEach
  <2>1. PICK d \in plain :
          s = [id |-> d.id, key |-> d.key, pose |-> d.pose, edit |-> FALSE] /\ s.id = d.id
    BY <1>3
  <2>2. PICK e \in plain :
          t = [id |-> e.id, key |-> e.key, pose |-> e.pose, edit |-> FALSE] /\ t.id = e.id
    BY <1>3
  <2>3. d = e
    BY <1>5, <2>1, <2>2 DEF OneEach
  <2> QED BY <2>1, <2>2, <2>3
<1>6. \A n \in Nat : (\A s \in plain : s.id < n) => \A s \in Editable(plain) : s.id < n
  BY <1>3
<1>7. Plain(Editable(plain)) = plain
  <2>1. \A d \in plain : d = [id |-> d.id, key |-> d.key, pose |-> d.pose]
    OBVIOUS
  <2>2. \A d \in Plain(Editable(plain)) : d \in plain
    BY <1>1, <2>1 DEF Plain
  <2>3. ASSUME NEW d \in plain PROVE d \in Plain(Editable(plain))
    <3> DEFINE e == [id |-> d.id, key |-> d.key, pose |-> d.pose, edit |-> FALSE]
    <3>1. e \in Editable(plain) /\ d = [id |-> e.id, key |-> e.key, pose |-> e.pose]
      BY <1>2, <2>1
    <3> HIDE DEF e
    <3> QED BY <3>1 DEF Plain
  <2> QED BY <2>2, <2>3
<1> QED BY <1>4, <1>5, <1>6, <1>7

-------------------------------------------------------------------------------
(* The invariant stays.                                                    *)

LEMMA HandleKeeps == RoutesInv /\ Handle => RoutesInv'
<1> SUFFICES ASSUME RoutesInv, Handle PROVE RoutesInv'
  OBVIOUS
<1>1. RoutesTypeOK /\ InboxInv /\ DragInv /\ IdsInv /\ RobotsFollowTheEdits /\ EditsSurvive
  BY DEF RoutesInv
<1>2. SegmentsEdited /\ RobotsTold
  BY <1>1, HandlersEdit
<1>3. inbox # <<>> /\ inbox' = Tail(inbox) /\ drag' = drag
  BY <1>1, HandledFeedback
<1>4. /\ keys \in Nat /\ keys' \in Nat /\ next_route_id \in Nat /\ next_route_id' \in Nat
      /\ Keys \subseteq Keys' /\ next_route_id <= next_route_id'
  BY <1>1, <1>2 DEF RoutesTypeOK, SegmentsEdited, Keys
<1>5. /\ routes' \in SUBSET [id : Nat, key : Keys', pose : Poses, edit : BOOLEAN]
      /\ OneEach(routes') /\ held' \subseteq Keys'
  BY <1>2 DEF SegmentsEdited, RouteSegments, OneEach
<1>6. \A s \in routes' : s.id < next_route_id'
  BY <1>1, <1>2, <1>4 DEF SegmentsEdited, IdsInv, RoutesTypeOK
<1>7. /\ Plain(routes') \in SUBSET [id : Nat, key : Keys', pose : Poses]
      /\ OneEach(Plain(routes')) /\ \A s \in Plain(routes') : s.id < next_route_id'
      /\ {s.key : s \in Plain(routes')} = {s.key : s \in routes'}
  BY <1>4, <1>5, <1>6, PlainTypes
<1>8. [id : Nat, key : Keys, pose : Poses] \subseteq [id : Nat, key : Keys', pose : Poses]
  BY <1>4
<1>9. /\ sent' \subseteq [id : Nat, key : Keys', pose : Poses]
      /\ file' \subseteq [id : Nat, key : Keys', pose : Poses]
      /\ saving' \in Keys' \cup {NoKey} /\ failed' \subseteq Keys'
  <2>1. /\ sent \subseteq [id : Nat, key : Keys', pose : Poses]
        /\ file \subseteq [id : Nat, key : Keys', pose : Poses]
        /\ saving \in Keys' \cup {NoKey} /\ failed \subseteq Keys'
    BY <1>1, <1>4, <1>8 DEF RoutesTypeOK
  <2> QED BY <1>2, <1>7, <2>1 DEF RobotsTold, Publish
<1>10. InboxInv'
  <2>1. Messages \subseteq Messages'
    BY <1>4 DEF Messages
  <2>2. Tail(inbox) \in Seq(Messages') /\ Len(Tail(inbox)) = Len(inbox) - 1
    BY <1>1, <1>3, <2>1 DEF InboxInv
  <2>3. ASSUME NEW i \in DOMAIN Tail(inbox)
        PROVE  Tail(inbox)[i] \in Messages /\ Addressed(Tail(inbox)[i])
    <3>1. Tail(inbox)[i] = inbox[i + 1] /\ i + 1 \in DOMAIN inbox
      BY <1>1, <1>3, <2>2 DEF InboxInv
    <3> QED BY <1>1, <3>1 DEF InboxInv
  <2>4. ASSUME NEW i \in DOMAIN inbox' PROVE Addressed(inbox[i])'
    <3>1. PICK m \in Messages : m = inbox'[i] /\ Addressed(m)
      BY <1>3, <2>3
    <3>2. m.id \in Nat
      BY DEF Messages
    <3>3. Addressed(m)'
      BY <1>1, <1>2, <3>1, <3>2, EditsKeepAddresses
    <3> QED BY <3>1, <3>3 DEF Addressed
  <2>5. inbox' \in Seq(Messages')
    BY <1>3, <2>2
  <2> QED BY <2>4, <2>5 DEF InboxInv
<1>11. DragInv'
  <2> SUFFICES ASSUME NEW e \in Editors, drag[e] # NoSegment
               PROVE  drag[e] \in [id : Nat, key : Keys'] /\ Addressed(drag[e])'
    BY <1>3 DEF DragInv, Addressed
  <2>1. drag[e] \in [id : Nat, key : Keys] /\ Addressed(drag[e])
    BY <1>1 DEF DragInv
  <2>2. Addressed(drag[e])'
    BY <1>1, <1>2, <1>3, <2>1 DEF RoutesTypeOK, SegmentsEdited, Addressed
  <2> QED BY <1>4, <2>1, <2>2
<1>12. IdsInv'
  <2>1. file' = file
    BY <1>2 DEF RobotsTold, Publish
  <2> QED BY <1>1, <1>5, <1>6, <2>1 DEF IdsInv, OneEach
<1>13. RobotsFollowTheEdits'
  <2>1. CASE sent' = Plain(routes')
    BY <1>7, <2>1 DEF RobotsFollowTheEdits, Drawn
  <2>2. CASE ~(sent' = Plain(routes'))
    <3>1. /\ sent' = sent /\ DrawnBut(held') /\ held \subseteq held'
          /\ {u.key : u \in routes'} = {u.key : u \in routes}
      BY <1>2, <2>2 DEF RobotsTold, Publish
    <3> QED BY <1>1, <3>1 DEF RobotsFollowTheEdits, DrawnBut
  <2> QED BY <2>1, <2>2
<1>14. EditsSurvive'
  <2> SUFFICES ASSUME NEW d \in Drawn' \cup file', d \notin Drawn' \cap file'
               PROVE  d.key \in failed' \cup held' \cup {saving'}
    BY DEF EditsSurvive
  <2>1. file' = file /\ failed' = failed
    BY <1>2 DEF RobotsTold, Publish
  <2>2. d.key \in Keys'
    BY <1>7, <1>9 DEF Drawn
  <2>3. d \in Drawn \cup file /\ d \notin Drawn \cap file => d.key \in failed \cup held
    <3>1. saving = NoKey /\ d.key # NoKey
      BY <1>1, <1>4, <2>2, HandledFeedback DEF NoKey, Keys
    <3> QED BY <1>1, <3>1 DEF EditsSurvive
  <2>4. ASSUME NEW key, saving' = key, DrawnBut({key}), held \ {key} \subseteq held'
        PROVE  d.key \in failed' \cup held' \cup {saving'}
    BY <2>1, <2>3, <2>4 DEF DrawnBut
  <2>5. CASE DrawnBut(held') /\ held \subseteq held'
    BY <2>1, <2>3, <2>5 DEF DrawnBut
  <2> QED BY <1>2, <2>4, <2>5 DEF RobotsTold, Publish
<1>15. /\ \A i \in DOMAIN inbox' :
            inbox'[i] \in [kind : {"toggle"} \cup EndpointControls, id : Nat, key : Keys']
       /\ drag' \in [Editors -> [id : Nat, key : Keys' \cup {NoKey}]]
  <2>1. [id : Nat, key : Keys \cup {NoKey}] \subseteq [id : Nat, key : Keys' \cup {NoKey}]
    BY <1>4
  <2>2. drag' \in [Editors -> [id : Nat, key : Keys' \cup {NoKey}]]
    BY <1>1, <1>3, <2>1 DEF RoutesTypeOK
  <2>3. \A i \in DOMAIN inbox' : inbox'[i] \in Messages'
    BY <1>10 DEF InboxInv
  <2> QED BY <2>2, <2>3 DEF Messages
<1>16. RoutesTypeOK'
  BY <1>4, <1>5, <1>9, <1>15 DEF RoutesTypeOK
<1> QED BY <1>10, <1>11, <1>12, <1>13, <1>14, <1>16 DEF RoutesInv

\* A save writes the routes that are drawn, or loses one edit more.
LEMMA SaveKeeps == RoutesInv /\ Save => RoutesInv'
<1> SUFFICES ASSUME RoutesInv, Save PROVE RoutesInv'
  OBVIOUS
<1>1. RoutesTypeOK /\ InboxInv /\ DragInv /\ IdsInv /\ RobotsFollowTheEdits /\ EditsSurvive
  BY DEF RoutesInv
<1>2. /\ saving # NoKey /\ saving' = NoKey
      /\ \/ file' = Plain(routes) /\ failed' = {}
         \/ failed' = failed \cup {saving} /\ file' = file
      /\ UNCHANGED <<routes, next_route_id, sent, inbox, drag, held, keys>>
  BY DEF Save
<1>3. Keys' = Keys /\ Messages' = Messages /\ Drawn' = Drawn
  BY <1>2 DEF Keys, Messages, Drawn, Plain
<1>4. /\ Plain(routes) \in SUBSET [id : Nat, key : Keys, pose : Poses]
      /\ OneEach(Plain(routes)) /\ \A s \in Plain(routes) : s.id < next_route_id
  BY <1>1, PlainTypes DEF RoutesTypeOK, IdsInv
<1>5. RoutesTypeOK'
  <2>1. /\ file' \subseteq [id : Nat, key : Keys, pose : Poses]
        /\ saving' \in Keys \cup {NoKey} /\ failed' \subseteq Keys
    BY <1>1, <1>2, <1>4 DEF RoutesTypeOK
  <2> QED BY <1>1, <1>2, <1>3, <2>1 DEF RoutesTypeOK
<1>6. InboxInv' /\ DragInv'
  BY <1>1, <1>2, <1>3 DEF InboxInv, DragInv, Addressed
<1>7. IdsInv'
  <2>1. OneEach(file') /\ \E n \in Nat : \A s \in file' : s.id < n
    BY <1>1, <1>2, <1>4 DEF IdsInv, RoutesTypeOK
  <2> QED BY <1>1, <1>2, <2>1 DEF IdsInv, OneEach
<1>8. RobotsFollowTheEdits'
  BY <1>1, <1>2, <1>3 DEF RobotsFollowTheEdits
<1>9. EditsSurvive'
  <2>1. CASE file' = Plain(routes)
    BY <1>2, <1>3, <2>1 DEF EditsSurvive, Drawn
  <2>2. CASE failed' = failed \cup {saving} /\ file' = file
    BY <1>1, <1>2, <1>3, <2>2 DEF EditsSurvive
  <2> QED BY <1>2, <2>1, <2>2
<1> QED BY <1>5, <1>6, <1>7, <1>8, <1>9 DEF RoutesInv

\* The manager loads the map again.
LEMMA RestartKeeps == RoutesInv /\ Restart => RoutesInv'
<1> SUFFICES ASSUME RoutesInv, Restart PROVE RoutesInv'
  OBVIOUS
<1>1. RoutesTypeOK /\ IdsInv
  BY DEF RoutesInv
<1>2. /\ routes' = Editable(file) /\ next_route_id' = NextId(routes') /\ sent' = file
      /\ saving' = NoKey /\ failed' = {}
      /\ inbox' = <<>> /\ held' = {} /\ drag' = [e \in Editors |-> NoSegment]
      /\ UNCHANGED <<file, keys>>
  BY DEF Restart
<1>3. file \in SUBSET [id : Nat, key : Keys, pose : Poses] /\ Keys' = Keys
  BY <1>1, <1>2 DEF RoutesTypeOK, Keys
<1>4. PICK n \in Nat : \A s \in file : s.id < n
  BY <1>1 DEF IdsInv
<1>5. /\ routes' \in SUBSET [id : Nat, key : Keys, pose : Poses, edit : BOOLEAN]
      /\ OneEach(routes') /\ Plain(routes') = file /\ \A s \in routes' : s.id < n
  BY <1>1, <1>2, <1>3, <1>4, EditableTypes DEF IdsInv
<1>6. next_route_id' \in Nat /\ \A s \in routes' : s.id < next_route_id'
  <2>1. \A s \in routes' : s.id \in Nat /\ s.id < n
    BY <1>5
  <2> QED BY <1>2, <2>1, NextIdIsNew
<1>7. RoutesTypeOK'
  <2>1. drag' \in [Editors -> [id : Nat, key : Keys' \cup {NoKey}]]
    BY <1>2 DEF NoSegment
  <2> QED BY <1>1, <1>2, <1>3, <1>5, <1>6, <2>1 DEF RoutesTypeOK
<1>8. InboxInv'
  BY <1>2 DEF InboxInv
<1>9. DragInv'
  BY <1>2 DEF DragInv
<1>10. IdsInv'
  BY <1>1, <1>2, <1>5, <1>6 DEF IdsInv, OneEach
<1>11. RobotsFollowTheEdits'
  <2>1. {s.key : s \in Plain(routes')} = {s.key : s \in routes'}
    BY <1>5, PlainTypes
  <2> QED BY <1>2, <1>5, <2>1 DEF RobotsFollowTheEdits, Drawn
<1>12. EditsSurvive'
  BY <1>2, <1>5 DEF EditsSurvive, Drawn
<1> QED BY <1>7, <1>8, <1>9, <1>10, <1>11, <1>12 DEF RoutesInv

\* What the editors do only adds to the topic.
LEMMA EditorsKeep == RoutesInv /\ EditorStep => RoutesInv'
<1> SUFFICES ASSUME RoutesInv, EditorStep PROVE RoutesInv'
  OBVIOUS
<1>1. RoutesTypeOK /\ InboxInv /\ DragInv /\ IdsInv /\ RobotsFollowTheEdits /\ EditsSurvive
  BY DEF RoutesInv
<1>2. /\ UNCHANGED <<routes, next_route_id, sent, file, saving, failed, held, keys>>
      /\ \/ UNCHANGED inbox
         \/ \E m \in Messages : Addressed(m) /\ inbox' = Append(inbox, m)
      /\ \/ UNCHANGED drag
         \/ \E e \in Editors, name \in [id : Nat, key : Keys] :
              Addressed(name) /\ drag' = [drag EXCEPT ![e] = name]
         \/ \E e \in Editors : drag' = [drag EXCEPT ![e] = NoSegment]
  BY <1>1, EditorsAddress
<1>3. Keys' = Keys /\ Messages' = Messages
  BY <1>2 DEF Keys, Messages
<1>4. inbox' \in Seq(Messages) /\ \A i \in DOMAIN inbox' : Addressed(inbox'[i])
  <2>1. CASE UNCHANGED inbox
    BY <1>1, <2>1 DEF InboxInv
  <2>2. ASSUME NEW m \in Messages, Addressed(m), inbox' = Append(inbox, m)
        PROVE  inbox' \in Seq(Messages) /\ \A i \in DOMAIN inbox' : Addressed(inbox'[i])
    <3>1. inbox \in Seq(Messages) /\ inbox' \in Seq(Messages) /\ Len(inbox') = Len(inbox) + 1
      BY <1>1, <2>2 DEF InboxInv
    <3> SUFFICES ASSUME NEW i \in DOMAIN inbox' PROVE Addressed(inbox'[i])
      BY <3>1
    <3>2. CASE i = Len(inbox) + 1
      BY <2>2, <3>1, <3>2
    <3>3. CASE i # Len(inbox) + 1
      <4>1. i \in DOMAIN inbox /\ inbox'[i] = inbox[i]
        BY <2>2, <3>1, <3>3
      <4> QED BY <1>1, <4>1 DEF InboxInv
    <3> QED BY <3>2, <3>3
  <2> QED BY <1>2, <2>1, <2>2
<1>5. InboxInv'
  BY <1>2, <1>3, <1>4 DEF InboxInv, Addressed
<1>6. DragInv' /\ drag' \in [Editors -> [id : Nat, key : Keys \cup {NoKey}]]
  <2>1. drag \in [Editors -> [id : Nat, key : Keys \cup {NoKey}]]
    BY <1>1 DEF RoutesTypeOK
  <2>2. CASE UNCHANGED drag
    BY <1>1, <1>2, <1>3, <2>1, <2>2 DEF DragInv, Addressed
  <2>3. ASSUME NEW e \in Editors, NEW name \in [id : Nat, key : Keys], Addressed(name),
               drag' = [drag EXCEPT ![e] = name]
        PROVE  DragInv' /\ drag' \in [Editors -> [id : Nat, key : Keys \cup {NoKey}]]
    BY <1>1, <1>2, <1>3, <2>1, <2>3 DEF DragInv, Addressed
  <2>4. ASSUME NEW e \in Editors, drag' = [drag EXCEPT ![e] = NoSegment]
        PROVE  DragInv' /\ drag' \in [Editors -> [id : Nat, key : Keys \cup {NoKey}]]
    <3>1. NoSegment \in [id : Nat, key : Keys \cup {NoKey}]
      BY DEF NoSegment
    <3> QED BY <1>1, <1>2, <1>3, <2>1, <2>4, <3>1 DEF DragInv, Addressed
  <2> QED BY <1>2, <2>2, <2>3, <2>4
<1>7. RoutesTypeOK'
  <2>1. \A i \in DOMAIN inbox' :
          inbox'[i] \in [kind : {"toggle"} \cup EndpointControls, id : Nat, key : Keys]
    <3>1. \A i \in DOMAIN inbox' : inbox'[i] \in Messages
      BY <1>4
    <3> QED BY <3>1 DEF Messages
  <2>2. /\ routes' \subseteq [id : Nat, key : Keys', pose : Poses, edit : BOOLEAN]
        /\ next_route_id' \in Nat /\ keys' \in Nat
        /\ saving' \in Keys' \cup {NoKey} /\ failed' \subseteq Keys' /\ held' \subseteq Keys'
    BY <1>1, <1>2, <1>3 DEF RoutesTypeOK
  <2>3. \A plain \in {sent', file'} : plain \subseteq [id : Nat, key : Keys', pose : Poses]
    BY <1>1, <1>2, <1>3 DEF RoutesTypeOK
  <2>4. drag' \in [Editors -> [id : Nat, key : Keys' \cup {NoKey}]]
    BY <1>1, <1>2, <1>3, <1>6 DEF RoutesTypeOK
  <2> QED BY <1>3, <2>1, <2>2, <2>3, <2>4 DEF RoutesTypeOK
<1>8. IdsInv' /\ RobotsFollowTheEdits' /\ EditsSurvive'
  BY <1>1, <1>2 DEF IdsInv, OneEach, RobotsFollowTheEdits, Drawn, Plain, EditsSurvive
<1> QED BY <1>5, <1>6, <1>7, <1>8 DEF RoutesInv

\* Feedback that is rejected is gone, and nothing else happens.
LEMMA RejectKeeps == RoutesInv /\ Reject => RoutesInv'
<1> SUFFICES ASSUME RoutesInv, Reject PROVE RoutesInv'
  OBVIOUS
<1>1. RoutesTypeOK /\ InboxInv /\ DragInv /\ IdsInv /\ RobotsFollowTheEdits /\ EditsSurvive
  BY DEF RoutesInv
<1>2. /\ inbox # <<>> /\ inbox' = Tail(inbox)
      /\ UNCHANGED <<routes, next_route_id, sent, file, saving, failed, held, keys, drag>>
  BY DEF Reject, Manager
<1>3. Keys' = Keys /\ Messages' = Messages
  BY <1>2 DEF Keys, Messages
<1>4. inbox' \in Seq(Messages) /\ \A i \in DOMAIN inbox' : Addressed(inbox'[i])
  <2>1. inbox' \in Seq(Messages) /\ Len(inbox') = Len(inbox) - 1
    BY <1>1, <1>2 DEF InboxInv
  <2>2. ASSUME NEW i \in DOMAIN inbox' PROVE Addressed(inbox'[i])
    <3>1. inbox'[i] = inbox[i + 1] /\ i + 1 \in DOMAIN inbox
      BY <1>1, <1>2, <2>1 DEF InboxInv
    <3> QED BY <1>1, <3>1 DEF InboxInv
  <2> QED BY <2>1, <2>2
<1>5. InboxInv'
  BY <1>2, <1>3, <1>4 DEF InboxInv, Addressed
<1>6. DragInv'
  BY <1>1, <1>2, <1>3 DEF DragInv, Addressed
<1>7. RoutesTypeOK'
  <2>1. \A i \in DOMAIN inbox' :
          inbox'[i] \in [kind : {"toggle"} \cup EndpointControls, id : Nat, key : Keys]
    <3>1. \A i \in DOMAIN inbox' : inbox'[i] \in Messages
      BY <1>4
    <3> QED BY <3>1 DEF Messages
  <2>2. /\ routes' \subseteq [id : Nat, key : Keys', pose : Poses, edit : BOOLEAN]
        /\ next_route_id' \in Nat /\ keys' \in Nat
        /\ saving' \in Keys' \cup {NoKey} /\ failed' \subseteq Keys' /\ held' \subseteq Keys'
    BY <1>1, <1>2, <1>3 DEF RoutesTypeOK
  <2>3. \A plain \in {sent', file'} : plain \subseteq [id : Nat, key : Keys', pose : Poses]
    BY <1>1, <1>2, <1>3 DEF RoutesTypeOK
  <2>4. drag' \in [Editors -> [id : Nat, key : Keys' \cup {NoKey}]]
    BY <1>1, <1>2, <1>3 DEF RoutesTypeOK
  <2> QED BY <1>3, <2>1, <2>2, <2>3, <2>4 DEF RoutesTypeOK
<1>8. IdsInv' /\ RobotsFollowTheEdits' /\ EditsSurvive'
  BY <1>1, <1>2 DEF IdsInv, OneEach, RobotsFollowTheEdits, Drawn, Plain, EditsSurvive
<1> QED BY <1>5, <1>6, <1>7, <1>8 DEF RoutesInv

LEMMA RoutesInitially == RoutesInit => RoutesInv
<1> SUFFICES ASSUME RoutesInit PROVE RoutesInv
  OBVIOUS
<1>1. PICK key \in [FirstIds -> 1..Cardinality(FirstIds)], pose \in [FirstIds -> Poses] :
        routes = {Segment(id, key[id], pose[id]) : id \in FirstIds}
  BY DEF RoutesInit
<1>2. /\ keys = Cardinality(FirstIds) /\ next_route_id = NextId(routes)
      /\ sent = Plain(routes) /\ file = Plain(routes) /\ saving = NoKey /\ failed = {}
      /\ inbox = <<>> /\ drag = [e \in Editors |-> NoSegment] /\ held = {}
  BY DEF RoutesInit
<1>3. keys \in Nat
  BY <1>2, FS_CardinalityType
<1>4. \A s \in routes : \E id \in FirstIds :
        /\ s = [id |-> id, key |-> key[id], pose |-> pose[id], edit |-> FALSE]
        /\ s.id = id /\ id \in Nat /\ key[id] \in Keys /\ pose[id] \in Poses
  BY <1>1, <1>2 DEF Segment, Keys
<1>5. routes \in SUBSET [id : Nat, key : Keys, pose : Poses, edit : BOOLEAN]
  <2> SUFFICES ASSUME NEW s \in routes
               PROVE  s \in [id : Nat, key : Keys, pose : Poses, edit : BOOLEAN]
    OBVIOUS
  <2>1. PICK id \in FirstIds :
          /\ s = [id |-> id, key |-> key[id], pose |-> pose[id], edit |-> FALSE]
          /\ id \in Nat /\ key[id] \in Keys /\ pose[id] \in Poses
    BY <1>4
  <2> QED BY <2>1
<1>6. OneEach(routes)
  <2>1. \A u \in routes :
          u = [id |-> u.id, key |-> key[u.id], pose |-> pose[u.id], edit |-> FALSE]
    BY <1>4
  <2> SUFFICES ASSUME NEW u \in routes, NEW v \in routes, u.id = v.id PROVE u = v
    BY DEF OneEach
  <2> QED BY <2>1
<1>7. PICK n \in Nat : \A id \in FirstIds : id < n
  BY FiniteIsBounded
<1>8. \A s \in routes : s.id \in Nat /\ s.id < n
  BY <1>4, <1>7
<1>9. next_route_id \in Nat /\ \A s \in routes : s.id < next_route_id
  BY <1>2, <1>8, NextIdIsNew
<1>10. /\ Plain(routes) \in SUBSET [id : Nat, key : Keys, pose : Poses]
       /\ OneEach(Plain(routes)) /\ \A s \in Plain(routes) : s.id < n
       /\ {s.key : s \in Plain(routes)} = {s.key : s \in routes}
  BY <1>5, <1>6, <1>8, PlainTypes
<1>11. RoutesTypeOK
  <2>1. drag \in [Editors -> [id : Nat, key : Keys \cup {NoKey}]]
    BY <1>2 DEF NoSegment
  <2>2. /\ saving \in Keys \cup {NoKey} /\ failed \subseteq Keys /\ held \subseteq Keys
        /\ DOMAIN inbox = {}
    <3>1. inbox \in Seq(Messages) /\ Len(inbox) = 0
      BY <1>2
    <3>2. DOMAIN inbox = {}
      BY <3>1
    <3> QED BY <1>2, <3>2
  <2>3. \A plain \in {sent, file} : plain \subseteq [id : Nat, key : Keys, pose : Poses]
    BY <1>2, <1>10
  <2> QED BY <1>3, <1>5, <1>9, <2>1, <2>2, <2>3 DEF RoutesTypeOK
<1>12. InboxInv /\ DragInv
  BY <1>2 DEF InboxInv, DragInv
<1>13. IdsInv
  BY <1>2, <1>6, <1>9, <1>10 DEF IdsInv
<1>14. RobotsFollowTheEdits /\ EditsSurvive
  BY <1>2, <1>10 DEF RobotsFollowTheEdits, Drawn, EditsSurvive
<1> QED BY <1>11, <1>12, <1>13, <1>14 DEF RoutesInv

LEMMA RoutesInvariance == RoutesSpec => []RoutesInv
<1>1. RoutesInv /\ [RoutesNext]_routes_vars => RoutesInv'
  <2>1. ASSUME RoutesInv, UNCHANGED routes_vars PROVE RoutesInv'
    <3>1. /\ UNCHANGED <<routes, next_route_id, sent, file, saving>>
          /\ UNCHANGED <<failed, inbox, drag, held, keys>>
      BY <2>1 DEF routes_vars
    <3>2. RoutesTypeOK'
      BY <2>1, <3>1 DEF RoutesInv, RoutesTypeOK, Keys
    <3>3. InboxInv' /\ DragInv'
      BY <2>1, <3>1 DEF RoutesInv, InboxInv, DragInv, Messages, Keys, Addressed
    <3>4. IdsInv' /\ EditsSurvive' /\ RobotsFollowTheEdits'
      BY <2>1, <3>1 DEF RoutesInv, IdsInv, OneEach, EditsSurvive, RobotsFollowTheEdits, Drawn, Plain
    <3> QED BY <3>2, <3>3, <3>4 DEF RoutesInv
  <2> QED BY <2>1, HandleKeeps, SaveKeeps, RestartKeeps, EditorsKeep, RejectKeeps, NextSteps
<1> QED BY <1>1, RoutesInitially, PTL DEF RoutesSpec

\* Every variable keeps its type: whatever is edited, saved and loaded, no segment
\* gets a number or a pose that is none.
THEOREM RoutesTypeCorrect == RoutesSpec => []RoutesTypeOK
<1> QED BY RoutesInvariance, PTL DEF RoutesInv

\* For any number of editors, segments, poses and edits on their way: the robots
\* have the routes that are drawn, but for endpoints that were dragged
\* and whose release was not handled.
THEOREM RobotsFollow == RoutesSpec => []RobotsFollowTheEdits
<1> QED BY RoutesInvariance, PTL DEF RoutesInv

\* However late an edit is handled, and whatever was removed, added or loaded in
\* between, it never changes or removes another segment than the one it meant.
THEOREM LateEditsHit == RoutesSpec => EditsHitTheirSegment
<1>1. RoutesInv /\ [RoutesNext]_routes_vars
      => [Handle => \A s \in routes \ routes' : s.key = Head(inbox).key]_routes_vars
  <2> SUFFICES ASSUME RoutesInv, Handle, NEW s \in routes \ routes'
               PROVE  s.key = Head(inbox).key
    OBVIOUS
  <2>1. PICK t \in routes :
          /\ t.key = Head(inbox).key
          /\ \/ Toggle(Head(inbox), t) \/ \E pose \in Poses : AddSegment(Head(inbox), pose)
             \/ RemoveSegment(Head(inbox), t) \/ \E pose \in Poses : Drag(Head(inbox), t, pose)
    BY HandledFeedback DEF RoutesInv
  <2>2. s = t
    BY <2>1 DEF Toggle, AddSegment, RemoveSegment, Drag
  <2> QED BY <2>1, <2>2
<1> QED BY <1>1, RoutesInvariance, PTL DEF RoutesSpec, EditsHitTheirSegment

\* Wherever a restart falls, also between sending an edit and saving it, the routes
\* come back as they are drawn, but for edits that have yet to
\* reach the file.
THEOREM SavedEditsSurvive == RoutesSpec => []EditsSurvive
<1> QED BY RoutesInvariance, PTL DEF RoutesInv

-------------------------------------------------------------------------------
(* The rule.                                                               *)

\* Of the robots of any set, one has the shortest path and, among those, the
\* last name.
LEMMA Nearest ==
  ASSUME NumRobots \in Nat, NEW Q \in SUBSET Robots, Q # {},
         NEW lengths \in [Robots -> Nat]
  PROVE  \E r \in Q : \A s \in Q :
           lengths[r] < lengths[s] \/ (lengths[r] = lengths[s] /\ s <= r)
<1> DEFINE L == {lengths[r] : r \in Q}
<1>1. L \in SUBSET Nat /\ L # {}
  OBVIOUS
<1>2. PICK m \in L : \A k \in L : m <= k
  <2> HIDE DEF L
  <2> QED BY <1>1, LeastNatural
<1> DEFINE B == {NumRobots - r : r \in {q \in Q : lengths[q] = m}}
<1>3. B \in SUBSET Nat /\ B # {}
  BY DEF Robots
<1>4. PICK b \in B : \A k \in B : b <= k
  <2> HIDE DEF B
  <2> QED BY <1>3, LeastNatural
<1>5. PICK r \in Q : lengths[r] = m /\ b = NumRobots - r
  OBVIOUS
<1>6. ASSUME NEW s \in Q PROVE lengths[r] < lengths[s] \/ (lengths[r] = lengths[s] /\ s <= r)
  <2>1. m <= lengths[s] /\ m \in Nat /\ lengths[s] \in Nat
    BY <1>2
  <2>2. CASE m < lengths[s]
    BY <2>2, <1>5
  <2>3. CASE m = lengths[s]
    <3>1. NumRobots - s \in B
      BY <2>3
    <3>2. NumRobots - r <= NumRobots - s
      BY <3>1, <1>4, <1>5
    <3>3. r \in Int /\ s \in Int
      BY DEF Robots
    <3> QED BY <3>2, <3>3, <2>3, <1>5
  <2> QED BY <2>1, <2>2, <2>3
<1> QED BY <1>6

\* The robot nearest to its goal, of those not paused, of those preferred (where
\* there are any), makes way for nobody: robots never wait in a circle, and of those
\* that have waited too long one goes on.
THEOREM SomeoneIsFree ==
  ASSUME NumRobots \in Nat,
         NEW moving \in SUBSET Robots, moving # {},
         NEW gaps, NEW lengths \in [Robots -> Nat], NEW paused, NEW priority
  PROVE  \E r \in moving :
           /\ r \notin RobotsToPause(moving, gaps, lengths, paused, priority)
           /\ moving \cap priority # {} => r \in priority
<1> DEFINE P == IF moving \cap priority # {} THEN moving \cap priority ELSE moving
           Q == IF P \ paused # {} THEN P \ paused ELSE P
<1>1. P \in SUBSET Robots /\ P # {} /\ P \subseteq moving
  OBVIOUS
<1>2. Q \in SUBSET Robots /\ Q # {} /\ Q \subseteq P
  <2> HIDE DEF P
  <2> QED BY <1>1
<1>3. PICK r \in Q : \A s \in Q :
        lengths[r] < lengths[s] \/ (lengths[r] = lengths[s] /\ s <= r)
  <2> HIDE DEF Q
  <2> QED BY <1>2, Nearest
<1>4. ASSUME NEW s \in moving, r # s PROVE ~Yields(lengths, paused, priority, r, s)
  <2>1. CASE (r \in priority) # (s \in priority)
    BY <2>1, <1>2 DEF Yields
  <2>2. CASE ~((r \in priority) # (s \in priority))
    <3>1. s \in P
      BY <2>2, <1>2, <1>1
    <3>2. CASE (r \in paused) # (s \in paused)
      BY <3>1, <3>2, <2>2 DEF Yields
    <3>3. CASE ~((r \in paused) # (s \in paused))
      <4>1. s \in Q
        BY <3>1, <3>3
      <4>2. r \in Int /\ s \in Int /\ lengths[r] \in Nat /\ lengths[s] \in Nat
        <5>1. r \in Robots /\ s \in Robots
          BY <1>1, <1>2
        <5> QED BY <5>1 DEF Robots
      <4>3. ~(lengths[r] > lengths[s] \/ (lengths[r] = lengths[s] /\ r < s))
        <5> HIDE DEF Q
        <5> QED BY <4>1, <4>2, <1>3
      <4> QED BY <4>3, <2>2, <3>3 DEF Yields
    <3> QED BY <3>2, <3>3
  <2> QED BY <2>1, <2>2
<1>5. r \in moving /\ (moving \cap priority # {} => r \in priority)
  BY <1>1, <1>2
<1>6. r \notin RobotsToPause(moving, gaps, lengths, paused, priority)
  <2> HIDE DEF Q
  <2> QED BY <1>4 DEF RobotsToPause, InConflict
<1> QED BY <1>5, <1>6

\* One of those with priority is among them.
LEMMA PreferredIsFree ==
  ASSUME NumRobots \in Nat,
         NEW moving \in SUBSET Robots, NEW priority, moving \cap priority # {},
         NEW gaps, NEW lengths \in [Robots -> Nat], NEW paused
  PROVE  \E r \in moving :
           r \in priority /\ r \notin RobotsToPause(moving, gaps, lengths, paused, priority)
<1>1. moving # {}
  OBVIOUS
<1>2. PICK r \in moving :
        /\ r \notin RobotsToPause(moving, gaps, lengths, paused, priority)
        /\ moving \cap priority # {} => r \in priority
  BY <1>1, SomeoneIsFree
<1> QED BY <1>2

\* Of two robots in conflict one has to make way, and only one of the two
\* because of the other.
LEMMA OneOfTwoYields ==
  ASSUME NumRobots \in Nat, NEW r \in Robots, NEW s \in Robots, r # s,
         NEW lengths \in [Robots -> Nat], NEW paused, NEW priority
  PROVE  /\ \/ Yields(lengths, paused, priority, r, s)
            \/ Yields(lengths, paused, priority, s, r)
         /\ ~(/\ Yields(lengths, paused, priority, r, s)
              /\ Yields(lengths, paused, priority, s, r))
<1>1. r \in Int /\ s \in Int /\ lengths[r] \in Nat /\ lengths[s] \in Nat
  BY DEF Robots
<1>2. (lengths[r] > lengths[s] \/ (lengths[r] = lengths[s] /\ r < s))
      # (lengths[s] > lengths[r] \/ (lengths[s] = lengths[r] /\ s < r))
  BY <1>1
<1>3. CASE (r \in priority) # (s \in priority)
  BY <1>3 DEF Yields
<1>4. CASE ~((r \in priority) # (s \in priority)) /\ (r \in paused) # (s \in paused)
  BY <1>4 DEF Yields
<1>5. CASE ~((r \in priority) # (s \in priority)) /\ ~((r \in paused) # (s \in paused))
  BY <1>5, <1>2 DEF Yields
<1> QED BY <1>3, <1>4, <1>5

-------------------------------------------------------------------------------
(* The manager.                                                            *)

\* The inductive invariant: only a robot with a watcher is counted as paused.
\* Without it a check would leave the count of a robot it does not look at.
FleetInv == TypeOK /\ PausedAreWatched

USE DEF Robots, NotPaused, Paused

LEMMA FleetInit == Init => FleetInv
  BY NavigationAssumption DEF Init, FleetInv, TypeOK, PausedAreWatched, Gaps, TooLong

LEMMA FleetNext == FleetInv /\ [Next]_vars => FleetInv'
<1> SUFFICES ASSUME FleetInv, [Next]_vars PROVE FleetInv'
  OBVIOUS
<1> USE NavigationAssumption DEF FleetInv, TypeOK, PausedAreWatched
<1> TooLong \in Nat
  BY DEF TooLong
<1>1. CASE Drive
  <2>1. PICK r \in Robots, s \in Robots, g \in Gaps :
          /\ r < s
          /\ gap' = [gap EXCEPT ![r][s] = g, ![s][r] = g]
          /\ UNCHANGED <<heard, seen, length, watched, waited, stood>>
    BY <1>1 DEF Drive
  <2>2. r # s
    BY <2>1 DEF Robots
  <2>3. /\ gap' \in [Robots -> [Robots -> Gaps]]
        /\ \A p, q \in Robots : gap'[p][q] = gap'[q][p]
    BY <2>1, <2>2
  <2> QED BY <2>1, <2>3
<1>2. CASE Replan
  BY <1>2, SMTT(30) DEF Replan
<1>3. CASE ViewChanges
  BY <1>3 DEF ViewChanges
<1>4. CASE HeartbeatChanges
  BY <1>4 DEF HeartbeatChanges
<1>5. CASE Reconcile
  BY <1>5 DEF Reconcile
<1>6. CASE CheckConflicts
  <2>1. \A r \in Paused :
          waited[r] \in Nat /\ (r \notin Priority => waited[r] < MaxPause)
    BY DEF Priority
  <2>2. waited' \in [Robots -> {NotPaused} \cup 0..MaxPause]
    BY <1>6, <2>1 DEF CheckConflicts
  <2>3. \A r \in Robots : r \notin watched => waited'[r] = NotPaused
    BY <1>6 DEF CheckConflicts
  <2>4. stood' \in [Robots -> 0..TooLong]
    <3>1. \A r \in Robots : stood[r] \in 0..TooLong
      OBVIOUS
    <3>2. Count
      BY <1>6 DEF CheckConflicts
    <3> HIDE DEF FleetInv, TypeOK, PausedAreWatched
    <3> QED BY <3>1, <3>2 DEF Count
  <2>5. UNCHANGED <<heard, seen, gap, length, watched>>
    BY <1>6 DEF CheckConflicts, scene
  <2>6. TypeOK'
    BY <2>2, <2>4, <2>5
  <2>7. PausedAreWatched'
    <3> HIDE DEF FleetInv, TypeOK
    <3> QED BY <2>3, <2>5 DEF Paused
  <2> QED BY <2>6, <2>7
<1>7. CASE UNCHANGED vars
  BY <1>7 DEF vars, scene
<1> QED BY <1>1, <1>2, <1>3, <1>4, <1>5, <1>6, <1>7 DEF Next

LEMMA FleetInvariance == Spec => []FleetInv
<1> QED BY FleetInit, FleetNext, PTL DEF Spec

\* Every variable keeps its type: a robot that is out of sight of the watchers is
\* never judged, and no pause is counted past max_pause_sec.
THEOREM FleetTypeCorrect == Spec => []TypeOK
<1>1. FleetInv => TypeOK BY DEF FleetInv
<1> QED BY <1>1, FleetInvariance, PTL

\* The manager can resume every robot it counts as paused.
THEOREM PausedRobotsAreWatched == Spec => []PausedAreWatched
<1>1. FleetInv => PausedAreWatched BY DEF FleetInv
<1> QED BY <1>1, FleetInvariance, PTL

\* What a check decides about a robot in sight.
LEMMA Decision ==
  ASSUME FleetInv, CheckConflicts, NEW r \in seen
  PROVE  waited'[r] = NotPaused <=> r \notin ToPause
<1>1. r \in Robots /\ r \in watched
  BY DEF FleetInv, TypeOK
<1>2. r \in Paused => waited[r] \in Nat
  BY <1>1 DEF FleetInv, TypeOK
<1> QED BY <1>1, <1>2, NavigationAssumption DEF CheckConflicts

\* However many robots are in sight, and in whatever conflicts, a check lets one
\* of them go on.
THEOREM SomeoneAlwaysMoves == Spec => SomeoneMoves
<1>1. ASSUME FleetInv, CheckConflicts, seen # {}
      PROVE  \E r \in seen : waited'[r] = NotPaused
  <2>1. seen \in SUBSET Robots /\ length \in [Robots -> Nat]
    BY <1>1 DEF FleetInv, TypeOK
  <2>2. \E r \in seen : r \notin ToPause
    <3>1. NumRobots \in Nat
      BY NavigationAssumption
    <3> HIDE DEF Paused
    <3> QED BY <1>1, <2>1, <3>1, SomeoneIsFree DEF ToPause
  <2> QED BY <1>1, <2>2, Decision
<1>2. FleetInv /\ [Next]_vars =>
        [CheckConflicts /\ seen # {}
           => \E r \in seen : waited'[r] = NotPaused]_vars
  BY <1>1
<1> QED BY <1>2, FleetInvariance, PTL DEF Spec, SomeoneMoves

\* However many robots are in sight, a check stops one of every two in conflict.
THEOREM PairsAlwaysKeepApart == Spec => PairsKeepApart
<1>1. ASSUME FleetInv, CheckConflicts, NEW r \in seen, NEW s \in seen,
             InConflict(gap, Paused, r, s)
      PROVE  waited'[r] # NotPaused \/ waited'[s] # NotPaused
  <2>1. r \in Robots /\ s \in Robots /\ length \in [Robots -> Nat]
    BY <1>1 DEF FleetInv, TypeOK
  <2>2. r # s /\ InConflict(gap, Paused, s, r)
    BY <1>1, <2>1 DEF InConflict, FleetInv, TypeOK
  <2>3. \/ Yields(length, Paused, Priority, r, s)
        \/ Yields(length, Paused, Priority, s, r)
    <3>1. NumRobots \in Nat
      BY NavigationAssumption
    <3> HIDE DEF Paused
    <3> QED BY <2>1, <2>2, <3>1, OneOfTwoYields
  <2>4. r \in ToPause \/ s \in ToPause
    BY <1>1, <2>2, <2>3 DEF ToPause, RobotsToPause
  <2> QED BY <1>1, <2>4, Decision
<1>2. FleetInv /\ [Next]_vars =>
        [CheckConflicts =>
           \A r, s \in seen : InConflict(gap, Paused, r, s) =>
             waited'[r] # NotPaused \/ waited'[s] # NotPaused]_vars
  BY <1>1
<1> QED BY <1>2, FleetInvariance, PTL DEF Spec, PairsKeepApart

\* With any number of robots near it, one that is paused goes on only when it has
\* waited too long or all the others have stopped too.
THEOREM ReleasesAlwaysHaveACause == Spec => ReleasesHaveACause
<1>1. ASSUME FleetInv, NEW r \in Paused \cap seen,
             CheckConflicts, waited'[r] = NotPaused,
             r \notin Priority,
             NEW s \in seen, s # r, gap[r][s] # "far"
      PROVE  s \in Paused
  <2>1. InConflict(gap, Paused, r, s)
    <3>1. r \in Robots /\ s \in Robots
      BY <1>1 DEF FleetInv, TypeOK
    <3>2. gap[r][s] \in Gaps
      <4>1. gap \in [Robots -> [Robots -> Gaps]]
        BY <1>1 DEF FleetInv, TypeOK
      <4> QED BY <3>1, <4>1
    <3> QED BY <1>1, <3>2 DEF InConflict, Gaps
  <2>2. ~Yields(length, Paused, Priority, r, s)
    BY <1>1, <2>1, Decision DEF ToPause, RobotsToPause
  <2> QED BY <1>1, <2>2 DEF Yields, Priority
<1>2. FleetInv /\ [Next]_vars =>
        [\A r \in Paused \cap seen : CheckConflicts /\ waited'[r] = NotPaused =>
           \/ r \in Priority
           \/ \A s \in seen : s # r /\ gap[r][s] # "far" => s \in Paused]_vars
  BY <1>1
<1> QED BY <1>2, FleetInvariance, PTL DEF Spec, ReleasesHaveACause

-------------------------------------------------------------------------------
(* Everybody's turn.                                                       *)

\* How long a robot has stood tells how long currently_paused_ says it has.
StoodInv ==
  \A r \in Robots :
    IF r \in Paused
    THEN waited[r] = IF stood[r] < MaxPause THEN stood[r] ELSE MaxPause
    ELSE stood[r] = 0

\* The robots but r that went on at most n + 1 checks ago, as their waiting shows.
WentOn(r, n) == {s \in Robots \ {r} : waited[s] <= n}

\* A robot passed over k times since it has priority has seen k others go on, none of
\* them twice: each had priority then, and waits for less than MaxPause since.
OvertakenInv ==
  FewRobots =>
    \A r \in Robots : stood[r] > MaxPause =>
      Cardinality(WentOn(r, stood[r] - MaxPause - 2)) >= stood[r] - MaxPause

TurnInv == FleetInv /\ StoodInv /\ OvertakenInv

\* There are so many others, and no more.
LEMMA OthersAreFinite ==
  ASSUME NEW r \in Robots, NEW n
  PROVE  /\ IsFiniteSet(WentOn(r, n)) /\ Cardinality(WentOn(r, n)) \in Nat
         /\ Cardinality(WentOn(r, n)) <= NumRobots - 1
<1>1. NumRobots \in Nat /\ r \in 1..NumRobots
  BY NavigationAssumption
<1>2. IsFiniteSet(1..NumRobots) /\ Cardinality(1..NumRobots) = NumRobots
  BY <1>1, FS_Interval
<1>3. /\ IsFiniteSet((1..NumRobots) \ {r})
      /\ Cardinality((1..NumRobots) \ {r}) = NumRobots - 1
  BY <1>1, <1>2, FS_RemoveElement
<1>4. WentOn(r, n) \subseteq (1..NumRobots) \ {r}
  BY DEF WentOn
<1> QED BY <1>3, <1>4, FS_Subset, FS_CardinalityType

\* Who may still be passed over: at most one time for each of the others.
LEMMA PassedOverSeldom ==
  ASSUME TurnInv, FewRobots, NEW r \in Robots
  PROVE  stood[r] <= MaxPause + NumRobots - 1
<1>1. /\ NumRobots \in Nat \ {0} /\ MaxPause \in Nat /\ stood[r] \in Nat
  BY NavigationAssumption DEF TurnInv, FleetInv, TypeOK, TooLong
<1>2. CASE stood[r] > MaxPause
  BY <1>1, <1>2, OthersAreFinite DEF TurnInv, OvertakenInv
<1>3. CASE ~(stood[r] > MaxPause)
  BY <1>1, <1>3
<1> QED BY <1>2, <1>3

\* A check adds at most one to what a robot has waited, and starts it anew when it
\* goes on.
LEMMA CheckWaits ==
  ASSUME FleetInv, CheckConflicts, NEW s \in Robots
  PROVE  /\ waited'[s] \in Int /\ waited[s] \in Int
         /\ waited'[s] <= waited[s] + 1
<1>1. /\ waited[s] \in {NotPaused} \cup 0..MaxPause /\ MaxPause \in Nat
      /\ s \in Paused => waited[s] \in Nat
      /\ s \in Priority => waited[s] = MaxPause
  BY NavigationAssumption DEF FleetInv, TypeOK, Priority
<1>2. waited'[s] = IF s \notin watched THEN waited[s]
                   ELSE IF s \notin ToPause THEN NotPaused
                   ELSE IF s \notin Paused THEN 0
                   ELSE IF s \in Priority THEN MaxPause ELSE waited[s] + 1
  BY DEF CheckConflicts
<1> QED BY <1>1, <1>2

\* What a check does to a robot that stays paused: it stood one check more, and if
\* it had priority another one with priority went on.
LEMMA CheckPassesOver ==
  ASSUME TurnInv, CheckConflicts, NEW r \in Paused, waited'[r] # NotPaused
  PROVE  /\ r \in ToPause
         /\ waited'[r] = IF r \in Priority THEN MaxPause ELSE waited[r] + 1
         /\ r \in Priority =>
              \E m \in Robots \ {r} : waited[m] = MaxPause /\ waited'[m] = NotPaused
<1>1. r \in Robots /\ r \in watched
  BY DEF TurnInv, FleetInv, PausedAreWatched
<1>2. r \in ToPause /\ waited'[r] = IF r \in Priority THEN MaxPause ELSE waited[r] + 1
  BY <1>1 DEF CheckConflicts
<1>3. ASSUME r \in Priority
      PROVE  \E m \in Robots \ {r} : waited[m] = MaxPause /\ waited'[m] = NotPaused
  <2>1. r \in seen /\ seen \in SUBSET Robots /\ length \in [Robots -> Nat]
    BY <1>2 DEF ToPause, RobotsToPause, TurnInv, FleetInv, TypeOK
  <2>2. seen \cap Priority # {} /\ seen # {}
    BY <1>3, <2>1
  <2>3. PICK m \in seen : m \notin ToPause /\ m \in Priority
    <3>1. NumRobots \in Nat
      BY NavigationAssumption
    <3> HIDE DEF Paused
    <3> QED BY <2>1, <2>2, <3>1, PreferredIsFree DEF ToPause
  <2>4. m # r /\ m \in Robots /\ waited[m] = MaxPause
    BY <1>2, <2>1, <2>3, NavigationAssumption DEF Priority, TurnInv, FleetInv, TypeOK
  <2>5. waited'[m] = NotPaused
    BY <2>3, Decision DEF TurnInv
  <2> QED BY <2>4, <2>5
<1> QED BY <1>2, <1>3

\* A check keeps the count of how long each has stood.
LEMMA CheckCounts ==
  ASSUME TurnInv, CheckConflicts
  PROVE  StoodInv'
<1> SUFFICES ASSUME NEW r \in Robots
             PROVE  IF waited'[r] # NotPaused
                    THEN waited'[r] = IF stood'[r] < MaxPause THEN stood'[r] ELSE MaxPause
                    ELSE stood'[r] = 0
  BY DEF StoodInv
<1>1. stood'[r] = IF waited[r] = NotPaused \/ waited'[r] = NotPaused THEN 0
                  ELSE IF stood[r] < TooLong THEN stood[r] + 1 ELSE TooLong
  BY DEF CheckConflicts, Count
<1>2. /\ MaxPause \in Nat /\ NumRobots \in Nat \ {0} /\ stood[r] \in 0..TooLong
      /\ waited[r] \in {NotPaused} \cup 0..MaxPause
  BY NavigationAssumption DEF TurnInv, FleetInv, TypeOK
<1>3. CASE waited[r] = NotPaused /\ waited'[r] # NotPaused
  <2>1. waited'[r] = 0
    BY <1>3 DEF CheckConflicts
  <2> QED BY <1>1, <1>2, <1>3, <2>1
<1>4. CASE waited[r] # NotPaused /\ waited'[r] # NotPaused
  <2>1. waited'[r] = IF waited[r] >= MaxPause THEN MaxPause ELSE waited[r] + 1
    BY <1>4, CheckPassesOver DEF Priority
  <2>2. waited[r] = IF stood[r] < MaxPause THEN stood[r] ELSE MaxPause
    BY <1>4 DEF TurnInv, StoodInv
  <2> QED BY <1>1, <1>2, <1>4, <2>1, <2>2 DEF TooLong
<1> QED BY <1>1, <1>3, <1>4

\* Whoever is passed over once more sees one more go on.
LEMMA CheckLetsAnotherGo ==
  ASSUME TurnInv, CheckConflicts
  PROVE  OvertakenInv'
<1> SUFFICES ASSUME FewRobots, NEW r \in Robots, stood'[r] > MaxPause
             PROVE  Cardinality({s \in Robots \ {r} : waited'[s] <= stood'[r] - MaxPause - 2})
                      >= stood'[r] - MaxPause
  BY DEF OvertakenInv, WentOn, FewRobots
<1> DEFINE k == stood[r] - MaxPause
           before == WentOn(r, k - 2)
           after == {s \in Robots \ {r} : waited'[s] <= k - 1}
<1>1. /\ MaxPause \in Nat /\ NumRobots \in Nat \ {0} /\ stood[r] \in 0..TooLong
      /\ waited[r] \in {NotPaused} \cup 0..MaxPause
  BY NavigationAssumption DEF TurnInv, FleetInv, TypeOK
<1>2. stood'[r] = IF waited[r] = NotPaused \/ waited'[r] = NotPaused THEN 0
                  ELSE IF stood[r] < TooLong THEN stood[r] + 1 ELSE TooLong
  BY DEF CheckConflicts, Count
<1>3. stood[r] <= MaxPause + NumRobots - 1
  BY PassedOverSeldom
<1>4. /\ waited[r] # NotPaused /\ waited'[r] # NotPaused
      /\ stood'[r] = stood[r] + 1 /\ k \in Nat /\ k <= MaxPause + 1
  BY <1>1, <1>2, <1>3 DEF TooLong, FewRobots
<1>5. r \in Priority
  <2>1. waited[r] = MaxPause
    BY <1>1, <1>4 DEF TurnInv, StoodInv
  <2> QED BY <1>1, <1>4, <2>1 DEF Priority
<1>6. PICK m \in Robots \ {r} : waited[m] = MaxPause /\ waited'[m] = NotPaused
  BY <1>4, <1>5, CheckPassesOver
<1>7. m \notin before
  BY <1>1, <1>4, <1>6 DEF WentOn
<1>8. before \cup {m} \subseteq after
  <2>1. ASSUME NEW s \in before PROVE s \in after
    <3>1. s \in Robots \ {r} /\ waited[s] <= k - 2
      BY DEF WentOn
    <3>2. waited'[s] \in Int /\ waited[s] \in Int /\ waited'[s] <= waited[s] + 1
      BY <3>1, CheckWaits DEF TurnInv
    <3>3. waited'[s] <= k - 1
      BY <1>4, <3>1, <3>2
    <3> QED BY <3>1, <3>3
  <2>2. m \in after
    BY <1>4, <1>6
  <2> QED BY <2>1, <2>2
<1>9. IsFiniteSet(before) /\ Cardinality(before) \in Nat
  BY OthersAreFinite
<1>10. Cardinality(before) >= k
  BY <1>1, <1>4, <1>9 DEF TurnInv, OvertakenInv
<1>11. IsFiniteSet(after)
  <2>1. IsFiniteSet(1..NumRobots)
    BY <1>1, FS_Interval
  <2>2. after \subseteq 1..NumRobots
    OBVIOUS
  <2> QED BY <2>1, <2>2, FS_Subset
<1>12. Cardinality(after) >= k + 1
  <2> HIDE DEF before, after, k
  <2>1. IsFiniteSet(before \cup {m}) /\ Cardinality(before \cup {m}) = Cardinality(before) + 1
    BY <1>7, <1>9, FS_AddElement
  <2>2. Cardinality(before \cup {m}) <= Cardinality(after) /\ Cardinality(after) \in Nat
    BY <1>8, <1>11, <2>1, FS_Subset, FS_CardinalityType
  <2> QED BY <1>4, <1>9, <1>10, <2>1, <2>2
<1>13. stood'[r] - MaxPause - 2 = k - 1 /\ stood'[r] - MaxPause = k + 1
  BY <1>1, <1>4
<1> HIDE DEF k
<1> QED BY <1>12, <1>13

\* Dropping silent robots only makes more of them free.
LEMMA ReconcileKeepsTurns ==
  ASSUME TurnInv, Reconcile
  PROVE  StoodInv' /\ OvertakenInv'
<1>1. \A r \in Robots :
        \/ waited'[r] = NotPaused /\ stood'[r] = 0
        \/ waited'[r] = waited[r] /\ stood'[r] = stood[r]
  BY DEF Reconcile
<1>2. StoodInv'
  BY <1>1 DEF TurnInv, StoodInv
<1>3. ASSUME FewRobots, NEW r \in Robots, stood'[r] > MaxPause
      PROVE  Cardinality({s \in Robots \ {r} : waited'[s] <= stood'[r] - MaxPause - 2})
               >= stood'[r] - MaxPause
  <2>1. stood'[r] = stood[r] /\ MaxPause \in Nat /\ stood[r] \in Nat
    BY <1>1, <1>3, NavigationAssumption DEF TurnInv, FleetInv, TypeOK, TooLong
  <2> DEFINE n == stood[r] - MaxPause - 2
             after == {s \in Robots \ {r} : waited'[s] <= n}
  <2>2. Cardinality(WentOn(r, n)) >= stood[r] - MaxPause
    BY <1>3, <2>1 DEF TurnInv, OvertakenInv
  <2>3. WentOn(r, n) \subseteq after
    <3>1. n \in Int /\ n >= NotPaused
      BY <1>3, <2>1
    <3> HIDE DEF n
    <3> QED BY <1>1, <3>1 DEF WentOn
  <2>4. IsFiniteSet(after)
    <3>1. IsFiniteSet(1..NumRobots)
      BY NavigationAssumption, FS_Interval
    <3>2. after \subseteq 1..NumRobots
      OBVIOUS
    <3> QED BY <3>1, <3>2, FS_Subset
  <2>5. Cardinality(WentOn(r, n)) <= Cardinality(after) /\ Cardinality(after) \in Nat
    BY <2>3, <2>4, FS_Subset, FS_CardinalityType
  <2>6. Cardinality(WentOn(r, n)) \in Nat
    BY OthersAreFinite
  <2>7. {s \in Robots \ {r} : waited'[s] <= stood'[r] - MaxPause - 2} = after
    BY <2>1
  <2> HIDE DEF after, n
  <2>8. Cardinality(after) >= stood'[r] - MaxPause
    BY <2>1, <2>2, <2>5, <2>6
  <2> QED BY <2>7, <2>8, Zenon
<1> QED BY <1>2, <1>3 DEF OvertakenInv, FewRobots, WentOn

LEMMA TurnNext == TurnInv /\ [Next]_vars => TurnInv'
<1> SUFFICES ASSUME TurnInv, [Next]_vars PROVE TurnInv'
  OBVIOUS
<1>1. FleetInv'
  BY FleetNext DEF TurnInv
<1>2. ASSUME UNCHANGED <<waited, stood>> PROVE StoodInv' /\ OvertakenInv'
  <2>1. StoodInv'
    BY <1>2 DEF TurnInv, StoodInv
  <2>2. \A r \in Robots, n \in Int : WentOn(r, n)' = WentOn(r, n)
    BY <1>2 DEF WentOn
  <2>3. OvertakenInv'
    BY <1>2 DEF TurnInv, OvertakenInv, WentOn, FewRobots
  <2> QED BY <2>1, <2>3
<1>3. CASE Drive \/ Replan \/ ViewChanges \/ HeartbeatChanges \/ UNCHANGED vars
  BY <1>1, <1>2, <1>3 DEF Drive, Replan, ViewChanges, HeartbeatChanges, vars, TurnInv
<1>4. CASE Reconcile
  BY <1>1, <1>4, ReconcileKeepsTurns DEF TurnInv
<1>5. CASE CheckConflicts
  BY <1>1, <1>5, CheckCounts, CheckLetsAnotherGo DEF TurnInv
<1> QED BY <1>3, <1>4, <1>5 DEF Next

\* Whatever the robots do between the checks, in a fleet of at most MaxPause + 2 no
\* robot is passed over, once it has priority, more often than there are others.
THEOREM EverybodysTurnComes == Spec => []TurnsCome
<1>1. Init => TurnInv
  <2> SUFFICES ASSUME Init PROVE TurnInv
    OBVIOUS
  <2>1. \A r \in Robots : waited[r] = NotPaused /\ stood[r] = 0
    BY DEF Init
  <2>2. StoodInv /\ OvertakenInv
    BY <2>1, NavigationAssumption DEF StoodInv, OvertakenInv
  <2> QED BY <2>2, FleetInit DEF TurnInv
<1>2. TurnInv => TurnsCome
  <2> SUFFICES ASSUME TurnInv, FewRobots, NEW r \in Robots PROVE stood[r] < TooLong
    BY DEF TurnsCome
  <2>1. stood[r] \in Nat /\ MaxPause \in Nat /\ NumRobots \in Nat
    BY NavigationAssumption DEF TurnInv, FleetInv, TypeOK, TooLong
  <2> QED BY <2>1, PassedOverSeldom DEF TooLong
<1> QED BY <1>1, <1>2, TurnNext, PTL DEF Spec

===============================================================================
