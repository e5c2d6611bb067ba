---------------------------- MODULE RoutesPublisher ----------------------------
(***************************************************************************)
(* RoutesPublisher (easyfleet_navigation_manager): the fleet's routes,     *)
(* edited in RViz through interactive markers while the robots use them.   *)
(* Every handler runs on the manager's executor, one at a time; between a  *)
(* click or a drag and its handler there is a queue, so what it was meant  *)
(* for may have changed.                                                   *)
(*                                                                         *)
(* A segment has one pose here, for its two endpoints. Its id is the       *)
(* number n of "route<n>", the names that new segments get.                *)
(***************************************************************************)
EXTENDS Integers, FiniteSets, Sequences, FiniteSetsExt

CONSTANTS
  Editors,     \* the RViz instances
  FirstIds,    \* the ids in the file as it is written by hand
  MaxSegments, \* how many segments there are at a time (a bound for TLC)
  MaxKeys,     \* how many segments there ever are (a bound for TLC)
  Poses,       \* the poses of endpoints
  MaxFailed,   \* how many segments have edits that were not saved (a bound for TLC)
  MaxInFlight  \* how long the queue of feedback gets (a bound for TLC)

ASSUME RoutesAssumption ==
  /\ FirstIds \subseteq Nat /\ IsFiniteSet(FirstIds)
  /\ MaxSegments \in Nat /\ MaxKeys \in Nat /\ MaxFailed \in Nat /\ MaxInFlight \in Nat

VARIABLES
  routes,         \* routes_: segments with their edit_mode
  next_route_id,  \* next_route_id_
  sent,           \* the last message on /global_routes
  file,           \* what is in the file at map_path_
  saving,         \* the segment whose edit was sent and is saved next, or NoKey
  failed,         \* segments edited when a save failed, and none succeeded since
                  \* (history)
  inbox,          \* feedback that is on its way
  drag,           \* the segment each editor is dragging, or NoSegment
  held,           \* segments dragged since they were last released (history)
  keys            \* how many segments there have been (history)

routes_vars == <<routes, next_route_id, sent, file, saving, failed, inbox, drag, held, keys>>

NoKey == 0
NoSegment == [id |-> 0, key |-> NoKey]

\* A segment has a key no other ever has, which the code knows nothing of.
Segment(id, key, pose) == [id |-> id, key |-> key, pose |-> pose, edit |-> FALSE]
Name(s) == [id |-> s.id, key |-> s.key]

\* edit_mode is neither sent nor saved.
Plain(segments) == {[id |-> s.id, key |-> s.key, pose |-> s.pose] : s \in segments}
Editable(plain) == {Segment(s.id, s.key, s.pose) : s \in plain}

\* recompute_next_route_id()
NextId(segments) == Max({s.id : s \in segments} \cup {-1}) + 1

\* The controls of a segment's markers, by the feedback they cause.
EndpointControls == {"add", "remove", "move", "release"}
Controls(s) == {"toggle"} \cup (IF s.edit THEN EndpointControls ELSE {})

\* What the editors see of the routes: the line and the arrows of each.
Drawn == Plain(routes)

RoutesInit ==
  /\ \E key \in [FirstIds -> 1..Cardinality(FirstIds)], pose \in [FirstIds -> Poses] :
       /\ \A i, j \in FirstIds : i < j => key[i] < key[j]
       /\ routes = {Segment(id, key[id], pose[id]) : id \in FirstIds}
  /\ keys = Cardinality(FirstIds)
  /\ next_route_id = NextId(routes)
  /\ sent = Plain(routes) /\ file = Plain(routes)
  /\ saving = NoKey /\ failed = {}
  /\ inbox = <<>>
  /\ drag = [e \in Editors |-> NoSegment]
  /\ held = {}

-------------------------------------------------------------------------------
(* The editors. They see the markers of the segments there are.            *)

Manager ==
  UNCHANGED <<routes, next_route_id, sent, file, saving, failed, held, keys>>

\* Nothing looks at the pose in a feedback before its handler: Handle chooses it.
Feedback(kind, s) ==
  /\ Len(inbox) < MaxInFlight
  /\ inbox' = Append(inbox, [kind |-> kind, id |-> s.id, key |-> s.key])

\* A click: the cube of a segment, or a button of an endpoint in edit mode.
Click(e, s) ==
  /\ drag[e] = NoSegment
  /\ \E kind \in Controls(s) \ {"move", "release"} : Feedback(kind, s)
  /\ UNCHANGED drag /\ Manager

\* An endpoint is dragged, one POSE_UPDATE at a time ...
Grab(e, s) ==
  /\ drag[e] = NoSegment /\ "move" \in Controls(s)
  /\ drag' = [drag EXCEPT ![e] = Name(s)]
  /\ Feedback("move", s)
  /\ Manager

Move(e) ==
  /\ drag[e] # NoSegment
  /\ Feedback("move", drag[e])
  /\ UNCHANGED drag /\ Manager

\* ... until the mouse is up, or RViz is closed.
LetGo(e) ==
  /\ drag[e] # NoSegment
  /\ drag' = [drag EXCEPT ![e] = NoSegment]
  /\ Feedback("release", drag[e]) \/ UNCHANGED inbox
  /\ Manager

-------------------------------------------------------------------------------
(* Plausible mistakes, each for the definition it is named after.          *)

\* Whoever drags tells the robots at once, and nobody else does.
Drag_NotSent(f, s, pose) ==
  /\ f.kind \in {"move", "release"}
  /\ routes' = (routes \ {s}) \cup {[s EXCEPT !.pose = pose]}
  /\ held' = IF f.kind = "move" THEN held \cup {s.key} ELSE held \ {s.key}
  /\ UNCHANGED <<next_route_id, keys, sent, file, saving, failed>>

\* The number after the last one there is.
FreshId_Recomputed == NextId(routes)

\* Only the segment that was edited is written, in the file as it is.
Save_EditOnly ==
  /\ saving # NoKey
  /\ saving' = NoKey
  /\ \/ /\ file' = {s \in file : s.key # saving} \cup {s \in sent : s.key = saving}
        /\ failed' = {}
     \/ failed' = failed \cup {saving} /\ UNCHANGED file
  /\ Cardinality(failed') <= MaxFailed
  /\ UNCHANGED <<routes, next_route_id, sent, inbox, drag, held, keys>>

-------------------------------------------------------------------------------
(* The handlers.                                                           *)

\* publish_routes_msg(), after an edit of the segment with that key: the handler
\* has save_routes() still to call.
Publish(segments, key) ==
  /\ sent' = Plain(segments)
  /\ saving' = key
  /\ UNCHANGED <<file, failed>>

\* save_routes(), the rest of the handler: the whole map; or only a warning, or to
\* another file, when save_path_ is not map_path_.
Save ==
  /\ saving # NoKey
  /\ saving' = NoKey
  /\ \/ file' = Plain(routes) /\ failed' = {}
     \/ failed' = failed \cup {saving} /\ UNCHANGED file
  /\ Cardinality(failed') <= MaxFailed
  /\ UNCHANGED <<routes, next_route_id, sent, inbox, drag, held, keys>>

\* The id of a new segment.
FreshId == next_route_id

Toggle(f, s) ==
  /\ f.kind = "toggle"
  /\ routes' = (routes \ {s}) \cup {[s EXCEPT !.edit = ~@]}
  /\ UNCHANGED <<next_route_id, keys, sent, file, saving, failed, held>>

CanAdd == keys < MaxKeys /\ Cardinality(routes) < MaxSegments

AddSegment(f, pose) ==
  /\ f.kind = "add" /\ CanAdd
  /\ routes' = routes \cup {Segment(FreshId, keys + 1, pose)}
  /\ next_route_id' = next_route_id + 1 /\ keys' = keys + 1
  /\ Publish(routes', keys')
  /\ UNCHANGED held

RemoveSegment(f, s) ==
  /\ f.kind = "remove"
  /\ routes' = routes \ {s}
  /\ Publish(routes', s.key)
  /\ held' = held \ {s.key}
  /\ UNCHANGED <<next_route_id, keys>>

\* POSE_UPDATE: "only the drawn routes follow"; MOUSE_UP: the robots too.
Drag(f, s, pose) ==
  /\ f.kind \in {"move", "release"}
  /\ routes' = (routes \ {s}) \cup {[s EXCEPT !.pose = pose]}
  /\ IF f.kind = "release"
     THEN Publish(routes', s.key) /\ held' = held \ {s.key}
     ELSE held' = held \cup {s.key} /\ UNCHANGED <<sent, file, saving, failed>>
  /\ UNCHANGED <<next_route_id, keys>>

\* The marker server passes feedback on if the marker is still there.
HasMarker(f, s) == s.id = f.id /\ f.kind \in Controls(s)

Handle ==
  /\ saving = NoKey /\ inbox # <<>>
  /\ inbox' = Tail(inbox)
  /\ LET f == Head(inbox) IN
       \E s \in routes, pose \in Poses :
         /\ HasMarker(f, s)
         /\ \/ Toggle(f, s) \/ AddSegment(f, pose)
            \/ RemoveSegment(f, s) \/ Drag(f, s, pose)
  /\ UNCHANGED drag

\* It also rejects feedback about a marker that another editor has just used
\* (here: any feedback, if there are several editors).
Reject ==
  /\ saving = NoKey /\ inbox # <<>>
  /\ LET f == Head(inbox) IN
       \/ \A s \in routes : ~HasMarker(f, s)
       \/ Cardinality(Editors) > 1
       \/ f.kind = "add" /\ ~CanAdd
  /\ inbox' = Tail(inbox)
  /\ UNCHANGED drag /\ Manager

\* The manager is restarted, also with an edit sent and not saved: publish() loads
\* the map. The feedback on its way is lost, and RViz drops the markers and whatever
\* it was dragging.
Restart ==
  /\ routes' = Editable(file)
  /\ next_route_id' = NextId(routes')
  /\ sent' = file
  /\ saving' = NoKey
  /\ failed' = {} /\ inbox' = <<>> /\ held' = {}
  /\ drag' = [e \in Editors |-> NoSegment]
  /\ UNCHANGED <<file, keys>>

-------------------------------------------------------------------------------
EditorStep ==
  \E e \in Editors :
    Move(e) \/ LetGo(e) \/ \E s \in routes : Click(e, s) \/ Grab(e, s)

RoutesNext == EditorStep \/ Handle \/ Save \/ Reject \/ Restart

RoutesSpec == RoutesInit /\ [][RoutesNext]_routes_vars

-------------------------------------------------------------------------------
Keys == 1..keys

RoutesTypeOK ==
  /\ routes \subseteq [id : Nat, key : Keys, pose : Poses, edit : BOOLEAN]
  /\ next_route_id \in Nat /\ keys \in Nat
  /\ \A plain \in {sent, file} : plain \subseteq [id : Nat, key : Keys, pose : Poses]
  /\ saving \in Keys \cup {NoKey} /\ failed \subseteq Keys
  /\ \A i \in DOMAIN inbox :
       inbox[i] \in [kind : {"toggle"} \cup EndpointControls, id : Nat, key : Keys]
  /\ drag \in [Editors -> [id : Nat, key : Keys \cup {NoKey}]]
  /\ held \subseteq Keys

\* A click or a drag that comes late never hits another segment than the one it
\* was meant for.
EditsHitTheirSegment ==
  [][Handle => \A s \in routes \ routes' : s.key = Head(inbox).key]_routes_vars

\* "Robots get the new routes ... once the endpoint is released": the robots have
\* the routes that are drawn, but for endpoints that were dragged and not released.
RobotsFollowTheEdits ==
  /\ {s.key : s \in routes} = {s.key : s \in sent}
  /\ \A s \in Drawn : s \in sent \/ s.key \in held

\* "So edits made live in RViz survive a restart": whenever the manager is restarted,
\* it loads the routes that are drawn, but for the edit it has yet to save, edits
\* whose save failed and that no later save made up for, and endpoints dragged and
\* not released.
EditsSurvive ==
  \A s \in Drawn \cup file :
    s \in Drawn \cap file \/ s.key \in failed \cup held \cup {saving}

===============================================================================
