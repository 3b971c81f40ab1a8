----------------------------- MODULE TouchInput -----------------------------
(***************************************************************************)
(* Touch input of the game client (game-client/src/touch_input.rs): three  *)
(* systems that run once per frame, in an order the schedule leaves open,  *)
(* over the touches the engine reports.  Positions are points <<x, y>> in  *)
(* pixels, lengths are compared by their squares, times are in units of    *)
(* 50 ms.                                                                  *)
(***************************************************************************)
EXTENDS Integers, Sequences, Retain

CONSTANTS
  Finger,    \* touch ids
  Point,     \* positions on the screen
  Delta,     \* the time a frame may take
  MaxTime    \* bound on the time

VARIABLES
  now,        \* the time of the frame
  pressed,    \* the engine's touches: finger |-> its position, or Up
  touches,    \* GestureState.touches
  last_tap,   \* time and position of the last tap
  prev_pinch, \* the square of the previous pinch distance, or NoPinch
  joystick,   \* whether it is active, its origin, and whether it deflects
  told,       \* finger |-> the gestures of its present touch (if lost, of the one before)
  cancelled,  \* the fingers whose touch the system ever cancelled
  lost        \* the fingers that are down since they were lifted and pressed in one frame

vars == <<now, pressed, touches, last_tap, prev_pinch, joystick, told, cancelled,
          lost>>

Up == <<-1, -1>>
NoPinch == -1
LongAgo == -20      \* last_tap_time = -1.0

\* TouchConfig::default.
tap_threshold == 5
double_tap_window == 6
long_press_threshold == 10
swipe_time == 10
joystick_dead_zone == 10
swipe_min_distance == 50
double_tap_distance == 30
half_width == 640

Length2(p, q) == (p[1] - q[1]) * (p[1] - q[1]) + (p[2] - q[2]) * (p[2] - q[2])
Within(p, q, distance) == Length2(p, q) < distance * distance
Down == {f \in Finger : pressed[f] # Up}

TouchPoint(f, p, t) ==
  [id |-> f, start_pos |-> p, current_pos |-> p, start_time |-> t, consumed |-> FALSE]

Init ==
  /\ now = 0
  /\ pressed = [f \in Finger |-> Up]
  /\ touches = <<>>
  /\ last_tap = [time |-> LongAgo, pos |-> <<0, 0>>]
  /\ prev_pinch = NoPinch
  /\ joystick = [active |-> FALSE, origin |-> <<0, 0>>, moving |-> FALSE]
  /\ told = [f \in Finger |-> <<>>]
  /\ cancelled = {}
  /\ lost = {}

TypeOK ==
  /\ now \in 0..MaxTime
  /\ pressed \in [Finger -> Point \cup {Up}]
  /\ prev_pinch \in Int
  /\ \A i \in DOMAIN touches : touches[i].id \in Finger

-----------------------------------------------------------------------------
\* What the engine reports of a finger in a frame.  One that goes down does not
\* move in that frame; at[f] is where the last report of f puts it.
Reports(f) ==
  IF f \in Down THEN {"still", "moved", "released", "cancelled", "repressed"}
  ELSE {"still", "pressed", "tapped"}

\* iter_just_pressed and iter_just_released: a finger may be in both, lifted and
\* pressed again, or pressed and lifted again.  A cancelled touch is in neither.
Began(ev) == {f \in Finger : ev[f] \in {"pressed", "tapped", "repressed"}}
Ended(ev) == {f \in Finger : ev[f] \in {"released", "tapped", "repressed"}}

\* The engine's touches after the frame, and where a lifted one was last.
Positions(ev, at) ==
  [f \in Finger |-> CASE ev[f] \in {"pressed", "moved", "repressed"} -> at[f]
                      [] ev[f] = "still" -> pressed[f]
                      [] OTHER -> Up]
LiftedAt(ev, at, f) == IF ev[f] = "repressed" THEN pressed[f] ELSE at[f]

\* The orders in which a hash map may list its keys.
Listings(S) ==
  {s \in [1..Cardinality(S) -> S] :
     /\ \A i, j \in DOMAIN s : s[i] = s[j] => i = j
     /\ \A f \in S : \E i \in DOMAIN s : s[i] = f}

\* process_touch_input: the new touches go to the end, the first entry of every
\* finger that is down takes its position, and the entries of all lifted fingers
\* go, also that of a finger pressed again.
Pushed(list, at, fresh) ==
  list \o [k \in DOMAIN fresh |-> TouchPoint(fresh[k], at[fresh[k]], now)]

Moved(list, positions) ==
  [i \in DOMAIN list |->
     IF positions[list[i].id] # Up /\ \A j \in 1..i - 1 : list[j].id # list[i].id
     THEN [list[i] EXCEPT !.current_pos = positions[list[i].id]] ELSE list[i]]

Tracked(list, ev, at, fresh) ==
  LET moved == Moved(Pushed(list, at, fresh), Positions(ev, at))
  IN Kept(moved, {i \in DOMAIN moved : moved[i].id \notin Ended(ev)})

\* update_virtual_joystick: the first touch on the left half.  The engine's
\* touches are a hash map, so that any of those on the left may come first.
UpdateVirtualJoystick(positions) ==
  LET left == {p \in positions : p[1] < half_width}
  IN IF left = {}
     THEN joystick' = [joystick EXCEPT !.active = FALSE, !.moving = FALSE]
     ELSE \E p \in left :
            LET origin == IF joystick.active THEN joystick.origin ELSE p
            IN joystick' = [active |-> TRUE, origin |-> origin,
                            moving |-> ~Within(p, origin, joystick_dead_zone)]

\* detect_gestures, a lifted finger: a quick touch that stayed in place is a tap,
\* or the second of a double tap; one that went far enough is a swipe.
IsTap(list, f) ==
  \E i \in DOMAIN list :
    /\ list[i].id = f /\ now - list[i].start_time < tap_threshold
    /\ Within(list[i].current_pos, list[i].start_pos, swipe_min_distance)

IsDouble(p, tap) ==
  /\ now - tap.time < double_tap_window
  /\ Within(p, tap.pos, double_tap_distance)

IsSwipe(list, f) ==
  \E i \in DOMAIN list :
    /\ list[i].id = f /\ \A j \in 1..i - 1 : list[j].id # f
    /\ ~Within(list[i].current_pos, list[i].start_pos, swipe_min_distance)
    /\ now - list[i].start_time < swipe_time

Lifted(list, f, p, tap) ==
  (IF ~IsTap(list, f) THEN <<>> ELSE IF IsDouble(p, tap) THEN <<"QuickPickup">> ELSE <<"Interact">>)
  \o (IF IsSwipe(list, f) THEN <<"SwipeMenu">> ELSE <<>>)

LastTap(list, f, p, tap) ==
  IF ~IsTap(list, f) THEN tap
  ELSE IF IsDouble(p, tap) THEN [tap EXCEPT !.time = LongAgo]
  ELSE [time |-> now, pos |-> p]

\* The last tap before the first of the lifted fingers is looked at, and after
\* each of them.
Taps(list, ev, at, ended) ==
  LET tap[k \in 0..Len(ended)] ==
        IF k = 0 THEN last_tap
        ELSE LastTap(list, ended[k], LiftedAt(ev, at, ended[k]), tap[k - 1])
  IN tap

\* Forgets that a touch was told.
LongPressAgain(tp) ==
  /\ now - tp.start_time >= long_press_threshold
  /\ Within(tp.current_pos, tp.start_pos, joystick_dead_zone)

IsLongPress(tp) ==
  /\ ~tp.consumed
  /\ now - tp.start_time >= long_press_threshold
  /\ Within(tp.current_pos, tp.start_pos, joystick_dead_zone)

Consumed(list) ==
  [i \in DOMAIN list |-> [list[i] EXCEPT !.consumed = @ \/ IsLongPress(list[i])]]

\* Two tracked touches: the ratio to the previous distance, none when there was
\* no previous one, and not a number when both are zero.
Pinch(list) ==
  IF Len(list) = 2 THEN Length2(list[1].current_pos, list[2].current_pos) ELSE NoPinch

-----------------------------------------------------------------------------
\* What a lifted finger's touch became, and what each finger's touch became in
\* this frame (of the long presses the last one is sent, all are consumed).
Release(list, ev, at, ended, f) ==
  LET k == CHOOSE k \in DOMAIN ended : ended[k] = f
  IN Lifted(list, f, LiftedAt(ev, at, f), Taps(list, ev, at, ended)[k - 1])

Told(list, ev, at, ended) ==
  [g \in Finger |->
     (IF ev[g] \in {"pressed", "tapped"} THEN <<>> ELSE told[g])
     \o (IF g \in Ended(ev) THEN Release(list, ev, at, ended, g) ELSE <<>>)
     \o (IF \E i \in DOMAIN list : list[i].id = g /\ IsLongPress(list[i])
         THEN <<"ContextMenu">> ELSE <<>>)]

\* A frame: what the engine reports, and the systems.  process_touch_input and
\* detect_gestures both write GestureState, so one runs before the other, and
\* nothing in the plugin says which.
Frame(ev, at) ==
  /\ \E dt \in Delta : now + dt <= MaxTime /\ now' = now + dt
  /\ pressed' = Positions(ev, at)
  /\ cancelled' = cancelled \cup {f \in Finger : ev[f] = "cancelled"}
  /\ lost' = {f \in Finger : ev[f] = "repressed"} \cup {f \in lost : ev[f] \in {"still", "moved"}}
  /\ UpdateVirtualJoystick({pressed'[g] : g \in Finger} \ {Up})
  /\ \E processed_first \in BOOLEAN :
     \E fresh \in Listings(Began(ev)), ended \in Listings(Ended(ev)) :
       LET seen == IF processed_first THEN Tracked(touches, ev, at, fresh) ELSE touches
           after == Consumed(seen)
       IN /\ touches' = IF processed_first THEN after ELSE Tracked(after, ev, at, fresh)
          /\ told' = Told(seen, ev, at, ended)
          /\ last_tap' = Taps(seen, ev, at, ended)[Len(ended)]
          /\ prev_pinch' = Pinch(seen)

Next ==
  \E ev \in [Finger -> UNION {Reports(f) : f \in Finger}] :
    /\ \A f \in Finger : ev[f] \in Reports(f)
    /\ \E at \in [Finger -> Point \cup {Up}] :
         /\ \A f \in Finger : at[f] = Up <=> ev[f] \in {"still", "cancelled"}
         /\ Frame(ev, at)

Spec == Init /\ [][Next]_vars

-----------------------------------------------------------------------------
\* In whichever order the systems run, a touch that is never cancelled is at most
\* one gesture (a tap, a double tap, a swipe or a long press, told once); the
\* tracked touches are those of the fingers that are down, but for those lifted and
\* pressed again within a frame, and those of cancelled ones that nobody removes;
\* and the joystick is held by a finger on the left.
OneGesturePerTouch ==
  /\ \A f \in Finger \ cancelled :
       /\ Len(told[f]) <= 1
       /\ Cardinality({i \in DOMAIN touches : touches[i].id = f}) =
            IF f \in Down \ lost THEN 1 ELSE 0
  /\ \A i \in DOMAIN touches : touches[i].id \in Down \cup cancelled
  /\ joystick.active <=> \E f \in Down : pressed[f][1] < half_width

\* "Active touch points." (touch_input.rs:149): GestureState.touches has the touch
\* of every finger that is down.
ActiveTouchesTracked == \A f \in Down : \E i \in DOMAIN touches : touches[i].id = f
=============================================================================
