------------------------------- MODULE Panels -------------------------------
(***************************************************************************)
(* The overlay panels and notifications of the game client                 *)
(* (game-client/src/ui_panels.rs).  In a frame the hotkeys send events and *)
(* the event handler applies the ones it can read, in an order of the two  *)
(* systems the schedule leaves open: a key takes effect in its frame or in *)
(* the next.                                                               *)
(***************************************************************************)
EXTENDS Integers, Sequences, Retain

CONSTANTS
  max_visible,       \* 5 in the code
  default_duration,  \* of a notification, in units of half a second (6 in the code)
  Durations,         \* the durations push_timed is called with
  MaxFrames, MaxNotices

VARIABLES
  open,           \* the panels whose flag is set
  active_panel,   \* the panel opened last, or NoPanel
  display,        \* the panels that are shown
  events,         \* panel events sent and not read yet
  notifications,  \* the queue, each with its remaining time
  frames, pushed, \* frames run and notifications pushed so far
  keyed,          \* what the keys pressed so far leave open
  deadline        \* notification |-> the frame by which its time is over

vars == <<open, active_panel, display, events, notifications, frames, pushed, keyed, deadline>>

PanelKind == {"Crafting", "QuestLog", "SkillTree", "Shop"}
NoPanel == "none"
CloseAll == "CloseAll"

\* setup_panels spawns the four panels hidden.
Init ==
  /\ open = {} /\ active_panel = NoPanel /\ display = {}
  /\ events = <<>> /\ notifications = <<>>
  /\ frames = 0 /\ pushed = 0 /\ keyed = {} /\ deadline = <<>>

TypeOK ==
  /\ open \subseteq PanelKind /\ display \subseteq PanelKind
  /\ active_panel \in PanelKind \cup {NoPanel}
  /\ events \in Seq(PanelKind \cup {CloseAll})
  /\ frames \in 0..MaxFrames /\ pushed \in 0..MaxNotices

\* Opens a panel and leaves the others.
ToggledAlone(panels, event) ==
  IF event = CloseAll THEN {}
  ELSE IF event \in panels THEN panels \ {event} ELSE panels \cup {event}

\* PanelStates::toggle and close_all: what is open after an event.
Toggled(panels, event) ==
  IF event = CloseAll \/ event \in panels THEN {} ELSE {event}

\* What is open after the events of a list, one after the other.
After(panels, list) ==
  LET after[n \in 0..Len(list)] ==
        IF n = 0 THEN panels ELSE Toggled(after[n - 1], list[n])
  IN  after[Len(list)]

\* handle_panel_events, with sync_panel_visibility after each event.
Handle(list) ==
  LET now == After(open, list)
  IN /\ open' = now
     /\ display' = IF list = <<>> THEN display ELSE now
     /\ active_panel' = IF list = <<>> THEN active_panel
                        ELSE IF now = {} THEN NoPanel
                        ELSE CHOOSE panel \in now : TRUE

\* update_notifications: a notification goes half a second after its time.
Aged(list) ==
  LET older == [i \in DOMAIN list |-> [list[i] EXCEPT !.remaining = @ - 1]] IN
  Kept(older, {i \in DOMAIN list : older[i].remaining > -1})

-----------------------------------------------------------------------------
\* A frame in which the hotkeys sent the events of `list`.
Frame(list, sent_first) ==
  /\ frames < MaxFrames
  /\ frames' = frames + 1
  /\ keyed' = After(keyed, list)
  /\ Handle(IF sent_first THEN events \o list ELSE events)
  /\ events' = IF sent_first THEN <<>> ELSE list
  /\ notifications' = Aged(notifications)
  /\ UNCHANGED <<pushed, deadline>>

Notice(duration) == [number |-> pushed + 1, remaining |-> duration]

\* The newest 2 * max_visible notifications.
Trimmed(list) == SubSeq(list, Len(list) - 2 * max_visible + 1, Len(list))

Push ==
  LET list == Append(notifications, Notice(default_duration))
  IN /\ pushed < MaxNotices
     /\ notifications' = IF Len(list) > 2 * max_visible THEN Trimmed(list) ELSE list
     /\ pushed' = pushed + 1
     /\ deadline' = Append(deadline, frames + default_duration)
     /\ UNCHANGED <<open, active_panel, display, events, frames, keyed>>

\* push_timed does not trim.
PushTimed(duration) ==
  /\ pushed < MaxNotices
  /\ notifications' = Append(notifications, Notice(duration))
  /\ pushed' = pushed + 1
  /\ deadline' = Append(deadline, frames + duration)
  /\ UNCHANGED <<open, active_panel, display, events, frames, keyed>>

\* The event of a key if it is among those just pressed.
Sent(event, down) == IF event \in down THEN <<event>> ELSE <<>>

\* handle_panel_hotkeys reads C, J, K, B and Escape in this order.
KeyPresses(down) ==
  Sent("Crafting", down) \o Sent("QuestLog", down) \o Sent("SkillTree", down)
  \o Sent("Shop", down) \o Sent(CloseAll, down)

Next ==
  \/ \E down \in SUBSET (PanelKind \cup {CloseAll}), sent_first \in BOOLEAN :
       Frame(KeyPresses(down), sent_first)
  \/ Push
  \/ \E duration \in Durations : PushTimed(duration)

Spec == Init /\ [][Next]_vars

-----------------------------------------------------------------------------
\* However the two systems are ordered in each frame, no key is lost or applied
\* out of turn: what is open is what the keys handled so far say; at most one
\* panel is open, it is the active one, and the panels shown are those that are
\* open.  A notification is dropped before its time only for newer ones that fill
\* the queue.
PanelsInStep ==
  /\ After(open, events) = keyed
  /\ display = open /\ Cardinality(open) <= 1
  /\ active_panel = IF open = {} THEN NoPanel ELSE CHOOSE panel \in open : TRUE
  /\ \A n \in 1..pushed :
       \/ \E i \in DOMAIN notifications : notifications[i].number = n
       \/ deadline[n] < frames
       \/ pushed - n >= 2 * max_visible
=============================================================================
