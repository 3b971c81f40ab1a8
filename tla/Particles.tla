----------------------------- MODULE Particles ------------------------------
(***************************************************************************)
(* Particle effects of the game client (game-client/src/particles.rs):     *)
(* bursts of sprites and floating numbers that live for a while, under a   *)
(* limit that is tested before each event.  Time is in units of 100 ms, a  *)
(* frame takes one unit.  Spawning and despawning take effect at the end   *)
(* of the frame, so that the order of the systems does not matter.         *)
(***************************************************************************)
EXTENDS Naturals, Sequences, FiniteSets, Functions

CONSTANTS
  max_particles,   \* 500 in the code
  Batches,         \* the sequences of events a frame may bring
  MaxFrames        \* bound on the frames that bring events

VARIABLES
  sprites,   \* lifetime left |-> number of particles
  numbers,   \* lifetime left |-> number of floating numbers
  unread,    \* events the reader has not come to
  frames,    \* frames that brought events
  quiet      \* frames since something was spawned

vars == <<sprites, numbers, unread, frames, quiet>>

Lifetime == 1..12
None == [l \in Lifetime |-> 0]
Add(f, g) == [l \in Lifetime |-> f[l] + g[l]]

\* ParticlePreset.
Spark == 4
RingExpand == 6
FloatUp == 10
Poof == 5

\* handle_particle_events, the sprites and the numbers of an event.
Sprites(event) ==
  CASE event = "AttackSpark" -> [None EXCEPT ![Spark] = 6]
    [] event = "LevelUp" -> [None EXCEPT ![RingExpand] = 12, ![FloatUp] = 8]
    [] event = "ItemPickup" -> [None EXCEPT ![FloatUp] = 4]
    [] event = "DeathPoof" -> [None EXCEPT ![Poof] = 8]
    [] event = "SpawnGlow" -> [None EXCEPT ![RingExpand] = 10]
    [] OTHER -> None

Numbers(event) ==
  CASE event = "DamageNumber" -> [None EXCEPT ![12] = 1]
    [] event = "HealNumber" -> [None EXCEPT ![10] = 1]
    [] OTHER -> None

LargestBurst == 20

\* What a list of events spawns, of one sort.
All(Of(_), list) == FoldFunction(Add, None, [i \in DOMAIN list |-> Of(list[i])])

Spawned(list) == SumFunction(All(Sprites, list)) + SumFunction(All(Numbers, list))

\* Tests the limit once per frame.
AdmittedAll(list) == IF SumFunction(sprites) < max_particles THEN Len(list) ELSE 0

\* The number of events handled: the limit is tested before each one, against the
\* particles (not the floating numbers) of the frames before and all that this
\* frame has spawned.
Admitted(list) ==
  LET fits(n) == \A i \in 1..n :
                   SumFunction(sprites) + Spawned(SubSeq(list, 1, i - 1)) < max_particles
  IN CHOOSE n \in 0..Len(list) : fits(n) /\ \A m \in n + 1..Len(list) : ~fits(m)

\* update_particles, update_damage_numbers: those whose time is over go.
Aged(f) == [l \in Lifetime |-> IF l + 1 \in Lifetime THEN f[l + 1] ELSE 0]

Init ==
  /\ sprites = None /\ numbers = None /\ unread = <<>>
  /\ frames = 0 /\ quiet = 0

TypeOK ==
  /\ sprites \in [Lifetime -> Nat] /\ numbers \in [Lifetime -> Nat]
  /\ frames \in 0..MaxFrames /\ quiet \in 0..13

-----------------------------------------------------------------------------
\* A frame that brings events.  The event that meets the limit has been read and
\* is lost; those behind it are read in the next frame, if the engine still has
\* them (external).
Frame(batch) ==
  LET list == unread \o batch
      n == Admitted(list)
      done == SubSeq(list, 1, n)
      rest == SubSeq(list, n + 2, Len(list))
  IN /\ batch = <<>> \/ frames < MaxFrames
     /\ frames' = IF batch = <<>> THEN frames ELSE frames + 1
     /\ sprites' = Add(Aged(sprites), All(Sprites, done))
     /\ numbers' = Add(Aged(numbers), All(Numbers, done))
     /\ unread' \in {rest, <<>>}
     /\ quiet' = IF n > 0 THEN 0 ELSE IF quiet < 13 THEN quiet + 1 ELSE quiet

\* With enabled = false the events are cleared and nothing is spawned.
Disabled ==
  /\ sprites' = Aged(sprites) /\ numbers' = Aged(numbers)
  /\ unread' = <<>>
  /\ quiet' = IF quiet < 13 THEN quiet + 1 ELSE quiet
  /\ UNCHANGED frames

Next == (\E batch \in Batches : Frame(batch)) \/ Disabled

Spec == Init /\ [][Next]_vars

-----------------------------------------------------------------------------
\* The limit is exceeded by less than one burst, whatever the events of a frame
\* and of those before; and everything spawned is gone again once nothing was
\* spawned for the longest lifetime.
ParticlesBounded ==
  /\ SumFunction(sprites) < max_particles + LargestBurst
  /\ quiet >= 12 => sprites = None /\ numbers = None
=============================================================================
