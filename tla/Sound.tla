------------------------------- MODULE Sound --------------------------------
(***************************************************************************)
(* The sound system of the game client (game-client/src/sound.rs): music   *)
(* with crossfades, the ambient sound, and sound effects that are queued   *)
(* at most once per cooldown.  Two systems per frame share the state, in   *)
(* an order the schedule leaves open: between two steps of the fade any    *)
(* number of requests for music is handled.  Time is in frames.            *)
(***************************************************************************)
EXTENDS Naturals, Sequences, SequencesExt, FiniteSets

CONSTANTS
  BgmTrack, AmbientSound, SfxId,
  sfx_cooldown,   \* frames between two of one effect (0.05 s in the code)
  FadeFrames,     \* frames of a crossfade (2 s in the code)
  MaxFrames

VARIABLES
  current_bgm, target_bgm, crossfading, crossfade_progress,
  current_ambient, recent_sfx, sfx_queue, now,
  asked,      \* the track asked for last
  overruled   \* the last request was for the track being faded out, and ignored

bgm == <<current_bgm, target_bgm, crossfading, crossfade_progress, asked, overruled>>
sfx == <<recent_sfx, sfx_queue>>
vars == <<bgm, sfx, current_ambient, now>>

Silence == "None"

Init ==
  /\ current_bgm = Silence /\ target_bgm = Silence
  /\ crossfading = FALSE /\ crossfade_progress = 0
  /\ current_ambient = Silence /\ recent_sfx = {} /\ sfx_queue = <<>>
  /\ now = 0 /\ asked = Silence /\ overruled = FALSE

TypeOK ==
  /\ current_bgm \in BgmTrack \cup {Silence} /\ target_bgm \in BgmTrack \cup {Silence}
  /\ crossfade_progress \in 0..FadeFrames
  /\ current_ambient \in AmbientSound \cup {Silence}
  /\ recent_sfx \subseteq SfxId \X (0..MaxFrames)

-----------------------------------------------------------------------------
\* The music after a request, as the handler sees it.
Music == [current |-> current_bgm, target |-> target_bgm, fading |-> crossfading,
          progress |-> crossfade_progress]

\* A request while another track plays restarts the fade; one for the track that
\* plays is ignored, also when that track is being faded out.
ChangeBgm(music, track) ==
  IF music.current = track THEN music
  ELSE [music EXCEPT !.target = track, !.fading = TRUE, !.progress = 0]

\* Leaves the fade where it is.
StopSilently(music) == [music EXCEPT !.target = Silence]

StopBgm(music) == [music EXCEPT !.target = Silence, !.fading = TRUE, !.progress = 0]

\* update_bgm_state.
Faded(music) ==
  IF ~music.fading THEN music
  ELSE IF music.progress + 1 < FadeFrames THEN [music EXCEPT !.progress = @ + 1]
  ELSE [music EXCEPT !.current = music.target, !.fading = FALSE, !.progress = 0]

Fresh == {r \in recent_sfx : now - r[2] < sfx_cooldown}

Heard(id) == \E r \in Fresh : r[1] = id

\* The effects of a frame (event_to_sfx_id), each queued unless it was heard.
Effects(ids) == {id \in ids : ~Heard(id)}

-----------------------------------------------------------------------------
\* The handler reads a request for music.
Ask(request) ==
  LET after == IF request = Silence THEN StopBgm(Music) ELSE ChangeBgm(Music, request)
  IN /\ current_bgm' = after.current /\ target_bgm' = after.target
     /\ crossfading' = after.fading /\ crossfade_progress' = after.progress
     /\ asked' = request
     /\ overruled' = (request # Silence /\ current_bgm = request /\ crossfading)
     /\ UNCHANGED <<sfx, current_ambient, now>>

ChangeAmbient(ambient) ==
  /\ current_ambient' = ambient
  /\ UNCHANGED <<bgm, sfx, now>>

\* A frame: the fade goes on, and the handler queues the effects it reads.
Frame(ids) ==
  LET after == Faded(Music)
  IN /\ now < MaxFrames /\ now' = now + 1
     /\ current_bgm' = after.current /\ target_bgm' = after.target
     /\ crossfading' = after.fading /\ crossfade_progress' = after.progress
     /\ recent_sfx' = Fresh \cup (Effects(ids) \X {now})
     /\ sfx_queue' = sfx_queue \o SetToSeq(Effects(ids) \X {now})
     /\ UNCHANGED <<current_ambient, asked, overruled>>

Next ==
  \/ \E request \in BgmTrack \cup {Silence} : Ask(request)
  \/ \E ambient \in AmbientSound \cup {Silence} : ChangeAmbient(ambient)
  \/ \E ids \in SUBSET SfxId : Frame(ids)

Spec == Init /\ [][Next]_vars

-----------------------------------------------------------------------------
\* When no fade is running the music is what was asked for last, unless that was
\* the track being faded out, which the handler ignores; while one runs it ends
\* there.  Two of one effect in the queue are at least a cooldown apart.
SoundSettles ==
  /\ overruled \/ asked = IF crossfading THEN target_bgm ELSE current_bgm
  /\ \A i, j \in DOMAIN sfx_queue :
       i < j /\ sfx_queue[i][1] = sfx_queue[j][1] => sfx_queue[j][2] - sfx_queue[i][2] >= sfx_cooldown
\* "Change background music track." (sound.rs:136): when no fade is running the music
\* is what was asked for last, and while one runs it ends there.
MusicIsAsked == asked = IF crossfading THEN target_bgm ELSE current_bgm
=============================================================================
