--------------------------- MODULE PlaybackLanes ---------------------------
(***************************************************************************)
(* The transport half of the playback reducer, music-domain/playback.rs:   *)
(* the ambient lane, the interrupt lane above it, their clocks and the     *)
(* position epoch.  Everything here is a function of a lane state `s` and, *)
(* where the code takes a ClockSample, of the monotonic time `now`; the    *)
(* owner of the state is module PlaybackActor.                             *)
(*                                                                         *)
(* A lane's position is a pair (pos, anchor): with an anchor the clock     *)
(* runs and the lane stands at pos + (now - anchor); without one it is     *)
(* frozen at pos.  A command that the code answers with "unchanged" maps   *)
(* to the same state.  Left out as data no property tells apart: the fade  *)
(* times of an interrupt, its duck level (kept as a flag), the source      *)
(* playlist of the queue and the last position report.                     *)
(***************************************************************************)
EXTENDS RustValues

CONSTANTS
  Tracks,        \* track ids, positive integers as in TrackId
  MaxPosition    \* MAX_POSITION_MS

ASSUME TracksAssumption == Tracks \subseteq Nat
ASSUME MaxPositionAssumption == MaxPosition \in Nat
LoopModes == {"off", "follow", "queue", "track"}

(* A clock anchor: a monotonic time, or None while the lane is frozen. *)
Anchors == Nat \cup {None}

Interrupts ==
  [track: Tracks, queue: Seq(Tracks), pos: Nat, anchor: Nat,
   returns: BOOLEAN, ducks: BOOLEAN]

ASSUME NoneAssumption == None \notin Nat /\ None \notin Interrupts

LaneStates ==
  [epoch: Nat, playing: BOOLEAN,
   track: Tracks \cup {None}, queue: Seq(Tracks), history: Seq(Tracks),
   pos: Nat, anchor: Anchors, loop: LoopModes, shuffle: BOOLEAN,
   interrupt: Interrupts \cup {None}]

DefaultLanes ==
  [epoch |-> 0, playing |-> FALSE,
   track |-> None, queue |-> <<>>, history |-> <<>>,
   pos |-> 0, anchor |-> None, loop |-> "off", shuffle |-> FALSE,
   interrupt |-> None]

-----------------------------------------------------------------------------
(* Clocks.                                                                 *)

(* Where a lane stands at time now. *)
PositionAt(pos, anchor, now) ==
  IF anchor # None /\ now > anchor
    THEN AtMost(pos + (now - anchor), MaxPosition)
    ELSE pos

MaterializeAmbient(s, now) ==
  [s EXCEPT !.pos = PositionAt(s.pos, s.anchor, now),
            !.anchor = IF s.anchor # None /\ now > s.anchor THEN now
                                                            ELSE s.anchor]

MutantFreezeInPlace(s, now) == [s EXCEPT !.anchor = None]

FreezeAmbient(s, now) == [MaterializeAmbient(s, now) EXCEPT !.anchor = None]

(* The ambient lane is heard when nothing covers it or what covers it only *)
(* ducks it.                                                               *)
Uncovered(s) == s.interrupt = None \/ s.interrupt.ducks

MutantAnchorWhenCovered(s, now) == IF s.playing THEN now ELSE None

AmbientAnchor(s, now) == IF s.playing /\ Uncovered(s) THEN now ELSE None

Bump(s) == [s EXCEPT !.epoch = @ + 1]

-----------------------------------------------------------------------------
(* The ambient lane.                                                       *)

SetPlaying(s, playing, now) ==
  IF s.playing = playing THEN s
  ELSE IF playing
    THEN LET p == [s EXCEPT !.playing = TRUE]
         IN  [p EXCEPT !.anchor = IF s.track # None THEN AmbientAnchor(p, now)
                                                    ELSE s.anchor]
    ELSE [FreezeAmbient(s, now) EXCEPT !.playing = FALSE]

(* A deliberate move: another track or the same one from the start. *)
StartTrack(s, track, queue, history, anchor) ==
  Bump([s EXCEPT !.track = track, !.queue = queue, !.history = history,
                 !.pos = 0, !.anchor = anchor])

AmbientPlayTrack(s, track, now) ==
  LET p == [s EXCEPT !.playing = TRUE]
  IN  StartTrack(p, track, <<>>, <<>>, AmbientAnchor(p, now))

AmbientPlaySequence(s, tracks, start, now) ==
  IF tracks = <<>> THEN s
  ELSE LET p == [s EXCEPT !.playing = TRUE]
           i == AtMost(start, Len(tracks))
       IN  StartTrack(p, tracks[i], SubSeq(tracks, i + 1, Len(tracks)),
                      SubSeq(tracks, 1, i - 1), AmbientAnchor(p, now))

AmbientSetQueue(s, tracks) == [s EXCEPT !.queue = tracks]

MutantPushNothing(s) == Append(s.history, s.track)

(* History with the current track pushed onto it. *)
Past(s) == IF s.track = None THEN s.history ELSE Append(s.history, s.track)

AmbientJumpQueue(s, i, now) ==
  IF i > Len(s.queue) THEN s
  ELSE LET p == [s EXCEPT !.playing = TRUE]
       IN  StartTrack(p, s.queue[i], SubSeq(s.queue, i + 1, Len(s.queue)),
                      Past(s), AmbientAnchor(p, now))

AmbientEnqueue(s, track, i) ==
  [s EXCEPT !.queue = InsertAt(@, AtMost(i, Len(@) + 1), track)]

MutantUnguardedSkip(s, expected) == s.track = None /\ s.queue = <<>>

(* The id a client or the advancer saw ending is no longer current, or     *)
(* there is nothing to skip.                                               *)
SkipRefused(s, expected) ==
  \/ expected # None /\ s.track # expected
  \/ s.track = None /\ s.queue = <<>>

(* The anchor is taken before the move: skipping keeps a paused lane       *)
(* paused.  `choice` is the queue index of a shuffled advance.             *)
AmbientSkipNext(s, follow, expected, choice, now) ==
  LET anchor == AmbientAnchor(s, now)
      i == IF s.shuffle THEN choice ELSE 1
  IN  IF SkipRefused(s, expected) THEN s
      ELSE IF s.loop = "track" /\ s.track # None
        THEN StartTrack(s, s.track, s.queue, s.history, anchor)
      ELSE IF s.queue # <<>>
        THEN StartTrack(s, s.queue[i], RemoveAt(s.queue, i), Past(s), anchor)
      ELSE IF s.loop = "queue"
        THEN StartTrack(s, Head(Past(s)), Tail(Past(s)), <<>>, anchor)
      ELSE IF s.loop = "follow" /\ follow # None
        THEN StartTrack(s, follow, <<>>, Past(s), anchor)
      ELSE [StartTrack(s, None, <<>>, s.history, None)
              EXCEPT !.playing = FALSE]

AmbientSkipPrevious(s, now) ==
  IF s.history = <<>>
    THEN IF s.track = None THEN s
         ELSE StartTrack(s, s.track, s.queue, s.history, AmbientAnchor(s, now))
    ELSE StartTrack(s, Last(s.history),
                    IF s.track = None THEN s.queue ELSE <<s.track>> \o s.queue,
                    Front(s.history), AmbientAnchor(s, now))

AmbientSeek(s, p, now) ==
  IF s.track = None THEN s
  ELSE Bump([s EXCEPT !.pos = AtMost(p, MaxPosition),
                      !.anchor = AmbientAnchor(s, now)])

AmbientStop(s) ==
  IF s.track = None /\ s.queue = <<>> /\ s.history = <<>> /\ s.pos = 0 THEN s
  ELSE StartTrack(s, None, <<>>, <<>>, None)

-----------------------------------------------------------------------------
(* The interrupt lane.                                                     *)

FireInterrupt(s, tracks, returns, ducks, now) ==
  IF tracks = <<>> THEN s
  ELSE Bump([(IF ducks THEN s ELSE FreezeAmbient(s, now)) EXCEPT
               !.playing = TRUE,
               !.interrupt = [track |-> Head(tracks), queue |-> Tail(tracks),
                              pos |-> 0, anchor |-> now,
                              returns |-> returns, ducks |-> ducks]])

MutantNoResume(s, now) ==
  IF s.interrupt = None THEN s
  ELSE Bump([s EXCEPT !.interrupt = None,
                      !.playing = @ /\ s.interrupt.returns])

EndInterrupt(s, now) ==
  IF s.interrupt = None THEN s
  ELSE IF s.interrupt.returns
    THEN Bump([s EXCEPT
                 !.interrupt = None,
                 !.anchor = IF s.playing /\ s.track # None /\ @ = None
                              THEN now ELSE @])
    ELSE Bump([FreezeAmbient(s, now) EXCEPT !.interrupt = None,
                                            !.playing = FALSE])

InterruptSkipNext(s, expected, now) ==
  IF \/ s.interrupt = None
     \/ expected # None /\ s.interrupt.track # expected
    THEN s
  ELSE IF s.interrupt.queue = <<>> THEN EndInterrupt(s, now)
  ELSE Bump([s EXCEPT !.interrupt =
               [@ EXCEPT !.track = Head(s.interrupt.queue),
                         !.queue = Tail(s.interrupt.queue),
                         !.pos = 0, !.anchor = now]])

InterruptSeek(s, p, now) ==
  IF s.interrupt = None THEN s
  ELSE Bump([s EXCEPT !.interrupt = [@ EXCEPT !.pos = AtMost(p, MaxPosition),
                                              !.anchor = now]])

(* A drift correction by an output: it moves the lane that is heard on top *)
(* and never the epoch.                                                    *)
ReportPosition(s, p, now) ==
  IF s.interrupt # None
    THEN [s EXCEPT !.interrupt = [@ EXCEPT !.pos = AtMost(p, MaxPosition),
                                           !.anchor = now]]
    ELSE [s EXCEPT !.pos = AtMost(p, MaxPosition),
                   !.anchor = IF @ # None THEN now ELSE None]

(* The playlist part of a cue, started `at` milliseconds into its track. *)
CuePlaylist(s, tracks, start, at, now) ==
  LET p == AmbientPlaySequence(s, tracks, start, now)
  IN  IF at > 0 THEN [p EXCEPT !.pos = AtMost(at, MaxPosition),
                               !.anchor = AmbientAnchor(p, now)]
      ELSE p

-----------------------------------------------------------------------------
(* Catalog pruning and restart.                                            *)

PruneAmbient(s, known) ==
  LET kept == [s EXCEPT !.queue = Retain(@, known),
                        !.history = Retain(@, known)]
  IN  IF s.track # None /\ s.track \notin known
        THEN [kept EXCEPT !.track = None, !.pos = 0, !.anchor = None,
                          !.playing = FALSE]
        ELSE kept

(* An interrupt whose track is gone ends here, not through EndInterrupt:   *)
(* no epoch bump, and the ambient clock is anchored anew.                  *)
PruneInterrupt(s, known, now) ==
  IF s.interrupt = None THEN s
  ELSE IF s.interrupt.track \in known
    THEN [s EXCEPT !.interrupt =
            [@ EXCEPT !.queue = Retain(s.interrupt.queue, known)]]
    ELSE [s EXCEPT !.interrupt = None,
                   !.anchor = IF s.playing /\ s.track # None THEN now ELSE @]

PruneLanes(s, known, now) == PruneInterrupt(PruneAmbient(s, known), known, now)

(* What the durable document keeps of the lanes: positions materialized,   *)
(* no interrupt and no anchor.                                             *)
PersistedLanes(s, now) ==
  [FreezeAmbient(s, now) EXCEPT !.interrupt = None]

NormalizeForStartup(s) ==
  [s EXCEPT !.playing = FALSE, !.interrupt = None, !.anchor = None]

-----------------------------------------------------------------------------
(* What every lane state satisfies between two steps; module PlaybackActor *)
(* states it of the room's lanes.                                          *)

Clocked(s, now) ==
  /\ s.anchor # None => /\ s.playing
                        /\ s.track # None
                        /\ Uncovered(s)
                        /\ s.anchor <= now
  /\ s.interrupt # None => s.interrupt.anchor <= now

RunsWhenHeard(s) ==
  s.interrupt = None => (s.anchor # None <=> s.playing /\ s.track # None)
=============================================================================
