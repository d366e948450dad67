---------------------------- MODULE BrowserEngine ---------------------------
(***************************************************************************)
(* What a browser output makes audible (frontend/src/core/                 *)
(* playbackEngine.ts, driven by audioEngine.tsx), under the server's lanes *)
(* (module PlaybackLanes).                                                 *)
(*                                                                         *)
(* The engine has two ambient elements for crossfades, one element for     *)
(* interrupts and a duck gain over both ambient ones.  It applies the      *)
(* newest published state, skipping states between two of them; its fades  *)
(* run in animation frames and end later, when a callback of the engine    *)
(* may pause, unload or start an element; play() waits for a suspended     *)
(* audio context.  Time stands still: a position is where a deliberate     *)
(* move put the lane, and two positions differ by more than the engine's   *)
(* dead band.  The end of an ambient track is module EndOfTrack; states    *)
(* pruned by the catalog are left to PlaybackActor.                        *)
(***************************************************************************)
EXTENDS PlaybackLanes

CONSTANTS
  Ambients,        \* tracks played in the ambient lane
  InterruptLists,  \* queues of tracks interrupts are fired with
  EnginePositions,       \* positions of a seek
  Suspends,        \* TRUE: the audio context may wait for a user gesture
  Mixed,           \* TRUE: ducking and covering interrupts, FALSE: only covering ones
  EngineMaxEpoch,        \* bound: position_epoch
  MaxRequests      \* bound: requests in flight

ASSUME EngineAssumption ==
  /\ Ambients \subseteq Tracks /\ InterruptLists \subseteq Seq(Tracks)
  /\ EnginePositions \subseteq Nat /\ {Suspends, Mixed} \subseteq BOOLEAN

Slots == {"A", "B"}
Elements == Slots \cup {"I"}
Other(slot) == IF slot = "A" THEN "B" ELSE "A"

VARIABLES
  engineLanes,      \* the server's lanes
  engineServer,     \* whether this device is an output, and the fades of the room
  engine,     \* the PlaybackEngine
  engineSeen,       \* history: the state applied last, and what of the states was missed
  engineRequests    \* interrupt_skip_next in flight: the track named, the track that ended

engineVars == <<engineLanes, engineServer, engine, engineSeen, engineRequests>>

(* An element: what it is loaded with and where it stands, whether it      *)
(* plays, its gain and the fade in progress.                               *)
Unloaded == [url |-> None, at |-> 0, on |-> FALSE, over |-> FALSE, gain |-> "off", ramp |-> "none"]

EngineIdle ==
  [el |-> [x \in Elements |-> IF x = "A" THEN [Unloaded EXCEPT !.gain = "full"] ELSE Unloaded],
   slot |-> "A", duck |-> [gain |-> "full", ramp |-> "none"], ducking |-> FALSE,
   mine |-> FALSE, ambient |-> None, interrupt |-> None, playing |-> FALSE,
   epoch |-> None, fadeOut |-> FALSE, context |-> "running", waiting |-> {}]

EngineInit ==
  /\ engineLanes = DefaultLanes
  /\ engineServer \in [active : BOOLEAN, crossfade : BOOLEAN, fade : {FALSE}]
  /\ engine = [EngineIdle EXCEPT !.context = IF Suspends THEN "suspended" ELSE "running"]
  /\ engineSeen = [lanes |-> engineLanes, active |-> FALSE, missed |-> {}]
  /\ engineRequests = {}

-----------------------------------------------------------------------------
(* Elements.                                                               *)

(* play(), now or once the audio context has resumed. *)
SafePlay(e, x) ==
  IF e.el[x].url = None THEN e
  ELSE IF e.context # "running" THEN [e EXCEPT !.waiting = @ \cup {x}]
  ELSE [e EXCEPT !.el[x].on = TRUE, !.el[x].over = FALSE]

PauseAmbient(e) == [e EXCEPT !.el["A"].on = FALSE, !.el["B"].on = FALSE]

UnloadElement(e, x) ==
  [e EXCEPT !.el[x] = [@ EXCEPT !.url = None, !.at = 0, !.on = FALSE, !.over = FALSE]]

SetGainNow(e, x, gain) == [e EXCEPT !.el[x].gain = gain, !.el[x].ramp = "none"]

(* A new fade of an element supersedes the one in progress (rampToken). *)
RampGain(e, x, ramp) == [e EXCEPT !.el[x].gain = "part", !.el[x].ramp = ramp]

(* loadInto and positionElement: a loaded track is only repositioned. *)
LoadAt(e, x, track, at) ==
  [e EXCEPT !.el[x] = [@ EXCEPT !.url = track, !.at = at, !.on = FALSE, !.over = FALSE]]

-----------------------------------------------------------------------------
(* Lanes of the engine.                                                    *)


(* Another ambient track: faded in on the other element, or cut to on this one. *)
SwapAmbient(e, track, crossfade, at) ==
  LET x == e.slot
      o == Other(x)
      f == SafePlay(LoadAt(e, o, track, at), o)
      c == SetGainNow(SetGainNow(LoadAt(e, x, track, at), x, "full"), o, "off")
  IN  IF crossfade
      THEN [RampGain(RampGain(f, x, "out"), o, "in") EXCEPT !.slot = o]
      ELSE IF e.playing THEN SafePlay(c, x) ELSE c

StopAmbient(e) == UnloadElement(UnloadElement(e, "A"), "B")

ResumeAmbient(e) == IF e.interrupt # None THEN e ELSE SafePlay(e, e.slot)

RampDuck(e, gain, ramp, fade) ==
  [e EXCEPT !.duck = IF fade THEN [gain |-> "part", ramp |-> ramp]
                             ELSE [gain |-> gain, ramp |-> "none"]]

(* The interrupt element: positioned, faded in and played. *)
StartInterrupt(e, track, fade, at) ==
  LET l == IF e.el["I"].url = track THEN [e EXCEPT !.el["I"].at = at]
                                    ELSE LoadAt(e, "I", track, at)
      g == IF fade THEN RampGain(l, "I", "in") ELSE SetGainNow(l, "I", "full")
  IN  SafePlay(g, "I")

FadeOutInterrupt(e) == RampGain(e, "I", "out")

(* The interrupt element is unloaded and the ambient one plays again. *)
StopInterrupt(e) ==
  LET u == [UnloadElement(e, "I") EXCEPT !.el["I"].gain = "off"]
  IN  IF e.playing THEN SafePlay(u, e.slot) ELSE u

(* The output role is given up: nothing stays loaded, no duck stays. *)
ReleaseOutput(e) ==
  [UnloadElement(UnloadElement(UnloadElement(e, "A"), "B"), "I")
     EXCEPT !.el["I"].gain = "off", !.duck = [gain |-> "full", ramp |-> "none"],
            !.ducking = FALSE, !.epoch = None]

-----------------------------------------------------------------------------
(* applyState.                                                             *)

(* The interrupt lane changed its track. *)
ApplyInterrupt(e, s, fade) ==
  LET i == s.interrupt
      end(f) == IF e.ducking
                THEN [RampDuck(f, "full", "up", e.fadeOut) EXCEPT !.ducking = FALSE]
                ELSE f
      started == StartInterrupt(e, i.track, fade, i.pos)
  IN  IF i = None
      THEN [(IF e.fadeOut THEN end(FadeOutInterrupt(e)) ELSE end(StopInterrupt(e)))
              EXCEPT !.interrupt = None]
      ELSE [(IF i.ducks
             THEN [RampDuck(started, "low", "down", fade) EXCEPT !.ducking = TRUE]
             ELSE [PauseAmbient(started) EXCEPT !.ducking = FALSE])
              EXCEPT !.interrupt = i.track]

(* Without an interrupt the ambient lane follows the state. *)
ApplyAmbient(e, s, crossfade) ==
  LET cross == e.ambient # None /\ s.playing /\ crossfade
      swapped == IF s.track = e.ambient THEN e
                 ELSE [(IF s.track = None THEN StopAmbient(e)
                        ELSE SwapAmbient(e, s.track, cross, s.pos))
                         EXCEPT !.ambient = s.track]
  IN  IF s.playing = e.playing THEN swapped
      ELSE IF s.playing THEN ResumeAmbient(swapped) ELSE PauseAmbient(swapped)

(* shouldApplyEpochSeek: a new epoch moves the element, the first never. *)
ApplyEpochSeek(e, x, previous, epoch, at) ==
  IF previous \in {None, epoch} THEN e ELSE [e EXCEPT !.el[x].at = at]

(* The lane that was already playing before this state is seeked, and an   *)
(* ambient element that stands still is nudged.                            *)
ApplySeek(before, e, s) ==
  IF s.interrupt # None
  THEN IF s.interrupt.track = before.interrupt
       THEN ApplyEpochSeek(e, "I", before.epoch, s.epoch, s.interrupt.pos) ELSE e
  ELSE IF s.track = None \/ s.track # before.ambient THEN e
  ELSE LET f == ApplyEpochSeek(e, e.slot, before.epoch, s.epoch, s.pos)
       IN  IF s.playing /\ before.interrupt = None /\ ~f.el[f.slot].on
           THEN SafePlay(f, f.slot) ELSE f

EngineApplyState(e, s, mine, v) ==
  LET lost == IF e.mine THEN ReleaseOutput(e) ELSE e
      shown == IF s.interrupt = None THEN None ELSE s.interrupt.track
      i == [e EXCEPT !.fadeOut = IF s.interrupt # None THEN v.fade ELSE @]
      j == IF shown = e.interrupt THEN i ELSE ApplyInterrupt(i, s, v.fade)
      k == IF s.interrupt = None THEN ApplyAmbient(j, s, v.crossfade) ELSE j
  IN  IF ~mine
      THEN [lost EXCEPT !.mine = FALSE, !.ambient = None, !.interrupt = None,
                        !.playing = FALSE, !.epoch = None]
      ELSE [ApplySeek(e, k, s) EXCEPT !.mine = TRUE, !.playing = s.playing, !.epoch = s.epoch]

(* History: what of state s engine e leaves undone.  "duck": the interrupt  *)
(* was fired again with the same track and another level, which the engine *)
(* does not tell from the one it plays.  "quiet": the room was paused      *)
(* under an interrupt, which pauses no element, or play() ran late; until  *)
(* the ambient elements are paused.                                        *)
Missed(e, s, before) ==
  LET same == s.interrupt # None /\ s.interrupt.track = e.interrupt
      pauses == e.playing /\ ~s.playing
      quiets == IF s.interrupt = None THEN pauses ELSE ~same /\ ~s.interrupt.ducks
  IN  {m \in {"duck", "quiet"} :
         \/ m = "duck" /\ same /\ s.interrupt.ducks # e.ducking
         \/ m = "quiet" /\ ~quiets /\ ("quiet" \in before \/ pauses)}

(* The newest state reaches the engine. *)
EngineApply ==
  /\ engineSeen' = [lanes |-> engineLanes, active |-> engineServer.active,
                    missed |-> IF engineServer.active
                               THEN Missed(engine, engineLanes, engineSeen.missed) ELSE {}]
  /\ engine' = EngineApplyState(engine, engineLanes, engineServer.active, engineServer)
  /\ UNCHANGED <<engineLanes, engineServer, engineRequests>>

-----------------------------------------------------------------------------
(* Callbacks of the browser.                                               *)

(* The last frame of a fade of an element; the outgoing ambient element    *)
(* is paused, the outgoing interrupt stopped.                              *)
RampEnds(x) ==
  /\ engine.el[x].ramp # "none"
  /\ LET out == engine.el[x].ramp = "out"
         e == [engine EXCEPT !.el[x].ramp = "none", !.el[x].gain = IF out THEN "off" ELSE "full"]
     IN  engine' = IF ~out THEN e
                   ELSE IF x = "I" THEN StopInterrupt(e) ELSE [e EXCEPT !.el[x].on = FALSE]
  /\ UNCHANGED <<engineLanes, engineServer, engineSeen, engineRequests>>

DuckRampEnds ==
  /\ engine.duck.ramp # "none"
  /\ engine' = [engine EXCEPT !.duck = [gain |-> IF @.ramp = "up" THEN "full" ELSE "low",
                                        ramp |-> "none"]]
  /\ UNCHANGED <<engineLanes, engineServer, engineSeen, engineRequests>>

(* handleInterruptEnded: the element has played to its end. *)
InterruptEnds ==
  /\ engine.el["I"].on /\ Cardinality(engineRequests) < MaxRequests
  /\ LET e == [engine EXCEPT !.el["I"].on = FALSE, !.el["I"].over = TRUE]
     IN  engine' = IF e.fadeOut THEN FadeOutInterrupt(e) ELSE e
  /\ engineRequests' = engineRequests \cup {[from |-> engine.interrupt, ended |-> engine.el["I"].url]}
  /\ UNCHANGED <<engineLanes, engineServer, engineSeen>>

(* resume() settles and the waiting elements are played, whatever has been *)
(* asked of them since.                                                    *)
ContextResumes ==
  /\ engine.context = "suspended"
  /\ engine' = [engine EXCEPT
       !.context = "running", !.waiting = {},
       !.el = [x \in Elements |-> IF x \in engine.waiting /\ @[x].url # None
                                  THEN [@[x] EXCEPT !.on = TRUE] ELSE @[x]]]
  /\ engineSeen' = [engineSeen EXCEPT !.missed = IF engine.waiting = {} THEN @ ELSE @ \cup {"quiet"}]
  /\ UNCHANGED <<engineLanes, engineServer, engineRequests>>

-----------------------------------------------------------------------------
(* The server.                                                             *)

EngineServe(s) ==
  /\ s.epoch <= EngineMaxEpoch
  /\ engineLanes' = s
  /\ UNCHANGED <<engine, engineSeen, engineRequests>>

Transport ==
  /\ \/ \E t \in Ambients : EngineServe(AmbientPlayTrack(engineLanes, t, 0))
     \/ \E playing \in BOOLEAN : EngineServe(SetPlaying(engineLanes, playing, 0))
     \/ \E p \in EnginePositions : EngineServe(AmbientSeek(engineLanes, p, 0))
     \/ EngineServe(AmbientStop(engineLanes))
     \/ EngineServe(EndInterrupt(engineLanes, 0))
  /\ UNCHANGED engineServer

Fire ==
  \E tracks \in InterruptLists, returns \in BOOLEAN, fade \in BOOLEAN,
     ducks \in IF Mixed THEN BOOLEAN ELSE {FALSE} :
    /\ EngineServe(FireInterrupt(engineLanes, tracks, returns, ducks, 0))
    /\ engineServer' = [engineServer EXCEPT !.fade = fade]

(* The request of an output; None as the track asks for no check. *)
EngineDeliver ==
  \E r \in engineRequests :
    /\ engineLanes' = InterruptSkipNext(engineLanes, r.from, 0)
    /\ engineLanes'.epoch <= EngineMaxEpoch
    /\ engineRequests' = engineRequests \ {r}
    /\ UNCHANGED <<engineServer, engine, engineSeen>>

(* An operator switches this device on or off as an output. *)
SwitchOutput ==
  /\ engineServer' = [engineServer EXCEPT !.active = ~@]
  /\ UNCHANGED <<engineLanes, engine, engineSeen, engineRequests>>

EngineNext ==
  \/ EngineApply \/ (\E x \in Elements : RampEnds(x)) \/ DuckRampEnds
  \/ InterruptEnds \/ ContextResumes
  \/ Transport \/ Fire \/ EngineDeliver \/ SwitchOutput

EngineSpec == EngineInit /\ [][EngineNext]_engineVars

-----------------------------------------------------------------------------

(* Every variable has its type. *)
EngineTypeOK ==
  /\ engineLanes \in LaneStates
  /\ \A x \in Elements : /\ engine.el[x].url \in Tracks \cup {None}
                         /\ engine.el[x].gain \in {"off", "part", "full"}
                         /\ engine.el[x].ramp \in {"none", "in", "out"}
  /\ engine.slot \in Slots /\ engine.waiting \subseteq Elements
  /\ engine.ambient \in Tracks \cup {None} /\ engine.interrupt \in Tracks \cup {None}
  /\ engine.epoch \in Nat \cup {None}

(* Nothing is pending in the browser and the engine shows the newest state. *)
EngineSettled ==
  /\ \A x \in Elements : engine.el[x].ramp = "none"
  /\ engine.duck.ramp = "none" /\ engine.waiting = {}
  /\ engineSeen.lanes = engineLanes /\ engineSeen.active = engineServer.active

EngineAudible(x) == engine.el[x].on /\ engine.el[x].gain # "off"

(* A device that was switched off makes no sound, whatever fade was in progress and     *)
(* whatever play() was still waiting when its role went (releaseOutput).                 *)
ReleasedSilent == ~engine.mine => \A x \in Elements : ~engine.el[x].on

(* Once fades are over, an output of a playing room plays exactly the room's track, on    *)
(* its current element, at full gain, unducked and at the room's position: through        *)
(* crossfades cut short by the next one, interrupts that replace or end each other in any *)
(* order, pauses and role changes in between (swapAmbient, stopInterrupt, unduckAmbient,  *)
(* applyEpochSeek).                                                                       *)
HeardIsCurrent ==
  EngineSettled /\ engine.mine /\ engineLanes.playing /\ engineLanes.interrupt = None /\ engineLanes.track # None
    => LET c == engine.el[engine.slot]
       IN  /\ c.url = engineLanes.track /\ c.on /\ c.gain = "full" /\ c.at = engineLanes.pos
           /\ engine.duck.gain = "full"
           /\ ~EngineAudible(Other(engine.slot)) /\ ~EngineAudible("I")

(* Once fades are over, an interrupt whose end was not observed is heard at full gain,   *)
(* also when it replaced another one in the middle of its fade (startInterrupt), over an *)
(* ambient lane that is ducked or silent as the interrupt says.  One that was heard to   *)
(* its end is over, and unloaded after its fade.  Excepted is the level of an interrupt  *)
(* fired again with its own track (applyState compares track ids), and an ambient        *)
(* element that a late play() or an unheeded pause left on.                              *)
InterruptHeard ==
  EngineSettled /\ engine.mine /\ engineLanes.interrupt # None /\ engineRequests = {}
    => LET i == engine.el["I"]
       IN  \/ i.over \/ i.url = None
           \/ /\ i.url = engineLanes.interrupt.track /\ i.on /\ i.gain = "full"
              /\ "duck" \notin engineSeen.missed /\ engineLanes.interrupt.ducks => engine.duck.gain = "low"
              /\ engineSeen.missed = {} /\ ~engineLanes.interrupt.ducks => ~EngineAudible("A") /\ ~EngineAudible("B")

(* Once fades are over, a room that stands still, without an interrupt, is silent.       *)
(* Excepted is a room that was paused under an interrupt (applyState then pauses no      *)
(* element) and one whose play() waited for the audio context and ran after the pause.   *)
StoppedSilent ==
  EngineSettled /\ engine.mine /\ engineLanes.interrupt = None
    => \/ \A x \in Elements : ~EngineAudible(x)
       \/ engineLanes.track # None /\ (engineLanes.playing \/ "quiet" \in engineSeen.missed)

=============================================================================
