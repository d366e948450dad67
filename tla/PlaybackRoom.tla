---------------------------- MODULE PlaybackRoom ----------------------------
(***************************************************************************)
(* The room half of the playback reducer, music-domain/playback.rs, and    *)
(* the catalog checks of playback/actor.rs that guard it: the active mode  *)
(* with its soundboard and presets, the outputs that sound, device volumes *)
(* and looping effects.  Functions of a room state `r`.                    *)
(*                                                                         *)
(* A mode catalog is None (not loaded yet) or a function from the loaded   *)
(* mode ids to what each mode offers.  The order of the preset chain, the  *)
(* crossfade curve and the gain of effects are data no property tells      *)
(* apart: presets are a set, and a crossfade is one abstract value.        *)
(***************************************************************************)
EXTENDS RustValues

CONSTANTS
  Devices,        \* client ids that can be outputs
  ModeIds, Boards, Items, Presets,
  Volumes, DefaultVolume,
  Crossfades, DefaultCrossfade,
  LoopIds,        \* ids of looping effects
  CueIds,
  CueOf,          \* LoopIds -> CueIds \cup {None}: the cue prefix of a loop id
  Intervals       \* intervals of looping effects

ASSUME RoomNoneAssumption ==
  None \notin Devices \cup ModeIds \cup Boards \cup Volumes \cup Crossfades
ASSUME RoomDefaultsAssumption ==
  DefaultVolume \in Volumes /\ DefaultCrossfade \in Crossfades
ASSUME IntervalsAssumption == Intervals \subseteq Nat \ {0}

Modes ==
  [boards: SUBSET Boards, items: SUBSET (Boards \X Items),
   presets: SUBSET Presets, cues: SUBSET CueIds, multiple: BOOLEAN]

LoopingSfx == [id: LoopIds, board: Boards, item: Items, every: Intervals]

RoomStates ==
  [mode: ModeIds \cup {None}, board: Boards \cup {None},
   presets: SUBSET Presets, presetRevision: Nat, crossfade: Crossfades,
   outputs: Seq(Devices), multiple: BOOLEAN,
   volumes: [Devices -> Volumes \cup {None}], loops: SUBSET LoopingSfx]

DefaultRoom ==
  [mode |-> None, board |-> None, presets |-> {}, presetRevision |-> 0,
   crossfade |-> DefaultCrossfade, outputs |-> <<>>, multiple |-> FALSE,
   volumes |-> [d \in Devices |-> None], loops |-> {}]

-----------------------------------------------------------------------------
(* Mode, presets, crossfade, volumes.                                      *)

MutantKeepPresets(r, m) ==
  IF r.mode = m THEN r ELSE [r EXCEPT !.mode = m, !.board = None]

SetActiveMode(r, m) ==
  IF r.mode = m THEN r
  ELSE [r EXCEPT !.mode = m, !.presets = {}, !.board = None]

SetActiveSoundboard(r, b) == [r EXCEPT !.board = b]

SetActivePresets(r, ps, x) ==
  [r EXCEPT !.presets = ps, !.crossfade = IF x = None THEN @ ELSE x]

SetCrossfade(r, x) == [r EXCEPT !.crossfade = x]

SetDeviceVolume(r, d, v) == [r EXCEPT !.volumes[d] = v]

-----------------------------------------------------------------------------
(* Outputs.                                                                *)

Active(r) == ToSet(r.outputs)

(* Among several requested outputs a single-output room takes the last one *)
(* that is not on yet, else the last one.                                  *)
NewestOutput(current, requested) ==
  LET fresh == {i \in DOMAIN requested : requested[i] \notin ToSet(current)}
      i == IF fresh = {} THEN Len(requested)
           ELSE CHOOSE k \in fresh : \A j \in fresh : j <= k
  IN  IF Len(requested) <= 1 THEN requested ELSE <<requested[i]>>

SetActiveOutputs(r, ds) ==
  [r EXCEPT !.outputs = IF r.multiple THEN ds ELSE NewestOutput(@, ds)]

(* A new client gets a volume; an output-by-default client is switched on  *)
(* unless a single-output room already has an output.                      *)
RegisterDevice(r, d, activate) ==
  [r EXCEPT
     !.volumes[d] = IF @ = None THEN DefaultVolume ELSE @,
     !.outputs = IF /\ activate
                    /\ r.multiple \/ @ = <<>>
                    /\ d \notin Active(r)
                   THEN Append(@, d) ELSE @]

RemoveActiveOutput(r, d) ==
  [r EXCEPT !.outputs = Retain(@, Devices \ {d})]

ApplyOutputPolicy(r, multiple) ==
  [r EXCEPT !.multiple = multiple,
            !.outputs = IF ~multiple /\ Len(@) > 1 THEN <<Head(@)>> ELSE @]
-----------------------------------------------------------------------------
(* Looping effects.  LoopingSfx ids are unique: starting replaces.         *)

StartLoop(r, l) ==
  [r EXCEPT !.loops = {k \in @ : k.id # l.id} \cup {l}]

StopLoop(r, id) == [r EXCEPT !.loops = {k \in @ : k.id # id}]

(* The loops a cue starts replace the loops the same cue started before. *)
CueLoops(r, cue, ls) ==
  [r EXCEPT !.loops = {k \in @ : CueOf[k.id] # cue} \cup ls]

-----------------------------------------------------------------------------
(* The mode catalog.                                                       *)

(* What the active mode offers; meaningful under HasMode. *)
HasMode(r, modes) == modes # None /\ r.mode # None /\ r.mode \in DOMAIN modes
ModeOf(r, modes) == modes[r.mode]

AllowsMultipleOutputs(r, modes) ==
  HasMode(r, modes) /\ ModeOf(r, modes).multiple

BoardKnown(r, modes, b) ==
  HasMode(r, modes) /\ b \in ModeOf(r, modes).boards

ItemKnown(r, modes, b, i) ==
  HasMode(r, modes) /\ <<b, i>> \in ModeOf(r, modes).items

PresetsKnown(r, modes, ps) ==
  ps # {} => HasMode(r, modes) /\ ps \subseteq ModeOf(r, modes).presets

(* Drop what a newly loaded mode catalog no longer offers.  `content` says *)
(* that the stored content of an active preset changed.                    *)
PruneRoom(r, modes, content) ==
  LET gone == modes # None /\ r.mode # None /\ r.mode \notin DOMAIN modes
      a == IF gone THEN [r EXCEPT !.mode = None, !.board = None,
                                  !.presets = {}, !.loops = {}]
                   ELSE r
      b == [a EXCEPT
              !.board = IF @ # None /\ BoardKnown(a, modes, @) THEN @ ELSE None,
              !.presets = {p \in @ : PresetsKnown(a, modes, {p})},
              !.loops = {l \in @ : ItemKnown(a, modes, l.board, l.item)}]
      c == IF modes = None THEN r
           ELSE ApplyOutputPolicy(b, AllowsMultipleOutputs(b, modes))
  IN  [c EXCEPT !.presetRevision = IF content THEN @ + 1 ELSE @]

-----------------------------------------------------------------------------

(* The durable document keeps neither loops nor the derived output policy; *)
(* a restart also clears the outputs.                                      *)
PersistedRoom(r) == [r EXCEPT !.loops = {}, !.multiple = FALSE]

NormalizeRoom(r) == [r EXCEPT !.loops = {}, !.multiple = FALSE, !.outputs = <<>>]
=============================================================================
