----------------------------- MODULE MCPlayback -----------------------------
(***************************************************************************)
(* PlaybackActor on small instances.  Each behaviour plays one part, which *)
(* says what of the instance it uses:                                      *)
(*   transport  two tracks, one of known length; no connections            *)
(*   reports    one track, and one output that reports its position        *)
(*   outputs    two clients on three connections; nothing is played        *)
(*   content    modes, a soundboard, a preset, loops and a cue; no outputs *)
(***************************************************************************)
EXTENDS PlaybackActor

CONSTANTS Parts, solo, party, day, night, weather, rain, warm, slow, byHand, byCue, storm

VARIABLE part

MCNone == {}
MCEmpty == <<>>
MCSymmetry == Permutations(Devices)

MCTracks == {1, 2}
MCDuration == <<1, 0>>
MCPlaylists == {<<1, 2>>}
MCPositions == {1, 3}

RoomTracks == {1}
RoomDuration == <<0>>
RoomIntervals == {1, 2}
RoomCueOf == [id \in {byHand, byCue} |-> IF id = byCue THEN storm ELSE None]

Bare(multiple) == [boards |-> {}, items |-> {}, presets |-> {}, cues |-> {}, multiple |-> multiple]
Equipped == [boards |-> {weather}, items |-> {<<weather, rain>>}, presets |-> {warm}, cues |-> {storm}, multiple |-> FALSE]

\* party loses its several outputs, and is deleted.
OutputCatalogs ==
  {[m \in {solo, party} |-> Bare(m = party)], [m \in {solo, party} |-> Bare(FALSE)], [m \in {solo} |-> Bare(FALSE)]}
\* night offers everything; then it loses its content; then it is gone.
ContentCatalogs ==
  {[m \in {day, night} |-> IF m = night THEN Equipped ELSE Bare(FALSE)],
   [m \in {day, night} |-> [Bare(FALSE) EXCEPT !.boards = {weather}]],
   [m \in {day} |-> Equipped]}
RoomCatalogs == OutputCatalogs \cup ContentCatalogs

RoomCues ==
  {[cue |-> storm, mode |-> night, preset |-> {warm}, crossfade |-> slow, tracks |-> <<1>>, start |-> 1, at |-> 1,
    loops |-> {[id |-> byCue, board |-> weather, item |-> rain, every |-> 1]}],
   [cue |-> storm, mode |-> night, preset |-> {}, crossfade |-> None, tracks |-> <<>>, start |-> 1, at |-> 0, loops |-> {}]}

OneTrack(l) ==
  /\ l.track \in {None, 1} /\ l.queue = <<>> /\ l.history = <<>>
  /\ l.interrupt # None => l.interrupt.track = 1

Happening == ReplaceLibraryCatalog \/ RunDueEffects \/ FlushPosition \/ Tick \/ Crash \/ Shutdown \/ Start

Transport == part = "transport" /\ (TransportCommand \/ Happening)
Reports ==
  /\ part = "reports"
  /\ TransportCommand \/ Connection \/ Happening
  /\ OneTrack(lanes') /\ OneTrack(stored'.lanes) /\ stored'.revision <= 3 /\ now' <= 1
Outputs ==
  /\ part = "outputs"
  /\ RoomCommand \/ Connection \/ ReplaceModeCatalog \/ Happening
  /\ modes' \in OutputCatalogs \cup {None} /\ now' = 0 /\ stored'.revision <= 4
  /\ room'.crossfade # slow /\ stored'.room.crossfade # slow /\ known' = None
Content ==
  /\ part = "content"
  /\ TransportCommand \/ RoomCommand \/ ReplaceModeCatalog \/ Happening
  /\ modes' \in ContentCatalogs \cup {None} /\ stored'.revision <= 4

MCInit == Init /\ part \in Parts
MCNext == (Transport \/ Reports \/ Outputs \/ Content) /\ UNCHANGED part
MCSpec == MCInit /\ [][MCNext]_<<vars, part>>
=============================================================================
