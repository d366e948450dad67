----------------------------- MODULE EndOfTrack -----------------------------
(***************************************************************************)
(* Who advances the queue when a track ends.  Every browser output plays   *)
(* the current track by itself (frontend/core/playbackEngine.ts), notices  *)
(* its end and asks the server for the next one, naming the track it saw   *)
(* ending; the server's advancer acts too when it knows the length.  The   *)
(* server drops a request that names another track than the current one.   *)
(*                                                                         *)
(* An output learns of the lane through Observe, which reads the newest    *)
(* publication: what an output does between two of them is only to queue   *)
(* requests, so receiving one late is receiving it early and acting late.  *)
(* A request is delivered at any later time or lost with its connection.   *)
(* Time is not modelled: an element, a stalled element and the advancer    *)
(* may find the track at its end whenever it plays.                        *)
(***************************************************************************)
EXTENDS PlaybackLanes

CONSTANTS
  Outputs,     \* browser outputs, all switched on
  EotPlaylists,   \* what may be played first
  EotLoops,       \* loop modes the room may be in
  EotMaxEpoch,    \* bound: position_epoch
  MaxSent      \* bound: requests in flight per output

ASSUME PlaylistAssumption ==
  /\ EotPlaylists \subseteq Seq(Tracks) \ {<<>>}
  /\ EotLoops \subseteq {"off", "track", "queue"}

VARIABLES
  eotLanes,     \* the server's lanes
  eotSeen,      \* lastAmbientId, lastEpoch and lastIsPlaying of each output
  ended,     \* the output's element has ended
  recent,    \* an advance was sent less than ADVANCE_DEBOUNCE_MS ago
  eotSent,      \* requests in flight, oldest first
  eotPast       \* history: tracks of plays that are over

eotVars == <<eotLanes, eotSeen, ended, recent, eotSent, eotPast>>

Views == [track: Tracks \cup {None}, epoch: Nat, playing: BOOLEAN]

(* A request names a track.  The epoch of the state the output saw is not  *)
(* sent; it is kept here to tell two plays of one track apart.             *)
EotRequests == [from: Tracks, epoch: Nat]

Unseen == [track |-> None, epoch |-> 0, playing |-> FALSE]

EotInit ==
  /\ \E list \in EotPlaylists, loop \in EotLoops :
       eotLanes = [AmbientPlaySequence(DefaultLanes, list, 1, 0) EXCEPT !.loop = loop]
  /\ eotSeen = [o \in Outputs |-> Unseen]
  /\ ended = [o \in Outputs |-> FALSE]
  /\ recent = [o \in Outputs |-> FALSE]
  /\ eotSent = [o \in Outputs |-> <<>>]
  /\ eotPast = {}

-----------------------------------------------------------------------------
(* An output.                                                              *)

(* fireAmbientAdvance on what output o then shows, v. *)
FireAdvance(o, v) ==
  /\ recent[o] \/ Len(eotSent[o]) < MaxSent
  /\ eotSent' = IF recent[o] THEN eotSent
                ELSE [eotSent EXCEPT ![o] = Append(@, [from |-> v.track,
                                                       epoch |-> v.epoch])]
  /\ recent' = [recent EXCEPT ![o] = TRUE]

(* A state is applied: another track is loaded, a new epoch seeks, and an  *)
(* element that had ended on what is still playing asks again.             *)
EotObserve(o) ==
  LET v == [track |-> eotLanes.track, epoch |-> eotLanes.epoch,
            playing |-> eotLanes.playing]
      still == ended[o] /\ v.track = eotSeen[o].track /\ v.epoch = eotSeen[o].epoch
  IN  /\ eotSeen' = [eotSeen EXCEPT ![o] = v]
      /\ ended' = [ended EXCEPT ![o] = still]
      /\ IF still /\ v.playing THEN FireAdvance(o, v)
                               ELSE UNCHANGED <<recent, eotSent>>
      /\ UNCHANGED <<eotLanes, eotPast>>

Sounding(o) == eotSeen[o].track # None /\ eotSeen[o].playing /\ ~ended[o]

(* The element's `ended` event. *)
ElementEnds(o) ==
  /\ Sounding(o)
  /\ ended' = [ended EXCEPT ![o] = TRUE]
  /\ FireAdvance(o, eotSeen[o])
  /\ UNCHANGED <<eotLanes, eotSeen, eotPast>>

(* maybeAdvanceAtEnd: no progress in the last second of the track. *)
StallBackstop(o) ==
  /\ Sounding(o)
  /\ FireAdvance(o, eotSeen[o])
  /\ UNCHANGED <<eotLanes, eotSeen, ended, eotPast>>

DebounceOver(o) ==
  /\ recent[o]
  /\ recent' = [recent EXCEPT ![o] = FALSE]
  /\ UNCHANGED <<eotLanes, eotSeen, ended, eotSent, eotPast>>

(* The socket is lost with what was in flight.  When the server notices    *)
(* before the output is back it switches the output off, and the engine,   *)
(* told so, forgets what it played; when the new connection registers      *)
(* first, the engine goes on with what it knows.                           *)
Reconnect(o) ==
  /\ eotSent' = [eotSent EXCEPT ![o] = <<>>]
  /\ \/ /\ eotSeen' = [eotSeen EXCEPT ![o] = Unseen]
        /\ ended' = [ended EXCEPT ![o] = FALSE]
     \/ UNCHANGED <<eotSeen, ended>>
  /\ UNCHANGED <<eotLanes, recent, eotPast>>

-----------------------------------------------------------------------------
(* The server.                                                             *)

Passed == eotPast' = IF eotLanes'.epoch = eotLanes.epoch THEN eotPast ELSE eotPast \cup {eotLanes.track}

(* execute_ambient_skip_next for a request of output o. *)
EotDeliver(o) ==
  /\ eotSent[o] # <<>>
  /\ eotLanes.epoch < EotMaxEpoch
  /\ eotLanes' = AmbientSkipNext(eotLanes, None, Head(eotSent[o]).from, 1, 0)
  /\ eotSent' = [eotSent EXCEPT ![o] = Tail(@)]
  /\ Passed
  /\ UNCHANGED <<eotSeen, ended, recent>>

(* run_due_effects, for a track of known length. *)
ServerAdvance ==
  /\ eotLanes.track # None /\ eotLanes.anchor # None
  /\ eotLanes.epoch < EotMaxEpoch
  /\ eotLanes' = AmbientSkipNext(eotLanes, None, eotLanes.track, 1, 0)
  /\ Passed
  /\ UNCHANGED <<eotSeen, ended, recent, eotSent>>

(* A user pauses and resumes. *)
User ==
  /\ \E playing \in BOOLEAN : eotLanes' = SetPlaying(eotLanes, playing, 0)
  /\ UNCHANGED <<eotSeen, ended, recent, eotSent, eotPast>>

EotNext ==
  \/ \E o \in Outputs : \/ EotObserve(o) \/ ElementEnds(o) \/ StallBackstop(o)
                        \/ DebounceOver(o) \/ Reconnect(o) \/ EotDeliver(o)
  \/ ServerAdvance
  \/ User

(* The owner task serves its timer and its mailbox. *)
EotSpec == EotInit /\ [][EotNext]_eotVars /\ WF_eotVars(ServerAdvance)
                   /\ \A o \in Outputs : WF_eotVars(EotDeliver(o))

-----------------------------------------------------------------------------
(* Every variable has its type. *)
EotTypeOK ==
  /\ eotLanes \in LaneStates
  /\ eotSeen \in [Outputs -> Views]
  /\ ended \in [Outputs -> BOOLEAN] /\ recent \in [Outputs -> BOOLEAN]
  /\ eotSent \in [Outputs -> Seq(EotRequests)]

(* The end of one play of a track advances the lane at most once: a        *)
(* request that moves the lane was sent about the play that is on, and not *)
(* about one that another output or the advancer has already ended.        *)
(* Excepted is a track that is on again (loop track, loop queue, a track   *)
(* twice in the queue): ambient_skip_next compares track ids, and the      *)
(* request carries no epoch.                                               *)
EndAdvancesOnce ==
  [][\A o \in Outputs :
       Len(eotSent'[o]) < Len(eotSent[o]) /\ eotLanes' # eotLanes
         => Head(eotSent[o]).epoch = eotLanes.epoch \/ eotLanes.track \in eotPast]_eotVars

(* What audioEngine.tsx says of `from_track_id`: duplicate `ended` events, *)
(* of several outputs or of the advancer, are harmless.  A track that is   *)
(* on again is not excepted.                                               *)
DuplicateEndsAreHarmless ==
  [][\A o \in Outputs :
       Len(eotSent'[o]) < Len(eotSent[o]) /\ eotLanes' # eotLanes
         => Head(eotSent[o]).epoch = eotLanes.epoch]_eotVars

=============================================================================
