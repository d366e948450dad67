------------------------ MODULE PlaybackActorProofs ------------------------
(***************************************************************************)
(* The owner of playback keeps, for every value of the constants: the      *)
(* types, the clocks of the lanes, the single-output policy and outputs    *)
(* that somebody serves.  The inductive invariant IInv adds to these that  *)
(* a process that is down holds no mode catalog, which a start relies on.  *)
(***************************************************************************)
EXTENDS PlaybackActor, PlaybackReducerProofs

PolicyKept == modes # None => room.multiple = AllowsMultipleOutputs(room, modes)

IInv ==
  /\ TypeOK
  /\ Sound(lanes, now)
  /\ Fit(room)
  /\ PolicyKept
  /\ ActiveOutputsConnected
  /\ ~up => modes = None

Timers(b) == DOMAIN b \subseteq LoopIds /\ b \in [DOMAIN b -> Nat]

(* A loaded mode catalog is typed. *)
LEMMA ModesTyped ==
  ASSUME NEW m \in ModeCatalogs \cup {None}
  PROVE  m = None \/ ModeCatalog(m)
BY ModeCatalogsAssumption DEF ModeCatalog

(* A document made of sound lanes and a fit room is typed. *)
LEMMA DocumentType ==
  ASSUME NEW t \in Nat, NEW l, Sound(l, t), NEW r, Fit(r), NEW v \in Nat
  PROVE  Document(l, r, v, t) \in Documents
<1>1. PersistedLanes(l, t) \in LaneStates /\ PersistedRoom(r) \in RoomStates
  BY PersistedLanesType, PersistedRoomType
<1>. QED  BY <1>1 DEF Document, Documents

(* Every loop of a typed set has a typed interval, so its timer is typed. *)
LEMMA ReconcileType ==
  ASSUME now \in Nat, NEW base, Timers(base), NEW before,
         NEW after \in SUBSET LoopingSfx, NEW restarted
  PROVE  Timers(ReconcileDeadlines(base, before, after, restarted))
<1> DEFINE ids == {l.id : l \in after}
           f == ReconcileDeadlines(base, before, after, restarted)
<1>1. ids \subseteq LoopIds
  BY DEF LoopingSfx
<1>2. ASSUME NEW id \in ids PROVE LoopWith(after, id).every \in Nat
  <2>1. \E l \in after : l.id = id
    OBVIOUS
  <2>2. LoopWith(after, id) \in after
    BY <2>1 DEF LoopWith
  <2>. QED  BY <2>2, IntervalsAssumption DEF LoopingSfx
<1>3. DOMAIN f = ids
  BY DEF ReconcileDeadlines
<1>4. ASSUME NEW id \in ids PROVE f[id] \in Nat
  <2>1. id \in DOMAIN base => base[id] \in Nat
    BY DEF Timers
  <2>2. now + LoopWith(after, id).every \in Nat
    BY <1>2
  <2>3. f[id] = IF /\ id \in DOMAIN base \ restarted
                   /\ LoopWith(after, id) \in before
                  THEN base[id] ELSE now + LoopWith(after, id).every
    BY DEF ReconcileDeadlines
  <2>. HIDE DEF f
  <2>. QED  BY <2>1, <2>2, <2>3
<1>5. f = [id \in ids |-> f[id]]
  BY DEF ReconcileDeadlines
<1>. HIDE DEF f, ids
<1>6. f \in [ids -> Nat]
  BY <1>4, <1>5
<1>7. Timers(f)
  BY <1>1, <1>3, <1>6 DEF Timers
<1>. QED  BY <1>7 DEF f

(* The state of a process that is gone satisfies the invariant. *)
LEMMA HaltInv ==
  ASSUME TypeOK, NEW doc \in Documents, Halt(doc)
  PROVE  IInv'
<1>1. MaxConns \in Nat
  BY BoundsAssumption
<1>2. Sound(DefaultLanes, 0) /\ Fit(DefaultRoom)
  BY DefaultLanesSound, DefaultRoomFit
<1>3. DefaultLanes \in LaneStates /\ DefaultRoom \in RoomStates
  BY <1>2 DEF Sound, Fit
<1>4. Timers(<<>>)
  BY DEF Timers
<1>5. Timers(deadlines')
  BY <1>4 DEF Halt
<1>6. nextConn' \in 1..(MaxConns + 1) /\ open' \subseteq ConnIds
        /\ reg' \in [ConnIds -> Registrations \cup {None}]
  BY <1>1 DEF Halt
<1>7. TypeOK'
  BY <1>3, <1>5, <1>6 DEF Halt, TypeOK, Timers
<1>. QED  BY <1>2, <1>7 DEF Halt, IInv, PolicyKept, ActiveOutputsConnected

(* Saving, installing and publishing sound lanes and a fit room, under     *)
(* catalogs whose policy the room keeps, keeps the invariant.              *)
LEMMA InstalledInv ==
  ASSUME IInv, up, NEW l, Sound(l, now), NEW r, Fit(r),
         Active(r) \subseteq RegisteredClients,
         NEW base, Timers(base), NEW restarted,
         Installed(l, r, base, restarted),
         known' \in (SUBSET Tracks) \cup {None},
         modes' \in ModeCatalogs \cup {None},
         modes' # None => r.multiple = AllowsMultipleOutputs(r, modes')
  PROVE  IInv'
<1>1. /\ stored' = Document(l, r, revision + 1, now)
      /\ lanes' = l /\ room' = r /\ revision' = revision + 1
      /\ deadlines' = ReconcileDeadlines(base, room.loops, r.loops, restarted)
      /\ dirty' = FALSE /\ up' = up /\ now' = now /\ open' = open /\ reg' = reg
      /\ nextConn' = nextConn
  BY DEF Installed, NextRevision
<1>2. TypeOK /\ now \in Nat /\ revision \in Nat /\ revision + 1 \in Nat
  BY DEF IInv, TypeOK
<1>3. stored' \in Documents
  BY <1>1, <1>2, DocumentType
<1>4. Timers(deadlines')
  <2>1. r.loops \in SUBSET LoopingSfx
    BY DEF Fit, RoomStates
  <2>. QED  BY <1>1, <1>2, <2>1, ReconcileType
<1>5. l \in LaneStates /\ r \in RoomStates
  BY DEF Sound, Fit
<1>6. TypeOK'
  BY <1>1, <1>2, <1>3, <1>4, <1>5 DEF TypeOK, Timers
<1>7. RegisteredClients' = RegisteredClients
  BY <1>1 DEF RegisteredClients
<1>8. ActiveOutputsConnected' /\ PolicyKept'
  BY <1>1, <1>7 DEF ActiveOutputsConnected, PolicyKept
<1>. QED  BY <1>1, <1>6, <1>8 DEF IInv

(* Under the policy the room is fit, keeps its mode and switches nothing   *)
(* on.                                                                     *)
LEMMA PolicedFit ==
  ASSUME TypeOK, NEW r, Fit(r)
  PROVE  /\ Fit(Policed(r)) /\ Active(Policed(r)) \subseteq Active(r)
         /\ modes # None => Policed(r).multiple
                              = AllowsMultipleOutputs(Policed(r), modes)
<1>1. CASE modes = None
  BY <1>1 DEF Policed
<1>2. CASE modes # None
  <2> DEFINE a == AllowsMultipleOutputs(r, modes)
             q == ApplyOutputPolicy(r, a)
  <2>1. a \in BOOLEAN /\ r \in RoomStates
    BY ModesTyped, AllowsType DEF TypeOK, Fit
  <2>2. Policed(r) = q
    BY <1>2 DEF Policed
  <2>. HIDE DEF a
  <2>3. Fit(q) /\ Active(q) \subseteq Active(r) /\ q.multiple = a
          /\ q.mode = r.mode
    BY <2>1, ApplyOutputPolicyFit
  <2>. HIDE DEF q
  <2>4. AllowsMultipleOutputs(q, modes) = AllowsMultipleOutputs(r, modes)
    BY <2>3 DEF AllowsMultipleOutputs, HasMode, ModeOf
  <2>. QED  BY <2>2, <2>3, <2>4 DEF a
<1>. QED  BY <1>1, <1>2

(* A command whose result is sound and fit keeps the invariant, whether    *)
(* its save succeeds or the process ends at it.                            *)
LEMMA CommitInv ==
  ASSUME IInv, NEW l, Sound(l, now), NEW r, Fit(r),
         Active(r) \subseteq RegisteredClients,
         NEW base, Timers(base), NEW restarted,
         Commit(l, r, base, restarted)
  PROVE  IInv'
<1>1. TypeOK /\ up /\ now \in Nat /\ revision + 1 \in Nat
  BY DEF IInv, TypeOK, Commit, Bounded
<1> DEFINE q == Policed(r)
<1>2. Fit(q) /\ Active(q) \subseteq RegisteredClients
        /\ (modes # None => q.multiple = AllowsMultipleOutputs(q, modes))
  BY <1>1, PolicedFit
<1>. HIDE DEF q
<1>3. CASE Installed(l, q, base, restarted) /\ UNCHANGED <<known, modes>>
  <2>1. known' = known /\ modes' = modes
    BY <1>3
  <2>2. known' \in (SUBSET Tracks) \cup {None}
          /\ modes' \in ModeCatalogs \cup {None}
    BY <1>1, <2>1 DEF TypeOK
  <2>3. modes' # None => q.multiple = AllowsMultipleOutputs(q, modes')
    BY <1>2, <2>1
  <2>. QED  BY <1>1, <1>2, <1>3, <2>2, <2>3, InstalledInv
<1>4. CASE Halt(Document(l, q, revision + 1, now))
  <2>1. Document(l, q, revision + 1, now) \in Documents
    BY <1>1, <1>2, DocumentType
  <2>. QED  BY <1>1, <1>4, <2>1, HaltInv
<1>. QED  BY <1>3, <1>4 DEF Commit, NextRevision, q

(* What the invariant says about the parts a command works with. *)
LEMMA Parts ==
  ASSUME IInv
  PROVE  /\ Sound(lanes, now) /\ now \in Nat
         /\ Fit(room) /\ Timers(deadlines) /\ TypeOK
         /\ lanes.track \in Tracks \cup {None} /\ lanes.queue \in Seq(Tracks)
<1>1. Sound(lanes, now) /\ now \in Nat /\ Fit(room) /\ Timers(deadlines) /\ TypeOK
        /\ lanes \in LaneStates
  BY DEF IInv, TypeOK, Timers
<1>. QED  BY <1>1 DEF LaneStates

(* A command on the lanes alone, or on the room alone. *)
LEMMA ExecuteLanesInv ==
  ASSUME IInv, NEW l, Sound(l, now), ExecuteLanes(l)
  PROVE  IInv'
<1>1. Commit(l, room, deadlines, {}) /\ up
  BY DEF ExecuteLanes, Commit, Bounded
<1>2. Active(room) \subseteq RegisteredClients
  BY <1>1 DEF IInv, ActiveOutputsConnected
<1>. QED  BY <1>1, <1>2, Parts, CommitInv

(* The room a command leaves has outputs that are on or registered. *)
LEMMA ExecuteRoomInv ==
  ASSUME IInv, NEW r, Fit(r), Active(r) \subseteq Active(room) \cup RegisteredClients,
         ExecuteRoom(r)
  PROVE  IInv'
<1>1. Commit(lanes, r, deadlines, {}) /\ up
  BY DEF ExecuteRoom, Commit, Bounded
<1>2. Active(r) \subseteq RegisteredClients
  BY <1>1 DEF IInv, ActiveOutputsConnected
<1>. QED  BY <1>1, <1>2, Parts, CommitInv

(* The follower of a track is a track of the catalog. *)
LEMMA FollowerType ==
  ASSUME IInv, NEW t
  PROVE  Follower(t) \in Tracks \cup {None}
<1>1. CASE known # None /\ t # None /\ t \in known
  <2> DEFINE later == {u \in known : u > t}
             S == IF later = {} THEN known ELSE later
  <2>1. known \in SUBSET Tracks
    BY <1>1 DEF IInv, TypeOK
  <2>2. S \in SUBSET Nat /\ S # {} /\ S \subseteq Tracks
    BY <1>1, <2>1, TracksAssumption
  <2>3. FollowNext(t, known) = CHOOSE u \in S : \A w \in S : u <= w
    BY DEF FollowNext
  <2>. HIDE DEF S
  <2>4. \E u \in S : \A w \in S : u <= w
    BY <2>2, LeastNat
  <2>5. FollowNext(t, known) \in S
    BY <2>3, <2>4
  <2>. QED  BY <2>2, <2>5 DEF Follower
<1>2. CASE ~(known # None /\ t # None /\ t \in known)
  BY <1>2 DEF Follower
<1>. QED  BY <1>1, <1>2

(* A choice the code draws is an index of the queue. *)
LEMMA ChoiceType ==
  ASSUME IInv, NEW choice \in QueueChoices
  PROVE  lanes.queue # <<>> => choice \in DOMAIN lanes.queue
<1> DEFINE q == lanes.queue
<1>1. q \in Seq(Tracks)
  BY Parts
<1>2. choice \in (IF lanes.shuffle /\ q # <<>> THEN DOMAIN q ELSE {1})
  BY DEF QueueChoices
<1>. HIDE DEF q
<1>3. q # <<>> => 1 \in DOMAIN q
  BY <1>1
<1>4. q # <<>> => choice \in DOMAIN q
  BY <1>2, <1>3
<1>. QED  BY <1>4 DEF q

(* A skip of the ambient lane, by a user, an output or the advancer. *)
LEMMA SkipSound ==
  ASSUME IInv, NEW expected, NEW choice \in QueueChoices
  PROVE  Sound(AmbientSkipNext(lanes, Follower(lanes.track), expected, choice,
                               now), now)
BY Parts, FollowerType, ChoiceType, AmbientSkipNextSound

-----------------------------------------------------------------------------
(* One lemma per group of actions.                                         *)

(* Every transport command keeps the invariant. *)
LEMMA TransportInv ==
  ASSUME IInv, TransportCommand
  PROVE  IInv'
<1>1. Sound(lanes, now) /\ now \in Nat /\ lanes.queue \in Seq(Tracks)
  BY Parts
<1>2. \A ts \in Playlists : ts \in Seq(Tracks)
  BY PlaylistsAssumption
<1>3. CASE DoSetPlaying
  BY <1>1, <1>3, SetPlayingSound, ExecuteLanesInv DEF DoSetPlaying
<1>4. CASE DoAmbientPlayTrack
  BY <1>1, <1>4, AmbientPlayTrackSound, ExecuteLanesInv DEF DoAmbientPlayTrack
<1>5. CASE DoAmbientPlaySequence
  <2>0. PICK ts \in Playlists : \E i \in DOMAIN ts :
          ExecuteLanes(AmbientPlaySequence(lanes, ts, i, now))
    BY <1>5 DEF DoAmbientPlaySequence
  <2>1. PICK i \in DOMAIN ts :
          ExecuteLanes(AmbientPlaySequence(lanes, ts, i, now))
    BY <2>0
  <2>2. ts \in Seq(Tracks) /\ i \in Nat \ {0}
    BY <1>2
  <2>. QED  BY <1>1, <2>1, <2>2, AmbientPlaySequenceSound, ExecuteLanesInv
<1>6. CASE DoAmbientSetQueue
  <2>1. PICK ts \in Playlists \cup {<<>>} :
          ExecuteLanes(AmbientSetQueue(lanes, ts))
    BY <1>6 DEF DoAmbientSetQueue
  <2>2. ts \in Seq(Tracks)
    <3>1. CASE ts \in Playlists
      BY <1>2, <3>1
    <3>2. CASE ts = <<>>
      BY <3>2
    <3>. QED  BY <3>1, <3>2
  <2>. QED  BY <1>1, <2>1, <2>2, AmbientSetQueueSound, ExecuteLanesInv
<1>7. CASE DoAmbientJumpQueue
  BY <1>1, <1>7, AmbientJumpQueueSound, ExecuteLanesInv DEF DoAmbientJumpQueue
<1>8. CASE DoAmbientEnqueue
  <2>1. PICK t \in Tracks, i \in 1..(MaxQueue + 1) :
          ExecuteLanes(AmbientEnqueue(lanes, t, i))
    BY <1>8 DEF DoAmbientEnqueue
  <2>2. i \in Nat \ {0}
    BY BoundsAssumption
  <2>. QED  BY <1>1, <2>1, <2>2, AmbientEnqueueSound, ExecuteLanesInv
<1>9. CASE DoAmbientSkipNext
  BY <1>9, SkipSound, ExecuteLanesInv DEF DoAmbientSkipNext
<1>10. CASE DoAmbientSkipPrevious
  BY <1>1, <1>10, AmbientSkipPreviousSound, ExecuteLanesInv
     DEF DoAmbientSkipPrevious
<1>11. CASE DoAmbientSeek
  BY <1>1, <1>11, PositionsAssumption, AmbientSeekSound, ExecuteLanesInv
     DEF DoAmbientSeek
<1>12. CASE DoAmbientSetLoop
  BY <1>1, <1>12, SettingsSound, ExecuteLanesInv DEF DoAmbientSetLoop
<1>13. CASE DoAmbientSetShuffle
  BY <1>1, <1>13, SettingsSound, ExecuteLanesInv DEF DoAmbientSetShuffle
<1>14. CASE DoAmbientStop
  BY <1>1, <1>14, AmbientStopSound, ExecuteLanesInv DEF DoAmbientStop
<1>15. CASE DoFireInterrupt
  BY <1>1, <1>2, <1>15, FireInterruptSound, ExecuteLanesInv DEF DoFireInterrupt
<1>16. CASE DoInterruptSkipNext
  BY <1>1, <1>16, InterruptSkipNextSound, ExecuteLanesInv
     DEF DoInterruptSkipNext
<1>17. CASE DoInterruptSeek
  BY <1>1, <1>17, PositionsAssumption, InterruptSeekSound, ExecuteLanesInv
     DEF DoInterruptSeek
<1>18. CASE DoCancelInterrupt
  BY <1>1, <1>18, EndInterruptSound, ExecuteLanesInv DEF DoCancelInterrupt
<1>19. CASE DoReportPosition
  <2>1. PICK p \in Positions : lanes' = ReportPosition(lanes, p, now)
    BY <1>19 DEF DoReportPosition
  <2>2. Sound(lanes', now)
    BY <1>1, <2>1, PositionsAssumption, ReportPositionSound
  <2>3. UNCHANGED <<up, now, room, revision, known, modes, deadlines, open, reg,
                    nextConn, stored>> /\ dirty' = TRUE
    BY <1>19 DEF DoReportPosition
  <2>4. TypeOK'
    BY <2>2, <2>3 DEF IInv, TypeOK, Sound
  <2>5. RegisteredClients' = RegisteredClients
    BY <2>3 DEF RegisteredClients
  <2>. QED  BY <2>2, <2>3, <2>4, <2>5
       DEF IInv, PolicyKept, ActiveOutputsConnected
<1>. QED  BY <1>3, <1>4, <1>5, <1>6, <1>7, <1>8, <1>9, <1>10, <1>11, <1>12,
             <1>13, <1>14, <1>15, <1>16, <1>17, <1>18, <1>19
          DEF TransportCommand

(* Every room command keeps the invariant. *)
LEMMA RoomInv ==
  ASSUME IInv, RoomCommand
  PROVE  IInv'
<1>1. Fit(room) /\ Sound(lanes, now) /\ now \in Nat /\ Timers(deadlines)
  BY Parts
<1>2. ASSUME NEW r, Kept(r, room), ExecuteRoom(r) PROVE IInv'
  BY <1>2, ExecuteRoomInv DEF Kept
<1>3. CASE DoSetActiveMode
  BY <1>1, <1>2, <1>3, SetActiveModeFit DEF DoSetActiveMode
<1>4. CASE DoSetActiveSoundboard
  BY <1>1, <1>2, <1>4, SetActiveSoundboardFit DEF DoSetActiveSoundboard
<1>5. CASE DoSetActivePresets
  BY <1>1, <1>2, <1>5, SetActivePresetsFit DEF DoSetActivePresets
<1>6. CASE DoSetCrossfade
  BY <1>1, <1>2, <1>6, SetCrossfadeFit DEF DoSetCrossfade
<1>7. CASE DoSetDeviceVolume
  BY <1>1, <1>2, <1>7, SetDeviceVolumeFit DEF DoSetDeviceVolume
<1>8. CASE DoSetActiveOutputs
  <2>1. PICK ds \in UNION {[1..n -> Devices] : n \in 0..2} :
          /\ ToSet(ds) \subseteq Active(room) \cup RegisteredClients
          /\ ExecuteRoom(SetActiveOutputs(room, ds))
    BY <1>8 DEF DoSetActiveOutputs
  <2>2. ds \in Seq(Devices)
    <3>1. PICK n \in 0..2 : ds \in [1..n -> Devices]
      OBVIOUS
    <3>2. n \in Nat
      OBVIOUS
    <3>. QED  BY <3>1, <3>2
  <2>3. Fit(SetActiveOutputs(room, ds))
          /\ Active(SetActiveOutputs(room, ds)) \subseteq ToSet(ds)
    BY <1>1, <2>2, SetActiveOutputsFit
  <2>. QED  BY <2>1, <2>3, ExecuteRoomInv
<1>9. CASE DoStartLoop
  <2>1. PICK l \in LoopingSfx : Commit(lanes, StartLoop(room, l), deadlines, {l.id})
    BY <1>9 DEF DoStartLoop
  <2>2. Fit(StartLoop(room, l)) /\ Active(StartLoop(room, l)) = Active(room)
    BY <1>1, LoopCommandsFit DEF Kept
  <2>3. Active(room) \subseteq RegisteredClients
    BY <2>1 DEF Commit, Bounded, IInv, ActiveOutputsConnected
  <2>. QED  BY <1>1, <2>1, <2>2, <2>3, CommitInv
<1>10. CASE DoStopLoop
  BY <1>1, <1>2, <1>10, LoopCommandsFit DEF DoStopLoop
<1>11. CASE DoFireCue
  <2> DEFINE P(c) == IF c.preset = {} THEN room
                     ELSE SetActivePresets(room, c.preset, c.crossfade)
             R(c) == CueLoops(P(c), c.cue, c.loops)
             L(c) == IF c.tracks = <<>> THEN lanes
                     ELSE CuePlaylist(lanes, c.tracks, c.start, c.at, now)
  <2>1. PICK c \in Cues : Commit(L(c), R(c), deadlines, {k.id : k \in c.loops})
    BY <1>11 DEF DoFireCue
  <2>2. c \in CueContents
    BY CuesAssumption
  <2>3. /\ c.preset \in SUBSET Presets /\ c.crossfade \in Crossfades \cup {None}
        /\ c.tracks \in Seq(Tracks) /\ c.start \in Nat \ {0} /\ c.at \in Nat
        /\ c.loops \in SUBSET LoopingSfx
    BY <2>2 DEF CueContents
  <2>4. Kept(P(c), room)
    BY <1>1, <2>3, SetActivePresetsFit DEF Kept
  <2>. HIDE DEF P
  <2>5. Kept(R(c), P(c))
    BY <2>3, <2>4, LoopCommandsFit DEF Kept
  <2>. HIDE DEF R
  <2>6. CASE c.tracks = <<>>
    <3>1. Sound(L(c), now)
      BY <1>1, <2>6
    <3>2. Active(room) \subseteq RegisteredClients
      BY <2>1 DEF Commit, Bounded, IInv, ActiveOutputsConnected
    <3>. HIDE DEF L
    <3>. QED  BY <1>1, <2>1, <2>4, <2>5, <3>1, <3>2, CommitInv DEF Kept
  <2>7. CASE c.tracks # <<>>
    <3>1. Sound(L(c), now)
      BY <1>1, <2>3, <2>7, CuePlaylistSound
    <3>2. Active(room) \subseteq RegisteredClients
      BY <2>1 DEF Commit, Bounded, IInv, ActiveOutputsConnected
    <3>. HIDE DEF L
    <3>. QED  BY <1>1, <2>1, <2>4, <2>5, <3>1, <3>2, CommitInv DEF Kept
  <2>. QED  BY <2>6, <2>7
<1>. QED  BY <1>3, <1>4, <1>5, <1>6, <1>7, <1>8, <1>9, <1>10, <1>11
          DEF RoomCommand

(* A change of the room and the connections that leaves mode, flag and     *)
(* loops alone and every output served keeps the invariant.                *)
LEMMA CommitExternalInv ==
  ASSUME IInv, NEW r, Fit(r), r.mode = room.mode, r.multiple = room.multiple,
         NEW o, o \subseteq ConnIds, NEW g \in [ConnIds -> Registrations \cup {None}],
         Active(r) \subseteq {g[c].client : c \in {c \in o : g[c] # None}},
         CommitExternal(r, o, g)
  PROVE  IInv'
<1>1. TypeOK /\ up /\ now \in Nat /\ revision \in Nat /\ Sound(lanes, now)
        /\ r \in RoomStates
  BY DEF IInv, TypeOK, CommitExternal, Fit
<1>2. Document(lanes, r, revision + 1, now) \in Documents
  BY <1>1, DocumentType
<1>3. CASE /\ r = room /\ open' = o /\ reg' = g
           /\ UNCHANGED <<up, now, lanes, room, revision, known, modes,
                          deadlines, dirty, nextConn, stored>>
  <2>1. TypeOK'
    BY <1>1, <1>3 DEF TypeOK
  <2>2. ActiveOutputsConnected'
    BY <1>3 DEF ActiveOutputsConnected, RegisteredClients
  <2>3. PolicyKept'
    BY <1>3 DEF IInv, PolicyKept
  <2>. QED  BY <1>3, <2>1, <2>2, <2>3 DEF IInv
<1>4. CASE /\ stored' \in {stored, Document(lanes, r, revision + 1, now)}
           /\ dirty' = FALSE /\ room' = r /\ revision' = revision + 1
           /\ open' = o /\ reg' = g
           /\ UNCHANGED <<up, now, lanes, known, modes, deadlines, nextConn>>
  <2>1. stored' \in Documents
    BY <1>1, <1>2, <1>4 DEF TypeOK
  <2>2. TypeOK'
    <3>1. room' \in RoomStates /\ revision' \in Nat
      BY <1>1, <1>4
    <3>2. open' \subseteq ConnIds /\ reg' \in [ConnIds -> Registrations \cup {None}]
      BY <1>4
    <3>. QED  BY <1>1, <1>4, <2>1, <3>1, <3>2 DEF TypeOK
  <2>3. ActiveOutputsConnected'
    BY <1>4 DEF ActiveOutputsConnected, RegisteredClients
  <2>4. PolicyKept'
    <3>1. AllowsMultipleOutputs(r, modes) = AllowsMultipleOutputs(room, modes)
      BY DEF AllowsMultipleOutputs, HasMode, ModeOf
    <3>. QED  BY <1>4, <3>1 DEF IInv, PolicyKept
  <2>. QED  BY <1>4, <2>2, <2>3, <2>4 DEF IInv
<1>5. CASE Halt(Document(lanes, r, revision + 1, now))
  BY <1>1, <1>2, <1>5, HaltInv
<1>. QED  BY <1>3, <1>4, <1>5 DEF CommitExternal, NextRevision

(* A client that leaves without another connection takes its output with   *)
(* it; any other output stays served by a connection other than c.         *)
LEMMA LeavingServed ==
  ASSUME IInv, up, NEW c \in open, NEW r,
         \/ /\ reg[c] # None /\ ~HasSibling(open, reg, c, reg[c].client)
            /\ Active(r) \subseteq Active(room) \ {reg[c].client}
         \/ /\ ~(reg[c] # None /\ ~HasSibling(open, reg, c, reg[c].client))
            /\ Active(r) \subseteq Active(room),
         NEW d \in Active(r)
  PROVE  \E k \in open \ {c} : reg[k] # None /\ reg[k].client = d
<1>1. d \in Active(room) /\ Active(room) \subseteq RegisteredClients
  BY DEF IInv, ActiveOutputsConnected
<1>2. PICK k \in open : reg[k] # None /\ reg[k].client = d
  BY <1>1 DEF RegisteredClients
<1>3. CASE k # c
  BY <1>2, <1>3
<1>4. CASE k = c
  <2>1. HasSibling(open, reg, c, d)
    BY <1>2, <1>4
  <2>. QED  BY <2>1 DEF HasSibling
<1>. QED  BY <1>3, <1>4

(* Connections come, register, are renamed and go; the invariant stays. *)
LEMMA ConnectionInv ==
  ASSUME IInv, Connection
  PROVE  IInv'
<1>1. TypeOK /\ Fit(room) /\ open \subseteq ConnIds
        /\ reg \in [ConnIds -> Registrations \cup {None}]
  BY DEF IInv, TypeOK
<1>2. CASE OpenConnection
  <2>1. MaxConns \in Nat /\ nextConn \in 1..(MaxConns + 1) /\ nextConn <= MaxConns
    BY <1>1, <1>2, BoundsAssumption DEF TypeOK, OpenConnection
  <2>2. nextConn \in ConnIds /\ nextConn + 1 \in 1..(MaxConns + 1)
    BY <2>1 DEF ConnIds
  <2>3. TypeOK'
    BY <1>1, <1>2, <2>2 DEF TypeOK, OpenConnection
  <2>4. RegisteredClients \subseteq RegisteredClients'
    BY <1>2 DEF OpenConnection, RegisteredClients
  <2>. QED  BY <1>2, <2>3, <2>4
       DEF IInv, OpenConnection, PolicyKept, ActiveOutputsConnected
<1>3. CASE RegisterConnection
  <2> DEFINE Left(c, n) == /\ reg[c] # None
                           /\ reg[c].client # n.client
                           /\ ~HasSibling(open, reg, c, reg[c].client)
             R(c, n) == IF Left(c, n) THEN RemoveActiveOutput(room, reg[c].client)
                        ELSE room
             Q(c, n) == RegisterDevice(R(c, n), n.client, n.default)
  <2>1. PICK c \in open, n \in Registrations :
          CommitExternal(Q(c, n), open, [reg EXCEPT ![c] = n])
    BY <1>3 DEF RegisterConnection
  <2> DEFINE g == [reg EXCEPT ![c] = n]
             r == R(c, n)
             q == Q(c, n)
  <2>2. n.client \in Devices /\ n.default \in BOOLEAN /\ n # None
    BY RegistrationsAssumption DEF Registrations
  <2>3. Fit(r) /\ r.mode = room.mode /\ r.multiple = room.multiple
    BY <1>1, RemoveActiveOutputFit
  <2>4. Active(r) \subseteq Active(room)
          /\ (Left(c, n) => reg[c].client \notin Active(r))
    BY <1>1, RemoveActiveOutputFit
  <2>. HIDE DEF R
  <2>5. Fit(q) /\ q.mode = room.mode /\ q.multiple = room.multiple
          /\ Active(q) \subseteq Active(r) \cup {n.client}
    BY <2>2, <2>3, RegisterDeviceFit
  <2>. HIDE DEF Q
  <2>6. g \in [ConnIds -> Registrations \cup {None}] /\ c \in ConnIds
          /\ g[c] = n /\ \A k \in open \ {c} : g[k] = reg[k]
    BY <1>1
  <2>7. ASSUME NEW d \in Active(q)
        PROVE  \E k \in open : g[k] # None /\ g[k].client = d
    <3>1. CASE d = n.client
      BY <2>2, <2>6, <3>1
    <3>2. CASE d # n.client
      <4>1. d \in Active(r) /\ d \in Active(room)
        BY <2>4, <2>5, <3>2
      <4>2. up
        BY <2>1 DEF CommitExternal
      <4>3. PICK k \in open : reg[k] # None /\ reg[k].client = d
        BY <4>1, <4>2 DEF IInv, ActiveOutputsConnected, RegisteredClients
      <4>4. CASE k # c
        BY <2>6, <4>3, <4>4
      <4>5. CASE k = c
        <5>1. HasSibling(open, reg, c, d)
          BY <2>4, <3>2, <4>1, <4>3, <4>5
        <5>. QED  BY <2>6, <5>1 DEF HasSibling
      <4>. QED  BY <4>4, <4>5
    <3>. QED  BY <3>1, <3>2
  <2>. HIDE DEF g, q
  <2>8. Active(q) \subseteq {g[k].client : k \in {k \in open : g[k] # None}}
    BY <2>7
  <2>9. CommitExternal(q, open, g)
    BY <2>1 DEF q, g
  <2>. QED  BY <1>1, <2>5, <2>6, <2>8, <2>9, CommitExternalInv
<1>4. CASE Disconnect
  <2> DEFINE Left(c) == reg[c] # None /\ ~HasSibling(open, reg, c, reg[c].client)
             R(c) == IF Left(c) THEN RemoveActiveOutput(room, reg[c].client) ELSE room
  <2>1. PICK c \in open : CommitExternal(R(c), open \ {c}, [reg EXCEPT ![c] = None])
    BY <1>4 DEF Disconnect
  <2> DEFINE g == [reg EXCEPT ![c] = None]
             r == R(c)
             o == open \ {c}
  <2>2. Fit(r) /\ r.mode = room.mode /\ r.multiple = room.multiple
    BY <1>1, RemoveActiveOutputFit
  <2>3. Active(r) \subseteq Active(room)
          /\ (Left(c) => Active(r) \subseteq Active(room) \ {reg[c].client})
    BY <1>1, RemoveActiveOutputFit
  <2>. HIDE DEF R
  <2>4. g \in [ConnIds -> Registrations \cup {None}]
          /\ \A k \in o : g[k] = reg[k]
    BY <1>1
  <2>5. up
    BY <2>1 DEF CommitExternal
  <2>6. \A d \in Active(r) : \E k \in open \ {c} : reg[k] # None /\ reg[k].client = d
    BY <2>3, <2>5, LeavingServed
  <2>7. Active(r) \subseteq {g[k].client : k \in {k \in o : g[k] # None}}
    BY <2>4, <2>6
  <2>8. CommitExternal(r, o, g) /\ o \subseteq ConnIds
    BY <1>1, <2>1
  <2>. HIDE DEF g, r, o
  <2>. QED  BY <2>2, <2>4, <2>7, <2>8, CommitExternalInv
<1>5. CASE RefreshClientMetadata
  <2> DEFINE G(d, b, f) == [c \in ConnIds |->
                IF c \in open /\ reg[c] # None /\ reg[c].client = d
                  THEN [client |-> d, label |-> b, default |-> f] ELSE reg[c]]
  <2>1. PICK d \in Devices, b \in Labels, f \in BOOLEAN : reg' = G(d, b, f)
    BY <1>5 DEF RefreshClientMetadata
  <2>2. UNCHANGED <<up, now, lanes, room, revision, known, modes, deadlines,
                    dirty, open, nextConn, stored>>
    BY <1>5 DEF RefreshClientMetadata
  <2> DEFINE n == [client |-> d, label |-> b, default |-> f]
  <2>3. n \in Registrations /\ n.client = d
    BY DEF Registrations
  <2>4. n # None
    BY <2>3, RegistrationsAssumption
  <2>5. reg' \in [ConnIds -> Registrations \cup {None}]
    <3>. HIDE DEF n
    <3>1. G(d, b, f) = [c \in ConnIds |->
             IF c \in open /\ reg[c] # None /\ reg[c].client = d THEN n ELSE reg[c]]
      BY DEF n
    <3>. QED  BY <1>1, <2>1, <2>3, <3>1
  <2>6. \A c \in open : reg[c] # None =>
          reg'[c] # None /\ reg'[c].client = reg[c].client
    BY <1>1, <2>1, <2>3, <2>4
  <2>7. TypeOK'
    BY <1>1, <2>2, <2>5 DEF TypeOK
  <2>8. RegisteredClients \subseteq RegisteredClients'
    BY <2>2, <2>6 DEF RegisteredClients
  <2>. QED  BY <2>2, <2>7, <2>8
       DEF IInv, PolicyKept, ActiveOutputsConnected
<1>. QED  BY <1>2, <1>3, <1>4, <1>5 DEF Connection

(* A newly loaded catalog, with what it prunes, keeps the invariant. *)
LEMMA ReplaceCatalogInv ==
  ASSUME IInv, NEW S \in (SUBSET Tracks) \cup {None},
         NEW m \in ModeCatalogs \cup {None}, NEW content \in BOOLEAN,
         ReplaceCatalog(S, m, content)
  PROVE  IInv'
<1> DEFINE l == IF S = None THEN lanes ELSE PruneLanes(lanes, S, now)
           r == PruneRoom(room, m, content)
<1>1. TypeOK /\ up /\ now \in Nat /\ revision \in Nat /\ Sound(lanes, now)
        /\ Fit(room) /\ Active(room) \subseteq RegisteredClients
        /\ Timers(deadlines)
  BY Parts DEF IInv, TypeOK, ReplaceCatalog, ActiveOutputsConnected
<1>2. Sound(l, now)
  BY <1>1, PruneLanesSound
<1>3. Fit(r) /\ Active(r) \subseteq RegisteredClients
        /\ (m # None => r.multiple = AllowsMultipleOutputs(r, m))
  BY <1>1, ModesTyped, PruneRoomFit
<1>. HIDE DEF l, r
<1>4. CASE /\ l = lanes /\ r = room /\ known' = S /\ modes' = m
           /\ UNCHANGED <<up, now, lanes, room, revision, deadlines, dirty,
                          open, reg, nextConn, stored>>
  <2>1. TypeOK'
    BY <1>1, <1>4 DEF TypeOK
  <2>2. RegisteredClients' = RegisteredClients
    BY <1>4 DEF RegisteredClients
  <2>3. PolicyKept' /\ ActiveOutputsConnected'
    BY <1>1, <1>3, <1>4, <2>2 DEF PolicyKept, ActiveOutputsConnected
  <2>. QED  BY <1>1, <1>4, <2>1, <2>3 DEF IInv
<1>5. CASE Installed(l, r, deadlines, {}) /\ known' = S /\ modes' = m
  <2>1. known' \in (SUBSET Tracks) \cup {None}
          /\ modes' \in ModeCatalogs \cup {None}
          /\ (modes' # None => r.multiple = AllowsMultipleOutputs(r, modes'))
    BY <1>3, <1>5
  <2>. QED  BY <1>1, <1>2, <1>3, <1>5, <2>1, InstalledInv
<1>6. CASE Halt(Document(l, r, revision + 1, now))
  <2>1. Document(l, r, revision + 1, now) \in Documents
    BY <1>1, <1>2, <1>3, DocumentType
  <2>. QED  BY <1>1, <1>6, <2>1, HaltInv
<1>. QED  BY <1>4, <1>5, <1>6 DEF ReplaceCatalog, NextRevision, l, r

(* The timers after a round are typed. *)
LEMMA RearmedType ==
  ASSUME IInv
  PROVE  Timers(Rearmed)
<1> DEFINE ids == {i \in DOMAIN deadlines : i \in DueLoops
                                     => \E l \in room.loops : l.id = i}
           f == Rearmed
<1>1. now \in Nat /\ Timers(deadlines) /\ room.loops \in SUBSET LoopingSfx
  BY Parts DEF Fit, RoomStates
<1>2. ids \subseteq LoopIds /\ ids \subseteq DOMAIN deadlines
  BY <1>1 DEF Timers
<1>3. f = [id \in ids |-> IF id \in DueLoops THEN now + LoopWith(room.loops, id).every
                                             ELSE deadlines[id]]
  BY DEF Rearmed
<1>4. ASSUME NEW id \in ids
      PROVE  (IF id \in DueLoops THEN now + LoopWith(room.loops, id).every
                                 ELSE deadlines[id]) \in Nat
  <2>1. CASE id \in DueLoops
    <3>1. \E l \in room.loops : l.id = id
      BY <2>1
    <3>2. LoopWith(room.loops, id) \in room.loops
      BY <3>1 DEF LoopWith
    <3>3. LoopWith(room.loops, id).every \in Nat
      BY <1>1, <3>2, IntervalsAssumption DEF LoopingSfx
    <3>. QED  BY <1>1, <2>1, <3>3
  <2>2. CASE id \notin DueLoops
    BY <1>1, <1>2, <2>2 DEF Timers
  <2>. QED  BY <2>1, <2>2
<1>. HIDE DEF ids, f
<1>5. f \in [ids -> Nat] /\ DOMAIN f = ids
  BY <1>3, <1>4
<1>6. Timers(f)
  BY <1>2, <1>5 DEF Timers
<1>. QED  BY <1>6 DEF f

(* The timer branch keeps the invariant: the advancer skips like a client, *)
(* and a round of effects changes timers alone.                            *)
LEMMA RunDueEffectsInv ==
  ASSUME IInv, RunDueEffects
  PROVE  IInv'
<1>1. Sound(lanes, now) /\ now \in Nat /\ Fit(room) /\ TypeOK /\ Timers(Rearmed)
  BY Parts, RearmedType
<1>2. ASSUME NEW l, Sound(l, now), Commit(l, room, Rearmed, {}) PROVE IInv'
  <2>1. Active(room) \subseteq RegisteredClients
    BY <1>2 DEF Commit, Bounded, IInv, ActiveOutputsConnected
  <2>. QED  BY <1>1, <1>2, <2>1, CommitInv
<1>3. CASE Commit(InterruptSkipNext(lanes, lanes.interrupt.track, now), room,
                  Rearmed, {})
  <2>1. Sound(InterruptSkipNext(lanes, lanes.interrupt.track, now), now)
    BY <1>1, InterruptSkipNextSound
  <2>. QED  BY <1>2, <1>3, <2>1
<1>4. CASE \E choice \in QueueChoices :
             Commit(AmbientSkipNext(lanes, Follower(lanes.track), lanes.track,
                                    choice, now), room, Rearmed, {})
  BY <1>2, <1>4, SkipSound
<1>5. CASE /\ deadlines' = Rearmed
           /\ UNCHANGED <<up, now, lanes, room, revision, known, modes, dirty,
                          open, reg, nextConn, stored, published>>
  <2>1. TypeOK'
    BY <1>1, <1>5 DEF TypeOK, Timers
  <2>2. RegisteredClients' = RegisteredClients
    BY <1>5 DEF RegisteredClients
  <2>. QED  BY <1>1, <1>5, <2>1, <2>2
       DEF IInv, PolicyKept, ActiveOutputsConnected
<1>. QED  BY <1>3, <1>4, <1>5 DEF RunDueEffects

(* The flush, time, the end of the process and a start keep the invariant. *)
LEMMA ProcessInv ==
  ASSUME IInv, FlushPosition \/ Tick \/ Crash \/ Shutdown \/ Start
  PROVE  IInv'
<1>1. Sound(lanes, now) /\ now \in Nat /\ Fit(room) /\ TypeOK
        /\ revision \in Nat /\ stored \in Documents
  BY Parts DEF TypeOK
<1>2. Document(lanes, room, revision, now) \in Documents
  BY <1>1, DocumentType
<1>3. CASE FlushPosition
  <2>1. TypeOK'
    BY <1>1, <1>2, <1>3 DEF TypeOK, FlushPosition
  <2>2. RegisteredClients' = RegisteredClients
    BY <1>3 DEF RegisteredClients, FlushPosition
  <2>. QED  BY <1>1, <1>3, <2>1, <2>2
       DEF IInv, PolicyKept, ActiveOutputsConnected, FlushPosition
<1>4. CASE Tick
  <2>1. now' = now + 1 /\ UNCHANGED <<up, lanes, room, revision, known, modes,
          deadlines, dirty, open, reg, nextConn, stored>>
    BY <1>4 DEF Tick
  <2>2. Sound(lanes', now')
    BY <1>1, <2>1, LaterSound
  <2>3. TypeOK'
    BY <1>1, <2>1 DEF TypeOK
  <2>4. RegisteredClients' = RegisteredClients
    BY <2>1 DEF RegisteredClients
  <2>. QED  BY <1>1, <2>1, <2>2, <2>3, <2>4
       DEF IInv, PolicyKept, ActiveOutputsConnected
<1>5. CASE Crash
  BY <1>1, <1>5, HaltInv DEF Crash
<1>6. CASE Shutdown
  <2>1. (IF dirty THEN Document(lanes, room, revision, now) ELSE stored) \in Documents
    BY <1>1, <1>2
  <2>2. Halt(IF dirty THEN Document(lanes, room, revision, now) ELSE stored)
    BY <1>6 DEF Shutdown
  <2>. QED  BY <1>1, <2>1, <2>2, HaltInv
<1>7. CASE Start
  <2> DEFINE l == NormalizeForStartup(stored.lanes)
             r == NormalizeRoom(stored.room)
  <2>1. stored.lanes \in LaneStates /\ stored.room \in RoomStates
          /\ stored.revision \in Nat
    BY <1>1 DEF Documents
  <2>2. Sound(l, now) /\ Fit(r) /\ Active(r) = {}
    BY <1>1, <2>1, NormalizeSound, NormalizeRoomFit
  <2>3. /\ ~up /\ up' = TRUE /\ lanes' = l /\ room' = r
        /\ revision' = stored.revision
        /\ stored' = Document(l, r, stored.revision, now)
        /\ UNCHANGED <<now, known, modes, deadlines, dirty, open, reg, nextConn>>
    BY <1>7 DEF Start
  <2>. HIDE DEF l, r
  <2>4. stored' \in Documents /\ l \in LaneStates /\ r \in RoomStates
    BY <1>1, <2>1, <2>2, <2>3, DocumentType DEF Sound, Fit
  <2>5. TypeOK'
    BY <1>1, <2>1, <2>3, <2>4 DEF TypeOK
  <2>6. modes = None
    BY <2>3 DEF IInv
  <2>. QED  BY <1>1, <2>2, <2>3, <2>5, <2>6
       DEF IInv, PolicyKept, ActiveOutputsConnected
<1>. QED  BY <1>3, <1>4, <1>5, <1>6, <1>7

-----------------------------------------------------------------------------
(* The theorems.                                                           *)

(* The first start satisfies the invariant. *)
LEMMA InitInv == Init => IInv
<1>. SUFFICES ASSUME Init PROVE IInv
  OBVIOUS
<1>1. Sound(DefaultLanes, 0) /\ Fit(DefaultRoom) /\ MaxConns \in Nat
  BY DefaultLanesSound, DefaultRoomFit, BoundsAssumption
<1>2. Document(DefaultLanes, DefaultRoom, 0, 0) \in Documents
        /\ DefaultLanes \in LaneStates /\ DefaultRoom \in RoomStates
  BY <1>1, DocumentType DEF Sound, Fit
<1>3. Timers(<<>>)
  BY DEF Timers
<1>4. Timers(deadlines)
  BY <1>3 DEF Init
<1>5. nextConn \in 1..(MaxConns + 1) /\ open \subseteq ConnIds
        /\ reg \in [ConnIds -> Registrations \cup {None}]
  BY <1>1 DEF Init
<1>6. TypeOK
  BY <1>2, <1>4, <1>5 DEF Init, TypeOK, Timers
<1>7. Active(DefaultRoom) = {}
  BY DEF Active, DefaultRoom, ToSet
<1>. QED  BY <1>1, <1>6, <1>7 DEF Init, IInv, PolicyKept, ActiveOutputsConnected

(* Every step keeps the invariant, one case per group of actions. *)
LEMMA NextInv == IInv /\ [Next]_vars => IInv'
<1>. SUFFICES ASSUME IInv, [Next]_vars PROVE IInv'
  OBVIOUS
<1>1. CASE TransportCommand
  BY <1>1, TransportInv
<1>2. CASE RoomCommand
  BY <1>2, RoomInv
<1>3. CASE Connection
  BY <1>3, ConnectionInv
<1>4. CASE ReplaceLibraryCatalog
  <2>1. PICK S \in SUBSET Tracks : ReplaceCatalog(S, modes, FALSE)
    BY <1>4 DEF ReplaceLibraryCatalog
  <2>2. modes \in ModeCatalogs \cup {None}
    BY DEF IInv, TypeOK
  <2>. QED  BY <2>1, <2>2, ReplaceCatalogInv
<1>5. CASE ReplaceModeCatalog
  <2>1. PICK m \in ModeCatalogs, content \in BOOLEAN :
          ReplaceCatalog(known, m, content)
    BY <1>5 DEF ReplaceModeCatalog
  <2>2. known \in (SUBSET Tracks) \cup {None}
    BY DEF IInv, TypeOK
  <2>. QED  BY <2>1, <2>2, ReplaceCatalogInv
<1>6. CASE RunDueEffects
  BY <1>6, RunDueEffectsInv
<1>7. CASE FlushPosition \/ Tick \/ Crash \/ Shutdown \/ Start
  BY <1>7, ProcessInv
<1>8. CASE UNCHANGED vars
  <2>1. RegisteredClients' = RegisteredClients
    BY <1>8 DEF vars, RegisteredClients
  <2>2. TypeOK'
    BY <1>8 DEF IInv, TypeOK, vars
  <2>. QED  BY <1>8, <2>1, <2>2
       DEF vars, IInv, PolicyKept, ActiveOutputsConnected
<1>. QED  BY <1>1, <1>2, <1>3, <1>4, <1>5, <1>6, <1>7, <1>8 DEF Next

(* The inductive invariant holds always. *)
LEMMA Invariance == Spec => []IInv
BY InitInv, NextInv, PTL DEF Spec

(* Whatever the order of commands, reports, catalog publications, timers,  *)
(* crashes and restarts, every variable keeps its type: no reference goes  *)
(* wrong and no CHOOSE of the model falls on an empty set.                 *)
THEOREM TypeCorrect == Spec => []TypeOK
<1>1. IInv => TypeOK
  BY DEF IInv
<1>. QED  BY <1>1, Invariance, PTL

(* A clock never runs where nothing sounds, for every number of tracks and *)
(* every length of queues and runs.                                        *)
THEOREM ClocksCorrect == Spec => []ClockInv
<1>1. IInv => ClockInv
  BY DEF IInv, Sound, ClockInv
<1>. QED  BY <1>1, Invariance, PTL

(* With no interrupt above it, the ambient clock runs exactly when the     *)
(* room plays a track: no order of pauses, interrupts, cues, prunings and  *)
(* restarts leaves it stuck or running silently.                           *)
THEOREM ClockNeverStuck == Spec => []ClockRunsWhenHeard
<1>1. IInv => ClockRunsWhenHeard
  BY DEF IInv, Sound, ClockRunsWhenHeard
<1>. QED  BY <1>1, Invariance, PTL

(* A room whose active mode allows one output never has two, through mode  *)
(* switches, catalog reloads and default outputs that connect.             *)
THEOREM PolicyCorrect == Spec => []SingleOutput
<1>1. IInv => SingleOutput
  BY DEF IInv, Fit, PolicyKept, SingleOutput
<1>. QED  BY <1>1, Invariance, PTL

(* Outputs are on only for clients with an open, registered connection,    *)
(* for any number of clients and connections.                              *)
THEOREM OutputsServed == Spec => []ActiveOutputsConnected
<1>1. IInv => ActiveOutputsConnected
  BY DEF IInv
<1>. QED  BY <1>1, Invariance, PTL
=============================================================================
