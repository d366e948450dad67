--------------------------- MODULE PlaybackActor ---------------------------
(***************************************************************************)
(* The owner of playback, music-application/playback/actor.rs: one task    *)
(* that holds the state, the catalogs, the live connections and the timers *)
(* and serves one message at a time.  A command is reduced (modules        *)
(* PlaybackLanes and PlaybackRoom), saved with a compare-and-swap, then    *)
(* installed and published; the task may die at the save.                  *)
(*                                                                         *)
(* The store is written before anything else changes and nobody reads it   *)
(* while the owner lives, so a save that succeeds is one step with the     *)
(* installation, and a save at which the process ends is a Halt with it.   *)
(* A command the code rejects or answers with "unchanged" is no step.      *)
(***************************************************************************)
EXTENDS PlaybackLanes, PlaybackRoom

CONSTANTS
  Duration,         \* Tracks -> Nat, 0 when the length is unknown
  Grace,            \* track_end_grace
  UnknownDuration,  \* interrupt_unknown_duration
  Playlists,        \* track sequences that requests may carry
  Positions,        \* positions that requests and reports may carry
  Cues,             \* resolved cues that requests may carry
  ModeCatalogs,     \* mode catalogs the mode coordinator may publish
  Labels,           \* what a client shows besides its id: its names
  MaxConns,         \* bound: connections opened in one process
  MaxQueue,         \* bound: queue length that AmbientEnqueue may grow
  MaxNow,           \* bound: monotonic time
  MaxEpoch,         \* bound: position_epoch, u64 in the code
  MaxRevision       \* bound: publication_revision, u64 in the code

ASSUME DurationAssumption == Duration \in [Tracks -> Nat]
ASSUME TimingAssumption == Grace \in Nat /\ UnknownDuration \in Nat \ {0}
ASSUME PlaylistsAssumption == \A ts \in Playlists : ts \in Seq(Tracks)
ASSUME PositionsAssumption == Positions \subseteq Nat
ASSUME BoundsAssumption ==
  {MaxConns, MaxQueue, MaxNow, MaxEpoch, MaxRevision} \subseteq Nat

CueContents ==
  [cue: CueIds, mode: ModeIds, preset: SUBSET Presets,
   crossfade: Crossfades \cup {None}, tracks: Seq(Tracks), start: Nat \ {0},
   at: Nat, loops: SUBSET LoopingSfx]
ASSUME CuesAssumption == \A c \in Cues : c \in CueContents
ASSUME ModeCatalogsAssumption ==
  /\ None \notin ModeCatalogs
  /\ \A m \in ModeCatalogs : DOMAIN m \subseteq ModeIds /\ m \in [DOMAIN m -> Modes]

VARIABLES
  up,          \* the process runs and the owner task serves messages
  now,         \* SystemPlaybackClock: time since the process started
  lanes, room, \* PlaybackState, in two parts
  revision,    \* PlaybackState.publication_revision
  known,       \* CatalogSnapshot.tracks: None or the set of loaded tracks
  modes,       \* CatalogSnapshot.modes: None or a mode catalog
  deadlines,   \* loop_deadlines_ms
  dirty,       \* dirty_position
  open, reg,   \* connections and their registrations
  nextConn,    \* next_connection_id
  stored,      \* the row of the playback table
  published    \* the newest value of the watch channel

vars == <<up, now, lanes, room, revision, known, modes, deadlines, dirty,
          open, reg, nextConn, stored, published>>

ConnIds == 1..MaxConns
Registrations == [client: Devices, label: Labels, default: BOOLEAN]
ASSUME RegistrationsAssumption == None \notin Registrations

-----------------------------------------------------------------------------
(* What leaves the owner.                                                  *)

MutantForgottenBump(v) == v

NextRevision(v) == v + 1

(* A publication without its clocks: positions are compared through the    *)
(* state itself.                                                           *)
Wire(l) ==
  [epoch |-> l.epoch, playing |-> l.playing, track |-> l.track,
   queue |-> l.queue, history |-> l.history, loop |-> l.loop,
   shuffle |-> l.shuffle,
   over |-> IF l.interrupt = None THEN None ELSE l.interrupt.track]

(* The clients shown as connected: for each client id the registration of  *)
(* its newest connection.                                                  *)
ConnectedClients(o, g) ==
  {g[c] : c \in {c \in o : /\ g[c] # None
                           /\ \A d \in o : d > c /\ g[d] # None
                                             => g[d].client # g[c].client}}

Publication(l, r, v, o, g) ==
  [revision |-> v, lanes |-> Wire(l), room |-> r,
   clients |-> ConnectedClients(o, g)]

Document(l, r, v, t) ==
  [lanes |-> PersistedLanes(l, t), room |-> PersistedRoom(r), revision |-> v]

-----------------------------------------------------------------------------
(* Looping effects' timers.                                                *)

LoopWith(loops, id) == CHOOSE l \in loops : l.id = id

MutantKeptDeadline(base, before, after, restarted) ==
  [id \in {l.id : l \in after} |->
     IF id \in DOMAIN base THEN base[id] ELSE now + LoopWith(after, id).every]

(* A loop keeps its deadline unless the commit changed or restarted it. *)
ReconcileDeadlines(base, before, after, restarted) ==
  [id \in {l.id : l \in after} |->
     IF /\ id \in DOMAIN base \ restarted
        /\ LoopWith(after, id) \in before
       THEN base[id]
       ELSE now + LoopWith(after, id).every]

-----------------------------------------------------------------------------
(* Saving.                                                                 *)

(* The process is gone, and with it all but the stored row.  When it ends  *)
(* at a save, the row holds the new document although nothing was          *)
(* installed or published; a save that fails leaves the row as it was and  *)
(* ends the owner too.                                                     *)
Halt(doc) ==
  /\ stored' = doc
  /\ up' = FALSE
  /\ now' = 0
  /\ lanes' = DefaultLanes /\ room' = DefaultRoom /\ revision' = 0
  /\ known' = None /\ modes' = None
  /\ deadlines' = <<>> /\ dirty' = FALSE
  /\ open' = {} /\ reg' = [c \in ConnIds |-> None] /\ nextConn' = 1
  /\ published' = Publication(DefaultLanes, DefaultRoom, 0, {}, reg')

(* Save, install, publish. *)
Installed(l, r, base, restarted) ==
  /\ stored' = Document(l, r, NextRevision(revision), now)
  /\ lanes' = l
  /\ room' = r
  /\ revision' = NextRevision(revision)
  /\ deadlines' = ReconcileDeadlines(base, room.loops, r.loops, restarted)
  /\ dirty' = FALSE
  /\ published' = Publication(l, r, NextRevision(revision), open, reg)
  /\ UNCHANGED <<up, now, open, reg, nextConn>>

Bounded(l) == up /\ revision < MaxRevision /\ l.epoch <= MaxEpoch

MutantNoPolicy(r) == r

(* A mode switch also switches the output policy, in the same commit. *)
Policed(r) ==
  IF modes = None THEN r
  ELSE ApplyOutputPolicy(r, AllowsMultipleOutputs(r, modes))

(* The Immediate branch of execute, once the reducer reported a change. *)
Commit(l, r, base, restarted) ==
  /\ Bounded(l)
  /\ \/ /\ Installed(l, Policed(r), base, restarted)
        /\ UNCHANGED <<known, modes>>
     \/ Halt(Document(l, Policed(r), NextRevision(revision), now))

ExecuteLanes(l) == l # lanes /\ Commit(l, room, deadlines, {})
ExecuteRoom(r) == r # room /\ Commit(lanes, r, deadlines, {})

-----------------------------------------------------------------------------
(* Transport commands.  References are checked against the loaded catalog. *)

TracksValid(ts) == ts # <<>> => known # None /\ ToSet(ts) \subseteq known

DoSetPlaying ==
  \E playing \in BOOLEAN : ExecuteLanes(SetPlaying(lanes, playing, now))

DoAmbientPlayTrack ==
  \E t \in Tracks :
    TracksValid(<<t>>) /\ ExecuteLanes(AmbientPlayTrack(lanes, t, now))

DoAmbientPlaySequence ==
  \E ts \in Playlists : \E i \in DOMAIN ts :
    TracksValid(ts) /\ ExecuteLanes(AmbientPlaySequence(lanes, ts, i, now))

(* AmbientClearQueue is the case ts = <<>>, which needs no catalog. *)
DoAmbientSetQueue ==
  \E ts \in Playlists \cup {<<>>} :
    TracksValid(ts) /\ ExecuteLanes(AmbientSetQueue(lanes, ts))

DoAmbientJumpQueue ==
  \E i \in DOMAIN lanes.queue : ExecuteLanes(AmbientJumpQueue(lanes, i, now))

DoAmbientEnqueue ==
  \E t \in Tracks, i \in 1..(MaxQueue + 1) :
    /\ Len(lanes.queue) < MaxQueue
    /\ TracksValid(<<t>>)
    /\ ExecuteLanes(AmbientEnqueue(lanes, t, i))

(* The track after t in path order, wrapping around: follow_next_id of the *)
(* catalog.  Ids stand for paths.                                          *)
FollowNext(t, S) ==
  LET later == {u \in S : u > t}
  IN  CHOOSE u \in (IF later = {} THEN S ELSE later) :
        \A w \in (IF later = {} THEN S ELSE later) : u <= w

(* The owner resolves the follower itself, from its own catalog. *)
Follower(t) ==
  IF /\ lanes.loop = "follow" /\ lanes.queue = <<>>
     /\ known # None /\ t # None /\ t \in known
    THEN FollowNext(t, known) ELSE None

QueueChoices == IF lanes.shuffle /\ lanes.queue # <<>> THEN DOMAIN lanes.queue
                                                       ELSE {1}

(* `expected` is the track whose end the sender observed, or None when a   *)
(* user asks.                                                              *)
DoAmbientSkipNext ==
  \E expected \in Tracks \cup {None}, choice \in QueueChoices :
    ExecuteLanes(AmbientSkipNext(lanes, Follower(lanes.track), expected,
                                 choice, now))

DoAmbientSkipPrevious == ExecuteLanes(AmbientSkipPrevious(lanes, now))

DoAmbientSeek ==
  \E p \in Positions : ExecuteLanes(AmbientSeek(lanes, p, now))

DoAmbientSetLoop ==
  \E mode \in LoopModes : ExecuteLanes([lanes EXCEPT !.loop = mode])

DoAmbientSetShuffle ==
  \E shuffle \in BOOLEAN : ExecuteLanes([lanes EXCEPT !.shuffle = shuffle])

DoAmbientStop == ExecuteLanes(AmbientStop(lanes))

DoFireInterrupt ==
  \E ts \in Playlists, returns \in BOOLEAN, ducks \in BOOLEAN :
    /\ TracksValid(ts)
    /\ ExecuteLanes(FireInterrupt(lanes, ts, returns, ducks, now))

DoInterruptSkipNext ==
  \E expected \in Tracks \cup {None} :
    ExecuteLanes(InterruptSkipNext(lanes, expected, now))

DoInterruptSeek ==
  \E p \in Positions : ExecuteLanes(InterruptSeek(lanes, p, now))

DoCancelInterrupt == ExecuteLanes(EndInterrupt(lanes, now))

(* Only an active output may report; the report is installed at once but   *)
(* neither published nor saved (PersistenceIntent::Throttled).             *)
DoReportPosition ==
  \E d \in Devices, p \in Positions :
    /\ up
    /\ d \in Active(room)
    /\ lanes' = ReportPosition(lanes, p, now)
    /\ dirty' = TRUE
    /\ UNCHANGED <<up, now, room, revision, known, modes, deadlines, open, reg,
                   nextConn, stored, published>>

MutantFlushWithoutSave ==
  /\ up /\ dirty /\ dirty' = FALSE
  /\ UNCHANGED <<up, now, lanes, room, revision, known, modes, deadlines, open,
                 reg, nextConn, stored, published>>

(* The periodic flush of a reported position. *)
FlushPosition ==
  /\ up /\ dirty
  /\ stored' = Document(lanes, room, revision, now)
  /\ dirty' = FALSE
  /\ UNCHANGED <<up, now, lanes, room, revision, known, modes, deadlines, open,
                 reg, nextConn, published>>

-----------------------------------------------------------------------------
(* Room commands.                                                          *)

DoSetActiveMode ==
  \E m \in ModeIds \cup {None} :
    /\ m # None => modes # None /\ m \in DOMAIN modes
    /\ ExecuteRoom(SetActiveMode(room, m))

DoSetActiveSoundboard ==
  \E b \in Boards \cup {None} :
    /\ b # None => BoardKnown(room, modes, b)
    /\ ExecuteRoom(SetActiveSoundboard(room, b))

DoSetActivePresets ==
  \E ps \in SUBSET Presets, x \in Crossfades \cup {None} :
    /\ PresetsKnown(room, modes, ps)
    /\ ExecuteRoom(SetActivePresets(room, ps, x))

DoSetCrossfade == \E x \in Crossfades : ExecuteRoom(SetCrossfade(room, x))

DoSetDeviceVolume ==
  \E d \in Devices, v \in Volumes : ExecuteRoom(SetDeviceVolume(room, d, v))

RegisteredClients == {reg[c].client : c \in {c \in open : reg[c] # None}}

(* Requested outputs, in order and possibly repeated; only outputs that    *)
(* are not on yet must be connected.                                       *)
DoSetActiveOutputs ==
  \E ds \in UNION {[1..n -> Devices] : n \in 0..2} :
    /\ ToSet(ds) \subseteq Active(room) \cup RegisteredClients
    /\ ExecuteRoom(SetActiveOutputs(room, ds))

DoStartLoop ==
  \E l \in LoopingSfx :
    /\ ItemKnown(room, modes, l.board, l.item)
    /\ Commit(lanes, StartLoop(room, l), deadlines, {l.id})

DoStopLoop == \E id \in LoopIds : ExecuteRoom(StopLoop(room, id))

CueValid(c) ==
  /\ room.mode = c.mode
  /\ HasMode(room, modes)
  /\ c.cue \in ModeOf(room, modes).cues
  /\ PresetsKnown(room, modes, c.preset)
  /\ TracksValid(c.tracks)
  /\ \A l \in c.loops : /\ CueOf[l.id] = c.cue
                        /\ ItemKnown(room, modes, l.board, l.item)
  /\ \A k, l \in c.loops : k.id = l.id => k = l   \* fire_cue: numbered in the cue

(* One button: preset, playlist and loops in one commit. *)
DoFireCue ==
  \E c \in Cues :
    LET r == CueLoops(IF c.preset = {} THEN room
                      ELSE SetActivePresets(room, c.preset, c.crossfade),
                      c.cue, c.loops)
        l == IF c.tracks = <<>> THEN lanes
             ELSE CuePlaylist(lanes, c.tracks, c.start, c.at, now)
    IN  /\ CueValid(c)
        /\ c.loops # {} \/ r # room \/ l # lanes
        /\ Commit(l, r, deadlines, {k.id : k \in c.loops})

-----------------------------------------------------------------------------
(* The timer branch.                                                       *)

DueLoops == {id \in DOMAIN deadlines : deadlines[id] <= now}

(* Due loops fire and are armed for their next round; a deadline whose     *)
(* loop is gone is dropped.                                                *)
Rearmed ==
  [id \in {i \in DOMAIN deadlines : i \in DueLoops
                                     => \E l \in room.loops : l.id = i} |->
     IF id \in DueLoops THEN now + LoopWith(room.loops, id).every
                        ELSE deadlines[id]]

HasLength(t) == known # None /\ t \in known /\ Duration[t] > 0

(* Time until the advancer takes a lane's track for ended.  An interrupt   *)
(* of unknown length is given one; such an ambient track is left to the    *)
(* outputs.                                                                *)
InterruptRemaining ==
  (IF HasLength(lanes.interrupt.track) THEN Duration[lanes.interrupt.track]
                                       ELSE UnknownDuration)
    + Grace - PositionAt(lanes.interrupt.pos, lanes.interrupt.anchor, now)

AmbientTimed ==
  lanes.track # None /\ lanes.anchor # None /\ HasLength(lanes.track)

AmbientRemaining ==
  Duration[lanes.track] + Grace - PositionAt(lanes.pos, lanes.anchor, now)

(* The lane that ends first is the one advanced, the interrupt on a tie. *)
InterruptDue ==
  /\ lanes.interrupt # None
  /\ InterruptRemaining <= 0
  /\ AmbientTimed => InterruptRemaining <= AmbientRemaining

AmbientDue ==
  /\ AmbientTimed
  /\ AmbientRemaining <= 0
  /\ lanes.interrupt # None => AmbientRemaining < InterruptRemaining

RunDueEffects ==
  \/ /\ InterruptDue
     /\ Commit(InterruptSkipNext(lanes, lanes.interrupt.track, now), room,
               Rearmed, {})
  \/ /\ AmbientDue
     /\ \E choice \in QueueChoices :
          Commit(AmbientSkipNext(lanes, Follower(lanes.track), lanes.track,
                                 choice, now),
                 room, Rearmed, {})
  \/ /\ up /\ ~InterruptDue /\ ~AmbientDue /\ DueLoops # {}
     /\ deadlines' = Rearmed
     /\ UNCHANGED <<up, now, lanes, room, revision, known, modes, dirty, open,
                    reg, nextConn, stored, published>>

-----------------------------------------------------------------------------
(* Connections.                                                            *)

(* A position report that waits for its flush goes with the next save. *)
NeedsSave(durable) == durable \/ dirty

(* commit_external_change: r, o and g are the room and the connections     *)
(* after the change.  A change of presence alone is published under a new  *)
(* revision but not saved.                                                 *)
CommitExternal(r, o, g) ==
  LET durable == r # room
      presence == ConnectedClients(o, g) # ConnectedClients(open, reg)
      saves == NeedsSave(durable)
      doc == Document(lanes, r, NextRevision(revision), now)
  IN  /\ up
      /\ \/ /\ ~durable /\ ~presence
            /\ open' = o /\ reg' = g
            /\ UNCHANGED <<up, now, lanes, room, revision, known, modes,
                           deadlines, dirty, nextConn, stored, published>>
         \/ /\ durable \/ presence
            /\ revision < MaxRevision
            /\ stored' = IF saves THEN doc ELSE stored
            /\ dirty' = FALSE
            /\ room' = r /\ revision' = NextRevision(revision)
            /\ open' = o /\ reg' = g
            /\ published' = Publication(lanes, r, NextRevision(revision), o, g)
            /\ UNCHANGED <<up, now, lanes, known, modes, deadlines, nextConn>>
         \/ /\ durable \/ presence
            /\ saves
            /\ revision < MaxRevision
            /\ Halt(doc)

OpenConnection ==
  /\ up
  /\ nextConn <= MaxConns
  /\ open' = open \cup {nextConn}
  /\ nextConn' = nextConn + 1
  /\ UNCHANGED <<up, now, lanes, room, revision, known, modes, deadlines, dirty,
                 reg, stored, published>>

MutantOwnSibling(o, g, c, d) == \E k \in o : g[k] # None /\ g[k].client = d

(* Some connection of o other than c is registered for client d. *)
HasSibling(o, g, c, d) ==
  \E k \in o \ {c} : g[k] # None /\ g[k].client = d

RegisterConnection ==
  \E c \in open, n \in Registrations :
    LET left == /\ reg[c] # None
                /\ reg[c].client # n.client
                /\ ~HasSibling(open, reg, c, reg[c].client)
        r == IF left THEN RemoveActiveOutput(room, reg[c].client) ELSE room
    IN  /\ reg[c] # n
        /\ CommitExternal(RegisterDevice(r, n.client, n.default),
                          open, [reg EXCEPT ![c] = n])

Disconnect ==
  \E c \in open :
    LET left == reg[c] # None /\ ~HasSibling(open, reg, c, reg[c].client)
    IN  CommitExternal(IF left THEN RemoveActiveOutput(room, reg[c].client)
                               ELSE room,
                       open \ {c}, [reg EXCEPT ![c] = None])

(* A device was renamed or its default changed: presence is published      *)
(* again, under the revision it has.                                       *)
RefreshClientMetadata ==
  \E d \in Devices, label \in Labels, default \in BOOLEAN :
    LET g == [c \in ConnIds |->
                IF c \in open /\ reg[c] # None /\ reg[c].client = d
                  THEN [client |-> d, label |-> label, default |-> default]
                  ELSE reg[c]]
    IN  /\ up
        /\ reg' = g
        /\ published' = IF ConnectedClients(open, g) # ConnectedClients(open, reg)
                          THEN Publication(lanes, room, revision, open, g)
                          ELSE published
        /\ UNCHANGED <<up, now, lanes, room, revision, known, modes, deadlines,
                       dirty, open, nextConn, stored>>

-----------------------------------------------------------------------------
(* Catalogs.                                                               *)

ReplaceCatalog(S, m, content) ==
  LET l == IF S = None THEN lanes ELSE PruneLanes(lanes, S, now)
      r == PruneRoom(room, m, content)
  IN  /\ up
      /\ \/ /\ l = lanes /\ r = room
            /\ known' = S /\ modes' = m
            /\ UNCHANGED <<up, now, lanes, room, revision, deadlines, dirty,
                           open, reg, nextConn, stored, published>>
         \/ /\ l # lanes \/ r # room
            /\ Bounded(l)
            /\ \/ /\ Installed(l, r, deadlines, {})
                  /\ known' = S /\ modes' = m
               \/ Halt(Document(l, r, NextRevision(revision), now))

ReplaceLibraryCatalog ==
  \E S \in SUBSET Tracks : ReplaceCatalog(S, modes, FALSE)

(* `content`: the publication says an active preset's content changed. *)
ReplaceModeCatalog ==
  \E m \in ModeCatalogs, content \in BOOLEAN :
    /\ content => room.mode # None /\ room.presets # {}
    /\ ReplaceCatalog(known, m, content)

-----------------------------------------------------------------------------
(* Time, crashes and restarts.                                             *)

Tick ==
  /\ up
  /\ now < MaxNow
  /\ now' = now + 1
  /\ UNCHANGED <<up, lanes, room, revision, known, modes, deadlines, dirty, open,
                 reg, nextConn, stored, published>>

(* The process dies, or the owner ends with a fatal error and takes the    *)
(* server with it.                                                         *)
Crash == up /\ Halt(stored)

(* Graceful shutdown: the position flush, then the end. *)
Shutdown ==
  up /\ Halt(IF dirty THEN Document(lanes, room, revision, now) ELSE stored)

(* Decode the row, normalize it, write it back, publish it. *)
Start ==
  LET l == NormalizeForStartup(stored.lanes)
      r == NormalizeRoom(stored.room)
  IN  /\ ~up
      /\ up' = TRUE
      /\ lanes' = l /\ room' = r /\ revision' = stored.revision
      /\ stored' = Document(l, r, stored.revision, now)
      /\ published' = Publication(l, r, stored.revision, {}, reg)
      /\ UNCHANGED <<now, known, modes, deadlines, dirty, open, reg, nextConn>>

(* The first start, which inserts the default row. *)
Init ==
  /\ up = TRUE
  /\ now = 0
  /\ lanes = DefaultLanes /\ room = DefaultRoom /\ revision = 0
  /\ known = None /\ modes = None
  /\ deadlines = <<>> /\ dirty = FALSE
  /\ open = {} /\ reg = [c \in ConnIds |-> None] /\ nextConn = 1
  /\ stored = Document(DefaultLanes, DefaultRoom, 0, 0)
  /\ published = Publication(DefaultLanes, DefaultRoom, 0, {},
                             [c \in ConnIds |-> None])

TransportCommand ==
  \/ DoSetPlaying \/ DoAmbientPlayTrack \/ DoAmbientPlaySequence
  \/ DoAmbientSetQueue \/ DoAmbientJumpQueue \/ DoAmbientEnqueue
  \/ DoAmbientSkipNext \/ DoAmbientSkipPrevious \/ DoAmbientSeek
  \/ DoAmbientSetLoop \/ DoAmbientSetShuffle \/ DoAmbientStop
  \/ DoFireInterrupt \/ DoInterruptSkipNext \/ DoInterruptSeek
  \/ DoCancelInterrupt \/ DoReportPosition

RoomCommand ==
  \/ DoSetActiveMode \/ DoSetActiveSoundboard \/ DoSetActivePresets
  \/ DoSetCrossfade \/ DoSetDeviceVolume \/ DoSetActiveOutputs
  \/ DoStartLoop \/ DoStopLoop \/ DoFireCue

Connection ==
  \/ OpenConnection \/ RegisterConnection \/ Disconnect
  \/ RefreshClientMetadata

Next ==
  \/ TransportCommand \/ RoomCommand \/ Connection
  \/ ReplaceLibraryCatalog \/ ReplaceModeCatalog
  \/ RunDueEffects \/ FlushPosition
  \/ Tick \/ Crash \/ Shutdown \/ Start

Spec == Init /\ [][Next]_vars

-----------------------------------------------------------------------------
(* Properties.                                                             *)

Documents == [lanes: LaneStates, room: RoomStates, revision: Nat]

(* Every variable has its type. *)
TypeOK ==
  /\ up \in BOOLEAN /\ now \in Nat
  /\ lanes \in LaneStates /\ room \in RoomStates /\ revision \in Nat
  /\ known \in (SUBSET Tracks) \cup {None}
  /\ modes \in ModeCatalogs \cup {None}
  /\ DOMAIN deadlines \subseteq LoopIds /\ deadlines \in [DOMAIN deadlines -> Nat]
  /\ dirty \in BOOLEAN
  /\ open \subseteq ConnIds /\ reg \in [ConnIds -> Registrations \cup {None}]
  /\ nextConn \in 1..(MaxConns + 1)
  /\ stored \in Documents

(* A clock never runs where nothing sounds: an anchored ambient lane plays *)
(* a track that no covering interrupt silences, and no anchor lies in the  *)
(* future (ambient_anchor, freeze_ambient and everyone who should have     *)
(* called them; a future anchor would hold the position still).            *)
ClockInv == Clocked(lanes, now)

(* With no interrupt above it, the ambient clock runs exactly when a track *)
(* is current and the room plays: pausing, resuming, ending an interrupt   *)
(* and pruning one away all leave the anchor as the flags say.             *)
ClockRunsWhenHeard == RunsWhenHeard(lanes)

(* When the catalog is loaded, the room references no track outside it,    *)
(* whatever the order of commands and catalog publications was             *)
(* (catalog_references_valid on the way in, prune_for_catalog after).      *)
NoDanglingTracks ==
  known # None =>
    /\ ToSet(lanes.queue) \cup ToSet(lanes.history) \subseteq known
    /\ lanes.track # None => lanes.track \in known
    /\ lanes.interrupt # None =>
         {lanes.interrupt.track} \cup ToSet(lanes.interrupt.queue) \subseteq known

(* The same for the mode, its soundboard and its presets. *)
NoDanglingRoom ==
  modes # None =>
    /\ room.mode # None => room.mode \in DOMAIN modes
    /\ room.board # None => BoardKnown(room, modes, room.board)
    /\ PresetsKnown(room, modes, room.presets)

(* A room whose mode does not allow several outputs never has more than    *)
(* one on, and the published flag is the active mode's, through mode       *)
(* switches, catalog reloads and default outputs connecting.               *)
SingleOutput ==
  /\ ~room.multiple => Len(room.outputs) <= 1
  /\ modes # None => room.multiple = AllowsMultipleOutputs(room, modes)

(* A live room only plays through clients that are connected: no order of  *)
(* registrations under changing ids, second connections and disconnects    *)
(* leaves an output on that nobody serves.                                 *)
ActiveOutputsConnected == up => Active(room) \subseteq RegisteredClients

(* Each looping effect has one timer, no timer outlives its effect and     *)
(* none is armed further away than one interval.                           *)
LoopDeadlines ==
  /\ \A k, l \in room.loops : k.id = l.id => k = l
  /\ DOMAIN deadlines = {l.id : l \in room.loops}
  /\ \A l \in room.loops : deadlines[l.id] <= now + l.every

(* What the clients see is what a restart would find: the stored row never *)
(* lags behind a publication (persist before publish, presence excepted).  *)
PublishedIsStored ==
  up => /\ \A f \in {"epoch", "playing", "track", "queue", "history", "loop",
                     "shuffle"} : stored.lanes[f] = published.lanes[f]
        /\ \A f \in {"mode", "board", "presets", "presetRevision", "crossfade",
                     "outputs", "volumes"} : stored.room[f] = published.room[f]

(* The position a frozen lane shows survives a restart as soon as the      *)
(* owner no longer counts it as unsaved.                                   *)
PausedPositionStored ==
  up /\ ~dirty /\ lanes.anchor = None => stored.lanes.pos = lanes.pos

(* Where the ambient lane stands now. *)
AmbientPosition == PositionAt(lanes.pos, lanes.anchor, now)
InterruptPosition ==
  PositionAt(lanes.interrupt.pos, lanes.interrupt.anchor, now)

(* The position of a lane whose clock runs moves with time, and otherwise  *)
(* stays.                                                                  *)
Continues(before, after, runs) ==
  after = IF runs /\ now' > now THEN AtMost(before + (now' - now), MaxPosition)
                                ELSE before

(* The two ways the position may change under an unchanged epoch: an       *)
(* output's report, and an interrupt the catalog removed.                  *)
Reported == dirty' /\ lanes' # lanes
InterruptPruned ==
  /\ lanes.interrupt # None /\ lanes'.interrupt = None
  /\ lanes'.epoch = lanes.epoch

(* Outputs seek when position_epoch changes and only then.  So a step that *)
(* leaves the epoch alone must not start another track, and must leave     *)
(* both lanes where they were: pausing, resuming, queue edits, catalog     *)
(* changes and the passing of time are all seen without a seek.            *)
EpochMarksMoves ==
  [][up /\ up' /\ lanes'.epoch = lanes.epoch /\ ~Reported =>
       /\ lanes'.track \in {lanes.track, None}
       /\ lanes'.track = lanes.track /\ ~InterruptPruned =>
            Continues(AmbientPosition, AmbientPosition', lanes.anchor # None)
       /\ lanes.interrupt # None /\ lanes'.interrupt # None =>
            /\ lanes'.interrupt.track = lanes.interrupt.track
            /\ Continues(InterruptPosition, InterruptPosition', TRUE)]_vars

(* As the clients' guide states it, without the exception for an interrupt *)
(* the catalog removed.                                                    *)
EpochMarksEveryMove ==
  [][up /\ up' /\ lanes'.epoch = lanes.epoch /\ ~Reported
        /\ lanes'.track = lanes.track =>
       Continues(AmbientPosition, AmbientPosition', lanes.anchor # None)]_vars

(* Clients drop a publication older than the one they have.  Within one    *)
(* process a publication never goes back, and one with other lanes or      *)
(* another room is strictly newer.  The list of clients is not compared: a *)
(* rename is published under the revision there was (actor.rs:1130).       *)
RevisionOrders ==
  [][up /\ up' =>
       /\ published'.revision >= published.revision
       /\ \/ published'.lanes # published.lanes
          \/ published'.room # published.room
          => published'.revision > published.revision]_vars

(* No command, catalog or cue leaves a reference to what is gone. *)
NoDanglingReferences == NoDanglingTracks /\ NoDanglingRoom

(* What a restart finds is what clients were shown, and the position of a  *)
(* paused lane as it was reported last.                                    *)
StoredIsEnough == PublishedIsStored /\ PausedPositionStored
=============================================================================
