----------------------- MODULE PlaybackContentProofs -----------------------
(***************************************************************************)
(* What the owner of playback shows, stores and refers to, for every value *)
(* of the constants.                                                       *)
(*                                                                         *)
(* The proofs rest on IInv of PlaybackActorProofs and on two invariants of *)
(* their own.  Recorded: the published and the stored content are the      *)
(* state's, positions apart, and a pause is stored with its position.      *)
(* References: lanes and room name only what the loaded catalog has, no    *)
(* two loops share an id, and each loop has its timer.  Each comes in two  *)
(* layers: what every operator of the lanes and of the room keeps, then    *)
(* what every step of the owner makes of it.                               *)
(***************************************************************************)
EXTENDS PlaybackActorProofs

-----------------------------------------------------------------------------
(* How a step shows: every step of the owner is one of these.              *)

(* Nothing a client or a restart could see. *)
Quiet == UNCHANGED <<up, lanes, room, revision, dirty, stored, published>>

(* A position report: installed, neither stored nor published. *)
Reporting ==
  /\ \E p \in Positions : lanes' = ReportPosition(lanes, p, now)
  /\ dirty' = TRUE
  /\ UNCHANGED <<up, room, revision, stored, published>>

(* The flush of a report: stored, not published. *)
Flushing ==
  /\ stored' = Document(lanes, room, revision, now)
  /\ UNCHANGED <<up, lanes, room, revision, published>>

(* A commit: stored and published under the next revision. *)
Saving ==
  /\ revision' = revision + 1
  /\ stored' = Document(lanes', room', revision', now)
  /\ published' = Publication(lanes', room', revision', open', reg')
  /\ UNCHANGED up

(* A change of presence with nothing to store. *)
Showing ==
  /\ ~dirty /\ dirty' = FALSE
  /\ revision' = revision + 1
  /\ published' = Publication(lanes', room', revision', open', reg')
  /\ UNCHANGED <<up, lanes, room, stored>>

(* Clients renamed: published again under the same revision. *)
Renaming ==
  /\ \/ UNCHANGED published
     \/ published' = Publication(lanes', room', revision', open', reg')
  /\ UNCHANGED <<up, lanes, room, revision, dirty, stored>>

Starting ==
  /\ ~up
  /\ stored' = Document(lanes', room', revision', now)
  /\ published' = Publication(lanes', room', revision', {}, reg)

Outcome == Quiet \/ Reporting \/ Flushing \/ Saving \/ Showing \/ Renaming
             \/ Starting \/ ~up'

(* A command, a due timer or a catalog saves, or the process ends there. *)
LEMMA CommitOutcome ==
  ASSUME NEW l, NEW r, NEW base, NEW restarted, Commit(l, r, base, restarted)
  PROVE  Outcome
<1>1. CASE Halt(Document(l, Policed(r), NextRevision(revision), now))
  BY <1>1 DEF Halt, Outcome
<1>2. CASE Installed(l, Policed(r), base, restarted)
  BY <1>2 DEF Installed, NextRevision, Saving, Outcome
<1>. QED  BY <1>1, <1>2 DEF Commit

(* A change of presence is stored, only shown, or nothing at all. *)
LEMMA ExternalOutcome ==
  ASSUME NEW r, NEW o, NEW g, CommitExternal(r, o, g)
  PROVE  Outcome
<1> DEFINE doc == Document(lanes, r, NextRevision(revision), now)
           shown == Publication(lanes, r, NextRevision(revision), o, g)
<1>1. CASE UNCHANGED <<up, now, lanes, room, revision, known, modes,
                       deadlines, dirty, nextConn, stored, published>>
  BY <1>1 DEF Quiet, Outcome
<1>2. CASE Halt(doc)
  BY <1>2 DEF Halt, Outcome
<1>3. CASE /\ stored' = IF r # room \/ dirty THEN doc ELSE stored
           /\ dirty' = FALSE
           /\ room' = r /\ revision' = NextRevision(revision)
           /\ open' = o /\ reg' = g
           /\ published' = shown
           /\ UNCHANGED <<up, now, lanes, known, modes, deadlines, nextConn>>
  <2>1. CASE r # room \/ dirty
    BY <1>3, <2>1 DEF Saving, NextRevision, Outcome
  <2>2. CASE ~(r # room \/ dirty)
    BY <1>3, <2>2 DEF Showing, NextRevision, Outcome
  <2>. QED  BY <2>1, <2>2
<1>. QED  BY <1>1, <1>2, <1>3 DEF CommitExternal, NeedsSave

(* Replacing the catalog saves, whatever it has to repair. *)
LEMMA ReplaceOutcome ==
  ASSUME NEW S, NEW m, NEW content, ReplaceCatalog(S, m, content)
  PROVE  Outcome
<1> DEFINE l == IF S = None THEN lanes ELSE PruneLanes(lanes, S, now)
           r == PruneRoom(room, m, content)
<1>1. \/ UNCHANGED <<up, now, lanes, room, revision, deadlines, dirty,
                     open, reg, nextConn, stored, published>>
      \/ Installed(l, r, deadlines, {})
      \/ Halt(Document(l, r, NextRevision(revision), now))
  BY DEF ReplaceCatalog
<1>. HIDE DEF l, r
<1>2. CASE UNCHANGED <<up, now, lanes, room, revision, deadlines, dirty,
                       open, reg, nextConn, stored, published>>
  BY <1>2 DEF Quiet, Outcome
<1>3. CASE Installed(l, r, deadlines, {})
  BY <1>3 DEF Installed, NextRevision, Saving, Outcome
<1>4. CASE Halt(Document(l, r, NextRevision(revision), now))
  BY <1>4 DEF Halt, Outcome
<1>. QED  BY <1>1, <1>2, <1>3, <1>4

(* Every step of the owner is one of the outcomes. *)
LEMMA NextOutcome ==
  ASSUME [Next]_vars
  PROVE  Outcome
<1>1. ASSUME NEW l, ExecuteLanes(l) PROVE Outcome
  BY <1>1, CommitOutcome DEF ExecuteLanes
<1>2. ASSUME NEW r, ExecuteRoom(r) PROVE Outcome
  BY <1>2, CommitOutcome DEF ExecuteRoom
<1>3. CASE TransportCommand
  <2>1. CASE DoReportPosition
    BY <2>1 DEF DoReportPosition, Reporting, Outcome
  <2>2. CASE \/ DoSetPlaying \/ DoAmbientPlayTrack \/ DoAmbientPlaySequence
             \/ DoAmbientSetQueue \/ DoAmbientJumpQueue \/ DoAmbientEnqueue
    BY <1>1, <2>2 DEF DoSetPlaying, DoAmbientPlayTrack, DoAmbientPlaySequence,
       DoAmbientSetQueue, DoAmbientJumpQueue, DoAmbientEnqueue
  <2>3. CASE \/ DoAmbientSkipNext \/ DoAmbientSkipPrevious \/ DoAmbientSeek
             \/ DoAmbientSetLoop \/ DoAmbientSetShuffle \/ DoAmbientStop
    BY <1>1, <2>3 DEF DoAmbientSkipNext, DoAmbientSkipPrevious, DoAmbientSeek,
       DoAmbientSetLoop, DoAmbientSetShuffle, DoAmbientStop
  <2>4. CASE \/ DoFireInterrupt \/ DoInterruptSkipNext \/ DoInterruptSeek
             \/ DoCancelInterrupt
    BY <1>1, <2>4 DEF DoFireInterrupt, DoInterruptSkipNext, DoInterruptSeek,
       DoCancelInterrupt
  <2>. QED  BY <1>3, <2>1, <2>2, <2>3, <2>4 DEF TransportCommand
<1>4. CASE RoomCommand
  <2>1. CASE \/ DoSetActiveMode \/ DoSetActiveSoundboard \/ DoSetActivePresets
             \/ DoSetCrossfade \/ DoSetDeviceVolume \/ DoSetActiveOutputs
             \/ DoStopLoop
    BY <1>2, <2>1 DEF DoSetActiveMode, DoSetActiveSoundboard,
       DoSetActivePresets, DoSetCrossfade, DoSetDeviceVolume,
       DoSetActiveOutputs, DoStopLoop
  <2>2. CASE DoStartLoop \/ DoFireCue
    BY <2>2, CommitOutcome DEF DoStartLoop, DoFireCue
  <2>. QED  BY <1>4, <2>1, <2>2 DEF RoomCommand
<1>5. CASE Connection
  <2>1. CASE OpenConnection
    BY <2>1 DEF OpenConnection, Quiet, Outcome
  <2>2. CASE RegisterConnection \/ Disconnect
    BY <2>2, ExternalOutcome DEF RegisterConnection, Disconnect
  <2>3. CASE RefreshClientMetadata
    BY <2>3 DEF RefreshClientMetadata, Renaming, Outcome
  <2>. QED  BY <1>5, <2>1, <2>2, <2>3 DEF Connection
<1>6. CASE ReplaceLibraryCatalog \/ ReplaceModeCatalog
  BY <1>6, ReplaceOutcome DEF ReplaceLibraryCatalog, ReplaceModeCatalog
<1>7. CASE RunDueEffects
  <2>1. CASE UNCHANGED <<up, now, lanes, room, revision, known, modes, dirty,
                         open, reg, nextConn, stored, published>>
    BY <2>1 DEF Quiet, Outcome
  <2>. QED  BY <1>7, <2>1, CommitOutcome DEF RunDueEffects
<1>8. CASE FlushPosition
  BY <1>8 DEF FlushPosition, Flushing, Outcome
<1>9. CASE Tick \/ UNCHANGED vars
  BY <1>9 DEF Tick, vars, Quiet, Outcome
<1>10. CASE Crash \/ Shutdown
  BY <1>10 DEF Crash, Shutdown, Halt, Outcome
<1>11. CASE Start
  BY <1>11 DEF Start, Starting, Outcome
<1>. QED  BY <1>3, <1>4, <1>5, <1>6, <1>7, <1>8, <1>9, <1>10, <1>11 DEF Next

-----------------------------------------------------------------------------
(* What is shown and what is stored.                                       *)

(* Clients have been shown the state as it is, but for positions. *)
Shown ==
  up => /\ published.revision = revision
        /\ published.lanes = Wire(lanes)
        /\ published.room = room

SameLanes(d, l) ==
  /\ d.epoch = l.epoch /\ d.playing = l.playing /\ d.track = l.track
  /\ d.queue = l.queue /\ d.history = l.history /\ d.loop = l.loop
  /\ d.shuffle = l.shuffle

SameRoom(d, r) ==
  /\ d.mode = r.mode /\ d.board = r.board /\ d.presets = r.presets
  /\ d.presetRevision = r.presetRevision /\ d.crossfade = r.crossfade
  /\ d.outputs = r.outputs /\ d.volumes = r.volumes

(* A restart would find the state as it is, but for positions. *)
Backed == up => SameLanes(stored.lanes, lanes) /\ SameRoom(stored.room, room)

Recorded == Shown /\ Backed /\ PausedPositionStored

(* The document of a state has its settings, its queue and the position of *)
(* a frozen lane.                                                          *)
LEMMA DocumentFacts ==
  ASSUME NEW l \in LaneStates, NEW r \in RoomStates, NEW v, NEW t \in Nat
  PROVE  LET d == Document(l, r, v, t)
         IN  /\ SameLanes(d.lanes, l) /\ SameRoom(d.room, r)
             /\ l.anchor = None => d.lanes.pos = l.pos
<1> DEFINE f == FreezeAmbient(l, t)
           p == PersistedLanes(l, t)
           q == PersistedRoom(r)
           d == Document(l, r, v, t)
<1>1. SameLanes(f, l) /\ f.pos = PositionAt(l.pos, l.anchor, t)
        /\ "interrupt" \in DOMAIN f
  BY DEF FreezeAmbient, MaterializeAmbient, LaneStates, SameLanes
<1>2. p = [f EXCEPT !.interrupt = None]
  BY DEF PersistedLanes
<1>. HIDE DEF f
<1>3. SameLanes(p, l) /\ p.pos = f.pos
  BY <1>1, <1>2 DEF SameLanes
<1>4. SameRoom(q, r)
  BY DEF PersistedRoom, RoomStates, SameRoom
<1>5. d.lanes = p /\ d.room = q
  BY DEF Document
<1>. HIDE DEF p, q, d
<1>6. l.anchor = None => p.pos = l.pos
  BY <1>1, <1>3 DEF PositionAt
<1>7. SameLanes(d.lanes, l) /\ SameRoom(d.room, r)
        /\ (l.anchor = None => d.lanes.pos = l.pos)
  BY <1>3, <1>4, <1>5, <1>6
<1>. QED  BY <1>7 DEF d

(* A report changes positions alone. *)
LEMMA ReportFacts ==
  ASSUME NEW l \in LaneStates, NEW p \in Nat, NEW t \in Nat
  PROVE  /\ Wire(ReportPosition(l, p, t)) = Wire(l)
         /\ SameLanes(ReportPosition(l, p, t), l)
<1> DEFINE x == AtMost(p, MaxPosition)
           a == IF l.anchor # None THEN t ELSE None
           q == ReportPosition(l, p, t)
<1>1. CASE l.interrupt # None
  <2> DEFINE i == [l.interrupt EXCEPT !.pos = x, !.anchor = t]
  <2>1. q = [l EXCEPT !.interrupt = i]
    BY <1>1 DEF ReportPosition, LaneStates
  <2>2. l.interrupt \in Interrupts
    BY <1>1 DEF LaneStates
  <2>3. i.track = l.interrupt.track /\ i # None
    <3>1. i.track = l.interrupt.track
      BY <2>2 DEF Interrupts
    <3>2. i \in Interrupts
      BY <2>2, AtMostType DEF Interrupts
    <3>. QED  BY <3>1, <3>2, NoneIsNothing
  <2>. QED  BY <2>1, <2>3, <1>1 DEF LaneStates, Wire, SameLanes
<1>2. CASE l.interrupt = None
  <2>1. q = [l EXCEPT !.pos = x, !.anchor = a]
    BY <1>2 DEF ReportPosition, LaneStates
  <2>. QED  BY <2>1, <1>2 DEF LaneStates, Wire, SameLanes
<1>. QED  BY <1>1, <1>2

(* The fields of a publication. *)
LEMMA PublicationFacts ==
  ASSUME NEW l, NEW r, NEW v, NEW o, NEW g
  PROVE  /\ Publication(l, r, v, o, g).revision = v
         /\ Publication(l, r, v, o, g).lanes = Wire(l)
         /\ Publication(l, r, v, o, g).room = r
BY DEF Publication

(* A frozen lane's position survives every step but a report, and a save   *)
(* writes it.                                                              *)
LEMMA RecordedNext ==
  ASSUME IInv, IInv', Recorded, Outcome
  PROVE  Recorded'
<1>1. lanes \in LaneStates /\ lanes' \in LaneStates /\ room \in RoomStates
        /\ room' \in RoomStates /\ now \in Nat
  BY DEF IInv, TypeOK
<1>2. ASSUME stored' = Document(lanes', room', revision', now)
      PROVE  Backed' /\ PausedPositionStored'
  BY <1>1, <1>2, DocumentFacts DEF Backed, PausedPositionStored
<1>3. CASE Quiet
  BY <1>3 DEF Quiet, Recorded, Shown, Backed, PausedPositionStored
<1>4. CASE Reporting
  <2>1. PICK p \in Positions : lanes' = ReportPosition(lanes, p, now)
    BY <1>4 DEF Reporting
  <2>2. p \in Nat
    BY PositionsAssumption
  <2>3. Wire(lanes') = Wire(lanes) /\ SameLanes(lanes', lanes)
    BY <1>1, <2>1, <2>2, ReportFacts
  <2>4. UNCHANGED <<up, room, revision, stored, published>> /\ dirty'
    BY <1>4 DEF Reporting
  <2>5. Shown' /\ PausedPositionStored'
    BY <2>3, <2>4 DEF Recorded, Shown, PausedPositionStored
  <2>6. Backed'
    BY <2>3, <2>4 DEF Recorded, Backed, SameLanes
  <2>. QED  BY <2>5, <2>6 DEF Recorded
<1>5. CASE Flushing
  <2>1. UNCHANGED <<up, lanes, room, revision, published>>
    BY <1>5 DEF Flushing
  <2>2. stored' = Document(lanes', room', revision', now)
    BY <1>5, <2>1 DEF Flushing
  <2>3. Shown'
    BY <2>1 DEF Recorded, Shown
  <2>. QED  BY <1>2, <2>2, <2>3 DEF Recorded
<1>6. CASE Saving
  <2>1. Shown'
    BY <1>6, PublicationFacts DEF Saving, Shown
  <2>2. stored' = Document(lanes', room', revision', now)
    BY <1>6 DEF Saving
  <2>. QED  BY <1>2, <2>1, <2>2 DEF Recorded
<1>7. CASE Showing
  <2>1. Shown'
    BY <1>7, PublicationFacts DEF Showing, Shown
  <2>. QED  BY <1>7, <2>1 DEF Showing, Recorded, Backed, PausedPositionStored
<1>8. CASE Renaming
  <2>1. UNCHANGED <<up, lanes, room, revision, dirty, stored>>
    BY <1>8 DEF Renaming
  <2>2. Shown'
    <3>1. CASE UNCHANGED published
      BY <2>1, <3>1 DEF Recorded, Shown
    <3>2. CASE published' = Publication(lanes', room', revision', open', reg')
      BY <3>2, PublicationFacts DEF Shown
    <3>. QED  BY <1>8, <3>1, <3>2 DEF Renaming
  <2>. QED  BY <2>1, <2>2 DEF Recorded, Backed, PausedPositionStored
<1>9. CASE Starting
  <2>1. Shown'
    BY <1>9, PublicationFacts DEF Starting, Shown
  <2>2. stored' = Document(lanes', room', revision', now)
    BY <1>9 DEF Starting
  <2>. QED  BY <1>2, <2>1, <2>2 DEF Recorded
<1>10. CASE ~up'
  BY <1>10 DEF Recorded, Shown, Backed, PausedPositionStored
<1>. QED  BY <1>3, <1>4, <1>5, <1>6, <1>7, <1>8, <1>9, <1>10 DEF Outcome

(* The owner starts by storing and publishing what it holds. *)
LEMMA RecordedInit == Init => Recorded
<1>. SUFFICES ASSUME Init PROVE Recorded
  OBVIOUS
<1>1. lanes \in LaneStates /\ room \in RoomStates
  BY InitInv DEF IInv, TypeOK
<1>2. stored = Document(lanes, room, revision, 0)
        /\ published = Publication(lanes, room, revision, open, reg)
  BY DEF Init
<1>3. Shown
  BY <1>2, PublicationFacts DEF Shown
<1>4. Backed /\ PausedPositionStored
  BY <1>1, <1>2, DocumentFacts DEF Backed, PausedPositionStored
<1>. QED  BY <1>3, <1>4 DEF Recorded

(* Published and stored content agree with the state in every reachable state. *)
LEMMA RecordedAlways == Spec => [](IInv /\ Recorded)
<1>1. IInv /\ Recorded /\ [Next]_vars => (IInv /\ Recorded)'
  BY NextInv, NextOutcome, RecordedNext
<1>. QED  BY <1>1, InitInv, RecordedInit, PTL DEF Spec

(* For every catalog, every request and every fault: what the stored row   *)
(* holds is what clients were last shown, and the position of a paused     *)
(* lane once no report waits for its flush.  A crash at any moment loses   *)
(* nothing a client has seen (persist before publish).                     *)
THEOREM RestartFindsWhatWasShown == Spec => []StoredIsEnough
<1>1. IInv /\ Recorded => StoredIsEnough
  <2>. SUFFICES ASSUME IInv, Recorded PROVE StoredIsEnough
    OBVIOUS
  <2>1. PausedPositionStored
    BY DEF Recorded
  <2>2. PublishedIsStored
    BY DEF Recorded, Shown, Backed, SameLanes, SameRoom, Wire, PublishedIsStored
  <2>. QED  BY <2>1, <2>2 DEF StoredIsEnough
<1>. QED  BY <1>1, RecordedAlways, PTL

(* Within one process publications never go back, and one that shows       *)
(* another state is strictly newer: a client that drops older revisions    *)
(* never drops the newest state.                                           *)
THEOREM RevisionsOrder == Spec => RevisionOrders
<1> DEFINE A == up /\ up' =>
       /\ published'.revision >= published.revision
       /\ \/ published'.lanes # published.lanes
          \/ published'.room # published.room
          => published'.revision > published.revision
<1>1. IInv /\ Recorded /\ IInv' /\ Recorded' /\ [Next]_vars => A
  <2>. SUFFICES ASSUME IInv, Recorded, IInv', Recorded', [Next]_vars, up, up'
                PROVE  /\ published'.revision >= published.revision
                       /\ \/ published'.lanes # published.lanes
                          \/ published'.room # published.room
                          => published'.revision > published.revision
    OBVIOUS
  <2>1. published.revision = revision /\ published'.revision = revision'
          /\ revision \in Nat /\ revision' \in Nat
    BY DEF Recorded, Shown, IInv, TypeOK
  <2>2. revision' = revision + 1
          \/ (revision' = revision /\ published'.lanes = published.lanes
                /\ published'.room = published.room)
    <3>1. CASE Quiet \/ Reporting \/ Flushing
      BY <3>1 DEF Quiet, Reporting, Flushing
    <3>2. CASE Saving \/ Showing
      BY <3>2 DEF Saving, Showing
    <3>3. CASE Renaming
      BY <3>3, PublicationFacts DEF Renaming, Recorded, Shown
    <3>4. CASE Starting
      BY <3>4 DEF Starting
    <3>. QED  BY <3>1, <3>2, <3>3, <3>4, NextOutcome DEF Outcome
  <2>. QED  BY <2>1, <2>2
<1>2. IInv /\ Recorded /\ IInv' /\ Recorded' /\ [Next]_vars => [A]_vars
  BY <1>1
<1>. HIDE DEF A
<1>3. Spec => [][A]_vars
  BY <1>2, RecordedAlways, PTL DEF Spec
<1>. QED  BY <1>3 DEF RevisionOrders, A
-----------------------------------------------------------------------------
(* What the lanes refer to, and when they move.                            *)

(* Lanes with tracks of S only. *)
Within(s, S) ==
  /\ s.queue \in Seq(S) /\ s.history \in Seq(S)
  /\ s.track # None => s.track \in S
  /\ s.interrupt # None => s.interrupt.track \in S /\ s.interrupt.queue \in Seq(S)

(* From s to r, at one time, nothing is seen to move unless the epoch is   *)
(* new: see EpochMarksMoves.                                               *)
Steady(r, s, clk) ==
  r.epoch = s.epoch =>
    /\ r.track \in {s.track, None}
    /\ r.track = s.track /\ ~(s.interrupt # None /\ r.interrupt = None) =>
         PositionAt(r.pos, r.anchor, clk) = PositionAt(s.pos, s.anchor, clk)
    /\ s.interrupt # None /\ r.interrupt # None =>
         /\ r.interrupt.track = s.interrupt.track
         /\ PositionAt(r.interrupt.pos, r.interrupt.anchor, clk)
              = PositionAt(s.interrupt.pos, s.interrupt.anchor, clk)

(* A command that refers to tracks of S leaves the lanes with tracks of S, *)
(* whichever they had, and moves them only under a new epoch.              *)
Steered(r, s, clk) ==
  /\ Steady(r, s, clk)
  /\ \A S \in SUBSET Tracks : Within(s, S) => Within(r, S)

Bumped(r, s) == r = s \/ r.epoch = s.epoch + 1

(* An unchanged state is steady, and so is one under a new epoch. *)
LEMMA BumpedSteady ==
  ASSUME NEW s \in LaneStates, NEW r, Bumped(r, s), NEW clk
  PROVE  Steady(r, s, clk)
<1>1. s.epoch + 1 # s.epoch
  BY DEF LaneStates
<1>. QED  BY <1>1 DEF Bumped, Steady

(* A sequence of S has its elements in S, and the other way round. *)
LEMMA SeqWithin ==
  ASSUME NEW q \in Seq(Tracks), NEW S
  PROVE  q \in Seq(S) <=> ToSet(q) \subseteq S
<1>1. ASSUME q \in Seq(S) PROVE ToSet(q) \subseteq S
  BY <1>1 DEF ToSet
<1>2. ASSUME ToSet(q) \subseteq S PROVE q \in Seq(S)
  <2>1. \A i \in 1..Len(q) : q[i] \in S
    BY <1>2 DEF ToSet
  <2>2. q = [i \in 1..Len(q) |-> q[i]] /\ Len(q) \in Nat
    OBVIOUS
  <2>. QED  BY <2>1, <2>2
<1>. QED  BY <1>1, <1>2

(* A start from known sequences holds only known tracks. *)
LEMMA StartTrackWithin ==
  ASSUME NEW s \in LaneStates, NEW S, Within(s, S), NEW t, t = None \/ t \in S,
         NEW q \in Seq(S), NEW h \in Seq(S), NEW a
  PROVE  Within(StartTrack(s, t, q, h, a), S)
<1> DEFINE r == StartTrack(s, t, q, h, a)
<1>1. r.track = t /\ r.queue = q /\ r.history = h /\ r.interrupt = s.interrupt
  BY DEF StartTrack, Bump, LaneStates
<1>. HIDE DEF r
<1>2. Within(r, S)
  BY <1>1 DEF Within
<1>. QED  BY <1>2 DEF r

(* Starting a track is a new epoch. *)
LEMMA StartTrackBumps ==
  ASSUME NEW s \in LaneStates, NEW t, NEW q, NEW h, NEW a
  PROVE  /\ StartTrack(s, t, q, h, a).epoch = s.epoch + 1
         /\ "playing" \in DOMAIN StartTrack(s, t, q, h, a)
BY DEF StartTrack, Bump, LaneStates

(* The room switched on, with the lanes as they are. *)
LEMMA PlayingFacts ==
  ASSUME NEW s \in LaneStates
  PROVE  LET p == [s EXCEPT !.playing = TRUE]
         IN  /\ p \in LaneStates /\ p.epoch = s.epoch
             /\ \A S : Within(s, S) => Within(p, S)
BY DEF LaneStates, Within

(* Playing one track keeps references and marks the move. *)
LEMMA PlayTrackSteered ==
  ASSUME NEW s \in LaneStates, NEW t, NEW clk
  PROVE  /\ Steady(AmbientPlayTrack(s, t, clk), s, clk)
         /\ \A S : t \in S /\ Within(s, S) => Within(AmbientPlayTrack(s, t, clk), S)
<1> DEFINE p == [s EXCEPT !.playing = TRUE]
           a == AmbientAnchor(p, clk)
<1>1. p \in LaneStates /\ p.epoch = s.epoch /\ \A S : Within(s, S) => Within(p, S)
  BY PlayingFacts
<1>2. AmbientPlayTrack(s, t, clk) = StartTrack(p, t, <<>>, <<>>, a)
  BY DEF AmbientPlayTrack
<1>. HIDE DEF p, a
<1>3. Bumped(AmbientPlayTrack(s, t, clk), s)
  BY <1>1, <1>2, StartTrackBumps DEF Bumped
<1>4. ASSUME NEW S, t \in S, Within(s, S) PROVE Within(AmbientPlayTrack(s, t, clk), S)
  <2>1. <<>> \in Seq(S) /\ Within(p, S)
    BY <1>1, <1>4
  <2>. QED  BY <1>1, <1>2, <1>4, <2>1, StartTrackWithin
<1>. QED  BY <1>3, <1>4, BumpedSteady

(* So does playing a sequence from any place in it. *)
LEMMA PlaySequenceSteered ==
  ASSUME NEW s \in LaneStates, NEW ts \in Seq(Tracks), NEW start \in Nat \ {0},
         NEW clk
  PROVE  LET r == AmbientPlaySequence(s, ts, start, clk)
         IN  /\ Bumped(r, s)
             /\ \A S : ts \in Seq(S) /\ Within(s, S) => Within(r, S)
<1> DEFINE r == AmbientPlaySequence(s, ts, start, clk)
<1>1. CASE ts = <<>>
  BY <1>1 DEF AmbientPlaySequence, Bumped
<1>2. CASE ts # <<>>
  <2> DEFINE p == [s EXCEPT !.playing = TRUE]
             i == AtMost(start, Len(ts))
             q == SubSeq(ts, i + 1, Len(ts))
             h == SubSeq(ts, 1, i - 1)
             a == AmbientAnchor(p, clk)
  <2>1. p \in LaneStates /\ p.epoch = s.epoch /\ \A S : Within(s, S) => Within(p, S)
    BY PlayingFacts
  <2>2. i \in 1..Len(ts) /\ Len(ts) \in Nat
    BY <1>2 DEF AtMost
  <2>3. r = StartTrack(p, ts[i], q, h, a)
    BY <1>2 DEF AmbientPlaySequence
  <2>. HIDE DEF p, i, a, r
  <2>4. ASSUME NEW S, ts \in Seq(S), Within(s, S) PROVE Within(r, S)
    <3>1. ts[i] \in S /\ q \in Seq(S) /\ h \in Seq(S)
      BY <2>2, <2>4
    <3>. HIDE DEF q, h
    <3>2. Within(p, S)
      BY <2>1, <2>4
    <3>. QED  BY <2>1, <2>3, <3>1, <3>2, StartTrackWithin
  <2>5. Bumped(r, s)
    BY <2>1, <2>3, StartTrackBumps DEF Bumped
  <2>6. Bumped(r, s) /\ \A S : ts \in Seq(S) /\ Within(s, S) => Within(r, S)
    BY <2>4, <2>5
  <2>. QED  BY <2>6 DEF r
<1>. QED  BY <1>1, <1>2

(* The queue alone. *)
LEMMA QueueSteered ==
  ASSUME NEW s \in LaneStates, NEW q, NEW clk
  PROVE  LET r == [s EXCEPT !.queue = q]
         IN  Steady(r, s, clk)
               /\ \A S : q \in Seq(S) /\ Within(s, S) => Within(r, S)
<1> DEFINE r == [s EXCEPT !.queue = q]
<1>1. r.queue = q /\ r.history = s.history /\ r.track = s.track
        /\ r.interrupt = s.interrupt /\ r.pos = s.pos /\ r.anchor = s.anchor
  BY DEF LaneStates
<1>. HIDE DEF r
<1>2. Steady(r, s, clk)
  BY <1>1 DEF Steady
<1>3. \A S : q \in Seq(S) /\ Within(s, S) => Within(r, S)
  BY <1>1 DEF Within
<1>. QED  BY <1>2, <1>3 DEF r

(* Enqueueing does not move what plays. *)
LEMMA EnqueueSteered ==
  ASSUME NEW s \in LaneStates, NEW t, NEW i \in Nat \ {0}, NEW clk
  PROVE  LET r == AmbientEnqueue(s, t, i)
         IN  Steady(r, s, clk) /\ \A S : t \in S /\ Within(s, S) => Within(r, S)
<1> DEFINE q == s.queue
           k == AtMost(i, Len(q) + 1)
           u == InsertAt(q, k, t)
           r == AmbientEnqueue(s, t, i)
<1>1. q \in Seq(Tracks)
  BY DEF LaneStates
<1>2. r = [s EXCEPT !.queue = u]
  BY DEF AmbientEnqueue, LaneStates
<1>3. \A S : Within(s, S) => q \in Seq(S)
  BY DEF Within
<1>. HIDE DEF q
<1>4. k \in 1..(Len(q) + 1) /\ Len(q) \in Nat
  BY <1>1 DEF AtMost
<1>. HIDE DEF k
<1>5. ASSUME NEW S, t \in S, q \in Seq(S) PROVE u \in Seq(S)
  <2>1. SubSeq(q, 1, k - 1) \in Seq(S) /\ SubSeq(q, k, Len(q)) \in Seq(S)
    BY <1>4, <1>5
  <2>. QED  BY <1>5, <2>1 DEF InsertAt
<1>. HIDE DEF u, r
<1>6. Steady(r, s, clk) /\ \A S : t \in S /\ Within(s, S) => Within(r, S)
  BY <1>2, <1>3, <1>5, QueueSteered
<1>. QED  BY <1>6 DEF r

(* Loop mode and shuffle. *)
LEMMA SettingsSteered ==
  ASSUME NEW s \in LaneStates, NEW x, NEW clk
  PROVE  Steered([s EXCEPT !.loop = x], s, clk) /\ Steered([s EXCEPT !.shuffle = x], s, clk)
BY DEF LaneStates, Steered, Steady, Within

(* What has been played, the current track included, is known. *)
LEMMA PastWithin ==
  ASSUME NEW s, NEW S, Within(s, S)
  PROVE  Past(s) \in Seq(S)
BY DEF Past, Within

(* Jumping within the queue marks the move. *)
LEMMA JumpSteered ==
  ASSUME NEW s \in LaneStates, NEW i \in DOMAIN s.queue, NEW clk
  PROVE  Steered(AmbientJumpQueue(s, i, clk), s, clk)
<1> DEFINE p == [s EXCEPT !.playing = TRUE]
           q == s.queue
           a == AmbientAnchor(p, clk)
           u == SubSeq(q, i + 1, Len(q))
           r == AmbientJumpQueue(s, i, clk)
<1>1. p \in LaneStates /\ p.epoch = s.epoch /\ \A S : Within(s, S) => Within(p, S)
  BY PlayingFacts
<1>2. q \in Seq(Tracks) /\ i \in DOMAIN q
  BY DEF LaneStates
<1>3. r = s \/ r = StartTrack(p, q[i], u, Past(s), a)
  BY DEF AmbientJumpQueue
<1>4. \A S : Within(s, S) => q \in Seq(S)
  BY DEF Within
<1>. HIDE DEF p, q, a, r
<1>5. Bumped(r, s)
  BY <1>1, <1>3, StartTrackBumps DEF Bumped
<1>6. ASSUME NEW S, Within(s, S) PROVE Within(r, S)
  <2>1. q \in Seq(S)
    BY <1>4, <1>6
  <2>2. q[i] \in S /\ u \in Seq(S)
    BY <1>2, <2>1
  <2>3. Past(s) \in Seq(S) /\ Within(p, S)
    BY <1>1, <1>6, PastWithin
  <2>. HIDE DEF u
  <2>4. Within(StartTrack(p, q[i], u, Past(s), a), S)
    BY <1>1, <2>2, <2>3, StartTrackWithin
  <2>. QED  BY <1>3, <1>6, <2>4
<1>. QED  BY <1>5, <1>6, BumpedSteady DEF Steered, r

(* A skip: from the queue, the past or the catalog, or to nothing. *)
LEMMA SkipNextSteered ==
  ASSUME NEW s \in LaneStates, NEW follow, NEW expected, NEW clk,
         NEW choice, s.queue # <<>> => choice \in DOMAIN s.queue
  PROVE  LET r == AmbientSkipNext(s, follow, expected, choice, clk)
         IN  /\ Bumped(r, s)
             /\ \A S : Within(s, S) /\ (follow # None => follow \in S) => Within(r, S)
<1> DEFINE q == s.queue
           h == Past(s)
           t == s.track
           i == IF s.shuffle THEN choice ELSE 1
           a == AmbientAnchor(s, clk)
           e == StartTrack(s, None, <<>>, s.history, None)
           r == AmbientSkipNext(s, follow, expected, choice, clk)
           Good == Bumped(r, s) /\ \A S : Within(s, S) /\ (follow # None => follow \in S)
                                            => Within(r, S)
<1>. SUFFICES Good
  OBVIOUS
<1>1. q \in Seq(Tracks) /\ h \in Seq(Tracks) /\ s.history \in Seq(Tracks)
        /\ t \in Tracks \cup {None}
  BY PastType DEF LaneStates
<1>2. ASSUME NEW S, Within(s, S)
      PROVE  /\ q \in Seq(S) /\ h \in Seq(S) /\ s.history \in Seq(S)
             /\ <<>> \in Seq(S) /\ (t # None => t \in S)
  <2>1. h \in Seq(S)
    BY <1>2, PastWithin
  <2>. QED  BY <1>2, <2>1 DEF Within
<1>3. q # <<>> => i \in DOMAIN q
  <2>1. q # <<>> => choice \in DOMAIN q /\ 1 \in DOMAIN q
    BY <1>1
  <2>. QED  BY <2>1
<1>4. SkipRefused(s, expected) => r = s
  BY DEF AmbientSkipNext
<1>5. ~SkipRefused(s, expected) /\ s.loop = "track" /\ t # None =>
        r = StartTrack(s, t, q, s.history, a)
  BY DEF AmbientSkipNext
<1>6. ~SkipRefused(s, expected) /\ ~(s.loop = "track" /\ t # None) =>
        /\ q # <<>> => r = StartTrack(s, q[i], RemoveAt(q, i), h, a)
        /\ q = <<>> /\ s.loop = "queue" =>
             t # None /\ r = StartTrack(s, Head(h), Tail(h), <<>>, a)
        /\ q = <<>> /\ s.loop # "queue" /\ s.loop = "follow" /\ follow # None =>
             r = StartTrack(s, follow, <<>>, h, a)
        /\ q = <<>> /\ s.loop # "queue" /\ ~(s.loop = "follow" /\ follow # None) =>
             r = [e EXCEPT !.playing = FALSE]
  BY DEF AmbientSkipNext, SkipRefused
<1>7. t # None => h # <<>>
  <2>1. t # None => h = Append(s.history, t) /\ t \in Tracks
    BY <1>1 DEF Past
  <2>2. t # None => Len(h) = Len(s.history) + 1 /\ Len(s.history) \in Nat
    BY <1>1, <2>1
  <2>. HIDE DEF h
  <2>. QED  BY <2>2
<1>8. e.epoch = s.epoch + 1 /\ "playing" \in DOMAIN e
  BY StartTrackBumps
<1>. HIDE DEF q, h, t, i, a, r
<1>9. CASE SkipRefused(s, expected)
  BY <1>4, <1>9 DEF Bumped
<1>10. CASE ~SkipRefused(s, expected) /\ s.loop = "track" /\ t # None
  <2>1. Bumped(r, s)
    BY <1>5, <1>10, StartTrackBumps DEF Bumped
  <2>2. ASSUME NEW S, Within(s, S) PROVE Within(r, S)
    BY <1>2, <1>5, <1>10, <2>2, StartTrackWithin
  <2>. QED  BY <2>1, <2>2
<1>11. CASE ~SkipRefused(s, expected) /\ ~(s.loop = "track" /\ t # None)
  <2>1. CASE q # <<>>
    <3>1. r = StartTrack(s, q[i], RemoveAt(q, i), h, a)
      BY <1>6, <1>11, <2>1
    <3>2. ASSUME NEW S, Within(s, S) PROVE Within(r, S)
      <4>1. q \in Seq(S) /\ h \in Seq(S) /\ i \in DOMAIN q
        BY <1>2, <1>3, <2>1, <3>2
      <4>2. SubSeq(q, 1, i - 1) \in Seq(S) /\ SubSeq(q, i + 1, Len(q)) \in Seq(S)
        BY <4>1
      <4>3. q[i] \in S /\ RemoveAt(q, i) \in Seq(S)
        BY <4>1, <4>2 DEF RemoveAt
      <4>. QED  BY <3>1, <3>2, <4>1, <4>3, StartTrackWithin
    <3>3. Bumped(r, s)
      BY <3>1, StartTrackBumps DEF Bumped
    <3>. QED  BY <3>2, <3>3
  <2>2. CASE q = <<>> /\ s.loop = "queue"
    <3>1. r = StartTrack(s, Head(h), Tail(h), <<>>, a) /\ h # <<>>
      BY <1>6, <1>7, <1>11, <2>2
    <3>2. ASSUME NEW S, Within(s, S) PROVE Within(r, S)
      <4>1. h \in Seq(S) /\ <<>> \in Seq(S)
        BY <1>2, <3>2
      <4>2. Head(h) \in S /\ Tail(h) \in Seq(S)
        BY <3>1, <4>1
      <4>. QED  BY <3>1, <3>2, <4>1, <4>2, StartTrackWithin
    <3>3. Bumped(r, s)
      BY <3>1, StartTrackBumps DEF Bumped
    <3>. QED  BY <3>2, <3>3
  <2>3. CASE q = <<>> /\ s.loop # "queue" /\ s.loop = "follow" /\ follow # None
    <3>1. r = StartTrack(s, follow, <<>>, h, a)
      BY <1>6, <1>11, <2>3
    <3>2. ASSUME NEW S, Within(s, S), follow \in S PROVE Within(r, S)
      BY <1>2, <3>1, <3>2, StartTrackWithin
    <3>3. Bumped(r, s)
      BY <3>1, StartTrackBumps DEF Bumped
    <3>. QED  BY <2>3, <3>2, <3>3
  <2>4. CASE q = <<>> /\ s.loop # "queue" /\ ~(s.loop = "follow" /\ follow # None)
    <3>1. r = [e EXCEPT !.playing = FALSE]
      BY <1>6, <1>11, <2>4
    <3>2. ASSUME NEW S, Within(s, S) PROVE Within(e, S)
      BY <1>2, <3>2, StartTrackWithin
    <3>. HIDE DEF e
    <3>3. r.epoch = s.epoch + 1 /\ \A S : Within(e, S) => Within(r, S)
      BY <1>8, <3>1 DEF Within
    <3>. QED  BY <3>2, <3>3 DEF Bumped
  <2>. QED  BY <2>1, <2>2, <2>3, <2>4
<1>. QED  BY <1>9, <1>10, <1>11

(* Going back restarts or steps back, under a new epoch. *)
LEMMA SkipPreviousSteered ==
  ASSUME NEW s \in LaneStates, NEW clk
  PROVE  Steered(AmbientSkipPrevious(s, clk), s, clk)
<1> DEFINE q == s.queue
           h == s.history
           t == s.track
           a == AmbientAnchor(s, clk)
           u == IF t = None THEN q ELSE <<t>> \o q
           r == AmbientSkipPrevious(s, clk)
<1>1. \/ r = s
      \/ t # None /\ r = StartTrack(s, t, q, h, a)
      \/ h # <<>> /\ r = StartTrack(s, Last(h), u, Front(h), a)
  BY DEF AmbientSkipPrevious
<1>2. Bumped(r, s)
  BY <1>1, StartTrackBumps DEF Bumped
<1>3. ASSUME NEW S, Within(s, S) PROVE Within(r, S)
  <2>1. q \in Seq(S) /\ h \in Seq(S) /\ (t # None => t \in S)
    BY <1>3 DEF Within
  <2>2. u \in Seq(S)
    BY <2>1
  <2>. HIDE DEF q, h, t, a, u, r
  <2>3. h # <<>> => Last(h) \in S /\ Front(h) \in Seq(S)
    BY <2>1 DEF Last, Front
  <2>. QED  BY <1>1, <1>3, <2>1, <2>2, <2>3, StartTrackWithin
<1>. QED  BY <1>2, <1>3, BumpedSteady DEF Steered

(* Seeking is a move of its own. *)
LEMMA SeekSteered ==
  ASSUME NEW s \in LaneStates, NEW p, NEW clk
  PROVE  Steered(AmbientSeek(s, p, clk), s, clk)
<1> DEFINE r == AmbientSeek(s, p, clk)
           x == AtMost(p, MaxPosition)
           a == AmbientAnchor(s, clk)
<1>1. r = s \/ r = Bump([s EXCEPT !.pos = x, !.anchor = a])
  BY DEF AmbientSeek
<1>. HIDE DEF r, x, a
<1>2. Bumped(r, s) /\ \A S : Within(s, S) => Within(r, S)
  BY <1>1 DEF Bump, LaneStates, Bumped, Within
<1>. QED  BY <1>2, BumpedSteady DEF Steered, r

(* Stopping clears the lane. *)
LEMMA StopSteered ==
  ASSUME NEW s \in LaneStates, NEW clk
  PROVE  Steered(AmbientStop(s), s, clk)
<1>1. AmbientStop(s) = s \/ AmbientStop(s) = StartTrack(s, None, <<>>, <<>>, None)
  BY DEF AmbientStop
<1>2. Bumped(AmbientStop(s), s)
  BY <1>1, StartTrackBumps DEF Bumped
<1>3. ASSUME NEW S, Within(s, S) PROVE Within(AmbientStop(s), S)
  <2>1. <<>> \in Seq(S)
    OBVIOUS
  <2>. QED  BY <1>1, <1>3, <2>1, StartTrackWithin
<1>. QED  BY <1>2, <1>3, BumpedSteady DEF Steered

(* A cue's playlist starts known tracks under a new epoch. *)
LEMMA CueSteered ==
  ASSUME NEW clk \in Nat, NEW s, Sound(s, clk), NEW ts \in Seq(Tracks), ts # <<>>,
         NEW start \in Nat \ {0}, NEW at \in Nat
  PROVE  LET r == CuePlaylist(s, ts, start, at, clk)
         IN  /\ Steady(r, s, clk)
             /\ \A S : ts \in Seq(S) /\ Within(s, S) => Within(r, S)
<1> DEFINE p == AmbientPlaySequence(s, ts, start, clk)
           x == AtMost(at, MaxPosition)
           a == AmbientAnchor(p, clk)
           r == CuePlaylist(s, ts, start, at, clk)
<1>1. r = p \/ r = [p EXCEPT !.pos = x, !.anchor = a]
  BY DEF CuePlaylist
<1>2. s \in LaneStates /\ p \in LaneStates
  BY AmbientPlaySequenceSound DEF Sound
<1>3. p.epoch = s.epoch + 1
  <2> DEFINE b == [s EXCEPT !.playing = TRUE]
  <2>1. b \in LaneStates /\ b.epoch = s.epoch
    BY <1>2, PlayingFacts
  <2>2. \E t, q, h, c : p = StartTrack(b, t, q, h, c)
    BY DEF AmbientPlaySequence
  <2>. HIDE DEF b, p
  <2>. QED  BY <2>1, <2>2, StartTrackBumps
<1>4. \A S : ts \in Seq(S) /\ Within(s, S) => Within(p, S)
  BY <1>2, PlaySequenceSteered
<1>. HIDE DEF p, x, a, r
<1>5. r.epoch = s.epoch + 1 /\ \A S : Within(p, S) => Within(r, S)
  BY <1>1, <1>2, <1>3 DEF LaneStates, Within
<1>6. Bumped(r, s)
  BY <1>5 DEF Bumped
<1>7. Steady(r, s, clk) /\ \A S : ts \in Seq(S) /\ Within(s, S) => Within(r, S)
  BY <1>2, <1>4, <1>5, <1>6, BumpedSteady
<1>. QED  BY <1>7 DEF r
(* Pausing freezes the lane where it stands; playing starts its clock      *)
(* there.                                                                  *)
LEMMA SetPlayingSteered ==
  ASSUME NEW clk \in Nat, NEW s, Sound(s, clk), NEW playing \in BOOLEAN
  PROVE  Steered(SetPlaying(s, playing, clk), s, clk)
<1> DEFINE r == SetPlaying(s, playing, clk)
           x == PositionAt(s.pos, s.anchor, clk)
<1>1. s \in LaneStates /\ s.playing \in BOOLEAN
  BY DEF Sound, LaneStates
<1>2. CASE s.playing = playing
  <2>1. r = s
    BY <1>2 DEF SetPlaying
  <2>. QED  BY <2>1 DEF Steered, Steady
<1>3. CASE s.playing # playing /\ playing = TRUE
  <2> DEFINE p == [s EXCEPT !.playing = TRUE]
             a == IF s.track # None THEN AmbientAnchor(p, clk) ELSE s.anchor
  <2>1. r = [p EXCEPT !.anchor = a]
    BY <1>3 DEF SetPlaying
  <2>2. s.anchor = None
    BY <1>1, <1>3 DEF Sound, Clocked
  <2>3. a = clk \/ a = None
    BY <2>2 DEF AmbientAnchor
  <2>. HIDE DEF a
  <2>4. r.pos = s.pos /\ r.anchor = a /\ r.track = s.track /\ r.queue = s.queue
          /\ r.history = s.history /\ r.interrupt = s.interrupt
    BY <1>1, <2>1 DEF LaneStates
  <2>. HIDE DEF r
  <2>5. PositionAt(r.pos, r.anchor, clk) = x
    BY <2>2, <2>3, <2>4 DEF PositionAt
  <2>6. Steady(r, s, clk)
    BY <2>4, <2>5 DEF Steady
  <2>7. Steered(r, s, clk)
    BY <2>4, <2>6 DEF Steered, Within
  <2>. QED  BY <2>7 DEF r
<1>4. CASE s.playing # playing /\ playing = FALSE
  <2>1. r = [FreezeAmbient(s, clk) EXCEPT !.playing = FALSE]
    BY <1>4 DEF SetPlaying
  <2>2. r.pos = x /\ r.anchor = None /\ r.track = s.track /\ r.queue = s.queue
          /\ r.history = s.history /\ r.interrupt = s.interrupt
    BY <1>1, <2>1 DEF FreezeAmbient, MaterializeAmbient, LaneStates
  <2>. HIDE DEF r
  <2>3. PositionAt(r.pos, r.anchor, clk) = x
    BY <2>2 DEF PositionAt
  <2>4. Steady(r, s, clk)
    BY <2>2, <2>3 DEF Steady
  <2>5. Steered(r, s, clk)
    BY <2>2, <2>4 DEF Steered, Within
  <2>. QED  BY <2>5 DEF r
<1>. QED  BY <1>1, <1>2, <1>3, <1>4

(* An interrupt starts known tracks over the ambient lane. *)
LEMMA FireInterruptSteered ==
  ASSUME NEW s \in LaneStates, NEW ts \in Seq(Tracks), NEW returns, NEW ducks,
         NEW clk
  PROVE  LET r == FireInterrupt(s, ts, returns, ducks, clk)
         IN  /\ Steady(r, s, clk)
             /\ \A S : ts \in Seq(S) /\ Within(s, S) => Within(r, S)
<1> DEFINE r == FireInterrupt(s, ts, returns, ducks, clk)
<1>1. CASE ts = <<>>
  BY <1>1 DEF FireInterrupt, Steady
<1>2. CASE ts # <<>>
  <2> DEFINE b == IF ducks THEN s ELSE FreezeAmbient(s, clk)
             i == [track |-> Head(ts), queue |-> Tail(ts), pos |-> 0,
                   anchor |-> clk, returns |-> returns, ducks |-> ducks]
  <2>1. r = Bump([b EXCEPT !.playing = TRUE, !.interrupt = i])
    BY <1>2 DEF FireInterrupt
  <2>2. /\ b.epoch = s.epoch /\ b.queue = s.queue /\ b.history = s.history
        /\ b.track = s.track /\ DOMAIN b = DOMAIN s
    BY DEF FreezeAmbient, MaterializeAmbient, LaneStates
  <2>3. i.track = Head(ts) /\ i.queue = Tail(ts)
    OBVIOUS
  <2>. HIDE DEF b, i
  <2>4. /\ r.epoch = s.epoch + 1 /\ r.queue = s.queue /\ r.history = s.history
        /\ r.track = s.track /\ r.interrupt = i
    BY <2>1, <2>2 DEF Bump, LaneStates
  <2>5. ASSUME NEW S, ts \in Seq(S), Within(s, S) PROVE Within(r, S)
    <3>1. Head(ts) \in S /\ Tail(ts) \in Seq(S)
      BY <1>2, <2>5
    <3>. HIDE DEF r
    <3>. QED  BY <2>3, <2>4, <2>5, <3>1 DEF Within
  <2>6. Bumped(r, s)
    BY <2>4 DEF Bumped
  <2>. QED  BY <2>5, <2>6, BumpedSteady
<1>. QED  BY <1>1, <1>2

(* Ending an interrupt is a move of its own. *)
LEMMA EndInterruptSteered ==
  ASSUME NEW s \in LaneStates, NEW clk
  PROVE  /\ Bumped(EndInterrupt(s, clk), s)
         /\ \A S : Within(s, S) => Within(EndInterrupt(s, clk), S)
<1> DEFINE r == EndInterrupt(s, clk)
           a == IF s.playing /\ s.track # None /\ s.anchor = None THEN clk ELSE s.anchor
<1>1. \/ r = s
      \/ r = Bump([s EXCEPT !.interrupt = None, !.anchor = a])
      \/ r = Bump([FreezeAmbient(s, clk) EXCEPT !.interrupt = None, !.playing = FALSE])
  BY DEF EndInterrupt, LaneStates
<1>. HIDE DEF a
<1>2. \/ r = s
      \/ /\ r.epoch = s.epoch + 1 /\ r.queue = s.queue /\ r.history = s.history
         /\ r.track = s.track /\ r.interrupt = None
  BY <1>1 DEF Bump, FreezeAmbient, MaterializeAmbient, LaneStates
<1>. HIDE DEF r
<1>3. Bumped(r, s) /\ \A S : Within(s, S) => Within(r, S)
  BY <1>2 DEF Bumped, Within
<1>. QED  BY <1>3 DEF r

(* Skipping within an interrupt steps or ends it. *)
LEMMA InterruptSkipSteered ==
  ASSUME NEW s \in LaneStates, NEW expected, NEW clk
  PROVE  Steered(InterruptSkipNext(s, expected, clk), s, clk)
<1> DEFINE r == InterruptSkipNext(s, expected, clk)
           q == s.interrupt.queue
           i == [s.interrupt EXCEPT !.track = Head(q), !.queue = Tail(q),
                                    !.pos = 0, !.anchor = clk]
<1>1. \/ r = s
      \/ r = EndInterrupt(s, clk)
      \/ s.interrupt # None /\ q # <<>> /\ r = Bump([s EXCEPT !.interrupt = i])
  BY DEF InterruptSkipNext, LaneStates
<1>2. CASE r = s
  BY <1>2 DEF Steered, Steady
<1>3. CASE r = EndInterrupt(s, clk)
  BY <1>3, EndInterruptSteered, BumpedSteady DEF Steered
<1>4. CASE s.interrupt # None /\ q # <<>> /\ r = Bump([s EXCEPT !.interrupt = i])
  <2>1. i.track = Head(q) /\ i.queue = Tail(q)
    <3>1. s.interrupt \in Interrupts
      BY <1>4 DEF LaneStates
    <3>. QED  BY <3>1 DEF Interrupts
  <2>2. \A S : Within(s, S) => q \in Seq(S)
    BY <1>4 DEF Within
  <2>. HIDE DEF i, q
  <2>3. /\ r.epoch = s.epoch + 1 /\ r.queue = s.queue /\ r.history = s.history
        /\ r.track = s.track /\ r.interrupt = i
    BY <1>4 DEF Bump, LaneStates
  <2>. HIDE DEF r
  <2>4. ASSUME NEW S, Within(s, S) PROVE Within(r, S)
    <3>1. Head(q) \in S /\ Tail(q) \in Seq(S)
      BY <1>4, <2>2, <2>4
    <3>. QED  BY <2>1, <2>3, <2>4, <3>1 DEF Within
  <2>5. Bumped(r, s)
    BY <2>3 DEF Bumped
  <2>6. Steered(r, s, clk)
    BY <2>4, <2>5, BumpedSteady DEF Steered
  <2>. QED  BY <2>6 DEF r
<1>. QED  BY <1>1, <1>2, <1>3, <1>4

(* Seeking within an interrupt moves only the interrupt. *)
LEMMA InterruptSeekSteered ==
  ASSUME NEW s \in LaneStates, NEW p, NEW clk
  PROVE  Steered(InterruptSeek(s, p, clk), s, clk)
<1> DEFINE r == InterruptSeek(s, p, clk)
           i == [s.interrupt EXCEPT !.pos = AtMost(p, MaxPosition), !.anchor = clk]
<1>1. CASE s.interrupt = None
  <2>1. r = s
    BY <1>1 DEF InterruptSeek
  <2>. QED  BY <2>1 DEF Steered, Steady
<1>2. CASE s.interrupt # None
  <2>1. r = Bump([s EXCEPT !.interrupt = i])
    BY <1>2 DEF InterruptSeek, LaneStates
  <2>2. i.track = s.interrupt.track /\ i.queue = s.interrupt.queue
    <3>1. s.interrupt \in Interrupts
      BY <1>2 DEF LaneStates
    <3>. QED  BY <3>1 DEF Interrupts
  <2>. HIDE DEF i
  <2>3. /\ r.epoch = s.epoch + 1 /\ r.queue = s.queue /\ r.history = s.history
        /\ r.track = s.track /\ r.interrupt = i
    BY <2>1 DEF Bump, LaneStates
  <2>. HIDE DEF r
  <2>4. \A S : Within(s, S) => Within(r, S)
    BY <1>2, <2>2, <2>3 DEF Within
  <2>5. Bumped(r, s)
    BY <2>3 DEF Bumped
  <2>6. Steered(r, s, clk)
    BY <2>4, <2>5, BumpedSteady DEF Steered
  <2>. QED  BY <2>6 DEF r
<1>. QED  BY <1>1, <1>2

(* Pruning leaves tracks of the catalog and moves no lane it keeps. *)
LEMMA PruneSteered ==
  ASSUME NEW clk \in Nat, NEW s, Sound(s, clk), NEW S \in SUBSET Tracks
  PROVE  /\ Steady(PruneLanes(s, S, clk), s, clk)
         /\ Within(PruneLanes(s, S, clk), S)
<1> DEFINE q == Retain(s.queue, S)
           h == Retain(s.history, S)
           k == [s EXCEPT !.queue = q, !.history = h]
           g == [k EXCEPT !.track = None, !.pos = 0, !.anchor = None,
                          !.playing = FALSE]
           m == PruneAmbient(s, S)
           r == PruneLanes(s, S, clk)
<1>1. s \in LaneStates
  BY DEF Sound
<1>2. ASSUME NEW w \in Seq(Tracks) PROVE Retain(w, S) \in Seq(S)
  <2> DEFINE z == Retain(w, S)
  <2>1. z \in Seq(Tracks) /\ \A j \in DOMAIN z : z[j] \in S
    BY RetainType
  <2>. HIDE DEF z
  <2>2. ToSet(z) \subseteq S
    BY <2>1 DEF ToSet
  <2>3. z \in Seq(S)
    BY <2>1, <2>2, SeqWithin
  <2>. QED  BY <2>3 DEF z
<1>3. q \in Seq(S) /\ h \in Seq(S)
  <2>1. s.queue \in Seq(Tracks) /\ s.history \in Seq(Tracks)
    BY <1>1 DEF LaneStates
  <2>. QED  BY <1>2, <2>1
<1>4. m = IF s.track # None /\ s.track \notin S THEN g ELSE k
  BY <1>1 DEF PruneAmbient, LaneStates
<1>. HIDE DEF q, h
<1>5. /\ m.queue = q /\ m.history = h /\ m.interrupt = s.interrupt
      /\ DOMAIN m = DOMAIN s
      /\ \/ m.track = None /\ s.track # None
         \/ /\ m.track = s.track /\ (s.track # None => s.track \in S)
            /\ m.pos = s.pos /\ m.anchor = s.anchor
  BY <1>1, <1>4 DEF LaneStates
<1>6. r = PruneInterrupt(m, S, clk)
  BY DEF PruneLanes
<1>. HIDE DEF m, r
<1>7. CASE s.interrupt = None
  <2>1. r = m
    BY <1>5, <1>6, <1>7 DEF PruneInterrupt
  <2>. QED  BY <1>3, <1>5, <1>7, <2>1 DEF Steady, Within, r
<1>8. CASE s.interrupt # None /\ s.interrupt.track \in S
  <2> DEFINE i == [s.interrupt EXCEPT !.queue = Retain(s.interrupt.queue, S)]
  <2>1. r = [m EXCEPT !.interrupt = i]
    BY <1>1, <1>5, <1>6, <1>8 DEF PruneInterrupt, LaneStates
  <2>2. s.interrupt \in Interrupts
    BY <1>1, <1>8 DEF LaneStates
  <2>3. i.track = s.interrupt.track /\ i.queue \in Seq(S) /\ i.pos = s.interrupt.pos
          /\ i.anchor = s.interrupt.anchor
    <3>1. s.interrupt.queue \in Seq(Tracks)
      BY <2>2 DEF Interrupts
    <3>2. Retain(s.interrupt.queue, S) \in Seq(S)
      BY <1>2, <3>1
    <3>. QED  BY <2>2, <3>2 DEF Interrupts
  <2>. HIDE DEF i
  <2>4. /\ r.queue = q /\ r.history = h /\ r.interrupt = i /\ r.track = m.track
        /\ r.pos = m.pos /\ r.anchor = m.anchor
    BY <1>1, <1>5, <2>1 DEF LaneStates
  <2>5. Within(r, S)
    BY <1>3, <1>5, <1>8, <2>3, <2>4 DEF Within
  <2>6. Steady(r, s, clk)
    BY <1>5, <2>3, <2>4 DEF Steady
  <2>. QED  BY <2>5, <2>6 DEF r
<1>9. CASE s.interrupt # None /\ s.interrupt.track \notin S
  <2> DEFINE a == IF m.playing /\ m.track # None THEN clk ELSE m.anchor
  <2>1. r = [m EXCEPT !.interrupt = None, !.anchor = a]
    BY <1>1, <1>5, <1>6, <1>9 DEF PruneInterrupt, LaneStates
  <2>. HIDE DEF a
  <2>2. r.queue = q /\ r.history = h /\ r.interrupt = None /\ r.track = m.track
    BY <1>1, <1>5, <2>1 DEF LaneStates
  <2>. QED  BY <1>3, <1>5, <1>9, <2>2 DEF Within, Steady, r
<1>. QED  BY <1>7, <1>8, <1>9

(* A running clock moves with time, one that stands stays. *)
LEMMA TickContinues ==
  ASSUME NEW t \in Nat, NEW pos \in Nat, NEW a \in Anchors, a # None => a <= t
  PROVE  PositionAt(pos, a, t + 1)
           = IF a # None THEN AtMost(PositionAt(pos, a, t) + 1, MaxPosition)
             ELSE PositionAt(pos, a, t)
<1>1. CASE a = None
  BY <1>1 DEF PositionAt
<1>2. CASE a # None
  <2>1. a \in Nat /\ a <= t /\ MaxPosition \in Nat
    BY <1>2, MaxPositionAssumption DEF Anchors
  <2>2. PositionAt(pos, a, t + 1) = AtMost(pos + (t + 1 - a), MaxPosition)
    BY <1>2, <2>1 DEF PositionAt
  <2>3. PositionAt(pos, a, t) = IF t > a THEN AtMost(pos + (t - a), MaxPosition) ELSE pos
    BY <1>2 DEF PositionAt
  <2>. QED  BY <1>2, <2>1, <2>2, <2>3 DEF AtMost
<1>. QED  BY <1>1, <1>2
-----------------------------------------------------------------------------
(* What the room refers to.                                                *)

Unique(ls) == \A k, l \in ls : k.id = l.id => k = l

(* Room r has only what catalog m offers, and one loop of each id. *)
Tidy(r, m) ==
  /\ Unique(r.loops)
  /\ m # None =>
       /\ r.mode # None => r.mode \in DOMAIN m
       /\ r.board # None => BoardKnown(r, m, r.board)
       /\ PresetsKnown(r, m, r.presets)

SameContent(q, r) ==
  q.mode = r.mode /\ q.board = r.board /\ q.presets = r.presets /\ q.loops = r.loops

(* A room with the same content is as tidy. *)
LEMMA SameContentTidy ==
  ASSUME NEW q, NEW r, NEW m, SameContent(q, r), Tidy(r, m)
  PROVE  Tidy(q, m)
BY DEF SameContent, Tidy, BoardKnown, PresetsKnown, HasMode, ModeOf

(* Volumes, crossfade, outputs and the policy leave the content alone. *)
LEMMA SettingsContent ==
  ASSUME NEW r \in RoomStates
  PROVE  /\ \A x : SameContent(SetCrossfade(r, x), r)
         /\ \A d, v : SameContent(SetDeviceVolume(r, d, v), r)
         /\ \A ds : SameContent(SetActiveOutputs(r, ds), r)
         /\ \A d : SameContent(RemoveActiveOutput(r, d), r)
         /\ \A d, f : SameContent(RegisterDevice(r, d, f), r)
         /\ \A f : SameContent(ApplyOutputPolicy(r, f), r)
<1>1. \A x : SameContent(SetCrossfade(r, x), r)
  BY DEF SetCrossfade, RoomStates, SameContent
<1>2. \A d, v : SameContent(SetDeviceVolume(r, d, v), r)
  BY DEF SetDeviceVolume, RoomStates, SameContent
<1>3. \A ds : SameContent(SetActiveOutputs(r, ds), r)
  BY DEF SetActiveOutputs, RoomStates, SameContent
<1>4. \A d : SameContent(RemoveActiveOutput(r, d), r)
  BY DEF RemoveActiveOutput, RoomStates, SameContent
<1>5. \A d, f : SameContent(RegisterDevice(r, d, f), r)
  BY DEF RegisterDevice, RoomStates, SameContent
<1>6. \A f : SameContent(ApplyOutputPolicy(r, f), r)
  BY DEF ApplyOutputPolicy, RoomStates, SameContent
<1>. QED  BY <1>1, <1>2, <1>3, <1>4, <1>5, <1>6

(* A choice the catalog offers keeps the room tidy. *)
LEMMA ChoicesTidy ==
  ASSUME NEW r \in RoomStates, NEW m, Tidy(r, m)
  PROVE  /\ \A x : (x # None => m # None /\ x \in DOMAIN m) =>
                     Tidy(SetActiveMode(r, x), m)
         /\ \A b : (b # None => BoardKnown(r, m, b)) =>
                     Tidy(SetActiveSoundboard(r, b), m)
         /\ \A ps, x : PresetsKnown(r, m, ps) => Tidy(SetActivePresets(r, ps, x), m)
<1>1. ASSUME NEW x, x # None => m # None /\ x \in DOMAIN m
      PROVE  Tidy(SetActiveMode(r, x), m)
  <2> DEFINE q == [r EXCEPT !.mode = x, !.presets = {}, !.board = None]
  <2>1. q.mode = x /\ q.presets = {} /\ q.board = None /\ q.loops = r.loops
    BY DEF RoomStates
  <2>2. SetActiveMode(r, x) = r \/ SetActiveMode(r, x) = q
    BY DEF SetActiveMode
  <2>. HIDE DEF q
  <2>3. Tidy(q, m)
    BY <1>1, <2>1 DEF Tidy, PresetsKnown
  <2>. QED  BY <2>2, <2>3
<1>2. ASSUME NEW b, b # None => BoardKnown(r, m, b)
      PROVE  Tidy(SetActiveSoundboard(r, b), m)
  <2> DEFINE q == SetActiveSoundboard(r, b)
  <2>1. q.mode = r.mode /\ q.presets = r.presets /\ q.board = b /\ q.loops = r.loops
    BY DEF SetActiveSoundboard, RoomStates
  <2>. HIDE DEF q
  <2>2. Tidy(q, m)
    BY <1>2, <2>1 DEF Tidy, BoardKnown, PresetsKnown, HasMode, ModeOf
  <2>. QED  BY <2>2 DEF q
<1>3. ASSUME NEW ps, NEW x, PresetsKnown(r, m, ps)
      PROVE  Tidy(SetActivePresets(r, ps, x), m)
  <2> DEFINE q == SetActivePresets(r, ps, x)
  <2>1. q.mode = r.mode /\ q.presets = ps /\ q.board = r.board /\ q.loops = r.loops
    BY DEF SetActivePresets, RoomStates
  <2>. HIDE DEF q
  <2>2. Tidy(q, m)
    BY <1>3, <2>1 DEF Tidy, BoardKnown, PresetsKnown, HasMode, ModeOf
  <2>. QED  BY <2>2 DEF q
<1>. QED  BY <1>1, <1>2, <1>3

(* Loops with ids of their own leave the room tidy. *)
LEMMA LoopsTidy ==
  ASSUME NEW r \in RoomStates, NEW m, Tidy(r, m), NEW ls, Unique(ls)
  PROVE  Tidy([r EXCEPT !.loops = ls], m)
<1> DEFINE q == [r EXCEPT !.loops = ls]
<1>1. q.mode = r.mode /\ q.presets = r.presets /\ q.board = r.board /\ q.loops = ls
  BY DEF RoomStates
<1>. HIDE DEF q
<1>2. Tidy(q, m)
  BY <1>1 DEF Tidy, BoardKnown, PresetsKnown, HasMode, ModeOf
<1>. QED  BY <1>2 DEF q

(* Starting replaces, stopping removes, and a cue replaces its own. *)
LEMMA LoopCommandsTidy ==
  ASSUME NEW r \in RoomStates, NEW m, Tidy(r, m)
  PROVE  /\ \A l : Tidy(StartLoop(r, l), m)
         /\ \A id : Tidy(StopLoop(r, id), m)
         /\ \A c, ls : Unique(ls) /\ (\A l \in ls : CueOf[l.id] = c) =>
                         Tidy(CueLoops(r, c, ls), m)
<1>1. Unique(r.loops)
  BY DEF Tidy
<1>2. ASSUME NEW l PROVE Tidy(StartLoop(r, l), m)
  <2> DEFINE ls == {k \in r.loops : k.id # l.id} \cup {l}
  <2>1. StartLoop(r, l) = [r EXCEPT !.loops = ls]
    BY DEF StartLoop, RoomStates
  <2>2. Unique(ls)
    BY <1>1 DEF Unique
  <2>. HIDE DEF ls
  <2>. QED  BY <2>1, <2>2, LoopsTidy
<1>3. ASSUME NEW id PROVE Tidy(StopLoop(r, id), m)
  <2> DEFINE ls == {k \in r.loops : k.id # id}
  <2>1. StopLoop(r, id) = [r EXCEPT !.loops = ls]
    BY DEF StopLoop, RoomStates
  <2>2. Unique(ls)
    BY <1>1 DEF Unique
  <2>. HIDE DEF ls
  <2>. QED  BY <2>1, <2>2, LoopsTidy
<1>4. ASSUME NEW c, NEW started, Unique(started), \A l \in started : CueOf[l.id] = c
      PROVE  Tidy(CueLoops(r, c, started), m)
  <2> DEFINE ls == {k \in r.loops : CueOf[k.id] # c} \cup started
  <2>1. CueLoops(r, c, started) = [r EXCEPT !.loops = ls]
    BY DEF CueLoops, RoomStates
  <2>2. Unique(ls)
    BY <1>1, <1>4 DEF Unique
  <2>. HIDE DEF ls
  <2>. QED  BY <2>1, <2>2, LoopsTidy
<1>. QED  BY <1>2, <1>3, <1>4

(* Pruning leaves what the new catalog offers. *)
LEMMA PruneTidy ==
  ASSUME NEW r \in RoomStates, Unique(r.loops), NEW m, NEW content
  PROVE  Tidy(PruneRoom(r, m, content), m)
<1> DEFINE gone == m # None /\ r.mode # None /\ r.mode \notin DOMAIN m
           a == IF gone THEN [r EXCEPT !.mode = None, !.board = None,
                                       !.presets = {}, !.loops = {}]
                        ELSE r
           bb == IF a.board # None /\ BoardKnown(a, m, a.board) THEN a.board ELSE None
           bp == {p \in a.presets : PresetsKnown(a, m, {p})}
           bl == {l \in a.loops : ItemKnown(a, m, l.board, l.item)}
           b == [a EXCEPT !.board = bb, !.presets = bp, !.loops = bl]
           c == IF m = None THEN r
                ELSE ApplyOutputPolicy(b, AllowsMultipleOutputs(b, m))
           q == PruneRoom(r, m, content)
<1>1. a \in RoomStates
  BY DEF RoomStates
<1>2. b = [a EXCEPT !.board = IF @ # None /\ BoardKnown(a, m, @) THEN @ ELSE None,
                    !.presets = {p \in @ : PresetsKnown(a, m, {p})},
                    !.loops = {l \in @ : ItemKnown(a, m, l.board, l.item)}]
  BY <1>1 DEF RoomStates
<1>3. q = [c EXCEPT !.presetRevision = IF content THEN @ + 1 ELSE @]
  BY <1>2 DEF PruneRoom
<1>4. (a.mode = r.mode /\ ~gone /\ a.loops = r.loops) \/ (a.mode = None /\ a.loops = {})
  BY DEF RoomStates
<1>5. (m # None /\ a.mode # None => a.mode \in DOMAIN m) /\ a.loops \subseteq r.loops
  BY <1>4
<1>. HIDE DEF a
<1>6. bb \in Boards \cup {None} /\ bp \in SUBSET Presets /\ bl \in SUBSET LoopingSfx
        /\ bl \subseteq r.loops
  BY <1>1, <1>5 DEF RoomStates
<1>7. /\ bb # None => BoardKnown(a, m, bb)
      /\ PresetsKnown(a, m, bp)
  BY DEF PresetsKnown
<1>. HIDE DEF bb, bp, bl
<1>8. b \in RoomStates /\ b.mode = a.mode /\ b.board = bb /\ b.presets = bp
        /\ b.loops = bl
  BY <1>1, <1>6 DEF RoomStates
<1>. HIDE DEF b
<1>9. Tidy(b, m)
  BY <1>5, <1>6, <1>7, <1>8
     DEF Tidy, Unique, BoardKnown, PresetsKnown, HasMode, ModeOf
<1>10. Tidy(c, m) /\ DOMAIN c = DOMAIN r
  <2>1. CASE m = None
    BY <2>1 DEF Tidy
  <2>2. CASE m # None
    <3>1. c = ApplyOutputPolicy(b, AllowsMultipleOutputs(b, m))
      BY <2>2
    <3>2. SameContent(c, b)
      BY <1>8, <3>1, SettingsContent
    <3>3. DOMAIN c = DOMAIN r
      BY <1>8, <3>1 DEF ApplyOutputPolicy, RoomStates
    <3>. QED  BY <1>9, <3>2, <3>3, SameContentTidy
  <2>. QED  BY <2>1, <2>2
<1>. HIDE DEF c, q
<1>11. SameContent(q, c)
  BY <1>3, <1>10 DEF SameContent, RoomStates
<1>12. Tidy(q, m)
  BY <1>10, <1>11, SameContentTidy
<1>. QED  BY <1>12 DEF q

-----------------------------------------------------------------------------
(* Timers of loops.                                                        *)

(* No timer of a loop lies more than one interval ahead. *)
Timely(base, ls) == \A l \in ls : l.id \in DOMAIN base => base[l.id] <= now + l.every

LoopTimers(d, ls) == DOMAIN d = {l.id : l \in ls} /\ Timely(d, ls)

(* A loop is found by its id. *)
LEMMA LoopWithId ==
  ASSUME NEW ls, Unique(ls), NEW l \in ls
  PROVE  LoopWith(ls, l.id) = l
BY DEF LoopWith, Unique

(* Reconciling leaves one timer for each loop, due within its interval. *)
LEMMA ReconcileTimers ==
  ASSUME now \in Nat, NEW base, NEW before, Timely(base, before),
         NEW after \in SUBSET LoopingSfx, Unique(after), NEW restarted
  PROVE  LoopTimers(ReconcileDeadlines(base, before, after, restarted), after)
<1> DEFINE f == ReconcileDeadlines(base, before, after, restarted)
<1>1. DOMAIN f = {l.id : l \in after}
  BY DEF ReconcileDeadlines
<1>2. ASSUME NEW l \in after PROVE f[l.id] <= now + l.every
  <2>1. LoopWith(after, l.id) = l /\ l.every \in Nat
    BY LoopWithId, IntervalsAssumption DEF LoopingSfx
  <2>2. f[l.id] = IF l.id \in DOMAIN base \ restarted /\ l \in before
                    THEN base[l.id] ELSE now + l.every
    BY <2>1 DEF ReconcileDeadlines
  <2>. HIDE DEF f
  <2>. QED  BY <2>1, <2>2 DEF Timely
<1>. QED  BY <1>1, <1>2 DEF LoopTimers, Timely

(* A round of due effects arms them one interval ahead. *)
LEMMA RearmedTimers ==
  ASSUME now \in Nat, room.loops \in SUBSET LoopingSfx, Unique(room.loops),
         LoopTimers(deadlines, room.loops)
  PROVE  LoopTimers(Rearmed, room.loops)
<1> DEFINE f == Rearmed
           ids == {i \in DOMAIN deadlines : i \in DueLoops
                                     => \E l \in room.loops : l.id = i}
<1>1. ids = {l.id : l \in room.loops}
  BY DEF LoopTimers
<1>2. f = [id \in ids |-> IF id \in DueLoops THEN now + LoopWith(room.loops, id).every
                                             ELSE deadlines[id]]
  BY DEF Rearmed
<1>. HIDE DEF f, ids
<1>3. ASSUME NEW l \in room.loops PROVE f[l.id] <= now + l.every
  <2>1. LoopWith(room.loops, l.id) = l /\ l.every \in Nat /\ l.id \in ids
    BY <1>1, LoopWithId, IntervalsAssumption DEF LoopingSfx
  <2>2. f[l.id] = now + l.every \/ f[l.id] = deadlines[l.id]
    BY <1>2, <2>1
  <2>3. deadlines[l.id] <= now + l.every
    BY DEF LoopTimers, Timely
  <2>. QED  BY <2>1, <2>2, <2>3
<1>4. DOMAIN f = {l.id : l \in room.loops}
  BY <1>1, <1>2
<1>. QED  BY <1>3, <1>4 DEF LoopTimers, Timely, f
-----------------------------------------------------------------------------
(* The owner's references, timers and moves.                               *)

References ==
  /\ known # None => Within(lanes, known)
  /\ Tidy(room, modes)
  /\ LoopTimers(deadlines, room.loops)
  /\ ~up => known = None /\ room.loops = {}

(* How the lanes move in a step: not at all, with time, by a command or by *)
(* a report.                                                               *)
Moves ==
  up /\ up' => \/ lanes' = lanes /\ (now' = now \/ now' = now + 1)
               \/ now' = now /\ Steady(lanes', lanes, now)
               \/ now' = now /\ dirty'

Followed == References' /\ Moves

(* A process that is gone refers to nothing. *)
LEMMA HaltFollowed ==
  ASSUME NEW doc, Halt(doc)
  PROVE  Followed
<1>1. DefaultRoom.loops = {}
  BY DEF DefaultRoom
<1>2. ~up' /\ known' = None /\ modes' = None /\ room' = DefaultRoom
        /\ deadlines' = <<>>
  BY DEF Halt
<1>3. Tidy(room', modes') /\ room'.loops = {}
  BY <1>1, <1>2 DEF Tidy, Unique
<1>4. LoopTimers(deadlines, room.loops)'
  <2>1. DOMAIN deadlines' = {}
    BY <1>2
  <2>. QED  BY <1>3, <2>1 DEF LoopTimers, Timely
<1>. QED  BY <1>2, <1>3, <1>4 DEF Followed, References, Moves

(* A save installs tidy content with its timers. *)
LEMMA InstalledFollowed ==
  ASSUME IInv, NEW l, Steady(l, lanes, now), NEW r \in RoomStates, NEW base,
         Timely(base, room.loops), NEW restarted, Installed(l, r, base, restarted),
         known' # None => Within(l, known'), Tidy(r, modes'), up
  PROVE  Followed
<1>1. lanes' = l /\ room' = r /\ now' = now /\ up' = up
        /\ deadlines' = ReconcileDeadlines(base, room.loops, r.loops, restarted)
  BY DEF Installed
<1>2. now \in Nat /\ r.loops \in SUBSET LoopingSfx /\ Unique(r.loops)
  BY DEF IInv, TypeOK, RoomStates, Tidy
<1>3. LoopTimers(deadlines', r.loops)
  BY <1>1, <1>2, ReconcileTimers
<1>4. LoopTimers(deadlines, room.loops)'
  BY <1>1, <1>3 DEF LoopTimers, Timely
<1>. QED  BY <1>1, <1>4 DEF Followed, References, Moves

(* A commit of known tracks and tidy content keeps the references. *)
LEMMA CommitFollowed ==
  ASSUME IInv, NEW l, Steady(l, lanes, now), known # None => Within(l, known),
         NEW r \in RoomStates, Tidy(r, modes), NEW base, Timely(base, room.loops),
         NEW restarted, Commit(l, r, base, restarted)
  PROVE  Followed
<1> DEFINE q == Policed(r)
<1>1. q \in RoomStates /\ Tidy(q, modes)
  <2>1. CASE modes = None
    BY <2>1 DEF Policed
  <2>2. CASE modes # None
    <3> DEFINE a == AllowsMultipleOutputs(r, modes)
    <3>1. q = ApplyOutputPolicy(r, a)
      BY <2>2 DEF Policed
    <3>2. a \in BOOLEAN
      BY ModesTyped, AllowsType DEF IInv, TypeOK
    <3>. HIDE DEF a
    <3>3. ApplyOutputPolicy(r, a) \in RoomStates
      BY <3>2, ApplyOutputPolicyFit DEF Fit
    <3>4. Tidy(ApplyOutputPolicy(r, a), modes)
      BY SettingsContent, SameContentTidy
    <3>. QED  BY <3>1, <3>3, <3>4
  <2>. QED  BY <2>1, <2>2
<1>. HIDE DEF q
<1>2. CASE Halt(Document(l, q, NextRevision(revision), now))
  BY <1>2, HaltFollowed
<1>3. CASE Installed(l, q, base, restarted) /\ UNCHANGED <<known, modes>>
  <2>1. known' = known /\ modes' = modes
    BY <1>3
  <2>2. (known' # None => Within(l, known')) /\ Tidy(q, modes') /\ up
    BY <1>1, <2>1 DEF Commit, Bounded
  <2>. QED  BY <1>1, <1>3, <2>2, InstalledFollowed
<1>. QED  BY <1>2, <1>3 DEF Commit, q

(* What References says to a command. *)
LEMMA ReferenceParts ==
  ASSUME IInv, References
  PROVE  /\ lanes \in LaneStates /\ room \in RoomStates /\ now \in Nat
         /\ Sound(lanes, now) /\ Tidy(room, modes) /\ Timely(deadlines, room.loops)
         /\ known # None => known \in SUBSET Tracks /\ Within(lanes, known)
         /\ Steady(lanes, lanes, now)
BY DEF IInv, TypeOK, References, LoopTimers, Steady

(* A command on the lanes alone. *)
LEMMA LanesFollowed ==
  ASSUME IInv, References, NEW l, Steady(l, lanes, now),
         known # None => Within(l, known), ExecuteLanes(l)
  PROVE  Followed
BY ReferenceParts, CommitFollowed DEF ExecuteLanes

(* A command on the room alone. *)
LEMMA RoomFollowed ==
  ASSUME IInv, References, NEW r \in RoomStates, Tidy(r, modes), ExecuteRoom(r)
  PROVE  Followed
BY ReferenceParts, CommitFollowed DEF ExecuteRoom

(* Requested tracks are of the loaded catalog, and with none loaded there  *)
(* are none.                                                               *)
LEMMA ValidWithin ==
  ASSUME NEW ts \in Seq(Tracks), TracksValid(ts), known # None
  PROVE  ts \in Seq(known)
<1>1. CASE ts = <<>>
  BY <1>1
<1>2. CASE ts # <<>>
  <2>1. ToSet(ts) \subseteq known
    BY <1>2 DEF TracksValid
  <2>. QED  BY <2>1, SeqWithin
<1>. QED  BY <1>1, <1>2

(* The same for one track. *)
LEMMA ValidTrack ==
  ASSUME NEW t \in Tracks, TracksValid(<<t>>), known # None
  PROVE  t \in known
<1>1. <<t>> # <<>> /\ ToSet(<<t>>) = {t}
  BY DEF ToSet
<1>. QED  BY <1>1 DEF TracksValid

(* The follower is of the loaded catalog. *)
LEMMA FollowerKnown ==
  ASSUME IInv, NEW t, Follower(t) # None
  PROVE  known # None /\ Follower(t) \in known
<1>1. known # None /\ t # None /\ t \in known /\ Follower(t) = FollowNext(t, known)
  BY DEF Follower
<1> DEFINE later == {u \in known : u > t}
           S == IF later = {} THEN known ELSE later
<1>2. known \in SUBSET Tracks
  BY <1>1 DEF IInv, TypeOK
<1>3. S \in SUBSET Nat /\ S # {} /\ S \subseteq known
  BY <1>1, <1>2, TracksAssumption
<1>4. FollowNext(t, known) = CHOOSE u \in S : \A w \in S : u <= w
  BY DEF FollowNext
<1>. HIDE DEF S
<1>5. \E u \in S : \A w \in S : u <= w
  BY <1>3, LeastNat
<1>6. FollowNext(t, known) \in S
  BY <1>4, <1>5
<1>. QED  BY <1>1, <1>3, <1>6

(* The next track, chosen or following, is of the loaded catalog. *)
LEMMA SkipFollowed ==
  ASSUME IInv, References, NEW expected, NEW choice \in QueueChoices
  PROVE  LET l == AmbientSkipNext(lanes, Follower(lanes.track), expected, choice, now)
         IN  Steady(l, lanes, now) /\ (known # None => Within(l, known))
<1>1. lanes \in LaneStates /\ (known # None => Within(lanes, known))
  BY ReferenceParts
<1>2. lanes.queue # <<>> => choice \in DOMAIN lanes.queue
  BY ChoiceType
<1> DEFINE f == Follower(lanes.track)
           l == AmbientSkipNext(lanes, f, expected, choice, now)
<1>3. f # None => f \in known
  BY FollowerKnown
<1>. HIDE DEF f
<1>4. Bumped(l, lanes)
        /\ \A S : Within(lanes, S) /\ (f # None => f \in S) => Within(l, S)
  BY <1>1, <1>2, SkipNextSteered
<1>. HIDE DEF l
<1>5. Steady(l, lanes, now) /\ (known # None => Within(l, known))
  BY <1>1, <1>3, <1>4, BumpedSteady
<1>. QED  BY <1>5 DEF l, f

(* Every transport command. *)
LEMMA TransportFollowed ==
  ASSUME IInv, References, TransportCommand
  PROVE  Followed
<1>1. lanes \in LaneStates /\ now \in Nat /\ Sound(lanes, now)
        /\ (known # None => known \in SUBSET Tracks /\ Within(lanes, known))
  BY ReferenceParts
<1>2. ASSUME NEW l, Steered(l, lanes, now), ExecuteLanes(l) PROVE Followed
  BY <1>1, <1>2, LanesFollowed DEF Steered
<1>3. CASE DoSetPlaying
  BY <1>1, <1>2, <1>3, SetPlayingSteered DEF DoSetPlaying
<1>4. CASE DoAmbientPlayTrack
  <2>1. PICK t \in Tracks :
          TracksValid(<<t>>) /\ ExecuteLanes(AmbientPlayTrack(lanes, t, now))
    BY <1>4 DEF DoAmbientPlayTrack
  <2>2. known # None => t \in known
    BY <2>1, ValidTrack
  <2>. QED  BY <1>1, <2>1, <2>2, PlayTrackSteered, LanesFollowed
<1>5. CASE DoAmbientPlaySequence
  <2>1. PICK ts \in Playlists : \E i \in DOMAIN ts :
          TracksValid(ts) /\ ExecuteLanes(AmbientPlaySequence(lanes, ts, i, now))
    BY <1>5 DEF DoAmbientPlaySequence
  <2>2. PICK i \in DOMAIN ts :
          TracksValid(ts) /\ ExecuteLanes(AmbientPlaySequence(lanes, ts, i, now))
    BY <2>1
  <2>3. ts \in Seq(Tracks) /\ i \in Nat \ {0}
    BY PlaylistsAssumption
  <2>4. known # None => ts \in Seq(known)
    BY <2>2, <2>3, ValidWithin
  <2> DEFINE l == AmbientPlaySequence(lanes, ts, i, now)
  <2>5. Bumped(l, lanes) /\ \A S : ts \in Seq(S) /\ Within(lanes, S) => Within(l, S)
    BY <1>1, <2>3, PlaySequenceSteered
  <2>6. ExecuteLanes(l)
    BY <2>2
  <2>. HIDE DEF l
  <2>. QED  BY <1>1, <2>4, <2>5, <2>6, BumpedSteady, LanesFollowed
<1>6. CASE DoAmbientSetQueue
  <2>1. PICK ts \in Playlists \cup {<<>>} :
          TracksValid(ts) /\ ExecuteLanes(AmbientSetQueue(lanes, ts))
    BY <1>6 DEF DoAmbientSetQueue
  <2>2. ts \in Seq(Tracks)
    <3>1. CASE ts \in Playlists
      BY <3>1, PlaylistsAssumption
    <3>2. CASE ts = <<>>
      BY <3>2
    <3>. QED  BY <3>1, <3>2
  <2>3. known # None => ts \in Seq(known)
    BY <2>1, <2>2, ValidWithin
  <2> DEFINE l == AmbientSetQueue(lanes, ts)
  <2>4. Steady(l, lanes, now)
          /\ \A S : ts \in Seq(S) /\ Within(lanes, S) => Within(l, S)
    BY <1>1, QueueSteered DEF AmbientSetQueue
  <2>5. ExecuteLanes(l)
    BY <2>1
  <2>. HIDE DEF l
  <2>. QED  BY <1>1, <2>3, <2>4, <2>5, LanesFollowed
<1>7. CASE DoAmbientJumpQueue
  BY <1>1, <1>2, <1>7, JumpSteered DEF DoAmbientJumpQueue
<1>8. CASE DoAmbientEnqueue
  <2>1. PICK t \in Tracks, i \in 1..(MaxQueue + 1) :
          TracksValid(<<t>>) /\ ExecuteLanes(AmbientEnqueue(lanes, t, i))
    BY <1>8 DEF DoAmbientEnqueue
  <2>2. i \in Nat \ {0} /\ (known # None => t \in known)
    BY <2>1, BoundsAssumption, ValidTrack
  <2> DEFINE l == AmbientEnqueue(lanes, t, i)
  <2>3. Steady(l, lanes, now) /\ \A S : t \in S /\ Within(lanes, S) => Within(l, S)
    BY <1>1, <2>2, EnqueueSteered
  <2>4. ExecuteLanes(l)
    BY <2>1
  <2>. HIDE DEF l
  <2>. QED  BY <1>1, <2>2, <2>3, <2>4, LanesFollowed
<1>9. CASE DoAmbientSkipNext
  BY <1>9, SkipFollowed, LanesFollowed DEF DoAmbientSkipNext
<1>10. CASE DoAmbientSkipPrevious
  BY <1>1, <1>2, <1>10, SkipPreviousSteered DEF DoAmbientSkipPrevious
<1>11. CASE DoAmbientSeek
  BY <1>1, <1>2, <1>11, SeekSteered DEF DoAmbientSeek
<1>12. CASE DoAmbientSetLoop
  BY <1>1, <1>2, <1>12, SettingsSteered DEF DoAmbientSetLoop
<1>13. CASE DoAmbientSetShuffle
  BY <1>1, <1>2, <1>13, SettingsSteered DEF DoAmbientSetShuffle
<1>14. CASE DoAmbientStop
  BY <1>1, <1>2, <1>14, StopSteered DEF DoAmbientStop
<1>15. CASE DoFireInterrupt
  <2>1. PICK ts \in Playlists, returns \in BOOLEAN, ducks \in BOOLEAN :
          /\ TracksValid(ts)
          /\ ExecuteLanes(FireInterrupt(lanes, ts, returns, ducks, now))
    BY <1>15 DEF DoFireInterrupt
  <2>2. ts \in Seq(Tracks)
    BY PlaylistsAssumption
  <2>3. known # None => ts \in Seq(known)
    BY <2>1, <2>2, ValidWithin
  <2> DEFINE l == FireInterrupt(lanes, ts, returns, ducks, now)
  <2>4. Steady(l, lanes, now)
          /\ \A S : ts \in Seq(S) /\ Within(lanes, S) => Within(l, S)
    BY <1>1, <2>2, FireInterruptSteered
  <2>5. ExecuteLanes(l)
    BY <2>1
  <2>. HIDE DEF l
  <2>. QED  BY <1>1, <2>3, <2>4, <2>5, LanesFollowed
<1>16. CASE DoInterruptSkipNext
  BY <1>1, <1>2, <1>16, InterruptSkipSteered DEF DoInterruptSkipNext
<1>17. CASE DoInterruptSeek
  BY <1>1, <1>2, <1>17, InterruptSeekSteered DEF DoInterruptSeek
<1>18. CASE DoCancelInterrupt
  BY <1>1, <1>18, EndInterruptSteered, BumpedSteady, LanesFollowed
     DEF DoCancelInterrupt
<1>19. CASE DoReportPosition
  <2>1. PICK p \in Positions : lanes' = ReportPosition(lanes, p, now)
    BY <1>19 DEF DoReportPosition
  <2>2. UNCHANGED <<up, now, room, known, modes, deadlines>> /\ dirty'
    BY <1>19 DEF DoReportPosition
  <2>3. ASSUME NEW S, Within(lanes, S) PROVE Within(lanes', S)
    <3> DEFINE x == AtMost(p, MaxPosition)
               a == IF lanes.anchor # None THEN now ELSE None
    <3>1. CASE lanes.interrupt # None
      <4> DEFINE i == [lanes.interrupt EXCEPT !.pos = x, !.anchor = now]
      <4>1. lanes' = [lanes EXCEPT !.interrupt = i]
        BY <1>1, <2>1, <3>1 DEF ReportPosition, LaneStates
      <4>2. i.track = lanes.interrupt.track /\ i.queue = lanes.interrupt.queue
        <5>1. lanes.interrupt \in Interrupts
          BY <1>1, <3>1 DEF LaneStates
        <5>. QED  BY <5>1 DEF Interrupts
      <4>. HIDE DEF i
      <4>. QED  BY <1>1, <2>3, <3>1, <4>1, <4>2 DEF LaneStates, Within
    <3>2. CASE lanes.interrupt = None
      <4>1. lanes' = [lanes EXCEPT !.pos = x, !.anchor = a]
        BY <1>1, <2>1, <3>2 DEF ReportPosition, LaneStates
      <4>. HIDE DEF x, a
      <4>. QED  BY <1>1, <2>3, <3>2, <4>1 DEF LaneStates, Within
    <3>. QED  BY <3>1, <3>2
  <2>4. LoopTimers(deadlines, room.loops)'
    BY <2>2 DEF References, LoopTimers, Timely
  <2>. QED  BY <2>2, <2>3, <2>4 DEF Followed, References, Moves
<1>. QED  BY <1>3, <1>4, <1>5, <1>6, <1>7, <1>8, <1>9, <1>10, <1>11, <1>12,
             <1>13, <1>14, <1>15, <1>16, <1>17, <1>18, <1>19
          DEF TransportCommand
(* Every room command. *)
LEMMA RoomCommandFollowed ==
  ASSUME IInv, References, RoomCommand
  PROVE  Followed
<1>1. room \in RoomStates /\ Fit(room) /\ Tidy(room, modes) /\ now \in Nat
        /\ lanes \in LaneStates /\ Sound(lanes, now) /\ Steady(lanes, lanes, now)
        /\ Timely(deadlines, room.loops)
        /\ (known # None => known \in SUBSET Tracks /\ Within(lanes, known))
  BY ReferenceParts, Parts
<1>2. ASSUME NEW r, Kept(r, room), Tidy(r, modes), ExecuteRoom(r) PROVE Followed
  BY <1>2, RoomFollowed DEF Kept, Fit
<1>3. CASE DoSetActiveMode
  BY <1>1, <1>2, <1>3, SetActiveModeFit, ChoicesTidy DEF DoSetActiveMode
<1>4. CASE DoSetActiveSoundboard
  BY <1>1, <1>2, <1>4, SetActiveSoundboardFit, ChoicesTidy DEF DoSetActiveSoundboard
<1>5. CASE DoSetActivePresets
  BY <1>1, <1>2, <1>5, SetActivePresetsFit, ChoicesTidy DEF DoSetActivePresets
<1>6. CASE DoSetCrossfade
  <2>1. PICK x \in Crossfades : ExecuteRoom(SetCrossfade(room, x))
    BY <1>6 DEF DoSetCrossfade
  <2>2. Tidy(SetCrossfade(room, x), modes)
    BY <1>1, SettingsContent, SameContentTidy
  <2>. QED  BY <1>1, <1>2, <2>1, <2>2, SetCrossfadeFit
<1>7. CASE DoSetDeviceVolume
  <2>1. PICK d \in Devices, v \in Volumes : ExecuteRoom(SetDeviceVolume(room, d, v))
    BY <1>7 DEF DoSetDeviceVolume
  <2>2. Tidy(SetDeviceVolume(room, d, v), modes)
    BY <1>1, SettingsContent, SameContentTidy
  <2>. QED  BY <1>1, <1>2, <2>1, <2>2, SetDeviceVolumeFit
<1>8. CASE DoSetActiveOutputs
  <2>1. PICK ds \in UNION {[1..n -> Devices] : n \in 0..2} :
          ExecuteRoom(SetActiveOutputs(room, ds))
    BY <1>8 DEF DoSetActiveOutputs
  <2>2. ds \in Seq(Devices)
    <3>1. PICK n \in 0..2 : ds \in [1..n -> Devices]
      OBVIOUS
    <3>2. n \in Nat
      OBVIOUS
    <3>. QED  BY <3>1, <3>2
  <2>3. SetActiveOutputs(room, ds) \in RoomStates
    BY <1>1, <2>2, SetActiveOutputsFit DEF Fit
  <2>4. Tidy(SetActiveOutputs(room, ds), modes)
    BY <1>1, SettingsContent, SameContentTidy
  <2>. QED  BY <2>1, <2>3, <2>4, RoomFollowed
<1>9. CASE DoStartLoop
  <2>1. PICK l \in LoopingSfx : Commit(lanes, StartLoop(room, l), deadlines, {l.id})
    BY <1>9 DEF DoStartLoop
  <2>2. StartLoop(room, l) \in RoomStates
    BY <1>1, LoopCommandsFit DEF Kept, Fit
  <2>3. Tidy(StartLoop(room, l), modes)
    BY <1>1, LoopCommandsTidy
  <2>. QED  BY <1>1, <2>1, <2>2, <2>3, CommitFollowed
<1>10. CASE DoStopLoop
  BY <1>1, <1>2, <1>10, LoopCommandsFit, LoopCommandsTidy DEF DoStopLoop
<1>11. CASE DoFireCue
  <2> DEFINE P(c) == IF c.preset = {} THEN room
                     ELSE SetActivePresets(room, c.preset, c.crossfade)
             R(c) == CueLoops(P(c), c.cue, c.loops)
             L(c) == IF c.tracks = <<>> THEN lanes
                     ELSE CuePlaylist(lanes, c.tracks, c.start, c.at, now)
  <2>1. PICK c \in Cues :
          CueValid(c) /\ Commit(L(c), R(c), deadlines, {k.id : k \in c.loops})
    BY <1>11 DEF DoFireCue
  <2>2. c \in CueContents
    BY CuesAssumption
  <2>3. /\ c.preset \in SUBSET Presets /\ c.crossfade \in Crossfades \cup {None}
        /\ c.tracks \in Seq(Tracks) /\ c.start \in Nat \ {0} /\ c.at \in Nat
        /\ c.loops \in SUBSET LoopingSfx
    BY <2>2 DEF CueContents
  <2>4. /\ PresetsKnown(room, modes, c.preset) /\ TracksValid(c.tracks)
        /\ Unique(c.loops) /\ \A l \in c.loops : CueOf[l.id] = c.cue
    BY <2>1 DEF CueValid, Unique
  <2>5. Kept(P(c), room) /\ Tidy(P(c), modes)
    BY <1>1, <2>3, <2>4, SetActivePresetsFit, ChoicesTidy DEF Kept
  <2>. HIDE DEF P
  <2>6. R(c) \in RoomStates /\ Tidy(R(c), modes)
    <3>1. P(c) \in RoomStates /\ Fit(P(c))
      BY <2>5 DEF Kept, Fit
    <3>2. Kept(R(c), P(c))
      BY <2>3, <3>1, LoopCommandsFit
    <3>3. Tidy(R(c), modes)
      BY <2>4, <2>5, <3>1, LoopCommandsTidy
    <3>. HIDE DEF R
    <3>. QED  BY <3>2, <3>3 DEF Kept, Fit
  <2>. HIDE DEF R
  <2>7. Steady(L(c), lanes, now) /\ (known # None => Within(L(c), known))
    <3>1. CASE c.tracks = <<>>
      BY <1>1, <3>1
    <3>2. CASE c.tracks # <<>>
      <4>1. known # None => c.tracks \in Seq(known)
        BY <2>3, <2>4, ValidWithin
      <4>2. L(c) = CuePlaylist(lanes, c.tracks, c.start, c.at, now)
        BY <3>2
      <4>. HIDE DEF L
      <4>. QED  BY <1>1, <2>3, <3>2, <4>1, <4>2, CueSteered
    <3>. QED  BY <3>1, <3>2
  <2>. HIDE DEF L
  <2>. QED  BY <1>1, <2>1, <2>6, <2>7, CommitFollowed
<1>. QED  BY <1>3, <1>4, <1>5, <1>6, <1>7, <1>8, <1>9, <1>10, <1>11
          DEF RoomCommand

(* Steps that touch neither lanes, room, catalogs nor timers. *)
LEMMA UntouchedFollowed ==
  ASSUME References, UNCHANGED <<up, now, lanes, room, known, modes, deadlines>>
  PROVE  Followed
<1>1. LoopTimers(deadlines, room.loops)'
  BY DEF References, LoopTimers, Timely
<1>. QED  BY <1>1 DEF Followed, References, Moves

(* A change of presence keeps the references. *)
LEMMA ExternalFollowed ==
  ASSUME IInv, References, NEW r, SameContent(r, room), NEW o, NEW g,
         CommitExternal(r, o, g)
  PROVE  Followed
<1> DEFINE doc == Document(lanes, r, NextRevision(revision), now)
<1>1. CASE UNCHANGED <<up, now, lanes, room, revision, known, modes,
                       deadlines, dirty, nextConn, stored, published>>
  BY <1>1, UntouchedFollowed
<1>2. CASE Halt(doc)
  BY <1>2, HaltFollowed
<1>3. CASE room' = r /\ UNCHANGED <<up, now, lanes, known, modes, deadlines, nextConn>>
  <2>1. Tidy(room', modes')
    BY <1>3, SameContentTidy DEF References
  <2>2. room'.loops = room.loops
    BY <1>3 DEF SameContent
  <2>3. LoopTimers(deadlines, room.loops)'
    BY <1>3, <2>2 DEF References, LoopTimers, Timely
  <2>. QED  BY <1>3, <2>1, <2>2, <2>3 DEF Followed, References, Moves
<1>. QED  BY <1>1, <1>2, <1>3 DEF CommitExternal

(* Connections come and go without touching what is referred to. *)
LEMMA ConnectionFollowed ==
  ASSUME IInv, References, Connection
  PROVE  Followed
<1>1. room \in RoomStates /\ SameContent(room, room) /\ Fit(room)
  BY ReferenceParts, Parts DEF SameContent
<1>2. CASE OpenConnection
  BY <1>2, UntouchedFollowed DEF OpenConnection
<1>3. CASE RegisterConnection
  <2> DEFINE Left(c, n) == /\ reg[c] # None
                           /\ reg[c].client # n.client
                           /\ ~HasSibling(open, reg, c, reg[c].client)
             R(c, n) == IF Left(c, n) THEN RemoveActiveOutput(room, reg[c].client)
                        ELSE room
             Q(c, n) == RegisterDevice(R(c, n), n.client, n.default)
  <2>1. PICK c \in open, n \in Registrations :
          CommitExternal(Q(c, n), open, [reg EXCEPT ![c] = n])
    BY <1>3 DEF RegisterConnection
  <2>2. R(c, n) \in RoomStates /\ SameContent(R(c, n), room)
    BY <1>1, RemoveActiveOutputFit, SettingsContent DEF Fit
  <2>. HIDE DEF R
  <2>3. SameContent(Q(c, n), room)
    BY <2>2, SettingsContent DEF SameContent
  <2>. HIDE DEF Q
  <2>. QED  BY <2>1, <2>3, ExternalFollowed
<1>4. CASE Disconnect
  <2> DEFINE Left(c) == reg[c] # None /\ ~HasSibling(open, reg, c, reg[c].client)
             R(c) == IF Left(c) THEN RemoveActiveOutput(room, reg[c].client) ELSE room
  <2>1. PICK c \in open : CommitExternal(R(c), open \ {c}, [reg EXCEPT ![c] = None])
    BY <1>4 DEF Disconnect
  <2>2. SameContent(R(c), room)
    BY <1>1, SettingsContent
  <2>. HIDE DEF R
  <2>. QED  BY <2>1, <2>2, ExternalFollowed
<1>5. CASE RefreshClientMetadata
  BY <1>5, UntouchedFollowed DEF RefreshClientMetadata
<1>. QED  BY <1>2, <1>3, <1>4, <1>5 DEF Connection

(* A catalog is installed with what it prunes, in one step. *)
LEMMA ReplaceFollowed ==
  ASSUME IInv, References, NEW S \in (SUBSET Tracks) \cup {None},
         S = None \/ S \in SUBSET Tracks,
         NEW m \in ModeCatalogs \cup {None}, NEW content \in BOOLEAN,
         ReplaceCatalog(S, m, content)
  PROVE  Followed
<1> DEFINE l == IF S = None THEN lanes ELSE PruneLanes(lanes, S, now)
           r == PruneRoom(room, m, content)
<1>1. lanes \in LaneStates /\ room \in RoomStates /\ Fit(room) /\ now \in Nat
        /\ Sound(lanes, now) /\ Unique(room.loops) /\ up
        /\ Timely(deadlines, room.loops) /\ Steady(lanes, lanes, now)
  BY ReferenceParts, Parts DEF Tidy, ReplaceCatalog
<1>2. Steady(l, lanes, now) /\ (S # None => Within(l, S))
  BY <1>1, PruneSteered
<1>3. r \in RoomStates /\ Tidy(r, m)
  <2>1. r \in RoomStates
    BY <1>1, ModesTyped, PruneRoomFit DEF Fit
  <2>. QED  BY <1>1, <2>1, PruneTidy
<1>4. \/ /\ l = lanes /\ r = room /\ known' = S /\ modes' = m
         /\ UNCHANGED <<up, now, lanes, room, deadlines>>
      \/ Installed(l, r, deadlines, {}) /\ known' = S /\ modes' = m
      \/ Halt(Document(l, r, NextRevision(revision), now))
  BY DEF ReplaceCatalog
<1>. HIDE DEF l, r
<1>5. CASE /\ l = lanes /\ r = room /\ known' = S /\ modes' = m
           /\ UNCHANGED <<up, now, lanes, room, deadlines>>
  <2>1. LoopTimers(deadlines, room.loops)'
    BY <1>5 DEF References, LoopTimers, Timely
  <2>. QED  BY <1>1, <1>2, <1>3, <1>5, <2>1 DEF Followed, References, Moves
<1>6. CASE Installed(l, r, deadlines, {}) /\ known' = S /\ modes' = m
  <2>1. (known' # None => Within(l, known')) /\ Tidy(r, modes')
    BY <1>2, <1>3, <1>6
  <2>. QED  BY <1>1, <1>2, <1>3, <1>6, <2>1, InstalledFollowed
<1>7. CASE Halt(Document(l, r, NextRevision(revision), now))
  BY <1>7, HaltFollowed
<1>. QED  BY <1>4, <1>5, <1>6, <1>7

(* The timer branch. *)
LEMMA EffectsFollowed ==
  ASSUME IInv, References, RunDueEffects
  PROVE  Followed
<1>1. lanes \in LaneStates /\ room \in RoomStates /\ now \in Nat
        /\ Tidy(room, modes) /\ (known # None => known \in SUBSET Tracks
                                                   /\ Within(lanes, known))
  BY ReferenceParts
<1>2. LoopTimers(Rearmed, room.loops)
  <2>1. room.loops \in SUBSET LoopingSfx /\ Unique(room.loops)
    BY <1>1 DEF RoomStates, Tidy
  <2>. QED  BY <1>1, <2>1, RearmedTimers DEF References
<1>3. Timely(Rearmed, room.loops)
  BY <1>2 DEF LoopTimers
<1>4. CASE Commit(InterruptSkipNext(lanes, lanes.interrupt.track, now), room,
                  Rearmed, {})
  <2> DEFINE l == InterruptSkipNext(lanes, lanes.interrupt.track, now)
  <2>1. Steady(l, lanes, now) /\ (known # None => Within(l, known))
    BY <1>1, InterruptSkipSteered DEF Steered
  <2>. HIDE DEF l
  <2>2. Commit(l, room, Rearmed, {})
    BY <1>4 DEF l
  <2>. QED  BY <1>1, <1>3, <2>1, <2>2, CommitFollowed
<1>5. CASE \E choice \in QueueChoices :
             Commit(AmbientSkipNext(lanes, Follower(lanes.track), lanes.track,
                                    choice, now), room, Rearmed, {})
  <2>1. PICK choice \in QueueChoices :
             Commit(AmbientSkipNext(lanes, Follower(lanes.track), lanes.track,
                                    choice, now), room, Rearmed, {})
    BY <1>5
  <2> DEFINE l == AmbientSkipNext(lanes, Follower(lanes.track), lanes.track,
                                  choice, now)
  <2>2. Steady(l, lanes, now) /\ (known # None => Within(l, known))
    BY SkipFollowed
  <2>3. Commit(l, room, Rearmed, {})
    BY <2>1
  <2>. HIDE DEF l
  <2>. QED  BY <1>1, <1>3, <2>2, <2>3, CommitFollowed
<1>6. CASE /\ deadlines' = Rearmed
           /\ UNCHANGED <<up, now, lanes, room, revision, known, modes, dirty,
                          open, reg, nextConn, stored, published>>
  <2>1. LoopTimers(deadlines, room.loops)'
    BY <1>2, <1>6 DEF LoopTimers, Timely
  <2>. QED  BY <1>6, <2>1 DEF Followed, References, Moves
<1>. QED  BY <1>4, <1>5, <1>6 DEF RunDueEffects

(* The flush, time, the end of the process and a start. *)
LEMMA ProcessFollowed ==
  ASSUME IInv, References, FlushPosition \/ Tick \/ Crash \/ Shutdown \/ Start
  PROVE  Followed
<1>1. CASE FlushPosition
  BY <1>1, UntouchedFollowed DEF FlushPosition
<1>2. CASE Tick
  <2>1. now' = now + 1 /\ UNCHANGED <<up, lanes, room, known, modes, deadlines>>
    BY <1>2 DEF Tick
  <2>2. ASSUME NEW l \in room.loops PROVE deadlines[l.id] <= now + 1 + l.every
    <3>1. deadlines[l.id] <= now + l.every /\ l.id \in DOMAIN deadlines
      BY DEF References, LoopTimers, Timely
    <3>2. deadlines[l.id] \in Nat /\ now \in Nat
      BY <3>1 DEF IInv, TypeOK
    <3>3. l.every \in Nat
      BY IntervalsAssumption DEF IInv, TypeOK, RoomStates, LoopingSfx
    <3>. QED  BY <3>1, <3>2, <3>3
  <2>3. LoopTimers(deadlines, room.loops)'
    BY <2>1, <2>2 DEF References, LoopTimers, Timely
  <2>. QED  BY <2>1, <2>3 DEF Followed, References, Moves
<1>3. CASE Crash \/ Shutdown
  BY <1>3, HaltFollowed DEF Crash, Shutdown
<1>4. CASE Start
  <2>1. ~up /\ up' = TRUE /\ room' = NormalizeRoom(stored.room)
          /\ UNCHANGED <<now, known, modes, deadlines>>
    BY <1>4 DEF Start
  <2>2. known = None /\ modes = None /\ room.loops = {}
    BY <2>1 DEF References, IInv
  <2>3. room'.loops = {}
    <3>1. stored.room \in RoomStates
      BY DEF IInv, TypeOK, Documents
    <3>. QED  BY <2>1, <3>1, NormalizeRoomFit
  <2>4. LoopTimers(deadlines, room.loops)'
    BY <2>1, <2>2, <2>3 DEF References, LoopTimers, Timely
  <2>. QED  BY <2>1, <2>2, <2>3, <2>4 DEF Followed, References, Moves, Tidy, Unique
<1>. QED  BY <1>1, <1>2, <1>3, <1>4

(* Every step keeps the references and marks its moves. *)
LEMMA NextFollowed ==
  ASSUME IInv, References, [Next]_vars
  PROVE  Followed
<1>1. CASE TransportCommand
  BY <1>1, TransportFollowed
<1>2. CASE RoomCommand
  BY <1>2, RoomCommandFollowed
<1>3. CASE Connection
  BY <1>3, ConnectionFollowed
<1>4. known \in (SUBSET Tracks) \cup {None} /\ modes \in ModeCatalogs \cup {None}
  BY DEF IInv, TypeOK
<1>5. CASE ReplaceLibraryCatalog
  <2>1. PICK S \in SUBSET Tracks : ReplaceCatalog(S, modes, FALSE)
    BY <1>5 DEF ReplaceLibraryCatalog
  <2>. QED  BY <1>4, <2>1, ReplaceFollowed
<1>6. CASE ReplaceModeCatalog
  <2>1. PICK m \in ModeCatalogs, content \in BOOLEAN :
          ReplaceCatalog(known, m, content)
    BY <1>6 DEF ReplaceModeCatalog
  <2>. QED  BY <1>4, <2>1, ReplaceFollowed
<1>7. CASE RunDueEffects
  BY <1>7, EffectsFollowed
<1>8. CASE FlushPosition \/ Tick \/ Crash \/ Shutdown \/ Start
  BY <1>8, ProcessFollowed
<1>9. CASE UNCHANGED vars
  BY <1>9, UntouchedFollowed DEF vars
<1>. QED  BY <1>1, <1>2, <1>3, <1>5, <1>6, <1>7, <1>8, <1>9 DEF Next

(* References hold in every reachable state. *)
LEMMA ReferencesAlways == Spec => [](IInv /\ References)
<1>1. Init => References
  <2>. SUFFICES ASSUME Init PROVE References
    OBVIOUS
  <2>1. known = None /\ modes = None /\ room.loops = {} /\ deadlines = <<>> /\ up
    BY DEF Init, DefaultRoom
  <2>2. LoopTimers(deadlines, room.loops)
    <3>1. DOMAIN deadlines = {}
      BY <2>1
    <3>. QED  BY <2>1, <3>1 DEF LoopTimers, Timely
  <2>. QED  BY <2>1, <2>2 DEF References, Tidy, Unique
<1>2. IInv /\ References /\ [Next]_vars => (IInv /\ References)'
  BY NextInv, NextFollowed DEF Followed
<1>. QED  BY <1>1, <1>2, InitInv, PTL DEF Spec

(* No order of commands, cues, catalog publications and restarts leaves a  *)
(* reference to a track, mode, soundboard or preset that the loaded        *)
(* catalogs do not have.                                                   *)
THEOREM ReferencesHold == Spec => []NoDanglingReferences
<1>1. IInv /\ References => NoDanglingReferences
  <2>. SUFFICES ASSUME IInv, References PROVE NoDanglingReferences
    OBVIOUS
  <2>1. NoDanglingTracks
    <3>. SUFFICES ASSUME known # None
                  PROVE  /\ ToSet(lanes.queue) \cup ToSet(lanes.history) \subseteq known
                         /\ lanes.track # None => lanes.track \in known
                         /\ lanes.interrupt # None =>
                              {lanes.interrupt.track} \cup ToSet(lanes.interrupt.queue)
                                \subseteq known
      BY DEF NoDanglingTracks
    <3>1. lanes \in LaneStates /\ Within(lanes, known)
      BY ReferenceParts
    <3>2. lanes.queue \in Seq(Tracks) /\ lanes.history \in Seq(Tracks)
            /\ (lanes.interrupt # None => lanes.interrupt.queue \in Seq(Tracks))
      BY <3>1 DEF LaneStates, Interrupts
    <3>3. ToSet(lanes.queue) \subseteq known /\ ToSet(lanes.history) \subseteq known
            /\ (lanes.interrupt # None => ToSet(lanes.interrupt.queue) \subseteq known)
      BY <3>1, <3>2, SeqWithin DEF Within
    <3>. QED  BY <3>1, <3>3 DEF Within
  <2>2. NoDanglingRoom
    BY DEF References, Tidy, NoDanglingRoom
  <2>. QED  BY <2>1, <2>2 DEF NoDanglingReferences
<1>. QED  BY <1>1, ReferencesAlways, PTL

(* Each looping effect has one timer, none outlives its effect and none is *)
(* armed further away than one interval, for any number of effects.        *)
THEOREM LoopsTimed == Spec => []LoopDeadlines
<1>1. IInv /\ References => LoopDeadlines
  BY DEF References, Tidy, Unique, LoopTimers, Timely, LoopDeadlines
<1>. QED  BY <1>1, ReferencesAlways, PTL

(* Under an unchanged epoch no other track starts and both lanes stand     *)
(* where they stood, or where the time that passed has brought them:       *)
(* outputs that seek on a new epoch alone are never off.                   *)
THEOREM EpochsMarkMoves == Spec => EpochMarksMoves
<1> DEFINE A == up /\ up' /\ lanes'.epoch = lanes.epoch /\ ~Reported =>
       /\ lanes'.track \in {lanes.track, None}
       /\ lanes'.track = lanes.track /\ ~InterruptPruned =>
            Continues(AmbientPosition, AmbientPosition', lanes.anchor # None)
       /\ lanes.interrupt # None /\ lanes'.interrupt # None =>
            /\ lanes'.interrupt.track = lanes.interrupt.track
            /\ Continues(InterruptPosition, InterruptPosition', TRUE)
<1>1. ASSUME IInv, References, [Next]_vars, up, up', lanes'.epoch = lanes.epoch,
             ~Reported
      PROVE  /\ lanes'.track \in {lanes.track, None}
             /\ lanes'.track = lanes.track /\ ~InterruptPruned =>
                  Continues(AmbientPosition, AmbientPosition', lanes.anchor # None)
             /\ lanes.interrupt # None /\ lanes'.interrupt # None =>
                  /\ lanes'.interrupt.track = lanes.interrupt.track
                  /\ Continues(InterruptPosition, InterruptPosition', TRUE)
  <2>1. now \in Nat /\ lanes \in LaneStates /\ Clocked(lanes, now)
    BY <1>1 DEF IInv, TypeOK, Sound
  <2>2. Moves
    BY <1>1, NextFollowed DEF Followed
  <2>3. CASE lanes' = lanes /\ now' = now + 1
    <3>1. lanes.pos \in Nat /\ lanes.anchor \in Anchors
            /\ (lanes.anchor # None => lanes.anchor <= now)
      BY <2>1 DEF LaneStates, Clocked
    <3>2. Continues(AmbientPosition, AmbientPosition', lanes.anchor # None)
      <4>1. AmbientPosition' = PositionAt(lanes.pos, lanes.anchor, now + 1)
        BY <2>3 DEF AmbientPosition
      <4>2. now' > now /\ now' - now = 1
        BY <2>1, <2>3
      <4>. QED  BY <2>1, <3>1, <4>1, <4>2, TickContinues DEF Continues, AmbientPosition
    <3>3. ASSUME lanes.interrupt # None
          PROVE  Continues(InterruptPosition, InterruptPosition', TRUE)
      <4>1. lanes.interrupt.pos \in Nat /\ lanes.interrupt.anchor \in Nat
              /\ lanes.interrupt.anchor <= now
        BY <2>1, <3>3 DEF LaneStates, Interrupts, Clocked
      <4>2. lanes.interrupt.anchor \in Anchors /\ lanes.interrupt.anchor # None
        BY <4>1, NoneIsNothing DEF Anchors
      <4>3. InterruptPosition' = PositionAt(lanes.interrupt.pos,
                                            lanes.interrupt.anchor, now + 1)
        BY <2>3 DEF InterruptPosition
      <4>4. now' > now /\ now' - now = 1
        BY <2>1, <2>3
      <4>. QED  BY <2>1, <4>1, <4>2, <4>3, <4>4, TickContinues
           DEF Continues, InterruptPosition
    <3>. QED  BY <2>3, <3>2, <3>3
  <2>4. CASE now' = now /\ (lanes' = lanes \/ Steady(lanes', lanes, now))
    <3>1. Steady(lanes', lanes, now)
      BY <2>4 DEF Steady
    <3>2. ~(now' > now)
      BY <2>1, <2>4
    <3>3. lanes'.track = lanes.track /\ ~InterruptPruned =>
            AmbientPosition' = AmbientPosition
      BY <1>1, <2>4, <3>1 DEF Steady, AmbientPosition, InterruptPruned
    <3>4. lanes.interrupt # None /\ lanes'.interrupt # None =>
            /\ lanes'.interrupt.track = lanes.interrupt.track
            /\ InterruptPosition' = InterruptPosition
      BY <1>1, <2>4, <3>1 DEF Steady, InterruptPosition
    <3>5. lanes'.track \in {lanes.track, None}
      BY <1>1, <3>1 DEF Steady
    <3>. QED  BY <3>2, <3>3, <3>4, <3>5 DEF Continues
  <2>5. CASE dirty' /\ lanes' # lanes
    BY <1>1, <2>5 DEF Reported
  <2>. QED  BY <1>1, <2>2, <2>3, <2>4, <2>5 DEF Moves
<1>2. IInv /\ References /\ [Next]_vars => [A]_vars
  BY <1>1
<1>. HIDE DEF A
<1>3. Spec => [][A]_vars
  BY <1>2, ReferencesAlways, PTL DEF Spec
<1>. QED  BY <1>3 DEF EpochMarksMoves, A
=============================================================================
