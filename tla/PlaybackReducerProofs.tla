----------------------- MODULE PlaybackReducerProofs ------------------------
(***************************************************************************)
(* What the reducer's operations return: facts about the values of Rust    *)
(* the models are built on, then one lemma per transport operation on the  *)
(* lanes, then one per operation on a room. The proofs about the owner     *)
(* cite them.                                                              *)
(***************************************************************************)
EXTENDS PlaybackLanes, PlaybackRoom, FiniteSetTheorems, WellFoundedInduction, TLAPS

-----------------------------------------------------------------------------
(***************************************************************************)
(* Facts about Retain.  Its definition picks the k-th kept index by        *)
(* counting; that there is one for every k up to the number of kept        *)
(* indices is shown from the least index with at least k kept up to it.    *)
(***************************************************************************)

(* A non-empty set of naturals has a least element. *)
LEMMA LeastNat ==
  ASSUME NEW S \in SUBSET Nat, S # {}
  PROVE  \E m \in S : \A y \in S : m <= y
<1>1. \E x \in S : \A y \in S : ~(<<y, x>> \in OpToRel(<, Nat))
  BY NatLessThanWellFounded, WFMin
<1>2. PICK m \in S : \A y \in S : ~(<<y, m>> \in OpToRel(<, Nat))
  BY <1>1
<1>3. ASSUME NEW y \in S PROVE m <= y
  <2>1. m \in Nat /\ y \in Nat
    OBVIOUS
  <2>2. ~(y < m)
    BY <1>2, <2>1 DEF OpToRel
  <2>. QED  BY <2>1, <2>2
<1>. QED  BY <1>3

(* A non-empty bounded set of naturals has a greatest element. *)
LEMMA GreatestNat ==
  ASSUME NEW n \in Nat, NEW S \in SUBSET (1..n), S # {}
  PROVE  \E m \in S : \A y \in S : y <= m
<1> DEFINE T == {n - j : j \in S}
<1>1. T \in SUBSET Nat /\ T # {}
  <2>1. \A j \in S : j \in 1..n /\ n - j \in Nat
    OBVIOUS
  <2>. QED  BY <2>1
<1>2. PICK t \in T : \A u \in T : t <= u
  BY <1>1, LeastNat
<1>3. PICK m \in S : t = n - m
  OBVIOUS
<1>4. ASSUME NEW y \in S PROVE y <= m
  <2>1. n - y \in T
    OBVIOUS
  <2>2. n - m <= n - y
    BY <1>2, <1>3, <2>1
  <2>. QED  BY <2>2
<1>. QED  BY <1>4

(* In a finite set of indices, counting from below reaches every number up *)
(* to the size of the set.                                                 *)
LEMMA NthExists ==
  ASSUME NEW n \in Nat, NEW S \in SUBSET (1..n),
         NEW k \in 1..Cardinality(S)
  PROVE  \E i \in S : Cardinality({j \in S : j <= i}) = k
<1> DEFINE Below(i) == {j \in S : j <= i}
<1>1. IsFiniteSet(S) /\ Cardinality(S) \in Nat
  <2>1. IsFiniteSet(1..n)
    BY FS_Interval
  <2>. QED  BY <2>1, FS_Subset, FS_CardinalityType
<1>2. \A i \in S : IsFiniteSet(Below(i)) /\ Cardinality(Below(i)) \in Nat
  BY <1>1, FS_Subset, FS_CardinalityType
<1> DEFINE A == {i \in S : k <= Cardinality(Below(i))}
<1>3. A # {}
  <2>1. S # {}
    BY FS_EmptySet
  <2>2. PICK m \in S : \A y \in S : y <= m
    BY <2>1, GreatestNat
  <2>3. Below(m) = S
    BY <2>2
  <2>. QED  BY <1>1, <2>2, <2>3
<1>4. PICK i \in A : \A y \in A : i <= y
  <2>1. A \in SUBSET Nat
    <3>1. \A j \in S : j \in Nat
      OBVIOUS
    <3>. QED  BY <3>1
  <2>. HIDE DEF A
  <2>. QED  BY <1>3, <2>1, LeastNat
<1>5. Cardinality(Below(i)) = k
  <2>1. SUFFICES ASSUME Cardinality(Below(i)) # k PROVE FALSE
    OBVIOUS
  <2>2. i \in S /\ k < Cardinality(Below(i)) /\ Cardinality(Below(i)) \in Nat
    BY <1>2, <2>1
  <2> DEFINE B == Below(i) \ {i}
  <2>3. IsFiniteSet(B) /\ Cardinality(B) = Cardinality(Below(i)) - 1
    BY <1>2, <2>2, FS_RemoveElement
  <2>4. k <= Cardinality(B)
    BY <2>2, <2>3
  <2>5. B # {} /\ B \in SUBSET (1..n)
    <3>1. B \in SUBSET (1..n)
      <4>1. \A j \in S : j \in 1..n
        OBVIOUS
      <4>. QED  BY <4>1
    <3>2. Cardinality(B) # 0
      BY <2>2, <2>3, <2>4
    <3>. HIDE DEF B
    <3>. QED  BY <3>1, <3>2, FS_EmptySet
  <2>6. PICK m \in B : \A y \in B : y <= m
    BY <2>5, GreatestNat
  <2>7. m \in S /\ m < i
    OBVIOUS
  <2>8. Below(m) = B
    <3>1. \A j \in S : j \in Nat
      OBVIOUS
    <3>2. ASSUME NEW j \in S PROVE j <= m <=> j <= i /\ j # i
      <4>1. j <= i /\ j # i => j \in B
        OBVIOUS
      <4>2. j \in Nat /\ m \in Nat /\ i \in Nat
        BY <3>1, <2>2, <2>7
      <4>. HIDE DEF B
      <4>. QED  BY <4>1, <4>2, <2>6, <2>7
    <3>. QED  BY <3>2
  <2>9. m \in A
    BY <2>4, <2>7, <2>8
  <2>. QED  BY <1>4, <2>7, <2>9
<1>. QED  BY <1>5

(* Vec::retain keeps a sequence of the same elements, all of which satisfy *)
(* the predicate, and never grows it.                                      *)
LEMMA RetainType ==
  ASSUME NEW T, NEW q \in Seq(T), NEW S
  PROVE  /\ Retain(q, S) \in Seq(T)
         /\ Len(Retain(q, S)) <= Len(q)
         /\ \A k \in DOMAIN Retain(q, S) :
              /\ Retain(q, S)[k] \in S
              /\ \E i \in DOMAIN q : Retain(q, S)[k] = q[i]
<1> DEFINE keep == {i \in DOMAIN q : q[i] \in S}
           Nth(k) == CHOOSE i \in keep : Cardinality({j \in keep : j <= i}) = k
           n == Cardinality(keep)
<1>1. DOMAIN q = 1..Len(q) /\ Len(q) \in Nat /\ \A i \in DOMAIN q : q[i] \in T
  OBVIOUS
<1>2. keep \in SUBSET (1..Len(q))
  BY <1>1
<1>3. n \in Nat /\ n <= Len(q)
  <2>1. IsFiniteSet(1..Len(q)) /\ Cardinality(1..Len(q)) = Len(q)
    BY <1>1, FS_Interval
  <2>2. IsFiniteSet(keep) /\ Cardinality(keep) <= Cardinality(1..Len(q))
    BY <1>2, <2>1, FS_Subset
  <2>3. Cardinality(keep) \in Nat
    BY <2>2, FS_CardinalityType
  <2>. HIDE DEF keep
  <2>. QED  BY <2>1, <2>2, <2>3
<1>4. \A k \in 1..n : Nth(k) \in keep
  <2>. SUFFICES ASSUME NEW k \in 1..n PROVE Nth(k) \in keep
    OBVIOUS
  <2>1. \E i \in keep : Cardinality({j \in keep : j <= i}) = k
    <3>. HIDE DEF keep
    <3>. QED  BY <1>1, <1>2, NthExists
  <2>. HIDE DEF keep
  <2>. QED  BY <2>1
<1>5. Retain(q, S) = [k \in 1..n |-> q[Nth(k)]]
  BY DEF Retain
<1>6. \A k \in 1..n : Nth(k) \in DOMAIN q /\ q[Nth(k)] \in S /\ q[Nth(k)] \in T
  BY <1>1, <1>4
<1>. HIDE DEF n, Nth, keep
<1>7. Retain(q, S) \in Seq(T) /\ Len(Retain(q, S)) = n
  BY <1>3, <1>5, <1>6
<1>. QED  BY <1>3, <1>5, <1>6, <1>7

-----------------------------------------------------------------------------
(***************************************************************************)
(* Every transport operation of the reducer keeps the lanes sound: typed,  *)
(* with clocks that run only where something sounds and, with no interrupt *)
(* above, exactly there.  One lemma per operation, cited by the proofs     *)
(* about the owner of the lanes.                                           *)
(***************************************************************************)

(* A lane state between two steps at time now. *)
Sound(s, now) == s \in LaneStates /\ Clocked(s, now) /\ RunsWhenHeard(s)

(* A lane state whose anchor is about to be set: only the interrupt's      *)
(* clock is constrained.                                                   *)
Half(s, now) ==
  s \in LaneStates /\ (s.interrupt # None => s.interrupt.anchor <= now)

(* State r stands like s but on track t under anchor a. *)
Moved(r, s, t, a) ==
  /\ r \in LaneStates
  /\ r.playing = s.playing /\ r.interrupt = s.interrupt
  /\ r.track = t /\ r.anchor = a

-----------------------------------------------------------------------------
(* None is neither a track, an anchor nor an interrupt. *)
LEMMA NoneIsNothing ==
  None \notin Nat /\ None \notin Tracks /\ None \notin Interrupts
BY NoneAssumption, TracksAssumption

(* Reading a clock gives a position. *)
LEMMA PositionAtType ==
  ASSUME NEW pos \in Nat, NEW anchor \in Anchors, NEW now \in Nat
  PROVE  PositionAt(pos, anchor, now) \in Nat
BY NoneIsNothing, MaxPositionAssumption DEF PositionAt, Anchors, AtMost

(* A clamped position is a position. *)
LEMMA AtMostType ==
  ASSUME NEW p \in Nat
  PROVE  AtMost(p, MaxPosition) \in Nat
BY MaxPositionAssumption DEF AtMost

(* ambient_anchor gives an anchor or none. *)
LEMMA AnchorType ==
  ASSUME NEW s, NEW now \in Nat
  PROVE  AmbientAnchor(s, now) \in Anchors
BY DEF AmbientAnchor, Anchors

(* A sound state is half-sound. *)
LEMMA SoundIsHalf ==
  ASSUME NEW now \in Nat, NEW s, Sound(s, now)
  PROVE  Half(s, now)
BY DEF Sound, Half, Clocked

(* Switching the room on changes that flag alone. *)
LEMMA PlayingHalf ==
  ASSUME NEW now \in Nat, NEW s, Half(s, now)
  PROVE  /\ Half([s EXCEPT !.playing = TRUE], now)
         /\ [s EXCEPT !.playing = TRUE].playing = TRUE
         /\ [s EXCEPT !.playing = TRUE].interrupt = s.interrupt
         /\ [s EXCEPT !.playing = TRUE].track = s.track
<1> DEFINE r == [s EXCEPT !.playing = TRUE]
<1>1. r \in LaneStates /\ r.playing = TRUE /\ r.interrupt = s.interrupt
        /\ r.track = s.track
  BY DEF Half, LaneStates
<1>. HIDE DEF r
<1>2. Half(r, now)
  BY <1>1 DEF Half
<1>. QED  BY <1>1, <1>2 DEF r

(* A typed state with the flags, track, anchor and interrupt of a sound    *)
(* one is sound.                                                           *)
LEMMA SameClockSound ==
  ASSUME NEW now \in Nat, NEW s, Sound(s, now), NEW r \in LaneStates,
         r.playing = s.playing, r.track = s.track, r.anchor = s.anchor,
         r.interrupt = s.interrupt
  PROVE  Sound(r, now)
BY DEF Sound, Clocked, RunsWhenHeard, Uncovered

(* A half-sound state anchored as ambient_anchor says is sound. *)
LEMMA AnchoredSound ==
  ASSUME NEW now \in Nat, NEW s, Half(s, now), NEW r \in LaneStates,
         r.playing = s.playing, r.interrupt = s.interrupt,
         r.track # None, r.anchor = AmbientAnchor(s, now)
  PROVE  Sound(r, now)
<1>1. Clocked(r, now)
  BY NoneIsNothing DEF Clocked, Half, AmbientAnchor, Uncovered
<1>2. RunsWhenHeard(r)
  BY NoneIsNothing DEF RunsWhenHeard, AmbientAnchor, Uncovered
<1>. QED  BY <1>1, <1>2 DEF Sound

(* A half-sound state without an anchor is sound unless it should run. *)
LEMMA FrozenSound ==
  ASSUME NEW now \in Nat, NEW r, Half(r, now), r.anchor = None,
         \/ r.playing = FALSE
         \/ r.track = None
         \/ r.interrupt # None
  PROVE  Sound(r, now)
BY DEF Sound, Half, Clocked, RunsWhenHeard

(* A frozen half-sound state becomes sound by pausing the room. *)
LEMMA PausedSound ==
  ASSUME NEW now \in Nat, NEW s, Half(s, now), s.anchor = None
  PROVE  Sound([s EXCEPT !.playing = FALSE], now)
<1> DEFINE r == [s EXCEPT !.playing = FALSE]
<1>1. r \in LaneStates /\ r.playing = FALSE /\ r.anchor = None
        /\ r.interrupt = s.interrupt
  BY DEF Half, LaneStates
<1>. HIDE DEF r
<1>2. Half(r, now)
  BY <1>1 DEF Half
<1>3. Sound(r, now)
  BY <1>1, <1>2, FrozenSound
<1>. QED  BY <1>3 DEF r

(* Raising the epoch changes the epoch alone. *)
LEMMA BumpType ==
  ASSUME NEW s \in LaneStates
  PROVE  /\ Bump(s) \in LaneStates
         /\ Bump(s).playing = s.playing /\ Bump(s).track = s.track
         /\ Bump(s).anchor = s.anchor /\ Bump(s).interrupt = s.interrupt
         /\ Bump(s).epoch = s.epoch + 1
<1>1. s.epoch + 1 \in Nat
  BY DEF LaneStates
<1>. QED  BY <1>1 DEF Bump, LaneStates

(* Raising the epoch keeps a state sound. *)
LEMMA BumpSound ==
  ASSUME NEW now \in Nat, NEW s, Sound(s, now)
  PROVE  Sound(Bump(s), now)
<1>1. s \in LaneStates
  BY DEF Sound
<1>. QED  BY <1>1, BumpType, SameClockSound

(* A deliberate move sets track and anchor and keeps flags and interrupt. *)
LEMMA StartTrackMoves ==
  ASSUME NEW s \in LaneStates, NEW t, t \in Tracks \/ t = None,
         NEW q \in Seq(Tracks), NEW h \in Seq(Tracks), NEW a \in Anchors
  PROVE  Moved(StartTrack(s, t, q, h, a), s, t, a)
<1> DEFINE r == [s EXCEPT !.track = t, !.queue = q, !.history = h,
                          !.pos = 0, !.anchor = a]
<1>1. r \in LaneStates /\ r.playing = s.playing /\ r.interrupt = s.interrupt
        /\ r.track = t /\ r.anchor = a
  BY DEF LaneStates
<1>. HIDE DEF r
<1>2. StartTrack(s, t, q, h, a) = Bump(r)
  BY DEF StartTrack, r
<1>. QED  BY <1>1, <1>2, BumpType DEF Moved

(* Starting a track under AmbientAnchor makes a half-sound state sound. *)
LEMMA StartTrackSound ==
  ASSUME NEW now \in Nat, NEW s, Half(s, now),
         NEW t \in Tracks, NEW q \in Seq(Tracks), NEW h \in Seq(Tracks)
  PROVE  Sound(StartTrack(s, t, q, h, AmbientAnchor(s, now)), now)
<1> DEFINE a == AmbientAnchor(s, now)
           r == StartTrack(s, t, q, h, a)
<1>1. s \in LaneStates /\ a \in Anchors /\ t # None
  BY AnchorType, NoneIsNothing DEF Half
<1>. HIDE DEF a
<1>2. Moved(r, s, t, a)
  BY <1>1, StartTrackMoves
<1>. HIDE DEF r
<1>3. Sound(r, now)
  BY <1>1, <1>2, AnchoredSound DEF Moved, a
<1>. QED  BY <1>3 DEF r, a

(* So does leaving the lane without a track. *)
LEMMA NoTrackSound ==
  ASSUME NEW now \in Nat, NEW s, Half(s, now),
         NEW q \in Seq(Tracks), NEW h \in Seq(Tracks)
  PROVE  /\ Sound(StartTrack(s, None, q, h, None), now)
         /\ StartTrack(s, None, q, h, None).anchor = None
<1> DEFINE r == StartTrack(s, None, q, h, None)
<1>1. s \in LaneStates /\ None \in Anchors
  BY DEF Half, Anchors
<1>2. Moved(r, s, None, None)
  BY <1>1, StartTrackMoves
<1>. HIDE DEF r
<1>3. Half(r, now)
  BY <1>2 DEF Half, Moved
<1>. QED  BY <1>2, <1>3, FrozenSound DEF Moved, r

(* Freezing stops the clock and leaves flags, track and interrupt alone. *)
LEMMA FreezeHalf ==
  ASSUME NEW now \in Nat, NEW s, Half(s, now)
  PROVE  /\ Half(FreezeAmbient(s, now), now)
         /\ FreezeAmbient(s, now).anchor = None
         /\ FreezeAmbient(s, now).interrupt = s.interrupt
         /\ FreezeAmbient(s, now).playing = s.playing
         /\ FreezeAmbient(s, now).track = s.track
<1> DEFINE r == FreezeAmbient(s, now)
<1>1. s \in LaneStates /\ PositionAt(s.pos, s.anchor, now) \in Nat
  BY PositionAtType DEF Half, LaneStates
<1>2. r = [s EXCEPT !.pos = PositionAt(s.pos, s.anchor, now), !.anchor = None]
  BY <1>1 DEF FreezeAmbient, MaterializeAmbient, LaneStates
<1>3. r \in LaneStates /\ r.anchor = None /\ r.interrupt = s.interrupt
        /\ r.playing = s.playing /\ r.track = s.track
  BY <1>1, <1>2 DEF LaneStates, Anchors
<1>. HIDE DEF r
<1>4. Half(r, now)
  BY <1>3 DEF Half
<1>. QED  BY <1>3, <1>4 DEF r

-----------------------------------------------------------------------------
(* The ambient operations.                                                 *)

(* Playing anchors the lane if it is heard; pausing freezes it. *)
LEMMA SetPlayingSound ==
  ASSUME NEW now \in Nat, NEW s, Sound(s, now), NEW playing \in BOOLEAN
  PROVE  Sound(SetPlaying(s, playing, now), now)
<1>1. s \in LaneStates /\ Half(s, now)
  BY SoundIsHalf DEF Sound
<1>2. CASE s.playing = playing
  BY <1>2 DEF SetPlaying
<1>3. CASE s.playing # playing /\ playing = TRUE
  <2> DEFINE p == [s EXCEPT !.playing = TRUE]
             r == [p EXCEPT !.anchor = IF s.track # None
                                         THEN AmbientAnchor(p, now) ELSE s.anchor]
  <2>1. Half(p, now) /\ p.playing = TRUE /\ p.interrupt = s.interrupt
          /\ p.track = s.track /\ p \in LaneStates
    BY <1>1, PlayingHalf DEF Half
  <2>2. SetPlaying(s, playing, now) = r
    BY <1>3 DEF SetPlaying
  <2>3. s.anchor \in Anchors /\ s.anchor = None
    <3>1. s.playing = FALSE
      BY <1>1, <1>3 DEF LaneStates
    <3>. QED  BY <1>1, <3>1 DEF Sound, Clocked, LaneStates
  <2>. HIDE DEF p
  <2>4. r \in LaneStates /\ r.playing = p.playing /\ r.interrupt = p.interrupt
          /\ r.track = p.track
          /\ r.anchor = IF s.track # None THEN AmbientAnchor(p, now) ELSE s.anchor
    BY <2>1, <2>3, AnchorType DEF LaneStates
  <2>. HIDE DEF r
  <2>5. CASE s.track # None
    BY <2>1, <2>2, <2>4, <2>5, AnchoredSound
  <2>6. CASE s.track = None
    <3>1. Half(r, now)
      BY <2>1, <2>4 DEF Half
    <3>. QED  BY <2>1, <2>2, <2>3, <2>4, <2>6, <3>1, FrozenSound
  <2>. QED  BY <2>5, <2>6
<1>4. CASE s.playing # playing /\ playing = FALSE
  <2>1. Half(FreezeAmbient(s, now), now) /\ FreezeAmbient(s, now).anchor = None
    BY <1>1, FreezeHalf
  <2>2. SetPlaying(s, playing, now) = [FreezeAmbient(s, now) EXCEPT !.playing = FALSE]
    BY <1>4 DEF SetPlaying
  <2>. QED  BY <2>1, <2>2, PausedSound
<1>. QED  BY <1>2, <1>3, <1>4

(* Playing one track leaves the lanes sound. *)
LEMMA AmbientPlayTrackSound ==
  ASSUME NEW now \in Nat, NEW s, Sound(s, now), NEW t \in Tracks
  PROVE  Sound(AmbientPlayTrack(s, t, now), now)
<1>1. Half([s EXCEPT !.playing = TRUE], now) /\ <<>> \in Seq(Tracks)
  BY SoundIsHalf, PlayingHalf
<1>. QED  BY <1>1, StartTrackSound DEF AmbientPlayTrack

(* Playing a list from any index leaves the lanes sound. *)
LEMMA AmbientPlaySequenceSound ==
  ASSUME NEW now \in Nat, NEW s, Sound(s, now), NEW ts \in Seq(Tracks),
         NEW start \in Nat \ {0}
  PROVE  Sound(AmbientPlaySequence(s, ts, start, now), now)
<1>1. CASE ts = <<>>
  BY <1>1 DEF AmbientPlaySequence
<1>2. CASE ts # <<>>
  <2> DEFINE p == [s EXCEPT !.playing = TRUE]
             i == AtMost(start, Len(ts))
  <2>1. Half(p, now)
    BY SoundIsHalf, PlayingHalf
  <2>2. i \in 1..Len(ts) /\ Len(ts) \in Nat
    BY <1>2 DEF AtMost
  <2>. HIDE DEF p, i
  <2>3. ts[i] \in Tracks /\ SubSeq(ts, i + 1, Len(ts)) \in Seq(Tracks)
          /\ SubSeq(ts, 1, i - 1) \in Seq(Tracks)
    BY <2>2
  <2>4. AmbientPlaySequence(s, ts, start, now)
          = StartTrack(p, ts[i], SubSeq(ts, i + 1, Len(ts)),
                       SubSeq(ts, 1, i - 1), AmbientAnchor(p, now))
    BY <1>2 DEF AmbientPlaySequence, p, i
  <2>. QED  BY <2>1, <2>3, <2>4, StartTrackSound
<1>. QED  BY <1>1, <1>2

(* Queue, loop mode and shuffle do not touch the clock. *)
LEMMA QueueSound ==
  ASSUME NEW now \in Nat, NEW s, Sound(s, now), NEW q \in Seq(Tracks)
  PROVE  Sound([s EXCEPT !.queue = q], now)
<1>1. s \in LaneStates
  BY DEF Sound
<1> DEFINE r == [s EXCEPT !.queue = q]
<1>2. r \in LaneStates /\ r.playing = s.playing /\ r.track = s.track
        /\ r.anchor = s.anchor /\ r.interrupt = s.interrupt
  BY <1>1 DEF LaneStates
<1>. HIDE DEF r
<1>3. Sound(r, now)
  BY <1>2, SameClockSound
<1>. QED  BY <1>3 DEF r

(* Neither do the loop mode and the shuffle flag. *)
LEMMA SettingsSound ==
  ASSUME NEW now \in Nat, NEW s, Sound(s, now)
  PROVE  /\ \A m \in LoopModes : Sound([s EXCEPT !.loop = m], now)
         /\ \A b \in BOOLEAN : Sound([s EXCEPT !.shuffle = b], now)
<1>1. s \in LaneStates
  BY DEF Sound
<1>2. ASSUME NEW m \in LoopModes PROVE Sound([s EXCEPT !.loop = m], now)
  <2> DEFINE r == [s EXCEPT !.loop = m]
  <2>1. r \in LaneStates /\ r.playing = s.playing /\ r.track = s.track
          /\ r.anchor = s.anchor /\ r.interrupt = s.interrupt
    BY <1>1 DEF LaneStates
  <2>. HIDE DEF r
  <2>2. Sound(r, now)
    BY <2>1, SameClockSound
  <2>. QED  BY <2>2 DEF r
<1>3. ASSUME NEW b \in BOOLEAN PROVE Sound([s EXCEPT !.shuffle = b], now)
  <2> DEFINE r == [s EXCEPT !.shuffle = b]
  <2>1. r \in LaneStates /\ r.playing = s.playing /\ r.track = s.track
          /\ r.anchor = s.anchor /\ r.interrupt = s.interrupt
    BY <1>1 DEF LaneStates
  <2>. HIDE DEF r
  <2>2. Sound(r, now)
    BY <2>1, SameClockSound
  <2>. QED  BY <2>2 DEF r
<1>. QED  BY <1>2, <1>3

(* Replacing the queue leaves the lanes sound. *)
LEMMA AmbientSetQueueSound ==
  ASSUME NEW now \in Nat, NEW s, Sound(s, now), NEW ts \in Seq(Tracks)
  PROVE  Sound(AmbientSetQueue(s, ts), now)
BY QueueSound DEF AmbientSetQueue

(* Enqueueing at any index leaves the lanes sound. *)
LEMMA AmbientEnqueueSound ==
  ASSUME NEW now \in Nat, NEW s, Sound(s, now), NEW t \in Tracks,
         NEW i \in Nat \ {0}
  PROVE  Sound(AmbientEnqueue(s, t, i), now)
<1> DEFINE q == s.queue
           k == AtMost(i, Len(q) + 1)
<1>1. q \in Seq(Tracks)
  BY DEF Sound, LaneStates
<1>. HIDE DEF q
<1>2. k \in 1..(Len(q) + 1) /\ Len(q) \in Nat
  BY <1>1 DEF AtMost
<1>. HIDE DEF k
<1>3. InsertAt(q, k, t) \in Seq(Tracks)
  <2>1. SubSeq(q, 1, k - 1) \in Seq(Tracks) /\ SubSeq(q, k, Len(q)) \in Seq(Tracks)
    BY <1>1, <1>2
  <2>. QED  BY <2>1 DEF InsertAt
<1>4. AmbientEnqueue(s, t, i) = [s EXCEPT !.queue = InsertAt(q, k, t)]
  BY DEF AmbientEnqueue, q, k, Sound, LaneStates
<1>. QED  BY <1>3, <1>4, QueueSound

(* The history with the current track pushed onto it is a history. *)
LEMMA PastType ==
  ASSUME NEW s \in LaneStates
  PROVE  Past(s) \in Seq(Tracks)
BY DEF Past, LaneStates

(* Jumping to a queue index leaves the lanes sound. *)
LEMMA AmbientJumpQueueSound ==
  ASSUME NEW now \in Nat, NEW s, Sound(s, now), NEW i \in DOMAIN s.queue
  PROVE  Sound(AmbientJumpQueue(s, i, now), now)
<1> DEFINE p == [s EXCEPT !.playing = TRUE]
           q == s.queue
<1>1. s \in LaneStates /\ q \in Seq(Tracks) /\ Half(p, now)
  BY SoundIsHalf, PlayingHalf DEF Sound, LaneStates
<1>2. AmbientJumpQueue(s, i, now)
        = IF i > Len(q) THEN s
          ELSE StartTrack(p, q[i], SubSeq(q, i + 1, Len(q)), Past(s),
                          AmbientAnchor(p, now))
  BY DEF AmbientJumpQueue
<1>3. i \in DOMAIN q
  OBVIOUS
<1>. HIDE DEF p, q
<1>4. q[i] \in Tracks /\ SubSeq(q, i + 1, Len(q)) \in Seq(Tracks)
  BY <1>1, <1>3
<1>. QED  BY <1>1, <1>2, <1>4, PastType, StartTrackSound

(* Each branch starts a track from the queue, the past or the catalog, or  *)
(* leaves the lane without one.                                            *)
LEMMA AmbientSkipNextSound ==
  ASSUME NEW now \in Nat, NEW s, Sound(s, now), NEW follow \in Tracks \cup {None},
         NEW expected,
         NEW choice, s.queue # <<>> => choice \in DOMAIN s.queue
  PROVE  Sound(AmbientSkipNext(s, follow, expected, choice, now), now)
<1> DEFINE q == s.queue
           h == Past(s)
           i == IF s.shuffle THEN choice ELSE 1
           next == AmbientSkipNext(s, follow, expected, choice, now)
<1>1. s \in LaneStates /\ q \in Seq(Tracks) /\ s.history \in Seq(Tracks)
        /\ s.track \in Tracks \cup {None} /\ Half(s, now)
  BY SoundIsHalf DEF Sound, LaneStates
<1>2. h \in Seq(Tracks)
  BY <1>1, PastType
<1>3. CASE SkipRefused(s, expected)
  BY <1>3 DEF AmbientSkipNext
<1>4. CASE ~SkipRefused(s, expected) /\ s.loop = "track" /\ s.track # None
  <2>1. next = StartTrack(s, s.track, q, s.history, AmbientAnchor(s, now))
    BY <1>4 DEF AmbientSkipNext
  <2>. QED  BY <1>1, <1>4, <2>1, StartTrackSound
<1>5. CASE ~SkipRefused(s, expected) /\ ~(s.loop = "track" /\ s.track # None)
  <2>1. CASE q # <<>>
    <3>1. next = StartTrack(s, q[i], RemoveAt(q, i), h, AmbientAnchor(s, now))
      BY <1>5, <2>1 DEF AmbientSkipNext
    <3>2. i \in DOMAIN q
      BY <1>1, <2>1
    <3>. HIDE DEF i, h, q, next
    <3>3. q[i] \in Tracks /\ RemoveAt(q, i) \in Seq(Tracks)
      <4>1. SubSeq(q, 1, i - 1) \in Seq(Tracks)
              /\ SubSeq(q, i + 1, Len(q)) \in Seq(Tracks)
        BY <1>1, <3>2
      <4>. QED  BY <1>1, <3>2, <4>1 DEF RemoveAt
    <3>4. Sound(next, now)
      BY <1>1, <1>2, <3>1, <3>3, StartTrackSound
    <3>. QED  BY <3>4 DEF next
  <2>2. CASE q = <<>> /\ s.loop = "queue"
    <3>1. next = StartTrack(s, Head(h), Tail(h), <<>>, AmbientAnchor(s, now))
      BY <1>5, <2>2 DEF AmbientSkipNext
    <3>2. s.track # None
      BY <1>5, <2>2 DEF SkipRefused
    <3>3. h # <<>>
      <4>1. h = Append(s.history, s.track) /\ s.track \in Tracks
        BY <1>1, <3>2 DEF Past
      <4>2. Len(h) = Len(s.history) + 1 /\ Len(s.history) \in Nat
        BY <1>1, <4>1
      <4>. HIDE DEF h
      <4>. QED  BY <4>2
    <3>. HIDE DEF h, next
    <3>4. Head(h) \in Tracks /\ Tail(h) \in Seq(Tracks) /\ <<>> \in Seq(Tracks)
      BY <1>2, <3>3
    <3>5. Sound(next, now)
      BY <1>1, <3>1, <3>4, StartTrackSound
    <3>. QED  BY <3>5 DEF next
  <2>3. CASE q = <<>> /\ s.loop # "queue" /\ s.loop = "follow" /\ follow # None
    <3>1. next = StartTrack(s, follow, <<>>, h, AmbientAnchor(s, now))
      BY <1>5, <2>3 DEF AmbientSkipNext
    <3>2. follow \in Tracks /\ <<>> \in Seq(Tracks)
      BY <2>3
    <3>. QED  BY <1>1, <1>2, <3>1, <3>2, StartTrackSound
  <2>4. CASE q = <<>> /\ s.loop # "queue" /\ ~(s.loop = "follow" /\ follow # None)
    <3> DEFINE e == StartTrack(s, None, <<>>, s.history, None)
               r == [e EXCEPT !.playing = FALSE]
    <3>1. next = r
      BY <1>5, <2>4 DEF AmbientSkipNext
    <3>2. Sound(e, now) /\ e.anchor = None
      <4>1. <<>> \in Seq(Tracks)
        OBVIOUS
      <4>. QED  BY <1>1, <4>1, NoTrackSound
    <3>. HIDE DEF e
    <3>. QED  BY <3>1, <3>2, PausedSound, SoundIsHalf
  <2>. QED  BY <2>1, <2>2, <2>3, <2>4
<1>. QED  BY <1>3, <1>4, <1>5

(* Going back in the history leaves the lanes sound. *)
LEMMA AmbientSkipPreviousSound ==
  ASSUME NEW now \in Nat, NEW s, Sound(s, now)
  PROVE  Sound(AmbientSkipPrevious(s, now), now)
<1> DEFINE q == s.queue
           h == s.history
           t == s.track
           a == AmbientAnchor(s, now)
           next == AmbientSkipPrevious(s, now)
<1>1. q \in Seq(Tracks) /\ h \in Seq(Tracks) /\ Half(s, now)
        /\ t \in Tracks \cup {None}
  BY SoundIsHalf DEF Sound, LaneStates
<1>2. CASE h = <<>> /\ t = None
  BY <1>2 DEF AmbientSkipPrevious
<1>3. CASE h = <<>> /\ t # None
  <2>1. next = StartTrack(s, t, q, h, a) /\ t \in Tracks
    BY <1>1, <1>3 DEF AmbientSkipPrevious
  <2>. QED  BY <1>1, <2>1, StartTrackSound
<1>4. CASE h # <<>>
  <2> DEFINE u == IF t = None THEN q ELSE <<t>> \o q
  <2>1. next = StartTrack(s, Last(h), u, Front(h), a)
    BY <1>4 DEF AmbientSkipPrevious
  <2>2. u \in Seq(Tracks)
    BY <1>1
  <2>. HIDE DEF h, u
  <2>3. Last(h) \in Tracks /\ Front(h) \in Seq(Tracks)
    BY <1>1, <1>4 DEF Last, Front
  <2>. QED  BY <1>1, <2>1, <2>2, <2>3, StartTrackSound
<1>. QED  BY <1>2, <1>3, <1>4

(* A seek sets position and anchor of a lane that has a track. *)
LEMMA PositionedSound ==
  ASSUME NEW now \in Nat, NEW s, Half(s, now), s.track # None, NEW p \in Nat
  PROVE  Sound([s EXCEPT !.pos = p, !.anchor = AmbientAnchor(s, now)], now)
<1> DEFINE a == AmbientAnchor(s, now)
           r == [s EXCEPT !.pos = p, !.anchor = a]
<1>1. s \in LaneStates /\ a \in Anchors
  BY AnchorType DEF Half
<1>. HIDE DEF a
<1>2. Moved(r, s, s.track, a)
  BY <1>1 DEF Moved, LaneStates
<1>. HIDE DEF r
<1>3. Sound(r, now)
  BY <1>2, AnchoredSound DEF Moved, a
<1>. QED  BY <1>3 DEF r, a

(* Seeking leaves the lanes sound. *)
LEMMA AmbientSeekSound ==
  ASSUME NEW now \in Nat, NEW s, Sound(s, now), NEW p \in Nat
  PROVE  Sound(AmbientSeek(s, p, now), now)
<1>1. CASE s.track = None
  BY <1>1 DEF AmbientSeek
<1>2. CASE s.track # None
  BY <1>2, AtMostType, SoundIsHalf, PositionedSound, BumpSound DEF AmbientSeek
<1>. QED  BY <1>1, <1>2

(* Stopping the ambient lane leaves the lanes sound. *)
LEMMA AmbientStopSound ==
  ASSUME NEW now \in Nat, NEW s, Sound(s, now)
  PROVE  Sound(AmbientStop(s), now)
<1>1. <<>> \in Seq(Tracks)
  OBVIOUS
<1>2. AmbientStop(s) = s \/ AmbientStop(s) = StartTrack(s, None, <<>>, <<>>, None)
  BY DEF AmbientStop
<1>3. Sound(StartTrack(s, None, <<>>, <<>>, None), now)
  BY <1>1, SoundIsHalf, NoTrackSound
<1>. QED  BY <1>2, <1>3

(* The playlist of a cue, started at an offset, leaves them sound. *)
LEMMA CuePlaylistSound ==
  ASSUME NEW now \in Nat, NEW s, Sound(s, now), NEW ts \in Seq(Tracks),
         ts # <<>>, NEW start \in Nat \ {0}, NEW at \in Nat
  PROVE  Sound(CuePlaylist(s, ts, start, at, now), now)
<1> DEFINE p == AmbientPlaySequence(s, ts, start, now)
<1>1. Sound(p, now)
  BY AmbientPlaySequenceSound
<1>2. p.track # None
  <2> DEFINE b == [s EXCEPT !.playing = TRUE]
             i == AtMost(start, Len(ts))
             q == SubSeq(ts, i + 1, Len(ts))
             h == SubSeq(ts, 1, i - 1)
             a == AmbientAnchor(b, now)
  <2>1. i \in 1..Len(ts) /\ Len(ts) \in Nat
    BY DEF AtMost
  <2>2. p = StartTrack(b, ts[i], q, h, a)
    BY DEF AmbientPlaySequence
  <2>3. b \in LaneStates /\ a \in Anchors
    BY SoundIsHalf, PlayingHalf, AnchorType DEF Half
  <2>. HIDE DEF i, b, a, p
  <2>4. ts[i] \in Tracks /\ q \in Seq(Tracks) /\ h \in Seq(Tracks)
    BY <2>1
  <2>. HIDE DEF q, h
  <2>5. Moved(p, b, ts[i], a)
    BY <2>2, <2>3, <2>4, StartTrackMoves
  <2>. QED  BY <2>4, <2>5, NoneIsNothing DEF Moved
<1>3. CASE at > 0
  BY <1>1, <1>2, <1>3, AtMostType, SoundIsHalf, PositionedSound DEF CuePlaylist
<1>4. CASE ~(at > 0)
  BY <1>1, <1>4 DEF CuePlaylist
<1>. QED  BY <1>3, <1>4

-----------------------------------------------------------------------------
(* The interrupt operations.                                               *)

(* Putting an interrupt with a clock not in the future above a frozen or   *)
(* ducked lane.                                                            *)
LEMMA InterruptSound ==
  ASSUME NEW now \in Nat, NEW s, Sound(s, now), NEW i \in Interrupts,
         i.anchor <= now, s.anchor = None \/ i.ducks
  PROVE  Sound([s EXCEPT !.interrupt = i], now)
<1> DEFINE r == [s EXCEPT !.interrupt = i]
<1>1. r \in LaneStates /\ r.playing = s.playing /\ r.track = s.track
        /\ r.anchor = s.anchor /\ r.interrupt = i
  BY DEF Sound, LaneStates
<1>. HIDE DEF r
<1>2. i # None
  BY NoneIsNothing
<1>3. Clocked(r, now)
  BY <1>1, <1>2 DEF Sound, Clocked, Uncovered
<1>4. RunsWhenHeard(r)
  BY <1>1, <1>2 DEF RunsWhenHeard
<1>5. Sound(r, now)
  BY <1>1, <1>3, <1>4 DEF Sound
<1>. QED  BY <1>5 DEF r

(* An interrupt freezes the lane it covers and leaves one it ducks. *)
LEMMA FireInterruptSound ==
  ASSUME NEW now \in Nat, NEW s, Sound(s, now), NEW ts \in Seq(Tracks),
         NEW returns \in BOOLEAN, NEW ducks \in BOOLEAN
  PROVE  Sound(FireInterrupt(s, ts, returns, ducks, now), now)
<1>1. CASE ts = <<>>
  BY <1>1 DEF FireInterrupt
<1>2. CASE ts # <<>>
  <2> DEFINE b == IF ducks THEN s ELSE FreezeAmbient(s, now)
             i == [track |-> Head(ts), queue |-> Tail(ts), pos |-> 0,
                   anchor |-> now, returns |-> returns, ducks |-> ducks]
             r == [b EXCEPT !.playing = TRUE, !.interrupt = i]
  <2>1. FireInterrupt(s, ts, returns, ducks, now) = Bump(r)
    BY <1>2 DEF FireInterrupt
  <2>2. i \in Interrupts /\ i.anchor = now /\ i.ducks = ducks
    <3>1. Head(ts) \in Tracks /\ Tail(ts) \in Seq(Tracks)
      BY <1>2
    <3>. QED  BY <3>1 DEF Interrupts
  <2>3. b \in LaneStates /\ b.track = s.track
          /\ (b.anchor # None => ducks = TRUE /\ b.anchor = s.anchor)
    BY SoundIsHalf, FreezeHalf DEF Half, Sound
  <2>. HIDE DEF b, i
  <2>4. r \in LaneStates /\ r.playing = TRUE /\ r.track = b.track
          /\ r.anchor = b.anchor /\ r.interrupt = i
    BY <2>2, <2>3 DEF LaneStates
  <2>. HIDE DEF r
  <2>5. i # None
    BY <2>2, NoneIsNothing
  <2>6. Clocked(r, now)
    BY <2>2, <2>3, <2>4, <2>5 DEF Sound, Clocked, Uncovered
  <2>7. RunsWhenHeard(r)
    BY <2>4, <2>5 DEF RunsWhenHeard
  <2>8. Sound(r, now)
    BY <2>4, <2>6, <2>7 DEF Sound
  <2>. QED  BY <2>1, <2>8, BumpSound
<1>. QED  BY <1>1, <1>2

(* The interrupt goes and the ambient clock runs again, from where it was  *)
(* frozen, if the room plays.                                              *)
LEMMA ResumedSound ==
  ASSUME NEW now \in Nat, NEW s, Sound(s, now), NEW a,
         a = IF s.playing /\ s.track # None /\ s.anchor = None
               THEN now ELSE s.anchor
  PROVE  Sound([s EXCEPT !.interrupt = None, !.anchor = a], now)
<1> DEFINE r == [s EXCEPT !.interrupt = None, !.anchor = a]
<1>1. s \in LaneStates /\ a \in Anchors
  BY DEF Sound, LaneStates, Anchors
<1>2. r \in LaneStates /\ r.playing = s.playing /\ r.track = s.track
        /\ r.anchor = a /\ r.interrupt = None
  BY <1>1 DEF LaneStates
<1>. HIDE DEF r
<1>3. Clocked(r, now)
  BY <1>2, NoneIsNothing DEF Sound, Clocked, Uncovered
<1>4. RunsWhenHeard(r)
  BY <1>2, NoneIsNothing DEF Sound, Clocked, RunsWhenHeard
<1>5. Sound(r, now)
  BY <1>2, <1>3, <1>4 DEF Sound
<1>. QED  BY <1>5 DEF r

(* Ending an interrupt resumes the lane below or pauses the room. *)
LEMMA EndInterruptSound ==
  ASSUME NEW now \in Nat, NEW s, Sound(s, now)
  PROVE  Sound(EndInterrupt(s, now), now)
<1>1. s \in LaneStates /\ Half(s, now)
  BY SoundIsHalf DEF Sound
<1>2. CASE s.interrupt = None
  BY <1>2 DEF EndInterrupt
<1>3. CASE s.interrupt # None /\ s.interrupt.returns
  <2> DEFINE a == IF s.playing /\ s.track # None /\ s.anchor = None
                    THEN now ELSE s.anchor
  <2>1. EndInterrupt(s, now) = Bump([s EXCEPT !.interrupt = None, !.anchor = a])
    BY <1>1, <1>3 DEF EndInterrupt, LaneStates
  <2>2. Sound([s EXCEPT !.interrupt = None, !.anchor = a], now)
    BY ResumedSound
  <2>. HIDE DEF a
  <2>. QED  BY <2>1, <2>2, BumpSound
<1>4. CASE s.interrupt # None /\ ~s.interrupt.returns
  <2> DEFINE f == FreezeAmbient(s, now)
             r == [f EXCEPT !.interrupt = None, !.playing = FALSE]
  <2>1. EndInterrupt(s, now) = Bump(r)
    BY <1>4 DEF EndInterrupt
  <2>2. f \in LaneStates /\ f.anchor = None
    BY <1>1, FreezeHalf DEF Half
  <2>. HIDE DEF f
  <2>3. r \in LaneStates /\ r.anchor = None /\ r.playing = FALSE
          /\ r.interrupt = None
    BY <2>2 DEF LaneStates
  <2>. HIDE DEF r
  <2>4. Sound(r, now)
    BY <2>3, FrozenSound DEF Half
  <2>. QED  BY <2>1, <2>4, BumpSound
<1>. QED  BY <1>2, <1>3, <1>4

(* The interrupt moves: another track of its queue, a seek or a report. *)
LEMMA InterruptMovesSound ==
  ASSUME NEW now \in Nat, NEW s, Sound(s, now), s.interrupt # None,
         NEW t \in Tracks, NEW q \in Seq(Tracks), NEW p \in Nat
  PROVE  /\ Sound([s EXCEPT !.interrupt =
                      [s.interrupt EXCEPT !.track = t, !.queue = q, !.pos = p,
                                          !.anchor = now]], now)
         /\ Sound([s EXCEPT !.interrupt =
                      [s.interrupt EXCEPT !.pos = p, !.anchor = now]], now)
         /\ Sound([s EXCEPT !.interrupt = [s.interrupt EXCEPT !.queue = q]], now)
<1> DEFINE i == s.interrupt
           m == [i EXCEPT !.track = t, !.queue = q, !.pos = p, !.anchor = now]
           k == [i EXCEPT !.pos = p, !.anchor = now]
           n == [i EXCEPT !.queue = q]
<1>1. i \in Interrupts /\ (s.anchor = None \/ i.ducks) /\ i.anchor <= now
  BY DEF Sound, LaneStates, Clocked, Uncovered
<1>. HIDE DEF i
<1>2. m \in Interrupts /\ m.anchor = now /\ m.ducks = i.ducks
  BY <1>1 DEF Interrupts
<1>3. k \in Interrupts /\ k.anchor = now /\ k.ducks = i.ducks
  BY <1>1 DEF Interrupts
<1>4. n \in Interrupts /\ n.anchor = i.anchor /\ n.ducks = i.ducks
  BY <1>1 DEF Interrupts
<1>. HIDE DEF m, k, n
<1>5. Sound([s EXCEPT !.interrupt = m], now)
  BY <1>1, <1>2, InterruptSound
<1>6. Sound([s EXCEPT !.interrupt = k], now)
  BY <1>1, <1>3, InterruptSound
<1>7. Sound([s EXCEPT !.interrupt = n], now)
  BY <1>1, <1>4, InterruptSound
<1>. QED  BY <1>5, <1>6, <1>7 DEF m, k, n, i

(* The next track of an interrupt, or its end, leaves them sound. *)
LEMMA InterruptSkipNextSound ==
  ASSUME NEW now \in Nat, NEW s, Sound(s, now), NEW expected
  PROVE  Sound(InterruptSkipNext(s, expected, now), now)
<1>1. CASE s.interrupt = None \/ (expected # None /\ s.interrupt.track # expected)
  BY <1>1 DEF InterruptSkipNext
<1>2. CASE /\ ~(s.interrupt = None \/ (expected # None /\ s.interrupt.track # expected))
           /\ s.interrupt.queue = <<>>
  BY <1>2, EndInterruptSound DEF InterruptSkipNext
<1>3. CASE /\ ~(s.interrupt = None \/ (expected # None /\ s.interrupt.track # expected))
           /\ s.interrupt.queue # <<>>
  <2> DEFINE q == s.interrupt.queue
             r == [s EXCEPT !.interrupt =
                     [s.interrupt EXCEPT !.track = Head(q), !.queue = Tail(q),
                                         !.pos = 0, !.anchor = now]]
  <2>1. InterruptSkipNext(s, expected, now) = Bump(r)
    BY <1>3 DEF InterruptSkipNext, Sound, LaneStates
  <2>2. q \in Seq(Tracks) /\ q # <<>> /\ s.interrupt # None
    BY <1>3 DEF Sound, LaneStates, Interrupts
  <2>3. Head(q) \in Tracks /\ Tail(q) \in Seq(Tracks) /\ 0 \in Nat
    <3>. HIDE DEF q
    <3>. QED  BY <2>2
  <2>. HIDE DEF q
  <2>4. Sound(r, now)
    BY <2>2, <2>3, InterruptMovesSound
  <2>. QED  BY <2>1, <2>4, BumpSound
<1>. QED  BY <1>1, <1>2, <1>3

(* Seeking in an interrupt leaves the lanes sound. *)
LEMMA InterruptSeekSound ==
  ASSUME NEW now \in Nat, NEW s, Sound(s, now), NEW p \in Nat
  PROVE  Sound(InterruptSeek(s, p, now), now)
<1>1. CASE s.interrupt = None
  BY <1>1 DEF InterruptSeek
<1>2. CASE s.interrupt # None
  <2> DEFINE r == [s EXCEPT !.interrupt =
                     [s.interrupt EXCEPT !.pos = AtMost(p, MaxPosition),
                                         !.anchor = now]]
  <2>1. InterruptSeek(s, p, now) = Bump(r)
    BY <1>2 DEF InterruptSeek, Sound, LaneStates
  <2>2. s.interrupt.track \in Tracks /\ s.interrupt.queue \in Seq(Tracks)
    BY <1>2 DEF Sound, LaneStates, Interrupts
  <2>3. Sound(r, now)
    BY <1>2, <2>2, AtMostType, InterruptMovesSound
  <2>. QED  BY <2>1, <2>3, BumpSound
<1>. QED  BY <1>1, <1>2

(* A position report moves the clock of the lane on top and no other. *)
LEMMA ReportPositionSound ==
  ASSUME NEW now \in Nat, NEW s, Sound(s, now), NEW p \in Nat
  PROVE  Sound(ReportPosition(s, p, now), now)
<1> DEFINE x == AtMost(p, MaxPosition)
<1>1. CASE s.interrupt # None
  <2>1. ReportPosition(s, p, now)
          = [s EXCEPT !.interrupt = [s.interrupt EXCEPT !.pos = x, !.anchor = now]]
    BY <1>1 DEF ReportPosition, Sound, LaneStates
  <2>2. s.interrupt.track \in Tracks /\ s.interrupt.queue \in Seq(Tracks)
    BY <1>1 DEF Sound, LaneStates, Interrupts
  <2>3. Sound([s EXCEPT !.interrupt =
                 [s.interrupt EXCEPT !.pos = x, !.anchor = now]], now)
    BY <1>1, <2>2, AtMostType, InterruptMovesSound
  <2>. QED  BY <2>1, <2>3
<1>2. CASE s.interrupt = None
  <2> DEFINE a == IF s.anchor # None THEN now ELSE None
             r == [s EXCEPT !.pos = x, !.anchor = a]
  <2>1. ReportPosition(s, p, now) = r
    BY <1>2 DEF ReportPosition, Sound, LaneStates
  <2>2. x \in Nat /\ a \in Anchors /\ s \in LaneStates
    BY AtMostType DEF Anchors, Sound
  <2>. HIDE DEF x
  <2>3. r \in LaneStates /\ r.playing = s.playing /\ r.track = s.track
          /\ r.anchor = a /\ r.interrupt = s.interrupt
    BY <2>2 DEF LaneStates
  <2>. HIDE DEF r
  <2>4. Clocked(r, now)
    BY <1>2, <2>3 DEF Sound, Clocked, Uncovered
  <2>5. RunsWhenHeard(r)
    BY <1>2, <2>3, NoneIsNothing DEF Sound, RunsWhenHeard
  <2>. QED  BY <2>1, <2>3, <2>4, <2>5 DEF Sound
<1>. QED  BY <1>1, <1>2

-----------------------------------------------------------------------------
(* Pruning, saving and starting.                                           *)

(* A catalog that drops the ambient track pauses the room. *)
LEMMA PruneAmbientSound ==
  ASSUME NEW now \in Nat, NEW s, Sound(s, now), NEW known
  PROVE  Sound(PruneAmbient(s, known), now)
<1> DEFINE q == Retain(s.queue, known)
           h == Retain(s.history, known)
           k == [s EXCEPT !.queue = q, !.history = h]
           g == [k EXCEPT !.track = None, !.pos = 0, !.anchor = None,
                          !.playing = FALSE]
<1>1. s \in LaneStates /\ Half(s, now)
  BY SoundIsHalf DEF Sound
<1>2. q \in Seq(Tracks) /\ h \in Seq(Tracks)
  <2>1. s.queue \in Seq(Tracks) /\ s.history \in Seq(Tracks)
    BY <1>1 DEF LaneStates
  <2>. QED  BY <2>1, RetainType
<1>3. PruneAmbient(s, known) = IF s.track # None /\ s.track \notin known
                                 THEN g ELSE k
  BY <1>1 DEF PruneAmbient, LaneStates
<1>. HIDE DEF q, h
<1>4. k \in LaneStates /\ k.playing = s.playing /\ k.track = s.track
        /\ k.anchor = s.anchor /\ k.interrupt = s.interrupt
  BY <1>1, <1>2 DEF LaneStates
<1>. HIDE DEF k
<1>5. Sound(k, now)
  BY <1>4, SameClockSound
<1>6. g \in LaneStates /\ g.playing = FALSE /\ g.anchor = None
        /\ g.interrupt = k.interrupt
  BY <1>4 DEF LaneStates, Anchors
<1>. HIDE DEF g
<1>7. Half(g, now)
  BY <1>1, <1>4, <1>6 DEF Half
<1>8. Sound(g, now)
  BY <1>6, <1>7, FrozenSound
<1>. QED  BY <1>3, <1>5, <1>8

(* A catalog that drops the interrupt's track uncovers the ambient lane. *)
LEMMA PruneInterruptSound ==
  ASSUME NEW now \in Nat, NEW s, Sound(s, now), NEW known
  PROVE  Sound(PruneInterrupt(s, known, now), now)
<1>1. s \in LaneStates
  BY DEF Sound
<1>2. CASE s.interrupt = None
  BY <1>2 DEF PruneInterrupt
<1>3. CASE s.interrupt # None /\ s.interrupt.track \in known
  <2> DEFINE q == Retain(s.interrupt.queue, known)
  <2>1. s.interrupt \in Interrupts
    BY <1>1, <1>3 DEF LaneStates
  <2>2. s.interrupt.track \in Tracks /\ s.interrupt.queue \in Seq(Tracks)
    BY <2>1 DEF Interrupts
  <2>3. q \in Seq(Tracks)
    BY <2>2, RetainType
  <2>4. PruneInterrupt(s, known, now)
          = [s EXCEPT !.interrupt = [s.interrupt EXCEPT !.queue = q]]
    BY <1>1, <1>3, <2>1 DEF PruneInterrupt, LaneStates, Interrupts
  <2>. HIDE DEF q
  <2>5. Sound([s EXCEPT !.interrupt = [s.interrupt EXCEPT !.queue = q]], now)
    BY <1>3, <2>2, <2>3, InterruptMovesSound
  <2>. QED  BY <2>4, <2>5
<1>4. CASE s.interrupt # None /\ s.interrupt.track \notin known
  <2> DEFINE a == IF s.playing /\ s.track # None THEN now ELSE s.anchor
             r == [s EXCEPT !.interrupt = None, !.anchor = a]
  <2>1. PruneInterrupt(s, known, now) = r
    BY <1>1, <1>4 DEF PruneInterrupt, LaneStates
  <2>2. a \in Anchors
    BY <1>1 DEF LaneStates, Anchors
  <2>3. r \in LaneStates /\ r.playing = s.playing /\ r.track = s.track
          /\ r.anchor = a /\ r.interrupt = None
    BY <1>1, <2>2 DEF LaneStates
  <2>. HIDE DEF r
  <2>4. Clocked(r, now)
    BY <2>3, NoneIsNothing DEF Sound, Clocked, Uncovered
  <2>5. RunsWhenHeard(r)
    BY <2>3, NoneIsNothing DEF Sound, Clocked, RunsWhenHeard
  <2>. QED  BY <2>1, <2>3, <2>4, <2>5 DEF Sound
<1>. QED  BY <1>2, <1>3, <1>4

(* Pruning both lanes leaves them sound. *)
LEMMA PruneLanesSound ==
  ASSUME NEW now \in Nat, NEW s, Sound(s, now), NEW known
  PROVE  Sound(PruneLanes(s, known, now), now)
BY PruneAmbientSound, PruneInterruptSound DEF PruneLanes

(* What is saved is a frozen lane state; what a start makes of any typed   *)
(* lane state is sound at any time.                                        *)
LEMMA PersistedLanesType ==
  ASSUME NEW now \in Nat, NEW s, Sound(s, now)
  PROVE  PersistedLanes(s, now) \in LaneStates
<1>1. FreezeAmbient(s, now) \in LaneStates
  BY SoundIsHalf, FreezeHalf DEF Half
<1>. QED  BY <1>1 DEF PersistedLanes, LaneStates

(* Any typed lane state is sound after the normalization of a start. *)
LEMMA NormalizeSound ==
  ASSUME NEW now \in Nat, NEW s \in LaneStates
  PROVE  Sound(NormalizeForStartup(s), now)
<1> DEFINE r == NormalizeForStartup(s)
<1>1. r \in LaneStates /\ r.playing = FALSE /\ r.anchor = None
        /\ r.interrupt = None
  BY DEF NormalizeForStartup, LaneStates, Anchors
<1>. HIDE DEF r
<1>2. Sound(r, now)
  BY <1>1, FrozenSound DEF Half
<1>. QED  BY <1>2 DEF r

(* The lanes of the first start are sound. *)
LEMMA DefaultLanesSound ==
  ASSUME NEW now \in Nat
  PROVE  Sound(DefaultLanes, now)
<1>1. DefaultLanes \in LaneStates
  BY DEF DefaultLanes, LaneStates, Anchors, LoopModes
<1>2. Clocked(DefaultLanes, now) /\ RunsWhenHeard(DefaultLanes)
  BY DEF DefaultLanes, Clocked, RunsWhenHeard
<1>. QED  BY <1>1, <1>2 DEF Sound

(* Time passes. *)
LEMMA LaterSound ==
  ASSUME NEW now \in Nat, NEW s, Sound(s, now)
  PROVE  Sound(s, now + 1)
<1>1. s.anchor # None => s.anchor \in Nat
  BY DEF Sound, LaneStates, Anchors
<1>2. s.interrupt # None => s.interrupt.anchor \in Nat
  BY DEF Sound, LaneStates, Interrupts
<1>3. Clocked(s, now + 1)
  BY <1>1, <1>2 DEF Sound, Clocked
<1>. QED  BY <1>3 DEF Sound

-----------------------------------------------------------------------------
(***************************************************************************)
(* Every room operation of the reducer keeps the room typed and keeps the  *)
(* single-output policy, and pruning and the policy leave the flag at what *)
(* the active mode says.                                                   *)
(***************************************************************************)

(* A typed room that has more than one output only if it may. *)
Fit(r) == r \in RoomStates /\ (~r.multiple => Len(r.outputs) <= 1)

(* Room q is fit and has the outputs of r. *)
Kept(q, r) == Fit(q) /\ Active(q) = Active(r)

WithOutputs(r, o, m) == [r EXCEPT !.outputs = o, !.multiple = m]

(* Room q is fit and has outputs o and flag m, and r's mode and loops. *)
Switched(q, r, o, m) ==
  Fit(q) /\ q.outputs = o /\ q.multiple = m /\ q.mode = r.mode
    /\ q.loops = r.loops

ModeCatalog(m) == DOMAIN m \subseteq ModeIds /\ m \in [DOMAIN m -> Modes]

(* A typed room with the outputs and the flag of a fit one is fit too. *)
LEMMA SameOutputsFit ==
  ASSUME NEW r, Fit(r), NEW q \in RoomStates,
         q.outputs = r.outputs, q.multiple = r.multiple
  PROVE  Kept(q, r)
BY DEF Fit, Kept, Active

(* The room of the first start is fit. *)
LEMMA DefaultRoomFit == Fit(DefaultRoom)
<1>1. DefaultRoom \in RoomStates
  BY RoomDefaultsAssumption DEF DefaultRoom, RoomStates
<1>2. Len(DefaultRoom.outputs) <= 1
  BY DEF DefaultRoom
<1>. QED  BY <1>1, <1>2 DEF Fit

(* Switching the mode keeps the outputs. *)
LEMMA SetActiveModeFit ==
  ASSUME NEW r, Fit(r), NEW m \in ModeIds \cup {None}
  PROVE  Kept(SetActiveMode(r, m), r)
<1> DEFINE q == [r EXCEPT !.mode = m, !.presets = {}, !.board = None]
<1>1. q \in RoomStates /\ q.outputs = r.outputs /\ q.multiple = r.multiple
  BY DEF Fit, RoomStates
<1>. HIDE DEF q
<1>2. Kept(q, r)
  BY <1>1, SameOutputsFit
<1>. QED  BY <1>2 DEF SetActiveMode, Kept, q

(* So does choosing a soundboard. *)
LEMMA SetActiveSoundboardFit ==
  ASSUME NEW r, Fit(r), NEW b \in Boards \cup {None}
  PROVE  Kept(SetActiveSoundboard(r, b), r)
<1> DEFINE q == [r EXCEPT !.board = b]
<1>1. q \in RoomStates /\ q.outputs = r.outputs /\ q.multiple = r.multiple
  BY DEF Fit, RoomStates
<1>. HIDE DEF q
<1>2. Kept(q, r)
  BY <1>1, SameOutputsFit
<1>. QED  BY <1>2 DEF SetActiveSoundboard, q

(* So does choosing presets, with or without a crossfade. *)
LEMMA SetActivePresetsFit ==
  ASSUME NEW r, Fit(r), NEW ps \in SUBSET Presets,
         NEW x \in Crossfades \cup {None}
  PROVE  Kept(SetActivePresets(r, ps, x), r)
<1> DEFINE y == IF x = None THEN r.crossfade ELSE x
           q == [r EXCEPT !.presets = ps, !.crossfade = y]
<1>1. y \in Crossfades
  BY DEF Fit, RoomStates
<1>2. SetActivePresets(r, ps, x) = q
  BY DEF SetActivePresets, Fit, RoomStates
<1>. HIDE DEF y
<1>3. q \in RoomStates /\ q.outputs = r.outputs /\ q.multiple = r.multiple
  BY <1>1 DEF Fit, RoomStates
<1>. HIDE DEF q
<1>. QED  BY <1>2, <1>3, SameOutputsFit

(* So does a crossfade. *)
LEMMA SetCrossfadeFit ==
  ASSUME NEW r, Fit(r), NEW x \in Crossfades
  PROVE  Kept(SetCrossfade(r, x), r)
<1> DEFINE q == [r EXCEPT !.crossfade = x]
<1>1. q \in RoomStates /\ q.outputs = r.outputs /\ q.multiple = r.multiple
  BY DEF Fit, RoomStates
<1>. HIDE DEF q
<1>2. Kept(q, r)
  BY <1>1, SameOutputsFit
<1>. QED  BY <1>2 DEF SetCrossfade, q

(* So does a device's volume. *)
LEMMA SetDeviceVolumeFit ==
  ASSUME NEW r, Fit(r), NEW d \in Devices, NEW v \in Volumes
  PROVE  Kept(SetDeviceVolume(r, d, v), r)
<1> DEFINE w == [r.volumes EXCEPT ![d] = v]
           q == [r EXCEPT !.volumes = w]
<1>1. w \in [Devices -> Volumes \cup {None}]
  BY DEF Fit, RoomStates
<1>2. SetDeviceVolume(r, d, v) = q
  BY DEF SetDeviceVolume, Fit, RoomStates
<1>. HIDE DEF w
<1>3. q \in RoomStates /\ q.outputs = r.outputs /\ q.multiple = r.multiple
  BY <1>1 DEF Fit, RoomStates
<1>. HIDE DEF q
<1>. QED  BY <1>2, <1>3, SameOutputsFit

(* Looping effects do not touch the outputs. *)
LEMMA LoopsFit ==
  ASSUME NEW r, Fit(r), NEW ls \in SUBSET LoopingSfx
  PROVE  Kept([r EXCEPT !.loops = ls], r)
<1> DEFINE q == [r EXCEPT !.loops = ls]
<1>1. q \in RoomStates /\ q.outputs = r.outputs /\ q.multiple = r.multiple
  BY DEF Fit, RoomStates
<1>. HIDE DEF q
<1>2. Kept(q, r)
  BY <1>1, SameOutputsFit
<1>. QED  BY <1>2 DEF q

(* Starting, stopping and replacing the loops of a cue keep the room fit. *)
LEMMA LoopCommandsFit ==
  ASSUME NEW r, Fit(r)
  PROVE  /\ \A l \in LoopingSfx : Kept(StartLoop(r, l), r)
         /\ \A id : Kept(StopLoop(r, id), r)
         /\ \A c : \A ls \in SUBSET LoopingSfx : Kept(CueLoops(r, c, ls), r)
<1>1. r.loops \in SUBSET LoopingSfx /\ r \in RoomStates
  BY DEF Fit, RoomStates
<1>2. ASSUME NEW l \in LoopingSfx PROVE Kept(StartLoop(r, l), r)
  <2> DEFINE ls == {k \in r.loops : k.id # l.id} \cup {l}
  <2>1. ls \in SUBSET LoopingSfx
    BY <1>1
  <2>2. StartLoop(r, l) = [r EXCEPT !.loops = ls]
    BY <1>1 DEF StartLoop, RoomStates
  <2>. HIDE DEF ls
  <2>. QED  BY <2>1, <2>2, LoopsFit
<1>3. ASSUME NEW id PROVE Kept(StopLoop(r, id), r)
  <2> DEFINE ls == {k \in r.loops : k.id # id}
  <2>1. ls \in SUBSET LoopingSfx
    BY <1>1
  <2>2. StopLoop(r, id) = [r EXCEPT !.loops = ls]
    BY <1>1 DEF StopLoop, RoomStates
  <2>. HIDE DEF ls
  <2>. QED  BY <2>1, <2>2, LoopsFit
<1>4. ASSUME NEW c, NEW new \in SUBSET LoopingSfx PROVE Kept(CueLoops(r, c, new), r)
  <2> DEFINE ls == {k \in r.loops : CueOf[k.id] # c} \cup new
  <2>1. ls \in SUBSET LoopingSfx
    BY <1>1
  <2>2. CueLoops(r, c, new) = [r EXCEPT !.loops = ls]
    BY <1>1 DEF CueLoops, RoomStates
  <2>. HIDE DEF ls
  <2>. QED  BY <2>1, <2>2, LoopsFit
<1>. QED  BY <1>2, <1>3, <1>4
-----------------------------------------------------------------------------
(* The outputs.                                                            *)

(* Replacing the outputs by a sequence the flag allows. *)
LEMMA OutputsFit ==
  ASSUME NEW r, Fit(r), NEW o \in Seq(Devices), NEW m \in BOOLEAN,
         ~m => Len(o) <= 1
  PROVE  Switched(WithOutputs(r, o, m), r, o, m)
<1> DEFINE q == [r EXCEPT !.outputs = o, !.multiple = m]
<1>1. q \in RoomStates /\ q.outputs = o /\ q.multiple = m /\ q.mode = r.mode
        /\ q.loops = r.loops
  BY DEF Fit, RoomStates
<1>2. WithOutputs(r, o, m) = q
  BY DEF WithOutputs
<1>. HIDE DEF q
<1>. QED  BY <1>1, <1>2 DEF Fit, Switched

(* A single-output room takes at most one of the requested outputs, and    *)
(* only requested ones.                                                    *)
LEMMA NewestOutputFacts ==
  ASSUME NEW cur, NEW ds \in Seq(Devices)
  PROVE  /\ NewestOutput(cur, ds) \in Seq(Devices)
         /\ Len(NewestOutput(cur, ds)) <= 1
         /\ ToSet(NewestOutput(cur, ds)) \subseteq ToSet(ds)
<1> DEFINE fresh == {i \in DOMAIN ds : ds[i] \notin ToSet(cur)}
           g == CHOOSE k \in fresh : \A j \in fresh : j <= k
           i == IF fresh = {} THEN Len(ds) ELSE g
<1>1. NewestOutput(cur, ds) = IF Len(ds) <= 1 THEN ds ELSE <<ds[i]>>
  BY DEF NewestOutput
<1>2. DOMAIN ds = 1..Len(ds) /\ Len(ds) \in Nat
  OBVIOUS
<1>3. fresh # {} => g \in fresh
  <2>1. fresh \in SUBSET (1..Len(ds))
    BY <1>2
  <2>. HIDE DEF fresh
  <2>2. ASSUME fresh # {} PROVE \E k \in fresh : \A j \in fresh : j <= k
    BY <1>2, <2>1, <2>2, GreatestNat
  <2>. QED  BY <2>2
<1>4. ~(Len(ds) <= 1) => i \in DOMAIN ds
  BY <1>2, <1>3
<1>. HIDE DEF i
<1>5. CASE Len(ds) <= 1
  BY <1>1, <1>5
<1>6. CASE ~(Len(ds) <= 1)
  <2>1. NewestOutput(cur, ds) = <<ds[i]>> /\ ds[i] \in Devices
    BY <1>1, <1>4, <1>6
  <2>2. ToSet(<<ds[i]>>) = {ds[i]}
    BY DEF ToSet
  <2>3. ds[i] \in ToSet(ds)
    BY <1>4, <1>6 DEF ToSet
  <2>. QED  BY <2>1, <2>2, <2>3
<1>. QED  BY <1>5, <1>6

(* A change of outputs keeps the room fit and names only requested ones. *)
LEMMA SetActiveOutputsFit ==
  ASSUME NEW r, Fit(r), NEW ds \in Seq(Devices)
  PROVE  /\ Fit(SetActiveOutputs(r, ds))
         /\ Active(SetActiveOutputs(r, ds)) \subseteq ToSet(ds)
<1> DEFINE o == IF r.multiple THEN ds ELSE NewestOutput(r.outputs, ds)
<1>1. r \in RoomStates /\ r.multiple \in BOOLEAN
  BY DEF Fit, RoomStates
<1>2. SetActiveOutputs(r, ds) = WithOutputs(r, o, r.multiple)
  BY <1>1 DEF SetActiveOutputs, WithOutputs, RoomStates
<1>3. o \in Seq(Devices) /\ (~r.multiple => Len(o) <= 1)
        /\ ToSet(o) \subseteq ToSet(ds)
  BY NewestOutputFacts
<1>. HIDE DEF o
<1>4. Switched(WithOutputs(r, o, r.multiple), r, o, r.multiple)
  BY <1>1, <1>3, OutputsFit
<1>. QED  BY <1>2, <1>3, <1>4 DEF Active, Switched

(* A registration keeps the room fit and switches on its own client only.  *)
LEMMA RegisterDeviceFit ==
  ASSUME NEW r, Fit(r), NEW d \in Devices, NEW activate \in BOOLEAN
  PROVE  /\ Fit(RegisterDevice(r, d, activate))
         /\ Active(RegisterDevice(r, d, activate)) \subseteq Active(r) \cup {d}
         /\ RegisterDevice(r, d, activate).mode = r.mode
         /\ RegisterDevice(r, d, activate).multiple = r.multiple
         /\ RegisterDevice(r, d, activate).loops = r.loops
<1> DEFINE v == IF r.volumes[d] = None THEN DefaultVolume ELSE r.volumes[d]
           w == [r.volumes EXCEPT ![d] = v]
           p == [r EXCEPT !.volumes = w]
           on == activate /\ (r.multiple \/ r.outputs = <<>>) /\ d \notin Active(r)
           o == IF on THEN Append(r.outputs, d) ELSE r.outputs
           q == WithOutputs(p, o, r.multiple)
<1>1. r \in RoomStates /\ r.multiple \in BOOLEAN /\ r.outputs \in Seq(Devices)
  BY DEF Fit, RoomStates
<1>2. w \in [Devices -> Volumes \cup {None}]
  BY <1>1, RoomDefaultsAssumption DEF RoomStates
<1>3. RegisterDevice(r, d, activate) = q
  BY <1>1 DEF RegisterDevice, WithOutputs, RoomStates
<1>. HIDE DEF w
<1>4. p \in RoomStates /\ p.outputs = r.outputs /\ p.multiple = r.multiple
        /\ p.mode = r.mode /\ p.loops = r.loops
  BY <1>1, <1>2 DEF RoomStates
<1>. HIDE DEF p
<1>5. Fit(p)
  BY <1>4, SameOutputsFit DEF Kept
<1>6. o \in Seq(Devices) /\ (~r.multiple => Len(o) <= 1)
  BY <1>1 DEF Fit
<1>7. ToSet(o) \subseteq Active(r) \cup {d}
  BY <1>1 DEF ToSet, Active
<1>. HIDE DEF o
<1>8. Switched(q, p, o, r.multiple)
  BY <1>1, <1>5, <1>6, OutputsFit
<1>. HIDE DEF q
<1>. QED  BY <1>3, <1>4, <1>7, <1>8 DEF Active, Switched

(* Removing an output keeps the room fit and the others on. *)
LEMMA RemoveActiveOutputFit ==
  ASSUME NEW r, Fit(r), NEW d
  PROVE  /\ Fit(RemoveActiveOutput(r, d))
         /\ Active(RemoveActiveOutput(r, d)) \subseteq Active(r) \ {d}
         /\ RemoveActiveOutput(r, d).mode = r.mode
         /\ RemoveActiveOutput(r, d).multiple = r.multiple
         /\ RemoveActiveOutput(r, d).loops = r.loops
<1> DEFINE o == Retain(r.outputs, Devices \ {d})
           q == WithOutputs(r, o, r.multiple)
<1>1. r \in RoomStates /\ r.multiple \in BOOLEAN /\ r.outputs \in Seq(Devices)
  BY DEF Fit, RoomStates
<1>2. RemoveActiveOutput(r, d) = q
  BY <1>1 DEF RemoveActiveOutput, WithOutputs, RoomStates
<1>3. /\ o \in Seq(Devices) /\ Len(o) <= Len(r.outputs)
      /\ \A k \in DOMAIN o : /\ o[k] \in Devices \ {d}
                             /\ \E i \in DOMAIN r.outputs : o[k] = r.outputs[i]
  <2>. DEFINE b == r.outputs
              S == Devices \ {d}
              k == Retain(b, S)
  <2>1. b \in Seq(Devices)
    BY <1>1
  <2>. HIDE DEF b, S
  <2>2. /\ k \in Seq(Devices) /\ Len(k) <= Len(b)
        /\ \A n \in DOMAIN k : k[n] \in S /\ \E i \in DOMAIN b : k[n] = b[i]
    BY <2>1, RetainType
  <2>3. o = k
    BY DEF b, S
  <2>. HIDE DEF k, o
  <2>. QED  BY <2>2, <2>3 DEF b, S
<1>. HIDE DEF o
<1>4. ToSet(o) \subseteq Active(r) \ {d}
  BY <1>3 DEF ToSet, Active
<1>5. ~r.multiple => Len(o) <= 1
  BY <1>1, <1>3 DEF Fit
<1>6. Switched(q, r, o, r.multiple)
  BY <1>1, <1>3, <1>5, OutputsFit
<1>. HIDE DEF q
<1>. QED  BY <1>2, <1>4, <1>6 DEF Active, Switched

(* The policy makes any typed room fit, sets the flag and switches nothing *)
(* on.                                                                     *)
LEMMA ApplyOutputPolicyFit ==
  ASSUME NEW r \in RoomStates, NEW m \in BOOLEAN
  PROVE  /\ Fit(ApplyOutputPolicy(r, m))
         /\ Active(ApplyOutputPolicy(r, m)) \subseteq Active(r)
         /\ ApplyOutputPolicy(r, m).mode = r.mode
         /\ ApplyOutputPolicy(r, m).multiple = m
         /\ ApplyOutputPolicy(r, m).loops = r.loops
<1> DEFINE o == IF ~m /\ Len(r.outputs) > 1 THEN <<Head(r.outputs)>> ELSE r.outputs
           q == [r EXCEPT !.multiple = m, !.outputs = o]
<1>1. r.outputs \in Seq(Devices)
  BY DEF RoomStates
<1>2. ApplyOutputPolicy(r, m) = q
  BY DEF ApplyOutputPolicy, RoomStates
<1>3. o \in Seq(Devices) /\ (~m => Len(o) <= 1) /\ ToSet(o) \subseteq Active(r)
  <2>1. CASE ~m /\ Len(r.outputs) > 1
    <3>1. Head(r.outputs) = r.outputs[1] /\ 1 \in DOMAIN r.outputs
            /\ Head(r.outputs) \in Devices
      BY <1>1, <2>1
    <3>2. ToSet(<<Head(r.outputs)>>) = {Head(r.outputs)}
      BY DEF ToSet
    <3>3. o = <<Head(r.outputs)>>
      BY <2>1
    <3>4. Head(r.outputs) \in Active(r)
      BY <3>1 DEF Active, ToSet
    <3>5. o \in Seq(Devices) /\ Len(o) = 1
      <4>. DEFINE h == Head(r.outputs)
      <4>1. o = <<h>> /\ h \in Devices
        BY <3>1, <3>3
      <4>. HIDE DEF h, o
      <4>. QED  BY <4>1
    <3>6. ToSet(o) \subseteq Active(r)
      BY <3>2, <3>3, <3>4
    <3>. HIDE DEF o
    <3>. QED  BY <3>5, <3>6
  <2>2. CASE ~(~m /\ Len(r.outputs) > 1)
    BY <1>1, <2>2 DEF Active
  <2>. QED  BY <2>1, <2>2
<1>. HIDE DEF o
<1>4. q \in RoomStates /\ q.outputs = o /\ q.multiple = m /\ q.mode = r.mode
        /\ q.loops = r.loops
  BY <1>3 DEF RoomStates
<1>. HIDE DEF q
<1>. QED  BY <1>2, <1>3, <1>4 DEF Fit, Active
-----------------------------------------------------------------------------
(* Pruning, saving and starting.                                           *)

(* Whether the active mode allows several outputs is yes or no. *)
LEMMA AllowsType ==
  ASSUME NEW r, NEW m, m = None \/ ModeCatalog(m)
  PROVE  AllowsMultipleOutputs(r, m) \in BOOLEAN
<1>1. CASE HasMode(r, m)
  <2>1. m[r.mode] \in Modes
    BY <1>1 DEF HasMode, ModeCatalog
  <2>2. m[r.mode].multiple \in BOOLEAN
    BY <2>1 DEF Modes
  <2>. QED  BY <1>1, <2>2 DEF AllowsMultipleOutputs, ModeOf
<1>2. CASE ~HasMode(r, m)
  BY <1>2 DEF AllowsMultipleOutputs
<1>. QED  BY <1>1, <1>2

(* A loaded mode catalog leaves the room with its active mode's policy and *)
(* switches nothing on; without one, pruning keeps outputs, flag and mode. *)
LEMMA PruneRoomFit ==
  ASSUME NEW r, Fit(r), NEW m, m = None \/ ModeCatalog(m), NEW content \in BOOLEAN
  PROVE  LET q == PruneRoom(r, m, content)
         IN  /\ Fit(q) /\ Active(q) \subseteq Active(r)
             /\ m # None => q.multiple = AllowsMultipleOutputs(q, m)
<1> DEFINE gone == m # None /\ r.mode # None /\ r.mode \notin DOMAIN m
           a == IF gone THEN [r EXCEPT !.mode = None, !.board = None,
                                       !.presets = {}, !.loops = {}]
                        ELSE r
           bb == IF a.board # None /\ BoardKnown(a, m, a.board) THEN a.board ELSE None
           bp == {p \in a.presets : PresetsKnown(a, m, {p})}
           bl == {l \in a.loops : ItemKnown(a, m, l.board, l.item)}
           b == [a EXCEPT !.board = bb, !.presets = bp, !.loops = bl]
           allow == AllowsMultipleOutputs(b, m)
           c == IF m = None THEN r ELSE ApplyOutputPolicy(b, allow)
           n == IF content THEN c.presetRevision + 1 ELSE c.presetRevision
           q == [c EXCEPT !.presetRevision = n]
<1>1. r \in RoomStates
  BY DEF Fit
<1>2. a \in RoomStates /\ a.outputs = r.outputs
  BY <1>1 DEF RoomStates
<1>3. b = [a EXCEPT !.board = IF @ # None /\ BoardKnown(a, m, @) THEN @ ELSE None,
                    !.presets = {p \in @ : PresetsKnown(a, m, {p})},
                    !.loops = {l \in @ : ItemKnown(a, m, l.board, l.item)}]
  BY <1>2 DEF RoomStates
<1>4. PruneRoom(r, m, content) = [c EXCEPT !.presetRevision = IF content THEN @ + 1 ELSE @]
  BY <1>3 DEF PruneRoom
<1>. HIDE DEF a
<1>5. bb \in Boards \cup {None} /\ bp \in SUBSET Presets
        /\ bl \in SUBSET LoopingSfx
  BY <1>2 DEF RoomStates
<1>. HIDE DEF bb, bp, bl
<1>6. b \in RoomStates /\ b.outputs = r.outputs
  BY <1>2, <1>5 DEF RoomStates
<1>. HIDE DEF b
<1>7. allow \in BOOLEAN
  BY AllowsType
<1>. HIDE DEF allow
<1>8. Fit(c) /\ Active(c) \subseteq Active(r)
        /\ (m # None => c.multiple = allow /\ c.mode = b.mode)
  BY <1>6, <1>7, ApplyOutputPolicyFit DEF Active
<1>. HIDE DEF c
<1>9. c \in RoomStates /\ n \in Nat
  BY <1>8 DEF Fit, RoomStates
<1>10. PruneRoom(r, m, content) = q
  BY <1>4, <1>9 DEF RoomStates
<1>. HIDE DEF n
<1>11. q \in RoomStates /\ q.outputs = c.outputs /\ q.multiple = c.multiple
         /\ q.mode = c.mode
  BY <1>9 DEF RoomStates
<1>. HIDE DEF q
<1>12. Fit(q) /\ Active(q) \subseteq Active(r)
  BY <1>8, <1>11, SameOutputsFit DEF Active, Kept
<1>13. m # None => q.multiple = AllowsMultipleOutputs(q, m)
  <2>1. m # None => AllowsMultipleOutputs(q, m) = AllowsMultipleOutputs(b, m)
    BY <1>8, <1>11 DEF AllowsMultipleOutputs, HasMode, ModeOf
  <2>. QED  BY <1>8, <1>11, <2>1 DEF allow
<1>. QED  BY <1>10, <1>12, <1>13

(* The document keeps a typed room. *)
LEMMA PersistedRoomType ==
  ASSUME NEW r, Fit(r)
  PROVE  PersistedRoom(r) \in RoomStates
BY DEF PersistedRoom, Fit, RoomStates

(* A start leaves every output off. *)
LEMMA NormalizeRoomFit ==
  ASSUME NEW r \in RoomStates
  PROVE  /\ Fit(NormalizeRoom(r)) /\ Active(NormalizeRoom(r)) = {}
         /\ NormalizeRoom(r).loops = {}
<1> DEFINE q == NormalizeRoom(r)
           e == <<>>
           q0 == [r EXCEPT !.loops = {}, !.multiple = FALSE, !.outputs = e]
<1>0. q = q0 /\ e \in Seq(Devices)
  BY DEF NormalizeRoom
<1>. HIDE DEF e
<1>1. q0 \in RoomStates /\ q0.outputs = e /\ q0.multiple = FALSE /\ q0.loops = {}
  BY <1>0 DEF RoomStates
<1>. HIDE DEF q0, q
<1>2. ToSet(q.outputs) = {}
  BY <1>0, <1>1 DEF ToSet, e
<1>3. Len(q.outputs) = 0
  BY <1>0, <1>1 DEF e
<1>. QED  BY <1>0, <1>1, <1>2, <1>3 DEF Fit, Active, q

=============================================================================
