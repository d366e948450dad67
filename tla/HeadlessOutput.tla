--------------------------- MODULE HeadlessOutput ---------------------------
(***************************************************************************)
(* The headless output appliance.  The websocket task feeds every state of *)
(* the server to the Reconciler, the control endpoint feeds it the local   *)
(* on/off switch; both compute mpv commands under the reconciler's lock,   *)
(* release it, and run the commands under the lock of the mpv connection,  *)
(* one at a time.  mpv itself is external: it does what it is told, or a   *)
(* command fails.                                                          *)
(*                                                                         *)
(* Abstractions: the active lane of a state (interrupt or ambient) is one  *)
(* track and one playing flag; a position is named by the position epoch   *)
(* it was taken from; volumes and sound effects are left out.  The server  *)
(* is the publication of PlaybackActor seen from one output: revisions     *)
(* grow while it runs, every deliberate move of the position bumps the     *)
(* epoch, and a restart may forget a revision that only told of presence.  *)
(***************************************************************************)
EXTENDS Naturals, Sequences

CONSTANTS
    HeadlessTracks,         \* track ids
    HeadlessNone,           \* no track
    RespectConsole, \* --respect-console
    ControlPort,    \* TRUE when the control endpoint is served
    MpvMayFail,     \* TRUE when an mpv command may fail or time out
    HeadlessMaxChanges,     \* bound: changes of the server's state
    MaxWire,        \* bound: states on the wire
    MaxDrops,       \* bound: lost connections and restarts
    MaxSwitches     \* bound: uses of the control endpoint

HeadlessTasks == {"websocket", "control"}

ASSUME HeadlessAssumption ==
    /\ HeadlessNone \notin HeadlessTracks \cup HeadlessTasks
    /\ {RespectConsole, ControlPort, MpvMayFail} \subseteq BOOLEAN
    /\ {HeadlessMaxChanges, MaxWire, MaxDrops, MaxSwitches} \subseteq Nat

VARIABLES
    headlessServer,     \* the state the server publishes
    wire,       \* states sent on the connection and not yet read
    connected,  \* the websocket is open
    rec,        \* the Reconciler
    headlessBatch,      \* batch[t]: commands task t has still to run
    holder,     \* the task that holds the lock of the mpv connection, or None
    mpv,        \* what mpv has loaded, from which epoch, and whether it is paused
    raced,      \* history: two batches were under way at once, or one failed
    changes, drops, switches

headlessVars == <<headlessServer, wire, connected, rec, headlessBatch, holder, mpv, raced,
                  changes, drops, switches>>

PlayerState == [revision : Nat, epoch : Nat, track : HeadlessTracks \cup {HeadlessNone},
                playing : BOOLEAN, active : BOOLEAN]

\* PlaybackCommand, without the volume.
Command == [op : {"Load"}, track : HeadlessTracks, epoch : Nat]
             \cup [op : {"SeekAbsolute"}, epoch : Nat]
             \cup [op : {"SetPaused"}, paused : BOOLEAN]
             \cup [op : {"Stop"}]

NoState == [revision |-> 0, epoch |-> 0, track |-> HeadlessNone, playing |-> FALSE,
            active |-> FALSE]

FreshReconciler ==
    [known |-> FALSE, state |-> NoState, loaded |-> HeadlessNone, lastEpoch |-> 0,
     hasEpoch |-> FALSE, gate |-> FALSE, localOn |-> TRUE]

IdleMpv == [track |-> HeadlessNone, epoch |-> 0, paused |-> FALSE]
----------------------------------------------------------------------------
(* The server, and the wire. *)

HeadlessSend(s, w) == IF connected /\ Len(w) < MaxWire THEN Append(w, s) ELSE w

HeadlessPublish(s) ==
    LET next == [s EXCEPT !.revision = headlessServer.revision + 1] IN
    /\ changes < HeadlessMaxChanges
    /\ Len(wire) < MaxWire
    /\ headlessServer' = next
    /\ wire' = HeadlessSend(next, wire)
    /\ changes' = changes + 1
    /\ UNCHANGED <<connected, rec, headlessBatch, holder, mpv, raced, drops, switches>>

ServerPlays ==
    \E t \in HeadlessTracks :
        HeadlessPublish([headlessServer EXCEPT !.track = t, !.playing = TRUE, !.epoch = @ + 1])
ServerStops == HeadlessPublish([headlessServer EXCEPT !.track = HeadlessNone, !.playing = FALSE, !.epoch = @ + 1])
ServerToggles == headlessServer.track # HeadlessNone /\ HeadlessPublish([headlessServer EXCEPT !.playing = ~@])
ServerSeeks == headlessServer.track # HeadlessNone /\ HeadlessPublish([headlessServer EXCEPT !.epoch = @ + 1])
ServerSwitches == HeadlessPublish([headlessServer EXCEPT !.active = ~@])

ServerRestart ==
    /\ drops < MaxDrops
    /\ drops' = drops + 1
    /\ \E r \in {headlessServer.revision, headlessServer.revision - 1} \cap Nat :
          headlessServer' = [headlessServer EXCEPT !.revision = r, !.playing = FALSE, !.active = FALSE]
    /\ connected' = FALSE
    /\ wire' = <<>>
    /\ UNCHANGED <<rec, headlessBatch, holder, mpv, raced, changes, switches>>

ConnectionLost ==
    /\ connected
    /\ drops < MaxDrops
    /\ drops' = drops + 1
    /\ connected' = FALSE
    /\ wire' = <<>>
    /\ UNCHANGED <<headlessServer, rec, headlessBatch, holder, mpv, raced, changes, switches>>
----------------------------------------------------------------------------
(* The reconciler.  Each operator gives the new reconciler and its commands. *)

Gate(r) == r.localOn /\ (~RespectConsole \/ r.state.active)

HeadlessAudible(r) == r.known /\ Gate(r) /\ r.state.track # HeadlessNone /\ r.state.playing

\* Mutant of Silence: a switched-off output is left playing.
MutantLeftPlaying(r) ==
    [rec |-> [r EXCEPT !.loaded = IF r.state.track = HeadlessNone THEN HeadlessNone ELSE @],
     commands |-> IF r.state.track = HeadlessNone THEN <<[op |-> "Stop"]>>
                  ELSE IF Gate(r) THEN <<[op |-> "SetPaused", paused |-> TRUE]>> ELSE <<>>]

\* reconcile, nothing to play: a vanished track is unloaded, any other is paused.
Silence(r) ==
    IF r.state.track = HeadlessNone
    THEN [rec |-> [r EXCEPT !.loaded = HeadlessNone], commands |-> <<[op |-> "Stop"]>>]
    ELSE [rec |-> r, commands |-> <<[op |-> "SetPaused", paused |-> TRUE]>>]

\* reconcile, something to play: load another track, or seek only for a new epoch.
Follow(r) ==
    LET s == r.state IN
    [rec |-> [r EXCEPT !.loaded = s.track, !.lastEpoch = s.epoch, !.hasEpoch = TRUE],
     commands |->
        IF r.loaded # s.track
        THEN <<[op |-> "Load", track |-> s.track, epoch |-> s.epoch]>>
        ELSE IF r.hasEpoch /\ r.lastEpoch # s.epoch
        THEN <<[op |-> "SeekAbsolute", epoch |-> s.epoch], [op |-> "SetPaused", paused |-> FALSE]>>
        ELSE <<[op |-> "SetPaused", paused |-> FALSE]>>]

\* Reconciler::reconcile
HeadlessReconcile(r) ==
    IF ~r.known THEN [rec |-> r, commands |-> <<>>]
    ELSE IF HeadlessAudible(r) THEN Follow(r) ELSE Silence(r)

\* Reconciler::on_state: stale only against this connection's own states.
Accepts(r, s) == ~(r.gate /\ r.known /\ s.revision < r.state.revision)
----------------------------------------------------------------------------
(* The tasks of the appliance. *)

HeadlessIdle(t) == headlessBatch[t] = <<>> /\ holder # t

\* run_connection: connected, begin_connection, and the server's snapshot.
Connect ==
    /\ ~connected
    /\ HeadlessIdle("websocket")
    /\ connected' = TRUE
    /\ wire' = <<headlessServer>>
    /\ rec' = [rec EXCEPT !.gate = FALSE]
    /\ UNCHANGED <<headlessServer, headlessBatch, holder, mpv, raced, changes, drops, switches>>

\* handle_message and apply_state up to the release of the reconciler's lock.
HeadlessApplyState ==
    /\ connected
    /\ wire # <<>>
    /\ HeadlessIdle("websocket")
    /\ wire' = Tail(wire)
    /\ IF Accepts(rec, Head(wire))
       THEN LET out == HeadlessReconcile([rec EXCEPT !.state = Head(wire), !.known = TRUE,
                                                     !.gate = TRUE])
            IN rec' = out.rec /\ headlessBatch' = [headlessBatch EXCEPT !["websocket"] = out.commands]
       ELSE UNCHANGED <<rec, headlessBatch>>
    /\ raced' = (raced \/ ~HeadlessIdle("control"))
    /\ UNCHANGED <<headlessServer, connected, holder, mpv, changes, drops, switches>>

\* update_control and set_local, up to the release of the reconciler's lock.
SetLocal ==
    /\ ControlPort
    /\ HeadlessIdle("control")
    /\ switches < MaxSwitches
    /\ switches' = switches + 1
    /\ \E on \in BOOLEAN :
          LET out == HeadlessReconcile([rec EXCEPT !.localOn = on])
          IN rec' = out.rec /\ headlessBatch' = [headlessBatch EXCEPT !["control"] = out.commands]
    /\ raced' = (raced \/ ~HeadlessIdle("websocket"))
    /\ UNCHANGED <<headlessServer, wire, connected, holder, mpv, changes, drops>>

\* MpvPlayer::execute takes the lock of the connection for the whole batch.
TakePlayer(t) ==
    /\ headlessBatch[t] # <<>>
    /\ holder = HeadlessNone
    /\ holder' = t
    /\ UNCHANGED <<headlessServer, wire, connected, rec, headlessBatch, mpv, raced, changes, drops, switches>>

\* What mpv makes of a command: a load also clears the pause.
Executed(m, c) ==
    CASE c.op = "Load"         -> [track |-> c.track, epoch |-> c.epoch, paused |-> FALSE]
      [] c.op = "SeekAbsolute" -> [m EXCEPT !.epoch = c.epoch]
      [] c.op = "SetPaused"    -> [m EXCEPT !.paused = c.paused]
      [] c.op = "Stop"         -> [m EXCEPT !.track = HeadlessNone, !.epoch = 0]

ExecuteCommand(t) ==
    /\ holder = t
    /\ headlessBatch[t] # <<>>
    /\ mpv' = Executed(mpv, Head(headlessBatch[t]))
    /\ headlessBatch' = [headlessBatch EXCEPT ![t] = Tail(@)]
    /\ holder' = IF Tail(headlessBatch[t]) = <<>> THEN HeadlessNone ELSE t
    /\ UNCHANGED <<headlessServer, wire, connected, rec, raced, changes, drops, switches>>

\* A command fails in the control task: the rest is dropped, the caller gets
\* 503, and the appliance goes on.
ControlCommandFails ==
    /\ MpvMayFail
    /\ holder = "control"
    /\ headlessBatch' = [headlessBatch EXCEPT !["control"] = <<>>]
    /\ holder' = HeadlessNone
    /\ raced' = TRUE
    /\ UNCHANGED <<headlessServer, wire, connected, rec, mpv, changes, drops, switches>>

\* A command fails in the websocket task, or mpv is found dead: the appliance
\* exits and the service manager starts it anew.
ApplianceRestarts ==
    /\ MpvMayFail
    /\ drops < MaxDrops
    /\ drops' = drops + 1
    /\ connected' = FALSE
    /\ wire' = <<>>
    /\ rec' = FreshReconciler
    /\ headlessBatch' = [t \in HeadlessTasks |-> <<>>]
    /\ holder' = HeadlessNone
    /\ mpv' = IdleMpv
    /\ raced' = FALSE
    /\ UNCHANGED <<headlessServer, changes, switches>>
----------------------------------------------------------------------------
HeadlessInit ==
    /\ headlessServer = NoState
    /\ wire = <<>>
    /\ connected = FALSE
    /\ rec = FreshReconciler
    /\ headlessBatch = [t \in HeadlessTasks |-> <<>>]
    /\ holder = HeadlessNone
    /\ mpv = IdleMpv
    /\ raced = FALSE
    /\ changes = 0 /\ drops = 0 /\ switches = 0

ServerStep == ServerPlays \/ ServerStops \/ ServerToggles \/ ServerSeeks \/ ServerSwitches

TaskStep(t) == TakePlayer(t) \/ ExecuteCommand(t)

HeadlessNext ==
    \/ ServerStep \/ ServerRestart \/ ConnectionLost
    \/ Connect \/ HeadlessApplyState \/ SetLocal
    \/ \E t \in HeadlessTasks : TaskStep(t)
    \/ ControlCommandFails \/ ApplianceRestarts

HeadlessSpec == HeadlessInit /\ [][HeadlessNext]_headlessVars

(* The tasks run; a lost connection is opened again after RECONNECT_DELAY. *)
HeadlessFairness ==
    /\ WF_headlessVars(Connect)
    /\ WF_headlessVars(HeadlessApplyState)
    /\ \A t \in HeadlessTasks : WF_headlessVars(TaskStep(t))

HeadlessFairSpec == HeadlessSpec /\ HeadlessFairness
----------------------------------------------------------------------------
HeadlessTypeOK ==
    /\ headlessServer \in PlayerState
    /\ wire \in Seq(PlayerState)
    /\ connected \in BOOLEAN
    /\ rec.state \in PlayerState
    /\ rec.loaded \in HeadlessTracks \cup {HeadlessNone}
    /\ {rec.known, rec.gate, rec.localOn, rec.hasEpoch} \subseteq BOOLEAN
    /\ headlessBatch \in [HeadlessTasks -> Seq(Command)]
    /\ holder \in HeadlessTasks \cup {HeadlessNone}
    /\ mpv.track \in HeadlessTracks \cup {HeadlessNone}
    /\ mpv.paused \in BOOLEAN
    /\ raced \in BOOLEAN

HeadlessSettled == \A t \in HeadlessTasks : HeadlessIdle(t)

(***************************************************************************)
(* clients/README.md, "Deciding what to play": an output that is on plays  *)
(* the track of the last accepted state, from the position of its epoch.   *)
(* Both hold whatever was skipped, paused or sought while it was off, on   *)
(* every connection and after every restart of server or appliance.        *)
(***************************************************************************)
PlaysWhatItShould ==
    (HeadlessSettled /\ HeadlessAudible(rec)) =>
        /\ mpv.track = rec.state.track
        /\ mpv.epoch = rec.state.epoch
        /\ ~mpv.paused

(***************************************************************************)
(* clients/README.md, "Otherwise pause": an output that is off, or has     *)
(* nothing to play, is silent as soon as no command is under way.          *)
(***************************************************************************)
SilentWhenOff ==
    (HeadlessSettled /\ rec.known /\ ~HeadlessAudible(rec)) => mpv.track = HeadlessNone \/ mpv.paused

(***************************************************************************)
(* The output is right, with the local switch (POST /control) too: as long *)
(* as no two batches overlap and none of the control endpoint's fails, an  *)
(* output that was switched off plays on with the track and the epoch it   *)
(* would have had, and is silent while it is off.  Excepted are two        *)
(* batches computed one after the other and run in the other order         *)
(* (apply_state and set_local, runtime.rs:85 and :93).                     *)
(***************************************************************************)
OutputIsRight == ~raced => PlaysWhatItShould /\ SilentWhenOff

=============================================================================
