----------------------------- MODULE MCOutputs -----------------------------
(***************************************************************************)
(* What listens to the owner of playback: the headless output, a browser's *)
(* engine, the outputs of one room at the end of a track, and the sockets. *)
(* They share no state, so each behaviour moves one of them, its part.     *)
(***************************************************************************)
EXTENDS HeadlessOutput, BrowserEngine, EndOfTrack, RemoteSession, TLC

CONSTANT Parts
VARIABLE part

MCTracks == 1..3
MCAmbients == {1, 2}
MCInterrupts == {<<3>>}
MCPlaylists == {<<1, 2, 3>>, <<1, 2, 1>>}
MCSymmetry == Permutations(Sockets)

Headless == part = "headless" /\ HeadlessNext /\ UNCHANGED <<engineVars, eotVars, vars>>
\* Until a gesture resumes the audio context, little happens.
Engine ==
  /\ part = "engine" /\ EngineNext
  /\ engine'.context = "suspended" => engineLanes'.epoch <= 1
  /\ UNCHANGED <<headlessVars, eotVars, vars>>
Ends == part = "ends" /\ EotNext /\ UNCHANGED <<headlessVars, engineVars, vars>>
\* Two sockets that register; one that acts and is revoked; one beside a REST handler and events.
OneSocket == \E s \in Sockets : sock'[s].r = "closed"
Unmoved == valid' /\ \A s \in Sockets : sock'[s].doing # "act" /\ sock'[s].age = 0
Socket ==
  /\ Next
  /\ \/ part = "sockets" /\ Unmoved /\ hand' = hand /\ events' = 0 /\ used'.changes = 0
     \/ part = "session" /\ OneSocket /\ hand' = hand /\ events' = 0
     \/ part = "device" /\ OneSocket /\ Unmoved /\ used'.changes = 0
  /\ UNCHANGED <<headlessVars, engineVars, eotVars>>

MCInit ==
  /\ part \in Parts
  /\ HeadlessInit /\ EngineInit /\ EotInit /\ Init
  /\ part # "engine" => engineServer.active /\ engineServer.crossfade
  /\ part # "ends" => eotLanes.loop = "off" /\ eotLanes.queue = <<2, 3>>
  /\ part # "device" => device = RemoteNone
MCNext == (Headless \/ Engine \/ Ends \/ Socket) /\ UNCHANGED part
MCSpec == MCInit /\ [][MCNext]_<<headlessVars, engineVars, eotVars, vars, part>>
============================================================================
