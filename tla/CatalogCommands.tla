-------------------------- MODULE CatalogCommands --------------------------
(***************************************************************************)
(* Playback requests that name tracks, modes, presets, soundboards or cues *)
(* (music-application playback/catalog_commands.rs), between three owners  *)
(* that change beside them: the library coordinator, the mode coordinator  *)
(* and the playback owner, whose copy of both catalogs has a generation.   *)
(*                                                                         *)
(* A request reads the playback state, the mode catalog and the library at *)
(* different moments and is served under the generation it names; the      *)
(* owner refuses another generation and the request is resolved once more. *)
(***************************************************************************)
EXTENDS Naturals, Sequences, FiniteSets

CONSTANTS
    CatalogClients,
    CatalogRequests,    \* [kind, id]: what a client may ask for
    CatalogTracks,
    FirstRows,   \* the tracks indexed at the start; the others are found later
    Folder,      \* the tracks of the one folder
    CatalogPlaylist,    \* the tracks of the one playlist
    CatalogModeCatalogs,\* possible mode catalogs: [mode -> [presets, boards, cues]]
    FirstModes,
    CatalogNone,        \* no mode, no soundboard
    MaxCommits,  \* bound on commits of the library
    MaxReloads,  \* bound on new mode catalogs
    BatchesFail, \* a batch of commits may stop before its catalog is published
    Persistent   \* clients ask again until they are told something else than "changed"

CatalogKinds == {"mode", "board", "preset", "track", "sfx", "cue", "folder", "playlist"}

ASSUME CatalogCommandsAssumption ==
    /\ \A r \in CatalogRequests : r.kind \in CatalogKinds
    /\ FirstModes \in CatalogModeCatalogs
    /\ FirstRows \subseteq CatalogTracks /\ Folder \subseteq CatalogTracks
    /\ CatalogPlaylist \subseteq FirstRows   \* an item refers to a track of the index
    /\ MaxCommits \in Nat /\ MaxReloads \in Nat
    /\ BatchesFail \in BOOLEAN /\ Persistent \in BOOLEAN

Attempts == 2

VARIABLES
    catalogRows,    \* the tracks of the index
    fresh,   \* tracks that have not been found yet: an id is never used again
    libGen,  \* library_state.generation
    status,  \* the generation in the coordinator's status
    lib,     \* the library owner: "idle", "single", "published", "batch"
    snap,    \* the mode coordinator's snapshot: [gen, modes]
    loading, \* the mode catalog published and not yet in the snapshot, or None
    actor,   \* the playback owner's catalog: [lib, gen, tracks, modes]
    play,    \* the playback state: [mode, presets, fade, board, queue]
    client   \* [pc, req, attempt, mode, modes, gen, lib, cmd, said]

catalogVars == <<catalogRows, fresh, libGen, status, lib, snap, loading, actor, play, client>>
catalogLibrary == <<catalogRows, fresh, libGen, status, lib>>
catalogModes == <<snap, loading>>

-----------------------------------------------------------------------------
NoReq == [kind |-> "none", id |-> CatalogNone]
NoModes == [gen |-> 0, modes |-> <<>>]
CatalogIdle == [pc |-> "idle", req |-> NoReq, attempt |-> 0, mode |-> CatalogNone, modes |-> NoModes, lib |-> 0,
                cmd |-> <<>>, said |-> "nothing"]

\* The mode of that name in a catalog, or one with nothing in it.
ModeIn(catalog, m) ==
    IF m \in DOMAIN catalog THEN catalog[m] ELSE [presets |-> <<>>, boards |-> {}, cues |-> <<>>]
\* set_active_presets' crossfade: what the preset sets, or nothing.
FadeOf(mode, p) == IF p \in DOMAIN mode.presets THEN mode.presets[p] ELSE 0

\* resolve_simple and resolve_cue: the command of a request, or <<>> when it names what is not there.
Resolution(req, m, catalog, tracks) ==
    LET mode == ModeIn(catalog, m)
    IN  CASE req.kind = "mode" -> IF req.id \in DOMAIN catalog THEN <<[kind |-> "mode", id |-> req.id]>> ELSE <<>>
          [] req.kind = "board" -> IF req.id \in mode.boards THEN <<[kind |-> "board", id |-> req.id]>> ELSE <<>>
          [] req.kind = "preset" ->
               IF req.id \in DOMAIN mode.presets
               THEN <<[kind |-> "preset", id |-> req.id, fade |-> FadeOf(mode, req.id)]>> ELSE <<>>
          [] req.kind = "track" -> <<[kind |-> "tracks", tracks |-> {req.id}]>>
          [] req.kind = "sfx" -> IF req.id \in mode.boards THEN <<[kind |-> "sfx", id |-> req.id]>> ELSE <<>>
          [] req.kind = "cue" ->
               IF req.id \in DOMAIN mode.cues /\ mode.cues[req.id] \in DOMAIN mode.presets /\ tracks # {}
               THEN <<[kind |-> "cue", id |-> req.id, mode |-> m, preset |-> mode.cues[req.id],
                       fade |-> FadeOf(mode, mode.cues[req.id]), tracks |-> tracks]>>
               ELSE <<>>
          [] req.kind \in {"folder", "playlist"} ->
               IF tracks # {} THEN <<[kind |-> "tracks", tracks |-> tracks]>> ELSE <<>>

\* catalog_references_valid
Valid(cmd) ==
    LET mode == ModeIn(actor.modes, play.mode)
    IN  CASE cmd.kind = "mode" -> cmd.id \in DOMAIN actor.modes
          [] cmd.kind \in {"board", "sfx"} -> cmd.id \in mode.boards
          [] cmd.kind = "preset" -> cmd.id \in DOMAIN mode.presets
          [] cmd.kind = "tracks" -> cmd.tracks \subseteq actor.tracks
          [] cmd.kind = "cue" -> /\ cmd.mode = play.mode
                                 /\ cmd.id \in DOMAIN mode.cues /\ cmd.preset \in DOMAIN mode.presets
                                 /\ cmd.tracks \subseteq actor.tracks

\* The reduction of a command.
Faded(p, fade) == [p EXCEPT !.fade = IF fade = 0 THEN @ ELSE fade]
Reduced(cmd) ==
    CASE cmd.kind = "mode" -> IF cmd.id = play.mode THEN play
                              ELSE [play EXCEPT !.mode = cmd.id, !.presets = {}, !.board = CatalogNone]
      [] cmd.kind = "board" -> [play EXCEPT !.board = cmd.id]
      [] cmd.kind = "preset" -> Faded([play EXCEPT !.presets = {cmd.id}], cmd.fade)
      [] cmd.kind = "tracks" -> [play EXCEPT !.queue = cmd.tracks]
      [] cmd.kind = "sfx" -> play
      [] cmd.kind = "cue" -> Faded([play EXCEPT !.presets = {cmd.preset}, !.queue = cmd.tracks], cmd.fade)

\* prune_for_catalog
Pruned(p, catalog) ==
    LET m == IF p.mode \in DOMAIN catalog.modes THEN p.mode ELSE CatalogNone
        mode == ModeIn(catalog.modes, m)
    IN  [p EXCEPT !.mode = m, !.queue = @ \cap catalog.tracks,
                  !.presets = @ \cap DOMAIN mode.presets,
                  !.board = IF @ \in mode.boards THEN @ ELSE CatalogNone]

-----------------------------------------------------------------------------
(* A client's request *)
Say(c, said) ==
    client' = [client EXCEPT ![c] = [CatalogIdle EXCEPT !.said = said, !.req = IF Persistent THEN client[c].req ELSE NoReq]]
\* The next attempt, or the end of them.
Again(c) ==
    IF client[c].attempt = Attempts THEN Say(c, "changed")
    ELSE client' = [client EXCEPT ![c] = [CatalogIdle EXCEPT !.pc = "begin", !.attempt = client[c].attempt + 1, !.req = client[c].req]]

CatalogAsk(c) ==
           /\ client[c].pc = "idle"
           /\ \E r \in CatalogRequests :
                 /\ Persistent => client[c].said # "changed" \/ r = client[c].req
                 /\ client' = [client EXCEPT ![c] = [CatalogIdle EXCEPT !.pc = "begin", !.attempt = 1, !.req = r]]
           /\ UNCHANGED <<catalogLibrary, catalogModes, actor, play>>

\* The first read of an attempt: the playback state, or the library's generation for a folder.
CatalogBegin(c) ==
    /\ client[c].pc = "begin"
    /\ client' = [client EXCEPT ![c].mode = play.mode, ![c].lib = status,
                  ![c].pc = IF client[c].req.kind \in {"folder", "playlist"} THEN "tracks" ELSE "modes"]
    /\ UNCHANGED <<catalogLibrary, catalogModes, actor, play>>

\* The mode catalog: simple requests and effects are resolved and stamped here, a cue goes on.
ReadModes(c) ==
    /\ client[c].pc = "modes"
    /\ LET x == Resolution(client[c].req, client[c].mode, snap.modes, {})
           cue == client[c].req.kind = "cue"
       IN  IF x = <<>> /\ ~cue THEN Say(c, "unknown")
           ELSE client' = [client EXCEPT ![c].modes = snap, ![c].lib = status, ![c].cmd = x,
                           ![c].pc = IF cue THEN "tracks" ELSE "submit"]
    /\ UNCHANGED <<catalogLibrary, catalogModes, actor, play>>

\* The index is read: the tracks of the folder or of the playlist.
ReadTracks(c) ==
    /\ client[c].pc = "tracks"
    /\ LET ts == catalogRows \cap (IF client[c].req.kind = "folder" THEN Folder ELSE CatalogPlaylist)
           x == Resolution(client[c].req, client[c].mode, client[c].modes.modes, ts)
       IN  client' = [client EXCEPT ![c].cmd = x, ![c].pc = "stamp"]
    /\ UNCHANGED <<catalogLibrary, catalogModes, actor, play>>

\* Mutant: a cue is stamped with the newest mode catalog, not with the one it was read from.
StampLatest(c) ==
    /\ client[c].pc = "stamp"
    /\ IF client[c].cmd = <<>> THEN Say(c, "unknown")
       ELSE client' = [client EXCEPT ![c].pc = "submit", ![c].lib = status, ![c].modes = snap]
    /\ UNCHANGED <<catalogLibrary, catalogModes, actor, play>>
\* The generations: a folder's must not have moved since its first read, and a cue keeps that of
\* the mode catalog it was resolved in.
Stamp(c) ==
    /\ client[c].pc = "stamp"
    /\ CASE client[c].req.kind = "folder" /\ client[c].lib # status -> Again(c)
         [] client[c].cmd = <<>> -> Say(c, "unknown")
         [] OTHER -> client' = [client EXCEPT ![c].pc = "submit", ![c].lib = status,
                                ![c].modes = IF client[c].req.kind = "cue" THEN @ ELSE snap]
    /\ UNCHANGED <<catalogLibrary, catalogModes, actor, play>>

\* validate_resolved_command
CatalogCurrent(c) == client[c].lib = actor.lib /\ client[c].modes.gen = actor.gen

\* The playback owner serves the command or refuses it, and the request takes the answer.
CatalogSubmit(c) ==
    /\ client[c].pc = "submit"
    /\ LET cmd == client[c].cmd[1]
       IN  CASE ~CatalogCurrent(c) -> Again(c) /\ UNCHANGED play
             [] CatalogCurrent(c) /\ ~Valid(cmd) ->
                  /\ \/ /\ \/ client[c].req.kind = "folder"
                           \/ client[c].req.kind \in {"mode", "board", "preset", "track"} /\ client[c].attempt < Attempts
                        /\ Again(c)
                     \/ /\ \/ client[c].req.kind \in {"playlist", "cue", "sfx"}
                           \/ client[c].req.kind \in {"mode", "board", "preset", "track"} /\ client[c].attempt = Attempts
                        /\ Say(c, "missing")
                  /\ UNCHANGED play
             [] OTHER -> play' = Reduced(cmd) /\ Say(c, "applied")
    /\ UNCHANGED <<catalogLibrary, catalogModes, actor>>

-----------------------------------------------------------------------------
(* The library coordinator *)
CatalogCommit(next) ==
    /\ libGen < MaxCommits
    /\ \E t \in catalogRows \cup fresh :
          /\ catalogRows' = IF t \in catalogRows THEN catalogRows \ {t} ELSE catalogRows \cup {t}
          /\ fresh' = fresh \ {t}
    /\ libGen' = libGen + 1
    /\ lib' = next

\* apply_mutation: committed, published to the playback owner, then shown in the status.
CommitOne ==
    /\ lib = "idle" /\ CatalogCommit("single")
    /\ UNCHANGED <<status, catalogModes, actor, play, client>>
\* A batch shows each commit in the status at once and publishes at its end.
CommitInBatch ==
    /\ lib \in {"idle", "batch"} /\ CatalogCommit("batch")
    /\ status' = libGen'
    /\ UNCHANGED <<catalogModes, actor, play, client>>

\* replace_library_catalog
PublishLibrary ==
    /\ lib \in {"single", "batch"}
    /\ actor' = [actor EXCEPT !.lib = libGen, !.tracks = catalogRows]
    /\ play' = Pruned(play, actor')
    /\ lib' = "published"
    /\ UNCHANGED <<catalogRows, fresh, libGen, status, catalogModes, client>>
ShowStatus ==
    /\ lib = "published"
    /\ status' = libGen
    /\ lib' = "idle"
    /\ UNCHANGED <<catalogRows, fresh, libGen, catalogModes, actor, play, client>>

\* apply_cleanup_once returns an error before it has published.
FailBatch ==
    /\ BatchesFail /\ lib = "batch"
    /\ lib' = "idle"
    /\ UNCHANGED <<catalogRows, fresh, libGen, status, catalogModes, actor, play, client>>

(* The mode coordinator: a new catalog goes to the playback owner, then to the snapshot. *)
PublishModes ==
    /\ loading = <<>> /\ snap.gen < MaxReloads
    /\ \E catalog \in CatalogModeCatalogs :
          /\ actor' = [actor EXCEPT !.gen = snap.gen + 1, !.modes = catalog]
          /\ play' = Pruned(play, actor')
          /\ loading' = <<[gen |-> snap.gen + 1, modes |-> catalog]>>
    /\ UNCHANGED <<catalogLibrary, snap, client>>
ShowModes ==
    /\ loading # <<>>
    /\ snap' = loading[1]
    /\ loading' = <<>>
    /\ UNCHANGED <<catalogLibrary, actor, play, client>>

-----------------------------------------------------------------------------
CatalogInit ==
    /\ catalogRows = FirstRows /\ fresh = CatalogTracks \ FirstRows /\ libGen = 0 /\ status = 0 /\ lib = "idle"
    /\ snap = [gen |-> 1, modes |-> FirstModes] /\ loading = <<>>
    /\ actor = [lib |-> 0, gen |-> 1, tracks |-> FirstRows, modes |-> FirstModes]
    /\ play = [mode |-> CatalogNone, presets |-> {}, fade |-> 0, board |-> CatalogNone, queue |-> {}]
    /\ client = [c \in CatalogClients |-> CatalogIdle]

ClientStep(c) == CatalogBegin(c) \/ ReadModes(c) \/ ReadTracks(c) \/ Stamp(c) \/ CatalogSubmit(c)
Owners == PublishLibrary \/ ShowStatus \/ ShowModes
CatalogNext ==
    \/ \E c \in CatalogClients : CatalogAsk(c) \/ ClientStep(c)
    \/ Owners
    \/ CommitOne \/ CommitInBatch \/ FailBatch \/ PublishModes

CatalogSpec == CatalogInit /\ [][CatalogNext]_catalogVars
\* Every task goes on with what it has begun, and a persistent client asks again.
CatalogLiveSpec ==
    /\ CatalogSpec
    /\ \A c \in CatalogClients : WF_catalogVars(ClientStep(c)) /\ WF_catalogVars(CatalogAsk(c) /\ client[c].said = "changed")
    /\ WF_catalogVars(PublishLibrary) /\ WF_catalogVars(ShowStatus) /\ WF_catalogVars(ShowModes)

-----------------------------------------------------------------------------
CatalogTypeOK ==
    /\ catalogRows \subseteq CatalogTracks \ fresh /\ libGen \in 0 .. MaxCommits /\ status \in 0 .. libGen
    /\ lib \in {"idle", "single", "published", "batch"}
    /\ actor.lib \in 0 .. libGen /\ actor.gen \in {snap.gen, snap.gen + 1}
    /\ \A c \in CatalogClients : client[c].attempt \in 0 .. Attempts

\* A request that is applied does what it would do had it been resolved at that very moment: what
\* it read before is not older than what the owner works with.  (A folder or a playlist may lack a
\* track that the index has just lost.  The active mode has no generation: a preset that two modes
\* have is that of the mode that was active when the request was read.)
ResolvedNow ==
    [][\A c \in CatalogClients :
         client[c].pc = "submit" /\ client'[c].said = "applied" =>
           LET cmd == client[c].cmd[1]
               kind == client[c].req.kind
           IN  IF kind \in {"folder", "playlist"}
               THEN actor.tracks \cap catalogRows \cap (IF kind = "folder" THEN Folder ELSE CatalogPlaylist) \subseteq cmd.tracks
               ELSE <<cmd>> = Resolution(client[c].req, IF kind = "preset" THEN client[c].mode ELSE play.mode, actor.modes,
                                         IF kind = "cue" THEN cmd.tracks ELSE {})]_catalogVars

\* A batch ended without its catalog: the library shows a generation the playback owner lacks.
Unpublished == lib = "idle" /\ status # actor.lib

\* A client that asks again whenever the catalogs have changed meanwhile gets an answer in the end.
\* The exception: a cleanup batch fails before its catalog is published (library/cleanup.rs:121) and
\* no later change of the library publishes one.  Requests are stamped with a generation the playback
\* owner never gets, and every one of them is told "changed" for as long as that lasts.
EventuallyAnswered ==
    \/ \A c \in CatalogClients : client[c].pc # "idle" ~> client[c].pc = "idle" /\ client[c].said # "changed"
    \/ <>[]Unpublished
=============================================================================
