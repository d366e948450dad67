----------------------------- MODULE MCLibrary -----------------------------
(***************************************************************************)
(* Small libraries for LibraryMutation and CleanupBatches, which share no  *)
(* state: each behaviour moves one of them, as its part says.              *)
(*   tracks    one track, everything that may happen to it, two deaths     *)
(*   same      a track whose copy has its own path, on two file systems    *)
(*   faults    one track, a death and a failing call                       *)
(*   folders   folders beside a track, a death and a failing call          *)
(*   uploads   uploads under every policy, beside edits of two tracks      *)
(*   copies    an upload over a track, over its streaming copy, or beside  *)
(*   shared    two tracks of one folder and one stem                       *)
(*   batches   cleanup batches of up to three operations, a death          *)
(*   reviews   batches beside a user's edits, a death and a failing call   *)
(***************************************************************************)
EXTENDS LibraryMutation, CleanupBatches

CONSTANTS Parts, d1, d2
VARIABLE part

P(d, s, e) == [dir |-> d, stem |-> s, ext |-> e]
Full(a) == [audio |-> a, form |-> "full", tag |-> 0]

OneTrack == P(d1, "s", "flac") :> Full("a")
OneCopyTrack == P(d1, "s", "m4a") :> Full("a")
TwoTracks == P(d1, "s", "flac") :> Full("a") @@ P(d1, "z", "flac") :> Full("b")
SharedStem == P(d1, "s", "flac") :> Full("a") @@ P(d1, "s", "wav") :> Full("b")
FirstOf(p) == CASE p = "same" -> OneCopyTrack [] p = "uploads" -> TwoTracks [] p = "shared" -> SharedStem [] OTHER -> OneTrack
MCLibraries == {FirstOf(p) : p \in Parts}

MoveTo(t, p) == [kind |-> "move", track |-> t, dst |-> p]
Edit(t) == [kind |-> "tags", track |-> t, tag |-> 1]
Discard(t) == [kind |-> "delete", track |-> t]
PutBack(t) == [kind |-> "restore", track |-> t]
Upload(p, policy) == [kind |-> "upload", path |-> p, policy |-> policy, audio |-> "u", spare |-> "z"]
Encoding == [kind |-> "convert"]
Scan == [kind |-> "reconcile"]
RenameTo(d, e) == [kind |-> "rename_folder", src |-> d, dst |-> e]
Make(d) == [kind |-> "create_folder", dir |-> d]
RemoveFolder(d, all) == [kind |-> "delete_folder", dir |-> d, recursive |-> all]

TrackRequests == {MoveTo(1, P(d2, "s", "m4a")), Edit(1), Discard(1), PutBack(1), Encoding, Scan}
FolderRequests ==
    {RenameTo(d1, d2), RenameTo(d2, d1), Make(d2), RemoveFolder(d1, TRUE), RemoveFolder(d1, FALSE),
     RemoveFolder(d2, TRUE), Scan, PutBack(1), Encoding, MoveTo(1, P(d2, "s", "m4a"))}
UploadRequests ==
    {Upload(P(d1, "s", "flac"), x) : x \in {"skip", "rename", "overwrite"}}
    \cup {Upload(P(d1, "s", "m4a"), "skip"), Discard(1), Edit(1)}
CopyRequests ==
    {Upload(P(d1, "s", e), "overwrite") : e \in {"flac", "m4a"}} \cup {Upload(P(d1, "s", "m4a"), "skip"), PutBack(1), Encoding}
SharedRequests == {Discard(1), Discard(2), Encoding}
MCRequests == TrackRequests \cup FolderRequests \cup UploadRequests \cup CopyRequests \cup SharedRequests

\* What is asked for, how often, and what goes wrong.
Scene(asks, batch, mutations, generations, deaths, failures, separate) ==
    [asks |-> asks, batch |-> batch, mutations |-> mutations, generations |-> generations,
     deaths |-> deaths, failures |-> failures, separate |-> separate]
Scenes == [tracks  |-> Scene(TrackRequests, 1, 3, 5, 2, 0, TRUE),
           same    |-> Scene(TrackRequests, 1, 2, 3, 1, 1, TRUE),
           faults  |-> Scene(TrackRequests, 1, 2, 3, 1, 1, FALSE),
           folders |-> Scene(FolderRequests, 1, 2, 3, 1, 1, FALSE),
           uploads |-> Scene(UploadRequests, 2, 2, 4, 1, 1, FALSE),
           copies  |-> Scene(CopyRequests, 1, 2, 3, 1, 1, FALSE),
           shared  |-> Scene(SharedRequests, 1, 2, 4, 0, 0, FALSE)]
Library ==
    /\ part \in DOMAIN Scenes
    /\ LET x == Scenes[part]
       IN  \/ Coordinator \/ Restart
           \/ /\ Len(journals) < x.mutations /\ gen < x.generations
              /\ astray = {} /\ Asked
              /\ encoded' # {} => Encoding \in x.asks
              /\ Len(todo') <= x.batch /\ \A i \in DOMAIN todo' : todo'[i].kind = "convert" \/ todo'[i] \in x.asks
           \/ crashes < x.deaths /\ Crash
           \/ faults < x.failures /\ Failed
    /\ UNCHANGED apart
    /\ UNCHANGED cleanupVars

Place(d, s, g) == [dir |-> d, stem |-> s, tag |-> g]
CleanupLibrary == 1 :> Place("d1", "s", "old") @@ 2 :> Place("d1", "z", "old")
Rename(t, a, b) == [kind |-> "rename", track |-> t, old |-> a, new |-> b]
Tag(t, a, b) == [kind |-> "tag", track |-> t, old |-> a, new |-> b]
Folder(a, b) == [kind |-> "folder", track |-> 0, old |-> a, new |-> b]
Onward == Rename(1, "y", "z")
Review == {Rename(1, "s", "y"), Rename(2, "z", "s"), Onward, Tag(1, "old", "new"), Folder("d1", "d2")}
Edits == {[track |-> 1, place |-> Place("d1", "s", "mine")], [track |-> 2, place |-> Place("d1", "y", "old")]}

Moves(os) == \A i \in DOMAIN os : os[i].kind # "tag"

Cleanup ==
    /\ CleanupNext
    /\ \/ part = "batches" /\ cleanupFaults' = 0 /\ cleanupEdits' = 0 /\ (cmd = NoCmd /\ cmd'.kind = "apply" => Moves(cmd'.todo))
       \/ /\ part = "reviews" /\ Len(cleanupJournals') <= 3
          /\ cleanupEdits' + cleanupFaults' + cleanupCrashes' <= 2
          /\ cmd = NoCmd /\ cmd' # NoCmd => Len(cmd'.todo) <= 2 /\ \A i \in DOMAIN cmd'.todo : cmd'.todo[i] # Onward
    /\ cleanupEarly => cleanupEdits' = cleanupEdits /\ (cmd = NoCmd /\ cleanupProc = "up" => cmd' = NoCmd)
    /\ UNCHANGED vars

MCInit ==
    /\ part \in Parts
    /\ Init /\ CleanupInit
    /\ files.lib = FirstOf(part) /\ apart = (part \in DOMAIN Scenes /\ Scenes[part].separate)
MCNext == (Library \/ Cleanup) /\ UNCHANGED part
\* The coordinator runs what it has begun, and a dead or refused server is started again.
MCFairness ==
    /\ WF_vars(part \in DOMAIN Scenes /\ Coordinator /\ UNCHANGED apart)
    /\ WF_vars(part \in DOMAIN Scenes /\ Restart /\ UNCHANGED apart)
    /\ WF_cleanupVars(part \in {"batches", "reviews"} /\ CleanupCoordinator)
    /\ WF_cleanupVars(part \in {"batches", "reviews"} /\ CleanupRestart)
MCSpec == MCInit /\ [][MCNext]_<<vars, cleanupVars, part>> /\ MCFairness

\* Every command ends and a dead server comes up again, whatever step it died at, unless a command
\* was served for what a failed one still had to finish: its journal may then refuse every later
\* start (library.rs:1664, cleanup.rs:407; see ComesUp and CleanupComesUp).
ServesAgain == ComesUp /\ CleanupComesUp
============================================================================
