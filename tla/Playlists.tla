------------------------------ MODULE Playlists -----------------------------
(***************************************************************************)
(* One playlist of the server, the library it is drawn from, and the       *)
(* browsers that edit it (music-storage and music-application              *)
(* playlists.rs, frontend PlaylistsView.tsx, AutomaticPlaylistEditor.tsx). *)
(*                                                                         *)
(* Every query names one playlist id, so playlists are independent and one *)
(* is modelled, through its deletion and the reuse of its id by the next   *)
(* one.  A write holds the write gate for its whole transaction: it is one *)
(* action.  A request of several transactions is one action for each.      *)
(* Name, mode and category, which no other column depends on, are left     *)
(* out.                                                                    *)
(***************************************************************************)
EXTENDS AutomaticRules

CONSTANTS
    PlaylistNone, Unreadable,      \* an absent value, and a stored rule that cannot be read
    PlaylistPaths, Bpm(_), PlaylistTags,   \* files, the bpm in each, the tags operators give
    Rules,                 \* the rules operators enter
    Broken,                \* whether the stored rule may be unreadable at first
    MaxItems,              \* MAX_PLAYLIST_ITEMS
    PlaylistClients,
    PlaylistOps,                   \* what happens: a subset of AllOps
    MaxScans, PlaylistMaxTagEdits, PlaylistMaxEdits, MaxLoads, MaxFailures

PlaylistAllOps == {"add", "remove", "move", "create", "delete", "rule", "manual", "refresh", "insert"}

ASSUME PlaylistPlaylistsAssumption ==
    /\ PlaylistPaths \subseteq Nat /\ IsFiniteSet(PlaylistPaths)
    /\ \A p \in PlaylistPaths : Bpm(p) \in Nat
    /\ \A r \in Rules : Normal(r)
    /\ Broken \in BOOLEAN /\ PlaylistOps \subseteq PlaylistAllOps
    /\ MaxItems \in Nat /\ MaxScans \in Nat /\ PlaylistMaxTagEdits \in Nat
    /\ PlaylistMaxEdits \in Nat /\ MaxLoads \in Nat /\ MaxFailures \in Nat

VARIABLES
    tracks,    \* the tracks table: [id -> row]
    gone,      \* history: the ids and paths of the rows that scans have removed
    returned,  \* history: a file has come back under the id it had
    scans, tagEdits, playlistEdits, failures,
    playlist,  \* None, or its [rule, signature]
    items,     \* its rows in playlist_items: [position -> track id]
    loads,     \* reads of its items under way
    loaded,    \* reads begun
    view,      \* what each browser shows and is doing with it; late: see EditsWhatWasShown
    editor     \* each browser's rule editor

playlistVars == <<tracks, gone, returned, scans, tagEdits, playlistEdits, failures, playlist, items, loads, loaded, view, editor>>
playlistLibrary == <<tracks, gone, returned, scans, tagEdits>>

Ids == 1..(Cardinality(PlaylistPaths) * (MaxScans + 1))
MaxOf(S) == IF S = {} THEN 0 ELSE CHOOSE i \in S : \A j \in S : j <= i

\* ordered_track_ids: the rows' tracks in the order of their positions.
OrderedTrackIds == LET at == SetToSortSeq(DOMAIN items, <) IN [i \in 1..Len(at) |-> items[at[i]]]

\* replace_items, and a list whose positions start again at 0.
Packed(ids) == [p \in 0..(Len(ids) - 1) |-> ids[p + 1]]

PlaylistInserted(n, paths, lib) ==   \* rows for new files, in the order of their paths
  LET new == SetToSortSeq(paths, <)
      first == MaxOf(DOMAIN lib) IN
  [i \in (first + 1)..(first + Len(new)) |->
     [path |-> new[i - first], bpm |-> Bpm(new[i - first]), tags |-> {}, added |-> n]]

IsAutomatic == playlist # PlaylistNone /\ playlist.rule # PlaylistNone
Manual == [rule |-> PlaylistNone, signature |-> PlaylistNone]
HasRule == IsAutomatic /\ playlist.rule # Unreadable
PlaylistIdle == [op |-> PlaylistNone, at |-> 0, to |-> 0, shown |-> 0]

PlaylistInit ==
  /\ tracks = PlaylistInserted(0, PlaylistPaths, <<>>) /\ gone = {} /\ returned = FALSE
  /\ scans = 0 /\ tagEdits = 0 /\ playlistEdits = 0 /\ failures = 0
  /\ playlist \in {Manual} \cup IF Broken THEN {[rule |-> Unreadable, signature |-> PlaylistNone]} ELSE {}
  /\ items = Packed(SetToSortSeq(DOMAIN tracks, <))
  /\ loads = {} /\ loaded = 0
  /\ view = [c \in PlaylistClients |-> [rows |-> OrderedTrackIds, mutating |-> FALSE, call |-> PlaylistIdle, late |-> FALSE]]
  /\ editor = [c \in PlaylistClients |-> [rule |-> PlaylistNone, preview |-> PlaylistNone, calls |-> {}, save |-> PlaylistNone]]

-----------------------------------------------------------------------------
(* The library.                                                            *)

\* A scan's reconciliation: new files are inserted, with ids above the largest one in
\* the table, then missing ones deleted; their playlist rows and tags go with them.
PlaylistReconcile(found) ==
  /\ scans < MaxScans /\ scans' = scans + 1
  /\ LET known == {tracks[i].path : i \in DOMAIN tracks}
         all == tracks @@ PlaylistInserted(scans + 1, found \ known, tracks)
         kept == {i \in DOMAIN all : all[i].path \in found}
         rowsOf(is) == {<<i, all[i].path>> : i \in is} IN
     /\ tracks' = [i \in kept |-> all[i]]
     /\ items' = [p \in {q \in DOMAIN items : items[q] \in kept} |-> items[p]]
     /\ gone' = gone \cup rowsOf(DOMAIN tracks \ kept)
     /\ returned' = (returned \/ rowsOf(kept \ DOMAIN tracks) \cap gone # {})
  /\ UNCHANGED <<tagEdits, playlistEdits, failures, playlist, loads, loaded, view, editor>>

\* An operator accepts a tag for a track, or takes it off.
EditTag(i, tag) ==
  /\ tagEdits < PlaylistMaxTagEdits /\ tagEdits' = tagEdits + 1
  /\ i \in DOMAIN tracks
  /\ tracks' = [tracks EXCEPT ![i].tags = IF tag \in @ THEN @ \ {tag} ELSE @ \cup {tag}]
  /\ UNCHANGED <<gone, returned, scans, playlistEdits, failures, playlist, items, loads, loaded, view, editor>>

-----------------------------------------------------------------------------
(* Reading the items: PlaylistService::items, which a browser's refetch, an *)
(* export and the playback commands all call.                              *)

\* "reader" is the browser the rows are for; "waits" says that its edit waits for them.
NewLoad(c, waits) ==
  [n |-> loaded + 1, reader |-> c, waits |-> waits, step |-> "get", rule |-> PlaylistNone,
   tries |-> 2, rows |-> <<>>]

StartLoad(c, waits) == loads' = loads \cup {NewLoad(c, waits)} /\ loaded' = loaded + 1
PlaylistStep(l, new) == loads' = (loads \ {l}) \cup {new}

\* A browser opens the playlist: an empty list, and the answers of the page that was open
\* before go nowhere.  A page is left only when its edit has been answered.
PlaylistOpen(c) ==
  /\ loaded < MaxLoads
  /\ view[c].call = PlaylistIdle
  /\ loads' = {l \in loads : l.reader # c} \cup {NewLoad(c, FALSE)} /\ loaded' = loaded + 1
  /\ view' = [view EXCEPT ![c].rows = <<>>, ![c].mutating = FALSE, ![c].late = FALSE]
  /\ UNCHANGED <<playlistLibrary, playlistEdits, failures, playlist, items, editor>>

\* The playlist is exported, or played by a catalog command.
Play ==
  /\ loaded < MaxLoads
  /\ StartLoad(PlaylistNone, FALSE)
  /\ UNCHANGED <<playlistLibrary, playlistEdits, failures, playlist, items, view, editor>>

\* get: a rule that cannot be read leaves the rows as they are.
GetPlaylist(l) ==
  /\ l.step = "get"
  /\ PlaylistStep(l, CASE playlist = PlaylistNone -> [l EXCEPT !.step = "failed"]
               [] HasRule -> [l EXCEPT !.step = "materialize", !.rule = playlist.rule]
               [] OTHER -> [l EXCEPT !.step = "items"])
  /\ UNCHANGED <<playlistLibrary, playlistEdits, failures, playlist, items, loaded, view, editor>>

\* Mutant: a rule that matches nothing leaves the old rows.
MaterializeKeepsRows(rule) ==
  /\ items' = IF Resolve(rule, tracks) = <<>> THEN items ELSE Packed(Resolve(rule, tracks))
  /\ playlist' = [rule |-> rule, signature |-> PlaylistSignature(rule, tracks)]

\* What materialize_automatic writes.
Materialize(rule) ==
  /\ items' = Packed(Resolve(rule, tracks))
  /\ playlist' = [rule |-> rule, signature |-> PlaylistSignature(rule, tracks)]

\* materialize_automatic without a preview and without force.
MaterializeLoad(l) ==
  /\ l.step = "materialize"
  /\ CASE playlist = PlaylistNone ->
            PlaylistStep(l, [l EXCEPT !.step = "failed"]) /\ UNCHANGED <<playlist, items>>
       [] playlist # PlaylistNone /\ playlist.rule # l.rule ->   \* RuleChanged: once more, then as it is
            /\ PlaylistStep(l, [l EXCEPT !.tries = @ - 1, !.rule = PlaylistNone,
                                         !.step = IF l.tries > 1 THEN "get" ELSE "items"])
            /\ UNCHANGED <<playlist, items>>
       [] OTHER ->
            /\ IF playlist.signature = PlaylistSignature(l.rule, tracks)
               THEN UNCHANGED <<playlist, items>>         \* Unchanged
               ELSE Materialize(l.rule)
            /\ PlaylistStep(l, [l EXCEPT !.step = "items"])
  /\ UNCHANGED <<playlistLibrary, playlistEdits, failures, loaded, view, editor>>

\* repository.items: the rows are repacked and returned.
ReadItems(l) ==
  /\ l.step = "items"
  /\ IF playlist = PlaylistNone
     THEN PlaylistStep(l, [l EXCEPT !.step = "failed"]) /\ UNCHANGED items
     ELSE /\ items' = Packed(OrderedTrackIds)
          /\ PlaylistStep(l, [l EXCEPT !.step = "answer", !.rows = OrderedTrackIds])
  /\ UNCHANGED <<playlistLibrary, playlistEdits, failures, playlist, loaded, view, editor>>

\* refreshTracks: the answer that arrives last is what is shown.
Show(l) ==
  /\ l.step = "answer"
  /\ loads' = loads \ {l}
  /\ view' = [c \in PlaylistClients |->
       IF c # l.reader THEN view[c]
       ELSE [view[c] EXCEPT !.rows = l.rows, !.mutating = @ /\ ~l.waits]]
  /\ UNCHANGED <<playlistLibrary, playlistEdits, failures, playlist, items, loaded, editor>>

\* refreshTracks catches its own failure: the old rows stay, the buttons come back.
LoadFails(l) ==
  /\ \/ l.step = "failed" /\ UNCHANGED failures
     \/ l.step = "answer" /\ failures < MaxFailures /\ failures' = failures + 1
  /\ loads' = loads \ {l}
  /\ view' = [c \in PlaylistClients |->
       IF c # l.reader THEN view[c] ELSE [view[c] EXCEPT !.mutating = @ /\ ~l.waits, !.late = TRUE]]
  /\ UNCHANGED <<playlistLibrary, playlistEdits, playlist, items, loaded, editor>>

-----------------------------------------------------------------------------
(* Editing the items by position.                                          *)

Editable == playlist # PlaylistNone /\ ~IsAutomatic

Counted == playlistEdits < PlaylistMaxEdits /\ playlistEdits' = playlistEdits + 1

\* The browser's removeAt and moveTo, while no other one of its own is under way.
SendRemove(c, i) ==
  /\ "remove" \in PlaylistOps /\ Counted
  /\ ~view[c].mutating /\ i \in DOMAIN view[c].rows
  /\ view' = [view EXCEPT ![c].mutating = TRUE,
                          ![c].call = [op |-> "remove", at |-> i, to |-> i, shown |-> view[c].rows[i]]]
  /\ UNCHANGED <<playlistLibrary, failures, playlist, items, loads, loaded, editor>>

SendMove(c, i, j) ==
  /\ "move" \in PlaylistOps /\ Counted
  /\ ~view[c].mutating /\ {i, j} \subseteq DOMAIN view[c].rows /\ j \in {i - 1, i + 1}
  /\ view' = [view EXCEPT ![c].mutating = TRUE,
                          ![c].call = [op |-> "move", at |-> i, to |-> j, shown |-> view[c].rows[i]]]
  /\ UNCHANGED <<playlistLibrary, failures, playlist, items, loads, loaded, editor>>

\* mutate_items refuses: no playlist, an automatic one, or a position past the end.
Mutates(call) == Editable /\ {call.at, call.to} \subseteq 1..Len(OrderedTrackIds)

PlaylistEdited(ids, call) ==
  IF call.op = "remove" THEN RemoveAt(ids, call.at)
  ELSE InsertAt(RemoveAt(ids, call.at), call.to, ids[call.at])

\* remove_track and move_track.  When the request is refused or its answer is lost the
\* browser stops waiting and does not fetch the list again.
ServeMutation(c) ==
  /\ view[c].call # PlaylistIdle
  /\ \/ /\ Mutates(view[c].call)
        /\ items' = Packed(PlaylistEdited(OrderedTrackIds, view[c].call))
        /\ \/ /\ StartLoad(c, TRUE) /\ view' = [view EXCEPT ![c].call = PlaylistIdle]
              /\ UNCHANGED failures
           \/ /\ failures < MaxFailures /\ failures' = failures + 1
              /\ view' = [view EXCEPT ![c].call = PlaylistIdle, ![c].mutating = FALSE, ![c].late = TRUE]
              /\ UNCHANGED <<loads, loaded>>
     \/ /\ ~Mutates(view[c].call)
        /\ view' = [view EXCEPT ![c].call = PlaylistIdle, ![c].mutating = FALSE]
        /\ UNCHANGED <<failures, items, loads, loaded>>
  /\ UNCHANGED <<playlistLibrary, playlistEdits, playlist, editor>>

\* add_track: at a position, or at the end; the browser always appends, and fetches the
\* list again without waiting for its other edits.
Insertable(i, at) ==
  /\ Editable /\ i \in DOMAIN tracks
  /\ Cardinality(DOMAIN items) < MaxItems
  /\ at \in 1..(Cardinality(DOMAIN items) + 1)

AddTrack(c, i) ==
  /\ "add" \in PlaylistOps /\ Counted
  /\ Insertable(i, Cardinality(DOMAIN items) + 1)
  /\ items' = Packed(Append(OrderedTrackIds, i))
  /\ StartLoad(c, FALSE)
  /\ view' = [view EXCEPT ![c].late = TRUE]
  /\ UNCHANGED <<playlistLibrary, failures, playlist, editor>>

InsertTrack(i, at) ==
  /\ "insert" \in PlaylistOps /\ Counted
  /\ Insertable(i, at)
  /\ items' = Packed(InsertAt(OrderedTrackIds, at, i))
  /\ UNCHANGED <<playlistLibrary, failures, playlist, loads, loaded, view, editor>>

-----------------------------------------------------------------------------
(* The playlist and its rule.                                              *)

PlaylistCreate ==
  /\ "create" \in PlaylistOps /\ Counted
  /\ playlist = PlaylistNone
  /\ playlist' = Manual /\ items' = <<>>
  /\ UNCHANGED <<playlistLibrary, failures, loads, loaded, view, editor>>

PlaylistDelete ==
  /\ "delete" \in PlaylistOps /\ Counted
  /\ playlist # PlaylistNone
  /\ playlist' = PlaylistNone /\ items' = <<>>
  /\ UNCHANGED <<playlistLibrary, failures, loads, loaded, view, editor>>

DisableAutomatic ==
  /\ "manual" \in PlaylistOps /\ Counted
  /\ playlist # PlaylistNone
  /\ playlist' = Manual
  /\ UNCHANGED <<playlistLibrary, failures, items, loads, loaded, view, editor>>

\* The editor: a change of the rule drops the preview shown, not the one asked for.
EditRule(c, r) ==
  /\ "rule" \in PlaylistOps /\ Counted
  /\ editor[c].rule # r
  /\ editor' = [editor EXCEPT ![c].rule = r, ![c].preview = PlaylistNone]
  /\ UNCHANGED <<playlistLibrary, failures, playlist, items, loads, loaded, view>>

\* PlaylistService::preview resolves the rule against one snapshot of the library.
Preview(c) ==
  /\ "rule" \in PlaylistOps /\ Counted
  /\ editor[c].rule # PlaylistNone /\ playlist # PlaylistNone
  /\ editor' = [editor EXCEPT ![c].calls = @ \cup
       {[signature |-> PlaylistSignature(editor[c].rule, tracks), tracks |-> Resolve(editor[c].rule, tracks)]}]
  /\ UNCHANGED <<playlistLibrary, failures, playlist, items, loads, loaded, view>>

ShowPreview(c, p) ==
  /\ p \in editor[c].calls
  /\ editor' = [editor EXCEPT ![c].calls = @ \ {p}, ![c].preview = p]
  /\ UNCHANGED <<playlistLibrary, playlistEdits, failures, playlist, items, loads, loaded, view>>

SendSave(c) ==
  /\ editor[c].preview # PlaylistNone /\ editor[c].save = PlaylistNone
  /\ editor' = [editor EXCEPT ![c].save = [rule |-> editor[c].rule, preview |-> editor[c].preview]]
  /\ UNCHANGED <<playlistLibrary, playlistEdits, failures, playlist, items, loads, loaded, view>>

\* configure: materialize_automatic with the preview's signature, forced.
PlaylistConfigure(c) ==
  /\ editor[c].save # PlaylistNone
  /\ editor' = [editor EXCEPT ![c].save = PlaylistNone, ![c].preview = PlaylistNone]
  /\ LET save == editor[c].save IN
     IF playlist # PlaylistNone /\ save.preview.signature = PlaylistSignature(save.rule, tracks)
     THEN Materialize(save.rule) /\ StartLoad(c, FALSE)
     ELSE UNCHANGED <<playlist, items, loads, loaded>>
  /\ UNCHANGED <<playlistLibrary, playlistEdits, failures, view>>

\* refresh: the rule is read, then materialized by force if it is still the stored one.
\* The stored rule is read in the same step here: RuleChanged only makes refresh read it
\* again, or give up without a write.
Refresh(c) ==
  /\ "refresh" \in PlaylistOps /\ Counted
  /\ HasRule
  /\ Materialize(playlist.rule) /\ StartLoad(c, FALSE)
  /\ UNCHANGED <<playlistLibrary, failures, view, editor>>

-----------------------------------------------------------------------------
PlaylistNext ==
  \/ \E found \in SUBSET PlaylistPaths : PlaylistReconcile(found)
  \/ \E i \in DOMAIN tracks, tag \in PlaylistTags : EditTag(i, tag)
  \/ \E c \in PlaylistClients : PlaylistOpen(c)
  \/ Play
  \/ \E l \in loads : GetPlaylist(l)
  \/ \E l \in loads : MaterializeLoad(l)
  \/ \E l \in loads : ReadItems(l)
  \/ \E l \in loads : Show(l)
  \/ \E l \in loads : LoadFails(l)
  \/ \E c \in PlaylistClients : \E i \in DOMAIN view[c].rows : SendRemove(c, i)
  \/ \E c \in PlaylistClients : \E i, j \in DOMAIN view[c].rows : SendMove(c, i, j)
  \/ \E c \in PlaylistClients : ServeMutation(c)
  \/ \E c \in PlaylistClients, i \in DOMAIN tracks : AddTrack(c, i)
  \/ \E i \in DOMAIN tracks, at \in 1..(MaxItems + 1) : InsertTrack(i, at)
  \/ PlaylistCreate
  \/ PlaylistDelete
  \/ DisableAutomatic
  \/ \E c \in PlaylistClients, r \in Rules : EditRule(c, r)
  \/ \E c \in PlaylistClients : Preview(c)
  \/ \E c \in PlaylistClients : \E p \in editor[c].calls : ShowPreview(c, p)
  \/ \E c \in PlaylistClients : SendSave(c)
  \/ \E c \in PlaylistClients : PlaylistConfigure(c)
  \/ \E c \in PlaylistClients : Refresh(c)

PlaylistSpec == PlaylistInit /\ [][PlaylistNext]_playlistVars

-----------------------------------------------------------------------------
(* Properties.                                                             *)

PlaylistTypeOK ==
  /\ DOMAIN tracks \subseteq Ids
  /\ \A i \in DOMAIN tracks : tracks[i].path \in PlaylistPaths /\ tracks[i].tags \subseteq PlaylistTags
  /\ playlist = PlaylistNone \/ playlist.rule \in Rules \cup {PlaylistNone, Unreadable}
  /\ Cardinality(DOMAIN items) <= MaxItems
  /\ \A p \in DOMAIN items : items[p] \in DOMAIN tracks
  /\ \A l \in loads : l.tries \in 0..2 /\ l.step \in {"get", "materialize", "items", "answer", "failed"}

(***************************************************************************)
(* A matching signature means matching rows: when the stored signature is  *)
(* the one the rule has in the library of now, the stored rows are what    *)
(* the rule resolves to now.  materialize_automatic returns Unchanged on   *)
(* that ground, and "refreshes when opened or played after relevant        *)
(* library evidence changes" (README.md:206) rests on it.  Excepted: a     *)
(* file that one scan removed has come back, and its row has the id it had *)
(* before.  The removal took its rows from the list, the signature does    *)
(* not cover when a row was added, and so it reads as unchanged            *)
(* (music-storage playlists.rs:431).                                       *)
(***************************************************************************)
UnchangedIsCurrent ==
  ~returned /\ HasRule /\ playlist.signature = PlaylistSignature(playlist.rule, tracks)
    => OrderedTrackIds = Resolve(playlist.rule, tracks)

(***************************************************************************)
(* Rules and libraries change while a rule is previewed, edited and saved: *)
(* a save that is accepted stores exactly the tracks the operator was      *)
(* shown ("after previewing its exact resolved songs", README.md:203).     *)
(***************************************************************************)
SavedAsPreviewed ==
  [][\A c \in PlaylistClients :
       editor[c].save # PlaylistNone /\ editor'[c].save = PlaylistNone /\ (playlist' # playlist \/ items' # items)
         => items' = Packed(editor[c].save.preview.tracks)]_playlistVars

(***************************************************************************)
(* A stored rule is changed only by an operator's save or by making the    *)
(* playlist manual: a read that began under an older rule, or under an     *)
(* older playlist of the same id, never brings that rule back.             *)
(***************************************************************************)
RuleByOperator ==
  [][playlist # PlaylistNone /\ playlist' # PlaylistNone /\ playlist'.rule \notin {playlist.rule, PlaylistNone}
       => \E c \in PlaylistClients : editor[c].save # PlaylistNone /\ editor'[c].save = PlaylistNone
                                     /\ editor[c].save.rule = playlist'.rule]_playlistVars

(***************************************************************************)
(* Under a rule, and under one that cannot be read, no row is edited: the  *)
(* tracks in the list change only to what the rule resolves to, or by the  *)
(* removal of tracks the library lost.  Making the list manual keeps it.   *)
(***************************************************************************)
AutomaticRowsManaged ==
  [][IsAutomatic /\ playlist' # PlaylistNone =>
       \/ OrderedTrackIds' = SelectSeq(OrderedTrackIds, LAMBDA i : i \in DOMAIN tracks')
       \/ HasRule' /\ OrderedTrackIds' = Resolve(playlist'.rule, tracks)]_playlistVars

(***************************************************************************)
(* An edit by position takes the track the operator saw there.  "A second  *)
(* reorder/remove issued before the refetch lands would be computed        *)
(* against stale positions and hit the wrong row" (PlaylistsView.tsx:282); *)
(* the mutating flag is there to prevent it.  Excepted are the pages on    *)
(* which it does not: the refetch failed or the answer of the edit was     *)
(* lost, and the old rows stay under live buttons (:292), or a track was   *)
(* added, whose refetch no flag waits for (:340).                          *)
(***************************************************************************)
EditsWhatWasShown ==
  \A c \in PlaylistClients :
     ~view[c].late /\ view[c].call # PlaylistIdle /\ view'[c].call = PlaylistIdle /\ items' # items
       => OrderedTrackIds[view[c].call.at] = view[c].call.shown
=============================================================================
