----------------------------- MODULE MCPlaylists ----------------------------
(***************************************************************************)
(* Small instances of Playlists and CatalogCommands, which share no state: *)
(* each behaviour moves one of them, as its part says.                     *)
(*   rules     a scan or an edit of a tag beside four steps of an          *)
(*             operator who previews, saves, makes manual, deletes         *)
(*   managed   a scan and a load, or two loads, beside three edits of the  *)
(*             rule or of single rows                                      *)
(*   returns   two scans beside an operator who saves a rule               *)
(*   pages     three edits of a page that is opened again, a lost answer   *)
(*   requests  one client with every request, two commits of the library   *)
(*             or new mode catalogs, which have a mode more or less        *)
(*   clients   a client beside one that switches modes, two new mode       *)
(*             catalogs                                                    *)
(***************************************************************************)
EXTENDS Playlists, CatalogCommands, TLC

CONSTANT Parts
VARIABLE part

\* The second file has no known bpm; the rules disagree about what they take.
MCBpm(p) == CASE p = 1 -> 120 [] p = 2 -> 0 [] OTHER -> 90
Rule == [include |-> {}, all |-> FALSE, exclude |-> {}, min |-> Unset, max |-> Unset,
         unknown |-> TRUE, limit |-> 200, order |-> "title"]
Tagged == [Rule EXCEPT !.include = {"calm"}, !.order = "newest"]
Slow == [Rule EXCEPT !.exclude = {"calm"}, !.max = 100, !.limit = 1, !.order = "bpm_ascending"]
Fast == [Rule EXCEPT !.all = TRUE, !.min = 100, !.unknown = FALSE, !.order = "bpm_descending"]
MCRules == {Tagged, Slow, Fast}

Mode(presets, boards, cues) == [presets |-> presets, boards |-> boards, cues |-> cues]
Req(kind, id) == [kind |-> kind, id |-> id]
\* Both modes have the preset, with another fade; the second catalog edits one, the third has no cue.
Shared  == "m1" :> Mode("p1" :> 1, {"b1"}, "c1" :> "p1") @@ "m2" :> Mode("p1" :> 2, {"b2"}, <<>>)
Edited  == "m1" :> Mode("p1" :> 3, {"b1"}, "c1" :> "p1") @@ "m2" :> Mode("p1" :> 2, {}, <<>>)
Without == "m2" :> Mode("p1" :> 2, {"b2"}, <<>>)
MCModeCatalogs == {Shared, Edited, Without}
MCRequests == {Req("mode", "m1"), Req("mode", "m2"), Req("preset", "p1"), Req("board", "b2"), Req("track", 1),
               Req("folder", 0), Req("playlist", 0), Req("cue", "c1"), Req("sfx", "b1")}

Reading == \/ \E c \in PlaylistClients : PlaylistOpen(c)
           \/ Play
           \/ \E l \in loads : GetPlaylist(l) \/ MaterializeLoad(l) \/ ReadItems(l) \/ Show(l) \/ LoadFails(l)
Ruling(rules) ==
    \/ \E found \in SUBSET PlaylistPaths : PlaylistReconcile(found)
    \/ DisableAutomatic
    \/ \E c \in PlaylistClients, r \in rules : EditRule(c, r)
    \/ \E c \in PlaylistClients :
         Preview(c) \/ SendSave(c) \/ PlaylistConfigure(c) \/ \E p \in editor[c].calls : ShowPreview(c, p)
Placing == \E c \in PlaylistClients :
    \/ \E i \in DOMAIN view[c].rows : SendRemove(c, i)
    \/ \E i, j \in DOMAIN view[c].rows : SendMove(c, i, j)
    \/ ServeMutation(c)
PlaylistPart ==
    /\ \/ /\ part = "rules"
          /\ \/ Reading \/ Ruling({Tagged, Slow}) \/ PlaylistCreate \/ PlaylistDelete
             \/ \E i \in DOMAIN tracks, tag \in PlaylistTags : EditTag(i, tag)
          /\ loaded' <= 1 /\ scans' <= 1 /\ playlistEdits' + scans' + tagEdits' <= 5
       \/ /\ part = "managed"
          /\ \/ Reading \/ Ruling({Fast}) \/ Placing
             \/ \E c \in PlaylistClients, i \in DOMAIN tracks : AddTrack(c, i)
             \/ \E i \in DOMAIN tracks, at \in 1..(MaxItems + 1) : InsertTrack(i, at)
             \/ \E c \in PlaylistClients : Refresh(c)
          /\ loaded' <= 2 /\ playlistEdits' <= 3 /\ scans' <= 1 /\ playlistEdits' + scans' + loaded' <= 5
       \/ part = "returns" /\ (Reading \/ Ruling({Tagged, Fast})) /\ loaded' <= 2 /\ playlistEdits' <= 2
       \/ /\ part = "pages" /\ playlist = Manual
          /\ Reading \/ Placing \/ \E c \in PlaylistClients, i \in DOMAIN tracks : AddTrack(c, i)
          /\ playlistEdits' <= IF \E c \in PlaylistClients : view'[c].late THEN 2 ELSE 3
    /\ part # "pages" => failures' = 0
    /\ UNCHANGED catalogVars
CatalogPart ==
    /\ part \in {"requests", "clients"} /\ CatalogNext
    /\ part = "requests" => client'["c2"] = CatalogIdle /\ libGen' + snap'.gen <= 3 /\ actor'.modes # Edited
    /\ part = "clients" => /\ libGen' = 0 /\ snap'.gen <= 2
                           /\ client'["c1"].req.kind \in {"none", "mode", "cue", "preset", "board"}
                           /\ client'["c2"].req.kind \in {"none", "mode"}
    /\ UNCHANGED playlistVars

MCInit ==
    /\ part \in Parts /\ PlaylistInit /\ CatalogInit
    /\ part \notin {"rules", "managed"} => playlist = Manual
MCNext == (PlaylistPart \/ CatalogPart) /\ UNCHANGED part
MCSpec == MCInit /\ [][MCNext]_<<playlistVars, catalogVars, part>>

(* The rows of a playlist change as their operator was shown: a save       *)
(* stores the preview, a rule comes from an operator, the rows under a     *)
(* rule are the rule's, and on a page that nobody else edits an edit by    *)
(* position meets the track that was shown there (PlaylistsView.tsx:282),  *)
(* unless an answer to that page was lost or a track was added from it     *)
(* (:292, :340; see EditsWhatWasShown).                                    *)
RowsAsShown ==
    /\ SavedAsPreviewed /\ RuleByOperator /\ AutomaticRowsManaged
    /\ [][part = "pages" => EditsWhatWasShown]_playlistVars
=============================================================================
