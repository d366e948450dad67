-------------------------- MODULE LibraryMutation --------------------------
(***************************************************************************)
(* The library coordinator: every change of the music files, journalled    *)
(* before the first file moves and committed with its rows of the index in *)
(* one transaction (music-application library.rs, library/mutation.rs,     *)
(* recovery.rs; music-media mutation.rs and mutation/; music-storage       *)
(* library.rs and recovery.rs).                                            *)
(*                                                                         *)
(* One coordinator task serves one command at a time.  A command is a      *)
(* sequence of requests of one kind; a request becomes a journal, a run of *)
(* file-system calls and a commit.  Each call that changes the disk or the *)
(* database is a step of its own, the process may die between any two of   *)
(* them, and a call may fail.  At the next start the unfinished journals   *)
(* are replayed before the catalog is published.                           *)
(*                                                                         *)
(* Abstracted: a path is a folder, a stem and an extension; a file is the  *)
(* audio it holds, whether it is the full file, its streaming copy or a    *)
(* torn write, and its tags; folders are not nested; renames that change   *)
(* only the case of a name, symbolic links and the fields kept only in the *)
(* database are left out.                                                  *)
(***************************************************************************)
EXTENDS Naturals, Sequences, FiniteSets, Functions, TLC

CONSTANTS
    Dirs, Stems, Exts,   \* folders, file stems and supported extensions
    NoExt,               \* a row without a kept original
    Libraries,           \* the libraries there may be before the first start, [path -> file]
    Requests,            \* what clients may ask for
    MaxJournals,         \* bound on the mutations of a behaviour
    MaxGen,              \* bound on the generations a command may start from
    MaxBatch,            \* bound on the requests of one command
    MaxCrashes,          \* bound on the deaths of the process
    MaxFaults            \* bound on the failing calls and lost stage files

Paths == [dir: Dirs, stem: Stems, ext: Exts]
Roots == {"lib", "org"}
Copy == "m4a"            \* CONVERTED_TRACK_EXTENSION

ASSUME LibraryAssumption ==
    /\ Copy \in Exts /\ NoExt \notin Exts
    /\ MaxJournals \in Nat /\ MaxGen \in Nat /\ MaxBatch \in Nat /\ MaxCrashes \in Nat /\ MaxFaults \in Nat

VARIABLES
    files,     \* [root -> files], path |-> content
    art,       \* hidden files: <<role, journal or track, root, path>> |-> content
    dirs,      \* [root -> existing folders]
    rows,      \* tracks and track_originals: id |-> [path, tag, original]
    gen,       \* library_state.generation
    scan,      \* library_state.status
    journals,  \* recovery_journal, oldest first
    catalog,   \* the generation and the tracks the playback actor was given
    proc,      \* the process: "up", "recovering", "down", "refused"
    op,        \* the mutation at work, or NoOp
    todo,      \* the requests the command still holds
    changed,   \* whether the command has committed something to publish
    encoded,   \* the stage files the conversion job has encoded and not yet sent
    owed,      \* audio no client has asked to remove
    astray,    \* history: what has happened of the things IndexIsTrue excepts
    apart,     \* the originals are on another file system; never changes
    crashes, faults

disk == <<files, art, dirs>>
index == <<rows, gen, scan>>
env == <<encoded, owed, astray, crashes, faults>>
vars == <<files, art, dirs, rows, gen, scan, journals, catalog, proc, op, todo, changed,
          encoded, owed, astray, apart, crashes, faults>>

-----------------------------------------------------------------------------
Put(f, k, v) == (k :> v) @@ f
Drop(f, k) == Restrict(f, DOMAIN f \ {k})
Carry(f, from, to) == Put(Drop(f, from), to, f[from])

NoOp == [step |-> "none"]
Idle == op = NoOp /\ todo = <<>> /\ ~changed
Unfinished == {j \in DOMAIN journals : journals[j].state \in {"planned", "applying"}}
CatalogOf(r, g) == [gen |-> g, tracks |-> {<<t, r[t].path>> : t \in DOMAIN r}]
NewId == IF DOMAIN rows = {} THEN 1 ELSE 1 + CHOOSE t \in DOMAIN rows : \A u \in DOMAIN rows : u <= t
RowAt(p) == {t \in DOMAIN rows : rows[t].path = p}

\* find_original: the visible files of the originals root beside `path` with its stem.
Originals(p) == {q \in DOMAIN files.org : q.dir = p.dir /\ q.stem = p.stem}
OriginalPath(row) == [row.path EXCEPT !.ext = row.original]

m == op.m
Goto(s) == op' = [op EXCEPT !.step = s]
Stay == UNCHANGED <<disk, index, journals, catalog, proc, todo, changed, env>>
OnDisk == UNCHANGED <<index, journals, catalog, proc, todo, changed, env>>

\* A failure that needs no recovery: the journal is closed as failed.
Refuse == Goto("refuse")
\* A failure that recovery must finish: the journal stays, the command stops, a start refuses.
Abandon ==
    /\ op' = NoOp /\ todo' = <<>>
    /\ proc' = IF proc = "recovering" THEN "refused" ELSE proc
Conflict == Abandon /\ UNCHANGED <<disk, index, journals, catalog, changed, env>>

-----------------------------------------------------------------------------
(* MoveTrack *)
Move ==
    /\ op.step = "move"
    /\ LET os == Originals(m.src)
           o == CHOOSE q \in os : TRUE
           t == [m.dst EXCEPT !.ext = o.ext]
       IN  IF m.src \notin DOMAIN files.lib
           THEN /\ IF op.replay /\ m.dst \in DOMAIN files.lib THEN Goto("inspect") ELSE Refuse
                /\ Stay
           ELSE IF \/ m.dst \in DOMAIN files.lib
                   \/ Cardinality(os) > 1
                   \/ os # {} /\ t # o /\ t \in DOMAIN files.org
           THEN /\ Refuse
                /\ dirs' = [dirs EXCEPT !.lib = @ \cup {m.dst.dir}]
                /\ UNCHANGED <<files, art>> /\ OnDisk
           ELSE /\ dirs' = [lib |-> dirs.lib \cup {m.dst.dir},
                            org |-> dirs.org \cup (IF os = {} THEN {} ELSE {m.dst.dir})]
                /\ files' = IF os = {} THEN files ELSE [files EXCEPT !.org = Carry(@, o, t)]
                /\ Goto("move_file")
                /\ UNCHANGED art /\ OnDisk

MoveFile ==
    /\ op.step = "move_file"
    /\ files' = [files EXCEPT !.lib = Carry(@, m.src, m.dst)]
    /\ Goto("inspect")
    /\ UNCHANGED <<art, dirs>> /\ OnDisk

(* DeleteTrack *)
Delete ==
    /\ op.step = "delete"
    /\ LET os == Originals(m.path)
       IN  IF Cardinality(os) > 1
           THEN Refuse /\ Stay
           ELSE /\ files' = [files EXCEPT !.org = Restrict(@, DOMAIN @ \ os)]
                /\ Goto("delete_file")
                /\ UNCHANGED <<art, dirs>> /\ OnDisk

DeleteFile ==
    /\ op.step = "delete_file"
    /\ files' = [files EXCEPT !.lib = Drop(@, m.path)]
    /\ Goto("commit")
    /\ UNCHANGED <<art, dirs>> /\ OnDisk

-----------------------------------------------------------------------------
(* UpdateTrackMetadata: the original first, then the library file; each is *)
(* replaced by an edited copy through a stage and a backup beside it.      *)
Artifact(role) == <<role, op.j, op.root, op.file>>
Has(role) == Artifact(role) \in DOMAIN art
Edited(c) == [c EXCEPT !.tag = m.tag]

\* find_original_for_tag_edit
EditedOriginal ==
    LET left == {k \in DOMAIN art : /\ k[1] \in {"tag_stage", "tag_backup"} /\ k[2] = op.j
                                    /\ k[3] = "org"}
    IN  IF Originals(m.path) # {} THEN Originals(m.path)
        ELSE IF op.replay THEN {k[4] : k \in left} ELSE {}

Tags ==
    /\ op.step = "tags"
    /\ Stay
    /\ LET os == EditedOriginal
       IN  IF Cardinality(os) > 1 THEN Refuse
           ELSE op' = [op EXCEPT !.step = "tag_open",
                                 !.root = IF os = {} THEN "lib" ELSE "org",
                                 !.file = IF os = {} THEN m.path ELSE CHOOSE o \in os : TRUE,
                                 !.orig = os # {}]

\* replace_file_tags, up to the new stage file.
TagOpen ==
    /\ op.step = "tag_open"
    /\ UNCHANGED dirs /\ OnDisk
    /\ IF op.file \notin DOMAIN files[op.root]
       THEN CASE Has("tag_backup") /\ Has("tag_stage") ->
                 /\ files' = [files EXCEPT ![op.root] = Put(@, op.file, art[Artifact("tag_stage")])]
                 /\ art' = Drop(art, Artifact("tag_stage"))
                 /\ Goto("tag_clean")
            [] Has("tag_backup") /\ ~Has("tag_stage") ->
                 /\ files' = [files EXCEPT ![op.root] = Put(@, op.file, art[Artifact("tag_backup")])]
                 /\ art' = Drop(art, Artifact("tag_backup"))
                 /\ Goto("tag_open")
            [] OTHER -> Refuse /\ UNCHANGED <<files, art>>
       ELSE /\ UNCHANGED files
            /\ IF op.replay /\ Has("tag_backup") /\ ~Has("tag_stage")
               THEN Goto("tag_clean") /\ UNCHANGED art
               ELSE IF Has("tag_backup")
               THEN Refuse /\ art' = Drop(art, Artifact("tag_stage"))
               ELSE /\ art' = Put(art, Artifact("tag_stage"),
                                  [files[op.root][op.file] EXCEPT !.form = "torn"])
                    /\ Goto("tag_stage")

TagStage ==
    /\ op.step = "tag_stage"
    /\ art' = [art EXCEPT ![Artifact("tag_stage")] = Edited(files[op.root][op.file])]
    /\ Goto("tag_backup")
    /\ UNCHANGED <<files, dirs>> /\ OnDisk

TagBackup ==
    /\ op.step = "tag_backup"
    /\ art' = Put(art, Artifact("tag_backup"), files[op.root][op.file])
    /\ files' = [files EXCEPT ![op.root] = Drop(@, op.file)]
    /\ Goto("tag_publish")
    /\ UNCHANGED dirs /\ OnDisk

TagPublish ==
    /\ op.step = "tag_publish"
    /\ files' = [files EXCEPT ![op.root] = Put(@, op.file, art[Artifact("tag_stage")])]
    /\ art' = Drop(art, Artifact("tag_stage"))
    /\ Goto("tag_clean")
    /\ UNCHANGED dirs /\ OnDisk

TagClean ==
    /\ op.step = "tag_clean"
    /\ art' = Drop(art, Artifact("tag_backup"))
    /\ op' = IF op.root = "org"
             THEN [op EXCEPT !.step = "tag_open", !.root = "lib", !.file = m.path]
             ELSE [op EXCEPT !.step = "inspect"]
    /\ UNCHANGED <<files, dirs>> /\ OnDisk

-----------------------------------------------------------------------------
(* PublishUpload *)
UploadStage == <<"upload", op.j, "lib", m.dst>>
UploadBackup == <<"upload_backup", op.j, "lib", m.dst>>

PublishReplacing ==
    /\ op.step = "upload" /\ m.replace
    /\ LET stage == UploadStage \in DOMAIN art
           target == m.dst \in DOMAIN files.lib
           backup == UploadBackup \in DOMAIN art
       IN  CASE stage /\ target /\ backup -> Refuse /\ Stay
           [] stage /\ target /\ ~backup ->
                /\ UNCHANGED dirs /\ OnDisk
                /\ art' = Put(art, UploadBackup, files.lib[m.dst])
                /\ files' = [files EXCEPT !.lib = Drop(@, m.dst)]
                /\ Goto("upload_publish")
           [] stage /\ ~target -> Goto("upload_publish") /\ Stay
           [] ~stage /\ target /\ op.replay -> Goto("upload_clean") /\ Stay
           [] ~stage /\ ~target /\ backup ->
                /\ UNCHANGED dirs /\ OnDisk
                /\ files' = [files EXCEPT !.lib = Put(@, m.dst, art[UploadBackup])]
                /\ art' = Drop(art, UploadBackup)
                /\ Refuse
           [] OTHER -> Refuse /\ Stay

UploadPublish ==
    /\ op.step = "upload_publish"
    /\ files' = [files EXCEPT !.lib = Put(@, m.dst, art[UploadStage])]
    /\ art' = Drop(art, UploadStage)
    /\ Goto("upload_clean")
    /\ UNCHANGED dirs /\ OnDisk

UploadClean ==
    /\ op.step = "upload_clean"
    /\ art' = Drop(art, UploadBackup)
    /\ Goto("inspect")
    /\ UNCHANGED <<files, dirs>> /\ OnDisk

\* publish_new_upload: a hard link, so stage and target may be one file.
PublishNew ==
    /\ op.step = "upload" /\ ~m.replace
    /\ UNCHANGED <<art, dirs>> /\ OnDisk
    /\ LET stage == UploadStage \in DOMAIN art
           target == m.dst \in DOMAIN files.lib
           sharesIdentity == files.lib[m.dst] = art[UploadStage]
       IN  CASE stage /\ ~target ->
                /\ files' = [files EXCEPT !.lib = Put(@, m.dst, art[UploadStage])]
                /\ Goto("upload_unlink")
           [] stage /\ target /\ op.replay /\ sharesIdentity -> Goto("upload_unlink") /\ UNCHANGED files
           [] ~stage /\ target /\ op.replay -> Goto("inspect") /\ UNCHANGED files
           [] OTHER -> Refuse /\ UNCHANGED files

UploadUnlink ==
    /\ op.step = "upload_unlink"
    /\ art' = Drop(art, UploadStage)
    /\ Goto("inspect")
    /\ UNCHANGED <<files, dirs>> /\ OnDisk

-----------------------------------------------------------------------------
(* transfer_file: a rename, or across file systems a copy that is synced   *)
(* to a partial file and then renamed into place.                          *)
Partial == <<"partial", op.j, op.to.root, op.to.path>>

Transfer(from, to, next) ==
    IF apart
    THEN /\ art' = Put(art, <<"partial", op.j, to.root, to.path>>,
                       [files[from.root][from.path] EXCEPT !.form = "torn"])
         /\ op' = [op EXCEPT !.step = "copy_sync", !.from = from, !.to = to, !.next = next]
         /\ UNCHANGED files
    ELSE /\ files' = [files EXCEPT ![from.root] = Drop(@, from.path),
                                   ![to.root] = Put(@, to.path, files[from.root][from.path])]
         /\ op' = [op EXCEPT !.step = next, !.moved = "renamed"]
         /\ UNCHANGED art

CopySync ==
    /\ op.step = "copy_sync"
    /\ art' = [art EXCEPT ![Partial] = files[op.from.root][op.from.path]]
    /\ Goto("copy_publish")
    /\ UNCHANGED <<files, dirs>> /\ OnDisk

CopyPublish ==
    /\ op.step = "copy_publish"
    /\ files' = [files EXCEPT ![op.to.root] = Put(@, op.to.path, art[Partial])]
    /\ art' = Drop(art, Partial)
    /\ op' = [op EXCEPT !.step = op.next, !.moved = "copied"]
    /\ UNCHANGED dirs /\ OnDisk

(* ConvertTrack *)
At(root, path) == [root |-> root, path |-> path]
Staged == m.stage \in DOMAIN art
SamePath == m.src = m.dst

Convert ==
    /\ op.step = "convert"
    /\ OnDisk
    /\ dirs' = [dirs EXCEPT !.org = @ \cup {m.src.dir}]
    /\ IF m.src \in DOMAIN files.org
       THEN /\ IF op.replay THEN Goto("convert_publish") ELSE Refuse
            /\ UNCHANGED <<files, art>>
       ELSE IF \/ m.src \notin DOMAIN files.lib
               \/ ~Staged
               \/ ~SamePath /\ m.dst \in DOMAIN files.lib
               \/ Originals(m.src) # {}
       THEN /\ Refuse
            /\ art' = IF m.src \in DOMAIN files.lib /\ ~Staged
                      THEN Drop(art, <<"partial", op.j, "org", m.src>>) ELSE art
            /\ UNCHANGED files
       ELSE Transfer(At("lib", m.src), At("org", m.src), "convert_publish")

\* A copied original keeps the facts of its source: equal facts mean unpublished.
StageWasPublished ==
    m.dst \in DOMAIN files.lib /\ files.lib[m.dst] # files.org[m.src]

RollBackKeptOriginal ==
    IF m.src \in DOMAIN files.lib
    THEN files' = [files EXCEPT !.org = Drop(@, m.src)] /\ Refuse /\ UNCHANGED art
    ELSE Transfer(At("org", m.src), At("lib", m.src), "rollback_source")

ConvertPublish ==
    /\ op.step = "convert_publish"
    /\ \/ /\ Staged /\ ~SamePath /\ m.dst \in DOMAIN files.lib
          /\ Refuse
          /\ Stay
       \/ /\ Staged /\ (SamePath \/ m.dst \notin DOMAIN files.lib)
          /\ files' = [files EXCEPT !.lib = Put(@, m.dst, art[m.stage])]
          /\ art' = Drop(art, m.stage)
          /\ Goto("convert_source")
          /\ UNCHANGED dirs /\ OnDisk
       \/ /\ ~Staged /\ (op.moved # "no" \/ StageWasPublished)
          /\ Goto("convert_source")
          /\ Stay
       \/ /\ ~Staged /\ op.moved = "no" /\ ~StageWasPublished
          /\ UNCHANGED dirs /\ OnDisk
          /\ RollBackKeptOriginal

RollbackSource ==
    /\ op.step = "rollback_source"
    /\ files' = [files EXCEPT !.org = Drop(@, m.src)]
    /\ Refuse
    /\ UNCHANGED <<art, dirs>> /\ OnDisk

ConvertSource ==
    /\ op.step = "convert_source"
    /\ files' = IF SamePath THEN files ELSE [files EXCEPT !.lib = Drop(@, m.src)]
    /\ Goto("inspect")
    /\ UNCHANGED <<art, dirs>> /\ OnDisk

(* RestoreTrack *)
Restore ==
    /\ op.step = "restore"
    /\ UNCHANGED dirs /\ OnDisk
    /\ LET target == m.dst \in DOMAIN files.lib
       IN  CASE m.dst \in DOMAIN files.org /\ (op.replay \/ SamePath \/ ~target) ->
                Transfer(At("org", m.dst), At("lib", m.dst), "restore_source")
           [] m.dst \notin DOMAIN files.org /\ op.replay /\ target ->
                Goto("restore_path") /\ UNCHANGED <<files, art>>
           [] OTHER -> Refuse /\ UNCHANGED <<files, art>>

RestoreSource ==
    /\ op.step = "restore_source"
    /\ files' = [files EXCEPT !.org = Drop(@, m.dst)]
    /\ Goto("restore_path")
    /\ UNCHANGED <<art, dirs>> /\ OnDisk

RestorePath ==
    /\ op.step = "restore_path"
    /\ files' = IF SamePath THEN files ELSE [files EXCEPT !.lib = Drop(@, m.src)]
    /\ Goto("inspect")
    /\ UNCHANGED <<art, dirs>> /\ OnDisk

-----------------------------------------------------------------------------
(* Folders *)
CreateFolder ==
    /\ op.step = "create_folder"
    /\ dirs' = [dirs EXCEPT !.lib = @ \cup {m.dir}]
    /\ Goto("commit")
    /\ UNCHANGED <<files, art>> /\ OnDisk

InDir(p, from, to) == IF p.dir = from THEN [p EXCEPT !.dir = to] ELSE p
RenamedDir(f, from, to) ==
    [p \in {InDir(q, from, to) : q \in DOMAIN f} |-> f[CHOOSE q \in DOMAIN f : InDir(q, from, to) = p]]
Hidden(k, root) == IF k[3] = root THEN [k EXCEPT ![4] = InDir(@, m.src, m.dst)] ELSE k
RenamedArt(root) ==
    [k \in {Hidden(h, root) : h \in DOMAIN art} |-> art[CHOOSE h \in DOMAIN art : Hidden(h, root) = k]]
RenameRoot(root) ==
    /\ files' = [files EXCEPT ![root] = RenamedDir(@, m.src, m.dst)]
    /\ art' = RenamedArt(root)
    /\ dirs' = [dirs EXCEPT ![root] = (@ \ {m.src}) \cup {m.dst}]

RenameFolder ==
    /\ op.step = "rename_folder"
    /\ OnDisk
    /\ IF m.src \notin dirs.lib
       THEN /\ IF op.replay /\ m.dst \in dirs.lib THEN Goto("commit") ELSE Refuse
            /\ UNCHANGED disk
       ELSE IF m.dst \in dirs.lib \/ (m.src \in dirs.org /\ m.dst \in dirs.org)
       THEN Refuse /\ UNCHANGED disk
       ELSE /\ IF m.src \in dirs.org THEN RenameRoot("org") ELSE UNCHANGED disk
            /\ Goto("rename_folder_files")

RenameFolderFiles ==
    /\ op.step = "rename_folder_files"
    /\ RenameRoot("lib")
    /\ Goto("commit")
    /\ OnDisk

Inside(root, d) == {p \in DOMAIN files[root] : p.dir = d}
HiddenInside(root, d) == {k \in DOMAIN art : k[3] = root /\ k[4].dir = d}
Empty(root, d) == Inside(root, d) = {} /\ HiddenInside(root, d) = {}

\* One step of remove_dir_all: a file, or the emptied folder.
RemoveStep(root, next) ==
    \/ \E p \in Inside(root, m.dir) :
          /\ files' = [files EXCEPT ![root] = Drop(@, p)]
          /\ UNCHANGED <<art, dirs, op>>
    \/ \E k \in HiddenInside(root, m.dir) :
          /\ art' = Drop(art, k)
          /\ UNCHANGED <<files, dirs, op>>
    \/ /\ Empty(root, m.dir)
       /\ dirs' = [dirs EXCEPT ![root] = @ \ {m.dir}]
       /\ Goto(next)
       /\ UNCHANGED <<files, art>>

DeleteFolder ==
    /\ op.step = "delete_folder"
    /\ OnDisk
    /\ IF m.dir \notin dirs.lib
       THEN /\ IF op.replay THEN Goto("delete_originals") ELSE Refuse
            /\ UNCHANGED disk
       ELSE IF ~m.recursive /\ ~Empty("lib", m.dir)
       THEN Refuse /\ UNCHANGED disk
       ELSE RemoveStep("lib", "delete_originals")

DeleteOriginals ==
    /\ op.step = "delete_originals"
    /\ OnDisk
    /\ IF m.dir \notin dirs.org \/ (~m.recursive /\ ~Empty("org", m.dir))
       THEN Goto("commit") /\ UNCHANGED disk
       ELSE RemoveStep("org", "commit")

-----------------------------------------------------------------------------
(* inspect_library_track: the commit writes what the file holds now. *)
FinalPath == IF "dst" \in DOMAIN m THEN m.dst ELSE m.path
Inspect ==
    /\ op.step = "inspect"
    /\ \/ /\ FinalPath \in DOMAIN files.lib
          /\ op' = [op EXCEPT !.step = "commit", !.tag = files.lib[FinalPath].tag]
          /\ Stay
       \/ FinalPath \notin DOMAIN files.lib /\ Conflict

\* The rows each commit expects and leaves (commit_applied_library_mutation).
Owned(p) == m.track \in DOMAIN rows /\ rows[m.track].path = p
CommitHolds ==
    CASE m.kind = "move" -> Owned(m.src)
      [] m.kind = "tags" -> Owned(m.path) /\ (op.orig => rows[m.track].original # NoExt)
      [] m.kind = "convert" -> Owned(m.src) /\ rows[m.track].original = NoExt
      [] m.kind = "restore" -> Owned(m.src) /\ rows[m.track].original # NoExt
      [] OTHER -> TRUE
MovedRow == [rows EXCEPT ![m.track].path = m.dst, ![m.track].tag = op.tag]
EditedRow == [rows EXCEPT ![m.track].tag = op.tag]
SwappedRow ==
    [rows EXCEPT ![m.track] = [path |-> m.dst, tag |-> op.tag,
                               original |-> IF m.kind = "convert" THEN m.src.ext ELSE NoExt]]
WithoutTrack == Restrict(rows, DOMAIN rows \ (RowAt(m.path) \cap {m.track}))
UploadedRow ==
    IF RowAt(m.dst) # {}
    THEN [t \in DOMAIN rows |-> IF t \in RowAt(m.dst) THEN [rows[t] EXCEPT !.tag = op.tag] ELSE rows[t]]
    ELSE Put(rows, NewId, [path |-> m.dst, tag |-> op.tag, original |-> NoExt])
RenamedRows == [t \in DOMAIN rows |-> [rows[t] EXCEPT !.path = InDir(@, m.src, m.dst)]]
WithoutFolder == Restrict(rows, {t \in DOMAIN rows : rows[t].path.dir # m.dir})
Committed ==
    CASE m.kind = "move" -> MovedRow
      [] m.kind = "tags" -> EditedRow
      [] m.kind \in {"convert", "restore"} -> SwappedRow
      [] m.kind = "delete" -> WithoutTrack
      [] m.kind = "upload" -> UploadedRow
      [] m.kind = "rename_folder" -> RenamedRows
      [] m.kind = "delete_folder" -> WithoutFolder
      [] OTHER -> rows
Affected ==
    CASE m.kind = "create_folder" -> FALSE
      [] m.kind = "delete" -> RowAt(m.path) \cap {m.track} # {}
      [] m.kind = "rename_folder" -> \E t \in DOMAIN rows : rows[t].path.dir = m.src
      [] m.kind = "delete_folder" -> \E t \in DOMAIN rows : rows[t].path.dir = m.dir
      [] OTHER -> TRUE

\* Mutant: the journal is closed in a transaction of its own that never runs.
CommitRowsOnly ==
    /\ op.step = "commit"
    /\ \/ ~CommitHolds /\ Conflict
       \/ /\ CommitHolds
          /\ rows' = Committed
          /\ gen' = IF Affected THEN gen + 1 ELSE gen
          /\ changed' = (proc = "up" /\ (changed \/ m.kind # "create_folder"))
          /\ op' = NoOp
          /\ UNCHANGED <<disk, scan, journals, catalog, proc, todo, env>>
\* One transaction: the rows, the generation and the journal.  A rename is followed by a scan.
Commit ==
    /\ op.step = "commit"
    /\ \/ ~CommitHolds /\ Conflict
       \/ /\ CommitHolds
          /\ rows' = Committed
          /\ gen' = IF Affected THEN gen + 1 ELSE gen
          /\ scan' = IF Affected THEN "current" ELSE scan
          /\ journals' = [journals EXCEPT ![op.j].state = "committed"]
          /\ changed' = (proc = "up" /\ (changed \/ m.kind # "create_folder"))
          /\ op' = IF m.kind = "rename_folder" /\ proc = "up" THEN [op EXCEPT !.step = "scan"] ELSE NoOp
          /\ UNCHANGED <<disk, catalog, proc, todo, env>>

\* The journal of a refused mutation is closed; an upload or a conversion ends the command and
\* then discards its stage.
CloseFailed ==
    /\ op.step = "refuse"
    /\ journals' = [journals EXCEPT ![op.j].state = "failed"]
    /\ op' = IF ~op.replay /\ m.kind \in {"upload", "convert"} THEN [op EXCEPT !.step = "discard"] ELSE NoOp
    /\ todo' = IF m.kind = "upload" THEN <<>> ELSE todo
    /\ owed' = IF m.kind = "upload" /\ UploadStage \in DOMAIN art
               THEN owed \ {art[UploadStage].audio} ELSE owed
    /\ UNCHANGED <<disk, index, catalog, proc, changed, encoded, astray, crashes, faults>>

\* discard_upload; a failure to remove the stage is not looked at.
DiscardStage ==
    /\ op.step = "discard"
    /\ art' = Drop(art, IF m.kind = "upload" THEN UploadStage ELSE m.stage)
    /\ op' = NoOp
    /\ UNCHANGED <<files, dirs>> /\ OnDisk

-----------------------------------------------------------------------------
(* The command loop *)
\* What is in doubt: the tracks and folders of an unfinished journal or of a running encoder.
PathsOf(x) == {x[f] : f \in DOMAIN x \cap {"src", "dst", "path"}}
TracksOf(x) == {x[f] : f \in DOMAIN x \cap {"track"}}
DirsOf(x) == {IF p \in Dirs THEN p ELSE p.dir : p \in PathsOf(x)}
             \cup {x[f] : f \in DOMAIN x \cap {"dir"}}
             \cup {rows[t].path.dir : t \in TracksOf(x) \cap DOMAIN rows}
Shares(r, x) ==
    \/ r.kind = "reconcile"
    \/ TracksOf(r) \cap TracksOf(x) # {}
    \/ DirsOf(r) \cap DirsOf(x) # {}
\* A request for them comes "early" where recovery has a mutation to finish, and "overtakes" an
\* encoder.
Doubts(r) ==
    {"early" : j \in {i \in Unfinished : Shares(r, journals[i].m)}}
    \cup {"overtakes" : k \in {e \in encoded : e[2] \in TracksOf(r) \/ e[4].dir \in DirsOf(r)}}

\* A command arrives: requests of one kind.
Admit ==
    /\ proc = "up" /\ Idle
    /\ Len(journals) < MaxJournals /\ gen < MaxGen
    /\ \E kind \in {r.kind : r \in Requests} \ {"convert"}, n \in 1 .. MaxBatch :
       \E rs \in [1 .. n -> {r \in Requests : r.kind = kind}] :
          /\ n > 1 => kind \in {"move", "delete", "tags", "upload", "restore"}
          /\ todo' = rs
          /\ astray' = astray \cup UNION {Doubts(rs[i]) : i \in 1 .. n}
    /\ UNCHANGED <<disk, index, journals, catalog, proc, op, changed, encoded, owed, crashes, faults>>

\* library_conversion: the job has encoded a copy beside the track and sends its command.
Served == {todo[i] : i \in DOMAIN todo} \cup (IF "m" \in DOMAIN op THEN {op.m} ELSE {})
Stage(t) == <<"convert", t, "lib", rows[t].path>>
Encode ==
    /\ proc = "up" /\ Len(journals) < MaxJournals
    /\ \E t \in DOMAIN rows :
          /\ [kind |-> "convert"] \in Requests
          /\ rows[t].original = NoExt /\ rows[t].path \in DOMAIN files.lib
          /\ \A k \in encoded : k[2] # t
          /\ encoded' = encoded \cup {Stage(t)}
          /\ LET r == [kind |-> "convert", track |-> t, path |-> rows[t].path]
             IN  astray' = astray \cup Doubts(r)
                                  \cup {"overtakes" : x \in {y \in Served : Shares(r, y)}}
          /\ art' = Put(art, Stage(t),
                        [files.lib[rows[t].path] EXCEPT !.form = "aac"])
    /\ UNCHANGED <<files, dirs, index, journals, catalog, proc, op, todo, changed, owed, crashes, faults>>

AdmitConvert ==
    /\ proc = "up" /\ Idle
    /\ Len(journals) < MaxJournals
    /\ \E k \in encoded :
          /\ todo' = <<[kind |-> "convert", track |-> k[2], stage |-> k]>>
          /\ encoded' = encoded \ {k}
    /\ UNCHANGED <<disk, index, journals, catalog, proc, op, changed, owed, astray, crashes, faults>>

\* The upload's destination (resolve_upload_destination): Rename tries the spare stem.
Resolved(r) ==
    LET taken(p) == p \in DOMAIN files.lib
        spare == [r.path EXCEPT !.stem = r.spare]
    IN  CASE r.path.dir \notin dirs.lib -> <<>>
          [] ~taken(r.path) -> <<r.path, r.policy = "overwrite">>
          [] r.policy = "overwrite" -> <<r.path, TRUE>>
          [] r.policy = "rename" /\ ~taken(spare) -> <<spare, FALSE>>
          [] OTHER -> <<>>

\* The mutation a request stands for, or <<>> when it is answered at once.
MoveTrack(r) ==
    IF rows[r.track].path = r.dst THEN <<>>
    ELSE <<[kind |-> "move", track |-> r.track, src |-> rows[r.track].path, dst |-> r.dst]>>
DeleteTrack(r) == <<[kind |-> "delete", track |-> r.track, path |-> rows[r.track].path]>>
UpdateTrackMetadata(r) ==
    <<[kind |-> "tags", track |-> r.track, path |-> rows[r.track].path, tag |-> r.tag]>>
RestoreTrack(r) ==
    IF rows[r.track].original = NoExt THEN <<>>
    ELSE <<[kind |-> "restore", track |-> r.track, src |-> rows[r.track].path,
            dst |-> OriginalPath(rows[r.track])]>>
ConvertTrack(r) ==
    IF rows[r.track].original # NoExt THEN <<>>
    ELSE <<[kind |-> "convert", track |-> r.track, src |-> rows[r.track].path, stage |-> r.stage,
            dst |-> [rows[r.track].path EXCEPT !.ext = Copy]]>>
PublishUpload(r) ==
    IF Resolved(r) = <<>> THEN <<>>
    ELSE <<[kind |-> "upload", dst |-> Resolved(r)[1], replace |-> Resolved(r)[2]]>>
MutationOf(r) ==
    CASE "track" \in DOMAIN r /\ r.track \notin DOMAIN rows -> <<>>
      [] r.kind = "move" -> MoveTrack(r)
      [] r.kind = "delete" -> DeleteTrack(r)
      [] r.kind = "tags" -> UpdateTrackMetadata(r)
      [] r.kind = "restore" -> RestoreTrack(r)
      [] r.kind = "convert" -> ConvertTrack(r)
      [] r.kind = "upload" -> PublishUpload(r)
      [] OTHER -> <<r>>

\* The audio a path stands for: its file's, or where an interrupted mutation has taken the file
\* away, that of what is kept under its stem.
Stands(p) ==
    LET kept == {files.org[q] : q \in Originals(p)}
                \cup {art[k] : k \in {h \in DOMAIN art : h[4].dir = p.dir /\ h[4].stem = p.stem}}
    IN  IF p \in DOMAIN files.lib THEN {files.lib[p].audio} ELSE {c.audio : c \in kept}

\* Audio the client gives up by the request r that became x.
GivenUp(r, x) ==
    CASE x.kind = "delete" -> Stands(x.path)
      [] x.kind = "upload" /\ r.policy = "overwrite" -> Stands(x.dst)
      [] x.kind = "delete_folder" /\ x.recursive ->
           UNION {Stands(p) : p \in Inside("lib", x.dir) \cup {q \in {rows[t].path : t \in DOMAIN rows} : q.dir = x.dir}}
      [] OTHER -> {}

\* The upload replaces the streaming copy of a converted track.
OverConverted(x) == x.kind = "upload" /\ \E t \in RowAt(x.dst) : rows[t].original # NoExt

StartMutation(j, x, replay, step) ==
    op' = [j |-> j, m |-> x, replay |-> replay, step |-> step, root |-> "lib", file |-> <<>>,
           orig |-> FALSE, from |-> <<>>, to |-> <<>>, next |-> "none", moved |-> "no", tag |-> 0]

TakeRequest ==
    /\ proc = "up" /\ op = NoOp /\ todo # <<>> /\ Head(todo).kind # "reconcile"
    /\ LET r == Head(todo)
           x == MutationOf(r)
           j == Len(journals) + 1
       IN  /\ todo' = Tail(todo)
           /\ IF x = <<>>
              THEN /\ art' = IF r.kind = "convert" THEN Drop(art, r.stage) ELSE art
                   /\ UNCHANGED <<op, owed, astray>>
              ELSE /\ StartMutation(j, x[1], FALSE, "plan")
                   /\ art' = IF r.kind = "upload"
                             THEN Put(art, <<"upload", j, "lib", x[1].dst>>,
                                      [audio |-> r.audio, form |-> "full", tag |-> 0])
                             ELSE art
                   /\ owed' = (owed \ GivenUp(r, x[1])) \cup (IF r.kind = "upload" THEN {r.audio} ELSE {})
                   /\ astray' = astray \cup (IF OverConverted(x[1]) THEN {"converted"} ELSE {})
    /\ UNCHANGED <<files, dirs, index, journals, catalog, proc, changed, encoded, crashes, faults>>

Plan ==
    /\ op.step = "plan"
    /\ journals' = Append(journals, [state |-> "planned", m |-> op.m])
    /\ Goto("start")
    /\ UNCHANGED <<disk, index, catalog, proc, todo, changed, env>>

Start ==
    /\ op.step = "start"
    /\ journals' = [journals EXCEPT ![op.j].state = "applying"]
    /\ Goto(m.kind)
    /\ UNCHANGED <<disk, index, catalog, proc, todo, changed, env>>

Publish ==
    /\ proc = "up" /\ op = NoOp /\ todo = <<>> /\ changed
    /\ catalog' = CatalogOf(rows, gen)
    /\ changed' = FALSE
    /\ UNCHANGED <<disk, index, journals, proc, op, todo, env>>

-----------------------------------------------------------------------------
(* Reconciliation *)
ReconcileBegin ==
    /\ \/ proc = "up" /\ op = NoOp /\ todo # <<>> /\ Head(todo).kind = "reconcile" /\ todo' = Tail(todo)
       \/ op.step = "scan" /\ UNCHANGED todo
    /\ scan' = "reconciling"
    /\ op' = [step |-> "discover"]
    /\ UNCHANGED <<disk, rows, gen, journals, catalog, proc, changed, env>>

Reconciled ==
    LET found == DOMAIN files.lib
        known == {p \in found : RowAt(p) # {}}
        fresh == CHOOSE f \in [found \ known -> NewId .. NewId + Cardinality(found)] : IsInjective(f)
        idOf(p) == IF p \in known THEN CHOOSE t \in RowAt(p) : TRUE ELSE fresh[p]
    IN  [t \in {idOf(p) : p \in found} |->
            LET p == CHOOSE q \in found : idOf(q) = t
            IN  [path |-> p, tag |-> files.lib[p].tag,
                 original |-> IF p \in known THEN rows[t].original ELSE NoExt]]

ReconcileCommit ==
    /\ op.step = "discover"
    /\ rows' = Reconciled
    /\ gen' = gen + 1
    /\ scan' = "current"
    /\ changed' = TRUE
    /\ op' = NoOp
    /\ UNCHANGED <<disk, journals, catalog, proc, todo, env>>

-----------------------------------------------------------------------------
(* Start, death and failing calls *)
Crash ==
    /\ proc \in {"up", "recovering"} /\ crashes < MaxCrashes
    /\ proc' = "down"
    /\ op' = NoOp /\ todo' = <<>> /\ changed' = FALSE /\ encoded' = {}
    /\ crashes' = crashes + 1
    /\ UNCHANGED <<disk, index, journals, catalog, owed, astray, faults>>

Restart ==
    /\ proc \in {"down", "refused"}
    /\ proc' = "recovering"
    /\ UNCHANGED <<disk, index, journals, catalog, op, todo, changed, env>>

\* Mutant: an unfinished journal is run as if for the first time.
RecoverAfresh ==
    /\ proc = "recovering" /\ op = NoOp /\ Unfinished # {}
    /\ LET j == CHOOSE i \in Unfinished : \A k \in Unfinished : i <= k
       IN  /\ journals' = [journals EXCEPT ![j].state = "applying"]
           /\ StartMutation(j, journals[j].m, FALSE, journals[j].m.kind)
    /\ UNCHANGED <<disk, index, catalog, proc, todo, changed, env>>
\* recover_library_mutations: the oldest unfinished journal is replayed.
RecoverNext ==
    /\ proc = "recovering" /\ op = NoOp /\ Unfinished # {}
    /\ LET j == CHOOSE i \in Unfinished : \A k \in Unfinished : i <= k
       IN  /\ journals' = [journals EXCEPT ![j].state = "applying"]
           /\ StartMutation(j, journals[j].m, TRUE, journals[j].m.kind)
    /\ UNCHANGED <<disk, index, catalog, proc, todo, changed, env>>

StartCoordinator ==
    /\ proc = "recovering" /\ op = NoOp /\ Unfinished = {}
    /\ scan' = IF scan = "reconciling" THEN "failed" ELSE scan
    /\ catalog' = CatalogOf(rows, gen)
    /\ proc' = "up"
    /\ UNCHANGED <<disk, rows, gen, journals, op, todo, changed, env>>

Fails == op # NoOp /\ faults < MaxFaults /\ faults' = faults + 1

\* An I/O or database error that recovery must finish; a failed tag publication first tries to
\* put the source back, and a failed scan is recorded.
FailWithRecovery ==
    /\ Fails
    /\ Abandon
    /\ scan' = IF op.step = "discover" THEN "failed" ELSE scan
    /\ \/ UNCHANGED <<files, art>>
       \/ /\ op.step = "tag_publish"
          /\ files' = [files EXCEPT ![op.root] = Put(@, op.file, art[Artifact("tag_backup")])]
          /\ art' = Drop(art, Artifact("tag_backup"))
    /\ UNCHANGED <<dirs, rows, gen, journals, catalog, changed, encoded, owed, astray, crashes>>

\* The calls whose failure refuses the mutation instead: SafeIo, before_any_change, the tag
\* adapter and the creation of a folder.
RefusedCall ==
    CASE op.step = "move" -> /\ m.src \in DOMAIN files.lib
                             /\ Originals(m.src) # {} \/ m.dst.dir \notin dirs.lib
      [] op.step = "delete" -> Originals(m.path) # {}
      [] op.step = "upload" -> /\ ~m.replace
                               /\ UploadStage \in DOMAIN art /\ m.dst \notin DOMAIN files.lib
      [] op.step = "convert" -> m.src \notin DOMAIN files.org
      [] op.step = "restore" -> m.dst \in DOMAIN files.org
      [] op.step \in {"copy_sync", "copy_publish"} -> op.next # "rollback_source"
      [] op.step = "rename_folder" -> m.src \in dirs.lib \cap dirs.org
      [] OTHER -> op.step \in {"tag_stage", "create_folder"}
\* RootedPath: a path that cannot be looked up refuses the mutation as well.
RefusedLookup ==
    op.step \in {"move", "delete", "delete_file", "tags", "tag_open", "upload", "convert", "restore",
                 "rename_folder", "delete_folder", "delete_originals"}
\* The refusals that come before the mutation's first change of the disk.
Clean ==
    /\ op.step \in {"move", "delete", "upload", "convert", "rename_folder", "create_folder", "restore"}
    /\ RefusedCall
    /\ op.step = "restore" => ~apart
FailSafely ==
    /\ Fails
    /\ RefusedCall \/ RefusedLookup
    /\ Refuse
    /\ art' = IF op.step = "tag_stage" THEN Drop(art, Artifact("tag_stage")) ELSE art
    /\ astray' = astray \cup (IF Clean THEN {} ELSE {"refused"})
    /\ UNCHANGED <<files, dirs, index, journals, catalog, proc, todo, changed, encoded, owed, crashes>>

\* The stage of an interrupted conversion is gone at the next start.
LoseStage ==
    /\ proc = "down" /\ faults < MaxFaults
    /\ \E k \in DOMAIN art : k[1] = "convert" /\ art' = Drop(art, k)
    /\ faults' = faults + 1
    /\ UNCHANGED <<files, dirs, index, journals, catalog, proc, op, todo, changed, encoded, owed, astray, crashes>>

-----------------------------------------------------------------------------
Init ==
    /\ \E first \in Libraries :
          /\ files = [lib |-> first, org |-> <<>>]
          /\ dirs = [lib |-> {p.dir : p \in DOMAIN first}, org |-> {}]
          /\ \E f \in [1 .. Cardinality(DOMAIN first) -> DOMAIN first] :
                /\ IsInjective(f)
                /\ rows = [t \in DOMAIN f |-> [path |-> f[t], tag |-> first[f[t]].tag, original |-> NoExt]]
          /\ owed = {first[p].audio : p \in DOMAIN first}
    /\ art = <<>>
    /\ gen = 1 /\ scan = "current"
    /\ journals = <<>>
    /\ catalog = CatalogOf(rows, 1)
    /\ proc = "up" /\ op = NoOp /\ todo = <<>> /\ changed = FALSE
    /\ encoded = {}
    /\ astray = {}
    /\ apart \in BOOLEAN
    /\ crashes = 0 /\ faults = 0

FileStep ==
    \/ Move \/ MoveFile \/ Delete \/ DeleteFile
    \/ Tags \/ TagOpen \/ TagStage \/ TagBackup \/ TagPublish \/ TagClean
    \/ PublishReplacing \/ UploadPublish \/ UploadClean \/ PublishNew \/ UploadUnlink
    \/ Convert \/ ConvertPublish \/ ConvertSource \/ RollbackSource \/ CopySync \/ CopyPublish
    \/ Restore \/ RestoreSource \/ RestorePath
    \/ CreateFolder \/ RenameFolder \/ RenameFolderFiles \/ DeleteFolder \/ DeleteOriginals

Coordinator ==
    \/ FileStep \/ Inspect \/ Commit \/ CloseFailed \/ DiscardStage
    \/ TakeRequest \/ Plan \/ Start \/ Publish
    \/ ReconcileBegin \/ ReconcileCommit
    \/ RecoverNext \/ StartCoordinator

Asked == Admit \/ Encode \/ AdmitConvert
Failed == FailWithRecovery \/ FailSafely \/ LoseStage
Next == (Coordinator \/ Asked \/ Crash \/ Restart \/ Failed) /\ UNCHANGED apart

-----------------------------------------------------------------------------
States == {"planned", "applying", "committed", "failed"}

TypeOK ==
    /\ \A root \in Roots : DOMAIN files[root] \subseteq Paths /\ dirs[root] \subseteq Dirs
    /\ \A t \in DOMAIN rows : rows[t].path \in Paths /\ rows[t].original \in Exts \cup {NoExt}
    /\ scan \in {"current", "reconciling", "failed"}
    /\ \A j \in DOMAIN journals : journals[j].state \in States
    /\ proc \in {"up", "recovering", "down", "refused"}
    /\ changed \in BOOLEAN /\ astray \subseteq {"refused", "early", "overtakes", "converted"}

Settled == proc = "up" /\ Idle /\ Unfinished = {}
AllFiles == {files.lib[p] : p \in DOMAIN files.lib} \cup {files.org[p] : p \in DOMAIN files.org}
            \cup {art[k] : k \in DOMAIN art}

\* Whatever step the process dies at or the disk fails at, the full file of every piece of audio
\* that nobody asked to remove is on disk, in the library, kept as an original or beside it.
\* Excepted: a command that came early, for a track or a folder that a failed mutation still has to
\* finish.  The coordinator serves it (library.rs:958), and the replay at the next start deletes
\* or takes for its own source what the command has put there.  Two tracks of one folder and one
\* stem, which share the place of their originals (originals.rs:46), are in a run of their own.
NothingLost == "early" \notin astray => \A a \in owed : \E c \in AllFiles : c.audio = a /\ c.form = "full"

\* Once no mutation is open, the index lists the library's files and no others, with their tags.
IndexMatchesDisk ==
    Settled => /\ {rows[t].path : t \in DOMAIN rows} = DOMAIN files.lib
               /\ \A t \in DOMAIN rows : rows[t].tag = files.lib[rows[t].path].tag

\* Once no mutation is open, a converted track has its original under its own name, the library
\* has its streaming copy with the same audio and tags, and no other original is kept.
OriginalsFollow ==
    Settled => /\ DOMAIN files.org = {OriginalPath(rows[t]) : t \in {u \in DOMAIN rows : rows[u].original # NoExt}}
               /\ \A t \in DOMAIN rows : rows[t].original # NoExt =>
                     LET kept == files.org[OriginalPath(rows[t])]
                         copy == files.lib[rows[t].path]
                     IN  kept.form = "full" /\ copy.form = "aac" /\ kept.audio = copy.audio /\ kept.tag = copy.tag

\* The index is true of the disk, the kept originals included, whatever call failed and whatever
\* step the process died at.  Excepted, each recorded in astray when it happens:
\*   - "refused": a lookup, a tag edit or a copy fails after the mutation has changed the disk, and
\*     is answered as a refusal that needs no recovery (music-media mutation.rs:1132).  The
\*     original has its new tags and the library file has not (mutation.rs:346), or a restored
\*     pair is left split between two file systems (mutation/conversion.rs:175);
\*   - "early": a command is served for what a failed mutation still has to finish (library.rs:958);
\*   - "overtakes": a track is edited, moved or replaced while its copy is being encoded, and the
\*     copy of what it was is published (library.rs:1460), although README.md:24 has edits apply to
\*     both files;
\*   - "converted": an upload replaces the streaming copy of a converted track and the row keeps
\*     the original of the old one (music-storage library.rs:1369), although ENGINEERING.md:95 has
\*     the original be part of the track.
IndexIsTrue == astray = {} => IndexMatchesDisk /\ OriginalsFollow

\* Between commands the playback actor has the tracks and the generation of the index.
CatalogCurrent == proc = "up" /\ Idle => catalog = CatalogOf(rows, gen)

\* A command always ends and a dead server always comes up again: no step of a mutation is left
\* without a next one, and recovery ends every journal it finds.  Excepted: a command that came
\* early, for what a failed mutation still has to finish.  The journal of that mutation may then
\* find other rows than it expects and refuse this start and every later one (library.rs:1664),
\* although RUST_ARCHITECTURE_REASSESSMENT.md:201 has recovery complete or restore.
ComesUp == []<>((proc = "up" /\ Idle) \/ "early" \in astray)

-----------------------------------------------------------------------------
Spec == Init /\ [][Next]_vars
\* The coordinator runs what it has begun, and a dead or refused server is started again.
LiveSpec == Spec /\ WF_vars(Coordinator /\ UNCHANGED apart) /\ WF_vars(Restart /\ UNCHANGED apart)
=============================================================================
