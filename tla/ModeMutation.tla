---------------------------- MODULE ModeMutation ----------------------------
(***************************************************************************)
(* The mode coordinator: mutations of the mode documents under a recovery  *)
(* journal, reloads of the directory, and recovery at the next start       *)
(* (music-application modes.rs, music-media mode_mutation.rs, music-       *)
(* storage mode_import.rs and recovery.rs).                                *)
(*                                                                         *)
(* Every file-system call and every transaction is one step; between two   *)
(* of them the process may die, a call may fail, and a user may edit the   *)
(* documents by hand or the playlists through their own handlers.          *)
(***************************************************************************)
EXTENDS ModeDocuments, FiniteSets

CONSTANTS
    FirstDisk,     \* [mode -> documents] before the first start
    Edits,         \* [mode, doc, value] documents a user may write by hand
    ListEdits,     \* whether users create and rename playlists meanwhile
    MaxMutations, MaxGenerations, MaxCrashes, MaxFaults, MaxEdits

ASSUME ModeMutationAssumption ==
    /\ FirstDisk \in [Modes -> [Docs -> Values]]
    /\ Edits \subseteq [mode : Modes, doc : Docs, value : Values]
    /\ ListEdits \in BOOLEAN
    /\ {MaxMutations, MaxGenerations, MaxCrashes, MaxFaults, MaxEdits} \subseteq Nat

VARIABLES
    disk,      \* the modes directory: [mode -> [dir, docs, marker]]
    stage,     \* the staging directory of the newest journal: [cand, back, tree]
    journal,   \* recovery_journal of the modes domain: [m, existed, state, listed]
    lists,     \* playlists [by, mode, name]; `by` is the journal that created it, 0 a user
    snapshot,  \* the catalog the handlers read, [gen, modes]; generation 0 before a first load
    told,      \* the catalog the playback owner was told
    asked,     \* the mutation in the coordinator's mailbox or at work, or NoRequest
    work,      \* the coordinator: [at, i, live, fatal, bad, bundle]
    prior,     \* documents and playlists when the newest mutation was prepared: [of, modes, lists]
    unread,    \* modes a user has edited since the catalog last read them
    disturbed, \* since the newest mutation was prepared a user has edited something, or a
               \* document was linked into place and its candidate's name not released
    crashes, faults, edits

vars == <<disk, stage, journal, lists, snapshot, told, asked, work, prior, unread, disturbed,
          crashes, faults, edits>>
catalogs == <<snapshot, told>>
history == <<prior, unread, disturbed>>
bounds == <<crashes, edits>>

-----------------------------------------------------------------------------
NoTree == [dir |-> FALSE, docs |-> NoBundle, marker |-> 0]
NoStage == [cand |-> NoBundle, back |-> NoBundle, tree |-> NoTree]
NoRequest == [m |-> "none"]
NoCatalog == [gen |-> 0, modes |-> [m \in Modes |-> NoBundle]]
Bundles == [m \in Modes |-> disk[m].docs]

j == Len(journal)
entry == journal[j]
mode == entry.m.mode
Unfinished == j > 0 /\ entry.state \in {"planned", "applying", "rolling_back"}

\* The writes of a plan, as places in the order they are applied, and the one at work.
Writes == {k \in DOMAIN Order : Order[k] \in DOMAIN entry.m.docs}
FirstOf(places) == CHOOSE k \in places : \A l \in places : k <= l
LastOf(places) == CHOOSE k \in places : \A l \in places : l <= k
doc == Order[work.i]
Target == disk[mode].docs[doc]
Writing == entry.m.op \in {"put", "import"}

SetDoc(v) == [disk EXCEPT ![mode].docs[doc] = v]
Move(s) == journal' = [journal EXCEPT ![j].state = s]
Resting(at) == [at |-> at, i |-> 1, live |-> FALSE, fatal |-> FALSE, bad |-> FALSE,
                bundle |-> NoBundle]
Goto(at) == work' = [work EXCEPT !.at = at]
Die == work' = Resting("off")
Fault == faults < MaxFaults /\ faults' = faults + 1

Init ==
  /\ disk = [m \in Modes |-> [dir |-> FirstDisk[m] # NoBundle, docs |-> FirstDisk[m],
                              marker |-> 0]]
  /\ stage = NoStage /\ journal = <<>> /\ lists = {}
  /\ snapshot = NoCatalog /\ told = NoCatalog /\ asked = NoRequest
  /\ work = Resting("off")
  /\ prior = [of |-> 0, modes |-> Bundles, lists |-> {}] /\ unread = {} /\ disturbed = FALSE
  /\ crashes = 0 /\ faults = 0 /\ edits = 0

(* A call of the coordinator at `at`: it succeeds, or it fails because     *)
(* things are not as it expects or for a reason of its own.                *)
Call(at, ok, done, fail) ==
  /\ work.at = at
  /\ \/ ok /\ done /\ UNCHANGED faults
     \/ /\ (~ok /\ UNCHANGED faults) \/ Fault
        /\ fail
        /\ UNCHANGED <<disk, stage, lists>>
  /\ UNCHANGED <<catalogs, history, bounds>>

\* Calls inside one mutation: the request stays at work.
Within(at, ok, done, fail) == Call(at, ok, done, fail) /\ UNCHANGED asked
Retreat == Goto("roll") /\ UNCHANGED journal

-----------------------------------------------------------------------------
(* perform_mutation: admission, staging, the journal.                      *)

\* A handler makes its mutation from the catalog it reads, and names its generation.
Ask(m) ==
  LET saw == snapshot.modes[m.mode]
  IN  /\ asked = NoRequest /\ j < MaxMutations /\ snapshot.gen > 0
      /\ MadeFrom(saw, m)
      /\ asked' = [m |-> m, gen |-> snapshot.gen, saw |-> saw]
      /\ UNCHANGED <<disk, stage, journal, lists, catalogs, work, history, bounds, faults>>

\* Mutant: the generation is not compared.
AdmittedAnyGeneration(r) == Permitted(snapshot.modes[r.m.mode], r.m)

Admitted(r) == r.gen = snapshot.gen /\ Permitted(snapshot.modes[r.m.mode], r.m)

\* prepare: what the directory must hold, or must not, for the mutation to be staged.
Stageable(m) ==
  LET t == disk[m.mode]
  IN  CASE m.op = "create_mode" -> ~t.dir
        [] m.op = "delete_mode" -> t.dir
        [] m.op = "put"    -> \A d \in DOMAIN m.docs : m.create <=> t.docs[d] = "none"
        [] m.op = "delete" -> \A d \in DOMAIN m.docs : t.docs[d] # "none"
        [] m.op = "import" -> t.dir /\ \A d \in DOMAIN m.docs :
                                         d # "manifest" <=> t.docs[d] = "none"

Reject ==
  /\ work.at = "idle" /\ asked # NoRequest
  /\ ~(Admitted(asked) /\ Stageable(asked.m))
  /\ asked' = NoRequest
  /\ UNCHANGED <<disk, stage, journal, lists, catalogs, work, history, bounds, faults>>

Prepare ==
  LET m == asked.m
  IN  /\ work.at = "idle" /\ asked # NoRequest
      /\ Admitted(asked) /\ Stageable(m)
      /\ snapshot.gen < MaxGenerations
      /\ stage' = CASE m.op \in {"put", "import"} -> [NoStage EXCEPT !.cand = Result(NoBundle, m)]
                    [] m.op = "create_mode" ->
                         [NoStage EXCEPT !.tree = [dir |-> TRUE, docs |-> Result(NoBundle, m),
                                                   marker |-> j + 1]]
                    [] OTHER -> NoStage
      /\ prior' = [of |-> j + 1, modes |-> Bundles, lists |-> lists]
      /\ disturbed' = FALSE
      /\ Goto("staged")
      /\ UNCHANGED <<disk, journal, lists, catalogs, asked, unread, bounds, faults>>

(* create_recovery_journal, the plan as prepare found the directory.       *)
(* Without a journal the staging is cleaned and the owner ends.            *)
CreateJournal ==
  LET m == asked.m
  IN  /\ work.at = "staged"
      /\ \/ /\ journal' = Append(journal,
                 [m |-> m, state |-> "planned", listed |-> FALSE,
                  existed |-> {d \in DOMAIN m.docs : prior.modes[m.mode][d] # "none"}])
            /\ Goto("planned") /\ UNCHANGED <<stage, faults>>
         \/ Fault /\ stage' = NoStage /\ Die /\ UNCHANGED journal
      /\ UNCHANGED <<disk, lists, catalogs, asked, history, bounds>>

StartApplying ==
  Within("planned", TRUE,
         /\ Move("applying")
         /\ work' = [work EXCEPT !.at = "apply", !.i = FirstOf(Writes), !.live = TRUE]
         /\ UNCHANGED <<disk, stage, lists>>,
         Die /\ UNCHANGED journal)

-----------------------------------------------------------------------------
(* FilesystemModeMutations::apply.                                         *)

NextWrite ==
  LET rest == {k \in Writes : k > work.i}
  IN  work' = IF rest = {} THEN [work EXCEPT !.at = "data"]
              ELSE [work EXCEPT !.at = "apply", !.i = FirstOf(rest)]

(* apply_file_write over a document: it is moved to the backup, the        *)
(* candidate takes its place, and what was published is read back.         *)
BackUp ==
  /\ work.at = "apply" /\ Writing /\ doc \in entry.existed
  /\ Within("apply", Target # "none",
            /\ disk' = SetDoc("none")
            /\ stage' = [stage EXCEPT !.back[doc] = Target]
            /\ Goto("place") /\ UNCHANGED <<journal, lists>>,
            Retreat)

Place ==
  Within("place", disk[mode].dir /\ Target = "none",
         /\ disk' = SetDoc(stage.cand[doc])
         /\ stage' = [stage EXCEPT !.cand[doc] = "none"]
         /\ Goto("check") /\ UNCHANGED <<journal, lists>>,
         Retreat)

CheckHash ==
  Within("check", Target = entry.m.docs[doc],
         NextWrite /\ UNCHANGED <<disk, stage, journal, lists>>,
         Retreat)

(* A link whose candidate keeps its name: the rollback will take the       *)
(* document for somebody else's, and neither the journal nor the catalog   *)
(* knows of it.                                                            *)
Torn == unread' = unread \union {mode} /\ disturbed' = TRUE

(* apply_file_write of a new document: hard_link never clobbers; then the  *)
(* candidate's own name is released.                                       *)
Link ==
  /\ work.at = "apply" /\ Writing /\ doc \notin entry.existed
  /\ Within("apply", disk[mode].dir /\ Target \in {"none", entry.m.docs[doc]},
            /\ disk' = SetDoc(entry.m.docs[doc])
            /\ Goto("release") /\ UNCHANGED <<stage, journal, lists>>,
            Retreat)

Release ==
  /\ work.at = "release"
  /\ \/ /\ stage' = [stage EXCEPT !.cand[doc] = "none"]
        /\ NextWrite /\ UNCHANGED <<journal, unread, disturbed, faults>>
     \/ Fault /\ Retreat /\ Torn /\ UNCHANGED stage
  /\ UNCHANGED <<disk, lists, catalogs, asked, prior, bounds>>

MoveAway ==
  /\ work.at = "apply" /\ entry.m.op = "delete"
  /\ Within("apply", Target # "none",
            /\ stage' = [stage EXCEPT !.back[doc] = Target]
            /\ disk' = SetDoc("none")
            /\ Goto("data") /\ UNCHANGED <<journal, lists>>,
            Retreat)

PublishTree ==
  /\ work.at = "apply" /\ entry.m.op = "create_mode"
  /\ Within("apply", ~disk[mode].dir,
            /\ disk' = [disk EXCEPT ![mode] = stage.tree]
            /\ stage' = [stage EXCEPT !.tree = NoTree]
            /\ Goto("data") /\ UNCHANGED <<journal, lists>>,
            Retreat)

MoveTreeAway ==
  /\ work.at = "apply" /\ entry.m.op = "delete_mode"
  /\ Within("apply", disk[mode].dir,
            /\ stage' = [stage EXCEPT !.tree = disk[mode]]
            /\ disk' = [disk EXCEPT ![mode] = NoTree]
            /\ Goto("data") /\ UNCHANGED <<journal, lists>>,
            Retreat)

\* Mutant: the journal does not record the playlist.
ApplyImportUnrecorded ==
  LET new == [by |-> j, mode |-> mode, name |-> "imported"]
  IN  Within("data",
             entry.m.list => ~\E l \in lists : l.mode = mode /\ l.name = "imported",
             /\ lists' = IF entry.m.list THEN lists \union {new} ELSE lists
             /\ Goto("verify") /\ UNCHANGED <<disk, stage, journal>>,
             Retreat)

\* apply_import: the playlist and the journal's record of it in one transaction.
ApplyImport ==
  LET new == [by |-> j, mode |-> mode, name |-> "imported"]
  IN  Within("data",
             entry.m.list => ~\E l \in lists : l.mode = mode /\ l.name = "imported",
             /\ lists' = IF entry.m.list THEN lists \union {new} ELSE lists
             /\ journal' = [journal EXCEPT ![j].listed = entry.m.list]
             /\ Goto("verify") /\ UNCHANGED <<disk, stage>>,
             Retreat)

-----------------------------------------------------------------------------
(* Verification, commit, publication.                                      *)

\* source.load: the mode must have gone, or be a valid bundle.
Verify ==
  Within("verify",
         IF entry.m.op = "delete_mode" THEN ~disk[mode].dir ELSE Loads(disk[mode].docs),
         /\ work' = [work EXCEPT !.at = "commit", !.bundle = disk[mode].docs]
         /\ UNCHANGED <<disk, stage, journal, lists>>,
         Retreat)

\* A commit the journal does not take ends the owner, after a rollback.
Commit ==
  Within("commit", TRUE,
         Move("committed") /\ Goto("publish") /\ UNCHANGED <<disk, stage, lists>>,
         work' = [work EXCEPT !.at = "roll", !.fatal = TRUE] /\ UNCHANGED journal)

\* Mutant: the proposed documents are published, not the ones read back.
PublishProposed ==
  /\ work.at = "publish"
  /\ \/ /\ told' = [gen |-> snapshot.gen + 1,
                    modes |-> [snapshot.modes EXCEPT ![mode] = Result(@, entry.m)]]
        /\ Goto("replace") /\ UNCHANGED faults
     \/ Fault /\ Die /\ UNCHANGED told
  /\ UNCHANGED <<disk, stage, journal, lists, snapshot, asked, history, bounds>>

\* The playback owner is told first; the handlers' catalog follows.
Publish ==
  /\ work.at = "publish"
  /\ \/ /\ told' = [gen |-> snapshot.gen + 1,
                    modes |-> [snapshot.modes EXCEPT ![mode] = work.bundle]]
        /\ Goto("replace") /\ UNCHANGED faults
     \/ Fault /\ Die /\ UNCHANGED told
  /\ UNCHANGED <<disk, stage, journal, lists, snapshot, asked, history, bounds>>

ReplaceSnapshot ==
  /\ work.at = "replace"
  /\ snapshot' = told
  /\ unread' = IF disk[mode].docs = work.bundle THEN unread \ {mode} ELSE unread \union {mode}
  /\ Goto("finish")
  /\ UNCHANGED <<disk, stage, journal, lists, told, asked, prior, disturbed, bounds, faults>>

\* finish: its errors are ignored.
Finish ==
  /\ work.at = "finish"
  /\ \/ /\ disk' = [disk EXCEPT ![mode].marker = 0]
        /\ stage' = NoStage
        /\ UNCHANGED faults
     \/ Fault /\ UNCHANGED <<disk, stage>>
  /\ asked' = NoRequest
  /\ work' = Resting("idle")
  /\ UNCHANGED <<journal, lists, catalogs, history, bounds>>

-----------------------------------------------------------------------------
(* rollback_mode_mutation, and the same rollback at the next start.  When  *)
(* it fails, a live one marks the journal failed and ends the owner; at    *)
(* startup the journal stays as it is and the server does not start.       *)

GiveUp ==
  /\ work' = IF work.live THEN [work EXCEPT !.at = "mark_failed"] ELSE Resting("refused")
  /\ UNCHANGED journal

StartRollback ==
  Within("roll", TRUE,
         Move("rolling_back") /\ Goto("roll_data") /\ UNCHANGED <<disk, stage, lists>>,
         /\ work' = Resting(IF work.live THEN "off" ELSE "refused")
         /\ UNCHANGED journal)

\* rollback_import: by id, mode and name.  A live rollback goes on to the files all the same.
RollBackImport ==
  LET mine == {l \in lists : l.by = j}
      ToFiles(bad) == /\ work' = [work EXCEPT !.at = "roll_files", !.i = LastOf(Writes), !.bad = bad]
                      /\ UNCHANGED journal
  IN  Within("roll_data",
             entry.listed => \A l \in mine : l.name = "imported",
             /\ lists' = IF entry.listed THEN lists \ mine ELSE lists
             /\ ToFiles(FALSE) /\ UNCHANGED <<disk, stage>>,
             IF work.live THEN ToFiles(TRUE) ELSE GiveUp)

PreviousWrite ==
  LET rest == {k \in Writes : k < work.i}
  IN  work' = IF rest = {} THEN [work EXCEPT !.at = "roll_stage"]
              ELSE [work EXCEPT !.at = "roll_files", !.i = LastOf(rest)]

\* rollback_file_write of a replaced document: the replacement goes, if it is still that.
RollBackReplaced ==
  /\ work.at = "roll_files" /\ Writing /\ doc \in entry.existed
  /\ Within("roll_files",
            stage.back[doc] # "none" => Target \in {"none", entry.m.docs[doc]},
            IF stage.back[doc] = "none"
            THEN PreviousWrite /\ UNCHANGED <<disk, stage, journal, lists>>
            ELSE /\ disk' = SetDoc("none")
                 /\ Goto("restore") /\ UNCHANGED <<stage, journal, lists>>,
            GiveUp)

Restore ==
  Within("restore", disk[mode].dir,
         /\ disk' = SetDoc(stage.back[doc])
         /\ stage' = [stage EXCEPT !.back[doc] = "none"]
         /\ PreviousWrite /\ UNCHANGED <<journal, lists>>,
         GiveUp)

\* rollback_file_write of a new document: one whose candidate is still staged was never ours.
RollBackCreated ==
  LET ours == Target # "none" /\ stage.cand[doc] = "none"
  IN  /\ work.at = "roll_files" /\ Writing /\ doc \notin entry.existed
      /\ Within("roll_files", ours => Target = entry.m.docs[doc],
                /\ disk' = IF ours THEN SetDoc("none") ELSE disk
                /\ PreviousWrite /\ UNCHANGED <<stage, journal, lists>>,
                GiveUp)

RollBackDelete ==
  LET gone == stage.back[doc] # "none"
  IN  /\ work.at = "roll_files" /\ entry.m.op = "delete"
      /\ Within("roll_files", gone => Target = "none" /\ disk[mode].dir,
                /\ disk' = IF gone THEN SetDoc(stage.back[doc]) ELSE disk
                /\ stage' = [stage EXCEPT !.back[doc] = "none"]
                /\ Goto("roll_stage") /\ UNCHANGED <<journal, lists>>,
                GiveUp)

RollBackTree ==
  /\ work.at = "roll_files" /\ entry.m.op = "create_mode"
  /\ Within("roll_files", disk[mode].dir => disk[mode].marker = j,
            /\ disk' = [disk EXCEPT ![mode] = NoTree]
            /\ Goto("roll_stage") /\ UNCHANGED <<stage, journal, lists>>,
            GiveUp)

(* remove_dir_all of a created mode stops half way, and with it the call   *)
(* or the process: any part of the tree may have gone, its marker too.     *)
RemovePartly ==
  /\ work.at = "roll_files" /\ entry.m.op = "create_mode"
  /\ disk[mode].dir /\ disk[mode].marker = j
  /\ \/ Fault /\ GiveUp /\ UNCHANGED crashes
     \/ /\ crashes < MaxCrashes /\ crashes' = crashes + 1
        /\ Die /\ UNCHANGED <<journal, faults>>
  /\ \E D \in SUBSET Docs, k \in {0, j} :
       disk' = [disk EXCEPT ![mode].marker = k,
                            ![mode].docs = [d \in Docs |-> IF d \in D THEN "none" ELSE @[d]]]
  /\ UNCHANGED <<stage, lists, catalogs, asked, history, edits>>

RestoreTree ==
  LET gone == stage.tree.dir
  IN  /\ work.at = "roll_files" /\ entry.m.op = "delete_mode"
      /\ Within("roll_files", gone => ~disk[mode].dir,
                /\ disk' = IF gone THEN [disk EXCEPT ![mode] = stage.tree] ELSE disk
                /\ stage' = [stage EXCEPT !.tree = NoTree]
                /\ Goto("roll_stage") /\ UNCHANGED <<journal, lists>>,
                GiveUp)

RemoveStage ==
  Within("roll_stage", TRUE,
         /\ stage' = NoStage
         /\ Goto(IF work.bad THEN "mark_failed" ELSE "rolled")
         /\ UNCHANGED <<disk, journal, lists>>,
         GiveUp)

\* The rolled back journal is closed: the request is refused, or the start goes on.
CloseJournal ==
  /\ Call("rolled", TRUE,
          /\ Move("rolled_back")
          /\ work' = Resting(CASE ~work.live -> "clean" [] work.fatal -> "off" [] OTHER -> "idle")
          /\ UNCHANGED <<disk, stage, lists>>,
          /\ work' = Resting(IF work.live THEN "off" ELSE "refused")
          /\ UNCHANGED journal)
  /\ asked' = NoRequest

MarkFailed ==
  Within("mark_failed", TRUE,
         Move("failed") /\ Die /\ UNCHANGED <<disk, stage, lists>>,
         Die /\ UNCHANGED journal)

-----------------------------------------------------------------------------
(* Starting, loading, dying.                                               *)

\* recover_mode_mutations: at most one journal is unfinished, the newest.
Start ==
  /\ work.at \in {"off", "refused"}
  /\ work' = Resting(IF ~Unfinished THEN "clean"
                     ELSE IF entry.state = "rolling_back" THEN "roll_data" ELSE "roll")
  /\ snapshot' = NoCatalog /\ told' = NoCatalog /\ asked' = NoRequest
  /\ UNCHANGED <<disk, stage, journal, lists, history, bounds, faults>>

\* cleanup_orphans: the whole staging directory, whatever it holds.
CleanUpOrphans ==
  Within("clean", TRUE,
         stage' = NoStage /\ Goto("load") /\ UNCHANGED <<disk, journal, lists>>,
         work' = Resting("refused") /\ UNCHANGED journal)

(* perform_reload: nothing is published while a mode of the directory does *)
(* not load; a publication that fails ends the owner.                      *)
PerformReload ==
  /\ work.at = "load" \/ (work.at = "idle" /\ snapshot.gen < MaxGenerations)
  /\ \/ /\ \A m \in Modes : disk[m].dir => Loads(disk[m].docs)
        /\ told' = [gen |-> snapshot.gen + 1, modes |-> Bundles]
        /\ snapshot' = told'
        /\ unread' = {}
        /\ work' = Resting("idle") /\ UNCHANGED faults
     \/ /\ \E m \in Modes : disk[m].dir /\ ~Loads(disk[m].docs)
        /\ work' = Resting("idle") /\ UNCHANGED <<catalogs, unread, faults>>
     \/ /\ Fault
        /\ work' = Resting("idle") \/ Die
        /\ UNCHANGED <<catalogs, unread>>
  /\ UNCHANGED <<disk, stage, journal, lists, asked, prior, disturbed, bounds>>

(* The process dies; at the release of a candidate the document is already *)
(* in place.                                                               *)
Crash ==
  /\ crashes < MaxCrashes /\ work.at # "off"
  /\ IF work.at = "release" THEN Torn ELSE UNCHANGED <<unread, disturbed>>
  /\ crashes' = crashes + 1
  /\ Die
  /\ UNCHANGED <<disk, stage, journal, lists, catalogs, asked, prior, faults, edits>>

-----------------------------------------------------------------------------
(* Users beside the coordinator.                                           *)

Edit(e) ==
  /\ edits < MaxEdits /\ edits' = edits + 1
  /\ disk[e.mode].docs[e.doc] # e.value
  /\ disk' = [disk EXCEPT ![e.mode].dir = TRUE, ![e.mode].docs[e.doc] = e.value]
  /\ unread' = unread \union {e.mode} /\ disturbed' = TRUE
  /\ UNCHANGED <<stage, journal, lists, catalogs, asked, work, prior, crashes, faults>>

EditLists ==
  /\ ListEdits /\ edits < MaxEdits /\ edits' = edits + 1
  /\ \/ \E m \in Modes : /\ ~\E l \in lists : l.mode = m /\ l.name = "imported"
                         /\ lists' = lists \union {[by |-> 0, mode |-> m, name |-> "imported"]}
     \/ \E l \in lists : lists' = (lists \ {l}) \union {[l EXCEPT !.name = "renamed"]}
  /\ disturbed' = TRUE
  /\ UNCHANGED <<disk, stage, journal, catalogs, asked, work, prior, unread, crashes, faults>>

Coordinator ==
  \/ Reject \/ Prepare \/ CreateJournal \/ StartApplying
  \/ BackUp \/ Place \/ CheckHash \/ Link \/ Release \/ MoveAway \/ PublishTree \/ MoveTreeAway
  \/ ApplyImport \/ Verify \/ Commit \/ Publish \/ ReplaceSnapshot \/ Finish
  \/ StartRollback \/ RollBackImport \/ RollBackReplaced \/ Restore \/ RollBackCreated
  \/ RollBackDelete \/ RollBackTree \/ RemovePartly \/ RestoreTree \/ RemoveStage \/ CloseJournal \/ MarkFailed
  \/ CleanUpOrphans

Next ==
  \/ Coordinator \/ Start \/ PerformReload \/ Crash \/ EditLists
  \/ \E m \in Mutations : Ask(m)
  \/ \E e \in Edits : Edit(e)

Spec == Init /\ [][Next]_vars

-----------------------------------------------------------------------------
Trees == [dir : BOOLEAN, docs : [Docs -> Values], marker : 0..MaxMutations]
Steps == {"off", "refused", "clean", "load", "idle", "staged", "planned", "apply", "place",
          "check", "release", "data", "verify", "commit", "publish", "replace", "finish",
          "roll", "roll_data", "roll_files", "restore", "roll_stage", "rolled", "mark_failed"}

\* The types of the coordinator's state, and a journal for every mutation past staging.
TypeOK ==
  /\ disk \in [Modes -> Trees]
  /\ stage \in [cand : [Docs -> Values], back : [Docs -> Values], tree : Trees]
  /\ j <= MaxMutations
  /\ \A e \in {journal[k] : k \in DOMAIN journal} :
       /\ e.m \in Mutations /\ e.existed \subseteq Docs /\ e.listed \in BOOLEAN
       /\ e.state \in {"planned", "applying", "committed", "rolling_back", "rolled_back",
                       "failed"}
  /\ \A k \in 1..j - 1 : journal[k].state \in {"committed", "rolled_back", "failed"}
  /\ snapshot.gen \in 0..MaxGenerations /\ told.gen \in 0..MaxGenerations
  /\ snapshot.modes \in [Modes -> [Docs -> Values]] /\ told.modes \in [Modes -> [Docs -> Values]]
  /\ work.at \in Steps /\ work.i \in 0..Len(Order)
  /\ work.at \in Steps \ {"off", "refused", "clean", "load", "idle", "staged"} => j > 0
  /\ unread \subseteq Modes /\ disturbed \in BOOLEAN

Committed == {k \in DOMAIN journal : journal[k].state = "committed"}
Imported(ls) == {l \in ls : l.name = "imported"}

(* What the coordinator shows of the modes and the playlists: until the    *)
(* newest journal is finished, what its mutation found.                    *)
Store == INSTANCE ModeStore WITH
           modes <- IF Unfinished THEN prior.modes ELSE Bundles,
           lists <- {l.mode : l \in Imported(IF Unfinished THEN prior.lists ELSE lists)},
           done <- Cardinality(Committed)

(* Between mutations the handlers and the playback owner have the same     *)
(* catalog, and it is what the directory holds, except modes not read      *)
(* since they were edited by hand or since a new document was linked into  *)
(* them and its candidate could not be released: the rollback leaves that  *)
(* document and tells nobody (perform_mutation, perform_reload,            *)
(* mode_mutation.rs:845).                                                  *)
CatalogIsDisk ==
  work.at = "idle" /\ snapshot.gen > 0 =>
    /\ told = snapshot
    /\ \A m \in Modes \ unread : snapshot.modes[m] = disk[m].docs

(* A handler's read-modify-write is never applied over a catalog it did    *)
(* not read: what is committed is what the handler saw with its change in  *)
(* it, unless the mode was edited by hand, or kept a document of a         *)
(* mutation that was rolled back (mode_mutation.rs:845), and was not read  *)
(* since (expected_generation).                                            *)
CommitsWhatWasSeen ==
  [][work.at = "commit" /\ work'.at = "publish" /\ mode \notin unread
       => work.bundle = Result(asked.saw, asked.m)]_vars

\* An imported playlist stays only if its import was committed, or if taking it back failed and
\* the journal says so (rollback_import, rollback_mode_mutation).
ListsOfCommitted ==
  work.at = "idle" =>
    \A l \in lists : l.by > 0 /\ l.name = "imported" => journal[l.by].state \in {"committed", "failed"}

(* Between mutations the modes are what the newest journal says: as the    *)
(* mutation found them when it was rolled back, with its documents in them *)
(* when it was committed (apply_file_write, rollback_file_write). Excepted *)
(* are a mutation beside a user's edits and one whose call or process      *)
(* ended between the link of a new document and the release of its         *)
(* candidate, whose rollback leaves the document (mode_mutation.rs:845).   *)
Restored ==
  work.at = "idle" /\ j > 0 /\ prior.of = j /\ ~disturbed =>
    /\ entry.state = "rolled_back" => Bundles = prior.modes
    /\ entry.state = "committed" =>
         Bundles = [prior.modes EXCEPT ![mode] = Result(@, entry.m)]

(* Between mutations the modes, the playlists of imports, the catalog of   *)
(* the handlers and the one of the playback owner agree with the journal   *)
(* and with each other (perform_mutation, rollback_mode_mutation).         *)
ModesAreTrue == Restored /\ ListsOfCommitted /\ CatalogIsDisk

(* While the mutation is under way no user edits anything and no end comes *)
(* between the link of a document and the release of its candidate; its    *)
(* mode was read since it was changed, and its rollback did not fail.      *)
Undisturbed ==
  /\ ~disturbed /\ ~disturbed' /\ work.at # "mark_failed"
  /\ work.at = "commit" => mode \notin unread

(* Whatever fails and whenever the process dies, within the removal of a   *)
(* tree too, an undisturbed mutation of the modes takes effect at once and *)
(* as a whole, when its journal is committed, or never (perform_mutation,  *)
(* rollback_mode_mutation, recover_mode_mutations implement ModeStore).    *)
(* Disturbed is, besides one beside a user's edits, a mutation that ended  *)
(* between the link of a new document and the release of its candidate:    *)
(* its rollback leaves the document (mode_mutation.rs:845).                *)
ModesPromised == Store!Init /\ [][Undisturbed => Store!Next]_(Store!vars)
=============================================================================
