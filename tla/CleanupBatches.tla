--------------------------- MODULE CleanupBatches ---------------------------
(***************************************************************************)
(* Cleanup batches of the library coordinator: applying reviewed renames,  *)
(* tag edits and folder renames, recording each in a batch, and reverting  *)
(* a batch (music-application library/cleanup.rs and cleanup/prepare.rs;   *)
(* the cleanup commits of music-storage library.rs).                       *)
(*                                                                         *)
(* The file-system calls of one mutation, which LibraryMutation takes one  *)
(* by one, are one step here; the journals, the batch history, what each   *)
(* item checks before it is applied or reverted, deaths of the process and *)
(* failures between the steps are kept.  A track is a folder, a stem and a *)
(* tag; only cleanup and the edits a user makes beside it move tracks.     *)
(***************************************************************************)
EXTENDS Naturals, Sequences, FiniteSets, SequencesExt

CONSTANTS
    FirstTracks,  \* [track -> [dir, stem, tag]] before the first batch
    Proposals,    \* operations a review may contain
    UserEdits,    \* [track, place] changes made beside cleanup
    CleanupNoBatch,      \* an apply that opens a batch of its own
    CleanupMaxOps,       \* bound on the operations of one apply
    CleanupMaxJournals, CleanupMaxCrashes, CleanupMaxFaults, CleanupMaxEdits

ASSUME CleanupAssumption ==
    /\ CleanupNoBatch = 0
    /\ CleanupMaxOps \in Nat /\ CleanupMaxJournals \in Nat /\ CleanupMaxCrashes \in Nat /\ CleanupMaxFaults \in Nat
    /\ CleanupMaxEdits \in Nat

CleanupTracks == DOMAIN FirstTracks

VARIABLES
    cleanupFiles,    \* the library's files: [track -> [dir, stem, tag]]
    cleanupRows,     \* the index, of the same shape
    cleanupCatalog,  \* the index as last published
    batches,  \* cleanup_batches: [items, reverted]
    cleanupJournals, \* recovery_journal of the cleanup domain, oldest first
    cmd,      \* the command being served, or NoCmd
    cleanupOp,       \* the mutation at work, or NoOp
    cleanupProc,     \* the process: "up", "recovering", "down", "refused"
    cleanupBefore,   \* the files as they were when each batch was opened
    disturbed,\* batches whose tracks something else has changed since
    cleanupEarly,    \* history: something was asked for while a failed command's journals were open
    cleanupCrashes, cleanupFaults, cleanupEdits

cleanupVars == <<cleanupFiles, cleanupRows, cleanupCatalog, batches, cleanupJournals, cmd, cleanupOp, cleanupProc, cleanupBefore, disturbed,
                 cleanupEarly, cleanupCrashes, cleanupFaults, cleanupEdits>>
counters == <<cleanupEarly, cleanupCrashes, cleanupFaults, cleanupEdits>>
cleanupHistory == <<batches, cleanupBefore, disturbed>>

-----------------------------------------------------------------------------
NoCmd == [kind |-> "none"]
CleanupNoOp == [step |-> "none"]
PathOf(x) == [dir |-> x.dir, stem |-> x.stem]
CleanupAt(f, p) == {t \in CleanupTracks : PathOf(f[t]) = p}
CleanupInFolder(f, d) == {t \in CleanupTracks : f[t].dir = d}
CleanupUnfinished == {j \in DOMAIN cleanupJournals : cleanupJournals[j].state # "closed"}

\* prepare_cleanup_*: the mutation and the history item of an operation, or <<>> when it is skipped.
Prepared(o) ==
    CASE o.kind = "rename" ->
           LET to == [dir |-> cleanupRows[o.track].dir, stem |-> o.new]
           IN  IF cleanupRows[o.track].stem # o.old \/ o.old = o.new THEN <<>>
               ELSE <<[kind |-> "move", track |-> o.track, src |-> PathOf(cleanupRows[o.track]), dst |-> to,
                       item |-> [kind |-> "rename", track |-> o.track,
                                 from |-> PathOf(cleanupRows[o.track]), to |-> to]]>>
      [] o.kind = "tag" ->
           IF cleanupRows[o.track].tag # o.old THEN <<>>
           ELSE <<[kind |-> "tags", track |-> o.track, path |-> PathOf(cleanupRows[o.track]), tag |-> o.new,
                   item |-> [kind |-> "tag", track |-> o.track, path |-> PathOf(cleanupRows[o.track]),
                             fileOld |-> cleanupFiles[o.track].tag, new |-> o.new]]>>
      [] o.kind = "folder" ->
           <<[kind |-> "folder", src |-> o.old, dst |-> o.new,
              item |-> [kind |-> "folder", from |-> o.old, to |-> o.new]]>>

\* resolve_cleanup_revert_track: the recorded track if it is still there, or whichever is.
RevertTrack(t, path) == IF PathOf(cleanupRows[t]) = path THEN {t} ELSE CleanupAt(cleanupRows, path)

\* prepare_cleanup_revert
PreparedRevert(i) ==
    CASE i.kind = "rename" ->
           LET ts == RevertTrack(i.track, i.to)
           IN  IF ts = {} THEN <<>>
               ELSE <<[kind |-> "move", track |-> CHOOSE t \in ts : TRUE, src |-> i.to, dst |-> i.from]>>
      [] i.kind = "tag" ->
           LET ts == RevertTrack(i.track, i.path)
               t == CHOOSE u \in ts : TRUE
           IN  IF ts = {} THEN <<>>
               ELSE IF cleanupRows[t].tag # i.new THEN <<>>
               ELSE <<[kind |-> "tags", track |-> t, path |-> i.path, tag |-> i.fileOld]>>
      [] i.kind = "folder" -> <<[kind |-> "folder", src |-> i.to, dst |-> i.from]>>

\* Where a moved source is missing: a replay takes it as moved already.
Missing(there, replay) == IF replay /\ there # {} THEN <<cleanupFiles>> ELSE <<>>

\* LibraryFileMutations::apply, whole: the files afterwards, or <<>> when the mutation is refused.
CleanupEffect(m, replay) ==
    CASE m.kind = "move" ->
           IF CleanupAt(cleanupFiles, m.src) = {} THEN Missing(CleanupAt(cleanupFiles, m.dst), replay)
           ELSE IF CleanupAt(cleanupFiles, m.dst) # {} THEN <<>>
           ELSE <<[t \in CleanupTracks |-> IF t \in CleanupAt(cleanupFiles, m.src)
                                           THEN [cleanupFiles[t] EXCEPT !.stem = m.dst.stem, !.dir = m.dst.dir]
                                           ELSE cleanupFiles[t]]>>
      [] m.kind = "tags" ->
           IF CleanupAt(cleanupFiles, m.path) = {} THEN <<>>
           ELSE <<[t \in CleanupTracks |-> IF t \in CleanupAt(cleanupFiles, m.path) THEN [cleanupFiles[t] EXCEPT !.tag = m.tag]
                                                                                   ELSE cleanupFiles[t]]>>
      [] m.kind = "folder" ->
           IF CleanupInFolder(cleanupFiles, m.src) = {} THEN Missing(CleanupInFolder(cleanupFiles, m.dst), replay)
           ELSE IF CleanupInFolder(cleanupFiles, m.dst) # {} THEN <<>>
           ELSE <<[t \in CleanupTracks |-> IF cleanupFiles[t].dir = m.src THEN [cleanupFiles[t] EXCEPT !.dir = m.dst]
                                                                          ELSE cleanupFiles[t]]>>

\* The rows a commit expects, and those it leaves.
Fits(m) == CASE m.kind = "move" -> PathOf(cleanupRows[m.track]) = m.src
             [] m.kind = "tags" -> PathOf(cleanupRows[m.track]) = m.path
             [] m.kind = "folder" -> TRUE
CommittedRows(m) ==
    CASE m.kind = "move" -> [cleanupRows EXCEPT ![m.track].dir = m.dst.dir, ![m.track].stem = m.dst.stem]
      [] m.kind = "tags" -> [cleanupRows EXCEPT ![m.track].tag = m.tag]
      [] m.kind = "folder" -> [t \in CleanupTracks |-> IF cleanupRows[t].dir = m.src
                                                       THEN [cleanupRows[t] EXCEPT !.dir = m.dst] ELSE cleanupRows[t]]

\* A failure that is left to recovery ends the command, or the start.
CleanupAbandon ==
    /\ cleanupOp' = CleanupNoOp /\ cmd' = NoCmd
    /\ cleanupProc' = IF cleanupProc = "recovering" THEN "refused" ELSE cleanupProc

-----------------------------------------------------------------------------
\* The coordinator is free; it serves a command while failed ones wait for the next start, too.
MayServe ==
    /\ cleanupProc = "up" /\ cmd = NoCmd
    /\ cleanupEarly' = (cleanupEarly \/ CleanupUnfinished # {})
    /\ UNCHANGED <<cleanupCrashes, cleanupFaults>>

\* A review is of the index as it is: the folder a proposal renames is there when it is sent.
CleanupCurrent(o) == o.kind = "folder" => CleanupInFolder(cleanupRows, o.old) # {}

\* apply_cleanup_once: tag edits and renames in the order given, folder renames last.
AdmitApply ==
    /\ MayServe /\ Len(cleanupJournals) < CleanupMaxJournals
    /\ \E n \in 1 .. CleanupMaxOps : \E os \in [1 .. n -> Proposals] :
          /\ IsInjective(os) /\ \A k \in 1 .. n : CleanupCurrent(os[k])
          /\ \E b \in {CleanupNoBatch} \cup {c \in DOMAIN batches : ~batches[c].reverted} :
             cmd' = [kind |-> "apply", batch |-> b, changed |-> FALSE,
                     todo |-> SelectSeq(os, LAMBDA o : o.kind # "folder")
                              \o SelectSeq(os, LAMBDA o : o.kind = "folder")]
    /\ UNCHANGED <<cleanupFiles, cleanupRows, cleanupCatalog, cleanupHistory, cleanupJournals, cleanupOp, cleanupProc, cleanupEdits>>

\* Mutant: the items are reverted in the order they were applied.
AppliedOrder(items) == items
\* revert_cleanup_items walks the items from the last to the first.
RevertOrder(items) == Reverse(items)

\* revert_cleanup_batch_once: the journal of the batch, then its items.
AdmitRevert ==
    /\ MayServe /\ Len(cleanupJournals) < CleanupMaxJournals
    /\ \E b \in {c \in DOMAIN batches : ~batches[c].reverted} :
          /\ cleanupJournals' = Append(cleanupJournals, [kind |-> "batch", state |-> "applying", batch |-> b])
          /\ cmd' = [kind |-> "revert", batch |-> b, changed |-> FALSE, j |-> Len(cleanupJournals) + 1,
                     todo |-> RevertOrder(batches[b].items)]
    /\ UNCHANGED <<cleanupFiles, cleanupRows, cleanupCatalog, cleanupHistory, cleanupOp, cleanupProc, cleanupEdits>>

\* revert_cleanup_journal_once: the items of a history the user has kept, of no batch.
AdmitRevertItems ==
    /\ MayServe /\ Len(cleanupJournals) < CleanupMaxJournals
    /\ \E b \in DOMAIN batches :
          cmd' = [kind |-> "items", batch |-> CleanupNoBatch, changed |-> FALSE,
                  todo |-> RevertOrder(batches[b].items)]
    /\ UNCHANGED <<cleanupFiles, cleanupRows, cleanupCatalog, cleanupHistory, cleanupJournals, cleanupOp, cleanupProc, cleanupEdits>>

\* One operation is prepared: skipped, or journalled.
CleanupPrepare ==
    /\ cmd # NoCmd /\ cleanupOp = CleanupNoOp /\ cmd.todo # <<>>
    /\ LET x == IF cmd.kind = "apply" THEN Prepared(Head(cmd.todo)) ELSE PreparedRevert(Head(cmd.todo))
       IN  /\ cmd' = [cmd EXCEPT !.todo = Tail(@)]
           /\ IF x = <<>>
              THEN UNCHANGED <<cleanupOp, cleanupJournals>>
              ELSE /\ cleanupJournals' = Append(cleanupJournals, [state |-> "planned", batch |-> cmd.batch, m |-> x[1],
                                           kind |-> IF cmd.kind = "apply" THEN "apply" ELSE "revert"])
                   /\ cleanupOp' = [step |-> "start", j |-> Len(cleanupJournals) + 1, m |-> x[1], replay |-> FALSE]
    /\ UNCHANGED <<cleanupFiles, cleanupRows, cleanupCatalog, cleanupHistory, cleanupProc, counters>>

CleanupStart ==
    /\ cleanupOp.step = "start"
    /\ cleanupJournals' = [cleanupJournals EXCEPT ![cleanupOp.j].state = "applying"]
    /\ cleanupOp' = [cleanupOp EXCEPT !.step = "effect"]
    /\ UNCHANGED <<cleanupFiles, cleanupRows, cleanupCatalog, cleanupHistory, cmd, cleanupProc, counters>>

\* apply_cleanup_file_effect: a refusal closes the journal and the operation is skipped.
ApplyEffect ==
    /\ cleanupOp.step = "effect"
    /\ LET f == CleanupEffect(cleanupOp.m, cleanupOp.replay)
       IN  IF f = <<>>
           THEN /\ cleanupJournals' = [cleanupJournals EXCEPT ![cleanupOp.j].state = "closed"]
                /\ cleanupOp' = CleanupNoOp
                /\ UNCHANGED cleanupFiles
           ELSE /\ cleanupFiles' = f[1]
                /\ cleanupOp' = [cleanupOp EXCEPT !.step = "commit"]
                /\ UNCHANGED cleanupJournals
    /\ UNCHANGED <<cleanupRows, cleanupCatalog, cleanupHistory, cmd, cleanupProc, counters>>

\* append_cleanup_batch: into the batch of the journal, or a new one.
Appended(b, item) ==
    IF b = CleanupNoBatch THEN Append(batches, [items |-> <<item>>, reverted |-> FALSE])
    ELSE [batches EXCEPT ![b].items = Append(@, item)]

\* Mutant: an apply is committed without its place in the history.
CommitUnrecorded ==
    /\ cleanupOp.step = "commit"
    /\ Fits(cleanupOp.m)
    /\ cleanupRows' = CommittedRows(cleanupOp.m)
    /\ cleanupJournals' = [cleanupJournals EXCEPT ![cleanupOp.j].state = "closed"]
    /\ cleanupOp' = CleanupNoOp
    /\ cmd' = IF cmd = NoCmd THEN cmd ELSE [cmd EXCEPT !.changed = TRUE]
    /\ UNCHANGED <<cleanupFiles, cleanupCatalog, cleanupHistory, cleanupProc, counters>>
\* commit_cleanup_mutation, commit_cleanup_revert_mutation: rows, history and journal at once.
CleanupCommit ==
    /\ cleanupOp.step = "commit"
    /\ LET j == cleanupJournals[cleanupOp.j]
           apply == j.kind = "apply"
       IN  IF ~Fits(cleanupOp.m) \/ (apply /\ j.batch # CleanupNoBatch /\ batches[j.batch].reverted)
           THEN CleanupAbandon /\ UNCHANGED <<cleanupRows, cleanupJournals, batches, cleanupBefore>>
           ELSE /\ cleanupRows' = CommittedRows(cleanupOp.m)
                /\ cleanupJournals' = [cleanupJournals EXCEPT ![cleanupOp.j].state = "closed"]
                /\ cleanupOp' = CleanupNoOp
                /\ batches' = IF apply THEN Appended(j.batch, cleanupOp.m.item) ELSE batches
                /\ cleanupBefore' = IF apply /\ j.batch = CleanupNoBatch THEN Append(cleanupBefore, cleanupRows) ELSE cleanupBefore
                /\ cmd' = CASE cmd = NoCmd -> cmd
                            [] cmd.kind = "apply" /\ cmd.batch = CleanupNoBatch ->
                                 [cmd EXCEPT !.batch = Len(batches) + 1, !.changed = TRUE]
                            [] OTHER -> [cmd EXCEPT !.changed = TRUE]
                /\ UNCHANGED cleanupProc
    /\ disturbed' = disturbed \cup (DOMAIN batches \ {cleanupJournals[cleanupOp.j].batch})
    /\ UNCHANGED <<cleanupFiles, cleanupCatalog, counters>>

\* publish_current_catalog, when something was committed, before the command's last step.
CleanupPublish ==
    /\ cmd # NoCmd /\ cleanupOp = CleanupNoOp /\ cmd.todo = <<>> /\ cmd.changed
    /\ cleanupCatalog' = cleanupRows
    /\ cmd' = [cmd EXCEPT !.changed = FALSE]
    /\ UNCHANGED <<cleanupFiles, cleanupRows, cleanupHistory, cleanupJournals, cleanupOp, cleanupProc, counters>>

EndApply ==
    /\ cmd.kind \in {"apply", "items"} /\ cleanupOp = CleanupNoOp /\ cmd.todo = <<>> /\ ~cmd.changed
    /\ cmd' = NoCmd
    /\ UNCHANGED <<cleanupFiles, cleanupRows, cleanupCatalog, cleanupHistory, cleanupJournals, cleanupOp, cleanupProc, counters>>

\* finish_cleanup_batch_revert: the batch and its journal in one transaction.
FinishRevert ==
    /\ cmd.kind = "revert" /\ cleanupOp = CleanupNoOp /\ cmd.todo = <<>> /\ ~cmd.changed
    /\ batches' = [batches EXCEPT ![cmd.batch].reverted = TRUE]
    /\ cleanupJournals' = [cleanupJournals EXCEPT ![cmd.j].state = "closed"]
    /\ cmd' = NoCmd
    /\ UNCHANGED <<cleanupFiles, cleanupRows, cleanupCatalog, cleanupBefore, disturbed, cleanupOp, cleanupProc, counters>>

\* A user's own edit of a track, through the same coordinator.
UserEdit ==
    /\ MayServe /\ cleanupEdits < CleanupMaxEdits
    /\ \E e \in UserEdits :
          /\ CleanupAt(cleanupFiles, PathOf(e.place)) \subseteq {e.track}
          /\ cleanupFiles' = [cleanupFiles EXCEPT ![e.track] = e.place]
          /\ cleanupRows' = [cleanupRows EXCEPT ![e.track] = e.place]
          /\ cleanupCatalog' = [cleanupRows EXCEPT ![e.track] = e.place]
    /\ disturbed' = disturbed \cup DOMAIN batches
    /\ cleanupEdits' = cleanupEdits + 1
    /\ UNCHANGED <<batches, cleanupJournals, cmd, cleanupOp, cleanupProc, cleanupBefore>>

-----------------------------------------------------------------------------
(* Deaths, failures and recovery *)
CleanupCrash ==
    /\ cleanupProc \in {"up", "recovering"} /\ cleanupCrashes < CleanupMaxCrashes
    /\ cleanupProc' = "down" /\ cmd' = NoCmd /\ cleanupOp' = CleanupNoOp
    /\ cleanupCrashes' = cleanupCrashes + 1
    /\ UNCHANGED <<cleanupFiles, cleanupRows, cleanupCatalog, cleanupHistory, cleanupJournals, cleanupEarly, cleanupFaults, cleanupEdits>>

CleanupRestart ==
    /\ cleanupProc \in {"down", "refused"}
    /\ cleanupProc' = "recovering"
    /\ UNCHANGED <<cleanupFiles, cleanupRows, cleanupCatalog, cleanupHistory, cleanupJournals, cmd, cleanupOp, counters>>

CleanupOldest(kind) ==
    LET js == {j \in CleanupUnfinished : cleanupJournals[j].kind = kind}
    IN  {j \in js : \A k \in js : j <= k}

\* recover_cleanup_mutations: every apply, then every item of a revert.
RecoverMutation ==
    /\ cleanupProc = "recovering" /\ cmd = NoCmd /\ cleanupOp = CleanupNoOp
    /\ \E j \in IF CleanupOldest("apply") # {} THEN CleanupOldest("apply") ELSE CleanupOldest("revert") :
          /\ cleanupJournals' = [cleanupJournals EXCEPT ![j].state = "applying"]
          /\ cleanupOp' = [step |-> "effect", j |-> j, m |-> cleanupJournals[j].m, replay |-> TRUE]
    /\ UNCHANGED <<cleanupFiles, cleanupRows, cleanupCatalog, cleanupHistory, cmd, cleanupProc, counters>>

\* Then the reverts of whole batches; one that finds its batch reverted refuses the start.
RecoverBatch ==
    /\ cleanupProc = "recovering" /\ cmd = NoCmd /\ cleanupOp = CleanupNoOp
    /\ CleanupOldest("apply") = {} /\ CleanupOldest("revert") = {}
    /\ \E j \in CleanupOldest("batch") :
          IF batches[cleanupJournals[j].batch].reverted
          THEN CleanupAbandon
          ELSE /\ cmd' = [kind |-> "revert", batch |-> cleanupJournals[j].batch, changed |-> FALSE, j |-> j,
                          todo |-> RevertOrder(batches[cleanupJournals[j].batch].items)]
               /\ UNCHANGED <<cleanupOp, cleanupProc>>
    /\ UNCHANGED <<cleanupFiles, cleanupRows, cleanupCatalog, cleanupHistory, cleanupJournals, counters>>

StartUp ==
    /\ cleanupProc = "recovering" /\ cmd = NoCmd /\ cleanupOp = CleanupNoOp /\ CleanupUnfinished = {}
    /\ cleanupCatalog' = cleanupRows
    /\ cleanupProc' = "up"
    /\ UNCHANGED <<cleanupFiles, cleanupRows, cleanupHistory, cleanupJournals, cmd, cleanupOp, counters>>

\* An I/O or database error: the command returns at once and leaves the journals to recovery.
CleanupFailWithRecovery ==
    /\ cleanupOp # CleanupNoOp /\ cleanupFaults < CleanupMaxFaults
    /\ CleanupAbandon
    /\ cleanupFaults' = cleanupFaults + 1
    /\ UNCHANGED <<cleanupFiles, cleanupRows, cleanupCatalog, cleanupHistory, cleanupJournals, cleanupEarly, cleanupCrashes, cleanupEdits>>

-----------------------------------------------------------------------------
CleanupInit ==
    /\ cleanupFiles = FirstTracks /\ cleanupRows = FirstTracks /\ cleanupCatalog = FirstTracks
    /\ batches = <<>> /\ cleanupBefore = <<>> /\ disturbed = {}
    /\ cleanupJournals = <<>>
    /\ cmd = NoCmd /\ cleanupOp = CleanupNoOp /\ cleanupProc = "up"
    /\ cleanupEarly = FALSE /\ cleanupCrashes = 0 /\ cleanupFaults = 0 /\ cleanupEdits = 0

CleanupCoordinator ==
    \/ CleanupPrepare \/ CleanupStart \/ ApplyEffect \/ CleanupCommit \/ CleanupPublish \/ EndApply \/ FinishRevert
    \/ RecoverMutation \/ RecoverBatch \/ StartUp
CleanupNext ==
    \/ CleanupCoordinator
    \/ AdmitApply \/ AdmitRevert \/ AdmitRevertItems \/ UserEdit
    \/ CleanupCrash \/ CleanupRestart \/ CleanupFailWithRecovery

-----------------------------------------------------------------------------
CleanupSettled == cleanupProc = "up" /\ cmd = NoCmd /\ CleanupUnfinished = {}

CleanupTypeOK ==
    /\ DOMAIN cleanupFiles = CleanupTracks /\ DOMAIN cleanupRows = CleanupTracks
    /\ Len(cleanupBefore) = Len(batches) /\ disturbed \subseteq DOMAIN batches
    /\ \A j \in DOMAIN cleanupJournals : cleanupJournals[j].state \in {"planned", "applying", "closed"}
    /\ cleanupEarly \in BOOLEAN
    /\ cmd.kind \in {"none", "apply", "revert", "items"}
    /\ cleanupProc \in {"up", "recovering", "down", "refused"}

\* When no command is open the index describes the files, whatever died or failed on the way.
CleanupIndexMatchesDisk == CleanupSettled => cleanupRows = cleanupFiles

\* An index with the change of a history item made to it.
Redone(f, i) ==
    CASE i.kind = "rename" -> [f EXCEPT ![i.track].dir = i.to.dir, ![i.track].stem = i.to.stem]
      [] i.kind = "tag" -> [f EXCEPT ![i.track].tag = i.new]
      [] i.kind = "folder" -> [t \in CleanupTracks |-> IF f[t].dir = i.from THEN [f[t] EXCEPT !.dir = i.to]
                                                                          ELSE f[t]]

\* Some track has two renames in the batch.
RenamedTwice(b) ==
    LET renames == {k \in DOMAIN batches[b].items : batches[b].items[k].kind = "rename"}
    IN  \E k, l \in renames : k # l /\ batches[b].items[k].track = batches[b].items[l].track

Resumed(b) == cleanupProc = "recovering" /\ RenamedTwice(b)

\* A batch that is marked reverted leaves every track where and as it was before the batch: items
\* are undone in the order that makes their recorded paths true again, and a revert taken up after
\* a death, which walks every item once more, finds the undone ones without their track.  Excepted:
\*   - something else has changed the tracks since the batch, or was asked for while a failed
\*     command's journals were still open;
\*   - a revert taken up after a death in a batch that renames a track twice.  Two tracks that the
\*     batch exchanged through a third name are exchanged again by the second walk, because an item
\*     whose track has gone back takes whichever track has its path (prepare.rs:167), although
\*     RUST_REWRITE_PLAN.md:513 has the revert resume safely.
\* Not in any run: a review that renames a folder which has gone since (see CleanupCurrent).  If the
\* process dies with that journal open, the replay takes the folder for renamed already and records
\* an item that the revert then undoes although it was never done.
RevertUndoes ==
    [][\A b \in DOMAIN batches \ disturbed :
          ~batches[b].reverted /\ batches'[b].reverted /\ ~cleanupEarly /\ ~Resumed(b)
              => cleanupRows = cleanupBefore[b]]_cleanupVars

\* The history is what happened: while nothing is reverted or edited beside it, doing the items of
\* the only batch again, in their order, to the first index gives the index.
HistoryReplays ==
    CleanupSettled /\ cleanupEdits = 0 /\ Len(batches) <= 1 /\ (\A b \in DOMAIN batches : ~batches[b].reverted)
                   /\ (\A j \in DOMAIN cleanupJournals : cleanupJournals[j].kind = "apply")
        => cleanupRows = FoldLeft(Redone, FirstTracks, FlattenSeq([b \in DOMAIN batches |-> batches[b].items]))

\* Once nothing is open, the index is true of the disk and the history of the index.  Excepted: a
\* command or an edit served while a failed command's journals were still open, which the
\* coordinator does not hold back (cleanup.rs:407).
HistoryIsTrue == ~cleanupEarly => CleanupIndexMatchesDisk /\ HistoryReplays

\* A command ends and a dead server comes up again.  Excepted: something was served while a failed
\* command's journal was open; the rows or the batch that journal expects may have changed, and
\* then it refuses every later start (cleanup.rs:407), although
\* RUST_ARCHITECTURE_REASSESSMENT.md:201 has recovery complete or restore.
CleanupComesUp == []<>((cleanupProc = "up" /\ cmd = NoCmd) \/ cleanupEarly)

CleanupSpec == CleanupInit /\ [][CleanupNext]_cleanupVars
\* The coordinator goes on with what it has begun, and a dead or refused server is started again.
CleanupLiveSpec == CleanupSpec /\ WF_cleanupVars(CleanupCoordinator) /\ WF_cleanupVars(CleanupRestart)
=============================================================================
