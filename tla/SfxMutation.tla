----------------------------- MODULE SfxMutation ----------------------------
(***************************************************************************)
(* Changes of the sound effect folder: requests take a gate one at a time, *)
(* write a journal entry, change the file system in a blocking worker and  *)
(* settle the entry; a start replays the unfinished entries                *)
(* (music-application sfx.rs, music-media sfx.rs, music-server sfx.rs).    *)
(*                                                                         *)
(* A file is a path <<folder, name>>; a name is <<"file", k>>, or that of  *)
(* an upload's staged file, <<"stage", n>>, or of the backup an overwrite  *)
(* keeps, <<"backup", j>>.  Content is the number of the upload it came    *)
(* from.  A batch of uploads is its files one by one.  The file system is  *)
(* that of a build where names differ by more than case.                   *)
(***************************************************************************)
EXTENDS Naturals, Sequences, FiniteSets

CONSTANTS
    Folders, SfxNames, SfxClients, Policies,
    StartFolders,      \* the folders there at first
    SfxOps,               \* the kinds of request made
    SfxMaxOps, SfxMaxFaults, SfxMaxCrashes, MaxCancels

SfxAllOps == {"create_folder", "rename_folder", "delete_folder", "move_file", "delete_file", "publish_upload"}
Root == ""
NoOne == "no one"

ASSUME SfxAssumption ==
    /\ Root \notin Folders /\ NoOne \notin SfxClients /\ SfxNames \subseteq Nat
    /\ StartFolders \subseteq Folders
    /\ SfxOps \subseteq SfxAllOps /\ Policies \subseteq {"rename", "overwrite", "skip"}
    /\ SfxMaxOps \in Nat /\ SfxMaxFaults \in Nat /\ SfxMaxCrashes \in Nat /\ MaxCancels \in Nat

VARIABLES
    sfxUp,        \* "down", "starting" or "up"
    refused,   \* recovery_required
    sfxDirs, sfxFiles,
    sfxJournal,   \* the entries of the recovery journal: [m, state]
    sfxGate,      \* the client whose request holds the gate
    req,       \* the request of each client
    workers,   \* blocking tasks: [j, pc, replay, res]
    sfxOps, sfxFaults, sfxCrashes, cancels,
    adrift,    \* a handler was dropped behind its journal entry, and no start has recovered since
    acked,     \* entries whose success a client was told, with nothing adrift since
    want       \* the files as the clients were told

sfxVars == <<sfxUp, refused, sfxDirs, sfxFiles, sfxJournal, sfxGate, req, workers, sfxOps, sfxFaults, sfxCrashes, cancels, acked, want, adrift>>
sfxBounds == <<sfxOps, sfxFaults, sfxCrashes, cancels>>
fs == <<sfxDirs, sfxFiles>>

NoPath == <<Root, <<"file", 0>>>>
SfxPlan == [op |-> "none", dir |-> Root, to |-> Root, src |-> NoPath, dst |-> NoPath, n |-> 0,
            flag |-> FALSE, policy |-> "skip"]
SfxIdle == [pc |-> "idle", m |-> SfxPlan, j |-> 0]

Visible(tree) == [p \in {q \in DOMAIN tree : q[2][1] = "file"} |-> tree[p]]
SfxPaths == {<<d, <<"file", k>>>> : d \in Folders \cup {Root}, k \in SfxNames}
StagePath(m) == <<m.dst[1], <<"stage", m.n>>>>
BackupPath(m, j) == <<m.dst[1], <<"backup", j>>>>

Without(tree, ps) == [p \in DOMAIN tree \ ps |-> tree[p]]
SfxPut(tree, p, x) == [q \in DOMAIN tree \cup {p} |-> IF q = p THEN x ELSE tree[q]]
SfxRenamed(tree, p, q) == SfxPut(Without(tree, {p}), q, tree[p])
SfxInFolder(tree, d) == {p \in DOMAIN tree : p[1] = d}
SfxMoved(tree, d, e) ==
  LET moved == {<<e, p[2]>> : p \in SfxInFolder(tree, d)} IN
  [p \in (DOMAIN tree \ SfxInFolder(tree, d)) \cup moved |-> IF p \in moved THEN tree[<<d, p[2]>>] ELSE tree[p]]

SfxFinished == {"committed", "failed"}
SfxUnfinished == {j \in DOMAIN sfxJournal : sfxJournal[j].state \notin SfxFinished}

SfxInit ==
  /\ sfxUp = "up" /\ refused = FALSE
  /\ sfxDirs = {Root} \cup StartFolders /\ sfxFiles = <<>> /\ want = <<>>
  /\ sfxJournal = <<>> /\ acked = {}
  /\ sfxGate = NoOne /\ req = [c \in SfxClients |-> SfxIdle] /\ workers = {}
  /\ sfxOps = 0 /\ sfxFaults = 0 /\ sfxCrashes = 0 /\ cancels = 0 /\ adrift = FALSE

-----------------------------------------------------------------------------
(* Requests.                                                               *)

SfxRequests ==
  {[SfxPlan EXCEPT !.op = "create_folder", !.dir = d] : d \in Folders}
  \cup {[SfxPlan EXCEPT !.op = "rename_folder", !.dir = d, !.to = e] : d, e \in Folders}
  \cup {[SfxPlan EXCEPT !.op = "delete_folder", !.dir = d, !.flag = r] : d \in Folders, r \in BOOLEAN}
  \cup {[SfxPlan EXCEPT !.op = "move_file", !.src = p, !.dst = q] : p, q \in SfxPaths}
  \cup {[SfxPlan EXCEPT !.op = "delete_file", !.src = p] : p \in SfxPaths}

SfxSubmit(c, m) ==
  /\ sfxUp = "up" /\ req[c].pc = "idle" /\ sfxOps < SfxMaxOps /\ m.op \in SfxOps
  /\ req' = [req EXCEPT ![c] = [pc |-> "wait", m |-> m, j |-> 0]] /\ sfxOps' = sfxOps + 1
  /\ UNCHANGED <<sfxUp, refused, fs, sfxJournal, sfxGate, workers, sfxFaults, sfxCrashes, cancels, acked, want, adrift>>

\* upload_sfx: the body is staged beside its destination before the gate is asked for.
SfxUpload(c, p, policy) ==
  /\ sfxUp = "up" /\ req[c].pc = "idle" /\ sfxOps < SfxMaxOps /\ "publish_upload" \in SfxOps
  /\ p[1] \in sfxDirs
  /\ LET m == [SfxPlan EXCEPT !.op = "publish_upload", !.dst = p, !.n = sfxOps + 1, !.policy = policy] IN
     /\ req' = [req EXCEPT ![c] = [pc |-> "wait", m |-> m, j |-> 0]]
     /\ sfxFiles' = SfxPut(sfxFiles, StagePath(m), m.n)
  /\ sfxOps' = sfxOps + 1
  /\ UNCHANGED <<sfxUp, refused, sfxDirs, sfxJournal, sfxGate, workers, sfxFaults, sfxCrashes, cancels, acked, want, adrift>>

Answer(c) == req' = [req EXCEPT ![c] = SfxIdle] /\ sfxGate' = IF sfxGate = c THEN NoOne ELSE sfxGate
SfxAt(c, pc) == req' = [req EXCEPT ![c].pc = pc]

\* discard_upload of a request that failed and left nothing to recover.
Discard(m) == sfxFiles' = IF m.op = "publish_upload" THEN Without(sfxFiles, {StagePath(m)}) ELSE sfxFiles

SfxFault == sfxFaults < SfxMaxFaults /\ sfxFaults' = sfxFaults + 1

\* begin_access: refused before the gate, and again behind it.
SfxAcquire(c) ==
  /\ req[c].pc = "wait"
  /\ \/ refused /\ Answer(c)
     \/ ~refused /\ sfxGate = NoOne /\ sfxGate' = c
        /\ SfxAt(c, IF req[c].m.op = "publish_upload" THEN "resolve" ELSE "plan")
  /\ UNCHANGED <<sfxUp, refused, fs, sfxJournal, workers, sfxBounds, acked, want, adrift>>

\* resolve_upload_destination; "rename" takes the first free name.
ResolveUpload(c) ==
  /\ req[c].pc = "resolve"
  /\ LET m == req[c].m
         free == {k \in SfxNames : k > m.dst[2][2] /\ <<m.dst[1], <<"file", k>>>> \notin DOMAIN sfxFiles} IN
     CASE m.dst \notin DOMAIN sfxFiles /\ m.dst[1] \in sfxDirs ->
            /\ req' = [req EXCEPT ![c] = [pc |-> "plan", m |-> [m EXCEPT !.flag = (m.policy = "overwrite")], j |-> 0]]
            /\ UNCHANGED <<sfxFiles, sfxGate>>
       [] m.dst \in DOMAIN sfxFiles /\ m.policy = "overwrite" ->
            /\ req' = [req EXCEPT ![c] = [pc |-> "plan", m |-> [m EXCEPT !.flag = TRUE], j |-> 0]]
            /\ UNCHANGED <<sfxFiles, sfxGate>>
       [] m.dst \in DOMAIN sfxFiles /\ m.policy = "rename" /\ free # {} ->
            /\ \E k \in free :
                 /\ \A i \in free : k <= i
                 /\ req' = [req EXCEPT ![c] = [pc |-> "plan", m |-> [m EXCEPT !.dst = <<m.dst[1], <<"file", k>>>>], j |-> 0]]
            /\ UNCHANGED <<sfxFiles, sfxGate>>
       [] OTHER -> Discard(m) /\ Answer(c)
  /\ UNCHANGED <<sfxUp, refused, sfxDirs, sfxJournal, workers, sfxBounds, acked, want, adrift>>

\* create_recovery_journal.
SfxCreateJournal(c) ==
  /\ req[c].pc = "plan"
  /\ \/ /\ sfxJournal' = Append(sfxJournal, [m |-> req[c].m, state |-> "planned"])
        /\ req' = [req EXCEPT ![c] = [pc |-> "begin", m |-> req[c].m, j |-> Len(sfxJournal) + 1]]
        /\ UNCHANGED <<sfxFiles, sfxGate, sfxFaults>>
     \/ /\ SfxFault /\ Discard(req[c].m) /\ Answer(c) /\ UNCHANGED sfxJournal
  /\ UNCHANGED <<sfxUp, refused, sfxDirs, workers, sfxOps, sfxCrashes, cancels, acked, want, adrift>>

\* The transition to applying; a failure leaves the entry to the next start.
BeginApply(c) ==
  /\ req[c].pc = "begin"
  /\ \/ sfxJournal' = [sfxJournal EXCEPT ![req[c].j].state = "applying"] /\ SfxAt(c, "run")
        /\ workers' = workers \cup {[j |-> req[c].j, pc |-> 0, replay |-> FALSE, res |-> "none"]}
        /\ UNCHANGED <<refused, sfxGate, sfxFaults>>
     \/ SfxFault /\ refused' = TRUE /\ Answer(c) /\ UNCHANGED <<sfxJournal, workers>>
  /\ UNCHANGED <<sfxUp, fs, sfxOps, sfxCrashes, cancels, acked, want, adrift>>

-----------------------------------------------------------------------------
(* The blocking worker, one action for each change of the file system.     *)

SfxGo(w, pc) == workers' = (workers \ {w}) \cup {[w EXCEPT !.pc = pc]}
SfxEnd(w, res) == workers' = (workers \ {w}) \cup {[w EXCEPT !.res = res]}
Gone(w) == SfxEnd(w, IF w.replay THEN "ok" ELSE "safe")   \* what was to be removed is not there

SfxCreateFolder(w, m) ==
  /\ sfxDirs' = sfxDirs \cup {m.dir} /\ SfxEnd(w, "ok") /\ UNCHANGED sfxFiles

SfxRenameFolder(w, m) ==
  CASE m.dir = m.to -> SfxEnd(w, "safe") /\ UNCHANGED fs
    [] m.dir # m.to /\ m.dir \notin sfxDirs ->
         SfxEnd(w, IF w.replay /\ m.to \in sfxDirs THEN "ok" ELSE "safe") /\ UNCHANGED fs
    [] m.dir # m.to /\ m.dir \in sfxDirs /\ m.to \in sfxDirs -> SfxEnd(w, "safe") /\ UNCHANGED fs
    [] OTHER ->
         /\ sfxDirs' = (sfxDirs \ {m.dir}) \cup {m.to}
         /\ sfxFiles' = SfxMoved(sfxFiles, m.dir, m.to)
         /\ SfxEnd(w, "ok")

SfxDeleteFolder(w, m) ==
  CASE m.dir \notin sfxDirs -> Gone(w) /\ UNCHANGED fs
    [] m.dir \in sfxDirs /\ SfxInFolder(sfxFiles, m.dir) = {} ->
         sfxDirs' = sfxDirs \ {m.dir} /\ SfxEnd(w, "ok") /\ UNCHANGED sfxFiles
    [] m.dir \in sfxDirs /\ SfxInFolder(sfxFiles, m.dir) # {} /\ ~m.flag -> SfxEnd(w, "safe") /\ UNCHANGED fs
    [] OTHER -> \E p \in SfxInFolder(sfxFiles, m.dir) : sfxFiles' = Without(sfxFiles, {p}) /\ SfxGo(w, 1) /\ UNCHANGED sfxDirs

\* move_file: the destination's folder is made, then finish_rename.
SfxMoveFile(w, m) ==
  LET from == m.src \in DOMAIN sfxFiles  to == m.dst \in DOMAIN sfxFiles IN
  CASE m.src = m.dst -> SfxEnd(w, IF from THEN "ok" ELSE "safe") /\ UNCHANGED fs
    [] m.src # m.dst /\ ~from ->
         SfxEnd(w, IF w.replay /\ m.src[1] \in sfxDirs /\ to THEN "ok" ELSE "safe") /\ UNCHANGED fs
    [] m.src # m.dst /\ from /\ w.pc = 0 ->
         sfxDirs' = sfxDirs \cup {m.dst[1]} /\ SfxGo(w, 1) /\ UNCHANGED sfxFiles
    [] OTHER ->
         IF to THEN SfxEnd(w, "safe") /\ UNCHANGED fs
         ELSE IF m.dst[1] \notin sfxDirs THEN SfxEnd(w, "bad") /\ UNCHANGED fs
         ELSE sfxFiles' = SfxRenamed(sfxFiles, m.src, m.dst) /\ SfxEnd(w, "ok") /\ UNCHANGED sfxDirs

SfxDeleteFile(w, m) ==
  IF m.src \in DOMAIN sfxFiles
  THEN sfxFiles' = Without(sfxFiles, {m.src}) /\ SfxEnd(w, "ok") /\ UNCHANGED sfxDirs
  ELSE Gone(w) /\ UNCHANGED fs

\* publish_new_upload: a hard link, then the removal of the staged name.
SfxPublishNew(w, m) ==
  LET s == StagePath(m)  staged == s \in DOMAIN sfxFiles  there == m.dst \in DOMAIN sfxFiles
      kept == BackupPath(m, w.j) \in DOMAIN sfxFiles IN
  /\ UNCHANGED sfxDirs
  /\ CASE w.pc = 1 -> sfxFiles' = Without(sfxFiles, {s}) /\ SfxEnd(w, "ok")
       [] w.pc = 0 /\ kept -> SfxEnd(w, "bad") /\ UNCHANGED sfxFiles
       [] w.pc = 0 /\ ~kept /\ staged /\ ~there -> sfxFiles' = SfxPut(sfxFiles, m.dst, sfxFiles[s]) /\ SfxGo(w, 1)
       [] w.pc = 0 /\ ~kept /\ staged /\ there ->
            /\ IF w.replay /\ sfxFiles[s] = sfxFiles[m.dst] THEN SfxGo(w, 1) ELSE SfxEnd(w, "safe")
            /\ UNCHANGED sfxFiles
       [] OTHER -> SfxEnd(w, IF w.replay /\ there THEN "ok" ELSE "safe") /\ UNCHANGED sfxFiles

\* publish_replacing_upload: the old file becomes the backup, the staged one takes its
\* place, the backup goes.
SfxPublishReplacing(w, m) ==
  LET s == StagePath(m)  b == BackupPath(m, w.j)
      staged == s \in DOMAIN sfxFiles  there == m.dst \in DOMAIN sfxFiles  kept == b \in DOMAIN sfxFiles IN
  /\ UNCHANGED sfxDirs
  /\ CASE w.pc = 0 /\ staged /\ there /\ kept -> SfxEnd(w, "bad") /\ UNCHANGED sfxFiles
       [] w.pc = 0 /\ staged /\ there /\ ~kept -> sfxFiles' = SfxRenamed(sfxFiles, m.dst, b) /\ SfxGo(w, 1)
       [] w.pc = 0 /\ staged /\ ~there -> SfxGo(w, 1) /\ UNCHANGED sfxFiles
       [] w.pc = 0 /\ ~staged /\ there /\ w.replay -> SfxGo(w, 2) /\ UNCHANGED sfxFiles
       [] w.pc = 0 /\ ~staged /\ ~there /\ kept -> sfxFiles' = SfxRenamed(sfxFiles, b, m.dst) /\ SfxEnd(w, "safe")
       [] w.pc = 1 /\ staged -> sfxFiles' = SfxRenamed(sfxFiles, s, m.dst) /\ SfxGo(w, 2)
       [] w.pc = 1 /\ ~staged -> SfxEnd(w, "bad") /\ UNCHANGED sfxFiles
       [] w.pc = 2 -> sfxFiles' = Without(sfxFiles, {b}) /\ SfxEnd(w, "ok")
       [] OTHER -> SfxEnd(w, "safe") /\ UNCHANGED sfxFiles

\* The folder of an upload's destination must be there to resolve its paths.
SfxPublish(w, m) ==
  IF m.dst[1] \notin sfxDirs THEN SfxEnd(w, "safe") /\ UNCHANGED fs
  ELSE IF m.flag THEN SfxPublishReplacing(w, m) ELSE SfxPublishNew(w, m)

ApplyStep(w) ==
  /\ w.res = "none"
  /\ LET m == sfxJournal[w.j].m IN
     \/ m.op = "create_folder" /\ SfxCreateFolder(w, m)
     \/ m.op = "rename_folder" /\ SfxRenameFolder(w, m)
     \/ m.op = "delete_folder" /\ SfxDeleteFolder(w, m)
     \/ m.op = "move_file" /\ SfxMoveFile(w, m)
     \/ m.op = "delete_file" /\ SfxDeleteFile(w, m)
     \/ m.op = "publish_upload" /\ SfxPublish(w, m)
  /\ UNCHANGED <<sfxUp, refused, sfxJournal, sfxGate, req, sfxBounds, acked, want, adrift>>

\* A call of the operating system fails; the link of a new upload is one that leaves nothing.
Linking(w) ==
  LET m == sfxJournal[w.j].m IN
  /\ m.op = "publish_upload" /\ ~m.flag /\ w.pc = 0 /\ m.dst[1] \in sfxDirs
  /\ StagePath(m) \in DOMAIN sfxFiles /\ m.dst \notin DOMAIN sfxFiles
  /\ BackupPath(m, w.j) \notin DOMAIN sfxFiles

ApplyFails(w) ==
  /\ w.res = "none" /\ SfxFault
  /\ SfxEnd(w, "bad") \/ (Linking(w) /\ SfxEnd(w, "safe"))
  /\ UNCHANGED <<sfxUp, refused, fs, sfxJournal, sfxGate, req, sfxOps, sfxCrashes, cancels, acked, want, adrift>>
-----------------------------------------------------------------------------
(* The end of a request.                                                   *)

\* What a mutation that succeeds does to the visible files.
SfxApply(m, tree) ==
  CASE m.op = "rename_folder" -> SfxMoved(tree, m.dir, m.to)
    [] m.op = "delete_folder" -> Without(tree, SfxInFolder(tree, m.dir))
    [] m.op = "move_file" -> IF m.src \in DOMAIN tree THEN SfxRenamed(tree, m.src, m.dst) ELSE tree
    [] m.op = "delete_file" -> Without(tree, {m.src})
    [] m.op = "publish_upload" -> SfxPut(tree, m.dst, m.n)
    [] OTHER -> tree

\* Mutant: a failure that needs recovery does not stop the mutations that follow.
SettleServesOn(c, w) ==
  /\ req[c].pc = "run" /\ w \in workers /\ w.j = req[c].j /\ w.res # "none"
  /\ workers' = workers \ {w} /\ Answer(c)
  /\ \/ /\ w.res = "ok"
        /\ sfxJournal' = [sfxJournal EXCEPT ![w.j].state = "committed"]
        /\ acked' = acked \cup {w.j} /\ want' = SfxApply(req[c].m, want)
        /\ UNCHANGED <<sfxFiles, refused, sfxFaults>>
     \/ /\ w.res = "safe"
        /\ sfxJournal' = [sfxJournal EXCEPT ![w.j].state = "failed"]
        /\ Discard(req[c].m) /\ UNCHANGED <<refused, acked, want, sfxFaults>>
     \/ /\ IF w.res = "bad" THEN UNCHANGED sfxFaults ELSE SfxFault
        /\ Discard(req[c].m) /\ UNCHANGED <<refused, sfxJournal, acked, want>>
  /\ UNCHANGED <<sfxUp, sfxDirs, sfxOps, sfxCrashes, cancels, adrift>>

\* execute_mutation behind the worker; publish_uploads discards the staged file of an upload
\* that failed unless the entry is left to recovery.
Settle(c, w) ==
  /\ req[c].pc = "run" /\ w \in workers /\ w.j = req[c].j /\ w.res # "none"
  /\ workers' = workers \ {w} /\ Answer(c)
  /\ \/ /\ w.res = "ok"
        /\ sfxJournal' = [sfxJournal EXCEPT ![w.j].state = "committed"]
        /\ acked' = acked \cup {w.j} /\ want' = SfxApply(req[c].m, want)
        /\ UNCHANGED <<sfxFiles, refused, sfxFaults>>
     \/ /\ w.res = "safe"
        /\ sfxJournal' = [sfxJournal EXCEPT ![w.j].state = "failed"]
        /\ Discard(req[c].m) /\ UNCHANGED <<refused, acked, want, sfxFaults>>
     \/ /\ IF w.res = "bad" THEN UNCHANGED sfxFaults ELSE SfxFault
        /\ refused' = TRUE /\ UNCHANGED <<sfxFiles, sfxJournal, acked, want>>
  /\ UNCHANGED <<sfxUp, sfxDirs, sfxOps, sfxCrashes, cancels, adrift>>

\* The client goes away: the handler is dropped with the gate it holds, its entry stays
\* unfinished and its blocking worker runs on.
SfxCancel(c) ==
  /\ req[c].pc # "idle" /\ cancels < MaxCancels
  /\ cancels' = cancels + 1 /\ Answer(c)
  /\ adrift' = (adrift \/ req[c].pc \in {"begin", "run"})
  /\ UNCHANGED <<sfxUp, refused, fs, sfxJournal, workers, sfxOps, sfxFaults, sfxCrashes, acked, want>>

\* Nobody waits for the result of a worker whose handler was dropped.
Detached(w) ==
  /\ w \in workers /\ w.res # "none" /\ ~w.replay /\ \A c \in SfxClients : req[c].j # w.j
  /\ workers' = workers \ {w}
  /\ UNCHANGED <<sfxUp, refused, fs, sfxJournal, sfxGate, req, sfxBounds, acked, want, adrift>>

-----------------------------------------------------------------------------
(* A crash, and recover_sfx_mutations at the next start.                   *)

Down ==
  /\ sfxUp' = "down" /\ sfxGate' = NoOne /\ req' = [c \in SfxClients |-> SfxIdle] /\ workers' = {}

SfxCrash ==
  /\ sfxUp # "down" /\ sfxCrashes < SfxMaxCrashes /\ sfxCrashes' = sfxCrashes + 1 /\ Down
  /\ UNCHANGED <<refused, fs, sfxJournal, sfxOps, sfxFaults, cancels, acked, want, adrift>>

SfxStart ==
  /\ sfxUp = "down" /\ sfxUp' = "starting" /\ refused' = FALSE
  /\ UNCHANGED <<fs, sfxJournal, sfxGate, req, workers, sfxBounds, acked, want, adrift>>

\* Entries made in the same second are in no particular order.
Replay(j) ==
  /\ sfxUp = "starting" /\ workers = {} /\ j \in SfxUnfinished
  /\ sfxJournal' = [sfxJournal EXCEPT ![j].state = "applying"]
  /\ workers' = {[j |-> j, pc |-> 0, replay |-> TRUE, res |-> "none"]}
  /\ UNCHANGED <<sfxUp, refused, fs, sfxGate, req, sfxBounds, acked, want, adrift>>

\* A failure of the replay, or of a transition, ends the start.
Replayed(w) ==
  /\ w \in workers /\ w.replay /\ w.res # "none"
  /\ \/ /\ w.res # "bad" /\ workers' = {} /\ UNCHANGED <<sfxUp, sfxGate, req, sfxFaults>>
        /\ sfxJournal' = [sfxJournal EXCEPT ![w.j].state = IF w.res = "ok" THEN "committed" ELSE "failed"]
     \/ /\ Down /\ UNCHANGED sfxJournal
        /\ IF w.res = "bad" THEN UNCHANGED sfxFaults ELSE SfxFault
  /\ UNCHANGED <<refused, fs, sfxOps, sfxCrashes, cancels, acked, want, adrift>>

\* cleanup_upload_orphans: every staged file and every backup goes.
CleanupOrphans == sfxFiles' = Visible(sfxFiles)

SfxServe ==
  /\ sfxUp = "starting" /\ workers = {} /\ SfxUnfinished = {}
  /\ CleanupOrphans /\ sfxUp' = "up" /\ want' = Visible(sfxFiles)
  /\ adrift' = FALSE /\ acked' = IF adrift THEN {} ELSE acked
  /\ UNCHANGED <<refused, sfxDirs, sfxJournal, sfxGate, req, workers, sfxBounds>>

-----------------------------------------------------------------------------
SfxNext ==
  \/ \E c \in SfxClients :
       \/ \E m \in SfxRequests : SfxSubmit(c, m)
       \/ \E p \in SfxPaths, policy \in Policies : SfxUpload(c, p, policy)
       \/ SfxAcquire(c) \/ ResolveUpload(c) \/ SfxCreateJournal(c) \/ BeginApply(c) \/ SfxCancel(c)
       \/ \E w \in workers : Settle(c, w)
  \/ \E w \in workers : ApplyStep(w) \/ ApplyFails(w) \/ Detached(w) \/ Replayed(w)
  \/ \E j \in SfxUnfinished : Replay(j)
  \/ SfxCrash \/ SfxStart \/ SfxServe

SfxSpec == SfxInit /\ [][SfxNext]_sfxVars

\* Fairness: the handlers and blocking tasks of a running process go on (the gate of tokio is
\* a queue), and a process that stopped is started again.
SfxFairSpec ==
  /\ SfxSpec
  /\ \A c \in SfxClients :
       /\ SF_sfxVars(SfxAcquire(c))
       /\ WF_sfxVars(ResolveUpload(c) \/ SfxCreateJournal(c) \/ BeginApply(c))
       /\ WF_sfxVars(\E w \in workers : Settle(c, w))
  /\ WF_sfxVars(\E w \in workers : ApplyStep(w) \/ Replayed(w))
  /\ WF_sfxVars(\E j \in SfxUnfinished : Replay(j))
  /\ WF_sfxVars(SfxStart) /\ WF_sfxVars(SfxServe)

-----------------------------------------------------------------------------
SfxHas(tree, p, x) == p \in DOMAIN tree /\ tree[p] = x
Plans == {sfxJournal[j].m : j \in DOMAIN sfxJournal}
Touches(m, p) == p \in {m.src, m.dst} \/ (m.op \in {"rename_folder", "delete_folder"} /\ p[1] \in {m.dir, m.to})

\* Every component has its type, and only the client behind the gate has a mutation under way.
SfxTypeOK ==
  /\ sfxUp \in {"down", "starting", "up"} /\ refused \in BOOLEAN
  /\ Root \in sfxDirs /\ sfxDirs \subseteq Folders \cup {Root}
  /\ \A p \in DOMAIN sfxFiles : p[1] \in sfxDirs /\ sfxFiles[p] \in 1..SfxMaxOps
  /\ sfxGate \in SfxClients \cup {NoOne}
  /\ \A c \in SfxClients :
       /\ req[c].pc \in {"idle", "wait", "resolve", "plan", "begin", "run"}
       /\ req[c].pc \notin {"idle", "wait"} <=> sfxGate = c
  /\ \A w \in workers : w.j \in DOMAIN sfxJournal /\ w.pc \in 0..2 /\ w.res \in {"none", "ok", "safe", "bad"}
  /\ acked \subseteq DOMAIN sfxJournal /\ adrift \in BOOLEAN

(* SfxCoordinator is a single writer whose folder holds what its clients   *)
(* were told: with no request behind the gate and no entry left to         *)
(* recovery, the visible files are the result of the mutations that were   *)
(* answered with success, in the order of their answers (execute_mutation, *)
(* publish_new_upload, publish_replacing_upload, finish_rename). Excepted  *)
(* is the time from a handler dropped behind its journal entry to the next *)
(* start: the gate is free while its worker still writes, or its entry     *)
(* waits for a replay over what follows (sfx.rs:602).                      *)
ServedAsTold ==
  sfxUp = "up" /\ ~refused /\ ~adrift /\ sfxGate = NoOne /\ workers = {} => Visible(sfxFiles) = want

(* The file of an upload that was answered with success is there, with its *)
(* content, whatever crashes and replays follow, until a later mutation of *)
(* its path is entered in the journal (recover_sfx_mutations,              *)
(* apply_blocking), or until a handler is dropped behind its journal       *)
(* entry, whose worker or replay may still change the path (sfx.rs:602).   *)
AckedUploadKept ==
  ~adrift =>
    \A k \in acked :
      LET m == sfxJournal[k].m IN
      m.op = "publish_upload" /\ (\A j \in DOMAIN sfxJournal : j > k => ~Touches(sfxJournal[j].m, m.dst))
        => SfxHas(sfxFiles, m.dst, m.n)

(* A start before which a mutation was cut short at any step serves the    *)
(* folder as it was before that mutation or as it is after all of it,      *)
(* never something between: an overwritten file is the old or the new one, *)
(* a moved file is in one place (publish_replacing_upload,                 *)
(* publish_new_upload, finish_rename). Excepted is a start after a handler *)
(* was dropped behind its journal entry (sfx.rs:602): several entries may  *)
(* be unfinished, and a second mutation may have run beside the first.     *)
RecoveredWhole ==
  [][SfxServe /\ ~adrift =>
       Visible(sfxFiles) = want \/ \E m \in Plans : Visible(sfxFiles) = SfxApply(m, want)]_sfxVars

\* The folder is what the clients were told, at rest and across deaths.
SoundsKept == ServedAsTold /\ AckedUploadKept

\* The effects of an interrupted mutation never keep the folder from being served again: every
\* stopped process comes up (recover_sfx_mutations, RecoveryArtifactConflict).
SfxRecovers == (sfxUp # "up") ~> (sfxUp = "up")

=============================================================================
