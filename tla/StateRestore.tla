---------------------------- MODULE StateRestore ----------------------------
(***************************************************************************)
(* Offline restore of a backup, its recovery, and the start of the server  *)
(* (crates/music-server/src/admin.rs, runtime.rs; the instance lock of     *)
(* crates/music-storage).                                                  *)
(*                                                                         *)
(* The state of an installation is four paths: the database, its two       *)
(* SQLite sidecars and the directory of the modes.  A restore stages an    *)
(* archive, writes a journal, moves the four aside and installs the staged *)
(* pair, one rename at a time; a process may die between any two of them.  *)
(* The contents of a path are abstracted to the lineage they belong to:    *)
(* the state the installation began with, the archive of a restore, or     *)
(* what a server made because it found nothing.                            *)
(***************************************************************************)
EXTENDS Naturals, FiniteSets

CONSTANTS
  Cli,          \* the processes of music-cli that restore or recover
  Server,       \* the server, as a holder of the instance lock
  RestoreNothing,      \* no file, no holder
  RestoreFresh,        \* the lineage of what a server makes on an empty installation
  Confirmed,    \* TRUE: --server-stopped holds for as long as a command runs
  RestoreMaxOps,       \* restores started
  RestoreMaxFaults,    \* calls of the file system that fail
  RestoreMaxCrashes    \* processes of music-cli that die

ASSUME RestoreAssumption ==
  /\ IsFiniteSet(Cli) /\ Cli # {} /\ Server \notin Cli
  /\ RestoreNothing \notin Cli \cup {Server, RestoreFresh}
  /\ RestoreNothing \notin Nat /\ RestoreFresh \notin Nat
  /\ Confirmed \in BOOLEAN
  /\ {RestoreMaxOps, RestoreMaxFaults, RestoreMaxCrashes} \subseteq Nat

\* The targets of a journal in its order: the database, its -wal and -shm, the modes.
RestoreTargets == 1..4
Database == 1
Wal == 2
Shm == 3
RestoreModes == 4

Lineages == 0..RestoreMaxOps \cup {RestoreFresh}
RestoreContents == Lineages \cup {RestoreNothing}
RestoreOps == 1..RestoreMaxOps
RestoreAbsent == [t \in RestoreTargets |-> RestoreNothing]

VARIABLES
  at,        \* contents of the four paths
  previous,  \* contents of their .pre-restore-<op> siblings
  aside,     \* contents of their .interrupted-restore-<op> siblings
  restoreJournal,   \* the restore journal beside the database
  lock,      \* the holder of the instance lock
  cli,       \* what each music-cli process is doing
  restoreServer,    \* how far the server has started
  archive,   \* whose key the archive on disk is of: this installation's or another's
  restoreBefore,    \* history: the four paths when the last journal was created
  restoreOps, restoreFaults, restoreCrashes

restoreVars == <<at, previous, aside, restoreJournal, lock, cli, restoreServer, archive, restoreBefore, restoreOps, restoreFaults, restoreCrashes>>
restoreFiles == <<at, previous, aside>>
restoreBounds == <<archive, restoreOps, restoreFaults, restoreCrashes>>

NoJournal == [kind |-> "none", op |-> 0, existed |-> [t \in RestoreTargets |-> FALSE]]
Ended == [pc |-> "ended", op |-> 0, existed |-> [t \in RestoreTargets |-> FALSE],
          target |-> 0, moved |-> FALSE, staged |-> "nothing"]

RestoreInit ==
  /\ at \in {RestoreAbsent,
             [t \in RestoreTargets |-> IF t \in {Database, RestoreModes} THEN 0 ELSE RestoreNothing],
             [t \in RestoreTargets |-> 0]}
  /\ previous = [o \in RestoreOps |-> RestoreAbsent]
  /\ aside = [o \in RestoreOps |-> RestoreAbsent]
  /\ restoreJournal = NoJournal
  /\ lock = RestoreNothing
  /\ cli = [c \in Cli |-> Ended]
  /\ restoreServer = "down"
  /\ archive \in {"paired", "foreign"}
  /\ restoreBefore = RestoreAbsent
  /\ restoreOps = 0 /\ restoreFaults = 0 /\ restoreCrashes = 0

\* The operator's confirmation: with Confirmed no command overlaps a server.
MayRun == Confirmed => restoreServer = "down"

RestoreGoto(c, pc) == cli' = [cli EXCEPT ![c].pc = pc]

\* A process returns, with a result or an error; its lock goes with it.
Return(c) ==
  /\ cli' = [cli EXCEPT ![c] = Ended]
  /\ lock' = IF lock = c THEN RestoreNothing ELSE lock

MayFail == restoreFaults < RestoreMaxFaults
RestoreFault == MayFail /\ restoreFaults' = restoreFaults + 1

-----------------------------------------------------------------------------
(* Restore: the checks, the staging and the journal.                       *)

\* The journal is looked for before the lock is taken.
RestoreOp(c) ==
  /\ cli[c].pc = "ended" /\ MayRun /\ restoreOps < RestoreMaxOps
  /\ restoreJournal.kind = "none"
  /\ restoreOps' = restoreOps + 1
  /\ cli' = [cli EXCEPT ![c] = [Ended EXCEPT !.pc = "lock", !.op = restoreOps + 1]]
  /\ UNCHANGED <<restoreFiles, restoreJournal, lock, restoreServer, archive, restoreBefore, restoreFaults, restoreCrashes>>

\* try_lock: a held lock ends the command.
RestoreAcquire(c) ==
  /\ cli[c].pc \in {"lock", "recover"}
  /\ IF lock # RestoreNothing
     THEN Return(c)
     ELSE /\ lock' = c
          /\ RestoreGoto(c, IF cli[c].pc = "lock" THEN "stage" ELSE "read")
  /\ UNCHANGED <<restoreFiles, restoreJournal, restoreServer, restoreBefore, restoreBounds>>

\* The archive is verified against its manifest and its key compared.
RestoreVerify(c) ==
  /\ cli[c].pc = "stage"
  /\ \/ archive = "paired" /\ RestoreGoto(c, "extract") /\ UNCHANGED <<lock, restoreFaults>>
     \/ archive = "foreign" /\ Return(c) /\ UNCHANGED restoreFaults
     \/ RestoreFault /\ Return(c)
  /\ UNCHANGED <<restoreFiles, restoreJournal, restoreServer, archive, restoreBefore, restoreOps, restoreCrashes>>

\* The archive is read a second time and extracted beside the targets; its manifest
\* must be the one that was verified.  The staged database is inspected.
Extract(c) ==
  /\ cli[c].pc = "extract"
  /\ \/ /\ archive = "paired"
        /\ cli' = [cli EXCEPT ![c].pc = "journal", ![c].staged = archive]
        /\ UNCHANGED <<lock, restoreFaults>>
     \/ archive = "foreign" /\ Return(c) /\ UNCHANGED restoreFaults
     \/ RestoreFault /\ Return(c)
  /\ UNCHANGED <<restoreFiles, restoreJournal, restoreServer, archive, restoreBefore, restoreOps, restoreCrashes>>

\* The operator puts another archive at its path.
ReplaceArchive ==
  /\ archive' \in {"paired", "foreign"} \ {archive}
  /\ UNCHANGED <<restoreFiles, restoreJournal, lock, cli, restoreServer, restoreBefore, restoreOps, restoreFaults, restoreCrashes>>

\* The journal names the targets that exist.  It is created empty, only when there
\* is none.
RestoreCreateJournal(c) ==
  /\ cli[c].pc = "journal"
  /\ IF restoreJournal.kind # "none"
     THEN Return(c) /\ UNCHANGED <<restoreJournal, restoreBefore>>
     ELSE LET existed == [t \in RestoreTargets |-> at[t] # RestoreNothing]
          IN  /\ restoreJournal' = [kind |-> "torn", op |-> cli[c].op, existed |-> existed]
              /\ cli' = [cli EXCEPT ![c].pc = "write", ![c].existed = existed]
              /\ restoreBefore' = at
              /\ UNCHANGED lock
  /\ UNCHANGED <<restoreFiles, restoreServer, restoreBounds>>

\* Its bytes are written and synchronised; an error leaves what was created.
WriteJournal(c) ==
  /\ cli[c].pc = "write"
  /\ \/ /\ restoreJournal' = [restoreJournal EXCEPT !.kind = "written"]
        /\ cli' = [cli EXCEPT ![c].pc = "retain", ![c].target = Database]
        /\ UNCHANGED <<lock, restoreFaults>>
     \/ RestoreFault /\ Return(c) /\ UNCHANGED restoreJournal
  /\ UNCHANGED <<restoreFiles, restoreServer, archive, restoreBefore, restoreOps, restoreCrashes>>

-----------------------------------------------------------------------------
(* Commit: four renames away, two renames in, and the journal goes.        *)

BeginRollback(c) == cli' = [cli EXCEPT ![c].pc = "rollback", ![c].target = RestoreModes,
                                       ![c].moved = FALSE]

\* One target of the journal is renamed to its .pre-restore sibling.
RestoreRetain(c) ==
  /\ cli[c].pc = "retain"
  /\ LET t == cli[c].target
         o == cli[c].op
         next == IF t = RestoreModes THEN RestoreGoto(c, "install_database")
                 ELSE cli' = [cli EXCEPT ![c].target = t + 1]
     IN  IF ~cli[c].existed[t]
         THEN next /\ UNCHANGED <<restoreFiles, restoreFaults>>
         ELSE \/ /\ previous' = [previous EXCEPT ![o][t] = at[t]]
                 /\ at' = [at EXCEPT ![t] = RestoreNothing]
                 /\ next
                 /\ UNCHANGED <<aside, restoreFaults>>
              \/ RestoreFault /\ BeginRollback(c) /\ UNCHANGED restoreFiles
  /\ UNCHANGED <<restoreJournal, lock, restoreServer, archive, restoreBefore, restoreOps, restoreCrashes>>

InstallDatabase(c) ==
  /\ cli[c].pc = "install_database"
  /\ \/ /\ at' = [at EXCEPT ![Database] = cli[c].op]
        /\ RestoreGoto(c, "install_modes")
        /\ UNCHANGED restoreFaults
     \/ RestoreFault /\ BeginRollback(c) /\ UNCHANGED at
  /\ UNCHANGED <<previous, aside, restoreJournal, lock, restoreServer, archive, restoreBefore, restoreOps, restoreCrashes>>

\* A directory a starting server has made meanwhile is replaced when it is empty;
\* the rename fails when the server has already seeded it.
InstallModes(c) ==
  /\ cli[c].pc = "install_modes"
  /\ \/ /\ at' = [at EXCEPT ![RestoreModes] = cli[c].op]
        /\ RestoreGoto(c, "unjournal")
        /\ UNCHANGED restoreFaults
     \/ /\ \/ at[RestoreModes] # RestoreNothing /\ UNCHANGED restoreFaults
           \/ RestoreFault
        /\ BeginRollback(c) /\ UNCHANGED at
  /\ UNCHANGED <<previous, aside, restoreJournal, lock, restoreServer, archive, restoreBefore, restoreOps, restoreCrashes>>

\* A journal that cannot be removed undoes the restore it describes.
RemoveJournal(c) ==
  /\ cli[c].pc = "unjournal"
  /\ \/ restoreJournal' = NoJournal /\ Return(c) /\ UNCHANGED restoreFaults
     \/ RestoreFault /\ BeginRollback(c) /\ UNCHANGED <<restoreJournal, lock>>
  /\ UNCHANGED <<restoreFiles, restoreServer, archive, restoreBefore, restoreOps, restoreCrashes>>

-----------------------------------------------------------------------------
(* Rollback, by the restore that failed or by a recovery.                  *)

NextTarget(c) ==
  cli' = IF cli[c].target = Database
         THEN [cli EXCEPT ![c].pc = "remove"]
         ELSE [cli EXCEPT ![c].target = @ - 1, ![c].moved = FALSE]

\* An error leaves the journal for a later recovery.
RestoreGiveUp(c) == Return(c) /\ UNCHANGED <<restoreFiles, restoreFaults>>

\* What stands at a target goes to its .interrupted-restore sibling.
MoveAside(c, t, o) ==
  /\ aside' = [aside EXCEPT ![o][t] = at[t]]
  /\ at' = [at EXCEPT ![t] = RestoreNothing]
  /\ IF cli[c].existed[t] THEN cli' = [cli EXCEPT ![c].moved = TRUE] ELSE NextTarget(c)
  /\ UNCHANGED <<previous, lock, restoreFaults>>

\* What was retained comes back; a seeded directory of the modes in its way fails it.
PutBack(c, t, o) ==
  \/ /\ at' = [at EXCEPT ![t] = previous[o][t]]
     /\ previous' = [previous EXCEPT ![o][t] = RestoreNothing]
     /\ NextTarget(c)
     /\ UNCHANGED <<aside, lock, restoreFaults>>
  \/ at[t] # RestoreNothing /\ RestoreGiveUp(c)

\* One rename of one target, from the modes back to the database.  Both places are
\* looked at, so that a rollback that died can be run again; a target that exists
\* nowhere, or a second thing to move aside, ends it with the journal in place.
Rollback(c) ==
  /\ cli[c].pc = "rollback"
  /\ LET t == cli[c].target
         o == cli[c].op
         existed == cli[c].existed[t]
         retained == previous[o][t] # RestoreNothing
         stands == at[t] # RestoreNothing
         inTheWay == stands /\ ~cli[c].moved /\ (retained \/ ~existed)
     IN  \/ inTheWay /\ aside[o][t] = RestoreNothing /\ MoveAside(c, t, o)
         \/ inTheWay /\ aside[o][t] # RestoreNothing /\ RestoreGiveUp(c)
         \/ ~inTheWay /\ existed /\ retained /\ PutBack(c, t, o)
         \/ existed /\ ~retained /\ stands /\ NextTarget(c) /\ UNCHANGED <<restoreFiles, lock, restoreFaults>>
         \/ existed /\ ~retained /\ ~stands /\ RestoreGiveUp(c)
         \/ ~existed /\ ~stands /\ NextTarget(c) /\ UNCHANGED <<restoreFiles, lock, restoreFaults>>
         \/ RestoreFault /\ Return(c) /\ UNCHANGED restoreFiles
  /\ UNCHANGED <<restoreJournal, restoreServer, archive, restoreBefore, restoreOps, restoreCrashes>>

\* The journal goes once every target is back.
RemoveRolledBack(c) ==
  /\ cli[c].pc = "remove"
  /\ \/ restoreJournal' = NoJournal /\ UNCHANGED restoreFaults
     \/ RestoreFault /\ UNCHANGED restoreJournal
  /\ Return(c)
  /\ UNCHANGED <<restoreFiles, restoreServer, archive, restoreBefore, restoreOps, restoreCrashes>>

RestoreRecover(c) ==
  /\ cli[c].pc = "ended" /\ MayRun
  /\ cli' = [cli EXCEPT ![c] = [Ended EXCEPT !.pc = "recover"]]
  /\ UNCHANGED <<restoreFiles, restoreJournal, lock, restoreServer, restoreBefore, restoreBounds>>

\* The journal is read under the lock; one that is missing or does not parse ends
\* the recovery.
ReadJournal(c) ==
  /\ cli[c].pc = "read"
  /\ IF restoreJournal.kind # "written"
     THEN Return(c)
     ELSE /\ cli' = [cli EXCEPT ![c] = [pc |-> "rollback", op |-> restoreJournal.op,
                                        existed |-> restoreJournal.existed,
                                        target |-> RestoreModes, moved |-> FALSE,
                                        staged |-> "nothing"]]
          /\ UNCHANGED lock
  /\ UNCHANGED <<restoreFiles, restoreJournal, restoreServer, restoreBefore, restoreBounds>>

\* A process of music-cli dies; the operating system drops its lock.
RestoreCrash(c) ==
  /\ cli[c].pc # "ended" /\ restoreCrashes < RestoreMaxCrashes
  /\ restoreCrashes' = restoreCrashes + 1
  /\ Return(c)
  /\ UNCHANGED <<restoreFiles, restoreJournal, restoreServer, archive, restoreBefore, restoreOps, restoreFaults>>

-----------------------------------------------------------------------------
(* The server.                                                             *)

\* Mutant: the journal is not looked for.
StartUnchecked ==
  /\ restoreServer = "down"
  /\ Confirmed => \A c \in Cli : cli[c].pc = "ended"
  /\ restoreServer' = "checked"
  /\ UNCHANGED <<restoreFiles, restoreJournal, lock, cli, restoreBefore, restoreBounds>>

\* The journal is looked for before the lock is taken.
RestoreStart ==
  /\ restoreServer = "down"
  /\ Confirmed => \A c \in Cli : cli[c].pc = "ended"
  /\ restoreJournal.kind = "none"
  /\ restoreServer' = "checked"
  /\ UNCHANGED <<restoreFiles, restoreJournal, lock, cli, restoreBefore, restoreBounds>>

\* Missing directories are made, and a missing one of the modes seeded, unlocked.
InitializeDirectories ==
  /\ restoreServer = "checked"
  /\ restoreServer' = "directories"
  /\ at' = [at EXCEPT ![RestoreModes] = IF @ = RestoreNothing THEN RestoreFresh ELSE @]
  /\ UNCHANGED <<previous, aside, restoreJournal, lock, cli, restoreBefore, restoreBounds>>

\* The lock, then the database: a missing one is made, and SQLite discards the
\* sidecars of a database it makes.
RestoreOpen ==
  /\ restoreServer = "directories"
  /\ IF lock # RestoreNothing
     THEN restoreServer' = "down" /\ UNCHANGED <<at, lock>>
     ELSE /\ restoreServer' = "serving"
          /\ lock' = Server
          /\ at' = IF at[Database] = RestoreNothing
                   THEN [at EXCEPT ![Database] = RestoreFresh, ![Wal] = RestoreFresh, ![Shm] = RestoreFresh]
                   ELSE [at EXCEPT ![Wal] = IF @ = RestoreNothing THEN at[Database] ELSE @,
                                   ![Shm] = IF @ = RestoreNothing THEN at[Database] ELSE @]
  /\ UNCHANGED <<previous, aside, restoreJournal, cli, restoreBefore, restoreBounds>>

\* A clean end removes the sidecars, a killed server leaves them.
RestoreStop ==
  /\ restoreServer # "down"
  /\ restoreServer' = "down"
  /\ lock' = IF lock = Server THEN RestoreNothing ELSE lock
  /\ at' \in IF restoreServer = "serving"
             THEN {at, [at EXCEPT ![Wal] = RestoreNothing, ![Shm] = RestoreNothing]}
             ELSE {at}
  /\ UNCHANGED <<previous, aside, restoreJournal, cli, restoreBefore, restoreBounds>>

-----------------------------------------------------------------------------

RestoreStep(c) ==
  \/ RestoreAcquire(c) \/ RestoreVerify(c) \/ Extract(c) \/ RestoreCreateJournal(c) \/ WriteJournal(c)
  \/ RestoreRetain(c) \/ InstallDatabase(c) \/ InstallModes(c) \/ RemoveJournal(c)
  \/ Rollback(c) \/ RemoveRolledBack(c) \/ ReadJournal(c)

RestoreNext ==
  \/ \E c \in Cli : RestoreOp(c) \/ RestoreRecover(c) \/ RestoreStep(c) \/ RestoreCrash(c)
  \/ ReplaceArchive
  \/ RestoreStart \/ InitializeDirectories \/ RestoreOpen \/ RestoreStop

RestoreSpec == RestoreInit /\ [][RestoreNext]_restoreVars

\* A command that was started runs on; an operator who finds a journal runs recover.
RestoreFairSpec ==
  /\ RestoreSpec
  /\ \A c \in Cli : WF_restoreVars(RestoreStep(c))
  /\ \A c \in Cli : WF_restoreVars(restoreJournal.kind # "none" /\ RestoreRecover(c))

-----------------------------------------------------------------------------

RestoreTypeOK ==
  /\ at \in [RestoreTargets -> RestoreContents]
  /\ previous \in [RestoreOps -> [RestoreTargets -> RestoreContents]]
  /\ aside \in [RestoreOps -> [RestoreTargets -> RestoreContents]]
  /\ restoreJournal \in [kind : {"none", "torn", "written"}, op : 0..RestoreMaxOps,
                         existed : [RestoreTargets -> BOOLEAN]]
  /\ lock \in Cli \cup {Server, RestoreNothing}
  /\ cli \in [Cli -> [pc : {"ended", "lock", "recover", "stage", "extract", "read", "journal",
                            "write", "retain", "install_database", "install_modes",
                            "unjournal", "rollback", "remove"},
                      op : 0..RestoreMaxOps, existed : [RestoreTargets -> BOOLEAN],
                      target : 0..4, moved : BOOLEAN, staged : {"nothing", "paired", "foreign"}]]
  /\ archive \in {"paired", "foreign"}
  /\ restoreServer \in {"down", "checked", "directories", "serving"}
  /\ restoreBefore \in [RestoreTargets -> RestoreContents]
  /\ restoreOps \in 0..RestoreMaxOps /\ restoreFaults \in 0..RestoreMaxFaults /\ restoreCrashes \in 0..RestoreMaxCrashes

\* The paths hold one lineage: the sidecars, where there are any, are of the database,
\* and the modes are of it too; without a database there is at most a new directory.
OneLineage ==
  IF at[Database] = RestoreNothing
  THEN at[Wal] = RestoreNothing /\ at[Shm] = RestoreNothing /\ at[RestoreModes] \in {RestoreNothing, RestoreFresh}
  ELSE /\ at[RestoreModes] = at[Database]
       /\ {at[Wal], at[Shm]} \subseteq {at[Database], RestoreNothing}

(* A server never serves a half-restored installation: database, sidecars and modes are  *)
(* of one lineage and no journal is pending, whatever died or failed before the start    *)
(* (commit_restore, rollback_restore, AppRuntime::start).                                *)
ServedWhole == restoreServer = "serving" => OneLineage /\ restoreJournal.kind = "none"

(* The journal goes only when the four paths are exactly what they were when it was      *)
(* written, sidecars included, or exactly the archive's pair without sidecars, however   *)
(* many commands failed or died in between (commit_restore, recover_interrupted_restore).*)
AllOrNothing ==
  [][restoreJournal.kind = "written" /\ restoreJournal'.kind = "none"
       => \/ at' = restoreBefore
          \/ at' = [t \in RestoreTargets |-> IF t \in {Database, RestoreModes} THEN restoreJournal.op ELSE RestoreNothing]]_restoreVars

(* A written journal is always worked off by an operator who runs recover, and ends with *)
(* the server able to start (rollback_restore can be run again after it died).           *)
RecoveryEnds == restoreJournal.kind = "written" ~> restoreJournal.kind = "none"

=============================================================================
