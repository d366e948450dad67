----------------------------- MODULE StateBackup ----------------------------
(***************************************************************************)
(* The backup a running server streams to an operator                      *)
(* (crates/music-server/src/admin.rs: BackupService::prepare; the snapshot *)
(* of crates/music-storage/src/backup.rs).                                 *)
(*                                                                         *)
(* Requests share a maintenance gate.  The holder snapshots the database,  *)
(* reads the credential key, copies the files of the modes one by one,     *)
(* archives and verifies the copies and reads the key again.  Meanwhile    *)
(* the server goes on: it commits to the database, replaces, makes and     *)
(* deletes files of the modes, and an operator may replace the key.        *)
(* Contents are version numbers, each write taking the next one.           *)
(***************************************************************************)
EXTENDS Naturals, Sequences, FiniteSets

CONSTANTS
  BackupRequests,     \* requests for a backup
  Files,        \* paths of the files of the modes, 1..n in the order of a listing
  Keys,         \* identifiers of credential keys
  BackupNothing,      \* no file, no request
  MaxWrites     \* writes of the server

ASSUME BackupAssumption ==
  /\ IsFiniteSet(BackupRequests) /\ IsFiniteSet(Files) /\ Files \subseteq Nat
  /\ BackupNothing \notin BackupRequests /\ BackupNothing \notin Nat
  /\ MaxWrites \in Nat

VARIABLES
  database,  \* version of the database
  backupModes,     \* version of each file of the modes, or Nothing
  backupKey,       \* the credential key in its file
  backupClock,     \* writes made so far
  backupHistory,   \* history: the database and the modes after every write
  backupGate,      \* the holder of the maintenance gate
  backup,    \* what each request has done
  delivered  \* archives streamed

backupVars == <<database, backupModes, backupKey, backupClock, backupHistory, backupGate, backup, delivered>>
state == <<database, backupModes, backupKey, backupClock, backupHistory>>

Versions == 0..MaxWrites
Blank == [f \in Files |-> BackupNothing]
BackupFresh == [pc |-> "waiting", database |-> 0, modes |-> Blank, left |-> {}, key |-> BackupNothing,
                began |-> 0]

BackupInit ==
  /\ database = 0
  /\ backupModes \in [Files -> {0, BackupNothing}]
  /\ backupKey \in Keys
  /\ backupClock = 0
  /\ backupHistory = <<[database |-> database, modes |-> backupModes]>>
  /\ backupGate = BackupNothing
  /\ backup = [r \in BackupRequests |-> BackupFresh]
  /\ delivered = {}

-----------------------------------------------------------------------------
(* The server goes on: no writer takes the gate.                           *)

BackupRecord == backupHistory' = Append(backupHistory, [database |-> database', modes |-> backupModes'])

\* A transaction of a request or a job.
BackupCommit ==
  /\ backupClock < MaxWrites
  /\ backupClock' = backupClock + 1 /\ database' = backupClock + 1
  /\ UNCHANGED <<backupModes, backupKey, backupGate, backup, delivered>>
  /\ BackupRecord

\* A file of the modes is replaced by a rename, made or deleted.
EditModes(f) ==
  /\ backupClock < MaxWrites
  /\ backupClock' = backupClock + 1
  /\ backupModes' \in {[backupModes EXCEPT ![f] = backupClock + 1], [backupModes EXCEPT ![f] = BackupNothing]}
  /\ UNCHANGED <<database, backupKey, backupGate, backup, delivered>>
  /\ BackupRecord

\* An operator replaces the key file.
ReplaceKey ==
  /\ backupClock < MaxWrites /\ backupClock' = backupClock + 1
  /\ backupKey' \in Keys \ {backupKey}
  /\ UNCHANGED <<database, backupModes, backupGate, backup, delivered>>
  /\ BackupRecord

-----------------------------------------------------------------------------
(* A backup.                                                               *)

Advance(r, change) == backup' = [backup EXCEPT ![r] = change]

\* prepare returns an error; its guard of the gate is dropped.
BackupFails(r) ==
  /\ Advance(r, [BackupFresh EXCEPT !.pc = "failed"])
  /\ backupGate' = BackupNothing
  /\ UNCHANGED <<state, delivered>>

\* exclusive: one backup at a time.
BackupBegin(r) ==
  /\ backup[r].pc = "waiting" /\ backupGate = BackupNothing
  /\ backupGate' = r
  /\ Advance(r, [backup[r] EXCEPT !.pc = "snapshot", !.began = backupClock])
  /\ UNCHANGED <<state, delivered>>

\* VACUUM INTO under the write gate of the database, then an inspection.
Snapshot(r) ==
  /\ backup[r].pc = "snapshot"
  /\ \/ /\ Advance(r, [backup[r] EXCEPT !.pc = "key", !.database = database])
        /\ UNCHANGED <<state, backupGate, delivered>>
     \/ BackupFails(r)

ReadKey(r) ==
  /\ backup[r].pc = "key"
  /\ Advance(r, [backup[r] EXCEPT !.pc = "list", !.key = backupKey])
  /\ UNCHANGED <<state, backupGate, delivered>>

\* The directory is listed; what appears later is not copied.
List(r) ==
  /\ backup[r].pc = "list"
  /\ Advance(r, [backup[r] EXCEPT !.pc = "copy",
                                  !.left = {f \in Files : backupModes[f] # BackupNothing}])
  /\ UNCHANGED <<state, backupGate, delivered>>

\* The listed files are copied in order; one that has gone fails the backup.
BackupCopy(r) ==
  /\ backup[r].pc = "copy" /\ backup[r].left # {}
  /\ LET f == CHOOSE f \in backup[r].left : \A g \in backup[r].left : f <= g
     IN  IF backupModes[f] = BackupNothing
         THEN BackupFails(r)
         ELSE /\ Advance(r, [backup[r] EXCEPT !.modes[f] = backupModes[f], !.left = @ \ {f}])
              /\ UNCHANGED <<state, backupGate, delivered>>

\* The copies are archived and the archive is verified against its manifest.
Archive(r) ==
  /\ backup[r].pc = "copy" /\ backup[r].left = {}
  /\ \/ /\ Advance(r, [backup[r] EXCEPT !.pc = "archived"])
        /\ UNCHANGED <<state, backupGate, delivered>>
     \/ BackupFails(r)

\* Mutant: the key is not read again.
DeliverUnpaired(r) ==
  /\ backup[r].pc = "archived"
  /\ Advance(r, [backup[r] EXCEPT !.pc = "delivered"])
  /\ delivered' = delivered \cup {backup[r]}
  /\ backupGate' = BackupNothing
  /\ UNCHANGED state

\* A key that changed since it was read fails the backup; the gate goes with prepare.
BackupDeliver(r) ==
  /\ backup[r].pc = "archived"
  /\ IF backupKey # backup[r].key
     THEN BackupFails(r)
     ELSE /\ Advance(r, [backup[r] EXCEPT !.pc = "delivered"])
          /\ delivered' = delivered \cup {backup[r]}
          /\ backupGate' = BackupNothing
          /\ UNCHANGED state

BackupNext ==
  \/ BackupCommit \/ ReplaceKey \/ \E f \in Files : EditModes(f)
  \/ \E r \in BackupRequests :
       BackupBegin(r) \/ Snapshot(r) \/ ReadKey(r) \/ List(r) \/ BackupCopy(r) \/ Archive(r) \/ BackupDeliver(r)

BackupSpec == BackupInit /\ [][BackupNext]_backupVars

\* Every await of a request completes, the gate serves its queue.
BackupFairSpec ==
  /\ BackupSpec
  /\ \A r \in BackupRequests : /\ SF_backupVars(BackupBegin(r))
                               /\ WF_backupVars(Snapshot(r) \/ ReadKey(r) \/ List(r) \/ BackupCopy(r)
                                                \/ Archive(r) \/ BackupDeliver(r))

-----------------------------------------------------------------------------

BackupTypeOK ==
  /\ database \in Versions /\ backupClock \in Versions
  /\ backupModes \in [Files -> Versions \cup {BackupNothing}]
  /\ backupKey \in Keys
  /\ Len(backupHistory) = backupClock + 1
  /\ backupGate \in BackupRequests \cup {BackupNothing}
  /\ \A r \in BackupRequests : /\ backup[r].database \in Versions
                               /\ backup[r].modes \in [Files -> Versions \cup {BackupNothing}]
                               /\ backup[r].left \subseteq Files

(* An archive is paired with the key it was made under: the key of its manifest is the   *)
(* key at the listing and still the key when it is delivered, so that a restore on this  *)
(* installation accepts it (credential_key_id before and after the copies).  A key that  *)
(* is replaced between the snapshot of the database and the first reading is not caught. *)
DeliveredPaired ==
  [][\A a \in delivered' \ delivered : a.key = backupKey]_backupVars

=============================================================================
