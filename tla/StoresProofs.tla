---------------------------- MODULE StoresProofs ----------------------------
(***************************************************************************)
(* Two more stores that are changed by moving files under a journal, and   *)
(* can stop at every call: the whole installation and the sound effects.   *)
(*                                                                         *)
(* Restore. A restore replaces four paths under a journal. ServedWhole is  *)
(* not inductive: for every step of a command the invariant says which of  *)
(* the paths are new, old or set aside (Progress), that a written journal  *)
(* names a restore whose previous files are still there for whoever rolls  *)
(* it back (Journalled), that no two commands work on one restore          *)
(* (OpsDiffer), and that the server is up only beside a whole installation *)
(* (ServerAlone).                                                          *)
(*                                                                         *)
(* Sound effects. SoundsKept speaks of the folder at rest. Inductive is,   *)
(* with it: that only the newest entry is unfinished and only one worker   *)
(* works on it (SfxOneEntry); who is behind the gate (SfxPhased); that a   *)
(* staged file holds its upload and a backup belongs to an entry           *)
(* (SfxFilesTyped); and of the mutation that is cut short or at work which *)
(* of its files are moved, kept or staged, so that a replay that looks at  *)
(* the files alone ends it (SfxKept).                                      *)
(***************************************************************************)
EXTENDS StateRestore, SfxMutation, FiniteSetTheorems, TLAPS

-----------------------------------------------------------------------------
(***************************************************************************)
(* Backup and restore.                                                     *)
(***************************************************************************)

Early == {"lock", "stage", "extract", "journal"}
AtWork == {"write", "retain", "install_database", "install_modes", "unjournal", "rollback", "remove"}
Locking == {"stage", "extract", "read", "journal"} \cup AtWork
Pcs == {"ended", "recover"} \cup Early \cup Locking

CliStates == [pc : Pcs, op : 0..RestoreMaxOps, existed : [RestoreTargets -> BOOLEAN],
              target : 0..4, moved : BOOLEAN, staged : {"nothing", "paired", "foreign"}]

RestoreTyped ==
  /\ at \in [RestoreTargets -> RestoreContents]
  /\ previous \in [RestoreOps -> [RestoreTargets -> RestoreContents]]
  /\ aside \in [RestoreOps -> [RestoreTargets -> RestoreContents]]
  /\ restoreJournal \in [kind : {"none", "torn", "written"}, op : 0..RestoreMaxOps,
                         existed : [RestoreTargets -> BOOLEAN]]
  /\ lock \in Cli \cup {Server, RestoreNothing}
  /\ cli \in [Cli -> CliStates]
  /\ archive \in {"paired", "foreign"}
  /\ restoreServer \in {"down", "checked", "directories", "serving"}
  /\ restoreBefore \in [RestoreTargets -> RestoreContents]
  /\ restoreOps \in 0..RestoreMaxOps

Whole(f) ==
  IF f[Database] = RestoreNothing
  THEN f[Wal] = RestoreNothing /\ f[Shm] = RestoreNothing /\ f[RestoreModes] \in {RestoreNothing, RestoreFresh}
  ELSE f[RestoreModes] = f[Database] /\ {f[Wal], f[Shm]} \subseteq {f[Database], RestoreNothing}

Pair(o) == [t \in RestoreTargets |-> IF t \in {Database, RestoreModes} THEN o ELSE RestoreNothing]

Untouched(o, t) == at[t] = restoreBefore[t] /\ previous[o][t] = RestoreNothing
Replaced(o, t) == at[t] = RestoreNothing \/ (at[t] = o /\ t \in {Database, RestoreModes})
Recoverable(o, t) ==
  \/ Untouched(o, t)
  \/ /\ Replaced(o, t)
     /\ previous[o][t] = restoreBefore[t]

Unused(o) ==
  /\ o \in RestoreOps /\ o <= restoreOps /\ previous[o] = RestoreAbsent
  /\ restoreJournal.kind # "none" => restoreJournal.op # o

ServerAlone ==
  /\ lock = Server <=> restoreServer = "serving"
  /\ restoreServer # "down" => restoreJournal.kind = "none" /\ \A c \in Cli : cli[c].pc = "ended"
  /\ restoreServer \in {"directories", "serving"} => at[RestoreModes] # RestoreNothing

Journalled ==
  /\ \A o \in RestoreOps : o > restoreOps => previous[o] = RestoreAbsent
  /\ restoreJournal.kind = "none" => Whole(at)
  /\ restoreJournal.kind # "none" =>
       /\ restoreJournal.op \in RestoreOps /\ restoreJournal.op <= restoreOps
       /\ Whole(restoreBefore)
       /\ \A t \in RestoreTargets : restoreJournal.existed[t] <=> restoreBefore[t] # RestoreNothing
  /\ restoreJournal.kind = "torn" => \A t \in RestoreTargets : Untouched(restoreJournal.op, t)
  /\ restoreJournal.kind = "written" => \A t \in RestoreTargets : Recoverable(restoreJournal.op, t)

Progress(c) ==
  LET k == cli[c].target  o == cli[c].op IN
  /\ cli[c].pc = "retain" =>
       k \in RestoreTargets /\ \A t \in RestoreTargets : IF t < k THEN at[t] = RestoreNothing ELSE Untouched(o, t)
  /\ cli[c].pc = "install_database" => \A t \in RestoreTargets : at[t] = RestoreNothing
  /\ cli[c].pc = "install_modes" =>
       \A t \in RestoreTargets : at[t] = IF t = Database THEN o ELSE RestoreNothing
  /\ cli[c].pc = "unjournal" => at = Pair(o)
  /\ cli[c].pc = "rollback" =>
       /\ k \in RestoreTargets /\ \A t \in RestoreTargets : t > k => Untouched(o, t)
       /\ cli[c].moved => cli[c].existed[k] /\ at[k] = RestoreNothing
  /\ cli[c].pc = "remove" => \A t \in RestoreTargets : Untouched(o, t)

Doing(c) ==
  /\ lock = c <=> cli[c].pc \in Locking
  /\ cli[c].pc \in Early => Unused(cli[c].op)
  /\ cli[c].pc \in AtWork =>
       /\ restoreJournal.kind = IF cli[c].pc = "write" THEN "torn" ELSE "written"
       /\ restoreJournal.op = cli[c].op /\ restoreJournal.existed = cli[c].existed
  /\ Progress(c)

OpsDiffer ==
  \A c, d \in Cli : cli[c].pc \in Early /\ cli[d].pc \in Early /\ c # d => cli[c].op # cli[d].op

RestoreIInv == RestoreTyped /\ ServerAlone /\ Journalled /\ OpsDiffer /\ \A c \in Cli : Doing(c)

-----------------------------------------------------------------------------

(* Lineages are not the absence of a file, and the targets are four. *)
LEMMA RestoreContentsAre ==
  /\ RestoreNothing \in RestoreContents /\ RestoreFresh \in RestoreContents
  /\ RestoreOps \subseteq RestoreContents /\ 0 \in RestoreContents
  /\ RestoreAbsent \in [RestoreTargets -> RestoreContents]
  /\ \A o \in RestoreOps : o # RestoreNothing /\ o # RestoreFresh /\ o \in Nat
  /\ RestoreFresh # RestoreNothing /\ 0 # RestoreNothing
  /\ \A t \in RestoreTargets : t = Database \/ t = Wal \/ t = Shm \/ t = RestoreModes
  /\ Database \in RestoreTargets /\ Wal \in RestoreTargets /\ Shm \in RestoreTargets /\ RestoreModes \in RestoreTargets
  BY RestoreAssumption, SMT DEF RestoreContents, Lineages, RestoreOps, RestoreAbsent, RestoreTargets,
     Database, Wal, Shm, RestoreModes

(* OneLineage says of the four paths that they are whole. *)
LEMMA WholeIsOneLineage == OneLineage <=> Whole(at)
  BY DEF OneLineage, Whole

(* An installation begins empty, or whole. *)
LEMMA RestoreInitially == ASSUME Confirmed = TRUE, RestoreInit PROVE RestoreIInv
<1>1. Ended \in CliStates
  BY RestoreAssumption DEF Ended, Pcs, CliStates
<1>2. NoJournal \in [kind : {"none", "torn", "written"}, op : 0..RestoreMaxOps,
                     existed : [RestoreTargets -> BOOLEAN]]
  BY RestoreAssumption DEF NoJournal
<1>3. at \in [RestoreTargets -> RestoreContents] /\ Whole(at)
  BY RestoreContentsAre DEF RestoreInit, RestoreAbsent, Whole, Database, Wal, Shm, RestoreModes, RestoreTargets
<1>4. RestoreTyped
  BY <1>1, <1>2, <1>3, RestoreContentsAre, RestoreAssumption DEF RestoreInit, RestoreTyped
<1>5. ServerAlone
  BY RestoreAssumption DEF RestoreInit, ServerAlone
<1>6. Journalled
  BY <1>3, RestoreContentsAre DEF RestoreInit, Journalled, NoJournal
<1>7. \A c \in Cli : cli[c].pc = "ended" /\ lock # c
  BY RestoreAssumption DEF RestoreInit, Ended
<1>8. \A c \in Cli : Doing(c)
  BY <1>7 DEF Doing, Progress, Early, AtWork, Locking
<1>9. OpsDiffer
  BY <1>7 DEF OpsDiffer, Early
<1> QED
  BY <1>4, <1>5, <1>6, <1>8, <1>9 DEF RestoreIInv

-----------------------------------------------------------------------------

(* While a command holds the lock no other one does and no server runs. *)
LEMMA HolderIsAlone ==
  ASSUME RestoreIInv, NEW c \in Cli, cli[c].pc \in Locking
  PROVE  /\ lock = c /\ restoreServer = "down"
         /\ \A d \in Cli : d # c => lock # d /\ cli[d].pc \notin Locking
<1>1. lock = c
  BY DEF RestoreIInv, Doing
<1>2. restoreServer = "down"
  BY DEF RestoreIInv, ServerAlone, Locking, AtWork
<1> QED
  BY <1>1, <1>2 DEF RestoreIInv, Doing

(* A step of the command that holds the lock concerns its own operation only: what is *)
(* left to show is what is said of the files, the journal and that command.           *)
LEMMA HolderStep ==
  ASSUME RestoreIInv, NEW c \in Cli, cli[c].pc \in Locking,
         lock' = c \/ lock' = RestoreNothing,
         restoreServer' = restoreServer, restoreOps' = restoreOps,
         \A d \in Cli : d # c => cli'[d] = cli[d],
         cli'[c].pc \in Early => cli[c].pc \in Early /\ cli'[c].op = cli[c].op,
         \A o \in RestoreOps : o # cli[c].op => previous'[o] = previous[o],
         \/ restoreJournal' = restoreJournal
         \/ restoreJournal'.kind = "none"
         \/ restoreJournal'.op = cli[c].op /\ cli[c].pc \in Early \cup AtWork,
         cli[c].pc = "read" => previous' = previous,
         RestoreTyped', Journalled', Doing(c)'
  PROVE  RestoreIInv'
<1>1. /\ lock = c /\ restoreServer = "down"
      /\ \A d \in Cli : d # c => lock # d /\ cli[d].pc \notin Locking
  BY HolderIsAlone
<1>2. ServerAlone'
  BY <1>1, RestoreAssumption DEF ServerAlone
<1>3. OpsDiffer'
  BY DEF RestoreIInv, OpsDiffer
<1>4. ASSUME NEW d \in Cli, d # c PROVE Doing(d)'
  <2>1. lock' # d /\ cli'[d] = cli[d] /\ cli[d].pc \notin Locking
    BY <1>1, <1>4, RestoreAssumption
  <2>2. Doing(d)
    BY DEF RestoreIInv
  <2>3. cli[d].pc \in Early => Unused(cli[d].op)'
    <3> SUFFICES ASSUME cli[d].pc \in Early PROVE Unused(cli[d].op)'
      OBVIOUS
    <3>1. Unused(cli[d].op)
      BY <2>2 DEF Doing
    <3>2. cli[c].pc # "read" => cli[d].op # cli[c].op
      <4>1. CASE cli[c].pc \in AtWork
        <5>1. restoreJournal.op = cli[c].op /\ restoreJournal.kind # "none"
          BY <4>1 DEF RestoreIInv, Doing
        <5> QED
          BY <3>1, <5>1 DEF Unused
      <4>2. CASE cli[c].pc \in Early
        BY <4>2, <1>4 DEF RestoreIInv, OpsDiffer
      <4>3. cli[c].pc \in AtWork \/ cli[c].pc \in Early \/ cli[c].pc = "read"
        BY DEF Locking, Early
      <4> QED
        BY <4>1, <4>2, <4>3
    <3>3. previous'[cli[d].op] = previous[cli[d].op]
      BY <3>1, <3>2 DEF Unused
    <3>4. restoreJournal'.kind # "none" => restoreJournal'.op # cli[d].op
      BY <3>1, <3>2 DEF Unused, Early, AtWork
    <3> QED
      BY <2>1, <3>1, <3>3, <3>4 DEF Unused
  <2> QED
    BY <2>1, <2>2, <2>3 DEF Doing, Progress, Locking, AtWork
<1> QED
  BY <1>2, <1>3, <1>4 DEF RestoreIInv

(* A command that did not move, and whose files did not, is where it was. *)
LEMMA DoingKeeps ==
  ASSUME NEW d \in Cli, Doing(d), cli'[d] = cli[d], lock' = d <=> lock = d,
         at' = at, previous' = previous, restoreJournal' = restoreJournal,
         restoreBefore' = restoreBefore, restoreOps' = restoreOps
  PROVE  Doing(d)'
  BY DEF Doing, Progress, Unused, Untouched

(* A command that returns or dies leaves the files and the journal as they are. *)
LEMMA RestoreReturns ==
  ASSUME RestoreIInv, NEW c \in Cli, Return(c),
         UNCHANGED <<restoreFiles, restoreJournal, restoreServer, restoreBefore, restoreOps, archive>>
  PROVE  RestoreIInv'
<1>0. /\ at' = at /\ previous' = previous /\ aside' = aside /\ restoreJournal' = restoreJournal
      /\ restoreServer' = restoreServer /\ restoreBefore' = restoreBefore
      /\ restoreOps' = restoreOps /\ archive' = archive
  BY DEF restoreFiles
<1>1. /\ cli' = [cli EXCEPT ![c] = Ended]
      /\ lock' = IF lock = c THEN RestoreNothing ELSE lock
  BY DEF Return
<1>2. Ended \in CliStates
  BY RestoreAssumption DEF Ended, Pcs, CliStates
<1>3. RestoreTyped /\ DOMAIN cli = Cli
  BY DEF RestoreIInv, RestoreTyped
<1>4. RestoreTyped'
  BY <1>0, <1>1, <1>2, <1>3 DEF RestoreTyped
<1>5. cli'[c].pc = "ended" /\ \A d \in Cli : d # c => cli'[d] = cli[d]
  BY <1>1, <1>3 DEF Ended
<1>6. ServerAlone'
  BY <1>0, <1>1, <1>5, RestoreAssumption DEF RestoreIInv, ServerAlone
<1>7. Journalled'
  BY <1>0 DEF RestoreIInv, Journalled, Untouched, Recoverable, Replaced, Whole
<1>8. OpsDiffer'
  BY <1>5 DEF RestoreIInv, OpsDiffer, Early
<1>9. lock' # c
  BY <1>1, RestoreAssumption
<1>10. Doing(c)'
  BY <1>5, <1>9 DEF Doing, Progress, Early, AtWork, Locking
<1>11. ASSUME NEW d \in Cli, d # c PROVE Doing(d)'
  <2>1. Doing(d) /\ cli'[d] = cli[d] /\ (lock' = d <=> lock = d)
    BY <1>1, <1>5, <1>11, RestoreAssumption DEF RestoreIInv
  <2> QED
    BY <1>0, <2>1, DoingKeeps
<1> QED
  BY <1>4, <1>6, <1>7, <1>8, <1>10, <1>11 DEF RestoreIInv

-----------------------------------------------------------------------------

(* A command that has ended. *)
LEMMA EndedIs == Ended \in CliStates /\ Ended.pc = "ended" /\ Ended.op = 0
  BY RestoreAssumption DEF Ended, Pcs, CliStates

(* A command that goes on with its operation. *)
LEMMA CliSet ==
  ASSUME NEW x \in CliStates, NEW p \in Pcs, NEW o \in 0..RestoreMaxOps
  PROVE  [x EXCEPT !.pc = p, !.op = o] \in CliStates /\ [x EXCEPT !.pc = p] \in CliStates
  BY DEF CliStates

(* A command that goes on with its target. *)
LEMMA CliSetTarget ==
  ASSUME NEW x \in CliStates, NEW p \in Pcs, NEW k \in 0..4
  PROVE  /\ [x EXCEPT !.pc = p, !.target = k] \in CliStates
         /\ [x EXCEPT !.target = k] \in CliStates
         /\ [x EXCEPT !.target = k, !.moved = FALSE] \in CliStates
         /\ [x EXCEPT !.moved = TRUE] \in CliStates
<1>1. [x EXCEPT !.pc = p, !.target = k] \in CliStates
  BY DEF CliStates
<1>2. [x EXCEPT !.target = k] \in CliStates
  BY DEF CliStates
<1>3. [x EXCEPT !.target = k, !.moved = FALSE] \in CliStates
  BY DEF CliStates
<1>4. [x EXCEPT !.moved = TRUE] \in CliStates
  BY DEF CliStates
<1> QED
  BY <1>1, <1>2, <1>3, <1>4

(* A command that goes to its next step keeps the rest. *)
LEMMA RestoreGoes ==
  ASSUME RestoreTyped, NEW c \in Cli, NEW p \in Pcs, RestoreGoto(c, p)
  PROVE  /\ cli' \in [Cli -> CliStates]
         /\ \A d \in Cli : d # c => cli'[d] = cli[d]
         /\ cli'[c].pc = p
         /\ cli'[c].op = cli[c].op /\ cli'[c].existed = cli[c].existed
         /\ cli'[c].target = cli[c].target /\ cli'[c].moved = cli[c].moved
<1>1. cli \in [Cli -> CliStates] /\ cli' = [cli EXCEPT ![c].pc = p]
  BY DEF RestoreTyped, RestoreGoto
<1>2. [cli[c] EXCEPT !.pc = p] \in CliStates
  BY <1>1 DEF CliStates
<1> QED
  BY <1>1, <1>2 DEF CliStates

(* A restore begins with an operation nobody has used. *)
LEMMA RestoreOpKeeps ==
  ASSUME Confirmed = TRUE, RestoreIInv, NEW c \in Cli, RestoreOp(c) PROVE RestoreIInv'
<1>1. /\ cli[c].pc = "ended" /\ MayRun /\ restoreOps < RestoreMaxOps
      /\ restoreJournal.kind = "none"
      /\ restoreOps' = restoreOps + 1
      /\ cli' = [cli EXCEPT ![c] = [Ended EXCEPT !.pc = "lock", !.op = restoreOps + 1]]
      /\ at' = at /\ previous' = previous /\ aside' = aside /\ restoreJournal' = restoreJournal
      /\ lock' = lock /\ restoreServer' = restoreServer /\ archive' = archive
      /\ restoreBefore' = restoreBefore
  BY DEF RestoreOp, restoreFiles
<1>2. RestoreTyped /\ cli \in [Cli -> CliStates] /\ restoreOps \in 0..RestoreMaxOps
  BY DEF RestoreIInv, RestoreTyped
<1>3. restoreOps + 1 \in 0..RestoreMaxOps /\ restoreOps + 1 \in RestoreOps
  BY <1>1, <1>2, RestoreAssumption DEF RestoreOps
<1>4. [Ended EXCEPT !.pc = "lock", !.op = restoreOps + 1] \in CliStates
  BY <1>3, EndedIs, CliSet DEF Pcs, Early
<1>5. cli' \in [Cli -> CliStates]
  BY <1>1, <1>2, <1>4
<1>6. /\ \A d \in Cli : d # c => cli'[d] = cli[d]
      /\ cli'[c].pc = "lock" /\ cli'[c].op = restoreOps + 1
  BY <1>1, <1>2 DEF Ended
<1>7. RestoreTyped'
  BY <1>1, <1>2, <1>3, <1>5 DEF RestoreTyped
<1>8. restoreServer = "down"
  BY <1>1 DEF MayRun, RestoreIInv, ServerAlone
<1>9. ServerAlone'
  BY <1>1, <1>8 DEF RestoreIInv, ServerAlone
<1>10. Journalled'
  <2>1. \A o \in RestoreOps : o > restoreOps' => o > restoreOps
    BY <1>1, <1>2, RestoreAssumption DEF RestoreOps
  <2> QED
    BY <1>1, <2>1 DEF RestoreIInv, Journalled, Whole
<1>11. \A d \in Cli : cli[d].pc \in Early => cli[d].op # restoreOps + 1
  BY <1>2 DEF RestoreIInv, Doing, Unused
<1>12. OpsDiffer'
  BY <1>1, <1>6, <1>11 DEF RestoreIInv, OpsDiffer
<1>13. lock' # c
  BY <1>1 DEF RestoreIInv, Doing, Locking, AtWork
<1>14. previous[restoreOps + 1] = RestoreAbsent
  BY <1>2, <1>3 DEF RestoreIInv, Journalled
<1>15. Doing(c)'
  <2>1. Unused(cli[c].op)'
    BY <1>1, <1>2, <1>3, <1>6, <1>14 DEF Unused
  <2> QED
    BY <1>6, <1>13, <2>1 DEF Doing, Progress, Early, AtWork, Locking
<1>16. ASSUME NEW d \in Cli, d # c PROVE Doing(d)'
  <2>1. Doing(d) /\ cli'[d] = cli[d]
    BY <1>6, <1>16 DEF RestoreIInv
  <2>2. cli[d].pc \in Early => Unused(cli[d].op)'
    <3> SUFFICES ASSUME cli[d].pc \in Early PROVE Unused(cli[d].op)'
      OBVIOUS
    <3>1. Unused(cli[d].op) /\ cli'[d].op = cli[d].op
      BY <2>1 DEF Doing
    <3>2. cli[d].op <= restoreOps'
      BY <1>1, <1>2, <3>1 DEF Unused, RestoreOps
    <3> QED
      BY <1>1, <3>1, <3>2 DEF Unused
  <2> QED
    BY <1>1, <2>1, <2>2 DEF Doing, Progress, Untouched
<1> QED
  BY <1>7, <1>9, <1>10, <1>12, <1>15, <1>16 DEF RestoreIInv

(* A recovery begins with nothing. *)
LEMMA RestoreRecoverKeeps ==
  ASSUME Confirmed = TRUE, RestoreIInv, NEW c \in Cli, RestoreRecover(c) PROVE RestoreIInv'
<1>1. /\ cli[c].pc = "ended" /\ MayRun
      /\ cli' = [cli EXCEPT ![c] = [Ended EXCEPT !.pc = "recover"]]
      /\ at' = at /\ previous' = previous /\ aside' = aside /\ restoreJournal' = restoreJournal
      /\ lock' = lock /\ restoreServer' = restoreServer /\ archive' = archive
      /\ restoreBefore' = restoreBefore /\ restoreOps' = restoreOps
  BY DEF RestoreRecover, restoreFiles, restoreBounds
<1>2. RestoreTyped /\ cli \in [Cli -> CliStates]
  BY DEF RestoreIInv, RestoreTyped
<1>4. [Ended EXCEPT !.pc = "recover"] \in CliStates
  <2>1. 0 \in 0..RestoreMaxOps /\ "recover" \in Pcs
    BY RestoreAssumption DEF Pcs
  <2> QED
    BY <2>1, EndedIs, CliSet
<1>5. cli' \in [Cli -> CliStates]
  BY <1>1, <1>2, <1>4
<1>6. /\ \A d \in Cli : d # c => cli'[d] = cli[d]
      /\ cli'[c].pc = "recover"
  BY <1>1, <1>2 DEF Ended
<1>7. RestoreTyped'
  BY <1>1, <1>2, <1>5 DEF RestoreTyped
<1>8. restoreServer = "down"
  BY <1>1 DEF MayRun
<1>9. ServerAlone'
  BY <1>1, <1>8 DEF RestoreIInv, ServerAlone
<1>10. Journalled'
  BY <1>1 DEF RestoreIInv, Journalled, Whole, Untouched, Recoverable, Replaced
<1>12. OpsDiffer'
  BY <1>1, <1>6 DEF RestoreIInv, OpsDiffer, Early
<1>13. lock' # c
  BY <1>1 DEF RestoreIInv, Doing, Locking, AtWork
<1>15. Doing(c)'
  BY <1>6, <1>13 DEF Doing, Progress, Early, AtWork, Locking
<1>16. ASSUME NEW d \in Cli, d # c PROVE Doing(d)'
  <2>1. Doing(d) /\ cli'[d] = cli[d]
    BY <1>6, <1>16 DEF RestoreIInv
  <2> QED
    BY <1>1, <2>1, DoingKeeps
<1> QED
  BY <1>7, <1>9, <1>10, <1>12, <1>15, <1>16 DEF RestoreIInv

(* The lock is taken, or the command ends. *)
LEMMA RestoreAcquireKeeps ==
  ASSUME RestoreIInv, NEW c \in Cli, RestoreAcquire(c) PROVE RestoreIInv'
<1>1. /\ at' = at /\ previous' = previous /\ aside' = aside /\ restoreJournal' = restoreJournal
      /\ restoreServer' = restoreServer /\ archive' = archive
      /\ restoreBefore' = restoreBefore /\ restoreOps' = restoreOps
  BY DEF RestoreAcquire, restoreFiles, restoreBounds
<1>2. CASE Return(c)
  BY <1>1, <1>2, RestoreReturns DEF restoreFiles
<1>3. CASE /\ lock = RestoreNothing /\ lock' = c /\ cli[c].pc \in {"lock", "recover"}
           /\ RestoreGoto(c, IF cli[c].pc = "lock" THEN "stage" ELSE "read")
  <2>1. PICK p \in Pcs : p = IF cli[c].pc = "lock" THEN "stage" ELSE "read"
    BY DEF Pcs, Locking
  <2>2. RestoreTyped /\ RestoreGoto(c, p)
    BY <1>3, <2>1 DEF RestoreIInv
  <2>3. /\ cli' \in [Cli -> CliStates]
        /\ \A d \in Cli : d # c => cli'[d] = cli[d]
        /\ cli'[c].pc = p /\ cli'[c].op = cli[c].op
    BY <2>2, RestoreGoes
  <2>4. RestoreTyped'
    BY <1>1, <1>3, <2>2, <2>3 DEF RestoreTyped
  <2>5. restoreServer = "down"
    BY <1>3 DEF RestoreIInv, ServerAlone
  <2>6. ServerAlone'
    BY <1>1, <1>3, <2>5, RestoreAssumption DEF ServerAlone
  <2>7. Journalled'
    BY <1>1 DEF RestoreIInv, Journalled, Whole, Untouched, Recoverable, Replaced
  <2>8. OpsDiffer'
    BY <1>3, <2>1, <2>3 DEF RestoreIInv, OpsDiffer, Early
  <2>9. Doing(c)'
    <3>1. cli'[c].pc = "stage" => Unused(cli[c].op)'
      BY <1>1, <1>3, <2>1, <2>3 DEF RestoreIInv, Doing, Unused, Early
    <3> QED
      BY <1>3, <2>1, <2>3, <3>1 DEF Doing, Progress, Early, AtWork, Locking
  <2>10. ASSUME NEW d \in Cli, d # c PROVE Doing(d)'
    <3>1. Doing(d) /\ cli'[d] = cli[d] /\ lock # d /\ lock' # d
      BY <1>3, <2>3, <2>10, RestoreAssumption DEF RestoreIInv
    <3> QED
      BY <1>1, <3>1 DEF Doing, Progress, Untouched, Unused
  <2> QED
    BY <2>4, <2>6, <2>7, <2>8, <2>9, <2>10 DEF RestoreIInv
<1> QED
  BY <1>2, <1>3 DEF RestoreAcquire

(* The verification changes nothing. *)
LEMMA RestoreVerifyKeeps ==
  ASSUME RestoreIInv, NEW c \in Cli, RestoreVerify(c) PROVE RestoreIInv'
<1>1. /\ at' = at /\ previous' = previous /\ aside' = aside /\ restoreJournal' = restoreJournal
      /\ restoreServer' = restoreServer /\ archive' = archive
      /\ restoreBefore' = restoreBefore /\ restoreOps' = restoreOps /\ cli[c].pc = "stage"
  BY DEF RestoreVerify, restoreFiles
<1>2. CASE Return(c)
  BY <1>1, <1>2, RestoreReturns DEF restoreFiles
<1>3. CASE RestoreGoto(c, "extract") /\ lock' = lock
  <2>1. cli[c].pc \in Locking /\ "extract" \in Pcs /\ cli[c].pc \in Early
    BY <1>1 DEF Locking, Pcs, Early
  <2>2. RestoreTyped
    BY DEF RestoreIInv
  <2>3. /\ cli' \in [Cli -> CliStates]
        /\ \A d \in Cli : d # c => cli'[d] = cli[d]
        /\ cli'[c].pc = "extract" /\ cli'[c].op = cli[c].op
    BY <1>3, <2>1, <2>2, RestoreGoes
  <2>4. RestoreTyped'
    BY <1>1, <1>3, <2>2, <2>3 DEF RestoreTyped
  <2>5. Journalled'
    BY <1>1 DEF RestoreIInv, Journalled, Whole, Untouched, Recoverable, Replaced
  <2>6. lock = c
    BY <2>1, HolderIsAlone
  <2>7. Doing(c)'
    <3>1. Unused(cli[c].op)'
      BY <1>1, <2>1, <2>3 DEF RestoreIInv, Doing, Unused
    <3> QED
      BY <1>3, <2>3, <2>6, <3>1 DEF Doing, Progress, AtWork, Locking
  <2> QED
    BY <1>1, <1>3, <2>1, <2>3, <2>4, <2>5, <2>6, <2>7, HolderStep
<1> QED
  BY <1>2, <1>3 DEF RestoreVerify

(* The staging changes none of the paths. *)
LEMMA ExtractKeeps ==
  ASSUME RestoreIInv, NEW c \in Cli, Extract(c) PROVE RestoreIInv'
<1>1. /\ at' = at /\ previous' = previous /\ aside' = aside /\ restoreJournal' = restoreJournal
      /\ restoreServer' = restoreServer /\ archive' = archive
      /\ restoreBefore' = restoreBefore /\ restoreOps' = restoreOps /\ cli[c].pc = "extract"
  BY DEF Extract, restoreFiles
<1>2. CASE Return(c)
  BY <1>1, <1>2, RestoreReturns DEF restoreFiles
<1>3. CASE cli' = [cli EXCEPT ![c].pc = "journal", ![c].staged = archive] /\ lock' = lock
  <2>1. cli[c].pc \in Locking /\ "journal" \in Pcs /\ cli[c].pc \in Early
    BY <1>1 DEF Locking, Pcs, Early
  <2>2. RestoreTyped /\ cli \in [Cli -> CliStates] /\ archive \in {"paired", "foreign"}
    BY DEF RestoreIInv, RestoreTyped
  <2>3. /\ cli' \in [Cli -> CliStates]
        /\ \A d \in Cli : d # c => cli'[d] = cli[d]
        /\ cli'[c].pc = "journal" /\ cli'[c].op = cli[c].op
    BY <1>3, <2>1, <2>2 DEF CliStates
  <2>4. RestoreTyped'
    BY <1>1, <1>3, <2>2, <2>3 DEF RestoreTyped
  <2>5. Journalled'
    BY <1>1 DEF RestoreIInv, Journalled, Whole, Untouched, Recoverable, Replaced
  <2>6. lock = c
    BY <2>1, HolderIsAlone
  <2>7. Doing(c)'
    <3>1. Unused(cli[c].op)'
      BY <1>1, <2>1, <2>3 DEF RestoreIInv, Doing, Unused
    <3> QED
      BY <1>3, <2>3, <2>6, <3>1 DEF Doing, Progress, AtWork, Locking
  <2> QED
    BY <1>1, <1>3, <2>1, <2>3, <2>4, <2>5, <2>6, <2>7, HolderStep
<1> QED
  BY <1>2, <1>3 DEF Extract

-----------------------------------------------------------------------------

(* The journal is created over untouched paths. *)
LEMMA RestoreCreateJournalKeeps ==
  ASSUME RestoreIInv, NEW c \in Cli, RestoreCreateJournal(c) PROVE RestoreIInv'
<1>1. /\ at' = at /\ previous' = previous /\ aside' = aside
      /\ restoreServer' = restoreServer /\ archive' = archive
      /\ restoreOps' = restoreOps /\ cli[c].pc = "journal"
  BY DEF RestoreCreateJournal, restoreFiles, restoreBounds
<1>2. CASE Return(c) /\ restoreJournal' = restoreJournal /\ restoreBefore' = restoreBefore
  BY <1>1, <1>2, RestoreReturns DEF restoreFiles
<1>3. ASSUME NEW existed, existed = [t \in RestoreTargets |-> at[t] # RestoreNothing],
             restoreJournal.kind = "none",
             restoreJournal' = [kind |-> "torn", op |-> cli[c].op, existed |-> existed],
             cli' = [cli EXCEPT ![c].pc = "write", ![c].existed = existed],
             restoreBefore' = at, lock' = lock
      PROVE  RestoreIInv'
  <2>1. cli[c].pc \in Locking /\ cli[c].pc \in Early /\ "write" \in Pcs
    BY <1>1 DEF Locking, Pcs, Early, AtWork
  <2>2. RestoreTyped /\ cli \in [Cli -> CliStates] /\ at \in [RestoreTargets -> RestoreContents]
    BY DEF RestoreIInv, RestoreTyped
  <2>3. existed \in [RestoreTargets -> BOOLEAN] /\ \A t \in RestoreTargets : existed[t] <=> at[t] # RestoreNothing
    BY <1>3
  <2>4. /\ cli' \in [Cli -> CliStates]
        /\ \A d \in Cli : d # c => cli'[d] = cli[d]
        /\ cli'[c].pc = "write" /\ cli'[c].op = cli[c].op /\ cli'[c].existed = existed
    <3> HIDE DEF Pcs
    <3>1. [cli[c] EXCEPT !.pc = "write", !.existed = existed] \in CliStates
      BY <2>1, <2>2, <2>3 DEF CliStates
    <3> QED
      BY <1>3, <2>1, <2>2, <2>3, <3>1 DEF CliStates
  <2>5. /\ restoreJournal'.kind = "torn" /\ restoreJournal'.op = cli[c].op
        /\ restoreJournal'.existed = existed
        /\ restoreJournal' \in [kind : {"none", "torn", "written"}, op : 0..RestoreMaxOps,
                                existed : [RestoreTargets -> BOOLEAN]]
    BY <1>3, <2>2, <2>3 DEF CliStates
  <2>6. RestoreTyped'
    BY <1>1, <1>3, <2>2, <2>4, <2>5 DEF RestoreTyped
  <2>7. Unused(cli[c].op)
    BY <2>1 DEF RestoreIInv, Doing
  <2>8. \A t \in RestoreTargets : previous[cli[c].op][t] = RestoreNothing
    BY <2>7 DEF Unused, RestoreAbsent
  <2>9. Journalled'
    <3>1. Whole(at)
      BY <1>3 DEF RestoreIInv, Journalled
    <3>2. Whole(restoreBefore)'
      BY <1>3, <3>1 DEF Whole
    <3>3. \A t \in RestoreTargets : Untouched(restoreJournal.op, t)'
      BY <1>1, <1>3, <2>5, <2>8 DEF Untouched
    <3>4. (\A o \in RestoreOps : o > restoreOps => previous[o] = RestoreAbsent)'
      BY <1>1 DEF RestoreIInv, Journalled
    <3>5. (\A t \in RestoreTargets : restoreJournal.existed[t] <=> restoreBefore[t] # RestoreNothing)'
      BY <1>3, <2>3, <2>5
    <3>6. (restoreJournal.op \in RestoreOps /\ restoreJournal.op <= restoreOps)'
      BY <1>1, <2>5, <2>7 DEF Unused
    <3> QED
      BY <2>5, <3>2, <3>3, <3>4, <3>5, <3>6 DEF Journalled
  <2>10. lock = c
    BY <2>1, HolderIsAlone
  <2>11. Doing(c)'
    BY <1>3, <2>4, <2>5, <2>10 DEF Doing, Progress, Early, AtWork, Locking
  <2> QED
    BY <1>1, <1>3, <2>1, <2>4, <2>5, <2>6, <2>9, <2>10, <2>11, HolderStep DEF Early
<1> QED
  BY <1>2, <1>3 DEF RestoreCreateJournal

(* The journal is written before the first rename. *)
LEMMA WriteJournalKeeps ==
  ASSUME RestoreIInv, NEW c \in Cli, WriteJournal(c) PROVE RestoreIInv'
<1>1. /\ at' = at /\ previous' = previous /\ aside' = aside
      /\ restoreServer' = restoreServer /\ archive' = archive /\ restoreBefore' = restoreBefore
      /\ restoreOps' = restoreOps /\ cli[c].pc = "write"
  BY DEF WriteJournal, restoreFiles
<1>2. CASE Return(c) /\ restoreJournal' = restoreJournal
  BY <1>1, <1>2, RestoreReturns DEF restoreFiles
<1>3. CASE /\ restoreJournal' = [restoreJournal EXCEPT !.kind = "written"]
           /\ cli' = [cli EXCEPT ![c].pc = "retain", ![c].target = Database]
           /\ lock' = lock
  <2>1. cli[c].pc \in Locking /\ cli[c].pc \in AtWork /\ "retain" \in Pcs
    BY <1>1 DEF Locking, Pcs, AtWork
  <2>2. /\ RestoreTyped /\ cli \in [Cli -> CliStates]
        /\ restoreJournal \in [kind : {"none", "torn", "written"}, op : 0..RestoreMaxOps,
                               existed : [RestoreTargets -> BOOLEAN]]
    BY DEF RestoreIInv, RestoreTyped
  <2>3. /\ cli' \in [Cli -> CliStates]
        /\ \A d \in Cli : d # c => cli'[d] = cli[d]
        /\ cli'[c].pc = "retain" /\ cli'[c].op = cli[c].op /\ cli'[c].existed = cli[c].existed
        /\ cli'[c].target = Database
    <3>1. [cli[c] EXCEPT !.pc = "retain", !.target = Database] \in CliStates
      <4>1. Database \in 0..4 /\ cli[c] \in CliStates
        BY <2>2 DEF Database
      <4> QED
        BY <2>1, <4>1, CliSetTarget
    <3> QED
      BY <1>3, <2>1, <2>2, <3>1 DEF CliStates
  <2>4. /\ restoreJournal'.kind = "written" /\ restoreJournal'.op = restoreJournal.op
        /\ restoreJournal'.existed = restoreJournal.existed
        /\ restoreJournal' \in [kind : {"none", "torn", "written"}, op : 0..RestoreMaxOps,
                                existed : [RestoreTargets -> BOOLEAN]]
    BY <1>3, <2>2
  <2>5. RestoreTyped'
    BY <1>1, <1>3, <2>2, <2>3, <2>4 DEF RestoreTyped
  <2>6. /\ restoreJournal.kind = "torn" /\ restoreJournal.op = cli[c].op
        /\ restoreJournal.existed = cli[c].existed
    BY <1>1, <2>1 DEF RestoreIInv, Doing
  <2>7. \A t \in RestoreTargets : Untouched(cli[c].op, t)
    BY <2>6 DEF RestoreIInv, Journalled
  <2>8. \A t \in RestoreTargets : Untouched(cli[c].op, t)'
    BY <1>1, <2>3, <2>7 DEF Untouched
  <2>9. Journalled'
    BY <1>1, <2>3, <2>4, <2>6, <2>8 DEF RestoreIInv, Journalled, Recoverable, Whole
  <2>10. lock = c
    BY <2>1, HolderIsAlone
  <2>11. Doing(c)'
    <3>1. \A t \in RestoreTargets : ~(t < Database)
      BY DEF RestoreTargets, Database
    <3>2. Progress(c)'
      BY <2>3, <2>8, <3>1, RestoreContentsAre DEF Progress
    <3> QED
      BY <1>3, <2>3, <2>4, <2>6, <2>10, <3>2 DEF Doing, Early, AtWork, Locking
  <2> QED
    BY <1>1, <1>3, <2>1, <2>3, <2>4, <2>5, <2>6, <2>9, <2>10, <2>11, HolderStep DEF Early, AtWork
<1> QED
  BY <1>2, <1>3 DEF WriteJournal

-----------------------------------------------------------------------------

(* A rollback may begin at any step behind the journal. *)
LEMMA BeginsRollback ==
  ASSUME RestoreIInv, NEW c \in Cli, cli[c].pc \in AtWork, cli[c].pc # "write", BeginRollback(c),
         UNCHANGED <<restoreFiles, restoreJournal, lock, restoreServer, archive, restoreBefore, restoreOps>>
  PROVE  RestoreIInv'
<1>1. /\ at' = at /\ previous' = previous /\ aside' = aside /\ restoreJournal' = restoreJournal
      /\ restoreServer' = restoreServer /\ archive' = archive /\ restoreBefore' = restoreBefore
      /\ restoreOps' = restoreOps /\ lock' = lock
  BY DEF restoreFiles
<1>2. cli[c].pc \in Locking /\ "rollback" \in Pcs
  BY DEF Locking, Pcs, AtWork
<1>3. RestoreTyped /\ cli \in [Cli -> CliStates]
  BY DEF RestoreIInv, RestoreTyped
<1>4. PICK x : x = [cli[c] EXCEPT !.pc = "rollback", !.target = RestoreModes, !.moved = FALSE]
  OBVIOUS
<1>5. cli' = [cli EXCEPT ![c] = x]
  BY <1>3, <1>4 DEF BeginRollback
<1>6. /\ x.pc = "rollback" /\ x.op = cli[c].op /\ x.existed = cli[c].existed
      /\ x.target = RestoreModes /\ x.moved = FALSE /\ x.staged = cli[c].staged
      /\ x = [f \in DOMAIN cli[c] |-> x[f]]
  BY <1>3, <1>4 DEF CliStates
<1>7. x \in CliStates
  <2>1. RestoreModes \in 0..4 /\ cli[c] \in CliStates
    BY <1>3 DEF RestoreModes
  <2> QED
    BY <1>2, <1>6, <2>1 DEF CliStates
<1>8. cli' \in [Cli -> CliStates] /\ cli'[c] = x /\ \A d \in Cli : d # c => cli'[d] = cli[d]
  BY <1>3, <1>5, <1>7
<1>9. RestoreTyped'
  BY <1>1, <1>3, <1>8 DEF RestoreTyped
<1>10. Journalled'
  BY <1>1 DEF RestoreIInv, Journalled, Whole, Untouched, Recoverable, Replaced
<1>11. lock = c
  BY <1>2, HolderIsAlone
<1>12. Doing(c)'
  <2>1. \A t \in RestoreTargets : ~(t > RestoreModes)
    BY DEF RestoreTargets, RestoreModes
  <2>2. Progress(c)'
    BY <1>6, <1>8, <2>1, RestoreContentsAre DEF Progress
  <2>3. /\ restoreJournal.kind = "written"
        /\ restoreJournal.op = cli[c].op /\ restoreJournal.existed = cli[c].existed
    BY DEF RestoreIInv, Doing
  <2> QED
    BY <1>1, <1>6, <1>8, <1>11, <2>2, <2>3 DEF Doing, Early, AtWork, Locking
<1> QED
  BY <1>1, <1>2, <1>6, <1>8, <1>9, <1>10, <1>11, <1>12, HolderStep DEF Early

(* A command behind the journal works on the operation the journal names. *)
LEMMA AtWorkHas ==
  ASSUME RestoreIInv, NEW c \in Cli, cli[c].pc \in AtWork, cli[c].pc # "write"
  PROVE  /\ cli[c].pc \in Locking /\ lock = c
         /\ restoreJournal.kind = "written" /\ restoreJournal.op = cli[c].op
         /\ restoreJournal.existed = cli[c].existed
         /\ cli[c].op \in RestoreOps /\ cli[c].op <= restoreOps
         /\ Whole(restoreBefore)
         /\ \A t \in RestoreTargets :
               /\ Recoverable(cli[c].op, t)
               /\ cli[c].existed[t] <=> restoreBefore[t] # RestoreNothing
<1>1. cli[c].pc \in Locking
  BY DEF Locking
<1>2. /\ restoreJournal.kind = "written" /\ restoreJournal.op = cli[c].op
      /\ restoreJournal.existed = cli[c].existed /\ lock = c
  BY <1>1 DEF RestoreIInv, Doing
<1> QED
  BY <1>1, <1>2 DEF RestoreIInv, Journalled

(* While every target can be recovered the journal is right about the files. *)
LEMMA WrittenStep ==
  ASSUME RestoreIInv, NEW c \in Cli, cli[c].pc \in AtWork, cli[c].pc # "write",
         NEW o, o = cli[c].op,
         restoreJournal' = restoreJournal, restoreBefore' = restoreBefore, restoreOps' = restoreOps,
         \A q \in RestoreOps : q # o => previous'[q] = previous[q],
         \A t \in RestoreTargets : Recoverable(o, t)'
  PROVE  Journalled'
<1>1. /\ restoreJournal.kind = "written" /\ restoreJournal.op = o /\ o \in RestoreOps /\ o <= restoreOps
  BY AtWorkHas
<1>2. \A q \in RestoreOps : q > restoreOps => q # o
  BY <1>1, RestoreAssumption DEF RestoreOps, RestoreIInv, RestoreTyped
<1> QED
  BY <1>1, <1>2 DEF RestoreIInv, Journalled, Whole

(* A target that is renamed away is retained as it was. *)
LEMMA RestoreRetainKeeps ==
  ASSUME RestoreIInv, NEW c \in Cli, RestoreRetain(c) PROVE RestoreIInv'
<1>1. /\ cli[c].pc = "retain" /\ aside' = aside /\ restoreJournal' = restoreJournal /\ lock' = lock
      /\ restoreServer' = restoreServer /\ archive' = archive /\ restoreBefore' = restoreBefore
      /\ restoreOps' = restoreOps
  BY DEF RestoreRetain, restoreFiles
<1>2. cli[c].pc \in AtWork /\ cli[c].pc # "write"
  BY <1>1 DEF AtWork
<1>3. PICK t, o : t = cli[c].target /\ o = cli[c].op
  OBVIOUS
<1>4. /\ RestoreTyped /\ cli \in [Cli -> CliStates] /\ at \in [RestoreTargets -> RestoreContents]
      /\ previous \in [RestoreOps -> [RestoreTargets -> RestoreContents]]
  BY DEF RestoreIInv, RestoreTyped
<1>5. /\ cli[c].pc \in Locking /\ lock = c
      /\ restoreJournal.kind = "written" /\ restoreJournal.op = o
      /\ restoreJournal.existed = cli[c].existed
      /\ o \in RestoreOps /\ o <= restoreOps
      /\ \A u \in RestoreTargets :
               /\ Recoverable(o, u)
               /\ cli[c].existed[u] <=> restoreBefore[u] # RestoreNothing
  BY <1>2, <1>3, AtWorkHas
<1>6. t \in RestoreTargets /\ \A u \in RestoreTargets : IF u < t THEN at[u] = RestoreNothing ELSE Untouched(o, u)
  BY <1>1, <1>3 DEF RestoreIInv, Doing, Progress
<1>7. CASE BeginRollback(c) /\ UNCHANGED restoreFiles
  BY <1>1, <1>2, <1>7, BeginsRollback
<1>8. ASSUME IF t = RestoreModes THEN RestoreGoto(c, "install_database")
             ELSE cli' = [cli EXCEPT ![c].target = t + 1],
             \/ at' = at /\ previous' = previous /\ ~cli[c].existed[t]
             \/ /\ previous' = [previous EXCEPT ![o][t] = at[t]]
                /\ at' = [at EXCEPT ![t] = RestoreNothing]
                /\ cli[c].existed[t]
      PROVE  RestoreIInv'
  <2>1. /\ cli' \in [Cli -> CliStates]
        /\ \A d \in Cli : d # c => cli'[d] = cli[d]
        /\ cli'[c].op = o /\ cli'[c].existed = cli[c].existed
        /\ IF t = RestoreModes THEN cli'[c].pc = "install_database"
           ELSE cli'[c].pc = "retain" /\ cli'[c].target = t + 1
    <3>1. CASE t = RestoreModes
      <4>1. "install_database" \in Pcs
        BY DEF Pcs, Locking, AtWork
      <4> QED
        BY <1>3, <1>4, <1>8, <3>1, <4>1, RestoreGoes
    <3>2. CASE t # RestoreModes
      <4>1. t + 1 \in 0..4 /\ "retain" \in Pcs /\ cli[c] \in CliStates
        BY <1>4, <1>6, <3>2 DEF RestoreTargets, Pcs, Locking, AtWork, RestoreModes
      <4>2. [cli[c] EXCEPT !.target = t + 1] \in CliStates
        BY <4>1, CliSetTarget
      <4> QED
        <5>1. cli' = [cli EXCEPT ![c].target = t + 1]
          BY <1>8, <3>2
        <5>2. cli' \in [Cli -> CliStates] /\ \A d \in Cli : d # c => cli'[d] = cli[d]
          BY <1>4, <4>2, <5>1
        <5>3. cli'[c] = [cli[c] EXCEPT !.target = t + 1]
          BY <1>4, <5>1
        <5>4. /\ cli'[c].op = o /\ cli'[c].existed = cli[c].existed
              /\ cli'[c].pc = "retain" /\ cli'[c].target = t + 1
          BY <1>1, <1>3, <4>1, <5>3 DEF CliStates
        <5> QED
          BY <3>2, <5>2, <5>4
    <3> QED
      BY <3>1, <3>2
  <2>2. /\ at' \in [RestoreTargets -> RestoreContents]
        /\ previous' \in [RestoreOps -> [RestoreTargets -> RestoreContents]]
        /\ at'[t] = RestoreNothing
        /\ previous'[o][t] = restoreBefore[t]
        /\ \A q \in RestoreOps : q # o => previous'[q] = previous[q]
        /\ \A u \in RestoreTargets : u # t => at'[u] = at[u] /\ previous'[o][u] = previous[o][u]
    <3>1. Untouched(o, t)
      BY <1>6 DEF RestoreTargets
    <3>2. CASE at' = at /\ previous' = previous /\ ~cli[c].existed[t]
      BY <1>4, <1>5, <1>6, <3>1, <3>2 DEF Untouched
    <3>3. CASE /\ previous' = [previous EXCEPT ![o][t] = at[t]]
               /\ at' = [at EXCEPT ![t] = RestoreNothing]
      BY <1>4, <1>5, <1>6, <3>1, <3>3, RestoreContentsAre DEF Untouched
    <3> QED
      BY <1>8, <3>2, <3>3
  <2>3. RestoreTyped'
    BY <1>1, <1>4, <2>1, <2>2 DEF RestoreTyped
  <2>4. \A u \in RestoreTargets : Recoverable(o, u)'
    <3> SUFFICES ASSUME NEW u \in RestoreTargets PROVE Recoverable(o, u)'
      OBVIOUS
    <3>1. CASE u = t
      BY <1>1, <2>2, <3>1 DEF Recoverable, Replaced
    <3>2. CASE u # t
      BY <1>1, <1>5, <2>2, <3>2 DEF Recoverable, Replaced, Untouched
    <3> QED
      BY <3>1, <3>2
  <2>5. Journalled'
    BY <1>1, <1>2, <1>3, <2>2, <2>4, WrittenStep
  <2>6. Progress(c)'
    <3>1. \A u \in RestoreTargets : IF u <= t THEN at'[u] = RestoreNothing ELSE Untouched(o, u)'
      <4> SUFFICES ASSUME NEW u \in RestoreTargets
                   PROVE  IF u <= t THEN at'[u] = RestoreNothing ELSE Untouched(o, u)'
        OBVIOUS
      <4>1. u = t \/ u < t \/ (u > t /\ ~(u < t))
        BY <1>6 DEF RestoreTargets
      <4>2. u <= t <=> u = t \/ u < t
        BY <1>6 DEF RestoreTargets
      <4> QED
        BY <1>1, <1>6, <2>2, <4>1, <4>2 DEF Untouched
    <3>2. CASE t = RestoreModes
      <4>1. \A u \in RestoreTargets : u <= t
        BY <3>2 DEF RestoreTargets, RestoreModes
      <4> QED
        BY <2>1, <3>1, <3>2, <4>1 DEF Progress
    <3>3. CASE t # RestoreModes
      <4>1. t + 1 \in RestoreTargets /\ \A u \in RestoreTargets : u < t + 1 <=> u <= t
        BY <1>6, <3>3 DEF RestoreTargets, RestoreModes
      <4> QED
        BY <2>1, <3>1, <3>3, <4>1 DEF Progress
    <3> QED
      BY <3>2, <3>3
  <2>7. Doing(c)'
    BY <1>1, <1>5, <2>1, <2>6 DEF Doing, Early, AtWork, Locking
  <2> QED
    BY <1>1, <1>3, <1>5, <2>1, <2>2, <2>3, <2>5, <2>7, HolderStep DEF Early
<1>9. \/ BeginRollback(c) /\ UNCHANGED restoreFiles
      \/ /\ IF t = RestoreModes THEN RestoreGoto(c, "install_database")
            ELSE cli' = [cli EXCEPT ![c].target = t + 1]
         /\ \/ at' = at /\ previous' = previous /\ ~cli[c].existed[t]
            \/ /\ previous' = [previous EXCEPT ![o][t] = at[t]]
               /\ at' = [at EXCEPT ![t] = RestoreNothing]
               /\ cli[c].existed[t]
  BY <1>3 DEF RestoreRetain, restoreFiles
<1> QED
  BY <1>7, <1>8, <1>9

(* The staged database takes its place. *)
LEMMA InstallDatabaseKeeps ==
  ASSUME RestoreIInv, NEW c \in Cli, InstallDatabase(c) PROVE RestoreIInv'
<1>1. /\ cli[c].pc = "install_database" /\ previous' = previous /\ aside' = aside
      /\ restoreJournal' = restoreJournal /\ lock' = lock
      /\ restoreServer' = restoreServer /\ archive' = archive /\ restoreBefore' = restoreBefore
      /\ restoreOps' = restoreOps
  BY DEF InstallDatabase
<1>2. cli[c].pc \in AtWork /\ cli[c].pc # "write"
  BY <1>1 DEF AtWork
<1>3. PICK o : o = cli[c].op
  OBVIOUS
<1>4. /\ RestoreTyped /\ cli \in [Cli -> CliStates] /\ at \in [RestoreTargets -> RestoreContents]
  BY DEF RestoreIInv, RestoreTyped
<1>5. /\ cli[c].pc \in Locking /\ lock = c
      /\ restoreJournal.kind = "written" /\ restoreJournal.op = o
      /\ restoreJournal.existed = cli[c].existed
      /\ o \in RestoreOps /\ o <= restoreOps
      /\ \A u \in RestoreTargets :
               /\ Recoverable(o, u)
               /\ cli[c].existed[u] <=> restoreBefore[u] # RestoreNothing
  BY <1>2, <1>3, AtWorkHas
<1>6. \A u \in RestoreTargets : at[u] = RestoreNothing
  BY <1>1 DEF RestoreIInv, Doing, Progress
<1>7. CASE BeginRollback(c) /\ at' = at
  BY <1>1, <1>2, <1>7, BeginsRollback DEF restoreFiles
<1>8. CASE at' = [at EXCEPT ![Database] = o] /\ RestoreGoto(c, "install_modes")
  <2>1. /\ cli' \in [Cli -> CliStates]
        /\ \A d \in Cli : d # c => cli'[d] = cli[d]
        /\ cli'[c].op = o /\ cli'[c].existed = cli[c].existed
        /\ cli'[c].pc = "install_modes"
    <3>1. "install_modes" \in Pcs
      BY DEF Pcs, Locking, AtWork
    <3> QED
      BY <1>3, <1>4, <1>8, <3>1, RestoreGoes
  <2>2. /\ at' \in [RestoreTargets -> RestoreContents]
        /\ \A u \in RestoreTargets : at'[u] = IF u = Database THEN o ELSE RestoreNothing
    BY <1>4, <1>5, <1>6, <1>8, RestoreContentsAre
  <2>3. RestoreTyped'
    BY <1>1, <1>4, <2>1, <2>2 DEF RestoreTyped
  <2>4. \A u \in RestoreTargets : Recoverable(o, u)'
    <3> SUFFICES ASSUME NEW u \in RestoreTargets PROVE Recoverable(o, u)'
      OBVIOUS
    <3>1. previous[o][u] = restoreBefore[u]
      BY <1>5, <1>6 DEF Recoverable, Untouched
    <3> QED
      BY <1>1, <2>2, <3>1 DEF Recoverable, Replaced
  <2>5. Journalled'
    BY <1>1, <1>2, <1>3, <2>4, WrittenStep
  <2>6. Progress(c)'
    BY <2>1, <2>2 DEF Progress
  <2>7. Doing(c)'
    BY <1>1, <1>5, <2>1, <2>6 DEF Doing, Early, AtWork, Locking
  <2> QED
    BY <1>1, <1>3, <1>5, <2>1, <2>2, <2>3, <2>5, <2>7, HolderStep DEF Early
<1> QED
  BY <1>3, <1>7, <1>8 DEF InstallDatabase

(* The staged modes take their place. *)
LEMMA InstallModesKeeps ==
  ASSUME RestoreIInv, NEW c \in Cli, InstallModes(c) PROVE RestoreIInv'
<1>1. /\ cli[c].pc = "install_modes" /\ previous' = previous /\ aside' = aside
      /\ restoreJournal' = restoreJournal /\ lock' = lock
      /\ restoreServer' = restoreServer /\ archive' = archive /\ restoreBefore' = restoreBefore
      /\ restoreOps' = restoreOps
  BY DEF InstallModes
<1>2. cli[c].pc \in AtWork /\ cli[c].pc # "write"
  BY <1>1 DEF AtWork
<1>3. PICK o : o = cli[c].op
  OBVIOUS
<1>4. /\ RestoreTyped /\ cli \in [Cli -> CliStates] /\ at \in [RestoreTargets -> RestoreContents]
  BY DEF RestoreIInv, RestoreTyped
<1>5. /\ cli[c].pc \in Locking /\ lock = c
      /\ restoreJournal.kind = "written" /\ restoreJournal.op = o
      /\ restoreJournal.existed = cli[c].existed
      /\ o \in RestoreOps /\ o <= restoreOps
      /\ \A u \in RestoreTargets :
               /\ Recoverable(o, u)
               /\ cli[c].existed[u] <=> restoreBefore[u] # RestoreNothing
  BY <1>2, <1>3, AtWorkHas
<1>6. \A u \in RestoreTargets : at[u] = IF u = Database THEN o ELSE RestoreNothing
  BY <1>1, <1>3 DEF RestoreIInv, Doing, Progress
<1>7. CASE BeginRollback(c) /\ at' = at
  BY <1>1, <1>2, <1>7, BeginsRollback DEF restoreFiles
<1>8. CASE at' = [at EXCEPT ![RestoreModes] = o] /\ RestoreGoto(c, "unjournal")
  <2>1. /\ cli' \in [Cli -> CliStates]
        /\ \A d \in Cli : d # c => cli'[d] = cli[d]
        /\ cli'[c].op = o /\ cli'[c].existed = cli[c].existed
        /\ cli'[c].pc = "unjournal"
    <3>1. "unjournal" \in Pcs
      BY DEF Pcs, Locking, AtWork
    <3> QED
      BY <1>3, <1>4, <1>8, <3>1, RestoreGoes
  <2>2. /\ at' \in [RestoreTargets -> RestoreContents]
        /\ \A u \in RestoreTargets : at'[u] = IF u \in {Database, RestoreModes} THEN o ELSE RestoreNothing
        /\ at' = Pair(o)
    BY <1>4, <1>5, <1>6, <1>8, RestoreContentsAre DEF Pair
  <2>3. RestoreTyped'
    BY <1>1, <1>4, <2>1, <2>2 DEF RestoreTyped
  <2>4. \A u \in RestoreTargets : Recoverable(o, u)'
    <3> SUFFICES ASSUME NEW u \in RestoreTargets PROVE Recoverable(o, u)'
      OBVIOUS
    <3>1. CASE Untouched(o, u) /\ ~(previous[o][u] = restoreBefore[u])
      BY <1>1, <1>5, <1>6, <2>2, <3>1, RestoreContentsAre DEF Recoverable, Untouched, Replaced
    <3>2. CASE previous[o][u] = restoreBefore[u]
      BY <1>1, <2>2, <3>2 DEF Recoverable, Replaced
    <3> QED
      BY <1>5, <3>1, <3>2 DEF Recoverable
  <2>5. Journalled'
    BY <1>1, <1>2, <1>3, <2>4, WrittenStep
  <2>6. Progress(c)'
    BY <2>1, <2>2 DEF Progress
  <2>7. Doing(c)'
    BY <1>1, <1>5, <2>1, <2>6 DEF Doing, Early, AtWork, Locking
  <2> QED
    BY <1>1, <1>3, <1>5, <2>1, <2>2, <2>3, <2>5, <2>7, HolderStep DEF Early
<1> QED
  BY <1>3, <1>7, <1>8 DEF InstallModes

(* The journal goes only over paths that are whole. *)
LEMMA JournalGoes ==
  ASSUME RestoreIInv, NEW c \in Cli, cli[c].pc \in AtWork, cli[c].pc # "write",
         restoreJournal' = NoJournal, Return(c), Whole(at),
         UNCHANGED <<restoreFiles, restoreServer, archive, restoreBefore, restoreOps>>
  PROVE  RestoreIInv'
<1>1. /\ at' = at /\ previous' = previous /\ aside' = aside
      /\ restoreServer' = restoreServer /\ archive' = archive /\ restoreBefore' = restoreBefore
      /\ restoreOps' = restoreOps
  BY DEF restoreFiles
<1>2. cli[c].pc \in Locking /\ lock = c
  BY AtWorkHas
<1>3. cli' = [cli EXCEPT ![c] = Ended] /\ lock' = RestoreNothing
  BY <1>2 DEF Return
<1>4. RestoreTyped /\ cli \in [Cli -> CliStates]
  BY DEF RestoreIInv, RestoreTyped
<1>5. /\ cli' \in [Cli -> CliStates] /\ cli'[c].pc = "ended"
      /\ \A d \in Cli : d # c => cli'[d] = cli[d]
  BY <1>3, <1>4, EndedIs
<1>6. NoJournal \in [kind : {"none", "torn", "written"}, op : 0..RestoreMaxOps,
                     existed : [RestoreTargets -> BOOLEAN]] /\ NoJournal.kind = "none"
  BY RestoreAssumption DEF NoJournal
<1>7. RestoreTyped'
  BY <1>1, <1>3, <1>4, <1>5, <1>6 DEF RestoreTyped
<1>8. Journalled'
  BY <1>1, <1>6 DEF RestoreIInv, Journalled, Whole
<1>9. Doing(c)'
  BY <1>3, <1>5, RestoreAssumption DEF Doing, Progress, Early, AtWork, Locking
<1> QED
  BY <1>1, <1>2, <1>3, <1>5, <1>6, <1>7, <1>8, <1>9, HolderStep DEF Early

(* The journal of a restore goes once the pair is installed. *)
LEMMA RemoveJournalKeeps ==
  ASSUME RestoreIInv, NEW c \in Cli, RemoveJournal(c) PROVE RestoreIInv'
<1>1. /\ cli[c].pc = "unjournal" /\ at' = at /\ previous' = previous /\ aside' = aside
      /\ restoreServer' = restoreServer /\ archive' = archive /\ restoreBefore' = restoreBefore
      /\ restoreOps' = restoreOps
  BY DEF RemoveJournal, restoreFiles
<1>2. cli[c].pc \in AtWork /\ cli[c].pc # "write"
  BY <1>1 DEF AtWork
<1>3. CASE BeginRollback(c) /\ restoreJournal' = restoreJournal /\ lock' = lock
  BY <1>1, <1>2, <1>3, BeginsRollback DEF restoreFiles
<1>4. CASE restoreJournal' = NoJournal /\ Return(c)
  <2>1. at = Pair(cli[c].op) /\ cli[c].op \in RestoreOps
    BY <1>1, <1>2, AtWorkHas DEF RestoreIInv, Doing, Progress
  <2>2. Whole(at)
    <3>1. /\ at[Database] = cli[c].op /\ at[RestoreModes] = cli[c].op
          /\ at[Wal] = RestoreNothing /\ at[Shm] = RestoreNothing
      BY <2>1, RestoreContentsAre DEF Pair, Database, Wal, Shm, RestoreModes
    <3> QED
      BY <2>1, <3>1, RestoreContentsAre DEF Whole
  <2> QED
    BY <1>1, <1>2, <1>4, <2>2, JournalGoes DEF restoreFiles
<1> QED
  BY <1>3, <1>4 DEF RemoveJournal

(* The journal of a rollback goes once every target is back. *)
LEMMA RemoveRolledBackKeeps ==
  ASSUME RestoreIInv, NEW c \in Cli, RemoveRolledBack(c) PROVE RestoreIInv'
<1>1. /\ cli[c].pc = "remove" /\ at' = at /\ previous' = previous /\ aside' = aside
      /\ restoreServer' = restoreServer /\ archive' = archive /\ restoreBefore' = restoreBefore
      /\ restoreOps' = restoreOps /\ Return(c)
  BY DEF RemoveRolledBack, restoreFiles
<1>2. cli[c].pc \in AtWork /\ cli[c].pc # "write"
  BY <1>1 DEF AtWork
<1>3. CASE restoreJournal' = restoreJournal
  BY <1>1, <1>3, RestoreReturns DEF restoreFiles
<1>4. CASE restoreJournal' = NoJournal
  <2>1. \A t \in RestoreTargets : at[t] = restoreBefore[t]
    BY <1>1 DEF RestoreIInv, Doing, Progress, Untouched
  <2>2. Whole(restoreBefore)
    BY <1>2, AtWorkHas
  <2>3. Whole(at)
    BY <2>1, <2>2, RestoreContentsAre DEF Whole
  <2> QED
    BY <1>1, <1>2, <1>4, <2>3, JournalGoes DEF restoreFiles
<1> QED
  BY <1>3, <1>4 DEF RemoveRolledBack

-----------------------------------------------------------------------------

(* A rollback goes on with the target before, or to its end. *)
LEMMA NextTargetIs ==
  ASSUME RestoreTyped, NEW c \in Cli, cli[c].pc = "rollback", cli[c].target \in RestoreTargets, NextTarget(c)
  PROVE  /\ cli' \in [Cli -> CliStates]
         /\ \A d \in Cli : d # c => cli'[d] = cli[d]
         /\ cli'[c].op = cli[c].op /\ cli'[c].existed = cli[c].existed
         /\ IF cli[c].target = Database THEN cli'[c].pc = "remove"
            ELSE cli'[c].pc = "rollback" /\ cli'[c].target = cli[c].target - 1 /\ cli'[c].moved = FALSE
<1>1. cli \in [Cli -> CliStates] /\ cli[c] \in CliStates
  BY DEF RestoreTyped
<1>2. CASE cli[c].target = Database
  <2>1. RestoreGoto(c, "remove") /\ "remove" \in Pcs
    BY <1>2 DEF NextTarget, RestoreGoto, Pcs, Locking, AtWork
  <2> QED
    BY <1>2, <2>1, RestoreGoes
<1>3. CASE cli[c].target # Database
  <2>1. PICK k : k = cli[c].target - 1
    OBVIOUS
  <2>2. k \in 0..4
    BY <2>1 DEF RestoreTargets
  <2>3. PICK x : x = [cli[c] EXCEPT !.target = k, !.moved = FALSE]
    OBVIOUS
  <2>4. x \in CliStates
    BY <1>1, <2>2, <2>3, CliSetTarget DEF Pcs
  <2>5. cli' = [cli EXCEPT ![c] = x]
    BY <1>1, <1>3, <2>1, <2>3 DEF NextTarget
  <2>6. cli' \in [Cli -> CliStates] /\ cli'[c] = x /\ \A d \in Cli : d # c => cli'[d] = cli[d]
    BY <1>1, <2>4, <2>5
  <2>7. /\ x.op = cli[c].op /\ x.existed = cli[c].existed
        /\ x.pc = "rollback" /\ x.target = k /\ x.moved = FALSE
    BY <1>1, <2>3 DEF CliStates
  <2> QED
    BY <1>3, <2>1, <2>6, <2>7
<1> QED
  BY <1>2, <1>3

(* A target that is as it was is done with. *)
LEMMA TargetIsBack ==
  ASSUME RestoreIInv, NEW c \in Cli, cli[c].pc = "rollback", NextTarget(c),
         NEW t, NEW o, t = cli[c].target, o = cli[c].op,
         restoreJournal' = restoreJournal, lock' = lock, restoreServer' = restoreServer,
         archive' = archive, restoreBefore' = restoreBefore, restoreOps' = restoreOps,
         at' \in [RestoreTargets -> RestoreContents],
         previous' \in [RestoreOps -> [RestoreTargets -> RestoreContents]],
         aside' \in [RestoreOps -> [RestoreTargets -> RestoreContents]],
         \A q \in RestoreOps : q # o => previous'[q] = previous[q],
         \A u \in RestoreTargets : u # t => at'[u] = at[u] /\ previous'[o][u] = previous[o][u],
         at'[t] = restoreBefore[t], previous'[o][t] = RestoreNothing
  PROVE  RestoreIInv'
<1>1. cli[c].pc \in AtWork /\ cli[c].pc # "write"
  BY DEF AtWork
<1>2. /\ cli[c].pc \in Locking /\ lock = c
      /\ restoreJournal.kind = "written" /\ restoreJournal.op = o
      /\ restoreJournal.existed = cli[c].existed
      /\ o \in RestoreOps /\ o <= restoreOps
      /\ \A u \in RestoreTargets : Recoverable(o, u)
  BY <1>1, AtWorkHas
<1>3. t \in RestoreTargets /\ \A u \in RestoreTargets : u > t => Untouched(o, u)
  BY DEF RestoreIInv, Doing, Progress
<1>4. RestoreTyped
  BY DEF RestoreIInv
<1>5. /\ cli' \in [Cli -> CliStates]
      /\ \A d \in Cli : d # c => cli'[d] = cli[d]
      /\ cli'[c].op = o /\ cli'[c].existed = cli[c].existed
      /\ IF t = Database THEN cli'[c].pc = "remove"
         ELSE cli'[c].pc = "rollback" /\ cli'[c].target = t - 1 /\ cli'[c].moved = FALSE
  BY <1>3, <1>4, NextTargetIs
<1>6. RestoreTyped'
  BY <1>4, <1>5 DEF RestoreTyped
<1>7. \A u \in RestoreTargets : Recoverable(o, u)'
  <2> SUFFICES ASSUME NEW u \in RestoreTargets PROVE Recoverable(o, u)'
    OBVIOUS
  <2>1. CASE u = t
    BY <2>1 DEF Recoverable, Untouched
  <2>2. CASE u # t
    BY <1>2, <2>2 DEF Recoverable, Replaced, Untouched
  <2> QED
    BY <2>1, <2>2
<1>8. Journalled'
  BY <1>1, <1>7, WrittenStep
<1>9. Progress(c)'
  <2>1. \A u \in RestoreTargets : u >= t => Untouched(o, u)'
    <3> SUFFICES ASSUME NEW u \in RestoreTargets, u >= t PROVE Untouched(o, u)'
      OBVIOUS
    <3>1. u = t \/ (u > t /\ u # t)
      BY <1>3 DEF RestoreTargets
    <3> QED
      BY <1>3, <3>1 DEF Untouched
  <2>2. CASE t = Database
    <3>1. \A u \in RestoreTargets : u >= t
      BY <2>2 DEF RestoreTargets, Database
    <3> QED
      BY <1>5, <2>1, <2>2, <3>1 DEF Progress
  <2>3. CASE t # Database
    <3>1. t - 1 \in RestoreTargets /\ \A u \in RestoreTargets : u > t - 1 => u >= t
      BY <1>3, <2>3 DEF RestoreTargets, Database
    <3> QED
      BY <1>5, <2>1, <2>3, <3>1 DEF Progress
  <2> QED
    BY <2>2, <2>3
<1>10. Doing(c)'
  BY <1>2, <1>5, <1>9 DEF Doing, Early, AtWork, Locking
<1> QED
  BY <1>2, <1>5, <1>6, <1>8, <1>10, HolderStep DEF Early

(* One step of a rollback, whichever of the two places a target is in. *)
LEMMA RollbackKeeps ==
  ASSUME RestoreIInv, NEW c \in Cli, Rollback(c) PROVE RestoreIInv'
<1>1. /\ cli[c].pc = "rollback" /\ restoreJournal' = restoreJournal
      /\ restoreServer' = restoreServer /\ archive' = archive /\ restoreBefore' = restoreBefore
      /\ restoreOps' = restoreOps
  BY DEF Rollback
<1>2. cli[c].pc \in AtWork /\ cli[c].pc # "write"
  BY <1>1 DEF AtWork
<1>3. PICK t, o : t = cli[c].target /\ o = cli[c].op
  OBVIOUS
<1>4. /\ RestoreTyped /\ cli \in [Cli -> CliStates] /\ at \in [RestoreTargets -> RestoreContents]
      /\ previous \in [RestoreOps -> [RestoreTargets -> RestoreContents]]
      /\ aside \in [RestoreOps -> [RestoreTargets -> RestoreContents]]
  BY DEF RestoreIInv, RestoreTyped
<1>5. /\ cli[c].pc \in Locking /\ lock = c
      /\ restoreJournal.kind = "written" /\ restoreJournal.op = o
      /\ restoreJournal.existed = cli[c].existed
      /\ o \in RestoreOps /\ o <= restoreOps
      /\ \A u \in RestoreTargets :
               /\ Recoverable(o, u)
               /\ cli[c].existed[u] <=> restoreBefore[u] # RestoreNothing
  BY <1>2, <1>3, AtWorkHas
<1>6. /\ t \in RestoreTargets /\ \A u \in RestoreTargets : u > t => Untouched(o, u)
      /\ cli[c].moved => cli[c].existed[t] /\ at[t] = RestoreNothing
  BY <1>1, <1>3 DEF RestoreIInv, Doing, Progress
<1>7. CASE Return(c) /\ UNCHANGED restoreFiles
  BY <1>1, <1>7, RestoreReturns
<1>8. CASE /\ at[t] # RestoreNothing /\ ~cli[c].moved
           /\ previous[o][t] # RestoreNothing \/ ~cli[c].existed[t]
           /\ MoveAside(c, t, o)
  <2>1. /\ aside' = [aside EXCEPT ![o][t] = at[t]] /\ at' = [at EXCEPT ![t] = RestoreNothing]
        /\ previous' = previous /\ lock' = lock
        /\ IF cli[c].existed[t] THEN cli' = [cli EXCEPT ![c].moved = TRUE] ELSE NextTarget(c)
    BY <1>8 DEF MoveAside
  <2>2. /\ at' \in [RestoreTargets -> RestoreContents]
        /\ aside' \in [RestoreOps -> [RestoreTargets -> RestoreContents]]
        /\ at'[t] = RestoreNothing /\ \A u \in RestoreTargets : u # t => at'[u] = at[u]
    BY <1>4, <1>5, <1>6, <2>1, RestoreContentsAre
  <2>3. CASE cli[c].existed[t]
    <3>1. previous[o][t] = restoreBefore[t]
      BY <1>5, <1>6, <1>8, <2>3 DEF Recoverable, Untouched
    <3>2. cli' = [cli EXCEPT ![c].moved = TRUE] /\ cli[c] \in CliStates
      BY <1>4, <2>1, <2>3
    <3>3. [cli[c] EXCEPT !.moved = TRUE] \in CliStates
      <4>1. 0 \in 0..4 /\ "ended" \in Pcs
        BY DEF Pcs
      <4> QED
        BY <3>2, <4>1, CliSetTarget
    <3>4. /\ cli' \in [Cli -> CliStates] /\ \A d \in Cli : d # c => cli'[d] = cli[d]
          /\ cli'[c] = [cli[c] EXCEPT !.moved = TRUE]
      BY <1>4, <3>2, <3>3
    <3>5. /\ cli'[c].op = o /\ cli'[c].existed = cli[c].existed
          /\ cli'[c].pc = "rollback" /\ cli'[c].target = t
      BY <1>1, <1>3, <3>2, <3>4 DEF CliStates
    <3>6. RestoreTyped'
      BY <1>1, <1>4, <2>1, <2>2, <3>4 DEF RestoreTyped
    <3>7. \A u \in RestoreTargets : Recoverable(o, u)'
      <4> SUFFICES ASSUME NEW u \in RestoreTargets PROVE Recoverable(o, u)'
        OBVIOUS
      <4>1. CASE u = t
        BY <1>1, <2>1, <2>2, <3>1, <4>1 DEF Recoverable, Replaced
      <4>2. CASE u # t
        BY <1>1, <1>5, <2>1, <2>2, <4>2 DEF Recoverable, Replaced, Untouched
      <4> QED
        BY <4>1, <4>2
    <3>8. Journalled'
      BY <1>1, <1>2, <1>3, <2>1, <3>7, WrittenStep
    <3>9. Progress(c)'
      <4>1. \A u \in RestoreTargets : u > t => u # t
        BY <1>6 DEF RestoreTargets
      <4> QED
        BY <1>1, <1>6, <2>1, <2>2, <2>3, <3>5, <4>1 DEF Progress, Untouched
    <3>10. Doing(c)'
      BY <1>1, <1>5, <2>1, <3>5, <3>9 DEF Doing, Early, AtWork, Locking
    <3> QED
      BY <1>1, <1>3, <1>5, <2>1, <3>4, <3>5, <3>6, <3>8, <3>10, HolderStep DEF Early
  <2>4. CASE ~cli[c].existed[t]
    <3>1. restoreBefore[t] = RestoreNothing /\ previous[o][t] = RestoreNothing
      BY <1>5, <1>6, <2>4 DEF Recoverable, Untouched
    <3> QED
      BY <1>1, <1>3, <1>4, <2>1, <2>2, <2>4, <3>1, TargetIsBack
  <2> QED
    BY <2>3, <2>4
<1>9. CASE /\ cli[c].existed[t] /\ previous[o][t] # RestoreNothing
           /\ at' = [at EXCEPT ![t] = previous[o][t]]
           /\ previous' = [previous EXCEPT ![o][t] = RestoreNothing]
           /\ NextTarget(c) /\ aside' = aside /\ lock' = lock
  <2>1. previous[o][t] = restoreBefore[t]
    BY <1>5, <1>6, <1>9 DEF Recoverable, Untouched
  <2>2. /\ at' \in [RestoreTargets -> RestoreContents]
        /\ previous' \in [RestoreOps -> [RestoreTargets -> RestoreContents]]
        /\ at'[t] = restoreBefore[t] /\ previous'[o][t] = RestoreNothing
        /\ \A q \in RestoreOps : q # o => previous'[q] = previous[q]
        /\ \A u \in RestoreTargets : u # t => at'[u] = at[u] /\ previous'[o][u] = previous[o][u]
    BY <1>4, <1>5, <1>6, <1>9, <2>1, RestoreContentsAre
  <2> QED
    BY <1>1, <1>3, <1>4, <1>9, <2>2, TargetIsBack
<1>10. CASE /\ UNCHANGED restoreFiles /\ NextTarget(c) /\ lock' = lock
            /\ \/ cli[c].existed[t] /\ previous[o][t] = RestoreNothing /\ at[t] # RestoreNothing
               \/ ~cli[c].existed[t] /\ at[t] = RestoreNothing
  <2>1. at' = at /\ previous' = previous /\ aside' = aside
    BY <1>10 DEF restoreFiles
  <2>2. at[t] = restoreBefore[t] /\ previous[o][t] = RestoreNothing
    BY <1>5, <1>6, <1>10 DEF Recoverable, Untouched
  <2> QED
    BY <1>1, <1>3, <1>4, <1>10, <2>1, <2>2, TargetIsBack
<1>11. \/ Return(c) /\ UNCHANGED restoreFiles
       \/ /\ at[t] # RestoreNothing /\ ~cli[c].moved
          /\ previous[o][t] # RestoreNothing \/ ~cli[c].existed[t]
          /\ MoveAside(c, t, o)
       \/ /\ cli[c].existed[t] /\ previous[o][t] # RestoreNothing
          /\ at' = [at EXCEPT ![t] = previous[o][t]]
          /\ previous' = [previous EXCEPT ![o][t] = RestoreNothing]
          /\ NextTarget(c) /\ aside' = aside /\ lock' = lock
       \/ /\ UNCHANGED restoreFiles /\ NextTarget(c) /\ lock' = lock
          /\ \/ cli[c].existed[t] /\ previous[o][t] = RestoreNothing /\ at[t] # RestoreNothing
             \/ ~cli[c].existed[t] /\ at[t] = RestoreNothing
  BY <1>3, Zenon DEF Rollback, RestoreGiveUp, PutBack
<1> QED
  BY <1>7, <1>8, <1>9, <1>10, <1>11

(* A recovery takes over the operation of the journal. *)
LEMMA ReadJournalKeeps ==
  ASSUME RestoreIInv, NEW c \in Cli, ReadJournal(c) PROVE RestoreIInv'
<1>1. /\ cli[c].pc = "read" /\ restoreJournal' = restoreJournal
      /\ at' = at /\ previous' = previous /\ aside' = aside
      /\ restoreServer' = restoreServer /\ archive' = archive /\ restoreBefore' = restoreBefore
      /\ restoreOps' = restoreOps
  BY DEF ReadJournal, restoreFiles, restoreBounds
<1>2. CASE Return(c)
  BY <1>1, <1>2, RestoreReturns DEF restoreFiles
<1>3. ASSUME NEW x, x = [pc |-> "rollback", op |-> restoreJournal.op, existed |-> restoreJournal.existed,
                         target |-> RestoreModes, moved |-> FALSE, staged |-> "nothing"],
             restoreJournal.kind = "written", cli' = [cli EXCEPT ![c] = x], lock' = lock
      PROVE  RestoreIInv'
  <2>1. /\ RestoreTyped /\ cli \in [Cli -> CliStates]
        /\ restoreJournal \in [kind : {"none", "torn", "written"}, op : 0..RestoreMaxOps,
                               existed : [RestoreTargets -> BOOLEAN]]
    BY DEF RestoreIInv, RestoreTyped
  <2>2. x \in CliStates
    <3>1. RestoreModes \in 0..4 /\ "rollback" \in Pcs
      BY DEF RestoreModes, Pcs, Locking, AtWork
    <3> QED
      BY <1>3, <2>1, <3>1 DEF CliStates
  <2>3. /\ cli' \in [Cli -> CliStates] /\ cli'[c] = x
        /\ \A d \in Cli : d # c => cli'[d] = cli[d]
    BY <1>3, <2>1, <2>2
  <2>4. /\ x.pc = "rollback" /\ x.op = restoreJournal.op /\ x.existed = restoreJournal.existed
        /\ x.target = RestoreModes /\ x.moved = FALSE
    BY <1>3
  <2>5. RestoreTyped'
    BY <1>1, <1>3, <2>1, <2>3 DEF RestoreTyped
  <2>6. Journalled'
    BY <1>1 DEF RestoreIInv, Journalled, Whole, Untouched, Recoverable, Replaced
  <2>7. cli[c].pc \in Locking
    BY <1>1 DEF Locking
  <2>8. lock = c
    BY <2>7, HolderIsAlone
  <2>9. Progress(c)'
    <3>1. \A u \in RestoreTargets : ~(u > RestoreModes)
      BY DEF RestoreTargets, RestoreModes
    <3> QED
      BY <2>3, <2>4, <3>1, RestoreContentsAre DEF Progress
  <2>10. Doing(c)'
    BY <1>1, <1>3, <2>3, <2>4, <2>8, <2>9 DEF Doing, Early, AtWork, Locking
  <2> QED
    BY <1>1, <1>3, <2>3, <2>4, <2>5, <2>6, <2>7, <2>8, <2>10, HolderStep DEF Early
<1> QED
  BY <1>2, <1>3 DEF ReadJournal

-----------------------------------------------------------------------------

(* A server starts, opens and stops over paths that are whole. *)
LEMMA ServerKeeps ==
  ASSUME Confirmed = TRUE, RestoreIInv,
         RestoreStart \/ InitializeDirectories \/ RestoreOpen \/ RestoreStop
  PROVE  RestoreIInv'
<1>1. /\ previous' = previous /\ aside' = aside /\ restoreJournal' = restoreJournal
      /\ cli' = cli /\ archive' = archive /\ restoreBefore' = restoreBefore /\ restoreOps' = restoreOps
  BY DEF RestoreStart, InitializeDirectories, RestoreOpen, RestoreStop, restoreFiles, restoreBounds
<1>2. /\ RestoreTyped /\ at \in [RestoreTargets -> RestoreContents]
      /\ lock \in Cli \cup {Server, RestoreNothing}
      /\ restoreServer \in {"down", "checked", "directories", "serving"}
  BY DEF RestoreIInv, RestoreTyped
<1>3. restoreJournal.kind = "none" /\ (\A c \in Cli : cli[c].pc = "ended") /\ Whole(at)
  <2>1. restoreJournal.kind = "none" /\ \A c \in Cli : cli[c].pc = "ended"
    BY DEF RestoreStart, InitializeDirectories, RestoreOpen, RestoreStop, RestoreIInv, ServerAlone
  <2> QED
    BY <2>1 DEF RestoreIInv, Journalled
<1>4. \A c \in Cli : lock # c
  BY <1>3 DEF RestoreIInv, Doing, Locking, AtWork
<1>5. ASSUME at' \in [RestoreTargets -> RestoreContents], Whole(at'),
             lock' = Server \/ lock' = RestoreNothing,
             restoreServer' \in {"down", "checked", "directories", "serving"},
             lock' = Server <=> restoreServer' = "serving",
             restoreServer' \in {"directories", "serving"} => at'[RestoreModes] # RestoreNothing
      PROVE  RestoreIInv'
  <2>1. RestoreTyped'
    BY <1>1, <1>2, <1>5 DEF RestoreTyped
  <2>2. ServerAlone'
    BY <1>1, <1>3, <1>5 DEF ServerAlone
  <2>3. Journalled'
    BY <1>1, <1>3, <1>5 DEF RestoreIInv, Journalled, Whole
  <2>4. OpsDiffer'
    BY <1>1 DEF RestoreIInv, OpsDiffer
  <2>5. \A c \in Cli : lock' # c
    BY <1>5, RestoreAssumption
  <2>6. \A c \in Cli : Doing(c)'
    BY <1>1, <1>3, <2>5 DEF Doing, Progress, Early, AtWork, Locking
  <2> QED
    BY <2>1, <2>2, <2>3, <2>4, <2>6 DEF RestoreIInv
<1>6. lock = Server <=> restoreServer = "serving"
  BY DEF RestoreIInv, ServerAlone
<1>7. CASE RestoreStart
  <2>1. at' = at /\ lock' = lock /\ restoreServer' = "checked" /\ restoreServer = "down"
    BY <1>7 DEF RestoreStart, restoreFiles
  <2> QED
    BY <1>2, <1>3, <1>4, <1>5, <1>6, <2>1
<1>8. CASE InitializeDirectories
  <2>1. /\ at' = [at EXCEPT ![RestoreModes] = IF @ = RestoreNothing THEN RestoreFresh ELSE @]
        /\ lock' = lock /\ restoreServer' = "directories" /\ restoreServer = "checked"
    BY <1>8 DEF InitializeDirectories
  <2>2. /\ at' \in [RestoreTargets -> RestoreContents] /\ at'[RestoreModes] # RestoreNothing
        /\ at'[Database] = at[Database] /\ at'[Wal] = at[Wal] /\ at'[Shm] = at[Shm]
        /\ at'[RestoreModes] = IF at[RestoreModes] = RestoreNothing THEN RestoreFresh ELSE at[RestoreModes]
    BY <1>2, <2>1, RestoreContentsAre DEF Database, Wal, Shm, RestoreModes
  <2>3. Whole(at')
    BY <1>3, <2>2, RestoreContentsAre DEF Whole
  <2> QED
    BY <1>2, <1>4, <1>5, <1>6, <2>1, <2>2, <2>3
<1>9. CASE RestoreOpen
  <2>1. lock = RestoreNothing /\ at[RestoreModes] # RestoreNothing
    BY <1>2, <1>4, <1>6, <1>9 DEF RestoreOpen, RestoreIInv, ServerAlone
  <2>2. /\ restoreServer' = "serving" /\ lock' = Server
        /\ at' = IF at[Database] = RestoreNothing
                 THEN [at EXCEPT ![Database] = RestoreFresh, ![Wal] = RestoreFresh, ![Shm] = RestoreFresh]
                 ELSE [at EXCEPT ![Wal] = IF @ = RestoreNothing THEN at[Database] ELSE @,
                                 ![Shm] = IF @ = RestoreNothing THEN at[Database] ELSE @]
    BY <1>9, <2>1 DEF RestoreOpen
  <2>3. Database # Wal /\ Database # Shm /\ Database # RestoreModes /\ Wal # Shm
        /\ Wal # RestoreModes /\ Shm # RestoreModes
    BY DEF Database, Wal, Shm, RestoreModes
  <2>4. CASE at[Database] = RestoreNothing
    <3>1. at' = [at EXCEPT ![Database] = RestoreFresh, ![Wal] = RestoreFresh, ![Shm] = RestoreFresh]
      BY <2>2, <2>4
    <3>2. at' \in [RestoreTargets -> RestoreContents]
      BY <1>2, <3>1, RestoreContentsAre
    <3>3. /\ at'[Database] = RestoreFresh /\ at'[Wal] = RestoreFresh /\ at'[Shm] = RestoreFresh
          /\ at'[RestoreModes] = at[RestoreModes]
      BY <1>2, <2>3, <3>1, RestoreContentsAre
    <3>4. at[RestoreModes] = RestoreFresh
      BY <1>3, <2>1, <2>4 DEF Whole
    <3>5. Whole(at')
      BY <3>3, <3>4, RestoreContentsAre DEF Whole
    <3> QED
      BY <1>5, <2>1, <2>2, <3>2, <3>3, <3>5
  <2>5. CASE at[Database] # RestoreNothing
    <3>1. at' = [at EXCEPT ![Wal] = IF @ = RestoreNothing THEN at[Database] ELSE @,
                           ![Shm] = IF @ = RestoreNothing THEN at[Database] ELSE @]
      BY <2>2, <2>5
    <3>2. at' \in [RestoreTargets -> RestoreContents]
      BY <1>2, <2>3, <3>1, RestoreContentsAre
    <3>3. /\ at'[Database] = at[Database] /\ at'[RestoreModes] = at[RestoreModes]
          /\ at'[Wal] = IF at[Wal] = RestoreNothing THEN at[Database] ELSE at[Wal]
          /\ at'[Shm] = IF at[Shm] = RestoreNothing THEN at[Database] ELSE at[Shm]
      BY <1>2, <2>3, <3>1, RestoreContentsAre
    <3>5. Whole(at')
      BY <1>3, <2>5, <3>3 DEF Whole
    <3> QED
      BY <1>5, <2>1, <2>2, <3>2, <3>3, <3>5
  <2> QED
    BY <2>4, <2>5
<1>10. CASE RestoreStop
  <2>1. /\ restoreServer' = "down" /\ lock' = IF lock = Server THEN RestoreNothing ELSE lock
        /\ at' = at \/ at' = [at EXCEPT ![Wal] = RestoreNothing, ![Shm] = RestoreNothing]
    BY <1>10 DEF RestoreStop
  <2>2. at' \in [RestoreTargets -> RestoreContents] /\ Whole(at')
    <3>1. CASE at' = at
      BY <1>2, <1>3, <3>1
    <3>2. CASE at' = [at EXCEPT ![Wal] = RestoreNothing, ![Shm] = RestoreNothing]
      <4>1. at' \in [RestoreTargets -> RestoreContents]
        BY <1>2, <3>2, RestoreContentsAre
      <4>2. /\ at'[Database] = at[Database] /\ at'[RestoreModes] = at[RestoreModes]
            /\ at'[Wal] = RestoreNothing /\ at'[Shm] = RestoreNothing
        BY <1>2, <3>2, RestoreContentsAre DEF Database, Wal, Shm, RestoreModes
      <4> QED
        BY <1>3, <4>1, <4>2 DEF Whole
    <3> QED
      BY <2>1, <3>1, <3>2
  <2>3. lock' = RestoreNothing
    BY <1>2, <1>4, <2>1
  <2> QED
    BY <1>5, <2>1, <2>2, <2>3, RestoreAssumption
<1> QED
  BY <1>7, <1>8, <1>9, <1>10

(* Every step of the commands and of the server keeps the invariant. *)
LEMMA RestoreInductive ==
  ASSUME Confirmed = TRUE, RestoreIInv, [RestoreNext]_restoreVars PROVE RestoreIInv'
<1>1. ASSUME NEW c \in Cli, RestoreStep(c) PROVE RestoreIInv'
  BY <1>1, RestoreAcquireKeeps, RestoreVerifyKeeps, ExtractKeeps, RestoreCreateJournalKeeps, WriteJournalKeeps,
     RestoreRetainKeeps, InstallDatabaseKeeps, InstallModesKeeps, RemoveJournalKeeps, RollbackKeeps,
     RemoveRolledBackKeeps, ReadJournalKeeps DEF RestoreStep
<1>2. ASSUME NEW c \in Cli, RestoreCrash(c) PROVE RestoreIInv'
  BY <1>2, RestoreReturns DEF RestoreCrash
<1>3. ASSUME UNCHANGED <<at, previous, aside, restoreJournal, lock, cli, restoreServer, restoreBefore, restoreOps>>,
             archive' \in {"paired", "foreign"}
      PROVE  RestoreIInv'
  <2>1. RestoreTyped'
    BY <1>3 DEF RestoreIInv, RestoreTyped
  <2>2. ServerAlone' /\ OpsDiffer'
    BY <1>3 DEF RestoreIInv, ServerAlone, OpsDiffer
  <2>3. Journalled'
    BY <1>3 DEF RestoreIInv, Journalled, Whole, Untouched, Recoverable, Replaced
  <2>4. \A d \in Cli : Doing(d)'
    BY <1>3, DoingKeeps DEF RestoreIInv
  <2> QED
    BY <2>1, <2>2, <2>3, <2>4 DEF RestoreIInv
<1>4. CASE ReplaceArchive
  BY <1>3, <1>4 DEF ReplaceArchive, restoreFiles
<1>5. CASE UNCHANGED restoreVars
  BY <1>3, <1>5 DEF restoreVars, RestoreIInv, RestoreTyped
<1> QED
  BY <1>1, <1>2, <1>4, <1>5, RestoreOpKeeps, RestoreRecoverKeeps, ServerKeeps DEF RestoreNext

(* For every number of commands, restores, failing calls and deaths: a server never     *)
(* serves a half-restored installation, and never beside a pending journal              *)
(* (commit_restore, rollback_restore, AppRuntime::start). The hypothesis is the         *)
(* operator's --server-stopped, which the command takes as given: the journal is looked *)
(* for before the lock is taken.                                                        *)
THEOREM ServedIsWhole == ASSUME Confirmed = TRUE PROVE RestoreSpec => []ServedWhole
<1>1. RestoreInit => RestoreIInv
  BY RestoreInitially
<1>2. RestoreIInv /\ [RestoreNext]_restoreVars => RestoreIInv'
  BY RestoreInductive
<1>3. RestoreIInv => ServedWhole
  BY WholeIsOneLineage DEF RestoreIInv, ServerAlone, Journalled, ServedWhole
<1> QED
  BY <1>1, <1>2, <1>3, PTL DEF RestoreSpec

(* The two steps that remove a written journal. *)
LEMMA JournalEnds ==
  ASSUME Confirmed = TRUE, RestoreIInv, RestoreNext,
         restoreJournal.kind = "written", restoreJournal'.kind = "none"
  PROVE  at' = restoreBefore \/ at' = Pair(restoreJournal.op)
<1>1. restoreJournal' # restoreJournal
  OBVIOUS
<1>2. PICK c \in Cli : RemoveJournal(c) \/ RemoveRolledBack(c)
  <2>1. ASSUME NEW c \in Cli, RestoreStep(c) PROVE RemoveJournal(c) \/ RemoveRolledBack(c)
    <3>1. ~RestoreCreateJournal(c)
      BY <1>1 DEF RestoreCreateJournal
    <3>2. ~WriteJournal(c)
      BY DEF WriteJournal, RestoreIInv, RestoreTyped
    <3> QED
      BY <1>1, <2>1, <3>1, <3>2 DEF RestoreStep, RestoreAcquire, RestoreVerify, Extract, RestoreRetain,
         InstallDatabase, InstallModes, Rollback, ReadJournal
  <2> QED
    BY <1>1, <2>1 DEF RestoreNext, RestoreOp, RestoreRecover, RestoreCrash, ReplaceArchive,
       RestoreStart, InitializeDirectories, RestoreOpen, RestoreStop
<1>3. at \in [RestoreTargets -> RestoreContents] /\ restoreBefore \in [RestoreTargets -> RestoreContents]
  BY DEF RestoreIInv, RestoreTyped
<1>4. CASE RemoveJournal(c)
  <2>1. cli[c].pc = "unjournal" /\ at' = at
    BY <1>4 DEF RemoveJournal, restoreFiles
  <2>2. cli[c].op = restoreJournal.op
    BY <2>1, AtWorkHas DEF AtWork
  <2> QED
    BY <2>1, <2>2 DEF RestoreIInv, Doing, Progress
<1>5. CASE RemoveRolledBack(c)
  <2>1. cli[c].pc = "remove" /\ at' = at
    BY <1>5 DEF RemoveRolledBack, restoreFiles
  <2>2. \A t \in RestoreTargets : at[t] = restoreBefore[t]
    BY <2>1 DEF RestoreIInv, Doing, Progress, Untouched
  <2> QED
    BY <1>3, <2>1, <2>2
<1> QED
  BY <1>2, <1>4, <1>5

(* A written journal goes only when the four paths are exactly as they were before the *)
(* restore, or exactly the archive's pair, however many commands failed or died in     *)
(* between (commit_restore, recover_interrupted_restore), under the same confirmation. *)
THEOREM RestoreIsAllOrNothing == ASSUME Confirmed = TRUE PROVE RestoreSpec => AllOrNothing
<1>1. RestoreInit => RestoreIInv
  BY RestoreInitially
<1>2. RestoreIInv /\ [RestoreNext]_restoreVars => RestoreIInv'
  BY RestoreInductive
<1>3. RestoreIInv /\ [RestoreNext]_restoreVars
        => [restoreJournal.kind = "written" /\ restoreJournal'.kind = "none"
              => \/ at' = restoreBefore
                 \/ at' = [t \in RestoreTargets |-> IF t \in {Database, RestoreModes} THEN restoreJournal.op
                                                                                     ELSE RestoreNothing]]_restoreVars
  BY JournalEnds DEF Pair, restoreVars
<1> QED
  BY <1>1, <1>2, <1>3, PTL DEF RestoreSpec, AllOrNothing

-----------------------------------------------------------------------------
(***************************************************************************)
(* The sound effects.                                                      *)
(***************************************************************************)
SfxFilePaths == (Folders \cup {Root}) \X ({"file"} \X Nat)
SfxAnyPaths == (Folders \cup {Root}) \X ({"file", "stage", "backup"} \X Nat)
SfxMutations == [op : SfxAllOps \cup {"none"}, dir : Folders \cup {Root}, to : Folders \cup {Root},
                 src : SfxFilePaths, dst : SfxFilePaths, n : Nat, flag : BOOLEAN,
                 policy : {"rename", "overwrite", "skip"}]

\* A tree of files: a function over paths.
IsTree(tree) == DOMAIN tree \subseteq SfxAnyPaths /\ tree = [p \in DOMAIN tree |-> tree[p]]

SfxNewest == Len(sfxJournal)
SfxShown == Visible(sfxFiles)

\* Nothing keeps what the mutation of entry nr set aside.
NoBackup(nr) == \A p \in DOMAIN sfxFiles : p[2] # <<"backup", nr>>

\* The components that are not files have their types.
SfxRequestsTyped ==
  /\ sfxUp \in {"down", "starting", "up"} /\ refused \in BOOLEAN
  /\ sfxJournal \in Seq([m : SfxMutations, state : {"planned", "applying", "committed", "failed"}])
  /\ sfxGate \in SfxClients \cup {NoOne}
  /\ req \in [SfxClients -> [pc : {"idle", "wait", "resolve", "plan", "begin", "run"}, m : SfxMutations, j : Nat]]
  /\ \A w \in workers : w \in [j : Nat, pc : 0..2, replay : BOOLEAN, res : {"none", "ok", "safe", "bad"}]
  /\ sfxOps \in Nat /\ cancels \in Nat

\* Every file is in a folder that is there, a staged file holds its own upload, and a backup
\* is of an entry.
SfxFilesTyped ==
  /\ IsTree(sfxFiles) /\ IsTree(want) /\ Visible(want) = want
  /\ \A p \in DOMAIN sfxFiles :
       /\ p[1] \in sfxDirs
       /\ p[2][1] = "stage" => sfxFiles[p] = p[2][2]
       /\ p[2][1] = "backup" => p[2][2] <= SfxNewest

\* Only the newest entry is unfinished, and a worker works on it alone.
SfxOneEntry ==
  /\ SfxUnfinished \subseteq {SfxNewest}
  /\ \A w \in workers : w.j = SfxNewest /\ SfxNewest > 0 /\ sfxJournal[w.j].state = "applying"
  /\ \A v, w \in workers : v = w

\* Who holds the gate, and what is under way behind it.
SfxPhased ==
  /\ sfxUp # "up" => sfxGate = NoOne /\ req = [c \in SfxClients |-> SfxIdle]
  /\ sfxUp = "down" => workers = {}
  /\ \A w \in workers : w.replay <=> sfxUp = "starting"
  /\ sfxUp = "up" /\ sfxGate = NoOne => workers = {} /\ (~refused => SfxUnfinished = {})
  /\ \A c \in SfxClients :
       /\ req[c].pc \notin {"idle", "wait"} <=> sfxGate = c
       /\ sfxGate = c => ~refused
       /\ req[c].pc \in {"resolve", "plan"} => workers = {} /\ SfxUnfinished = {}
       /\ req[c].pc \in {"begin", "run"} => req[c].j = SfxNewest /\ SfxNewest > 0 /\ sfxJournal[SfxNewest].m = req[c].m
       /\ req[c].pc = "begin" => workers = {} /\ NoBackup(SfxNewest) /\ sfxJournal[SfxNewest].state = "planned"
       /\ req[c].pc = "run" => workers # {}

\* The visible files are those before the mutation or those after all of it.
SfxWhole(m) == SfxShown = want \/ SfxShown = SfxApply(m, want)

\* Some of the files of the folder are gone and no other.
SfxPartly(m) ==
  /\ DOMAIN SfxShown \subseteq DOMAIN want
  /\ \A p \in DOMAIN want : p[1] # m.dir => p \in DOMAIN SfxShown
  /\ \A p \in DOMAIN SfxShown : SfxShown[p] = want[p]

\* What a mutation that stopped anywhere leaves in the folder for its replay.
SfxBetween(m, nr) ==
  CASE m.op = "rename_folder" -> SfxShown = want \/ (SfxShown = SfxApply(m, want) /\ m.dir \notin sfxDirs)
    [] m.op = "delete_folder" -> SfxPartly(m) /\ (SfxWhole(m) \/ (m.flag /\ m.dir \in sfxDirs))
    [] m.op = "publish_upload" /\ m.flag ->
         \/ SfxShown = want /\ NoBackup(nr)
         \/ /\ SfxShown = Without(want, {m.dst})
            /\ StagePath(m) \in DOMAIN sfxFiles /\ m.dst[1] \in sfxDirs
         \/ SfxShown = SfxApply(m, want)
    [] OTHER -> SfxWhole(m) /\ NoBackup(nr)

\* What a worker has found out and done.
SfxWorking(w, m) ==
  /\ w.res \in {"ok", "safe"} => SfxWhole(m)
  /\ w.res = "none" /\ w.pc # 0 =>
       \/ m.op = "delete_folder" /\ m.flag /\ m.dir \in sfxDirs /\ w.pc = 1
       \/ m.op = "move_file" /\ m.dst[1] \in sfxDirs /\ w.pc = 1
       \/ m.op = "publish_upload" /\ m.dst[1] \in sfxDirs /\ (w.pc = 2 => m.flag /\ SfxWhole(m))

\* And one whose client waits for it.
SfxServing(w, m) ==
  /\ w.res = "ok" => SfxShown = SfxApply(m, want)
  /\ w.res = "safe" => SfxShown = want
  /\ w.res = "none" /\ (w.pc = 0 \/ m.op = "move_file") => SfxShown = want /\ NoBackup(w.j)
  /\ w.res = "none" /\ m.op = "publish_upload" =>
       /\ w.pc = 1 => SfxShown = IF m.flag THEN Without(want, {m.dst}) ELSE SfxApply(m, want)
       /\ w.pc = 2 => SfxShown = SfxApply(m, want)

\* What is in the folder, at rest and on the way.
SfxKept ==
  /\ sfxUp = "up" /\ ~refused /\ workers = {} => SfxShown = want
  /\ SfxUnfinished = {} => SfxShown = want \/ \E m \in Plans : SfxShown = SfxApply(m, want)
  /\ SfxUnfinished # {} => SfxBetween(sfxJournal[SfxNewest].m, SfxNewest)
  /\ \A w \in workers :
       /\ SfxWorking(w, sfxJournal[w.j].m)
       /\ ~w.replay => SfxServing(w, sfxJournal[w.j].m)

SfxAcked == \A k \in acked : k \in DOMAIN sfxJournal /\ sfxJournal[k].state = "committed"

\* AckedUploadKept, of a server whose handlers all settled their entries.
AckedThere ==
  \A k \in acked :
    LET m == sfxJournal[k].m IN
    m.op = "publish_upload" /\ (\A nr \in DOMAIN sfxJournal : nr > k => ~Touches(sfxJournal[nr].m, m.dst))
      => SfxHas(sfxFiles, m.dst, m.n)

SfxIInv ==
  /\ SfxRequestsTyped /\ SfxFilesTyped /\ SfxOneEntry /\ SfxPhased /\ SfxKept
  /\ SfxAcked /\ AckedThere

SfxWorkers == [j : Nat, pc : 0..2, replay : BOOLEAN, res : {"none", "ok", "safe", "bad"}]

(* What is hidden may come and go. *)
LEMMA VisibleHidden ==
  ASSUME NEW t, NEW p, NEW x, p[2][1] # "file"
  PROVE  Visible(SfxPut(t, p, x)) = Visible(t) /\ Visible(Without(t, {p})) = Visible(t)
BY DEF Visible, SfxPut, Without

(* A visible file comes and goes where the visible files are. *)
LEMMA VisiblePut ==
  ASSUME NEW t, NEW p, NEW x, p[2][1] = "file"
  PROVE  Visible(SfxPut(t, p, x)) = SfxPut(Visible(t), p, x)
BY DEF Visible, SfxPut

(* A visible file is put or removed where the visible files are. *)
LEMMA VisibleFile ==
  ASSUME NEW t, NEW p, p[2][1] = "file"
  PROVE  /\ Visible(Without(t, {p})) = Without(Visible(t), {p})
         /\ p \in DOMAIN Visible(t) <=> p \in DOMAIN t
         /\ p \in DOMAIN t => Visible(t)[p] = t[p]
BY DEF Visible, SfxPut, Without

(* A folder is moved with the visible files in it. *)
LEMMA VisibleMoved ==
  ASSUME NEW t, DOMAIN t \subseteq SfxAnyPaths, NEW d, NEW e
  PROVE  Visible(SfxMoved(t, d, e)) = SfxMoved(Visible(t), d, e)
<1> DEFINE M(f) == {<<e, p[2]>> : p \in SfxInFolder(f, d)}
           v == Visible(t)
<1>1. \A p \in DOMAIN t : p = <<p[1], p[2]>>
  BY DEF SfxAnyPaths
<1>2. DOMAIN v = {p \in DOMAIN t : p[2][1] = "file"} /\ \A p \in DOMAIN v : v[p] = t[p]
  BY DEF Visible
<1>3. \A p : p \in M(v) <=> p \in M(t) /\ p[2][1] = "file"
  BY <1>1, <1>2 DEF SfxInFolder
<1>4. \A p \in M(v) : v[<<d, p[2]>>] = t[<<d, p[2]>>]
  BY <1>1, <1>2 DEF SfxInFolder
<1>5. DOMAIN SfxMoved(t, d, e) = (DOMAIN t \ SfxInFolder(t, d)) \cup M(t)
  BY DEF SfxMoved
<1>6. DOMAIN SfxMoved(v, d, e) = (DOMAIN v \ SfxInFolder(v, d)) \cup M(v)
  BY DEF SfxMoved
<1>7. {p \in DOMAIN SfxMoved(t, d, e) : p[2][1] = "file"} = DOMAIN SfxMoved(v, d, e)
  BY <1>2, <1>3, <1>5, <1>6 DEF SfxInFolder
<1>8. \A p \in DOMAIN SfxMoved(v, d, e) : SfxMoved(t, d, e)[p] = SfxMoved(v, d, e)[p]
  <2> TAKE p \in DOMAIN SfxMoved(v, d, e)
  <2>1. p \in M(v) <=> p \in M(t)
    BY <1>3, <1>7
  <2>2. SfxMoved(v, d, e)[p] = IF p \in M(v) THEN v[<<d, p[2]>>] ELSE v[p]
    BY <1>6 DEF SfxMoved
  <2>3. SfxMoved(t, d, e)[p] = IF p \in M(t) THEN t[<<d, p[2]>>] ELSE t[p]
    BY <1>5, <1>7 DEF SfxMoved
  <2>4. p \notin M(v) => v[p] = t[p]
    BY <1>2, <1>6
  <2> QED
    BY <1>4, <2>1, <2>2, <2>3, <2>4
<1>9. SfxMoved(v, d, e) = [p \in DOMAIN SfxMoved(v, d, e) |-> SfxMoved(v, d, e)[p]]
  BY DEF SfxMoved
<1>10. Visible(SfxMoved(t, d, e)) = [p \in DOMAIN SfxMoved(v, d, e) |-> SfxMoved(t, d, e)[p]]
  BY <1>7 DEF Visible
<1> QED
  BY <1>8, <1>9, <1>10

(* The operations on trees give trees, and what they leave. *)
LEMMA PutTree ==
  ASSUME NEW t, IsTree(t), NEW p \in SfxAnyPaths, NEW x
  PROVE  IsTree(SfxPut(t, p, x))
BY DEF SfxPut, IsTree

(* Where a tree has files after one is put. *)
LEMMA PutDomain ==
  ASSUME NEW t, NEW p, NEW x
  PROVE  DOMAIN SfxPut(t, p, x) = DOMAIN t \cup {p}
BY DEF SfxRenamed, SfxPut, Without

(* What is read after a file is put. *)
LEMMA PutAt ==
  ASSUME NEW t, NEW p, NEW x
  PROVE  \A q \in DOMAIN t \cup {p} : SfxPut(t, p, x)[q] = IF q = p THEN x ELSE t[q]
BY DEF SfxPut

(* A tree without some of its files is one. *)
LEMMA WithoutTree ==
  ASSUME NEW t, IsTree(t), NEW S
  PROVE  IsTree(Without(t, S))
BY DEF Without, IsTree

(* Where a tree has files after some are removed. *)
LEMMA WithoutDomain ==
  ASSUME NEW t, NEW S
  PROVE  DOMAIN Without(t, S) = DOMAIN t \ S
BY DEF SfxRenamed, SfxPut, Without

(* What is read after some are removed. *)
LEMMA WithoutAt ==
  ASSUME NEW t, NEW S
  PROVE  \A q \in DOMAIN t \ S : Without(t, S)[q] = t[q]
BY DEF Without

(* A rename gives a tree. *)
LEMMA RenamedTree ==
  ASSUME NEW t, IsTree(t), NEW p, NEW q \in SfxAnyPaths
  PROVE  IsTree(SfxRenamed(t, p, q))
BY DEF SfxRenamed, SfxPut, Without, IsTree

(* Where a tree has files after a rename. *)
LEMMA RenamedDomain ==
  ASSUME NEW t, NEW p, NEW q
  PROVE  DOMAIN SfxRenamed(t, p, q) = (DOMAIN t \ {p}) \cup {q}
BY DEF SfxRenamed, SfxPut, Without

(* What is read after a rename. *)
LEMMA RenamedAt ==
  ASSUME NEW t, NEW p, NEW q
  PROVE  \A r \in (DOMAIN t \ {p}) \cup {q} : SfxRenamed(t, p, q)[r] = IF r = q THEN t[p] ELSE t[r]
BY DEF SfxRenamed, SfxPut, Without

(* The visible files of a tree are one. *)
LEMMA VisibleTree ==
  ASSUME NEW t, IsTree(t)
  PROVE  /\ IsTree(Visible(t)) /\ Visible(Visible(t)) = Visible(t)
         /\ DOMAIN Visible(t) = {p \in DOMAIN t : p[2][1] = "file"}
         /\ \A p \in DOMAIN Visible(t) : Visible(t)[p] = t[p]
BY DEF Visible, IsTree

(* So are the files after a folder has moved. *)
LEMMA MovedTree ==
  ASSUME NEW t, IsTree(t), NEW d \in Folders \cup {Root}, NEW e \in Folders \cup {Root}, d # e,
         \A p \in DOMAIN t : p[1] # e
  PROVE  /\ IsTree(SfxMoved(t, d, e))
         /\ \A p \in DOMAIN SfxMoved(t, d, e) :
              \/ p \in DOMAIN t /\ p[1] \notin {d, e} /\ SfxMoved(t, d, e)[p] = t[p]
              \/ p[1] = e /\ <<d, p[2]>> \in DOMAIN t /\ SfxMoved(t, d, e)[p] = t[<<d, p[2]>>]
         /\ \A p \in DOMAIN t : p[1] \notin {d, e} =>
              p \in DOMAIN SfxMoved(t, d, e) /\ SfxMoved(t, d, e)[p] = t[p]
<1> DEFINE M == {<<e, p[2]>> : p \in SfxInFolder(t, d)}
<1>1. \A p \in DOMAIN t : p = <<p[1], p[2]>> /\ p \in SfxAnyPaths
  BY DEF SfxAnyPaths, IsTree
<1>2. DOMAIN SfxMoved(t, d, e) = (DOMAIN t \ SfxInFolder(t, d)) \cup M
  BY DEF SfxMoved
<1>3. \A p \in DOMAIN SfxMoved(t, d, e) : SfxMoved(t, d, e)[p] = IF p \in M THEN t[<<d, p[2]>>] ELSE t[p]
  BY DEF SfxMoved
<1>4. \A p \in M : p[1] = e /\ <<d, p[2]>> \in DOMAIN t /\ p \in SfxAnyPaths
  BY <1>1 DEF SfxInFolder, SfxAnyPaths
<1>5. IsTree(SfxMoved(t, d, e))
  <2>1. DOMAIN SfxMoved(t, d, e) \subseteq SfxAnyPaths
    BY <1>1, <1>2, <1>4
  <2>2. SfxMoved(t, d, e) = [p \in DOMAIN SfxMoved(t, d, e) |-> SfxMoved(t, d, e)[p]]
    BY DEF SfxMoved
  <2> QED
    BY <2>1, <2>2 DEF IsTree
<1> QED
  BY <1>2, <1>3, <1>4, <1>5 DEF SfxInFolder

(* A rename of a visible file to a visible name is seen. *)
LEMMA VisibleRenamed ==
  ASSUME NEW t, NEW p, NEW q, p[2][1] = "file", q[2][1] = "file", p \in DOMAIN t
  PROVE  Visible(SfxRenamed(t, p, q)) = SfxRenamed(Visible(t), p, q)
BY DEF Visible, SfxRenamed, SfxPut, Without

\* A worker at work, with what the invariant says of it.
SfxReady(w, m) ==
  /\ workers = {w} /\ w \in SfxWorkers /\ w.res = "none" /\ w.j = SfxNewest /\ m \in SfxMutations
  /\ SfxFilesTyped /\ SfxBetween(m, w.j) /\ SfxWorking(w, m) /\ (~w.replay => SfxServing(w, m))

\* A step of a worker that keeps the invariant and leaves alone the paths the mutation does
\* not name.
SfxStepDone(w, v, m) ==
  /\ workers' = {v} /\ v \in SfxWorkers /\ v.j = w.j /\ v.replay = w.replay
  /\ SfxFilesTyped' /\ SfxBetween(m, w.j)' /\ SfxWorking(v, m)' /\ (~v.replay => SfxServing(v, m)')
  /\ \A p \in SfxFilePaths : ~Touches(m, p) /\ p \in DOMAIN sfxFiles => p \in DOMAIN sfxFiles' /\ sfxFiles'[p] = sfxFiles[p]

(* The tree of a mutation that only makes folders or finds out something. *)
LEMMA FilesStay ==
  ASSUME SfxFilesTyped, UNCHANGED <<sfxFiles, want, sfxJournal>>, sfxDirs \subseteq sfxDirs'
  PROVE  SfxFilesTyped' /\ SfxShown' = SfxShown /\ (\A nr : NoBackup(nr) => NoBackup(nr)')
BY DEF SfxFilesTyped, SfxShown, NoBackup, SfxNewest

(* The worker after its step. *)
LEMMA WorkerNext ==
  ASSUME NEW w \in SfxWorkers, workers = {w}
  PROVE  /\ \A r \in {"ok", "safe", "bad"} : SfxEnd(w, r) =>
              workers' = {[w EXCEPT !.res = r]} /\ [w EXCEPT !.res = r] \in SfxWorkers
         /\ SfxGo(w, 1) => workers' = {[w EXCEPT !.pc = 1]} /\ [w EXCEPT !.pc = 1] \in SfxWorkers
         /\ SfxGo(w, 2) => workers' = {[w EXCEPT !.pc = 2]} /\ [w EXCEPT !.pc = 2] \in SfxWorkers
BY DEF SfxEnd, SfxGo, SfxWorkers

(* A step that only ends the worker. *)
LEMMA EndsOnly ==
  ASSUME NEW w, NEW m, SfxReady(w, m), UNCHANGED <<fs, want, sfxJournal>>,
         NEW r \in {"ok", "safe", "bad"}, SfxEnd(w, r),
         r \in {"ok", "safe"} => SfxWhole(m),
         ~w.replay /\ r = "ok" => SfxShown = SfxApply(m, want),
         ~w.replay /\ r = "safe" => SfxShown = want
  PROVE  SfxStepDone(w, [w EXCEPT !.res = r], m)
<1> DEFINE v == [w EXCEPT !.res = r]
<1>1. w \in SfxWorkers /\ workers = {w} /\ SfxFilesTyped
  BY DEF SfxReady
<1>2. workers' = {v} /\ v \in SfxWorkers
  BY <1>1, WorkerNext
<1>3. v.j = w.j /\ v.replay = w.replay /\ v.res = r /\ v.pc = w.pc
  BY <1>1 DEF SfxWorkers
<1>4. SfxFilesTyped' /\ SfxShown' = SfxShown /\ (\A nr : NoBackup(nr) => NoBackup(nr)')
  BY <1>1, FilesStay DEF fs
<1>5. SfxBetween(m, w.j)'
  BY <1>4 DEF SfxReady, SfxBetween, SfxWhole, SfxPartly, fs
<1>6. SfxWorking(v, m)' /\ (~v.replay => SfxServing(v, m)')
  BY <1>3, <1>4 DEF SfxWorking, SfxServing, SfxWhole
<1> QED
  BY <1>2, <1>3, <1>4, <1>5, <1>6 DEF SfxStepDone, fs

(* Each of the operations. *)
LEMMA CreateFolderDone ==
  ASSUME NEW w, NEW m, SfxReady(w, m), UNCHANGED <<want, sfxJournal>>,
         m.op = "create_folder", SfxCreateFolder(w, m)
  PROVE  \E v : SfxStepDone(w, v, m)
<1> DEFINE v == [w EXCEPT !.res = "ok"]
<1>1. w \in SfxWorkers /\ workers = {w} /\ SfxFilesTyped
  BY DEF SfxReady
<1>2. workers' = {v} /\ v \in SfxWorkers
  BY <1>1, WorkerNext DEF SfxCreateFolder
<1>3. v.j = w.j /\ v.replay = w.replay /\ v.res = "ok"
  BY <1>1 DEF SfxWorkers
<1>4. SfxFilesTyped' /\ SfxShown' = SfxShown /\ (\A nr : NoBackup(nr) => NoBackup(nr)')
  BY <1>1, FilesStay DEF SfxCreateFolder
<1>5. SfxApply(m, want) = want
  BY DEF SfxApply
<1>6. SfxShown = want /\ NoBackup(w.j)
  BY <1>5 DEF SfxReady, SfxBetween, SfxWhole
<1>7. SfxBetween(m, w.j)'
  BY <1>4, <1>6 DEF SfxBetween, SfxWhole
<1>8. SfxWorking(v, m)' /\ SfxServing(v, m)'
  BY <1>3, <1>4, <1>5, <1>6 DEF SfxWorking, SfxServing, SfxWhole
<1> QED
  BY <1>2, <1>3, <1>4, <1>7, <1>8 DEF SfxStepDone, SfxCreateFolder

(* A folder that moves to a free name keeps the types of its files. *)
LEMMA MovedTyped ==
  ASSUME SfxFilesTyped, NEW d \in Folders \cup {Root}, NEW e \in Folders \cup {Root}, d # e, e \notin sfxDirs,
         sfxDirs' = (sfxDirs \ {d}) \cup {e}, sfxFiles' = SfxMoved(sfxFiles, d, e), UNCHANGED <<want, sfxJournal>>
  PROVE  SfxFilesTyped'
<1>1. IsTree(sfxFiles) /\ \A p \in DOMAIN sfxFiles : p[1] # e
  BY DEF SfxFilesTyped
<1>2. /\ IsTree(sfxFiles')
      /\ \A p \in DOMAIN sfxFiles' :
            \/ p \in DOMAIN sfxFiles /\ p[1] \notin {d, e} /\ sfxFiles'[p] = sfxFiles[p]
            \/ p[1] = e /\ <<d, p[2]>> \in DOMAIN sfxFiles /\ sfxFiles'[p] = sfxFiles[<<d, p[2]>>]
  BY <1>1, MovedTree
<1>3. \A p \in DOMAIN sfxFiles' :
        /\ p[1] \in sfxDirs'
        /\ p[2][1] = "stage" => sfxFiles'[p] = p[2][2]
        /\ p[2][1] = "backup" => p[2][2] <= SfxNewest
  <2> TAKE p \in DOMAIN sfxFiles'
  <2>1. CASE p \in DOMAIN sfxFiles /\ p[1] \notin {d, e} /\ sfxFiles'[p] = sfxFiles[p]
    BY <2>1 DEF SfxFilesTyped
  <2>2. CASE p[1] = e /\ <<d, p[2]>> \in DOMAIN sfxFiles /\ sfxFiles'[p] = sfxFiles[<<d, p[2]>>]
    <3> DEFINE q == <<d, p[2]>>
    <3>1. q[2] = p[2]
      OBVIOUS
    <3> HIDE DEF q
    <3> QED
      BY <2>2, <3>1 DEF SfxFilesTyped, q
  <2> QED
    BY <1>2, <2>1, <2>2
<1> QED
  BY <1>2, <1>3 DEF SfxFilesTyped, SfxNewest

(* rename_folder: refused with nothing changed, or all of it in one call. *)
LEMMA RenameFolderDone ==
  ASSUME NEW w, NEW m, SfxReady(w, m), UNCHANGED <<want, sfxJournal>>,
         m.op = "rename_folder", SfxRenameFolder(w, m)
  PROVE  \E v : SfxStepDone(w, v, m)
<1>1. w \in SfxWorkers /\ workers = {w} /\ SfxFilesTyped /\ m \in SfxMutations /\ w.pc = 0 /\ w.res = "none"
  BY DEF SfxReady, SfxWorking
<1>2. SfxShown = want \/ (SfxShown = SfxApply(m, want) /\ m.dir \notin sfxDirs)
  BY DEF SfxReady, SfxBetween
<1>3. ~w.replay => SfxShown = want /\ NoBackup(w.j)
  BY <1>1 DEF SfxReady, SfxServing
<1>4. CASE \E r \in {"ok", "safe"} : SfxEnd(w, r) /\ UNCHANGED fs /\ (r = "ok" => w.replay)
  <2> PICK r \in {"ok", "safe"} : SfxEnd(w, r) /\ UNCHANGED fs /\ (r = "ok" => w.replay)
    BY <1>4
  <2> QED
    BY <1>2, <1>3, EndsOnly DEF SfxWhole
<1>5. CASE m.dir # m.to /\ m.dir \in sfxDirs /\ m.to \notin sfxDirs
  <2> DEFINE v == [w EXCEPT !.res = "ok"]
  <2>1. /\ sfxDirs' = (sfxDirs \ {m.dir}) \cup {m.to} /\ sfxFiles' = SfxMoved(sfxFiles, m.dir, m.to)
        /\ SfxEnd(w, "ok")
    BY <1>5 DEF SfxRenameFolder
  <2>2. workers' = {v} /\ v \in SfxWorkers /\ v.j = w.j /\ v.replay = w.replay /\ v.res = "ok"
    <3>1. workers' = {v} /\ v \in SfxWorkers
      BY <1>1, <2>1, WorkerNext
    <3> QED
      BY <1>1, <3>1 DEF SfxWorkers
  <2>3. IsTree(sfxFiles) /\ \A p \in DOMAIN sfxFiles : p[1] # m.to
    BY <1>1, <1>5 DEF SfxFilesTyped
  <2>4. m.dir \in Folders \cup {Root} /\ m.to \in Folders \cup {Root}
    BY <1>1 DEF SfxMutations
  <2>5. /\ IsTree(sfxFiles')
        /\ \A p \in DOMAIN sfxFiles' :
              \/ p \in DOMAIN sfxFiles /\ p[1] \notin {m.dir, m.to} /\ sfxFiles'[p] = sfxFiles[p]
              \/ p[1] = m.to /\ <<m.dir, p[2]>> \in DOMAIN sfxFiles /\ sfxFiles'[p] = sfxFiles[<<m.dir, p[2]>>]
        /\ \A p \in DOMAIN sfxFiles : p[1] \notin {m.dir, m.to} =>
              p \in DOMAIN sfxFiles' /\ sfxFiles'[p] = sfxFiles[p]
    BY <1>5, <2>1, <2>3, <2>4, MovedTree
  <2>6. SfxFilesTyped'
    BY <1>1, <1>5, <2>1, <2>4, MovedTyped
  <2>7. SfxShown' = SfxMoved(SfxShown, m.dir, m.to)
    BY <2>1, <2>3, VisibleMoved DEF SfxShown, IsTree
  <2>8. SfxShown = want /\ SfxApply(m, want) = SfxMoved(want, m.dir, m.to)
    BY <1>2, <1>5 DEF SfxApply
  <2>9. SfxBetween(m, w.j)'
    BY <1>5, <2>1, <2>7, <2>8 DEF SfxBetween
  <2>10. SfxWorking(v, m)' /\ SfxServing(v, m)'
    BY <2>2, <2>7, <2>8 DEF SfxWorking, SfxServing, SfxWhole
  <2>11. \A p \in SfxFilePaths : ~Touches(m, p) => p[1] \notin {m.dir, m.to}
    BY DEF Touches
  <2> QED
    BY <2>2, <2>5, <2>6, <2>9, <2>10, <2>11 DEF SfxStepDone
<1>6. CASE ~(m.dir # m.to /\ m.dir \in sfxDirs /\ m.to \notin sfxDirs)
  BY <1>4, <1>6 DEF SfxRenameFolder
<1> QED
  BY <1>5, <1>6

(* delete_file: the file goes, or was gone when the call was replayed. *)
LEMMA DeleteFileDone ==
  ASSUME NEW w, NEW m, SfxReady(w, m), UNCHANGED <<want, sfxJournal>>,
         m.op = "delete_file", SfxDeleteFile(w, m)
  PROVE  \E v : SfxStepDone(w, v, m)
<1>1. w \in SfxWorkers /\ workers = {w} /\ SfxFilesTyped /\ m \in SfxMutations /\ w.pc = 0 /\ w.res = "none"
  BY DEF SfxReady, SfxWorking
<1>2. SfxWhole(m) /\ NoBackup(w.j) /\ SfxApply(m, want) = Without(want, {m.src})
  BY DEF SfxReady, SfxBetween, SfxApply
<1>3. ~w.replay => SfxShown = want
  BY <1>1 DEF SfxReady, SfxServing
<1>4. m.src \in SfxAnyPaths /\ m.src[2][1] = "file"
  BY <1>1 DEF SfxMutations, SfxAnyPaths, SfxFilePaths
<1>5. CASE m.src \notin DOMAIN sfxFiles
  <2>1. PICK r \in {"ok", "safe"} : SfxEnd(w, r) /\ UNCHANGED fs /\ (r = "ok" => w.replay)
    BY <1>5 DEF SfxDeleteFile, Gone
  <2> QED
    BY <1>2, <1>3, <2>1, EndsOnly
<1>6. CASE m.src \in DOMAIN sfxFiles
  <2> DEFINE v == [w EXCEPT !.res = "ok"]
  <2>1. sfxFiles' = Without(sfxFiles, {m.src}) /\ SfxEnd(w, "ok") /\ sfxDirs' = sfxDirs
    BY <1>6 DEF SfxDeleteFile
  <2>2. workers' = {v} /\ v \in SfxWorkers /\ v.j = w.j /\ v.replay = w.replay /\ v.res = "ok"
    <3>1. workers' = {v} /\ v \in SfxWorkers
      BY <1>1, <2>1, WorkerNext
    <3> QED
      BY <1>1, <3>1 DEF SfxWorkers
  <2>3. IsTree(sfxFiles') /\ DOMAIN sfxFiles' = DOMAIN sfxFiles \ {m.src}
        /\ \A p \in DOMAIN sfxFiles' : sfxFiles'[p] = sfxFiles[p]
    <3>1. IsTree(sfxFiles)
      BY <1>1 DEF SfxFilesTyped
    <3>2. IsTree(sfxFiles')
      BY <2>1, <3>1, WithoutTree
    <3>3. DOMAIN sfxFiles' = DOMAIN sfxFiles \ {m.src}
      BY <2>1, WithoutDomain
    <3>4. \A p \in DOMAIN sfxFiles \ {m.src} : sfxFiles'[p] = sfxFiles[p]
      BY <2>1, WithoutAt
    <3> QED
      BY <3>2, <3>3, <3>4
  <2>4. SfxFilesTyped' /\ NoBackup(w.j)'
    BY <1>1, <1>2, <2>1, <2>3 DEF SfxFilesTyped, NoBackup, SfxNewest
  <2>5. SfxShown' = Without(SfxShown, {m.src})
    BY <1>4, <2>1, VisibleFile DEF SfxShown
  <2>6. Without(Without(want, {m.src}), {m.src}) = Without(want, {m.src})
    BY DEF Without
  <2>7. SfxShown' = SfxApply(m, want)
    BY <1>2, <2>5, <2>6 DEF SfxWhole
  <2>8. SfxBetween(m, w.j)' /\ SfxWorking(v, m)' /\ SfxServing(v, m)'
    BY <2>2, <2>4, <2>7 DEF SfxBetween, SfxWorking, SfxServing, SfxWhole
  <2> QED
    BY <2>2, <2>3, <2>4, <2>8 DEF SfxStepDone, Touches
<1> QED
  BY <1>5, <1>6

(* delete_folder: refused while there are files, or file by file and then the folder. *)
LEMMA DeleteFolderDone ==
  ASSUME NEW w, NEW m, SfxReady(w, m), UNCHANGED <<want, sfxJournal>>,
         m.op = "delete_folder", SfxDeleteFolder(w, m)
  PROVE  \E v : SfxStepDone(w, v, m)
<1>1. w \in SfxWorkers /\ workers = {w} /\ SfxFilesTyped /\ m \in SfxMutations /\ w.res = "none"
  BY DEF SfxReady
<1>2. /\ SfxPartly(m) /\ (SfxWhole(m) \/ (m.flag /\ m.dir \in sfxDirs))
      /\ SfxApply(m, want) = Without(want, SfxInFolder(want, m.dir))
  BY DEF SfxReady, SfxBetween, SfxApply
<1>3. /\ ~w.replay /\ w.pc = 0 => SfxShown = want
      /\ w.pc # 0 => m.flag /\ m.dir \in sfxDirs
  BY <1>1 DEF SfxReady, SfxServing, SfxWorking
<1>4. IsTree(sfxFiles) /\ IsTree(want)
  BY <1>1 DEF SfxFilesTyped
<1>5. /\ DOMAIN SfxShown = {p \in DOMAIN sfxFiles : p[2][1] = "file"}
      /\ SfxShown = [p \in DOMAIN SfxShown |-> SfxShown[p]]
  BY DEF SfxShown, Visible
<1>6. ASSUME SfxInFolder(sfxFiles, m.dir) = {} PROVE SfxShown = SfxApply(m, want)
  <2>1. \A p \in DOMAIN SfxShown : p[1] # m.dir
    BY <1>5, <1>6 DEF SfxInFolder
  <2>2. DOMAIN SfxShown = DOMAIN want \ SfxInFolder(want, m.dir)
    BY <1>2, <2>1 DEF SfxPartly, SfxInFolder
  <2> QED
    BY <1>2, <1>5, <2>2 DEF SfxPartly, Without
<1>7. CASE m.dir \notin sfxDirs
  <2>1. PICK r \in {"ok", "safe"} : SfxEnd(w, r) /\ UNCHANGED fs /\ (r = "ok" => w.replay)
    BY <1>7 DEF SfxDeleteFolder, Gone
  <2> QED
    BY <1>2, <1>3, <1>7, <2>1, EndsOnly
<1>8. CASE m.dir \in sfxDirs /\ SfxInFolder(sfxFiles, m.dir) = {}
  <2> DEFINE v == [w EXCEPT !.res = "ok"]
  <2>1. sfxDirs' = sfxDirs \ {m.dir} /\ SfxEnd(w, "ok") /\ sfxFiles' = sfxFiles
    BY <1>8 DEF SfxDeleteFolder
  <2>2. workers' = {v} /\ v \in SfxWorkers
    BY <1>1, <2>1, WorkerNext
  <2>3. v.j = w.j /\ v.replay = w.replay /\ v.res = "ok"
    BY <1>1 DEF SfxWorkers
  <2>4. SfxFilesTyped' /\ SfxShown' = SfxShown
    BY <1>1, <1>8, <2>1 DEF SfxFilesTyped, SfxShown, SfxInFolder, SfxNewest
  <2>5. SfxShown' = SfxApply(m, want)
    BY <1>6, <1>8, <2>4
  <2>6. SfxPartly(m)'
    BY <1>2, <2>4 DEF SfxPartly
  <2>7. SfxBetween(m, w.j)' /\ SfxWorking(v, m)' /\ SfxServing(v, m)'
    BY <2>3, <2>5, <2>6 DEF SfxBetween, SfxWorking, SfxServing, SfxWhole
  <2> QED
    BY <2>1, <2>2, <2>3, <2>4, <2>7 DEF SfxStepDone
<1>9. CASE m.dir \in sfxDirs /\ SfxInFolder(sfxFiles, m.dir) # {} /\ ~m.flag
  <2>1. SfxEnd(w, "safe") /\ UNCHANGED fs
    BY <1>9 DEF SfxDeleteFolder
  <2>2. w.pc = 0
    BY <1>3, <1>9
  <2> QED
    BY <1>2, <1>3, <1>9, <2>1, <2>2, EndsOnly
<1>10. CASE m.dir \in sfxDirs /\ SfxInFolder(sfxFiles, m.dir) # {} /\ m.flag
  <2> DEFINE v == [w EXCEPT !.pc = 1]
  <2>1. PICK q \in SfxInFolder(sfxFiles, m.dir) : sfxFiles' = Without(sfxFiles, {q}) /\ SfxGo(w, 1) /\ sfxDirs' = sfxDirs
    BY <1>10 DEF SfxDeleteFolder
  <2>2. workers' = {v} /\ v \in SfxWorkers
    BY <1>1, <2>1, WorkerNext
  <2>3. v.j = w.j /\ v.replay = w.replay /\ v.res = "none" /\ v.pc = 1
    BY <1>1 DEF SfxWorkers
  <2>4. IsTree(sfxFiles') /\ DOMAIN sfxFiles' = DOMAIN sfxFiles \ {q}
        /\ \A p \in DOMAIN sfxFiles' : sfxFiles'[p] = sfxFiles[p]
    <3>2. IsTree(sfxFiles')
      BY <1>4, <2>1, WithoutTree
    <3>3. DOMAIN sfxFiles' = DOMAIN sfxFiles \ {q}
      BY <2>1, WithoutDomain
    <3>4. \A p \in DOMAIN sfxFiles \ {q} : sfxFiles'[p] = sfxFiles[p]
      BY <2>1, WithoutAt
    <3> QED
      BY <3>2, <3>3, <3>4
  <2>5. SfxFilesTyped'
    BY <1>1, <2>1, <2>4 DEF SfxFilesTyped, SfxNewest
  <2>6. /\ DOMAIN SfxShown' = DOMAIN SfxShown \ {q}
        /\ \A p \in DOMAIN SfxShown' : SfxShown'[p] = SfxShown[p]
    BY <2>4 DEF SfxShown, Visible
  <2>7. q[1] = m.dir
    BY DEF SfxInFolder
  <2>8. SfxPartly(m)'
    BY <1>2, <2>6, <2>7 DEF SfxPartly
  <2>9. SfxBetween(m, w.j)' /\ SfxWorking(v, m)' /\ SfxServing(v, m)'
    BY <1>10, <2>1, <2>3, <2>8 DEF SfxBetween, SfxWorking, SfxServing
  <2>10. \A p \in SfxFilePaths : ~Touches(m, p) => p # q
    BY <2>7 DEF Touches
  <2> QED
    BY <2>2, <2>3, <2>4, <2>5, <2>9, <2>10 DEF SfxStepDone
<1> QED
  BY <1>7, <1>8, <1>9, <1>10

(* move_file: one rename, or a replay that finds it done. *)
LEMMA MoveFileDone ==
  ASSUME NEW w, NEW m, SfxReady(w, m), UNCHANGED <<want, sfxJournal>>,
         m.op = "move_file", SfxMoveFile(w, m)
  PROVE  \E v : SfxStepDone(w, v, m)
<1>1. w \in SfxWorkers /\ workers = {w} /\ SfxFilesTyped /\ m \in SfxMutations /\ w.res = "none"
  BY DEF SfxReady
<1>2. /\ SfxWhole(m) /\ NoBackup(w.j)
      /\ SfxApply(m, want) = IF m.src \in DOMAIN want THEN SfxRenamed(want, m.src, m.dst) ELSE want
  BY DEF SfxReady, SfxBetween, SfxApply
<1>3. /\ ~w.replay => SfxShown = want
      /\ w.pc # 0 => m.dst[1] \in sfxDirs
  BY <1>1 DEF SfxReady, SfxServing, SfxWorking
<1>4. IsTree(sfxFiles) /\ IsTree(want)
  BY <1>1 DEF SfxFilesTyped
<1>5. m.src \in SfxAnyPaths /\ m.src[2][1] = "file" /\ m.dst \in SfxAnyPaths /\ m.dst[2][1] = "file"
  BY <1>1 DEF SfxMutations, SfxAnyPaths, SfxFilePaths
<1>6. (m.src \in DOMAIN SfxShown <=> m.src \in DOMAIN sfxFiles) /\ (m.dst \in DOMAIN SfxShown <=> m.dst \in DOMAIN sfxFiles)
  BY <1>5, VisibleFile DEF SfxShown
<1>7. CASE m.src = m.dst
  <2>1. PICK r \in {"ok", "safe"} : SfxEnd(w, r) /\ UNCHANGED fs /\ (r = "ok" => m.src \in DOMAIN sfxFiles)
    BY <1>7 DEF SfxMoveFile
  <2>2. m.src \in DOMAIN want => SfxRenamed(want, m.src, m.dst) = want
    BY <1>4, <1>7 DEF SfxRenamed, SfxPut, Without, IsTree
  <2> QED
    BY <1>2, <1>3, <1>6, <2>1, <2>2, EndsOnly
<1>8. CASE m.src # m.dst /\ m.src \notin DOMAIN sfxFiles
  <2>1. PICK r \in {"ok", "safe"} : SfxEnd(w, r) /\ UNCHANGED fs /\ (r = "ok" => w.replay)
    BY <1>8 DEF SfxMoveFile
  <2> QED
    BY <1>2, <1>3, <2>1, EndsOnly
<1>9. CASE m.src # m.dst /\ m.src \in DOMAIN sfxFiles /\ w.pc = 0
  <2> DEFINE v == [w EXCEPT !.pc = 1]
  <2>1. sfxDirs' = sfxDirs \cup {m.dst[1]} /\ SfxGo(w, 1) /\ sfxFiles' = sfxFiles
    BY <1>9 DEF SfxMoveFile
  <2>2. workers' = {v} /\ v \in SfxWorkers
    BY <1>1, <2>1, WorkerNext
  <2>3. v.j = w.j /\ v.replay = w.replay /\ v.res = "none" /\ v.pc = 1
    BY <1>1 DEF SfxWorkers
  <2>4. SfxFilesTyped' /\ SfxShown' = SfxShown /\ (\A nr : NoBackup(nr) => NoBackup(nr)')
    BY <1>1, <2>1, FilesStay
  <2>5. SfxBetween(m, w.j)' /\ SfxWorking(v, m)'
    BY <1>2, <2>1, <2>3, <2>4 DEF SfxBetween, SfxWorking, SfxWhole
  <2>6. ~v.replay => SfxServing(v, m)'
    BY <1>2, <1>3, <2>3, <2>4 DEF SfxServing
  <2> QED
    BY <2>1, <2>2, <2>3, <2>4, <2>5, <2>6 DEF SfxStepDone
<1>10. CASE m.src # m.dst /\ m.src \in DOMAIN sfxFiles /\ w.pc # 0 /\ m.dst \in DOMAIN sfxFiles
  <2>1. SfxEnd(w, "safe") /\ UNCHANGED fs
    BY <1>10 DEF SfxMoveFile
  <2> QED
    BY <1>2, <1>3, <2>1, EndsOnly
<1>11. CASE m.src # m.dst /\ m.src \in DOMAIN sfxFiles /\ w.pc # 0 /\ m.dst \notin DOMAIN sfxFiles
  <2> DEFINE v == [w EXCEPT !.res = "ok"]
  <2>1. sfxFiles' = SfxRenamed(sfxFiles, m.src, m.dst) /\ SfxEnd(w, "ok") /\ sfxDirs' = sfxDirs
    BY <1>3, <1>11 DEF SfxMoveFile
  <2>2. workers' = {v} /\ v \in SfxWorkers
    BY <1>1, <2>1, WorkerNext
  <2>3. v.j = w.j /\ v.replay = w.replay /\ v.res = "ok"
    BY <1>1 DEF SfxWorkers
  <2>4. IsTree(sfxFiles') /\ DOMAIN sfxFiles' = (DOMAIN sfxFiles \ {m.src}) \cup {m.dst}
        /\ \A p \in DOMAIN sfxFiles : p \notin {m.src, m.dst} => sfxFiles'[p] = sfxFiles[p]
    <3>1. IsTree(sfxFiles')
      BY <1>4, <1>5, <2>1, RenamedTree
    <3>2. DOMAIN sfxFiles' = (DOMAIN sfxFiles \ {m.src}) \cup {m.dst}
      BY <2>1, RenamedDomain
    <3>3. \A p \in (DOMAIN sfxFiles \ {m.src}) \cup {m.dst} :
            sfxFiles'[p] = IF p = m.dst THEN sfxFiles[m.src] ELSE sfxFiles[p]
      BY <2>1, RenamedAt
    <3> QED
      BY <3>1, <3>2, <3>3
  <2>5. SfxFilesTyped' /\ NoBackup(w.j)'
    BY <1>1, <1>2, <1>3, <1>5, <1>11, <2>1, <2>4 DEF SfxFilesTyped, NoBackup, SfxNewest
  <2>6. SfxShown' = SfxRenamed(SfxShown, m.src, m.dst)
    BY <1>5, <1>11, <2>1, VisibleRenamed DEF SfxShown
  <2>7. SfxShown = want
    <3>1. CASE SfxShown = SfxApply(m, want) /\ m.src \in DOMAIN want
      <4>1. DOMAIN SfxRenamed(want, m.src, m.dst) = (DOMAIN want \ {m.src}) \cup {m.dst}
        BY RenamedDomain
      <4> QED
        BY <1>2, <1>6, <1>11, <3>1, <4>1
    <3> QED
      BY <1>2, <3>1 DEF SfxWhole
  <2>8. SfxShown' = SfxApply(m, want)
    BY <1>2, <1>6, <1>11, <2>6, <2>7
  <2>9. SfxBetween(m, w.j)' /\ SfxWorking(v, m)' /\ SfxServing(v, m)'
    BY <2>3, <2>5, <2>8 DEF SfxBetween, SfxWorking, SfxServing, SfxWhole
  <2>10. \A p \in SfxFilePaths : ~Touches(m, p) => p \notin {m.src, m.dst}
    BY DEF Touches
  <2> QED
    BY <2>2, <2>3, <2>4, <2>5, <2>9, <2>10 DEF SfxStepDone
<1> QED
  BY <1>7, <1>8, <1>9, <1>10, <1>11

(* A file that is set aside or takes its place. *)
LEMMA VisibleHides ==
  ASSUME NEW t, NEW p, NEW q, p[2][1] = "file", q[2][1] # "file"
  PROVE  Visible(SfxRenamed(t, p, q)) = Without(Visible(t), {p})
BY DEF Visible, SfxRenamed, SfxPut, Without

(* A staged file takes its visible name. *)
LEMMA VisibleReveals ==
  ASSUME NEW t, NEW p, NEW q, p[2][1] # "file", q[2][1] = "file"
  PROVE  Visible(SfxRenamed(t, p, q)) = SfxPut(Visible(t), q, t[p])
BY DEF Visible, SfxRenamed, SfxPut, Without

(* The paths of an upload. *)
LEMMA UploadPaths ==
  ASSUME NEW m \in SfxMutations, NEW nr \in Nat
  PROVE  /\ m.dst \in SfxAnyPaths /\ m.dst[2][1] = "file"
         /\ StagePath(m) \in SfxAnyPaths /\ StagePath(m)[2][1] = "stage" /\ StagePath(m)[2][2] = m.n
         /\ BackupPath(m, nr) \in SfxAnyPaths /\ BackupPath(m, nr)[2] = <<"backup", nr>>
         /\ StagePath(m)[1] = m.dst[1] /\ BackupPath(m, nr)[1] = m.dst[1]
BY DEF SfxMutations, SfxFilePaths, SfxAnyPaths, StagePath, BackupPath

(* A rename keeps the types of the files. *)
LEMMA RenamedTyped ==
  ASSUME SfxFilesTyped, NEW p, NEW q \in SfxAnyPaths, q[1] \in sfxDirs, q[2][1] # "stage",
         q[2][1] = "backup" => q[2][2] <= SfxNewest,
         sfxFiles' = SfxRenamed(sfxFiles, p, q), UNCHANGED <<sfxDirs, want, sfxJournal>>
  PROVE  SfxFilesTyped'
<1>1. IsTree(sfxFiles)
  BY DEF SfxFilesTyped
<1>2. IsTree(sfxFiles')
  BY <1>1, RenamedTree
<1>3. DOMAIN sfxFiles' = (DOMAIN sfxFiles \ {p}) \cup {q}
  BY RenamedDomain
<1>4. \A r \in (DOMAIN sfxFiles \ {p}) \cup {q} : sfxFiles'[r] = IF r = q THEN sfxFiles[p] ELSE sfxFiles[r]
  BY RenamedAt
<1>5. \A r \in DOMAIN sfxFiles' :
        /\ r[1] \in sfxDirs'
        /\ r[2][1] = "stage" => sfxFiles'[r] = r[2][2]
        /\ r[2][1] = "backup" => r[2][2] <= SfxNewest
  BY <1>3, <1>4 DEF SfxFilesTyped
<1> QED
  BY <1>2, <1>5 DEF SfxFilesTyped, SfxNewest

(* A rename leaves the other files alone. *)
LEMMA RenamedLeaves ==
  ASSUME NEW p, NEW q, sfxFiles' = SfxRenamed(sfxFiles, p, q)
  PROVE  \A r \in DOMAIN sfxFiles : r \notin {p, q} => r \in DOMAIN sfxFiles' /\ sfxFiles'[r] = sfxFiles[r]
BY DEF SfxRenamed, SfxPut, Without

(* So does a removal. *)
LEMMA WithoutTyped ==
  ASSUME SfxFilesTyped, NEW p, sfxFiles' = Without(sfxFiles, {p}), UNCHANGED <<sfxDirs, want, sfxJournal>>
  PROVE  /\ SfxFilesTyped'
         /\ DOMAIN sfxFiles' = DOMAIN sfxFiles \ {p}
         /\ \A r \in DOMAIN sfxFiles : r # p => r \in DOMAIN sfxFiles' /\ sfxFiles'[r] = sfxFiles[r]
         /\ \A nr : NoBackup(nr) => NoBackup(nr)'
<1>1. IsTree(sfxFiles)
  BY DEF SfxFilesTyped
<1>2. IsTree(sfxFiles')
  BY <1>1, WithoutTree
<1>3. DOMAIN sfxFiles' = DOMAIN sfxFiles \ {p}
  BY WithoutDomain
<1>4. \A r \in DOMAIN sfxFiles \ {p} : sfxFiles'[r] = sfxFiles[r]
  BY WithoutAt
<1> QED
  BY <1>2, <1>3, <1>4 DEF SfxFilesTyped, SfxNewest, NoBackup

(* And a new name for something. *)
LEMMA PutTyped ==
  ASSUME SfxFilesTyped, NEW p \in SfxAnyPaths, NEW x, sfxFiles' = SfxPut(sfxFiles, p, x), p[1] \in sfxDirs,
         p[2][1] = "stage" => x = p[2][2], p[2][1] # "backup", UNCHANGED <<sfxDirs, want, sfxJournal>>
  PROVE  /\ SfxFilesTyped'
         /\ DOMAIN sfxFiles' = DOMAIN sfxFiles \cup {p}
         /\ \A r \in DOMAIN sfxFiles : r # p => r \in DOMAIN sfxFiles' /\ sfxFiles'[r] = sfxFiles[r]
         /\ \A nr : NoBackup(nr) => NoBackup(nr)'
<1>1. IsTree(sfxFiles)
  BY DEF SfxFilesTyped
<1>2. IsTree(sfxFiles')
  BY <1>1, PutTree
<1>3. DOMAIN sfxFiles' = DOMAIN sfxFiles \cup {p}
  BY PutDomain
<1>4. \A r \in DOMAIN sfxFiles \cup {p} : sfxFiles'[r] = IF r = p THEN x ELSE sfxFiles[r]
  BY PutAt
<1>5. \A nr : NoBackup(nr) => NoBackup(nr)'
  <2> SUFFICES ASSUME NEW nr, NoBackup(nr), NEW r \in DOMAIN sfxFiles', r[2] = <<"backup", nr>> PROVE FALSE
    BY DEF NoBackup
  <2>1. r[2][1] = "backup"
    OBVIOUS
  <2> QED
    BY <1>3, <2>1 DEF NoBackup
<1> QED
  BY <1>2, <1>3, <1>4, <1>5 DEF SfxFilesTyped, SfxNewest

(* A step of an upload that only finds out how far it is. *)
LEMMA GoesOn ==
  ASSUME NEW w, NEW m, SfxReady(w, m), UNCHANGED <<fs, want, sfxJournal>>,
         NEW k \in {1, 2}, SfxGo(w, k), m.op = "publish_upload", m.dst[1] \in sfxDirs,
         k = 2 => m.flag /\ SfxWhole(m),
         ~w.replay => k = 1 /\ m.flag /\ SfxShown = Without(want, {m.dst})
  PROVE  SfxStepDone(w, [w EXCEPT !.pc = k], m)
<1> DEFINE v == [w EXCEPT !.pc = k]
<1>1. w \in SfxWorkers /\ workers = {w} /\ SfxFilesTyped /\ w.res = "none"
  BY DEF SfxReady
<1>2. workers' = {v} /\ v \in SfxWorkers
  BY <1>1, WorkerNext
<1>3. v.j = w.j /\ v.replay = w.replay /\ v.res = "none" /\ v.pc = k
  BY <1>1 DEF SfxWorkers
<1>4. SfxFilesTyped' /\ SfxShown' = SfxShown /\ (\A nr : NoBackup(nr) => NoBackup(nr)')
  BY <1>1, FilesStay DEF fs
<1>5. SfxBetween(m, w.j)'
  BY <1>4 DEF SfxReady, SfxBetween, SfxWhole, SfxPartly, fs
<1>6. SfxWorking(v, m)' /\ (~v.replay => SfxServing(v, m)')
  BY <1>3, <1>4 DEF SfxWorking, SfxServing, SfxWhole, fs
<1> QED
  BY <1>2, <1>3, <1>4, <1>5, <1>6 DEF SfxStepDone, fs

(* publish_new_upload: a link at the free name, then the staged name goes. *)
LEMMA PublishNewDone ==
  ASSUME NEW w, NEW m, SfxReady(w, m), UNCHANGED <<want, sfxJournal>>,
         m.op = "publish_upload", m.dst[1] \in sfxDirs, ~m.flag, SfxPublishNew(w, m)
  PROVE  \E v : SfxStepDone(w, v, m)
<1> DEFINE s == StagePath(m)
           staged == s \in DOMAIN sfxFiles
           there == m.dst \in DOMAIN sfxFiles
<1>1. w \in SfxWorkers /\ workers = {w} /\ SfxFilesTyped /\ m \in SfxMutations /\ w.res = "none"
  BY DEF SfxReady
<1>2. SfxWhole(m) /\ NoBackup(w.j) /\ SfxApply(m, want) = SfxPut(want, m.dst, m.n)
  BY DEF SfxReady, SfxBetween, SfxApply
<1>3. /\ ~w.replay /\ w.pc = 0 => SfxShown = want
      /\ ~w.replay /\ w.pc = 1 => SfxShown = SfxApply(m, want)
      /\ w.pc \in {0, 1}
  BY <1>1 DEF SfxReady, SfxServing, SfxWorking, SfxWorkers
<1>4. /\ m.dst \in SfxAnyPaths /\ m.dst[2][1] = "file"
      /\ s \in SfxAnyPaths /\ s[2][1] = "stage" /\ s[2][2] = m.n
  BY <1>1, UploadPaths
<1>5. m.dst \in DOMAIN SfxShown <=> there
  BY <1>4, VisibleFile DEF SfxShown
<1>6. sfxDirs' = sfxDirs
  BY DEF SfxPublishNew
<1>7. \A p \in SfxFilePaths : p[2][1] = "file" /\ (~Touches(m, p) => p # m.dst)
  BY DEF SfxFilePaths, Touches
<1>8. CASE w.pc = 1
  <2> DEFINE v == [w EXCEPT !.res = "ok"]
  <2>1. sfxFiles' = Without(sfxFiles, {s}) /\ SfxEnd(w, "ok")
    BY <1>8 DEF SfxPublishNew
  <2>2. workers' = {v} /\ v \in SfxWorkers
    BY <1>1, <2>1, WorkerNext
  <2>3. v.j = w.j /\ v.replay = w.replay /\ v.res = "ok"
    BY <1>1 DEF SfxWorkers
  <2> HIDE DEF s, v
  <2>4. /\ SfxFilesTyped' /\ NoBackup(w.j)'
        /\ \A r \in DOMAIN sfxFiles : r # s => r \in DOMAIN sfxFiles' /\ sfxFiles'[r] = sfxFiles[r]
    BY <1>1, <1>2, <1>6, <2>1, WithoutTyped
  <2>5. SfxShown' = SfxShown
    BY <1>4, <2>1, VisibleHidden DEF SfxShown
  <2>6. SfxBetween(m, w.j)' /\ SfxWorking(v, m)'
    BY <1>2, <2>3, <2>4, <2>5 DEF SfxBetween, SfxWorking, SfxWhole
  <2>7. ~v.replay => SfxServing(v, m)'
    BY <1>3, <1>8, <2>3, <2>5 DEF SfxServing
  <2> QED
    BY <1>4, <1>7, <2>2, <2>3, <2>4, <2>6, <2>7 DEF SfxStepDone
<1>9. CASE w.pc = 0 /\ BackupPath(m, w.j) \in DOMAIN sfxFiles
  <2>1. SfxEnd(w, "bad") /\ UNCHANGED fs
    BY <1>6, <1>9 DEF SfxPublishNew, fs
  <2> QED
    BY <2>1, EndsOnly
<1>10. CASE w.pc = 0 /\ BackupPath(m, w.j) \notin DOMAIN sfxFiles /\ staged /\ ~there
  <2> DEFINE v == [w EXCEPT !.pc = 1]
  <2>1. sfxFiles' = SfxPut(sfxFiles, m.dst, sfxFiles[s]) /\ SfxGo(w, 1)
    BY <1>10 DEF SfxPublishNew
  <2>2. workers' = {v} /\ v \in SfxWorkers
    BY <1>1, <2>1, WorkerNext
  <2>3. v.j = w.j /\ v.replay = w.replay /\ v.res = "none" /\ v.pc = 1
    BY <1>1 DEF SfxWorkers
  <2> HIDE DEF s, v
  <2>4. sfxFiles[s] = m.n
    BY <1>1, <1>4, <1>10 DEF SfxFilesTyped
  <2>5. /\ SfxFilesTyped' /\ NoBackup(w.j)'
        /\ \A r \in DOMAIN sfxFiles : r # m.dst => r \in DOMAIN sfxFiles' /\ sfxFiles'[r] = sfxFiles[r]
    BY <1>1, <1>2, <1>4, <1>6, <2>1, PutTyped
  <2>6. SfxShown' = SfxPut(SfxShown, m.dst, m.n)
    <3>1. Visible(SfxPut(sfxFiles, m.dst, m.n)) = SfxPut(Visible(sfxFiles), m.dst, m.n)
      BY <1>4, VisiblePut
    <3> QED
      BY <2>1, <2>4, <3>1 DEF SfxShown
  <2>7. m.dst \in DOMAIN SfxPut(want, m.dst, m.n)
    BY DEF SfxPut
  <2>8. SfxShown' = SfxApply(m, want)
    BY <1>2, <1>5, <1>10, <2>6, <2>7 DEF SfxWhole
  <2>9. SfxBetween(m, w.j)' /\ SfxWorking(v, m)' /\ SfxServing(v, m)'
    BY <1>6, <2>3, <2>5, <2>8 DEF SfxBetween, SfxWorking, SfxServing, SfxWhole
  <2> QED
    BY <1>7, <2>2, <2>3, <2>5, <2>9 DEF SfxStepDone
<1>11. CASE w.pc = 0 /\ BackupPath(m, w.j) \notin DOMAIN sfxFiles /\ staged /\ there
  <2>1. UNCHANGED fs /\ ((w.replay /\ SfxGo(w, 1)) \/ SfxEnd(w, "safe"))
    BY <1>6, <1>11 DEF SfxPublishNew, fs
  <2>2. CASE w.replay /\ SfxGo(w, 1)
    <3>1. 1 \in {1, 2} /\ 1 # 2
      OBVIOUS
    <3> QED
      BY <2>1, <2>2, <3>1, GoesOn
  <2>3. CASE SfxEnd(w, "safe")
    BY <1>2, <1>3, <1>11, <2>1, <2>3, EndsOnly
  <2> QED
    BY <2>1, <2>2, <2>3
<1>12. CASE w.pc = 0 /\ BackupPath(m, w.j) \notin DOMAIN sfxFiles /\ ~staged
  <2>1. PICK r \in {"ok", "safe"} : SfxEnd(w, r) /\ UNCHANGED fs /\ (r = "ok" => w.replay)
    BY <1>6, <1>12 DEF SfxPublishNew, fs
  <2> QED
    BY <1>2, <1>3, <1>12, <2>1, EndsOnly
<1> QED
  BY <1>3, <1>8, <1>9, <1>10, <1>11, <1>12

(* The three trees of an overwrite, changed at its destination. *)
LEMMA OverwriteTrees ==
  ASSUME NEW t, NEW p, NEW x
  PROVE  /\ Without(Without(t, {p}), {p}) = Without(t, {p})
         /\ Without(SfxPut(t, p, x), {p}) = Without(t, {p})
         /\ SfxPut(Without(t, {p}), p, x) = SfxPut(t, p, x)
         /\ SfxPut(SfxPut(t, p, x), p, x) = SfxPut(t, p, x)
BY DEF Without, SfxPut

(* publish_replacing_upload: the backup, the new file, the removal of the backup. *)
LEMMA PublishReplacingDone ==
  ASSUME NEW w, NEW m, SfxReady(w, m), UNCHANGED <<want, sfxJournal>>,
         m.op = "publish_upload", m.dst[1] \in sfxDirs, m.flag, SfxPublishReplacing(w, m)
  PROVE  \E v : SfxStepDone(w, v, m)
<1> DEFINE s == StagePath(m)
           b == BackupPath(m, w.j)
           staged == s \in DOMAIN sfxFiles
           there == m.dst \in DOMAIN sfxFiles
           kept == b \in DOMAIN sfxFiles
<1>1. w \in SfxWorkers /\ workers = {w} /\ SfxFilesTyped /\ m \in SfxMutations /\ w.res = "none"
      /\ w.j = SfxNewest /\ w.j \in Nat /\ w.pc \in {0, 1, 2}
  BY DEF SfxReady, SfxWorkers
<1>2. /\ \/ SfxShown = want /\ NoBackup(w.j)
         \/ SfxShown = Without(want, {m.dst}) /\ staged
         \/ SfxShown = SfxApply(m, want)
      /\ SfxApply(m, want) = SfxPut(want, m.dst, m.n)
  BY DEF SfxReady, SfxBetween, SfxApply
<1>3. /\ ~w.replay /\ w.pc = 0 => SfxShown = want
      /\ ~w.replay /\ w.pc = 2 => SfxShown = SfxApply(m, want)
      /\ w.pc = 2 => SfxWhole(m)
  BY <1>1 DEF SfxReady, SfxServing, SfxWorking
<1>4. /\ m.dst \in SfxAnyPaths /\ m.dst[2][1] = "file"
      /\ s \in SfxAnyPaths /\ s[2][1] = "stage" /\ s[2][2] = m.n /\ s[1] = m.dst[1]
      /\ b \in SfxAnyPaths /\ b[2] = <<"backup", w.j>> /\ b[1] = m.dst[1]
  BY <1>1, UploadPaths
<1>5. b[2][1] = "backup" /\ b[2][2] = w.j
  BY <1>4
<1>6. m.dst \in DOMAIN SfxShown <=> there
  BY <1>4, VisibleFile DEF SfxShown
<1>7. sfxDirs' = sfxDirs
  BY DEF SfxPublishReplacing
<1>8. \A p \in SfxFilePaths : p[2][1] = "file" /\ (~Touches(m, p) => p # m.dst)
  BY DEF SfxFilePaths, Touches
<1>9. m.dst \in DOMAIN SfxApply(m, want)
  BY <1>2 DEF SfxPut
<1>10. kept => ~NoBackup(w.j)
  BY <1>4 DEF NoBackup
<1>11. CASE w.pc = 0 /\ staged /\ there /\ kept
  <2>1. SfxEnd(w, "bad") /\ UNCHANGED fs
    BY <1>7, <1>11 DEF SfxPublishReplacing, fs
  <2> QED
    BY <2>1, EndsOnly
<1>12. CASE w.pc = 0 /\ staged /\ there /\ ~kept
  <2> DEFINE v == [w EXCEPT !.pc = 1]
  <2>1. sfxFiles' = SfxRenamed(sfxFiles, m.dst, b) /\ SfxGo(w, 1)
    BY <1>12 DEF SfxPublishReplacing
  <2>2. workers' = {v} /\ v \in SfxWorkers
    BY <1>1, <2>1, WorkerNext
  <2>3. v.j = w.j /\ v.replay = w.replay /\ v.res = "none" /\ v.pc = 1
    BY <1>1 DEF SfxWorkers
  <2> HIDE DEF s, b, v
  <2>4. /\ SfxFilesTyped'
        /\ \A r \in DOMAIN sfxFiles : r \notin {m.dst, b} => r \in DOMAIN sfxFiles' /\ sfxFiles'[r] = sfxFiles[r]
    <3>1. b[1] \in sfxDirs /\ b[2][1] # "stage" /\ b[2][2] <= SfxNewest
      BY <1>1, <1>4, <1>5
    <3>2. UNCHANGED <<sfxDirs, want, sfxJournal>>
      BY <1>7
    <3>3. SfxFilesTyped'
      BY <1>1, <1>4, <2>1, <3>1, <3>2, RenamedTyped
    <3> QED
      BY <2>1, <3>3, RenamedLeaves
  <2>5. SfxShown' = Without(SfxShown, {m.dst})
    BY <1>4, <1>5, <2>1, VisibleHides DEF SfxShown
  <2>6. SfxShown' = Without(want, {m.dst})
    BY <1>2, <2>5, OverwriteTrees
  <2>7. s \in DOMAIN sfxFiles'
    BY <1>4, <1>12, <2>4
  <2>8. SfxBetween(m, w.j)' /\ SfxWorking(v, m)' /\ SfxServing(v, m)'
    BY <1>7, <2>3, <2>6, <2>7 DEF SfxBetween, SfxWorking, SfxServing, s
  <2> QED
    BY <1>5, <1>8, <2>2, <2>3, <2>4, <2>8 DEF SfxStepDone
<1>13. CASE w.pc = 0 /\ staged /\ ~there
  <2>1. SfxGo(w, 1) /\ UNCHANGED fs
    BY <1>7, <1>13 DEF SfxPublishReplacing, fs
  <2>2. ~w.replay => SfxShown = Without(want, {m.dst})
    <3>1. IsTree(want)
      BY <1>1 DEF SfxFilesTyped
    <3> QED
      BY <1>3, <1>6, <1>13, <3>1 DEF Without, IsTree
  <2>3. 1 \in {1, 2} /\ 1 # 2
    OBVIOUS
  <2> QED
    BY <2>1, <2>2, <2>3, GoesOn
<1>14. CASE w.pc = 0 /\ ~staged /\ there /\ w.replay
  <2>1. SfxGo(w, 2) /\ UNCHANGED fs
    BY <1>7, <1>14 DEF SfxPublishReplacing, fs
  <2>2. SfxWhole(m)
    BY <1>2, <1>14 DEF SfxWhole
  <2>3. 2 \in {1, 2} /\ 1 # 2
    OBVIOUS
  <2> QED
    BY <1>14, <2>1, <2>2, <2>3, GoesOn
<1>15. CASE w.pc = 0 /\ ~staged /\ ~there /\ kept
  BY <1>2, <1>6, <1>9, <1>10, <1>15
<1>16. CASE w.pc = 1 /\ staged
  <2> DEFINE v == [w EXCEPT !.pc = 2]
  <2>1. sfxFiles' = SfxRenamed(sfxFiles, s, m.dst) /\ SfxGo(w, 2)
    BY <1>16 DEF SfxPublishReplacing
  <2>2. workers' = {v} /\ v \in SfxWorkers
    BY <1>1, <2>1, WorkerNext
  <2>3. v.j = w.j /\ v.replay = w.replay /\ v.res = "none" /\ v.pc = 2
    BY <1>1 DEF SfxWorkers
  <2> HIDE DEF s, b, v
  <2>4. sfxFiles[s] = m.n
    BY <1>1, <1>4, <1>16 DEF SfxFilesTyped
  <2>5. /\ SfxFilesTyped'
        /\ \A r \in DOMAIN sfxFiles : r \notin {s, m.dst} => r \in DOMAIN sfxFiles' /\ sfxFiles'[r] = sfxFiles[r]
    <3>1. m.dst[2][1] # "stage" /\ m.dst[2][1] # "backup"
      BY <1>4
    <3>2. UNCHANGED <<sfxDirs, want, sfxJournal>>
      BY <1>7
    <3>3. SfxFilesTyped'
      BY <1>1, <1>4, <2>1, <3>1, <3>2, RenamedTyped
    <3> QED
      BY <2>1, <3>3, RenamedLeaves
  <2>6. SfxShown' = SfxPut(SfxShown, m.dst, m.n)
    BY <1>4, <2>1, <2>4, VisibleReveals DEF SfxShown
  <2>7. SfxShown' = SfxApply(m, want)
    BY <1>2, <2>6, OverwriteTrees
  <2>8. SfxBetween(m, w.j)' /\ SfxWorking(v, m)' /\ SfxServing(v, m)'
    BY <1>7, <2>3, <2>7 DEF SfxBetween, SfxWorking, SfxServing, SfxWhole
  <2> QED
    BY <1>4, <1>8, <2>2, <2>3, <2>5, <2>8 DEF SfxStepDone
<1>17. CASE w.pc = 1 /\ ~staged
  <2>1. SfxEnd(w, "bad") /\ UNCHANGED fs
    BY <1>7, <1>17 DEF SfxPublishReplacing, fs
  <2> QED
    BY <2>1, EndsOnly
<1>18. CASE w.pc = 2
  <2> DEFINE v == [w EXCEPT !.res = "ok"]
  <2>1. sfxFiles' = Without(sfxFiles, {b}) /\ SfxEnd(w, "ok")
    BY <1>18 DEF SfxPublishReplacing
  <2>2. workers' = {v} /\ v \in SfxWorkers
    BY <1>1, <2>1, WorkerNext
  <2>3. v.j = w.j /\ v.replay = w.replay /\ v.res = "ok"
    BY <1>1 DEF SfxWorkers
  <2> HIDE DEF s, b, v
  <2>4. /\ SfxFilesTyped' /\ (NoBackup(w.j) => NoBackup(w.j)')
        /\ \A r \in DOMAIN sfxFiles : r # b => r \in DOMAIN sfxFiles' /\ sfxFiles'[r] = sfxFiles[r]
    BY <1>1, <1>7, <2>1, WithoutTyped
  <2>5. SfxShown' = SfxShown
    BY <1>5, <2>1, VisibleHidden DEF SfxShown
  <2>6. staged => s \in DOMAIN sfxFiles'
    BY <1>4, <1>5, <2>4
  <2>7. SfxBetween(m, w.j)'
    BY <1>2, <1>7, <2>4, <2>5, <2>6 DEF SfxBetween, s
  <2>8. SfxWorking(v, m)' /\ (~v.replay => SfxServing(v, m)')
    BY <1>3, <1>18, <2>3, <2>5 DEF SfxWorking, SfxServing, SfxWhole
  <2> QED
    BY <1>5, <1>8, <2>2, <2>3, <2>4, <2>7, <2>8 DEF SfxStepDone
<1>19. CASE \/ w.pc = 0 /\ ~staged /\ there /\ ~w.replay
            \/ w.pc = 0 /\ ~staged /\ ~there /\ ~kept
  <2>1. SfxEnd(w, "safe") /\ UNCHANGED fs
    BY <1>7, <1>19 DEF SfxPublishReplacing, fs
  <2>2. SfxWhole(m)
    BY <1>2, <1>19 DEF SfxWhole
  <2> QED
    BY <1>3, <1>19, <2>1, <2>2, EndsOnly
<1> QED
  BY <1>1, <1>11, <1>12, <1>13, <1>14, <1>15, <1>16, <1>17, <1>18, <1>19

(* Either way of publishing an upload. *)
LEMMA PublishDone ==
  ASSUME NEW w, NEW m, SfxReady(w, m), UNCHANGED <<want, sfxJournal>>,
         m.op = "publish_upload", SfxPublish(w, m)
  PROVE  \E v : SfxStepDone(w, v, m)
<1>1. CASE m.dst[1] \notin sfxDirs
  <2>1. SfxEnd(w, "safe") /\ UNCHANGED fs
    BY <1>1 DEF SfxPublish
  <2>2. w.pc = 0
    BY <1>1 DEF SfxReady, SfxWorking
  <2>3. SfxWhole(m)
    BY <1>1 DEF SfxReady, SfxBetween, SfxWhole
  <2>4. ~w.replay => SfxShown = want
    BY <2>2 DEF SfxReady, SfxServing
  <2> QED
    BY <2>1, <2>3, <2>4, EndsOnly
<1>2. CASE m.dst[1] \in sfxDirs /\ m.flag
  BY <1>2, PublishReplacingDone DEF SfxPublish
<1>3. CASE m.dst[1] \in sfxDirs /\ ~m.flag
  BY <1>3, PublishNewDone DEF SfxPublish
<1> QED
  BY <1>1, <1>2, <1>3

SfxEntries == [m : SfxMutations, state : {"planned", "applying", "committed", "failed"}]

(* The journal and its newest entry. *)
LEMMA JournalFacts ==
  ASSUME SfxRequestsTyped
  PROVE  /\ sfxJournal \in Seq(SfxEntries) /\ SfxNewest \in Nat /\ DOMAIN sfxJournal = 1..SfxNewest
         /\ \A k \in DOMAIN sfxJournal : sfxJournal[k] \in SfxEntries /\ sfxJournal[k].m \in SfxMutations
         /\ \A k \in DOMAIN sfxJournal : k \in SfxUnfinished <=> sfxJournal[k].state \in {"planned", "applying"}
         /\ SfxUnfinished \subseteq DOMAIN sfxJournal
<1>1. sfxJournal \in Seq(SfxEntries)
  BY DEF SfxRequestsTyped, SfxEntries
<1>2. SfxNewest \in Nat /\ DOMAIN sfxJournal = 1..SfxNewest
  BY <1>1 DEF SfxNewest
<1>3. \A k \in DOMAIN sfxJournal : sfxJournal[k] \in SfxEntries
  BY <1>1
<1>4. \A k \in DOMAIN sfxJournal : sfxJournal[k].m \in SfxMutations
        /\ sfxJournal[k].state \in {"planned", "applying", "committed", "failed"}
  BY <1>3 DEF SfxEntries
<1> QED
  BY <1>1, <1>2, <1>3, <1>4 DEF SfxUnfinished, SfxFinished

(* An entry is marked. *)
LEMMA JournalMarked ==
  ASSUME SfxRequestsTyped, NEW nr \in DOMAIN sfxJournal, NEW x \in {"planned", "applying", "committed", "failed"},
         sfxJournal' = [sfxJournal EXCEPT ![nr].state = x]
  PROVE  /\ sfxJournal' \in Seq(SfxEntries) /\ SfxNewest' = SfxNewest /\ DOMAIN sfxJournal' = DOMAIN sfxJournal
         /\ \A k \in DOMAIN sfxJournal : sfxJournal'[k].m = sfxJournal[k].m
         /\ \A k \in DOMAIN sfxJournal : sfxJournal'[k].state = IF k = nr THEN x ELSE sfxJournal[k].state
         /\ Plans' = Plans
<1>1. sfxJournal \in Seq(SfxEntries) /\ DOMAIN sfxJournal = 1..Len(sfxJournal)
  BY JournalFacts DEF SfxNewest
<1>2. DOMAIN sfxJournal' = DOMAIN sfxJournal
  OBVIOUS
<1>3. \A k \in DOMAIN sfxJournal : sfxJournal'[k] = IF k = nr THEN [sfxJournal[nr] EXCEPT !.state = x] ELSE sfxJournal[k]
  OBVIOUS
<1>4. \A k \in DOMAIN sfxJournal :
        /\ sfxJournal'[k] \in SfxEntries /\ sfxJournal'[k].m = sfxJournal[k].m
        /\ sfxJournal'[k].state = IF k = nr THEN x ELSE sfxJournal[k].state
  <2>1. \A k \in DOMAIN sfxJournal : sfxJournal[k] \in SfxEntries
    BY JournalFacts
  <2> QED
    BY <1>3, <2>1 DEF SfxEntries
<1>5. sfxJournal' \in Seq(SfxEntries) /\ Len(sfxJournal') = Len(sfxJournal)
  BY <1>1, <1>2, <1>4
<1> QED
  BY <1>2, <1>4, <1>5 DEF SfxNewest, Plans

(* What was unfinished is, but for the entry that was marked. *)
LEMMA MarkedUnfinished ==
  ASSUME SfxRequestsTyped, NEW nr \in DOMAIN sfxJournal, NEW x \in {"planned", "applying", "committed", "failed"},
         sfxJournal' = [sfxJournal EXCEPT ![nr].state = x]
  PROVE  SfxUnfinished' = IF x \in SfxFinished THEN SfxUnfinished \ {nr} ELSE SfxUnfinished \cup {nr}
<1>1. DOMAIN sfxJournal' = DOMAIN sfxJournal
  OBVIOUS
<1>2. \A k \in DOMAIN sfxJournal : sfxJournal'[k].state = IF k = nr THEN x ELSE sfxJournal[k].state
  BY JournalMarked
<1> QED
  BY <1>1, <1>2 DEF SfxUnfinished

\* What AckedUploadKept says of one entry.
UploadKept(k) ==
  sfxJournal[k].m.op = "publish_upload"
    /\ (\A nr \in DOMAIN sfxJournal : nr > k => ~Touches(sfxJournal[nr].m, sfxJournal[k].m.dst))
    => SfxHas(sfxFiles, sfxJournal[k].m.dst, sfxJournal[k].m.n)

(* Acknowledged uploads are among the visible files. *)
LEMMA UploadStays ==
  ASSUME SfxRequestsTyped, SfxShown' = SfxShown, NEW k \in DOMAIN sfxJournal, UploadKept(k),
         \A i \in DOMAIN sfxJournal : i \in DOMAIN sfxJournal' /\ sfxJournal'[i].m = sfxJournal[i].m
  PROVE  UploadKept(k)'
<1> SUFFICES ASSUME sfxJournal'[k].m.op = "publish_upload",
                    \A nr \in DOMAIN sfxJournal' : nr > k => ~Touches(sfxJournal'[nr].m, sfxJournal'[k].m.dst)
             PROVE  SfxHas(sfxFiles', sfxJournal'[k].m.dst, sfxJournal'[k].m.n)
  BY DEF UploadKept, SfxHas
<1> DEFINE m == sfxJournal[k].m
<1>1. sfxJournal'[k].m = m
  OBVIOUS
<1>2. m \in SfxMutations
  BY JournalFacts
<1>3. m.dst[2][1] = "file"
  BY <1>2 DEF SfxMutations, SfxFilePaths
<1>4. \A nr \in DOMAIN sfxJournal : nr > k => ~Touches(sfxJournal[nr].m, m.dst)
  BY <1>1
<1>5. SfxHas(sfxFiles, m.dst, m.n)
  BY <1>1, <1>4 DEF UploadKept
<1> HIDE DEF m
<1>6. m.dst \in DOMAIN SfxShown /\ SfxShown[m.dst] = m.n
  BY <1>3, <1>5, VisibleFile DEF SfxHas, SfxShown
<1>7. m.dst \in DOMAIN sfxFiles' /\ sfxFiles'[m.dst] = m.n
  BY <1>3, <1>6 DEF SfxShown, Visible
<1> QED
  BY <1>1, <1>7 DEF SfxHas

(* An acknowledged upload stays while the files it answers for do. *)
LEMMA AckedStay ==
  ASSUME SfxRequestsTyped, SfxAcked, AckedThere, SfxShown' = SfxShown, acked' = acked,
         \A k \in DOMAIN sfxJournal : k \in DOMAIN sfxJournal' /\ sfxJournal'[k].m = sfxJournal[k].m
  PROVE  AckedThere'
<1>1. \A k \in acked : k \in DOMAIN sfxJournal /\ UploadKept(k)
  BY DEF SfxAcked, AckedThere, UploadKept
<1>2. \A k \in acked : UploadKept(k)'
  BY <1>1, UploadStays
<1> QED
  BY <1>2 DEF AckedThere, UploadKept

(* A worker at work. *)
LEMMA SfxWorkerReady ==
  ASSUME SfxIInv, NEW w \in workers, w.res = "none", NEW m, m = sfxJournal[w.j].m
  PROVE  SfxReady(w, m)
<1>1. SfxRequestsTyped /\ SfxFilesTyped /\ SfxOneEntry /\ SfxKept
  BY DEF SfxIInv
<1>2. w \in SfxWorkers /\ workers = {w}
  BY <1>1 DEF SfxRequestsTyped, SfxWorkers, SfxOneEntry
<1>3. w.j = SfxNewest /\ w.j \in DOMAIN sfxJournal /\ sfxJournal[w.j].state = "applying"
  BY <1>1, JournalFacts DEF SfxOneEntry
<1>4. m \in SfxMutations /\ SfxUnfinished # {}
  BY <1>1, <1>3, JournalFacts
<1> QED
  BY <1>1, <1>2, <1>3, <1>4 DEF SfxReady, SfxKept

(* What a step of a worker has to keep is enough. *)
LEMMA SfxStepKeeps ==
  ASSUME SfxIInv, NEW w \in workers, NEW m, m = sfxJournal[w.j].m, NEW v, SfxStepDone(w, v, m),
         UNCHANGED <<sfxUp, refused, sfxJournal, sfxGate, req, sfxOps, cancels, acked, want>>
  PROVE  SfxIInv'
<1>1. SfxRequestsTyped /\ SfxFilesTyped /\ SfxOneEntry /\ SfxPhased /\ SfxKept /\ SfxAcked /\ AckedThere
  BY DEF SfxIInv
<1>2. w.j = SfxNewest /\ w.j \in DOMAIN sfxJournal /\ sfxJournal[w.j].state = "applying" /\ workers = {w}
  BY <1>1, JournalFacts DEF SfxOneEntry
<1>3. workers' = {v} /\ v \in SfxWorkers /\ v.j = w.j /\ v.replay = w.replay
  BY DEF SfxStepDone
<1>4. SfxNewest' = SfxNewest /\ SfxUnfinished' = SfxUnfinished /\ SfxUnfinished # {}
  BY <1>1, <1>2, JournalFacts DEF SfxNewest, SfxUnfinished
<1>5. SfxRequestsTyped'
  BY <1>1, <1>3 DEF SfxRequestsTyped, SfxWorkers
<1>6. SfxOneEntry'
  BY <1>1, <1>2, <1>3, <1>4 DEF SfxOneEntry
<1>7. SfxPhased'
  <2>1. ~(sfxUp = "down") /\ ~(sfxUp = "up" /\ sfxGate = NoOne)
    BY <1>1, <1>2 DEF SfxPhased
  <2>2. \A c \in SfxClients : req[c].pc \notin {"resolve", "plan", "begin"}
    BY <1>1, <1>2 DEF SfxPhased
  <2> QED
    BY <1>1, <1>2, <1>3, <1>4, <2>1, <2>2 DEF SfxPhased
<1>8. SfxKept'
  <2>1. SfxBetween(m, w.j)' /\ SfxWorking(v, m)' /\ (~v.replay => SfxServing(v, m)')
    BY DEF SfxStepDone
  <2>2. \A u \in workers' : SfxWorking(u, sfxJournal[u.j].m)' /\ (~u.replay => SfxServing(u, sfxJournal[u.j].m)')
    BY <1>3, <2>1
  <2>3. SfxBetween(sfxJournal[SfxNewest].m, SfxNewest)'
    BY <1>2, <1>4, <2>1
  <2> QED
    BY <1>3, <1>4, <2>2, <2>3 DEF SfxKept
<1>9. SfxAcked'
  BY <1>1 DEF SfxAcked
<1>10. AckedThere'
  <2> SUFFICES ASSUME NEW k \in acked, sfxJournal[k].m.op = "publish_upload",
                      \A nr \in DOMAIN sfxJournal : nr > k => ~Touches(sfxJournal[nr].m, sfxJournal[k].m.dst)
               PROVE  SfxHas(sfxFiles', sfxJournal[k].m.dst, sfxJournal[k].m.n)
    BY DEF AckedThere, SfxHas
  <2> DEFINE u == sfxJournal[k].m
  <2>1. k \in DOMAIN sfxJournal /\ k # w.j
    BY <1>1, <1>2 DEF SfxAcked
  <2>2. w.j > k
    BY <1>1, <1>2, <2>1, JournalFacts
  <2>3. ~Touches(m, u.dst)
    BY <1>2, <2>2
  <2>4. u.dst \in SfxFilePaths
    BY <1>1, <2>1, JournalFacts DEF SfxMutations
  <2>5. SfxHas(sfxFiles, u.dst, u.n)
    BY <1>1 DEF AckedThere
  <2> HIDE DEF u
  <2> QED
    BY <2>3, <2>4, <2>5 DEF SfxHas, SfxStepDone, u
<1> QED
  BY <1>5, <1>6, <1>7, <1>8, <1>9, <1>10 DEF SfxIInv, SfxStepDone

(* The worker's step, whatever its mutation. *)
LEMMA ApplyStepKeeps ==
  ASSUME SfxIInv, NEW w \in workers, ApplyStep(w)
  PROVE  SfxIInv'
<1>1. PICK m : m = sfxJournal[w.j].m
  OBVIOUS
<1>2. SfxReady(w, m) /\ UNCHANGED <<want, sfxJournal>>
  BY <1>1, SfxWorkerReady DEF ApplyStep
<1>3. PICK v : SfxStepDone(w, v, m)
  BY <1>1, <1>2, CreateFolderDone, RenameFolderDone, DeleteFolderDone, MoveFileDone, DeleteFileDone, PublishDone
     DEF ApplyStep
<1>4. UNCHANGED <<sfxUp, refused, sfxJournal, sfxGate, req, sfxOps, cancels, acked, want>>
  BY DEF ApplyStep, sfxBounds
<1> QED
  BY <1>1, <1>3, <1>4, SfxStepKeeps

(* A worker whose call fails. *)
LEMMA ApplyFailsKeeps ==
  ASSUME SfxIInv, NEW w \in workers, ApplyFails(w)
  PROVE  SfxIInv'
<1>1. PICK m : m = sfxJournal[w.j].m
  OBVIOUS
<1>2. SfxReady(w, m)
  BY <1>1, SfxWorkerReady DEF ApplyFails
<1>3. PICK r \in {"bad", "safe"} : SfxEnd(w, r) /\ (r = "safe" => Linking(w))
  BY DEF ApplyFails
<1>4. UNCHANGED <<sfxUp, refused, fs, sfxJournal, sfxGate, req, sfxOps, cancels, acked, want>>
  BY DEF ApplyFails
<1>5. Linking(w) => SfxWhole(m) /\ (~w.replay => SfxShown = want)
  BY <1>1, <1>2 DEF Linking, SfxReady, SfxBetween, SfxServing
<1>6. SfxStepDone(w, [w EXCEPT !.res = r], m)
  BY <1>2, <1>3, <1>4, <1>5, EndsOnly
<1> QED
  BY <1>1, <1>4, <1>6, SfxStepKeeps

(* What a request asks for is a mutation. *)
LEMMA SfxRequestsAre == SfxRequests \subseteq SfxMutations /\ SfxPlan \in SfxMutations
<1>1. NoPath \in SfxFilePaths /\ SfxPaths \subseteq SfxFilePaths
  BY SfxAssumption DEF NoPath, SfxPaths, SfxFilePaths
<1>2. SfxPlan \in SfxMutations
  BY <1>1 DEF SfxPlan, SfxMutations, SfxAllOps
<1> DEFINE New(d) == [SfxPlan EXCEPT !.op = "create_folder", !.dir = d]
           Ren(d, e) == [SfxPlan EXCEPT !.op = "rename_folder", !.dir = d, !.to = e]
           Del(d, r) == [SfxPlan EXCEPT !.op = "delete_folder", !.dir = d, !.flag = r]
           Mov(p, q) == [SfxPlan EXCEPT !.op = "move_file", !.src = p, !.dst = q]
           Rem(p) == [SfxPlan EXCEPT !.op = "delete_file", !.src = p]
<1>3. \A d, e \in Folders : New(d) \in SfxMutations /\ Ren(d, e) \in SfxMutations
  BY <1>2 DEF SfxMutations, SfxAllOps
<1>4. \A d \in Folders, r \in BOOLEAN : Del(d, r) \in SfxMutations
  BY <1>2 DEF SfxMutations, SfxAllOps
<1>5. \A p, q \in SfxPaths : Mov(p, q) \in SfxMutations /\ Rem(p) \in SfxMutations
  BY <1>1, <1>2 DEF SfxMutations, SfxAllOps
<1>6. SfxRequests = {New(d) : d \in Folders} \cup {Ren(d, e) : d, e \in Folders}
                    \cup {Del(d, r) : d \in Folders, r \in BOOLEAN}
                    \cup {Mov(p, q) : p, q \in SfxPaths} \cup {Rem(p) : p \in SfxPaths}
  BY DEF SfxRequests
<1> HIDE DEF New, Ren, Del, Mov, Rem
<1>7. SfxRequests \subseteq SfxMutations
  BY <1>3, <1>4, <1>5, <1>6
<1> QED
  BY <1>2, <1>7

\* The parts that speak of files and entries.
SfxContent == SfxFilesTyped /\ SfxOneEntry /\ SfxKept /\ SfxAcked /\ AckedThere

(* A step that touches neither files nor entries. *)
LEMMA QuietKeeps ==
  ASSUME SfxContent, UNCHANGED <<sfxUp, refused, fs, sfxJournal, workers, acked, want>>
  PROVE  SfxContent'
<1>1. SfxNewest' = SfxNewest /\ SfxUnfinished' = SfxUnfinished /\ Plans' = Plans
  BY DEF SfxNewest, SfxUnfinished, Plans
<1>2. SfxShown' = SfxShown /\ \A nr : NoBackup(nr) => NoBackup(nr)'
  BY DEF SfxShown, NoBackup, fs
<1>3. SfxFilesTyped'
  BY <1>1 DEF SfxContent, SfxFilesTyped, fs
<1>4. SfxOneEntry' /\ SfxAcked'
  BY <1>1 DEF SfxContent, SfxOneEntry, SfxAcked
<1>5. AckedThere'
  BY DEF SfxContent, AckedThere, SfxHas, fs
<1>6. SfxKept'
  <2>1. \A u, nr : SfxBetween(u, nr) => SfxBetween(u, nr)'
    BY <1>2 DEF SfxBetween, SfxWhole, SfxPartly, fs
  <2>2. \A u, w : (SfxWorking(w, u) => SfxWorking(w, u)') /\ (SfxServing(w, u) => SfxServing(w, u)')
    BY <1>2 DEF SfxWorking, SfxServing, SfxWhole, fs
  <2> QED
    BY <1>1, <1>2, <2>1, <2>2 DEF SfxKept, SfxContent
<1> QED
  BY <1>3, <1>4, <1>5, <1>6 DEF SfxContent

(* A step behind the gate that changes hidden files only. *)
LEMMA HiddenKeeps ==
  ASSUME SfxIInv, SfxFilesTyped', SfxShown' = SfxShown, workers = {}, SfxUnfinished = {},
         UNCHANGED <<sfxUp, refused, sfxJournal, workers, acked, want>>
  PROVE  SfxContent'
<1>1. SfxRequestsTyped /\ SfxOneEntry /\ SfxKept /\ SfxAcked /\ AckedThere
  BY DEF SfxIInv
<1>2. SfxNewest' = SfxNewest /\ SfxUnfinished' = SfxUnfinished /\ Plans' = Plans
  BY DEF SfxNewest, SfxUnfinished, Plans
<1>3. SfxOneEntry' /\ SfxAcked'
  BY <1>1, <1>2 DEF SfxOneEntry, SfxAcked
<1>4. SfxKept'
  BY <1>1, <1>2 DEF SfxKept
<1>5. AckedThere'
  BY <1>1, AckedStay
<1> QED
  BY <1>3, <1>4, <1>5 DEF SfxContent

(* The staged file of a request goes. *)
LEMMA DiscardHides ==
  ASSUME SfxFilesTyped, NEW m \in SfxMutations, Discard(m), UNCHANGED <<sfxDirs, want, sfxJournal>>
  PROVE  SfxFilesTyped' /\ SfxShown' = SfxShown
<1>1. CASE m.op = "publish_upload"
  <2> DEFINE s == StagePath(m)
  <2>1. sfxFiles' = Without(sfxFiles, {s})
    BY <1>1 DEF Discard
  <2>2. s[2][1] = "stage"
    BY DEF StagePath
  <2> HIDE DEF s
  <2>3. s[2][1] # "file"
    BY <2>2
  <2> QED
    BY <2>1, <2>3, WithoutTyped, VisibleHidden DEF SfxShown
<1>2. CASE m.op # "publish_upload"
  BY <1>2, FilesStay DEF Discard
<1> QED
  BY <1>1, <1>2

(* Where a client stands. *)
LEMMA ClientFacts ==
  ASSUME SfxIInv, NEW c \in SfxClients
  PROVE  /\ req[c].m \in SfxMutations /\ req[c].j \in Nat /\ c # NoOne
         /\ req[c].pc # "idle" => sfxUp = "up"
         /\ req[c].pc \in {"resolve", "plan"} => workers = {} /\ SfxUnfinished = {}
         /\ req[c].pc \in {"resolve", "plan", "begin", "run"} => sfxGate = c /\ ~refused
         /\ req[c].pc \in {"idle", "wait"} => sfxGate # c
  BY SfxAssumption DEF SfxIInv, SfxRequestsTyped, SfxPhased, SfxIdle

(* A request is submitted. *)
LEMMA SubmitKeeps ==
  ASSUME SfxIInv, NEW c \in SfxClients, NEW m \in SfxRequests, SfxSubmit(c, m)
  PROVE  SfxIInv'
<1>1. SfxRequestsTyped /\ SfxPhased /\ SfxContent
  BY DEF SfxIInv, SfxContent
<1>2. SfxContent'
  BY <1>1, QuietKeeps DEF SfxSubmit
<1>3. SfxRequestsTyped'
  BY <1>1, SfxRequestsAre DEF SfxRequestsTyped, SfxSubmit, fs
<1>4. SfxPhased'
  BY <1>1, ClientFacts DEF SfxPhased, SfxRequestsTyped, SfxSubmit, fs, SfxNewest, SfxUnfinished, NoBackup
<1> QED
  BY <1>2, <1>3, <1>4 DEF SfxIInv, SfxContent

(* An upload is staged before the gate is asked for. *)
LEMMA UploadKeeps ==
  ASSUME SfxIInv, NEW c \in SfxClients, NEW p \in SfxPaths, NEW policy \in Policies, SfxUpload(c, p, policy)
  PROVE  SfxIInv'
<1> DEFINE m == [SfxPlan EXCEPT !.op = "publish_upload", !.dst = p, !.n = sfxOps + 1, !.policy = policy]
           s == StagePath(m)
<1>1. SfxRequestsTyped /\ SfxPhased /\ SfxFilesTyped /\ SfxOneEntry /\ SfxKept /\ SfxAcked /\ AckedThere
  BY DEF SfxIInv
<1>2. p \in SfxFilePaths /\ sfxOps + 1 \in Nat /\ policy \in {"rename", "overwrite", "skip"}
  BY <1>1, SfxAssumption DEF SfxPaths, SfxFilePaths, SfxRequestsTyped
<1>3. m \in SfxMutations /\ m.dst = p /\ m.n = sfxOps + 1
  BY <1>2, SfxRequestsAre DEF SfxMutations, SfxAllOps
<1>4. /\ req' = [req EXCEPT ![c] = [pc |-> "wait", m |-> m, j |-> 0]]
      /\ sfxFiles' = SfxPut(sfxFiles, s, m.n) /\ sfxOps' = sfxOps + 1
      /\ UNCHANGED <<sfxUp, refused, sfxDirs, sfxJournal, sfxGate, workers, cancels, acked, want>>
      /\ p[1] \in sfxDirs /\ req[c].pc = "idle" /\ sfxUp = "up"
  BY DEF SfxUpload
<1>5. s \in SfxAnyPaths /\ s[2][1] = "stage" /\ s[2][2] = m.n /\ s[1] = p[1]
  BY <1>3, UploadPaths DEF SfxMutations
<1> HIDE DEF s, m
<1>6. s[2][1] # "file" /\ s[2][1] # "backup" /\ s[1] \in sfxDirs
  BY <1>4, <1>5
<1>7. SfxFilesTyped' /\ (\A nr : NoBackup(nr) => NoBackup(nr)')
  BY <1>1, <1>4, <1>5, <1>6, PutTyped
<1>8. SfxShown' = SfxShown
  BY <1>4, <1>6, VisibleHidden DEF SfxShown
<1>9. DOMAIN sfxFiles \subseteq DOMAIN sfxFiles'
  BY <1>4 DEF SfxPut
<1>10. SfxNewest' = SfxNewest /\ SfxUnfinished' = SfxUnfinished /\ Plans' = Plans
  BY <1>4 DEF SfxNewest, SfxUnfinished, Plans
<1>11. SfxRequestsTyped'
  BY <1>1, <1>2, <1>3, <1>4 DEF SfxRequestsTyped
<1>12. SfxPhased'
  BY <1>1, <1>4, <1>7, <1>10, ClientFacts DEF SfxPhased, SfxRequestsTyped
<1>13. SfxOneEntry' /\ SfxAcked'
  BY <1>1, <1>4, <1>10 DEF SfxOneEntry, SfxAcked
<1>14. SfxKept'
  <2>1. \A u, nr : SfxBetween(u, nr) => SfxBetween(u, nr)'
    BY <1>4, <1>7, <1>8, <1>9 DEF SfxBetween, SfxWhole, SfxPartly
  <2>2. \A u, w : (SfxWorking(w, u) => SfxWorking(w, u)') /\ (SfxServing(w, u) => SfxServing(w, u)')
    BY <1>4, <1>7, <1>8 DEF SfxWorking, SfxServing, SfxWhole
  <2> QED
    BY <1>1, <1>4, <1>8, <1>10, <2>1, <2>2 DEF SfxKept
<1>15. AckedThere'
  BY <1>1, <1>4, <1>8, AckedStay
<1> QED
  BY <1>7, <1>11, <1>12, <1>13, <1>14, <1>15 DEF SfxIInv

(* A request takes the gate. *)
LEMMA AcquireKeeps ==
  ASSUME SfxIInv, NEW c \in SfxClients, SfxAcquire(c)
  PROVE  SfxIInv'
<1>1. SfxRequestsTyped /\ SfxPhased /\ SfxContent
  BY DEF SfxIInv, SfxContent
<1>2. UNCHANGED <<sfxUp, refused, fs, sfxJournal, workers, acked, want, sfxOps, cancels>> /\ req[c].pc = "wait"
  BY DEF SfxAcquire, sfxBounds
<1>3. SfxContent'
  BY <1>1, <1>2, QuietKeeps
<1>4. sfxGate # c /\ sfxUp = "up"
  BY <1>2, ClientFacts
<1>5. SfxNewest' = SfxNewest /\ SfxUnfinished' = SfxUnfinished /\ (\A nr : NoBackup(nr)' <=> NoBackup(nr))
  BY <1>2 DEF SfxNewest, SfxUnfinished, NoBackup, fs
<1>6. CASE refused /\ Answer(c)
  <2>1. req' = [req EXCEPT ![c] = SfxIdle] /\ sfxGate' = sfxGate
    BY <1>4, <1>6 DEF Answer
  <2>2. SfxRequestsTyped'
    BY <1>1, <1>2, <2>1, SfxRequestsAre DEF SfxRequestsTyped, SfxIdle
  <2>3. SfxPhased'
    BY <1>1, <1>2, <1>4, <1>5, <2>1 DEF SfxPhased, SfxRequestsTyped, SfxIdle
  <2> QED
    BY <1>3, <2>2, <2>3 DEF SfxIInv, SfxContent
<1>7. CASE ~refused /\ sfxGate = NoOne /\ sfxGate' = c /\ (\E pc \in {"resolve", "plan"} : SfxAt(c, pc))
  <2>1. PICK pc \in {"resolve", "plan"} : req' = [req EXCEPT ![c].pc = pc]
    BY <1>7 DEF SfxAt
  <2>2. SfxRequestsTyped'
    BY <1>1, <1>2, <1>7, <2>1 DEF SfxRequestsTyped
  <2>3. workers = {} /\ SfxUnfinished = {} /\ \A d \in SfxClients : req[d].pc \in {"idle", "wait"}
    BY <1>1, <1>4, <1>7, SfxAssumption DEF SfxPhased
  <2>4. req'[c].pc = pc /\ \A d \in SfxClients : d # c => req'[d] = req[d]
    BY <1>1, <2>1 DEF SfxRequestsTyped
  <2>5. SfxPhased'
    BY <1>1, <1>2, <1>4, <1>5, <1>7, <2>3, <2>4, SfxAssumption DEF SfxPhased
  <2> QED
    BY <1>3, <2>2, <2>5 DEF SfxIInv, SfxContent
<1> QED
  BY <1>6, <1>7 DEF SfxAcquire

(* A client that is answered. *)
LEMMA AnswerFacts ==
  ASSUME SfxIInv, NEW c \in SfxClients, sfxGate = c, Answer(c)
  PROVE  /\ sfxGate' = NoOne /\ req' \in [SfxClients -> [pc : {"idle", "wait", "resolve", "plan", "begin", "run"},
                                                          m : SfxMutations, j : Nat]]
         /\ \A d \in SfxClients : req'[d].pc \in {"idle", "wait"}
<1>1. req' = [req EXCEPT ![c] = SfxIdle] /\ sfxGate' = NoOne
  BY DEF Answer
<1>2. SfxIdle.pc = "idle" /\ SfxIdle \in [pc : {"idle", "wait", "resolve", "plan", "begin", "run"}, m : SfxMutations, j : Nat]
  BY SfxRequestsAre DEF SfxIdle
<1>3. \A d \in SfxClients : d # c => req[d].pc \in {"idle", "wait"}
  BY DEF SfxIInv, SfxPhased
<1> QED
  BY <1>1, <1>2, <1>3 DEF SfxIInv, SfxRequestsTyped

(* Nobody is behind the gate of a server that is up. *)
LEMMA NobodyAtGate ==
  ASSUME sfxUp' = "up", sfxGate' = NoOne, workers' = {}, ~refused' => SfxUnfinished' = {},
         \A d \in SfxClients : req'[d].pc \in {"idle", "wait"}
  PROVE  SfxPhased'
BY SfxAssumption DEF SfxPhased

(* The name of an upload is resolved behind the gate. *)
LEMMA ResolveKeeps ==
  ASSUME SfxIInv, NEW c \in SfxClients, ResolveUpload(c)
  PROVE  SfxIInv'
<1>1. SfxRequestsTyped /\ SfxPhased /\ SfxContent /\ SfxFilesTyped
  BY DEF SfxIInv, SfxContent
<1>2. UNCHANGED <<sfxUp, refused, sfxDirs, sfxJournal, workers, acked, want, sfxOps, cancels>> /\ req[c].pc = "resolve"
  BY DEF ResolveUpload, sfxBounds
<1>3. /\ sfxGate = c /\ sfxUp = "up" /\ ~refused /\ workers = {} /\ SfxUnfinished = {} /\ c # NoOne
      /\ req[c].m \in SfxMutations
  BY <1>2, ClientFacts
<1>4. SfxNewest' = SfxNewest /\ SfxUnfinished' = SfxUnfinished
  BY <1>2 DEF SfxNewest, SfxUnfinished
<1>5. ASSUME UNCHANGED <<sfxFiles, sfxGate>>, NEW u \in SfxMutations,
             req' = [req EXCEPT ![c] = [pc |-> "plan", m |-> u, j |-> 0]]
      PROVE  SfxIInv'
  <2>1. SfxContent'
    BY <1>1, <1>2, <1>5, QuietKeeps DEF fs
  <2>2. SfxRequestsTyped'
    BY <1>1, <1>2, <1>5 DEF SfxRequestsTyped
  <2>3. req'[c].pc = "plan" /\ \A d \in SfxClients : d # c => req'[d] = req[d] /\ req[d].pc \in {"idle", "wait"}
    BY <1>1, <1>3, <1>5 DEF SfxRequestsTyped, SfxPhased
  <2>4. SfxPhased'
    BY <1>2, <1>3, <1>4, <1>5, <2>3 DEF SfxPhased
  <2> QED
    BY <2>1, <2>2, <2>4 DEF SfxIInv, SfxContent
<1>6. CASE Discard(req[c].m) /\ Answer(c)
  <2>1. SfxFilesTyped' /\ SfxShown' = SfxShown
    BY <1>1, <1>2, <1>3, <1>6, DiscardHides
  <2>2. SfxContent'
    BY <1>2, <1>3, <2>1, HiddenKeeps
  <2>3. /\ sfxGate' = NoOne /\ req' \in [SfxClients -> [pc : {"idle", "wait", "resolve", "plan", "begin", "run"},
                                                          m : SfxMutations, j : Nat]]
        /\ \A d \in SfxClients : req'[d].pc \in {"idle", "wait"}
    BY <1>3, <1>6, AnswerFacts
  <2>4. SfxRequestsTyped'
    BY <1>1, <1>2, <2>3 DEF SfxRequestsTyped
  <2>5. SfxPhased'
    BY <1>2, <1>3, <1>4, <2>3, NobodyAtGate
  <2> QED
    BY <2>2, <2>4, <2>5 DEF SfxIInv, SfxContent
<1>7. ASSUME NEW f \in BOOLEAN, UNCHANGED <<sfxFiles, sfxGate>>,
             req' = [req EXCEPT ![c] = [pc |-> "plan", m |-> [req[c].m EXCEPT !.flag = f], j |-> 0]]
      PROVE  SfxIInv'
  <2>1. [req[c].m EXCEPT !.flag = f] \in SfxMutations
    BY <1>3 DEF SfxMutations
  <2> QED
    BY <1>5, <1>7, <2>1
<1>8. ASSUME NEW k \in SfxNames, UNCHANGED <<sfxFiles, sfxGate>>,
             req' = [req EXCEPT ![c] = [pc |-> "plan", j |-> 0,
                                        m |-> [req[c].m EXCEPT !.dst = <<req[c].m.dst[1], <<"file", k>>>>]]]
      PROVE  SfxIInv'
  <2> DEFINE q == <<req[c].m.dst[1], <<"file", k>>>>
  <2>1. q \in SfxFilePaths
    BY <1>3, SfxAssumption DEF SfxMutations, SfxFilePaths
  <2>2. [req[c].m EXCEPT !.dst = q] \in SfxMutations
    BY <1>3, <2>1 DEF SfxMutations
  <2> QED
    BY <1>5, <1>8, <2>2
<1> QED
  <2>1. CASE Discard(req[c].m) /\ Answer(c)
    BY <1>6, <2>1
  <2>2. CASE /\ UNCHANGED <<sfxFiles, sfxGate>>
             /\ \E f \in BOOLEAN :
                  req' = [req EXCEPT ![c] = [pc |-> "plan", m |-> [req[c].m EXCEPT !.flag = f], j |-> 0]]
    BY <1>7, <2>2
  <2>3. CASE /\ UNCHANGED <<sfxFiles, sfxGate>>
             /\ \E k \in SfxNames :
                  req' = [req EXCEPT ![c] = [pc |-> "plan", j |-> 0,
                                             m |-> [req[c].m EXCEPT !.dst = <<req[c].m.dst[1], <<"file", k>>>>]]]
    BY <1>8, <2>3
  <2> QED
    BY <2>1, <2>2, <2>3 DEF ResolveUpload

(* A mutation that has not begun. *)
LEMMA FreshBetween ==
  ASSUME NEW m, NEW nr, SfxShown = want, NoBackup(nr)
  PROVE  SfxBetween(m, nr)
BY DEF SfxBetween, SfxWhole, SfxPartly

(* The entry is planned. *)
LEMMA SfxCreateJournalKeeps ==
  ASSUME SfxIInv, NEW c \in SfxClients, SfxCreateJournal(c)
  PROVE  SfxIInv'
<1>1. SfxRequestsTyped /\ SfxPhased /\ SfxContent /\ SfxFilesTyped /\ SfxOneEntry /\ SfxKept /\ SfxAcked /\ AckedThere
  BY DEF SfxIInv, SfxContent
<1>2. UNCHANGED <<sfxUp, refused, sfxDirs, workers, acked, want, sfxOps, cancels>> /\ req[c].pc = "plan"
  BY DEF SfxCreateJournal
<1>3. /\ sfxGate = c /\ sfxUp = "up" /\ ~refused /\ workers = {} /\ SfxUnfinished = {} /\ c # NoOne
      /\ req[c].m \in SfxMutations
  BY <1>2, ClientFacts
<1>4. SfxShown = want
  BY <1>1, <1>3 DEF SfxKept
<1>5. CASE /\ sfxJournal' = Append(sfxJournal, [m |-> req[c].m, state |-> "planned"])
           /\ req' = [req EXCEPT ![c] = [pc |-> "begin", m |-> req[c].m, j |-> Len(sfxJournal) + 1]]
           /\ UNCHANGED <<sfxFiles, sfxGate>>
  <2> PICK e : e = [m |-> req[c].m, state |-> "planned"]
    OBVIOUS
  <2> PICK n : n = SfxNewest + 1
    OBVIOUS
  <2>1. e \in SfxEntries /\ e.m = req[c].m /\ e.state = "planned"
    BY <1>3 DEF SfxEntries
  <2>2. sfxJournal \in Seq(SfxEntries) /\ SfxNewest \in Nat /\ DOMAIN sfxJournal = 1..SfxNewest
    BY <1>1, JournalFacts
  <2>3. /\ sfxJournal' \in Seq(SfxEntries) /\ SfxNewest' = n /\ DOMAIN sfxJournal' = 1..n
        /\ sfxJournal'[n] = e /\ \A k \in DOMAIN sfxJournal : sfxJournal'[k] = sfxJournal[k]
    BY <1>5, <2>1, <2>2 DEF SfxNewest
  <2>4. SfxUnfinished' = {n}
    <3>1. \A k \in DOMAIN sfxJournal : sfxJournal[k].state \in SfxFinished
      BY <1>3 DEF SfxUnfinished
    <3>2. "planned" \notin SfxFinished
      BY DEF SfxFinished
    <3> QED
      BY <2>1, <2>2, <2>3, <3>1, <3>2 DEF SfxUnfinished
  <2>5. SfxShown' = SfxShown
    BY <1>5 DEF SfxShown
  <2>6. NoBackup(n)'
    <3> SUFFICES ASSUME NEW p \in DOMAIN sfxFiles, p[2] = <<"backup", n>> PROVE FALSE
      BY <1>5 DEF NoBackup
    <3>1. p[2][1] = "backup" /\ p[2][2] = n
      OBVIOUS
    <3>2. n <= SfxNewest
      BY <1>1, <3>1 DEF SfxFilesTyped
    <3> QED
      BY <2>2, <3>2
  <2>7. SfxFilesTyped'
    <3>1. \A p \in DOMAIN sfxFiles : p[2][1] = "backup" => p[2][2] <= n
      <4> SUFFICES ASSUME NEW p \in DOMAIN sfxFiles, p[2][1] = "backup" PROVE p[2][2] <= n
        OBVIOUS
      <4>1. p[2][2] <= SfxNewest /\ p \in SfxAnyPaths
        BY <1>1 DEF SfxFilesTyped, IsTree
      <4>2. p[2][2] \in Nat
        BY <4>1 DEF SfxAnyPaths
      <4> QED
        BY <2>2, <4>1, <4>2
    <3> QED
      BY <1>1, <1>2, <1>5, <2>3, <3>1 DEF SfxFilesTyped
  <2>8. SfxRequestsTyped'
    <3>1. req' \in [SfxClients -> [pc : {"idle", "wait", "resolve", "plan", "begin", "run"}, m : SfxMutations, j : Nat]]
      BY <1>1, <1>5, <2>2 DEF SfxRequestsTyped, SfxNewest
    <3> QED
      BY <1>1, <1>2, <1>5, <2>3, <3>1 DEF SfxRequestsTyped, SfxEntries
  <2>9. SfxOneEntry' /\ SfxAcked'
    BY <1>1, <1>2, <1>3, <2>2, <2>3, <2>4 DEF SfxOneEntry, SfxAcked
  <2>10. SfxKept'
    <3>1. SfxBetween(e.m, n)'
      <4>1. SfxShown' = want'
        BY <1>2, <1>4, <2>5
      <4> QED
        BY <2>6, <4>1 DEF SfxBetween, SfxWhole, SfxPartly
    <3>2. SfxBetween(sfxJournal[SfxNewest].m, SfxNewest)'
      BY <2>1, <2>3, <3>1
    <3> QED
      BY <1>2, <1>3, <1>4, <2>4, <2>5, <3>2 DEF SfxKept
  <2>11. AckedThere'
    BY <1>1, <1>2, <2>2, <2>3, <2>5, AckedStay
  <2>12. /\ req'[c].pc = "begin" /\ req'[c].j = n /\ req'[c].m = req[c].m
         /\ \A d \in SfxClients : d # c => req'[d] = req[d] /\ req[d].pc \in {"idle", "wait"}
    BY <1>1, <1>3, <1>5 DEF SfxRequestsTyped, SfxPhased, SfxNewest
  <2>13. SfxPhased'
    <3>1. n > 0 /\ sfxUp' = "up" /\ sfxGate' = c /\ workers' = {} /\ ~refused'
      BY <1>2, <1>3, <1>5, <2>2
    <3>2. sfxJournal'[SfxNewest'].m = req'[c].m /\ sfxJournal'[SfxNewest'].state = "planned"
      BY <2>1, <2>3, <2>12
    <3>3. NoBackup(SfxNewest)'
      BY <2>3, <2>6
    <3> QED
      BY <1>3, <2>3, <2>12, <3>1, <3>2, <3>3 DEF SfxPhased
  <2> QED
    BY <2>7, <2>8, <2>9, <2>10, <2>11, <2>13 DEF SfxIInv
<1>6. CASE Discard(req[c].m) /\ Answer(c) /\ UNCHANGED sfxJournal
  <2>1. SfxFilesTyped' /\ SfxShown' = SfxShown
    BY <1>1, <1>2, <1>3, <1>6, DiscardHides
  <2>2. SfxContent'
    BY <1>2, <1>3, <1>6, <2>1, HiddenKeeps
  <2>3. /\ sfxGate' = NoOne /\ req' \in [SfxClients -> [pc : {"idle", "wait", "resolve", "plan", "begin", "run"},
                                                          m : SfxMutations, j : Nat]]
        /\ \A d \in SfxClients : req'[d].pc \in {"idle", "wait"}
    BY <1>3, <1>6, AnswerFacts
  <2>4. SfxRequestsTyped'
    BY <1>1, <1>2, <1>6, <2>3 DEF SfxRequestsTyped
  <2>5. SfxUnfinished' = {}
    BY <1>3, <1>6 DEF SfxUnfinished
  <2>6. SfxPhased'
    BY <1>2, <1>3, <2>3, <2>5, NobodyAtGate
  <2> QED
    BY <2>2, <2>4, <2>6 DEF SfxIInv, SfxContent
<1> QED
  BY <1>5, <1>6 DEF SfxCreateJournal

(* An entry that is applied is a worker's. *)
LEMMA MarkKeeps ==
  ASSUME SfxIInv, NEW w \in SfxWorkers, w.j = SfxNewest, SfxNewest > 0, w.pc = 0, w.res = "none",
         workers = {}, workers' = {w}, SfxUnfinished = {SfxNewest},
         sfxJournal' = [sfxJournal EXCEPT ![SfxNewest].state = "applying"],
         UNCHANGED <<sfxUp, refused, fs, acked, want>>,
         ~w.replay => SfxShown = want /\ NoBackup(SfxNewest)
  PROVE  /\ SfxContent' /\ sfxJournal' \in Seq(SfxEntries) /\ SfxUnfinished' = SfxUnfinished
         /\ SfxNewest' = SfxNewest /\ sfxJournal'[SfxNewest].m = sfxJournal[SfxNewest].m
<1> PICK n : n = SfxNewest
  OBVIOUS
<1>1. SfxRequestsTyped /\ SfxFilesTyped /\ SfxOneEntry /\ SfxKept /\ SfxAcked /\ AckedThere
  BY DEF SfxIInv
<1>2. n \in DOMAIN sfxJournal /\ n \in Nat
  BY <1>1, JournalFacts
<1>3. "applying" \in {"planned", "applying", "committed", "failed"} /\ "applying" \notin SfxFinished
  BY DEF SfxFinished
<1>4. sfxJournal' = [sfxJournal EXCEPT ![n].state = "applying"]
  OBVIOUS
<1>5. sfxJournal' \in Seq(SfxEntries) /\ SfxNewest' = n /\ DOMAIN sfxJournal' = DOMAIN sfxJournal /\ Plans' = Plans
  BY <1>1, <1>2, <1>3, <1>4, JournalMarked
<1>6. \A k \in DOMAIN sfxJournal :
        /\ sfxJournal'[k].m = sfxJournal[k].m
        /\ sfxJournal'[k].state = IF k = n THEN "applying" ELSE sfxJournal[k].state
  BY <1>1, <1>2, <1>3, <1>4, JournalMarked
<1>7. SfxUnfinished' = SfxUnfinished
  BY <1>1, <1>2, <1>3, <1>4, MarkedUnfinished
<1>8. SfxShown' = SfxShown /\ \A nr : NoBackup(nr) => NoBackup(nr)'
  BY DEF SfxShown, NoBackup, fs
<1>9. SfxFilesTyped'
  BY <1>1, <1>5 DEF SfxFilesTyped, fs
<1>10. SfxOneEntry'
  BY <1>2, <1>5, <1>6, <1>7 DEF SfxOneEntry
<1>11. SfxAcked'
  <2>1. n \notin acked
    BY <1>1, <1>2, JournalFacts DEF SfxAcked
  <2> QED
    BY <1>1, <1>5, <1>6, <2>1 DEF SfxAcked
<1>12. AckedThere'
  BY <1>1, <1>5, <1>6, <1>8, AckedStay
<1>13. SfxKept'
  <2> PICK m : m = sfxJournal[n].m
    OBVIOUS
  <2>1. m = sfxJournal'[n].m
    BY <1>2, <1>6
  <2>2. SfxBetween(m, n)
    BY <1>1 DEF SfxKept
  <2>3. SfxBetween(m, n)'
    BY <1>8, <2>2 DEF SfxBetween, SfxWhole, SfxPartly, fs
  <2>4. SfxWorking(w, m)'
    BY DEF SfxWorking
  <2>5. ~w.replay => SfxServing(w, m)'
    BY <1>8 DEF SfxServing
  <2>6. SfxBetween(sfxJournal[SfxNewest].m, SfxNewest)'
    BY <1>5, <2>1, <2>3
  <2>7. \A u \in workers' : SfxWorking(u, sfxJournal[u.j].m)' /\ (~u.replay => SfxServing(u, sfxJournal[u.j].m)')
    BY <2>1, <2>4, <2>5
  <2> QED
    BY <1>7, <2>6, <2>7 DEF SfxKept
<1> QED
  BY <1>2, <1>5, <1>6, <1>7, <1>9, <1>10, <1>11, <1>12, <1>13 DEF SfxContent

(* The entry is applied, by a worker. *)
LEMMA BeginKeeps ==
  ASSUME SfxIInv, NEW c \in SfxClients, BeginApply(c)
  PROVE  SfxIInv'
<1>1. SfxRequestsTyped /\ SfxPhased /\ SfxContent /\ SfxFilesTyped /\ SfxOneEntry /\ SfxKept /\ SfxAcked /\ AckedThere
  BY DEF SfxIInv, SfxContent
<1>2. UNCHANGED <<sfxUp, fs, acked, want, sfxOps, cancels>> /\ req[c].pc = "begin"
  BY DEF BeginApply
<1>3. sfxGate = c /\ sfxUp = "up" /\ ~refused /\ c # NoOne
  BY <1>2, ClientFacts
<1>4. /\ workers = {} /\ req[c].j = SfxNewest /\ SfxNewest > 0 /\ sfxJournal[SfxNewest].m = req[c].m
      /\ NoBackup(SfxNewest) /\ sfxJournal[SfxNewest].state = "planned"
  BY <1>1, <1>2 DEF SfxPhased
<1>5. SfxShown = want
  BY <1>1, <1>3, <1>4 DEF SfxKept
<1>6. SfxNewest \in DOMAIN sfxJournal /\ SfxUnfinished = {SfxNewest} /\ SfxNewest \in Nat
  BY <1>1, <1>4, JournalFacts DEF SfxOneEntry
<1>7. CASE /\ sfxJournal' = [sfxJournal EXCEPT ![req[c].j].state = "applying"] /\ SfxAt(c, "run")
           /\ workers' = workers \cup {[j |-> req[c].j, pc |-> 0, replay |-> FALSE, res |-> "none"]}
           /\ UNCHANGED <<refused, sfxGate>>
  <2> PICK w : w = [j |-> SfxNewest, pc |-> 0, replay |-> FALSE, res |-> "none"]
    OBVIOUS
  <2>1. w \in SfxWorkers /\ w.j = SfxNewest /\ w.pc = 0 /\ w.res = "none" /\ w.replay = FALSE
    BY <1>6 DEF SfxWorkers
  <2>2. workers' = {w} /\ sfxJournal' = [sfxJournal EXCEPT ![SfxNewest].state = "applying"]
    BY <1>4, <1>7
  <2>3. /\ SfxContent' /\ sfxJournal' \in Seq(SfxEntries) /\ SfxUnfinished' = SfxUnfinished
        /\ SfxNewest' = SfxNewest /\ sfxJournal'[SfxNewest].m = sfxJournal[SfxNewest].m
    BY <1>2, <1>4, <1>5, <1>6, <1>7, <2>1, <2>2, MarkKeeps
  <2>4. req' = [req EXCEPT ![c].pc = "run"]
    BY <1>7 DEF SfxAt
  <2>5. SfxRequestsTyped'
    <3>1. req' \in [SfxClients -> [pc : {"idle", "wait", "resolve", "plan", "begin", "run"}, m : SfxMutations, j : Nat]]
      BY <1>1, <2>4 DEF SfxRequestsTyped
    <3> QED
      BY <1>1, <1>2, <1>7, <2>1, <2>2, <2>3, <3>1 DEF SfxRequestsTyped, SfxWorkers, SfxEntries
  <2>6. /\ req'[c].pc = "run" /\ req'[c].j = req[c].j /\ req'[c].m = req[c].m
        /\ \A d \in SfxClients : d # c => req'[d] = req[d] /\ req[d].pc \in {"idle", "wait"}
    BY <1>1, <1>3, <2>4 DEF SfxRequestsTyped, SfxPhased
  <2>7. SfxPhased'
    BY <1>2, <1>3, <1>4, <1>7, <2>1, <2>2, <2>3, <2>6 DEF SfxPhased
  <2> QED
    BY <2>3, <2>5, <2>7 DEF SfxIInv, SfxContent
<1>8. CASE refused' = TRUE /\ Answer(c) /\ UNCHANGED <<sfxJournal, workers>>
  <2>1. /\ sfxGate' = NoOne /\ req' \in [SfxClients -> [pc : {"idle", "wait", "resolve", "plan", "begin", "run"},
                                                          m : SfxMutations, j : Nat]]
        /\ \A d \in SfxClients : req'[d].pc \in {"idle", "wait"}
    BY <1>3, <1>8, AnswerFacts
  <2>2. SfxRequestsTyped'
    BY <1>1, <1>2, <1>8, <2>1 DEF SfxRequestsTyped
  <2>3. SfxPhased'
    BY <1>2, <1>3, <1>4, <1>8, <2>1, NobodyAtGate
  <2>4. SfxNewest' = SfxNewest /\ SfxUnfinished' = SfxUnfinished /\ Plans' = Plans
    BY <1>8 DEF SfxNewest, SfxUnfinished, Plans
  <2>5. SfxShown' = SfxShown /\ \A nr : NoBackup(nr) => NoBackup(nr)'
    BY <1>2 DEF SfxShown, NoBackup, fs
  <2>6. SfxFilesTyped' /\ SfxOneEntry' /\ SfxAcked'
    BY <1>1, <1>2, <1>8, <2>4 DEF SfxFilesTyped, SfxOneEntry, SfxAcked, fs
  <2>7. AckedThere'
    BY <1>1, <1>2, <1>8, <2>5, AckedStay
  <2>8. SfxKept'
    <3>1. \A u, nr : SfxBetween(u, nr) => SfxBetween(u, nr)'
      BY <1>2, <2>5 DEF SfxBetween, SfxWhole, SfxPartly, fs
    <3> QED
      BY <1>1, <1>2, <1>4, <1>8, <2>4, <2>5, <3>1 DEF SfxKept
  <2> QED
    BY <2>2, <2>3, <2>6, <2>7, <2>8 DEF SfxIInv
<1> QED
  BY <1>7, <1>8 DEF BeginApply

(* The process ends. *)
LEMMA DownKeeps ==
  ASSUME SfxIInv, Down, UNCHANGED <<refused, fs, sfxJournal, sfxOps, cancels, acked, want>>
  PROVE  SfxIInv'
<1>1. SfxRequestsTyped /\ SfxPhased /\ SfxFilesTyped /\ SfxOneEntry /\ SfxKept /\ SfxAcked /\ AckedThere
  BY DEF SfxIInv
<1>2. sfxUp' = "down" /\ sfxGate' = NoOne /\ req' = [c \in SfxClients |-> SfxIdle] /\ workers' = {}
  BY DEF Down
<1>3. SfxRequestsTyped'
  BY <1>1, <1>2, SfxRequestsAre DEF SfxRequestsTyped, SfxIdle
<1>4. SfxNewest' = SfxNewest /\ SfxUnfinished' = SfxUnfinished /\ Plans' = Plans
  BY DEF SfxNewest, SfxUnfinished, Plans
<1>5. SfxShown' = SfxShown /\ \A nr : NoBackup(nr) => NoBackup(nr)'
  BY DEF SfxShown, NoBackup, fs
<1>6. SfxFilesTyped' /\ SfxOneEntry' /\ SfxAcked'
  BY <1>1, <1>2, <1>4 DEF SfxFilesTyped, SfxOneEntry, SfxAcked, fs
<1>7. AckedThere'
  BY <1>1, <1>5, AckedStay
<1>8. SfxKept'
  <2>1. \A u, nr : SfxBetween(u, nr) => SfxBetween(u, nr)'
    BY <1>5 DEF SfxBetween, SfxWhole, SfxPartly, fs
  <2> QED
    BY <1>1, <1>2, <1>4, <1>5, <2>1 DEF SfxKept
<1>9. SfxPhased'
  BY <1>2, SfxAssumption DEF SfxPhased, SfxIdle
<1> QED
  BY <1>3, <1>6, <1>7, <1>8, <1>9 DEF SfxIInv

(* The process starts. *)
LEMMA SfxStartKeeps ==
  ASSUME SfxIInv, SfxStart
  PROVE  SfxIInv'
<1>1. SfxRequestsTyped /\ SfxPhased /\ SfxFilesTyped /\ SfxOneEntry /\ SfxKept /\ SfxAcked /\ AckedThere
  BY DEF SfxIInv
<1>2. /\ sfxUp = "down" /\ sfxUp' = "starting" /\ refused' = FALSE
      /\ UNCHANGED <<fs, sfxJournal, sfxGate, req, workers, sfxOps, cancels, acked, want>>
  BY DEF SfxStart, sfxBounds
<1>3. workers = {} /\ sfxGate = NoOne /\ req = [c \in SfxClients |-> SfxIdle]
  BY <1>1, <1>2 DEF SfxPhased
<1>4. SfxRequestsTyped'
  BY <1>1, <1>2 DEF SfxRequestsTyped
<1>5. SfxNewest' = SfxNewest /\ SfxUnfinished' = SfxUnfinished /\ Plans' = Plans
  BY <1>2 DEF SfxNewest, SfxUnfinished, Plans
<1>6. SfxShown' = SfxShown /\ \A nr : NoBackup(nr) => NoBackup(nr)'
  BY <1>2 DEF SfxShown, NoBackup, fs
<1>7. SfxFilesTyped' /\ SfxOneEntry' /\ SfxAcked'
  BY <1>1, <1>2, <1>5 DEF SfxFilesTyped, SfxOneEntry, SfxAcked, fs
<1>8. AckedThere'
  BY <1>1, <1>2, <1>6, AckedStay
<1>9. SfxKept'
  <2>1. \A u, nr : SfxBetween(u, nr) => SfxBetween(u, nr)'
    BY <1>2, <1>6 DEF SfxBetween, SfxWhole, SfxPartly, fs
  <2> QED
    BY <1>1, <1>2, <1>3, <1>5, <1>6, <2>1 DEF SfxKept
<1>10. SfxPhased'
  BY <1>2, <1>3, SfxAssumption DEF SfxPhased, SfxIdle
<1> QED
  BY <1>4, <1>7, <1>8, <1>9, <1>10 DEF SfxIInv

(* The unfinished entry is replayed before the server serves. *)
LEMMA ReplayKeeps ==
  ASSUME SfxIInv, NEW nr \in SfxUnfinished, Replay(nr)
  PROVE  SfxIInv'
<1>1. SfxRequestsTyped /\ SfxPhased /\ SfxOneEntry
  BY DEF SfxIInv
<1>2. nr = SfxNewest /\ SfxUnfinished = {SfxNewest} /\ SfxNewest \in Nat /\ SfxNewest > 0
  BY <1>1, JournalFacts DEF SfxOneEntry
<1>3. /\ sfxUp = "starting" /\ workers = {} /\ sfxJournal' = [sfxJournal EXCEPT ![SfxNewest].state = "applying"]
      /\ workers' = {[j |-> nr, pc |-> 0, replay |-> TRUE, res |-> "none"]}
      /\ UNCHANGED <<sfxUp, refused, fs, sfxGate, req, sfxOps, cancels, acked, want>>
  BY <1>2 DEF Replay, sfxBounds
<1> PICK w : w = [j |-> nr, pc |-> 0, replay |-> TRUE, res |-> "none"]
  OBVIOUS
<1>4. w \in SfxWorkers /\ w.j = SfxNewest /\ w.pc = 0 /\ w.res = "none" /\ w.replay = TRUE
  BY <1>2 DEF SfxWorkers
<1>5. /\ SfxContent' /\ sfxJournal' \in Seq(SfxEntries) /\ SfxUnfinished' = SfxUnfinished
      /\ SfxNewest' = SfxNewest
  BY <1>2, <1>3, <1>4, MarkKeeps
<1>6. SfxRequestsTyped'
  BY <1>1, <1>3, <1>4, <1>5 DEF SfxRequestsTyped, SfxWorkers, SfxEntries
<1>7. sfxGate = NoOne /\ req = [c \in SfxClients |-> SfxIdle]
  BY <1>1, <1>3 DEF SfxPhased
<1>8. SfxPhased'
  BY <1>3, <1>4, <1>7, SfxAssumption DEF SfxPhased, SfxIdle
<1> QED
  BY <1>5, <1>6, <1>8 DEF SfxIInv, SfxContent

(* The server serves once nothing is unfinished. *)
LEMMA ServeKeeps ==
  ASSUME SfxIInv, SfxServe, ~adrift
  PROVE  SfxIInv'
<1>1. SfxRequestsTyped /\ SfxPhased /\ SfxFilesTyped /\ SfxOneEntry /\ SfxKept /\ SfxAcked /\ AckedThere
  BY DEF SfxIInv
<1>2. /\ sfxUp = "starting" /\ workers = {} /\ SfxUnfinished = {} /\ sfxUp' = "up"
      /\ sfxFiles' = Visible(sfxFiles) /\ want' = Visible(sfxFiles)
      /\ UNCHANGED <<refused, sfxDirs, sfxJournal, sfxGate, req, workers, sfxOps, cancels, acked>>
  BY DEF SfxServe, sfxBounds, CleanupOrphans
<1>3. sfxGate = NoOne /\ req = [c \in SfxClients |-> SfxIdle]
  BY <1>1, <1>2 DEF SfxPhased
<1>4. /\ IsTree(Visible(sfxFiles)) /\ Visible(Visible(sfxFiles)) = Visible(sfxFiles)
      /\ DOMAIN Visible(sfxFiles) = {p \in DOMAIN sfxFiles : p[2][1] = "file"}
      /\ \A p \in DOMAIN Visible(sfxFiles) : Visible(sfxFiles)[p] = sfxFiles[p]
  BY <1>1, VisibleTree DEF SfxFilesTyped
<1>5. SfxNewest' = SfxNewest /\ SfxUnfinished' = SfxUnfinished
  BY <1>2 DEF SfxNewest, SfxUnfinished
<1>6. SfxShown' = SfxShown /\ SfxShown' = want'
  BY <1>2, <1>4 DEF SfxShown
<1>7. SfxRequestsTyped'
  BY <1>1, <1>2 DEF SfxRequestsTyped
<1>8. SfxFilesTyped'
  BY <1>1, <1>2, <1>4, <1>5 DEF SfxFilesTyped
<1>9. SfxOneEntry' /\ SfxAcked'
  BY <1>1, <1>2, <1>5 DEF SfxOneEntry, SfxAcked
<1>10. SfxKept'
  BY <1>2, <1>5, <1>6 DEF SfxKept
<1>11. AckedThere'
  BY <1>1, <1>2, <1>6, AckedStay
<1>12. SfxPhased'
  BY <1>2, <1>3, <1>5, NobodyAtGate DEF SfxIdle
<1> QED
  BY <1>7, <1>8, <1>9, <1>10, <1>11, <1>12 DEF SfxIInv

(* The entry of a worker that has ended is finished. *)
LEMMA FinishFacts ==
  ASSUME SfxIInv, NEW w \in workers, NEW x \in {"committed", "failed"},
         sfxJournal' = [sfxJournal EXCEPT ![w.j].state = x]
  PROVE  /\ sfxJournal' \in Seq(SfxEntries) /\ SfxUnfinished' = {} /\ SfxNewest' = SfxNewest
         /\ DOMAIN sfxJournal' = DOMAIN sfxJournal /\ Plans' = Plans /\ workers = {w}
         /\ w.j \in DOMAIN sfxJournal /\ w.j \notin acked /\ sfxJournal'[w.j].state = x
         /\ \A k \in DOMAIN sfxJournal : sfxJournal'[k].m = sfxJournal[k].m
         /\ \A k \in acked : k \in DOMAIN sfxJournal /\ sfxJournal'[k].state = "committed"
<1>1. SfxRequestsTyped /\ SfxOneEntry /\ SfxAcked
  BY DEF SfxIInv
<1> PICK nr : nr = w.j
  OBVIOUS
<1>2. nr = SfxNewest /\ nr \in DOMAIN sfxJournal /\ sfxJournal[nr].state = "applying" /\ workers = {w}
  BY <1>1, JournalFacts DEF SfxOneEntry
<1>3. x \in {"planned", "applying", "committed", "failed"} /\ x \in SfxFinished
  BY DEF SfxFinished
<1>4. sfxJournal' = [sfxJournal EXCEPT ![nr].state = x]
  OBVIOUS
<1>5. sfxJournal' \in Seq(SfxEntries) /\ SfxNewest' = SfxNewest /\ DOMAIN sfxJournal' = DOMAIN sfxJournal /\ Plans' = Plans
  BY <1>1, <1>2, <1>3, <1>4, JournalMarked
<1>6. \A k \in DOMAIN sfxJournal :
        /\ sfxJournal'[k].m = sfxJournal[k].m
        /\ sfxJournal'[k].state = IF k = nr THEN x ELSE sfxJournal[k].state
  BY <1>1, <1>2, <1>3, <1>4, JournalMarked
<1>7. SfxUnfinished' = SfxUnfinished \ {nr}
  BY <1>1, <1>2, <1>3, <1>4, MarkedUnfinished
<1>8. SfxUnfinished' = {}
  BY <1>1, <1>2, <1>7 DEF SfxOneEntry
<1>9. nr \notin acked
  BY <1>1, <1>2 DEF SfxAcked
<1> QED
  BY <1>1, <1>2, <1>5, <1>6, <1>8, <1>9 DEF SfxAcked

(* The handler settles the entry of its worker and answers. *)
LEMMA SettleKeeps ==
  ASSUME SfxIInv, NEW c \in SfxClients, NEW w \in workers, Settle(c, w)
  PROVE  SfxIInv'
<1>1. SfxRequestsTyped /\ SfxPhased /\ SfxFilesTyped /\ SfxOneEntry /\ SfxKept /\ SfxAcked /\ AckedThere
  BY DEF SfxIInv
<1>2. /\ req[c].pc = "run" /\ w.j = req[c].j /\ w.res # "none" /\ workers' = workers \ {w} /\ Answer(c)
      /\ UNCHANGED <<sfxUp, sfxDirs, sfxOps, cancels>>
  BY DEF Settle
<1>3. sfxGate = c /\ sfxUp = "up" /\ ~refused /\ c # NoOne /\ req[c].m \in SfxMutations
  BY <1>2, ClientFacts
<1>4. /\ sfxGate' = NoOne /\ req' \in [SfxClients -> [pc : {"idle", "wait", "resolve", "plan", "begin", "run"},
                                                        m : SfxMutations, j : Nat]]
      /\ \A d \in SfxClients : req'[d].pc \in {"idle", "wait"}
  BY <1>2, <1>3, AnswerFacts
<1> PICK m : m = req[c].m
  OBVIOUS
<1>5. /\ workers = {w} /\ w.j = SfxNewest /\ w.j \in DOMAIN sfxJournal /\ sfxJournal[w.j].m = m /\ workers' = {}
      /\ sfxJournal[w.j].state = "applying"
  BY <1>1, <1>2, JournalFacts DEF SfxOneEntry, SfxPhased
<1>6. SfxWorking(w, m) /\ SfxServing(w, m)
  BY <1>1, <1>3, <1>5 DEF SfxKept, SfxPhased
<1>7. CASE /\ w.res = "ok" /\ sfxJournal' = [sfxJournal EXCEPT ![w.j].state = "committed"]
           /\ acked' = acked \cup {w.j} /\ want' = SfxApply(m, want) /\ UNCHANGED <<sfxFiles, refused>>
  <2>1. /\ sfxJournal' \in Seq(SfxEntries) /\ SfxUnfinished' = {} /\ SfxNewest' = SfxNewest
        /\ DOMAIN sfxJournal' = DOMAIN sfxJournal /\ Plans' = Plans /\ sfxJournal'[w.j].state = "committed"
        /\ \A k \in DOMAIN sfxJournal : sfxJournal'[k].m = sfxJournal[k].m
        /\ \A k \in acked : k \in DOMAIN sfxJournal /\ sfxJournal'[k].state = "committed"
    BY <1>7, FinishFacts
  <2>2. SfxShown' = SfxShown /\ SfxShown = SfxApply(m, want) /\ want' = SfxShown
    BY <1>6, <1>7 DEF SfxShown, SfxServing
  <2>3. SfxRequestsTyped'
    BY <1>1, <1>2, <1>4, <1>5, <1>7, <2>1 DEF SfxRequestsTyped, SfxEntries
  <2>4. SfxFilesTyped'
    <3>1. IsTree(SfxShown) /\ Visible(SfxShown) = SfxShown
      BY <1>1, VisibleTree DEF SfxFilesTyped, SfxShown
    <3> QED
      BY <1>1, <1>2, <1>7, <2>1, <2>2, <3>1 DEF SfxFilesTyped
  <2>5. SfxOneEntry' /\ SfxAcked'
    BY <1>5, <1>7, <2>1 DEF SfxOneEntry, SfxAcked
  <2>6. SfxPhased'
    BY <1>2, <1>3, <1>4, <1>5, <2>1, NobodyAtGate
  <2>7. SfxKept'
    BY <1>5, <2>1, <2>2 DEF SfxKept
  <2>8. AckedThere'
    <3>1. \A k \in acked : UploadKept(k)'
      <4>1. \A k \in acked : UploadKept(k)
        BY <1>1 DEF AckedThere, UploadKept
      <4> QED
        BY <1>1, <2>1, <2>2, <4>1, UploadStays
    <3>2. UploadKept(w.j)'
      <4> SUFFICES ASSUME m.op = "publish_upload" PROVE SfxHas(sfxFiles', m.dst, m.n)
        BY <1>5, <2>1 DEF UploadKept, SfxHas
      <4>1. m.dst[2][1] = "file"
        BY <1>3 DEF SfxMutations, SfxFilePaths
      <4>2. m.dst \in DOMAIN SfxShown /\ SfxShown[m.dst] = m.n
        BY <2>2 DEF SfxApply, SfxPut
      <4> QED
        BY <1>7, <4>1, <4>2 DEF SfxHas, SfxShown, Visible
    <3> QED
      BY <1>7, <3>1, <3>2 DEF AckedThere, UploadKept
  <2> QED
    BY <2>3, <2>4, <2>5, <2>6, <2>7, <2>8 DEF SfxIInv
<1>8. CASE /\ w.res = "safe" /\ sfxJournal' = [sfxJournal EXCEPT ![w.j].state = "failed"]
           /\ Discard(m) /\ UNCHANGED <<refused, acked, want>>
  <2>1. /\ sfxJournal' \in Seq(SfxEntries) /\ SfxUnfinished' = {} /\ SfxNewest' = SfxNewest
        /\ DOMAIN sfxJournal' = DOMAIN sfxJournal /\ Plans' = Plans
        /\ \A k \in DOMAIN sfxJournal : sfxJournal'[k].m = sfxJournal[k].m
        /\ \A k \in acked : k \in DOMAIN sfxJournal /\ sfxJournal'[k].state = "committed"
    BY <1>8, FinishFacts
  <2>2. SfxFilesTyped' /\ SfxShown' = SfxShown
    <3>1. CASE m.op = "publish_upload"
      <4> DEFINE s == StagePath(m)
      <4>1. sfxFiles' = Without(sfxFiles, {s})
        BY <1>8, <3>1 DEF Discard
      <4>2. s[2][1] = "stage"
        BY DEF StagePath
      <4> HIDE DEF s
      <4>3. s[2][1] # "file"
        BY <4>2
      <4>4. SfxShown' = SfxShown
        BY <4>1, <4>3, VisibleHidden DEF SfxShown
      <4>5. IsTree(sfxFiles')
        BY <1>1, <4>1, WithoutTree DEF SfxFilesTyped
      <4>6. \A p \in DOMAIN sfxFiles' : p \in DOMAIN sfxFiles /\ sfxFiles'[p] = sfxFiles[p]
        BY <4>1 DEF Without
      <4> QED
        BY <1>1, <1>2, <1>8, <2>1, <4>4, <4>5, <4>6 DEF SfxFilesTyped
    <3>2. CASE m.op # "publish_upload"
      BY <1>1, <1>2, <1>8, <2>1, <3>2 DEF Discard, SfxFilesTyped, SfxShown
    <3> QED
      BY <3>1, <3>2
  <2>3. SfxRequestsTyped'
    BY <1>1, <1>2, <1>4, <1>5, <1>8, <2>1 DEF SfxRequestsTyped, SfxEntries
  <2>4. SfxOneEntry' /\ SfxAcked'
    BY <1>5, <1>8, <2>1 DEF SfxOneEntry, SfxAcked
  <2>5. SfxPhased'
    BY <1>2, <1>3, <1>4, <1>5, <2>1, NobodyAtGate
  <2>6. SfxKept'
    BY <1>5, <1>6, <1>8, <2>1, <2>2 DEF SfxKept, SfxServing
  <2>7. AckedThere'
    BY <1>1, <1>8, <2>1, <2>2, AckedStay
  <2> QED
    BY <2>2, <2>3, <2>4, <2>5, <2>6, <2>7 DEF SfxIInv
<1>9. CASE refused' = TRUE /\ UNCHANGED <<sfxFiles, sfxJournal, acked, want>>
  <2>1. SfxNewest' = SfxNewest /\ SfxUnfinished' = SfxUnfinished /\ Plans' = Plans
    BY <1>9 DEF SfxNewest, SfxUnfinished, Plans
  <2>2. SfxShown' = SfxShown /\ \A nr : NoBackup(nr) => NoBackup(nr)'
    BY <1>9 DEF SfxShown, NoBackup
  <2>3. SfxRequestsTyped'
    BY <1>1, <1>2, <1>4, <1>5, <1>9 DEF SfxRequestsTyped
  <2>4. SfxFilesTyped' /\ SfxOneEntry' /\ SfxAcked'
    BY <1>1, <1>2, <1>5, <1>9, <2>1 DEF SfxFilesTyped, SfxOneEntry, SfxAcked
  <2>5. SfxPhased'
    BY <1>2, <1>3, <1>4, <1>5, <1>9, NobodyAtGate
  <2>6. SfxKept'
    <3>1. \A u, nr : SfxBetween(u, nr) => SfxBetween(u, nr)'
      BY <1>2, <1>9, <2>2 DEF SfxBetween, SfxWhole, SfxPartly
    <3> QED
      BY <1>1, <1>5, <1>9, <2>1, <2>2, <3>1 DEF SfxKept
  <2>7. AckedThere'
    BY <1>1, <1>9, <2>2, AckedStay
  <2> QED
    BY <2>3, <2>4, <2>5, <2>6, <2>7 DEF SfxIInv
<1> QED
  BY <1>7, <1>8, <1>9 DEF Settle

(* The start settles the entry it replayed. *)
LEMMA ReplayedKeeps ==
  ASSUME SfxIInv, NEW w \in workers, Replayed(w)
  PROVE  SfxIInv'
<1>1. SfxRequestsTyped /\ SfxPhased /\ SfxFilesTyped /\ SfxOneEntry /\ SfxKept /\ SfxAcked /\ AckedThere
  BY DEF SfxIInv
<1>2. w.replay /\ w.res # "none" /\ UNCHANGED <<refused, fs, sfxOps, cancels, acked, want>>
  BY DEF Replayed
<1>3. CASE Down /\ UNCHANGED sfxJournal
  BY <1>2, <1>3, DownKeeps
<1>4. CASE /\ w.res # "bad" /\ workers' = {} /\ UNCHANGED <<sfxUp, sfxGate, req>>
           /\ \E x \in {"committed", "failed"} : sfxJournal' = [sfxJournal EXCEPT ![w.j].state = x]
  <2> PICK x \in {"committed", "failed"} : sfxJournal' = [sfxJournal EXCEPT ![w.j].state = x]
    BY <1>4
  <2>1. /\ sfxJournal' \in Seq(SfxEntries) /\ SfxUnfinished' = {} /\ SfxNewest' = SfxNewest
        /\ DOMAIN sfxJournal' = DOMAIN sfxJournal /\ Plans' = Plans /\ w.j \in DOMAIN sfxJournal
        /\ \A k \in DOMAIN sfxJournal : sfxJournal'[k].m = sfxJournal[k].m
        /\ \A k \in acked : k \in DOMAIN sfxJournal /\ sfxJournal'[k].state = "committed"
    BY FinishFacts
  <2>2. SfxShown' = SfxShown
    BY <1>2 DEF SfxShown, fs
  <2>3. sfxUp = "starting" /\ sfxGate = NoOne /\ req = [c \in SfxClients |-> SfxIdle]
    BY <1>1, <1>2 DEF SfxPhased
  <2>4. SfxRequestsTyped'
    BY <1>1, <1>2, <1>4, <2>1 DEF SfxRequestsTyped, SfxEntries
  <2>5. SfxFilesTyped' /\ SfxOneEntry' /\ SfxAcked'
    BY <1>1, <1>2, <1>4, <2>1 DEF SfxFilesTyped, SfxOneEntry, SfxAcked, fs
  <2>6. SfxPhased'
    BY <1>4, <2>3, SfxAssumption DEF SfxPhased, SfxIdle
  <2>7. SfxKept'
    <3>1. w.res \in {"ok", "safe"}
      BY <1>1, <1>2, <1>4 DEF SfxRequestsTyped
    <3>2. SfxWhole(sfxJournal[w.j].m)
      BY <1>1, <3>1 DEF SfxKept, SfxWorking
    <3>3. sfxJournal[w.j].m \in Plans
      BY <2>1 DEF Plans
    <3> QED
      BY <1>2, <1>4, <2>1, <2>2, <2>3, <3>2, <3>3 DEF SfxKept, SfxWhole
  <2>8. AckedThere'
    BY <1>1, <1>2, <2>1, <2>2, AckedStay
  <2> QED
    BY <2>4, <2>5, <2>6, <2>7, <2>8 DEF SfxIInv
<1> QED
  BY <1>3, <1>4 DEF Replayed

-----------------------------------------------------------------------------
(* What is left of the invariant while a handler was dropped behind its    *)
(* journal entry: two workers may write at the same time, and several      *)
(* entries may be unfinished.                                              *)
SfxLoose ==
  /\ SfxRequestsTyped /\ SfxFilesTyped
  /\ sfxUp # "up" => sfxGate = NoOne /\ req = [c \in SfxClients |-> SfxIdle]
  /\ \A w \in workers : w.j \in DOMAIN sfxJournal
  /\ \A c \in SfxClients : req[c].pc = "begin" => req[c].j \in DOMAIN sfxJournal

SfxAlways == SfxLoose /\ (~adrift => SfxIInv)

(* A step of a worker. *)
SfxOn(w) == \E v \in SfxWorkers : v.j = w.j /\ workers' = (workers \ {w}) \cup {v}

(* Every step of a worker ends it or brings it to its next call. *)
LEMMA OnwardOf ==
  ASSUME NEW w \in SfxWorkers
  PROVE  /\ \A r \in {"ok", "safe", "bad"} : SfxEnd(w, r) => SfxOn(w)
         /\ \A k \in 0..2 : SfxGo(w, k) => SfxOn(w)
<1>1. ASSUME NEW r \in {"ok", "safe", "bad"}, SfxEnd(w, r) PROVE SfxOn(w)
  <2>1. [w EXCEPT !.res = r] \in SfxWorkers /\ [w EXCEPT !.res = r].j = w.j
    BY DEF SfxWorkers
  <2> QED
    BY <1>1, <2>1 DEF SfxEnd, SfxOn
<1>2. ASSUME NEW k \in 0..2, SfxGo(w, k) PROVE SfxOn(w)
  <2>1. [w EXCEPT !.pc = k] \in SfxWorkers /\ [w EXCEPT !.pc = k].j = w.j
    BY DEF SfxWorkers
  <2> QED
    BY <1>2, <2>1 DEF SfxGo, SfxOn
<1> QED
  BY <1>1, <1>2

(* The folders: their files keep their types, whoever else writes. *)
LEMMA LooseFolders ==
  ASSUME SfxFilesTyped, NEW w \in SfxWorkers, NEW m \in SfxMutations, UNCHANGED <<want, sfxJournal>>,
         SfxCreateFolder(w, m) \/ SfxRenameFolder(w, m) \/ SfxDeleteFolder(w, m)
  PROVE  SfxFilesTyped' /\ SfxOn(w)
<1>1. CASE SfxCreateFolder(w, m)
  <2>1. SfxEnd(w, "ok") /\ sfxFiles' = sfxFiles /\ sfxDirs \subseteq sfxDirs'
    BY <1>1 DEF SfxCreateFolder
  <2> QED
    BY <2>1, FilesStay, OnwardOf
<1>2. CASE SfxRenameFolder(w, m)
  <2>1. CASE m.dir # m.to /\ m.dir \in sfxDirs /\ m.to \notin sfxDirs
    <3>1. /\ sfxDirs' = (sfxDirs \ {m.dir}) \cup {m.to} /\ sfxFiles' = SfxMoved(sfxFiles, m.dir, m.to)
          /\ SfxEnd(w, "ok")
      BY <1>2, <2>1 DEF SfxRenameFolder
    <3>2. m.dir \in Folders \cup {Root} /\ m.to \in Folders \cup {Root}
      BY DEF SfxMutations
    <3> QED
      BY <2>1, <3>1, <3>2, MovedTyped, OnwardOf
  <2>2. CASE ~(m.dir # m.to /\ m.dir \in sfxDirs /\ m.to \notin sfxDirs)
    <3>1. UNCHANGED fs /\ \E r \in {"ok", "safe"} : SfxEnd(w, r)
      BY <1>2, <2>2 DEF SfxRenameFolder
    <3> QED
      BY <3>1, FilesStay, OnwardOf DEF fs
  <2> QED
    BY <2>1, <2>2
<1>3. CASE SfxDeleteFolder(w, m)
  <2>1. CASE m.dir \in sfxDirs /\ SfxInFolder(sfxFiles, m.dir) = {}
    <3>1. sfxDirs' = sfxDirs \ {m.dir} /\ SfxEnd(w, "ok") /\ sfxFiles' = sfxFiles
      BY <1>3, <2>1 DEF SfxDeleteFolder
    <3>2. \A p \in DOMAIN sfxFiles : p[1] \in sfxDirs'
      BY <2>1, <3>1 DEF SfxInFolder, SfxFilesTyped
    <3>3. SfxFilesTyped'
      BY <3>1, <3>2 DEF SfxFilesTyped, SfxNewest
    <3> QED
      BY <3>1, <3>3, OnwardOf
  <2>2. CASE m.dir \in sfxDirs /\ SfxInFolder(sfxFiles, m.dir) # {} /\ m.flag
    <3>1. PICK p \in SfxInFolder(sfxFiles, m.dir) :
            sfxFiles' = Without(sfxFiles, {p}) /\ SfxGo(w, 1) /\ UNCHANGED sfxDirs
      BY <1>3, <2>2 DEF SfxDeleteFolder
    <3>2. SfxFilesTyped'
      BY <3>1, WithoutTyped
    <3> QED
      BY <3>1, <3>2, OnwardOf
  <2>3. CASE ~(m.dir \in sfxDirs /\ (SfxInFolder(sfxFiles, m.dir) = {} \/ m.flag))
    <3>1. UNCHANGED fs /\ \E r \in {"ok", "safe"} : SfxEnd(w, r)
      BY <1>3, <2>3 DEF SfxDeleteFolder, Gone
    <3> QED
      BY <3>1, FilesStay, OnwardOf DEF fs
  <2> QED
    BY <2>1, <2>2, <2>3
<1> QED
  BY <1>1, <1>2, <1>3

(* The files. *)
LEMMA LooseFiles ==
  ASSUME SfxFilesTyped, NEW w \in SfxWorkers, NEW m \in SfxMutations, UNCHANGED <<want, sfxJournal>>,
         SfxMoveFile(w, m) \/ SfxDeleteFile(w, m)
  PROVE  SfxFilesTyped' /\ SfxOn(w)
<1>1. CASE SfxDeleteFile(w, m) /\ m.src \in DOMAIN sfxFiles
  <2>1. sfxFiles' = Without(sfxFiles, {m.src}) /\ SfxEnd(w, "ok") /\ UNCHANGED sfxDirs
    BY <1>1 DEF SfxDeleteFile
  <2>2. SfxFilesTyped'
    BY <2>1, WithoutTyped
  <2> QED
    BY <2>1, <2>2, OnwardOf
<1>2. CASE UNCHANGED fs /\ \E r \in {"ok", "safe", "bad"} : SfxEnd(w, r)
  BY <1>2, FilesStay, OnwardOf DEF fs
<1>3. CASE sfxDirs' = sfxDirs \cup {m.dst[1]} /\ SfxGo(w, 1) /\ UNCHANGED sfxFiles
  BY <1>3, FilesStay, OnwardOf
<1>4. CASE m.dst[1] \in sfxDirs /\ sfxFiles' = SfxRenamed(sfxFiles, m.src, m.dst) /\ SfxEnd(w, "ok") /\ UNCHANGED sfxDirs
  <2>1. m.dst \in SfxAnyPaths /\ m.dst[2][1] = "file"
    BY DEF SfxMutations, SfxAnyPaths, SfxFilePaths
  <2>2. m.dst[2][1] # "stage" /\ m.dst[2][1] # "backup"
    BY <2>1
  <2>3. SfxFilesTyped'
    BY <1>4, <2>1, <2>2, RenamedTyped
  <2> QED
    BY <1>4, <2>3, OnwardOf
<1>5. CASE SfxDeleteFile(w, m) /\ m.src \notin DOMAIN sfxFiles
  BY <1>2, <1>5 DEF SfxDeleteFile, Gone
<1>6. CASE SfxMoveFile(w, m)
  <2>1. CASE m.src = m.dst
    BY <1>2, <1>6, <2>1 DEF SfxMoveFile
  <2>2. CASE m.src # m.dst /\ m.src \notin DOMAIN sfxFiles
    BY <1>2, <1>6, <2>2 DEF SfxMoveFile
  <2>3. CASE m.src # m.dst /\ m.src \in DOMAIN sfxFiles /\ w.pc = 0
    BY <1>3, <1>6, <2>3 DEF SfxMoveFile
  <2>4. CASE m.src # m.dst /\ m.src \in DOMAIN sfxFiles /\ w.pc # 0
    BY <1>2, <1>4, <1>6, <2>4 DEF SfxMoveFile
  <2> QED
    BY <2>1, <2>2, <2>3, <2>4
<1> QED
  BY <1>1, <1>5, <1>6

(* Uploads. *)
LEMMA LooseUploads ==
  ASSUME SfxFilesTyped, NEW w \in SfxWorkers, NEW m \in SfxMutations, UNCHANGED <<want, sfxJournal>>,
         w.j <= SfxNewest, SfxPublish(w, m)
  PROVE  SfxFilesTyped' /\ SfxOn(w)
<1> DEFINE s == StagePath(m)
           b == BackupPath(m, w.j)
<1>1. /\ m.dst \in SfxAnyPaths /\ m.dst[2][1] = "file" /\ m.dst[2][1] # "stage" /\ m.dst[2][1] # "backup"
      /\ m.dst[1] \in Folders \cup {Root}
  BY DEF SfxMutations, SfxAnyPaths, SfxFilePaths
<1>2. b \in SfxAnyPaths /\ b[1] = m.dst[1] /\ b[2][1] # "stage" /\ b[2][2] = w.j
  BY <1>1 DEF BackupPath, SfxAnyPaths, SfxWorkers
<1> HIDE DEF s, b
<1>3. CASE UNCHANGED fs /\ ((\E r \in {"ok", "safe", "bad"} : SfxEnd(w, r)) \/ \E k \in 0..2 : SfxGo(w, k))
  BY <1>3, FilesStay, OnwardOf DEF fs
<1>4. ASSUME NEW p, sfxFiles' = Without(sfxFiles, {p}), UNCHANGED sfxDirs, SfxEnd(w, "ok")
      PROVE  SfxFilesTyped' /\ SfxOn(w)
  <2>1. SfxFilesTyped'
    BY <1>4, WithoutTyped
  <2> QED
    BY <1>4, <2>1, OnwardOf
<1>5. ASSUME m.dst[1] \in sfxDirs, UNCHANGED sfxDirs, NEW p, NEW q \in {m.dst, b},
             sfxFiles' = SfxRenamed(sfxFiles, p, q), SfxOn(w)
      PROVE  SfxFilesTyped' /\ SfxOn(w)
  <2>1. q \in SfxAnyPaths /\ q[1] \in sfxDirs /\ q[2][1] # "stage" /\ (q[2][1] = "backup" => q[2][2] <= SfxNewest)
    BY <1>1, <1>2, <1>5
  <2>2. SfxFilesTyped'
    BY <1>5, <2>1, RenamedTyped
  <2> QED
    BY <1>5, <2>2
<1>6. CASE m.dst[1] \notin sfxDirs
  BY <1>3, <1>6 DEF SfxPublish
<1>7. CASE m.dst[1] \in sfxDirs /\ m.flag
  <2>1. SfxPublishReplacing(w, m) /\ UNCHANGED sfxDirs
    BY <1>7 DEF SfxPublish, SfxPublishReplacing
  <2>2. \/ UNCHANGED fs /\ ((\E r \in {"ok", "safe", "bad"} : SfxEnd(w, r)) \/ \E k \in 0..2 : SfxGo(w, k))
        \/ sfxFiles' = Without(sfxFiles, {b}) /\ SfxEnd(w, "ok")
        \/ sfxFiles' = SfxRenamed(sfxFiles, m.dst, b) /\ SfxGo(w, 1)
        \/ sfxFiles' = SfxRenamed(sfxFiles, b, m.dst) /\ SfxEnd(w, "safe")
        \/ sfxFiles' = SfxRenamed(sfxFiles, s, m.dst) /\ SfxGo(w, 2)
    BY <2>1 DEF SfxPublishReplacing, fs, s, b
  <2>3. ((\E r \in {"ok", "safe", "bad"} : SfxEnd(w, r)) \/ \E k \in 0..2 : SfxGo(w, k)) => SfxOn(w)
    BY OnwardOf
  <2> QED
    BY <1>3, <1>4, <1>5, <1>7, <2>1, <2>2, <2>3
<1>8. CASE m.dst[1] \in sfxDirs /\ ~m.flag
  <2>1. SfxPublishNew(w, m) /\ UNCHANGED sfxDirs
    BY <1>8 DEF SfxPublish, SfxPublishNew
  <2>2. \/ UNCHANGED fs /\ ((\E r \in {"ok", "safe", "bad"} : SfxEnd(w, r)) \/ \E k \in 0..2 : SfxGo(w, k))
        \/ sfxFiles' = Without(sfxFiles, {s}) /\ SfxEnd(w, "ok")
        \/ sfxFiles' = SfxPut(sfxFiles, m.dst, sfxFiles[s]) /\ SfxGo(w, 1)
    BY <2>1 DEF SfxPublishNew, fs, s
  <2>3. ASSUME sfxFiles' = SfxPut(sfxFiles, m.dst, sfxFiles[s]), SfxGo(w, 1) PROVE SfxFilesTyped' /\ SfxOn(w)
    <3>1. SfxFilesTyped'
      BY <1>1, <1>8, <2>1, <2>3, PutTyped
    <3> QED
      BY <2>3, <3>1, OnwardOf
  <2> QED
    BY <1>3, <1>4, <2>1, <2>2, <2>3
<1> QED
  BY <1>6, <1>7, <1>8

(* Whatever the worker does. *)
LEMMA LooseWorks ==
  ASSUME SfxLoose, NEW w \in workers, ApplyStep(w) \/ ApplyFails(w)
  PROVE  SfxLoose'
<1>1. SfxRequestsTyped /\ SfxFilesTyped /\ w \in SfxWorkers /\ w.j \in DOMAIN sfxJournal
  BY DEF SfxLoose, SfxRequestsTyped, SfxWorkers
<1>2. PICK m : m = sfxJournal[w.j].m
  OBVIOUS
<1>3. m \in SfxMutations /\ w.j <= SfxNewest
  BY <1>1, <1>2, JournalFacts
<1>4. UNCHANGED <<sfxUp, refused, sfxJournal, sfxGate, req, sfxOps, cancels, acked, want>>
  BY DEF ApplyStep, ApplyFails, sfxBounds
<1>5. CASE ApplyFails(w)
  <2>1. UNCHANGED fs /\ \E r \in {"bad", "safe"} : SfxEnd(w, r)
    BY <1>5 DEF ApplyFails
  <2>2. SfxFilesTyped' /\ SfxOn(w)
    BY <1>1, <1>4, <2>1, FilesStay, OnwardOf DEF fs
  <2> QED
    BY <1>1, <1>4, <2>2 DEF SfxLoose, SfxRequestsTyped, SfxOn, SfxWorkers
<1>6. CASE ApplyStep(w)
  <2>1. \/ SfxCreateFolder(w, m) \/ SfxRenameFolder(w, m) \/ SfxDeleteFolder(w, m)
        \/ SfxMoveFile(w, m) \/ SfxDeleteFile(w, m) \/ SfxPublish(w, m)
    BY <1>2, <1>6 DEF ApplyStep
  <2>2. SfxFilesTyped' /\ SfxOn(w)
    BY <1>1, <1>3, <1>4, <2>1, LooseFolders, LooseFiles, LooseUploads
  <2> QED
    BY <1>1, <1>4, <2>2 DEF SfxLoose, SfxRequestsTyped, SfxOn, SfxWorkers
<1> QED
  BY <1>5, <1>6

(* The visible files a mutation leaves are a tree. *)
LEMMA ApplyTree ==
  ASSUME NEW t, IsTree(t), Visible(t) = t, NEW m \in SfxMutations
  PROVE  IsTree(SfxApply(m, t)) /\ Visible(SfxApply(m, t)) = SfxApply(m, t)
<1>1. /\ m.src \in SfxAnyPaths /\ m.src[2][1] = "file" /\ m.dst \in SfxAnyPaths /\ m.dst[2][1] = "file"
      /\ m.dir \in Folders \cup {Root} /\ m.to \in Folders \cup {Root}
  BY DEF SfxMutations, SfxAnyPaths, SfxFilePaths
<1>2. ASSUME NEW S PROVE IsTree(Without(t, S)) /\ Visible(Without(t, S)) = Without(t, S)
  <2>1. \A p \in DOMAIN t : p[2][1] = "file"
    BY DEF Visible
  <2>2. {p \in DOMAIN Without(t, S) : p[2][1] = "file"} = DOMAIN Without(t, S)
    BY <2>1, WithoutDomain
  <2>3. Visible(Without(t, S)) = Without(t, S)
    BY <2>2 DEF Visible, Without
  <2> QED
    BY <2>3, WithoutTree
<1>3. IsTree(SfxMoved(t, m.dir, m.to)) /\ Visible(SfxMoved(t, m.dir, m.to)) = SfxMoved(t, m.dir, m.to)
  <2> DEFINE M == {<<m.to, p[2]>> : p \in SfxInFolder(t, m.dir)}
  <2>1. DOMAIN SfxMoved(t, m.dir, m.to) = (DOMAIN t \ SfxInFolder(t, m.dir)) \cup M
    BY DEF SfxMoved
  <2>2. DOMAIN t \subseteq SfxAnyPaths
    BY DEF IsTree
  <2>3. M \subseteq SfxAnyPaths
    BY <1>1, <2>2 DEF SfxInFolder, SfxAnyPaths
  <2>4. SfxMoved(t, m.dir, m.to) = [p \in DOMAIN SfxMoved(t, m.dir, m.to) |-> SfxMoved(t, m.dir, m.to)[p]]
    BY DEF SfxMoved
  <2>5. IsTree(SfxMoved(t, m.dir, m.to))
    BY <2>1, <2>2, <2>3, <2>4 DEF IsTree
  <2>6. Visible(SfxMoved(t, m.dir, m.to)) = SfxMoved(Visible(t), m.dir, m.to)
    BY <2>2, VisibleMoved
  <2> QED
    BY <2>5, <2>6
<1>4. m.src \in DOMAIN t => IsTree(SfxRenamed(t, m.src, m.dst)) /\ Visible(SfxRenamed(t, m.src, m.dst)) = SfxRenamed(t, m.src, m.dst)
  <2>1. IsTree(SfxRenamed(t, m.src, m.dst))
    BY <1>1, RenamedTree
  <2>2. m.src \in DOMAIN t => Visible(SfxRenamed(t, m.src, m.dst)) = SfxRenamed(Visible(t), m.src, m.dst)
    BY <1>1, VisibleRenamed
  <2> QED
    BY <2>1, <2>2
<1>5. IsTree(SfxPut(t, m.dst, m.n)) /\ Visible(SfxPut(t, m.dst, m.n)) = SfxPut(t, m.dst, m.n)
  <2>1. IsTree(SfxPut(t, m.dst, m.n))
    BY <1>1, PutTree
  <2>2. Visible(SfxPut(t, m.dst, m.n)) = SfxPut(Visible(t), m.dst, m.n)
    BY <1>1, VisiblePut
  <2> QED
    BY <2>1, <2>2
<1> QED
  BY <1>2, <1>3, <1>4, <1>5 DEF SfxApply

(* An entry is marked by whoever ends it. *)
LEMMA LooseMark ==
  ASSUME SfxLoose, NEW nr \in DOMAIN sfxJournal, NEW x \in {"planned", "applying", "committed", "failed"},
         sfxJournal' = [sfxJournal EXCEPT ![nr].state = x]
  PROVE  /\ sfxJournal' \in Seq([m : SfxMutations, state : {"planned", "applying", "committed", "failed"}])
         /\ DOMAIN sfxJournal' = DOMAIN sfxJournal /\ SfxNewest' = SfxNewest
<1>1. SfxRequestsTyped
  BY DEF SfxLoose
<1> QED
  BY <1>1, JournalMarked DEF SfxEntries

SfxReqs == [pc : {"idle", "wait", "resolve", "plan", "begin", "run"}, m : SfxMutations, j : Nat]

(* A client of a running server goes on to another request or phase. *)
LEMMA LooseRequest ==
  ASSUME SfxLoose, NEW c \in SfxClients, NEW r \in SfxReqs, req' = [req EXCEPT ![c] = r],
         r.pc = "begin" => r.j \in DOMAIN sfxJournal', sfxUp' = "up",
         sfxGate' \in SfxClients \cup {NoOne}, refused' \in BOOLEAN, sfxOps' \in Nat, cancels' \in Nat, SfxFilesTyped',
         sfxJournal' \in Seq(SfxEntries), DOMAIN sfxJournal \subseteq DOMAIN sfxJournal',
         \A w \in workers' : w \in SfxWorkers /\ w.j \in DOMAIN sfxJournal'
  PROVE  SfxLoose'
<1>1. req \in [SfxClients -> SfxReqs]
  BY DEF SfxLoose, SfxRequestsTyped, SfxReqs
<1>2. req' \in [SfxClients -> SfxReqs]
  BY <1>1
<1>3. SfxRequestsTyped'
  BY <1>2 DEF SfxRequestsTyped, SfxReqs, SfxEntries, SfxWorkers
<1>4. \A d \in SfxClients : req'[d].pc = "begin" => req'[d].j \in DOMAIN sfxJournal'
  BY <1>1 DEF SfxLoose
<1> QED
  BY <1>3, <1>4 DEF SfxLoose

(* Where a client stands. *)
LEMMA LooseClient ==
  ASSUME SfxLoose, NEW c \in SfxClients
  PROVE  /\ req[c] \in SfxReqs /\ req[c].m \in SfxMutations /\ req[c].j \in Nat
         /\ req[c].pc # "idle" => sfxUp = "up"
         /\ SfxIdle \in SfxReqs /\ SfxIdle.pc = "idle"
         /\ sfxJournal \in Seq(SfxEntries) /\ sfxGate \in SfxClients \cup {NoOne} /\ refused \in BOOLEAN
         /\ sfxOps \in Nat /\ cancels \in Nat /\ SfxFilesTyped
         /\ \A w \in workers : w \in SfxWorkers /\ w.j \in DOMAIN sfxJournal
         /\ Answer(c) => sfxGate' \in SfxClients \cup {NoOne}
<1>1. SfxIdle \in SfxReqs /\ SfxIdle.pc = "idle"
  BY SfxRequestsAre DEF SfxIdle, SfxReqs
<1>2. req[c] \in SfxReqs /\ req[c].m \in SfxMutations /\ req[c].j \in Nat
  BY DEF SfxLoose, SfxRequestsTyped, SfxReqs
<1>3. req[c].pc # "idle" => sfxUp = "up"
  BY <1>1 DEF SfxLoose
<1>4. sfxGate \in SfxClients \cup {NoOne} /\ (Answer(c) => sfxGate' \in SfxClients \cup {NoOne})
  BY DEF SfxLoose, SfxRequestsTyped, Answer
<1>5. \A w \in workers : w \in SfxWorkers /\ w.j \in DOMAIN sfxJournal
  BY DEF SfxLoose, SfxRequestsTyped, SfxWorkers
<1>6. refused \in BOOLEAN /\ sfxOps \in Nat /\ cancels \in Nat /\ SfxFilesTyped /\ sfxJournal \in Seq(SfxEntries)
  BY DEF SfxLoose, SfxRequestsTyped, SfxEntries
<1> QED
  BY <1>1, <1>2, <1>3, <1>4, <1>5, <1>6

(* A request or an upload is made. *)
LEMMA LooseAsks ==
  ASSUME SfxLoose, NEW c \in SfxClients,
         \/ \E m \in SfxRequests : SfxSubmit(c, m)
         \/ \E p \in SfxPaths, policy \in Policies : SfxUpload(c, p, policy)
  PROVE  SfxLoose'
<1>1. ASSUME NEW m \in SfxRequests, SfxSubmit(c, m) PROVE SfxLoose'
  <2> PICK r : r = [pc |-> "wait", m |-> m, j |-> 0]
    OBVIOUS
  <2>1. r \in SfxReqs /\ r.pc = "wait"
    BY <1>1, SfxRequestsAre DEF SfxReqs
  <2>2. /\ req' = [req EXCEPT ![c] = r] /\ sfxOps' = sfxOps + 1 /\ sfxUp = "up"
        /\ UNCHANGED <<sfxUp, refused, fs, sfxJournal, sfxGate, workers, cancels, want>>
    BY <1>1 DEF SfxSubmit
  <2>3. SfxFilesTyped'
    BY <2>2, LooseClient, FilesStay DEF fs
  <2>4. sfxOps' \in Nat
    BY <2>2, LooseClient
  <2> QED
    BY <2>1, <2>2, <2>3, <2>4, LooseClient, LooseRequest
<1>2. ASSUME NEW p \in SfxPaths, NEW policy \in Policies, SfxUpload(c, p, policy) PROVE SfxLoose'
  <2> DEFINE m == [SfxPlan EXCEPT !.op = "publish_upload", !.dst = p, !.n = sfxOps + 1, !.policy = policy]
             s == StagePath(m)
  <2>1. p \in SfxFilePaths /\ sfxOps + 1 \in Nat /\ policy \in {"rename", "overwrite", "skip"}
    <3>1. sfxOps \in Nat
      BY LooseClient
    <3>2. p \in SfxFilePaths /\ policy \in {"rename", "overwrite", "skip"}
      BY SfxAssumption DEF SfxPaths, SfxFilePaths
    <3> QED
      BY <3>1, <3>2
  <2>2. m \in SfxMutations /\ m.dst = p /\ m.n = sfxOps + 1
    BY <2>1, SfxRequestsAre DEF SfxMutations, SfxAllOps
  <2>3. /\ req' = [req EXCEPT ![c] = [pc |-> "wait", m |-> m, j |-> 0]]
        /\ sfxFiles' = SfxPut(sfxFiles, s, m.n) /\ sfxOps' = sfxOps + 1
        /\ UNCHANGED <<sfxUp, refused, sfxDirs, sfxJournal, sfxGate, workers, cancels, want>>
        /\ p[1] \in sfxDirs /\ sfxUp = "up"
    BY <1>2 DEF SfxUpload
  <2>4. s \in SfxAnyPaths /\ s[2][1] = "stage" /\ s[2][2] = m.n /\ s[1] = p[1]
    BY <2>2, UploadPaths DEF SfxMutations
  <2> HIDE DEF s, m
  <2>5. s[2][1] # "backup" /\ s[1] \in sfxDirs
    BY <2>3, <2>4
  <2>6. SfxFilesTyped'
    BY <2>3, <2>4, <2>5, LooseClient, PutTyped
  <2> PICK r : r = [pc |-> "wait", m |-> m, j |-> 0]
    OBVIOUS
  <2>7. r \in SfxReqs /\ r.pc = "wait"
    BY <2>2 DEF SfxReqs
  <2> QED
    BY <2>1, <2>3, <2>6, <2>7, LooseClient, LooseRequest
<1> QED
  BY <1>1, <1>2

(* A request goes to the gate and up to its entry, or is answered there. *)
LEMMA LooseEnters ==
  ASSUME SfxLoose, NEW c \in SfxClients, SfxAcquire(c) \/ ResolveUpload(c) \/ SfxCreateJournal(c)
  PROVE  SfxLoose'
<1>1. UNCHANGED <<sfxUp, refused, sfxDirs, workers, sfxOps, cancels, want>> /\ req[c].pc # "idle" /\ sfxUp = "up"
  BY LooseClient DEF SfxAcquire, ResolveUpload, SfxCreateJournal, sfxBounds, fs
<1>2. ASSUME Answer(c), UNCHANGED sfxJournal, UNCHANGED sfxFiles \/ Discard(req[c].m) PROVE SfxLoose'
  <2>1. SfxFilesTyped'
    BY <1>1, <1>2, LooseClient, FilesStay, DiscardHides
  <2>2. req' = [req EXCEPT ![c] = SfxIdle]
    BY <1>2 DEF Answer
  <2> QED
    BY <1>1, <1>2, <2>1, <2>2, LooseClient, LooseRequest
<1>3. ASSUME NEW r \in SfxReqs, req' = [req EXCEPT ![c] = r], r.pc # "begin", UNCHANGED <<sfxFiles, sfxJournal>>,
             sfxGate' \in {c, sfxGate}
      PROVE  SfxLoose'
  <2>1. SfxFilesTyped' /\ sfxGate' \in SfxClients \cup {NoOne}
    BY <1>1, <1>3, LooseClient, FilesStay
  <2> QED
    BY <1>1, <1>3, <2>1, LooseClient, LooseRequest
<1>4. CASE SfxAcquire(c)
  <2>1. UNCHANGED <<sfxFiles, sfxJournal>>
    BY <1>4 DEF SfxAcquire, fs
  <2>2. CASE sfxGate' = c /\ \E pc \in {"resolve", "plan"} : SfxAt(c, pc)
    <3> PICK pc \in {"resolve", "plan"} : SfxAt(c, pc)
      BY <2>2
    <3> PICK r : r = [req[c] EXCEPT !.pc = pc]
      OBVIOUS
    <3>1. r \in SfxReqs /\ r.pc # "begin"
      BY LooseClient DEF SfxReqs
    <3>2. req' = [req EXCEPT ![c] = r]
      BY DEF SfxAt
    <3> QED
      BY <1>3, <2>1, <2>2, <3>1, <3>2
  <2> QED
    BY <1>2, <1>4, <2>1, <2>2 DEF SfxAcquire
<1>5. CASE ResolveUpload(c)
  <2>1. UNCHANGED sfxJournal
    BY <1>5 DEF ResolveUpload
  <2>2. ASSUME NEW u \in SfxMutations, req' = [req EXCEPT ![c] = [pc |-> "plan", m |-> u, j |-> 0]],
               UNCHANGED <<sfxFiles, sfxGate>>
        PROVE  SfxLoose'
    <3> PICK r : r = [pc |-> "plan", m |-> u, j |-> 0]
      OBVIOUS
    <3>1. r \in SfxReqs /\ r.pc # "begin"
      BY DEF SfxReqs
    <3> QED
      BY <1>3, <2>1, <2>2, <3>1
  <2>3. ASSUME NEW f \in BOOLEAN, UNCHANGED <<sfxFiles, sfxGate>>,
               req' = [req EXCEPT ![c] = [pc |-> "plan", m |-> [req[c].m EXCEPT !.flag = f], j |-> 0]]
        PROVE  SfxLoose'
    <3>1. [req[c].m EXCEPT !.flag = f] \in SfxMutations
      BY LooseClient DEF SfxMutations
    <3> QED
      BY <2>2, <2>3, <3>1
  <2>4. ASSUME NEW k \in SfxNames, UNCHANGED <<sfxFiles, sfxGate>>,
               req' = [req EXCEPT ![c] = [pc |-> "plan", j |-> 0,
                                          m |-> [req[c].m EXCEPT !.dst = <<req[c].m.dst[1], <<"file", k>>>>]]]
        PROVE  SfxLoose'
    <3> DEFINE q == <<req[c].m.dst[1], <<"file", k>>>>
    <3>1. q \in SfxFilePaths
      BY LooseClient, SfxAssumption DEF SfxMutations, SfxFilePaths
    <3>2. [req[c].m EXCEPT !.dst = q] \in SfxMutations
      BY <3>1, LooseClient DEF SfxMutations
    <3> QED
      BY <2>2, <2>4, <3>2
  <2>5. CASE Discard(req[c].m) /\ Answer(c)
    BY <1>2, <2>1, <2>5
  <2>6. \/ Discard(req[c].m) /\ Answer(c)
        \/ /\ UNCHANGED <<sfxFiles, sfxGate>>
           /\ \E f \in BOOLEAN :
                req' = [req EXCEPT ![c] = [pc |-> "plan", m |-> [req[c].m EXCEPT !.flag = f], j |-> 0]]
        \/ /\ UNCHANGED <<sfxFiles, sfxGate>>
           /\ \E k \in SfxNames :
                req' = [req EXCEPT ![c] = [pc |-> "plan", j |-> 0,
                                           m |-> [req[c].m EXCEPT !.dst = <<req[c].m.dst[1], <<"file", k>>>>]]]
    BY <1>5 DEF ResolveUpload
  <2> QED
    BY <2>3, <2>4, <2>5, <2>6
<1>6. CASE SfxCreateJournal(c)
  <2>1. CASE Discard(req[c].m) /\ Answer(c) /\ UNCHANGED sfxJournal
    BY <1>2, <2>1
  <2>2. CASE /\ sfxJournal' = Append(sfxJournal, [m |-> req[c].m, state |-> "planned"])
             /\ req' = [req EXCEPT ![c] = [pc |-> "begin", m |-> req[c].m, j |-> Len(sfxJournal) + 1]]
             /\ UNCHANGED <<sfxFiles, sfxGate>>
    <3> PICK e : e = [m |-> req[c].m, state |-> "planned"]
      OBVIOUS
    <3> PICK r : r = [pc |-> "begin", m |-> req[c].m, j |-> Len(sfxJournal) + 1]
      OBVIOUS
    <3>1. e \in SfxEntries
      BY LooseClient DEF SfxEntries
    <3>2. sfxJournal \in Seq(SfxEntries) /\ SfxNewest \in Nat /\ DOMAIN sfxJournal = 1..SfxNewest
      BY JournalFacts DEF SfxLoose
    <3>3. sfxJournal' \in Seq(SfxEntries) /\ SfxNewest' = SfxNewest + 1 /\ DOMAIN sfxJournal' = 1..(SfxNewest + 1)
      BY <2>2, <3>1, <3>2 DEF SfxNewest
    <3>4. r \in SfxReqs /\ r.j \in DOMAIN sfxJournal'
      BY <3>2, <3>3, LooseClient DEF SfxReqs, SfxNewest
    <3>5. SfxFilesTyped'
      <4>1. \A p \in DOMAIN sfxFiles : p[2][1] = "backup" => p[2][2] <= SfxNewest + 1
        <5> SUFFICES ASSUME NEW p \in DOMAIN sfxFiles, p[2][1] = "backup" PROVE p[2][2] <= SfxNewest + 1
          OBVIOUS
        <5>1. p[2][2] <= SfxNewest /\ p \in SfxAnyPaths
          BY LooseClient DEF SfxFilesTyped, IsTree
        <5>2. p[2][2] \in Nat
          BY <5>1 DEF SfxAnyPaths
        <5> QED
          BY <3>2, <5>1, <5>2
      <4> QED
        BY <1>1, <2>2, <3>3, <4>1, LooseClient DEF SfxFilesTyped
    <3>6. DOMAIN sfxJournal \subseteq DOMAIN sfxJournal'
      BY <3>2, <3>3
    <3>7. \A w \in workers' : w \in SfxWorkers /\ w.j \in DOMAIN sfxJournal'
      BY <1>1, <3>6, LooseClient
    <3>8. req' = [req EXCEPT ![c] = r] /\ sfxGate' \in SfxClients \cup {NoOne}
      BY <2>2, LooseClient
    <3> QED
      BY <1>1, <3>3, <3>4, <3>5, <3>6, <3>7, <3>8, LooseClient, LooseRequest
  <2> QED
    BY <1>6, <2>1, <2>2 DEF SfxCreateJournal
<1> QED
  BY <1>4, <1>5, <1>6

(* The entry is applied and settled, or its handler is dropped. *)
LEMMA LooseSettles ==
  ASSUME SfxLoose, NEW c \in SfxClients, BeginApply(c) \/ (\E w \in workers : Settle(c, w)) \/ SfxCancel(c)
  PROVE  SfxLoose'
<1>1. /\ sfxUp' = "up" /\ UNCHANGED <<sfxDirs, sfxOps>> /\ refused' \in BOOLEAN /\ cancels' \in Nat
      /\ req[c].pc # "idle" /\ sfxUp = "up"
  <2>1. req[c].pc # "idle" /\ UNCHANGED <<sfxUp, sfxDirs, sfxOps>> /\ cancels' \in {cancels, cancels + 1}
    BY DEF BeginApply, Settle, SfxCancel, fs
  <2>2. refused' = refused \/ refused' = TRUE
    BY DEF BeginApply, Settle, SfxCancel
  <2>3. refused \in BOOLEAN /\ cancels \in Nat /\ sfxUp = "up"
    BY <2>1, LooseClient
  <2>4. refused' \in BOOLEAN
    BY <2>2, <2>3, Zenon
  <2> QED
    BY <2>1, <2>3, <2>4
<1>2. ASSUME Answer(c), NEW x \in {"planned", "applying", "committed", "failed"}, NEW nr \in DOMAIN sfxJournal,
             sfxJournal' \in {sfxJournal, [sfxJournal EXCEPT ![nr].state = x]}, workers' \subseteq workers,
             UNCHANGED sfxFiles \/ Discard(req[c].m), want' \in {want, SfxApply(req[c].m, want)}
      PROVE  SfxLoose'
  <2>1. sfxJournal' \in Seq(SfxEntries) /\ DOMAIN sfxJournal' = DOMAIN sfxJournal /\ SfxNewest' = SfxNewest
    <3>1. CASE sfxJournal' = sfxJournal
      BY <3>1, LooseClient DEF SfxNewest
    <3>2. CASE sfxJournal' = [sfxJournal EXCEPT ![nr].state = x]
      BY <3>2, LooseMark DEF SfxEntries
    <3> QED
      BY <1>2, <3>1, <3>2
  <2>2. IsTree(want') /\ Visible(want') = want'
    <3>1. IsTree(want) /\ Visible(want) = want /\ req[c].m \in SfxMutations
      BY LooseClient DEF SfxFilesTyped
    <3>2. IsTree(SfxApply(req[c].m, want)) /\ Visible(SfxApply(req[c].m, want)) = SfxApply(req[c].m, want)
      BY <3>1, ApplyTree
    <3> QED
      BY <1>2, <3>1, <3>2
  <2>3. IsTree(sfxFiles') /\ \A p \in DOMAIN sfxFiles' : p \in DOMAIN sfxFiles /\ sfxFiles'[p] = sfxFiles[p]
    <3>1. IsTree(sfxFiles)
      BY LooseClient DEF SfxFilesTyped
    <3>2. sfxFiles' = sfxFiles \/ \E S : sfxFiles' = Without(sfxFiles, S)
      BY <1>2 DEF Discard
    <3>3. ASSUME NEW S, sfxFiles' = Without(sfxFiles, S)
          PROVE  IsTree(sfxFiles') /\ \A p \in DOMAIN sfxFiles' : p \in DOMAIN sfxFiles /\ sfxFiles'[p] = sfxFiles[p]
      <4>1. IsTree(sfxFiles')
        BY <3>1, <3>3, WithoutTree
      <4>2. DOMAIN sfxFiles' = DOMAIN sfxFiles \ S
        BY <3>3, WithoutDomain
      <4>3. \A p \in DOMAIN sfxFiles \ S : sfxFiles'[p] = sfxFiles[p]
        BY <3>3, WithoutAt
      <4> QED
        BY <4>1, <4>2, <4>3
    <3> QED
      BY <3>1, <3>2, <3>3
  <2>4. SfxFilesTyped'
    BY <1>1, <2>1, <2>2, <2>3, LooseClient DEF SfxFilesTyped
  <2>5. req' = [req EXCEPT ![c] = SfxIdle]
    BY <1>2 DEF Answer
  <2>6. \A w \in workers' : w \in SfxWorkers /\ w.j \in DOMAIN sfxJournal'
    BY <1>2, <2>1, LooseClient
  <2> QED
    BY <1>1, <1>2, <2>1, <2>4, <2>5, <2>6, LooseClient, LooseRequest
<1>3. ASSUME Answer(c), UNCHANGED <<fs, want, sfxJournal, workers>>
      PROVE  SfxLoose'
  <2>1. SfxFilesTyped'
    BY <1>3, LooseClient, FilesStay DEF fs
  <2>2. req' = [req EXCEPT ![c] = SfxIdle]
    BY <1>3 DEF Answer
  <2> QED
    BY <1>1, <1>3, <2>1, <2>2, LooseClient, LooseRequest
<1>4. CASE SfxCancel(c)
  BY <1>3, <1>4 DEF SfxCancel
<1>5. ASSUME NEW w \in workers, Settle(c, w) PROVE SfxLoose'
  <2>1. w.j \in DOMAIN sfxJournal /\ Answer(c) /\ workers' \subseteq workers
    BY <1>5, LooseClient DEF Settle
  <2>2. PICK nr \in DOMAIN sfxJournal : nr = w.j
    BY <2>1
  <2>3. CASE sfxJournal' = [sfxJournal EXCEPT ![nr].state = "committed"] /\ want' = SfxApply(req[c].m, want) /\ UNCHANGED sfxFiles
    BY <1>2, <2>1, <2>3
  <2>4. CASE sfxJournal' = [sfxJournal EXCEPT ![nr].state = "failed"] /\ want' = want /\ Discard(req[c].m)
    BY <1>2, <2>1, <2>4
  <2>5. CASE UNCHANGED <<sfxFiles, sfxJournal, want>>
    BY <1>2, <2>1, <2>5
  <2> QED
    BY <1>5, <2>2, <2>3, <2>4, <2>5 DEF Settle
<1>6. CASE BeginApply(c)
  <2>1. req[c].j \in DOMAIN sfxJournal /\ UNCHANGED <<fs, want>>
    BY <1>6 DEF BeginApply, SfxLoose
  <2>2. CASE Answer(c) /\ UNCHANGED <<sfxJournal, workers>>
    BY <1>3, <2>1, <2>2
  <2>3. CASE /\ sfxJournal' = [sfxJournal EXCEPT ![req[c].j].state = "applying"] /\ SfxAt(c, "run")
             /\ workers' = workers \cup {[j |-> req[c].j, pc |-> 0, replay |-> FALSE, res |-> "none"]}
             /\ UNCHANGED sfxGate
    <3> PICK nr \in DOMAIN sfxJournal : nr = req[c].j
      BY <2>1
    <3> PICK v : v = [j |-> nr, pc |-> 0, replay |-> FALSE, res |-> "none"]
      OBVIOUS
    <3> PICK r : r = [req[c] EXCEPT !.pc = "run"]
      OBVIOUS
    <3>1. sfxJournal' \in Seq(SfxEntries) /\ DOMAIN sfxJournal' = DOMAIN sfxJournal /\ SfxNewest' = SfxNewest
      BY <2>3, LooseMark DEF SfxEntries
    <3>2. v \in SfxWorkers /\ v.j = nr
      BY LooseClient DEF SfxWorkers
    <3>3. \A w \in workers' : w \in SfxWorkers /\ w.j \in DOMAIN sfxJournal'
      BY <2>3, <3>1, <3>2, LooseClient
    <3>4. r \in SfxReqs /\ r.pc # "begin" /\ req' = [req EXCEPT ![c] = r]
      BY <2>3, LooseClient DEF SfxReqs, SfxAt
    <3>5. SfxFilesTyped'
      BY <2>1, <3>1, LooseClient DEF SfxFilesTyped, fs
    <3>6. sfxGate' \in SfxClients \cup {NoOne} /\ sfxOps' \in Nat
      BY <1>1, <2>3, LooseClient
    <3> QED
      BY <1>1, <3>1, <3>3, <3>4, <3>5, <3>6, LooseRequest
  <2> QED
    BY <1>6, <2>2, <2>3 DEF BeginApply
<1> QED
  BY <1>4, <1>5, <1>6

(* A start, its replays and the end of a process. *)
LEMMA LooseStarts ==
  ASSUME SfxLoose, \/ \E w \in workers : Detached(w) \/ Replayed(w)
                   \/ \E nr \in SfxUnfinished : Replay(nr)
                   \/ SfxCrash \/ SfxStart
  PROVE  SfxLoose'
<1>1. SfxRequestsTyped /\ SfxFilesTyped /\ SfxIdle \in SfxReqs /\ SfxIdle.pc = "idle"
  BY SfxRequestsAre DEF SfxLoose, SfxIdle, SfxReqs
<1>2. UNCHANGED <<fs, sfxOps, cancels, acked, want>> /\ refused' \in BOOLEAN
  BY <1>1 DEF Detached, Replayed, Replay, SfxCrash, SfxStart, sfxBounds, SfxRequestsTyped
<1>3. CASE Down /\ UNCHANGED sfxJournal
  <2>1. SfxFilesTyped'
    BY <1>1, <1>2, <1>3, FilesStay DEF fs
  <2>2. sfxUp' = "down" /\ sfxGate' = NoOne /\ req' = [c \in SfxClients |-> SfxIdle] /\ workers' = {}
    BY <1>3 DEF Down
  <2>3. SfxRequestsTyped'
    BY <1>1, <1>2, <1>3, <2>2 DEF SfxRequestsTyped, SfxReqs
  <2> QED
    BY <1>1, <2>1, <2>2, <2>3 DEF SfxLoose
<1>4. ASSUME UNCHANGED <<sfxGate, req>>, sfxUp' \in {"down", "starting", "up"}, sfxUp' = "up" \/ sfxUp # "up",
             sfxJournal' \in Seq(SfxEntries), DOMAIN sfxJournal' = DOMAIN sfxJournal, SfxNewest' = SfxNewest,
             \A w \in workers' : w \in SfxWorkers /\ w.j \in DOMAIN sfxJournal
      PROVE  SfxLoose'
  <2>1. SfxFilesTyped'
    BY <1>1, <1>2, <1>4 DEF SfxFilesTyped, fs
  <2>2. SfxRequestsTyped'
    BY <1>1, <1>2, <1>4 DEF SfxRequestsTyped, SfxEntries, SfxWorkers
  <2> QED
    BY <1>4, <2>1, <2>2 DEF SfxLoose
<1>5. sfxUp \in {"down", "starting", "up"} /\ sfxJournal \in Seq(SfxEntries)
      /\ \A w \in workers : w \in SfxWorkers /\ w.j \in DOMAIN sfxJournal
  BY DEF SfxLoose, SfxRequestsTyped, SfxEntries, SfxWorkers
<1>6. ASSUME NEW w \in workers, Detached(w) PROVE SfxLoose'
  BY <1>4, <1>5, <1>6 DEF Detached, SfxNewest
<1>7. ASSUME NEW w \in workers, Replayed(w) PROVE SfxLoose'
  <2>1. PICK nr \in DOMAIN sfxJournal : nr = w.j
    BY <1>5
  <2>2. CASE /\ workers' = {} /\ UNCHANGED <<sfxUp, sfxGate, req>>
             /\ \E x \in {"committed", "failed"} : sfxJournal' = [sfxJournal EXCEPT ![nr].state = x]
    <3> PICK x \in {"committed", "failed"} : sfxJournal' = [sfxJournal EXCEPT ![nr].state = x]
      BY <2>2
    <3>1. sfxJournal' \in Seq(SfxEntries) /\ DOMAIN sfxJournal' = DOMAIN sfxJournal /\ SfxNewest' = SfxNewest
      BY LooseMark DEF SfxEntries
    <3> QED
      BY <1>4, <1>5, <2>2, <3>1
  <2> QED
    BY <1>3, <1>7, <2>1, <2>2 DEF Replayed
<1>8. ASSUME NEW nr \in SfxUnfinished, Replay(nr) PROVE SfxLoose'
  <2>1. nr \in DOMAIN sfxJournal /\ nr \in Nat
    BY <1>1, JournalFacts
  <2>2. /\ sfxJournal' = [sfxJournal EXCEPT ![nr].state = "applying"] /\ UNCHANGED <<sfxUp, sfxGate, req>>
        /\ workers' = {[j |-> nr, pc |-> 0, replay |-> TRUE, res |-> "none"]}
    BY <1>8 DEF Replay
  <2>3. sfxJournal' \in Seq(SfxEntries) /\ DOMAIN sfxJournal' = DOMAIN sfxJournal /\ SfxNewest' = SfxNewest
    BY <2>1, <2>2, LooseMark DEF SfxEntries
  <2>4. \A w \in workers' : w \in SfxWorkers /\ w.j \in DOMAIN sfxJournal
    <3> PICK v : v = [j |-> nr, pc |-> 0, replay |-> TRUE, res |-> "none"]
      OBVIOUS
    <3>1. v \in SfxWorkers /\ v.j = nr /\ workers' = {v}
      BY <2>1, <2>2 DEF SfxWorkers
    <3> QED
      BY <2>1, <3>1
  <2> QED
    BY <1>4, <1>5, <2>2, <2>3, <2>4
<1>9. CASE SfxStart
  BY <1>4, <1>5, <1>9 DEF SfxStart, SfxNewest
<1>10. CASE SfxCrash
  BY <1>3, <1>10 DEF SfxCrash
<1> QED
  BY <1>6, <1>7, <1>8, <1>9, <1>10

(* The recovery ends whatever was adrift: the server serves what it finds. *)
LEMMA ServeEndsDrift ==
  ASSUME SfxLoose, SfxServe, adrift
  PROVE  SfxIInv'
<1>1. SfxRequestsTyped /\ SfxFilesTyped
  BY DEF SfxLoose
<1>2. /\ sfxUp = "starting" /\ workers = {} /\ SfxUnfinished = {} /\ sfxUp' = "up" /\ acked' = {}
      /\ sfxFiles' = Visible(sfxFiles) /\ want' = Visible(sfxFiles)
      /\ UNCHANGED <<refused, sfxDirs, sfxJournal, sfxGate, req, workers, sfxOps, cancels>>
  BY DEF SfxServe, sfxBounds, CleanupOrphans
<1>3. sfxGate = NoOne /\ req = [c \in SfxClients |-> SfxIdle]
  BY <1>2 DEF SfxLoose
<1>4. /\ IsTree(Visible(sfxFiles)) /\ Visible(Visible(sfxFiles)) = Visible(sfxFiles)
      /\ DOMAIN Visible(sfxFiles) = {p \in DOMAIN sfxFiles : p[2][1] = "file"}
      /\ \A p \in DOMAIN Visible(sfxFiles) : Visible(sfxFiles)[p] = sfxFiles[p]
  BY <1>1, VisibleTree DEF SfxFilesTyped
<1>5. SfxNewest' = SfxNewest /\ SfxUnfinished' = SfxUnfinished
  BY <1>2 DEF SfxNewest, SfxUnfinished
<1>6. SfxShown' = want'
  BY <1>2, <1>4 DEF SfxShown
<1>7. SfxRequestsTyped'
  BY <1>1, <1>2 DEF SfxRequestsTyped
<1>8. SfxFilesTyped'
  BY <1>1, <1>2, <1>4, <1>5 DEF SfxFilesTyped
<1>9. SfxOneEntry' /\ SfxAcked' /\ AckedThere'
  BY <1>2, <1>5 DEF SfxOneEntry, SfxAcked, AckedThere
<1>10. SfxKept'
  BY <1>2, <1>5, <1>6 DEF SfxKept
<1>11. SfxPhased'
  BY <1>2, <1>3, <1>5, NobodyAtGate DEF SfxIdle
<1> QED
  BY <1>7, <1>8, <1>9, <1>10, <1>11 DEF SfxIInv

(* The invariant leaves what is left of it. *)
LEMMA LooseOf == SfxIInv => SfxLoose
<1> SUFFICES ASSUME SfxIInv PROVE SfxLoose
  OBVIOUS
<1>1. SfxRequestsTyped /\ SfxFilesTyped /\ SfxOneEntry /\ SfxPhased
  BY DEF SfxIInv
<1>2. SfxNewest \in Nat /\ DOMAIN sfxJournal = 1..SfxNewest
  BY <1>1, JournalFacts
<1> QED
  BY <1>1, <1>2 DEF SfxLoose, SfxOneEntry, SfxPhased

(* A handler dropped before its entry is made leaves only a staged file. *)
LEMMA CancelKeeps ==
  ASSUME SfxIInv, NEW c \in SfxClients, SfxCancel(c), ~adrift'
  PROVE  SfxIInv'
<1>1. SfxRequestsTyped /\ SfxPhased /\ SfxContent
  BY DEF SfxIInv, SfxContent
<1>2. /\ UNCHANGED <<sfxUp, refused, fs, sfxJournal, workers, acked, want, sfxOps>> /\ cancels' = cancels + 1
      /\ Answer(c) /\ req[c].pc # "idle" /\ req[c].pc \notin {"begin", "run"}
  BY DEF SfxCancel
<1>3. SfxContent'
  BY <1>1, <1>2, QuietKeeps
<1>4. req[c].pc \in {"wait", "resolve", "plan"}
  BY <1>1, <1>2 DEF SfxRequestsTyped
<1>5. SfxNewest' = SfxNewest /\ SfxUnfinished' = SfxUnfinished /\ (\A nr : NoBackup(nr)' <=> NoBackup(nr))
  BY <1>2 DEF SfxNewest, SfxUnfinished, NoBackup, fs
<1>6. CASE req[c].pc = "wait"
  <2>1. sfxGate # c /\ sfxUp = "up"
    BY <1>6, ClientFacts
  <2>2. req' = [req EXCEPT ![c] = SfxIdle] /\ sfxGate' = sfxGate
    BY <1>2, <2>1 DEF Answer
  <2>3. SfxRequestsTyped'
    BY <1>1, <1>2, <2>2, SfxRequestsAre DEF SfxRequestsTyped, SfxIdle
  <2>4. SfxPhased'
    BY <1>1, <1>2, <1>5, <2>1, <2>2 DEF SfxPhased, SfxRequestsTyped, SfxIdle
  <2> QED
    BY <1>3, <2>3, <2>4 DEF SfxIInv, SfxContent
<1>7. CASE req[c].pc \in {"resolve", "plan"}
  <2>1. sfxGate = c /\ sfxUp = "up" /\ workers = {} /\ SfxUnfinished = {}
    BY <1>7, ClientFacts
  <2>2. /\ sfxGate' = NoOne /\ req' \in [SfxClients -> [pc : {"idle", "wait", "resolve", "plan", "begin", "run"},
                                                          m : SfxMutations, j : Nat]]
        /\ \A d \in SfxClients : req'[d].pc \in {"idle", "wait"}
    BY <1>2, <2>1, AnswerFacts
  <2>3. SfxRequestsTyped'
    BY <1>1, <1>2, <2>2 DEF SfxRequestsTyped
  <2>4. SfxPhased'
    BY <1>2, <1>5, <2>1, <2>2, NobodyAtGate
  <2> QED
    BY <1>3, <2>3, <2>4 DEF SfxIInv, SfxContent
<1> QED
  BY <1>4, <1>6, <1>7

(* The invariant holds at first. *)
LEMMA SfxInitially == SfxInit => SfxIInv
<1> SUFFICES ASSUME SfxInit PROVE SfxIInv
  OBVIOUS
<1>1. SfxRequestsTyped
  <2>1. SfxIdle \in [pc : {"idle", "wait", "resolve", "plan", "begin", "run"}, m : SfxMutations, j : Nat]
    BY SfxRequestsAre DEF SfxIdle
  <2>2. sfxJournal \in Seq([m : SfxMutations, state : {"planned", "applying", "committed", "failed"}])
    BY DEF SfxInit
  <2>3. req = [c \in SfxClients |-> SfxIdle] /\ workers = {} /\ sfxUp = "up" /\ sfxGate = NoOne
        /\ sfxOps = 0 /\ cancels = 0
    BY DEF SfxInit
  <2>4. refused \in BOOLEAN
    BY DEF SfxInit
  <2>5. req \in [SfxClients -> [pc : {"idle", "wait", "resolve", "plan", "begin", "run"}, m : SfxMutations, j : Nat]]
    BY <2>1, <2>3
  <2> QED
    BY <2>2, <2>3, <2>4, <2>5 DEF SfxRequestsTyped
<1>2. DOMAIN sfxJournal = {} /\ SfxUnfinished = {} /\ acked = {} /\ workers = {} /\ DOMAIN sfxFiles = {}
      /\ sfxFiles = <<>> /\ want = <<>> /\ req = [c \in SfxClients |-> SfxIdle] /\ sfxGate = NoOne /\ sfxUp = "up"
  BY DEF SfxInit, SfxUnfinished
<1>3. Visible(sfxFiles) = sfxFiles /\ IsTree(sfxFiles)
  BY <1>2 DEF Visible, IsTree
<1>4. SfxFilesTyped
  BY <1>2, <1>3 DEF SfxFilesTyped
<1>5. SfxOneEntry /\ SfxAcked /\ AckedThere
  BY <1>2 DEF SfxOneEntry, SfxAcked, AckedThere
<1>6. SfxPhased
  BY <1>2, SfxAssumption DEF SfxPhased, SfxIdle
<1>7. SfxKept
  BY <1>2, <1>3 DEF SfxKept, SfxShown
<1> QED
  BY <1>1, <1>4, <1>5, <1>6, <1>7 DEF SfxIInv

(* What is left of the invariant is kept by every step. *)
LEMMA LooseKept == SfxLoose /\ [SfxNext]_sfxVars /\ ~SfxServe => SfxLoose'
<1> SUFFICES ASSUME SfxLoose, [SfxNext]_sfxVars, ~SfxServe PROVE SfxLoose'
  OBVIOUS
<1>1. CASE UNCHANGED sfxVars
  <2>1. SfxFilesTyped'
    BY <1>1, FilesStay DEF SfxLoose, sfxVars
  <2>2. SfxRequestsTyped'
    BY <1>1 DEF SfxLoose, SfxRequestsTyped, sfxVars
  <2> QED
    BY <1>1, <2>1, <2>2 DEF SfxLoose, sfxVars
<1> QED
  BY <1>1, LooseAsks, LooseEnters, LooseSettles, LooseWorks, LooseStarts DEF SfxNext

(* The whole of it is kept where nothing is adrift after the step. *)
LEMMA SfxKeeps == SfxIInv /\ ~adrift /\ [SfxNext]_sfxVars /\ ~adrift' => SfxIInv'
<1> SUFFICES ASSUME SfxIInv, ~adrift, [SfxNext]_sfxVars, ~adrift' PROVE SfxIInv'
  OBVIOUS
<1>1. CASE UNCHANGED sfxVars
  <2>1. SfxContent'
    BY <1>1, QuietKeeps DEF SfxIInv, SfxContent, sfxVars, fs
  <2>2. SfxRequestsTyped'
    BY <1>1 DEF SfxIInv, SfxRequestsTyped, sfxVars
  <2>3. SfxPhased'
    BY <1>1 DEF SfxIInv, SfxPhased, sfxVars, SfxNewest, SfxUnfinished, NoBackup
  <2> QED
    BY <2>1, <2>2, <2>3 DEF SfxIInv, SfxContent
<1>2. ASSUME NEW c \in SfxClients, SfxCancel(c) PROVE SfxIInv'
  BY <1>2, CancelKeeps
<1>3. ASSUME NEW w \in workers, Detached(w) PROVE FALSE
  <2>1. SfxPhased /\ SfxOneEntry
    BY DEF SfxIInv
  <2>2. sfxUp = "up" /\ sfxGate # NoOne
    BY <1>3, <2>1 DEF Detached, SfxPhased, SfxIInv, SfxRequestsTyped
  <2>3. sfxGate \in SfxClients
    BY <2>2 DEF SfxIInv, SfxRequestsTyped
  <2>4. req[sfxGate].pc \in {"begin", "run"}
    BY <1>3, <2>1, <2>3 DEF SfxPhased, SfxIInv, SfxRequestsTyped
  <2>5. req[sfxGate].j = w.j
    BY <2>1, <2>3, <2>4 DEF SfxPhased, SfxOneEntry
  <2> QED
    BY <1>3, <2>3, <2>5 DEF Detached
<1>4. ASSUME SfxCrash PROVE SfxIInv'
  BY <1>4, DownKeeps DEF SfxCrash
<1> QED
  BY <1>1, <1>2, <1>3, <1>4, SubmitKeeps, UploadKeeps, AcquireKeeps, ResolveKeeps, SfxCreateJournalKeeps, BeginKeeps,
     SettleKeeps, ApplyStepKeeps, ApplyFailsKeeps, ReplayedKeeps, ReplayKeeps, SfxStartKeeps, ServeKeeps DEF SfxNext

(* Only a start that serves ends what is adrift. *)
LEMMA DriftEnds == adrift /\ [SfxNext]_sfxVars /\ ~SfxServe => adrift'
<1> SUFFICES ASSUME adrift, [SfxNext]_sfxVars, ~SfxServe PROVE adrift'
  OBVIOUS
<1>1. UNCHANGED adrift \/ \E c \in SfxClients : SfxCancel(c)
  BY DEF SfxNext, sfxVars, SfxSubmit, SfxUpload, SfxAcquire, ResolveUpload, SfxCreateJournal, BeginApply, Settle,
         ApplyStep, ApplyFails, Detached, Replayed, Replay, SfxCrash, SfxStart
<1>2. ASSUME NEW c \in SfxClients, SfxCancel(c) PROVE adrift'
  BY <1>2 DEF SfxCancel
<1>3. CASE UNCHANGED adrift
  BY <1>3, Zenon
<1> QED
  BY <1>1, <1>2, <1>3

(* So the invariant, in its two parts, is inductive. *)
LEMMA SfxInductive == SfxAlways /\ [SfxNext]_sfxVars => SfxAlways'
<1> SUFFICES ASSUME SfxAlways, [SfxNext]_sfxVars PROVE SfxAlways'
  OBVIOUS
<1>1. SfxLoose /\ (~adrift => SfxIInv)
  BY DEF SfxAlways
<1>2. CASE SfxServe
  <2>1. SfxIInv'
    BY <1>1, <1>2, ServeEndsDrift, ServeKeeps
  <2>2. SfxIInv' => SfxLoose'
    BY LooseOf, PTL
  <2> QED
    BY <2>1, <2>2 DEF SfxAlways
<1>3. CASE ~SfxServe
  <2>1. SfxLoose'
    BY <1>1, <1>3, LooseKept
  <2>2. ~adrift' => SfxIInv'
    <3> SUFFICES ASSUME ~adrift' PROVE SfxIInv'
      OBVIOUS
    <3>1. ~adrift
      BY <1>3, DriftEnds
    <3> QED
      BY <1>1, <3>1, SfxKeeps
  <2> QED
    BY <2>1, <2>2 DEF SfxAlways
<1> QED
  BY <1>2, <1>3

(* The folder is what the clients were told: at rest the visible files are the result of *)
(* the mutations answered with success, and the file of an upload that was acknowledged  *)
(* is there until a later mutation of its path is entered, whatever fails or dies        *)
(* (execute_mutation, recover_sfx_mutations). Handlers may be dropped at any point: one  *)
(* dropped before its entry is made changes nothing, one dropped behind it (sfx.rs:602)  *)
(* suspends what is said until the next start has recovered.                             *)
THEOREM SoundsStayKept == SfxSpec => []SoundsKept
<1>1. SfxInit => SfxAlways
  BY SfxInitially, LooseOf DEF SfxAlways
<1>2. SfxAlways /\ [SfxNext]_sfxVars => SfxAlways'
  BY SfxInductive
<1>3. SfxAlways => SoundsKept
  BY DEF SfxAlways, SfxIInv, SfxKept, SfxShown, SoundsKept, ServedAsTold, AckedUploadKept, AckedThere
<1> QED
  BY <1>1, <1>2, <1>3, PTL DEF SfxSpec

(* A start serves the folder as it was before the mutation that was cut short or as it   *)
(* is after all of it, for every point at which it was cut and however often its replay  *)
(* was (publish_replacing_upload, publish_new_upload, finish_rename). A start after a    *)
(* handler was dropped behind its entry (sfx.rs:602) is excepted, the next one is not.   *)
THEOREM RecoveryIsWhole == SfxSpec => RecoveredWhole
<1>1. SfxInit => SfxAlways
  BY SfxInitially, LooseOf DEF SfxAlways
<1>2. SfxAlways /\ [SfxNext]_sfxVars => SfxAlways'
  BY SfxInductive
<1>3. SfxAlways => (SfxServe /\ ~adrift =>
                      Visible(sfxFiles) = want \/ \E m \in Plans : Visible(sfxFiles) = SfxApply(m, want))
  BY DEF SfxAlways, SfxIInv, SfxKept, SfxShown, SfxServe
<1>4. SfxAlways /\ [SfxNext]_sfxVars
        => [SfxServe /\ ~adrift =>
              Visible(sfxFiles) = want \/ \E m \in Plans : Visible(sfxFiles) = SfxApply(m, want)]_sfxVars
  BY <1>3
<1> QED
  BY <1>1, <1>2, <1>4, PTL DEF SfxSpec, RecoveredWhole

=============================================================================
