------------------------------ MODULE MCStores ------------------------------
(***************************************************************************)
(* Small stores for ModeMutation, SfxMutation, StateRestore and            *)
(* StateBackup, which share no state: each behaviour moves one of them, as *)
(* its part says.                                                          *)
(*   crashes   mutations of three modes, two deaths of the process         *)
(*   edits     one mutation beside a user's edits of documents and lists   *)
(*   faults    two mutations, two failing calls                            *)
(*   sounds    two clients of the sound effects, a death, a failing call   *)
(*             or a dropped handler                                        *)
(*   restore   two restores and a server, two deaths, a failing call       *)
(*   backup    a backup beside the server's writes                         *)
(***************************************************************************)
EXTENDS ModeMutation, SfxMutation, StateRestore, StateBackup, TLC

CONSTANT Parts
VARIABLE part

\* One mode with all documents, one without a soundboard, one not there.
ThreeModes == [full  |-> [manifest |-> "default", board |-> "a", preset |-> "a"],
               plain |-> [manifest |-> "plain", board |-> "none", preset |-> "a"],
               new   |-> NoBundle]
\* A user breaks, replaces or removes a document, or names a default soundboard.
HandEdits ==
    [mode : {"plain"}, doc : {"preset"}, value : {"broken", "none"}]
    \union [mode : {"plain"}, doc : {"manifest"}, value : {"default"}]
    \union [mode : {"new"}, doc : {"manifest"}, value : {"plain"}]

Asking(modes) == \E m \in Mutations : m.mode \in modes /\ Ask(m)
ModeStep ==
    \/ Coordinator \/ Start
    \/ CASE part = "crashes" -> Asking(Modes) \/ (snapshot.gen < 2 /\ PerformReload) \/ (j + crashes < 3 /\ Crash)
         [] part = "edits"   -> \/ j = 0 /\ Asking({"plain", "new"})
                                \/ snapshot.gen < 2 /\ PerformReload
                                \/ crashes = 0 /\ Crash
                                \/ EditLists \/ \E e \in Edits : Edit(e)
         [] part = "faults"  -> Asking({"plain", "new"}) \/ (snapshot.gen < 2 /\ PerformReload)
ModesPart ==
    /\ part \in {"crashes", "edits", "faults"}
    /\ ModeStep
    /\ part # "faults" => faults' = 0
    /\ UNCHANGED <<sfxVars, restoreVars, backupVars>>
\* One name in the folders, two beside them.
Near(p) == p[1] = Root \/ p[2][2] = 1
SoundsPart ==
    /\ part = "sounds" /\ SfxNext /\ cancels' + sfxFaults' < 2
    /\ \A c \in SfxClients : Near(req'[c].m.src) /\ (req[c] # SfxIdle \/ Near(req'[c].m.dst))
    /\ UNCHANGED <<vars, restoreVars, backupVars>>
RestorePart == part = "restore" /\ RestoreNext /\ UNCHANGED <<vars, sfxVars, backupVars>>
BackupPart == part = "backup" /\ BackupNext /\ UNCHANGED <<vars, sfxVars, restoreVars>>

\* A part that is not at work stays in one state.
MCInit ==
    /\ part \in Parts
    /\ Init /\ SfxInit /\ RestoreInit /\ BackupInit
    /\ part # "backup" => backupKey = "k1" /\ backupModes = [f \in Files |-> 0]
    /\ part # "restore" => archive = "paired" /\ at = RestoreAbsent
MCNext == (ModesPart \/ SoundsPart \/ RestorePart \/ BackupPart) /\ UNCHANGED part
MCSpec == MCInit /\ [][MCNext]_<<vars, sfxVars, restoreVars, backupVars, part>>

MCSymmetry == Permutations(SfxClients) \union Permutations(Cli)

(* A recovery, a restore and a backup are whole or nothing: the folder of   *)
(* sound effects is served as before a mutation or as after it, the paths   *)
(* of an installation change together, and an archive carries the key it    *)
(* was made under (recover_sfx_mutations, commit_restore, rollback_restore, *)
(* BackupService::prepare).  The exceptions are those of RecoveredWhole (a  *)
(* handler dropped behind its entry) and of DeliveredPaired (a key replaced *)
(* before it is first read).                                                *)
WholeOrNothing == RecoveredWhole /\ AllOrNothing /\ DeliveredPaired
============================================================================
