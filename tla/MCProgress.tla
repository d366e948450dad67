----------------------------- MODULE MCProgress -----------------------------
(***************************************************************************)
(* What must eventually happen, on smaller instances than the safety runs  *)
(* have.  The components share no state: each behaviour moves one of them, *)
(* as its part says, under the fairness of that component.                 *)
(*   queue     two rows over two lanes and builds, an end of the process   *)
(*   models    one batch of a model run, a stop and a fault                *)
(*   sounds    two uploads or moves of sound effects, a death, and a fault *)
(*             or the handler of an upload dropped behind its entry        *)
(*   restore   one restore, two deaths, a failing call                     *)
(*   vault     two clients, two sources, a failing write                   *)
(*   requests  a client that asks again while both catalogs change         *)
(***************************************************************************)
EXTENDS Jobs, ModelRuns, SfxMutation, StateRestore, CredentialVault, CatalogCommands, TLC

CONSTANT Parts
VARIABLE part

Analysis(version) == [lane |-> "local", schema_version |-> version, restartable |-> TRUE]
ModelRequest == [lane |-> "provider", schema_version |-> 1, restartable |-> FALSE]
MCKinds == {"analysis", "model"}
MCBuilds == {[analysis |-> Analysis(1), model |-> ModelRequest],
             [analysis |-> Analysis(2), model |-> NoHandler]}

Mode(presets, boards, cues) == [presets |-> presets, boards |-> boards, cues |-> cues]
Full == "m1" :> Mode("p1" :> 1, {"b1"}, "c1" :> "p1")
Less == "m1" :> Mode("p1" :> 3, {"b1"}, <<>>)
MCModeCatalogs == {Full, Less}
MCRequests == {[kind |-> "track", id |-> 1], [kind |-> "cue", id |-> "c1"], [kind |-> "folder", id |-> 0]}

MCInit ==
    /\ part \in Parts
    /\ Init /\ RunInit /\ SfxInit /\ RestoreInit /\ VaultInit /\ CatalogInit
    /\ registry.model = ModelRequest
    /\ part # "restore" => archive = "paired" /\ at = RestoreAbsent
    /\ profile[1].role = 0
MCNext ==
    /\ \/ part = "queue" /\ Next /\ UNCHANGED <<runVars, sfxVars, restoreVars, vaultVars, catalogVars>>
       \/ part = "models" /\ RunNext /\ UNCHANGED <<vars, sfxVars, restoreVars, vaultVars, catalogVars>>
       \/ /\ part = "sounds" /\ SfxNext /\ UNCHANGED <<vars, runVars, restoreVars, vaultVars, catalogVars>>
          /\ cancels' + sfxFaults' < 2 /\ (cancels' > cancels => \E j \in SfxUnfinished : sfxJournal[j].m.op = "publish_upload")
       \/ part = "restore" /\ RestoreNext /\ UNCHANGED <<vars, runVars, sfxVars, vaultVars, catalogVars>>
       \/ part = "vault" /\ VaultNext /\ UNCHANGED <<vars, runVars, sfxVars, restoreVars, catalogVars>>
       \/ part = "requests" /\ CatalogNext /\ UNCHANGED <<vars, runVars, sfxVars, restoreVars, vaultVars>>
    /\ UNCHANGED part
\* Each component's own fairness: Fairness, RunFairness, SfxFairSpec, RestoreFairSpec, VaultFairSpec, CatalogLiveSpec.
MCFairness ==
    /\ \A l \in Lanes : /\ WF_vars(part = "queue" /\ LaneStep(l))
                        /\ SF_vars(part = "queue" /\ (HandlerSucceeds(l) \/ HandlerFails(l)))
                        /\ WF_vars(part = "queue" /\ ShutdownInterrupts(l))
    /\ WF_vars(part = "queue" /\ SuperviseJobs) /\ WF_vars(part = "queue" /\ LanesJoined)
    /\ WF_vars(part = "queue" /\ StartJobCoordinator)
    /\ WF_runVars(part = "models" /\ RunStep)
    /\ \A r \in Runs : /\ WF_runVars(part = "models" /\ RunWork(r))
                       /\ SF_runVars(part = "models" /\ r \in Pending /\ Act(r, TRUE, TRUE, FALSE))
    /\ \A c \in SfxClients :
         /\ SF_sfxVars(part = "sounds" /\ SfxAcquire(c))
         /\ WF_sfxVars(part = "sounds" /\ (ResolveUpload(c) \/ SfxCreateJournal(c) \/ BeginApply(c)))
         /\ WF_sfxVars(part = "sounds" /\ \E w \in workers : Settle(c, w))
    /\ WF_sfxVars(part = "sounds" /\ \E w \in workers : ApplyStep(w) \/ Replayed(w))
    /\ WF_sfxVars(part = "sounds" /\ \E j \in SfxUnfinished : Replay(j))
    /\ WF_sfxVars(part = "sounds" /\ SfxStart) /\ WF_sfxVars(part = "sounds" /\ SfxServe)
    /\ \A c \in Cli : /\ WF_restoreVars(part = "restore" /\ RestoreStep(c))
                      /\ WF_restoreVars(part = "restore" /\ restoreJournal.kind # "none" /\ RestoreRecover(c))
    /\ \A c \in VaultClients : WF_vaultVars(part = "vault" /\ VaultStep(c))
    /\ \A c \in CatalogClients :
         /\ WF_catalogVars(part = "requests" /\ ClientStep(c))
         /\ WF_catalogVars(part = "requests" /\ CatalogAsk(c) /\ client[c].said = "changed")
    /\ WF_catalogVars(part = "requests" /\ PublishLibrary)
    /\ WF_catalogVars(part = "requests" /\ ShowStatus) /\ WF_catalogVars(part = "requests" /\ ShowModes)

MCSpec ==
    /\ MCInit
    /\ [][MCNext]_<<vars, runVars, sfxVars, restoreVars, vaultVars, catalogVars, part>>
    /\ MCFairness

(* What was begun ends: every queued job whatever crashes come in between, *)
(* every batch whose output the provider keeps, and the recovery of an     *)
(* interrupted write of the sound effects or of a restore.  The exception  *)
(* (a batch whose output has been deleted, batch.rs:255) is that of        *)
(* BatchEnds.                                                              *)
WorkEnds == EveryJobEnds /\ BatchEnds /\ SfxRecovers /\ RecoveryEnds

(* Every request is answered: of a credential, whoever holds the key, and  *)
(* of the catalogs, by a client that asks again when they have changed.    *)
(* The two exceptions, each a state the formula names: a lookup that takes *)
(* a second key behind a writer (Crossed, workflow.rs:162), and a batch    *)
(* that failed before its catalog was published (Unpublished,              *)
(* cleanup.rs:121).                                                        *)
RequestsAnswered == VaultAnswered /\ EventuallyAnswered
=============================================================================
