------------------------------- MODULE MCJobs -------------------------------
(***************************************************************************)
(* Small instances of Jobs, ModelRuns and ContextAnalysis, which share no  *)
(* state: each behaviour moves one of them, as its part says.              *)
(*   queue     two rows over two lanes and two builds, two stops: a        *)
(*             restartable analysis and a paid request that is never       *)
(*             restarted; the second build brings a new schema of the      *)
(*             analysis and no longer knows the request                    *)
(*   direct    two runs of two requests each, two stops, two faults        *)
(*   batch     two runs that submit batches and one incident, or one run   *)
(*             and two of them                                             *)
(*   context   two jobs over two tracks with a voice model and an edit or  *)
(*             a restart, or one job and both                              *)
(***************************************************************************)
EXTENDS Jobs, ModelRuns, ContextAnalysis

CONSTANT Parts
VARIABLE part

Analysis(version) == [lane |-> "local", schema_version |-> version, restartable |-> TRUE]
ModelRequest == [lane |-> "provider", schema_version |-> 1, restartable |-> FALSE]
MCKinds == {"analysis", "model"}
MCBuilds == {[analysis |-> Analysis(1), model |-> ModelRequest],
             [analysis |-> Analysis(2), model |-> NoHandler]}

QueuePart == part = "queue" /\ Next /\ UNCHANGED <<runVars, contextVars>>
RunsPart ==
    /\ part \in {"direct", "batch"}
    /\ RunNext
    /\ runJob'.kind \in {"none", "collect", part}
    /\ part = "batch" => runs' + runStops' + runFaults' + runEdits' <= 3 /\ runNow'.source = runNow.source
    /\ UNCHANGED <<vars, contextVars>>
ContextPart ==
    /\ part = "context" /\ ContextNext
    /\ ContextNextId' + contextEdits' + contextCrashes' <= 4
    /\ UNCHANGED <<vars, runVars>>

MCInit ==
    /\ part \in Parts
    /\ Init /\ RunInit /\ ContextInit
    /\ part # "queue" => registry.model = ModelRequest
    /\ part # "context" => voice = "ready"
    /\ profile[1].role = 0 /\ profile[2].role = IF part = "batch" THEN 1 ELSE 0
MCNext == (QueuePart \/ RunsPart \/ ContextPart) /\ UNCHANGED part
MCSpec == MCInit /\ [][MCNext]_<<vars, runVars, contextVars, part>>

(* What was paid for is not paid for again, and what a job has measured it *)
(* does not measure again, across retries, cancellations and restarts      *)
(* (the run ledger, tag_batch.json, the rows of the context analysis).     *)
NothingRepeated == NeverPaidTwice /\ MeasuredOnce
=============================================================================
