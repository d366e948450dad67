----------------------------- MODULE ModelRuns ------------------------------
(***************************************************************************)
(* Paid model runs that suggest tags: a run that asks the provider request *)
(* by request behind a write-ahead ledger, a run that submits one          *)
(* asynchronous batch, and the restartable collection of a batch           *)
(* (music-application assistant/model_jobs/tagging.rs and batch.rs,        *)
(* provider_usage.rs; music-storage model_batches.rs, analysis.rs).        *)
(*                                                                         *)
(* One job of the provider lane is active at a time (Jobs has the table):  *)
(* it is a sequence of awaits, and the process may stop between any two of *)
(* them.  A stop fails a run and starts a collection again.  A job that is *)
(* cancelled ends at one of the same points.                               *)
(*                                                                         *)
(* A request asks about one track; answers, tags and tokens are left out.  *)
(* The signature of a track's evidence is [role, vocab, source]: versions  *)
(* of the configured model, the vocabulary and the track.                  *)
(***************************************************************************)
EXTENDS Naturals, FiniteSets

CONSTANTS
    RunRequests,     \* tracks a run may ask about, a set of numbers
    RunModes,        \* the kinds of run an operator starts, of {"direct", "batch"}
    RequestLimit, \* limits.max_requests
    Retention,    \* the files the provider deletes by itself, of {"in", "out"}
    MaxRuns, RunMaxStops, RunMaxFaults, RunMaxEdits

ASSUME ModelRunsAssumption ==
    /\ RunRequests \subseteq Nat /\ IsFiniteSet(RunRequests)
    /\ RunModes \subseteq {"direct", "batch"} /\ Retention \subseteq {"in", "out"}
    /\ RequestLimit \in Nat /\ MaxRuns \in Nat /\ RunMaxStops \in Nat
    /\ RunMaxFaults \in Nat /\ RunMaxEdits \in Nat

RetryLimit == 2   \* MODEL_TAGGER_INVALID_RESPONSE_RETRY_LIMIT
Runs == 1..MaxRuns
RunNone == 0

VARIABLES
    runJob,      \* the active job of the provider lane
    ledger,   \* per run, the usage in its last checkpoint
    runSent,     \* history: per run, the requests the provider has received
    runBatch,    \* the table assistant_model_batches, by run
    remote,   \* the provider's batches, by run: a run submits at most once
    runFiles,    \* the provider's files: <<"in" or "out", run>>
    profile,  \* the stored model profile's signature, by track
    runNow,      \* [role, vocab, source]: the versions in force
    runs, runStops, runFaults, runEdits

runVars == <<runJob, ledger, runSent, runBatch, remote, runFiles, profile, runNow, runs, runStops, runFaults, runEdits>>
runBounds == <<runs, runStops, runFaults, runEdits>>

-----------------------------------------------------------------------------
Final == {"completed", "cancelled", "failed", "expired"}   \* is_terminal
RunNoBatch == [state |-> "absent", file |-> FALSE, remote |-> FALSE, asked |-> {},
               role |-> 0, vocab |-> 0, source |-> [i \in RunRequests |-> 0],
               usage |-> [attempted |-> 0, uncertain |-> 0, received |-> 0],
               result |-> "none", final |-> "none"]
NoRemote == [state |-> "absent", asked |-> {}, answered |-> {}]
NoUsage == [attempted |-> 0, uncertain |-> 0, received |-> 0]
RunNoJob == [kind |-> "none", pc |-> "", run |-> 0, role |-> 0, vocab |-> 0,
             source |-> [i \in RunRequests |-> 0], todo |-> {}, at |-> RunNone, outcome |-> "none",
             retries |-> 0, budget |-> 0, usage |-> NoUsage, record |-> RunNoBatch,
             cancel |-> FALSE, abandon |-> FALSE, found |-> FALSE, current |-> FALSE]

Pending == {r \in Runs : runBatch[r].state \notin Final \union {"absent"}}
RunSignature(r, v, s) == [role |-> r, vocab |-> v, source |-> s]
IsCurrent(i) == profile[i] = RunSignature(runNow.role, runNow.vocab, runNow.source[i])
Least(S) == CHOOSE i \in S : \A k \in S : i <= k

RunInit ==
  /\ runJob = RunNoJob
  /\ ledger = [r \in Runs |-> NoUsage] /\ runSent = [r \in Runs |-> 0]
  /\ runBatch = [r \in Runs |-> RunNoBatch] /\ remote = [r \in Runs |-> NoRemote]
  /\ runFiles = {}
  /\ profile \in [RunRequests -> {RunSignature(0, 0, 0), RunSignature(1, 1, 1)}]   \* of earlier runs
  /\ runNow = [role |-> 1, vocab |-> 1, source |-> [i \in RunRequests |-> 1]]
  /\ runs = 0 /\ runStops = 0 /\ runFaults = 0 /\ runEdits = 0

-----------------------------------------------------------------------------
(* Operators.  start_model_tagging freezes the role and the vocabulary; a   *)
(* role can change only while no job and no batch uses it.                  *)

RunStart ==
  /\ runJob = RunNoJob /\ runs < MaxRuns
  /\ runs' = runs + 1
  /\ \E mode \in RunModes :
       runJob' = [RunNoJob EXCEPT !.kind = mode, !.pc = "plan", !.run = runs + 1,
                                  !.role = runNow.role, !.vocab = runNow.vocab]
  /\ UNCHANGED <<ledger, runSent, runBatch, remote, runFiles, profile, runNow, runStops, runFaults, runEdits>>

\* model_batch_action: found stands for the remote id an operator looked up.
Act(r, cancel, abandon, found) ==
  /\ runJob = RunNoJob /\ runBatch[r].state # "absent"
  /\ found => remote[r].state # "absent"
  /\ runJob' = [RunNoJob EXCEPT !.kind = "collect", !.pc = "read", !.run = r,
                                !.cancel = cancel, !.abandon = abandon, !.found = found]
  /\ UNCHANGED <<ledger, runSent, runBatch, remote, runFiles, profile, runNow, runBounds>>

RunEdit(n) ==
  /\ runEdits < RunMaxEdits /\ runEdits' = runEdits + 1
  /\ runNow' = n
  /\ UNCHANGED <<runJob, ledger, runSent, runBatch, remote, runFiles, profile, runs, runStops, runFaults>>

\* replace_vocabulary; a change of a track's tags, context or catalog evidence
EditVocabulary == RunEdit([runNow EXCEPT !.vocab = @ + 1])
EditTrack == \E i \in RunRequests : RunEdit([runNow EXCEPT !.source[i] = @ + 1])

RunChangeRole == runJob = RunNoJob /\ Pending = {} /\ RunEdit([runNow EXCEPT !.role = @ + 1])

-----------------------------------------------------------------------------
(* Steps of a job.                                                         *)

RunEnd == runJob' = RunNoJob

\* A network call: answered, answered too late or not at all, or refused.
Faulty(o) ==
  /\ o # "ok" => runFaults < RunMaxFaults
  /\ runFaults' = IF o = "ok" THEN runFaults ELSE runFaults + 1

RunAt(kind, pc) == runJob.kind = kind /\ runJob.pc = pc

RunFresh == runJob.role = runNow.role /\ runJob.vocab = runNow.vocab

\* tagging_attempt_budget, capped by the limits of the run
Budget(n) ==
  LET all == IF n = 0 THEN 0 ELSE n + RetryLimit
  IN  IF all <= RequestLimit THEN all ELSE RequestLimit

\* Mutant: every track is asked about again.
PlanAll ==
  /\ runJob.kind \in {"direct", "batch"} /\ runJob.pc = "plan"
  /\ IF ~RunFresh THEN RunEnd
     ELSE runJob' = [runJob EXCEPT !.source = runNow.source, !.todo = RunRequests, !.retries = RetryLimit,
                                   !.budget = Budget(Cardinality(RunRequests)),
                                   !.pc = IF runJob.kind = "batch" THEN "reserve" ELSE "open"]
  /\ UNCHANGED <<ledger, runSent, runBatch, remote, runFiles, profile, runNow, runBounds>>

\* execute_tagging up to the plan: tracks whose profile is not current.
RunPlan ==
  /\ runJob.kind \in {"direct", "batch"} /\ runJob.pc = "plan"
  /\ LET todo == {i \in RunRequests : ~IsCurrent(i)}
     IN  IF ~RunFresh THEN RunEnd
         ELSE runJob' = [runJob EXCEPT !.source = runNow.source, !.todo = todo, !.retries = RetryLimit,
                                       !.budget = Budget(Cardinality(todo)),
                                       !.pc = IF runJob.kind = "batch" /\ todo # {} THEN "reserve"
                                              ELSE "open"]
  /\ UNCHANGED <<ledger, runSent, runBatch, remote, runFiles, profile, runNow, runBounds>>

-----------------------------------------------------------------------------
(* A direct run.                                                           *)

\* The pending batch is looked for and the run's first checkpoint written.
RunOpen ==
  /\ runJob.kind \in {"direct", "batch"} /\ runJob.pc = "open"
  /\ IF Pending # {} THEN RunEnd /\ UNCHANGED ledger
     ELSE /\ runJob' = [runJob EXCEPT !.pc = "next", !.kind = "direct"]
          /\ ledger' = [ledger EXCEPT ![runJob.run] = NoUsage]
  /\ UNCHANGED <<runSent, runBatch, remote, runFiles, profile, runNow, runBounds>>

\* ensure_feature_role_unchanged and ensure_vocabulary_unchanged of the next request
Pick ==
  /\ RunAt("direct", "next")
  /\ IF runJob.todo = {} \/ ~RunFresh THEN RunEnd
     ELSE runJob' = [runJob EXCEPT !.at = Least(runJob.todo), !.pc = "begin"]
  /\ UNCHANGED <<ledger, runSent, runBatch, remote, runFiles, profile, runNow, runBounds>>

\* Mutant: the attempt is checkpointed with its outcome only.
BeginUnrecorded ==
  /\ RunAt("direct", "begin")
  /\ IF runJob.usage.attempted >= runJob.budget THEN RunEnd
     ELSE runJob' = [runJob EXCEPT !.pc = "send", !.usage.attempted = @ + 1, !.usage.uncertain = @ + 1]
  /\ UNCHANGED <<ledger, runSent, runBatch, remote, runFiles, profile, runNow, runBounds>>

\* begin and the write-ahead checkpoint of execute_recorded_provider_request
RunBegin ==
  /\ RunAt("direct", "begin")
  /\ IF runJob.usage.attempted >= runJob.budget THEN RunEnd /\ UNCHANGED ledger
     ELSE /\ runJob' = [runJob EXCEPT !.pc = "send", !.usage.attempted = @ + 1,
                                      !.usage.uncertain = @ + 1]
          /\ ledger' = [ledger EXCEPT ![runJob.run] = runJob'.usage]
  /\ UNCHANGED <<runSent, runBatch, remote, runFiles, profile, runNow, runBounds>>

\* execute_structured_model_request
RunSend ==
  /\ RunAt("direct", "send")
  /\ \E o \in {"ok", "invalid", "lost", "refused"} :
       /\ Faulty(o)
       /\ runJob' = [runJob EXCEPT !.pc = "sent", !.outcome = o]
       /\ runSent' = IF o = "refused" THEN runSent ELSE [runSent EXCEPT ![runJob.run] = @ + 1]
  /\ UNCHANGED <<ledger, runBatch, remote, runFiles, profile, runNow, runs, runStops, runEdits>>

RunFinished(u, o) ==
  [u EXCEPT !.uncertain = IF o = "lost" THEN @ ELSE @ - 1,
            !.received = IF o \in {"ok", "invalid"} THEN @ + 1 ELSE @]

\* finish and its checkpoint
RunRecord ==
  /\ RunAt("direct", "sent")
  /\ runJob' = [runJob EXCEPT !.pc = "judge", !.usage = RunFinished(@, runJob.outcome)]
  /\ ledger' = [ledger EXCEPT ![runJob.run] = runJob'.usage]
  /\ UNCHANGED <<runSent, runBatch, remote, runFiles, profile, runNow, runBounds>>

\* An invalid answer is asked again while the run's allowance lasts.
Judge ==
  /\ RunAt("direct", "judge")
  /\ CASE runJob.outcome = "ok" /\ RunFresh -> runJob' = [runJob EXCEPT !.pc = "store"]
       [] runJob.outcome = "invalid" /\ runJob.retries > 0 ->
            runJob' = [runJob EXCEPT !.pc = "begin", !.retries = @ - 1]
       [] OTHER -> RunEnd
  /\ UNCHANGED <<ledger, runSent, runBatch, remote, runFiles, profile, runNow, runBounds>>

\* store_model_analysis of the tracks in S: a track that changed keeps its profile.
Stored(S, role, vocab, source) ==
  profile' = [i \in RunRequests |->
                IF i \in S /\ source[i] = runNow.source[i]
                THEN RunSignature(role, vocab, source[i]) ELSE profile[i]]

RunStore ==
  /\ RunAt("direct", "store")
  /\ Stored({runJob.at}, runJob.role, runJob.vocab, runJob.source)
  /\ runJob' = [runJob EXCEPT !.pc = "next", !.todo = @ \ {runJob.at}]
  /\ UNCHANGED <<ledger, runSent, runBatch, remote, runFiles, runNow, runBounds>>

-----------------------------------------------------------------------------
(* The submission of a batch.                                              *)

\* submit_tagging_batch up to create_model_batch: the whole batch is reserved.
RunCreate ==
  /\ RunAt("batch", "reserve")
  /\ IF Cardinality(runJob.todo) > RequestLimit \/ Pending # {} THEN RunEnd /\ UNCHANGED runBatch
     ELSE LET n == Cardinality(runJob.todo)
              record == [RunNoBatch EXCEPT !.state = "uploading", !.asked = runJob.todo,
                           !.role = runJob.role, !.vocab = runJob.vocab, !.source = runJob.source,
                           !.usage = [attempted |-> n, uncertain |-> n, received |-> 0]]
          IN  /\ runBatch' = [runBatch EXCEPT ![runJob.run] = record]
              /\ runJob' = [runJob EXCEPT !.pc = "ledger", !.record = record]
  /\ UNCHANGED <<ledger, runSent, remote, runFiles, profile, runNow, runBounds>>

Checkpoint ==
  /\ RunAt("batch", "ledger")
  /\ ledger' = [ledger EXCEPT ![runJob.run] = runJob.record.usage]
  /\ runJob' = [runJob EXCEPT !.pc = "upload"]
  /\ UNCHANGED <<runSent, runBatch, remote, runFiles, profile, runNow, runBounds>>

RunUpload ==
  /\ RunAt("batch", "upload")
  /\ \E o \in {"ok", "lost", "refused"} :
       /\ Faulty(o)
       /\ runFiles' = IF o = "refused" THEN runFiles ELSE runFiles \union {<<"in", runJob.run>>}
       /\ IF o = "ok" THEN runJob' = [runJob EXCEPT !.pc = "uploaded", !.record.file = TRUE] ELSE RunEnd
  /\ UNCHANGED <<ledger, runSent, runBatch, remote, profile, runNow, runs, runStops, runEdits>>

\* persist: the row must be in the state that was read.
Persist(next, pc) ==
  IF runBatch[runJob.run].state = runJob.record.state
  THEN /\ runBatch' = [runBatch EXCEPT ![runJob.run] = next]
       /\ runJob' = IF pc = "end" THEN RunNoJob ELSE [runJob EXCEPT !.pc = pc, !.record = next]
  ELSE RunEnd /\ UNCHANGED runBatch

Uploaded ==
  /\ RunAt("batch", "uploaded")
  /\ Persist([runJob.record EXCEPT !.state = "uploaded"], "submitting")
  /\ UNCHANGED <<ledger, runSent, remote, runFiles, profile, runNow, runBounds>>

Submitting ==
  /\ RunAt("batch", "submitting")
  /\ Persist([runJob.record EXCEPT !.state = "submitting"], "submit")
  /\ UNCHANGED <<ledger, runSent, remote, runFiles, profile, runNow, runBounds>>

RunSubmit ==
  /\ RunAt("batch", "submit")
  /\ \E o \in {"ok", "lost", "refused"} :
       /\ IF <<"in", runJob.run>> \in runFiles THEN Faulty(o)
          ELSE o = "refused" /\ UNCHANGED runFaults
       /\ remote' = IF o = "refused" THEN remote
                    ELSE [remote EXCEPT ![runJob.run] = [state |-> "in_progress",
                            asked |-> runJob.record.asked, answered |-> {}]]
       /\ runSent' = IF o = "refused" THEN runSent
                     ELSE [runSent EXCEPT ![runJob.run] = @ + Cardinality(runJob.record.asked)]
       /\ IF o = "ok" THEN runJob' = [runJob EXCEPT !.pc = "submitted", !.record.remote = TRUE] ELSE RunEnd
  /\ UNCHANGED <<ledger, runBatch, runFiles, profile, runNow, runs, runStops, runEdits>>

Submitted ==
  /\ RunAt("batch", "submitted")
  /\ Persist([runJob.record EXCEPT !.state = "submitted"], "end")
  /\ UNCHANGED <<ledger, runSent, remote, runFiles, profile, runNow, runBounds>>

-----------------------------------------------------------------------------
(* The collection of a batch.                                              *)

RunRead ==
  /\ RunAt("collect", "read")
  /\ LET b == runBatch[runJob.run]
         go(pc) == runJob' = [runJob EXCEPT !.pc = pc, !.record = b]
     IN  CASE b.state \in Final -> RunEnd
           [] b.state \notin Final /\ b.remote ->
                go(IF b.state = "results_saved" THEN "delete" ELSE "status")
           [] ~b.remote /\ b.state = "submitting" /\ runJob.cancel /\ runJob.abandon -> go("abandon")
           [] ~b.remote /\ b.state = "submitting" /\ ~(runJob.cancel /\ runJob.abandon) ->
                IF runJob.found THEN go("recover") ELSE RunEnd
           [] ~b.remote /\ b.state \in {"uploading", "uploaded"} ->
                IF runJob.cancel THEN go("drop") ELSE RunEnd
           [] OTHER -> RunEnd
  /\ UNCHANGED <<ledger, runSent, runBatch, remote, runFiles, profile, runNow, runBounds>>

RunAbandon ==
  /\ RunAt("collect", "abandon")
  /\ Persist([runJob.record EXCEPT !.state = "cancelled", !.result = "abandoned"], "end")
  /\ UNCHANGED <<ledger, runSent, remote, runFiles, profile, runNow, runBounds>>

\* The operator's id must be of this run and of its file.
RunRecover ==
  /\ RunAt("collect", "recover")
  /\ Persist([runJob.record EXCEPT !.state = "submitted", !.remote = TRUE], "status")
  /\ UNCHANGED <<ledger, runSent, remote, runFiles, profile, runNow, runBounds>>

\* A batch that was not submitted: its file is deleted, if it is known.
RunDrop ==
  /\ RunAt("collect", "drop")
  /\ \E o \in {"ok", "lost"} :
       /\ Faulty(o)
       /\ o = "lost" => runJob.record.file
       /\ runFiles' = IF runJob.record.file THEN runFiles \ {<<"in", runJob.run>>} ELSE runFiles
       /\ IF o = "ok" THEN runJob' = [runJob EXCEPT !.pc = "dropped"] ELSE RunEnd
  /\ UNCHANGED <<ledger, runSent, runBatch, remote, profile, runNow, runs, runStops, runEdits>>

Dropped ==
  /\ RunAt("collect", "dropped")
  /\ Persist([runJob.record EXCEPT !.state = "cancelled", !.result = "not_submitted"], "end")
  /\ UNCHANGED <<ledger, runSent, remote, runFiles, profile, runNow, runBounds>>

\* The status, the request to cancel a batch that still works, and the state that is kept.
Status ==
  /\ RunAt("collect", "status")
  /\ LET b == remote[runJob.run]
         asks == runJob.cancel /\ b.state # "cancelling"
     IN  \/ /\ b.state \notin Final /\ UNCHANGED runFaults
            /\ remote' = IF asks THEN [remote EXCEPT ![runJob.run].state = "cancelling"] ELSE remote
            /\ runJob' = [runJob EXCEPT !.pc = "kept", !.outcome =
                         IF runJob.cancel THEN "cancelling" ELSE b.state]
         \/ b.state \in Final /\ UNCHANGED <<remote, runFaults>>
            /\ runJob' = [runJob EXCEPT !.pc = "download", !.outcome = b.state]
         \/ Faulty("lost") /\ RunEnd /\ UNCHANGED remote
  /\ UNCHANGED <<ledger, runSent, runBatch, runFiles, profile, runNow, runs, runStops, runEdits>>

RunKept ==
  /\ RunAt("collect", "kept")
  /\ Persist([runJob.record EXCEPT !.state = runJob.outcome], "end")
  /\ UNCHANGED <<ledger, runSent, remote, runFiles, profile, runNow, runBounds>>

\* The output file; then the versions in force are compared once for all answers.
Download ==
  /\ RunAt("collect", "download")
  /\ LET answered == remote[runJob.run].answered
     IN  IF answered # {} /\ <<"out", runJob.run>> \notin runFiles THEN RunEnd
         ELSE runJob' = [runJob EXCEPT !.pc = "apply", !.todo = answered, !.usage = runJob.record.usage,
                        !.current = runJob.record.role = runNow.role /\ runJob.record.vocab = runNow.vocab]
  /\ UNCHANGED <<ledger, runSent, runBatch, remote, runFiles, profile, runNow, runBounds>>

\* One answer: counted from the usage of the submission, checkpointed, stored for review.
RunApply ==
  /\ RunAt("collect", "apply") /\ runJob.todo # {}
  /\ LET i == Least(runJob.todo)
         usage == RunFinished(runJob.usage, "ok")
     IN  /\ ledger' = [ledger EXCEPT ![runJob.run] = usage]
         /\ IF runJob.current /\ runJob.record.vocab # runNow.vocab THEN RunEnd /\ UNCHANGED profile
            ELSE /\ runJob' = [runJob EXCEPT !.todo = @ \ {i}, !.usage = usage]
                 /\ IF runJob.current
                    THEN Stored({i}, runJob.record.role, runJob.record.vocab, runJob.record.source)
                    ELSE UNCHANGED profile
  /\ UNCHANGED <<runSent, runBatch, remote, runFiles, runNow, runBounds>>

RunSave ==
  /\ RunAt("collect", "apply") /\ runJob.todo = {}
  /\ Persist([runJob.record EXCEPT !.state = "results_saved", !.usage = runJob.usage,
                !.result = IF runJob.current THEN "applied" ELSE "stale",
                !.final = runJob.outcome], "delete")
  /\ UNCHANGED <<ledger, runSent, remote, runFiles, profile, runNow, runBounds>>

\* The files are deleted, an absent one counts as deleted; a failure is retried later.
RunDelete ==
  /\ RunAt("collect", "delete")
  /\ \/ /\ runFiles' = runFiles \ {<<"in", runJob.run>>, <<"out", runJob.run>>} /\ UNCHANGED runFaults
        /\ runJob' = [runJob EXCEPT !.pc = "close"]
     \/ /\ Faulty("lost") /\ RunEnd
        /\ runFiles' \in {runFiles, runFiles \ {<<"in", runJob.run>>}}
  /\ UNCHANGED <<ledger, runSent, runBatch, remote, profile, runNow, runs, runStops, runEdits>>

Close ==
  /\ RunAt("collect", "close")
  /\ Persist([runJob.record EXCEPT !.state = runJob.record.final], "end")
  /\ UNCHANGED <<ledger, runSent, remote, runFiles, profile, runNow, runBounds>>

-----------------------------------------------------------------------------
(* The provider and the process.                                           *)

\* The provider ends a batch, with answers to some of what it was asked.
RunWork(r) ==
  /\ remote[r].state \in {"in_progress", "cancelling"}
  /\ \E s \in Final, A \in SUBSET remote[r].asked :
       /\ s = "completed" => A = remote[r].asked
       /\ s = "failed" => A = {}
       /\ s = "cancelled" => remote[r].state = "cancelling"
       /\ remote' = [remote EXCEPT ![r].state = s, ![r].answered = A]
       /\ runFiles' = IF A = {} THEN runFiles ELSE runFiles \union {<<"out", r>>}
  /\ UNCHANGED <<runJob, ledger, runSent, runBatch, profile, runNow, runBounds>>

\* The provider's retention: seven days for an input, thirty for an output.
Expire ==
  /\ \E f \in runFiles : f[1] \in Retention /\ runFiles' = runFiles \ {f}
  /\ UNCHANGED <<runJob, ledger, runSent, runBatch, remote, profile, runNow, runBounds>>

\* Only the collection is restartable.
RunStop ==
  /\ runJob # RunNoJob /\ runStops < RunMaxStops
  /\ runStops' = runStops + 1
  /\ runJob' = IF runJob.kind = "collect"
               THEN [RunNoJob EXCEPT !.kind = "collect", !.pc = "read", !.run = runJob.run,
                       !.cancel = runJob.cancel, !.abandon = runJob.abandon, !.found = runJob.found]
               ELSE RunNoJob
  /\ UNCHANGED <<ledger, runSent, runBatch, remote, runFiles, profile, runNow, runs, runFaults, runEdits>>

RunStep ==
  \/ RunPlan \/ RunOpen \/ Pick \/ RunBegin \/ RunSend \/ RunRecord \/ Judge \/ RunStore
  \/ RunCreate \/ Checkpoint \/ RunUpload \/ Uploaded \/ Submitting \/ RunSubmit \/ Submitted
  \/ RunRead \/ RunAbandon \/ RunRecover \/ RunDrop \/ Dropped \/ Status \/ RunKept
  \/ Download \/ RunApply \/ RunSave \/ RunDelete \/ Close

RunNext ==
  \/ RunStart \/ \E r \in Runs, c, a, f \in BOOLEAN : Act(r, c, a, f)
  \/ EditVocabulary \/ EditTrack \/ RunChangeRole
  \/ RunStep \/ RunStop \/ Expire \/ \E r \in Runs : RunWork(r)

(* The lane executes what it claimed, the provider ends every batch within *)
(* its completion window, and an operator insists on getting rid of a      *)
(* batch.                                                                  *)
RunFairness ==
  /\ WF_runVars(RunStep) /\ \A r \in Runs : WF_runVars(RunWork(r))
  /\ \A r \in Runs : SF_runVars(r \in Pending /\ Act(r, TRUE, TRUE, FALSE))

RunSpec == RunInit /\ [][RunNext]_runVars /\ RunFairness

-----------------------------------------------------------------------------
\* The types of the state, and at most one batch waits.
RunTypeOK ==
  /\ runJob.kind \in {"none", "direct", "batch", "collect"} /\ runJob.todo \subseteq RunRequests
  /\ \A r \in Runs : /\ ledger[r].attempted >= ledger[r].uncertain + ledger[r].received
                     /\ runBatch[r].asked \subseteq RunRequests
                     /\ remote[r].answered \subseteq remote[r].asked
  /\ runFiles \subseteq {"in", "out"} \X Runs
  /\ Cardinality(Pending) <= 1

Abandoned(r) == runBatch[r].result = "abandoned"
RunUnfinished(r) == remote[r].state \notin Final \union {"absent"}

(* What still runs at the provider is known here, unless an operator has   *)
(* abandoned it: its row waits, whatever was lost or interrupted           *)
(* (submit_tagging_batch, collect_tagging_batch).                          *)
NoUnknownBatch == \A r \in Runs : RunUnfinished(r) /\ ~Abandoned(r) => r \in Pending

(* A batch is submitted only when every earlier one has ended or was       *)
(* abandoned, and never twice for one run (create_model_batch, persist).   *)
NoSecondSubmission ==
  [][\A r \in Runs : runSent'[r] # runSent[r] /\ runJob.kind = "batch" =>
       /\ runSent[r] = 0
       /\ \A q \in Runs \ {r} : RunUnfinished(q) => Abandoned(q)]_runVars

(* Paid answers are at the provider until what they say is saved           *)
(* (collect_tagging_batch).                                                *)
PaidResultsKept ==
  \A r \in Runs : remote[r].answered # {} /\ ~Abandoned(r) =>
    <<"out", r>> \in runFiles \/ runBatch[r].result \in {"applied", "stale"}

(* A collection that was interrupted counts every answer once: the saved   *)
(* usage has what the provider answered and leaves the rest uncertain      *)
(* (ProviderUsageAccumulator::resume).                                     *)
AccountedOnce ==
  \A r \in Runs : runBatch[r].result \in {"applied", "stale"} =>
    runBatch[r].usage = [attempted |-> Cardinality(remote[r].asked),
                         received |-> Cardinality(remote[r].answered),
                         uncertain |-> Cardinality(remote[r].asked \ remote[r].answered)]

(* What the provider has received is in the run's last checkpoint, within  *)
(* its budget, though the process may stop at any await                    *)
(* (execute_recorded_provider_request, begin).                             *)
WriteAhead ==
  \A r \in Runs :
    runSent[r] <= ledger[r].attempted /\ ledger[r].attempted <= RequestLimit

(* No request is paid for a track whose stored profile is current: what an *)
(* earlier run has stored is reused (execute_tagging).                     *)
NotPaidAgain ==
  [][\A r \in Runs : runSent'[r] # runSent[r] /\ runJob.kind = "direct" => ~IsCurrent(runJob.at)]_runVars

(* The model a batch was asked with is still the configured one when its   *)
(* answers are collected (role_has_active_model_job).                      *)
RoleKept == \A r \in Pending : runBatch[r].role = runNow.role

(* What was paid is known and kept: the ledger, the batches at the         *)
(* provider, their answers, their account and their model agree.           *)
PaidIsKnown == WriteAhead /\ NoUnknownBatch /\ PaidResultsKept /\ AccountedOnce /\ RoleKept

\* Nothing is paid for twice, in either kind of run.
NeverPaidTwice == NotPaidAgain /\ NoSecondSubmission

(* A waiting batch does not wait for ever under an operator who insists.   *)
(* The exception: a provider that has deleted the output before anybody    *)
(* collected it.  Every collection then fails (model_jobs/batch.rs:255)    *)
(* and the row stays pending, where ADR-025:43 leads every batch to its    *)
(* end; the property is stated for Retention without "out".                *)
BatchEnds == \A r \in Runs : r \in Pending ~> r \notin Pending
=============================================================================
