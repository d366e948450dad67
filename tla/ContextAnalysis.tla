-------------------------- MODULE ContextAnalysis --------------------------
(***************************************************************************)
(* The job that measures the audio of the library: a parallel signal pass  *)
(* over the tracks that need one, then a voice pass over the stored rows.  *)
(* Every stored track is a checkpoint, so a restart of the process, or a   *)
(* retry of the job under a new identifier, resumes instead of decoding    *)
(* again.  Meanwhile files change, scans move the index on, and tracks are *)
(* converted and restored, which moves the audio that is measured.         *)
(*                                                                         *)
(* A source signature is the version of the measured file; versions only   *)
(* grow, and version 0 is a file, or a track, that is not there.           *)
(***************************************************************************)
EXTENDS Integers, FiniteSets, FiniteSetsExt

CONSTANTS
    NTracks,     \* tracks 1..NTracks of the library, in id order
    NJobs,       \* jobs 1..NJobs that may ever be created
    Workers,     \* analysis workers of the executor
    VoiceModes,  \* what the voice model may be after a start of the process
    ContextMaxEdits,    \* bound on what happens to the files
    ContextMaxCrashes,  \* bound on the restarts of the process
    ContextNone         \* no row, no run

ASSUME ContextBoundsAssumption ==
    /\ {NTracks, NJobs, Workers, ContextMaxEdits, ContextMaxCrashes} \subseteq Nat
    /\ Workers \in 1..4

(* The signature carries that of the voice model, so the modes of one       *)
(* behaviour agree on having one.                                           *)
ASSUME VoiceAssumption ==
    VoiceModes = {"none"} \/ (VoiceModes # {} /\ VoiceModes \subseteq {"ready", "unavailable"})

VARIABLES
    contextDisk,    \* disk[t]: version and place of the file that is measured
    contextIndex,   \* index[t]: the version the library has, and if it is a kept original
    row,     \* row[t]: the stored context
    failed,  \* failed[t]: the stored analysis failure
    contextJobs,    \* jobs[j]: the durable job records
    run,     \* the execution in progress
    voice,   \* the voice model of this process
    voiced,  \* voice attempts stored so far: <<job, track, version>>
    contextEdits,   \* what happened to the files so far
    contextCrashes  \* restarts so far

contextVars == <<contextDisk, contextIndex, row, failed, contextJobs, run, voice, voiced, contextEdits, contextCrashes>>
contextFiles == <<contextDisk, contextIndex, contextEdits>>
store == <<row, failed>>

ContextTracks == 1..NTracks
ContextJobIds == 1..NJobs
ContextAbsent == [status |-> "absent", force |-> FALSE, retry |-> 0]

(* A row remembers, besides what is stored, which job decoded the audio and *)
(* which version of the file it read.                                       *)
ContextRows == [sig : Nat, job : ContextJobIds, complete : {"partial", "full"},
                voice : {"pending", "unavailable", "not_configured", "classified"},
                by : ContextJobIds, content : Nat]
Failures == [sig : Nat, job : ContextJobIds, why : {"missing", "decode"}]
ContextActive == {"queued", "running", "cancel_requested"}

ContextTypeOK ==
    /\ contextDisk \in [ContextTracks -> [ver : Nat, at : {"library", "originals"}]]
    /\ contextIndex \in [ContextTracks -> [ver : Nat, kept : BOOLEAN]]
    /\ \A t \in ContextTracks : /\ row[t] # ContextNone => row[t] \in ContextRows
                                /\ failed[t] # ContextNone => failed[t] \in Failures
    /\ \A j \in ContextJobIds : contextJobs[j].status \in
          ContextActive \cup {"absent", "succeeded", "failed", "cancelled"}
    /\ run # ContextNone => /\ run.phase \in {"plan", "signal", "voice"}
                            /\ run.job \in ContextJobIds
                            /\ Cardinality({t \in ContextTracks : run.active[t] # ContextNone}) <= Workers
    /\ voice \in VoiceModes

ContextInit ==
    /\ contextDisk = [t \in ContextTracks |-> [ver |-> 1, at |-> "library"]]
    /\ contextIndex = [t \in ContextTracks |-> [ver |-> 1, kept |-> FALSE]]
    /\ row = [t \in ContextTracks |-> ContextNone]
    /\ failed = [t \in ContextTracks |-> ContextNone]
    /\ contextJobs = [j \in ContextJobIds |-> ContextAbsent]
    /\ run = ContextNone
    /\ voice \in VoiceModes
    /\ voiced = {}
    /\ contextEdits = 0
    /\ contextCrashes = 0

-----------------------------------------------------------------------------
(* Jobs of this kind: one may be active at a time, a retry is a new job     *)
(* that names the one it repeats and copies its parameters.                 *)

ContextNextId == Cardinality({j \in ContextJobIds : contextJobs[j].status # "absent"}) + 1

StartLibraryContextAnalysis(force) ==
    /\ ContextNextId \in ContextJobIds
    /\ \A j \in ContextJobIds : contextJobs[j].status \notin ContextActive
    /\ contextJobs' = [contextJobs EXCEPT ![ContextNextId] =
                  [status |-> "queued", force |-> force, retry |-> 0]]
    /\ UNCHANGED <<contextFiles, store, run, voice, voiced, contextCrashes>>

RetryJob(j) ==
    /\ ContextNextId \in ContextJobIds
    /\ contextJobs[j].status \in {"failed", "cancelled"}
    /\ contextJobs' = [contextJobs EXCEPT ![ContextNextId] =
                  [status |-> "queued", force |-> contextJobs[j].force, retry |-> j]]
    /\ UNCHANGED <<contextFiles, store, run, voice, voiced, contextCrashes>>

CancelJob(j) ==
    /\ contextJobs[j].status \in {"queued", "running"}
    /\ contextJobs' = [contextJobs EXCEPT ![j].status =
                  IF @ = "queued" THEN "cancelled" ELSE "cancel_requested"]
    /\ UNCHANGED <<contextFiles, store, run, voice, voiced, contextCrashes>>

(* The retried predecessors of job j whose results a forced retry reuses.   *)
(* A job is retried by a later one, so the history has no cycle, and only a *)
(* predecessor that still counts as retryable extends it.                   *)
retry_job_ids(j) ==
    LET chain[k \in ContextJobIds \cup {0}] ==
          IF k = 0 \/ contextJobs[k].status \notin {"failed", "cancelled"} THEN {}
          ELSE {k} \cup chain[contextJobs[k].retry]
    IN IF contextJobs[j].force THEN chain[contextJobs[j].retry] ELSE {}

ContextEnd(status) ==
           /\ contextJobs' = [contextJobs EXCEPT ![run.job].status = status]
           /\ run' = ContextNone

-----------------------------------------------------------------------------
(* The stored state, and the checks every write makes in its transaction.   *)

(* Kept or not, the original's facts are the identity of the audio. *)
context_source_signature(tracks, t) == tracks[t].ver

ContextCurrent(r, sig) == r # ContextNone /\ r.sig = sig

(* Mutant: the row is stamped with the version the index has by now.        *)
StampedNow(t, r) ==
    IF contextIndex[t].ver # 0
    THEN /\ row' = [row EXCEPT ![t] = [r EXCEPT !.sig = contextIndex[t].ver]]
         /\ failed' = [failed EXCEPT ![t] = ContextNone]
    ELSE UNCHANGED store

(* A context is stored only while the index still has the version it was    *)
(* made from; it replaces the failure of the track.                         *)
store_context(t, r) ==
    IF contextIndex[t].ver # 0 /\ context_source_signature(contextIndex, t) = r.sig
    THEN /\ row' = [row EXCEPT ![t] = r]
         /\ failed' = [failed EXCEPT ![t] = ContextNone]
    ELSE UNCHANGED store

store_context_failure(t, f) ==
    IF contextIndex[t].ver # 0 /\ context_source_signature(contextIndex, t) = f.sig
    THEN /\ failed' = [failed EXCEPT ![t] = f]
         /\ UNCHANGED row
    ELSE UNCHANGED store

-----------------------------------------------------------------------------
(* One execution. *)

(* The lane claims the oldest waiting job; the execution reads the tracks   *)
(* of its scope.                                                            *)
Execute ==
    /\ run = ContextNone
    /\ \E j \in ContextJobIds :
          /\ contextJobs[j].status = "queued"
          /\ \A k \in 1..(j - 1) : contextJobs[k].status # "queued"
          /\ contextJobs' = [contextJobs EXCEPT ![j].status = "running"]
          /\ run' = [phase |-> "plan", job |-> j, tracks |-> contextIndex, work |-> {},
                     active |-> [t \in ContextTracks |-> ContextNone],
                     voice |-> [t \in ContextTracks |-> ContextNone]]
    /\ UNCHANGED <<contextFiles, store, voice, voiced, contextCrashes>>

(* A forced run repeats current results, except partial rows and those that *)
(* this job or its retried predecessors stored.                             *)
SignalIsCurrent(t) ==
    LET r == row[t]
        sig == context_source_signature(run.tracks, t)
    IN /\ ContextCurrent(r, sig)
       /\ \/ r.complete = "partial"
          \/ ~contextJobs[run.job].force
          \/ r.job = run.job
          \/ r.job \in retry_job_ids(run.job)

PlanSignal ==
    /\ run # ContextNone /\ run.phase = "plan"
    /\ LET CurrentFailure(t) ==
             ContextCurrent(failed[t], context_source_signature(run.tracks, t))
           Settled(t) == \/ SignalIsCurrent(t) /\ ~CurrentFailure(t)
                         \/ CurrentFailure(t) /\ failed[t].job = run.job
       IN run' = [run EXCEPT !.phase = "signal",
                    !.work = {t \in ContextTracks : run.tracks[t].ver # 0 /\ ~Settled(t)}]
    /\ UNCHANGED <<contextFiles, store, contextJobs, voice, voiced, contextCrashes>>

(* The audio of a converted track is its kept original, as the tracks read  *)
(* at the start have it; 0 when no file is found there.                     *)
resolve_audio(t) ==
    IF contextDisk[t].at = IF run.tracks[t].kept THEN "originals" ELSE "library"
    THEN contextDisk[t].ver ELSE 0

Decoding == {t \in ContextTracks : run.active[t] # ContextNone}

StartDecode ==
    /\ run # ContextNone /\ run.phase = "signal" /\ run.work # {}
    /\ Cardinality(Decoding) < Workers
    /\ LET t == Min(run.work)
       IN run' = [run EXCEPT !.work = @ \ {t}, !.active[t] = resolve_audio(t)]
    /\ UNCHANGED <<contextFiles, store, contextJobs, voice, voiced, contextCrashes>>

(* What the signal pass prepares of the voice stage. *)
voice_placeholders ==
    CASE voice = "ready"       -> [complete |-> "partial", voice |-> "pending"]
      [] voice = "unavailable" -> [complete |-> "full", voice |-> "unavailable"]
      [] voice = "none"        -> [complete |-> "full", voice |-> "not_configured"]

(* The result of one track arrives, in any order, and is stored at once. *)
FinishDecode(t) ==
    /\ run # ContextNone /\ run.phase = "signal" /\ t \in Decoding
    /\ LET content == run.active[t]
           sig == context_source_signature(run.tracks, t)
           v == voice_placeholders
       IN \/ /\ content # 0
             /\ store_context(t, [sig |-> sig, job |-> run.job, complete |-> v.complete,
                                  voice |-> v.voice, by |-> run.job, content |-> content])
          \/ store_context_failure(t, [sig |-> sig, job |-> run.job,
                why |-> IF content = 0 THEN "missing" ELSE "decode"])
    /\ run' = [run EXCEPT !.active[t] = ContextNone]
    /\ UNCHANGED <<contextFiles, contextJobs, voice, voiced, contextCrashes>>

(* A panic in an analysis task fails the job and leaves the pool usable. *)
PanicDecode ==
    /\ run # ContextNone /\ run.phase = "signal" /\ Decoding # {}
    /\ ContextEnd("failed")
    /\ UNCHANGED <<contextFiles, store, voice, voiced, contextCrashes>>

(* A voice stage that was not reached is attempted; one that failed is      *)
(* attempted once by each job that is asked for.                            *)
voice_needs_attempt(r) ==
    \/ r.voice = "pending"
    \/ r.voice = "unavailable" /\ r.job # run.job

PlanVoice ==
    /\ run # ContextNone /\ run.phase = "signal" /\ run.work = {} /\ Decoding = {}
    /\ run' = [run EXCEPT !.phase = "voice",
                 !.voice = [t \in ContextTracks |->
                    IF /\ voice = "ready" /\ run.tracks[t].ver # 0
                       /\ ContextCurrent(row[t], context_source_signature(run.tracks, t))
                       /\ voice_needs_attempt(row[t])
                    THEN row[t] ELSE ContextNone]]
    /\ UNCHANGED <<contextFiles, store, contextJobs, voice, voiced, contextCrashes>>

VoiceWork == {t \in ContextTracks : run.voice[t] # ContextNone}

(* One track of the voice pass: the row read by the plan is patched with    *)
(* the outcome and becomes full.                                            *)
VoiceTrack ==
    /\ run # ContextNone /\ run.phase = "voice" /\ VoiceWork # {}
    /\ LET t == Min(VoiceWork)
           r == run.voice[t]
       IN /\ \E outcome \in {"unavailable"} \cup
                   (IF resolve_audio(t) # 0 THEN {"classified"} ELSE {}) :
                store_context(t, [r EXCEPT !.job = run.job, !.complete = "full",
                                           !.voice = outcome])
          /\ voiced' = voiced \cup {<<run.job, t, r.sig>>}
          /\ run' = [run EXCEPT !.voice[t] = ContextNone]
    /\ UNCHANGED <<contextFiles, contextJobs, voice, contextCrashes>>

ContextFinish ==
    /\ run # ContextNone /\ run.phase = "voice" /\ VoiceWork = {}
    /\ ContextEnd("succeeded")
    /\ UNCHANGED <<contextFiles, store, voice, voiced, contextCrashes>>

(* The passes poll for a cancellation between and during the tracks. *)
StopCancelled ==
    /\ run # ContextNone /\ contextJobs[run.job].status = "cancel_requested"
    /\ ContextEnd("cancelled")
    /\ UNCHANGED <<contextFiles, store, voice, voiced, contextCrashes>>

(* The process stops and starts again: the job is queued again, a cancelled *)
(* one ends, and the voice model is probed again.                           *)
ContextRestart ==
    /\ contextCrashes < ContextMaxCrashes
    /\ contextCrashes' = contextCrashes + 1
    /\ contextJobs' = [j \in ContextJobIds |->
          CASE contextJobs[j].status = "running" -> [contextJobs[j] EXCEPT !.status = "queued"]
            [] contextJobs[j].status = "cancel_requested" -> [contextJobs[j] EXCEPT !.status = "cancelled"]
            [] OTHER -> contextJobs[j]]
    /\ run' = ContextNone
    /\ voice' \in VoiceModes
    /\ UNCHANGED <<contextFiles, store, voiced>>

-----------------------------------------------------------------------------
(* The files and the index.  What a library mutation does to both is one    *)
(* step here: its journal is the subject of LibraryMutation.                *)

(* Someone replaces or removes a file of the library. *)
EditFile(t) ==
    /\ contextEdits < ContextMaxEdits
    /\ contextDisk[t].at = "library"
    /\ \E v \in {0, contextEdits + 2} : contextDisk' = [contextDisk EXCEPT ![t].ver = v]
    /\ contextEdits' = contextEdits + 1
    /\ UNCHANGED <<contextIndex, store, contextJobs, run, voice, voiced, contextCrashes>>

(* A scan of the library; the rows of a track that is gone go with it. *)
Scan(t) ==
    /\ contextIndex[t].ver # 0 /\ ~contextIndex[t].kept /\ contextIndex[t].ver # contextDisk[t].ver
    /\ contextIndex' = [contextIndex EXCEPT ![t].ver = contextDisk[t].ver]
    /\ IF contextDisk[t].ver = 0
       THEN /\ row' = [row EXCEPT ![t] = ContextNone]
            /\ failed' = [failed EXCEPT ![t] = ContextNone]
       ELSE UNCHANGED store
    /\ UNCHANGED <<contextDisk, contextEdits, contextJobs, run, voice, voiced, contextCrashes>>

(* A conversion runs in the same lane as the analysis; it keeps the         *)
(* original, whose facts stay the identity of the analysis.                 *)
ContextConvertTrack(t) ==
    /\ run = ContextNone
    /\ contextEdits < ContextMaxEdits
    /\ contextIndex[t].ver # 0 /\ ~contextIndex[t].kept /\ contextDisk[t].ver = contextIndex[t].ver
    /\ contextDisk' = [contextDisk EXCEPT ![t].at = "originals"]
    /\ contextIndex' = [contextIndex EXCEPT ![t].kept = TRUE]
    /\ contextEdits' = contextEdits + 1
    /\ UNCHANGED <<store, contextJobs, run, voice, voiced, contextCrashes>>

ContextRestoreTrack(t) ==
    /\ contextIndex[t].kept
    /\ contextDisk' = [contextDisk EXCEPT ![t].at = "library"]
    /\ contextIndex' = [contextIndex EXCEPT ![t].kept = FALSE]
    /\ UNCHANGED <<contextEdits, store, contextJobs, run, voice, voiced, contextCrashes>>

-----------------------------------------------------------------------------
ContextWork ==
    \/ Execute \/ PlanSignal \/ StartDecode \/ PlanVoice \/ VoiceTrack \/ ContextFinish
    \/ \E t \in ContextTracks : FinishDecode(t)

ContextNext ==
    \/ ContextWork \/ PanicDecode \/ StopCancelled \/ ContextRestart
    \/ \E force \in BOOLEAN : StartLibraryContextAnalysis(force)
    \/ \E j \in ContextJobIds : RetryJob(j) \/ CancelJob(j)
    \/ \E t \in ContextTracks : EditFile(t) \/ Scan(t) \/ ContextConvertTrack(t) \/ ContextRestoreTrack(t)

ContextSpec == ContextInit /\ [][ContextNext]_contextVars

(* The lane is a task that runs while the process does, and the executor's  *)
(* threads run every task given to them.                                    *)
ContextFairSpec == ContextSpec /\ WF_contextVars(ContextWork) /\ WF_contextVars(StopCancelled)

-----------------------------------------------------------------------------
Chain == {run.job} \cup retry_job_ids(run.job)
Unfailed(t) == ~ContextCurrent(failed[t], run.tracks[t].ver)

(* Neither a restart of the process nor a retry of the job decodes again    *)
(* what the job or its retried predecessors have decoded and stored, while  *)
(* the file has not changed and no failure was recorded since.  This is     *)
(* what the checkpoints of the signal pass are for.                         *)
NoRepeatedDecode ==
    [][\A t \in ContextTracks :
          (run # ContextNone /\ run' # ContextNone /\ t \in run.work \ run'.work) =>
             ~(/\ ContextCurrent(row[t], run.tracks[t].ver) /\ Unfailed(t)
               /\ row[t].by \in Chain)]_contextVars

(* A context that counts as current describes the file the library has,     *)
(* also when the file was replaced while it was being decoded: once the     *)
(* index agrees with the disk, a current row was read from that version.    *)
CurrentDescribesFile ==
    \A t \in ContextTracks :
       (ContextCurrent(row[t], contextIndex[t].ver) /\ contextDisk[t].ver = contextIndex[t].ver) =>
          row[t].content = contextIndex[t].ver

(* Each requested job stores one voice attempt for a version of a track,    *)
(* however often the process restarts: a failed attempt is a result.        *)
OneVoiceAttempt ==
    [][\A t \in ContextTracks :
          (run # ContextNone /\ VoiceTrack /\ t = Min(VoiceWork)) =>
             <<run.job, t, run.voice[t].sig>> \notin voiced]_contextVars

(* What a job has measured it does not measure again, in either pass. *)
MeasuredOnce == NoRepeatedDecode /\ OneVoiceAttempt

(* Every job that is requested ends, and so does every retry. *)
Ends ==
    \A j \in ContextJobIds : (contextJobs[j].status \in ContextActive) ~> (contextJobs[j].status \notin ContextActive)
=============================================================================
