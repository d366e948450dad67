-------------------------------- MODULE Jobs --------------------------------
(***************************************************************************)
(* The durable background jobs: the table background_jobs, the JobService  *)
(* that inserts, cancels and retries, and the two lane tasks that claim,   *)
(* execute and finish.  The table survives everything; the lanes live in   *)
(* one process at a time (the storage holds an exclusive instance lock),   *)
(* which may crash between any two steps, be asked to stop, or stop itself *)
(* because a lane lost its storage.                                        *)
(*                                                                         *)
(* Every storage call is one transaction behind one write gate, so it is   *)
(* one step here; two calls of one function are two steps.                 *)
(*                                                                         *)
(* Abstractions: a job's identity is its insertion rank, which is also the *)
(* order claim_next serves (created_at, rowid; the clock is not set back); *)
(* the UUID of an execution is the number of the attempt that made it,     *)
(* unique per job; parameters, results, progress texts and times are left  *)
(* out; wake-ups are left out because the idle poll makes them redundant.  *)
(***************************************************************************)
EXTENDS Naturals, FiniteSets

CONSTANTS
    MaxJobs,     \* bound: rows ever inserted
    MaxStops,    \* bound: ends of the server process
    Kinds,       \* job kinds
    UniqueKinds, \* the kinds the server only submits with enqueue_unique_active
    Lanes,       \* {"local", "provider"}
    Builds       \* the registries a server may start with: the build deployed
                 \* at each start, [Kinds -> definition or NoHandler]

Definition == [lane : Lanes, schema_version : Nat, restartable : BOOLEAN]
NoHandler == [lane |-> "", schema_version |-> 0, restartable |-> FALSE]

ASSUME JobsAssumption ==
    /\ MaxJobs \in Nat
    /\ MaxStops \in Nat
    /\ UniqueKinds \subseteq Kinds
    /\ "" \notin Lanes \cup Kinds
    /\ Builds # {}
    /\ Builds \subseteq [Kinds -> Definition \cup {NoHandler}]

JobIds == 1 .. MaxJobs
JobNone == 0

VARIABLES
    table,       \* table[j]: the row of job j
    registry,    \* the handlers of the running build
    process,     \* "up" or "down"
    shutdown,    \* JobService.shutdown, the cancellation token
    lane,        \* lane[l]: where run_lane stands
    stops        \* how often the process ended (bounded)

vars == <<table, registry, process, shutdown, lane, stops>>

\* JobStatus::is_active, JobStatus::can_retry
IsActive == {"queued", "running", "cancel_requested"}
CanRetry == {"failed", "cancelled"}
Terminal == {"succeeded", "failed", "cancelled"}
Leased   == {"running", "cancel_requested"}

\* JobFinish
Finishes == {"Succeeded", "Failed", "Cancelled", "Interrupted"}

Row == [status : IsActive \cup Terminal \cup {"absent"}, kind : Kinds \cup {""},
        lane : Lanes \cup {""}, schema_version : Nat, restartable : BOOLEAN,
        execution_id : Nat, attempts : Nat, retry_of_id : JobIds \cup {JobNone}]

Absent == [status |-> "absent", kind |-> "", lane |-> "", schema_version |-> 0,
           restartable |-> FALSE, execution_id |-> JobNone, attempts |-> 0,
           retry_of_id |-> JobNone]

Phases == {"top", "claim", "idle", "contract", "execute", "observe", "return",
           "finish", "exited", "failed"}

LaneState == [phase : Phases, job : JobIds \cup {JobNone}, execution_id : Nat,
              finish : Finishes \cup {"none"}]

AtTop == [phase |-> "top", job |-> JobNone, execution_id |-> JobNone, finish |-> "none"]
----------------------------------------------------------------------------
(* The table. *)

Inserted == {j \in JobIds : table[j].status # "absent"}

NextId == Cardinality(Inserted) + 1

\* insert_job: the contract of the running build is stored with the row.
InsertJob(k, retryOf) ==
    /\ NextId \in JobIds
    /\ table' = [table EXCEPT ![NextId] =
          [status |-> "queued", kind |-> k, lane |-> registry[k].lane,
           schema_version |-> registry[k].schema_version,
           restartable |-> registry[k].restartable,
           execution_id |-> JobNone, attempts |-> 0, retry_of_id |-> retryOf]]

\* lease_state
LeaseState(j, e) ==
    IF table[j].execution_id = e /\ table[j].status \in Leased
    THEN IF table[j].status = "running" THEN "Active" ELSE "CancellationRequested"
    ELSE "Lost"

\* Mutant of AppliedStatus: the executor's outcome wins over a requested cancellation.
MutantOutcomeWins(row, finish) ==
    CASE finish = "Succeeded" -> "succeeded"
      [] finish = "Failed" -> "failed"
      [] finish = "Cancelled" -> "cancelled"
      [] finish = "Interrupted" -> IF row.restartable THEN "queued" ELSE "failed"

\* apply_finish: a cancellation that was requested wins over every outcome.
AppliedStatus(row, finish) ==
    IF row.status = "cancel_requested" THEN "cancelled"
    ELSE CASE finish = "Succeeded"   -> "succeeded"
           [] finish = "Failed"      -> "failed"
           [] finish = "Cancelled"   -> "cancelled"
           [] finish = "Interrupted" -> IF row.restartable THEN "queued" ELSE "failed"

\* recover_interrupted: what becomes of one row when build b starts.
CanRestart(row, b) ==
    /\ b[row.kind] # NoHandler
    /\ b[row.kind].restartable
    /\ row.restartable
    /\ b[row.kind].schema_version = row.schema_version
    /\ b[row.kind].lane = row.lane

\* Mutant: recovery looks at "running" rows only.
MutantForgetsCancelling(row, b) ==
    IF row.status = "running"
    THEN [row EXCEPT !.status = IF CanRestart(row, b) THEN "queued" ELSE "failed",
                     !.execution_id = JobNone]
    ELSE row

Recovered(row, b) ==
    CASE row.status = "cancel_requested" ->
            [row EXCEPT !.status = "cancelled", !.execution_id = JobNone]
      [] row.status = "running" ->
            [row EXCEPT !.status = IF CanRestart(row, b) THEN "queued" ELSE "failed",
                        !.execution_id = JobNone]
      [] OTHER -> row
----------------------------------------------------------------------------
(* JobService: requests of clients and of other parts of the server. *)

Serving == process = "up"

\* enqueue
Enqueue(k) ==
    /\ Serving
    /\ k \notin UniqueKinds
    /\ registry[k] # NoHandler
    /\ InsertJob(k, JobNone)
    /\ UNCHANGED <<registry, process, shutdown, lane, stops>>

\* enqueue_unique_active: an active job of the kind is returned instead.
EnqueueUniqueActive(k) ==
    /\ Serving
    /\ k \in UniqueKinds
    /\ registry[k] # NoHandler
    /\ \A j \in JobIds : table[j].kind = k => table[j].status \notin IsActive
    /\ InsertJob(k, JobNone)
    /\ UNCHANGED <<registry, process, shutdown, lane, stops>>

\* cancel, request_cancellation
Cancel(j) ==
    /\ Serving
    /\ table[j].status \in {"queued", "running"}
    /\ table' = [table EXCEPT
          ![j].status = IF @ = "queued" THEN "cancelled" ELSE "cancel_requested",
          ![j].execution_id = IF table[j].status = "queued" THEN JobNone ELSE @]
    /\ UNCHANGED <<registry, process, shutdown, lane, stops>>

\* retry: a new row beside the old one, whatever else of its kind is active.
Retry(j) ==
    /\ Serving
    /\ table[j].status \in CanRetry
    /\ registry[table[j].kind] # NoHandler
    /\ InsertJob(table[j].kind, j)
    /\ UNCHANGED <<registry, process, shutdown, lane, stops>>
----------------------------------------------------------------------------
(* run_lane and execute_claim. *)

Move(l, s) == lane' = [lane EXCEPT ![l] = s]
GoTo(l, p) == lane' = [lane EXCEPT ![l].phase = p]
Conclude(l, f) == lane' = [lane EXCEPT ![l].phase = "finish", ![l].finish = f]

LaneRuns(l, p) == process = "up" /\ lane[l].phase = p

\* The head of the loop looks at the token once.
CheckShutdown(l) ==
    /\ LaneRuns(l, "top")
    /\ GoTo(l, IF shutdown THEN "exited" ELSE "claim")
    /\ UNCHANGED <<table, registry, process, shutdown, stops>>

Oldest(l) ==
    {j \in JobIds : /\ table[j].status = "queued" /\ table[j].lane = l
                    /\ \A i \in JobIds : (table[i].status = "queued" /\ table[i].lane = l)
                                            => j <= i}

\* claim_next finds a job.
ClaimNext(l) ==
    /\ LaneRuns(l, "claim")
    /\ \E j \in Oldest(l) :
          LET e == table[j].attempts + 1 IN
          /\ table' = [table EXCEPT ![j].status = "running",
                                    ![j].execution_id = e, ![j].attempts = e]
          /\ Move(l, [phase |-> "contract", job |-> j, execution_id |-> e,
                      finish |-> "none"])
    /\ UNCHANGED <<registry, process, shutdown, stops>>

\* claim_next finds none: the lane waits for a wake-up, the poll or the token.
ClaimNone(l) ==
    /\ LaneRuns(l, "claim")
    /\ Oldest(l) = {}
    /\ GoTo(l, "idle")
    /\ UNCHANGED <<table, registry, process, shutdown, stops>>

IdlePoll(l) ==
    /\ LaneRuns(l, "idle")
    /\ GoTo(l, IF shutdown THEN "exited" ELSE "top")
    /\ UNCHANGED <<table, registry, process, shutdown, stops>>

Mine(l) == table[lane[l].job]
MyLease(l) == LeaseState(lane[l].job, lane[l].execution_id)

\* A job whose handler is gone, or whose stored contract is not the handler's.
ContractHolds(row) ==
    /\ registry[row.kind] # NoHandler
    /\ registry[row.kind].schema_version = row.schema_version
    /\ registry[row.kind].lane = row.lane
    /\ registry[row.kind].restartable = row.restartable

CheckContract(l) ==
    /\ LaneRuns(l, "contract")
    /\ IF ContractHolds(Mine(l)) THEN GoTo(l, "execute") ELSE Conclude(l, "Failed")
    /\ UNCHANGED <<table, registry, process, shutdown, stops>>

\* The handler reports progress or a checkpoint: the update leaves the status
\* alone, and the lease is read by a second statement.
ReportProgress(l) ==
    /\ LaneRuns(l, "execute")
    /\ GoTo(l, "observe")
    /\ UNCHANGED <<table, registry, process, shutdown, stops>>

\* What the executor makes of ensure_active's verdict and of the handler's error.
Observed(l, ok) ==
    IF shutdown THEN Conclude(l, "Interrupted")
    ELSE CASE MyLease(l) = "Active"                -> ok
           [] MyLease(l) = "CancellationRequested" -> Conclude(l, "Cancelled")
           [] MyLease(l) = "Lost"                  -> Move(l, AtTop)

\* ensure_active inside the handler, which passes the error on.
Observe(l) ==
    /\ LaneRuns(l, "observe")
    /\ Observed(l, GoTo(l, "execute"))
    /\ UNCHANGED <<table, registry, process, shutdown, stops>>

HandlerSucceeds(l) ==
    /\ LaneRuns(l, "execute")
    /\ GoTo(l, "return")
    /\ UNCHANGED <<table, registry, process, shutdown, stops>>

\* Its own error, or a result that is not an object.
HandlerFails(l) ==
    /\ LaneRuns(l, "execute")
    /\ Conclude(l, "Failed")
    /\ UNCHANGED <<table, registry, process, shutdown, stops>>

\* check_cancelled after a success.
CheckCancelled(l) ==
    /\ LaneRuns(l, "return")
    /\ Observed(l, Conclude(l, "Succeeded"))
    /\ UNCHANGED <<table, registry, process, shutdown, stops>>

\* The select of execute_claim drops the handler at any of its awaits.
ShutdownInterrupts(l) ==
    /\ process = "up"
    /\ shutdown
    /\ lane[l].phase \in {"execute", "observe"}
    /\ Conclude(l, "Interrupted")
    /\ UNCHANGED <<table, registry, process, shutdown, stops>>

\* repository.finish: the lease and the status are read again.
Finish(l) ==
    /\ LaneRuns(l, "finish")
    /\ table' = IF MyLease(l) = "Lost" THEN table
                ELSE [table EXCEPT
                        ![lane[l].job].status = AppliedStatus(Mine(l), lane[l].finish),
                        ![lane[l].job].execution_id = JobNone]
    /\ Move(l, AtTop)
    /\ UNCHANGED <<registry, process, shutdown, stops>>

\* A storage call of the lane fails, or the handler panics: the task ends.
LaneFails(l) ==
    /\ process = "up"
    /\ stops < MaxStops
    /\ lane[l].phase \in {"claim", "execute", "observe", "return", "finish"}
    /\ GoTo(l, "failed")
    /\ UNCHANGED <<table, registry, process, shutdown, stops>>
----------------------------------------------------------------------------
(* The process. *)

LaneEnded(l) == lane[l].phase \in {"exited", "failed"}

\* A signal asks the server to stop.
BeginShutdown ==
    /\ process = "up"
    /\ ~shutdown
    /\ stops < MaxStops
    /\ shutdown' = TRUE
    /\ UNCHANGED <<table, registry, process, lane, stops>>

\* Mutant: the supervisor waits for both lanes to end.
MutantJoinsBoth ==
    /\ process = "up"
    /\ ~shutdown
    /\ \A l \in Lanes : LaneEnded(l)
    /\ shutdown' = TRUE
    /\ UNCHANGED <<table, registry, process, lane, stops>>

\* supervise_jobs: a lane that ended by itself stops the other one.
SuperviseJobs ==
    /\ process = "up"
    /\ ~shutdown
    /\ \E l \in Lanes : LaneEnded(l)
    /\ shutdown' = TRUE
    /\ UNCHANGED <<table, registry, process, lane, stops>>

MemoryLost ==
    /\ shutdown' = FALSE
    /\ lane' = [l \in Lanes |-> AtTop]

\* Both lanes are joined and the process ends.
LanesJoined ==
    /\ process = "up"
    /\ shutdown
    /\ \A l \in Lanes : LaneEnded(l)
    /\ process' = "down"
    /\ stops' = stops + 1
    /\ MemoryLost
    /\ UNCHANGED <<table, registry>>

\* The process is killed, or runs out of SHUTDOWN_TIMEOUT.
Crash ==
    /\ process = "up"
    /\ stops < MaxStops
    /\ process' = "down"
    /\ stops' = stops + 1
    /\ MemoryLost
    /\ UNCHANGED <<table, registry>>

\* start_job_coordinator: one transaction settles what the last process left.
StartJobCoordinator ==
    /\ process = "down"
    /\ \E b \in Builds :
          /\ registry' = b
          /\ table' = [j \in JobIds |-> IF table[j].status \in Leased
                                        THEN Recovered(table[j], b) ELSE table[j]]
    /\ process' = "up"
    /\ UNCHANGED <<shutdown, lane, stops>>
----------------------------------------------------------------------------
Init ==
    /\ table = [j \in JobIds |-> Absent]
    /\ registry \in Builds
    /\ process = "up"
    /\ shutdown = FALSE
    /\ lane = [l \in Lanes |-> AtTop]
    /\ stops = 0

Service ==
    \/ \E k \in Kinds : Enqueue(k) \/ EnqueueUniqueActive(k)
    \/ \E j \in JobIds : Cancel(j) \/ Retry(j)

\* The steps a lane task takes by itself.
LaneStep(l) ==
    \/ CheckShutdown(l) \/ ClaimNext(l) \/ ClaimNone(l) \/ IdlePoll(l)
    \/ CheckContract(l) \/ Observe(l) \/ CheckCancelled(l) \/ Finish(l)

\* The steps a handler decides on.
HandlerStep(l) == ReportProgress(l) \/ HandlerSucceeds(l) \/ HandlerFails(l)

Next ==
    \/ Service
    \/ \E l \in Lanes : \/ LaneStep(l) \/ HandlerStep(l)
                        \/ ShutdownInterrupts(l) \/ LaneFails(l)
    \/ BeginShutdown \/ SuperviseJobs \/ LanesJoined \/ Crash \/ StartJobCoordinator

Spec == Init /\ [][Next]_vars

(* Tokio runs a task that can run; a handler returns sooner or later (model  *)
(* requests have time limits and analyses are finite), a lane that ended     *)
(* stops the process, and the service manager starts a stopped server again. *)
Fairness ==
    /\ \A l \in Lanes : /\ WF_vars(LaneStep(l))
                        /\ SF_vars(HandlerSucceeds(l) \/ HandlerFails(l))
                        /\ WF_vars(ShutdownInterrupts(l))
    /\ WF_vars(SuperviseJobs)
    /\ WF_vars(LanesJoined)
    /\ WF_vars(StartJobCoordinator)

FairSpec == Spec /\ Fairness
----------------------------------------------------------------------------
TypeOK ==
    /\ table \in [JobIds -> Row]
    /\ registry \in Builds
    /\ process \in {"up", "down"}
    /\ shutdown \in BOOLEAN
    /\ lane \in [Lanes -> LaneState]
    /\ stops \in Nat

Holds(l, j) ==
    /\ lane[l].job = j
    /\ table[j].lane = l
    /\ lane[l].execution_id = table[j].execution_id

(***************************************************************************)
(* No orphan and no double execution.  While the server runs, a row that   *)
(* says "running" or "cancel_requested" is held by the lane it belongs to  *)
(* under the row's execution id, and a lane that holds a job finds its     *)
(* lease: the "Lost" answers of lease_state are never given, a crash       *)
(* leaves nothing half-claimed and a late executor cannot touch a row.     *)
(***************************************************************************)
EveryLeaseHeld ==
    process = "up" =>
        /\ \A j \in JobIds : table[j].status \in Leased => \E l \in Lanes : Holds(l, j)
        /\ \A l \in Lanes : lane[l].job # JobNone =>
              /\ table[lane[l].job].status \in Leased
              /\ Holds(l, lane[l].job)

(***************************************************************************)
(* The scheduling contract of docs/JOB_DIAGNOSTICS.md: within a lane jobs  *)
(* run in insertion order, recovery keeps a row's place.  A job is only    *)
(* started once every older job of its lane has ended.                     *)
(***************************************************************************)
OldestFirst ==
    \A i, j \in JobIds :
        (i < j /\ table[i].lane = table[j].lane /\ table[j].status \in Leased)
            => table[i].status \in Terminal

(***************************************************************************)
(* A job that may not be restarted (a paid model request) is started at    *)
(* most once, through crashes, stops, recoveries and changed builds.       *)
(***************************************************************************)
PaidAtMostOnce ==
    \A j \in JobIds : ~table[j].restartable => table[j].attempts <= 1

(***************************************************************************)
(* enqueue_unique_active admits one active job of a kind; only an explicit *)
(* retry puts a second one beside it.                                      *)
(***************************************************************************)
OneActiveUnlessRetried ==
    \A i, j \in JobIds :
        (/\ i # j
         /\ table[i].kind = table[j].kind
         /\ table[i].kind \in UniqueKinds
         /\ {table[i].status, table[j].status} \subseteq IsActive)
            => table[i].retry_of_id # JobNone \/ table[j].retry_of_id # JobNone

(* The contract of the queue: leases, order, payment, uniqueness. *)
QueueKept == EveryLeaseHeld /\ OldestFirst /\ PaidAtMostOnce /\ OneActiveUnlessRetried

(* What the table shows of a job, against the abstract lifecycle. *)
Lifecycle == INSTANCE JobLifecycle
                WITH JobIds      <- JobIds,
                     status      <- [j \in JobIds |-> table[j].status],
                     restartable <- [j \in JobIds |-> table[j].restartable],
                     starts      <- [j \in JobIds |-> table[j].attempts]

(***************************************************************************)
(* The table implements the lifecycle: a job ends once, an accepted        *)
(* cancellation is never overtaken by a success, and only a job whose      *)
(* stored contract allows it goes back to the queue.                       *)
(***************************************************************************)
ImplementsLifecycle == Lifecycle!Spec

(***************************************************************************)
(* Every job that was queued ends, whatever crashes and stops come in      *)
(* between: no wake-up is lost and no row is left behind by a dead lane.   *)
(***************************************************************************)
EveryJobEnds ==
    \A j \in JobIds : table[j].status = "queued" ~> table[j].status \in Terminal
=============================================================================
