----------------------------- MODULE JobsProofs -----------------------------
(***************************************************************************)
(* The job queue, the paid requests a model job sends, and the             *)
(* measurements of a context job.                                          *)
(***************************************************************************)
EXTENDS Jobs, ModelRuns, ContextAnalysis, FiniteSetTheorems, WellFoundedInduction, TLAPS

-----------------------------------------------------------------------------
(***************************************************************************)
(* The contract of the job queue for every number of rows, kinds, lanes    *)
(* and deployed builds, and that the table implements JobLifecycle.        *)
(*                                                                         *)
(* QueueKept is not inductive.  Its order needs that a new row comes after *)
(* every other one (Dense) and that a lane about to claim holds nothing    *)
(* (LanesShaped, with the leases); its payments need that a job that may   *)
(* not restart is never put back (RowsShaped); its leases need that a dead *)
(* process left no lane that remembers a job (DownHoldsNothing).           *)
(***************************************************************************)

(* Rows are numbered in the order of their insertion, without gaps. *)
Dense == \E n \in Nat : Inserted = 1 .. n

(* A entry is absent or complete, and a job that waits and may not be *)
(* restarted was never started.                                     *)
RowShaped(entry) ==
    /\ entry.status = "absent" => entry = Absent
    /\ entry.status # "absent" => entry.kind \in Kinds /\ entry.lane \in Lanes
    /\ entry.status = "queued" /\ ~entry.restartable => entry.attempts = 0

RowsShaped == \A j \in JobIds : RowShaped(table[j])

(* Which phases of a lane hold a job. *)
LaneShaped(s) ==
    /\ s.phase \in {"top", "claim", "idle", "exited"} => s.job = JobNone
    /\ s.phase \in {"contract", "execute", "observe", "return", "finish"}
          => s.job # JobNone
    /\ s.phase = "finish" => s.finish \in Finishes

LanesShaped == \A l \in Lanes : LaneShaped(lane[l])

DownHoldsNothing == process = "down" => lane = [l \in Lanes |-> AtTop]

QueueIInv ==
    /\ TypeOK
    /\ Dense
    /\ RowsShaped
    /\ LanesShaped
    /\ DownHoldsNothing
    /\ QueueKept
----------------------------------------------------------------------------
LEMMA JobIdsNat == \A j \in JobIds : j \in Nat /\ j # JobNone
<1>1. MaxJobs \in Nat
  BY JobsAssumption
<1>. QED  BY <1>1 DEF JobIds, JobNone

(* Every stored contract is one of a build: a handler the build knows has a *)
(* lane, a schema and a restart policy.                                     *)
LEMMA HandlerTyped ==
  ASSUME registry \in Builds, NEW k \in Kinds, registry[k] # NoHandler
  PROVE  /\ registry[k].lane \in Lanes
         /\ registry[k].schema_version \in Nat
         /\ registry[k].restartable \in BOOLEAN
<1>1. registry[k] \in Definition
  BY JobsAssumption
<1>. QED  BY <1>1 DEF Definition

(* The next id is the number of a entry that is absent, above all others. *)
LEMMA NextIdFresh ==
  ASSUME Dense, NextId \in JobIds
  PROVE  /\ table[NextId].status = "absent"
         /\ \A j \in Inserted : j < NextId
         /\ Inserted \cup {NextId} = 1 .. NextId
         /\ NextId \in Nat
<1>1. PICK n \in Nat : Inserted = 1 .. n
  BY DEF Dense
<1>2. NextId = n + 1
  <2>1. Cardinality(1 .. n) = n
    BY FS_Interval
  <2>. QED  BY <1>1, <2>1 DEF NextId
<1>3. NextId \notin Inserted
  BY <1>1, <1>2
<1>4. table[NextId].status = "absent"
  BY <1>3 DEF Inserted
<1>5. Inserted \cup {NextId} = 1 .. NextId
  BY <1>1, <1>2
<1>. QED  BY <1>1, <1>2, <1>4, <1>5

(* The first state. *)
LEMMA InitInv == Init => QueueIInv
<1> SUFFICES ASSUME Init PROVE QueueIInv
  OBVIOUS
<1>1. Absent \in Row /\ AtTop \in LaneState
  BY DEF Absent, Row, AtTop, LaneState, Phases, JobNone
<1>2. TypeOK
  BY <1>1 DEF Init, TypeOK
<1>3. Dense
  <2>1. Inserted = {}
    BY DEF Init, Inserted, Absent
  <2>2. Inserted = 1 .. 0
    BY <2>1
  <2>. QED  BY <2>2 DEF Dense
<1>4. RowsShaped
  BY DEF Init, RowsShaped, RowShaped, Absent
<1>5. LanesShaped
  BY DEF Init, LanesShaped, LaneShaped, AtTop
<1>6. QueueKept
  <2>1. /\ \A j \in JobIds : /\ table[j].status = "absent"
                             /\ table[j].attempts = 0
        /\ \A l \in Lanes : lane[l].job = JobNone
    BY DEF Init, Absent, AtTop
  <2>2. EveryLeaseHeld /\ OldestFirst
    BY <2>1 DEF EveryLeaseHeld, OldestFirst, Leased
  <2>3. PaidAtMostOnce /\ OneActiveUnlessRetried
    BY <2>1 DEF PaidAtMostOnce, OneActiveUnlessRetried, IsActive
  <2>. QED  BY <2>2, <2>3 DEF QueueKept
<1>7. DownHoldsNothing
  BY DEF Init, DownHoldsNothing
<1>. QED  BY <1>2, <1>3, <1>4, <1>5, <1>6, <1>7 DEF QueueIInv

(* A new entry: the kinds that are unique find no active entry of their kind, *)
(* or the entry is a retry.                                                 *)
LEMMA InsertInv ==
  ASSUME QueueIInv, NEW k \in Kinds, NEW r \in JobIds \cup {JobNone},
         registry[k] # NoHandler, InsertJob(k, r),
         \/ k \notin UniqueKinds
         \/ r # JobNone
         \/ \A j \in JobIds : table[j].kind = k => table[j].status \notin IsActive,
         UNCHANGED <<registry, process, shutdown, lane, stops>>
  PROVE  QueueIInv'
<1> DEFINE new == [status |-> "queued", kind |-> k, lane |-> registry[k].lane,
                   schema_version |-> registry[k].schema_version,
                   restartable |-> registry[k].restartable,
                   execution_id |-> JobNone, attempts |-> 0, retry_of_id |-> r]
           n == NextId
<1>1. /\ n \in JobIds
      /\ table' = [table EXCEPT ![n] = new]
      /\ table[n].status = "absent"
      /\ \A j \in Inserted : j < n
      /\ Inserted \cup {n} = 1 .. n
      /\ n \in Nat
  BY NextIdFresh DEF InsertJob, QueueIInv
<1>2. registry[k].lane \in Lanes /\ new \in Row
  BY HandlerTyped DEF QueueIInv, TypeOK, Row, IsActive, JobNone
<1>. HIDE DEF n
<1>3. /\ table \in [JobIds -> Row]
      /\ \A j \in JobIds : j # n => table'[j] = table[j]
      /\ table'[n] = new
  BY <1>1 DEF QueueIInv, TypeOK
<1>4. TypeOK'
  BY <1>1, <1>2 DEF QueueIInv, TypeOK
<1>5. Dense'
  <2>1. Inserted' = Inserted \cup {n}
    BY <1>1, <1>3 DEF Inserted
  <2>. QED  BY <1>1, <2>1 DEF Dense
<1>6. RowsShaped'
  BY <1>2, <1>3 DEF QueueIInv, RowsShaped, RowShaped
<1>7. LanesShaped' /\ DownHoldsNothing'
  BY DEF QueueIInv, LanesShaped, DownHoldsNothing
<1>8. EveryLeaseHeld'
  <2>1. \A j \in JobIds : table[j].status \in Leased \/ table'[j].status \in Leased
                            => table'[j] = table[j]
    BY <1>1, <1>3 DEF Leased
  <2>2. \A l \in Lanes : lane[l].job \in JobIds \cup {JobNone}
    BY DEF QueueIInv, TypeOK, LaneState
  <2>. QED  BY <2>1, <2>2 DEF QueueIInv, QueueKept, EveryLeaseHeld, Holds
<1>9. OldestFirst'
  <2> SUFFICES ASSUME NEW i \in JobIds, NEW j \in JobIds, i < j,
                      table'[i].lane = table'[j].lane, table'[j].status \in Leased
               PROVE  table'[i].status \in Terminal
    BY DEF OldestFirst
  <2>1. j # n /\ table'[j] = table[j]
    BY <1>3 DEF Leased
  <2>2. j \in Inserted
    BY <2>1 DEF Inserted, Leased
  <2>3. i # n
    BY <1>1, <2>2, JobIdsNat
  <2>. QED  BY <1>3, <2>1, <2>3 DEF QueueIInv, QueueKept, OldestFirst
<1>10. PaidAtMostOnce'
  BY <1>3 DEF QueueIInv, QueueKept, PaidAtMostOnce
<1>11. OneActiveUnlessRetried'
  BY <1>3 DEF QueueIInv, QueueKept, OneActiveUnlessRetried
<1>. QED  BY <1>4, <1>5, <1>6, <1>7, <1>8, <1>9, <1>10, <1>11 DEF QueueIInv, QueueKept

(* A lane goes on with what it holds: neither the table nor the process *)
(* changes.                                                             *)
LEMMA LaneMoveInv ==
  ASSUME QueueIInv, NEW l \in Lanes, process = "up", NEW s \in LaneState, LaneShaped(s),
         s.job = lane[l].job, s.execution_id = lane[l].execution_id,
         lane' = [lane EXCEPT ![l] = s],
         UNCHANGED <<table, registry, process, shutdown, stops>>
  PROVE  QueueIInv'
<1>1. /\ lane'[l] = s
      /\ \A m \in Lanes : m # l => lane'[m] = lane[m]
      /\ \A m \in Lanes : /\ lane'[m].job = lane[m].job
                          /\ lane'[m].execution_id = lane[m].execution_id
  BY DEF QueueIInv, TypeOK
<1>2. TypeOK'
  BY DEF QueueIInv, TypeOK
<1>3. Dense' /\ RowsShaped' /\ DownHoldsNothing'
  BY DEF QueueIInv, Dense, Inserted, RowsShaped, DownHoldsNothing
<1>4. LanesShaped'
  BY <1>1 DEF QueueIInv, LanesShaped
<1>5. EveryLeaseHeld'
  BY <1>1 DEF QueueIInv, QueueKept, EveryLeaseHeld, Holds
<1>6. OldestFirst' /\ PaidAtMostOnce' /\ OneActiveUnlessRetried'
  BY DEF QueueIInv, QueueKept, OldestFirst, PaidAtMostOnce, OneActiveUnlessRetried
<1>. QED  BY <1>2, <1>3, <1>4, <1>5, <1>6 DEF QueueIInv, QueueKept

(* The two ways a lane goes on. *)
LEMMA GoToInv ==
  ASSUME QueueIInv, NEW l \in Lanes, process = "up", NEW p \in Phases,
         LaneShaped([lane[l] EXCEPT !.phase = p]), GoTo(l, p),
         UNCHANGED <<table, registry, process, shutdown, stops>>
  PROVE  QueueIInv'
<1> DEFINE s == [lane[l] EXCEPT !.phase = p]
<1>1. lane[l] \in LaneState
  BY DEF QueueIInv, TypeOK
<1>2. s \in LaneState /\ s.job = lane[l].job /\ s.execution_id = lane[l].execution_id
  BY <1>1 DEF LaneState
<1>3. lane' = [lane EXCEPT ![l] = s]
  BY DEF GoTo
<1>. QED  BY <1>2, <1>3, LaneMoveInv

LEMMA ConcludeInv ==
  ASSUME QueueIInv, NEW l \in Lanes, process = "up", NEW f \in Finishes,
         lane[l].job # JobNone, Conclude(l, f),
         UNCHANGED <<table, registry, process, shutdown, stops>>
  PROVE  QueueIInv'
<1> DEFINE s == [lane[l] EXCEPT !.phase = "finish", !.finish = f]
<1>1. lane[l] \in LaneState
  BY DEF QueueIInv, TypeOK
<1>2. s \in LaneState /\ s.job = lane[l].job /\ s.execution_id = lane[l].execution_id
  BY <1>1 DEF LaneState, Phases
<1>3. LaneShaped(s)
  BY <1>1 DEF LaneShaped, LaneState
<1>4. lane' = [lane EXCEPT ![l] = s]
  BY DEF Conclude
<1>. QED  BY <1>2, <1>3, <1>4, LaneMoveInv

(* A lane that holds a job finds its lease. *)
LEMMA LeaseFound ==
  ASSUME QueueIInv, NEW l \in Lanes, process = "up", lane[l].job # JobNone
  PROVE  /\ lane[l].job \in JobIds
         /\ table[lane[l].job].status \in Leased
         /\ table[lane[l].job].lane = l
         /\ MyLease(l) \in {"Active", "CancellationRequested"}
<1>1. lane[l].job \in JobIds
  BY DEF QueueIInv, TypeOK, LaneState
<1>2. table[lane[l].job].status \in Leased /\ Holds(l, lane[l].job)
  BY DEF QueueIInv, QueueKept, EveryLeaseHeld
<1>. QED  BY <1>1, <1>2 DEF Holds, MyLease, LeaseState

(* The oldest waiting job of a lane is claimed. *)
LEMMA ClaimInv ==
  ASSUME QueueIInv, NEW l \in Lanes, ClaimNext(l)
  PROVE  QueueIInv'
<1>p. PICK j \in Oldest(l) :
          LET e == table[j].attempts + 1 IN
          /\ table' = [table EXCEPT ![j].status = "running",
                                    ![j].execution_id = e, ![j].attempts = e]
          /\ Move(l, [phase |-> "contract", job |-> j, execution_id |-> e,
                      finish |-> "none"])
  BY DEF ClaimNext
<1> DEFINE e == table[j].attempts + 1
           s == [phase |-> "contract", job |-> j, execution_id |-> e, finish |-> "none"]
           entry == [table[j] EXCEPT !.status = "running", !.execution_id = e,
                                   !.attempts = e]
<1>0. UNCHANGED <<registry, process, shutdown, stops>> /\ process = "up"
      /\ lane[l].phase = "claim"
  BY DEF ClaimNext, LaneRuns
<1>1. /\ j \in JobIds /\ table[j].status = "queued" /\ table[j].lane = l
      /\ \A i \in JobIds : table[i].status = "queued" /\ table[i].lane = l => j <= i
  BY DEF Oldest
<1>2. table[j] \in Row /\ e \in Nat /\ j # JobNone
  <2>1. table[j] \in Row
    BY <1>1 DEF QueueIInv, TypeOK
  <2>2. table[j].attempts \in Nat
    BY <2>1 DEF Row
  <2>3. j # JobNone
    BY <1>1, JobIdsNat
  <2>. QED  BY <2>1, <2>2, <2>3
<1>3. /\ table' = [table EXCEPT ![j] = entry]
      /\ lane' = [lane EXCEPT ![l] = s]
  BY <1>p DEF Move
<1>4. /\ entry \in Row /\ entry.status = "running" /\ entry.lane = l
      /\ entry.attempts = e /\ entry.execution_id = e /\ entry.kind = table[j].kind
      /\ entry.restartable = table[j].restartable
      /\ entry.retry_of_id = table[j].retry_of_id
  BY <1>1, <1>2 DEF Row, IsActive
<1>5. s \in LaneState /\ s.job = j /\ s.execution_id = e /\ LaneShaped(s)
  BY <1>1, <1>2 DEF LaneState, Phases, LaneShaped
<1>. HIDE DEF entry, s, e
<1>6. /\ table \in [JobIds -> Row] /\ lane \in [Lanes -> LaneState]
      /\ table'[j] = entry /\ \A i \in JobIds : i # j => table'[i] = table[i]
      /\ lane'[l] = s /\ \A m \in Lanes : m # l => lane'[m] = lane[m]
  BY <1>1, <1>3 DEF QueueIInv, TypeOK
<1>7. TypeOK'
  BY <1>0, <1>3, <1>4, <1>5 DEF QueueIInv, TypeOK
<1>8. Dense'
  <2>1. Inserted' = Inserted
    BY <1>1, <1>4, <1>6 DEF Inserted
  <2>. QED  BY <2>1 DEF QueueIInv, Dense
<1>9. RowsShaped'
  <2>1. RowShaped(table[j])
    BY <1>1 DEF QueueIInv, RowsShaped
  <2>2. RowShaped(entry)
    BY <1>1, <1>4, <2>1 DEF RowShaped
  <2>. QED  BY <1>6, <2>2 DEF QueueIInv, RowsShaped
<1>10. LanesShaped' /\ DownHoldsNothing'
  BY <1>0, <1>5, <1>6 DEF QueueIInv, LanesShaped, DownHoldsNothing
<1>11. lane[l].job = JobNone
  BY <1>0 DEF QueueIInv, LanesShaped, LaneShaped
<1>12. EveryLeaseHeld'
  <2>1. ASSUME NEW i \in JobIds, table'[i].status \in Leased
        PROVE  \E m \in Lanes : Holds(m, i)'
    <3>1. CASE i = j
      BY <1>4, <1>5, <1>6, <3>1 DEF Holds
    <3>2. CASE i # j
      <4>1. PICK m \in Lanes : Holds(m, i)
        BY <1>0, <1>6, <2>1, <3>2 DEF QueueIInv, QueueKept, EveryLeaseHeld
      <4>2. m # l
        BY <1>11, <4>1, JobIdsNat DEF Holds
      <4>. QED  BY <1>6, <3>2, <4>1, <4>2 DEF Holds
    <3>. QED  BY <3>1, <3>2
  <2>2. ASSUME NEW m \in Lanes, lane'[m].job # JobNone
        PROVE  (table[lane[m].job].status \in Leased)' /\ Holds(m, lane[m].job)'
    <3>1. CASE m = l
      BY <1>4, <1>5, <1>6, <3>1 DEF Holds, Leased
    <3>2. CASE m # l
      <4>1. lane'[m] = lane[m] /\ lane[m].job \in JobIds
        BY <1>6, <2>2, <3>2 DEF LaneState
      <4>2. table[lane[m].job].status \in Leased /\ Holds(m, lane[m].job)
        BY <1>0, <2>2, <4>1 DEF QueueIInv, QueueKept, EveryLeaseHeld
      <4>3. lane[m].job # j
        BY <1>1, <4>2 DEF Leased
      <4>. QED  BY <1>6, <4>1, <4>2, <4>3 DEF Holds
    <3>. QED  BY <3>1, <3>2
  <2>. QED  BY <2>1, <2>2 DEF EveryLeaseHeld
<1>13. OldestFirst'
  <2> SUFFICES ASSUME NEW i \in JobIds, NEW k \in JobIds, i < k,
                      table'[i].lane = table'[k].lane, table'[k].status \in Leased
               PROVE  table'[i].status \in Terminal
    BY DEF OldestFirst
  <2>1. \A h \in JobIds : table'[h].lane = table[h].lane
    BY <1>1, <1>4, <1>6
  <2>2. CASE k # j
    <3>1. table[i].status \in Terminal
      BY <1>6, <2>1, <2>2 DEF QueueIInv, QueueKept, OldestFirst
    <3>2. i # j
      BY <1>1, <3>1 DEF Terminal
    <3>. QED  BY <1>6, <3>1, <3>2
  <2>3. CASE k = j
    <3>1. i # j /\ table'[i] = table[i] /\ table[i].lane = l
      BY <1>1, <1>6, <2>1, <2>3, JobIdsNat
    <3>2. table[i].status # "queued"
      BY <1>1, <2>3, <3>1, JobIdsNat
    <3>3. table[i].status # "absent"
      <4>1. table[i].status = "absent" => table[i].lane = ""
        <5>1. table[i].status = "absent" => table[i] = Absent
          BY DEF QueueIInv, RowsShaped, RowShaped
        <5>2. Absent.lane = ""
          BY DEF Absent
        <5>. QED  BY <5>1, <5>2
      <4>. QED  BY <3>1, <4>1, JobsAssumption
    <3>4. table[i].status \notin Leased
      BY <1>0, <1>11, <3>1, JobIdsNat DEF QueueIInv, QueueKept, EveryLeaseHeld, Holds
    <3>5. table[i] \in Row
      BY <1>6
    <3>. QED  BY <3>1, <3>2, <3>3, <3>4, <3>5 DEF Row, IsActive, Leased
  <2>. QED  BY <2>2, <2>3
<1>14. PaidAtMostOnce'
  <2>1. ~entry.restartable => entry.attempts <= 1
    BY <1>1, <1>4 DEF QueueIInv, RowsShaped, RowShaped, e
  <2>. QED  BY <1>6, <2>1 DEF QueueIInv, QueueKept, PaidAtMostOnce
<1>15. OneActiveUnlessRetried'
  <2>1. \A i \in JobIds :
           /\ table'[i].kind = table[i].kind
           /\ table'[i].retry_of_id = table[i].retry_of_id
           /\ table'[i].status \in IsActive => table[i].status \in IsActive
    BY <1>1, <1>4, <1>6 DEF IsActive
  <2>. QED  BY <2>1 DEF QueueIInv, QueueKept, OneActiveUnlessRetried
<1>. QED  BY <1>7, <1>8, <1>9, <1>10, <1>12, <1>13, <1>14, <1>15 DEF QueueIInv, QueueKept

(* An active entry ends, is asked to stop, or is put back: what the entry says *)
(* of the queue is kept, whatever becomes of its lease.                    *)
LEMMA RowInv ==
  ASSUME QueueIInv, NEW j \in JobIds, NEW st, NEW x \in Nat,
         table' = [table EXCEPT ![j] = [table[j] EXCEPT !.status = st,
                                                        !.execution_id = x]],
         table[j].status \in IsActive,
         st \in Terminal \cup {"cancel_requested", "queued"},
         st = "queued" => table[j].status \in Leased /\ table[j].restartable,
         st = "cancel_requested" => table[j].status = "running"
  PROVE  /\ table' \in [JobIds -> Row]
         /\ Dense' /\ RowsShaped' /\ OldestFirst' /\ PaidAtMostOnce'
         /\ OneActiveUnlessRetried'
         /\ table'[j].status = st /\ table'[j].execution_id = x
         /\ table'[j].lane = table[j].lane
         /\ \A i \in JobIds : i # j => table'[i] = table[i]
<1> DEFINE entry == [table[j] EXCEPT !.status = st, !.execution_id = x]
<1>1. table \in [JobIds -> Row] /\ table[j] \in Row
  BY DEF QueueIInv, TypeOK
<1>2. /\ entry \in Row /\ entry.status = st /\ entry.lane = table[j].lane
      /\ entry.attempts = table[j].attempts /\ entry.execution_id = x
      /\ entry.kind = table[j].kind /\ entry.restartable = table[j].restartable
      /\ entry.retry_of_id = table[j].retry_of_id
  BY <1>1 DEF Row, IsActive
<1>3. table' = [table EXCEPT ![j] = entry]
  OBVIOUS
<1>. HIDE DEF entry
<1>4. /\ table' \in [JobIds -> Row]
      /\ table'[j] = entry /\ \A i \in JobIds : i # j => table'[i] = table[i]
  BY <1>1, <1>2, <1>3
<1>5. table[j].status # "absent" /\ st # "absent"
  BY DEF IsActive, Terminal
<1>6. Dense'
  <2>1. Inserted' = Inserted
    BY <1>2, <1>4, <1>5 DEF Inserted
  <2>. QED  BY <2>1 DEF QueueIInv, Dense
<1>7. RowsShaped'
  <2>1. RowShaped(table[j])
    BY DEF QueueIInv, RowsShaped
  <2>2. RowShaped(entry)
    BY <1>2, <1>5, <2>1 DEF RowShaped
  <2>. QED  BY <1>4, <2>2 DEF QueueIInv, RowsShaped
<1>8. OldestFirst'
  <2> SUFFICES ASSUME NEW i \in JobIds, NEW k \in JobIds, i < k,
                      table'[i].lane = table'[k].lane, table'[k].status \in Leased
               PROVE  table'[i].status \in Terminal
    BY DEF OldestFirst
  <2>1. \A h \in JobIds : table'[h].lane = table[h].lane
    BY <1>2, <1>4
  <2>2. table[k].status \in Leased
    BY <1>2, <1>4 DEF Leased, Terminal
  <2>3. table[i].status \in Terminal
    BY <2>1, <2>2 DEF QueueIInv, QueueKept, OldestFirst
  <2>4. i # j
    BY <2>3 DEF Terminal, IsActive
  <2>. QED  BY <1>4, <2>3, <2>4
<1>9. PaidAtMostOnce'
  BY <1>2, <1>4 DEF QueueIInv, QueueKept, PaidAtMostOnce
<1>10. OneActiveUnlessRetried'
  <2>1. \A i \in JobIds :
           /\ table'[i].kind = table[i].kind
           /\ table'[i].retry_of_id = table[i].retry_of_id
           /\ table'[i].status \in IsActive => table[i].status \in IsActive
    BY <1>2, <1>4
  <2>. QED  BY <2>1 DEF QueueIInv, QueueKept, OneActiveUnlessRetried
<1>. QED  BY <1>2, <1>4, <1>6, <1>7, <1>8, <1>9, <1>10

(* A cancellation: a waiting job ends, a running one keeps its lease. *)
LEMMA CancelInv ==
  ASSUME QueueIInv, NEW j \in JobIds, Cancel(j)
  PROVE  QueueIInv'
<1> DEFINE st == IF table[j].status = "queued" THEN "cancelled" ELSE "cancel_requested"
           x == IF table[j].status = "queued" THEN JobNone ELSE table[j].execution_id
<1>1. /\ process = "up" /\ table[j].status \in {"queued", "running"}
      /\ UNCHANGED <<registry, process, shutdown, lane, stops>>
  BY DEF Cancel, Serving
<1>2. table \in [JobIds -> Row] /\ table[j] \in Row
  BY DEF QueueIInv, TypeOK
<1>3. x \in Nat
  BY <1>2 DEF Row, JobNone
<1>4. table' = [table EXCEPT ![j] = [table[j] EXCEPT !.status = st, !.execution_id = x]]
  BY <1>2 DEF Cancel
<1>5. /\ table' \in [JobIds -> Row]
      /\ Dense' /\ RowsShaped' /\ OldestFirst' /\ PaidAtMostOnce'
      /\ OneActiveUnlessRetried'
      /\ table'[j].status = st /\ table'[j].execution_id = x
      /\ table'[j].lane = table[j].lane
      /\ \A i \in JobIds : i # j => table'[i] = table[i]
  <2>1. /\ table[j].status \in IsActive
        /\ st \in Terminal \cup {"cancel_requested", "queued"}
        /\ st # "queued"
        /\ st = "cancel_requested" => table[j].status = "running"
    BY <1>1 DEF IsActive, Terminal
  <2>. HIDE DEF st, x
  <2>. QED  BY <1>3, <1>4, <2>1, RowInv
<1>6. TypeOK'
  BY <1>1, <1>5 DEF QueueIInv, TypeOK
<1>7. LanesShaped' /\ DownHoldsNothing'
  BY <1>1 DEF QueueIInv, LanesShaped, DownHoldsNothing
<1>8. EveryLeaseHeld'
  <2>1. \A i \in JobIds :
           /\ table[i].status \in Leased <=> table'[i].status \in Leased
           /\ table[i].status \in Leased => table'[i].execution_id = table[i].execution_id
           /\ table'[i].lane = table[i].lane
    BY <1>1, <1>5 DEF Leased
  <2>2. \A l \in Lanes : lane[l].job \in JobIds \cup {JobNone}
    BY DEF QueueIInv, TypeOK, LaneState
  <2>. QED  BY <1>1, <2>1, <2>2 DEF QueueIInv, QueueKept, EveryLeaseHeld, Holds
<1>. QED  BY <1>5, <1>6, <1>7, <1>8 DEF QueueIInv, QueueKept

(* The end of an execution: the lease is found, the entry ends or goes back *)
(* to the queue, and the lane holds nothing.                              *)
LEMMA FinishInv ==
  ASSUME QueueIInv, NEW l \in Lanes, Finish(l)
  PROVE  QueueIInv'
<1> DEFINE j == lane[l].job
           st == AppliedStatus(table[j], lane[l].finish)
<1>1. /\ process = "up" /\ lane[l].phase = "finish"
      /\ UNCHANGED <<registry, process, shutdown, stops>>
      /\ lane' = [lane EXCEPT ![l] = AtTop]
  BY DEF Finish, LaneRuns, Move
<1>2. j # JobNone /\ lane[l].finish \in Finishes
  BY <1>1 DEF QueueIInv, LanesShaped, LaneShaped
<1>3. /\ j \in JobIds /\ table[j].status \in Leased /\ table[j].lane = l
      /\ MyLease(l) # "Lost"
  BY <1>1, <1>2, LeaseFound
<1>4. table \in [JobIds -> Row] /\ table[j] \in Row /\ lane \in [Lanes -> LaneState]
  BY <1>3 DEF QueueIInv, TypeOK
<1>5. /\ st \in Terminal \cup {"queued"}
      /\ st = "queued" => table[j].restartable
  BY <1>2 DEF AppliedStatus, Terminal, Finishes
<1>6. table' = [table EXCEPT ![j] = [table[j] EXCEPT !.status = st,
                                                     !.execution_id = JobNone]]
  BY <1>3, <1>4 DEF Finish, Mine
<1>7. /\ table' \in [JobIds -> Row]
      /\ Dense' /\ RowsShaped' /\ OldestFirst' /\ PaidAtMostOnce'
      /\ OneActiveUnlessRetried'
      /\ table'[j].status = st
      /\ \A i \in JobIds : i # j => table'[i] = table[i]
  <2>1. /\ table[j].status \in IsActive
        /\ st \in Terminal \cup {"cancel_requested", "queued"}
        /\ st = "queued" => table[j].status \in Leased /\ table[j].restartable
        /\ st # "cancel_requested"
        /\ JobNone \in Nat
    BY <1>3, <1>5 DEF IsActive, Leased, Terminal, JobNone
  <2>. HIDE DEF st, j
  <2>. QED  BY <1>3, <1>6, <2>1, RowInv
<1>8. AtTop \in LaneState /\ LaneShaped(AtTop) /\ AtTop.job = JobNone
  BY DEF AtTop, LaneState, Phases, LaneShaped, JobNone
<1>9. /\ lane'[l] = AtTop
      /\ \A m \in Lanes : m # l => lane'[m] = lane[m]
  BY <1>1, <1>4
<1>10. TypeOK'
  BY <1>1, <1>7, <1>8 DEF QueueIInv, TypeOK
<1>11. LanesShaped' /\ DownHoldsNothing'
  BY <1>1, <1>8, <1>9 DEF QueueIInv, LanesShaped, DownHoldsNothing
<1>12. EveryLeaseHeld'
  <2>1. ASSUME NEW i \in JobIds, table'[i].status \in Leased
        PROVE  \E m \in Lanes : Holds(m, i)'
    <3>1. i # j
      BY <1>5, <1>7, <2>1 DEF Leased, Terminal
    <3>2. PICK m \in Lanes : Holds(m, i)
      BY <1>1, <1>7, <2>1, <3>1 DEF QueueIInv, QueueKept, EveryLeaseHeld
    <3>3. m # l
      BY <3>1, <3>2 DEF Holds
    <3>. QED  BY <1>7, <1>9, <3>1, <3>2, <3>3 DEF Holds
  <2>2. ASSUME NEW m \in Lanes, lane'[m].job # JobNone
        PROVE  (table[lane[m].job].status \in Leased)' /\ Holds(m, lane[m].job)'
    <3>1. m # l /\ lane'[m] = lane[m] /\ lane[m].job \in JobIds
      BY <1>4, <1>8, <1>9, <2>2 DEF LaneState
    <3>2. table[lane[m].job].status \in Leased /\ Holds(m, lane[m].job)
      BY <1>1, <2>2, <3>1 DEF QueueIInv, QueueKept, EveryLeaseHeld
    <3>3. lane[m].job # j
      BY <1>3, <3>1, <3>2 DEF Holds
    <3>. QED  BY <1>7, <3>1, <3>2, <3>3 DEF Holds
  <2>. QED  BY <2>1, <2>2 DEF EveryLeaseHeld
<1>. QED  BY <1>7, <1>10, <1>11, <1>12 DEF QueueIInv, QueueKept

(* A new process settles what the last one left: no lease survives, no *)
(* entry that has ended is touched, and no paid request waits again.     *)
LEMMA RecoveredRow ==
  ASSUME NEW entry \in Row, NEW b \in Builds, RowShaped(entry), entry.status \in Leased
  PROVE  LET new == Recovered(entry, b) IN
         /\ new \in Row /\ RowShaped(new)
         /\ new.status \in Terminal \cup {"queued"}
         /\ new.status = "queued" => entry.restartable /\ entry.status = "running"
         /\ entry.status = "cancel_requested" => new.status = "cancelled"
         /\ entry.status = "running" => new.status \in {"queued", "failed"}
         /\ new.kind = entry.kind /\ new.retry_of_id = entry.retry_of_id
         /\ new.attempts = entry.attempts /\ new.restartable = entry.restartable
<1> DEFINE Set(st) == [entry EXCEPT !.status = st, !.execution_id = JobNone]
<1>1. \A st \in Terminal \cup {"queued"} :
         /\ Set(st) \in Row
         /\ Set(st).status = st
         /\ Set(st).lane = entry.lane
         /\ Set(st).kind = entry.kind /\ Set(st).retry_of_id = entry.retry_of_id
         /\ Set(st).attempts = entry.attempts /\ Set(st).restartable = entry.restartable
  BY DEF Row, IsActive, JobNone
<1>2. entry.status # "absent"
  BY DEF Leased
<1>3. \A st \in Terminal \cup {"queued"} :
         (st = "queued" => entry.restartable) => RowShaped(Set(st))
  BY <1>1, <1>2 DEF RowShaped, Terminal
<1>. HIDE DEF Set
<1>4. CASE entry.status = "cancel_requested"
  <2>1. Recovered(entry, b) = Set("cancelled")
    BY <1>4 DEF Recovered, Set
  <2>. QED  BY <1>1, <1>3, <1>4, <2>1 DEF Terminal
<1>5. CASE entry.status = "running" /\ CanRestart(entry, b)
  <2>1. Recovered(entry, b) = Set("queued") /\ entry.restartable
    BY <1>5 DEF Recovered, Set, CanRestart
  <2>. QED  BY <1>1, <1>3, <1>5, <2>1 DEF Terminal
<1>6. CASE entry.status = "running" /\ ~CanRestart(entry, b)
  <2>1. Recovered(entry, b) = Set("failed")
    BY <1>6 DEF Recovered, Set
  <2>. QED  BY <1>1, <1>3, <1>6, <2>1 DEF Terminal
<1>. QED  BY <1>4, <1>5, <1>6 DEF Leased

LEMMA StartInv ==
  ASSUME QueueIInv, StartJobCoordinator
  PROVE  QueueIInv'
<1>1. PICK b \in Builds :
         /\ registry' = b
         /\ table' = [j \in JobIds |-> IF table[j].status \in Leased
                                       THEN Recovered(table[j], b) ELSE table[j]]
  BY DEF StartJobCoordinator
<1>2. process = "down" /\ process' = "up" /\ UNCHANGED <<shutdown, lane, stops>>
  BY DEF StartJobCoordinator
<1>3. /\ \A j \in JobIds : table[j] \in Row /\ RowShaped(table[j])
      /\ lane = [l \in Lanes |-> AtTop]
  BY <1>2 DEF QueueIInv, TypeOK, RowsShaped, DownHoldsNothing
<1>4. \A j \in JobIds :
         /\ table'[j] \in Row /\ RowShaped(table'[j])
         /\ table'[j].status \notin Leased
         /\ table'[j].status = "absent" <=> table[j].status = "absent"
         /\ table'[j].status \in IsActive => table[j].status \in IsActive
         /\ table'[j].kind = table[j].kind
         /\ table'[j].retry_of_id = table[j].retry_of_id
         /\ table'[j].attempts = table[j].attempts
         /\ table'[j].restartable = table[j].restartable
  <2> SUFFICES ASSUME NEW j \in JobIds PROVE
         /\ table'[j] \in Row /\ RowShaped(table'[j])
         /\ table'[j].status \notin Leased
         /\ table'[j].status = "absent" <=> table[j].status = "absent"
         /\ table'[j].status \in IsActive => table[j].status \in IsActive
         /\ table'[j].kind = table[j].kind
         /\ table'[j].retry_of_id = table[j].retry_of_id
         /\ table'[j].attempts = table[j].attempts
         /\ table'[j].restartable = table[j].restartable
    OBVIOUS
  <2>1. CASE table[j].status \in Leased
    <3>1. table'[j] = Recovered(table[j], b)
      BY <1>1, <2>1
    <3>. QED  BY <1>3, <2>1, <3>1, RecoveredRow DEF Leased, Terminal, IsActive
  <2>2. CASE table[j].status \notin Leased
    <3>1. table'[j] = table[j]
      BY <1>1, <2>2
    <3>. QED  BY <1>3, <2>2, <3>1
  <2>. QED  BY <2>1, <2>2
<1>5. TypeOK'
  <2>1. table' \in [JobIds -> Row]
    BY <1>1, <1>4
  <2>. QED  BY <1>1, <1>2, <2>1 DEF QueueIInv, TypeOK
<1>6. Dense'
  <2>1. Inserted' = Inserted
    BY <1>4 DEF Inserted
  <2>. QED  BY <2>1 DEF QueueIInv, Dense
<1>7. RowsShaped'
  BY <1>4 DEF RowsShaped
<1>8. LanesShaped' /\ DownHoldsNothing'
  BY <1>2 DEF QueueIInv, LanesShaped, DownHoldsNothing
<1>9. EveryLeaseHeld'
  <2>1. \A l \in Lanes : lane'[l].job = JobNone
    BY <1>2, <1>3 DEF AtTop
  <2>. QED  BY <1>4, <2>1 DEF EveryLeaseHeld
<1>10. OldestFirst' /\ PaidAtMostOnce'
  BY <1>4 DEF QueueIInv, QueueKept, OldestFirst, PaidAtMostOnce
<1>11. OneActiveUnlessRetried'
  BY <1>4 DEF QueueIInv, QueueKept, OneActiveUnlessRetried
<1>. QED  BY <1>5, <1>6, <1>7, <1>8, <1>9, <1>10, <1>11 DEF QueueIInv, QueueKept

(* A process that ends forgets its lanes and leaves the table as it is. *)
LEMMA DeathInv ==
  ASSUME QueueIInv, process' = "down", stops' = stops + 1, MemoryLost,
         UNCHANGED <<table, registry>>
  PROVE  QueueIInv'
<1>1. AtTop \in LaneState /\ LaneShaped(AtTop)
  BY DEF AtTop, LaneState, Phases, LaneShaped, JobNone
<1>2. TypeOK'
  <2>1. shutdown' \in BOOLEAN /\ lane' \in [Lanes -> LaneState]
    BY <1>1 DEF MemoryLost
  <2>2. stops' \in Nat /\ process' \in {"up", "down"}
    BY DEF QueueIInv, TypeOK
  <2>. QED  BY <2>1, <2>2 DEF QueueIInv, TypeOK
<1>3. Dense' /\ RowsShaped'
  BY DEF QueueIInv, Dense, Inserted, RowsShaped
<1>4. LanesShaped' /\ DownHoldsNothing'
  BY <1>1 DEF LanesShaped, DownHoldsNothing, MemoryLost
<1>5. QueueKept'
  BY DEF QueueIInv, QueueKept, EveryLeaseHeld, OldestFirst, PaidAtMostOnce,
     OneActiveUnlessRetried
<1>. QED  BY <1>2, <1>3, <1>4, <1>5 DEF QueueIInv

(* Only the token of the lanes changes, or nothing. *)
LEMMA TokenInv ==
  ASSUME QueueIInv, shutdown' \in BOOLEAN, UNCHANGED <<table, registry, process, lane, stops>>
  PROVE  QueueIInv'
<1>1. TypeOK'
  BY DEF QueueIInv, TypeOK
<1>2. Dense' /\ RowsShaped' /\ LanesShaped' /\ DownHoldsNothing'
  BY DEF QueueIInv, Dense, Inserted, RowsShaped, LanesShaped, DownHoldsNothing
<1>3. QueueKept'
  BY DEF QueueIInv, QueueKept, EveryLeaseHeld, Holds, OldestFirst, PaidAtMostOnce,
     OneActiveUnlessRetried
<1>. QED  BY <1>1, <1>2, <1>3 DEF QueueIInv

(* What a lane makes of a verdict on its lease: never that it was lost. *)
LEMMA ObservedInv ==
  ASSUME QueueIInv, NEW l \in Lanes, process = "up", lane[l].job # JobNone,
         NEW ok \in BOOLEAN, Observed(l, ok), ok => QueueIInv',
         UNCHANGED <<table, registry, process, shutdown, stops>>
  PROVE  QueueIInv'
<1>1. MyLease(l) \in {"Active", "CancellationRequested"}
  BY LeaseFound
<1>2. \/ Conclude(l, "Interrupted")
      \/ Conclude(l, "Cancelled")
      \/ ok
  BY <1>1 DEF Observed
<1>. QED  BY <1>2, ConcludeInv DEF Finishes

LEMMA LaneInv ==
  ASSUME QueueIInv, NEW l \in Lanes,
         LaneStep(l) \/ HandlerStep(l) \/ ShutdownInterrupts(l) \/ LaneFails(l)
  PROVE  QueueIInv'
<1>1. LaneShaped(lane[l]) /\ lane[l] \in LaneState
  BY DEF QueueIInv, TypeOK, LanesShaped
<1>2. \A p \in Phases : /\ [lane[l] EXCEPT !.phase = p].phase = p
                        /\ [lane[l] EXCEPT !.phase = p].job = lane[l].job
                        /\ [lane[l] EXCEPT !.phase = p].finish = lane[l].finish
  BY <1>1 DEF LaneState
<1>3. CASE CheckShutdown(l)
  <2> DEFINE p == IF shutdown THEN "exited" ELSE "claim"
  <2>1. p \in Phases /\ LaneShaped([lane[l] EXCEPT !.phase = p])
    BY <1>1, <1>2, <1>3 DEF CheckShutdown, LaneRuns, LaneShaped, Phases
  <2>2. process = "up" /\ GoTo(l, p)
        /\ UNCHANGED <<table, registry, process, shutdown, stops>>
    BY <1>3 DEF CheckShutdown, LaneRuns
  <2>. HIDE DEF p
  <2>. QED  BY <2>1, <2>2, GoToInv
<1>4. CASE ClaimNext(l)
  BY <1>4, ClaimInv
<1>5. CASE ClaimNone(l)
  <2>1. "idle" \in Phases /\ LaneShaped([lane[l] EXCEPT !.phase = "idle"])
    BY <1>1, <1>2, <1>5 DEF ClaimNone, LaneRuns, LaneShaped, Phases
  <2>. QED  BY <1>5, <2>1, GoToInv DEF ClaimNone, LaneRuns
<1>6. CASE IdlePoll(l)
  <2> DEFINE p == IF shutdown THEN "exited" ELSE "top"
  <2>1. p \in Phases /\ LaneShaped([lane[l] EXCEPT !.phase = p])
    BY <1>1, <1>2, <1>6 DEF IdlePoll, LaneRuns, LaneShaped, Phases
  <2>2. process = "up" /\ GoTo(l, p)
        /\ UNCHANGED <<table, registry, process, shutdown, stops>>
    BY <1>6 DEF IdlePoll, LaneRuns
  <2>. HIDE DEF p
  <2>. QED  BY <2>1, <2>2, GoToInv
<1>7. CASE CheckContract(l)
  <2>1. lane[l].job # JobNone
    BY <1>1, <1>7 DEF CheckContract, LaneRuns, LaneShaped
  <2>2. "execute" \in Phases /\ LaneShaped([lane[l] EXCEPT !.phase = "execute"])
    BY <1>2, <2>1 DEF LaneShaped, Phases
  <2>3. CASE GoTo(l, "execute")
    BY <1>7, <2>2, <2>3, GoToInv DEF CheckContract, LaneRuns
  <2>4. CASE Conclude(l, "Failed")
    BY <1>7, <2>1, <2>4, ConcludeInv DEF CheckContract, LaneRuns, Finishes
  <2>. QED  BY <1>7, <2>3, <2>4 DEF CheckContract
<1>8. CASE Observe(l)
  <2>1. lane[l].job # JobNone /\ process = "up"
        /\ UNCHANGED <<table, registry, process, shutdown, stops>>
    BY <1>1, <1>8 DEF Observe, LaneRuns, LaneShaped
  <2>2. "execute" \in Phases /\ LaneShaped([lane[l] EXCEPT !.phase = "execute"])
    BY <1>2, <2>1 DEF LaneShaped, Phases
  <2>3. GoTo(l, "execute") => QueueIInv'
    BY <2>1, <2>2, GoToInv
  <2>4. GoTo(l, "execute") \in BOOLEAN
    BY DEF GoTo
  <2>. QED  BY <1>8, <2>1, <2>3, <2>4, ObservedInv DEF Observe
<1>9. CASE CheckCancelled(l)
  <2>1. lane[l].job # JobNone /\ process = "up"
        /\ UNCHANGED <<table, registry, process, shutdown, stops>>
    BY <1>1, <1>9 DEF CheckCancelled, LaneRuns, LaneShaped
  <2>2. Conclude(l, "Succeeded") => QueueIInv'
    BY <2>1, ConcludeInv DEF Finishes
  <2>3. Conclude(l, "Succeeded") \in BOOLEAN
    BY DEF Conclude
  <2>. QED  BY <1>9, <2>1, <2>2, <2>3, ObservedInv DEF CheckCancelled
<1>10. CASE Finish(l)
  BY <1>10, FinishInv
<1>11. CASE ReportProgress(l)
  <2>1. "observe" \in Phases /\ LaneShaped([lane[l] EXCEPT !.phase = "observe"])
    BY <1>1, <1>2, <1>11 DEF ReportProgress, LaneRuns, LaneShaped, Phases
  <2>. QED  BY <1>11, <2>1, GoToInv DEF ReportProgress, LaneRuns
<1>12. CASE HandlerSucceeds(l)
  <2>1. "return" \in Phases /\ LaneShaped([lane[l] EXCEPT !.phase = "return"])
    BY <1>1, <1>2, <1>12 DEF HandlerSucceeds, LaneRuns, LaneShaped, Phases
  <2>. QED  BY <1>12, <2>1, GoToInv DEF HandlerSucceeds, LaneRuns
<1>13. CASE HandlerFails(l)
  <2>1. lane[l].job # JobNone
    BY <1>1, <1>13 DEF HandlerFails, LaneRuns, LaneShaped
  <2>. QED  BY <1>13, <2>1, ConcludeInv DEF HandlerFails, LaneRuns, Finishes
<1>14. CASE ShutdownInterrupts(l)
  <2>1. lane[l].job # JobNone
    BY <1>1, <1>14 DEF ShutdownInterrupts, LaneShaped
  <2>. QED  BY <1>14, <2>1, ConcludeInv DEF ShutdownInterrupts, Finishes
<1>15. CASE LaneFails(l)
  <2>1. "failed" \in Phases /\ LaneShaped([lane[l] EXCEPT !.phase = "failed"])
    BY <1>2 DEF LaneShaped, Phases
  <2>. QED  BY <1>15, <2>1, GoToInv DEF LaneFails
<1>. QED  BY <1>3, <1>4, <1>5, <1>6, <1>7, <1>8, <1>9, <1>10, <1>11, <1>12, <1>13,
             <1>14, <1>15 DEF LaneStep, HandlerStep

LEMMA NextInv == QueueIInv /\ [Next]_vars => QueueIInv'
<1> SUFFICES ASSUME QueueIInv, [Next]_vars PROVE QueueIInv'
  OBVIOUS
<1>1. ASSUME NEW k \in Kinds, Enqueue(k) PROVE QueueIInv'
  <2>1. JobNone \in JobIds \cup {JobNone}
    OBVIOUS
  <2>. QED  BY <1>1, <2>1, InsertInv DEF Enqueue
<1>2. ASSUME NEW k \in Kinds, EnqueueUniqueActive(k) PROVE QueueIInv'
  <2>1. JobNone \in JobIds \cup {JobNone}
    OBVIOUS
  <2>. QED  BY <1>2, <2>1, InsertInv DEF EnqueueUniqueActive
<1>3. ASSUME NEW j \in JobIds, Cancel(j) PROVE QueueIInv'
  BY <1>3, CancelInv
<1>4. ASSUME NEW j \in JobIds, Retry(j) PROVE QueueIInv'
  <2>1. table[j].kind \in Kinds
    BY <1>4 DEF Retry, CanRetry, QueueIInv, RowsShaped, RowShaped
  <2>2. j # JobNone
    BY JobIdsNat
  <2>. QED  BY <1>4, <2>1, <2>2, InsertInv DEF Retry
<1>5. ASSUME NEW l \in Lanes,
             LaneStep(l) \/ HandlerStep(l) \/ ShutdownInterrupts(l) \/ LaneFails(l)
      PROVE  QueueIInv'
  BY <1>5, LaneInv
<1>6. CASE BeginShutdown \/ SuperviseJobs
  BY <1>6, TokenInv DEF BeginShutdown, SuperviseJobs
<1>7. CASE LanesJoined
  BY <1>7, DeathInv DEF LanesJoined
<1>8. CASE Crash
  BY <1>8, DeathInv DEF Crash
<1>9. CASE StartJobCoordinator
  BY <1>9, StartInv
<1>10. CASE UNCHANGED vars
  BY <1>10, TokenInv DEF vars, QueueIInv, TypeOK
<1>. QED  BY <1>1, <1>2, <1>3, <1>4, <1>5, <1>6, <1>7, <1>8, <1>9, <1>10
          DEF Next, Service

(***************************************************************************)
(* The job table, the lanes and the process keep their types.              *)
(***************************************************************************)
THEOREM JobsTypeCorrect == Spec => []TypeOK
<1>1. QueueIInv => TypeOK
  BY DEF QueueIInv
<1>. QED  BY <1>1, InitInv, NextInv, PTL DEF Spec

(***************************************************************************)
(* The contract of the queue, for every number of jobs, kinds, lanes,      *)
(* builds and stops: every lease is held by one lane, a lane runs its jobs *)
(* in the order of their insertion, a request that may not be restarted is *)
(* started at most once, and a unique kind has one active job unless a     *)
(* retry put a second one beside it.                                       *)
(***************************************************************************)
THEOREM QueueCorrect == Spec => []QueueKept
<1>1. QueueIInv => QueueKept
  BY DEF QueueIInv
<1>. QED  BY <1>1, InitInv, NextInv, PTL DEF Spec
----------------------------------------------------------------------------
(* The abstract job of a entry. *)
jobStatus == [j \in JobIds |-> table[j].status]
jobRestartable == [j \in JobIds |-> table[j].restartable]
jobStarts == [j \in JobIds |-> table[j].attempts]

(* What one entry shows changes in the same way in the lifecycle. *)
LEMMA RowSeen ==
  ASSUME TypeOK, NEW j \in JobIds, NEW entry, table' = [table EXCEPT ![j] = entry]
  PROVE  /\ jobStatus' = [jobStatus EXCEPT ![j] = entry.status]
         /\ jobRestartable' = [jobRestartable EXCEPT ![j] = entry.restartable]
         /\ jobStarts' = [jobStarts EXCEPT ![j] = entry.attempts]
         /\ jobStatus[j] = table[j].status
         /\ jobRestartable[j] = table[j].restartable
         /\ jobStarts[j] = table[j].attempts
<1>1. table'[j] = entry /\ \A i \in JobIds : i # j => table'[i] = table[i]
  BY DEF TypeOK
<1>2. jobStatus' = [jobStatus EXCEPT ![j] = entry.status]
  <2>1. jobStatus' = [i \in JobIds |-> IF i = j THEN entry.status ELSE table[i].status]
    BY <1>1 DEF jobStatus
  <2>. QED  BY <2>1 DEF jobStatus
<1>3. jobRestartable' = [jobRestartable EXCEPT ![j] = entry.restartable]
  <2>1. jobRestartable' = [i \in JobIds |-> IF i = j THEN entry.restartable ELSE table[i].restartable]
    BY <1>1 DEF jobRestartable
  <2>. QED  BY <2>1 DEF jobRestartable
<1>4. jobStarts' = [jobStarts EXCEPT ![j] = entry.attempts]
  <2>1. jobStarts' = [i \in JobIds |-> IF i = j THEN entry.attempts ELSE table[i].attempts]
    BY <1>1 DEF jobStarts
  <2>. QED  BY <2>1 DEF jobStarts
<1>. QED  BY <1>2, <1>3, <1>4 DEF jobStatus, jobRestartable, jobStarts
(* A new entry is a submission. *)
LEMMA InsertRefines ==
  ASSUME QueueIInv, NEW k \in Kinds, NEW r, registry[k] # NoHandler, InsertJob(k, r)
  PROVE  Lifecycle!Next
<1> DEFINE new == [status |-> "queued", kind |-> k, lane |-> registry[k].lane,
                   schema_version |-> registry[k].schema_version,
                   restartable |-> registry[k].restartable,
                   execution_id |-> JobNone, attempts |-> 0, retry_of_id |-> r]
<1>1. PICK n \in JobIds : table' = [table EXCEPT ![n] = new] /\ table[n].status = "absent"
  BY NextIdFresh DEF InsertJob, QueueIInv
<1>2. table[n].attempts = 0
  <2>1. table[n] = Absent
    BY <1>1 DEF QueueIInv, RowsShaped, RowShaped
  <2>2. Absent.attempts = 0
    BY DEF Absent
  <2>. QED  BY <2>1, <2>2
<1>3. new.status = "queued" /\ new.attempts = 0 /\ new.restartable \in BOOLEAN
  BY HandlerTyped DEF QueueIInv, TypeOK
<1>. HIDE DEF new
<1>4. /\ jobStatus' = [jobStatus EXCEPT ![n] = new.status]
      /\ jobRestartable' = [jobRestartable EXCEPT ![n] = new.restartable]
      /\ jobStarts' = [jobStarts EXCEPT ![n] = new.attempts]
      /\ jobStatus[n] = table[n].status
      /\ jobStarts[n] = table[n].attempts
  BY <1>1, RowSeen DEF QueueIInv
<1>5. jobStarts' = jobStarts
  BY <1>2, <1>3, <1>4 DEF jobStarts
<1>6. Lifecycle!Submit(n)
  BY <1>1, <1>3, <1>4, <1>5 DEF Lifecycle!Submit, jobStatus, jobRestartable, jobStarts
<1>. QED  BY <1>1, <1>6 DEF Lifecycle!Next

(* A change of status alone leaves the contract and the starts alone. *)
LEMMA StatusSeen ==
  ASSUME TypeOK, NEW j \in JobIds, NEW st, NEW x,
         table' = [table EXCEPT ![j] = [table[j] EXCEPT !.status = st,
                                                        !.execution_id = x]]
  PROVE  /\ jobStatus' = [jobStatus EXCEPT ![j] = st]
         /\ UNCHANGED <<jobRestartable, jobStarts>>
         /\ jobStatus[j] = table[j].status
         /\ jobRestartable[j] = table[j].restartable
<1> DEFINE entry == [table[j] EXCEPT !.status = st, !.execution_id = x]
<1>1. /\ entry.status = st /\ entry.restartable = table[j].restartable
      /\ entry.attempts = table[j].attempts
  BY DEF TypeOK, Row
<1>2. table' = [table EXCEPT ![j] = entry]
  OBVIOUS
<1>. HIDE DEF entry
<1>3. /\ jobStatus' = [jobStatus EXCEPT ![j] = entry.status]
      /\ jobRestartable' = [jobRestartable EXCEPT ![j] = entry.restartable]
      /\ jobStarts' = [jobStarts EXCEPT ![j] = entry.attempts]
      /\ jobStatus[j] = table[j].status
      /\ jobRestartable[j] = table[j].restartable
      /\ jobStarts[j] = table[j].attempts
  BY <1>2, RowSeen
<1>4. jobRestartable' = jobRestartable
  BY <1>1, <1>3 DEF jobRestartable
<1>5. jobStarts' = jobStarts
  BY <1>1, <1>3 DEF jobStarts
<1>. QED  BY <1>1, <1>3, <1>4, <1>5

(* A claim is a start. *)
LEMMA ClaimRefines ==
  ASSUME QueueIInv, NEW l \in Lanes, ClaimNext(l)
  PROVE  Lifecycle!Next
<1>1. PICK j \in Oldest(l) :
         table' = [table EXCEPT ![j].status = "running",
                                ![j].execution_id = table[j].attempts + 1,
                                ![j].attempts = table[j].attempts + 1]
  BY DEF ClaimNext
<1> DEFINE entry == [table[j] EXCEPT !.status = "running",
                                   !.execution_id = table[j].attempts + 1,
                                   !.attempts = table[j].attempts + 1]
<1>2. j \in JobIds /\ table[j].status = "queued"
  BY DEF Oldest
<1>3. table[j] \in Row
  BY <1>2 DEF QueueIInv, TypeOK
<1>4. table' = [table EXCEPT ![j] = entry]
  BY <1>1
<1>5. /\ entry.status = "running" /\ entry.restartable = table[j].restartable
      /\ entry.attempts = table[j].attempts + 1
  BY <1>3 DEF Row
<1>. HIDE DEF entry
<1>6. /\ jobStatus' = [jobStatus EXCEPT ![j] = entry.status]
      /\ jobRestartable' = [jobRestartable EXCEPT ![j] = entry.restartable]
      /\ jobStarts' = [jobStarts EXCEPT ![j] = entry.attempts]
      /\ jobStatus[j] = table[j].status
      /\ jobRestartable[j] = table[j].restartable
      /\ jobStarts[j] = table[j].attempts
  BY <1>2, <1>4, RowSeen DEF QueueIInv
<1>7. jobRestartable' = jobRestartable
  BY <1>5, <1>6 DEF jobRestartable
<1>8. jobStarts' = [jobStarts EXCEPT ![j] = jobStarts[j] + 1]
  BY <1>5, <1>6
<1>9. Lifecycle!Start(j)
  BY <1>2, <1>5, <1>6, <1>7, <1>8
  DEF Lifecycle!Start, jobStatus, jobRestartable, jobStarts
<1>. QED  BY <1>2, <1>9 DEF Lifecycle!Next

(* A cancellation is a request to cancel. *)
LEMMA CancelRefines ==
  ASSUME QueueIInv, NEW j \in JobIds, Cancel(j)
  PROVE  Lifecycle!Next
<1> DEFINE st == IF table[j].status = "queued" THEN "cancelled" ELSE "cancel_requested"
           x == IF table[j].status = "queued" THEN JobNone ELSE table[j].execution_id
<1>1. table[j].status \in {"queued", "running"}
  BY DEF Cancel
<1>2. table' = [table EXCEPT ![j] = [table[j] EXCEPT !.status = st, !.execution_id = x]]
  BY DEF Cancel, QueueIInv, TypeOK
<1>3. /\ jobStatus' = [jobStatus EXCEPT ![j] = st]
      /\ UNCHANGED <<jobRestartable, jobStarts>>
      /\ jobStatus[j] = table[j].status
  <2>. HIDE DEF st, x
  <2>. QED  BY <1>2, StatusSeen DEF QueueIInv
<1>4. jobStatus' = [jobStatus EXCEPT ![j] = IF @ = "queued" THEN "cancelled"
                                                           ELSE "cancel_requested"]
  BY <1>3
<1>5. Lifecycle!RequestCancel(j)
  BY <1>1, <1>3, <1>4
  DEF Lifecycle!RequestCancel, jobStatus, jobRestartable, jobStarts
<1>. QED  BY <1>5 DEF Lifecycle!Next

(* The end of an execution ends the job or puts it back. *)
LEMMA FinishRefines ==
  ASSUME QueueIInv, NEW l \in Lanes, Finish(l)
  PROVE  Lifecycle!Next
<1>1. process = "up" /\ lane[l].phase = "finish"
  BY DEF Finish, LaneRuns
<1>2. lane[l].job # JobNone /\ lane[l].finish \in Finishes
  BY <1>1 DEF QueueIInv, LanesShaped, LaneShaped
<1>3. PICK j \in JobIds : j = lane[l].job
  BY <1>1, <1>2, LeaseFound
<1>4. table[j].status \in Leased /\ MyLease(l) # "Lost"
  BY <1>1, <1>2, <1>3, LeaseFound
<1>5. PICK st : st = AppliedStatus(table[j], lane[l].finish)
  OBVIOUS
<1>6. table' = [table EXCEPT ![j] = [table[j] EXCEPT !.status = st,
                                                     !.execution_id = JobNone]]
  BY <1>3, <1>4, <1>5 DEF Finish, Mine, QueueIInv, TypeOK
<1>7. /\ jobStatus' = [jobStatus EXCEPT ![j] = st]
      /\ UNCHANGED <<jobRestartable, jobStarts>>
      /\ jobStatus[j] = table[j].status
      /\ jobRestartable[j] = table[j].restartable
  BY <1>6, StatusSeen DEF QueueIInv
<1>8. CASE table[j].status = "cancel_requested"
  <2>1. st = "cancelled"
    BY <1>5, <1>8 DEF AppliedStatus
  <2>2. Lifecycle!End(j)
    BY <1>7, <1>8, <2>1 DEF Lifecycle!End, jobStatus, jobRestartable, jobStarts
  <2>. QED  BY <2>2 DEF Lifecycle!Next
<1>9. CASE table[j].status = "running" /\ st \in Lifecycle!Ended
  <2>1. Lifecycle!End(j)
    BY <1>7, <1>9 DEF Lifecycle!End, jobStatus, jobRestartable, jobStarts
  <2>. QED  BY <2>1 DEF Lifecycle!Next
<1>10. CASE table[j].status = "running" /\ st \notin Lifecycle!Ended
  <2>1. st = "queued" /\ table[j].restartable
    BY <1>2, <1>5, <1>10 DEF AppliedStatus, Finishes, Lifecycle!Ended
  <2>2. Lifecycle!Requeue(j)
    BY <1>7, <1>10, <2>1 DEF Lifecycle!Requeue, jobStatus, jobRestartable, jobStarts
  <2>. QED  BY <2>2 DEF Lifecycle!Next
<1>. QED  BY <1>4, <1>8, <1>9, <1>10 DEF Leased

(* The start of a process interrupts every job that was running. *)
LEMMA StartRefines ==
  ASSUME QueueIInv, StartJobCoordinator
  PROVE  Lifecycle!Next
<1>1. PICK b \in Builds :
         table' = [j \in JobIds |-> IF table[j].status \in Leased
                                    THEN Recovered(table[j], b) ELSE table[j]]
  BY DEF StartJobCoordinator
<1>2. ASSUME NEW j \in JobIds
      PROVE  /\ table'[j].restartable = table[j].restartable
             /\ table'[j].attempts = table[j].attempts
             /\ table'[j].status \in Lifecycle!Ended \cup {"absent", "queued"}
             /\ table'[j].status \in
                  CASE table[j].status = "running" ->
                          IF table[j].restartable THEN {"queued", "failed"} ELSE {"failed"}
                    [] table[j].status = "cancel_requested" -> {"cancelled"}
                    [] OTHER -> {table[j].status}
  <2>1. table[j] \in Row /\ RowShaped(table[j])
    BY DEF QueueIInv, TypeOK, RowsShaped
  <2>2. CASE table[j].status \in Leased
    <3>1. table'[j] = Recovered(table[j], b)
      BY <1>1, <2>2
    <3>. QED  BY <2>1, <2>2, <3>1, RecoveredRow DEF Leased, Terminal, Lifecycle!Ended
  <2>3. CASE table[j].status \notin Leased
    <3>1. table'[j] = table[j]
      BY <1>1, <2>3
    <3>2. table[j].status \in IsActive \cup Terminal \cup {"absent"}
      BY <2>1 DEF Row
    <3>. QED  BY <2>3, <3>1, <3>2 DEF Leased, IsActive, Terminal, Lifecycle!Ended
  <2>. QED  BY <2>2, <2>3
<1>3. jobRestartable' = jobRestartable
  BY <1>2 DEF jobRestartable
<1>4. jobStarts' = jobStarts
  BY <1>2 DEF jobStarts
<1>5. jobStatus' \in [JobIds -> Lifecycle!Ended \cup {"absent", "queued"}]
  BY <1>2 DEF jobStatus
<1>6. \A j \in JobIds : jobStatus'[j] \in Lifecycle!Interrupted(j)
  BY <1>2 DEF jobStatus, Lifecycle!Interrupted
<1>7. Lifecycle!Interrupt
  BY <1>3, <1>4, <1>5, <1>6
  DEF Lifecycle!Interrupt, jobStatus, jobRestartable, jobStarts
<1>. QED  BY <1>7 DEF Lifecycle!Next

LEMMA StepRefines ==
  ASSUME QueueIInv, [Next]_vars
  PROVE  [Lifecycle!Next]_(Lifecycle!lvars)
<1>1. ASSUME NEW k \in Kinds, Enqueue(k) \/ EnqueueUniqueActive(k)
      PROVE  Lifecycle!Next
  BY <1>1, InsertRefines DEF Enqueue, EnqueueUniqueActive
<1>2. ASSUME NEW j \in JobIds, Cancel(j) PROVE Lifecycle!Next
  BY <1>2, CancelRefines
<1>3. ASSUME NEW j \in JobIds, Retry(j) PROVE Lifecycle!Next
  <2>1. table[j].kind \in Kinds
    BY <1>3 DEF Retry, CanRetry, QueueIInv, RowsShaped, RowShaped
  <2>. QED  BY <1>3, <2>1, InsertRefines DEF Retry
<1>4. ASSUME NEW l \in Lanes, ClaimNext(l) PROVE Lifecycle!Next
  BY <1>4, ClaimRefines
<1>5. ASSUME NEW l \in Lanes, Finish(l) PROVE Lifecycle!Next
  BY <1>5, FinishRefines
<1>6. CASE StartJobCoordinator
  BY <1>6, StartRefines
<1>7. ASSUME UNCHANGED table PROVE UNCHANGED Lifecycle!lvars
  BY <1>7 DEF Lifecycle!lvars
<1>8. ASSUME NEW l \in Lanes,
             LaneStep(l) \/ HandlerStep(l) \/ ShutdownInterrupts(l) \/ LaneFails(l)
      PROVE  ClaimNext(l) \/ Finish(l) \/ UNCHANGED table
  BY <1>8 DEF LaneStep, CheckShutdown, ClaimNone, IdlePoll, CheckContract, Observe,
     CheckCancelled, HandlerStep, ReportProgress, HandlerSucceeds, HandlerFails,
     ShutdownInterrupts, LaneFails
<1>9. BeginShutdown \/ SuperviseJobs \/ LanesJoined \/ Crash \/ UNCHANGED vars
      => UNCHANGED table
  BY DEF BeginShutdown, SuperviseJobs, LanesJoined, Crash, vars
<1>. QED  BY <1>1, <1>2, <1>3, <1>4, <1>5, <1>6, <1>7, <1>8, <1>9 DEF Next, Service

(***************************************************************************)
(* The job table implements the abstract lifecycle, for every number of    *)
(* jobs, lanes and builds: every step of the server is a step of           *)
(* JobLifecycle on what the rows show, or leaves them as they are.         *)
(***************************************************************************)
THEOREM JobsImplementLifecycle == Spec => ImplementsLifecycle
<1>1. ASSUME Init PROVE Lifecycle!Init
  <2>1. \A j \in JobIds : /\ table[j].status = "absent"
                          /\ table[j].restartable = FALSE
                          /\ table[j].attempts = 0
    BY <1>1 DEF Init, Absent
  <2>. QED  BY <2>1 DEF Lifecycle!Init
<1>. QED  BY <1>1, InitInv, NextInv, StepRefines, PTL
          DEF Spec, ImplementsLifecycle, Lifecycle!Spec

-----------------------------------------------------------------------------
(***************************************************************************)
(* Requests that cost money. WriteAhead, NoUnknownBatch, PaidResultsKept   *)
(* and AccountedOnce hold between any two steps of a run, so the invariant *)
(* says at each of its steps what the row of the batch, its files at the   *)
(* provider, the ledger and the provider itself have in common (JobIs and  *)
(* the facts of RunsBase for each run): the row is reserved before the     *)
(* upload, the submission is recorded before it is sent, and the account   *)
(* is saved together with the result.                                      *)
(***************************************************************************)

JobFields == {"kind", "pc", "run", "role", "vocab", "source", "todo", "at", "outcome", "retries",
              "budget", "usage", "record", "cancel", "abandon", "found", "current"}
RowFields == {"state", "file", "remote", "asked", "role", "vocab", "source", "usage", "result", "final"}
Usages == [attempted : Nat, uncertain : Nat, received : Nat]
Waiting == {"uploading", "uploaded", "submitting", "submitted", "in_progress", "cancelling"}
Saved == {"applied", "stale"}
Working == {"in_progress", "cancelling"}

(* The versions: what is stored is of now or of before.                    *)
Versions ==
  /\ runNow = [role |-> runNow.role, vocab |-> runNow.vocab, source |-> runNow.source]
  /\ runNow.role \in Nat /\ runNow.vocab \in Nat /\ runNow.source \in [RunRequests -> Nat]
NotLater(source) ==
  source \in [RunRequests -> Nat] /\ \A i \in RunRequests : source[i] <= runNow.source[i]
ProfileIs(p, i) ==
  /\ p = [role |-> p.role, vocab |-> p.vocab, source |-> p.source]
  /\ p.role \in Nat /\ p.vocab \in Nat /\ p.source \in Nat
  /\ p.role <= runNow.role /\ p.vocab <= runNow.vocab /\ p.source <= runNow.source[i]
Profiles == DOMAIN profile = RunRequests /\ \A i \in RunRequests : ProfileIs(profile[i], i)

LedgerIs(r) ==
  /\ ledger[r] \in Usages /\ runSent[r] \in Nat
  /\ runSent[r] <= ledger[r].attempted /\ ledger[r].attempted <= RequestLimit

RemoteIs(r) ==
  /\ DOMAIN remote[r] = {"state", "asked", "answered"}
  /\ remote[r].state \in {"absent"} \union Working \union Final
  /\ remote[r].asked \subseteq RunRequests /\ remote[r].answered \subseteq remote[r].asked
  /\ remote[r].state \notin Final => remote[r].answered = {}

(* A row, or a job's copy of it: what its state says of the provider.      *)
RowTyped(b) ==
  /\ DOMAIN b = RowFields
  /\ b.state \in {"absent", "results_saved"} \union Waiting \union Final
  /\ b.asked \subseteq RunRequests
  /\ b.usage \in Usages /\ b.usage.attempted = Cardinality(b.asked)
  /\ b.usage.attempted <= RequestLimit
  /\ b.role \in Nat /\ b.vocab \in Nat /\ b.vocab <= runNow.vocab /\ b.role <= runNow.role
  /\ NotLater(b.source)
RowAgrees(r, b) ==
  /\ b.state # "absent" => runSent[r] <= b.usage.attempted
  /\ remote[r].state # "absent" => remote[r].asked = b.asked
  /\ b.state \in {"absent", "uploading", "uploaded"} => remote[r].state = "absent" /\ ~b.remote
  /\ b.remote => remote[r].state # "absent"
  /\ b.state \in Waiting \union {"absent"} => b.result = "none"
  /\ b.state \in Waiting => b.usage = [attempted |-> Cardinality(b.asked), received |-> 0,
                                       uncertain |-> Cardinality(b.asked)]
  /\ b.state = "results_saved" => b.result \in Saved /\ b.final \in Final
  /\ b.result \in Saved =>
       /\ remote[r].state \in Final
       /\ b.usage = [attempted |-> Cardinality(remote[r].asked), received |-> Cardinality(remote[r].answered),
                     uncertain |-> Cardinality(remote[r].asked \ remote[r].answered)]
  /\ b.state \in Final /\ b.result # "abandoned" => remote[r].state \in Final \union {"absent"}
  /\ b.state \in Waiting \union {"results_saved"} => b.role = runNow.role
RowIs(r, b) == RowTyped(b) /\ RowAgrees(r, b)

NotStarted(r) == runBatch[r].state = "absent" /\ remote[r].state = "absent" /\ runSent[r] = 0

(* The job.                                                                *)
FromModel == runJob.role = runNow.role /\ runJob.vocab \in Nat /\ runJob.vocab <= runNow.vocab
Planned ==
  /\ NotLater(runJob.source) /\ runJob.todo \subseteq RunRequests
  /\ \A i \in runJob.todo : ~IsCurrent(i)
DirectPCs == {"next", "begin", "send", "sent", "judge", "store"}
DirectIs ==
  /\ runJob.run \in Runs /\ runJob.run <= runs /\ FromModel
  /\ runBatch[runJob.run].state = "absent"
  /\ runJob.pc \in {"plan", "open"} \union DirectPCs
  /\ runJob.pc \in {"plan", "open"} => runSent[runJob.run] = 0 /\ runJob.usage = NoUsage
  /\ runJob.pc # "plan" => Planned /\ runJob.budget \in Nat /\ runJob.budget <= RequestLimit
  /\ runJob.pc \in DirectPCs =>
       /\ ledger[runJob.run] = runJob.usage /\ runJob.usage.attempted <= runJob.budget
       /\ runSent[runJob.run] <= runJob.usage.attempted
  /\ runJob.pc \in DirectPCs \ {"next"} => runJob.at \in runJob.todo
  /\ runJob.pc = "send" => runSent[runJob.run] < runJob.usage.attempted
  /\ runJob.pc \in {"send", "sent"} => runJob.usage.uncertain > 0

BatchPCs == {"ledger", "upload", "uploaded", "submitting", "submit", "submitted"}
RecordIs ==
  /\ RowIs(runJob.run, runJob.record)
  /\ runBatch[runJob.run].state = runJob.record.state /\ runBatch[runJob.run].asked = runJob.record.asked
BatchIs ==
  /\ runJob.run \in Runs /\ runJob.run <= runs /\ FromModel
  /\ runJob.pc \in {"plan", "open", "reserve"} \union BatchPCs
  /\ runJob.pc # "submitted" => runSent[runJob.run] = 0 /\ remote[runJob.run].state = "absent"
  /\ runJob.pc # "plan" => Planned
  /\ runJob.pc \in {"plan", "open", "reserve"} =>
       runBatch[runJob.run].state = "absent" /\ runJob.usage = NoUsage
  /\ runJob.pc = "open" => runJob.budget \in Nat /\ runJob.budget <= RequestLimit
  /\ runJob.pc \in BatchPCs => RecordIs /\ \A q \in Runs \ {runJob.run} : q \notin Pending
  /\ runJob.pc \in {"ledger", "upload", "uploaded"} => runJob.record.state = "uploading"
  /\ runJob.pc \in BatchPCs \ {"ledger"} => ledger[runJob.run].attempted = runJob.record.usage.attempted
  /\ runJob.pc = "submitting" => runJob.record.state = "uploaded"
  /\ runJob.pc \in {"submit", "submitted"} => runJob.record.state = "submitting"

AppliedSoFar ==
  /\ runJob.todo \subseteq remote[runJob.run].answered
  /\ runJob.usage = [attempted |-> Cardinality(remote[runJob.run].asked),
                     received |-> Cardinality(remote[runJob.run].answered \ runJob.todo),
                     uncertain |-> Cardinality((remote[runJob.run].asked \ remote[runJob.run].answered)
                                               \union runJob.todo)]
CollectIs ==
  /\ runJob.run \in Runs /\ runBatch[runJob.run].state # "absent"
  /\ runJob.found => remote[runJob.run].state # "absent"
  /\ runJob.pc \in {"read", "abandon", "recover", "drop", "dropped", "status", "kept", "download",
                    "apply", "delete", "close"}
  /\ runJob.pc # "read" => RecordIs
  /\ runJob.pc = "abandon" => runJob.record.state = "submitting"
  /\ runJob.pc = "recover" => runJob.record.state = "submitting" /\ remote[runJob.run].state # "absent"
  /\ runJob.pc \in {"drop", "dropped"} => runJob.record.state \in {"uploading", "uploaded"}
  /\ runJob.pc \in {"status", "kept", "download", "apply"} =>
       runJob.record.state \in Waiting /\ remote[runJob.run].state # "absent"
  /\ runJob.pc = "kept" => runJob.outcome \in Working
  /\ runJob.pc \in {"download", "apply"} => runJob.outcome \in Final /\ remote[runJob.run].state \in Final
  /\ runJob.pc = "apply" => AppliedSoFar
  /\ runJob.pc \in {"delete", "close"} => runJob.record.state = "results_saved"

JobIs ==
  /\ DOMAIN runJob = JobFields
  /\ runJob.kind \in {"none", "direct", "batch", "collect"}
  /\ runJob.kind = "none" => runJob = RunNoJob
  /\ runJob.kind = "direct" => DirectIs
  /\ runJob.kind = "batch" => BatchIs
  /\ runJob.kind = "collect" => CollectIs

AnswersKept(r) ==
  "out" \notin Retention /\ remote[r].answered # {} =>
    <<"out", r>> \in runFiles \/ runBatch[r].result \in Saved \union {"abandoned"}

RunsTyped ==
  /\ runs \in 0..MaxRuns /\ DOMAIN ledger = Runs /\ DOMAIN runSent = Runs
  /\ DOMAIN runBatch = Runs /\ DOMAIN remote = Runs
Ledgers == \A r \in Runs : LedgerIs(r)
Remotes == \A r \in Runs : RemoteIs(r)
Rows == \A r \in Runs : RowIs(r, runBatch[r])
Unstarted == \A r \in Runs : r > runs => NotStarted(r)
Kept == \A r \in Runs : AnswersKept(r)
RunsBase == RunsTyped /\ Versions /\ Profiles /\ Ledgers /\ Remotes /\ Rows /\ Unstarted /\ Kept
RunsIInv == RunsBase /\ JobIs

-----------------------------------------------------------------------------
(* The least of some numbers is one of them. *)
LEMMA LeastIsIn ==
  ASSUME NEW S, S \subseteq Nat, S # {}
  PROVE  Least(S) \in S
<1> DEFINE Below == {p \in Nat \X Nat : p[1] < p[2]}
<1>1. IsWellFoundedOn(Below, Nat)
  BY NatLessThanWellFounded DEF OpToRel
<1>2. \E x \in S : \A y \in S : ~(<<y, x>> \in Below)
  <2> HIDE DEF Below
  <2> QED
    BY <1>1, WFMin
<1>3. PICK x \in S : \A y \in S : ~(<<y, x>> \in Below)
  BY <1>2
<1>4. ASSUME NEW y \in S, y < x PROVE <<y, x>> \in Below
  BY <1>4
<1>5. \A y \in S : x <= y
  <2> SUFFICES ASSUME NEW y \in S PROVE x <= y
    OBVIOUS
  <2>1. x \in Nat /\ y \in Nat
    OBVIOUS
  <2>2. ~(y < x)
    <3> HIDE DEF Below
    <3> QED
      BY <1>3, <1>4
  <2> QED
    BY <2>1, <2>2
<1> QED
  BY <1>5 DEF Least

(* Requests can be counted. *)
LEMMA Counted ==
  ASSUME NEW S, S \subseteq RunRequests
  PROVE  IsFiniteSet(S) /\ Cardinality(S) \in Nat
BY FS_Subset, FS_CardinalityType, ModelRunsAssumption

(* A usage of three numbers is a usage. *)
LEMMA UsageRecord ==
  ASSUME NEW u, NEW s, DOMAIN s = {"attempted", "uncertain", "received"}, u = [f \in DOMAIN s |-> u[f]],
         u.attempted \in Nat, u.uncertain \in Nat, u.received \in Nat
  PROVE  u \in Usages
BY DEF Usages

(* At first there is no run. *)
LEMMA RunsInitially == RunInit => RunsIInv
<1> SUFFICES ASSUME RunInit PROVE RunsIInv
  OBVIOUS
<1>0. Cardinality({}) = 0
  BY FS_EmptySet
<1>1. RunsTyped
  BY ModelRunsAssumption DEF RunInit, RunsTyped, Runs
<1>2. Versions /\ Profiles
  BY DEF RunInit, Versions, Profiles, ProfileIs, RunSignature
<1>3. Ledgers
  BY ModelRunsAssumption DEF RunInit, Ledgers, LedgerIs, NoUsage, Usages
<1>4. Remotes
  BY DEF RunInit, Remotes, RemoteIs, NoRemote, Final
<1>5. Rows
  <2> SUFFICES ASSUME NEW r \in Runs PROVE RowIs(r, RunNoBatch)
    BY DEF RunInit, Rows
  <2>1. RowTyped(RunNoBatch)
    BY <1>0, ModelRunsAssumption DEF RunInit, RowTyped, RunNoBatch, RowFields, NotLater, Usages
  <2>2. RowAgrees(r, RunNoBatch)
    BY DEF RunInit, RowAgrees, RunNoBatch, NoRemote, Final, Waiting, Saved
  <2> QED
    BY <2>1, <2>2 DEF RowIs
<1>6. Unstarted /\ Kept
  BY DEF RunInit, Unstarted, NotStarted, Kept, AnswersKept, RunNoBatch, NoRemote
<1>7. JobIs
  BY DEF RunInit, JobIs, RunNoJob, JobFields
<1> QED
  BY <1>1, <1>2, <1>3, <1>4, <1>5, <1>6, <1>7 DEF RunsIInv, RunsBase

-----------------------------------------------------------------------------
(* A lane without a job. *)
LEMMA NoJob == DOMAIN RunNoJob = JobFields /\ RunNoJob.kind = "none"
BY DEF RunNoJob, JobFields

(* A lane without a job holds nothing. *)
LEMMA NoJobIs == runJob' = RunNoJob => JobIs'
BY NoJob DEF JobIs

(* A step that writes no row, ledger or batch keeps what is said of them. *)
LEMMA NothingWritten ==
  ASSUME RunsBase, UNCHANGED <<ledger, runSent, runBatch, remote, profile, runNow, runs>>,
         \A r \in Runs : <<"out", r>> \in runFiles => <<"out", r>> \in runFiles'
  PROVE  RunsBase'
<1>1. RunsTyped' /\ Versions' /\ Profiles' /\ Ledgers' /\ Remotes' /\ Unstarted'
  BY DEF RunsBase, RunsTyped, Versions, Profiles, ProfileIs, Ledgers, LedgerIs, Remotes, RemoteIs, Unstarted, NotStarted
<1>2. Rows'
  BY DEF RunsBase, Rows, RowIs, RowTyped, RowAgrees, NotLater
<1>3. Kept'
  BY DEF RunsBase, Kept, AnswersKept
<1> QED
  BY <1>1, <1>2, <1>3 DEF RunsBase

(* A row is written back. *)
KeepsAnswers(b) ==
  \/ remote[runJob.run].answered = {}
  \/ b.result \in Saved \union {"abandoned"}
  \/ b.result = runBatch[runJob.run].result
(* A row that is persisted while its job holds it: the rest stays as it is. *)
LEMMA RowWritten ==
  ASSUME NEW b, NEW pc, RunsBase, runJob.run \in Runs, runJob.run <= runs, RecordIs, Persist(b, pc),
         UNCHANGED <<ledger, runSent, remote, runFiles, profile, runNow, runs>>,
         RowIs(runJob.run, b), KeepsAnswers(b)
  PROVE  /\ RunsBase'
         /\ \/ runJob' = RunNoJob
            \/ /\ pc # "end" /\ runJob' = [runJob EXCEPT !.pc = pc, !.record = b]
               /\ runBatch' = [runBatch EXCEPT ![runJob.run] = b]
<1>1. runBatch' = [runBatch EXCEPT ![runJob.run] = b]
  BY DEF Persist, RecordIs
<1>2. runJob' = RunNoJob \/ (pc # "end" /\ runJob' = [runJob EXCEPT !.pc = pc, !.record = b])
  BY DEF Persist, RecordIs, RunEnd
<1>3. RunsTyped' /\ Versions' /\ Profiles' /\ Ledgers' /\ Remotes'
  BY <1>1 DEF RunsBase, RunsTyped, Versions, Profiles, ProfileIs, Ledgers, LedgerIs, Remotes, RemoteIs
<1>4. Rows'
  BY <1>1 DEF RunsBase, RunsTyped, Rows, RowIs, RowTyped, RowAgrees, NotLater
<1>5. Unstarted'
  BY <1>1, ModelRunsAssumption DEF RunsBase, RunsTyped, Unstarted, NotStarted, Runs
<1>6. Kept'
  BY <1>1 DEF RunsBase, RunsTyped, Kept, AnswersKept, KeepsAnswers
<1> QED
  BY <1>1, <1>2, <1>3, <1>4, <1>5, <1>6 DEF RunsBase

-----------------------------------------------------------------------------
(* A run that is started has asked for nothing. *)
LEMMA Starting ==
  ASSUME RunsIInv, RunStart
  PROVE  RunsIInv'
<1>1. runs + 1 \in Runs /\ NotStarted(runs + 1)
  BY ModelRunsAssumption DEF RunStart, RunsIInv, RunsBase, RunsTyped, Unstarted, Runs
<1>2. RunsTyped' /\ Versions' /\ Profiles' /\ Ledgers' /\ Remotes' /\ Kept'
  BY ModelRunsAssumption DEF RunStart, RunsIInv, RunsBase, RunsTyped, Versions, Profiles, ProfileIs, Ledgers, LedgerIs,
     Remotes, RemoteIs, Kept, AnswersKept
<1>3. Rows'
  BY DEF RunStart, RunsIInv, RunsBase, Rows, RowIs, RowTyped, RowAgrees, NotLater
<1>4. Unstarted'
  BY ModelRunsAssumption DEF RunStart, RunsIInv, RunsBase, RunsTyped, Unstarted, NotStarted, Runs
<1>5. PICK mode \in RunModes : runJob' = [RunNoJob EXCEPT !.kind = mode, !.pc = "plan", !.run = runs + 1,
                                                          !.role = runNow.role, !.vocab = runNow.vocab]
  BY DEF RunStart
<1>6. /\ DOMAIN runJob' = JobFields /\ runJob'.kind = mode /\ runJob'.pc = "plan" /\ runJob'.run = runs + 1
      /\ runJob'.role = runNow.role /\ runJob'.vocab = runNow.vocab /\ runJob'.usage = NoUsage
  BY <1>5 DEF RunNoJob, JobFields
<1>7. JobIs'
  <2>1. UNCHANGED <<ledger, runSent, runBatch, remote, runNow>> /\ runs' = runs + 1
    BY DEF RunStart
  <2>2. runNow.vocab \in Nat /\ runs \in Nat
    BY DEF RunsIInv, RunsBase, Versions, RunsTyped
  <2>3. mode \in {"direct", "batch"}
    BY ModelRunsAssumption
  <2>4. DirectIs' /\ BatchIs'
    BY <1>1, <1>6, <2>1, <2>2 DEF DirectIs, BatchIs, FromModel, NotStarted, DirectPCs, BatchPCs
  <2> QED
    BY <1>6, <2>3, <2>4 DEF JobIs
<1> QED
  BY <1>2, <1>3, <1>4, <1>7 DEF RunsIInv, RunsBase

(* An operator cancels, abandons or refreshes: the collecting job begins at the row. *)
LEMMA Acting ==
  ASSUME RunsIInv, NEW r \in Runs, NEW c \in BOOLEAN, NEW a \in BOOLEAN, NEW f \in BOOLEAN, Act(r, c, a, f)
  PROVE  RunsIInv'
<1>1. RunsBase'
  BY NothingWritten DEF Act, RunsIInv, runBounds
<1>2. /\ DOMAIN runJob' = JobFields /\ runJob'.kind = "collect" /\ runJob'.pc = "read" /\ runJob'.run = r
      /\ runJob'.found = f
  BY DEF Act, RunNoJob, JobFields
<1>3. CollectIs'
  BY <1>2 DEF Act, CollectIs
<1> QED
  BY <1>1, <1>2, <1>3 DEF RunsIInv, JobIs

(* The plan names the requests whose profiles are not current. *)
LEMMA Planning ==
  ASSUME RunsIInv, RunPlan
  PROVE  RunsIInv'
<1>1. RunsBase'
  BY NothingWritten DEF RunPlan, RunsIInv, runBounds
<1> DEFINE todo == {i \in RunRequests : ~IsCurrent(i)}
<1>2. CASE ~RunFresh
  BY <1>1, <1>2, NoJobIs DEF RunPlan, RunEnd, RunsIInv
<1>3. CASE RunFresh
  <2>1. runJob' = [runJob EXCEPT !.source = runNow.source, !.todo = todo, !.retries = RetryLimit,
                                 !.budget = Budget(Cardinality(todo)),
                                 !.pc = IF runJob.kind = "batch" /\ todo # {} THEN "reserve" ELSE "open"]
    BY <1>3 DEF RunPlan
  <2>2. Cardinality(todo) \in Nat
    BY Counted
  <2>3. Budget(Cardinality(todo)) \in Nat /\ Budget(Cardinality(todo)) <= RequestLimit
    BY <2>2, ModelRunsAssumption DEF Budget, RetryLimit
  <2>4. NotLater(runNow.source)
    BY DEF RunsIInv, RunsBase, Versions, NotLater
  <2>5. UNCHANGED <<ledger, runSent, runBatch, remote, profile, runNow, runs>>
    BY DEF RunPlan, runBounds
  <2>6. \A i \in todo : ~IsCurrent(i)'
    BY <2>5 DEF IsCurrent
  <2> HIDE DEF todo
  <2>7. DOMAIN runJob = JobFields
    BY DEF RunsIInv, JobIs
  <2>8. /\ DOMAIN runJob' = JobFields /\ runJob'.kind = runJob.kind /\ runJob'.run = runJob.run
        /\ runJob'.role = runJob.role /\ runJob'.vocab = runJob.vocab /\ runJob'.usage = runJob.usage
        /\ runJob'.source = runNow.source /\ runJob'.todo = todo
        /\ runJob'.budget = Budget(Cardinality(todo)) /\ runJob'.pc \in {"reserve", "open"}
        /\ runJob'.pc = "reserve" => runJob.kind = "batch"
    BY <2>1, <2>7 DEF JobFields
  <2>9. Planned'
    BY <2>4, <2>5, <2>6, <2>8 DEF Planned, NotLater, todo
  <2>10. JobIs'
    BY <2>3, <2>5, <2>8, <2>9 DEF RunPlan, RunsIInv, JobIs, DirectIs, BatchIs, FromModel, DirectPCs, BatchPCs
  <2> QED
    BY <1>1, <2>10 DEF RunsIInv
<1> QED
  BY <1>2, <1>3

(* The ledger is opened before anything is sent. *)
LEMMA Opening ==
  ASSUME RunsIInv, RunOpen
  PROVE  RunsIInv'
<1>0. RunsBase /\ JobIs
  BY DEF RunsIInv
<1>1. CASE Pending # {}
  <2>1. RunsBase'
    BY <1>0, <1>1, NothingWritten DEF RunOpen, runBounds
  <2> QED
    BY <1>1, <2>1, NoJobIs DEF RunOpen, RunEnd, RunsIInv
<1>2. CASE Pending = {}
  <2>1. /\ runJob' = [runJob EXCEPT !.pc = "next", !.kind = "direct"]
        /\ ledger' = [ledger EXCEPT ![runJob.run] = NoUsage]
        /\ UNCHANGED <<runSent, runBatch, remote, runFiles, profile, runNow, runs>>
    BY <1>2 DEF RunOpen, runBounds
  <2>2. /\ runJob.run \in Runs /\ runJob.run <= runs /\ FromModel /\ runSent[runJob.run] = 0 /\ Planned
        /\ runBatch[runJob.run].state = "absent" /\ runJob.budget \in Nat /\ runJob.budget <= RequestLimit
        /\ runJob.usage = NoUsage /\ DOMAIN runJob = JobFields
    BY <1>0 DEF RunOpen, JobIs, DirectIs, BatchIs
  <2>3. RunsTyped' /\ Versions' /\ Profiles' /\ Remotes' /\ Unstarted' /\ Kept'
    BY <1>0, <2>1 DEF RunsBase, RunsTyped, Versions, Profiles, ProfileIs, Remotes, RemoteIs, Unstarted, NotStarted, Kept,
       AnswersKept
  <2>4. Rows'
    BY <1>0, <2>1 DEF RunsBase, Rows, RowIs, RowTyped, RowAgrees, NotLater
  <2>5. Ledgers'
    BY <1>0, <2>1, <2>2, ModelRunsAssumption DEF RunsBase, RunsTyped, Ledgers, LedgerIs, NoUsage, Usages
  <2>6. /\ DOMAIN runJob' = JobFields /\ runJob'.kind = "direct" /\ runJob'.pc = "next"
        /\ \A f \in JobFields \ {"pc", "kind"} : runJob'[f] = runJob[f]
    BY <2>1, <2>2 DEF JobFields
  <2>7. FromModel' /\ Planned'
    BY <2>1, <2>2, <2>6 DEF FromModel, Planned, NotLater, IsCurrent, JobFields
  <2>8. DirectIs'
    BY <1>0, <2>1, <2>2, <2>6, <2>7, ModelRunsAssumption DEF DirectIs, DirectPCs, JobFields, NoUsage, RunsBase, RunsTyped
  <2> QED
    BY <2>3, <2>4, <2>5, <2>6, <2>8 DEF RunsIInv, RunsBase, JobIs
<1> QED
  BY <1>1, <1>2

-----------------------------------------------------------------------------
SamePlan == runJob'.role = runJob.role /\ runJob'.vocab = runJob.vocab /\ runJob'.source = runJob.source
            /\ runJob'.todo = runJob.todo

(* A plan stands while nothing it was made from changes. *)
LEMMA PlanStands ==
  ASSUME UNCHANGED <<profile, runNow>>, SamePlan
  PROVE  (FromModel => FromModel') /\ (Planned => Planned')
BY DEF SamePlan, FromModel, Planned, NotLater, IsCurrent

(* The next request is one of the plan. *)
LEMMA Picking ==
  ASSUME RunsIInv, Pick
  PROVE  RunsIInv'
<1>0. RunsBase /\ JobIs
  BY DEF RunsIInv
<1>1. RunsBase'
  BY <1>0, NothingWritten DEF Pick, runBounds
<1>2. CASE runJob.todo = {} \/ ~RunFresh
  BY <1>1, <1>2, NoJobIs DEF Pick, RunEnd, RunsIInv
<1>3. CASE ~(runJob.todo = {} \/ ~RunFresh)
  <2>1. /\ runJob' = [runJob EXCEPT !.at = Least(runJob.todo), !.pc = "begin"]
        /\ UNCHANGED <<ledger, runSent, runBatch, remote, runFiles, profile, runNow, runs>>
    BY <1>3 DEF Pick, runBounds
  <2>2. DirectIs /\ runJob.kind = "direct" /\ runJob.pc = "next" /\ DOMAIN runJob = JobFields
    BY <1>0 DEF Pick, RunAt, JobIs
  <2>3. Least(runJob.todo) \in runJob.todo
    <3>1. runJob.todo \subseteq Nat
      BY <2>2, ModelRunsAssumption DEF DirectIs, Planned
    <3> QED
      BY <1>3, <3>1, LeastIsIn
  <2>4. /\ DOMAIN runJob' = JobFields /\ runJob'.kind = "direct" /\ runJob'.pc = "begin" /\ runJob'.at \in runJob.todo
        /\ \A f \in JobFields \ {"pc", "at"} : runJob'[f] = runJob[f]
    BY <2>1, <2>2, <2>3 DEF JobFields
  <2>5. SamePlan
    BY <2>4 DEF SamePlan, JobFields
  <2>6. DirectIs'
    BY <2>1, <2>2, <2>4, <2>5, PlanStands DEF DirectIs, DirectPCs, JobFields
  <2> QED
    BY <1>1, <2>4, <2>6 DEF RunsIInv, JobIs
<1> QED
  BY <1>2, <1>3

(* The attempt is in the ledger before it is made. *)
LEMMA Beginning ==
  ASSUME RunsIInv, RunBegin
  PROVE  RunsIInv'
<1>0. RunsBase /\ JobIs
  BY DEF RunsIInv
<1>1. CASE runJob.usage.attempted >= runJob.budget
  <2>1. RunsBase'
    BY <1>0, <1>1, NothingWritten DEF RunBegin, runBounds
  <2> QED
    BY <1>1, <2>1, NoJobIs DEF RunBegin, RunEnd, RunsIInv
<1>2. CASE ~(runJob.usage.attempted >= runJob.budget)
  <2> DEFINE u == [runJob.usage EXCEPT !.attempted = @ + 1, !.uncertain = @ + 1]
  <2>1. /\ runJob' = [runJob EXCEPT !.pc = "send", !.usage.attempted = @ + 1, !.usage.uncertain = @ + 1]
        /\ ledger' = [ledger EXCEPT ![runJob.run] = runJob'.usage]
        /\ UNCHANGED <<runSent, runBatch, remote, runFiles, profile, runNow, runs>>
    BY <1>2 DEF RunBegin, runBounds
  <2>2. DirectIs /\ runJob.kind = "direct" /\ runJob.pc = "begin" /\ DOMAIN runJob = JobFields
    BY <1>0 DEF RunBegin, RunAt, JobIs
  <2>3. /\ runJob.run \in Runs /\ runJob.usage = ledger[runJob.run] /\ runJob.usage \in Usages
        /\ runSent[runJob.run] \in Nat /\ runSent[runJob.run] <= runJob.usage.attempted
        /\ runJob.budget \in Nat /\ runJob.budget <= RequestLimit
    BY <1>0, <2>2 DEF DirectIs, DirectPCs, RunsBase, Ledgers, LedgerIs
  <2>4. /\ DOMAIN runJob' = JobFields /\ runJob'.kind = "direct" /\ runJob'.pc = "send"
        /\ runJob'.usage = u
        /\ \A f \in JobFields \ {"pc", "usage"} : runJob'[f] = runJob[f]
    BY <2>1, <2>2, <2>3 DEF JobFields, Usages
  <2>5. /\ u \in Usages /\ u.attempted = runJob.usage.attempted + 1 /\ u.uncertain > 0
        /\ u.attempted <= runJob.budget
    <3>1. /\ u = [f \in DOMAIN runJob.usage |-> u[f]] /\ DOMAIN runJob.usage = {"attempted", "uncertain", "received"}
      BY <2>3 DEF Usages
    <3>2. /\ u.attempted = runJob.usage.attempted + 1 /\ u.uncertain = runJob.usage.uncertain + 1
          /\ u.received = runJob.usage.received
      BY <2>3 DEF Usages
    <3>3. runJob.usage.attempted \in Nat /\ runJob.usage.uncertain \in Nat /\ runJob.usage.received \in Nat
      BY <2>3 DEF Usages
    <3> HIDE DEF u
    <3>4. u.attempted \in Nat /\ u.uncertain \in Nat /\ u.received \in Nat /\ u.uncertain > 0 /\ u.attempted <= runJob.budget
      BY <1>2, <2>3, <3>2, <3>3
    <3>5. u \in Usages
      BY <3>1, <3>4, UsageRecord
    <3> QED
      BY <3>2, <3>4, <3>5
  <2> HIDE DEF u
  <2>6. SamePlan
    BY <2>4 DEF SamePlan, JobFields
  <2>7. ledger'[runJob.run] = u /\ DOMAIN ledger' = Runs
    BY <1>0, <2>1, <2>3, <2>4 DEF RunsBase, RunsTyped
  <2>8. runSent[runJob.run] < u.attempted /\ runSent[runJob.run] <= u.attempted /\ u.attempted <= RequestLimit
    BY <2>3, <2>5, ModelRunsAssumption DEF Usages
  <2>9. DirectIs'
    BY <2>1, <2>2, <2>4, <2>5, <2>6, <2>7, <2>8, PlanStands DEF DirectIs, DirectPCs, JobFields
  <2>10. Ledgers'
    BY <1>0, <2>1, <2>3, <2>4, <2>5, <2>7, <2>8 DEF RunsBase, RunsTyped, Ledgers, LedgerIs
  <2>11. RunsTyped' /\ Versions' /\ Profiles' /\ Remotes' /\ Unstarted' /\ Kept'
    BY <1>0, <2>1, <2>7 DEF RunsBase, RunsTyped, Versions, Profiles, ProfileIs, Remotes, RemoteIs, Unstarted, NotStarted, Kept,
       AnswersKept
  <2>12. Rows'
    BY <1>0, <2>1 DEF RunsBase, Rows, RowIs, RowTyped, RowAgrees, NotLater
  <2> QED
    BY <2>4, <2>9, <2>10, <2>11, <2>12 DEF RunsIInv, RunsBase, JobIs
<1> QED
  BY <1>1, <1>2

(* A request is sent once for an attempt in the ledger. *)
LEMMA Sending ==
  ASSUME RunsIInv, RunSend
  PROVE  RunsIInv'
<1>0. RunsBase /\ JobIs
  BY DEF RunsIInv
<1>1. PICK o \in {"ok", "invalid", "lost", "refused"} :
         /\ runJob' = [runJob EXCEPT !.pc = "sent", !.outcome = o]
         /\ runSent' = IF o = "refused" THEN runSent ELSE [runSent EXCEPT ![runJob.run] = @ + 1]
  BY DEF RunSend
<1>2. UNCHANGED <<ledger, runBatch, remote, runFiles, profile, runNow, runs>>
  BY DEF RunSend
<1>3. DirectIs /\ runJob.kind = "direct" /\ runJob.pc = "send" /\ DOMAIN runJob = JobFields
  BY <1>0 DEF RunSend, RunAt, JobIs
<1>4. /\ runJob.run \in Runs /\ runJob.run <= runs /\ runJob.usage = ledger[runJob.run] /\ runJob.usage \in Usages
      /\ runSent[runJob.run] \in Nat /\ runSent[runJob.run] < runJob.usage.attempted
      /\ runBatch[runJob.run].state = "absent"
  BY <1>0, <1>3 DEF DirectIs, DirectPCs, RunsBase, Ledgers, LedgerIs
<1>5. /\ DOMAIN runJob' = JobFields /\ runJob'.kind = "direct" /\ runJob'.pc = "sent"
      /\ \A f \in JobFields \ {"pc", "outcome"} : runJob'[f] = runJob[f]
  BY <1>1, <1>3 DEF JobFields
<1>6. /\ DOMAIN runSent' = Runs /\ \A r \in Runs \ {runJob.run} : runSent'[r] = runSent[r]
      /\ runSent'[runJob.run] \in Nat /\ runSent'[runJob.run] <= runJob.usage.attempted
  BY <1>0, <1>1, <1>4 DEF RunsBase, RunsTyped, Usages
<1>7. SamePlan
  BY <1>5 DEF SamePlan, JobFields
<1>8. DirectIs'
  BY <1>2, <1>3, <1>5, <1>6, <1>7, PlanStands DEF DirectIs, DirectPCs, JobFields
<1>9. Ledgers'
  BY <1>0, <1>2, <1>4, <1>6 DEF RunsBase, RunsTyped, Ledgers, LedgerIs
<1>10. RunsTyped' /\ Versions' /\ Profiles' /\ Remotes' /\ Kept'
  BY <1>0, <1>2, <1>6 DEF RunsBase, RunsTyped, Versions, Profiles, ProfileIs, Remotes, RemoteIs, Kept, AnswersKept
<1>11. Unstarted'
  BY <1>0, <1>2, <1>4, <1>6, ModelRunsAssumption DEF RunsBase, RunsTyped, Unstarted, NotStarted, Runs
<1>12. Rows'
  <2> SUFFICES ASSUME NEW r \in Runs PROVE RowIs(r, runBatch[r])'
    BY DEF Rows
  <2>1. RowIs(r, runBatch[r])
    BY <1>0 DEF RunsBase, Rows
  <2> QED
    BY <1>2, <1>4, <1>6, <2>1 DEF RowIs, RowTyped, RowAgrees, NotLater
<1> QED
  BY <1>5, <1>8, <1>9, <1>10, <1>11, <1>12 DEF RunsIInv, RunsBase, JobIs

(* The answer moves an attempt from uncertain to received. *)
LEMMA Recording ==
  ASSUME RunsIInv, RunRecord
  PROVE  RunsIInv'
<1>0. RunsBase /\ JobIs
  BY DEF RunsIInv
<1> DEFINE u == RunFinished(runJob.usage, runJob.outcome)
<1>1. /\ runJob' = [runJob EXCEPT !.pc = "judge", !.usage = u]
      /\ ledger' = [ledger EXCEPT ![runJob.run] = runJob'.usage]
      /\ UNCHANGED <<runSent, runBatch, remote, runFiles, profile, runNow, runs>>
  BY DEF RunRecord, runBounds
<1>2. DirectIs /\ runJob.kind = "direct" /\ runJob.pc = "sent" /\ DOMAIN runJob = JobFields
  BY <1>0 DEF RunRecord, RunAt, JobIs
<1>3. /\ runJob.run \in Runs /\ runJob.usage = ledger[runJob.run] /\ runJob.usage \in Usages
      /\ runJob.usage.uncertain > 0
      /\ runSent[runJob.run] \in Nat /\ runSent[runJob.run] <= runJob.usage.attempted
      /\ runJob.usage.attempted <= runJob.budget /\ runJob.usage.attempted <= RequestLimit
  BY <1>0, <1>2 DEF DirectIs, DirectPCs, RunsBase, Ledgers, LedgerIs
<1>4. u \in Usages /\ u.attempted = runJob.usage.attempted
  <2>1. /\ DOMAIN u = {"attempted", "uncertain", "received"} /\ u.attempted = runJob.usage.attempted
        /\ u.uncertain \in Nat /\ u.received \in Nat
    BY <1>3 DEF RunFinished, Usages
  <2>2. u = [f \in DOMAIN runJob.usage |-> u[f]] /\ DOMAIN runJob.usage = {"attempted", "uncertain", "received"}
    BY <1>3 DEF RunFinished, Usages
  <2>3. runJob.usage.attempted \in Nat
    BY <1>3 DEF Usages
  <2> HIDE DEF u
  <2> QED
    BY <2>1, <2>2, <2>3, UsageRecord
<1> HIDE DEF u
<1>5. /\ DOMAIN runJob' = JobFields /\ runJob'.kind = "direct" /\ runJob'.pc = "judge" /\ runJob'.usage = u
      /\ \A f \in JobFields \ {"pc", "usage"} : runJob'[f] = runJob[f]
  BY <1>1, <1>2 DEF JobFields
<1>6. SamePlan
  BY <1>5 DEF SamePlan, JobFields
<1>7. ledger'[runJob.run] = u /\ DOMAIN ledger' = Runs
  BY <1>0, <1>1, <1>3, <1>5 DEF RunsBase, RunsTyped
<1>8. DirectIs'
  BY <1>1, <1>2, <1>3, <1>4, <1>5, <1>6, <1>7, PlanStands DEF DirectIs, DirectPCs, JobFields
<1>9. Ledgers'
  BY <1>0, <1>1, <1>3, <1>4, <1>5, <1>7 DEF RunsBase, RunsTyped, Ledgers, LedgerIs
<1>10. RunsTyped' /\ Versions' /\ Profiles' /\ Remotes' /\ Unstarted' /\ Kept'
  BY <1>0, <1>1, <1>7 DEF RunsBase, RunsTyped, Versions, Profiles, ProfileIs, Remotes, RemoteIs, Unstarted, NotStarted, Kept,
     AnswersKept
<1>11. Rows'
  BY <1>0, <1>1 DEF RunsBase, Rows, RowIs, RowTyped, RowAgrees, NotLater
<1> QED
  BY <1>5, <1>8, <1>9, <1>10, <1>11 DEF RunsIInv, RunsBase, JobIs

(* An answer is judged, and the request is asked again within the budget. *)
LEMMA Judging ==
  ASSUME RunsIInv, Judge
  PROVE  RunsIInv'
<1>0. RunsBase /\ JobIs
  BY DEF RunsIInv
<1>1. RunsBase'
  BY <1>0, NothingWritten DEF Judge, runBounds
<1>2. UNCHANGED <<ledger, runSent, runBatch, remote, runFiles, profile, runNow, runs>>
  BY DEF Judge, runBounds
<1>3. DirectIs /\ runJob.kind = "direct" /\ runJob.pc = "judge" /\ DOMAIN runJob = JobFields
  BY <1>0 DEF Judge, RunAt, JobIs
<1>4. CASE runJob' = RunNoJob
  BY <1>1, <1>4, NoJobIs DEF RunsIInv
<1>5. ASSUME /\ DOMAIN runJob' = JobFields /\ runJob'.pc \in {"store", "begin"}
             /\ \A f \in JobFields \ {"pc", "retries"} : runJob'[f] = runJob[f]
      PROVE  RunsIInv'
  <2>1. SamePlan /\ runJob'.kind = "direct"
    BY <1>3, <1>5 DEF SamePlan, JobFields
  <2>2. DirectIs'
    BY <1>2, <1>3, <1>5, <2>1, PlanStands DEF DirectIs, DirectPCs, JobFields
  <2> QED
    BY <1>1, <1>5, <2>1, <2>2 DEF RunsIInv, JobIs
<1>6. CASE runJob' = [runJob EXCEPT !.pc = "store"]
  BY <1>3, <1>5, <1>6 DEF JobFields
<1>7. CASE runJob' = [runJob EXCEPT !.pc = "begin", !.retries = @ - 1]
  BY <1>3, <1>5, <1>7 DEF JobFields
<1> QED
  BY <1>4, <1>6, <1>7 DEF Judge, RunEnd

(* A profile is stored with the versions it was made from. *)
LEMMA Storing ==
  ASSUME RunsIInv, RunStore
  PROVE  RunsIInv'
<1>0. RunsBase /\ JobIs
  BY DEF RunsIInv
<1>1. /\ Stored({runJob.at}, runJob.role, runJob.vocab, runJob.source)
      /\ runJob' = [runJob EXCEPT !.pc = "next", !.todo = @ \ {runJob.at}]
      /\ UNCHANGED <<ledger, runSent, runBatch, remote, runFiles, runNow, runs>>
  BY DEF RunStore, runBounds
<1>2. DirectIs /\ runJob.kind = "direct" /\ runJob.pc = "store" /\ DOMAIN runJob = JobFields
  BY <1>0 DEF RunStore, RunAt, JobIs
<1>3. FromModel /\ Planned
  BY <1>2 DEF DirectIs
<1>4. /\ DOMAIN runJob' = JobFields /\ runJob'.kind = "direct" /\ runJob'.pc = "next"
      /\ runJob'.todo = runJob.todo \ {runJob.at}
      /\ \A f \in JobFields \ {"pc", "todo"} : runJob'[f] = runJob[f]
  BY <1>1, <1>2 DEF JobFields
<1>5. Profiles'
  BY <1>0, <1>1, <1>3 DEF RunsBase, Profiles, ProfileIs, Stored, RunSignature, FromModel, Planned, NotLater, Versions
<1>6. FromModel' /\ Planned'
  <2>1. FromModel'
    BY <1>1, <1>3, <1>4 DEF FromModel, JobFields
  <2>2. \A i \in runJob'.todo : profile'[i] = profile[i]
    BY <1>1, <1>3, <1>4 DEF Stored, Planned
  <2> QED
    BY <1>1, <1>3, <1>4, <2>1, <2>2 DEF Planned, NotLater, IsCurrent, JobFields
<1>7. DirectIs'
  BY <1>1, <1>2, <1>4, <1>6 DEF DirectIs, DirectPCs, JobFields
<1>8. RunsTyped' /\ Versions' /\ Ledgers' /\ Remotes' /\ Unstarted' /\ Kept'
  BY <1>0, <1>1 DEF RunsBase, RunsTyped, Versions, Ledgers, LedgerIs, Remotes, RemoteIs, Unstarted, NotStarted, Kept,
     AnswersKept
<1>9. Rows'
  BY <1>0, <1>1 DEF RunsBase, Rows, RowIs, RowTyped, RowAgrees, NotLater
<1> QED
  BY <1>4, <1>5, <1>7, <1>8, <1>9 DEF RunsIInv, RunsBase, JobIs

-----------------------------------------------------------------------------
(* A batch is reserved before the provider is asked for anything. *)
LEMMA Reserving ==
  ASSUME RunsIInv, RunCreate
  PROVE  RunsIInv'
<1>0. RunsBase /\ JobIs
  BY DEF RunsIInv
<1>1. UNCHANGED <<ledger, runSent, remote, runFiles, profile, runNow, runs>>
  BY DEF RunCreate, runBounds
<1>2. CASE Cardinality(runJob.todo) > RequestLimit \/ Pending # {}
  <2>1. RunsBase'
    BY <1>0, <1>1, <1>2, NothingWritten DEF RunCreate
  <2> QED
    BY <1>2, <2>1, NoJobIs DEF RunCreate, RunEnd, RunsIInv
<1>3. CASE ~(Cardinality(runJob.todo) > RequestLimit \/ Pending # {})
  <2>1. PICK b : b = [RunNoBatch EXCEPT !.state = "uploading", !.asked = runJob.todo,
                           !.role = runJob.role, !.vocab = runJob.vocab, !.source = runJob.source,
                           !.usage = [attempted |-> Cardinality(runJob.todo), uncertain |-> Cardinality(runJob.todo),
                                      received |-> 0]]
    OBVIOUS
  <2>2. /\ runBatch' = [runBatch EXCEPT ![runJob.run] = b]
        /\ runJob' = [runJob EXCEPT !.pc = "ledger", !.record = b]
    BY <1>3, <2>1 DEF RunCreate
  <2>3. /\ DOMAIN b = RowFields /\ b.state = "uploading" /\ b.asked = runJob.todo /\ b.role = runJob.role
        /\ b.vocab = runJob.vocab /\ b.source = runJob.source /\ ~b.remote /\ b.result = "none"
        /\ b.usage = [attempted |-> Cardinality(runJob.todo), uncertain |-> Cardinality(runJob.todo), received |-> 0]
    BY <2>1 DEF RunNoBatch, RowFields
  <2>4. BatchIs /\ runJob.kind = "batch" /\ runJob.pc = "reserve" /\ DOMAIN runJob = JobFields
    BY <1>0 DEF RunCreate, RunAt, JobIs
  <2>5. /\ runJob.run \in Runs /\ runJob.run <= runs /\ FromModel /\ Planned /\ runSent[runJob.run] = 0
        /\ remote[runJob.run].state = "absent"
    BY <2>4 DEF BatchIs
  <2>6. Cardinality(runJob.todo) \in Nat /\ Cardinality(runJob.todo) <= RequestLimit
    BY <1>3, <2>5, Counted, ModelRunsAssumption DEF Planned
  <2>7. RowIs(runJob.run, b)
    <3>1. RowTyped(b)
      BY <1>0, <2>3, <2>5, <2>6 DEF RowTyped, Waiting, FromModel, Planned, Usages, RunsBase, Versions
    <3>2. RowAgrees(runJob.run, b)
      BY <2>3, <2>5, <2>6 DEF RowAgrees, Waiting, Saved, Final, FromModel
    <3> QED
      BY <3>1, <3>2 DEF RowIs
  <2>8. remote[runJob.run].answered = {}
    BY <1>0, <2>5 DEF RunsBase, Remotes, RemoteIs, Final
  <2>9. RunsTyped' /\ Versions' /\ Profiles' /\ Ledgers' /\ Remotes'
    BY <1>0, <1>1, <2>2 DEF RunsBase, RunsTyped, Versions, Profiles, ProfileIs, Ledgers, LedgerIs, Remotes, RemoteIs
  <2>10. Rows'
    BY <1>0, <1>1, <2>2, <2>7 DEF RunsBase, RunsTyped, Rows, RowIs, RowTyped, RowAgrees, NotLater
  <2>11. Unstarted'
    BY <1>0, <1>1, <2>2, <2>5, ModelRunsAssumption DEF RunsBase, RunsTyped, Unstarted, NotStarted, Runs
  <2>12. Kept'
    BY <1>0, <1>1, <2>2, <2>8 DEF RunsBase, RunsTyped, Kept, AnswersKept
  <2>13. /\ DOMAIN runJob' = JobFields /\ runJob'.kind = "batch" /\ runJob'.pc = "ledger" /\ runJob'.record = b
         /\ \A f \in JobFields \ {"pc", "record"} : runJob'[f] = runJob[f]
    BY <2>2, <2>4 DEF JobFields
  <2>14. SamePlan /\ runJob'.run = runJob.run
    BY <2>13 DEF SamePlan, JobFields
  <2>15. RecordIs'
    BY <1>0, <1>1, <2>2, <2>5, <2>7, <2>13, <2>14 DEF RecordIs, RowIs, RowTyped, RowAgrees, NotLater, RunsBase, RunsTyped
  <2>16. \A q \in Runs \ {runJob.run} : q \notin Pending'
    BY <1>0, <1>3, <2>2 DEF Pending, RunsBase, RunsTyped
  <2>17. BatchIs'
    BY <1>1, <2>3, <2>4, <2>5, <2>13, <2>14, <2>15, <2>16, PlanStands DEF BatchIs, BatchPCs
  <2> QED
    BY <2>9, <2>10, <2>11, <2>12, <2>13, <2>17 DEF RunsIInv, RunsBase, JobIs
<1> QED
  BY <1>2, <1>3

(* The attempts of a batch are in the ledger before it is uploaded. *)
LEMMA Checkpointing ==
  ASSUME RunsIInv, Checkpoint
  PROVE  RunsIInv'
<1>0. RunsBase /\ JobIs
  BY DEF RunsIInv
<1>1. /\ ledger' = [ledger EXCEPT ![runJob.run] = runJob.record.usage]
      /\ runJob' = [runJob EXCEPT !.pc = "upload"]
      /\ UNCHANGED <<runSent, runBatch, remote, runFiles, profile, runNow, runs>>
  BY DEF Checkpoint, runBounds
<1>2. BatchIs /\ runJob.kind = "batch" /\ runJob.pc = "ledger" /\ DOMAIN runJob = JobFields
  BY <1>0 DEF Checkpoint, RunAt, JobIs
<1>3. runJob.run \in Runs /\ FromModel /\ Planned /\ runSent[runJob.run] = 0 /\ RecordIs
  BY <1>2 DEF BatchIs, BatchPCs
<1>4. /\ runJob.record.usage \in Usages /\ runJob.record.usage.attempted <= RequestLimit
      /\ runJob.record.usage.attempted \in Nat
  BY <1>3 DEF RecordIs, RowIs, RowTyped, Usages
<1>5. /\ DOMAIN runJob' = JobFields /\ runJob'.kind = "batch" /\ runJob'.pc = "upload"
      /\ \A f \in JobFields \ {"pc"} : runJob'[f] = runJob[f]
  BY <1>1, <1>2 DEF JobFields
<1>6. SamePlan /\ runJob'.run = runJob.run /\ runJob'.record = runJob.record
  BY <1>5 DEF SamePlan, JobFields
<1>7. ledger'[runJob.run] = runJob.record.usage /\ DOMAIN ledger' = Runs
  BY <1>0, <1>1, <1>3 DEF RunsBase, RunsTyped
<1>8. RecordIs'
  BY <1>1, <1>3, <1>6 DEF RecordIs, RowIs, RowTyped, RowAgrees, NotLater
<1>9. BatchIs'
  BY <1>1, <1>2, <1>3, <1>5, <1>6, <1>7, <1>8, PlanStands DEF BatchIs, BatchPCs, Pending
<1>10. Ledgers'
  BY <1>0, <1>1, <1>3, <1>4, <1>7 DEF RunsBase, RunsTyped, Ledgers, LedgerIs
<1>11. RunsTyped' /\ Versions' /\ Profiles' /\ Remotes' /\ Unstarted' /\ Kept'
  BY <1>0, <1>1, <1>7 DEF RunsBase, RunsTyped, Versions, Profiles, ProfileIs, Remotes, RemoteIs, Unstarted, NotStarted, Kept,
     AnswersKept
<1>12. Rows'
  BY <1>0, <1>1 DEF RunsBase, Rows, RowIs, RowTyped, RowAgrees, NotLater
<1> QED
  BY <1>5, <1>9, <1>10, <1>11, <1>12 DEF RunsIInv, RunsBase, JobIs

(* The requests of a batch are uploaded. *)
LEMMA Uploading ==
  ASSUME RunsIInv, RunUpload
  PROVE  RunsIInv'
<1>0. RunsBase /\ JobIs
  BY DEF RunsIInv
<1>1. UNCHANGED <<ledger, runSent, runBatch, remote, profile, runNow, runs>>
  BY DEF RunUpload
<1>2. \A r \in Runs : <<"out", r>> \in runFiles => <<"out", r>> \in runFiles'
  BY DEF RunUpload
<1>3. RunsBase'
  BY <1>0, <1>1, <1>2, NothingWritten
<1>4. CASE runJob' = RunNoJob
  BY <1>3, <1>4, NoJobIs DEF RunsIInv
<1>5. CASE runJob' = [runJob EXCEPT !.pc = "uploaded", !.record.file = TRUE]
  <2>1. BatchIs /\ runJob.kind = "batch" /\ runJob.pc = "upload" /\ DOMAIN runJob = JobFields
    BY <1>0 DEF RunUpload, RunAt, JobIs
  <2>2. runJob.run \in Runs /\ FromModel /\ Planned /\ RecordIs
    BY <2>1 DEF BatchIs, BatchPCs
  <2>3. DOMAIN runJob.record = RowFields
    BY <2>2 DEF RecordIs, RowIs, RowTyped
  <2>4. /\ DOMAIN runJob' = JobFields /\ runJob'.kind = "batch" /\ runJob'.pc = "uploaded"
        /\ runJob'.record = [runJob.record EXCEPT !.file = TRUE]
        /\ \A f \in JobFields \ {"pc", "record"} : runJob'[f] = runJob[f]
    BY <1>5, <2>1 DEF JobFields
  <2>5. DOMAIN runJob'.record = RowFields /\ \A f \in RowFields \ {"file"} : runJob'.record[f] = runJob.record[f]
    BY <2>3, <2>4
  <2>6. SamePlan /\ runJob'.run = runJob.run
    BY <2>4 DEF SamePlan, JobFields
  <2>7. RecordIs'
    <3>1. RowTyped(runJob'.record)
      BY <2>2, <2>5 DEF RecordIs, RowIs, RowTyped, RowFields
    <3>2. RowAgrees(runJob.run, runJob'.record)
      BY <2>2, <2>5 DEF RecordIs, RowIs, RowAgrees, RowFields
    <3> QED
      BY <1>1, <2>2, <2>5, <2>6, <3>1, <3>2 DEF RecordIs, RowIs, RowTyped, RowAgrees, NotLater, RowFields
  <2>8. runJob'.record.state = runJob.record.state /\ runJob'.record.usage = runJob.record.usage
    BY <2>5 DEF RowFields
  <2>9. BatchIs'
    BY <1>1, <2>1, <2>2, <2>4, <2>6, <2>7, <2>8, PlanStands DEF BatchIs, BatchPCs, Pending
  <2> QED
    BY <1>3, <2>4, <2>9 DEF RunsIInv, JobIs
<1> QED
  BY <1>4, <1>5 DEF RunUpload, RunEnd

(* The copy of the row the job goes on with is the row it persisted. *)
LEMMA RowHeld ==
  ASSUME NEW b, NEW pc, RunsBase, runJob.run \in Runs, DOMAIN runJob = JobFields,
         runJob' = [runJob EXCEPT !.pc = pc, !.record = b], runBatch' = [runBatch EXCEPT ![runJob.run] = b],
         UNCHANGED <<runSent, remote, runNow>>, RowIs(runJob.run, b)
  PROVE  /\ RecordIs' /\ DOMAIN runJob' = JobFields /\ runJob'.pc = pc /\ runJob'.record = b
         /\ \A f \in JobFields \ {"pc", "record"} : runJob'[f] = runJob[f]
         /\ \A q \in Runs \ {runJob.run} : q \notin Pending => q \notin Pending'
<1>1. /\ DOMAIN runJob' = JobFields /\ runJob'.pc = pc /\ runJob'.record = b
      /\ \A f \in JobFields \ {"pc", "record"} : runJob'[f] = runJob[f]
  BY DEF JobFields
<1>2. runJob'.run = runJob.run
  BY <1>1 DEF JobFields
<1>3. runBatch'[runJob.run] = b
  BY DEF RunsBase, RunsTyped
<1>4. RecordIs'
  BY <1>1, <1>2, <1>3 DEF RecordIs, RowIs, RowTyped, RowAgrees, NotLater
<1>5. \A q \in Runs \ {runJob.run} : q \notin Pending => q \notin Pending'
  BY DEF Pending, RunsBase, RunsTyped
<1> QED
  BY <1>1, <1>4, <1>5

(* An upload, and the intent to submit, are noted in the row. *)
LEMMA Noted ==
  ASSUME RunsIInv, Uploaded \/ Submitting
  PROVE  RunsIInv'
<1>0. RunsBase /\ JobIs
  BY DEF RunsIInv
<1>1. PICK state, pc : /\ \/ runJob.pc = "uploaded" /\ state = "uploaded" /\ pc = "submitting"
                          \/ runJob.pc = "submitting" /\ state = "submitting" /\ pc = "submit"
                       /\ Persist([runJob.record EXCEPT !.state = state], pc)
  BY DEF Uploaded, Submitting, RunAt
<1>2. PICK b : b = [runJob.record EXCEPT !.state = state]
  OBVIOUS
<1>3. UNCHANGED <<ledger, runSent, remote, runFiles, profile, runNow, runs>>
  BY DEF Uploaded, Submitting, runBounds
<1>4. BatchIs /\ runJob.kind = "batch" /\ DOMAIN runJob = JobFields
  BY <1>0 DEF Uploaded, Submitting, RunAt, JobIs
<1>5. /\ runJob.run \in Runs /\ runJob.run <= runs /\ FromModel /\ Planned /\ RecordIs
      /\ runJob.record.state \in {"uploading", "uploaded"} /\ runSent[runJob.run] = 0
      /\ remote[runJob.run].state = "absent"
  BY <1>1, <1>4 DEF BatchIs, BatchPCs
<1>6. /\ DOMAIN b = RowFields /\ b.state = state
      /\ \A f \in RowFields \ {"state"} : b[f] = runJob.record[f]
  BY <1>2, <1>5 DEF RecordIs, RowIs, RowTyped, RowFields
<1>7. RowIs(runJob.run, b)
  <2>1. RowTyped(b)
    BY <1>1, <1>5, <1>6 DEF RecordIs, RowIs, RowTyped, RowFields, Waiting
  <2>2. RowAgrees(runJob.run, b)
    BY <1>1, <1>5, <1>6 DEF RecordIs, RowIs, RowAgrees, RowFields, Waiting, Saved, Final
  <2> QED
    BY <2>1, <2>2 DEF RowIs
<1>8. KeepsAnswers(b)
  BY <1>0, <1>5 DEF KeepsAnswers, RunsBase, Remotes, RemoteIs, Final
<1>9. Persist(b, pc)
  BY <1>1, <1>2
<1>10. /\ RunsBase'
       /\ \/ runJob' = RunNoJob
          \/ runJob' = [runJob EXCEPT !.pc = pc, !.record = b] /\ runBatch' = [runBatch EXCEPT ![runJob.run] = b]
  BY <1>0, <1>3, <1>5, <1>7, <1>8, <1>9, RowWritten
<1>11. CASE runJob' = RunNoJob
  BY <1>10, <1>11, NoJobIs DEF RunsIInv
<1>12. CASE runJob' = [runJob EXCEPT !.pc = pc, !.record = b] /\ runBatch' = [runBatch EXCEPT ![runJob.run] = b]
  <2>1. /\ RecordIs' /\ DOMAIN runJob' = JobFields /\ runJob'.pc = pc /\ runJob'.record = b
        /\ \A f \in JobFields \ {"pc", "record"} : runJob'[f] = runJob[f]
        /\ \A q \in Runs \ {runJob.run} : q \notin Pending => q \notin Pending'
    BY <1>0, <1>3, <1>4, <1>5, <1>7, <1>12, RowHeld
  <2>2. SamePlan /\ runJob'.run = runJob.run /\ runJob'.kind = "batch"
    BY <1>4, <2>1 DEF SamePlan, JobFields
  <2>3. b.usage = runJob.record.usage
    BY <1>6 DEF RowFields
  <2>4. \A q \in Runs \ {runJob.run} : q \notin Pending'
    BY <1>1, <1>4, <2>1 DEF BatchIs, BatchPCs
  <2>5. BatchIs'
    BY <1>1, <1>3, <1>4, <1>5, <1>6, <2>1, <2>2, <2>3, <2>4, PlanStands DEF BatchIs, BatchPCs
  <2> QED
    BY <1>10, <2>1, <2>2, <2>5 DEF RunsIInv, JobIs
<1> QED
  BY <1>10, <1>11, <1>12

(* A batch is submitted once, from a row that says so. *)
LEMMA Submission ==
  ASSUME RunsIInv, RunSubmit
  PROVE  RunsIInv'
<1>0. RunsBase /\ JobIs
  BY DEF RunsIInv
<1>1. UNCHANGED <<ledger, runBatch, runFiles, profile, runNow, runs>>
  BY DEF RunSubmit
<1>2. BatchIs /\ runJob.kind = "batch" /\ runJob.pc = "submit" /\ DOMAIN runJob = JobFields
  BY <1>0 DEF RunSubmit, RunAt, JobIs
<1>3. /\ runJob.run \in Runs /\ runJob.run <= runs /\ FromModel /\ Planned /\ RecordIs
      /\ runJob.record.state = "submitting" /\ runSent[runJob.run] = 0 /\ remote[runJob.run].state = "absent"
      /\ ledger[runJob.run].attempted = runJob.record.usage.attempted
  BY <1>2 DEF BatchIs, BatchPCs
<1> DEFINE there == [state |-> "in_progress", asked |-> runJob.record.asked, answered |-> {}]
<1>4. PICK o \in {"ok", "lost", "refused"} :
       /\ remote' = IF o = "refused" THEN remote ELSE [remote EXCEPT ![runJob.run] = there]
       /\ runSent' = IF o = "refused" THEN runSent
                     ELSE [runSent EXCEPT ![runJob.run] = @ + Cardinality(runJob.record.asked)]
       /\ IF o = "ok" THEN runJob' = [runJob EXCEPT !.pc = "submitted", !.record.remote = TRUE] ELSE RunEnd
  BY DEF RunSubmit
<1>5. CASE o = "refused"
  <2>1. RunsBase'
    BY <1>0, <1>1, <1>4, <1>5, NothingWritten
  <2> QED
    BY <1>4, <1>5, <2>1, NoJobIs DEF RunEnd, RunsIInv
<1>6. CASE o # "refused"
  <2>1. /\ DOMAIN remote' = Runs /\ remote'[runJob.run] = there
        /\ \A r \in Runs \ {runJob.run} : remote'[r] = remote[r]
    BY <1>0, <1>3, <1>4, <1>6 DEF RunsBase, RunsTyped
  <2>2. /\ runJob.record.asked \subseteq RunRequests /\ Cardinality(runJob.record.asked) \in Nat
        /\ runJob.record.usage.attempted = Cardinality(runJob.record.asked)
        /\ runBatch[runJob.run].asked = runJob.record.asked /\ runBatch[runJob.run].state = "submitting"
    BY <1>3, Counted DEF RecordIs, RowIs, RowTyped
  <2>3. /\ DOMAIN runSent' = Runs /\ runSent'[runJob.run] = Cardinality(runJob.record.asked)
        /\ \A r \in Runs \ {runJob.run} : runSent'[r] = runSent[r]
    BY <1>0, <1>3, <1>4, <1>6, <2>2 DEF RunsBase, RunsTyped
  <2>4. /\ there.state = "in_progress" /\ there.asked = runJob.record.asked /\ there.answered = {}
        /\ DOMAIN there = {"state", "asked", "answered"}
    OBVIOUS
  <2> HIDE DEF there
  <2>5. RunsTyped' /\ Versions' /\ Profiles'
    BY <1>0, <1>1, <2>1, <2>3 DEF RunsBase, RunsTyped, Versions, Profiles, ProfileIs
  <2>6. Ledgers'
    BY <1>0, <1>1, <1>3, <2>2, <2>3 DEF RunsBase, Ledgers, LedgerIs
  <2>7. Remotes'
    BY <1>0, <2>1, <2>2, <2>4 DEF RunsBase, Remotes, RemoteIs, Working, Final
  <2>n. PICK n \in Runs : n = runJob.run
    BY <1>3
  <2>8. ASSUME NEW b, RowIs(n, b), b.state = "submitting", b.asked = runJob.record.asked
        PROVE  RowIs(n, b)'
    <3>1. RowTyped(b)'
      BY <1>1, <2>8 DEF RowIs, RowTyped, NotLater
    <3>2. RowAgrees(n, b) /\ b.usage.attempted = Cardinality(b.asked)
      BY <2>8 DEF RowIs, RowTyped
    <3>3. runSent'[n] <= b.usage.attempted
      BY <2>2, <2>3, <2>n, <2>8, <3>2
    <3>4. /\ remote'[n].state = "in_progress" /\ remote'[n].asked = b.asked /\ b.result = "none"
          /\ b.usage = [attempted |-> Cardinality(b.asked), received |-> 0, uncertain |-> Cardinality(b.asked)]
          /\ b.role = runNow.role
      BY <2>1, <2>4, <2>n, <2>8, <3>2 DEF RowAgrees, Waiting
    <3>5. RowAgrees(n, b)'
      BY <1>1, <2>8, <3>3, <3>4 DEF RowAgrees, Waiting, Saved, Final
    <3> QED
      BY <3>1, <3>5 DEF RowIs
  <2>9. Rows'
    <3> SUFFICES ASSUME NEW r \in Runs PROVE RowIs(r, runBatch[r])'
      BY DEF Rows
    <3>1. RowIs(r, runBatch[r])
      BY <1>0 DEF RunsBase, Rows
    <3>2. CASE r = n
      <4>1. PICK b : b = runBatch[r]
        OBVIOUS
      <4>2. RowIs(n, b)'
        BY <2>2, <2>n, <2>8, <3>1, <3>2, <4>1
      <4> QED
        BY <1>1, <3>2, <4>1, <4>2
    <3>3. CASE r # n
      BY <1>1, <2>1, <2>3, <2>n, <3>1, <3>3 DEF RowIs, RowTyped, RowAgrees, NotLater
    <3> QED
      BY <3>2, <3>3
  <2>10. Unstarted'
    BY <1>0, <1>1, <1>3, <2>1, <2>3, ModelRunsAssumption DEF RunsBase, RunsTyped, Unstarted, NotStarted, Runs
  <2>11. Kept'
    BY <1>0, <1>1, <2>1, <2>4 DEF RunsBase, Kept, AnswersKept
  <2>12. RunsBase'
    BY <2>5, <2>6, <2>7, <2>9, <2>10, <2>11 DEF RunsBase
  <2>13. CASE o # "ok"
    BY <1>4, <2>12, <2>13, NoJobIs DEF RunEnd, RunsIInv
  <2>14. CASE o = "ok"
    <3>1. runJob' = [runJob EXCEPT !.pc = "submitted", !.record.remote = TRUE]
      BY <1>4, <2>14
    <3>2. PICK b : b = [runJob.record EXCEPT !.remote = TRUE]
      OBVIOUS
    <3>3. /\ DOMAIN runJob' = JobFields /\ runJob'.kind = "batch" /\ runJob'.pc = "submitted" /\ runJob'.record = b
          /\ \A f \in JobFields \ {"pc", "record"} : runJob'[f] = runJob[f]
      BY <1>2, <3>1, <3>2 DEF JobFields
    <3>4. DOMAIN b = RowFields /\ \A f \in RowFields \ {"remote"} : b[f] = runJob.record[f]
      BY <1>3, <3>2 DEF RecordIs, RowIs, RowTyped, RowFields
    <3>5. PICK old : old = runJob.record
      OBVIOUS
    <3>6. RowIs(n, old)'
      BY <1>3, <2>n, <2>8, <3>5 DEF RecordIs
    <3>7. runJob'.run = runJob.run
      BY <3>3 DEF JobFields
    <3>8. RowIs(n, b)'
      <4>1. RowTyped(b)'
        BY <3>4, <3>5, <3>6 DEF RowIs, RowTyped, RowFields
      <4>2. RowAgrees(n, b)'
        BY <1>3, <2>1, <2>4, <2>n, <3>4, <3>5, <3>6, <3>7 DEF RowIs, RowAgrees, RowFields
      <4> QED
        BY <4>1, <4>2 DEF RowIs
    <3>9. b.state = "submitting" /\ b.asked = runJob.record.asked /\ b.usage = runJob.record.usage
      BY <1>3, <3>4 DEF RowFields
    <3>10. RecordIs'
      BY <1>1, <2>n, <2>2, <3>3, <3>7, <3>8, <3>9 DEF RecordIs
    <3>11. SamePlan
      BY <3>3 DEF SamePlan, JobFields
    <3>12. BatchIs'
      BY <1>1, <1>2, <1>3, <3>3, <3>7, <3>9, <3>10, <3>11, PlanStands DEF BatchIs, BatchPCs, Pending
    <3> QED
      BY <2>12, <3>3, <3>12 DEF RunsIInv, JobIs
  <2> QED
    BY <2>13, <2>14
<1> QED
  BY <1>5, <1>6

(* A row is written for the last time and its job ends. *)
LEMMA RowClosed ==
  ASSUME NEW b, RunsBase, runJob.run \in Runs, runBatch[runJob.run].state # "absent", RecordIs, Persist(b, "end"),
         UNCHANGED <<ledger, runSent, remote, runFiles, profile, runNow, runs>>,
         RowIs(runJob.run, b), KeepsAnswers(b)
  PROVE  RunsIInv'
<1>1. runJob.run <= runs
  BY ModelRunsAssumption DEF RunsBase, RunsTyped, Unstarted, NotStarted, Runs
<1>2. RunsBase' /\ runJob' = RunNoJob
  BY <1>1, RowWritten
<1> QED
  BY <1>2, NoJobIs DEF RunsIInv

(* The provider's answer to a submission is noted in the row. *)
LEMMA SubmissionNoted ==
  ASSUME RunsIInv, Submitted
  PROVE  RunsIInv'
<1>0. RunsBase /\ JobIs
  BY DEF RunsIInv
<1>1. PICK b : b = [runJob.record EXCEPT !.state = "submitted"]
  OBVIOUS
<1>2. Persist(b, "end") /\ UNCHANGED <<ledger, runSent, remote, runFiles, profile, runNow, runs>>
  BY <1>1 DEF Submitted, runBounds
<1>3. runJob.run \in Runs /\ RecordIs /\ runJob.record.state = "submitting"
  BY <1>0 DEF Submitted, RunAt, JobIs, BatchIs, BatchPCs
<1>4. /\ DOMAIN b = RowFields /\ b.state = "submitted"
      /\ \A f \in RowFields \ {"state"} : b[f] = runJob.record[f]
  BY <1>1, <1>3 DEF RecordIs, RowIs, RowTyped, RowFields
<1>5. RowTyped(b)
  BY <1>3, <1>4 DEF RecordIs, RowIs, RowTyped, RowFields, Waiting
<1>6. RowAgrees(runJob.run, b)
  BY <1>3, <1>4 DEF RecordIs, RowIs, RowAgrees, RowFields, Waiting, Saved, Final
<1>7. KeepsAnswers(b)
  BY <1>0, <1>3, <1>4 DEF KeepsAnswers, RunsBase, Rows, RecordIs, RowIs, RowAgrees, RowFields, Waiting
<1>8. runBatch[runJob.run].state # "absent"
  BY <1>3 DEF RecordIs
<1> QED
  BY <1>0, <1>2, <1>3, <1>5, <1>6, <1>7, <1>8, RowClosed DEF RowIs

-----------------------------------------------------------------------------
(* What a job that collects knows of its row. *)
LEMMA Collecting ==
  ASSUME RunsIInv, runJob.kind = "collect"
  PROVE  /\ RunsBase /\ CollectIs /\ DOMAIN runJob = JobFields /\ runJob.run \in Runs /\ runJob.run <= runs
         /\ runBatch[runJob.run].state # "absent" /\ RowIs(runJob.run, runBatch[runJob.run])
         /\ RemoteIs(runJob.run)
<1>1. RunsBase /\ CollectIs /\ DOMAIN runJob = JobFields /\ runJob.run \in Runs /\ runBatch[runJob.run].state # "absent"
  BY DEF RunsIInv, JobIs, CollectIs
<1>2. runJob.run <= runs
  BY <1>1, ModelRunsAssumption DEF RunsBase, RunsTyped, Unstarted, NotStarted, Runs
<1> QED
  BY <1>1, <1>2 DEF RunsBase, Rows, Remotes

(* A collecting job reads the row and goes where its state says. *)
LEMMA Reading ==
  ASSUME RunsIInv, RunRead
  PROVE  RunsIInv'
<1>0. /\ RunsBase /\ CollectIs /\ DOMAIN runJob = JobFields /\ runJob.run \in Runs
      /\ runBatch[runJob.run].state # "absent" /\ RowIs(runJob.run, runBatch[runJob.run])
  BY Collecting DEF RunRead, RunAt
<1>1. UNCHANGED <<ledger, runSent, runBatch, remote, runFiles, profile, runNow, runs>>
  BY DEF RunRead, runBounds
<1>2. RunsBase'
  BY <1>0, <1>1, NothingWritten
<1>3. CASE runJob' = RunNoJob
  BY <1>2, <1>3, NoJobIs DEF RunsIInv
<1> DEFINE b == runBatch[runJob.run]
<1>4. ASSUME NEW pc, runJob' = [runJob EXCEPT !.pc = pc, !.record = b],
             \/ pc = "delete" /\ b.state = "results_saved"
             \/ pc = "status" /\ b.remote /\ b.state \notin Final \union {"results_saved"}
             \/ pc = "abandon" /\ b.state = "submitting"
             \/ pc = "recover" /\ b.state = "submitting" /\ runJob.found
             \/ pc = "drop" /\ b.state \in {"uploading", "uploaded"}
      PROVE  RunsIInv'
  <2>1. /\ DOMAIN runJob' = JobFields /\ runJob'.pc = pc /\ runJob'.record = b
        /\ \A f \in JobFields \ {"pc", "record"} : runJob'[f] = runJob[f]
    BY <1>0, <1>4 DEF JobFields
  <2>2. runJob'.run = runJob.run /\ runJob'.kind = "collect" /\ runJob'.found = runJob.found
    BY <2>1 DEF JobFields, RunRead, RunAt
  <2>3. RecordIs'
    BY <1>0, <1>1, <2>1, <2>2 DEF RecordIs, RowIs, RowTyped, RowAgrees, NotLater
  <2>4. pc = "status" => b.state \in Waiting /\ remote[runJob.run].state # "absent"
    BY <1>0, <1>4 DEF RowIs, RowTyped, RowAgrees, Final
  <2>5. CollectIs'
    BY <1>0, <1>1, <1>4, <2>1, <2>2, <2>3, <2>4 DEF CollectIs
  <2> QED
    BY <1>2, <2>1, <2>2, <2>5 DEF RunsIInv, JobIs
<1>5. runJob' = RunNoJob \/ \E pc : /\ runJob' = [runJob EXCEPT !.pc = pc, !.record = b]
                                    /\ \/ pc = "delete" /\ b.state = "results_saved"
                                       \/ pc = "status" /\ b.remote /\ b.state \notin Final \union {"results_saved"}
                                       \/ pc = "abandon" /\ b.state = "submitting"
                                       \/ pc = "recover" /\ b.state = "submitting" /\ runJob.found
                                       \/ pc = "drop" /\ b.state \in {"uploading", "uploaded"}
  BY DEF RunRead, RunEnd, Final
<1> QED
  BY <1>3, <1>4, <1>5

(* A batch is abandoned, dropped or kept. *)
LEMMA Resolving ==
  ASSUME RunsIInv, RunAbandon \/ Dropped \/ RunKept
  PROVE  RunsIInv'
<1>0. /\ RunsBase /\ CollectIs /\ runJob.run \in Runs /\ runBatch[runJob.run].state # "absent"
      /\ RowIs(runJob.run, runBatch[runJob.run]) /\ RemoteIs(runJob.run)
  BY Collecting DEF RunAbandon, Dropped, RunKept, RunAt
<1>1. UNCHANGED <<ledger, runSent, remote, runFiles, profile, runNow, runs>>
  BY DEF RunAbandon, Dropped, RunKept, runBounds
<1>2. RecordIs
  BY <1>0 DEF CollectIs, RunAbandon, Dropped, RunKept, RunAt
<1>3. runJob.record.state \in Waiting
  BY <1>0 DEF CollectIs, RunAbandon, Dropped, RunKept, RunAt, Waiting
<1>4. DOMAIN runJob.record = RowFields /\ runJob.record.result = "none" /\ runBatch[runJob.run].result = "none"
  BY <1>0, <1>2, <1>3 DEF RecordIs, RowIs, RowTyped, RowAgrees
<1>5. CASE RunAbandon
  <2>1. PICK b : b = [runJob.record EXCEPT !.state = "cancelled", !.result = "abandoned"]
    OBVIOUS
  <2>2. Persist(b, "end")
    BY <1>5, <2>1 DEF RunAbandon
  <2>3. /\ DOMAIN b = RowFields /\ b.state = "cancelled" /\ b.result = "abandoned"
        /\ \A f \in RowFields \ {"state", "result"} : b[f] = runJob.record[f]
    BY <1>4, <2>1 DEF RowFields
  <2>4. RowTyped(b)
    BY <1>2, <2>3 DEF RecordIs, RowIs, RowTyped, RowFields, Final
  <2>5. RowAgrees(runJob.run, b)
    BY <1>2, <1>3, <2>3 DEF RecordIs, RowIs, RowAgrees, RowFields, Waiting, Saved, Final
  <2>6. KeepsAnswers(b)
    BY <2>3 DEF KeepsAnswers
  <2> QED
    BY <1>0, <1>1, <1>2, <2>2, <2>4, <2>5, <2>6, RowClosed DEF RowIs
<1>6. CASE Dropped
  <2>1. PICK b : b = [runJob.record EXCEPT !.state = "cancelled", !.result = "not_submitted"]
    OBVIOUS
  <2>2. Persist(b, "end") /\ runJob.record.state \in {"uploading", "uploaded"}
    BY <1>0, <1>6, <2>1 DEF Dropped, CollectIs, RunAt
  <2>3. /\ DOMAIN b = RowFields /\ b.state = "cancelled" /\ b.result = "not_submitted"
        /\ \A f \in RowFields \ {"state", "result"} : b[f] = runJob.record[f]
    BY <1>4, <2>1 DEF RowFields
  <2>4. RowTyped(b)
    BY <1>2, <2>3 DEF RecordIs, RowIs, RowTyped, RowFields, Final
  <2>5. remote[runJob.run].state = "absent" /\ remote[runJob.run].answered = {}
    BY <1>0, <1>2, <2>2 DEF RecordIs, RowIs, RowAgrees, RemoteIs, Final
  <2>6. RowAgrees(runJob.run, b)
    BY <1>2, <1>3, <2>3, <2>5 DEF RecordIs, RowIs, RowAgrees, RowFields, Waiting, Saved, Final
  <2>7. KeepsAnswers(b)
    BY <2>5 DEF KeepsAnswers
  <2> QED
    BY <1>0, <1>1, <1>2, <2>2, <2>4, <2>6, <2>7, RowClosed DEF RowIs
<1>7. CASE RunKept
  <2>1. PICK b : b = [runJob.record EXCEPT !.state = runJob.outcome]
    OBVIOUS
  <2>2. Persist(b, "end") /\ runJob.outcome \in Working /\ remote[runJob.run].state # "absent"
    BY <1>0, <1>7, <2>1 DEF RunKept, CollectIs, RunAt
  <2>3. /\ DOMAIN b = RowFields /\ b.state \in Working
        /\ \A f \in RowFields \ {"state"} : b[f] = runJob.record[f]
    BY <1>4, <2>1, <2>2 DEF RowFields
  <2>4. RowTyped(b)
    BY <1>2, <2>3 DEF RecordIs, RowIs, RowTyped, RowFields, Waiting, Working
  <2>5. RowAgrees(runJob.run, b)
    BY <1>2, <1>3, <2>2, <2>3 DEF RecordIs, RowIs, RowAgrees, RowFields, Waiting, Working, Saved, Final
  <2>6. KeepsAnswers(b)
    BY <1>4, <2>3 DEF KeepsAnswers, RowFields
  <2> QED
    BY <1>0, <1>1, <1>2, <2>2, <2>4, <2>5, <2>6, RowClosed DEF RowIs
<1> QED
  BY <1>5, <1>6, <1>7

(* A submission whose answer was lost is found at the provider. *)
LEMMA Recovering ==
  ASSUME RunsIInv, RunRecover
  PROVE  RunsIInv'
<1>0. /\ RunsBase /\ CollectIs /\ DOMAIN runJob = JobFields /\ runJob.run \in Runs /\ runJob.run <= runs
      /\ RowIs(runJob.run, runBatch[runJob.run])
  BY Collecting DEF RunRecover, RunAt
<1>1. PICK b : b = [runJob.record EXCEPT !.state = "submitted", !.remote = TRUE]
  OBVIOUS
<1>2. Persist(b, "status") /\ UNCHANGED <<ledger, runSent, remote, runFiles, profile, runNow, runs>>
  BY <1>1 DEF RunRecover, runBounds
<1>3. RecordIs /\ runJob.record.state = "submitting" /\ remote[runJob.run].state # "absent"
  BY <1>0 DEF RunRecover, RunAt, CollectIs
<1>4. /\ DOMAIN b = RowFields /\ b.state = "submitted" /\ b.remote
      /\ \A f \in RowFields \ {"state", "remote"} : b[f] = runJob.record[f]
  BY <1>1, <1>3 DEF RecordIs, RowIs, RowTyped, RowFields
<1>5. RowTyped(b)
  BY <1>3, <1>4 DEF RecordIs, RowIs, RowTyped, RowFields, Waiting
<1>6. RowAgrees(runJob.run, b)
  BY <1>3, <1>4 DEF RecordIs, RowIs, RowAgrees, RowFields, Waiting, Saved, Final
<1>7. KeepsAnswers(b)
  BY <1>0, <1>3, <1>4 DEF KeepsAnswers, RecordIs, RowIs, RowAgrees, RowFields, Waiting
<1>8. /\ RunsBase'
      /\ \/ runJob' = RunNoJob
         \/ runJob' = [runJob EXCEPT !.pc = "status", !.record = b] /\ runBatch' = [runBatch EXCEPT ![runJob.run] = b]
  BY <1>0, <1>2, <1>3, <1>5, <1>6, <1>7, RowWritten DEF RowIs
<1>9. CASE runJob' = RunNoJob
  BY <1>8, <1>9, NoJobIs DEF RunsIInv
<1>10. CASE runJob' = [runJob EXCEPT !.pc = "status", !.record = b] /\ runBatch' = [runBatch EXCEPT ![runJob.run] = b]
  <2>1. /\ RecordIs' /\ DOMAIN runJob' = JobFields /\ runJob'.pc = "status" /\ runJob'.record = b
        /\ \A f \in JobFields \ {"pc", "record"} : runJob'[f] = runJob[f]
    BY <1>0, <1>2, <1>5, <1>6, <1>10, RowHeld DEF RowIs
  <2>2. runJob'.run = runJob.run /\ runJob'.kind = "collect" /\ runJob'.found = runJob.found
    BY <2>1 DEF JobFields, RunRecover, RunAt
  <2>3. CollectIs'
    BY <1>0, <1>2, <1>3, <1>4, <2>1, <2>2 DEF CollectIs, RecordIs, Waiting
  <2> QED
    BY <1>8, <2>1, <2>2, <2>3 DEF RunsIInv, JobIs
<1> QED
  BY <1>8, <1>9, <1>10

(* The upload of a batch that was never submitted is dropped. *)
LEMMA Dropping ==
  ASSUME RunsIInv, RunDrop
  PROVE  RunsIInv'
<1>0. RunsBase /\ CollectIs /\ DOMAIN runJob = JobFields
  BY Collecting DEF RunDrop, RunAt
<1>1. UNCHANGED <<ledger, runSent, runBatch, remote, profile, runNow, runs>>
  BY DEF RunDrop
<1>2. \A r \in Runs : <<"out", r>> \in runFiles => <<"out", r>> \in runFiles'
  BY DEF RunDrop
<1>3. RunsBase'
  BY <1>0, <1>1, <1>2, NothingWritten
<1>4. CASE runJob' = RunNoJob
  BY <1>3, <1>4, NoJobIs DEF RunsIInv
<1>5. CASE runJob' = [runJob EXCEPT !.pc = "dropped"]
  <2>1. /\ DOMAIN runJob' = JobFields /\ runJob'.pc = "dropped"
        /\ \A f \in JobFields \ {"pc"} : runJob'[f] = runJob[f]
    BY <1>0, <1>5 DEF JobFields
  <2>2. /\ runJob'.run = runJob.run /\ runJob'.kind = "collect" /\ runJob'.found = runJob.found
        /\ runJob'.record = runJob.record
    BY <2>1 DEF JobFields, RunDrop, RunAt
  <2>3. RecordIs /\ runJob.record.state \in {"uploading", "uploaded"}
    BY <1>0 DEF CollectIs, RunDrop, RunAt
  <2>4. RecordIs'
    BY <1>1, <2>2, <2>3 DEF RecordIs, RowIs, RowTyped, RowAgrees, NotLater
  <2>5. CollectIs'
    BY <1>0, <1>1, <2>1, <2>2, <2>3, <2>4 DEF CollectIs
  <2> QED
    BY <1>3, <2>1, <2>2, <2>5 DEF RunsIInv, JobIs
<1> QED
  BY <1>4, <1>5 DEF RunDrop, RunEnd

(* The state of a batch is the provider's. *)
LEMMA AskingStatus ==
  ASSUME RunsIInv, Status
  PROVE  RunsIInv'
<1>0. /\ RunsBase /\ CollectIs /\ DOMAIN runJob = JobFields /\ runJob.run \in Runs /\ runJob.run <= runs
      /\ runBatch[runJob.run].state # "absent" /\ RowIs(runJob.run, runBatch[runJob.run]) /\ RemoteIs(runJob.run)
  BY Collecting DEF Status, RunAt
<1>1. UNCHANGED <<ledger, runSent, runBatch, runFiles, profile, runNow, runs>>
  BY DEF Status
<1>2. RecordIs /\ runJob.record.state \in Waiting /\ remote[runJob.run].state # "absent"
  BY <1>0 DEF Status, RunAt, CollectIs
<1>n. PICK n \in Runs : n = runJob.run
  BY <1>0
<1>3. /\ DOMAIN remote' = Runs /\ \A r \in Runs \ {n} : remote'[r] = remote[r]
      /\ DOMAIN remote'[n] = {"state", "asked", "answered"}
      /\ remote'[n].asked = remote[n].asked /\ remote'[n].answered = remote[n].answered
      /\ remote[n].state \in Final => remote'[n].state = remote[n].state
      /\ remote[n].state \notin Final => remote'[n].state \in {remote[n].state, "cancelling"}
  BY <1>0, <1>n DEF Status, RunsBase, RunsTyped, RemoteIs
<1>4. ASSUME NEW b, RowIs(n, b) PROVE RowIs(n, b)'
  <2>1. RowTyped(b)'
    BY <1>1, <1>4 DEF RowIs, RowTyped, NotLater
  <2>2. RowAgrees(n, b)'
    BY <1>1, <1>2, <1>n, <1>3, <1>4 DEF RowIs, RowAgrees, Final
  <2> QED
    BY <2>1, <2>2 DEF RowIs
<1>5. RunsTyped' /\ Versions' /\ Profiles' /\ Ledgers'
  BY <1>0, <1>1, <1>3 DEF RunsBase, RunsTyped, Versions, Profiles, ProfileIs, Ledgers, LedgerIs
<1>6. Remotes'
  BY <1>0, <1>3 DEF RunsBase, Remotes, RemoteIs, Working, Final
<1>7. Rows'
  <2> SUFFICES ASSUME NEW r \in Runs PROVE RowIs(r, runBatch[r])'
    BY DEF Rows
  <2>1. RowIs(r, runBatch[r])
    BY <1>0 DEF RunsBase, Rows
  <2>2. PICK b : b = runBatch[r]
    OBVIOUS
  <2>3. CASE r = n
    <3>1. RowIs(n, b)'
      BY <1>4, <2>1, <2>2, <2>3
    <3> QED
      BY <1>1, <2>2, <2>3, <3>1
  <2>4. CASE r # n
    BY <1>1, <1>3, <2>1, <2>4 DEF RowIs, RowTyped, RowAgrees, NotLater
  <2> QED
    BY <2>3, <2>4
<1>8. Unstarted'
  BY <1>0, <1>1, <1>n, <1>3, ModelRunsAssumption DEF RunsBase, RunsTyped, Unstarted, NotStarted, Runs
<1>9. Kept'
  BY <1>0, <1>1, <1>3 DEF RunsBase, Kept, AnswersKept
<1>10. RunsBase'
  BY <1>5, <1>6, <1>7, <1>8, <1>9 DEF RunsBase
<1>11. CASE runJob' = RunNoJob
  BY <1>10, <1>11, NoJobIs DEF RunsIInv
<1>12. ASSUME NEW pc, NEW o, runJob' = [runJob EXCEPT !.pc = pc, !.outcome = o],
              \/ pc = "kept" /\ o \in Working
              \/ pc = "download" /\ o \in Final /\ remote[n].state \in Final
       PROVE  RunsIInv'
  <2>1. /\ DOMAIN runJob' = JobFields /\ runJob'.pc = pc /\ runJob'.outcome = o
        /\ \A f \in JobFields \ {"pc", "outcome"} : runJob'[f] = runJob[f]
    BY <1>0, <1>12 DEF JobFields
  <2>2. /\ runJob'.run = n /\ runJob'.kind = "collect" /\ runJob'.found = runJob.found
        /\ runJob'.record = runJob.record
    BY <1>n, <2>1 DEF JobFields, Status, RunAt
  <2>3. PICK b : b = runJob.record
    OBVIOUS
  <2>4. RowIs(n, b)'
    BY <1>2, <1>n, <1>4, <2>3 DEF RecordIs
  <2>5. RecordIs'
    BY <1>1, <1>2, <1>n, <2>2, <2>3, <2>4 DEF RecordIs
  <2>6. remote'[n].state # "absent" /\ (remote[n].state \in Final => remote'[n].state \in Final)
    BY <1>2, <1>n, <1>3 DEF Final
  <2>7. CollectIs'
    BY <1>0, <1>1, <1>2, <1>n, <1>12, <2>1, <2>2, <2>5, <2>6 DEF CollectIs
  <2> QED
    BY <1>10, <2>1, <2>2, <2>7 DEF RunsIInv, JobIs
<1>13. runJob' = RunNoJob \/ \E pc, o : /\ runJob' = [runJob EXCEPT !.pc = pc, !.outcome = o]
                                        /\ \/ pc = "kept" /\ o \in Working
                                           \/ pc = "download" /\ o \in Final /\ remote[n].state \in Final
  BY <1>0, <1>2, <1>n DEF Status, RunEnd, RemoteIs, Working
<1> QED
  BY <1>11, <1>12, <1>13

(* The answers are read once the batch is final. *)
LEMMA Downloading ==
  ASSUME RunsIInv, Download
  PROVE  RunsIInv'
<1>0. /\ RunsBase /\ CollectIs /\ DOMAIN runJob = JobFields /\ runJob.run \in Runs /\ RemoteIs(runJob.run)
  BY Collecting DEF Download, RunAt
<1>1. UNCHANGED <<ledger, runSent, runBatch, remote, runFiles, profile, runNow, runs>>
  BY DEF Download, runBounds
<1>2. RunsBase'
  BY <1>0, <1>1, NothingWritten
<1>3. CASE runJob' = RunNoJob
  BY <1>2, <1>3, NoJobIs DEF RunsIInv
<1>4. CASE runJob' # RunNoJob
  <2>1. /\ RecordIs /\ runJob.record.state \in Waiting /\ runJob.outcome \in Final
        /\ remote[runJob.run].state \in Final
    BY <1>0 DEF Download, RunAt, CollectIs
  <2>2. runJob' = [runJob EXCEPT !.pc = "apply", !.todo = remote[runJob.run].answered, !.usage = runJob.record.usage,
                        !.current = runJob.record.role = runNow.role /\ runJob.record.vocab = runNow.vocab]
    BY <1>4 DEF Download, RunEnd
  <2>3. /\ DOMAIN runJob' = JobFields /\ runJob'.pc = "apply" /\ runJob'.todo = remote[runJob.run].answered
        /\ runJob'.usage = runJob.record.usage
        /\ \A f \in JobFields \ {"pc", "todo", "usage", "current"} : runJob'[f] = runJob[f]
    BY <1>0, <2>2 DEF JobFields
  <2>4. /\ runJob'.run = runJob.run /\ runJob'.kind = "collect" /\ runJob'.found = runJob.found
        /\ runJob'.record = runJob.record /\ runJob'.outcome = runJob.outcome
    BY <2>3 DEF JobFields, Download, RunAt
  <2>5. RecordIs'
    BY <1>1, <2>1, <2>4 DEF RecordIs, RowIs, RowTyped, RowAgrees, NotLater
  <2>6. runJob.record.usage = [attempted |-> Cardinality(remote[runJob.run].asked),
                               received |-> Cardinality(remote[runJob.run].answered \ runJob'.todo),
                               uncertain |-> Cardinality((remote[runJob.run].asked \ remote[runJob.run].answered)
                                                         \union runJob'.todo)]
    <3>1. remote[runJob.run].answered \ runJob'.todo = {}
      BY <2>3
    <3>2. (remote[runJob.run].asked \ remote[runJob.run].answered) \union runJob'.todo = remote[runJob.run].asked
      BY <1>0, <2>3 DEF RemoteIs
    <3>3. /\ remote[runJob.run].asked = runJob.record.asked
          /\ runJob.record.usage = [attempted |-> Cardinality(runJob.record.asked), received |-> 0,
                                    uncertain |-> Cardinality(runJob.record.asked)]
      BY <2>1 DEF RecordIs, RowIs, RowAgrees, Final
    <3>4. Cardinality({}) = 0
      BY FS_EmptySet
    <3> QED
      BY <3>1, <3>2, <3>3, <3>4
  <2>7. AppliedSoFar'
    BY <1>1, <2>3, <2>4, <2>6 DEF AppliedSoFar
  <2>8. CollectIs'
    BY <1>0, <1>1, <2>1, <2>3, <2>4, <2>5, <2>7 DEF CollectIs, Final
  <2> QED
    BY <1>2, <2>3, <2>4, <2>8 DEF RunsIInv, JobIs
<1> QED
  BY <1>3, <1>4

(* An answer is applied to its profile, one by one. *)
LEMMA Applying ==
  ASSUME RunsIInv, RunApply
  PROVE  RunsIInv'
<1>0. /\ RunsBase /\ CollectIs /\ DOMAIN runJob = JobFields /\ runJob.run \in Runs /\ RemoteIs(runJob.run)
  BY Collecting DEF RunApply, RunAt
<1>1. UNCHANGED <<runSent, runBatch, remote, runFiles, runNow, runs>>
  BY DEF RunApply, runBounds
<1>2. /\ RecordIs /\ runJob.record.state \in Waiting /\ runJob.outcome \in Final
      /\ remote[runJob.run].state \in Final /\ runJob.todo \subseteq remote[runJob.run].answered /\ runJob.todo # {}
      /\ runJob.usage = [attempted |-> Cardinality(remote[runJob.run].asked),
                         received |-> Cardinality(remote[runJob.run].answered \ runJob.todo),
                         uncertain |-> Cardinality((remote[runJob.run].asked \ remote[runJob.run].answered)
                                                    \union runJob.todo)]
  BY <1>0 DEF RunApply, RunAt, CollectIs, AppliedSoFar
<1>3. PICK i : i = Least(runJob.todo)
  OBVIOUS
<1>4. i \in runJob.todo
  <2>1. runJob.todo \subseteq Nat
    BY <1>0, <1>2, ModelRunsAssumption DEF RemoteIs
  <2> QED
    BY <1>2, <1>3, <2>1, LeastIsIn
<1>5. PICK u : u = RunFinished(runJob.usage, "ok")
  OBVIOUS
<1>6. PICK asked, answered : asked = remote[runJob.run].asked /\ answered = remote[runJob.run].answered
  OBVIOUS
<1>7. u = [attempted |-> Cardinality(asked), received |-> Cardinality(answered \ (runJob.todo \ {i})),
           uncertain |-> Cardinality((asked \ answered) \union (runJob.todo \ {i}))]
  <2>1. asked \subseteq RunRequests /\ answered \subseteq asked /\ runJob.todo \subseteq answered
    BY <1>0, <1>2, <1>6 DEF RemoteIs
  <2>2. answered \ (runJob.todo \ {i}) = (answered \ runJob.todo) \union {i} /\ i \notin answered \ runJob.todo
    BY <1>4, <2>1
  <2>3. Cardinality((answered \ runJob.todo) \union {i}) = Cardinality(answered \ runJob.todo) + 1
    <3>1. IsFiniteSet(answered \ runJob.todo)
      BY <2>1, Counted
    <3> QED
      BY <2>2, <3>1, FS_AddElement
  <2>4. (asked \ answered) \union (runJob.todo \ {i}) = ((asked \ answered) \union runJob.todo) \ {i}
    BY <1>4, <2>1
  <2>5. Cardinality(((asked \ answered) \union runJob.todo) \ {i})
          = Cardinality((asked \ answered) \union runJob.todo) - 1
    <3>1. IsFiniteSet((asked \ answered) \union runJob.todo) /\ i \in (asked \ answered) \union runJob.todo
      BY <1>4, <2>1, Counted
    <3> QED
      BY <3>1, FS_RemoveElement
  <2>6. u = [attempted |-> runJob.usage.attempted, received |-> runJob.usage.received + 1,
             uncertain |-> runJob.usage.uncertain - 1]
    BY <1>2, <1>5 DEF RunFinished
  <2> QED
    BY <1>2, <1>6, <2>2, <2>3, <2>4, <2>5, <2>6
<1>8. u \in Usages /\ u.attempted = Cardinality(asked) /\ u.attempted <= RequestLimit /\ runSent[runJob.run] <= u.attempted
  <2>1. /\ asked = runJob.record.asked /\ asked \subseteq RunRequests /\ answered \subseteq asked
        /\ runJob.todo \subseteq answered
        /\ runJob.record.usage.attempted = Cardinality(asked) /\ Cardinality(asked) <= RequestLimit
        /\ runSent[runJob.run] <= Cardinality(asked)
    BY <1>0, <1>2, <1>6 DEF RecordIs, RowIs, RowTyped, RowAgrees, RemoteIs, Final, Waiting
  <2>2. /\ Cardinality(asked) \in Nat /\ Cardinality(answered \ (runJob.todo \ {i})) \in Nat
        /\ Cardinality((asked \ answered) \union (runJob.todo \ {i})) \in Nat
    BY <2>1, Counted
  <2> QED
    BY <1>7, <2>1, <2>2 DEF Usages
<1>9. ledger' = [ledger EXCEPT ![runJob.run] = u]
  BY <1>5 DEF RunApply
<1>10. RunsTyped' /\ Versions' /\ Remotes' /\ Unstarted' /\ Kept'
  BY <1>0, <1>1, <1>9 DEF RunsBase, RunsTyped, Versions, Remotes, RemoteIs, Unstarted, NotStarted, Kept, AnswersKept
<1>11. Ledgers'
  BY <1>0, <1>1, <1>8, <1>9 DEF RunsBase, RunsTyped, Ledgers, LedgerIs
<1>12. Rows'
  BY <1>0, <1>1 DEF RunsBase, Rows, RowIs, RowTyped, RowAgrees, NotLater
<1>13. Profiles'
  <2>1. CASE profile' = profile
    BY <1>0, <1>1, <2>1 DEF RunsBase, Profiles, ProfileIs
  <2>2. CASE Stored({i}, runJob.record.role, runJob.record.vocab, runJob.record.source)
    BY <1>0, <1>1, <1>2, <2>2 DEF RunsBase, Profiles, ProfileIs, Stored, RunSignature, RecordIs, RowIs, RowTyped, NotLater,
       Versions
  <2> QED
    BY <1>3, <2>1, <2>2 DEF RunApply
<1>14. RunsBase'
  BY <1>10, <1>11, <1>12, <1>13 DEF RunsBase
<1>15. CASE runJob' = RunNoJob
  BY <1>14, <1>15, NoJobIs DEF RunsIInv
<1>16. CASE runJob' = [runJob EXCEPT !.todo = @ \ {i}, !.usage = u]
  <2>1. /\ DOMAIN runJob' = JobFields /\ runJob'.todo = runJob.todo \ {i} /\ runJob'.usage = u
        /\ \A f \in JobFields \ {"todo", "usage"} : runJob'[f] = runJob[f]
    BY <1>0, <1>16 DEF JobFields
  <2>2. /\ runJob'.run = runJob.run /\ runJob'.kind = "collect" /\ runJob'.found = runJob.found
        /\ runJob'.record = runJob.record /\ runJob'.outcome = runJob.outcome /\ runJob'.pc = "apply"
    BY <2>1 DEF JobFields, RunApply, RunAt
  <2>3. RecordIs'
    BY <1>1, <1>2, <2>2 DEF RecordIs, RowIs, RowTyped, RowAgrees, NotLater
  <2>4. AppliedSoFar'
    BY <1>1, <1>2, <1>6, <1>7, <2>1, <2>2 DEF AppliedSoFar
  <2>5. CollectIs'
    BY <1>0, <1>1, <1>2, <2>2, <2>3, <2>4 DEF CollectIs, Final
  <2> QED
    BY <1>14, <2>1, <2>2, <2>5 DEF RunsIInv, JobIs
<1> QED
  BY <1>3, <1>5, <1>15, <1>16 DEF RunApply, RunEnd

(* The usage of the answers is saved with the row. *)
LEMMA Saving ==
  ASSUME RunsIInv, RunSave
  PROVE  RunsIInv'
<1>0. /\ RunsBase /\ CollectIs /\ DOMAIN runJob = JobFields /\ runJob.run \in Runs /\ runJob.run <= runs
      /\ RemoteIs(runJob.run)
  BY Collecting DEF RunSave, RunAt
<1>1. PICK b : b = [runJob.record EXCEPT !.state = "results_saved", !.usage = runJob.usage,
                !.result = IF runJob.current THEN "applied" ELSE "stale", !.final = runJob.outcome]
  OBVIOUS
<1>2. Persist(b, "delete") /\ UNCHANGED <<ledger, runSent, remote, runFiles, profile, runNow, runs>>
  BY <1>1 DEF RunSave, runBounds
<1>3. /\ RecordIs /\ runJob.record.state \in Waiting /\ runJob.outcome \in Final
      /\ remote[runJob.run].state \in Final /\ AppliedSoFar /\ runJob.todo = {}
  BY <1>0 DEF RunSave, RunAt, CollectIs
<1>4. /\ DOMAIN b = RowFields /\ b.state = "results_saved" /\ b.usage = runJob.usage /\ b.result \in Saved
      /\ b.final = runJob.outcome
      /\ \A f \in RowFields \ {"state", "usage", "result", "final"} : b[f] = runJob.record[f]
  BY <1>1, <1>3 DEF RecordIs, RowIs, RowTyped, RowFields, Saved
<1>5. /\ remote[runJob.run].asked = runJob.record.asked
      /\ runJob.usage = [attempted |-> Cardinality(remote[runJob.run].asked),
                         received |-> Cardinality(remote[runJob.run].answered),
                         uncertain |-> Cardinality(remote[runJob.run].asked \ remote[runJob.run].answered)]
  <2>1. /\ remote[runJob.run].answered \ runJob.todo = remote[runJob.run].answered
        /\ (remote[runJob.run].asked \ remote[runJob.run].answered) \union runJob.todo
             = remote[runJob.run].asked \ remote[runJob.run].answered
    BY <1>3
  <2>2. remote[runJob.run].asked = runJob.record.asked
    BY <1>3 DEF RecordIs, RowIs, RowAgrees, Final
  <2> QED
    BY <1>3, <2>1, <2>2 DEF AppliedSoFar
<1>6. /\ runJob.record.asked \subseteq RunRequests /\ runJob.record.usage.attempted = Cardinality(runJob.record.asked)
      /\ runJob.record.usage.attempted <= RequestLimit /\ runSent[runJob.run] <= runJob.record.usage.attempted
      /\ remote[runJob.run].answered \subseteq RunRequests
  BY <1>0, <1>3 DEF RecordIs, RowIs, RowTyped, RowAgrees, Waiting, RemoteIs
<1>7. runJob.usage \in Usages /\ runJob.usage.attempted = Cardinality(runJob.record.asked)
  <2>1. /\ Cardinality(remote[runJob.run].asked) \in Nat /\ Cardinality(remote[runJob.run].answered) \in Nat
        /\ Cardinality(remote[runJob.run].asked \ remote[runJob.run].answered) \in Nat
    BY <1>5, <1>6, Counted
  <2> QED
    BY <1>5, <2>1 DEF Usages
<1>8. RowTyped(b)
  BY <1>3, <1>4, <1>6, <1>7 DEF RecordIs, RowIs, RowTyped, RowFields
<1>9. RowAgrees(runJob.run, b)
  <2>1. b.asked = runJob.record.asked /\ b.remote = runJob.record.remote /\ b.role = runJob.record.role
    BY <1>4 DEF RowFields
  <2>2. b.role = runNow.role /\ (b.remote => remote[runJob.run].state # "absent")
    BY <1>3, <2>1 DEF RecordIs, RowIs, RowAgrees, Final
  <2>3. runSent[runJob.run] <= b.usage.attempted
    BY <1>4, <1>6, <1>7
  <2> QED
    BY <1>3, <1>4, <1>5, <2>1, <2>2, <2>3 DEF RowAgrees, Waiting, Final
<1>10. KeepsAnswers(b)
  BY <1>4 DEF KeepsAnswers
<1>11. /\ RunsBase'
       /\ \/ runJob' = RunNoJob
          \/ runJob' = [runJob EXCEPT !.pc = "delete", !.record = b] /\ runBatch' = [runBatch EXCEPT ![runJob.run] = b]
  BY <1>0, <1>2, <1>3, <1>8, <1>9, <1>10, RowWritten DEF RowIs
<1>12. CASE runJob' = RunNoJob
  BY <1>11, <1>12, NoJobIs DEF RunsIInv
<1>13. CASE runJob' = [runJob EXCEPT !.pc = "delete", !.record = b] /\ runBatch' = [runBatch EXCEPT ![runJob.run] = b]
  <2>1. /\ RecordIs' /\ DOMAIN runJob' = JobFields /\ runJob'.pc = "delete" /\ runJob'.record = b
        /\ \A f \in JobFields \ {"pc", "record"} : runJob'[f] = runJob[f]
    BY <1>0, <1>2, <1>8, <1>9, <1>13, RowHeld DEF RowIs
  <2>2. runJob'.run = runJob.run /\ runJob'.kind = "collect" /\ runJob'.found = runJob.found
    BY <2>1 DEF JobFields, RunSave, RunAt
  <2>3. CollectIs'
    BY <1>0, <1>2, <1>3, <1>4, <2>1, <2>2 DEF CollectIs, RecordIs
  <2> QED
    BY <1>11, <2>1, <2>2, <2>3 DEF RunsIInv, JobIs
<1> QED
  BY <1>11, <1>12, <1>13

(* The files of a batch are deleted after its answers are saved. *)
LEMMA Deleting ==
  ASSUME RunsIInv, RunDelete
  PROVE  RunsIInv'
<1>0. /\ RunsBase /\ CollectIs /\ DOMAIN runJob = JobFields /\ runJob.run \in Runs
      /\ RowIs(runJob.run, runBatch[runJob.run])
  BY Collecting DEF RunDelete, RunAt
<1>1. UNCHANGED <<ledger, runSent, runBatch, remote, profile, runNow, runs>>
  BY DEF RunDelete
<1>2. RecordIs /\ runJob.record.state = "results_saved"
  BY <1>0 DEF RunDelete, RunAt, CollectIs
<1>3. runBatch[runJob.run].result \in Saved
  BY <1>0, <1>2 DEF RecordIs, RowIs, RowAgrees
<1>4. \A r \in Runs \ {runJob.run} : <<"out", r>> \in runFiles => <<"out", r>> \in runFiles'
  BY DEF RunDelete
<1>5. Kept'
  BY <1>0, <1>1, <1>3, <1>4 DEF RunsBase, Kept, AnswersKept
<1>6. RunsTyped' /\ Versions' /\ Profiles' /\ Ledgers' /\ Remotes' /\ Unstarted'
  BY <1>0, <1>1 DEF RunsBase, RunsTyped, Versions, Profiles, ProfileIs, Ledgers, LedgerIs, Remotes, RemoteIs, Unstarted,
     NotStarted
<1>7. Rows'
  BY <1>0, <1>1 DEF RunsBase, Rows, RowIs, RowTyped, RowAgrees, NotLater
<1>8. RunsBase'
  BY <1>5, <1>6, <1>7 DEF RunsBase
<1>9. CASE runJob' = RunNoJob
  BY <1>8, <1>9, NoJobIs DEF RunsIInv
<1>10. CASE runJob' = [runJob EXCEPT !.pc = "close"]
  <2>1. /\ DOMAIN runJob' = JobFields /\ runJob'.pc = "close"
        /\ \A f \in JobFields \ {"pc"} : runJob'[f] = runJob[f]
    BY <1>0, <1>10 DEF JobFields
  <2>2. /\ runJob'.run = runJob.run /\ runJob'.kind = "collect" /\ runJob'.found = runJob.found
        /\ runJob'.record = runJob.record
    BY <2>1 DEF JobFields, RunDelete, RunAt
  <2>3. RecordIs'
    BY <1>1, <1>2, <2>2 DEF RecordIs, RowIs, RowTyped, RowAgrees, NotLater
  <2>4. CollectIs'
    BY <1>0, <1>1, <1>2, <2>1, <2>2, <2>3 DEF CollectIs
  <2> QED
    BY <1>8, <2>1, <2>2, <2>4 DEF RunsIInv, JobIs
<1> QED
  BY <1>9, <1>10 DEF RunDelete, RunEnd

(* The row takes the final state. *)
LEMMA Closing ==
  ASSUME RunsIInv, Close
  PROVE  RunsIInv'
<1>0. RunsBase /\ CollectIs /\ runJob.run \in Runs /\ runBatch[runJob.run].state # "absent"
  BY Collecting DEF Close, RunAt
<1>1. PICK b : b = [runJob.record EXCEPT !.state = runJob.record.final]
  OBVIOUS
<1>2. Persist(b, "end") /\ UNCHANGED <<ledger, runSent, remote, runFiles, profile, runNow, runs>>
  BY <1>1 DEF Close, runBounds
<1>3. RecordIs /\ runJob.record.state = "results_saved"
  BY <1>0 DEF Close, RunAt, CollectIs
<1>4. runJob.record.result \in Saved /\ runJob.record.final \in Final
  BY <1>3 DEF RecordIs, RowIs, RowAgrees
<1>5. /\ DOMAIN b = RowFields /\ b.state = runJob.record.final
      /\ \A f \in RowFields \ {"state"} : b[f] = runJob.record[f]
  BY <1>1, <1>3 DEF RecordIs, RowIs, RowTyped, RowFields
<1>6. RowTyped(b)
  BY <1>3, <1>4, <1>5 DEF RecordIs, RowIs, RowTyped, RowFields
<1>7. RowAgrees(runJob.run, b)
  BY <1>3, <1>4, <1>5 DEF RecordIs, RowIs, RowAgrees, RowFields, Waiting, Final
<1>8. KeepsAnswers(b)
  BY <1>4, <1>5 DEF KeepsAnswers, RowFields
<1> QED
  BY <1>0, <1>2, <1>3, <1>6, <1>7, <1>8, RowClosed DEF RowIs

-----------------------------------------------------------------------------
(* An edit of the vocabulary or of a track makes a later version. *)
LEMMA Editing ==
  ASSUME RunsIInv, EditVocabulary \/ EditTrack
  PROVE  RunsIInv'
<1>0. RunsBase /\ JobIs
  BY DEF RunsIInv
<1>1. UNCHANGED <<runJob, ledger, runSent, runBatch, remote, runFiles, profile, runs>>
  BY DEF EditVocabulary, EditTrack, RunEdit
<1>2. /\ runNow' = [role |-> runNow'.role, vocab |-> runNow'.vocab, source |-> runNow'.source]
      /\ runNow'.role = runNow.role /\ runNow'.vocab \in Nat /\ runNow.vocab <= runNow'.vocab
      /\ runNow'.source \in [RunRequests -> Nat]
      /\ \A i \in RunRequests : runNow.source[i] <= runNow'.source[i]
  <2>1. CASE EditVocabulary
    BY <1>0, <2>1 DEF EditVocabulary, RunEdit, RunsBase, Versions
  <2>2. CASE EditTrack
    BY <1>0, <2>2 DEF EditTrack, RunEdit, RunsBase, Versions
  <2> QED
    BY <2>1, <2>2
<1>3. Versions' /\ runNow.vocab \in Nat /\ runNow.role \in Nat /\ runNow.source \in [RunRequests -> Nat]
  BY <1>0, <1>2 DEF RunsBase, Versions
<1>4. Profiles'
  <2> SUFFICES ASSUME NEW i \in RunRequests PROVE ProfileIs(profile[i], i)'
    BY <1>0, <1>1 DEF RunsBase, Profiles
  <2>1. ProfileIs(profile[i], i) /\ runNow.source[i] \in Nat /\ runNow'.source[i] \in Nat
    BY <1>0, <1>2, <1>3 DEF RunsBase, Profiles
  <2> QED
    BY <1>1, <1>2, <1>3, <2>1 DEF ProfileIs
<1>5. ASSUME NEW source, NotLater(source) PROVE NotLater(source)'
  <2> SUFFICES ASSUME NEW i \in RunRequests PROVE source[i] <= runNow'.source[i]
    BY <1>5 DEF NotLater
  <2>1. source[i] \in Nat /\ runNow.source[i] \in Nat /\ runNow'.source[i] \in Nat
    BY <1>2, <1>3, <1>5 DEF NotLater
  <2> QED
    BY <1>2, <1>5, <2>1 DEF NotLater
<1>6. ASSUME NEW n, NEW b, RowIs(n, b) PROVE RowIs(n, b)'
  <2>1. RowTyped(b)'
    BY <1>2, <1>3, <1>5, <1>6 DEF RowIs, RowTyped
  <2>2. RowAgrees(n, b)'
    BY <1>1, <1>2, <1>6 DEF RowIs, RowAgrees
  <2> QED
    BY <2>1, <2>2 DEF RowIs
<1>7. Rows'
  BY <1>0, <1>1, <1>6 DEF RunsBase, Rows
<1>8. RunsTyped' /\ Ledgers' /\ Remotes' /\ Unstarted' /\ Kept'
  BY <1>0, <1>1 DEF RunsBase, RunsTyped, Ledgers, LedgerIs, Remotes, RemoteIs, Unstarted, NotStarted, Kept, AnswersKept
<1>9. RecordIs => RecordIs'
  <2> SUFFICES ASSUME RecordIs PROVE RecordIs'
    OBVIOUS
  <2>1. PICK n, b : n = runJob.run /\ b = runJob.record
    OBVIOUS
  <2>2. RowIs(n, b)'
    BY <1>6, <2>1 DEF RecordIs
  <2> QED
    BY <1>1, <2>1, <2>2 DEF RecordIs
<1>10. FromModel => FromModel'
  BY <1>1, <1>2, <1>3 DEF FromModel
<1>11. Planned => Planned'
  <2> SUFFICES ASSUME Planned PROVE Planned'
    OBVIOUS
  <2>1. PICK source : source = runJob.source
    OBVIOUS
  <2>2. NotLater(source)'
    BY <1>5, <2>1 DEF Planned
  <2>3. ASSUME NEW i \in runJob.todo PROVE ~IsCurrent(i)'
    <3>1. i \in RunRequests /\ ProfileIs(profile[i], i) /\ ~IsCurrent(i)
      BY <1>0, <2>3 DEF Planned, RunsBase, Profiles
    <3>2. /\ runNow.source[i] \in Nat /\ runNow'.source[i] \in Nat /\ runNow.source[i] <= runNow'.source[i]
      BY <1>2, <1>3, <3>1
    <3>3. SUFFICES ASSUME IsCurrent(i)' PROVE FALSE
      OBVIOUS
    <3>4. profile[i] = [role |-> runNow'.role, vocab |-> runNow'.vocab, source |-> runNow'.source[i]]
      BY <1>1, <3>3 DEF IsCurrent, RunSignature
    <3>5. profile[i].vocab = runNow'.vocab /\ profile[i].source = runNow'.source[i]
      BY <3>4
    <3>6. runNow'.vocab = runNow.vocab /\ runNow'.source[i] = runNow.source[i]
      BY <1>2, <1>3, <3>1, <3>2, <3>5 DEF ProfileIs
    <3> QED
      BY <1>2, <3>1, <3>4, <3>6 DEF IsCurrent, RunSignature
  <2> QED
    BY <1>1, <2>1, <2>2, <2>3 DEF Planned
<1>12. JobIs'
  BY <1>0, <1>1, <1>9, <1>10, <1>11 DEF JobIs, DirectIs, BatchIs, CollectIs, AppliedSoFar, Pending
<1> QED
  BY <1>3, <1>4, <1>7, <1>8, <1>12 DEF RunsIInv, RunsBase

(* The role changes only while nothing is pending. *)
LEMMA ChangingRole ==
  ASSUME RunsIInv, RunChangeRole
  PROVE  RunsIInv'
<1>0. RunsBase /\ JobIs
  BY DEF RunsIInv
<1>1. /\ UNCHANGED <<runJob, ledger, runSent, runBatch, remote, runFiles, profile, runs>>
      /\ runJob = RunNoJob /\ Pending = {} /\ runNow' = [runNow EXCEPT !.role = @ + 1]
  BY DEF RunChangeRole, RunEdit
<1>2. /\ runNow' = [role |-> runNow.role + 1, vocab |-> runNow.vocab, source |-> runNow.source]
      /\ runNow.role \in Nat /\ runNow.vocab \in Nat /\ runNow.source \in [RunRequests -> Nat]
  BY <1>0, <1>1 DEF RunsBase, Versions
<1>3. runNow'.role = runNow.role + 1 /\ runNow'.vocab = runNow.vocab /\ runNow'.source = runNow.source
  BY <1>2
<1>4. Versions'
  BY <1>2 DEF Versions
<1>5. Profiles'
  BY <1>0, <1>1, <1>2, <1>3 DEF RunsBase, Profiles, ProfileIs
<1>6. Rows'
  <2> SUFFICES ASSUME NEW r \in Runs PROVE RowIs(r, runBatch[r])'
    BY DEF Rows
  <2>1. RowIs(r, runBatch[r]) /\ r \notin Pending
    BY <1>0, <1>1 DEF RunsBase, Rows
  <2>2. runBatch[r].state \in Final \union {"absent"}
    BY <2>1 DEF Pending
  <2>3. RowTyped(runBatch[r])'
    BY <1>1, <1>2, <1>3, <2>1 DEF RowIs, RowTyped, NotLater
  <2>4. RowAgrees(r, runBatch[r])'
    BY <1>1, <2>1, <2>2 DEF RowIs, RowAgrees, Waiting, Final
  <2> QED
    BY <2>3, <2>4 DEF RowIs
<1>7. RunsTyped' /\ Ledgers' /\ Remotes' /\ Unstarted' /\ Kept'
  BY <1>0, <1>1 DEF RunsBase, RunsTyped, Ledgers, LedgerIs, Remotes, RemoteIs, Unstarted, NotStarted, Kept, AnswersKept
<1> QED
  BY <1>1, <1>4, <1>5, <1>6, <1>7, NoJobIs DEF RunsIInv, RunsBase

(* The provider answers what it was asked. *)
LEMMA Answering ==
  ASSUME RunsIInv, NEW n \in Runs, RunWork(n)
  PROVE  RunsIInv'
<1>0. RunsBase /\ JobIs /\ RemoteIs(n)
  BY DEF RunsIInv, RunsBase, Remotes
<1>1. PICK s \in Final, A \in SUBSET remote[n].asked :
        /\ remote' = [remote EXCEPT ![n].state = s, ![n].answered = A]
        /\ runFiles' = IF A = {} THEN runFiles ELSE runFiles \union {<<"out", n>>}
  BY DEF RunWork
<1>2. /\ UNCHANGED <<runJob, ledger, runSent, runBatch, profile, runNow, runs>>
      /\ remote[n].state \in Working
  BY DEF RunWork, runBounds, Working
<1>3. /\ DOMAIN remote' = Runs /\ \A r \in Runs \ {n} : remote'[r] = remote[r]
      /\ DOMAIN remote'[n] = {"state", "asked", "answered"}
      /\ remote'[n].state = s /\ remote'[n].asked = remote[n].asked /\ remote'[n].answered = A
  BY <1>0, <1>1 DEF RunsBase, RunsTyped, RemoteIs
<1>4. ASSUME NEW r \in Runs, NEW b, RowIs(r, b) PROVE RowIs(r, b)'
  <2>1. RowTyped(b)'
    BY <1>2, <1>4 DEF RowIs, RowTyped, NotLater
  <2>2. RowAgrees(r, b)'
    <3>1. CASE r = n
      BY <1>2, <1>3, <1>4, <3>1 DEF RowIs, RowAgrees, Final, Working
    <3>2. CASE r # n
      BY <1>2, <1>3, <1>4, <3>2 DEF RowIs, RowAgrees
    <3> QED
      BY <3>1, <3>2
  <2> QED
    BY <2>1, <2>2 DEF RowIs
<1>5. RunsTyped' /\ Versions' /\ Profiles' /\ Ledgers'
  BY <1>0, <1>2, <1>3 DEF RunsBase, RunsTyped, Versions, Profiles, ProfileIs, Ledgers, LedgerIs
<1>6. Remotes'
  BY <1>0, <1>3 DEF RunsBase, Remotes, RemoteIs
<1>7. Rows'
  BY <1>0, <1>2, <1>4 DEF RunsBase, Rows
<1>8. Unstarted'
  BY <1>0, <1>2, <1>3 DEF RunsBase, Unstarted, NotStarted, Working
<1>9. Kept'
  BY <1>0, <1>1, <1>2, <1>3 DEF RunsBase, Kept, AnswersKept
<1>10. RecordIs /\ runJob.run \in Runs => RecordIs'
  <2> SUFFICES ASSUME RecordIs, runJob.run \in Runs PROVE RecordIs'
    OBVIOUS
  <2>1. PICK r \in Runs : r = runJob.run
    OBVIOUS
  <2>2. PICK b : b = runJob.record
    OBVIOUS
  <2>3. RowIs(r, b)'
    BY <1>4, <2>1, <2>2 DEF RecordIs
  <2> QED
    BY <1>2, <2>1, <2>2, <2>3 DEF RecordIs
<1>11. (FromModel => FromModel') /\ (Planned => Planned')
  BY <1>2 DEF FromModel, Planned, NotLater, IsCurrent
<1>12. DirectIs => DirectIs'
  BY <1>2, <1>11 DEF DirectIs
<1>13. BatchIs => BatchIs'
  BY <1>2, <1>3, <1>10, <1>11 DEF BatchIs, Pending, Working
<1>14. CollectIs => CollectIs'
  <2> SUFFICES ASSUME CollectIs PROVE CollectIs'
    OBVIOUS
  <2>1. /\ remote[runJob.run].state # "absent" => remote'[runJob.run].state # "absent"
        /\ remote[runJob.run].state \in Final => remote'[runJob.run] = remote[runJob.run]
    BY <1>2, <1>3 DEF CollectIs, Final, Working
  <2>2. runJob.pc = "apply" => AppliedSoFar'
    BY <1>2, <2>1 DEF CollectIs, AppliedSoFar
  <2> QED
    BY <1>2, <1>10, <2>1, <2>2 DEF CollectIs
<1>15. JobIs'
  BY <1>0, <1>2, <1>12, <1>13, <1>14 DEF JobIs
<1> QED
  BY <1>5, <1>6, <1>7, <1>8, <1>9, <1>15 DEF RunsIInv, RunsBase

(* A job holds what it held while nothing it has read changes. *)
LEMMA JobStands ==
  ASSUME RunsIInv, UNCHANGED <<runJob, ledger, runSent, runBatch, remote, profile, runNow, runs>>
  PROVE  JobIs'
<1>1. RecordIs => RecordIs'
  BY DEF RecordIs, RowIs, RowTyped, RowAgrees, NotLater
<1>2. (FromModel => FromModel') /\ (Planned => Planned')
  BY DEF FromModel, Planned, NotLater, IsCurrent
<1> QED
  BY <1>1, <1>2 DEF RunsIInv, JobIs, DirectIs, BatchIs, CollectIs, AppliedSoFar, Pending

(* The provider deletes files after their retention. *)
LEMMA Expiring ==
  ASSUME RunsIInv, Expire
  PROVE  RunsIInv'
<1>1. UNCHANGED <<runJob, ledger, runSent, runBatch, remote, profile, runNow, runs>>
  BY DEF Expire, runBounds
<1>2. PICK f \in runFiles : f[1] \in Retention /\ runFiles' = runFiles \ {f}
  BY DEF Expire
<1>3. "out" \notin Retention => \A r \in Runs : <<"out", r>> \in runFiles => <<"out", r>> \in runFiles'
  BY <1>2
<1>4. Kept'
  BY <1>1, <1>3 DEF RunsIInv, RunsBase, Kept, AnswersKept
<1>5. RunsTyped' /\ Versions' /\ Profiles' /\ Ledgers' /\ Remotes' /\ Unstarted'
  BY <1>1 DEF RunsIInv, RunsBase, RunsTyped, Versions, Profiles, ProfileIs, Ledgers, LedgerIs, Remotes, RemoteIs, Unstarted,
     NotStarted
<1>6. Rows'
  BY <1>1 DEF RunsIInv, RunsBase, Rows, RowIs, RowTyped, RowAgrees, NotLater
<1> QED
  BY <1>1, <1>4, <1>5, <1>6, JobStands DEF RunsIInv, RunsBase

(* The process dies; the lane holds nothing after it. *)
LEMMA Stopping ==
  ASSUME RunsIInv, RunStop
  PROVE  RunsIInv'
<1>0. RunsBase /\ JobIs
  BY DEF RunsIInv
<1>1. UNCHANGED <<ledger, runSent, runBatch, remote, runFiles, profile, runNow, runs>>
  BY DEF RunStop
<1>2. RunsBase'
  BY <1>0, <1>1, NothingWritten
<1>3. CASE runJob.kind # "collect"
  BY <1>2, <1>3, NoJobIs DEF RunStop, RunsIInv
<1>4. CASE runJob.kind = "collect"
  <2>1. runJob' = [RunNoJob EXCEPT !.kind = "collect", !.pc = "read", !.run = runJob.run,
                     !.cancel = runJob.cancel, !.abandon = runJob.abandon, !.found = runJob.found]
    BY <1>4 DEF RunStop
  <2>2. /\ DOMAIN runJob' = JobFields /\ runJob'.kind = "collect" /\ runJob'.pc = "read" /\ runJob'.run = runJob.run
        /\ runJob'.found = runJob.found
    BY <2>1 DEF RunNoJob, JobFields
  <2>3. CollectIs'
    BY <1>0, <1>1, <1>4, <2>2 DEF JobIs, CollectIs
  <2> QED
    BY <1>2, <2>2, <2>3 DEF RunsIInv, JobIs
<1> QED
  BY <1>3, <1>4

(* Every step of a job, of the provider and of the users keeps the invariant. *)
LEMMA RunsStep == RunsIInv /\ [RunNext]_runVars => RunsIInv'
<1> SUFFICES ASSUME RunsIInv, [RunNext]_runVars PROVE RunsIInv'
  OBVIOUS
<1>1. CASE RunStep
  BY <1>1, Planning, Opening, Picking, Beginning, Sending, Recording, Judging, Storing, Reserving, Checkpointing,
     Uploading, Noted, Submission, SubmissionNoted, Reading, Resolving, Recovering, Dropping, AskingStatus, Downloading,
     Applying, Saving, Deleting, Closing DEF RunStep
<1>2. CASE UNCHANGED runVars
  <2>1. UNCHANGED <<runJob, ledger, runSent, runBatch, remote, runFiles, profile, runNow, runs>>
    BY <1>2 DEF runVars
  <2>2. RunsBase'
    BY <2>1, NothingWritten DEF RunsIInv
  <2> QED
    BY <2>1, <2>2, JobStands DEF RunsIInv
<1> QED
  BY <1>1, <1>2, Starting, Acting, Editing, ChangingRole, Stopping, Expiring, Answering DEF RunNext

(* The invariant holds of every run. *)
LEMMA RunsInvariant == RunSpec => []RunsIInv
BY RunsInitially, RunsStep, PTL DEF RunSpec

(* For every number of runs, requests and retries: what the provider has   *)
(* received is in the ledger and within the budget, what still runs there  *)
(* is known here unless an operator abandoned it, paid answers are at the  *)
(* provider until what they say is saved, an interrupted collection counts *)
(* every answer once, and the model of a waiting batch is still the        *)
(* configured one - through a death between any two steps, lost answers    *)
(* and lost calls (execute_recorded_provider_request,                      *)
(* submit_tagging_batch, collect_tagging_batch). The hypothesis leaves out *)
(* a provider that deletes the answers of a batch by itself before they    *)
(* are read; the run leaves it out as well.                                *)
THEOREM WhatIsPaidIsKnown ==
  ASSUME "out" \notin Retention
  PROVE  RunSpec => []PaidIsKnown
<1>1. RunsIInv => PaidIsKnown
  <2> SUFFICES ASSUME RunsIInv PROVE PaidIsKnown
    OBVIOUS
  <2>0. RunsBase
    BY DEF RunsIInv
  <2>1. WriteAhead
    BY <2>0 DEF RunsBase, Ledgers, LedgerIs, WriteAhead
  <2>2. NoUnknownBatch
    BY <2>0 DEF RunsBase, Rows, RowIs, RowTyped, RowAgrees, NoUnknownBatch, RunUnfinished, Abandoned, Pending, Final
  <2>3. PaidResultsKept
    BY <2>0 DEF RunsBase, Kept, AnswersKept, PaidResultsKept, Abandoned, Saved
  <2>4. AccountedOnce
    BY <2>0 DEF RunsBase, Rows, RowIs, RowAgrees, AccountedOnce, Saved
  <2>5. RoleKept
    BY <2>0 DEF RunsBase, Rows, RowIs, RowTyped, RowAgrees, RoleKept, Pending
  <2> QED
    BY <2>1, <2>2, <2>3, <2>4, <2>5 DEF PaidIsKnown
<1> QED
  BY <1>1, RunsInvariant, PTL

(* For every number of runs, requests and retries, and whatever the        *)
(* provider deletes: a direct run sends no request for a track whose       *)
(* stored profile is current, and a batch is submitted only when every     *)
(* earlier one has ended or was abandoned, never twice for one run, across *)
(* deaths and restarts (execute_tagging, create_model_batch, persist).     *)
THEOREM NothingIsPaidTwice == RunSpec => NeverPaidTwice
<1> DEFINE Asks == \A r \in Runs : runSent'[r] # runSent[r] /\ runJob.kind = "direct" => ~IsCurrent(runJob.at)
           Submits == \A r \in Runs : runSent'[r] # runSent[r] /\ runJob.kind = "batch" =>
                        /\ runSent[r] = 0
                        /\ \A q \in Runs \ {r} : RunUnfinished(q) => Abandoned(q)
<1>1. RunsIInv /\ [RunNext]_runVars => [Asks /\ Submits]_runVars
  <2> SUFFICES ASSUME RunsIInv, RunNext, NEW r \in Runs, runSent'[r] # runSent[r]
               PROVE  /\ runJob.kind = "direct" => ~IsCurrent(runJob.at)
                      /\ runJob.kind = "batch" =>
                           /\ runSent[r] = 0
                           /\ \A q \in Runs \ {r} : RunUnfinished(q) => Abandoned(q)
    OBVIOUS
  <2>0. RunsBase /\ JobIs
    BY DEF RunsIInv
  <2>1. RunSend \/ RunSubmit
    BY DEF RunNext, RunStart, Act, EditVocabulary, EditTrack, RunChangeRole, RunEdit, RunStep, RunStop, Expire, RunWork,
       RunPlan, RunOpen, Pick, RunBegin, RunRecord, Judge, RunStore, RunCreate, Checkpoint, RunUpload, Uploaded, Submitting,
       Submitted, RunRead, RunAbandon, RunRecover, RunDrop, Dropped, Status, RunKept, Download, RunApply, RunSave, RunDelete,
       Close
  <2>2. CASE RunSend
    <3>1. runJob.kind = "direct" /\ DirectIs /\ runJob.pc = "send"
      BY <2>0, <2>2 DEF RunSend, RunAt, JobIs
    <3> QED
      BY <3>1 DEF DirectIs, DirectPCs, Planned
  <2>3. CASE RunSubmit
    <3>1. runJob.kind = "batch" /\ BatchIs /\ runJob.pc = "submit"
      BY <2>0, <2>3 DEF RunSubmit, RunAt, JobIs
    <3>2. r = runJob.run
      BY <2>0, <2>3 DEF RunSubmit, RunsBase, RunsTyped
    <3>3. runSent[r] = 0 /\ \A q \in Runs \ {r} : q \notin Pending
      BY <3>1, <3>2 DEF BatchIs, BatchPCs
    <3>4. \A q \in Runs : RunUnfinished(q) /\ ~Abandoned(q) => q \in Pending
      BY <2>0 DEF RunsBase, Rows, RowIs, RowTyped, RowAgrees, RunUnfinished, Abandoned, Pending, Final
    <3> QED
      BY <3>1, <3>3, <3>4
  <2> QED
    BY <2>1, <2>2, <2>3
<1>2. RunsIInv /\ [RunNext]_runVars => [Asks]_runVars /\ [Submits]_runVars
  BY <1>1
<1> QED
  BY <1>2, RunsInvariant, PTL DEF RunSpec, NeverPaidTwice, NotPaidAgain, NoSecondSubmission

-----------------------------------------------------------------------------
(***************************************************************************)
(* Measured contexts. A measurement is taken from a file while the file,   *)
(* the index and other measurements change; the row keeps the version of   *)
(* the index the job started from. Inductive is that whatever was read     *)
(* under a version, on the way to the row too, is of this version or the   *)
(* file has left it, and that no file gets an earlier version again        *)
(* (ReadAs).                                                               *)
(***************************************************************************)

(* What was read from a file under the version v of the index: where the   *)
(* file had moved on by then, it has no longer that version, and no file   *)
(* gets an earlier version again.                                          *)
ReadAs(t, v, content) ==
  /\ v \in Nat /\ v <= contextEdits + 1
  /\ content # v => contextDisk[t].ver # v

MeasuredIs(t, r) ==
  /\ DOMAIN r = {"sig", "job", "complete", "voice", "by", "content"}
  /\ r.sig # 0 /\ ReadAs(t, r.sig, r.content)

Files ==
  /\ contextEdits \in Nat /\ DOMAIN contextDisk = ContextTracks /\ DOMAIN contextIndex = ContextTracks
  /\ \A t \in ContextTracks : /\ DOMAIN contextDisk[t] = {"ver", "at"} /\ DOMAIN contextIndex[t] = {"ver", "kept"}
                              /\ contextDisk[t].ver \in Nat /\ contextDisk[t].ver <= contextEdits + 1
                              /\ contextIndex[t].ver \in Nat /\ contextIndex[t].ver <= contextEdits + 1
Measured ==
  DOMAIN row = ContextTracks /\ \A t \in ContextTracks : row[t] # ContextNone => MeasuredIs(t, row[t])
Measuring ==
  run # ContextNone =>
    /\ DOMAIN run = {"phase", "job", "tracks", "work", "active", "voice"}
    /\ DOMAIN run.active = ContextTracks /\ DOMAIN run.voice = ContextTracks
    /\ \A t \in ContextTracks :
         /\ run.tracks[t].ver \in Nat /\ run.tracks[t].ver <= contextEdits + 1
         /\ run.tracks[t].ver # 0 /\ run.active[t] # ContextNone /\ run.active[t] # 0 =>
              ReadAs(t, run.tracks[t].ver, run.active[t])
         /\ run.voice[t] # ContextNone => MeasuredIs(t, run.voice[t])
ContextIInv == Files /\ Measured /\ Measuring

-----------------------------------------------------------------------------
(* The earliest of some tracks is one of them. *)
LEMMA EarliestIsIn ==
  ASSUME NEW S, S \subseteq ContextTracks, S # {}
  PROVE  Min(S) \in S
<1> DEFINE Below == {p \in Nat \X Nat : p[1] < p[2]}
<1>0. S \subseteq Nat
  BY ContextBoundsAssumption DEF ContextTracks
<1>1. IsWellFoundedOn(Below, Nat)
  BY NatLessThanWellFounded DEF OpToRel
<1>2. \E x \in S : \A y \in S : ~(<<y, x>> \in Below)
  <2> HIDE DEF Below
  <2> QED
    BY <1>0, <1>1, WFMin
<1>3. PICK x \in S : \A y \in S : ~(<<y, x>> \in Below)
  BY <1>2
<1>4. ASSUME NEW y \in S, y < x PROVE <<y, x>> \in Below
  BY <1>0, <1>4
<1>5. \A y \in S : x <= y
  <2> SUFFICES ASSUME NEW y \in S PROVE x <= y
    OBVIOUS
  <2>1. x \in Nat /\ y \in Nat
    BY <1>0
  <2>2. ~(y < x)
    <3> HIDE DEF Below
    <3> QED
      BY <1>3, <1>4
  <2> QED
    BY <2>1, <2>2
<1> QED
  BY <1>5 DEF Min

(* At first no file has changed and nothing is measured. *)
LEMMA ContextInitially == ContextInit => ContextIInv
BY DEF ContextInit, ContextIInv, Files, Measured, Measuring

(* While no file changes, what was read stays what it was.                 *)
LEMMA ReadStands ==
  ASSUME NEW t, NEW v, NEW content, ReadAs(t, v, content), UNCHANGED <<contextEdits, contextDisk>>
  PROVE  ReadAs(t, v, content)'
BY DEF ReadAs

(* What a measurement says of a file stands while the files stand. *)
LEMMA MeasuredStands ==
  ASSUME NEW t, NEW r, MeasuredIs(t, r), UNCHANGED <<contextEdits, contextDisk>>
  PROVE  MeasuredIs(t, r)'
BY DEF MeasuredIs, ReadAs

(* A step that touches neither files nor rows keeps the invariant. *)
LEMMA OnlyJobs ==
  ASSUME ContextIInv, UNCHANGED <<contextFiles, row>>, UNCHANGED run \/ run' = ContextNone
  PROVE  ContextIInv'
<1>1. UNCHANGED <<contextEdits, contextDisk, contextIndex, row>>
  BY DEF contextFiles
<1>2. Files' /\ Measured'
  BY <1>1 DEF ContextIInv, Files, Measured, MeasuredIs, ReadAs
<1>3. Measuring'
  BY <1>1 DEF ContextIInv, Measuring, MeasuredIs, ReadAs
<1> QED
  BY <1>2, <1>3 DEF ContextIInv

(* A file that changes gets a version no measurement has. *)
LEMMA FilesChange ==
  ASSUME ContextIInv, UNCHANGED <<row, run>>, NEW t \in ContextTracks, EditFile(t)
  PROVE  ContextIInv'
<1>1. PICK v \in {0, contextEdits + 2} : contextDisk' = [contextDisk EXCEPT ![t].ver = v]
  BY DEF EditFile
<1>2. contextEdits' = contextEdits + 1 /\ UNCHANGED contextIndex /\ contextEdits \in Nat
  BY DEF EditFile, ContextIInv, Files
<1>3. /\ DOMAIN contextDisk' = ContextTracks /\ contextDisk'[t].ver = v /\ DOMAIN contextDisk'[t] = {"ver", "at"}
      /\ \A u \in ContextTracks \ {t} : contextDisk'[u] = contextDisk[u]
  BY <1>1 DEF ContextIInv, Files
<1>4. Files'
  BY <1>2, <1>3 DEF ContextIInv, Files
<1>5. ASSUME NEW u \in ContextTracks, NEW w, NEW content, w # 0, ReadAs(u, w, content)
      PROVE  ReadAs(u, w, content)'
  BY <1>2, <1>3, <1>5 DEF ReadAs
<1>6. ASSUME NEW u \in ContextTracks, NEW r, MeasuredIs(u, r) PROVE MeasuredIs(u, r)'
  BY <1>5, <1>6 DEF MeasuredIs
<1>7. Measured'
  BY <1>6 DEF ContextIInv, Measured
<1>8. Measuring'
  <2> SUFFICES ASSUME run # ContextNone PROVE Measuring'
    BY DEF Measuring
  <2>1. \A u \in ContextTracks : run.voice[u] # ContextNone => MeasuredIs(u, run.voice[u])'
    BY <1>6 DEF ContextIInv, Measuring
  <2> QED
    BY <1>2, <1>5, <2>1 DEF ContextIInv, Measuring
<1> QED
  BY <1>4, <1>7, <1>8 DEF ContextIInv

(* A scan reads the version the file has. *)
LEMMA Scanning ==
  ASSUME ContextIInv, NEW t \in ContextTracks, Scan(t)
  PROVE  ContextIInv'
<1>1. UNCHANGED <<contextDisk, contextEdits, run>> /\ contextIndex' = [contextIndex EXCEPT ![t].ver = contextDisk[t].ver]
  BY DEF Scan
<1>2. DOMAIN row' = ContextTracks /\ \A u \in ContextTracks : row'[u] \in {row[u], ContextNone}
  BY DEF Scan, store, ContextIInv, Measured
<1>3. Files'
  BY <1>1 DEF ContextIInv, Files
<1>4. Measured'
  BY <1>1, <1>2 DEF ContextIInv, Measured, MeasuredIs, ReadAs
<1>5. Measuring'
  BY <1>1 DEF ContextIInv, Measuring, MeasuredIs, ReadAs
<1> QED
  BY <1>3, <1>4, <1>5 DEF ContextIInv

(* A conversion and its restoration give a file a version no measurement has. *)
LEMMA Moving ==
  ASSUME ContextIInv, NEW t \in ContextTracks, ContextConvertTrack(t) \/ ContextRestoreTrack(t)
  PROVE  ContextIInv'
<1>1. UNCHANGED <<row, run>> /\ contextEdits \in Nat
      /\ (contextEdits' = contextEdits \/ contextEdits' = contextEdits + 1)
  BY DEF ContextConvertTrack, ContextRestoreTrack, store, ContextIInv, Files
<1>2. /\ DOMAIN contextDisk' = ContextTracks /\ DOMAIN contextIndex' = ContextTracks
      /\ \A u \in ContextTracks : /\ contextDisk'[u].ver = contextDisk[u].ver /\ contextIndex'[u].ver = contextIndex[u].ver
                                  /\ DOMAIN contextDisk'[u] = {"ver", "at"} /\ DOMAIN contextIndex'[u] = {"ver", "kept"}
  BY DEF ContextConvertTrack, ContextRestoreTrack, ContextIInv, Files
<1>3. Files'
  BY <1>1, <1>2 DEF ContextIInv, Files
<1>4. ASSUME NEW u \in ContextTracks, NEW w, NEW content, ReadAs(u, w, content)
      PROVE  ReadAs(u, w, content)'
  <2>1. w \in Nat /\ w <= contextEdits + 1
    BY <1>4 DEF ReadAs
  <2>2. w <= contextEdits' + 1
    BY <1>1, <2>1
  <2>3. contextDisk'[u].ver = contextDisk[u].ver
    BY <1>2
  <2> QED
    BY <1>4, <2>1, <2>2, <2>3 DEF ReadAs
<1>5. ASSUME NEW u \in ContextTracks, NEW r, MeasuredIs(u, r) PROVE MeasuredIs(u, r)'
  BY <1>4, <1>5 DEF MeasuredIs
<1>6. Measured'
  BY <1>1, <1>5 DEF ContextIInv, Measured
<1>7. Measuring'
  <2> SUFFICES ASSUME run # ContextNone PROVE Measuring'
    BY <1>1 DEF Measuring
  <2>1. \A u \in ContextTracks : run.voice[u] # ContextNone => MeasuredIs(u, run.voice[u])'
    BY <1>1, <1>5 DEF ContextIInv, Measuring
  <2> QED
    BY <1>1, <1>4, <2>1 DEF ContextIInv, Measuring
<1> QED
  BY <1>3, <1>6, <1>7 DEF ContextIInv

-----------------------------------------------------------------------------
(* A run begins with the versions of the index. *)
LEMMA Executing ==
  ASSUME ContextIInv, Execute
  PROVE  ContextIInv'
<1>1. UNCHANGED <<contextEdits, contextDisk, contextIndex, row>>
  BY DEF Execute, contextFiles, store
<1>2. Files' /\ Measured'
  BY <1>1 DEF ContextIInv, Files, Measured, MeasuredIs, ReadAs
<1>3. PICK j \in ContextJobIds :
        run' = [phase |-> "plan", job |-> j, tracks |-> contextIndex, work |-> {},
                active |-> [t \in ContextTracks |-> ContextNone], voice |-> [t \in ContextTracks |-> ContextNone]]
  BY DEF Execute
<1>4. Measuring'
  BY <1>1, <1>3 DEF ContextIInv, Files, Measuring
<1> QED
  BY <1>2, <1>4 DEF ContextIInv

(* A run that reads what it will measure, or begins to.                    *)
LEMMA Preparing ==
  ASSUME ContextIInv, PlanSignal \/ StartDecode \/ PlanVoice
  PROVE  ContextIInv'
<1>0. run # ContextNone /\ Files /\ Measured /\ Measuring
  BY DEF PlanSignal, StartDecode, PlanVoice, ContextIInv
<1>1. UNCHANGED <<contextEdits, contextDisk, contextIndex, row>>
  BY DEF PlanSignal, StartDecode, PlanVoice, contextFiles, store
<1>2. Files' /\ Measured'
  BY <1>0, <1>1 DEF Files, Measured, MeasuredIs, ReadAs
<1>3. /\ DOMAIN run' = {"phase", "job", "tracks", "work", "active", "voice"} /\ run'.tracks = run.tracks
      /\ DOMAIN run'.active = ContextTracks /\ DOMAIN run'.voice = ContextTracks
      /\ \A t \in ContextTracks : /\ run'.active[t] \in {run.active[t], 0, contextDisk[t].ver}
                                  /\ run'.voice[t] \in {run.voice[t], row[t], ContextNone}
  <2>1. CASE PlanSignal
    BY <1>0, <2>1 DEF PlanSignal, Measuring
  <2>2. CASE StartDecode
    <3>1. run' = [run EXCEPT !.work = @ \ {Min(run.work)}, !.active[Min(run.work)] = resolve_audio(Min(run.work))]
      BY <2>2 DEF StartDecode
    <3>2. \A t : resolve_audio(t) \in {0, contextDisk[t].ver}
      BY DEF resolve_audio
    <3> QED
      BY <1>0, <3>1, <3>2 DEF Measuring
  <2>3. CASE PlanVoice
    BY <1>0, <2>3 DEF PlanVoice, Measuring
  <2> QED
    BY <2>1, <2>2, <2>3
<1>4. ASSUME NEW t \in ContextTracks
      PROVE  /\ run'.tracks[t].ver \in Nat /\ run'.tracks[t].ver <= contextEdits' + 1
             /\ run'.tracks[t].ver # 0 /\ run'.active[t] # ContextNone /\ run'.active[t] # 0 =>
                  ReadAs(t, run.tracks[t].ver, run.active[t])'
             /\ run'.voice[t] # ContextNone => MeasuredIs(t, run.voice[t])'
  <2>1. run'.tracks[t].ver \in Nat /\ run'.tracks[t].ver <= contextEdits' + 1
    BY <1>0, <1>1, <1>3 DEF Measuring
  <2>2. run'.tracks[t].ver # 0 /\ run'.active[t] # ContextNone /\ run'.active[t] # 0 =>
          ReadAs(t, run.tracks[t].ver, run.active[t])'
    BY <1>0, <1>1, <1>3 DEF Measuring, ReadAs
  <2>3. run'.voice[t] # ContextNone => MeasuredIs(t, run.voice[t])'
    BY <1>0, <1>1, <1>3 DEF Measuring, Measured, MeasuredIs, ReadAs
  <2> QED
    BY <2>1, <2>2, <2>3
<1>5. Measuring'
  BY <1>3, <1>4 DEF Measuring
<1> QED
  BY <1>2, <1>5 DEF ContextIInv

(* A decoded track is stored under the version it was begun with. *)
LEMMA Finishing ==
  ASSUME ContextIInv, NEW t \in ContextTracks, FinishDecode(t)
  PROVE  ContextIInv'
<1>0. run # ContextNone /\ Files /\ Measured /\ Measuring /\ run.active[t] # ContextNone
  BY DEF FinishDecode, Decoding, ContextIInv
<1>1. UNCHANGED <<contextEdits, contextDisk, contextIndex>> /\ run' = [run EXCEPT !.active[t] = ContextNone]
  BY DEF FinishDecode, contextFiles
<1>2. Files'
  BY <1>0, <1>1 DEF Files
<1>3. /\ DOMAIN row' = ContextTracks /\ \A u \in ContextTracks \ {t} : row'[u] = row[u]
      /\ \/ row'[t] = row[t]
         \/ /\ run.active[t] # 0 /\ run.tracks[t].ver # 0
            /\ DOMAIN row'[t] = {"sig", "job", "complete", "voice", "by", "content"}
            /\ row'[t].sig = run.tracks[t].ver /\ row'[t].content = run.active[t]
  <2>1. CASE row' = row
    BY <1>0, <2>1 DEF Measured
  <2>2. CASE row' # row
    <3>1. PICK r : /\ r = [sig |-> context_source_signature(run.tracks, t), job |-> run.job,
                           complete |-> voice_placeholders.complete, voice |-> voice_placeholders.voice,
                           by |-> run.job, content |-> run.active[t]]
                   /\ run.active[t] # 0 /\ store_context(t, r)
      BY <2>2 DEF FinishDecode, store_context_failure, store
    <3>2. /\ DOMAIN r = {"sig", "job", "complete", "voice", "by", "content"} /\ r.sig = run.tracks[t].ver
          /\ r.content = run.active[t]
      BY <3>1 DEF context_source_signature
    <3>3. row' = [row EXCEPT ![t] = r] /\ contextIndex[t].ver # 0 /\ contextIndex[t].ver = r.sig
      BY <2>2, <3>1 DEF store_context, store, context_source_signature
    <3> QED
      BY <1>0, <3>1, <3>2, <3>3 DEF Measured
  <2> QED
    BY <2>1, <2>2
<1>4. Measured'
  <2>1. row'[t] # ContextNone => MeasuredIs(t, row[t])'
    BY <1>0, <1>1, <1>3 DEF Measured, Measuring, MeasuredIs, ReadAs
  <2>2. \A u \in ContextTracks \ {t} : row'[u] # ContextNone => MeasuredIs(u, row[u])'
    BY <1>0, <1>1, <1>3 DEF Measured, MeasuredIs, ReadAs
  <2> QED
    BY <1>3, <2>1, <2>2 DEF Measured
<1>5. Measuring'
  BY <1>0, <1>1 DEF Measuring, MeasuredIs, ReadAs
<1> QED
  BY <1>2, <1>4, <1>5 DEF ContextIInv

(* A voice measurement is stored under the version of its track. *)
LEMMA Voicing ==
  ASSUME ContextIInv, VoiceTrack
  PROVE  ContextIInv'
<1>0. run # ContextNone /\ Files /\ Measured /\ Measuring
  BY DEF VoiceTrack, ContextIInv
<1>1. PICK t : t = Min(VoiceWork)
  OBVIOUS
<1>2. t \in ContextTracks /\ run.voice[t] # ContextNone
  BY <1>1, EarliestIsIn DEF VoiceTrack, VoiceWork
<1>3. UNCHANGED <<contextEdits, contextDisk, contextIndex>> /\ run' = [run EXCEPT !.voice[t] = ContextNone]
  BY <1>1 DEF VoiceTrack, contextFiles
<1>4. PICK outcome : store_context(t, [run.voice[t] EXCEPT !.job = run.job, !.complete = "full", !.voice = outcome])
  BY <1>1 DEF VoiceTrack
<1>5. PICK r : r = [run.voice[t] EXCEPT !.job = run.job, !.complete = "full", !.voice = outcome]
  OBVIOUS
<1>6. MeasuredIs(t, r)
  BY <1>0, <1>2, <1>5 DEF Measuring, MeasuredIs
<1>7. row' = row \/ row' = [row EXCEPT ![t] = r]
  BY <1>4, <1>5 DEF store_context, store
<1>8. MeasuredIs(t, r)'
  BY <1>3, <1>6, MeasuredStands
<1>9. Files'
  BY <1>0, <1>3 DEF Files
<1>10. Measured'
  <2> SUFFICES ASSUME NEW u \in ContextTracks, row'[u] # ContextNone PROVE MeasuredIs(u, row[u])'
    BY <1>0, <1>7 DEF Measured
  <2>1. CASE row'[u] = row[u]
    BY <1>0, <1>3, <2>1 DEF Measured, MeasuredIs, ReadAs
  <2>2. CASE u = t /\ row'[u] = r
    BY <1>8, <2>2 DEF MeasuredIs, ReadAs
  <2> QED
    BY <1>0, <1>2, <1>7, <2>1, <2>2 DEF Measured
<1>11. Measuring'
  BY <1>0, <1>3 DEF Measuring, MeasuredIs, ReadAs
<1> QED
  BY <1>9, <1>10, <1>11 DEF ContextIInv

(* Every step of a job, of the scanner and of a user keeps the invariant. *)
LEMMA ContextStep == ContextIInv /\ [ContextNext]_contextVars => ContextIInv'
<1> SUFFICES ASSUME ContextIInv, [ContextNext]_contextVars PROVE ContextIInv'
  OBVIOUS
<1>1. CASE ContextWork
  <2>1. CASE ContextFinish
    BY <2>1, OnlyJobs DEF ContextFinish, ContextEnd, store
  <2> QED
    BY <1>1, <2>1, Executing, Preparing, Voicing, Finishing DEF ContextWork
<1>2. CASE PanicDecode \/ StopCancelled \/ ContextRestart
  BY <1>2, OnlyJobs DEF PanicDecode, StopCancelled, ContextRestart, ContextEnd, store
<1>3. CASE \E force \in BOOLEAN : StartLibraryContextAnalysis(force)
  BY <1>3, OnlyJobs DEF StartLibraryContextAnalysis, store
<1>4. CASE \E j \in ContextJobIds : RetryJob(j) \/ CancelJob(j)
  BY <1>4, OnlyJobs DEF RetryJob, CancelJob, store
<1>5. ASSUME NEW t \in ContextTracks, EditFile(t) PROVE ContextIInv'
  BY <1>5, FilesChange DEF EditFile, store
<1>6. CASE UNCHANGED contextVars
  BY <1>6, OnlyJobs DEF contextVars, contextFiles
<1> QED
  BY <1>1, <1>2, <1>3, <1>4, <1>5, <1>6, Scanning, Moving DEF ContextNext

(* For every set of tracks and jobs: a measurement that is current for the index       *)
(* describes the content the file has at that version, also when the file was changed, *)
(* converted or restored while it was decoded (context jobs, the signature of a row).  *)
THEOREM ContextsDescribeTheirFiles == ContextSpec => []CurrentDescribesFile
<1>1. ContextIInv => CurrentDescribesFile
  BY DEF ContextIInv, Measured, MeasuredIs, ReadAs, ContextCurrent, CurrentDescribesFile
<1> QED
  BY <1>1, ContextInitially, ContextStep, PTL DEF ContextSpec

=============================================================================
