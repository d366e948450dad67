---------------------------- MODULE JobLifecycle ----------------------------
(***************************************************************************)
(* What the durable job system promises to whoever queues a job, without   *)
(* lanes, leases, restarts or storage calls.  A job waits, runs, and ends  *)
(* once; an accepted cancellation ends only in "cancelled"; a job whose    *)
(* contract forbids a restart is started at most once, so whatever it pays *)
(* for is paid at most once.                                               *)
(***************************************************************************)
EXTENDS Naturals

CONSTANTS
    JobIds       \* the jobs that may ever be submitted

VARIABLES
    status,      \* status[j], "absent" before the submission
    restartable, \* restartable[j]: the contract stored with the job
    starts       \* starts[j]: how often the job was started

lvars == <<status, restartable, starts>>

Ended == {"succeeded", "failed", "cancelled"}

Init ==
    /\ status = [j \in JobIds |-> "absent"]
    /\ restartable = [j \in JobIds |-> FALSE]
    /\ starts = [j \in JobIds |-> 0]

(* A submission stores the contract of the job. *)
Submit(j) ==
    /\ status[j] = "absent"
    /\ status' = [status EXCEPT ![j] = "queued"]
    /\ \E r \in BOOLEAN : restartable' = [restartable EXCEPT ![j] = r]
    /\ UNCHANGED starts

Start(j) ==
    /\ status[j] = "queued"
    /\ status' = [status EXCEPT ![j] = "running"]
    /\ starts' = [starts EXCEPT ![j] = @ + 1]
    /\ UNCHANGED restartable

(* A waiting job is cancelled at once; a running one is asked to stop. *)
RequestCancel(j) ==
    /\ status[j] \in {"queued", "running"}
    /\ status' = [status EXCEPT ![j] = IF @ = "queued" THEN "cancelled"
                                                       ELSE "cancel_requested"]
    /\ UNCHANGED <<restartable, starts>>

(* The end of a started job. *)
End(j) ==
    /\ \/ /\ status[j] = "running"
          /\ \E s \in Ended : status' = [status EXCEPT ![j] = s]
       \/ /\ status[j] = "cancel_requested"
          /\ status' = [status EXCEPT ![j] = "cancelled"]
    /\ UNCHANGED <<restartable, starts>>

(* What one restart of the server does to the jobs that were started: those *)
(* that may run again wait again, the others end.                           *)
Interrupted(j) ==
    CASE status[j] = "running"          -> IF restartable[j] THEN {"queued", "failed"}
                                                             ELSE {"failed"}
      [] status[j] = "cancel_requested" -> {"cancelled"}
      [] OTHER                          -> {status[j]}

Interrupt ==
    /\ \E s \in [JobIds -> Ended \cup {"absent", "queued"}] :
          /\ \A j \in JobIds : s[j] \in Interrupted(j)
          /\ status' = s
    /\ UNCHANGED <<restartable, starts>>

(* One job that may run again is put back while the others keep running. *)
Requeue(j) ==
    /\ status[j] = "running"
    /\ restartable[j]
    /\ status' = [status EXCEPT ![j] = "queued"]
    /\ UNCHANGED <<restartable, starts>>

Next ==
    \/ \E j \in JobIds :
          Submit(j) \/ Start(j) \/ RequestCancel(j) \/ End(j) \/ Requeue(j)
    \/ Interrupt

Spec == Init /\ [][Next]_lvars
=============================================================================
